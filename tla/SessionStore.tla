---------------------------- MODULE SessionStore ----------------------------
(***************************************************************************)
(* What the session manager promises the rest of data-warehouse-mcp, with  *)
(* no thread, lock, clock or directory in sight: a store that holds at     *)
(* most MaxSessions sessions, admits and drops them one at a time, and     *)
(* whose three metrics always agree with its content.                      *)
(*                                                                         *)
(* Source: images/data-warehouse-mcp/internal/session/manager.go, type     *)
(* Manager and the metrics of internal/httpapi/metrics.go.                 *)
(***************************************************************************)
EXTENDS Naturals, FiniteSets

CONSTANTS
  Session,      \* every session id the program can draw
  MaxSessions   \* Config.MaxSessions

VARIABLES
  live,         \* the sessions a tool call can name
  gauge,        \* SessionsActive
  admitted,     \* SessionsCreated
  dropped       \* SessionsExpired

storeVars == <<live, gauge, admitted, dropped>>

Init ==
  /\ live = {}
  /\ gauge = 0
  /\ admitted = 0
  /\ dropped = 0

\* A session joins the store only while there is room for it.
Admit(s) ==
  /\ s \notin live
  /\ Cardinality(live) < MaxSessions
  /\ live' = live \union {s}
  /\ gauge' = gauge + 1
  /\ admitted' = admitted + 1
  /\ UNCHANGED dropped

\* A session leaves the store, by expiry or by eviction, and is counted once.
Withdraw(s) ==
  /\ s \in live
  /\ live' = live \ {s}
  /\ gauge' = gauge - 1
  /\ dropped' = dropped + 1
  /\ UNCHANGED admitted

\* The process restarts: the map and the in-memory metrics start over.
Reset ==
  /\ live' = {}
  /\ gauge' = 0
  /\ admitted' = 0
  /\ dropped' = 0

Next ==
  \/ \E s \in Session : Admit(s) \/ Withdraw(s)
  \/ Reset

Spec == Init /\ [][Next]_storeVars
=============================================================================
