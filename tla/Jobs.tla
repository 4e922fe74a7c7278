-------------------------------- MODULE Jobs --------------------------------
(***************************************************************************)
(* What the jobs of the charts have in common.  Kubernetes runs one pod of *)
(* a job at a time and makes another when it fails, up to backoffLimit     *)
(* times; Argo CD makes the job again at a sync.  A pod's script is at one *)
(* of its statements; a killed pod leaves what it did and forgets the rest.*)
(***************************************************************************)
EXTENDS Naturals

CONSTANTS
  Deployments,    \* sets of jobs; a behaviour is about the jobs of one of them
  BackoffLimit,   \* of each job
  Polls,          \* attempts of a wait loop (90, 60 and 30 in the code)
  MaxKills,       \* pods killed, or whose request is lost or not answered
  MaxSyncs        \* jobs made again

Job == {"garage-init", "polaris-init", "kafka-ca-init", "superset-import"}

ASSUME JobsAssumption ==
  /\ Deployments \subseteq SUBSET Job
  /\ BackoffLimit \in [Job -> Nat]
  /\ Polls \in Nat \ {0}
  /\ MaxKills \in Nat /\ MaxSyncs \in Nat

VARIABLES
  job,        \* not deployed, or whether the job has no pod yet, a pod, or has ended
  at,         \* the statement the pod's script is at
  failures,   \* pods that failed
  tries,      \* attempts made by the wait loop the script is in
  kills, syncs

jobVars == <<job, failures, syncs>>
podVars == <<at, tries, kills>>

InitOfJobs ==
  /\ \E deployed \in Deployments :
       job = [j \in Job |-> IF j \in deployed THEN "pending" ELSE "absent"]
  /\ at = [j \in Job |-> "none"]
  /\ failures = [j \in Job |-> 0]
  /\ tries = [j \in Job |-> 0]
  /\ kills = 0 /\ syncs = 0

Goto(j, line) == at' = [at EXCEPT ![j] = line]

\* The pod goes on to the next statement.
Advance(j, from, to) ==
  /\ at[j] = from
  /\ Goto(j, to)
  /\ UNCHANGED <<jobVars, tries, kills>>

\* The script raises, or its container dies; past backoffLimit the job has failed.
PodFails(j) ==
  /\ failures' = [failures EXCEPT ![j] = @ + 1]
  /\ job' = [job EXCEPT ![j] = IF failures[j] < BackoffLimit[j] THEN "pending" ELSE "failed"]
  /\ at' = [at EXCEPT ![j] = "none"]
  /\ UNCHANGED syncs

\* One attempt of a wait loop, which raises after the last.
Poll(j, from, ok, to) ==
  /\ at[j] = from
  /\ \/ /\ ok
        /\ tries' = [tries EXCEPT ![j] = 0]
        /\ Goto(j, to)
        /\ UNCHANGED jobVars
     \/ /\ ~ok /\ tries[j] + 1 < Polls
        /\ tries' = [tries EXCEPT ![j] = @ + 1]
        /\ UNCHANGED <<at, jobVars>>
     \/ /\ ~ok /\ tries[j] + 1 = Polls
        /\ tries' = [tries EXCEPT ![j] = 0]
        /\ PodFails(j)
  /\ UNCHANGED kills

=============================================================================
