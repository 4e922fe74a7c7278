------------------------ MODULE SessionManagerProofs ------------------------
(***************************************************************************)
(* Proofs about SessionManager.                                            *)
(*                                                                         *)
(* IInv is the inductive invariant: the types, who holds m.mu, which       *)
(* sessions a thread may work on, and the three facts the theorems need    *)
(* (the bound of the map, the loop of lruSession, the directories).  Each  *)
(* action preserves it.  Under it every step of the manager is a step or a *)
(* stutter of SessionStore, and the metrics then follow from the store.    *)
(***************************************************************************)
EXTENDS SessionManager, FiniteSetTheorems, TLAPS

\* A handler in Create between Lock and Unlock is the holder of m.mu.
HolderInv == \A r \in Request : mu = r <=> pc[r] \in {"scanning", "extracting"}

\* The places of a handler that has been given a session.
Using == {"checking", "touching", "expiring", "holding", "writing", "started",
          "registering", "waiting", "killed"}

\* The id is drawn and its Create is over: no extraction runs in its directory.
Settled(s) == s \in ids /\ ~ Creating(s)

\* Nobody but its Create works on a session that is being created.
ControlInv ==
  /\ \A r \in Request : pc[r] = "extracting" => ses[r] \in ids
  /\ \A r \in Request : pc[r] \in Using => Settled(ses[r])
  /\ \A r \in Request : pc[r] \in {"started", "registering", "waiting", "killed"} => grp[r] \in Group
  /\ \A r \in Request : phase[r] # "idle" => pc[r] = "expiring"
  /\ \A c \in Cleaner : phase[c] # "idle" => Settled(target[c])
  /\ \A s \in batch : Settled(s)
  /\ \A s \in sessions : Settled(s)

\* An eviction goroutine cleans the session it was spawned for, which has left the map.
EvictorInv ==
  \A s \in Session : phase[s] # "idle" =>
    target[s] = s /\ s \notin sessions /\ phase[s] # "drop"

\* While lruSession runs m.mu is held, so what it found is still in the map.
ScanInv ==
  \A r \in Request : pc[r] = "scanning" =>
    /\ scan.todo \subseteq sessions
    /\ scan.oldest = None => scan.todo # {}
    /\ scan.oldest # None => scan.oldest \in sessions

\* A Create that is extracting has room for its session.
RoomInv ==
  /\ CapacityBound
  /\ \A r \in Request : pc[r] = "extracting" => Cardinality(sessions) < MaxSessions

DirInv ==
  /\ LiveSessionHasDirectory
  /\ \A r \in Request : pc[r] = "extracting" => ses[r] \in dir

IInv == StateTypes /\ HolderInv /\ ControlInv /\ EvictorInv /\ ScanInv /\ RoomInv /\ DirInv

-----------------------------------------------------------------------------
(* Cardinalities of sets of sessions.                                      *)

LEMMA SubsetCardinality ==
  ASSUME NEW S \in SUBSET Session
  PROVE  /\ Cardinality(S) \in Nat
         /\ \A s \in Session \ S : Cardinality(S \union {s}) = Cardinality(S) + 1
         /\ \A s \in S : Cardinality(S \ {s}) = Cardinality(S) - 1
<1>1. IsFiniteSet(S)
  BY FS_Subset, NamesAssumption
<1> QED
  BY <1>1, FS_CardinalityType, FS_AddElement, FS_RemoveElement

LEMMA EmptyCardinality == Cardinality({}) = 0
BY FS_EmptySet

\* A full map is not empty, because the bound is at least one.
LEMMA FullNotEmpty ==
  ASSUME Cardinality(sessions) >= MaxSessions
  PROVE  sessions # {}
BY EmptyCardinality, ConfigAssumption

\* Taking a session out of the map, or finding it gone, keeps the room there is.
LEMMA DropKeepsRoom ==
  ASSUME sessions \in SUBSET Session, RoomInv, NEW s, DropFromMap(s),
         \A r \in Request : pc'[r] = "extracting" => pc[r] = "extracting"
  PROVE  RoomInv'
<1>1. sessions' \in SUBSET Session /\ Cardinality(sessions') <= Cardinality(sessions)
  BY SubsetCardinality DEF DropFromMap
<1>2. Cardinality(sessions) \in Nat /\ Cardinality(sessions') \in Nat
  BY <1>1, SubsetCardinality
<1> QED
  BY <1>1, <1>2, ConfigAssumption DEF RoomInv, CapacityBound

\* An eviction makes room for one.
LEMMA EvictMakesRoom ==
  ASSUME sessions \in SUBSET Session, CapacityBound, NEW s \in sessions, DropFromMap(s)
  PROVE  RoomInv'
<1>1. Cardinality(sessions') = Cardinality(sessions) - 1
  BY SubsetCardinality DEF DropFromMap
<1> QED
  BY <1>1, SubsetCardinality, ConfigAssumption DEF RoomInv, CapacityBound

\* The room a Create found is enough for its session.
LEMMA AdmitFits ==
  ASSUME sessions \in SUBSET Session, Cardinality(sessions) < MaxSessions,
         NEW s \in Session, sessions' = sessions \union {s},
         \A r \in Request : pc'[r] # "extracting"
  PROVE  RoomInv'
<1>1. Cardinality(sessions') <= Cardinality(sessions) + 1
  <2>1. CASE s \in sessions
    <3>1. sessions' = sessions
      BY <2>1
    <3> QED
      BY <3>1, SubsetCardinality
  <2>2. CASE s \notin sessions
    BY <2>2, SubsetCardinality
  <2> QED
    BY <2>1, <2>2
<1>2. Cardinality(sessions) \in Nat /\ Cardinality(sessions') \in Nat
  BY SubsetCardinality
<1> QED
  BY <1>1, <1>2, ConfigAssumption DEF RoomInv, CapacityBound

-----------------------------------------------------------------------------
(* Each action preserves IInv.                                             *)

LEMMA InitIInv == Init => IInv
BY EmptyCardinality, NamesAssumption, ConfigAssumption
   DEF Init, IInv, StateTypes, HandlerStates, CleanupPhases, Cleaner, HolderInv, ControlInv,
       EvictorInv, ScanInv, RoomInv, CapacityBound, DirInv, LiveSessionHasDirectory, Using

LEMMA CreatePreserves ==
  ASSUME NEW r \in Request, IInv, CreateStep(r)
  PROVE  IInv'
<1> USE NamesAssumption DEF IInv, StateTypes, HandlerStates, CleanupPhases, Cleaner, HolderInv,
      ControlInv, Settled, Creating, Using, EvictorInv, ScanInv, RoomInv, CapacityBound, DirInv,
      LiveSessionHasDirectory
<1>1. ASSUME NEW s \in Session, CreateBegin(r, s) PROVE IInv'
  BY <1>1 DEF CreateBegin, GoTo, MakeDir, Fresh, cleanVars
<1>2. ASSUME CreateFull(r) PROVE IInv'
  <2>1. StateTypes'
    BY <1>2 DEF CreateFull, GoTo, Fresh, objVars, diskVars, cleanVars
  <2>2. HolderInv'
    BY <1>2 DEF CreateFull, GoTo, Fresh, objVars, diskVars, cleanVars
  <2>3. ControlInv'
    BY <1>2 DEF CreateFull, GoTo, Fresh, objVars, diskVars, cleanVars
  <2>4. EvictorInv'
    BY <1>2 DEF CreateFull, GoTo, Fresh, objVars, diskVars, cleanVars
  <2>5. ScanInv'
    BY <1>2, FullNotEmpty DEF CreateFull, GoTo, Fresh, objVars, diskVars, cleanVars
  <2>6. RoomInv'
    BY <1>2 DEF CreateFull, GoTo, Fresh, objVars, diskVars, cleanVars
  <2>7. DirInv'
    BY <1>2 DEF CreateFull, GoTo, Fresh, objVars, diskVars, cleanVars
  <2> QED
    BY <2>1, <2>2, <2>3, <2>4, <2>5, <2>6, <2>7
<1>3. ASSUME NEW s \in Session, ScanOne(r, s) PROVE IInv'
  BY <1>3 DEF ScanOne, mapVars, objVars, diskVars, reqVars, cleanVars
<1>4. ASSUME NEW s \in Session, CreateEvict(r, s) PROVE IInv'
  <2>1. StateTypes'
    BY <1>4 DEF CreateEvict, GoTo, DropFromMap, BeginCleanup, MakeDir, Fresh
  <2>2. HolderInv'
    BY <1>4 DEF CreateEvict, GoTo, DropFromMap, BeginCleanup, MakeDir, Fresh
  <2>3. ControlInv'
    BY <1>4 DEF CreateEvict, GoTo, DropFromMap, BeginCleanup, MakeDir, Fresh
  <2>4. EvictorInv'
    BY <1>4 DEF CreateEvict, GoTo, DropFromMap, BeginCleanup, MakeDir, Fresh
  <2>5. ScanInv'
    BY <1>4 DEF CreateEvict, GoTo, DropFromMap, BeginCleanup, MakeDir, Fresh
  <2>6. RoomInv'
    <3>1. scan.oldest \in sessions /\ DropFromMap(scan.oldest)
      BY <1>4 DEF CreateEvict
    <3> QED
      BY <3>1, EvictMakesRoom
  <2>7. DirInv'
    BY <1>4 DEF CreateEvict, GoTo, DropFromMap, BeginCleanup, MakeDir, Fresh
  <2> QED
    BY <2>1, <2>2, <2>3, <2>4, <2>5, <2>6, <2>7
<1>5. ASSUME CreateFinish(r) PROVE IInv'
  <2>1. StateTypes'
    BY <1>5 DEF CreateFinish, GoTo, Finish, diskVars, cleanVars
  <2>2. HolderInv'
    BY <1>5 DEF CreateFinish, GoTo, Finish, diskVars, cleanVars
  <2>3. ControlInv'
    BY <1>5 DEF CreateFinish, GoTo, Finish, diskVars, cleanVars
  <2>4. EvictorInv'
    BY <1>5 DEF CreateFinish, GoTo, Finish, diskVars, cleanVars
  <2>5. ScanInv'
    BY <1>5 DEF CreateFinish, GoTo, Finish, diskVars, cleanVars
  <2>6. RoomInv'
    <3>1. Cardinality(sessions) < MaxSessions /\ ses[r] \in Session
      BY <1>5 DEF CreateFinish
    <3>2. \A q \in Request : pc'[q] # "extracting"
      BY <1>5 DEF CreateFinish, GoTo, Finish
    <3>3. sessions' = sessions \union {ses[r]}
      BY <1>5 DEF CreateFinish
    <3> QED
      BY <3>1, <3>2, <3>3, AdmitFits
  <2>7. DirInv'
    BY SMTT(20), <1>5 DEF CreateFinish, GoTo, Finish, diskVars, cleanVars
  <2> QED
    BY <2>1, <2>2, <2>3, <2>4, <2>5, <2>6, <2>7
<1>6. ASSUME CreateFail(r) PROVE IInv'
  BY <1>6 DEF CreateFail, GoTo, Finish, objVars, cleanVars
<1> QED
  BY <1>1, <1>2, <1>3, <1>4, <1>5, <1>6 DEF CreateStep

LEMMA TouchPreserves ==
  ASSUME NEW r \in Request, IInv, TouchStep(r)
  PROVE  IInv'
<1> USE NamesAssumption DEF IInv, StateTypes, HandlerStates, CleanupPhases, Cleaner, HolderInv,
      ControlInv, Settled, Creating, Using, EvictorInv, ScanInv, RoomInv, CapacityBound, DirInv,
      LiveSessionHasDirectory
<1>1. ASSUME NEW s \in Session, Lookup(r, s) PROVE IInv'
  BY <1>1 DEF Lookup, GoTo, mapVars, objVars, diskVars, cleanVars
<1>2. ASSUME CheckExpired(r) PROVE IInv'
  <2>1. StateTypes'
    BY <1>2 DEF CheckExpired, GoTo, BeginCleanup, mapVars, objVars, diskVars
  <2>2. HolderInv'
    BY <1>2 DEF CheckExpired, GoTo, BeginCleanup, mapVars, objVars, diskVars
  <2>3. ControlInv'
    BY <1>2 DEF CheckExpired, GoTo, BeginCleanup, mapVars, objVars, diskVars
  <2>4. EvictorInv'
    BY <1>2 DEF CheckExpired, GoTo, BeginCleanup, mapVars, objVars, diskVars
  <2>5. ScanInv'
    BY <1>2 DEF CheckExpired, GoTo, BeginCleanup, mapVars, objVars, diskVars
  <2>6. RoomInv'
    BY <1>2 DEF CheckExpired, GoTo, BeginCleanup, mapVars, objVars, diskVars
  <2>7. DirInv'
    BY SMTT(20), <1>2 DEF CheckExpired, GoTo, BeginCleanup, mapVars, objVars, diskVars
  <2> QED
    BY <2>1, <2>2, <2>3, <2>4, <2>5, <2>6, <2>7
<1>3. ASSUME CheckFresh(r) PROVE IInv'
  BY <1>3 DEF CheckFresh, GoTo, mapVars, objVars, diskVars, cleanVars
<1>4. ASSUME Touch(r) PROVE IInv'
  <2>1. StateTypes'
    <3>1. lastActivity' \in [Session -> Nat]
      BY <1>4 DEF Touch
    <3>2. pc' \in [Request -> HandlerStates] /\ grp' \in [Request -> Group \union {None}]
      BY <1>4 DEF Touch, GoTo, Finish
    <3>3. ses' \in [Request -> Session \union {None}]
      BY <1>4 DEF Touch, Finish
    <3> QED
      BY <1>4, <3>1, <3>2, <3>3 DEF Touch, mapVars, diskVars, cleanVars
  <2>2. HolderInv'
    BY <1>4 DEF Touch, GoTo, Finish, mapVars, diskVars, cleanVars
  <2>3. ControlInv'
    BY <1>4 DEF Touch, GoTo, Finish, mapVars, diskVars, cleanVars
  <2>4. EvictorInv'
    BY <1>4 DEF Touch, GoTo, Finish, mapVars, diskVars, cleanVars
  <2>5. ScanInv'
    BY <1>4 DEF Touch, GoTo, Finish, mapVars, diskVars, cleanVars
  <2>6. RoomInv'
    BY <1>4 DEF Touch, GoTo, Finish, mapVars, diskVars, cleanVars
  <2>7. DirInv'
    BY <1>4 DEF Touch, GoTo, Finish, mapVars, diskVars, cleanVars
  <2> QED
    BY <2>1, <2>2, <2>3, <2>4, <2>5, <2>6, <2>7
<1> QED
  BY <1>1, <1>2, <1>3, <1>4 DEF TouchStep

LEMMA UsePreserves ==
  ASSUME NEW r \in Request, IInv, UseStep(r)
  PROVE  IInv'
<1> USE NamesAssumption DEF IInv, StateTypes, HandlerStates, CleanupPhases, Cleaner, HolderInv,
      ControlInv, Settled, Creating, Using, EvictorInv, ScanInv, RoomInv, CapacityBound, DirInv,
      LiveSessionHasDirectory
<1>1. ASSUME Return(r) PROVE IInv'
  BY <1>1 DEF Return, GoTo, Finish, mapVars, objVars, diskVars, cleanVars
<1>2. ASSUME ResolvePath(r) PROVE IInv'
  BY <1>2 DEF ResolvePath, GoTo, mapVars, objVars, diskVars, cleanVars
<1>3. ASSUME WriteFile(r) PROVE IInv'
  BY <1>3 DEF WriteFile, GoTo, Finish, mapVars, objVars, cleanVars
<1>4. ASSUME NEW g \in Group, StartCommand(r, g) PROVE IInv'
  BY <1>4 DEF StartCommand, GoTo, mapVars, objVars, diskVars, cleanVars
<1>5. ASSUME RegisterLookup(r) \/ Register(r) PROVE IInv'
  BY <1>5 DEF RegisterLookup, Register, GoTo, mapVars, objVars, diskVars, cleanVars
<1>6. ASSUME RegisterFail(r) PROVE IInv'
  BY <1>6 DEF RegisterFail, ForgetCommand, GoTo, Finish, mapVars, objVars, diskVars, cleanVars
<1>7. ASSUME CommandTimeout(r) PROVE IInv'
  BY <1>7 DEF CommandTimeout, GoTo, mapVars, objVars, diskVars, cleanVars
<1>8. ASSUME Reap(r) \/ WaitReturns(r) \/ Escape(r) \/ StrayExit(r) PROVE IInv'
  BY <1>8 DEF Reap, WaitReturns, Escape, StrayExit, mapVars, objVars, diskVars, reqVars, cleanVars
<1>9. ASSUME Unregister(r) PROVE IInv'
  BY <1>9 DEF Unregister, ForgetCommand, GoTo, Finish, mapVars, diskVars, cleanVars
<1> QED
  BY <1>1, <1>2, <1>3, <1>4, <1>5, <1>6, <1>7, <1>8, <1>9 DEF UseStep

LEMMA CleanupPreserves ==
  ASSUME NEW c \in Cleaner, IInv, CleanupStep(c)
  PROVE  IInv'
<1> USE NamesAssumption DEF IInv, StateTypes, HandlerStates, CleanupPhases, Cleaner, HolderInv,
      ControlInv, Settled, Creating, Using, EvictorInv, ScanInv, RoomInv, CapacityBound, DirInv,
      LiveSessionHasDirectory
<1>1. ASSUME CleanupRead(c) PROVE IInv'
  BY <1>1 DEF CleanupRead, mapVars, objVars, diskVars, reqVars
<1>2. ASSUME CleanupKill(c) PROVE IInv'
  BY <1>2 DEF CleanupKill, mapVars, objVars, diskVars, reqVars
<1>3. ASSUME RemoveDir(c) PROVE IInv'
  BY <1>3 DEF RemoveDir, EndCleanup, mapVars, objVars, reqVars
<1>4. ASSUME RemoveDirFail(c) PROVE IInv'
  BY <1>4 DEF RemoveDirFail, EndCleanup, mapVars, objVars, reqVars
<1> QED
  BY <1>1, <1>2, <1>3, <1>4 DEF CleanupStep

LEMMA SweepPreserves ==
  ASSUME IInv, SweepStep
  PROVE  IInv'
<1> USE NamesAssumption DEF IInv, StateTypes, HandlerStates, CleanupPhases, Cleaner, HolderInv,
      ControlInv, Settled, Creating, Using, EvictorInv, ScanInv, RoomInv, CapacityBound, DirInv,
      LiveSessionHasDirectory
<1>1. ASSUME SweepCollect PROVE IInv'
  BY <1>1 DEF SweepCollect, mapVars, objVars, diskVars, reqVars
<1>2. ASSUME NEW s \in Session, SweepNext(s) PROVE IInv'
  BY <1>2 DEF SweepNext, BeginCleanup, mapVars, objVars, diskVars, reqVars
<1>3. ASSUME RemoveDirFailSweep PROVE IInv'
  BY <1>3 DEF RemoveDirFailSweep, EndCleanup, mapVars, objVars, diskVars, reqVars
<1>4. ASSUME SweepDrop PROVE IInv'
  <2>1. StateTypes'
    BY <1>4 DEF SweepDrop, DropFromMap, EndCleanup, objVars, diskVars, reqVars
  <2>2. HolderInv'
    BY <1>4 DEF SweepDrop, DropFromMap, EndCleanup, objVars, diskVars, reqVars
  <2>3. ControlInv'
    BY <1>4 DEF SweepDrop, DropFromMap, EndCleanup, objVars, diskVars, reqVars
  <2>4. EvictorInv'
    BY <1>4 DEF SweepDrop, DropFromMap, EndCleanup, objVars, diskVars, reqVars
  <2>5. ScanInv'
    BY <1>4 DEF SweepDrop, DropFromMap, EndCleanup, objVars, diskVars, reqVars
  <2>6. RoomInv'
    <3>1. DropFromMap(target[Sweeper]) /\ UNCHANGED pc
      BY <1>4 DEF SweepDrop, reqVars
    <3> QED
      BY <3>1, DropKeepsRoom
  <2>7. DirInv'
    BY <1>4 DEF SweepDrop, DropFromMap, EndCleanup, objVars, diskVars, reqVars
  <2> QED
    BY <2>1, <2>2, <2>3, <2>4, <2>5, <2>6, <2>7
<1> QED
  BY <1>1, <1>2, <1>3, <1>4 DEF SweepStep

LEMMA ExpirePreserves ==
  ASSUME NEW r \in Request, IInv, ExpireDrop(r)
  PROVE  IInv'
<1> USE NamesAssumption DEF IInv, StateTypes, HandlerStates, CleanupPhases, Cleaner, HolderInv,
      ControlInv, Settled, Creating, Using, EvictorInv, ScanInv, RoomInv, CapacityBound, DirInv,
      LiveSessionHasDirectory
<1>1. ASSUME ExpireDrop(r) PROVE IInv'
  <2>1. StateTypes'
    BY <1>1 DEF ExpireDrop, GoTo, Finish, DropFromMap, EndCleanup, objVars, diskVars
  <2>2. HolderInv'
    BY <1>1 DEF ExpireDrop, GoTo, Finish, DropFromMap, EndCleanup, objVars, diskVars
  <2>3. ControlInv'
    BY <1>1 DEF ExpireDrop, GoTo, Finish, DropFromMap, EndCleanup, objVars, diskVars
  <2>4. EvictorInv'
    BY <1>1 DEF ExpireDrop, GoTo, Finish, DropFromMap, EndCleanup, objVars, diskVars
  <2>5. ScanInv'
    BY <1>1 DEF ExpireDrop, GoTo, Finish, DropFromMap, EndCleanup, objVars, diskVars
  <2>6. RoomInv'
    <3>1. \A q \in Request : pc'[q] = "extracting" => pc[q] = "extracting"
      BY <1>1 DEF ExpireDrop, GoTo, Finish
    <3>2. DropFromMap(target[r])
      BY <1>1 DEF ExpireDrop
    <3> QED
      BY <3>1, <3>2, DropKeepsRoom
  <2>7. DirInv'
    BY <1>1 DEF ExpireDrop, GoTo, Finish, DropFromMap, EndCleanup, objVars, diskVars
  <2> QED
    BY <2>1, <2>2, <2>3, <2>4, <2>5, <2>6, <2>7
<1> QED
  BY <1>1 DEF ExpireDrop

LEMMA OtherPreserves ==
  ASSUME IInv, Tick \/ Restart \/ \E g \in Group : ProcessExit(g)
  PROVE  IInv'
<1> USE NamesAssumption DEF IInv, StateTypes, HandlerStates, CleanupPhases, Cleaner, HolderInv,
      ControlInv, Settled, Creating, Using, EvictorInv, ScanInv, RoomInv, CapacityBound, DirInv,
      LiveSessionHasDirectory
<1>1. ASSUME Tick PROVE IInv'
  BY <1>1 DEF Tick, mapVars, objVars, diskVars, reqVars, cleanVars
<1>2. ASSUME NEW g \in Group, ProcessExit(g) PROVE IInv'
  BY <1>2 DEF ProcessExit, mapVars, objVars, diskVars, reqVars, cleanVars
<1>3. ASSUME Restart PROVE IInv'
  <2>1. StateTypes'
    BY <1>3 DEF Restart
  <2>2. HolderInv'
    BY <1>3 DEF Restart
  <2>3. ControlInv'
    BY <1>3 DEF Restart
  <2>4. EvictorInv'
    BY <1>3 DEF Restart
  <2>5. ScanInv'
    BY <1>3 DEF Restart
  <2>6. RoomInv'
    BY <1>3, EmptyCardinality, ConfigAssumption DEF Restart
  <2>7. DirInv'
    BY <1>3 DEF Restart
  <2> QED
    BY <2>1, <2>2, <2>3, <2>4, <2>5, <2>6, <2>7
<1> QED
  BY <1>1, <1>2, <1>3


LEMMA NextIInv == IInv /\ [Next]_vars => IInv'
<1> SUFFICES ASSUME IInv, [Next]_vars PROVE IInv'
  OBVIOUS
<1>1. CASE Next
  BY <1>1, CreatePreserves, TouchPreserves, UsePreserves, CleanupPreserves, SweepPreserves,
     ExpirePreserves, OtherPreserves DEF Next
<1>2. CASE UNCHANGED vars
  BY <1>2 DEF vars, mapVars, objVars, diskVars, reqVars, cleanVars, IInv, StateTypes, HolderInv,
     ControlInv, Settled, Creating, EvictorInv, ScanInv, RoomInv, CapacityBound, DirInv,
     LiveSessionHasDirectory
<1> QED
  BY <1>1, <1>2

LEMMA Invariance == Spec => []IInv
BY InitIInv, NextIInv, PTL DEF Spec

-----------------------------------------------------------------------------
(* The refinement of SessionStore.                                         *)

\* Store has a copy of Cardinality of its own.
LEMMA SameCardinality == Store!Cardinality(sessions) = Cardinality(sessions)
BY DEF Store!Cardinality, Cardinality

LEMMA InitStore == Init => Store!Init
BY DEF Init, Store!Init

\* An action that leaves the map and the metrics alone is a stutter of the store.
LEMMA StepStore == IInv /\ [Next]_vars => [Store!Next]_(Store!storeVars)
<1> SUFFICES ASSUME IInv, [Next]_vars PROVE [Store!Next]_(Store!storeVars)
  OBVIOUS
<1> USE DEF mapVars, Store!storeVars
<1>1. ASSUME NEW r \in Request, CreateStep(r) PROVE [Store!Next]_(Store!storeVars)
  <2>1. ASSUME NEW s \in Session, CreateEvict(r, s) PROVE Store!Withdraw(scan.oldest)
    BY <2>1 DEF CreateEvict, DropFromMap, IInv, ScanInv, Store!Withdraw
  <2>2. ASSUME NEW s \in Session, CreateEvict(r, s) PROVE scan.oldest \in Session
    BY <2>2 DEF CreateEvict, IInv, ScanInv, StateTypes
  <2>3. ASSUME CreateFinish(r) PROVE Store!Admit(ses[r]) /\ ses[r] \in Session
    BY <2>3, SameCardinality DEF CreateFinish, IInv, StateTypes, ControlInv, Settled, Creating,
       RoomInv, Store!Admit
  <2> QED
    BY <1>1, <2>1, <2>2, <2>3
       DEF CreateStep, CreateBegin, CreateFull, ScanOne, CreateFail, Store!Next
<1>2. ASSUME NEW r \in Request, TouchStep(r) \/ UseStep(r) PROVE UNCHANGED Store!storeVars
  BY <1>2 DEF TouchStep, CheckExpired, CheckFresh, Touch, Lookup, UseStep, Return, ResolvePath,
     WriteFile, RegisterLookup, Register, RegisterFail, CommandTimeout, Reap, WaitReturns,
     Unregister, StartCommand, Escape, StrayExit
<1>3. ASSUME NEW c \in Cleaner, CleanupStep(c) PROVE UNCHANGED Store!storeVars
  BY <1>3 DEF CleanupStep, CleanupRead, CleanupKill, RemoveDir, RemoveDirFail
<1>4. ASSUME NEW s, DropFromMap(s), created' = created PROVE [Store!Next]_(Store!storeVars)
  BY <1>4 DEF DropFromMap, IInv, StateTypes, Store!Next, Store!Withdraw
<1>5. ASSUME SweepStep PROVE [Store!Next]_(Store!storeVars)
  BY <1>4, <1>5 DEF SweepStep, SweepCollect, RemoveDirFailSweep, SweepNext, SweepDrop
<1>6. ASSUME NEW r \in Request, ExpireDrop(r) PROVE [Store!Next]_(Store!storeVars)
  BY <1>4, <1>6 DEF ExpireDrop
<1>7. ASSUME Restart PROVE Store!Next
  BY <1>7 DEF Restart, Store!Next, Store!Reset
<1>8. ASSUME Tick \/ \E g \in Group : ProcessExit(g) PROVE UNCHANGED Store!storeVars
  BY <1>8 DEF Tick, ProcessExit
<1>9. ASSUME UNCHANGED vars PROVE UNCHANGED Store!storeVars
  BY <1>9 DEF vars
<1> QED
  BY <1>1, <1>2, <1>3, <1>5, <1>6, <1>7, <1>8, <1>9 DEF Next

\* The manager, with all its threads, locks and failures, behaves like a bounded
\* store that counts each session once in and once out (manager.go 84-240).
THEOREM Refinement == Spec => ImplementsStore
BY InitStore, StepStore, Invariance, PTL DEF Spec, ImplementsStore, Store!Spec

-----------------------------------------------------------------------------
(* The theorems.                                                           *)

\* What the metrics say of the map.
MetricsInv ==
  /\ active = Cardinality(sessions)
  /\ expired \in Nat
  /\ created = active + expired

LEMMA StoreMetrics ==
  ASSUME sessions \in SUBSET Session, MetricsInv, [Store!Next]_(Store!storeVars)
  PROVE  MetricsInv'
<1> USE SubsetCardinality DEF MetricsInv
<1>1. ASSUME NEW s \in Session, Store!Admit(s) PROVE MetricsInv'
  BY <1>1 DEF Store!Admit
<1>2. ASSUME NEW s \in Session, Store!Withdraw(s) PROVE MetricsInv'
  BY <1>2 DEF Store!Withdraw
<1>3. ASSUME Store!Reset PROVE MetricsInv'
  BY <1>3, EmptyCardinality DEF Store!Reset
<1>4. ASSUME UNCHANGED Store!storeVars PROVE MetricsInv'
  BY <1>4 DEF Store!storeVars
<1> QED
  BY <1>1, <1>2, <1>3, <1>4 DEF Store!Next

LEMMA InitCommandTypes == Init => CommandTypes
BY DEF Init, CommandTypes, ProcStates

\* The kernel's and the command's own steps keep their types.
LEMMA NextCommandTypes == IInv /\ CommandTypes /\ [Next]_vars => CommandTypes'
<1> SUFFICES ASSUME IInv, CommandTypes, [Next]_vars PROVE CommandTypes'
  OBVIOUS
<1> USE DEF CommandTypes, ProcStates
<1>1. CASE UNCHANGED procVars
  BY <1>1 DEF procVars
<1>2. CASE \/ UNCHANGED vars \/ Tick \/ SweepStep
          \/ \E r \in Request : CreateStep(r) \/ TouchStep(r) \/ ExpireDrop(r)
  BY <1>1, <1>2 DEF vars, Tick, SweepStep, SweepCollect, SweepNext, RemoveDirFailSweep, SweepDrop,
     CreateStep, CreateFull, CreateFinish, CreateFail, CreateBegin, ScanOne, CreateEvict,
     TouchStep, CheckExpired, CheckFresh, Touch, Lookup, ExpireDrop
<1>3. CASE Restart
  BY <1>3 DEF Restart
<1>4. ASSUME NEW c \in Cleaner, CleanupStep(c) PROVE CommandTypes'
  BY <1>1, <1>4 DEF CleanupStep, CleanupRead, CleanupKill, RemoveDir, RemoveDirFail, Signalled
<1>5. ASSUME NEW g \in Group, ProcessExit(g) PROVE CommandTypes'
  BY <1>5 DEF ProcessExit
<1>6. ASSUME NEW r \in Request, UseStep(r) PROVE CommandTypes'
  <2>1. CASE Return(r) \/ ResolvePath(r) \/ WriteFile(r) \/ RegisterLookup(r)
    BY <1>1, <2>1 DEF Return, ResolvePath, WriteFile, RegisterLookup
  <2>2. CASE Register(r) \/ Unregister(r) \/ WaitReturns(r) \/ Escape(r) \/ StrayExit(r)
    BY <2>2 DEF Register, Unregister, ForgetCommand, WaitReturns, Escape, StrayExit
  <2>3. CASE RegisterFail(r)
    <3>1. PICK p \in ProcStates : proc' = [proc EXCEPT ![grp[r]] = p]
      <4>1. grp[r] \in Group
        BY <2>3 DEF RegisterFail, IInv, ControlInv
      <4> QED
        BY <2>3, <4>1 DEF RegisterFail
    <3> QED
      BY <2>3, <3>1 DEF RegisterFail, ForgetCommand
  <2>4. CASE CommandTimeout(r) \/ Reap(r) \/ \E g \in Group : StartCommand(r, g)
    BY <2>4 DEF CommandTimeout, Signalled, Reap, StartCommand
  <2> QED
    BY <1>6, <2>1, <2>2, <2>3, <2>4 DEF UseStep
<1> QED
  BY <1>2, <1>3, <1>4, <1>5, <1>6 DEF Next

LEMMA Metrics == Spec => [](IInv /\ MetricsInv)
<1>1. Init => MetricsInv
  BY EmptyCardinality DEF Init, MetricsInv
<1>2. IInv /\ MetricsInv /\ [Next]_vars => MetricsInv'
  BY StepStore, StoreMetrics DEF IInv, StateTypes
<1> QED
  BY <1>1, <1>2, Invariance, PTL DEF Spec

\* Every variable keeps its type; in particular the three concurrent decrements of
\* SessionsActive never take it below zero (manager.go 94, 221, 236).
THEOREM TypeCorrect == Spec => []TypeOK
<1>1. IInv /\ MetricsInv /\ CommandTypes => TypeOK
  <2> SUFFICES ASSUME IInv, MetricsInv, CommandTypes PROVE TypeOK
    OBVIOUS
  <2>1. sessions \in SUBSET Session
    BY DEF IInv, StateTypes
  <2> QED
    BY <2>1, SubsetCardinality DEF IInv, MetricsInv, TypeOK
<1> QED
  BY <1>1, InitCommandTypes, Metrics, NextCommandTypes, PTL DEF Spec

\* The map never holds more than MaxSessions sessions (manager.go 87-100, 141).
THEOREM Capacity == Spec => []CapacityBound
<1>1. IInv => CapacityBound
  BY DEF IInv, RoomInv
<1> QED
  BY <1>1, Invariance, PTL

\* A session a client can name has its directory, unless the cleanup that removed it
\* is about to delete it from the map (manager.go 214-224, 232-239).
THEOREM DirectoryOfLiveSession == Spec => []LiveSessionHasDirectory
<1>1. IInv => LiveSessionHasDirectory
  BY DEF IInv, DirInv
<1> QED
  BY <1>1, Invariance, PTL

=============================================================================
