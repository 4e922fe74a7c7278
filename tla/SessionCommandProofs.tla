------------------------ MODULE SessionCommandProofs ------------------------
(***************************************************************************)
(* Further proofs about SessionManager: commands and the directories.      *)
(*                                                                         *)
(* WatchInv, TrackInv and LeakInv are inductive under IInv.  Every action  *)
(* of the manager falls in a few classes by what it does to the state they *)
(* speak of, and each class has its lemma.                                 *)
(***************************************************************************)
EXTENDS SessionManagerProofs

\* A process id a handler owns is its command's alone, and the kernel cannot hand it
\* out again; a handler whose Wait runs is at the select or behind it.
WatchInv ==
  /\ RunningCommandIsWatched
  /\ \A r \in Request : OwnsGroup(r) => grp[r] \in Group /\ proc[grp[r]] # "free"
  /\ \A r, q \in Request : (OwnsGroup(r) /\ OwnsGroup(q) /\ grp[r] = grp[q]) => r = q
  /\ \A r \in Request : wait[r] # "none" => pc[r] \in {"waiting", "killed"}

HasOwner ==
  \A s \in sessions : \A g \in groups[s] : \E r \in Request :
    ses[r] = s /\ grp[r] = g /\ pc[r] \in {"waiting", "killed"}

\* Only a session whose Create is over tracks groups.
TrackInv ==
  /\ HasOwner
  /\ \A s \in Session : groups[s] # {} => Settled(s)

\* The sweeper alone may give a directory up, so the cleanup that removes the
\* directory of a session outside the map is another one; and a cleanup that is about
\* to delete its session from the map has removed the directory or leaked it.
LeakInv ==
  /\ \A s \in dir :
       \/ s \in sessions \/ s \in leaked \/ Creating(s)
       \/ \E c \in Cleaner \ {Sweeper} :
            target[c] = s /\ phase[c] \in {"start", "kill", "remove"}
  /\ \A c \in Cleaner : phase[c] = "drop" => target[c] \notin dir \/ target[c] \in leaked

-----------------------------------------------------------------------------
(* Commands.                                                               *)

LEMMA InitWatch == Init => WatchInv /\ TrackInv /\ LeakInv
BY DEF Init, WatchInv, RunningCommandIsWatched, OwnsGroup, TrackInv, HasOwner, LeakInv

\* A step that starts and ends no command, and at most kills some, keeps the watch.
LEMMA KeepsWatch ==
  ASSUME WatchInv, CommandTypes, UNCHANGED <<grp, wait>>,
         \A g \in Group : \/ proc'[g] = proc[g]
                          \/ proc[g] # "free" /\ proc'[g] = "dead"
                          \/ proc[g] = "running" /\ proc'[g] = "members",
         \A r \in Request : OwnsGroup(r)' <=> OwnsGroup(r),
         \A r \in Request : pc[r] \in {"waiting", "killed"} => pc'[r] \in {"waiting", "killed"}
  PROVE  WatchInv'
<1>1. RunningCommandIsWatched'
  BY DEF WatchInv, RunningCommandIsWatched
<1>2. \A r \in Request : OwnsGroup(r)' => grp'[r] \in Group /\ proc'[grp'[r]] # "free"
  BY DEF WatchInv
<1>3. \A r, q \in Request : (OwnsGroup(r)' /\ OwnsGroup(q)' /\ grp'[r] = grp'[q]) => r = q
  BY DEF WatchInv
<1>4. \A r \in Request : wait'[r] # "none" => pc'[r] \in {"waiting", "killed"}
  BY DEF WatchInv
<1> QED
  BY <1>1, <1>2, <1>3, <1>4 DEF WatchInv

\* So does a step of a handler that goes from one place without a command to another.
LEMMA MovesWatch ==
  ASSUME IInv, WatchInv, CommandTypes, NEW r \in Request, UNCHANGED <<proc, wait>>,
         pc[r] \notin {"started", "registering", "waiting", "killed"},
         pc'[r] \notin {"started", "registering"},
         \A q \in Request : q # r => pc'[q] = pc[q] /\ grp'[q] = grp[q]
  PROVE  WatchInv'
<1>1. wait[r] = "none" /\ ~ OwnsGroup(r) /\ ~ OwnsGroup(r)'
  BY DEF WatchInv, OwnsGroup
<1>2. \A q \in Request : q # r => (OwnsGroup(q)' <=> OwnsGroup(q))
  BY DEF OwnsGroup
<1>3. RunningCommandIsWatched'
  BY <1>1, <1>2 DEF WatchInv, RunningCommandIsWatched
<1>4. \A q \in Request : OwnsGroup(q)' => grp'[q] \in Group /\ proc'[grp'[q]] # "free"
  BY <1>1, <1>2 DEF WatchInv
<1>5. \A p, q \in Request : (OwnsGroup(p)' /\ OwnsGroup(q)' /\ grp'[p] = grp'[q]) => p = q
  BY <1>1, <1>2 DEF WatchInv
<1>6. \A q \in Request : wait'[q] # "none" => pc'[q] \in {"waiting", "killed"}
  BY <1>1 DEF WatchInv
<1> QED
  BY <1>3, <1>4, <1>5, <1>6 DEF WatchInv

\* And a handler that gives its process id up, when nothing runs under it any more.
LEMMA ReleaseWatch ==
  ASSUME IInv, WatchInv, CommandTypes, NEW r \in Request, grp[r] \in Group,
         proc'[grp[r]] \notin {"running", "members"}, ~ OwnsGroup(r)',
         \/ OwnsGroup(r)
         \/ proc'[grp[r]] = proc[grp[r]],
         \A g \in Group : g # grp[r] => proc'[g] = proc[g],
         \A q \in Request : q # r => pc'[q] = pc[q] /\ grp'[q] = grp[q] /\ wait'[q] = wait[q],
         wait'[r] # "none" => pc'[r] \in {"waiting", "killed"}
  PROVE  WatchInv'
<1>1. \A q \in Request : q # r => (OwnsGroup(q)' <=> OwnsGroup(q))
  BY DEF OwnsGroup
<1>2. RunningCommandIsWatched'
  <2> SUFFICES ASSUME NEW g \in Group, proc'[g] \in {"running", "members"}
               PROVE  \E q \in Request : grp'[q] = g /\ OwnsGroup(q)'
    BY DEF RunningCommandIsWatched
  <2>1. g # grp[r] /\ proc[g] \in {"running", "members"}
    OBVIOUS
  <2>2. PICK q \in Request : grp[q] = g /\ OwnsGroup(q)
    BY <2>1 DEF WatchInv, RunningCommandIsWatched
  <2> QED
    BY <1>1, <2>1, <2>2
<1>3. \A q \in Request : OwnsGroup(q)' => grp'[q] \in Group /\ proc'[grp'[q]] # "free"
  <2> SUFFICES ASSUME NEW q \in Request, OwnsGroup(q)'
               PROVE  grp'[q] \in Group /\ proc'[grp'[q]] # "free"
    OBVIOUS
  <2>1. q # r /\ OwnsGroup(q) /\ grp'[q] = grp[q] /\ grp[q] \in Group /\ proc[grp[q]] # "free"
    BY <1>1 DEF WatchInv
  <2>2. proc'[grp[q]] = proc[grp[q]]
    <3>1. CASE grp[q] # grp[r]
      BY <2>1, <3>1
    <3>2. CASE grp[q] = grp[r]
      BY <2>1, <3>2 DEF WatchInv
    <3> QED
      BY <3>1, <3>2
  <2> QED
    BY <2>1, <2>2
<1>4. \A p, q \in Request : (OwnsGroup(p)' /\ OwnsGroup(q)' /\ grp'[p] = grp'[q]) => p = q
  BY <1>1 DEF WatchInv
<1>5. \A q \in Request : wait'[q] # "none" => pc'[q] \in {"waiting", "killed"}
  BY DEF WatchInv
<1> QED
  BY <1>2, <1>3, <1>4, <1>5 DEF WatchInv

LEMMA NextWatch == IInv /\ CommandTypes /\ WatchInv /\ [Next]_vars => WatchInv'
<1> SUFFICES ASSUME IInv, CommandTypes, WatchInv, [Next]_vars PROVE WatchInv'
  OBVIOUS
<1>0. /\ proc \in [Group -> ProcStates] /\ pc \in [Request -> HandlerStates]
      /\ grp \in [Request -> Group \union {None}]
      /\ wait \in [Request -> {"none", "group", "pipes", "done"}]
  BY DEF IInv, StateTypes, CommandTypes
<1>1. CASE UNCHANGED <<pc, grp, proc, wait>>
  BY <1>1, KeepsWatch DEF OwnsGroup
<1>2. CASE UNCHANGED vars \/ Tick \/ SweepStep
  <2>1. UNCHANGED <<pc, grp, proc, wait>>
    BY <1>2 DEF vars, Tick, SweepStep, SweepCollect, SweepNext, RemoveDirFailSweep, SweepDrop,
       reqVars, procVars
  <2> QED
    BY <1>1, <2>1
<1>3. CASE Restart
  BY <1>3 DEF Restart, WatchInv, RunningCommandIsWatched, OwnsGroup
<1>4. ASSUME NEW r \in Request,
             CreateStep(r) \/ TouchStep(r) \/ ExpireDrop(r) \/ Return(r) \/ ResolvePath(r)
               \/ WriteFile(r)
      PROVE  WatchInv'
  <2>1. CASE CreateStep(r)
    <3>1. /\ UNCHANGED <<proc, wait>>
          /\ pc[r] \notin {"started", "registering", "waiting", "killed"}
          /\ \A q \in Request : q # r => pc'[q] = pc[q] /\ grp'[q] = grp[q]
          /\ pc'[r] \notin {"started", "registering"}
      BY <1>0, <2>1 DEF CreateStep, CreateFull, CreateBegin, ScanOne, CreateEvict, CreateFinish,
         CreateFail, MakeDir, Finish, GoTo, reqVars, procVars
    <3> QED
      BY <3>1, MovesWatch
  <2>2. CASE TouchStep(r)
    <3>1. /\ UNCHANGED <<proc, wait>>
          /\ pc[r] \notin {"started", "registering", "waiting", "killed"}
          /\ \A q \in Request : q # r => pc'[q] = pc[q] /\ grp'[q] = grp[q]
          /\ pc'[r] \notin {"started", "registering"}
      BY <1>0, <2>2 DEF TouchStep, Lookup, CheckExpired, CheckFresh, Touch, Finish, GoTo, procVars
    <3> QED
      BY <3>1, MovesWatch
  <2>3. CASE ExpireDrop(r) \/ Return(r) \/ ResolvePath(r) \/ WriteFile(r)
    <3>1. /\ UNCHANGED <<proc, wait>>
          /\ pc[r] \notin {"started", "registering", "waiting", "killed"}
          /\ \A q \in Request : q # r => pc'[q] = pc[q] /\ grp'[q] = grp[q]
          /\ pc'[r] \notin {"started", "registering"}
      BY <1>0, <2>3 DEF ExpireDrop, Return, ResolvePath, WriteFile, Finish, GoTo, procVars, IInv,
         ControlInv
    <3> QED
      BY <3>1, MovesWatch
  <2> QED
    BY <1>4, <2>1, <2>2, <2>3
<1>5. ASSUME NEW r \in Request, UseStep(r) PROVE WatchInv'
  <2>1. CASE RegisterLookup(r)
    <3>1. /\ UNCHANGED <<grp, proc, wait>> /\ pc[r] = "started"
          /\ pc' = [pc EXCEPT ![r] = "registering"]
      BY <2>1 DEF RegisterLookup, GoTo, procVars
    <3>2. \A q \in Request : OwnsGroup(q)' <=> OwnsGroup(q)
      BY <1>0, <3>1 DEF OwnsGroup
    <3> QED
      BY <1>0, <3>1, <3>2, KeepsWatch
  <2>2. CASE Register(r)
    <3>1. /\ UNCHANGED <<grp, proc>> /\ pc[r] = "registering"
          /\ pc' = [pc EXCEPT ![r] = "waiting"] /\ wait' = [wait EXCEPT ![r] = "group"]
      BY <2>2 DEF Register, GoTo
    <3>2. \A q \in Request : OwnsGroup(q)' <=> OwnsGroup(q)
      BY <1>0, <3>1 DEF OwnsGroup
    <3>3. \A q \in Request : wait'[q] # "none" => pc'[q] \in {"waiting", "killed"}
      BY <1>0, <3>1 DEF WatchInv
    <3> QED
      BY <3>1, <3>2, <3>3 DEF WatchInv, RunningCommandIsWatched
  <2>3. CASE CommandTimeout(r)
    <3>1. /\ UNCHANGED <<grp, wait>> /\ pc[r] = "waiting" /\ pc' = [pc EXCEPT ![r] = "killed"]
          /\ proc' = Signalled({grp[r]})
      BY <2>3 DEF CommandTimeout, GoTo
    <3>2. \A q \in Request : OwnsGroup(q)' <=> OwnsGroup(q)
      BY <1>0, <3>1 DEF OwnsGroup
    <3>3. \A g \in Group : proc'[g] = proc[g] \/ (proc[g] # "free" /\ proc'[g] = "dead")
      BY <3>1 DEF Signalled
    <3> QED
      BY <1>0, <3>1, <3>2, <3>3, KeepsWatch
  <2>4. CASE WaitReturns(r)
    <3>1. UNCHANGED <<pc, grp, proc>> /\ wait[r] = "pipes" /\ wait' = [wait EXCEPT ![r] = "done"]
      BY <2>4 DEF WaitReturns, reqVars
    <3>2. \A q \in Request : OwnsGroup(q)' <=> OwnsGroup(q)
      BY <1>0, <3>1 DEF OwnsGroup
    <3>3. \A q \in Request : wait'[q] # "none" => pc'[q] \in {"waiting", "killed"}
      BY <1>0, <3>1 DEF WatchInv
    <3> QED
      BY <3>1, <3>2, <3>3 DEF WatchInv, RunningCommandIsWatched
  <2>5. CASE Escape(r) \/ StrayExit(r)
    BY <1>1, <2>5 DEF Escape, StrayExit, reqVars
  <2>6. CASE RegisterFail(r)
    <3>1. PICK p : /\ proc' = [proc EXCEPT ![grp[r]] = p]
                   /\ p = proc[grp[r]] \/ p \in {"dead", "orphans"}
                   /\ proc[grp[r]] \in {"running", "members"} => p \in {"dead", "orphans"}
      BY <2>6 DEF RegisterFail
    <3>2. /\ pc[r] = "started" /\ pc' = [pc EXCEPT ![r] = "idle"] /\ grp' = [grp EXCEPT ![r] = None]
          /\ wait' = [wait EXCEPT ![r] = "none"] /\ grp[r] \in Group /\ OwnsGroup(r)
      BY <2>6 DEF RegisterFail, ForgetCommand, Finish, GoTo, OwnsGroup, IInv, ControlInv
    <3>3. proc'[grp[r]] = p /\ \A g \in Group : g # grp[r] => proc'[g] = proc[g]
      BY <1>0, <3>1, <3>2
    <3>4. proc'[grp[r]] \notin {"running", "members"}
      BY <3>1, <3>3
    <3>5. ~ OwnsGroup(r)' /\ wait'[r] = "none"
      BY <1>0, <3>2 DEF OwnsGroup
    <3>6. \A q \in Request : q # r => pc'[q] = pc[q] /\ grp'[q] = grp[q] /\ wait'[q] = wait[q]
      BY <1>0, <3>2
    <3> QED
      BY <3>2, <3>3, <3>4, <3>5, <3>6, ReleaseWatch
  <2>7. CASE Reap(r)
    <3>1. /\ UNCHANGED <<pc, grp>> /\ wait[r] = "group" /\ proc[grp[r]] = "dead"
          /\ proc' = [proc EXCEPT ![grp[r]] = "free"] /\ wait' = [wait EXCEPT ![r] = "pipes"]
      BY <2>7 DEF Reap, reqVars
    <3>2. OwnsGroup(r) /\ grp[r] \in Group /\ pc[r] \in {"waiting", "killed"}
      BY <3>1 DEF OwnsGroup, WatchInv
    <3>3. proc'[grp[r]] = "free" /\ \A g \in Group : g # grp[r] => proc'[g] = proc[g]
      BY <1>0, <3>1, <3>2
    <3>4. ~ OwnsGroup(r)'
      BY <1>0, <3>1, <3>2 DEF OwnsGroup
    <3>5. \A q \in Request : q # r => pc'[q] = pc[q] /\ grp'[q] = grp[q] /\ wait'[q] = wait[q]
      BY <1>0, <3>1
    <3> QED
      BY <3>1, <3>2, <3>3, <3>4, <3>5, ReleaseWatch
  <2>8. CASE Unregister(r)
    <3>1. /\ UNCHANGED proc /\ pc[r] \in {"waiting", "killed"} /\ wait[r] = "done"
          /\ pc' = [pc EXCEPT ![r] = "idle"] /\ grp' = [grp EXCEPT ![r] = None]
          /\ wait' = [wait EXCEPT ![r] = "none"]
      BY <2>8 DEF Unregister, ForgetCommand, Finish, GoTo
    <3>2. ~ OwnsGroup(r) /\ ~ OwnsGroup(r)' /\ wait'[r] = "none"
      BY <1>0, <3>1 DEF OwnsGroup
    <3>3. \A q \in Request : q # r => pc'[q] = pc[q] /\ grp'[q] = grp[q] /\ wait'[q] = wait[q]
      BY <1>0, <3>1
    <3>4. \A q \in Request : q # r => (OwnsGroup(q)' <=> OwnsGroup(q))
      BY <3>3 DEF OwnsGroup
    <3>5. RunningCommandIsWatched'
      BY <3>1, <3>2, <3>3, <3>4 DEF WatchInv, RunningCommandIsWatched
    <3>6. \A q \in Request : OwnsGroup(q)' => grp'[q] \in Group /\ proc'[grp'[q]] # "free"
      BY <3>1, <3>2, <3>3, <3>4 DEF WatchInv
    <3>7. \A p, q \in Request : (OwnsGroup(p)' /\ OwnsGroup(q)' /\ grp'[p] = grp'[q]) => p = q
      BY <3>2, <3>3, <3>4 DEF WatchInv
    <3>8. \A q \in Request : wait'[q] # "none" => pc'[q] \in {"waiting", "killed"}
      BY <3>2, <3>3 DEF WatchInv
    <3> QED
      BY <3>5, <3>6, <3>7, <3>8 DEF WatchInv
  <2>9. ASSUME NEW g \in Group, StartCommand(r, g) PROVE WatchInv'
    <3>1. /\ pc[r] = "holding" /\ proc[g] = "free" /\ proc' = [proc EXCEPT ![g] = "running"]
          /\ grp' = [grp EXCEPT ![r] = g] /\ pc' = [pc EXCEPT ![r] = "started"] /\ wait' = wait
      BY <2>9 DEF StartCommand, GoTo
    <3>2. \A q \in Request : q # r => pc'[q] = pc[q] /\ grp'[q] = grp[q]
      BY <1>0, <3>1
    <3>3. pc'[r] = "started" /\ grp'[r] = g /\ wait[r] = "none" /\ OwnsGroup(r)'
      BY <1>0, <3>1 DEF OwnsGroup, WatchInv
    <3>4. \A h \in Group : proc'[h] = IF h = g THEN "running" ELSE proc[h]
      BY <1>0, <3>1
    <3>5. \A q \in Request : q # r => (OwnsGroup(q)' <=> OwnsGroup(q))
      BY <3>1, <3>2 DEF OwnsGroup
    <3>6. \A q \in Request : OwnsGroup(q) => q # r /\ grp[q] \in Group /\ grp[q] # g
      BY <3>1, <3>3 DEF WatchInv, OwnsGroup
    <3>7. RunningCommandIsWatched'
      <4> SUFFICES ASSUME NEW h \in Group, proc'[h] \in {"running", "members"}
                   PROVE  \E q \in Request : grp'[q] = h /\ OwnsGroup(q)'
        BY DEF RunningCommandIsWatched
      <4>1. CASE h = g
        BY <3>3, <4>1
      <4>2. CASE h # g
        <5>1. PICK q \in Request : grp[q] = h /\ OwnsGroup(q)
          BY <3>4, <4>2 DEF WatchInv, RunningCommandIsWatched
        <5> QED
          BY <3>2, <3>5, <3>6, <5>1
      <4> QED
        BY <4>1, <4>2
    <3>8. \A q \in Request : OwnsGroup(q)' => grp'[q] \in Group /\ proc'[grp'[q]] # "free"
      BY <3>2, <3>3, <3>4, <3>5, <3>6 DEF WatchInv
    <3>9. \A q, p \in Request :
            (OwnsGroup(q)' /\ OwnsGroup(p)' /\ grp'[q] = grp'[p]) => q = p
      BY <3>2, <3>3, <3>5, <3>6 DEF WatchInv
    <3>10. \A q \in Request : wait'[q] # "none" => pc'[q] \in {"waiting", "killed"}
      BY <3>1, <3>2, <3>3 DEF WatchInv
    <3> QED
      BY <3>7, <3>8, <3>9, <3>10 DEF WatchInv
  <2> QED
    BY <1>4, <1>5, <2>1, <2>2, <2>3, <2>4, <2>5, <2>6, <2>7, <2>8, <2>9 DEF UseStep
<1>6. ASSUME NEW c \in Cleaner, CleanupStep(c) PROVE WatchInv'
  <2>1. UNCHANGED <<pc, grp, wait>>
    BY <1>6 DEF CleanupStep, CleanupRead, CleanupKill, RemoveDir, RemoveDirFail, reqVars, procVars
  <2>2. proc' = proc \/ proc' = Signalled(kill[c])
    BY <1>6 DEF CleanupStep, CleanupRead, CleanupKill, RemoveDir, RemoveDirFail, procVars
  <2>3. \A g \in Group : proc'[g] = proc[g] \/ (proc[g] # "free" /\ proc'[g] = "dead")
    BY <2>2 DEF Signalled
  <2> QED
    BY <2>1, <2>3, KeepsWatch DEF OwnsGroup
<1>7. ASSUME NEW g \in Group, ProcessExit(g) PROVE WatchInv'
  <2>1. UNCHANGED <<pc, grp, wait>>
    BY <1>7 DEF ProcessExit, reqVars
  <2>2. \A h \in Group : \/ proc'[h] = proc[h]
                         \/ proc[h] # "free" /\ proc'[h] = "dead"
                         \/ proc[h] = "running" /\ proc'[h] = "members"
    BY <1>0, <1>7 DEF ProcessExit
  <2> QED
    BY <2>1, <2>2, KeepsWatch DEF OwnsGroup
<1> QED
  BY <1>2, <1>3, <1>4, <1>5, <1>6, <1>7 DEF Next

-----------------------------------------------------------------------------
(* Tracked groups.                                                         *)

\* A step that tracks nothing new and takes nobody out of a command.
LEMMA KeepsTrack ==
  ASSUME IInv, TrackInv, UNCHANGED groups, ids \subseteq ids',
         \A s \in sessions' : s \in sessions \/ groups[s] = {},
         \A s \in Session : Settled(s) => Settled(s)',
         \A r \in Request : pc[r] \in {"waiting", "killed"} =>
           pc'[r] \in {"waiting", "killed"} /\ ses'[r] = ses[r] /\ grp'[r] = grp[r]
  PROVE  TrackInv'
<1>1. HasOwner'
  BY DEF TrackInv, HasOwner
<1>2. \A s \in Session : groups'[s] # {} => Settled(s)'
  BY DEF TrackInv
<1> QED
  BY <1>1, <1>2 DEF TrackInv

\* Creates come and go, but not for a session that is settled.
LEMMA SettledStays ==
  ASSUME IInv, ids \subseteq ids',
         \A r \in Request : pc'[r] = "extracting" =>
           \/ pc[r] = "extracting" /\ ses'[r] = ses[r]
           \/ ses'[r] \notin ids
  PROVE  \A s \in Session : Settled(s) => Settled(s)'
BY DEF Settled, Creating

LEMMA NextTrack == IInv /\ TrackInv /\ [Next]_vars => TrackInv'
<1> SUFFICES ASSUME IInv, TrackInv, [Next]_vars PROVE TrackInv'
  OBVIOUS
<1>0. /\ pc \in [Request -> HandlerStates] /\ ses \in [Request -> Session \union {None}]
      /\ grp \in [Request -> Group \union {None}] /\ groups \in [Session -> SUBSET Group]
  BY DEF IInv, StateTypes
<1>1. CASE UNCHANGED <<groups, ids, pc, ses, grp>> /\ sessions' \subseteq sessions
  <2>1. \A s \in Session : Settled(s) => Settled(s)'
    BY <1>1, SettledStays
  <2> QED
    BY <1>1, <2>1, KeepsTrack
<1>2. CASE UNCHANGED vars \/ Tick \/ SweepStep \/ (\E c \in Cleaner : CleanupStep(c))
           \/ (\E g \in Group : ProcessExit(g))
           \/ (\E r \in Request : Reap(r) \/ WaitReturns(r) \/ Escape(r) \/ StrayExit(r))
  <2>1. UNCHANGED <<groups, ids, pc, ses, grp>> /\ sessions' \subseteq sessions
    BY <1>2 DEF Reap, WaitReturns, Escape, StrayExit, vars, Tick, SweepStep, SweepCollect, SweepNext, RemoveDirFailSweep, SweepDrop,
       DropFromMap, CleanupStep, CleanupRead, CleanupKill, RemoveDir, RemoveDirFail,
       ProcessExit, mapVars, objVars, reqVars
  <2> QED
    BY <1>1, <2>1
<1>3. CASE Restart
  BY <1>3 DEF Restart, TrackInv, HasOwner
<1>4. ASSUME NEW r \in Request, CreateStep(r) PROVE TrackInv'
  <2>1. /\ UNCHANGED groups /\ ids \subseteq ids' /\ pc[r] \notin {"waiting", "killed"}
        /\ \A q \in Request : q # r => pc'[q] = pc[q] /\ ses'[q] = ses[q] /\ grp'[q] = grp[q]
    BY <1>0, <1>4 DEF CreateStep, CreateFull, CreateBegin, ScanOne, CreateEvict, CreateFinish,
       CreateFail, MakeDir, Finish, GoTo, objVars, reqVars
  <2>2. pc'[r] = "extracting" => ses'[r] \notin ids
    BY <1>0, <1>4 DEF CreateStep, CreateFull, CreateBegin, ScanOne, CreateEvict, CreateFinish,
       CreateFail, MakeDir, Finish, GoTo, Fresh, reqVars
  <2>3. \A s \in Session : Settled(s) => Settled(s)'
    BY <2>1, <2>2, SettledStays
  <2>4. \A s \in sessions' : s \in sessions \/ groups[s] = {}
    <3>1. CASE CreateFinish(r)
      <4>1. sessions' = sessions \union {ses[r]} /\ pc[r] = "extracting" /\ ses[r] \in ids
        BY <3>1 DEF CreateFinish, IInv, ControlInv
      <4>2. ~ Settled(ses[r]) /\ ses[r] \in Session
        BY <4>1 DEF Settled, Creating, IInv, StateTypes
      <4> QED
        BY <4>1, <4>2 DEF TrackInv
    <3>2. CASE ~ CreateFinish(r)
      BY <1>4, <3>2 DEF CreateStep, CreateFull, CreateBegin, ScanOne, CreateEvict, CreateFail,
         DropFromMap, mapVars
    <3> QED
      BY <3>1, <3>2
  <2> QED
    BY <2>1, <2>3, <2>4, KeepsTrack
<1>5. ASSUME NEW r \in Request,
             TouchStep(r) \/ Return(r) \/ ResolvePath(r) \/ WriteFile(r) \/ RegisterLookup(r)
               \/ RegisterFail(r) \/ CommandTimeout(r) \/ ExpireDrop(r)
               \/ (\E g \in Group : StartCommand(r, g))
      PROVE  TrackInv'
  <2>1. /\ UNCHANGED <<groups, ids>> /\ sessions' \subseteq sessions
        /\ \A q \in Request : q # r => pc'[q] = pc[q] /\ ses'[q] = ses[q] /\ grp'[q] = grp[q]
        /\ pc'[r] # "extracting"
    <3>1. CASE TouchStep(r)
      BY <1>0, <3>1 DEF TouchStep, Lookup, CheckExpired, CheckFresh, Touch, Finish, GoTo,
         mapVars, objVars
    <3>2. CASE Return(r) \/ ResolvePath(r) \/ WriteFile(r) \/ RegisterLookup(r) \/ RegisterFail(r)
      BY <1>0, <3>2 DEF Return, ResolvePath, WriteFile, RegisterLookup, RegisterFail,
         ForgetCommand, Finish, GoTo, mapVars, objVars
    <3>3. CASE CommandTimeout(r) \/ (\E g \in Group : StartCommand(r, g))
      BY <1>0, <3>3 DEF CommandTimeout, StartCommand, GoTo, mapVars, objVars
    <3>4. CASE ExpireDrop(r)
      BY <1>0, <3>4 DEF ExpireDrop, DropFromMap, Finish, GoTo, objVars
    <3> QED
      BY <1>5, <3>1, <3>2, <3>3, <3>4
  <2>2. pc[r] \in {"waiting", "killed"} =>
          pc'[r] \in {"waiting", "killed"} /\ ses'[r] = ses[r] /\ grp'[r] = grp[r]
    BY <1>0, <1>5 DEF TouchStep, Lookup, CheckExpired, CheckFresh, Touch, Return, ResolvePath,
       WriteFile, RegisterLookup, RegisterFail, CommandTimeout, StartCommand, ExpireDrop,
      
       GoTo, reqVars, IInv, ControlInv
  <2>3. \A s \in Session : Settled(s) => Settled(s)'
    BY <2>1, SettledStays
  <2> QED
    BY <2>1, <2>2, <2>3, KeepsTrack
<1>6. ASSUME NEW r \in Request, Register(r) PROVE TrackInv'
  <2>1. /\ pc[r] = "registering" /\ pc' = [pc EXCEPT ![r] = "waiting"]
        /\ groups' = [groups EXCEPT ![ses[r]] = @ \union {grp[r]}]
        /\ UNCHANGED <<sessions, ids, ses, grp>>
    BY <1>6 DEF Register, GoTo, mapVars
  <2>2. Settled(ses[r]) /\ ses[r] \in Session
    BY <2>1 DEF IInv, ControlInv, Using, StateTypes, Settled
  <2>3. \A s \in Session : Settled(s) => Settled(s)'
    <3>1. \A q \in Request : pc'[q] = "extracting" => pc[q] = "extracting" /\ ses'[q] = ses[q]
      BY <1>0, <2>1
    <3> QED
      BY <2>1, <3>1, SettledStays
  <2>4. \A s \in Session : s # ses[r] => groups'[s] = groups[s]
    BY <1>0, <2>1, <2>2
  <2>5. groups'[ses[r]] = groups[ses[r]] \union {grp[r]}
    BY <1>0, <2>1, <2>2
  <2>6. \A q \in Request : pc[q] \in {"waiting", "killed"} \/ q = r => pc'[q] \in {"waiting", "killed"}
    BY <1>0, <2>1
  <2>7. HasOwner'
    <3> SUFFICES ASSUME NEW s \in sessions, NEW g \in groups'[s]
                 PROVE  \E q \in Request : ses[q] = s /\ grp[q] = g /\ pc'[q] \in {"waiting", "killed"}
      BY <2>1 DEF HasOwner
    <3>1. s \in Session
      BY DEF IInv, StateTypes
    <3>2. g \in groups[s] \/ (s = ses[r] /\ g = grp[r])
      BY <2>4, <2>5, <3>1
    <3>3. g \in groups[s] =>
            \E q \in Request : ses[q] = s /\ grp[q] = g /\ pc[q] \in {"waiting", "killed"}
      BY DEF TrackInv, HasOwner
    <3> QED
      BY <2>6, <3>2, <3>3
  <2>8. \A s \in Session : groups'[s] # {} => Settled(s)'
    BY <2>2, <2>3, <2>4 DEF TrackInv
  <2> QED
    BY <2>7, <2>8 DEF TrackInv
<1>7. ASSUME NEW r \in Request, Unregister(r) PROVE TrackInv'
  <2>1. /\ pc[r] \in {"waiting", "killed"} /\ pc' = [pc EXCEPT ![r] = "idle"]
        /\ ses' = [ses EXCEPT ![r] = None] /\ grp' = [grp EXCEPT ![r] = None]
        /\ groups' = IF ses[r] \in sessions
                     THEN [groups EXCEPT ![ses[r]] = @ \ {grp[r]}] ELSE groups
        /\ UNCHANGED <<sessions, ids>>
    BY <1>7 DEF Unregister, ForgetCommand, GoTo, Finish, mapVars
  <2>2. sessions \subseteq Session
    BY DEF IInv, StateTypes
  <2>3. \A q \in Request : q # r => pc'[q] = pc[q] /\ ses'[q] = ses[q] /\ grp'[q] = grp[q]
    BY <1>0, <2>1
  <2>4. \A s \in Session : Settled(s) => Settled(s)'
    <3>1. \A q \in Request : pc'[q] = "extracting" => pc[q] = "extracting" /\ ses'[q] = ses[q]
      BY <1>0, <2>1, <2>3
    <3> QED
      BY <2>1, <3>1, SettledStays
  <2>5. \A s \in Session : groups'[s] \subseteq groups[s]
    BY <1>0, <2>1, <2>2
  <2>6. ses[r] \in sessions => grp[r] \notin groups'[ses[r]]
    BY <1>0, <2>1, <2>2
  <2>7. HasOwner'
    <3> SUFFICES ASSUME NEW s \in sessions, NEW g \in groups'[s]
                 PROVE  \E q \in Request : /\ ses'[q] = s /\ grp'[q] = g
                                           /\ pc'[q] \in {"waiting", "killed"}
      BY <2>1 DEF HasOwner
    <3>1. g \in groups[s]
      BY <2>2, <2>5
    <3>2. PICK q \in Request : ses[q] = s /\ grp[q] = g /\ pc[q] \in {"waiting", "killed"}
      BY <3>1 DEF TrackInv, HasOwner
    <3>3. q # r
      BY <2>6, <3>2
    <3> QED
      BY <2>3, <3>2, <3>3
  <2>8. \A s \in Session : groups'[s] # {} => Settled(s)'
    BY <2>4, <2>5 DEF TrackInv
  <2> QED
    BY <2>7, <2>8 DEF TrackInv
<1> QED
  BY <1>2, <1>3, <1>4, <1>5, <1>6, <1>7 DEF Next, UseStep

-----------------------------------------------------------------------------
(* Directories.                                                            *)

Removing(c, s) == target[c] = s /\ phase[c] \in {"start", "kill", "remove"}

\* Whatever accounted for a directory still does, hands it on, or it is gone.
LEMMA KeepsLeak ==
  ASSUME LeakInv, leaked \subseteq leaked',
         \A s \in dir' : s \in dir \/ s \in leaked' \/ Creating(s)',
         \A s \in sessions : \/ s \in sessions' \/ s \notin dir' \/ s \in leaked'
                             \/ \E c \in Cleaner \ {Sweeper} : Removing(c, s)',
         \A s : Creating(s) => Creating(s)' \/ s \in sessions' \/ s \notin dir' \/ s \in leaked',
         \A c \in Cleaner \ {Sweeper} : \A s :
           Removing(c, s) => Removing(c, s)' \/ s \notin dir' \/ s \in leaked',
         \A c \in Cleaner : phase'[c] = "drop" => target'[c] \notin dir' \/ target'[c] \in leaked'
  PROVE  LeakInv'
<1> SUFFICES ASSUME NEW s \in dir'
             PROVE  \/ s \in sessions' \/ s \in leaked' \/ Creating(s)'
                    \/ \E c \in Cleaner \ {Sweeper} : Removing(c, s)'
  BY DEF LeakInv, Removing
<1> HIDE DEF Removing
<1>1. CASE s \in dir
  <2>1. \/ s \in sessions \/ s \in leaked \/ Creating(s)
        \/ \E c \in Cleaner \ {Sweeper} : Removing(c, s)
    BY <1>1 DEF LeakInv, Removing
  <2> QED
    BY <2>1
<1>2. CASE s \notin dir
  BY <1>2
<1> QED
  BY <1>1, <1>2

\* The handlers that create and the cleanups go on as they were.
LEMMA SameLeak ==
  ASSUME LeakInv, UNCHANGED <<dir, leaked, phase, target>>, sessions \subseteq sessions',
         \A s : Creating(s) => Creating(s)'
  PROVE  LeakInv'
BY KeepsLeak DEF LeakInv, Removing

LEMMA NextLeak == IInv /\ LeakInv /\ [Next]_vars => LeakInv'
<1> SUFFICES ASSUME IInv, LeakInv, [Next]_vars PROVE LeakInv'
  OBVIOUS
<1>0. /\ pc \in [Request -> HandlerStates] /\ ses \in [Request -> Session \union {None}]
      /\ phase \in [Cleaner -> CleanupPhases] /\ target \in [Cleaner -> Session \union {None}]
      /\ sessions \subseteq Session
  BY DEF IInv, StateTypes
<1>1. CASE UNCHANGED vars \/ Tick \/ SweepCollect \/ (\E g \in Group : ProcessExit(g))
  <2>1. UNCHANGED <<dir, leaked, phase, target, sessions, pc, ses>>
    BY <1>1 DEF vars, Tick, SweepCollect, ProcessExit, mapVars, diskVars, reqVars, cleanVars
  <2> QED
    BY <2>1, SameLeak DEF Creating
<1>2. CASE Restart
  BY <1>2 DEF Restart, LeakInv
<1>3. ASSUME NEW s \in Session, SweepNext(s) PROVE LeakInv'
  <2>1. /\ UNCHANGED <<dir, leaked, sessions, pc, ses>>
        /\ phase' = [phase EXCEPT ![Sweeper] = "start"]
        /\ target' = [target EXCEPT ![Sweeper] = s]
    BY <1>3 DEF SweepNext, BeginCleanup, mapVars, diskVars, reqVars
  <2>2. \A c \in Cleaner \ {Sweeper} : phase'[c] = phase[c] /\ target'[c] = target[c]
    BY <1>0, <2>1
  <2>3. phase'[Sweeper] # "drop"
    BY <1>0, <2>1 DEF Cleaner
  <2> QED
    BY <2>1, <2>2, <2>3 DEF LeakInv, Creating
<1>4. CASE RemoveDirFailSweep
  <2>1. /\ UNCHANGED <<dir, leaked, sessions, pc, ses>>
        /\ phase' = [phase EXCEPT ![Sweeper] = "idle"]
        /\ target' = [target EXCEPT ![Sweeper] = None]
    BY <1>4 DEF RemoveDirFailSweep, EndCleanup, mapVars, diskVars, reqVars
  <2>2. \A c \in Cleaner \ {Sweeper} : phase'[c] = phase[c] /\ target'[c] = target[c]
    BY <1>0, <2>1
  <2>3. phase'[Sweeper] # "drop"
    BY <1>0, <2>1 DEF Cleaner
  <2> QED
    BY <2>1, <2>2, <2>3 DEF LeakInv, Creating
<1>5. CASE SweepDrop
  <2>1. /\ UNCHANGED <<dir, leaked, pc, ses>> /\ sessions \ {target[Sweeper]} \subseteq sessions'
        /\ phase[Sweeper] = "drop" /\ phase' = [phase EXCEPT ![Sweeper] = "idle"]
        /\ target' = [target EXCEPT ![Sweeper] = None]
    BY <1>5 DEF SweepDrop, DropFromMap, EndCleanup, diskVars, reqVars
  <2>2. \A c \in Cleaner \ {Sweeper} : phase'[c] = phase[c] /\ target'[c] = target[c]
    BY <1>0, <2>1
  <2>3. phase'[Sweeper] # "drop"
    BY <1>0, <2>1 DEF Cleaner
  <2>4. target[Sweeper] \notin dir \/ target[Sweeper] \in leaked
    BY <2>1 DEF LeakInv, Cleaner
  <2> QED
    BY <2>1, <2>2, <2>3, <2>4 DEF LeakInv, Creating
<1>6. ASSUME NEW r \in Request, ExpireDrop(r) PROVE LeakInv'
  <2>1. /\ UNCHANGED <<dir, leaked>> /\ sessions \ {target[r]} \subseteq sessions'
        /\ phase[r] = "drop" /\ phase' = [phase EXCEPT ![r] = "idle"]
        /\ target' = [target EXCEPT ![r] = None]
        /\ pc' = [pc EXCEPT ![r] = "idle"] /\ ses' = [ses EXCEPT ![r] = None]
    BY <1>6 DEF ExpireDrop, DropFromMap, EndCleanup, Finish, GoTo, diskVars
  <2>2. \A c \in Cleaner : c # r => phase'[c] = phase[c] /\ target'[c] = target[c]
    BY <1>0, <2>1
  <2>3. phase'[r] = "idle" /\ r \in Cleaner
    BY <1>0, <2>1 DEF Cleaner
  <2>4. target[r] \notin dir \/ target[r] \in leaked
    BY <2>1 DEF LeakInv, Cleaner
  <2>5. pc[r] = "expiring"
    BY <2>1 DEF IInv, ControlInv
  <2>6. \A s : Creating(s) => Creating(s)'
    BY <1>0, <2>1, <2>5 DEF Creating
  <2> QED
    BY <2>1, <2>2, <2>3, <2>4, <2>6 DEF LeakInv
<1>7. ASSUME NEW c \in Cleaner, CleanupRead(c) \/ CleanupKill(c) PROVE LeakInv'
  <2>1. /\ UNCHANGED <<dir, leaked, sessions, pc, ses, target>>
        /\ phase[c] \in {"start", "kill"}
        /\ \E p \in {"kill", "remove"} : phase' = [phase EXCEPT ![c] = p]
    BY <1>7 DEF CleanupRead, CleanupKill, mapVars, diskVars, reqVars
  <2>2. \A b \in Cleaner : \/ phase'[b] = phase[b]
                           \/ phase[b] \in {"start", "kill"} /\ phase'[b] \in {"kill", "remove"}
    BY <1>0, <2>1
  <2> QED
    BY <2>1, <2>2, KeepsLeak DEF LeakInv, Creating, Removing
<1>8. ASSUME NEW c \in Cleaner, RemoveDir(c) \/ RemoveDirFail(c) PROVE LeakInv'
  <2>1. /\ UNCHANGED <<sessions, pc, ses>> /\ phase[c] = "remove"
        /\ leaked \subseteq leaked' /\ dir' \subseteq dir
        /\ target[c] \notin dir' \/ target[c] \in leaked'
    BY <1>8 DEF RemoveDir, RemoveDirFail, mapVars, reqVars
  <2>2. \/ phase' = [phase EXCEPT ![c] = "drop"] /\ target' = target
        \/ phase' = [phase EXCEPT ![c] = "idle"] /\ target' = [target EXCEPT ![c] = None]
    BY <1>8 DEF RemoveDir, RemoveDirFail, EndCleanup
  <2>3. \A b \in Cleaner : b # c => phase'[b] = phase[b] /\ target'[b] = target[b]
    BY <1>0, <2>2
  <2>4. phase'[c] = "drop" => target'[c] \notin dir' \/ target'[c] \in leaked'
    BY <1>0, <2>1, <2>2
  <2>5. \A b \in Cleaner : phase'[b] = "drop" => target'[b] \notin dir' \/ target'[b] \in leaked'
    BY <2>1, <2>3, <2>4 DEF LeakInv
  <2>6. \A b \in Cleaner \ {Sweeper} : \A s :
          Removing(b, s) => Removing(b, s)' \/ s \notin dir' \/ s \in leaked'
    BY <2>1, <2>3 DEF Removing
  <2>7. \A s : Creating(s) => Creating(s)'
    BY <2>1 DEF Creating
  <2> QED
    BY <2>1, <2>5, <2>6, <2>7, KeepsLeak
<1>9. ASSUME NEW r \in Request, CreateStep(r) PROVE LeakInv'
  <2>1. CASE CreateFull(r) \/ \E s \in Session : ScanOne(r, s)
    <3>1. UNCHANGED <<dir, leaked, phase, target, sessions>>
      BY <2>1 DEF CreateFull, ScanOne, mapVars, diskVars, cleanVars
    <3>2. \A s : Creating(s) => Creating(s)'
      BY <1>0, <2>1 DEF CreateFull, ScanOne, GoTo, Creating, reqVars
    <3> QED
      BY <3>1, <3>2, SameLeak
  <2>2. ASSUME NEW s \in Session, CreateBegin(r, s) PROVE LeakInv'
    <3>1. /\ UNCHANGED <<leaked, phase, target, sessions>> /\ dir' = dir \union {s}
          /\ pc[r] = "idle" /\ pc' = [pc EXCEPT ![r] = "extracting"]
          /\ ses' = [ses EXCEPT ![r] = s] /\ s \notin ids
      BY <2>2 DEF CreateBegin, MakeDir, GoTo, Fresh, cleanVars
    <3>2. Creating(s)' /\ \A t : Creating(t) => Creating(t)'
      BY <1>0, <3>1 DEF Creating
    <3>3. \A c \in Cleaner : phase[c] = "drop" => target[c] # s
      BY <3>1 DEF IInv, ControlInv, Settled
    <3> QED
      BY <3>1, <3>2, <3>3 DEF LeakInv
  <2>3. ASSUME NEW s \in Session, CreateEvict(r, s) PROVE LeakInv'
    <3>0. scan.oldest \in sessions
      BY <2>3 DEF CreateEvict, IInv, ScanInv, StateTypes
    <3> PICK o \in sessions : o = scan.oldest
      BY <3>0
    <3>1. /\ UNCHANGED leaked /\ dir' = dir \union {s} /\ sessions \ {o} \subseteq sessions'
          /\ phase' = [phase EXCEPT ![o] = "start"] /\ target' = [target EXCEPT ![o] = o]
          /\ pc[r] = "scanning" /\ pc' = [pc EXCEPT ![r] = "extracting"]
          /\ ses' = [ses EXCEPT ![r] = s] /\ s \notin ids
      BY <2>3 DEF CreateEvict, DropFromMap, BeginCleanup, MakeDir, GoTo, Fresh
    <3>2. o \in Cleaner \ {Sweeper}
      BY <1>0, NamesAssumption DEF Cleaner
    <3>3. phase[o] = "idle"
      BY <1>0, <3>2 DEF IInv, EvictorInv
    <3>4. /\ Removing(o, o)'
          /\ \A c \in Cleaner : c # o => phase'[c] = phase[c] /\ target'[c] = target[c]
          /\ phase'[o] = "start"
      BY <1>0, <3>1, <3>2 DEF Removing
    <3>5. Creating(s)' /\ \A t : Creating(t) => Creating(t)'
      BY <1>0, <3>1 DEF Creating
    <3>6. \A c \in Cleaner : phase[c] = "drop" => target[c] # s
      BY <3>1 DEF IInv, ControlInv, Settled
    <3>7. \A c \in Cleaner : phase'[c] = "drop" => target'[c] \notin dir' \/ target'[c] \in leaked'
      BY <3>1, <3>4, <3>6 DEF LeakInv
    <3>8. \A c \in Cleaner \ {Sweeper} : \A t : Removing(c, t) => Removing(c, t)'
      BY <3>3, <3>4 DEF Removing
    <3>9. \A t \in sessions :
            t \in sessions' \/ \E c \in Cleaner \ {Sweeper} : Removing(c, t)'
      BY <3>1, <3>2, <3>4
    <3> QED
      BY <3>1, <3>5, <3>7, <3>8, <3>9, KeepsLeak
  <2>4. CASE CreateFinish(r) \/ CreateFail(r)
    <3>1. /\ UNCHANGED <<phase, target>> /\ pc[r] = "extracting"
          /\ pc' = [pc EXCEPT ![r] = "idle"] /\ ses' = [ses EXCEPT ![r] = None]
          /\ sessions \subseteq sessions' /\ leaked \subseteq leaked' /\ dir' \subseteq dir
          /\ ses[r] \in sessions' \/ ses[r] \notin dir' \/ ses[r] \in leaked'
      BY <2>4 DEF CreateFinish, CreateFail, Finish, GoTo, diskVars, cleanVars
    <3>2. \A s : Creating(s) => Creating(s)' \/ s \in sessions' \/ s \notin dir' \/ s \in leaked'
      BY <1>0, <3>1 DEF Creating
    <3> QED
      BY <3>1, <3>2, KeepsLeak DEF LeakInv, Removing
  <2> QED
    BY <1>9, <2>1, <2>2, <2>3, <2>4 DEF CreateStep
<1>10. ASSUME NEW r \in Request, CheckExpired(r) PROVE LeakInv'
  <2>1. /\ UNCHANGED <<dir, leaked, sessions, ses>> /\ pc[r] = "checking"
        /\ pc' = [pc EXCEPT ![r] = "expiring"]
        /\ phase' = [phase EXCEPT ![r] = "start"] /\ target' = [target EXCEPT ![r] = ses[r]]
    BY <1>10 DEF CheckExpired, BeginCleanup, GoTo, mapVars, diskVars
  <2>2. phase[r] = "idle"
    BY <2>1 DEF IInv, ControlInv
  <2>3. phase'[r] = "start" /\ \A c \in Cleaner : c # r => phase'[c] = phase[c] /\ target'[c] = target[c]
    BY <1>0, <2>1 DEF Cleaner
  <2>4. \A s : Creating(s) => Creating(s)'
    BY <1>0, <2>1 DEF Creating
  <2> QED
    BY <2>1, <2>2, <2>3, <2>4 DEF LeakInv
<1>11. ASSUME NEW r \in Request,
              CheckFresh(r) \/ Touch(r) \/ (\E s \in Session : Lookup(r, s))
                \/ (UseStep(r) /\ ~ WriteFile(r))
       PROVE  LeakInv'
  <2>1. UNCHANGED <<dir, leaked, phase, target, sessions>>
    BY <1>11 DEF CheckFresh, Touch, Lookup, UseStep, Return, ResolvePath, RegisterLookup, Register,
       RegisterFail, CommandTimeout, Reap, WaitReturns, Unregister, StartCommand,
       Escape, StrayExit, ForgetCommand, mapVars, diskVars, cleanVars
  <2>2. \/ UNCHANGED <<pc, ses>>
        \/ /\ pc[r] # "extracting"
           /\ \A q \in Request : q # r => pc'[q] = pc[q] /\ ses'[q] = ses[q]
    BY <1>0, <1>11 DEF CheckFresh, Touch, Lookup, UseStep, Return, ResolvePath, RegisterLookup,
       Register, RegisterFail, CommandTimeout, Reap, WaitReturns, Unregister, StartCommand,
       Escape, StrayExit, ForgetCommand, Finish, GoTo, reqVars
  <2> QED
    BY <2>1, <2>2, SameLeak DEF Creating
<1>12. ASSUME NEW r \in Request, WriteFile(r) PROVE LeakInv'
  <2>1. /\ UNCHANGED <<sessions, phase, target>> /\ pc[r] = "writing"
        /\ pc' = [pc EXCEPT ![r] = "idle"] /\ ses' = [ses EXCEPT ![r] = None]
        /\ leaked \subseteq leaked' /\ dir' = dir \union {ses[r]}
        /\ ses[r] \in dir \/ ses[r] \in leaked'
    BY <1>12 DEF WriteFile, Finish, GoTo, mapVars, cleanVars
  <2>2. \A s : Creating(s) => Creating(s)'
    BY <1>0, <2>1 DEF Creating
  <2> QED
    BY <2>1, <2>2, KeepsLeak DEF LeakInv, Removing
<1> QED
  BY <1>1, <1>2, <1>3, <1>4, <1>5, <1>6, <1>7, <1>8, <1>9, <1>10, <1>11, <1>12
  DEF Next, SweepStep, TouchStep, CleanupStep

-----------------------------------------------------------------------------
(* The theorems.                                                           *)

LEMMA CommandInvariance == Spec => [](IInv /\ CommandTypes /\ WatchInv /\ TrackInv /\ LeakInv)
<1>1. IInv /\ CommandTypes /\ WatchInv /\ TrackInv /\ LeakInv /\ [Next]_vars
        => (IInv /\ CommandTypes /\ WatchInv /\ TrackInv /\ LeakInv)'
  BY NextIInv, NextCommandTypes, NextWatch, NextTrack, NextLeak
<1>2. Init => IInv /\ CommandTypes /\ WatchInv /\ TrackInv /\ LeakInv
  BY InitIInv, InitCommandTypes, InitWatch
<1> QED
  BY <1>1, <1>2, PTL DEF Spec

\* No registered command, nor a descendant in its group, runs without a handler that
\* will kill it (exec.go 130-150).
THEOREM Watched == Spec => []RunningCommandIsWatched
<1>1. WatchInv => RunningCommandIsWatched
  BY DEF WatchInv
<1> QED
  BY <1>1, CommandInvariance, PTL

\* A process id a session tracks belongs to a handler in Run, and to its command alone
\* until Wait has reaped that (exec.go 130-149, manager.go 167-186).
THEOREM Tracked == Spec => []TrackedGroupHasOwner
<1>1. WatchInv /\ TrackInv => TrackedGroupHasOwner
  <2> SUFFICES ASSUME WatchInv, TrackInv, NEW s \in sessions, NEW g \in groups[s]
               PROVE  \E r \in Request :
                        /\ ses[r] = s /\ grp[r] = g /\ pc[r] \in {"waiting", "killed"}
                        /\ wait[r] = "group" =>
                             \A q \in Request \ {r} : grp[q] = g => ~ OwnsGroup(q)
    BY DEF TrackedGroupHasOwner
  <2>1. PICK r \in Request : ses[r] = s /\ grp[r] = g /\ pc[r] \in {"waiting", "killed"}
    BY DEF TrackInv, HasOwner
  <2>2. ASSUME wait[r] = "group", NEW q \in Request \ {r}, grp[q] = g PROVE ~ OwnsGroup(q)
    BY <2>1, <2>2 DEF WatchInv, OwnsGroup
  <2> QED
    BY <2>1, <2>2
<1> QED
  BY <1>1, CommandInvariance, PTL

\* There are no other leaked directories than those LeakAccounting lists
\* (manager.go 84-255).
THEOREM Leaks == Spec => []LeakAccounting
<1>1. LeakInv => LeakAccounting
  BY DEF LeakInv, LeakAccounting
<1> QED
  BY <1>1, CommandInvariance, PTL
=============================================================================
