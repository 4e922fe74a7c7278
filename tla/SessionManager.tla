--------------------------- MODULE SessionManager ---------------------------
(***************************************************************************)
(* The session manager of data-warehouse-mcp (internal/session), with the  *)
(* tool handlers that use a session (internal/mcpserver/tools.go) and the  *)
(* sandbox runner that registers process groups with it                    *)
(* (internal/sandbox/exec.go).                                             *)
(*                                                                         *)
(* The threads are the tool handlers (Request), the sweeper of Start, and  *)
(* one eviction goroutine per evicted session.  m.mu is the variable mu:   *)
(* Create holds it over the extraction of the root filesystem, so it spans *)
(* several steps; every other critical section is one step that needs it   *)
(* free.  s.mu protects only single reads and writes of a Session, which   *)
(* are single steps here.                                                  *)
(***************************************************************************)
EXTENDS Naturals, FiniteSets

CONSTANTS
  Session,      \* session ids (ULIDs); each is drawn at most once
  Request,      \* concurrent tool handlers
  Group,        \* process ids the kernel can hand out; a freed one is reused
  Sweeper,      \* the goroutine of Manager.Start
  None,         \* nil
  MaxSessions,  \* Config.MaxSessions
  Timeout,      \* Config.Timeout, in clock ticks
  MaxTime,      \* bound: the clock stops here
  MaxRestarts   \* bound: container restarts

\* config.go rejects MAX_SESSIONS <= 0 and SESSION_TIMEOUT <= 0.
ASSUME ConfigAssumption ==
  /\ MaxSessions \in Nat \ {0}
  /\ Timeout \in Nat \ {0}

ASSUME BoundAssumption == MaxTime \in Nat /\ MaxRestarts \in Nat

\* Thread names and nil are distinct from one another.
ASSUME NamesAssumption ==
  /\ IsFiniteSet(Session)
  /\ Session \intersect Request = {}
  /\ Sweeper \notin Session \union Request
  /\ None \notin Session \union Request \union Group \union {Sweeper}

VARIABLES
  now,          \* the clock
  mu,           \* who write-holds m.mu, or None
  sessions,     \* the keys of m.sessions
  active,       \* metrics.SessionsActive
  created,      \* metrics.SessionsCreated
  expired,      \* metrics.SessionsExpired
  ids,          \* the ids drawn so far
  lastActivity, \* meta.LastActivityAt of each Session object
  groups,       \* processGroups of each Session object
  dir,          \* the sessions whose directory exists under cfg.Root
  leaked,       \* history: directories no cleanup will return to (LeakAccounting)
  scan,         \* the loop of lruSession: sessions to visit, oldest so far
  pc,           \* where each handler is
  ses,          \* the session each handler works on
  grp,          \* the process group each handler started
  phase,        \* where each cleanupSession is
  target,       \* the session it cleans
  kill,         \* the process groups it read and is going to kill
  batch,        \* expired sessions the sweeper has still to clean
  proc,         \* what the kernel has under each process id (ProcStates)
  wait,         \* how far the goroutine of cmd.Wait is, for each handler's command
  stray,        \* does a descendant outside the group hold its output pipes open?
  restarts

mapVars   == <<mu, sessions, active, created, expired>>
objVars   == <<ids, lastActivity, groups>>
diskVars  == <<dir, leaked>>
reqVars   == <<pc, ses, grp>>
procVars  == <<proc, wait, stray>>
cleanVars == <<phase, target, kill, batch>>
vars == <<now, mapVars, objVars, diskVars, scan, reqVars, cleanVars, procVars, restarts>>

\* cleanupSession runs in the sweeper, in a handler that found its session
\* expired, and in the goroutine Create spawns for the session it evicts.
Cleaner == Request \union Session \union {Sweeper}

\* Mutant: ids are checked against the map alone and may come back.
MutantFresh == Session \ sessions

Fresh == Session \ ids
ExpiresAt(s) == lastActivity[s] + Timeout
Expired(s) == now > ExpiresAt(s)

Init ==
  /\ now = 0
  /\ mu = None
  /\ sessions = {}
  /\ active = 0 /\ created = 0 /\ expired = 0
  /\ ids = {}
  /\ lastActivity = [s \in Session |-> 0]
  /\ groups = [s \in Session |-> {}]
  /\ dir = {} /\ leaked = {}
  /\ scan = [todo |-> {}, oldest |-> None]
  /\ pc = [r \in Request |-> "idle"]
  /\ ses = [r \in Request |-> None]
  /\ grp = [r \in Request |-> None]
  /\ phase = [c \in Cleaner |-> "idle"]
  /\ target = [c \in Cleaner |-> None]
  /\ kill = [c \in Cleaner |-> {}]
  /\ batch = {}
  /\ proc = [g \in Group |-> "free"]
  /\ wait = [r \in Request |-> "none"]
  /\ stray = [r \in Request |-> FALSE]
  /\ restarts = 0

Tick ==
  /\ now < MaxTime
  /\ now' = now + 1
  /\ UNCHANGED <<mapVars, objVars, diskVars, scan, reqVars, cleanVars, procVars, restarts>>

-----------------------------------------------------------------------------
(* Steps shared by several operations.                                     *)

GoTo(r, label) == pc' = [pc EXCEPT ![r] = label]

\* The handler returns to its client and forgets its session and its command.
Finish(r) ==
  /\ GoTo(r, "idle")
  /\ ses' = [ses EXCEPT ![r] = None]
  /\ grp' = [grp EXCEPT ![r] = None]

\* Mutant: the check that the session is still in the map is dropped.
MutantDropFromMap(s) ==
  /\ sessions' = sessions \ {s}
  /\ active' = active - 1
  /\ expired' = expired + 1

\* Delete from the map under m.mu, counting the session only if it was there.
DropFromMap(s) ==
  IF s \in sessions
  THEN /\ sessions' = sessions \ {s}
       /\ active' = active - 1
       /\ expired' = expired + 1
  ELSE UNCHANGED <<sessions, active, expired>>

\* cleanupSession(s) begins in thread c.
BeginCleanup(c, s) ==
  /\ phase' = [phase EXCEPT ![c] = "start"]
  /\ target' = [target EXCEPT ![c] = s]

EndCleanup(c) ==
  /\ phase' = [phase EXCEPT ![c] = "idle"]
  /\ target' = [target EXCEPT ![c] = None]

-----------------------------------------------------------------------------
(* Create, lruSession and extractRootfs.                                   *)

\* The new id is drawn and its directory made; the extraction is under way.
MakeDir(r, s) ==
  /\ s \in Fresh
  /\ ids' = ids \union {s}
  /\ dir' = dir \union {s}
  /\ ses' = [ses EXCEPT ![r] = s]
  /\ GoTo(r, "extracting")
  /\ UNCHANGED <<lastActivity, groups, leaked, grp>>

\* Mutant: m.mu is not held over the extraction.
MutantCreateBegin(r, s) ==
  /\ pc[r] = "idle"
  /\ mu = None
  /\ Cardinality(sessions) < MaxSessions
  /\ MakeDir(r, s)
  /\ UNCHANGED <<now, mapVars, scan, cleanVars, procVars, restarts>>

\* Create finds room.
CreateBegin(r, s) ==
  /\ pc[r] = "idle"
  /\ mu = None
  /\ Cardinality(sessions) < MaxSessions
  /\ mu' = r
  /\ MakeDir(r, s)
  /\ UNCHANGED <<now, sessions, active, created, expired, scan, cleanVars, procVars, restarts>>

\* Create finds the map full and calls lruSession.
CreateFull(r) ==
  /\ pc[r] = "idle"
  /\ mu = None
  /\ Cardinality(sessions) >= MaxSessions
  /\ Fresh # {}
  /\ mu' = r
  /\ scan' = [todo |-> sessions, oldest |-> None]
  /\ GoTo(r, "scanning")
  /\ UNCHANGED <<now, sessions, active, created, expired, objVars, diskVars, ses, grp,
                 cleanVars, procVars, restarts>>

\* One iteration of lruSession; the map iterates in any order, and handlers
\* that already hold a session may touch it between two iterations.
ScanOne(r, s) ==
  /\ pc[r] = "scanning"
  /\ s \in scan.todo
  /\ scan' = [todo   |-> scan.todo \ {s},
              oldest |-> IF \/ scan.oldest = None
                            \/ lastActivity[s] < lastActivity[scan.oldest]
                         THEN s ELSE scan.oldest]
  /\ UNCHANGED <<now, mapVars, objVars, diskVars, reqVars, cleanVars, procVars, restarts>>

\* The oldest session leaves the map, a goroutine is spawned to clean it, and
\* Create goes on with the new id.
CreateEvict(r, s) ==
  /\ pc[r] = "scanning"
  /\ scan.todo = {}
  /\ DropFromMap(scan.oldest)
  /\ BeginCleanup(scan.oldest, scan.oldest)
  /\ scan' = [todo |-> {}, oldest |-> None]
  /\ MakeDir(r, s)
  /\ UNCHANGED <<now, mu, created, kill, batch, procVars, restarts>>

CreateFinish(r) ==
  /\ pc[r] = "extracting"
  /\ lastActivity' = [lastActivity EXCEPT ![ses[r]] = now]
  /\ sessions' = sessions \union {ses[r]}
  /\ active' = active + 1
  /\ created' = created + 1
  /\ mu' = None
  /\ Finish(r)
  /\ UNCHANGED <<now, expired, ids, groups, diskVars, scan, cleanVars, procVars, restarts>>

\* The id, the directory, the extraction or meta.json failed.  An eviction
\* already made stays made; the result of RemoveAll is ignored.
CreateFail(r) ==
  /\ pc[r] = "extracting"
  /\ \/ dir' = dir \ {ses[r]} /\ UNCHANGED leaked
     \/ leaked' = leaked \union {ses[r]} /\ UNCHANGED dir
  /\ mu' = None
  /\ Finish(r)
  /\ UNCHANGED <<now, sessions, active, created, expired, objVars, scan, cleanVars, procVars,
                 restarts>>

-----------------------------------------------------------------------------
(* GetAndTouch.  Nothing is locked between its three steps.                *)

\* The lookup under the read lock.  A session that is not in the map is
\* reported as not found and nothing changes.
Lookup(r, s) ==
  /\ pc[r] = "idle"
  /\ mu = None
  /\ s \in sessions
  /\ ses' = [ses EXCEPT ![r] = s]
  /\ GoTo(r, "checking")
  /\ UNCHANGED <<now, mapVars, objVars, diskVars, scan, grp, cleanVars, procVars, restarts>>

\* The expiry check, and expireSession's call of cleanupSession.
CheckExpired(r) ==
  /\ pc[r] = "checking"
  /\ Expired(ses[r])
  /\ GoTo(r, "expiring")
  /\ BeginCleanup(r, ses[r])
  /\ UNCHANGED <<now, mapVars, objVars, diskVars, scan, ses, grp, kill, batch, procVars, restarts>>

CheckFresh(r) ==
  /\ pc[r] = "checking"
  /\ ~ Expired(ses[r])
  /\ GoTo(r, "touching")
  /\ UNCHANGED <<now, mapVars, objVars, diskVars, scan, ses, grp, cleanVars, procVars, restarts>>

\* updateActivity, then writeMeta, which fails when the directory is gone.
Touch(r) ==
  /\ pc[r] = "touching"
  /\ lastActivity' = [lastActivity EXCEPT ![ses[r]] = now]
  /\ IF ses[r] \in dir THEN GoTo(r, "holding") /\ UNCHANGED <<ses, grp>> ELSE Finish(r)
  /\ UNCHANGED <<now, mapVars, ids, groups, diskVars, scan, cleanVars, procVars, restarts>>

-----------------------------------------------------------------------------
(* What a handler does with the session GetAndTouch returned.  Nothing     *)
(* keeps the session alive meanwhile.                                      *)

\* get_image_url, or any error before the handler changes something.
Return(r) ==
  /\ pc[r] = "holding"
  /\ Finish(r)
  /\ UNCHANGED <<now, mapVars, objVars, diskVars, scan, cleanVars, procVars, restarts>>

\* workspace_edit and execute_query to a file: ResolvePath needs the root
\* filesystem to exist.
ResolvePath(r) ==
  /\ pc[r] = "holding"
  /\ ses[r] \in dir
  /\ GoTo(r, "writing")
  /\ UNCHANGED <<now, mapVars, objVars, diskVars, scan, ses, grp, cleanVars, procVars, restarts>>

\* MkdirAll of the parent directories, which makes the session's directory
\* again if a cleanup removed it since, and the write of the file.
WriteFile(r) ==
  /\ pc[r] = "writing"
  /\ dir' = dir \union {ses[r]}
  /\ leaked' = IF ses[r] \in dir THEN leaked ELSE leaked \union {ses[r]}
  /\ Finish(r)
  /\ UNCHANGED <<now, mapVars, objVars, scan, cleanVars, procVars, restarts>>

\* workspace_bash: Run starts the command in a process group of its own.
StartCommand(r, g) ==
  /\ pc[r] = "holding"
  /\ ses[r] \in dir
  /\ proc[g] = "free"
  /\ proc' = [proc EXCEPT ![g] = "running"]
  /\ grp' = [grp EXCEPT ![r] = g]
  /\ GoTo(r, "started")
  /\ UNCHANGED <<now, mapVars, objVars, diskVars, scan, ses, cleanVars, wait, stray, restarts>>

\* RegisterProcessGroup finds the session under the read lock, and adds the group
\* to it after the lock is released.
RegisterLookup(r) ==
  /\ pc[r] = "started"
  /\ mu = None
  /\ ses[r] \in sessions
  /\ GoTo(r, "registering")
  /\ UNCHANGED <<now, mapVars, objVars, diskVars, scan, ses, grp, cleanVars, procVars, restarts>>

Register(r) ==
  /\ pc[r] = "registering"
  /\ groups' = [groups EXCEPT ![ses[r]] = @ \union {grp[r]}]
  /\ wait' = [wait EXCEPT ![r] = "group"]
  /\ GoTo(r, "waiting")
  /\ UNCHANGED <<now, mapVars, ids, lastActivity, diskVars, scan, ses, grp, cleanVars, proc,
                 stray, restarts>>

\* SIGTERM, and SIGKILL half a second later, to every member of each group.
Signalled(gs) ==
  [g \in Group |->
     IF g \in gs /\ proc[g] \in {"running", "members", "orphans"} THEN "dead" ELSE proc[g]]

\* The handler's command is over for it, and so is its wait.
ForgetCommand(r) ==
  /\ wait' = [wait EXCEPT ![r] = "none"]
  /\ stray' = [stray EXCEPT ![r] = FALSE]
  /\ Finish(r)

\* Mutant: Run returns the error and leaves the command running.
MutantRegisterFail(r) ==
  /\ pc[r] = "started"
  /\ mu = None
  /\ ses[r] \notin sessions
  /\ ForgetCommand(r)
  /\ UNCHANGED <<now, mapVars, objVars, diskVars, scan, cleanVars, proc, restarts>>

\* RegisterProcessGroup fails: Run kills the leader alone and returns without
\* waiting for it, so nothing reaps the leader, and its descendants run on.
RegisterFail(r) ==
  /\ pc[r] = "started"
  /\ mu = None
  /\ ses[r] \notin sessions
  /\ \E p \in CASE proc[grp[r]] = "running" -> {"dead", "orphans"}
                [] proc[grp[r]] = "members" -> {"orphans"}
                [] OTHER -> {proc[grp[r]]} :
       proc' = [proc EXCEPT ![grp[r]] = p]
  /\ ForgetCommand(r)
  /\ UNCHANGED <<now, mapVars, objVars, diskVars, scan, cleanVars, restarts>>

\* The leader of a group ends by itself, with or without descendants in the group,
\* or the last of these does.
ProcessExit(g) ==
  /\ \/ proc[g] = "running" /\ proc' \in {[proc EXCEPT ![g] = p] : p \in {"members", "dead"}}
     \/ proc[g] \in {"members", "orphans"} /\ proc' = [proc EXCEPT ![g] = "dead"]
  /\ UNCHANGED <<now, mapVars, objVars, diskVars, scan, reqVars, cleanVars, wait, stray, restarts>>

\* The kernel still has handler r's command under its process id.
OwnsGroup(r) == pc[r] \in {"started", "registering"} \/ wait[r] = "group"

\* A descendant leaves the process group (setsid) and keeps stdout or stderr open.
Escape(r) ==
  /\ OwnsGroup(r)
  /\ proc[grp[r]] \in {"running", "members"}
  /\ stray' = [stray EXCEPT ![r] = TRUE]
  /\ UNCHANGED <<now, mapVars, objVars, diskVars, scan, reqVars, cleanVars, proc, wait, restarts>>

\* It ends or closes them; nothing obliges it to.
StrayExit(r) ==
  /\ stray[r]
  /\ stray' = [stray EXCEPT ![r] = FALSE]
  /\ UNCHANGED <<now, mapVars, objVars, diskVars, scan, reqVars, cleanVars, proc, wait, restarts>>

\* Mutant: the context ends but nothing is killed.
MutantCommandTimeout(r) ==
  /\ pc[r] = "waiting"
  /\ GoTo(r, "killed")
  /\ UNCHANGED <<now, mapVars, objVars, diskVars, scan, ses, grp, cleanVars, procVars, restarts>>

\* The command's context is done (its timeout, or the client went away): the select
\* takes that case, kills the group and goes on to wait.  It may take it when Wait
\* has reaped the leader or returned, and then signals a process id that may have
\* been handed out again.
CommandTimeout(r) ==
  /\ pc[r] = "waiting"
  /\ proc' = Signalled({grp[r]})
  /\ GoTo(r, "killed")
  /\ UNCHANGED <<now, mapVars, objVars, diskVars, scan, ses, grp, cleanVars, wait, stray, restarts>>

\* cmd.Wait has reaped the leader and the group has no member left: the kernel may
\* hand the process id out again.  (It keeps the id of a group that has members,
\* so an earlier reaping changes nothing.)
Reap(r) ==
  /\ wait[r] = "group"
  /\ proc[grp[r]] = "dead"
  /\ proc' = [proc EXCEPT ![grp[r]] = "free"]
  /\ wait' = [wait EXCEPT ![r] = "pipes"]
  /\ UNCHANGED <<now, mapVars, objVars, diskVars, scan, reqVars, cleanVars, stray, restarts>>

\* cmd.Wait returns.  Stdout and Stderr are no files and WaitDelay is not set, so it
\* first waits until everybody who inherited the pipes has closed them.
WaitReturns(r) ==
  /\ wait[r] = "pipes"
  /\ ~ stray[r]
  /\ wait' = [wait EXCEPT ![r] = "done"]
  /\ UNCHANGED <<now, mapVars, objVars, diskVars, scan, reqVars, cleanVars, proc, stray, restarts>>

\* Mutant: Run does not unregister the process group.
MutantUnregister(r) ==
  /\ pc[r] \in {"waiting", "killed"}
  /\ wait[r] = "done"
  /\ mu = None
  /\ ForgetCommand(r)
  /\ UNCHANGED <<now, mapVars, objVars, diskVars, scan, cleanVars, proc, restarts>>

\* Run has the result of Wait and returns; the deferred UnregisterProcessGroup does
\* nothing if the session has left the map.
Unregister(r) ==
  /\ pc[r] \in {"waiting", "killed"}
  /\ wait[r] = "done"
  /\ mu = None
  /\ groups' = IF ses[r] \in sessions THEN [groups EXCEPT ![ses[r]] = @ \ {grp[r]}] ELSE groups
  /\ ForgetCommand(r)
  /\ UNCHANGED <<now, mapVars, ids, lastActivity, diskVars, scan, cleanVars, proc, restarts>>

-----------------------------------------------------------------------------
(* cleanupSession and its three callers.                                   *)

\* Mutant: the sweep compares the expiry the wrong way round.
MutantSweepCollect ==
  /\ phase[Sweeper] = "idle"
  /\ batch = {}
  /\ mu = None
  /\ batch' = {s \in sessions : now < ExpiresAt(s)}
  /\ UNCHANGED <<now, mapVars, objVars, diskVars, scan, reqVars, phase, target, kill, procVars,
                 restarts>>

\* SweepExpired collects under the read lock.
SweepCollect ==
  /\ phase[Sweeper] = "idle"
  /\ batch = {}
  /\ mu = None
  /\ batch' = {s \in sessions : Expired(s)}
  /\ UNCHANGED <<now, mapVars, objVars, diskVars, scan, reqVars, phase, target, kill, procVars,
                 restarts>>

\* The sweeper turns to the next collected session.  Its expiry is not read again.
SweepNext(s) ==
  /\ phase[Sweeper] = "idle"
  /\ s \in batch
  /\ batch' = batch \ {s}
  /\ BeginCleanup(Sweeper, s)
  /\ UNCHANGED <<now, mapVars, objVars, diskVars, scan, reqVars, kill, procVars, restarts>>

\* processGroupList.
CleanupRead(c) ==
  /\ phase[c] = "start"
  /\ kill' = [kill EXCEPT ![c] = groups[target[c]]]
  /\ phase' = [phase EXCEPT ![c] = "kill"]
  /\ UNCHANGED <<now, mapVars, objVars, diskVars, scan, reqVars, target, batch, procVars, restarts>>

\* KillProcessGroup on each group read.
CleanupKill(c) ==
  /\ phase[c] = "kill"
  /\ proc' = Signalled(kill[c])
  /\ kill' = [kill EXCEPT ![c] = {}]
  /\ phase' = [phase EXCEPT ![c] = "remove"]
  /\ UNCHANGED <<now, mapVars, objVars, diskVars, scan, reqVars, target, batch, wait, stray,
                 restarts>>

\* RemoveAll succeeds.  An eviction is over; the sweeper and an expiring
\* handler go on to the map.
RemoveDir(c) ==
  /\ phase[c] = "remove"
  /\ dir' = dir \ {target[c]}
  /\ IF c \in Session THEN EndCleanup(c)
     ELSE phase' = [phase EXCEPT ![c] = "drop"] /\ UNCHANGED target
  /\ UNCHANGED <<now, mapVars, objVars, leaked, scan, reqVars, kill, batch, procVars, restarts>>

\* Mutant: the sweep does not `continue` and deletes the session all the same.
MutantRemoveDirFailSweep ==
  /\ phase[Sweeper] = "remove"
  /\ target[Sweeper] \in dir
  /\ phase' = [phase EXCEPT ![Sweeper] = "drop"]
  /\ UNCHANGED <<now, mapVars, objVars, diskVars, scan, reqVars, target, kill, batch, procVars,
                 restarts>>

\* RemoveAll fails in the sweeper: the session stays in the map for the next sweep.
RemoveDirFailSweep ==
  /\ phase[Sweeper] = "remove"
  /\ target[Sweeper] \in dir
  /\ EndCleanup(Sweeper)
  /\ UNCHANGED <<now, mapVars, objVars, diskVars, scan, reqVars, kill, batch, procVars, restarts>>

\* RemoveAll fails elsewhere: the failure is logged and nothing retries.
RemoveDirFail(c) ==
  /\ c # Sweeper
  /\ phase[c] = "remove"
  /\ target[c] \in dir
  /\ leaked' = leaked \union {target[c]}
  /\ IF c \in Session THEN EndCleanup(c)
     ELSE phase' = [phase EXCEPT ![c] = "drop"] /\ UNCHANGED target
  /\ UNCHANGED <<now, mapVars, objVars, dir, scan, reqVars, kill, batch, procVars, restarts>>

\* The sweeper deletes the session under m.mu.
SweepDrop ==
  /\ phase[Sweeper] = "drop"
  /\ mu = None
  /\ DropFromMap(target[Sweeper])
  /\ EndCleanup(Sweeper)
  /\ UNCHANGED <<now, mu, created, objVars, diskVars, scan, reqVars, kill, batch, procVars,
                 restarts>>

\* expireSession deletes the session and GetAndTouch returns ErrSessionExpired.
ExpireDrop(r) ==
  /\ phase[r] = "drop"
  /\ mu = None
  /\ DropFromMap(target[r])
  /\ EndCleanup(r)
  /\ Finish(r)
  /\ UNCHANGED <<now, mu, created, objVars, diskVars, scan, kill, batch, procVars, restarts>>

\* The container restarts.  Its processes and everything in memory are gone;
\* /sessions is a volume of the pod and stays, and NewManager does not look
\* into it.
Restart ==
  /\ restarts < MaxRestarts
  /\ restarts' = restarts + 1
  /\ mu' = None
  /\ sessions' = {}
  /\ active' = 0 /\ created' = 0 /\ expired' = 0
  /\ groups' = [s \in Session |-> {}]
  /\ leaked' = dir
  /\ scan' = [todo |-> {}, oldest |-> None]
  /\ pc' = [r \in Request |-> "idle"]
  /\ ses' = [r \in Request |-> None]
  /\ grp' = [r \in Request |-> None]
  /\ phase' = [c \in Cleaner |-> "idle"]
  /\ target' = [c \in Cleaner |-> None]
  /\ kill' = [c \in Cleaner |-> {}]
  /\ batch' = {}
  /\ proc' = [g \in Group |-> "free"]
  /\ wait' = [r \in Request |-> "none"]
  /\ stray' = [r \in Request |-> FALSE]
  /\ UNCHANGED <<now, ids, lastActivity, dir>>

-----------------------------------------------------------------------------
CreateStep(r) ==
  \/ CreateFull(r) \/ CreateFinish(r) \/ CreateFail(r)
  \/ \E s \in Session : CreateBegin(r, s) \/ ScanOne(r, s) \/ CreateEvict(r, s)

TouchStep(r) ==
  \/ CheckExpired(r) \/ CheckFresh(r) \/ Touch(r)
  \/ \E s \in Session : Lookup(r, s)

UseStep(r) ==
  \/ Return(r) \/ ResolvePath(r) \/ WriteFile(r)
  \/ RegisterLookup(r) \/ Register(r) \/ RegisterFail(r)
  \/ CommandTimeout(r) \/ Reap(r) \/ WaitReturns(r) \/ Unregister(r)
  \/ Escape(r) \/ StrayExit(r)
  \/ \E g \in Group : StartCommand(r, g)

CleanupStep(c) == CleanupRead(c) \/ CleanupKill(c) \/ RemoveDir(c) \/ RemoveDirFail(c)

SweepStep ==
  \/ SweepCollect \/ RemoveDirFailSweep \/ SweepDrop
  \/ \E s \in Session : SweepNext(s)

Next ==
  \/ Tick \/ SweepStep \/ Restart
  \/ \E r \in Request : CreateStep(r) \/ TouchStep(r) \/ UseStep(r) \/ ExpireDrop(r)
  \/ \E c \in Cleaner : CleanupStep(c)
  \/ \E g \in Group : ProcessExit(g)

Spec == Init /\ [][Next]_vars

(***************************************************************************)
(* The Go scheduler runs every goroutine that can run, the ticker of Start *)
(* keeps firing, an extraction ends, and a RemoveAll that is retried again *)
(* and again succeeds at last.  No handler is obliged to be called, and no *)
(* command or descendant of one to end by itself.                          *)
(***************************************************************************)
Fairness ==
  /\ WF_vars(SweepCollect) /\ WF_vars(SweepDrop)
  /\ WF_vars(\E s \in Session : SweepNext(s))
  /\ SF_vars(RemoveDir(Sweeper))
  /\ \A c \in Cleaner : WF_vars(CleanupStep(c))
  /\ \A r \in Request :
       /\ WF_vars(CreateFinish(r) \/ CreateFail(r))
       /\ WF_vars(\E s \in Session : ScanOne(r, s) \/ CreateEvict(r, s))
       /\ WF_vars(CheckExpired(r) \/ CheckFresh(r) \/ Touch(r) \/ ExpireDrop(r))
       /\ WF_vars(RegisterLookup(r) \/ Register(r) \/ RegisterFail(r) \/ Unregister(r))
       /\ WF_vars(CommandTimeout(r)) /\ WF_vars(Reap(r)) /\ WF_vars(WaitReturns(r))

FairSpec == Spec /\ Fairness

-----------------------------------------------------------------------------
HandlerStates ==
  {"idle", "scanning", "extracting", "checking", "touching", "expiring", "holding",
   "writing", "started", "registering", "waiting", "killed"}

\* members: the leader is gone, descendants run in the group; orphans: the same after
\* a failed registration; dead: nothing but a leader nobody has reaped.
ProcStates == {"free", "running", "members", "orphans", "dead"}

CleanupPhases == {"idle", "start", "kill", "remove", "drop"}

\* The types of the processes, and of everything else but the three metrics.
CommandTypes ==
  /\ proc \in [Group -> ProcStates]
  /\ wait \in [Request -> {"none", "group", "pipes", "done"}]
  /\ stray \in [Request -> BOOLEAN]

StateTypes ==
  /\ now \in Nat /\ restarts \in Nat
  /\ mu \in Request \union {None}
  /\ sessions \subseteq Session /\ ids \subseteq Session
  /\ lastActivity \in [Session -> Nat]
  /\ groups \in [Session -> SUBSET Group]
  /\ dir \subseteq Session /\ leaked \subseteq Session
  /\ scan \in [todo : SUBSET Session, oldest : Session \union {None}]
  /\ pc \in [Request -> HandlerStates]
  /\ ses \in [Request -> Session \union {None}]
  /\ grp \in [Request -> Group \union {None}]
  /\ phase \in [Cleaner -> CleanupPhases]
  /\ target \in [Cleaner -> Session \union {None}]
  /\ kill \in [Cleaner -> SUBSET Group]
  /\ batch \subseteq Session

\* Every variable has its type.  For the metrics that is more than bookkeeping:
\* SessionsActive is decremented in three places (manager.go 94, 221, 236) that run
\* concurrently for one session, and must not go below zero.
TypeOK == StateTypes /\ CommandTypes /\ active \in Nat /\ created \in Nat /\ expired \in Nat

\* Create makes room before it adds (manager.go 87-100): however many handlers
\* call it at once, and whatever sweeps and expiries run meanwhile, the map
\* never holds more than MaxSessions sessions.
CapacityBound == Cardinality(sessions) <= MaxSessions

Creating(s) == \E r \in Request : pc[r] = "extracting" /\ ses[r] = s

\* A session a client can still name has its directory, except in the window
\* between a successful RemoveAll and the deletion from the map that follows it
\* (manager.go 214-224, 232-239).
LiveSessionHasDirectory ==
  \A s \in sessions : s \in dir \/ \E c \in Cleaner : phase[c] = "drop" /\ target[c] = s

\* A directory under cfg.Root belongs to a session of the map, to a Create in
\* progress, or to a cleanup that has still to remove it; otherwise it is one of
\* the four leaks the code has: an eviction or an expiry whose RemoveAll failed
\* (99, 232), a failed Create whose RemoveAll failed (118, 137), a handler that
\* wrote into a session already removed (edit.go 28-31), a restart.
LeakAccounting ==
  \A s \in dir :
    \/ s \in sessions \/ s \in leaked \/ Creating(s)
    \/ \E c \in Cleaner : target[c] = s /\ phase[c] \in {"start", "kill", "remove"}

\* Every command that runs, its descendants in the group included, has a handler that
\* waits for it and will kill the group at its timeout, also when the session was
\* removed under it.  Nobody watches the orphans of a command that Run could not
\* register: it kills the leader alone (exec.go 130-134).
RunningCommandIsWatched ==
  \A g \in Group : proc[g] \in {"running", "members"} =>
    \E r \in Request : grp[r] = g /\ OwnsGroup(r)

\* A session of the map tracks a process id only while the handler that registered it
\* is in Run, and until that handler's Wait has reaped the command the id is nobody
\* else's, so a cleanup kills none but the session's own commands.  It may kill
\* another session's between the reaping and the deferred Unregister (exec.go 135-149),
\* when the kernel may have handed the id out again and it is still tracked.
TrackedGroupHasOwner ==
  \A s \in sessions : \A g \in groups[s] : \E r \in Request :
    /\ ses[r] = s /\ grp[r] = g /\ pc[r] \in {"waiting", "killed"}
    /\ wait[r] = "group" => \A q \in Request \ {r} : grp[q] = g => ~ OwnsGroup(q)

\* A session in the map past its expiry is touched in time or leaves the map, even
\* if RemoveAll fails on the way: the sweeper keeps it for the next sweep
\* (manager.go 212-216).
ExpiredIsReclaimed ==
  \A s \in Session : (s \in sessions /\ Expired(s)) ~> (s \notin sessions \/ ~ Expired(s))

\* Nobody holds m.mu for ever, and a handler that starts a command comes back,
\* whatever the sweeper and other handlers do to its session, unless a descendant
\* that left the process group keeps the output pipes open for ever: the kill at the
\* timeout does not reach it and Run waits for Wait all the same (exec.go 147-149).
HandlersReturn ==
  \A r \in Request : \/ []<>(pc[r] \in {"idle", "holding", "writing"})
                     \/ <>[]stray[r]

\* The detailed manager implements the abstract store.
Store == INSTANCE SessionStore
           WITH live <- sessions, gauge <- active, admitted <- created, dropped <- expired

ImplementsStore == Store!Spec

\* tools.go 86: "Sessions expire after 1 hour of inactivity; every tool call refreshes
\* the timer."  A session leaves the map only by eviction, by restart, or past its
\* expiry as last refreshed.
ExpiryHonoursTouch ==
  [][\A s \in sessions \ sessions' :
       Expired(s) \/ phase'[s] = "start" \/ restarts' # restarts]_vars

\* manager.go 257: "lruSession returns the session with the oldest LastActivityAt
\* (least-recently-used)."  The session Create evicts is such a one.
EvictsLeastRecentlyUsed ==
  [][\A s \in Session : (phase[s] = "idle" /\ phase'[s] = "start") =>
       \A t \in sessions : lastActivity[s] <= lastActivity[t]]_vars
=============================================================================
