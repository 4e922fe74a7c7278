--------------------------- MODULE UpdateScenario ---------------------------
(***************************************************************************)
(* os_update_scenario.py: a pool of workers, each with a chunk of the      *)
(* devices and a producer of its own, goes through the hours of the        *)
(* simulated weeks; a device that checks in may upgrade and reports the    *)
(* version it has.  What the script draws at random is a choice.           *)
(***************************************************************************)
EXTENDS KafkaClient

CONSTANTS
  MaxDevices,
  LastTick,         \* SIM_END, in hours after SIM_START
  TicksPerDay,
  Timezone,         \* timezone_offset: hours a device's local time is ahead of UTC
  Versions,         \* VERSIONS, oldest first: 1..Versions
  Initial,          \* INITIAL_VERSIONS
  Release,          \* the tick of a version's release, at most 0 when it is not after SIM_START
  Enforced          \* the versions that have an enforcement date

ASSUME UpdateScenarioAssumption ==
  /\ MaxDevices \in Nat \ {0} /\ LastTick \in Nat /\ TicksPerDay \in Nat \ {0}
  /\ Timezone \in [1..MaxDevices -> Int]
  /\ Versions \in Nat \ {0} /\ Release \in [1..Versions -> Int]
  /\ Enforced \subseteq 1..Versions /\ Initial \subseteq 1..Versions
  \* What has no enforcement date is never held back, so it has to be out from the start.
  /\ \A v \in 1..Versions : v \notin Enforced \/ v \in Initial => Release[v] <= 0

VARIABLES
  fleet,      \* the number of devices and of the workers asked for
  tick,       \* of each worker
  todo,       \* the devices a worker has still to look at in its tick
  device,     \* version, counter, the last local day looked at, if any, and whether it is skipped
  total,      \* total_events of a worker
  dropped     \* auxiliary: records of a device given up because the queue was full

scenarioVars == <<fleet, tick, todo, device, total, dropped>>

-----------------------------------------------------------------------------
(* main(): the chunks.                                                     *)

ChunkSize(devices, workers) ==
  LET n == IF workers < devices THEN workers ELSE devices
  IN  (devices + n - 1) \div n

\* As many workers as there are chunks, at most as many as were asked for.
ChunkCount(devices, workers) ==
  LET size == ChunkSize(devices, workers)
  IN  (devices + size - 1) \div size

Chunk(devices, workers, w) ==
  {d \in 1..devices : (d - 1) \div ChunkSize(devices, workers) = w - 1}

Active == {w \in Worker : w <= ChunkCount(fleet.devices, fleet.workers)}
Mine(w) == Chunk(fleet.devices, fleet.workers, w)

ScenarioInit ==
  /\ fleet \in [devices : {MaxDevices}, workers : Worker]
  /\ tick = [w \in Worker |-> 0]
  /\ todo = [w \in Worker |-> Mine(w)]
  /\ device \in [1..MaxDevices ->
       [version : Initial, counter : {0}, day : {<<>>}, skip : {FALSE}]]
  /\ total = [w \in Worker |-> 0]
  /\ dropped = [d \in 1..MaxDevices |-> 0]

-----------------------------------------------------------------------------
(* simulate_chunk(): a worker looks at its devices in turn at every tick.  *)

Turn(w, d) ==
  /\ at[w] = "run"
  /\ d \in todo[w] /\ \A e \in todo[w] : d <= e

Done(w, d) == todo' = [todo EXCEPT ![w] = @ \ {d}]

LocalDay(w, d) == <<(tick[w] + Timezone[d]) \div TicksPerDay>>

\* Whether the device stays away is drawn when its local day changes.
DayFlags(w, d) ==
  IF LocalDay(w, d) = device[d].day
  THEN {device[d]}
  ELSE {[device[d] EXCEPT !.day = LocalDay(w, d), !.skip = skip] : skip \in BOOLEAN}

\* upgrade_probability() is not zero.
CanUpgrade(v, t) == v \notin Enforced \/ Release[v] <= t

\* The newer versions are tried from the newest on, until one is drawn.
Upgrades(version, t) == {version} \cup {v \in (version + 1)..Versions : CanUpgrade(v, t)}

\* The device is away, outside its window, or misses this check-in after it upgraded.
NoEvent(w, d) ==
  /\ Turn(w, d)
  /\ Done(w, d)
  /\ \E flags \in DayFlags(w, d) :
       \E v \in IF flags.skip THEN {flags.version} ELSE Upgrades(flags.version, tick[w]) :
         device' = [device EXCEPT ![d] = [flags EXCEPT !.version = v]]
  /\ UNCHANGED <<clientVars, fleet, tick, total, dropped>>

Record(w, d, dev) == [device |-> d, counter |-> dev.counter, version |-> dev.version, tick |-> tick[w]]

\* The counter goes on before the record is accepted.
CheckIn(w, d) ==
  /\ Turn(w, d)
  /\ \E flags \in {f \in DayFlags(w, d) : ~f.skip}, v \in Upgrades(device[d].version, tick[w]) :
       LET dev == [flags EXCEPT !.version = v, !.counter = @ + 1]
       IN  /\ device' = [device EXCEPT ![d] = dev]
           /\ IF Len(queue[w]) < Capacity
              THEN /\ Enqueue(w, Record(w, d, dev))
                   /\ Done(w, d)
                   /\ total' = [total EXCEPT ![w] = @ + 1]
                   /\ UNCHANGED at
              ELSE Goto(w, "full") /\ UNCHANGED <<queue, todo, total>>
  /\ UNCHANGED <<mtlsVars, dirs, topicVars, lost, faults, fleet, tick, dropped>>

\* The record of device d did not fit into the queue.
Waits(w, d) == at[w] = "full" /\ d \in todo[w] /\ \A e \in todo[w] : d <= e

\* Mutant: a record that is dropped is counted.
MutantRetry(w) ==
  \E d \in todo[w] :
    /\ Waits(w, d)
    /\ Goto(w, "run") /\ Done(w, d)
    /\ total' = [total EXCEPT ![w] = @ + 1]
    /\ IF Len(queue[w]) < Capacity
       THEN Enqueue(w, Record(w, d, device[d])) /\ UNCHANGED dropped
       ELSE dropped' = [dropped EXCEPT ![d] = @ + 1] /\ UNCHANGED queue
    /\ UNCHANGED <<mtlsVars, dirs, topicVars, lost, faults, fleet, tick, device>>

\* After poll(1) the record is tried once more, and dropped if the queue is still full.
Retry(w) ==
  \E d \in todo[w] :
    /\ Waits(w, d)
    /\ Goto(w, "run") /\ Done(w, d)
    /\ IF Len(queue[w]) < Capacity
       THEN /\ Enqueue(w, Record(w, d, device[d]))
            /\ total' = [total EXCEPT ![w] = @ + 1]
            /\ UNCHANGED dropped
       ELSE dropped' = [dropped EXCEPT ![d] = @ + 1] /\ UNCHANGED <<queue, total>>
    /\ UNCHANGED <<mtlsVars, dirs, topicVars, lost, faults, fleet, tick, device>>

\* Mutant: one tick too many.
MutantNextTick(w) ==
  /\ at[w] = "run" /\ todo[w] = {}
  /\ IF tick[w] <= LastTick
     THEN /\ tick' = [tick EXCEPT ![w] = @ + 1]
          /\ todo' = [todo EXCEPT ![w] = Mine(w)]
          /\ UNCHANGED at
     ELSE Goto(w, "flush") /\ UNCHANGED <<tick, todo>>
  /\ UNCHANGED <<mtlsVars, dirs, queue, topicVars, lost, faults, fleet, device, total, dropped>>

NextTick(w) ==
  /\ at[w] = "run" /\ todo[w] = {}
  /\ IF tick[w] < LastTick
     THEN /\ tick' = [tick EXCEPT ![w] = @ + 1]
          /\ todo' = [todo EXCEPT ![w] = Mine(w)]
          /\ UNCHANGED at
     ELSE Goto(w, "flush") /\ UNCHANGED <<tick, todo>>
  /\ UNCHANGED <<mtlsVars, dirs, queue, topicVars, lost, faults, fleet, device, total, dropped>>

\* flush() has no timeout.
WorkerDone(w) ==
  /\ at[w] = "flush" /\ queue[w] = <<>>
  /\ End(w, "done", <<>>)
  /\ UNCHANGED <<mtlsVars, topicVars, faults, scenarioVars>>

KillWorker(w) ==
  /\ at[w] \in {"fetch", "run", "full", "flush"}
  /\ Fault
  /\ End(w, "killed", <<>>)
  /\ dropped' = [d \in 1..MaxDevices |-> dropped[d] + (IF Waits(w, d) THEN 1 ELSE 0)]
  /\ cert' = [cert EXCEPT ![w] = 0]
  /\ UNCHANGED <<secret, topicVars, fleet, tick, todo, device, total>>

WorkerSteps(w) ==
  \/ \E d \in todo[w] : NoEvent(w, d) \/ CheckIn(w, d)
  \/ Retry(w) \/ NextTick(w) \/ WorkerDone(w)

=============================================================================
