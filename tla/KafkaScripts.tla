---------------------------- MODULE KafkaScripts ----------------------------
(***************************************************************************)
(* The scripts around the topic osquery.  Either kafka_producer.py runs,   *)
(* with kafka_consumer.py reading what it writes, or os_update_scenario.py *)
(* does; program says which.                                               *)
(***************************************************************************)
EXTENDS EventProducer, UpdateScenario

CONSTANT MaxAssigns     \* assignments of the partition to the consumer

VARIABLES
  program,
  consumer    \* where the last assignment began, the next offset, what was printed
              \*   since, and how many assignments there were

vars == <<clientVars, producerVars, scenarioVars, program, consumer>>

\* The processes of the program that runs.
Running == IF program = "producer" THEN {Producer} ELSE Active

Init ==
  /\ program \in {"producer", "scenario"}
  /\ ClientInit /\ ProducerInit /\ ScenarioInit
  /\ program = "producer" =>
       fleet.workers = 1 /\ \A d, e \in 1..MaxDevices : device[d].version = device[e].version
  /\ at = [p \in Process |-> IF p \in Running THEN "off" ELSE "absent"]
  /\ consumer = [from |-> 0, next |-> 0, printed |-> <<>>, assigns |-> 0]

-----------------------------------------------------------------------------
(* kafka_consumer.py.                                                      *)

\* The consumer is started, or the group is rebalanced: on_assign moves to the end.
OnAssign ==
  /\ program = "producer" /\ consumer.assigns < MaxAssigns
  /\ consumer' = [from |-> Len(topic[Producer]), next |-> Len(topic[Producer]), printed |-> <<>>,
                  assigns |-> consumer.assigns + 1]

\* Mutant: an error is taken for a message that was read.
MutantPoll ==
  /\ consumer.assigns > 0 /\ at[Producer] \in {"done", "died", "killed"}
  /\ consumer.next < Len(topic[Producer])
  /\ \E read \in SUBSET {topic[Producer][consumer.next + 1]} :
       consumer' = [consumer EXCEPT !.next = @ + 1, !.printed = @ \o SetToSeq(read)]

\* poll() returns the next message, which is printed; nothing or an error leaves it where it is.
\* As a bound it waits for the producer to end: no other step can tell when it reads.
ConsumerPoll ==
  /\ consumer.assigns > 0 /\ at[Producer] \in {"done", "died", "killed"}
  /\ consumer.next < Len(topic[Producer])
  /\ consumer' = [consumer EXCEPT !.next = @ + 1,
                                  !.printed = Append(@, topic[Producer][consumer.next + 1])]

-----------------------------------------------------------------------------

\* A process goes on, in its script or in the thread of librdkafka that talks to the broker.
Proceed(p) ==
  \/ /\ p \in Running
     /\ Mtls(p) \/ Deliver(p)
     /\ UNCHANGED <<producerVars, scenarioVars, program, consumer>>
  \/ p = Producer /\ ProducerSteps /\ UNCHANGED <<scenarioVars, program, consumer>>
  \/ p \in Worker /\ WorkerSteps(p) /\ UNCHANGED <<producerVars, program, consumer>>

Next ==
  \/ \E p \in Process : Proceed(p)
  \/ /\ Renew \/ \E p \in Running : FetchFails(p) \/ Overtake(p) \/ Repeat(p) \/ Expire(p)
     /\ UNCHANGED <<producerVars, scenarioVars, program, consumer>>
  \/ /\ Stop \/ KillProducer \/ Restart \/ \E q \in due : QueryFails(q) \/ QueryDies(q)
     /\ UNCHANGED <<scenarioVars, program, consumer>>
  \/ \E w \in Worker : KillWorker(w) /\ UNCHANGED <<producerVars, program, consumer>>
  \/ (OnAssign \/ ConsumerPoll) /\ UNCHANGED <<clientVars, producerVars, scenarioVars, program>>

Spec == Init /\ [][Next]_vars

\* The downloads, the queries and the last flush have timeouts, and librdkafka gets an answer.
Fairness == \A p \in Process : WF_vars(Proceed(p))

FairSpec == Spec /\ Fairness

-----------------------------------------------------------------------------
(* Properties.                                                             *)

Ended == {"done", "died", "killed"}

Messages ==
  [life : 1..MaxLives, query : 1..Len(Queries), counter : Nat,
   action : {"added", "removed", "snapshot"}, row : 0..Rows]
  \cup [device : 1..MaxDevices, counter : Nat, version : 1..Versions, tick : 0..LastTick]

TypeOK ==
  /\ program \in {"producer", "scenario"}
  /\ at \in [Process -> {"absent", "off", "fetch", "run", "round", "full", "flush"} \cup Ended]
  /\ secret \in 1..(MaxFaults + 1) /\ cert \in [Process -> 0..secret]
  /\ dirs \subseteq Process
  /\ queue \in [Process -> Seq(Messages)] /\ \A p \in Process : Len(queue[p]) <= Capacity
  /\ topic \in [Process -> Seq(Messages)]
  /\ {lost, repeated, payloads, consumer.printed} \subseteq Seq(Messages)
  /\ faults \in 0..MaxFaults
  /\ states \in [1..Len(Queries) -> [counter : Nat, counts : Result, set : BOOLEAN]]
  /\ due \subseteq 1..Len(Queries) /\ life \in 1..MaxLives
  /\ \A w \in Worker : tick[w] \in 0..LastTick /\ todo[w] \subseteq Mine(w)
  /\ device \in [1..MaxDevices ->
       [version : 1..Versions, counter : 0..(LastTick + 1), day : Seq(Int), skip : BOOLEAN]]
  /\ consumer.from <= consumer.next /\ consumer.next <= Len(topic[Producer])

\* How often s says that row r was added, less how often it says it was removed: all of it, as a
\* reader adds it up, and what is of this life.
Sum(s, q, r) ==
  LET Of(action) == {i \in DOMAIN s : s[i].query = q /\ s[i].action = action /\ s[i].row = r}
  IN  Cardinality(Of("added")) - Cardinality(Of("removed"))

Net(s, q, r) ==
  LET Of(action) == {i \in DOMAIN s : /\ s[i].life = life /\ s[i].query = q
                                      /\ s[i].action = action /\ s[i].row = r}
  IN  Cardinality(Of("added")) - Cardinality(Of("removed"))

\* Everything that was built, once each but for what is repeated.
Built == topic[Producer] \o queue[Producer] \o payloads \o lost

\* The state goes on before an event is produced, and an event can be repeated, overtaken,
\* expire or die with the process, so that what says what the machine looks like is spread over
\* the topic, the queue and what was lost: together, and only together, the events of a life add
\* up to the last result, and a snapshot has each counter once (kafka_producer.py 165-213).
EventsAccounted ==
  program = "producer" =>
    \A q \in 1..Len(Queries) :
      IF Queries[q] = "event"
      THEN \A r \in 1..Rows :
             Net(Built, q, r) - Net(repeated, q, r) = states[q].counts[r]
      ELSE LET Count(s, c) == Cardinality({i \in DOMAIN s : /\ s[i].life = life /\ s[i].query = q
                                                            /\ s[i].counter = c})
           IN  \A c \in 0..MaxRounds :
                 Count(Built, c) - Count(repeated, c) = IF c < states[q].counter THEN 1 ELSE 0

\* A reader adds up whatever the consumer prints, since no message says of which start of the
\* producer it is (kafka_producer.py 153-162: the epoch is always 0).  The sum is the state of
\* the machine, in whatever order it came, when the consumer was assigned after the last message
\* of the starts before and before the first one of this start, nothing is on the way and nothing
\* of this start was lost or repeated: no sequence of full queues, overtaking messages, failing
\* queries, polls and rebalances makes the two differ otherwise.  A consumer that was assigned
\* earlier also prints what an earlier start built, and its reader counts rows twice.
ConsumerSeesState ==
  /\ program = "producer" /\ consumer.assigns > 0 /\ consumer.next = Len(topic[Producer])
  /\ \A i \in 1..Len(topic[Producer]) : topic[Producer][i].life = life <=> i > consumer.from
  /\ queue[Producer] = <<>> /\ payloads = <<>>
  /\ \A i \in DOMAIN lost : lost[i].life # life
  /\ \A i \in DOMAIN repeated : repeated[i].life # life
  => \A q \in 1..Len(Queries), r \in 1..Rows :
       Queries[q] = "event" => Sum(consumer.printed, q, r) = states[q].counts[r]


\* A producer that was told to stop, or a worker that simulates, is still at it.
Pending(p) ==
  /\ at[p] \in {"run", "round", "full", "flush"}
  /\ p = Producer => ~running

\* A script that is told to stop comes to its end though a round may be at work, the queue may
\* be full and the broker may be slow; workers come to the end of the weeks they simulate and
\* flush what is queued (kafka_producer.py 238-283, os_update_scenario.py 219-335).
ScriptsEnd == (\E p \in Process : Pending(p)) ~> (\A p \in Process : ~Pending(p))

Accepted(w) ==
  LET Of(s) == {i \in DOMAIN s : s[i].device \in Mine(w)}
  IN  Cardinality(Of(topic[w])) + Len(queue[w]) + Cardinality(Of(lost)) - Cardinality(Of(repeated))

\* No more chunks than workers were asked for, none empty, every device in one of them.
ChunksPartition(devices, workers) ==
  LET count == ChunkCount(devices, workers)
  IN  /\ count <= workers
      /\ \A d \in 1..devices :
           Cardinality({w \in 1..count : d \in Chunk(devices, workers, w)}) = 1
      /\ \A w \in 1..count : Chunk(devices, workers, w) # {}

\* What became of the records of device d: in the topic, queued, lost, repeated or dropped.
RecordsOf(w, d) ==
  LET Of(s) == Cardinality({i \in DOMAIN s : s[i].device = d})
  IN  Of(topic[w]) + Of(queue[w]) + Of(lost) - Of(repeated)
        + dropped[d] + (IF Waits(w, d) THEN 1 ELSE 0)

\* The chunks are a partition of the fleet, none empty; what the workers count is what was
\* accepted, every gap in a device's counters is a record of it that was dropped, and whatever
\* was repeated or overtaken, the versions a device reports grow with its counter and are out
\* when it reports them (os_update_scenario.py 118-135, 258-320, 364-367).
FleetIsConsistent ==
  /\ ChunksPartition(fleet.devices, fleet.workers)
  /\ program = "scenario" =>
       /\ \A w \in Active :
            /\ total[w] = Accepted(w)
            /\ \A d \in Mine(w) : device[d].counter = RecordsOf(w, d)
       /\ LET sent == (UNION {ToSet(topic[w]) : w \in Worker}) \cup ToSet(lost)
          IN  \A m, n \in sent :
                /\ Release[m.version] <= m.tick
                /\ m.device = n.device =>
                     /\ m.counter < n.counter => m.version <= n.version
                     /\ m.counter = n.counter => m = n

=============================================================================
