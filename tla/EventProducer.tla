---------------------------- MODULE EventProducer ----------------------------
(***************************************************************************)
(* kafka_producer.py: runs the scheduled queries and sends what changed in *)
(* their results since the last run, or the whole result of a snapshot     *)
(* query.  A result is a bag of rows: a row is a number, the place of its  *)
(* canonical form in the sorted order.  What the script remembers of the   *)
(* last result is lost with the process.                                   *)
(***************************************************************************)
EXTENDS KafkaClient

CONSTANTS
  Queries,      \* SCHEDULED_QUERIES: the mode of each
  Rows,         \* different rows, 1..Rows
  MaxCopies,    \* times one row is in a result
  MaxRounds,    \* rounds of the loop in which a query is due
  MaxLives      \* times the script is started

ASSUME EventProducerAssumption ==
  /\ Queries \in Seq({"event", "snapshot"})
  /\ Rows \in Nat /\ MaxCopies \in Nat /\ MaxRounds \in Nat /\ MaxLives \in Nat \ {0}

VARIABLES
  life,         \* the number of this start of the script
  running,
  due,          \* the queries of this round that are still to be looked at
  states,       \* counter and row_counts of each query, and whether next_run was set
  payloads,     \* built but not yet produced
  rounds

producerVars == <<life, running, due, states, payloads, rounds>>

Result == [1..Rows -> 0..MaxCopies]

Fresh == [q \in 1..Len(Queries) |-> [counter |-> 0, counts |-> [r \in 1..Rows |-> 0], set |-> FALSE]]

ProducerInit ==
  /\ life = 1 /\ running = TRUE
  /\ due = {} /\ payloads = <<>> /\ rounds = 0
  /\ states = Fresh

Event(q, action, row) ==
  [life |-> life, query |-> q, counter |-> states[q].counter, action |-> action, row |-> row]

\* Mutant: a row is in a result or not, however often.
MutantChanges(q, action, from, to) ==
  FlattenSeq([r \in 1..Rows |->
    [i \in 1..(IF from[r] = 0 /\ to[r] > 0 THEN 1 ELSE 0) |-> Event(q, action, r)]])

\* One event for every copy of a row that to has more of than from.
Changes(q, action, from, to) ==
  FlattenSeq([r \in 1..Rows |-> [i \in 1..(to[r] - from[r]) |-> Event(q, action, r)]])

BuildEventPayloads(q, counts) ==
  Changes(q, "removed", counts, states[q].counts) \o Changes(q, "added", states[q].counts, counts)

-----------------------------------------------------------------------------
(* main().  Every query is due in the first round; later a query is due    *)
(* when its interval is over.                                              *)

StartRound ==
  /\ at[Producer] = "run" /\ running
  /\ rounds < MaxRounds
  /\ Goto(Producer, "round")
  /\ due' \in (SUBSET (1..Len(Queries))) \ {{}}
  /\ \A q \in 1..Len(Queries) : ~states[q].set => q \in due'
  /\ rounds' = rounds + 1
  /\ UNCHANGED <<mtlsVars, dirs, queue, topicVars, lost, faults, life, running, states, payloads>>

Ready(q) ==
  /\ at[Producer] = "round" /\ payloads = <<>>
  /\ q \in due /\ \A p \in due : q <= p
  /\ due' = due \ {q}

\* A query that fails, with the fallback if it has one, leaves its state; it is due after its
\* interval again.
QueryFails(q) ==
  /\ Ready(q)
  /\ Fault
  /\ states' = [states EXCEPT ![q].set = TRUE]
  /\ UNCHANGED <<mtlsVars, at, dirs, queue, topicVars, lost, life, running, payloads, rounds>>

\* Only the uptime query has a fallback, and a sysctl that does not answer in time raises what
\* neither the fallback nor the loop catches.
QueryDies(q) ==
  /\ Ready(q) /\ Queries[q] = "event"
  /\ Fault
  /\ End(Producer, "died", <<>>)
  /\ UNCHANGED <<mtlsVars, topicVars, life, running, states, payloads, rounds>>

\* The result is remembered and the counter goes on before anything is produced.
RunEventQuery(q) ==
  /\ Ready(q) /\ Queries[q] = "event"
  /\ \E counts \in Result :
       /\ payloads' = BuildEventPayloads(q, counts)
       /\ states' = [states EXCEPT ![q] =
                       [counter |-> @.counter + 1, counts |-> counts, set |-> TRUE]]
  /\ UNCHANGED <<clientVars, life, running, rounds>>

RunSnapshotQuery(q) ==
  /\ Ready(q) /\ Queries[q] = "snapshot"
  /\ payloads' = <<Event(q, "snapshot", 0)>>
  /\ states' = [states EXCEPT ![q].counter = @ + 1, ![q].set = TRUE]
  /\ UNCHANGED <<clientVars, life, running, rounds>>

\* A full queue raises BufferError, which nothing catches.
Produce ==
  /\ at[Producer] = "round" /\ payloads # <<>>
  /\ IF Len(queue[Producer]) < Capacity
     THEN /\ Enqueue(Producer, Head(payloads))
          /\ payloads' = Tail(payloads)
          /\ UNCHANGED <<at, dirs, lost>>
     ELSE /\ End(Producer, "died", payloads)
          /\ payloads' = <<>>
  /\ UNCHANGED <<mtlsVars, topicVars, faults, life, running, due, states, rounds>>

EndRound ==
  /\ at[Producer] = "round" /\ payloads = <<>> /\ due = {}
  /\ Goto(Producer, "run")
  /\ UNCHANGED <<mtlsVars, dirs, queue, topicVars, lost, faults, producerVars>>

\* Mutant: the flag is looked at once, before the loop.
MutantLeaveLoop ==
  /\ at[Producer] = "run" /\ ~running /\ rounds = 0
  /\ Goto(Producer, "flush")
  /\ UNCHANGED <<mtlsVars, dirs, queue, topicVars, lost, faults, producerVars>>

LeaveLoop ==
  /\ at[Producer] = "run" /\ ~running
  /\ Goto(Producer, "flush")
  /\ UNCHANGED <<mtlsVars, dirs, queue, topicVars, lost, faults, producerVars>>

\* flush(timeout=3) returns with the queue empty or not.
Flush ==
  /\ at[Producer] = "flush"
  /\ End(Producer, "done", <<>>)
  /\ UNCHANGED <<mtlsVars, topicVars, faults, producerVars>>

\* SIGINT or SIGTERM once the handlers are there.
Stop ==
  /\ at[Producer] \in {"run", "round"} /\ running
  /\ running' = FALSE
  /\ UNCHANGED <<clientVars, life, due, states, payloads, rounds>>

\* SIGKILL, or SIGTERM before the handlers are there.
KillProducer ==
  /\ at[Producer] \in {"fetch", "run", "round", "flush"}
  /\ Fault
  /\ End(Producer, "killed", payloads)
  /\ payloads' = <<>>
  /\ cert' = [cert EXCEPT ![Producer] = 0]
  /\ UNCHANGED <<secret, topicVars, life, running, due, states, rounds>>

\* A directory that a killed start left stays there, and nothing looks at it any more.
Restart ==
  /\ at[Producer] \in {"done", "died", "killed"}
  /\ life < MaxLives
  /\ life' = life + 1
  /\ Goto(Producer, "off")
  /\ running' = TRUE /\ due' = {} /\ states' = Fresh
  /\ dirs' = dirs \ {Producer}
  /\ UNCHANGED <<mtlsVars, queue, topicVars, lost, faults, payloads, rounds>>

ProducerSteps ==
  \/ StartRound \/ EndRound \/ LeaveLoop \/ Flush \/ Produce
  \/ \E q \in due : RunEventQuery(q) \/ RunSnapshotQuery(q)

=============================================================================
