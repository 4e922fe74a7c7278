----------------------------- MODULE KafkaClient -----------------------------
(***************************************************************************)
(* What the scripts under scripts/ have in common: get_mtls_config, which  *)
(* puts a client certificate and its key into a temporary directory, and   *)
(* the producer of librdkafka between a script and the topic.  The broker  *)
(* acknowledges what it has; a lost acknowledgement or a retry repeats or  *)
(* reorders messages, since the scripts set neither enable.idempotence nor *)
(* a limit on the requests in flight.                                      *)
(***************************************************************************)
EXTENDS Integers, FiniteSets, SequencesExt

CONSTANTS
  Workers,      \* the most worker processes of os_update_scenario.py
  Capacity,     \* queue.buffering.max.messages
  MaxFaults     \* certificates renewed, processes killed, calls failed, messages repeated,
                \*   overtaken or expired

ASSUME KafkaClientAssumption ==
  Workers \in Nat \ {0} /\ Capacity \in Nat \ {0} /\ MaxFaults \in Nat

Producer == 0                   \* kafka_producer.py
Worker   == 1..Workers          \* the workers of os_update_scenario.py
Process  == 0..Workers

VARIABLES
  secret,     \* the number of the certificate in kafka-client-cert
  at,         \* what a process is doing
  cert,       \* the certificate a process downloaded while it has not its key, else 0
  dirs,       \* the processes whose own temporary directory is there
  queue,      \* messages a producer accepted that are not acknowledged
  topic,      \* what the broker has of each process, in the order it got it
  faults

\* Auxiliary: what was accepted or built and will not be in the topic, or is there twice.
VARIABLES lost, repeated

mtlsVars  == <<secret, cert>>
topicVars == <<topic, repeated>>
clientVars == <<mtlsVars, at, dirs, queue, topicVars, lost, faults>>

ClientInit ==
  /\ secret = 1
  /\ cert = [p \in Process |-> 0]
  /\ dirs = {}
  /\ queue = [p \in Process |-> <<>>]
  /\ topic = [p \in Process |-> <<>>] /\ lost = <<>> /\ repeated = <<>>
  /\ faults = 0

Fault == faults < MaxFaults /\ faults' = faults + 1

Goto(p, where) == at' = [at EXCEPT ![p] = where]

\* A process ends.  The handler that removes its directory runs unless it was killed; a worker
\* is killed by its pool, or gets there first.  What is queued, and the rest, is lost.
End(p, how, rest) ==
  /\ Goto(p, how)
  /\ dirs' \in CASE how = "killed" -> {dirs}
                 [] p \in Worker   -> {dirs, dirs \ {p}}
                 [] OTHER          -> {dirs \ {p}}
  /\ queue' = [queue EXCEPT ![p] = <<>>]
  /\ lost' = lost \o queue[p] \o rest

-----------------------------------------------------------------------------
(* kafka_mtls.py.                                                          *)

\* The broker's address is known, mkdtemp makes the directory, and the certificate is downloaded.
Launch(p) ==
  /\ at[p] = "off"
  /\ Goto(p, "fetch")
  /\ dirs' = dirs \cup {p}
  /\ cert' = [cert EXCEPT ![p] = secret]
  /\ UNCHANGED <<secret, queue, topicVars, lost, faults>>

\* The second download may bring the key of a later certificate: librdkafka refuses the pair.
Connect(p) ==
  /\ at[p] = "fetch"
  /\ cert' = [cert EXCEPT ![p] = 0]
  /\ IF cert[p] = secret
     THEN Goto(p, "run") /\ UNCHANGED <<dirs, queue, lost>>
     ELSE End(p, "died", <<>>)
  /\ UNCHANGED <<secret, topicVars, faults>>

\* tofu, ssh or kubectl fails or times out, and the script raises.
FetchFails(p) ==
  /\ at[p] \in {"off", "fetch"}
  /\ Fault
  /\ cert' = [cert EXCEPT ![p] = 0]
  /\ End(p, "died", <<>>)
  /\ UNCHANGED <<secret, topicVars>>

\* cert-manager renews the client certificate.
Renew ==
  /\ Fault
  /\ secret' = secret + 1
  /\ UNCHANGED <<cert, at, dirs, queue, topicVars, lost>>

-----------------------------------------------------------------------------
(* librdkafka and the broker.                                              *)

Enqueue(p, message) ==
  /\ Len(queue[p]) < Capacity
  /\ queue' = [queue EXCEPT ![p] = Append(@, message)]

\* The oldest message is acknowledged.
Deliver(p) ==
  /\ queue[p] # <<>>
  /\ topic' = [topic EXCEPT ![p] = Append(@, Head(queue[p]))]
  /\ queue' = [queue EXCEPT ![p] = Tail(@)]
  /\ UNCHANGED <<mtlsVars, at, dirs, repeated, lost, faults>>

\* The oldest message waits for a retry while the next one is acknowledged.
Overtake(p) ==
  /\ Len(queue[p]) > 1
  /\ Fault
  /\ topic' = [topic EXCEPT ![p] = Append(@, queue[p][2])]
  /\ queue' = [queue EXCEPT ![p] = RemoveAt(@, 2)]
  /\ UNCHANGED <<mtlsVars, at, dirs, repeated, lost>>

\* The broker has the message but its acknowledgement is lost; it will be sent again.
Repeat(p) ==
  /\ queue[p] # <<>>
  /\ Fault
  /\ topic' = [topic EXCEPT ![p] = Append(@, Head(queue[p]))]
  /\ repeated' = Append(repeated, Head(queue[p]))
  /\ UNCHANGED <<mtlsVars, at, dirs, queue, lost>>

\* message.timeout.ms: the delivery callback prints the error.
Expire(p) ==
  /\ queue[p] # <<>>
  /\ Fault
  /\ queue' = [queue EXCEPT ![p] = Tail(@)]
  /\ lost' = Append(lost, Head(queue[p]))
  /\ UNCHANGED <<mtlsVars, at, dirs, topicVars>>

Mtls(p) == Launch(p) \/ Connect(p)

=============================================================================
