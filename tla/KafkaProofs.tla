----------------------------- MODULE KafkaProofs -----------------------------
(***************************************************************************)
(* Proofs about KafkaScripts, for any number of queries, rows, workers,    *)
(* devices and faults and any capacity of the queue: that no event or      *)
(* record is unaccounted for, that a reader of the consumer's output sees  *)
(* the state of the machine, and that the fleet is cut into chunks that    *)
(* cover it and its records are what its devices did.                      *)
(***************************************************************************)
EXTENDS KafkaScripts, DataLemmas

Places == {"absent", "off", "fetch", "run", "round", "full", "flush"} \cup Ended

LEMMA Processes == Producer \in Process /\ Worker \subseteq Process /\ Producer \notin Worker
BY KafkaClientAssumption DEF Producer, Process, Worker

-----------------------------------------------------------------------------
(* Where the messages are.  Every step of librdkafka, and the end of a     *)
(* process, moves messages of one process and neither makes nor loses one: *)
(* how many there are of any set P, those repeated apart, stays the same.  *)

EventsUpTo(n) ==
  [life : 1..n, query : 1..Len(Queries), counter : Nat,
   action : {"added", "removed", "snapshot"}, row : 0..Rows]
Reports == [device : 1..MaxDevices, counter : Nat, version : 1..Versions, tick : 0..LastTick]

\* What the messages of the program that runs look like.
Kind == IF program = "producer" THEN EventsUpTo(life) ELSE Reports

\* Where the messages of a process are.
Holds(q, t, l, r, b, K) ==
  /\ q \in [Process -> Seq(K)] /\ t \in [Process -> Seq(K)]
  /\ l \in Seq(K) /\ r \in Seq(K) /\ b \in Seq(K)

Channels(K) == Holds(queue, topic, lost, repeated, payloads, K)

\* How many messages of P there are in sequences of messages, but for what was repeated.
Total(t, q, b, l, r, P) ==
  CountIn(t, P) + CountIn(q, P) + CountIn(b, P) + CountIn(l, P) - CountIn(r, P)

Tally(p, P) == Total(topic[p], queue[p], payloads, lost, repeated, P)

Flows(p, K) ==
  /\ Holds(queue', topic', lost', repeated', payloads', K)
  /\ \A o \in Process \ {p} : queue'[o] = queue[o] /\ topic'[o] = topic[o]
  /\ ToSet(queue'[p]) \subseteq ToSet(queue[p]) \cup ToSet(payloads)
  /\ ToSet(topic'[p]) \subseteq ToSet(topic[p]) \cup ToSet(queue[p])
  /\ ToSet(lost') \subseteq ToSet(lost) \cup ToSet(queue[p]) \cup ToSet(payloads)
  /\ topic'[p] = topic[p] \/ \E e \in K : topic'[p] = Append(topic[p], e)
  /\ \A P : Total(topic'[p], queue'[p], payloads', lost', repeated', P) = Tally(p, P)
  /\ \A P : (\A m \in ToSet(queue[p]) \cup ToSet(payloads) : m \notin P) =>
       CountIn(lost', P) = CountIn(lost, P) /\ CountIn(repeated', P) = CountIn(repeated, P)

LEMMA TotalRepeats ==
  ASSUME NEW S, NEW t \in Seq(S), NEW q \in Seq(S), NEW b \in Seq(S), NEW l \in Seq(S),
         NEW r \in Seq(S), NEW e \in S, NEW P
  PROVE  Total(Append(t, e), q, b, l, Append(r, e), P) = Total(t, q, b, l, r, P)
<1>1. /\ CountIn(Append(t, e), P) = CountIn(t, P) + (IF e \in P THEN 1 ELSE 0)
      /\ CountIn(Append(r, e), P) = CountIn(r, P) + (IF e \in P THEN 1 ELSE 0)
  BY CountAppend
<1>2. /\ CountIn(t, P) \in Nat /\ CountIn(q, P) \in Nat /\ CountIn(b, P) \in Nat
      /\ CountIn(l, P) \in Nat /\ CountIn(r, P) \in Nat
  BY CountType
<1> QED
  BY SMTT(20), <1>1, <1>2 DEF Total

LEMMA TotalExpires ==
  ASSUME NEW S, NEW t \in Seq(S), NEW q \in Seq(S), NEW b \in Seq(S), NEW l \in Seq(S),
         NEW r \in Seq(S), NEW P, q # <<>>
  PROVE  Total(t, Tail(q), b, Append(l, Head(q)), r, P) = Total(t, q, b, l, r, P)
<1>1. PICK e \in S, u \in Seq(S) : e = Head(q) /\ u = Tail(q)
  BY TailRemoves
<1>2. /\ CountIn(Append(l, e), P) = CountIn(l, P) + (IF e \in P THEN 1 ELSE 0)
      /\ CountIn(q, P) = CountIn(u, P) + (IF e \in P THEN 1 ELSE 0)
  BY <1>1, CountAppend, CountHead
<1>3. /\ CountIn(t, P) \in Nat /\ CountIn(u, P) \in Nat /\ CountIn(b, P) \in Nat
      /\ CountIn(l, P) \in Nat /\ CountIn(r, P) \in Nat
  BY CountType
<1> QED
  BY SMTT(20), <1>1, <1>2, <1>3 DEF Total

LEMMA TotalProduces ==
  ASSUME NEW S, NEW t \in Seq(S), NEW q \in Seq(S), NEW b \in Seq(S), NEW l \in Seq(S),
         NEW r \in Seq(S), NEW P, b # <<>>
  PROVE  Total(t, Append(q, Head(b)), Tail(b), l, r, P) = Total(t, q, b, l, r, P)
<1>1. PICK e \in S, u \in Seq(S) : e = Head(b) /\ u = Tail(b)
  BY TailRemoves
<1>2. /\ CountIn(Append(q, e), P) = CountIn(q, P) + (IF e \in P THEN 1 ELSE 0)
      /\ CountIn(b, P) = CountIn(u, P) + (IF e \in P THEN 1 ELSE 0)
  BY <1>1, CountAppend, CountHead
<1>3. /\ CountIn(t, P) \in Nat /\ CountIn(u, P) \in Nat /\ CountIn(q, P) \in Nat
      /\ CountIn(l, P) \in Nat /\ CountIn(r, P) \in Nat
  BY CountType
<1> QED
  BY SMTT(20), <1>1, <1>2, <1>3 DEF Total

LEMMA TotalEnds ==
  ASSUME NEW S, NEW t \in Seq(S), NEW q \in Seq(S), NEW b \in Seq(S), NEW l \in Seq(S),
         NEW r \in Seq(S), NEW P
  PROVE  /\ Total(t, <<>>, <<>>, l \o q \o b, r, P) = Total(t, q, b, l, r, P)
         /\ Total(t, <<>>, b, l \o q \o <<>>, r, P) = Total(t, q, b, l, r, P)
<1>1. PICK u \in Seq(S) : u = l \o q
  BY ConcatProperties
<1>2. /\ CountIn(u, P) = CountIn(l, P) + CountIn(q, P) 
      /\ CountIn(u \o b, P) = CountIn(u, P) + CountIn(b, P)
  BY ZenonT(30), <1>1, CountConcat
<1>3. u \o <<>> = u
  BY ConcatEmptySeq
<1>4. CountIn(<<>>, P) = 0
  BY CountEmpty
<1>5. /\ CountIn(t, P) \in Nat /\ CountIn(q, P) \in Nat /\ CountIn(b, P) \in Nat
      /\ CountIn(l, P) \in Nat /\ CountIn(r, P) \in Nat
  BY CountType
<1> QED
  BY SMTT(20), <1>1, <1>2, <1>3, <1>4, <1>5 DEF Total

LEMMA MoveCounts ==
  ASSUME NEW S, NEW t \in Seq(S), NEW q \in Seq(S), NEW k \in 1..Len(q), NEW P
  PROVE  CountIn(Append(t, q[k]), P) + CountIn(RemoveAt(q, k), P) = CountIn(t, P) + CountIn(q, P)
<1>1. q[k] \in S
  BY ElementOfSeq
<1>2. CountIn(Append(t, q[k]), P) = CountIn(t, P) + (IF q[k] \in P THEN 1 ELSE 0)
  BY <1>1, CountAppend
<1>3. CountIn(q, P) = CountIn(RemoveAt(q, k), P) + (IF q[k] \in P THEN 1 ELSE 0)
  BY CountWithout
<1>4. CountIn(t, P) \in Nat /\ CountIn(RemoveAt(q, k), P) \in Nat
  BY CountType, CountWithout
<1> QED
  BY <1>2, <1>3, <1>4

\* A message of p goes from the queue to the topic.
LEMMA AcknowledgeFlows ==
  ASSUME NEW K, Channels(K), NEW p \in Process, NEW k \in 1..Len(queue[p]),
         topic' = [topic EXCEPT ![p] = Append(@, queue[p][k])],
         queue' = [queue EXCEPT ![p] = RemoveAt(@, k)],
         UNCHANGED <<lost, repeated, payloads>>
  PROVE  Flows(p, K) /\ Len(queue'[p]) = Len(queue[p]) - 1
<1>1. PICK q \in Seq(K), t \in Seq(K) : q = queue[p] /\ t = topic[p]
  BY DEF Channels, Holds
<1>2. q[k] \in K
  BY <1>1, ElementOfSeq
<1>3. topic'[p] = Append(t, q[k]) /\ queue'[p] = RemoveAt(q, k)
  BY <1>1 DEF Channels, Holds
<1>4. Append(t, q[k]) \in Seq(K) /\ RemoveAt(q, k) \in Seq(K) /\ Len(RemoveAt(q, k)) = Len(q) - 1
  BY <1>1, <1>2, AppendProperties, CountWithout
<1>5. Holds(queue', topic', lost', repeated', payloads', K)
  BY <1>1, <1>4 DEF Channels, Holds
<1>6. \A o \in Process \ {p} : queue'[o] = queue[o] /\ topic'[o] = topic[o]
  BY DEF Channels, Holds
<1>7. ToSet(RemoveAt(q, k)) \subseteq ToSet(q) /\ q[k] \in ToSet(q)
  BY <1>1, ToSetWithout
<1>8. ToSet(Append(t, q[k])) = ToSet(t) \cup {q[k]}
  BY <1>2, ToSetAppend
<1>9. \A P : Total(topic'[p], queue'[p], payloads', lost', repeated', P) = Tally(p, P)
  <2> SUFFICES ASSUME NEW P PROVE Total(topic'[p], queue'[p], payloads', lost', repeated', P) = Tally(p, P)
    OBVIOUS
  <2>1. CountIn(Append(t, q[k]), P) + CountIn(RemoveAt(q, k), P) = CountIn(t, P) + CountIn(q, P)
    BY <1>1, MoveCounts
  <2>2. CountIn(topic'[p], P) + CountIn(queue'[p], P) = CountIn(topic[p], P) + CountIn(queue[p], P)
    BY <1>1, <1>3, <2>1
  <2> QED
    BY <2>2 DEF Tally, Total
<1> QED
  BY <1>1, <1>2, <1>3, <1>4, <1>5, <1>6, <1>7, <1>8, <1>9 DEF Flows

LEMMA StillFlows ==
  ASSUME NEW K, Channels(K), NEW p \in Process, UNCHANGED <<queue, topic, lost, repeated, payloads>>
  PROVE  Flows(p, K)
BY DEF Flows, Channels, Holds, Tally

\* The broker gets a message of p that stays in the queue.
LEMMA RepeatFlows ==
  ASSUME NEW K, Channels(K), NEW p \in Process, queue[p] # <<>>,
         topic' = [topic EXCEPT ![p] = Append(@, Head(queue[p]))],
         repeated' = Append(repeated, Head(queue[p])),
         UNCHANGED <<queue, lost, payloads>>
  PROVE  Flows(p, K)
<1>1. PICK q \in Seq(K), t \in Seq(K), r \in Seq(K) : q = queue[p] /\ t = topic[p] /\ r = repeated
  BY DEF Channels, Holds
<1>2. PICK e \in K : e = Head(q) /\ e \in ToSet(q)
  BY <1>1, TailRemoves, ToSetWithout
<1>3. topic'[p] = Append(t, e) /\ repeated' = Append(r, e)
  BY <1>1, <1>2 DEF Channels, Holds
<1>4. Append(t, e) \in Seq(K) /\ Append(r, e) \in Seq(K)
  BY <1>2, AppendProperties
<1>5. Holds(queue', topic', lost', repeated', payloads', K)
  BY <1>1, <1>2, <1>3, <1>4 DEF Channels, Holds
<1>6. \A o \in Process \ {p} : queue'[o] = queue[o] /\ topic'[o] = topic[o]
  BY DEF Channels, Holds
<1>7. ToSet(Append(t, e)) = ToSet(t) \cup {e}
  BY <1>2, ToSetAppend
<1>8. ASSUME NEW P
      PROVE  /\ CountIn(topic'[p], P) = CountIn(t, P) + (IF e \in P THEN 1 ELSE 0)
             /\ CountIn(repeated', P) = CountIn(repeated, P) + (IF e \in P THEN 1 ELSE 0)
             /\ CountIn(t, P) \in Nat /\ CountIn(repeated, P) \in Nat
  <2>1. CountIn(Append(t, e), P) = CountIn(t, P) + (IF e \in P THEN 1 ELSE 0)
    BY CountAppend
  <2>2. CountIn(Append(r, e), P) = CountIn(r, P) + (IF e \in P THEN 1 ELSE 0)
    BY CountAppend
  <2>3. CountIn(t, P) \in Nat /\ CountIn(r, P) \in Nat
    BY CountType
  <2> QED
    BY <1>1, <1>3, <2>1, <2>2, <2>3
<1>9. ASSUME NEW P PROVE Total(topic'[p], queue'[p], payloads', lost', repeated', P) = Tally(p, P)
  <2>1. PICK b \in Seq(K), l \in Seq(K) : b = payloads /\ l = lost
    BY DEF Channels, Holds
  <2>2. Total(Append(t, e), q, b, l, Append(r, e), P) = Total(t, q, b, l, r, P)
    BY TotalRepeats
  <2> QED
    BY <1>1, <1>3, <2>1, <2>2 DEF Tally
<1>10. ASSUME NEW P, \A m \in ToSet(queue[p]) \cup ToSet(payloads) : m \notin P
       PROVE  CountIn(lost', P) = CountIn(lost, P) /\ CountIn(repeated', P) = CountIn(repeated, P)
  <2>1. e \notin P
    BY <1>1, <1>2, <1>10
  <2> QED
    BY <1>8, <2>1
<1> QED
  BY <1>1, <1>2, <1>3, <1>5, <1>6, <1>7, <1>9, <1>10 DEF Flows

\* A message of p is given up.
LEMMA ExpireFlows ==
  ASSUME NEW K, Channels(K), NEW p \in Process, queue[p] # <<>>,
         queue' = [queue EXCEPT ![p] = Tail(@)],
         lost' = Append(lost, Head(queue[p])),
         UNCHANGED <<topic, repeated, payloads>>
  PROVE  Flows(p, K) /\ Len(queue'[p]) = Len(queue[p]) - 1
<1>1. PICK q \in Seq(K), l \in Seq(K) : q = queue[p] /\ l = lost
  BY DEF Channels, Holds
<1>2. PICK e \in K : e = Head(q) /\ e \in ToSet(q) /\ e = q[1]
  BY <1>1, TailRemoves, ToSetWithout
<1>3. PICK u \in Seq(K) : u = Tail(q) /\ ToSet(u) \subseteq ToSet(q) /\ Len(u) = Len(q) - 1
  BY <1>1, TailRemoves, ToSetWithout
<1>4. queue'[p] = u /\ lost' = Append(l, e)
  BY <1>1, <1>2, <1>3 DEF Channels, Holds
<1>5. Append(l, e) \in Seq(K) /\ ToSet(Append(l, e)) = ToSet(l) \cup {e}
  BY <1>2, AppendProperties, ToSetAppend
<1>6. Holds(queue', topic', lost', repeated', payloads', K)
  BY <1>1, <1>3, <1>4, <1>5 DEF Channels, Holds
<1>7. \A o \in Process \ {p} : queue'[o] = queue[o] /\ topic'[o] = topic[o]
  BY DEF Channels, Holds
<1>8. ASSUME NEW P
      PROVE  /\ CountIn(q, P) = CountIn(u, P) + (IF e \in P THEN 1 ELSE 0)
             /\ CountIn(lost', P) = CountIn(lost, P) + (IF e \in P THEN 1 ELSE 0)
             /\ CountIn(u, P) \in Nat /\ CountIn(lost, P) \in Nat
  <2>1. CountIn(Append(l, e), P) = CountIn(l, P) + (IF e \in P THEN 1 ELSE 0)
    BY CountAppend
  <2>2. CountIn(q, P) = CountIn(u, P) + (IF e \in P THEN 1 ELSE 0)
    BY <1>1, <1>2, <1>3, CountHead
  <2>3. CountIn(u, P) \in Nat /\ CountIn(l, P) \in Nat
    BY CountType
  <2> QED
    BY <1>1, <1>4, <2>1, <2>2, <2>3
<1>9. ASSUME NEW P PROVE Total(topic'[p], queue'[p], payloads', lost', repeated', P) = Tally(p, P)
  <2>1. topic[p] \in Seq(K) /\ payloads \in Seq(K) /\ repeated \in Seq(K)
    BY DEF Channels, Holds
  <2>2. Total(topic[p], Tail(q), payloads, Append(l, Head(q)), repeated, P)
          = Total(topic[p], q, payloads, l, repeated, P)
    BY <1>1, <2>1, TotalExpires
  <2> QED
    BY <1>1, <1>2, <1>3, <1>4, <2>2 DEF Tally
<1>10. ASSUME NEW P, \A m \in ToSet(queue[p]) \cup ToSet(payloads) : m \notin P
       PROVE  CountIn(lost', P) = CountIn(lost, P) /\ CountIn(repeated', P) = CountIn(repeated, P)
  <2>1. e \notin P
    BY <1>1, <1>2, <1>10
  <2> QED
    BY <1>8, <2>1
<1> QED
  BY <1>1, <1>2, <1>3, <1>4, <1>5, <1>6, <1>7, <1>9, <1>10 DEF Flows

\* All that is queued of p, and the rest of what it built, is given up.
LEMMA EndFlows ==
  ASSUME NEW K, Channels(K), NEW p \in Process, NEW rest \in {<<>>, payloads},
         queue' = [queue EXCEPT ![p] = <<>>],
         lost' = lost \o queue[p] \o rest,
         IF rest = <<>> THEN payloads' = payloads ELSE payloads' = <<>>,
         UNCHANGED <<topic, repeated>>
  PROVE  Flows(p, K) /\ queue'[p] = <<>>
<1>1. PICK q \in Seq(K), l \in Seq(K), b \in Seq(K) : q = queue[p] /\ l = lost /\ b = rest
  BY EmptySeq DEF Channels, Holds
<1>2. PICK u \in Seq(K) : u = l \o q
  BY ConcatProperties
<1>3. PICK v \in Seq(K) : v = u \o b
  BY ConcatProperties
<1>4. queue'[p] = <<>> /\ lost' = v
  BY <1>1, <1>2, <1>3 DEF Channels, Holds
<1>5. ToSet(v) = ToSet(l) \cup ToSet(q) \cup ToSet(b)
  <2>1. ToSet(u) = ToSet(l) \cup ToSet(q)
    BY <1>2, ToSetConcat
  <2>2. ToSet(v) = ToSet(u) \cup ToSet(b)
    BY <1>3, ToSetConcat
  <2> QED
    BY <2>1, <2>2
<1>6. Holds(queue', topic', lost', repeated', payloads', K)
  BY <1>1, <1>3, <1>4, EmptySeq DEF Channels, Holds
<1>7. \A o \in Process \ {p} : queue'[o] = queue[o] /\ topic'[o] = topic[o]
  BY DEF Channels, Holds
<1>8. ToSet(<<>>) = {}
  BY DEF ToSet
<1>9. ASSUME NEW P
      PROVE  /\ CountIn(lost', P) = CountIn(l, P) + CountIn(q, P) + CountIn(b, P)
             /\ CountIn(payloads', P) = CountIn(payloads, P) - CountIn(b, P)
             /\ CountIn(queue'[p], P) = 0
             /\ CountIn(l, P) \in Nat /\ CountIn(q, P) \in Nat /\ CountIn(b, P) \in Nat
             /\ CountIn(payloads, P) \in Nat
  <2>1. CountIn(l, P) \in Nat /\ CountIn(q, P) \in Nat /\ CountIn(b, P) \in Nat
    BY CountType
  <2>2. CountIn(u, P) = CountIn(l, P) + CountIn(q, P) /\ CountIn(v, P) = CountIn(u, P) + CountIn(b, P)
    BY ZenonT(30), <1>2, <1>3, CountConcat
  <2>3. CountIn(payloads, P) \in Nat
    BY CountType DEF Channels, Holds
  <2>4. CountIn(<<>>, P) = 0
    BY CountEmpty
  <2> QED
    BY <1>1, <1>4, <2>1, <2>2, <2>3, <2>4
<1>10. ASSUME NEW P PROVE Total(topic'[p], queue'[p], payloads', lost', repeated', P) = Tally(p, P)
  <2>1. topic[p] \in Seq(K) /\ payloads \in Seq(K) /\ repeated \in Seq(K)
    BY DEF Channels, Holds
  <2>2. PICK t \in Seq(K), y \in Seq(K), r \in Seq(K) :
          t = topic[p] /\ y = payloads /\ r = repeated
    BY <2>1
  <2>3. Total(t, <<>>, <<>>, l \o q \o y, r, P) = Total(t, q, y, l, r, P)
    BY SMTT(20), TotalEnds
  <2>4. Total(t, <<>>, y, l \o q \o <<>>, r, P) = Total(t, q, y, l, r, P)
    BY SMTT(20), TotalEnds
  <2>5. lost' = l \o q \o rest
    BY <1>1
  <2> QED
    BY <1>1, <1>4, <2>2, <2>3, <2>4, <2>5 DEF Tally
<1>11. ASSUME NEW P, \A m \in ToSet(queue[p]) \cup ToSet(payloads) : m \notin P
       PROVE  CountIn(lost', P) = CountIn(lost, P) /\ CountIn(repeated', P) = CountIn(repeated, P)
  <2>1. \A m \in ToSet(q) : m \notin P
    BY <1>1, <1>11
  <2>2. \A m \in ToSet(b) : m \notin P
    BY <1>1, <1>8, <1>11
  <2> QED
    BY SMTT(20), <1>1, <1>9, <2>1, <2>2, CountNone
<1> QED
  BY <1>1, <1>4, <1>5, <1>6, <1>7, <1>8, <1>10, <1>11 DEF Flows

\* What was built goes into the queue.
LEMMA ProduceFlows ==
  ASSUME NEW K, Channels(K), NEW p \in Process, payloads # <<>>,
         queue' = [queue EXCEPT ![p] = Append(@, Head(payloads))],
         payloads' = Tail(payloads),
         UNCHANGED <<topic, lost, repeated>>
  PROVE  Flows(p, K) /\ Len(queue'[p]) = Len(queue[p]) + 1
<1>1. PICK q \in Seq(K), b \in Seq(K) : q = queue[p] /\ b = payloads
  BY DEF Channels, Holds
<1>2. PICK e \in K : e = Head(b) /\ e \in ToSet(b) /\ e = b[1]
  BY <1>1, TailRemoves, ToSetWithout
<1>3. PICK u \in Seq(K) : u = Tail(b) /\ ToSet(u) \subseteq ToSet(b) /\ Len(u) = Len(b) - 1
  BY <1>1, TailRemoves, ToSetWithout
<1>4. queue'[p] = Append(q, e) /\ payloads' = u
  BY <1>1, <1>2, <1>3 DEF Channels, Holds
<1>5. /\ Append(q, e) \in Seq(K) /\ ToSet(Append(q, e)) = ToSet(q) \cup {e}
      /\ Len(Append(q, e)) = Len(q) + 1
  BY <1>2, AppendProperties, ToSetAppend
<1>6. Holds(queue', topic', lost', repeated', payloads', K)
  BY <1>1, <1>3, <1>4, <1>5 DEF Channels, Holds
<1>7. \A o \in Process \ {p} : queue'[o] = queue[o] /\ topic'[o] = topic[o]
  BY DEF Channels, Holds
<1>8. ASSUME NEW P
      PROVE  /\ CountIn(payloads, P) = CountIn(u, P) + (IF e \in P THEN 1 ELSE 0)
             /\ CountIn(queue'[p], P) = CountIn(q, P) + (IF e \in P THEN 1 ELSE 0)
             /\ CountIn(u, P) \in Nat /\ CountIn(q, P) \in Nat
  <2>1. CountIn(Append(q, e), P) = CountIn(q, P) + (IF e \in P THEN 1 ELSE 0)
    BY CountAppend
  <2>2. CountIn(b, P) = CountIn(u, P) + (IF e \in P THEN 1 ELSE 0)
    BY <1>1, <1>2, <1>3, CountHead
  <2>3. CountIn(u, P) \in Nat /\ CountIn(q, P) \in Nat
    BY CountType
  <2> QED
    BY <1>1, <1>4, <2>1, <2>2, <2>3
<1>9. ASSUME NEW P PROVE Total(topic'[p], queue'[p], payloads', lost', repeated', P) = Tally(p, P)
  <2>1. topic[p] \in Seq(K) /\ lost \in Seq(K) /\ repeated \in Seq(K)
    BY DEF Channels, Holds
  <2>2. Total(topic[p], Append(q, Head(b)), Tail(b), lost, repeated, P)
          = Total(topic[p], q, b, lost, repeated, P)
    BY SMTT(20), <1>1, <2>1, TotalProduces
  <2> QED
    BY <1>1, <1>2, <1>3, <1>4, <2>2 DEF Tally
<1> QED
  BY <1>1, <1>2, <1>3, <1>4, <1>5, <1>6, <1>7, <1>9 DEF Flows

-----------------------------------------------------------------------------

Secrets ==
  faults \in 0..MaxFaults /\ secret \in 1..(faults + 1) /\ cert \in [Process -> 0..secret]

QueryState == [counter : Nat, counts : Result, set : BOOLEAN]

Base ==
  /\ program \in {"producer", "scenario"}
  /\ at \in [Process -> Places] /\ dirs \subseteq Process
  /\ life \in 1..MaxLives /\ due \subseteq 1..Len(Queries)
  /\ states \in [1..Len(Queries) -> [counter : Nat, counts : Result, set : BOOLEAN]]

DeviceState == [version : 1..Versions, counter : Nat, day : Seq(Int), skip : BOOLEAN]

Devices ==
  /\ fleet \in [devices : {MaxDevices}, workers : Worker]
  /\ tick \in [Worker -> 0..LastTick]
  /\ todo \in [Worker -> SUBSET (1..MaxDevices)]
  /\ device \in [1..MaxDevices -> DeviceState]
  /\ total \in [Worker -> Nat] /\ dropped \in [1..MaxDevices -> Nat]

Modes ==
  /\ \A p \in Process : at[p] = "absent" <=> p \notin Running
  /\ \A p \in Process : Len(queue[p]) <= Capacity
  /\ program = "scenario" => payloads = <<>>

TypeInv == Secrets /\ Base /\ Devices /\ Channels(Kind) /\ Modes

\* A step that moves messages of p and builds none.
Quiet(p) ==
  /\ Flows(p, Kind) /\ Len(queue'[p]) <= Capacity
  /\ program = "scenario" => UNCHANGED payloads
  /\ UNCHANGED <<program, life, consumer, scenarioVars>>
  /\ \A q \in 1..Len(Queries) :
       states'[q].counter = states[q].counter /\ states'[q].counts = states[q].counts
  /\ \A o \in Process :
       /\ at'[o] = "absent" <=> at[o] = "absent"
       /\ at'[o] = "full" <=> at[o] = "full"
       /\ at[o] \in Ended => at'[o] \in Ended

LEMMA EmptyFits == Len(<<>>) <= Capacity
BY EmptySeq, KafkaClientAssumption

LEMMA EndAt ==
  ASSUME Base, NEW p \in Process, NEW how \in Ended, NEW rest, End(p, how, rest)
  PROVE  at'[p] = how /\ \A o \in Process \ {p} : at'[o] = at[o]
BY DEF End, Goto, Base

LEMMA ClientQuiet ==
  ASSUME TypeInv, NEW p \in Running, UNCHANGED <<producerVars, scenarioVars, program, consumer>>,
         \/ Launch(p) \/ Connect(p) \/ Deliver(p) \/ FetchFails(p) \/ Overtake(p) \/ Repeat(p)
         \/ Expire(p)
  PROVE  Quiet(p)
<1>1. p \in Process /\ Channels(Kind) /\ Len(queue[p]) <= Capacity /\ at \in [Process -> Places]
  BY KafkaClientAssumption DEF TypeInv, Running, Active, Process, Producer, Worker, Modes, Base
<1>2. /\ UNCHANGED <<payloads, program, life, consumer, scenarioVars>>
      /\ \A q \in 1..Len(Queries) :
           states'[q].counter = states[q].counter /\ states'[q].counts = states[q].counts
  BY DEF producerVars
<1>3. queue[p] \in Seq(Kind)
  BY <1>1 DEF Channels, Holds
<1>4. CASE Launch(p)
  <2>1. Flows(p, Kind) /\ queue' = queue
    BY <1>1, <1>2, <1>4, StillFlows DEF Launch, topicVars
  <2> QED
    BY <1>1, <1>2, <1>4, <2>1 DEF Quiet, Launch, Goto, Ended
<1>5. CASE Deliver(p)
  <2>1. 1 \in 1..Len(queue[p]) /\ Head(queue[p]) = queue[p][1] /\ Tail(queue[p]) = RemoveAt(queue[p], 1)
    BY <1>3, <1>5, TailRemoves DEF Deliver
  <2>2. /\ topic' = [topic EXCEPT ![p] = Append(@, queue[p][1])]
        /\ queue' = [queue EXCEPT ![p] = RemoveAt(@, 1)]
        /\ UNCHANGED <<lost, repeated, payloads>>
    BY <1>2, <1>5, <2>1 DEF Deliver
  <2>3. Flows(p, Kind) /\ Len(queue'[p]) = Len(queue[p]) - 1
    BY <1>1, <2>1, <2>2, AcknowledgeFlows
  <2> QED
    BY <1>1, <1>2, <1>3, <1>5, <2>3, LenProperties, KafkaClientAssumption DEF Quiet, Deliver
<1>6. CASE Overtake(p)
  <2>1. 2 \in 1..Len(queue[p])
    BY <1>3, <1>6, LenProperties DEF Overtake
  <2>2. /\ topic' = [topic EXCEPT ![p] = Append(@, queue[p][2])]
        /\ queue' = [queue EXCEPT ![p] = RemoveAt(@, 2)]
        /\ UNCHANGED <<lost, repeated, payloads>>
    BY <1>2, <1>6 DEF Overtake
  <2>3. Flows(p, Kind) /\ Len(queue'[p]) = Len(queue[p]) - 1
    BY <1>1, <2>1, <2>2, AcknowledgeFlows
  <2> QED
    BY <1>1, <1>2, <1>3, <1>6, <2>3, LenProperties, KafkaClientAssumption DEF Quiet, Overtake
<1>7. CASE Repeat(p)
  <2>1. Flows(p, Kind) /\ queue' = queue
    BY <1>1, <1>2, <1>7, RepeatFlows DEF Repeat
  <2> QED
    BY <1>1, <1>2, <1>7, <2>1 DEF Quiet, Repeat
<1>8. CASE Expire(p)
  <2>1. Flows(p, Kind) /\ Len(queue'[p]) = Len(queue[p]) - 1
    BY <1>1, <1>2, <1>8, ExpireFlows DEF Expire, topicVars
  <2> QED
    BY <1>1, <1>2, <1>3, <1>8, <2>1, LenProperties, KafkaClientAssumption DEF Quiet, Expire
<1>9. CASE (Connect(p) \/ FetchFails(p)) /\ End(p, "died", <<>>)
  <2>1. Flows(p, Kind) /\ queue'[p] = <<>>
    BY <1>1, <1>2, <1>9, EndFlows DEF End, Connect, FetchFails, topicVars
  <2>2. at'[p] = "died" /\ at[p] \in {"off", "fetch"} /\ \A o \in Process \ {p} : at'[o] = at[o]
    BY <1>1, <1>9 DEF End, Goto, Connect, FetchFails
  <2> QED
    BY <1>1, <1>2, <2>1, <2>2, EmptyFits DEF Quiet, Ended
<1>10. CASE Connect(p) /\ ~End(p, "died", <<>>)
  <2>1. UNCHANGED <<queue, topic, lost, repeated>> /\ at[p] = "fetch" /\ Goto(p, "run")
    BY <1>10 DEF Connect, topicVars
  <2>2. Flows(p, Kind)
    BY <1>1, <1>2, <2>1, StillFlows
  <2> QED
    BY <1>1, <1>2, <2>1, <2>2 DEF Quiet, Goto, Ended
<1>11. FetchFails(p) => End(p, "died", <<>>)
  BY DEF FetchFails
<1> QED
  BY <1>4, <1>5, <1>6, <1>7, <1>8, <1>9, <1>10, <1>11

LEMMA RenewQuiet ==
  ASSUME TypeInv, NEW p \in Process, Renew, UNCHANGED <<producerVars, scenarioVars, program, consumer>>
  PROVE  Quiet(p)
<1>1. Flows(p, Kind)
  BY StillFlows DEF TypeInv, Renew, topicVars, producerVars
<1> QED
  BY <1>1 DEF Quiet, Renew, TypeInv, Modes, producerVars

LEMMA ProducerQuiet ==
  ASSUME TypeInv, UNCHANGED <<scenarioVars, program, consumer>>,
         \/ StartRound \/ EndRound \/ LeaveLoop \/ Flush \/ Produce \/ Stop \/ KillProducer
         \/ \E q \in due : QueryFails(q) \/ QueryDies(q)
  PROVE  Quiet(Producer)
<1> DEFINE p == Producer
<1>1. p \in Process /\ Channels(Kind) /\ Len(queue[p]) <= Capacity /\ at \in [Process -> Places]
  BY KafkaClientAssumption DEF TypeInv, Process, Producer, Modes, Base
<1>2. UNCHANGED <<program, life, consumer, scenarioVars>>
  BY DEF StartRound, EndRound, LeaveLoop, Flush, Produce, Stop, KillProducer, QueryFails, QueryDies,
         producerVars
<1>3. \A q \in 1..Len(Queries) :
       states'[q].counter = states[q].counter /\ states'[q].counts = states[q].counts
  <2>1. CASE \E q \in due : QueryFails(q)
    <3>1. PICK q \in 1..Len(Queries) : states' = [states EXCEPT ![q].set = TRUE]
      BY <2>1 DEF QueryFails, TypeInv, Base
    <3> QED
      BY <3>1 DEF TypeInv, Base
  <2>2. CASE ~\E q \in due : QueryFails(q)
    BY <2>2 DEF StartRound, EndRound, LeaveLoop, Flush, Produce, Stop, KillProducer, QueryDies,
                producerVars
  <2> QED
    BY <2>1, <2>2
<1>4. program = "producer" /\ at[p] \notin {"absent", "full"} \cup Ended
  BY <1>1 DEF StartRound, EndRound, LeaveLoop, Flush, Produce, Stop, KillProducer, QueryFails, QueryDies,
         Ready, TypeInv, Modes, Base, Running, Active, Worker, Producer, Ended
<1>5. CASE StartRound \/ EndRound \/ LeaveLoop \/ Stop \/ \E q \in due : QueryFails(q)
  <2>1. UNCHANGED <<queue, topic, lost, repeated, payloads>>
    BY <1>5 DEF StartRound, EndRound, LeaveLoop, Stop, QueryFails, producerVars, clientVars, topicVars
  <2>2. Flows(p, Kind)
    BY <1>1, <2>1, StillFlows
  <2>3. at' = at \/ \E x \in {"run", "round", "flush"} : Goto(p, x)
    BY <1>5 DEF StartRound, EndRound, LeaveLoop, Stop, QueryFails, clientVars
  <2> QED
    BY <1>1, <1>2, <1>3, <1>4, <2>1, <2>2, <2>3 DEF Quiet, Goto, Ended
<1>6. CASE Flush
  <2>1. Flows(p, Kind) /\ queue'[p] = <<>>
    BY <1>1, <1>6, EndFlows DEF End, Flush, topicVars, producerVars
  <2>2. at'[p] = "done" /\ \A o \in Process \ {p} : at'[o] = at[o]
    BY <1>1, <1>6 DEF End, Goto, Flush
  <2> QED
    BY <1>1, <1>2, <1>3, <1>4, <2>1, <2>2, EmptyFits DEF Quiet, Ended
<1>7. CASE KillProducer
  <2>1. Flows(p, Kind) /\ queue'[p] = <<>>
    BY <1>1, <1>7, EndFlows DEF End, KillProducer, topicVars
  <2>2. at'[p] = "killed" /\ \A o \in Process \ {p} : at'[o] = at[o]
    BY <1>1, <1>7 DEF End, Goto, KillProducer
  <2> QED
    BY <1>1, <1>2, <1>3, <1>4, <2>1, <2>2, EmptyFits DEF Quiet, Ended
<1>8. CASE Produce /\ Len(queue[p]) < Capacity
  <2>1. Flows(p, Kind) /\ Len(queue'[p]) = Len(queue[p]) + 1 /\ at' = at
    BY <1>1, <1>8, ProduceFlows DEF Produce, Enqueue, topicVars
  <2>2. Len(queue[p]) \in Nat
    BY <1>1, LenProperties DEF Channels, Holds
  <2> QED
    BY <1>1, <1>2, <1>3, <1>4, <1>8, <2>1, <2>2, KafkaClientAssumption DEF Quiet
<1>9. CASE Produce /\ ~(Len(queue[p]) < Capacity)
  <2>1. Flows(p, Kind) /\ queue'[p] = <<>>
    BY <1>1, <1>9, EndFlows DEF End, Produce, topicVars
  <2>2. at'[p] = "died" /\ \A o \in Process \ {p} : at'[o] = at[o]
    BY <1>1, <1>9 DEF End, Goto, Produce
  <2> QED
    BY <1>1, <1>2, <1>3, <1>4, <2>1, <2>2, EmptyFits DEF Quiet, Ended
<1>10. ASSUME NEW q \in due, QueryDies(q) PROVE Quiet(p)
  <2>1. Flows(p, Kind) /\ queue'[p] = <<>>
    BY <1>1, <1>10, EndFlows DEF End, QueryDies, topicVars
  <2>2. at'[p] = "died" /\ \A o \in Process \ {p} : at'[o] = at[o]
    BY <1>1, <1>10 DEF End, Goto, QueryDies
  <2> QED
    BY <1>1, <1>2, <1>3, <1>4, <1>10, <2>1, <2>2, EmptyFits DEF Quiet, Ended, QueryDies
<1> QED
  BY <1>5, <1>6, <1>7, <1>8, <1>9, <1>10

LEMMA WorkerDoneQuiet ==
  ASSUME TypeInv, NEW p \in Worker, WorkerDone(p), UNCHANGED <<producerVars, program, consumer>>
  PROVE  Quiet(p)
<1>1. p \in Process /\ Channels(Kind) /\ at \in [Process -> Places]
  BY DEF TypeInv, Process, Worker, Base
<1>2. Flows(p, Kind) /\ queue'[p] = <<>>
  BY <1>1, EndFlows DEF End, WorkerDone, topicVars, producerVars
<1>3. at[p] = "flush" /\ at'[p] = "done" /\ \A o \in Process \ {p} : at'[o] = at[o]
  BY <1>1 DEF End, Goto, WorkerDone
<1> QED
  BY <1>1, <1>2, <1>3, EmptyFits DEF Quiet, Ended, WorkerDone, producerVars

-----------------------------------------------------------------------------

EventsOf(q, action, r) ==
  {m \in EventsUpTo(life) : m.life = life /\ m.query = q /\ m.action = action /\ m.row = r}
Numbered(q, c) == {m \in EventsUpTo(life) : m.life = life /\ m.query = q /\ m.counter = c}

Accounts ==
  program = "producer" =>
    \A q \in 1..Len(Queries) :
      IF Queries[q] = "event"
      THEN \A r \in 1..Rows :
             Tally(Producer, EventsOf(q, "added", r)) - Tally(Producer, EventsOf(q, "removed", r))
               = states[q].counts[r]
      ELSE \A c \in Nat :
             Tally(Producer, Numbered(q, c)) = IF c < states[q].counter THEN 1 ELSE 0

Consumed ==
  consumer \in [from : Nat, next : Nat, printed : Seq(Kind), assigns : Nat]

Printed ==
  /\ consumer.from <= consumer.next /\ consumer.next <= Len(topic[Producer])
  /\ Len(consumer.printed) = consumer.next - consumer.from
  /\ \A i \in 1..Len(consumer.printed) : consumer.printed[i] = topic[Producer][consumer.from + i]

WorkInv ==
  \A w \in Worker :
    /\ todo[w] \subseteq Mine(w)
    /\ \A d \in Mine(w) :
         /\ Release[device[d].version] <= tick[w]
         /\ device[d].counter <= tick[w] + 1
         /\ at[w] \notin Ended /\ d \in todo[w] /\ ~Waits(w, d) => device[d].counter <= tick[w]

\* A worker reports its own devices.
Mail ==
  program = "scenario" =>
    \A w \in Worker : \A m \in ToSet(queue[w]) \cup ToSet(topic[w]) : m.device \in Mine(w)

Sent == (UNION {ToSet(topic[w]) \cup ToSet(queue[w]) : w \in Worker}) \cup ToSet(lost)

SentInv ==
  program = "scenario" =>
    /\ \A m \in Sent :
         /\ Release[m.version] <= m.tick
         /\ m.version <= device[m.device].version
         /\ m.counter <= device[m.device].counter
         /\ \A w \in Worker : Waits(w, m.device) => m.counter < device[m.device].counter
    /\ \A m, n \in Sent : m.device = n.device =>
         /\ m.counter < n.counter => m.version <= n.version
         /\ m.counter = n.counter => m = n

ReportsOf(D) == {m \in Reports : m.device \in D}

Recorded(w, d) ==
  device[d].counter = Tally(w, ReportsOf({d})) + dropped[d] + (IF Waits(w, d) THEN 1 ELSE 0)

FleetInv ==
  program = "scenario" =>
    \A w \in Worker :
      /\ total[w] = Tally(w, ReportsOf(Mine(w)))
      /\ \A d \in Mine(w) : Recorded(w, d)

Acting == IF program = "producer" THEN {Producer} ELSE Worker

LEMMA MineDisjoint ==
  ASSUME NEW v \in Worker, NEW w \in Worker, NEW d \in Mine(v) \cap Mine(w)
  PROVE  v = w
BY KafkaClientAssumption DEF Mine, Chunk, Worker

LEMMA EmptyToSet == ToSet(<<>>) = {}
BY DEF ToSet

LEMMA QuietKind ==
  ASSUME NEW p, Quiet(p)
  PROVE  Kind' = Kind /\ Channels(Kind)' /\ Running' = Running /\ \A w : Mine(w)' = Mine(w)
<1>1. Kind' = Kind
  BY DEF Quiet, Kind, EventsUpTo, Reports
<1> QED
  BY <1>1 DEF Quiet, Flows, Channels, Running, Active, Mine, scenarioVars

LEMMA QuietModes ==
  ASSUME Modes, NEW p \in Process, Quiet(p)
  PROVE  Modes'
<1>1. Running' = Running
  BY QuietKind
<1>2. \A o \in Process \ {p} : queue'[o] = queue[o]
  BY DEF Quiet, Flows
<1> QED
  BY <1>1, <1>2 DEF Modes, Quiet

LEMMA QuietAccounts ==
  ASSUME Accounts, NEW p \in Acting, Quiet(p)
  PROVE  Accounts'
<1> SUFFICES ASSUME program = "producer", NEW q \in 1..Len(Queries)
             PROVE  (IF Queries[q] = "event"
                     THEN \A r \in 1..Rows :
                            Tally(Producer, EventsOf(q, "added", r))
                              - Tally(Producer, EventsOf(q, "removed", r)) = states[q].counts[r]
                     ELSE \A c \in Nat : Tally(Producer, Numbered(q, c))
                            = IF c < states[q].counter THEN 1 ELSE 0)'
  BY DEF Accounts, Quiet
<1>1. \A P : Total(topic'[Producer], queue'[Producer], payloads', lost', repeated', P) = Tally(Producer, P)
  BY DEF Acting, Quiet, Flows
<1>2. life' = life /\ states'[q].counter = states[q].counter /\ states'[q].counts = states[q].counts
  BY DEF Quiet
<1>3. EventsUpTo(life)' = EventsUpTo(life)
  BY <1>2 DEF EventsUpTo
<1>4. CASE Queries[q] = "event"
  <2> SUFFICES ASSUME NEW r \in 1..Rows
               PROVE (Tally(Producer, EventsOf(q, "added", r))
                       - Tally(Producer, EventsOf(q, "removed", r)))' = states'[q].counts[r]
    BY <1>4
  <2>1. /\ EventsOf(q, "added", r)' = EventsOf(q, "added", r)
        /\ EventsOf(q, "removed", r)' = EventsOf(q, "removed", r)
    BY <1>2, <1>3 DEF EventsOf
  <2>2. Tally(Producer, EventsOf(q, "added", r)) - Tally(Producer, EventsOf(q, "removed", r))
          = states[q].counts[r]
    BY <1>4 DEF Accounts
  <2> QED
    BY <1>1, <1>2, <2>1, <2>2 DEF Tally
<1>5. CASE Queries[q] # "event"
  <2> SUFFICES ASSUME NEW c \in Nat
               PROVE Tally(Producer, Numbered(q, c))' = IF c < states'[q].counter THEN 1 ELSE 0
    BY <1>5
  <2>1. Numbered(q, c)' = Numbered(q, c)
    BY <1>2, <1>3 DEF Numbered
  <2>2. Tally(Producer, Numbered(q, c)) = IF c < states[q].counter THEN 1 ELSE 0
    BY <1>5 DEF Accounts
  <2> QED
    BY <1>1, <1>2, <2>1, <2>2 DEF Tally
<1> QED
  BY <1>4, <1>5

LEMMA QuietPrinted ==
  ASSUME Consumed, Printed, Channels(Kind), NEW p \in Process, Quiet(p)
  PROVE  Consumed' /\ Printed'
<1>1. Kind' = Kind /\ consumer' = consumer
  BY QuietKind DEF Quiet
<1>2. topic'[Producer] = topic[Producer] \/ \E e \in Kind : topic'[Producer] = Append(topic[Producer], e)
  BY KafkaClientAssumption DEF Quiet, Flows, Process, Producer
<1>3. PICK t \in Seq(Kind) : t = topic[Producer]
  BY KafkaClientAssumption DEF Channels, Holds, Process, Producer
<1>4. /\ Len(topic'[Producer]) >= Len(t)
      /\ \A i \in 1..Len(t) : topic'[Producer][i] = t[i]
  <2>1. CASE topic'[Producer] = t
    BY <2>1, LenProperties
  <2>2. ASSUME NEW e \in Kind, topic'[Producer] = Append(t, e) PROVE <1>4
    BY <2>2, AppendProperties, LenProperties
  <2> QED
    BY <1>2, <1>3, <2>1, <2>2
<1>5. Len(t) \in Nat /\ Len(topic'[Producer]) \in Nat
  BY <1>2, <1>3, LenProperties, AppendProperties
<1>6. Consumed'
  BY <1>1 DEF Consumed
<1>7. consumer.from \in Nat /\ consumer.next \in Nat /\ Len(consumer.printed) \in Nat
  BY LenProperties DEF Consumed
<1>8. consumer.from <= consumer.next /\ consumer.next <= Len(topic'[Producer])
  BY <1>3, <1>4, <1>5, <1>7 DEF Printed
<1>9. ASSUME NEW i \in 1..Len(consumer.printed)
      PROVE  consumer.printed[i] = topic'[Producer][consumer.from + i]
  <2>1. consumer.from + i \in 1..Len(t) /\ consumer.printed[i] = t[consumer.from + i]
    BY SMTT(20), <1>3, <1>5, <1>7 DEF Printed
  <2> QED
    BY <1>4, <2>1
<1> QED
  BY <1>1, <1>6, <1>8, <1>9 DEF Printed

LEMMA QuietWork ==
  ASSUME WorkInv, NEW p \in Process, Quiet(p)
  PROVE  WorkInv'
<1>1. \A w \in Worker : w \in Process
  BY DEF Worker, Process
<1>2. UNCHANGED <<todo, device, tick>> /\ \A w : Mine(w)' = Mine(w)
  BY QuietKind DEF Quiet, scenarioVars
<1>3. ASSUME NEW w \in Worker
      PROVE  (at'[w] \notin Ended => at[w] \notin Ended) /\ (at'[w] = "full" <=> at[w] = "full")
  BY <1>1 DEF Quiet
<1>4. ASSUME NEW w \in Worker, NEW d PROVE Waits(w, d)' <=> Waits(w, d)
  BY <1>2, <1>3 DEF Waits
<1> SUFFICES ASSUME NEW w \in Worker
             PROVE  /\ todo[w] \subseteq Mine(w)
                    /\ \A d \in Mine(w) :
                         /\ Release[device[d].version] <= tick[w]
                         /\ device[d].counter <= tick[w] + 1
                         /\ at'[w] \notin Ended /\ d \in todo[w] /\ ~Waits(w, d)' => device[d].counter <= tick[w]
  BY <1>2 DEF WorkInv
<1> QED
  BY <1>3, <1>4 DEF WorkInv

LEMMA QuietMail ==
  ASSUME TypeInv, Mail, NEW p \in Acting, Quiet(p)
  PROVE  Mail'
<1> SUFFICES ASSUME program = "scenario", NEW w \in Worker,
                    NEW m \in ToSet(queue'[w]) \cup ToSet(topic'[w])
             PROVE  m.device \in Mine(w)'
  BY DEF Mail, Quiet
<1>1. p \in Worker /\ w \in Process /\ Mine(w)' = Mine(w) /\ ToSet(payloads) = {}
  BY QuietKind, EmptyToSet DEF Acting, Worker, Process, TypeInv, Modes
<1>2. m \in ToSet(queue[w]) \cup ToSet(topic[w])
  BY <1>1 DEF Quiet, Flows
<1> QED
  BY <1>1, <1>2 DEF Mail

LEMMA QuietSent ==
  ASSUME TypeInv, SentInv, NEW p \in Acting, Quiet(p)
  PROVE  SentInv'
<1>1. CASE program # "scenario"
  BY <1>1 DEF SentInv, Quiet
<1>2. CASE program = "scenario"
  <2>1. p \in Worker /\ ToSet(payloads) = {} /\ Worker \subseteq Process
    BY <1>2, EmptyToSet DEF Acting, Worker, Process, TypeInv, Modes
  <2>2. \A w \in Worker : ToSet(topic'[w]) \cup ToSet(queue'[w]) \subseteq ToSet(topic[w]) \cup ToSet(queue[w])
    BY <2>1 DEF Quiet, Flows
  <2>3. ToSet(lost') \subseteq ToSet(lost) \cup ToSet(queue[p])
    BY <2>1 DEF Quiet, Flows
  <2>4. Sent' \subseteq Sent
    BY <2>1, <2>2, <2>3 DEF Sent
  <2>5. \A w \in Worker : \A d : Waits(w, d)' <=> Waits(w, d)
    BY <2>1 DEF Waits, Quiet, scenarioVars
  <2>6. device' = device /\ program' = program
    BY DEF Quiet, scenarioVars
  <2> QED
    BY <1>2, <2>4, <2>5, <2>6 DEF SentInv
<1> QED
  BY <1>1, <1>2

\* What other workers sent is not touched.
LEMMA ForeignTally ==
  ASSUME TypeInv, Mail, program = "scenario", NEW p \in Worker, Flows(p, Kind), UNCHANGED payloads,
         NEW w \in Worker, NEW P \in SUBSET ReportsOf(Mine(w))
  PROVE  Total(topic'[w], queue'[w], payloads', lost', repeated', P) = Tally(w, P)
<1>1. CASE w = p
  BY <1>1 DEF Flows
<1>2. CASE w # p
  <2>1. w \in Process \ {p} /\ ToSet(payloads) = {}
    BY <1>2, EmptyToSet DEF Worker, Process, TypeInv, Modes
  <2>2. \A m \in ToSet(queue[p]) \cup ToSet(payloads) : m \notin P
    BY <1>2, <2>1, MineDisjoint DEF Mail, ReportsOf
  <2> QED
    BY <2>1, <2>2 DEF Flows, Tally, Total
<1> QED
  BY <1>1, <1>2

LEMMA OwnReports ==
  ASSUME NEW w, NEW d \in Mine(w)
  PROVE  ReportsOf({d}) \in SUBSET ReportsOf(Mine(w))
BY DEF ReportsOf

LEMMA QuietFleet ==
  ASSUME TypeInv, Mail, FleetInv, NEW p \in Acting, Quiet(p)
  PROVE  FleetInv'
<1>1. CASE program # "scenario"
  BY <1>1 DEF FleetInv, Quiet
<1>2. CASE program = "scenario"
  <2> SUFFICES ASSUME NEW w \in Worker
               PROVE  /\ total'[w] = Tally(w, ReportsOf(Mine(w)))'
                      /\ \A d \in Mine(w)' : Recorded(w, d)'
    BY <1>2 DEF FleetInv, Quiet
  <2>1. p \in Worker /\ Flows(p, Kind) /\ UNCHANGED payloads /\ w \in Process
    BY <1>2 DEF Acting, Quiet, Worker, Process
  <2>2. /\ Mine(w)' = Mine(w) /\ UNCHANGED <<device, total, dropped>>
        /\ \A d : Waits(w, d)' <=> Waits(w, d)
        /\ \A D : ReportsOf(D)' = ReportsOf(D)
    BY <2>1, QuietKind DEF Quiet, scenarioVars, Waits, ReportsOf, Reports
  <2>3. total'[w] = Tally(w, ReportsOf(Mine(w)))'
    <3>1. ReportsOf(Mine(w)) \in SUBSET ReportsOf(Mine(w))
      OBVIOUS
    <3>2. Total(topic'[w], queue'[w], payloads', lost', repeated', ReportsOf(Mine(w)))
            = Tally(w, ReportsOf(Mine(w)))
      BY <1>2, <2>1, <3>1, ForeignTally
    <3>3. ReportsOf(Mine(w))' = ReportsOf(Mine(w))
      BY <2>2 DEF ReportsOf, Reports
    <3> QED
      BY <1>2, <2>2, <3>2, <3>3 DEF FleetInv, Tally
  <2>4. ASSUME NEW d \in Mine(w) PROVE Recorded(w, d)'
    <3>1. Total(topic'[w], queue'[w], payloads', lost', repeated', ReportsOf({d}))
            = Tally(w, ReportsOf({d}))
      BY <1>2, <2>1, OwnReports, ForeignTally
    <3>2. ReportsOf({d})' = ReportsOf({d})
      BY DEF ReportsOf, Reports
    <3> QED
      BY <1>2, <2>2, <3>1, <3>2 DEF FleetInv, Tally, Recorded
  <2> QED
    BY <2>2, <2>3, <2>4
<1> QED
  BY <1>1, <1>2

-----------------------------------------------------------------------------

\* No step but a renewal changes the certificate in the cluster.
LEMMA SecretsKept ==
  ASSUME Secrets, NEW p \in Process, secret' = secret, faults' = faults \/ Fault,
         \/ cert' = cert
         \/ \E n \in {0, secret} : cert' = [cert EXCEPT ![p] = n]
  PROVE  Secrets'
<1>1. faults' \in 0..MaxFaults /\ faults' >= faults /\ secret' \in 1..(faults' + 1)
  BY KafkaClientAssumption DEF Secrets, Fault
<1>2. cert' \in [Process -> 0..secret]
  BY DEF Secrets
<1> QED
  BY <1>1, <1>2 DEF Secrets

LEMMA ClientBase ==
  ASSUME Base, Secrets, UNCHANGED <<producerVars, program>>, NEW p \in Process,
         \/ Renew \/ Launch(p) \/ Connect(p) \/ Deliver(p) \/ FetchFails(p)
         \/ Overtake(p) \/ Repeat(p) \/ Expire(p)
  PROVE  Base' /\ Secrets'
<1>1. UNCHANGED <<life, due, states, program>>
  BY DEF producerVars
<1>2. Base'
  <2>1. CASE Launch(p) \/ Connect(p) \/ FetchFails(p)
    <3>1. at' \in [Process -> Places] /\ dirs' \subseteq Process
      BY <2>1 DEF Launch, Connect, FetchFails, End, Goto, Base, Places, Ended
    <3> QED
      BY <1>1, <3>1 DEF Base
  <2>2. CASE Renew \/ Deliver(p) \/ Overtake(p) \/ Repeat(p) \/ Expire(p)
    BY <1>1, <2>2 DEF Renew, Deliver, Overtake, Repeat, Expire, Base
  <2> QED
    BY <2>1, <2>2
<1>3. CASE Renew
  BY <1>2, <1>3, KafkaClientAssumption DEF Renew, Fault, Secrets
<1>4. CASE ~Renew
  <2>1. secret' = secret /\ (faults' = faults \/ Fault)
    BY <1>4 DEF Launch, Connect, Deliver, FetchFails, Overtake, Repeat, Expire, mtlsVars
  <2>2. cert' = cert \/ \E n \in {0, secret} : cert' = [cert EXCEPT ![p] = n]
    BY <1>4 DEF Launch, Connect, Deliver, FetchFails, Overtake, Repeat, Expire, mtlsVars
  <2> QED
    BY <1>2, <2>1, <2>2, SecretsKept
<1> QED
  BY <1>2, <1>3, <1>4

LEMMA ProducerBase ==
  ASSUME Base, Secrets, program' = program,
         \/ StartRound \/ EndRound \/ LeaveLoop \/ Flush \/ Produce \/ Stop \/ KillProducer \/ Restart
         \/ \E q \in due : QueryFails(q) \/ QueryDies(q) \/ RunEventQuery(q) \/ RunSnapshotQuery(q)
  PROVE  Base' /\ Secrets'
<1>1. Producer \in Process
  BY KafkaClientAssumption DEF Producer, Process
<1>2. Secrets'
  <2>1. secret' = secret /\ (faults' = faults \/ Fault)
    BY DEF StartRound, EndRound, LeaveLoop, Flush, Produce, Stop, KillProducer, Restart, QueryFails,
           QueryDies, RunEventQuery, RunSnapshotQuery, mtlsVars, clientVars
  <2>2. cert' = cert \/ cert' = [cert EXCEPT ![Producer] = 0]
    BY DEF StartRound, EndRound, LeaveLoop, Flush, Produce, Stop, KillProducer, Restart, QueryFails,
           QueryDies, RunEventQuery, RunSnapshotQuery, mtlsVars, clientVars
  <2> QED
    BY <1>1, <2>1, <2>2, SecretsKept
<1>3. CASE StartRound \/ EndRound \/ LeaveLoop \/ Stop
  <2>1. /\ UNCHANGED <<dirs, life, states>>
        /\ at' = at \/ \E x \in {"run", "round", "flush"} : at' = [at EXCEPT ![Producer] = x]
        /\ due' \subseteq 1..Len(Queries)
    BY <1>3 DEF StartRound, EndRound, LeaveLoop, Stop, Goto, producerVars, clientVars, Base
  <2> QED
    BY <1>1, <1>2, <2>1 DEF Base, Places
<1>4. CASE Flush \/ Produce \/ KillProducer
  <2>1. /\ UNCHANGED <<life, states, due>>
        /\ at' \in [Process -> Places] /\ dirs' \subseteq Process
    BY <1>1, <1>4 DEF Flush, Produce, KillProducer, End, Goto, producerVars, Base, Places, Ended
  <2> QED
    BY <1>2, <2>1 DEF Base
<1>5. CASE Restart
  <2>1. Fresh \in [1..Len(Queries) -> [counter : Nat, counts : Result, set : BOOLEAN]]
    BY EventProducerAssumption DEF Fresh, Result
  <2>2. life' \in 1..MaxLives
    BY <1>5, EventProducerAssumption DEF Restart, Base
  <2>3. at' \in [Process -> Places]
    BY <1>1, <1>5 DEF Restart, Goto, Base, Places
  <2> QED
    BY <1>2, <1>5, <2>1, <2>2, <2>3 DEF Restart, Base
<1>6. ASSUME NEW q \in due, QueryFails(q) PROVE Base'
  <2>1. q \in 1..Len(Queries) /\ states' = [states EXCEPT ![q].set = TRUE]
    BY <1>6 DEF QueryFails, Base
  <2>2. states' \in [1..Len(Queries) -> [counter : Nat, counts : Result, set : BOOLEAN]]
    BY <2>1 DEF Base
  <2>3. UNCHANGED <<at, dirs, life>> /\ due' \subseteq due
    BY <1>6 DEF QueryFails, Ready
  <2> QED
    BY <1>6, <2>2, <2>3 DEF Base
<1>7. ASSUME NEW q \in due, RunEventQuery(q) \/ RunSnapshotQuery(q) PROVE Base'
  <2>1. q \in 1..Len(Queries) /\ states[q].counter + 1 \in Nat
    BY DEF Base
  <2>2. \/ states' = [states EXCEPT ![q].counter = @ + 1, ![q].set = TRUE]
        \/ \E counts \in Result :
              states' = [states EXCEPT ![q] = [counter |-> @.counter + 1, counts |-> counts, set |-> TRUE]]
    BY <1>7 DEF RunEventQuery, RunSnapshotQuery
  <2>3. PICK x \in QueryState : states' = [states EXCEPT ![q] = x]
    <3>1. states[q] \in QueryState
      BY <2>1 DEF Base, QueryState
    <3>2. [states[q] EXCEPT !.counter = states[q].counter + 1, !.set = TRUE] \in QueryState
      BY <2>1, <3>1 DEF QueryState
    <3>3. ASSUME NEW c \in Result
          PROVE  [counter |-> states[q].counter + 1, counts |-> c, set |-> TRUE] \in QueryState
      BY <2>1 DEF QueryState
    <3>4. CASE states' = [states EXCEPT ![q].counter = @ + 1, ![q].set = TRUE]
      <4>1. states' = [states EXCEPT ![q] = [states[q] EXCEPT !.counter = states[q].counter + 1, !.set = TRUE]]
        BY <2>1, <3>4 DEF Base
      <4> QED
        BY <3>2, <4>1
    <3> QED
      BY <2>2, <3>3, <3>4
  <2>6. states' \in [1..Len(Queries) -> [counter : Nat, counts : Result, set : BOOLEAN]]
    BY <2>1, <2>3 DEF Base, QueryState
  <2>4. UNCHANGED <<at, dirs, life>> /\ due' \subseteq due
    BY <1>7 DEF RunEventQuery, RunSnapshotQuery, Ready, clientVars
  <2> QED
    BY <2>6, <2>4 DEF Base
<1>8. ASSUME NEW q \in due, QueryDies(q) PROVE Base'
  <2>1. UNCHANGED <<life, states>> /\ due' \subseteq due
    BY <1>8 DEF QueryDies, Ready
  <2>2. at' \in [Process -> Places] /\ dirs' \subseteq Process
    BY <1>1, <1>8 DEF QueryDies, End, Goto, Base, Places, Ended
  <2> QED
    BY <2>1, <2>2 DEF Base
<1> QED
  BY <1>2, <1>3, <1>4, <1>5, <1>6, <1>7, <1>8

LEMMA LookedAt ==
  ASSUME Devices, NEW w \in Worker, NEW d \in 1..MaxDevices, NEW f \in DayFlags(w, d)
  PROVE  f \in DeviceState /\ f.version = device[d].version /\ f.counter = device[d].counter
<1>1. LocalDay(w, d) \in Seq(Int)
  <2>1. tick[w] + Timezone[d] \in Int /\ TicksPerDay \in Nat \ {0}
    BY SMTT(20), UpdateScenarioAssumption DEF Devices
  <2>2. PICK n \in Int : n = (tick[w] + Timezone[d]) \div TicksPerDay
    BY <2>1
  <2>3. <<n>> \in Seq(Int)
    OBVIOUS
  <2> QED
    BY <2>2, <2>3 DEF LocalDay
<1>2. device[d] \in DeviceState
  BY DEF Devices
<1> QED
  BY <1>1, <1>2 DEF DayFlags, DeviceState

LEMMA WorkerBase ==
  ASSUME Base, Secrets, NEW w \in Worker, UNCHANGED <<producerVars, program>>,
         \/ \E d \in todo[w] : NoEvent(w, d) \/ CheckIn(w, d)
         \/ Retry(w) \/ NextTick(w) \/ WorkerDone(w) \/ KillWorker(w)
  PROVE  Base' /\ Secrets'
<1>1. UNCHANGED <<life, due, states, program>> /\ w \in Process
  BY KafkaClientAssumption DEF producerVars, Worker, Process
<1>2. Secrets'
  <2>1. secret' = secret /\ (faults' = faults \/ Fault)
    BY DEF NoEvent, CheckIn, Retry, NextTick, WorkerDone, KillWorker, mtlsVars, clientVars
  <2>2. cert' = cert \/ cert' = [cert EXCEPT ![w] = 0]
    BY DEF NoEvent, CheckIn, Retry, NextTick, WorkerDone, KillWorker, mtlsVars, clientVars
  <2> QED
    BY <1>1, <2>1, <2>2, SecretsKept
<1>3. dirs' \subseteq Process
  BY DEF NoEvent, CheckIn, Retry, NextTick, WorkerDone, KillWorker, mtlsVars, clientVars, End, Base
<1>4. at' = at \/ \E x \in Places : Goto(w, x)
  BY DEF NoEvent, CheckIn, Retry, NextTick, WorkerDone, KillWorker, clientVars, End, Places, Ended
<1> QED
  BY <1>1, <1>2, <1>3, <1>4 DEF Base, Goto

LEMMA WorkerDevices ==
  ASSUME Devices, NEW w \in Worker,
         \/ \E d \in todo[w] : NoEvent(w, d) \/ CheckIn(w, d)
         \/ Retry(w) \/ NextTick(w) \/ KillWorker(w)
  PROVE  Devices'
<1>1. ASSUME NEW d \in todo[w], NoEvent(w, d) PROVE Devices'
  <2>1. d \in 1..MaxDevices
    BY DEF Devices
  <2>2. PICK f \in DayFlags(w, d) : \E v \in Upgrades(f.version, tick[w]) \cup {f.version} :
          device' = [device EXCEPT ![d] = [f EXCEPT !.version = v]]
    BY <1>1 DEF NoEvent
  <2>3. PICK v \in Upgrades(f.version, tick[w]) \cup {f.version} :
          device' = [device EXCEPT ![d] = [f EXCEPT !.version = v]]
    BY <2>2
  <2>4. f \in DeviceState /\ f.version \in 1..Versions
    BY <2>1, LookedAt DEF DeviceState
  <2>5. v \in 1..Versions
    BY <2>4, UpdateScenarioAssumption DEF Upgrades
  <2>6. [f EXCEPT !.version = v] \in DeviceState
    BY <2>4, <2>5 DEF DeviceState
  <2>7. UNCHANGED <<fleet, tick, total, dropped>> /\ todo' = [todo EXCEPT ![w] = @ \ {d}]
    BY <1>1 DEF NoEvent, Done
  <2> QED
    BY <2>1, <2>3, <2>6, <2>7 DEF Devices
<1>2. ASSUME NEW d \in todo[w], CheckIn(w, d) PROVE Devices'
  <2>1. d \in 1..MaxDevices
    BY DEF Devices
  <2>2. PICK f \in DayFlags(w, d), v \in Upgrades(device[d].version, tick[w]) :
          device' = [device EXCEPT ![d] = [f EXCEPT !.version = v, !.counter = @ + 1]]
    BY <1>2 DEF CheckIn
  <2>3. f \in DeviceState /\ device[d].version \in 1..Versions
    BY <2>1, LookedAt DEF DeviceState
  <2>4. v \in 1..Versions
    BY <2>3, UpdateScenarioAssumption DEF Upgrades
  <2>5. [f EXCEPT !.version = v, !.counter = @ + 1] \in DeviceState
    <3>1. f.counter + 1 \in Nat
      BY <2>3 DEF DeviceState
    <3> QED
      BY <2>3, <2>4, <3>1 DEF DeviceState
  <2>6. UNCHANGED <<fleet, tick, dropped>>
    BY <1>2 DEF CheckIn
  <2>7. todo' = todo \/ todo' = [todo EXCEPT ![w] = @ \ {d}]
    BY <1>2 DEF CheckIn, Done
  <2>8. total' = total \/ total' = [total EXCEPT ![w] = @ + 1]
    BY <1>2 DEF CheckIn
  <2>9. todo' \in [Worker -> SUBSET (1..MaxDevices)] /\ total' \in [Worker -> Nat]
    BY SMTT(20), <2>7, <2>8 DEF Devices
  <2> QED
    BY <2>1, <2>2, <2>5, <2>6, <2>9 DEF Devices
<1>3. CASE Retry(w)
  <2>1. PICK d \in todo[w] : /\ UNCHANGED <<fleet, tick, device>>
                             /\ todo' = [todo EXCEPT ![w] = @ \ {d}]
                             /\ \/ total' = [total EXCEPT ![w] = @ + 1] /\ dropped' = dropped
                                \/ dropped' = [dropped EXCEPT ![d] = @ + 1] /\ total' = total
    BY <1>3 DEF Retry, Done
  <2>2. todo' \in [Worker -> SUBSET (1..MaxDevices)]
    BY <2>1 DEF Devices
  <2>3. total' \in [Worker -> Nat] /\ dropped' \in [1..MaxDevices -> Nat]
    <3>1. d \in 1..MaxDevices /\ total[w] + 1 \in Nat /\ dropped[d] + 1 \in Nat
      BY DEF Devices
    <3> QED
      BY <2>1, <3>1 DEF Devices
  <2> QED
    BY <2>1, <2>2, <2>3 DEF Devices
<1>4. CASE NextTick(w)
  <2>1. UNCHANGED <<fleet, device, total, dropped>>
    BY <1>4 DEF NextTick
  <2>2. Mine(w) \subseteq 1..MaxDevices
    BY DEF Mine, Chunk, Devices
  <2>3. \/ tick' = tick /\ todo' = todo
        \/ /\ tick[w] < LastTick
           /\ tick' = [tick EXCEPT ![w] = @ + 1] /\ todo' = [todo EXCEPT ![w] = Mine(w)]
    BY <1>4 DEF NextTick
  <2>4. tick' \in [Worker -> 0..LastTick]
    <3>1. tick[w] \in 0..LastTick
      BY DEF Devices
    <3>2. LastTick \in Nat
      BY UpdateScenarioAssumption
    <3>3. ASSUME tick[w] < LastTick PROVE tick[w] + 1 \in 0..LastTick
      BY <3>1, <3>2, <3>3
    <3>4. tick \in [Worker -> 0..LastTick]
      BY DEF Devices
    <3> QED
      BY <2>3, <3>3, <3>4
  <2>5. todo' \in [Worker -> SUBSET (1..MaxDevices)]
    BY <2>2, <2>3 DEF Devices
  <2> QED
    BY <2>1, <2>4, <2>5 DEF Devices
<1>5. CASE KillWorker(w)
  <2>1. UNCHANGED <<fleet, tick, todo, device, total>>
    BY <1>5 DEF KillWorker
  <2>2. dropped' \in [1..MaxDevices -> Nat]
    BY <1>5 DEF KillWorker, Devices
  <2> QED
    BY <2>1, <2>2 DEF Devices
<1> QED
  BY <1>1, <1>2, <1>3, <1>4, <1>5

-----------------------------------------------------------------------------

LEMMA ProducerElsewhere ==
  ASSUME Devices, WorkInv, program = "producer", program' = program, UNCHANGED scenarioVars,
         \A w \in Worker : at'[w] = at[w]
  PROVE  Devices' /\ WorkInv' /\ Mail' /\ SentInv' /\ FleetInv'
<1>1. UNCHANGED <<fleet, tick, todo, device, total, dropped>> /\ \A w : Mine(w)' = Mine(w)
  BY DEF scenarioVars, Mine
<1>2. \A w \in Worker : \A d : Waits(w, d)' <=> Waits(w, d)
  BY <1>1 DEF Waits
<1>3. WorkInv'
  BY <1>1, <1>2 DEF WorkInv
<1> QED
  BY <1>1, <1>3 DEF Devices, Mail, SentInv, FleetInv

\* The events of one kind that Changes builds.
LEMMA ChangesBuilt ==
  ASSUME Base, NEW q \in 1..Len(Queries), NEW action \in {"added", "removed"},
         NEW from \in Result, NEW to \in Result
  PROVE  /\ Changes(q, action, from, to) \in
              Seq({m \in EventsUpTo(life) : m.query = q /\ m.action = action})
         /\ \A r \in 1..Rows :
              CountIn(Changes(q, action, from, to), EventsOf(q, action, r))
                = IF to[r] > from[r] THEN to[r] - from[r] ELSE 0
<1> DEFINE n == [r \in 1..Rows |-> to[r] - from[r]]
           ev == [r \in 1..Rows |-> Event(q, action, r)]
           S == {m \in EventsUpTo(life) : m.query = q /\ m.action = action}
<1>1. \A r \in 1..Rows : from[r] \in Int /\ to[r] \in Int
  BY EventProducerAssumption DEF Result
<1>2. n \in [1..Rows -> Int]
  BY <1>1
<1>3. ASSUME NEW r \in 1..Rows
      PROVE  /\ Event(q, action, r) \in S
             /\ \A x \in 1..Rows : Event(q, action, r) \in EventsOf(q, action, x) <=> r = x
  <2>1. Event(q, action, r) \in EventsUpTo(life)
    BY EventProducerAssumption DEF Event, EventsUpTo, Base, QueryState
  <2> QED
    BY <2>1 DEF Event, EventsOf
<1>4. ev \in [1..Rows -> S]
  BY <1>3
<1>5. Changes(q, action, from, to) = FlattenSeq(Copies(n, ev, Rows))
  BY DEF Changes, Copies, CopiesOf
<1>6. Copies(n, ev, Rows) \in Seq(Seq(S))
  <2>1. \A r \in 1..Rows : n[r] \in Int /\ ev[r] \in S
    BY <1>2, <1>4
  <2> HIDE DEF n, ev, S
  <2> QED
    BY <2>1, CopiesType, EventProducerAssumption
<1>7. FlattenSeq(Copies(n, ev, Rows)) \in Seq(S)
  <2> HIDE DEF n, ev, S
  <2> QED
    BY <1>6, FlattenType
<1>8. ASSUME NEW x \in 1..Rows
      PROVE  CountIn(Changes(q, action, from, to), EventsOf(q, action, x))
               = IF to[x] > from[x] THEN to[x] - from[x] ELSE 0
  <2>1. \A r \in 1..Rows : ev[r] \in EventsOf(q, action, x) <=> r = x
    BY <1>3
  <2>2. Rows \in Nat
    BY EventProducerAssumption
  <2>3. CountIn(FlattenSeq(Copies(n, ev, Rows)), EventsOf(q, action, x)) = IF n[x] > 0 THEN n[x] ELSE 0
    <3> HIDE DEF n, ev, S
    <3> QED
      BY <1>2, <1>4, <2>1, <2>2, CountCopies
  <2> QED
    BY <1>1, <1>5, <2>3
<1> QED
  BY <1>5, <1>7, <1>8

LEMMA ChannelCounts ==
  ASSUME NEW K, Channels(K), NEW p \in Process, NEW P
  PROVE  /\ CountIn(topic[p], P) \in Nat /\ CountIn(queue[p], P) \in Nat
         /\ CountIn(lost, P) \in Nat /\ CountIn(repeated, P) \in Nat
         /\ CountIn(payloads, P) \in Nat
BY CountType DEF Channels, Holds

LEMMA SubsetSeq ==
  ASSUME NEW S, NEW T, S \subseteq T, NEW s \in Seq(S)
  PROVE  s \in Seq(T)
BY LenProperties, ElementOfSeq, SeqDef

LEMMA NothingCounted ==
  ASSUME NEW S, NEW s \in Seq(S), NEW P, \A m \in S : m \notin P
  PROVE  CountIn(s, P) = 0
BY ToSetType, CountNone

LEMMA EventQueryAccounts ==
  ASSUME TypeInv, Accounts, program = "producer", NEW q \in due, RunEventQuery(q), program' = program
  PROVE  Channels(Kind)' /\ Accounts'
<1>1. q \in 1..Len(Queries) /\ Base /\ Queries[q] = "event" /\ payloads = <<>>
  BY DEF TypeInv, Base, RunEventQuery, Ready
<1>2. PICK counts \in Result :
        /\ payloads' = BuildEventPayloads(q, counts)
        /\ states' = [states EXCEPT ![q] = [counter |-> @.counter + 1, counts |-> counts, set |-> TRUE]]
  BY DEF RunEventQuery
<1>3. PICK old \in Result : old = states[q].counts
  BY <1>1 DEF Base, QueryState
<1>4. UNCHANGED <<queue, topic, lost, repeated, life>> /\ Kind' = Kind /\ Kind = EventsUpTo(life)
  BY DEF RunEventQuery, clientVars, topicVars, Kind, EventsUpTo
<1> DEFINE Made(action) == {m \in EventsUpTo(life) : m.query = q /\ m.action = action}
<1>5. PICK a \in Seq(Made("added")) : /\ a = Changes(q, "added", old, counts)
                                     /\ \A r \in 1..Rows : CountIn(a, EventsOf(q, "added", r))
                                          = IF counts[r] > old[r] THEN counts[r] - old[r] ELSE 0
  BY <1>1, ChangesBuilt
<1>6. PICK b \in Seq(Made("removed")) : /\ b = Changes(q, "removed", counts, old)
                                       /\ \A r \in 1..Rows : CountIn(b, EventsOf(q, "removed", r))
                                            = IF old[r] > counts[r] THEN old[r] - counts[r] ELSE 0
  BY <1>1, ChangesBuilt
<1>7. payloads' = b \o a
  BY <1>2, <1>3, <1>5, <1>6 DEF BuildEventPayloads
<1>8. a \in Seq(Kind) /\ b \in Seq(Kind)
  BY <1>4, SubsetSeq
<1>9. payloads' \in Seq(Kind) /\ \A P : CountIn(payloads', P) = CountIn(b, P) + CountIn(a, P)
  BY <1>7, <1>8, ConcatProperties, CountConcat
<1>10. Channels(Kind)'
  BY <1>4, <1>9 DEF Channels, Holds, TypeInv
<1>11. ASSUME NEW P
       PROVE  Tally(Producer, P) \in Int /\ Total(topic'[Producer], queue'[Producer], payloads', lost', repeated', P)
                = Tally(Producer, P) + CountIn(b, P) + CountIn(a, P)
  <2>1. /\ CountIn(topic[Producer], P) \in Nat /\ CountIn(queue[Producer], P) \in Nat
        /\ CountIn(lost, P) \in Nat /\ CountIn(repeated, P) \in Nat
        /\ CountIn(a, P) \in Nat /\ CountIn(b, P) \in Nat
    <3>1. CountIn(a, P) \in Nat /\ CountIn(b, P) \in Nat
      BY <1>8, CountType
    <3>2. Producer \in Process /\ Channels(Kind)
      BY KafkaClientAssumption DEF TypeInv, Process, Producer
    <3> QED
      BY <3>1, <3>2, ChannelCounts
  <2>2. CountIn(payloads, P) = 0
    BY <1>1, CountEmpty
  <2> QED
    BY SMTT(20), <1>4, <1>9, <2>1, <2>2 DEF Tally, Total
<1>12. ASSUME NEW x \in 1..Len(Queries), x # q, NEW P \in SUBSET {m \in EventsUpTo(life) : m.query = x}
       PROVE  CountIn(a, P) = 0 /\ CountIn(b, P) = 0
  <2>1. \A m \in Made("added") \cup Made("removed") : m \notin P
    BY <1>12
  <2> QED
    BY <2>1, NothingCounted
<1>13. /\ \A x, action, r : EventsOf(x, action, r)' = EventsOf(x, action, r)
       /\ \A x, c : Numbered(x, c)' = Numbered(x, c)
  BY <1>4 DEF EventsOf, Numbered, EventsUpTo
<1>14. ASSUME NEW x \in 1..Len(Queries), Queries[x] = "event", NEW r \in 1..Rows
       PROVE  (Tally(Producer, EventsOf(x, "added", r)) - Tally(Producer, EventsOf(x, "removed", r))
                = states[x].counts[r])'
  <2>1. Tally(Producer, EventsOf(x, "added", r)) - Tally(Producer, EventsOf(x, "removed", r))
          = states[x].counts[r]
    BY <1>14 DEF Accounts
  <2>2. CASE x # q
    <3>1. /\ CountIn(a, EventsOf(x, "added", r)) = 0 /\ CountIn(b, EventsOf(x, "added", r)) = 0
          /\ CountIn(a, EventsOf(x, "removed", r)) = 0 /\ CountIn(b, EventsOf(x, "removed", r)) = 0
      BY <1>12, <2>2 DEF EventsOf
    <3>2. states'[x] = states[x]
      BY <1>1, <1>2, <2>2 DEF Base
    <3> QED
      BY <1>11, <1>13, <2>1, <3>1, <3>2 DEF Tally
  <2>3. CASE x = q
    <3>1. CountIn(a, EventsOf(q, "removed", r)) = 0 /\ CountIn(b, EventsOf(q, "added", r)) = 0
      <4>1. \A m \in Made("added") : m \notin EventsOf(q, "removed", r)
        BY DEF EventsOf
      <4>2. \A m \in Made("removed") : m \notin EventsOf(q, "added", r)
        BY DEF EventsOf
      <4> QED
        BY <4>1, <4>2, NothingCounted
    <3>2. states'[q].counts = counts
      BY <1>1, <1>2 DEF Base
    <3>3. counts[r] \in Nat /\ old[r] \in Nat
      BY EventProducerAssumption DEF Result
    <3>4. PICK A : A = EventsOf(q, "added", r)
      OBVIOUS
    <3>5. PICK R : R = EventsOf(q, "removed", r)
      OBVIOUS
    <3>6. /\ Tally(Producer, EventsOf(q, "added", r))' = Tally(Producer, A) + CountIn(b, A) + CountIn(a, A)
          /\ Tally(Producer, EventsOf(q, "removed", r))' = Tally(Producer, R) + CountIn(b, R) + CountIn(a, R)
      BY <1>11, <1>13, <3>4, <3>5 DEF Tally
    <3>7. /\ CountIn(a, A) = IF counts[r] > old[r] THEN counts[r] - old[r] ELSE 0
          /\ CountIn(b, R) = IF old[r] > counts[r] THEN old[r] - counts[r] ELSE 0
          /\ CountIn(a, R) = 0 /\ CountIn(b, A) = 0
      BY <1>5, <1>6, <3>1, <3>4, <3>5
    <3>8. Tally(Producer, A) - Tally(Producer, R) = old[r]
      BY <1>3, <2>1, <2>3, <3>4, <3>5
    <3>9. Tally(Producer, A) \in Int /\ Tally(Producer, R) \in Int
      BY <1>11
    <3>10. (Tally(Producer, A) + CountIn(b, A) + CountIn(a, A))
             - (Tally(Producer, R) + CountIn(b, R) + CountIn(a, R)) = counts[r]
      BY <3>3, <3>7, <3>8, <3>9
    <3> QED
      BY <2>3, <3>2, <3>6, <3>10
  <2> QED
    BY <2>2, <2>3
<1>15. ASSUME NEW x \in 1..Len(Queries), Queries[x] # "event", NEW c \in Nat
       PROVE  (Tally(Producer, Numbered(x, c)) = IF c < states[x].counter THEN 1 ELSE 0)'
  <2>1. Tally(Producer, Numbered(x, c)) = IF c < states[x].counter THEN 1 ELSE 0
    BY <1>15 DEF Accounts
  <2>2. CountIn(a, Numbered(x, c)) = 0 /\ CountIn(b, Numbered(x, c)) = 0
    BY <1>1, <1>12, <1>15 DEF Numbered
  <2>3. states'[x] = states[x]
    BY <1>1, <1>2, <1>15 DEF Base
  <2> QED
    BY <1>11, <1>13, <2>1, <2>2, <2>3 DEF Tally
<1> QED
  BY <1>10, <1>14, <1>15 DEF Accounts

LEMMA SnapshotQueryAccounts ==
  ASSUME TypeInv, Accounts, program = "producer", NEW q \in due, RunSnapshotQuery(q),
         program' = program
  PROVE  Channels(Kind)' /\ Accounts'
<1>1. q \in 1..Len(Queries) /\ Base /\ Queries[q] # "event" /\ payloads = <<>>
  BY DEF TypeInv, Base, RunSnapshotQuery, Ready
<1>2. PICK e : e = Event(q, "snapshot", 0)
  OBVIOUS
<1>3. UNCHANGED <<queue, topic, lost, repeated, life>> /\ Kind' = Kind /\ Kind = EventsUpTo(life)
  BY DEF RunSnapshotQuery, clientVars, topicVars, Kind, EventsUpTo
<1>4. e \in Kind /\ e.life = life /\ e.query = q /\ e.counter = states[q].counter
  BY <1>1, <1>2, <1>3, EventProducerAssumption DEF Event, EventsUpTo, Base, QueryState
<1>5. payloads' = <<e>> /\ states' = [states EXCEPT ![q].counter = @ + 1, ![q].set = TRUE]
  BY <1>2 DEF RunSnapshotQuery
<1>6. payloads' \in Seq(Kind) /\ \A P : CountIn(payloads', P) = IF e \in P THEN 1 ELSE 0
  BY <1>4, <1>5, CountOne
<1>7. Channels(Kind)'
  BY <1>3, <1>6 DEF Channels, Holds, TypeInv
<1>8. ASSUME NEW P
      PROVE  Tally(Producer, P) \in Int /\ Total(topic'[Producer], queue'[Producer], payloads', lost', repeated', P)
               = Tally(Producer, P) + (IF e \in P THEN 1 ELSE 0)
  <2>1. /\ CountIn(topic[Producer], P) \in Nat /\ CountIn(queue[Producer], P) \in Nat
        /\ CountIn(lost, P) \in Nat /\ CountIn(repeated, P) \in Nat
    BY ChannelCounts, KafkaClientAssumption DEF TypeInv, Process, Producer
  <2>2. CountIn(payloads, P) = 0
    BY <1>1, CountEmpty
  <2> QED
    BY <1>3, <1>6, <2>1, <2>2 DEF Tally, Total
<1>9. /\ \A x, action, r : EventsOf(x, action, r)' = EventsOf(x, action, r)
      /\ \A x, c : Numbered(x, c)' = Numbered(x, c)
  BY <1>3 DEF EventsOf, Numbered, EventsUpTo
<1>10. ASSUME NEW x \in 1..Len(Queries), Queries[x] = "event", NEW r \in 1..Rows
       PROVE  (Tally(Producer, EventsOf(x, "added", r)) - Tally(Producer, EventsOf(x, "removed", r))
                = states[x].counts[r])'
  <2>1. Tally(Producer, EventsOf(x, "added", r)) - Tally(Producer, EventsOf(x, "removed", r))
          = states[x].counts[r]
    BY <1>10 DEF Accounts
  <2>2. e \notin EventsOf(x, "added", r) /\ e \notin EventsOf(x, "removed", r)
    BY <1>1, <1>4, <1>10 DEF EventsOf
  <2>3. states'[x] = states[x]
    BY <1>1, <1>5, <1>10 DEF Base
  <2> QED
    BY <1>8, <1>9, <2>1, <2>2, <2>3 DEF Tally
<1>11. ASSUME NEW x \in 1..Len(Queries), Queries[x] # "event", NEW c \in Nat
       PROVE  (Tally(Producer, Numbered(x, c)) = IF c < states[x].counter THEN 1 ELSE 0)'
  <2>1. Tally(Producer, Numbered(x, c)) = IF c < states[x].counter THEN 1 ELSE 0
    BY <1>11 DEF Accounts
  <2>2. e \in Numbered(x, c) <=> x = q /\ c = states[q].counter
    BY <1>3, <1>4 DEF Numbered
  <2>3. states[q].counter \in Nat
    BY <1>1 DEF Base, QueryState
  <2>4. states'[x].counter = IF x = q THEN states[q].counter + 1 ELSE states[x].counter
    BY <1>1, <1>5 DEF Base, QueryState
  <2>5. Total(topic'[Producer], queue'[Producer], payloads', lost', repeated', Numbered(x, c))
          = Tally(Producer, Numbered(x, c)) + (IF e \in Numbered(x, c) THEN 1 ELSE 0)
    BY <1>8
  <2>6. Total(topic'[Producer], queue'[Producer], payloads', lost', repeated', Numbered(x, c))
          = IF c < states'[x].counter THEN 1 ELSE 0
    <3>1. CASE x = q
      BY <2>1, <2>2, <2>3, <2>4, <2>5, <3>1
    <3>2. CASE x # q
      BY <2>1, <2>2, <2>4, <2>5, <3>2
    <3> QED
      BY <3>1, <3>2
  <2> QED
    BY <1>9, <2>6 DEF Tally
<1> QED
  BY <1>7, <1>10, <1>11 DEF Accounts

\* Of a new start nothing is on the way.
LEMMA RestartAccounts ==
  ASSUME TypeInv, Consumed, Restart, program' = program, consumer' = consumer
  PROVE  program = "producer" /\ Channels(Kind)' /\ Consumed' /\ Accounts'
<1>1. program = "producer" /\ life \in Nat /\ life' = life + 1
  BY EventProducerAssumption, KafkaClientAssumption
     DEF Restart, TypeInv, Modes, Base, Running, Active, Worker, Producer, Process
<1>2. UNCHANGED <<queue, topic, lost, repeated, payloads>> /\ states' = Fresh
  BY DEF Restart, topicVars
<1>3. Kind = EventsUpTo(life) /\ Kind' = EventsUpTo(life + 1) /\ Kind \subseteq Kind'
  BY <1>1 DEF Kind, EventsUpTo
<1>4. PICK K, L : K = Kind /\ L = Kind' /\ K \subseteq L
  BY <1>3
<1>5. Holds(queue, topic, lost, repeated, payloads, L)
  <2>1. Holds(queue, topic, lost, repeated, payloads, K)
    BY <1>4 DEF TypeInv, Channels
  <2>2. Seq(K) \subseteq Seq(L)
    BY <1>4, SubsetSeq
  <2> QED
    BY <2>1, <2>2 DEF Holds
<1>6. Channels(Kind)'
  BY <1>2, <1>4, <1>5 DEF Channels
<1>7. Consumed'
  <2>1. consumer \in [from : Nat, next : Nat, printed : Seq(K), assigns : Nat]
    BY <1>4 DEF Consumed
  <2>2. Seq(K) \subseteq Seq(L)
    BY <1>4, SubsetSeq
  <2>3. consumer \in [from : Nat, next : Nat, printed : Seq(L), assigns : Nat]
    BY <2>1, <2>2
  <2> QED
    BY <1>4, <2>3 DEF Consumed
<1>8. ASSUME NEW P, \A m \in P : m.life = life + 1
      PROVE  Total(topic'[Producer], queue'[Producer], payloads', lost', repeated', P) = 0
  <2>1. \A m \in K : m \notin P
    BY <1>1, <1>3, <1>4, <1>8 DEF EventsUpTo
  <2>2. /\ topic[Producer] \in Seq(K) /\ queue[Producer] \in Seq(K) /\ payloads \in Seq(K)
        /\ lost \in Seq(K) /\ repeated \in Seq(K)
    BY <1>4, KafkaClientAssumption DEF TypeInv, Channels, Holds, Process, Producer
  <2>3. /\ CountIn(topic[Producer], P) = 0 /\ CountIn(queue[Producer], P) = 0
        /\ CountIn(payloads, P) = 0 /\ CountIn(lost, P) = 0 /\ CountIn(repeated, P) = 0
    BY <2>1, <2>2, NothingCounted
  <2> QED
    BY <1>2, <2>3 DEF Total
<1>9. /\ \A x, action, r : \A m \in EventsOf(x, action, r)' : m.life = life + 1
      /\ \A x, c : \A m \in Numbered(x, c)' : m.life = life + 1
  BY <1>1 DEF EventsOf, Numbered
<1>10. ASSUME NEW x \in 1..Len(Queries), NEW r \in 1..Rows
       PROVE  (Tally(Producer, EventsOf(x, "added", r)) - Tally(Producer, EventsOf(x, "removed", r))
                = states[x].counts[r])'
  <2>1. states'[x].counts[r] = 0
    BY <1>2 DEF Fresh
  <2>2. Tally(Producer, EventsOf(x, "added", r))' = 0 /\ Tally(Producer, EventsOf(x, "removed", r))' = 0
    BY <1>8, <1>9 DEF Tally
  <2> QED
    BY <2>1, <2>2
<1>11. ASSUME NEW x \in 1..Len(Queries), NEW c \in Nat
       PROVE  (Tally(Producer, Numbered(x, c)) = IF c < states[x].counter THEN 1 ELSE 0)'
  <2>1. states'[x].counter = 0
    BY <1>2 DEF Fresh
  <2>2. Tally(Producer, Numbered(x, c))' = 0
    BY <1>8, <1>9 DEF Tally
  <2> QED
    BY <2>1, <2>2
<1> QED
  BY <1>1, <1>6, <1>7, <1>10, <1>11 DEF Accounts

-----------------------------------------------------------------------------

LEMMA TallyType ==
  ASSUME TypeInv, NEW p \in Process, NEW P
  PROVE  Tally(p, P) \in Int
<1>1. /\ CountIn(topic[p], P) \in Nat /\ CountIn(queue[p], P) \in Nat
      /\ CountIn(lost, P) \in Nat /\ CountIn(repeated, P) \in Nat /\ CountIn(payloads, P) \in Nat
  BY ChannelCounts DEF TypeInv
<1> QED
  BY <1>1 DEF Tally, Total

LEMMA WorkerRuns ==
  ASSUME TypeInv, NEW w \in Worker, at[w] \in {"fetch", "run", "full", "flush"}
  PROVE  /\ program = "scenario" /\ w \in Process /\ w \in Running /\ payloads = <<>>
         /\ Kind = Reports
BY KafkaClientAssumption DEF TypeInv, Modes, Base, Running, Worker, Process, Producer, Kind

LEMMA SentType ==
  ASSUME TypeInv, program = "scenario"
  PROVE  Sent \subseteq Reports
<1>1. Kind = Reports /\ Worker \subseteq Process
  BY DEF Kind, Worker, Process
<1>2. ToSet(lost) \subseteq Reports
  BY <1>1, ToSetType DEF TypeInv, Channels, Holds
<1>3. ASSUME NEW w \in Worker PROVE ToSet(queue[w]) \subseteq Reports /\ ToSet(topic[w]) \subseteq Reports
  <2>1. queue[w] \in Seq(Reports) /\ topic[w] \in Seq(Reports)
    BY <1>1 DEF TypeInv, Channels, Holds
  <2> QED
    BY <2>1, ToSetType
<1> QED
  BY <1>2, <1>3 DEF Sent

LEMMA DeviceTypes ==
  ASSUME NEW f \in [1..MaxDevices -> DeviceState], NEW e \in 1..MaxDevices
  PROVE  /\ f[e] \in DeviceState /\ f[e].version \in 1..Versions /\ f[e].version \in Int
         /\ f[e].counter \in Nat /\ f[e].counter \in Int
<1>1. f[e] \in DeviceState
  OBVIOUS
<1>2. f[e].version \in 1..Versions /\ f[e].counter \in Nat
  BY <1>1 DEF DeviceState
<1> QED
  BY <1>1, <1>2

\* A step about device d, which may report what the device has.
LEMMA SentStep ==
  ASSUME TypeInv, Devices', SentInv, program = "scenario", program' = program,
         NEW d \in 1..MaxDevices, \A e \in 1..MaxDevices \ {d} : device'[e] = device[e],
         device'[d].version >= device[d].version, device'[d].counter >= device[d].counter,
         \A v \in Worker, e \in 1..MaxDevices :
           Waits(v, e)' => Waits(v, e) \/ (e = d /\ device'[d].counter > device[d].counter),
         NEW New \in SUBSET Reports, Sent' \subseteq Sent \cup New,
         \A m \in New : /\ m.device = d /\ Release[m.version] <= m.tick
                        /\ m.version = device'[d].version /\ m.counter = device'[d].counter
                        /\ \A v \in Worker : ~Waits(v, d)'
                        /\ \A n \in Sent : n.device = d => n.counter < m.counter,
         \A m, n \in New : m = n
  PROVE  SentInv'
<1>1. Sent \subseteq Reports
  BY SentType
<1>2. \A e \in 1..MaxDevices : /\ device[e].version \in Int /\ device[e].counter \in Int
                               /\ device'[e].version \in Int /\ device'[e].counter \in Int
  <2>1. device \in [1..MaxDevices -> DeviceState] /\ device' \in [1..MaxDevices -> DeviceState]
    BY DEF TypeInv, Devices
  <2> QED
    BY <2>1, DeviceTypes
<1>3. \A m \in Sent \cup New : /\ m.device \in 1..MaxDevices /\ m.version \in 1..Versions
                                /\ m.counter \in Int /\ m.tick \in Int
  BY <1>1 DEF Reports
<1>4. ASSUME NEW m \in Sent
      PROVE  /\ Release[m.version] <= m.tick
             /\ m.version <= device'[m.device].version
             /\ m.counter <= device'[m.device].counter
             /\ \A v \in Worker : Waits(v, m.device)' => m.counter < device'[m.device].counter
  <2>1. /\ Release[m.version] <= m.tick
        /\ m.version <= device[m.device].version
        /\ m.counter <= device[m.device].counter
        /\ \A v \in Worker : Waits(v, m.device) => m.counter < device[m.device].counter
    BY DEF SentInv
  <2>2. CASE m.device # d
    BY <1>3, <2>1, <2>2
  <2>3. CASE m.device = d
    BY <1>2, <1>3, <2>1, <2>3
  <2> QED
    BY <2>2, <2>3
<1>5. ASSUME NEW m \in New
      PROVE  /\ Release[m.version] <= m.tick
             /\ m.version <= device'[m.device].version
             /\ m.counter <= device'[m.device].counter
             /\ \A v \in Worker : Waits(v, m.device)' => m.counter < device'[m.device].counter
  BY <1>2
<1>6. ASSUME NEW m \in Sent, NEW n \in New, m.device = n.device
      PROVE  m.counter < n.counter /\ m.version <= n.version
  <2>1. m.device = d /\ m.counter < n.counter /\ n.version = device'[d].version
    BY <1>6
  <2> QED
    BY <1>4, <2>1
<1>7. ASSUME NEW m \in Sent \cup New, NEW n \in Sent \cup New, m.device = n.device
      PROVE  (m.counter < n.counter => m.version <= n.version) /\ (m.counter = n.counter => m = n)
  <2>1. CASE m \in Sent /\ n \in Sent
    BY <1>7, <2>1 DEF SentInv
  <2>2. CASE m \in Sent /\ n \in New
    BY <1>3, <1>6, <1>7, <2>2
  <2>3. CASE m \in New /\ n \in Sent
    BY <1>3, <1>6, <1>7, <2>3
  <2>4. CASE m \in New /\ n \in New
    <3>1. m = n /\ m.counter \in Int
      BY <1>3, <2>4
    <3> QED
      BY <3>1
  <2> QED
    BY <2>1, <2>2, <2>3, <2>4
<1>8. \A m \in Sent' : m \in Sent \cup New
  OBVIOUS
<1> QED
  BY <1>4, <1>5, <1>7, <1>8 DEF SentInv

\* A step of w that is about device d.
LEMMA FleetStep ==
  ASSUME FleetInv, program = "scenario", program' = program, NEW w \in Worker, NEW d \in Mine(w),
         \A v : Mine(v)' = Mine(v),
         \A v \in Worker \ {w} : total'[v] = total[v],
         \A v \in Worker : \A e \in Mine(v) \ {d} :
           device'[e].counter = device[e].counter /\ dropped'[e] = dropped[e] /\ (Waits(v, e)' <=> Waits(v, e)),
         \A v \in Worker \ {w} : \A P \in SUBSET ReportsOf(Mine(v)) :
           Total(topic'[v], queue'[v], payloads', lost', repeated', P) = Tally(v, P),
         \A e \in Mine(w) \ {d} :
           Total(topic'[w], queue'[w], payloads', lost', repeated', ReportsOf({e})) = Tally(w, ReportsOf({e})),
         total'[w] = Total(topic'[w], queue'[w], payloads', lost', repeated', ReportsOf(Mine(w))),
         Recorded(w, d)'
  PROVE  FleetInv'
<1>1. \A D : ReportsOf(D)' = ReportsOf(D)
  BY DEF ReportsOf, Reports
<1>2. ASSUME NEW v \in Worker
      PROVE  total'[v] = Tally(v, ReportsOf(Mine(v)))' /\ \A e \in Mine(v) : Recorded(v, e)'
  <2>1. ReportsOf(Mine(v))' = ReportsOf(Mine(v))
    BY DEF ReportsOf, Reports
  <2>2. total'[v] = Total(topic'[v], queue'[v], payloads', lost', repeated', ReportsOf(Mine(v)))
    <3>1. CASE v = w
      BY <3>1
    <3>2. CASE v # w
      <4>1. ReportsOf(Mine(v)) \in SUBSET ReportsOf(Mine(v))
        OBVIOUS
      <4>2. Total(topic'[v], queue'[v], payloads', lost', repeated', ReportsOf(Mine(v)))
              = Tally(v, ReportsOf(Mine(v)))
        BY <3>2, <4>1
      <4> QED
        BY <3>2, <4>2 DEF FleetInv
    <3> QED
      BY <3>1, <3>2
  <2>3. ASSUME NEW e \in Mine(v), e # d PROVE Recorded(v, e)'
    <3>1. Total(topic'[v], queue'[v], payloads', lost', repeated', ReportsOf({e})) = Tally(v, ReportsOf({e}))
      <4>1. CASE v = w
        BY <2>3, <4>1
      <4>2. CASE v # w
        BY <4>2, OwnReports
      <4> QED
        BY <4>1, <4>2
    <3>2. ReportsOf({e})' = ReportsOf({e})
      BY DEF ReportsOf, Reports
    <3>3. device'[e].counter = device[e].counter /\ dropped'[e] = dropped[e] /\ (Waits(v, e)' <=> Waits(v, e))
      BY <2>3
    <3>4. Recorded(v, e)
      BY DEF FleetInv
    <3> QED
      BY <3>1, <3>2, <3>3, <3>4 DEF Recorded, Tally
  <2>4. ASSUME d \in Mine(v) PROVE Recorded(v, d)'
    BY <2>4, MineDisjoint
  <2> QED
    BY <2>1, <2>2, <2>3, <2>4 DEF Tally
<1> QED
  BY <1>2 DEF FleetInv

LEMMA WorkStep ==
  ASSUME WorkInv, NEW w \in Worker, \A v : Mine(v)' = Mine(v),
         \A v \in Worker \ {w} : /\ tick'[v] = tick[v] /\ todo'[v] = todo[v] /\ at'[v] = at[v]
                                 /\ \A e \in Mine(v) : device'[e] = device[e],
         todo'[w] \subseteq Mine(w),
         \A d \in Mine(w) :
           /\ Release[device'[d].version] <= tick'[w]
           /\ device'[d].counter <= tick'[w] + 1
           /\ at'[w] \notin Ended /\ d \in todo'[w] /\ ~Waits(w, d)' => device'[d].counter <= tick'[w]
  PROVE  WorkInv'
<1> SUFFICES ASSUME NEW v \in Worker
             PROVE  /\ todo'[v] \subseteq Mine(v)
                    /\ \A d \in Mine(v) :
                         /\ Release[device'[d].version] <= tick'[v]
                         /\ device'[d].counter <= tick'[v] + 1
                         /\ at'[v] \notin Ended /\ d \in todo'[v] /\ ~Waits(v, d)' => device'[d].counter <= tick'[v]
  BY DEF WorkInv
<1>1. CASE v = w
  BY <1>1
<1>2. CASE v # w
  <2>1. ASSUME NEW d PROVE Waits(v, d)' <=> Waits(v, d)
    BY <1>2 DEF Waits
  <2> QED
    BY <1>2, <2>1 DEF WorkInv
<1> QED
  BY <1>1, <1>2

LEMMA ScenarioSame ==
  ASSUME program = "scenario", program' = program, UNCHANGED <<fleet, consumer>>
  PROVE  /\ Kind' = Kind /\ Running' = Running /\ \A v : Mine(v)' = Mine(v)
         /\ Consumed => Consumed'
BY DEF Kind, Reports, Running, Active, Mine, Consumed

LEMMA StillSame ==
  ASSUME program = "scenario", program' = program, UNCHANGED <<queue, topic, lost, repeated, payloads, fleet>>
  PROVE  /\ Channels(Kind) => Channels(Kind)'
         /\ Mail => Mail' /\ Sent' = Sent
         /\ \A v, P : Total(topic'[v], queue'[v], payloads', lost', repeated', P) = Tally(v, P)
<1>1. Kind' = Kind /\ \A v : Mine(v)' = Mine(v)
  BY DEF Kind, Reports, Mine
<1> QED
  BY <1>1 DEF Channels, Mail, Sent, Tally

\* Versions that an upgrade may bring are newer and out.
LEMMA UpgradesOut ==
  ASSUME Devices, NEW w \in Worker, NEW v \in 1..Versions, Release[v] <= tick[w],
         NEW u \in Upgrades(v, tick[w])
  PROVE  u \in 1..Versions /\ u >= v /\ Release[u] <= tick[w]
<1>1. tick[w] \in Nat
  BY DEF Devices
<1>2. CASE u = v
  BY <1>2, UpdateScenarioAssumption
<1>3. CASE u # v
  <2>1. u \in (v + 1)..Versions /\ CanUpgrade(u, tick[w])
    BY <1>3 DEF Upgrades
  <2>2. u \in 1..Versions /\ u >= v
    BY <2>1, UpdateScenarioAssumption
  <2>3. Release[u] <= tick[w]
    <3>1. CASE u \notin Enforced
      <4>1. Release[u] <= 0 /\ Release[u] \in Int
        BY <2>2, <3>1, UpdateScenarioAssumption
      <4> QED
        BY <1>1, <4>1
    <3>2. CASE u \in Enforced
      BY <2>1, <3>2 DEF CanUpgrade
    <3> QED
      BY <3>1, <3>2
  <2> QED
    BY <2>2, <2>3
<1> QED
  BY <1>2, <1>3

LEMMA NoEventStep ==
  ASSUME TypeInv, Devices', WorkInv, Mail, SentInv, FleetInv, NEW w \in Worker, NEW d \in todo[w],
         NoEvent(w, d), UNCHANGED <<producerVars, program, consumer>>
  PROVE  /\ program = "scenario" /\ Channels(Kind)' /\ Modes'
         /\ WorkInv' /\ Mail' /\ SentInv' /\ FleetInv'
<1>1. /\ at[w] = "run" /\ d \in Mine(w) /\ d \in 1..MaxDevices
      /\ UNCHANGED <<at, queue, topic, lost, repeated, payloads, fleet, tick, total, dropped>>
      /\ todo' = [todo EXCEPT ![w] = @ \ {d}]
  BY DEF NoEvent, Turn, Done, WorkInv, clientVars, topicVars, producerVars, TypeInv, Devices
<1>2. program = "scenario"
  BY <1>1, WorkerRuns
<1>3. Running' = Running /\ \A v : Mine(v)' = Mine(v)
  BY <1>1, <1>2, ScenarioSame
<1>4. /\ Channels(Kind)' /\ Mail' /\ Sent' = Sent
      /\ \A v, P : Total(topic'[v], queue'[v], payloads', lost', repeated', P) = Tally(v, P)
  BY <1>1, <1>2, StillSame DEF TypeInv
<1>5. Modes'
  BY <1>1, <1>3 DEF TypeInv, Modes
<1>6. PICK f \in DayFlags(w, d) : \E u \in Upgrades(f.version, tick[w]) :
        device' = [device EXCEPT ![d] = [f EXCEPT !.version = u]]
  <2>1. \A f : f.version \in Upgrades(f.version, tick[w])
    BY DEF Upgrades
  <2> QED
    BY <2>1 DEF NoEvent
<1>7. PICK u \in Upgrades(f.version, tick[w]) : device' = [device EXCEPT ![d] = [f EXCEPT !.version = u]]
  BY <1>6
<1>8. f \in DeviceState /\ f.version = device[d].version /\ f.counter = device[d].counter
  BY <1>1, LookedAt DEF TypeInv
<1>9. /\ device'[d].version = u /\ device'[d].counter = device[d].counter
      /\ \A e \in 1..MaxDevices \ {d} : device'[e] = device[e]
  BY <1>1, <1>7, <1>8 DEF TypeInv, Devices, DeviceState
<1>10. u >= device[d].version /\ Release[u] <= tick[w]
  <2>1. Release[device[d].version] <= tick[w] /\ device[d].version \in 1..Versions
    BY <1>1, DeviceTypes DEF WorkInv, TypeInv, Devices
  <2> QED
    BY <1>8, <2>1, UpgradesOut DEF TypeInv
<1>11. \A v, e : Waits(v, e)' <=> Waits(v, e)
  <2> SUFFICES ASSUME NEW v, NEW e PROVE Waits(v, e)' <=> Waits(v, e)
    OBVIOUS
  <2>1. CASE v = w
    BY <1>1, <2>1 DEF Waits
  <2>2. CASE v # w
    <3>1. todo'[v] = todo[v]
      BY <1>1, <2>2 DEF TypeInv, Devices
    <3> QED
      BY <1>1, <3>1 DEF Waits
  <2> QED
    BY <2>1, <2>2
<1>12. \A v : Mine(v) \subseteq 1..MaxDevices
  BY DEF Mine, Chunk, TypeInv, Devices
<1>13. WorkInv'
  <2>1. \A v \in Worker \ {w} : /\ tick'[v] = tick[v] /\ todo'[v] = todo[v] /\ at'[v] = at[v]
                                 /\ \A e \in Mine(v) : device'[e] = device[e]
    <3> SUFFICES ASSUME NEW v \in Worker \ {w}
                 PROVE  todo'[v] = todo[v] /\ \A e \in Mine(v) : device'[e] = device[e]
      BY <1>1
    <3>1. \A e \in Mine(v) : e # d
      BY <1>1, MineDisjoint
    <3> QED
      BY <1>1, <1>9, <1>12, <3>1 DEF TypeInv, Devices
  <2>2. todo'[w] = todo[w] \ {d} /\ todo[w] \subseteq Mine(w)
    BY <1>1 DEF TypeInv, Devices, WorkInv
  <2>3. ASSUME NEW e \in Mine(w)
        PROVE  /\ Release[device'[e].version] <= tick'[w]
               /\ device'[e].counter <= tick'[w] + 1
               /\ at'[w] \notin Ended /\ e \in todo'[w] /\ ~Waits(w, e)' => device'[e].counter <= tick'[w]
    <3>1. CASE e = d
      BY <1>1, <1>9, <1>10, <2>2, <3>1 DEF WorkInv
    <3>2. CASE e # d
      <4>1. device'[e] = device[e]
        BY <1>9, <1>12, <3>2
      <4> QED
        BY <1>1, <1>11, <2>2, <4>1 DEF WorkInv
    <3> QED
      BY <3>1, <3>2
  <2> QED
    BY <1>3, <2>1, <2>2, <2>3, WorkStep
<1>14. SentInv'
  <2>1. {} \in SUBSET Reports /\ Sent' \subseteq Sent \cup {}
    BY <1>4
  <2>2. device[d].counter \in Int
    BY <1>1, DeviceTypes DEF TypeInv, Devices
  <2>3. device'[d].version >= device[d].version /\ device'[d].counter >= device[d].counter
    BY <1>9, <1>10, <2>2
  <2>4. \A v \in Worker, e \in 1..MaxDevices :
          Waits(v, e)' => Waits(v, e) \/ (e = d /\ device'[d].counter > device[d].counter)
    BY <1>11
  <2>5. program' = program /\ d \in 1..MaxDevices
    BY <1>1
  <2>6. PICK New : New = {}
    OBVIOUS
  <2> QED
    BY <1>2, <1>9, <2>1, <2>3, <2>4, <2>5, <2>6, SentStep
<1>15. FleetInv'
  <2>1. ReportsOf({d})' = ReportsOf({d})
    BY DEF ReportsOf, Reports
  <2>2. Recorded(w, d)'
    BY <1>1, <1>2, <1>4, <1>9, <1>11, <2>1 DEF Recorded, FleetInv, Tally
  <2>3. \A v \in Worker : \A e \in Mine(v) \ {d} :
          device'[e].counter = device[e].counter /\ dropped'[e] = dropped[e] /\ (Waits(v, e)' <=> Waits(v, e))
    BY <1>1, <1>9, <1>11, <1>12
  <2>4. total'[w] = Total(topic'[w], queue'[w], payloads', lost', repeated', ReportsOf(Mine(w)))
    BY <1>1, <1>2, <1>4 DEF FleetInv
  <2> QED
    BY <1>1, <1>2, <1>3, <1>4, <2>2, <2>3, <2>4, FleetStep
<1> QED
  BY <1>2, <1>4, <1>5, <1>13, <1>14, <1>15

\* A report that the queue of w takes.
LEMMA ReportQueued ==
  ASSUME TypeInv, Mail, program = "scenario", program' = program, UNCHANGED <<fleet>>,
         NEW w \in Worker, NEW m \in Reports, m.device \in Mine(w), Len(queue[w]) < Capacity,
         queue' = [queue EXCEPT ![w] = Append(@, m)],
         UNCHANGED <<topic, lost, repeated, payloads>>
  PROVE  /\ Channels(Kind)' /\ Mail' /\ Sent' \subseteq Sent \cup {m}
         /\ \A o \in Process : Len(queue'[o]) <= Capacity
         /\ \A v \in Worker \ {w} : \A P :
              Total(topic'[v], queue'[v], payloads', lost', repeated', P) = Tally(v, P)
         /\ \A P : Total(topic'[w], queue'[w], payloads', lost', repeated', P)
                    = Tally(w, P) + (IF m \in P THEN 1 ELSE 0)
<1>1. w \in Process /\ Worker \subseteq Process /\ Kind = Reports
  BY DEF Worker, Process, Kind
<1>2. Kind' = Kind /\ \A v : Mine(v)' = Mine(v)
  BY DEF Kind, Reports, Mine
<1>3. PICK q \in Seq(Reports) : q = queue[w]
  BY <1>1 DEF TypeInv, Channels, Holds
<1>4. queue'[w] = Append(q, m) /\ \A o \in Process \ {w} : queue'[o] = queue[o]
  BY <1>1, <1>3 DEF TypeInv, Channels, Holds
<1>5. /\ Append(q, m) \in Seq(Reports) /\ Len(Append(q, m)) = Len(q) + 1
      /\ ToSet(Append(q, m)) = ToSet(q) \cup {m}
  BY AppendProperties, ToSetAppend
<1>6. Channels(Kind)'
  BY <1>1, <1>2, <1>3, <1>4, <1>5 DEF TypeInv, Channels, Holds
<1>7. ASSUME NEW v \in Worker
      PROVE  \A x \in ToSet(queue'[v]) \cup ToSet(topic'[v]) : x.device \in Mine(v)'
  <2>1. CASE v = w
    BY <1>2, <1>3, <1>4, <1>5, <2>1 DEF Mail
  <2>2. CASE v # w
    BY <1>1, <1>2, <1>4, <2>2 DEF Mail
  <2> QED
    BY <2>1, <2>2
<1>8. Sent' \subseteq Sent \cup {m}
  <2>1. ASSUME NEW v \in Worker
        PROVE  ToSet(topic'[v]) \cup ToSet(queue'[v]) \subseteq ToSet(topic[v]) \cup ToSet(queue[v]) \cup {m}
    BY <1>1, <1>3, <1>4, <1>5
  <2> QED
    BY <2>1 DEF Sent
<1>9. \A o \in Process : Len(queue'[o]) <= Capacity
  <2>1. Len(q) \in Nat
    BY LenProperties
  <2>2. Len(queue'[w]) <= Capacity
    BY <1>3, <1>4, <1>5, <2>1, KafkaClientAssumption
  <2> QED
    BY <1>4, <2>2 DEF TypeInv, Modes
<1>10. ASSUME NEW P
       PROVE  Total(topic'[w], queue'[w], payloads', lost', repeated', P)
                    = Tally(w, P) + (IF m \in P THEN 1 ELSE 0)
  <2>1. CountIn(Append(q, m), P) = CountIn(q, P) + (IF m \in P THEN 1 ELSE 0)
    BY CountAppend
  <2>2. /\ CountIn(topic[w], P) \in Nat /\ CountIn(queue[w], P) \in Nat
        /\ CountIn(lost, P) \in Nat /\ CountIn(repeated, P) \in Nat /\ CountIn(payloads, P) \in Nat
    BY <1>1, ChannelCounts DEF TypeInv
  <2> QED
    BY SMTT(20), <1>3, <1>4, <2>1, <2>2 DEF Tally, Total
<1>11. ASSUME NEW v \in Worker \ {w}, NEW P
       PROVE  Total(topic'[v], queue'[v], payloads', lost', repeated', P) = Tally(v, P)
  BY <1>1, <1>4 DEF Tally
<1> QED
  BY <1>6, <1>7, <1>8, <1>9, <1>10, <1>11 DEF Mail

\* The first device of a worker that waits is the only one whose report waits.
LEMMA OneWaits ==
  ASSUME Devices, NEW w \in Worker, NEW d \in todo[w], \A e \in todo[w] : d <= e
  PROVE  \A e : Waits(w, e) => e = d
BY DEF Devices, Waits

LEMMA RecordType ==
  ASSUME Devices, NEW w \in Worker, NEW d \in 1..MaxDevices, NEW dev \in DeviceState
  PROVE  /\ Record(w, d, dev) \in Reports
         /\ Record(w, d, dev).device = d /\ Record(w, d, dev).version = dev.version
         /\ Record(w, d, dev).counter = dev.counter /\ Record(w, d, dev).tick = tick[w]
BY DEF Devices, Record, Reports, DeviceState

LEMMA CheckInStep ==
  ASSUME TypeInv, Devices', WorkInv, Mail, SentInv, FleetInv, NEW w \in Worker, NEW d \in todo[w],
         CheckIn(w, d), UNCHANGED <<producerVars, program, consumer>>
  PROVE  /\ program = "scenario" /\ Channels(Kind)' /\ Modes'
         /\ WorkInv' /\ Mail' /\ SentInv' /\ FleetInv'
<1>1. /\ at[w] = "run" /\ d \in Mine(w) /\ d \in 1..MaxDevices /\ \A e \in todo[w] : d <= e
      /\ UNCHANGED <<topic, lost, repeated, payloads, fleet, tick, dropped, program>>
  BY DEF CheckIn, Turn, WorkInv, topicVars, producerVars, TypeInv, Devices
<1>2. program = "scenario" /\ w \in Process
  BY <1>1, WorkerRuns
<1>3. Running' = Running /\ (\A v : Mine(v)' = Mine(v)) /\ \A v : Mine(v) \subseteq 1..MaxDevices
  BY <1>1, <1>2, ScenarioSame DEF Mine, Chunk, TypeInv, Devices
<1>0. PICK f \in DayFlags(w, d), u \in Upgrades(device[d].version, tick[w]) :
        \E dev : /\ dev = [f EXCEPT !.version = u, !.counter = @ + 1]
                 /\ device' = [device EXCEPT ![d] = dev]
                 /\ IF Len(queue[w]) < Capacity
                    THEN /\ Enqueue(w, Record(w, d, dev))
                         /\ Done(w, d)
                         /\ total' = [total EXCEPT ![w] = @ + 1]
                         /\ UNCHANGED at
                    ELSE Goto(w, "full") /\ UNCHANGED <<queue, todo, total>>
  BY DEF CheckIn
<1>4. PICK dev :
        /\ dev = [f EXCEPT !.version = u, !.counter = @ + 1]
        /\ device' = [device EXCEPT ![d] = dev]
        /\ IF Len(queue[w]) < Capacity
           THEN /\ Enqueue(w, Record(w, d, dev))
                /\ Done(w, d)
                /\ total' = [total EXCEPT ![w] = @ + 1]
                /\ UNCHANGED at
           ELSE Goto(w, "full") /\ UNCHANGED <<queue, todo, total>>
  BY <1>0
<1>5. /\ f \in DeviceState /\ f.counter = device[d].counter /\ device[d].counter \in Nat
      /\ device[d].version \in 1..Versions /\ device[d].version \in Int
  <2>1. f \in DeviceState /\ f.counter = device[d].counter
    BY <1>1, LookedAt DEF TypeInv
  <2>2. device \in [1..MaxDevices -> DeviceState]
    BY DEF TypeInv, Devices
  <2> QED
    BY <1>1, <2>1, <2>2, DeviceTypes
<1>6. u \in 1..Versions /\ u >= device[d].version /\ Release[u] <= tick[w]
  BY <1>1, <1>5, UpgradesOut DEF WorkInv, TypeInv
<1>7. dev \in DeviceState /\ dev.version = u /\ dev.counter = device[d].counter + 1
  <2>1. f.counter + 1 \in Nat
    BY <1>5
  <2> QED
    BY <1>4, <1>5, <1>6, <2>1 DEF DeviceState
<1>8. device'[d] = dev /\ \A e \in 1..MaxDevices \ {d} : device'[e] = device[e]
  BY <1>1, <1>4 DEF TypeInv, Devices
<1>9. \A v \in Worker \ {w} : at'[v] = at[v] /\ todo'[v] = todo[v] /\ total'[v] = total[v]
  <2>1. at' = at \/ at' = [at EXCEPT ![w] = "full"]
    BY <1>4 DEF Goto
  <2>2. todo' = todo \/ todo' = [todo EXCEPT ![w] = @ \ {d}]
    BY <1>4 DEF Done
  <2>3. total' = total \/ total' = [total EXCEPT ![w] = @ + 1]
    BY <1>4
  <2>4. Worker \subseteq Process
    BY DEF Worker, Process
  <2> QED
    BY <2>1, <2>2, <2>3, <2>4 DEF TypeInv, Base, Devices
<1>10. \A v \in Worker \ {w} : \A e : Waits(v, e)' <=> Waits(v, e)
  BY <1>9 DEF Waits
<1>11. \A e : ~Waits(w, e)
  BY <1>1 DEF Waits
<1>12. \A v \in Worker \ {w} : \A e \in Mine(v) : e # d /\ device'[e] = device[e]
  BY <1>1, <1>3, <1>8, MineDisjoint
<1>13. device[d].counter <= tick[w] /\ tick[w] \in Nat
  <2>1. at[w] \notin Ended
    BY <1>1 DEF Ended
  <2> QED
    BY <1>1, <1>11, <2>1 DEF WorkInv, TypeInv, Devices
<1>14. \A e \in Mine(w) \ {d} : device'[e] = device[e]
  BY <1>3, <1>8
<1>15. CASE Len(queue[w]) < Capacity
  <2>1. PICK m \in Reports : /\ m = Record(w, d, dev) /\ m.device = d /\ m.version = dev.version
                             /\ m.counter = dev.counter /\ m.tick = tick[w]
    BY <1>1, <1>7, RecordType DEF TypeInv
  <2>2. /\ queue' = [queue EXCEPT ![w] = Append(@, m)] /\ at' = at
        /\ todo' = [todo EXCEPT ![w] = @ \ {d}] /\ total' = [total EXCEPT ![w] = @ + 1]
    BY <1>4, <1>15, <2>1 DEF Enqueue, Done
  <2>3. m.device \in Mine(w)
    BY <1>1, <2>1
  <2>4. /\ Channels(Kind)' /\ Mail' /\ Sent' \subseteq Sent \cup {m}
        /\ \A o \in Process : Len(queue'[o]) <= Capacity
        /\ \A v \in Worker \ {w} : \A P :
             Total(topic'[v], queue'[v], payloads', lost', repeated', P) = Tally(v, P)
        /\ \A P : Total(topic'[w], queue'[w], payloads', lost', repeated', P)
                   = Tally(w, P) + (IF m \in P THEN 1 ELSE 0)
    BY <1>1, <1>2, <1>15, <2>2, <2>3, ReportQueued
  <2>5. Modes'
    BY <1>1, <1>3, <2>2, <2>4 DEF TypeInv, Modes
  <2>6. \A e : ~Waits(w, e)'
    BY <1>1, <2>2 DEF Waits
  <2>7. WorkInv'
    <3>1. todo'[w] = todo[w] \ {d} /\ todo[w] \subseteq Mine(w)
      BY <2>2 DEF TypeInv, Devices, WorkInv
    <3>2. ASSUME NEW e \in Mine(w)
          PROVE  /\ Release[device'[e].version] <= tick'[w]
                 /\ device'[e].counter <= tick'[w] + 1
                 /\ at'[w] \notin Ended /\ e \in todo'[w] /\ ~Waits(w, e)' => device'[e].counter <= tick'[w]
      <4>1. CASE e = d
        BY <1>1, <1>5, <1>6, <1>7, <1>8, <1>13, <3>1, <4>1
      <4>2. CASE e # d
        BY <1>1, <1>11, <1>14, <2>2, <3>1, <4>2 DEF WorkInv
      <4> QED
        BY <4>1, <4>2
    <3>3. \A v \in Worker \ {w} : /\ tick'[v] = tick[v] /\ todo'[v] = todo[v] /\ at'[v] = at[v]
                                   /\ \A e \in Mine(v) : device'[e] = device[e]
      BY <1>1, <1>9, <1>12
    <3>4. todo'[w] \subseteq Mine(w)
      BY <3>1
    <3> QED
      BY <1>3, <3>2, <3>3, <3>4, WorkStep
  <2>8. SentInv'
    <3>1. {m} \in SUBSET Reports
      OBVIOUS
    <3>2. device'[d].version >= device[d].version /\ device'[d].counter >= device[d].counter
      BY <1>5, <1>6, <1>7, <1>8
    <3>3. \A v \in Worker, e \in 1..MaxDevices :
            Waits(v, e)' => Waits(v, e) \/ (e = d /\ device'[d].counter > device[d].counter)
      BY <1>10, <2>6
    <3>4. /\ Release[m.version] <= m.tick /\ m.version = device'[d].version
          /\ m.counter = device'[d].counter /\ m.counter = device[d].counter + 1
      BY <1>6, <1>7, <1>8, <2>1
    <3>5. \A v \in Worker : ~Waits(v, d)'
      <4>1. \A v \in Worker \ {w} : d \notin todo[v]
        BY <1>12 DEF WorkInv
      <4> QED
        BY <1>9, <2>6, <4>1 DEF Waits
    <3>6. ASSUME NEW n \in Sent, n.device = d PROVE n.counter < m.counter
      <4>1. n.counter <= device[d].counter /\ n.counter \in Int
        BY <1>2, <3>6, SentType DEF SentInv, Reports
      <4> QED
        BY <1>5, <3>4, <4>1
    <3>7. PICK New \in SUBSET Reports : New = {m}
      BY <3>1
    <3>8. /\ Sent' \subseteq Sent \cup New /\ \A x, y \in New : x = y
          /\ \A x \in New : /\ x.device = d /\ Release[x.version] <= x.tick
                            /\ x.version = device'[d].version /\ x.counter = device'[d].counter
                            /\ \A v \in Worker : ~Waits(v, d)'
                            /\ \A n \in Sent : n.device = d => n.counter < x.counter
      BY <2>1, <2>4, <3>4, <3>5, <3>6, <3>7
    <3>9. d \in 1..MaxDevices /\ program' = program
      BY <1>1
    <3> QED
      BY <1>2, <1>8, <3>2, <3>3, <3>8, <3>9, SentStep
  <2>9. FleetInv'
    <3>1. m \in ReportsOf(Mine(w)) /\ m \in ReportsOf({d}) /\ \A e \in Mine(w) \ {d} : m \notin ReportsOf({e})
      BY <2>1, <2>3 DEF ReportsOf
    <3>2. total'[w] = Total(topic'[w], queue'[w], payloads', lost', repeated', ReportsOf(Mine(w)))
      BY <1>2, <2>2, <2>4, <3>1 DEF FleetInv, TypeInv, Devices
    <3>3. ReportsOf({d})' = ReportsOf({d})
      BY DEF ReportsOf, Reports
    <3>4. Recorded(w, d)'
      <4>1. device[d].counter = Tally(w, ReportsOf({d})) + dropped[d] + 0
        BY <1>1, <1>2, <1>11 DEF FleetInv, Recorded
      <4>2. Tally(w, ReportsOf({d})) \in Int /\ dropped[d] \in Nat
        <5>1. dropped[d] \in Nat
          BY <1>1 DEF TypeInv, Devices
        <5> QED
          BY <1>2, <5>1, TallyType
      <4>3. Tally(w, ReportsOf({d}))' = Tally(w, ReportsOf({d})) + 1
        BY <2>4, <3>1, <3>3 DEF Tally
      <4> QED
        BY <1>1, <1>7, <1>8, <2>6, <4>1, <4>2, <4>3 DEF Recorded
    <3>5. \A v \in Worker : \A e \in Mine(v) \ {d} :
            device'[e].counter = device[e].counter /\ dropped'[e] = dropped[e] /\ (Waits(v, e)' <=> Waits(v, e))
      BY <1>1, <1>10, <1>11, <1>12, <1>14, <2>6
    <3>6. \A e \in Mine(w) \ {d} :
            Total(topic'[w], queue'[w], payloads', lost', repeated', ReportsOf({e})) = Tally(w, ReportsOf({e}))
      <4> SUFFICES ASSUME NEW e \in Mine(w) \ {d}
                   PROVE Total(topic'[w], queue'[w], payloads', lost', repeated', ReportsOf({e}))
                           = Tally(w, ReportsOf({e}))
        OBVIOUS
      <4>1. Tally(w, ReportsOf({e})) \in Int
        BY <1>2, TallyType
      <4>2. Total(topic'[w], queue'[w], payloads', lost', repeated', ReportsOf({e}))
              = Tally(w, ReportsOf({e})) + 0
        BY <2>4, <3>1
      <4> QED
        BY <4>1, <4>2
    <3> QED
      BY <1>1, <1>2, <1>3, <1>9, <2>4, <3>2, <3>4, <3>5, <3>6, FleetStep
  <2> QED
    BY <1>2, <2>4, <2>5, <2>7, <2>8, <2>9
<1>16. CASE ~(Len(queue[w]) < Capacity)
  <2>1. /\ at' = [at EXCEPT ![w] = "full"] /\ UNCHANGED <<queue, todo, total>>
    BY <1>4, <1>16 DEF Goto
  <2>2. at'[w] = "full"
    BY <1>2, <2>1 DEF TypeInv, Base
  <2>3. /\ Channels(Kind)' /\ Mail' /\ Sent' = Sent
        /\ \A v, P : Total(topic'[v], queue'[v], payloads', lost', repeated', P) = Tally(v, P)
    BY <1>1, <1>2, <2>1, StillSame DEF TypeInv
  <2>4. Modes'
    BY <1>1, <1>2, <1>3, <2>1 DEF TypeInv, Modes, Base
  <2>5. Waits(w, d)' /\ \A e : Waits(w, e)' => e = d
    <3>1. \A e : e \in todo[w] /\ (\A x \in todo[w] : e <= x) => e = d
      BY <1>1 DEF TypeInv, Devices
    <3> QED
      BY <1>1, <2>1, <2>2, <3>1 DEF Waits
  <2>6. WorkInv'
    <3>1. ASSUME NEW e \in Mine(w)
          PROVE  /\ Release[device'[e].version] <= tick'[w]
                 /\ device'[e].counter <= tick'[w] + 1
                 /\ at'[w] \notin Ended /\ e \in todo'[w] /\ ~Waits(w, e)' => device'[e].counter <= tick'[w]
      <4>1. CASE e = d
        BY <1>1, <1>5, <1>6, <1>7, <1>8, <1>13, <2>5, <4>1
      <4>2. CASE e # d
        BY <1>1, <1>11, <1>14, <2>1, <4>2 DEF WorkInv, Ended
      <4> QED
        BY <4>1, <4>2
    <3>2. \A v \in Worker \ {w} : /\ tick'[v] = tick[v] /\ todo'[v] = todo[v] /\ at'[v] = at[v]
                                   /\ \A e \in Mine(v) : device'[e] = device[e]
      BY <1>1, <1>9, <1>12
    <3>3. todo'[w] \subseteq Mine(w)
      BY <2>1 DEF WorkInv
    <3> QED
      BY <1>3, <3>1, <3>2, <3>3, WorkStep
  <2>7. SentInv'
    <3>1. device'[d].version >= device[d].version /\ device'[d].counter > device[d].counter
      BY <1>5, <1>6, <1>7, <1>8
    <3>2. \A v \in Worker, e \in 1..MaxDevices :
            Waits(v, e)' => Waits(v, e) \/ (e = d /\ device'[d].counter > device[d].counter)
      BY <1>10, <2>5, <3>1
    <3>3. device'[d].counter >= device[d].counter
      BY <1>5, <1>7, <1>8
    <3>4. PICK New \in SUBSET Reports : New = {}
      OBVIOUS
    <3>5. d \in 1..MaxDevices /\ program' = program
      BY <1>1
    <3> QED
      BY <1>2, <1>8, <2>3, <3>1, <3>2, <3>3, <3>4, <3>5, SentStep
  <2>8. FleetInv'
    <3>1. total'[w] = Total(topic'[w], queue'[w], payloads', lost', repeated', ReportsOf(Mine(w)))
      BY <1>2, <2>1, <2>3 DEF FleetInv
    <3>2. Recorded(w, d)'
      <4>1. ReportsOf({d})' = ReportsOf({d})
        BY DEF ReportsOf, Reports
      <4>2. device[d].counter = Tally(w, ReportsOf({d})) + dropped[d] + 0
        BY <1>1, <1>2, <1>11 DEF FleetInv, Recorded
      <4>3. Tally(w, ReportsOf({d})) + dropped[d] \in Int
        <5>1. dropped[d] \in Nat
          BY <1>1 DEF TypeInv, Devices
        <5> QED
          BY <1>2, <5>1, TallyType
      <4>4. Tally(w, ReportsOf({d}))' = Tally(w, ReportsOf({d}))
        BY <2>3, <4>1 DEF Tally
      <4>5. device'[d].counter = Tally(w, ReportsOf({d})) + dropped[d] + 1
        BY <1>7, <1>8, <4>2, <4>3
      <4> QED
        BY <1>1, <2>5, <4>4, <4>5 DEF Recorded
    <3>3. \A v \in Worker : \A e \in Mine(v) \ {d} :
            device'[e].counter = device[e].counter /\ dropped'[e] = dropped[e] /\ (Waits(v, e)' <=> Waits(v, e))
      BY <1>1, <1>10, <1>11, <1>12, <1>14, <2>5
    <3> QED
      BY <1>1, <1>2, <1>3, <1>9, <2>3, <3>1, <3>2, <3>3, FleetStep
  <2> QED
    BY <1>2, <2>3, <2>4, <2>6, <2>7, <2>8
<1> QED
  BY <1>15, <1>16

LEMMA RetryStep ==
  ASSUME TypeInv, Devices', WorkInv, Mail, SentInv, FleetInv, NEW w \in Worker,
         Retry(w), UNCHANGED <<producerVars, program, consumer>>
  PROVE  /\ program = "scenario" /\ Channels(Kind)' /\ Modes'
         /\ WorkInv' /\ Mail' /\ SentInv' /\ FleetInv'
<1>1. PICK d \in todo[w] :
        /\ Waits(w, d)
        /\ Goto(w, "run") /\ Done(w, d)
        /\ IF Len(queue[w]) < Capacity
           THEN /\ Enqueue(w, Record(w, d, device[d]))
                /\ total' = [total EXCEPT ![w] = @ + 1]
                /\ UNCHANGED dropped
           ELSE dropped' = [dropped EXCEPT ![d] = @ + 1] /\ UNCHANGED <<queue, total>>
        /\ UNCHANGED <<mtlsVars, dirs, topicVars, lost, faults, fleet, tick, device>>
  BY DEF Retry
<1>2. /\ at[w] = "full" /\ d \in Mine(w) /\ d \in 1..MaxDevices /\ \A e \in todo[w] : d <= e
      /\ UNCHANGED <<topic, lost, repeated, payloads, fleet, tick, device, program>>
      /\ at' = [at EXCEPT ![w] = "run"] /\ todo' = [todo EXCEPT ![w] = @ \ {d}]
  BY <1>1 DEF Waits, WorkInv, topicVars, producerVars, TypeInv, Devices, Goto, Done
<1>3. program = "scenario" /\ w \in Process /\ Worker \subseteq Process
  BY <1>2, WorkerRuns DEF Worker, Process
<1>4. Running' = Running /\ (\A v : Mine(v)' = Mine(v)) /\ \A v : Mine(v) \subseteq 1..MaxDevices
  BY <1>2, <1>3, ScenarioSame DEF Mine, Chunk, TypeInv, Devices
<1>5. device[d] \in DeviceState /\ device[d].counter \in Nat /\ device[d].version \in Int
  <2>1. device \in [1..MaxDevices -> DeviceState]
    BY DEF TypeInv, Devices
  <2> QED
    BY <1>2, <2>1, DeviceTypes
<1>6. \A v \in Worker \ {w} : at'[v] = at[v] /\ todo'[v] = todo[v]
  BY <1>2, <1>3 DEF TypeInv, Base, Devices
<1>7. \A v \in Worker \ {w} : \A e : Waits(v, e)' <=> Waits(v, e)
  BY <1>6 DEF Waits
<1>8. at'[w] = "run" /\ (\A e : ~Waits(w, e)') /\ \A e : Waits(w, e) => e = d
  <2>1. at'[w] = "run"
    BY <1>2, <1>3 DEF TypeInv, Base
  <2>2. \A e : Waits(w, e) => e = d
    BY <1>2, OneWaits DEF TypeInv
  <2> QED
    BY <2>1, <2>2 DEF Waits
<1>9. \A v \in Worker \ {w} : d \notin Mine(v)
  BY <1>2, MineDisjoint
<1>10. WorkInv'
  <2>1. todo'[w] = todo[w] \ {d} /\ todo[w] \subseteq Mine(w)
    BY <1>2 DEF TypeInv, Devices, WorkInv
  <2>2. ASSUME NEW e \in Mine(w)
        PROVE  /\ Release[device'[e].version] <= tick'[w]
               /\ device'[e].counter <= tick'[w] + 1
               /\ at'[w] \notin Ended /\ e \in todo'[w] /\ ~Waits(w, e)' => device'[e].counter <= tick'[w]
    <3>1. at[w] \notin Ended
      BY <1>2 DEF Ended
    <3>2. e \in todo'[w] => e \in todo[w] /\ ~Waits(w, e)
      BY <1>8, <2>1
    <3> QED
      BY <1>2, <3>1, <3>2 DEF WorkInv
  <2>3. \A v \in Worker \ {w} : /\ tick'[v] = tick[v] /\ todo'[v] = todo[v] /\ at'[v] = at[v]
                                 /\ \A e \in Mine(v) : device'[e] = device[e]
    BY <1>2, <1>6
  <2>4. todo'[w] \subseteq Mine(w)
    BY <2>1
  <2> QED
    BY <1>4, <2>2, <2>3, <2>4, WorkStep
<1>11. \A v \in Worker, e \in 1..MaxDevices :
         Waits(v, e)' => Waits(v, e) \/ (e = d /\ device'[d].counter > device[d].counter)
  BY <1>7, <1>8
<1>12. ASSUME NEW v \in Worker, NEW e \in Mine(v) \ {d}
       PROVE  /\ device'[e].counter = device[e].counter /\ dropped'[e] = dropped[e]
              /\ Waits(v, e)' <=> Waits(v, e)
  <2>1. e \in 1..MaxDevices /\ e # d
    BY <1>4
  <2>2. dropped' = dropped \/ dropped' = [dropped EXCEPT ![d] = @ + 1]
    BY <1>1
  <2>3. dropped'[e] = dropped[e]
    BY <2>1, <2>2 DEF TypeInv, Devices
  <2> QED
    BY <1>2, <1>7, <1>8, <2>1, <2>3
<1>13. ReportsOf({d})' = ReportsOf({d})
  BY DEF ReportsOf, Reports
<1>14. device[d].counter = Tally(w, ReportsOf({d})) + dropped[d] + 1
  BY <1>1, <1>2, <1>3 DEF FleetInv, Recorded
<1>15. Tally(w, ReportsOf({d})) \in Int /\ dropped[d] \in Nat
  <2>1. dropped[d] \in Nat
    BY <1>2 DEF TypeInv, Devices
  <2> QED
    BY <1>3, <2>1, TallyType
<1>16. CASE Len(queue[w]) < Capacity
  <2>1. PICK m \in Reports : /\ m = Record(w, d, device[d]) /\ m.device = d
                             /\ m.version = device[d].version /\ m.counter = device[d].counter
                             /\ m.tick = tick[w]
    BY <1>2, <1>5, RecordType DEF TypeInv
  <2>2. /\ queue' = [queue EXCEPT ![w] = Append(@, m)] /\ dropped' = dropped
        /\ total' = [total EXCEPT ![w] = @ + 1]
    BY <1>1, <1>16, <2>1 DEF Enqueue
  <2>3. m.device \in Mine(w)
    BY <1>2, <2>1
  <2>4. /\ Channels(Kind)' /\ Mail' /\ Sent' \subseteq Sent \cup {m}
        /\ \A o \in Process : Len(queue'[o]) <= Capacity
        /\ \A v \in Worker \ {w} : \A P :
             Total(topic'[v], queue'[v], payloads', lost', repeated', P) = Tally(v, P)
        /\ \A P : Total(topic'[w], queue'[w], payloads', lost', repeated', P)
                   = Tally(w, P) + (IF m \in P THEN 1 ELSE 0)
    BY <1>2, <1>3, <1>16, <2>2, <2>3, ReportQueued
  <2>5. Modes'
    BY <1>2, <1>3, <1>4, <1>6, <2>4 DEF TypeInv, Modes, Base
  <2>6. SentInv'
    <3>1. PICK New \in SUBSET Reports : New = {m}
      OBVIOUS
    <3>2. device'[d].version >= device[d].version /\ device'[d].counter >= device[d].counter
      BY <1>2, <1>5
    <3>3. /\ Release[m.version] <= m.tick /\ m.version = device'[d].version
          /\ m.counter = device'[d].counter
      BY <1>2, <2>1 DEF WorkInv
    <3>4. \A v \in Worker : ~Waits(v, d)'
      <4>1. \A v \in Worker \ {w} : d \notin todo[v]
        BY <1>9 DEF WorkInv
      <4> QED
        BY <1>6, <1>8, <4>1 DEF Waits
    <3>5. ASSUME NEW n \in Sent, n.device = d PROVE n.counter < m.counter
      BY <1>1, <1>3, <2>1, <3>5 DEF SentInv
    <3>6. /\ Sent' \subseteq Sent \cup New /\ \A x, y \in New : x = y
          /\ \A x \in New : /\ x.device = d /\ Release[x.version] <= x.tick
                            /\ x.version = device'[d].version /\ x.counter = device'[d].counter
                            /\ \A v \in Worker : ~Waits(v, d)'
                            /\ \A n \in Sent : n.device = d => n.counter < x.counter
      BY <2>1, <2>4, <3>1, <3>3, <3>4, <3>5
    <3>7. /\ d \in 1..MaxDevices /\ program' = program
          /\ \A e \in 1..MaxDevices \ {d} : device'[e] = device[e]
      BY <1>2
    <3> QED
      BY <1>3, <1>11, <3>2, <3>6, <3>7, SentStep
  <2>7. FleetInv'
    <3>1. m \in ReportsOf(Mine(w)) /\ m \in ReportsOf({d}) /\ \A e \in Mine(w) \ {d} : m \notin ReportsOf({e})
      BY <2>1, <2>3 DEF ReportsOf
    <3>2. total'[w] = Total(topic'[w], queue'[w], payloads', lost', repeated', ReportsOf(Mine(w)))
      BY <1>3, <2>2, <2>4, <3>1 DEF FleetInv, TypeInv, Devices
    <3>3. Tally(w, ReportsOf({d}))' = Tally(w, ReportsOf({d})) + 1
      BY <1>13, <2>4, <3>1 DEF Tally
    <3>4. Recorded(w, d)'
      BY <1>2, <1>8, <1>14, <1>15, <2>2, <3>3 DEF Recorded
    <3>5. ASSUME NEW e \in Mine(w) \ {d}
          PROVE Total(topic'[w], queue'[w], payloads', lost', repeated', ReportsOf({e}))
                           = Tally(w, ReportsOf({e}))
      <4>1. Tally(w, ReportsOf({e})) \in Int
        BY <1>3, TallyType
      <4>2. Total(topic'[w], queue'[w], payloads', lost', repeated', ReportsOf({e}))
              = Tally(w, ReportsOf({e})) + 0
        BY <2>4, <3>1
      <4> QED
        BY <4>1, <4>2
    <3>6. \A v \in Worker \ {w} : total'[v] = total[v]
      BY <2>2 DEF TypeInv, Devices
    <3>7. \A v \in Worker \ {w} : \A P \in SUBSET ReportsOf(Mine(v)) :
            Total(topic'[v], queue'[v], payloads', lost', repeated', P) = Tally(v, P)
      BY <2>4
    <3> QED
      BY <1>2, <1>3, <1>4, <1>12, <3>2, <3>4, <3>5, <3>6, <3>7, FleetStep
  <2> QED
    BY <1>3, <1>10, <2>4, <2>5, <2>6, <2>7
<1>17. CASE ~(Len(queue[w]) < Capacity)
  <2>1. dropped' = [dropped EXCEPT ![d] = @ + 1] /\ UNCHANGED <<queue, total>>
    BY <1>1, <1>17
  <2>2. /\ Channels(Kind)' /\ Mail' /\ Sent' = Sent
        /\ \A v, P : Total(topic'[v], queue'[v], payloads', lost', repeated', P) = Tally(v, P)
    BY <1>2, <1>3, <2>1, StillSame DEF TypeInv
  <2>3. Modes'
    BY <1>2, <1>3, <1>4, <2>1 DEF TypeInv, Modes, Base
  <2>4. SentInv'
    <3>1. PICK New \in SUBSET Reports : New = {}
      OBVIOUS
    <3>2. device'[d].version >= device[d].version /\ device'[d].counter >= device[d].counter
      BY <1>2, <1>5
    <3>3. /\ d \in 1..MaxDevices /\ program' = program
          /\ \A e \in 1..MaxDevices \ {d} : device'[e] = device[e]
      BY <1>2
    <3> QED
      BY <1>3, <1>11, <2>2, <3>1, <3>2, <3>3, SentStep
  <2>5. FleetInv'
    <3>1. total'[w] = Total(topic'[w], queue'[w], payloads', lost', repeated', ReportsOf(Mine(w)))
      BY <1>3, <2>1, <2>2 DEF FleetInv
    <3>2. Tally(w, ReportsOf({d}))' = Tally(w, ReportsOf({d})) /\ dropped'[d] = dropped[d] + 1
      BY <1>2, <1>13, <2>1, <2>2 DEF Tally, TypeInv, Devices
    <3>3. Recorded(w, d)'
      BY <1>2, <1>8, <1>14, <1>15, <3>2 DEF Recorded
    <3> QED
      BY <1>2, <1>3, <1>4, <1>12, <2>1, <2>2, <3>1, <3>3, FleetStep
  <2> QED
    BY <1>3, <1>10, <2>2, <2>3, <2>4, <2>5
<1> QED
  BY <1>16, <1>17

LEMMA NextTickStep ==
  ASSUME TypeInv, Devices', WorkInv, Mail, SentInv, FleetInv, NEW w \in Worker,
         NextTick(w), UNCHANGED <<producerVars, program, consumer>>
  PROVE  /\ program = "scenario" /\ Channels(Kind)' /\ Modes'
         /\ WorkInv' /\ Mail' /\ SentInv' /\ FleetInv'
<1>1. /\ at[w] = "run" /\ todo[w] = {}
      /\ UNCHANGED <<queue, topic, lost, repeated, payloads, fleet, device, total, dropped, program>>
      /\ \/ /\ tick' = [tick EXCEPT ![w] = @ + 1] /\ todo' = [todo EXCEPT ![w] = Mine(w)]
            /\ UNCHANGED at
         \/ at' = [at EXCEPT ![w] = "flush"] /\ UNCHANGED <<tick, todo>>
  BY DEF NextTick, Goto, topicVars, producerVars
<1>2. program = "scenario" /\ w \in Process /\ Worker \subseteq Process
  BY <1>1, WorkerRuns DEF Worker, Process
<1>3. Running' = Running /\ (\A v : Mine(v)' = Mine(v)) /\ \A v : Mine(v) \subseteq 1..MaxDevices
  BY <1>1, <1>2, ScenarioSame DEF Mine, Chunk, TypeInv, Devices
<1>4. \A v \in Worker \ {w} : at'[v] = at[v] /\ todo'[v] = todo[v] /\ tick'[v] = tick[v]
  BY <1>1, <1>2 DEF TypeInv, Base, Devices
<1>5. at'[w] \in {"run", "flush"}
  BY <1>1, <1>2 DEF TypeInv, Base
<1>6. \A v \in Worker : \A e : Waits(v, e)' <=> Waits(v, e)
  BY <1>1, <1>4, <1>5 DEF Waits
<1>7. /\ Channels(Kind)' /\ Mail' /\ Sent' = Sent
      /\ \A v, P : Total(topic'[v], queue'[v], payloads', lost', repeated', P) = Tally(v, P)
  BY <1>1, <1>2, StillSame DEF TypeInv
<1>8. Modes'
  BY <1>1, <1>2, <1>3 DEF TypeInv, Modes, Base
<1>9. WorkInv'
  <2>1. tick[w] \in Nat /\ ((tick'[w] = tick[w] /\ todo'[w] = {}) \/ (tick'[w] = tick[w] + 1 /\ todo'[w] = Mine(w)))
    BY <1>1 DEF TypeInv, Devices
  <2>2. ASSUME NEW e \in Mine(w)
        PROVE  /\ Release[device'[e].version] <= tick'[w]
               /\ device'[e].counter <= tick'[w] + 1
               /\ at'[w] \notin Ended /\ e \in todo'[w] /\ ~Waits(w, e)' => device'[e].counter <= tick'[w]
    <3>1. /\ Release[device[e].version] <= tick[w] /\ device[e].counter <= tick[w] + 1
      BY DEF WorkInv
    <3>2. device[e].version \in 1..Versions /\ device[e].counter \in Nat
      BY <1>3, DeviceTypes DEF TypeInv, Devices
    <3>3. Release[device[e].version] \in Int
      BY <3>2, UpdateScenarioAssumption
    <3> QED
      BY <1>1, <2>1, <3>1, <3>2, <3>3
  <2>3. todo'[w] \subseteq Mine(w)
    BY <2>1
  <2>4. \A v \in Worker \ {w} : /\ tick'[v] = tick[v] /\ todo'[v] = todo[v] /\ at'[v] = at[v]
                                 /\ \A e \in Mine(v) : device'[e] = device[e]
    BY <1>1, <1>4
  <2> QED
    BY <1>3, <2>2, <2>3, <2>4, WorkStep
<1>10. SentInv'
  BY <1>1, <1>6, <1>7 DEF SentInv
<1>11. FleetInv'
  <2>1. \A D : ReportsOf(D)' = ReportsOf(D)
    BY DEF ReportsOf, Reports
  <2> SUFFICES ASSUME NEW v \in Worker
               PROVE  /\ total'[v] = Tally(v, ReportsOf(Mine(v)))'
                      /\ \A e \in Mine(v) : Recorded(v, e)'
    BY <1>3 DEF FleetInv
  <2>2. ReportsOf(Mine(v))' = ReportsOf(Mine(v))
    BY <1>3 DEF ReportsOf, Reports
  <2>3. ASSUME NEW e \in Mine(v) PROVE Recorded(v, e)'
    <3>1. ReportsOf({e})' = ReportsOf({e})
      BY DEF ReportsOf, Reports
    <3> QED
      BY <1>1, <1>2, <1>6, <1>7, <3>1 DEF FleetInv, Recorded, Tally
  <2> QED
    BY <1>1, <1>2, <1>7, <2>2, <2>3 DEF FleetInv, Tally
<1> QED
  BY <1>2, <1>7, <1>8, <1>9, <1>10, <1>11

LEMMA KillWorkerStep ==
  ASSUME TypeInv, Devices', WorkInv, Mail, SentInv, FleetInv, NEW w \in Worker,
         KillWorker(w), UNCHANGED <<producerVars, program, consumer>>
  PROVE  /\ program = "scenario" /\ Channels(Kind)' /\ Modes'
         /\ WorkInv' /\ Mail' /\ SentInv' /\ FleetInv'
<1>1. /\ at[w] \in {"fetch", "run", "full", "flush"}
      /\ UNCHANGED <<topic, repeated, payloads, fleet, tick, todo, device, total, program>>
      /\ dropped' = [d \in 1..MaxDevices |-> dropped[d] + (IF Waits(w, d) THEN 1 ELSE 0)]
      /\ at' = [at EXCEPT ![w] = "killed"] /\ queue' = [queue EXCEPT ![w] = <<>>]
      /\ lost' = lost \o queue[w] \o <<>>
  BY DEF KillWorker, End, Goto, topicVars, producerVars
<1>2. program = "scenario" /\ w \in Process /\ Worker \subseteq Process /\ payloads = <<>>
  BY <1>1, WorkerRuns DEF Worker, Process
<1>3. /\ Running' = Running /\ (\A v : Mine(v)' = Mine(v)) /\ \A v : Mine(v) \subseteq 1..MaxDevices
      /\ Kind' = Kind
  BY <1>1, <1>2 DEF Mine, Chunk, TypeInv, Devices, Running, Active, Kind, Reports
<1>4. Flows(w, Kind) /\ queue'[w] = <<>>
  BY <1>1, <1>2, EndFlows DEF TypeInv
<1>5. Channels(Kind)'
  BY <1>3, <1>4 DEF Flows, Channels
<1>6. \A v \in Worker \ {w} : at'[v] = at[v]
  BY <1>1, <1>2 DEF TypeInv, Base
<1>7. at'[w] = "killed"
  BY <1>1, <1>2 DEF TypeInv, Base
<1>8. (\A v \in Worker \ {w} : \A e : Waits(v, e)' <=> Waits(v, e)) /\ \A e : ~Waits(w, e)'
  BY <1>1, <1>6, <1>7 DEF Waits
<1>9. Modes'
  BY <1>1, <1>2, <1>3, <1>4, EmptyFits DEF TypeInv, Modes, Base, Flows
<1>10. WorkInv'
  <2>1. \A v \in Worker \ {w} : /\ tick'[v] = tick[v] /\ todo'[v] = todo[v] /\ at'[v] = at[v]
                                 /\ \A e \in Mine(v) : device'[e] = device[e]
    BY <1>1, <1>6
  <2>2. todo'[w] \subseteq Mine(w)
    BY <1>1 DEF WorkInv
  <2>3. ASSUME NEW e \in Mine(w)
        PROVE  /\ Release[device'[e].version] <= tick'[w]
               /\ device'[e].counter <= tick'[w] + 1
               /\ at'[w] \notin Ended /\ e \in todo'[w] /\ ~Waits(w, e)' => device'[e].counter <= tick'[w]
    BY <1>1, <1>7 DEF WorkInv, Ended
  <2> QED
    BY <1>3, <2>1, <2>2, <2>3, WorkStep
<1>11. Mail'
  <2> SUFFICES ASSUME NEW v \in Worker, NEW m \in ToSet(queue'[v]) \cup ToSet(topic'[v])
               PROVE  m.device \in Mine(v)
    BY <1>1, <1>3 DEF Mail
  <2>1. ToSet(payloads) = {} /\ ToSet(<<>>) = {}
    BY <1>2, EmptyToSet
  <2>2. m \in ToSet(queue[v]) \cup ToSet(topic[v])
    BY <1>1, <1>2, <1>4, <2>1 DEF Flows
  <2> QED
    BY <1>2, <2>2 DEF Mail
<1>12. SentInv'
  <2>1. ToSet(payloads) = {} /\ ToSet(<<>>) = {}
    BY <1>2, EmptyToSet
  <2>2. \A v \in Worker : ToSet(topic'[v]) \cup ToSet(queue'[v]) \subseteq ToSet(topic[v]) \cup ToSet(queue[v])
    BY <1>1, <1>2, <1>4, <2>1 DEF Flows
  <2>3. ToSet(lost') \subseteq ToSet(lost) \cup ToSet(queue[w])
    BY <1>4, <2>1 DEF Flows
  <2>4. Sent' \subseteq Sent
    BY <2>2, <2>3 DEF Sent
  <2>5. \A v \in Worker : \A e : Waits(v, e)' => Waits(v, e)
    BY <1>8
  <2> QED
    BY <1>1, <1>2, <2>4, <2>5 DEF SentInv
<1>13. FleetInv'
  <2> SUFFICES ASSUME NEW v \in Worker
               PROVE  /\ total'[v] = Tally(v, ReportsOf(Mine(v)))'
                      /\ \A e \in Mine(v) : Recorded(v, e)'
    BY <1>3 DEF FleetInv
  <2>1. payloads' = payloads
    BY <1>1
  <2>2. \A P \in SUBSET ReportsOf(Mine(v)) :
          Total(topic'[v], queue'[v], payloads', lost', repeated', P) = Tally(v, P)
    BY <1>2, <1>4, <2>1, ForeignTally
  <2>3. ReportsOf(Mine(v))' = ReportsOf(Mine(v)) /\ ReportsOf(Mine(v)) \in SUBSET ReportsOf(Mine(v))
    BY <1>3 DEF ReportsOf, Reports
  <2>4. ASSUME NEW e \in Mine(v) PROVE Recorded(v, e)'
    <3>1. ReportsOf({e})' = ReportsOf({e}) /\ ReportsOf({e}) \in SUBSET ReportsOf(Mine(v))
      BY OwnReports DEF ReportsOf, Reports
    <3>2. Tally(v, ReportsOf({e}))' = Tally(v, ReportsOf({e}))
      BY <2>2, <3>1 DEF Tally
    <3>3. Tally(v, ReportsOf({e})) \in Int /\ dropped[e] \in Nat /\ e \in 1..MaxDevices
      <4>1. e \in 1..MaxDevices
        BY <1>3
      <4>2. dropped[e] \in Nat
        BY <4>1 DEF TypeInv, Devices
      <4> QED
        BY <1>2, <4>1, <4>2, TallyType
    <3>4. device[e].counter = Tally(v, ReportsOf({e})) + dropped[e] + (IF Waits(v, e) THEN 1 ELSE 0)
      BY <1>2 DEF FleetInv, Recorded
    <3>5. dropped'[e] = dropped[e] + (IF Waits(w, e) THEN 1 ELSE 0)
      BY <1>1, <3>3
    <3>6. CASE v = w
      BY <1>1, <1>8, <3>2, <3>3, <3>4, <3>5, <3>6 DEF Recorded
    <3>7. CASE v # w
      <4>1. ~Waits(w, e)
        BY <3>7, MineDisjoint DEF Waits, WorkInv
      <4> QED
        BY <1>1, <1>8, <3>2, <3>3, <3>4, <3>5, <3>7, <4>1 DEF Recorded
    <3> QED
      BY <3>6, <3>7
  <2>5. total'[v] = Tally(v, ReportsOf(Mine(v)))'
    BY <1>1, <1>2, <2>2, <2>3 DEF FleetInv, Tally
  <2> QED
    BY <2>4, <2>5
<1> QED
  BY <1>2, <1>5, <1>9, <1>10, <1>11, <1>12, <1>13

-----------------------------------------------------------------------------
(* The inductive invariant.                                                *)

IInv ==
  /\ TypeInv
  /\ Accounts /\ Consumed /\ Printed
  /\ WorkInv /\ Mail /\ SentInv /\ FleetInv

LEMMA ProducerRuns ==
  ASSUME TypeInv, at[Producer] # "absent"
  PROVE  program = "producer"
BY KafkaClientAssumption DEF TypeInv, Modes, Base, Running, Active, Worker, Producer, Process

LEMMA ActingProcesses ==
  /\ Acting \subseteq Process /\ Running \subseteq Acting /\ Acting # {} /\ Worker \subseteq Process
  /\ Producer \in Process /\ Producer \notin Worker
BY KafkaClientAssumption DEF Acting, Running, Active, Worker, Producer, Process

LEMMA QuietStep ==
  ASSUME IInv, Base', Secrets', Devices', NEW p \in Acting, Quiet(p)
  PROVE  IInv'
<1>1. p \in Process
  BY ActingProcesses
<1>2. Channels(Kind)' /\ Modes'
  BY <1>1, QuietKind, QuietModes DEF IInv, TypeInv
<1>3. Accounts' /\ WorkInv' /\ Mail' /\ SentInv' /\ FleetInv'
  BY <1>1, QuietAccounts, QuietWork, QuietMail, QuietSent, QuietFleet DEF IInv
<1>4. Consumed' /\ Printed'
  BY <1>1, QuietPrinted DEF IInv, TypeInv
<1> QED
  BY <1>2, <1>3, <1>4 DEF IInv, TypeInv

\* What the consumer has depends on the topic of the producer alone.
LEMMA PrintedStays ==
  ASSUME Printed, consumer' = consumer, topic'[Producer] = topic[Producer]
  PROVE  Printed'
BY DEF Printed

LEMMA QueryStep ==
  ASSUME IInv, NEW q \in due, RunEventQuery(q) \/ RunSnapshotQuery(q),
         UNCHANGED <<scenarioVars, program, consumer>>
  PROVE  IInv'
<1>1. at[Producer] = "round" /\ UNCHANGED <<clientVars, life>>
  BY DEF RunEventQuery, RunSnapshotQuery, Ready
<1>2. program = "producer"
  BY <1>1, ProducerRuns DEF IInv
<1>3. Channels(Kind)' /\ Accounts'
  BY <1>2, EventQueryAccounts, SnapshotQueryAccounts DEF IInv
<1>4. Base' /\ Secrets'
  BY ProducerBase DEF IInv, TypeInv
<1>5. Devices' /\ WorkInv' /\ Mail' /\ SentInv' /\ FleetInv'
  <2>1. \A w \in Worker : at'[w] = at[w]
    BY <1>1 DEF clientVars
  <2> QED
    BY <1>2, <2>1, ProducerElsewhere DEF IInv, TypeInv
<1>6. Modes'
  BY <1>1, <1>2 DEF IInv, TypeInv, Modes, Running, clientVars
<1>7. Consumed' /\ Printed'
  <2>1. Kind' = Kind
    BY <1>1, <1>2 DEF Kind, EventsUpTo
  <2>2. Consumed'
    BY <2>1 DEF Consumed, IInv
  <2> QED
    BY <1>1, <2>2, PrintedStays DEF IInv, clientVars, topicVars
<1> QED
  BY <1>3, <1>4, <1>5, <1>6, <1>7 DEF IInv, TypeInv

LEMMA RestartStep ==
  ASSUME IInv, Restart, UNCHANGED <<scenarioVars, program, consumer>>
  PROVE  IInv'
<1>1. program = "producer" /\ Channels(Kind)' /\ Consumed' /\ Accounts'
  BY RestartAccounts DEF IInv
<1>2. Base' /\ Secrets'
  BY ProducerBase DEF IInv, TypeInv
<1>3. at' = [at EXCEPT ![Producer] = "off"] /\ at \in [Process -> Places]
      /\ UNCHANGED <<queue, topic, payloads>>
  BY DEF Restart, Goto, IInv, TypeInv, Base, topicVars
<1>4. Devices' /\ WorkInv' /\ Mail' /\ SentInv' /\ FleetInv'
  <2>1. \A w \in Worker : at'[w] = at[w]
    BY <1>3, ActingProcesses
  <2> QED
    BY <1>1, <2>1, ProducerElsewhere DEF IInv, TypeInv
<1>5. Modes'
  <2>1. Producer \in Running /\ Running' = Running
    BY <1>1 DEF Running
  <2>2. \A p \in Process : at'[p] = IF p = Producer THEN "off" ELSE at[p]
    BY <1>3
  <2> QED
    BY <1>1, <1>3, <2>1, <2>2 DEF IInv, TypeInv, Modes
<1>6. Printed'
  BY <1>3, PrintedStays DEF IInv
<1> QED
  BY <1>1, <1>2, <1>4, <1>5, <1>6 DEF IInv, TypeInv

LEMMA ConsumerStep ==
  ASSUME IInv, OnAssign \/ ConsumerPoll,
         UNCHANGED <<clientVars, producerVars, scenarioVars, program>>
  PROVE  IInv'
<1>1. Kind' = Kind
  BY DEF Kind, EventsUpTo, Reports, producerVars
<1>2. PICK t \in Seq(Kind) : t = topic[Producer]
  BY ActingProcesses DEF IInv, TypeInv, Channels, Holds
<1>3. topic'[Producer] = t /\ Len(t) \in Nat
  BY <1>2, LenProperties DEF clientVars, topicVars
<1>4. Consumed' /\ Printed'
  <2>1. CASE OnAssign
    <3>1. /\ consumer' = [from |-> Len(t), next |-> Len(t), printed |-> <<>>,
                          assigns |-> consumer.assigns + 1]
          /\ consumer.assigns \in Nat
      BY <1>2, <2>1 DEF OnAssign, IInv, Consumed
    <3>2. Consumed'
      BY <1>1, <1>3, <3>1, EmptySeq DEF Consumed
    <3> QED
      BY <1>3, <3>1, <3>2, EmptySeq DEF Printed
  <2>2. CASE ConsumerPoll
    <3>1. PICK n \in Nat, f \in Nat, s \in Seq(Kind), a \in Nat :
            n = consumer.next /\ f = consumer.from /\ s = consumer.printed /\ a = consumer.assigns
      BY DEF IInv, Consumed
    <3>2. /\ f <= n /\ n < Len(t) /\ Len(s) = n - f
          /\ \A i \in 1..Len(s) : s[i] = t[f + i]
      BY <1>2, <2>2, <3>1 DEF IInv, Printed, ConsumerPoll
    <3>3. t[n + 1] \in Kind
      BY <1>3, <3>2, ElementOfSeq
    <3>4. /\ Append(s, t[n + 1]) \in Seq(Kind) /\ Len(Append(s, t[n + 1])) = Len(s) + 1
          /\ \A i \in 1..(Len(s) + 1) : Append(s, t[n + 1])[i] = IF i <= Len(s) THEN s[i] ELSE t[n + 1]
      BY <3>3, AppendProperties, LenProperties
    <3>5. consumer' = [from |-> f, next |-> n + 1, printed |-> Append(s, t[n + 1]), assigns |-> a]
      BY <1>2, <2>2, <3>1 DEF IInv, Consumed, ConsumerPoll
    <3>6. Consumed'
      BY <1>1, <3>4, <3>5 DEF Consumed
    <3>7. ASSUME NEW i \in 1..(n + 1 - f) PROVE Append(s, t[n + 1])[i] = t[f + i]
      <4>1. i \in Nat /\ f + Len(s) = n /\ Len(s) \in Nat /\ i <= Len(s) + 1
        BY <3>2, LenProperties
      <4>2. CASE i <= Len(s)
        BY <3>2, <3>4, <4>1, <4>2
      <4>3. CASE i = Len(s) + 1
        <5>1. f + i = n + 1
          BY <4>1, <4>3
        <5> QED
          BY <3>4, <4>1, <4>3, <5>1
      <4> QED
        BY <4>1, <4>2, <4>3
    <3>8. /\ consumer'.from = f /\ consumer'.next = n + 1 /\ consumer'.printed = Append(s, t[n + 1])
          /\ Len(consumer'.printed) = n + 1 - f
      BY <3>2, <3>4, <3>5
    <3> QED
      BY <1>3, <3>2, <3>6, <3>7, <3>8 DEF Printed
  <2> QED
    BY <2>1, <2>2
<1>5. Channels(Kind)'
  BY <1>1 DEF IInv, TypeInv, Channels, clientVars, topicVars, producerVars
<1>6. Secrets' /\ Base' /\ Devices' /\ Modes'
  <2>1. Running' = Running
    BY DEF Running, Active, scenarioVars
  <2> QED
    BY <2>1 DEF IInv, TypeInv, Secrets, Base, Devices, Modes, clientVars, mtlsVars, topicVars,
                producerVars, scenarioVars
<1>7. Accounts'
  BY ZenonT(30) DEF IInv, Accounts, Tally, EventsOf, Numbered, EventsUpTo, clientVars, topicVars, producerVars
<1>8. \A w : Mine(w)' = Mine(w)
  BY DEF Mine, scenarioVars
<1>9. WorkInv'
  BY <1>8 DEF IInv, WorkInv, Waits, clientVars, scenarioVars
<1>10. Mail' /\ SentInv'
  <2>1. Sent' = Sent
    BY DEF Sent, clientVars, topicVars
  <2> QED
    BY <1>8, <2>1 DEF IInv, Mail, SentInv, Waits, clientVars, topicVars, scenarioVars
<1>11. FleetInv'
  BY ZenonT(30), <1>8 DEF IInv, FleetInv, Recorded, Tally, ReportsOf, Waits, Reports,
              clientVars, topicVars, producerVars, scenarioVars
<1> QED
  BY <1>4, <1>5, <1>6, <1>7, <1>9, <1>10, <1>11 DEF IInv, TypeInv

LEMMA WorkerStep ==
  ASSUME IInv, NEW w \in Worker, UNCHANGED <<producerVars, program, consumer>>,
         WorkerSteps(w) \/ KillWorker(w)
  PROVE  IInv'
<1>1. Base' /\ Secrets'
  BY WorkerBase DEF IInv, TypeInv, WorkerSteps
<1>2. CASE WorkerDone(w)
  <2>1. Quiet(w)
    BY <1>2, WorkerDoneQuiet DEF IInv
  <2>2. Devices'
    BY <1>2 DEF WorkerDone, scenarioVars, Devices, DeviceState, IInv, TypeInv
  <2>3. w \in Acting
    BY <1>2, WorkerRuns DEF IInv, WorkerDone, Acting
  <2> QED
    BY <1>1, <2>1, <2>2, <2>3, QuietStep
<1>3. CASE ~WorkerDone(w)
  <2>1. Devices'
    BY <1>3, WorkerDevices DEF IInv, TypeInv, WorkerSteps
  <2>2. /\ program = "scenario" /\ Channels(Kind)' /\ Modes'
        /\ WorkInv' /\ Mail' /\ SentInv' /\ FleetInv'
    BY <1>3, <2>1, NoEventStep, CheckInStep, RetryStep, NextTickStep, KillWorkerStep
       DEF IInv, WorkerSteps
  <2>3. fleet' = fleet /\ topic'[Producer] = topic[Producer]
    BY <1>3 DEF WorkerSteps, NoEvent, CheckIn, Retry, NextTick, KillWorker, clientVars, topicVars
  <2>4. Consumed' /\ Printed' /\ Accounts'
    BY <2>2, <2>3, ScenarioSame, PrintedStays DEF IInv, Accounts
  <2> QED
    BY <1>1, <2>1, <2>2, <2>4 DEF IInv, TypeInv
<1> QED
  BY <1>2, <1>3

LEMMA ClientStep ==
  ASSUME IInv, UNCHANGED <<producerVars, scenarioVars, program, consumer>>,
         \/ Renew
         \/ \E p \in Running : \/ Mtls(p) \/ Deliver(p) \/ FetchFails(p) \/ Overtake(p)
                               \/ Repeat(p) \/ Expire(p)
  PROVE  IInv'
<1>1. Devices'
  BY DEF scenarioVars, Devices, IInv, TypeInv
<1>2. CASE Renew
  <2>1. PICK p \in Acting : p \in Process
    BY ActingProcesses
  <2>2. Quiet(p) /\ Base' /\ Secrets'
    BY <1>2, <2>1, RenewQuiet, ClientBase DEF IInv, TypeInv
  <2> QED
    BY <1>1, <2>1, <2>2, QuietStep
<1>3. ASSUME NEW p \in Running,
             \/ Launch(p) \/ Connect(p) \/ Deliver(p) \/ FetchFails(p) \/ Overtake(p)
             \/ Repeat(p) \/ Expire(p)
      PROVE  IInv'
  <2>1. p \in Acting /\ p \in Process
    BY ActingProcesses
  <2>2. Quiet(p)
    BY <1>3, ClientQuiet DEF IInv
  <2>3. Base' /\ Secrets'
    BY <1>3, <2>1, ClientBase DEF IInv, TypeInv
  <2> QED
    BY <1>1, <2>1, <2>2, <2>3, QuietStep
<1> QED
  BY <1>2, <1>3 DEF Mtls

LEMMA ProducerStep ==
  ASSUME IInv, UNCHANGED <<scenarioVars, program, consumer>>,
         \/ ProducerSteps \/ Stop \/ KillProducer \/ Restart
         \/ \E q \in due : QueryFails(q) \/ QueryDies(q)
  PROVE  IInv'
<1>1. ASSUME NEW q \in due, RunEventQuery(q) \/ RunSnapshotQuery(q)
      PROVE  IInv'
  BY <1>1, QueryStep
<1>2. CASE Restart
  BY <1>2, RestartStep
<1>3. CASE \/ StartRound \/ EndRound \/ LeaveLoop \/ Flush \/ Produce \/ Stop \/ KillProducer
           \/ \E q \in due : QueryFails(q) \/ QueryDies(q)
  <2>1. Quiet(Producer) /\ Base' /\ Secrets'
    BY <1>3, ProducerQuiet, ProducerBase DEF IInv, TypeInv
  <2>2. at[Producer] # "absent"
    BY <1>3 DEF StartRound, EndRound, LeaveLoop, Flush, Produce, Stop, KillProducer, QueryFails,
                QueryDies, Ready
  <2>3. Producer \in Acting
    BY <2>2, ProducerRuns DEF IInv, Acting
  <2>4. Devices'
    BY DEF scenarioVars, Devices, IInv, TypeInv
  <2> QED
    BY <2>1, <2>3, <2>4, QuietStep
<1> QED
  BY <1>1, <1>2, <1>3 DEF ProducerSteps

LEMMA StutterStep ==
  ASSUME IInv, UNCHANGED vars
  PROVE  IInv'
<1>1. PICK p \in Acting : p \in Process
  BY ActingProcesses
<1>2. Flows(p, Kind)
  BY <1>1, StillFlows DEF IInv, TypeInv, vars, clientVars, topicVars, producerVars
<1>3. Quiet(p)
  BY <1>1, <1>2 DEF Quiet, IInv, TypeInv, Modes, vars, clientVars, topicVars, producerVars
<1>4. Base' /\ Secrets' /\ Devices'
  BY DEF Base, Secrets, Devices, IInv, TypeInv, vars, clientVars, mtlsVars, topicVars, producerVars,
         scenarioVars
<1> QED
  BY <1>1, <1>3, <1>4, QuietStep

LEMMA NextIInv == IInv /\ [Next]_vars => IInv'
<1> SUFFICES ASSUME IInv, [Next]_vars PROVE IInv'
  OBVIOUS
<1>1. ASSUME NEW p \in Process, Proceed(p) PROVE IInv'
  BY <1>1, ClientStep, ProducerStep, WorkerStep DEF Proceed
<1>2. CASE /\ Renew \/ \E p \in Running : FetchFails(p) \/ Overtake(p) \/ Repeat(p) \/ Expire(p)
           /\ UNCHANGED <<producerVars, scenarioVars, program, consumer>>
  BY <1>2, ClientStep
<1>3. CASE /\ Stop \/ KillProducer \/ Restart \/ \E q \in due : QueryFails(q) \/ QueryDies(q)
           /\ UNCHANGED <<scenarioVars, program, consumer>>
  BY <1>3, ProducerStep
<1>4. ASSUME NEW w \in Worker, KillWorker(w), UNCHANGED <<producerVars, program, consumer>>
      PROVE  IInv'
  BY <1>4, WorkerStep
<1>5. CASE /\ OnAssign \/ ConsumerPoll
           /\ UNCHANGED <<clientVars, producerVars, scenarioVars, program>>
  BY <1>5, ConsumerStep
<1>6. CASE UNCHANGED vars
  BY <1>6, StutterStep
<1> QED
  BY <1>1, <1>2, <1>3, <1>4, <1>5, <1>6 DEF Next

LEMMA InitIInv == Init => IInv
<1> SUFFICES ASSUME Init PROVE IInv
  OBVIOUS
<1>1. /\ queue = [p \in Process |-> <<>>] /\ topic = [p \in Process |-> <<>>]
      /\ lost = <<>> /\ repeated = <<>> /\ payloads = <<>>
      /\ secret = 1 /\ cert = [p \in Process |-> 0] /\ dirs = {} /\ faults = 0
      /\ life = 1 /\ due = {} /\ states = Fresh
      /\ program \in {"producer", "scenario"}
      /\ at = [p \in Process |-> IF p \in Running THEN "off" ELSE "absent"]
      /\ consumer = [from |-> 0, next |-> 0, printed |-> <<>>, assigns |-> 0]
  BY DEF Init, ClientInit, ProducerInit
<1>2. /\ fleet \in [devices : {MaxDevices}, workers : Worker]
      /\ tick = [w \in Worker |-> 0] /\ todo = [w \in Worker |-> Mine(w)]
      /\ device \in [1..MaxDevices -> [version : Initial, counter : {0}, day : {<<>>}, skip : {FALSE}]]
      /\ total = [w \in Worker |-> 0] /\ dropped = [d \in 1..MaxDevices |-> 0]
  BY DEF Init, ScenarioInit
<1>3. Secrets /\ Base
  <2>1. Fresh \in [1..Len(Queries) -> [counter : Nat, counts : Result, set : BOOLEAN]]
    BY EventProducerAssumption DEF Fresh, Result
  <2>2. 1 \in 1..MaxLives
    BY EventProducerAssumption
  <2>3. at \in [Process -> Places]
    BY <1>1 DEF Places
  <2> QED
    BY <1>1, <2>1, <2>2, <2>3, KafkaClientAssumption DEF Secrets, Base
<1>4. Devices
  <2>1. \A w \in Worker : Mine(w) \subseteq 1..MaxDevices
    BY <1>2 DEF Mine, Chunk
  <2>2. device \in [1..MaxDevices -> DeviceState]
    <3>1. [version : Initial, counter : {0}, day : {<<>>}, skip : {FALSE}] \subseteq DeviceState
      <4>1. Initial \subseteq 1..Versions /\ {0} \subseteq Nat /\ {<<>>} \subseteq Seq(Int)
        BY UpdateScenarioAssumption, EmptySeq
      <4> QED
        BY <4>1 DEF DeviceState
    <3> QED
      BY <1>2, <3>1
  <2> QED
    BY <1>2, <2>1, <2>2, UpdateScenarioAssumption DEF Devices
<1>5. Channels(Kind)
  BY <1>1, EmptySeq DEF Channels, Holds
<1>6. Modes
  BY <1>1, EmptyFits DEF Modes
<1>7. \A p \in Process : \A P : Tally(p, P) = 0
  BY <1>1, CountEmpty DEF Tally, Total
<1>8. Accounts
  <2>1. \A q \in 1..Len(Queries) : states[q].counter = 0 /\ \A r \in 1..Rows : states[q].counts[r] = 0
    BY <1>1 DEF Fresh
  <2> QED
    BY <1>7, <2>1, ActingProcesses DEF Accounts
<1>9. Consumed /\ Printed
  BY <1>1, EmptySeq, ActingProcesses DEF Consumed, Printed
<1>10. \A w \in Worker : at[w] # "full" /\ at[w] \notin Ended /\ w \in Process
  BY <1>1, ActingProcesses DEF Ended
<1>11. \A w \in Worker : Mine(w) \subseteq 1..MaxDevices
  BY <1>2 DEF Mine, Chunk
<1>12. \A d \in 1..MaxDevices : device[d].version \in Initial /\ device[d].counter = 0
  BY <1>2
<1>13. WorkInv
  <2>1. \A d \in 1..MaxDevices : Release[device[d].version] <= 0
    BY <1>12, UpdateScenarioAssumption
  <2> QED
    BY <1>2, <1>11, <1>12, <2>1 DEF WorkInv
<1>14. Mail /\ Sent = {}
  BY <1>1, <1>10, EmptyToSet DEF Mail, Sent
<1>15. SentInv
  BY <1>14 DEF SentInv
<1>16. FleetInv
  BY <1>2, <1>7, <1>10, <1>11, <1>12 DEF FleetInv, Recorded, Waits
<1> QED
  BY <1>3, <1>4, <1>5, <1>6, <1>8, <1>9, <1>13, <1>14, <1>15, <1>16 DEF IInv, TypeInv

-----------------------------------------------------------------------------
(* The chunks of a fleet.                                                  *)

LEMMA Quotient ==
  ASSUME NEW a \in Nat, NEW b \in Nat \ {0}
  PROVE  /\ a \div b \in Nat
         /\ b * (a \div b) <= a /\ a < b * (a \div b) + b
  OBVIOUS

LEMMA Product ==
  ASSUME NEW a \in Nat, NEW b \in Nat, NEW c \in Nat \ {0}
  PROVE  /\ c * a \in Nat
         /\ c * a < c * b => a < b
         /\ a <= b => c * a <= c * b
         /\ c * (b + 1) = c * b + c
<1>1. c * a \in Nat /\ c * (b + 1) = c * b + c
  OBVIOUS
<1>2. c * a < c * b => a < b
  OBVIOUS
<1>3. a <= b => c * a <= c * b
  OBVIOUS
<1> QED
  BY <1>1, <1>2, <1>3

\* A number has one quotient.
LEMMA QuotientIs ==
  ASSUME NEW a \in Nat, NEW b \in Nat \ {0}, NEW q \in Nat, b * q <= a, a < b * q + b
  PROVE  a \div b = q
  OBVIOUS

\* The chunks of a fleet: not more than the workers asked for, none empty, each device in one.
LEMMA ChunksCover ==
  ASSUME NEW devices \in Nat \ {0}, NEW workers \in Nat \ {0}
  PROVE  /\ ChunkCount(devices, workers) \in 1..workers
         /\ \A d \in 1..devices :
              \E w \in 1..ChunkCount(devices, workers) : d \in Chunk(devices, workers, w)
         /\ \A w \in 1..ChunkCount(devices, workers) : Chunk(devices, workers, w) # {}
<1>1. PICK n \in Nat \ {0} : n = IF workers < devices THEN workers ELSE devices
  OBVIOUS
<1>2. n <= workers /\ n <= devices
  BY <1>1
<1>3. PICK size \in Nat : size = (devices + n - 1) \div n /\ devices + n - 1 < n * size + n
  <2>1. devices + n - 1 \in Nat
    BY <1>1
  <2> QED
    BY <2>1, Quotient
<1>4. ChunkSize(devices, workers) = size
  BY <1>1, <1>3 DEF ChunkSize
<1>5. n * size \in Nat /\ devices <= n * size
  BY <1>3, Product
<1>6. size \in Nat \ {0} /\ n * size = size * n
  BY <1>5
<1>7. PICK count \in Nat : /\ count = (devices + size - 1) \div size
                           /\ size * count <= devices + size - 1
                           /\ devices + size - 1 < size * count + size
  <2>1. devices + size - 1 \in Nat
    BY <1>6
  <2> QED
    BY <1>6, <2>1, Quotient
<1>8. ChunkCount(devices, workers) = count
  BY <1>4, <1>7 DEF ChunkCount
<1>9. size * count \in Nat /\ size * n \in Nat
  BY <1>6, Product
<1>10. count \in 1..workers
  <2>1. size * count < size * (n + 1)
    <3>1. size * (n + 1) = size * n + size
      BY <1>6, Product
    <3> QED
      BY <1>5, <1>6, <1>7, <1>9, <3>1
  <2>2. count < n + 1
    BY <1>6, <2>1, Product
  <2>3. count # 0
    <3>1. size * 0 = 0
      BY <1>6
    <3> QED
      BY <1>6, <1>7, <3>1
  <2> QED
    BY <1>2, <2>2, <2>3
<1>11. ASSUME NEW d \in 1..devices PROVE \E w \in 1..count : d \in Chunk(devices, workers, w)
  <2>1. d - 1 \in Nat
    OBVIOUS
  <2>2. PICK q \in Nat : q = (d - 1) \div size /\ size * q <= d - 1
    BY <1>6, <2>1, Quotient
  <2>3. size * q \in Nat /\ size * q < size * count
    BY <1>6, <1>7, <1>9, <2>2, Product
  <2>4. q < count
    BY <1>6, <2>3, Product
  <2>5. q + 1 \in 1..count /\ (q + 1) - 1 = q
    BY <2>4
  <2> QED
    BY <1>4, <2>2, <2>5 DEF Chunk
<1>12. ASSUME NEW w \in 1..count PROVE Chunk(devices, workers, w) # {}
  <2>1. PICK q \in Nat : q = w - 1
    OBVIOUS
  <2>2. size * q \in Nat /\ size * (q + 1) = size * q + size
    BY <1>6, Product
  <2>3. size * (q + 1) <= size * count
    BY <1>6, <2>1, Product
  <2>4. size * q + 1 \in 1..devices
    BY <1>6, <1>7, <1>9, <2>2, <2>3
  <2>5. (size * q + 1) - 1 = size * q /\ size * q < size * q + size
    BY <1>6, <2>2
  <2>6. (size * q) \div size = q
    BY <1>6, <2>2, <2>5, QuotientIs
  <2>7. size * q + 1 \in Chunk(devices, workers, w)
    BY <1>4, <2>1, <2>4, <2>5, <2>6 DEF Chunk
  <2> QED
    BY <2>7
<1> QED
  BY <1>8, <1>10, <1>11, <1>12

LEMMA ChunksArePartition ==
  ASSUME NEW devices \in Nat \ {0}, NEW workers \in Nat \ {0}
  PROVE  ChunksPartition(devices, workers)
<1>1. /\ ChunkCount(devices, workers) \in 1..workers
      /\ \A d \in 1..devices : \E w \in 1..ChunkCount(devices, workers) : d \in Chunk(devices, workers, w)
      /\ \A w \in 1..ChunkCount(devices, workers) : Chunk(devices, workers, w) # {}
  BY ChunksCover
<1>2. PICK count \in Nat : count = ChunkCount(devices, workers) /\ count <= workers
  BY <1>1
<1>3. ASSUME NEW d \in 1..devices
      PROVE  Cardinality({w \in 1..count : d \in Chunk(devices, workers, w)}) = 1
  <2>1. PICK w \in 1..count : d \in Chunk(devices, workers, w)
    BY <1>1, <1>2
  <2>2. \A v \in 1..count : d \in Chunk(devices, workers, v) => v = w
    BY <2>1 DEF Chunk
  <2>3. {v \in 1..count : d \in Chunk(devices, workers, v)} = {w}
    BY <2>1, <2>2
  <2> QED
    BY <2>3, FS_Singleton
<1> QED
  BY <1>1, <1>2, <1>3 DEF ChunksPartition

LEMMA NetCounts ==
  ASSUME NEW s \in Seq(EventsUpTo(life)), NEW q, NEW r
  PROVE  Net(s, q, r) = CountIn(s, EventsOf(q, "added", r)) - CountIn(s, EventsOf(q, "removed", r))
<1>1. ASSUME NEW action
      PROVE  {i \in DOMAIN s : /\ s[i].life = life /\ s[i].query = q
                               /\ s[i].action = action /\ s[i].row = r}
               = {i \in DOMAIN s : s[i] \in EventsOf(q, action, r)}
  <2>1. \A i \in DOMAIN s : s[i] \in EventsUpTo(life)
    BY ElementOfSeq, LenProperties
  <2> QED
    BY <2>1 DEF EventsOf
<1> QED
  BY <1>1 DEF Net, CountIn

LEMMA BuiltCounts ==
  ASSUME NEW K, Channels(K)
  PROVE  /\ Built \in Seq(K)
         /\ \A P : Tally(Producer, P) = CountIn(Built, P) - CountIn(repeated, P)
         /\ \A P : CountIn(Built, P) \in Nat /\ CountIn(repeated, P) \in Nat
<1>1. PICK t \in Seq(K), q \in Seq(K), b \in Seq(K), l \in Seq(K), r \in Seq(K) :
        t = topic[Producer] /\ q = queue[Producer] /\ b = payloads /\ l = lost /\ r = repeated
  BY ActingProcesses DEF Channels, Holds
<1>2. Built = t \o q \o b \o l
  BY <1>1 DEF Built
<1>3. PICK u \in Seq(K), v \in Seq(K) : u = t \o q /\ v = u \o b
  BY ConcatProperties
<1>4. Built = v \o l /\ Built \in Seq(K)
  BY <1>2, <1>3, ConcatProperties
<1>5. ASSUME NEW P PROVE /\ Tally(Producer, P) = CountIn(Built, P) - CountIn(r, P)
                         /\ CountIn(Built, P) \in Nat /\ CountIn(r, P) \in Nat
  <2>1. /\ CountIn(t, P) \in Nat /\ CountIn(q, P) \in Nat /\ CountIn(b, P) \in Nat
        /\ CountIn(l, P) \in Nat /\ CountIn(r, P) \in Nat
    BY CountType
  <2>2. CountIn(u, P) = CountIn(t, P) + CountIn(q, P)
    BY <1>3, CountConcat
  <2>3. CountIn(v, P) = CountIn(u, P) + CountIn(b, P)
    BY <1>3, CountConcat
  <2>4. CountIn(Built, P) = CountIn(v, P) + CountIn(l, P)
    BY <1>4, CountConcat
  <2> QED
    BY SMTT(20), <1>1, <2>1, <2>2, <2>3, <2>4 DEF Tally, Total
<1> QED
  BY <1>1, <1>4, <1>5

LEMMA IInvEvents == IInv => EventsAccounted
<1> SUFFICES ASSUME IInv, program = "producer", NEW q \in 1..Len(Queries)
             PROVE  IF Queries[q] = "event"
                    THEN \A r \in 1..Rows :
                           Net(Built, q, r) - Net(repeated, q, r) = states[q].counts[r]
                    ELSE LET Count(s, c) == Cardinality({i \in DOMAIN s :
                                              /\ s[i].life = life /\ s[i].query = q
                                              /\ s[i].counter = c})
                         IN  \A c \in 0..MaxRounds :
                               Count(Built, c) - Count(repeated, c)
                                 = IF c < states[q].counter THEN 1 ELSE 0
  BY DEF EventsAccounted
<1> DEFINE K == EventsUpTo(life)
<1>1. Channels(K)
  BY DEF IInv, TypeInv, Kind
<1>2. Built \in Seq(K) /\ repeated \in Seq(K)
  BY <1>1, BuiltCounts DEF Channels, Holds
<1>3. \A P : /\ Tally(Producer, P) = CountIn(Built, P) - CountIn(repeated, P)
             /\ CountIn(Built, P) \in Nat /\ CountIn(repeated, P) \in Nat
  BY <1>1, BuiltCounts
<1>4. CASE Queries[q] = "event"
  <2> SUFFICES ASSUME NEW r \in 1..Rows
               PROVE  Net(Built, q, r) - Net(repeated, q, r) = states[q].counts[r]
    BY <1>4
  <2>1. /\ Net(Built, q, r) = CountIn(Built, EventsOf(q, "added", r))
                                - CountIn(Built, EventsOf(q, "removed", r))
        /\ Net(repeated, q, r) = CountIn(repeated, EventsOf(q, "added", r))
                                   - CountIn(repeated, EventsOf(q, "removed", r))
    BY <1>2, NetCounts
  <2>2. Tally(Producer, EventsOf(q, "added", r)) - Tally(Producer, EventsOf(q, "removed", r))
          = states[q].counts[r]
    BY <1>4 DEF IInv, Accounts
  <2> QED
    BY <1>3, <2>1, <2>2
<1>5. CASE Queries[q] # "event"
  <2> SUFFICES ASSUME NEW c \in 0..MaxRounds
               PROVE  Cardinality({i \in DOMAIN Built : /\ Built[i].life = life /\ Built[i].query = q
                                                        /\ Built[i].counter = c})
                        - Cardinality({i \in DOMAIN repeated : /\ repeated[i].life = life
                                                               /\ repeated[i].query = q
                                                               /\ repeated[i].counter = c})
                        = IF c < states[q].counter THEN 1 ELSE 0
    BY <1>5
  <2>1. ASSUME NEW s \in Seq(K)
        PROVE  Cardinality({i \in DOMAIN s : s[i].life = life /\ s[i].query = q /\ s[i].counter = c})
                 = CountIn(s, Numbered(q, c))
    <3>1. \A i \in DOMAIN s : s[i] \in EventsUpTo(life)
      BY ElementOfSeq, LenProperties
    <3>2. {i \in DOMAIN s : s[i].life = life /\ s[i].query = q /\ s[i].counter = c}
            = {i \in DOMAIN s : s[i] \in Numbered(q, c)}
      BY <3>1 DEF Numbered
    <3> QED
      BY <3>2 DEF CountIn
  <2>2. Tally(Producer, Numbered(q, c)) = IF c < states[q].counter THEN 1 ELSE 0
    BY <1>5, EventProducerAssumption DEF IInv, Accounts
  <2> QED
    BY <1>2, <1>3, <2>1, <2>2
<1> QED
  BY <1>4, <1>5

\* What was read is the topic from the assignment on.
LEMMA PrintedCounts ==
  ASSUME NEW S, NEW t \in Seq(S), NEW s \in Seq(S), NEW from \in Nat, from <= Len(t),
         Len(s) = Len(t) - from, \A i \in 1..Len(s) : s[i] = t[from + i], NEW P,
         \A i \in 1..from : t[i] \notin P
  PROVE  CountIn(s, P) = CountIn(t, P)
<1>0. Len(t) \in Nat /\ Len(s) \in Nat
  BY LenProperties
<1>1. PICK a \in Seq(S) : Len(a) = from /\ \A i \in 1..from : a[i] = t[i]
  <2>1. \A i \in 1..from : t[i] \in S
    BY <1>0, ElementOfSeq
  <2>2. /\ SubSeq(t, 1, from) \in Seq(S)
        /\ Len(SubSeq(t, 1, from)) = IF 1 <= from THEN from - 1 + 1 ELSE 0
        /\ \A i \in 1..(from - 1 + 1) : SubSeq(t, 1, from)[i] = t[1 + i - 1]
    BY <2>1, SubSeqProperties
  <2>3. \A i \in 1..from : SubSeq(t, 1, from)[i] = t[i]
    BY <2>2
  <2>4. Len(SubSeq(t, 1, from)) = from
    BY <2>2
  <2> QED
    BY <2>2, <2>3, <2>4
<1>2. t = a \o s
  <2>1. /\ a \o s \in Seq(S) /\ Len(a \o s) = from + Len(s)
        /\ \A i \in 1..(from + Len(s)) : (a \o s)[i] = IF i <= from THEN a[i] ELSE s[i - from]
    BY <1>1, ConcatProperties
  <2>2. ASSUME NEW i \in 1..Len(t) PROVE (a \o s)[i] = t[i]
    <3>1. CASE i <= from
      BY <1>0, <1>1, <2>1, <3>1
    <3>2. CASE i > from
      <4>1. i - from \in 1..Len(s) /\ from + (i - from) = i /\ i \in 1..(from + Len(s))
        BY <1>0, <3>2
      <4> QED
        BY <2>1, <3>2, <4>1
    <3>3. i <= from \/ i > from
      BY <1>0
    <3> QED
      BY <3>1, <3>2, <3>3
  <2>3. Len(a \o s) = Len(t)
    BY <1>0, <2>1
  <2> QED
    BY <2>1, <2>2, <2>3, SeqEqual
<1>3. CountIn(a, P) = 0
  <2>1. \A i \in DOMAIN a : a[i] \notin P
    BY <1>1, LenProperties
  <2> QED
    BY <2>1, CountType
<1>4. CountIn(a \o s, P) = CountIn(a, P) + CountIn(s, P)
  BY CountConcat
<1>5. CountIn(s, P) \in Nat
  BY CountType
<1> QED
  BY <1>2, <1>3, <1>4, <1>5

LEMMA IInvConsumer == IInv => ConsumerSeesState
<1> SUFFICES ASSUME IInv, program = "producer", consumer.next = Len(topic[Producer]),
                    \A i \in 1..Len(topic[Producer]) :
                      topic[Producer][i].life = life <=> i > consumer.from,
                    queue[Producer] = <<>>, payloads = <<>>,
                    \A i \in DOMAIN lost : lost[i].life # life,
                    \A i \in DOMAIN repeated : repeated[i].life # life,
                    NEW q \in 1..Len(Queries), NEW r \in 1..Rows, Queries[q] = "event"
             PROVE  Sum(consumer.printed, q, r) = states[q].counts[r]
  BY DEF ConsumerSeesState
<1> DEFINE K == EventsUpTo(life)
<1>1. Kind = K
  BY DEF Kind
<1>2. PICK t \in Seq(K), s \in Seq(K), from \in Nat :
        t = topic[Producer] /\ s = consumer.printed /\ from = consumer.from
  BY <1>1, ActingProcesses DEF IInv, TypeInv, Channels, Holds, Consumed
<1>3. /\ from <= Len(t) /\ Len(s) = Len(t) - from
      /\ \A i \in 1..Len(s) : s[i] = t[from + i]
  BY <1>2 DEF IInv, Printed
<1>4. ASSUME NEW action
      PROVE  /\ CountIn(s, EventsOf(q, action, r)) = Tally(Producer, EventsOf(q, action, r))
             /\ CountIn(s, EventsOf(q, action, r)) \in Nat
  <2>1. PICK P : P = EventsOf(q, action, r)
    OBVIOUS
  <2>2. \A m \in P : m.life = life
    BY <2>1 DEF EventsOf
  <2>3. CountIn(s, P) = CountIn(t, P)
    <3>1. \A i \in 1..from : t[i] \notin P
      <4> SUFFICES ASSUME NEW i \in 1..from PROVE t[i] \notin P
        OBVIOUS
      <4>1. Len(t) \in Nat
        BY LenProperties
      <4>2. i \in 1..Len(t) /\ ~(i > from)
        BY <1>3, <4>1
      <4>3. t[i].life # life
        BY <1>2, <4>2
      <4> QED
        BY <2>2, <4>3
    <3> QED
      BY <1>3, <3>1, PrintedCounts
  <2>4. CountIn(lost, P) = 0 /\ CountIn(repeated, P) = 0
    <3>1. (\A i \in DOMAIN lost : lost[i] \notin P) /\ (\A i \in DOMAIN repeated : repeated[i] \notin P)
      BY <2>2
    <3> QED
      BY <3>1, CountType DEF IInv, TypeInv, Channels, Holds
  <2>5. CountIn(queue[Producer], P) = 0 /\ CountIn(payloads, P) = 0
    BY CountEmpty
  <2>6. CountIn(s, P) \in Nat
    BY CountType
  <2> QED
    BY <1>2, <2>1, <2>3, <2>4, <2>5, <2>6 DEF Tally, Total
<1>5. Sum(s, q, r) = CountIn(s, EventsOf(q, "added", r)) - CountIn(s, EventsOf(q, "removed", r))
  <2>1. Len(s) \in Nat /\ Len(t) \in Nat /\ DOMAIN s = 1..Len(s)
    BY LenProperties
  <2>2. ASSUME NEW i \in DOMAIN s PROVE s[i].life = life /\ s[i] \in EventsUpTo(life)
    <3>1. from + i \in 1..Len(t) /\ from + i > from
      BY <1>3, <2>1
    <3>2. s[i] = t[from + i]
      BY <1>3, <2>1
    <3>3. t[from + i].life = life
      BY <1>2, <3>1
    <3> QED
      BY <2>1, <3>2, <3>3, ElementOfSeq
  <2>3. ASSUME NEW action
        PROVE  {i \in DOMAIN s : s[i].query = q /\ s[i].action = action /\ s[i].row = r}
                 = {i \in DOMAIN s : s[i] \in EventsOf(q, action, r)}
    BY <2>2 DEF EventsOf
  <2> QED
    BY <2>3 DEF Sum, CountIn
<1>6. Tally(Producer, EventsOf(q, "added", r)) - Tally(Producer, EventsOf(q, "removed", r))
        = states[q].counts[r]
  BY DEF IInv, Accounts
<1> QED
  BY <1>2, <1>4, <1>5, <1>6

LEMMA ReportsCounted ==
  ASSUME NEW s \in Seq(Reports), NEW D
  PROVE  Cardinality({i \in DOMAIN s : s[i].device \in D}) = CountIn(s, ReportsOf(D))
<1>1. \A i \in DOMAIN s : s[i] \in Reports
  BY ElementOfSeq, LenProperties
<1>2. {i \in DOMAIN s : s[i].device \in D} = {i \in DOMAIN s : s[i] \in ReportsOf(D)}
  BY <1>1 DEF ReportsOf
<1> QED
  BY <1>2 DEF CountIn

LEMMA IInvFleet == IInv => FleetIsConsistent
<1> SUFFICES ASSUME IInv PROVE FleetIsConsistent
  OBVIOUS
<1>0. ChunksPartition(fleet.devices, fleet.workers)
  <2>1. fleet.devices = MaxDevices /\ fleet.workers \in Worker
    BY DEF IInv, TypeInv, Devices
  <2>2. fleet.devices \in Nat \ {0} /\ fleet.workers \in Nat \ {0}
    BY <2>1, SMTT(20), UpdateScenarioAssumption, KafkaClientAssumption DEF Worker
  <2> QED
    BY <2>2, ChunksArePartition
<1> SUFFICES ASSUME program = "scenario"
             PROVE  /\ \A w \in Active :
                         /\ total[w] = Accepted(w)
                         /\ \A d \in Mine(w) : device[d].counter = RecordsOf(w, d)
                    /\ LET sent == (UNION {ToSet(topic[w]) : w \in Worker}) \cup ToSet(lost)
                       IN  \A m, n \in sent :
                             /\ Release[m.version] <= m.tick
                             /\ m.device = n.device =>
                                  /\ m.counter < n.counter => m.version <= n.version
                                  /\ m.counter = n.counter => m = n
  BY <1>0 DEF FleetIsConsistent
<1>1. ASSUME NEW w \in Active
      PROVE  /\ total[w] = Accepted(w)
             /\ \A d \in Mine(w) : device[d].counter = RecordsOf(w, d)
  <2>1. w \in Worker /\ w \in Process
    BY ActingProcesses DEF Active
  <2>2. PICK t \in Seq(Reports), q \in Seq(Reports), l \in Seq(Reports), r \in Seq(Reports) :
          t = topic[w] /\ q = queue[w] /\ l = lost /\ r = repeated
    BY <2>1 DEF IInv, TypeInv, Channels, Holds, Kind
  <2>3. payloads = <<>>
    BY DEF IInv, TypeInv, Modes
  <2>4. \A P : /\ Tally(w, P) = CountIn(t, P) + CountIn(q, P) + CountIn(l, P) - CountIn(r, P)
               /\ CountIn(t, P) \in Nat /\ CountIn(q, P) \in Nat
               /\ CountIn(l, P) \in Nat /\ CountIn(r, P) \in Nat
    <3> SUFFICES ASSUME NEW P
                 PROVE  /\ Tally(w, P) = CountIn(t, P) + CountIn(q, P) + CountIn(l, P) - CountIn(r, P)
                        /\ CountIn(t, P) \in Nat /\ CountIn(q, P) \in Nat
                        /\ CountIn(l, P) \in Nat /\ CountIn(r, P) \in Nat
      OBVIOUS
    <3>1. CountIn(payloads, P) = 0
      BY <2>3, CountEmpty
    <3>2. /\ CountIn(t, P) \in Nat /\ CountIn(q, P) \in Nat
          /\ CountIn(l, P) \in Nat /\ CountIn(r, P) \in Nat
      BY CountType
    <3> QED
      BY <2>2, <3>1, <3>2 DEF Tally, Total
  <2>5. total[w] = Accepted(w)
    <3>1. CountIn(q, ReportsOf(Mine(w))) = Len(q)
      <4>1. ToSet(q) \subseteq Reports
        BY ToSetType
      <4>2. ToSet(q) \subseteq ReportsOf(Mine(w))
        BY <2>1, <2>2, <4>1 DEF IInv, Mail, ReportsOf
      <4> QED
        BY <4>2, CountAll
    <3>2. Accepted(w) = CountIn(t, ReportsOf(Mine(w))) + Len(q) + CountIn(l, ReportsOf(Mine(w)))
                          - CountIn(r, ReportsOf(Mine(w)))
      BY <2>2, ReportsCounted DEF Accepted
    <3>3. total[w] = Tally(w, ReportsOf(Mine(w)))
      BY <2>1 DEF IInv, FleetInv
    <3> QED
      BY <2>4, <3>1, <3>2, <3>3
  <2>6. ASSUME NEW d \in Mine(w) PROVE device[d].counter = RecordsOf(w, d)
    <3>1. \A s \in Seq(Reports) : Cardinality({i \in DOMAIN s : s[i].device = d})
                                    = CountIn(s, ReportsOf({d}))
      <4> SUFFICES ASSUME NEW s \in Seq(Reports)
                   PROVE  Cardinality({i \in DOMAIN s : s[i].device = d}) = CountIn(s, ReportsOf({d}))
        OBVIOUS
      <4>1. {i \in DOMAIN s : s[i].device \in {d}} = {i \in DOMAIN s : s[i].device = d}
        OBVIOUS
      <4> QED
        BY <4>1, ReportsCounted
    <3>2. RecordsOf(w, d) = CountIn(t, ReportsOf({d})) + CountIn(q, ReportsOf({d}))
                              + CountIn(l, ReportsOf({d})) - CountIn(r, ReportsOf({d}))
                              + dropped[d] + (IF Waits(w, d) THEN 1 ELSE 0)
      BY <2>2, <3>1 DEF RecordsOf
    <3>3. Recorded(w, d)
      BY <2>1 DEF IInv, FleetInv
    <3> QED
      BY <2>4, <3>2, <3>3 DEF Recorded
  <2> QED
    BY <2>5, <2>6
<1>2. (UNION {ToSet(topic[w]) : w \in Worker}) \cup ToSet(lost) \subseteq Sent
  BY DEF Sent
<1> QED
  BY <1>1, <1>2 DEF IInv, SentInv

LEMMA IInvTypes == IInv => TypeOK
<1> SUFFICES ASSUME IInv PROVE TypeOK
  OBVIOUS
<1>1. Kind \subseteq Messages
  BY EventProducerAssumption DEF IInv, TypeInv, Base, Kind, EventsUpTo, Reports, Messages
<1>2. Seq(Kind) \subseteq Seq(Messages)
  BY <1>1, SubsetSeq
<1>3. /\ queue \in [Process -> Seq(Messages)] /\ topic \in [Process -> Seq(Messages)]
      /\ {lost, repeated, payloads, consumer.printed} \subseteq Seq(Messages)
  BY <1>2 DEF IInv, TypeInv, Channels, Holds, Consumed
<1>4. /\ program \in {"producer", "scenario"} /\ at \in [Process -> Places] /\ dirs \subseteq Process
      /\ states \in [1..Len(Queries) -> [counter : Nat, counts : Result, set : BOOLEAN]]
      /\ due \subseteq 1..Len(Queries) /\ life \in 1..MaxLives
      /\ \A p \in Process : Len(queue[p]) <= Capacity
  BY DEF IInv, TypeInv, Base, Modes
<1>5. secret \in 1..(MaxFaults + 1) /\ cert \in [Process -> 0..secret] /\ faults \in 0..MaxFaults
  BY KafkaClientAssumption DEF IInv, TypeInv, Secrets
<1>6. \A w \in Worker : tick[w] \in 0..LastTick /\ todo[w] \subseteq Mine(w)
  BY DEF IInv, TypeInv, Devices, WorkInv
<1>7. ASSUME NEW d \in 1..MaxDevices PROVE device[d].counter \in 0..(LastTick + 1)
  <2>1. /\ fleet.devices = MaxDevices /\ fleet.workers \in Nat \ {0} /\ fleet.workers <= Workers
        /\ MaxDevices \in Nat \ {0}
    BY SMTT(20), UpdateScenarioAssumption, KafkaClientAssumption DEF IInv, TypeInv, Devices, Worker
  <2>2. /\ ChunkCount(MaxDevices, fleet.workers) \in 1..fleet.workers
        /\ \E w \in 1..ChunkCount(MaxDevices, fleet.workers) : d \in Chunk(MaxDevices, fleet.workers, w)
    BY <2>1, ChunksCover
  <2>3. PICK w \in Worker : d \in Mine(w)
    BY <2>1, <2>2, KafkaClientAssumption DEF Mine, Worker
  <2>4. device[d].counter <= tick[w] + 1
    BY <2>3 DEF IInv, WorkInv
  <2>5. tick[w] \in 0..LastTick /\ device[d].counter \in Nat
    BY <2>3 DEF IInv, TypeInv, Devices, DeviceState
  <2> QED
    BY <2>4, <2>5, UpdateScenarioAssumption
<1>8. device \in [1..MaxDevices ->
         [version : 1..Versions, counter : 0..(LastTick + 1), day : Seq(Int), skip : BOOLEAN]]
  <2>1. device \in [1..MaxDevices -> DeviceState]
    BY DEF IInv, TypeInv, Devices
  <2>2. \A d \in 1..MaxDevices : device[d] \in
          [version : 1..Versions, counter : 0..(LastTick + 1), day : Seq(Int), skip : BOOLEAN]
    BY <1>7, <2>1 DEF DeviceState
  <2> QED
    BY <2>1, <2>2
<1>9. consumer.from <= consumer.next /\ consumer.next <= Len(topic[Producer])
  BY DEF IInv, Printed
<1> QED
  BY <1>3, <1>4, <1>5, <1>6, <1>8, <1>9 DEF TypeOK, Places

-----------------------------------------------------------------------------

THEOREM KafkaInvariant == Spec => []IInv
BY InitIInv, NextIInv, PTL DEF Spec

\* The variables of the scripts stay in their types: no queue is longer than its capacity, no
\* worker goes past the end of the simulation, no device checks in more than once a tick, and
\* the consumer is never past the end of the topic.
THEOREM KafkaTypes == Spec => []TypeOK
BY KafkaInvariant, IInvTypes, PTL

\* kafka_producer.py 165-213: whatever is repeated, overtaken, expires or dies with the process,
\* the events of a life that are in the topic, queued, built or lost add up to the last result
\* of each query, and a snapshot has each counter once.
THEOREM Events == Spec => []EventsAccounted
BY KafkaInvariant, IInvEvents, PTL

\* kafka_consumer.py 74-94: everything the consumer printed since it was assigned adds up to the
\* state of the machine, in any order, if it was assigned between the last start of the producer
\* and this one, nothing is on the way and nothing of this start was lost or repeated.
THEOREM Consumer == Spec => []ConsumerSeesState
BY KafkaInvariant, IInvConsumer, PTL

\* os_update_scenario.py 118-135, 258-320, 364-367: the chunks are a partition of the fleet, of
\* any size and for any number of workers; workers count what was accepted, a gap in a device's
\* counters is a dropped record, and its versions grow with its counter and are out.
THEOREM Fleet == Spec => []FleetIsConsistent
BY KafkaInvariant, IInvFleet, PTL
=============================================================================
