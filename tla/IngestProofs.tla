---------------------------- MODULE IngestProofs ----------------------------
(***************************************************************************)
(* Proofs about Ingest.  StableReference is not inductive: CanonicalInv    *)
(* says where the object comes from that the next record will be given.    *)
(***************************************************************************)
EXTENDS Ingest, DataLemmas

\* The variables are functions and sequences of what they must be; what a column or a cell
\* is does not matter.
Shape ==
  /\ turn \in Subtask
  /\ inbox \in [Subtask -> Seq(Message)]
  /\ memo \in [Subtask -> [Headless -> Kind]]
  /\ canonical \in [Subtask -> [Table -> Nat]]
  /\ DOMAIN pending = Subtask /\ DOMAIN heap = Subtask /\ DOMAIN out = Subtask
  /\ \A p \in Subtask : \E S : heap[p] \in Seq(S)
  /\ \A p \in Subtask : \E S : out[p] \in Seq(S)
  /\ \A p \in Subtask : \E S : pending[p] \in Seq(S) /\ \A x \in S : x.table \in Table

\* What was given and what will be given is in the heap.
InHeap ==
  \A p \in Subtask :
    /\ \A t \in Table : canonical[p][t] <= Len(heap[p])
    /\ \A i \in DOMAIN out[p] :
         out[p][i].table \in Table /\ out[p][i].schema \in 1..Len(heap[p])

\* From its i-th record on, subtask p has given table t of that record the same columns only.
Steady(p, i) ==
  \A k \in i..Len(out[p]) : out[p][k].table = out[p][i].table =>
                              heap[p][out[p][k].schema] = heap[p][out[p][i].schema]

\* While they stay the same, the object it gave is the canonical one.
CanonicalInv ==
  \A p \in Subtask : \A i \in DOMAIN out[p] :
    Steady(p, i) => canonical[p][out[p][i].table] = out[p][i].schema

IngestInv == Shape /\ InHeap /\ CanonicalInv /\ StableReference

-----------------------------------------------------------------------------
(* The order of identifiers is total.                                      *)

Identifier == Seq(ToSet(Alphabet))

LEMMA Places ==
  /\ \A w \in ToSet(Alphabet) : Place(w) \in Nat
  /\ \A v, w \in ToSet(Alphabet) : v # w => Place(v) < Place(w) \/ Place(w) < Place(v)
<1>1. DOMAIN Alphabet = 1..Len(Alphabet) /\ Len(Alphabet) \in Nat
  BY ParserAssumption
<1>2. ASSUME NEW w \in ToSet(Alphabet) PROVE Place(w) \in 1..Len(Alphabet) /\ Alphabet[Place(w)] = w
  <2>1. \E i \in DOMAIN Alphabet : Alphabet[i] = w
    BY DEF ToSet
  <2> QED
    BY <1>1, <2>1 DEF Place
<1> QED
  BY <1>1, <1>2

\* a and b are alike up to n, where b goes on.
Parts(a, b, n) ==
  /\ n \in 0..Len(a) /\ n < Len(b)
  /\ \A i \in 1..n : a[i] = b[i]
  /\ n = Len(a) \/ Place(a[n + 1]) < Place(b[n + 1])

LEMMA IdentifierFacts ==
  ASSUME NEW a \in Identifier
  PROVE  /\ Len(a) \in Nat /\ DOMAIN a = 1..Len(a)
         /\ \A i \in 1..Len(a) : a[i] \in ToSet(Alphabet) /\ Place(a[i]) \in Nat
BY Places DEF Identifier

LEMMA BeforeParts == \A a, b : Before(a, b) <=> \E n : Parts(a, b, n)
BY DEF Before, Parts

LEMMA BeforeTotal ==
  ASSUME NEW a \in Identifier, NEW b \in Identifier
  PROVE  a = b \/ Before(a, b) \/ Before(b, a)
<1>0. PICK k \in Nat, l \in Nat : k = Len(a) /\ l = Len(b)
  BY IdentifierFacts
<1> DEFINE D == {n \in Nat : n < k /\ n < l /\ a[n + 1] # b[n + 1]}
<1>1. CASE D = {}
  <2>1. ASSUME NEW i \in Nat, i >= 1, i <= k, i <= l PROVE a[i] = b[i]
    <3>1. PICK j \in Nat : i = j + 1
      <4>1. i - 1 \in Nat /\ i = (i - 1) + 1
        BY <2>1
      <4> QED
        BY <4>1
    <3>2. j < k /\ j < l
      BY <2>1, <3>1
    <3>3. j \notin D
      BY <1>1
    <3> QED
      BY <3>1, <3>2, <3>3
  <2>2. CASE k = l
    <3>1. a \in Seq(ToSet(Alphabet)) /\ b \in Seq(ToSet(Alphabet))
      BY DEF Identifier
    <3>2. Len(a) = Len(b) /\ \A i \in 1..Len(a) : a[i] = b[i]
      BY <1>0, <2>1, <2>2
    <3>3. a = b
      BY <3>1, <3>2, SeqEqual
    <3> QED
      BY <3>3
  <2>3. CASE k < l
    <3>1. Parts(a, b, k)
      BY <1>0, <2>1, <2>3 DEF Parts
    <3> QED
      BY <3>1, BeforeParts
  <2>4. CASE l < k
    <3>1. Parts(b, a, l)
      BY <1>0, <2>1, <2>4 DEF Parts
    <3> QED
      BY <3>1, BeforeParts
  <2> QED
    BY <2>2, <2>3, <2>4
<1>2. CASE D # {}
  <2>1. PICK n \in D : \A h \in D : n <= h
    <3>1. D \in SUBSET Nat
      OBVIOUS
    <3> HIDE DEF D
    <3> QED
      BY <1>2, <3>1, LeastExists
  <2>2. ASSUME NEW i \in 1..n PROVE a[i] = b[i]
    <3>1. PICK j \in Nat : i = j + 1
      <4>1. i - 1 \in Nat /\ i = (i - 1) + 1
        OBVIOUS
      <4> QED
        BY <4>1
    <3>2. j \notin D /\ j < k /\ j < l
      BY <2>1, <3>1
    <3> QED
      BY <3>1, <3>2
  <2>3. /\ n + 1 \in 1..k /\ n + 1 \in 1..l /\ n \in 0..k /\ n \in 0..l /\ n < k /\ n < l
        /\ a[n + 1] # b[n + 1]
    BY <2>1
  <2>4. a[n + 1] \in ToSet(Alphabet) /\ b[n + 1] \in ToSet(Alphabet)
    BY <1>0, <2>3, IdentifierFacts
  <2>5. Place(a[n + 1]) < Place(b[n + 1]) \/ Place(b[n + 1]) < Place(a[n + 1])
    BY <2>3, <2>4, Places
  <2>6. Parts(a, b, n) \/ Parts(b, a, n)
    BY <1>0, <2>2, <2>3, <2>5 DEF Parts
  <2> QED
    BY <2>6, BeforeParts
<1> QED
  BY <1>1, <1>2

LEMMA BeforeAsymmetric ==
  ASSUME NEW a \in Identifier, NEW b \in Identifier, Before(a, b), Before(b, a)
  PROVE  FALSE
<1>0. PICK k \in Nat, l \in Nat : k = Len(a) /\ l = Len(b)
  BY IdentifierFacts
<1>1. PICK n : Parts(a, b, n)
  BY BeforeParts
<1>2. PICK h : Parts(b, a, h)
  BY BeforeParts
<1>3. /\ n \in Nat /\ n <= k /\ n < l /\ (n = k \/ Place(a[n + 1]) < Place(b[n + 1]))
      /\ h \in Nat /\ h <= l /\ h < k /\ (h = l \/ Place(b[h + 1]) < Place(a[h + 1]))
      /\ \A i \in 1..n : a[i] = b[i]
      /\ \A i \in 1..h : a[i] = b[i]
  BY <1>0, <1>1, <1>2 DEF Parts
<1>4. /\ \A i \in 1..k : Place(a[i]) \in Nat
      /\ \A i \in 1..l : Place(b[i]) \in Nat
  BY <1>0, IdentifierFacts
<1>5. CASE n < h
  <2>1. n + 1 \in 1..h /\ n + 1 \in 1..k /\ n # k
    BY <1>3, <1>5
  <2>2. a[n + 1] = b[n + 1] /\ Place(a[n + 1]) \in Nat
    BY <1>3, <1>4, <2>1
  <2> QED
    BY <1>3, <2>1, <2>2
<1>6. CASE h < n
  <2>1. h + 1 \in 1..n /\ h + 1 \in 1..l /\ h # l
    BY <1>3, <1>6
  <2>2. a[h + 1] = b[h + 1] /\ Place(b[h + 1]) \in Nat
    BY <1>3, <1>4, <2>1
  <2> QED
    BY <1>3, <2>1, <2>2
<1>7. CASE n = h
  <2>1. n + 1 \in 1..k /\ n + 1 \in 1..l
    BY <1>3, <1>7
  <2> QED
    BY <1>3, <1>4, <1>7, <2>1
<1> QED
  BY <1>3, <1>5, <1>6, <1>7

LEMMA BeforeTransitive ==
  ASSUME NEW a \in Identifier, NEW b \in Identifier, NEW c \in Identifier,
         Before(a, b), Before(b, c)
  PROVE  Before(a, c)
<1>0. PICK k \in Nat, l \in Nat, m \in Nat : k = Len(a) /\ l = Len(b) /\ m = Len(c)
  BY IdentifierFacts
<1>1. PICK n : Parts(a, b, n)
  BY BeforeParts
<1>2. PICK h : Parts(b, c, h)
  BY BeforeParts
<1>3. /\ n \in Nat /\ n <= k /\ n < l /\ (n = k \/ Place(a[n + 1]) < Place(b[n + 1]))
      /\ h \in Nat /\ h <= l /\ h < m /\ (h = l \/ Place(b[h + 1]) < Place(c[h + 1]))
      /\ \A i \in 1..n : a[i] = b[i]
      /\ \A i \in 1..h : b[i] = c[i]
  BY <1>0, <1>1, <1>2 DEF Parts
<1>4. /\ \A i \in 1..k : Place(a[i]) \in Nat
      /\ \A i \in 1..l : Place(b[i]) \in Nat
      /\ \A i \in 1..m : Place(c[i]) \in Nat
  BY <1>0, IdentifierFacts
<1>5. CASE n < h
  <2>1. n + 1 \in 1..h /\ n \in 0..k /\ n < m /\ \A i \in 1..n : i \in 1..h
    BY <1>3, <1>5
  <2>2. (\A i \in 1..n : a[i] = c[i]) /\ (n = k \/ Place(a[n + 1]) < Place(c[n + 1]))
    BY <1>3, <2>1
  <2>3. Parts(a, c, n)
    BY <1>0, <2>1, <2>2 DEF Parts
  <2> QED
    BY <2>3, BeforeParts
<1>6. CASE h < n
  <2>1. h + 1 \in 1..n /\ h \in 0..k /\ h # l /\ \A i \in 1..h : i \in 1..n
    BY <1>3, <1>6
  <2>2. (\A i \in 1..h : a[i] = c[i]) /\ Place(a[h + 1]) < Place(c[h + 1])
    BY <1>3, <2>1
  <2>3. Parts(a, c, h)
    BY <1>0, <1>3, <2>1, <2>2 DEF Parts
  <2> QED
    BY <2>3, BeforeParts
<1>7. CASE n = h
  <2>1. n + 1 \in 1..l /\ n + 1 \in 1..m /\ n \in 0..k /\ n # l
    BY <1>3, <1>7
  <2>2. ASSUME n # k PROVE Place(a[n + 1]) < Place(c[n + 1])
    <3>1. n + 1 \in 1..k
      BY <1>3, <2>2
    <3>2. Place(a[n + 1]) \in Nat /\ Place(b[n + 1]) \in Nat /\ Place(c[n + 1]) \in Nat
      BY <1>4, <2>1, <3>1
    <3> QED
      BY <1>3, <1>7, <2>1, <2>2, <3>2
  <2>3. \A i \in 1..n : a[i] = c[i]
    BY <1>3, <1>7
  <2>4. Parts(a, c, n)
    BY <1>0, <1>3, <1>7, <2>1, <2>2, <2>3 DEF Parts
  <2> QED
    BY <2>4, BeforeParts
<1> QED
  BY <1>3, <1>5, <1>6, <1>7

\* So there is the order of positions that the sort of the metadata chooses.
LEMMA SortOrderExists ==
  ASSUME NEW names \in Seq(Identifier)
  PROVE  /\ SortOrder(names) \in [1..Len(names) -> 1..Len(names)]
         /\ \A i \in 1..Len(names) : \E k \in 1..Len(names) : SortOrder(names)[k] = i
         /\ \A i, j \in 1..Len(names) : i < j =>
              \/ Before(names[SortOrder(names)[i]], names[SortOrder(names)[j]])
              \/ names[SortOrder(names)[i]] = names[SortOrder(names)[j]]
<1>1. PICK n \in Nat : n = Len(names) /\ DOMAIN names = 1..n /\ \A i \in 1..n : names[i] \in Identifier
  OBVIOUS
<1> DEFINE Earlier(i, j) == Before(names[i], names[j]) \/ (names[i] = names[j] /\ i < j)
           R == {x \in (1..n) \X (1..n) : Earlier(x[1], x[2])}
<1>2. \A i, j \in 1..n : <<i, j>> \in R <=> Earlier(i, j)
  OBVIOUS
<1>3. \A i, j \in 1..n : i # j => Earlier(i, j) \/ Earlier(j, i)
  BY <1>1, BeforeTotal
<1>4. ASSUME NEW i \in 1..n, NEW j \in 1..n, NEW k \in 1..n, Earlier(i, j), Earlier(j, k)
      PROVE  Earlier(i, k)
  <2>1. CASE names[i] = names[j] /\ names[j] = names[k]
    <3>1. i < j /\ j < k
      BY <1>1, <1>4, <2>1, BeforeAsymmetric
    <3> QED
      BY <2>1, <3>1
  <2>2. CASE names[i] = names[j] /\ names[j] # names[k]
    BY <1>4, <2>2
  <2>3. CASE names[i] # names[j] /\ names[j] = names[k]
    BY <1>4, <2>3
  <2>4. CASE names[i] # names[j] /\ names[j] # names[k]
    BY <1>1, <1>4, <2>4, BeforeTransitive
  <2> QED
    BY <2>1, <2>2, <2>3, <2>4
<1> HIDE DEF R
<1>5. \E p : IsSorting(p, n, R)
  <2>1. \A i, j \in 1..n : i # j => <<i, j>> \in R \/ <<j, i>> \in R
    BY <1>2, <1>3
  <2>2. \A i, j, k \in 1..n : <<i, j>> \in R /\ <<j, k>> \in R => <<i, k>> \in R
    BY <1>2, <1>4
  <2> HIDE DEF Earlier
  <2> QED
    BY <2>1, <2>2, SortExists
<1>6. PICK p : IsSorting(p, n, R)
  BY <1>5
<1> DEFINE Sorts(order) == /\ \A i \in 1..n : \E k \in 1..n : order[k] = i
                           /\ \A i, j \in 1..n : i < j =>
                                \/ Before(names[order[i]], names[order[j]])
                                \/ names[order[i]] = names[order[j]] /\ order[i] < order[j]
<1>7. p \in [1..n -> 1..n] /\ Sorts(p)
  BY <1>2, <1>6 DEF IsSorting
<1>8. SortOrder(names) = CHOOSE order \in [1..n -> 1..n] : Sorts(order)
  BY <1>1 DEF SortOrder
<1>9. SortOrder(names) \in [1..n -> 1..n] /\ Sorts(SortOrder(names))
  <2> HIDE DEF Sorts
  <2> QED
    BY <1>7, <1>8
<1> QED
  BY <1>1, <1>9

-----------------------------------------------------------------------------
(* What parse returns, as far as the proofs need it.                       *)

LEMMA RememberType ==
  ASSUME NEW mm \in [Headless -> Kind], NEW S, NEW kind \in {"table", "field"}
  PROVE  Remember(mm, S, kind) \in [Headless -> Kind]
BY DEF Remember, Kind

LEMMA TableType ==
  ASSUME NEW mm \in [Headless -> Kind], NEW r \in Raw
  PROVE  <<"osquery">> \o SanitizeIdentifier(mm, r, "table") \in Table
<1>1. SanitizeIdentifier(mm, r, "table") \in {Normalize(r, "table"), Normalize(r, "field")}
  <2>1. CASE r \in Headless
    <3>1. mm[r] \in {"none", "table", "field"}
      BY <2>1 DEF Kind
    <3> QED
      BY <2>1, <3>1 DEF SanitizeIdentifier
  <2>2. CASE r \notin Headless
    BY <2>2 DEF SanitizeIdentifier
  <2> QED
    BY <2>1, <2>2
<1> QED
  BY <1>1 DEF Table

-----------------------------------------------------------------------------
(* The fields of a message.                                                *)

LEMMA ReadableType ==
  ASSUME NEW m \in Message
  PROVE  /\ m \in Seq(MessageField)
         /\ Readable(m) \in Seq(MessageField)
         /\ Len(Readable(m)) <= Len(m)
         /\ ToSet(Readable(m)) \subseteq ToSet(m)
<1>1. m \in Seq(MessageField)
  BY IngestAssumption
<1> DEFINE I == {i \in 1..Len(m) : m[i].key = "malformed"}
<1>2. CASE I = {}
  <2>1. Readable(m) = m
    BY <1>2 DEF Readable, SelectInSeq
  <2> QED
    BY <1>1, <2>1, LenProperties
<1>3. CASE I # {}
  <2>1. I \in SUBSET Nat
    OBVIOUS
  <2>2. Min(I) \in I
    <3> HIDE DEF I
    <3> QED
      BY <1>3, <2>1, LeastExists
  <2>3. PICK k \in 1..Len(m) : k = Min(I)
    BY <2>2
  <2>4. Readable(m) = SubSeq(m, 1, k - 1)
    <3>1. Readable(m) = LET stop == IF I # {} THEN Min(I) ELSE 0
                        IN  IF stop = 0 THEN m ELSE SubSeq(m, 1, stop - 1)
      BY DEF Readable, SelectInSeq
    <3> HIDE DEF I
    <3> QED
      BY <1>3, <2>3, <3>1
  <2>5. PICK n \in Nat : n = k - 1 /\ n <= Len(m) /\ Len(m) \in Nat
    BY <1>1
  <2>6. SubSeq(m, 1, n) = [i \in 1..n |-> m[i]]
    BY <1>1, <2>5
  <2>7. \A i \in 1..n : i \in DOMAIN m /\ m[i] \in MessageField
    BY <1>1, <2>5
  <2>8. PICK r : r = [i \in 1..n |-> m[i]]
    OBVIOUS
  <2>9. r \in Seq(MessageField) /\ Len(r) = n /\ DOMAIN r = 1..n /\ \A i \in 1..n : r[i] = m[i]
    BY <2>7, <2>8
  <2>10. ToSet(r) \subseteq ToSet(m)
    BY <2>7, <2>9 DEF ToSet
  <2> QED
    BY <1>1, <2>4, <2>5, <2>6, <2>8, <2>9, <2>10
<1> QED
  BY <1>2, <1>3

\* The fields that a branch of the loop takes.
Taken(m, keys) == {f \in ToSet(m) : f.key \in keys}

LEMMA FieldsType ==
  ASSUME NEW m \in Message, NEW keys
  PROVE  /\ Fields(m, keys) \in Seq(MessageField)
         /\ Len(Fields(m, keys)) \in Nat /\ Len(Fields(m, keys)) <= Len(m)
         /\ ToSet(Fields(m, keys)) = ToSet(Readable(m)) \cap Taken(m, keys)
<1>1. Fields(m, keys) = Only(Readable(m), Taken(m, keys))
  BY DEF Fields, Taken
<1>2. Readable(m) \in Seq(MessageField) /\ Len(Readable(m)) <= Len(m) /\ m \in Seq(MessageField)
  BY ReadableType
<1>3. Len(Readable(m)) \in Nat /\ Len(m) \in Nat
  BY <1>2, LenProperties
<1> QED
  BY <1>1, <1>2, <1>3, OnlyMembers, OnlyLength

\* What the proofs use of a field that parse has read.
LEMMA FieldFacts ==
  ASSUME NEW m \in Message, NEW keys, NEW f \in ToSet(Fields(m, keys))
  PROVE  /\ f \in ToSet(m) /\ f.key \in keys /\ f \in MessageField
         /\ f.key \in {"name", "meta", "decoration"} => f.raw \in Raw
<1>1. f \in ToSet(m) /\ f.key \in keys
  BY FieldsType DEF Taken
<1>2. PICK i \in DOMAIN m : f = m[i]
  BY <1>1 DEF ToSet
<1>3. m[i] \in MessageField
  BY ReadableType, LenProperties, ElementOfSeq
<1> QED
  BY <1>1, <1>2, <1>3, IngestAssumption

\* The last field of a branch.
LEMMA LastField ==
  ASSUME NEW m \in Message, NEW keys, Fields(m, keys) # <<>>
  PROVE  Last(Fields(m, keys)) \in ToSet(Fields(m, keys))
<1>1. PICK s \in Seq(MessageField) : s = Fields(m, keys) /\ s # <<>>
  BY FieldsType
<1>2. Len(s) \in DOMAIN s
  BY <1>1
<1> QED
  BY <1>1, <1>2 DEF Last, ToSet

LEMMA CompleteFacts ==
  ASSUME NEW m \in Message, Complete(m)
  PROVE  QueryName(m) \in Raw /\ PayloadRows(m) \in Seq(SUBSET Raw)
<1>1. PICK f : f = Last(Fields(m, {"name"}))
  OBVIOUS
<1>2. f \in ToSet(Fields(m, {"name"}))
  BY <1>1, LastField DEF Complete
<1>3. f.raw \in Raw
  BY <1>2, FieldFacts
<1>4. PICK g : g = Last(Fields(m, {"columns", "snapshot"}))
  OBVIOUS
<1>5. g \in ToSet(Fields(m, {"columns", "snapshot"}))
  BY <1>4, LastField DEF Complete
<1>6. g.rows \in Seq(SUBSET Raw)
  BY <1>5, FieldFacts DEF MessageField
<1> QED
  BY <1>1, <1>3, <1>4, <1>6 DEF QueryName, PayloadRows

-----------------------------------------------------------------------------
(* The metadata columns.                                                   *)

LEMMA NormalizeType ==
  ASSUME NEW r \in Raw, NEW kind \in {"table", "field"}
  PROVE  Normalize(r, kind) \in Identifier
<1>1. Words[r] \in Identifier
  BY ParserAssumption DEF Identifier
<1>2. <<kind>> \in Identifier
  BY ParserAssumption DEF Identifier
<1>3. <<kind>> \o Words[r] \in Identifier
  BY <1>1, <1>2, ConcatProperties DEF Identifier
<1> QED
  BY <1>1, <1>3 DEF Normalize

LEMMA SanitizeKind ==
  ASSUME NEW mm \in [Headless -> Kind], NEW r \in Raw, NEW kind \in {"table", "field"}
  PROVE  /\ SanitizeIdentifier(mm, r, kind) \in Identifier
         /\ \E other \in {"table", "field"} : SanitizeIdentifier(mm, r, kind) = Normalize(r, other)
<1>1. PICK other \in {"table", "field"} : SanitizeIdentifier(mm, r, kind) = Normalize(r, other)
  <2>1. CASE r \in Headless /\ mm[r] # "none"
    <3>1. mm[r] \in {"table", "field"}
      BY <2>1 DEF Kind
    <3>2. SanitizeIdentifier(mm, r, kind) = Normalize(r, mm[r])
      BY <2>1 DEF SanitizeIdentifier
    <3> QED
      BY <3>1, <3>2
  <2>2. CASE ~(r \in Headless /\ mm[r] # "none")
    <3>1. SanitizeIdentifier(mm, r, kind) = Normalize(r, kind)
      BY <2>2 DEF SanitizeIdentifier
    <3> QED
      BY <3>1
  <2> QED
    BY <2>1, <2>2
<1> QED
  BY <1>1, NormalizeType

MetaColumn == [name: Seq(Origin \cup ToSet(Alphabet)),
               type: {"string", "long", "boolean", "timestamp"}, cell: Seq(Origin)]

\* The columns that metadata fields can be given.
MetaChoice(mm, m) == {MetaField(mm, f) : f \in ToSet(MetaFields(m))}
StampChoice == {Stamp(<<"meta", "time">>), Stamp(<<"meta", "ingest", "time">>)}

\* The parts of assembleFinalMetaFields.
Others(mm, m) == [i \in DOMAIN MetaFields(m) |-> MetaField(mm, MetaFields(m)[i])]
NamesOf(columns) == [i \in DOMAIN columns |-> columns[i].name]
SortedOthers(mm, m) ==
  [i \in DOMAIN Others(mm, m) |-> Others(mm, m)[SortOrder(NamesOf(Others(mm, m)))[i]]]
TimeStamps(m) ==
  (IF Fields(m, {"time"}) = <<>> THEN <<>> ELSE <<Stamp(<<"meta", "time">>)>>)
  \o <<Stamp(<<"meta", "ingest", "time">>)>>

LEMMA AssembleParts ==
  \A mm, m : AssembleFinalMetaFields(mm, m) = TimeStamps(m) \o SortedOthers(mm, m)
BY DEF AssembleFinalMetaFields, TimeStamps, SortedOthers, Others, NamesOf

LEMMA MetaFieldType ==
  ASSUME NEW mm \in [Headless -> Kind], NEW m \in Message, NEW f \in ToSet(MetaFields(m))
  PROVE  /\ MetaField(mm, f) \in MetaColumn
         /\ MetaField(mm, f).name \in Identifier
         /\ MetaField(mm, f).name = <<f.key>> \o SanitizeIdentifier(mm, f.raw, "field")
         /\ MetaField(mm, f).cell = <<f.key, f.raw>>
         /\ f.key \in {"meta", "decoration"} /\ f.raw \in Raw
<1>1. f.key \in {"meta", "decoration"} /\ f.raw \in Raw /\ f \in MessageField
  BY FieldFacts DEF MetaFields
<1>2. PICK w \in Identifier : w = SanitizeIdentifier(mm, f.raw, "field")
  BY <1>1, SanitizeKind
<1>3. <<f.key>> \in Identifier
  BY <1>1, ParserAssumption DEF Identifier
<1>4. PICK v \in Identifier : v = <<f.key>> \o w
  BY <1>2, <1>3, ConcatProperties DEF Identifier
<1>5. f.type \in {"string", "long", "boolean", "timestamp"}
  BY <1>1 DEF MessageField
<1>5a. f.key \in Origin /\ f.raw \in Origin
  BY <1>1 DEF Origin
<1>6. PICK c \in Seq(Origin) : c = <<f.key, f.raw>>
  <2>1. <<f.key, f.raw>> \in Seq(Origin)
    BY <1>5a
  <2> QED
    BY <2>1
<1>7. MetaField(mm, f) = [name |-> v, type |-> f.type, cell |-> c]
  BY <1>2, <1>4, <1>6 DEF MetaField
<1>8. v \in Seq(Origin \cup ToSet(Alphabet))
  BY DEF Identifier
<1> QED
  BY <1>1, <1>2, <1>4, <1>5, <1>6, <1>7, <1>8 DEF MetaColumn

LEMMA OthersType ==
  ASSUME NEW mm \in [Headless -> Kind], NEW m \in Message
  PROVE  /\ Others(mm, m) \in Seq(MetaChoice(mm, m))
         /\ Len(Others(mm, m)) = Len(MetaFields(m)) /\ Len(MetaFields(m)) \in Nat
         /\ Len(MetaFields(m)) <= Len(m)
         /\ ToSet(Others(mm, m)) = MetaChoice(mm, m)
         /\ NamesOf(Others(mm, m)) \in Seq(Identifier)
         /\ Len(NamesOf(Others(mm, m))) = Len(MetaFields(m))
<1>1. PICK s \in Seq(MessageField) : s = MetaFields(m) /\ Len(s) <= Len(m)
  BY FieldsType DEF MetaFields
<1>2. PICK n \in Nat : n = Len(s) /\ DOMAIN s = 1..n
  BY <1>1
<1>3. ToSet(s) = {s[i] : i \in 1..n}
  BY <1>2 DEF ToSet
<1>4. PICK o : o = Others(mm, m) /\ o = [i \in 1..n |-> MetaField(mm, s[i])]
  BY <1>1, <1>2 DEF Others
<1>5. \A i \in 1..n : o[i] \in MetaChoice(mm, m) /\ o[i].name \in Identifier
  <2> TAKE i \in 1..n
  <2>1. PICK f \in ToSet(MetaFields(m)) : f = s[i] /\ o[i] = MetaField(mm, f)
    BY <1>1, <1>3, <1>4
  <2> QED
    BY <2>1, MetaFieldType DEF MetaChoice
<1>6. o \in Seq(MetaChoice(mm, m)) /\ Len(o) = n /\ DOMAIN o = 1..n
  BY <1>4, <1>5
<1>7. ToSet(o) = MetaChoice(mm, m)
  <2>1. ToSet(o) = {MetaField(mm, s[i]) : i \in 1..n}
    BY <1>4, <1>6 DEF ToSet
  <2>2. MetaChoice(mm, m) = {MetaField(mm, f) : f \in {s[i] : i \in 1..n}}
    BY <1>1, <1>3 DEF MetaChoice
  <2> QED
    BY <2>1, <2>2
<1>8. PICK v : v = NamesOf(o) /\ v = [i \in 1..n |-> o[i].name]
  BY <1>6 DEF NamesOf
<1>9. v \in Seq(Identifier) /\ Len(v) = n
  BY <1>5, <1>8
<1> QED
  BY <1>1, <1>2, <1>4, <1>6, <1>7, <1>8, <1>9

LEMMA SortedOthersType ==
  ASSUME NEW mm \in [Headless -> Kind], NEW m \in Message
  PROVE  /\ SortedOthers(mm, m) \in Seq(MetaChoice(mm, m))
         /\ Len(SortedOthers(mm, m)) = Len(MetaFields(m))
         /\ ToSet(SortedOthers(mm, m)) = MetaChoice(mm, m)
         /\ \A i, j \in 1..Len(SortedOthers(mm, m)) : i < j =>
              \/ Before(SortedOthers(mm, m)[i].name, SortedOthers(mm, m)[j].name)
              \/ SortedOthers(mm, m)[i].name = SortedOthers(mm, m)[j].name
<1>1. PICK n \in Nat, o \in Seq(MetaChoice(mm, m)) :
        n = Len(MetaFields(m)) /\ o = Others(mm, m) /\ Len(o) = n /\ ToSet(o) = MetaChoice(mm, m)
  BY OthersType
<1>2. PICK v \in Seq(Identifier) : v = NamesOf(o) /\ Len(v) = n
  BY <1>1, OthersType
<1>3. DOMAIN o = 1..n /\ \A i \in 1..n : v[i] = o[i].name /\ o[i] \in MetaChoice(mm, m)
  BY <1>1, <1>2 DEF NamesOf
<1>4. PICK p : p = SortOrder(v)
  OBVIOUS
<1>5. /\ p \in [1..n -> 1..n]
      /\ \A i \in 1..n : \E k \in 1..n : p[k] = i
      /\ \A i, j \in 1..n : i < j => Before(v[p[i]], v[p[j]]) \/ v[p[i]] = v[p[j]]
  <2>1. /\ SortOrder(v) \in [1..Len(v) -> 1..Len(v)]
        /\ \A i \in 1..Len(v) : \E k \in 1..Len(v) : SortOrder(v)[k] = i
    BY SortOrderExists
  <2>2. \A i, j \in 1..Len(v) : i < j =>
              \/ Before(v[SortOrder(v)[i]], v[SortOrder(v)[j]])
              \/ v[SortOrder(v)[i]] = v[SortOrder(v)[j]]
    BY SortOrderExists
  <2> QED
    BY <1>2, <1>4, <2>1, <2>2
<1>6. PICK s : s = SortedOthers(mm, m) /\ s = [i \in 1..n |-> o[p[i]]]
  BY <1>1, <1>2, <1>3, <1>4 DEF SortedOthers
<1>7. s \in Seq(MetaChoice(mm, m)) /\ Len(s) = n /\ DOMAIN s = 1..n
  BY <1>3, <1>5, <1>6
<1>8. ToSet(s) = ToSet(o)
  <2>1. ToSet(s) = {o[p[i]] : i \in 1..n} /\ ToSet(o) = {o[i] : i \in 1..n}
    <3>1. ToSet(s) = {s[i] : i \in 1..n}
      BY <1>7 DEF ToSet
    <3>2. \A i \in 1..n : s[i] = o[p[i]]
      BY <1>6
    <3>3. ToSet(o) = {o[i] : i \in 1..n}
      BY <1>3 DEF ToSet
    <3> QED
      BY <3>1, <3>2, <3>3
  <2>2. ASSUME NEW x \in ToSet(s) PROVE x \in ToSet(o)
    <3>1. PICK i \in 1..n : x = o[p[i]]
      BY <2>1
    <3>2. p[i] \in 1..n
      BY <1>5
    <3> QED
      BY <2>1, <3>1, <3>2
  <2>3. ASSUME NEW x \in ToSet(o) PROVE x \in ToSet(s)
    <3>1. PICK i \in 1..n : x = o[i]
      BY <2>1
    <3>2. PICK k \in 1..n : p[k] = i
      BY <1>5
    <3> QED
      BY <2>1, <3>1, <3>2
  <2> QED
    BY <2>2, <2>3
<1>9. \A i, j \in 1..n : i < j => Before(s[i].name, s[j].name) \/ s[i].name = s[j].name
  <2> TAKE i, j \in 1..n
  <2>1. p[i] \in 1..n /\ p[j] \in 1..n
    BY <1>5
  <2>2. s[i].name = v[p[i]] /\ s[j].name = v[p[j]]
    BY <1>3, <1>6, <2>1
  <2> QED
    BY <1>5, <2>2
<1> QED
  BY <1>1, <1>6, <1>7, <1>8, <1>9

LEMMA TimeStampsType ==
  ASSUME NEW m
  PROVE  /\ TimeStamps(m) \in Seq(StampChoice)
         /\ Len(TimeStamps(m)) \in Nat /\ Len(TimeStamps(m)) <= 2
<1>1. PICK a, b : a = Stamp(<<"meta", "time">>) /\ b = Stamp(<<"meta", "ingest", "time">>)
  OBVIOUS
<1>2. StampChoice = {a, b}
  BY <1>1 DEF StampChoice
<1>3. TimeStamps(m) = (IF Fields(m, {"time"}) = <<>> THEN <<>> ELSE <<a>>) \o <<b>>
  BY <1>1 DEF TimeStamps
<1>4. PICK s, t : s = (IF Fields(m, {"time"}) = <<>> THEN <<>> ELSE <<a>>) /\ t = <<b>>
  OBVIOUS
<1>5. s \in Seq({a, b}) /\ Len(s) \in Nat /\ Len(s) <= 1
  <2>1. CASE s = <<>>
    BY <2>1, EmptySeq
  <2>2. CASE s = <<a>>
    BY <2>2
  <2> QED
    BY <1>4, <2>1, <2>2
<1>6. t \in Seq({a, b}) /\ Len(t) = 1
  BY <1>4
<1>7. s \o t \in Seq({a, b}) /\ Len(s \o t) = Len(s) + Len(t)
  BY <1>5, <1>6, ConcatProperties
<1> QED
  BY <1>2, <1>3, <1>4, <1>5, <1>6, <1>7

LEMMA StampType == \A c \in StampChoice : c \in MetaColumn
<1>0. ASSUME NEW what \in Seq(Origin) PROVE Stamp(what) \in MetaColumn
  <2>1. <<"stamp">> \in Seq(Origin)
    BY DEF Origin
  <2>2. <<"stamp">> \o what \in Seq(Origin)
    BY <2>1, ConcatProperties
  <2>3. what \in Seq(Origin \cup ToSet(Alphabet))
    OBVIOUS
  <2> HIDE DEF Origin
  <2> QED
    BY <2>2, <2>3 DEF Stamp, MetaColumn
<1>1. Stamp(<<"meta", "time">>) \in MetaColumn
  <2>1. <<"meta", "time">> \in Seq(Origin)
    BY DEF Origin
  <2> QED
    BY <1>0, <2>1
<1>2. Stamp(<<"meta", "ingest", "time">>) \in MetaColumn
  <2>1. <<"meta", "ingest", "time">> \in Seq(Origin)
    BY DEF Origin
  <2> QED
    BY <1>0, <2>1
<1> QED
  BY <1>1, <1>2 DEF StampChoice

LEMMA AssembleType ==
  ASSUME NEW mm \in [Headless -> Kind], NEW m \in Message
  PROVE  /\ AssembleFinalMetaFields(mm, m) \in Seq(StampChoice \cup MetaChoice(mm, m))
         /\ AssembleFinalMetaFields(mm, m) \in Seq(MetaColumn)
         /\ Len(AssembleFinalMetaFields(mm, m)) \in Nat
         /\ Len(AssembleFinalMetaFields(mm, m)) <= Len(m) + 2
<1>1. PICK V : V = StampChoice \cup MetaChoice(mm, m)
  OBVIOUS
<1>2. PICK t \in Seq(V) : t = TimeStamps(m) /\ Len(t) \in Nat /\ Len(t) <= 2
  BY <1>1, TimeStampsType
<1>3. PICK s \in Seq(V) : s = SortedOthers(mm, m) /\ Len(s) \in Nat /\ Len(s) <= Len(m)
  BY <1>1, SortedOthersType, OthersType
<1>4. AssembleFinalMetaFields(mm, m) = t \o s
  BY <1>2, <1>3, AssembleParts
<1>5. t \o s \in Seq(V) /\ Len(t \o s) = Len(t) + Len(s)
  BY ConcatProperties
<1>6. V \subseteq MetaColumn
  BY <1>1, StampType, MetaFieldType DEF MetaChoice
<1>7. Len(m) \in Nat
  BY ReadableType, LenProperties
<1> QED
  BY <1>1, <1>2, <1>3, <1>4, <1>5, <1>6, <1>7

-----------------------------------------------------------------------------
(* The payload columns.                                                    *)

LEMMA SortedKeysType ==
  ASSUME NEW row \in SUBSET Raw
  PROVE  /\ SortedKeys(row) \in Seq(Raw)
         /\ Len(SortedKeys(row)) \in Nat /\ Len(SortedKeys(row)) <= Len(Keys)
         /\ DOMAIN SortedKeys(row) = 1..Len(SortedKeys(row))
         /\ ToSet(SortedKeys(row)) = row
<1>1. Keys \in Seq(Raw)
  BY ParserAssumption
<1>2. PICK s \in Seq(Raw) : /\ s = SortedKeys(row) /\ Len(s) \in Nat /\ Len(s) <= Len(Keys)
                            /\ ToSet(s) = Raw \cap row
  BY <1>1, OnlyMembers, OnlyLength DEF SortedKeys, Raw
<1>3. DOMAIN s = 1..Len(s)
  BY LenProperties
<1> QED
  BY <1>2, <1>3

LEMMA ImageIsFinite ==
  ASSUME NEW n \in Nat, NEW f
  PROVE  IsFiniteSet({f[k] : k \in 1..n}) /\ Cardinality({f[k] : k \in 1..n}) <= n
<1>1. IsFiniteSet(1..n) /\ Cardinality(1..n) = n
  <2>1. 1 \in Int /\ n \in Int /\ (IF 1 > n THEN 0 ELSE n - 1 + 1) = n
    OBVIOUS
  <2> QED
    BY <2>1, FS_Interval
<1>2. PICK T : T = {f[k] : k \in 1..n}
  OBVIOUS
<1>3. PICK g : g = [k \in 1..n |-> f[k]]
  OBVIOUS
<1>4. g \in Surjection(1..n, T)
  BY <1>2, <1>3 DEF Surjection
<1>5. IsFiniteSet(T) /\ Cardinality(T) <= Cardinality(1..n)
  BY <1>1, <1>4, FS_Surjection
<1> QED
  BY <1>1, <1>2, <1>5

\* Numbers up to k are written differently.
Written(k) == \A i, j \in 2..(k + 2) : ToString(i) = ToString(j) => i = j

LEMMA FreeNameIsFree ==
  ASSUME NEW name \in Identifier, NEW taken, IsFiniteSet(taken), NEW k \in Nat,
         Cardinality(taken) <= k, Written(k)
  PROVE  /\ FreeName(name, taken) \notin taken
         /\ \/ FreeName(name, taken) = name
            \/ \E n \in 2..(k + 2) : FreeName(name, taken) = Append(name, ToString(n))
<1>1. CASE name \notin taken
  BY <1>1 DEF FreeName
<1>2. CASE name \in taken
  <2>1. PICK c \in Nat : c = Cardinality(taken) /\ c <= k
    BY FS_CardinalityType
  <2>2. PICK f : \A n \in 2..(c + 2) : f[n] = Append(name, ToString(n))
    <3>1. \A n \in 2..(c + 2) : [i \in 2..(c + 2) |-> Append(name, ToString(i))][n]
                                  = Append(name, ToString(n))
      OBVIOUS
    <3> QED
      BY <3>1
  <2>3. \A i, j \in 2..(c + 2) : f[i] = f[j] => i = j
    <3> SUFFICES ASSUME NEW i \in 2..(c + 2), NEW j \in 2..(c + 2), f[i] = f[j] PROVE i = j
      OBVIOUS
    <3>1. PICK x, y, S : /\ x = ToString(i) /\ y = ToString(j)
                         /\ S = ToSet(Alphabet) \cup {x, y}
      OBVIOUS
    <3>2. name \in Seq(S) /\ x \in S /\ y \in S
      BY <3>1 DEF Identifier
    <3>3. Append(name, x)[Len(name) + 1] = x /\ Append(name, y)[Len(name) + 1] = y
      BY <3>2, AppendProperties
    <3>4. Append(name, x) = Append(name, y)
      BY <2>2, <3>1
    <3>5. x = y
      BY <3>3, <3>4
    <3>6. i \in 2..(k + 2) /\ j \in 2..(k + 2)
      BY <2>1
    <3> QED
      BY <3>1, <3>5, <3>6 DEF Written
  <2>4. PICK n \in 2..(c + 2) : f[n] \notin taken
    BY <2>1, <2>3, OneIsFree
  <2> DEFINE free == {i \in 2..(c + 2) : Append(name, ToString(i)) \notin taken}
  <2>5. Min(free) \in free
    <3>0. n \in free
      BY <2>2, <2>4
    <3>1. free \in SUBSET Nat /\ free # {}
      BY <3>0
    <3> HIDE DEF free
    <3> QED
      BY <3>1, LeastExists
  <2>6. FreeName(name, taken) = Append(name, ToString(Min(free)))
    BY <1>2, <2>1 DEF FreeName
  <2>7. PICK l \in 2..(c + 2) : l = Min(free) /\ Append(name, ToString(l)) \notin taken
    BY <2>5
  <2> HIDE DEF free
  <2>8. l \in 2..(k + 2)
    BY <2>1
  <2> QED
    BY <2>6, <2>7, <2>8
<1> QED
  BY <1>1, <1>2

\* The names given before the i-th.
Prior(f, i) == {f[k] : k \in 1..(i - 1)}
NamesBody(f, base, reserved, n) == [i \in 1..n |-> FreeName(base[i], reserved \cup Prior(f, i))]
IsNames(f, base, reserved, n) == f = NamesBody(f, base, reserved, n)

LEMMA NamesExtend ==
  ASSUME NEW base, NEW reserved, NEW n \in Nat, NEW f, IsNames(f, base, reserved, n)
  PROVE  \E g : IsNames(g, base, reserved, n + 1)
<1> DEFINE g == [i \in 1..(n + 1) |->
                   IF i = n + 1 THEN FreeName(base[i], reserved \cup Prior(f, i)) ELSE f[i]]
<1>1. \A i \in 1..(n + 1) : Prior(g, i) = Prior(f, i)
  <2> SUFFICES ASSUME NEW i \in 1..(n + 1) PROVE Prior(g, i) = Prior(f, i)
    OBVIOUS
  <2>1. \A k \in 1..(i - 1) : k \in 1..(n + 1) /\ k # n + 1
    OBVIOUS
  <2>2. \A k \in 1..(i - 1) : g[k] = f[k]
    BY <2>1
  <2> HIDE DEF g
  <2> QED
    BY <2>2 DEF Prior
<1>2. \A i \in 1..(n + 1) : g[i] = FreeName(base[i], reserved \cup Prior(f, i))
  <2> SUFFICES ASSUME NEW i \in 1..(n + 1)
               PROVE  g[i] = FreeName(base[i], reserved \cup Prior(f, i))
    OBVIOUS
  <2>1. CASE i = n + 1
    BY <2>1
  <2>2. CASE i # n + 1
    <3>1. i \in 1..n
      BY <2>2
    <3>2. f[i] = NamesBody(f, base, reserved, n)[i]
      BY DEF IsNames
    <3>3. f[i] = FreeName(base[i], reserved \cup Prior(f, i))
      BY <3>1, <3>2 DEF NamesBody
    <3> QED
      BY <2>2, <3>3
  <2> QED
    BY <2>1, <2>2
<1>3. g = [i \in 1..(n + 1) |-> g[i]]
  OBVIOUS
<1> HIDE DEF g
<1>4. [i \in 1..(n + 1) |-> g[i]] = NamesBody(g, base, reserved, n + 1)
  BY <1>1, <1>2 DEF NamesBody
<1> QED
  BY <1>3, <1>4 DEF IsNames

LEMMA NamesExist ==
  ASSUME NEW base, NEW reserved, NEW n \in Nat
  PROVE  \E f : IsNames(f, base, reserved, n)
<1> DEFINE T == {k \in Nat : \E f : IsNames(f, base, reserved, k)}
<1>1. 0 \in T
  <2>1. IsNames([i \in 1..0 |-> i], base, reserved, 0)
    BY DEF IsNames, NamesBody
  <2> QED
    BY <2>1
<1>2. ASSUME NEW k \in T PROVE k + 1 \in T
  BY NamesExtend
<1> HIDE DEF T
<1>3. T = Nat
  BY <1>1, <1>2, NatSetInduction DEF T
<1> QED
  BY <1>3 DEF T

\* The body of the recursive function of sanitizePayloadColumns.
GivenNames(f, mm, meta, row) ==
  [n \in DOMAIN SortedKeys(row) |->
     FreeName(SanitizeIdentifier(mm, SortedKeys(row)[n], "field"),
              {meta[i].name : i \in DOMAIN meta} \cup {f[k] : k \in 1..(n - 1)})]

LEMMA NamesAreChosen ==
  ASSUME NEW mm, NEW meta, NEW row
  PROVE  SanitizePayloadColumns(mm, meta, row) = CHOOSE f : f = GivenNames(f, mm, meta, row)
BY DEF SanitizePayloadColumns, GivenNames

\* They are determined by the identifiers of the keys and the names of the metadata.
LEMMA NamesGiven ==
  ASSUME NEW mm, NEW meta \in Seq(MetaColumn), NEW row \in SUBSET Raw, NEW n, n = Len(SortedKeys(row)),
         NEW base, \A i \in 1..n : base[i] = SanitizeIdentifier(mm, SortedKeys(row)[i], "field"),
         NEW reserved, reserved = {meta[i].name : i \in 1..Len(meta)},
         NEW v, v = SanitizePayloadColumns(mm, meta, row)
  PROVE  IsNames(v, base, reserved, n)
<1>1. n \in Nat /\ DOMAIN SortedKeys(row) = 1..n /\ DOMAIN meta = 1..Len(meta)
  BY SortedKeysType, LenProperties
<1>2. \A f : GivenNames(f, mm, meta, row) = NamesBody(f, base, reserved, n)
  BY <1>1 DEF GivenNames, NamesBody, Prior
<1>3. PICK f : f = NamesBody(f, base, reserved, n)
  BY <1>1, NamesExist DEF IsNames
<1>4. f = GivenNames(f, mm, meta, row)
  BY <1>2, <1>3
<1>5. v = GivenNames(v, mm, meta, row)
  BY <1>4, NamesAreChosen
<1> QED
  BY <1>2, <1>5 DEF IsNames

LEMMA NamesUnique ==
  ASSUME NEW base, NEW reserved, NEW n \in Nat, NEW f, NEW g,
         IsNames(f, base, reserved, n), IsNames(g, base, reserved, n)
  PROVE  f = g
<1>1. /\ f = [i \in 1..n |-> FreeName(base[i], reserved \cup Prior(f, i))]
      /\ g = [i \in 1..n |-> FreeName(base[i], reserved \cup Prior(g, i))]
  BY DEF IsNames, NamesBody
<1> DEFINE T == {k \in Nat : \A i \in 1..n : i <= k => f[i] = g[i]}
<1>2. 0 \in T
  OBVIOUS
<1>3. ASSUME NEW k \in T PROVE k + 1 \in T
  <2> SUFFICES ASSUME k + 1 \in 1..n PROVE f[k + 1] = g[k + 1]
    <3>1. \A i \in 1..n : i <= k + 1 => i <= k \/ i = k + 1
      OBVIOUS
    <3> QED
      BY <3>1
  <2>1. \A i \in 1..((k + 1) - 1) : f[i] = g[i]
    OBVIOUS
  <2> HIDE DEF T
  <2>2. Prior(f, k + 1) = Prior(g, k + 1)
    BY <2>1 DEF Prior
  <2> QED
    BY <1>1, <2>2
<1> HIDE DEF T
<1>4. T = Nat
  BY <1>2, <1>3, NatSetInduction DEF T
<1>5. \A i \in 1..n : f[i] = g[i]
  BY <1>4 DEF T
<1>6. DOMAIN f = 1..n /\ DOMAIN g = 1..n /\ f = [i \in DOMAIN f |-> f[i]] /\ g = [i \in DOMAIN g |-> g[i]]
  BY <1>1
<1> QED
  BY <1>5, <1>6

\* What sanitizePayloadColumns does: each key gets its identifier or a suffix to it, and a
\* name that neither the metadata nor an earlier key has; its identifier is some column's.
WellNamed(v, mm, meta, keys, n) ==
  /\ n \in Nat /\ DOMAIN v = 1..n
  /\ \A i \in 1..n :
       /\ \A j \in 1..Len(meta) : v[i] # meta[j].name
       /\ \A k \in 1..n : k < i => v[i] # v[k]
       /\ \/ v[i] = SanitizeIdentifier(mm, keys[i], "field")
          \/ \E s \in 2..(Len(meta) + i + 1) :
               v[i] = Append(SanitizeIdentifier(mm, keys[i], "field"), ToString(s))
       /\ \/ \E j \in 1..Len(meta) : meta[j].name = SanitizeIdentifier(mm, keys[i], "field")
          \/ \E k \in 1..n : v[k] = SanitizeIdentifier(mm, keys[i], "field")

LEMMA PayloadNames ==
  ASSUME NEW mm \in [Headless -> Kind], NEW m \in Message, NEW meta \in Seq(MetaColumn),
         Len(meta) <= Len(m) + 2, NEW row \in SUBSET Raw, NEW n, n = Len(SortedKeys(row)),
         NEW v, v = SanitizePayloadColumns(mm, meta, row)
  PROVE  WellNamed(v, mm, meta, SortedKeys(row), n)
<1>1. PICK keys \in Seq(Raw) : /\ keys = SortedKeys(row) /\ n = Len(keys) /\ n \in Nat
                               /\ n <= Len(Keys) /\ DOMAIN keys = 1..n
  BY SortedKeysType
<1>2. PICK base : \A i \in 1..n : base[i] = SanitizeIdentifier(mm, keys[i], "field")
  <2>1. \A i \in 1..n : [k \in 1..n |-> SanitizeIdentifier(mm, keys[k], "field")][i]
                          = SanitizeIdentifier(mm, keys[i], "field")
    OBVIOUS
  <2> QED
    BY <2>1
<1>3. PICK L \in Nat : L = Len(meta) /\ DOMAIN meta = 1..L
  OBVIOUS
<1>4. PICK reserved : reserved = {meta[i].name : i \in 1..L}
  OBVIOUS
<1>6. IsNames(v, base, reserved, n)
  BY <1>1, <1>2, <1>3, <1>4, NamesGiven
<1>7. DOMAIN v = 1..n /\ \A i \in 1..n : v[i] = FreeName(base[i], reserved \cup Prior(v, i))
  <2>1. v = [i \in 1..n |-> FreeName(base[i], reserved \cup Prior(v, i))]
    BY <1>6 DEF IsNames, NamesBody
  <2> QED
    BY <2>1
<1>8. IsFiniteSet(reserved) /\ Cardinality(reserved) <= L
  <2>1. PICK f : \A j \in 1..L : f[j] = meta[j].name
    <3>1. \A j \in 1..L : [k \in 1..L |-> meta[k].name][j] = meta[j].name
      OBVIOUS
    <3> QED
      BY <3>1
  <2>2. reserved = {f[j] : j \in 1..L}
    BY <1>4, <2>1
  <2> QED
    BY <2>2, ImageIsFinite
<1>9. ASSUME NEW i \in 1..n
      PROVE  /\ v[i] \notin reserved \cup Prior(v, i)
             /\ v[i] = base[i] \/ \E s \in 2..(L + i + 1) : v[i] = Append(base[i], ToString(s))
  <2>1. PICK h \in Nat : h = i - 1
    OBVIOUS
  <2>2. IsFiniteSet(Prior(v, i)) /\ Cardinality(Prior(v, i)) <= h
    BY <2>1, ImageIsFinite DEF Prior
  <2>3. PICK taken : taken = reserved \cup Prior(v, i)
    OBVIOUS
  <2>4. IsFiniteSet(taken) /\ Cardinality(taken) <= L + h
    <3>1. /\ IsFiniteSet(taken)
          /\ Cardinality(taken) = Cardinality(reserved) + Cardinality(Prior(v, i))
                                    - Cardinality(reserved \cap Prior(v, i))
      BY <1>8, <2>2, <2>3, FS_Union
    <3>2. reserved \cap Prior(v, i) \in SUBSET reserved
      OBVIOUS
    <3>3. Cardinality(reserved \cap Prior(v, i)) \in Nat
      BY <1>8, <3>2, FS_Subset, FS_CardinalityType
    <3>4. Cardinality(reserved) \in Nat /\ Cardinality(Prior(v, i)) \in Nat
      BY <1>8, <2>2, FS_CardinalityType
    <3> QED
      BY <1>8, <2>2, <3>1, <3>3, <3>4
  <2>5. Written(L + h)
    <3>1. Len(m) \in Nat /\ Len(Keys) \in Nat
      BY ReadableType, ParserAssumption, LenProperties
    <3>2. \A s \in 2..(L + h + 2) : s \in 2..(Len(m) + Len(Keys) + 4)
      BY <1>1, <1>3, <2>1, <3>1
    <3> QED
      BY <3>2, SuffixAssumption DEF Written
  <2>6. base[i] \in Identifier
    <3>1. keys[i] \in Raw
      BY <1>1
    <3> QED
      BY <1>2, <3>1, SanitizeKind
  <2>7. PICK k \in Nat : k = L + h /\ k + 2 = L + i + 1
    BY <2>1
  <2>8. PICK name \in Identifier : name = base[i]
    BY <2>6
  <2>9. Written(k) /\ Cardinality(taken) <= k /\ IsFiniteSet(taken)
    BY <2>4, <2>5, <2>7
  <2>10. /\ FreeName(name, taken) \notin taken
         /\ \/ FreeName(name, taken) = name
            \/ \E s \in 2..(k + 2) : FreeName(name, taken) = Append(name, ToString(s))
    BY <2>9, FreeNameIsFree
  <2>11. v[i] = FreeName(name, taken)
    BY <1>7, <2>3, <2>8
  <2> QED
    BY <2>3, <2>7, <2>8, <2>10, <2>11
<1>10. ASSUME NEW i \in 1..n
       PROVE  /\ \A j \in 1..Len(meta) : v[i] # meta[j].name
              /\ \A k \in 1..n : k < i => v[i] # v[k]
  <2>1. \A k \in 1..n : k < i => k \in 1..(i - 1)
    OBVIOUS
  <2> QED
    BY <1>3, <1>4, <1>9, <2>1 DEF Prior
<1>11. ASSUME NEW i \in 1..n
       PROVE  \/ \E j \in 1..Len(meta) : meta[j].name = base[i]
              \/ \E k \in 1..n : v[k] = base[i]
  <2>1. PICK taken : taken = reserved \cup Prior(v, i)
    OBVIOUS
  <2>2. v[i] = FreeName(base[i], taken)
    BY <1>7, <2>1
  <2>3. base[i] \notin taken => v[i] = base[i]
    BY <2>2 DEF FreeName
  <2>4. CASE base[i] \in reserved
    BY <1>3, <1>4, <2>4
  <2>5. CASE base[i] \in Prior(v, i)
    <3>1. PICK k \in 1..(i - 1) : v[k] = base[i]
      BY <2>5 DEF Prior
    <3>2. k \in 1..n
      BY <1>1
    <3> QED
      BY <3>1, <3>2
  <2> QED
    BY <2>1, <2>3, <2>4, <2>5
<1>12. \A i \in 1..n :
         \/ \E j \in 1..Len(meta) : meta[j].name = SanitizeIdentifier(mm, keys[i], "field")
         \/ \E k \in 1..n : v[k] = SanitizeIdentifier(mm, keys[i], "field")
  BY <1>2, <1>11
<1>13. \A i \in 1..n :
         \/ v[i] = SanitizeIdentifier(mm, keys[i], "field")
         \/ \E s \in 2..(Len(meta) + i + 1) :
              v[i] = Append(SanitizeIdentifier(mm, keys[i], "field"), ToString(s))
  BY <1>2, <1>3, <1>9
<1> QED
  BY <1>1, <1>7, <1>10, <1>12, <1>13 DEF WellNamed

-----------------------------------------------------------------------------
(* Columns and cells.                                                      *)

\* The columns are those of the metadata and then the n of the payload, with names v.
IsColumns(c, meta, n, v) ==
  /\ Len(c) = Len(meta) + n /\ DOMAIN c = 1..(Len(meta) + n)
  /\ \A i \in 1..Len(meta) : c[i] = [name |-> meta[i].name, type |-> meta[i].type]
  /\ \A i \in 1..n : c[Len(meta) + i] = [name |-> v[i], type |-> "string"]
  /\ \A k \in 1..(Len(meta) + n) : k \in 1..Len(meta) \/ \E i \in 1..n : k = Len(meta) + i

LEMMA ColumnsFacts ==
  ASSUME NEW mm \in [Headless -> Kind], NEW m \in Message, NEW meta \in Seq(MetaColumn),
         Len(meta) <= Len(m) + 2, NEW row \in SUBSET Raw, NEW n, n = Len(SortedKeys(row)),
         NEW v, v = SanitizePayloadColumns(mm, meta, row)
  PROVE  IsColumns(Columns(mm, meta, row), meta, n, v)
<1>0. PICK L : L = Len(meta)
  OBVIOUS
<1>c. PICK c : c = Columns(mm, meta, row)
  OBVIOUS
<1>1. n \in Nat /\ DOMAIN v = 1..n /\ L \in Nat /\ DOMAIN meta = 1..L
  BY <1>0, PayloadNames DEF WellNamed
<1>2. PICK a : a = [i \in 1..L |-> [name |-> meta[i].name, type |-> meta[i].type]]
  OBVIOUS
<1>3. PICK b : b = [i \in 1..n |-> [name |-> v[i], type |-> "string"]]
  OBVIOUS
<1>4. c = a \o b
  BY <1>c, <1>1, <1>2, <1>3 DEF Columns
<1>5. PICK S : S = {a[i] : i \in 1..L} \cup {b[i] : i \in 1..n}
  OBVIOUS
<1>6. a \in Seq(S) /\ Len(a) = L
  BY <1>1, <1>2, <1>5
<1>7. b \in Seq(S) /\ Len(b) = n
  BY <1>1, <1>3, <1>5
<1>8. /\ Len(c) = L + n /\ DOMAIN c = 1..(L + n)
      /\ \A i \in 1..L : c[i] = a[i]
      /\ \A i \in 1..n : c[L + i] = b[i]
      /\ \A k \in 1..(L + n) : k \in 1..L \/ \E i \in 1..n : k = L + i
  <2>1. IsJoin(c, a, b)
    BY <1>4, <1>6, <1>7, JoinFacts
  <2> QED
    BY <1>6, <1>7, <2>1 DEF IsJoin
<1>9. /\ \A i \in 1..L : c[i] = [name |-> meta[i].name, type |-> meta[i].type]
      /\ \A i \in 1..n : c[L + i] = [name |-> v[i], type |-> "string"]
  BY <1>2, <1>3, <1>8
<1> QED
  BY <1>0, <1>c, <1>8, <1>9 DEF IsColumns

\* The cells are those of the metadata and then those of the n keys.
IsCells(d, meta, n, keys) ==
  /\ Len(d) = Len(meta) + n /\ DOMAIN d = 1..(Len(meta) + n)
  /\ \A i \in 1..Len(meta) : d[i] = meta[i].cell
  /\ \A i \in 1..n : d[Len(meta) + i] = <<"row", keys[i]>>

LEMMA RowDataFacts ==
  ASSUME NEW meta \in Seq(MetaColumn), NEW row \in SUBSET Raw
  PROVE  /\ RowData(meta, row) \in Seq(Seq(Origin))
         /\ IsCells(RowData(meta, row), meta, Len(SortedKeys(row)), SortedKeys(row))
<1>a. PICK L : L = Len(meta)
  OBVIOUS
<1>b. PICK n : n = Len(SortedKeys(row))
  OBVIOUS
<1>c. PICK d : d = RowData(meta, row)
  OBVIOUS
<1>1. PICK keys \in Seq(Raw) : keys = SortedKeys(row) /\ n = Len(keys) /\ n \in Nat /\ DOMAIN keys = 1..n
  BY <1>b, SortedKeysType
<1>2. L \in Nat /\ DOMAIN meta = 1..L /\ \A i \in 1..L : meta[i] \in MetaColumn
  BY <1>a
<1>3. PICK a : a = [i \in 1..L |-> meta[i].cell]
  OBVIOUS
<1>4. PICK b : b = [i \in 1..n |-> <<"row", keys[i]>>]
  OBVIOUS
<1>5. d = a \o b
  BY <1>c, <1>1, <1>2, <1>3, <1>4 DEF RowData
<1>6. a \in Seq(Seq(Origin)) /\ Len(a) = L
  <2>1. \A i \in 1..L : meta[i].cell \in Seq(Origin)
    BY <1>2 DEF MetaColumn
  <2> QED
    BY <1>2, <1>3, <2>1
<1>7. b \in Seq(Seq(Origin)) /\ Len(b) = n
  <2>1. ASSUME NEW i \in 1..n PROVE <<"row", keys[i]>> \in Seq(Origin)
    <3>1. "row" \in Origin /\ keys[i] \in Origin
      BY <1>1 DEF Origin
    <3> QED
      BY <3>1
  <2> QED
    BY <1>1, <1>4, <2>1
<1>8. /\ d \in Seq(Seq(Origin)) /\ Len(d) = L + n /\ DOMAIN d = 1..(L + n)
      /\ \A i \in 1..L : d[i] = a[i]
      /\ \A i \in 1..n : d[L + i] = b[i]
  <2>1. d \in Seq(Seq(Origin)) /\ IsJoin(d, a, b)
    BY <1>5, <1>6, <1>7, JoinFacts
  <2> QED
    BY <1>6, <1>7, <2>1 DEF IsJoin
<1>9. /\ \A i \in 1..L : d[i] = meta[i].cell
      /\ \A i \in 1..n : d[L + i] = <<"row", keys[i]>>
  BY <1>3, <1>4, <1>8
<1> QED
  BY <1>a, <1>b, <1>c, <1>1, <1>8, <1>9 DEF IsCells

\* The columns are a schema unless two metadata columns have one name.
LEMMA SchemaOfMeta ==
  ASSUME NEW mm \in [Headless -> Kind], NEW m \in Message, NEW meta \in Seq(MetaColumn),
         Len(meta) <= Len(m) + 2, NEW row \in SUBSET Raw
  PROVE  IsSchema(Columns(mm, meta, row)) <=> IsSchema(meta)
<1>a. PICK L : L = Len(meta)
  OBVIOUS
<1>b. PICK n : n = Len(SortedKeys(row))
  OBVIOUS
<1>c. PICK v : v = SanitizePayloadColumns(mm, meta, row)
  OBVIOUS
<1>1. PICK c : c = Columns(mm, meta, row)
  OBVIOUS
<1>2. /\ n \in Nat /\ L \in Nat
      /\ \A i \in 1..n : /\ \A j \in 1..L : v[i] # meta[j].name
                         /\ \A k \in 1..n : k < i => v[i] # v[k]
  <2>1. /\ n \in Nat
        /\ \A i \in 1..n : /\ \A j \in 1..Len(meta) : v[i] # meta[j].name
                           /\ \A k \in 1..n : k < i => v[i] # v[k]
    BY <1>b, <1>c, PayloadNames DEF WellNamed
  <2> QED
    BY <1>a, <2>1
<1>3. /\ DOMAIN c = 1..(L + n)
      /\ \A i \in 1..L : c[i] = [name |-> meta[i].name, type |-> meta[i].type]
      /\ \A i \in 1..n : c[L + i] = [name |-> v[i], type |-> "string"]
      /\ \A k \in 1..(L + n) : k \in 1..L \/ \E i \in 1..n : k = L + i
  <2>1. IsColumns(c, meta, n, v)
    BY <1>b, <1>c, <1>1, ColumnsFacts
  <2> QED
    BY <1>a, <2>1 DEF IsColumns
<1>4. /\ \A i \in 1..L : c[i].name = meta[i].name
      /\ \A i \in 1..n : c[L + i].name = v[i]
  <2>1. ASSUME NEW i \in 1..L PROVE c[i].name = meta[i].name
    <3>1. c[i] = [name |-> meta[i].name, type |-> meta[i].type]
      BY <1>3
    <3> QED
      BY <3>1
  <2>2. ASSUME NEW i \in 1..n PROVE c[L + i].name = v[i]
    <3>1. c[L + i] = [name |-> v[i], type |-> "string"]
      BY <1>3
    <3> QED
      BY <3>1
  <2> QED
    BY <2>1, <2>2
<1>5. DOMAIN meta = 1..L
  BY <1>a
<1>6. ASSUME IsSchema(c) PROVE IsSchema(meta)
  <2>1. \A i \in 1..L : i \in 1..(L + n)
    BY <1>2
  <2> QED
    BY <1>3, <1>4, <1>5, <1>6, <2>1 DEF IsSchema
<1>7. ASSUME IsSchema(meta) PROVE IsSchema(c)
  <2> SUFFICES ASSUME NEW i \in 1..(L + n), NEW j \in 1..(L + n), c[i].name = c[j].name
               PROVE  i = j
    BY <1>3 DEF IsSchema
  <2>1. CASE i \in 1..L /\ j \in 1..L
    BY <1>4, <1>5, <1>7, <2>1 DEF IsSchema
  <2>2. CASE i \in 1..L /\ j \notin 1..L
    <3>1. PICK k \in 1..n : j = L + k
      BY <1>3, <2>2
    <3> QED
      BY ZenonT(30), <1>2, <1>4, <2>2, <3>1
  <2>3. CASE i \notin 1..L /\ j \in 1..L
    <3>1. PICK k \in 1..n : i = L + k
      BY <1>3, <2>3
    <3> QED
      BY <1>2, <1>4, <2>3, <3>1
  <2>4. CASE i \notin 1..L /\ j \notin 1..L
    <3>1. PICK k \in 1..n, l \in 1..n : i = L + k /\ j = L + l
      BY <1>3, <2>4
    <3>2. v[k] = v[l]
      BY <1>4, <3>1
    <3>3. k = l
      BY <1>2, <3>2
    <3> QED
      BY <3>1, <3>3
  <2> QED
    BY <2>1, <2>2, <2>3, <2>4
<1> QED
  BY <1>1, <1>6, <1>7

-----------------------------------------------------------------------------
(* The partition by day.                                                   *)

TimeNames == {<<"meta", "time">>, <<"meta", "time", "day">>}

\* A key is called meta_time, or meta_time_day, by its own words and never by a suffix.
LEMMA TimeIdentifier ==
  ASSUME NEW mm \in [Headless -> Kind], NEW r \in Raw, NEW name \in TimeNames,
         NEW w, w = SanitizeIdentifier(mm, r, "field")
  PROVE  /\ w = name <=> r \notin Headless /\ Words[r] = name
         /\ \A x : x \notin {"time", "day"} => Append(w, x) # name
<1>1. w \in Identifier
  BY SanitizeKind
<1>2. PICK other \in {"table", "field"} : w = Normalize(r, other)
  BY SanitizeKind
<1>3. name[1] = "meta" /\ Len(name) \in Nat /\ name[Len(name)] \in {"time", "day"}
  <2>1. name = <<"meta", "time">> \/ name = <<"meta", "time", "day">>
    BY DEF TimeNames
  <2>2. CASE name = <<"meta", "time">>
    BY <2>2
  <2>3. CASE name = <<"meta", "time", "day">>
    BY <2>3
  <2> QED
    BY <2>1, <2>2, <2>3
<1>4. ASSUME r \in Headless PROVE w # name
  <2>1. w = <<other>> \o Words[r]
    BY <1>2, <1>4 DEF Normalize
  <2>2. <<other>> \in Seq(ToSet(Alphabet)) /\ Words[r] \in Seq(ToSet(Alphabet))
    BY ParserAssumption
  <2>3. w[1] = other
    <3>1. PICK a \in Seq(ToSet(Alphabet)), b \in Seq(ToSet(Alphabet)) : a = <<other>> /\ b = Words[r]
      BY <2>2
    <3>2. Len(a) = 1 /\ a[1] = other /\ Len(b) \in Nat
      BY <3>1
    <3>3. (a \o b)[1] = a[1]
      BY <3>2, ConcatProperties
    <3> QED
      BY <2>1, <3>1, <3>2, <3>3
  <2> QED
    BY <1>3, <1>4, <2>3
<1>5. ASSUME r \notin Headless PROVE w = Words[r]
  BY <1>2, <1>5 DEF Normalize
<1>6. ASSUME NEW x, Append(w, x) = name PROVE x \in {"time", "day"}
  <2>1. PICK S : S = ToSet(Alphabet) \cup {x}
    OBVIOUS
  <2>2. w \in Seq(S) /\ x \in S
    BY <1>1, <2>1 DEF Identifier
  <2>3. Len(w) \in Nat /\ Append(w, x)[Len(w) + 1] = x /\ Len(Append(w, x)) = Len(w) + 1
    BY <2>2, AppendProperties
  <2> QED
    BY <1>3, <1>6, <2>3
<1> QED
  BY <1>4, <1>5, <1>6

LEMMA ColumnNamed ==
  ASSUME NEW mm \in [Headless -> Kind], NEW m \in Message, NEW meta \in Seq(MetaColumn),
         Len(meta) <= Len(m) + 2, NEW row \in SUBSET Raw, NEW name \in TimeNames
  PROVE  name \in ColumnNames(Columns(mm, meta, row)) <=> HasColumn(meta, row, name)
<1>a. PICK L \in Nat : L = Len(meta) /\ DOMAIN meta = 1..L
  OBVIOUS
<1>b. PICK n : n = Len(SortedKeys(row))
  OBVIOUS
<1>c. PICK v : v = SanitizePayloadColumns(mm, meta, row)
  OBVIOUS
<1>d. PICK c : c = Columns(mm, meta, row)
  OBVIOUS
<1>1. PICK keys \in Seq(Raw) : /\ keys = SortedKeys(row) /\ n = Len(keys) /\ n \in Nat /\ n <= Len(Keys)
                               /\ DOMAIN keys = 1..n /\ ToSet(keys) = row
  BY <1>b, SortedKeysType
<1>2. PICK base : \A i \in 1..n : base[i] = SanitizeIdentifier(mm, keys[i], "field")
  <2>1. \A i \in 1..n : [k \in 1..n |-> SanitizeIdentifier(mm, keys[k], "field")][i]
                          = SanitizeIdentifier(mm, keys[i], "field")
    OBVIOUS
  <2> QED
    BY <2>1
<1>3. \A i \in 1..n :
        /\ v[i] = base[i] \/ \E s \in 2..(L + i + 1) : v[i] = Append(base[i], ToString(s))
        /\ (\E j \in 1..L : meta[j].name = base[i]) \/ (\E k \in 1..n : v[k] = base[i])
  <2> TAKE i \in 1..n
  <2>1. WellNamed(v, mm, meta, keys, n)
    BY <1>b, <1>c, <1>1, PayloadNames
  <2>2. base[i] = SanitizeIdentifier(mm, keys[i], "field")
    BY <1>2
  <2>3. PICK w : w = SanitizeIdentifier(mm, keys[i], "field")
    OBVIOUS
  <2>4. v[i] = w \/ \E s \in 2..(L + i + 1) : v[i] = Append(w, ToString(s))
    BY <1>a, <2>1, <2>3 DEF WellNamed
  <2>5. (\E j \in 1..L : meta[j].name = w) \/ (\E k \in 1..n : v[k] = w)
    BY <1>a, <2>1, <2>3 DEF WellNamed
  <2> QED
    BY <2>2, <2>3, <2>4, <2>5
<1>4. /\ DOMAIN c = 1..(L + n)
      /\ \A i \in 1..L : c[i].name = meta[i].name
      /\ \A i \in 1..n : c[L + i].name = v[i]
      /\ \A k \in 1..(L + n) : k \in 1..L \/ \E i \in 1..n : k = L + i
  <2>1. IsColumns(c, meta, n, v)
    BY <1>b, <1>c, <1>d, ColumnsFacts
  <2>2. /\ DOMAIN c = 1..(L + n)
        /\ \A i \in 1..L : c[i] = [name |-> meta[i].name, type |-> meta[i].type]
        /\ \A i \in 1..n : c[L + i] = [name |-> v[i], type |-> "string"]
        /\ \A k \in 1..(L + n) : k \in 1..L \/ \E i \in 1..n : k = L + i
    BY <1>a, <2>1 DEF IsColumns
  <2>3. ASSUME NEW i \in 1..L PROVE c[i].name = meta[i].name
    <3>1. c[i] = [name |-> meta[i].name, type |-> meta[i].type]
      BY <2>2
    <3> QED
      BY <3>1
  <2>4. ASSUME NEW i \in 1..n PROVE c[L + i].name = v[i]
    <3>1. c[L + i] = [name |-> v[i], type |-> "string"]
      BY <2>2
    <3> QED
      BY <3>1
  <2> QED
    BY <2>2, <2>3, <2>4
<1>5. ASSUME NEW i \in 1..n
      PROVE  /\ base[i] = name <=> keys[i] \notin Headless /\ Words[keys[i]] = name
             /\ \A x : x \notin {"time", "day"} => Append(base[i], x) # name
             /\ keys[i] \in row
  <2>1. PICK r \in Raw : r = keys[i]
    BY <1>1
  <2>2. keys[i] \in row
    BY <1>1 DEF ToSet
  <2>3. PICK w : w = SanitizeIdentifier(mm, r, "field")
    OBVIOUS
  <2>4. w = name <=> r \notin Headless /\ Words[r] = name
    BY <2>3, TimeIdentifier
  <2>5. \A x : x \notin {"time", "day"} => Append(w, x) # name
    BY <2>3, TimeIdentifier
  <2>6. base[i] = w
    BY <1>2, <2>1, <2>3
  <2> QED
    BY <2>1, <2>2, <2>4, <2>5, <2>6
<1>6. ASSUME name \in ColumnNames(c) PROVE HasColumn(meta, row, name)
  <2>1. PICK k \in 1..(L + n) : c[k].name = name
    BY <1>4, <1>6 DEF ColumnNames
  <2>2. CASE k \in 1..L
    <3>1. name \in ColumnNames(meta)
      BY <1>a, <1>4, <2>1, <2>2 DEF ColumnNames
    <3> QED
      BY <3>1 DEF HasColumn
  <2>3. ASSUME NEW i \in 1..n, k = L + i PROVE HasColumn(meta, row, name)
    <3>1. v[i] = name
      BY <1>4, <2>1, <2>3
    <3>2. ASSUME NEW s \in 2..(L + i + 1) PROVE v[i] # Append(base[i], ToString(s))
      <4>1. Len(m) \in Nat /\ Len(Keys) \in Nat
        BY ReadableType, ParserAssumption, LenProperties
      <4>2. s \in 2..(Len(m) + Len(Keys) + 4)
        BY <1>a, <1>1, <4>1
      <4>3. ToString(s) \notin {"time", "day"}
        BY <4>2, SuffixAssumption
      <4> QED
        BY <1>5, <3>1, <4>3
    <3>3. base[i] = name
      BY <1>3, <3>1, <3>2
    <3>4. keys[i] \in row \ Headless /\ Words[keys[i]] = name
      BY <1>5, <3>3
    <3> QED
      BY <3>4 DEF HasColumn
  <2> QED
    BY <1>4, <2>2, <2>3
<1>7. ASSUME HasColumn(meta, row, name) PROVE name \in ColumnNames(c)
  <2>1. \A j \in 1..L : j \in 1..(L + n)
    BY <1>1
  <2>2. \A i \in 1..n : L + i \in 1..(L + n)
    BY <1>1
  <2>3. ASSUME NEW j \in 1..L, meta[j].name = name PROVE name \in ColumnNames(c)
    BY <1>4, <2>1, <2>3 DEF ColumnNames
  <2>4. ASSUME NEW k \in 1..n, v[k] = name PROVE name \in ColumnNames(c)
    BY <1>4, <2>2, <2>4 DEF ColumnNames
  <2>5. CASE name \in ColumnNames(meta)
    BY <1>a, <2>3, <2>5 DEF ColumnNames
  <2>6. ASSUME NEW r \in row \ Headless, Words[r] = name PROVE name \in ColumnNames(c)
    <3>1. PICK i \in 1..n : keys[i] = r
      BY <1>1 DEF ToSet
    <3>2. base[i] = name
      BY <1>5, <2>6, <3>1
    <3> QED
      BY <1>3, <2>3, <2>4, <3>2
  <2> QED
    BY <1>7, <2>5, <2>6 DEF HasColumn
<1> QED
  BY <1>d, <1>6, <1>7

\* The column of unixTime is the only one that is a timestamp and may be called meta_time.
LEMMA TimeColumn ==
  ASSUME NEW mm \in [Headless -> Kind], NEW m \in Message, NEW meta \in Seq(MetaColumn),
         meta = AssembleFinalMetaFields(mm, m)
  PROVE  /\ Fields(m, {"time"}) # <<>> =>
              1 \in DOMAIN meta /\ meta[1].name = <<"meta", "time">> /\ meta[1].type = "timestamp"
         /\ Fields(m, {"time"}) = <<>> =>
              \A i \in DOMAIN meta : meta[i].name = <<"meta", "time">> => meta[i].type # "timestamp"
<1>1. PICK a, b : a = Stamp(<<"meta", "time">>) /\ b = Stamp(<<"meta", "ingest", "time">>)
  OBVIOUS
<1>2. /\ a.name = <<"meta", "time">> /\ a.type = "timestamp"
      /\ b.name = <<"meta", "ingest", "time">>
  BY <1>1 DEF Stamp
<1>3. PICK V : V = {a, b} \cup MetaChoice(mm, m)
  OBVIOUS
<1>4. PICK s \in Seq(V) : s = SortedOthers(mm, m) /\ s \in Seq(MetaChoice(mm, m))
  BY <1>3, SortedOthersType
<1>5. TimeStamps(m) = IF Fields(m, {"time"}) = <<>> THEN <<b>> ELSE <<a, b>>
  <2>1. TimeStamps(m) = (IF Fields(m, {"time"}) = <<>> THEN <<>> ELSE <<a>>) \o <<b>>
    BY <1>1 DEF TimeStamps
  <2>2. <<>> \o <<b>> = <<b>>
    <3>1. <<b>> \in Seq({b})
      OBVIOUS
    <3> QED
      BY <3>1, ConcatEmptySeq
  <2>3. <<a>> \o <<b>> = <<a, b>>
    <3>1. <<a>> \in Seq({a, b}) /\ <<b>> \in Seq({a, b}) /\ <<a, b>> \in Seq({a, b})
      OBVIOUS
    <3>2. PICK c \in Seq({a, b}) : c = <<a>> \o <<b>> /\ IsJoin(c, <<a>>, <<b>>)
      BY <3>1, JoinFacts
    <3>3. Len(c) = 2 /\ c[1] = a /\ c[2] = b
      BY <3>2 DEF IsJoin
    <3>4. Len(<<a, b>>) = Len(c) /\ \A i \in 1..Len(<<a, b>>) : <<a, b>>[i] = c[i]
      BY <3>3
    <3>5. <<a, b>> = c
      BY <3>1, <3>4, SeqEqual
    <3> QED
      BY <3>2, <3>5
  <2> QED
    BY <2>1, <2>2, <2>3
<1>6. PICK t \in Seq(V) : t = TimeStamps(m)
  <2>1. <<b>> \in Seq(V) /\ <<a, b>> \in Seq(V)
    BY <1>3
  <2> QED
    BY <1>5, <2>1
<1>7. IsJoin(meta, t, s) /\ DOMAIN meta = 1..Len(meta)
  <2>1. meta = t \o s
    BY <1>4, <1>6, AssembleParts
  <2> QED
    BY <2>1, JoinFacts
<1>8. ASSUME Fields(m, {"time"}) # <<>>
      PROVE  1 \in DOMAIN meta /\ meta[1].name = <<"meta", "time">> /\ meta[1].type = "timestamp"
  <2>1. Len(t) = 2 /\ t[1] = a
    BY <1>5, <1>6, <1>8
  <2>2. Len(s) \in Nat
    OBVIOUS
  <2>3. meta[1] = a /\ 1 \in DOMAIN meta
    BY <1>7, <2>1, <2>2 DEF IsJoin
  <2> QED
    BY <1>2, <2>3
<1>9. ASSUME Fields(m, {"time"}) = <<>>, NEW i \in DOMAIN meta, meta[i].name = <<"meta", "time">>
      PROVE  meta[i].type # "timestamp"
  <2>1. Len(t) = 1 /\ t[1] = b
    BY <1>5, <1>6, <1>9
  <2>2. meta[1] = b /\ <<"meta", "ingest", "time">> # <<"meta", "time">>
    BY <1>7, <2>1 DEF IsJoin
  <2>3. i # 1
    BY <1>2, <1>9, <2>2
  <2>4. PICK k \in 1..Len(s) : meta[i] = s[k]
    <3>1. PICK n \in Nat : n = Len(s)
      OBVIOUS
    <3>2. /\ DOMAIN meta = 1..(1 + n)
          /\ \A k \in 1..n : meta[1 + k] = s[k]
      BY <1>7, <2>1, <3>1 DEF IsJoin
    <3>3. i - 1 \in 1..n /\ 1 + (i - 1) = i
      BY <2>3, <3>2
    <3> QED
      BY <3>1, <3>2, <3>3
  <2>5. s[k] \in MetaChoice(mm, m)
    BY <1>4, <2>4
  <2>6. PICK f \in ToSet(MetaFields(m)) : meta[i] = MetaField(mm, f)
    BY <2>4, <2>5 DEF MetaChoice
  <2>7. f \in MessageField
    BY FieldFacts DEF MetaFields
  <2>8. f.type \in {"string", "long", "boolean"}
    BY <2>7 DEF MessageField
  <2>9. meta[i].type = f.type
    BY <2>6 DEF MetaField
  <2> QED
    BY <2>8, <2>9
<1> QED
  BY <1>8, <1>9

\* The partition can be built unless a name is in its way.
LEMMA PartitionOfMeta ==
  ASSUME NEW mm \in [Headless -> Kind], NEW nm \in [Headless -> Kind], NEW m \in Message,
         NEW meta \in Seq(MetaColumn), meta = AssembleFinalMetaFields(mm, m),
         Len(meta) <= Len(m) + 2, NEW row \in SUBSET Raw, row = Head(PayloadRows(m)),
         IsSchema(Columns(nm, meta, row))
  PROVE  HasPartitionSpec(Columns(nm, meta, row)) <=> KeepsTime(meta, m)
<1>a. PICK L \in Nat : L = Len(meta) /\ DOMAIN meta = 1..L
  OBVIOUS
<1>b. PICK n : n = Len(SortedKeys(row))
  OBVIOUS
<1>c. PICK v : v = SanitizePayloadColumns(nm, meta, row)
  OBVIOUS
<1>1. PICK c : c = Columns(nm, meta, row)
  OBVIOUS
<1>2. PICK time, day : time = <<"meta", "time">> /\ day = <<"meta", "time", "day">>
  OBVIOUS
<1>3. /\ time \in ColumnNames(c) <=> HasColumn(meta, row, time)
      /\ day \in ColumnNames(c) <=> HasColumn(meta, row, day)
  <2>1. time \in TimeNames /\ day \in TimeNames
    BY <1>2 DEF TimeNames
  <2> QED
    BY <1>1, <2>1, ColumnNamed
<1>4. /\ n \in Nat /\ DOMAIN c = 1..(L + n)
      /\ \A i \in 1..L : c[i].name = meta[i].name /\ c[i].type = meta[i].type
      /\ \A i \in 1..n : c[L + i].type = "string"
      /\ \A k \in 1..(L + n) : k \in 1..L \/ \E i \in 1..n : k = L + i
  <2>1. IsColumns(c, meta, n, v)
    BY <1>b, <1>c, <1>1, ColumnsFacts
  <2>2. /\ DOMAIN c = 1..(L + n)
        /\ \A i \in 1..L : c[i] = [name |-> meta[i].name, type |-> meta[i].type]
        /\ \A i \in 1..n : c[L + i] = [name |-> v[i], type |-> "string"]
        /\ \A k \in 1..(L + n) : k \in 1..L \/ \E i \in 1..n : k = L + i
    BY <1>a, <2>1 DEF IsColumns
  <2>3. n \in Nat
    BY <1>b, SortedKeysType
  <2>4. ASSUME NEW i \in 1..L PROVE c[i].name = meta[i].name /\ c[i].type = meta[i].type
    <3>1. c[i] = [name |-> meta[i].name, type |-> meta[i].type]
      BY <2>2
    <3> QED
      BY <3>1
  <2>5. ASSUME NEW i \in 1..n PROVE c[L + i].type = "string"
    <3>1. c[L + i] = [name |-> v[i], type |-> "string"]
      BY <2>2
    <3> QED
      BY <3>1
  <2> QED
    BY <2>2, <2>3, <2>4, <2>5
<1>5. HasPartitionSpec(c) <=>
        (time \in ColumnNames(c) =>
           day \notin ColumnNames(c) /\ \A i \in DOMAIN c : c[i].name = time => c[i].type = "timestamp")
  BY <1>2 DEF HasPartitionSpec
<1>6. CASE Fields(m, {"time"}) # <<>>
  <2>1. 1 \in DOMAIN meta /\ meta[1].name = time /\ meta[1].type = "timestamp"
    BY <1>2, <1>6, TimeColumn
  <2>2. 1 \in 1..L /\ 1 \in DOMAIN c
    BY <1>a, <1>4, <2>1
  <2>3. c[1].name = time /\ c[1].type = "timestamp"
    BY <1>4, <2>1, <2>2
  <2>4. time \in ColumnNames(c)
    BY <2>2, <2>3 DEF ColumnNames
  <2>5. \A i \in DOMAIN c : c[i].name = time => i = 1
    BY <1>1, <2>2, <2>3 DEF IsSchema
  <2>6. HasPartitionSpec(c) <=> day \notin ColumnNames(c)
    BY <1>5, <2>3, <2>4, <2>5
  <2>7. KeepsTime(meta, m) <=> ~HasColumn(meta, row, day)
    BY <1>2, <1>6 DEF KeepsTime
  <2> QED
    BY <1>1, <1>3, <2>6, <2>7
<1>7. CASE Fields(m, {"time"}) = <<>>
  <2>1. \A i \in 1..L : meta[i].name = time => meta[i].type # "timestamp"
    BY <1>a, <1>2, <1>7, TimeColumn
  <2>2. ASSUME NEW k \in DOMAIN c, c[k].name = time PROVE c[k].type # "timestamp"
    <3>1. CASE k \in 1..L
      BY <1>4, <2>1, <2>2, <3>1
    <3>2. CASE \E i \in 1..n : k = L + i
      <4>1. c[k].type = "string"
        BY <1>4, <3>2
      <4> QED
        BY <4>1
    <3> QED
      BY <1>4, <3>1, <3>2
  <2>3. HasPartitionSpec(c) <=> time \notin ColumnNames(c)
    BY <1>5, <2>2 DEF ColumnNames
  <2>4. KeepsTime(meta, m) <=> ~HasColumn(meta, row, time)
    BY <1>2, <1>7 DEF KeepsTime
  <2> QED
    BY <1>1, <1>3, <2>3, <2>4
<1> QED
  BY <1>6, <1>7

-----------------------------------------------------------------------------
(* What the cache remembers.                                               *)

LEMMA MemoryType == Memory \subseteq [Headless -> Kind]
BY DEF Memory

LEMMA RememberKeeps ==
  ASSUME NEW mm \in Memory, NEW S, NEW kind,
         \/ kind = "field" /\ \A r \in S : r \in FieldStrings
         \/ kind = "table" /\ \A r \in S : r \in TableStrings
  PROVE  Remember(mm, S, kind) \in Memory
<1>1. mm \in [Headless -> Kind] /\ kind \in Kind
  BY MemoryType DEF Kind
<1>2. PICK x : x = Remember(mm, S, kind)
  OBVIOUS
<1>3. x = [r \in Headless |-> IF r \in S /\ mm[r] = "none" THEN kind ELSE mm[r]]
  BY <1>2 DEF Remember
<1>4. x \in [Headless -> Kind]
  BY <1>1, <1>3
<1>5. ASSUME NEW r \in Headless
      PROVE  (x[r] = "table" => r \in TableStrings) /\ (x[r] = "field" => r \in FieldStrings)
  BY <1>3 DEF Memory
<1> QED
  BY <1>2, <1>4, <1>5 DEF Memory

LEMMA ForgetKeeps ==
  ASSUME NEW mm \in Memory, NEW r \in Headless
  PROVE  [mm EXCEPT ![r] = "none"] \in Memory
<1>1. mm \in [Headless -> Kind]
  BY MemoryType
<1>2. PICK x : x = [mm EXCEPT ![r] = "none"]
  OBVIOUS
<1>3. x \in [Headless -> Kind] /\ \A s \in Headless : x[s] = IF s = r THEN "none" ELSE mm[s]
  BY <1>1, <1>2 DEF Kind
<1>4. ASSUME NEW s \in Headless
      PROVE  (x[s] = "table" => s \in TableStrings) /\ (x[s] = "field" => s \in FieldStrings)
  BY <1>3 DEF Memory
<1> QED
  BY <1>2, <1>3, <1>4 DEF Memory

\* To remember strings as fields changes no field.
LEMMA AssembleRemembered ==
  ASSUME NEW mm \in [Headless -> Kind], NEW S, NEW m
  PROVE  AssembleFinalMetaFields(Remember(mm, S, "field"), m) = AssembleFinalMetaFields(mm, m)
<1>1. PICK x : x = Remember(mm, S, "field")
  OBVIOUS
<1>2. \A r \in Headless : x[r] = IF r \in S /\ mm[r] = "none" THEN "field" ELSE mm[r]
  BY <1>1 DEF Remember
<1>3. \A r : SanitizeIdentifier(x, r, "field") = SanitizeIdentifier(mm, r, "field")
  BY <1>2 DEF SanitizeIdentifier
<1>4. \A f : MetaField(x, f) = MetaField(mm, f)
  BY <1>3 DEF MetaField
<1>5. Others(x, m) = Others(mm, m)
  BY <1>4 DEF Others
<1>6. SortedOthers(x, m) = SortedOthers(mm, m)
  BY <1>5 DEF SortedOthers
<1> QED
  BY <1>1, <1>6, AssembleParts

LEMMA ParseShape ==
  ASSUME NEW mm \in [Headless -> Kind], NEW m \in Message
  PROVE  /\ Parse(mm, m).memo \in [Headless -> Kind]
         /\ Parse(mm, m).ok => /\ Parse(mm, m).table \in Table
                               /\ \E n \in Nat : DOMAIN Parse(mm, m).cells = 1..n
<1> DEFINE metaMemo == Remember(mm, {f.raw : f \in ToSet(MetaFields(m))}, "field")
           nameMemo == Remember(metaMemo, {QueryName(m)}, "table")
           meta     == AssembleFinalMetaFields(metaMemo, m)
           rows     == PayloadRows(m)
           columns  == Columns(nameMemo, meta, Head(rows))
           schema   == rows # <<>> /\ IsSchema(columns)
           ok       == rows = <<>> \/ (schema /\ HasPartitionSpec(columns))
           keys     == IF rows = <<>> THEN {} ELSE IF ok THEN UNION ToSet(rows) ELSE Head(rows)
<1>1. metaMemo \in [Headless -> Kind]
  BY RememberType
<1>2. nameMemo \in [Headless -> Kind]
  BY <1>1, RememberType
<1>3. Remember(nameMemo, keys, "field") \in [Headless -> Kind]
  BY <1>2, RememberType
<1>4. CASE ~Complete(m)
  <2>1. Parse(mm, m) = [ok |-> FALSE, schema |-> FALSE, memo |-> metaMemo]
    BY <1>4 DEF Parse
  <2> QED
    BY <2>1, <1>1
<1>5. CASE Complete(m)
  <2>1. Parse(mm, m) =
          [ok      |-> ok,
           schema  |-> schema,
           memo    |-> Remember(nameMemo, keys, "field"),
           table   |-> <<"osquery">> \o SanitizeIdentifier(metaMemo, QueryName(m), "table"),
           columns |-> IF rows = <<>> THEN <<>> ELSE columns,
           cells   |-> [i \in DOMAIN rows |-> RowData(meta, rows[i])]]
    BY <1>5 DEF Parse, BuildRowEnvelopes
  <2>2. QueryName(m) \in Raw /\ rows \in Seq(SUBSET Raw)
    BY <1>5, CompleteFacts
  <2>3. <<"osquery">> \o SanitizeIdentifier(metaMemo, QueryName(m), "table") \in Table
    BY <1>1, <2>2, TableType
  <2>4. DOMAIN rows = 1..Len(rows) /\ Len(rows) \in Nat
    BY <2>2
  <2> HIDE DEF metaMemo, nameMemo, meta, rows, columns, schema, ok, keys
  <2>5. Parse(mm, m).memo \in [Headless -> Kind]
    BY <2>1, <1>3
  <2>6. Parse(mm, m).table \in Table
    BY <2>1, <2>3
  <2>7. DOMAIN Parse(mm, m).cells = 1..Len(rows)
    BY <2>1, <2>4
  <2> QED
    BY <2>4, <2>5, <2>6, <2>7
<1> QED
  BY <1>4, <1>5

\* The steps of parse.
MetaMemo(mm, m) == Remember(mm, MetaStrings(m), "field")
NameMemo(mm, m) == Remember(MetaMemo(mm, m), {QueryName(m)}, "table")
Meta(mm, m)     == AssembleFinalMetaFields(MetaMemo(mm, m), m)
FirstColumns(mm, m) == Columns(NameMemo(mm, m), Meta(mm, m), Head(PayloadRows(m)))
HasSchema(mm, m) == PayloadRows(m) # <<>> /\ IsSchema(FirstColumns(mm, m))
Readied(mm, m) ==
  PayloadRows(m) = <<>> \/ (HasSchema(mm, m) /\ HasPartitionSpec(FirstColumns(mm, m)))
KeysSeen(mm, m) ==
  IF PayloadRows(m) = <<>> THEN {}
  ELSE IF Readied(mm, m) THEN UNION ToSet(PayloadRows(m)) ELSE Head(PayloadRows(m))
TableName(mm, m) == <<"osquery">> \o SanitizeIdentifier(MetaMemo(mm, m), QueryName(m), "table")

LEMMA ParseSteps ==
  ASSUME NEW mm, NEW m
  PROVE  Parse(mm, m) =
           IF ~Complete(m) THEN [ok |-> FALSE, schema |-> FALSE, memo |-> MetaMemo(mm, m)]
           ELSE [ok      |-> Readied(mm, m),
                 schema  |-> HasSchema(mm, m),
                 memo    |-> Remember(NameMemo(mm, m), KeysSeen(mm, m), "field"),
                 table   |-> TableName(mm, m),
                 columns |-> IF PayloadRows(m) = <<>> THEN <<>> ELSE FirstColumns(mm, m),
                 cells   |-> [i \in DOMAIN PayloadRows(m) |-> RowData(Meta(mm, m), PayloadRows(m)[i])]]
BY DEF Parse, BuildRowEnvelopes, MetaMemo, NameMemo, Meta, FirstColumns, HasSchema, Readied, KeysSeen, TableName,
       MetaStrings

LEMMA StringsOfMessage ==
  ASSUME NEW m \in Message
  PROVE  /\ MetaStrings(m) \subseteq FieldStrings
         /\ Complete(m) => /\ m \in CompleteMessage
                           /\ QueryName(m) \in TableStrings
                           /\ UNION ToSet(PayloadRows(m)) \subseteq FieldStrings
                           /\ PayloadRows(m) # <<>> => Head(PayloadRows(m)) \subseteq FieldStrings
<1>1. MetaStrings(m) \subseteq FieldStrings
  BY DEF FieldStrings
<1>2. ASSUME Complete(m)
      PROVE  /\ m \in CompleteMessage
             /\ QueryName(m) \in TableStrings
             /\ UNION ToSet(PayloadRows(m)) \subseteq FieldStrings
             /\ PayloadRows(m) # <<>> => Head(PayloadRows(m)) \subseteq FieldStrings
  <2>1. m \in CompleteMessage
    BY <1>2 DEF CompleteMessage
  <2>2. UNION ToSet(PayloadRows(m)) \subseteq FieldStrings
    BY <2>1 DEF FieldStrings
  <2>3. ASSUME PayloadRows(m) # <<>> PROVE Head(PayloadRows(m)) \in ToSet(PayloadRows(m))
    <3>1. PICK s \in Seq(SUBSET Raw) : s = PayloadRows(m)
      BY <1>2, CompleteFacts
    <3>2. 1 \in DOMAIN s /\ Head(s) = s[1]
      BY <2>3, <3>1
    <3> QED
      BY <3>1, <3>2 DEF ToSet
  <2> QED
    BY <2>1, <2>2, <2>3 DEF TableStrings
<1> QED
  BY <1>1, <1>2

LEMMA MemoKeeps ==
  ASSUME NEW mm \in Memory, NEW m \in Message
  PROVE  /\ MetaMemo(mm, m) \in Memory
         /\ Complete(m) => NameMemo(mm, m) \in Memory
<1>1. MetaMemo(mm, m) \in Memory
  BY StringsOfMessage, RememberKeeps DEF MetaMemo
<1>2. ASSUME Complete(m) PROVE NameMemo(mm, m) \in Memory
  <2>1. \A r \in {QueryName(m)} : r \in TableStrings
    BY <1>2, StringsOfMessage
  <2> QED
    BY <1>1, <2>1, RememberKeeps DEF NameMemo
<1> QED
  BY <1>1, <1>2

\* What parse does to the cache, and when it raises.
LEMMA ParseMemory ==
  ASSUME NEW mm \in Memory, NEW m \in Message
  PROVE  /\ Parse(mm, m).memo \in Memory
         /\ Parse(mm, m).ok \in BOOLEAN
         /\ Parse(mm, m).ok <=> Usable(mm, m)
<1>1. CASE ~Complete(m)
  <2>1. Parse(mm, m) = [ok |-> FALSE, schema |-> FALSE, memo |-> MetaMemo(mm, m)]
    BY <1>1, ParseSteps
  <2> QED
    BY <1>1, <2>1, MemoKeeps DEF Usable
<1>2. CASE Complete(m)
  <2>1. Parse(mm, m).ok = Readied(mm, m) /\ Parse(mm, m).memo = Remember(NameMemo(mm, m), KeysSeen(mm, m), "field")
    BY <1>2, ParseSteps
  <2>2. \A r \in KeysSeen(mm, m) : r \in FieldStrings
    <3>1. UNION ToSet(PayloadRows(m)) \subseteq FieldStrings
      BY <1>2, StringsOfMessage
    <3>2. PayloadRows(m) # <<>> => Head(PayloadRows(m)) \subseteq FieldStrings
      BY <1>2, StringsOfMessage
    <3> QED
      BY <3>1, <3>2 DEF KeysSeen
  <2>3. Remember(NameMemo(mm, m), KeysSeen(mm, m), "field") \in Memory
    <3>1. NameMemo(mm, m) \in Memory
      BY <1>2, MemoKeeps
    <3> QED
      BY <2>2, <3>1, RememberKeeps
  <2>4. Readied(mm, m) <=> Usable(mm, m)
    <3>1. CASE PayloadRows(m) = <<>>
      BY <1>2, <3>1 DEF Readied, Usable
    <3>2. CASE PayloadRows(m) # <<>>
      <4>1. PICK row \in SUBSET Raw : row = Head(PayloadRows(m))
        BY <1>2, <3>2, CompleteFacts
      <4>2. mm \in [Headless -> Kind] /\ NameMemo(mm, m) \in [Headless -> Kind]
        BY <1>2, MemoryType, MemoKeeps
      <4>3. Meta(mm, m) = AssembleFinalMetaFields(mm, m)
        BY <4>2, AssembleRemembered DEF Meta, MetaMemo
      <4>4. PICK meta \in Seq(MetaColumn) : meta = AssembleFinalMetaFields(mm, m) /\ Len(meta) <= Len(m) + 2
        BY <4>2, AssembleType
      <4>5. IsSchema(Columns(NameMemo(mm, m), meta, row)) <=> IsSchema(meta)
        BY <4>2, <4>4, SchemaOfMeta
      <4>6. FirstColumns(mm, m) = Columns(NameMemo(mm, m), meta, row)
        BY <4>1, <4>3, <4>4 DEF FirstColumns
      <4>7. ASSUME IsSchema(Columns(NameMemo(mm, m), meta, row))
            PROVE  HasPartitionSpec(Columns(NameMemo(mm, m), meta, row)) <=> KeepsTime(meta, m)
        BY <4>1, <4>2, <4>4, <4>7, PartitionOfMeta
      <4>8. Readied(mm, m) <=> IsSchema(meta) /\ KeepsTime(meta, m)
        BY <3>2, <4>5, <4>6, <4>7 DEF Readied, HasSchema
      <4>9. Usable(mm, m) <=> IsSchema(meta) /\ KeepsTime(meta, m)
        BY <1>2, <3>2, <4>4 DEF Usable
      <4> QED
        BY <4>8, <4>9
    <3> QED
      BY <3>1, <3>2
  <2>5. Readied(mm, m) \in BOOLEAN
    BY DEF Readied, HasSchema, IsSchema, HasPartitionSpec
  <2> QED
    BY <2>1, <2>3, <2>4, <2>5
<1> QED
  BY <1>1, <1>2

\* Record rec has been made by a parse, its Schema has these columns.
MadeBy(mm, nm, rec, columns) ==
  LET m    == rec.message
      meta == AssembleFinalMetaFields(mm, m)
  IN  /\ m \in CompleteMessage
      /\ rec.row \in 1..Len(PayloadRows(m))
      /\ rec.table = <<"osquery">> \o SanitizeIdentifier(mm, QueryName(m), "table")
      /\ rec.cells = RowData(meta, PayloadRows(m)[rec.row])
      /\ columns = Columns(nm, meta, PayloadRows(m)[1])
      /\ IsSchema(columns)
Made(rec, columns) == \E mm, nm \in Memory : MadeBy(mm, nm, rec, columns)

\* The record of a message's i-th row.
RowRecord(mm, m, i, schema) ==
  [message |-> m, row |-> i, table |-> Parse(mm, m).table,
   schema |-> schema, cells |-> Parse(mm, m).cells[i]]

LEMMA ParseMakes ==
  ASSUME NEW mm \in Memory, NEW m \in Message, Parse(mm, m).ok
  PROVE  /\ m \in CompleteMessage
         /\ PayloadRows(m) \in Seq(SUBSET Raw) /\ Len(PayloadRows(m)) \in Nat
         /\ DOMAIN Parse(mm, m).cells = 1..Len(PayloadRows(m))
         /\ Len(Parse(mm, m).cells) = Len(PayloadRows(m))
         /\ Parse(mm, m).table \in Table
         /\ \A i \in 1..Len(PayloadRows(m)), schema \in Nat \ {0} :
              /\ RowRecord(mm, m, i, schema) \in Record
              /\ Made(RowRecord(mm, m, i, schema), Parse(mm, m).columns)
<1>1. Complete(m)
  BY ParseMemory DEF Usable
<1>2. /\ m \in CompleteMessage
      /\ QueryName(m) \in Raw
  BY <1>1, StringsOfMessage, CompleteFacts
<1>3. PICK rows \in Seq(SUBSET Raw) : rows = PayloadRows(m)
  BY <1>1, CompleteFacts
<1>3a. PICK n \in Nat : n = Len(rows) /\ DOMAIN rows = 1..n
  OBVIOUS
<1>4. PICK ma \in Memory, nm \in Memory : ma = MetaMemo(mm, m) /\ nm = NameMemo(mm, m)
  BY <1>1, MemoKeeps
<1>4a. ma \in [Headless -> Kind]
  BY MemoryType
<1>5. PICK meta \in Seq(MetaColumn) : meta = AssembleFinalMetaFields(ma, m)
  BY <1>4a, AssembleType
<1>6. PICK table \in Table : table = <<"osquery">> \o SanitizeIdentifier(ma, QueryName(m), "table")
  BY <1>2, <1>4a, TableType
<1>7. PICK cells : cells = [i \in 1..n |-> RowData(meta, rows[i])]
  OBVIOUS
<1>8. /\ Parse(mm, m).ok = Readied(mm, m)
      /\ Parse(mm, m).table = table
      /\ Parse(mm, m).columns = IF rows = <<>> THEN <<>> ELSE FirstColumns(mm, m)
      /\ Parse(mm, m).cells = cells
  <2>1. cells = [i \in DOMAIN PayloadRows(m) |-> RowData(Meta(mm, m), PayloadRows(m)[i])]
    BY <1>3, <1>3a, <1>4, <1>5, <1>7 DEF Meta
  <2>2. table = TableName(mm, m)
    BY <1>4, <1>6 DEF TableName
  <2>3. Parse(mm, m) =
          [ok      |-> Readied(mm, m),
           schema  |-> HasSchema(mm, m),
           memo    |-> Remember(NameMemo(mm, m), KeysSeen(mm, m), "field"),
           table   |-> table,
           columns |-> IF rows = <<>> THEN <<>> ELSE FirstColumns(mm, m),
           cells   |-> cells]
    BY <1>1, <1>3, <2>1, <2>2, ParseSteps
  <2> QED
    BY <2>3
<1>9. /\ DOMAIN cells = 1..n /\ Len(cells) = n
      /\ \A i \in 1..n : cells[i] \in Seq(Seq(Origin))
  <2>1. ASSUME NEW i \in 1..n PROVE cells[i] \in Seq(Seq(Origin))
    <3>1. rows[i] \in SUBSET Raw
      BY <1>3a
    <3>2. RowData(meta, rows[i]) \in Seq(Seq(Origin))
      BY <3>1, RowDataFacts
    <3> QED
      BY <1>7, <3>2
  <2>2. DOMAIN cells = 1..n
    BY <1>7
  <2>3. cells \in Seq(Seq(Seq(Origin))) /\ Len(cells) = n
    BY <1>7, <2>1
  <2> QED
    BY <2>1, <2>2, <2>3
<1>10. ASSUME NEW i \in 1..n, NEW schema \in Nat \ {0}
       PROVE  /\ RowRecord(mm, m, i, schema) \in Record
              /\ Made(RowRecord(mm, m, i, schema), Parse(mm, m).columns)
  <2>1. PICK rec : rec = RowRecord(mm, m, i, schema)
    OBVIOUS
  <2>2. rec = [message |-> m, row |-> i, table |-> table, schema |-> schema, cells |-> cells[i]]
    BY <1>8, <2>1 DEF RowRecord
  <2>3. rec \in Record
    BY <1>9, <2>2 DEF Record
  <2>4. rows # <<>>
    BY <1>3a
  <2>5. PICK columns : columns = FirstColumns(mm, m)
    OBVIOUS
  <2>6. Parse(mm, m).columns = columns /\ IsSchema(columns)
    BY <1>3, <1>8, <2>4, <2>5 DEF Readied, HasSchema
  <2>7. columns = Columns(nm, meta, rows[1])
    <3>1. Head(rows) = rows[1]
      BY <2>4
    <3> QED
      BY <1>3, <1>4, <1>5, <2>5, <3>1 DEF FirstColumns, Meta
  <2>8. cells[i] = RowData(meta, rows[i])
    BY <1>7
  <2>9. /\ rec.message = m /\ rec.row = i /\ rec.table = table /\ rec.cells = cells[i]
    BY <2>2
  <2>10. MadeBy(ma, nm, rec, columns)
    BY <1>2, <1>3, <1>3a, <1>5, <1>6, <2>6, <2>7, <2>8, <2>9 DEF MadeBy
  <2> QED
    BY <2>1, <2>3, <2>6, <2>10 DEF Made
<1>11. Parse(mm, m).table \in Table
  BY <1>8
<1> QED
  BY <1>2, <1>3, <1>3a, <1>8, <1>9, <1>10, <1>11

-----------------------------------------------------------------------------
(* The invariant.                                                          *)

LEMMA InitIngest == Init => IngestInv
<1> SUFFICES ASSUME Init PROVE IngestInv
  OBVIOUS
<1>1. Shape
  <2>1. \A p \in Subtask : heap[p] \in Seq({}) /\ out[p] \in Seq({}) /\ pending[p] \in Seq({})
    BY DEF Init
  <2>2. \A p \in Subtask : \E S : heap[p] \in Seq(S)
    BY <2>1
  <2>3. \A p \in Subtask : \E S : out[p] \in Seq(S)
    BY <2>1
  <2>4. \A p \in Subtask : \E S : pending[p] \in Seq(S) /\ \A x \in S : x.table \in Table
    BY <2>1
  <2> QED
    BY <2>2, <2>3, <2>4 DEF Init, Shape, Kind
<1>2. InHeap /\ CanonicalInv /\ StableReference
  BY DEF Init, InHeap, CanonicalInv, StableReference
<1> QED
  BY <1>1, <1>2 DEF IngestInv

\* A step that gives the sink nothing and at most adds to the heap.
LEMMA GivesNothing ==
  ASSUME IngestInv, Shape', UNCHANGED <<canonical, out>>,
         \A p \in Subtask : /\ Len(heap[p]) <= Len(heap'[p])
                            /\ \A o \in 1..Len(heap[p]) : heap'[p][o] = heap[p][o]
  PROVE  IngestInv'
<1>1. \A p \in Subtask : Len(heap[p]) \in Nat /\ Len(heap'[p]) \in Nat
  <2> TAKE p \in Subtask
  <2>1. PICK S : heap[p] \in Seq(S)
    BY DEF IngestInv, Shape
  <2>2. PICK T : heap'[p] \in Seq(T)
    BY DEF Shape
  <2> QED
    BY <2>1, <2>2
<1>2. InHeap'
  <2>1. ASSUME NEW p \in Subtask, NEW t \in Table
        PROVE  canonical[p][t] <= Len(heap'[p])
    <3>1. canonical[p][t] \in Nat /\ canonical[p][t] <= Len(heap[p])
      BY DEF IngestInv, InHeap, Shape
    <3>2. Len(heap[p]) <= Len(heap'[p])
      OBVIOUS
    <3> QED
      BY <1>1, <3>1, <3>2
  <2>2. ASSUME NEW p \in Subtask, NEW i \in DOMAIN out[p]
        PROVE  out[p][i].table \in Table /\ out[p][i].schema \in 1..Len(heap'[p])
    BY <1>1, <2>2 DEF IngestInv, InHeap
  <2> QED
    BY <2>1, <2>2 DEF InHeap
<1>3. \A p \in Subtask : \A i \in DOMAIN out[p] :
        heap'[p][out[p][i].schema] = heap[p][out[p][i].schema]
  BY DEF IngestInv, InHeap
<1>4. CanonicalInv'
  BY <1>3 DEF IngestInv, CanonicalInv, Steady
<1>5. StableReference'
  <2> SUFFICES ASSUME NEW p \in Subtask, NEW i \in DOMAIN out[p], NEW j \in DOMAIN out[p], i < j,
                      out[p][i].table = out[p][j].table,
                      \A k \in i..j : out[p][k].table = out[p][i].table =>
                        heap'[p][out[p][k].schema] = heap'[p][out[p][i].schema]
               PROVE  out[p][i].schema = out[p][j].schema
    BY DEF StableReference
  <2>1. \A k \in i..j : k \in DOMAIN out[p]
    <3>1. PICK S : out[p] \in Seq(S)
      BY DEF IngestInv, Shape
    <3> QED
      BY <3>1
  <2> QED
    BY <1>3, <2>1 DEF IngestInv, StableReference
<1> QED
  BY <1>2, <1>4, <1>5 DEF IngestInv

\* The step that gives the sink a record.
LEMMA CollectKeeps ==
  ASSUME IngestInv, NEW p \in Subtask, Collect(p)
  PROVE  IngestInv'
<1> DEFINE record  == Head(pending[p])
           t       == record.table
           columns == heap[p][record.schema]
           copy    == Len(heap[p]) + 1
           given   == Generate(p, t, copy, columns)
           new     == [message |-> record.message, row |-> record.row, table |-> t,
                       schema |-> given, cells |-> record.cells]
           n       == Len(out[p]) + 1
<1>1. /\ heap' = [heap EXCEPT ![p] = Append(heap[p], columns)]
      /\ canonical' = [canonical EXCEPT ![p][t] = given]
      /\ out' = [out EXCEPT ![p] = Append(out[p], new)]
      /\ pending' = [pending EXCEPT ![p] = Tail(pending[p])]
      /\ pending[p] # <<>>
      /\ UNCHANGED <<turn, inbox, memo>>
  BY DEF Collect
<1>2. PICK H : heap[p] \in Seq(H)
  BY DEF IngestInv, Shape
<1>3. PICK O : out[p] \in Seq(O)
  BY DEF IngestInv, Shape
<1>4. PICK P : pending[p] \in Seq(P) /\ \A x \in P : x.table \in Table
  BY DEF IngestInv, Shape
<1>5. t \in Table
  <2>1. record \in P
    BY <1>1, <1>4
  <2> QED
    BY <2>1, <1>4
<1>6. canonical[p][t] \in Nat /\ canonical[p][t] <= Len(heap[p]) /\ Len(heap[p]) \in Nat
  BY <1>2, <1>5 DEF IngestInv, Shape, InHeap
<1> HIDE DEF record, t, columns
<1>gen. given = IF canonical[p][t] # 0 /\ heap[p][canonical[p][t]] = columns
                THEN canonical[p][t] ELSE copy
  BY DEF Generate
<1> HIDE DEF given
<1>7. /\ given \in 1..(Len(heap[p]) + 1)
      /\ canonical[p][t] # 0 /\ heap[p][canonical[p][t]] = columns => given = canonical[p][t]
      /\ given = copy \/ (given = canonical[p][t] /\ heap[p][given] = columns)
  <2>1. CASE canonical[p][t] # 0 /\ heap[p][canonical[p][t]] = columns
    <3>1. given = canonical[p][t]
      BY <1>gen, <2>1
    <3>2. canonical[p][t] \in 1..(Len(heap[p]) + 1)
      BY <1>6, <2>1
    <3> QED
      BY <2>1, <3>1, <3>2
  <2>2. CASE ~(canonical[p][t] # 0 /\ heap[p][canonical[p][t]] = columns)
    <3>1. given = copy
      BY <1>gen, <2>2
    <3>2. copy \in 1..(Len(heap[p]) + 1)
      BY <1>6
    <3> QED
      BY <2>2, <3>1, <3>2
  <2> QED
    BY <2>1, <2>2
<1>8. /\ heap'[p] \in Seq(H \cup {columns}) /\ Len(heap'[p]) = Len(heap[p]) + 1
      /\ \A o \in 1..Len(heap[p]) : heap'[p][o] = heap[p][o]
      /\ heap'[p][copy] = columns
  <2>1. heap'[p] = Append(heap[p], columns)
    BY <1>1 DEF IngestInv, Shape
  <2>2. heap[p] \in Seq(H \cup {columns})
    BY <1>2
  <2> QED
    BY <2>1, <2>2
<1>9. heap'[p][given] = columns
  BY <1>6, <1>7, <1>8
<1>10. /\ out'[p] \in Seq(O \cup {new}) /\ Len(out'[p]) = n /\ Len(out[p]) \in Nat
       /\ \A i \in 1..Len(out[p]) : out'[p][i] = out[p][i]
       /\ out'[p][n] = new
  <2>1. out'[p] = Append(out[p], new)
    BY <1>1 DEF IngestInv, Shape
  <2>2. out[p] \in Seq(O \cup {new})
    BY <1>3
  <2> HIDE DEF new
  <2> QED
    BY <2>1, <2>2
<1>11. canonical'[p][t] = given /\ \A u \in Table : u # t => canonical'[p][u] = canonical[p][u]
  BY <1>1, <1>5 DEF IngestInv, Shape
<1>12. \A q \in Subtask : q # p => /\ heap'[q] = heap[q] /\ out'[q] = out[q]
                                   /\ canonical'[q] = canonical[q] /\ pending'[q] = pending[q]
  BY <1>1 DEF IngestInv, Shape
<1>13. new.table = t /\ new.schema = given
  OBVIOUS
<1> HIDE DEF new, n
<1>14. Shape'
  <2>1. canonical' \in [Subtask -> [Table -> Nat]]
    <3>1. given \in Nat
      BY <1>6, <1>7
    <3> QED
      BY <1>1, <3>1 DEF IngestInv, Shape
  <2>2. DOMAIN pending' = Subtask /\ DOMAIN heap' = Subtask /\ DOMAIN out' = Subtask
    BY <1>1 DEF IngestInv, Shape
  <2>3. \A q \in Subtask : \E S : heap'[q] \in Seq(S)
    BY <1>8, <1>12 DEF IngestInv, Shape
  <2>4. \A q \in Subtask : \E S : out'[q] \in Seq(S)
    BY <1>10, <1>12 DEF IngestInv, Shape
  <2>5. pending'[p] \in Seq(P)
    BY <1>1, <1>4 DEF IngestInv, Shape
  <2>6. \A q \in Subtask : \E S : pending'[q] \in Seq(S) /\ \A x \in S : x.table \in Table
    BY <1>4, <1>12, <2>5 DEF IngestInv, Shape
  <2> QED
    BY <1>1, <2>1, <2>2, <2>3, <2>4, <2>6 DEF IngestInv, Shape
<1>15. InHeap'
  <2>1. ASSUME NEW u \in Table PROVE canonical'[p][u] <= Len(heap'[p])
    <3>1. canonical[p][u] \in Nat /\ canonical[p][u] <= Len(heap[p])
      BY DEF IngestInv, Shape, InHeap
    <3> QED
      BY <1>6, <1>7, <1>8, <1>11, <3>1
  <2>2. ASSUME NEW i \in DOMAIN out'[p]
        PROVE  out'[p][i].table \in Table /\ out'[p][i].schema \in 1..Len(heap'[p])
    <3>1. i \in 1..Len(out[p]) \/ i = n
      BY <1>10 DEF n
    <3>2. CASE i = n
      BY <3>2, <1>5, <1>6, <1>7, <1>8, <1>10, <1>13
    <3>3. CASE i \in 1..Len(out[p])
      <4>1. out[p][i].table \in Table /\ out[p][i].schema \in 1..Len(heap[p])
        BY <3>3, <1>3 DEF IngestInv, InHeap
      <4> QED
        BY <3>3, <4>1, <1>6, <1>8, <1>10
    <3> QED
      BY <3>1, <3>2, <3>3
  <2> QED
    BY <2>1, <2>2, <1>12 DEF IngestInv, InHeap
\* What p gave before is what it was.
<1>old. \A k \in 1..Len(out[p]) :
          /\ out'[p][k] = out[p][k]
          /\ out[p][k].schema \in 1..Len(heap[p])
          /\ heap'[p][out[p][k].schema] = heap[p][out[p][k].schema]
  BY SMTT(20), <1>3, <1>8, <1>10 DEF IngestInv, InHeap
<1>16. CanonicalInv'
  <2>1. ASSUME NEW i \in DOMAIN out'[p], Steady(p, i)'
        PROVE  canonical'[p][out'[p][i].table] = out'[p][i].schema
    <3>1. i \in 1..Len(out[p]) \/ i = n
      BY <1>10 DEF n
    <3>2. CASE i = n
      BY <3>2, <1>10, <1>11, <1>13
    <3>3. CASE i \in 1..Len(out[p])
      <4>1. out'[p][i] = out[p][i] /\ out[p][i].table \in Table
        BY <3>3, <1>3, <1>old DEF IngestInv, InHeap
      <4>2. Steady(p, i)
        <5> SUFFICES ASSUME NEW k \in i..Len(out[p]), out[p][k].table = out[p][i].table
                     PROVE  heap[p][out[p][k].schema] = heap[p][out[p][i].schema]
          BY DEF Steady
        <5>1. k \in 1..Len(out[p]) /\ k \in i..Len(out'[p])
          BY <3>3, <1>10 DEF n
        <5>2. out'[p][k].table = out'[p][i].table
          BY <3>3, <5>1, <1>old
        <5>3. heap'[p][out'[p][k].schema] = heap'[p][out'[p][i].schema]
          BY <2>1, <5>1, <5>2 DEF Steady
        <5> QED
          BY <3>3, <5>1, <5>3, <1>old
      <4>3. canonical[p][out[p][i].table] = out[p][i].schema
        BY <3>3, <4>2, <1>3 DEF IngestInv, CanonicalInv
      <4>4. CASE out[p][i].table # t
        BY <4>1, <4>3, <4>4, <1>11
      <4>5. CASE out[p][i].table = t
        <5>1. n \in i..Len(out'[p])
          BY <3>3, <1>10 DEF n
        <5>2. heap'[p][given] = heap'[p][out[p][i].schema]
          BY <2>1, <4>1, <4>5, <5>1, <1>10, <1>13 DEF Steady
        <5>3. heap[p][canonical[p][t]] = columns /\ canonical[p][t] # 0
          <6>1. out[p][i].schema # 0 /\ heap'[p][out[p][i].schema] = heap[p][out[p][i].schema]
            BY <3>3, <1>old
          <6> QED
            BY <4>3, <4>5, <5>2, <6>1, <1>9
        <5> QED
          BY <4>1, <4>3, <4>5, <5>3, <1>7, <1>11
      <4> QED
        BY <4>4, <4>5
    <3> QED
      BY <3>1, <3>2, <3>3
  <2>2. ASSUME NEW q \in Subtask, q # p, NEW i \in DOMAIN out'[q], Steady(q, i)'
        PROVE  canonical'[q][out'[q][i].table] = out'[q][i].schema
    <3>1. Steady(q, i)
      BY <2>2, <1>12 DEF Steady
    <3> QED
      BY <2>2, <3>1, <1>12 DEF IngestInv, CanonicalInv
  <2> QED
    BY <2>1, <2>2 DEF CanonicalInv
<1>17. StableReference'
  <2> SUFFICES ASSUME NEW q \in Subtask, NEW i \in DOMAIN out'[q], NEW j \in DOMAIN out'[q],
                      i < j, out'[q][i].table = out'[q][j].table,
                      \A k \in i..j : out'[q][k].table = out'[q][i].table =>
                        heap'[q][out'[q][k].schema] = heap'[q][out'[q][i].schema]
               PROVE  out'[q][i].schema = out'[q][j].schema
    BY DEF StableReference
  <2>1. CASE q # p
    BY <2>1, <1>12 DEF IngestInv, StableReference
  <2>2. CASE q = p /\ j = n
    <3>1. Steady(p, i)'
      BY <2>2, <1>10 DEF Steady
    <3>2. canonical'[p][out'[p][i].table] = out'[p][i].schema
      BY <2>2, <3>1, <1>16 DEF CanonicalInv
    <3> QED
      BY <2>2, <3>2, <1>10, <1>11, <1>13
  <2>3. CASE q = p /\ j # n
    <3>1. i \in 1..Len(out[p]) /\ j \in 1..Len(out[p])
      BY <2>3, <1>10 DEF n
    <3>2. \A k \in i..j : k \in 1..Len(out[p])
      BY <3>1
    <3>3. \A k \in i..j : out[p][k].table = out[p][i].table =>
            heap[p][out[p][k].schema] = heap[p][out[p][i].schema]
      <4> SUFFICES ASSUME NEW k \in i..j, out[p][k].table = out[p][i].table
                   PROVE  heap[p][out[p][k].schema] = heap[p][out[p][i].schema]
        OBVIOUS
      <4>1. k \in 1..Len(out[p])
        BY <3>2
      <4>2. out'[p][k].table = out'[p][i].table
        BY <3>1, <4>1, <1>old
      <4>3. heap'[p][out'[p][k].schema] = heap'[p][out'[p][i].schema]
        BY <2>3, <4>2
      <4> QED
        BY <3>1, <4>1, <4>3, <1>old
    <3>4. i \in DOMAIN out[p] /\ j \in DOMAIN out[p]
      BY <3>1, <1>3
    <3>5. out[p][i].table = out[p][j].table
      BY <2>3, <3>1, <1>old
    <3>6. out[p][i].schema = out[p][j].schema
      BY <3>3, <3>4, <3>5 DEF IngestInv, StableReference
    <3> QED
      BY <2>3, <3>1, <3>6, <1>old
  <2> QED
    BY <2>1, <2>2, <2>3
<1> QED
  BY <1>14, <1>15, <1>16, <1>17 DEF IngestInv

\* What a parse does to the shape of the state.
LEMMA TakeShape ==
  ASSUME IngestInv, NEW p \in Subtask, Ready(p), TakeMessage(p)
  PROVE  /\ inbox' \in [Subtask -> Seq(Message)]
         /\ memo' \in [Subtask -> [Headless -> Kind]]
<1>1. Head(inbox[p]) \in Message /\ Tail(inbox[p]) \in Seq(Message)
  BY DEF IngestInv, Shape, Ready
<1>2. Result(p).memo \in [Headless -> Kind]
  BY <1>1, ParseShape DEF IngestInv, Shape, Result
<1> QED
  BY <1>1, <1>2 DEF IngestInv, Shape, TakeMessage

LEMMA FlattenPending ==
  ASSUME IngestInv, NEW p \in Subtask, NEW schema, Ready(p), Result(p).ok, Flatten(p, schema)
  PROVE  /\ DOMAIN pending' = Subtask
         /\ \A q \in Subtask : \E S : pending'[q] \in Seq(S) /\ \A x \in S : x.table \in Table
<1> DEFINE Row(i) == [message |-> Head(inbox[p]), row |-> i, table |-> Result(p).table,
                      schema |-> schema, cells |-> Result(p).cells[i]]
           rows == [i \in DOMAIN Result(p).cells |-> Row(i)]
           S == {Row(i) : i \in DOMAIN Result(p).cells}
<1>1. Head(inbox[p]) \in Message
  BY DEF IngestInv, Shape, Ready
<1>2. /\ Result(p).table \in Table
      /\ \E n \in Nat : DOMAIN Result(p).cells = 1..n
  BY ZenonT(30), <1>1, ParseShape DEF IngestInv, Shape, Result
<1>3. rows \in Seq(S)
  BY <1>2
<1>4. \A x \in S : x.table \in Table
  BY <1>2
<1>5. pending' = [pending EXCEPT ![p] = rows]
  BY DEF Flatten
<1> HIDE DEF rows, S
<1> QED
  BY <1>3, <1>4, <1>5 DEF IngestInv, Shape

\* A new Schema object on the heap.
LEMMA MakeShape ==
  ASSUME IngestInv, NEW p \in Subtask, MakeSchema(p)
  PROVE  /\ DOMAIN heap' = Subtask
         /\ \A q \in Subtask : \E S : heap'[q] \in Seq(S)
         /\ \A q \in Subtask : /\ Len(heap[q]) <= Len(heap'[q])
                               /\ \A o \in 1..Len(heap[q]) : heap'[q][o] = heap[q][o]
<1>1. heap' = [heap EXCEPT ![p] = Append(heap[p], Result(p).columns)]
  BY DEF MakeSchema
<1>2. PICK H : heap[p] \in Seq(H)
  BY DEF IngestInv, Shape
<1>3. heap[p] \in Seq(H \cup {Result(p).columns})
  BY <1>2
<1>4. heap'[p] = Append(heap[p], Result(p).columns)
  BY <1>1 DEF IngestInv, Shape
<1>5. /\ heap'[p] \in Seq(H \cup {Result(p).columns})
      /\ Len(heap'[p]) = Len(heap[p]) + 1
      /\ \A o \in 1..Len(heap[p]) : heap'[p][o] = heap[p][o]
  BY <1>3, <1>4
<1>6. DOMAIN heap' = Subtask /\ \A q \in Subtask : q # p => heap'[q] = heap[q]
  BY <1>1 DEF IngestInv, Shape
<1>7. \A q \in Subtask : \E S : heap'[q] \in Seq(S)
  BY <1>5, <1>6 DEF IngestInv, Shape
<1>8. \A q \in Subtask : Len(heap[q]) \in Nat
  BY DEF IngestInv, Shape
<1> QED
  BY <1>5, <1>6, <1>7, <1>8

LEMMA NextIngest == IngestInv /\ [Next]_vars => IngestInv'
<1> SUFFICES ASSUME IngestInv, [Next]_vars PROVE IngestInv'
  OBVIOUS
<1>len. \A q \in Subtask : Len(heap[q]) \in Nat
  BY DEF IngestInv, Shape
<1>1. ASSUME UNCHANGED vars PROVE IngestInv'
  <2>1. Shape'
    BY <1>1 DEF vars, IngestInv, Shape
  <2>2. InHeap' /\ CanonicalInv' /\ StableReference'
    BY <1>1 DEF vars, IngestInv, InHeap, CanonicalInv, Steady, StableReference
  <2> QED
    BY <2>1, <2>2 DEF IngestInv
<1>2. ASSUME NEW m \in Message, Read(m) PROVE IngestInv'
  <2>1. turn' \in Subtask
    <3>1. turn + 1 \in Nat /\ Parallelism \in Nat \ {0}
      BY IngestAssumption DEF Subtask, IngestInv, Shape
    <3>2. (turn + 1) % Parallelism \in 0..(Parallelism - 1)
      BY <3>1
    <3> QED
      BY <1>2, <3>2 DEF Read, Subtask
  <2>2. inbox' \in [Subtask -> Seq(Message)]
    BY <1>2 DEF Read, IngestInv, Shape
  <2>3. Shape'
    BY <1>2, <2>1, <2>2 DEF Read, IngestInv, Shape
  <2> QED
    BY <1>2, <1>len, <2>3, GivesNothing DEF Read
<1>3. ASSUME NEW p \in Subtask, Drop(p) PROVE IngestInv'
  <2>1. Shape'
    BY <1>3, TakeShape DEF Drop, TakeMessage, IngestInv, Shape
  <2> QED
    BY <1>3, <1>len, <2>1, GivesNothing DEF Drop, TakeMessage
<1>4. ASSUME NEW p \in Subtask, FlattenNothing(p) PROVE IngestInv'
  <2>1. Flatten(p, 0) /\ Ready(p) /\ Result(p).ok /\ TakeMessage(p) /\ UNCHANGED heap
    BY <1>4 DEF FlattenNothing, Flatten
  <2>2. Shape'
    BY <2>1, TakeShape, FlattenPending DEF TakeMessage, IngestInv, Shape
  <2> QED
    BY <1>len, <2>1, <2>2, GivesNothing DEF TakeMessage
<1>5. ASSUME NEW p \in Subtask, FlattenCached(p) PROVE IngestInv'
  <2>1. PICK o : Flatten(p, o)
    BY <1>5 DEF FlattenCached
  <2>2. Ready(p) /\ Result(p).ok /\ TakeMessage(p) /\ UNCHANGED heap
    BY <1>5, <2>1 DEF FlattenCached, HasRows, Flatten
  <2>3. Shape'
    BY <2>1, <2>2, TakeShape, FlattenPending DEF TakeMessage, IngestInv, Shape
  <2> QED
    BY <1>len, <2>2, <2>3, GivesNothing DEF TakeMessage
<1>6. ASSUME NEW p \in Subtask, FlattenNew(p) PROVE IngestInv'
  <2>1. Flatten(p, Len(heap[p]) + 1) /\ Ready(p) /\ Result(p).ok /\ TakeMessage(p) /\ MakeSchema(p)
    BY <1>6 DEF FlattenNew, HasRows, Flatten
  <2>2. inbox' \in [Subtask -> Seq(Message)] /\ memo' \in [Subtask -> [Headless -> Kind]]
    BY <2>1, TakeShape
  <2>3. /\ DOMAIN pending' = Subtask
        /\ \A q \in Subtask : \E S : pending'[q] \in Seq(S) /\ \A x \in S : x.table \in Table
    BY <2>1, FlattenPending
  <2>4. UNCHANGED <<turn, canonical, out>>
    BY <2>1 DEF TakeMessage
  <2>5. DOMAIN heap' = Subtask /\ \A q \in Subtask : \E S : heap'[q] \in Seq(S)
    BY <2>1, MakeShape
  <2>6. Shape'
    BY <2>2, <2>3, <2>4, <2>5 DEF IngestInv, Shape
  <2>7. \A q \in Subtask : /\ Len(heap[q]) <= Len(heap'[q])
                           /\ \A o \in 1..Len(heap[q]) : heap'[q][o] = heap[q][o]
    BY <2>1, MakeShape
  <2> QED
    BY <2>4, <2>6, <2>7, GivesNothing
<1>7. ASSUME NEW p \in Subtask, NEW r \in Headless, Evict(p, r) PROVE IngestInv'
  <2>1. memo' \in [Subtask -> [Headless -> Kind]]
    BY <1>7 DEF Evict, IngestInv, Shape, Kind
  <2>2. Shape'
    BY <1>7, <2>1 DEF Evict, IngestInv, Shape
  <2> QED
    BY <1>7, <1>len, <2>2, GivesNothing DEF Evict
<1>8. ASSUME NEW p \in Subtask, DropUnpartitioned(p) PROVE IngestInv'
  <2>1. /\ Ready(p) /\ TakeMessage(p) /\ UNCHANGED <<turn, canonical, out, pending>>
        /\ MakeSchema(p) \/ UNCHANGED heap
    BY <1>8 DEF DropUnpartitioned, TakeMessage
  <2>2. inbox' \in [Subtask -> Seq(Message)] /\ memo' \in [Subtask -> [Headless -> Kind]]
    BY <2>1, TakeShape
  <2>3. CASE UNCHANGED heap
    <3>1. Shape'
      BY <2>1, <2>2, <2>3 DEF IngestInv, Shape
    <3> QED
      BY <1>len, <2>1, <2>3, <3>1, GivesNothing
  <2>4. CASE MakeSchema(p)
    <3>1. DOMAIN heap' = Subtask /\ \A q \in Subtask : \E S : heap'[q] \in Seq(S)
      BY <2>4, MakeShape
    <3>2. Shape'
      BY <2>1, <2>2, <3>1 DEF IngestInv, Shape
    <3>3. \A q \in Subtask : /\ Len(heap[q]) <= Len(heap'[q])
                             /\ \A o \in 1..Len(heap[q]) : heap'[q][o] = heap[q][o]
      BY <2>4, MakeShape
    <3> QED
      BY <2>1, <3>2, <3>3, GivesNothing
  <2> QED
    BY <2>1, <2>3, <2>4
<1> QED
  BY <1>1, <1>2, <1>3, <1>4, <1>5, <1>6, <1>7, <1>8, CollectKeeps DEF Next

-----------------------------------------------------------------------------
\* Rows of a table that keep their columns keep their Schema object, for any messages, any
\* number of them and any parallelism (OsqueryJob.java 207-229).
THEOREM Reference == Spec => []StableReference
<1>1. Spec => []IngestInv
  BY InitIngest, NextIngest, PTL DEF Spec
<1> QED
  BY <1>1, PTL DEF IngestInv

-----------------------------------------------------------------------------
(* The records: what a parse has made of a row, with the columns it made   *)
(* for the message's first row.                                            *)

\* Record rec, whose Schema is in heap h.
RecordOk(rec, h) == rec \in Record /\ rec.schema \in 1..Len(h) /\ Made(rec, h[rec.schema])

RecordsInv ==
  \A p \in Subtask :
    /\ memo[p] \in Memory
    /\ \A i \in DOMAIN out[p] : RecordOk(out[p][i], heap[p])
    /\ \A i \in DOMAIN pending[p] : RecordOk(pending[p][i], heap[p])

TypesInv == IngestInv /\ TypeOK /\ RecordsInv

\* Heap g holds what heap h does.
Extends(g, h) ==
  /\ Len(h) \in Nat /\ Len(g) \in Nat /\ Len(h) <= Len(g)
  /\ \A o \in 1..Len(h) : g[o] = h[o]

LEMMA RecordKept ==
  ASSUME NEW rec, NEW h, NEW g, RecordOk(rec, h), Extends(g, h)
  PROVE  RecordOk(rec, g)
BY DEF RecordOk, Extends

LEMMA InitTypes == Init => TypesInv
<1> SUFFICES ASSUME Init PROVE TypesInv
  OBVIOUS
<1>1. TypeOK
  <2>1. \A p \in Subtask : schemaCache[p] \cup Range(canonical[p]) \subseteq 0..Len(heap[p])
    BY DEF Init, Range
  <2> QED
    BY <2>1, IngestAssumption DEF Init, TypeOK, Kind
<1>2. RecordsInv
  <2>1. ASSUME NEW p \in Subtask PROVE memo[p] \in Memory
    <3>1. memo[p] = [r \in Headless |-> "none"]
      BY DEF Init
    <3> QED
      BY <3>1 DEF Memory, Kind
  <2> QED
    BY <2>1 DEF Init, RecordsInv
<1> QED
  BY <1>1, <1>2, InitIngest DEF TypesInv

\* A message is taken from the inbox and parsed.
LEMMA TakeTypes ==
  ASSUME TypesInv, NEW p \in Subtask, Ready(p), TakeMessage(p)
  PROVE  /\ Head(inbox[p]) \in Message
         /\ inbox' \in [Subtask -> Seq(Message)]
         /\ parsed' \in [Subtask -> Seq(Message)]
         /\ parsed'[p] = Append(parsed[p], Head(inbox[p]))
         /\ \A q \in Subtask : q # p => parsed'[q] = parsed[q]
         /\ memo' \in [Subtask -> [Headless -> Kind]]
         /\ \A q \in Subtask : memo'[q] \in Memory
<1>1. Head(inbox[p]) \in Message /\ Tail(inbox[p]) \in Seq(Message)
  BY DEF TypesInv, TypeOK, Ready
<1>2. Result(p).memo \in Memory
  BY <1>1, ParseMemory DEF TypesInv, RecordsInv, Result
<1>3. Result(p).memo \in [Headless -> Kind]
  BY <1>2, MemoryType
<1>4. memo' = [memo EXCEPT ![p] = Result(p).memo]
  BY DEF TakeMessage
<1>5. parsed' = [parsed EXCEPT ![p] = Append(parsed[p], Head(inbox[p]))]
  BY DEF TakeMessage
<1>6. inbox' = [inbox EXCEPT ![p] = Tail(inbox[p])]
  BY DEF TakeMessage
<1>7. Append(parsed[p], Head(inbox[p])) \in Seq(Message)
  BY <1>1 DEF TypesInv, TypeOK
<1>8. \A q \in Subtask : memo'[q] \in Memory
  BY <1>2, <1>4 DEF TypesInv, TypeOK, RecordsInv
<1>9. memo' \in [Subtask -> [Headless -> Kind]]
  BY <1>3, <1>4 DEF TypesInv, TypeOK
<1>10. parsed' \in [Subtask -> Seq(Message)] /\ inbox' \in [Subtask -> Seq(Message)]
  BY <1>1, <1>5, <1>6, <1>7 DEF TypesInv, TypeOK
<1>11. parsed'[p] = Append(parsed[p], Head(inbox[p])) /\ \A q \in Subtask : q # p => parsed'[q] = parsed[q]
  BY <1>5 DEF TypesInv, TypeOK
<1> QED
  BY <1>1, <1>8, <1>9, <1>10, <1>11

\* The rows of a message are on their way, and counted.
IsRows(rows, m, table) ==
  /\ Len(rows) = Len(PayloadRows(m)) /\ Len(rows) \in Nat
  /\ \A i \in 1..Len(rows) : rows[i].message = m /\ rows[i].row = i /\ rows[i].table = table

LEMMA FlattenTypes ==
  ASSUME TypesInv, NEW p \in Subtask, NEW schema, Ready(p), Result(p).ok, Flatten(p, schema),
         NEW h, \/ Result(p).cells = <<>>
                \/ schema \in 1..Len(h) /\ Len(h) \in Nat /\ h[schema] = Result(p).columns
  PROVE  /\ pending' \in [Subtask -> Seq(Record)]
         /\ \A q \in Subtask : q # p => pending'[q] = pending[q]
         /\ \A i \in DOMAIN pending'[p] : RecordOk(pending'[p][i], h)
         /\ Result(p).table \in Table
         /\ IsRows(pending'[p], Head(inbox[p]), Result(p).table)
         /\ processed' = [processed EXCEPT ![p][Result(p).table] = @ + Len(pending'[p])]
         /\ processed' \in [Subtask -> [Table -> Nat]]
<1>1. PICK m \in Message : m = Head(inbox[p])
  BY DEF TypesInv, TypeOK, Ready
<1>2. PICK mm \in Memory : mm = memo[p]
  BY DEF TypesInv, RecordsInv
<1>3. Result(p) = Parse(mm, m)
  BY <1>1, <1>2 DEF Result
<1>4. PICK n \in Nat : n = Len(PayloadRows(m))
  BY <1>3, ParseMakes
<1>5. PICK table \in Table : table = Parse(mm, m).table
  BY <1>3, ParseMakes
<1>6. DOMAIN Parse(mm, m).cells = 1..n /\ Len(Parse(mm, m).cells) = n
  BY <1>3, <1>4, ParseMakes
<1>7. PICK rows : rows = [i \in 1..n |-> RowRecord(mm, m, i, schema)]
  OBVIOUS
<1>8. pending' = [pending EXCEPT ![p] = rows]
  BY <1>1, <1>3, <1>6, <1>7 DEF Flatten, RowRecord
<1>9. \A i \in 1..n : schema \in 1..Len(h) /\ Len(h) \in Nat /\ h[schema] = Parse(mm, m).columns
  <2> TAKE i \in 1..n
  <2>1. Parse(mm, m).cells # <<>>
    BY <1>6
  <2> QED
    BY <1>3, <2>1
<1>10. ASSUME NEW i \in 1..n
       PROVE  /\ rows[i] \in Record /\ RecordOk(rows[i], h)
              /\ rows[i].message = m /\ rows[i].row = i /\ rows[i].table = table
  <2>1. schema \in Nat \ {0}
    BY <1>9
  <2>2. PICK rec : rec = RowRecord(mm, m, i, schema)
    OBVIOUS
  <2>3. rec \in Record /\ Made(rec, Parse(mm, m).columns)
    BY <1>3, <1>4, <2>1, <2>2, ParseMakes
  <2>4. rec.schema = schema /\ rec.message = m /\ rec.row = i /\ rec.table = table
    BY <1>5, <2>2 DEF RowRecord
  <2>5. RecordOk(rec, h)
    BY <1>9, <2>3, <2>4 DEF RecordOk
  <2> QED
    BY <1>7, <2>2, <2>3, <2>4, <2>5
<1>11. rows \in Seq(Record) /\ Len(rows) = n /\ DOMAIN rows = 1..n
  BY <1>7, <1>10
<1>12. IsRows(rows, m, table)
  BY <1>4, <1>10, <1>11 DEF IsRows
<1>13. processed' = [processed EXCEPT ![p][table] = @ + n]
  BY <1>3, <1>5, <1>6 DEF Flatten
<1>14. processed' \in [Subtask -> [Table -> Nat]]
  BY SMTT(20), <1>13 DEF TypesInv, TypeOK
<1>15. pending'[p] = rows /\ pending' \in [Subtask -> Seq(Record)] /\ \A q \in Subtask : q # p => pending'[q] = pending[q]
  BY <1>8, <1>11 DEF TypesInv, TypeOK
<1> QED
  BY <1>1, <1>3, <1>5, <1>10, <1>11, <1>12, <1>13, <1>14, <1>15

\* The records of the subtasks are kept when the heaps grow.
LEMMA RecordsKept ==
  ASSUME TypesInv, \A p \in Subtask : Extends(heap'[p], heap[p]), UNCHANGED out,
         \A p \in Subtask : memo'[p] \in Memory,
         \A p \in Subtask : pending'[p] = pending[p]
                            \/ \A i \in DOMAIN pending'[p] : RecordOk(pending'[p][i], heap'[p])
  PROVE  RecordsInv'
<1> SUFFICES ASSUME NEW p \in Subtask
             PROVE  /\ \A i \in DOMAIN out'[p] : RecordOk(out'[p][i], heap'[p])
                    /\ \A i \in DOMAIN pending'[p] : RecordOk(pending'[p][i], heap'[p])
  BY DEF RecordsInv
<1>1. ASSUME NEW i \in DOMAIN out'[p] PROVE RecordOk(out'[p][i], heap'[p])
  <2>1. out'[p] = out[p] /\ RecordOk(out[p][i], heap[p])
    BY DEF TypesInv, RecordsInv
  <2>2. PICK rec : rec = out[p][i]
    OBVIOUS
  <2>3. RecordOk(rec, heap'[p])
    BY <2>1, <2>2, RecordKept
  <2> QED
    BY <2>1, <2>2, <2>3
<1>2. ASSUME NEW i \in DOMAIN pending'[p] PROVE RecordOk(pending'[p][i], heap'[p])
  <2>1. CASE pending'[p] = pending[p]
    <3>1. RecordOk(pending[p][i], heap[p])
      BY <2>1 DEF TypesInv, RecordsInv
    <3>2. PICK rec : rec = pending[p][i]
      OBVIOUS
    <3>3. RecordOk(rec, heap'[p])
      BY <3>1, <3>2, RecordKept
    <3> QED
      BY <2>1, <3>2, <3>3
  <2> QED
    BY <2>1
<1> QED
  BY <1>1, <1>2

LEMMA HeapLength == TypesInv => \A p \in Subtask : Len(heap[p]) \in Nat /\ Extends(heap[p], heap[p])
<1>1. TypesInv => \A p \in Subtask : Len(heap[p]) \in Nat
  BY DEF TypesInv, IngestInv, Shape
<1> QED
  BY <1>1 DEF Extends

\* A new Schema object.
LEMMA HeapAppend ==
  ASSUME TypesInv, NEW p \in Subtask, NEW columns, heap' = [heap EXCEPT ![p] = Append(heap[p], columns)]
  PROVE  /\ Len(heap[p]) \in Nat /\ Len(heap'[p]) = Len(heap[p]) + 1
         /\ heap'[p][Len(heap[p]) + 1] = columns
         /\ \A q \in Subtask : Extends(heap'[q], heap[q])
<1>1. PICK H : heap[p] \in Seq(H)
  BY DEF TypesInv, IngestInv, Shape
<1>2. heap[p] \in Seq(H \cup {columns})
  BY <1>1
<1>3. heap'[p] = Append(heap[p], columns) /\ \A q \in Subtask : q # p => heap'[q] = heap[q]
  BY DEF TypesInv, IngestInv, Shape
<1>4. /\ Len(heap[p]) \in Nat /\ Len(heap'[p]) = Len(heap[p]) + 1
      /\ heap'[p][Len(heap[p]) + 1] = columns
      /\ \A o \in 1..Len(heap[p]) : heap'[p][o] = heap[p][o]
  BY <1>2, <1>3, AppendProperties
<1>5. Extends(heap'[p], heap[p])
  BY <1>4 DEF Extends
<1>6. \A q \in Subtask : q # p => Extends(heap'[q], heap[q])
  BY <1>3, HeapLength
<1> QED
  BY <1>4, <1>5, <1>6

\* The caches and the canonical objects are in the heap.
CachesOk ==
  \A p \in Subtask : schemaCache[p] \cup Range(canonical[p]) \subseteq 0..Len(heap[p])

LEMMA CachesKept ==
  ASSUME TypesInv, \A p \in Subtask : Extends(heap'[p], heap[p]), UNCHANGED canonical,
         \A p \in Subtask : schemaCache'[p] \subseteq schemaCache[p] \cup {Len(heap'[p])}
  PROVE  CachesOk'
<1> SUFFICES ASSUME NEW p \in Subtask, NEW o \in schemaCache'[p] \cup Range(canonical[p])
             PROVE  o \in 0..Len(heap'[p])
  BY DEF CachesOk
<1>1. Len(heap[p]) \in Nat /\ Len(heap'[p]) \in Nat /\ Len(heap[p]) <= Len(heap'[p])
  BY DEF Extends
<1>2. schemaCache[p] \cup Range(canonical[p]) \subseteq 0..Len(heap[p])
  BY DEF TypesInv, TypeOK
<1>3. CASE o \in schemaCache[p] \cup Range(canonical[p])
  BY <1>1, <1>2, <1>3
<1>4. CASE o = Len(heap'[p])
  BY <1>1, <1>4
<1> QED
  BY <1>3, <1>4

LEMMA FlattenStep ==
  ASSUME TypesInv, NEW p \in Subtask, NEW schema, Ready(p), Result(p).ok, Flatten(p, schema),
         \/ Result(p).cells = <<>>
         \/ schema \in 1..Len(heap'[p]) /\ heap'[p][schema] = Result(p).columns,
         \A q \in Subtask : Extends(heap'[q], heap[q]),
         schemaCache' \in [Subtask -> SUBSET (Nat \ {0})],
         \A q \in Subtask : schemaCache'[q] \subseteq schemaCache[q] \cup {Len(heap'[q])}
  PROVE  TypeOK' /\ RecordsInv'
<1>0. TakeMessage(p) /\ UNCHANGED <<turn, consumed, canonical, out, dropped>>
  BY DEF Flatten, TakeMessage
<1>1. PICK h : h = heap'[p]
  OBVIOUS
<1>2. Len(h) \in Nat
  BY <1>1 DEF Extends
<1>3. \/ Result(p).cells = <<>>
      \/ schema \in 1..Len(h) /\ Len(h) \in Nat /\ h[schema] = Result(p).columns
  BY <1>1, <1>2
<1>4. /\ pending' \in [Subtask -> Seq(Record)]
      /\ \A q \in Subtask : q # p => pending'[q] = pending[q]
      /\ \A i \in DOMAIN pending'[p] : RecordOk(pending'[p][i], h)
      /\ processed' \in [Subtask -> [Table -> Nat]]
  BY <1>3, FlattenTypes
<1>5. /\ inbox' \in [Subtask -> Seq(Message)] /\ parsed' \in [Subtask -> Seq(Message)]
      /\ memo' \in [Subtask -> [Headless -> Kind]] /\ \A q \in Subtask : memo'[q] \in Memory
  BY <1>0, TakeTypes
<1>6. CachesOk'
  BY <1>0, CachesKept
<1>7. TypeOK'
  BY <1>0, <1>4, <1>5, <1>6 DEF TypesInv, TypeOK, CachesOk
<1>8. RecordsInv'
  BY <1>0, <1>1, <1>4, <1>5, RecordsKept
<1> QED
  BY <1>7, <1>8

\* The sink is given the first record on its way, with one object or another for its Schema.
LEMMA CollectMoves ==
  ASSUME TypesInv, NEW p \in Subtask, Collect(p)
  PROVE  /\ pending[p] # <<>>
         /\ heap' = [heap EXCEPT ![p] = Append(heap[p], heap[p][Head(pending[p]).schema])]
         /\ pending' = [pending EXCEPT ![p] = Tail(pending[p])]
         /\ \E given \in 1..(Len(heap[p]) + 1) :
              /\ heap'[p][given] = heap[p][Head(pending[p]).schema]
              /\ canonical' = [canonical EXCEPT ![p][Head(pending[p]).table] = given]
              /\ out' = [out EXCEPT ![p] = Append(out[p], [Head(pending[p]) EXCEPT !.schema = given])]
<1>1. PICK r \in Record : r = Head(pending[p]) /\ pending[p] # <<>>
  BY SMTT(20) DEF Collect, TypesInv, TypeOK
<1>2. PICK columns : columns = heap[p][r.schema]
  OBVIOUS
<1>3. PICK copy : copy = Len(heap[p]) + 1
  OBVIOUS
<1>4. PICK given : given = Generate(p, r.table, copy, columns)
  OBVIOUS
<1>5. /\ heap' = [heap EXCEPT ![p] = Append(heap[p], columns)]
      /\ canonical' = [canonical EXCEPT ![p][r.table] = given]
      /\ out' = [out EXCEPT ![p] = Append(out[p],
              [message |-> r.message, row |-> r.row, table |-> r.table,
               schema |-> given, cells |-> r.cells])]
      /\ pending' = [pending EXCEPT ![p] = Tail(pending[p])]
  BY <1>1, <1>2, <1>3, <1>4 DEF Collect
<1>6. [message |-> r.message, row |-> r.row, table |-> r.table, schema |-> given, cells |-> r.cells]
        = [r EXCEPT !.schema = given]
  BY SMTT(20) DEF Record
<1>7. /\ Len(heap[p]) \in Nat /\ heap'[p][copy] = columns
      /\ \A o \in 1..Len(heap[p]) : heap'[p][o] = heap[p][o]
  BY <1>3, <1>5, HeapAppend DEF Extends
<1>8. canonical[p][r.table] \in 0..Len(heap[p])
  <2>1. canonical[p] \in [Table -> Nat] /\ r.table \in Table /\ Range(canonical[p]) \subseteq 0..Len(heap[p])
    BY DEF TypesInv, TypeOK, Record
  <2> QED
    BY <2>1 DEF Range
<1>9. given \in 1..(Len(heap[p]) + 1) /\ heap'[p][given] = columns
  <2>1. CASE canonical[p][r.table] # 0 /\ heap[p][canonical[p][r.table]] = columns
    <3>1. given = canonical[p][r.table]
      BY <1>4, <2>1 DEF Generate
    <3>2. given \in 1..Len(heap[p])
      BY <1>7, <1>8, <2>1, <3>1
    <3> QED
      BY <1>7, <2>1, <3>1, <3>2
  <2>2. CASE ~(canonical[p][r.table] # 0 /\ heap[p][canonical[p][r.table]] = columns)
    <3>1. given = copy
      BY <1>4, <2>2 DEF Generate
    <3> QED
      BY <1>3, <1>7, <3>1
  <2> QED
    BY <2>1, <2>2
<1> QED
  BY <1>1, <1>2, <1>5, <1>6, <1>9

LEMMA CollectTypes ==
  ASSUME TypesInv, NEW p \in Subtask, Collect(p)
  PROVE  TypeOK' /\ RecordsInv'
<1>1. PICK r \in Record : r = Head(pending[p]) /\ pending[p] # <<>>
  BY SMTT(20) DEF Collect, TypesInv, TypeOK
<1>2. PICK columns : columns = heap[p][r.schema]
  OBVIOUS
<1>3. /\ heap' = [heap EXCEPT ![p] = Append(heap[p], columns)]
      /\ pending' = [pending EXCEPT ![p] = Tail(pending[p])]
  BY <1>1, <1>2, CollectMoves
<1>4. PICK given \in 1..(Len(heap[p]) + 1) :
        /\ heap'[p][given] = columns
        /\ canonical' = [canonical EXCEPT ![p][r.table] = given]
        /\ out' = [out EXCEPT ![p] = Append(out[p], [r EXCEPT !.schema = given])]
  BY ZenonT(30), <1>1, <1>2, CollectMoves
<1>5. PICK n \in Nat : n = Len(heap[p]) /\ Len(heap'[p]) = n + 1
  BY <1>3, HeapAppend
<1>6. \A q \in Subtask : Extends(heap'[q], heap[q])
  BY <1>3, HeapAppend
<1>7. PICK new : new = [r EXCEPT !.schema = given]
  OBVIOUS
<1>8. /\ new \in Record /\ new.schema = given /\ new.message = r.message /\ new.row = r.row
      /\ new.table = r.table /\ new.cells = r.cells
  <2>1. new = [message |-> r.message, row |-> r.row, table |-> r.table, schema |-> given,
               cells |-> r.cells]
    BY <1>7 DEF Record
  <2>2. /\ r.message \in Message /\ r.row \in Nat \ {0} /\ r.table \in Table
        /\ r.cells \in Seq(Seq(Origin)) /\ given \in Nat \ {0}
    BY <1>5 DEF Record
  <2> QED
    BY <2>1, <2>2 DEF Record
<1>9. Made(r, columns)
  <2>1. 1 \in DOMAIN pending[p] /\ Head(pending[p]) = pending[p][1]
    BY <1>1 DEF TypesInv, TypeOK
  <2>2. RecordOk(pending[p][1], heap[p])
    BY <2>1 DEF TypesInv, RecordsInv
  <2> QED
    BY <1>1, <1>2, <2>1, <2>2 DEF RecordOk
<1>10. Made(new, columns)
  BY <1>8, <1>9 DEF Made, MadeBy
<1>11. RecordOk(new, heap'[p])
  BY <1>4, <1>5, <1>8, <1>10 DEF RecordOk
<1>12. UNCHANGED <<turn, consumed, inbox, memo, schemaCache, processed, dropped, parsed>>
  BY DEF Collect
<1>13. out' = [out EXCEPT ![p] = Append(out[p], new)]
  BY <1>4, <1>7
<1>14. out \in [Subtask -> Seq(Record)] /\ pending \in [Subtask -> Seq(Record)]
  BY DEF TypesInv, TypeOK
<1>15. /\ out' \in [Subtask -> Seq(Record)] /\ out'[p] = Append(out[p], new)
       /\ \A q \in Subtask : q # p => out'[q] = out[q]
  BY <1>8, <1>13, <1>14, AppendProperties
<1>16. /\ pending' \in [Subtask -> Seq(Record)] /\ pending'[p] = Tail(pending[p])
       /\ \A q \in Subtask : q # p => pending'[q] = pending[q]
  BY <1>1, <1>3, <1>14, HeadTailProperties
<1>17. r.table \in Table /\ given \in Nat
  BY <1>5 DEF Record
<1>18. canonical \in [Subtask -> [Table -> Nat]]
  BY DEF TypesInv, TypeOK
<1>19. /\ canonical' \in [Subtask -> [Table -> Nat]]
       /\ canonical'[p] = [canonical[p] EXCEPT ![r.table] = given]
       /\ \A q \in Subtask : q # p => canonical'[q] = canonical[q]
  BY <1>4, <1>17, <1>18
<1>20. CachesOk'
  <2> SUFFICES ASSUME NEW q \in Subtask, NEW o \in schemaCache[q] \cup Range(canonical'[q])
               PROVE  o \in 0..Len(heap'[q])
    BY <1>12 DEF CachesOk
  <2>1. Len(heap[q]) \in Nat /\ Len(heap'[q]) \in Nat /\ Len(heap[q]) <= Len(heap'[q])
    BY <1>6 DEF Extends
  <2>2. schemaCache[q] \cup Range(canonical[q]) \subseteq 0..Len(heap[q])
    BY DEF TypesInv, TypeOK
  <2>3. CASE o \in schemaCache[q] \cup Range(canonical[q])
    BY <2>1, <2>2, <2>3
  <2>4. CASE o \notin schemaCache[q] \cup Range(canonical[q])
    <3>1. q = p
      BY <1>19, <2>4
    <3>2. PICK t \in Table : o = canonical'[p][t]
      BY <1>19, <2>4, <3>1 DEF Range
    <3>3. t = r.table
      <4>1. ASSUME t # r.table PROVE o \in Range(canonical[p])
        <5>1. o = canonical[p][t] /\ t \in DOMAIN canonical[p]
          BY <1>18, <1>19, <3>2, <4>1
        <5> QED
          BY <5>1 DEF Range
      <4> QED
        BY <2>4, <3>1, <4>1
    <3>4. o = given
      BY <1>17, <1>18, <1>19, <3>2, <3>3
    <3> QED
      BY <1>5, <3>1, <3>4
  <2> QED
    BY <2>3, <2>4
<1>21. TypeOK'
  BY <1>12, <1>15, <1>16, <1>19, <1>20 DEF TypesInv, TypeOK, CachesOk
<1>22. ASSUME NEW q \in Subtask, NEW rec, RecordOk(rec, heap[q]) PROVE RecordOk(rec, heap'[q])
  BY <1>6, <1>22, RecordKept
<1>23. RecordsInv'
  <2> SUFFICES ASSUME NEW q \in Subtask
               PROVE  /\ memo'[q] \in Memory
                      /\ \A i \in DOMAIN out'[q] : RecordOk(out'[q][i], heap'[q])
                      /\ \A i \in DOMAIN pending'[q] : RecordOk(pending'[q][i], heap'[q])
    BY DEF RecordsInv
  <2>1. memo'[q] \in Memory
    BY <1>12 DEF TypesInv, RecordsInv
  <2>2. \A i \in DOMAIN out[q] : RecordOk(out[q][i], heap'[q])
    <3> TAKE i \in DOMAIN out[q]
    <3>1. PICK rec : rec = out[q][i]
      OBVIOUS
    <3>2. RecordOk(rec, heap[q])
      BY <3>1 DEF TypesInv, RecordsInv
    <3> QED
      BY <1>22, <3>1, <3>2
  <2>3. \A i \in DOMAIN pending[q] : RecordOk(pending[q][i], heap'[q])
    <3> TAKE i \in DOMAIN pending[q]
    <3>1. PICK rec : rec = pending[q][i]
      OBVIOUS
    <3>2. RecordOk(rec, heap[q])
      BY <3>1 DEF TypesInv, RecordsInv
    <3> QED
      BY <1>22, <3>1, <3>2
  <2>4. CASE q # p
    BY <1>15, <1>16, <2>1, <2>2, <2>3, <2>4
  <2>5. CASE q = p
    <3>1. ASSUME NEW i \in DOMAIN out'[p] PROVE RecordOk(out'[p][i], heap'[p])
      <4>1. out'[p][i] = new \/ (i \in DOMAIN out[p] /\ out'[p][i] = out[p][i])
        BY <1>8, <1>14, <1>15, AppendProperties
      <4> QED
        BY <1>11, <2>2, <2>5, <4>1
    <3>2. ASSUME NEW i \in DOMAIN pending'[p] PROVE RecordOk(pending'[p][i], heap'[p])
      <4>1. i + 1 \in DOMAIN pending[p] /\ pending'[p][i] = pending[p][i + 1]
        BY <1>1, <1>14, <1>16, HeadTailProperties
      <4> QED
        BY <2>3, <2>5, <4>1
    <3> QED
      BY <2>1, <2>5, <3>1, <3>2
  <2> QED
    BY <2>4, <2>5
<1> QED
  BY <1>21, <1>23

LEMMA NextTypes == TypesInv /\ [Next]_vars => TypesInv'
<1> SUFFICES ASSUME TypesInv, [Next]_vars PROVE TypeOK' /\ RecordsInv'
  BY NextIngest DEF TypesInv
<1>a. \A q \in Subtask : memo[q] \in Memory
  BY DEF TypesInv, RecordsInv
<1>b. \A q \in Subtask : Len(heap[q]) \in Nat /\ Extends(heap[q], heap[q])
  BY HeapLength
<1>c. \A q \in Subtask : schemaCache[q] \subseteq schemaCache[q] \cup {Len(heap[q])}
  OBVIOUS
<1>1. ASSUME UNCHANGED vars PROVE TypeOK' /\ RecordsInv'
  BY <1>1 DEF vars, TypesInv, TypeOK, RecordsInv
<1>2. ASSUME NEW m \in Message, Read(m) PROVE TypeOK' /\ RecordsInv'
  <2>1. turn' \in Subtask
    BY NextIngest DEF TypesInv, IngestInv, Shape
  <2>2. consumed' \in 0..MaxMessages
    BY <1>2, IngestAssumption DEF Read, TypesInv, TypeOK
  <2>3. inbox' \in [Subtask -> Seq(Message)]
    BY <1>2 DEF Read, TypesInv, TypeOK
  <2>4. TypeOK'
    BY <1>2, <2>1, <2>2, <2>3 DEF Read, TypesInv, TypeOK
  <2> QED
    BY <1>2, <1>a, <1>b, <2>4, RecordsKept DEF Read
<1>3. ASSUME NEW p \in Subtask, Drop(p) PROVE TypeOK' /\ RecordsInv'
  <2>1. Ready(p) /\ TakeMessage(p) /\ UNCHANGED <<schemaCache, heap, pending, processed, turn, consumed, canonical, out>>
    BY <1>3 DEF Drop, TakeMessage
  <2>2. dropped' \in [Subtask -> Nat]
    BY <1>3 DEF Drop, TypesInv, TypeOK
  <2>3. /\ inbox' \in [Subtask -> Seq(Message)] /\ parsed' \in [Subtask -> Seq(Message)]
        /\ memo' \in [Subtask -> [Headless -> Kind]] /\ \A q \in Subtask : memo'[q] \in Memory
    BY <2>1, TakeTypes
  <2>4. TypeOK'
    BY <2>1, <2>2, <2>3 DEF TypesInv, TypeOK
  <2> QED
    BY <1>b, <2>1, <2>3, <2>4, RecordsKept
<1>4. ASSUME NEW p \in Subtask, FlattenNothing(p) PROVE TypeOK' /\ RecordsInv'
  <2>1. /\ Flatten(p, 0) /\ Ready(p) /\ Result(p).ok /\ Result(p).cells = <<>>
        /\ UNCHANGED <<schemaCache, heap>>
    BY <1>4 DEF FlattenNothing
  <2>2. schemaCache' \in [Subtask -> SUBSET (Nat \ {0})]
    BY <2>1 DEF TypesInv, TypeOK
  <2> QED
    BY <1>b, <1>c, <2>1, <2>2, FlattenStep
<1>5. ASSUME NEW p \in Subtask, FlattenCached(p) PROVE TypeOK' /\ RecordsInv'
  <2>1. PICK o \in Cached(p) : Flatten(p, o)
    BY <1>5 DEF FlattenCached
  <2>2. Ready(p) /\ Result(p).ok /\ UNCHANGED <<schemaCache, heap>>
    BY <1>5 DEF FlattenCached, HasRows
  <2>3. o \in 1..Len(heap[p]) /\ heap[p][o] = Result(p).columns
    BY <2>1 DEF Cached, TypesInv, TypeOK
  <2>4. schemaCache' \in [Subtask -> SUBSET (Nat \ {0})]
    BY <2>2 DEF TypesInv, TypeOK
  <2> QED
    BY <1>b, <1>c, <2>1, <2>2, <2>3, <2>4, FlattenStep
<1>6. ASSUME NEW p \in Subtask, FlattenNew(p) PROVE TypeOK' /\ RecordsInv'
  <2>1. PICK n \in Nat : n = Len(heap[p])
    BY <1>b
  <2>2. /\ Flatten(p, n + 1) /\ Ready(p) /\ Result(p).ok
        /\ heap' = [heap EXCEPT ![p] = Append(heap[p], Result(p).columns)]
        /\ schemaCache' = [schemaCache EXCEPT ![p] = schemaCache[p] \cup {n + 1}]
    BY <1>6, <2>1 DEF FlattenNew, HasRows, MakeSchema
  <2>3. /\ Len(heap'[p]) = n + 1 /\ heap'[p][n + 1] = Result(p).columns
        /\ \A q \in Subtask : Extends(heap'[q], heap[q])
    BY <2>1, <2>2, HeapAppend
  <2>4. /\ schemaCache' \in [Subtask -> SUBSET (Nat \ {0})]
        /\ \A q \in Subtask : schemaCache'[q] \subseteq schemaCache[q] \cup {Len(heap'[q])}
    BY SMTT(20), <2>2, <2>3 DEF TypesInv, TypeOK
  <2>5. n + 1 \in 1..Len(heap'[p])
    BY <2>3
  <2> QED
    BY <2>2, <2>3, <2>4, <2>5, FlattenStep
<1>7. ASSUME NEW p \in Subtask, NEW r \in Headless, Evict(p, r) PROVE TypeOK' /\ RecordsInv'
  <2>1. memo' = [memo EXCEPT ![p] = [memo[p] EXCEPT ![r] = "none"]]
    BY <1>7 DEF Evict, TypesInv, TypeOK
  <2>2. [memo[p] EXCEPT ![r] = "none"] \in Memory
    BY <1>a, ForgetKeeps
  <2>3. \A q \in Subtask : memo'[q] \in Memory
    BY <1>a, <2>1, <2>2 DEF TypesInv, TypeOK
  <2>4. memo' \in [Subtask -> [Headless -> Kind]]
    BY <2>1, <2>2, MemoryType DEF TypesInv, TypeOK
  <2>5. TypeOK'
    BY <1>7, <2>4 DEF Evict, TypesInv, TypeOK
  <2> QED
    BY <1>7, <1>b, <2>3, <2>5, RecordsKept DEF Evict
<1>8. ASSUME NEW p \in Subtask, DropUnpartitioned(p) PROVE TypeOK' /\ RecordsInv'
  <2>1. /\ Ready(p) /\ TakeMessage(p)
        /\ UNCHANGED <<pending, processed, turn, consumed, canonical, out>>
        /\ MakeSchema(p) \/ UNCHANGED <<schemaCache, heap>>
        /\ dropped' = [dropped EXCEPT ![p] = @ + 1]
    BY <1>8 DEF DropUnpartitioned, TakeMessage
  <2>2. dropped' \in [Subtask -> Nat]
    BY <2>1 DEF TypesInv, TypeOK
  <2>3. /\ inbox' \in [Subtask -> Seq(Message)] /\ parsed' \in [Subtask -> Seq(Message)]
        /\ memo' \in [Subtask -> [Headless -> Kind]] /\ \A q \in Subtask : memo'[q] \in Memory
    BY <2>1, TakeTypes
  <2>4. /\ \A q \in Subtask : Extends(heap'[q], heap[q])
        /\ schemaCache' \in [Subtask -> SUBSET (Nat \ {0})]
        /\ \A q \in Subtask : schemaCache'[q] \subseteq schemaCache[q] \cup {Len(heap'[q])}
    <3>1. CASE UNCHANGED <<schemaCache, heap>>
      <4>1. schemaCache' \in [Subtask -> SUBSET (Nat \ {0})]
        BY <3>1 DEF TypesInv, TypeOK
      <4> QED
        BY <1>b, <1>c, <3>1, <4>1
    <3>2. CASE MakeSchema(p)
      <4>1. PICK n \in Nat : n = Len(heap[p])
        BY <1>b
      <4>2. /\ heap' = [heap EXCEPT ![p] = Append(heap[p], Result(p).columns)]
            /\ schemaCache' = [schemaCache EXCEPT ![p] = schemaCache[p] \cup {n + 1}]
        BY <3>2, <4>1 DEF MakeSchema
      <4>3. Len(heap'[p]) = n + 1 /\ \A q \in Subtask : Extends(heap'[q], heap[q])
        BY <4>1, <4>2, HeapAppend
      <4>4. /\ schemaCache' \in [Subtask -> SUBSET (Nat \ {0})]
            /\ \A q \in Subtask : schemaCache'[q] \subseteq schemaCache[q] \cup {Len(heap'[q])}
        BY SMTT(20), <4>2, <4>3 DEF TypesInv, TypeOK
      <4> QED
        BY <4>3, <4>4
    <3> QED
      BY <2>1, <3>1, <3>2
  <2>5. CachesOk'
    BY <2>1, <2>4, CachesKept
  <2>6. TypeOK'
    BY <2>1, <2>2, <2>3, <2>4, <2>5 DEF TypesInv, TypeOK, CachesOk
  <2>7. \A q \in Subtask : pending'[q] = pending[q]
    BY <2>1
  <2>8. RecordsInv'
    BY <2>1, <2>3, <2>4, <2>7, RecordsKept
  <2> QED
    BY <2>6, <2>8
<1> QED
  BY <1>1, <1>2, <1>3, <1>4, <1>5, <1>6, <1>7, <1>8, CollectTypes DEF Next

\* Everything stays what it must be, the cache of identifiers and the heap of Schema objects
\* included: no reference leads out of its heap (OsqueryJob.java 196-229).
THEOREM IngestTypes == Spec => []TypeOK
<1>1. Spec => []TypesInv
  BY InitTypes, NextTypes, PTL DEF Spec
<1> QED
  BY <1>1, PTL DEF TypesInv

-----------------------------------------------------------------------------
(* Values and columns.                                                     *)

\* What comes first in a sequence, and what is left of it.
LEMMA FirstAndRest ==
  ASSUME NEW S, NEW x \in S, NEW s \in Seq(S)
  PROVE  /\ <<x>> \o s \in Seq(S)
         /\ (<<x>> \o s)[1] = x /\ Head(<<x>> \o s) = x /\ Tail(<<x>> \o s) = s
<1>1. PICK o \in Seq(S) : o = <<x>> /\ Len(o) = 1 /\ o[1] = x
  <2>1. <<x>> \in Seq(S) /\ Len(<<x>>) = 1 /\ <<x>>[1] = x
    OBVIOUS
  <2> QED
    BY <2>1
<1>2. PICK n \in Nat : n = Len(s)
  BY LenProperties
<1>3. PICK c : c = o \o s
  OBVIOUS
<1>4. /\ c \in Seq(S) /\ Len(c) = n + 1 /\ c[1] = x
      /\ \A i \in 1..n : c[i + 1] = s[i]
  <2>1. /\ c \in Seq(S) /\ Len(c) = 1 + n
        /\ \A i \in 1..(1 + n) : c[i] = IF i <= 1 THEN o[i] ELSE s[i - 1]
    BY <1>1, <1>2, <1>3, ConcatProperties
  <2>2. ASSUME NEW i \in 1..n PROVE c[i + 1] = s[i]
    <3>1. i + 1 \in 1..(1 + n) /\ ~(i + 1 <= 1) /\ (i + 1) - 1 = i
      OBVIOUS
    <3> QED
      BY <2>1, <3>1
  <2> QED
    BY <1>1, <2>1, <2>2
<1>5. c # <<>>
  BY <1>4
<1>6. Head(c) = x
  BY <1>4, <1>5, HeadTailProperties
<1>7. PICK t \in Seq(S) : t = Tail(c) /\ Len(t) = n /\ \A i \in 1..n : t[i] = c[i + 1]
  <2>1. PICK t : t = Tail(c)
    OBVIOUS
  <2>2. t \in Seq(S) /\ Len(t) = Len(c) - 1 /\ \A i \in 1..Len(t) : t[i] = c[i + 1]
    BY <1>4, <1>5, <2>1, HeadTailProperties
  <2>3. Len(t) = n
    BY <1>4, <2>2
  <2> QED
    BY <2>1, <2>2, <2>3
<1>8. t = s
  BY <1>2, <1>4, <1>7, SeqEqual
<1> QED
  BY <1>1, <1>3, <1>4, <1>6, <1>7, <1>8

\* A time stamp fits its column.
LEMMA StampFits ==
  ASSUME NEW c, NEW i, NEW meta \in StampChoice, c[i] = [name |-> meta.name, type |-> meta.type]
  PROVE  Fits(c, i, meta.cell)
<1>1. ASSUME NEW what \in Seq(Origin), meta = Stamp(what) PROVE Fits(c, i, meta.cell)
  <2>1. meta.name = what /\ meta.type = "timestamp" /\ meta.cell = <<"stamp">> \o what
    BY <1>1 DEF Stamp
  <2>2. "stamp" \in Origin
    BY DEF Origin
  <2>3. PICK cell : cell = meta.cell
    OBVIOUS
  <2>4. cell[1] = "stamp" /\ Tail(cell) = what
    BY <2>1, <2>2, <2>3, FirstAndRest
  <2>5. c[i] = [name |-> Tail(cell), type |-> "timestamp"]
    BY <2>1, <2>4
  <2> QED
    BY <2>3, <2>4, <2>5 DEF Fits
<1>2. <<"meta", "time">> \in Seq(Origin) /\ <<"meta", "ingest", "time">> \in Seq(Origin)
  BY DEF Origin
<1> QED
  BY <1>1, <1>2 DEF StampChoice

\* A metadata field fits its column.
LEMMA MetaFits ==
  ASSUME NEW mm \in [Headless -> Kind], NEW m \in Message, NEW c, NEW i,
         NEW meta \in MetaChoice(mm, m), c[i] = [name |-> meta.name, type |-> meta.type]
  PROVE  Fits(c, i, meta.cell)
<1>1. PICK f \in ToSet(MetaFields(m)) : meta = MetaField(mm, f)
  BY DEF MetaChoice
<1>2. f.key \in {"meta", "decoration"} /\ f.raw \in Raw /\ meta.cell = <<f.key, f.raw>>
  BY <1>1, MetaFieldType
<1>3. PICK w \in Identifier, kind \in {"table", "field"} :
        w = SanitizeIdentifier(mm, f.raw, "field") /\ w = Normalize(f.raw, kind)
  BY <1>2, SanitizeKind
<1>4. meta.name = <<f.key>> \o w
  BY <1>1, <1>3, MetaFieldType
<1>5. f.key \in ToSet(Alphabet)
  BY <1>2, ParserAssumption
<1>6. Head(meta.name) = f.key /\ Tail(meta.name) = w
  BY <1>4, <1>5, FirstAndRest DEF Identifier
<1>7. NameOf(w, f.raw, 0)
  BY <1>3 DEF NameOf
<1>8. PICK cell, name : cell = meta.cell /\ name = meta.name
  OBVIOUS
<1>9. cell[1] = f.key /\ cell[2] = f.raw /\ cell[1] # "stamp" /\ cell[1] # "row"
  BY <1>2, <1>8
<1>10. c[i].name = name
  BY <1>8
<1>11. Head(name) = cell[1] /\ NameOf(Tail(name), cell[2], 0)
  BY <1>6, <1>7, <1>8, <1>9
<1> QED
  BY <1>8, <1>9, <1>10, <1>11 DEF Fits

\* A payload value fits its column.
LEMMA PayloadFits ==
  ASSUME NEW c, NEW i \in Nat, NEW v, NEW base, NEW r \in Raw, NEW kind \in {"table", "field"},
         base = Normalize(r, kind), c[i] = [name |-> v, type |-> "string"],
         v = base \/ \E n \in 2..(i + 1) : v = Append(base, ToString(n))
  PROVE  Fits(c, i, <<"row", r>>)
<1>1. PICK cell : cell = <<"row", r>> /\ cell[1] = "row" /\ cell[2] = r
  <2>1. <<"row", r>>[1] = "row" /\ <<"row", r>>[2] = r
    OBVIOUS
  <2> QED
    BY <2>1
<1>2. NameOf(v, r, i + 1)
  BY DEF NameOf
<1>3. c[i].name = v /\ c[i].type = "string"
  OBVIOUS
<1> QED
  BY <1>1, <1>2, <1>3 DEF Fits

\* A row with the keys of the first one.
FitsAll(c, d, row) ==
  /\ Len(c) = Len(d)
  /\ \A i \in DOMAIN c : Fits(c, i, d[i])
  /\ \A r \in row : \E i \in DOMAIN c : d[i] = <<"row", r>>

LEMMA RowFitsColumns ==
  ASSUME NEW mm \in [Headless -> Kind], NEW nm \in [Headless -> Kind], NEW m \in Message,
         NEW row \in SUBSET Raw, NEW c, NEW d,
         c = Columns(nm, AssembleFinalMetaFields(mm, m), row),
         d = RowData(AssembleFinalMetaFields(mm, m), row)
  PROVE  FitsAll(c, d, row)
<1>1. PICK meta \in Seq(MetaColumn) :
        /\ meta = AssembleFinalMetaFields(mm, m) /\ Len(meta) <= Len(m) + 2
        /\ meta \in Seq(StampChoice \cup MetaChoice(mm, m))
  BY AssembleType
<1>2. PICK L \in Nat : L = Len(meta)
  BY <1>1
<1>3. PICK keys \in Seq(Raw) : keys = SortedKeys(row) /\ ToSet(keys) = row
  BY SortedKeysType
<1>4. PICK n \in Nat : n = Len(keys) /\ DOMAIN keys = 1..n
  OBVIOUS
<1>5. PICK v : v = SanitizePayloadColumns(nm, meta, row)
  OBVIOUS
<1>6. IsColumns(c, meta, n, v)
  BY <1>1, <1>3, <1>4, <1>5, ColumnsFacts
<1>7. IsCells(d, meta, n, keys)
  BY <1>1, <1>3, <1>4, RowDataFacts
<1>8. Len(c) = Len(d) /\ DOMAIN c = 1..(L + n)
  BY <1>2, <1>6, <1>7 DEF IsColumns, IsCells
<1>9. ASSUME NEW i \in 1..L PROVE Fits(c, i, d[i])
  <2>1. PICK col : col = meta[i] /\ col \in StampChoice \cup MetaChoice(mm, m)
    BY <1>1, <1>2
  <2>2. c[i] = [name |-> col.name, type |-> col.type] /\ d[i] = col.cell
    BY <1>2, <1>6, <1>7, <2>1 DEF IsColumns, IsCells
  <2>3. Fits(c, i, col.cell)
    BY <2>1, <2>2, StampFits, MetaFits
  <2> QED
    BY <2>2, <2>3
<1>10. ASSUME NEW k \in 1..n PROVE Fits(c, L + k, d[L + k])
  <2>1. PICK r \in Raw : r = keys[k]
    BY <1>4
  <2>2. PICK base : base = SanitizeIdentifier(nm, r, "field")
    OBVIOUS
  <2>3. PICK kind \in {"table", "field"} : base = Normalize(r, kind)
    BY <2>2, SanitizeKind
  <2>4. v[k] = base \/ \E s \in 2..(Len(meta) + k + 1) : v[k] = Append(base, ToString(s))
    <3>1. n = Len(SortedKeys(row))
      BY <1>3, <1>4
    <3>2. WellNamed(v, nm, meta, SortedKeys(row), n)
      BY <1>1, <1>5, <3>1, PayloadNames
    <3>3. SanitizeIdentifier(nm, SortedKeys(row)[k], "field") = base
      BY <1>3, <2>1, <2>2
    <3> QED
      BY <3>2, <3>3 DEF WellNamed
  <2>5. PICK i \in Nat : i = L + k
    OBVIOUS
  <2>6. v[k] = base \/ \E s \in 2..(i + 1) : v[k] = Append(base, ToString(s))
    BY <1>2, <2>4, <2>5
  <2>7. c[i] = [name |-> v[k], type |-> "string"] /\ d[i] = <<"row", r>>
    BY <1>2, <1>6, <1>7, <2>1, <2>5 DEF IsColumns, IsCells
  <2>8. Fits(c, i, <<"row", r>>)
    BY <2>3, <2>6, <2>7, PayloadFits
  <2> QED
    BY <2>5, <2>7, <2>8
<1>11. \A i \in 1..(L + n) : i \in 1..L \/ \E k \in 1..n : i = L + k
  BY <1>2, <1>6 DEF IsColumns
<1>12. ASSUME NEW r \in row PROVE \E i \in DOMAIN c : d[i] = <<"row", r>>
  <2>1. PICK k \in 1..n : keys[k] = r
    BY <1>3, <1>4 DEF ToSet
  <2>2. L + k \in 1..(L + n)
    OBVIOUS
  <2>3. d[L + k] = <<"row", keys[k]>>
    BY <1>2, <1>7 DEF IsCells
  <2> QED
    BY <1>8, <2>1, <2>2, <2>3
<1> QED
  BY ZenonT(30), <1>8, <1>9, <1>10, <1>11, <1>12 DEF FitsAll

LEMMA RecordsFit == TypesInv => UniformRowsFit
<1> SUFFICES ASSUME TypesInv, NEW p \in Subtask, NEW k \in DOMAIN out[p],
                    PayloadRows(out[p][k].message)[out[p][k].row] = PayloadRows(out[p][k].message)[1]
             PROVE  RowFits(p, out[p][k])
  BY DEF UniformRowsFit
<1>1. PICK rec : rec = out[p][k]
  OBVIOUS
<1>2. PICK c : c = heap[p][rec.schema]
  OBVIOUS
<1>3. rec \in Record /\ Made(rec, c)
  BY <1>1, <1>2 DEF TypesInv, RecordsInv, RecordOk
<1>4. PICK mm \in Memory, nm \in Memory : MadeBy(mm, nm, rec, c)
  BY <1>3 DEF Made
<1>5. PICK m \in Message : m = rec.message /\ Complete(m)
  BY <1>4 DEF MadeBy, CompleteMessage
<1>6. PICK rows \in Seq(SUBSET Raw) : rows = PayloadRows(m)
  BY <1>5, CompleteFacts
<1>7. PICK row \in SUBSET Raw : row = rows[1] /\ row = rows[rec.row]
  <2>1. rec.row \in 1..Len(rows)
    BY <1>4, <1>5, <1>6 DEF MadeBy
  <2>2. rows[rec.row] \in SUBSET Raw
    BY <2>1
  <2> QED
    BY <1>1, <1>5, <1>6, <2>2
<1>8. PICK d : d = rec.cells
  OBVIOUS
<1>9. /\ c = Columns(nm, AssembleFinalMetaFields(mm, m), row)
      /\ d = RowData(AssembleFinalMetaFields(mm, m), row)
      /\ IsSchema(c)
  BY <1>4, <1>5, <1>6, <1>7, <1>8 DEF MadeBy
<1>10. mm \in [Headless -> Kind] /\ nm \in [Headless -> Kind]
  BY MemoryType
<1>11. FitsAll(c, d, row)
  BY <1>9, <1>10, RowFitsColumns
<1>12. RowFits(p, rec)
  BY <1>2, <1>5, <1>6, <1>7, <1>8, <1>9, <1>11 DEF RowFits, FitsAll
<1> QED
  BY <1>1, <1>12

\* In a message whose rows all have the keys of the first one, every value of every row is
\* under its column: whatever the messages, the names that collide and what the cache had
\* kept of them (OsqueryRecordParser.java 426-479).
THEOREM Uniform == Spec => []UniformRowsFit
<1>1. Spec => []TypesInv
  BY InitTypes, NextTypes, PTL DEF Spec
<1> QED
  BY <1>1, RecordsFit, PTL

-----------------------------------------------------------------------------
(* Messages and rows.                                                      *)

Faces(list) == [i \in DOMAIN list |-> <<list[i].message, list[i].row>>]
RowsOfOne(m) == [i \in DOMAIN PayloadRows(m) |-> <<m, i>>]
RowLists(list, kept) == [k \in DOMAIN list |-> IF k \in kept THEN RowsOfOne(list[k]) ELSE <<>>]

\* What RowsAccounted says of a subtask that has parsed the messages of list, made of them
\* the records in all, dropped gone of them and counted so many rows of each table.
Account(list, kept, all, gone, counts) ==
  /\ kept \in SUBSET DOMAIN list
  /\ \A k \in DOMAIN list : \E mm \in Memory : k \in kept <=> Usable(mm, list[k])
  /\ Faces(all) = FlattenSeq(RowLists(list, kept))
  /\ gone = Cardinality(DOMAIN list \ kept)
  /\ \A t \in Table : counts[t] = Cardinality({i \in DOMAIN all : all[i].table = t})

LEMMA RowsAreLists == \A list, kept : RowsOf(list, kept) = FlattenSeq(RowLists(list, kept))
BY DEF RowsOf, RowLists, RowsOfOne

LEMMA Accounts ==
  RowsAccounted <=> \A p \in Subtask : \E kept :
                      Account(parsed[p], kept, out[p] \o pending[p], dropped[p], processed[p])
<1>1. \A list, kept : RowsOf(list, kept) = FlattenSeq(RowLists(list, kept))
  BY RowsAreLists
<1>2. RowsAccounted <=>
        \A p \in Subtask : \E kept \in SUBSET DOMAIN parsed[p] :
          Account(parsed[p], kept, out[p] \o pending[p], dropped[p], processed[p])
  BY <1>1 DEF RowsAccounted, Account, Faces
<1> QED
  BY <1>2 DEF Account

LEMMA RowsOfOneType ==
  ASSUME NEW m \in Message, Complete(m)
  PROVE  RowsOfOne(m) \in Seq(Message \X Nat) /\ DOMAIN RowsOfOne(m) = 1..Len(PayloadRows(m))
<1>1. PICK n \in Nat : DOMAIN PayloadRows(m) = 1..n /\ n = Len(PayloadRows(m))
  <2>1. PICK rows \in Seq(SUBSET Raw) : rows = PayloadRows(m)
    BY CompleteFacts
  <2> QED
    BY <2>1, LenProperties
<1>2. RowsOfOne(m) = [i \in 1..n |-> <<m, i>>]
  BY <1>1 DEF RowsOfOne
<1>3. [i \in 1..n |-> <<m, i>>] \in Seq(Message \X Nat)
  OBVIOUS
<1> QED
  BY <1>1, <1>2, <1>3

\* Another message adds its rows, if it is kept.
Grown(list, kept, m, more) ==
  FlattenSeq(RowLists(Append(list, m), more))
    = FlattenSeq(RowLists(list, kept)) \o (IF more = kept THEN <<>> ELSE RowsOfOne(m))

LEMMA RowsGrow ==
  ASSUME NEW list \in Seq(Message), NEW kept \in SUBSET (1..Len(list)),
         \A k \in kept : Complete(list[k]), NEW m \in Message, NEW more,
         more = kept \/ (more = kept \cup {Len(list) + 1} /\ Complete(m))
  PROVE  Grown(list, kept, m, more)
<1> DEFINE S == Message \X Nat
<1>1. PICK n \in Nat : n = Len(list) /\ DOMAIN list = 1..n
  BY LenProperties
<1>2. PICK longer : longer = Append(list, m)
  OBVIOUS
<1>3. /\ longer \in Seq(Message) /\ DOMAIN longer = 1..(n + 1) /\ longer[n + 1] = m
      /\ \A k \in 1..n : longer[k] = list[k]
  BY <1>1, <1>2, AppendProperties
<1>4. PICK a : a = RowLists(list, kept)
  OBVIOUS
<1>5. a = [k \in 1..n |-> IF k \in kept THEN RowsOfOne(list[k]) ELSE <<>>]
  BY <1>1, <1>4 DEF RowLists
<1>6. a \in Seq(Seq(S)) /\ Len(a) = n
  <2>1. ASSUME NEW k \in 1..n PROVE a[k] \in Seq(S)
    <3>1. CASE k \in kept
      <4>1. PICK e \in Message : e = list[k]
        BY <1>1
      <4>2. RowsOfOne(e) \in Seq(S)
        BY <3>1, <4>1, RowsOfOneType
      <4> QED
        BY <1>5, <3>1, <4>1, <4>2
    <3>2. CASE k \notin kept
      BY <1>5, <3>2, EmptySeq
    <3> QED
      BY <3>1, <3>2
  <2>2. DOMAIN a = 1..n
    BY <1>5
  <2> HIDE DEF S
  <2>3. a \in [1..n -> Seq(S)]
    BY <1>5, <2>1
  <2> QED
    BY <2>3
<1>7. PICK e : e = IF more = kept THEN <<>> ELSE RowsOfOne(m)
  OBVIOUS
<1>8. e \in Seq(S)
  <2>1. CASE more = kept
    BY <1>7, <2>1, EmptySeq
  <2>2. CASE more # kept
    BY <1>7, <2>2, RowsOfOneType
  <2> QED
    BY <2>1, <2>2
<1>9. n + 1 \notin kept /\ (more = kept <=> n + 1 \notin more)
  BY <1>1
<1>10. RowLists(longer, more) = Append(a, e)
  <2>1. PICK b : b = RowLists(longer, more)
    OBVIOUS
  <2>2. b = [k \in 1..(n + 1) |-> IF k \in more THEN RowsOfOne(longer[k]) ELSE <<>>]
    BY <1>3, <2>1 DEF RowLists
  <2>3. ASSUME NEW k \in 1..n PROVE b[k] = a[k]
    <3>1. k \in 1..(n + 1) /\ longer[k] = list[k] /\ (k \in more <=> k \in kept)
      BY <1>1, <1>3
    <3> QED
      BY <1>5, <2>2, <3>1
  <2>4. b[n + 1] = e
    <3>1. n + 1 \in 1..(n + 1)
      OBVIOUS
    <3> QED
      BY <1>3, <1>7, <1>9, <2>2, <3>1
  <2>5. PICK c : c = Append(a, e)
    OBVIOUS
  <2> HIDE DEF S
  <2>6. c \in Seq(Seq(S)) /\ Len(c) = n + 1 /\ c[n + 1] = e /\ \A k \in 1..n : c[k] = a[k]
    BY <1>6, <1>8, <2>5, AppendProperties
  <2>7. ASSUME NEW k \in 1..(n + 1) PROVE b[k] = c[k]
    <3>1. CASE k \in 1..n
      BY <2>3, <2>6, <3>1
    <3>2. CASE k = n + 1
      BY <2>4, <2>6, <3>2
    <3> QED
      BY <3>1, <3>2
  <2>8. b \in Seq(Seq(S)) /\ Len(b) = n + 1
    <3>1. \A k \in 1..(n + 1) : c[k] \in Seq(S)
      BY <2>6
    <3>2. b \in [1..(n + 1) -> Seq(S)]
      BY <2>2, <2>7, <3>1
    <3> QED
      BY <3>2
  <2>9. b = c
    BY <2>6, <2>7, <2>8, SeqEqual
  <2> QED
    BY <2>1, <2>5, <2>9
<1> HIDE DEF S
<1> QED
  BY <1>2, <1>4, <1>6, <1>7, <1>8, <1>10, FlattenAppend DEF Grown

\* Only messages, rows and tables count.
LEMMA AccountMoves ==
  ASSUME NEW list, NEW kept, NEW all, NEW gone, NEW counts, Account(list, kept, all, gone, counts),
         NEW other, DOMAIN other = DOMAIN all,
         \A i \in DOMAIN all : /\ other[i].message = all[i].message /\ other[i].row = all[i].row
                               /\ other[i].table = all[i].table
  PROVE  Account(list, kept, other, gone, counts)
<1>1. Faces(other) = Faces(all)
  BY DEF Faces
<1>2. \A t : {i \in DOMAIN other : other[i].table = t} = {i \in DOMAIN all : all[i].table = t}
  OBVIOUS
<1> QED
  BY <1>1, <1>2 DEF Account

LEMMA KeptIsComplete ==
  ASSUME NEW list, NEW kept, NEW all, NEW gone, NEW counts, Account(list, kept, all, gone, counts)
  PROVE  kept \in SUBSET DOMAIN list /\ \A k \in kept : Complete(list[k])
BY DEF Account, Usable

\* A message that is of no use.
LEMMA AccountDrops ==
  ASSUME NEW list \in Seq(Message), NEW kept, NEW all, NEW gone, NEW counts,
         Account(list, kept, all, gone, counts),
         NEW m \in Message, NEW mm \in Memory, ~Usable(mm, m), Faces(all) \in Seq(Message \X Nat)
  PROVE  Account(Append(list, m), kept, all, gone + 1, counts)
<1>1. PICK n \in Nat : n = Len(list) /\ DOMAIN list = 1..n
  BY LenProperties
<1>2. PICK longer : longer = Append(list, m)
  OBVIOUS
<1>3. /\ DOMAIN longer = 1..(n + 1) /\ longer[n + 1] = m
      /\ \A k \in 1..n : longer[k] = list[k]
  BY <1>1, <1>2, AppendProperties
<1>4. kept \in SUBSET (1..n) /\ \A k \in kept : Complete(list[k])
  BY <1>1, KeptIsComplete
<1>5. FlattenSeq(RowLists(longer, kept)) = FlattenSeq(RowLists(list, kept))
  <2>1. FlattenSeq(RowLists(longer, kept)) = FlattenSeq(RowLists(list, kept)) \o <<>>
    BY <1>1, <1>2, <1>4, RowsGrow DEF Grown
  <2>2. FlattenSeq(RowLists(list, kept)) \in Seq(Message \X Nat)
    BY DEF Account
  <2> QED
    BY <2>1, <2>2, ConcatEmptySeq
<1>6. gone + 1 = Cardinality(DOMAIN longer \ kept)
  <2>1. DOMAIN longer \ kept = ((1..n) \ kept) \cup {n + 1} /\ n + 1 \notin (1..n) \ kept
    BY <1>3, <1>4
  <2>2. IsFiniteSet((1..n) \ kept)
    <3>1. IsFiniteSet(1..n)
      BY FS_Interval
    <3> QED
      BY <3>1, FS_Difference
  <2>3. gone = Cardinality((1..n) \ kept)
    BY <1>1 DEF Account
  <2> QED
    BY <2>1, <2>2, <2>3, FS_AddElement
<1>7. ASSUME NEW k \in 1..(n + 1) PROVE \E mx \in Memory : k \in kept <=> Usable(mx, longer[k])
  <2>1. CASE k \in 1..n
    BY <1>1, <1>3, <2>1 DEF Account
  <2>2. CASE k = n + 1
    <3>1. k \notin kept /\ longer[k] = m
      BY <1>3, <1>4, <2>2
    <3> QED
      BY <3>1
  <2> QED
    BY <2>1, <2>2
<1>8. kept \in SUBSET DOMAIN longer
  BY <1>3, <1>4
<1> QED
  BY <1>2, <1>3, <1>5, <1>6, <1>7, <1>8 DEF Account

LEMMA FacesJoin ==
  ASSUME NEW a \in Seq(Record), NEW b \in Seq(Record)
  PROVE  Faces(a \o b) = Faces(a) \o Faces(b) /\ Faces(a) \in Seq(Message \X Nat)
<1>1. PICK l \in Nat, n \in Nat : l = Len(a) /\ n = Len(b) /\ DOMAIN a = 1..l /\ DOMAIN b = 1..n
  BY LenProperties
<1>2. ASSUME NEW s \in Seq(Record)
      PROVE  /\ Faces(s) \in Seq(Message \X Nat) /\ Len(Faces(s)) = Len(s)
             /\ \A i \in 1..Len(s) : Faces(s)[i] = <<s[i].message, s[i].row>>
  <2>1. PICK k \in Nat : k = Len(s) /\ DOMAIN s = 1..k
    BY LenProperties
  <2>2. PICK g : g = Faces(s)
    OBVIOUS
  <2>3. g = [i \in 1..k |-> <<s[i].message, s[i].row>>]
    BY <2>1, <2>2 DEF Faces
  <2>4. ASSUME NEW i \in 1..k PROVE g[i] \in Message \X Nat
    <3>1. s[i] \in Record
      BY <2>1
    <3>2. s[i].message \in Message /\ s[i].row \in Nat
      BY <3>1 DEF Record
    <3> QED
      BY <2>3, <3>2
  <2>5. g \in Seq(Message \X Nat) /\ Len(g) = k
    BY <2>3, <2>4
  <2> QED
    BY <2>1, <2>2, <2>3, <2>5
<1>3. PICK c \in Seq(Record) : c = a \o b /\ IsJoin(c, a, b)
  BY JoinFacts
<1>4. PICK fa \in Seq(Message \X Nat), fb \in Seq(Message \X Nat) : fa = Faces(a) /\ fb = Faces(b)
  BY <1>2
<1>5. PICK fc \in Seq(Message \X Nat) : fc = Faces(c)
  BY <1>2
<1>6. PICK d \in Seq(Message \X Nat) : d = fa \o fb /\ IsJoin(d, fa, fb)
  BY JoinFacts
<1>7. Len(fa) = l /\ Len(fb) = n /\ Len(fc) = l + n /\ Len(d) = l + n
  BY <1>1, <1>2, <1>3, <1>4, <1>5, <1>6 DEF IsJoin
<1>8. ASSUME NEW i \in 1..(l + n) PROVE fc[i] = d[i]
  <2>1. fc[i] = <<c[i].message, c[i].row>>
    BY <1>2, <1>5, <1>7
  <2>2. CASE i \in 1..l
    <3>1. c[i] = a[i] /\ d[i] = fa[i]
      BY <1>1, <1>3, <1>6, <1>7, <2>2 DEF IsJoin
    <3>2. fa[i] = <<a[i].message, a[i].row>>
      BY <1>1, <1>2, <1>4, <2>2
    <3> QED
      BY <2>1, <3>1, <3>2
  <2>3. CASE i \notin 1..l
    <3>1. PICK k \in 1..n : i = l + k
      BY <1>1, <1>3, <2>3 DEF IsJoin
    <3>2. c[l + k] = b[k] /\ d[l + k] = fb[k]
      BY <1>1, <1>3, <1>6, <1>7 DEF IsJoin
    <3>3. fb[k] = <<b[k].message, b[k].row>>
      BY <1>1, <1>2, <1>4
    <3> QED
      BY <2>1, <3>1, <3>2, <3>3
  <2> QED
    BY <2>2, <2>3
<1>9. fc = d
  BY <1>7, <1>8, SeqEqual
<1> QED
  BY <1>3, <1>4, <1>5, <1>6, <1>9

\* A message of use, with its rows.
LEMMA AccountAdds ==
  ASSUME NEW list \in Seq(Message), NEW kept, NEW all \in Seq(Record), NEW gone,
         NEW counts \in [Table -> Nat], Account(list, kept, all, gone, counts),
         NEW m \in Message, NEW mm \in Memory, Usable(mm, m),
         NEW rows \in Seq(Record), NEW table \in Table, IsRows(rows, m, table)
  PROVE  Account(Append(list, m), kept \cup {Len(list) + 1}, all \o rows, gone,
                 [counts EXCEPT ![table] = @ + Len(rows)])
<1>1. PICK n \in Nat : n = Len(list) /\ DOMAIN list = 1..n
  BY LenProperties
<1>2. PICK longer : longer = Append(list, m)
  OBVIOUS
<1>3. /\ DOMAIN longer = 1..(n + 1) /\ longer[n + 1] = m
      /\ \A k \in 1..n : longer[k] = list[k]
  BY <1>1, <1>2, AppendProperties
<1>4. kept \in SUBSET (1..n) /\ \A k \in kept : Complete(list[k])
  BY <1>1, KeptIsComplete
<1>5. PICK more : more = kept \cup {n + 1} /\ more # kept
  <2>1. n + 1 \notin kept
    BY <1>4
  <2>2. kept \cup {n + 1} # kept
    BY <2>1
  <2> QED
    BY <2>2
<1>6. Complete(m)
  BY DEF Usable
<1>7. PICK len \in Nat : len = Len(rows) /\ len = Len(PayloadRows(m)) /\ DOMAIN rows = 1..len
  BY LenProperties DEF IsRows
<1>8. Faces(rows) = RowsOfOne(m)
  <2>1. PICK a, b : a = Faces(rows) /\ b = RowsOfOne(m)
    OBVIOUS
  <2>2. a = [i \in 1..len |-> <<rows[i].message, rows[i].row>>]
    BY <1>7, <2>1 DEF Faces
  <2>3. DOMAIN PayloadRows(m) = 1..len
    BY <1>6, <1>7, RowsOfOneType DEF RowsOfOne
  <2>4. b = [i \in 1..len |-> <<m, i>>]
    BY <2>1, <2>3 DEF RowsOfOne
  <2>5. \A i \in 1..len : rows[i].message = m /\ rows[i].row = i
    BY <1>7 DEF IsRows
  <2>6. a = b
    BY <2>2, <2>4, <2>5
  <2> QED
    BY <2>1, <2>6
<1>9. Faces(all \o rows) = FlattenSeq(RowLists(longer, more))
  <2>1. FlattenSeq(RowLists(longer, more)) = FlattenSeq(RowLists(list, kept)) \o RowsOfOne(m)
    <3>1. kept \in SUBSET (1..Len(list)) /\ more = kept \cup {Len(list) + 1}
      BY <1>1, <1>4, <1>5
    <3>1a. more = kept \/ (more = kept \cup {Len(list) + 1} /\ Complete(m))
      BY <1>6, <3>1
    <3>1b. \A k \in kept : Complete(list[k])
      BY <1>4
    <3>2. Grown(list, kept, m, more)
      BY <3>1, <3>1a, <3>1b, RowsGrow
    <3> QED
      BY <1>2, <1>5, <3>2 DEF Grown
  <2>2. Faces(all) = FlattenSeq(RowLists(list, kept))
    BY DEF Account
  <2> QED
    BY <1>8, <2>1, <2>2, FacesJoin
<1>10. gone = Cardinality(DOMAIN longer \ more)
  <2>1. DOMAIN longer \ more = (1..n) \ kept
    BY <1>3, <1>4, <1>5
  <2> QED
    BY <1>1, <2>1 DEF Account
<1>11. ASSUME NEW k \in 1..(n + 1) PROVE \E mx \in Memory : k \in more <=> Usable(mx, longer[k])
  <2>1. CASE k \in 1..n
    <3>1. k \in more <=> k \in kept
      BY <1>5, <2>1
    <3> QED
      BY <1>1, <1>3, <2>1, <3>1 DEF Account
  <2>2. CASE k = n + 1
    <3>1. k \in more /\ longer[k] = m
      BY <1>3, <1>5, <2>2
    <3> QED
      BY <3>1
  <2> QED
    BY <2>1, <2>2
<1>12. more \in SUBSET DOMAIN longer
  BY <1>3, <1>4, <1>5
<1>13. PICK c : c = [counts EXCEPT ![table] = @ + len]
  OBVIOUS
<1>14. ASSUME NEW t \in Table
       PROVE  c[t] = Cardinality({i \in DOMAIN (all \o rows) : (all \o rows)[i].table = t})
  <2> DEFINE P == {r \in Record : r.table = t}
  <2>1. ASSUME NEW s \in Seq(Record) PROVE CountIn(s, P) = Cardinality({i \in DOMAIN s : s[i].table = t})
    <3>1. \A i \in DOMAIN s : s[i] \in Record
      BY ElementOfSeq, LenProperties
    <3>2. {i \in DOMAIN s : s[i] \in P} = {i \in DOMAIN s : s[i].table = t}
      BY <3>1
    <3> QED
      BY <3>2 DEF CountIn
  <2>2. counts[t] = CountIn(all, P)
    BY <2>1 DEF Account
  <2>3. CountIn(rows, P) = IF t = table THEN len ELSE 0
    <3>1. \A i \in 1..len : rows[i] \in Record /\ rows[i].table = table
      BY <1>7 DEF IsRows
    <3>2. CASE t = table
      <4>1. ToSet(rows) \subseteq P
        BY <1>7, <3>1, <3>2 DEF ToSet
      <4> HIDE DEF P
      <4> QED
        BY <1>7, <3>2, <4>1, CountAll
    <3>3. CASE t # table
      <4>1. \A r \in ToSet(rows) : r \notin P
        BY <1>7, <3>1, <3>3 DEF ToSet
      <4> HIDE DEF P
      <4> QED
        BY <3>3, <4>1, CountNone
    <3> QED
      BY <3>2, <3>3
  <2>4. all \o rows \in Seq(Record)
    BY ConcatProperties
  <2>5. CountIn(all \o rows, P) = Cardinality({i \in DOMAIN (all \o rows) : (all \o rows)[i].table = t})
    BY <2>1, <2>4
  <2> HIDE DEF P
  <2>6. CountIn(all \o rows, P) = CountIn(all, P) + CountIn(rows, P)
    BY CountConcat
  <2>7. c[t] = counts[t] + (IF t = table THEN len ELSE 0)
    BY <1>13
  <2> QED
    BY <2>2, <2>3, <2>5, <2>6, <2>7
<1> QED
  BY <1>1, <1>2, <1>3, <1>5, <1>7, <1>9, <1>10, <1>11, <1>12, <1>13, <1>14 DEF Account

LEMMA InitRows == Init => RowsAccounted
<1> SUFFICES ASSUME Init, NEW p \in Subtask
             PROVE  Account(parsed[p], {}, out[p] \o pending[p], dropped[p], processed[p])
  BY Accounts
<1>1. /\ parsed[p] = <<>> /\ out[p] = <<>> /\ pending[p] = <<>> /\ dropped[p] = 0
      /\ \A t \in Table : processed[p][t] = 0
  BY DEF Init
<1>2. PICK none : none = <<>>
  OBVIOUS
<1>3. DOMAIN none = {} /\ none \o none = none /\ FlattenSeq(none) = none
  <2>1. <<>> \o <<>> = <<>>
    BY ConcatEmptySeq, EmptySeq
  <2> QED
    BY <1>2, <2>1, FlattenEmpty
<1>4. Faces(none) = none /\ RowLists(none, {}) = none
  BY <1>2 DEF Faces, RowLists
<1>5. Cardinality({}) = 0
  BY FS_EmptySet
<1>6. \A t : {i \in DOMAIN none : none[i].table = t} = {}
  BY <1>3
<1>7. Account(none, {}, none, 0, processed[p])
  BY <1>1, <1>3, <1>4, <1>5, <1>6 DEF Account
<1> QED
  BY <1>1, <1>2, <1>3, <1>7

\* What is on its way and what the sink has, when a record is collected.
LEMMA CollectAccount ==
  ASSUME NEW o \in Seq(Record), NEW w \in Seq(Record), w # <<>>, NEW r \in Record,
         r.message = Head(w).message, r.row = Head(w).row, r.table = Head(w).table,
         NEW list, NEW kept, NEW gone, NEW counts, Account(list, kept, o \o w, gone, counts)
  PROVE  Account(list, kept, Append(o, r) \o Tail(w), gone, counts)
<1>1. PICK a \in Nat, b \in Nat : a = Len(o) /\ b + 1 = Len(w)
  <2>1. Len(w) \in Nat /\ Len(w) # 0 /\ Len(o) \in Nat
    BY EmptySeq
  <2>2. Len(w) - 1 \in Nat /\ (Len(w) - 1) + 1 = Len(w)
    BY <2>1
  <2> QED
    BY <2>1, <2>2
<1>2. PICK u \in Seq(Record) : /\ u = Append(o, r) /\ Len(u) = a + 1 /\ u[a + 1] = r
                               /\ \A i \in 1..a : u[i] = o[i]
  <2>1. PICK u : u = Append(o, r)
    OBVIOUS
  <2>2. u \in Seq(Record) /\ Len(u) = Len(o) + 1 /\ u[Len(o) + 1] = r /\ \A i \in 1..Len(o) : u[i] = o[i]
    BY <2>1, AppendProperties
  <2> QED
    BY <1>1, <2>1, <2>2
<1>3. PICK v \in Seq(Record) : v = Tail(w) /\ Len(v) = b /\ \A i \in 1..b : v[i] = w[i + 1]
  <2>1. PICK v : v = Tail(w)
    OBVIOUS
  <2>2. v \in Seq(Record) /\ Len(v) = Len(w) - 1 /\ \A i \in 1..Len(v) : v[i] = w[i + 1]
    BY <2>1, HeadTailProperties
  <2>3. Len(v) = b
    BY <1>1, <2>2
  <2> QED
    BY <2>1, <2>2, <2>3
<1>4. PICK c \in Seq(Record) : c = o \o w /\ IsJoin(c, o, w)
  BY JoinFacts
<1>5. PICK d \in Seq(Record) : d = u \o v /\ IsJoin(d, u, v)
  BY JoinFacts
<1>6. DOMAIN c = 1..(a + (b + 1)) /\ DOMAIN d = 1..((a + 1) + b)
  BY <1>1, <1>2, <1>3, <1>4, <1>5 DEF IsJoin
<1>7. DOMAIN c = DOMAIN d
  BY <1>6
<1>8. ASSUME NEW i \in DOMAIN c
      PROVE  d[i].message = c[i].message /\ d[i].row = c[i].row /\ d[i].table = c[i].table
  <2>1. CASE i \in 1..a
    <3>1. c[i] = o[i]
      BY <1>1, <1>4, <2>1 DEF IsJoin
    <3>2. i \in 1..(a + 1)
      BY <2>1
    <3>3. d[i] = u[i]
      BY <1>2, <1>5, <3>2 DEF IsJoin
    <3> QED
      BY <1>2, <2>1, <3>1, <3>3
  <2>2. CASE i = a + 1
    <3>1. 1 \in 1..(b + 1) /\ a + 1 \in 1..(a + 1)
      OBVIOUS
    <3>2. c[a + 1] = w[1]
      BY <1>1, <1>4, <3>1 DEF IsJoin
    <3>3. d[a + 1] = u[a + 1]
      BY <1>2, <1>5, <3>1 DEF IsJoin
    <3>4. Head(w) = w[1]
      BY HeadTailProperties
    <3> QED
      BY <1>2, <2>2, <3>2, <3>3, <3>4
  <2>3. CASE i \notin 1..a /\ i # a + 1
    <3>1. PICK k \in 1..b : i = (a + 1) + k
      <4>1. i \in 1..(a + (b + 1)) /\ a \in Nat /\ b \in Nat
        BY <1>1, <1>6
      <4>2. i - (a + 1) \in 1..b /\ i = (a + 1) + (i - (a + 1))
        BY <2>3, <4>1
      <4> QED
        BY <4>2
    <3>2. k + 1 \in 1..(b + 1) /\ i = a + (k + 1)
      BY SMTT(20), <3>1
    <3>3. c[a + (k + 1)] = w[k + 1]
      BY <1>1, <1>4, <3>2 DEF IsJoin
    <3>4. d[(a + 1) + k] = v[k]
      BY <1>2, <1>3, <1>5, <3>1 DEF IsJoin
    <3> QED
      BY <1>3, <3>1, <3>2, <3>3, <3>4
  <2> QED
    BY <2>1, <2>2, <2>3
<1>9. Account(list, kept, d, gone, counts)
  BY <1>4, <1>7, <1>8, AccountMoves
<1> QED
  BY <1>2, <1>3, <1>5, <1>9

LEMMA NextRows == TypesInv /\ RowsAccounted /\ [Next]_vars => RowsAccounted'
<1> SUFFICES ASSUME TypesInv, RowsAccounted, [Next]_vars PROVE RowsAccounted'
  OBVIOUS
<1> DEFINE Was(q, kept) == Account(parsed[q], kept, out[q] \o pending[q], dropped[q], processed[q])
           Is(q, kept)  == Account(parsed'[q], kept, out'[q] \o pending'[q], dropped'[q], processed'[q])
<1>0. \A q \in Subtask : \E kept : Was(q, kept)
  BY Accounts
<1>w. ASSUME \A q \in Subtask : \E kept : Is(q, kept) PROVE RowsAccounted'
  <2>1. \A q \in Subtask : \E kept \in SUBSET DOMAIN parsed'[q] : Is(q, kept)
    BY <1>w DEF Account
  <2> QED
    BY <2>1, RowsAreLists DEF RowsAccounted, Account, Faces
<1>t. TypesInv' /\ TypeOK /\ TypeOK'
  BY NextTypes DEF TypesInv
<1> HIDE DEF Was, Is
<1>s. ASSUME NEW q \in Subtask, parsed'[q] = parsed[q], out'[q] = out[q], pending'[q] = pending[q],
             dropped'[q] = dropped[q], processed'[q] = processed[q]
      PROVE  \E kept : Is(q, kept)
  BY <1>0, <1>s DEF Was, Is
<1>1. CASE UNCHANGED <<out, pending, dropped, processed, parsed>>
  BY <1>1, <1>s, <1>w
\* A message is parsed.
<1>m. ASSUME NEW p \in Subtask, Ready(p), TakeMessage(p)
      PROVE  \E m \in Message, mm \in Memory, list \in Seq(Message), o \in Seq(Record), kept \in SUBSET DOMAIN parsed[p] :
               /\ m = Head(inbox[p]) /\ mm = memo[p] /\ (Result(p).ok <=> Usable(mm, m))
               /\ list = parsed[p] /\ parsed'[p] = Append(list, m)
               /\ o = out[p] /\ out' = out
               /\ Account(list, kept, o, dropped[p], processed[p])
               /\ \A q \in Subtask : q # p => parsed'[q] = parsed[q]
  <2>1. PICK m \in Message : m = Head(inbox[p])
    BY <1>m, TakeTypes
  <2>2. PICK mm \in Memory : mm = memo[p]
    BY DEF TypesInv, RecordsInv
  <2>3. Result(p).ok <=> Usable(mm, m)
    BY <2>1, <2>2, ParseMemory DEF Result
  <2>4. PICK list \in Seq(Message), o \in Seq(Record) : list = parsed[p] /\ o = out[p]
    BY <1>t DEF TypeOK
  <2>5. o \o <<>> = o
    BY ConcatEmptySeq
  <2>6. PICK kept \in SUBSET DOMAIN parsed[p] : Account(list, kept, o, dropped[p], processed[p])
    <3>1. PICK kept : Was(p, kept)
      BY <1>0
    <3>2. Account(list, kept, o, dropped[p], processed[p])
      BY <1>m, <2>4, <2>5, <3>1 DEF Was, Ready
    <3> QED
      BY <2>4, <3>2 DEF Account
  <2>7. parsed'[p] = Append(list, m) /\ \A q \in Subtask : q # p => parsed'[q] = parsed[q]
    BY <1>m, <2>1, <2>4, TakeTypes
  <2>8. out' = out
    BY <1>m DEF TakeMessage
  <2> QED
    BY <2>1, <2>2, <2>3, <2>4, <2>6, <2>7, <2>8
<1>2. ASSUME NEW p \in Subtask, Drop(p) \/ DropUnpartitioned(p) PROVE RowsAccounted'
  <2>1. /\ Ready(p) /\ TakeMessage(p) /\ ~Result(p).ok /\ UNCHANGED <<pending, processed>>
        /\ dropped' = [dropped EXCEPT ![p] = @ + 1]
    BY <1>2 DEF Drop, DropUnpartitioned
  <2>2. PICK m \in Message, mm \in Memory, list \in Seq(Message), o \in Seq(Record), kept \in SUBSET DOMAIN parsed[p] :
          /\ m = Head(inbox[p]) /\ mm = memo[p] /\ (Result(p).ok <=> Usable(mm, m))
          /\ list = parsed[p] /\ parsed'[p] = Append(list, m)
          /\ o = out[p] /\ out' = out
          /\ Account(list, kept, o, dropped[p], processed[p])
          /\ \A q \in Subtask : q # p => parsed'[q] = parsed[q]
    BY <1>m, <2>1
  <2>3. dropped'[p] = dropped[p] + 1 /\ \A q \in Subtask : q # p => dropped'[q] = dropped[q]
    BY <1>t, <2>1 DEF TypeOK
  <2>4. Faces(o) \in Seq(Message \X Nat)
    BY FacesJoin
  <2>5. ~Usable(mm, m)
    BY <2>1, <2>2
  <2>6. Account(Append(list, m), kept, o, dropped[p] + 1, processed[p])
    BY <2>2, <2>4, <2>5, AccountDrops
  <2>7. out'[p] \o pending'[p] = o
    <3>1. pending'[p] = <<>> /\ out'[p] = o
      BY <2>1, <2>2 DEF Ready
    <3> QED
      BY <3>1, ConcatEmptySeq
  <2>8. Is(p, kept)
    BY <2>1, <2>2, <2>3, <2>6, <2>7 DEF Is
  <2>9. ASSUME NEW q \in Subtask, q # p PROVE \E k : Is(q, k)
    BY <1>s, <2>1, <2>2, <2>3, <2>9
  <2> QED
    BY <1>w, <2>8, <2>9
<1>3. ASSUME NEW p \in Subtask, NEW schema, NEW h, Ready(p), Result(p).ok, Flatten(p, schema),
             \/ Result(p).cells = <<>>
             \/ schema \in 1..Len(h) /\ Len(h) \in Nat /\ h[schema] = Result(p).columns
      PROVE  RowsAccounted'
  <2>1. TakeMessage(p) /\ UNCHANGED dropped
    BY <1>3 DEF Flatten
  <2>2. PICK m \in Message, mm \in Memory, list \in Seq(Message), o \in Seq(Record), kept \in SUBSET DOMAIN parsed[p] :
          /\ m = Head(inbox[p]) /\ mm = memo[p] /\ (Result(p).ok <=> Usable(mm, m))
          /\ list = parsed[p] /\ parsed'[p] = Append(list, m)
          /\ o = out[p] /\ out' = out
          /\ Account(list, kept, o, dropped[p], processed[p])
          /\ \A q \in Subtask : q # p => parsed'[q] = parsed[q]
    BY <1>3, <1>m, <2>1
  <2>3. PICK table \in Table : table = Result(p).table
    BY <1>3, FlattenTypes
  <2>4. /\ pending' \in [Subtask -> Seq(Record)]
        /\ \A q \in Subtask : q # p => pending'[q] = pending[q]
        /\ IsRows(pending'[p], Head(inbox[p]), Result(p).table)
        /\ processed' = [processed EXCEPT ![p][Result(p).table] = @ + Len(pending'[p])]
    BY <1>3, FlattenTypes
  <2>5. PICK rows \in Seq(Record) : rows = pending'[p] /\ IsRows(rows, m, table)
    BY <2>2, <2>3, <2>4
  <2>6. PICK counts \in [Table -> Nat] : counts = processed[p]
    BY <1>t DEF TypeOK
  <2>7. /\ processed'[p] = [counts EXCEPT ![table] = @ + Len(rows)]
        /\ \A q \in Subtask : q # p => processed'[q] = processed[q]
    BY <1>t, <2>3, <2>4, <2>5, <2>6 DEF TypeOK
  <2>8. Usable(mm, m) /\ Account(list, kept, o, dropped[p], counts)
    BY <1>3, <2>2, <2>6
  <2>9. Account(Append(list, m), kept \cup {Len(list) + 1}, o \o rows, dropped[p],
                [counts EXCEPT ![table] = @ + Len(rows)])
    BY <2>5, <2>8, AccountAdds
  <2>10. PICK more : more = kept \cup {Len(list) + 1}
    OBVIOUS
  <2>11. Is(p, more)
    BY <2>1, <2>2, <2>5, <2>7, <2>9, <2>10 DEF Is
  <2>12. ASSUME NEW q \in Subtask, q # p PROVE \E k : Is(q, k)
    BY <1>s, <2>1, <2>2, <2>4, <2>7, <2>12
  <2> QED
    BY <1>w, <2>11, <2>12
<1>4. ASSUME NEW p \in Subtask, FlattenNothing(p) PROVE RowsAccounted'
  BY <1>3, <1>4 DEF FlattenNothing
<1>5. ASSUME NEW p \in Subtask, FlattenCached(p) PROVE RowsAccounted'
  <2>1. PICK o \in Cached(p) : Flatten(p, o)
    BY <1>5 DEF FlattenCached
  <2>2. Ready(p) /\ Result(p).ok
    BY <1>5 DEF FlattenCached, HasRows
  <2>3. o \in 1..Len(heap[p]) /\ heap[p][o] = Result(p).columns
    BY <2>1 DEF Cached, TypesInv, TypeOK
  <2>4. Len(heap[p]) \in Nat
    BY HeapLength
  <2> QED
    BY <1>3, <2>1, <2>2, <2>3, <2>4
<1>6. ASSUME NEW p \in Subtask, FlattenNew(p) PROVE RowsAccounted'
  <2>1. PICK n \in Nat : n = Len(heap[p])
    BY HeapLength
  <2>2. /\ Flatten(p, n + 1) /\ Ready(p) /\ Result(p).ok
        /\ heap' = [heap EXCEPT ![p] = Append(heap[p], Result(p).columns)]
    BY <1>6, <2>1 DEF FlattenNew, HasRows, MakeSchema
  <2>3. Len(heap'[p]) = n + 1 /\ heap'[p][n + 1] = Result(p).columns
    BY <2>1, <2>2, HeapAppend
  <2>4. PICK h : h = heap'[p]
    OBVIOUS
  <2>5. n + 1 \in 1..Len(h) /\ Len(h) \in Nat /\ h[n + 1] = Result(p).columns
    BY <2>3, <2>4
  <2> QED
    BY <1>3, <2>2, <2>5
<1>7. ASSUME NEW p \in Subtask, Collect(p) PROVE RowsAccounted'
  <2>1. PICK o \in Seq(Record), w \in Seq(Record) : o = out[p] /\ w = pending[p]
    BY <1>t DEF TypeOK
  <2>2. PICK given \in 1..(Len(heap[p]) + 1) :
          out' = [out EXCEPT ![p] = Append(out[p], [Head(w) EXCEPT !.schema = given])]
    BY ZenonT(30), <1>7, <2>1, CollectMoves
  <2>2a. PICK r : r = [Head(w) EXCEPT !.schema = given]
    OBVIOUS
  <2>3. w # <<>> /\ pending' = [pending EXCEPT ![p] = Tail(w)]
    BY <1>7, <2>1, CollectMoves
  <2>4. PICK x \in Record : x = Head(w)
    BY <2>3
  <2>5. /\ r \in Record
        /\ r.message = Head(w).message /\ r.row = Head(w).row /\ r.table = Head(w).table
    <3>1. given \in Nat \ {0}
      BY HeapLength
    <3>2. r = [message |-> x.message, row |-> x.row, table |-> x.table, schema |-> given, cells |-> x.cells]
      BY <2>2a, <2>4 DEF Record
    <3>3. /\ x.message \in Message /\ x.row \in Nat \ {0} /\ x.table \in Table
          /\ x.cells \in Seq(Seq(Origin))
      BY DEF Record
    <3> QED
      BY <2>4, <3>1, <3>2, <3>3 DEF Record
  <2>6. /\ out'[p] = Append(o, r) /\ pending'[p] = Tail(w)
        /\ \A q \in Subtask : q # p => out'[q] = out[q] /\ pending'[q] = pending[q]
    BY <1>t, <2>1, <2>2, <2>2a, <2>3 DEF TypeOK
  <2>7. UNCHANGED <<processed, dropped, parsed>>
    BY <1>7 DEF Collect
  <2>8. PICK kept : Account(parsed[p], kept, o \o w, dropped[p], processed[p])
    BY <1>0, <2>1 DEF Was
  <2>9. Account(parsed[p], kept, Append(o, r) \o Tail(w), dropped[p], processed[p])
    BY <2>3, <2>5, <2>8, CollectAccount
  <2>10. Is(p, kept)
    BY <2>6, <2>7, <2>9 DEF Is
  <2>11. ASSUME NEW q \in Subtask, q # p PROVE \E k : Is(q, k)
    BY <1>s, <2>6, <2>7, <2>11
  <2> QED
    BY <1>w, <2>10, <2>11
<1>8. CASE \E m \in Message : Read(m)
  BY <1>1, <1>8 DEF Read
<1>9. ASSUME NEW p \in Subtask, NEW r \in Headless, Evict(p, r) PROVE RowsAccounted'
  BY <1>1, <1>9 DEF Evict
<1>10. CASE UNCHANGED vars
  BY <1>1, <1>10 DEF vars
<1> QED
  BY <1>2, <1>4, <1>5, <1>6, <1>7, <1>8, <1>9, <1>10 DEF Next

\* Each row of each message of use is in the sink or on its way, once and in order; every
\* other message is counted as dropped, every row in its table's counter
\* (OsqueryJob.java 261-289).
THEOREM Rows == Spec => []RowsAccounted
<1>1. TypesInv /\ RowsAccounted /\ [Next]_vars => (TypesInv /\ RowsAccounted)'
  BY NextTypes, NextRows
<1>2. Init => TypesInv /\ RowsAccounted
  BY InitTypes, InitRows
<1> QED
  BY <1>1, <1>2, PTL DEF Spec

-----------------------------------------------------------------------------
(* The order of the fields.                                                *)

LEMMA SameFields ==
  ASSUME NEW x \in Message, NEW y \in Message, Complete(x), Complete(y), ToSet(x) = ToSet(y), NEW keys
  PROVE  /\ ToSet(Fields(x, keys)) = ToSet(Fields(y, keys))
         /\ Fields(x, keys) = <<>> <=> Fields(y, keys) = <<>>
<1>1. Readable(x) = x /\ Readable(y) = y
  BY DEF Complete
<1>2. ToSet(Fields(x, keys)) = ToSet(Fields(y, keys))
  <2>1. ToSet(Fields(x, keys)) = ToSet(x) \cap Taken(x, keys)
    BY <1>1, FieldsType
  <2>2. ToSet(Fields(y, keys)) = ToSet(y) \cap Taken(y, keys)
    BY <1>1, FieldsType
  <2>3. Taken(x, keys) = Taken(y, keys)
    BY DEF Taken
  <2> QED
    BY <2>1, <2>2, <2>3
<1>3. ASSUME NEW m \in Message PROVE Fields(m, keys) = <<>> <=> ToSet(Fields(m, keys)) = {}
  <2>1. PICK s \in Seq(MessageField) : s = Fields(m, keys)
    BY FieldsType
  <2>2. s = <<>> <=> ToSet(s) = {}
    <3>1. ASSUME s # <<>> PROVE ToSet(s) # {}
      <4>1. 1 \in DOMAIN s
        BY <3>1
      <4> QED
        BY <4>1 DEF ToSet
    <3>2. ASSUME s = <<>> PROVE ToSet(s) = {}
      BY <3>2 DEF ToSet
    <3> QED
      BY <3>1, <3>2
  <2> QED
    BY <2>1, <2>2
<1> QED
  BY <1>2, <1>3

LEMMA SameLast ==
  ASSUME NEW x \in Message, NEW y \in Message, Complete(x), Complete(y), ToSet(x) = ToSet(y), NEW keys,
         Len(Fields(x, keys)) = 1
  PROVE  Last(Fields(x, keys)) = Last(Fields(y, keys))
<1>1. PICK s \in Seq(MessageField) : s = Fields(x, keys) /\ Len(s) = 1
  BY FieldsType
<1>2. s # <<>> /\ ToSet(s) = {s[1]}
  <2>1. DOMAIN s = 1..1
    BY <1>1
  <2>2. 1..1 = {1}
    OBVIOUS
  <2>3. ToSet(s) = {s[i] : i \in {1}}
    BY <2>1, <2>2 DEF ToSet
  <2> QED
    BY <1>1, <2>3
<1>3. Fields(x, keys) # <<>> /\ Fields(y, keys) # <<>>
  BY <1>1, <1>2, SameFields
<1>4. Last(Fields(x, keys)) \in ToSet(s) /\ Last(Fields(y, keys)) \in ToSet(s)
  BY <1>1, <1>3, LastField, SameFields
<1> QED
  BY <1>2, <1>4

\* A string that serves as one kind only has one identifier.
LEMMA OneIdentifier ==
  ASSUME NEW mm \in Memory, NEW r, r \notin Clashing, NEW kind,
         \/ kind = "table" /\ r \in TableStrings
         \/ kind = "field" /\ r \in FieldStrings
  PROVE  SanitizeIdentifier(mm, r, kind) = Normalize(r, kind)
<1>1. CASE r \notin Headless
  BY <1>1 DEF SanitizeIdentifier
<1>2. CASE r \in Headless
  <2>1. mm[r] \in {"none", "table", "field"}
    BY <1>2, MemoryType DEF Kind
  <2>2. (mm[r] = "table" => r \in TableStrings) /\ (mm[r] = "field" => r \in FieldStrings)
    BY <1>2 DEF Memory
  <2>3. mm[r] \in {"none", kind}
    BY <1>2, <2>1, <2>2 DEF Clashing
  <2> QED
    BY <1>2, <2>3 DEF SanitizeIdentifier
<1> QED
  BY <1>1, <1>2

\* Metadata columns without two of one name come in the order of their names.
LEMMA StrictOthers ==
  ASSUME NEW mm \in [Headless -> Kind], NEW m \in Message, IsSchema(AssembleFinalMetaFields(mm, m))
  PROVE  \A i, j \in 1..Len(SortedOthers(mm, m)) : i < j =>
           Before(SortedOthers(mm, m)[i].name, SortedOthers(mm, m)[j].name)
<1>1. PICK V : V = StampChoice \cup MetaChoice(mm, m)
  OBVIOUS
<1>2. PICK t \in Seq(V) : t = TimeStamps(m)
  BY <1>1, TimeStampsType
<1>3. PICK s \in Seq(V) : s = SortedOthers(mm, m)
  BY <1>1, SortedOthersType
<1>4. PICK l \in Nat, n \in Nat : l = Len(t) /\ n = Len(s)
  BY LenProperties
<1>5. PICK c \in Seq(V) : c = t \o s /\ IsJoin(c, t, s)
  BY JoinFacts
<1>6. c = AssembleFinalMetaFields(mm, m)
  BY <1>2, <1>3, <1>5, AssembleParts
<1> SUFFICES ASSUME NEW i \in 1..n, NEW j \in 1..n, i < j
             PROVE  Before(s[i].name, s[j].name)
  BY <1>3, <1>4
<1>7. Before(s[i].name, s[j].name) \/ s[i].name = s[j].name
  BY <1>3, <1>4, SortedOthersType
<1>8. s[i].name # s[j].name
  <2>1. c[l + i] = s[i] /\ c[l + j] = s[j]
    BY <1>4, <1>5 DEF IsJoin
  <2>2. l + i \in DOMAIN c /\ l + j \in DOMAIN c /\ l + i # l + j
    <3>1. l + i \in 1..(l + n) /\ l + j \in 1..(l + n) /\ l + i # l + j
      OBVIOUS
    <3> QED
      BY <1>4, <1>5, <3>1 DEF IsJoin
  <2> QED
    BY <1>6, <2>1, <2>2 DEF IsSchema
<1> QED
  BY <1>7, <1>8

LEMMA MetaStringsType ==
  ASSUME NEW m \in Message, NEW f \in ToSet(MetaFields(m))
  PROVE  f.raw \in MetaStrings(m) /\ f.raw \in FieldStrings
<1>1. f.raw \in MetaStrings(m)
  BY DEF MetaStrings
<1> QED
  BY <1>1, StringsOfMessage

\* The metadata columns do not depend on the order of the fields, nor on the cache.
LEMMA SameMeta ==
  ASSUME NEW mm \in Memory, NEW mn \in Memory, NEW x \in Message, NEW y \in Message,
         Complete(x), Complete(y), ToSet(x) = ToSet(y), MetaStrings(x) \cap Clashing = {},
         IsSchema(AssembleFinalMetaFields(mm, x)), IsSchema(AssembleFinalMetaFields(mn, y))
  PROVE  AssembleFinalMetaFields(mm, x) = AssembleFinalMetaFields(mn, y)
<1>0. mm \in [Headless -> Kind] /\ mn \in [Headless -> Kind]
  BY MemoryType
<1>1. ToSet(MetaFields(x)) = ToSet(MetaFields(y))
  BY SameFields DEF MetaFields
<1>2. ASSUME NEW f \in ToSet(MetaFields(x)) PROVE MetaField(mm, f) = MetaField(mn, f)
  <2>1. f.raw \in FieldStrings /\ f.raw \notin Clashing
    BY MetaStringsType
  <2>2. SanitizeIdentifier(mm, f.raw, "field") = SanitizeIdentifier(mn, f.raw, "field")
    BY <2>1, OneIdentifier
  <2> QED
    BY <2>2 DEF MetaField
<1>3. PICK V : V = MetaChoice(mm, x)
  OBVIOUS
<1>4. MetaChoice(mn, y) = V
  BY <1>1, <1>2, <1>3 DEF MetaChoice
<1>5. PICK s \in Seq(V) : s = SortedOthers(mm, x) /\ ToSet(s) = V
  BY <1>0, <1>3, SortedOthersType
<1>6. PICK t \in Seq(V) : t = SortedOthers(mn, y) /\ ToSet(t) = V
  BY <1>0, <1>4, SortedOthersType
<1>7. PICK R : R = {p \in V \X V : Before(p[1].name, p[2].name)}
  OBVIOUS
<1>8. \A c \in V : c.name \in Identifier
  <2> TAKE c \in V
  <2>1. PICK f \in ToSet(MetaFields(x)) : c = MetaField(mm, f)
    BY <1>3 DEF MetaChoice
  <2> QED
    BY <1>0, <2>1, MetaFieldType
<1>9. IsAsymmetric(R, V)
  <2> SUFFICES ASSUME NEW a \in V, NEW b \in V, <<a, b>> \in R, <<b, a>> \in R PROVE FALSE
    BY DEF IsAsymmetric
  <2>1. Before(a.name, b.name) /\ Before(b.name, a.name)
    BY <1>7
  <2> QED
    BY <1>8, <2>1, BeforeAsymmetric
<1>10. IsAscending(s, R)
  <2> SUFFICES ASSUME NEW i \in 1..Len(s), NEW j \in 1..Len(s), i < j PROVE <<s[i], s[j]>> \in R
    BY DEF IsAscending
  <2>1. Before(s[i].name, s[j].name)
    BY <1>0, <1>5, StrictOthers
  <2>2. s[i] \in V /\ s[j] \in V
    OBVIOUS
  <2> QED
    BY <1>7, <2>1, <2>2
<1>11. IsAscending(t, R)
  <2> SUFFICES ASSUME NEW i \in 1..Len(t), NEW j \in 1..Len(t), i < j PROVE <<t[i], t[j]>> \in R
    BY DEF IsAscending
  <2>1. Before(t[i].name, t[j].name)
    BY <1>0, <1>6, StrictOthers
  <2>2. t[i] \in V /\ t[j] \in V
    OBVIOUS
  <2> QED
    BY <1>7, <2>1, <2>2
<1>e. ToSet(s) = ToSet(t)
  BY <1>5, <1>6
<1>12. s = t
  BY <1>e, <1>9, <1>10, <1>11, SortedUnique
<1>13. TimeStamps(x) = TimeStamps(y)
  BY SameFields DEF TimeStamps
<1> QED
  BY <1>5, <1>6, <1>12, <1>13, AssembleParts

\* Nor do the payload columns depend on the cache.
LEMMA SameColumns ==
  ASSUME NEW mm \in Memory, NEW mn \in Memory, NEW meta \in Seq(MetaColumn),
         NEW row \in SUBSET Raw, row \subseteq FieldStrings, row \cap Clashing = {}
  PROVE  Columns(mm, meta, row) = Columns(mn, meta, row)
<1>1. PICK n \in Nat : n = Len(SortedKeys(row)) /\ DOMAIN SortedKeys(row) = 1..n
  BY SortedKeysType
<1>2. ASSUME NEW i \in 1..n
      PROVE  SanitizeIdentifier(mm, SortedKeys(row)[i], "field") = SanitizeIdentifier(mn, SortedKeys(row)[i], "field")
  <2>1. PICK r : r = SortedKeys(row)[i]
    OBVIOUS
  <2>2. r \in row
    <3>1. r \in ToSet(SortedKeys(row))
      BY <1>1, <2>1 DEF ToSet
    <3> QED
      BY <3>1, SortedKeysType
  <2>3. r \in FieldStrings /\ r \notin Clashing
    BY <2>2
  <2>4. SanitizeIdentifier(mm, r, "field") = SanitizeIdentifier(mn, r, "field")
    BY <2>3, OneIdentifier
  <2> QED
    BY <2>1, <2>4
<1>3. PICK base : \A i \in 1..n : base[i] = SanitizeIdentifier(mm, SortedKeys(row)[i], "field")
  <2>1. \A i \in 1..n : [k \in 1..n |-> SanitizeIdentifier(mm, SortedKeys(row)[k], "field")][i]
                          = SanitizeIdentifier(mm, SortedKeys(row)[i], "field")
    OBVIOUS
  <2> QED
    BY <2>1
<1>3a. \A i \in 1..n : base[i] = SanitizeIdentifier(mn, SortedKeys(row)[i], "field")
  BY <1>2, <1>3
<1>4. PICK reserved : reserved = {meta[i].name : i \in 1..Len(meta)}
  OBVIOUS
<1>5. PICK v : v = SanitizePayloadColumns(mm, meta, row)
  OBVIOUS
<1>6. PICK w : w = SanitizePayloadColumns(mn, meta, row)
  OBVIOUS
<1>7. IsNames(v, base, reserved, n)
  BY <1>1, <1>3, <1>4, <1>5, NamesGiven
<1>8. IsNames(w, base, reserved, n)
  BY <1>1, <1>3a, <1>4, <1>6, NamesGiven
<1>9. v = w
  BY <1>7, <1>8, NamesUnique
<1> QED
  BY <1>5, <1>6, <1>9 DEF Columns

\* Two records of one row of one set of fields are the same but for their references.
LEMMA SameRecords ==
  ASSUME NEW a, NEW b, NEW c, NEW d, a.message \in Message, b.message \in Message,
         Made(a, c), Made(b, d), ToSet(a.message) = ToSet(b.message), a.row = b.row,
         Len(Fields(a.message, {"name"})) = 1,
         Len(Fields(a.message, {"columns", "snapshot"})) = 1,
         Mentions(a.message) \cap Clashing = {}
  PROVE  a.table = b.table /\ a.cells = b.cells /\ c = d
<1>1. PICK x \in Message : x = a.message
  OBVIOUS
<1>2. PICK y \in Message : y = b.message
  OBVIOUS
<1>3. PICK mm \in Memory, nm \in Memory : MadeBy(mm, nm, a, c)
  BY DEF Made
<1>4. PICK mn \in Memory, nn \in Memory : MadeBy(mn, nn, b, d)
  BY DEF Made
<1>5. Complete(x) /\ Complete(y) /\ ToSet(x) = ToSet(y)
  BY <1>1, <1>2, <1>3, <1>4 DEF MadeBy, CompleteMessage
<1>6. QueryName(x) = QueryName(y) /\ PayloadRows(x) = PayloadRows(y)
  <2>1. Last(Fields(x, {"name"})) = Last(Fields(y, {"name"}))
    BY <1>1, <1>5, SameLast
  <2>2. Last(Fields(x, {"columns", "snapshot"})) = Last(Fields(y, {"columns", "snapshot"}))
    BY <1>1, <1>5, SameLast
  <2> QED
    BY <2>1, <2>2 DEF QueryName, PayloadRows
<1>7. PICK rows \in Seq(SUBSET Raw) : rows = PayloadRows(x)
  BY <1>5, CompleteFacts
<1>8. /\ QueryName(x) \notin Clashing /\ MetaStrings(x) \cap Clashing = {}
      /\ (UNION ToSet(rows)) \cap Clashing = {}
  BY <1>1, <1>7 DEF Mentions
<1>9. QueryName(x) \in TableStrings /\ UNION ToSet(rows) \subseteq FieldStrings
  BY <1>5, <1>7, StringsOfMessage
<1>10. a.table = b.table
  <2>1. SanitizeIdentifier(mm, QueryName(x), "table") = SanitizeIdentifier(mn, QueryName(x), "table")
    BY <1>8, <1>9, OneIdentifier
  <2>2. a.table = <<"osquery">> \o SanitizeIdentifier(mm, QueryName(x), "table")
    BY <1>1, <1>3 DEF MadeBy
  <2>3. b.table = <<"osquery">> \o SanitizeIdentifier(mn, QueryName(x), "table")
    BY <1>2, <1>4, <1>6 DEF MadeBy
  <2> QED
    BY <2>1, <2>2, <2>3
<1>11. PICK i \in 1..Len(rows) : i = a.row
  BY <1>1, <1>3, <1>7 DEF MadeBy
<1>12. PICK first \in SUBSET Raw : first = rows[1] /\ first \subseteq UNION ToSet(rows)
  <2>1. 1 \in DOMAIN rows
    BY <1>11, LenProperties
  <2>2. rows[1] \in ToSet(rows)
    BY <2>1 DEF ToSet
  <2>3. rows[1] \in SUBSET Raw
    BY <2>1
  <2> QED
    BY <2>2, <2>3
<1>13. /\ a.cells = RowData(AssembleFinalMetaFields(mm, x), rows[i])
       /\ c = Columns(nm, AssembleFinalMetaFields(mm, x), first) /\ IsSchema(c)
  BY <1>1, <1>3, <1>7, <1>11, <1>12 DEF MadeBy
<1>14. /\ b.cells = RowData(AssembleFinalMetaFields(mn, y), rows[i])
       /\ d = Columns(nn, AssembleFinalMetaFields(mn, y), first) /\ IsSchema(d)
  BY <1>2, <1>4, <1>6, <1>7, <1>11, <1>12 DEF MadeBy
<1>15. /\ mm \in [Headless -> Kind] /\ nm \in [Headless -> Kind]
       /\ mn \in [Headless -> Kind] /\ nn \in [Headless -> Kind]
  BY MemoryType
<1>16. PICK meta \in Seq(MetaColumn) : meta = AssembleFinalMetaFields(mm, x) /\ Len(meta) <= Len(x) + 2
  BY <1>15, AssembleType
<1>17. PICK meti \in Seq(MetaColumn) : meti = AssembleFinalMetaFields(mn, y) /\ Len(meti) <= Len(y) + 2
  BY <1>15, AssembleType
<1>18. IsSchema(meta)
  <2>1. IsSchema(Columns(nm, meta, first))
    BY <1>13, <1>16
  <2> QED
    BY <1>15, <1>16, <2>1, SchemaOfMeta
<1>19. IsSchema(meti)
  <2>1. IsSchema(Columns(nn, meti, first))
    BY <1>14, <1>17
  <2> QED
    BY <1>15, <1>17, <2>1, SchemaOfMeta
<1>20. meta = meti
  <2>1. IsSchema(AssembleFinalMetaFields(mm, x)) /\ IsSchema(AssembleFinalMetaFields(mn, y))
    BY <1>16, <1>17, <1>18, <1>19
  <2>2. AssembleFinalMetaFields(mm, x) = AssembleFinalMetaFields(mn, y)
    BY <1>5, <1>8, <2>1, SameMeta
  <2> QED
    BY <1>16, <1>17, <2>2
<1>21. Columns(nm, meta, first) = Columns(nn, meta, first)
  <2>1. first \subseteq FieldStrings /\ first \cap Clashing = {}
    BY <1>8, <1>9, <1>12
  <2> QED
    BY <2>1, SameColumns
<1> QED
  BY <1>10, <1>13, <1>14, <1>16, <1>17, <1>20, <1>21

LEMMA RecordsSame == TypesInv => SameFieldsSameRows
<1> SUFFICES ASSUME TypesInv, NEW p \in Subtask, NEW q \in Subtask, NEW i \in DOMAIN out[p], NEW j \in DOMAIN out[q],
                    ToSet(out[p][i].message) = ToSet(out[q][j].message), out[p][i].row = out[q][j].row,
                    Len(Fields(out[p][i].message, {"name"})) = 1,
                    Len(Fields(out[p][i].message, {"columns", "snapshot"})) = 1,
                    Mentions(out[p][i].message) \cap Clashing = {}
             PROVE  /\ out[p][i].table = out[q][j].table /\ out[p][i].cells = out[q][j].cells
                    /\ heap[p][out[p][i].schema] = heap[q][out[q][j].schema]
  BY DEF SameFieldsSameRows
<1>1. PICK a : a = out[p][i]
  OBVIOUS
<1>2. PICK b : b = out[q][j]
  OBVIOUS
<1>3. PICK c : c = heap[p][a.schema]
  OBVIOUS
<1>4. PICK d : d = heap[q][b.schema]
  OBVIOUS
<1>5. a \in Record /\ Made(a, c)
  BY <1>1, <1>3 DEF TypesInv, RecordsInv, RecordOk
<1>6. b \in Record /\ Made(b, d)
  BY <1>2, <1>4 DEF TypesInv, RecordsInv, RecordOk
<1>7. a.message \in Message /\ b.message \in Message
  BY <1>5, <1>6 DEF Record
<1>8. /\ ToSet(a.message) = ToSet(b.message) /\ a.row = b.row
      /\ Len(Fields(a.message, {"name"})) = 1
      /\ Len(Fields(a.message, {"columns", "snapshot"})) = 1
      /\ Mentions(a.message) \cap Clashing = {}
  BY <1>1, <1>2
<1>9. a.table = b.table /\ a.cells = b.cells /\ c = d
  BY <1>5, <1>6, <1>7, <1>8, SameRecords
<1> QED
  BY <1>1, <1>2, <1>3, <1>4, <1>9

\* Two messages with the same fields in another order give the same rows, whichever subtask
\* parses them after whatever else, but for strings whose identifier may be of either kind
\* (OsqueryRecordParser.java 149-151).
THEOREM FieldOrder == Spec => []SameFieldsSameRows
<1>1. Spec => []TypesInv
  BY InitTypes, NextTypes, PTL DEF Spec
<1> QED
  BY <1>1, RecordsSame, PTL

=============================================================================
