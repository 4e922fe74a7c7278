----------------------------- MODULE DataLemmas -----------------------------
(***************************************************************************)
(* Facts about the operators on sequences the modules are built from, for  *)
(* sequences of every length.  The induction theorems of the library take  *)
(* an operator; here induction is over a set that is closed under a step,  *)
(* from the well-foundedness of < on the natural numbers, so that what is  *)
(* proved is the set of the numbers, sequences or sets that have it.       *)
(***************************************************************************)
EXTENDS Selection, Integers, FiniteSets, SequencesExt, SequenceTheorems, FiniteSetTheorems,
        WellFoundedInduction, TLAPS

-----------------------------------------------------------------------------
(* Induction.                                                              *)

\* A set of numbers that has 0 and with each its successor has all of them.
LEMMA NatSetInduction ==
  ASSUME NEW T \in SUBSET Nat, 0 \in T, \A n \in T : n + 1 \in T
  PROVE  T = Nat
<1> SUFFICES ASSUME Nat \ T # {} PROVE FALSE
  OBVIOUS
<1>1. PICK x \in Nat \ T : \A y \in Nat \ T : ~ (<<y, x>> \in OpToRel(<,Nat))
  <2>1. IsWellFoundedOn(OpToRel(<,Nat), Nat)
    BY NatLessThanWellFounded
  <2> DEFINE U == Nat \ T
  <2>2. U \subseteq Nat /\ U # {}
    OBVIOUS
  <2> HIDE DEF U
  <2>3. \E x \in U : \A y \in U : ~ (<<y, x>> \in OpToRel(<,Nat))
    BY <2>1, <2>2, WFMin
  <2> QED
    BY <2>3 DEF U
<1>2. \A y \in Nat \ T : ~ (y < x)
  BY <1>1 DEF OpToRel
<1>3. x # 0 /\ x - 1 \in Nat
  OBVIOUS
<1>4. x - 1 \in T
  BY <1>2, <1>3
<1>5. (x - 1) + 1 \in T
  BY <1>4
<1> QED
  BY <1>3, <1>5

\* A set of sequences that has the empty one and with each those that are one longer.
LEMMA SeqSetInduction ==
  ASSUME NEW S, NEW T \in SUBSET Seq(S), <<>> \in T,
         \A s \in T, e \in S : Append(s, e) \in T
  PROVE  T = Seq(S)
<1> DEFINE U == {n \in Nat : \A s \in Seq(S) : Len(s) = n => s \in T}
<1>1. 0 \in U
  BY EmptySeq
<1>2. ASSUME NEW n \in U PROVE n + 1 \in U
  <2> SUFFICES ASSUME NEW s \in Seq(S), Len(s) = n + 1 PROVE s \in T
    OBVIOUS
  <2>1. s # <<>>
    BY EmptySeq
  <2>2. PICK f \in Seq(S), e \in S : s = Append(f, e)
    BY <2>1, SequenceEmptyOrAppend
  <2>3. Len(f) = n
    BY <2>2, AppendProperties, LenProperties
  <2>4. f \in T
    BY <2>3
  <2> QED
    BY <2>2, <2>4
<1> HIDE DEF U
<1>3. U = Nat
  BY <1>1, <1>2, NatSetInduction DEF U
<1> QED
  BY <1>3, LenProperties DEF U

\* A set of subsets of A that has the empty one and with each those with one element more.
LEMMA FiniteSetInduction ==
  ASSUME NEW A, IsFiniteSet(A), NEW T \in SUBSET SUBSET A, {} \in T,
         \A B \in T, x \in A : B \cup {x} \in T
  PROVE  A \in T
<1> DEFINE U == {n \in Nat : \A B \in SUBSET A : Cardinality(B) = n => B \in T}
<1>0. \A B \in SUBSET A : IsFiniteSet(B) /\ Cardinality(B) \in Nat
  BY FS_Subset, FS_CardinalityType
<1>1. 0 \in U
  BY <1>0, FS_EmptySet
<1>2. ASSUME NEW n \in U PROVE n + 1 \in U
  <2> SUFFICES ASSUME NEW B \in SUBSET A, Cardinality(B) = n + 1 PROVE B \in T
    OBVIOUS
  <2>1. PICK x \in B : TRUE
    BY <1>0, FS_EmptySet
  <2>2. Cardinality(B \ {x}) = n
    BY <1>0, FS_RemoveElement
  <2>3. B \ {x} \in T
    BY <2>2
  <2> QED
    BY <2>1, <2>3
<1> HIDE DEF U
<1>3. U = Nat
  BY <1>1, <1>2, NatSetInduction DEF U
<1> QED
  BY <1>0, <1>3 DEF U

-----------------------------------------------------------------------------
(* FlattenSeq: its recursive function exists, is unique and grows.         *)

FlatBody(f, s, n) == [i \in 1..n |-> IF i = 1 THEN s[i] ELSE f[i-1] \o s[i]]
IsFlat(f, s, n) == f = FlatBody(f, s, n)

LEMMA FlattenIsChoice ==
  ASSUME NEW s, Len(s) # 0
  PROVE  FlattenSeq(s) = (CHOOSE f : IsFlat(f, s, Len(s)))[Len(s)]
BY DEF FlattenSeq, IsFlat, FlatBody

\* A flattening of the first n sequences extends to the next.
LEMMA FlatExtends ==
  ASSUME NEW s, NEW n \in Nat, NEW f, IsFlat(f, s, n)
  PROVE  IsFlat([i \in 1..(n+1) |-> IF i = n + 1 THEN IF i = 1 THEN s[i] ELSE f[n] \o s[i] ELSE f[i]], s, n+1)
<1> DEFINE g == [i \in 1..(n+1) |-> IF i = n + 1 THEN IF i = 1 THEN s[i] ELSE f[n] \o s[i] ELSE f[i]]
<1>1. \A i \in 1..(n+1) : g[i] = IF i = 1 THEN s[i] ELSE g[i-1] \o s[i]
  <2> SUFFICES ASSUME NEW i \in 1..(n+1) PROVE g[i] = IF i = 1 THEN s[i] ELSE g[i-1] \o s[i]
    OBVIOUS
  <2>1. CASE i = n+1
    <3>1. i # 1 => i - 1 = n /\ n \in 1..(n+1) /\ n # n + 1
      BY <2>1
    <3> QED
      BY <2>1, <3>1
  <2>2. CASE i # n+1
    <3>1. i \in 1..n
      BY <2>2
    <3>2. f[i] = IF i = 1 THEN s[i] ELSE f[i-1] \o s[i]
      BY <3>1 DEF IsFlat, FlatBody
    <3>3. i # 1 => i - 1 \in 1..(n+1) /\ i - 1 # n + 1
      BY <2>2
    <3> QED
      BY <2>2, <3>2, <3>3
  <2> QED
    BY <2>1, <2>2
<1> HIDE DEF g
<1>2. g = [i \in 1..(n+1) |-> g[i]]
  BY DEF g
<1>3. [i \in 1..(n+1) |-> g[i]] = [i \in 1..(n+1) |-> IF i = 1 THEN s[i] ELSE g[i-1] \o s[i]]
  BY <1>1
<1> QED
  BY <1>2, <1>3 DEF IsFlat, FlatBody, g

LEMMA FlatExists == 
  ASSUME NEW s, NEW n \in Nat
  PROVE  \E f : IsFlat(f, s, n)
<1> DEFINE T == {k \in Nat : \E f : IsFlat(f, s, k)}
<1>1. 0 \in T
  <2>1. IsFlat([i \in 1..0 |-> 0], s, 0)
    BY DEF IsFlat, FlatBody
  <2> QED
    BY <2>1
<1>2. ASSUME NEW k \in T PROVE k + 1 \in T
  <2>1. PICK f : IsFlat(f, s, k)
    OBVIOUS
  <2>2. \E g : IsFlat(g, s, k + 1)
    BY <2>1, FlatExtends
  <2> QED
    BY <2>2
<1> HIDE DEF T
<1>3. T = Nat
  BY <1>1, <1>2, NatSetInduction DEF T
<1> QED
  BY <1>3 DEF T

\* Of two sequences that begin alike, the flattenings begin alike.
LEMMA FlatUnique == 
  ASSUME NEW s, NEW t, NEW n \in Nat, NEW f, NEW g, 
         IsFlat(f, s, n), IsFlat(g, t, n + 1), \A i \in 1..n : t[i] = s[i]
  PROVE  \A i \in 1..n : f[i] = g[i]
<1> DEFINE T == {k \in Nat : k \in 1..n => f[k] = g[k]}
<1>1. 0 \in T
  OBVIOUS
<1>2. ASSUME NEW k \in T PROVE k + 1 \in T
  <2> SUFFICES ASSUME k + 1 \in 1..n PROVE f[k+1] = g[k+1]
    OBVIOUS
  <2>1. k + 1 \in 1..(n + 1)
    OBVIOUS
  <2>2. f[k+1] = (IF k + 1 = 1 THEN s[k+1] ELSE f[(k+1)-1] \o s[k+1])
    BY DEF IsFlat, FlatBody
  <2>3. g[k+1] = (IF k + 1 = 1 THEN t[k+1] ELSE g[(k+1)-1] \o t[k+1])
    BY <2>1 DEF IsFlat, FlatBody
  <2>4. (k+1)-1 = k /\ (k + 1 # 1 => k \in 1..n)
    OBVIOUS
  <2> QED
    BY <2>2, <2>3, <2>4
<1> HIDE DEF T
<1>3. T = Nat
  BY <1>1, <1>2, NatSetInduction DEF T
<1> QED
  BY <1>3 DEF T

LEMMA FlatGrows ==
  ASSUME NEW s, NEW t, NEW n \in Nat \ {0}, Len(s) = n, Len(t) = n + 1, \A i \in 1..n : t[i] = s[i]
  PROVE  FlattenSeq(t) = FlattenSeq(s) \o t[n + 1]
<1>0. n \in Nat /\ n + 1 \in Nat /\ n # 0 /\ n + 1 # 0
  OBVIOUS
<1>1. PICK f : f = CHOOSE h : IsFlat(h, s, n)
  OBVIOUS
<1>2. PICK g : g = CHOOSE h : IsFlat(h, t, n + 1)
  OBVIOUS
<1>3. IsFlat(f, s, n) /\ IsFlat(g, t, n + 1)
  <2>1. (\E h : IsFlat(h, s, n)) /\ \E h : IsFlat(h, t, n + 1)
    BY <1>0, FlatExists
  <2> QED
    BY <2>1, <1>1, <1>2
<1>4. FlattenSeq(s) = f[n] /\ FlattenSeq(t) = g[n + 1]
  BY <1>0, <1>1, <1>2, FlattenIsChoice
<1>5. f[n] = g[n]
  BY <1>3, FlatUnique
<1>6. g[n + 1] = g[n] \o t[n + 1]
  <2>1. n + 1 \in 1..(n+1) /\ (n + 1) - 1 = n /\ n + 1 # 1
    OBVIOUS
  <2> QED
    BY <1>3, <2>1 DEF IsFlat, FlatBody
<1> QED
  BY <1>4, <1>5, <1>6

LEMMA FlattenOne ==
  ASSUME NEW t, Len(t) = 1
  PROVE  FlattenSeq(t) = t[1]
<1>1. PICK g : g = CHOOSE h : IsFlat(h, t, 1)
  OBVIOUS
<1>2. \E h : IsFlat(h, t, 1)
  BY FlatExists
<1>3. IsFlat(g, t, 1)
  BY <1>1, <1>2
<1>4. FlattenSeq(t) = g[1]
  BY SMTT(20), <1>1, FlattenIsChoice
<1> QED
  BY <1>3, <1>4 DEF IsFlat, FlatBody

\* One sequence more is one sequence at the end.
LEMMA FlattenAppend ==
  ASSUME NEW S, NEW s \in Seq(Seq(S)), NEW e \in Seq(S)
  PROVE  FlattenSeq(Append(s, e)) = FlattenSeq(s) \o e
<1>1. PICK t : t = Append(s, e)
  OBVIOUS
<1>2. Len(s) \in Nat /\ Len(t) = Len(s) + 1 /\ (\A i \in 1..Len(s) : t[i] = s[i]) /\ t[Len(s) + 1] = e
  BY <1>1, LenProperties, AppendProperties
<1>3. CASE Len(s) = 0
  <2>1. s = <<>>
    BY <1>3, EmptySeq
  <2>2. FlattenSeq(s) = <<>>
    BY <2>1, EmptySeq DEF FlattenSeq
  <2>3. FlattenSeq(t) = e
    BY <1>2, <1>3, FlattenOne
  <2> QED
    BY <1>1, <2>2, <2>3, ConcatEmptySeq
<1>4. CASE Len(s) # 0
  BY ZenonT(30), <1>1, <1>2, <1>4, FlatGrows
<1> QED
  BY <1>3, <1>4

\* No sequences flatten to the empty one.
LEMMA FlattenEmpty == FlattenSeq(<<>>) = <<>>
BY EmptySeq DEF FlattenSeq

\* Sequences over S flatten to one over S.
LEMMA FlattenType ==
  ASSUME NEW S, NEW s \in Seq(Seq(S))
  PROVE  FlattenSeq(s) \in Seq(S)
<1> DEFINE T == {t \in Seq(Seq(S)) : FlattenSeq(t) \in Seq(S)}
<1>1. <<>> \in T
  BY FlattenEmpty, EmptySeq
<1>2. \A t \in T, e \in Seq(S) : Append(t, e) \in T
  BY FlattenAppend, AppendProperties, ConcatProperties
<1> HIDE DEF T
<1>3. T = Seq(Seq(S))
  BY <1>1, <1>2, SeqSetInduction DEF T
<1> QED
  BY <1>3 DEF T

-----------------------------------------------------------------------------
(* Counting.                                                               *)

\* How often s has an element of P.
CountIn(s, P) == Cardinality({i \in DOMAIN s : s[i] \in P})

LEMMA CountType ==
  ASSUME NEW S, NEW s \in Seq(S), NEW P
  PROVE  /\ IsFiniteSet({i \in DOMAIN s : s[i] \in P})
         /\ CountIn(s, P) \in Nat /\ CountIn(s, P) <= Len(s)
         /\ CountIn(s, P) = 0 <=> \A i \in DOMAIN s : s[i] \notin P
<1>1. DOMAIN s = 1..Len(s) /\ Len(s) \in Nat
  BY LenProperties
<1>2. IsFiniteSet(DOMAIN s) /\ Cardinality(DOMAIN s) = Len(s)
  BY SMTT(20), <1>1, FS_Interval
<1>3. {i \in DOMAIN s : s[i] \in P} \subseteq DOMAIN s
  OBVIOUS
<1>4. /\ IsFiniteSet({i \in DOMAIN s : s[i] \in P})
      /\ Cardinality({i \in DOMAIN s : s[i] \in P}) <= Cardinality(DOMAIN s)
  BY <1>2, <1>3, FS_Subset
<1>5. /\ Cardinality({i \in DOMAIN s : s[i] \in P}) \in Nat
      /\ Cardinality({i \in DOMAIN s : s[i] \in P}) = 0 <=> {i \in DOMAIN s : s[i] \in P} = {}
  BY <1>4, FS_CardinalityType, FS_EmptySet
<1> QED
  BY <1>2, <1>4, <1>5 DEF CountIn

LEMMA CountEmpty == \A P : CountIn(<<>>, P) = 0
<1>1. \A P : {i \in DOMAIN <<>> : <<>>[i] \in P} = {}
  OBVIOUS
<1> QED
  BY <1>1, FS_EmptySet DEF CountIn

LEMMA CountAppend ==
  ASSUME NEW S, NEW s \in Seq(S), NEW e \in S, NEW P
  PROVE  CountIn(Append(s, e), P) = CountIn(s, P) + (IF e \in P THEN 1 ELSE 0)
<1>1. PICK t : t = Append(s, e)
  OBVIOUS
<1>2. /\ DOMAIN s = 1..Len(s) /\ Len(s) \in Nat
      /\ t \in Seq(S) /\ Len(t) = Len(s) + 1 
      /\ t[Len(s) + 1] = e /\ \A i \in 1..Len(s) : t[i] = s[i]
  BY <1>1, LenProperties, AppendProperties
<1>3. DOMAIN t = 1..(Len(s) + 1)
  BY <1>2, LenProperties
<1>4. PICK A : A = {i \in DOMAIN s : s[i] \in P}
  OBVIOUS
<1>5. IsFiniteSet(A)
  BY <1>4, CountType
<1>6. CASE e \in P
  <2>1. {i \in DOMAIN t : t[i] \in P} = A \cup {Len(s) + 1}
    BY <1>2, <1>3, <1>4, <1>6
  <2>2. Len(s) + 1 \notin A
    BY <1>2, <1>4
  <2>3. Cardinality(A \cup {Len(s) + 1}) = Cardinality(A) + 1
    BY <1>5, <2>2, FS_AddElement
  <2> QED
    BY <1>1, <1>4, <1>6, <2>1, <2>3 DEF CountIn
<1>7. CASE e \notin P
  <2>1. {i \in DOMAIN t : t[i] \in P} = A
    BY <1>2, <1>3, <1>4, <1>7
  <2>2. Cardinality(A) \in Nat
    BY <1>5, FS_CardinalityType
  <2>3. CountIn(t, P) = Cardinality(A) /\ CountIn(s, P) = Cardinality(A)
    BY <1>4, <2>1 DEF CountIn
  <2> QED
    BY <1>1, <1>7, <2>2, <2>3
<1> QED
  BY <1>6, <1>7

\* The elements of two sequences are those of the one and those of the other.
LEMMA CountConcat ==
  ASSUME NEW S, NEW s \in Seq(S), NEW t \in Seq(S), NEW P
  PROVE  CountIn(s \o t, P) = CountIn(s, P) + CountIn(t, P)
<1> DEFINE T == {u \in Seq(S) : CountIn(s \o u, P) = CountIn(s, P) + CountIn(u, P)}
<1>1. <<>> \in T
  <2>1. s \o <<>> = s /\ CountIn(s, P) \in Nat
    BY ConcatEmptySeq, CountType
  <2> QED
    BY <2>1, CountEmpty, EmptySeq
<1>2. ASSUME NEW u \in T, NEW e \in S PROVE Append(u, e) \in T
  <2>1. u \in Seq(S) /\ <<e>> \in Seq(S) /\ s \o u \in Seq(S)
    BY ConcatProperties
  <2>2. Append(u, e) \in Seq(S)
    BY <2>1, AppendProperties
  <2>3. s \o Append(u, e) = Append(s \o u, e)
    <3>1. s \o Append(u, e) = s \o (u \o <<e>>)
      BY <2>1, AppendIsConcat
    <3>2. s \o (u \o <<e>>) = (s \o u) \o <<e>>
      BY <2>1, ConcatAssociative
    <3> QED
      BY <2>1, <3>1, <3>2, AppendIsConcat
  <2>4. CountIn(Append(s \o u, e), P) = CountIn(s \o u, P) + (IF e \in P THEN 1 ELSE 0)
    BY ZenonT(30), <2>1, CountAppend
  <2>5. CountIn(Append(u, e), P) = CountIn(u, P) + (IF e \in P THEN 1 ELSE 0)
    BY <2>1, CountAppend
  <2>6. CountIn(s, P) \in Nat /\ CountIn(u, P) \in Nat
    BY <2>1, CountType
  <2>7. CountIn(s \o Append(u, e), P) = CountIn(s, P) + CountIn(Append(u, e), P)
    BY <2>3, <2>4, <2>5, <2>6
  <2> QED
    BY <2>2, <2>7
<1> HIDE DEF T
<1>3. T = Seq(S)
  BY <1>1, <1>2, SeqSetInduction DEF T
<1> QED
  BY <1>3 DEF T

LEMMA CountSame ==
  ASSUME NEW s, NEW P, NEW Q, \A i \in DOMAIN s : s[i] \in P <=> s[i] \in Q
  PROVE  CountIn(s, P) = CountIn(s, Q)
<1>1. {i \in DOMAIN s : s[i] \in P} = {i \in DOMAIN s : s[i] \in Q}
  OBVIOUS
<1> QED
  BY <1>1 DEF CountIn

LEMMA CountConstant ==
  ASSUME NEW n \in Int, NEW e, NEW P
  PROVE  CountIn([i \in 1..n |-> e], P) = IF e \in P /\ n > 0 THEN n ELSE 0
<1>1. CASE e \in P
  <2>1. {j \in DOMAIN [i \in 1..n |-> e] : [i \in 1..n |-> e][j] \in P} = 1..n
    BY <1>1
  <2>2. Cardinality(1..n) = IF n > 0 THEN n ELSE 0
    BY FS_Interval
  <2> QED
    BY <1>1, <2>1, <2>2 DEF CountIn
<1>2. CASE e \notin P
  <2>1. {j \in DOMAIN [i \in 1..n |-> e] : [i \in 1..n |-> e][j] \in P} = {}
    BY <1>2
  <2> QED
    BY <1>2, <2>1, FS_EmptySet DEF CountIn
<1> QED
  BY <1>1, <1>2

LEMMA ConstantSeq ==
  ASSUME NEW S, NEW n \in Int, NEW e \in S
  PROVE  [i \in 1..n |-> e] \in Seq(S)
<1>1. CASE n \in Nat
  <2>1. [i \in 1..n |-> e] \in [1..n -> S]
    OBVIOUS
  <2> QED
    BY <1>1, <2>1, SeqDef
<1>2. CASE n \notin Nat
  <2>1. 1..n = 1..0
    BY <1>2
  <2>2. [i \in 1..0 |-> e] \in [1..0 -> S]
    OBVIOUS
  <2>3. [i \in 1..0 |-> e] \in Seq(S)
    BY <2>2, SeqDef
  <2> QED
    BY <2>1, <2>3
<1> QED
  BY <1>1, <1>2

LEMMA CountOne ==
  ASSUME NEW e, NEW P
  PROVE  CountIn(<<e>>, P) = IF e \in P THEN 1 ELSE 0
<1>1. {i \in DOMAIN <<e>> : <<e>>[i] \in P} = IF e \in P THEN {1} ELSE {}
  OBVIOUS
<1> QED
  BY <1>1, FS_EmptySet, FS_Singleton DEF CountIn

\* s is what is before its k-th element, that element and the rest.
IsSplit(s, k, a, b) ==
  /\ a = SubSeq(s, 1, k - 1) /\ b = SubSeq(s, k + 1, Len(s))
  /\ Len(a) = k - 1 /\ Len(b) = Len(s) - k
  /\ s = a \o (<<s[k]>> \o b)

LEMMA Split ==
  ASSUME NEW S, NEW s \in Seq(S), NEW k \in 1..Len(s)
  PROVE  \E a, b \in Seq(S) : IsSplit(s, k, a, b)
<1>1. PICK j \in Nat : k = j + 1
  <2>1. k - 1 \in Nat /\ k = (k - 1) + 1
    BY LenProperties
  <2> QED
    BY <2>1
<1>2. PICK n \in Nat : n = Len(s)
  BY LenProperties
<1>3. j \in 0..n /\ n \in j..n /\ 1 \in 1..(n + 1) /\ j + 1 \in 1..n /\ n \in (j+1)..n
  BY <1>1, <1>2
<1>4. \A i \in 1..n : s[i] \in S
  BY <1>2, ElementOfSeq
<1>5. PICK a : a = SubSeq(s, 1, j)
  OBVIOUS
<1>6. PICK b : b = SubSeq(s, j + 2, n)
  OBVIOUS
<1>7. a \in Seq(S) /\ Len(a) = j
  BY <1>3, <1>4, <1>5, SubSeqProperties
<1>8. b \in Seq(S) /\ Len(b) = n - (j + 1)
  <2>1. j + 2 \in Int /\ n \in Int /\ \A i \in (j+2)..n : s[i] \in S
    BY <1>3, <1>4
  <2>2. Len(b) = IF j + 2 <= n THEN n - (j + 2) + 1 ELSE 0
    BY <1>6, <2>1, SubSeqProperties
  <2>3. b \in Seq(S)
    BY <1>6, <2>1, SubSeqProperties
  <2> QED
    BY <1>3, <2>2, <2>3
<1>9. SubSeq(s, j + 1, n) = <<s[j + 1]>> \o b
  <2>1. SubSeq(s, j + 1, n) = <<s[j + 1]>> \o SubSeq(s, (j + 1) + 1, n)
    BY <1>2, <1>3, SubSeqRecursiveFirst
  <2> QED
    BY <1>6, <2>1
<1>10. a \o SubSeq(s, j + 1, n) = s
  <2>1. 1 - 1 = 0
    OBVIOUS
  <2>2. SubSeq(s, 1, j) \o SubSeq(s, j + 1, n) = SubSeq(s, 1, n)
    BY <1>2, <1>3, <2>1, ConcatAdjacentSubSeq
  <2> QED
    BY <1>2, <1>5, <2>2, SubSeqFull
<1>11. a = SubSeq(s, 1, k - 1) /\ b = SubSeq(s, k + 1, Len(s))
  <2>1. k - 1 = j /\ k + 1 = j + 2
    BY <1>1
  <2> QED
    BY <1>2, <1>5, <1>6, <2>1
<1>13. s = a \o (<<s[k]>> \o b)
  BY <1>1, <1>9, <1>10
<1>14. Len(a) = k - 1 /\ Len(b) = Len(s) - k
  BY <1>1, <1>2, <1>7, <1>8
<1> QED
  BY <1>7, <1>8, <1>11, <1>13, <1>14 DEF IsSplit

\* What is removed is counted no more.
LEMMA CountWithout ==
  ASSUME NEW S, NEW s \in Seq(S), NEW k \in 1..Len(s), NEW P
  PROVE  /\ RemoveAt(s, k) \in Seq(S)
         /\ Len(RemoveAt(s, k)) = Len(s) - 1
         /\ CountIn(s, P) = CountIn(RemoveAt(s, k), P) + (IF s[k] \in P THEN 1 ELSE 0)
<1>1. PICK a \in Seq(S), b \in Seq(S) : IsSplit(s, k, a, b)
  BY Split
<1>2. Len(a) = k - 1 /\ Len(b) = Len(s) - k
  BY <1>1 DEF IsSplit
<1>3. s[k] \in S
  BY ElementOfSeq
<1>4. s = a \o (<<s[k]>> \o b)
  BY <1>1, Zenon DEF IsSplit
<1>5. RemoveAt(s, k) = a \o b
  BY <1>1, Zenon DEF RemoveAt, IsSplit
<1>6. PICK o : o = <<s[k]>>
  OBVIOUS
<1>7. PICK c : c = o \o b
  OBVIOUS
<1>8. o \in Seq(S)
  BY <1>3, <1>6
<1>9. c \in Seq(S)
  BY <1>7, <1>8, ConcatProperties
<1>10. CountIn(o \o b, P) = CountIn(o, P) + CountIn(b, P)
  BY <1>8, CountConcat
<1>11. CountIn(a \o c, P) = CountIn(a, P) + CountIn(c, P)
  BY <1>9, CountConcat
<1>12. CountIn(a \o b, P) = CountIn(a, P) + CountIn(b, P)
  BY CountConcat
<1>13. CountIn(o, P) = IF s[k] \in P THEN 1 ELSE 0
  BY <1>6, CountOne
<1>14. CountIn(a, P) \in Nat /\ CountIn(b, P) \in Nat
  BY CountType
<1>15. a \o b \in Seq(S) /\ Len(a \o b) = Len(a) + Len(b)
  BY ConcatProperties
<1>16. Len(a) + Len(b) = Len(s) - 1
  BY <1>2, LenProperties
<1>17. CountIn(s, P) = CountIn(a \o c, P)
  BY <1>4, <1>6, <1>7
<1>18. CountIn(c, P) = CountIn(o \o b, P)
  BY <1>7
<1>19. CountIn(s, P) = CountIn(a \o b, P) + CountIn(o, P)
  <2>1. CountIn(o, P) \in Nat
    BY <1>13
  <2> QED
    BY <1>10, <1>11, <1>12, <1>14, <1>17, <1>18, <2>1
<1> QED
  BY <1>5, <1>13, <1>15, <1>16, <1>19

LEMMA CountHead ==
  ASSUME NEW S, NEW s \in Seq(S), s # <<>>, NEW P
  PROVE  CountIn(s, P) = CountIn(Tail(s), P) + (IF Head(s) \in P THEN 1 ELSE 0)
<1>1. Len(s) \in Nat \ {0}
  BY EmptySeq
<1>2. Tail(s) = SubSeq(s, 2, Len(s)) /\ Tail(s) \in Seq(S)
  BY TailIsSubSeq, HeadTailProperties
<1>3. Head(s) = s[1]
  OBVIOUS
<1>4. SubSeq(s, 1, 0) = <<>>
  BY SubSeqEmpty
<1>5. RemoveAt(s, 1) = Tail(s)
  BY <1>2, <1>4, ConcatEmptySeq DEF RemoveAt
<1>6. 1 \in 1..Len(s)
  BY <1>1
<1>7. CountIn(s, P) = CountIn(RemoveAt(s, 1), P) + (IF s[1] \in P THEN 1 ELSE 0)
  BY <1>6, CountWithout
<1> QED
  BY <1>3, <1>5, <1>7

\* n[r] times ev[r], for every r up to k.
CopiesOf(n, ev, r) == [i \in 1..n[r] |-> ev[r]]
Copies(n, ev, k) == [r \in 1..k |-> CopiesOf(n, ev, r)]

LEMMA CopiesType ==
  ASSUME NEW S, NEW n, NEW ev, NEW k \in Nat, \A r \in 1..k : n[r] \in Int /\ ev[r] \in S
  PROVE  Copies(n, ev, k) \in Seq(Seq(S))
<1>1. ASSUME NEW r \in 1..k PROVE CopiesOf(n, ev, r) \in Seq(S)
  BY ConstantSeq DEF CopiesOf
<1>2. Copies(n, ev, k) \in [1..k -> Seq(S)]
  BY <1>1 DEF Copies
<1> QED
  BY <1>2, SeqDef

LEMMA CopiesGrow ==
  ASSUME NEW n, NEW ev, NEW k \in Nat, \A r \in 1..(k + 1) : n[r] \in Int
  PROVE  Copies(n, ev, k + 1) = Append(Copies(n, ev, k), CopiesOf(n, ev, k + 1))
<1>s. PICK S : \A r \in 1..(k + 1) : ev[r] \in S
  <2>1. \A r \in 1..(k + 1) : ev[r] \in {ev[q] : q \in 1..(k + 1)}
    OBVIOUS
  <2> QED
    BY <2>1
<1>1. PICK a : a = Copies(n, ev, k)
  OBVIOUS
<1>2. PICK b : b = Copies(n, ev, k + 1)
  OBVIOUS
<1>3. PICK e : e = CopiesOf(n, ev, k + 1)
  OBVIOUS
<1>4. a \in Seq(Seq(S)) /\ b \in Seq(Seq(S)) /\ e \in Seq(S)
  <2>1. n[k + 1] \in Int /\ ev[k + 1] \in S
    BY <1>s
  <2>2. e \in Seq(S)
    BY <1>3, <2>1, ConstantSeq DEF CopiesOf
  <2>3. k + 1 \in Nat /\ \A r \in 1..(k + 1) : n[r] \in Int /\ ev[r] \in S
    BY <1>s
  <2>4. \A r \in 1..k : n[r] \in Int /\ ev[r] \in S
    BY <2>3
  <2> QED
    BY <1>1, <1>2, <2>2, <2>3, <2>4, CopiesType
<1>5. DOMAIN a = 1..k /\ DOMAIN b = 1..(k+1)
  BY <1>1, <1>2 DEF Copies
<1>6. Len(a) = k /\ Len(b) = k + 1
  BY <1>4, <1>5, LenProperties
<1>7. PICK c : c = Append(a, e)
  OBVIOUS
<1>8. c \in Seq(Seq(S)) /\ Len(c) = k + 1 /\ c[k+1] = e /\ \A i \in 1..k : c[i] = a[i]
  BY <1>4, <1>6, <1>7, AppendProperties
<1>9. \A i \in 1..k : b[i] = a[i]
  BY <1>1, <1>2 DEF Copies
<1>10. b[k + 1] = e
  BY <1>2, <1>3 DEF Copies
<1>11. \A i \in 1..Len(b) : b[i] = c[i]
  <2>1. \A i \in 1..Len(b) : i = k + 1 \/ i \in 1..k
    BY <1>5, <1>6
  <2> QED
    BY <1>8, <1>9, <1>10, <2>1
<1>12. b = c
  BY <1>4, <1>6, <1>8, <1>11, SeqEqual
<1> QED
  BY <1>1, <1>2, <1>3, <1>7, <1>12

CountAmong(n, ev, k, P) == CountIn(FlattenSeq(Copies(n, ev, k)), P)

LEMMA CountMoreCopies ==
  ASSUME NEW n, NEW ev, NEW k \in Nat, \A r \in 1..(k + 1) : n[r] \in Int, NEW P
  PROVE  CountAmong(n, ev, k + 1, P)
           = CountAmong(n, ev, k, P) + CountIn(CopiesOf(n, ev, k + 1), P)
<1>s. PICK S : \A r \in 1..(k + 1) : ev[r] \in S
  <2>1. \A r \in 1..(k + 1) : ev[r] \in {ev[q] : q \in 1..(k + 1)}
    OBVIOUS
  <2> QED
    BY <2>1
<1>1. PICK a : a = Copies(n, ev, k)
  OBVIOUS
<1>2. PICK e : e = CopiesOf(n, ev, k + 1)
  OBVIOUS
<1>3. n[k + 1] \in Int /\ \A r \in 1..(k + 1) : ev[r] \in S
  BY <1>s
<1>4. a \in Seq(Seq(S)) /\ e \in Seq(S)
  <2>1. a \in Seq(Seq(S))
    BY <1>1, <1>3, CopiesType
  <2>2. ev[k + 1] \in S
    BY <1>3
  <2> QED
    BY <1>2, <1>3, <2>1, <2>2, ConstantSeq DEF CopiesOf
<1>5. Copies(n, ev, k + 1) = Append(a, e)
  <2>1. Copies(n, ev, k + 1) = Append(Copies(n, ev, k), CopiesOf(n, ev, k + 1))
    BY CopiesGrow
  <2> QED
    BY <1>1, <1>2, <2>1, Zenon
<1>6. FlattenSeq(Append(a, e)) = FlattenSeq(a) \o e
  BY <1>4, FlattenAppend
<1>7. FlattenSeq(a) \in Seq(S)
  BY <1>4, FlattenType
<1>8. CountIn(FlattenSeq(a) \o e, P) = CountIn(FlattenSeq(a), P) + CountIn(e, P)
  BY <1>4, <1>7, CountConcat
<1> QED
  BY <1>1, <1>2, <1>5, <1>6, <1>8 DEF CountAmong

\* Of all the copies, those of ev[x] are counted.
LEMMA CountCopies ==
  ASSUME NEW S, NEW N \in Nat, NEW n \in [1..N -> Int], NEW ev \in [1..N -> S],
         NEW P, NEW x \in 1..N, \A r \in 1..N : ev[r] \in P <=> r = x
  PROVE  /\ FlattenSeq(Copies(n, ev, N)) \in Seq(S)
         /\ CountIn(FlattenSeq(Copies(n, ev, N)), P) = IF n[x] > 0 THEN n[x] ELSE 0
<1> DEFINE C(k) == CountAmong(n, ev, k, P)
<1> DEFINE T == {k \in Nat : k <= N => C(k) = IF x <= k /\ n[x] > 0 THEN n[x] ELSE 0}
<1>0. n[x] \in Int /\ x \in Nat /\ 1 <= x /\ x <= N
  OBVIOUS
<1>1. C(0) = 0
  <2>1. Copies(n, ev, 0) = <<>>
    BY DEF Copies
  <2> QED
    BY <2>1, FlattenEmpty, CountEmpty DEF CountAmong
<1>2. ASSUME NEW k \in Nat, k + 1 <= N
      PROVE  C(k + 1) = C(k) + (IF k + 1 = x /\ n[x] > 0 THEN n[x] ELSE 0)
  <2>1. k \in 0..N /\ k + 1 \in 1..N
    BY <1>2
  <2>5. \A r \in 1..(k + 1) : n[r] \in Int
    BY <1>2
  <2>2. C(k + 1) = C(k) + CountIn(CopiesOf(n, ev, k + 1), P)
    BY <2>5, CountMoreCopies
  <2>3. n[k + 1] \in Int /\ (ev[k + 1] \in P <=> k + 1 = x)
    BY <2>1
  <2>4. CountIn(CopiesOf(n, ev, k + 1), P) = IF ev[k + 1] \in P /\ n[k + 1] > 0 THEN n[k + 1] ELSE 0
    BY <2>3, CountConstant DEF CopiesOf
  <2> QED
    BY <2>2, <2>3, <2>4
<1> HIDE DEF C
<1>3. 0 \in T
  BY <1>0, <1>1
<1>4. ASSUME NEW k \in T PROVE k + 1 \in T
  <2> SUFFICES ASSUME k + 1 <= N
               PROVE  C(k + 1) = IF x <= k + 1 /\ n[x] > 0 THEN n[x] ELSE 0
    OBVIOUS
  <2>1. C(k) = IF x <= k /\ n[x] > 0 THEN n[x] ELSE 0
    OBVIOUS
  <2> QED
    BY <1>0, <1>2, <2>1
<1>5. T \in SUBSET Nat
  OBVIOUS
<1> HIDE DEF T
<1>6. T = Nat
  BY <1>3, <1>4, <1>5, NatSetInduction
<1>7. C(N) = IF x <= N /\ n[x] > 0 THEN n[x] ELSE 0
  BY <1>6 DEF T
<1>8. \A r \in 1..N : n[r] \in Int /\ ev[r] \in S
  OBVIOUS
<1>9. FlattenSeq(Copies(n, ev, N)) \in Seq(S)
  BY <1>8, CopiesType, FlattenType
<1> QED
  BY <1>0, <1>7, <1>9 DEF C, CountAmong

-----------------------------------------------------------------------------
(* What is in a sequence.                                                  *)

\* What is in a sequence after it grew or shrank.
LEMMA ToSetAppend ==
  ASSUME NEW S, NEW s \in Seq(S), NEW e \in S
  PROVE  ToSet(Append(s, e)) = ToSet(s) \cup {e}
<1>1. PICK t : t = Append(s, e)
  OBVIOUS
<1>2. /\ DOMAIN s = 1..Len(s) /\ Len(s) \in Nat
      /\ t \in Seq(S) /\ Len(t) = Len(s) + 1
      /\ t[Len(s) + 1] = e /\ \A i \in 1..Len(s) : t[i] = s[i]
  BY <1>1, LenProperties, AppendProperties
<1>3. DOMAIN t = 1..(Len(s) + 1)
  BY <1>2, LenProperties
<1>4. ToSet(t) = ToSet(s) \cup {e}
  BY <1>2, <1>3 DEF ToSet
<1> QED
  BY <1>1, <1>4

LEMMA ToSetConcat ==
  ASSUME NEW S, NEW s \in Seq(S), NEW t \in Seq(S)
  PROVE  ToSet(s \o t) = ToSet(s) \cup ToSet(t)
<1>1. PICK u : u = s \o t
  OBVIOUS
<1>2. PICK n \in Nat, k \in Nat : n = Len(s) /\ k = Len(t)
  BY LenProperties
<1>3. DOMAIN s = 1..n /\ DOMAIN t = 1..k
  BY <1>2, LenProperties
<1>4. /\ u \in Seq(S) /\ Len(u) = n + k
      /\ \A i \in 1..(n + k) : u[i] = IF i <= n THEN s[i] ELSE t[i - n]
  BY <1>1, <1>2, ConcatProperties
<1>5. DOMAIN u = 1..(n + k)
  BY <1>4, LenProperties
<1>6. \A i \in 1..n : i \in 1..(n + k) /\ u[i] = s[i]
  BY <1>4
<1>7. \A i \in 1..k : i + n \in 1..(n + k) /\ u[i + n] = t[i]
  BY <1>4
<1>8. \A i \in 1..(n + k) : u[i] \in ToSet(s) \cup ToSet(t)
  <2> SUFFICES ASSUME NEW i \in 1..(n + k) PROVE u[i] \in ToSet(s) \cup ToSet(t)
    OBVIOUS
  <2>1. i <= n => i \in 1..n
    OBVIOUS
  <2>2. ~(i <= n) => i - n \in 1..k
    OBVIOUS
  <2> QED
    BY <1>3, <1>4, <2>1, <2>2 DEF ToSet
<1>9. ToSet(u) \subseteq ToSet(s) \cup ToSet(t)
  BY <1>5, <1>8 DEF ToSet
<1>10. ToSet(s) \subseteq ToSet(u)
  BY <1>3, <1>5, <1>6 DEF ToSet
<1>11. ToSet(t) \subseteq ToSet(u)
  <2> SUFFICES ASSUME NEW i \in 1..k PROVE t[i] \in ToSet(u)
    BY <1>3 DEF ToSet
  <2>1. i + n \in DOMAIN u /\ u[i + n] = t[i]
    BY <1>5, <1>7
  <2> QED
    BY <2>1 DEF ToSet
<1> QED
  BY <1>1, <1>9, <1>10, <1>11

LEMMA ToSetWithout ==
  ASSUME NEW S, NEW s \in Seq(S), NEW k \in 1..Len(s)
  PROVE  s[k] \in ToSet(s) /\ ToSet(RemoveAt(s, k)) \subseteq ToSet(s)
<1>1. PICK a \in Seq(S), b \in Seq(S) : IsSplit(s, k, a, b)
  BY Split
<1>2. s[k] \in S
  BY ElementOfSeq
<1>3. PICK o : o = <<s[k]>>
  OBVIOUS
<1>4. PICK c : c = o \o b
  OBVIOUS
<1>11. o \in Seq(S) /\ c \in Seq(S)
  BY <1>2, <1>3, <1>4, ConcatProperties
<1>5. s = a \o (o \o b)
  BY <1>1, <1>3, Zenon DEF IsSplit
<1>6. RemoveAt(s, k) = a \o b
  BY <1>1, Zenon DEF RemoveAt, IsSplit
<1>7. ToSet(a \o c) = ToSet(a) \cup ToSet(c)
  BY <1>11, ToSetConcat
<1>8. ToSet(o \o b) = ToSet(o) \cup ToSet(b)
  BY <1>11, ToSetConcat
<1>12. s = a \o c
  BY <1>4, <1>5
<1>9. ToSet(a \o b) = ToSet(a) \cup ToSet(b)
  BY ToSetConcat
<1>10. s[k] \in ToSet(o)
  BY <1>3 DEF ToSet
<1> QED
  BY <1>4, <1>6, <1>7, <1>8, <1>9, <1>10, <1>12

LEMMA TailRemoves ==
  ASSUME NEW S, NEW s \in Seq(S), s # <<>>
  PROVE  /\ 1 \in 1..Len(s)
         /\ Head(s) = s[1]
         /\ Head(s) \in S
         /\ Tail(s) = RemoveAt(s, 1)
         /\ Tail(s) \in Seq(S)
         /\ Len(Tail(s)) = Len(s) - 1
<1>1. Len(s) \in Nat \ {0}
  BY EmptySeq
<1>2. Tail(s) = SubSeq(s, 2, Len(s))
  BY TailIsSubSeq
<1>7. Tail(s) \in Seq(S) /\ Len(Tail(s)) = Len(s) - 1 /\ Head(s) \in S
  BY HeadTailProperties
<1>3. Head(s) = s[1]
  OBVIOUS
<1>4. SubSeq(s, 1, 0) = <<>>
  BY SubSeqEmpty
<1>5. RemoveAt(s, 1) = Tail(s)
  BY <1>2, <1>7, <1>4, ConcatEmptySeq DEF RemoveAt
<1>6. 1 \in 1..Len(s)
  BY <1>1
<1> QED
  BY <1>3, <1>5, <1>6, <1>7, Zenon

LEMMA CountAll ==
  ASSUME NEW S, NEW s \in Seq(S), NEW P, ToSet(s) \subseteq P
  PROVE  CountIn(s, P) = Len(s)
<1>1. DOMAIN s = 1..Len(s) /\ Len(s) \in Nat
  BY LenProperties
<1>2. {i \in DOMAIN s : s[i] \in P} = 1..Len(s)
  BY <1>1 DEF ToSet
<1>3. Cardinality(1..Len(s)) = Len(s)
  BY SMTT(20), <1>1, FS_Interval
<1> QED
  BY <1>2, <1>3 DEF CountIn

LEMMA CountNone ==
  ASSUME NEW s, NEW P, \A m \in ToSet(s) : m \notin P
  PROVE  CountIn(s, P) = 0
<1>1. {i \in DOMAIN s : s[i] \in P} = {}
  BY DEF ToSet
<1> QED
  BY <1>1, FS_EmptySet DEF CountIn

LEMMA ToSetType ==
  ASSUME NEW S, NEW s \in Seq(S)
  PROVE  ToSet(s) \subseteq S
BY LenProperties, ElementOfSeq DEF ToSet
-----------------------------------------------------------------------------
(* The members of a set in a sequence, in their order.                     *)

OnlyBody(f, s, S, n) ==
  [i \in 0..n |-> IF i = 0 THEN <<>> ELSE IF s[i] \in S THEN Append(f[i - 1], s[i]) ELSE f[i - 1]]
IsOnly(f, s, S, n) == f = OnlyBody(f, s, S, n)

LEMMA OnlyIsChoice ==
  ASSUME NEW s, NEW S
  PROVE  Only(s, S) = (CHOOSE f : IsOnly(f, s, S, Len(s)))[Len(s)]
BY DEF Only, IsOnly, OnlyBody

\* What is kept of the first n members extends to the next.
LEMMA OnlyExtends ==
  ASSUME NEW s, NEW S, NEW n \in Nat, NEW f, IsOnly(f, s, S, n)
  PROVE  \E g : IsOnly(g, s, S, n + 1)
<1> DEFINE g == [i \in 0..(n + 1) |->
                   IF i = n + 1 THEN IF s[i] \in S THEN Append(f[n], s[i]) ELSE f[n] ELSE f[i]]
<1>1. \A i \in 0..(n + 1) : g[i] = IF i = 0 THEN <<>>
                                  ELSE IF s[i] \in S THEN Append(g[i - 1], s[i]) ELSE g[i - 1]
  <2> SUFFICES ASSUME NEW i \in 0..(n + 1)
               PROVE  g[i] = IF i = 0 THEN <<>>
                             ELSE IF s[i] \in S THEN Append(g[i - 1], s[i]) ELSE g[i - 1]
    OBVIOUS
  <2>1. CASE i = n + 1
    <3>1. i # 0 /\ i - 1 = n /\ n \in 0..(n + 1) /\ n # n + 1
      BY <2>1
    <3> QED
      BY <2>1, <3>1
  <2>2. CASE i # n + 1
    <3>1. i \in 0..n
      BY <2>2
    <3>2. f[i] = IF i = 0 THEN <<>> ELSE IF s[i] \in S THEN Append(f[i - 1], s[i]) ELSE f[i - 1]
      BY <3>1 DEF IsOnly, OnlyBody
    <3>3. i # 0 => i - 1 \in 0..(n + 1) /\ i - 1 # n + 1
      BY <2>2
    <3> QED
      BY <2>2, <3>2, <3>3
  <2> QED
    BY <2>1, <2>2
<1> HIDE DEF g
<1>2. g = [i \in 0..(n + 1) |-> g[i]]
  BY DEF g
<1>3. [i \in 0..(n + 1) |-> g[i]] = OnlyBody(g, s, S, n + 1)
  BY <1>1 DEF OnlyBody
<1> QED
  BY <1>2, <1>3 DEF IsOnly

\* There is such a function for every n.
LEMMA OnlyExists ==
  ASSUME NEW s, NEW S, NEW n \in Nat
  PROVE  \E f : IsOnly(f, s, S, n)
<1> DEFINE T == {k \in Nat : \E f : IsOnly(f, s, S, k)}
<1>1. 0 \in T
  <2>1. IsOnly([i \in 0..0 |-> <<>>], s, S, 0)
    BY DEF IsOnly, OnlyBody
  <2> QED
    BY <2>1
<1>2. ASSUME NEW k \in T PROVE k + 1 \in T
  BY OnlyExtends
<1> HIDE DEF T
<1>3. T = Nat
  BY <1>1, <1>2, NatSetInduction DEF T
<1> QED
  BY <1>3 DEF T

\* Of two sequences that begin alike, what is kept begins alike.
LEMMA OnlyUnique ==
  ASSUME NEW s, NEW t, NEW S, NEW n \in Nat, NEW f, NEW g,
         IsOnly(f, s, S, n), IsOnly(g, t, S, n + 1), \A i \in 1..n : t[i] = s[i]
  PROVE  f[n] = g[n]
<1> DEFINE T == {k \in Nat : k <= n => f[k] = g[k]}
<1>1. 0 \in T
  BY DEF IsOnly, OnlyBody
<1>2. ASSUME NEW k \in T PROVE k + 1 \in T
  <2> SUFFICES ASSUME k + 1 <= n PROVE f[k + 1] = g[k + 1]
    OBVIOUS
  <2>1. k + 1 \in 0..n /\ k + 1 \in 0..(n + 1) /\ k + 1 # 0 /\ (k + 1) - 1 = k /\ k + 1 \in 1..n
    OBVIOUS
  <2>2. f[k + 1] = IF s[k + 1] \in S THEN Append(f[k], s[k + 1]) ELSE f[k]
    BY <2>1 DEF IsOnly, OnlyBody
  <2>3. g[k + 1] = IF t[k + 1] \in S THEN Append(g[k], t[k + 1]) ELSE g[k]
    BY <2>1 DEF IsOnly, OnlyBody
  <2> QED
    BY <2>1, <2>2, <2>3
<1> HIDE DEF T
<1>3. T = Nat
  BY <1>1, <1>2, NatSetInduction DEF T
<1> QED
  BY <1>3 DEF T

LEMMA OnlyEmpty == \A S : Only(<<>>, S) = <<>>
<1> SUFFICES ASSUME NEW S PROVE Only(<<>>, S) = <<>>
  OBVIOUS
<1>1. Len(<<>>) = 0
  BY EmptySeq
<1>2. PICK f : f = CHOOSE g : IsOnly(g, <<>>, S, 0)
  OBVIOUS
<1>3. \E g : IsOnly(g, <<>>, S, 0)
  BY OnlyExists
<1>4. IsOnly(f, <<>>, S, 0)
  BY <1>2, <1>3
<1> QED
  BY <1>1, <1>2, <1>4, OnlyIsChoice DEF IsOnly, OnlyBody

\* One member more is kept or not.
LEMMA OnlyAppend ==
  ASSUME NEW V, NEW s \in Seq(V), NEW e \in V, NEW S
  PROVE  Only(Append(s, e), S) = IF e \in S THEN Append(Only(s, S), e) ELSE Only(s, S)
<1>1. PICK t : t = Append(s, e)
  OBVIOUS
<1>2. PICK n \in Nat : n = Len(s) /\ Len(t) = n + 1 /\ t[n + 1] = e /\ \A i \in 1..n : t[i] = s[i]
  BY <1>1, AppendProperties, LenProperties
<1>3. PICK f, g : f = (CHOOSE h : IsOnly(h, s, S, n)) /\ g = CHOOSE h : IsOnly(h, t, S, n + 1)
  OBVIOUS
<1>4. IsOnly(f, s, S, n) /\ IsOnly(g, t, S, n + 1)
  <2>1. (\E h : IsOnly(h, s, S, n)) /\ \E h : IsOnly(h, t, S, n + 1)
    <3>1. n + 1 \in Nat
      OBVIOUS
    <3> QED
      BY <3>1, OnlyExists
  <2> QED
    BY <1>3, <2>1
<1>5. Only(s, S) = f[n] /\ Only(t, S) = g[n + 1]
  BY <1>2, <1>3, OnlyIsChoice
<1>6. f[n] = g[n]
  BY <1>2, <1>4, OnlyUnique
<1>7. g[n + 1] = IF e \in S THEN Append(g[n], e) ELSE g[n]
  <2>1. n + 1 \in 0..(n + 1) /\ n + 1 # 0 /\ (n + 1) - 1 = n
    OBVIOUS
  <2> QED
    BY <1>2, <1>4, <2>1 DEF IsOnly, OnlyBody
<1> QED
  BY <1>1, <1>5, <1>6, <1>7

\* Members of s other than x are different.
Once(s, x) == \A m, n \in 1..Len(s) : s[m] = s[n] /\ s[m] # x => m = n

\* t is s and e after its n members.
IsAppend(t, n, s, e) ==
  /\ t = Append(s, e) /\ n \in Nat /\ Len(s) = n /\ Len(t) = n + 1
  /\ t[n + 1] = e /\ \A i \in 1..n : t[i] = s[i]

LEMMA AppendFacts ==
  ASSUME NEW V, NEW s \in Seq(V), NEW e \in V
  PROVE  \E t, n : IsAppend(t, n, s, e)
<1>1. PICK t : t = Append(s, e)
  OBVIOUS
<1>2. PICK n : n = Len(s)
  OBVIOUS
<1>3. /\ Len(t) = n + 1 /\ n \in Nat
      /\ t[n + 1] = e /\ \A i \in 1..n : t[i] = s[i]
  BY <1>1, <1>2, AppendProperties, LenProperties
<1> QED
  BY <1>1, <1>2, <1>3 DEF IsAppend

LEMMA OnceAppend ==
  ASSUME NEW V, NEW s \in Seq(V), NEW e \in V, NEW x, Once(s, x), e \in ToSet(s) => e = x
  PROVE  Once(Append(s, e), x)
<1>1. PICK t, n : IsAppend(t, n, s, e)
  BY AppendFacts
<1>1a. /\ t = Append(s, e) /\ n \in Nat /\ Len(s) = n /\ Len(t) = n + 1 /\ t[n + 1] = e
       /\ \A i \in 1..n : t[i] = s[i]
  BY <1>1 DEF IsAppend
<1>2. \A i \in 1..n : s[i] \in ToSet(s)
  BY <1>1a, LenProperties DEF ToSet
<1>3. ASSUME NEW i \in 1..Len(t), NEW j \in 1..Len(t), t[i] = t[j], t[i] # x
      PROVE  i = j
  <2>1. (i \in 1..n \/ i = n + 1) /\ (j \in 1..n \/ j = n + 1)
    BY <1>1a
  <2>2. CASE i \in 1..n /\ j \in 1..n
    BY <1>1a, <1>3, <2>2 DEF Once
  <2>3. CASE i \in 1..n /\ j = n + 1
    BY <1>1a, <1>2, <1>3, <2>3
  <2>4. CASE i = n + 1 /\ j \in 1..n
    BY <1>1a, <1>2, <1>3, <2>4
  <2> QED
    BY <2>1, <2>2, <2>3, <2>4
<1> QED
  BY <1>1a, <1>3 DEF Once

LEMMA OnceBefore ==
  ASSUME NEW V, NEW s \in Seq(V), NEW e \in V, NEW x, Once(Append(s, e), x)
  PROVE  Once(s, x) /\ (e \in ToSet(s) => e = x)
<1>1. PICK t, n : IsAppend(t, n, s, e)
  BY AppendFacts
<1>1a. /\ t = Append(s, e) /\ n \in Nat /\ Len(s) = n /\ Len(t) = n + 1 /\ t[n + 1] = e
       /\ \A i \in 1..n : t[i] = s[i]
  BY <1>1 DEF IsAppend
<1>2. \A i, j \in 1..(n + 1) : t[i] = t[j] /\ t[i] # x => i = j
  BY <1>1a DEF Once
<1>3. \A i \in 1..n : i \in 1..(n + 1) /\ i # n + 1
  BY <1>1a
<1>4. Once(s, x)
  BY <1>1a, <1>2, <1>3 DEF Once
<1>5. ASSUME e \in ToSet(s) PROVE e = x
  <2>1. PICK i \in 1..n : s[i] = e
    BY <1>1a, <1>5, LenProperties DEF ToSet
  <2>2. n + 1 \in 1..(n + 1)
    BY <1>1a
  <2> QED
    BY <1>1a, <1>2, <1>3, <2>1, <2>2
<1> QED
  BY <1>4, <1>5

\* What is kept are the members of S, and what was there once is kept once.
LEMMA OnlyMembers ==
  ASSUME NEW V, NEW s \in Seq(V), NEW S
  PROVE  /\ Only(s, S) \in Seq(V)
         /\ ToSet(Only(s, S)) = ToSet(s) \cap S
         /\ \A x : Once(s, x) => Once(Only(s, S), x)
<1> DEFINE T == {t \in Seq(V) : /\ Only(t, S) \in Seq(V)
                                /\ ToSet(Only(t, S)) = ToSet(t) \cap S
                                /\ \A x : Once(t, x) => Once(Only(t, S), x)}
<1>1. <<>> \in T
  <2>1. ToSet(<<>>) = {}
    BY EmptySeq DEF ToSet
  <2> QED
    BY EmptySeq, OnlyEmpty, <2>1
<1>2. ASSUME NEW t \in T, NEW e \in V PROVE Append(t, e) \in T
  <2>1. PICK k \in Seq(V) : /\ k = Only(t, S) /\ ToSet(k) = ToSet(t) \cap S
                            /\ \A x : Once(t, x) => Once(k, x)
    OBVIOUS
  <2>2. Append(t, e) \in Seq(V) /\ t \in Seq(V) /\ ToSet(Append(t, e)) = ToSet(t) \cup {e}
    BY AppendProperties, ToSetAppend
  <2>3. Only(Append(t, e), S) = IF e \in S THEN Append(k, e) ELSE k
    BY <2>1, <2>2, OnlyAppend
  <2>4. CASE e \in S
    <3>1. ToSet(Append(k, e)) = ToSet(k) \cup {e} /\ Append(k, e) \in Seq(V)
      BY AppendProperties, ToSetAppend
    <3>2. ToSet(Append(k, e)) = ToSet(Append(t, e)) \cap S
      BY <2>1, <2>2, <2>4, <3>1
    <3>3. ASSUME NEW x, Once(Append(t, e), x) PROVE Once(Append(k, e), x)
      <4>1. Once(t, x) /\ (e \in ToSet(t) => e = x)
        BY <2>2, <3>3, OnceBefore
      <4>2. e \in ToSet(k) => e = x
        BY <2>1, <4>1
      <4> QED
        BY <2>1, <4>1, <4>2, OnceAppend
    <3> QED
      BY <2>2, <2>3, <2>4, <3>1, <3>2, <3>3
  <2>5. CASE e \notin S
    <3>1. ToSet(k) = ToSet(Append(t, e)) \cap S
      BY <2>1, <2>2, <2>5
    <3>2. ASSUME NEW x, Once(Append(t, e), x) PROVE Once(k, x)
      BY <2>1, <2>2, <3>2, OnceBefore
    <3> QED
      BY <2>1, <2>2, <2>3, <2>5, <3>1, <3>2
  <2> QED
    BY <2>4, <2>5
<1> HIDE DEF T
<1>3. T = Seq(V)
  BY <1>1, <1>2, SeqSetInduction DEF T
<1> QED
  BY <1>3 DEF T

LEMMA OnlyLength ==
  ASSUME NEW V, NEW s \in Seq(V), NEW S
  PROVE  Len(Only(s, S)) \in Nat /\ Len(Only(s, S)) <= Len(s)
<1> DEFINE T == {t \in Seq(V) : Len(Only(t, S)) \in Nat /\ Len(Only(t, S)) <= Len(t)}
<1>1. <<>> \in T
  BY EmptySeq, OnlyEmpty
<1>2. ASSUME NEW t \in T, NEW e \in V PROVE Append(t, e) \in T
  <2>1. PICK k \in Seq(V) : k = Only(t, S)
    BY OnlyMembers
  <2>2. t \in Seq(V) /\ Len(k) \in Nat /\ Len(k) <= Len(t) /\ Len(t) \in Nat
    BY <2>1, LenProperties
  <2>3. /\ Append(t, e) \in Seq(V) /\ Len(Append(t, e)) = Len(t) + 1
        /\ Len(Append(k, e)) = Len(k) + 1
    BY <2>2, AppendProperties
  <2>4. Only(Append(t, e), S) = IF e \in S THEN Append(k, e) ELSE k
    BY <2>1, <2>2, OnlyAppend
  <2> QED
    BY <2>2, <2>3, <2>4
<1> HIDE DEF T
<1>3. T = Seq(V)
  BY <1>1, <1>2, SeqSetInduction DEF T
<1> QED
  BY <1>3 DEF T

-----------------------------------------------------------------------------
(* Least elements, sorting, and what a finite set leaves free.             *)

LEMMA LeastExists ==
  ASSUME NEW S \in SUBSET Nat, S # {}
  PROVE  Min(S) \in S /\ \A y \in S : Min(S) <= y
<1>1. IsWellFoundedOn(OpToRel(<,Nat), Nat)
  BY NatLessThanWellFounded
<1>2. \E x \in S : \A y \in S : ~ (<<y, x>> \in OpToRel(<,Nat))
  BY <1>1, WFMin
<1>3. PICK x \in S : \A y \in S : ~ (y < x)
  BY <1>2 DEF OpToRel
<1>4. \A y \in S : x =< y
  BY <1>3
<1> QED
  BY <1>4 DEF Min

\* R orders the positions that p lists, one after the other, and p lists 1 to n.
IsSorting(p, n, R) ==
  /\ p \in [1..n -> 1..n]
  /\ \A i \in 1..n : \E k \in 1..n : p[k] = i
  /\ \A i, j \in 1..n : i < j => <<p[i], p[j]>> \in R

\* One position more goes before the first that it precedes.
LEMMA SortInsert ==
  ASSUME NEW n \in Nat, NEW R, NEW p, IsSorting(p, n, R),
         \A i, j \in 1..(n + 1) : i # j => <<i, j>> \in R \/ <<j, i>> \in R,
         \A i, j, k \in 1..(n + 1) : <<i, j>> \in R /\ <<j, k>> \in R => <<i, k>> \in R
  PROVE  \E q : IsSorting(q, n + 1, R)
<1> DEFINE K == {k \in 1..(n + 1) : \A l \in k..n : <<n + 1, p[l]>> \in R}
<1>1. PICK k \in K : \A j \in K : k <= j
  <2>1. n + 1 \in K /\ K \in SUBSET Nat
    OBVIOUS
  <2> HIDE DEF K
  <2> QED
    BY <2>1, LeastExists
<1>2. \A l \in 1..n : p[l] \in 1..n /\ p[l] \in 1..(n + 1) /\ p[l] # n + 1
  BY DEF IsSorting
<1>3. \A l \in 1..n : l < k => <<p[l], n + 1>> \in R
  <2> SUFFICES ASSUME NEW l \in 1..n, l < k PROVE <<p[l], n + 1>> \in R
    OBVIOUS
  <2>1. PICK h \in 1..n : h = k - 1
    OBVIOUS
  <2>2. h \notin K
    BY <1>1, <2>1
  <2>3. PICK j \in h..n : <<n + 1, p[j]>> \notin R
    BY <2>2
  <2>4. j = h
    BY <1>1, <2>1, <2>3
  <2>5. <<p[h], n + 1>> \in R
    BY <1>2, <2>3, <2>4
  <2>6. CASE l = h
    BY <2>5, <2>6
  <2>7. CASE l # h
    <3>1. <<p[l], p[h]>> \in R
      BY <2>1, <2>7 DEF IsSorting
    <3> QED
      BY <1>2, <2>5, <3>1
  <2> QED
    BY <2>6, <2>7
<1> DEFINE q == [i \in 1..(n + 1) |-> IF i < k THEN p[i] ELSE IF i = k THEN n + 1 ELSE p[i - 1]]
<1>4. \A i \in 1..(n + 1) : /\ i < k => i \in 1..n /\ q[i] = p[i]
                            /\ i = k => q[i] = n + 1
                            /\ i > k => i - 1 \in 1..n /\ q[i] = p[i - 1]
  BY <1>1
<1>5. q \in [1..(n + 1) -> 1..(n + 1)]
  BY <1>2, <1>4
<1> HIDE DEF q, K
<1>k. k \in 1..(n + 1) /\ \A l \in k..n : <<n + 1, p[l]>> \in R
  BY <1>1 DEF K
<1>6. ASSUME NEW i \in 1..(n + 1) PROVE \E j \in 1..(n + 1) : q[j] = i
  <2>1. CASE i = n + 1
    BY <1>k, <1>4, <2>1
  <2>2. CASE i # n + 1
    <3>1. PICK j \in 1..n : p[j] = i
      BY <2>2 DEF IsSorting
    <3>2. CASE j < k
      <4>1. j \in 1..(n + 1)
        OBVIOUS
      <4> QED
        BY <1>4, <3>1, <3>2, <4>1
    <3>3. CASE ~(j < k)
      <4>1. j + 1 \in 1..(n + 1) /\ j + 1 > k /\ (j + 1) - 1 = j
        BY <1>k, <3>3
      <4> QED
        BY <1>4, <3>1, <4>1
    <3> QED
      BY <3>2, <3>3
  <2> QED
    BY <2>1, <2>2
<1>7. ASSUME NEW i \in 1..(n + 1), NEW j \in 1..(n + 1), i < j PROVE <<q[i], q[j]>> \in R
  <2>1. CASE j < k
    <3>1. i < k
      BY <1>7, <2>1, <1>k
    <3> QED
      BY <1>4, <1>7, <2>1, <3>1 DEF IsSorting
  <2>2. CASE j = k
    <3>1. i < k
      BY <1>7, <2>2
    <3> QED
      BY <1>3, <1>4, <2>2, <3>1
  <2>3. CASE j > k /\ i < k
    <3>1. /\ i \in 1..n /\ q[i] = p[i]
          /\ j - 1 \in 1..n /\ q[j] = p[j - 1] /\ i < j - 1
      BY <1>4, <1>k, <2>3
    <3> QED
      BY <3>1 DEF IsSorting
  <2>4. CASE j > k /\ i = k
    <3>1. q[i] = n + 1 /\ q[j] = p[j - 1] /\ j - 1 \in k..n
      BY <1>4, <1>k, <2>4
    <3> QED
      BY <1>k, <3>1
  <2>5. CASE j > k /\ i > k
    <3>1. /\ i - 1 \in 1..n /\ q[i] = p[i - 1]
          /\ j - 1 \in 1..n /\ q[j] = p[j - 1] /\ i - 1 < j - 1
      BY <1>4, <1>7, <2>5
    <3> QED
      BY <3>1 DEF IsSorting
  <2> QED
    BY <1>k, <2>1, <2>2, <2>3, <2>4, <2>5
<1> QED
  BY <1>5, <1>6, <1>7 DEF IsSorting

\* Whatever is totally ordered can be sorted.
LEMMA SortExists ==
  ASSUME NEW n \in Nat, NEW R,
         \A i, j \in 1..n : i # j => <<i, j>> \in R \/ <<j, i>> \in R,
         \A i, j, k \in 1..n : <<i, j>> \in R /\ <<j, k>> \in R => <<i, k>> \in R
  PROVE  \E p : IsSorting(p, n, R)
<1> DEFINE T == {m \in Nat : m <= n => \E p : IsSorting(p, m, R)}
<1>1. 0 \in T
  <2>1. IsSorting([i \in 1..0 |-> i], 0, R)
    BY DEF IsSorting
  <2> QED
    BY <2>1
<1>2. ASSUME NEW m \in T PROVE m + 1 \in T
  <2> SUFFICES ASSUME m + 1 <= n PROVE \E p : IsSorting(p, m + 1, R)
    OBVIOUS
  <2>1. PICK p : IsSorting(p, m, R)
    OBVIOUS
  <2>2. \A i \in 1..(m + 1) : i \in 1..n
    OBVIOUS
  <2>3. \A i, j \in 1..(m + 1) : i # j => <<i, j>> \in R \/ <<j, i>> \in R
    BY <2>2
  <2>4. \A i, j, k \in 1..(m + 1) : <<i, j>> \in R /\ <<j, k>> \in R => <<i, k>> \in R
    BY <2>2
  <2> QED
    BY <2>1, <2>3, <2>4, SortInsert
<1> HIDE DEF T
<1>3. T = Nat
  BY <1>1, <1>2, NatSetInduction DEF T
<1> QED
  BY <1>3 DEF T

IsAsymmetric(R, V) == \A x, y \in V : ~(<<x, y>> \in R /\ <<y, x>> \in R)

IsAscending(s, R) == \A i, j \in 1..Len(s) : i < j => <<s[i], s[j]>> \in R

\* There is one way to list a set in ascending order.
LEMMA SortedUnique ==
  ASSUME NEW V, NEW R, NEW s \in Seq(V), NEW t \in Seq(V), ToSet(s) = ToSet(t),
         IsAsymmetric(R, V), IsAscending(s, R), IsAscending(t, R)
  PROVE  s = t
<1> USE DEF IsAsymmetric, IsAscending
<1>0. /\ Len(s) \in Nat /\ DOMAIN s = 1..Len(s) /\ \A i \in 1..Len(s) : s[i] \in V
      /\ Len(t) \in Nat /\ DOMAIN t = 1..Len(t) /\ \A i \in 1..Len(t) : t[i] \in V
  BY LenProperties, ElementOfSeq
<1>s. ToSet(s) = {s[i] : i \in 1..Len(s)} /\ ToSet(t) = {t[i] : i \in 1..Len(t)}
  BY <1>0 DEF ToSet
<1>a. \A i \in 1..Len(s) : \E k \in 1..Len(t) : t[k] = s[i]
  <2> TAKE i \in 1..Len(s)
  <2>1. s[i] \in ToSet(t)
    BY <1>s
  <2> QED
    BY <1>s, <2>1
<1>b. \A i \in 1..Len(t) : \E k \in 1..Len(s) : s[k] = t[i]
  <2> TAKE i \in 1..Len(t)
  <2>1. t[i] \in ToSet(s)
    BY <1>s
  <2> QED
    BY <1>s, <2>1
\* No member comes twice.
<1>c. \A i, j \in 1..Len(s) : s[i] = s[j] => i = j
  <2> SUFFICES ASSUME NEW i \in 1..Len(s), NEW j \in 1..Len(s), s[i] = s[j], i # j PROVE FALSE
    OBVIOUS
  <2>1. s[i] \in V
    BY <1>0
  <2>2. i < j \/ j < i
    BY <1>0
  <2> QED
    BY <2>1, <2>2
<1>d. \A i, j \in 1..Len(t) : t[i] = t[j] => i = j
  <2> SUFFICES ASSUME NEW i \in 1..Len(t), NEW j \in 1..Len(t), t[i] = t[j], i # j PROVE FALSE
    OBVIOUS
  <2>1. t[i] \in V
    BY <1>0
  <2>2. i < j \/ j < i
    BY <1>0
  <2> QED
    BY <2>1, <2>2
<1> DEFINE T == {n \in Nat : \A i \in 1..n : i <= Len(s) => i <= Len(t) /\ t[i] = s[i]}
<1>1. 0 \in T
  OBVIOUS
<1>2. ASSUME NEW n \in T PROVE n + 1 \in T
  <2> SUFFICES ASSUME n + 1 <= Len(s) PROVE n + 1 <= Len(t) /\ t[n + 1] = s[n + 1]
    OBVIOUS
  <2>0. n + 1 \in 1..Len(s)
    OBVIOUS
  <2>1. PICK k \in 1..Len(t) : t[k] = s[n + 1]
    BY <1>a, <2>0
  <2>2. k >= n + 1
    <3> SUFFICES ASSUME k <= n PROVE FALSE
      BY <1>0
    <3>1. k \in 1..n /\ k \in 1..Len(s)
      BY <1>0
    <3>2. s[k] = s[n + 1]
      BY <2>1, <3>1
    <3> QED
      BY <1>c, <2>0, <3>1, <3>2
  <2>3. n + 1 \in 1..Len(t)
    BY <1>0, <2>2
  <2>4. PICK l \in 1..Len(s) : s[l] = t[n + 1]
    BY <1>b, <2>3
  <2>5. l >= n + 1
    <3> SUFFICES ASSUME l <= n PROVE FALSE
      BY <1>0
    <3>1. l \in 1..n /\ l \in 1..Len(t)
      BY <1>0
    <3>2. t[l] = t[n + 1]
      BY <2>4, <3>1
    <3> QED
      BY <1>d, <2>3, <3>1, <3>2
  <2>6. CASE k = n + 1
    BY <2>1, <2>3, <2>6
  <2>7. CASE l = n + 1
    BY <2>3, <2>4, <2>7
  <2>8. CASE k > n + 1 /\ l > n + 1
    <3>1. <<t[n + 1], s[n + 1]>> \in R
      BY <2>1, <2>3, <2>8
    <3>2. <<s[n + 1], t[n + 1]>> \in R
      BY <2>0, <2>4, <2>8
    <3> QED
      BY <1>0, <2>0, <2>3, <3>1, <3>2
  <2> QED
    BY <1>0, <2>2, <2>5, <2>6, <2>7, <2>8
<1> HIDE DEF T
<1>3. T = Nat
  BY <1>1, <1>2, NatSetInduction DEF T
<1>4. Len(s) <= Len(t) /\ \A i \in 1..Len(s) : t[i] = s[i]
  <2>1. \A i \in 1..Len(s) : i <= Len(t) /\ t[i] = s[i]
    BY <1>0, <1>3 DEF T
  <2>2. CASE Len(s) = 0
    BY <1>0, <2>1, <2>2
  <2>3. CASE Len(s) # 0
    <3>1. Len(s) \in 1..Len(s)
      BY <1>0, <2>3
    <3> QED
      BY <2>1, <3>1
  <2> QED
    BY <2>2, <2>3
<1>n. PICK a \in Nat, b \in Nat : a = Len(s) /\ b = Len(t)
  BY <1>0
<1>5. a = b
  <2> SUFFICES ASSUME a # b PROVE FALSE
    OBVIOUS
  <2>0. a <= b
    BY <1>4, <1>n
  <2>1. PICK h \in 1..b : h = a + 1
    BY <2>0
  <2>2. PICK k \in 1..a : s[k] = t[h]
    BY <1>b, <1>n
  <2>3. k \in 1..b /\ k # h
    BY <2>0, <2>1
  <2>4. t[k] = t[h]
    BY <1>4, <1>n, <2>2
  <2> QED
    BY <1>d, <1>n, <2>3, <2>4
<1> QED
  BY <1>4, <1>5, <1>n, SeqEqual

\* Of one more different things than a finite set has members, one is not in it.
LEMMA OneIsFree ==
  ASSUME NEW k \in Nat, NEW T, IsFiniteSet(T), Cardinality(T) <= k, NEW f,
         \A i, j \in 2..(k + 2) : f[i] = f[j] => i = j
  PROVE  \E i \in 2..(k + 2) : f[i] \notin T
<1> SUFFICES ASSUME \A i \in 2..(k + 2) : f[i] \in T PROVE FALSE
  OBVIOUS
<1> DEFINE g == [i \in 2..(k + 2) |-> f[i]]
<1>1. g \in [2..(k + 2) -> T] /\ \A i, j \in 2..(k + 2) : g[i] = g[j] => i = j
  OBVIOUS
<1>2. IsFiniteSet(2..(k + 2)) /\ Cardinality(2..(k + 2)) = k + 1
  <2>1. 2 \in Int /\ k + 2 \in Int /\ ~(2 > k + 2) /\ (k + 2) - 2 + 1 = k + 1
    OBVIOUS
  <2> QED
    BY <2>1, FS_Interval
<1>3. Cardinality(T) < Cardinality(2..(k + 2))
  BY <1>2, FS_CardinalityType
<1> HIDE DEF g
<1> QED
  BY <1>1, <1>2, <1>3, FS_PigeonHole

\* The members of a concatenation.
IsJoin(c, a, b) ==
  /\ Len(c) = Len(a) + Len(b)
  /\ DOMAIN c = 1..(Len(a) + Len(b))
  /\ \A i \in 1..Len(a) : c[i] = a[i]
  /\ \A i \in 1..Len(b) : c[Len(a) + i] = b[i]
  /\ \A k \in 1..(Len(a) + Len(b)) : k \in 1..Len(a) \/ \E i \in 1..Len(b) : k = Len(a) + i

LEMMA JoinFacts ==
  ASSUME NEW S, NEW a \in Seq(S), NEW b \in Seq(S)
  PROVE  a \o b \in Seq(S) /\ IsJoin(a \o b, a, b)
<1>1. PICK m \in Nat, n \in Nat : m = Len(a) /\ n = Len(b)
  BY LenProperties
<1>2. /\ a \o b \in Seq(S) /\ Len(a \o b) = m + n
      /\ \A i \in 1..(m + n) : (a \o b)[i] = IF i <= m THEN a[i] ELSE b[i - m]
  BY <1>1, ConcatProperties
<1>3. DOMAIN (a \o b) = 1..(m + n)
  BY <1>2, LenProperties
<1>4. \A i \in 1..m : (a \o b)[i] = a[i]
  BY <1>2
<1>5. \A i \in 1..n : (a \o b)[m + i] = b[i]
  <2> TAKE i \in 1..n
  <2>1. m + i \in 1..(m + n) /\ ~(m + i <= m) /\ (m + i) - m = i
    OBVIOUS
  <2> QED
    BY <1>2, <2>1
<1>6. \A k \in 1..(m + n) : k \in 1..m \/ \E i \in 1..n : k = m + i
  <2> TAKE k \in 1..(m + n)
  <2>1. CASE k <= m
    BY <2>1
  <2>2. CASE ~(k <= m)
    <3>1. k - m \in 1..n /\ k = m + (k - m)
      BY <2>2
    <3> QED
      BY <3>1
  <2> QED
    BY <2>1, <2>2
<1> QED
  BY <1>1, <1>2, <1>3, <1>4, <1>5, <1>6 DEF IsJoin
=============================================================================
