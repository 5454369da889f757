------------------------- MODULE SlaveTablesProofs -------------------------
(***************************************************************************)
(* Theorems about the tables: from the configuration source to the         *)
(* published variables and the prepared checks, for any number of slaves,  *)
(* any PDOs and any entries the source may declare.                        *)
(*                                                                         *)
(* The invariant follows the pipeline, one conjunct for each table: what   *)
(* was loaded is what the source declares (ConfigInv), the views are its   *)
(* entries, outputs first (TablesInv), the identities are the devices'     *)
(* (IdentitiesInv), every registered entry is where its object's bytes are *)
(* in the image of its direction (PlacedInv), and the checks are those of  *)
(* the configuration (PreparedInv).                                        *)
(*                                                                         *)
(* The model joins and filters sequences with FlattenSeq, which folds      *)
(* over them.  The first lemmas say what it gives; they are proved without *)
(* induction over data, by looking at the least number of elements at      *)
(* which the claim would fail (Climb).                                     *)
(***************************************************************************)
EXTENDS SlaveTables, FiniteSetTheorems, FunctionTheorems, SequenceTheorems, WellFoundedInduction, TLAPS

\* Induction up to n, as a statement about sets.
LEMMA Climb ==
    ASSUME NEW n \in Nat, NEW G, 0 \in G, \A i \in 0..(n - 1) : i \in G => i + 1 \in G
    PROVE  \A i \in 0..n : i \in G
<1> DEFINE Missing == {i \in 0..n : i \notin G}
           Above(i) == i..n
<1>1. SUFFICES ASSUME Missing # {} PROVE FALSE
  OBVIOUS
<1> DEFINE T == {Upto : Upto \in {0..i : i \in Missing}}
<1>2. T \subseteq FiniteSubsetsOf(0..n) /\ T # {}
  <2>1. ASSUME NEW i \in Missing PROVE 0..i \in FiniteSubsetsOf(0..n)
    <3>1. IsFiniteSet(0..i)
      BY FS_Interval
    <3> QED
      BY <3>1 DEF FiniteSubsetsOf
  <2> QED
    BY <1>1, <2>1
<1>3. PICK t \in T : \A u \in T : <<u, t>> \notin StrictSubsetOrdering(0..n)
  <2> HIDE DEF T
  <2> QED
    BY <1>2, WFMin, FS_StrictSubsetOrderingWellFounded
<1>4. PICK m \in Missing : t = 0..m
  OBVIOUS
<1>5. m # 0 /\ m - 1 \in 0..(n - 1) /\ m - 1 \in Missing
  OBVIOUS
<1>6. 0..(m - 1) \in T /\ <<0..(m - 1), t>> \in StrictSubsetOrdering(0..n)
  <2>1. 0..(m - 1) \in SUBSET (0..n) /\ 0..m \in SUBSET (0..n)
    BY <1>5
  <2>2. 0..(m - 1) \subseteq 0..m /\ m \in 0..m /\ m \notin 0..(m - 1)
    BY <1>5
  <2> QED
    BY <1>4, <1>5, <2>1, <2>2 DEF StrictSubsetOrdering
<1> QED
  BY <1>3, <1>6

\* A sequence given element by element.
LEMMA GivenByElements ==
    ASSUME NEW S, NEW n \in Nat, NEW f \in [1..n -> S]
    PROVE  f \in Seq(S) /\ Len(f) = n /\ DOMAIN f = 1..n
  BY SeqDef

-----------------------------------------------------------------------------
(* Sequences that are put together from pieces.                            *)

\* Nothing, joined, is nothing.
LEMMA FlattenNone == FlattenSeq(<<>>) = <<>>
  BY DEF FlattenSeq

\* The recursion of FlattenSeq has a solution.
LEMMA FlattenFunction ==
    ASSUME NEW S, NEW ss \in Seq(Seq(S)), ss # <<>>
    PROVE  \E f \in [1..Len(ss) -> Seq(S)] :
             /\ f[1] = ss[1] /\ \A i \in 2..Len(ss) : f[i] = f[i - 1] \o ss[i]
             /\ FlattenSeq(ss) = f[Len(ss)]
<1> DEFINE n == Len(ss)
           Solves(f, m) == /\ f \in [1..m -> Seq(S)] /\ f[1] = ss[1]
                           /\ \A i \in 2..m : f[i] = f[i - 1] \o ss[i]
           G == {m \in 0..(n - 1) : \E f \in [1..(m + 1) -> Seq(S)] : Solves(f, m + 1)}
<1>1. n \in Nat \ {0} /\ \A i \in 1..n : ss[i] \in Seq(S)
  BY EmptySeq, ElementOfSeq
<1> HIDE DEF n
<1>2. 0 \in G
  <2> DEFINE g == [i \in 1..1 |-> ss[1]]
  <2>1. ss[1] \in Seq(S)
    BY <1>1
  <2>2. g \in [1..1 -> Seq(S)] /\ g[1] = ss[1]
    BY <2>1
  <2>3. Solves(g, 1)
    BY <2>2
  <2>4. 0 \in 0..(n - 1) /\ 0 + 1 = 1
    BY <1>1
  <2> HIDE DEF g, Solves
  <2> QED
    BY <2>2, <2>3, <2>4
<1>3. ASSUME NEW m \in 0..(n - 2), m \in G PROVE m + 1 \in G
  <2>1. PICK f \in [1..(m + 1) -> Seq(S)] : Solves(f, m + 1)
    BY <1>3
  <2> DEFINE g == [i \in 1..(m + 2) |-> IF i = m + 2 THEN f[m + 1] \o ss[i] ELSE f[i]]
  <2>2. f[m + 1] \o ss[m + 2] \in Seq(S)
    BY <1>1, <2>1, ConcatProperties
  <2>3. g \in [1..(m + 2) -> Seq(S)]
    BY <2>1, <2>2
  <2>4. Solves(g, m + 2)
    <3>1. g[1] = ss[1]
      BY <2>1
    <3>2. ASSUME NEW i \in 2..(m + 2) PROVE g[i] = g[i - 1] \o ss[i]
      <4>0. m \in Nat
        OBVIOUS
      <4>1. CASE i = m + 2
        <5>1. i - 1 = m + 1 /\ m + 1 \in 1..(m + 2) /\ m + 2 \in 1..(m + 2) /\ m + 1 # m + 2
          BY <4>0, <4>1
        <5>2. g[m + 2] = f[m + 1] \o ss[m + 2] /\ g[m + 1] = f[m + 1]
          BY <5>1
        <5> HIDE DEF g
        <5> QED
          BY <4>1, <5>1, <5>2
      <4>2. CASE i # m + 2
        <5>1. i \in 2..(m + 1) /\ g[i] = f[i] /\ g[i - 1] = f[i - 1]
          BY <4>0, <4>2
        <5> HIDE DEF g
        <5> QED
          BY <5>1, <2>1
      <4> QED
        BY <4>1, <4>2
    <3> QED
      BY <2>3, <3>1, <3>2
  <2>5. m + 1 \in 0..(n - 1) /\ (m + 1) + 1 = m + 2
    BY <1>1
  <2> HIDE DEF g, Solves
  <2> QED
    BY <2>3, <2>4, <2>5
<1>4. n - 1 \in G
  <2> HIDE DEF G
  <2>1. n - 1 \in Nat /\ (n - 1) - 1 = n - 2 /\ n - 1 \in 0..(n - 1)
    BY <1>1
  <2>2. \A i \in 0..((n - 1) - 1) : i \in G => i + 1 \in G
    BY <2>1, <1>3
  <2>3. \A i \in 0..(n - 1) : i \in G
    BY <1>2, <2>1, <2>2, Climb
  <2> QED
    BY <2>1, <2>3
<1>5. PICK f \in [1..n -> Seq(S)] : Solves(f, n)
  <2>1. (n - 1) + 1 = n
    BY <1>1
  <2> HIDE DEF Solves
  <2> QED
    BY <1>4, <2>1
<1> DEFINE Step(g) == [i \in 1..n |-> IF i = 1 THEN ss[i] ELSE g[i - 1] \o ss[i]]
           c == CHOOSE g : g = Step(g)
<1>6. f = Step(f)
  <2>1. ASSUME NEW i \in 1..n PROVE f[i] = Step(f)[i]
    <3>1. CASE i = 1
      BY <1>5, <3>1
    <3>2. CASE i # 1
      <4>1. i \in 2..n
        BY <1>1, <3>2
      <4>2. Step(f)[i] = f[i - 1] \o ss[i]
        BY <3>2
      <4> QED
        BY <1>5, <4>1, <4>2
    <3> QED
      BY <3>1, <3>2
  <2> QED
    BY <2>1, <1>5
<1>7. c = Step(c)
  BY <1>6
<1>8. FlattenSeq(ss) = c[n]
  BY <1>1 DEF FlattenSeq, n
<1>9. \A i \in 0..(n - 1) : i \in {j \in 0..(n - 1) : c[j + 1] = f[j + 1]}
  <2> DEFINE E == {i \in 0..(n - 1) : c[i + 1] = f[i + 1]}
  <2>1. 0 \in E
    <3>1. Step(c)[1] = ss[1] /\ 0 \in 0..(n - 1) /\ 0 + 1 = 1
      <4>1. n \in Nat \ {0}
        BY <1>1
      <4> HIDE DEF n
      <4> QED
        BY <4>1
    <3>2. f[1] = ss[1]
      BY <1>5
    <3> HIDE DEF c, Step
    <3> QED
      BY <1>7, <3>1, <3>2
  <2>2. ASSUME NEW i \in 0..((n - 1) - 1), i \in E PROVE i + 1 \in E
    <3>1. i + 2 \in 2..n /\ i + 2 \in 1..n /\ (i + 2) - 1 = i + 1 /\ i + 2 # 1
      BY <1>1
    <3>2. c[i + 2] = c[i + 1] \o ss[i + 2]
      <4>1. Step(c)[i + 2] = c[i + 1] \o ss[i + 2]
        BY <3>1
      <4> HIDE DEF c, Step
      <4> QED
        BY <1>7, <4>1
    <3>3. f[i + 2] = f[i + 1] \o ss[i + 2]
      BY <1>5, <3>1
    <3>4. i + 1 \in 0..(n - 1) /\ (i + 1) + 1 = i + 2
      <4>1. n \in Nat
        BY <1>1
      <4> HIDE DEF n, c, Step
      <4> QED
        BY <4>1
    <3>5. c[i + 1] = f[i + 1]
      BY <2>2
    <3> HIDE DEF c
    <3> QED
      BY <3>2, <3>3, <3>4, <3>5
  <2> HIDE DEF E
  <2>3. n - 1 \in Nat
    BY <1>1
  <2>4. \A i \in 0..(n - 1) : i \in E
    BY <2>1, <2>2, <2>3, Climb
  <2> QED
    BY <2>4 DEF E
<1>10. c[n] = f[n]
  <2>1. n - 1 \in 0..(n - 1) /\ (n - 1) + 1 = n
    BY <1>1
  <2> HIDE DEF c
  <2> QED
    BY <1>9, <2>1
<1> QED
  BY <1>5, <1>8, <1>10 DEF n

\* One sequence, joined, is itself.
LEMMA FlattenOne ==
    ASSUME NEW S, NEW s \in Seq(S)
    PROVE  FlattenSeq(<<s>>) = s
<1> DEFINE ss == <<s>>
<1>1. ss \in Seq(Seq(S)) /\ ss # <<>> /\ Len(ss) = 1 /\ ss[1] = s
  OBVIOUS
<1> HIDE DEF ss
<1>2. FlattenSeq(ss) = s
  BY <1>1, FlattenFunction
<1> QED
  BY <1>2 DEF ss

\* A piece at the end.
LEMMA FlattenAppend ==
    ASSUME NEW S, NEW ss \in Seq(Seq(S)), NEW s \in Seq(S)
    PROVE  FlattenSeq(Append(ss, s)) = FlattenSeq(ss) \o s
<1> DEFINE n == Len(ss)
           tt == Append(ss, s)
<1>1. /\ tt \in Seq(Seq(S)) /\ tt # <<>> /\ Len(tt) = n + 1
      /\ \A i \in 1..n : tt[i] = ss[i]
      /\ tt[n + 1] = s /\ n \in Nat
  BY AppendProperties
<1>2. PICK f \in [1..(n + 1) -> Seq(S)] :
        /\ f[1] = tt[1] /\ \A i \in 2..(n + 1) : f[i] = f[i - 1] \o tt[i]
        /\ FlattenSeq(tt) = f[n + 1]
  <2> HIDE DEF tt
  <2>1. PICK f \in [1..Len(tt) -> Seq(S)] :
          /\ f[1] = tt[1] /\ \A i \in 2..Len(tt) : f[i] = f[i - 1] \o tt[i]
          /\ FlattenSeq(tt) = f[Len(tt)]
    BY <1>1, FlattenFunction
  <2> HIDE DEF n
  <2> QED
    BY <1>1, <2>1
<1>3. CASE n = 0
  <2>1. ss = <<>>
    BY <1>3, EmptySeq
  <2>2. FlattenSeq(tt) = s
    BY <1>1, <1>2, <1>3
  <2> QED
    BY <2>1, <2>2, FlattenNone, ConcatEmptySeq
<1>4. CASE n # 0
  <2>1. ss # <<>> /\ n \in Nat \ {0}
    BY <1>1, <1>4
  <2>2. PICK g \in [1..n -> Seq(S)] :
          /\ g[1] = ss[1] /\ \A i \in 2..n : g[i] = g[i - 1] \o ss[i]
          /\ FlattenSeq(ss) = g[n]
    BY <2>1, FlattenFunction
  <2> DEFINE E == {i \in 0..(n - 1) : f[i + 1] = g[i + 1]}
  <2> HIDE DEF n, tt
  <2>3. 0 \in E
    BY <1>1, <1>2, <2>1, <2>2
  <2>4. ASSUME NEW i \in 0..((n - 1) - 1), i \in E PROVE i + 1 \in E
    <3>1. /\ i + 2 \in 2..n /\ i + 2 \in 2..(n + 1) /\ i + 2 \in 1..n
          /\ (i + 2) - 1 = i + 1 /\ (i + 1) + 1 = i + 2 /\ i + 1 \in 0..(n - 1)
      BY <2>1
    <3>2. f[i + 2] = f[i + 1] \o tt[i + 2] /\ g[i + 2] = g[i + 1] \o ss[i + 2]
      BY <1>2, <2>2, <3>1
    <3> QED
      BY <1>1, <2>4, <3>1, <3>2
  <2>5. n - 1 \in Nat /\ n - 1 \in 0..(n - 1) /\ (n - 1) + 1 = n
    BY <2>1
  <2>6. \A i \in 0..(n - 1) : i \in E
    <3> HIDE DEF E
    <3> QED
      BY <2>3, <2>4, <2>5, Climb
  <2>7. f[n] = g[n]
    BY <2>5, <2>6
  <2>8. f[n + 1] = f[n] \o s
    <3>1. n + 1 \in 2..(n + 1) /\ (n + 1) - 1 = n
      BY <2>1
    <3> QED
      BY <1>1, <1>2, <3>1
  <2> QED
    BY <1>2, <2>2, <2>7, <2>8 DEF tt
<1> QED
  BY <1>3, <1>4

\* The first n + 1 pieces are the first n and one more.
LEMMA PrefixStep ==
    ASSUME NEW S, NEW s \in Seq(S), NEW n \in 0..(Len(s) - 1)
    PROVE  SubSeq(s, 1, n + 1) = Append(SubSeq(s, 1, n), s[n + 1])
<1>1. n + 1 \in 1..Len(s) /\ 1 \in 1..Len(s) /\ n + 1 \in 1..Len(s) /\ (n + 1) - 1 = n
  BY LenProperties
<1>2. SubSeq(s, 1, n + 1) = SubSeq(s, 1, n) \o <<s[n + 1]>>
  BY <1>1, SubSeqRecursiveSecond
<1>3. SubSeq(s, 1, n) \in Seq(S) /\ s[n + 1] \in S
  <2>1. \A i \in 1..n : s[i] \in S
    BY <1>1, ElementOfSeq
  <2> QED
    BY <1>1, <2>1, ElementOfSeq, SubSeqProperties
<1> QED
  BY <1>2, <1>3, AppendIsConcat

\* The first n elements of a sequence are a sequence of n.
LEMMA PrefixSeq ==
    ASSUME NEW S, NEW s \in Seq(S), NEW n \in 0..Len(s)
    PROVE  SubSeq(s, 1, n) \in Seq(S) /\ Len(SubSeq(s, 1, n)) = n
<1>1. Len(s) \in Nat /\ \A i \in 1..n : s[i] \in S
  BY LenProperties, ElementOfSeq
<1> QED
  BY <1>1, SubSeqProperties

\* The first none are nothing.
LEMMA PrefixNone ==
    ASSUME NEW s
    PROVE  SubSeq(s, 1, 0) = <<>>
  BY SubSeqEmpty

\* Induction over the prefixes of a sequence of pieces is what Climb gives.
LEMMA FlattenType ==
    ASSUME NEW S, NEW ss \in Seq(Seq(S))
    PROVE  FlattenSeq(ss) \in Seq(S)
<1>1. CASE ss = <<>>
  BY <1>1, FlattenNone, EmptySeq
<1>2. CASE ss # <<>>
  <2>1. Len(ss) \in Nat \ {0}
    BY <1>2, EmptySeq
  <2>2. PICK f \in [1..Len(ss) -> Seq(S)] : FlattenSeq(ss) = f[Len(ss)]
    BY <1>2, FlattenFunction
  <2>3. Len(ss) \in 1..Len(ss)
    BY <2>1
  <2>4. f[Len(ss)] \in Seq(S)
    BY <2>3
  <2> QED
    BY <2>2, <2>4, Zenon
<1> QED
  BY <1>1, <1>2

\* The pieces flattened up to the n-th.
Prefix(ss, n) == FlattenSeq(SubSeq(ss, 1, n))

\* What is joined of a sequence of sequences grows by one of them at a time.
LEMMA PrefixFacts ==
    ASSUME NEW S, NEW ss \in Seq(Seq(S))
    PROVE  /\ Prefix(ss, 0) = <<>>
           /\ Prefix(ss, Len(ss)) = FlattenSeq(ss)
           /\ \A n \in 0..Len(ss) : Prefix(ss, n) \in Seq(S) /\ Len(Prefix(ss, n)) \in Nat
           /\ \A n \in 0..(Len(ss) - 1) :
                /\ Prefix(ss, n + 1) = Prefix(ss, n) \o ss[n + 1]
                /\ Len(Prefix(ss, n + 1)) = Len(Prefix(ss, n)) + Len(ss[n + 1])
                /\ ss[n + 1] \in Seq(S) /\ Len(ss[n + 1]) \in Nat
<1>1. Prefix(ss, 0) = <<>>
  BY PrefixNone, FlattenNone DEF Prefix
<1>2. Prefix(ss, Len(ss)) = FlattenSeq(ss)
  BY SubSeqFull DEF Prefix
<1>3. ASSUME NEW n \in 0..Len(ss)
      PROVE  Prefix(ss, n) \in Seq(S) /\ Len(Prefix(ss, n)) \in Nat
  <2>1. SubSeq(ss, 1, n) \in Seq(Seq(S))
    BY PrefixSeq
  <2>2. FlattenSeq(SubSeq(ss, 1, n)) \in Seq(S)
    BY <2>1, FlattenType
  <2> QED
    BY <2>2, LenProperties DEF Prefix
<1>4. ASSUME NEW n \in 0..(Len(ss) - 1)
      PROVE  /\ Prefix(ss, n + 1) = Prefix(ss, n) \o ss[n + 1]
             /\ Len(Prefix(ss, n + 1)) = Len(Prefix(ss, n)) + Len(ss[n + 1])
             /\ ss[n + 1] \in Seq(S) /\ Len(ss[n + 1]) \in Nat
  <2>1. Len(ss) \in Nat /\ n \in 0..Len(ss) /\ n + 1 \in 1..Len(ss)
    BY LenProperties
  <2>2. ss[n + 1] \in Seq(S) /\ Len(ss[n + 1]) \in Nat
    <3>1. ss[n + 1] \in Seq(S)
      BY <2>1, ElementOfSeq
    <3> QED
      BY <3>1, LenProperties
  <2>3. SubSeq(ss, 1, n) \in Seq(Seq(S))
    BY <2>1, PrefixSeq
  <2>4. SubSeq(ss, 1, n + 1) = Append(SubSeq(ss, 1, n), ss[n + 1])
    BY PrefixStep
  <2>5. Prefix(ss, n + 1) = Prefix(ss, n) \o ss[n + 1]
    BY <2>2, <2>3, <2>4, FlattenAppend DEF Prefix
  <2> QED
    BY <1>3, <2>1, <2>2, <2>5, ConcatProperties
<1> QED
  BY <1>1, <1>2, <1>3, <1>4

\* Where the k-th piece is in the whole.
LEMMA Segment ==
    ASSUME NEW S, NEW ss \in Seq(Seq(S)), NEW k \in 1..Len(ss)
    PROVE  /\ Len(Prefix(ss, k)) = Len(Prefix(ss, k - 1)) + Len(ss[k])
           /\ Len(Prefix(ss, k)) <= Len(FlattenSeq(ss))
           /\ \A x \in 1..Len(ss[k]) :
                FlattenSeq(ss)[Len(Prefix(ss, k - 1)) + x] = ss[k][x]
<1> DEFINE P(n) == Prefix(ss, n)
           size(n) == Len(P(n))
           n0 == Len(ss) - k
           base == size(k - 1)
           own == Len(ss[k])
           G == {m \in 0..n0 :
                   /\ size(k) <= size(k + m)
                   /\ \A x \in 1..own : P(k + m)[base + x] = ss[k][x]}
<1>1. /\ Len(ss) \in Nat /\ k - 1 \in 0..(Len(ss) - 1) /\ (k - 1) + 1 = k /\ k \in Nat
      /\ n0 \in Nat /\ n0 \in 0..n0 /\ k + n0 = Len(ss) /\ k \in 0..Len(ss)
  BY LenProperties
<1>2. /\ P(k) = P(k - 1) \o ss[k] /\ size(k) = base + own
      /\ ss[k] \in Seq(S) /\ own \in Nat /\ P(k - 1) \in Seq(S) /\ base \in Nat
      /\ size(k) \in Nat
  <2> HIDE DEF P
  <2>1. \A n \in 0..(Len(ss) - 1) :
          /\ P(n + 1) = P(n) \o ss[n + 1] /\ Len(P(n + 1)) = Len(P(n)) + Len(ss[n + 1])
          /\ ss[n + 1] \in Seq(S) /\ Len(ss[n + 1]) \in Nat
    BY PrefixFacts DEF P
  <2>2. k - 1 \in 0..Len(ss) /\ \A n \in 0..Len(ss) : P(n) \in Seq(S) /\ Len(P(n)) \in Nat
    BY <1>1, PrefixFacts DEF P
  <2> QED
    BY <1>1, <2>1, <2>2
<1>3. \A m \in 0..n0 : P(k + m) \in Seq(S) /\ size(k + m) \in Nat
  BY <1>1, PrefixFacts
<1>4. ASSUME NEW m \in 0..(n0 - 1)
      PROVE  /\ P(k + (m + 1)) = P(k + m) \o ss[k + (m + 1)]
             /\ size(k + (m + 1)) = size(k + m) + Len(ss[k + (m + 1)])
             /\ ss[k + (m + 1)] \in Seq(S) /\ Len(ss[k + (m + 1)]) \in Nat
  <2>1. k + m \in 0..(Len(ss) - 1) /\ (k + m) + 1 = k + (m + 1)
    BY <1>1
  <2> QED
    BY <2>1, PrefixFacts
<1>5. \A x \in 1..own : P(k)[base + x] = ss[k][x]
  <2> HIDE DEF P
  <2> QED
    BY <1>2, ConcatProperties
<1> HIDE DEF P, size, base, own
<1>6. 0 \in G
  <2>1. k + 0 = k /\ 0 \in 0..n0 /\ size(k) <= size(k)
    BY <1>1, <1>2
  <2> QED
    BY <2>1, <1>5
<1>7. ASSUME NEW m \in 0..(n0 - 1), m \in G PROVE m + 1 \in G
  <2>1. m + 1 \in 0..n0 /\ m \in 0..n0
    BY <1>1
  <2>2. size(k) <= size(k + m) /\ size(k + m) \in Nat /\ P(k + m) \in Seq(S)
    BY <1>3, <1>7, <2>1
  <2> DEFINE next == ss[k + (m + 1)]
  <2>a. /\ P(k + (m + 1)) = P(k + m) \o next
        /\ size(k + (m + 1)) = size(k + m) + Len(next)
        /\ next \in Seq(S) /\ Len(next) \in Nat
    BY <1>4
  <2> HIDE DEF next
  <2>3. ASSUME NEW x \in 1..own PROVE P(k + (m + 1))[base + x] = ss[k][x]
    <3>1. base + x \in 1..size(k + m)
      BY <1>2, <2>2
    <3>2. P(k + (m + 1))[base + x] = P(k + m)[base + x]
      <4>1. base + x \in 1..(Len(P(k + m)) + Len(next)) /\ base + x <= Len(P(k + m))
        BY <2>a, <2>2, <3>1 DEF size
      <4>2. (P(k + m) \o next)[base + x] = P(k + m)[base + x]
        BY <2>a, <2>2, <4>1, ConcatProperties
      <4> QED
        BY <2>a, <4>2
    <3> QED
      BY <1>7, <3>2
  <2>4. size(k) <= size(k + (m + 1))
    BY <1>2, <2>a, <2>2
  <2> QED
    BY <2>1, <2>3, <2>4
<1>8. n0 \in G
  <2> HIDE DEF G
  <2> QED
    BY <1>1, <1>6, <1>7, Climb
<1>9. P(k + n0) = FlattenSeq(ss)
  BY <1>1, PrefixFacts DEF P
<1> HIDE DEF n0
<1> QED
  BY <1>1, <1>2, <1>8, <1>9 DEF P, base, size, own

\* Joining goes through concatenation.
LEMMA FlattenConcat ==
    ASSUME NEW S, NEW ss \in Seq(Seq(S)), NEW tt \in Seq(Seq(S))
    PROVE  FlattenSeq(ss \o tt) = FlattenSeq(ss) \o FlattenSeq(tt)
<1> DEFINE n == Len(tt)
           u(m) == SubSeq(tt, 1, m)
           G == {m \in 0..n : FlattenSeq(ss \o u(m)) = FlattenSeq(ss) \o Prefix(tt, m)}
<1>1. n \in Nat /\ FlattenSeq(ss) \in Seq(S)
  BY LenProperties, FlattenType
<1> HIDE DEF n
<1>2. 0 \in G
  <2>1. ss \o u(0) = ss /\ Prefix(tt, 0) = <<>>
    BY PrefixNone, ConcatEmptySeq, FlattenNone DEF Prefix
  <2>2. FlattenSeq(ss) \o <<>> = FlattenSeq(ss)
    BY <1>1, ConcatEmptySeq
  <2>3. FlattenSeq(ss \o u(0)) = FlattenSeq(ss) \o Prefix(tt, 0)
    <3> HIDE DEF u
    <3> QED
      BY <2>1, <2>2, Zenon
  <2>4. 0 \in 0..n
    BY <1>1
  <2> HIDE DEF u
  <2> QED
    BY <2>3, <2>4
<1>3. ASSUME NEW m \in 0..(n - 1), m \in G PROVE m + 1 \in G
  <2> DEFINE x == tt[m + 1]
  <2>1. m \in 0..(Len(tt) - 1) /\ m \in 0..Len(tt) /\ m + 1 \in 1..Len(tt) /\ m + 1 \in 0..n
    BY <1>1 DEF n
  <2>2. x \in Seq(S) /\ u(m) \in Seq(Seq(S)) /\ u(m + 1) = Append(u(m), x)
    BY <2>1, ElementOfSeq, PrefixSeq, PrefixStep
  <2>3. Prefix(tt, m + 1) = Prefix(tt, m) \o x /\ Prefix(tt, m) \in Seq(S)
    BY <2>1, PrefixFacts
  <2> HIDE DEF x, u
  <2>4. <<x>> \in Seq(Seq(S))
    BY <2>2
  <2>5. ss \o u(m + 1) = Append(ss \o u(m), x)
    <3>1. u(m + 1) = u(m) \o <<x>>
      BY <2>2, AppendIsConcat
    <3>2. ss \o (u(m) \o <<x>>) = (ss \o u(m)) \o <<x>>
      BY <2>2, <2>4, ConcatAssociative
    <3>3. ss \o u(m) \in Seq(Seq(S))
      BY <2>2, ConcatProperties
    <3>4. (ss \o u(m)) \o <<x>> = Append(ss \o u(m), x)
      BY <2>2, <3>3, AppendIsConcat
    <3> QED
      BY <3>1, <3>2, <3>4
  <2>6. FlattenSeq(ss \o u(m + 1)) = FlattenSeq(ss \o u(m)) \o x
    <3>1. ss \o u(m) \in Seq(Seq(S))
      BY <2>2, ConcatProperties
    <3> QED
      BY <2>2, <2>5, <3>1, FlattenAppend
  <2>7. (FlattenSeq(ss) \o Prefix(tt, m)) \o x = FlattenSeq(ss) \o (Prefix(tt, m) \o x)
    <3> DEFINE s1 == FlattenSeq(ss)
               s2 == Prefix(tt, m)
    <3>1. s1 \in Seq(S) /\ s2 \in Seq(S)
      BY <1>1, <2>3
    <3> HIDE DEF s1, s2
    <3>2. x \in Seq(S)
      BY <2>2
    <3>3. (s1 \o s2) \o x = s1 \o (s2 \o x)
      BY <3>1, <3>2, ConcatAssociative
    <3> QED
      BY <3>3 DEF s1, s2
  <2> QED
    BY <1>3, <2>1, <2>3, <2>6, <2>7
<1>4. n \in G
  <2>1. \A m \in 0..n : m \in G
    <3> HIDE DEF G
    <3> QED
      BY <1>1, <1>2, <1>3, Climb
  <2> QED
    BY <1>1, <2>1
<1>5. u(n) = tt /\ Prefix(tt, n) = FlattenSeq(tt)
  BY SubSeqFull, PrefixFacts DEF n
<1> QED
  BY <1>4, <1>5

\* Two sequences, joined, are one after the other.
LEMMA FlattenPair ==
    ASSUME NEW S, NEW a \in Seq(S), NEW b \in Seq(S)
    PROVE  FlattenSeq(<<a, b>>) = a \o b
<1>1. <<a>> \in Seq(Seq(S))
  <2>1. Append(<<>>, a) \in Seq(Seq(S)) /\ Append(<<>>, a) = <<a>>
    BY EmptySeq, AppendProperties
  <2> QED
    BY <2>1
<1>2. Append(<<a>>, b) = <<a, b>>
  <2>1. Append(<<a>>, b) = [i \in 1..2 |-> IF i = 1 THEN a ELSE b]
    BY <1>1, AppendProperties, SeqEqual
  <2>2. <<a, b>> = [i \in 1..2 |-> IF i = 1 THEN a ELSE b]
    OBVIOUS
  <2> QED
    BY <2>1, <2>2
<1> QED
  BY <1>1, <1>2, FlattenAppend, FlattenOne

\* A function that can be applied piece by piece.
Piecewise(H, S) ==
    /\ H[<<>>] = <<>>
    /\ \A a, b \in Seq(S) : H[a \o b] = H[a] \o H[b]

\* The pieces tt are those of ss, H applied to each.
Through(H, ss, tt) == Len(tt) = Len(ss) /\ \A i \in 1..Len(ss) : tt[i] = H[ss[i]]

\* What goes through concatenation goes through joining.
LEMMA FlattenThrough ==
    ASSUME NEW S, NEW T, NEW H, Piecewise(H, S),
           NEW ss \in Seq(Seq(S)), NEW tt \in Seq(Seq(T)), Through(H, ss, tt)
    PROVE  FlattenSeq(tt) = H[FlattenSeq(ss)]
<1> DEFINE n == Len(ss)
           G == {m \in 0..n : Prefix(tt, m) = H[Prefix(ss, m)]}
<1>1. n \in Nat /\ Len(tt) = n
  BY LenProperties DEF Through
<1>2. 0 \in G
  BY <1>1, PrefixFacts DEF Piecewise
<1> HIDE DEF n
<1>3. ASSUME NEW m \in 0..(n - 1), m \in G PROVE m + 1 \in G
  <2>1. m \in 0..(Len(ss) - 1) /\ m \in 0..Len(ss) /\ m + 1 \in 1..Len(ss) /\ m + 1 \in 0..n
    BY <1>1 DEF n
  <2>2. /\ Prefix(ss, m + 1) = Prefix(ss, m) \o ss[m + 1]
        /\ Prefix(ss, m) \in Seq(S) /\ ss[m + 1] \in Seq(S)
    BY <2>1, PrefixFacts
  <2>3. Prefix(tt, m + 1) = Prefix(tt, m) \o tt[m + 1]
    BY <1>1, <2>1, PrefixFacts DEF n
  <2>4. tt[m + 1] = H[ss[m + 1]]
    BY <2>1 DEF Through
  <2>5. H[Prefix(ss, m) \o ss[m + 1]] = H[Prefix(ss, m)] \o H[ss[m + 1]]
    BY <2>2 DEF Piecewise
  <2> QED
    BY <1>3, <2>1, <2>2, <2>3, <2>4, <2>5
<1>4. n \in G
  <2>1. \A m \in 0..n : m \in G
    <3> HIDE DEF G
    <3> QED
      BY <1>1, <1>2, <1>3, Climb
  <2> QED
    BY <1>1, <2>1
<1> QED
  BY <1>1, <1>4, PrefixFacts DEF n

\* Pieces that are all empty, and pieces that are all but one.
LEMMA FlattenEmpty ==
    ASSUME NEW S, NEW ss \in Seq(Seq(S)), \A i \in 1..Len(ss) : ss[i] = <<>>
    PROVE  FlattenSeq(ss) = <<>>
<1> DEFINE n == Len(ss)
           G == {m \in 0..n : Prefix(ss, m) = <<>>}
<1>1. n \in Nat
  BY LenProperties
<1>2. 0 \in G
  BY <1>1, PrefixFacts
<1> HIDE DEF n
<1>3. ASSUME NEW m \in 0..(n - 1), m \in G PROVE m + 1 \in G
  <2>1. m \in 0..(Len(ss) - 1) /\ m + 1 \in 1..Len(ss) /\ m + 1 \in 0..n
    BY <1>1 DEF n
  <2>2. Prefix(ss, m + 1) = Prefix(ss, m) \o ss[m + 1] /\ ss[m + 1] = <<>>
    BY <2>1, PrefixFacts
  <2>3. <<>> \o <<>> = <<>>
    BY EmptySeq, ConcatEmptySeq
  <2> QED
    BY <1>3, <2>1, <2>2, <2>3
<1>4. n \in G
  <2>1. \A m \in 0..n : m \in G
    <3> HIDE DEF G
    <3> QED
      BY <1>1, <1>2, <1>3, Climb
  <2> QED
    BY <1>1, <2>1
<1> QED
  BY <1>4, PrefixFacts DEF n

\* Where all but one are empty, that one is what joining gives.
LEMMA FlattenOnly ==
    ASSUME NEW S, NEW ss \in Seq(Seq(S)), NEW k \in 1..Len(ss),
           \A i \in 1..Len(ss) : i # k => ss[i] = <<>>
    PROVE  FlattenSeq(ss) = ss[k]
<1> DEFINE n == Len(ss)
           G == {m \in 0..n : Prefix(ss, m) = IF m < k THEN <<>> ELSE ss[k]}
<1>1. n \in Nat /\ k \in Nat /\ 0 < k /\ ss[k] \in Seq(S) /\ ~ (n < k)
  BY LenProperties, ElementOfSeq
<1>2. 0 \in G
  BY <1>1, PrefixFacts
<1> HIDE DEF n
<1>3. ASSUME NEW m \in 0..(n - 1), m \in G PROVE m + 1 \in G
  <2>1. m \in 0..(Len(ss) - 1) /\ m + 1 \in 1..Len(ss) /\ m + 1 \in 0..n
    BY <1>1 DEF n
  <2>2. Prefix(ss, m + 1) = Prefix(ss, m) \o ss[m + 1]
    BY <2>1, PrefixFacts
  <2>3. CASE m + 1 = k
    <3>1. Prefix(ss, m) = <<>> /\ ~ (m + 1 < k)
      BY <1>1, <1>3, <2>3
    <3>2. <<>> \o ss[k] = ss[k]
      BY <1>1, ConcatEmptySeq
    <3> QED
      BY <2>1, <2>2, <2>3, <3>1, <3>2
  <2>4. CASE m + 1 # k
    <3>1. ss[m + 1] = <<>> /\ (m + 1 < k <=> m < k)
      BY <1>1, <2>1, <2>4
    <3>2. <<>> \o <<>> = <<>> /\ ss[k] \o <<>> = ss[k]
      BY <1>1, EmptySeq, ConcatEmptySeq
    <3>3. Prefix(ss, m + 1) = Prefix(ss, m)
      BY <1>3, <2>2, <3>1, <3>2
    <3> QED
      BY <1>3, <2>1, <3>1, <3>3
  <2> QED
    BY <2>3, <2>4
<1>4. n \in G
  <2>1. \A m \in 0..n : m \in G
    <3> HIDE DEF G
    <3> QED
      BY <1>1, <1>2, <1>3, Climb
  <2> QED
    BY <1>1, <2>1
<1> QED
  BY <1>1, <1>4, PrefixFacts DEF n

\* F applied to every element of s.
Maps(F, S, T) == \A x \in S : F[x] \in T

Each(F, s) == [i \in DOMAIN s |-> F[s[i]]]

\* A function applied to each element, element by element.
LEMMA EachFacts ==
    ASSUME NEW S, NEW T, NEW F, Maps(F, S, T), NEW s \in Seq(S)
    PROVE  /\ Each(F, s) \in Seq(T) /\ Len(Each(F, s)) = Len(s)
           /\ \A i \in 1..Len(s) : Each(F, s)[i] = F[s[i]]
<1>1. Len(s) \in Nat /\ DOMAIN s = 1..Len(s) /\ \A i \in 1..Len(s) : s[i] \in S
  BY LenProperties, ElementOfSeq
<1> DEFINE g == [i \in 1..Len(s) |-> F[s[i]]]
<1>2. g \in [1..Len(s) -> T] /\ \A i \in 1..Len(s) : g[i] = F[s[i]]
  BY <1>1 DEF Maps
<1>3. Each(F, s) = g
  BY <1>1 DEF Each
<1> HIDE DEF g
<1>4. g \in Seq(T) /\ Len(g) = Len(s)
  BY <1>1, <1>2, GivenByElements
<1> QED
  BY <1>2, <1>3, <1>4

\* Applied to each element before joining or after, it is the same.
LEMMA FlattenEach ==
    ASSUME NEW S, NEW T, NEW F, Maps(F, S, T), NEW ss \in Seq(Seq(S))
    PROVE  FlattenSeq([n \in DOMAIN ss |-> Each(F, ss[n])]) = Each(F, FlattenSeq(ss))
<1> DEFINE H == [s \in Seq(S) |-> Each(F, s)]
           tt == [n \in DOMAIN ss |-> Each(F, ss[n])]
<1>2. Piecewise(H, S)
  <2>1. Each(F, <<>>) = <<>>
    <3>1. <<>> \in Seq(S) /\ Len(<<>>) = 0
      BY EmptySeq
    <3> DEFINE e == <<>>
    <3> HIDE DEF e
    <3>2. e \in Seq(S)
      BY <3>1 DEF e
    <3>3. Each(F, e) \in Seq(T) /\ Len(Each(F, e)) = Len(e)
      BY <3>2, EachFacts
    <3> QED
      BY <3>1, <3>3, EmptySeq DEF e
  <2>2. ASSUME NEW a \in Seq(S), NEW b \in Seq(S)
        PROVE  Each(F, a \o b) = Each(F, a) \o Each(F, b)
    <3> DEFINE x == Each(F, a)
               y == Each(F, b)
               z == Each(F, a \o b)
    <3>1. a \o b \in Seq(S) /\ Len(a \o b) = Len(a) + Len(b)
      BY ConcatProperties
    <3>2. /\ x \in Seq(T) /\ Len(x) = Len(a) /\ \A i \in 1..Len(a) : x[i] = F[a[i]]
          /\ y \in Seq(T) /\ Len(y) = Len(b) /\ \A i \in 1..Len(b) : y[i] = F[b[i]]
          /\ Len(a) \in Nat /\ Len(b) \in Nat
      <4>1. x \in Seq(T) /\ Len(x) = Len(a) /\ \A i \in 1..Len(a) : x[i] = F[a[i]]
        BY EachFacts
      <4>2. y \in Seq(T) /\ Len(y) = Len(b) /\ \A i \in 1..Len(b) : y[i] = F[b[i]]
        BY EachFacts
      <4>3. Len(a) \in Nat /\ Len(b) \in Nat
        BY LenProperties
      <4> HIDE DEF x, y
      <4> QED
        BY <4>1, <4>2, <4>3
    <3>3. z \in Seq(T) /\ Len(z) = Len(a) + Len(b)
          /\ \A i \in 1..(Len(a) + Len(b)) : z[i] = F[(a \o b)[i]]
      <4> DEFINE c == a \o b
      <4>1. c \in Seq(S) /\ Len(c) = Len(a) + Len(b)
        BY <3>1
      <4> HIDE DEF c
      <4>2. Each(F, c) \in Seq(T) /\ Len(Each(F, c)) = Len(c)
            /\ \A i \in 1..Len(c) : Each(F, c)[i] = F[c[i]]
        BY <4>1, EachFacts
      <4> QED
        BY <4>1, <4>2 DEF c
    <3> HIDE DEF x, y, z
    <3>4. /\ x \o y \in Seq(T) /\ Len(x \o y) = Len(a) + Len(b)
          /\ \A i \in 1..(Len(a) + Len(b)) :
               (x \o y)[i] = IF i <= Len(a) THEN x[i] ELSE y[i - Len(a)]
      <4>1. /\ x \o y \in Seq(T) /\ Len(x \o y) = Len(x) + Len(y)
            /\ \A i \in 1..(Len(x) + Len(y)) :
                 (x \o y)[i] = IF i <= Len(x) THEN x[i] ELSE y[i - Len(x)]
        <5>1. x \in Seq(T) /\ y \in Seq(T)
          BY <3>2
        <5> QED
          BY <5>1, ConcatProperties
      <4>2. Len(x) = Len(a) /\ Len(y) = Len(b)
        BY <3>2
      <4> QED
        BY <4>1, <4>2
    <3>5. ASSUME NEW i \in 1..(Len(a) + Len(b)) PROVE z[i] = (x \o y)[i]
      <4>1. (a \o b)[i] = IF i <= Len(a) THEN a[i] ELSE b[i - Len(a)]
        BY ConcatProperties
      <4>2. z[i] = F[(a \o b)[i]]
        BY <3>3
      <4>3. CASE i <= Len(a)
        BY <3>2, <3>4, <4>1, <4>2, <4>3
      <4>4. CASE ~ (i <= Len(a))
        <5>1. i - Len(a) \in 1..Len(b)
          BY <3>2, <4>4
        <5> QED
          BY <3>2, <3>4, <4>1, <4>2, <4>4, <5>1
      <4> QED
        BY <4>3, <4>4
    <3>6. z = x \o y
      BY <3>3, <3>4, <3>5, SeqEqual
    <3> QED
      BY <3>6 DEF x, y, z
  <2>3. ASSUME NEW a \in Seq(S), NEW b \in Seq(S) PROVE H[a \o b] = H[a] \o H[b]
    <3>1. a \o b \in Seq(S)
      BY ConcatProperties
    <3> QED
      BY <2>2, <3>1
  <2>4. H[<<>>] = <<>>
    BY <2>1, EmptySeq
  <2> HIDE DEF H
  <2> QED
    BY <2>3, <2>4 DEF Piecewise
<1>3. tt \in Seq(Seq(T)) /\ Len(tt) = Len(ss) /\ \A i \in 1..Len(ss) : tt[i] = Each(F, ss[i])
  <2>1. Len(ss) \in Nat /\ DOMAIN ss = 1..Len(ss) /\ \A i \in 1..Len(ss) : ss[i] \in Seq(S)
    BY LenProperties, ElementOfSeq
  <2>2. \A i \in 1..Len(ss) : Each(F, ss[i]) \in Seq(T)
    BY <2>1, EachFacts
  <2> DEFINE g == [n \in 1..Len(ss) |-> Each(F, ss[n])]
  <2>3. g \in [1..Len(ss) -> Seq(T)] /\ \A i \in 1..Len(ss) : g[i] = Each(F, ss[i])
    BY <2>2
  <2>4. tt = g
    BY <2>1
  <2> HIDE DEF g, tt
  <2>5. g \in Seq(Seq(T)) /\ Len(g) = Len(ss)
    BY <2>1, <2>3, GivenByElements
  <2> QED
    BY <2>3, <2>4, <2>5
<1>4. \A i \in 1..Len(ss) : tt[i] = H[ss[i]]
  BY <1>3, ElementOfSeq
<1>5. FlattenSeq(ss) \in Seq(S)
  BY FlattenType
<1>6. FlattenSeq(tt) = H[FlattenSeq(ss)]
  <2> HIDE DEF H, tt
  <2>1. tt \in Seq(Seq(T)) /\ Len(tt) = Len(ss)
    BY <1>3
  <2>2. Through(H, ss, tt)
    BY <1>4, <2>1 DEF Through
  <2> QED
    BY <1>2, <2>1, <2>2, FlattenThrough
<1> QED
  BY <1>5, <1>6

-----------------------------------------------------------------------------
(* What Pick leaves of a sequence.                                         *)

Pieces(s, I) == [i \in DOMAIN s |-> IF i \in I THEN <<s[i]>> ELSE <<>>]

\* Picking elements is joining one-element and empty sequences.
LEMMA PiecesFacts ==
    ASSUME NEW S, NEW s \in Seq(S), NEW I
    PROVE  /\ Pick(s, I) = FlattenSeq(Pieces(s, I))
           /\ Pieces(s, I) \in Seq(Seq(S)) /\ Len(Pieces(s, I)) = Len(s)
           /\ \A i \in 1..Len(s) : Pieces(s, I)[i] = IF i \in I THEN <<s[i]>> ELSE <<>>
           /\ Pick(s, I) \in Seq(S)
<1>1. Len(s) \in Nat /\ DOMAIN s = 1..Len(s) /\ \A i \in 1..Len(s) : s[i] \in S
  BY LenProperties, ElementOfSeq
<1>2. ASSUME NEW i \in 1..Len(s) PROVE (IF i \in I THEN <<s[i]>> ELSE <<>>) \in Seq(S)
  BY <1>1
<1>4. Pieces(s, I) \in Seq(Seq(S)) /\ Len(Pieces(s, I)) = Len(s)
  <2> DEFINE g == [i \in 1..Len(s) |-> IF i \in I THEN <<s[i]>> ELSE <<>>]
  <2>1. g \in [1..Len(s) -> Seq(S)]
    BY <1>2
  <2>2. Pieces(s, I) = g
    BY <1>1 DEF Pieces
  <2> HIDE DEF g
  <2> QED
    BY <1>1, <2>1, <2>2, GivenByElements
<1>5. Pick(s, I) = FlattenSeq(Pieces(s, I))
  BY DEF Pick, Pieces
<1> QED
  BY <1>1, <1>4, <1>5, FlattenType DEF Pieces

\* K is I among the places of a, and J among those of b, in a \o b.
Splits(K, a, I, b, J) ==
    /\ \A i \in 1..Len(a) : i \in K <=> i \in I
    /\ \A j \in 1..Len(b) : Len(a) + j \in K <=> j \in J

\* Picking from a concatenation is picking from its parts.
LEMMA PickConcat ==
    ASSUME NEW S, NEW a \in Seq(S), NEW b \in Seq(S), NEW I, NEW J, NEW K, Splits(K, a, I, b, J)
    PROVE  Pick(a \o b, K) = Pick(a, I) \o Pick(b, J)
<1> DEFINE c == a \o b
           x == Pieces(a, I)
           y == Pieces(b, J)
           z == Pieces(c, K)
<1>1. /\ c \in Seq(S) /\ Len(c) = Len(a) + Len(b) /\ Len(a) \in Nat /\ Len(b) \in Nat
      /\ \A i \in 1..(Len(a) + Len(b)) : c[i] = IF i <= Len(a) THEN a[i] ELSE b[i - Len(a)]
  BY ConcatProperties, LenProperties
<1> HIDE DEF c
<1>2. /\ x \in Seq(Seq(S)) /\ Len(x) = Len(a)
      /\ \A i \in 1..Len(a) : x[i] = IF i \in I THEN <<a[i]>> ELSE <<>>
      /\ y \in Seq(Seq(S)) /\ Len(y) = Len(b)
      /\ \A i \in 1..Len(b) : y[i] = IF i \in J THEN <<b[i]>> ELSE <<>>
  BY PiecesFacts
<1>3. /\ z \in Seq(Seq(S)) /\ Len(z) = Len(a) + Len(b)
      /\ \A i \in 1..(Len(a) + Len(b)) : z[i] = IF i \in K THEN <<c[i]>> ELSE <<>>
  <2>1. /\ z \in Seq(Seq(S)) /\ Len(z) = Len(c)
        /\ \A i \in 1..Len(c) : z[i] = IF i \in K THEN <<c[i]>> ELSE <<>>
    BY <1>1, PiecesFacts
  <2> HIDE DEF z
  <2> QED
    BY <1>1, <2>1
<1>4. /\ Pick(a, I) = FlattenSeq(x) /\ Pick(b, J) = FlattenSeq(y) /\ Pick(c, K) = FlattenSeq(z)
  BY <1>1, PiecesFacts
<1> HIDE DEF x, y, z
<1>5. /\ x \o y \in Seq(Seq(S)) /\ Len(x \o y) = Len(a) + Len(b)
      /\ \A i \in 1..(Len(a) + Len(b)) :
           (x \o y)[i] = IF i <= Len(a) THEN x[i] ELSE y[i - Len(a)]
  <2>1. /\ x \o y \in Seq(Seq(S)) /\ Len(x \o y) = Len(x) + Len(y)
        /\ \A i \in 1..(Len(x) + Len(y)) :
             (x \o y)[i] = IF i <= Len(x) THEN x[i] ELSE y[i - Len(x)]
    <3>1. x \in Seq(Seq(S)) /\ y \in Seq(Seq(S))
      BY <1>2
    <3> QED
      BY <3>1, ConcatProperties
  <2> QED
    BY <1>2, <2>1
<1>6. ASSUME NEW i \in 1..(Len(a) + Len(b)) PROVE z[i] = (x \o y)[i]
  <2>1. CASE i <= Len(a)
    <3>1. i \in 1..Len(a) /\ c[i] = a[i]
      BY <1>1, <2>1
    <3> QED
      BY <1>2, <1>3, <1>5, <2>1, <3>1 DEF Splits
  <2>2. CASE ~ (i <= Len(a))
    <3> DEFINE j == i - Len(a)
    <3>1. j \in 1..Len(b) /\ c[i] = b[j] /\ Len(a) + j = i
      BY <1>1, <2>2
    <3>2. i \in K <=> j \in J
      BY <3>1 DEF Splits
    <3>3. y[j] = IF j \in J THEN <<b[j]>> ELSE <<>>
      BY <1>2, <3>1
    <3> QED
      BY <1>3, <1>5, <2>2, <3>1, <3>2, <3>3
  <2> QED
    BY <2>1, <2>2
<1>7. z = x \o y
  BY <1>3, <1>5, <1>6, SeqEqual
<1>8. FlattenSeq(x \o y) = FlattenSeq(x) \o FlattenSeq(y)
  BY <1>2, FlattenConcat
<1> QED
  BY <1>4, <1>7, <1>8 DEF c

\* All the places picked, everything stays.
LEMMA PickAll ==
    ASSUME NEW S, NEW s \in Seq(S), NEW I, 1..Len(s) \subseteq I
    PROVE  Pick(s, I) = s
<1> DEFINE n == Len(s)
           p == Pieces(s, I)
           G == {m \in 0..n : Prefix(p, m) = SubSeq(s, 1, m)}
<1>1. /\ n \in Nat /\ p \in Seq(Seq(S)) /\ Len(p) = n /\ Pick(s, I) = FlattenSeq(p)
      /\ \A i \in 1..n : p[i] = <<s[i]>> /\ s[i] \in S
  BY PiecesFacts, LenProperties, ElementOfSeq
<1> HIDE DEF n, p
<1>2. 0 \in G
  BY <1>1, PrefixFacts, PrefixNone
<1>3. ASSUME NEW m \in 0..(n - 1), m \in G PROVE m + 1 \in G
  <2>1. m \in 0..(Len(p) - 1) /\ m \in 0..(Len(s) - 1) /\ m + 1 \in 1..n /\ m + 1 \in 0..n
        /\ m \in 0..Len(s)
    BY <1>1 DEF n
  <2>2. Prefix(p, m + 1) = Prefix(p, m) \o p[m + 1]
    BY <1>1, <2>1, PrefixFacts
  <2>3. SubSeq(s, 1, m + 1) = Append(SubSeq(s, 1, m), s[m + 1]) /\ SubSeq(s, 1, m) \in Seq(S)
    BY <2>1, PrefixStep, PrefixSeq
  <2>4. Append(SubSeq(s, 1, m), s[m + 1]) = SubSeq(s, 1, m) \o <<s[m + 1]>>
    BY <1>1, <2>1, <2>3, AppendIsConcat
  <2> QED
    BY <1>1, <1>3, <2>1, <2>2, <2>3, <2>4
<1>4. n \in G
  <2>1. \A m \in 0..n : m \in G
    <3> HIDE DEF G
    <3> QED
      BY <1>1, <1>2, <1>3, Climb
  <2> QED
    BY <1>1, <2>1
<1>5. Prefix(p, n) = FlattenSeq(p) /\ SubSeq(s, 1, n) = s
  BY <1>1, PrefixFacts, SubSeqFull DEF n
<1> QED
  BY <1>1, <1>4, <1>5

\* No place picked, nothing stays.
LEMMA PickNone ==
    ASSUME NEW S, NEW s \in Seq(S), NEW I, I \cap (1..Len(s)) = {}
    PROVE  Pick(s, I) = <<>>
<1>1. \A i \in 1..Len(Pieces(s, I)) : Pieces(s, I)[i] = <<>>
  BY PiecesFacts
<1> QED
  BY <1>1, PiecesFacts, FlattenEmpty

\* What is picked was there.
LEMMA PickElements ==
    ASSUME NEW S, NEW s \in Seq(S), NEW I, NEW k \in 1..Len(Pick(s, I))
    PROVE  \E i \in (1..Len(s)) \cap I : Pick(s, I)[k] = s[i]
<1> DEFINE T == {s[i] : i \in (1..Len(s)) \cap I}
           p == Pieces(s, I)
<1>1. /\ Pick(s, I) = FlattenSeq(p) /\ p \in Seq(Seq(S)) /\ Len(p) = Len(s)
      /\ \A i \in 1..Len(s) : p[i] = IF i \in I THEN <<s[i]>> ELSE <<>>
      /\ Len(s) \in Nat
  BY PiecesFacts, LenProperties
<1>2. p \in Seq(Seq(T))
  <2>1. ASSUME NEW i \in 1..Len(s) PROVE p[i] \in Seq(T)
    <3>1. CASE i \in I
      <4>1. s[i] \in T
        BY <3>1
      <4> HIDE DEF T, p
      <4>2. <<s[i]>> \in Seq(T)
        BY <4>1
      <4> QED
        BY <1>1, <3>1, <4>2
    <3>2. CASE i \notin I
      <4> HIDE DEF T, p
      <4> QED
        BY <1>1, <3>2, EmptySeq
    <3> QED
      BY <3>1, <3>2
  <2>2. p \in [1..Len(s) -> Seq(S)]
    <3> HIDE DEF p
    <3> QED
      BY <1>1, LenProperties
  <2> HIDE DEF T, p
  <2>3. p \in [1..Len(s) -> Seq(T)]
    BY <2>1, <2>2
  <2>4. Len(s) \in Nat
    BY <1>1
  <2> QED
    BY <2>3, <2>4, GivenByElements
<1>3. Pick(s, I) \in Seq(T)
  <2> HIDE DEF T, p
  <2> QED
    BY <1>1, <1>2, FlattenType
<1>4. Pick(s, I)[k] \in T
  <2> HIDE DEF T
  <2> QED
    BY <1>3, ElementOfSeq
<1> QED
  BY <1>4

\* A sequence given place by place of another one.
LEMMA PlaceByPlace ==
    ASSUME NEW S, NEW T, NEW s \in Seq(S), NEW g \in [DOMAIN s -> T]
    PROVE  g \in Seq(T) /\ Len(g) = Len(s) /\ DOMAIN g = 1..Len(s)
<1>1. DOMAIN s = 1..Len(s) /\ Len(s) \in Nat
  BY LenProperties
<1>2. g \in [1..Len(s) -> T]
  BY <1>1
<1> QED
  BY <1>1, <1>2, GivenByElements

\* An element of a sequence, and its place.
LEMMA FirstOf ==
    ASSUME NEW S, NEW s \in Seq(S), NEW i \in DOMAIN s
    PROVE  s[i] \in S /\ s[i] \in ToSet(s) /\ i \in 1..Len(s) /\ i \in Nat
<1>1. DOMAIN s = 1..Len(s) /\ Len(s) \in Nat
  BY LenProperties
<1> QED
  BY <1>1, ElementOfSeq DEF ToSet

-----------------------------------------------------------------------------
(* What the tables are made of.                                            *)

Pdo == [index : Indexes, entries : Seq(Entry)]
BusSlave == [id : 0..(MaxSlaves - 1), identity : Nat, pdos : [Directions -> Seq(Pdo)]]
View == [direction : Directions, object : Objects, bits : Nat, offset : Nat]
Sync == [direction : Directions, pdos : Seq(Pdo)]
Loaded == [id : 0..(MaxSlaves - 1), identity : Nat, syncs : Seq(Sync), entries : Seq(View)]
Byte == [object : Objects, byte : Nat]

\* The entries of a list of PDOs, one after the other.
LEMMA EntriesType ==
    ASSUME NEW pdos \in Seq(Pdo)
    PROVE  Entries(pdos) \in Seq(Entry) /\ DOMAIN Entries(pdos) = 1..Len(Entries(pdos))
           /\ Len(Entries(pdos)) \in Nat
<1> DEFINE g == [i \in DOMAIN pdos |-> pdos[i].entries]
<1>1. ASSUME NEW i \in DOMAIN pdos PROVE pdos[i].entries \in Seq(Entry)
  <2>1. pdos[i] \in Pdo
    BY FirstOf
  <2> QED
    BY <2>1 DEF Pdo
<1>2. g \in [DOMAIN pdos -> Seq(Entry)]
  BY <1>1
<1>3. Entries(pdos) = FlattenSeq(g)
  BY DEF Entries
<1> HIDE DEF g
<1>4. g \in Seq(Seq(Entry))
  BY <1>2, PlaceByPlace
<1> QED
  BY <1>3, <1>4, FlattenType, LenProperties

\* The views of one direction are its entries, in their order, not yet placed.
LEMMA ViewsFacts ==
    ASSUME NEW pdos \in Seq(Pdo), NEW d \in Directions
    PROVE  /\ Views(pdos, d) \in Seq(View) /\ Len(Views(pdos, d)) = Len(Entries(pdos))
           /\ \A k \in 1..Len(Entries(pdos)) :
                Views(pdos, d)[k] = [direction |-> d, object |-> Entries(pdos)[k].object,
                                     bits |-> Entries(pdos)[k].bits, offset |-> 0]
<1> DEFINE es == Entries(pdos)
           v(k) == [direction |-> d, object |-> es[k].object, bits |-> es[k].bits, offset |-> 0]
           g == [k \in DOMAIN es |-> v(k)]
<1>1. es \in Seq(Entry) /\ DOMAIN es = 1..Len(es)
  BY EntriesType
<1>2. Views(pdos, d) = g
  BY DEF Views
<1> HIDE DEF es
<1>3. \A k \in 1..Len(es) : es[k] \in Entry
  BY <1>1, ElementOfSeq
<1>4. \A k \in DOMAIN es : v(k) \in View
  BY <1>1, <1>3 DEF View, Entry
<1>5. g \in [DOMAIN es -> View] /\ \A k \in 1..Len(es) : g[k] = v(k)
  BY <1>1, <1>4
<1> HIDE DEF g
<1>6. g \in Seq(View) /\ Len(g) = Len(es)
  BY <1>1, <1>5, PlaceByPlace
<1> QED
  BY <1>2, <1>5, <1>6 DEF es

\* The entries of a direction, in a list that has all outputs before all inputs.
LEMMA InDirectionFacts ==
    ASSUME NEW es \in Seq(View), NEW m \in Nat, NEW n \in Nat, Len(es) = m + n,
           \A k \in 1..m : es[k].direction = "out",
           \A k \in 1..n : es[m + k].direction = "in"
    PROVE  /\ InDirection(es, "out") = [k \in 1..m |-> es[k]]
           /\ InDirection(es, "in") = [k \in 1..n |-> es[m + k]]
           /\ InDirection(es, "out") \in Seq(View) /\ Len(InDirection(es, "out")) = m
           /\ InDirection(es, "in") \in Seq(View) /\ Len(InDirection(es, "in")) = n
<1> DEFINE a == [k \in 1..m |-> es[k]]
           b == [k \in 1..n |-> es[m + k]]
           K(d) == {k \in DOMAIN es : es[k].direction = d}
<1>1. DOMAIN es = 1..(m + n) /\ \A k \in 1..(m + n) : es[k] \in View
  BY LenProperties, ElementOfSeq
<1>2. a \in [1..m -> View] /\ b \in [1..n -> View]
  BY <1>1
<1>3. (\A k \in 1..m : a[k] = es[k]) /\ (\A k \in 1..n : b[k] = es[m + k])
  OBVIOUS
<1> HIDE DEF a, b
<1>4. a \in Seq(View) /\ Len(a) = m
  BY <1>2, GivenByElements
<1>5. b \in Seq(View) /\ Len(b) = n
  BY <1>2, GivenByElements
<1>6. a \o b = es
  <2>1. /\ a \o b \in Seq(View) /\ Len(a \o b) = Len(a) + Len(b)
        /\ \A i \in 1..(Len(a) + Len(b)) :
             (a \o b)[i] = IF i <= Len(a) THEN a[i] ELSE b[i - Len(a)]
    <3>1. a \in Seq(View) /\ b \in Seq(View)
      BY <1>4, <1>5
    <3> QED
      BY <3>1, ConcatProperties
  <2> DEFINE c == a \o b
  <2>2. c \in Seq(View) /\ Len(c) = m + n
    BY <1>4, <1>5, <2>1
  <2>3. ASSUME NEW i \in 1..(m + n) PROVE c[i] = es[i]
    <3>1. CASE i <= m
      BY <1>3, <1>4, <1>5, <2>1, <3>1
    <3>2. CASE ~ (i <= m)
      <4>1. i - m \in 1..n /\ m + (i - m) = i
        BY <3>2
      <4> QED
        BY <1>3, <1>4, <1>5, <2>1, <3>2, <4>1
    <3> QED
      BY <3>1, <3>2
  <2> HIDE DEF c
  <2>4. c = es
    BY <2>2, <2>3, SeqEqual
  <2> QED
    BY <2>4 DEF c
<1>7. InDirection(es, "out") = Pick(a \o b, K("out")) /\ InDirection(es, "in") = Pick(a \o b, K("in"))
  BY <1>6, Zenon DEF InDirection
<1>8. Pick(a \o b, K("out")) = a
  <2>1. Splits(K("out"), a, 1..m, b, {})
    <3>1. ASSUME NEW i \in 1..m PROVE i \in K("out")
      BY <1>1
    <3>2. ASSUME NEW j \in 1..n PROVE m + j \notin K("out")
      <4>1. es[m + j].direction # "out"
        OBVIOUS
      <4> QED
        BY <4>1
    <3> HIDE DEF K
    <3> QED
      BY <1>4, <1>5, <3>1, <3>2 DEF Splits
  <2> HIDE DEF K
  <2>2. Pick(a \o b, K("out")) = Pick(a, 1..m) \o Pick(b, {})
    BY <1>4, <1>5, <2>1, PickConcat, SMTT(30)
  <2>3. Pick(a, 1..m) = a
    BY <1>4, PickAll
  <2>4. Pick(b, {}) = <<>>
    BY <1>5, PickNone
  <2> QED
    BY <1>4, <2>2, <2>3, <2>4, ConcatEmptySeq
<1>9. Pick(a \o b, K("in")) = b
  <2>1. Splits(K("in"), a, {}, b, 1..n)
    <3>1. ASSUME NEW i \in 1..m PROVE i \notin K("in")
      <4>1. es[i].direction # "in"
        OBVIOUS
      <4> QED
        BY <4>1
    <3>2. ASSUME NEW j \in 1..n PROVE m + j \in K("in")
      BY <1>1
    <3> HIDE DEF K
    <3> QED
      BY <1>4, <1>5, <3>1, <3>2 DEF Splits
  <2> HIDE DEF K
  <2>2. Pick(a \o b, K("in")) = Pick(a, {}) \o Pick(b, 1..n)
    BY <1>4, <1>5, <2>1, PickConcat, SMTT(30)
  <2>3. Pick(b, 1..n) = b
    BY <1>5, PickAll
  <2>4. Pick(a, {}) = <<>>
    BY <1>4, PickNone
  <2> QED
    BY <1>5, <2>2, <2>3, <2>4, ConcatEmptySeq
<1> QED
  BY <1>4, <1>5, <1>7, <1>8, <1>9 DEF a, b

Outputs(pdos) == Len(Entries(pdos["out"]))
Inputs(pdos) == Len(Entries(pdos["in"]))

\* The direction of the k-th entry of a slave, its place there, and the entry.
Side(pdos, k) == IF k <= Outputs(pdos) THEN "out" ELSE "in"
Spot(pdos, k) == IF k <= Outputs(pdos) THEN k ELSE k - Outputs(pdos)
Nth(pdos, k) == Entries(pdos[Side(pdos, k)])[Spot(pdos, k)]

\* Where the k-th entry of a slave is declared: outputs first, then inputs.
LEMMA NthFacts ==
    ASSUME NEW pdos \in [Directions -> Seq(Pdo)],
           NEW k \in 1..(Outputs(pdos) + Inputs(pdos))
    PROVE  /\ Side(pdos, k) \in Directions /\ pdos[Side(pdos, k)] \in Seq(Pdo)
           /\ Spot(pdos, k) \in 1..Len(Entries(pdos[Side(pdos, k)]))
           /\ Nth(pdos, k) \in Entry
<1>1. /\ pdos["out"] \in Seq(Pdo) /\ pdos["in"] \in Seq(Pdo)
      /\ Outputs(pdos) \in Nat /\ Inputs(pdos) \in Nat
  <2>1. pdos["out"] \in Seq(Pdo) /\ pdos["in"] \in Seq(Pdo)
    BY DEF Directions
  <2> QED
    BY <2>1, EntriesType DEF Outputs, Inputs
<1>2. /\ Side(pdos, k) \in Directions /\ pdos[Side(pdos, k)] \in Seq(Pdo)
      /\ Spot(pdos, k) \in 1..Len(Entries(pdos[Side(pdos, k)]))
  <2>1. CASE k <= Outputs(pdos)
    BY <1>1, <2>1 DEF Side, Spot, Outputs, Directions
  <2>2. CASE ~ (k <= Outputs(pdos))
    <3>1. k - Outputs(pdos) \in 1..Inputs(pdos)
      BY <1>1, <2>2
    <3> QED
      BY <1>1, <2>2, <3>1 DEF Side, Spot, Inputs, Directions
  <2> QED
    BY <2>1, <2>2
<1>3. Entries(pdos[Side(pdos, k)]) \in Seq(Entry)
  BY <1>2, EntriesType
<1> QED
  BY <1>2, <1>3, ElementOfSeq DEF Nth

\* The views of a slave are its entries, outputs first.
LEMMA EntryViewsFacts ==
    ASSUME NEW pdos \in [Directions -> Seq(Pdo)]
    PROVE  /\ Outputs(pdos) \in Nat /\ Inputs(pdos) \in Nat
           /\ EntryViews(pdos) \in Seq(View)
           /\ Len(EntryViews(pdos)) = Outputs(pdos) + Inputs(pdos)
           /\ \A k \in 1..(Outputs(pdos) + Inputs(pdos)) :
                EntryViews(pdos)[k] =
                    [direction |-> Side(pdos, k), object |-> Nth(pdos, k).object,
                     bits |-> Nth(pdos, k).bits, offset |-> 0]
<1> DEFINE m == Outputs(pdos)
           n == Inputs(pdos)
           a == Views(pdos["out"], "out")
           b == Views(pdos["in"], "in")
<1>1. pdos["out"] \in Seq(Pdo) /\ pdos["in"] \in Seq(Pdo)
  BY DEF Directions
<1>2. m \in Nat /\ n \in Nat
  BY <1>1, EntriesType DEF Outputs, Inputs
<1>3. /\ a \in Seq(View) /\ Len(a) = m
      /\ \A k \in 1..m : a[k] = [direction |-> "out", object |-> Entries(pdos["out"])[k].object,
                                 bits |-> Entries(pdos["out"])[k].bits, offset |-> 0]
  BY <1>1, ViewsFacts DEF Directions, Outputs
<1>4. /\ b \in Seq(View) /\ Len(b) = n
      /\ \A k \in 1..n : b[k] = [direction |-> "in", object |-> Entries(pdos["in"])[k].object,
                                 bits |-> Entries(pdos["in"])[k].bits, offset |-> 0]
  BY <1>1, ViewsFacts DEF Directions, Inputs
<1>5. EntryViews(pdos) = a \o b
  BY DEF EntryViews
<1> HIDE DEF a, b, m, n
<1>6. /\ a \o b \in Seq(View) /\ Len(a \o b) = Len(a) + Len(b)
      /\ \A i \in 1..(Len(a) + Len(b)) :
           (a \o b)[i] = IF i <= Len(a) THEN a[i] ELSE b[i - Len(a)]
  <2>1. a \in Seq(View) /\ b \in Seq(View)
    BY <1>3, <1>4
  <2> QED
    BY <2>1, ConcatProperties
<1>7. ASSUME NEW k \in 1..(m + n)
      PROVE  (a \o b)[k] = [direction |-> Side(pdos, k), object |-> Nth(pdos, k).object,
                            bits |-> Nth(pdos, k).bits, offset |-> 0]
  <2>1. CASE k <= m
    <3>1. (a \o b)[k] = a[k] /\ k \in 1..m
      BY <1>2, <1>3, <1>4, <1>6, <2>1
    <3>2. Side(pdos, k) = "out" /\ Nth(pdos, k) = Entries(pdos["out"])[k]
      BY <2>1 DEF Side, Spot, Nth, m
    <3> QED
      BY <1>3, <3>1, <3>2
  <2>2. CASE ~ (k <= m)
    <3>1. (a \o b)[k] = b[k - m] /\ k - m \in 1..n
      BY <1>2, <1>3, <1>4, <1>6, <2>2
    <3>2. Side(pdos, k) = "in" /\ Nth(pdos, k) = Entries(pdos["in"])[k - m]
      BY <2>2 DEF Side, Spot, Nth, m
    <3> QED
      BY <1>4, <3>1, <3>2
  <2> QED
    BY <2>1, <2>2
<1> QED
  BY <1>2, <1>3, <1>4, <1>5, <1>6, <1>7 DEF m, n

Syncs(pdos) == <<[direction |-> "out", pdos |-> pdos["out"]],
                 [direction |-> "in", pdos |-> pdos["in"]]>>

Step == [sync : 1..2, place : Nat]

\* The steps of the walk through the n-th sync manager.
Steps(pdos, n) == [i \in DOMAIN Entries(pdos) |-> [sync |-> n, place |-> i]]

\* The walk through one sync manager visits its entries in order.
LEMMA StepsFacts ==
    ASSUME NEW pdos \in Seq(Pdo), NEW n \in 1..2
    PROVE  /\ Steps(pdos, n) \in Seq(Step) /\ Len(Steps(pdos, n)) = Len(Entries(pdos))
           /\ \A i \in 1..Len(Entries(pdos)) : Steps(pdos, n)[i] = [sync |-> n, place |-> i]
<1> DEFINE w == [i \in DOMAIN Entries(pdos) |-> [sync |-> n, place |-> i]]
<1>1. /\ DOMAIN Entries(pdos) = 1..Len(Entries(pdos)) /\ Len(Entries(pdos)) \in Nat
      /\ Entries(pdos) \in Seq(Entry)
  BY EntriesType
<1>2. w \in [DOMAIN Entries(pdos) -> Step] /\ \A i \in 1..Len(Entries(pdos)) : w[i] = [sync |-> n, place |-> i]
  BY <1>1 DEF Step
<1> HIDE DEF w
<1>3. w \in Seq(Step) /\ Len(w) = Len(Entries(pdos))
  BY <1>1, <1>2, PlaceByPlace
<1> QED
  BY <1>2, <1>3 DEF w, Steps

\* The walk of registration visits the entries of a slave in the order of its views.
LEMMA WalkFacts ==
    ASSUME NEW pdos \in [Directions -> Seq(Pdo)]
    PROVE  /\ Len(Walk(Syncs(pdos))) = Outputs(pdos) + Inputs(pdos)
           /\ \A k \in 1..(Outputs(pdos) + Inputs(pdos)) :
                Walk(Syncs(pdos))[k] = [sync |-> IF Side(pdos, k) = "out" THEN 1 ELSE 2,
                                        place |-> Spot(pdos, k)]
<1> DEFINE m == Outputs(pdos)
           n == Inputs(pdos)
           a == Steps(pdos["out"], 1)
           b == Steps(pdos["in"], 2)
<1>1. pdos["out"] \in Seq(Pdo) /\ pdos["in"] \in Seq(Pdo)
  BY DEF Directions
<1>2. m \in Nat /\ n \in Nat
  BY <1>1, EntriesType DEF Outputs, Inputs
<1>3. a \in Seq(Step) /\ Len(a) = m /\ \A k \in 1..m : a[k] = [sync |-> 1, place |-> k]
  BY <1>1, StepsFacts DEF Outputs
<1>4. b \in Seq(Step) /\ Len(b) = n /\ \A k \in 1..n : b[k] = [sync |-> 2, place |-> k]
  BY <1>1, StepsFacts DEF Inputs
<1>5. Walk(Syncs(pdos)) = FlattenSeq(<<a, b>>)
  <2> DEFINE w == [j \in DOMAIN Syncs(pdos) |->
                    [i \in DOMAIN Entries(Syncs(pdos)[j].pdos) |-> [sync |-> j, place |-> i]]]
  <2>1. w = <<a, b>>
    <3>1. DOMAIN Syncs(pdos) = 1..2 /\ Syncs(pdos)[1].pdos = pdos["out"]
          /\ Syncs(pdos)[2].pdos = pdos["in"]
      BY DEF Syncs
    <3>2. w = [j \in 1..2 |-> IF j = 1 THEN a ELSE b]
      BY <3>1 DEF Steps
    <3> HIDE DEF a, b, w
    <3>3. <<a, b>> = [j \in 1..2 |-> IF j = 1 THEN a ELSE b]
      OBVIOUS
    <3> QED
      BY <3>2, <3>3
  <2> QED
    BY <2>1 DEF Walk
<1> HIDE DEF a, b, m, n
<1>6. /\ a \o b \in Seq(Step) /\ Len(a \o b) = Len(a) + Len(b)
      /\ \A i \in 1..(Len(a) + Len(b)) :
           (a \o b)[i] = IF i <= Len(a) THEN a[i] ELSE b[i - Len(a)]
  <2>1. a \in Seq(Step) /\ b \in Seq(Step)
    BY <1>3, <1>4
  <2> QED
    BY <2>1, ConcatProperties
<1>7. FlattenSeq(<<a, b>>) = a \o b
  BY <1>3, <1>4, FlattenPair
<1>8. ASSUME NEW k \in 1..(m + n)
      PROVE  (a \o b)[k] = [sync |-> IF Side(pdos, k) = "out" THEN 1 ELSE 2,
                            place |-> Spot(pdos, k)]
  <2>1. CASE k <= m
    <3>1. (a \o b)[k] = a[k] /\ k \in 1..m
      BY <1>2, <1>3, <1>4, <1>6, <2>1
    <3>2. Side(pdos, k) = "out" /\ Spot(pdos, k) = k
      BY <2>1 DEF Side, Spot, m
    <3> QED
      BY <1>3, <3>1, <3>2
  <2>2. CASE ~ (k <= m)
    <3>1. (a \o b)[k] = b[k - m] /\ k - m \in 1..n
      BY <1>2, <1>3, <1>4, <1>6, <2>2
    <3>2. Side(pdos, k) = "in" /\ Spot(pdos, k) = k - m
      BY <2>2 DEF Side, Spot, m
    <3> QED
      BY <1>4, <3>1, <3>2
  <2> QED
    BY <2>1, <2>2
<1> QED
  BY <1>2, <1>3, <1>4, <1>5, <1>6, <1>7, <1>8 DEF m, n

\* Each entry takes as many bytes as its bits fill.
LEMMA BlocksFacts ==
    ASSUME NEW pdos \in Seq(Pdo)
    PROVE  /\ Blocks(pdos) \in Seq(Seq(Byte)) /\ Len(Blocks(pdos)) = Len(Entries(pdos))
           /\ \A i \in 1..Len(Entries(pdos)) :
                LET e == Entries(pdos)[i] IN
                /\ Size(e) \in Nat /\ Len(Blocks(pdos)[i]) = Size(e)
                /\ \A x \in 1..Size(e) : Blocks(pdos)[i][x] = [object |-> e.object, byte |-> x]
<1> DEFINE es == Entries(pdos)
           g == [i \in DOMAIN es |-> Bytes(es[i])]
<1>1. es \in Seq(Entry) /\ DOMAIN es = 1..Len(es) /\ Len(es) \in Nat
  BY EntriesType
<1>2. Blocks(pdos) = g
  BY DEF Blocks
<1> HIDE DEF es
<1>3. ASSUME NEW e \in Entry
      PROVE  /\ Size(e) \in Nat /\ Bytes(e) \in Seq(Byte) /\ Len(Bytes(e)) = Size(e)
             /\ \A x \in 1..Size(e) : Bytes(e)[x] = [object |-> e.object, byte |-> x]
  <2>1. Size(e) \in Nat /\ e.object \in Objects
    BY DEF Size, Entry
  <2> DEFINE h == [b \in 1..Size(e) |-> [object |-> e.object, byte |-> b]]
  <2>2. h \in [1..Size(e) -> Byte]
    BY <2>1 DEF Byte
  <2>3. \A x \in 1..Size(e) : h[x] = [object |-> e.object, byte |-> x]
    OBVIOUS
  <2>4. Bytes(e) = h
    BY DEF Bytes
  <2> HIDE DEF h
  <2>5. h \in Seq(Byte) /\ Len(h) = Size(e)
    BY <2>1, <2>2, GivenByElements
  <2> QED
    BY <2>1, <2>3, <2>4, <2>5
<1>4. \A i \in 1..Len(es) : es[i] \in Entry
  BY <1>1, ElementOfSeq
<1>5. g \in [DOMAIN es -> Seq(Byte)] /\ \A i \in 1..Len(es) : g[i] = Bytes(es[i])
  BY <1>1, <1>3, <1>4
<1> HIDE DEF g
<1>6. g \in Seq(Seq(Byte)) /\ Len(g) = Len(es)
  BY <1>1, <1>5, PlaceByPlace
<1> QED
  BY <1>2, <1>3, <1>4, <1>5, <1>6 DEF es

\* Where IgH puts the i-th entry of a sync manager.
Before(pdos, i) == Len(FlattenSeq(SubSeq(Blocks(pdos), 1, i - 1)))

\* An entry's bytes lie in the image after those of the entries before it.
LEMMA LaidFacts ==
    ASSUME NEW pdos \in Seq(Pdo)
    PROVE  /\ Laid(pdos) \in Seq(Byte)
           /\ \A i \in 1..Len(Entries(pdos)) :
                LET e == Entries(pdos)[i] IN
                /\ Size(e) \in Nat /\ Before(pdos, i) \in Nat
                /\ Before(pdos, i) + Size(e) <= Len(Laid(pdos))
                /\ \A x \in 1..Size(e) :
                     Laid(pdos)[Before(pdos, i) + x] = [object |-> e.object, byte |-> x]
<1> DEFINE ss == Blocks(pdos)
<1>1. ss \in Seq(Seq(Byte)) /\ Len(ss) = Len(Entries(pdos)) /\ Laid(pdos) = FlattenSeq(ss)
  BY BlocksFacts DEF Laid
<1>2. Laid(pdos) \in Seq(Byte)
  BY <1>1, FlattenType
<1>3. ASSUME NEW i \in 1..Len(Entries(pdos))
      PROVE  LET e == Entries(pdos)[i] IN
             /\ Size(e) \in Nat /\ Before(pdos, i) \in Nat
             /\ Before(pdos, i) + Size(e) <= Len(Laid(pdos))
             /\ \A x \in 1..Size(e) :
                  Laid(pdos)[Before(pdos, i) + x] = [object |-> e.object, byte |-> x]
  <2> DEFINE e == Entries(pdos)[i]
             o == Before(pdos, i)
  <2>1. Size(e) \in Nat /\ Len(ss[i]) = Size(e)
        /\ \A x \in 1..Size(e) : ss[i][x] = [object |-> e.object, byte |-> x]
    BY BlocksFacts
  <2>2. o = Len(Prefix(ss, i - 1))
    BY DEF Before, Prefix
  <2>3. i \in 1..Len(ss) /\ Len(ss) \in Nat /\ i - 1 \in 0..Len(ss)
    BY <1>1, LenProperties
  <2> HIDE DEF ss, e, o
  <2>4. o \in Nat
    BY <1>1, <2>2, <2>3, PrefixFacts
  <2>5. /\ Len(Prefix(ss, i)) = o + Size(e) /\ Len(Prefix(ss, i)) <= Len(FlattenSeq(ss))
        /\ \A x \in 1..Size(e) : FlattenSeq(ss)[o + x] = ss[i][x]
    <3>1. /\ Len(Prefix(ss, i)) = Len(Prefix(ss, i - 1)) + Len(ss[i])
          /\ Len(Prefix(ss, i)) <= Len(FlattenSeq(ss))
          /\ \A x \in 1..Len(ss[i]) :
               FlattenSeq(ss)[Len(Prefix(ss, i - 1)) + x] = ss[i][x]
      BY <1>1, <2>3, Segment
    <3> QED
      BY <2>1, <2>2, <3>1
  <2>6. Size(e) \in Nat /\ o \in Nat /\ o + Size(e) <= Len(Laid(pdos))
        /\ \A x \in 1..Size(e) : Laid(pdos)[o + x] = [object |-> e.object, byte |-> x]
    BY <1>1, <2>1, <2>4, <2>5
  <2> QED
    BY <2>6 DEF e, o
<1> QED
  BY <1>2, <1>3

\* A section of a configuration source, part by part.
LEMMA SectionFacts ==
    ASSUME NEW section \in Section
    PROVE  /\ section.list \in Seq(Indexes) /\ section.pdos \in Seq(Declaration)
           /\ DOMAIN section.pdos = 1..Len(section.pdos) /\ Len(section.pdos) \in Nat
           /\ DOMAIN section.list = 1..Len(section.list) /\ Len(section.list) \in Nat
           /\ \A j \in DOMAIN section.pdos :
                /\ section.pdos[j] \in Declaration /\ section.pdos[j] \in ToSet(section.pdos)
                /\ section.pdos[j].index \in Indexes /\ section.pdos[j].entries \in Seq(Entry)
                /\ Mapping(section.pdos[j]) \in Pdo
           /\ \A p \in ToSet(section.pdos) : \E j \in DOMAIN section.pdos : p = section.pdos[j]
           /\ DOMAIN Catalogue(section) = DOMAIN section.pdos
           /\ \A j \in DOMAIN section.pdos : Catalogue(section)[j] = section.pdos[j].index
<1>1. section.list \in Seq(Indexes) /\ section.pdos \in Seq(Declaration)
  BY DEF Section
<1>2. /\ DOMAIN section.pdos = 1..Len(section.pdos) /\ Len(section.pdos) \in Nat
      /\ DOMAIN section.list = 1..Len(section.list) /\ Len(section.list) \in Nat
  BY <1>1, LenProperties
<1>3. ASSUME NEW j \in DOMAIN section.pdos
      PROVE  /\ section.pdos[j] \in Declaration /\ section.pdos[j] \in ToSet(section.pdos)
             /\ section.pdos[j].index \in Indexes /\ section.pdos[j].entries \in Seq(Entry)
             /\ Mapping(section.pdos[j]) \in Pdo
  <2>1. section.pdos[j] \in Declaration /\ section.pdos[j] \in ToSet(section.pdos)
    BY <1>1, FirstOf
  <2>2. section.pdos[j].index \in Indexes /\ section.pdos[j].entries \in Seq(Entry)
    BY <2>1 DEF Declaration
  <2> QED
    BY <2>1, <2>2 DEF Mapping, Pdo
<1>4. \A p \in ToSet(section.pdos) : \E j \in DOMAIN section.pdos : p = section.pdos[j]
  BY DEF ToSet
<1>5. DOMAIN Catalogue(section) = DOMAIN section.pdos
      /\ \A j \in DOMAIN section.pdos : Catalogue(section)[j] = section.pdos[j].index
  BY DEF Catalogue
<1> QED
  BY <1>1, <1>2, <1>3, <1>4, <1>5

\* Where no index is declared twice, looking one up gives its declaration.
LEMMA OnlyOne ==
    ASSUME NEW section \in Section, Distinct(Catalogue(section)), NEW j \in DOMAIN section.pdos
    PROVE  TheOne(section, section.pdos[j].index) = section.pdos[j]
<1> DEFINE q == TheOne(section, section.pdos[j].index)
<1>1. section.pdos[j] \in ToSet(section.pdos)
  BY SectionFacts
<1>2. q \in ToSet(section.pdos) /\ q.index = section.pdos[j].index
  BY <1>1 DEF TheOne
<1>3. PICK i \in DOMAIN section.pdos : q = section.pdos[i]
  BY <1>2, SectionFacts
<1>4. Catalogue(section)[i] = Catalogue(section)[j]
      /\ i \in DOMAIN Catalogue(section) /\ j \in DOMAIN Catalogue(section)
  <2> HIDE DEF q
  <2> QED
    BY <1>2, <1>3, SectionFacts
<1>5. i = j
  BY <1>4 DEF Distinct
<1> QED
  BY <1>3, <1>5

\* The PDOs an ENI file asks for, and what they are.
EniWanted(section) ==
    IF section.list # <<>> THEN section.list
    ELSE LET own == Pick(section.pdos, {j \in DOMAIN section.pdos : section.pdos[j].sm = "own"})
         IN  [j \in DOMAIN own |-> own[j].index]

EniAsked(section) ==
    [j \in DOMAIN EniWanted(section) |->
        [index |-> EniWanted(section)[j],
         entries |-> TheOne(section, EniWanted(section)[j]).entries]]

\* A disabled ENI section asks for nothing, and nothing is parsed of it.
LEMMA NothingAsked ==
    ASSUME NEW section \in Section, EniAccepts(section), ~ section.enabled
    PROVE  EniPdos(section) = EniAsked(section) /\ EniPdos(section) \in Seq(Pdo)
<1> DEFINE I == {j \in DOMAIN section.pdos : section.pdos[j].sm = "own"}
           own == Pick(section.pdos, I)
<1>1. section.list = <<>> /\ \A p \in ToSet(section.pdos) : p.sm = "none"
  BY DEF EniAccepts
<1>2. I \cap (1..Len(section.pdos)) = {}
  <2>1. ASSUME NEW j \in DOMAIN section.pdos PROVE section.pdos[j].sm # "own"
    <3>1. section.pdos[j] \in ToSet(section.pdos)
      BY SectionFacts
    <3> QED
      BY <1>1, <3>1
  <2> QED
    BY <2>1
<1>3. own = <<>>
  <2>1. section.pdos \in Seq(Declaration)
    BY SectionFacts
  <2> HIDE DEF I
  <2> QED
    BY <1>2, <2>1, PickNone
<1>4. EniWanted(section) = [j \in DOMAIN own |-> own[j].index]
  BY <1>1 DEF EniWanted
<1>5. DOMAIN EniWanted(section) = {}
  <2>1. DOMAIN own = {}
    <3> HIDE DEF own
    <3>1. <<>> \in Seq(Declaration) /\ Len(<<>>) = 0
      BY EmptySeq
    <3> QED
      BY <1>3, <3>1
  <2> HIDE DEF own
  <2> QED
    BY <1>4, <2>1
<1>6. EniAsked(section) = <<>>
  <2> DEFINE g == EniAsked(section)
  <2>1. g \in [1..0 -> Pdo]
    BY <1>5 DEF EniAsked
  <2> HIDE DEF g
  <2>2. g \in Seq(Pdo) /\ Len(g) = 0
    BY <2>1, GivenByElements
  <2> QED
    BY <2>2, EmptySeq DEF g
<1>7. EniPdos(section) = <<>>
  BY DEF EniPdos
<1>8. <<>> \in Seq(Pdo)
  BY EmptySeq
<1> QED
  BY <1>6, <1>7, <1>8

\* A section with a list of PDOs asks for those, and they are parsed.
LEMMA ListAsked ==
    ASSUME NEW section \in Section, EniAccepts(section), section.enabled, section.list # <<>>
    PROVE  EniPdos(section) = EniAsked(section) /\ EniPdos(section) \in Seq(Pdo)
<1> DEFINE list == section.list
           place(i) == CHOOSE j \in Selected(section) : section.pdos[j].index = list[i]
<1>1. Distinct(Catalogue(section)) /\ ToSet(list) \subseteq ToSet(Catalogue(section))
  BY DEF EniAccepts
<1>2. EniPdos(section) = [i \in DOMAIN list |-> Mapping(section.pdos[place(i)])]
  BY DEF EniPdos, Ordered
<1>3. EniWanted(section) = list
  BY DEF EniWanted
<1>4. ASSUME NEW i \in DOMAIN list
      PROVE  /\ Mapping(section.pdos[place(i)]) =
                    [index |-> list[i], entries |-> TheOne(section, list[i]).entries]
             /\ Mapping(section.pdos[place(i)]) \in Pdo
  <2>1. list[i] \in ToSet(list) /\ list[i] \in ToSet(Catalogue(section))
    BY <1>1 DEF ToSet
  <2>2. PICK j \in DOMAIN section.pdos : section.pdos[j].index = list[i]
    BY <2>1 DEF ToSet, Catalogue
  <2>3. Selected(section) = {k \in DOMAIN section.pdos : section.pdos[k].index \in ToSet(list)}
    BY DEF Selected
  <2>4. j \in Selected(section)
    BY <2>1, <2>2, <2>3
  <2>5. place(i) \in Selected(section) /\ section.pdos[place(i)].index = list[i]
    BY <2>2, <2>4
  <2>6. place(i) \in DOMAIN section.pdos
    <3> HIDE DEF place
    <3> QED
      BY <2>3, <2>5
  <2> DEFINE h == place(i)
  <2> HIDE DEF place, h
  <2>7. TheOne(section, section.pdos[h].index) = section.pdos[h] /\ Mapping(section.pdos[h]) \in Pdo
    BY <1>1, <2>6, OnlyOne, SectionFacts DEF h
  <2> QED
    BY <2>5, <2>7 DEF h, Mapping
<1>5. EniAsked(section) = [i \in DOMAIN list |->
          [index |-> list[i], entries |-> TheOne(section, list[i]).entries]]
  BY <1>3 DEF EniAsked
<1> HIDE DEF place
<1>6. EniPdos(section) = EniAsked(section)
  BY <1>2, <1>4, <1>5
<1>7. list \in Seq(Indexes)
  BY SectionFacts
<1> DEFINE g == EniPdos(section)
<1>8. g \in [DOMAIN list -> Pdo]
  BY <1>2, <1>4
<1> HIDE DEF g, list
<1>9. g \in Seq(Pdo)
  BY <1>7, <1>8, PlaceByPlace
<1> QED
  BY <1>6, <1>9 DEF g

\* A section without one asks for the fixed PDOs of its sync manager.
LEMMA OwnAsked ==
    ASSUME NEW section \in Section, EniAccepts(section), section.enabled, section.list = <<>>
    PROVE  EniPdos(section) = EniAsked(section) /\ EniPdos(section) \in Seq(Pdo)
<1> DEFINE I == {j \in DOMAIN section.pdos : section.pdos[j].sm = "own"}
           own == Pick(section.pdos, I)
<1>1. Distinct(Catalogue(section)) /\ \A p \in ToSet(section.pdos) : p.sm # "other"
  BY DEF EniAccepts
<1>2. Selected(section) = I
  <2>1. Selected(section) = {j \in DOMAIN section.pdos : section.pdos[j].sm # "none"}
    BY DEF Selected
  <2>2. ASSUME NEW j \in DOMAIN section.pdos
        PROVE  section.pdos[j].sm # "none" <=> section.pdos[j].sm = "own"
    <3>1. section.pdos[j] \in ToSet(section.pdos) /\ section.pdos[j] \in Declaration
      BY SectionFacts
    <3>2. section.pdos[j].sm \in {"none", "own", "other"} /\ section.pdos[j].sm # "other"
      BY <1>1, <3>1 DEF Declaration
    <3> QED
      BY <3>2
  <2> QED
    BY <2>1, <2>2
<1>3. EniPdos(section) = [i \in DOMAIN own |-> Mapping(own[i])]
  <2>1. Declarations(section) = own
    BY <1>2 DEF Declarations
  <2> QED
    BY <2>1 DEF EniPdos, Ordered
<1>4. EniWanted(section) = [j \in DOMAIN own |-> own[j].index]
  BY DEF EniWanted
<1>5. section.pdos \in Seq(Declaration)
  BY SectionFacts
<1> HIDE DEF I
<1>6. own \in Seq(Declaration)
  BY <1>5, PiecesFacts
<1>7. ASSUME NEW i \in DOMAIN own
      PROVE  /\ Mapping(own[i]) = [index |-> own[i].index, entries |-> TheOne(section, own[i].index).entries]
             /\ Mapping(own[i]) \in Pdo
  <2>1. i \in 1..Len(own)
    <3> HIDE DEF own
    <3> QED
      BY <1>6, LenProperties
  <2>2. PICK j \in (1..Len(section.pdos)) \cap I : own[i] = section.pdos[j]
    BY <1>5, <2>1, PickElements
  <2>3. j \in DOMAIN section.pdos
    BY <2>2, SectionFacts
  <2> HIDE DEF own
  <2>4. TheOne(section, section.pdos[j].index) = section.pdos[j] /\ Mapping(section.pdos[j]) \in Pdo
    BY <1>1, <2>3, OnlyOne, SectionFacts
  <2> QED
    BY <2>2, <2>4 DEF Mapping
<1> HIDE DEF own
<1>8. EniAsked(section) = [j \in DOMAIN own |->
          [index |-> own[j].index, entries |-> TheOne(section, own[j].index).entries]]
  BY <1>4 DEF EniAsked
<1>9. EniPdos(section) = EniAsked(section)
  BY <1>3, <1>7, <1>8
<1> DEFINE g == EniPdos(section)
<1>10. g \in [DOMAIN own -> Pdo]
  BY <1>3, <1>7
<1> HIDE DEF g
<1>11. g \in Seq(Pdo)
  BY <1>6, <1>10, PlaceByPlace
<1> QED
  BY <1>9, <1>11 DEF g

\* What is parsed of an accepted ENI section is what it asks for.
LEMMA EniGivesAsked ==
    ASSUME NEW section \in Section, EniAccepts(section)
    PROVE  EniPdos(section) = EniAsked(section) /\ EniPdos(section) \in Seq(Pdo)
  BY NothingAsked, ListAsked, OwnAsked

\* A configuration source, part by part.
LEMMA SourceFacts ==
    ASSUME source \in Sources
    PROVE  /\ source.kind \in {"eni", "yaml"} /\ source.slaves \in Seq(Slave)
           /\ DOMAIN source.slaves = 1..Len(source.slaves) /\ Len(source.slaves) \in Nat
           /\ \A i \in DOMAIN source.slaves :
                /\ source.slaves[i] \in ToSet(source.slaves)
                /\ source.slaves[i].address \in Word /\ source.slaves[i].identity \in Nat
                /\ \A d \in Directions : source.slaves[i][d] \in Section
           /\ source.kind = "yaml" => \A i \in DOMAIN source.slaves :
                /\ source.slaves[i].identity = 0
                /\ \A d \in Directions : Distinct(Catalogue(source.slaves[i][d]))
<1>1. source \in [kind : {"eni", "yaml"}, slaves : Seq(Slave)]
  BY SourcesAssumption
<1>2. source.kind \in {"eni", "yaml"} /\ source.slaves \in Seq(Slave)
  BY <1>1
<1>3. DOMAIN source.slaves = 1..Len(source.slaves) /\ Len(source.slaves) \in Nat
  BY <1>2, LenProperties
<1>4. ASSUME NEW i \in DOMAIN source.slaves
      PROVE  /\ source.slaves[i] \in ToSet(source.slaves)
             /\ source.slaves[i].address \in Word /\ source.slaves[i].identity \in Nat
             /\ \A d \in Directions : source.slaves[i][d] \in Section
  <2>1. source.slaves[i] \in Slave /\ source.slaves[i] \in ToSet(source.slaves)
    BY <1>2, FirstOf
  <2>2. source.slaves[i].out \in Section /\ source.slaves[i].in \in Section
    BY <2>1 DEF Slave
  <2> QED
    BY <2>1, <2>2 DEF Slave, Directions
<1>5. source.kind = "yaml" => \A i \in DOMAIN source.slaves :
        /\ source.slaves[i].identity = 0
        /\ \A d \in Directions : Distinct(Catalogue(source.slaves[i][d]))
  BY SourcesAssumption
<1> QED
  BY <1>2, <1>3, <1>4, <1>5

\* A word is an integer of 16 bits,
LEMMA WordFacts ==
    ASSUME NEW a \in Word
    PROVE  a \in Int /\ 0 <= a /\ a <= 65535 
  BY DEF Word

\* and every such integer is a word.
LEMMA IsWord ==
    ASSUME NEW a \in Int, 0 <= a, a <= 65535
    PROVE  a \in Word
  BY DEF Word

\* An ENI address is a position counted down from 0 in 16 bits.
LEMMA CountsDown ==
    ASSUME NEW a \in Word, NEW p \in Word
    PROVE  Position(a) = p <=> (a + p) % 65536 = 0
<1>1. a \in Int /\ 0 <= a /\ a <= 65535 /\ p \in Int /\ 0 <= p /\ p <= 65535
  BY WordFacts
<1>2. CASE a = 0
  BY <1>1, <1>2 DEF Position
<1>3. CASE a # 0
  <2>1. (0 - a) % 65536 = 65536 - a
    BY <1>1, <1>3
  <2>2. (a + p) % 65536 = IF a + p < 65536 THEN a + p ELSE a + p - 65536
    BY <1>1
  <2> QED
    BY <1>1, <1>3, <2>1, <2>2 DEF Position
<1> QED
  BY <1>2, <1>3

\* The slave an ENI file declares at a position is the one whose address says so.
LEMMA EniDeclared ==
    ASSUME source \in Sources, source.kind = "eni", NEW p \in Word,
           NEW i \in DOMAIN source.slaves, AtPosition(p) = {i}
    PROVE  Declared(p) = source.slaves[i]
<1> DEFINE s == Declared(p)
           Fit(t) == (t.address + p) % 65536 = 0
<1>1. \A k \in DOMAIN source.slaves : Fit(source.slaves[k]) <=> k \in AtPosition(p)
  <2>1. ASSUME NEW k \in DOMAIN source.slaves
        PROVE  Fit(source.slaves[k]) <=> k \in AtPosition(p)
    <3>1. source.slaves[k].address \in Word
      BY SourceFacts
    <3> QED
      BY <3>1, CountsDown DEF AtPosition
  <2> QED
    BY <2>1
<1>2. s = CHOOSE t \in ToSet(source.slaves) : Fit(t)
  BY DEF Declared
<1> HIDE DEF Fit
<1>3. source.slaves[i] \in ToSet(source.slaves) /\ Fit(source.slaves[i])
  BY <1>1, SourceFacts
<1> HIDE DEF s
<1>4. s \in ToSet(source.slaves) /\ Fit(s)
  BY <1>2, <1>3
<1>5. PICK k \in DOMAIN source.slaves : s = source.slaves[k]
  BY <1>4 DEF ToSet
<1>6. k \in AtPosition(p)
  BY <1>1, <1>4, <1>5
<1> QED
  BY <1>5, <1>6 DEF s

\* The slave a YAML file declares at a position is the one listed there.
LEMMA YamlDeclared ==
    ASSUME source \in Sources, source.kind = "yaml",
           \A k \in DOMAIN source.slaves : source.slaves[k].address = k - 1,
           NEW i \in DOMAIN source.slaves
    PROVE  Declared(i - 1) = source.slaves[i]
<1> DEFINE s == Declared(i - 1)
           Fit(t) == t.address = i - 1
<1>1. \A k \in DOMAIN source.slaves : Fit(source.slaves[k]) => k = i
  BY SourceFacts
<1>2. s = CHOOSE t \in ToSet(source.slaves) : Fit(t)
  BY DEF Declared
<1>3. source.slaves[i] \in ToSet(source.slaves) /\ Fit(source.slaves[i])
  BY SourceFacts
<1> HIDE DEF Fit, s
<1>4. s \in ToSet(source.slaves) /\ Fit(s)
  BY <1>2, <1>3
<1>5. PICK k \in DOMAIN source.slaves : s = source.slaves[k]
  BY <1>4 DEF ToSet
<1>6. k = i
  BY <1>1, <1>4, <1>5
<1> QED
  BY <1>5, <1>6 DEF s

\* The PDOs of a slave as the file asks for them, and as a YAML file states them.
Asked(i, d) ==
    LET section == Declared(i - 1)[d]
        wanted  == Wanted(section)
    IN  [j \in DOMAIN wanted |->
            [index |-> wanted[j], entries |-> Contents(i - 1, section, wanted[j])]]

Stated(i, d) ==
    LET section == Declared(i - 1)[d]
    IN  [j \in DOMAIN section.pdos |-> Mapping(section.pdos[j])]

Tabled == {"discover", "identify", "register", "prepare", "layout", "publish", "run"}
Configured == Tabled \union {"build"}
Identified == {"register", "prepare", "layout", "publish", "run"}

StartInv ==
    /\ source \in Sources
    /\ pc \in Configured \union {"load", "refused"}
    /\ pc \in {"load", "build"} => built = <<>>
    /\ pc \in {"load", "build", "discover", "identify"} => at = 1
    /\ pc = "discover" => source.kind = "yaml"
    /\ pc \in {"identify"} \union Identified => view = Len(built)
    /\ image \in [Directions -> Seq(Byte)]

Given(i) ==
    /\ config[i].id = i - 1 /\ config[i].identity = Declared(i - 1).identity
    /\ \A d \in Directions :
          /\ Declared(i - 1)[d] \in Section
          /\ source.kind = "yaml" => Distinct(Catalogue(Declared(i - 1)[d]))
          /\ config[i].pdos[d] =
               IF source.kind = "yaml" /\ pc \in {"build", "discover"}
               THEN Stated(i, d) ELSE Asked(i, d)

ConfigInv ==
    pc \in Configured =>
        /\ config \in Seq(BusSlave) /\ Len(config) \in 1..MaxSlaves
        /\ \A i \in 1..Len(config) : Given(i)

\* A table that agrees with the configuration of its slave.
Match(loaded, slave) ==
    LET views == EntryViews(slave.pdos) IN
    /\ loaded.id = slave.id /\ loaded.syncs = Syncs(slave.pdos)
    /\ Len(loaded.entries) = Len(views)
    /\ \A k \in 1..Len(views) :
          /\ loaded.entries[k].direction = views[k].direction
          /\ loaded.entries[k].object = views[k].object
          /\ loaded.entries[k].bits = views[k].bits
          /\ loaded.entries[k].bits % 8 = 0

TablesInv ==
    pc \in Tabled =>
        /\ built \in Seq(Seq(Loaded)) /\ view \in 1..Len(built)
        /\ Len(Slaves) = Len(config)
        /\ \A i \in 1..Len(config) : Match(Slaves[i], config[i])
        /\ pc \in {"discover", "identify"} =>
             \A i \in 1..Len(config) : Slaves[i].identity = config[i].identity

IdentitiesInv ==
    pc \in Identified =>
        /\ DOMAIN identities = 1..Len(config)
        /\ \A i \in 1..Len(config) :
              /\ identities[i] = Identity[i - 1]
              /\ Declared(i - 1).identity \in {0, Identity[i - 1]}

\* The bytes of an entry are where its offset says.
Bears(bytes, o, e) ==
    /\ o + Size(e) <= Len(bytes)
    /\ \A b \in 1..Size(e) : bytes[o + b] = [object |-> e.object, byte |-> b]

InImage(img, e) == Bears(img[e.direction], e.offset, e)

PlacedInv ==
    /\ pc = "register" => at \in 1..Len(config)
    /\ pc \in Identified \ {"register"} => at = Len(config) + 1
    /\ pc \in Identified => \A i \in 1..Len(config) : i < at =>
          \A k \in 1..Len(Slaves[i].entries) : InImage(image, Slaves[i].entries[k])

\* What an ENI source asks for is what the slave's section asks for.
LEMMA AskedOfEni ==
    ASSUME source.kind = "eni", NEW i, NEW d
    PROVE  Asked(i, d) = EniAsked(Declared(i - 1)[d])
<1> DEFINE section == Declared(i - 1)[d]
<1>1. Wanted(section) = EniWanted(section)
  BY DEF Wanted, EniWanted
<1>2. ASSUME NEW index PROVE Contents(i - 1, section, index) = TheOne(section, index).entries
  BY DEF Contents
<1> HIDE DEF section
<1>3. Asked(i, d) = [j \in DOMAIN Wanted(section) |->
         [index |-> Wanted(section)[j], entries |-> Contents(i - 1, section, Wanted(section)[j])]]
  BY DEF Asked, section
<1> QED
  BY <1>1, <1>2, <1>3 DEF EniAsked, section

\* A slave loaded from ENI has the identity and the PDOs declared for its position.
LEMMA EniSlave ==
    ASSUME source \in Sources, LoadEni, NEW i \in DOMAIN source.slaves
    PROVE  /\ config'[i].id = i - 1 /\ config'[i].identity = Declared(i - 1).identity
           /\ config'[i] \in BusSlave
           /\ \A d \in Directions :
                Declared(i - 1)[d] \in Section /\ config'[i].pdos[d] = Asked(i, d)
<1>1. /\ source.kind = "eni" /\ Len(source.slaves) \in 1..MaxSlaves
      /\ \A s \in ToSet(source.slaves) : \A d \in Directions : EniAccepts(s[d])
      /\ \A n \in DOMAIN source.slaves : \E k \in DOMAIN source.slaves : AtPosition(n - 1) = {k}
      /\ config' = [n \in DOMAIN source.slaves |->
                    LET s == source.slaves[CHOOSE k \in AtPosition(n - 1) : TRUE] IN
                    [id |-> n - 1, identity |-> s.identity,
                     pdos |-> [d \in Directions |-> EniPdos(s[d])]]]
  BY DEF LoadEni, Acceptable
<1>2. PICK k \in DOMAIN source.slaves : AtPosition(i - 1) = {k}
  BY <1>1
<1> DEFINE s == source.slaves[k]
<1>3. (CHOOSE j \in AtPosition(i - 1) : TRUE) = k
  BY <1>2
<1>4. config'[i] = [id |-> i - 1, identity |-> s.identity,
                    pdos |-> [d \in Directions |-> EniPdos(s[d])]]
  BY <1>1, <1>3
<1>5. i - 1 \in 0..(MaxSlaves - 1) /\ i - 1 \in Word
  <2>1. i \in 1..Len(source.slaves) /\ MaxSlaves \in Nat /\ MaxSlaves <= 65536
    BY SourceFacts, LimitsAssumption
  <2> DEFINE n == Len(source.slaves)
  <2>4. n \in 1..MaxSlaves
    BY <1>1
  <2>2. i - 1 \in Nat /\ i - 1 <= 65535 /\ i - 1 <= MaxSlaves - 1
    <3>1. i \in 1..n
      BY <2>1
    <3> HIDE DEF n
    <3> QED
      BY <2>1, <2>4, <3>1
  <2>3. i - 1 \in Word
    BY <2>2, IsWord
  <2> QED
    BY <2>1, <2>2, <2>3
<1>6. Declared(i - 1) = s
  BY <1>1, <1>2, <1>5, EniDeclared
<1>7. s \in ToSet(source.slaves) /\ s.identity \in Nat /\ \A d \in Directions : s[d] \in Section
  BY SourceFacts
<1> HIDE DEF s
<1>8. ASSUME NEW d \in Directions
      PROVE  EniPdos(s[d]) = Asked(i, d) /\ EniPdos(s[d]) \in Seq(Pdo)
  <2>1. EniAccepts(s[d]) /\ s[d] \in Section
    BY <1>1, <1>7
  <2>2. EniPdos(s[d]) = EniAsked(s[d]) /\ EniPdos(s[d]) \in Seq(Pdo)
    BY <2>1, EniGivesAsked
  <2>3. Asked(i, d) = EniAsked(s[d])
    BY <1>1, <1>6, AskedOfEni
  <2> QED
    BY <2>2, <2>3
<1>9. config'[i] \in BusSlave
  <2>1. [d \in Directions |-> EniPdos(s[d])] \in [Directions -> Seq(Pdo)]
    BY <1>8
  <2> QED
    BY <1>4, <1>5, <1>7, <2>1 DEF BusSlave
<1> QED
  BY <1>4, <1>6, <1>7, <1>8, <1>9

\* A slave loaded from YAML has the PDOs stated for its position, entries or not.
LEMMA YamlSlave ==
    ASSUME source \in Sources, LoadYaml, NEW i \in DOMAIN source.slaves
    PROVE  /\ config'[i].id = i - 1 /\ config'[i].identity = Declared(i - 1).identity
           /\ config'[i] \in BusSlave
           /\ \A d \in Directions :
                /\ Declared(i - 1)[d] \in Section /\ Distinct(Catalogue(Declared(i - 1)[d]))
                /\ config'[i].pdos[d] = Stated(i, d)
<1>1. /\ source.kind = "yaml" /\ Len(source.slaves) \in 1..MaxSlaves
      /\ \A k \in DOMAIN source.slaves : source.slaves[k].address = k - 1
      /\ config' = [n \in DOMAIN source.slaves |->
                    LET s == source.slaves[n] IN
                    [id |-> s.address, identity |-> 0,
                     pdos |-> [d \in Directions |->
                                 [j \in DOMAIN s[d].pdos |-> Mapping(s[d].pdos[j])]]]]
  BY DEF LoadYaml, Acceptable
<1> DEFINE s == source.slaves[i]
           maps(d) == [j \in DOMAIN s[d].pdos |-> Mapping(s[d].pdos[j])]
<1>2. config'[i] = [id |-> i - 1, identity |-> 0, pdos |-> [d \in Directions |-> maps(d)]]
  BY <1>1
<1>3. i - 1 \in 0..(MaxSlaves - 1)
  <2> DEFINE n == Len(source.slaves)
  <2>1. i \in 1..n /\ MaxSlaves \in Nat
    BY SourceFacts, LimitsAssumption
  <2>2. n \in 1..MaxSlaves
    BY <1>1
  <2> HIDE DEF n
  <2> QED
    BY <2>1, <2>2
<1>4. Declared(i - 1) = s
  BY <1>1, YamlDeclared
<1>5. /\ s.identity = 0
      /\ \A d \in Directions : s[d] \in Section /\ Distinct(Catalogue(s[d]))
  BY <1>1, SourceFacts
<1> HIDE DEF s
<1>6. ASSUME NEW d \in Directions PROVE maps(d) = Stated(i, d) /\ maps(d) \in Seq(Pdo)
  <2>1. maps(d) = Stated(i, d)
    BY <1>4 DEF Stated
  <2>2. s[d] \in Section
    BY <1>5
  <2>3. s[d].pdos \in Seq(Declaration) /\ maps(d) \in [DOMAIN s[d].pdos -> Pdo]
    BY <2>2, SectionFacts
  <2> DEFINE g == maps(d)
             t == s[d].pdos
  <2>4. t \in Seq(Declaration) /\ g \in [DOMAIN t -> Pdo]
    BY <2>3
  <2> HIDE DEF g, t
  <2>5. g \in Seq(Pdo)
    BY <2>4, PlaceByPlace
  <2> QED
    BY <2>1, <2>5 DEF g
<1> HIDE DEF maps
<1>7. config'[i] \in BusSlave
  <2>1. [d \in Directions |-> maps(d)] \in [Directions -> Seq(Pdo)]
    BY <1>6
  <2> QED
    BY <1>2, <1>3, <2>1 DEF BusSlave
<1> QED
  BY <1>2, <1>4, <1>5, <1>6, <1>7

\* Loading, of either kind, gives what the source declares.
LEMMA LoadKeeps ==
    ASSUME StartInv, LoadEni \/ LoadYaml
    PROVE  StartInv' /\ ConfigInv'
<1>1. /\ source \in Sources /\ source' = source /\ pc = "load" /\ pc' = "build"
      /\ built' = built /\ at' = at /\ image' = image /\ Len(source.slaves) \in 1..MaxSlaves
      /\ DOMAIN config' = DOMAIN source.slaves
  BY DEF StartInv, LoadEni, LoadYaml, Acceptable
<1>2. StartInv'
  BY <1>1 DEF StartInv, Configured, Identified
<1>3. ASSUME NEW i \in DOMAIN source.slaves
      PROVE  /\ config'[i].id = i - 1 /\ config'[i].identity = Declared(i - 1).identity
             /\ config'[i] \in BusSlave
             /\ \A d \in Directions :
                  /\ Declared(i - 1)[d] \in Section
                  /\ source.kind = "yaml" => Distinct(Catalogue(Declared(i - 1)[d]))
                  /\ config'[i].pdos[d] =
                       IF source.kind = "yaml" THEN Stated(i, d) ELSE Asked(i, d)
  <2>1. CASE LoadEni
    <3>1. source.kind = "eni"
      BY <2>1 DEF LoadEni
    <3> QED
      BY <1>1, <2>1, <3>1, EniSlave
  <2>2. CASE LoadYaml
    <3>1. source.kind = "yaml"
      BY <2>2 DEF LoadYaml
    <3> QED
      BY <1>1, <2>2, <3>1, YamlSlave
  <2> QED
    BY <2>1, <2>2
<1>4. config' \in Seq(BusSlave) /\ Len(config') \in 1..MaxSlaves /\ Len(config') = Len(source.slaves)
  <2> DEFINE g == config'
  <2>1. g \in [DOMAIN source.slaves -> BusSlave]
    <3>1. g = [i \in DOMAIN source.slaves |-> g[i]]
      BY DEF LoadEni, LoadYaml
    <3> HIDE DEF g
    <3>2. \A i \in DOMAIN source.slaves : g[i] \in BusSlave
      BY <1>3 DEF g
    <3> QED
      BY <3>1, <3>2
  <2>2. source.slaves \in Seq(Slave)
    BY <1>1, SourceFacts
  <2> HIDE DEF g
  <2>3. g \in Seq(BusSlave) /\ Len(g) = Len(source.slaves)
    BY <2>1, <2>2, PlaceByPlace
  <2> QED
    BY <1>1, <2>3 DEF g
<1>5. DOMAIN source.slaves = 1..Len(config')
  BY <1>1, <1>4, SourceFacts
<1>6. ASSUME NEW i \in 1..Len(config') PROVE Given(i)'
  <2>1. i \in DOMAIN source.slaves
    BY <1>5
  <2>2. Declared(i - 1)' = Declared(i - 1)
    BY <1>1 DEF Declared
  <2>3. \A d \in Directions : Stated(i, d)' = Stated(i, d)
    BY <2>2 DEF Stated
  <2>4. ASSUME NEW d \in Directions PROVE Asked(i, d)' = Asked(i, d)
    <3>1. Wanted(Declared(i - 1)[d])' = Wanted(Declared(i - 1)[d])
      BY <1>1, <2>2 DEF Wanted
    <3>2. \A w : Contents(i - 1, Declared(i - 1)[d], w)' = Contents(i - 1, Declared(i - 1)[d], w)
      BY <1>1, <2>2 DEF Contents
    <3> QED
      BY <2>2, <3>1, <3>2 DEF Asked
  <2> QED
    BY <1>1, <1>3, <2>1, <2>2, <2>3, <2>4 DEF Given
<1> QED
  BY <1>2, <1>4, <1>6 DEF ConfigInv

\* The tables built of a slave hold its entries, outputs first, none placed.
LEMMA TablesMatch ==
    ASSUME NEW slave \in BusSlave, Valid(Tables(slave))
    PROVE  /\ Tables(slave) \in Loaded /\ Match(Tables(slave), slave)
           /\ Tables(slave).identity = slave.identity
<1> DEFINE pdos == slave.pdos
           views == EntryViews(pdos)
           t == Tables(slave)
<1>1. pdos \in [Directions -> Seq(Pdo)] /\ slave.id \in 0..(MaxSlaves - 1) /\ slave.identity \in Nat
  BY DEF BusSlave
<1>2. t = [id |-> slave.id, identity |-> slave.identity, syncs |-> Syncs(pdos), entries |-> views]
  BY DEF Tables, Syncs
<1>3. \A e \in ToSet(t.entries) : e.bits % 8 = 0
  BY DEF Valid
<1> HIDE DEF pdos, views, t
<1>4. views \in Seq(View)
  BY <1>1, EntryViewsFacts DEF views
<1>5. \A k \in 1..Len(views) : views[k].bits % 8 = 0
  <2>1. t.entries = views
    BY <1>2
  <2>2. \A k \in 1..Len(views) : views[k] \in ToSet(views)
    BY <1>4, FirstOf, LenProperties
  <2> QED
    BY <1>3, <2>1, <2>2
<1>6. Syncs(pdos) \in Seq(Sync)
  <2>1. pdos["out"] \in Seq(Pdo) /\ pdos["in"] \in Seq(Pdo)
    BY <1>1 DEF Directions
  <2>2. [direction |-> "out", pdos |-> pdos["out"]] \in Sync
        /\ [direction |-> "in", pdos |-> pdos["in"]] \in Sync
    BY <2>1 DEF Sync, Directions
  <2> QED
    BY <2>2 DEF Syncs
<1>7. t \in Loaded
  BY <1>1, <1>2, <1>4, <1>6 DEF Loaded
<1>8. Match(t, slave)
  BY <1>2, <1>5 DEF Match, views, pdos
<1> QED
  BY <1>2, <1>7, <1>8 DEF t

\* And so do all tables of a configuration.
LEMMA Tabling ==
    ASSUME NEW cfg \in Seq(BusSlave), NEW t, t = [i \in DOMAIN cfg |-> Tables(cfg[i])],
           \A s \in ToSet(t) : Valid(s)
    PROVE  /\ t \in Seq(Loaded) /\ Len(t) = Len(cfg)
           /\ \A i \in 1..Len(cfg) : Match(t[i], cfg[i]) /\ t[i].identity = cfg[i].identity
<1>1. DOMAIN cfg = 1..Len(cfg) /\ \A i \in DOMAIN cfg : cfg[i] \in BusSlave
  BY LenProperties, ElementOfSeq
<1>2. ASSUME NEW i \in DOMAIN cfg
      PROVE  /\ t[i] \in Loaded /\ Match(t[i], cfg[i]) /\ t[i].identity = cfg[i].identity
  <2>1. t[i] = Tables(cfg[i]) /\ t[i] \in ToSet(t)
    BY DEF ToSet
  <2>2. Valid(Tables(cfg[i]))
    BY <2>1
  <2> QED
    BY <1>1, <2>1, <2>2, TablesMatch
<1>3. t \in [DOMAIN cfg -> Loaded]
  BY <1>2
<1>4. t \in Seq(Loaded) /\ Len(t) = Len(cfg)
  BY <1>3, PlaceByPlace
<1> QED
  BY <1>1, <1>2, <1>4

\* One more generation of tables.
LEMMA OneMore ==
    ASSUME NEW S, NEW s \in Seq(S), NEW x \in S
    PROVE  /\ Append(s, x) \in Seq(S) /\ Len(Append(s, x)) = Len(s) + 1
           /\ Append(s, x)[Len(s) + 1] = x /\ Len(s) + 1 \in 1..(Len(s) + 1)
<1>1. Len(s) \in Nat
  BY LenProperties
<1> QED
  BY <1>1, AppendProperties

\* What is declared depends on the source alone.
LEMMA SourceStays ==
    ASSUME source' = source, NEW i
    PROVE  /\ Declared(i - 1)' = Declared(i - 1)
           /\ \A d \in Directions : Stated(i, d)' = Stated(i, d) /\ Asked(i, d)' = Asked(i, d)
<1>1. Declared(i - 1)' = Declared(i - 1)
  BY DEF Declared
<1>2. \A d \in Directions : Stated(i, d)' = Stated(i, d)
  BY <1>1 DEF Stated
<1>3. ASSUME NEW d \in Directions PROVE Asked(i, d)' = Asked(i, d)
  <2>1. Wanted(Declared(i - 1)[d])' = Wanted(Declared(i - 1)[d])
    BY <1>1 DEF Wanted
  <2>2. \A w : Contents(i - 1, Declared(i - 1)[d], w)' = Contents(i - 1, Declared(i - 1)[d], w)
    BY <1>1 DEF Contents
  <2> QED
    BY <1>1, <2>1, <2>2 DEF Asked
<1> QED
  BY <1>1, <1>2, <1>3

\* Building the tables keeps what was loaded.
LEMMA BuildKeeps ==
    ASSUME StartInv, ConfigInv, Build
    PROVE  StartInv' /\ ConfigInv' /\ TablesInv'
<1>1. /\ pc = "build" /\ view' = 1 /\ source' = source /\ config' = config /\ at' = at
      /\ image' = image /\ built = <<>> /\ at = 1 /\ source \in Sources
      /\ pc' = IF source.kind = "eni" THEN "identify" ELSE "discover"
      /\ config \in Seq(BusSlave) /\ Len(config) \in 1..MaxSlaves
      /\ \A i \in 1..Len(config) : Given(i)
      /\ image \in [Directions -> Seq(Byte)] /\ source.kind \in {"eni", "yaml"}
  BY SourceFacts DEF Build, StartInv, ConfigInv, Configured
<1> DEFINE t == [i \in DOMAIN config |-> Tables(config[i])]
<1>2. built' = Append(<<>>, t) /\ \A s \in ToSet(t) : Valid(s)
  BY <1>1 DEF Build
<1>3. /\ t \in Seq(Loaded) /\ Len(t) = Len(config)
      /\ \A i \in 1..Len(config) : Match(t[i], config[i]) /\ t[i].identity = config[i].identity
  <2>1. t = [i \in DOMAIN config |-> Tables(config[i])]
    OBVIOUS
  <2> HIDE DEF t
  <2> QED
    BY <1>1, <1>2, <2>1, Tabling
<1> HIDE DEF t
<1>4. built' \in Seq(Seq(Loaded)) /\ Len(built') = 1 /\ Slaves' = t
  <2>1. <<>> \in Seq(Seq(Loaded)) /\ Len(<<>>) = 0
    BY EmptySeq
  <2> DEFINE e == <<>>
  <2>2. e \in Seq(Seq(Loaded)) /\ Len(e) = 0
    BY <2>1
  <2> HIDE DEF e
  <2>3. Append(e, t) \in Seq(Seq(Loaded)) /\ Len(Append(e, t)) = 0 + 1 /\ Append(e, t)[0 + 1] = t
    BY <1>3, <2>2, OneMore
  <2>4. built' = Append(e, t)
    BY <1>2 DEF e
  <2> QED
    BY <1>1, <2>3, <2>4 DEF Slaves
<1>5. StartInv'
  BY <1>1, <1>4 DEF StartInv, Configured, Identified, Tabled
<1>6. ConfigInv'
  <2>1. ASSUME NEW i \in 1..Len(config) PROVE Given(i)'
    BY <1>1, SourceStays DEF Given
  <2> QED
    BY <1>1, <2>1 DEF ConfigInv
<1>7. TablesInv'
  <2>1. view' \in 1..Len(built') /\ Len(Slaves') = Len(config')
    BY <1>1, <1>3, <1>4
  <2>2. \A i \in 1..Len(config') :
          Match(Slaves'[i], config'[i]) /\ Slaves'[i].identity = config'[i].identity
    BY <1>1, <1>3, <1>4
  <2> QED
    BY <1>4, <2>1, <2>2 DEF TablesInv
<1> QED
  BY <1>5, <1>6, <1>7

\* Discovery fills what a YAML file left open, and gives what it asks for.
LEMMA StatedResolves ==
    ASSUME source.kind = "yaml", NEW i \in 1..MaxSlaves, NEW d \in Directions,
           Declared(i - 1)[d] \in Section, Distinct(Catalogue(Declared(i - 1)[d]))
    PROVE  /\ [j \in DOMAIN Stated(i, d) |-> Filled(i - 1, Stated(i, d)[j])] = Asked(i, d)
           /\ Asked(i, d) \in Seq(Pdo)
<1> DEFINE section == Declared(i - 1)[d]
           ps == section.pdos
<1>1. section \in Section /\ Distinct(Catalogue(section))
  OBVIOUS
<1>2. Stated(i, d) = [j \in DOMAIN ps |-> Mapping(ps[j])]
  BY DEF Stated
<1>3. Wanted(section) = [j \in DOMAIN ps |-> ps[j].index]
  BY DEF Wanted, Catalogue
<1>4. Asked(i, d) = [j \in DOMAIN Wanted(section) |->
         [index |-> Wanted(section)[j], entries |-> Contents(i - 1, section, Wanted(section)[j])]]
  BY DEF Asked
<1> HIDE DEF section
<1>5. Asked(i, d) = [j \in DOMAIN ps |->
         [index |-> ps[j].index, entries |-> Contents(i - 1, section, ps[j].index)]]
  BY <1>3, <1>4
<1>6. ASSUME NEW j \in DOMAIN ps
      PROVE  /\ Filled(i - 1, Mapping(ps[j])) =
                    [index |-> ps[j].index, entries |-> Contents(i - 1, section, ps[j].index)]
             /\ Filled(i - 1, Mapping(ps[j])) \in Pdo
  <2>1. TheOne(section, ps[j].index) = ps[j]
    BY <1>1, OnlyOne
  <2>2. Contents(i - 1, section, ps[j].index) =
            IF ps[j].entries = <<>> THEN Device[i - 1][ps[j].index] ELSE ps[j].entries
    BY <2>1 DEF Contents
  <2>3. ps[j].index \in Indexes /\ ps[j].entries \in Seq(Entry) /\ Mapping(ps[j]) \in Pdo
    BY <1>1, SectionFacts
  <2>4. Device[i - 1][ps[j].index] \in Seq(Entry)
    <3>1. MaxSlaves \in Nat /\ i - 1 \in 0..(MaxSlaves - 1)
      BY LimitsAssumption
    <3>2. Device \in [0..(MaxSlaves - 1) -> [Indexes -> Seq(Entry)]]
      BY LimitsAssumption
    <3> QED
      BY <2>3, <3>1, <3>2
  <2>5. Mapping(ps[j]) = [index |-> ps[j].index, entries |-> ps[j].entries]
    BY DEF Mapping
  <2>6. Filled(i - 1, Mapping(ps[j])) =
          [index |-> ps[j].index, entries |-> Contents(i - 1, section, ps[j].index)]
    BY <2>2, <2>5 DEF Filled
  <2>7. Contents(i - 1, section, ps[j].index) \in Seq(Entry)
    BY <2>2, <2>3, <2>4
  <2> QED
    BY <2>3, <2>6, <2>7 DEF Pdo
<1>7. [j \in DOMAIN Stated(i, d) |-> Filled(i - 1, Stated(i, d)[j])] = Asked(i, d)
  BY <1>2, <1>5, <1>6
<1> DEFINE g == Asked(i, d)
<1>8. g \in [DOMAIN ps -> Pdo] /\ ps \in Seq(Declaration)
  BY <1>1, <1>5, <1>6, SectionFacts
<1> HIDE DEF g, ps
<1>9. g \in Seq(Pdo)
  BY <1>8, PlaceByPlace
<1> QED
  BY <1>7, <1>9 DEF g

\* Discovery leaves the configuration and the tables with what is asked for.
LEMMA DiscoverKeeps ==
    ASSUME StartInv, ConfigInv, TablesInv, Discover
    PROVE  StartInv' /\ ConfigInv' /\ TablesInv'
<1>1. /\ pc = "discover" /\ pc' = "identify" /\ source' = source /\ at' = at
      /\ view' = Len(built') /\ source.kind = "yaml"
      /\ image' = image /\ at = 1 /\ source \in Sources
      /\ config \in Seq(BusSlave) /\ Len(config) \in 1..MaxSlaves
      /\ \A i \in 1..Len(config) : Given(i)
      /\ image \in [Directions -> Seq(Byte)] /\ built \in Seq(Seq(Loaded))
      /\ config' = [i \in DOMAIN config |-> Resolved(config[i])]
  BY DEF Discover, CurrentView, StartInv, ConfigInv, TablesInv, Tabled, Configured
<1>2. DOMAIN config = 1..Len(config) /\ Len(config) \in Nat
  BY <1>1, LenProperties
<1>3. ASSUME NEW i \in 1..Len(config)
      PROVE  /\ config'[i] \in BusSlave /\ config'[i].id = i - 1
             /\ config'[i].identity = Declared(i - 1).identity
             /\ \A d \in Directions : /\ config'[i].pdos[d] = Asked(i, d)
                                      /\ Declared(i - 1)[d] \in Section
                                      /\ Distinct(Catalogue(Declared(i - 1)[d]))
  <2> DEFINE s == config[i]
             p(d) == [j \in DOMAIN s.pdos[d] |-> Filled(s.id, s.pdos[d][j])]
  <2>1. s \in BusSlave /\ Given(i)
    BY <1>1, ElementOfSeq
  <2>2. config'[i] = [s EXCEPT !.pdos = [d \in Directions |-> p(d)]]
    BY <1>1, <1>2 DEF Resolved
  <2>3. /\ s.id = i - 1 /\ s.identity = Declared(i - 1).identity
        /\ \A d \in Directions : /\ Declared(i - 1)[d] \in Section
                                 /\ Distinct(Catalogue(Declared(i - 1)[d]))
                                 /\ s.pdos[d] = Stated(i, d)
    BY <1>1, <2>1 DEF Given
  <2> HIDE DEF s
  <2>4. ASSUME NEW d \in Directions PROVE p(d) = Asked(i, d) /\ p(d) \in Seq(Pdo)
    <3>1. i \in 1..MaxSlaves
      BY <1>1, <1>2, LimitsAssumption
    <3>2. p(d) = [j \in DOMAIN Stated(i, d) |-> Filled(i - 1, Stated(i, d)[j])]
      BY <2>3
    <3> HIDE DEF p
    <3> QED
      BY <1>1, <2>3, <3>1, <3>2, StatedResolves
  <2> HIDE DEF p
  <2>5. [d \in Directions |-> p(d)] \in [Directions -> Seq(Pdo)]
    BY <2>4
  <2>6. config'[i] = [id |-> s.id, identity |-> s.identity, pdos |-> [d \in Directions |-> p(d)]]
    BY <2>1, <2>2 DEF BusSlave
  <2>7. s.id \in 0..(MaxSlaves - 1) /\ s.identity \in Nat
    BY <2>1 DEF BusSlave
  <2>8. config'[i] \in BusSlave
    BY <2>5, <2>6, <2>7 DEF BusSlave
  <2> QED
    BY <2>3, <2>4, <2>6, <2>8
<1>4. config' \in Seq(BusSlave) /\ Len(config') = Len(config)
  <2> DEFINE g == config'
  <2>1. g \in [DOMAIN config -> BusSlave]
    BY <1>1, <1>2, <1>3
  <2> HIDE DEF g
  <2>2. g \in Seq(BusSlave) /\ Len(g) = Len(config)
    BY <1>1, <2>1, PlaceByPlace
  <2> QED
    BY <2>2 DEF g
<1> DEFINE t == [i \in DOMAIN config' |-> Tables(config'[i])]
<1>5. built' = Append(built, t) /\ \A s \in ToSet(t) : Valid(s)
  BY DEF Discover
<1>6. /\ t \in Seq(Loaded) /\ Len(t) = Len(config')
      /\ \A i \in 1..Len(config') : Match(t[i], config'[i]) /\ t[i].identity = config'[i].identity
  <2> DEFINE c == config'
  <2>1. c \in Seq(BusSlave) /\ t = [i \in DOMAIN c |-> Tables(c[i])]
    BY <1>4
  <2> HIDE DEF t, c
  <2>2. /\ t \in Seq(Loaded) /\ Len(t) = Len(c)
        /\ \A i \in 1..Len(c) : Match(t[i], c[i]) /\ t[i].identity = c[i].identity
    BY <1>5, <2>1, Tabling
  <2> QED
    BY <2>2 DEF c
<1> HIDE DEF t
<1>7. /\ built' \in Seq(Seq(Loaded)) /\ view' \in 1..Len(built') /\ Slaves' = t
      /\ Len(built') \in Nat
  <2>1. /\ Append(built, t) \in Seq(Seq(Loaded)) /\ Len(Append(built, t)) = Len(built) + 1
        /\ Append(built, t)[Len(built) + 1] = t /\ Len(built) + 1 \in 1..(Len(built) + 1)
    BY <1>1, <1>6, OneMore
  <2>2. Len(built) \in Nat
    BY <1>1, LenProperties
  <2> QED
    BY <1>1, <1>5, <2>1, <2>2 DEF Slaves
<1>8. StartInv'
  BY <1>1 DEF StartInv, Configured, Identified, Tabled
<1>9. ConfigInv'
  <2>1. ASSUME NEW i \in 1..Len(config) PROVE Given(i)'
    BY <1>1, <1>3, SourceStays DEF Given
  <2> QED
    BY <1>1, <1>4, <2>1 DEF ConfigInv
<1>10. TablesInv'
  BY <1>1, <1>4, <1>6, <1>7 DEF TablesInv
<1> QED
  BY <1>8, <1>9, <1>10

\* One element of a sequence replaced, the others stay.
LEMMA Replace ==
    ASSUME NEW S, NEW s \in Seq(S), NEW v \in 1..Len(s), NEW x \in S
    PROVE  /\ [s EXCEPT ![v] = x] \in Seq(S) /\ Len([s EXCEPT ![v] = x]) = Len(s)
           /\ [s EXCEPT ![v] = x][v] = x
           /\ \A i \in 1..Len(s) : i # v => [s EXCEPT ![v] = x][i] = s[i]
<1> DEFINE g == [s EXCEPT ![v] = x]
<1>1. DOMAIN s = 1..Len(s) /\ \A i \in DOMAIN s : s[i] \in S
  BY LenProperties, ElementOfSeq
<1>2. /\ g \in [DOMAIN s -> S] /\ g[v] = x /\ \A i \in 1..Len(s) : i # v => g[i] = s[i]
  BY <1>1
<1> HIDE DEF g
<1>3. g \in Seq(S) /\ Len(g) = Len(s)
  BY <1>2, PlaceByPlace
<1> QED
  BY <1>2, <1>3 DEF g

\* Match is about what neither Identify nor Register changes.
LEMMA MatchStays ==
    ASSUME NEW a, NEW b, NEW slave, Match(a, slave), b.id = a.id, b.syncs = a.syncs,
           Len(b.entries) = Len(a.entries),
           \A k \in 1..Len(a.entries) : /\ b.entries[k].direction = a.entries[k].direction
                                        /\ b.entries[k].object = a.entries[k].object
                                        /\ b.entries[k].bits = a.entries[k].bits
    PROVE  Match(b, slave)
  BY DEF Match

\* What holds of the tables before and after each of the later steps.
LEMMA TableTypes ==
    ASSUME StartInv, ConfigInv, TablesInv, pc \in {"identify"} \union Identified
    PROVE  /\ source \in Sources /\ built \in Seq(Seq(Loaded)) /\ view \in 1..Len(built)
           /\ view = Len(built) /\ Slaves \in Seq(Loaded) /\ Len(Slaves) = Len(config)
           /\ DOMAIN Slaves = 1..Len(config) /\ Len(config) \in 1..MaxSlaves /\ Len(config) \in Nat
           /\ config \in Seq(BusSlave)
           /\ \A i \in 1..Len(config) :
                /\ Slaves[i] \in Loaded /\ config[i] \in BusSlave
                /\ Match(Slaves[i], config[i]) /\ Given(i)
           /\ image \in [Directions -> Seq(Byte)]
<1>1. pc \in Tabled /\ pc \in Configured
  BY DEF Identified, Tabled, Configured
<1>2. /\ source \in Sources /\ built \in Seq(Seq(Loaded)) /\ view \in 1..Len(built)
      /\ view = Len(built) /\ Len(Slaves) = Len(config) /\ Len(config) \in 1..MaxSlaves
      /\ config \in Seq(BusSlave)
      /\ \A i \in 1..Len(config) : Match(Slaves[i], config[i]) /\ Given(i)
      /\ image \in [Directions -> Seq(Byte)]
  BY <1>1 DEF StartInv, ConfigInv, TablesInv
<1>3. Slaves \in Seq(Loaded)
  BY <1>2, ElementOfSeq DEF Slaves
<1>4. DOMAIN Slaves = 1..Len(config) /\ Len(config) \in Nat
  BY <1>2, <1>3, LenProperties
<1>5. \A i \in 1..Len(config) : Slaves[i] \in Loaded /\ config[i] \in BusSlave
  BY <1>2, <1>3, ElementOfSeq
<1> QED
  BY <1>2, <1>3, <1>4, <1>5

\* What is given of a slave stays given after discovery.
LEMMA GivenStays ==
    ASSUME source' = source, config' = config, pc \notin {"build", "discover"},
           pc' \notin {"build", "discover"}, NEW i, Given(i)
    PROVE  Given(i)'
<1>1. Declared(i - 1)' = Declared(i - 1) /\ \A d \in Directions : Asked(i, d)' = Asked(i, d)
  BY SourceStays
<1> QED
  BY <1>1 DEF Given

\* Taking the identities of the devices changes nothing else.
LEMMA IdentifyKeeps ==
    ASSUME StartInv, ConfigInv, TablesInv, Identify
    PROVE  StartInv' /\ ConfigInv' /\ TablesInv' /\ IdentitiesInv' /\ PlacedInv'
<1>1. /\ pc = "identify" /\ pc' = "register" /\ source' = source /\ config' = config
      /\ at' = at /\ view' = view /\ image' = image /\ at = 1
      /\ \A i \in DOMAIN Slaves : Slaves[i].identity \in {0, Identity[Slaves[i].id]}
      /\ identities' = [i \in DOMAIN Slaves |-> Identity[Slaves[i].id]]
  BY DEF Identify, StartInv
<1> DEFINE t == [i \in DOMAIN Slaves |-> [Slaves[i] EXCEPT !.identity = identities'[i]]]
<1>2. built' = [built EXCEPT ![view] = t]
  BY DEF Identify
<1>3. /\ source \in Sources /\ built \in Seq(Seq(Loaded)) /\ view \in 1..Len(built)
      /\ view = Len(built) /\ Slaves \in Seq(Loaded) /\ Len(Slaves) = Len(config)
      /\ DOMAIN Slaves = 1..Len(config) /\ Len(config) \in 1..MaxSlaves /\ Len(config) \in Nat
      /\ config \in Seq(BusSlave)
      /\ \A i \in 1..Len(config) :
           /\ Slaves[i] \in Loaded /\ config[i] \in BusSlave
           /\ Match(Slaves[i], config[i]) /\ Given(i)
      /\ image \in [Directions -> Seq(Byte)]
  BY <1>1, TableTypes
<1>4. \A i \in 1..Len(config) : Slaves[i].identity = config[i].identity
  BY <1>1 DEF TablesInv, Tabled
<1>5. ASSUME NEW i \in 1..Len(config)
      PROVE  /\ t[i] \in Loaded /\ Match(t[i], config[i])
             /\ identities'[i] = Identity[i - 1]
             /\ Declared(i - 1).identity \in {0, Identity[i - 1]}
  <2>1. Slaves[i].id = i - 1 /\ config[i].identity = Declared(i - 1).identity
        /\ i - 1 \in 0..(MaxSlaves - 1)
    BY <1>3 DEF Match, Given, BusSlave
  <2>2. identities'[i] = Identity[i - 1] /\ Declared(i - 1).identity \in {0, Identity[i - 1]}
    BY <1>1, <1>3, <1>4, <2>1
  <2>3. Identity[i - 1] \in Nat
    BY <2>1, LimitsAssumption
  <2>4. t[i] = [Slaves[i] EXCEPT !.identity = Identity[i - 1]]
    BY <1>3, <2>2
  <2> HIDE DEF t
  <2>5. /\ t[i] \in Loaded /\ t[i].id = Slaves[i].id /\ t[i].syncs = Slaves[i].syncs
        /\ t[i].entries = Slaves[i].entries
    BY <1>3, <2>3, <2>4 DEF Loaded
  <2>6. Match(t[i], config[i])
    BY <1>3, <2>5 DEF Match
  <2> QED
    BY <2>2, <2>5, <2>6
<1>6. t \in Seq(Loaded) /\ Len(t) = Len(config)
  <2>1. t \in [DOMAIN Slaves -> Loaded]
    BY <1>3, <1>5
  <2> DEFINE s == Slaves
  <2>2. s \in Seq(Loaded) /\ t \in [DOMAIN s -> Loaded] /\ Len(s) = Len(config)
    BY <1>3, <2>1
  <2> HIDE DEF t, s
  <2> QED
    BY <2>2, PlaceByPlace
<1> HIDE DEF t
<1>7. /\ built' \in Seq(Seq(Loaded)) /\ Len(built') = Len(built) /\ Slaves' = t
  BY <1>1, <1>2, <1>3, <1>6, Replace DEF Slaves
<1>8. StartInv'
  BY <1>1, <1>3, <1>7 DEF StartInv, Configured, Identified, Tabled
<1>9. ConfigInv'
  BY <1>1, <1>3, GivenStays DEF ConfigInv
<1>10. TablesInv'
  <2>1. view' \in 1..Len(built') /\ Len(Slaves') = Len(config')
    BY <1>1, <1>3, <1>6, <1>7
  <2>2. \A i \in 1..Len(config') : Match(Slaves'[i], config'[i])
    BY <1>1, <1>5, <1>7
  <2> QED
    BY <1>1, <1>7, <2>1, <2>2 DEF TablesInv
<1>11. IdentitiesInv'
  <2>1. DOMAIN identities' = 1..Len(config')
    BY <1>1, <1>3
  <2>2. \A i \in 1..Len(config) : Declared(i - 1)' = Declared(i - 1)
    BY <1>1, SourceStays
  <2> QED
    BY <1>1, <1>5, <2>1, <2>2 DEF IdentitiesInv
<1>12. PlacedInv'
  BY <1>1, <1>3 DEF PlacedInv, Identified
<1> QED
  BY <1>8, <1>9, <1>10, <1>11, <1>12

-----------------------------------------------------------------------------
(* The image grows at its end.                                             *)

\* What is in a, and what is in b, is found again in a \o b.
Joins(a, b, o, z) ==
    /\ o + z <= Len(a) =>
         /\ o + z <= Len(a \o b)
         /\ \A x \in 1..z : (a \o b)[o + x] = a[o + x]
    /\ o + z <= Len(b) =>
         /\ (Len(a) + o) + z <= Len(a \o b)
         /\ \A x \in 1..z : (a \o b)[(Len(a) + o) + x] = b[o + x]

\* The part of a concatenation that lies in its second sequence.
LEMMA Joined ==
    ASSUME NEW S, NEW a \in Seq(S), NEW b \in Seq(S), NEW o \in Nat, NEW z \in Nat
    PROVE  Joins(a, b, o, z)
<1>1. Len(a) \in Nat /\ Len(b) \in Nat
  BY LenProperties
<1>2. /\ Len(a \o b) = Len(a) + Len(b)
      /\ \A x \in 1..(Len(a) + Len(b)) :
           (a \o b)[x] = IF x <= Len(a) THEN a[x] ELSE b[x - Len(a)]
  BY ConcatProperties
<1>3. ASSUME o + z <= Len(a)
      PROVE  /\ o + z <= Len(a \o b)
             /\ \A x \in 1..z : (a \o b)[o + x] = a[o + x]
  <2>1. ASSUME NEW x \in 1..z PROVE (a \o b)[o + x] = a[o + x]
    <3>1. o + x \in 1..(Len(a) + Len(b)) /\ o + x <= Len(a)
      BY <1>1, <1>3
    <3> QED
      BY <1>2, <3>1
  <2> QED
    BY <1>1, <1>2, <1>3, <2>1
<1>4. ASSUME o + z <= Len(b)
      PROVE  /\ (Len(a) + o) + z <= Len(a \o b)
             /\ \A x \in 1..z : (a \o b)[(Len(a) + o) + x] = b[o + x]
  <2>1. ASSUME NEW x \in 1..z PROVE (a \o b)[(Len(a) + o) + x] = b[o + x]
    <3> DEFINE y == (Len(a) + o) + x
    <3>1. y \in 1..(Len(a) + Len(b)) /\ ~ (y <= Len(a)) /\ y - Len(a) = o + x
      BY <1>1, <1>4
    <3> HIDE DEF y
    <3>2. (a \o b)[y] = b[y - Len(a)]
      BY <1>2, <3>1
    <3> QED
      BY <3>1, <3>2 DEF y
  <2> QED
    BY <1>1, <1>2, <1>4, <2>1
<1> QED
  BY <1>3, <1>4 DEF Joins

Grown(img, more) == [d \in Directions |-> img[d] \o more[d]]

\* Bytes placed in an image stay where they are when it grows.
LEMMA ImageStays ==
    ASSUME NEW img \in [Directions -> Seq(Byte)], NEW more \in [Directions -> Seq(Byte)],
           NEW e \in View, InImage(img, e)
    PROVE  InImage(Grown(img, more), e)
<1> DEFINE d == e.direction
           a == img[d]
           b == more[d]
<1>1. d \in Directions /\ Size(e) \in Nat /\ e.offset \in Nat
  BY DEF View, Size
<1>2. a \in Seq(Byte) /\ b \in Seq(Byte) /\ Grown(img, more)[d] = a \o b
  BY <1>1 DEF Grown
<1>3. Bears(a, e.offset, e)
  BY DEF InImage
<1> HIDE DEF a, b, d
<1>4. Joins(a, b, e.offset, Size(e))
  BY <1>1, <1>2, Joined
<1>5. Bears(a \o b, e.offset, e)
  BY <1>3, <1>4 DEF Joins, Bears
<1> QED
  BY <1>2, <1>5 DEF InImage, d

\* Bytes appended are found at the old length and their place among the new.
LEMMA ImageGrows ==
    ASSUME NEW img \in [Directions -> Seq(Byte)], NEW more \in [Directions -> Seq(Byte)],
           NEW e \in View, NEW o \in Nat, e.offset = Len(img[e.direction]) + o,
           Bears(more[e.direction], o, e)
    PROVE  InImage(Grown(img, more), e)
<1> DEFINE d == e.direction
           a == img[d]
           b == more[d]
<1>1. d \in Directions /\ Size(e) \in Nat
  BY DEF View, Size
<1>2. a \in Seq(Byte) /\ b \in Seq(Byte) /\ Grown(img, more)[d] = a \o b
  BY <1>1 DEF Grown
<1>3. e.offset = Len(a) + o /\ Bears(b, o, e)
  OBVIOUS
<1> HIDE DEF a, b, d
<1>4. Joins(a, b, o, Size(e))
  BY <1>1, <1>2, Joined
<1>5. Bears(a \o b, Len(a) + o, e)
  BY <1>3, <1>4 DEF Joins, Bears
<1> QED
  BY <1>2, <1>3, <1>5 DEF InImage, d

\* Of the two sync managers one holds the entries of a direction.
LEMMA OneSync ==
    ASSUME NEW pdos \in [Directions -> Seq(Pdo)], NEW d \in Directions
    PROVE  FlattenSeq([n \in DOMAIN Syncs(pdos) |->
               IF Syncs(pdos)[n].direction = d THEN Laid(Syncs(pdos)[n].pdos) ELSE <<>>])
           = Laid(pdos[d])
<1> DEFINE out == IF d = "out" THEN Laid(pdos["out"]) ELSE <<>>
           in == IF d = "in" THEN Laid(pdos["in"]) ELSE <<>>
           g == [n \in DOMAIN Syncs(pdos) |->
                   IF Syncs(pdos)[n].direction = d THEN Laid(Syncs(pdos)[n].pdos) ELSE <<>>]
<1>1. Laid(pdos["out"]) \in Seq(Byte) /\ Laid(pdos["in"]) \in Seq(Byte)
  BY LaidFacts DEF Directions
<1>2. <<>> \in Seq(Byte)
  BY EmptySeq
<1>3. out \in Seq(Byte) /\ in \in Seq(Byte)
  BY <1>1, <1>2
<1>4. g = <<out, in>>
  <2>1. /\ DOMAIN Syncs(pdos) = 1..2
        /\ Syncs(pdos)[1].pdos = pdos["out"] /\ Syncs(pdos)[1].direction = "out"
        /\ Syncs(pdos)[2].pdos = pdos["in"] /\ Syncs(pdos)[2].direction = "in"
    BY DEF Syncs
  <2>2. g = [n \in 1..2 |-> IF n = 1 THEN out ELSE in]
    BY <2>1
  <2> HIDE DEF g, out, in
  <2>3. <<out, in>> = [n \in 1..2 |-> IF n = 1 THEN out ELSE in]
    OBVIOUS
  <2> QED
    BY <2>2, <2>3
<1>5. out \o in = Laid(pdos[d])
  <2>1. CASE d = "out"
    <3>1. out = Laid(pdos[d]) /\ in = <<>>
      BY <2>1
    <3> HIDE DEF out, in
    <3> QED
      BY <1>3, <3>1, ConcatEmptySeq
  <2>2. CASE d = "in"
    <3>1. in = Laid(pdos[d]) /\ out = <<>>
      BY <2>2
    <3> HIDE DEF out, in
    <3> QED
      BY <1>3, <3>1, ConcatEmptySeq
  <2> QED
    BY <2>1, <2>2 DEF Directions
<1> HIDE DEF out, in
<1>6. FlattenSeq(<<out, in>>) = out \o in
  BY <1>3, FlattenPair
<1> QED
  BY <1>4, <1>5, <1>6

\* What Register answers for the k-th entry.
Answer(pdos, k) == Len(image[Side(pdos, k)]) + Before(pdos[Side(pdos, k)], Spot(pdos, k))

\* Registering a slave puts every entry at its bytes, in the image of its direction.
LEMMA PlacedFacts ==
    ASSUME image \in [Directions -> Seq(Byte)], NEW loaded \in Loaded, NEW slave \in BusSlave,
           Match(loaded, slave)
    PROVE  LET n == Len(loaded.entries)
               pdos == slave.pdos IN
           /\ n = Outputs(pdos) + Inputs(pdos) /\ n \in Nat
           /\ Placed(loaded) \in Loaded /\ Match(Placed(loaded), slave)
           /\ Len(Placed(loaded).entries) = n
           /\ \A k \in 1..n :
                /\ Placed(loaded).entries[k] \in View
                /\ Placed(loaded).entries[k] =
                    [direction |-> Side(pdos, k), object |-> Nth(pdos, k).object,
                     bits |-> Nth(pdos, k).bits, offset |-> Answer(pdos, k)]
<1> DEFINE pdos == slave.pdos
           es == loaded.entries
           n == Len(es)
           walk == Walk(loaded.syncs)
           o(k) == Offset(loaded.syncs[walk[k].sync], walk[k].place)
           g == [k \in DOMAIN es |-> [es[k] EXCEPT !.offset = o(k)]]
<1>1. pdos \in [Directions -> Seq(Pdo)] /\ es \in Seq(View)
  BY DEF BusSlave, Loaded
<1>2. /\ loaded.syncs = Syncs(pdos) /\ n = Len(EntryViews(pdos))
      /\ \A k \in 1..n : /\ es[k].direction = EntryViews(pdos)[k].direction
                         /\ es[k].object = EntryViews(pdos)[k].object
                         /\ es[k].bits = EntryViews(pdos)[k].bits
  BY DEF Match
<1> HIDE DEF pdos, es
<1>3. n = Outputs(pdos) + Inputs(pdos) /\ n \in Nat /\ Outputs(pdos) \in Nat /\ Inputs(pdos) \in Nat
  BY <1>1, <1>2, EntryViewsFacts
<1>4. DOMAIN es = 1..n /\ \A k \in 1..n : es[k] \in View
  BY <1>1, LenProperties, ElementOfSeq
<1>5. Placed(loaded) = [loaded EXCEPT !.entries = g]
  BY DEF Placed, es
<1> HIDE DEF n, o
<1>6. ASSUME NEW k \in 1..n
      PROVE  o(k) = Answer(pdos, k) /\ o(k) \in Nat
  <2>1. k \in 1..(Outputs(pdos) + Inputs(pdos))
    BY <1>3
  <2>2. walk[k] = [sync |-> IF Side(pdos, k) = "out" THEN 1 ELSE 2, place |-> Spot(pdos, k)]
    BY <1>1, <1>2, <2>1, WalkFacts
  <2>3. /\ Side(pdos, k) \in Directions /\ pdos[Side(pdos, k)] \in Seq(Pdo)
        /\ Spot(pdos, k) \in 1..Len(Entries(pdos[Side(pdos, k)]))
    BY <1>1, <2>1, NthFacts
  <2> DEFINE sync == loaded.syncs[walk[k].sync]
  <2>4. sync.direction = Side(pdos, k) /\ sync.pdos = pdos[Side(pdos, k)]
    <3> HIDE DEF walk
    <3>1. CASE Side(pdos, k) = "out"
      BY <1>2, <2>2, <3>1 DEF Syncs
    <3>2. CASE Side(pdos, k) = "in"
      BY <1>2, <2>2, <3>2 DEF Syncs
    <3> QED
      BY <2>3, <3>1, <3>2 DEF Directions
  <2>5. o(k) = Offset(sync, Spot(pdos, k))
    BY <2>2 DEF o
  <2> HIDE DEF sync, walk
  <2>6. o(k) = Answer(pdos, k)
    BY <2>4, <2>5 DEF Offset, Answer, Before
  <2>7. Before(pdos[Side(pdos, k)], Spot(pdos, k)) \in Nat
    BY <2>3, LaidFacts
  <2>8. Len(image[Side(pdos, k)]) \in Nat
    <3>1. image[Side(pdos, k)] \in Seq(Byte)
      BY <2>3
    <3> QED
      BY <3>1, LenProperties
  <2> QED
    BY <2>6, <2>7, <2>8 DEF Answer
<1>7. ASSUME NEW k \in 1..n
      PROVE  /\ g[k] \in View
             /\ g[k] = [direction |-> Side(pdos, k), object |-> Nth(pdos, k).object,
                        bits |-> Nth(pdos, k).bits, offset |-> Answer(pdos, k)]
             /\ g[k].direction = es[k].direction /\ g[k].object = es[k].object
             /\ g[k].bits = es[k].bits
  <2>1. g[k] = [es[k] EXCEPT !.offset = o(k)]
    BY <1>4
  <2>2. es[k] \in View /\ o(k) \in Nat /\ o(k) = Answer(pdos, k)
    BY <1>4, <1>6
  <2>3. /\ EntryViews(pdos)[k].direction = Side(pdos, k)
        /\ EntryViews(pdos)[k].object = Nth(pdos, k).object
        /\ EntryViews(pdos)[k].bits = Nth(pdos, k).bits
    <3>1. k \in 1..(Outputs(pdos) + Inputs(pdos))
      BY <1>3
    <3>2. EntryViews(pdos)[k] =
             [direction |-> Side(pdos, k), object |-> Nth(pdos, k).object,
              bits |-> Nth(pdos, k).bits, offset |-> 0]
      BY <1>1, <3>1, EntryViewsFacts
    <3> QED
      BY <3>2
  <2> HIDE DEF g
  <2>4. g[k] = [direction |-> es[k].direction, object |-> es[k].object, bits |-> es[k].bits, offset |-> o(k)]
    BY <2>1, <2>2 DEF View
  <2> QED
    BY <1>2, <2>2, <2>3, <2>4 DEF View, n
<1>8. g \in Seq(View) /\ Len(g) = n
  <2>1. g \in [DOMAIN es -> View]
    BY <1>4, <1>7
  <2> HIDE DEF g
  <2> QED
    BY <1>1, <2>1, PlaceByPlace DEF n
<1> HIDE DEF g, walk
<1> DEFINE p == Placed(loaded)
<1>9. /\ p \in Loaded /\ p.entries = g /\ p.id = loaded.id /\ p.syncs = loaded.syncs
  BY <1>5, <1>8 DEF Loaded
<1> HIDE DEF p
<1>10. Match(p, slave)
  <2>1. Len(p.entries) = Len(loaded.entries)
    BY <1>8, <1>9 DEF n, es
  <2>2. \A k \in 1..Len(loaded.entries) :
          /\ p.entries[k].direction = loaded.entries[k].direction
          /\ p.entries[k].object = loaded.entries[k].object
          /\ p.entries[k].bits = loaded.entries[k].bits
    BY <1>7, <1>9 DEF n, es
  <2> QED
    BY <1>9, <2>1, <2>2, MatchStays
<1> QED
  BY <1>3, <1>7, <1>8, <1>9, <1>10 DEF n, es, pdos, p

\* Registering one slave keeps those registered before it where they are.
LEMMA RegisterKeeps ==
    ASSUME StartInv, ConfigInv, TablesInv, IdentitiesInv, PlacedInv, Register
    PROVE  StartInv' /\ ConfigInv' /\ TablesInv' /\ IdentitiesInv' /\ PlacedInv'
<1> DEFINE slave == config[at]
           pdos == slave.pdos
           own == Slaves[at]
           p == Placed(own)
           t == [Slaves EXCEPT ![at] = p]
           more == [d \in Directions |-> Laid(pdos[d])]
<1>1. /\ pc = "register" /\ source' = source /\ config' = config /\ view' = view
      /\ identities' = identities /\ at' = at + 1
      /\ pc' = IF at = Len(Slaves) THEN "prepare" ELSE "register"
      /\ built' = [built EXCEPT ![view] = t]
      /\ image' = [d \in Directions |-> image[d] \o FlattenSeq(
            [n \in DOMAIN own.syncs |->
                IF own.syncs[n].direction = d THEN Laid(own.syncs[n].pdos) ELSE <<>>])]
  BY DEF Register
<1>2. /\ source \in Sources /\ built \in Seq(Seq(Loaded)) /\ view \in 1..Len(built)
      /\ view = Len(built) /\ Slaves \in Seq(Loaded) /\ Len(Slaves) = Len(config)
      /\ DOMAIN Slaves = 1..Len(config) /\ Len(config) \in 1..MaxSlaves /\ Len(config) \in Nat
      /\ config \in Seq(BusSlave)
      /\ \A i \in 1..Len(config) :
           /\ Slaves[i] \in Loaded /\ config[i] \in BusSlave
           /\ Match(Slaves[i], config[i]) /\ Given(i)
      /\ image \in [Directions -> Seq(Byte)]
  BY <1>1, TableTypes DEF Identified
<1>3. at \in 1..Len(config) /\ \A i \in 1..Len(config) : i < at =>
          \A k \in 1..Len(Slaves[i].entries) : InImage(image, Slaves[i].entries[k])
  <2>1. pc = "register" /\ pc \in Identified
    BY <1>1 DEF Identified
  <2> QED
    BY <2>1 DEF PlacedInv
<1>4. slave \in BusSlave /\ own \in Loaded /\ Match(own, slave)
  BY <1>2, <1>3
<1>5. pdos \in [Directions -> Seq(Pdo)] /\ own.syncs = Syncs(pdos)
  BY <1>4 DEF BusSlave, Match
<1> HIDE DEF slave, own, t
<1>6. more \in [Directions -> Seq(Byte)]
  <2>1. \A d \in Directions : pdos[d] \in Seq(Pdo)
    BY <1>5
  <2>2. \A d \in Directions : Laid(pdos[d]) \in Seq(Byte)
    BY <2>1, LaidFacts
  <2> QED
    BY <2>2
<1> HIDE DEF pdos
<1>7. image' = Grown(image, more)
  <2>1. ASSUME NEW d \in Directions
        PROVE  FlattenSeq([n \in DOMAIN own.syncs |->
                 IF own.syncs[n].direction = d THEN Laid(own.syncs[n].pdos) ELSE <<>>]) = more[d]
    BY <1>5, OneSync
  <2> HIDE DEF more
  <2> QED
    BY <1>1, <2>1 DEF Grown
<1>8. /\ p \in Loaded /\ Match(p, slave) /\ Len(own.entries) \in Nat
      /\ Len(p.entries) = Len(own.entries)
      /\ Len(own.entries) = Outputs(pdos) + Inputs(pdos)
      /\ \A k \in 1..Len(own.entries) :
           /\ p.entries[k] \in View
           /\ p.entries[k] = [direction |-> Side(pdos, k), object |-> Nth(pdos, k).object,
                              bits |-> Nth(pdos, k).bits, offset |-> Answer(pdos, k)]
  BY <1>2, <1>4, PlacedFacts DEF pdos
<1> HIDE DEF p
<1>9. /\ t \in Seq(Loaded) /\ Len(t) = Len(config) /\ t[at] = p
      /\ \A i \in 1..Len(config) : i # at => t[i] = Slaves[i]
  <2> DEFINE s == Slaves
  <2>1. s \in Seq(Loaded) /\ Len(s) = Len(config) /\ t = [s EXCEPT ![at] = p] /\ at \in 1..Len(s)
    BY <1>2, <1>3 DEF t
  <2> HIDE DEF s
  <2>2. /\ t \in Seq(Loaded) /\ Len(t) = Len(s) /\ t[at] = p
        /\ \A i \in 1..Len(s) : i # at => t[i] = s[i]
    BY <1>8, <2>1, Replace
  <2> QED
    BY <2>1, <2>2 DEF s
<1>10. built' \in Seq(Seq(Loaded)) /\ Len(built') = Len(built) /\ Slaves' = t
  BY <1>1, <1>2, <1>9, Replace DEF Slaves
<1>11. image' \in [Directions -> Seq(Byte)]
  <2>1. ASSUME NEW d \in Directions PROVE image[d] \o more[d] \in Seq(Byte)
    <3>1. image[d] \in Seq(Byte) /\ more[d] \in Seq(Byte)
      BY <1>2, <1>6
    <3> HIDE DEF more
    <3> QED
      BY <3>1, ConcatProperties
  <2> HIDE DEF more
  <2> QED
    BY <1>7, <2>1 DEF Grown
<1>12. StartInv'
  BY <1>1, <1>2, <1>10, <1>11 DEF StartInv, Configured, Identified, Tabled
<1>13. ConfigInv'
  <2>1. ASSUME NEW i \in 1..Len(config) PROVE Given(i)'
    BY <1>1, <1>2, GivenStays
  <2> QED
    BY <1>1, <1>2, <2>1 DEF ConfigInv
<1>14. TablesInv'
  <2>1. view' \in 1..Len(built') /\ Len(Slaves') = Len(config')
    BY <1>1, <1>2, <1>9, <1>10
  <2>2. ASSUME NEW i \in 1..Len(config') PROVE Match(Slaves'[i], config'[i])
    <3>1. CASE i = at
      BY <1>1, <1>8, <1>9, <1>10, <3>1 DEF slave
    <3>2. CASE i # at
      BY <1>1, <1>2, <1>9, <1>10, <3>2
    <3> QED
      BY <3>1, <3>2
  <2> QED
    BY <1>1, <1>10, <2>1, <2>2 DEF TablesInv
<1>15. IdentitiesInv'
  <2>1. \A i \in 1..Len(config) : Declared(i - 1)' = Declared(i - 1)
    BY <1>1, SourceStays
  <2> QED
    BY <1>1, <2>1 DEF IdentitiesInv, Identified
<1>16. ASSUME NEW k \in 1..Len(p.entries) PROVE InImage(image', p.entries[k])
  <2> DEFINE e == p.entries[k]
             d == Side(pdos, k)
             i == Spot(pdos, k)
             o == Before(pdos[d], i)
             f == Entries(pdos[d])[i]
  <2>1. k \in 1..Len(own.entries) /\ k \in 1..(Outputs(pdos) + Inputs(pdos))
    BY <1>8
  <2>2. d \in Directions /\ pdos[d] \in Seq(Pdo) /\ i \in 1..Len(Entries(pdos[d]))
    BY <1>5, <2>1, NthFacts
  <2>3. e = [direction |-> d, object |-> Nth(pdos, k).object,
             bits |-> Nth(pdos, k).bits, offset |-> Answer(pdos, k)] /\ e \in View
    BY <1>8, <2>1
  <2>4. Nth(pdos, k) = f
    BY DEF Nth
  <2>5. /\ Size(f) \in Nat /\ o \in Nat /\ o + Size(f) <= Len(Laid(pdos[d]))
        /\ \A x \in 1..Size(f) :
             Laid(pdos[d])[o + x] = [object |-> f.object, byte |-> x]
    <3> HIDE DEF d, i
    <3> QED
      BY <2>2, LaidFacts
  <2>6. e.offset = Len(image[d]) + o
    BY <2>3 DEF Answer
  <2> HIDE DEF e, d, i, o, f
  <2>7. e.direction = d /\ Size(f) = Size(e) /\ f.object = e.object
    BY <2>3, <2>4 DEF Size
  <2>8. more[d] = Laid(pdos[d])
    BY <2>2
  <2> HIDE DEF more
  <2>9. Bears(more[d], o, e)
    BY <2>5, <2>7, <2>8 DEF Bears
  <2>10. InImage(Grown(image, more), e)
    BY <1>2, <1>6, <2>3, <2>5, <2>6, <2>7, <2>9, ImageGrows
  <2> QED
    BY <1>7, <2>10 DEF e
<1>17. PlacedInv'
  <2>1. ASSUME NEW i \in 1..Len(config), i < at + 1, NEW k \in 1..Len(t[i].entries)
        PROVE  InImage(image', t[i].entries[k])
    <3>1. CASE i = at
      BY <1>9, <1>16, <2>1, <3>1
    <3>2. CASE i # at
      <4>1. i < at /\ t[i] = Slaves[i] /\ Slaves[i] \in Loaded
        BY <1>2, <1>3, <1>9, <2>1, <3>2
      <4> DEFINE e == Slaves[i].entries[k]
      <4>2. e \in View
        BY <2>1, <4>1, ElementOfSeq DEF Loaded
      <4>3. InImage(image, e)
        <5>1. i \in 1..Len(config) /\ k \in 1..Len(Slaves[i].entries)
          BY <2>1, <4>1
        <5> QED
          BY <1>3, <4>1, <5>1
      <4> HIDE DEF e, more
      <4>4. InImage(Grown(image, more), e)
        BY <1>2, <1>6, <4>2, <4>3, ImageStays
      <4> QED
        BY <1>7, <4>1, <4>4 DEF e
    <3> QED
      BY <3>1, <3>2
  <2> DEFINE last == Len(config)
  <2>2. last \in Nat /\ at \in 1..last /\ Len(config') = last /\ at' = at + 1
    BY <1>1, <1>2, <1>3
  <2>3. IF at = last THEN pc' = "prepare" ELSE pc' = "register"
    BY <1>1, <1>2
  <2> HIDE DEF last
  <2>4. pc' = "register" => at' \in 1..Len(config')
    <3>1. CASE at = last
      BY <2>3, <3>1
    <3>2. CASE at # last
      BY <2>2, <3>2
    <3> QED
      BY <3>1, <3>2
  <2>5. pc' \in Identified \ {"register"} => at' = Len(config') + 1
    <3>1. CASE at = last
      BY <2>2, <3>1
    <3>2. CASE at # last
      BY <2>3, <3>2
    <3> QED
      BY <3>1, <3>2
  <2> QED
    BY <1>1, <1>10, <2>1, <2>4, <2>5 DEF PlacedInv
<1> QED
  BY <1>12, <1>13, <1>14, <1>15, <1>17

-----------------------------------------------------------------------------
(* What Apps find.                                                         *)

\* The size of an entry, in bytes.
LEMMA WholeBytes ==
    ASSUME NEW e \in View
    PROVE  Size(e) \in Nat /\ (e.bits % 8 = 0 => 8 * Size(e) = e.bits)
  BY DEF View, Size

\* The bytes at an entry's offset are that object's, in order.
LEMMA BearsSubSeq ==
    ASSUME NEW bytes \in Seq(Byte), NEW e \in View, Bears(bytes, e.offset, e)
    PROVE  SubSeq(bytes, e.offset + 1, e.offset + Size(e))
             = [b \in 1..Size(e) |-> [object |-> e.object, byte |-> b]]
<1> DEFINE o == e.offset
           n == Size(e)
<1>1. o \in Nat /\ n \in Nat /\ Len(bytes) \in Nat
  BY WholeBytes, LenProperties DEF View
<1>2. o + n <= Len(bytes) /\ \A b \in 1..n : bytes[o + b] = [object |-> e.object, byte |-> b]
  BY DEF Bears
<1> HIDE DEF o, n
<1>3. SubSeq(bytes, o + 1, o + n) = [b \in 1..n |-> bytes[o + b]]
  <2> DEFINE t == SubSeq(bytes, o + 1, o + n)
  <2>1. o + 1 \in Int /\ o + n \in Int /\ (o + n) - (o + 1) + 1 = n
        /\ \A i \in (o + 1)..(o + n) : i \in 1..Len(bytes)
    BY <1>1, <1>2
  <2>2. \A i \in (o + 1)..(o + n) : bytes[i] \in Byte
    BY <2>1, ElementOfSeq
  <2>3. /\ t \in Seq(Byte) /\ Len(t) = IF o + 1 <= o + n THEN (o + n) - (o + 1) + 1 ELSE 0
        /\ \A i \in 1..((o + n) - (o + 1) + 1) : t[i] = bytes[(o + 1) + i - 1]
    BY <2>1, <2>2, SubSeqProperties
  <2> HIDE DEF t
  <2>4. Len(t) = n
    BY <1>1, <2>1, <2>3
  <2>5. DOMAIN t = 1..n /\ t = [b \in DOMAIN t |-> t[b]]
    BY <2>3, <2>4, LenProperties
  <2>6. \A b \in 1..n : t[b] = bytes[o + b]
    <3>1. \A b \in 1..n : (o + 1) + b - 1 = o + b
      BY <1>1
    <3> QED
      BY <2>1, <2>3, <3>1
  <2>7. t = [b \in 1..n |-> bytes[o + b]]
    BY <2>5, <2>6
  <2> QED
    BY <2>7 DEF t
<1> QED
  BY <1>2, <1>3 DEF o, n

\* The place of the k-th entry of a direction in the flat list.
Flat(pdos, d, k) == IF d = "out" THEN k ELSE Outputs(pdos) + k

\* The views of one direction are the entries declared for it, in order.
LEMMA Shown ==
    ASSUME NEW loaded \in Loaded, NEW slave \in BusSlave, Match(loaded, slave),
           NEW d \in Directions, NEW img \in [Directions -> Seq(Byte)],
           \A k \in 1..Len(loaded.entries) : InImage(img, loaded.entries[k])
    PROVE  LET es == InDirection(loaded.entries, d)
               ex == Entries(slave.pdos[d]) IN
           /\ es \in Seq(View) /\ ex \in Seq(Entry) /\ Len(es) = Len(ex) /\ Len(ex) \in Nat
           /\ \A k \in 1..Len(ex) :
                /\ es[k].object = ex[k].object /\ 8 * Size(es[k]) = ex[k].bits
                /\ SubSeq(img[d], es[k].offset + 1, es[k].offset + Size(es[k]))
                     = [b \in 1..Size(es[k]) |-> [object |-> ex[k].object, byte |-> b]]
<1> DEFINE pdos == slave.pdos
           all == loaded.entries
           es == InDirection(all, d)
           ex == Entries(pdos[d])
           m == Outputs(pdos)
           n == Inputs(pdos)
<1>1. pdos \in [Directions -> Seq(Pdo)] /\ all \in Seq(View)
  BY DEF BusSlave, Loaded
<1>2. /\ Len(all) = Len(EntryViews(pdos))
      /\ \A k \in 1..Len(all) : /\ all[k].direction = EntryViews(pdos)[k].direction
                                /\ all[k].object = EntryViews(pdos)[k].object
                                /\ all[k].bits = EntryViews(pdos)[k].bits
                                /\ all[k].bits % 8 = 0
  BY DEF Match
<1>3. \A k \in 1..Len(all) : InImage(img, all[k])
  OBVIOUS
<1> HIDE DEF pdos, all
<1>4. m \in Nat /\ n \in Nat /\ Len(all) = m + n /\ ex \in Seq(Entry) /\ Len(ex) \in Nat
      /\ Len(ex) = IF d = "out" THEN m ELSE n
  <2>1. pdos[d] \in Seq(Pdo)
    BY <1>1
  <2>2. ex \in Seq(Entry) /\ Len(ex) \in Nat
    BY <2>1, EntriesType
  <2>3. Len(ex) = IF d = "out" THEN m ELSE n
    BY DEF Outputs, Inputs, Directions
  <2> QED
    BY <1>1, <1>2, <2>2, <2>3, EntryViewsFacts
<1> HIDE DEF m, n, ex
<1>5. ASSUME NEW k \in 1..(m + n)
      PROVE  /\ all[k] \in View /\ all[k].direction = Side(pdos, k)
             /\ all[k].object = Nth(pdos, k).object /\ all[k].bits = Nth(pdos, k).bits
             /\ all[k].bits % 8 = 0 /\ InImage(img, all[k])
  <2>1. EntryViews(pdos)[k] =
             [direction |-> Side(pdos, k), object |-> Nth(pdos, k).object,
              bits |-> Nth(pdos, k).bits, offset |-> 0]
    BY <1>1, EntryViewsFacts DEF m, n
  <2>2. k \in 1..Len(all)
    BY <1>4
  <2>3. all[k] \in View
    BY <1>1, <2>2, ElementOfSeq
  <2> QED
    BY <1>2, <1>3, <2>1, <2>2, <2>3
<1>6. \A k \in 1..m : k \in 1..(m + n) /\ Side(pdos, k) = "out" /\ all[k].direction = "out"
  <2>1. ASSUME NEW k \in 1..m PROVE k \in 1..(m + n) /\ Side(pdos, k) = "out"
    BY <1>4 DEF Side, m
  <2> QED
    BY <1>5, <2>1
<1>7. \A k \in 1..n : m + k \in 1..(m + n) /\ Side(pdos, m + k) = "in" /\ all[m + k].direction = "in"
  <2>1. ASSUME NEW k \in 1..n PROVE m + k \in 1..(m + n) /\ ~ (m + k <= m)
    BY <1>4
  <2>2. ASSUME NEW k \in 1..n PROVE Side(pdos, m + k) = "in"
    BY <2>1 DEF Side, m
  <2> QED
    BY <1>5, <2>1, <2>2
<1>8. /\ InDirection(all, "out") = [k \in 1..m |-> all[k]]
      /\ InDirection(all, "in") = [k \in 1..n |-> all[m + k]]
      /\ InDirection(all, "out") \in Seq(View) /\ Len(InDirection(all, "out")) = m
      /\ InDirection(all, "in") \in Seq(View) /\ Len(InDirection(all, "in")) = n
  <2>1. \A k \in 1..m : all[k].direction = "out"
    BY <1>6
  <2>2. \A k \in 1..n : all[m + k].direction = "in"
    BY <1>7
  <2>3. all \in Seq(View) /\ m \in Nat /\ n \in Nat /\ Len(all) = m + n
    BY <1>1, <1>4
  <2> QED
    BY <2>1, <2>2, <2>3, InDirectionFacts
<1>9. es \in Seq(View) /\ Len(es) = Len(ex)
  BY <1>4, <1>8 DEF Directions
<1>10. ASSUME NEW k \in 1..Len(ex)
       PROVE  LET f == Flat(pdos, d, k) IN
              f \in 1..(m + n) /\ es[k] = all[f] /\ Side(pdos, f) = d /\ Spot(pdos, f) = k
  <2>1. CASE d = "out"
    <3>1. k \in 1..m /\ Flat(pdos, d, k) = k
      BY <1>4, <2>1 DEF Flat
    <3>2. Spot(pdos, k) = k
      BY <1>4, <3>1 DEF Spot, m
    <3> QED
      BY <1>6, <1>8, <2>1, <3>1, <3>2
  <2>2. CASE d = "in"
    <3>1. k \in 1..n /\ Flat(pdos, d, k) = m + k
      BY <1>4, <2>2 DEF Flat, m
    <3>2. ~ (m + k <= m) /\ (m + k) - m = k
      BY <1>4, <3>1
    <3>3. Spot(pdos, m + k) = k
      BY <3>2 DEF Spot, m
    <3> QED
      BY <1>7, <1>8, <2>2, <3>1, <3>3
  <2> QED
    BY <2>1, <2>2 DEF Directions
<1> HIDE DEF es
<1>11. ASSUME NEW k \in 1..Len(ex)
       PROVE  /\ es[k].object = ex[k].object /\ 8 * Size(es[k]) = ex[k].bits
              /\ SubSeq(img[d], es[k].offset + 1, es[k].offset + Size(es[k]))
                   = [b \in 1..Size(es[k]) |-> [object |-> ex[k].object, byte |-> b]]
  <2> DEFINE e == es[k]
             f == Flat(pdos, d, k)
  <2>1. f \in 1..(m + n) /\ e = all[f] /\ Side(pdos, f) = d /\ Spot(pdos, f) = k
    BY <1>10
  <2> HIDE DEF e, f
  <2>2. Nth(pdos, f) = ex[k]
    BY <2>1 DEF Nth, ex
  <2>3. /\ e \in View /\ e.direction = d /\ e.object = ex[k].object /\ e.bits = ex[k].bits
        /\ e.bits % 8 = 0 /\ InImage(img, e)
    BY <1>5, <2>1, <2>2
  <2>4. img[d] \in Seq(Byte) /\ Bears(img[d], e.offset, e)
    BY <2>3 DEF InImage
  <2>5. SubSeq(img[d], e.offset + 1, e.offset + Size(e))
             = [b \in 1..Size(e) |-> [object |-> e.object, byte |-> b]]
    BY <2>3, <2>4, BearsSubSeq
  <2>6. 8 * Size(e) = e.bits
    BY <2>3, WholeBytes
  <2> QED
    BY <2>3, <2>5, <2>6 DEF e
<1> QED
  BY <1>4, <1>9, <1>11 DEF es, ex, all, pdos

\* The variables expected of a slave are the entries asked for.
LEMMA ExpectedEntries ==
    ASSUME NEW i, NEW d
    PROVE  Expected(i - 1, d) = Entries(Asked(i, d))
<1> DEFINE section == Declared(i - 1)[d]
           w == Wanted(section)
           c(j) == Contents(i - 1, section, w[j])
           asked == [j \in DOMAIN w |-> [index |-> w[j], entries |-> c(j)]]
<1>1. Asked(i, d) = asked /\ Expected(i - 1, d) = FlattenSeq([j \in DOMAIN w |-> c(j)])
  BY DEF Asked, Expected
<1> HIDE DEF w, c
<1>2. [j \in DOMAIN asked |-> asked[j].entries] = [j \in DOMAIN w |-> c(j)]
  OBVIOUS
<1> QED
  BY <1>1, <1>2 DEF Entries

\* What is expected depends on the source alone.
LEMMA ExpectedStays ==
    ASSUME source' = source, NEW i, NEW d \in Directions
    PROVE  Expected(i - 1, d)' = Expected(i - 1, d)
<1>1. Declared(i - 1)' = Declared(i - 1)
  BY SourceStays
<1>2. Wanted(Declared(i - 1)[d])' = Wanted(Declared(i - 1)[d])
  BY <1>1 DEF Wanted
<1>3. \A w : Contents(i - 1, Declared(i - 1)[d], w)' = Contents(i - 1, Declared(i - 1)[d], w)
  BY <1>1 DEF Contents
<1> QED
  BY <1>1, <1>2, <1>3 DEF Expected

\* The published variables are numbered as the entries asked for.
ShapeInv ==
    pc = "run" =>
        /\ DOMAIN published = 1..Len(config)
        /\ \A i \in 1..Len(config) : \A d \in Directions :
             LET n == Len(Entries(config[i].pdos[d])) IN
             DOMAIN published[i].vars[d] = 1..n /\ Len(published[i].vars[d]) = n

\* The steps that only read the tables.
LEMMA ReadingKeeps ==
    ASSUME StartInv, ConfigInv, TablesInv, IdentitiesInv, PlacedInv,
           pc \in Identified \ {"register"}, pc' \in Identified \ {"register"},
           UNCHANGED <<source, config, at, built, view, identities, image>>
    PROVE  StartInv' /\ ConfigInv' /\ TablesInv' /\ IdentitiesInv' /\ PlacedInv'
<1>1. /\ source' = source /\ config' = config /\ at' = at /\ built' = built /\ view' = view
      /\ identities' = identities /\ image' = image
      /\ pc \in Identified /\ pc' \in Identified /\ pc # "register" /\ pc' # "register"
      /\ pc \notin {"load", "build", "discover", "identify"}
      /\ pc' \notin {"load", "build", "discover", "identify"}
  BY DEF Identified
<1>2. Slaves' = Slaves
  BY <1>1 DEF Slaves
<1>3. /\ source \in Sources /\ Len(config) \in 1..MaxSlaves /\ config \in Seq(BusSlave)
      /\ view \in 1..Len(built) /\ view = Len(built) /\ built \in Seq(Seq(Loaded))
      /\ Len(Slaves) = Len(config) /\ image \in [Directions -> Seq(Byte)]
      /\ \A i \in 1..Len(config) : Match(Slaves[i], config[i]) /\ Given(i)
  BY <1>1, TableTypes
<1>4. StartInv'
  BY <1>1, <1>3 DEF StartInv, Identified, Tabled, Configured
<1>5. ConfigInv'
  <2>1. ASSUME NEW i \in 1..Len(config) PROVE Given(i)'
    BY <1>1, <1>3, GivenStays
  <2> QED
    BY <1>1, <1>3, <2>1 DEF ConfigInv
<1>6. TablesInv'
  BY <1>1, <1>2, <1>3 DEF TablesInv
<1>7. IdentitiesInv'
  <2>1. \A i \in 1..Len(config) : Declared(i - 1)' = Declared(i - 1)
    BY <1>1, SourceStays
  <2> QED
    BY <1>1, <2>1 DEF IdentitiesInv
<1>8. PlacedInv'
  BY <1>1, <1>2 DEF PlacedInv
<1> QED
  BY <1>4, <1>5, <1>6, <1>7, <1>8

\* When the layout is published, every variable is its object.
LEMMA PublishShows ==
    ASSUME StartInv, ConfigInv, TablesInv, IdentitiesInv, PlacedInv, Publish
    PROVE  VariablesAreTheirObjects' /\ ShapeInv'
<1>1. /\ pc = "publish" /\ pc' = "run" /\ source' = source /\ image' = image /\ config' = config
      /\ published' = [i \in DOMAIN Last(built) |->
           [identity |-> identities[i],
            vars |-> [d \in Directions |->
               LET es == InDirection(Last(built)[i].entries, d) IN
               [k \in DOMAIN es |-> PdVar(es[k])]]]]
  BY DEF Publish
<1>2. /\ source \in Sources /\ view = Len(built) /\ DOMAIN Slaves = 1..Len(config)
      /\ image \in [Directions -> Seq(Byte)] /\ Len(config) \in Nat
      /\ \A i \in 1..Len(config) :
           /\ Slaves[i] \in Loaded /\ config[i] \in BusSlave
           /\ Match(Slaves[i], config[i]) /\ Given(i)
  BY <1>1, TableTypes DEF Identified
<1>3. Last(built) = Slaves
  BY <1>2 DEF Last, Slaves
<1>4. at = Len(config) + 1 /\ \A i \in 1..Len(config) : i < at =>
          \A k \in 1..Len(Slaves[i].entries) : InImage(image, Slaves[i].entries[k])
  BY <1>1 DEF PlacedInv, Identified
<1>5. \A i \in 1..Len(config) : /\ identities[i] = Identity[i - 1]
                                /\ Declared(i - 1).identity \in {0, Identity[i - 1]}
  BY <1>1 DEF IdentitiesInv, Identified
<1>6. DOMAIN published' = 1..Len(config)
  BY <1>1, <1>2, <1>3
<1>7. ASSUME NEW i \in 1..Len(config)
      PROVE  /\ published'[i].identity = Identity[i - 1]
             /\ Declared(i - 1)'.identity \in {0, Identity[i - 1]}
             /\ \A d \in Directions :
                  LET es == InDirection(Slaves[i].entries, d) IN
                  published'[i].vars[d] = [k \in DOMAIN es |-> PdVar(es[k])]
  <2>1. Declared(i - 1)' = Declared(i - 1)
    BY <1>1, SourceStays
  <2> QED
    BY <1>1, <1>2, <1>3, <1>5, <2>1
<1>8. ASSUME NEW i \in DOMAIN published', NEW d \in Directions
      PROVE  LET vs == published'[i].vars[d]
                 ex == Expected(i - 1, d)'
                 n == Len(Entries(config[i].pdos[d]))
             IN  /\ Len(vs) = Len(ex) /\ DOMAIN vs = 1..n /\ Len(vs) = n
                 /\ \A k \in DOMAIN vs :
                      /\ vs[k].object = ex[k].object /\ 8 * vs[k].size = ex[k].bits
                      /\ SubSeq(image'[d], vs[k].offset + 1, vs[k].offset + vs[k].size)
                           = [b \in 1..vs[k].size |-> [object |-> ex[k].object, byte |-> b]]
  <2>i. i \in 1..Len(config)
    BY <1>6
  <2> DEFINE es == InDirection(Slaves[i].entries, d)
             ex == Entries(Asked(i, d))
             vs == [k \in DOMAIN es |-> PdVar(es[k])]
  <2>1. published'[i].vars[d] = vs
    BY <1>7, <2>i
  <2>2. Expected(i - 1, d)' = ex
    BY <1>1, ExpectedStays, ExpectedEntries
  <2>3. config[i].pdos[d] = Asked(i, d)
    BY <1>1, <1>2, <2>i DEF Given
  <2>4. \A k \in 1..Len(Slaves[i].entries) : InImage(image, Slaves[i].entries[k])
    BY <1>4, <2>i
  <2>5. /\ es \in Seq(View) /\ Len(es) = Len(ex) /\ Len(ex) \in Nat
        /\ \A k \in 1..Len(ex) :
             /\ es[k].object = ex[k].object /\ 8 * Size(es[k]) = ex[k].bits
             /\ SubSeq(image[d], es[k].offset + 1, es[k].offset + Size(es[k]))
                  = [b \in 1..Size(es[k]) |-> [object |-> ex[k].object, byte |-> b]]
    <3> DEFINE loaded == Slaves[i]
               slave == config[i]
               all == Entries(slave.pdos[d])
    <3>1. loaded \in Loaded /\ slave \in BusSlave /\ Match(loaded, slave)
          /\ \A k \in 1..Len(loaded.entries) : InImage(image, loaded.entries[k])
      BY <1>2, <2>i, <2>4
    <3>2. es = InDirection(loaded.entries, d) /\ all = ex
      BY <2>3
    <3> HIDE DEF loaded, slave, es, ex
    <3>3. LET fs == InDirection(loaded.entries, d) IN
          /\ fs \in Seq(View) /\ all \in Seq(Entry) /\ Len(fs) = Len(all) /\ Len(all) \in Nat
          /\ \A k \in 1..Len(all) :
               /\ fs[k].object = all[k].object /\ 8 * Size(fs[k]) = all[k].bits
               /\ SubSeq(image[d], fs[k].offset + 1, fs[k].offset + Size(fs[k]))
                    = [b \in 1..Size(fs[k]) |-> [object |-> all[k].object, byte |-> b]]
      BY <1>2, <3>1, Shown, ZenonT(40)
    <3> QED
      BY <3>2, <3>3
  <2> HIDE DEF es, ex
  <2>6. DOMAIN es = 1..Len(ex) /\ DOMAIN vs = 1..Len(ex)
    BY <2>5, LenProperties
  <2>7. \A k \in 1..Len(ex) : /\ vs[k].object = es[k].object /\ vs[k].offset = es[k].offset
                              /\ vs[k].size = Size(es[k])
    BY <2>6 DEF PdVar
  <2> HIDE DEF vs
  <2>8. Len(vs) = Len(ex)
    <3>1. vs \in [1..Len(ex) -> {PdVar(es[k]) : k \in DOMAIN es}]
      BY <2>6 DEF vs
    <3> QED
      BY <2>5, <3>1, GivenByElements
  <2>9. ASSUME NEW k \in 1..Len(ex)
        PROVE  /\ vs[k].object = ex[k].object /\ 8 * vs[k].size = ex[k].bits
               /\ SubSeq(image'[d], vs[k].offset + 1, vs[k].offset + vs[k].size)
                    = [b \in 1..vs[k].size |-> [object |-> ex[k].object, byte |-> b]]
    BY <1>1, <2>5, <2>7
  <2> QED
    BY <2>1, <2>2, <2>3, <2>6, <2>8, <2>9 DEF ex
<1>9. \A i \in DOMAIN published' : \A d \in Directions :
               LET vs == published'[i].vars[d]
                   ex == Expected(i - 1, d)'
               IN  /\ Len(vs) = Len(ex)
                   /\ \A k \in DOMAIN vs :
                        /\ vs[k].object = ex[k].object /\ 8 * vs[k].size = ex[k].bits
                        /\ SubSeq(image'[d], vs[k].offset + 1, vs[k].offset + vs[k].size)
                             = [b \in 1..vs[k].size |-> [object |-> ex[k].object, byte |-> b]]
  BY <1>8
<1>10. \A i \in DOMAIN published' : published'[i].identity = Identity[i - 1]
  BY <1>6, <1>7
<1>11. \A i \in DOMAIN published' : Declared(i - 1)'.identity \in {0, Identity[i - 1]}
  BY <1>6, <1>7
<1>12. VariablesAreTheirObjects'
  BY <1>9, <1>10, <1>11, Zenon DEF VariablesAreTheirObjects
<1>13. ShapeInv'
  <2>1. ASSUME NEW i \in 1..Len(config), NEW d \in Directions
        PROVE  LET n == Len(Entries(config[i].pdos[d])) IN
               DOMAIN published'[i].vars[d] = 1..n /\ Len(published'[i].vars[d]) = n
    BY <1>6, <1>8
  <2> QED
    BY <1>1, <1>6, <2>1 DEF ShapeInv
<1> QED
  BY <1>12, <1>13

-----------------------------------------------------------------------------
(* Counting the fields of a sequence of checks.                            *)

Fields == {"AssignmentCount", "Assignment", "MappingCount", "MappingEntry"}
Values == Nat \union Indexes \union Entry
Checked == [slave : Nat, direction : Directions, field : Fields, value : Values]

\* A sequence whose elements are all in a set is one over that set.
LEMMA SeqOfOthers ==
    ASSUME NEW S, NEW T, NEW s \in Seq(S), \A k \in 1..Len(s) : s[k] \in T
    PROVE  s \in Seq(T)
<1>1. Len(s) \in Nat /\ s \in [1..Len(s) -> T]
  BY LenProperties
<1> QED
  BY <1>1, GivenByElements

\* A property that concatenation keeps holds of what is put together.
Closed(G, S) ==
    /\ G \subseteq Seq(S) /\ <<>> \in G
    /\ \A a, b \in G : a \o b \in G

\* What is closed under concatenation is closed under joining.
LEMMA FlattenClosed ==
    ASSUME NEW S, NEW G, Closed(G, S), NEW ss \in Seq(Seq(S)),
           \A i \in 1..Len(ss) : ss[i] \in G
    PROVE  FlattenSeq(ss) \in G
<1> DEFINE n == Len(ss)
           T == {m \in 0..n : Prefix(ss, m) \in G}
<1>1. n \in Nat
  BY LenProperties
<1>2. 0 \in T
  BY <1>1, PrefixFacts DEF Closed
<1> HIDE DEF n
<1>3. ASSUME NEW m \in 0..(n - 1), m \in T PROVE m + 1 \in T
  <2>1. m \in 0..(Len(ss) - 1) /\ m + 1 \in 1..Len(ss) /\ m + 1 \in 0..n
    BY <1>1 DEF n
  <2>2. Prefix(ss, m + 1) = Prefix(ss, m) \o ss[m + 1] /\ ss[m + 1] \in G
    BY <2>1, PrefixFacts
  <2> QED
    BY <1>3, <2>1, <2>2 DEF Closed
<1>4. n \in T
  <2>1. \A m \in 0..n : m \in T
    <3> HIDE DEF T
    <3> QED
      BY <1>1, <1>2, <1>3, Climb
  <2> QED
    BY <1>1, <2>1
<1> QED
  BY <1>1, <1>4, PrefixFacts DEF n

\* The set I of places, moved by o.
Moved(I, o) == {o + i : i \in I}

\* Places moved along are as many.
LEMMA MovedCount ==
    ASSUME NEW n \in Nat, NEW I \in SUBSET (1..n), NEW o \in Nat
    PROVE  /\ IsFiniteSet(I) /\ IsFiniteSet(Moved(I, o))
           /\ Cardinality(I) \in Nat /\ Cardinality(Moved(I, o)) = Cardinality(I)
<1>1. IsFiniteSet(I)
  <2>1. IsFiniteSet(1..n)
    BY FS_Interval
  <2> QED
    BY <2>1, FS_Subset
<1> DEFINE f == [i \in I |-> o + i]
<1>2. f \in Bijection(I, Moved(I, o))
  <2>1. f \in [I -> Moved(I, o)]
    BY DEF Moved
  <2>2. \A i, j \in I : f[i] = f[j] => i = j
    OBVIOUS
  <2>3. \A y \in Moved(I, o) : \E i \in I : f[i] = y
    BY DEF Moved
  <2> HIDE DEF f
  <2> QED
    BY <2>1, <2>2, <2>3, Fun_IsBij
<1>3. ExistsBijection(I, Moved(I, o))
  BY <1>2 DEF ExistsBijection
<1> QED
  BY <1>1, <1>3, FS_Bijection, FS_CardinalityType

Places(s, field) == {k \in DOMAIN s : s[k].field = field}

\* Checks of one field are counted part by part.
LEMMA PlacesConcat ==
    ASSUME NEW a \in Seq(Checked), NEW b \in Seq(Checked), NEW field
    PROVE  Cardinality(Places(a \o b, field)) = Cardinality(Places(a, field)) + Cardinality(Places(b, field))
<1> DEFINE A == Places(a, field)
           B == Places(b, field)
           n == Len(a)
<1>1. /\ a \o b \in Seq(Checked) /\ Len(a \o b) = n + Len(b) /\ n \in Nat /\ Len(b) \in Nat
      /\ \A i \in 1..(n + Len(b)) : (a \o b)[i] = IF i <= n THEN a[i] ELSE b[i - n]
      /\ DOMAIN a = 1..n /\ DOMAIN b = 1..Len(b) /\ DOMAIN (a \o b) = 1..(n + Len(b))
  BY ConcatProperties, LenProperties
<1>2. A \in SUBSET (1..n) /\ B \in SUBSET (1..Len(b))
  BY <1>1 DEF Places
<1>3. Places(a \o b, field) = A \union Moved(B, n)
  <2>1. ASSUME NEW k \in 1..(n + Len(b)) PROVE (a \o b)[k].field = field <=> k \in A \union Moved(B, n)
    <3>1. CASE k <= n
      <4>1. k \in 1..n /\ k \notin Moved(B, n)
        BY <1>1, <1>2, <3>1 DEF Moved
      <4> QED
        BY <1>1, <3>1, <4>1 DEF Places
    <3>2. CASE ~ (k <= n)
      <4>1. k \notin A /\ k - n \in 1..Len(b) /\ n + (k - n) = k
        BY <1>1, <1>2, <3>2
      <4>2. k \in Moved(B, n) <=> k - n \in B
        BY <1>1, <1>2, <4>1 DEF Moved
      <4> QED
        BY <1>1, <3>2, <4>1, <4>2 DEF Places
    <3> QED
      BY <3>1, <3>2
  <2>2. A \union Moved(B, n) \subseteq 1..(n + Len(b))
    BY <1>1, <1>2 DEF Moved
  <2> QED
    BY <1>1, <2>1, <2>2 DEF Places
<1>4. A \cap Moved(B, n) = {}
  BY <1>1, <1>2 DEF Moved
<1>5. /\ IsFiniteSet(A) /\ Cardinality(A) \in Nat
      /\ IsFiniteSet(Moved(B, n)) /\ Cardinality(Moved(B, n)) = Cardinality(B) /\ Cardinality(B) \in Nat
  <2>1. IsFiniteSet(A) /\ Cardinality(A) \in Nat
    BY <1>1, <1>2, MovedCount
  <2> QED
    BY <1>1, <1>2, <2>1, MovedCount
<1> HIDE DEF A, B, n
<1>6. Cardinality(A \union Moved(B, n)) = Cardinality(A) + Cardinality(Moved(B, n)) - Cardinality({})
  BY <1>4, <1>5, FS_Union
<1> QED
  BY <1>3, <1>5, <1>6, FS_EmptySet DEF A, B

\* A piece begins with a field that ends what went before.
Begins(s, others) == s = <<>> \/ s[1].field \in others

\* Where two parts count right and start with a count, their concatenation does.
LEMMA CountedConcat ==
    ASSUME NEW a \in Seq(Checked), NEW b \in Seq(Checked), NEW count, NEW item, NEW others,
           Counted(a, count, item, others), Counted(b, count, item, others),
           Begins(a, others), Begins(b, others)
    PROVE  Counted(a \o b, count, item, others) /\ Begins(a \o b, others)
<1> DEFINE n == Len(a)
           c == a \o b
<1>1. /\ c \in Seq(Checked) /\ Len(c) = n + Len(b) /\ n \in Nat /\ Len(b) \in Nat
      /\ \A i \in 1..(n + Len(b)) : c[i] = IF i <= n THEN a[i] ELSE b[i - n]
      /\ DOMAIN a = 1..n /\ DOMAIN b = 1..Len(b) /\ DOMAIN c = 1..(n + Len(b))
  BY ConcatProperties, LenProperties
<1> HIDE DEF c, n
<1>2. \A i \in 1..n : i \in DOMAIN c /\ c[i] = a[i]
  BY <1>1
<1>3. \A i \in 1..Len(b) : n + i \in DOMAIN c /\ c[n + i] = b[i]
  <2>1. ASSUME NEW i \in 1..Len(b) PROVE n + i \in 1..(n + Len(b)) /\ ~ (n + i <= n) /\ (n + i) - n = i
    BY <1>1
  <2> QED
    BY <1>1, <2>1
<1>4. ASSUME NEW k \in 1..n PROVE Following(c, k, item, others) = Following(a, k, item, others)
  <2>1. ASSUME NEW x \in 1..n
        PROVE  x \in Following(c, k, item, others) <=> x \in Following(a, k, item, others)
    <3>1. \A m \in (k + 1)..x : m \in 1..n
      BY <1>1
    <3> QED
      BY <1>1, <1>2, <3>1 DEF Following
  <2>2. ASSUME NEW x \in 1..(n + Len(b)), ~ (x <= n)
        PROVE  x \notin Following(c, k, item, others)
    <3>1. 1 \in 1..Len(b) /\ n + 1 \in (k + 1)..x
      BY <1>1, <2>2
    <3>2. c[n + 1].field \in others
      <4>1. b # <<>>
        BY <1>1, <3>1
      <4> QED
        BY <1>3, <3>1, <4>1 DEF Begins
    <3> QED
      BY <3>1, <3>2 DEF Following
  <2>3. \A x \in Following(c, k, item, others) : x \in 1..(n + Len(b))
    BY <1>1 DEF Following
  <2>4. \A x \in Following(a, k, item, others) : x \in 1..n
    BY <1>1 DEF Following
  <2>5. \A x \in 1..(n + Len(b)) : x <= n => x \in 1..n
    BY <1>1
  <2> QED
    BY <2>1, <2>2, <2>3, <2>4, <2>5
<1>5. ASSUME NEW k \in 1..Len(b)
      PROVE  Following(c, n + k, item, others) = Moved(Following(b, k, item, others), n)
  <2>1. ASSUME NEW x \in 1..Len(b)
        PROVE  n + x \in Following(c, n + k, item, others) <=> x \in Following(b, k, item, others)
    <3>1. n + k < n + x <=> k < x
      BY <1>1
    <3>2. /\ \A m \in (k + 1)..x : m \in 1..Len(b) /\ n + m \in (n + k + 1)..(n + x)
          /\ \A m \in (n + k + 1)..(n + x) : m - n \in (k + 1)..x /\ n + (m - n) = m
      BY <1>1
    <3>3. (\A m \in (n + k + 1)..(n + x) : c[m].field \notin others)
            <=> (\A m \in (k + 1)..x : b[m].field \notin others)
      BY <1>3, <3>2
    <3> QED
      BY <1>1, <1>3, <3>1, <3>3 DEF Following
  <2>2. ASSUME NEW x \in Following(c, n + k, item, others)
        PROVE  x - n \in 1..Len(b) /\ n + (x - n) = x
    BY <1>1 DEF Following
  <2>3. \A x \in Following(b, k, item, others) : x \in 1..Len(b)
    BY <1>1 DEF Following
  <2> QED
    BY <2>1, <2>2, <2>3 DEF Moved
<1>6. ASSUME NEW k \in DOMAIN c, c[k].field = count
      PROVE  c[k].value = Cardinality(Following(c, k, item, others))
  <2>1. CASE k <= n
    <3>1. k \in 1..n /\ k \in DOMAIN a /\ c[k] = a[k]
      BY <1>1, <2>1
    <3> QED
      BY <1>4, <1>6, <3>1 DEF Counted
  <2>2. CASE ~ (k <= n)
    <3> DEFINE j == k - n
    <3>1. j \in 1..Len(b) /\ j \in DOMAIN b /\ n + j = k
      BY <1>1, <2>2
    <3> HIDE DEF j
    <3>2. c[k] = b[j]
      BY <1>3, <3>1
    <3>3. Following(c, k, item, others) = Moved(Following(b, j, item, others), n)
      BY <1>5, <3>1
    <3>4. Following(b, j, item, others) \in SUBSET (1..Len(b))
      BY <1>1 DEF Following
    <3>5. Cardinality(Moved(Following(b, j, item, others), n)) = Cardinality(Following(b, j, item, others))
      BY <1>1, <3>4, MovedCount
    <3> QED
      BY <1>6, <3>1, <3>2, <3>3, <3>5 DEF Counted
  <2> QED
    BY <2>1, <2>2
<1>7. Begins(c, others)
  <2>1. CASE a = <<>>
    BY <2>1, ConcatEmptySeq DEF c
  <2>2. CASE a # <<>>
    <3>1. 1 \in 1..n
      BY <1>1, <2>2, EmptySeq DEF n
    <3> QED
      BY <1>2, <2>2, <3>1 DEF Begins
  <2> QED
    BY <2>1, <2>2
<1> QED
  BY <1>6, <1>7 DEF Counted, c

\* The checks of one PDO, and those of a sync manager with their count.
Mappings(slave, d, pdo) ==
    [j \in DOMAIN pdo.entries |-> Check(slave, d, "MappingEntry", pdo.entries[j])]

PdoHead(slave, d, pdo) ==
    <<Check(slave, d, "Assignment", pdo.index), Check(slave, d, "MappingCount", Len(pdo.entries))>>

PdoChecks(slave, d, pdo) == PdoHead(slave, d, pdo) \o Mappings(slave, d, pdo)

PerPdo(slave, sync) ==
    [i \in DOMAIN sync.pdos |-> PdoChecks(slave, sync.direction, sync.pdos[i])]

SyncHead(slave, sync) == <<Check(slave, sync.direction, "AssignmentCount", Len(sync.pdos))>>

\* The checks of a sync manager: the assignment count, then those of each PDO.
LEMMA SyncChecksSplit ==
    ASSUME NEW slave, NEW sync
    PROVE  SyncChecks(slave, sync) = SyncHead(slave, sync) \o FlattenSeq(PerPdo(slave, sync))
  BY DEF SyncChecks, SyncHead, PerPdo, PdoChecks, PdoHead, Mappings

\* A check, field by field.
LEMMA CheckFacts ==
    ASSUME NEW slave, slave.id \in Nat, NEW d \in Directions, NEW field \in Fields,
           NEW value \in Values
    PROVE  LET c == Check(slave, d, field, value) IN
           /\ c \in Checked /\ c.slave = slave.id /\ c.direction = d
           /\ c.field = field /\ c.value = value
  BY DEF Check, Checked

\* A sequence of one,
LEMMA OnePiece ==
    ASSUME NEW S, NEW x \in S
    PROVE  <<x>> \in Seq(S) /\ Len(<<x>>) = 1 /\ <<x>>[1] = x /\ DOMAIN <<x>> = 1..1
  OBVIOUS

\* and of two.
LEMMA TwoPieces ==
    ASSUME NEW S, NEW x \in S, NEW y \in S
    PROVE  /\ <<x, y>> \in Seq(S) /\ Len(<<x, y>>) = 2 /\ DOMAIN <<x, y>> = 1..2
           /\ <<x, y>>[1] = x /\ <<x, y>>[2] = y
  OBVIOUS

\* What the checks of one PDO are, place by place.
LEMMA PdoChecksFacts ==
    ASSUME NEW slave, slave.id \in Nat, NEW d \in Directions, NEW pdo \in Pdo
    PROVE  LET s == PdoChecks(slave, d, pdo)
               n == Len(pdo.entries) IN
           /\ s \in Seq(Checked) /\ Len(s) = 2 + n /\ n \in Nat /\ DOMAIN s = 1..(2 + n)
           /\ s[1].field = "Assignment" /\ s[2].field = "MappingCount" /\ s[2].value = n
           /\ \A k \in 1..(2 + n) : s[k].slave = slave.id /\ s[k].direction = d
           /\ \A k \in 1..n : /\ s[2 + k].field = "MappingEntry"
                              /\ s[2 + k].value = pdo.entries[k]
           /\ PdoHead(slave, d, pdo) \in Seq(Checked) /\ Len(PdoHead(slave, d, pdo)) = 2
           /\ Mappings(slave, d, pdo) \in Seq(Checked) /\ Len(Mappings(slave, d, pdo)) = n
<1> DEFINE h == PdoHead(slave, d, pdo)
           t == Mappings(slave, d, pdo)
           s == h \o t
           n == Len(pdo.entries)
<1>1. /\ n \in Nat /\ DOMAIN pdo.entries = 1..n /\ pdo.index \in Values
      /\ n \in Values /\ \A k \in 1..n : pdo.entries[k] \in Values
  <2>1. pdo.entries \in Seq(Entry) /\ pdo.index \in Indexes
    BY DEF Pdo
  <2> QED
    BY <2>1, LenProperties, ElementOfSeq DEF Values
<1> HIDE DEF n
<1> DEFINE x == Check(slave, d, "Assignment", pdo.index)
           y == Check(slave, d, "MappingCount", Len(pdo.entries))
           z(k) == Check(slave, d, "MappingEntry", pdo.entries[k])
<1>2. /\ x \in Checked /\ x.slave = slave.id /\ x.direction = d /\ x.field = "Assignment"
      /\ y \in Checked /\ y.slave = slave.id /\ y.direction = d /\ y.field = "MappingCount"
      /\ y.value = n
  <2>1. "Assignment" \in Fields /\ pdo.index \in Values
    BY <1>1 DEF Fields
  <2>2. "MappingCount" \in Fields /\ Len(pdo.entries) \in Values
    BY <1>1 DEF Fields, n
  <2>3. /\ x \in Checked /\ x.slave = slave.id /\ x.direction = d /\ x.field = "Assignment"
    BY <2>1, CheckFacts
  <2>4. /\ y \in Checked /\ y.slave = slave.id /\ y.direction = d /\ y.field = "MappingCount"
        /\ y.value = Len(pdo.entries)
    BY <2>2, CheckFacts
  <2> QED
    BY <2>3, <2>4 DEF n
<1>3. ASSUME NEW k \in 1..n
      PROVE  /\ z(k) \in Checked /\ z(k).slave = slave.id /\ z(k).direction = d
             /\ z(k).field = "MappingEntry" /\ z(k).value = pdo.entries[k]
  <2> DEFINE v == pdo.entries[k]
  <2>1. "MappingEntry" \in Fields /\ v \in Values
    BY <1>1 DEF Fields
  <2> HIDE DEF v
  <2>2. LET c == Check(slave, d, "MappingEntry", v) IN
        c \in Checked /\ c.slave = slave.id /\ c.direction = d /\ c.field = "MappingEntry"
        /\ c.value = v
    BY <2>1, CheckFacts
  <2> QED
    BY <2>2 DEF v
<1>4. /\ h = <<x, y>> /\ t = [k \in 1..n |-> z(k)]
  BY <1>1 DEF PdoHead, Mappings
<1> HIDE DEF x, y, z, h, t
<1>5. h \in Seq(Checked) /\ Len(h) = 2 /\ h[1] = x /\ h[2] = y
  BY <1>2, <1>4, TwoPieces
<1>6. t \in Seq(Checked) /\ Len(t) = n /\ \A k \in 1..n : t[k] = z(k)
  <2>1. t \in [1..n -> Checked] /\ \A k \in 1..n : t[k] = z(k)
    BY <1>3, <1>4
  <2> QED
    BY <1>1, <2>1, GivenByElements
<1>7. /\ s \in Seq(Checked) /\ Len(s) = 2 + n
      /\ \A i \in 1..(2 + n) : s[i] = IF i <= 2 THEN h[i] ELSE t[i - 2]
  <2>1. /\ s \in Seq(Checked) /\ Len(s) = Len(h) + Len(t)
        /\ \A i \in 1..(Len(h) + Len(t)) : s[i] = IF i <= Len(h) THEN h[i] ELSE t[i - Len(h)]
    BY <1>5, <1>6, ConcatProperties
  <2> HIDE DEF s
  <2> QED
    BY <1>5, <1>6, <2>1
<1>8. DOMAIN s = 1..(2 + n)
  BY <1>7, LenProperties
<1> HIDE DEF s
<1>9. s[1] = x /\ s[2] = y
  <2>1. 1 \in 1..(2 + n) /\ 2 \in 1..(2 + n)
    BY <1>1
  <2> QED
    BY <1>5, <1>7, <2>1
<1>10. ASSUME NEW k \in 1..n PROVE s[2 + k] = z(k)
  <2>1. 2 + k \in 1..(2 + n) /\ ~ (2 + k <= 2) /\ (2 + k) - 2 = k
    BY <1>1
  <2>2. s[2 + k] = t[(2 + k) - 2]
    BY <1>7, <2>1
  <2> QED
    BY <1>6, <2>1, <2>2
<1>11. ASSUME NEW k \in 1..(2 + n) PROVE s[k].slave = slave.id /\ s[k].direction = d
  <2>1. CASE k = 1 \/ k = 2
    BY <1>2, <1>9, <2>1
  <2>2. CASE ~ (k = 1 \/ k = 2)
    <3> DEFINE j == k - 2
    <3>1. j \in 1..n /\ 2 + j = k
      BY <1>1, <2>2
    <3> HIDE DEF j
    <3> QED
      BY <1>3, <1>10, <3>1
  <2> QED
    BY <2>1, <2>2
<1>12. s = PdoChecks(slave, d, pdo)
  BY DEF PdoChecks, s, h, t
<1> QED
  BY <1>1, <1>2, <1>3, <1>5, <1>6, <1>7, <1>8, <1>9, <1>10, <1>11, <1>12 DEF n, h, t

\* The checks of a sync manager: their types, and the count at their head.
LEMMA SyncChecksFacts ==
    ASSUME NEW slave, slave.id \in Nat, NEW sync \in Sync
    PROVE  LET h == SyncHead(slave, sync)
               s == SyncChecks(slave, sync)
               pp == PerPdo(slave, sync)
               n == Len(sync.pdos) IN
           /\ h \in Seq(Checked) /\ Len(h) = 1 /\ DOMAIN h = 1..1
           /\ h[1].field = "AssignmentCount" /\ h[1].value = n
           /\ h[1].slave = slave.id /\ h[1].direction = sync.direction
           /\ pp \in Seq(Seq(Checked)) /\ Len(pp) = n /\ n \in Nat
           /\ \A i \in 1..n : /\ sync.pdos[i] \in Pdo
                              /\ pp[i] = PdoChecks(slave, sync.direction, sync.pdos[i])
           /\ FlattenSeq(pp) \in Seq(Checked) /\ s \in Seq(Checked)
           /\ s = h \o FlattenSeq(pp)
<1> DEFINE h == SyncHead(slave, sync)
           s == SyncChecks(slave, sync)
           pp == PerPdo(slave, sync)
           n == Len(sync.pdos)
<1>1. /\ n \in Nat /\ DOMAIN sync.pdos = 1..n /\ sync.direction \in Directions
      /\ \A i \in 1..n : sync.pdos[i] \in Pdo
  <2>1. sync.pdos \in Seq(Pdo) /\ sync.direction \in Directions
    BY DEF Sync
  <2> QED
    BY <2>1, LenProperties, ElementOfSeq
<1>2. /\ h \in Seq(Checked) /\ Len(h) = 1 /\ DOMAIN h = 1..1
      /\ h[1].field = "AssignmentCount" /\ h[1].value = n
      /\ h[1].slave = slave.id /\ h[1].direction = sync.direction
  <2> DEFINE x == Check(slave, sync.direction, "AssignmentCount", n)
  <2>1. "AssignmentCount" \in Fields /\ n \in Values
    BY <1>1 DEF Fields, Values
  <2>2. /\ x \in Checked /\ x.field = "AssignmentCount" /\ x.value = n /\ x.slave = slave.id
        /\ x.direction = sync.direction
    BY <1>1, <2>1, CheckFacts
  <2>3. h = <<x>>
    BY DEF SyncHead
  <2> HIDE DEF x, h, n
  <2> QED
    BY <2>2, <2>3, OnePiece
<1>3. /\ pp \in Seq(Seq(Checked)) /\ Len(pp) = n
      /\ \A i \in 1..n : pp[i] = PdoChecks(slave, sync.direction, sync.pdos[i])
  <2>1. ASSUME NEW i \in 1..n PROVE PdoChecks(slave, sync.direction, sync.pdos[i]) \in Seq(Checked)
    BY <1>1, PdoChecksFacts
  <2>2. pp = [i \in 1..n |-> PdoChecks(slave, sync.direction, sync.pdos[i])]
    BY <1>1 DEF PerPdo
  <2>3. pp \in [1..n -> Seq(Checked)]
    BY <2>1, <2>2
  <2> HIDE DEF pp, n
  <2>4. pp \in Seq(Seq(Checked)) /\ Len(pp) = n
    BY <1>1, <2>3, GivenByElements
  <2> QED
    BY <2>2, <2>4
<1>4. FlattenSeq(pp) \in Seq(Checked)
  BY <1>3, FlattenType
<1>5. s = h \o FlattenSeq(pp)
  BY SyncChecksSplit
<1>6. s \in Seq(Checked)
  BY <1>2, <1>4, <1>5, ConcatProperties
<1> QED
  BY <1>1, <1>2, <1>3, <1>4, <1>5, <1>6

WellCounted(count, item, others) ==
    {s \in Seq(Checked) : Counted(s, count, item, others) /\ Begins(s, others)}

\* The counts of what is put together from well counted pieces are right.
LEMMA WellCountedClosed ==
    ASSUME NEW count, NEW item, NEW others
    PROVE  Closed(WellCounted(count, item, others), Checked)
<1> DEFINE G == WellCounted(count, item, others)
<1>1. G \subseteq Seq(Checked)
  BY DEF WellCounted
<1>2. <<>> \in G
  BY EmptySeq DEF WellCounted, Counted, Begins
<1>3. ASSUME NEW a \in G, NEW b \in G PROVE a \o b \in G
  <2>1. /\ a \in Seq(Checked) /\ Counted(a, count, item, others) /\ Begins(a, others)
        /\ b \in Seq(Checked) /\ Counted(b, count, item, others) /\ Begins(b, others)
    BY DEF WellCounted
  <2>2. a \o b \in Seq(Checked)
    BY <2>1, ConcatProperties
  <2>3. Counted(a \o b, count, item, others) /\ Begins(a \o b, others)
    BY <2>1, CountedConcat
  <2> QED
    BY <2>2, <2>3 DEF WellCounted
<1> QED
  BY <1>1, <1>2, <1>3 DEF Closed

MappingEnds == {"AssignmentCount", "Assignment", "MappingCount"}

\* In the checks of a PDO the mapping count is followed by as many entries.
LEMMA PdoCounted ==
    ASSUME NEW slave, slave.id \in Nat, NEW d \in Directions, NEW pdo \in Pdo
    PROVE  PdoChecks(slave, d, pdo) \in WellCounted("MappingCount", "MappingEntry", MappingEnds)
<1> DEFINE s == PdoChecks(slave, d, pdo)
           n == Len(pdo.entries)
<1>1. /\ s \in Seq(Checked) /\ n \in Nat /\ DOMAIN s = 1..(2 + n)
      /\ s[1].field = "Assignment" /\ s[2].field = "MappingCount" /\ s[2].value = n
      /\ \A k \in 1..n : s[2 + k].field = "MappingEntry"
  BY PdoChecksFacts
<1> HIDE DEF s, n
<1>2. \A k \in 1..(2 + n) : k = 1 \/ k = 2 \/ (k - 2 \in 1..n /\ 2 + (k - 2) = k)
  BY <1>1
<1>3. \A k \in 3..(2 + n) : s[k].field = "MappingEntry"
  <2>1. ASSUME NEW k \in 3..(2 + n) PROVE s[k].field = "MappingEntry"
    <3>1. k - 2 \in 1..n /\ 2 + (k - 2) = k
      BY <1>1
    <3> QED
      BY <1>1, <3>1
  <2> QED
    BY <2>1
<1>4. Following(s, 2, "MappingEntry", MappingEnds) = 3..(2 + n)
  <2>1. ASSUME NEW k \in 3..(2 + n) PROVE k \in Following(s, 2, "MappingEntry", MappingEnds)
    <3>1. \A m \in (2 + 1)..k : m \in 3..(2 + n)
      BY <1>1
    <3>2. k \in 1..(2 + n) /\ 2 < k
      BY <1>1
    <3> QED
      BY <1>1, <1>3, <3>1, <3>2 DEF Following, MappingEnds
  <2>2. ASSUME NEW k \in Following(s, 2, "MappingEntry", MappingEnds) PROVE k \in 3..(2 + n)
    BY <1>1 DEF Following
  <2> QED
    BY <2>1, <2>2
<1>5. Cardinality(3..(2 + n)) = n
  <2>1. Cardinality(3..(2 + n)) = IF 3 > 2 + n THEN 0 ELSE (2 + n) - 3 + 1
    BY <1>1, FS_Interval
  <2> QED
    BY <1>1, <2>1
<1>6. ASSUME NEW c \in DOMAIN s, s[c].field = "MappingCount" PROVE c = 2
  <2>1. c \in 1..(2 + n)
    BY <1>1
  <2>2. c = 1 \/ c = 2 \/ c \in 3..(2 + n)
    BY <1>1, <2>1
  <2> QED
    BY <1>1, <1>3, <1>6, <2>2
<1>7. Counted(s, "MappingCount", "MappingEntry", MappingEnds)
  BY <1>1, <1>4, <1>5, <1>6 DEF Counted
<1> QED
  BY <1>1, <1>7 DEF WellCounted, Begins, MappingEnds, s

\* So are all mapping counts in the checks of a sync manager,
LEMMA SyncMappingsCounted ==
    ASSUME NEW slave, slave.id \in Nat, NEW sync \in Sync
    PROVE  SyncChecks(slave, sync) \in WellCounted("MappingCount", "MappingEntry", MappingEnds)
<1> DEFINE h == SyncHead(slave, sync)
           s == SyncChecks(slave, sync)
           pp == PerPdo(slave, sync)
           G == WellCounted("MappingCount", "MappingEntry", MappingEnds)
<1>1. /\ h \in Seq(Checked) /\ DOMAIN h = 1..1 /\ h[1].field = "AssignmentCount"
      /\ pp \in Seq(Seq(Checked)) /\ s = h \o FlattenSeq(pp)
      /\ \A i \in 1..Len(pp) : /\ sync.pdos[i] \in Pdo
                               /\ pp[i] = PdoChecks(slave, sync.direction, sync.pdos[i])
  BY SyncChecksFacts
<1>2. sync.direction \in Directions
  BY DEF Sync
<1> HIDE DEF h, s, pp
<1>3. h \in G
  <2>1. \A c \in DOMAIN h : h[c].field # "MappingCount"
    BY <1>1
  <2> QED
    BY <1>1, <2>1 DEF WellCounted, Counted, Begins, MappingEnds
<1>4. \A i \in 1..Len(pp) : pp[i] \in G
  BY <1>1, <1>2, PdoCounted, ZenonT(40)
<1>5. Closed(G, Checked)
  BY WellCountedClosed
<1> HIDE DEF G
<1>6. FlattenSeq(pp) \in G
  BY <1>1, <1>4, <1>5, FlattenClosed
<1>7. s \in G
  BY <1>1, <1>3, <1>5, <1>6 DEF Closed
<1> QED
  BY <1>7 DEF s, G

Without(field) == {c \in Checked : c.field # field}

\* Each PDO has one assignment among its checks.
LEMMA OneAssignment ==
    ASSUME NEW slave, slave.id \in Nat, NEW d \in Directions, NEW pdo \in Pdo
    PROVE  /\ Cardinality(Places(PdoChecks(slave, d, pdo), "Assignment")) = 1
           /\ PdoChecks(slave, d, pdo) \in Seq(Without("AssignmentCount"))
<1> DEFINE s == PdoChecks(slave, d, pdo)
           n == Len(pdo.entries)
<1>1. /\ s \in Seq(Checked) /\ n \in Nat /\ DOMAIN s = 1..(2 + n) /\ Len(s) = 2 + n
      /\ s[1].field = "Assignment" /\ s[2].field = "MappingCount"
      /\ \A k \in 1..n : s[2 + k].field = "MappingEntry"
  BY PdoChecksFacts
<1> HIDE DEF s, n
<1>2. ASSUME NEW k \in 1..(2 + n)
      PROVE  s[k].field # "AssignmentCount" /\ (s[k].field = "Assignment" <=> k = 1)
  <2>1. k = 1 \/ k = 2 \/ (k - 2 \in 1..n /\ 2 + (k - 2) = k /\ k # 1)
    BY <1>1
  <2>2. CASE k = 1
    BY <1>1, <2>2
  <2>3. CASE k = 2
    BY <1>1, <2>3
  <2>4. CASE k - 2 \in 1..n /\ 2 + (k - 2) = k /\ k # 1
    BY <1>1, <2>4
  <2> QED
    BY <2>1, <2>2, <2>3, <2>4
<1>3. Places(s, "Assignment") = {1}
  <2>1. 1 \in 1..(2 + n)
    BY <1>1
  <2> QED
    BY <1>1, <1>2, <2>1 DEF Places
<1>4. Cardinality({1}) = 1
  BY FS_Singleton
<1>5. s \in Seq(Without("AssignmentCount"))
  <2>1. \A k \in 1..Len(s) : s[k] \in Without("AssignmentCount")
    BY <1>1, <1>2, ElementOfSeq DEF Without
  <2> QED
    BY <1>1, <2>1, SeqOfOthers
<1> QED
  BY <1>3, <1>4, <1>5 DEF s

\* and its assignment count by as many assignments.
LEMMA SyncAssignmentsCounted ==
    ASSUME NEW slave, slave.id \in Nat, NEW sync \in Sync
    PROVE  SyncChecks(slave, sync) \in WellCounted("AssignmentCount", "Assignment", {"AssignmentCount"})
<1> DEFINE h == SyncHead(slave, sync)
           s == SyncChecks(slave, sync)
           pp == PerPdo(slave, sync)
           n == Len(pp)
           f == FlattenSeq(pp)
<1>1. /\ h \in Seq(Checked) /\ DOMAIN h = 1..1 /\ Len(h) = 1 /\ h[1].field = "AssignmentCount"
      /\ pp \in Seq(Seq(Checked)) /\ s = h \o f /\ f \in Seq(Checked) /\ s \in Seq(Checked)
      /\ h[1].value = n
      /\ \A i \in 1..n : /\ sync.pdos[i] \in Pdo
                         /\ pp[i] = PdoChecks(slave, sync.direction, sync.pdos[i])
  BY SyncChecksFacts
<1>2. sync.direction \in Directions
  BY DEF Sync
<1> HIDE DEF h, s, pp
<1>3. n \in Nat
  BY <1>1, LenProperties
<1>4. \A i \in 1..n : Cardinality(Places(pp[i], "Assignment")) = 1 /\ pp[i] \in Seq(Without("AssignmentCount"))
  <2>1. ASSUME NEW i \in 1..n
        PROVE  Cardinality(Places(pp[i], "Assignment")) = 1 /\ pp[i] \in Seq(Without("AssignmentCount"))
    <3> DEFINE d == sync.direction
               pdo == sync.pdos[i]
    <3>1. d \in Directions /\ pdo \in Pdo /\ pp[i] = PdoChecks(slave, d, pdo)
      BY <1>1, <1>2
    <3> HIDE DEF d, pdo
    <3> QED
      BY <3>1, OneAssignment
  <2> QED
    BY <2>1
<1> DEFINE T == {m \in 0..n : Cardinality(Places(Prefix(pp, m), "Assignment")) = m}
<1>5. 0 \in T
  <2>1. Prefix(pp, 0) = <<>>
    BY <1>1, PrefixFacts
  <2>2. Places(<<>>, "Assignment") = {}
    BY DEF Places
  <2>3. Cardinality(Places(Prefix(pp, 0), "Assignment")) = 0
    BY <2>1, <2>2, FS_EmptySet
  <2> QED
    BY <1>3, <2>3
<1>6. ASSUME NEW m \in 0..(n - 1), m \in T PROVE m + 1 \in T
  <2>1. m \in 0..(Len(pp) - 1) /\ m \in 0..Len(pp) /\ m + 1 \in 1..n /\ m + 1 \in 0..n
    BY <1>3
  <2>2. /\ Prefix(pp, m + 1) = Prefix(pp, m) \o pp[m + 1]
        /\ Prefix(pp, m) \in Seq(Checked) /\ pp[m + 1] \in Seq(Checked)
    BY <1>1, <2>1, PrefixFacts
  <2>3. Cardinality(Places(Prefix(pp, m + 1), "Assignment"))
          = Cardinality(Places(Prefix(pp, m), "Assignment")) + Cardinality(Places(pp[m + 1], "Assignment"))
    BY <2>2, PlacesConcat, ZenonT(40)
  <2> QED
    BY <1>4, <1>6, <2>1, <2>3
<1>7. Cardinality(Places(f, "Assignment")) = n
  <2>1. \A m \in 0..n : m \in T
    <3> HIDE DEF T, n
    <3> QED
      BY <1>3, <1>5, <1>6, Climb
  <2>2. Prefix(pp, n) = f
    BY <1>1, PrefixFacts
  <2> QED
    BY <1>3, <2>1, <2>2
<1>8. f \in Seq(Without("AssignmentCount"))
  <2>1. pp \in Seq(Seq(Without("AssignmentCount")))
    BY <1>1, <1>4, SeqOfOthers
  <2> QED
    BY <2>1, FlattenType
<1> HIDE DEF f, n
<1>9. /\ Len(f) \in Nat /\ DOMAIN f = 1..Len(f) /\ Len(s) = 1 + Len(f)
      /\ DOMAIN s = 1..(1 + Len(f))
      /\ \A i \in 1..(1 + Len(f)) : s[i] = IF i <= 1 THEN h[i] ELSE f[i - 1]
  <2>1. /\ Len(f) \in Nat /\ DOMAIN f = 1..Len(f) /\ Len(s) = Len(h) + Len(f)
        /\ \A i \in 1..(Len(h) + Len(f)) : s[i] = IF i <= Len(h) THEN h[i] ELSE f[i - Len(h)]
    BY <1>1, ConcatProperties, LenProperties
  <2> QED
    BY <1>1, <2>1, LenProperties
<1>10. s[1] = h[1]
  <2>1. 1 \in 1..(1 + Len(f))
    BY <1>9
  <2> QED
    BY <1>9, <2>1
<1>11. ASSUME NEW i \in 1..Len(f) PROVE s[1 + i] = f[i] /\ f[i].field # "AssignmentCount"
  <2>1. 1 + i \in 1..(1 + Len(f)) /\ ~ (1 + i <= 1) /\ (1 + i) - 1 = i
    BY <1>9
  <2>2. s[1 + i] = f[(1 + i) - 1]
    BY <1>9, <2>1
  <2>3. f[i] \in Without("AssignmentCount")
    BY <1>8, ElementOfSeq
  <2> QED
    BY <2>1, <2>2, <2>3 DEF Without
<1>12. \A k \in 1..(1 + Len(f)) : k = 1 \/ (k - 1 \in 1..Len(f) /\ 1 + (k - 1) = k)
  BY <1>9
<1>13. ASSUME NEW k \in 1..(1 + Len(f)), k # 1 PROVE s[k] = f[k - 1] /\ s[k].field # "AssignmentCount"
  <2> DEFINE j == k - 1
  <2>1. j \in 1..Len(f) /\ 1 + j = k
    BY <1>12, <1>13
  <2> HIDE DEF j
  <2>2. s[k] = f[j] /\ f[j].field # "AssignmentCount"
    BY <1>11, <2>1
  <2> QED
    BY <2>2 DEF j
<1>14. Following(s, 1, "Assignment", {"AssignmentCount"}) = Moved(Places(f, "Assignment"), 1)
  <2>1. ASSUME NEW k \in Following(s, 1, "Assignment", {"AssignmentCount"})
        PROVE  k \in Moved(Places(f, "Assignment"), 1)
    <3>1. k \in 1..(1 + Len(f)) /\ 1 < k /\ s[k].field = "Assignment"
      BY <1>9 DEF Following
    <3>2. s[k] = f[k - 1] /\ k - 1 \in 1..Len(f) /\ 1 + (k - 1) = k
      BY <1>12, <1>13, <3>1
    <3>3. k - 1 \in Places(f, "Assignment")
      BY <1>9, <3>1, <3>2 DEF Places
    <3> QED
      BY <3>2, <3>3 DEF Moved
  <2>2. ASSUME NEW i \in Places(f, "Assignment")
        PROVE  1 + i \in Following(s, 1, "Assignment", {"AssignmentCount"})
    <3>1. i \in 1..Len(f) /\ f[i].field = "Assignment"
      BY <1>9 DEF Places
    <3>2. s[1 + i].field = "Assignment"
      BY <1>11, <3>1
    <3>3. /\ 1 + i \in 1..(1 + Len(f)) /\ 1 < 1 + i
          /\ \A m \in (1 + 1)..(1 + i) : m \in 1..(1 + Len(f)) /\ m # 1
      BY <1>9, <3>1
    <3>4. \A m \in (1 + 1)..(1 + i) : s[m].field \notin {"AssignmentCount"}
      BY <1>13, <3>3
    <3> QED
      BY <1>9, <3>2, <3>3, <3>4 DEF Following
  <2> QED
    BY <2>1, <2>2 DEF Moved
<1>15. Cardinality(Moved(Places(f, "Assignment"), 1)) = n
  <2>1. Places(f, "Assignment") \in SUBSET (1..Len(f))
    BY <1>9 DEF Places
  <2> QED
    BY <1>7, <1>9, <2>1, MovedCount
<1>16. ASSUME NEW c \in DOMAIN s, s[c].field = "AssignmentCount" PROVE c = 1
  BY <1>9, <1>13, <1>16
<1>17. Counted(s, "AssignmentCount", "Assignment", {"AssignmentCount"})
  BY <1>1, <1>10, <1>14, <1>15, <1>16 DEF Counted
<1> QED
  BY <1>1, <1>10, <1>17 DEF WellCounted, Begins, s

-----------------------------------------------------------------------------
(* The mapping entries among the checks.                                   *)

Marked(s, id, d) == {c \in DOMAIN s : /\ s[c].slave = id /\ s[c].direction = d
                                      /\ s[c].field = "MappingEntry"}

\* The mapping entries of c are those of a, then those of b.
Glued(c, a, b, id, d) == EntriesOf(c, id, d) = EntriesOf(a, id, d) \o EntriesOf(b, id, d)

\* The mapping checks of a slave's direction are collected part by part.
LEMMA EntriesOfConcat ==
    ASSUME NEW a \in Seq(Checked), NEW b \in Seq(Checked), NEW id, NEW d
    PROVE  Glued(a \o b, a, b, id, d) /\ EntriesOf(a, id, d) \in Seq(Checked)
<1> DEFINE c == a \o b
           n == Len(a)
<1>1. /\ c \in Seq(Checked) /\ Len(c) = n + Len(b) /\ n \in Nat /\ Len(b) \in Nat
      /\ \A i \in 1..(n + Len(b)) : c[i] = IF i <= n THEN a[i] ELSE b[i - n]
      /\ DOMAIN a = 1..n /\ DOMAIN b = 1..Len(b) /\ DOMAIN c = 1..(n + Len(b))
  BY ConcatProperties, LenProperties
<1> HIDE DEF c
<1>2. ASSUME NEW i \in 1..n PROVE i \in Marked(c, id, d) <=> i \in Marked(a, id, d)
  BY <1>1 DEF Marked
<1>3. ASSUME NEW j \in 1..Len(b) PROVE n + j \in Marked(c, id, d) <=> j \in Marked(b, id, d)
  <2>1. n + j \in 1..(n + Len(b)) /\ ~ (n + j <= n) /\ (n + j) - n = j
    BY <1>1
  <2>2. c[n + j] = b[j]
    BY <1>1, <2>1
  <2> QED
    BY <1>1, <2>1, <2>2 DEF Marked
<1>4. Splits(Marked(c, id, d), a, Marked(a, id, d), b, Marked(b, id, d))
  BY <1>2, <1>3 DEF Splits
<1>5. Pick(a \o b, Marked(c, id, d)) = Pick(a, Marked(a, id, d)) \o Pick(b, Marked(b, id, d))
  BY <1>4, PickConcat
<1>6. Pick(a, Marked(a, id, d)) \in Seq(Checked)
  BY PiecesFacts
<1> QED
  BY <1>5, <1>6 DEF EntriesOf, Marked, Glued, c

\* None of other slaves or directions, and all of a slave's mappings.
LEMMA EntriesOfNone ==
    ASSUME NEW s \in Seq(Checked), NEW id, NEW d, Marked(s, id, d) = {}
    PROVE  EntriesOf(s, id, d) = <<>>
<1>1. Marked(s, id, d) \cap (1..Len(s)) = {}
  OBVIOUS
<1> QED
  BY <1>1, PickNone DEF EntriesOf, Marked

\* Where every check is one of them, all are collected.
LEMMA EntriesOfAll ==
    ASSUME NEW s \in Seq(Checked), NEW id, NEW d, Marked(s, id, d) = DOMAIN s
    PROVE  EntriesOf(s, id, d) = s
<1>1. 1..Len(s) \subseteq Marked(s, id, d)
  BY LenProperties
<1> QED
  BY <1>1, PickAll DEF EntriesOf, Marked

PerPiece(ss, id, d) == [i \in DOMAIN ss |-> EntriesOf(ss[i], id, d)]

\* Collected from a joined sequence, they come piece after piece.
LEMMA EntriesOfPieces ==
    ASSUME NEW ss \in Seq(Seq(Checked)), NEW id, NEW d
    PROVE  /\ EntriesOf(FlattenSeq(ss), id, d) = FlattenSeq(PerPiece(ss, id, d))
           /\ PerPiece(ss, id, d) \in Seq(Seq(Checked)) /\ Len(PerPiece(ss, id, d)) = Len(ss)
<1> DEFINE H == [s \in Seq(Checked) |-> EntriesOf(s, id, d)]
           tt == [i \in DOMAIN ss |-> EntriesOf(ss[i], id, d)]
<1>1. Piecewise(H, Checked)
  <2>1. H[<<>>] = <<>>
    <3> DEFINE e == <<>>
    <3>1. e \in Seq(Checked)
      BY EmptySeq
    <3>2. Marked(e, id, d) = {}
      BY DEF Marked
    <3> HIDE DEF e, H
    <3>3. EntriesOf(e, id, d) = <<>>
      BY <3>1, <3>2, EntriesOfNone
    <3> QED
      BY <3>1, <3>3 DEF e, H
  <2>2. ASSUME NEW a \in Seq(Checked), NEW b \in Seq(Checked) PROVE H[a \o b] = H[a] \o H[b]
    <3>1. a \o b \in Seq(Checked)
      BY ConcatProperties
    <3> DEFINE c == a \o b
    <3> HIDE DEF H, tt
    <3>2. Glued(c, a, b, id, d)
      BY EntriesOfConcat
    <3> HIDE DEF c
    <3>3. /\ H[c] = EntriesOf(c, id, d)
          /\ H[a] = EntriesOf(a, id, d) /\ H[b] = EntriesOf(b, id, d)
      BY <3>1 DEF H, c
    <3>4. H[c] = H[a] \o H[b]
      BY <3>2, <3>3 DEF Glued
    <3> QED
      BY <3>4 DEF c
  <2> HIDE DEF H
  <2> QED
    BY <2>1, <2>2 DEF Piecewise
<1>2. Len(ss) \in Nat /\ DOMAIN ss = 1..Len(ss) /\ \A i \in 1..Len(ss) : ss[i] \in Seq(Checked)
  BY LenProperties, ElementOfSeq
<1>3. ASSUME NEW i \in 1..Len(ss) PROVE tt[i] = H[ss[i]] /\ tt[i] \in Seq(Checked)
  <2>1. EntriesOf(ss[i], id, d) \in Seq(Checked)
    BY <1>2, EntriesOfConcat
  <2> QED
    BY <1>2, <2>1
<1>4. tt \in [1..Len(ss) -> Seq(Checked)]
  <2>1. tt = [i \in 1..Len(ss) |-> tt[i]]
    BY <1>2
  <2> HIDE DEF tt
  <2> QED
    BY <1>3, <2>1
<1> HIDE DEF tt, H
<1>5. tt \in Seq(Seq(Checked)) /\ Len(tt) = Len(ss)
  BY <1>2, <1>4, GivenByElements
<1>6. Through(H, ss, tt)
  BY <1>3, <1>5 DEF Through
<1>7. FlattenSeq(tt) = H[FlattenSeq(ss)]
  BY <1>1, <1>5, <1>6, FlattenThrough
<1>8. FlattenSeq(ss) \in Seq(Checked)
  BY FlattenType
<1> QED
  BY <1>5, <1>7, <1>8 DEF H, tt, PerPiece

\* Of the checks of a PDO, its mapping entries are collected.
LEMMA PdoEntries ==
    ASSUME NEW slave, slave.id \in Nat, NEW d \in Directions, NEW pdo \in Pdo
    PROVE  EntriesOf(PdoChecks(slave, d, pdo), slave.id, d) = Mappings(slave, d, pdo)
<1> DEFINE h == PdoHead(slave, d, pdo)
           t == Mappings(slave, d, pdo)
           s == PdoChecks(slave, d, pdo)
           n == Len(pdo.entries)
<1>1. /\ h \in Seq(Checked) /\ Len(h) = 2 /\ t \in Seq(Checked) /\ Len(t) = n /\ n \in Nat
      /\ s[1].field = "Assignment" /\ s[2].field = "MappingCount"
      /\ \A k \in 1..(2 + n) : s[k].slave = slave.id /\ s[k].direction = d
      /\ \A k \in 1..n : s[2 + k].field = "MappingEntry"
  BY PdoChecksFacts
<1>2. s = h \o t
  BY DEF PdoChecks
<1> HIDE DEF h, t, s, n
<1>3. \A i \in 1..(2 + n) : s[i] = IF i <= 2 THEN h[i] ELSE t[i - 2]
  <2>1. \A i \in 1..(Len(h) + Len(t)) : (h \o t)[i] = IF i <= Len(h) THEN h[i] ELSE t[i - Len(h)]
    BY <1>1, ConcatProperties
  <2> QED
    BY <1>1, <1>2, <2>1
<1>4. \A k \in 1..Len(h) : h[k].field # "MappingEntry"
  <2>1. ASSUME NEW k \in 1..2 PROVE h[k] = s[k] /\ (k = 1 \/ k = 2)
    <3>1. k \in 1..(2 + n) /\ k <= 2
      BY <1>1
    <3> QED
      BY <1>3, <3>1
  <2> QED
    BY <1>1, <2>1
<1>5. \A k \in 1..Len(t) : t[k].slave = slave.id /\ t[k].direction = d /\ t[k].field = "MappingEntry"
  <2>1. ASSUME NEW k \in 1..n PROVE t[k] = s[2 + k] /\ 2 + k \in 1..(2 + n)
    <3>1. 2 + k \in 1..(2 + n) /\ ~ (2 + k <= 2) /\ (2 + k) - 2 = k
      BY <1>1
    <3>2. s[2 + k] = t[(2 + k) - 2]
      BY <1>3, <3>1
    <3> QED
      BY <3>1, <3>2
  <2> QED
    BY <1>1, <2>1
<1>6. EntriesOf(h, slave.id, d) = <<>>
  <2>1. Marked(h, slave.id, d) = {}
    BY <1>1, <1>4, LenProperties DEF Marked
  <2> QED
    BY <1>1, <2>1, EntriesOfNone
<1>7. EntriesOf(t, slave.id, d) = t
  <2>1. Marked(t, slave.id, d) = DOMAIN t
    BY <1>1, <1>5, LenProperties DEF Marked
  <2> QED
    BY <1>1, <2>1, EntriesOfAll
<1>8. Glued(s, h, t, slave.id, d)
  BY <1>1, <1>2, EntriesOfConcat
<1>9. EntriesOf(s, slave.id, d) = <<>> \o t
  BY <1>6, <1>7, <1>8 DEF Glued
<1>10. <<>> \o t = t
  BY <1>1, ConcatEmptySeq
<1> QED
  BY <1>9, <1>10 DEF s, t

OwnChecks(id, d) == {c \in Checked : c.slave = id /\ c.direction = d}

\* The checks of a sync manager are of its slave and direction.
LEMMA SyncChecksOwn ==
    ASSUME NEW slave, slave.id \in Nat, NEW sync \in Sync
    PROVE  SyncChecks(slave, sync) \in Seq(OwnChecks(slave.id, sync.direction))
<1> DEFINE h == SyncHead(slave, sync)
           pp == PerPdo(slave, sync)
           C == OwnChecks(slave.id, sync.direction)
<1>1. /\ h \in Seq(Checked) /\ Len(h) = 1
      /\ h[1].slave = slave.id /\ h[1].direction = sync.direction
      /\ pp \in Seq(Seq(Checked)) /\ SyncChecks(slave, sync) = h \o FlattenSeq(pp)
      /\ \A i \in 1..Len(pp) : /\ sync.pdos[i] \in Pdo
                               /\ pp[i] = PdoChecks(slave, sync.direction, sync.pdos[i])
  BY SyncChecksFacts
<1>2. sync.direction \in Directions
  BY DEF Sync
<1> HIDE DEF h, pp
<1>3. h \in Seq(C)
  <2>1. \A k \in 1..Len(h) : h[k] \in Checked /\ k = 1
    BY <1>1, ElementOfSeq
  <2>2. \A k \in 1..Len(h) : h[k] \in C
    BY <1>1, <2>1 DEF OwnChecks
  <2> HIDE DEF C
  <2> QED
    BY <1>1, <2>2, SeqOfOthers
<1>4. ASSUME NEW i \in 1..Len(pp) PROVE pp[i] \in Seq(C)
  <2> DEFINE d == sync.direction
             pdo == sync.pdos[i]
             s == PdoChecks(slave, d, pdo)
  <2>1. d \in Directions /\ pdo \in Pdo /\ pp[i] = s
    BY <1>1, <1>2
  <2> HIDE DEF d, pdo
  <2>2. s \in Seq(Checked) /\ \A k \in 1..Len(s) : s[k].slave = slave.id /\ s[k].direction = d
    BY <2>1, PdoChecksFacts
  <2> HIDE DEF s
  <2>3. \A k \in 1..Len(s) : s[k] \in OwnChecks(slave.id, d)
    BY <2>2, ElementOfSeq DEF OwnChecks
  <2>4. s \in Seq(OwnChecks(slave.id, d))
    BY <2>2, <2>3, SeqOfOthers
  <2> QED
    BY <2>1, <2>4 DEF d
<1> HIDE DEF C
<1>5. pp \in Seq(Seq(C))
  BY <1>1, <1>4, SeqOfOthers
<1>6. FlattenSeq(pp) \in Seq(C)
  BY <1>5, FlattenType
<1>7. h \o FlattenSeq(pp) \in Seq(C)
  BY <1>3, <1>6, ConcatProperties
<1> QED
  BY <1>1, <1>7 DEF C

Asking(slave, d) == [e \in Entry |-> Check(slave, d, "MappingEntry", e)]

\* Of those of a sync manager, all its entries, in order.
LEMMA SyncEntries ==
    ASSUME NEW slave, slave.id \in Nat, NEW sync \in Sync
    PROVE  EntriesOf(SyncChecks(slave, sync), slave.id, sync.direction)
             = Each(Asking(slave, sync.direction), Entries(sync.pdos))
<1> DEFINE h == SyncHead(slave, sync)
           pp == PerPdo(slave, sync)
           d == sync.direction
           id == slave.id
           F == Asking(slave, d)
           ss == [i \in DOMAIN sync.pdos |-> sync.pdos[i].entries]
           tt == PerPiece(pp, id, d)
           n == Len(sync.pdos)
<1>1. /\ h \in Seq(Checked) /\ Len(h) = 1 /\ h[1].field = "AssignmentCount"
      /\ pp \in Seq(Seq(Checked)) /\ SyncChecks(slave, sync) = h \o FlattenSeq(pp)
      /\ FlattenSeq(pp) \in Seq(Checked) /\ Len(pp) = n /\ n \in Nat
      /\ \A i \in 1..n : sync.pdos[i] \in Pdo /\ pp[i] = PdoChecks(slave, d, sync.pdos[i])
  BY SyncChecksFacts
<1>2. sync.pdos \in Seq(Pdo) /\ d \in Directions /\ id \in Nat /\ DOMAIN sync.pdos = 1..n
  <2>1. sync.pdos \in Seq(Pdo) /\ d \in Directions
    BY DEF Sync
  <2> QED
    BY <2>1, LenProperties
<1> HIDE DEF h, pp, n
<1> HIDE DEF d, id
<1>3. EntriesOf(h, id, d) = <<>>
  <2>1. DOMAIN h = 1..1
    BY <1>1, LenProperties
  <2>2. Marked(h, id, d) = {}
    BY <1>1, <2>1 DEF Marked
  <2> QED
    BY <1>1, <2>2, EntriesOfNone
<1>4. EntriesOf(FlattenSeq(pp), id, d) = FlattenSeq(tt) /\ tt \in Seq(Seq(Checked))
  BY <1>1, EntriesOfPieces
<1>5. Maps(F, Entry, Checked)
  <2>1. ASSUME NEW e \in Entry PROVE F[e] \in Checked
    <3>1. "MappingEntry" \in Fields /\ e \in Values
      BY DEF Fields, Values
    <3>2. Check(slave, d, "MappingEntry", e) \in Checked
      BY <1>2, <3>1, CheckFacts
    <3> QED
      BY <3>2 DEF Asking
  <2> HIDE DEF F
  <2> QED
    BY <2>1 DEF Maps
<1>6. ss \in Seq(Seq(Entry)) /\ DOMAIN ss = 1..n /\ FlattenSeq(ss) = Entries(sync.pdos)
  <2>1. ss \in [1..n -> Seq(Entry)]
    <3>1. ASSUME NEW i \in 1..n PROVE sync.pdos[i].entries \in Seq(Entry)
      BY <1>1 DEF Pdo
    <3> QED
      BY <1>2, <3>1
  <2>2. ss \in Seq(Seq(Entry))
    <3> HIDE DEF ss
    <3> QED
      BY <1>1, <2>1, GivenByElements
  <2> QED
    BY <1>2, <2>1, <2>2 DEF Entries
<1>7. ASSUME NEW i \in 1..n PROVE tt[i] = Each(F, ss[i])
  <2> DEFINE pdo == sync.pdos[i]
  <2>1. pdo \in Pdo /\ pp[i] = PdoChecks(slave, d, pdo) /\ i \in DOMAIN pp
    BY <1>1, LenProperties
  <2>2. tt[i] = EntriesOf(pp[i], id, d) /\ ss[i] = pdo.entries
    BY <1>2, <2>1 DEF PerPiece
  <2> HIDE DEF pdo, tt, ss, d
  <2>3. tt[i] = Mappings(slave, d, pdo)
    BY <1>2, <2>1, <2>2, PdoEntries DEF id
  <2>4. pdo.entries \in Seq(Entry)
    BY <2>1 DEF Pdo
  <2>5. \A j \in DOMAIN pdo.entries : pdo.entries[j] \in Entry
    BY <2>4, LenProperties, ElementOfSeq
  <2>6. Mappings(slave, d, pdo) = Each(F, pdo.entries)
    BY <2>5 DEF Mappings, Each, Asking
  <2> QED
    BY <2>2, <2>3, <2>6
<1>8. tt = [i \in DOMAIN ss |-> Each(F, ss[i])]
  <2>1. tt = [i \in 1..n |-> tt[i]]
    <3>1. DOMAIN pp = 1..n
      BY <1>1, LenProperties
    <3> QED
      BY <3>1 DEF PerPiece
  <2> HIDE DEF tt, ss, F
  <2> QED
    BY <1>6, <1>7, <2>1
<1> HIDE DEF tt, ss, F
<1>9. FlattenSeq(tt) = Each(F, Entries(sync.pdos))
  BY <1>5, <1>6, <1>8, FlattenEach, ZenonT(40)
<1>10. FlattenSeq(tt) \in Seq(Checked)
  BY <1>4, FlattenType
<1>11. EntriesOf(h \o FlattenSeq(pp), id, d) = <<>> \o FlattenSeq(tt)
  <2> DEFINE f == FlattenSeq(pp)
  <2>1. Glued(h \o f, h, f, id, d)
    BY <1>1, EntriesOfConcat
  <2>2. EntriesOf(f, id, d) = FlattenSeq(tt)
    BY <1>4
  <2> HIDE DEF f
  <2>3. EntriesOf(h \o f, id, d) = <<>> \o FlattenSeq(tt)
    BY <1>3, <2>1, <2>2 DEF Glued
  <2> QED
    BY <2>3 DEF f
<1>12. <<>> \o FlattenSeq(tt) = FlattenSeq(tt)
  BY <1>10, ConcatEmptySeq
<1> QED
  BY <1>1, <1>9, <1>11, <1>12 DEF F, d, id

-----------------------------------------------------------------------------
(* All checks.                                                             *)

\* The checks of a slave, and those of all of them.
SlaveChecks(slave) ==
    FlattenSeq([n \in DOMAIN slave.syncs |-> SyncChecks(slave, slave.syncs[n])])

AllChecks(slaves) == FlattenSeq([i \in DOMAIN slaves |-> SlaveChecks(slaves[i])])

\* The mapping entries of a slave and direction are those of its PDOs.
Mapped(s, id, d, pdos) ==
    LET own == EntriesOf(s, id, d) IN
    /\ Len(own) = Len(Entries(pdos)) /\ DOMAIN own = 1..Len(Entries(pdos))
    /\ \A k \in 1..Len(Entries(pdos)) : own[k].value = Entries(pdos)[k]

SyncOf(pdos, d) == [direction |-> d, pdos |-> pdos[d]]

\* The checks of a slave: those of its outputs, then those of its inputs.
LEMMA SlaveChecksSplit ==
    ASSUME NEW slave \in Loaded, NEW pdos \in [Directions -> Seq(Pdo)], slave.syncs = Syncs(pdos)
    PROVE  /\ slave.id \in Nat
           /\ \A d \in Directions : /\ SyncOf(pdos, d) \in Sync
                                    /\ SyncChecks(slave, SyncOf(pdos, d)) \in Seq(Checked)
           /\ SlaveChecks(slave) = SyncChecks(slave, SyncOf(pdos, "out"))
                                     \o SyncChecks(slave, SyncOf(pdos, "in"))
<1> DEFINE out == SyncChecks(slave, SyncOf(pdos, "out"))
           in == SyncChecks(slave, SyncOf(pdos, "in"))
<1>1. slave.id \in Nat
  <2>1. slave.id \in 0..(MaxSlaves - 1)
    BY DEF Loaded
  <2> QED
    BY <2>1
<1>2. ASSUME NEW d \in Directions
      PROVE  /\ SyncOf(pdos, d) \in Sync
             /\ SyncChecks(slave, SyncOf(pdos, d)) \in Seq(Checked)
  <2>1. SyncOf(pdos, d) \in Sync
    BY DEF SyncOf, Sync
  <2> QED
    BY <1>1, <2>1, SyncChecksFacts
<1>3. out \in Seq(Checked) /\ in \in Seq(Checked)
  BY <1>2 DEF Directions
<1>4. SlaveChecks(slave) = FlattenSeq(<<out, in>>)
  <2> DEFINE g == [n \in DOMAIN slave.syncs |-> SyncChecks(slave, slave.syncs[n])]
  <2>1. /\ DOMAIN slave.syncs = 1..2
        /\ slave.syncs[1] = SyncOf(pdos, "out") /\ slave.syncs[2] = SyncOf(pdos, "in")
    BY DEF Syncs, SyncOf
  <2>2. g = [n \in 1..2 |-> IF n = 1 THEN out ELSE in]
    BY <2>1
  <2>3. SlaveChecks(slave) = FlattenSeq(g)
    BY DEF SlaveChecks
  <2> HIDE DEF g, out, in
  <2>4. <<out, in>> = [n \in 1..2 |-> IF n = 1 THEN out ELSE in]
    OBVIOUS
  <2> QED
    BY <2>2, <2>3, <2>4
<1> HIDE DEF out, in
<1>5. FlattenSeq(<<out, in>>) = out \o in
  BY <1>3, FlattenPair
<1> QED
  BY <1>1, <1>2, <1>4, <1>5 DEF out, in

\* All counts in the checks of a slave are right.
LEMMA SlaveCounted ==
    ASSUME NEW slave \in Loaded, NEW pdos \in [Directions -> Seq(Pdo)], slave.syncs = Syncs(pdos)
    PROVE  /\ SlaveChecks(slave) \in WellCounted("AssignmentCount", "Assignment", {"AssignmentCount"})
           /\ SlaveChecks(slave) \in WellCounted("MappingCount", "MappingEntry", MappingEnds)
<1> DEFINE A == WellCounted("AssignmentCount", "Assignment", {"AssignmentCount"})
           M == WellCounted("MappingCount", "MappingEntry", MappingEnds)
<1>1. /\ slave.id \in Nat /\ SyncOf(pdos, "out") \in Sync /\ SyncOf(pdos, "in") \in Sync
      /\ SlaveChecks(slave) = SyncChecks(slave, SyncOf(pdos, "out"))
                                \o SyncChecks(slave, SyncOf(pdos, "in"))
  BY SlaveChecksSplit DEF Directions
<1>2. Closed(A, Checked) /\ Closed(M, Checked)
  BY WellCountedClosed
<1>3. SyncChecks(slave, SyncOf(pdos, "out")) \in A /\ SyncChecks(slave, SyncOf(pdos, "in")) \in A
  BY <1>1, SyncAssignmentsCounted
<1>4. SyncChecks(slave, SyncOf(pdos, "out")) \in M /\ SyncChecks(slave, SyncOf(pdos, "in")) \in M
  BY <1>1, SyncMappingsCounted
<1> HIDE DEF A, M
<1>5. SlaveChecks(slave) \in A /\ SlaveChecks(slave) \in M
  BY <1>1, <1>2, <1>3, <1>4 DEF Closed
<1> QED
  BY <1>5 DEF A, M

\* The checks of another slave or direction give none of these.
LEMMA SyncStrange ==
    ASSUME NEW slave, slave.id \in Nat, NEW sync \in Sync, NEW id, NEW d,
           id # slave.id \/ d # sync.direction
    PROVE  EntriesOf(SyncChecks(slave, sync), id, d) = <<>>
<1> DEFINE s == SyncChecks(slave, sync)
<1>1. s \in Seq(Checked)
  BY SyncChecksFacts
<1>2. s \in Seq(OwnChecks(slave.id, sync.direction))
  BY SyncChecksOwn
<1> HIDE DEF s
<1>3. \A k \in DOMAIN s : s[k].slave = slave.id /\ s[k].direction = sync.direction
  BY <1>2, LenProperties, ElementOfSeq DEF OwnChecks
<1>4. Marked(s, id, d) = {}
  BY <1>3 DEF Marked
<1>5. EntriesOf(s, id, d) = <<>>
  BY <1>1, <1>4, EntriesOfNone
<1> QED
  BY <1>5 DEF s

\* The checks of a slave ask for the entries declared for each direction.
LEMMA SlaveMapped ==
    ASSUME NEW slave \in Loaded, NEW pdos \in [Directions -> Seq(Pdo)], slave.syncs = Syncs(pdos),
           NEW id, NEW d \in Directions
    PROVE  EntriesOf(SlaveChecks(slave), id, d) =
               IF id = slave.id THEN Each(Asking(slave, d), Entries(pdos[d])) ELSE <<>>
<1> DEFINE out == SyncChecks(slave, SyncOf(pdos, "out"))
           in == SyncChecks(slave, SyncOf(pdos, "in"))
           e == Each(Asking(slave, d), Entries(pdos[d]))
<1>1. /\ slave.id \in Nat /\ SyncOf(pdos, "out") \in Sync /\ SyncOf(pdos, "in") \in Sync
      /\ out \in Seq(Checked) /\ in \in Seq(Checked) /\ SlaveChecks(slave) = out \o in
  BY SlaveChecksSplit DEF Directions
<1>2. /\ SyncOf(pdos, "out").direction = "out" /\ SyncOf(pdos, "in").direction = "in"
      /\ SyncOf(pdos, "out").pdos = pdos["out"] /\ SyncOf(pdos, "in").pdos = pdos["in"]
  BY DEF SyncOf
<1>3. /\ id = slave.id /\ d = "out" => EntriesOf(out, id, d) = e
      /\ id = slave.id /\ d = "in" => EntriesOf(in, id, d) = e
  BY <1>1, <1>2, SyncEntries
<1>4. /\ (id # slave.id \/ d = "in") => EntriesOf(out, id, d) = <<>>
      /\ (id # slave.id \/ d = "out") => EntriesOf(in, id, d) = <<>>
  BY <1>1, <1>2, SyncStrange
<1> HIDE DEF out, in, e
<1>5. Glued(out \o in, out, in, id, d)
  BY <1>1, EntriesOfConcat
<1>6. EntriesOf(out, id, d) \in Seq(Checked) /\ EntriesOf(in, id, d) \in Seq(Checked)
  BY <1>1, EntriesOfConcat
<1>7. EntriesOf(SlaveChecks(slave), id, d) = EntriesOf(out, id, d) \o EntriesOf(in, id, d)
  BY <1>1, <1>5 DEF Glued
<1>8. CASE id # slave.id
  <2>1. <<>> \o <<>> = <<>>
    BY <1>4, <1>6, <1>8, ConcatEmptySeq
  <2> QED
    BY <1>4, <1>7, <1>8, <2>1
<1>9. CASE id = slave.id /\ d = "out"
  <2>1. e \o <<>> = e
    BY <1>3, <1>6, <1>9, ConcatEmptySeq
  <2> QED
    BY <1>3, <1>4, <1>7, <1>9, <2>1 DEF e
<1>10. CASE id = slave.id /\ d = "in"
  <2>1. <<>> \o e = e
    BY <1>3, <1>6, <1>10, ConcatEmptySeq
  <2> QED
    BY <1>3, <1>4, <1>7, <1>10, <2>1 DEF e
<1> QED
  BY <1>8, <1>9, <1>10 DEF Directions

Described(slaves, cfg) ==
    /\ slaves \in Seq(Loaded) /\ Len(slaves) = Len(cfg)
    /\ \A i \in 1..Len(cfg) : /\ slaves[i].id = i - 1 /\ cfg[i].pdos \in [Directions -> Seq(Pdo)]
                              /\ slaves[i].syncs = Syncs(cfg[i].pdos)

\* All checks together: counts right, every slave's entries asked for in order.
LEMMA AllChecksFacts ==
    ASSUME NEW slaves, NEW cfg, Described(slaves, cfg)
    PROVE  /\ Counted(AllChecks(slaves), "AssignmentCount", "Assignment", {"AssignmentCount"})
           /\ Counted(AllChecks(slaves), "MappingCount", "MappingEntry", MappingEnds)
           /\ \A i \in 1..Len(cfg) : \A d \in Directions :
                Mapped(AllChecks(slaves), i - 1, d, cfg[i].pdos[d])
<1> DEFINE n == Len(slaves)
           ss == [i \in DOMAIN slaves |-> SlaveChecks(slaves[i])]
           A == WellCounted("AssignmentCount", "Assignment", {"AssignmentCount"})
           M == WellCounted("MappingCount", "MappingEntry", MappingEnds)
<1>1. /\ n \in Nat /\ n = Len(cfg) /\ DOMAIN slaves = 1..n
      /\ \A i \in 1..n : /\ slaves[i] \in Loaded /\ slaves[i].id = i - 1
                         /\ cfg[i].pdos \in [Directions -> Seq(Pdo)]
                         /\ slaves[i].syncs = Syncs(cfg[i].pdos)
  BY LenProperties, ElementOfSeq DEF Described
<1> HIDE DEF n
<1>2. ASSUME NEW i \in 1..n PROVE ss[i] = SlaveChecks(slaves[i]) /\ ss[i] \in A /\ ss[i] \in M
  BY <1>1, SlaveCounted
<1>3. Closed(A, Checked) /\ Closed(M, Checked)
  BY WellCountedClosed
<1>4. ss \in Seq(Seq(Checked)) /\ Len(ss) = n /\ DOMAIN ss = 1..n
  <2>1. \A i \in 1..n : ss[i] \in Seq(Checked)
    BY <1>2 DEF WellCounted
  <2>2. DOMAIN ss = 1..n /\ ss = [i \in 1..n |-> ss[i]]
    BY <1>1
  <2> HIDE DEF ss
  <2>3. ss \in [1..n -> Seq(Checked)]
    BY <2>1, <2>2
  <2> QED
    BY <1>1, <2>2, <2>3, GivenByElements
<1>5. AllChecks(slaves) = FlattenSeq(ss)
  BY DEF AllChecks
<1> HIDE DEF ss, A, M
<1>6. FlattenSeq(ss) \in A
  BY <1>2, <1>3, <1>4, FlattenClosed
<1>7. FlattenSeq(ss) \in M
  BY <1>2, <1>3, <1>4, FlattenClosed
<1>8. ASSUME NEW i \in 1..n, NEW d \in Directions
      PROVE  Mapped(FlattenSeq(ss), i - 1, d, cfg[i].pdos[d])
  <2> DEFINE id == i - 1
             F == Asking(slaves[i], d)
             es == Entries(cfg[i].pdos[d])
             tt == PerPiece(ss, id, d)
  <2>1. EntriesOf(FlattenSeq(ss), id, d) = FlattenSeq(tt) /\ tt \in Seq(Seq(Checked)) /\ Len(tt) = n
    <3> HIDE DEF id
    <3> QED
      BY <1>4, EntriesOfPieces
  <2>2. ASSUME NEW j \in 1..n
        PROVE  tt[j] = IF id = slaves[j].id
                       THEN Each(Asking(slaves[j], d), Entries(cfg[j].pdos[d])) ELSE <<>>
    <3> DEFINE slave == slaves[j]
               pdos == cfg[j].pdos
    <3>1. slave \in Loaded /\ pdos \in [Directions -> Seq(Pdo)] /\ slave.syncs = Syncs(pdos)
      BY <1>1
    <3>2. tt[j] = EntriesOf(SlaveChecks(slave), id, d)
      BY <1>2, <1>4 DEF PerPiece
    <3> HIDE DEF slave, pdos, tt, id
    <3>3. EntriesOf(SlaveChecks(slave), id, d) =
             IF id = slave.id THEN Each(Asking(slave, d), Entries(pdos[d])) ELSE <<>>
      BY <3>1, SlaveMapped
    <3> QED
      BY <3>2, <3>3 DEF slave, pdos
  <2>3. /\ tt[i] = Each(F, es)
        /\ \A j \in 1..n : j # i => tt[j] = <<>>
    <3>1. id = slaves[i].id /\ \A j \in 1..n : j # i => id # slaves[j].id
      BY <1>1
    <3> HIDE DEF tt, id
    <3> QED
      BY <2>2, <3>1
  <2> HIDE DEF tt, id
  <2>4. FlattenSeq(tt) = Each(F, es)
    BY <1>1, <2>1, <2>3, FlattenOnly
  <2>5. es \in Seq(Entry)
    BY <1>1, EntriesType
  <2>6. DOMAIN es = 1..Len(es) /\ Len(es) \in Nat /\ \A k \in 1..Len(es) : es[k] \in Entry
    BY <2>5, LenProperties, ElementOfSeq
  <2>7. slaves[i].id \in Nat
    BY <1>1
  <2> HIDE DEF es
  <2>8. ASSUME NEW e \in Entry PROVE F[e].value = e /\ F[e] \in Checked
    <3> DEFINE slave == slaves[i]
    <3>1. "MappingEntry" \in Fields /\ e \in Values /\ slave.id \in Nat
      BY <2>7 DEF Fields, Values
    <3> HIDE DEF slave
    <3>2. LET c == Check(slave, d, "MappingEntry", e) IN c \in Checked /\ c.value = e
      BY <3>1, CheckFacts
    <3> QED
      BY <3>2 DEF Asking, slave
  <2>9. Maps(F, Entry, Checked)
    BY <2>8 DEF Maps
  <2> HIDE DEF F
  <2>10. /\ Len(Each(F, es)) = Len(es) /\ DOMAIN Each(F, es) = 1..Len(es)
         /\ \A k \in 1..Len(es) : Each(F, es)[k] = F[es[k]]
    <3>1. /\ Each(F, es) \in Seq(Checked) /\ Len(Each(F, es)) = Len(es)
          /\ \A k \in 1..Len(es) : Each(F, es)[k] = F[es[k]]
      BY <2>5, <2>9, EachFacts
    <3> QED
      BY <3>1, LenProperties
  <2>11. EntriesOf(FlattenSeq(ss), id, d) = Each(F, es)
    BY <2>1, <2>4
  <2>12. \A k \in 1..Len(es) : EntriesOf(FlattenSeq(ss), id, d)[k].value = es[k]
    BY <2>6, <2>8, <2>10, <2>11
  <2> QED
    BY <2>10, <2>11, <2>12 DEF Mapped, es, id
<1> QED
  BY <1>1, <1>5, <1>6, <1>7, <1>8 DEF WellCounted, A, M

-----------------------------------------------------------------------------
(* The inductive invariant.                                                *)

Prepared == {"layout", "publish", "run"}

PreparedInv ==
    pc \in Prepared =>
        /\ Counted(checks, "AssignmentCount", "Assignment", {"AssignmentCount"})
        /\ Counted(checks, "MappingCount", "MappingEntry", MappingEnds)
        /\ \A i \in 1..Len(config) : \A d \in Directions :
             Mapped(checks, i - 1, d, config[i].pdos[d])

Inv ==
    /\ StartInv /\ ConfigInv /\ TablesInv /\ IdentitiesInv /\ PlacedInv
    /\ PreparedInv /\ VariablesAreTheirObjects /\ ShapeInv

\* The checks prepared for verification are those of what is configured.
LEMMA PrepareChecks ==
    ASSUME StartInv, ConfigInv, TablesInv, Prepare
    PROVE  PreparedInv'
<1>1. /\ pc = "prepare" /\ config' = config
      /\ checks' = FlattenSeq([i \in DOMAIN Slaves |-> FlattenSeq(
                      [n \in DOMAIN Slaves[i].syncs |->
                          SyncChecks(Slaves[i], Slaves[i].syncs[n])])])
  BY DEF Prepare
<1>2. /\ Slaves \in Seq(Loaded) /\ Len(Slaves) = Len(config)
      /\ \A i \in 1..Len(config) : /\ config[i] \in BusSlave
                                    /\ Match(Slaves[i], config[i]) /\ Given(i)
  BY <1>1, TableTypes DEF Identified
<1>3. Described(Slaves, config)
  <2>1. ASSUME NEW i \in 1..Len(config)
        PROVE  /\ Slaves[i].id = i - 1 /\ config[i].pdos \in [Directions -> Seq(Pdo)]
               /\ Slaves[i].syncs = Syncs(config[i].pdos)
    BY <1>2 DEF Match, Given, BusSlave
  <2> QED
    BY <1>2, <2>1 DEF Described
<1>4. checks' = AllChecks(Slaves)
  BY <1>1 DEF AllChecks, SlaveChecks
<1> DEFINE all == AllChecks(Slaves)
<1>5. /\ Counted(all, "AssignmentCount", "Assignment", {"AssignmentCount"})
      /\ Counted(all, "MappingCount", "MappingEntry", MappingEnds)
      /\ \A i \in 1..Len(config) : \A d \in Directions : Mapped(all, i - 1, d, config[i].pdos[d])
  BY <1>3, AllChecksFacts
<1> HIDE DEF all
<1>6. checks' = all
  BY <1>4 DEF all
<1> QED
  BY <1>1, <1>5, <1>6 DEF PreparedInv

\* The verified entries are those of the PDOs asked for, and so are the variables.
LEMMA Verified ==
    ASSUME Inv PROVE VerifiedIsPublished
<1>1. SUFFICES ASSUME pc = "run" PROVE VerifiedIsPublished
  BY DEF VerifiedIsPublished
<1>2. /\ Counted(checks, "AssignmentCount", "Assignment", {"AssignmentCount"})
      /\ Counted(checks, "MappingCount", "MappingEntry", MappingEnds)
      /\ \A i \in 1..Len(config) : \A d \in Directions :
           Mapped(checks, i - 1, d, config[i].pdos[d])
      /\ DOMAIN published = 1..Len(config)
  BY <1>1 DEF Inv, PreparedInv, ShapeInv, Prepared
<1>3. config \in Seq(BusSlave) /\ \A i \in 1..Len(config) : Given(i)
  BY <1>1 DEF Inv, ConfigInv, Configured, Tabled
<1>4. ASSUME NEW i \in 1..Len(config), NEW d \in Directions
      PROVE  LET own == EntriesOf(checks, i - 1, d)
                 vs  == published[i].vars[d]
             IN  /\ Len(own) = Len(vs)
                 /\ \A k \in DOMAIN own :
                       own[k].value = [object |-> vs[k].object, bits |-> 8 * vs[k].size]
  <2> DEFINE own == EntriesOf(checks, i - 1, d)
             vs == published[i].vars[d]
             ex == Entries(config[i].pdos[d])
  <2>1. config[i] \in BusSlave /\ config[i].pdos[d] \in Seq(Pdo)
    <3>1. config[i] \in BusSlave
      BY <1>3, ElementOfSeq
    <3> QED
      BY <3>1 DEF BusSlave
  <2>2. Expected(i - 1, d) = ex
    <3>1. config[i].pdos[d] = Asked(i, d)
      BY <1>1, <1>3 DEF Given
    <3> QED
      BY <3>1, ExpectedEntries
  <2>3. ex \in Seq(Entry)
    BY <2>1, EntriesType
  <2>4. /\ Len(own) = Len(ex) /\ DOMAIN own = 1..Len(ex)
        /\ \A k \in 1..Len(ex) : own[k].value = ex[k]
    BY <1>2 DEF Mapped
  <2>5. DOMAIN vs = 1..Len(ex) /\ Len(vs) = Len(ex)
    BY <1>1 DEF Inv, ShapeInv
  <2>6. \A k \in DOMAIN vs : vs[k].object = ex[k].object /\ 8 * vs[k].size = ex[k].bits
    BY <1>1, <1>2, <2>2 DEF Inv, VariablesAreTheirObjects
  <2> HIDE DEF own, vs, ex
  <2>7. ASSUME NEW k \in 1..Len(ex)
        PROVE  own[k].value = [object |-> vs[k].object, bits |-> 8 * vs[k].size]
    <3>1. ex[k] \in Entry
      BY <2>3, ElementOfSeq
    <3>2. ex[k] = [object |-> ex[k].object, bits |-> ex[k].bits]
      BY <3>1 DEF Entry
    <3>3. vs[k].object = ex[k].object /\ 8 * vs[k].size = ex[k].bits /\ own[k].value = ex[k]
      BY <2>4, <2>5, <2>6
    <3> QED
      BY <3>2, <3>3
  <2> QED
    BY <2>4, <2>5, <2>7 DEF own, vs
<1> QED
  BY <1>1, <1>2, <1>4 DEF VerifiedIsPublished, MappingEnds

\* The invariant holds at the start,
LEMMA Starts == Init => Inv
<1> SUFFICES ASSUME Init PROVE Inv
  OBVIOUS
<1>1. /\ pc = "load" /\ source \in Sources /\ at = 1 /\ built = <<>>
      /\ image = [d \in Directions |-> <<>>]
  BY DEF Init
<1>2. image \in [Directions -> Seq(Byte)]
  <2>1. <<>> \in Seq(Byte)
    BY EmptySeq
  <2> QED
    BY <1>1, <2>1
<1>3. StartInv
  BY <1>1, <1>2 DEF StartInv, Configured, Tabled, Identified
<1> QED
  BY <1>1, <1>3 DEF Inv, ConfigInv, TablesInv, IdentitiesInv, PlacedInv, PreparedInv,
                    VariablesAreTheirObjects, ShapeInv, Configured, Tabled, Identified, Prepared

\* every step keeps it,
LEMMA Kept == Inv /\ [Next]_vars => Inv'
<1> SUFFICES ASSUME Inv, [Next]_vars PROVE Inv'
  OBVIOUS
<1> USE DEF Inv
<1>1. CASE LoadEni \/ LoadYaml
  <2>1. pc' = "build"
    BY <1>1 DEF LoadEni, LoadYaml
  <2>2. StartInv' /\ ConfigInv'
    BY <1>1, LoadKeeps
  <2> QED
    BY <2>1, <2>2 DEF TablesInv, IdentitiesInv, PlacedInv, PreparedInv, VariablesAreTheirObjects,
                       ShapeInv, Tabled, Identified, Prepared
<1>2. CASE Build
  <2>1. pc' \in {"identify", "discover"}
    BY <1>2 DEF Build
  <2>2. StartInv' /\ ConfigInv' /\ TablesInv'
    BY <1>2, BuildKeeps
  <2> QED
    BY <2>1, <2>2 DEF IdentitiesInv, PlacedInv, PreparedInv, VariablesAreTheirObjects,
                       ShapeInv, Identified, Prepared
<1>3. CASE Discover
  <2>1. pc' = "identify"
    BY <1>3 DEF Discover
  <2>2. StartInv' /\ ConfigInv' /\ TablesInv'
    BY <1>3, DiscoverKeeps
  <2> QED
    BY <2>1, <2>2 DEF IdentitiesInv, PlacedInv, PreparedInv, VariablesAreTheirObjects,
                       ShapeInv, Identified, Prepared
<1>4. CASE Identify
  <2>1. pc' = "register"
    BY <1>4 DEF Identify
  <2>2. StartInv' /\ ConfigInv' /\ TablesInv' /\ IdentitiesInv' /\ PlacedInv'
    BY <1>4, IdentifyKeeps
  <2> QED
    BY <2>1, <2>2 DEF PreparedInv, VariablesAreTheirObjects, ShapeInv, Prepared
<1>5. CASE Register
  <2>1. pc' \in {"prepare", "register"}
    BY <1>5 DEF Register
  <2>2. StartInv' /\ ConfigInv' /\ TablesInv' /\ IdentitiesInv' /\ PlacedInv'
    BY <1>5, RegisterKeeps
  <2> QED
    BY <2>1, <2>2 DEF PreparedInv, VariablesAreTheirObjects, ShapeInv, Prepared
<1>6. CASE Prepare
  <2>1. /\ pc = "prepare" /\ pc' = "layout"
        /\ UNCHANGED <<source, config, at, built, view, identities, image>>
    BY <1>6 DEF Prepare
  <2>2. StartInv' /\ ConfigInv' /\ TablesInv' /\ IdentitiesInv' /\ PlacedInv'
    BY <2>1, ReadingKeeps DEF Identified
  <2>3. PreparedInv'
    BY <1>6, PrepareChecks
  <2> QED
    BY <2>1, <2>2, <2>3 DEF VariablesAreTheirObjects, ShapeInv
<1>7. CASE Layout
  <2>1. /\ pc = "layout" /\ pc' = "publish"
        /\ UNCHANGED <<source, config, at, built, view, identities, image, checks>>
    BY <1>7 DEF Layout
  <2>2. StartInv' /\ ConfigInv' /\ TablesInv' /\ IdentitiesInv' /\ PlacedInv'
    BY <2>1, ReadingKeeps DEF Identified
  <2>3. PreparedInv'
    BY <2>1 DEF PreparedInv, Prepared
  <2> QED
    BY <2>1, <2>2, <2>3 DEF VariablesAreTheirObjects, ShapeInv
<1>8. CASE Publish
  <2>1. /\ pc = "publish" /\ pc' = "run"
        /\ UNCHANGED <<source, config, at, built, view, identities, image, checks>>
    BY <1>8 DEF Publish
  <2>2. StartInv' /\ ConfigInv' /\ TablesInv' /\ IdentitiesInv' /\ PlacedInv'
    BY <2>1, ReadingKeeps DEF Identified
  <2>3. VariablesAreTheirObjects' /\ ShapeInv'
    BY <1>8, PublishShows
  <2>4. PreparedInv'
    BY <2>1 DEF PreparedInv, Prepared
  <2> QED
    BY <2>2, <2>3, <2>4
<1>9. CASE Refuse
  <2>1. pc' = "refused" /\ source' = source /\ image' = image
    BY <1>9 DEF Refuse
  <2>2. StartInv'
    BY <2>1 DEF StartInv, Configured, Tabled, Identified
  <2> QED
    BY <2>1, <2>2 DEF ConfigInv, TablesInv, IdentitiesInv, PlacedInv, PreparedInv,
                      VariablesAreTheirObjects, ShapeInv, Configured, Tabled, Identified, Prepared
<1>10. CASE UNCHANGED vars
  <2>1. /\ pc' = pc /\ source' = source /\ config' = config /\ at' = at /\ built' = built
        /\ view' = view /\ identities' = identities /\ image' = image /\ published' = published
        /\ checks' = checks
    BY <1>10 DEF vars
  <2>2. \A i : Declared(i)' = Declared(i)
    BY <2>1 DEF Declared
  <2>3. \A i : \A d \in Directions :
           Stated(i, d)' = Stated(i, d) /\ Asked(i, d)' = Asked(i, d)
    BY <2>1, SourceStays
  <2>4. \A i : \A d \in Directions : Expected(i - 1, d)' = Expected(i - 1, d)
    BY <2>1, ExpectedStays
  <2>5. Slaves' = Slaves
    BY <2>1 DEF Slaves
  <2>6. StartInv'
    BY <2>1 DEF StartInv
  <2>7. ConfigInv'
    <3>1. ASSUME NEW i, Given(i) PROVE Given(i)'
      BY <2>1, <2>2, <2>3, <3>1 DEF Given
    <3> QED
      BY <2>1, <3>1 DEF ConfigInv
  <2>8. TablesInv' /\ IdentitiesInv' /\ PlacedInv'
    BY <2>1, <2>2, <2>5 DEF TablesInv, IdentitiesInv, PlacedInv
  <2>9. VariablesAreTheirObjects'
    BY <2>1, <2>2, <2>4 DEF VariablesAreTheirObjects
  <2>10. PreparedInv' /\ ShapeInv'
    BY <2>1 DEF PreparedInv, ShapeInv
  <2> QED
    BY <2>6, <2>7, <2>8, <2>9, <2>10
<1> QED
  BY <1>1, <1>2, <1>3, <1>4, <1>5, <1>6, <1>7, <1>8, <1>9, <1>10 DEF Next

\* and so it always holds.
LEMMA Always == Spec => []Inv
<1>1. Init => Inv
  BY Starts
<1>2. Inv /\ [Next]_vars => Inv'
  BY Kept
<1> QED
  BY <1>1, <1>2, PTL DEF Spec

\* Whatever a file declares and whatever devices are on the bus: once the Apps
\* are shown variables, each is the object the file asks for at that place, and
\* its bytes are those IgH exchanges with that object of the device there.
THEOREM VariablesReachTheirObjects == Spec => []VariablesAreTheirObjects
<1>1. Inv => VariablesAreTheirObjects
  BY DEF Inv
<1> QED
  BY <1>1, Always, PTL

\* And what the verification writes to the devices, counts included, is what
\* the Apps were told: the same entries of the same slave in the same order.
THEOREM ChecksVerifyTheVariables == Spec => []VerifiedIsPublished
<1>1. Inv => VerifiedIsPublished
  BY Verified
<1> QED
  BY <1>1, Always, PTL
=============================================================================
