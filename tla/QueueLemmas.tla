------------------------------ MODULE QueueLemmas ------------------------------
(***************************************************************************)
(* Lemmas about the deques of the server: what each operation on a         *)
(* sequence does to the number of times an element is in it.               *)
(***************************************************************************)
EXTENDS Integers, Sequences, FiniteSets, SequencesExt, FiniteSetTheorems,
        SequenceTheorems, WellFoundedInduction, TLAPS

\* A nonempty set of naturals has a least element.
LEMMA LeastNat ==
    ASSUME NEW T, T \subseteq Nat, T # {}
    PROVE  \E x \in T : \A y \in T : x <= y
<1> DEFINE R == {ss \in Nat \X Nat : ss[1] < ss[2]}
<1>1. IsWellFoundedOn(R, Nat)
  <2>1. R = OpToRel(<, Nat)
    BY DEF OpToRel
  <2>2. QED BY <2>1, NatLessThanWellFounded
<1>2. PICK x \in T : \A y \in T : ~(<<y, x>> \in R)
  BY <1>1, WFMin
<1>3. ASSUME NEW y \in T PROVE x <= y
  <2>1. <<y, x>> \in Nat \X Nat /\ x \in Nat /\ y \in Nat
    OBVIOUS
  <2>2. ~(y < x)
    BY <2>1, <1>2
  <2>3. QED BY <2>1, <2>2
<1>4. QED BY <1>3

\* How often e is in the sequence q.
At(q, e)    == {i \in DOMAIN q : q[i] = e}
Count(q, e) == Cardinality(At(q, e))

LEMMA CountIsNat ==
    ASSUME NEW S, NEW q \in Seq(S), NEW e
    PROVE  IsFiniteSet(At(q, e)) /\ Count(q, e) \in Nat
<1>1. IsFiniteSet(1 .. Len(q)) /\ DOMAIN q = 1 .. Len(q)
  BY FS_Interval, LenProperties
<1>2. At(q, e) \subseteq 1 .. Len(q)
  BY <1>1 DEF At
<1>3. QED BY <1>1, <1>2, FS_Subset, FS_CardinalityType DEF Count

\* An element is in a sequence if and only if it is there at least once.
LEMMA CountIsZero ==
    ASSUME NEW S, NEW q \in Seq(S), NEW e
    PROVE  Count(q, e) = 0 <=> \A i \in DOMAIN q : q[i] # e
<1>1. Count(q, e) = 0 <=> At(q, e) = {}
  BY CountIsNat, FS_EmptySet DEF Count
<1>2. QED BY <1>1 DEF At

\* Counts of a concatenation add up.
LEMMA CountConcat ==
    ASSUME NEW S, NEW a \in Seq(S), NEW b \in Seq(S), NEW e
    PROVE  Count(a \o b, e) = Count(a, e) + Count(b, e)
<1> DEFINE f == [i \in At(b, e) |-> i + Len(a)]
           B == {i \in DOMAIN (a \o b) : i > Len(a) /\ (a \o b)[i] = e}
<1>1. /\ a \o b \in Seq(S) /\ Len(a \o b) = Len(a) + Len(b)
      /\ \A i \in 1 .. Len(a) + Len(b) :
            (a \o b)[i] = IF i <= Len(a) THEN a[i] ELSE b[i - Len(a)]
  BY ConcatProperties
<1>2. /\ DOMAIN a = 1 .. Len(a) /\ DOMAIN b = 1 .. Len(b)
      /\ DOMAIN (a \o b) = 1 .. (Len(a) + Len(b))
      /\ Len(a) \in Nat /\ Len(b) \in Nat
  BY <1>1, LenProperties
<1>3. At(a \o b, e) = At(a, e) \cup B
  BY <1>1, <1>2 DEF At
<1>4. At(a, e) \cap B = {}
  BY <1>2 DEF At
<1>5. f \in Bijection(At(b, e), B)
  <2>1. f \in [At(b, e) -> B]
    BY <1>1, <1>2 DEF At
  <2>2. \A i, j \in At(b, e) : f[i] = f[j] => i = j
    BY <1>2 DEF At
  <2>3. ASSUME NEW j \in B PROVE \E i \in At(b, e) : f[i] = j
    <3>1. j - Len(a) \in At(b, e) /\ (j - Len(a)) + Len(a) = j
      BY <1>1, <1>2 DEF At
    <3>2. QED BY <3>1
  <2> HIDE DEF f, B
  <2>4. QED BY <2>1, <2>2, <2>3 DEF Bijection, Injection, IsInjective, Surjection
<1>6. IsFiniteSet(B) /\ Cardinality(B) = Count(b, e)
  BY <1>5, CountIsNat, FS_Bijection DEF ExistsBijection, Count
<1> HIDE DEF f, B
<1>7. /\ IsFiniteSet(At(a, e)) /\ Count(a, e) \in Nat /\ Count(b, e) \in Nat
      /\ Cardinality({}) = 0
  BY CountIsNat, FS_EmptySet
<1>8. Cardinality(At(a, e) \cup B)
        = Cardinality(At(a, e)) + Cardinality(B) - Cardinality(At(a, e) \cap B)
  BY <1>6, <1>7, FS_Union
<1>9. Count(a \o b, e) = Cardinality(At(a, e) \cup B)
  BY <1>3 DEF Count
<1>10. Count(a, e) = Cardinality(At(a, e))
  BY DEF Count
<1>11. Cardinality(At(a, e) \cap B) = 0
  BY <1>4, <1>7
<1>12. QED
  BY <1>6, <1>7, <1>8, <1>9, <1>10, <1>11

LEMMA CountOne ==
    ASSUME NEW x, NEW e
    PROVE  Count(<<x>>, e) = IF x = e THEN 1 ELSE 0
<1>1. DOMAIN <<x>> = {1} /\ <<x>>[1] = x
  OBVIOUS
<1>2. At(<<x>>, e) = IF x = e THEN {1} ELSE {}
  BY <1>1 DEF At
<1>3. QED BY <1>2, FS_Singleton, FS_EmptySet DEF Count

\* One more at either end, one less at the front.
LEMMA CountAppend ==
    ASSUME NEW S, NEW q \in Seq(S), NEW x \in S, NEW e
    PROVE  Count(Append(q, x), e) = Count(q, e) + (IF x = e THEN 1 ELSE 0)
<1>1. <<x>> \in Seq(S)
  OBVIOUS
<1>2. Count(q \o <<x>>, e) = Count(q, e) + Count(<<x>>, e)
  BY <1>1, CountConcat
<1>3. Append(q, x) = q \o <<x>>
  BY AppendIsConcat
<1>4. QED BY <1>2, <1>3, CountOne, CountIsNat

LEMMA CountCons ==
    ASSUME NEW S, NEW q \in Seq(S), NEW x \in S, NEW e
    PROVE  Count(<<x>> \o q, e) = Count(q, e) + (IF x = e THEN 1 ELSE 0)
<1>1. <<x>> \in Seq(S)
  OBVIOUS
<1>2. Count(<<x>> \o q, e) = Count(<<x>>, e) + Count(q, e)
  BY <1>1, CountConcat
<1>3. QED BY <1>2, CountOne, CountIsNat

LEMMA CountTail ==
    ASSUME NEW S, NEW q \in Seq(S), q # <<>>, NEW e
    PROVE  /\ Head(q) \in S /\ Tail(q) \in Seq(S)
           /\ Count(q, e) = Count(Tail(q), e) + (IF Head(q) = e THEN 1 ELSE 0)
<1>1. Head(q) \in S /\ Tail(q) \in Seq(S)
  BY HeadTailProperties
<1>2. q = <<Head(q)>> \o Tail(q)
  OBVIOUS
<1>3. <<Head(q)>> \in Seq(S)
  BY <1>1
<1>4. Count(<<Head(q)>> \o Tail(q), e) = Count(<<Head(q)>>, e) + Count(Tail(q), e)
  BY <1>1, <1>3, CountConcat, Zenon
<1>5. Count(<<Head(q)>>, e) = IF Head(q) = e THEN 1 ELSE 0
  BY CountOne, Zenon
<1>6. Count(Tail(q), e) \in Nat
  BY <1>1, CountIsNat
<1>7. Count(q, e) = Count(<<Head(q)>>, e) + Count(Tail(q), e)
  BY <1>2, <1>4, Zenon
<1>8. QED BY <1>1, <1>5, <1>6, <1>7

\* What RemoveAt leaves: the elements before and those behind.
SplitAt(q, k, a, b) == q = Append(a, q[k]) \o b /\ RemoveAt(q, k) = a \o b

LEMMA RemoveAtSplits ==
    ASSUME NEW S, NEW q \in Seq(S), NEW k \in 1 .. Len(q)
    PROVE  \E a, b \in Seq(S) : SplitAt(q, k, a, b)
<1> DEFINE a == SubSeq(q, 1, k - 1)
           b == SubSeq(q, k + 1, Len(q))
<1>1. Len(q) \in Nat /\ \A i \in 1 .. Len(q) : q[i] \in S
  BY LenProperties, ElementOfSeq
<1>2. a \in Seq(S)
  <2>1. 1 \in Int /\ k - 1 \in Int /\ \A i \in 1 .. (k - 1) : q[i] \in S
    BY <1>1
  <2>2. QED BY <2>1, SubSeqProperties
<1>3. b \in Seq(S)
  <2>1. k + 1 \in Int /\ Len(q) \in Int /\ \A i \in (k + 1) .. Len(q) : q[i] \in S
    BY <1>1
  <2>2. QED BY <2>1, SubSeqProperties
<1>4. SubSeq(q, 1, k) = Append(a, q[k])
  <2>1. 1 \in 1 .. Len(q) /\ k \in 1 .. Len(q) /\ q[k] \in S
    BY <1>1
  <2>2. SubSeq(q, 1, k) = a \o <<q[k]>>
    BY <2>1, SubSeqRecursiveSecond
  <2>3. QED BY <1>2, <2>1, <2>2, AppendIsConcat
<1>5. SubSeq(q, 1, k) \o b = SubSeq(q, 1, Len(q))
  <2>1. 1 \in 1 .. Len(q) + 1 /\ k \in 1 - 1 .. Len(q) /\ Len(q) \in k .. Len(q)
    BY <1>1
  <2>2. QED BY <2>1, ConcatAdjacentSubSeq
<1>6. SubSeq(q, 1, Len(q)) = q
  BY SubSeqFull
<1>7. SplitAt(q, k, a, b)
  BY <1>4, <1>5, <1>6 DEF SplitAt, RemoveAt
<1>8. QED BY <1>2, <1>3, <1>7

LEMMA CountRemoveAt ==
    ASSUME NEW S, NEW q \in Seq(S), NEW k \in 1 .. Len(q), NEW e
    PROVE  /\ RemoveAt(q, k) \in Seq(S)
           /\ Count(q, e) = Count(RemoveAt(q, k), e) + (IF q[k] = e THEN 1 ELSE 0)
<1>1. PICK a, b \in Seq(S) : SplitAt(q, k, a, b)
  BY RemoveAtSplits
<1>2. PICK x \in S : x = q[k]
  BY ElementOfSeq
<1>3. PICK c \in Seq(S) : c = Append(a, x)
  BY AppendProperties
<1>4. q = c \o b /\ RemoveAt(q, k) = a \o b
  BY <1>1, <1>2, <1>3 DEF SplitAt
<1>5. a \o b \in Seq(S)
  BY ConcatProperties
<1>6. /\ Count(c \o b, e) = Count(c, e) + Count(b, e)
      /\ Count(a \o b, e) = Count(a, e) + Count(b, e)
  BY CountConcat
<1>7. Count(Append(a, x), e) = Count(a, e) + (IF x = e THEN 1 ELSE 0)
  BY CountAppend
<1>8. Count(a, e) \in Nat /\ Count(b, e) \in Nat
  BY CountIsNat
<1>9. Count(q, e) = Count(a \o b, e) + (IF x = e THEN 1 ELSE 0)
  BY <1>3, <1>4, <1>6, <1>7, <1>8
<1>10. QED BY <1>2, <1>4, <1>5, <1>9

\* RemoveFirst takes out one occurrence, if there is one.
LEMMA CountRemoveFirst ==
    ASSUME NEW S, NEW q \in Seq(S), NEW x, NEW e
    PROVE  /\ RemoveFirst(q, x) \in Seq(S)
           /\ Count(RemoveFirst(q, x), e) =
                  IF x = e /\ Count(q, e) > 0 THEN Count(q, e) - 1 ELSE Count(q, e)
<1> DEFINE I == {i \in 1 .. Len(q) : q[i] = x}
<1>0. DOMAIN q = 1 .. Len(q) /\ Count(q, e) \in Nat
  BY LenProperties, CountIsNat
<1>1. CASE ~\E i \in 1 .. Len(q) : q[i] = x
  <2>1. RemoveFirst(q, x) = q
    BY <1>1 DEF RemoveFirst
  <2>2. x = e => Count(q, e) = 0
    BY <1>0, <1>1, CountIsZero
  <2>3. QED BY <1>0, <2>1, <2>2
<1>2. CASE \E i \in 1 .. Len(q) : q[i] = x
  <2>1. SelectInSeq(q, LAMBDA v : v = x) = Min(I)
    BY <1>2, Zenon DEF SelectInSeq
  <2>2. RemoveFirst(q, x) = RemoveAt(q, SelectInSeq(q, LAMBDA v : v = x))
    BY <1>2, Zenon DEF RemoveFirst
  <2>3. Min(I) \in I
    <3>1. I \subseteq Nat /\ I # {}
      BY <1>2, LenProperties
    <3>2. QED BY <3>1, LeastNat DEF Min
  <2> DEFINE k == Min(I)
  <2>4. k \in 1 .. Len(q) /\ q[k] = x
    BY <2>3
  <2>5. RemoveFirst(q, x) = RemoveAt(q, k)
    BY <2>1, <2>2, Zenon
  <2> HIDE DEF k, I
  <2>6. /\ RemoveAt(q, k) \in Seq(S)
        /\ Count(q, e) = Count(RemoveAt(q, k), e) + (IF q[k] = e THEN 1 ELSE 0)
        /\ Count(RemoveAt(q, k), e) \in Nat
    BY <2>4, CountRemoveAt, CountIsNat
  <2>7. QED BY <1>0, <2>4, <2>5, <2>6
<1>3. QED BY <1>1, <1>2

-----------------------------------------------------------------------------
(* Loops *)

\* What holds before a loop and is kept by its rounds holds after each.
LEMMA LoopKeeps ==
    ASSUME NEW V, NEW n \in Nat, NEW f, f[0] \in V,
           \A i \in 1 .. n : f[i - 1] \in V => f[i] \in V
    PROVE  \A i \in 0 .. n : f[i] \in V
<1> DEFINE Bad == {i \in Nat : i <= n /\ f[i] \notin V}
<1>1. ASSUME Bad # {} PROVE FALSE
  <2>1. PICK m \in Bad : \A j \in Bad : m <= j
    BY <1>1, LeastNat
  <2>2. m \in Nat /\ m <= n /\ f[m] \notin V /\ m # 0
    BY <2>1
  <2>3. m - 1 \in Nat /\ m - 1 <= n /\ ~(m <= m - 1) /\ m \in 1 .. n
    BY <2>2
  <2>4. m - 1 \notin Bad
    <3> HIDE DEF Bad
    <3>1. QED BY <2>1, <2>3
  <2>5. f[m - 1] \in V
    BY <2>3, <2>4
  <2>6. QED BY <2>2, <2>3, <2>5
<1>2. QED BY <1>1

\* A loop of n rounds, of which the i-th takes v to step[i][v], has a state
\* after each of them.
Rounds(f, V, a, n, step) ==
    /\ f \in [0 .. n -> V]
    /\ f = [i \in 0 .. n |-> IF i = 0 THEN a ELSE step[i][f[i - 1]]]

LEMMA LoopRuns ==
    ASSUME NEW V, NEW a \in V, NEW n \in Nat, NEW step \in [1 .. n -> [V -> V]]
    PROVE  \E f : Rounds(f, V, a, n, step)
<1> DEFINE Upto(m, g) == /\ g \in [0 .. m -> V]
                         /\ \A i \in 0 .. m : g[i] = IF i = 0 THEN a ELSE step[i][g[i - 1]]
           Bad == {m \in Nat : m <= n /\ ~\E g : Upto(m, g)}
<1>1. ASSUME Bad # {} PROVE FALSE
  <2>1. PICK m \in Bad : \A j \in Bad : m <= j
    BY <1>1, LeastNat
  <2>2. m # 0
    <3>1. Upto(0, [i \in 0 .. 0 |-> a])
      OBVIOUS
    <3>2. QED BY <3>1, <2>1
  <2>3. m \in Nat /\ m <= n /\ m - 1 \in Nat /\ ~(m <= m - 1) /\ m - 1 <= n /\ m \in 1 .. n
    BY <2>1, <2>2
  <2>4. PICK g : Upto(m - 1, g)
    <3>1. m - 1 \notin Bad
      <4> HIDE DEF Bad
      <4>1. QED BY <2>1, <2>3
    <3>2. QED BY <2>3, <3>1
  <2> DEFINE x == step[m][g[m - 1]]
             h == [i \in 0 .. m |-> IF i = m THEN x ELSE g[i]]
  <2>5. x \in V
    <3>1. g[m - 1] \in V
      BY <2>3, <2>4
    <3>2. step[m] \in [V -> V]
      BY <2>3
    <3>3. QED BY <3>1, <3>2
  <2>6. \A i \in 0 .. m : i = m \/ i \in 0 .. m - 1
    BY <2>3
  <2>7. h \in [0 .. m -> V]
    BY <2>4, <2>5, <2>6
  <2>8. ASSUME NEW i \in 0 .. m PROVE h[i] = IF i = 0 THEN a ELSE step[i][h[i - 1]]
    <3>1. CASE i = m
      <4>1. m - 1 \in 0 .. m /\ m - 1 # m /\ m # 0
        BY <2>3
      <4>2. h[m - 1] = g[m - 1] /\ h[i] = x
        BY <4>1, <3>1
      <4>3. QED BY <4>1, <4>2, <3>1
    <3>2. CASE i # m
      <4>1. i \in 0 .. m - 1 /\ (i = 0 \/ (i - 1 \in 0 .. m /\ i - 1 # m))
        BY <2>3, <3>2
      <4>2. h[i] = g[i] /\ (i = 0 \/ h[i - 1] = g[i - 1])
        BY <4>1, <3>2
      <4>3. g[i] = IF i = 0 THEN a ELSE step[i][g[i - 1]]
        BY <4>1, <2>4
      <4>4. QED BY <4>2, <4>3
    <3>3. QED BY <3>1, <3>2
  <2> HIDE DEF h
  <2>9. Upto(m, h)
    BY <2>7, <2>8
  <2>10. QED BY <2>1, <2>9
<1>2. PICK f : Upto(n, f)
  BY <1>1
<1>3. f = [i \in 0 .. n |-> IF i = 0 THEN a ELSE step[i][f[i - 1]]]
  BY <1>2
<1>4. QED BY <1>2, <1>3 DEF Rounds

-----------------------------------------------------------------------------
(* What a loop keeps that erases the elements outside K *)

Kept(s, K) ==
    LET kept[i \in 0 .. Len(s)] ==
            IF i = 0 THEN <<>>
            ELSE IF s[i] \in K THEN Append(kept[i - 1], s[i]) ELSE kept[i - 1]
    IN  kept[Len(s)]

\* The loop has a state after each of its rounds.
LEMMA KeptRounds ==
    ASSUME NEW S, NEW s \in Seq(S), NEW K
    PROVE  \E f : /\ \A i \in 0 .. Len(s) :
                        f[i] = IF i = 0 THEN <<>>
                               ELSE IF s[i] \in K THEN Append(f[i - 1], s[i]) ELSE f[i - 1]
                  /\ Kept(s, K) = f[Len(s)]
<1> DEFINE Next(g, i) == IF i = 0 THEN <<>>
                         ELSE IF s[i] \in K THEN Append(g[i - 1], s[i]) ELSE g[i - 1]
           Upto(n, g) == \A i \in 0 .. n : g[i] = Next(g, i)
           Bad == {n \in Nat : n <= Len(s) /\ ~\E g : Upto(n, g)}
<1>1. ASSUME Bad # {} PROVE FALSE
  <2>1. PICK m \in Bad : \A n \in Bad : m <= n
    BY <1>1, LeastNat
  <2>2. m # 0
    <3>1. Upto(0, [i \in 0 .. 0 |-> <<>>])
      OBVIOUS
    <3>2. QED BY <3>1, <2>1
  <2>3. m \in Nat /\ m <= Len(s) /\ m - 1 \in Nat /\ ~(m <= m - 1) /\ m - 1 <= Len(s)
    BY <2>1, <2>2, LenProperties
  <2>4. PICK g : Upto(m - 1, g)
    <3>1. m - 1 \notin Bad
      <4> HIDE DEF Bad
      <4>1. QED BY <2>1, <2>3
    <3>2. QED BY <2>3, <3>1
  <2> DEFINE h == [i \in 0 .. m |-> IF i = m THEN Next(g, m) ELSE g[i]]
  <2>5. ASSUME NEW i \in 0 .. m PROVE h[i] = Next(h, i)
    <3>1. CASE i = m
      <4>1. m - 1 \in 0 .. m /\ m - 1 # m
        BY <2>1, <2>2
      <4>2. h[m - 1] = g[m - 1] /\ h[i] = Next(g, m)
        BY <4>1, <3>1
      <4>3. QED BY <4>2, <3>1
    <3>2. CASE i # m
      <4>1. i \in 0 .. m - 1 /\ (i = 0 \/ (i - 1 \in 0 .. m /\ i - 1 # m))
        BY <2>1, <3>2
      <4>2. h[i] = g[i] /\ (i = 0 \/ h[i - 1] = g[i - 1])
        BY <4>1, <3>2
      <4>3. g[i] = Next(g, i)
        BY <4>1, <2>4
      <4>4. QED BY <4>2, <4>3
    <3>3. QED BY <3>1, <3>2
  <2>6. QED BY <2>1, <2>5
<1>2. PICK g : Upto(Len(s), g)
  BY <1>1, LenProperties
<1> DEFINE f == [i \in 0 .. Len(s) |-> g[i]]
<1>3. ASSUME NEW i \in 0 .. Len(s) PROVE f[i] = Next(f, i)
  <2>1. g[i] = Next(g, i)
    BY <1>2
  <2>2. i = 0 \/ i - 1 \in 0 .. Len(s)
    BY LenProperties
  <2>3. QED BY <2>1, <2>2
<1>4. f = [i \in 0 .. Len(s) |-> Next(f, i)]
  <2>1. \A i \in 0 .. Len(s) : f[i] = Next(f, i)
    BY <1>3
  <2> HIDE DEF Next
  <2>2. QED BY <2>1
<1> DEFINE F == CHOOSE kept : kept = [i \in 0 .. Len(s) |->
                    IF i = 0 THEN <<>>
                    ELSE IF s[i] \in K THEN Append(kept[i - 1], s[i]) ELSE kept[i - 1]]
<1>5. \E kept : kept = [i \in 0 .. Len(s) |->
                    IF i = 0 THEN <<>>
                    ELSE IF s[i] \in K THEN Append(kept[i - 1], s[i]) ELSE kept[i - 1]]
  <2> HIDE DEF f
  <2>1. QED BY <1>4
<1>6. F = [i \in 0 .. Len(s) |->
                    IF i = 0 THEN <<>>
                    ELSE IF s[i] \in K THEN Append(F[i - 1], s[i]) ELSE F[i - 1]]
  BY <1>5, Zenon
<1>7. Kept(s, K) = F[Len(s)]
  BY Zenon DEF Kept
<1> HIDE DEF F
<1>8. \A i \in 0 .. Len(s) :
         F[i] = IF i = 0 THEN <<>>
                ELSE IF s[i] \in K THEN Append(F[i - 1], s[i]) ELSE F[i - 1]
  BY <1>6
<1>9. QED BY <1>7, <1>8

\* The sequence v consists of the elements of s that are in K, in their order:
\* its j-th is the one at e[j].
Embedded(v, s, K, n, e) ==
    /\ e \in [1 .. Len(v) -> 1 .. n]
    /\ \A j, k \in 1 .. Len(v) : j < k => e[j] < e[k]
    /\ \A j \in 1 .. Len(v) : v[j] = s[e[j]] /\ v[j] \in K
    /\ \A h \in 1 .. n : s[h] \in K => \E j \in 1 .. Len(v) : e[j] = h

LEMMA EmbeddedStep ==
    ASSUME NEW S, NEW s \in Seq(S), NEW K, NEW n \in 1 .. Len(s),
           NEW v \in Seq(S), Len(v) <= n - 1, NEW e, Embedded(v, s, K, n - 1, e)
    PROVE  LET w == IF s[n] \in K THEN Append(v, s[n]) ELSE v
           IN  w \in Seq(S) /\ Len(w) <= n /\ \E g : Embedded(w, s, K, n, g)
<1>1. s[n] \in S /\ n \in Nat /\ n - 1 \in Nat /\ Len(v) \in Nat
  BY LenProperties, ElementOfSeq
<1>2. CASE s[n] \in K
  <2> DEFINE w == Append(v, s[n])
             g == [j \in 1 .. Len(v) + 1 |-> IF j = Len(v) + 1 THEN n ELSE e[j]]
  <2>1. /\ w \in Seq(S) /\ Len(w) = Len(v) + 1
        /\ \A j \in 1 .. Len(v) : w[j] = v[j]
        /\ w[Len(v) + 1] = s[n]
    BY <1>1, AppendProperties
  <2>2. \A j \in 1 .. Len(v) + 1 : j = Len(v) + 1 \/ (j \in 1 .. Len(v) /\ j # Len(v) + 1)
    BY <1>1
  <2>3. /\ \A j \in 1 .. Len(v) : g[j] = e[j] /\ e[j] \in 1 .. n - 1 /\ j \in 1 .. Len(v) + 1
        /\ g[Len(v) + 1] = n /\ Len(v) + 1 \in 1 .. Len(v) + 1
    BY <1>1 DEF Embedded
  <2>4. g \in [1 .. Len(w) -> 1 .. n]
    <3>1. ASSUME NEW j \in 1 .. Len(v) + 1
          PROVE (IF j = Len(v) + 1 THEN n ELSE e[j]) \in 1 .. n
      <4>1. n \in 1 .. n
        BY <1>1
      <4>2. ASSUME j # Len(v) + 1 PROVE e[j] \in 1 .. n
        <5>1. e[j] \in 1 .. n - 1
          BY <2>2, <2>3, <4>2
        <5>2. QED BY <1>1, <5>1
      <4>3. QED BY <4>1, <4>2
    <3>2. QED BY <2>1, <3>1
  <2> HIDE DEF g, w
  <2>5. ASSUME NEW j \in 1 .. Len(w), NEW k \in 1 .. Len(w), j < k PROVE g[j] < g[k]
    <3>1. j \in 1 .. Len(v)
      BY <1>1, <2>1, <2>5
    <3>2. CASE k = Len(v) + 1
      BY <1>1, <2>3, <3>1, <3>2
    <3>3. CASE k # Len(v) + 1
      <4>1. k \in 1 .. Len(v)
        BY <2>1, <2>2, <3>3
      <4>2. QED BY <2>3, <2>5, <3>1, <4>1 DEF Embedded
    <3>4. QED BY <3>2, <3>3
  <2>6. ASSUME NEW j \in 1 .. Len(w) PROVE w[j] = s[g[j]] /\ w[j] \in K
    BY <1>2, <2>1, <2>2, <2>3 DEF Embedded
  <2>7. ASSUME NEW h \in 1 .. n, s[h] \in K PROVE \E j \in 1 .. Len(w) : g[j] = h
    <3>1. CASE h = n
      BY <2>1, <2>3, <3>1
    <3>2. CASE h # n
      <4>1. h \in 1 .. n - 1
        BY <1>1, <3>2
      <4>2. PICK j \in 1 .. Len(v) : e[j] = h
        BY <2>7, <4>1 DEF Embedded
      <4>3. QED BY <2>1, <2>3, <4>2
    <3>3. QED BY <3>1, <3>2
  <2>8. Embedded(w, s, K, n, g)
    BY <2>4, <2>5, <2>6, <2>7 DEF Embedded
  <2>9. Len(w) <= n
    BY <1>1, <2>1
  <2>10. QED BY <1>2, <2>1, <2>8, <2>9 DEF w
<1>3. CASE ~(s[n] \in K)
  <2>1. e \in [1 .. Len(v) -> 1 .. n]
    BY <1>1 DEF Embedded
  <2>2. \A h \in 1 .. n : h = n \/ h \in 1 .. n - 1
    BY <1>1
  <2>3. Embedded(v, s, K, n, e)
    BY <1>3, <2>1, <2>2 DEF Embedded
  <2>4. QED BY <1>1, <1>3, <2>3
<1>4. QED BY <1>2, <1>3

LEMMA KeptIs ==
    ASSUME NEW S, NEW s \in Seq(S), NEW K
    PROVE  /\ Kept(s, K) \in Seq(S) /\ Len(Kept(s, K)) <= Len(s)
           /\ \E e : Embedded(Kept(s, K), s, K, Len(s), e)
<1>1. PICK f : /\ \A i \in 0 .. Len(s) :
                     f[i] = IF i = 0 THEN <<>>
                            ELSE IF s[i] \in K THEN Append(f[i - 1], s[i]) ELSE f[i - 1]
               /\ Kept(s, K) = f[Len(s)]
  BY KeptRounds
<1> DEFINE Good(n) == /\ f[n] \in Seq(S) /\ Len(f[n]) <= n
                      /\ \E e : Embedded(f[n], s, K, n, e)
           Bad == {n \in Nat : n <= Len(s) /\ ~Good(n)}
<1>2. Good(0)
  <2>1. f[0] = <<>>
    BY <1>1, LenProperties
  <2>2. Embedded(<<>>, s, K, 0, <<>>)
    BY DEF Embedded
  <2>3. QED BY <2>1, <2>2, EmptySeq
<1>3. ASSUME NEW n \in 1 .. Len(s), Good(n - 1) PROVE Good(n)
  <2> DEFINE w == IF s[n] \in K THEN Append(f[n - 1], s[n]) ELSE f[n - 1]
  <2>1. f[n] = w
    BY <1>1, LenProperties
  <2>2. PICK e : Embedded(f[n - 1], s, K, n - 1, e)
    BY <1>3
  <2>3. w \in Seq(S) /\ Len(w) <= n /\ \E g : Embedded(w, s, K, n, g)
    BY <1>3, <2>2, EmbeddedStep
  <2> HIDE DEF w
  <2>4. QED BY <2>1, <2>3
<1> HIDE DEF Good
<1>4. ASSUME Bad # {} PROVE FALSE
  <2>1. PICK m \in Bad : \A n \in Bad : m <= n
    BY <1>4, LeastNat
  <2>2. m \in Nat /\ m <= Len(s) /\ ~Good(m) /\ m # 0
    BY <1>2, <2>1
  <2>3. m - 1 \in Nat /\ m - 1 <= Len(s) /\ ~(m <= m - 1) /\ m \in 1 .. Len(s)
    BY <2>2, LenProperties
  <2>4. m - 1 \notin Bad
    <3> HIDE DEF Bad
    <3>1. QED BY <2>1, <2>3
  <2>5. QED BY <1>3, <2>2, <2>3, <2>4
<1>5. Good(Len(s))
  BY <1>4, LenProperties
<1>6. QED BY <1>1, <1>5 DEF Good

\* What the loop leaves: the elements of K, as often as they were there.
LEMMA CountKept ==
    ASSUME NEW S, NEW s \in Seq(S), NEW K, NEW x
    PROVE  /\ Kept(s, K) \in Seq(S) /\ \A i \in 1 .. Len(Kept(s, K)) : Kept(s, K)[i] \in K
           /\ Count(Kept(s, K), x) = IF x \in K THEN Count(s, x) ELSE 0
<1> DEFINE v == Kept(s, K)
<1>1. v \in Seq(S)
  BY KeptIs
<1>2. PICK e : Embedded(v, s, K, Len(s), e)
  BY KeptIs
<1> HIDE DEF v
<1>3. DOMAIN v = 1 .. Len(v) /\ DOMAIN s = 1 .. Len(s) /\ Len(v) \in Nat /\ Len(s) \in Nat
  BY <1>1, LenProperties
<1>4. \A i \in 1 .. Len(v) : v[i] \in K
  BY <1>2 DEF Embedded
<1>5. CASE x \notin K
  <2>1. Count(v, x) = 0
    BY <1>1, <1>3, <1>4, <1>5, CountIsZero
  <2>2. QED BY <1>1, <1>4, <1>5, <2>1 DEF v
<1>6. CASE x \in K
  <2> DEFINE f == [j \in At(v, x) |-> e[j]]
  <2>1. ASSUME NEW j \in At(v, x) PROVE f[j] \in At(s, x) /\ j \in 1 .. Len(v)
    BY <1>2, <1>3 DEF At, Embedded
  <2>2. ASSUME NEW j \in At(v, x), NEW k \in At(v, x), f[j] = f[k] PROVE j = k
    <3>1. j \in 1 .. Len(v) /\ k \in 1 .. Len(v) /\ e[j] = e[k] /\ e[j] \in 1 .. Len(s)
      BY <1>2, <1>3, <2>2 DEF At, Embedded
    <3>2. ~(j < k) /\ ~(k < j)
      BY <1>2, <1>3, <3>1 DEF Embedded
    <3>3. QED BY <1>3, <3>1, <3>2
  <2>3. ASSUME NEW h \in At(s, x) PROVE \E j \in At(v, x) : f[j] = h
    <3>1. h \in 1 .. Len(s) /\ s[h] \in K
      BY <1>3, <1>6 DEF At
    <3>2. PICK j \in 1 .. Len(v) : e[j] = h
      BY <1>2, <3>1 DEF Embedded
    <3>3. j \in At(v, x)
      BY <1>2, <1>3, <3>2 DEF At, Embedded
    <3>4. QED BY <3>2, <3>3
  <2>4. f \in Bijection(At(v, x), At(s, x))
    <3>1. f \in [At(v, x) -> At(s, x)]
      BY <2>1
    <3>2. (\A a, b \in At(v, x) : f[a] = f[b] => a = b) /\ (\A t \in At(s, x) : \E j \in At(v, x) : f[j] = t)
      BY <2>2, <2>3
    <3> HIDE DEF f
    <3>3. QED BY <3>1, <3>2 DEF Bijection, Injection, IsInjective, Surjection
  <2>5. Count(v, x) = Count(s, x)
    <3>1. IsFiniteSet(At(v, x))
      BY <1>1, CountIsNat
    <3>2. QED BY <2>4, <3>1, FS_Bijection DEF Count, ExistsBijection
  <2>6. QED BY <1>1, <1>4, <1>6, <2>5 DEF v
<1>7. QED BY <1>5, <1>6

\* A finite set of naturals has an element with k smaller ones, for every k
\* below its size.
LEMMA RankExists ==
    ASSUME NEW F, F \subseteq Nat, IsFiniteSet(F), NEW k \in Nat, k < Cardinality(F)
    PROVE  \E x \in F : Cardinality({y \in F : y < x}) = k
<1> DEFINE Below(x) == {y \in F : y < x}
           Bad == {m \in Nat : m < Cardinality(F) /\ ~\E x \in F : Cardinality(Below(x)) = m}
<1>0. Cardinality(F) \in Nat /\ \A x \in F : IsFiniteSet(Below(x))
  BY FS_CardinalityType, FS_Subset
<1>1. SUFFICES ASSUME k \in Bad PROVE FALSE
  OBVIOUS
<1>2. PICK m \in Bad : \A n \in Bad : m <= n
  <2>1. Bad \subseteq Nat /\ Bad # {}
    BY <1>1
  <2>2. QED BY <2>1, LeastNat
<1>3. CASE m = 0
  <2>1. F # {}
    BY <1>2, <1>3, FS_EmptySet
  <2>2. PICK x \in F : \A y \in F : x <= y
    BY <2>1, LeastNat
  <2>3. Below(x) = {}
    <3>1. ASSUME NEW y \in F PROVE ~(y < x)
      <4>1. x \in Nat /\ y \in Nat /\ x <= y
        BY <2>2
      <4>2. QED BY <4>1
    <3>2. QED BY <3>1
  <2>4. QED BY <1>2, <1>3, <2>3, FS_EmptySet
<1>4. CASE m # 0
  <2>1. m \in Nat /\ m - 1 \in Nat /\ m - 1 < Cardinality(F) /\ m - 1 \notin Bad
    BY <1>0, <1>2, <1>4
  <2>2. PICK x \in F : Cardinality(Below(x)) = m - 1
    BY <2>1
  <2> DEFINE C == Below(x) \cup {x}
  <2>3. IsFiniteSet(C) /\ Cardinality(C) = m
    <3>1. x \notin Below(x)
      OBVIOUS
    <3>2. Cardinality(C) = Cardinality(Below(x)) + 1 /\ IsFiniteSet(C)
      BY <1>0, <3>1, FS_AddElement
    <3>3. QED BY <2>1, <2>2, <3>2
  <2>4. F \ C # {}
    <3>1. ASSUME F \subseteq C PROVE FALSE
      <4>1. F = C
        BY <3>1
      <4>2. QED BY <1>2, <2>3, <4>1
    <3>2. QED BY <3>1
  <2>5. PICK z \in F \ C : \A y \in F \ C : z <= y
    <3>1. F \ C \subseteq Nat
      OBVIOUS
    <3>2. QED BY <2>4, <3>1, LeastNat
  <2>6. Below(z) = C
    <3>1. ASSUME NEW y \in F PROVE y < z <=> y \in C
      <4>1. z \in Nat /\ x \in Nat /\ y \in Nat /\ ~(z < x) /\ z # x
        BY <2>5
      <4>2. y \in C <=> y <= x
        BY <4>1
      <4>3. y \notin C => z <= y
        BY <2>5
      <4>4. QED BY <4>1, <4>2, <4>3
    <3>2. C \subseteq F
      OBVIOUS
    <3>3. QED BY <3>1, <3>2
  <2>7. QED BY <1>2, <2>3, <2>6
<1>5. QED BY <1>3, <1>4
=============================================================================
