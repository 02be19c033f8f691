--------------------------- MODULE DigestsProofs ----------------------------
(***************************************************************************)
(* What the proofs about views and operations need to know of lists and of *)
(* token streams: FlattenSeq, Sorted, Without, and where one part of a     *)
(* stream ends and the next begins.                                        *)
(***************************************************************************)
EXTENDS Digests, FiniteSetTheorems, SequenceTheorems, WellFoundedInduction, TLAPS

-----------------------------------------------------------------------------
(* Numbers.                                                                *)

\* A set of numbers has a least one.
LEMMA LeastNumber ==
    ASSUME NEW S, S \subseteq Nat, S # {}
    PROVE  \E m \in S : \A n \in S : m <= n
<1> DEFINE R == {ss \in Nat \X Nat : ss[1] < ss[2]}
<1>1. IsWellFoundedOn(R, Nat)
  BY NatLessThanWellFounded DEF OpToRel
<1>2. PICK m \in S : \A n \in S : ~(<<n, m>> \in R)
  <2> HIDE DEF R
  <2>1. QED
    BY <1>1, WFMin
<1>3. \A n \in S : m <= n
  <2>1. \A n \in S : <<n, m>> \in R <=> n < m
    OBVIOUS
  <2> HIDE DEF R
  <2>2. \A n \in S : ~(n < m)
    BY <1>2, <2>1
  <2>3. QED
    BY <2>2
<1>4. QED
  BY <1>3

\* A bounded set of numbers has a greatest one.
LEMMA GreatestNumber ==
    ASSUME NEW S, NEW k \in Nat, S \subseteq 0..k, S # {}
    PROVE  \E m \in S : \A n \in S : n <= m
<1> DEFINE D == {k - n : n \in S}
<1>1. D \subseteq Nat
  OBVIOUS
<1>2. PICK d \in D : \A e \in D : d <= e
  <2>1. D # {}
    OBVIOUS
  <2> HIDE DEF D
  <2>2. QED
    BY <1>1, <2>1, LeastNumber
<1>3. PICK m \in S : d = k - m
  OBVIOUS
<1>4. \A n \in S : n <= m
  <2>1. TAKE n \in S
  <2>2. d <= k - n
    BY <1>2
  <2>3. QED
    BY <1>3, <2>2
<1>5. QED
  BY <1>4

\* Induction up to k, for a set instead of a formula.
LEMMA UpTo ==
    ASSUME NEW S, NEW k \in Nat, 0 \in S, \A n \in 0..k : n < k /\ n \in S => n + 1 \in S
    PROVE  0..k \subseteq S
<1> SUFFICES ASSUME 0..k \ S # {} PROVE FALSE
  OBVIOUS
<1>1. PICK m \in 0..k \ S : \A n \in 0..k \ S : m <= n
  <2>1. 0..k \ S \subseteq Nat
    OBVIOUS
  <2>2. QED
    BY <2>1, LeastNumber
<1>2. m # 0 /\ m - 1 \in 0..k /\ m - 1 < k /\ (m - 1) + 1 = m
  OBVIOUS
<1>3. m - 1 \in S
  BY <1>1, <1>2
<1>4. QED
  BY <1>1, <1>2, <1>3

-----------------------------------------------------------------------------
(* Concatenation.                                                          *)

\* There is a function that concatenates step by step.
LEMMA StepByStep ==
    ASSUME NEW T, NEW ss \in Seq(Seq(T)), NEW k \in 0..Len(ss)
    PROVE  \E f \in [0..k -> Seq(T)] :
              /\ f[0] = <<>>
              /\ \A n \in 1..k : f[n] = f[n - 1] \o ss[n]
<1> DEFINE Good(m, f) == /\ f[0] = <<>>
                         /\ \A n \in 1..m : f[n] = f[n - 1] \o ss[n]
           Reached(m) == \E f \in [0..m -> Seq(T)] : Good(m, f)
           S == {m \in 0..k : Reached(m)}
<1>1. 0 \in S
  <2>1. [n \in 0..0 |-> <<>>] \in [0..0 -> Seq(T)]
    OBVIOUS
  <2>2. Good(0, [n \in 0..0 |-> <<>>])
    OBVIOUS
  <2>3. Reached(0)
    <3> HIDE DEF Good
    <3>1. QED
      BY <2>1, <2>2
  <2> HIDE DEF Reached
  <2>4. QED
    BY <2>3
<1>2. ASSUME NEW m \in 0..k, m < k, m \in S
      PROVE  m + 1 \in S
  <2>1. PICK f \in [0..m -> Seq(T)] : Good(m, f)
    BY <1>2
  <2> DEFINE g == [n \in 0..(m + 1) |-> IF n = m + 1 THEN f[m] \o ss[m + 1] ELSE f[n]]
  <2>2. ss[m + 1] \in Seq(T)
    OBVIOUS
  <2>3. g \in [0..(m + 1) -> Seq(T)]
    <3>1. f[m] \o ss[m + 1] \in Seq(T)
      BY <2>2
    <3>2. QED
      BY <3>1
  <2>4. Good(m + 1, g)
    <3>1. g[0] = <<>>
      BY <2>1
    <3>2. ASSUME NEW n \in 1..(m + 1)
          PROVE  g[n] = g[n - 1] \o ss[n]
      <4>1. CASE n = m + 1
        <5>1. g[n] = f[m] \o ss[m + 1] /\ g[n - 1] = f[m]
          BY <4>1
        <5>2. QED
          BY <4>1, <5>1
      <4>2. CASE n # m + 1
        <5>1. n \in 1..m /\ g[n] = f[n] /\ g[n - 1] = f[n - 1]
          BY <4>2
        <5>2. QED
          BY <2>1, <5>1
      <4>3. QED
        BY <4>1, <4>2
    <3>3. QED
      BY <3>1, <3>2
  <2>5. Reached(m + 1)
    <3> HIDE DEF Good, g
    <3>1. QED
      BY <2>3, <2>4
  <2> HIDE DEF Reached
  <2>6. QED
    BY <1>2, <2>5
<1>3. 0..k \subseteq S
  <2>1. k \in Nat
    OBVIOUS
  <2> HIDE DEF S
  <2>2. QED
    BY <1>1, <1>2, <2>1, UpTo
<1>4. Reached(k)
  <2> HIDE DEF Reached
  <2>1. k \in 0..k
    OBVIOUS
  <2>2. QED
    BY <1>3, <2>1
<1>5. QED
  BY <1>4

\* FlattenSeq is its last value.
LEMMA Flattening ==
    ASSUME NEW T, NEW ss \in Seq(Seq(T))
    PROVE  \E f \in [0..Len(ss) -> Seq(T)] :
              /\ f[0] = <<>>
              /\ \A n \in 1..Len(ss) : f[n] = f[n - 1] \o ss[n]
              /\ FlattenSeq(ss) = f[Len(ss)]
<1>1. PICK f \in [0..Len(ss) -> Seq(T)] :
          f[0] = <<>> /\ \A n \in 1..Len(ss) : f[n] = f[n - 1] \o ss[n]
  <2>1. Len(ss) \in 0..Len(ss)
    OBVIOUS
  <2>2. QED
    BY <2>1, StepByStep
<1>2. CASE Len(ss) = 0
  BY <1>1, <1>2 DEF FlattenSeq
<1>3. CASE Len(ss) # 0
  <2> DEFINE Step(g) == [i \in 1..Len(ss) |->
                            IF i = 1 THEN ss[i] ELSE g[i - 1] \o ss[i]]
             flatten == CHOOSE g : g = Step(g)
             h == [i \in 1..Len(ss) |-> f[i]]
  <2>1. FlattenSeq(ss) = flatten[Len(ss)]
    BY <1>3 DEF FlattenSeq
  <2>2. h = Step(h)
    <3>1. ASSUME NEW i \in 1..Len(ss)
          PROVE  h[i] = Step(h)[i]
      <4>1. CASE i = 1
        <5>1. 1 \in 1..Len(ss) /\ 1 - 1 = 0 /\ ss[1] \in Seq(T)
          BY <1>3
        <5>2. f[1] = <<>> \o ss[1]
          BY <1>1, <5>1
        <5>3. <<>> \o ss[1] = ss[1]
          BY <5>1
        <5>4. QED
          BY <4>1, <5>1, <5>2, <5>3
      <4>2. CASE i # 1
        <5>1. i - 1 \in 1..Len(ss)
          BY <4>2
        <5>2. QED
          BY <1>1, <4>2, <5>1
      <4>3. QED
        BY <4>1, <4>2
    <3>2. QED
      BY <3>1
  <2>3. flatten = Step(flatten)
    <3> HIDE DEF h
    <3>1. QED
      BY <2>2
  <2> HIDE DEF flatten
  <2> DEFINE S == {n \in 0..Len(ss) : n = 0 \/ flatten[n] = f[n]}
  <2>4. \A n \in 0..Len(ss) : n < Len(ss) /\ n \in S => n + 1 \in S
    <3>1. TAKE n \in 0..Len(ss)
    <3>2. HAVE n < Len(ss) /\ n \in S
    <3>3. flatten[n + 1] = IF n + 1 = 1 THEN ss[n + 1] ELSE flatten[(n + 1) - 1] \o ss[n + 1]
      <4>1. n + 1 \in 1..Len(ss)
        BY <3>2
      <4>2. flatten[n + 1] = Step(flatten)[n + 1]
        BY <2>3
      <4>3. QED
        BY <4>1, <4>2
    <3>4. flatten[n + 1] = h[n + 1]
      <4>1. h[n + 1] = IF n + 1 = 1 THEN ss[n + 1] ELSE h[(n + 1) - 1] \o ss[n + 1]
        <5>1. n + 1 \in 1..Len(ss)
          BY <3>2
        <5> HIDE DEF h
        <5>2. QED
          BY <2>2, <5>1
      <4>2. n # 0 => flatten[n] = h[n]
        BY <3>2
      <4> HIDE DEF h
      <4>3. QED
        BY <3>3, <4>1, <4>2
    <3>5. QED
      BY <3>2, <3>4
  <2>5. 0..Len(ss) \subseteq S
    <3>1. 0 \in S /\ Len(ss) \in Nat
      OBVIOUS
    <3> HIDE DEF S
    <3>2. QED
      BY <2>4, <3>1, UpTo
  <2>6. flatten[Len(ss)] = f[Len(ss)]
    BY <1>3, <2>5
  <2>7. QED
    BY <1>1, <2>1, <2>6
<1>4. QED
  BY <1>2, <1>3

-----------------------------------------------------------------------------
(* Lists of the elements of a set.                                         *)

\* A list of a finite set names each element once.
LEMMA Listing ==
    ASSUME NEW S, IsFiniteSet(S), NEW e \in SetToSeqs(S)
    PROVE  /\ Cardinality(S) \in Nat
           /\ e \in [1..Cardinality(S) -> S]
           /\ DOMAIN e = 1..Cardinality(S)
           /\ e \in Seq(S) /\ Len(e) = Cardinality(S)
           /\ ToSet(e) = S
           /\ \A i, j \in DOMAIN e : e[i] = e[j] => i = j
<1> DEFINE n == Cardinality(S)
<1>1. n \in Nat
  BY FS_CardinalityType
<1>2. e \in [1..n -> S] /\ \A i, j \in 1..n : i # j => e[i] # e[j]
  BY DEF SetToSeqs
<1>3. e \in Injection(1..n, S)
  BY <1>2 DEF Injection, IsInjective
<1>4. Cardinality(1..n) = n
  <2> HIDE DEF n
  <2>1. QED
    BY <1>1, FS_Interval
<1>5. e \in Surjection(1..n, S)
  BY <1>3, <1>4, FS_Injection
<1>6. ToSet(e) = S
  BY <1>2, <1>5 DEF Surjection, ToSet
<1> HIDE DEF n
<1>7. e \in Seq(S) /\ Len(e) = n
  BY <1>1, <1>2
<1>8. QED
  BY <1>1, <1>2, <1>6, <1>7 DEF n

\* SetToSeq gives such a list.
LEMMA SetToSeqLists ==
    ASSUME NEW S, IsFiniteSet(S)
    PROVE  SetToSeq(S) \in SetToSeqs(S)
<1>1. PICK f : f \in Bijection(1..Cardinality(S), S)
  BY FS_CardinalityType DEF ExistsBijection
<1>2. f \in [1..Cardinality(S) -> S] /\ IsInjective(f)
  BY <1>1 DEF Bijection, Injection
<1>3. SetToSeq(S) \in [1..Cardinality(S) -> S] /\ IsInjective(SetToSeq(S))
  BY <1>2 DEF SetToSeq
<1>4. QED
  BY <1>3 DEF SetToSeqs, IsInjective

\* A part of the set takes as many places in the list as it has elements.
LEMMA PlacesCounted ==
    ASSUME NEW S, IsFiniteSet(S), NEW e \in SetToSeqs(S), NEW U, U \subseteq S
    PROVE  Cardinality({j \in DOMAIN e : e[j] \in U}) = Cardinality(U)
<1> DEFINE D == {j \in DOMAIN e : e[j] \in U}
           f == [j \in D |-> e[j]]
<1>1. f \in [D -> U] /\ \A i, j \in D : f[i] = f[j] => i = j
  BY Listing
<1>2. \A x \in U : \E j \in D : f[j] = x
  BY Listing DEF ToSet
<1>3. IsFiniteSet(U)
  BY FS_Subset
<1> HIDE DEF D, f
<1>4. f \in Injection(D, U) /\ f \in Surjection(D, U)
  BY <1>1, <1>2 DEF Injection, IsInjective, Surjection
<1>5. QED
  BY <1>3, <1>4, FS_Injection DEF D

\* The numbers of a set up to x.
UpToIn(S, x) == {y \in S : y <= x}

\* The elements of a finite set of numbers have the ranks from 1 on.
LEMMA Ranks ==
    ASSUME NEW S, IsFiniteSet(S), S \subseteq Nat
    PROVE  /\ \A x \in S : Cardinality(UpToIn(S, x)) \in 1..Cardinality(S)
           /\ \A x, y \in S : Cardinality(UpToIn(S, x)) = Cardinality(UpToIn(S, y)) => x = y
           /\ \A i \in 1..Cardinality(S) : \E x \in S : Cardinality(UpToIn(S, x)) = i
<1> DEFINE r == [x \in S |-> Cardinality(UpToIn(S, x))]
           n == Cardinality(S)
<1>1. n \in Nat
  BY FS_CardinalityType
<1>2. ASSUME NEW x \in S
      PROVE  r[x] \in 1..n
  <2>1. UpToIn(S, x) \subseteq S /\ x \in UpToIn(S, x)
    BY DEF UpToIn
  <2>2. IsFiniteSet(UpToIn(S, x)) /\ Cardinality(UpToIn(S, x)) <= n
    BY <2>1, FS_Subset
  <2>3. Cardinality(UpToIn(S, x)) \in Nat /\ Cardinality(UpToIn(S, x)) # 0
    BY <2>1, <2>2, FS_CardinalityType, FS_EmptySet
  <2>4. QED
    BY <1>1, <2>2, <2>3
<1>3. ASSUME NEW x \in S, NEW y \in S, x < y
      PROVE  r[x] # r[y]
  <2>1. UpToIn(S, x) \subseteq UpToIn(S, y) /\ UpToIn(S, x) # UpToIn(S, y)
    <3>1. y \in UpToIn(S, y) /\ y \notin UpToIn(S, x)
      BY <1>3 DEF UpToIn
    <3>2. \A z \in S : z <= x => z <= y
      BY <1>3
    <3>3. UpToIn(S, x) \subseteq UpToIn(S, y)
      BY <3>2 DEF UpToIn
    <3>4. QED
      BY <3>1, <3>3
  <2>2. IsFiniteSet(UpToIn(S, y))
    <3>1. UpToIn(S, y) \subseteq S
      BY DEF UpToIn
    <3>2. QED
      BY <3>1, FS_Subset
  <2>3. Cardinality(UpToIn(S, x)) # Cardinality(UpToIn(S, y))
    BY <2>1, <2>2, FS_Subset
  <2>4. QED
    BY <2>3
<1>4. \A x, y \in S : r[x] = r[y] => x = y
  <2>1. \A x, y \in S : x < y \/ y < x \/ x = y
    OBVIOUS
  <2> HIDE DEF r
  <2>2. QED
    BY <1>3, <2>1
<1>5. r \in Injection(S, 1..n)
  <2>1. r \in [S -> 1..n]
    BY <1>2
  <2> HIDE DEF r
  <2>2. QED
    BY <1>4, <2>1 DEF Injection, IsInjective
<1>6. r \in Surjection(S, 1..n)
  <2>1. IsFiniteSet(1..n) /\ Cardinality(1..n) = n
    <3> HIDE DEF n
    <3>1. QED
      BY <1>1, FS_Interval
  <2> HIDE DEF r
  <2>2. QED
    BY <1>5, <2>1, FS_Injection
<1>7. \A i \in 1..n : \E x \in S : r[x] = i
  BY <1>6 DEF Surjection
<1>8. QED
  BY <1>2, <1>4, <1>7

\* The i-th of a sorted list has i elements up to it.
LEMMA SortedRank ==
    ASSUME NEW S, IsFiniteSet(S), S \subseteq Nat, NEW e \in SetToSeqs(S),
           NEW i \in 1..Cardinality(S)
    PROVE  Sorted(e)[i] \in S /\ Cardinality(UpToIn(S, Sorted(e)[i])) = i
<1> DEFINE Below(x) == Cardinality({j \in DOMAIN e : e[j] < x})
           Upto(x) == Cardinality({j \in DOMAIN e : e[j] <= x})
           At(x) == Below(x) < i /\ i <= Upto(x)
<1>1. ASSUME NEW x \in S
      PROVE  Upto(x) = Cardinality(UpToIn(S, x)) /\ Below(x) = Upto(x) - 1
  <2> DEFINE B == {y \in S : y < x}
  <2>1. {j \in DOMAIN e : e[j] <= x} = {j \in DOMAIN e : e[j] \in UpToIn(S, x)}
    BY Listing DEF UpToIn
  <2>2. {j \in DOMAIN e : e[j] < x} = {j \in DOMAIN e : e[j] \in B}
    BY Listing
  <2>3. B \subseteq S /\ UpToIn(S, x) \subseteq S
    BY DEF UpToIn
  <2>4. UpToIn(S, x) = B \cup {x} /\ x \notin B
    <3>1. \A y \in S : y <= x <=> y < x \/ y = x
      OBVIOUS
    <3>2. x \notin B
      OBVIOUS
    <3>3. QED
      BY <3>1, <3>2 DEF UpToIn
  <2> HIDE DEF B
  <2>5. Upto(x) = Cardinality(UpToIn(S, x)) /\ Below(x) = Cardinality(B)
    <3>1. \A U : U \subseteq S => Cardinality({j \in DOMAIN e : e[j] \in U}) = Cardinality(U)
      BY PlacesCounted, ZenonT(40)
    <3>2. /\ Cardinality({j \in DOMAIN e : e[j] \in B}) = Cardinality(B)
          /\ Cardinality({j \in DOMAIN e : e[j] \in UpToIn(S, x)}) = Cardinality(UpToIn(S, x))
      BY <2>3, <3>1
    <3>3. QED
      BY <2>1, <2>2, <3>2
  <2>6. IsFiniteSet(B) /\ Cardinality(B) \in Nat
    BY <2>3, FS_Subset, FS_CardinalityType
  <2>7. Cardinality(UpToIn(S, x)) = Cardinality(B) + 1
    BY <2>4, <2>6, FS_AddElement
  <2> HIDE DEF Upto, Below
  <2>8. QED
    BY <2>5, <2>6, <2>7
<1>2. PICK x \in S : Cardinality(UpToIn(S, x)) = i
  BY Ranks
<1>3. ToSet(e) = S /\ i \in DOMAIN e
  BY Listing
<1>4. Sorted(e)[i] = CHOOSE y \in S : At(y)
  BY <1>3 DEF Sorted
<1>5. \A y \in S : At(y) <=> Cardinality(UpToIn(S, y)) = i
  <2>1. TAKE y \in S
  <2>2. Cardinality(UpToIn(S, y)) \in 1..Cardinality(S)
    BY Ranks
  <2>3. Upto(y) = Cardinality(UpToIn(S, y)) /\ Below(y) = Upto(y) - 1
    BY <1>1
  <2> HIDE DEF Upto, Below
  <2>4. QED
    BY <2>2, <2>3
<1> HIDE DEF At
<1>6. At(x)
  BY <1>2, <1>5
<1>7. Sorted(e)[i] \in S /\ At(Sorted(e)[i])
  BY <1>4, <1>6
<1>8. QED
  BY <1>5, <1>7

\* In whatever order a list of a set is given, sorted it is the same list of it.
LEMMA SortedListing ==
    ASSUME NEW S, IsFiniteSet(S), S \subseteq Nat, NEW e \in SetToSeqs(S)
    PROVE  /\ DOMAIN Sorted(e) = 1..Cardinality(S)
           /\ Sorted(e) = [i \in 1..Cardinality(S) |-> Sorted(e)[i]]
           /\ ToSet(Sorted(e)) = S
           /\ \A d \in SetToSeqs(S) : Sorted(d) = Sorted(e)
<1>1. ASSUME NEW d \in SetToSeqs(S)
      PROVE  /\ Sorted(d) = [i \in 1..Cardinality(S) |-> Sorted(d)[i]]
             /\ \A i \in 1..Cardinality(S) : Sorted(d)[i] \in S
  <2>1. DOMAIN d = 1..Cardinality(S)
    BY Listing
  <2>2. Sorted(d) = [i \in 1..Cardinality(S) |-> Sorted(d)[i]]
    <3> DEFINE F(i) == CHOOSE x \in ToSet(d) :
                          /\ Cardinality({j \in DOMAIN d : d[j] < x}) < i
                          /\ i <= Cardinality({j \in DOMAIN d : d[j] <= x})
    <3>1. Sorted(d) = [i \in 1..Cardinality(S) |-> F(i)]
      BY <2>1 DEF Sorted
    <3> HIDE DEF F
    <3>2. QED
      BY <3>1
  <2>3. QED
    BY <2>2, SortedRank
<1>2. \A x \in S : \E i \in 1..Cardinality(S) : Sorted(e)[i] = x
  <2>1. TAKE x \in S
  <2>2. Cardinality(UpToIn(S, x)) \in 1..Cardinality(S)
    BY Ranks
  <2>3. Sorted(e)[Cardinality(UpToIn(S, x))] = x
    <3> DEFINE s == Sorted(e)[Cardinality(UpToIn(S, x))]
    <3>1. s \in S /\ Cardinality(UpToIn(S, s)) = Cardinality(UpToIn(S, x))
      BY <2>2, SortedRank
    <3> HIDE DEF s
    <3>2. s = x
      BY <3>1, Ranks
    <3>3. QED
      BY <3>2 DEF s
  <2>4. QED
    BY <2>2, <2>3
<1>3. DOMAIN Sorted(e) = 1..Cardinality(S)
  BY <1>1
<1>4. ToSet(Sorted(e)) = S
  BY <1>1, <1>2, <1>3 DEF ToSet
<1>5. ASSUME NEW d \in SetToSeqs(S)
      PROVE  Sorted(d) = Sorted(e)
  <2>1. \A i \in 1..Cardinality(S) : Sorted(d)[i] = Sorted(e)[i]
    <3>1. TAKE i \in 1..Cardinality(S)
    <3>2. Sorted(d)[i] \in S /\ Cardinality(UpToIn(S, Sorted(d)[i])) = i
      BY SortedRank
    <3>3. Sorted(e)[i] \in S /\ Cardinality(UpToIn(S, Sorted(e)[i])) = i
      BY SortedRank
    <3>4. QED
      BY <3>2, <3>3, Ranks
  <2>2. QED
    BY <1>1, <2>1
<1>6. QED
  BY <1>1, <1>3, <1>4, <1>5

-----------------------------------------------------------------------------
(* Lists without some element.                                             *)

\* What two lists in a row are made of.
LEMMA JoinedSet ==
    ASSUME NEW T, NEW a \in Seq(T), NEW b \in Seq(T)
    PROVE  ToSet(a \o b) = ToSet(a) \cup ToSet(b)
<1> DEFINE ab == a \o b
<1>1. /\ Len(a) \in Nat /\ Len(b) \in Nat
      /\ DOMAIN a = 1..Len(a) /\ DOMAIN b = 1..Len(b)
  OBVIOUS
<1>2. /\ ab \in Seq(T) /\ Len(ab) = Len(a) + Len(b)
      /\ \A i \in 1..(Len(a) + Len(b)) :
            ab[i] = IF i <= Len(a) THEN a[i] ELSE b[i - Len(a)]
  BY ConcatProperties, ZenonT(40)
<1> HIDE DEF ab
<1>3. DOMAIN ab = 1..(Len(a) + Len(b))
  BY <1>2
<1>4. ASSUME NEW i \in DOMAIN ab PROVE ab[i] \in ToSet(a) \cup ToSet(b)
  <2>1. CASE i <= Len(a)
    <3>1. i \in DOMAIN a /\ ab[i] = a[i]
      BY <1>1, <1>2, <1>3, <2>1
    <3>2. QED
      BY <3>1 DEF ToSet
  <2>2. CASE ~(i <= Len(a))
    <3>1. i - Len(a) \in DOMAIN b /\ ab[i] = b[i - Len(a)]
      BY <1>1, <1>2, <1>3, <2>2
    <3>2. QED
      BY <3>1 DEF ToSet
  <2>3. QED
    BY <2>1, <2>2
<1>5. ASSUME NEW i \in DOMAIN a PROVE a[i] \in ToSet(ab)
  <2>1. i \in DOMAIN ab /\ ab[i] = a[i]
    BY <1>1, <1>2, <1>3
  <2>2. QED
    BY <2>1 DEF ToSet
<1>6. ASSUME NEW i \in DOMAIN b PROVE b[i] \in ToSet(ab)
  <2> DEFINE j == Len(a) + i
  <2>1. j \in 1..(Len(a) + Len(b)) /\ ~(j <= Len(a)) /\ j - Len(a) = i
    BY <1>1
  <2>2. j \in DOMAIN ab /\ ab[j] = b[i]
    BY <1>2, <1>3, <2>1
  <2> HIDE DEF j
  <2>3. QED
    BY <2>2 DEF ToSet
<1>7. ToSet(ab) = ToSet(a) \cup ToSet(b)
  <2>1. /\ \A y \in ToSet(ab) : \E i \in DOMAIN ab : y = ab[i]
        /\ \A y \in ToSet(a) : \E i \in DOMAIN a : y = a[i]
        /\ \A y \in ToSet(b) : \E i \in DOMAIN b : y = b[i]
    BY DEF ToSet
  <2>2. QED
    BY <1>4, <1>5, <1>6, <2>1
<1>8. QED
  BY <1>7 DEF ab

\* What is dropped is gone.
LEMMA WithoutDrops ==
    ASSUME NEW T, NEW x, NEW s \in Seq(T)
    PROVE  Without(s, x) \in Seq(T \ {x})
<1> DEFINE ss == [i \in DOMAIN s |-> IF s[i] = x THEN <<>> ELSE <<s[i]>>]
<1>1. ss \in Seq(Seq(T \ {x}))
  <2>1. \A i \in 1..Len(s) : ss[i] \in Seq(T \ {x})
    <3>1. TAKE i \in 1..Len(s)
    <3>2. s[i] \in T /\ i \in DOMAIN s
      OBVIOUS
    <3>3. CASE s[i] = x
      <4>1. ss[i] = <<>>
        BY <3>2, <3>3
      <4> HIDE DEF ss
      <4>2. QED
        BY <4>1
    <3>4. CASE s[i] # x
      <4>1. ss[i] = <<s[i]>> /\ s[i] \in T \ {x}
        BY <3>2, <3>4
      <4> HIDE DEF ss
      <4>2. QED
        BY <4>1
    <3>5. QED
      BY <3>3, <3>4
  <2>2. DOMAIN ss = 1..Len(s) /\ Len(s) \in Nat
    OBVIOUS
  <2>3. ss = [i \in 1..Len(s) |-> ss[i]]
    BY <2>2
  <2> HIDE DEF ss
  <2>4. QED
    BY <2>1, <2>2, <2>3
<1>2. Without(s, x) = FlattenSeq(ss)
  BY DEF Without
<1> HIDE DEF ss
<1>3. PICK f \in [0..Len(ss) -> Seq(T \ {x})] : FlattenSeq(ss) = f[Len(ss)]
  BY <1>1, Flattening
<1>4. Len(ss) \in 0..Len(ss)
  BY <1>1
<1>5. QED
  BY <1>2, <1>3, <1>4

\* Nothing else is dropped.
LEMMA WithoutKeepsOthers ==
    ASSUME NEW T, NEW x, NEW s \in Seq(T)
    PROVE  ToSet(Without(s, x)) = ToSet(s) \ {x}
<1> DEFINE ss == [i \in DOMAIN s |-> IF s[i] = x THEN <<>> ELSE <<s[i]>>]
           k == Len(s)
           Upto(n) == {s[i] : i \in 1..n} \ {x}
<1>1. k \in Nat /\ DOMAIN s = 1..k /\ \A i \in 1..k : s[i] \in T
  OBVIOUS
<1>2. /\ ss \in Seq(Seq(T)) /\ Len(ss) = k
      /\ \A i \in 1..k : /\ ss[i] \in Seq(T)
                         /\ ToSet(ss[i]) = {s[i]} \ {x}
  <2>1. \A i \in 1..k : ss[i] \in Seq(T) /\ ToSet(ss[i]) = {s[i]} \ {x}
    <3>1. TAKE i \in 1..k
    <3>2. CASE s[i] = x
      <4>1. ss[i] = <<>>
        BY <1>1, <3>2
      <4>2. ToSet(<<>>) = {} /\ <<>> \in Seq(T)
        BY DEF ToSet
      <4>3. QED
        BY <3>2, <4>1, <4>2
    <3>3. CASE s[i] # x
      <4>1. ss[i] = <<s[i]>>
        BY <1>1, <3>3
      <4>2. ToSet(<<s[i]>>) = {s[i]} /\ <<s[i]>> \in Seq(T)
        BY <1>1 DEF ToSet
      <4>3. QED
        BY <3>3, <4>1, <4>2
    <3>4. QED
      BY <3>2, <3>3
  <2>2. ss = [i \in 1..k |-> ss[i]]
    BY <1>1
  <2> HIDE DEF ss
  <2>3. QED
    BY <1>1, <2>1, <2>2
<1>3. Without(s, x) = FlattenSeq(ss)
  BY DEF Without
<1> HIDE DEF ss
<1>4. PICK f \in [0..k -> Seq(T)] :
          /\ f[0] = <<>> /\ FlattenSeq(ss) = f[k]
          /\ \A n \in 1..k : f[n] = f[n - 1] \o ss[n]
  <2>1. PICK f \in [0..Len(ss) -> Seq(T)] :
            /\ f[0] = <<>>
            /\ \A n \in 1..Len(ss) : f[n] = f[n - 1] \o ss[n]
            /\ FlattenSeq(ss) = f[Len(ss)]
    BY <1>2, Flattening
  <2> HIDE DEF k
  <2>2. QED
    BY <1>2, <2>1
<1> HIDE DEF k
<1> DEFINE S == {n \in 0..k : ToSet(f[n]) = Upto(n)}
<1>5. 0 \in S
  <2>1. ToSet(<<>>) = {} /\ Upto(0) = {}
    BY DEF ToSet
  <2>2. QED
    BY <1>1, <1>4, <2>1
<1>6. ASSUME NEW n \in 0..k, n < k, n \in S
      PROVE  n + 1 \in S
  <2>1. n + 1 \in 1..k /\ (n + 1) - 1 = n /\ n + 1 \in 0..k
    BY <1>1, <1>6
  <2>2. f[n + 1] = f[n] \o ss[n + 1]
    BY <1>4, <2>1
  <2>3. f[n] \in Seq(T) /\ ss[n + 1] \in Seq(T)
    BY <1>2, <1>4, <2>1
  <2>4. ToSet(f[n] \o ss[n + 1]) = ToSet(f[n]) \cup ToSet(ss[n + 1])
    BY <2>3, JoinedSet
  <2>5. ToSet(f[n]) = Upto(n) /\ ToSet(ss[n + 1]) = {s[n + 1]} \ {x}
    BY <1>2, <1>6, <2>1
  <2>6. Upto(n + 1) = Upto(n) \cup ({s[n + 1]} \ {x})
    <3>1. 1..(n + 1) = 1..n \cup {n + 1}
      BY <1>1
    <3>2. QED
      BY <3>1
  <2> HIDE DEF Upto
  <2>7. QED
    BY <2>1, <2>2, <2>4, <2>5, <2>6
<1>7. 0..k \subseteq S
  <2> HIDE DEF S
  <2>1. QED
    BY <1>1, <1>5, <1>6, UpTo
<1>8. ToSet(f[k]) = Upto(k)
  BY <1>1, <1>7
<1>9. Upto(k) = ToSet(s) \ {x}
  BY <1>1 DEF ToSet
<1>10. QED
  BY <1>3, <1>4, <1>8, <1>9

\* Dropping what a sequence was padded with gives the sequence.
LEMMA WithoutPadding ==
    ASSUME NEW T, NEW x, x \notin T, NEW s \in Seq(T), NEW n \in Nat
    PROVE  Without(s \o [i \in 1..n |-> x], x) = s
<1> DEFINE p == s \o [i \in 1..n |-> x]
           ss == [i \in DOMAIN p |-> IF p[i] = x THEN <<>> ELSE <<p[i]>>]
           P(k) == [i \in 1..k |-> s[i]]
           m == Len(s)
<1>1. /\ m \in Nat /\ DOMAIN p = 1..(m + n)
      /\ \A i \in 1..m : p[i] = s[i] /\ s[i] \in T
      /\ \A i \in (m + 1)..(m + n) : p[i] = x
  OBVIOUS
<1>2. /\ DOMAIN ss = 1..(m + n)
      /\ \A i \in 1..m : ss[i] = <<s[i]>>
      /\ \A i \in (m + 1)..(m + n) : ss[i] = <<>>
  <2> HIDE DEF p, m
  <2>1. QED
    BY <1>1
<1>3. ss \in Seq(Seq(T)) /\ Len(ss) = m + n
  <2>1. \A i \in 1..(m + n) : ss[i] \in Seq(T)
    <3> HIDE DEF ss, p, m
    <3>1. \A e \in T : <<e>> \in Seq(T)
      OBVIOUS
    <3>2. <<>> \in Seq(T)
      OBVIOUS
    <3>3. \A i \in 1..(m + n) : i \in 1..m \/ i \in (m + 1)..(m + n)
      BY <1>1
    <3>4. QED
      BY <1>1, <1>2, <3>1, <3>2, <3>3
  <2>2. ss = [i \in 1..(m + n) |-> ss[i]]
    BY <1>2
  <2>3. m + n \in Nat
    BY <1>1
  <2> HIDE DEF ss, p, m
  <2>4. QED
    BY <2>1, <2>2, <2>3
<1>4. Without(p, x) = FlattenSeq(ss)
  BY DEF Without
<1> HIDE DEF ss, p
<1>5. PICK f \in [0..(m + n) -> Seq(T)] :
          /\ f[0] = <<>>
          /\ \A k \in 1..(m + n) : f[k] = f[k - 1] \o ss[k]
          /\ FlattenSeq(ss) = f[m + n]
  BY <1>3, Flattening, ZenonT(40)
<1> DEFINE S == {k \in 0..(m + n) : f[k] = IF k <= m THEN P(k) ELSE s}
<1>6. ASSUME NEW k \in 0..(m + n), k < m + n, k \in S
      PROVE  k + 1 \in S
  <2>1. k + 1 \in 1..(m + n) /\ (k + 1) - 1 = k
    BY <1>1, <1>6
  <2>2. f[k + 1] = f[k] \o ss[k + 1]
    BY <1>5, <2>1
  <2>3. CASE k < m
    <3>1. f[k] = P(k) /\ ss[k + 1] = <<s[k + 1]>>
      BY <1>1, <1>2, <1>6, <2>1, <2>3
    <3>2. P(k) \o <<s[k + 1]>> = P(k + 1)
      BY <1>1, <2>3
    <3>3. k + 1 <= m /\ k + 1 \in 0..(m + n)
      BY <1>1, <2>1, <2>3
    <3> HIDE DEF P, m
    <3>4. f[k + 1] = P(k + 1)
      BY <2>2, <3>1, <3>2
    <3>5. QED
      BY <3>3, <3>4
  <2>4. CASE k >= m
    <3>1. f[k] = s
      <4>1. k = m => P(k) = s
        OBVIOUS
      <4> HIDE DEF P
      <4>2. QED
        BY <1>1, <1>6, <2>4, <4>1
    <3>2. ss[k + 1] = <<>>
      BY <1>1, <1>2, <2>1, <2>4
    <3>3. s \o <<>> = s
      OBVIOUS
    <3>4. QED
      BY <1>1, <2>1, <2>2, <2>4, <3>1, <3>2, <3>3
  <2>5. QED
    BY <1>1, <2>3, <2>4
<1>7. 0 \in S /\ m + n \in Nat
  <2>1. P(0) = <<>>
    OBVIOUS
  <2> HIDE DEF P
  <2>2. QED
    BY <1>1, <1>5, <2>1
<1>8. 0..(m + n) \subseteq S
  <2> HIDE DEF S
  <2>1. QED
    BY <1>6, <1>7, UpTo
<1>9. f[m + n] = s
  <2>1. P(m) = s
    OBVIOUS
  <2>2. m + n \in S
    <3>1. m + n \in 0..(m + n)
      BY <1>7
    <3> HIDE DEF S, m
    <3>2. QED
      BY <1>8, <3>1
  <2> HIDE DEF P
  <2>3. QED
    BY <1>1, <2>1, <2>2
<1>10. QED
  BY <1>4, <1>5, <1>9 DEF p

\* A list that lacks x is what is left without x.
LEMMA WithoutNone ==
    ASSUME NEW T, NEW x, x \notin T, NEW s \in Seq(T)
    PROVE  Without(s, x) = s
<1> DEFINE e == [i \in 1..0 |-> x]
<1>1. e = <<>>
  OBVIOUS
<1>2. Without(s \o e, x) = s
  BY WithoutPadding
<1> HIDE DEF e
<1>3. s \o e = s
  BY <1>1, ConcatEmptySeq
<1>4. QED
  BY <1>2, <1>3

-----------------------------------------------------------------------------
(* Parts of a stream.                                                      *)

\* One list in a list of lists.
LEMMA FlattenOne ==
    ASSUME NEW T, NEW x \in Seq(T)
    PROVE  FlattenSeq(<<x>>) = x
<1> DEFINE ss == <<x>>
<1>1. ss \in Seq(Seq(T)) /\ Len(ss) = 1 /\ ss[1] = x
  OBVIOUS
<1> HIDE DEF ss
<1>2. PICK f \in [0..Len(ss) -> Seq(T)] :
          /\ f[0] = <<>>
          /\ \A n \in 1..Len(ss) : f[n] = f[n - 1] \o ss[n]
          /\ FlattenSeq(ss) = f[Len(ss)]
  BY <1>1, Flattening
<1>3. f[1] = f[0] \o ss[1]
  <2>1. 1 \in 1..Len(ss) /\ 1 - 1 = 0
    BY <1>1
  <2>2. QED
    BY <1>2, <2>1
<1>4. <<>> \o x = x
  BY ConcatEmptySeq
<1>5. QED
  BY <1>1, <1>2, <1>3, <1>4 DEF ss

\* Two lists of one element make a list of two.
LEMMA OneAndOne ==
    ASSUME NEW a, NEW b
    PROVE  <<a>> \o <<b>> = <<a, b>>
<1> DEFINE x == <<a>>
           y == <<b>>
           z == <<a, b>>
           T == {a, b}
<1>1. /\ x \in Seq(T) /\ Len(x) = 1 /\ x[1] = a
      /\ y \in Seq(T) /\ Len(y) = 1 /\ y[1] = b
      /\ z \in Seq(T) /\ Len(z) = 2 /\ z[1] = a /\ z[2] = b
  OBVIOUS
<1> HIDE DEF x, y, z, T
<1>2. /\ x \o y \in Seq(T) /\ Len(x \o y) = Len(x) + Len(y)
      /\ \A i \in 1..(Len(x) + Len(y)) :
            (x \o y)[i] = IF i <= Len(x) THEN x[i] ELSE y[i - Len(x)]
  BY <1>1, ConcatProperties, ZenonT(40)
<1>3. x \o y = z
  BY <1>1, <1>2, SeqEqual
<1>4. QED
  BY <1>3 DEF x, y, z

\* Sequences of one length, one after the other.
InBlocks(s, ss, w) ==
    /\ Len(s) = w * Len(ss)
    /\ \A i \in 1..Len(ss) : \A j \in 1..w : s[w * (i - 1) + j] = ss[i][j]

\* Such sequences, flattened, can be told apart by the place.
LEMMA Blocks ==
    ASSUME NEW T, NEW w \in {2, 3}, NEW ss \in Seq(Seq(T)),
           \A i \in 1..Len(ss) : Len(ss[i]) = w
    PROVE  FlattenSeq(ss) \in Seq(T) /\ InBlocks(FlattenSeq(ss), ss, w)
<1> DEFINE k == Len(ss)
<1>1. PICK f \in [0..k -> Seq(T)] :
          /\ f[0] = <<>>
          /\ \A n \in 1..k : f[n] = f[n - 1] \o ss[n]
          /\ FlattenSeq(ss) = f[k]
  BY Flattening
<1> DEFINE Good(n) == /\ Len(f[n]) = w * n
                      /\ \A i \in 1..n : \A j \in 1..w : f[n][w * (i - 1) + j] = ss[i][j]
           S == {n \in 0..k : Good(n)}
<1>2. k \in Nat /\ \A i \in 1..k : ss[i] \in Seq(T) /\ Len(ss[i]) = w
  OBVIOUS
<1> HIDE DEF k
<1>3. 0 \in S
  <2>1. Good(0)
    BY <1>1
  <2> HIDE DEF Good
  <2>2. QED
    BY <1>2, <2>1
<1>4. ASSUME NEW n \in 0..k, n < k, n \in S
      PROVE  n + 1 \in S
  <2>1. Good(n)
    BY <1>4
  <2>2. n + 1 \in 1..k /\ n \in 0..k /\ (n + 1) - 1 = n
    BY <1>2, <1>4
  <2>3. f[n + 1] = f[n] \o ss[n + 1] /\ f[n] \in Seq(T) /\ ss[n + 1] \in Seq(T)
        /\ Len(ss[n + 1]) = w
    BY <1>1, <1>2, <2>2
  <2>4. Len(f[n]) = w * n
    BY <2>1
  <2>5. /\ Len(f[n + 1]) = Len(f[n]) + Len(ss[n + 1])
        /\ \A i \in 1..(Len(f[n]) + Len(ss[n + 1])) :
              f[n + 1][i] = IF i <= Len(f[n]) THEN f[n][i] ELSE ss[n + 1][i - Len(f[n])]
    <3> DEFINE a == f[n]
               b == ss[n + 1]
    <3>1. a \in Seq(T) /\ b \in Seq(T) /\ f[n + 1] = a \o b
      BY <2>3
    <3> HIDE DEF a, b
    <3>2. /\ Len(a \o b) = Len(a) + Len(b)
          /\ \A i \in 1..(Len(a) + Len(b)) :
                (a \o b)[i] = IF i <= Len(a) THEN a[i] ELSE b[i - Len(a)]
      BY <3>1, ConcatProperties, ZenonT(40)
    <3>3. QED
      BY <3>1, <3>2 DEF a, b
  <2>6. Len(f[n + 1]) = w * n + w
    BY <2>3, <2>4, <2>5
  <2>7. w * n + w = w * (n + 1)
    BY <1>2, <1>4
  <2>8. ASSUME NEW i \in 1..(n + 1), NEW j \in 1..w
        PROVE  f[n + 1][w * (i - 1) + j] = ss[i][j]
    <3>1. CASE i = n + 1
      <4>1. w * (i - 1) + j \in 1..(w * n + w) /\ ~(w * (i - 1) + j <= w * n)
            /\ w * (i - 1) + j - w * n = j
        BY <1>2, <1>4, <3>1
      <4>2. QED
        <5> DEFINE q == w * (i - 1) + j
        <5>1. q \in 1..(Len(f[n]) + Len(ss[n + 1])) /\ ~(q <= Len(f[n])) /\ q - Len(f[n]) = j
          BY <2>3, <2>4, <4>1
        <5> HIDE DEF q
        <5>2. f[n + 1][q] = ss[n + 1][j]
          BY <2>5, <5>1
        <5>3. QED
          BY <3>1, <5>2 DEF q
    <3>2. CASE i # n + 1
      <4>1. i \in 1..n
        BY <1>4, <3>2
      <4>2. w * (i - 1) + j \in 1..(w * n + w) /\ w * (i - 1) + j <= w * n
        BY <1>2, <1>4, <4>1
      <4>3. f[n][w * (i - 1) + j] = ss[i][j]
        BY <2>1, <4>1
      <4>4. QED
        BY <2>3, <2>4, <2>5, <4>2, <4>3
    <3>3. QED
      BY <3>1, <3>2
  <2>9. Good(n + 1)
    BY <2>6, <2>7, <2>8
  <2>10. n + 1 \in 0..k
    BY <2>2
  <2> HIDE DEF Good
  <2>11. QED
    BY <2>9, <2>10
<1>5. 0..k \subseteq S
  <2> HIDE DEF S
  <2>1. QED
    BY <1>2, <1>3, <1>4, UpTo
<1>6. Good(k) /\ k \in 0..k
  <2> HIDE DEF Good
  <2>1. QED
    BY <1>2, <1>5
<1>7. QED
  BY <1>1, <1>6 DEF k, InBlocks

\* Every place is in one of the blocks.
LEMMA BlockOf ==
    ASSUME NEW w \in {2, 3}, NEW n \in Nat, NEW p \in 1..(w * n)
    PROVE  \E i \in 1..n : \E j \in 1..w : p = w * (i - 1) + j
<1>1. CASE w = 2
  <2>1. (p - 1) \div 2 + 1 \in 1..n /\ ((p - 1) % 2) + 1 \in 1..2
        /\ p = 2 * (((p - 1) \div 2 + 1) - 1) + (((p - 1) % 2) + 1)
    BY <1>1
  <2>2. QED
    BY <1>1, <2>1
<1>2. CASE w = 3
  <2>1. (p - 1) \div 3 + 1 \in 1..n /\ ((p - 1) % 3) + 1 \in 1..3
        /\ p = 3 * (((p - 1) \div 3 + 1) - 1) + (((p - 1) % 3) + 1)
    BY <1>2
  <2>2. QED
    BY <1>2, <2>1
<1>3. QED
  BY <1>1, <1>2

\* Two streams that begin with the same number of tokens each of some part.
LEMMA SameCut ==
    ASSUME NEW T
    PROVE  \A a, b, x, y \in Seq(T) :
              a \o x = b \o y /\ Len(a) = Len(b) => a = b /\ x = y
<1> TAKE a, b, x, y \in Seq(T)
<1> HAVE a \o x = b \o y /\ Len(a) = Len(b)
<1>1. /\ Len(a) \in Nat /\ Len(x) \in Nat /\ Len(y) \in Nat
      /\ Len(a \o x) = Len(a) + Len(x) /\ Len(b \o y) = Len(b) + Len(y)
  BY ConcatProperties, LenProperties
<1>2. /\ \A i \in 1..(Len(a) + Len(x)) :
            (a \o x)[i] = IF i <= Len(a) THEN a[i] ELSE x[i - Len(a)]
      /\ \A i \in 1..(Len(b) + Len(y)) :
            (b \o y)[i] = IF i <= Len(b) THEN b[i] ELSE y[i - Len(b)]
  BY ConcatProperties
<1>3. \A i \in 1..Len(a) : a[i] = b[i]
  <2>1. TAKE i \in 1..Len(a)
  <2>2. i \in 1..(Len(a) + Len(x)) /\ i \in 1..(Len(b) + Len(y)) /\ i <= Len(a)
    BY <1>1
  <2>3. QED
    BY <1>2, <2>2
<1>4. a = b
  BY <1>3, SeqEqual
<1>5. Len(x) = Len(y)
  BY <1>1
<1>6. x = y
  <2>1. ASSUME NEW i \in 1..Len(x)
        PROVE  x[i] = y[i]
    <3> DEFINE q == Len(a) + i
    <3>1. q \in 1..(Len(a) + Len(x)) /\ q \in 1..(Len(b) + Len(y)) /\ ~(q <= Len(a))
          /\ q - Len(a) = i
      BY <1>1
    <3> HIDE DEF q
    <3>2. QED
      BY <1>2, <3>1
  <2>2. QED
    BY <1>5, <2>1, SeqEqual
<1>7. QED
  BY <1>4, <1>6

\* The tokens of s are of one kind; s does not begin with a token of a kind.
OfKind(s, kind) == \A i \in 1..Len(s) : s[i][1] = kind
NotFrom(s, kind) == s = <<>> \/ s[1][1] # kind

\* Two equal streams that begin with tokens of one kind and go on with a token
\* of another kind, if they go on, do so at the same place.
LEMMA CutAtKind ==
    ASSUME NEW T, NEW kind
    PROVE  \A a, b, x, y \in Seq(T) :
              /\ OfKind(a, kind) /\ OfKind(b, kind)
              /\ NotFrom(x, kind) /\ NotFrom(y, kind)
              /\ a \o x = b \o y
              => a = b /\ x = y
<1> TAKE a, b, x, y \in Seq(T)
<1> HAVE /\ OfKind(a, kind) /\ OfKind(b, kind)
         /\ NotFrom(x, kind) /\ NotFrom(y, kind)
         /\ a \o x = b \o y
<1>1. /\ Len(a) \in Nat /\ Len(b) \in Nat /\ Len(x) \in Nat /\ Len(y) \in Nat
      /\ Len(a \o x) = Len(a) + Len(x) /\ Len(b \o y) = Len(b) + Len(y)
  BY ConcatProperties, LenProperties
<1>2. /\ \A i \in 1..(Len(a) + Len(x)) :
            (a \o x)[i] = IF i <= Len(a) THEN a[i] ELSE x[i - Len(a)]
      /\ \A i \in 1..(Len(b) + Len(y)) :
            (b \o y)[i] = IF i <= Len(b) THEN b[i] ELSE y[i - Len(b)]
  BY ConcatProperties
<1>3. Len(x) > 0 => x[1][1] # kind
  BY EmptySeq DEF NotFrom
<1>4. Len(y) > 0 => y[1][1] # kind
  BY EmptySeq DEF NotFrom
<1>5. ~(Len(a) < Len(b))
  <2> SUFFICES ASSUME Len(a) < Len(b) PROVE FALSE
    OBVIOUS
  <2> DEFINE i == Len(a) + 1
  <2>1. Len(x) > 0 /\ i \in 1..(Len(a) + Len(x)) /\ i \in 1..(Len(b) + Len(y))
        /\ i \in 1..Len(b) /\ ~(i <= Len(a)) /\ i - Len(a) = 1
    BY <1>1
  <2> HIDE DEF i
  <2>2. (a \o x)[i] = x[1] /\ (b \o y)[i] = b[i]
    BY <1>2, <2>1
  <2>3. QED
    BY <1>3, <2>1, <2>2 DEF OfKind
<1>6. ~(Len(b) < Len(a))
  <2> SUFFICES ASSUME Len(b) < Len(a) PROVE FALSE
    OBVIOUS
  <2> DEFINE i == Len(b) + 1
  <2>1. Len(y) > 0 /\ i \in 1..(Len(a) + Len(x)) /\ i \in 1..(Len(b) + Len(y))
        /\ i \in 1..Len(a) /\ ~(i <= Len(b)) /\ i - Len(b) = 1
    BY <1>1
  <2> HIDE DEF i
  <2>2. (b \o y)[i] = y[1] /\ (a \o x)[i] = a[i]
    BY <1>2, <2>1
  <2>3. QED
    BY <1>4, <2>1, <2>2 DEF OfKind
<1>7. Len(a) = Len(b)
  BY <1>1, <1>5, <1>6
<1>8. QED
  <2>1. \A c, d, u, v \in Seq(T) :
            c \o u = d \o v /\ Len(c) = Len(d) => c = d /\ u = v
    BY SameCut, ZenonT(40)
  <2>2. a \o x = b \o y /\ Len(a) = Len(b)
    BY <1>7
  <2>3. QED
    BY <2>1, <2>2

=============================================================================
