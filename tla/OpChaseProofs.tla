--------------------------- MODULE OpChaseProofs ---------------------------
(***************************************************************************)
(* Proofs about OpChase, for any number of clients and of appends, and     *)
(* behaviours of any length.                                               *)
(***************************************************************************)
EXTENDS OpChase, FiniteSetTheorems, FunctionTheorems, WellFoundedInduction, TLAPS

-----------------------------------------------------------------------------
(* There are always enough numbers.                                        *)

\* The elements of a set can be listed in any number of places it fits in.
LEMMA Listed ==
    ASSUME NEW S, IsFiniteSet(S), S # {}, NEW k \in Nat, Cardinality(S) <= k
    PROVE  \E f \in [1..k -> S] : \A x \in S : \E i \in 1..k : f[i] = x
<1> DEFINE n == Cardinality(S)
<1>1. n \in Nat /\ n # 0 /\ ExistsBijection(1..n, S)
  BY FS_CardinalityType, FS_EmptySet
<1>2. PICK g \in [1..n -> S] : \A x \in S : \E i \in 1..n : g[i] = x
  BY <1>1 DEF ExistsBijection, Bijection, Surjection
<1> HIDE DEF n
<1> DEFINE f == [i \in 1..k |-> IF i \in 1..n THEN g[i] ELSE g[1]]
<1>3. 1 \in 1..n /\ 1..n \subseteq 1..k
  BY <1>1 DEF n
<1>4. f \in [1..k -> S]
  BY <1>2, <1>3
<1>5. \A x \in S : \E i \in 1..k : f[i] = x
  BY <1>2, <1>3
<1>6. QED
  BY <1>4, <1>5

\* As many sets as there are members of C, of at most k elements each.
LEMMA UnionBound ==
    ASSUME NEW C, IsFiniteSet(C), NEW k \in Nat, NEW X, NEW F \in [C -> SUBSET X],
           \A c \in C : IsFiniteSet(F[c]) /\ F[c] # {} /\ Cardinality(F[c]) <= k
    PROVE  LET U == UNION {F[c] : c \in C}
           IN  IsFiniteSet(U) /\ Cardinality(U) <= Cardinality(C) * k
<1> DEFINE U == UNION {F[c] : c \in C}
           Lists(c, f) == f \in [1..k -> F[c]] /\ \A x \in F[c] : \E i \in 1..k : f[i] = x
           list == [c \in C |-> CHOOSE f : Lists(c, f)]
           P == C \X (1..k)
           g == [p \in P |-> list[p[1]][p[2]]]
<1>1. \A c \in C : \E f : Lists(c, f)
  <2>1. TAKE c \in C
  <2>2. IsFiniteSet(F[c]) /\ F[c] # {} /\ Cardinality(F[c]) <= k
    OBVIOUS
  <2>3. \E f \in [1..k -> F[c]] : \A x \in F[c] : \E i \in 1..k : f[i] = x
    BY <2>2, Listed, SMTT(30)
  <2>4. QED
    BY <2>3
<1>2. \A c \in C : Lists(c, list[c])
  <2> HIDE DEF Lists
  <2>1. QED
    BY <1>1
<1>3. \A c \in C : list[c] \in [1..k -> F[c]] /\ \A x \in F[c] : \E i \in 1..k : list[c][i] = x
  BY <1>2
<1> HIDE DEF list, Lists
<1>4. g \in [P -> U]
  <2>1. \A p \in P : p[1] \in C /\ p[2] \in 1..k
    OBVIOUS
  <2>2. \A c \in C : \A i \in 1..k : list[c][i] \in F[c]
    BY <1>3
  <2>3. \A p \in P : list[p[1]][p[2]] \in U
    <3>1. TAKE p \in P
    <3>2. p[1] \in C /\ list[p[1]][p[2]] \in F[p[1]]
      BY <2>1, <2>2
    <3>3. QED
      BY <3>2
  <2> HIDE DEF P, U
  <2>4. QED
    BY <2>3
<1>5. \A x \in U : \E p \in P : g[p] = x
  <2>1. TAKE x \in U
  <2>2. PICK c \in C : x \in F[c]
    OBVIOUS
  <2>3. PICK i \in 1..k : list[c][i] = x
    BY <1>3, <2>2
  <2>4. <<c, i>> \in P /\ g[<<c, i>>] = x
    BY <2>3
  <2>5. QED
    BY <2>4
<1>6. g \in Surjection(P, U)
  BY <1>4, <1>5 DEF Surjection
<1>7. IsFiniteSet(1..k) /\ Cardinality(1..k) = k
  BY FS_Interval
<1>8. IsFiniteSet(P) /\ Cardinality(P) = Cardinality(C) * k
  BY <1>7, FS_Product
<1> HIDE DEF P, U, g
<1>9. IsFiniteSet(U) /\ Cardinality(U) <= Cardinality(P)
  BY <1>6, <1>8, FS_Surjection
<1>10. QED
  BY <1>8, <1>9 DEF U

LEMMA ClientsAreFinite == IsFiniteSet(Client) /\ Cardinality(Client) \in Nat
<1>1. IsFiniteSet(Passing \cup {Steady})
  BY BoundAssumption, FS_AddElement
<1>2. Client = Passing \cup {Steady}
  BY DEF Client
<1>3. QED
  BY <1>1, <1>2, FS_CardinalityType

\* What is in use are numbers, and not all of them.
LEMMA EnoughNumbers ==
    ASSUME ChaseInv
    PROVE  InUse \subseteq Id /\ InUse # Id
<1> DEFINE F == [c \in Client |-> {op[c]} \cup old[c]]
           U == UNION {F[c] : c \in Client}
           k == 2 + MaxAppends
<1>1. F \in [Client -> SUBSET Id]
  BY DEF ChaseInv
<1>2. k \in Nat /\ MaxAppends \in Nat
  BY BoundAssumption
<1>3. \A c \in Client : IsFiniteSet(F[c]) /\ F[c] # {} /\ Cardinality(F[c]) <= k
  <2>1. TAKE c \in Client
  <2>2. IsFiniteSet(old[c])
    BY IdAssumption, FS_Subset DEF ChaseInv
  <2>3. Cardinality(old[c]) \in Nat /\ Cardinality(old[c]) <= 1 + MaxAppends
    BY <2>2, FS_CardinalityType DEF ChaseInv, ClientInv
  <2>4. /\ IsFiniteSet(old[c] \cup {op[c]})
        /\ \/ Cardinality(old[c] \cup {op[c]}) = Cardinality(old[c])
           \/ Cardinality(old[c] \cup {op[c]}) = Cardinality(old[c]) + 1
    BY <2>2, FS_AddElement, ZenonT(40)
  <2>5. F[c] = old[c] \cup {op[c]}
    OBVIOUS
  <2> HIDE DEF F
  <2>6. Cardinality(F[c]) <= k
    BY <1>2, <2>3, <2>4, <2>5
  <2>7. QED
    BY <2>4, <2>5, <2>6
<1>4. IsFiniteSet(U) /\ Cardinality(U) <= Cardinality(Client) * k
  <2> HIDE DEF F, k
  <2>1. QED
    BY <1>1, <1>2, <1>3, ClientsAreFinite, UnionBound
<1>5. InUse \subseteq heads \cup U
  BY DEF InUse, Busy
<1>6. heads \subseteq Id /\ U \subseteq Id
  BY <1>1 DEF ChaseInv, HeadsInv
<1>7. IsFiniteSet(heads) /\ Cardinality(heads) \in Nat /\ Cardinality(U) \in Nat
  BY <1>4, <1>6, IdAssumption, FS_Subset, FS_CardinalityType
<1>8. Cardinality(heads) <= 1 + MaxAppends
  <2>1. Cardinality(heads) <= 1 + appends /\ appends \in 0..MaxAppends
    BY DEF ChaseInv, HeadsInv
  <2>2. QED
    BY <1>2, <1>7, <2>1
<1> HIDE DEF U
<1>9. /\ IsFiniteSet(heads \cup U)
      /\ Cardinality(heads \cup U) <= Cardinality(heads) + Cardinality(U)
  <2>1. /\ IsFiniteSet(heads \cup U)
        /\ Cardinality(heads \cup U) =
              Cardinality(heads) + Cardinality(U) - Cardinality(heads \cap U)
    BY <1>4, <1>7, FS_Union
  <2>2. Cardinality(heads \cap U) \in Nat
    BY <1>7, FS_Intersection, FS_CardinalityType
  <2>3. QED
    BY <1>7, <2>1, <2>2
<1>10. Cardinality(Client) * k \in Nat
  BY <1>2, ClientsAreFinite
<1>11. Cardinality(heads \cup U) <= (1 + MaxAppends) + Cardinality(Client) * k
  <2>1. Cardinality(heads \cup U) \in Nat
    BY <1>9, FS_CardinalityType
  <2> HIDE DEF k
  <2>2. QED
    BY <1>2, <1>4, <1>7, <1>8, <1>9, <1>10, <2>1
<1>12. heads \cup U # Id
  <2>1. Cardinality(Id) > (1 + MaxAppends) + Cardinality(Client) * k
    BY IdAssumption
  <2>2. Cardinality(Id) \in Nat /\ Cardinality(heads \cup U) \in Nat
    BY <1>9, IdAssumption, FS_CardinalityType
  <2> HIDE DEF k
  <2>3. Cardinality(heads \cup U) # Cardinality(Id)
    BY <1>2, <1>10, <1>11, <2>1, <2>2
  <2>4. QED
    BY <2>3
<1>13. QED
  BY <1>5, <1>6, <1>12

\* The number of a new operation is in no use.
LEMMA NewIsNew ==
    ASSUME ChaseInv
    PROVE  New \in Id /\ New \notin InUse
  BY EnoughNumbers DEF New

-----------------------------------------------------------------------------
(* Ancestry.                                                               *)

\* Every operation of a set is a maximal one or below one: jj-lib's
\* dag_walk::heads_ok leaves nothing out.
LEMMA BelowMaximal ==
    ASSUME AboveInv, InUse \subseteq Id, NEW S \in SUBSET Id, NEW o \in S
    PROVE  \E h \in Maximal(S) : h = o \/ o \in above[h]
<1> DEFINE X == {q \in S : q = o \/ o \in above[q]}
           T == {Id \ above[q] : q \in X}
<1>1. \A q \in S : q \in Id /\ above[q] \subseteq Id /\ q \notin above[q]
  BY DEF AboveInv
<1>2. \A q \in S : \A p \in S : p \in above[q] => above[p] \subseteq above[q]
  BY <1>1 DEF AboveInv
<1>3. IsWellFoundedOn(StrictSubsetOrdering(Id), SUBSET Id)
  BY IdAssumption, FS_StrictSubsetOrderingWellFounded, FS_FiniteSubsetsOfFinite
<1>4. T \subseteq SUBSET Id /\ T # {}
  OBVIOUS
<1>5. PICK t \in T : \A u \in T : ~(<<u, t>> \in StrictSubsetOrdering(Id))
  <2> HIDE DEF T
  <2>1. QED
    BY <1>3, <1>4, WFMin
<1>6. PICK q \in X : t = Id \ above[q]
  OBVIOUS
<1>7. q \in Maximal(S)
  <2> SUFFICES ASSUME NEW p \in S, q \in above[p]
               PROVE  FALSE
    BY DEF Maximal
  <2>1. above[q] \subseteq above[p] /\ q \notin above[q] /\ q \in Id
    BY <1>1, <1>2
  <2>2. p \in X
    BY <2>1
  <2>3. Id \ above[p] \subseteq t /\ Id \ above[p] # t
    BY <1>6, <2>1
  <2>4. <<Id \ above[p], t>> \in StrictSubsetOrdering(Id)
    BY <1>6, <2>3 DEF StrictSubsetOrdering
  <2>5. QED
    BY <1>5, <2>2, <2>4
<1>8. QED
  BY <1>6, <1>7

\* So a sole maximal one descends from all the others.
LEMMA SoleMaximal ==
    ASSUME AboveInv, InUse \subseteq Id, NEW S \in SUBSET Id, NEW h, Maximal(S) = {h}
    PROVE  h \in S /\ S \ {h} \subseteq above[h]
<1>1. h \in S
  BY DEF Maximal
<1>2. \A o \in S : h = o \/ o \in above[h]
  BY BelowMaximal
<1>3. QED
  BY <1>1, <1>2

\* A new operation: ancestry stays a strict order and nobody else's changes.
LEMMA CreateKeeps ==
    ASSUME AboveInv, InUse \subseteq Id, NEW n \in Id, n \notin InUse,
           NEW parents \in SUBSET InUse, Create(n, parents),
           InUse \subseteq InUse', n \in InUse'
    PROVE  /\ AboveInv'
           /\ parents \subseteq above'[n]
           /\ \A o \in Id : o # n => above'[o] = above[o]
<1> DEFINE N == parents \cup UNION {above[p] : p \in parents}
<1>1. above \in [Id -> SUBSET InUse] /\ above' = [above EXCEPT ![n] = N]
  BY DEF AboveInv, Create
<1>2. \A o \in Id : o # n => above'[o] = above[o]
  BY <1>1
<1>3. above'[n] = N /\ N \subseteq InUse /\ n \notin N
  BY <1>1
<1>4. above' \in [Id -> SUBSET (InUse')]
  BY <1>1, <1>3
<1>5. \A o \in Id : o \notin above'[o]
  BY <1>2, <1>3 DEF AboveInv
<1>6. \A p \in N : above'[p] \subseteq N
  <2> SUFFICES ASSUME NEW p \in N
               PROVE  above'[p] \subseteq N
    OBVIOUS
  <2>1. p \in Id /\ above'[p] = above[p]
    BY <1>2, <1>3
  <2>2. CASE p \in parents
    BY <2>1, <2>2
  <2>3. CASE \E q \in parents : p \in above[q]
    <3>1. PICK q \in parents : p \in above[q]
      BY <2>3
    <3>2. above[p] \subseteq above[q]
      BY <3>1 DEF AboveInv
    <3>3. QED
      BY <2>1, <3>2
  <2>4. QED
    BY <2>2, <2>3
<1>7. \A o \in Id : \A p \in above'[o] : above'[p] \subseteq above'[o]
  <2> SUFFICES ASSUME NEW o \in Id, NEW p \in above'[o]
               PROVE  above'[p] \subseteq above'[o]
    OBVIOUS
  <2>1. CASE o = n
    BY <1>3, <1>6, <2>1
  <2>2. CASE o # n
    <3>1. p \in above[o] /\ p \in InUse /\ p # n
      BY <1>1, <1>2, <2>2
    <3>2. above[p] \subseteq above[o]
      BY <3>1 DEF AboveInv
    <3>3. QED
      BY <1>2, <2>2, <3>1, <3>2
  <2>3. QED
    BY <2>1, <2>2
<1>8. QED
  BY <1>2, <1>3, <1>4, <1>5, <1>7 DEF AboveInv

\* Forgetting what is in no use: a strict order again, and what stays in use
\* keeps the ancestors that do.
LEMMA ForgetKeeps ==
    ASSUME AboveInv, InUse \subseteq Id, Forget
    PROVE  /\ AboveInv'
           /\ \A o \in Id : o \in InUse' => above'[o] = above[o] \cap InUse'
<1>1. above' = [o \in Id |-> IF o \in InUse' THEN above[o] \cap InUse' ELSE {}]
  BY DEF Forget
<1>2. \A o \in Id : /\ above'[o] \subseteq above[o] \cap InUse'
                    /\ o \in InUse' => above'[o] = above[o] \cap InUse'
                    /\ o \notin InUse' => above'[o] = {}
  BY <1>1
<1>3. above' \in [Id -> SUBSET (InUse')]
  BY <1>1
<1>4. \A o \in Id : o \notin above'[o]
  BY <1>2 DEF AboveInv
<1>5. \A o \in Id : \A p \in above'[o] : above'[p] \subseteq above'[o]
  <2> SUFFICES ASSUME NEW o \in Id, NEW p \in above'[o]
               PROVE  above'[p] \subseteq above'[o]
    OBVIOUS
  <2>1. o \in InUse' /\ p \in above[o] /\ p \in InUse'
    BY <1>2
  <2>2. p \in Id /\ above[p] \subseteq above[o]
    BY <2>1 DEF AboveInv
  <2>3. QED
    BY <1>2, <2>1, <2>2
<1>6. QED
  BY <1>2, <1>3, <1>4, <1>5 DEF AboveInv

-----------------------------------------------------------------------------
(* What a step leaves as it was.                                           *)

Resting == {"idle", "locked"}
Publishing == {"publish", "publishMerge"}
Kept(d) == pc'[d] = pc[d] /\ op'[d] = op[d] /\ old'[d] = old[d]

TypesInv ==
    /\ pc \in [Client -> Stage]
    /\ op \in [Client -> Id] /\ old \in [Client -> SUBSET Id]

\* A step of one client moves and loads that client only.
LEMMA StepOfOne ==
    ASSUME ChaseInv, NEW c \in Client, NEW p \in Stage, Goto(c, p),
           NEW o \in Id, NEW S \in SUBSET Id, Holds(c, o, S)
    PROVE  /\ TypesInv' /\ \A d \in Client : d # c => Kept(d)
           /\ pc'[c] = p /\ op'[c] = o /\ old'[c] = S
  BY DEF ChaseInv, Goto, Holds, TypesInv, Kept

\* What each client refers to it refers to still: nothing goes out of use.
LEMMA InUseGrows ==
    ASSUME heads \subseteq heads',
           \A d \in Client : pc[d] \notin Resting =>
                /\ pc'[d] \notin Resting
                /\ {op[d]} \cup old[d] \subseteq {op'[d]} \cup old'[d]
    PROVE  InUse \subseteq InUse'
<1> SUFFICES ASSUME NEW o \in InUse
             PROVE  o \in InUse'
  OBVIOUS
<1>1. CASE o \in heads
  BY <1>1 DEF InUse
<1>2. CASE \E d \in Busy : o \in {op[d]} \cup old[d]
  <2>1. PICK d \in Busy : o \in {op[d]} \cup old[d]
    BY <1>2
  <2>2. d \in Client /\ pc[d] \notin Resting
    BY <2>1 DEF Busy, Resting
  <2>3. o \in {op'[d]} \cup old'[d] /\ pc'[d] \notin Resting
    BY <2>1, <2>2
  <2>4. d \in Busy'
    BY <2>2, <2>3 DEF Busy, Resting
  <2>5. QED
    BY <2>3, <2>4 DEF InUse
<1>3. QED
  BY <1>1, <1>2 DEF InUse

LEMMA AboveKept ==
    ASSUME AboveInv, UNCHANGED above, InUse \subseteq InUse'
    PROVE  AboveInv'
  BY DEF AboveInv

\* A client that does nothing is as well off as before, if what it is about to
\* publish has kept its ancestors.
LEMMA ClientKept ==
    ASSUME ChaseInv, NEW d \in Client, Kept(d),
           pc[d] \in Publishing => old[d] \subseteq above'[op[d]]
    PROVE  ClientInv(d)'
<1>1. ClientInv(d)
  BY DEF ChaseInv
<1>2. QED
  BY <1>1 DEF ClientInv, Kept, Publishing

\* So it is if numbers that are in no use are forgotten.
LEMMA ForgetClient ==
    ASSUME ChaseInv, InUse \subseteq Id, Forget, NEW d \in Client, Kept(d)
    PROVE  ClientInv(d)'
<1>1. pc[d] \in Publishing => old[d] \subseteq above'[op[d]]
  <2> SUFFICES ASSUME pc[d] \in Publishing
               PROVE  old[d] \subseteq above'[op[d]]
    OBVIOUS
  <2>1. old[d] \subseteq above[op[d]] /\ op[d] \in Id
    BY DEF ChaseInv, ClientInv, Publishing
  <2>2. d \in Busy'
    BY DEF Busy, Kept, Publishing
  <2>3. op[d] \in InUse' /\ old[d] \subseteq InUse'
    BY <2>2 DEF InUse, Kept
  <2>4. above'[op[d]] = above[op[d]] \cap InUse'
    BY <2>1, <2>3, ForgetKeeps DEF ChaseInv
  <2>5. QED
    BY <2>1, <2>3, <2>4
<1>2. QED
  BY <1>1, ClientKept

\* And if a new operation is made.
LEMMA CreateClient ==
    ASSUME ChaseInv, \A o \in Id : o # New => above'[o] = above[o],
           NEW d \in Client, Kept(d)
    PROVE  ClientInv(d)'
<1>1. pc[d] \in Publishing => old[d] \subseteq above'[op[d]]
  <2> SUFFICES ASSUME pc[d] \in Publishing
               PROVE  old[d] \subseteq above'[op[d]]
    OBVIOUS
  <2>1. old[d] \subseteq above[op[d]] /\ op[d] \in Id
    BY DEF ChaseInv, ClientInv, Publishing
  <2>2. d \in Busy
    BY DEF Busy, Publishing
  <2>3. op[d] \in InUse
    BY <2>2 DEF InUse
  <2>4. op[d] # New
    BY <2>3, NewIsNew
  <2>5. QED
    BY <2>1, <2>4
<1>2. QED
  BY <1>1, ClientKept

\* A client that supersedes nothing has nothing to justify.
LEMMA FreeClient ==
    ASSUME NEW c \in Client, old'[c] = {},
           pc'[c] \in {"idle", "locked", "loaded", "acked"}
    PROVE  ClientInv(c)'
<1>1. Cardinality({}) <= 1 + MaxAppends
  BY FS_EmptySet, BoundAssumption
<1>2. QED
  BY <1>1 DEF ClientInv

LEMMA HeadsKept ==
    ASSUME HeadsInv, UNCHANGED <<heads, appends>>
    PROVE  HeadsInv'
  BY DEF HeadsInv

-----------------------------------------------------------------------------
(* The inductive invariant, one lemma per step.                            *)

LEMMA LoadSoleHeadStep ==
    ASSUME ChaseInv, NEW c \in Client, LoadSoleHead(c)
    PROVE  ChaseInv'
<1>1. InUse \subseteq Id
  BY EnoughNumbers
<1>2. PICK h \in heads : Holds(c, h, {})
  BY DEF LoadSoleHead
<1>3. h \in Id
  BY DEF ChaseInv, HeadsInv
<1>4. Goto(c, "loaded") /\ Forget /\ UNCHANGED <<heads, appends>>
  BY DEF LoadSoleHead
<1>5. /\ TypesInv' /\ \A d \in Client : d # c => Kept(d)
      /\ pc'[c] = "loaded" /\ old'[c] = {}
  BY <1>2, <1>3, <1>4, StepOfOne DEF Stage
<1>6. ClientInv(c)'
  BY <1>5, FreeClient
<1>7. \A d \in Client : ClientInv(d)'
  BY <1>1, <1>4, <1>5, <1>6, ForgetClient
<1>8. HeadsInv' /\ AboveInv'
  BY <1>1, <1>4, HeadsKept, ForgetKeeps DEF ChaseInv
<1>9. QED
  BY <1>5, <1>7, <1>8 DEF ChaseInv, TypesInv

\* TakeLock and Continue: the client only gets on.
LEMMA MoveStep ==
    ASSUME ChaseInv, NEW c \in Client, NEW p \in {"locked", "loaded"}, Goto(c, p),
           pc[c] = IF p = "locked" THEN "idle" ELSE "acked",
           UNCHANGED <<heads, above, op, old, appends>>
    PROVE  ChaseInv'
<1>1. TypesInv' /\ pc'[c] = p /\ old'[c] = {}
  BY DEF ChaseInv, ClientInv, Goto, Stage, TypesInv
<1>2. \A d \in Client : d # c => Kept(d)
  BY DEF ChaseInv, Goto, Kept
<1>3. \A d \in Client : d # c => ClientInv(d)'
  <2> SUFFICES ASSUME NEW d \in Client, d # c
               PROVE  ClientInv(d)'
    OBVIOUS
  <2>1. Kept(d)
    BY <1>2
  <2>2. pc[d] \in Publishing => old[d] \subseteq above'[op[d]]
    BY DEF ChaseInv, ClientInv, Publishing
  <2>3. QED
    BY <2>1, <2>2, ClientKept
<1>4. ClientInv(c)'
  BY <1>1, FreeClient
<1>5. InUse \subseteq InUse'
  <2>1. \A d \in Client : pc[d] \notin Resting => pc'[d] \notin Resting
    BY DEF ChaseInv, Goto, Resting
  <2>2. QED
    BY <2>1, InUseGrows
<1>6. HeadsInv' /\ AboveInv'
  BY <1>5, HeadsKept, AboveKept DEF ChaseInv
<1>7. QED
  BY <1>1, <1>3, <1>4, <1>6 DEF ChaseInv, TypesInv

LEMMA LoadHeadsStep ==
    ASSUME ChaseInv, NEW c \in Client, LoadHeads(c)
    PROVE  ChaseInv'
<1> DEFINE h == CHOOSE g \in heads : TRUE
<1>1. InUse \subseteq Id
  BY EnoughNumbers
<1>2. h \in heads /\ heads \subseteq Id
  BY DEF ChaseInv, HeadsInv
<1>3. Goto(c, "resolve") /\ Forget /\ UNCHANGED <<heads, appends>> /\ Cardinality(heads) > 1
      /\ Holds(c, h, heads)
  BY DEF LoadHeads
<1> HIDE DEF h
<1>4. /\ TypesInv' /\ \A d \in Client : d # c => Kept(d)
      /\ pc'[c] = "resolve" /\ op'[c] = h /\ old'[c] = heads
  BY <1>2, <1>3, StepOfOne DEF Stage
<1>5. Cardinality(heads) <= 1 + MaxAppends
  <2>1. IsFiniteSet(heads)
    BY <1>2, IdAssumption, FS_Subset
  <2>2. Cardinality(heads) \in Nat
    BY <2>1, FS_CardinalityType
  <2>3. QED
    BY <2>2, BoundAssumption DEF ChaseInv, HeadsInv
<1>6. ClientInv(c)'
  BY <1>2, <1>3, <1>4, <1>5 DEF ClientInv
<1>7. \A d \in Client : ClientInv(d)'
  BY <1>1, <1>3, <1>4, <1>6, ForgetClient
<1>8. HeadsInv' /\ AboveInv'
  BY <1>1, <1>3, HeadsKept, ForgetKeeps DEF ChaseInv
<1>9. QED
  BY <1>4, <1>7, <1>8 DEF ChaseInv, TypesInv

\* The head that descends from the others is published in their place: it does
\* descend from them, and there are others.
LEMMA DropAncestorsStep ==
    ASSUME ChaseInv, NEW c \in Client, DropAncestors(c)
    PROVE  ChaseInv'
<1>1. InUse \subseteq Id /\ AboveInv /\ old[c] \in SUBSET Id
  BY EnoughNumbers DEF ChaseInv
<1>2. PICK h \in old[c] : Maximal(old[c]) = {h} /\ Holds(c, h, old[c] \ {h})
  BY DEF DropAncestors
<1>3. /\ Goto(c, "publishMerge") /\ UNCHANGED <<heads, above, appends>>
      /\ pc[c] = "resolve"
  BY DEF DropAncestors
<1>4. /\ TypesInv' /\ \A d \in Client : d # c => Kept(d)
      /\ pc'[c] = "publishMerge" /\ op'[c] = h /\ old'[c] = old[c] \ {h}
  BY <1>1, <1>2, <1>3, StepOfOne DEF Stage
<1>5. old[c] \ {h} \subseteq above[h]
  BY <1>1, <1>2, SoleMaximal
<1>6. op[c] \in old[c] /\ Cardinality(old[c]) > 1 /\ Cardinality(old[c]) <= 1 + MaxAppends
  BY <1>3 DEF ChaseInv, ClientInv
<1>7. IsFiniteSet(old[c]) /\ Cardinality(old[c]) \in Nat
  BY <1>1, IdAssumption, FS_Subset, FS_CardinalityType
<1>8. /\ IsFiniteSet(old[c] \ {h})
      /\ Cardinality(old[c] \ {h}) = Cardinality(old[c]) - 1
  BY <1>2, <1>7, FS_RemoveElement
<1>9. old[c] \ {h} # {} /\ Cardinality(old[c] \ {h}) <= 1 + MaxAppends
  <2>1. Cardinality(old[c] \ {h}) # 0
    BY <1>6, <1>7, <1>8
  <2>2. old[c] \ {h} # {}
    BY <2>1, FS_EmptySet
  <2>3. QED
    BY <1>6, <1>7, <1>8, <2>2, BoundAssumption
<1>10. ClientInv(c)'
  BY <1>3, <1>4, <1>5, <1>9 DEF ClientInv
<1>11. \A d \in Client : d # c => ClientInv(d)'
  <2> SUFFICES ASSUME NEW d \in Client, d # c
               PROVE  ClientInv(d)'
    OBVIOUS
  <2>1. Kept(d)
    BY <1>4
  <2>2. pc[d] \in Publishing => old[d] \subseteq above'[op[d]]
    BY <1>3 DEF ChaseInv, ClientInv, Publishing
  <2>3. QED
    BY <2>1, <2>2, ClientKept
<1>12. InUse \subseteq InUse'
  <2>1. ASSUME NEW d \in Client, pc[d] \notin Resting
        PROVE  pc'[d] \notin Resting /\ {op[d]} \cup old[d] \subseteq {op'[d]} \cup old'[d]
    BY <1>2, <1>4, <1>6, <2>1 DEF Kept, Resting
  <2>2. QED
    BY <1>3, <2>1, InUseGrows
<1>13. HeadsInv' /\ AboveInv'
  BY <1>3, <1>12, HeadsKept, AboveKept DEF ChaseInv
<1>14. QED
  BY <1>4, <1>10, <1>11, <1>13 DEF ChaseInv, TypesInv

\* Commit and MergeHeads: the new operation descends from what it replaces.
LEMMA NewOperationStep ==
    ASSUME ChaseInv, NEW c \in Client, NEW parents \in SUBSET Id, parents # {},
           parents \subseteq InUse, Cardinality(parents) <= 1 + MaxAppends,
           Create(New, parents), Holds(c, New, parents),
           NEW p \in Publishing, Goto(c, p), pc[c] \notin Resting,
           {op[c]} \cup old[c] \subseteq parents, UNCHANGED <<heads, appends>>
    PROVE  ChaseInv'
<1>1. InUse \subseteq Id /\ New \in Id /\ New \notin InUse
  BY EnoughNumbers, NewIsNew
<1>2. p \in Stage
  BY DEF Stage, Publishing
<1>3. /\ TypesInv' /\ \A d \in Client : d # c => Kept(d)
      /\ pc'[c] = p /\ op'[c] = New /\ old'[c] = parents
  BY <1>1, <1>2, StepOfOne
<1>4. InUse \subseteq InUse'
  <2>1. ASSUME NEW d \in Client, pc[d] \notin Resting
        PROVE  pc'[d] \notin Resting /\ {op[d]} \cup old[d] \subseteq {op'[d]} \cup old'[d]
    BY <1>3, <2>1 DEF Kept, Resting, Publishing
  <2>2. QED
    BY <2>1, InUseGrows
<1>5. New \in InUse'
  <2>1. c \in Busy'
    BY <1>3 DEF Busy, Publishing
  <2>2. QED
    BY <1>3, <2>1 DEF InUse
<1>6. /\ AboveInv' /\ parents \subseteq above'[New]
      /\ \A o \in Id : o # New => above'[o] = above[o]
  BY <1>1, <1>4, <1>5, CreateKeeps DEF ChaseInv
<1>7. ClientInv(c)'
  BY <1>3, <1>6 DEF ClientInv, Publishing
<1>8. \A d \in Client : ClientInv(d)'
  BY <1>3, <1>6, <1>7, CreateClient
<1>9. HeadsInv'
  BY HeadsKept DEF ChaseInv
<1>10. QED
  BY <1>3, <1>6, <1>8, <1>9 DEF ChaseInv, TypesInv

LEMMA MergeHeadsStep ==
    ASSUME ChaseInv, NEW c \in Client, MergeHeads(c)
    PROVE  ChaseInv'
<1>1. /\ Create(New, old[c]) /\ Holds(c, New, old[c]) /\ Goto(c, "publishMerge")
      /\ pc[c] = "resolve" /\ UNCHANGED <<heads, appends>>
  BY DEF MergeHeads
<1>2. /\ op[c] \in old[c] /\ Cardinality(old[c]) <= 1 + MaxAppends
      /\ old[c] \in SUBSET Id
  BY <1>1 DEF ChaseInv, ClientInv
<1>3. old[c] \subseteq InUse /\ pc[c] \notin Resting
  BY <1>1 DEF InUse, Busy, Resting
<1>4. "publishMerge" \in Publishing
  BY DEF Publishing
<1>5. QED
  BY <1>1, <1>2, <1>3, <1>4, NewOperationStep

LEMMA CommitStep ==
    ASSUME ChaseInv, NEW c \in Client, Commit(c)
    PROVE  ChaseInv'
<1>1. /\ Create(New, {op[c]}) /\ Holds(c, New, {op[c]}) /\ Goto(c, "publish")
      /\ pc[c] = "loaded" /\ UNCHANGED <<heads, appends>>
  BY DEF Commit
<1>2. old[c] = {} /\ {op[c]} \in SUBSET Id
  BY <1>1 DEF ChaseInv, ClientInv
<1>3. Cardinality({op[c]}) <= 1 + MaxAppends
  <2>1. Cardinality({op[c]}) = 1
    BY FS_Singleton
  <2>2. QED
    BY <2>1, BoundAssumption
<1>4. {op[c]} \subseteq InUse /\ pc[c] \notin Resting
  BY <1>1 DEF InUse, Busy, Resting
<1>5. "publish" \in Publishing
  BY DEF Publishing
<1>6. QED
  BY <1>1, <1>2, <1>3, <1>4, <1>5, NewOperationStep

\* update_op_heads: the heads do not become more, nor none.
LEMMA UpdatedInv ==
    ASSUME HeadsInv, NEW S, S # {}, NEW o \in Id
    PROVE  LET updated == UpdatedHeads(S, o)
           IN  /\ updated # {} /\ updated \subseteq Id
               /\ Cardinality(updated) <= 1 + appends
<1>1. CASE S \cap heads = {}
  BY <1>1 DEF UpdatedHeads, HeadsInv
<1>2. CASE S \cap heads # {}
  <2> DEFINE rest == heads \ S
  <2>1. UpdatedHeads(S, o) = rest \cup {o}
    BY <1>2 DEF UpdatedHeads
  <2>2. heads \subseteq Id /\ Cardinality(heads) <= 1 + appends /\ appends \in Nat
    BY BoundAssumption DEF HeadsInv
  <2>3. IsFiniteSet(heads) /\ Cardinality(heads) \in Nat
    BY <2>2, IdAssumption, FS_Subset, FS_CardinalityType
  <2>4. /\ IsFiniteSet(rest)
        /\ Cardinality(rest) = Cardinality(heads) - Cardinality(heads \cap S)
    BY <2>3, FS_Difference
  <2>5. IsFiniteSet(heads \cap S) /\ heads \cap S # {}
    BY <1>2, <2>3, FS_Intersection
  <2>6. Cardinality(heads \cap S) \in Nat /\ Cardinality(heads \cap S) # 0
    BY <2>5, FS_CardinalityType, FS_EmptySet
  <2>7. rest \subseteq Id
    BY <2>2
  <2> HIDE DEF rest
  <2>8. /\ IsFiniteSet(rest \cup {o})
        /\ \/ Cardinality(rest \cup {o}) = Cardinality(rest)
           \/ Cardinality(rest \cup {o}) = Cardinality(rest) + 1
    BY <2>4, FS_AddElement, ZenonT(40)
  <2>9. Cardinality(rest \cup {o}) <= 1 + appends
    BY <2>2, <2>3, <2>4, <2>6, <2>8
  <2>10. QED
    BY <2>1, <2>7, <2>9
<1>3. QED
  BY <1>1, <1>2

LEMMA UpdateOpHeadsStep ==
    ASSUME ChaseInv, NEW c \in Client, UpdateOpHeads(c)
    PROVE  ChaseInv'
<1> DEFINE p == IF pc[c] = "publish" THEN "acked" ELSE "loaded"
<1>1. InUse \subseteq Id /\ op[c] \in Id /\ {} \in SUBSET Id /\ p \in Stage
  BY EnoughNumbers DEF ChaseInv, Stage
<1>2. /\ heads' = UpdatedHeads(old[c], op[c]) /\ Holds(c, op[c], {}) /\ Goto(c, p)
      /\ UNCHANGED appends /\ Forget /\ pc[c] \in Publishing
  BY DEF UpdateOpHeads, Publishing
<1>3. p \in {"acked", "loaded"}
  OBVIOUS
<1> HIDE DEF p
<1>4. /\ TypesInv' /\ \A d \in Client : d # c => Kept(d)
      /\ pc'[c] = p /\ old'[c] = {}
  BY <1>1, <1>2, StepOfOne
<1>5. ClientInv(c)'
  BY <1>3, <1>4, FreeClient
<1>6. \A d \in Client : ClientInv(d)'
  BY <1>1, <1>2, <1>4, <1>5, ForgetClient
<1>7. HeadsInv'
  <2>1. HeadsInv /\ old[c] # {}
    BY <1>2 DEF ChaseInv, ClientInv, Publishing
  <2>2. heads' # {} /\ heads' \subseteq Id /\ Cardinality(heads') <= 1 + appends
    BY <1>1, <1>2, <2>1, UpdatedInv
  <2>3. QED
    BY <1>2, <2>1, <2>2 DEF HeadsInv
<1>8. AboveInv'
  BY <1>1, <1>2, ForgetKeeps DEF ChaseInv
<1>9. QED
  BY <1>4, <1>6, <1>7, <1>8 DEF ChaseInv, TypesInv

LEMMA EndStep ==
    ASSUME ChaseInv, NEW c \in Client, End(c)
    PROVE  ChaseInv'
<1>1. InUse \subseteq Id /\ 1 \in Id /\ {} \in SUBSET Id /\ "idle" \in Stage
  BY EnoughNumbers, IdAssumption DEF Stage
<1>2. Goto(c, "idle") /\ Holds(c, 1, {}) /\ UNCHANGED <<heads, appends>> /\ Forget
  BY DEF End, LetsGo
<1>3. /\ TypesInv' /\ \A d \in Client : d # c => Kept(d)
      /\ pc'[c] = "idle" /\ old'[c] = {}
  BY <1>1, <1>2, StepOfOne
<1>4. ClientInv(c)'
  BY <1>3, FreeClient
<1>5. \A d \in Client : ClientInv(d)'
  BY <1>1, <1>2, <1>3, <1>4, ForgetClient
<1>6. HeadsInv' /\ AboveInv'
  BY <1>1, <1>2, HeadsKept, ForgetKeeps DEF ChaseInv
<1>7. QED
  BY <1>3, <1>5, <1>6 DEF ChaseInv, TypesInv

LEMMA AppendHeadStep ==
    ASSUME ChaseInv, AppendHead
    PROVE  ChaseInv'
<1>1. InUse \subseteq Id /\ New \in Id /\ New \notin InUse
  BY EnoughNumbers, NewIsNew
<1>2. PICK q \in InUse : Create(New, {q})
  BY DEF AppendHead
<1>3. /\ appends < MaxAppends /\ appends' = appends + 1
      /\ heads' = heads \cup {New} /\ UNCHANGED <<pc, op, old>>
  BY DEF AppendHead, UpdatedHeads
<1>4. InUse \subseteq InUse'
  BY <1>3, InUseGrows
<1>5. New \in InUse'
  BY <1>3 DEF InUse
<1>6. /\ AboveInv'
      /\ \A o \in Id : o # New => above'[o] = above[o]
  BY <1>1, <1>2, <1>4, <1>5, CreateKeeps DEF ChaseInv
<1>7. \A d \in Client : ClientInv(d)'
  <2>1. \A d \in Client : Kept(d)
    BY <1>3 DEF Kept
  <2>2. QED
    BY <1>6, <2>1, CreateClient
<1>8. HeadsInv'
  <2>1. /\ heads \subseteq Id /\ appends \in 0..MaxAppends
        /\ Cardinality(heads) <= 1 + appends /\ MaxAppends \in Nat
    BY BoundAssumption DEF ChaseInv, HeadsInv
  <2>2. IsFiniteSet(heads) /\ Cardinality(heads) \in Nat
    BY <2>1, IdAssumption, FS_Subset, FS_CardinalityType
  <2>3. \/ Cardinality(heads \cup {New}) = Cardinality(heads)
        \/ Cardinality(heads \cup {New}) = Cardinality(heads) + 1
    BY <2>2, FS_AddElement, ZenonT(40)
  <2>4. Cardinality(heads') <= 1 + appends' /\ appends' \in 0..MaxAppends
    BY <1>3, <2>1, <2>2, <2>3
  <2>5. QED
    BY <1>1, <1>3, <2>1, <2>4 DEF HeadsInv
<1>9. TypesInv'
  BY <1>3 DEF ChaseInv, TypesInv
<1>10. QED
  BY <1>6, <1>7, <1>8, <1>9 DEF ChaseInv, TypesInv

\* Every step keeps the invariant.
LEMMA ChaseStep == ChaseInv /\ [Next]_vars => ChaseInv'
<1> SUFFICES ASSUME ChaseInv, [Next]_vars
             PROVE  ChaseInv'
  OBVIOUS
<1>1. ASSUME NEW c \in Client, Step(c)
      PROVE  ChaseInv'
  <2>1. CASE LoadSoleHead(c)
    BY <2>1, LoadSoleHeadStep
  <2>2. CASE TakeLock(c)
    BY <2>2, MoveStep DEF TakeLock
  <2>3. CASE LoadHeads(c)
    BY <2>3, LoadHeadsStep
  <2>4. CASE DropAncestors(c)
    BY <2>4, DropAncestorsStep
  <2>5. CASE MergeHeads(c)
    BY <2>5, MergeHeadsStep
  <2>6. CASE Commit(c)
    BY <2>6, CommitStep
  <2>7. CASE UpdateOpHeads(c)
    BY <2>7, UpdateOpHeadsStep
  <2>8. CASE Continue(c)
    BY <2>8, MoveStep DEF Continue
  <2>9. CASE Finish(c)
    BY <2>9, EndStep DEF Finish
  <2>10. QED
    BY <1>1, <2>1, <2>2, <2>3, <2>4, <2>5, <2>6, <2>7, <2>8, <2>9 DEF Step
<1>2. ASSUME NEW c \in Passing, Abort(c)
      PROVE  ChaseInv'
  BY <1>2, EndStep DEF Abort, Client
<1>3. CASE AppendHead
  BY <1>3, AppendHeadStep
<1>4. CASE UNCHANGED vars
  <2>1. /\ UNCHANGED heads /\ UNCHANGED above /\ UNCHANGED pc
        /\ UNCHANGED op /\ UNCHANGED old /\ UNCHANGED appends
    BY <1>4 DEF vars
  <2>2. InUse' = InUse
    BY <2>1 DEF InUse, Busy
  <2>3. QED
    BY <2>1, <2>2 DEF ChaseInv, HeadsInv, AboveInv, ClientInv
<1>5. QED
  BY <1>1, <1>2, <1>3, <1>4 DEF Next

LEMMA ChaseInit == Init => ChaseInv
<1> SUFFICES ASSUME Init
             PROVE  ChaseInv
  OBVIOUS
<1>1. heads = {1} /\ appends = 0 /\ 1 \in Id /\ MaxAppends \in Nat
  BY IdAssumption, BoundAssumption DEF Init
<1>2. Cardinality({1}) = 1 /\ Cardinality({}) = 0
  BY FS_Singleton, FS_EmptySet
<1>3. HeadsInv
  BY <1>1, <1>2 DEF HeadsInv
<1>4. AboveInv
  BY DEF AboveInv, Init
<1>5. TypesInv
  BY <1>1 DEF TypesInv, Init, Stage
<1>6. \A c \in Client : ClientInv(c)
  BY <1>1, <1>2 DEF ClientInv, Init
<1>7. QED
  BY <1>3, <1>4, <1>5, <1>6 DEF ChaseInv, TypesInv

-----------------------------------------------------------------------------
(* Theorems.                                                               *)

\* What a client is about to publish descends from all that it will replace,
\* and there is always a head, however long clients chase each other.
THEOREM ChaseInvariantHolds == Spec => []ChaseInv
  BY ChaseInit, ChaseStep, PTL DEF Spec

\* There are always numbers left: a client that may commit or merge is never
\* kept from it for want of a number.
THEOREM NumbersSuffice == Spec => [](InUse \subseteq Id /\ InUse # Id)
<1>1. ChaseInv => InUse \subseteq Id /\ InUse # Id
  BY EnoughNumbers
<1>2. QED
  BY <1>1, ChaseInvariantHolds, PTL

\* update_op_heads takes a head off the list only for one that descends from it.
THEOREM HeadsGiveWayToDescendants == Spec => HeadsGiveWay
<1> DEFINE Gives == \A o \in heads \ heads' : \E n \in heads' : o \in above[n]
<1>1. ChaseInv /\ [Next]_vars => [Gives]_vars
  <2> SUFFICES ASSUME ChaseInv, Next
               PROVE  Gives
    OBVIOUS
  <2>1. ASSUME NEW c \in Client, UpdateOpHeads(c)
        PROVE  Gives
    <3> SUFFICES ASSUME NEW o \in heads, o \notin heads'
                 PROVE  \E n \in heads' : o \in above[n]
      OBVIOUS
    <3>1. heads' = UpdatedHeads(old[c], op[c]) /\ pc[c] \in Publishing
      BY <2>1 DEF UpdateOpHeads, Publishing
    <3>2. o \in old[c] /\ op[c] \in heads'
      BY <3>1 DEF UpdatedHeads
    <3>3. old[c] \subseteq above[op[c]]
      BY <3>1 DEF ChaseInv, ClientInv, Publishing
    <3>4. QED
      BY <3>2, <3>3
  <2>2. ASSUME heads \subseteq heads'
        PROVE  Gives
    BY <2>2
  <2>3. \/ \E c \in Client : UpdateOpHeads(c)
        \/ heads \subseteq heads'
    BY DEF Next, Step, LoadSoleHead, TakeLock, LoadHeads, DropAncestors, MergeHeads,
           Commit, Continue, Finish, Abort, End, AppendHead, UpdatedHeads
  <2>4. QED
    BY <2>1, <2>2, <2>3
<1>2. QED
  BY <1>1, ChaseInvariantHolds, PTL DEF Spec, HeadsGiveWay

=============================================================================
