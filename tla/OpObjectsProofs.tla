-------------------------- MODULE OpObjectsProofs --------------------------
(***************************************************************************)
(* Proofs about OpObjects, for any clients and any views and operations    *)
(* that ObjectsAssumption allows.                                          *)
(***************************************************************************)
EXTENDS OpObjects, DigestsProofs

-----------------------------------------------------------------------------
(* Targets.                                                                *)

\* A target on the wire gets there again from what is read.
LEMMA TargetKept ==
    ASSUME NEW t \in Target
    PROVE  TargetToProto(TargetFromProto(TargetToProto(t))) = TargetToProto(t)
<1> DEFINE R == Present(t.removes)
           A == Present(t.adds)
           n == IF Len(A) > Len(R) THEN Len(A) ELSE Len(R) + 1
<1>1. R \in Seq(Nat \ {0}) /\ A \in Seq(Nat \ {0})
  BY WithoutDrops DEF Present, Absent, Target
<1>2. TargetFromProto(TargetToProto(t)) = [removes |-> Padded(R, n - 1), adds |-> Padded(A, n)]
  BY DEF TargetFromProto, TargetToProto
<1> HIDE DEF R, A
<1>3. n - 1 - Len(R) \in Nat /\ n - Len(A) \in Nat
  BY <1>1
<1> HIDE DEF n
<1>4. Present(Padded(R, n - 1)) = R /\ Present(Padded(A, n)) = A
  BY <1>1, <1>3, WithoutPadding DEF Present, Padded, Absent
<1>5. TargetToProto([removes |-> Padded(R, n - 1), adds |-> Padded(A, n)]) =
          [removes |-> R, adds |-> A]
  BY <1>4 DEF TargetToProto
<1>6. QED
  BY <1>2, <1>5 DEF TargetToProto, R, A

-----------------------------------------------------------------------------
(* Keys of remote bookmarks.                                               *)

\* A key is the bookmark, an '@' and the remote.
LEMMA KeyParts ==
    ASSUME NEW r \in Name, NEW b \in Name
    PROVE  /\ Len(b) \in Nat /\ Len(r) \in Nat
           /\ RemoteKey(r, b) \in Name
           /\ Len(RemoteKey(r, b)) = Len(b) + 1 + Len(r)
           /\ \A i \in 1..Len(b) : RemoteKey(r, b)[i] = b[i]
           /\ RemoteKey(r, b)[Len(b) + 1] = "@"
           /\ \A i \in 1..Len(r) : RemoteKey(r, b)[Len(b) + 1 + i] = r[i]
<1> DEFINE sep == <<"@">>
           bs == b \o sep
<1>1. r \in Seq(Char) /\ b \in Seq(Char)
  BY DEF Name
<1>2. sep \in Seq(Char) /\ Len(sep) = 1 /\ sep[1] = "@"
  BY CharAssumption
<1> HIDE DEF sep
<1>3. /\ bs \in Seq(Char) /\ Len(bs) = Len(b) + 1
      /\ \A i \in 1..(Len(b) + 1) : bs[i] = IF i <= Len(b) THEN b[i] ELSE sep[i - Len(b)]
  <2>1. /\ b \o sep \in Seq(Char) /\ Len(b \o sep) = Len(b) + Len(sep)
        /\ \A i \in 1..(Len(b) + Len(sep)) :
              (b \o sep)[i] = IF i <= Len(b) THEN b[i] ELSE sep[i - Len(b)]
    BY <1>1, <1>2, ConcatProperties, ZenonT(40)
  <2>2. QED
    BY <1>2, <2>1
<1>4. /\ \A i \in 1..Len(b) : bs[i] = b[i]
      /\ bs[Len(b) + 1] = "@"
  BY <1>1, <1>2, <1>3
<1> HIDE DEF bs
<1>5. RemoteKey(r, b) = bs \o r
  BY DEF RemoteKey, bs, sep
<1>6. /\ bs \o r \in Seq(Char) /\ Len(bs \o r) = Len(b) + 1 + Len(r)
      /\ \A i \in 1..(Len(b) + 1 + Len(r)) :
            (bs \o r)[i] = IF i <= Len(b) + 1 THEN bs[i] ELSE r[i - (Len(b) + 1)]
  <2>1. bs \in Seq(Char)
    BY <1>3
  <2>2. /\ bs \o r \in Seq(Char) /\ Len(bs \o r) = Len(bs) + Len(r)
        /\ \A i \in 1..(Len(bs) + Len(r)) :
              (bs \o r)[i] = IF i <= Len(bs) THEN bs[i] ELSE r[i - Len(bs)]
    BY <1>1, <2>1, ConcatProperties, ZenonT(40)
  <2>3. QED
    BY <1>3, <2>2
<1>7. Len(b) \in Nat /\ Len(r) \in Nat
  BY <1>1
<1>8. \A i \in 1..Len(r) : RemoteKey(r, b)[Len(b) + 1 + i] = r[i]
  <2>1. TAKE i \in 1..Len(r)
  <2>2. Len(b) + 1 + i \in 1..(Len(b) + 1 + Len(r)) /\ ~(Len(b) + 1 + i <= Len(b) + 1)
        /\ (Len(b) + 1 + i) - (Len(b) + 1) = i
    BY <1>7
  <2>3. QED
    BY <1>5, <1>6, <2>2
<1>9. \A i \in 1..(Len(b) + 1) : RemoteKey(r, b)[i] = bs[i]
  BY <1>5, <1>6, <1>7
<1>10. QED
  BY <1>4, <1>5, <1>6, <1>7, <1>8, <1>9 DEF Name

\* A key is split at its last '@', and put together again it is the same key.
LEMMA KeySplit ==
    ASSUME NEW r \in Name, NEW b \in Name
    PROVE  \E at \in 1..Len(RemoteKey(r, b)) :
              /\ SplitKey(RemoteKey(r, b)) = SplitAt(RemoteKey(r, b), at)
              /\ RemoteKey(r, b)[at] = "@"
              /\ \A j \in (at + 1)..Len(RemoteKey(r, b)) : RemoteKey(r, b)[j] # "@"
<1> DEFINE key == RemoteKey(r, b)
           AtLast(i) == key[i] = "@" /\ \A j \in (i + 1)..Len(key) : key[j] # "@"
           S == {i \in 1..Len(key) : key[i] = "@"}
<1>1. key \in Seq(Char) /\ Len(key) = Len(b) + 1 + Len(r) /\ key[Len(b) + 1] = "@"
  BY KeyParts DEF Name
<1>2. Len(b) \in Nat /\ Len(r) \in Nat
  BY DEF Name
<1> HIDE DEF key
<1>3. Len(key) \in Nat /\ DOMAIN key = 1..Len(key)
  BY <1>1
<1>4. PICK m \in S : \A n \in S : n <= m
  <2>1. S \subseteq 0..Len(key)
    BY <1>3
  <2>2. Len(b) + 1 \in S
    BY <1>1, <1>2
  <2> HIDE DEF S
  <2>3. QED
    BY <1>3, <2>1, <2>2, GreatestNumber
<1>5. m \in DOMAIN key /\ AtLast(m)
  <2>1. m \in 1..Len(key) /\ key[m] = "@"
    OBVIOUS
  <2>2. ASSUME NEW j \in (m + 1)..Len(key), key[j] = "@"
        PROVE  FALSE
    <3>1. j \in S /\ j > m
      BY <1>3, <2>1, <2>2
    <3>2. j <= m
      BY <1>4, <3>1
    <3>3. QED
      BY <2>1, <3>1, <3>2
  <2>3. QED
    BY <1>3, <2>1, <2>2
<1> DEFINE at == CHOOSE i \in DOMAIN key : AtLast(i)
<1>6. SplitKey(key) = SplitAt(key, at)
  BY DEF SplitKey
<1>7. at \in DOMAIN key /\ AtLast(at)
  <2> HIDE DEF AtLast
  <2>1. QED
    BY <1>5
<1> HIDE DEF at
<1>8. QED
  BY <1>3, <1>6, <1>7 DEF key

\* A key that is split and put together is the same key.
LEMMA KeyKept ==
    ASSUME NEW r \in Name, NEW b \in Name
    PROVE  RemoteKey(SplitKey(RemoteKey(r, b))[1], SplitKey(RemoteKey(r, b))[2]) = RemoteKey(r, b)
<1> DEFINE key == RemoteKey(r, b)
<1>1. key \in Seq(Char)
  BY KeyParts DEF Name
<1>2. PICK at \in 1..Len(key) : SplitKey(key) = SplitAt(key, at) /\ key[at] = "@"
  BY KeySplit
<1> HIDE DEF key
<1> DEFINE x == SubSeq(key, 1, at - 1)
           y == SubSeq(key, at + 1, Len(key))
<1>3. SplitKey(key)[1] = y /\ SplitKey(key)[2] = x
  BY <1>2 DEF SplitAt
<1>4. /\ x \in Seq(Char) /\ Len(x) = at - 1
      /\ \A i \in 1..(at - 1) : x[i] = key[i]
  <2>1. \A i \in 1..(at - 1) : key[i] \in Char
    BY <1>1
  <2>2. at - 1 \in Int /\ 1 \in Int
    BY <1>1
  <2>3. QED
    BY <2>1, <2>2, SubSeqProperties
<1>5. /\ y \in Seq(Char) /\ Len(y) = Len(key) - at
      /\ \A i \in 1..(Len(key) - at) : y[i] = key[at + i]
  <2>1. \A i \in (at + 1)..Len(key) : key[i] \in Char
    BY <1>1
  <2>2. at + 1 \in Int /\ Len(key) \in Int
    BY <1>1
  <2>3. QED
    BY <2>1, <2>2, SubSeqProperties
<1> HIDE DEF x, y
<1>6. RemoteKey(y, x) = key
  <2> DEFINE z == RemoteKey(y, x)
  <2>1. /\ Len(x) \in Nat /\ Len(y) \in Nat /\ z \in Seq(Char)
        /\ Len(z) = Len(x) + 1 + Len(y)
        /\ \A i \in 1..Len(x) : z[i] = x[i]
        /\ z[Len(x) + 1] = "@"
        /\ \A i \in 1..Len(y) : z[Len(x) + 1 + i] = y[i]
    BY <1>4, <1>5, KeyParts DEF Name
  <2> HIDE DEF z
  <2>2. ASSUME NEW i \in 1..Len(key)
        PROVE  z[i] = key[i]
    <3>1. CASE i < at
      BY <1>4, <2>1, <3>1
    <3>2. CASE i = at
      BY <1>2, <1>4, <2>1, <3>2
    <3>3. CASE i > at
      <4>1. i - at \in 1..Len(y) /\ Len(x) + 1 + (i - at) = i
        BY <1>4, <1>5, <3>3
      <4>2. z[i] = y[i - at]
        BY <2>1, <4>1
      <4>3. y[i - at] = key[at + (i - at)]
        BY <1>5, <4>1
      <4>4. at + (i - at) = i
        OBVIOUS
      <4>5. QED
        BY <4>2, <4>3, <4>4
    <3>4. i < at \/ i = at \/ i > at
      OBVIOUS
    <3>5. QED
      BY <3>1, <3>2, <3>3, <3>4
  <2>3. Len(z) = Len(key)
    BY <1>1, <1>4, <1>5, <2>1
  <2>4. z = key
    BY <1>1, <2>1, <2>2, <2>3, SeqEqual
  <2>5. QED
    BY <2>4 DEF z
<1>7. QED
  BY <1>3, <1>6 DEF key

-----------------------------------------------------------------------------
(* A view that is read and written again.                                  *)

\* The keys of the remote bookmarks of a view on the wire, and what is there.
LEMMA WireRemote ==
    ASSUME NEW v, NEW order
    PROVE  /\ DOMAIN ViewToProto(v, order).remote =
                  {RemoteKey(rb[1], rb[2]) : rb \in DOMAIN v.remote}
           /\ \A key \in DOMAIN ViewToProto(v, order).remote :
                 \E rb \in DOMAIN v.remote :
                    /\ RemoteKey(rb[1], rb[2]) = key
                    /\ ViewToProto(v, order).remote[key] =
                          [target |-> TargetToProto(v.remote[rb].target),
                           tracked |-> v.remote[rb].tracked]
           /\ ViewToProto(v, order).remote =
                  [key \in DOMAIN ViewToProto(v, order).remote |->
                      ViewToProto(v, order).remote[key]]
<1> DEFINE keys == {RemoteKey(rb[1], rb[2]) : rb \in DOMAIN v.remote}
           from(key) == CHOOSE rb \in DOMAIN v.remote : RemoteKey(rb[1], rb[2]) = key
           remote == ViewToProto(v, order).remote
<1>1. remote = [key \in keys |-> [target |-> TargetToProto(v.remote[from(key)].target),
                                  tracked |-> v.remote[from(key)].tracked]]
  BY DEF ViewToProto
<1>2. ASSUME NEW key \in keys
      PROVE  from(key) \in DOMAIN v.remote /\ RemoteKey(from(key)[1], from(key)[2]) = key
  OBVIOUS
<1> HIDE DEF remote, keys, from
<1>3. DOMAIN remote = keys /\ remote = [key \in keys |-> remote[key]]
  BY <1>1
<1>4. ASSUME NEW key \in keys
      PROVE  \E rb \in DOMAIN v.remote :
                /\ RemoteKey(rb[1], rb[2]) = key
                /\ remote[key] = [target |-> TargetToProto(v.remote[rb].target),
                                  tracked |-> v.remote[rb].tracked]
  BY <1>1, <1>2
<1>5. QED
  BY <1>3, <1>4 DEF remote, keys

\* What a view on the wire has at each key it has again after it was read.
LEMMA RemoteKept ==
    ASSUME NEW v, IsView(v), NEW order, NEW order2
    PROVE  ViewToProto(ViewFromProto(ViewToProto(v, order)), order2).remote =
               ViewToProto(v, order).remote
<1> DEFINE p == ViewToProto(v, order)
           w == ViewFromProto(p)
           q == ViewToProto(w, order2)
<1>1. \A rb \in DOMAIN v.remote :
          /\ rb[1] \in Name /\ rb[2] \in Name
          /\ v.remote[rb].target \in Target
  BY DEF IsView, IsMap
<1>2. /\ DOMAIN w.remote = {SplitKey(key) : key \in DOMAIN p.remote}
      /\ \A rb \in DOMAIN w.remote :
            w.remote[rb] = [target |-> TargetFromProto(p.remote[RemoteKey(rb[1], rb[2])].target),
                            tracked |-> p.remote[RemoteKey(rb[1], rb[2])].tracked]
  BY DEF ViewFromProto
<1>3. /\ DOMAIN p.remote = {RemoteKey(rb[1], rb[2]) : rb \in DOMAIN v.remote}
      /\ \A key \in DOMAIN p.remote : \E rb \in DOMAIN v.remote :
            /\ RemoteKey(rb[1], rb[2]) = key
            /\ p.remote[key] = [target |-> TargetToProto(v.remote[rb].target),
                                tracked |-> v.remote[rb].tracked]
      /\ p.remote = [key \in DOMAIN p.remote |-> p.remote[key]]
  BY WireRemote
<1> HIDE DEF p, w
<1>4. /\ DOMAIN q.remote = {RemoteKey(rb[1], rb[2]) : rb \in DOMAIN w.remote}
      /\ \A key \in DOMAIN q.remote : \E rb \in DOMAIN w.remote :
            /\ RemoteKey(rb[1], rb[2]) = key
            /\ q.remote[key] = [target |-> TargetToProto(w.remote[rb].target),
                                tracked |-> w.remote[rb].tracked]
      /\ q.remote = [key \in DOMAIN q.remote |-> q.remote[key]]
  BY WireRemote
<1> HIDE DEF q
<1>5. \A key \in DOMAIN p.remote : RemoteKey(SplitKey(key)[1], SplitKey(key)[2]) = key
  BY <1>1, <1>3, KeyKept
<1>6. DOMAIN q.remote = DOMAIN p.remote
  BY <1>2, <1>4, <1>5
<1>7. ASSUME NEW key \in DOMAIN p.remote
      PROVE  q.remote[key] = p.remote[key]
  <2>1. PICK rb \in DOMAIN w.remote :
            /\ RemoteKey(rb[1], rb[2]) = key
            /\ q.remote[key] = [target |-> TargetToProto(w.remote[rb].target),
                                tracked |-> w.remote[rb].tracked]
    BY <1>4, <1>6
  <2>2. PICK vb \in DOMAIN v.remote :
            /\ RemoteKey(vb[1], vb[2]) = key
            /\ p.remote[key] = [target |-> TargetToProto(v.remote[vb].target),
                                tracked |-> v.remote[vb].tracked]
    BY <1>3
  <2>3. w.remote[rb].target = TargetFromProto(TargetToProto(v.remote[vb].target))
        /\ w.remote[rb].tracked = v.remote[vb].tracked
    <3>1. p.remote[key].target = TargetToProto(v.remote[vb].target)
          /\ p.remote[key].tracked = v.remote[vb].tracked
      BY <2>2
    <3>2. w.remote[rb] = [target |-> TargetFromProto(p.remote[key].target),
                          tracked |-> p.remote[key].tracked]
      BY <1>2, <2>1
    <3>3. QED
      BY <3>1, <3>2
  <2>4. TargetToProto(w.remote[rb].target) = TargetToProto(v.remote[vb].target)
    BY <1>1, <2>3, TargetKept
  <2>5. QED
    BY <2>1, <2>2, <2>3, <2>4
<1>8. q.remote = p.remote
  BY <1>3, <1>4, <1>6, <1>7
<1>9. QED
  BY <1>8 DEF p, w, q

\* Read back and written again, with its heads in any order, a view is hashed
\* the same.
LEMMA ViewIdKept ==
    ASSUME NEW v, IsView(v), NEW order \in SetToSeqs(v.heads),
           NEW order2 \in SetToSeqs(ViewFromProto(ViewToProto(v, order)).heads)
    PROVE  HashView(ViewToProto(ViewFromProto(ViewToProto(v, order)), order2)) =
               HashView(ViewToProto(v, order))
<1> DEFINE p == ViewToProto(v, order)
           w == ViewFromProto(p)
           q == ViewToProto(w, order2)
<1>1. p.heads = order /\ q.heads = order2 /\ q.wc = p.wc
  BY DEF ViewToProto, ViewFromProto
<1>2. Sorted(q.heads) = Sorted(p.heads)
  <2>1. IsFiniteSet(v.heads) /\ v.heads \subseteq Nat
    BY DEF IsView
  <2>2. w.heads = v.heads
    <3>1. ToSet(order) = v.heads
      BY <2>1, Listing
    <3>2. w.heads = ToSet(order)
      BY DEF ViewFromProto, ViewToProto
    <3>3. QED
      BY <3>1, <3>2
  <2>3. order2 \in SetToSeqs(v.heads)
    BY <2>2
  <2>4. Sorted(order2) = Sorted(order)
    BY <2>1, <2>3, SortedListing
  <2>5. QED
    BY <1>1, <2>4
<1>3. q.local = p.local
  <2>1. \A b \in DOMAIN v.local : v.local[b] \in Target
    BY DEF IsView, IsMap
  <2>2. p.local = [b \in DOMAIN v.local |-> TargetToProto(v.local[b])]
    BY DEF ViewToProto
  <2>3. w.local = [b \in DOMAIN p.local |-> TargetFromProto(p.local[b])]
    BY DEF ViewFromProto
  <2> HIDE DEF p
  <2>4. q.local = [b \in DOMAIN w.local |-> TargetToProto(w.local[b])]
    BY DEF ViewToProto
  <2> HIDE DEF w, q
  <2>5. q.local = [b \in DOMAIN v.local |->
                      TargetToProto(TargetFromProto(TargetToProto(v.local[b])))]
    BY <2>2, <2>3, <2>4
  <2>6. \A b \in DOMAIN v.local :
            TargetToProto(TargetFromProto(TargetToProto(v.local[b]))) = TargetToProto(v.local[b])
    BY <2>1, TargetKept
  <2>7. QED
    BY <2>2, <2>5, <2>6
<1>4. q.remote = p.remote
  BY RemoteKept
<1> HIDE DEF p, q
<1>5. HashView(q) = HashView(p)
  BY <1>1, <1>2, <1>3, <1>4 DEF HashView
<1>6. QED
  BY <1>5 DEF p, q

-----------------------------------------------------------------------------
(* The list of predecessors of an operation.                               *)

\* The list names each rewritten commit, and says of it what the map says.
LEMMA WirePredecessors ==
    ASSUME NEW map, IsMap(map, Nat, Seq(Nat))
    PROVE  /\ PredecessorsToProto(map) =
                  [i \in 1..Cardinality(DOMAIN map) |->
                      [commit |-> Sorted(SetToSeq(DOMAIN map))[i],
                       predecessors |-> map[Sorted(SetToSeq(DOMAIN map))[i]]]]
           /\ ToSet(Sorted(SetToSeq(DOMAIN map))) = DOMAIN map
           /\ DOMAIN Sorted(SetToSeq(DOMAIN map)) = 1..Cardinality(DOMAIN map)
<1> DEFINE S == DOMAIN map
           commits == Sorted(SetToSeq(S))
<1>1. IsFiniteSet(S) /\ S \subseteq Nat
  BY DEF IsMap
<1>2. SetToSeq(S) \in SetToSeqs(S)
  BY <1>1, SetToSeqLists
<1>3. DOMAIN commits = 1..Cardinality(S) /\ ToSet(commits) = S
  BY <1>1, <1>2, SortedListing
<1>4. PredecessorsToProto(map) =
          [i \in DOMAIN commits |-> [commit |-> commits[i], predecessors |-> map[commits[i]]]]
  BY DEF PredecessorsToProto
<1> HIDE DEF commits
<1>5. QED
  BY <1>3, <1>4 DEF commits

\* The map is the same after the way to the server and back.
LEMMA PredecessorsKept ==
    ASSUME NEW map, IsMap(map, Nat, Seq(Nat))
    PROVE  PredecessorsFromProto(PredecessorsToProto(map)) = map
<1> DEFINE S == DOMAIN map
           n == Cardinality(S)
           commits == Sorted(SetToSeq(S))
           list == PredecessorsToProto(map)
           E == ToSet(list)
<1>1. /\ list = [i \in 1..n |-> [commit |-> commits[i], predecessors |-> map[commits[i]]]]
      /\ ToSet(commits) = S /\ DOMAIN commits = 1..n
  BY WirePredecessors
<1> HIDE DEF commits, list, n
<1>2. \A e \in E : e.commit \in S /\ e.predecessors = map[e.commit]
  BY <1>1 DEF ToSet
<1>3. \A x \in S : \E e \in E : e.commit = x
  <2>1. TAKE x \in S
  <2>2. PICK i \in 1..n : commits[i] = x
    BY <1>1 DEF ToSet
  <2>3. list[i] \in E /\ list[i].commit = x
    BY <1>1, <2>2 DEF ToSet
  <2>4. QED
    BY <2>3
<1> HIDE DEF E
<1> DEFINE back == PredecessorsFromProto(list)
           entry(x) == CHOOSE e \in E : e.commit = x
<1>4. back = [x \in {e.commit : e \in E} |-> entry(x).predecessors]
  BY DEF PredecessorsFromProto, E
<1>5. {e.commit : e \in E} = S
  BY <1>2, <1>3
<1>6. ASSUME NEW x \in S
      PROVE  entry(x).predecessors = map[x]
  <2>1. entry(x) \in E /\ entry(x).commit = x
    BY <1>3
  <2> HIDE DEF entry
  <2>2. QED
    BY <1>2, <2>1
<1>7. map = [x \in S |-> map[x]]
  BY DEF IsMap
<1> HIDE DEF entry, back, S
<1>8. back = map
  BY <1>4, <1>5, <1>6, <1>7
<1>9. QED
  BY <1>8 DEF back, list

\* An operation up to its time zones, written out.
LEMMA TimeZonesDropped ==
    ASSUME NEW o, IsOperation(o)
    PROVE  CarriedOperation(o) =
               [view |-> o.view, parents |-> o.parents,
                start |-> [millis |-> o.start.millis, tz |-> 0],
                end |-> [millis |-> o.end.millis, tz |-> 0],
                text |-> o.text, snapshot |-> o.snapshot, workspace |-> o.workspace,
                attributes |-> o.attributes, predecessors |-> o.predecessors]
<1>1. /\ o = [view |-> o.view, parents |-> o.parents, start |-> o.start, end |-> o.end,
              text |-> o.text, snapshot |-> o.snapshot, workspace |-> o.workspace,
              attributes |-> o.attributes, predecessors |-> o.predecessors]
      /\ o.start \in [millis : Int, tz : Int] /\ o.end \in [millis : Int, tz : Int]
  BY DEF IsOperation
<1>2. /\ [o.start EXCEPT !.tz = 0] = [millis |-> o.start.millis, tz |-> 0]
      /\ [o.end EXCEPT !.tz = 0] = [millis |-> o.end.millis, tz |-> 0]
  BY <1>1
<1>3. CarriedOperation(o) = [o EXCEPT !.start = [o.start EXCEPT !.tz = 0],
                                      !.end = [o.end EXCEPT !.tz = 0]]
  BY <1>1 DEF CarriedOperation
<1>4. QED
  BY <1>1, <1>2, <1>3

\* What is read of an operation is the operation up to the time zones, and it
\* is on the wire what the operation was.
LEMMA OperationKept ==
    ASSUME NEW o, IsOperation(o)
    PROVE  /\ OperationToProto(OperationFromProto(OperationToProto(o))) = OperationToProto(o)
           /\ CarriedOperation(OperationFromProto(OperationToProto(o))) = CarriedOperation(o)
<1> DEFINE p == OperationToProto(o)
           r == OperationFromProto(p)
<1>1. (IF p.predecessorsSet THEN <<PredecessorsFromProto(p.predecessors)>> ELSE <<>>) =
          o.predecessors
  <2>1. CASE o.predecessors = <<>>
    BY <2>1 DEF OperationToProto
  <2>2. CASE o.predecessors # <<>>
    <3> DEFINE map == o.predecessors[1]
    <3>1. IsMap(map, Nat, Seq(Nat)) /\ o.predecessors = <<map>>
      BY <2>2 DEF IsOperation
    <3>2. p.predecessorsSet /\ p.predecessors = PredecessorsToProto(map)
      BY <2>2 DEF OperationToProto
    <3> HIDE DEF map, p
    <3>3. QED
      BY <3>1, <3>2, PredecessorsKept
  <2>3. QED
    BY <2>1, <2>2
<1>2. r = [view |-> o.view, parents |-> o.parents,
           start |-> [millis |-> o.start.millis, tz |-> 0],
           end |-> [millis |-> o.end.millis, tz |-> 0],
           text |-> o.text, snapshot |-> o.snapshot, workspace |-> o.workspace,
           attributes |-> o.attributes, predecessors |-> o.predecessors]
  <2>1. /\ p.view = o.view /\ p.parents = o.parents /\ p.start = o.start.millis
        /\ p.end = o.end.millis /\ p.text = o.text /\ p.snapshot = o.snapshot
        /\ p.workspace = o.workspace /\ p.attributes = o.attributes
    BY DEF OperationToProto
  <2> HIDE DEF p
  <2>2. QED
    BY <1>1, <2>1 DEF OperationFromProto
<1> HIDE DEF r
<1>3. OperationToProto(r) = p
  BY <1>2 DEF OperationToProto
<1>4. CarriedOperation(r) = CarriedOperation(o)
  <2>1. IsOperation(r)
    BY <1>2 DEF IsOperation
  <2>2. CarriedOperation(r) = r
    BY <1>2, <2>1, TimeZonesDropped
  <2>3. CarriedOperation(o) = r
    BY <1>2, TimeZonesDropped
  <2>4. QED
    BY <2>2, <2>3
<1>5. QED
  BY <1>3, <1>4 DEF r, p

-----------------------------------------------------------------------------
(* A view that is read.                                                    *)

\* What rsplit_once takes for granted: remotes have no '@' in their names.
RemotesWithoutAt ==
    \A v \in View : \A rb \in DOMAIN v.remote : "@" \notin ToSet(rb[1])

\* A key is split where it was put together, if the remote has no '@'.
LEMMA KeySplitExactly ==
    ASSUME NEW r \in Name, NEW b \in Name, "@" \notin ToSet(r)
    PROVE  SplitKey(RemoteKey(r, b)) = <<r, b>>
<1> DEFINE key == RemoteKey(r, b)
<1>1. /\ Len(b) \in Nat /\ Len(r) \in Nat
      /\ key \in Seq(Char) /\ Len(key) = Len(b) + 1 + Len(r)
      /\ \A i \in 1..Len(b) : key[i] = b[i]
      /\ key[Len(b) + 1] = "@"
      /\ \A i \in 1..Len(r) : key[Len(b) + 1 + i] = r[i]
  BY KeyParts DEF Name
<1>2. PICK at \in 1..Len(key) :
          /\ SplitKey(key) = SplitAt(key, at)
          /\ key[at] = "@"
          /\ \A j \in (at + 1)..Len(key) : key[j] # "@"
  BY KeySplit
<1>3. r \in Seq(Char) /\ b \in Seq(Char)
  BY DEF Name
<1> HIDE DEF key
<1>4. at = Len(b) + 1
  <2>1. ~(at < Len(b) + 1)
    BY <1>1, <1>2
  <2>2. ASSUME at > Len(b) + 1
        PROVE  FALSE
    <3>1. at - (Len(b) + 1) \in 1..Len(r) /\ Len(b) + 1 + (at - (Len(b) + 1)) = at
      BY <1>1, <2>2
    <3>2. r[at - (Len(b) + 1)] = "@"
      BY <1>1, <1>2, <3>1
    <3>3. at - (Len(b) + 1) \in DOMAIN r
      BY <1>3, <3>1
    <3>4. QED
      BY <3>2, <3>3 DEF ToSet
  <2>3. at \in Int
    BY <1>1
  <2>4. QED
    BY <1>1, <2>1, <2>2, <2>3
<1>5. SubSeq(key, 1, at - 1) = b
  <2>1. \A i \in 1..(at - 1) : key[i] \in Char
    BY <1>1, <1>4
  <2>2. at - 1 \in Int /\ 1 \in Int /\ at - 1 = Len(b)
    BY <1>1, <1>4
  <2>3. /\ SubSeq(key, 1, at - 1) \in Seq(Char) /\ Len(SubSeq(key, 1, at - 1)) = Len(b)
        /\ \A i \in 1..Len(b) : SubSeq(key, 1, at - 1)[i] = key[i]
    BY <1>1, <2>1, <2>2, SubSeqProperties
  <2>4. QED
    BY <1>1, <1>3, <2>3, SeqEqual
<1>6. SubSeq(key, at + 1, Len(key)) = r
  <2> DEFINE y == SubSeq(key, at + 1, Len(key))
  <2>1. \A i \in (at + 1)..Len(key) : key[i] \in Char
    BY <1>1, <1>4
  <2>2. at + 1 \in Int /\ Len(key) \in Int /\ Len(key) - at = Len(r)
    BY <1>1, <1>4
  <2>3. /\ y \in Seq(Char) /\ Len(y) = Len(r)
        /\ \A i \in 1..Len(r) : y[i] = key[at + i]
    BY <1>1, <2>1, <2>2, SubSeqProperties
  <2> HIDE DEF y
  <2>4. \A i \in 1..Len(r) : y[i] = r[i]
    BY <1>1, <1>4, <2>3
  <2>5. y = r
    BY <1>3, <2>3, <2>4, SeqEqual
  <2>6. QED
    BY <2>5 DEF y
<1>7. QED
  BY <1>2, <1>5, <1>6 DEF SplitAt, key

\* What is read of a view is what the wire carries of it.
LEMMA ViewKept ==
    ASSUME RemotesWithoutAt, NEW v \in View, NEW order \in SetToSeqs(v.heads)
    PROVE  Carried(ViewFromProto(ViewToProto(v, order))) = Carried(v)
<1> DEFINE p == ViewToProto(v, order)
           w == ViewFromProto(p)
<1>1. IsView(v)
  BY ObjectsAssumption
<1>2. w.heads = v.heads
  <2>1. ToSet(order) = v.heads
    BY <1>1, Listing DEF IsView
  <2>2. w.heads = ToSet(order)
    BY DEF ViewFromProto, ViewToProto
  <2>3. QED
    BY <2>1, <2>2
<1>3. w.wc = v.wc
  BY DEF ViewFromProto, ViewToProto
<1>4. Carried(w).local = Carried(v).local
  <2>1. \A b \in DOMAIN v.local : v.local[b] \in Target
    BY <1>1 DEF IsView, IsMap
  <2>2. p.local = [b \in DOMAIN v.local |-> TargetToProto(v.local[b])]
    BY DEF ViewToProto
  <2>3. w.local = [b \in DOMAIN p.local |-> TargetFromProto(p.local[b])]
    BY DEF ViewFromProto
  <2> HIDE DEF w, p
  <2>4. Carried(w).local = [b \in DOMAIN w.local |-> TargetToProto(w.local[b])]
        /\ Carried(v).local = [b \in DOMAIN v.local |-> TargetToProto(v.local[b])]
    BY DEF Carried
  <2>5. \A b \in DOMAIN v.local :
            TargetToProto(TargetFromProto(TargetToProto(v.local[b]))) = TargetToProto(v.local[b])
    BY <2>1, TargetKept
  <2>6. Carried(w).local = [b \in DOMAIN v.local |->
                               TargetToProto(TargetFromProto(TargetToProto(v.local[b])))]
    BY <2>2, <2>3, <2>4
  <2>7. QED
    BY <2>4, <2>5, <2>6
<1>5. Carried(w).remote = Carried(v).remote
  <2>1. \A rb \in DOMAIN v.remote :
            /\ rb = <<rb[1], rb[2]>> /\ rb[1] \in Name /\ rb[2] \in Name
            /\ v.remote[rb].target \in Target
    BY <1>1 DEF IsView, IsMap
  <2>2. \A rb \in DOMAIN v.remote : SplitKey(RemoteKey(rb[1], rb[2])) = rb
    <3>1. TAKE rb \in DOMAIN v.remote
    <3>2. SplitKey(RemoteKey(rb[1], rb[2])) = <<rb[1], rb[2]>>
      BY <2>1, KeySplitExactly DEF RemotesWithoutAt
    <3>3. QED
      BY <2>1, <3>2
  <2>3. /\ DOMAIN w.remote = {SplitKey(key) : key \in DOMAIN p.remote}
        /\ \A rb \in DOMAIN w.remote :
              w.remote[rb] = [target |-> TargetFromProto(p.remote[RemoteKey(rb[1], rb[2])].target),
                              tracked |-> p.remote[RemoteKey(rb[1], rb[2])].tracked]
    BY DEF ViewFromProto
  <2>4. /\ DOMAIN p.remote = {RemoteKey(rb[1], rb[2]) : rb \in DOMAIN v.remote}
        /\ \A key \in DOMAIN p.remote : \E rb \in DOMAIN v.remote :
              /\ RemoteKey(rb[1], rb[2]) = key
              /\ p.remote[key] = [target |-> TargetToProto(v.remote[rb].target),
                                  tracked |-> v.remote[rb].tracked]
    BY WireRemote, ZenonT(80)
  <2> HIDE DEF w, p
  <2>5. DOMAIN w.remote = DOMAIN v.remote
    BY <2>2, <2>3, <2>4
  <2>6. ASSUME NEW rb \in DOMAIN v.remote
        PROVE  /\ TargetToProto(w.remote[rb].target) = TargetToProto(v.remote[rb].target)
               /\ w.remote[rb].tracked = v.remote[rb].tracked
    <3> DEFINE key == RemoteKey(rb[1], rb[2])
    <3>1. key \in DOMAIN p.remote /\ SplitKey(key) = rb
      BY <2>2, <2>4
    <3>2. w.remote[rb] = [target |-> TargetFromProto(p.remote[key].target),
                          tracked |-> p.remote[key].tracked]
      BY <2>3, <2>5
    <3> HIDE DEF key
    <3>3. PICK vb \in DOMAIN v.remote :
              /\ RemoteKey(vb[1], vb[2]) = key
              /\ p.remote[key] = [target |-> TargetToProto(v.remote[vb].target),
                                  tracked |-> v.remote[vb].tracked]
      BY <2>4, <3>1
    <3>4. vb = rb
      BY <2>2, <3>1, <3>3
    <3>5. p.remote[key].target = TargetToProto(v.remote[rb].target)
          /\ p.remote[key].tracked = v.remote[rb].tracked
      BY <3>3, <3>4
    <3>6. TargetToProto(TargetFromProto(TargetToProto(v.remote[rb].target))) =
              TargetToProto(v.remote[rb].target)
      BY <2>1, TargetKept
    <3>7. QED
      BY <3>2, <3>5, <3>6
  <2> DEFINE entry(u, rb) == [target |-> TargetToProto(u.remote[rb].target),
                              tracked |-> u.remote[rb].tracked]
  <2>7. /\ Carried(w).remote = [rb \in DOMAIN w.remote |-> entry(w, rb)]
        /\ Carried(v).remote = [rb \in DOMAIN v.remote |-> entry(v, rb)]
    BY DEF Carried
  <2>8. \A rb \in DOMAIN v.remote : entry(w, rb) = entry(v, rb)
    BY <2>6
  <2> HIDE DEF entry
  <2>9. QED
    BY <2>5, <2>7, <2>8
<1> HIDE DEF w
<1>6. \A u : Carried(u) = [heads |-> u.heads, wc |-> u.wc, local |-> Carried(u).local,
                          remote |-> Carried(u).remote]
  BY DEF Carried
<1>7. Carried(w) = Carried(v)
  BY <1>2, <1>3, <1>4, <1>5, <1>6
<1>8. QED
  BY <1>7 DEF w, p

-----------------------------------------------------------------------------
(* How maps are fed.                                                       *)

Token == {Id(i) : i \in Nat} \cup {Str(n) : n \in Name}
         \cup {Raw(x) : x \in Int} \cup {Raw(b) : b \in BOOLEAN}

\* What kind of token it is: its first component.
LEMMA Tokens ==
    /\ \A i \in Nat : Id(i) \in Token
    /\ \A n \in Name : Str(n) \in Token
    /\ \A x \in Int : Raw(x) \in Token
    /\ \A b \in BOOLEAN : Raw(b) \in Token
    /\ \A x, y : (Id(x) = Id(y) => x = y) /\ (Str(x) = Str(y) => x = y)
                 /\ (Raw(x) = Raw(y) => x = y)
    /\ \A x : Id(x)[1] = "id" /\ Str(x)[1] = "str" /\ Raw(x)[1] = "raw"
    /\ "id" # "str" /\ "id" # "raw" /\ "str" # "raw"
<1>1. /\ \A i \in Nat : Id(i) \in Token
      /\ \A n \in Name : Str(n) \in Token
      /\ \A x \in Int : Raw(x) \in Token
      /\ \A b \in BOOLEAN : Raw(b) \in Token
  <2> DEFINE A == {Id(i) : i \in Nat}
             B == {Str(n) : n \in Name}
             C == {Raw(x) : x \in Int}
             D == {Raw(b) : b \in BOOLEAN}
  <2>1. \A i \in Nat : Id(i) \in A
    OBVIOUS
  <2>2. \A n \in Name : Str(n) \in B
    OBVIOUS
  <2>3. \A x \in Int : Raw(x) \in C
    OBVIOUS
  <2>4. \A b \in BOOLEAN : Raw(b) \in D
    OBVIOUS
  <2>5. Token = A \cup B \cup C \cup D
    BY DEF Token
  <2> HIDE DEF A, B, C, D
  <2>6. QED
    BY <2>1, <2>2, <2>3, <2>4, <2>5
<1>2. \A x, y : (Id(x) = Id(y) => x = y) /\ (Str(x) = Str(y) => x = y)
                /\ (Raw(x) = Raw(y) => x = y)
  BY DEF Id, Str, Raw
<1>3. \A x : Id(x)[1] = "id" /\ Str(x)[1] = "str" /\ Raw(x)[1] = "raw"
  BY DEF Id, Str, Raw
<1>4. QED
  BY <1>1, <1>2, <1>3

\* The stream s is the map fed, in the order of the keys, m tokens a value.
FedInOrder(s, fed, m, keys) ==
    /\ \A k \in DOMAIN fed : \E i \in 1..Len(keys) : keys[i] = k
    /\ s \in Seq(Token) /\ Len(s) = (m + 1) * Len(keys)
    /\ \A i \in 1..Len(keys) :
          /\ s[(m + 1) * (i - 1) + 1] = Str(keys[i])
          /\ \A j \in 1..m : s[(m + 1) * (i - 1) + 1 + j] = fed[keys[i]][j]

\* How a map is fed whose values take one token or two.
LEMMA MapFed ==
    ASSUME NEW fed, IsFiniteSet(DOMAIN fed), DOMAIN fed \subseteq Name, NEW m \in {1, 2},
           \A k \in DOMAIN fed : fed[k] \in Seq(Token) /\ Len(fed[k]) = m
    PROVE  \E keys \in Seq(DOMAIN fed) : FedInOrder(FeedMap(fed), fed, m, keys)
<1> DEFINE D == DOMAIN fed
           keys == SetToSeq(D)
           block(k) == <<Str(k)>> \o fed[k]
           ss == [i \in DOMAIN keys |-> block(keys[i])]
           w == m + 1
<1>1. keys \in SetToSeqs(D)
  BY SetToSeqLists
<1>2. /\ keys \in Seq(D) /\ ToSet(keys) = D /\ Cardinality(D) \in Nat
      /\ Len(keys) = Cardinality(D) /\ DOMAIN keys = 1..Cardinality(D)
      /\ \A i \in 1..Cardinality(D) : keys[i] \in D
  BY <1>1, Listing
<1> HIDE DEF keys
<1>3. ASSUME NEW k \in D
      PROVE  /\ block(k) \in Seq(Token) /\ Len(block(k)) = w
             /\ block(k)[1] = Str(k)
             /\ \A j \in 1..m : block(k)[1 + j] = fed[k][j]
  <2> DEFINE a == <<Str(k)>>
             b == fed[k]
  <2>1. a \in Seq(Token) /\ Len(a) = 1 /\ a[1] = Str(k)
    <3>1. Str(k) \in Token
      BY Tokens
    <3>2. QED
      BY <3>1
  <2>2. b \in Seq(Token) /\ Len(b) = m
    OBVIOUS
  <2> HIDE DEF a, b
  <2>3. /\ a \o b \in Seq(Token) /\ Len(a \o b) = Len(a) + Len(b)
        /\ \A i \in 1..(Len(a) + Len(b)) :
              (a \o b)[i] = IF i <= Len(a) THEN a[i] ELSE b[i - Len(a)]
    BY <2>1, <2>2, ConcatProperties, ZenonT(40)
  <2>4. (a \o b)[1] = Str(k) /\ Len(a \o b) = w
    BY <2>1, <2>2, <2>3
  <2>5. \A j \in 1..m : (a \o b)[1 + j] = b[j]
    <3>1. TAKE j \in 1..m
    <3>2. 1 + j \in 1..(Len(a) + Len(b)) /\ ~(1 + j <= Len(a)) /\ 1 + j - Len(a) = j
      BY <2>1, <2>2
    <3>3. QED
      BY <2>3, <3>2
  <2>6. block(k) = a \o b
    BY DEF a, b
  <2> HIDE DEF block
  <2>7. QED
    BY <2>3, <2>4, <2>5, <2>6 DEF b
<1>4. FeedMap(fed) = FlattenSeq(ss)
  BY DEF FeedMap, keys
<1> HIDE DEF block, D
<1>5. ss \in Seq(Seq(Token)) /\ Len(ss) = Len(keys)
      /\ \A i \in 1..Len(ss) : ss[i] = block(keys[i]) /\ Len(ss[i]) = w
  <2> DEFINE N == Cardinality(D)
  <2>1. N \in Nat /\ ss = [i \in 1..N |-> block(keys[i])] /\ Len(keys) = N
    BY <1>2
  <2>2. \A i \in 1..N : block(keys[i]) \in Seq(Token) /\ Len(block(keys[i])) = w
    BY <1>2, <1>3
  <2> HIDE DEF N, ss, w
  <2>3. Len(ss) = N /\ \A i \in 1..N : ss[i] = block(keys[i])
    BY <2>1
  <2>4. ss \in Seq(Seq(Token))
    BY <2>1, <2>2
  <2>5. QED
    BY <2>1, <2>2, <2>3, <2>4
<1>6. w \in {2, 3}
  OBVIOUS
<1> HIDE DEF ss
<1>7. /\ FlattenSeq(ss) \in Seq(Token) /\ Len(FlattenSeq(ss)) = w * Len(ss)
      /\ \A i \in 1..Len(ss) : \A j \in 1..w :
            FlattenSeq(ss)[w * (i - 1) + j] = ss[i][j]
  <2>1. ss \in Seq(Seq(Token)) /\ \A i \in 1..Len(ss) : Len(ss[i]) = w
    BY <1>5
  <2> HIDE DEF w
  <2>2. FlattenSeq(ss) \in Seq(Token) /\ InBlocks(FlattenSeq(ss), ss, w)
    BY <1>6, <2>1, Blocks, ZenonT(40)
  <2>3. QED
    BY <2>2 DEF InBlocks
<1>8. ASSUME NEW i \in 1..Len(keys)
      PROVE  /\ FlattenSeq(ss)[w * (i - 1) + 1] = Str(keys[i])
             /\ \A j \in 1..m : FlattenSeq(ss)[w * (i - 1) + 1 + j] = fed[keys[i]][j]
  <2>1. keys[i] \in D /\ i \in 1..Len(ss) /\ ss[i] = block(keys[i])
    BY <1>2, <1>5
  <2>2. 1 \in 1..w /\ \A j \in 1..m : 1 + j \in 1..w
    OBVIOUS
  <2>3. FlattenSeq(ss)[w * (i - 1) + 1] = Str(keys[i])
    BY <1>3, <1>7, <2>1, <2>2
  <2>4. ASSUME NEW j \in 1..m
        PROVE  FlattenSeq(ss)[w * (i - 1) + 1 + j] = fed[keys[i]][j]
    <3>1. FlattenSeq(ss)[w * (i - 1) + (1 + j)] = fed[keys[i]][j]
      <4> DEFINE q == 1 + j
      <4>1. q \in 1..w
        BY <2>2
      <4>2. block(keys[i])[q] = fed[keys[i]][j]
        BY <1>3, <2>1
      <4> HIDE DEF q, w
      <4>3. FlattenSeq(ss)[w * (i - 1) + q] = ss[i][q]
        BY <1>7, <2>1, <4>1
      <4>4. QED
        BY <2>1, <4>2, <4>3 DEF q
    <3>2. w * (i - 1) + (1 + j) = w * (i - 1) + 1 + j
      BY <1>2
    <3>3. QED
      BY <3>1, <3>2
  <2>5. QED
    BY <2>3, <2>4
<1>9. \A k \in D : \E i \in 1..Len(keys) : keys[i] = k
  BY <1>2 DEF ToSet
<1>10. /\ keys \in Seq(D)
       /\ \A k \in D : \E i \in 1..Len(keys) : keys[i] = k
       /\ FeedMap(fed) \in Seq(Token)
       /\ Len(FeedMap(fed)) = w * Len(keys)
       /\ \A i \in 1..Len(keys) :
             /\ FeedMap(fed)[w * (i - 1) + 1] = Str(keys[i])
             /\ \A j \in 1..m : FeedMap(fed)[w * (i - 1) + 1 + j] = fed[keys[i]][j]
  <2> HIDE DEF w
  <2>1. QED
    BY <1>2, <1>4, <1>5, <1>7, <1>8, <1>9
<1>11. QED
  BY <1>10 DEF D, FedInOrder

\* At p of the stream begins what is fed of the entry: its name and its value.
EntryAt(stream, p, entry) ==
    /\ stream[p] = Str(entry[1]) /\ p + Len(entry[2]) <= Len(stream)
    /\ \A j \in 1..Len(entry[2]) : stream[p + j] = entry[2][j]

\* The stream names exactly the entries.
Parsed(stream, entries) ==
    /\ stream \in Seq(Token)
    /\ stream = <<>> \/ stream[1][1] = "str"
    /\ \A p \in 1..Len(stream) :
          stream[p][1] = "str" => \E entry \in entries : EntryAt(stream, p, entry)
    /\ \A entry \in entries : \E p \in 1..Len(stream) : EntryAt(stream, p, entry)

Entries(fed) == {<<k, fed[k]>> : k \in DOMAIN fed}

\* What is fed of a map can be parsed, if no value looks like a name.
LEMMA MapParsed ==
    ASSUME NEW fed, IsFiniteSet(DOMAIN fed), DOMAIN fed \subseteq Name, NEW m \in {1, 2},
           \A k \in DOMAIN fed :
              /\ fed[k] \in Seq(Token) /\ Len(fed[k]) = m
              /\ \A j \in 1..m : fed[k][j][1] # "str"
    PROVE  Parsed(FeedMap(fed), Entries(fed))
<1> DEFINE D == DOMAIN fed
           s == FeedMap(fed)
           w == m + 1
<1>1. PICK keys \in Seq(D) :
          /\ \A k \in D : \E i \in 1..Len(keys) : keys[i] = k
          /\ s \in Seq(Token) /\ Len(s) = w * Len(keys)
          /\ \A i \in 1..Len(keys) :
                /\ s[w * (i - 1) + 1] = Str(keys[i])
                /\ \A j \in 1..m : s[w * (i - 1) + 1 + j] = fed[keys[i]][j]
  <2>1. \A k \in DOMAIN fed : fed[k] \in Seq(Token) /\ Len(fed[k]) = m
    OBVIOUS
  <2>2. PICK keys \in Seq(DOMAIN fed) : FedInOrder(FeedMap(fed), fed, m, keys)
    BY <2>1, MapFed, ZenonT(40)
  <2>3. QED
    BY <2>2 DEF FedInOrder
<1>2. Len(keys) \in Nat /\ \A i \in 1..Len(keys) : keys[i] \in D
  BY <1>1, SMTT(30)
<1> HIDE DEF s
<1>3. ASSUME NEW i \in 1..Len(keys)
      PROVE  /\ w * (i - 1) + 1 \in 1..Len(s)
             /\ EntryAt(s, w * (i - 1) + 1, <<keys[i], fed[keys[i]]>>)
  <2>1. keys[i] \in D
    BY <1>2
  <2>2. Len(fed[keys[i]]) = m
    BY <2>1
  <2>3. w * (i - 1) + 1 \in 1..(w * Len(keys))
        /\ w * (i - 1) + 1 + m <= w * Len(keys)
    BY <1>2
  <2>4. QED
    BY <1>1, <2>2, <2>3 DEF EntryAt
<1>4. ASSUME NEW p \in 1..Len(s), s[p][1] = "str"
      PROVE  \E entry \in Entries(fed) : EntryAt(s, p, entry)
  <2>1. PICK i \in 1..Len(keys) : \E j \in 1..w : p = w * (i - 1) + j
    <3>1. w \in {2, 3} /\ p \in 1..(w * Len(keys))
      BY <1>1
    <3> HIDE DEF w
    <3>2. QED
      BY <1>2, <3>1, BlockOf
  <2>2. PICK j \in 1..w : p = w * (i - 1) + j
    BY <2>1
  <2>3. keys[i] \in D
    BY <1>2
  <2>4. CASE j = 1
    <3>1. EntryAt(s, p, <<keys[i], fed[keys[i]]>>)
      BY <1>3, <2>2, <2>4
    <3>2. <<keys[i], fed[keys[i]]>> \in Entries(fed)
      BY <2>3 DEF Entries
    <3>3. QED
      BY <3>1, <3>2
  <2>5. CASE j # 1
    <3>1. j - 1 \in 1..m /\ w * (i - 1) + 1 + (j - 1) = p
      BY <1>2, <2>2, <2>5
    <3>2. s[w * (i - 1) + 1 + (j - 1)] = fed[keys[i]][j - 1]
      BY <1>1, <3>1
    <3>3. s[p] = fed[keys[i]][j - 1]
      BY <3>1, <3>2
    <3>4. fed[keys[i]][j - 1][1] # "str"
      BY <2>3, <3>1
    <3>5. QED
      BY <1>4, <3>3, <3>4
  <2>6. QED
    BY <2>4, <2>5
<1>5. ASSUME NEW entry \in Entries(fed)
      PROVE  \E p \in 1..Len(s) : EntryAt(s, p, entry)
  <2>1. PICK k \in D : entry = <<k, fed[k]>>
    BY DEF Entries
  <2>2. PICK i \in 1..Len(keys) : keys[i] = k
    BY <1>1
  <2>3. w * (i - 1) + 1 \in 1..Len(s) /\ EntryAt(s, w * (i - 1) + 1, <<k, fed[k]>>)
    BY <1>3, <2>2
  <2>4. QED
    BY <2>1, <2>3
<1>6. s = <<>> \/ s[1][1] = "str"
  <2>1. CASE Len(keys) = 0
    <3>1. Len(s) = 0
      BY <1>1, <2>1
    <3>2. QED
      BY <1>1, <3>1
  <2>2. CASE Len(keys) # 0
    <3>1. 1 \in 1..Len(keys) /\ w * (1 - 1) + 1 = 1
      BY <1>2, <2>2
    <3>2. s[w * (1 - 1) + 1] = Str(keys[1])
      BY <1>1, <3>1
    <3>3. QED
      BY <3>1, <3>2, Tokens
  <2>3. QED
    BY <2>1, <2>2
<1>7. QED
  BY <1>1, <1>4, <1>5, <1>6 DEF Parsed, s

\* One stream after another names what either names.
LEMMA ParsedJoin ==
    ASSUME NEW a, NEW b, NEW A, NEW B, Parsed(a, A), Parsed(b, B),
           \A entry \in A \cup B : Len(entry[2]) \in Nat
    PROVE  Parsed(a \o b, A \cup B)
<1> DEFINE s == a \o b
           n == Len(a)
           m == Len(b)
<1>1. a \in Seq(Token) /\ b \in Seq(Token)
  BY DEF Parsed
<1>2. /\ s \in Seq(Token) /\ Len(s) = Len(a) + Len(b)
      /\ \A i \in 1..(Len(a) + Len(b)) : s[i] = IF i <= Len(a) THEN a[i] ELSE b[i - Len(a)]
  BY <1>1, ConcatProperties, ZenonT(40)
<1>3. n \in Nat /\ m \in Nat
  BY <1>1
<1> HIDE DEF s
<1>4. (\A i \in 1..n : i \in 1..Len(s) /\ s[i] = a[i])
      /\ \A i \in 1..m : n + i \in 1..Len(s) /\ s[n + i] = b[i]
  <2>1. ASSUME NEW i \in 1..n
        PROVE  i \in 1..Len(s) /\ s[i] = a[i]
    BY <1>2, <1>3
  <2>2. ASSUME NEW i \in 1..m
        PROVE  n + i \in 1..Len(s) /\ s[n + i] = b[i]
    <3>1. n + i \in 1..(n + m) /\ ~(n + i <= n) /\ n + i - n = i
      BY <1>3
    <3>2. QED
      BY <1>2, <3>1
  <2>3. QED
    BY <2>1, <2>2
<1> HIDE DEF n, m
<1>5. ASSUME NEW entry \in A \cup B, NEW p \in 1..n, EntryAt(a, p, entry)
      PROVE  EntryAt(s, p, entry)
  <2>1. Len(entry[2]) \in Nat /\ a[p] = Str(entry[1]) /\ p + Len(entry[2]) <= n
        /\ \A j \in 1..Len(entry[2]) : a[p + j] = entry[2][j]
    BY <1>5 DEF EntryAt, n
  <2>2. p + Len(entry[2]) <= Len(s)
    <3>1. Len(s) = n + m
      BY <1>2 DEF n, m
    <3>2. QED
      BY <1>3, <2>1, <3>1
  <2>3. \A j \in 1..Len(entry[2]) : p + j \in 1..n
    BY <1>3, <2>1
  <2>4. QED
    BY <1>4, <2>1, <2>2, <2>3 DEF EntryAt
<1>6. ASSUME NEW entry \in A \cup B, NEW p \in 1..m, EntryAt(b, p, entry)
      PROVE  EntryAt(s, n + p, entry)
  <2>1. Len(entry[2]) \in Nat /\ b[p] = Str(entry[1]) /\ p + Len(entry[2]) <= m
        /\ \A j \in 1..Len(entry[2]) : b[p + j] = entry[2][j]
    BY <1>6 DEF EntryAt, m
  <2>2. n + p + Len(entry[2]) <= Len(s)
    <3> DEFINE l == Len(entry[2])
    <3>1. Len(s) = n + m
      BY <1>2 DEF n, m
    <3>2. l \in Nat /\ p + l <= m /\ p \in Int
      BY <2>1
    <3> HIDE DEF l
    <3>3. n + p + l <= Len(s)
      BY <1>3, <3>1, <3>2
    <3>4. QED
      BY <3>3 DEF l
  <2>3. \A j \in 1..Len(entry[2]) : p + j \in 1..m /\ n + (p + j) = n + p + j
    BY <1>3, <2>1
  <2>4. \A j \in 1..Len(entry[2]) : s[n + p + j] = entry[2][j]
    <3>1. TAKE j \in 1..Len(entry[2])
    <3>2. s[n + (p + j)] = b[p + j]
      BY <1>4, <2>3
    <3>3. QED
      BY <2>1, <2>3, <3>2
  <2>5. QED
    BY <1>4, <2>1, <2>2, <2>4 DEF EntryAt
<1>7. ASSUME NEW p \in 1..Len(s), s[p][1] = "str"
      PROVE  \E entry \in A \cup B : EntryAt(s, p, entry)
  <2>1. CASE p <= n
    <3>1. p \in 1..n /\ a[p][1] = "str"
      BY <1>3, <1>4, <1>7, <2>1
    <3>2. PICK entry \in A : EntryAt(a, p, entry)
      BY <3>1 DEF Parsed, n
    <3>3. QED
      BY <1>5, <3>1, <3>2
  <2>2. CASE ~(p <= n)
    <3> DEFINE q == p - n
    <3>1. q \in 1..m /\ n + q = p
      BY <1>2, <1>3, <2>2 DEF n, m
    <3> HIDE DEF q
    <3>2. b[q][1] = "str"
      BY <1>4, <1>7, <3>1
    <3>3. PICK entry \in B : EntryAt(b, q, entry)
      BY <3>1, <3>2 DEF Parsed, m
    <3>4. EntryAt(s, n + q, entry)
      BY <1>6, <3>1, <3>3
    <3>5. QED
      BY <3>1, <3>4
  <2>3. QED
    BY <2>1, <2>2
<1>8. ASSUME NEW entry \in A \cup B
      PROVE  \E p \in 1..Len(s) : EntryAt(s, p, entry)
  <2>1. CASE entry \in A
    <3>1. PICK p \in 1..n : EntryAt(a, p, entry)
      BY <2>1 DEF Parsed, n
    <3>2. QED
      BY <1>4, <1>5, <3>1
  <2>2. CASE entry \in B
    <3>1. PICK p \in 1..m : EntryAt(b, p, entry)
      BY <2>2 DEF Parsed, m
    <3>2. QED
      BY <1>4, <1>6, <3>1
  <2>3. QED
    BY <2>1, <2>2
<1>9. s = <<>> \/ s[1][1] = "str"
  <2>1. CASE n = 0 /\ m = 0
    <3>1. Len(s) = 0
      BY <1>2, <2>1 DEF n, m
    <3>2. QED
      BY <1>2, <3>1
  <2>2. CASE n # 0
    <3>1. 1 \in 1..n /\ a # <<>>
      BY <1>1, <1>3, <2>2 DEF n
    <3>2. a[1][1] = "str"
      BY <3>1 DEF Parsed
    <3>3. QED
      BY <1>4, <3>1, <3>2
  <2>3. CASE n = 0 /\ m # 0
    <3>1. 1 \in 1..m /\ b # <<>> /\ n + 1 = 1
      BY <1>1, <1>3, <2>3 DEF m
    <3>2. b[1][1] = "str" /\ s[n + 1] = b[1]
      BY <1>4, <3>1 DEF Parsed
    <3>3. QED
      BY <3>1, <3>2
  <2>4. QED
    BY <2>1, <2>2, <2>3
<1>10. QED
  BY <1>2, <1>7, <1>8, <1>9 DEF Parsed, s

\* A target without conflict, and one that is tracked or not.
Value == {<<Id(x)>> : x \in Nat} \cup {<<Raw(t), Id(x)>> : t \in BOOLEAN, x \in Nat}

\* A stream names one set of entries.
LEMMA ParsedOnce ==
    ASSUME NEW s, NEW A, NEW B, A \subseteq Name \X Value, B \subseteq Name \X Value,
           Parsed(s, A), Parsed(s, B)
    PROVE  A \subseteq B
<1>1. ASSUME NEW u \in Value, NEW v \in Value,
             \A j \in 1..Len(u) : \A k \in 1..Len(v) : j = k => u[j] = v[k]
      PROVE  u = v
  <2>1. \A x \in Value : \/ \E i \in Nat : x = <<Id(i)>> /\ Len(x) = 1 /\ x[1] = Id(i)
                         \/ \E t \in BOOLEAN, i \in Nat :
                               x = <<Raw(t), Id(i)>> /\ Len(x) = 2 /\ x[1] = Raw(t) /\ x[2] = Id(i)
    BY DEF Value
  <2>2. \A x, y : Id(x) # Raw(y)
    BY Tokens
  <2>3. QED
    BY <1>1, <2>1, <2>2
<1>2. SUFFICES ASSUME NEW e \in A
               PROVE  e \in B
  OBVIOUS
<1>3. PICK p \in 1..Len(s) : EntryAt(s, p, e)
  BY DEF Parsed
<1>4. s[p][1] = "str"
  BY <1>3, Tokens DEF EntryAt
<1>5. PICK f \in B : EntryAt(s, p, f)
  BY <1>4 DEF Parsed
<1>6. e[1] = f[1]
  BY <1>3, <1>5, Tokens DEF EntryAt
<1>7. e[2] = f[2]
  <2>1. e[2] \in Value /\ f[2] \in Value
    OBVIOUS
  <2>2. \A j \in 1..Len(e[2]) : \A k \in 1..Len(f[2]) : j = k => e[2][j] = f[2][k]
    BY <1>3, <1>5 DEF EntryAt
  <2>3. QED
    BY <1>1, <2>1, <2>2
<1>8. e = <<e[1], e[2]>> /\ f = <<f[1], f[2]>>
  OBVIOUS
<1>9. QED
  BY <1>6, <1>7, <1>8

-----------------------------------------------------------------------------
(* Views without conflicts.                                                *)

Plain(x) == [removes |-> <<>>, adds |-> <<x>>]

\* What is fed of a target without conflict.
LEMMA PlainFed ==
    ASSUME NEW x \in Nat \ {Absent}
    PROVE  TargetToProto(Plain(x)) = Plain(x) /\ FeedTarget(Plain(x)) = <<Id(x)>>
<1>1. Present(<<>>) = <<>> /\ Present(<<x>>) = <<x>>
  <2> DEFINE T == Nat \ {Absent}
  <2>1. <<>> \in Seq(T) /\ <<x>> \in Seq(T) /\ Absent \notin T
    OBVIOUS
  <2> HIDE DEF T
  <2>2. QED
    BY <2>1, WithoutNone DEF Present
<1>2. Sorted(<<>>) = <<>>
  BY DEF Sorted
<1>3. Sorted(<<x>>) = <<x>>
  <2> DEFINE At(y) == /\ Cardinality({j \in DOMAIN <<x>> : <<x>>[j] < y}) < 1
                      /\ 1 <= Cardinality({j \in DOMAIN <<x>> : <<x>>[j] <= y})
  <2>1. DOMAIN <<x>> = {1} /\ ToSet(<<x>>) = {x}
    BY DEF ToSet
  <2>2. At(x)
    <3>1. {j \in DOMAIN <<x>> : <<x>>[j] < x} = {} /\ {j \in DOMAIN <<x>> : <<x>>[j] <= x} = {1}
      BY <2>1
    <3>2. Cardinality({}) = 0 /\ Cardinality({1}) = 1
      BY FS_EmptySet, FS_Singleton
    <3>3. QED
      BY <3>1, <3>2
  <2>3. Sorted(<<x>>)[1] = CHOOSE y \in ToSet(<<x>>) : At(y)
    BY <2>1 DEF Sorted
  <2> HIDE DEF At
  <2>4. Sorted(<<x>>)[1] = x
    BY <2>1, <2>2, <2>3
  <2>5. DOMAIN Sorted(<<x>>) = {1} /\ Sorted(<<x>>) = [i \in {1} |-> Sorted(<<x>>)[i]]
    BY <2>1 DEF Sorted
  <2>6. <<x>> = [i \in {1} |-> x]
    OBVIOUS
  <2>7. QED
    BY <2>4, <2>5, <2>6
<1>4. Ids(<<>>) = <<>> /\ Ids(<<x>>) = <<Id(x)>>
  BY DEF Ids
<1>5. Plain(x).removes = <<>> /\ Plain(x).adds = <<x>>
  BY DEF Plain
<1>6. TargetToProto(Plain(x)) = Plain(x)
  BY <1>1, <1>5 DEF TargetToProto, Plain
<1>7. FeedTarget(Plain(x)) = <<>> \o <<Id(x)>>
  BY <1>2, <1>3, <1>4, <1>5 DEF FeedTarget
<1>8. QED
  BY <1>6, <1>7

\* A view on the wire without conflicts.
PlainWire(p) ==
    /\ \E S : IsFiniteSet(S) /\ S \subseteq Nat /\ p.heads \in SetToSeqs(S)
    /\ IsMap(p.wc, Name, Nat)
    /\ IsMap(p.local, Name, {Plain(x) : x \in Nat \ {Absent}})
    /\ IsMap(p.remote, Name, [target : {Plain(x) : x \in Nat \ {Absent}}, tracked : BOOLEAN])

WorkspaceEntries(p) == Entries([w \in DOMAIN p.wc |-> <<Id(p.wc[w])>>])
LocalEntries(p) == Entries([b \in DOMAIN p.local |-> FeedTarget(p.local[b])])
RemoteEntries(p) == Entries([key \in DOMAIN p.remote |-> FeedRemote(p.remote[key])])

AllEntries(p) == (WorkspaceEntries(p) \cup LocalEntries(p)) \cup RemoteEntries(p)

\* What is fed of workspaces and local bookmarks can be parsed.
LEMMA OneTokenParsed ==
    ASSUME NEW fed, IsFiniteSet(DOMAIN fed), DOMAIN fed \subseteq Name,
           \A k \in DOMAIN fed : \E x \in Nat : fed[k] = <<Id(x)>>
    PROVE  Parsed(FeedMap(fed), Entries(fed)) /\ Entries(fed) \subseteq Name \X Value
<1>1. ASSUME NEW k \in DOMAIN fed
      PROVE  /\ fed[k] \in Seq(Token) /\ Len(fed[k]) = 1 /\ fed[k] \in Value
             /\ \A j \in 1..1 : fed[k][j][1] # "str"
  <2>1. PICK x \in Nat : fed[k] = <<Id(x)>>
    OBVIOUS
  <2>2. Id(x) \in Token /\ Id(x)[1] # "str"
    BY Tokens
  <2>3. QED
    BY <2>1, <2>2 DEF Value
<1>2. Parsed(FeedMap(fed), Entries(fed))
  <2>1. 1 \in {1, 2}
    OBVIOUS
  <2>2. QED
    BY <1>1, <2>1, MapParsed, ZenonT(40)
<1>3. QED
  BY <1>1, <1>2 DEF Entries

\* What is fed of remote bookmarks can be parsed.
LEMMA TwoTokensParsed ==
    ASSUME NEW fed, IsFiniteSet(DOMAIN fed), DOMAIN fed \subseteq Name,
           \A k \in DOMAIN fed : \E t \in BOOLEAN : \E x \in Nat : fed[k] = <<Raw(t), Id(x)>>
    PROVE  Parsed(FeedMap(fed), Entries(fed)) /\ Entries(fed) \subseteq Name \X Value
<1>1. ASSUME NEW k \in DOMAIN fed
      PROVE  /\ fed[k] \in Seq(Token) /\ Len(fed[k]) = 2 /\ fed[k] \in Value
             /\ \A j \in 1..2 : fed[k][j][1] # "str"
  <2>1. PICK t \in BOOLEAN : \E x \in Nat : fed[k] = <<Raw(t), Id(x)>>
    OBVIOUS
  <2>2. PICK x \in Nat : fed[k] = <<Raw(t), Id(x)>>
    BY <2>1
  <2>3. Id(x) \in Token /\ Id(x)[1] # "str" /\ Raw(t) \in Token /\ Raw(t)[1] # "str"
    BY Tokens
  <2>4. fed[k] \in Value
    BY <2>2 DEF Value
  <2>5. fed[k] \in Seq(Token) /\ Len(fed[k]) = 2
    BY <2>2, <2>3
  <2>6. fed[k][1] = Raw(t) /\ fed[k][2] = Id(x)
    BY <2>2
  <2>7. QED
    BY <2>3, <2>4, <2>5, <2>6
<1>2. Parsed(FeedMap(fed), Entries(fed))
  <2>1. 2 \in {1, 2}
    OBVIOUS
  <2>2. QED
    BY <1>1, <2>1, MapParsed, ZenonT(40)
<1>3. QED
  BY <1>1, <1>2 DEF Entries

\* The heads, and then the entries.
LEMMA ViewStream ==
    ASSUME NEW p, PlainWire(p)
    PROVE  \E rest :
              /\ HashView(p) = Ids(Sorted(p.heads)) \o rest
              /\ Parsed(rest, AllEntries(p)) /\ AllEntries(p) \subseteq Name \X Value
              /\ Ids(Sorted(p.heads)) \in Seq(Token)
              /\ OfKind(Ids(Sorted(p.heads)), "id")
<1> DEFINE wcs == [w \in DOMAIN p.wc |-> <<Id(p.wc[w])>>]
           locals == [b \in DOMAIN p.local |-> FeedTarget(p.local[b])]
           remotes == [key \in DOMAIN p.remote |-> FeedRemote(p.remote[key])]
           A == Ids(Sorted(p.heads))
           B == FeedMap(wcs)
           C == FeedMap(locals)
           D == FeedMap(remotes)
<1>1. Parsed(B, WorkspaceEntries(p)) /\ WorkspaceEntries(p) \subseteq Name \X Value
  <2>1. IsFiniteSet(DOMAIN p.wc) /\ DOMAIN p.wc \subseteq Name
        /\ \A w \in DOMAIN p.wc : p.wc[w] \in Nat
    BY DEF PlainWire, IsMap
  <2>2. DOMAIN wcs = DOMAIN p.wc /\ \A w \in DOMAIN wcs : wcs[w] = <<Id(p.wc[w])>>
    OBVIOUS
  <2> HIDE DEF wcs
  <2>3. Parsed(B, Entries(wcs)) /\ Entries(wcs) \subseteq Name \X Value
    BY <2>1, <2>2, OneTokenParsed
  <2>4. QED
    BY <2>3 DEF WorkspaceEntries, wcs
<1>2. Parsed(C, LocalEntries(p)) /\ LocalEntries(p) \subseteq Name \X Value
  <2>1. IsFiniteSet(DOMAIN p.local) /\ DOMAIN p.local \subseteq Name
        /\ \A b \in DOMAIN p.local : \E x \in Nat \ {Absent} : p.local[b] = Plain(x)
    BY DEF PlainWire, IsMap
  <2>2. DOMAIN locals = DOMAIN p.local /\ \A b \in DOMAIN locals : locals[b] = FeedTarget(p.local[b])
    OBVIOUS
  <2> HIDE DEF locals
  <2>3. \A b \in DOMAIN locals : \E x \in Nat : locals[b] = <<Id(x)>>
    BY <2>1, <2>2, PlainFed
  <2>4. Parsed(C, Entries(locals)) /\ Entries(locals) \subseteq Name \X Value
    BY <2>1, <2>2, <2>3, OneTokenParsed
  <2>5. QED
    BY <2>4 DEF LocalEntries, locals
<1>3. Parsed(D, RemoteEntries(p)) /\ RemoteEntries(p) \subseteq Name \X Value
  <2>1. IsFiniteSet(DOMAIN p.remote) /\ DOMAIN p.remote \subseteq Name
        /\ \A key \in DOMAIN p.remote :
              p.remote[key].tracked \in BOOLEAN
              /\ \E x \in Nat \ {Absent} : p.remote[key].target = Plain(x)
    BY DEF PlainWire, IsMap
  <2>2. DOMAIN remotes = DOMAIN p.remote
        /\ \A key \in DOMAIN remotes : remotes[key] = FeedRemote(p.remote[key])
    OBVIOUS
  <2> HIDE DEF remotes
  <2>3. ASSUME NEW key \in DOMAIN remotes
        PROVE  \E t \in BOOLEAN : \E x \in Nat : remotes[key] = <<Raw(t), Id(x)>>
    <3>1. PICK x \in Nat \ {Absent} : p.remote[key].target = Plain(x)
      BY <2>1, <2>2
    <3>2. remotes[key] = <<Raw(p.remote[key].tracked)>> \o <<Id(x)>>
      BY <2>2, <3>1, PlainFed DEF FeedRemote
    <3>4. remotes[key] = <<Raw(p.remote[key].tracked), Id(x)>>
      BY <3>2, OneAndOne
    <3>5. QED
      BY <2>1, <2>2, <3>4
  <2>4. Parsed(D, Entries(remotes)) /\ Entries(remotes) \subseteq Name \X Value
    BY <2>1, <2>2, <2>3, TwoTokensParsed
  <2>5. QED
    BY <2>4 DEF RemoteEntries, remotes
<1>4. A \in Seq(Token) /\ OfKind(A, "id")
  <2>1. PICK S : IsFiniteSet(S) /\ S \subseteq Nat /\ p.heads \in SetToSeqs(S)
    BY DEF PlainWire
  <2> DEFINE s == Sorted(p.heads)
             n == Cardinality(S)
  <2>2. DOMAIN s = 1..n /\ ToSet(s) = S /\ n \in Nat
    BY <2>1, SortedListing, FS_CardinalityType
  <2>3. \A i \in 1..n : s[i] \in Nat
    BY <2>1, <2>2 DEF ToSet
  <2>4. A = [i \in 1..n |-> Id(s[i])]
    BY <2>2 DEF Ids
  <2> HIDE DEF s, n, A
  <2>5. \A i \in 1..n : Id(s[i]) \in Token /\ Id(s[i])[1] = "id"
    BY <2>3, Tokens
  <2>6. QED
    BY <2>2, <2>4, <2>5 DEF OfKind
<1>5. HashView(p) = ((A \o B) \o C) \o D
  BY DEF HashView
<1> HIDE DEF A, B, C, D
<1>6. B \in Seq(Token) /\ C \in Seq(Token) /\ D \in Seq(Token)
  BY <1>1, <1>2, <1>3 DEF Parsed
<1>7. HashView(p) = A \o ((B \o C) \o D)
  <2>1. B \o C \in Seq(Token) /\ A \o B \in Seq(Token)
    BY <1>4, <1>6, ConcatProperties
  <2>2. (A \o B) \o C = A \o (B \o C)
    BY <1>4, <1>6, ConcatAssociative
  <2>3. (A \o (B \o C)) \o D = A \o ((B \o C) \o D)
    <3> DEFINE BC == B \o C
    <3>1. BC \in Seq(Token)
      BY <2>1
    <3> HIDE DEF BC
    <3>2. (A \o BC) \o D = A \o (BC \o D)
      BY <1>4, <1>6, <3>1, ConcatAssociative, SMTT(30)
    <3>3. QED
      BY <3>2 DEF BC
  <2>4. QED
    BY <1>5, <2>2, <2>3
<1>8. \A entry \in Name \X Value : Len(entry[2]) \in Nat
  <2>1. \A v \in Value : Len(v) \in Nat
    BY DEF Value
  <2>2. QED
    BY <2>1
<1>9. Parsed(B \o C, WorkspaceEntries(p) \cup LocalEntries(p))
  BY <1>1, <1>2, <1>8, ParsedJoin
<1>10. Parsed((B \o C) \o D, AllEntries(p))
  BY <1>1, <1>2, <1>3, <1>8, <1>9, ParsedJoin DEF AllEntries
<1>11. AllEntries(p) \subseteq Name \X Value
  BY <1>1, <1>2, <1>3 DEF AllEntries
<1>12. QED
  BY <1>4, <1>7, <1>10, <1>11 DEF A

\* What a view without conflicts is fed as.
LEMMA EntryForms ==
    ASSUME NEW p, PlainWire(p)
    PROVE  /\ \A w \in DOMAIN p.wc : <<w, <<Id(p.wc[w])>>>> \in AllEntries(p)
           /\ \A b \in DOMAIN p.local : \E x \in Nat \ {Absent} :
                 p.local[b] = Plain(x) /\ <<b, <<Id(x)>>>> \in AllEntries(p)
           /\ \A key \in DOMAIN p.remote : \E x \in Nat \ {Absent} :
                 /\ p.remote[key].target = Plain(x)
                 /\ <<key, <<Raw(p.remote[key].tracked), Id(x)>>>> \in AllEntries(p)
           /\ \A e \in AllEntries(p) :
                 \/ \E w \in DOMAIN p.wc : e = <<w, <<Id(p.wc[w])>>>>
                 \/ \E b \in DOMAIN p.local : \E x \in Nat \ {Absent} :
                       p.local[b] = Plain(x) /\ e = <<b, <<Id(x)>>>>
                 \/ \E key \in DOMAIN p.remote : \E x \in Nat \ {Absent} :
                       /\ p.remote[key].target = Plain(x)
                       /\ e = <<key, <<Raw(p.remote[key].tracked), Id(x)>>>>
<1>1. \A e : e \in WorkspaceEntries(p) <=> \E w \in DOMAIN p.wc : e = <<w, <<Id(p.wc[w])>>>>
  BY DEF WorkspaceEntries, Entries
<1>2. \A e : e \in LocalEntries(p) <=> \E b \in DOMAIN p.local : e = <<b, FeedTarget(p.local[b])>>
  BY DEF LocalEntries, Entries
<1>3. \A e : e \in RemoteEntries(p) <=>
          \E key \in DOMAIN p.remote : e = <<key, FeedRemote(p.remote[key])>>
  BY DEF RemoteEntries, Entries
<1>4. \A b \in DOMAIN p.local : \E x \in Nat \ {Absent} :
          p.local[b] = Plain(x) /\ FeedTarget(p.local[b]) = <<Id(x)>>
  <2>1. \A b \in DOMAIN p.local : \E x \in Nat \ {Absent} : p.local[b] = Plain(x)
    BY DEF PlainWire, IsMap
  <2>2. QED
    BY <2>1, PlainFed
<1>5. \A key \in DOMAIN p.remote : \E x \in Nat \ {Absent} :
          /\ p.remote[key].target = Plain(x)
          /\ FeedRemote(p.remote[key]) = <<Raw(p.remote[key].tracked), Id(x)>>
  <2>1. TAKE key \in DOMAIN p.remote
  <2>2. PICK x \in Nat \ {Absent} : p.remote[key].target = Plain(x)
    BY DEF PlainWire, IsMap
  <2>3. FeedRemote(p.remote[key]) = <<Raw(p.remote[key].tracked)>> \o <<Id(x)>>
    BY <2>2, PlainFed DEF FeedRemote
  <2>4. QED
    BY <2>2, <2>3, OneAndOne
<1>6. \A e : e \in AllEntries(p) <=>
          e \in WorkspaceEntries(p) \/ e \in LocalEntries(p) \/ e \in RemoteEntries(p)
  BY DEF AllEntries
<1>7. \A w \in DOMAIN p.wc : <<w, <<Id(p.wc[w])>>>> \in AllEntries(p)
  BY <1>1, <1>6
<1>8. \A b \in DOMAIN p.local : \E x \in Nat \ {Absent} :
          p.local[b] = Plain(x) /\ <<b, <<Id(x)>>>> \in AllEntries(p)
  <2>1. TAKE b \in DOMAIN p.local
  <2>2. PICK x \in Nat \ {Absent} : p.local[b] = Plain(x) /\ FeedTarget(p.local[b]) = <<Id(x)>>
    BY <1>4
  <2>3. <<b, FeedTarget(p.local[b])>> \in AllEntries(p)
    BY <1>2, <1>6
  <2>4. QED
    BY <2>2, <2>3
<1>9. \A key \in DOMAIN p.remote : \E x \in Nat \ {Absent} :
          /\ p.remote[key].target = Plain(x)
          /\ <<key, <<Raw(p.remote[key].tracked), Id(x)>>>> \in AllEntries(p)
  <2>1. TAKE key \in DOMAIN p.remote
  <2>2. PICK x \in Nat \ {Absent} :
            /\ p.remote[key].target = Plain(x)
            /\ FeedRemote(p.remote[key]) = <<Raw(p.remote[key].tracked), Id(x)>>
    BY <1>5
  <2>3. <<key, FeedRemote(p.remote[key])>> \in AllEntries(p)
    BY <1>3, <1>6
  <2>4. QED
    BY <2>2, <2>3
<1>10. ASSUME NEW e \in AllEntries(p)
       PROVE  \/ \E w \in DOMAIN p.wc : e = <<w, <<Id(p.wc[w])>>>>
              \/ \E b \in DOMAIN p.local : \E x \in Nat \ {Absent} :
                    p.local[b] = Plain(x) /\ e = <<b, <<Id(x)>>>>
              \/ \E key \in DOMAIN p.remote : \E x \in Nat \ {Absent} :
                    /\ p.remote[key].target = Plain(x)
                    /\ e = <<key, <<Raw(p.remote[key].tracked), Id(x)>>>>
  <2>1. CASE e \in WorkspaceEntries(p)
    BY <1>1, <2>1
  <2>2. CASE e \in LocalEntries(p)
    <3>1. PICK b \in DOMAIN p.local : e = <<b, FeedTarget(p.local[b])>>
      BY <1>2, <2>2
    <3>2. PICK x \in Nat \ {Absent} : p.local[b] = Plain(x) /\ FeedTarget(p.local[b]) = <<Id(x)>>
      BY <1>4
    <3>3. QED
      BY <3>1, <3>2
  <2>3. CASE e \in RemoteEntries(p)
    <3>1. PICK key \in DOMAIN p.remote : e = <<key, FeedRemote(p.remote[key])>>
      BY <1>3, <2>3
    <3>2. PICK x \in Nat \ {Absent} :
              /\ p.remote[key].target = Plain(x)
              /\ FeedRemote(p.remote[key]) = <<Raw(p.remote[key].tracked), Id(x)>>
      BY <1>5
    <3>3. QED
      BY <3>1, <3>2
  <2>4. QED
    BY <1>6, <2>1, <2>2, <2>3
<1>11. QED
  BY <1>7, <1>8, <1>9, <1>10

\* One view has no entry that the other has not.
LEMMA EntriesAgree ==
    ASSUME NEW p, NEW q, PlainWire(p), PlainWire(q), AllEntries(p) \subseteq AllEntries(q),
           DOMAIN p.wc \cap DOMAIN q.local = {}, DOMAIN q.wc \cap DOMAIN p.local = {}
    PROVE  /\ \A w \in DOMAIN p.wc : w \in DOMAIN q.wc /\ q.wc[w] = p.wc[w]
           /\ \A b \in DOMAIN p.local : b \in DOMAIN q.local /\ q.local[b] = p.local[b]
           /\ \A key \in DOMAIN p.remote :
                 key \in DOMAIN q.remote /\ q.remote[key] = p.remote[key]
<1>1. \A x, y : <<Id(x)>> = <<Id(y)>> => x = y
  <2>1. \A a, b : <<a>> = <<b>> => a = b
    OBVIOUS
  <2>2. QED
    BY <2>1, Tokens
<1>2. \A t, u, x, y : <<Raw(t), Id(x)>> = <<Raw(u), Id(y)>> => t = u /\ x = y
  <2>1. \A a, b, c, d : <<a, b>> = <<c, d>> => a = c /\ b = d
    OBVIOUS
  <2>2. QED
    BY <2>1, Tokens
<1>3. \A t, x, y : <<Id(x)>> # <<Raw(t), Id(y)>>
  OBVIOUS
<1>4. \A a, b, c, d : <<a, b>> = <<c, d>> => a = c /\ b = d
  OBVIOUS
<1>5. ASSUME NEW e \in AllEntries(p)
      PROVE  \/ \E w \in DOMAIN q.wc : e = <<w, <<Id(q.wc[w])>>>>
             \/ \E b \in DOMAIN q.local : \E x \in Nat \ {Absent} :
                   q.local[b] = Plain(x) /\ e = <<b, <<Id(x)>>>>
             \/ \E key \in DOMAIN q.remote : \E x \in Nat \ {Absent} :
                   /\ q.remote[key].target = Plain(x)
                   /\ e = <<key, <<Raw(q.remote[key].tracked), Id(x)>>>>
  <2>1. e \in AllEntries(q)
    OBVIOUS
  <2>2. QED
    BY <2>1, EntryForms
<1>6. ASSUME NEW w \in DOMAIN p.wc
      PROVE  w \in DOMAIN q.wc /\ q.wc[w] = p.wc[w]
  <2>1. <<w, <<Id(p.wc[w])>>>> \in AllEntries(p) /\ w \notin DOMAIN q.local
    BY EntryForms
  <2>2. PICK u \in DOMAIN q.wc : <<w, <<Id(p.wc[w])>>>> = <<u, <<Id(q.wc[u])>>>>
    BY <1>3, <1>4, <1>5, <2>1
  <2>3. QED
    BY <1>1, <1>4, <2>2
<1>7. ASSUME NEW b \in DOMAIN p.local
      PROVE  b \in DOMAIN q.local /\ q.local[b] = p.local[b]
  <2>1. PICK x \in Nat \ {Absent} :
            p.local[b] = Plain(x) /\ <<b, <<Id(x)>>>> \in AllEntries(p)
    BY EntryForms
  <2>2. b \notin DOMAIN q.wc
    OBVIOUS
  <2>3. PICK u \in DOMAIN q.local : \E y \in Nat \ {Absent} :
            q.local[u] = Plain(y) /\ <<b, <<Id(x)>>>> = <<u, <<Id(y)>>>>
    BY <1>3, <1>4, <1>5, <2>1, <2>2
  <2>4. PICK y \in Nat \ {Absent} : q.local[u] = Plain(y) /\ <<b, <<Id(x)>>>> = <<u, <<Id(y)>>>>
    BY <2>3
  <2>5. b = u /\ x = y
    BY <1>1, <1>4, <2>4
  <2>6. QED
    BY <2>1, <2>4, <2>5
<1>8. ASSUME NEW key \in DOMAIN p.remote
      PROVE  key \in DOMAIN q.remote /\ q.remote[key] = p.remote[key]
  <2>1. PICK x \in Nat \ {Absent} :
            /\ p.remote[key].target = Plain(x)
            /\ <<key, <<Raw(p.remote[key].tracked), Id(x)>>>> \in AllEntries(p)
    BY EntryForms
  <2>2. PICK u \in DOMAIN q.remote : \E y \in Nat \ {Absent} :
            /\ q.remote[u].target = Plain(y)
            /\ <<key, <<Raw(p.remote[key].tracked), Id(x)>>>> =
                   <<u, <<Raw(q.remote[u].tracked), Id(y)>>>>
    BY <1>3, <1>4, <1>5, <2>1
  <2>3. PICK y \in Nat \ {Absent} :
            /\ q.remote[u].target = Plain(y)
            /\ <<key, <<Raw(p.remote[key].tracked), Id(x)>>>> =
                   <<u, <<Raw(q.remote[u].tracked), Id(y)>>>>
    BY <2>2
  <2>4. key = u /\ x = y /\ p.remote[key].tracked = q.remote[u].tracked
    BY <1>2, <1>4, <2>3
  <2>5. q.remote[key].target = p.remote[key].target
        /\ q.remote[key].tracked = p.remote[key].tracked
    BY <2>1, <2>3, <2>4
  <2>6. /\ p.remote[key] \in [target : {Plain(z) : z \in Nat \ {Absent}}, tracked : BOOLEAN]
        /\ q.remote[key] \in [target : {Plain(z) : z \in Nat \ {Absent}}, tracked : BOOLEAN]
    BY <2>4 DEF PlainWire, IsMap
  <2>7. QED
    BY <2>4, <2>5, <2>6
<1>9. QED
  BY <1>6, <1>7, <1>8

\* Two views without conflicts that get one id are the same on the wire.
LEMMA SameWire ==
    ASSUME NEW p, NEW q, PlainWire(p), PlainWire(q), HashView(p) = HashView(q),
           DOMAIN p.wc \cap DOMAIN q.local = {}, DOMAIN q.wc \cap DOMAIN p.local = {}
    PROVE  /\ ToSet(p.heads) = ToSet(q.heads)
           /\ p.wc = q.wc /\ p.local = q.local /\ p.remote = q.remote
<1> DEFINE A == Ids(Sorted(p.heads))
           B == Ids(Sorted(q.heads))
<1>1. PICK x : /\ HashView(p) = A \o x
               /\ Parsed(x, AllEntries(p)) /\ AllEntries(p) \subseteq Name \X Value
               /\ A \in Seq(Token) /\ OfKind(A, "id")
  BY ViewStream
<1>2. PICK y : /\ HashView(q) = B \o y
               /\ Parsed(y, AllEntries(q)) /\ AllEntries(q) \subseteq Name \X Value
               /\ B \in Seq(Token) /\ OfKind(B, "id")
  BY ViewStream
<1> HIDE DEF A, B
<1>3. A = B /\ x = y
  <2>1. x \in Seq(Token) /\ NotFrom(x, "id")
    BY <1>1 DEF Parsed, NotFrom
  <2>2. y \in Seq(Token) /\ NotFrom(y, "id")
    BY <1>2 DEF Parsed, NotFrom
  <2>3. A \o x = B \o y
    BY <1>1, <1>2
  <2>4. QED
    BY <1>1, <1>2, <2>1, <2>2, <2>3, CutAtKind
<1>4. AllEntries(p) = AllEntries(q)
  <2>1. AllEntries(p) \subseteq AllEntries(q)
    BY <1>1, <1>2, <1>3, ParsedOnce
  <2>2. AllEntries(q) \subseteq AllEntries(p)
    BY <1>1, <1>2, <1>3, ParsedOnce
  <2>3. QED
    BY <2>1, <2>2
<1>5. /\ DOMAIN p.wc = DOMAIN q.wc /\ \A w \in DOMAIN p.wc : q.wc[w] = p.wc[w]
      /\ DOMAIN p.local = DOMAIN q.local /\ \A b \in DOMAIN p.local : q.local[b] = p.local[b]
      /\ DOMAIN p.remote = DOMAIN q.remote
      /\ \A key \in DOMAIN p.remote : q.remote[key] = p.remote[key]
  <2>1. AllEntries(p) \subseteq AllEntries(q) /\ AllEntries(q) \subseteq AllEntries(p)
    BY <1>4
  <2>2. /\ \A w \in DOMAIN p.wc : w \in DOMAIN q.wc /\ q.wc[w] = p.wc[w]
        /\ \A b \in DOMAIN p.local : b \in DOMAIN q.local /\ q.local[b] = p.local[b]
        /\ \A key \in DOMAIN p.remote :
              key \in DOMAIN q.remote /\ q.remote[key] = p.remote[key]
    BY <2>1, EntriesAgree
  <2>3. /\ \A w \in DOMAIN q.wc : w \in DOMAIN p.wc
        /\ \A b \in DOMAIN q.local : b \in DOMAIN p.local
        /\ \A key \in DOMAIN q.remote : key \in DOMAIN p.remote
    BY <2>1, EntriesAgree
  <2>4. QED
    BY <2>2, <2>3
<1>6. /\ p.wc = q.wc /\ p.local = q.local /\ p.remote = q.remote
  <2> DEFINE V == {Plain(z) : z \in Nat \ {Absent}}
             R == [target : V, tracked : BOOLEAN]
  <2>1. /\ p.wc \in [DOMAIN p.wc -> Nat] /\ q.wc \in [DOMAIN q.wc -> Nat]
        /\ p.local \in [DOMAIN p.local -> V] /\ q.local \in [DOMAIN q.local -> V]
        /\ p.remote \in [DOMAIN p.remote -> R] /\ q.remote \in [DOMAIN q.remote -> R]
    BY DEF PlainWire, IsMap
  <2> HIDE DEF V, R
  <2>2. p.wc = q.wc
    BY <1>5, <2>1
  <2>3. p.local = q.local
    BY <1>5, <2>1
  <2>4. p.remote = q.remote
    BY <1>5, <2>1
  <2>5. QED
    BY <2>2, <2>3, <2>4
<1>7. \A r : PlainWire(r) => \A z : z \in ToSet(r.heads) <=>
                \E i \in DOMAIN Ids(Sorted(r.heads)) : Ids(Sorted(r.heads))[i] = Id(z)
  <2>1. TAKE r
  <2>2. HAVE PlainWire(r)
  <2>3. PICK S : IsFiniteSet(S) /\ S \subseteq Nat /\ r.heads \in SetToSeqs(S)
    BY <2>2 DEF PlainWire
  <2> DEFINE s == Sorted(r.heads)
  <2>4. ToSet(r.heads) = S /\ ToSet(s) = S
    BY <2>3, Listing, SortedListing
  <2>5. DOMAIN Ids(s) = DOMAIN s /\ \A i \in DOMAIN s : Ids(s)[i] = Id(s[i])
    BY DEF Ids
  <2> HIDE DEF s
  <2>6. \A z : z \in ToSet(s) <=> \E i \in DOMAIN s : s[i] = z
    BY DEF ToSet
  <2>7. \A z : z \in ToSet(s) <=> \E i \in DOMAIN Ids(s) : Ids(s)[i] = Id(z)
    <3>1. \A i, j : Id(i) = Id(j) <=> i = j
      BY Tokens
    <3>2. QED
      BY <2>5, <2>6, <3>1
  <2>8. QED
    BY <2>4, <2>7 DEF s
<1>8. ToSet(p.heads) = ToSet(q.heads)
  BY <1>3, <1>7 DEF A, B
<1>9. QED
  BY <1>6, <1>8

\* The hypotheses under which an id names one view: no bookmark is conflicted or
\* absent, and no workspace has the name of a local bookmark.
NoConflicts ==
    \A v \in View :
        /\ \A b \in DOMAIN v.local : \E x \in Nat \ {Absent} : v.local[b] = Plain(x)
        /\ \A rb \in DOMAIN v.remote : \E x \in Nat \ {Absent} : v.remote[rb].target = Plain(x)
WorkspacesApart == \A v, u \in View : DOMAIN v.wc \cap DOMAIN u.local = {}

\* Views without conflicts go over the wire without conflicts.
LEMMA PlainOnWire ==
    ASSUME NoConflicts, NEW v \in View, NEW order \in SetToSeqs(v.heads)
    PROVE  PlainWire(ViewToProto(v, order))
<1> DEFINE p == ViewToProto(v, order)
           V == {Plain(x) : x \in Nat \ {Absent}}
           D == DOMAIN v.remote
           K == DOMAIN p.remote
<1>1. IsView(v)
  BY ObjectsAssumption
<1>2. IsFiniteSet(v.heads) /\ v.heads \subseteq Nat /\ p.heads \in SetToSeqs(v.heads)
  BY <1>1 DEF IsView, ViewToProto
<1>3. IsMap(p.wc, Name, Nat)
  BY <1>1 DEF IsView, ViewToProto
<1>4. IsMap(p.local, Name, V)
  <2>1. p.local = [b \in DOMAIN v.local |-> TargetToProto(v.local[b])]
    BY DEF ViewToProto
  <2>2. IsFiniteSet(DOMAIN v.local) /\ DOMAIN v.local \subseteq Name
    BY <1>1 DEF IsView, IsMap
  <2>3. \A b \in DOMAIN v.local : TargetToProto(v.local[b]) \in V
    BY PlainFed DEF NoConflicts
  <2> HIDE DEF p, V
  <2>4. QED
    BY <2>1, <2>2, <2>3 DEF IsMap
<1>5. /\ IsFiniteSet(D)
      /\ \A rb \in D : rb[1] \in Name /\ rb[2] \in Name /\ v.remote[rb].tracked \in BOOLEAN
  BY <1>1 DEF IsView, IsMap
<1>6. IsFiniteSet(K) /\ K \subseteq Name
  <2>1. K = {RemoteKey(rb[1], rb[2]) : rb \in D}
    BY WireRemote
  <2> HIDE DEF K, D
  <2>2. K \subseteq Name
    <3>1. \A rb \in D : RemoteKey(rb[1], rb[2]) \in Name
      BY <1>5, KeyParts
    <3>2. QED
      BY <2>1, <3>1
  <2> DEFINE f == [rb \in D |-> RemoteKey(rb[1], rb[2])]
  <2>3. f \in Surjection(D, K)
    BY <2>1 DEF Surjection
  <2> HIDE DEF f
  <2>4. QED
    BY <1>5, <2>2, <2>3, FS_Surjection
<1>7. IsMap(p.remote, Name, [target : V, tracked : BOOLEAN])
  <2>1. p.remote = [key \in K |-> p.remote[key]]
    BY WireRemote
  <2>2. ASSUME NEW key \in K
        PROVE  p.remote[key] \in [target : V, tracked : BOOLEAN]
    <3>1. PICK rb \in D : p.remote[key] = [target |-> TargetToProto(v.remote[rb].target),
                                           tracked |-> v.remote[rb].tracked]
      <4>1. \A k \in DOMAIN ViewToProto(v, order).remote :
                \E rb \in DOMAIN v.remote :
                   /\ RemoteKey(rb[1], rb[2]) = k
                   /\ ViewToProto(v, order).remote[k] =
                         [target |-> TargetToProto(v.remote[rb].target),
                          tracked |-> v.remote[rb].tracked]
        BY WireRemote, ZenonT(80)
      <4>2. QED
        BY <4>1, ZenonT(40)
    <3>2. TargetToProto(v.remote[rb].target) \in V
      BY PlainFed DEF NoConflicts
    <3> HIDE DEF p, V
    <3>3. QED
      BY <1>5, <3>1, <3>2
  <2> HIDE DEF p, V
  <2> DEFINE F(key) == p.remote[key]
  <2>3. p.remote = [key \in K |-> F(key)]
    BY <2>1
  <2>4. \A key \in K : F(key) \in [target : V, tracked : BOOLEAN]
    BY <2>2
  <2> HIDE DEF F
  <2>5. p.remote \in [K -> [target : V, tracked : BOOLEAN]]
    BY <2>3, <2>4
  <2>6. QED
    BY <1>6, <2>5 DEF IsMap
<1>8. QED
  BY <1>2, <1>3, <1>4, <1>7 DEF PlainWire

\* Two views that get one id are one view.
LEMMA OneViewOfId ==
    ASSUME RemotesWithoutAt, NoConflicts, WorkspacesApart,
           NEW v \in View, NEW u \in View,
           NEW order \in SetToSeqs(v.heads), NEW order2 \in SetToSeqs(u.heads),
           HashView(ViewToProto(v, order)) = HashView(ViewToProto(u, order2))
    PROVE  Carried(v) = Carried(u)
<1> DEFINE p == ViewToProto(v, order)
           q == ViewToProto(u, order2)
<1>1. PlainWire(p) /\ PlainWire(q) /\ HashView(p) = HashView(q)
  BY PlainOnWire
<1>2. DOMAIN p.wc \cap DOMAIN q.local = {} /\ DOMAIN q.wc \cap DOMAIN p.local = {}
  <2>1. DOMAIN p.wc = DOMAIN v.wc /\ DOMAIN p.local = DOMAIN v.local
        /\ DOMAIN q.wc = DOMAIN u.wc /\ DOMAIN q.local = DOMAIN u.local
    BY DEF ViewToProto
  <2>2. QED
    BY <2>1 DEF WorkspacesApart
<1>3. Carried(ViewFromProto(p)) = Carried(v) /\ Carried(ViewFromProto(q)) = Carried(u)
  BY ViewKept
<1> HIDE DEF p, q
<1>4. ToSet(p.heads) = ToSet(q.heads) /\ p.wc = q.wc /\ p.local = q.local /\ p.remote = q.remote
  BY <1>1, <1>2, SameWire
<1>5. ViewFromProto(p) = ViewFromProto(q)
  BY <1>4 DEF ViewFromProto
<1>6. QED
  BY <1>3, <1>5

-----------------------------------------------------------------------------
(* What is fed of an operation.                                            *)

\* A list of ids is fed as a list of tokens of one kind.
LEMMA IdsFed ==
    ASSUME NEW l \in Seq(Nat)
    PROVE  Ids(l) \in Seq(Token) /\ Len(Ids(l)) = Len(l) /\ OfKind(Ids(l), "id")
           /\ \A i \in 1..Len(l) : Ids(l)[i] = Id(l[i])
<1>1. Len(l) \in Nat /\ \A i \in 1..Len(l) : l[i] \in Nat
  OBVIOUS
<1>2. Ids(l) = [i \in 1..Len(l) |-> Id(l[i])]
  BY DEF Ids
<1>3. \A i \in 1..Len(l) : Id(l[i]) \in Token /\ Id(l[i])[1] = "id"
  BY <1>1, Tokens
<1>4. QED
  BY <1>1, <1>2, <1>3 DEF OfKind

\* An id with a list of ids is fed as tokens of one kind.
LEMMA IdAndIdsFed ==
    ASSUME NEW c \in Nat, NEW l \in Seq(Nat)
    PROVE  /\ <<Id(c)>> \o Ids(l) \in Seq(Token) /\ OfKind(<<Id(c)>> \o Ids(l), "id")
           /\ <<Id(c)>> \o Ids(l) # <<>>
<1> DEFINE a == <<Id(c)>>
           b == Ids(l)
<1>1. a \in Seq(Token) /\ Len(a) = 1 /\ a[1][1] = "id"
  <2>1. Id(c) \in Token /\ Id(c)[1] = "id"
    BY Tokens
  <2>2. QED
    BY <2>1
<1>2. b \in Seq(Token) /\ OfKind(b, "id") /\ Len(b) \in Nat
  BY IdsFed
<1> HIDE DEF a, b
<1>3. /\ a \o b \in Seq(Token) /\ Len(a \o b) = Len(a) + Len(b)
      /\ \A i \in 1..(Len(a) + Len(b)) :
            (a \o b)[i] = IF i <= Len(a) THEN a[i] ELSE b[i - Len(a)]
  BY <1>1, <1>2, ConcatProperties, ZenonT(40)
<1>4. OfKind(a \o b, "id")
  <2>1. ASSUME NEW i \in 1..(Len(a) + Len(b))
        PROVE  (a \o b)[i][1] = "id"
    <3>1. CASE i = 1
      BY <1>1, <1>3, <3>1
    <3>2. CASE i # 1
      <4>1. i - Len(a) \in 1..Len(b) /\ ~(i <= Len(a))
        BY <1>1, <1>2, <3>2
      <4>2. QED
        BY <1>2, <1>3, <4>1 DEF OfKind
    <3>3. QED
      BY <3>1, <3>2
  <2>2. QED
    BY <1>3, <2>1 DEF OfKind
<1>5. a \o b # <<>>
  BY <1>1, <1>2, <1>3
<1>6. QED
  BY <1>3, <1>4, <1>5 DEF a, b

\* It can be read back.
LEMMA IdAndIdsRead ==
    ASSUME NEW c \in Nat, NEW d \in Nat, NEW l \in Seq(Nat), NEW k \in Seq(Nat),
           <<Id(c)>> \o Ids(l) = <<Id(d)>> \o Ids(k)
    PROVE  c = d /\ l = k
<1> DEFINE a == <<Id(c)>>
           b == <<Id(d)>>
           x == Ids(l)
           y == Ids(k)
<1>1. a \in Seq(Token) /\ b \in Seq(Token) /\ Len(a) = 1 /\ Len(b) = 1
      /\ a[1] = Id(c) /\ b[1] = Id(d)
  <2>1. Id(c) \in Token /\ Id(d) \in Token
    BY Tokens
  <2>2. QED
    BY <2>1
<1>2. x \in Seq(Token) /\ y \in Seq(Token) /\ Len(x) = Len(l) /\ Len(y) = Len(k)
      /\ (\A i \in 1..Len(l) : x[i] = Id(l[i])) /\ (\A i \in 1..Len(k) : y[i] = Id(k[i]))
  BY IdsFed
<1>3. a \o x = b \o y
  OBVIOUS
<1> HIDE DEF a, b, x, y
<1>4. a = b /\ x = y
  <2>1. \A c1, d1, x1, y1 \in Seq(Token) :
            c1 \o x1 = d1 \o y1 /\ Len(c1) = Len(d1) => c1 = d1 /\ x1 = y1
    BY SameCut, ZenonT(40)
  <2>2. Len(a) = Len(b) /\ a \in Seq(Token) /\ b \in Seq(Token)
    BY <1>1
  <2>3. x \in Seq(Token) /\ y \in Seq(Token)
    BY <1>2
  <2>4. QED
    BY <1>3, <2>1, <2>2, <2>3
<1>5. \A i, j : Id(i) = Id(j) <=> i = j
  BY Tokens
<1>6. c = d
  BY <1>1, <1>4, <1>5
<1>7. Len(l) = Len(k) /\ \A i \in 1..Len(l) : l[i] = k[i]
  BY <1>2, <1>4, <1>5
<1>8. l = k
  BY <1>7, SeqEqual
<1>9. QED
  BY <1>6, <1>8

\* What is fed of an operation, part by part.
FedWorkspace(p) == [i \in DOMAIN p.workspace |-> Str(p.workspace[i])]
FedAttributes(p) == [a \in DOMAIN p.attributes |-> <<Str(p.attributes[a])>>]
FedTimes(p) == <<Raw(p.start), Raw(p.end), Str(p.text), Raw(p.snapshot)>>
FedRewrites(p) ==
    FlattenSeq([i \in DOMAIN p.predecessors |-> FeedPredecessors(p.predecessors[i])])

\* Ids of two lists in a row.
LEMMA IdsJoin ==
    ASSUME NEW a \in Seq(Nat), NEW b \in Seq(Nat)
    PROVE  Ids(a \o b) = Ids(a) \o Ids(b)
<1> DEFINE ab == a \o b
           x == Ids(a)
           y == Ids(b)
           xy == x \o y
           z == Ids(ab)
<1>1. /\ ab \in Seq(Nat) /\ Len(ab) = Len(a) + Len(b)
      /\ \A i \in 1..(Len(a) + Len(b)) :
            ab[i] = IF i <= Len(a) THEN a[i] ELSE b[i - Len(a)]
  BY ConcatProperties, ZenonT(40)
<1>2. /\ x \in Seq(Token) /\ Len(x) = Len(a) /\ \A i \in 1..Len(a) : x[i] = Id(a[i])
      /\ y \in Seq(Token) /\ Len(y) = Len(b) /\ \A i \in 1..Len(b) : y[i] = Id(b[i])
  BY IdsFed
<1> HIDE DEF x, y
<1>3. /\ xy \in Seq(Token) /\ Len(xy) = Len(x) + Len(y)
      /\ \A i \in 1..(Len(x) + Len(y)) :
            xy[i] = IF i <= Len(x) THEN x[i] ELSE y[i - Len(x)]
  <2>1. x \in Seq(Token) /\ y \in Seq(Token)
    BY <1>2
  <2>2. QED
    BY <2>1, ConcatProperties, ZenonT(40)
<1> HIDE DEF ab
<1>4. z \in Seq(Token) /\ Len(z) = Len(ab) /\ \A i \in 1..Len(ab) : z[i] = Id(ab[i])
  BY <1>1, IdsFed
<1> HIDE DEF xy, z
<1>5. Len(a) \in Nat /\ Len(b) \in Nat
  OBVIOUS
<1>6. ASSUME NEW i \in 1..(Len(a) + Len(b))
      PROVE  z[i] = xy[i]
  <2>1. CASE i <= Len(a)
    <3>1. i \in 1..Len(a)
      BY <1>5, <2>1
    <3>2. QED
      BY <1>1, <1>2, <1>3, <1>4, <2>1, <3>1
  <2>2. CASE ~(i <= Len(a))
    <3>1. i - Len(a) \in 1..Len(b)
      BY <1>5, <2>2
    <3>2. QED
      BY <1>1, <1>2, <1>3, <1>4, <2>2, <3>1
  <2>3. QED
    BY <2>1, <2>2
<1>7. z = xy
  BY <1>1, <1>2, <1>3, <1>4, <1>6, SeqEqual
<1>8. QED
  BY <1>7 DEF ab, x, y, xy, z

\* Ids of many lists in a row.
LEMMA IdsFlattened ==
    ASSUME NEW ss \in Seq(Seq(Nat))
    PROVE  /\ FlattenSeq(ss) \in Seq(Nat)
           /\ FlattenSeq([i \in DOMAIN ss |-> Ids(ss[i])]) = Ids(FlattenSeq(ss))
<1> DEFINE k == Len(ss)
           tt == [i \in DOMAIN ss |-> Ids(ss[i])]
<1>1. k \in Nat /\ DOMAIN ss = 1..k /\ \A i \in 1..k : ss[i] \in Seq(Nat)
  OBVIOUS
<1>2. tt \in Seq(Seq(Token)) /\ Len(tt) = k /\ \A i \in 1..k : tt[i] = Ids(ss[i])
  <2>1. \A i \in 1..k : Ids(ss[i]) \in Seq(Token)
    BY <1>1, IdsFed
  <2>2. tt = [i \in 1..k |-> Ids(ss[i])]
    BY <1>1
  <2> HIDE DEF k, tt
  <2>3. QED
    BY <1>1, <2>1, <2>2
<1>3. PICK f \in [0..k -> Seq(Nat)] :
          /\ f[0] = <<>> /\ FlattenSeq(ss) = f[k]
          /\ \A n \in 1..k : f[n] = f[n - 1] \o ss[n]
  BY Flattening
<1> HIDE DEF k, tt
<1>4. PICK g \in [0..k -> Seq(Token)] :
          /\ g[0] = <<>> /\ FlattenSeq(tt) = g[k]
          /\ \A n \in 1..k : g[n] = g[n - 1] \o tt[n]
  BY <1>2, Flattening
<1> DEFINE S == {n \in 0..k : g[n] = Ids(f[n])}
<1>5. 0 \in S
  <2>1. Ids(<<>>) = <<>>
    BY DEF Ids
  <2>2. QED
    BY <1>1, <1>3, <1>4, <2>1
<1>6. ASSUME NEW n \in 0..k, n < k, n \in S
      PROVE  n + 1 \in S
  <2>1. n + 1 \in 1..k /\ (n + 1) - 1 = n /\ n + 1 \in 0..k
    BY <1>1, <1>6
  <2>2. f[n + 1] = f[n] \o ss[n + 1] /\ g[n + 1] = g[n] \o tt[n + 1]
    BY <1>3, <1>4, <2>1
  <2>3. tt[n + 1] = Ids(ss[n + 1]) /\ g[n] = Ids(f[n])
    BY <1>2, <1>6, <2>1
  <2>4. f[n] \in Seq(Nat) /\ ss[n + 1] \in Seq(Nat)
    BY <1>1, <1>3, <2>1
  <2>5. Ids(f[n] \o ss[n + 1]) = Ids(f[n]) \o Ids(ss[n + 1])
    BY <2>4, IdsJoin
  <2>6. g[n + 1] = Ids(f[n + 1])
    BY <2>2, <2>3, <2>5
  <2>7. QED
    BY <2>1, <2>6
<1>7. 0..k \subseteq S
  <2> HIDE DEF S
  <2>1. QED
    BY <1>1, <1>5, <1>6, UpTo
<1>8. k \in 0..k
  BY <1>1
<1>9. g[k] = Ids(f[k]) /\ f[k] \in Seq(Nat)
  BY <1>3, <1>7, <1>8
<1>10. QED
  BY <1>3, <1>4, <1>9 DEF tt

\* The rewritten commits and their predecessors are fed as one list of ids.
LEMMA PredecessorsFed ==
    ASSUME NEW o, IsOperation(o), NEW p, p = OperationToProto(o)
    PROVE  Rewrites(o) \in Seq(Nat) /\ FedRewrites(p) = Ids(Rewrites(o))
<1>1. CASE o.predecessors = <<>>
  <2>1. p.predecessors = <<>>
    BY <1>1 DEF OperationToProto
  <2>2. [i \in DOMAIN p.predecessors |-> FeedPredecessors(p.predecessors[i])] = <<>>
    BY <2>1
  <2>3. FlattenSeq(<<>>) = <<>>
    BY DEF FlattenSeq
  <2>4. FedRewrites(p) = <<>>
    BY <2>2, <2>3 DEF FedRewrites
  <2>5. Rewrites(o) = <<>>
    BY <1>1 DEF Rewrites
  <2>6. Ids(<<>>) = <<>>
    BY DEF Ids
  <2>7. QED
    BY <2>4, <2>5, <2>6
<1>2. CASE o.predecessors # <<>>
  <2> DEFINE map == o.predecessors[1]
             list == PredecessorsToProto(map)
             n == Cardinality(DOMAIN map)
             ss == [i \in DOMAIN list |-> <<list[i].commit>> \o list[i].predecessors]
             tt == [i \in DOMAIN list |-> FeedPredecessors(list[i])]
             uu == [i \in DOMAIN ss |-> Ids(ss[i])]
  <2>1. IsMap(map, Nat, Seq(Nat))
    BY <1>2 DEF IsOperation
  <2>2. p.predecessors = list
    BY <1>2 DEF OperationToProto
  <2>3. FedRewrites(p) = FlattenSeq(tt)
    BY <2>2 DEF FedRewrites
  <2>4. Rewrites(o) = FlattenSeq(ss)
    BY <1>2 DEF Rewrites
  <2> HIDE DEF list
  <2>5. /\ n \in Nat /\ DOMAIN list = 1..n
        /\ \A i \in 1..n : list[i].commit \in Nat /\ list[i].predecessors \in Seq(Nat)
    <3> DEFINE commits == Sorted(SetToSeq(DOMAIN map))
    <3>1. /\ list = [i \in 1..n |-> [commit |-> commits[i], predecessors |-> map[commits[i]]]]
          /\ ToSet(commits) = DOMAIN map /\ DOMAIN commits = 1..n
      BY <2>1, WirePredecessors DEF list
    <3>2. n \in Nat
      BY <2>1, FS_CardinalityType DEF IsMap
    <3> HIDE DEF commits, n, map
    <3>3. \A i \in 1..n : commits[i] \in DOMAIN map
      BY <3>1 DEF ToSet
    <3>4. \A c \in DOMAIN map : c \in Nat /\ map[c] \in Seq(Nat)
      BY <2>1 DEF IsMap
    <3>5. QED
      BY <3>1, <3>2, <3>3, <3>4
  <2> HIDE DEF n, map
  <2>6. \A i \in 1..n : /\ <<list[i].commit>> \o list[i].predecessors \in Seq(Nat)
                        /\ FeedPredecessors(list[i]) =
                               Ids(<<list[i].commit>> \o list[i].predecessors)
    <3>1. TAKE i \in 1..n
    <3> DEFINE c == list[i].commit
               l == list[i].predecessors
               one == <<c>>
    <3>2. one \in Seq(Nat) /\ l \in Seq(Nat)
      BY <2>5
    <3>3. Ids(one) = <<Id(c)>>
      BY DEF Ids
    <3>4. FeedPredecessors(list[i]) = Ids(one) \o Ids(l)
      BY <3>3 DEF FeedPredecessors
    <3> HIDE DEF one, l
    <3>5. one \o l \in Seq(Nat)
      BY <3>2, ConcatProperties
    <3>6. Ids(one \o l) = Ids(one) \o Ids(l)
      BY <3>2, IdsJoin
    <3>7. QED
      BY <3>4, <3>5, <3>6 DEF one, l
  <2>7. ss \in Seq(Seq(Nat)) /\ tt = uu
    <3>1. ss = [i \in 1..n |-> <<list[i].commit>> \o list[i].predecessors]
      BY <2>5
    <3>2. ss \in Seq(Seq(Nat)) /\ DOMAIN ss = 1..n
      <4>1. \A i \in 1..n : <<list[i].commit>> \o list[i].predecessors \in Seq(Nat)
        BY <2>6
      <4> HIDE DEF ss
      <4>2. QED
        BY <2>5, <3>1, <4>1
    <3>3. uu = [i \in 1..n |-> Ids(<<list[i].commit>> \o list[i].predecessors)]
      BY <3>1, <3>2
    <3>4. tt = [i \in 1..n |-> FeedPredecessors(list[i])]
      BY <2>5
    <3>5. QED
      BY <2>6, <3>2, <3>3, <3>4
  <2> HIDE DEF ss, tt
  <2>8. FlattenSeq(ss) \in Seq(Nat) /\ FlattenSeq(uu) = Ids(FlattenSeq(ss))
    BY <2>7, IdsFlattened
  <2>9. QED
    BY <2>3, <2>4, <2>7, <2>8
<1>3. QED
  BY <1>1, <1>2

\* The ids of the view and the parents, four tokens, names, and ids again.
LEMMA OperationStream ==
    ASSUME NEW o, IsOperation(o), NEW p, p = OperationToProto(o)
    PROVE  LET A == <<Id(p.view)>> \o Ids(p.parents)
               C == FedTimes(p)
               W == FedWorkspace(p)
               F == FeedMap(FedAttributes(p))
               R == FedRewrites(p)
           IN  /\ HashOperation(p) = A \o (C \o ((W \o F) \o R))
               /\ A \in Seq(Token) /\ OfKind(A, "id")
               /\ C \in Seq(Token) /\ Len(C) = 4 /\ C[1][1] = "raw"
               /\ W \in Seq(Token) /\ Len(W) = Len(p.workspace) /\ OfKind(W, "str")
               /\ F \in Seq(Token) /\ OfKind(F, "str")
               /\ \E n \in Nat : Len(F) = 2 * n
               /\ R \in Seq(Token) /\ OfKind(R, "id")
<1> DEFINE A == <<Id(p.view)>> \o Ids(p.parents)
           C == FedTimes(p)
           W == FedWorkspace(p)
           fed == FedAttributes(p)
           F == FeedMap(fed)
           R == FedRewrites(p)
<1>1. /\ p.view \in Nat /\ p.parents \in Seq(Nat) /\ p.text \in Name /\ p.snapshot \in BOOLEAN
      /\ p.start \in Int /\ p.end \in Int /\ p.workspace \in Seq(Name)
      /\ p.attributes = o.attributes /\ IsMap(o.attributes, Name, Name)
  <2>1. /\ p.view = o.view /\ p.parents = o.parents /\ p.text = o.text
        /\ p.snapshot = o.snapshot /\ p.start = o.start.millis /\ p.end = o.end.millis
        /\ p.workspace = o.workspace /\ p.attributes = o.attributes
    BY DEF OperationToProto
  <2>2. QED
    BY <2>1 DEF IsOperation
<1>2. A \in Seq(Token) /\ OfKind(A, "id")
  BY <1>1, IdAndIdsFed
<1>3. C \in Seq(Token) /\ Len(C) = 4 /\ C[1][1] = "raw"
  <2> DEFINE a == Raw(p.start)
             b == Raw(p.end)
             c == Str(p.text)
             d == Raw(p.snapshot)
  <2>1. a \in Token /\ b \in Token /\ c \in Token /\ d \in Token /\ a[1] = "raw"
    BY <1>1, Tokens
  <2>2. C = <<a, b, c, d>>
    BY DEF FedTimes
  <2> HIDE DEF C, a, b, c, d
  <2>3. QED
    BY <2>1, <2>2
<1>4. W \in Seq(Token) /\ Len(W) = Len(p.workspace) /\ OfKind(W, "str")
  <2> DEFINE n == Len(p.workspace)
  <2>1. n \in Nat /\ W = [i \in 1..n |-> Str(p.workspace[i])]
    BY <1>1 DEF FedWorkspace
  <2>2. \A i \in 1..n : Str(p.workspace[i]) \in Token /\ Str(p.workspace[i])[1] = "str"
    BY <1>1, Tokens
  <2> HIDE DEF n, W
  <2>3. W \in Seq(Token) /\ Len(W) = n
    BY <2>1, <2>2
  <2>4. OfKind(W, "str")
    BY <2>1, <2>2, <2>3 DEF OfKind
  <2>5. QED
    BY <2>3, <2>4 DEF n
<1>5. F \in Seq(Token) /\ OfKind(F, "str") /\ \E n \in Nat : Len(F) = 2 * n
  <2>1. /\ DOMAIN fed = DOMAIN p.attributes
        /\ \A a \in DOMAIN fed : fed[a] = <<Str(p.attributes[a])>>
    BY DEF FedAttributes
  <2>2. /\ IsFiniteSet(DOMAIN fed) /\ DOMAIN fed \subseteq Name
        /\ \A a \in DOMAIN fed : p.attributes[a] \in Name
    BY <1>1, <2>1 DEF IsMap
  <2> HIDE DEF fed
  <2>3. ASSUME NEW a \in DOMAIN fed
        PROVE  fed[a] \in Seq(Token) /\ Len(fed[a]) = 1 /\ fed[a][1][1] = "str"
    <3> DEFINE s == Str(p.attributes[a])
    <3>1. s \in Token /\ s[1] = "str"
      BY <2>2, Tokens
    <3>2. fed[a] = <<s>>
      BY <2>1
    <3> HIDE DEF s
    <3>3. QED
      BY <3>1, <3>2
  <2>4. PICK keys \in Seq(DOMAIN fed) : FedInOrder(F, fed, 1, keys)
    <3>1. 1 \in {1, 2} /\ \A k \in DOMAIN fed : fed[k] \in Seq(Token) /\ Len(fed[k]) = 1
      BY <2>3
    <3>2. QED
      BY <2>2, <3>1, MapFed, ZenonT(40)
  <2>5. /\ F \in Seq(Token) /\ Len(F) = 2 * Len(keys)
        /\ \A i \in 1..Len(keys) :
              /\ F[2 * (i - 1) + 1] = Str(keys[i])
              /\ F[2 * (i - 1) + 2] = fed[keys[i]][1]
    <3>1. /\ F \in Seq(Token) /\ Len(F) = (1 + 1) * Len(keys)
          /\ \A i \in 1..Len(keys) :
                /\ F[(1 + 1) * (i - 1) + 1] = Str(keys[i])
                /\ \A j \in 1..1 : F[(1 + 1) * (i - 1) + 1 + j] = fed[keys[i]][j]
      BY <2>4 DEF FedInOrder
    <3>2. 1 + 1 = 2 /\ Len(keys) \in Nat /\ 1 \in 1..1
      OBVIOUS
    <3> HIDE DEF F
    <3>3. ASSUME NEW i \in 1..Len(keys)
          PROVE  F[2 * (i - 1) + 2] = fed[keys[i]][1]
      <4>1. F[2 * (i - 1) + 1 + 1] = fed[keys[i]][1]
        BY <3>1, <3>2
      <4>2. 2 * (i - 1) + 1 + 1 = 2 * (i - 1) + 2
        BY <3>2
      <4>3. QED
        BY <4>1, <4>2
    <3>4. QED
      BY <3>1, <3>2, <3>3
  <2> HIDE DEF F
  <2>6. ASSUME NEW q \in 1..Len(F)
        PROVE  F[q][1] = "str"
    <3>1. Len(keys) \in Nat /\ 2 \in {2, 3} /\ q \in 1..(2 * Len(keys))
      BY <2>5
    <3>2. PICK i \in 1..Len(keys) : \E j \in 1..2 : q = 2 * (i - 1) + j
      BY <3>1, BlockOf
    <3>3. q = 2 * (i - 1) + 1 \/ q = 2 * (i - 1) + 2
      BY <3>2
    <3>4. keys[i] \in DOMAIN fed
      BY <3>1
    <3>5. CASE q = 2 * (i - 1) + 1
      BY <2>5, <3>5, Tokens
    <3>6. CASE q = 2 * (i - 1) + 2
      <4>1. F[q] = fed[keys[i]][1]
        BY <2>5, <3>6
      <4>2. QED
        BY <2>3, <3>4, <4>1
    <3>7. QED
      BY <3>3, <3>5, <3>6
  <2>7. OfKind(F, "str")
    BY <2>6 DEF OfKind
  <2>8. Len(keys) \in Nat
    OBVIOUS
  <2>9. QED
    BY <2>5, <2>7, <2>8
<1>6. R \in Seq(Token) /\ OfKind(R, "id")
  <2>1. Rewrites(o) \in Seq(Nat) /\ R = Ids(Rewrites(o))
    BY PredecessorsFed
  <2> HIDE DEF R
  <2>2. QED
    BY <2>1, IdsFed
<1>7. HashOperation(p) = ((((<<Id(p.view)>> \o Ids(p.parents)) \o C) \o W) \o F) \o R
  BY DEF HashOperation, FedTimes, FedWorkspace, FedAttributes, FedRewrites
<1> HIDE DEF C, W, F, R, fed
<1>8. HashOperation(p) = (((A \o C) \o W) \o F) \o R
  BY <1>7
<1> HIDE DEF A
<1>9. HashOperation(p) = A \o (C \o ((W \o F) \o R))
  <2> DEFINE AC == A \o C
             WF == W \o F
  <2>1. AC \in Seq(Token) /\ WF \in Seq(Token)
    BY <1>2, <1>3, <1>4, <1>5, ConcatProperties
  <2>2. HashOperation(p) = ((AC \o W) \o F) \o R
    BY <1>8
  <2>3. (AC \o W) \o F = AC \o WF
    <3> HIDE DEF AC
    <3>1. QED
      BY <1>4, <1>5, <2>1, ConcatAssociative, SMTT(30)
  <2> DEFINE WFR == WF \o R
  <2>4. WFR \in Seq(Token)
    BY <1>6, <2>1, ConcatProperties
  <2>5. (AC \o WF) \o R = AC \o WFR
    <3> HIDE DEF AC, WF
    <3>1. QED
      BY <1>6, <2>1, ConcatAssociative, SMTT(30)
  <2>6. AC \o WFR = A \o (C \o WFR)
    <3>1. A \in Seq(Token) /\ C \in Seq(Token) /\ WFR \in Seq(Token)
      BY <1>2, <1>3, <2>4
    <3> HIDE DEF WFR
    <3>2. QED
      BY <3>1, ConcatAssociative, SMTT(30)
  <2>7. HashOperation(p) = A \o (C \o WFR)
    BY <2>2, <2>3, <2>5, <2>6
  <2>8. QED
    BY <2>7
<1>10. QED
  BY <1>2, <1>3, <1>4, <1>5, <1>6, <1>9 DEF A, C, W, F, R, fed

\* How a map of names to names is fed.
NamesFed(s, m, keys) ==
    /\ \A k \in DOMAIN m : \E i \in 1..Len(keys) : keys[i] = k
    /\ Len(s) = 2 * Len(keys)
    /\ \A i \in 1..Len(keys) :
          s[2 * (i - 1) + 1] = Str(keys[i]) /\ s[2 * (i - 1) + 2] = Str(m[keys[i]])

\* It can be read back.
LEMMA AttributesRead ==
    ASSUME NEW f, NEW g, IsMap(f, Name, Name), IsMap(g, Name, Name),
           FeedMap([a \in DOMAIN f |-> <<Str(f[a])>>]) = FeedMap([a \in DOMAIN g |-> <<Str(g[a])>>])
    PROVE  f = g
<1> DEFINE fed(m) == [a \in DOMAIN m |-> <<Str(m[a])>>]
           s == FeedMap(fed(f))
<1>1. ASSUME NEW m, IsMap(m, Name, Name)
      PROVE  \E keys \in Seq(DOMAIN m) : NamesFed(FeedMap(fed(m)), m, keys)
  <2> DEFINE g1 == fed(m)
  <2>1. DOMAIN g1 = DOMAIN m /\ \A k \in DOMAIN m : g1[k] = <<Str(m[k])>>
    OBVIOUS
  <2>2. IsFiniteSet(DOMAIN m) /\ DOMAIN m \subseteq Name /\ \A k \in DOMAIN m : m[k] \in Name
    BY <1>1 DEF IsMap
  <2> HIDE DEF g1
  <2>3. \A k \in DOMAIN g1 : g1[k] \in Seq(Token) /\ Len(g1[k]) = 1 /\ g1[k][1] = Str(m[k])
    <3>1. TAKE k \in DOMAIN g1
    <3> DEFINE t == Str(m[k])
    <3>2. t \in Token
      BY <2>1, <2>2, Tokens
    <3>3. g1[k] = <<t>>
      BY <2>1
    <3> HIDE DEF t
    <3>4. g1[k] \in Seq(Token) /\ Len(g1[k]) = 1 /\ g1[k][1] = t
      BY <3>2, <3>3
    <3>5. QED
      BY <3>4 DEF t
  <2>4. PICK keys \in Seq(DOMAIN g1) : FedInOrder(FeedMap(g1), g1, 1, keys)
    <3>1. 1 \in {1, 2} /\ \A k \in DOMAIN g1 : g1[k] \in Seq(Token) /\ Len(g1[k]) = 1
      BY <2>3
    <3>2. IsFiniteSet(DOMAIN g1) /\ DOMAIN g1 \subseteq Name
      BY <2>1, <2>2
    <3>3. QED
      BY <3>1, <3>2, MapFed, ZenonT(40)
  <2> DEFINE z == FeedMap(g1)
  <2>5. /\ \A k \in DOMAIN g1 : \E i \in 1..Len(keys) : keys[i] = k
        /\ Len(z) = (1 + 1) * Len(keys)
        /\ \A i \in 1..Len(keys) :
              /\ z[(1 + 1) * (i - 1) + 1] = Str(keys[i])
              /\ \A j \in 1..1 : z[(1 + 1) * (i - 1) + 1 + j] = g1[keys[i]][j]
    BY <2>4 DEF FedInOrder
  <2>6. 1 + 1 = 2 /\ Len(keys) \in Nat /\ 1 \in 1..1
        /\ \A i \in 1..Len(keys) : keys[i] \in DOMAIN g1
    OBVIOUS
  <2> HIDE DEF z
  <2>7. ASSUME NEW i \in 1..Len(keys)
        PROVE  z[2 * (i - 1) + 1] = Str(keys[i]) /\ z[2 * (i - 1) + 2] = Str(m[keys[i]])
    <3>1. z[2 * (i - 1) + 1] = Str(keys[i])
      BY <2>5, <2>6
    <3>5. z[2 * (i - 1) + 1 + 1] = g1[keys[i]][1]
      BY <2>5, <2>6
    <3>2. 2 * (i - 1) + 1 + 1 = 2 * (i - 1) + 2
      BY <2>6
    <3>3. g1[keys[i]][1] = Str(m[keys[i]])
      BY <2>3, <2>6
    <3>4. QED
      BY <3>1, <3>2, <3>3, <3>5
  <2>8. Len(z) = 2 * Len(keys) /\ keys \in Seq(DOMAIN m)
    BY <2>1, <2>5, <2>6
  <2>9. \A k \in DOMAIN m : \E i \in 1..Len(keys) : keys[i] = k
    BY <2>1, <2>5
  <2>10. QED
    BY <2>7, <2>8, <2>9 DEF z, g1, NamesFed
<1>2. PICK keys \in Seq(DOMAIN f) : NamesFed(s, f, keys)
  BY <1>1
<1>3. s = FeedMap(fed(g))
  OBVIOUS
<1> HIDE DEF s, fed
<1>4. PICK keys2 \in Seq(DOMAIN g) : NamesFed(s, g, keys2)
  BY <1>1, <1>3
<1>5. /\ Len(keys) = Len(keys2) /\ Len(keys) \in Nat
      /\ (\A i \in 1..Len(keys) : keys[i] \in DOMAIN f)
      /\ (\A i \in 1..Len(keys2) : keys2[i] \in DOMAIN g)
  <2>1. /\ Len(keys) \in Nat /\ \A i \in 1..Len(keys) : keys[i] \in DOMAIN f
    OBVIOUS
  <2>2. /\ Len(keys2) \in Nat /\ \A i \in 1..Len(keys2) : keys2[i] \in DOMAIN g
    OBVIOUS
  <2>3. 2 * Len(keys) = 2 * Len(keys2)
    BY <1>2, <1>4 DEF NamesFed
  <2>4. Len(keys) = Len(keys2)
    BY <2>1, <2>2, <2>3
  <2>5. QED
    BY <2>1, <2>2, <2>4
<1>6. \A x, y : Str(x) = Str(y) => x = y
  BY Tokens
<1>7. \A i \in 1..Len(keys) : keys[i] = keys2[i] /\ f[keys[i]] = g[keys2[i]]
  <2>1. TAKE i \in 1..Len(keys)
  <2>2. s[2 * (i - 1) + 1] = Str(keys[i]) /\ s[2 * (i - 1) + 2] = Str(f[keys[i]])
    BY <1>2 DEF NamesFed
  <2>3. s[2 * (i - 1) + 1] = Str(keys2[i]) /\ s[2 * (i - 1) + 2] = Str(g[keys2[i]])
    BY <1>4, <1>5 DEF NamesFed
  <2>4. QED
    BY <1>6, <2>2, <2>3
<1>8. DOMAIN f = DOMAIN g
  <2>1. \A k \in DOMAIN f : \E i \in 1..Len(keys) : keys[i] = k
    BY <1>2 DEF NamesFed
  <2>2. \A k \in DOMAIN g : \E i \in 1..Len(keys) : keys2[i] = k
    BY <1>4, <1>5 DEF NamesFed
  <2>3. \A k \in DOMAIN f : k \in DOMAIN g
    <3>1. TAKE k \in DOMAIN f
    <3>2. PICK i \in 1..Len(keys) : keys[i] = k
      BY <2>1
    <3>3. keys[i] = keys2[i] /\ keys2[i] \in DOMAIN g
      BY <1>5, <1>7
    <3>4. QED
      BY <3>2, <3>3
  <2>4. DOMAIN g \subseteq DOMAIN f
    BY <1>5, <1>7, <2>2
  <2>5. QED
    BY <2>3, <2>4
<1>9. \A k \in DOMAIN f : f[k] = g[k]
  <2>1. TAKE k \in DOMAIN f
  <2>2. PICK i \in 1..Len(keys) : keys[i] = k
    BY <1>2 DEF NamesFed
  <2>3. keys[i] = keys2[i] /\ f[keys[i]] = g[keys2[i]]
    BY <1>7
  <2>4. QED
    BY <2>2, <2>3
<1>10. f \in [DOMAIN f -> Name] /\ g \in [DOMAIN g -> Name]
  BY DEF IsMap
<1>11. QED
  BY <1>8, <1>9, <1>10

\* What an id tells of an operation depends on what the wire carries of it.
LEMMA SameTold ==
    ASSUME NEW o, IsOperation(o), NEW u, CarriedOperation(u) = CarriedOperation(o)
    PROVE  ToldById(u) = ToldById(o)
<1>1. /\ CarriedOperation(o).predecessors = o.predecessors
      /\ "predecessors" \in DOMAIN CarriedOperation(o)
  BY TimeZonesDropped
<1>2. DOMAIN u = DOMAIN CarriedOperation(u)
  BY DEF CarriedOperation
<1>3. "predecessors" \in DOMAIN u
  BY <1>1, <1>2
<1>4. CarriedOperation(u).predecessors = u.predecessors
  BY <1>3 DEF CarriedOperation
<1>5. Rewrites(u) = Rewrites(o)
  BY <1>1, <1>4 DEF Rewrites
<1>6. QED
  BY <1>5 DEF ToldById

\* Two operations that get one id are one operation up to what the id tells.
LEMMA OneOperationOfId ==
    ASSUME NEW o \in Operation, NEW u \in Operation,
           HashOperation(OperationToProto(o)) = HashOperation(OperationToProto(u))
    PROVE  ToldById(o) = ToldById(u)
<1> DEFINE p == OperationToProto(o)
           q == OperationToProto(u)
           A(r) == <<Id(r.view)>> \o Ids(r.parents)
           C(r) == FedTimes(r)
           W(r) == FedWorkspace(r)
           F(r) == FeedMap(FedAttributes(r))
           R(r) == FedRewrites(r)
           WF(r) == W(r) \o F(r)
           Rest(r) == C(r) \o (WF(r) \o R(r))
<1>1. IsOperation(o) /\ IsOperation(u)
  BY ObjectsAssumption
<1>2. /\ Rewrites(o) \in Seq(Nat) /\ R(p) = Ids(Rewrites(o))
      /\ Rewrites(u) \in Seq(Nat) /\ R(q) = Ids(Rewrites(u))
  BY <1>1, PredecessorsFed
<1>3. ASSUME NEW r \in {p, q}
      PROVE  /\ HashOperation(r) = A(r) \o Rest(r)
             /\ A(r) \in Seq(Token) /\ OfKind(A(r), "id")
             /\ C(r) \in Seq(Token) /\ Len(C(r)) = 4 /\ C(r)[1][1] = "raw"
             /\ W(r) \in Seq(Token) /\ Len(W(r)) = Len(r.workspace) /\ OfKind(W(r), "str")
             /\ F(r) \in Seq(Token) /\ OfKind(F(r), "str")
             /\ \E n \in Nat : Len(F(r)) = 2 * n
             /\ R(r) \in Seq(Token) /\ OfKind(R(r), "id")
  <2>1. CASE r = p
    BY <1>1, <2>1, OperationStream
  <2>2. CASE r = q
    BY <1>1, <2>2, OperationStream
  <2>3. QED
    BY <2>1, <2>2
<1>4. ASSUME NEW r \in {p, q}
      PROVE  /\ r.view \in Nat /\ r.parents \in Seq(Nat) /\ r.workspace \in Seq(Name)
             /\ Len(r.workspace) <= 1 /\ IsMap(r.attributes, Name, Name)
  <2>1. PICK w \in {o, u} : r = OperationToProto(w)
    OBVIOUS
  <2>2. IsOperation(w)
    BY <1>1
  <2> HIDE DEF p, q
  <2>3. /\ r.view = w.view /\ r.parents = w.parents /\ r.workspace = w.workspace
        /\ r.attributes = w.attributes
    BY <2>1 DEF OperationToProto
  <2>4. QED
    BY <2>2, <2>3 DEF IsOperation
<1>5. p \in {p, q} /\ q \in {p, q} /\ HashOperation(p) = HashOperation(q)
  OBVIOUS
<1> HIDE DEF p, q, A, C, W, F, R
<1>6. \A r \in {p, q} : /\ WF(r) \in Seq(Token) /\ OfKind(WF(r), "str")
                        /\ Len(WF(r)) = Len(W(r)) + Len(F(r))
                        /\ WF(r) \o R(r) \in Seq(Token)
                        /\ Rest(r) \in Seq(Token) /\ NotFrom(Rest(r), "id")
                        /\ NotFrom(R(r), "str")
  <2>1. TAKE r \in {p, q}
  <2> DEFINE x == W(r)
             y == F(r)
             z == R(r)
             v == C(r)
  <2>2. /\ x \in Seq(Token) /\ OfKind(x, "str") /\ y \in Seq(Token) /\ OfKind(y, "str")
        /\ z \in Seq(Token) /\ OfKind(z, "id")
        /\ v \in Seq(Token) /\ Len(v) = 4 /\ v[1][1] = "raw"
    BY <1>3
  <2> HIDE DEF x, y, z, v
  <2>3. /\ x \o y \in Seq(Token) /\ Len(x \o y) = Len(x) + Len(y)
        /\ \A i \in 1..(Len(x) + Len(y)) :
              (x \o y)[i] = IF i <= Len(x) THEN x[i] ELSE y[i - Len(x)]
    BY <2>2, ConcatProperties, ZenonT(40)
  <2>4. OfKind(x \o y, "str")
    <3>1. ASSUME NEW i \in 1..(Len(x) + Len(y))
          PROVE  (x \o y)[i][1] = "str"
      <4>1. Len(x) \in Nat /\ Len(y) \in Nat
        BY <2>2
      <4>2. CASE i <= Len(x)
        <5>1. i \in 1..Len(x)
          BY <4>1, <4>2
        <5>2. QED
          BY <2>2, <2>3, <4>2, <5>1 DEF OfKind
      <4>3. CASE ~(i <= Len(x))
        <5>1. i - Len(x) \in 1..Len(y)
          BY <4>1, <4>3
        <5>2. QED
          BY <2>2, <2>3, <4>3, <5>1 DEF OfKind
      <4>4. QED
        BY <4>2, <4>3
    <3>2. QED
      BY <2>3, <3>1 DEF OfKind
  <2> DEFINE xy == x \o y
  <2>5. xy \o z \in Seq(Token)
    BY <2>2, <2>3, ConcatProperties
  <2> DEFINE t == xy \o z
  <2>6. v \o t \in Seq(Token) /\ NotFrom(v \o t, "id")
    <3>1. t \in Seq(Token)
      BY <2>5
    <3> HIDE DEF t
    <3>2. /\ v \o t \in Seq(Token)
          /\ \A i \in 1..(Len(v) + Len(t)) :
                (v \o t)[i] = IF i <= Len(v) THEN v[i] ELSE t[i - Len(v)]
      BY <2>2, <3>1, ConcatProperties, ZenonT(40)
    <3>3. Len(t) \in Nat /\ 1 \in 1..(Len(v) + Len(t)) /\ 1 <= Len(v)
      BY <2>2, <3>1
    <3>4. (v \o t)[1][1] = "raw"
      BY <2>2, <3>2, <3>3
    <3>5. QED
      BY <3>2, <3>4 DEF NotFrom
  <2>7. NotFrom(z, "str")
    <3>1. CASE z = <<>>
      BY <3>1 DEF NotFrom
    <3>2. CASE z # <<>>
      <4>1. 1 \in 1..Len(z)
        BY <2>2, <3>2
      <4>2. QED
        BY <2>2, <4>1 DEF OfKind, NotFrom
    <3>3. QED
      BY <3>1, <3>2
  <2>8. QED
    BY <2>3, <2>4, <2>5, <2>6, <2>7 DEF x, y, z, v
<1> HIDE DEF WF, Rest
<1>7. A(p) = A(q) /\ Rest(p) = Rest(q)
  <2>1. A(p) \o Rest(p) = A(q) \o Rest(q)
    BY <1>3, <1>5
  <2>2. /\ A(p) \in Seq(Token) /\ OfKind(A(p), "id") /\ A(q) \in Seq(Token) /\ OfKind(A(q), "id")
        /\ Rest(p) \in Seq(Token) /\ NotFrom(Rest(p), "id")
        /\ Rest(q) \in Seq(Token) /\ NotFrom(Rest(q), "id")
    BY <1>3, <1>6
  <2>3. QED
    BY <2>1, <2>2, CutAtKind
<1>8. C(p) = C(q) /\ WF(p) \o R(p) = WF(q) \o R(q)
  <2> DEFINE x == WF(p) \o R(p)
             y == WF(q) \o R(q)
  <2>1. x \in Seq(Token) /\ y \in Seq(Token)
    BY <1>6
  <2>2. C(p) \o x = C(q) \o y
    BY <1>7 DEF Rest
  <2> HIDE DEF x, y
  <2>3. C(p) \in Seq(Token) /\ C(q) \in Seq(Token) /\ Len(C(p)) = Len(C(q))
    BY <1>3
  <2>4. C(p) = C(q) /\ x = y
    BY <2>1, <2>2, <2>3, SameCut
  <2>5. QED
    BY <2>4 DEF x, y
<1>9. WF(p) = WF(q) /\ R(p) = R(q)
  <2>1. /\ WF(p) \in Seq(Token) /\ OfKind(WF(p), "str") /\ WF(q) \in Seq(Token)
        /\ OfKind(WF(q), "str") /\ NotFrom(R(p), "str") /\ NotFrom(R(q), "str")
    BY <1>6
  <2>2. R(p) \in Seq(Token) /\ R(q) \in Seq(Token)
    BY <1>3
  <2>3. QED
    BY <1>8, <2>1, <2>2, CutAtKind
<1>10. W(p) = W(q) /\ F(p) = F(q)
  <2>1. PICK n \in Nat : Len(F(p)) = 2 * n
    BY <1>3
  <2>2. PICK m \in Nat : Len(F(q)) = 2 * m
    BY <1>3
  <2>3. /\ Len(W(p)) \in Nat /\ Len(W(p)) <= 1 /\ Len(W(q)) \in Nat /\ Len(W(q)) <= 1
    <3>1. W(p) \in Seq(Token) /\ Len(W(p)) <= 1
      <4>1. W(p) \in Seq(Token) /\ Len(W(p)) = Len(p.workspace)
        BY <1>3
      <4>2. Len(p.workspace) <= 1
        BY <1>4
      <4>3. QED
        BY <4>1, <4>2
    <3>2. W(q) \in Seq(Token) /\ Len(W(q)) <= 1
      <4>1. W(q) \in Seq(Token) /\ Len(W(q)) = Len(q.workspace)
        BY <1>3
      <4>2. Len(q.workspace) <= 1
        BY <1>4
      <4>3. QED
        BY <4>1, <4>2
    <3>3. QED
      BY <3>1, <3>2
  <2>4. Len(W(p)) + 2 * n = Len(W(q)) + 2 * m
    BY <1>6, <1>9, <2>1, <2>2
  <2>5. Len(W(p)) = Len(W(q))
    BY <2>3, <2>4
  <2>6. /\ W(p) \in Seq(Token) /\ W(q) \in Seq(Token) /\ F(p) \in Seq(Token) /\ F(q) \in Seq(Token)
    BY <1>3
  <2>7. W(p) \o F(p) = W(q) \o F(q)
    BY <1>9 DEF WF
  <2>8. QED
    BY <2>5, <2>6, <2>7, SameCut
<1>11. p.view = q.view /\ p.parents = q.parents
  <2> DEFINE FedAlike(c, l, d, k) == <<Id(c)>> \o Ids(l) = <<Id(d)>> \o Ids(k)
  <2>1. FedAlike(p.view, p.parents, q.view, q.parents)
    BY <1>7 DEF A
  <2>2. /\ p.view \in Nat /\ q.view \in Nat
        /\ p.parents \in Seq(Nat) /\ q.parents \in Seq(Nat)
    BY <1>4
  <2>3. \A c, d \in Nat : \A l, k \in Seq(Nat) : FedAlike(c, l, d, k) => c = d /\ l = k
    BY IdAndIdsRead
  <2> HIDE DEF FedAlike
  <2>4. QED
    BY <2>1, <2>2, <2>3
<1>12. p.start = q.start /\ p.end = q.end /\ p.text = q.text /\ p.snapshot = q.snapshot
  <2>1. \A a, b, c, d, e, f, g, h :
            <<a, b, c, d>> = <<e, f, g, h>> => a = e /\ b = f /\ c = g /\ d = h
    OBVIOUS
  <2>2. /\ Raw(p.start) = Raw(q.start) /\ Raw(p.end) = Raw(q.end)
        /\ Str(p.text) = Str(q.text) /\ Raw(p.snapshot) = Raw(q.snapshot)
    BY <1>8, <2>1 DEF C, FedTimes
  <2>3. QED
    BY <2>2, Tokens
<1>13. p.workspace = q.workspace
  <2>1. Len(p.workspace) = Len(q.workspace)
    BY <1>3, <1>10
  <2>2. \A r \in {p, q} : \A i \in 1..Len(r.workspace) : W(r)[i] = Str(r.workspace[i])
    BY <1>4 DEF W, FedWorkspace
  <2>3. \A i \in 1..Len(p.workspace) : Str(p.workspace[i]) = Str(q.workspace[i])
    BY <1>10, <2>1, <2>2
  <2>4. \A i \in 1..Len(p.workspace) : p.workspace[i] = q.workspace[i]
    BY <2>3, Tokens
  <2>5. p.workspace \in Seq(Name) /\ q.workspace \in Seq(Name)
    BY <1>4
  <2>6. QED
    BY <2>1, <2>4, <2>5, SeqEqual
<1>14. p.attributes = q.attributes
  <2>1. IsMap(p.attributes, Name, Name) /\ IsMap(q.attributes, Name, Name)
    BY <1>4
  <2>2. FeedMap([a \in DOMAIN p.attributes |-> <<Str(p.attributes[a])>>]) =
            FeedMap([a \in DOMAIN q.attributes |-> <<Str(q.attributes[a])>>])
    BY <1>10 DEF F, FedAttributes
  <2>3. QED
    BY <2>1, <2>2, AttributesRead
<1>15. Rewrites(o) = Rewrites(u)
  <2> DEFINE l == Rewrites(o)
             k == Rewrites(u)
  <2>1. /\ l \in Seq(Nat) /\ k \in Seq(Nat) /\ Ids(l) = Ids(k)
    BY <1>2, <1>9
  <2> HIDE DEF l, k
  <2>2. /\ Len(Ids(l)) = Len(l) /\ Len(Ids(k)) = Len(k)
        /\ \A i \in 1..Len(l) : Ids(l)[i] = Id(l[i])
        /\ \A i \in 1..Len(k) : Ids(k)[i] = Id(k[i])
    BY <2>1, IdsFed
  <2>3. \A i, j : Id(i) = Id(j) <=> i = j
    BY Tokens
  <2>4. Len(l) = Len(k) /\ \A i \in 1..Len(l) : l[i] = k[i]
    BY <2>1, <2>2, <2>3
  <2>5. l = k
    BY <2>1, <2>4, SeqEqual
  <2>6. QED
    BY <2>5 DEF l, k
<1>16. /\ o.view = u.view /\ o.parents = u.parents /\ o.workspace = u.workspace
       /\ o.attributes = u.attributes /\ o.text = u.text /\ o.snapshot = u.snapshot
       /\ o.start.millis = u.start.millis /\ o.end.millis = u.end.millis
  BY <1>11, <1>12, <1>13, <1>14 DEF p, q, OperationToProto
<1>17. ASSUME NEW w \in {o, u}
       PROVE  ToldById(w) =
                  [view |-> w.view, parents |-> w.parents,
                   start |-> [millis |-> w.start.millis, tz |-> 0],
                   end |-> [millis |-> w.end.millis, tz |-> 0],
                   text |-> w.text, snapshot |-> w.snapshot, workspace |-> w.workspace,
                   attributes |-> w.attributes, predecessors |-> Rewrites(w)]
  <2>1. IsOperation(w)
    BY <1>1
  <2> DEFINE rewrites == Rewrites(w)
  <2> HIDE DEF rewrites
  <2>2. [CarriedOperation(w) EXCEPT !.predecessors = rewrites] =
                  [view |-> w.view, parents |-> w.parents,
                   start |-> [millis |-> w.start.millis, tz |-> 0],
                   end |-> [millis |-> w.end.millis, tz |-> 0],
                   text |-> w.text, snapshot |-> w.snapshot, workspace |-> w.workspace,
                   attributes |-> w.attributes, predecessors |-> rewrites]
    BY <2>1, TimeZonesDropped
  <2>3. QED
    BY <2>2 DEF ToldById, rewrites
<1>18. QED
  BY <1>15, <1>16, <1>17

-----------------------------------------------------------------------------
(* What the server keeps and what clients hold.                            *)

\* Every view and operation on the server is one that a client wrote, as it
\* went over the wire, under the id computed from it.
StoredInv ==
    /\ \A id \in DOMAIN views : \E v \in View : \E order \in SetToSeqs(v.heads) :
          views[id] = ViewToProto(v, order) /\ id = HashView(views[id])
    /\ \A id \in DOMAIN operations : \E o \in Operation :
          operations[id] = OperationToProto(o) /\ id = HashOperation(operations[id])

\* The server keeps what was written under its id.
LEMMA StoredInvariant == Spec => []StoredInv
<1>1. Init => StoredInv
  BY DEF Init, StoredInv
<1>2. ASSUME StoredInv, [Next]_vars
      PROVE  StoredInv'
  <2>1. CASE UNCHANGED vars
    BY <1>2, <2>1 DEF StoredInv, vars
  <2>2. ASSUME NEW c \in Client, WriteView(c)
        PROVE  StoredInv'
    <3>1. PICK v \in View : \E order \in SetToSeqs(v.heads) :
              /\ views' = Put(views, HashView(ViewToProto(v, order)), ViewToProto(v, order))
              /\ UNCHANGED operations
      BY <2>2 DEF WriteView
    <3>2. PICK order \in SetToSeqs(v.heads) :
              /\ views' = Put(views, HashView(ViewToProto(v, order)), ViewToProto(v, order))
              /\ UNCHANGED operations
      BY <3>1
    <3>3. QED
      BY <1>2, <3>2 DEF StoredInv, Put
  <2>3. ASSUME NEW c \in Client, ReadView(c)
        PROVE  StoredInv'
    BY <1>2, <2>3 DEF StoredInv, ReadView
  <2>4. ASSUME NEW c \in Client, WriteOperation(c)
        PROVE  StoredInv'
    <3>1. PICK o \in Operation :
              /\ operations' = Put(operations, HashOperation(OperationToProto(o)), OperationToProto(o))
              /\ UNCHANGED views
      BY <2>4 DEF WriteOperation
    <3>2. QED
      BY <1>2, <3>1 DEF StoredInv, Put
  <2>5. ASSUME NEW c \in Client, ReadOperation(c)
        PROVE  StoredInv'
    BY <1>2, <2>5 DEF StoredInv, ReadOperation
  <2>6. CASE Restart
    BY <2>6 DEF StoredInv, Restart
  <2>7. QED
    BY <1>2, <2>1, <2>2, <2>3, <2>4, <2>5, <2>6 DEF Next
<1>3. QED
  BY <1>1, <1>2, PTL DEF Spec

\* A view that was read and is written again gets the id it was read under,
\* whatever conflicts, remotes and orders of heads there are (view_to_proto,
\* view_from_proto, hash_view).
THEOREM ViewIdsKept == Spec => []ReadBackKeepsViewId
<1>1. StoredInv => ReadBackKeepsViewId
  <2> SUFFICES ASSUME StoredInv, NEW id \in DOMAIN views,
                      NEW order2 \in SetToSeqs(ViewFromProto(views[id]).heads)
               PROVE  HashView(ViewToProto(ViewFromProto(views[id]), order2)) = id
    BY DEF ReadBackKeepsViewId
  <2>1. PICK v \in View : \E order \in SetToSeqs(v.heads) :
            views[id] = ViewToProto(v, order) /\ id = HashView(views[id])
    BY DEF StoredInv
  <2>2. PICK order \in SetToSeqs(v.heads) :
            views[id] = ViewToProto(v, order) /\ id = HashView(views[id])
    BY <2>1
  <2>3. IsView(v)
    BY ObjectsAssumption
  <2>4. order2 \in SetToSeqs(ViewFromProto(ViewToProto(v, order)).heads)
    BY <2>2
  <2>5. QED
    BY <2>2, <2>3, <2>4, ViewIdKept
<1>2. QED
  BY <1>1, StoredInvariant, PTL

\* An operation that was read and is written again gets the id it had
\* (operation_to_proto, operation_from_proto, hash_operation).
THEOREM OperationIdsKept == Spec => []ReadBackKeepsOperationId
<1>1. StoredInv => ReadBackKeepsOperationId
  <2> SUFFICES ASSUME StoredInv, NEW id \in DOMAIN operations
               PROVE  HashOperation(OperationToProto(OperationFromProto(operations[id]))) = id
    BY DEF ReadBackKeepsOperationId
  <2>1. PICK o \in Operation :
            operations[id] = OperationToProto(o) /\ id = HashOperation(operations[id])
    BY DEF StoredInv
  <2>2. OperationToProto(OperationFromProto(OperationToProto(o))) = OperationToProto(o)
    BY ObjectsAssumption, OperationKept
  <2>3. QED
    BY <2>1, <2>2
<1>2. QED
  BY <1>1, StoredInvariant, PTL

\* What Held collects when one client is told something.
LEMMA HeldGrows ==
    ASSUME NEW held, NEW c \in Client, NEW h, DOMAIN held = Client
    PROVE  /\ Held([held EXCEPT ![c] = h]) \subseteq Held(held) \cup {h}
           /\ DOMAIN [held EXCEPT ![c] = h] = Client
<1>1. \A d \in Client : [held EXCEPT ![c] = h][d] = IF d = c THEN h ELSE held[d]
  OBVIOUS
<1>2. QED
  BY <1>1 DEF Held

ViewsInv ==
    DOMAIN heldView = Client /\ \A h \in Held(heldView) : WrittenView(h[1], h[2])
OperationsInv ==
    DOMAIN heldOp = Client /\ \A h \in Held(heldOp) : WrittenOperation(h[1], h[2])

\* Every view that a client holds gets the id it is held under.
LEMMA ViewsInvariant ==
    ASSUME RemotesWithoutAt
    PROVE  Spec => []ViewsInv
<1>1. Init => ViewsInv
  BY DEF Init, ViewsInv, Held
<1>2. ASSUME ViewsInv, StoredInv, [Next]_vars
      PROVE  ViewsInv'
  <2>1. CASE UNCHANGED heldView
    BY <1>2, <2>1 DEF ViewsInv
  <2>2. ASSUME NEW h, NEW c \in Client, WrittenView(h[1], h[2]),
               heldView' = [heldView EXCEPT ![c] = h]
        PROVE  ViewsInv'
    <3>1. Held(heldView') \subseteq Held(heldView) \cup {h} /\ DOMAIN heldView' = Client
      BY <1>2, <2>2, HeldGrows DEF ViewsInv
    <3>2. QED
      BY <1>2, <2>2, <3>1 DEF ViewsInv
  <2>3. ASSUME NEW c \in Client, WriteView(c)
        PROVE  ViewsInv'
    <3>1. PICK v \in View : \E order \in SetToSeqs(v.heads) :
              heldView' = [heldView EXCEPT ![c] = <<HashView(ViewToProto(v, order)), v>>]
      BY <2>3 DEF WriteView
    <3>2. PICK order \in SetToSeqs(v.heads) :
              heldView' = [heldView EXCEPT ![c] = <<HashView(ViewToProto(v, order)), v>>]
      BY <3>1
    <3> DEFINE h == <<HashView(ViewToProto(v, order)), v>>
    <3>3. h[1] = HashView(ViewToProto(v, order)) /\ h[2] = v
      OBVIOUS
    <3>4. WrittenView(h[1], h[2])
      BY <3>3 DEF WrittenView
    <3> HIDE DEF h
    <3>5. QED
      BY <2>2, <3>2, <3>4 DEF h
  <2>4. ASSUME NEW c \in Client, ReadView(c)
        PROVE  ViewsInv'
    <3>1. PICK d \in Client :
              /\ heldView[d] # Nothing /\ heldView[d][1] \in DOMAIN views
              /\ heldView' = [heldView EXCEPT ![c] =
                    <<heldView[d][1], ViewFromProto(views[heldView[d][1]])>>]
      BY <2>4 DEF ReadView
    <3> DEFINE id == heldView[d][1]
               h == <<id, ViewFromProto(views[id])>>
    <3>2. PICK v \in View : \E order \in SetToSeqs(v.heads) :
              views[id] = ViewToProto(v, order) /\ id = HashView(views[id])
      BY <1>2, <3>1 DEF StoredInv
    <3>3. PICK order \in SetToSeqs(v.heads) :
              views[id] = ViewToProto(v, order) /\ id = HashView(views[id])
      BY <3>2
    <3>4. Carried(ViewFromProto(views[id])) = Carried(v)
      BY <3>3, ViewKept
    <3> HIDE DEF id
    <3>5. WrittenView(id, ViewFromProto(views[id]))
      BY <3>3, <3>4 DEF WrittenView
    <3>6. h[1] = id /\ h[2] = ViewFromProto(views[id])
      OBVIOUS
    <3> HIDE DEF h
    <3>7. QED
      BY <2>2, <3>1, <3>5, <3>6 DEF h, id
  <2>5. QED
    BY <1>2, <2>1, <2>3, <2>4 DEF Next, vars, WriteOperation, ReadOperation, Restart
<1>3. QED
  BY <1>1, <1>2, StoredInvariant, PTL DEF Spec

\* Every operation that a client holds gets the id it is held under.
LEMMA OperationsInvariant == Spec => []OperationsInv
<1>1. Init => OperationsInv
  BY DEF Init, OperationsInv, Held
<1>2. ASSUME OperationsInv, StoredInv, [Next]_vars
      PROVE  OperationsInv'
  <2>1. CASE UNCHANGED heldOp
    BY <1>2, <2>1 DEF OperationsInv
  <2>2. ASSUME NEW h, NEW c \in Client, WrittenOperation(h[1], h[2]),
               heldOp' = [heldOp EXCEPT ![c] = h]
        PROVE  OperationsInv'
    <3>1. Held(heldOp') \subseteq Held(heldOp) \cup {h} /\ DOMAIN heldOp' = Client
      BY <1>2, <2>2, HeldGrows DEF OperationsInv
    <3>2. QED
      BY <1>2, <2>2, <3>1 DEF OperationsInv
  <2>3. ASSUME NEW c \in Client, WriteOperation(c)
        PROVE  OperationsInv'
    <3>1. PICK o \in Operation :
              heldOp' = [heldOp EXCEPT ![c] = <<HashOperation(OperationToProto(o)), o>>]
      BY <2>3 DEF WriteOperation
    <3> DEFINE h == <<HashOperation(OperationToProto(o)), o>>
    <3>2. h[1] = HashOperation(OperationToProto(o)) /\ h[2] = o
      OBVIOUS
    <3>3. WrittenOperation(h[1], h[2])
      BY <3>2 DEF WrittenOperation
    <3> HIDE DEF h
    <3>4. QED
      BY <2>2, <3>1, <3>3 DEF h
  <2>4. ASSUME NEW c \in Client, ReadOperation(c)
        PROVE  OperationsInv'
    <3>1. PICK d \in Client :
              /\ heldOp[d] # Nothing /\ heldOp[d][1] \in DOMAIN operations
              /\ heldOp' = [heldOp EXCEPT ![c] =
                    <<heldOp[d][1], OperationFromProto(operations[heldOp[d][1]])>>]
      BY <2>4 DEF ReadOperation
    <3> DEFINE id == heldOp[d][1]
               h == <<id, OperationFromProto(operations[id])>>
    <3>2. PICK o \in Operation :
              operations[id] = OperationToProto(o) /\ id = HashOperation(operations[id])
      BY <1>2, <3>1 DEF StoredInv
    <3>3. CarriedOperation(OperationFromProto(operations[id])) = CarriedOperation(o)
      BY <3>2, ObjectsAssumption, OperationKept
    <3> HIDE DEF id
    <3>4. WrittenOperation(id, OperationFromProto(operations[id]))
      BY <3>2, <3>3 DEF WrittenOperation
    <3>5. h[1] = id /\ h[2] = OperationFromProto(operations[id])
      OBVIOUS
    <3> HIDE DEF h
    <3>6. QED
      BY <2>2, <3>1, <3>4, <3>5 DEF h, id
  <2>5. QED
    BY <1>2, <2>1, <2>3, <2>4 DEF Next, vars, WriteView, ReadView, Restart
<1>3. QED
  BY <1>1, <1>2, StoredInvariant, PTL DEF Spec

\* Whatever a client reads under an id is what was written under it, up to time
\* zones, tags and the padding of conflicts (read_view, read_operation).
THEOREM ReadsWereWritten ==
    ASSUME RemotesWithoutAt
    PROVE  Spec => []HeldWasWritten
<1>1. ViewsInv /\ OperationsInv => HeldWasWritten
  BY DEF ViewsInv, OperationsInv, HeldWasWritten
<1>2. QED
  BY <1>1, ViewsInvariant, OperationsInvariant, PTL

\* Whatever two clients hold under one id is the same view (hash_view), if the
\* views are without the cases in which the digest is not unique.
THEOREM IdsNameViews ==
    ASSUME RemotesWithoutAt, NoConflicts, WorkspacesApart
    PROVE  Spec => []IdNamesOneView
<1>1. ViewsInv => IdNamesOneView
  <2> SUFFICES ASSUME ViewsInv, NEW a \in Held(heldView), NEW b \in Held(heldView), a[1] = b[1]
               PROVE  Carried(a[2]) = Carried(b[2])
    BY DEF IdNamesOneView
  <2>1. WrittenView(a[1], a[2]) /\ WrittenView(b[1], b[2])
    BY DEF ViewsInv
  <2>2. PICK v \in View : /\ Carried(a[2]) = Carried(v)
                          /\ \E order \in SetToSeqs(v.heads) :
                                a[1] = HashView(ViewToProto(v, order))
    BY <2>1 DEF WrittenView
  <2>3. PICK u \in View : /\ Carried(b[2]) = Carried(u)
                          /\ \E order \in SetToSeqs(u.heads) :
                                b[1] = HashView(ViewToProto(u, order))
    BY <2>1 DEF WrittenView
  <2>4. PICK order \in SetToSeqs(v.heads) : a[1] = HashView(ViewToProto(v, order))
    BY <2>2
  <2>5. PICK order2 \in SetToSeqs(u.heads) : b[1] = HashView(ViewToProto(u, order2))
    BY <2>3
  <2>6. HashView(ViewToProto(v, order)) = HashView(ViewToProto(u, order2))
    BY <2>4, <2>5
  <2>7. Carried(v) = Carried(u)
    BY <2>6, OneViewOfId
  <2>8. QED
    BY <2>2, <2>3, <2>7
<1>2. QED
  BY <1>1, ViewsInvariant, PTL

\* Whatever two clients hold under one id is the same operation, up to time
\* zones, the division of the list of rewrites and an empty map for none
\* (hash_operation), for any operations.
THEOREM IdsNameOperations == Spec => []IdNamesOneOperation
<1>1. OperationsInv => IdNamesOneOperation
  <2> SUFFICES ASSUME OperationsInv, NEW a \in Held(heldOp), NEW b \in Held(heldOp), a[1] = b[1]
               PROVE  ToldById(a[2]) = ToldById(b[2])
    BY DEF IdNamesOneOperation
  <2>1. WrittenOperation(a[1], a[2]) /\ WrittenOperation(b[1], b[2])
    BY DEF OperationsInv
  <2>2. PICK o \in Operation : /\ CarriedOperation(a[2]) = CarriedOperation(o)
                               /\ a[1] = HashOperation(OperationToProto(o))
    BY <2>1 DEF WrittenOperation
  <2>3. PICK u \in Operation : /\ CarriedOperation(b[2]) = CarriedOperation(u)
                               /\ b[1] = HashOperation(OperationToProto(u))
    BY <2>1 DEF WrittenOperation
  <2>4. HashOperation(OperationToProto(o)) = HashOperation(OperationToProto(u))
    BY <2>2, <2>3
  <2>5. ToldById(o) = ToldById(u)
    BY <2>4, OneOperationOfId
  <2>6. ToldById(a[2]) = ToldById(o) /\ ToldById(b[2]) = ToldById(u)
    BY <2>2, <2>3, ObjectsAssumption, SameTold
  <2>7. QED
    BY <2>5, <2>6
<1>2. QED
  BY <1>1, OperationsInvariant, PTL

=============================================================================
