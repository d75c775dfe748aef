-------------------------- MODULE PacketPathProofs --------------------------
(***************************************************************************)
(* Proofs about PacketPath and the two modules it puts together: what the  *)
(* pushes of a rule make of a header, and which protocol a payload is      *)
(* taken for, whatever tags are in front of it.                            *)
(***************************************************************************)
EXTENDS PacketPath, SequenceTheorems, WellFoundedInduction, TLAPS

-----------------------------------------------------------------------------
(* The inductive invariant. *)

\* What the headers are made of.
Unit == {"d1", "d2", "d3", "s1", "s2", "s3"} \cup VlanTypes \cup EtherTypes
          \cup {t[1] : t \in VlanPushes \cup ReceivedTags \cup MplsPushes}
          \cup {t[2] : t \in VlanPushes \cup ReceivedTags \cup MplsPushes}

Units == Seq(Unit)

Tags == FlattenSeq(frame.tags)

FrameTypeOK ==
  /\ frame \in Received
  /\ room \in Nat
  /\ phase \in {"received", "prepared", "freed"}
  /\ asked \in Seq(Pushes)
  /\ payload \in Payloads
  /\ ruled \in BOOLEAN

\* As many tags as l2_len can count, or nothing that is placed by it.
Placed == LabelsFirst /\ (TagsFit \/ UnitsOf(Kept, "mpls") = << >>)

\* Each push takes from the headroom while there is any, and with the labels
\* in front of the tags the header is what it must be.
HeadInv ==
  /\ headroom = IF Len(asked) < room THEN room - Len(asked) ELSE 0
  /\ phase # "prepared" => asked = << >>
  /\ phase = "prepared" => l2_len = L2Field(L2(frame))
  /\ Placed => head = Expected

\* The methods asked so far have not found their protocol, but for the last
\* of them, whose protocol is the one found; and they are asked about what
\* lies behind l2_len.
SearchInv ==
  /\ phase = "prepared" => packet \in Behind(l2_len)
  /\ it \in 1 .. Len(Analyzer!methods_) + 1
  /\ phase # "prepared" => it = 1
  /\ \/ /\ ret = "UNKNOWN"
        /\ \A n \in 1 .. it - 1 : ~Analyzer!Finds(Analyzer!methods_[n], packet)
     \/ /\ it > 1
        /\ ret = Analyzer!methods_[it - 1]
        /\ Analyzer!Finds(ret, packet)
        /\ \A n \in 1 .. it - 2 : ~Analyzer!Finds(Analyzer!methods_[n], packet)

IInv == FrameTypeOK /\ HeadInv /\ SearchInv


-----------------------------------------------------------------------------
(* Recursive functions over the places of a sequence. *)

\* A set of numbers that is not empty has a least element.
LEMMA LeastElement ==
  ASSUME NEW S \in SUBSET Nat, S # {}
  PROVE  Min(S) \in S /\ \A x \in S : Min(S) <= x
<1>1. \E x \in S : \A y \in S : ~(<<y, x>> \in OpToRel(<, Nat))
  BY NatLessThanWellFounded, WFMin
<1>2. ASSUME NEW x \in S, NEW y \in S, ~(<<y, x>> \in OpToRel(<, Nat))
      PROVE  x <= y
  <2>1. <<y, x>> \in Nat \X Nat /\ <<y, x>>[1] = y /\ <<y, x>>[2] = x
    OBVIOUS
  <2>2. ~(y < x)
    BY <1>2, <2>1, Zenon DEF OpToRel
  <2> QED
    BY <2>2
<1>3. \E x \in S : \A y \in S : x <= y
  BY <1>1, <1>2
<1> QED
  BY <1>3 DEF Min

\* FlattenSeq has a value: were there a first length for which its recursion
\* has no solution, the solution for one less could be continued.
LEMMA FlattenIs ==
  ASSUME NEW seqs, NEW N \in Nat \ {0}, Len(seqs) = N
  PROVE  \E f : /\ f = [i \in 1 .. N |-> IF i = 1 THEN seqs[i] ELSE f[i - 1] \o seqs[i]]
                /\ FlattenSeq(seqs) = f[N]
<1> DEFINE Solves(f, k) ==
             f = [i \in 1 .. k |-> IF i = 1 THEN seqs[i] ELSE f[i - 1] \o seqs[i]]
           Unsolved == {k \in Nat : ~ \E f : Solves(f, k)}
<1>1. \A k \in Nat : \E f : Solves(f, k)
  <2> SUFFICES ASSUME Unsolved # {} PROVE FALSE
    OBVIOUS
  <2>1. PICK k \in Unsolved : \A y \in Unsolved : k <= y
    <3> Unsolved \in SUBSET Nat
      OBVIOUS
    <3> HIDE DEF Unsolved
    <3> QED
      BY LeastElement
  <2>2. CASE k = 0
    <3>1. Solves([i \in 1 .. 0 |-> << >>], 0)
      OBVIOUS
    <3> QED
      BY <2>1, <2>2, <3>1
  <2>3. CASE k # 0
    <3>1. k \in Nat /\ k - 1 \in Nat /\ k - 1 \notin Unsolved
      <4>1. k \in Nat
        OBVIOUS
      <4> HIDE DEF Unsolved
      <4> QED
        BY <2>1, <2>3, <4>1
    <3>2. PICK f : Solves(f, k - 1)
      BY <3>1
    <3> DEFINE g == [i \in 1 .. k |-> IF i < k THEN f[i]
                                      ELSE IF k = 1 THEN seqs[k]
                                      ELSE f[k - 1] \o seqs[k]]
    <3>3. \A i \in 1 .. k - 1 : g[i] = f[i]
      BY <3>1
    <3>4. \A i \in 1 .. k - 1 : f[i] = IF i = 1 THEN seqs[i] ELSE f[i - 1] \o seqs[i]
      BY <3>2
    <3>5. \A i \in 1 .. k : g[i] = IF i = 1 THEN seqs[i] ELSE g[i - 1] \o seqs[i]
      <4> TAKE i \in 1 .. k
      <4>1. CASE i = k
        <5>1. g[i] = IF k = 1 THEN seqs[k] ELSE f[k - 1] \o seqs[k]
          BY <3>1, <4>1
        <5>2. k # 1 => k - 1 \in 1 .. k - 1
          BY <2>3, <3>1
        <5> HIDE DEF g
        <5> QED
          BY <3>3, <4>1, <5>1, <5>2
      <4>2. CASE i # k
        <5>1. i \in 1 .. k - 1 /\ (i # 1 => i - 1 \in 1 .. k - 1)
          BY <3>1, <4>2
        <5> HIDE DEF g
        <5> QED
          BY <3>3, <3>4, <5>1
      <4> QED
        BY <4>1, <4>2
    <3>6. Solves(g, k)
      BY <3>5
    <3> QED
      BY <2>1, <3>6
  <2> QED
    BY <2>2, <2>3
<1> DEFINE flatten == CHOOSE f : Solves(f, N)
<1>2. Solves(flatten, N)
  BY <1>1
<1>3. FlattenSeq(seqs) = flatten[N]
  BY DEF FlattenSeq
<1> QED
  BY <1>2, <1>3


\* The same of UnitsOf.
LEMMA UnitsIs ==
  ASSUME NEW pushes \in Seq(Pushes), NEW kind
  PROVE  \E f : /\ f[0] = << >>
                /\ \A n \in 1 .. Len(pushes) :
                     f[n] = IF pushes[n].kind = kind THEN pushes[n].units \o f[n - 1]
                                                     ELSE f[n - 1]
                /\ UnitsOf(pushes, kind) = f[Len(pushes)]
<1> DEFINE N == Len(pushes)
           Solves(f, k) ==
             f = [n \in 0 .. k |->
                    IF n = 0 THEN << >>
                    ELSE IF pushes[n].kind = kind THEN pushes[n].units \o f[n - 1]
                    ELSE f[n - 1]]
           Unsolved == {k \in Nat : ~ \E f : Solves(f, k)}
<1>0. N \in Nat
  BY LenProperties
<1>1. \A k \in Nat : \E f : Solves(f, k)
  <2> SUFFICES ASSUME Unsolved # {} PROVE FALSE
    OBVIOUS
  <2>1. PICK k \in Unsolved : \A y \in Unsolved : k <= y
    <3> Unsolved \in SUBSET Nat
      OBVIOUS
    <3> HIDE DEF Unsolved
    <3> QED
      BY LeastElement
  <2>2. CASE k = 0
    <3>1. Solves([n \in 0 .. 0 |-> << >>], 0)
      OBVIOUS
    <3> QED
      BY <2>1, <2>2, <3>1
  <2>3. CASE k # 0
    <3>1. k \in Nat /\ k - 1 \in Nat /\ k - 1 \notin Unsolved
      <4>1. k \in Nat
        OBVIOUS
      <4> HIDE DEF Unsolved
      <4> QED
        BY <2>1, <2>3, <4>1
    <3>2. PICK f : Solves(f, k - 1)
      BY <3>1
    <3> DEFINE last == IF pushes[k].kind = kind THEN pushes[k].units \o f[k - 1]
                                                ELSE f[k - 1]
               g == [n \in 0 .. k |-> IF n < k THEN f[n] ELSE last]
    <3>3. \A n \in 0 .. k - 1 : g[n] = f[n]
      BY <3>1
    <3>4. \A n \in 0 .. k - 1 :
            f[n] = IF n = 0 THEN << >>
                   ELSE IF pushes[n].kind = kind THEN pushes[n].units \o f[n - 1]
                   ELSE f[n - 1]
      BY <3>2
    <3>5. \A n \in 0 .. k :
            g[n] = IF n = 0 THEN << >>
                   ELSE IF pushes[n].kind = kind THEN pushes[n].units \o g[n - 1]
                   ELSE g[n - 1]
      <4> TAKE n \in 0 .. k
      <4>1. CASE n = k
        <5>1. g[n] = last
          BY <3>1, <4>1
        <5>2. k - 1 \in 0 .. k - 1
          BY <2>3, <3>1
        <5>3. g[k - 1] = f[k - 1]
          BY <3>3, <5>2
        <5> HIDE DEF g
        <5> QED
          BY <2>3, <4>1, <5>1, <5>3
      <4>2. CASE n # k
        <5>1. n \in 0 .. k - 1 /\ (n # 0 => n - 1 \in 0 .. k - 1)
          BY <3>1, <4>2
        <5> HIDE DEF g, last
        <5> QED
          BY <3>3, <3>4, <5>1
      <4> QED
        BY <4>1, <4>2
    <3>6. Solves(g, k)
      BY <3>5
    <3> QED
      BY <2>1, <3>6
  <2> QED
    BY <2>2, <2>3
<1> DEFINE units == CHOOSE f : Solves(f, N)
<1>2. Solves(units, N)
  BY <1>0, <1>1
<1>3. UnitsOf(pushes, kind) = units[N]
  BY DEF UnitsOf
<1>4. /\ units[0] = << >>
      /\ \A n \in 1 .. N :
           units[n] = IF pushes[n].kind = kind THEN pushes[n].units \o units[n - 1]
                                               ELSE units[n - 1]
  <2>1. units = [n \in 0 .. N |->
                   IF n = 0 THEN << >>
                   ELSE IF pushes[n].kind = kind THEN pushes[n].units \o units[n - 1]
                   ELSE units[n - 1]]
    BY <1>2
  <2> HIDE DEF units, N
  <2>2. 0 \in 0 .. N /\ \A n \in 1 .. N : n \in 0 .. N /\ n # 0
    BY <1>0
  <2>3. units[0] = << >>
    BY <2>1, <2>2
  <2> QED
    BY <2>1, <2>2, <2>3
<1> QED
  BY <1>3, <1>4


\* A number of which something holds that passes from each number below N to
\* the next is stated by the numbers it fails for: there is no first.
LEMMA NoFirst ==
  ASSUME NEW N \in Nat, NEW Fails \in SUBSET (0 .. N), 0 \notin Fails,
         \A n \in 1 .. N : n - 1 \notin Fails => n \notin Fails
  PROVE  Fails = {}
<1> SUFFICES ASSUME Fails # {} PROVE FALSE
  OBVIOUS
<1>1. Fails \in SUBSET Nat
  OBVIOUS
<1>2. Min(Fails) \in Fails /\ \A x \in Fails : Min(Fails) <= x
  BY <1>1, LeastElement
<1>3. PICK m \in Fails : \A x \in Fails : m <= x
  BY <1>2
<1>4. m \in 0 .. N /\ m # 0
  OBVIOUS
<1>5. m \in 1 .. N /\ ~(m <= m - 1)
  BY <1>4
<1>6. m - 1 \notin Fails
  BY <1>3, <1>5
<1> QED
  BY <1>5, <1>6

-----------------------------------------------------------------------------
(* Units of pushes and of tags. *)

LEMMA PairTyped ==
  ASSUME NEW t \in VlanPushes \cup ReceivedTags \cup MplsPushes
  PROVE  t \in Units /\ Len(t) = 2
<1>1. t = <<t[1], t[2]>>
  BY PacketModifierAssumption
<1>2. PICK a, b : a = t[1] /\ b = t[2]
  OBVIOUS
<1>3. a \in Unit /\ b \in Unit
  BY <1>2 DEF Unit
<1>4. <<a, b>> \in Seq(Unit) /\ Len(<<a, b>>) = 2
  BY <1>3
<1> QED
  BY <1>1, <1>2, <1>4 DEF Units

LEMMA PushTyped ==
  ASSUME NEW push \in Pushes
  PROVE  /\ push.units \in Units /\ Len(push.units) = 2
         /\ push.kind \in {"vlan", "mpls"}
<1>1. /\ push.kind \in {"vlan", "mpls"}
      /\ push.units \in VlanPushes \cup ReceivedTags \cup MplsPushes
  BY DEF Pushes
<1> QED
  BY <1>1, PairTyped

LEMMA UnitsTyped ==
  ASSUME NEW s \in Seq(Pushes), NEW kind
  PROVE  UnitsOf(s, kind) \in Units
<1> DEFINE N == Len(s)
<1>1. N \in Nat
  BY LenProperties
<1>2. PICK f : /\ f[0] = << >>
               /\ \A n \in 1 .. N :
                    f[n] = IF s[n].kind = kind THEN s[n].units \o f[n - 1] ELSE f[n - 1]
               /\ UnitsOf(s, kind) = f[N]
  BY UnitsIs
<1> DEFINE Fails == {n \in 0 .. N : f[n] \notin Units}
<1>3. f[0] \in Units
  BY <1>1, <1>2, EmptySeq DEF Units
<1>4. ASSUME NEW n \in 1 .. N, f[n - 1] \in Units
      PROVE  f[n] \in Units
  <2>1. s[n] \in Pushes
    BY ElementOfSeq
  <2>2. s[n].units \in Units
    BY <2>1, PushTyped
  <2>3. f[n] = IF s[n].kind = kind THEN s[n].units \o f[n - 1] ELSE f[n - 1]
    BY <1>1, <1>2
  <2> QED
    BY <1>4, <2>2, <2>3, ConcatProperties DEF Units
<1>5. Fails = {}
  <2>1. \A n \in 1 .. N : n - 1 \in 0 .. N /\ n \in 0 .. N
    BY <1>1
  <2>2. 0 \notin Fails /\ \A n \in 1 .. N : n - 1 \notin Fails => n \notin Fails
    BY <1>3, <1>4, <2>1
  <2>3. Fails \in SUBSET (0 .. N)
    OBVIOUS
  <2> HIDE DEF Fails, N
  <2> QED
    BY <1>1, <2>2, <2>3, NoFirst
<1> QED
  BY <1>1, <1>2, <1>5

LEMMA NoUnits ==
  ASSUME NEW s \in Seq(Pushes), NEW kind, \A n \in 1 .. Len(s) : s[n].kind # kind
  PROVE  UnitsOf(s, kind) = << >>
<1> DEFINE N == Len(s)
<1>1. N \in Nat
  BY LenProperties
<1>2. PICK f : /\ f[0] = << >>
               /\ \A n \in 1 .. N :
                    f[n] = IF s[n].kind = kind THEN s[n].units \o f[n - 1] ELSE f[n - 1]
               /\ UnitsOf(s, kind) = f[N]
  BY UnitsIs
<1> DEFINE Fails == {n \in 0 .. N : f[n] # << >>}
<1>3. f[0] = << >>
  BY <1>1, <1>2
<1>4. ASSUME NEW n \in 1 .. N, f[n - 1] = << >>
      PROVE  f[n] = << >>
  BY <1>1, <1>2, <1>4
<1>5. Fails = {}
  <2>1. \A n \in 1 .. N : n - 1 \in 0 .. N /\ n \in 0 .. N
    BY <1>1
  <2>2. 0 \notin Fails /\ \A n \in 1 .. N : n - 1 \notin Fails => n \notin Fails
    BY <1>3, <1>4, <2>1
  <2>3. Fails \in SUBSET (0 .. N)
    OBVIOUS
  <2> HIDE DEF Fails, N
  <2> QED
    BY <1>1, <2>2, <2>3, NoFirst
<1> QED
  BY <1>1, <1>2, <1>5

\* The units of one push more come first.
LEMMA OneMorePush ==
  ASSUME NEW s \in Seq(Pushes), NEW push \in Pushes, NEW kind
  PROVE  UnitsOf(Append(s, push), kind) =
           IF push.kind = kind THEN push.units \o UnitsOf(s, kind)
                               ELSE UnitsOf(s, kind)
<1> DEFINE N == Len(s)
           t == Append(s, push)
<1>1. /\ N \in Nat /\ Len(t) = N + 1 /\ N + 1 \in Nat
      /\ \A n \in 1 .. N : t[n] = s[n]
      /\ t[N + 1] = push /\ t \in Seq(Pushes)
  BY LenProperties, AppendProperties
<1> HIDE DEF N, t
<1>2. PICK f : /\ f[0] = << >>
               /\ \A n \in 1 .. N :
                    f[n] = IF s[n].kind = kind THEN s[n].units \o f[n - 1] ELSE f[n - 1]
               /\ UnitsOf(s, kind) = f[N]
  BY UnitsIs DEF N
<1>3. PICK g : /\ g[0] = << >>
               /\ \A n \in 1 .. Len(t) :
                    g[n] = IF t[n].kind = kind THEN t[n].units \o g[n - 1] ELSE g[n - 1]
               /\ UnitsOf(t, kind) = g[Len(t)]
  <2>1. t \in Seq(Pushes)
    BY <1>1
  <2> QED
    BY <2>1, UnitsIs
<1> DEFINE Fails == {n \in 0 .. N : f[n] # g[n]}
<1>4. f[0] = g[0]
  BY <1>1, <1>2, <1>3
<1>5. ASSUME NEW n \in 1 .. N, f[n - 1] = g[n - 1]
      PROVE  f[n] = g[n]
  <2>1. f[n] = IF s[n].kind = kind THEN s[n].units \o f[n - 1] ELSE f[n - 1]
    BY <1>1, <1>2
  <2>2. g[n] = IF t[n].kind = kind THEN t[n].units \o g[n - 1] ELSE g[n - 1]
    <3>1. n \in 1 .. Len(t)
      BY <1>1
    <3> QED
      BY <1>3, <3>1
  <2> QED
    BY <1>1, <1>5, <2>1, <2>2
<1>6. Fails = {}
  <2>1. \A n \in 1 .. N : n - 1 \in 0 .. N /\ n \in 0 .. N
    BY <1>1
  <2>2. 0 \notin Fails /\ \A n \in 1 .. N : n - 1 \notin Fails => n \notin Fails
    BY <1>4, <1>5, <2>1
  <2>3. Fails \in SUBSET (0 .. N)
    OBVIOUS
  <2> HIDE DEF Fails
  <2> QED
    BY <1>1, <2>2, <2>3, NoFirst
<1>7. f[N] = g[N]
  BY <1>1, <1>6
<1>8. g[Len(t)] = IF push.kind = kind THEN push.units \o g[N] ELSE g[N]
  <2>1. PICK k : k = Len(t)
    OBVIOUS
  <2>2. k \in 1 .. Len(t) /\ k - 1 = N /\ t[k] = push
    BY <1>1, <2>1
  <2>3. g[k] = IF t[k].kind = kind THEN t[k].units \o g[k - 1] ELSE g[k - 1]
    BY <1>3, <2>2
  <2> QED
    BY <2>1, <2>2, <2>3
<1> QED
  BY <1>2, <1>3, <1>7, <1>8 DEF t


LEMMA TagTyped ==
  ASSUME NEW t \in ReceivedTags
  PROVE  t \in Units /\ Len(t) = 2 /\ t[1] \in VlanTypes
<1>1. t \in VlanPushes \cup ReceivedTags \cup MplsPushes /\ t[1] \in VlanTypes
  BY PacketModifierAssumption
<1> QED
  BY <1>1, PairTyped

LEMMA FrameTyped ==
  ASSUME frame \in Received
  PROVE  /\ frame.tags \in Seq(ReceivedTags) /\ Len(frame.tags) \in Nat
         /\ frame.type \in EtherTypes
<1>1. frame.tags \in Seq(ReceivedTags) /\ frame.type \in EtherTypes
  BY PacketModifierAssumption DEF Frames
<1> QED
  BY <1>1, LenProperties

\* The units of the tags received: two for each, of which the first is a type
\* of VLAN.
LEMMA TagsAre ==
  ASSUME NEW tags \in Seq(ReceivedTags)
  PROVE  /\ FlattenSeq(tags) \in Units
         /\ Len(FlattenSeq(tags)) = 2 * Len(tags)
         /\ \A j \in 1 .. Len(tags) : FlattenSeq(tags)[2 * j - 1] \in VlanTypes
<1> DEFINE N == Len(tags)
<1>1. N \in Nat /\ \A n \in 1 .. N : tags[n] \in ReceivedTags
  BY LenProperties, ElementOfSeq
<1>2. CASE N = 0
  <2>1. tags = << >> /\ FlattenSeq(tags) = tags
    BY <1>2, EmptySeq DEF FlattenSeq
  <2>2. << >> \in Units /\ Len(<< >>) = 0 /\ 1 .. 0 = {} /\ 2 * 0 = 0
    BY EmptySeq DEF Units
  <2>3. Len(tags) = 0
    BY <1>2
  <2> HIDE DEF N
  <2> QED
    BY <2>1, <2>2, <2>3
<1>3. CASE N # 0
  <2>1. PICK f : /\ f = [i \in 1 .. N |-> IF i = 1 THEN tags[i] ELSE f[i - 1] \o tags[i]]
                 /\ FlattenSeq(tags) = f[N]
    BY <1>1, <1>3, FlattenIs
  <2> DEFINE Good(n) == /\ f[n] \in Units /\ Len(f[n]) = 2 * n
                        /\ \A j \in 1 .. n : f[n][2 * j - 1] \in VlanTypes
             Fails == {n \in 0 .. N : n # 0 /\ ~Good(n)}
  <2> HIDE DEF N
  <2>2. ASSUME NEW n \in 1 .. N, n = 1 \/ Good(n - 1)
        PROVE  Good(n)
    <3>1. /\ n \in Nat \ {0}
          /\ tags[n] \in Units /\ Len(tags[n]) = 2 /\ tags[n][1] \in VlanTypes
      BY <1>1, TagTyped
    <3>2. f[n] = IF n = 1 THEN tags[n] ELSE f[n - 1] \o tags[n]
      BY <2>1
    <3>3. CASE n = 1
      <4>1. \A j \in 1 .. 1 : j = 1 /\ 2 * j - 1 = 1
        OBVIOUS
      <4>2. Len(f[n]) = 2 * n
        BY <3>1, <3>2, <3>3
      <4> QED
        BY <3>1, <3>2, <3>3, <4>1, <4>2
    <3>4. CASE n # 1
      <4>1. PICK x, y, z : x = f[n - 1] /\ y = tags[n] /\ z = f[n]
        OBVIOUS
      <4>2. /\ x \in Seq(Unit) /\ Len(x) = 2 * (n - 1)
            /\ \A j \in 1 .. n - 1 : x[2 * j - 1] \in VlanTypes
            /\ y \in Seq(Unit) /\ Len(y) = 2 /\ y[1] \in VlanTypes
            /\ z = x \o y
        BY <2>2, <3>1, <3>2, <3>4, <4>1 DEF Units
      <4>3. /\ z \in Units /\ Len(z) = Len(x) + Len(y)
            /\ \A i \in 1 .. Len(x) + Len(y) :
                 z[i] = IF i <= Len(x) THEN x[i] ELSE y[i - Len(x)]
        BY <4>2, ConcatProperties DEF Units
      <4>4. Len(z) = 2 * n
        BY <3>1, <4>2, <4>3
      <4>5. ASSUME NEW j \in 1 .. n PROVE z[2 * j - 1] \in VlanTypes
        <5>1. PICK i : i = 2 * j - 1
          OBVIOUS
        <5>2. /\ i \in 1 .. Len(x) + Len(y)
              /\ j # n => i <= Len(x) /\ j \in 1 .. n - 1
              /\ j = n => ~(i <= Len(x)) /\ i - Len(x) = 1
          BY <3>1, <4>2, <5>1
        <5>3. z[i] \in VlanTypes
          <6>1. CASE j = n
            BY <4>2, <4>3, <5>2, <6>1
          <6>2. CASE j # n
            BY <4>2, <4>3, <5>1, <5>2, <6>2
          <6> QED
            BY <6>1, <6>2
        <5> QED
          BY <5>1, <5>3
      <4> QED
        BY <4>1, <4>3, <4>4, <4>5
    <3> QED
      BY <3>3, <3>4
  <2>3. Fails = {}
    <3>1. \A n \in 1 .. N : n \in 0 .. N /\ n # 0 /\ n - 1 \in 0 .. N /\ (n - 1 = 0 => n = 1)
      BY <1>1
    <3>2. Fails \in SUBSET (0 .. N) /\ 0 \notin Fails
      OBVIOUS
    <3>3. \A n \in 1 .. N : n - 1 \notin Fails => n \notin Fails
      <4> HIDE DEF Good
      <4> QED
        BY <2>2, <3>1
    <3> HIDE DEF Fails
    <3> QED
      BY <1>1, <3>2, <3>3, NoFirst
  <2>4. Good(N)
    <3>1. N \in 0 .. N
      BY <1>1
    <3> HIDE DEF Good
    <3> QED
      BY <1>3, <2>3, <3>1
  <2> QED
    BY <2>1, <2>4 DEF N
<1> QED
  BY <1>2, <1>3


-----------------------------------------------------------------------------
(* The header: its parts, and the place of the ethertype. *)

LEMMA Joined ==
  ASSUME NEW s \in Units, NEW t \in Units
  PROVE  /\ s \o t \in Units /\ Len(s \o t) = Len(s) + Len(t)
         /\ Len(s) \in Nat /\ Len(t) \in Nat
         /\ \A n \in 1 .. Len(s) : (s \o t)[n] = s[n]
         /\ \A n \in 1 .. Len(t) : (s \o t)[Len(s) + n] = t[n]
<1>1. /\ s \o t \in Units /\ Len(s \o t) = Len(s) + Len(t)
      /\ Len(s) \in Nat /\ Len(t) \in Nat
      /\ \A n \in 1 .. Len(s) + Len(t) :
           (s \o t)[n] = IF n <= Len(s) THEN s[n] ELSE t[n - Len(s)]
  BY ConcatProperties, LenProperties DEF Units
<1>2. \A n \in 1 .. Len(s) : (s \o t)[n] = s[n]
  BY <1>1
<1>3. ASSUME NEW n \in 1 .. Len(t) PROVE (s \o t)[Len(s) + n] = t[n]
  <2>1. PICK m : m = Len(s) + n
    OBVIOUS
  <2>2. m \in 1 .. Len(s) + Len(t) /\ ~(m <= Len(s)) /\ m - Len(s) = n
    BY <1>1, <2>1
  <2>3. (s \o t)[m] = t[n]
    BY <1>1, <2>2
  <2> QED
    BY <2>1, <2>3
<1> QED
  BY <1>1, <1>2, <1>3

Regroup(s, t, u) == (s \o t) \o u = s \o (t \o u)

LEMMA Regrouped ==
  ASSUME NEW s \in Units, NEW t \in Units, NEW u \in Units
  PROVE  Regroup(s, t, u)
BY ConcatAssociative DEF Regroup, Units

\* A sequence that is put together is cut where it was joined.
LEMMA Cut ==
  ASSUME NEW s \in Units, NEW t \in Units
  PROVE  /\ SubSeq(s \o t, 1, Len(s)) = s
         /\ SubSeq(s \o t, Len(s) + 1, Len(s \o t)) = t
<1> DEFINE u == s \o t
           k == Len(s)
           m == Len(t)
<1>1. /\ u \in Units /\ Len(u) = k + m /\ k \in Nat /\ m \in Nat
      /\ \A n \in 1 .. k : u[n] = s[n]
      /\ \A n \in 1 .. m : u[k + n] = t[n]
      /\ \A n \in 1 .. k + m : u[n] \in Unit
  <2>1. u \in Units /\ Len(u) = k + m
    BY Joined
  <2>2. \A n \in 1 .. Len(u) : u[n] \in Unit
    BY <2>1, ElementOfSeq DEF Units
  <2> QED
    BY <2>1, <2>2, Joined
<1> HIDE DEF u, k, m
<1>2. /\ SubSeq(u, 1, k) \in Units /\ Len(SubSeq(u, 1, k)) = k
      /\ \A n \in 1 .. k : SubSeq(u, 1, k)[n] = u[n]
  <2>1. 1 \in Int /\ k \in Int /\ \A n \in 1 .. k : u[n] \in Unit
    BY <1>1
  <2>2. /\ SubSeq(u, 1, k) \in Seq(Unit)
        /\ Len(SubSeq(u, 1, k)) = IF 1 <= k THEN k - 1 + 1 ELSE 0
        /\ \A n \in 1 .. k - 1 + 1 : SubSeq(u, 1, k)[n] = u[1 + n - 1]
    BY <2>1, SubSeqProperties
  <2>3. k - 1 + 1 = k /\ (~(1 <= k) => k = 0) /\ \A n \in 1 .. k : 1 + n - 1 = n
    BY <1>1
  <2> QED
    BY <2>2, <2>3 DEF Units
<1>3. /\ SubSeq(u, k + 1, k + m) \in Units /\ Len(SubSeq(u, k + 1, k + m)) = m
      /\ \A n \in 1 .. m : SubSeq(u, k + 1, k + m)[n] = u[k + n]
  <2>1. PICK p, q : p = k + 1 /\ q = k + m
    OBVIOUS
  <2>2. p \in Int /\ q \in Int /\ \A n \in p .. q : u[n] \in Unit
    BY <1>1, <2>1
  <2>3. /\ SubSeq(u, p, q) \in Seq(Unit)
        /\ Len(SubSeq(u, p, q)) = IF p <= q THEN q - p + 1 ELSE 0
        /\ \A n \in 1 .. q - p + 1 : SubSeq(u, p, q)[n] = u[p + n - 1]
    BY <2>2, SubSeqProperties
  <2>4. q - p + 1 = m /\ (~(p <= q) => m = 0) /\ \A n \in 1 .. m : p + n - 1 = k + n
    BY <1>1, <2>1
  <2> QED
    BY <2>1, <2>3, <2>4 DEF Units
<1>4. s \in Seq(Unit) /\ t \in Seq(Unit) /\ Len(s) = k /\ Len(t) = m
  BY DEF k, m, Units
<1>5. SubSeq(u, 1, k) = s
  BY <1>1, <1>2, <1>4, SeqEqual DEF Units
<1>6. SubSeq(u, k + 1, k + m) = t
  BY <1>1, <1>3, <1>4, SeqEqual DEF Units
<1> QED
  BY <1>1, <1>5, <1>6 DEF u, k

LEMMA AddressesAre == Addresses \in Units /\ Len(Addresses) = 6
<1>1. Addresses \in Seq({"d1", "d2", "d3", "s1", "s2", "s3"}) /\ Len(Addresses) = 6
  BY DEF Addresses
<1>2. {"d1", "d2", "d3", "s1", "s2", "s3"} \subseteq Unit
  BY DEF Unit
<1> QED
  BY <1>1, <1>2, SeqMonotonic DEF Units

LEMMA TypeIsUnit ==
  ASSUME frame \in Received
  PROVE  <<frame.type>> \in Units /\ Len(<<frame.type>>) = 1
<1>1. frame.type \in Unit
  BY FrameTyped DEF Unit
<1> QED
  BY <1>1 DEF Units

LEMMA TagsOfFrame ==
  ASSUME frame \in Received
  PROVE  /\ Tags \in Units /\ Len(Tags) = 2 * Len(frame.tags) /\ Len(frame.tags) \in Nat
         /\ \A j \in 1 .. Len(frame.tags) : Tags[2 * j - 1] \in VlanTypes
BY FrameTyped, TagsAre DEF Tags

LEMMA Even ==
  ASSUME NEW n \in Nat, n % 2 = 0
  PROVE  \E j \in Nat : n = 2 * j
<1>1. n \div 2 \in Nat /\ n = 2 * (n \div 2)
  OBVIOUS
<1> QED
  BY <1>1

\* The ethertype is found behind all the tags.
LEMMA TypeFound ==
  ASSUME frame \in Received, head = Addresses \o Tags \o <<frame.type>>
  PROVE  TypePlace = L2(frame)
<1> DEFINE N == Len(frame.tags)
           front == Addresses \o Tags
           Found(n) == /\ head[n] \notin VlanTypes
                       /\ \A k \in 7 .. n - 1 : (k - 7) % 2 = 0 => head[k] \in VlanTypes
                       /\ (n - 7) % 2 = 0
<1>1. /\ N \in Nat /\ Tags \in Units /\ Len(Tags) = 2 * N
      /\ \A j \in 1 .. N : Tags[2 * j - 1] \in VlanTypes
  BY TagsOfFrame
<1>2. front \in Units /\ Len(front) = 6 + 2 * N
      /\ \A i \in 1 .. 2 * N : front[6 + i] = Tags[i]
  <2>1. /\ front \in Units /\ Len(front) = Len(Addresses) + Len(Tags)
        /\ \A i \in 1 .. Len(Tags) : front[Len(Addresses) + i] = Tags[i]
    BY <1>1, AddressesAre, Joined
  <2> HIDE DEF front, N
  <2> QED
    BY <1>1, <2>1, AddressesAre
<1>3. /\ Len(head) = 7 + 2 * N
      /\ \A i \in 1 .. 6 + 2 * N : head[i] = front[i]
      /\ head[6 + 2 * N + 1] = frame.type
  <2>1. <<frame.type>> \in Units /\ Len(<<frame.type>>) = 1 /\ <<frame.type>>[1] = frame.type
    BY TypeIsUnit
  <2>2. head = front \o <<frame.type>>
    OBVIOUS
  <2> HIDE DEF front, N
  <2>3. /\ Len(head) = Len(front) + 1
        /\ \A i \in 1 .. Len(front) : head[i] = front[i]
        /\ \A i \in 1 .. 1 : head[Len(front) + i] = <<frame.type>>[i]
    <3>1. /\ front \o <<frame.type>> \in Units
          /\ Len(front \o <<frame.type>>) = Len(front) + Len(<<frame.type>>)
          /\ \A n \in 1 .. Len(front) : (front \o <<frame.type>>)[n] = front[n]
          /\ \A n \in 1 .. Len(<<frame.type>>) :
               (front \o <<frame.type>>)[Len(front) + n] = <<frame.type>>[n]
      BY <1>2, <2>1, Joined
    <3> QED
      BY <2>1, <2>2, <3>1
  <2>4. head[Len(front) + 1] = frame.type
    BY <2>1, <2>3
  <2> QED
    BY <1>1, <1>2, <2>3, <2>4
<1>4. frame.type \notin VlanTypes
  BY FrameTyped DEF EtherTypes, IpTypes, VlanTypes
<1> HIDE DEF N, front
<1>5. ASSUME NEW j \in 1 .. N PROVE head[5 + 2 * j] \in VlanTypes
  <2>1. PICK i : i = 2 * j - 1
    OBVIOUS
  <2>2. i \in 1 .. 2 * N /\ 6 + i \in 1 .. 6 + 2 * N /\ 6 + i = 5 + 2 * j
    BY <1>1, <2>1
  <2>3. head[6 + i] = Tags[i]
    BY <1>2, <1>3, <2>2
  <2>4. Tags[i] \in VlanTypes
    BY <1>1, <2>1
  <2> QED
    BY <2>2, <2>3, <2>4
<1>6. Found(7 + 2 * N) /\ 7 + 2 * N \in 7 .. Len(head)
  <2>1. head[7 + 2 * N] \notin VlanTypes
    <3>1. 6 + 2 * N + 1 = 7 + 2 * N
      BY <1>1
    <3> QED
      BY <1>3, <1>4, <3>1
  <2>2. ASSUME NEW k \in 7 .. 7 + 2 * N - 1, (k - 7) % 2 = 0
        PROVE  head[k] \in VlanTypes
    <3>0. PICK m : m = k - 7
      OBVIOUS
    <3>1. PICK j \in Nat : k - 7 = 2 * j
      <4>1. m \in Nat /\ m % 2 = 0
        BY <1>1, <2>2, <3>0
      <4> QED
        BY <3>0, <4>1, Even
    <3>2. j + 1 \in 1 .. N /\ 5 + 2 * (j + 1) = k
      BY <1>1, <3>1
    <3> QED
      BY <1>5, <3>2
  <2>3. (7 + 2 * N - 7) % 2 = 0 /\ 7 + 2 * N \in 7 .. Len(head)
    BY <1>1, <1>3
  <2>4. Found(7 + 2 * N)
    <3>1. PICK n : n = 7 + 2 * N
      OBVIOUS
    <3>2. ASSUME NEW k \in 7 .. n - 1, (k - 7) % 2 = 0 PROVE head[k] \in VlanTypes
      <4>1. k \in 7 .. 7 + 2 * N - 1
        BY <1>1, <3>1
      <4> QED
        BY <2>2, <3>2, <4>1, Zenon
    <3>3. Found(n)
      BY <1>1, <2>1, <2>3, <3>1, <3>2
    <3> HIDE DEF Found
    <3> QED
      BY <3>1, <3>3
  <2> QED
    BY <2>3, <2>4
<1>7. ASSUME NEW n \in 7 .. Len(head), Found(n) PROVE n = 7 + 2 * N
  <2>0. PICK m : m = n - 7
    OBVIOUS
  <2>1. PICK j \in Nat : n - 7 = 2 * j
    <3>1. m \in Nat /\ m % 2 = 0
      BY <1>1, <1>3, <1>7, <2>0
    <3> QED
      BY <2>0, <3>1, Even
  <2>2. j \in 0 .. N
    BY <1>1, <1>3, <2>1
  <2>3. CASE j = N
    BY <1>1, <2>1, <2>3
  <2>4. CASE j # N
    <3>1. j + 1 \in 1 .. N /\ 5 + 2 * (j + 1) = n
      BY <1>1, <2>1, <2>2, <2>4
    <3> QED
      BY <1>5, <1>7, <3>1
  <2> QED
    BY <2>3, <2>4
<1>8. TypePlace = CHOOSE n \in 7 .. Len(head) : Found(n)
  BY DEF TypePlace
<1> HIDE DEF Found
<1>9. TypePlace = 7 + 2 * N
  BY <1>6, <1>7, <1>8
<1> QED
  BY <1>9 DEF L2, N

-----------------------------------------------------------------------------
(* What one push does to a header. *)

Header(a, u, t, r) == ((a \o u) \o t) \o r

Labelled(f, x, u) == f \o (<<x>> \o u)

TagInFront(h, p, a, u, t, r) ==
  SubSeq(h, 1, 6) \o p \o SubSeq(h, 7, Len(h)) = Header(a, p \o u, t, r)

LabelBehind(h, p, l, f, u) ==
  SubSeq(h, 1, l - 1) \o <<"8847">> \o p \o SubSeq(h, l + 1, Len(h))
    = Labelled(f, "8847", p \o u)

\* A tag goes behind the addresses, in front of what was pushed before.
LEMMA InFront ==
  ASSUME NEW a \in Units, NEW p \in Units, NEW u \in Units, NEW t \in Units,
         NEW r \in Units, Len(a) = 6,
         NEW h, h = Header(a, u, t, r)
  PROVE  TagInFront(h, p, a, u, t, r)
<1>1. PICK au \in Units, tr \in Units, pu \in Units, ap \in Units :
        au = a \o u /\ tr = t \o r /\ pu = p \o u /\ ap = a \o p
  BY Joined
<1>2. PICK rest \in Units, apu \in Units : rest = u \o tr /\ apu = a \o pu
  BY Joined
<1>3. h = a \o rest
  <2>1. Regroup(au, t, r)
    BY Regrouped, Zenon
  <2>2. Regroup(a, u, tr)
    BY Regrouped, Zenon
  <2> QED
    BY <1>1, <1>2, <2>1, <2>2 DEF Regroup, Header
<1>4. SubSeq(h, 1, 6) = a /\ SubSeq(h, 7, Len(h)) = rest
  <2>1. /\ SubSeq(a \o rest, 1, Len(a)) = a
        /\ SubSeq(a \o rest, Len(a) + 1, Len(a \o rest)) = rest
    BY Cut, Zenon
  <2>2. Len(a) + 1 = 7
    OBVIOUS
  <2> QED
    BY <1>3, <2>1, <2>2
<1>5. Regroup(apu, t, r)
  BY Regrouped, Zenon
<1>6. Regroup(a, p, u)
  BY Regrouped, Zenon
<1>7. Regroup(ap, u, tr)
  BY Regrouped, Zenon
<1> QED
  BY <1>1, <1>2, <1>4, <1>5, <1>6, <1>7 DEF Regroup, Header, TagInFront

\* A label goes in front of the labels pushed before, and what was in front
\* of them becomes the ethertype of MPLS.
LEMMA LabelMoves ==
  ASSUME NEW f \in Units, NEW p \in Units, NEW u \in Units, NEW x \in Unit,
         NEW h, h = Labelled(f, x, u), NEW l, l = Len(f) + 1
  PROVE  LabelBehind(h, p, l, f, u)
<1>1. /\ <<x>> \in Units /\ Len(<<x>>) = 1
      /\ <<"8847">> \in Units
  <2>1. "8847" \in Unit
    BY DEF Unit, EtherTypes
  <2> QED
    BY <2>1 DEF Units
<1>2. PICK one \in Units, mpls \in Units :
        one = <<x>> /\ Len(one) = 1 /\ mpls = <<"8847">>
  BY <1>1
<1>3. PICK fx \in Units, fm \in Units, pu \in Units, ou \in Units :
        /\ fx = f \o one /\ fm = f \o mpls /\ pu = p \o u /\ ou = one \o u
        /\ Len(fx) = l /\ Len(f) \in Nat
  <2>1. /\ f \o one \in Units /\ f \o mpls \in Units /\ p \o u \in Units
        /\ one \o u \in Units /\ Len(f \o one) = Len(f) + Len(one) /\ Len(f) \in Nat
    BY Joined, Zenon
  <2> QED
    BY <1>2, <2>1
<1>4. Regroup(f, one, u)
  BY Regrouped, Zenon
<1>5. SubSeq(h, l + 1, Len(h)) = u
  <2>1. SubSeq(fx \o u, Len(fx) + 1, Len(fx \o u)) = u
    BY Cut, Zenon
  <2> QED
    BY <1>2, <1>3, <1>4, <2>1 DEF Regroup, Labelled
<1>6. SubSeq(h, 1, l - 1) = f
  <2>1. SubSeq(f \o ou, 1, Len(f)) = f
    BY Cut, Zenon
  <2>2. l - 1 = Len(f)
    BY <1>3
  <2> QED
    BY <1>2, <1>3, <2>1, <2>2 DEF Labelled
<1>7. Regroup(fm, p, u)
  BY Regrouped, Zenon
<1>8. Regroup(f, mpls, pu)
  BY Regrouped, Zenon
<1> QED
  BY <1>2, <1>3, <1>5, <1>6, <1>7, <1>8 DEF Regroup, Labelled, LabelBehind

\* A push there is room for is kept, and one there is none for is not.
LEMMA KeptThen ==
  ASSUME asked \in Seq(Pushes), room \in Nat, NEW push \in Pushes,
         asked' = Append(asked, push), room' = room
  PROVE  /\ Len(asked) < room => Kept = asked /\ Kept' = asked'
         /\ ~(Len(asked) < room) => Kept' = Kept
<1>1. /\ Len(asked) \in Nat /\ asked' \in Seq(Pushes)
      /\ Len(asked') = Len(asked) + 1
      /\ \A i \in 1 .. Len(asked) : asked'[i] = asked[i]
  BY LenProperties, AppendProperties
<1>2. SubSeq(asked, 1, Len(asked)) = asked /\ SubSeq(asked', 1, Len(asked')) = asked'
  BY <1>1, SubSeqFull
<1>3. CASE Len(asked) < room
  <2>1. Kept = asked
    BY <1>2, <1>3 DEF Kept
  <2>2. (IF Len(asked') < room THEN Len(asked') ELSE room) = Len(asked')
    BY <1>1, <1>3
  <2>3. Kept' = asked'
    BY <1>2, <2>2 DEF Kept
  <2> QED
    BY <1>3, <2>1, <2>3
<1>4. CASE ~(Len(asked) < room)
  <2>1. Kept = SubSeq(asked, 1, room)
    BY <1>4 DEF Kept
  <2>2. Kept' = SubSeq(asked', 1, room)
    <3>1. ~(Len(asked') < room)
      BY <1>1, <1>4
    <3> QED
      BY <3>1 DEF Kept
  <2>3. \A i \in 1 .. room : asked'[i] = asked[i] /\ asked[i] \in Pushes
    BY <1>1, <1>4, ElementOfSeq
  <2>4. SubSeq(asked, 1, room) = SubSeq(asked', 1, room)
    <3>1. /\ SubSeq(asked, 1, room) \in Seq(Pushes)
          /\ Len(SubSeq(asked, 1, room)) = room
          /\ \A i \in 1 .. room : SubSeq(asked, 1, room)[i] = asked[i]
          /\ SubSeq(asked', 1, room) \in Seq(Pushes)
          /\ Len(SubSeq(asked', 1, room)) = room
          /\ \A i \in 1 .. room : SubSeq(asked', 1, room)[i] = asked'[i]
      <4>1. 1 \in Int /\ room \in Int /\ room - 1 + 1 = room
            /\ (~(1 <= room) => room = 0) /\ \A i \in 1 .. room : 1 + i - 1 = i
        OBVIOUS
      <4>2. PICK s : s = asked'
        OBVIOUS
      <4>3. /\ SubSeq(asked, 1, room) \in Seq(Pushes)
            /\ Len(SubSeq(asked, 1, room)) = IF 1 <= room THEN room - 1 + 1 ELSE 0
            /\ \A i \in 1 .. room - 1 + 1 : SubSeq(asked, 1, room)[i] = asked[1 + i - 1]
        BY <2>3, <4>1, SubSeqProperties
      <4>4. /\ SubSeq(s, 1, room) \in Seq(Pushes)
            /\ Len(SubSeq(s, 1, room)) = IF 1 <= room THEN room - 1 + 1 ELSE 0
            /\ \A i \in 1 .. room - 1 + 1 : SubSeq(s, 1, room)[i] = s[1 + i - 1]
        <5>1. \A i \in 1 .. room : s[i] \in Pushes
          BY <2>3, <4>2
        <5> HIDE <4>2
        <5> QED
          BY <4>1, <5>1, SubSeqProperties
      <4> QED
        BY <4>1, <4>2, <4>3, <4>4
    <3> QED
      BY <2>3, <3>1, SeqEqual
  <2> QED
    BY <1>4, <2>1, <2>2, <2>4
<1> QED
  BY <1>3, <1>4

\* With the labels in front of the tags before a push as after it, and no
\* tag kept when the push is a label.
LEMMA OrderBefore ==
  ASSUME asked \in Seq(Pushes), NEW push \in Pushes,
         asked' = Append(asked, push), Kept = asked, Kept' = asked', LabelsFirst'
  PROVE  /\ LabelsFirst
         /\ push.kind = "mpls" => \A n \in 1 .. Len(asked) : asked[n].kind # "vlan"
<1> DEFINE N == Len(asked)
           s == asked'
<1>1. /\ N \in Nat /\ Len(s) = N + 1 /\ s \in Seq(Pushes)
      /\ \A i \in 1 .. N : s[i] = asked[i]
      /\ s[N + 1] = push
      /\ DOMAIN asked = 1 .. N /\ DOMAIN s = 1 .. N + 1
  BY LenProperties, AppendProperties
<1>2. \A m, n \in 1 .. N + 1 : m < n /\ s[m].kind = "vlan" => s[n].kind = "vlan"
  BY <1>1 DEF LabelsFirst
<1> HIDE DEF N, s
<1>3. \A n \in 1 .. N : n \in 1 .. N + 1 /\ n < N + 1 /\ N + 1 \in 1 .. N + 1
  BY <1>1
<1>4. LabelsFirst
  <2>1. \A m, n \in 1 .. N : m < n /\ asked[m].kind = "vlan" => asked[n].kind = "vlan"
    BY <1>1, <1>2, <1>3
  <2> QED
    BY <1>1, <2>1 DEF LabelsFirst
<1>5. ASSUME push.kind = "mpls", NEW n \in 1 .. N, asked[n].kind = "vlan" PROVE FALSE
  <2>1. s[n].kind = "vlan"
    BY <1>1, <1>5
  <2>2. PICK k : k = N + 1
    OBVIOUS
  <2>3. k \in 1 .. N + 1 /\ n \in 1 .. N + 1 /\ n < k /\ s[k] = push
    BY <1>1, <1>3, <2>2
  <2>4. s[k].kind = "vlan"
    BY <1>2, <2>1, <2>3
  <2> QED
    BY <1>5, <2>3, <2>4
<1> QED
  BY <1>4, <1>5 DEF N

-----------------------------------------------------------------------------
(* Initial states. *)

LEMMA NothingKept ==
  ASSUME asked = << >>, room \in Nat, frame \in Received
  PROVE  Placed /\ Expected = Addresses \o Tags \o <<frame.type>>
<1>1. Kept = << >>
  <2>1. Len(asked) = 0 /\ (IF 0 < room THEN 0 ELSE room) = 0
    OBVIOUS
  <2>2. SubSeq(asked, 1, 0) = << >>
    BY SubSeqEmpty
  <2> QED
    BY <2>1, <2>2 DEF Kept
<1>2. LabelsFirst
  BY <1>1 DEF LabelsFirst
<1>3. UnitsOf(Kept, "vlan") = << >> /\ UnitsOf(Kept, "mpls") = << >>
  <2>1. << >> \in Seq(Pushes) /\ \A n \in 1 .. Len(<< >>) : FALSE
    BY EmptySeq
  <2> QED
    BY <1>1, <2>1, NoUnits
<1>4. Addresses \o << >> = Addresses
  BY AddressesAre, ConcatEmptySeq DEF Units
<1> QED
  BY <1>2, <1>3, <1>4 DEF Expected, Tags, Placed

THEOREM InitIInv == PInit => IInv
<1> SUFFICES ASSUME PInit PROVE IInv
  OBVIOUS
<1> USE DEF PInit, Init
<1>1. room \in Nat
  BY PacketModifierAssumption
<1>2. FrameTypeOK
  <2>1. asked \in Seq(Pushes)
    BY EmptySeq
  <2> QED
    BY <1>1, <2>1 DEF FrameTypeOK
<1>3. HeadInv
  <2>1. headroom = IF Len(asked) < room THEN room - Len(asked) ELSE 0
    BY <1>1
  <2>2. head = Expected
    BY <1>1, NothingKept DEF Tags
  <2> QED
    BY <2>1, <2>2 DEF HeadInv
<1>4. SearchInv
  BY DEF SearchInv, Analyzer!methods_
<1> QED
  BY <1>2, <1>3, <1>4 DEF IInv

-----------------------------------------------------------------------------
(* Steps. *)

\* A frame that has not been prepared has its ethertype behind its tags.
LEMMA Unprepared ==
  ASSUME IInv, phase = "received"
  PROVE  TypePlace = L2(frame) /\ L2(frame) \in Int
<1>1. asked = << >> /\ room \in Nat /\ frame \in Received
  BY DEF IInv, HeadInv, FrameTypeOK
<1>2. head = Addresses \o Tags \o <<frame.type>>
  BY <1>1, NothingKept DEF IInv, HeadInv
<1>3. L2(frame) \in Int
  BY <1>1, FrameTyped DEF L2
<1> QED
  BY <1>1, <1>2, <1>3, TypeFound

LEMMA PrepareStep ==
  ASSUME IInv, PreparePacket
  PROVE  IInv'
<1> USE DEF PreparePacket, Prepare
<1>1. l2_len' = L2Field(L2(frame))
  BY Unprepared
<1>2. FrameTypeOK'
  BY DEF IInv, FrameTypeOK
<1>3. HeadInv'
  <2>1. Expected' = Expected /\ Placed' = Placed /\ L2(frame)' = L2(frame)
    BY DEF Expected, Kept, Placed, LabelsFirst, TagsFit, L2
  <2> QED
    BY <1>1, <2>1 DEF IInv, HeadInv, L2Field
<1>4. SearchInv'
  <2>1. Behind(l2_len)' = Behind(l2_len')
    BY DEF Behind, L2
  <2>2. it = 1 /\ ret = "UNKNOWN"
    BY DEF IInv, SearchInv
  <2> QED
    BY <2>1, <2>2 DEF IInv, SearchInv
<1> QED
  BY <1>2, <1>3, <1>4 DEF IInv

LEMMA RefuseStep ==
  ASSUME IInv, RefusePacket
  PROVE  IInv'
<1> USE DEF RefusePacket, Refuse
<1>1. FrameTypeOK'
  BY DEF IInv, FrameTypeOK
<1>2. HeadInv'
  <2>1. Expected' = Expected /\ Placed' = Placed
    BY DEF Expected, Kept, Placed, LabelsFirst, TagsFit, L2
  <2> QED
    BY <2>1 DEF IInv, HeadInv
<1>3. SearchInv'
  BY DEF IInv, SearchInv
<1> QED
  BY <1>1, <1>2, <1>3 DEF IInv

LEMMA AnalyzeStep ==
  ASSUME IInv, Analyze
  PROVE  IInv'
<1> USE DEF Analyze, Analyzer!Search
<1>1. FrameTypeOK'
  BY DEF IInv, FrameTypeOK, vars
<1>2. HeadInv'
  <2>1. /\ Expected' = Expected /\ Placed' = Placed
        /\ L2(frame)' = L2(frame)
    BY DEF Expected, Kept, Placed, LabelsFirst, TagsFit, L2, vars
  <2> QED
    BY <2>1 DEF IInv, HeadInv, L2Field, vars
<1>3. SearchInv'
  <2> DEFINE M == Analyzer!methods_
             F(n) == Analyzer!Finds(M[n], packet)
  <2>1. /\ Len(M) = 4 /\ it \in 1 .. 4 /\ ret = "UNKNOWN"
        /\ \A n \in 1 .. 4 : M[n] # "UNKNOWN"
    BY DEF Analyzer!Searching, Analyzer!methods_, IInv, SearchInv
  <2>2. \A n \in 1 .. it - 1 : ~F(n)
    <3>1. ~(it > 1 /\ ret = M[it - 1])
      <4>1. PICK k : k = it - 1
        OBVIOUS
      <4>2. it > 1 => k \in 1 .. 4
        BY <2>1, <4>1
      <4> HIDE DEF M
      <4> QED
        BY <2>1, <4>1, <4>2
    <3> HIDE DEF M
    <3> QED
      BY <3>1 DEF IInv, SearchInv, M
  <2>3. /\ it' = it + 1 /\ it' \in 1 .. Len(M) + 1 /\ it' - 1 = it /\ it' - 2 = it - 1
        /\ it' > 1 /\ phase' = "prepared"
    BY <2>1 DEF vars
  <2>4. /\ packet' = packet
        /\ phase' = "prepared" => packet' \in Behind(l2_len)'
    BY DEF IInv, SearchInv, Behind, L2, vars
  <2>5. CASE F(it)
    <3>1. ret' = M[it] /\ Analyzer!Finds(ret', packet)
      BY <2>5
    <3> HIDE DEF M, F
    <3>2. \A n \in 1 .. it' - 2 : ~Analyzer!Finds(M[n], packet)
      BY <2>2, <2>3 DEF F
    <3> QED
      BY <2>3, <2>4, <3>1, <3>2 DEF SearchInv, M
  <2>6. CASE ~F(it)
    <3>1. ret' = "UNKNOWN"
      BY <2>6
    <3> HIDE DEF M, F
    <3>2. \A n \in 1 .. it : n = it \/ n \in 1 .. it - 1
      BY <2>1
    <3>3. \A n \in 1 .. it' - 1 : ~Analyzer!Finds(M[n], packet)
      BY <2>2, <2>3, <2>6, <3>2 DEF F
    <3> QED
      BY <2>3, <2>4, <3>1, <3>3 DEF SearchInv, M
  <2> QED
    BY <2>5, <2>6
<1> QED
  BY <1>1, <1>2, <1>3 DEF IInv

\* What stands behind the tags: the ethertype, or that of MPLS and the labels.
TypeAnd(labels) == IF labels = << >> THEN <<frame.type>> ELSE <<"8847">> \o labels

LEMMA LastTyped ==
  ASSUME frame \in Received, NEW labels \in Units
  PROVE  TypeAnd(labels) \in Units
<1>1. <<frame.type>> \in Units
  BY TypeIsUnit
<1>2. <<"8847">> \in Units
  <2>1. "8847" \in Unit
    BY DEF Unit, EtherTypes
  <2> QED
    BY <2>1 DEF Units
<1>3. <<"8847">> \o labels \in Units
  BY <1>2, Joined
<1> QED
  BY <1>1, <1>3 DEF TypeAnd

\* A push there is room for, with the labels in front of the tags after it.
LEMMA Room ==
  ASSUME IInv, NEW push \in Pushes, Asked(push), room' = room, headroom > 0
  PROVE  /\ Kept = asked /\ Kept' = Append(asked, push)
         /\ asked \in Seq(Pushes)
         /\ asked' = Append(asked, push)
         /\ headroom - 1 = IF Len(asked') < room THEN room - Len(asked') ELSE 0
<1>1. asked \in Seq(Pushes) /\ room \in Nat /\ asked' = Append(asked, push)
  BY DEF IInv, FrameTypeOK, Asked
<1>2. Len(asked) \in Nat /\ Len(asked') = Len(asked) + 1
  BY <1>1, LenProperties, AppendProperties
<1>3. headroom = IF Len(asked) < room THEN room - Len(asked) ELSE 0
  BY DEF IInv, HeadInv
<1>4. Len(asked) < room
  BY <1>1, <1>2, <1>3
<1> QED
  BY <1>1, <1>2, <1>3, <1>4, KeptThen

LEMMA TagPushed ==
  ASSUME IInv, NEW push \in Pushes, ExecutePushVlan(push), Placed'
  PROVE  head' = Expected'
<1>1. /\ Asked(push) /\ room' = room /\ frame' = frame /\ headroom > 0
      /\ push.kind = "vlan"
      /\ head' = SubSeq(head, 1, 6) \o push.units \o SubSeq(head, 7, Len(head))
  BY DEF ExecutePushVlan
<1>2. /\ Kept = asked /\ Kept' = Append(asked, push) /\ asked \in Seq(Pushes)
      /\ asked' = Append(asked, push) /\ frame \in Received
  BY <1>1, Room DEF IInv, FrameTypeOK
<1>3. LabelsFirst
  BY <1>2, OrderBefore DEF Placed
<1>4. PICK tags \in Units, labels \in Units, units \in Units :
        /\ tags = UnitsOf(asked, "vlan") /\ labels = UnitsOf(asked, "mpls")
        /\ units = push.units
  BY <1>2, UnitsTyped, PushTyped
<1>5. /\ UnitsOf(Kept', "vlan") = units \o tags
      /\ UnitsOf(Kept', "mpls") = labels
  <2>1. /\ UnitsOf(Append(asked, push), "vlan") =
             IF push.kind = "vlan" THEN push.units \o UnitsOf(asked, "vlan")
                                   ELSE UnitsOf(asked, "vlan")
        /\ UnitsOf(Append(asked, push), "mpls") =
             IF push.kind = "mpls" THEN push.units \o UnitsOf(asked, "mpls")
                                   ELSE UnitsOf(asked, "mpls")
    BY <1>2, OneMorePush, Zenon
  <2> QED
    BY <1>1, <1>2, <1>4, <2>1
<1>6. PICK received \in Units, last \in Units :
        received = FlattenSeq(frame.tags) /\ last = TypeAnd(labels)
  BY <1>2, TagsOfFrame, LastTyped DEF Tags
<1>7. head = Header(Addresses, tags, received, last)
  <2>1. Placed
    <3>1. TagsFit' = TagsFit
      BY <1>1 DEF TagsFit, L2
    <3> QED
      BY <1>2, <1>3, <1>4, <1>5, <3>1 DEF Placed
  <2> QED
    BY <1>2, <2>1, <1>4, <1>6 DEF IInv, HeadInv, Expected, TypeAnd, Header
<1>8. TagInFront(head, units, Addresses, tags, received, last)
  <2>1. Addresses \in Units /\ Len(Addresses) = 6
    BY AddressesAre
  <2> QED
    BY <1>7, <2>1, InFront, Zenon
<1>9. head' = Header(Addresses, units \o tags, received, last)
  BY <1>1, <1>4, <1>8 DEF TagInFront
<1>10. Expected' = Header(Addresses, units \o tags, received, last)
  BY <1>1, <1>5, <1>6 DEF Expected, TypeAnd, Header
<1> QED
  BY <1>9, <1>10

\* A length of at most 126 bytes is kept as it is.
LEMMA FieldFits ==
  ASSUME TagsFit, L2(frame) \in Nat
  PROVE  L2Field(L2(frame)) = L2(frame)
BY DEF TagsFit, L2Field

LEMMA LabelPushed ==
  ASSUME IInv, NEW push \in Pushes, ExecutePushMpls(push), Placed'
  PROVE  head' = Expected'
<1>1. /\ Asked(push) /\ room' = room /\ frame' = frame /\ headroom > 0
      /\ push.kind = "mpls" /\ l2_len = L2Field(L2(frame))
      /\ head' = SubSeq(head, 1, l2_len - 1) \o <<"8847">> \o push.units
                   \o SubSeq(head, l2_len + 1, Len(head))
  BY DEF ExecutePushMpls, Asked, IInv, HeadInv
<1>2. /\ Kept = asked /\ Kept' = Append(asked, push) /\ asked \in Seq(Pushes)
      /\ asked' = Append(asked, push) /\ frame \in Received
  BY <1>1, Room DEF IInv, FrameTypeOK
<1>3. LabelsFirst /\ \A n \in 1 .. Len(asked) : asked[n].kind # "vlan"
  BY <1>1, <1>2, OrderBefore DEF Placed
<1>4. UnitsOf(asked, "vlan") = << >>
  BY <1>2, <1>3, NoUnits
<1>5. PICK labels \in Units, units \in Units :
        labels = UnitsOf(asked, "mpls") /\ units = push.units
  BY <1>2, UnitsTyped, PushTyped
<1>6. /\ UnitsOf(Kept', "vlan") = << >>
      /\ UnitsOf(Kept', "mpls") = units \o labels
  <2>1. /\ UnitsOf(Append(asked, push), "vlan") =
             IF push.kind = "vlan" THEN push.units \o UnitsOf(asked, "vlan")
                                   ELSE UnitsOf(asked, "vlan")
        /\ UnitsOf(Append(asked, push), "mpls") =
             IF push.kind = "mpls" THEN push.units \o UnitsOf(asked, "mpls")
                                   ELSE UnitsOf(asked, "mpls")
    BY <1>2, OneMorePush, Zenon
  <2> QED
    BY <1>1, <1>2, <1>4, <1>5, <2>1
<1>7. units \o labels # << >>
  <2>1. Len(units) = 2
    BY <1>5, PushTyped
  <2>2. Len(units \o labels) = Len(units) + Len(labels) /\ Len(labels) \in Nat
    BY Joined, Zenon
  <2>3. Len(<< >>) = 0
    OBVIOUS
  <2> QED
    BY <2>1, <2>2, <2>3
<1>8. Placed /\ l2_len = L2(frame)
  <2>1. TagsFit'
    BY <1>6, <1>7 DEF Placed
  <2>2. TagsFit
    BY <1>1, <2>1 DEF TagsFit, L2
  <2>3. L2(frame) \in Nat
    BY <1>2, FrameTyped DEF L2
  <2> QED
    BY <1>1, <1>3, <2>2, <2>3, FieldFits DEF Placed
<1>9. PICK front \in Units :
        /\ front = Addresses \o FlattenSeq(frame.tags)
        /\ l2_len = Len(front) + 1
  <2>1. /\ Tags \in Units /\ Len(Tags) = 2 * Len(frame.tags) /\ Len(frame.tags) \in Nat
    BY <1>2, TagsOfFrame
  <2>2. Addresses \o Tags \in Units /\ Len(Addresses \o Tags) = Len(Addresses) + Len(Tags)
    BY <2>1, AddressesAre, Joined
  <2>3. L2(frame) = Len(Addresses \o Tags) + 1
    BY <2>1, <2>2, AddressesAre DEF L2
  <2> QED
    BY <1>8, <2>2, <2>3 DEF Tags
<1>10. Addresses \o << >> = Addresses
  BY AddressesAre, ConcatEmptySeq DEF Units
<1>11. head = front \o TypeAnd(labels)
  BY <1>2, <1>4, <1>5, <1>8, <1>9, <1>10 DEF IInv, HeadInv, Expected, TypeAnd
<1>12. PICK x \in Unit : TypeAnd(labels) = <<x>> \o labels
  <2>1. frame.type \in Unit /\ "8847" \in Unit
    BY <1>2, FrameTyped DEF Unit, EtherTypes
  <2>2. <<frame.type>> \o << >> = <<frame.type>>
    BY <1>2, TypeIsUnit, ConcatEmptySeq DEF Units
  <2> QED
    BY <2>1, <2>2 DEF TypeAnd
<1>13. LabelBehind(head, units, l2_len, front, labels)
  <2>1. head = Labelled(front, x, labels)
    BY <1>11, <1>12 DEF Labelled
  <2> QED
    BY <1>9, <2>1, LabelMoves, Zenon
<1>14. head' = Labelled(front, "8847", units \o labels)
  BY <1>1, <1>5, <1>13 DEF LabelBehind
<1>15. Expected' = Labelled(front, "8847", units \o labels)
  BY <1>1, <1>6, <1>7, <1>9, <1>10 DEF Expected, Labelled
<1> QED
  BY <1>14, <1>15

\* Without headroom nothing happens, and nothing more is kept.
LEMMA NothingPushed ==
  ASSUME IInv, NEW push \in Pushes, CannotPush(push)
  PROVE  HeadInv'
<1>1. /\ Asked(push) /\ room' = room /\ frame' = frame /\ headroom = 0
      /\ headroom' = headroom /\ head' = head /\ l2_len' = l2_len
      /\ phase = "prepared" /\ phase' = phase
  BY DEF CannotPush, Asked
<1>2. asked \in Seq(Pushes) /\ room \in Nat /\ asked' = Append(asked, push)
  BY <1>1 DEF IInv, FrameTypeOK, Asked
<1>3. Len(asked) \in Nat /\ Len(asked') = Len(asked) + 1
  BY <1>2, LenProperties, AppendProperties
<1>4. ~(Len(asked) < room)
  BY <1>1, <1>2, <1>3 DEF IInv, HeadInv
<1>5. Kept' = Kept
  BY <1>1, <1>2, <1>4, KeptThen
<1>6. Expected' = Expected /\ Placed' = Placed /\ L2(frame)' = L2(frame)
  BY <1>1, <1>5 DEF Expected, Placed, LabelsFirst, TagsFit, L2
<1>7. headroom' = IF Len(asked') < room THEN room - Len(asked') ELSE 0
  BY <1>1, <1>2, <1>3, <1>4
<1> QED
  BY <1>1, <1>6, <1>7 DEF IInv, HeadInv, L2Field

LEMMA ExecuteStep ==
  ASSUME IInv, Execute
  PROVE  IInv'
<1>1. PICK push \in Pushes : \/ ExecutePushVlan(push)
                             \/ ExecutePushMpls(push)
                             \/ CannotPush(push)
  BY DEF Execute
<1>2. /\ Asked(push) /\ phase = "prepared" /\ phase' = phase
      /\ frame' = frame /\ room' = room
      /\ payload' = payload /\ ruled' = ruled /\ packet' = packet
      /\ it' = it /\ ret' = ret
  BY <1>1 DEF Execute, Asked, ExecutePushVlan, ExecutePushMpls, CannotPush
<1>3. FrameTypeOK'
  <2>1. asked' \in Seq(Pushes)
    BY <1>2, AppendProperties DEF IInv, FrameTypeOK, Asked
  <2> QED
    BY <1>2, <2>1 DEF IInv, FrameTypeOK
<1>4. SearchInv'
  <2>1. l2_len' = l2_len
    BY <1>1 DEF ExecutePushVlan, ExecutePushMpls, CannotPush
  <2>2. Behind(l2_len)' = Behind(l2_len)
    BY <1>2, <2>1 DEF Behind, L2
  <2> QED
    BY <1>2, <2>2 DEF IInv, SearchInv
<1>5. HeadInv'
  <2>1. CASE CannotPush(push)
    BY <2>1, NothingPushed
  <2>2. CASE ExecutePushVlan(push) \/ ExecutePushMpls(push)
    <3>1. headroom > 0 /\ headroom' = headroom - 1 /\ l2_len' = l2_len
      BY <2>2 DEF ExecutePushVlan, ExecutePushMpls
    <3>2. headroom' = IF Len(asked') < room' THEN room' - Len(asked') ELSE 0
      BY <1>2, <3>1, Room
    <3>3. Placed' => head' = Expected'
      BY <2>2, TagPushed, LabelPushed
    <3>4. L2(frame)' = L2(frame)
      BY <1>2 DEF L2
    <3> QED
      BY <1>2, <3>1, <3>2, <3>3, <3>4 DEF IInv, HeadInv, L2Field
  <2> QED
    BY <1>1, <2>1, <2>2
<1> QED
  BY <1>3, <1>4, <1>5 DEF IInv

-----------------------------------------------------------------------------
(* The theorems. *)

\* The invariant of the path of a packet.
THEOREM PathCorrect == PSpec => []IInv
<1>1. PInit => IInv
  BY InitIInv
<1>2. IInv /\ [PNext]_pvars => IInv'
  <2> SUFFICES ASSUME IInv, [PNext]_pvars PROVE IInv'
    OBVIOUS
  <2>1. CASE PreparePacket
    BY <2>1, PrepareStep
  <2>2. CASE RefusePacket
    BY <2>2, RefuseStep
  <2>3. CASE Analyze
    BY <2>3, AnalyzeStep
  <2>4. CASE Execute
    BY <2>4, ExecuteStep
  <2>5. CASE UNCHANGED pvars
    <3>1. /\ Expected' = Expected /\ Placed' = Placed
          /\ L2(frame)' = L2(frame) /\ Behind(l2_len)' = Behind(l2_len)
      BY <2>5 DEF Expected, Kept, Placed, LabelsFirst, TagsFit, L2, Behind, pvars, vars
    <3> QED
      BY <2>5, <3>1 DEF IInv, FrameTypeOK, HeadInv, SearchInv, L2Field, pvars, vars
  <2> QED
    BY <2>1, <2>2, <2>3, <2>4, <2>5 DEF PNext
<1> QED
  BY <1>1, <1>2, PTL DEF PSpec

\* Whatever the tags and labels of the rules are and however many of them are
\* pushed, the labels first, on a frame with at most 28 tags, the header is
\* that of a switch that pushes them one by one; and tags alone may be pushed
\* on a frame with however many.
THEOREM Composed == PSpec => []PushesComposed
<1>1. IInv => PushesComposed
  BY DEF IInv, HeadInv, PushesComposed, Placed
<1> QED
  BY <1>1, PathCorrect, PTL

\* What is found and what is not, once the search has ended.
LEMMA SearchEnded ==
  ASSUME IInv, ~Analyzer!Searching
  PROVE  \/ /\ ret = "UNKNOWN"
            /\ \A n \in 1 .. 4 : ~Analyzer!Finds(Analyzer!methods_[n], packet)
         \/ \E n \in 1 .. 4 :
              /\ ret = Analyzer!methods_[n]
              /\ Analyzer!Finds(ret, packet)
              /\ \A k \in 1 .. n - 1 : ~Analyzer!Finds(Analyzer!methods_[k], packet)
<1> DEFINE M == Analyzer!methods_
<1>1. Len(M) = 4
  BY DEF Analyzer!methods_
<1>2. it \in 1 .. 5 /\ (ret = "UNKNOWN" => it = 5)
  BY <1>1 DEF IInv, SearchInv, Analyzer!Searching
<1> HIDE DEF M
<1>3. CASE ret = "UNKNOWN" /\ \A n \in 1 .. it - 1 : ~Analyzer!Finds(M[n], packet)
  <2>1. it - 1 = 4
    BY <1>2, <1>3
  <2> QED
    BY <1>3, <2>1 DEF M
<1>4. CASE /\ it > 1 /\ ret = M[it - 1]
           /\ Analyzer!Finds(ret, packet)
           /\ \A n \in 1 .. it - 2 : ~Analyzer!Finds(M[n], packet)
  <2>1. PICK n : n = it - 1
    OBVIOUS
  <2>2. n \in 1 .. 4 /\ it - 2 = n - 1
    BY <1>2, <1>4, <2>1
  <2> QED
    BY <1>4, <2>1, <2>2 DEF M
<1> QED
  BY <1>3, <1>4 DEF IInv, SearchInv, M

\* The places of the methods.
LEMMA Methods ==
  /\ Analyzer!methods_[1] = "HTTP" /\ Analyzer!methods_[2] = "SIP"
  /\ Analyzer!methods_[3] = "RTP" /\ Analyzer!methods_[4] = "RTSP"
  /\ DOMAIN Analyzer!methods_ = 1 .. 4
BY DEF Analyzer!methods_

LEMMA Found ==
  ASSUME IInv, ~Analyzer!Searching
  PROVE  /\ ret \in {"UNKNOWN", "HTTP", "SIP", "RTP", "RTSP"}
         /\ ret # "UNKNOWN" => Analyzer!Finds(ret, packet)
         /\ ret = "UNKNOWN" =>
              \A name \in {"HTTP", "SIP", "RTP", "RTSP"} : ~Analyzer!Finds(name, packet)
         /\ ret \in {"SIP", "RTP", "RTSP"} => ~Analyzer!Finds("HTTP", packet)
<1>1. CASE /\ ret = "UNKNOWN"
           /\ \A n \in 1 .. 4 : ~Analyzer!Finds(Analyzer!methods_[n], packet)
  <2>1. 1 \in 1 .. 4 /\ 2 \in 1 .. 4 /\ 3 \in 1 .. 4 /\ 4 \in 1 .. 4
    OBVIOUS
  <2>2. /\ ~Analyzer!Finds("HTTP", packet) /\ ~Analyzer!Finds("SIP", packet)
        /\ ~Analyzer!Finds("RTP", packet) /\ ~Analyzer!Finds("RTSP", packet)
    BY <1>1, <2>1, Methods
  <2> QED
    BY <1>1, <2>2
<1>2. ASSUME NEW n \in 1 .. 4, ret = Analyzer!methods_[n], Analyzer!Finds(ret, packet),
             \A k \in 1 .. n - 1 : ~Analyzer!Finds(Analyzer!methods_[k], packet)
      PROVE  /\ ret \in {"HTTP", "SIP", "RTP", "RTSP"}
             /\ ret \in {"SIP", "RTP", "RTSP"} => ~Analyzer!Finds("HTTP", packet)
  <2>1. n = 1 \/ n = 2 \/ n = 3 \/ n = 4
    OBVIOUS
  <2>2. ret \in {"HTTP", "SIP", "RTP", "RTSP"} /\ (n = 1 => ret = "HTTP")
    BY <1>2, <2>1, Methods
  <2>3. n # 1 => ~Analyzer!Finds("HTTP", packet)
    <3>1. n # 1 => 1 \in 1 .. n - 1
      OBVIOUS
    <3> QED
      BY <1>2, <3>1, Methods
  <2> QED
    BY <2>2, <2>3
<1> QED
  BY <1>1, <1>2, SearchEnded

\* The search ends only for a packet that was prepared.
LEMMA Searched ==
  ASSUME IInv, ~Analyzer!Searching
  PROVE  phase = "prepared" /\ packet \in Behind(l2_len)
<1>1. phase # "prepared" => it = 1 /\ ret = "UNKNOWN"
  BY DEF IInv, SearchInv
<1>2. phase = "prepared"
  BY <1>1 DEF Analyzer!Searching, Analyzer!methods_
<1> QED
  BY <1>2 DEF IInv, SearchInv

LEMMA Words ==
  ASSUME NEW word \in STRING
  PROVE  Seconds(word) \subseteq STRING /\ Thirds(word) \subseteq STRING
<1>1. \A q \in StaleTexts : q.second \in STRING /\ q.third \in STRING
  BY PayloadAssumption DEF StaleTexts, Texts, Binaries
<1> QED
  BY <1>1 DEF Seconds, Thirds

LEMMA PayloadTyped ==
  ASSUME NEW p \in Payloads
  PROVE  /\ p.surplus \in Int /\ p.surplus < 2^16
         /\ p.kind = "none" \/ p \in Texts(Lengths) \/ p \in Binaries(Lengths)
         /\ p.kind = "text" => p \in Texts(Lengths)
<1>1. \A n \in 0 .. 2^16 - 1 : n \in Lengths
  BY DEF Lengths
<1>2. CASE p \in Texts(0 .. 2^16 - 1)
  <2>1. p \in Texts(Lengths) /\ p.surplus \in Lengths
    BY <1>1, <1>2, Zenon DEF Texts
  <2> QED
    BY <2>1 DEF Lengths
<1>3. CASE p \in Binaries(0 .. 2^16 - 1)
  <2>1. p \in Binaries(Lengths) /\ p.surplus \in Lengths /\ p.kind = "binary"
    <3>1. \A L : p \in Binaries(L) => p.surplus \in L /\ p.kind = "binary"
      BY DEF Binaries
    <3>2. p.surplus \in Lengths /\ p.kind = "binary"
      BY <1>1, <1>3, <3>1
    <3>3. p \in Binaries(Lengths)
      BY <1>1, <1>3, Zenon DEF Binaries
    <3> QED
      BY <3>2, <3>3
  <2> QED
    BY <2>1 DEF Lengths
<1>4. CASE p \in NoPayloads
  BY <1>4 DEF NoPayloads
<1> QED
  BY <1>2, <1>3, <1>4, PayloadAssumption

LEMMA StaleTyped ==
  ASSUME NEW q \in Stale, NEW n \in Lengths
  PROVE  [q EXCEPT !.surplus = n] \in Texts(Lengths) \cup Binaries(Lengths)
<1>1. CASE q \in Texts(Lengths)
  BY <1>1 DEF Texts
<1>2. CASE q \in Binaries(Lengths)
  BY <1>2 DEF Binaries
<1> QED
  BY <1>1, <1>2, PayloadAssumption

\* What is found behind the headers, whoever wrote it there.
LEMMA PacketTyped ==
  ASSUME IInv, ~Analyzer!Searching
  PROVE  packet \in Texts(Lengths) \cup Binaries(Lengths)
<1>1. packet \in Behind(l2_len) /\ payload \in Payloads
  BY Searched DEF IInv, FrameTypeOK
<1>2. CASE packet \in Stale
  BY <1>2, PayloadAssumption
<1>3. CASE payload.kind = "none" /\ \E q \in Stale : packet = [q EXCEPT !.surplus = payload.surplus]
  <2>1. payload.surplus \in Lengths
    BY <1>1, PayloadTyped DEF Lengths
  <2> QED
    BY <1>3, <2>1, StaleTyped
<1>4. CASE payload.kind # "none" /\ packet \in Completions(payload)
  <2>1. CASE payload.kind # "text"
    BY <1>1, <1>4, <2>1, PayloadTyped DEF Completions
  <2>2. CASE payload.kind = "text"
    <3>1. payload \in Texts(Lengths)
      BY <1>1, <2>2, PayloadTyped
    <3>2. payload.second \in STRING /\ payload.third \in STRING
      BY <3>1 DEF Texts
    <3>3. /\ Seconds(payload.second) \subseteq STRING
          /\ Thirds(payload.third) \subseteq STRING
      BY <3>2, Words
    <3> QED
      BY <1>4, <2>2, <3>1, <3>3 DEF Completions, Texts
  <2> QED
    BY <2>1, <2>2
<1> QED
  BY <1>1, <1>2, <1>3, <1>4 DEF Behind

LEMMA Surplus ==
  ASSUME IInv, ~Analyzer!Searching
  PROVE  /\ packet.surplus \in Int /\ packet.surplus < 2^16
         /\ packet.kind = "text" \/ packet.kind = "binary"
         /\ packet.surplus >= 0 => Analyzer!PayloadLen(packet) = packet.surplus
<1>1. /\ packet.surplus \in Int /\ packet.surplus < 2^16
      /\ packet.kind = "text" \/ packet.kind = "binary"
  BY PacketTyped DEF Texts, Binaries, Lengths
<1>2. packet.surplus >= 0 => packet.surplus % 2^16 = packet.surplus
  BY <1>1
<1> QED
  BY <1>1, <1>2 DEF Analyzer!PayloadLen, Analyzer!Uint16

\* The first line of a request or response is told from those of the other
\* protocols whatever methods are asked before its own.
THEOREM Told == PSpec => []TextTold
<1>1. ASSUME IInv PROVE TextTold
  <2> USE DEF Analyzer!Finds, Analyzer!SearchHttp, Analyzer!SearchSip,
              Analyzer!SearchRtp, Analyzer!SearchRtsp, Analyzer!IsText
  <2> SUFFICES ASSUME ~Analyzer!Searching, Analyzer!Whole(packet), packet.surplus >= 15,
                      NEW name \in {"HTTP", "SIP", "RTSP"},
                      Analyzer!IsFirstLineOf(name, packet)
               PROVE  ret = name
    BY DEF TextTold, Analyzer!TextTold, Analyzer!Versions
  <2>1. Analyzer!PayloadLen(packet) >= 15 /\ Analyzer!PayloadLen(packet) >= 14
    BY <1>1, Surplus
  <2>2. Analyzer!IsText(packet)
    BY DEF Analyzer!IsFirstLineOf
  <2>3. Analyzer!Finds(name, packet)
    BY <2>1 DEF Analyzer!IsFirstLineOf, Analyzer!Versions
  <2>4. ASSUME name # "HTTP",
               NEW other \in {"HTTP", "SIP", "RTP", "RTSP"} \ {name}
        PROVE  ~Analyzer!Finds(other, packet)
    <3> USE DEF Analyzer!IsFirstLineOf, Analyzer!Versions, Analyzer!HttpMethods,
                Analyzer!SipMethods, Analyzer!RtspMethods
    <3>1. CASE name = "SIP"
      BY <2>2, <2>4, <3>1
    <3>2. CASE name = "RTSP"
      BY <2>2, <2>4, <3>2
    <3> QED
      BY <2>4, <3>1, <3>2
  <2> HIDE DEF Analyzer!Finds
  <2> QED
    BY <1>1, <2>3, <2>4, Found
<1> QED
  BY <1>1, PathCorrect, PTL

\* Two methods find their protocols in the same payload only when it is a
\* request of HTTP whose target looks like that of another protocol, and then
\* it is taken for HTTP.
THEOREM Irrelevant == PSpec => []OrderIrrelevant
<1>1. ASSUME IInv PROVE OrderIrrelevant
  <2> SUFFICES ASSUME ~Analyzer!Searching, ret # "UNKNOWN",
                      NEW other \in {"HTTP", "SIP", "RTP", "RTSP"} \ {ret},
                      Analyzer!Finds(other, packet)
               PROVE  /\ ret = "HTTP" /\ packet.third = "HTTP/1.1"
                      /\ packet.second \in {"sip:", "rtsp://"}
    BY DEF OrderIrrelevant, Analyzer!OrderIrrelevant
  <2>1. /\ ret \in {"HTTP", "SIP", "RTP", "RTSP"}
        /\ Analyzer!Finds(ret, packet)
        /\ ret \in {"SIP", "RTP", "RTSP"} => ~Analyzer!Finds("HTTP", packet)
    BY <1>1, Found
  <2>2. other # "HTTP"
    BY <2>1
  <2> USE DEF Analyzer!Finds, Analyzer!SearchHttp, Analyzer!SearchSip,
              Analyzer!SearchRtp, Analyzer!SearchRtsp, Analyzer!HttpMethods,
              Analyzer!SipMethods, Analyzer!RtspMethods
  <2>3. CASE ret = "HTTP" /\ other = "SIP"
    BY <2>1, <2>3
  <2>4. CASE ret = "HTTP" /\ other = "RTSP"
    BY <2>1, <2>4
  <2>5. CASE ret = "RTP" \/ other = "RTP"
    BY <2>1, <2>2, <2>5
  <2>6. CASE (ret = "SIP" /\ other = "RTSP") \/ (ret = "RTSP" /\ other = "SIP")
    BY <2>1, <2>6
  <2> QED
    BY <2>1, <2>2, <2>3, <2>4, <2>5, <2>6
<1> QED
  BY <1>1, PathCorrect, PTL

\* Every payload 30-design.tex calls RTP is found to be, and what else is has
\* headers that claim too much, version 3, or an extension of 2^16 bytes.
THEOREM RtpDesigned == PSpec => []RtpAsDesigned
<1>1. ASSUME IInv PROVE RtpAsDesigned
  <2> SUFFICES ASSUME ~Analyzer!Searching
               PROVE  /\ Analyzer!DesignedRtp(packet) => ret = "RTP"
                      /\ ret = "RTP" =>
                           Analyzer!DesignedRtp(packet) \/ Analyzer!Overlooked(packet)
    BY DEF RtpAsDesigned, Analyzer!RtpAsDesigned
  <2>1. /\ packet.surplus \in Int /\ packet.surplus < 2^16
        /\ packet.surplus >= 0 => Analyzer!PayloadLen(packet) = packet.surplus
    BY <1>1, Surplus
  <2>2. ASSUME packet.kind = "binary"
        PROVE  /\ packet.version \in 0 .. 3 /\ packet.csrc_count \in 0 .. 15
               /\ packet.payload_type \in 0 .. 127 /\ packet.words \in 0 .. 2^16 - 1
               /\ packet.extension \in BOOLEAN
    BY <1>1, <2>2, PacketTyped DEF Texts, Binaries
  <2>3. ASSUME packet.kind = "binary", packet.words < 2^14
        PROVE  Analyzer!ExtensionLen(packet) = 4 * packet.words
    <3>1. PICK n : n = packet.words
      OBVIOUS
    <3>2. n \in Nat /\ n < 2^14
      BY <2>2, <2>3, <3>1
    <3>3. (4 * n) % 2^16 = 4 * n
      BY <3>2
    <3> QED
      BY <3>1, <3>3 DEF Analyzer!ExtensionLen, Analyzer!Uint16
  <2>4. ASSUME Analyzer!DesignedRtp(packet) PROVE ret = "RTP"
    <3>1. /\ packet.kind = "binary" /\ packet.version = 2 /\ packet.ssrc # 0
          /\ packet.payload_type \notin 35 .. 95
          /\ packet.surplus >= 12 + 4 * packet.csrc_count
          /\ packet.extension =>
               packet.surplus >= 12 + 4 * packet.csrc_count + 4 + 4 * packet.words
      BY <2>1, <2>2, <2>4 DEF Analyzer!DesignedRtp
    <3>2. Analyzer!PayloadLen(packet) = packet.surplus
      BY <2>1, <2>2, <3>1
    <3>3. packet.extension => packet.words < 2^14
      BY <2>1, <2>2, <3>1
    <3>4. packet.extension => Analyzer!ExtensionLen(packet) = 4 * packet.words
      BY <2>3, <3>1, <3>3
    <3>5. Analyzer!FixedLen(packet) = 12 + 4 * packet.csrc_count
      BY DEF Analyzer!FixedLen
    <3>6. packet.payload_type \in (0 .. 34) \cup (96 .. 127)
      BY <2>2, <3>1
    <3>7. Analyzer!SearchRtp(packet)
      BY <2>1, <2>2, <3>1, <3>2, <3>4, <3>5, <3>6 DEF Analyzer!SearchRtp, Analyzer!IsText
    <3>8. /\ ~Analyzer!Finds("HTTP", packet) /\ ~Analyzer!Finds("SIP", packet)
          /\ ~Analyzer!Finds("RTSP", packet) /\ Analyzer!Finds("RTP", packet)
      BY <3>1, <3>7 DEF Analyzer!Finds, Analyzer!SearchHttp, Analyzer!SearchSip,
                        Analyzer!SearchRtsp, Analyzer!IsText
    <3> QED
      BY <1>1, <3>8, Found
  <2>5. ASSUME ret = "RTP", ~Analyzer!Overlooked(packet)
        PROVE  Analyzer!DesignedRtp(packet)
    <3>1. Analyzer!SearchRtp(packet)
      <4>1. Analyzer!Finds("RTP", packet)
        BY <1>1, <2>5, Found
      <4> QED
        BY <4>1 DEF Analyzer!Finds
    <3>2. packet.kind = "binary"
      BY <1>1, <3>1, Surplus DEF Analyzer!SearchRtp, Analyzer!IsText
    <3>3. /\ packet.surplus >= 0 /\ packet.version # 3
          /\ packet.extension => packet.words < 2^14
      BY <2>1, <2>2, <2>5, <3>2 DEF Analyzer!Overlooked, Analyzer!Whole
    <3>4. Analyzer!PayloadLen(packet) = packet.surplus
      BY <2>1, <3>3
    <3>5. packet.extension => Analyzer!ExtensionLen(packet) = 4 * packet.words
      BY <2>3, <3>2, <3>3
    <3>6. Analyzer!FixedLen(packet) = 12 + 4 * packet.csrc_count
      BY DEF Analyzer!FixedLen
    <3>7. /\ packet.version >= 2 /\ packet.ssrc # 0
          /\ packet.payload_type \in (0 .. 34) \cup (96 .. 127)
          /\ packet.surplus >= 12 + 4 * packet.csrc_count
          /\ packet.extension =>
               packet.surplus >= 12 + 4 * packet.csrc_count + 4 + 4 * packet.words
      BY <3>1, <3>4, <3>5, <3>6 DEF Analyzer!SearchRtp
    <3> QED
      BY <2>1, <2>2, <3>2, <3>3, <3>7 DEF Analyzer!DesignedRtp
  <2> QED
    BY <2>4, <2>5
<1> QED
  BY <1>1, PathCorrect, PTL

\* A payload is found by the same methods whatever it reads on into, when what
\* they look at does not go on behind its end.
LEMMA SameFound ==
  ASSUME IInv, ~Analyzer!Searching, TagsFit, Legible(payload), NEW protocol
  PROVE  Analyzer!Finds(protocol, packet) <=> Analyzer!Finds(protocol, payload)
<1>1. /\ payload \in Payloads /\ packet \in Behind(l2_len)
      /\ l2_len = L2Field(L2(frame)) /\ frame \in Received
  BY Searched DEF IInv, FrameTypeOK, HeadInv
<1>2. l2_len = L2(frame)
  <2>1. L2(frame) \in Nat
    BY <1>1, FrameTyped DEF L2
  <2> QED
    BY <1>1, <2>1, FieldFits
<1>3. packet \in Completions(payload)
  BY <1>1, <1>2 DEF Behind, Legible
<1>4. CASE payload.kind # "text"
  BY <1>3, <1>4 DEF Completions
<1>5. CASE payload.kind = "text"
  <2>1. /\ packet.kind = "text" /\ packet.surplus = payload.surplus
        /\ packet.first = payload.first
        /\ packet.second \in Seconds(payload.second)
        /\ packet.third \in Thirds(payload.third)
    BY <1>3, <1>5 DEF Completions
  <2>2. /\ payload.second # "cut" => packet.second = payload.second
        /\ payload.second = "cut" => packet.second # "sip:"
        /\ payload.third # "cut" => packet.third = payload.third
    BY <2>1 DEF Seconds, Thirds
  <2>3. Analyzer!PayloadLen(packet) = Analyzer!PayloadLen(payload)
    BY <2>1 DEF Analyzer!PayloadLen
  <2>4. Analyzer!SearchHttp(packet) <=> Analyzer!SearchHttp(payload)
    BY <1>5, <2>1, <2>2, <2>3 DEF Analyzer!SearchHttp, Analyzer!IsText, Legible
  <2>5. Analyzer!SearchSip(packet) <=> Analyzer!SearchSip(payload)
    BY <1>5, <2>1, <2>2, <2>3 DEF Analyzer!SearchSip, Analyzer!IsText
  <2>6. Analyzer!SearchRtsp(packet) <=> Analyzer!SearchRtsp(payload)
    BY <1>5, <2>1, <2>2, <2>3 DEF Analyzer!SearchRtsp, Analyzer!IsText, Legible
  <2>7. ~Analyzer!SearchRtp(packet) /\ ~Analyzer!SearchRtp(payload)
    BY <1>5, <2>1 DEF Analyzer!SearchRtp, Analyzer!IsText
  <2> QED
    BY <2>4, <2>5, <2>6, <2>7 DEF Analyzer!Finds
<1> QED
  BY <1>4, <1>5

\* The class of a payload depends on nothing in front of it, nor on what lies
\* behind it, when there are at most 28 tags and it holds what is looked at.
THEOREM TagsAside == PSpec => []TagsDontMatter
<1>1. ASSUME IInv PROVE TagsDontMatter
  <2> DEFINE F(n) == Analyzer!Finds(Analyzer!methods_[n], payload)
             finding == {n \in 1 .. 4 : F(n)}
  <2> SUFFICES ASSUME ~Analyzer!Searching, TagsFit, Legible(payload)
               PROVE  ret = ClassOf(payload)
    BY DEF TagsDontMatter
  <2>1. \A protocol : Analyzer!Finds(protocol, packet) <=> Analyzer!Finds(protocol, payload)
    BY <1>1, SameFound
  <2>2. ClassOf(payload) = IF finding = {} THEN "UNKNOWN"
                           ELSE Analyzer!methods_[Min(finding)]
    BY Methods DEF ClassOf
  <2>3. CASE ret = "UNKNOWN" /\ \A n \in 1 .. 4 : ~F(n)
    <3>1. finding = {}
      BY <2>3
    <3> HIDE DEF finding
    <3> QED
      BY <2>2, <2>3, <3>1
  <2>4. ASSUME NEW n \in 1 .. 4, ret = Analyzer!methods_[n], F(n),
               \A k \in 1 .. n - 1 : ~F(k)
        PROVE  ret = ClassOf(payload)
    <3>1. n \in finding /\ finding \in SUBSET Nat
      BY <2>4
    <3>2. \A k \in finding : k \in 1 .. 4 /\ ~(k \in 1 .. n - 1)
      BY <2>4
    <3> HIDE DEF finding
    <3>3. Min(finding) \in finding /\ \A k \in finding : Min(finding) <= k
      BY <3>1, LeastElement
    <3>4. PICK k : k = Min(finding)
      OBVIOUS
    <3>5. k = n
      <4>1. k \in finding /\ k <= n
        BY <3>1, <3>3, <3>4
      <4>2. k \in 1 .. 4 /\ ~(k \in 1 .. n - 1)
        BY <3>2, <4>1
      <4> QED
        BY <4>1, <4>2
    <3> QED
      BY <2>2, <2>4, <3>1, <3>4, <3>5
  <2>5. \/ ret = "UNKNOWN" /\ \A n \in 1 .. 4 : ~F(n)
        \/ \E n \in 1 .. 4 : /\ ret = Analyzer!methods_[n] /\ F(n)
                             /\ \A k \in 1 .. n - 1 : ~F(k)
    BY <1>1, <2>1, SearchEnded
  <2> QED
    BY <2>3, <2>4, <2>5
<1> QED
  BY <1>1, PathCorrect, PTL
=============================================================================
