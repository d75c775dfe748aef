-------------------------- MODULE DataPlaneProofs --------------------------
(***************************************************************************)
(* What holds of DataPlane for every number of ports, every rule table and *)
(* every size of the buffers, rings and mempool.  The first part proves    *)
(* who owns an mbuf and who is in a TX queue.  The second is about what is *)
(* counted: the arrays of PortQueue are never overrun, every classified    *)
(* frame is counted once, the mbufs lost are those of the frames without a *)
(* rule, and a mempool larger than InUseAtMost never runs dry.  The third  *)
(* proves that the data plane implements LossyForwarding, when it loses a  *)
(* frame, and what that means for the frames on the wires.                 *)
(***************************************************************************)
EXTENDS DataPlaneRefinement, SequenceTheorems, FiniteSetTheorems,
        WellFoundedInduction, TLAPS

-----------------------------------------------------------------------------
(* How the steps of the data plane move mbufs: each keeps the partition.   *)

Cell == Mbufs \cup {NoMbuf}

\* An mbuf taken from the mempool is appended to a buffer.
LEMMA AllocKeepsPartition ==
  ASSUME NEW B, NEW held \in [B -> Seq(Cell)],
         NEW free \in SUBSET Mbufs, NEW leaked \in SUBSET Mbufs,
         Partition(held, free, leaked),
         NEW b \in B, NEW m \in free
  PROVE  Partition([held EXCEPT ![b] = Append(@, m)], free \ {m}, leaked)
<1> DEFINE h2 == [held EXCEPT ![b] = Append(@, m)]
<1>0. NoMbuf \notin Mbufs
  BY DataPlaneAssumption
<1>1. ASSUME NEW c \in B, NEW i \in DOMAIN h2[c]
      PROVE  \/ c = b /\ i = Len(held[b]) + 1 /\ h2[c][i] = m
             \/ i \in DOMAIN held[c] /\ h2[c][i] = held[c][i]
  BY <1>1 DEF Cell
<1>2. ASSUME NEW c \in B, NEW i \in DOMAIN held[c]
      PROVE  i \in DOMAIN h2[c] /\ h2[c][i] = held[c][i]
  BY <1>2 DEF Cell
<1>3. Len(held[b]) + 1 \in DOMAIN h2[b] /\ h2[b][Len(held[b]) + 1] = m
  BY DEF Cell
<1>4. DOMAIN h2 = B /\ DOMAIN held = B
  OBVIOUS
<1> HIDE DEF h2
<1>5. ASSUME NEW c \in B, NEW d \in B, NEW i \in DOMAIN h2[c],
             NEW j \in DOMAIN h2[d], h2[c][i] = h2[d][j], h2[c][i] # NoMbuf
      PROVE  c = d /\ i = j
  BY <1>1, <1>4, <1>5, SMTT(40) DEF Partition
<1>6. ASSUME NEW c \in B, NEW i \in DOMAIN h2[c]
      PROVE  h2[c][i] \notin (free \ {m}) \cup leaked
  BY <1>1, <1>4, <1>6 DEF Partition
<1>7. ASSUME NEW n \in Mbufs \ ((free \ {m}) \cup leaked)
      PROVE  \E c \in B : \E i \in DOMAIN h2[c] : h2[c][i] = n
  BY <1>2, <1>3, <1>4, <1>7 DEF Partition
<1> QED
  BY <1>4, <1>5, <1>6, <1>7 DEF Partition, h2

\* The null pointer is appended to a buffer.
LEMMA NullKeepsPartition ==
  ASSUME NEW B, NEW held \in [B -> Seq(Cell)],
         NEW free \in SUBSET Mbufs, NEW leaked \in SUBSET Mbufs,
         Partition(held, free, leaked),
         NEW b \in B
  PROVE  Partition([held EXCEPT ![b] = Append(@, NoMbuf)], free, leaked)
<1> DEFINE h2 == [held EXCEPT ![b] = Append(@, NoMbuf)]
<1>0. NoMbuf \notin Mbufs
  BY DataPlaneAssumption
<1>1. ASSUME NEW c \in B, NEW i \in DOMAIN h2[c]
      PROVE  \/ h2[c][i] = NoMbuf
             \/ i \in DOMAIN held[c] /\ h2[c][i] = held[c][i]
  BY <1>1 DEF Cell
<1>2. ASSUME NEW c \in B, NEW i \in DOMAIN held[c]
      PROVE  i \in DOMAIN h2[c] /\ h2[c][i] = held[c][i]
  BY <1>2 DEF Cell
<1>3. DOMAIN h2 = B /\ DOMAIN held = B
  OBVIOUS
<1> HIDE DEF h2
<1>4. ASSUME NEW c \in B, NEW d \in B, NEW i \in DOMAIN h2[c],
             NEW j \in DOMAIN h2[d], h2[c][i] = h2[d][j], h2[c][i] # NoMbuf
      PROVE  c = d /\ i = j
  BY <1>1, <1>3, <1>4 DEF Partition
<1>5. ASSUME NEW c \in B, NEW i \in DOMAIN h2[c]
      PROVE  h2[c][i] \notin free \cup leaked
  BY <1>0, <1>1, <1>3, <1>5 DEF Partition
<1>6. ASSUME NEW n \in Mbufs \ (free \cup leaked)
      PROVE  \E c \in B : \E i \in DOMAIN h2[c] : h2[c][i] = n
  BY <1>2, <1>3, <1>6 DEF Partition
<1> QED
  BY <1>3, <1>4, <1>5, <1>6 DEF Partition, h2

\* The first mbuf of a buffer leaves it, for the mempool or for nowhere.
LEMMA TailKeepsPartition ==
  ASSUME NEW B, NEW held \in [B -> Seq(Cell)],
         NEW free \in SUBSET Mbufs, NEW leaked \in SUBSET Mbufs,
         Partition(held, free, leaked),
         NEW b \in B, held[b] # << >>, Head(held[b]) # NoMbuf,
         NEW free2, NEW leaked2,
         free2 \cup leaked2 = free \cup leaked \cup {Head(held[b])},
         free2 \cap leaked2 = {}
  PROVE  Partition([held EXCEPT ![b] = Tail(@)], free2, leaked2)
<1> DEFINE h2 == [held EXCEPT ![b] = Tail(@)]
           At2(c, i) == IF c = b THEN i + 1 ELSE i
<1>1. ASSUME NEW c \in B, NEW i \in DOMAIN h2[c]
      PROVE  /\ i \in Nat
             /\ At2(c, i) \in DOMAIN held[c]
             /\ h2[c][i] = held[c][At2(c, i)]
             /\ c = b => At2(c, i) # 1
  BY <1>1 DEF Cell
<1>2. ASSUME NEW c \in B, NEW i \in DOMAIN held[c], c # b \/ i # 1
      PROVE  \E j \in DOMAIN h2[c] : h2[c][j] = held[c][i]
  <2>1. CASE c # b
    BY <1>2, <2>1
  <2>2. CASE c = b
    <3>1. i - 1 \in DOMAIN h2[c] /\ h2[c][i - 1] = held[c][i]
      BY <1>2, <2>2 DEF Cell
    <3> QED
      BY <3>1
  <2> QED
    BY <2>1, <2>2
<1>3. DOMAIN h2 = B /\ DOMAIN held = B
  OBVIOUS
<1>4. 1 \in DOMAIN held[b] /\ held[b][1] = Head(held[b])
  BY DEF Cell
<1> HIDE DEF h2
<1>5. ASSUME NEW c \in B, NEW d \in B, NEW i \in DOMAIN h2[c],
             NEW j \in DOMAIN h2[d], h2[c][i] = h2[d][j], h2[c][i] # NoMbuf
      PROVE  c = d /\ i = j
  <2>1. c = d /\ At2(c, i) = At2(d, j)
    <3> HIDE DEF At2
    <3> QED BY <1>1, <1>3, <1>5 DEF Partition
  <2> QED
    BY <2>1, <1>1
<1>6. ASSUME NEW c \in B, NEW i \in DOMAIN h2[c]
      PROVE  h2[c][i] \notin free2 \cup leaked2
  <2>1. h2[c][i] \notin free \cup leaked
    <3> HIDE DEF At2
    <3> QED BY <1>1, <1>3, <1>6 DEF Partition
  <2>2. h2[c][i] # Head(held[b])
    <3> HIDE DEF At2
    <3> QED BY <1>1, <1>3, <1>4, <1>6 DEF Partition
  <2> QED
    BY <2>1, <2>2
<1>7. ASSUME NEW n \in Mbufs \ (free2 \cup leaked2)
      PROVE  \E c \in B : \E i \in DOMAIN h2[c] : h2[c][i] = n
  <2>1. n \in Mbufs \ (free \cup leaked) /\ n # Head(held[b])
    BY <1>7
  <2>2. PICK c \in B : \E i \in DOMAIN held[c] : held[c][i] = n
    BY <2>1, <1>3 DEF Partition
  <2>3. PICK i \in DOMAIN held[c] : held[c][i] = n
    BY <2>2
  <2>4. c # b \/ i # 1
    BY <2>1, <2>3, <1>4
  <2> QED
    BY <1>2, <2>3, <2>4
<1> QED
  BY <1>3, <1>5, <1>6, <1>7 DEF Partition, h2

\* A whole buffer is freed.
LEMMA FlushKeepsPartition ==
  ASSUME NEW B, NEW held \in [B -> Seq(Cell)],
         NEW free \in SUBSET Mbufs, NEW leaked \in SUBSET Mbufs,
         Partition(held, free, leaked),
         NEW b \in B, NEW freed,
         freed = {held[b][i] : i \in 1 .. Len(held[b])} \ {NoMbuf}
  PROVE  Partition([held EXCEPT ![b] = << >>], free \cup freed, leaked)
<1> DEFINE h2 == [held EXCEPT ![b] = << >>]
<1>1. ASSUME NEW c \in B, NEW i \in DOMAIN h2[c]
      PROVE  c # b /\ i \in DOMAIN held[c] /\ h2[c][i] = held[c][i]
  BY <1>1 DEF Cell
<1>2. ASSUME NEW c \in B, NEW i \in DOMAIN held[c], c # b
      PROVE  i \in DOMAIN h2[c] /\ h2[c][i] = held[c][i]
  BY <1>2 DEF Cell
<1>3. DOMAIN h2 = B /\ DOMAIN held = B
  OBVIOUS
<1>4. DOMAIN held[b] = 1 .. Len(held[b])
  BY DEF Cell
<1>5. NoMbuf \notin Mbufs
  BY DataPlaneAssumption
<1>6. \A n \in freed : \E i \in DOMAIN held[b] : held[b][i] = n /\ n # NoMbuf
  BY <1>4
<1> HIDE DEF h2
<1>7. ASSUME NEW c \in B, NEW d \in B, NEW i \in DOMAIN h2[c],
             NEW j \in DOMAIN h2[d], h2[c][i] = h2[d][j], h2[c][i] # NoMbuf
      PROVE  c = d /\ i = j
  BY <1>1, <1>3, <1>7 DEF Partition
<1>8. ASSUME NEW c \in B, NEW i \in DOMAIN h2[c]
      PROVE  h2[c][i] \notin (free \cup freed) \cup leaked
  BY <1>1, <1>3, <1>6, <1>8 DEF Partition
<1>9. (free \cup freed) \cap leaked = {}
  BY <1>3, <1>6 DEF Partition
<1>10. ASSUME NEW n \in Mbufs \ ((free \cup freed) \cup leaked)
       PROVE  \E c \in B : \E i \in DOMAIN h2[c] : h2[c][i] = n
  <2>1. PICK c \in B : \E i \in DOMAIN held[c] : held[c][i] = n
    BY <1>10, <1>3 DEF Partition
  <2>2. c # b
    BY <1>4, <1>5, <1>10, <2>1
  <2> QED
    BY <1>2, <2>1, <2>2
<1> QED
  BY <1>3, <1>7, <1>8, <1>9, <1>10 DEF Partition, h2

\* The first n mbufs of one buffer are appended to another.
LEMMA MoveKeepsPartition ==
  ASSUME NEW B, NEW held \in [B -> Seq(Cell)],
         NEW free \in SUBSET Mbufs, NEW leaked \in SUBSET Mbufs,
         Partition(held, free, leaked),
         NEW t \in B, NEW r \in B, t # r,
         NEW n \in 0 .. Len(held[t])
  PROVE  Partition([held EXCEPT ![r] = @ \o SubSeq(held[t], 1, n),
                                ![t] = SubSeq(@, n + 1, Len(@))],
                   free, leaked)
<1> DEFINE h2 == [held EXCEPT ![r] = @ \o SubSeq(held[t], 1, n),
                              ![t] = SubSeq(@, n + 1, Len(@))]
           OldBuffer(c, i) == IF c = r /\ i > Len(held[r]) THEN t ELSE c
           OldIndex(c, i) == IF c = t THEN i + n
                             ELSE IF c = r /\ i > Len(held[r])
                             THEN i - Len(held[r]) ELSE i
<1> SUFFICES Partition(h2, free, leaked)
  OBVIOUS
<1>1. /\ Len(held[t]) \in Nat /\ DOMAIN held[t] = 1 .. Len(held[t])
      /\ Len(held[r]) \in Nat /\ DOMAIN held[r] = 1 .. Len(held[r])
  BY DEF Cell
<1>2. /\ h2[t] = SubSeq(held[t], n + 1, Len(held[t]))
      /\ h2[r] = held[r] \o SubSeq(held[t], 1, n)
      /\ \A c \in B : c # t /\ c # r => h2[c] = held[c]
  OBVIOUS
<1>3. /\ DOMAIN h2[t] = 1 .. Len(held[t]) - n
      /\ \A i \in 1 .. Len(held[t]) - n : h2[t][i] = held[t][i + n]
  BY <1>1, <1>2 DEF Cell
<1>4. /\ DOMAIN h2[r] = 1 .. Len(held[r]) + n
      /\ \A i \in 1 .. Len(held[r]) : h2[r][i] = held[r][i]
      /\ \A i \in 1 .. n : h2[r][Len(held[r]) + i] = held[t][i]
  BY <1>1, <1>2 DEF Cell
<1>5. DOMAIN h2 = B /\ DOMAIN held = B
  OBVIOUS
<1>6. \A c \in B : DOMAIN held[c] = 1 .. Len(held[c]) /\ Len(held[c]) \in Nat
  BY DEF Cell
<1> HIDE DEF h2
<1>7. ASSUME NEW c \in B, NEW i \in DOMAIN h2[c]
      PROVE  /\ i \in Nat \ {0}
             /\ OldBuffer(c, i) \in B
             /\ OldIndex(c, i) \in DOMAIN held[OldBuffer(c, i)]
             /\ h2[c][i] = held[OldBuffer(c, i)][OldIndex(c, i)]
  <2>1. CASE c = t
    BY <2>1, <1>1, <1>3, <1>7
  <2>2. CASE c = r /\ i <= Len(held[r])
    BY <2>2, <1>1, <1>4, <1>7
  <2>3. CASE c = r /\ i > Len(held[r])
    <3>1. i - Len(held[r]) \in 1 .. n /\ i = Len(held[r]) + (i - Len(held[r]))
      BY <2>3, <1>1, <1>4, <1>7
    <3>2. h2[r][i] = held[t][i - Len(held[r])]
      BY <3>1, <1>4
    <3> QED
      BY <2>3, <3>1, <3>2, <1>1
  <2>4. CASE c # t /\ c # r
    BY <2>4, <1>2, <1>6, <1>7
  <2> QED
    BY <2>1, <2>2, <2>3, <2>4, <1>1, <1>4, <1>7
<1>8. ASSUME NEW c \in B, NEW d \in B, NEW i \in DOMAIN h2[c],
             NEW j \in DOMAIN h2[d],
             OldBuffer(c, i) = OldBuffer(d, j), OldIndex(c, i) = OldIndex(d, j)
      PROVE  c = d /\ i = j
  <2>1. i \in Nat /\ j \in Nat
    BY <1>7, <1>8
  <2>2. c = t => i \in 1 .. Len(held[t]) - n
    BY <1>3, <1>8
  <2>3. d = t => j \in 1 .. Len(held[t]) - n
    BY <1>3, <1>8
  <2>4. c = r => i \in 1 .. Len(held[r]) + n
    BY <1>4, <1>8
  <2>5. d = r => j \in 1 .. Len(held[r]) + n
    BY <1>4, <1>8
  <2> QED
    BY <1>1, <1>8, <2>1, <2>2, <2>3, <2>4, <2>5
<1>9. ASSUME NEW c \in B, NEW d \in B, NEW i \in DOMAIN h2[c],
             NEW j \in DOMAIN h2[d], h2[c][i] = h2[d][j], h2[c][i] # NoMbuf
      PROVE  c = d /\ i = j
  <2>1. OldBuffer(c, i) = OldBuffer(d, j) /\ OldIndex(c, i) = OldIndex(d, j)
    <3> HIDE DEF OldBuffer, OldIndex
    <3> QED BY <1>5, <1>7, <1>9 DEF Partition
  <2> QED
    BY <1>8, <2>1
<1>10. ASSUME NEW c \in B, NEW i \in DOMAIN h2[c]
       PROVE  h2[c][i] \notin free \cup leaked
  <2> HIDE DEF OldBuffer, OldIndex
  <2> QED BY <1>5, <1>7, <1>10 DEF Partition
<1>11. ASSUME NEW m \in Mbufs \ (free \cup leaked)
       PROVE  \E c \in B : \E i \in DOMAIN h2[c] : h2[c][i] = m
  <2>1. PICK c \in B : \E i \in DOMAIN held[c] : held[c][i] = m
    BY <1>5, <1>11 DEF Partition
  <2>2. PICK i \in DOMAIN held[c] : held[c][i] = m
    BY <2>1
  <2>3. CASE c = t /\ i > n
    <3>1. i - n \in DOMAIN h2[t] /\ h2[t][i - n] = m
      BY <1>1, <1>3, <2>2, <2>3
    <3> QED
      BY <3>1
  <2>4. CASE c = t /\ i <= n
    <3>1. Len(held[r]) + i \in DOMAIN h2[r] /\ h2[r][Len(held[r]) + i] = m
      BY <1>1, <1>4, <2>2, <2>4
    <3> QED
      BY <3>1
  <2>5. CASE c = r
    BY <1>1, <1>4, <2>2, <2>5
  <2>6. CASE c # t /\ c # r
    BY <1>2, <2>2, <2>6
  <2> QED
    BY <2>3, <2>4, <2>5, <2>6, <1>1, <2>2
<1> QED
  BY <1>5, <1>9, <1>10, <1>11 DEF Partition

-----------------------------------------------------------------------------
(* Sequences that are not empty. *)

LEMMA AppendNotEmpty ==
  ASSUME NEW S, NEW s \in Seq(S), NEW e \in S
  PROVE  Append(s, e) # << >>
<1>1. Len(Append(s, e)) # 0
  OBVIOUS
<1>2. Len(<< >>) = 0
  OBVIOUS
<1> QED
  BY <1>1, <1>2, Zenon

LEMMA SuffixNotEmpty ==
  ASSUME NEW S, NEW s \in Seq(S), NEW n \in 1 .. Len(s), n # Len(s)
  PROVE  SubSeq(s, n + 1, Len(s)) # << >>
<1>1. Len(SubSeq(s, n + 1, Len(s))) = Len(s) - n /\ Len(s) - n # 0
  OBVIOUS
<1>2. Len(<< >>) = 0
  OBVIOUS
<1> QED
  BY <1>1, <1>2, Zenon

-----------------------------------------------------------------------------
(* Contents, when one of the sequences it gathers changes. *)

RxBuffer(p) == <<"rx", p, p>>
TxBuffer(p, q) == <<"tx", p, q>>
RingBuffer(q) == <<"ring", q, q>>

LEMMA BuffersAre ==
  ASSUME NEW b \in Buffers
  PROVE  \/ \E p \in Ports : b = RxBuffer(p)
         \/ \E p, q \in Ports : b = TxBuffer(p, q)
         \/ \E q \in Ports : b = RingBuffer(q)
BY DEF Buffers, RxBuffer, TxBuffer, RingBuffer

LEMMA ContentsOf ==
  ASSUME NEW p \in Ports, NEW q \in Ports
  PROVE  /\ RxBuffer(p) \in Buffers /\ Contents[RxBuffer(p)] = rx[p]
         /\ TxBuffer(p, q) \in Buffers /\ Contents[TxBuffer(p, q)] = tx[p][q]
         /\ RingBuffer(q) \in Buffers /\ Contents[RingBuffer(q)] = ring[q]
BY DEF Contents, Buffers, RxBuffer, TxBuffer, RingBuffer

LEMMA MbufsAreCells == Seq(Mbufs) \subseteq Seq(Cell)
<1>1. ASSUME NEW s \in Seq(Mbufs) PROVE s \in Seq(Cell)
  <2>1. Len(s) \in Nat /\ s \in [1 .. Len(s) -> Cell]
    BY DEF Cell
  <2> QED
    BY <2>1
<1> QED
  BY <1>1

LEMMA ContentsType == TypeOK => Contents \in [Buffers -> Seq(Cell)]
<1> SUFFICES ASSUME TypeOK PROVE Contents \in [Buffers -> Seq(Cell)]
  OBVIOUS
<1>1. ASSUME NEW p \in Ports, NEW q \in Ports
      PROVE  /\ rx[p] \in Seq(Cell)
             /\ tx[p][q] \in Seq(Cell)
             /\ ring[q] \in Seq(Cell)
  <2>1. rx[p] \in Seq(Mbufs) /\ ring[q] \in Seq(Mbufs)
    BY DEF TypeOK
  <2>2. tx[p][q] \in Seq(Cell)
    BY DEF TypeOK, Row, Cell
  <2> QED
    BY <2>1, <2>2, MbufsAreCells
<1>2. ASSUME NEW b \in Buffers PROVE Contents[b] \in Seq(Cell)
  BY <1>1, BuffersAre, ContentsOf
<1> QED
  BY <1>2 DEF Contents

\* The elements of a changed Contents, one kind of buffer at a time.
LEMMA RxChanges ==
  ASSUME TypeOK, NEW p \in Ports, NEW s,
         rx' = [rx EXCEPT ![p] = s], UNCHANGED <<tx, ring>>
  PROVE  Contents' = [Contents EXCEPT ![RxBuffer(p)] = s]
<1>1. ASSUME NEW b \in Buffers
      PROVE  Contents'[b] = IF b = RxBuffer(p) THEN s ELSE Contents[b]
  <2>1. rx'[p] = s /\ \A o \in Ports : o # p => rx'[o] = rx[o]
    BY DEF TypeOK
  <2>2. CASE b[1] = "rx"
    BY <2>1, <2>2 DEF Contents, Buffers, RxBuffer
  <2>3. CASE b[1] # "rx"
    BY <2>3 DEF Contents, RxBuffer
  <2> QED
    BY <2>2, <2>3
<1> QED
  BY <1>1 DEF Contents

LEMMA TxChanges ==
  ASSUME TypeOK, NEW p \in Ports, NEW q \in Ports, NEW s,
         tx' = [tx EXCEPT ![p][q] = s], UNCHANGED <<rx, ring>>
  PROVE  Contents' = [Contents EXCEPT ![TxBuffer(p, q)] = s]
<1>1. ASSUME NEW b \in Buffers
      PROVE  Contents'[b] = IF b = TxBuffer(p, q) THEN s ELSE Contents[b]
  <2>1. /\ tx'[p][q] = s
        /\ \A o, d \in Ports : o # p \/ d # q => tx'[o][d] = tx[o][d]
    BY DEF TypeOK, Row
  <2>2. CASE b[1] = "tx"
    BY <2>1, <2>2 DEF Contents, Buffers, TxBuffer
  <2>3. CASE b[1] # "tx"
    BY <2>3 DEF Contents, Buffers, TxBuffer
  <2> QED
    BY <2>2, <2>3
<1> QED
  BY <1>1 DEF Contents

LEMMA RingChanges ==
  ASSUME TypeOK, NEW q \in Ports, NEW s,
         ring' = [ring EXCEPT ![q] = s], UNCHANGED <<rx, tx>>
  PROVE  Contents' = [Contents EXCEPT ![RingBuffer(q)] = s]
<1>1. ASSUME NEW b \in Buffers
      PROVE  Contents'[b] = IF b = RingBuffer(q) THEN s ELSE Contents[b]
  <2>1. ring'[q] = s /\ \A o \in Ports : o # q => ring'[o] = ring[o]
    BY DEF TypeOK
  <2>2. CASE b[1] = "ring"
    BY <2>1, <2>2 DEF Contents, Buffers, RingBuffer
  <2>3. CASE b[1] # "ring"
    BY <2>3 DEF Contents, Buffers, RingBuffer
  <2> QED
    BY <2>2, <2>3
<1> QED
  BY <1>1 DEF Contents

LEMMA TxAndRingChange ==
  ASSUME TypeOK, NEW p \in Ports, NEW q \in Ports, NEW s, NEW s2,
         tx' = [tx EXCEPT ![p][q] = s], ring' = [ring EXCEPT ![q] = s2],
         UNCHANGED rx
  PROVE  Contents' = [Contents EXCEPT ![RingBuffer(q)] = s2,
                                      ![TxBuffer(p, q)] = s]
<1>1. ASSUME NEW b \in Buffers
      PROVE  Contents'[b] = IF b = TxBuffer(p, q) THEN s
                            ELSE IF b = RingBuffer(q) THEN s2 ELSE Contents[b]
  <2>1. /\ tx'[p][q] = s
        /\ \A o, d \in Ports : o # p \/ d # q => tx'[o][d] = tx[o][d]
    BY DEF TypeOK, Row
  <2>2. ring'[q] = s2 /\ \A o \in Ports : o # q => ring'[o] = ring[o]
    BY DEF TypeOK
  <2>3. CASE b[1] = "tx"
    BY <2>1, <2>3 DEF Contents, Buffers, TxBuffer, RingBuffer
  <2>4. CASE b[1] = "ring"
    BY <2>2, <2>4 DEF Contents, Buffers, TxBuffer, RingBuffer
  <2>5. CASE b[1] # "tx" /\ b[1] # "ring"
    BY <2>5 DEF Contents, Buffers, TxBuffer, RingBuffer
  <2> QED
    BY <2>3, <2>4, <2>5
<1>2. RingBuffer(q) # TxBuffer(p, q)
  BY DEF RingBuffer, TxBuffer
<1> QED
  BY <1>1, <1>2 DEF Contents

-----------------------------------------------------------------------------
(* Facts about the data the actions work on. *)

LEMMA TableFacts ==
  ASSUME TypeOK, NEW k \in DOMAIN rules
  PROVE  rules[k] \in Seq(ActionSet) /\ WellFormed(rules[k])
BY DataPlaneAssumption DEF TypeOK, IsRuleTable

LEMMA ActionFacts ==
  ASSUME NEW a \in ActionSet
  PROVE  /\ a.type = "PUSH" => a.tag \in Tags
         /\ a.type = "OUTPUT" => a.port \in Ports /\ a = OUTPUT(a.port)
BY DEF ActionSet, DROP, PUSH, OUTPUT

LEMMA PushedType ==
  ASSUME NEW f \in Frames, NEW t \in Tags
  PROVE  Pushed(f, t) \in Frames
BY DEF Pushed, Frames

\* The first packet of an RX queue that is not empty is an mbuf with a frame.
LEMMA HeadIsLive ==
  ASSUME TypeOK, OneOwner, Live, NEW p \in Ports, rx[p] # << >>
  PROVE  Head(rx[p]) \in Mbufs /\ frame[Head(rx[p])] \in Frames
<1>1. 1 \in DOMAIN rx[p] /\ rx[p][1] = Head(rx[p]) /\ Head(rx[p]) \in Mbufs
  BY DEF TypeOK
<1>2. Contents[RxBuffer(p)] = rx[p] /\ RxBuffer(p) \in Buffers
  BY ContentsOf
<1>3. Head(rx[p]) \notin pool \cup lost
  BY <1>1, <1>2 DEF OneOwner, Partition, Contents
<1> QED
  BY <1>1, <1>3 DEF Live

LEMMA RingHeadIsLive ==
  ASSUME TypeOK, OneOwner, Live, NEW q \in Ports, ring[q] # << >>
  PROVE  Head(ring[q]) \in Mbufs /\ frame[Head(ring[q])] \in Frames
<1>1. /\ 1 \in DOMAIN ring[q]
      /\ ring[q][1] = Head(ring[q])
      /\ Head(ring[q]) \in Mbufs
  BY DEF TypeOK
<1>2. Contents[RingBuffer(q)] = ring[q] /\ RingBuffer(q) \in Buffers
  BY ContentsOf
<1>3. Head(ring[q]) \notin pool \cup lost
  BY <1>1, <1>2 DEF OneOwner, Partition, Contents
<1> QED
  BY <1>1, <1>3 DEF Live

\* tx_burst takes a prefix of the batch.
LEMMA TakenFacts ==
  ASSUME TypeOK, NEW p \in Ports, queue[p] \in Ports, Taken(p) > 0
  PROVE  Taken(p) \in 1 .. Len(Batch(p))
<1>1. Len(Batch(p)) \in Nat /\ Room(queue[p]) \in Int
  BY DataPlaneAssumption DEF TypeOK, Row, Batch, Room
<1> QED
  BY <1>1 DEF Taken

LEMMA FreeType ==
  ASSUME TypeOK, NEW ms \in SUBSET Mbufs, Free(ms)
  PROVE  pool' \subseteq Mbufs /\ frame' \in [Mbufs -> Frames \cup {NoFrame}]
BY DEF Free, TypeOK

LEMMA CountType ==
  ASSUME TypeOK, NEW p \in Ports, NEW c, CountProtocol(p, c)
  PROVE  stats' \in [Ports -> [Counted -> Nat]]
BY DEF CountProtocol, TypeOK

LEMMA GotoType ==
  ASSUME TypeOK, NEW p \in Ports, NEW l \in Locations, Goto(p, l)
  PROVE  pc' \in [Ports -> Locations]
BY DEF Goto, TypeOK

-----------------------------------------------------------------------------
(* TypeOK is kept.  Only the actions that change data need the rest of the *)
(* invariant: that the mbufs they read hold frames.                        *)

LEMMA LoopKeepsType ==
  ASSUME IInv, NEW p \in Ports, Loop(p)
  PROVE  TypeOK'
<1> USE DEF IInv, TypeOK, Locations, At, Goto
<1>1. CASE Leave(p)
  BY <1>1 DEF Leave
<1>2. CASE BeginDrain(p)
  BY <1>2, RulesAssumption DEF BeginDrain
<1>3. CASE SkipDrain(p)
  BY <1>3 DEF SkipDrain
<1>4. CASE DrainPort(p)
  <2>1. queue[p] + 1 \in 0 .. NbPorts
    BY <1>4, RulesAssumption DEF DrainPort
  <2>2. pc' \in [Ports -> Locations] /\ queue' \in [Ports -> 0 .. NbPorts]
    BY <1>4, <2>1 DEF DrainPort
  <2> QED
    BY <1>4, <2>2 DEF DrainPort
<1>5. CASE EndDrain(p)
  <2>1. PICK up \in BOOLEAN : /\ link' = [link EXCEPT ![p] = up]
                             /\ Goto(p, IF up THEN "recv" ELSE "poll")
    BY <1>5 DEF EndDrain
  <2>2. 0 \in 0 .. NbPorts
    BY RulesAssumption
  <2> QED
    BY <1>5, <2>1, <2>2 DEF EndDrain
<1> QED
  BY <1>1, <1>2, <1>3, <1>4, <1>5 DEF Loop

LEMMA ReceiveKeepsType ==
  ASSUME IInv, NEW p \in Ports, Receive(p)
  PROVE  TypeOK'
<1> USE DEF IInv, TypeOK
<1>1. CASE RxOne(p)
  <2>1. PICK m \in pool, class \in Traffic :
          /\ pool' = pool \ {m}
          /\ frame' = [frame EXCEPT ![m] =
                         [src |-> p, no |-> Len(arrived[p]) + 1,
                          class |-> class, tags |-> << >>]]
          /\ rx' = [rx EXCEPT ![p] = Append(@, m)]
          /\ arrived' = [arrived EXCEPT ![p] = Append(@, class)]
    BY <1>1 DEF RxOne
  <2>2. class \in Classes
    BY DataPlaneAssumption
  <2>3. [src |-> p, no |-> Len(arrived[p]) + 1, class |-> class,
         tags |-> << >>] \in Frames
    BY <2>2 DEF Frames
  <2> QED
    BY <1>1, <2>1, <2>2, <2>3 DEF RxOne
<1>2. CASE RxDone(p)
  BY <1>2 DEF RxDone, Goto, Locations
<1> QED
  BY <1>1, <1>2 DEF Receive

LEMMA ProcessKeepsType ==
  ASSUME IInv, NEW p \in Ports, Process(p)
  PROVE  TypeOK'
<1>0. TypeOK /\ OneOwner /\ Live
  BY DEF IInv
<1>1. CASE ProcessDone(p)
  BY <1>0, <1>1 DEF ProcessDone, TypeOK, Goto, Locations
<1>2. CASE Unsupported(p)
  <2>1. Head(rx[p]) \in Mbufs
    BY <1>0, <1>2, HeadIsLive DEF Unsupported
  <2>2. pool' \subseteq Mbufs /\ frame' \in [Mbufs -> Frames \cup {NoFrame}]
    BY <1>0, <1>2, <2>1, FreeType DEF Unsupported
  <2> QED
    BY <1>0, <1>2, <2>2 DEF Unsupported, TypeOK
<1>3. CASE Unruled(p)
  <2>1. Head(rx[p]) \in Mbufs
    BY <1>0, <1>3, HeadIsLive DEF Unruled
  <2>2. stats' \in [Ports -> [Counted -> Nat]]
    BY <1>0, <1>3, CountType DEF Unruled
  <2>3. rx' \in [Ports -> Seq(Mbufs)]
    BY <1>0, <1>3 DEF Unruled, TypeOK
  <2>4. frame' \in [Mbufs -> Frames \cup {NoFrame}] /\ lost' \subseteq Mbufs
    BY <1>0, <1>3, <2>1 DEF Unruled, TypeOK
  <2> QED
    BY <1>0, <1>3, <2>2, <2>3, <2>4 DEF Unruled, TypeOK
<1>4. CASE Ruled(p)
  <2>1. stats' \in [Ports -> [Counted -> Nat]]
    BY <1>0, <1>4, CountType DEF Ruled
  <2>2. pc' \in [Ports -> Locations]
    BY <1>0, <1>4, GotoType DEF Ruled, Locations
  <2>3. rules[<<p, frame[Head(rx[p])].class>>] \in Seq(ActionSet)
    BY <1>0, <1>4, TableFacts DEF Ruled
  <2> QED
    BY <1>0, <1>4, <2>1, <2>2, <2>3 DEF Ruled, TypeOK
<1> QED
  BY <1>1, <1>2, <1>3, <1>4 DEF Process

LEMMA BufferType ==
  ASSUME TypeOK, NEW p \in Ports, NEW q \in Ports, NEW m \in Cell,
         Buffer(p, q, m)
  PROVE  /\ tx' \in [Ports -> Row]
         /\ pc' \in [Ports -> Locations]
         /\ queue' \in [Ports -> 0 .. NbPorts]
<1>1. Append(tx[p][q], m) \in Seq(Mbufs \cup {NoMbuf})
  BY DEF TypeOK, Row, Cell
<1>2. tx' \in [Ports -> Row]
  BY <1>1 DEF Buffer, TypeOK, Row
<1>3. q \in 0 .. NbPorts
  BY RulesAssumption DEF Ports
<1> QED
  BY <1>2, <1>3 DEF Buffer, TypeOK, Goto, Locations

LEMMA ExecuteKeepsType ==
  ASSUME IInv, NEW p \in Ports, Execute(p)
  PROVE  TypeOK'
<1>0. TypeOK /\ OneOwner /\ Live /\ Control
  BY DEF IInv
<1>1. ASSUME NEW type, Doing(p, type)
      PROVE  /\ todo' \in [Ports -> Seq(ActionSet)]
             /\ Head(todo[p]) \in ActionSet
             /\ Head(todo[p]).type = type
             /\ Head(rx[p]) \in Mbufs
             /\ frame[Head(rx[p])] \in Frames
  <2>1. Head(rx[p]) \in Mbufs /\ frame[Head(rx[p])] \in Frames
    BY <1>0, <1>1, HeadIsLive DEF Doing, At, Control
  <2> QED
    BY <1>0, <1>1, <2>1 DEF Doing, TypeOK
<1>2. CASE Drop(p)
  BY <1>0, <1>1, <1>2 DEF Drop, TypeOK
<1>3. CASE Push(p)
  <2>1. Pushed(frame[Head(rx[p])], Head(todo[p]).tag) \in Frames
    BY <1>1, <1>3, ActionFacts, PushedType DEF Push
  <2> QED
    BY <1>0, <1>1, <1>3, <2>1 DEF Push, TypeOK
<1>4. CASE OutputCopy(p)
  <2>1. Head(todo[p]).port \in Ports
    BY <1>1, <1>4, ActionFacts DEF OutputCopy
  <2>2. PICK m \in pool :
          /\ pool' = pool \ {m}
          /\ frame' = [frame EXCEPT ![m] = frame[Head(rx[p])]]
          /\ Buffer(p, Head(todo[p]).port, m)
    BY <1>4 DEF OutputCopy
  <2>3. m \in Cell
    BY <1>0 DEF TypeOK, Cell
  <2>4. /\ tx' \in [Ports -> Row]
        /\ pc' \in [Ports -> Locations]
        /\ queue' \in [Ports -> 0 .. NbPorts]
    BY <1>0, <2>1, <2>2, <2>3, BufferType
  <2> QED
    BY <1>0, <1>1, <1>4, <2>2, <2>4 DEF OutputCopy, TypeOK
<1>5. CASE OutputNull(p)
  <2>1. Head(todo[p]).port \in Ports
    BY <1>1, <1>5, ActionFacts DEF OutputNull
  <2>2. /\ tx' \in [Ports -> Row]
        /\ pc' \in [Ports -> Locations]
        /\ queue' \in [Ports -> 0 .. NbPorts]
    BY <1>0, <1>5, <2>1, BufferType DEF OutputNull, Cell
  <2> QED
    BY <1>0, <1>1, <1>5, <2>2 DEF OutputNull, TypeOK
<1>6. CASE Finish(p)
  <2>1. rx[p] # << >>
    BY <1>0, <1>6 DEF Finish, At, Control
  <2>2. pool' \subseteq Mbufs /\ frame' \in [Mbufs -> Frames \cup {NoFrame}]
    BY <1>0, <1>6, <2>1, HeadIsLive, FreeType DEF Finish
  <2>3. pc' \in [Ports -> Locations]
    BY <1>0, <1>6, GotoType DEF Finish, Locations
  <2>4. rx' \in [Ports -> Seq(Mbufs)]
    BY <1>0, <1>6, <2>1 DEF Finish, TypeOK
  <2> QED
    BY <1>0, <1>6, <2>2, <2>3, <2>4 DEF Finish, TypeOK
<1> QED
  BY <1>2, <1>3, <1>4, <1>5, <1>6 DEF Execute

LEMMA ResumeType ==
  ASSUME TypeOK, NEW p \in Ports, queue[p] \in Ports, Resume(p)
  PROVE  /\ pc' \in [Ports -> Locations]
         /\ queue' \in [Ports -> 0 .. NbPorts]
<1>1. queue[p] + 1 \in 0 .. NbPorts /\ 0 \in 0 .. NbPorts
  BY RulesAssumption DEF Ports
<1> QED
  BY <1>1 DEF Resume, Goto, Locations, TypeOK

LEMMA SendKeepsType ==
  ASSUME IInv, NEW p \in Ports, Send(p)
  PROVE  TypeOK'
<1>0. TypeOK /\ Control
  BY DEF IInv
<1>1. CASE CallTxBurst(p)
  BY <1>0, <1>1 DEF CallTxBurst, TypeOK, Goto, Locations
<1>2. CASE RaceTxBurst(p)
  BY <1>0, <1>2 DEF RaceTxBurst, TypeOK
<1>3. CASE NullTxBurst(p)
  BY <1>0, <1>3 DEF NullTxBurst, TypeOK
<1>4. CASE ReturnTxBurst(p)
  <2>1. queue[p] \in Ports
    BY <1>0, <1>4 DEF ReturnTxBurst, At, Control
  <2>2. Taken(p) \in 1 .. Len(Batch(p))
    BY <1>0, <1>4, <2>1, TakenFacts DEF ReturnTxBurst
  <2>3. Batch(p) \in Seq(Cell)
    BY <1>0, <2>1 DEF TypeOK, Row, Batch, Cell
  <2>4. SubSeq(Batch(p), 1, Taken(p)) \in Seq(Mbufs)
    <3>1. \A i \in 1 .. Taken(p) : Batch(p)[i] \in Mbufs
      BY <1>4, <2>2, <2>3 DEF ReturnTxBurst, NullTaken, Cell
    <3> QED
      BY <2>2, <2>3, <3>1
  <2>5. SubSeq(Batch(p), Taken(p) + 1, Len(Batch(p))) \in Seq(Cell)
    BY <2>2, <2>3
  <2>6. ring' \in [Ports -> Seq(Mbufs)]
    BY <1>0, <1>4, <2>1, <2>4 DEF ReturnTxBurst, TypeOK
  <2>7. tx' \in [Ports -> Row]
    BY <1>0, <1>4, <2>1, <2>5 DEF ReturnTxBurst, TypeOK, Row, Batch, Cell
  <2>8. pc' \in [Ports -> Locations] /\ queue' \in [Ports -> 0 .. NbPorts]
    BY <1>0, <1>4, <2>1, ResumeType
       DEF ReturnTxBurst, TypeOK, Goto, Locations
  <2> QED
    BY <1>0, <1>4, <2>6, <2>7, <2>8 DEF ReturnTxBurst, TypeOK
<1>5. CASE FullTxBurst(p)
  <2>1. queue[p] \in Ports
    BY <1>0, <1>5 DEF FullTxBurst, At, Control
  <2>2. Batch(p) \in Seq(Cell)
    BY <1>0, <2>1 DEF TypeOK, Row, Batch, Cell
  <2>3. {Batch(p)[i] : i \in 1 .. Len(Batch(p))} \ {NoMbuf} \in SUBSET Mbufs
    BY <2>2 DEF Cell
  <2>4. pool' \subseteq Mbufs /\ frame' \in [Mbufs -> Frames \cup {NoFrame}]
    BY <1>0, <1>5, <2>3, FreeType DEF FullTxBurst
  <2>5. tx' \in [Ports -> Row]
    <3>1. << >> \in Seq(Mbufs \cup {NoMbuf}) /\ tx[p] \in Row
      BY <1>0 DEF TypeOK
    <3>2. [tx[p] EXCEPT ![queue[p]] = << >>] \in Row
      BY <2>1, <3>1 DEF Row
    <3> QED
      BY <1>0, <1>5, <3>2 DEF FullTxBurst, TypeOK
  <2>6. pc' \in [Ports -> Locations] /\ queue' \in [Ports -> 0 .. NbPorts]
    BY <1>0, <1>5, <2>1, ResumeType DEF FullTxBurst
  <2> QED
    BY <1>0, <1>5, <2>4, <2>5, <2>6 DEF FullTxBurst, TypeOK
<1> QED
  BY <1>1, <1>2, <1>3, <1>4, <1>5 DEF Send

LEMMA TransmitKeepsType ==
  ASSUME IInv, NEW q \in Ports, Transmit(q)
  PROVE  TypeOK'
<1>0. TypeOK /\ OneOwner /\ Live
  BY DEF IInv
<1>1. Head(ring[q]) \in Mbufs /\ frame[Head(ring[q])] \in Frames
  BY <1>0, RingHeadIsLive DEF Transmit
<1>2. pool' \subseteq Mbufs /\ frame' \in [Mbufs -> Frames \cup {NoFrame}]
  BY <1>0, <1>1, FreeType DEF Transmit
<1> QED
  BY <1>0, <1>1, <1>2 DEF Transmit, TypeOK

-----------------------------------------------------------------------------
(* OneOwner is kept: each action that touches a buffer is one of the moves *)
(* of mbufs above.                                                         *)

LEMMA QuietKeepsOwner ==
  ASSUME OneOwner, UNCHANGED <<rx, tx, ring, pool, lost>>
  PROVE  OneOwner'
BY DEF OneOwner, Partition, Contents

LEMMA LoopKeepsOwner ==
  ASSUME IInv, NEW p \in Ports, Loop(p)
  PROVE  OneOwner'
BY QuietKeepsOwner
   DEF IInv, Loop, Leave, BeginDrain, SkipDrain, DrainPort, EndDrain

\* The shape every other step has: Contents becomes c2.
LEMMA OwnerFromPartition ==
  ASSUME NEW c2, Contents' = c2, Partition(c2, pool', lost')
  PROVE  OneOwner'
BY DEF OneOwner, Partition

LEMMA ReceiveKeepsOwner ==
  ASSUME IInv, NEW p \in Ports, Receive(p)
  PROVE  OneOwner'
<1>0. TypeOK /\ OneOwner
  BY DEF IInv
<1>1. CASE RxOne(p)
  <2>1. PICK m \in pool : /\ pool' = pool \ {m}
                          /\ rx' = [rx EXCEPT ![p] = Append(@, m)]
    BY <1>1 DEF RxOne
  <2>2. Contents' = [Contents EXCEPT ![RxBuffer(p)] = Append(rx[p], m)]
    BY <1>0, <1>1, <2>1, RxChanges DEF RxOne, TypeOK
  <2>3. Contents[RxBuffer(p)] = rx[p] /\ RxBuffer(p) \in Buffers
    BY ContentsOf
  <2>4. Partition([Contents EXCEPT ![RxBuffer(p)] = Append(@, m)],
                  pool \ {m}, lost)
    BY <1>0, <2>3, ContentsType, AllocKeepsPartition DEF OneOwner, TypeOK
  <2> QED
    BY <1>1, <2>1, <2>2, <2>3, <2>4, OwnerFromPartition DEF RxOne
<1>2. CASE RxDone(p)
  BY <1>0, <1>2, QuietKeepsOwner DEF RxDone
<1> QED
  BY <1>1, <1>2 DEF Receive

\* The packet being processed leaves the RX queue.
LEMMA HeadLeaves ==
  ASSUME TypeOK, OneOwner, NEW p \in Ports, rx[p] # << >>,
         rx' = [rx EXCEPT ![p] = Tail(@)], UNCHANGED <<tx, ring>>,
         \/ pool' = pool \cup {Head(rx[p])} /\ lost' = lost
         \/ lost' = lost \cup {Head(rx[p])} /\ pool' = pool
  PROVE  OneOwner'
<1>1. /\ 1 \in DOMAIN rx[p] /\ rx[p][1] = Head(rx[p])
      /\ Head(rx[p]) \in Mbufs
  BY DEF TypeOK
<1>2. Contents[RxBuffer(p)] = rx[p] /\ RxBuffer(p) \in Buffers
  BY ContentsOf
<1>3. Head(rx[p]) \notin pool \cup lost
  <2>1. Partition(Contents, pool, lost) /\ DOMAIN Contents = Buffers
    BY DEF OneOwner, Contents
  <2> QED
    BY <1>1, <1>2, <2>1 DEF Partition
<1>4. Head(rx[p]) # NoMbuf
  BY <1>1, DataPlaneAssumption
<1>5. pool' \cup lost' = pool \cup lost \cup {Head(rx[p])}
  OBVIOUS
<1>6. pool' \cap lost' = {}
  BY <1>3 DEF OneOwner, Partition
<1>7. Contents' = [Contents EXCEPT ![RxBuffer(p)] = Tail(rx[p])]
  BY RxChanges DEF TypeOK
<1>8. Contents \in [Buffers -> Seq(Cell)]
  BY ContentsType
<1>9. Partition([Contents EXCEPT ![RxBuffer(p)] = Tail(@)], pool', lost')
  <2>1. /\ Partition(Contents, pool, lost)
        /\ pool \in SUBSET Mbufs /\ lost \in SUBSET Mbufs
    BY DEF OneOwner, TypeOK
  <2>2. Contents[RxBuffer(p)] # << >> /\ Head(Contents[RxBuffer(p)]) # NoMbuf
    BY <1>2, <1>4
  <2>3. pool' \cup lost' = pool \cup lost \cup {Head(Contents[RxBuffer(p)])}
    BY <1>2, <1>5
  <2> QED
    BY <1>2, <1>6, <1>8, <2>1, <2>2, <2>3, TailKeepsPartition
<1> QED
  BY <1>2, <1>7, <1>9, OwnerFromPartition

LEMMA ProcessKeepsOwner ==
  ASSUME IInv, NEW p \in Ports, Process(p)
  PROVE  OneOwner'
<1>0. TypeOK /\ OneOwner
  BY DEF IInv
<1>1. CASE ProcessDone(p)
  BY <1>0, <1>1, QuietKeepsOwner DEF ProcessDone
<1>2. CASE Unsupported(p)
  BY <1>0, <1>2, HeadLeaves DEF Unsupported, Free
<1>3. CASE Unruled(p)
  BY <1>0, <1>3, HeadLeaves DEF Unruled
<1>4. CASE Ruled(p)
  BY <1>0, <1>4, QuietKeepsOwner DEF Ruled
<1> QED
  BY <1>1, <1>2, <1>3, <1>4 DEF Process

LEMMA ExecuteKeepsOwner ==
  ASSUME IInv, NEW p \in Ports, Execute(p)
  PROVE  OneOwner'
<1>0. TypeOK /\ OneOwner /\ Control
  BY DEF IInv
<1>1. ASSUME Doing(p, "OUTPUT") PROVE Head(todo[p]).port \in Ports
  <2>1. Head(todo[p]) \in ActionSet /\ Head(todo[p]).type = "OUTPUT"
    BY <1>0, <1>1 DEF Doing, TypeOK
  <2> QED
    BY <2>1, ActionFacts
<1>2. CASE Drop(p)
  BY <1>0, <1>2, QuietKeepsOwner DEF Drop
<1>3. CASE Push(p)
  BY <1>0, <1>3, QuietKeepsOwner DEF Push
<1> DEFINE q == Head(todo[p]).port
<1>4. CASE OutputCopy(p)
  <2>0. q \in Ports
    BY <1>1, <1>4 DEF OutputCopy
  <2>1. PICK m \in pool : pool' = pool \ {m} /\ Buffer(p, q, m)
    BY <1>4 DEF OutputCopy
  <2> HIDE DEF q
  <2>2. tx' = [tx EXCEPT ![p][q] = Append(tx[p][q], m)]
    BY <1>0, <2>0, <2>1 DEF Buffer, TypeOK, Row
  <2>3. Contents' = [Contents EXCEPT ![TxBuffer(p, q)] = Append(tx[p][q], m)]
    BY <1>0, <1>4, <2>0, <2>2, TxChanges, ZenonT(40) DEF OutputCopy
  <2>4. Contents[TxBuffer(p, q)] = tx[p][q] /\ TxBuffer(p, q) \in Buffers
    BY <2>0, ContentsOf
  <2>5. Partition([Contents EXCEPT ![TxBuffer(p, q)] = Append(@, m)],
                  pool \ {m}, lost)
    BY <1>0, <2>4, ContentsType, AllocKeepsPartition DEF OneOwner, TypeOK
  <2> QED
    BY <1>4, <2>1, <2>3, <2>4, <2>5, OwnerFromPartition DEF OutputCopy
<1>5. CASE OutputNull(p)
  <2>0. q \in Ports
    BY <1>1, <1>5 DEF OutputNull
  <2>1. Buffer(p, q, NoMbuf)
    BY <1>5 DEF OutputNull
  <2> HIDE DEF q
  <2>2. tx' = [tx EXCEPT ![p][q] = Append(tx[p][q], NoMbuf)]
    BY <1>0, <2>0, <2>1 DEF Buffer, TypeOK, Row
  <2>3. Contents' =
          [Contents EXCEPT ![TxBuffer(p, q)] = Append(tx[p][q], NoMbuf)]
    BY <1>0, <1>5, <2>0, <2>2, TxChanges DEF OutputNull
  <2>4. Contents[TxBuffer(p, q)] = tx[p][q] /\ TxBuffer(p, q) \in Buffers
    BY <2>0, ContentsOf
  <2>5. Partition([Contents EXCEPT ![TxBuffer(p, q)] = Append(@, NoMbuf)],
                  pool, lost)
    BY <1>0, <2>4, ContentsType, NullKeepsPartition DEF OneOwner, TypeOK
  <2> QED
    BY <1>5, <2>3, <2>4, <2>5, OwnerFromPartition DEF OutputNull
<1>6. CASE Finish(p)
  BY <1>0, <1>6, HeadLeaves DEF Finish, Free, At, Control
<1> QED
  BY <1>2, <1>3, <1>4, <1>5, <1>6 DEF Execute

LEMMA SendKeepsOwner ==
  ASSUME IInv, NEW p \in Ports, Send(p)
  PROVE  OneOwner'
<1>0. TypeOK /\ OneOwner /\ Control
  BY DEF IInv
<1>1. CASE CallTxBurst(p) \/ RaceTxBurst(p) \/ NullTxBurst(p)
  BY <1>0, <1>1, QuietKeepsOwner DEF CallTxBurst, RaceTxBurst, NullTxBurst
<1> DEFINE q == queue[p]
           t == TxBuffer(p, q)
           r == RingBuffer(q)
<1>2. CASE ReturnTxBurst(p)
  <2>1. q \in Ports
    BY <1>0, <1>2 DEF ReturnTxBurst, At, Control
  <2>2. Taken(p) \in 0 .. Len(Batch(p)) /\ Batch(p) = tx[p][q]
    BY <1>0, <1>2, <2>1, TakenFacts DEF ReturnTxBurst, Batch
  <2>3. /\ t \in Buffers /\ r \in Buffers /\ t # r
        /\ Contents[t] = tx[p][q] /\ Contents[r] = ring[q]
    BY <2>1, ContentsOf DEF TxBuffer, RingBuffer
  <2>4. /\ tx' = [tx EXCEPT ![p][q] =
                    SubSeq(tx[p][q], Taken(p) + 1, Len(tx[p][q]))]
        /\ ring' = [ring EXCEPT ![q] =
                      ring[q] \o SubSeq(tx[p][q], 1, Taken(p))]
    BY <1>0, <1>2, <2>1, <2>2 DEF ReturnTxBurst, TypeOK, Row
  <2>5. UNCHANGED <<rx, pool, lost>>
    BY <1>2 DEF ReturnTxBurst
  <2> HIDE DEF q
  <2>6. Contents' = [Contents EXCEPT
          ![r] = ring[q] \o SubSeq(tx[p][q], 1, Taken(p)),
          ![t] = SubSeq(tx[p][q], Taken(p) + 1, Len(tx[p][q]))]
    BY <1>0, <2>1, <2>4, <2>5, TxAndRingChange
  <2>7. Contents' = [Contents EXCEPT
          ![r] = @ \o SubSeq(Contents[t], 1, Taken(p)),
          ![t] = SubSeq(@, Taken(p) + 1, Len(@))]
    <3> HIDE DEF t, r
    <3> QED BY <2>3, <2>6
  <2>8. Contents \in [Buffers -> Seq(Cell)]
    BY <1>0, ContentsType
  <2>9. Partition([Contents EXCEPT
          ![r] = @ \o SubSeq(Contents[t], 1, Taken(p)),
          ![t] = SubSeq(@, Taken(p) + 1, Len(@))], pool, lost)
    <3> HIDE DEF t, r
    <3> QED BY <1>0, <2>2, <2>3, <2>8, MoveKeepsPartition
            DEF OneOwner, TypeOK
  <2> QED
    BY <2>5, <2>7, <2>9, OwnerFromPartition
<1>3. CASE FullTxBurst(p)
  <2>1. q \in Ports
    BY <1>0, <1>3 DEF FullTxBurst, At, Control
  <2>2. t \in Buffers /\ Contents[t] = tx[p][q] /\ Batch(p) = tx[p][q]
    BY <2>1, ContentsOf DEF Batch
  <2>3. /\ tx' = [tx EXCEPT ![p][q] = << >>]
        /\ UNCHANGED <<rx, ring, lost>>
        /\ pool' = pool \cup
                     ({Contents[t][i] : i \in 1 .. Len(Contents[t])} \ {NoMbuf})
    BY <1>3, <2>2 DEF FullTxBurst, Free
  <2> HIDE DEF q
  <2>4. Contents' = [Contents EXCEPT ![t] = << >>]
    BY <1>0, <2>1, <2>3, TxChanges
  <2>5. Contents \in [Buffers -> Seq(Cell)]
    BY <1>0, ContentsType
  <2>6. Partition([Contents EXCEPT ![t] = << >>], pool', lost)
    <3> HIDE DEF t
    <3> QED BY <1>0, <2>2, <2>3, <2>5, FlushKeepsPartition
            DEF OneOwner, TypeOK
  <2> QED
    BY <2>3, <2>4, <2>6, OwnerFromPartition
<1> QED
  BY <1>1, <1>2, <1>3 DEF Send

LEMMA TransmitKeepsOwner ==
  ASSUME IInv, NEW q \in Ports, Transmit(q)
  PROVE  OneOwner'
<1>0. TypeOK /\ OneOwner
  BY DEF IInv
<1>1. /\ 1 \in DOMAIN ring[q] /\ ring[q][1] = Head(ring[q])
      /\ Head(ring[q]) \in Mbufs
  BY <1>0 DEF Transmit, TypeOK
<1>2. Contents[RingBuffer(q)] = ring[q] /\ RingBuffer(q) \in Buffers
  BY ContentsOf
<1>3. Head(ring[q]) \notin pool \cup lost
  BY <1>0, <1>1, <1>2 DEF OneOwner, Partition, Contents
<1>4. Head(ring[q]) # NoMbuf
  BY <1>1, DataPlaneAssumption
<1>5. /\ pool' = pool \cup {Head(ring[q])} /\ lost' = lost
      /\ ring' = [ring EXCEPT ![q] = Tail(ring[q])] /\ UNCHANGED <<rx, tx>>
  BY DEF Transmit, Free
<1>6. pool' \cap lost' = {}
  BY <1>0, <1>3, <1>5 DEF OneOwner, Partition
<1>7. Contents' = [Contents EXCEPT ![RingBuffer(q)] = Tail(ring[q])]
  BY <1>0, <1>5, RingChanges
<1>8. Contents \in [Buffers -> Seq(Cell)]
  BY <1>0, ContentsType
<1>9. pool' \cup lost' = pool \cup lost \cup {Head(ring[q])}
  BY <1>5
<1>10. ring[q] # << >>
  BY DEF Transmit
<1>11. Partition([Contents EXCEPT ![RingBuffer(q)] = Tail(@)], pool', lost')
  <2>1. /\ Partition(Contents, pool, lost)
        /\ pool \in SUBSET Mbufs /\ lost \in SUBSET Mbufs
    BY <1>0 DEF OneOwner, TypeOK
  <2>2. /\ Contents[RingBuffer(q)] # << >>
        /\ Head(Contents[RingBuffer(q)]) # NoMbuf
    BY <1>2, <1>4, <1>10
  <2>3. pool' \cup lost' = pool \cup lost \cup {Head(Contents[RingBuffer(q)])}
    BY <1>2, <1>9
  <2> QED
    BY <1>2, <1>6, <1>8, <2>1, <2>2, <2>3, TailKeepsPartition
<1> QED
  BY <1>2, <1>7, <1>11, OwnerFromPartition

-----------------------------------------------------------------------------
(* Live is kept: what is freed or lost is no longer in use, what is taken  *)
(* from the mempool is written at once.                                    *)

LEMMA LiveIfUntouched ==
  ASSUME Live, UNCHANGED <<pool, lost, frame>>
  PROVE  Live'
BY DEF Live

LEMMA LiveAfterFree ==
  ASSUME Live, NEW ms, Free(ms), UNCHANGED lost
  PROVE  Live'
BY DEF Live, Free

LEMMA WorkerKeepsLive ==
  ASSUME IInv, NEW p \in Ports, Worker(p)
  PROVE  Live'
<1>0. TypeOK /\ OneOwner /\ Live /\ Control
  BY DEF IInv
<1>1. CASE Loop(p)
  BY <1>0, <1>1, LiveIfUntouched
     DEF Loop, Leave, BeginDrain, SkipDrain, DrainPort, EndDrain
<1>2. CASE RxOne(p)
  <2>1. PICK m \in pool, class \in Traffic :
          /\ pool' = pool \ {m}
          /\ frame' = [frame EXCEPT ![m] =
                         [src |-> p, no |-> Len(arrived[p]) + 1,
                          class |-> class, tags |-> << >>]]
    BY <1>2 DEF RxOne
  <2>2. frame'[m] \in Frames
    BY <1>0, <2>1, DataPlaneAssumption DEF TypeOK, Frames
  <2>3. \A n \in Mbufs : n # m => frame'[n] = frame[n]
    BY <1>0, <2>1 DEF TypeOK
  <2> QED
    BY <1>0, <1>2, <2>1, <2>2, <2>3 DEF Live, RxOne
<1>3. CASE RxDone(p)
  BY <1>0, <1>3, LiveIfUntouched DEF RxDone
<1>4. CASE ProcessDone(p)
  BY <1>0, <1>4, LiveIfUntouched DEF ProcessDone
<1>5. CASE Unsupported(p)
  BY <1>0, <1>5, LiveAfterFree DEF Unsupported
<1>6. CASE Unruled(p)
  <2>1. /\ frame' = [frame EXCEPT ![Head(rx[p])] = NoFrame]
        /\ lost' = lost \cup {Head(rx[p])} /\ pool' = pool
    BY <1>6 DEF Unruled
  <2>2. \A n \in Mbufs : n # Head(rx[p]) => frame'[n] = frame[n]
    BY <1>0, <2>1 DEF TypeOK
  <2> QED
    BY <1>0, <2>1, <2>2 DEF Live
<1>7. CASE Ruled(p)
  BY <1>0, <1>7, LiveIfUntouched DEF Ruled
<1>8. CASE Drop(p)
  BY <1>0, <1>8, LiveIfUntouched DEF Drop
<1>9. CASE Push(p)
  <2>1. Head(rx[p]) \in Mbufs /\ frame[Head(rx[p])] \in Frames
    BY <1>0, <1>9, HeadIsLive DEF Push, Doing, At, Control
  <2>2. Head(todo[p]).tag \in Tags
    BY <1>0, <1>9, ActionFacts DEF Push, Doing, TypeOK
  <2>3. frame' = [frame EXCEPT ![Head(rx[p])] =
                    Pushed(frame[Head(rx[p])], Head(todo[p]).tag)]
    BY <1>0, <1>9, <2>1 DEF Push, TypeOK
  <2>4. \A n \in Mbufs : frame'[n] \in Frames \/ frame'[n] = frame[n]
    BY <1>0, <2>1, <2>2, <2>3, PushedType DEF TypeOK
  <2> QED
    BY <1>0, <1>9, <2>4 DEF Live, Push
<1>10. CASE OutputCopy(p)
  <2>1. frame[Head(rx[p])] \in Frames
    BY <1>0, <1>10, HeadIsLive DEF OutputCopy, Doing, At, Control
  <2>2. PICK m \in pool : /\ pool' = pool \ {m}
                          /\ frame' = [frame EXCEPT ![m] = frame[Head(rx[p])]]
    BY <1>10 DEF OutputCopy
  <2>3. \A n \in Mbufs : IF n = m THEN frame'[n] \in Frames
                                  ELSE frame'[n] = frame[n]
    BY <1>0, <2>1, <2>2 DEF TypeOK
  <2> QED
    BY <1>0, <1>10, <2>2, <2>3 DEF Live, OutputCopy
<1>11. CASE OutputNull(p)
  BY <1>0, <1>11, LiveIfUntouched DEF OutputNull
<1>12. CASE Finish(p)
  BY <1>0, <1>12, LiveAfterFree DEF Finish
<1>13. CASE FullTxBurst(p)
  BY <1>0, <1>13, LiveAfterFree DEF FullTxBurst
<1>14. CASE Send(p) /\ ~FullTxBurst(p)
  BY <1>0, <1>14, LiveIfUntouched
     DEF Send, CallTxBurst, RaceTxBurst, NullTxBurst, ReturnTxBurst
<1> QED
  BY <1>1, <1>2, <1>3, <1>4, <1>5, <1>6, <1>7, <1>8, <1>9, <1>10, <1>11,
     <1>12, <1>13, <1>14 DEF Worker, Receive, Process, Execute

LEMMA TransmitKeepsLive ==
  ASSUME IInv, NEW q \in Ports, Transmit(q)
  PROVE  Live'
BY LiveAfterFree DEF IInv, Transmit

-----------------------------------------------------------------------------
(* Control is kept: the locations at which a buffer or the packet being    *)
(* processed must be there are entered only when it is, and only the       *)
(* worker itself takes it away.                                            *)

\* The part of Control about one worker.
ControlOf(p) ==
  /\ pc[p] \in {"send", "burst"} => queue[p] \in Ports /\ tx[p][queue[p]] # << >>
  /\ pc[p] = "actions" => rx[p] # << >>

LEMMA ControlOfOthers ==
  ASSUME TypeOK, Control, NEW p \in Ports, ControlOf(p)',
         \A o \in Ports \ {p} :
           /\ pc'[o] = pc[o] /\ queue'[o] = queue[o]
           /\ tx'[o] = tx[o] /\ rx'[o] = rx[o]
  PROVE  Control'
<1>1. ASSUME NEW o \in Ports PROVE ControlOf(o)'
  BY DEF Control, ControlOf
<1> QED
  BY <1>1 DEF Control, ControlOf

\* A step of worker p leaves alone what belongs to the other workers.
LEMMA OthersUntouched ==
  ASSUME TypeOK, NEW p \in Ports, Worker(p), NEW o \in Ports, o # p
  PROVE  /\ pc'[o] = pc[o] /\ queue'[o] = queue[o]
         /\ tx'[o] = tx[o] /\ rx'[o] = rx[o] /\ todo'[o] = todo[o]
<1> USE DEF TypeOK, Goto
<1>1. CASE Loop(p)
  BY <1>1 DEF Loop, Leave, BeginDrain, SkipDrain, DrainPort, EndDrain
<1>2. CASE Receive(p)
  BY <1>2, SMTT(40) DEF Receive, RxOne, RxDone
<1>3. CASE Process(p)
  BY <1>3, SMTT(40) DEF Process, ProcessDone, Unsupported, Unruled, Ruled
<1>4. CASE Execute(p)
  BY <1>4, ZenonT(40) DEF Execute, Doing, Drop, Push, OutputCopy, OutputNull, Finish, Buffer
<1>5. CASE Send(p)
  BY <1>5 DEF Send, CallTxBurst, RaceTxBurst, NullTxBurst, ReturnTxBurst,
              FullTxBurst, Resume
<1> QED
  BY <1>1, <1>2, <1>3, <1>4, <1>5 DEF Worker

LEMMA BufferTyped ==
  ASSUME TypeOK, NEW p \in Ports, NEW q \in Ports
  PROVE  tx[p][q] \in Seq(Cell)
<1>1. tx \in [Ports -> Row]
  BY DEF TypeOK
<1> QED
  BY <1>1 DEF Row, Cell

LEMMA WorkerKeepsControl ==
  ASSUME IInv, NEW p \in Ports, Worker(p)
  PROVE  Control'
<1>0. TypeOK /\ Control
  BY DEF IInv
<1>1. ControlOf(p)'
  <2> USE <1>0 DEF TypeOK, Goto, ControlOf
  <2>1. CASE Leave(p) \/ BeginDrain(p) \/ SkipDrain(p) \/ EndDrain(p)
    BY <2>1 DEF Leave, BeginDrain, SkipDrain, EndDrain
  <2>2. CASE DrainPort(p)
    <3>1. queue[p] \in Ports
      BY <2>2, RulesAssumption DEF DrainPort, Ports
    <3>2. CASE tx[p][queue[p]] = << >>
      BY <2>2, <3>2 DEF DrainPort, At
    <3>3. CASE tx[p][queue[p]] # << >>
      BY <2>2, <3>1, <3>3 DEF DrainPort
    <3> QED
      BY <3>2, <3>3
  <2>3. CASE Receive(p)
    BY <2>3 DEF Receive, RxOne, RxDone, At
  <2>4. CASE Process(p)
    BY <2>4 DEF Process, ProcessDone, Unsupported, Unruled, Ruled, At
  <2>5. CASE Drop(p) \/ Push(p)
    BY <2>5 DEF Drop, Push, Doing, At, Control
  <2>6. CASE Finish(p)
    BY <2>6 DEF Finish
  <2>7. ASSUME NEW m \in Cell, Doing(p, "OUTPUT"), Buffer(p, Head(todo[p]).port, m),
               UNCHANGED rx
        PROVE  ControlOf(p)'
    <3>1. Head(todo[p]).port \in Ports
      <4>1. Head(todo[p]) \in ActionSet /\ Head(todo[p]).type = "OUTPUT"
        BY <2>7 DEF Doing
      <4> QED
        BY <4>1, ActionFacts
    <3>2. pc[p] = "actions" /\ rx[p] # << >>
      BY <2>7 DEF Doing, At, Control
    <3>3. Append(tx[p][Head(todo[p]).port], m) # << >>
      <4>1. tx[p][Head(todo[p]).port] \in Seq(Cell)
        BY <3>1, BufferTyped
      <4> QED
        BY <2>7, <4>1, AppendNotEmpty
    <3>4. tx'[p][Head(todo[p]).port] # << >>
      BY <2>7, <3>1, <3>3 DEF Buffer, Row
    <3> QED
      BY <2>7, <3>1, <3>2, <3>4 DEF Buffer
  <2>8. CASE OutputCopy(p) \/ OutputNull(p)
    BY <2>7, <2>8 DEF OutputCopy, OutputNull, Cell
  <2>9. CASE CallTxBurst(p) \/ RaceTxBurst(p) \/ NullTxBurst(p)
    BY <2>9 DEF CallTxBurst, RaceTxBurst, NullTxBurst, At, Control
  <2>10. ASSUME Resume(p), UNCHANGED rx
         PROVE  ControlOf(p)'
    BY <2>10 DEF Resume
  <2>11. CASE FullTxBurst(p)
    BY <2>10, <2>11 DEF FullTxBurst
  <2>12. CASE ReturnTxBurst(p) /\ Taken(p) # Len(Batch(p))
    <3>1. queue[p] \in Ports
      BY <2>12 DEF ReturnTxBurst, At, Control
    <3>2. /\ Taken(p) \in 1 .. Len(Batch(p)) /\ Taken(p) # Len(Batch(p))
          /\ Batch(p) \in Seq(Cell)
      <4>1. Taken(p) > 0
        BY <2>12 DEF ReturnTxBurst
      <4>2. Taken(p) \in 1 .. Len(Batch(p))
        BY <1>0, <3>1, <4>1, TakenFacts
      <4>3. Batch(p) \in Seq(Cell)
        BY <3>1, SMTT(40) DEF Batch, Row, Cell
      <4> QED
        BY <2>12, <4>2, <4>3
    <3>3. SubSeq(Batch(p), Taken(p) + 1, Len(Batch(p))) # << >>
      BY <3>2, SuffixNotEmpty
    <3>4. tx'[p][queue[p]] = SubSeq(Batch(p), Taken(p) + 1, Len(Batch(p)))
      BY <2>12, <3>1 DEF ReturnTxBurst, Batch, Row
    <3>5. queue'[p] = queue[p] /\ pc'[p] = "send"
      BY <2>12 DEF ReturnTxBurst
    <3> QED
      BY <3>1, <3>3, <3>4, <3>5
  <2>13. CASE ReturnTxBurst(p) /\ Taken(p) = Len(Batch(p))
    BY <2>10, <2>13 DEF ReturnTxBurst
  <2> QED
    BY <2>1, <2>2, <2>3, <2>4, <2>5, <2>6, <2>8, <2>9, <2>11, <2>12, <2>13
       DEF Worker, Loop, Execute, Send
<1>2. \A o \in Ports \ {p} :
        /\ pc'[o] = pc[o] /\ queue'[o] = queue[o]
        /\ tx'[o] = tx[o] /\ rx'[o] = rx[o]
  BY <1>0, OthersUntouched
<1> QED
  BY <1>0, <1>1, <1>2, ControlOfOthers

-----------------------------------------------------------------------------
(* Aims is kept: todo only holds what is left of one of the port's own     *)
(* rules, and a buffer is filled from todo only.                           *)

LEMMA WorkerKeepsAims ==
  ASSUME IInv, NEW p \in Ports, Worker(p)
  PROVE  Aims'
<1>0. TypeOK /\ Aims /\ Control
  BY DEF IInv
<1>1. rules' = rules
  BY DEF Worker, Loop, Leave, BeginDrain, SkipDrain, DrainPort, EndDrain,
         Receive, RxOne, RxDone, Process, ProcessDone, Unsupported, Unruled,
         Ruled, Execute, Drop, Push, OutputCopy, OutputNull, Finish, Send,
         CallTxBurst, RaceTxBurst, NullTxBurst, ReturnTxBurst, FullTxBurst
<1>2. ASSUME NEW o \in Ports, o # p, NEW q \in Ports
      PROVE  /\ tx'[o][q] # << >> => Sends(rules, o, q)
             /\ \A i \in DOMAIN todo'[o] :
                  todo'[o][i] = OUTPUT(q) => Sends(rules, o, q)
  BY <1>0, <1>2, OthersUntouched DEF Aims
<1> DEFINE TxAim == \A q \in Ports : tx'[p][q] # << >> => Sends(rules, p, q)
           TodoAim == \A q \in Ports : \A i \in DOMAIN todo'[p] :
                        todo'[p][i] = OUTPUT(q) => Sends(rules, p, q)
<1>3. ASSUME UNCHANGED tx PROVE TxAim
  BY <1>0, <1>3 DEF Aims
<1>4. ASSUME UNCHANGED todo PROVE TodoAim
  BY <1>0, <1>4 DEF Aims
<1>5. CASE Loop(p) \/ Receive(p)
  <2>1. UNCHANGED <<tx, todo>>
    BY <1>5 DEF Loop, Leave, BeginDrain, SkipDrain, DrainPort, EndDrain,
                Receive, RxOne, RxDone
  <2> QED
    BY <2>1, <1>1, <1>2, <1>3, <1>4 DEF Aims
<1>6. CASE Process(p)
  <2>1. UNCHANGED tx
    BY <1>6 DEF Process, ProcessDone, Unsupported, Unruled, Ruled
  <2>2. CASE UNCHANGED todo
    BY <2>1, <2>2, <1>1, <1>2, <1>3, <1>4 DEF Aims
  <2>3. CASE Ruled(p)
    <3> DEFINE c == frame[Head(rx[p])].class
    <3>1. <<p, c>> \in DOMAIN rules /\ todo'[p] = rules[<<p, c>>]
      BY <1>0, <2>3 DEF Ruled, TypeOK
    <3>2. c \in Protocols
      BY <1>0, <3>1, DataPlaneAssumption DEF TypeOK, IsRuleTable, Keys
    <3>3. DOMAIN rules[<<p, c>>] = 1 .. Len(rules[<<p, c>>])
      BY <1>0, <3>1, TableFacts
    <3> HIDE DEF c
    <3>4. TodoAim
      BY <3>1, <3>2, <3>3 DEF Sends
    <3> QED
      BY <2>1, <3>4, <1>1, <1>2, <1>3 DEF Aims
  <2> QED
    BY <1>6, <2>2, <2>3 DEF Process, ProcessDone, Unsupported, Unruled
<1>7. CASE Execute(p)
  <2>1. ASSUME NEW type, Doing(p, type) PROVE TodoAim
    <3>1. \A i \in DOMAIN todo'[p] :
            i + 1 \in DOMAIN todo[p] /\ todo'[p][i] = todo[p][i + 1]
      BY <1>0, <2>1 DEF Doing, TypeOK
    <3> QED
      BY <1>0, <3>1 DEF Aims
  <2>2. CASE Drop(p) \/ Push(p)
    BY <2>1, <2>2, <1>1, <1>2, <1>3 DEF Drop, Push, Aims
  <2>3. ASSUME NEW m, Doing(p, "OUTPUT"), Buffer(p, Head(todo[p]).port, m)
        PROVE  TxAim
    <3> DEFINE d == Head(todo[p]).port
    <3>1. /\ 1 \in DOMAIN todo[p] /\ todo[p][1] = Head(todo[p])
          /\ Head(todo[p]) \in ActionSet /\ Head(todo[p]).type = "OUTPUT"
      BY <1>0, <2>3 DEF Doing, TypeOK
    <3>2. d \in Ports /\ todo[p][1] = OUTPUT(d)
      BY <3>1, ActionFacts
    <3>3. Sends(rules, p, d)
      BY <1>0, <3>1, <3>2 DEF Aims
    <3> HIDE DEF d
    <3>4. \A q \in Ports : q # d => tx'[p][q] = tx[p][q]
      BY <1>0, <2>3, <3>2 DEF Buffer, TypeOK, Row, d
    <3> QED
      BY <1>0, <3>3, <3>4 DEF Aims
  <2>4. CASE OutputCopy(p)
    BY <2>1, <2>3, <2>4, <1>1, <1>2 DEF OutputCopy, Aims
  <2>5. CASE OutputNull(p)
    BY <2>1, <2>3, <2>5, <1>1, <1>2 DEF OutputNull, Aims
  <2>6. CASE Finish(p)
    BY <2>6, <1>1, <1>2, <1>3, <1>4 DEF Finish, Aims
  <2> QED
    BY <1>7, <2>2, <2>4, <2>5, <2>6 DEF Execute
<1>8. CASE Send(p)
  <2>1. UNCHANGED todo
    BY <1>8 DEF Send, CallTxBurst, RaceTxBurst, NullTxBurst, ReturnTxBurst,
                FullTxBurst
  <2>2. CASE UNCHANGED tx
    BY <2>1, <2>2, <1>1, <1>2, <1>3, <1>4 DEF Aims
  <2>3. CASE ReturnTxBurst(p) \/ FullTxBurst(p)
    <3>1. queue[p] \in Ports /\ tx[p][queue[p]] # << >>
      BY <1>0, <2>3 DEF ReturnTxBurst, FullTxBurst, At, Control
    <3>2. \A q \in Ports : q # queue[p] => tx'[p][q] = tx[p][q]
      <4>1. tx \in [Ports -> Row]
        BY <1>0 DEF TypeOK
      <4>2. PICK rest : tx' = [tx EXCEPT ![p][queue[p]] = rest]
        BY <2>3, SMTT(40) DEF ReturnTxBurst, FullTxBurst
      <4> QED
        BY <4>1, <4>2, <3>1 DEF Row
    <3>3. TxAim
      BY <1>0, <3>1, <3>2, SMTT(40) DEF Aims
    <3> QED
      BY <2>1, <3>3, <1>1, <1>2, <1>4 DEF Aims
  <2> QED
    BY <1>8, <2>2, <2>3 DEF Send, CallTxBurst, RaceTxBurst, NullTxBurst
<1> QED
  BY <1>5, <1>6, <1>7, <1>8 DEF Worker

-----------------------------------------------------------------------------
(* TxExclusive is kept: two workers in a burst for the same queue both     *)
(* have a non-empty buffer for it, so both have a rule that sends to it.   *)

LEMMA WorkerKeepsExclusive ==
  ASSUME IInv, NEW p \in Ports, Worker(p)
  PROVE  TxExclusive'
<1>0. TypeOK /\ Aims /\ Control /\ TxExclusive
  BY DEF IInv
<1>1. rules' = rules
  BY DEF Worker, Loop, Leave, BeginDrain, SkipDrain, DrainPort, EndDrain,
         Receive, RxOne, RxDone, Process, ProcessDone, Unsupported, Unruled,
         Ruled, Execute, Drop, Push, OutputCopy, OutputNull, Finish, Send,
         CallTxBurst, RaceTxBurst, NullTxBurst, ReturnTxBurst, FullTxBurst
<1>2. CASE fault' # "race"
  BY <1>2 DEF TxExclusive
<1>3. CASE RaceTxBurst(p)
  <2>1. PICK p2 \in Ports : pc[p2] = "burst" /\ queue[p2] = queue[p]
    BY <1>3 DEF RaceTxBurst, InBurst
  <2>2. pc[p] = "send"
    BY <1>3 DEF RaceTxBurst, At
  <2>3. Sends(rules, p, queue[p]) /\ Sends(rules, p2, queue[p])
        /\ queue[p] \in Ports
    BY <1>0, <2>1, <2>2 DEF Control, Aims
  <2>4. p # p2
    BY <2>1, <2>2
  <2> QED
    BY <1>1, <2>3, <2>4 DEF TxExclusive, SingleSender
<1> QED
  BY <1>0, <1>2, <1>3
     DEF Worker, Loop, Leave, BeginDrain, SkipDrain, DrainPort, EndDrain,
         Receive, RxOne, RxDone, Process, ProcessDone, Unsupported, Unruled,
         Ruled, Execute, Drop, Push, Doing, OutputCopy, OutputNull, Finish,
         Send, CallTxBurst, NullTxBurst, ReturnTxBurst, FullTxBurst, At

-----------------------------------------------------------------------------
(* The inductive invariant and what follows from it. *)

LEMMA InitInvariant == Init => IInv
<1> SUFFICES ASSUME Init PROVE IInv
  OBVIOUS
<1> USE DEF Init
<1>1. TypeOK
  <2>1. /\ << >> \in Seq(Mbufs) /\ << >> \in Seq(ActionSet)
        /\ << >> \in Seq(Classes) /\ << >> \in Seq(Frames)
        /\ << >> \in Seq(Mbufs \cup {NoMbuf})
    OBVIOUS
  <2>2. rx \in [Ports -> Seq(Mbufs)] /\ todo \in [Ports -> Seq(ActionSet)]
    BY <2>1
  <2>3. [q \in Ports |-> << >>] \in Row
    BY <2>1 DEF Row
  <2>4. tx \in [Ports -> Row]
    BY <2>3
  <2>5. /\ ring \in [Ports -> Seq(Mbufs)] /\ arrived \in [Ports -> Seq(Classes)]
        /\ wire \in [Ports -> Seq(Frames)]
    BY <2>1
  <2>6. queue \in [Ports -> 0 .. NbPorts]
    BY RulesAssumption
  <2>7. stats \in [Ports -> [Counted -> Nat]]
    OBVIOUS
  <2>8. pc \in [Ports -> Locations] /\ frame \in [Mbufs -> Frames \cup {NoFrame}]
    BY DEF Locations
  <2> QED
    BY <2>2, <2>4, <2>5, <2>6, <2>7, <2>8 DEF TypeOK
<1>2. \A b \in Buffers : Contents[b] = << >>
  BY BuffersAre, ContentsOf
<1>3. OneOwner
  <2>1. DOMAIN Contents = Buffers
    BY DEF Contents
  <2>2. \A b \in DOMAIN Contents : DOMAIN Contents[b] = {}
    BY <1>2, <2>1
  <2>3. pool = Mbufs /\ lost = {}
    OBVIOUS
  <2> HIDE DEF Init
  <2> QED
    BY <2>2, <2>3 DEF OneOwner, Partition
<1>4. Live
  BY DEF Live
<1>5. Control /\ Aims
  BY DEF Control, Aims
<1>6. TxExclusive
  BY DEF TxExclusive
<1> QED
  BY <1>1, <1>3, <1>4, <1>5, <1>6 DEF IInv

LEMMA WorkerKeepsInvariant ==
  ASSUME IInv, NEW p \in Ports, Worker(p)
  PROVE  IInv'
<1>1. TypeOK'
  BY LoopKeepsType, ReceiveKeepsType, ProcessKeepsType, ExecuteKeepsType,
     SendKeepsType DEF Worker
<1>2. OneOwner'
  BY LoopKeepsOwner, ReceiveKeepsOwner, ProcessKeepsOwner, ExecuteKeepsOwner,
     SendKeepsOwner DEF Worker
<1> QED
  BY <1>1, <1>2, WorkerKeepsLive, WorkerKeepsControl, WorkerKeepsAims,
     WorkerKeepsExclusive DEF IInv

LEMMA TransmitKeepsInvariant ==
  ASSUME IInv, NEW q \in Ports, Transmit(q)
  PROVE  IInv'
<1>1. Control' /\ Aims' /\ TxExclusive'
  BY DEF IInv, Transmit, Control, Aims, TxExclusive
<1> QED
  BY <1>1, TransmitKeepsType, TransmitKeepsOwner, TransmitKeepsLive DEF IInv

LEMMA StutterKeepsInvariant == IInv /\ UNCHANGED vars => IInv'
BY DEF IInv, vars, TypeOK, OneOwner, Partition, Contents, Live, Control, Aims,
       TxExclusive

LEMMA SigintKeepsInvariant == IInv /\ Sigint => IInv'
BY DEF IInv, Sigint, TypeOK, OneOwner, Partition, Contents, Live, Control,
       Aims, TxExclusive

LEMMA NextInvariant == IInv /\ [Next]_vars => IInv'
BY WorkerKeepsInvariant, TransmitKeepsInvariant, StutterKeepsInvariant,
   SigintKeepsInvariant DEF Next, Stopped

THEOREM Invariant == Spec => []IInv
<1>1. Init => IInv
  BY InitInvariant
<1>2. IInv /\ [Next]_vars => IInv'
  BY NextInvariant
<1> QED
  BY <1>1, <1>2, PTL DEF Spec

\* The state always has the declared types: in particular the actions only
\* ever read the data of mbufs that hold a frame.
THEOREM TypeCorrect == Spec => []TypeOK
<1>1. IInv => TypeOK
  BY DEF IInv
<1> QED
  BY <1>1, Invariant, PTL

\* Every mbuf has exactly one owner, however the workers, the NIC and the
\* signal interleave: no double free, no use after free, no leak but the one
\* of packets without a rule.
THEOREM Ownership == Spec => []OneOwner
<1>1. IInv => OneOwner
  BY DEF IInv
<1> QED
  BY <1>1, Invariant, PTL

\* A rule table in which every output port has a single sender never leads
\* two lcores into the TX queue of one NIC.
THEOREM Exclusion == Spec => []TxExclusive
<1>1. IInv => TxExclusive
  BY DEF IInv
<1> QED
  BY <1>1, Invariant, PTL

-----------------------------------------------------------------------------
(* The arrays of PortQueue. *)

RoomOf(p) ==
  /\ Len(rx[p]) <= K
  /\ \A q \in Ports : IF pc[p] \in {"send", "burst"} /\ queue[p] = q
                      THEN Len(tx[p][q]) \in 1 .. K
                      ELSE Len(tx[p][q]) < K

LEMMA NoOverrunIs ==
  NoOverrun <=> /\ \A p \in Ports : RoomOf(p)
                /\ \A q \in Ports : Len(ring[q]) <= RingSize
BY DEF NoOverrun, RoomOf

LEMMA LengthTypes ==
  ASSUME TypeOK, NEW p \in Ports, NEW q \in Ports
  PROVE  /\ Len(rx[p]) \in Nat /\ Len(tx[p][q]) \in Nat
         /\ Len(ring[q]) \in Nat /\ Len(arrived[p]) \in Nat
         /\ K \in Nat /\ K > 0 /\ RingSize \in Nat
BY DataPlaneAssumption DEF TypeOK, Row

\* tx_burst takes at most what the TX ring has room for.
LEMMA TakenFits ==
  ASSUME TypeOK, NoOverrun, NEW p \in Ports, queue[p] \in Ports
  PROVE  /\ Taken(p) \in 0 .. Len(Batch(p))
         /\ Len(ring[queue[p]]) + Taken(p) <= RingSize
<1>1. Len(Batch(p)) \in Nat /\ Len(ring[queue[p]]) \in Nat
  BY LengthTypes DEF Batch
<1>2. RingSize \in Nat /\ Len(ring[queue[p]]) <= RingSize
  BY DataPlaneAssumption DEF NoOverrun
<1>3. Room(queue[p]) \in Nat /\ Len(ring[queue[p]]) + Room(queue[p]) = RingSize
  BY <1>1, <1>2 DEF Room
<1> QED
  BY <1>1, <1>2, <1>3 DEF Taken

\* A worker fills its own arrays only, and sends a buffer that is full.
LEMMA WorkerKeepsRoom ==
  ASSUME IInv, NoOverrun, NEW p \in Ports, Worker(p)
  PROVE  \A o \in Ports : RoomOf(o)'
<1>0. TypeOK /\ Control /\ RoomOf(p) /\ \A o \in Ports : RoomOf(o)
  BY NoOverrunIs DEF IInv
<1>1. ASSUME NEW o \in Ports, o # p PROVE RoomOf(o)'
  <2>1. pc'[o] = pc[o] /\ queue'[o] = queue[o] /\ tx'[o] = tx[o] /\ rx'[o] = rx[o]
    BY <1>0, <1>1, OthersUntouched
  <2> QED
    BY <1>0, <2>1 DEF RoomOf
<1>2. RoomOf(p)'
  <2>1. /\ Len(rx[p]) \in Nat /\ K \in Nat /\ K > 0
        /\ \A q \in Ports : Len(tx[p][q]) \in Nat
    BY <1>0, LengthTypes
  <2>2. CASE Leave(p) \/ BeginDrain(p) \/ SkipDrain(p) \/ EndDrain(p)
    BY <1>0, <2>1, <2>2
       DEF Leave, BeginDrain, SkipDrain, EndDrain, At, Goto, TypeOK, RoomOf
  <2>3. CASE DrainPort(p)
    BY <1>0, <2>1, <2>3 DEF DrainPort, At, Goto, TypeOK, RoomOf
  <2>4. CASE Receive(p)
    BY <1>0, <2>1, <2>4, SMTT(40) DEF Receive, RxOne, RxDone, At, Goto, TypeOK, RoomOf
  <2>5. CASE Process(p)
    BY <1>0, <2>1, <2>5, SMTT(40)
       DEF Process, ProcessDone, Unsupported, Unruled, Ruled, At, Goto, TypeOK,
           RoomOf
  <2>6. CASE Drop(p) \/ Push(p)
    BY <1>0, <2>6 DEF Drop, Push, Doing, At, RoomOf
  <2>7. CASE Finish(p)
    BY <1>0, <2>1, <2>7 DEF Finish, At, Goto, TypeOK, Control, RoomOf
  <2>8. ASSUME NEW q \in Ports, NEW m \in Cell, At(p, "actions"),
               Buffer(p, q, m), UNCHANGED rx
        PROVE  RoomOf(p)'
    <3>1. /\ tx'[p][q] = Append(tx[p][q], m)
          /\ \A r \in Ports \ {q} : tx'[p][r] = tx[p][r]
      BY <1>0, <2>8 DEF Buffer, TypeOK, Row
    <3>2. Len(tx'[p][q]) = Len(tx[p][q]) + 1
      BY <1>0, <2>8, <3>1 DEF TypeOK, Row, Cell
    <3>3. \A r \in Ports : Len(tx[p][r]) < K
      BY <1>0, <2>8 DEF At, RoomOf
    <3>4. CASE Len(tx[p][q]) + 1 = K
      <4>1. pc'[p] = "send" /\ queue'[p] = q
        BY <1>0, <2>8, <3>4 DEF Buffer, Goto, TypeOK
      <4> QED
        BY <1>0, <2>1, <2>8, <3>1, <3>2, <3>3, <3>4, <4>1 DEF RoomOf
    <3>5. CASE Len(tx[p][q]) + 1 # K
      <4>1. pc'[p] = "actions"
        BY <2>8, <3>5 DEF Buffer, At
      <4> QED
        BY <1>0, <2>1, <2>8, <3>1, <3>2, <3>3, <3>5, <4>1, SMTT(40) DEF RoomOf
    <3> QED
      BY <3>4, <3>5
  <2>9. CASE OutputCopy(p) \/ OutputNull(p)
    <3>1. At(p, "actions") /\ Head(todo[p]).port \in Ports /\ UNCHANGED rx
      <4>1. Doing(p, "OUTPUT") /\ UNCHANGED rx
        BY <2>9 DEF OutputCopy, OutputNull
      <4>2. Head(todo[p]) \in ActionSet
        BY <1>0, <4>1 DEF Doing, TypeOK
      <4> QED
        BY <4>1, <4>2, ActionFacts DEF Doing
    <3>2. \E m \in Cell : Buffer(p, Head(todo[p]).port, m)
      BY <1>0, <2>9 DEF OutputCopy, OutputNull, TypeOK, Cell
    <3> QED
      BY <2>8, <3>1, <3>2
  <2>10. CASE CallTxBurst(p) \/ RaceTxBurst(p) \/ NullTxBurst(p)
    BY <1>0, <2>10
       DEF CallTxBurst, RaceTxBurst, NullTxBurst, At, Goto, TypeOK, RoomOf
  <2>11. ASSUME pc[p] = "burst", Resume(p), UNCHANGED rx,
                tx'[p][queue[p]] = << >>,
                \A q \in Ports \ {queue[p]} : tx'[p][q] = tx[p][q]
         PROVE  RoomOf(p)'
    <3>1. pc'[p] \in {"drain", "actions"}
      BY <1>0, <2>11 DEF Resume, Goto, TypeOK
    <3>2. Len(tx'[p][queue[p]]) = 0
      BY <2>11
    <3>3. \A q \in Ports \ {queue[p]} : Len(tx[p][q]) < K
      BY <1>0, <2>11 DEF RoomOf
    <3> QED
      BY <1>0, <2>1, <2>11, <3>1, <3>2, <3>3 DEF RoomOf
  <2>12. CASE FullTxBurst(p)
    BY <1>0, <2>11, <2>12 DEF FullTxBurst, At, Control, TypeOK, Row
  <2>13. CASE ReturnTxBurst(p)
    <3>1. /\ queue[p] \in Ports /\ pc[p] = "burst" /\ UNCHANGED rx
          /\ Taken(p) \in 1 .. Len(Batch(p))
          /\ Batch(p) \in Seq(Cell)
      <4>1. queue[p] \in Ports /\ pc[p] = "burst" /\ UNCHANGED rx
        BY <1>0, <2>13 DEF ReturnTxBurst, At, Control
      <4>2. Taken(p) > 0
        BY <2>13 DEF ReturnTxBurst
      <4>3. Batch(p) \in Seq(Cell)
        BY <1>0, <4>1, SMTT(40) DEF Batch, TypeOK, Row, Cell
      <4> QED
        BY <1>0, <4>1, <4>2, <4>3, TakenFacts
    <3>2. /\ tx'[p][queue[p]] = SubSeq(Batch(p), Taken(p) + 1, Len(Batch(p)))
          /\ \A q \in Ports \ {queue[p]} : tx'[p][q] = tx[p][q]
      BY <1>0, <2>13, <3>1 DEF ReturnTxBurst, Batch, TypeOK, Row
    <3>3. Len(tx'[p][queue[p]]) = Len(Batch(p)) - Taken(p)
      BY <3>1, <3>2
    <3>4. CASE Taken(p) = Len(Batch(p))
      <4>1. Resume(p)
        BY <2>13, <3>4 DEF ReturnTxBurst
      <4>2. SubSeq(Batch(p), Taken(p) + 1, Len(Batch(p))) = << >>
        BY <3>1, <3>4
      <4> QED
        BY <2>11, <3>1, <3>2, <4>1, <4>2
    <3>5. CASE Taken(p) # Len(Batch(p))
      <4>1. pc'[p] = "send" /\ queue'[p] = queue[p]
        BY <1>0, <2>13, <3>5 DEF ReturnTxBurst, Goto, TypeOK
      <4>2. Len(Batch(p)) \in 1 .. K
        BY <1>0, <3>1 DEF RoomOf, Batch
      <4> QED
        BY <1>0, <2>1, <3>1, <3>2, <3>3, <3>5, <4>1, <4>2, SMTT(40) DEF RoomOf
    <3> QED
      BY <3>4, <3>5
  <2> QED
    BY <2>2, <2>3, <2>4, <2>5, <2>6, <2>7, <2>9, <2>10, <2>12, <2>13
       DEF Worker, Loop, Execute, Send
<1> QED
  BY <1>1, <1>2

\* The TX rings are filled by tx_burst only.
LEMMA WorkerKeepsRings ==
  ASSUME IInv, NoOverrun, NEW p \in Ports, Worker(p)
  PROVE  \A q \in Ports : Len(ring'[q]) <= RingSize
<1>0. TypeOK /\ Control /\ \A q \in Ports : Len(ring[q]) <= RingSize
  BY NoOverrunIs DEF IInv
<1>1. CASE ReturnTxBurst(p)
  <2>1. queue[p] \in Ports
    BY <1>0, <1>1 DEF ReturnTxBurst, At, Control
  <2>2. /\ Taken(p) \in 0 .. Len(Batch(p))
        /\ Len(ring[queue[p]]) + Taken(p) <= RingSize
    BY <1>0, <2>1, TakenFits
  <2>3. Batch(p) \in Seq(Cell)
    BY <1>0, <2>1, SMTT(40) DEF TypeOK, Row, Batch, Cell
  <2>4. ring[queue[p]] \in Seq(Cell)
    BY <1>0, <2>1, MbufsAreCells DEF TypeOK
  <2>5. Len(ring[queue[p]] \o SubSeq(Batch(p), 1, Taken(p)))
          = Len(ring[queue[p]]) + Taken(p)
    <3>1. /\ SubSeq(Batch(p), 1, Taken(p)) \in Seq(Cell)
          /\ Len(SubSeq(Batch(p), 1, Taken(p))) = Taken(p)
      BY <2>2, <2>3
    <3> QED
      BY <2>4, <3>1
  <2> QED
    BY <1>0, <1>1, <2>1, <2>2, <2>5 DEF ReturnTxBurst, TypeOK
<1>2. CASE ~ReturnTxBurst(p)
  <2>1. UNCHANGED ring
    BY <1>2 DEF Worker, Loop, Leave, BeginDrain, SkipDrain, DrainPort, EndDrain,
       Receive, RxOne, RxDone, Process, ProcessDone, Unsupported, Unruled,
       Ruled, Execute, Drop, Push, OutputCopy, OutputNull, Finish, Send,
       CallTxBurst, RaceTxBurst, NullTxBurst, FullTxBurst
  <2> QED
    BY <1>0, <2>1
<1> QED
  BY <1>1, <1>2

LEMMA InitRoom == Init => NoOverrun
BY DataPlaneAssumption DEF Init, NoOverrun

LEMMA NextRoom == IInv /\ NoOverrun /\ [Next]_vars => NoOverrun'
<1> SUFFICES ASSUME IInv, NoOverrun, [Next]_vars PROVE NoOverrun'
  OBVIOUS
<1>1. CASE \E p \in Ports : Worker(p)
  BY <1>1, WorkerKeepsRoom, WorkerKeepsRings, NoOverrunIs DEF NoOverrun, RoomOf
<1>2. ASSUME NEW q \in Ports, Transmit(q) PROVE NoOverrun'
  BY <1>2, LengthTypes, SMTT(40) DEF IInv, TypeOK, Transmit, NoOverrun
<1>3. CASE Sigint \/ UNCHANGED vars
  BY <1>3 DEF Sigint, vars, NoOverrun
<1> QED
  BY <1>1, <1>2, <1>3 DEF Next, Stopped

\* No array of PortQueue and no TX ring ever holds more than it has room for,
\* and a TX buffer is full only while its owner is sending it: the count is
\* back below kMAX_PKTS_IN_QUEUE before the next packet is appended.
THEOREM Arrays == Spec => []NoOverrun
<1>1. Init => NoOverrun
  BY InitRoom
<1>2. IInv /\ NoOverrun /\ [Next]_vars => NoOverrun'
  BY NextRoom
<1> QED
  BY <1>1, <1>2, Invariant, PTL DEF Spec

-----------------------------------------------------------------------------
(* The RX queue holds the frames that arrived last. *)

\* The queue r holds the frames that arrived last, in their order.
Latest(r, a, content) ==
  /\ Len(r) <= Len(a)
  /\ \A j \in 1 .. Len(r) : content[r[j]].class = a[Len(a) - Len(r) + j]

LEMMA LatestTail ==
  ASSUME NEW r \in Seq(Mbufs), NEW a \in Seq(Traffic), NEW f, NEW g,
         Latest(r, a, f), r # << >>,
         \A j \in 1 .. Len(Tail(r)) : g[Tail(r)[j]].class = f[Tail(r)[j]].class
  PROVE  Latest(Tail(r), a, g)
<1>1. /\ Len(r) \in Nat /\ Len(r) > 0 /\ Len(a) \in Nat
      /\ Len(Tail(r)) = Len(r) - 1
  OBVIOUS
<1>2. ASSUME NEW j \in 1 .. Len(Tail(r))
      PROVE  g[Tail(r)[j]].class = a[Len(a) - Len(Tail(r)) + j]
  <2>1. j + 1 \in 1 .. Len(r) /\ Tail(r)[j] = r[j + 1]
    BY <1>1
  <2>2. Len(a) - Len(Tail(r)) + j = Len(a) - Len(r) + (j + 1)
    BY <1>1
  <2> QED
    BY <2>1, <2>2 DEF Latest
<1> QED
  BY <1>1, <1>2 DEF Latest

LEMMA LatestAppend ==
  ASSUME NEW r \in Seq(Mbufs), NEW a \in Seq(Traffic), NEW f, NEW g,
         Latest(r, a, f), NEW m \in Mbufs, NEW class \in Traffic,
         g[m].class = class,
         \A j \in 1 .. Len(r) : g[r[j]].class = f[r[j]].class
  PROVE  Latest(Append(r, m), Append(a, class), g)
<1> DEFINE r2 == Append(r, m)
           a2 == Append(a, class)
<1>1. /\ Len(r) \in Nat /\ Len(a) \in Nat /\ Len(r) <= Len(a)
      /\ Len(r2) = Len(r) + 1 /\ Len(a2) = Len(a) + 1
  BY DEF Latest
<1>2. /\ r2[Len(r) + 1] = m /\ a2[Len(a) + 1] = class
      /\ \A j \in 1 .. Len(r) : r2[j] = r[j]
      /\ \A j \in 1 .. Len(a) : a2[j] = a[j]
  OBVIOUS
<1> HIDE DEF r2, a2
<1>3. ASSUME NEW j \in 1 .. Len(r2)
      PROVE  g[r2[j]].class = a2[Len(a2) - Len(r2) + j]
  <2>1. CASE j = Len(r) + 1
    <3>1. Len(a2) - Len(r2) + j = Len(a) + 1
      BY <1>1, <2>1
    <3> QED
      BY <1>2, <2>1, <3>1
  <2>2. CASE j # Len(r) + 1
    <3>1. j \in 1 .. Len(r)
      BY <1>1, <2>2
    <3>2. /\ Len(a2) - Len(r2) + j = Len(a) - Len(r) + j
          /\ Len(a) - Len(r) + j \in 1 .. Len(a)
      BY <1>1, <3>1
    <3> QED
      BY <1>2, <3>1, <3>2, ZenonT(40) DEF Latest
  <2> QED
    BY <2>1, <2>2
<1>4. Len(r2) <= Len(a2)
  BY <1>1
<1> QED
  BY <1>3, <1>4 DEF Latest, r2, a2

LatestOf(p) ==
  /\ arrived[p] \in Seq(Traffic)
  /\ Len(arrived[p]) <= MaxArrivals
  /\ Latest(rx[p], arrived[p], frame)
  /\ pc[p] \in {"poll", "drain", "done"} => rx[p] = << >>

LEMMA RxIsLatestIs == RxIsLatest <=> \A p \in Ports : LatestOf(p)
BY DEF RxIsLatest, LatestOf, Latest

\* What an RX queue holds is neither free nor lost, before a step and after.
LEMMA RxIsHeld ==
  ASSUME IInv, IInv', NEW p \in Ports
  PROVE  /\ \A j \in 1 .. Len(rx[p]) : rx[p][j] \in Mbufs \ (pool \cup lost)
         /\ \A j \in 1 .. Len(rx'[p]) :
              rx'[p][j] \in Mbufs \ (pool' \cup lost')
         /\ \A i, j \in 1 .. Len(rx[p]) : rx[p][i] = rx[p][j] => i = j
<1>0. RxBuffer(p) \in Buffers
  BY DEF Buffers, RxBuffer
<1>1. /\ rx[p] \in Seq(Mbufs) /\ rx'[p] \in Seq(Mbufs)
      /\ DOMAIN Contents = Buffers /\ DOMAIN Contents' = Buffers
      /\ Contents[RxBuffer(p)] = rx[p] /\ Contents'[RxBuffer(p)] = rx'[p]
  BY <1>0 DEF IInv, TypeOK, Contents, RxBuffer
<1>2. \A j \in DOMAIN rx[p] : rx[p][j] \notin pool \cup lost
  BY <1>0, <1>1 DEF IInv, OneOwner, Partition
<1>3. \A j \in DOMAIN rx'[p] : rx'[p][j] \notin pool' \cup lost'
  BY <1>0, <1>1 DEF IInv, OneOwner, Partition
<1>4. \A i, j \in DOMAIN rx[p] : rx[p][i] = rx[p][j] => i = j
  <2>1. \A j \in DOMAIN rx[p] : rx[p][j] # NoMbuf
    BY <1>1, DataPlaneAssumption
  <2> QED
    BY <1>0, <1>1, <2>1 DEF IInv, OneOwner, Partition
<1> QED
  BY <1>1, <1>2, <1>3, <1>4

\* No step changes the class of a frame while an mbuf holds it.
LEMMA ClassesKept ==
  ASSUME IInv, NEW p \in Ports, Worker(p) \/ Transmit(p),
         NEW m \in Mbufs \ pool, m \notin pool' \cup lost'
  PROVE  frame'[m].class = frame[m].class
<1>0. TypeOK /\ OneOwner /\ Live /\ Control
  BY DEF IInv
<1>1. ASSUME NEW ms, Free(ms) PROVE frame'[m].class = frame[m].class
  BY <1>1 DEF Free
<1>2. CASE Unsupported(p) \/ Finish(p) \/ FullTxBurst(p) \/ Transmit(p)
  BY <1>1, <1>2 DEF Unsupported, Finish, FullTxBurst, Transmit
<1>3. CASE Unruled(p)
  BY <1>0, <1>3 DEF Unruled, TypeOK
<1>4. CASE RxOne(p) \/ OutputCopy(p)
  BY <1>0, <1>4 DEF RxOne, OutputCopy, TypeOK
<1>5. CASE Push(p)
  <2>1. rx[p] # << >> /\ Head(todo[p]) \in ActionSet
        /\ Head(todo[p]).type = "PUSH"
    BY <1>0, <1>5 DEF Push, Doing, At, Control, TypeOK
  <2>2. frame[Head(rx[p])] \in Frames
    BY <1>0, <2>1, HeadIsLive
  <2>3. Pushed(frame[Head(rx[p])], Head(todo[p]).tag).class
          = frame[Head(rx[p])].class
    BY <2>2 DEF Pushed, Frames
  <2> QED
    BY <1>0, <1>5, <2>3 DEF Push, TypeOK
<1>6. CASE \/ Loop(p) \/ RxDone(p) \/ ProcessDone(p) \/ Ruled(p) \/ Drop(p)
           \/ OutputNull(p) \/ CallTxBurst(p) \/ RaceTxBurst(p)
           \/ NullTxBurst(p) \/ ReturnTxBurst(p)
  <2>1. UNCHANGED frame
    BY <1>6 DEF Loop, Leave, BeginDrain, SkipDrain, DrainPort, EndDrain, RxDone,
       ProcessDone, Ruled, Drop, OutputNull, CallTxBurst, RaceTxBurst,
       NullTxBurst, ReturnTxBurst
  <2> QED
    BY <2>1
<1> QED
  BY <1>2, <1>3, <1>4, <1>5, <1>6
     DEF Worker, Receive, Process, Execute, Send

\* The history and the counters of a port are written by its worker only.
LEMMA OthersUncounted ==
  ASSUME TypeOK, NEW p \in Ports, Worker(p), NEW o \in Ports, o # p
  PROVE  /\ arrived'[o] = arrived[o]
         /\ \A c \in Counted : stats'[o][c] = stats[o][c]
<1> USE DEF TypeOK
<1>1. CASE RxOne(p)
  BY <1>1 DEF RxOne
<1>2. CASE Unruled(p) \/ Ruled(p)
  BY <1>2 DEF Unruled, Ruled, CountProtocol
<1>3. CASE ~(RxOne(p) \/ Unruled(p) \/ Ruled(p))
  <2>1. UNCHANGED <<arrived, stats>>
    BY <1>3 DEF Worker, Loop, Leave, BeginDrain, SkipDrain, DrainPort, EndDrain,
       Receive, RxDone, Process, ProcessDone, Unsupported, Execute, Drop, Push,
       OutputCopy, OutputNull, Finish, Send, CallTxBurst, RaceTxBurst,
       NullTxBurst, ReturnTxBurst, FullTxBurst
  <2> QED
    BY <2>1
<1> QED
  BY <1>1, <1>2, <1>3

\* LatestOf when the RX queue stays, and when its first packet leaves it.
LEMMA LatestIfSame ==
  ASSUME IInv, IInv', NEW p \in Ports, Worker(p) \/ Transmit(p),
         NEW o \in Ports, LatestOf(o),
         rx'[o] = rx[o], arrived'[o] = arrived[o],
         pc'[o] \in {"poll", "drain", "done"} => rx[o] = << >>
  PROVE  LatestOf(o)'
<1>1. ASSUME NEW j \in 1 .. Len(rx[o])
      PROVE  frame'[rx'[o][j]].class = frame[rx[o][j]].class
  BY <1>1, RxIsHeld, ClassesKept
<1> QED
  BY <1>1 DEF LatestOf, Latest

LEMMA LatestIfTail ==
  ASSUME IInv, IInv', NEW p \in Ports, Worker(p), LatestOf(p),
         rx[p] # << >>, rx'[p] = Tail(rx[p]), arrived'[p] = arrived[p],
         pc'[p] \notin {"poll", "drain", "done"}
  PROVE  LatestOf(p)'
<1>1. rx[p] \in Seq(Mbufs) /\ arrived[p] \in Seq(Traffic)
  BY DEF IInv, TypeOK, LatestOf
<1>2. ASSUME NEW j \in 1 .. Len(Tail(rx[p]))
      PROVE  frame'[Tail(rx[p])[j]].class = frame[Tail(rx[p])[j]].class
  <2>1. j + 1 \in 1 .. Len(rx[p]) /\ Tail(rx[p])[j] = rx[p][j + 1]
    BY <1>1
  <2>2. /\ rx'[p][j] \in Mbufs \ (pool' \cup lost')
        /\ rx[p][j + 1] \in Mbufs \ (pool \cup lost)
    BY <2>1, RxIsHeld
  <2> QED
    BY <2>1, <2>2, ClassesKept
<1>3. Latest(Tail(rx[p]), arrived[p], frame')
  BY <1>1, <1>2, LatestTail DEF LatestOf
<1> QED
  BY <1>3 DEF LatestOf, Latest

LEMMA LatestIfAppended ==
  ASSUME IInv, IInv', NEW p \in Ports, RxOne(p), LatestOf(p)
  PROVE  LatestOf(p)'
<1>0. TypeOK
  BY DEF IInv
<1>1. PICK m \in pool, class \in Traffic :
        /\ frame' = [frame EXCEPT ![m] =
                       [src |-> p, no |-> Len(arrived[p]) + 1,
                        class |-> class, tags |-> << >>]]
        /\ rx' = [rx EXCEPT ![p] = Append(@, m)]
        /\ arrived' = [arrived EXCEPT ![p] = Append(@, class)]
  BY DEF RxOne
<1>2. /\ rx[p] \in Seq(Mbufs) /\ m \in Mbufs /\ arrived[p] \in Seq(Traffic)
      /\ pc[p] = "recv" /\ Len(arrived[p]) < MaxArrivals /\ UNCHANGED pc
      /\ MaxArrivals \in Nat
  BY <1>0, <1>1, DataPlaneAssumption DEF TypeOK, LatestOf, RxOne, At
<1>3. /\ rx'[p] = Append(rx[p], m) /\ arrived'[p] = Append(arrived[p], class)
      /\ frame'[m].class = class
  BY <1>0, <1>1, <1>2 DEF TypeOK
<1>4. \A j \in 1 .. Len(rx[p]) :
        frame'[rx[p][j]].class = frame[rx[p][j]].class
  <2>1. ASSUME NEW j \in 1 .. Len(rx[p])
        PROVE  rx'[p][j] = rx[p][j] /\ j \in 1 .. Len(rx'[p])
    BY <1>2, <1>3
  <2> QED
    BY <2>1, RxIsHeld, ClassesKept DEF Worker, Receive
<1>5. Latest(rx'[p], arrived'[p], frame')
  BY <1>2, <1>3, <1>4, LatestAppend DEF LatestOf
<1>6. arrived'[p] \in Seq(Traffic) /\ Len(arrived'[p]) <= MaxArrivals
  BY <1>2, <1>3
<1> QED
  BY <1>2, <1>5, <1>6 DEF LatestOf, Latest

LEMMA WorkerKeepsLatest ==
  ASSUME IInv, IInv', RxIsLatest, NEW p \in Ports, Worker(p)
  PROVE  RxIsLatest'
<1>0. TypeOK /\ Control /\ \A o \in Ports : LatestOf(o)
  BY RxIsLatestIs DEF IInv
<1>1. ASSUME NEW o \in Ports, o # p PROVE LatestOf(o)'
  <2>1. rx'[o] = rx[o] /\ arrived'[o] = arrived[o] /\ pc'[o] = pc[o]
    BY <1>0, <1>1, OthersUntouched, OthersUncounted
  <2>2. pc'[o] \in {"poll", "drain", "done"} => rx[o] = << >>
    BY <1>0, <2>1 DEF LatestOf
  <2> QED
    BY <1>0, <2>1, <2>2, LatestIfSame
<1>2. LatestOf(p)'
  <2>1. CASE RxOne(p)
    BY <1>0, <2>1, LatestIfAppended
  <2>2. CASE Unsupported(p) \/ Unruled(p) \/ Finish(p)
    <3>1. rx[p] # << >> /\ rx'[p] = Tail(rx[p]) /\ arrived'[p] = arrived[p]
      BY <1>0, <2>2 DEF Unsupported, Unruled, Finish, At, Control, TypeOK
    <3>2. pc'[p] = "process"
      BY <1>0, <2>2 DEF Unsupported, Unruled, Finish, At, Goto, TypeOK
    <3> QED
      BY <1>0, <3>1, <3>2, LatestIfTail
  <2>3. CASE ~(RxOne(p) \/ Unsupported(p) \/ Unruled(p) \/ Finish(p))
    <3>1. rx'[p] = rx[p] /\ arrived'[p] = arrived[p]
      BY <2>3 DEF Worker, Loop, Leave, BeginDrain, SkipDrain, DrainPort,
         EndDrain, Receive, RxDone, Process, ProcessDone, Ruled, Execute, Drop,
         Push, OutputCopy, OutputNull, Send, CallTxBurst, RaceTxBurst,
         NullTxBurst, ReturnTxBurst, FullTxBurst
    <3>2. pc[p] \in {"poll", "drain", "done"} => rx[p] = << >>
      BY <1>0 DEF LatestOf
    <3>3. pc'[p] \in {"poll", "drain", "done"} => rx[p] = << >>
      <4>1. CASE Loop(p)
        BY <3>2, <4>1 DEF Loop, Leave, BeginDrain, SkipDrain, DrainPort,
           EndDrain, At
      <4>2. CASE RxDone(p) \/ ProcessDone(p) \/ Ruled(p)
        BY <1>0, <4>2, SMTT(40) DEF RxDone, ProcessDone, Ruled, Goto, TypeOK
      <4>3. CASE Drop(p) \/ Push(p)
        BY <4>3, SMTT(40) DEF Drop, Push, Doing, At
      <4>4. CASE OutputCopy(p) \/ OutputNull(p)
        BY <1>0, <4>4, Zenon
           DEF OutputCopy, OutputNull, Doing, At, Buffer, Goto, TypeOK
      <4>5. CASE Send(p)
        BY <1>0, <4>5
           DEF Send, CallTxBurst, RaceTxBurst, NullTxBurst, ReturnTxBurst,
               FullTxBurst, Resume, At, Goto, TypeOK
      <4> QED
        BY <2>3, <4>1, <4>2, <4>3, <4>4, <4>5
           DEF Worker, Receive, Process, Execute
    <3> QED
      BY <1>0, <3>1, <3>3, LatestIfSame
  <2> QED
    BY <2>1, <2>2, <2>3
<1>3. \A o \in Ports : LatestOf(o)'
  BY <1>1, <1>2
<1> QED
  BY <1>3 DEF RxIsLatest, LatestOf, Latest

LEMMA NextLatest == IInv /\ RxIsLatest /\ [Next]_vars => RxIsLatest'
<1> SUFFICES ASSUME IInv, RxIsLatest, [Next]_vars PROVE RxIsLatest'
  OBVIOUS
<1>0. IInv'
  BY NextInvariant
<1>1. CASE \E p \in Ports : Worker(p)
  BY <1>0, <1>1, WorkerKeepsLatest
<1>2. ASSUME NEW q \in Ports, Transmit(q) PROVE RxIsLatest'
  <2>1. UNCHANGED <<rx, arrived, pc>>
    BY <1>2 DEF Transmit
  <2>2. \A o \in Ports : LatestOf(o)
    BY RxIsLatestIs
  <2>3. ASSUME NEW o \in Ports PROVE LatestOf(o)'
    <3>1. pc'[o] \in {"poll", "drain", "done"} => rx[o] = << >>
      BY <2>1, <2>2 DEF LatestOf
    <3> QED
      BY <1>0, <1>2, <2>1, <2>2, <3>1, LatestIfSame
  <2> QED
    BY <2>3 DEF RxIsLatest, LatestOf, Latest
<1>3. CASE Sigint \/ UNCHANGED vars
  <2>1. UNCHANGED <<rx, arrived, pc, frame>>
    BY <1>3 DEF Sigint, vars
  <2> QED
    BY <2>1 DEF RxIsLatest
<1> QED
  BY <1>1, <1>2, <1>3 DEF Next, Stopped

LEMMA InitLatest == Init => RxIsLatest
<1> SUFFICES ASSUME Init, NEW p \in Ports PROVE LatestOf(p)
  BY RxIsLatestIs
<1>1. rx[p] = << >> /\ arrived[p] = << >>
  BY DEF Init
<1>2. << >> \in Seq(Traffic) /\ Len(<< >>) = 0
  OBVIOUS
<1> QED
  BY <1>1, <1>2, DataPlaneAssumption DEF LatestOf, Latest

-----------------------------------------------------------------------------
(* How many frames a worker has begun to process. *)

\* Begun, of the history a, the queue r and the location l of a worker.
Busy == {"actions", "send", "burst"}
Before(a, r) == Len(a) - Len(r)
BegunAt(a, r, l) == Before(a, r) + (IF r # << >> /\ l \in Busy THEN 1 ELSE 0)

LEMMA BegunIs ==
  ASSUME NEW p \in Ports
  PROVE  /\ Begun(p) = BegunAt(arrived[p], rx[p], pc[p])
         /\ Begun(p)' = BegunAt(arrived'[p], rx'[p], pc'[p])
BY DEF Begun, BegunAt, Before, Busy

LEMMA BegunAtFacts ==
  ASSUME NEW a \in Seq(Traffic), NEW r \in Seq(Mbufs), Len(r) <= Len(a), NEW l
  PROVE  BegunAt(a, r, l) \in 0 .. Len(a)
<1>1. /\ Len(a) \in Nat /\ Len(r) \in Nat /\ (r # << >> => Len(r) > 0)
      /\ Before(a, r) = Len(a) - Len(r)
  BY DEF Before
<1> QED
  BY <1>1 DEF BegunAt

\* A frame arrives.
LEMMA BegunAtArrival ==
  ASSUME NEW a \in Seq(Traffic), NEW r \in Seq(Mbufs), NEW l, l \notin Busy,
         NEW c \in Traffic, NEW m \in Mbufs
  PROVE  BegunAt(Append(a, c), Append(r, m), l) = BegunAt(a, r, l)
<1>1. /\ Len(a) \in Nat /\ Len(r) \in Nat
      /\ Len(Append(a, c)) = Len(a) + 1 /\ Len(Append(r, m)) = Len(r) + 1
  OBVIOUS
<1>2. Before(Append(a, c), Append(r, m)) = Before(a, r)
  BY <1>1 DEF Before
<1> QED
  BY <1>2 DEF BegunAt

\* The first packet of the queue is being processed, or is done with.
LEMMA BegunAtHead ==
  ASSUME NEW a \in Seq(Traffic), NEW r \in Seq(Mbufs), r # << >>,
         Len(r) <= Len(a), NEW l
  PROVE  /\ l \in Busy => BegunAt(a, r, l) = Before(a, r) + 1
         /\ l \notin Busy => BegunAt(a, r, l) = Before(a, r)
         /\ l \notin Busy => BegunAt(a, Tail(r), l) = Before(a, r) + 1
         /\ Before(a, r) \in Nat /\ Before(a, r) + 1 \in 1 .. Len(a)
<1>1. /\ Len(a) \in Nat /\ Len(r) \in Nat /\ Len(r) > 0
      /\ Len(Tail(r)) = Len(r) - 1
  OBVIOUS
<1>2. Before(a, Tail(r)) = Before(a, r) + 1
  BY <1>1 DEF Before
<1>3. Before(a, r) \in Nat /\ Before(a, r) + 1 \in 1 .. Len(a)
  BY <1>1 DEF Before
<1> QED
  BY <1>2, <1>3 DEF BegunAt

Begins(p) == Unsupported(p) \/ Unruled(p) \/ Ruled(p)

LEMMA BegunType ==
  ASSUME IInv, RxIsLatest, NEW p \in Ports
  PROVE  /\ Begun(p) \in 0 .. Len(arrived[p])
         /\ arrived[p] \in Seq(Traffic) /\ rx[p] \in Seq(Mbufs)
         /\ Len(arrived[p]) \in Nat /\ Len(arrived[p]) <= MaxArrivals
<1>1. /\ arrived[p] \in Seq(Traffic) /\ rx[p] \in Seq(Mbufs)
      /\ Len(rx[p]) <= Len(arrived[p]) /\ Len(arrived[p]) <= MaxArrivals
  BY DEF IInv, TypeOK, RxIsLatest
<1>2. BegunAt(arrived[p], rx[p], pc[p]) \in 0 .. Len(arrived[p])
  BY <1>1, BegunAtFacts
<1>3. Len(arrived[p]) \in Nat
  BY <1>1
<1> QED
  BY <1>1, <1>2, <1>3, BegunIs

\* The other steps of a worker leave the frames begun as they are.
LEMMA BegunStays ==
  ASSUME IInv, RxIsLatest, NEW p \in Ports, Worker(p), ~Begins(p)
  PROVE  /\ Begun(p)' = Begun(p)
         /\ \A i \in 1 .. Begun(p) : arrived'[p][i] = arrived[p][i]
         /\ UNCHANGED <<stats, lost>>
<1>0. /\ TypeOK /\ Control /\ arrived[p] \in Seq(Traffic) /\ rx[p] \in Seq(Mbufs)
      /\ Len(rx[p]) <= Len(arrived[p]) /\ Begun(p) \in 0 .. Len(arrived[p])
      /\ pc[p] \in {"poll", "drain", "done"} => rx[p] = << >>
  BY BegunType DEF IInv, RxIsLatest
<1>1. UNCHANGED <<stats, lost>>
  BY DEF Begins, Worker, Loop, Leave, BeginDrain, SkipDrain, DrainPort,
     EndDrain, Receive, RxOne, RxDone, Process, ProcessDone, Execute, Drop,
     Push, OutputCopy, OutputNull, Finish, Send, CallTxBurst, RaceTxBurst,
     NullTxBurst, ReturnTxBurst, FullTxBurst
<1>2. CASE RxOne(p)
  <2>1. /\ pc[p] = "recv" /\ pc'[p] = "recv"
        /\ \E m \in Mbufs, c \in Traffic :
             rx'[p] = Append(rx[p], m) /\ arrived'[p] = Append(arrived[p], c)
    BY <1>0, <1>2 DEF RxOne, At, TypeOK
  <2>2. PICK m \in Mbufs, c \in Traffic :
             rx'[p] = Append(rx[p], m) /\ arrived'[p] = Append(arrived[p], c)
    BY <2>1
  <2>3. BegunAt(arrived'[p], rx'[p], pc'[p])
          = BegunAt(arrived[p], rx[p], pc[p])
    BY <1>0, <2>1, <2>2, BegunAtArrival DEF Busy
  <2>4. \A i \in 1 .. Begun(p) : arrived'[p][i] = arrived[p][i]
    BY <1>0, <2>2
  <2> QED
    BY <1>1, <2>3, <2>4, BegunIs
<1>3. CASE Finish(p)
  <2>1. /\ pc[p] = "actions" /\ pc'[p] = "process" /\ arrived' = arrived
        /\ rx'[p] = Tail(rx[p]) /\ rx[p] # << >>
    BY <1>0, <1>3 DEF Finish, At, Goto, Control, TypeOK
  <2>2. BegunAt(arrived'[p], rx'[p], pc'[p]) = Before(arrived[p], rx[p]) + 1
    BY <1>0, <2>1, BegunAtHead DEF Busy
  <2>3. BegunAt(arrived[p], rx[p], pc[p]) = Before(arrived[p], rx[p]) + 1
    BY <1>0, <2>1, BegunAtHead DEF Busy
  <2> QED
    BY <1>1, <2>1, <2>2, <2>3, BegunIs
<1>4. CASE ~RxOne(p) /\ ~Finish(p)
  <2>1. rx' = rx /\ arrived' = arrived
    BY <1>4 DEF Begins, Worker, Loop, Leave, BeginDrain, SkipDrain, DrainPort,
       EndDrain, Receive, RxDone, Process, ProcessDone, Execute, Drop, Push,
       OutputCopy, OutputNull, Send, CallTxBurst, RaceTxBurst, NullTxBurst,
       ReturnTxBurst, FullTxBurst
  <2>2. \/ rx[p] = << >>
        \/ pc[p] \in Busy /\ pc'[p] \in Busy
        \/ pc[p] \notin Busy /\ pc'[p] \notin Busy
    <3> USE DEF Busy
    <3>1. CASE Loop(p)
      BY <1>0, <3>1, SMTT(40) DEF Loop, Leave, BeginDrain, SkipDrain, DrainPort,
         EndDrain, At
    <3>2. CASE RxDone(p) \/ ProcessDone(p)
      BY <1>0, <3>2, SMTT(40) DEF RxDone, ProcessDone, At, Goto, TypeOK
    <3>3. CASE Drop(p) \/ Push(p)
      BY <3>3, SMTT(40) DEF Drop, Push, Doing, At
    <3>4. CASE OutputCopy(p) \/ OutputNull(p)
      BY <1>0, <3>4, Zenon
         DEF OutputCopy, OutputNull, Doing, At, Buffer, Goto, TypeOK
    <3>5. CASE Send(p)
      BY <1>0, <3>5
         DEF Send, CallTxBurst, RaceTxBurst, NullTxBurst, ReturnTxBurst,
             FullTxBurst, Resume, At, Goto, TypeOK
    <3> QED
      BY <1>4, <3>1, <3>2, <3>3, <3>4, <3>5
         DEF Begins, Worker, Receive, Process, Execute
  <2>3. BegunAt(arrived[p], rx[p], pc'[p]) = BegunAt(arrived[p], rx[p], pc[p])
    BY <2>2 DEF BegunAt
  <2> QED
    BY <1>1, <2>1, <2>3, BegunIs
<1> QED
  BY <1>2, <1>3, <1>4

\* The frame whose processing begins is the next one of the history.
LEMMA BegunGrows ==
  ASSUME IInv, RxIsLatest, NEW p \in Ports, Begins(p)
  PROVE  /\ Begun(p)' = Begun(p) + 1
         /\ Begun(p) + 1 \in 1 .. Len(arrived[p])
         /\ frame[Head(rx[p])].class = arrived[p][Begun(p) + 1]
         /\ UNCHANGED arrived
<1>0. /\ TypeOK /\ arrived[p] \in Seq(Traffic) /\ rx[p] \in Seq(Mbufs)
      /\ Len(rx[p]) <= Len(arrived[p]) /\ rx[p] # << >> /\ pc[p] = "process"
      /\ UNCHANGED arrived
      /\ \A j \in 1 .. Len(rx[p]) :
           frame[rx[p][j]].class = arrived[p][Len(arrived[p]) - Len(rx[p]) + j]
  BY DEF IInv, TypeOK, RxIsLatest, Begins, Unsupported, Unruled, Ruled, At
<1>1. Begun(p) = Before(arrived[p], rx[p])
  BY <1>0, BegunAtHead, BegunIs DEF Busy
<1>2. Begun(p)' = Before(arrived[p], rx[p]) + 1
  <2>1. CASE Unsupported(p) \/ Unruled(p)
    <3>1. rx'[p] = Tail(rx[p]) /\ pc'[p] = "process"
      BY <1>0, <2>1 DEF Unsupported, Unruled, At, TypeOK
    <3>2. BegunAt(arrived'[p], rx'[p], pc'[p]) = Before(arrived[p], rx[p]) + 1
      BY <1>0, <3>1, BegunAtHead DEF Busy
    <3> QED
      BY <3>2, BegunIs
  <2>2. CASE Ruled(p)
    <3>1. rx'[p] = rx[p] /\ pc'[p] = "actions"
      BY <1>0, <2>2 DEF Ruled, Goto, TypeOK
    <3>2. BegunAt(arrived'[p], rx'[p], pc'[p]) = Before(arrived[p], rx[p]) + 1
      BY <1>0, <3>1, BegunAtHead DEF Busy
    <3> QED
      BY <3>2, BegunIs
  <2> QED
    BY <2>1, <2>2 DEF Begins
<1>3. 1 \in 1 .. Len(rx[p]) /\ rx[p][1] = Head(rx[p])
  BY <1>0
<1>4. frame[Head(rx[p])].class = arrived[p][Before(arrived[p], rx[p]) + 1]
  BY <1>0, <1>3 DEF Before
<1>5. Before(arrived[p], rx[p]) + 1 \in 1 .. Len(arrived[p])
  BY <1>0, BegunAtHead
<1> QED
  BY <1>0, <1>1, <1>2, <1>4, <1>5

\* What the other workers have begun does not change.
LEMMA BegunOfOthers ==
  ASSUME IInv, NEW p \in Ports, Worker(p), NEW o \in Ports, o # p
  PROVE  /\ Begun(o)' = Begun(o) /\ arrived'[o] = arrived[o]
         /\ \A c \in Counted : stats'[o][c] = stats[o][c]
<1>1. /\ arrived'[o] = arrived[o] /\ rx'[o] = rx[o] /\ pc'[o] = pc[o]
      /\ \A c \in Counted : stats'[o][c] = stats[o][c]
  BY OthersUntouched, OthersUncounted DEF IInv
<1> QED
  BY <1>1 DEF Begun

-----------------------------------------------------------------------------
(* The statistics. *)

\* How often c is among the first n elements of s.
Occurrences(s, n, c) == Cardinality({i \in 1 .. n : s[i] = c})

LEMMA CountNext ==
  ASSUME NEW n \in Nat, NEW s, NEW c
  PROVE  /\ Occurrences(s, n, c) \in Nat
         /\ s[n + 1] = c
              => Occurrences(s, n + 1, c) = Occurrences(s, n, c) + 1
         /\ s[n + 1] # c => Occurrences(s, n + 1, c) = Occurrences(s, n, c)
<1> DEFINE S == {i \in 1 .. n : s[i] = c}
           T == {i \in 1 .. n + 1 : s[i] = c}
<1>1. Occurrences(s, n, c) = Cardinality(S)
  BY DEF Occurrences
<1>2. Occurrences(s, n + 1, c) = Cardinality(T)
  BY DEF Occurrences
<1>3. IsFiniteSet(S) /\ Cardinality(S) \in Nat
  <2>1. IsFiniteSet(1 .. n)
    BY FS_Interval
  <2>2. S \in SUBSET (1 .. n)
    OBVIOUS
  <2>3. IsFiniteSet(S)
    BY <2>1, <2>2, FS_Subset
  <2> QED
    BY <2>3, FS_CardinalityType
<1>4. s[n + 1] = c => T = S \cup {n + 1}
  OBVIOUS
<1>5. s[n + 1] # c => T = S
  OBVIOUS
<1>6. n + 1 \notin S
  OBVIOUS
<1> HIDE DEF S, T
<1>7. Cardinality(S \cup {n + 1}) = Cardinality(S) + 1
  BY <1>3, <1>6, FS_AddElement
<1> QED
  BY <1>1, <1>2, <1>3, <1>4, <1>5, <1>7

CountOf(p, c) == Occurrences(arrived[p], Begun(p), c)

LEMMA WorkerKeepsStats ==
  ASSUME IInv, RxIsLatest, StatsExact, NEW p \in Ports, Worker(p)
  PROVE  StatsExact'
<1>0. TypeOK /\ Begun(p) \in Nat
  BY BegunType DEF IInv
<1>1. ASSUME NEW o \in Ports, NEW c \in Counted, o # p
      PROVE  stats'[o][c] = CountOf(o, c)'
  <2>1. stats[o][c] = CountOf(o, c)
    BY DEF StatsExact, CountOf, Occurrences
  <2>2. /\ Begun(o)' = Begun(o) /\ arrived'[o] = arrived[o]
        /\ stats'[o][c] = stats[o][c]
    BY <1>1, BegunOfOthers
  <2> QED
    BY <2>1, <2>2 DEF CountOf
<1>2. ASSUME NEW c \in Counted PROVE stats'[p][c] = CountOf(p, c)'
  <2>1. stats[p][c] = CountOf(p, c)
    BY DEF StatsExact, CountOf, Occurrences
  <2>2. CASE ~Begins(p)
    <3>1. /\ Begun(p)' = Begun(p) /\ stats' = stats
          /\ \A i \in 1 .. Begun(p) : arrived'[p][i] = arrived[p][i]
      BY <2>2, BegunStays
    <3>2. {i \in 1 .. Begun(p) : arrived'[p][i] = c}
            = {i \in 1 .. Begun(p) : arrived[p][i] = c}
      BY <3>1
    <3> QED
      BY <2>1, <3>1, <3>2 DEF CountOf, Occurrences
  <2>3. CASE Begins(p)
    <3>1. /\ Begun(p)' = Begun(p) + 1 /\ arrived' = arrived
          /\ frame[Head(rx[p])].class = arrived[p][Begun(p) + 1]
      BY <2>3, BegunGrows
    <3>2. /\ CountOf(p, c) \in Nat
          /\ arrived[p][Begun(p) + 1] = c => CountOf(p, c)' = CountOf(p, c) + 1
          /\ arrived[p][Begun(p) + 1] # c => CountOf(p, c)' = CountOf(p, c)
      <4>1. CountOf(p, c)' = Occurrences(arrived[p], Begun(p) + 1, c)
        BY <3>1 DEF CountOf
      <4> QED
        BY <1>0, <4>1, CountNext DEF CountOf
    <3>3. CASE Unsupported(p)
      <4>1. frame[Head(rx[p])].class # c /\ stats' = stats
        BY <3>3 DEF Unsupported, Counted, Protocols
      <4> QED
        BY <2>1, <3>1, <3>2, <4>1
    <3>4. CASE Unruled(p) \/ Ruled(p)
      <4>1. CountProtocol(p, frame[Head(rx[p])].class)
        BY <3>4 DEF Unruled, Ruled
      <4>2. CASE frame[Head(rx[p])].class = c
        <5>1. stats'[p][c] = stats[p][c] + 1
          BY <1>0, <4>1, <4>2 DEF CountProtocol, TypeOK
        <5> QED
          BY <2>1, <3>1, <3>2, <4>2, <5>1
      <4>3. CASE frame[Head(rx[p])].class # c
        <5>1. stats'[p][c] = stats[p][c]
          BY <1>0, <4>1, <4>3 DEF CountProtocol, TypeOK
        <5> QED
          BY <2>1, <3>1, <3>2, <4>3, <5>1
      <4> QED
        BY <4>2, <4>3
    <3> QED
      BY <2>3, <3>3, <3>4 DEF Begins
  <2> QED
    BY <2>2, <2>3
<1>3. \A o \in Ports, c \in Counted : stats'[o][c] = CountOf(o, c)'
  BY <1>1, <1>2
<1> QED
  BY <1>3 DEF StatsExact, CountOf, Occurrences

LEMMA NextStats == IInv /\ RxIsLatest /\ StatsExact /\ [Next]_vars => StatsExact'
<1> SUFFICES ASSUME IInv, RxIsLatest, StatsExact, [Next]_vars PROVE StatsExact'
  OBVIOUS
<1>1. CASE \E p \in Ports : Worker(p)
  BY <1>1, WorkerKeepsStats
<1>2. CASE (\E q \in Ports : Transmit(q)) \/ Sigint \/ UNCHANGED vars
  <2>1. UNCHANGED <<stats, arrived, rx, pc>>
    BY <1>2 DEF Transmit, Sigint, vars
  <2> QED
    BY <2>1, ZenonT(40) DEF StatsExact, Begun
<1> QED
  BY <1>1, <1>2 DEF Next, Stopped

LEMMA InitStats == Init => StatsExact
<1> SUFFICES ASSUME Init, NEW p \in Ports, NEW c \in Counted
             PROVE  stats[p][c] = Cardinality({i \in 1 .. Begun(p) :
                                                 arrived[p][i] = c})
  BY DEF StatsExact
<1>1. Begun(p) = 0 /\ stats[p][c] = 0
  BY DEF Init, Begun
<1>2. {i \in 1 .. Begun(p) : arrived[p][i] = c} = {}
  BY <1>1
<1> QED
  BY <1>1, <1>2, FS_EmptySet

-----------------------------------------------------------------------------
(* The mbufs lost. *)

UnruledArrivals ==
  {a \in Ports \X (1 .. MaxArrivals) :
     /\ a[2] <= Begun(a[1])
     /\ arrived[a[1]][a[2]] # "unsupported"
     /\ <<a[1], arrived[a[1]][a[2]]>> \notin DOMAIN rules}

LostExact == IsFiniteSet(lost) /\ LostAreUnruled

LEMMA UnruledFinite ==
  /\ IsFiniteSet(UnruledArrivals) /\ Cardinality(UnruledArrivals) \in Nat
<1>1. IsFiniteSet(Ports) /\ IsFiniteSet(1 .. MaxArrivals)
  BY FS_Interval, RulesAssumption, DataPlaneAssumption DEF Ports
<1>2. IsFiniteSet(Ports \X (1 .. MaxArrivals))
  BY <1>1, FS_Product
<1>3. UnruledArrivals \in SUBSET (Ports \X (1 .. MaxArrivals))
  BY DEF UnruledArrivals
<1>4. IsFiniteSet(UnruledArrivals)
  BY <1>2, <1>3, FS_Subset
<1> QED
  BY <1>4, FS_CardinalityType

LEMMA HeadIsHeld ==
  ASSUME IInv, IInv', NEW p \in Ports, rx[p] # << >>
  PROVE  Head(rx[p]) \notin lost
<1>1. 1 \in 1 .. Len(rx[p]) /\ rx[p][1] = Head(rx[p])
  BY DEF IInv, TypeOK
<1> QED
  BY <1>1, RxIsHeld

LEMMA WorkerKeepsLost ==
  ASSUME IInv, IInv', RxIsLatest, LostExact, NEW p \in Ports, Worker(p)
  PROVE  LostExact'
<1>0. TypeOK /\ Begun(p) \in Nat /\ Len(arrived[p]) <= MaxArrivals
      /\ Len(arrived[p]) \in Nat
      /\ \A o \in Ports : Begun(o) \in Nat
  BY BegunType DEF IInv
<1>1. UNCHANGED rules
  BY DEF Worker, Loop, Leave, BeginDrain, SkipDrain, DrainPort, EndDrain,
     Receive, RxOne, RxDone, Process, ProcessDone, Unsupported, Unruled, Ruled,
     Execute, Drop, Push, OutputCopy, OutputNull, Finish, Send, CallTxBurst,
     RaceTxBurst, NullTxBurst, ReturnTxBurst, FullTxBurst
<1>2. /\ \A o \in Ports \ {p} :
           Begun(o)' = Begun(o) /\ arrived'[o] = arrived[o]
      /\ IsFiniteSet(lost) /\ Cardinality(lost) = Cardinality(UnruledArrivals)
  BY BegunOfOthers DEF LostExact, LostAreUnruled, UnruledArrivals
<1>3. CASE ~Begins(p)
  <2>1. /\ Begun(p)' = Begun(p) /\ lost' = lost
        /\ \A i \in 1 .. Begun(p) : arrived'[p][i] = arrived[p][i]
    BY <1>3, BegunStays
  <2>2. UnruledArrivals' = UnruledArrivals
    <3>1. ASSUME NEW a \in Ports \X (1 .. MaxArrivals)
          PROVE  /\ Begun(a[1])' = Begun(a[1])
                 /\ a[2] <= Begun(a[1])
                      => arrived'[a[1]][a[2]] = arrived[a[1]][a[2]]
      BY <1>0, <1>2, <2>1
    <3> QED
      BY <1>1, <3>1 DEF UnruledArrivals
  <2> QED
    BY <1>2, <2>1, <2>2 DEF LostExact, LostAreUnruled, UnruledArrivals
<1>4. CASE Begins(p)
  <2> DEFINE class == arrived[p][Begun(p) + 1]
             a1 == <<p, Begun(p) + 1>>
  <2>1. /\ Begun(p)' = Begun(p) + 1 /\ arrived' = arrived
        /\ Begun(p) + 1 \in 1 .. Len(arrived[p])
        /\ frame[Head(rx[p])].class = class
    BY <1>4, BegunGrows
  <2>2. a1 \in Ports \X (1 .. MaxArrivals) /\ a1 \notin UnruledArrivals
    BY <1>0, <2>1, DataPlaneAssumption DEF UnruledArrivals
  <2>3. ASSUME NEW a \in Ports \X (1 .. MaxArrivals)
        PROVE  a[2] <= Begun(a[1])' <=> a[2] <= Begun(a[1]) \/ a = a1
    <3>1. CASE a[1] = p
      BY <1>0, <2>1, <3>1
    <3>2. CASE a[1] # p
      BY <1>2, <3>2
    <3> QED
      BY <3>1, <3>2
  <2>4. CASE class # "unsupported" /\ <<p, class>> \notin DOMAIN rules
    <3>1. UnruledArrivals' = UnruledArrivals \cup {a1}
      BY <1>1, <2>1, <2>2, <2>3, <2>4 DEF UnruledArrivals
    <3>2. /\ rx[p] # << >> /\ lost' = lost \cup {Head(rx[p])}
      BY <1>4, <2>1, <2>4 DEF Begins, Unsupported, Unruled, Ruled
    <3>3. Head(rx[p]) \notin lost
      BY <3>2, HeadIsHeld
    <3>4. /\ IsFiniteSet(lost') /\ Cardinality(lost') = Cardinality(lost) + 1
      BY <1>2, <3>2, <3>3, FS_AddElement
    <3>5. Cardinality(UnruledArrivals') = Cardinality(UnruledArrivals) + 1
      BY <2>2, <3>1, UnruledFinite, FS_AddElement
    <3> QED
      BY <1>2, <3>4, <3>5 DEF LostExact, LostAreUnruled, UnruledArrivals
  <2>5. CASE ~(class # "unsupported" /\ <<p, class>> \notin DOMAIN rules)
    <3>1. UnruledArrivals' = UnruledArrivals
      BY <1>1, <2>1, <2>2, <2>3, <2>5 DEF UnruledArrivals
    <3>2. lost' = lost
      BY <1>4, <2>1, <2>5 DEF Begins, Unsupported, Unruled, Ruled
    <3> QED
      BY <1>2, <3>1, <3>2 DEF LostExact, LostAreUnruled, UnruledArrivals
  <2> QED
    BY <2>4, <2>5
<1> QED
  BY <1>3, <1>4

LEMMA NextLost ==
  IInv /\ RxIsLatest /\ LostExact /\ [Next]_vars => LostExact'
<1> SUFFICES ASSUME IInv, RxIsLatest, LostExact, [Next]_vars PROVE LostExact'
  OBVIOUS
<1>1. CASE \E p \in Ports : Worker(p)
  BY <1>1, WorkerKeepsLost, NextInvariant
<1>2. CASE (\E q \in Ports : Transmit(q)) \/ Sigint \/ UNCHANGED vars
  <2>1. UNCHANGED <<lost, rules, arrived, rx, pc>>
    BY <1>2 DEF Transmit, Sigint, vars
  <2> QED
    BY <2>1 DEF LostExact, LostAreUnruled, Begun
<1> QED
  BY <1>1, <1>2 DEF Next, Stopped

LEMMA InitLost == Init => LostExact
<1> SUFFICES ASSUME Init PROVE LostExact
  OBVIOUS
<1>1. \A p \in Ports : Begun(p) = 0
  BY DEF Init, Begun
<1>2. UnruledArrivals = {}
  BY <1>1 DEF UnruledArrivals
<1>3. lost = {}
  BY DEF Init
<1> QED
  BY <1>2, <1>3, FS_EmptySet DEF LostExact, LostAreUnruled, UnruledArrivals

LEMMA LatestHolds == Spec => [](IInv /\ RxIsLatest)
<1>1. Init => IInv /\ RxIsLatest
  BY InitInvariant, InitLatest
<1>2. IInv /\ RxIsLatest /\ [Next]_vars => (IInv /\ RxIsLatest)'
  BY NextInvariant, NextLatest
<1> QED
  BY <1>1, <1>2, PTL DEF Spec

\* Every frame PreparePacket accepts is counted once, under its own port and
\* protocol, as soon as it is classified: whatever its rule does with it,
\* however often the worker is interrupted by a flush, and although the
\* mbuf that holds it is handed on.
THEOREM Statistics == Spec => []StatsExact
<1>1. Init => StatsExact
  BY InitStats
<1>2. IInv /\ RxIsLatest /\ StatsExact /\ [Next]_vars => StatsExact'
  BY NextStats
<1> QED
  BY <1>1, <1>2, LatestHolds, PTL DEF Spec

\* The `continue` for a packet without a rule is the only leak: the mbufs
\* that nothing refers to any more are as many as the frames without a rule
\* that were looked at.
THEOREM Losses == Spec => []LostAreUnruled
<1>1. Init => LostExact
  BY InitLost
<1>2. IInv /\ RxIsLatest /\ LostExact /\ [Next]_vars => LostExact'
  BY NextLost
<1>3. LostExact => LostAreUnruled
  BY DEF LostExact
<1> QED
  BY <1>1, <1>2, <1>3, LatestHolds, PTL DEF Spec

-----------------------------------------------------------------------------
(* How many mbufs can be in use. *)

LEMMA UnionBound ==
  ASSUME NEW S, NEW T, IsFiniteSet(S), IsFiniteSet(T)
  PROVE  /\ IsFiniteSet(S \cup T)
         /\ Cardinality(S \cup T) <= Cardinality(S) + Cardinality(T)
<1>1. IsFiniteSet(S \cap T)
  BY FS_Intersection
<1>2. /\ Cardinality(S) \in Nat /\ Cardinality(T) \in Nat
      /\ Cardinality(S \cap T) \in Nat
  BY <1>1, FS_CardinalityType
<1>3. /\ IsFiniteSet(S \cup T)
      /\ Cardinality(S \cup T)
           = Cardinality(S) + Cardinality(T) - Cardinality(S \cap T)
  BY FS_Union
<1> QED
  BY <1>2, <1>3

LEMMA TaggedSize ==
  ASSUME NEW tag, NEW S, IsFiniteSet(S)
  PROVE  /\ IsFiniteSet({tag} \X S) /\ Cardinality({tag} \X S) = Cardinality(S)
         /\ Cardinality(S) \in Nat
<1>1. IsFiniteSet({tag}) /\ Cardinality({tag}) = 1
  BY FS_Singleton
<1>2. Cardinality(S) \in Nat
  BY FS_CardinalityType
<1>3. Cardinality({tag} \X S) = 1 * Cardinality(S) /\ IsFiniteSet({tag} \X S)
  BY <1>1, FS_Product
<1> QED
  BY <1>2, <1>3

\* The places an mbuf in use can be in while worker p asks for one: a slot of
\* an RX queue, of a TX ring, one of the first K - 1 slots of a TX buffer, or
\* the last slot of the buffer another worker is sending.
RxSlots == {"rx"} \X (Ports \X (1 .. K))
TxSlots == {"tx"} \X ((Ports \X Ports) \X (1 .. K - 1))
LastSlots(p) == {"last"} \X (Ports \ {p})
RingSlots == {"ring"} \X (Ports \X (1 .. RingSize))
Slots(p) == ((RxSlots \cup TxSlots) \cup LastSlots(p)) \cup RingSlots

LEMMA SlotsSize ==
  ASSUME NEW p \in Ports
  PROVE  /\ IsFiniteSet(Slots(p)) /\ Cardinality(Slots(p)) \in Nat
         /\ Cardinality(Slots(p)) <= InUseAtMost
         /\ InUseAtMost \in Int
<1>1. NbPorts \in Nat \ {0} /\ K \in Nat \ {0} /\ RingSize \in Nat
  BY RulesAssumption, DataPlaneAssumption
<1>2. IsFiniteSet(Ports) /\ Cardinality(Ports) = NbPorts
  BY <1>1, FS_Interval DEF Ports
<1>3. /\ IsFiniteSet(RxSlots) /\ Cardinality(RxSlots) = NbPorts * K
  <2>1. IsFiniteSet(1 .. K) /\ Cardinality(1 .. K) = K
    BY <1>1, FS_Interval
  <2>2. /\ IsFiniteSet(Ports \X (1 .. K))
        /\ Cardinality(Ports \X (1 .. K)) = NbPorts * K
    BY <1>2, <2>1, FS_Product
  <2> QED
    BY <2>2, TaggedSize DEF RxSlots
<1>4. /\ IsFiniteSet(TxSlots)
      /\ Cardinality(TxSlots) = NbPorts * NbPorts * (K - 1)
  <2>1. IsFiniteSet(1 .. K - 1) /\ Cardinality(1 .. K - 1) = K - 1
    BY <1>1, FS_Interval
  <2> DEFINE Pairs == Ports \X Ports
             Cells == Pairs \X (1 .. K - 1)
  <2>2. IsFiniteSet(Pairs) /\ Cardinality(Pairs) = NbPorts * NbPorts
    BY <1>2, FS_Product
  <2> HIDE DEF Pairs
  <2>3. IsFiniteSet(Cells) /\ Cardinality(Cells) = NbPorts * NbPorts * (K - 1)
    BY <2>1, <2>2, FS_Product, ZenonT(40)
  <2>4. TxSlots = {"tx"} \X Cells
    BY DEF TxSlots, Pairs
  <2> HIDE DEF Cells
  <2> QED
    BY <2>3, <2>4, TaggedSize
<1>5. /\ IsFiniteSet(LastSlots(p)) /\ Cardinality(LastSlots(p)) = NbPorts - 1
  <2>1. /\ IsFiniteSet(Ports \ {p}) /\ Cardinality(Ports \ {p}) = NbPorts - 1
    BY <1>2, FS_RemoveElement
  <2> QED
    BY <2>1, TaggedSize DEF LastSlots
<1>6. /\ IsFiniteSet(RingSlots) /\ Cardinality(RingSlots) = NbPorts * RingSize
  <2>1. IsFiniteSet(1 .. RingSize) /\ Cardinality(1 .. RingSize) = RingSize
    BY <1>1, FS_Interval
  <2>2. /\ IsFiniteSet(Ports \X (1 .. RingSize))
        /\ Cardinality(Ports \X (1 .. RingSize)) = NbPorts * RingSize
    BY <1>2, <2>1, FS_Product
  <2> QED
    BY <2>2, TaggedSize DEF RingSlots
<1>7. /\ Cardinality(RxSlots) \in Nat /\ Cardinality(TxSlots) \in Nat
      /\ Cardinality(LastSlots(p)) \in Nat /\ Cardinality(RingSlots) \in Nat
  BY <1>3, <1>4, <1>5, <1>6, FS_CardinalityType
<1>8. /\ IsFiniteSet(RxSlots \cup TxSlots)
      /\ Cardinality(RxSlots \cup TxSlots)
           <= Cardinality(RxSlots) + Cardinality(TxSlots)
      /\ Cardinality(RxSlots \cup TxSlots) \in Nat
  BY <1>3, <1>4, UnionBound, FS_CardinalityType
<1> DEFINE U == (RxSlots \cup TxSlots) \cup LastSlots(p)
<1>9. /\ IsFiniteSet(U)
      /\ Cardinality(U)
           <= Cardinality(RxSlots \cup TxSlots) + Cardinality(LastSlots(p))
      /\ Cardinality(U) \in Nat
  BY <1>5, <1>8, UnionBound, FS_CardinalityType
<1>10. /\ IsFiniteSet(Slots(p))
       /\ Cardinality(Slots(p)) <= Cardinality(U) + Cardinality(RingSlots)
       /\ Cardinality(Slots(p)) \in Nat
  BY <1>6, <1>9, UnionBound, FS_CardinalityType DEF Slots
<1>11. InUseAtMost = Cardinality(RxSlots) + Cardinality(TxSlots)
                       + Cardinality(LastSlots(p)) + Cardinality(RingSlots)
  BY <1>1, <1>3, <1>4, <1>5, <1>6 DEF InUseAtMost
<1> HIDE DEF U
<1> QED
  BY <1>7, <1>8, <1>9, <1>10, <1>11

\* What is in a slot.
Occupant(s) ==
  IF s[1] = "rx" THEN rx[s[2][1]][s[2][2]]
  ELSE IF s[1] = "tx" THEN tx[s[2][1][1]][s[2][1][2]][s[2][2]]
  ELSE IF s[1] = "last" THEN tx[s[2]][queue[s[2]]][K]
  ELSE ring[s[2][1]][s[2][2]]

LEMMA InASlot ==
  ASSUME IInv, NoOverrun, pool = {}, lost = {},
         NEW p \in Ports, pc[p] = "actions", NEW m \in Mbufs
  PROVE  \E s \in Slots(p) : Occupant(s) = m
<1>1. /\ K \in Nat /\ K > 0 /\ RingSize \in Nat
      /\ \A o, q \in Ports : /\ rx[o] \in Seq(Mbufs) /\ ring[q] \in Seq(Mbufs)
                             /\ tx[o][q] \in Seq(Cell)
  <2>1. TypeOK /\ K \in Nat /\ K > 0 /\ RingSize \in Nat
    BY DataPlaneAssumption DEF IInv
  <2>2. ASSUME NEW o \in Ports, NEW q \in Ports
        PROVE  rx[o] \in Seq(Mbufs) /\ ring[q] \in Seq(Mbufs)
    BY <2>1 DEF TypeOK
  <2>3. ASSUME NEW o \in Ports, NEW q \in Ports PROVE tx[o][q] \in Seq(Cell)
    <3>1. tx[o] \in Row
      BY <2>1 DEF TypeOK
    <3> QED
      BY <3>1 DEF Row, Cell
  <2> QED
    BY <2>1, <2>2, <2>3
<1>2. PICK b \in Buffers : \E i \in DOMAIN Contents[b] : Contents[b][i] = m
  BY DEF IInv, OneOwner, Partition, Contents
<1>3. PICK i \in DOMAIN Contents[b] : Contents[b][i] = m
  BY <1>2
<1>4. CASE \E o \in Ports : b = RxBuffer(o)
  <2>1. PICK o \in Ports : b = RxBuffer(o)
    BY <1>4
  <2>2. i \in 1 .. Len(rx[o]) /\ rx[o][i] = m
    BY <1>1, <1>3, <2>1, ContentsOf
  <2>3. i \in 1 .. K
    <3>1. Len(rx[o]) <= K /\ Len(rx[o]) \in Nat
      BY <1>1 DEF NoOverrun
    <3> QED
      BY <1>1, <2>2, <3>1
  <2>4. <<"rx", <<o, i>> >> \in Slots(p)
    BY <2>3 DEF Slots, RxSlots
  <2> QED
    BY <2>2, <2>4 DEF Occupant
<1>5. CASE \E q \in Ports : b = RingBuffer(q)
  <2>1. PICK q \in Ports : b = RingBuffer(q)
    BY <1>5
  <2>2. i \in 1 .. Len(ring[q]) /\ ring[q][i] = m
    BY <1>1, <1>3, <2>1, ContentsOf
  <2>3. i \in 1 .. RingSize
    <3>1. Len(ring[q]) <= RingSize /\ Len(ring[q]) \in Nat
      BY <1>1 DEF NoOverrun
    <3> QED
      BY <1>1, <2>2, <3>1
  <2>4. <<"ring", <<q, i>> >> \in Slots(p)
    BY <2>3 DEF Slots, RingSlots
  <2> QED
    BY <2>2, <2>4 DEF Occupant
<1>6. CASE \E o, q \in Ports : b = TxBuffer(o, q)
  <2>1. PICK o \in Ports, q \in Ports : b = TxBuffer(o, q)
    BY <1>6
  <2>2. i \in 1 .. Len(tx[o][q]) /\ tx[o][q][i] = m
    BY <1>1, <1>3, <2>1, ContentsOf
  <2>3. /\ Len(tx[o][q]) \in Nat /\ Len(tx[o][q]) <= K
        /\ Len(tx[o][q]) = K
             => pc[o] \in {"send", "burst"} /\ queue[o] = q
    BY <1>1 DEF NoOverrun
  <2>4. CASE i # K
    <3>1. i \in 1 .. K - 1
      BY <1>1, <2>2, <2>3, <2>4
    <3>2. <<"tx", << <<o, q>>, i>> >> \in Slots(p)
      BY <3>1 DEF Slots, TxSlots
    <3> QED
      BY <2>2, <3>2 DEF Occupant
  <2>5. CASE i = K
    <3>1. Len(tx[o][q]) = K
      BY <1>1, <2>2, <2>3, <2>5
    <3>2. queue[o] = q /\ o # p
      BY <2>3, <3>1
    <3>3. <<"last", o>> \in Slots(p)
      BY <3>2 DEF Slots, LastSlots
    <3> QED
      BY <2>2, <2>5, <3>2, <3>3 DEF Occupant
  <2> QED
    BY <2>4, <2>5
<1> QED
  BY <1>4, <1>5, <1>6, BuffersAre

\* An empty mempool with no mbuf lost means that the mempool is too small.
LEMMA EmptyPool ==
  ASSUME IInv, NoOverrun, pool = {}, lost = {},
         NEW p \in Ports, pc[p] = "actions"
  PROVE  /\ Cardinality(Mbufs) \in Nat /\ InUseAtMost \in Int
         /\ Cardinality(Mbufs) <= InUseAtMost
<1> DEFINE S == {s \in Slots(p) : Occupant(s) \in Mbufs}
           f == [s \in S |-> Occupant(s)]
<1>1. IsFiniteSet(S) /\ Cardinality(S) <= Cardinality(Slots(p))
  BY SlotsSize, FS_Subset
<1>2. f \in Surjection(S, Mbufs)
  <2>1. f \in [S -> Mbufs]
    OBVIOUS
  <2>2. ASSUME NEW m \in Mbufs PROVE \E s \in S : f[s] = m
    BY InASlot
  <2> QED
    BY <2>1, <2>2 DEF Surjection
<1>3. IsFiniteSet(Mbufs) /\ Cardinality(Mbufs) <= Cardinality(S)
  BY <1>1, <1>2, FS_Surjection
<1>4. Cardinality(S) \in Nat /\ Cardinality(Mbufs) \in Nat
  BY <1>1, <1>3, FS_CardinalityType
<1> QED
  BY <1>1, <1>3, <1>4, SlotsSize

LargeEnough == Complete(rules) /\ Cardinality(Mbufs) > InUseAtMost

NoneMissing ==
  /\ \A p, q \in Ports : tx[p][q] \in Seq(Mbufs)
  /\ lost = {}
  /\ fault # "null"

LEMMA NothingMissingIs == NothingMissing <=> (LargeEnough => NoneMissing)
BY DEF NothingMissing, LargeEnough, NoneMissing

\* The mempool is never empty when a worker asks it for an mbuf.
LEMMA PoolNotEmpty ==
  ASSUME IInv, NoOverrun, LargeEnough, NoneMissing,
         NEW p \in Ports, pc[p] = "actions"
  PROVE  pool # {}
<1> SUFFICES ASSUME pool = {} PROVE FALSE
  OBVIOUS
<1>1. /\ Cardinality(Mbufs) \in Nat /\ InUseAtMost \in Int
      /\ Cardinality(Mbufs) <= InUseAtMost
  BY EmptyPool DEF NoneMissing
<1> QED
  BY <1>1 DEF LargeEnough

\* A packet is never without a rule.
LEMMA NeverUnruled ==
  ASSUME IInv, RxIsLatest, Complete(rules), NEW p \in Ports
  PROVE  ~Unruled(p)
<1> SUFFICES ASSUME Unruled(p) PROVE FALSE
  OBVIOUS
<1> DEFINE c == frame[Head(rx[p])].class
<1>1. c # "unsupported" /\ <<p, c>> \notin DOMAIN rules
  BY DEF Unruled
<1>2. /\ c = arrived[p][Begun(p) + 1] /\ Begun(p) + 1 \in 1 .. Len(arrived[p])
  BY BegunGrows DEF Begins
<1>3. c \in Traffic
  BY <1>2, BegunType
<1> QED
  BY <1>1, <1>3 DEF Complete

LEMMA BufferKeepsMbufs ==
  ASSUME TypeOK, NoneMissing, NEW p \in Ports, NEW q \in Ports, NEW m \in Mbufs,
         Buffer(p, q, m)
  PROVE  \A o, d \in Ports : tx'[o][d] \in Seq(Mbufs)
<1>1. tx' = [tx EXCEPT ![p][q] = Append(@, m)]
  BY DEF Buffer
<1>2. Append(tx[p][q], m) \in Seq(Mbufs)
  BY DEF NoneMissing
<1>3. ASSUME NEW o \in Ports, NEW d \in Ports
      PROVE  tx'[o][d] = IF o = p /\ d = q THEN Append(tx[p][q], m) ELSE tx[o][d]
  BY <1>1 DEF TypeOK, Row
<1> QED
  BY <1>2, <1>3 DEF NoneMissing

LEMMA WorkerMissesNothing ==
  ASSUME IInv, NoOverrun, RxIsLatest, LargeEnough, NoneMissing,
         NEW p \in Ports, Worker(p)
  PROVE  NoneMissing'
<1>0. TypeOK /\ Control
  BY DEF IInv
<1>1. CASE Unruled(p)
  BY <1>1, NeverUnruled DEF LargeEnough
<1>2. CASE OutputNull(p)
  <2>1. pc[p] = "actions" /\ pool = {}
    BY <1>2 DEF OutputNull, Doing, At
  <2> QED
    BY <2>1, PoolNotEmpty
<1>3. CASE OutputCopy(p)
  <2>1. Head(todo[p]).port \in Ports
    <3>1. Head(todo[p]) \in ActionSet /\ Head(todo[p]).type = "OUTPUT"
      BY <1>0, <1>3 DEF OutputCopy, Doing, TypeOK
    <3> QED
      BY <3>1, ActionFacts
  <2>2. \E m \in Mbufs : Buffer(p, Head(todo[p]).port, m)
    BY <1>0, <1>3 DEF OutputCopy, TypeOK
  <2>3. \A o, d \in Ports : tx'[o][d] \in Seq(Mbufs)
    BY <1>0, <2>1, <2>2, BufferKeepsMbufs
  <2>4. UNCHANGED <<lost, fault>>
    BY <1>3 DEF OutputCopy, Doing, At
  <2> QED
    BY <2>3, <2>4 DEF NoneMissing
<1>4. CASE NullTxBurst(p)
  <2>1. queue[p] \in Ports
    BY <1>0, <1>4 DEF NullTxBurst, At, Control
  <2>2. Batch(p) \in Seq(Mbufs)
    BY <2>1 DEF Batch, NoneMissing
  <2>3. Taken(p) \in 0 .. Len(Batch(p))
    BY <1>0, <2>1, TakenFits
  <2>4. PICK i \in 1 .. Taken(p) : Batch(p)[i] = NoMbuf
    BY <1>4 DEF NullTxBurst, NullTaken
  <2>5. Batch(p)[i] \in Mbufs
    BY <2>2, <2>3
  <2> QED
    BY <2>4, <2>5, DataPlaneAssumption
<1>5. CASE RaceTxBurst(p)
  BY <1>5 DEF RaceTxBurst, NoneMissing
<1>6. CASE ReturnTxBurst(p) \/ FullTxBurst(p)
  <2>1. queue[p] \in Ports
    BY <1>0, <1>6 DEF ReturnTxBurst, FullTxBurst, At, Control
  <2>2. Batch(p) \in Seq(Mbufs)
    BY <2>1 DEF Batch, NoneMissing
  <2>3. \E s \in Seq(Mbufs) : tx' = [tx EXCEPT ![p][queue[p]] = s]
    <3>1. CASE FullTxBurst(p)
      <4>1. << >> \in Seq(Mbufs)
        OBVIOUS
      <4> QED
        BY <3>1, <4>1 DEF FullTxBurst
    <3>2. CASE ReturnTxBurst(p)
      <4>1. Taken(p) \in 1 .. Len(Batch(p))
        BY <1>0, <2>1, <3>2, TakenFacts DEF ReturnTxBurst
      <4>2. SubSeq(Batch(p), Taken(p) + 1, Len(Batch(p))) \in Seq(Mbufs)
        BY <2>2, <4>1
      <4>3. tx' = [tx EXCEPT ![p][queue[p]] =
                     SubSeq(Batch(p), Taken(p) + 1, Len(Batch(p)))]
        BY <3>2 DEF ReturnTxBurst, Batch
      <4> QED
        BY <4>2, <4>3
    <3> QED
      BY <1>6, <3>1, <3>2
  <2>4. PICK s \in Seq(Mbufs) : tx' = [tx EXCEPT ![p][queue[p]] = s]
    BY <2>3
  <2>5. ASSUME NEW o \in Ports, NEW d \in Ports
        PROVE  tx'[o][d] = IF o = p /\ d = queue[p] THEN s ELSE tx[o][d]
    BY <1>0, <2>4 DEF TypeOK, Row
  <2>6. UNCHANGED <<lost, fault>>
    BY <1>6 DEF ReturnTxBurst, FullTxBurst
  <2> QED
    BY <2>5, <2>6 DEF NoneMissing
<1>7. CASE \/ Loop(p) \/ Receive(p) \/ ProcessDone(p) \/ Unsupported(p)
           \/ Ruled(p) \/ Drop(p) \/ Push(p) \/ Finish(p) \/ CallTxBurst(p)
  <2>1. UNCHANGED <<tx, lost, fault>>
    BY <1>7 DEF Loop, Leave, BeginDrain, SkipDrain, DrainPort, EndDrain,
       Receive, RxOne, RxDone, ProcessDone, Unsupported, Ruled, Drop, Push,
       Finish, CallTxBurst
  <2> QED
    BY <2>1 DEF NoneMissing
<1> QED
  BY <1>1, <1>2, <1>3, <1>4, <1>5, <1>6, <1>7
     DEF Worker, Process, Execute, Send

LEMMA NextMissing ==
  IInv /\ NoOverrun /\ RxIsLatest /\ NothingMissing /\ [Next]_vars
    => NothingMissing'
<1> SUFFICES ASSUME IInv, NoOverrun, RxIsLatest, LargeEnough => NoneMissing,
                    [Next]_vars, LargeEnough'
             PROVE  NoneMissing'
  BY SMTT(40) DEF NothingMissing, LargeEnough, NoneMissing
<1>1. UNCHANGED rules
  BY ZenonT(40) DEF Next, Stopped, Sigint, Transmit, vars, Worker, Loop, Leave, BeginDrain,
     SkipDrain, DrainPort, EndDrain, Receive, RxOne, RxDone, Process,
     ProcessDone, Unsupported, Unruled, Ruled, Execute, Drop, Push, OutputCopy,
     OutputNull, Finish, Send, CallTxBurst, RaceTxBurst, NullTxBurst,
     ReturnTxBurst, FullTxBurst
<1>2. LargeEnough /\ NoneMissing
  BY <1>1 DEF LargeEnough, Complete
<1>3. CASE \E p \in Ports : Worker(p)
  BY <1>2, <1>3, WorkerMissesNothing
<1>4. CASE (\E q \in Ports : Transmit(q)) \/ Sigint \/ UNCHANGED vars
  <2>1. UNCHANGED <<tx, lost, fault>>
    BY <1>4 DEF Transmit, Sigint, vars
  <2> QED
    BY <1>2, <2>1 DEF NoneMissing
<1> QED
  BY <1>3, <1>4 DEF Next, Stopped

LEMMA InitMissing == Init => NothingMissing
<1> SUFFICES ASSUME Init PROVE NoneMissing
  BY NothingMissingIs
<1>1. << >> \in Seq(Mbufs)
  OBVIOUS
<1> QED
  BY <1>1 DEF Init, NoneMissing

\* CopyMbuf always finds an mbuf when the mempool holds more than can be in
\* full RX queues, buffers and rings, and when no rule is missing: the null
\* pointer it returns otherwise never reaches the driver.
THEOREM Pool == Spec => []PoolSuffices
<1>1. Init => NothingMissing
  BY InitMissing
<1>2. IInv /\ NoOverrun /\ RxIsLatest /\ NothingMissing /\ [Next]_vars
        => NothingMissing'
  BY NextMissing
<1>3. NothingMissing => PoolSuffices
  BY DEF NothingMissing, PoolSuffices
<1> QED
  BY <1>1, <1>2, <1>3, Arrays, LatestHolds, PTL DEF Spec

-----------------------------------------------------------------------------
(* Flattened sequences: what FlattenSeq gives, found step by step along the
   sequence, and Flat(g, s), what g gives for the elements of s in turn. *)

\* A set of natural numbers that is not empty has a least one.
LEMMA LeastElement ==
  ASSUME NEW S \in SUBSET Nat, S # {}
  PROVE  \E x \in S : \A y \in S : x <= y
<1>1. \E x \in S : \A y \in S : ~(<<y, x>> \in OpToRel(<, Nat))
  BY NatLessThanWellFounded, WFMin
<1>2. ASSUME NEW x \in S, NEW y \in S, ~(<<y, x>> \in OpToRel(<, Nat))
      PROVE  x <= y
  <2>1. <<y, x>> \in Nat \X Nat /\ <<y, x>>[1] = y /\ <<y, x>>[2] = x
    OBVIOUS
  <2>2. ~(y < x)
    BY <1>2, <2>1, Zenon DEF OpToRel
  <2> QED
    BY <2>2
<1> QED
  BY <1>1, <1>2

\* A number of which something holds that passes from each number below N to
\* the next is stated by the numbers it fails for: there is no first.
LEMMA NoFirst ==
  ASSUME NEW N \in Nat, NEW Fails \in SUBSET (0 .. N), 0 \notin Fails,
         \A n \in 1 .. N : n - 1 \notin Fails => n \notin Fails
  PROVE  Fails = {}
<1> SUFFICES ASSUME Fails # {} PROVE FALSE
  OBVIOUS
<1>1. Fails \in SUBSET Nat
  OBVIOUS
<1>3. PICK m \in Fails : \A x \in Fails : m <= x
  BY <1>1, LeastElement
<1>4. m \in 0 .. N /\ m # 0
  OBVIOUS
<1>5. m \in 1 .. N /\ ~(m <= m - 1)
  BY <1>4, SMTT(40)
<1>6. m - 1 \notin Fails
  BY <1>3, <1>5, SMTT(40)
<1> QED
  BY <1>5, <1>6

\* FlattenSeq has a value: were there a first length for which its recursion
\* has no solution, the solution for one less could be continued.
LEMMA FlattenIs ==
  ASSUME NEW seqs, NEW N \in Nat \ {0}, Len(seqs) = N
  PROVE  \E f : /\ f = [i \in 1 .. N |-> IF i = 1 THEN seqs[i] ELSE f[i - 1] \o seqs[i]]
                /\ FlattenSeq(seqs) = f[N]
<1> DEFINE Solves(f, k) ==
             f = [i \in 1 .. k |-> IF i = 1 THEN seqs[i] ELSE f[i - 1] \o seqs[i]]
           Unsolved == {k \in Nat : ~ \E f : Solves(f, k)}
<1>1. \A k \in Nat : \E f : Solves(f, k)
  <2> SUFFICES ASSUME Unsolved # {} PROVE FALSE
    OBVIOUS
  <2>1. PICK k \in Unsolved : \A y \in Unsolved : k <= y
    <3> Unsolved \in SUBSET Nat
      OBVIOUS
    <3> HIDE DEF Unsolved
    <3> QED
      BY LeastElement
  <2>2. CASE k = 0
    <3>1. Solves([i \in 1 .. 0 |-> << >>], 0)
      OBVIOUS
    <3> QED
      BY <2>1, <2>2, <3>1
  <2>3. CASE k # 0
    <3>1. k \in Nat /\ k - 1 \in Nat /\ k - 1 \notin Unsolved
      <4>1. k \in Nat
        OBVIOUS
      <4> HIDE DEF Unsolved
      <4> QED
        BY <2>1, <2>3, <4>1
    <3>2. PICK f : Solves(f, k - 1)
      BY <3>1
    <3> DEFINE g == [i \in 1 .. k |-> IF i < k THEN f[i]
                                      ELSE IF k = 1 THEN seqs[k]
                                      ELSE f[k - 1] \o seqs[k]]
    <3>3. \A i \in 1 .. k - 1 : g[i] = f[i]
      BY <3>1
    <3>4. \A i \in 1 .. k - 1 : f[i] = IF i = 1 THEN seqs[i] ELSE f[i - 1] \o seqs[i]
      BY <3>2
    <3>5. \A i \in 1 .. k : g[i] = IF i = 1 THEN seqs[i] ELSE g[i - 1] \o seqs[i]
      <4> TAKE i \in 1 .. k
      <4>1. CASE i = k
        <5>1. g[i] = IF k = 1 THEN seqs[k] ELSE f[k - 1] \o seqs[k]
          BY <3>1, <4>1
        <5>2. k # 1 => k - 1 \in 1 .. k - 1
          BY <2>3, <3>1
        <5> HIDE DEF g
        <5> QED
          BY <3>3, <4>1, <5>1, <5>2
      <4>2. CASE i # k
        <5>1. i \in 1 .. k - 1 /\ (i # 1 => i - 1 \in 1 .. k - 1)
          BY <3>1, <4>2
        <5> HIDE DEF g
        <5> QED
          BY <3>3, <3>4, <5>1
      <4> QED
        BY <4>1, <4>2
    <3>6. Solves(g, k)
      BY <3>5, Zenon
    <3> QED
      BY <2>1, <3>6
  <2> QED
    BY <2>2, <2>3
<1> DEFINE flatten == CHOOSE f : Solves(f, N)
<1>2. Solves(flatten, N)
  BY <1>1, Zenon
<1>3. FlattenSeq(seqs) = flatten[N]
  BY DEF FlattenSeq
<1> QED
  BY <1>2, <1>3, Zenon

\* The same, from the empty sequence on.
LEMMA FlattenSteps ==
  ASSUME NEW T, NEW s \in Seq(Seq(T))
  PROVE  \E f : /\ f[0] = << >>
                /\ \A n \in 1 .. Len(s) : f[n] = f[n - 1] \o s[n]
                /\ \A n \in 0 .. Len(s) : f[n] \in Seq(T)
                /\ FlattenSeq(s) = f[Len(s)]
<1> DEFINE N == Len(s)
<1>1. N \in Nat /\ \A n \in 1 .. N : s[n] \in Seq(T)
  BY LenProperties, ElementOfSeq
<1>2. \E f : /\ f[0] = << >>
             /\ \A n \in 1 .. N : f[n] = f[n - 1] \o s[n]
             /\ FlattenSeq(s) = f[N]
  <2>1. CASE N = 0
    <3>1. s = << >> /\ FlattenSeq(s) = s
      BY <2>1, EmptySeq DEF FlattenSeq
    <3> DEFINE f == [n \in 0 .. 0 |-> << >>]
    <3>2. f[0] = << >>
      OBVIOUS
    <3> HIDE DEF f
    <3> QED
      BY <2>1, <3>1, <3>2
  <2>2. CASE N # 0
    <3>1. N \in Nat \ {0}
      BY <1>1, <2>2
    <3>2. PICK g : /\ g = [i \in 1 .. N |-> IF i = 1 THEN s[i] ELSE g[i - 1] \o s[i]]
                   /\ FlattenSeq(s) = g[N]
      BY <3>1, FlattenIs
    <3> DEFINE f == [n \in 0 .. N |-> IF n = 0 THEN << >> ELSE g[n]]
    <3> HIDE DEF N
    <3>3. f[0] = << >> /\ \A n \in 1 .. N : f[n] = g[n]
      BY <3>1
    <3>4. \A n \in 1 .. N : g[n] = IF n = 1 THEN s[n] ELSE g[n - 1] \o s[n]
      BY <3>2
    <3> HIDE DEF f
    <3>5. ASSUME NEW n \in 1 .. N
          PROVE  f[n] = f[n - 1] \o s[n]
      <4>1. CASE n = 1
        <5>1. f[n] = s[n] /\ f[n - 1] = << >>
          BY <3>1, <3>3, <3>4, <4>1
        <5>2. << >> \o s[n] = s[n]
          BY <1>1, ConcatEmptySeq
        <5> QED
          BY <5>1, <5>2
      <4>2. CASE n # 1
        <5>1. n - 1 \in 1 .. N
          BY <3>1, <4>2
        <5> QED
          BY <3>3, <3>4, <4>2, <5>1
      <4> QED
        BY <4>1, <4>2
    <3>6. N \in 1 .. N
      BY <3>1
    <3> QED
      BY <3>2, <3>3, <3>5, <3>6
  <2> QED
    BY <2>1, <2>2
<1>3. PICK f : /\ f[0] = << >>
               /\ \A n \in 1 .. N : f[n] = f[n - 1] \o s[n]
               /\ FlattenSeq(s) = f[N]
  BY <1>2
<1> DEFINE Fails == {n \in 0 .. N : f[n] \notin Seq(T)}
<1>4. f[0] \in Seq(T)
  BY <1>3, EmptySeq
<1>5. ASSUME NEW n \in 1 .. N, f[n - 1] \in Seq(T)
      PROVE  f[n] \in Seq(T)
  BY <1>1, <1>3, <1>5, ConcatProperties
<1>6. Fails = {}
  <2>1. \A n \in 1 .. N : n - 1 \in 0 .. N /\ n \in 0 .. N
    BY <1>1
  <2>2. 0 \notin Fails /\ \A n \in 1 .. N : n - 1 \notin Fails => n \notin Fails
    BY <1>4, <1>5, <2>1
  <2>3. Fails \in SUBSET (0 .. N)
    OBVIOUS
  <2> HIDE DEF Fails, N
  <2> QED
    BY <1>1, <2>2, <2>3, NoFirst
<1> QED
  BY <1>3, <1>6

\* Appending a sequence appends it to the flattened one.
LEMMA FlattenAppend ==
  ASSUME NEW T, NEW s \in Seq(Seq(T)), NEW x \in Seq(T)
  PROVE  /\ FlattenSeq(s) \in Seq(T)
         /\ FlattenSeq(Append(s, x)) = FlattenSeq(s) \o x
<1> DEFINE N == Len(s)
           t == Append(s, x)
<1>1. /\ N \in Nat /\ t \in Seq(Seq(T)) /\ Len(t) = N + 1 /\ t[N + 1] = x
      /\ \A n \in 1 .. N : t[n] = s[n]
  BY LenProperties, AppendProperties
<1>2. PICK f : /\ f[0] = << >>
               /\ \A n \in 1 .. N : f[n] = f[n - 1] \o s[n]
               /\ \A n \in 0 .. N : f[n] \in Seq(T)
               /\ FlattenSeq(s) = f[N]
  BY FlattenSteps
<1> HIDE DEF t
<1>3. PICK g : /\ g[0] = << >>
               /\ \A n \in 1 .. Len(t) : g[n] = g[n - 1] \o t[n]
               /\ FlattenSeq(t) = g[Len(t)]
  BY <1>1, FlattenSteps
<1> DEFINE Fails == {n \in 0 .. N : f[n] # g[n]}
<1> HIDE DEF N
<1>4. ASSUME NEW n \in 1 .. N, f[n - 1] = g[n - 1]
      PROVE  f[n] = g[n]
  <2>1. n \in 1 .. Len(t)
    BY <1>1
  <2> QED
    BY <1>1, <1>2, <1>3, <1>4, <2>1
<1>5. Fails = {}
  <2>1. \A n \in 1 .. N : n - 1 \in 0 .. N /\ n \in 0 .. N
    BY <1>1
  <2>2. 0 \notin Fails /\ \A n \in 1 .. N : n - 1 \notin Fails => n \notin Fails
    BY <1>2, <1>3, <1>4, <2>1
  <2>3. Fails \in SUBSET (0 .. N)
    OBVIOUS
  <2> HIDE DEF Fails
  <2> QED
    BY <1>1, <2>2, <2>3, NoFirst
<1>6. N \in 0 .. N
  BY <1>1
<1>7. f[N] = g[N] /\ f[N] \in Seq(T)
  BY <1>2, <1>5, <1>6
<1>8. g[Len(t)] = g[N] \o x
  <2>1. PICK k : k = Len(t)
    OBVIOUS
  <2>2. k \in 1 .. Len(t) /\ k - 1 = N /\ t[k] = x
    BY <1>1, <2>1
  <2> QED
    BY <1>3, <2>1, <2>2
<1> QED
  BY <1>2, <1>3, <1>7, <1>8 DEF t

LEMMA Associative ==
  ASSUME NEW T, NEW s \in Seq(T), NEW t \in Seq(T), NEW u \in Seq(T)
  PROVE  (s \o t) \o u = s \o (t \o u)
BY ConcatAssociative

LEMMA AppendLater ==
  ASSUME NEW T, NEW s \in Seq(T), NEW t \in Seq(T), NEW x \in T
  PROVE  s \o Append(t, x) = Append(s \o t, x)
<1>1. s \o t \in Seq(T) /\ <<x>> \in Seq(T)
  BY ConcatProperties
<1>2. Append(t, x) = t \o <<x>> /\ Append(s \o t, x) = (s \o t) \o <<x>>
  BY <1>1, AppendIsConcat
<1>3. (s \o t) \o <<x>> = s \o (t \o <<x>>)
  BY <1>1, Associative
<1> QED
  BY <1>2, <1>3

LEMMA FlattenLonger ==
  ASSUME NEW T, NEW s \in Seq(Seq(T)), NEW u \in Seq(Seq(T)), NEW x \in Seq(T),
         FlattenSeq(s \o u) = FlattenSeq(s) \o FlattenSeq(u)
  PROVE  FlattenSeq(s \o Append(u, x)) = FlattenSeq(s) \o FlattenSeq(Append(u, x))
<1>1. s \o u \in Seq(Seq(T))
  BY ConcatProperties
<1>2. s \o Append(u, x) = Append(s \o u, x)
  BY AppendLater
<1>3. /\ FlattenSeq(Append(s \o u, x)) = FlattenSeq(s \o u) \o x
      /\ FlattenSeq(Append(u, x)) = FlattenSeq(u) \o x
      /\ FlattenSeq(u) \in Seq(T) /\ FlattenSeq(s) \in Seq(T)
  BY <1>1, FlattenAppend
<1>4. (FlattenSeq(s) \o FlattenSeq(u)) \o x = FlattenSeq(s) \o (FlattenSeq(u) \o x)
  BY <1>3, Associative, SMTT(40)
<1> QED
  BY <1>2, <1>3, <1>4

\* FlattenSeq of a concatenation is the concatenation.
LEMMA FlattenConcat ==
  ASSUME NEW T, NEW s \in Seq(Seq(T)), NEW t \in Seq(Seq(T))
  PROVE  FlattenSeq(s \o t) = FlattenSeq(s) \o FlattenSeq(t)
<1> DEFINE N == Len(t)
           b(n) == SubSeq(t, 1, n)
           Fails == {n \in 0 .. N :
                       FlattenSeq(s \o b(n)) # FlattenSeq(s) \o FlattenSeq(b(n))}
<1>1. N \in Nat
  BY LenProperties
<1>2. FlattenSeq(s) \in Seq(T) /\ FlattenSeq(<< >>) = << >>
  <2>1. << >> \in Seq(T)
    BY EmptySeq
  <2> QED
    BY <2>1, FlattenAppend, EmptySeq, Zenon DEF FlattenSeq
<1>3. b(0) = << >> /\ b(N) = t
  BY SubSeqEmpty, SubSeqFull
<1>4. 0 \notin Fails
  <2>1. s \o b(0) = s /\ FlattenSeq(s) \o FlattenSeq(b(0)) = FlattenSeq(s)
    BY <1>2, <1>3, ConcatEmptySeq
  <2> QED
    BY <2>1
<1>5. ASSUME NEW n \in 1 .. N,
             FlattenSeq(s \o b(n - 1)) = FlattenSeq(s) \o FlattenSeq(b(n - 1))
      PROVE  FlattenSeq(s \o b(n)) = FlattenSeq(s) \o FlattenSeq(b(n))
  <2>1. PICK u \in Seq(Seq(T)), x \in Seq(T) : b(n - 1) = u /\ b(n) = Append(u, x)
    <3>1. t[n] \in Seq(T)
      BY ElementOfSeq
    <3>2. b(n - 1) \in Seq(Seq(T)) /\ b(n) = Append(b(n - 1), t[n])
      <4>1. \A i \in 1 .. n - 1 : t[i] \in Seq(T)
        BY <1>1, ElementOfSeq
      <4>2. 1 \in Int /\ n - 1 \in Int
        BY <1>1
      <4>3. b(n - 1) \in Seq(Seq(T))
        BY <4>1, <4>2, SubSeqProperties
      <4>4. /\ 1 \in 1 .. n /\ n \in 1 .. Len(t)
        BY <1>1
      <4> QED
        BY <4>3, <4>4, SubSeqRecursiveSecond
    <3> QED
      BY <3>1, <3>2
  <2> HIDE DEF b
  <2> HIDE DEF Fails, N
  <2> QED
    BY <1>5, <2>1, FlattenLonger, ZenonT(40)
<1>6. Fails = {}
  <2>1. \A n \in 1 .. N : n - 1 \in 0 .. N /\ n \in 0 .. N
    BY <1>1
  <2>2. \A n \in 1 .. N : n - 1 \notin Fails => n \notin Fails
    BY <1>5, <2>1
  <2>3. Fails \in SUBSET (0 .. N)
    OBVIOUS
  <2> HIDE DEF Fails, N
  <2> QED
    BY <1>1, <1>4, <2>2, <2>3, NoFirst
<1>7. N \in 0 .. N /\ N \notin Fails
  BY <1>1, <1>6
<1> QED
  BY <1>3, <1>7, Zenon

\* The sequences over T, as the elements of a sequence.
Lists(T) == Seq(T)

LEMMA ListsAppend ==
  ASSUME NEW T, NEW s \in Seq(Lists(T)), NEW x \in Lists(T)
  PROVE  /\ FlattenSeq(s) \in Lists(T)
         /\ FlattenSeq(Append(s, x)) = FlattenSeq(s) \o x
BY FlattenAppend DEF Lists

LEMMA ListsConcat ==
  ASSUME NEW T, NEW s \in Seq(Lists(T)), NEW t \in Seq(Lists(T))
  PROVE  FlattenSeq(s \o t) = FlattenSeq(s) \o FlattenSeq(t)
BY FlattenConcat DEF Lists

LEMMA ListsSteps ==
  ASSUME NEW T, NEW s \in Seq(Lists(T))
  PROVE  \E f : /\ f[0] = << >>
                /\ \A n \in 1 .. Len(s) : f[n] = f[n - 1] \o s[n]
                /\ FlattenSeq(s) = f[Len(s)]
BY FlattenSteps DEF Lists

\* The sequences that g gives for the elements of s, put together.
Mapped(g, s) == [i \in DOMAIN s |-> g[s[i]]]
Flat(g, s) == FlattenSeq(Mapped(g, s))

LEMMA MappedIs ==
  ASSUME NEW S, NEW g, NEW s \in Seq(S)
  PROVE  /\ Len(Mapped(g, s)) = Len(s)
         /\ \A i \in 1 .. Len(s) : Mapped(g, s)[i] = g[s[i]]
<1>1. PICK n \in Nat : n = Len(s) /\ DOMAIN s = 1 .. n
  BY LenProperties
<1>2. Mapped(g, s) = [i \in 1 .. n |-> g[s[i]]]
  BY <1>1 DEF Mapped
<1>3. Len([i \in 1 .. n |-> g[s[i]]]) = n
  BY <1>1
<1> QED
  BY <1>1, <1>2, <1>3

LEMMA MappedType ==
  ASSUME NEW S, NEW T, NEW g \in [S -> Lists(T)], NEW s \in Seq(S)
  PROVE  Mapped(g, s) \in Seq(Lists(T)) /\ Flat(g, s) \in Lists(T)
<1>1. Len(s) \in Nat /\ DOMAIN s = 1 .. Len(s) /\ \A i \in 1 .. Len(s) : s[i] \in S
  BY LenProperties, ElementOfSeq
<1>2. PICK n \in Nat : n = Len(s)
  BY <1>1
<1>3. Mapped(g, s) \in [1 .. n -> Lists(T)]
  BY <1>1, <1>2 DEF Mapped
<1>4. Mapped(g, s) \in Seq(Lists(T))
  BY <1>2, <1>3, SeqDef
<1>5. FlattenSeq(Mapped(g, s)) \in Lists(T)
  <2>1. << >> \in Lists(T)
    BY EmptySeq DEF Lists
  <2> QED
    BY <1>4, <2>1, ListsAppend
<1> QED
  BY <1>4, <1>5, SMTT(40) DEF Flat

\* Mapping a concatenation.
LEMMA MappedConcat ==
  ASSUME NEW S, NEW T, NEW g \in [S -> Lists(T)], NEW s \in Seq(S), NEW t \in Seq(S)
  PROVE  Mapped(g, s \o t) = Mapped(g, s) \o Mapped(g, t)
<1>a. /\ s \o t \in Seq(S) /\ Len(s \o t) = Len(s) + Len(t)
      /\ \A i \in 1 .. Len(s) + Len(t) :
           (s \o t)[i] = IF i <= Len(s) THEN s[i] ELSE t[i - Len(s)]
  BY ConcatProperties
<1>b. PICK u \in Seq(S) :
        /\ u = s \o t /\ Len(u) = Len(s) + Len(t)
        /\ \A i \in 1 .. Len(s) + Len(t) :
             u[i] = IF i <= Len(s) THEN s[i] ELSE t[i - Len(s)]
  BY <1>a
<1>c. PICK a \in Seq(Lists(T)) : a = Mapped(g, s)
  <2>1. Mapped(g, s) \in Seq(Lists(T))
    BY MappedType
  <2> QED
    BY <2>1
<1>d. PICK b \in Seq(Lists(T)) : b = Mapped(g, t)
  <2>1. Mapped(g, t) \in Seq(Lists(T))
    BY MappedType
  <2> QED
    BY <2>1
<1>1. PICK m \in Nat, n \in Nat : m = Len(s) /\ n = Len(t)
  BY LenProperties
<1>2. PICK c \in Seq(Lists(T)) :
        c = Mapped(g, u) /\ Len(c) = m + n /\ \A i \in 1 .. m + n : c[i] = g[u[i]]
  <2>1. /\ Len(Mapped(g, u)) = Len(u)
        /\ \A i \in 1 .. Len(u) : Mapped(g, u)[i] = g[u[i]]
    BY MappedIs
  <2>2. Mapped(g, u) \in Seq(Lists(T))
    BY MappedType
  <2> QED
    BY <1>1, <1>b, <1>c, <1>d, <2>1, <2>2
<1>3. Len(a) = m /\ \A i \in 1 .. m : a[i] = g[s[i]]
  <2>1. /\ Len(Mapped(g, s)) = Len(s)
        /\ \A i \in 1 .. Len(s) : Mapped(g, s)[i] = g[s[i]]
    BY MappedIs
  <2>2. Mapped(g, s) \in Seq(Lists(T))
    BY MappedType
  <2> QED
    BY <1>1, <1>b, <1>c, <1>d, <2>1, <2>2
<1>4. Len(b) = n /\ \A i \in 1 .. n : b[i] = g[t[i]]
  <2>1. /\ Len(Mapped(g, t)) = Len(t)
        /\ \A i \in 1 .. Len(t) : Mapped(g, t)[i] = g[t[i]]
    BY MappedIs
  <2>2. Mapped(g, t) \in Seq(Lists(T))
    BY MappedType
  <2> QED
    BY <1>1, <1>b, <1>c, <1>d, <2>1, <2>2
<1>5. PICK d \in Seq(Lists(T)) :
        /\ d = a \o b /\ Len(d) = m + n
        /\ \A i \in 1 .. m + n : d[i] = IF i <= m THEN a[i] ELSE b[i - m]
  <2>1. /\ a \o b \in Seq(Lists(T)) /\ Len(a \o b) = Len(a) + Len(b)
        /\ \A i \in 1 .. Len(a) + Len(b) :
             (a \o b)[i] = IF i <= Len(a) THEN a[i] ELSE b[i - Len(a)]
    BY ConcatProperties
  <2> QED
    BY <1>3, <1>4, <2>1
<1>6. ASSUME NEW i \in 1 .. m + n
      PROVE  c[i] = d[i]
  <2>1. CASE i <= m
    <3>1. i \in 1 .. m
      BY <1>1, <2>1
    <3>2. u[i] = s[i] /\ d[i] = a[i]
      BY <1>1, <1>b, <1>5, <2>1
    <3> QED
      BY <1>2, <1>3, <3>1, <3>2
  <2>2. CASE ~(i <= m)
    <3>0. i - m \in 1 .. n
      BY <1>1, <2>2
    <3>1. PICK j \in 1 .. n : j = i - m
      BY <3>0
    <3>2. u[i] = t[j] /\ d[i] = b[j]
      BY <1>1, <1>b, <1>5, <2>2, <3>1
    <3> QED
      BY <1>2, <1>4, <3>1, <3>2
  <2> QED
    BY <2>1, <2>2
<1>7. c = d
  BY <1>2, <1>5, <1>6, SeqEqual
<1> QED
  BY <1>b, <1>c, <1>d, <1>2, <1>5, <1>7

\* Flat passes over a concatenation, element by element.
LEMMA FlatConcat ==
  ASSUME NEW S, NEW T, NEW g \in [S -> Lists(T)], NEW s \in Seq(S), NEW t \in Seq(S)
  PROVE  Flat(g, s \o t) = Flat(g, s) \o Flat(g, t)
<1>1. Mapped(g, s) \in Seq(Lists(T)) /\ Mapped(g, t) \in Seq(Lists(T))
  BY MappedType
<1>2. Mapped(g, s \o t) = Mapped(g, s) \o Mapped(g, t)
  BY MappedConcat
<1>3. FlattenSeq(Mapped(g, s) \o Mapped(g, t)) = FlattenSeq(Mapped(g, s)) \o FlattenSeq(Mapped(g, t))
  BY <1>1, ListsConcat
<1> QED
  BY <1>2, <1>3 DEF Flat

LEMMA FlatEmpty ==
  ASSUME NEW g
  PROVE  Flat(g, << >>) = << >>
<1>1. Mapped(g, << >>) = << >>
  BY DEF Mapped
<1> QED
  BY <1>1, EmptySeq DEF Flat, FlattenSeq

LEMMA FlatOne ==
  ASSUME NEW S, NEW T, NEW g \in [S -> Lists(T)], NEW x \in S
  PROVE  Flat(g, <<x>>) = g[x]
<1>1. <<x>> \in Seq(S) /\ Len(<<x>>) = 1 /\ <<x>>[1] = x
  OBVIOUS
<1>2. PICK y \in Lists(T) : y = g[x]
  OBVIOUS
<1>3. PICK u \in Seq(S) : u = <<x>> /\ Len(u) = 1 /\ u[1] = x
  BY <1>1
<1>4. Mapped(g, u) \in Seq(Lists(T)) /\ Len(Mapped(g, u)) = 1 /\ Mapped(g, u)[1] = y
  <2>1. /\ Len(Mapped(g, u)) = Len(u)
        /\ \A i \in 1 .. Len(u) : Mapped(g, u)[i] = g[u[i]]
    BY MappedIs
  <2>2. Mapped(g, u) \in Seq(Lists(T))
    BY MappedType
  <2> QED
    BY <1>2, <1>3, <2>1, <2>2
<1>5. /\ << >> \in Seq(Lists(T)) /\ Append(<< >>, y) \in Seq(Lists(T))
      /\ Len(Append(<< >>, y)) = 1 /\ Append(<< >>, y)[1] = y
  BY EmptySeq, AppendProperties
<1>6. Mapped(g, u) = Append(<< >>, y)
  BY <1>4, <1>5, SeqEqual
<1>7. FlattenSeq(<< >>) = << >>
  BY EmptySeq DEF FlattenSeq
<1>8. FlattenSeq(Append(<< >>, y)) = << >> \o y
  <2>1. PICK e \in Seq(Lists(T)) : e = << >>
    BY <1>5
  <2>2. FlattenSeq(Append(e, y)) = FlattenSeq(e) \o y
    BY ListsAppend
  <2> QED
    BY <1>7, <2>1, <2>2
<1>9. << >> \o y = y
  BY ConcatEmptySeq DEF Lists
<1> QED
  BY <1>2, <1>3, <1>6, <1>8, <1>9 DEF Flat

LEMMA FlatAppend ==
  ASSUME NEW S, NEW T, NEW g \in [S -> Lists(T)], NEW s \in Seq(S), NEW x \in S
  PROVE  Flat(g, Append(s, x)) = Flat(g, s) \o g[x]
<1>0. <<x>> \in Seq(S)
  OBVIOUS
<1>1. PICK u \in Seq(S) : u = <<x>>
  BY <1>0
<1>2. Append(s, x) = s \o u
  BY <1>1, AppendIsConcat
<1>3. Flat(g, s \o u) = Flat(g, s) \o Flat(g, u)
  BY FlatConcat
<1>4. Flat(g, <<x>>) = g[x]
  BY FlatOne
<1> QED
  BY <1>1, <1>2, <1>3, <1>4

LEMMA FlatHead ==
  ASSUME NEW S, NEW T, NEW g \in [S -> Lists(T)], NEW s \in Seq(S), s # << >>
  PROVE  Flat(g, s) = g[Head(s)] \o Flat(g, Tail(s))
<1>1. Head(s) \in S /\ Tail(s) \in Seq(S)
  BY HeadTailProperties
<1>2. PICK h \in S, r \in Seq(S) : h = Head(s) /\ r = Tail(s)
  BY <1>1
<1>0. <<h>> \in Seq(S) /\ s = <<h>> \o r
  BY <1>2
<1>3. PICK u \in Seq(S) : u = <<h>> /\ s = u \o r
  BY <1>0
<1>4. Flat(g, u \o r) = Flat(g, u) \o Flat(g, r)
  BY FlatConcat
<1>5. Flat(g, <<h>>) = g[h]
  BY FlatOne
<1> QED
  BY <1>2, <1>3, <1>4, <1>5

\* Only the elements that are there matter.
LEMMA FlatSame ==
  ASSUME NEW S, NEW s \in Seq(S), NEW g, NEW h,
         \A i \in 1 .. Len(s) : g[s[i]] = h[s[i]]
  PROVE  Flat(g, s) = Flat(h, s)
<1>1. DOMAIN s = 1 .. Len(s)
  BY LenProperties
<1>2. Mapped(g, s) = Mapped(h, s)
  BY <1>1 DEF Mapped
<1> QED
  BY <1>2 DEF Flat

LEMMA FlatNothing ==
  ASSUME NEW S, NEW T, NEW g \in [S -> Lists(T)], NEW s \in Seq(S),
         \A i \in 1 .. Len(s) : g[s[i]] = << >>
  PROVE  Flat(g, s) = << >>
<1> DEFINE N == Len(s)
<1>1. /\ N \in Nat /\ Mapped(g, s) \in Seq(Lists(T)) /\ Len(Mapped(g, s)) = N
      /\ \A i \in 1 .. N : Mapped(g, s)[i] = << >>
  <2>1. N \in Nat /\ Mapped(g, s) \in Seq(Lists(T))
    BY LenProperties, MappedType
  <2>2. /\ Len(Mapped(g, s)) = Len(s)
        /\ \A i \in 1 .. Len(s) : Mapped(g, s)[i] = g[s[i]]
    BY MappedIs
  <2> QED
    BY <2>1, <2>2
<1>2. PICK f : /\ f[0] = << >>
               /\ \A n \in 1 .. N : f[n] = f[n - 1] \o Mapped(g, s)[n]
               /\ Flat(g, s) = f[N]
  BY <1>1, ListsSteps DEF Flat
<1> DEFINE Fails == {n \in 0 .. N : f[n] # << >>}
<1>3. ASSUME NEW n \in 1 .. N, f[n - 1] = << >>
      PROVE  f[n] = << >>
  <2>1. f[n] = << >> \o << >>
    BY <1>1, <1>2, <1>3
  <2> QED
    BY <2>1
<1>4. Fails = {}
  <2>1. \A n \in 1 .. N : n - 1 \in 0 .. N /\ n \in 0 .. N
    BY <1>1
  <2>2. 0 \notin Fails /\ \A n \in 1 .. N : n - 1 \notin Fails => n \notin Fails
    BY <1>2, <1>3, <2>1
  <2>3. Fails \in SUBSET (0 .. N)
    OBVIOUS
  <2> HIDE DEF Fails, N
  <2> QED
    BY <1>1, <2>2, <2>3, NoFirst
<1>5. N \in 0 .. N /\ N \notin Fails
  BY <1>1, <1>4
<1> QED
  BY <1>2, <1>5

-----------------------------------------------------------------------------
(* What an action list emits, as its head is executed: DROP leaves it as it
   is, PUSH moves a tag into the frame, OUTPUT takes one copy off its front. *)

\* How often x is in s.
Times(s, x) == Cardinality({i \in DOMAIN s : s[i] = x})

LEMMA TimesIs ==
  ASSUME NEW S, NEW s \in Seq(S), s # << >>, NEW x
  PROVE  /\ Times(Tail(s), x) \in Nat
         /\ Head(s) = x => Times(s, x) = Times(Tail(s), x) + 1
         /\ Head(s) # x => Times(s, x) = Times(Tail(s), x)
<1>1. PICK n \in Nat : n = Len(Tail(s))
  BY LenProperties, HeadTailProperties
<1>2. /\ DOMAIN s = 1 .. n + 1 /\ DOMAIN Tail(s) = 1 .. n
      /\ s[1] = Head(s) /\ \A i \in 1 .. n : Tail(s)[i] = s[i + 1]
  BY <1>1, LenProperties, HeadTailProperties
<1> DEFINE T == {i \in 1 .. n : Tail(s)[i] = x}
           U == {i \in 2 .. n + 1 : s[i] = x}
           W == {i \in 1 .. n + 1 : s[i] = x}
           f == [i \in T |-> i + 1]
<1>3. IsFiniteSet(T)
  <2>1. IsFiniteSet(1 .. n) /\ T \in SUBSET (1 .. n)
    BY FS_Interval
  <2> QED
    BY <2>1, FS_Subset
<1>4. f \in Bijection(T, U)
  <2>1. f \in [T -> U] /\ \A i, j \in T : f[i] = f[j] => i = j
    BY <1>2
  <2>2. ASSUME NEW j \in U PROVE \E i \in T : f[i] = j
    <3>1. j - 1 \in 1 .. n /\ j = (j - 1) + 1
      OBVIOUS
    <3>2. Tail(s)[j - 1] = s[j]
      BY <1>2, <3>1
    <3>3. j - 1 \in T
      BY <3>1, <3>2
    <3> QED
      BY <3>1, <3>3
  <2> HIDE DEF T, U, f
  <2>3. f \in Injection(T, U)
    BY <2>1 DEF Injection, IsInjective
  <2>4. f \in Surjection(T, U)
    BY <2>1, <2>2 DEF Surjection
  <2> QED
    BY <2>3, <2>4 DEF Bijection
<1>5. IsFiniteSet(U) /\ Cardinality(U) = Cardinality(T) /\ Cardinality(T) \in Nat
  <2> HIDE DEF T, U, f
  <2>1. ExistsBijection(T, U)
    BY <1>4 DEF ExistsBijection
  <2> QED
    BY <1>3, <2>1, FS_Bijection, FS_CardinalityType
<1>6. /\ 1 \notin U
      /\ Head(s) = x => W = U \cup {1}
      /\ Head(s) # x => W = U
  BY <1>2
<1>7. Times(s, x) = Cardinality(W) /\ Times(Tail(s), x) = Cardinality(T)
  BY <1>2 DEF Times
<1> HIDE DEF T, U, W
<1>8. Cardinality(U \cup {1}) = Cardinality(U) + 1
  BY <1>5, <1>6, FS_AddElement
<1> QED
  BY <1>5, <1>6, <1>7, <1>8

LEMMA TimesNone == ASSUME NEW x PROVE Times(<< >>, x) = 0
<1>1. {i \in DOMAIN << >> : << >>[i] = x} = {}
  OBVIOUS
<1> QED
  BY <1>1, FS_EmptySet DEF Times

-----------------------------------------------------------------------------
(* What an action list pushes. *)

TagOf == [a \in ActionSet |-> IF a.type = "PUSH" THEN <<a.tag>> ELSE << >>]

LEMMA TagOfType == TagOf \in [ActionSet -> Lists(Tags)]
<1>1. ASSUME NEW a \in ActionSet
      PROVE  (IF a.type = "PUSH" THEN <<a.tag>> ELSE << >>) \in Lists(Tags)
  <2>1. a.type = "PUSH" => a.tag \in Tags
    BY DEF ActionSet, DROP, PUSH, OUTPUT
  <2> QED
    BY <2>1 DEF Lists
<1> QED
  BY <1>1 DEF TagOf

LEMMA PushedTagsIs ==
  ASSUME NEW a \in Seq(ActionSet)
  PROVE  PushedTags(a) = Flat(TagOf, a)
<1>1. \A i \in DOMAIN a : a[i] \in ActionSet
  BY LenProperties, ElementOfSeq
<1>2. Mapped(TagOf, a) = [i \in DOMAIN a |-> IF a[i].type = "PUSH" THEN <<a[i].tag>> ELSE << >>]
  BY <1>1 DEF Mapped, TagOf
<1> QED
  BY <1>2 DEF PushedTags, IsPush, Flat

LEMMA PushedTagsType ==
  ASSUME NEW a \in Seq(ActionSet)
  PROVE  PushedTags(a) \in Seq(Tags)
<1>1. Flat(TagOf, a) \in Lists(Tags)
  BY TagOfType, MappedType
<1> QED
  BY <1>1, PushedTagsIs DEF Lists

LEMMA PushedTagsHead ==
  ASSUME NEW a \in Seq(ActionSet), a # << >>
  PROVE  /\ Head(a) \in ActionSet /\ Tail(a) \in Seq(ActionSet)
         /\ PushedTags(Tail(a)) \in Seq(Tags)
         /\ Head(a).type = "PUSH" =>
              /\ Head(a).tag \in Tags
              /\ PushedTags(a) = <<Head(a).tag>> \o PushedTags(Tail(a))
         /\ Head(a).type # "PUSH" => PushedTags(a) = PushedTags(Tail(a))
<1>1. PICK h \in ActionSet, r \in Seq(ActionSet) : h = Head(a) /\ r = Tail(a)
  BY HeadTailProperties
<1>2. Flat(TagOf, a) = TagOf[Head(a)] \o Flat(TagOf, Tail(a))
  BY TagOfType, FlatHead
<1>3. PushedTags(a) = Flat(TagOf, a) /\ PushedTags(r) = Flat(TagOf, r)
  BY PushedTagsIs
<1>4. TagOf[h] = IF h.type = "PUSH" THEN <<h.tag>> ELSE << >>
  BY DEF TagOf
<1>5. PushedTags(r) \in Seq(Tags)
  BY PushedTagsType
<1>6. << >> \o PushedTags(r) = PushedTags(r)
  BY <1>5, ConcatEmptySeq
<1>7. h.type = "PUSH" => h.tag \in Tags
  BY DEF ActionSet, DROP, PUSH, OUTPUT
<1> QED
  BY <1>1, <1>2, <1>3, <1>4, <1>5, <1>6, <1>7

LEMMA PushedTagsNone == PushedTags(<< >>) = << >>
<1>1. << >> \in Seq(ActionSet)
  BY EmptySeq
<1>2. PushedTags(<< >>) = Flat(TagOf, << >>)
  BY <1>1, PushedTagsIs
<1> QED
  BY <1>2, FlatEmpty


-----------------------------------------------------------------------------
(* What an action list makes of a frame, and how often it sends it. *)

Sorted(a) ==
  \A i, j \in 1 .. Len(a) : i < j => Priority(a[i]) <= Priority(a[j])

LEMMA FrameFields ==
  ASSUME NEW f \in Frames
  PROVE  /\ f.src \in Ports /\ f.no \in Nat /\ f.class \in Classes /\ f.tags \in Seq(Tags)
         /\ f = [src |-> f.src, no |-> f.no, class |-> f.class, tags |-> f.tags]
  BY DEF Frames

LEMMA FirstOnes ==
  ASSUME NEW S, NEW s \in Seq(S), NEW t \in Seq(S), NEW n \in Nat, n = Len(s)
  PROVE  SubSeq(s \o t, 1, n) = s
<1>1. Len(t) \in Nat /\ \A i \in 1 .. n : s[i] \in S
  BY LenProperties, ElementOfSeq
<1>2. PICK u \in Seq(S) : u = s \o t /\ \A i \in 1 .. n : u[i] = s[i]
  <2>1. /\ s \o t \in Seq(S)
        /\ \A i \in 1 .. Len(s) + Len(t) :
             (s \o t)[i] = IF i <= Len(s) THEN s[i] ELSE t[i - Len(s)]
    BY ConcatProperties
  <2>2. \A i \in 1 .. n : i \in 1 .. Len(s) + Len(t) /\ i <= Len(s)
    BY <1>1
  <2> QED
    BY <2>1, <2>2
<1>3. \A i \in 1 .. n : u[i] \in S
  BY <1>1, <1>2
<1>4. /\ SubSeq(u, 1, n) \in Seq(S)
      /\ Len(SubSeq(u, 1, n)) = IF 1 <= n THEN n - 1 + 1 ELSE 0
      /\ \A i \in 1 .. n - 1 + 1 : SubSeq(u, 1, n)[i] = u[1 + i - 1]
  BY <1>3, SubSeqProperties
<1>5. Len(SubSeq(u, 1, n)) = n /\ \A i \in 1 .. n : SubSeq(u, 1, n)[i] = u[i]
  BY <1>4
<1>6. SubSeq(u, 1, n) = s
  <2>1. \A i \in 1 .. Len(s) : SubSeq(u, 1, n)[i] = s[i]
    BY <1>2, <1>5, SMTT(40)
  <2> QED
    BY <1>4, <1>5, <2>1, SeqEqual
<1> QED
  BY <1>2, <1>6

\* Where the headroom is used up, no more tags are pushed.
Cropped(tags) ==
  SubSeq(tags, 1, IF Len(tags) < Headroom THEN Len(tags) ELSE Headroom)

LEMMA ModifiedIs ==
  ASSUME NEW f, NEW a
  PROVE  Modified(f, a) = [f EXCEPT !.tags = Cropped(f.tags \o PushedTags(a))]
  BY SMTT(40) DEF Modified, Cropped

LEMMA CroppedType ==
  ASSUME NEW tags \in Seq(Tags)
  PROVE  /\ Cropped(tags) \in Seq(Tags)
         /\ Len(tags) <= Headroom => Cropped(tags) = tags
<1>1. /\ Len(tags) \in Nat /\ Headroom \in Nat
      /\ \A i \in 1 .. Len(tags) : tags[i] \in Tags
  BY RulesAssumption, LenProperties, ElementOfSeq
<1>2. PICK n \in Nat : /\ n = IF Len(tags) < Headroom THEN Len(tags) ELSE Headroom
                       /\ n <= Len(tags) /\ (Len(tags) <= Headroom => n = Len(tags))
  <2>1. CASE Len(tags) < Headroom
    BY <1>1, <2>1
  <2>2. CASE ~(Len(tags) < Headroom)
    BY <1>1, <2>2
  <2> QED
    BY <2>1, <2>2
<1>3. SubSeq(tags, 1, n) \in Seq(Tags)
  <2>1. \A i \in 1 .. n : tags[i] \in Tags
    BY <1>1, <1>2
  <2> QED
    BY <2>1, SubSeqProperties
<1>4. SubSeq(tags, 1, Len(tags)) = tags
  BY SubSeqFull
<1> QED
  BY <1>2, <1>3, <1>4 DEF Cropped

LEMMA ModifiedType ==
  ASSUME NEW f \in Frames, NEW a \in Seq(ActionSet)
  PROVE  Modified(f, a) \in Frames
<1>1. f.tags \in Seq(Tags) /\ PushedTags(a) \in Seq(Tags)
  BY FrameFields, PushedTagsType
<1>2. Cropped(f.tags \o PushedTags(a)) \in Seq(Tags)
  BY <1>1, ConcatProperties, CroppedType
<1> QED
  BY <1>2, ModifiedIs DEF Frames

\* Nothing is pushed any more.
LEMMA ModifiedAlready ==
  ASSUME NEW f \in Frames, Len(f.tags) <= Headroom, NEW a, PushedTags(a) = << >>
  PROVE  Modified(f, a) = f
<1>1. f.tags \in Seq(Tags)
  BY FrameFields
<1>2. f.tags \o << >> = f.tags
  BY <1>1, ConcatEmptySeq
<1>3. Cropped(f.tags) = f.tags
  BY <1>1, CroppedType
<1>4. [f EXCEPT !.tags = f.tags] = f
  BY DEF Frames
<1> QED
  BY <1>2, <1>3, <1>4, ModifiedIs

LEMMA CroppedStays ==
  ASSUME NEW s \in Seq(Tags), NEW t \in Seq(Tags), Len(s) = Headroom
  PROVE  Cropped(s \o t) = s
<1>1. PICK n \in Nat : n = Len(s)
  BY LenProperties
<1>2. Len(s \o t) \in Nat /\ ~(Len(s \o t) < n)
  <2>1. Len(s \o t) = Len(s) + Len(t) /\ Len(t) \in Nat
    BY LenProperties, ConcatProperties
  <2> QED
    BY <1>1, <2>1
<1>3. SubSeq(s \o t, 1, n) = s
  BY <1>1, FirstOnes
<1> QED
  BY <1>1, <1>2, <1>3 DEF Cropped

\* A push still to be executed, or already executed, gives the same frame.
LEMMA ModifiedPush ==
  ASSUME NEW f \in Frames, Len(f.tags) <= Headroom,
         NEW a \in Seq(ActionSet), a # << >>, Head(a).type = "PUSH"
  PROVE  /\ Modified(Pushed(f, Head(a).tag), Tail(a)) = Modified(f, a)
         /\ Pushed(f, Head(a).tag) \in Frames
         /\ Len(Pushed(f, Head(a).tag).tags) <= Headroom
         /\ Pushed(f, Head(a).tag).src = f.src
<1>1. PICK t \in Tags : t = Head(a).tag
  BY PushedTagsHead
<1>2. PICK more \in Seq(Tags) : more = PushedTags(Tail(a))
  BY PushedTagsHead
<1>3. PushedTags(a) = <<t>> \o more
  BY <1>1, <1>2, PushedTagsHead
<1>4. PICK old \in Seq(Tags) : old = f.tags
  BY FrameFields
<1>5. Len(old) \in Nat /\ Headroom \in Nat /\ Len(old) <= Headroom
  BY <1>4, RulesAssumption, LenProperties
<1>6. Modified(f, a) = [f EXCEPT !.tags = Cropped(old \o (<<t>> \o more))]
  BY <1>3, <1>4, ModifiedIs
<1>7. CASE Len(old) < Headroom
  <2>1. Pushed(f, t) = [f EXCEPT !.tags = Append(old, t)]
    BY <1>4, <1>7 DEF Pushed
  <2>2. Append(old, t) \in Seq(Tags) /\ Len(Append(old, t)) = Len(old) + 1
    BY AppendProperties
  <2>3. PICK g : g = Pushed(f, t)
    OBVIOUS
  <2>4. g \in Frames /\ g.tags = Append(old, t) /\ g.src = f.src
    BY <2>1, <2>2, <2>3 DEF Frames
  <2>5. Len(g.tags) <= Headroom
    BY <1>5, <1>7, <2>2, <2>4
  <2>6. Modified(g, Tail(a)) = [g EXCEPT !.tags = Cropped(Append(old, t) \o more)]
    BY <1>2, <2>4, ModifiedIs
  <2>7. Append(old, t) \o more = old \o (<<t>> \o more)
    <3>1. Append(old, t) = old \o <<t>>
      BY AppendIsConcat
    <3>2. <<t>> \in Seq(Tags)
      OBVIOUS
    <3>3. (old \o <<t>>) \o more = old \o (<<t>> \o more)
      BY <3>2, ConcatAssociative
    <3> QED
      BY <3>1, <3>3
  <2>8. \A c : [g EXCEPT !.tags = c] = [f EXCEPT !.tags = c]
    BY <2>1, <2>3 DEF Frames
  <2> QED
    BY <1>1, <1>6, <2>3, <2>4, <2>5, <2>6, <2>7, <2>8
<1>8. CASE ~(Len(old) < Headroom)
  <2>1. Pushed(f, t) = f
    BY <1>4, <1>8 DEF Pushed
  <2>2. Len(old) = Headroom
    BY <1>5, <1>8
  <2>3. Cropped(old \o more) = old
    BY <2>2, CroppedStays
  <2>4. <<t>> \o more \in Seq(Tags)
    <3>1. <<t>> \in Seq(Tags)
      OBVIOUS
    <3> QED
      BY <3>1, ConcatProperties
  <2>5. Cropped(old \o (<<t>> \o more)) = old
    BY <2>2, <2>4, CroppedStays
  <2>6. Modified(f, Tail(a)) = [f EXCEPT !.tags = Cropped(old \o more)]
    BY <1>2, <1>4, ModifiedIs
  <2> QED
    BY <1>1, <1>6, <2>1, <2>3, <2>5, <2>6
<1> QED
  BY <1>7, <1>8

LEMMA EmittedIs ==
  ASSUME NEW f, NEW a, NEW q
  PROVE  Emitted(f, a, q) = [i \in 1 .. Times(a, OUTPUT(q)) |-> Modified(f, a)]
  BY DEF Emitted, Times

LEMMA TimesType ==
  ASSUME NEW a \in Seq(ActionSet), NEW x
  PROVE  Times(a, x) \in Nat
<1>1. CASE a = << >>
  BY <1>1, TimesNone
<1>2. CASE a # << >>
  BY <1>2, TimesIs
<1> QED
  BY <1>1, <1>2

LEMMA EmittedType ==
  ASSUME NEW f \in Frames, NEW a \in Seq(ActionSet), NEW q
  PROVE  Emitted(f, a, q) \in Lists(Frames)
<1>1. Modified(f, a) \in Frames
  BY ModifiedType
<1>2. PICK n \in Nat : n = Times(a, OUTPUT(q))
  BY TimesType
<1>3. [i \in 1 .. n |-> Modified(f, a)] \in Seq(Frames)
  BY <1>1, <1>2, IsASeq
<1> QED
  BY <1>2, <1>3, EmittedIs DEF Lists

LEMMA EmittedNothing ==
  ASSUME NEW f, NEW q
  PROVE  Emitted(f, << >>, q) = << >>
<1>1. Times(<< >>, OUTPUT(q)) = 0
  BY TimesNone
<1>2. [i \in 1 .. 0 |-> Modified(f, << >>)] = << >>
  OBVIOUS
<1> QED
  BY <1>1, <1>2, EmittedIs

\* An action that sends nothing to q.
LEMMA EmittedSkips ==
  ASSUME NEW f, NEW g, NEW a \in Seq(ActionSet), a # << >>, NEW q, Head(a) # OUTPUT(q),
         Modified(g, Tail(a)) = Modified(f, a)
  PROVE  Emitted(g, Tail(a), q) = Emitted(f, a, q)
<1>1. Times(a, OUTPUT(q)) = Times(Tail(a), OUTPUT(q))
  BY TimesIs
<1> QED
  BY <1>1, EmittedIs

\* Nor does passing over a DROP.
LEMMA EmittedDrop ==
  ASSUME NEW f, NEW a \in Seq(ActionSet), a # << >>, NEW q, Head(a).type = "DROP"
  PROVE  Emitted(f, Tail(a), q) = Emitted(f, a, q)
<1>1. Head(a) # OUTPUT(q)
  BY DEF OUTPUT
<1>2. PushedTags(a) = PushedTags(Tail(a))
  BY PushedTagsHead
<1>3. Modified(f, Tail(a)) = Modified(f, a)
  BY <1>2, ModifiedIs
<1> QED
  BY <1>1, <1>3, EmittedSkips

\* Executing a push does not change what the list emits.
LEMMA EmittedPush ==
  ASSUME NEW f \in Frames, Len(f.tags) <= Headroom,
         NEW a \in Seq(ActionSet), a # << >>, Head(a).type = "PUSH", NEW q
  PROVE  Emitted(Pushed(f, Head(a).tag), Tail(a), q) = Emitted(f, a, q)
<1>1. Head(a) # OUTPUT(q)
  BY DEF OUTPUT
<1>2. Modified(Pushed(f, Head(a).tag), Tail(a)) = Modified(f, a)
  BY ModifiedPush
<1> QED
  BY <1>1, <1>2, EmittedSkips

\* The pushes are all done once an output is reached.
LEMMA PushesDone ==
  ASSUME NEW a \in Seq(ActionSet), Sorted(a), a # << >>, Head(a).type = "OUTPUT"
  PROVE  PushedTags(a) = << >> /\ PushedTags(Tail(a)) = << >>
<1>1. /\ Len(a) \in Nat /\ 1 \in 1 .. Len(a) /\ a[1] = Head(a)
      /\ \A i \in 1 .. Len(a) : a[i] \in ActionSet
  BY LenProperties, ElementOfSeq
<1>2. ASSUME NEW i \in 1 .. Len(a) PROVE TagOf[a[i]] = << >>
  <2>1. Priority(Head(a)) = 2
    BY DEF Priority
  <2>2. Priority(a[1]) <= Priority(a[i])
    BY <1>1 DEF Sorted, Priority
  <2>3. a[i].type # "PUSH"
    BY <1>1, <2>1, <2>2 DEF Priority
  <2> QED
    BY <1>1, <2>3 DEF TagOf
<1>3. Flat(TagOf, a) = << >>
  BY <1>2, TagOfType, FlatNothing
<1>4. PushedTags(a) = << >>
  BY <1>3, PushedTagsIs
<1> QED
  BY <1>4, PushedTagsHead

\* OUTPUT(q), once no push is left, is worth the frame as it is now.
LEMMA EmittedOutput ==
  ASSUME NEW f \in Frames, Len(f.tags) <= Headroom, NEW a \in Seq(ActionSet), Sorted(a),
         a # << >>, Head(a).type = "OUTPUT", NEW q \in Ports
  PROVE  /\ Emitted(f, Tail(a), q) \in Lists(Frames)
         /\ Head(a).port = q => Emitted(f, a, q) = <<f>> \o Emitted(f, Tail(a), q)
         /\ Head(a).port # q => Emitted(f, a, q) = Emitted(f, Tail(a), q)
<1>1. Modified(f, a) = f /\ Modified(f, Tail(a)) = f
  BY PushesDone, ModifiedAlready
<1>2. Tail(a) \in Seq(ActionSet) /\ Head(a) \in ActionSet
  BY HeadTailProperties
<1>3. Emitted(f, Tail(a), q) \in Lists(Frames)
  BY <1>2, EmittedType
<1>4. Head(a).port # q => Emitted(f, a, q) = Emitted(f, Tail(a), q)
  <2>1. Head(a).port # q => Head(a) # OUTPUT(q)
    BY DEF OUTPUT
  <2> QED
    BY <1>1, <2>1, EmittedSkips
<1>5. ASSUME Head(a).port = q PROVE Emitted(f, a, q) = <<f>> \o Emitted(f, Tail(a), q)
  <2>1. Head(a) = OUTPUT(q)
    BY <1>2, <1>5 DEF ActionSet, DROP, PUSH, OUTPUT
  <2>2. PICK n \in Nat : n = Times(Tail(a), OUTPUT(q))
    BY TimesIs
  <2>3. Times(a, OUTPUT(q)) = n + 1
    BY <2>1, <2>2, TimesIs
  <2>4. /\ Emitted(f, a, q) = [i \in 1 .. n + 1 |-> f]
        /\ Emitted(f, Tail(a), q) = [i \in 1 .. n |-> f]
    BY <1>1, <2>2, <2>3, EmittedIs
  <2>5. <<f>> \o [i \in 1 .. n |-> f] = [i \in 1 .. n + 1 |-> f]
    <3>1. PICK s \in Seq(Frames) : s = [i \in 1 .. n |-> f]
      <4>1. [i \in 1 .. n |-> f] \in Seq(Frames)
        BY IsASeq
      <4> QED
        BY <4>1
    <3>2. PICK t \in Seq(Frames) : t = [i \in 1 .. n + 1 |-> f]
      <4>1. n + 1 \in Nat
        OBVIOUS
      <4>2. [i \in 1 .. n + 1 |-> f] \in Seq(Frames)
        BY <4>1, IsASeq
      <4> QED
        BY <4>2
    <3>3. Len(s) = n /\ \A i \in 1 .. n : s[i] = f
      BY <3>1
    <3>4. Len(t) = n + 1 /\ \A i \in 1 .. n + 1 : t[i] = f
      BY <3>2
    <3>5. <<f>> \in Seq(Frames) /\ Len(<<f>>) = 1 /\ <<f>>[1] = f
      OBVIOUS
    <3>6. /\ <<f>> \o s \in Seq(Frames) /\ Len(<<f>> \o s) = n + 1
          /\ \A i \in 1 .. n + 1 : (<<f>> \o s)[i] = f
      <4>1. PICK one \in Seq(Frames) : one = <<f>> /\ Len(one) = 1 /\ one[1] = f
        BY <3>5
      <4>2. /\ one \o s \in Seq(Frames) /\ Len(one \o s) = Len(one) + Len(s)
            /\ \A i \in 1 .. Len(one) + Len(s) :
                 (one \o s)[i] = IF i <= Len(one) THEN one[i] ELSE s[i - Len(one)]
        BY ConcatProperties
      <4>3. \A i \in 1 .. n + 1 : (i <= 1 => i = 1) /\ (~(i <= 1) => i - 1 \in 1 .. n)
        OBVIOUS
      <4> QED
        BY <3>3, <4>1, <4>2, <4>3
    <3>7. <<f>> \o s = t
      BY <3>4, <3>6, SeqEqual
    <3> QED
      BY <3>1, <3>2, <3>7
  <2> QED
    BY <2>4, <2>5
<1> QED
  BY <1>3, <1>4, <1>5

-----------------------------------------------------------------------------
(* The parts of a channel as flattened sequences: Held(p) of an mbuf in a TX
   ring or buffer, Due(q) of one in an RX queue. *)

-----------------------------------------------------------------------------
(* The channels. *)

Data == Frames \cup {NoFrame}

Held(p) ==
  [m \in Cell |-> IF m # NoMbuf /\ frame[m].src = p THEN <<frame[m]>> ELSE << >>]

Due(q) ==
  [m \in Mbufs |-> IF frame[m] \in Frames
                   THEN Emitted(frame[m], ActionsFor(rules, frame[m]), q)
                   ELSE << >>]

LEMMA EmptyList == ASSUME NEW T PROVE << >> \in Lists(T)
  BY EmptySeq DEF Lists

LEMMA HeldType ==
  ASSUME TypeOK, NEW p
  PROVE  Held(p) \in [Cell -> Lists(Data)]
<1>1. ASSUME NEW m \in Cell
      PROVE  (IF m # NoMbuf /\ frame[m].src = p THEN <<frame[m]>> ELSE << >>) \in Lists(Data)
  <2>1. m # NoMbuf => frame[m] \in Data
    BY DEF TypeOK, Data, Cell
  <2> QED
    BY <2>1, EmptyList DEF Lists
<1> QED
  BY <1>1 DEF Held

LEMMA RuleOf ==
  ASSUME TypeOK, NEW f
  PROVE  ActionsFor(rules, f) \in Seq(ActionSet)
<1>1. << >> \in Seq(ActionSet)
  BY EmptySeq
<1> QED
  BY <1>1, TableFacts DEF ActionsFor

LEMMA DueType ==
  ASSUME TypeOK, NEW q
  PROVE  Due(q) \in [Mbufs -> Lists(Data)]
<1>1. ASSUME NEW m \in Mbufs
      PROVE  (IF frame[m] \in Frames
              THEN Emitted(frame[m], ActionsFor(rules, frame[m]), q)
              ELSE << >>) \in Lists(Data)
  <2>1. CASE frame[m] \in Frames
    <3>1. Emitted(frame[m], ActionsFor(rules, frame[m]), q) \in Lists(Frames)
      BY <2>1, RuleOf, EmittedType
    <3>2. Lists(Frames) \subseteq Lists(Data)
      BY DEF Lists, Data
    <3> QED
      BY <2>1, <3>1, <3>2
  <2>2. CASE frame[m] \notin Frames
    BY <2>2, EmptyList
  <2> QED
    BY <2>1, <2>2
<1> QED
  BY <1>1 DEF Due

LEMMA FramesOfIs ==
  ASSUME NEW p, NEW s \in Seq(Cell)
  PROVE  FramesOf(p, s) = Flat(Held(p), s)
<1>1. \A i \in DOMAIN s : s[i] \in Cell
  BY LenProperties, ElementOfSeq
<1>2. Mapped(Held(p), s)
        = [i \in DOMAIN s |-> IF s[i] # NoMbuf /\ frame[s[i]].src = p THEN <<frame[s[i]]>>
                                                                    ELSE << >>]
  BY <1>1 DEF Mapped, Held
<1> QED
  BY <1>2 DEF FramesOf, Flat

\* The packet in front of rx[p] is being processed.
InRx(p) == rx[p] # << >> /\ pc[p] \in {"actions", "send", "burst"}

\* What that packet still owes, and what it owes before it is.
FirstOwed(p, q) ==
  IF InRx(p) THEN Emitted(frame[Head(rx[p])], todo[p], q) ELSE Due(q)[Head(rx[p])]

\* The first packet has begun just when the worker is executing its actions.
LEMMA InRxIs ==
  ASSUME TypeOK, NEW p \in Ports
  PROVE  Len(arrived[p]) - Len(rx[p]) < Begun(p) <=> InRx(p)
<1>1. PICK b : b = Begun(p)
  OBVIOUS
<1>2. PICK n \in Int : n = Len(arrived[p]) - Len(rx[p])
  <2>1. Len(arrived[p]) \in Nat /\ Len(rx[p]) \in Nat
    BY LenProperties DEF TypeOK
  <2>2. Len(arrived[p]) - Len(rx[p]) \in Int
    BY <2>1
  <2> QED
    BY <2>2
<1>3. CASE InRx(p)
  <2>1. b = n + 1
    BY <1>1, <1>2, <1>3 DEF Begun, InRx
  <2>2. n < b
    BY <2>1
  <2> QED
    BY <1>1, <1>2, <1>3, <2>2, Zenon
<1>4. CASE ~InRx(p)
  <2>1. b = n + 0
    BY <1>1, <1>2, <1>4 DEF Begun, InRx
  <2>2. ~(n < b)
    BY <2>1
  <2> QED
    BY <1>1, <1>2, <1>4, <2>2, Zenon
<1> QED
  BY <1>3, <1>4

LEMMA RxIsLive ==
  ASSUME IInv, NEW p \in Ports, NEW i \in DOMAIN rx[p]
  PROVE  rx[p][i] \in Mbufs /\ frame[rx[p][i]] \in Frames
<1>0. TypeOK /\ OneOwner /\ Live
  BY DEF IInv
<1>1. rx[p][i] \in Mbufs
  BY <1>0, LenProperties, ElementOfSeq DEF TypeOK
<1>2. Contents[RxBuffer(p)] = rx[p] /\ RxBuffer(p) \in Buffers
  BY <1>0, ContentsOf
<1>3. RxBuffer(p) \in DOMAIN Contents
  BY <1>2 DEF Contents
<1>4. rx[p][i] \notin pool \cup lost
  BY <1>0, <1>2, <1>3 DEF OneOwner, Partition
<1> QED
  BY <1>0, <1>1, <1>4 DEF Live

LEMMA FlattenFirst ==
  ASSUME NEW T, NEW x \in Lists(T), NEW s \in Seq(Lists(T))
  PROVE  FlattenSeq(<<x>> \o s) = x \o FlattenSeq(s)
<1>1. PICK e \in Seq(Lists(T)) : e = << >>
  <2>1. << >> \in Seq(Lists(T))
    BY EmptySeq
  <2> QED
    BY <2>1
<1>2. FlattenSeq(Append(e, x)) = FlattenSeq(e) \o x
  BY ListsAppend
<1>3. FlattenSeq(e) = << >>
  BY <1>1, EmptySeq DEF FlattenSeq
<1>4. << >> \o x = x
  BY ConcatEmptySeq DEF Lists
<1>5. Append(e, x) = e \o <<x>> /\ <<x>> \in Seq(Lists(T))
  BY AppendIsConcat
<1>6. e \o <<x>> = <<x>>
  BY <1>1, <1>5, ConcatEmptySeq
<1>7. FlattenSeq(<<x>> \o s) = FlattenSeq(<<x>>) \o FlattenSeq(s)
  BY <1>5, ListsConcat
<1> QED
  BY <1>2, <1>3, <1>4, <1>5, <1>6, <1>7

\* What rx[p] owes is what its first packet owes, then what the others do.
LEMMA OwedIs ==
  ASSUME IInv, NEW p \in Ports, NEW q \in Ports
  PROVE  /\ rx[p] = << >> => Owed(p, q) = << >>
         /\ rx[p] # << >> =>
              /\ FirstOwed(p, q) \in Lists(Data)
              /\ Owed(p, q) = FirstOwed(p, q) \o Flat(Due(q), Tail(rx[p]))
<1>0. TypeOK /\ rx[p] \in Seq(Mbufs)
  BY DEF IInv, TypeOK
<1> DEFINE left(i) == IF i = 1 /\ InRx(p) THEN todo[p]
                                         ELSE ActionsFor(rules, frame[rx[p][i]])
           each == [i \in DOMAIN rx[p] |-> Emitted(frame[rx[p][i]], left(i), q)]
<1>1. Owed(p, q) = FlattenSeq(each)
  <2> DEFINE begun == Len(arrived[p]) - Len(rx[p]) < Begun(p)
             other(i) == IF i = 1 /\ begun THEN todo[p]
                                          ELSE ActionsFor(rules, frame[rx[p][i]])
  <2>1. Owed(p, q) = FlattenSeq([i \in DOMAIN rx[p] |-> Emitted(frame[rx[p][i]], other(i), q)])
    BY DEF Owed
  <2>2. begun <=> InRx(p)
    BY <1>0, InRxIs, ZenonT(40)
  <2> HIDE DEF begun
  <2>3. \A i : other(i) = left(i)
    BY <2>2
  <2> HIDE DEF other, left
  <2>4. [i \in DOMAIN rx[p] |-> Emitted(frame[rx[p][i]], other(i), q)] = each
    BY <2>3, Zenon
  <2> QED
    BY <2>1, <2>4
<1>2. ASSUME rx[p] = << >> PROVE Owed(p, q) = << >>
  <2>1. each = << >>
    BY <1>2
  <2> QED
    BY <1>1, <2>1, EmptySeq, Zenon DEF FlattenSeq
<1>3. ASSUME rx[p] # << >>
      PROVE  /\ FirstOwed(p, q) \in Lists(Data)
             /\ Owed(p, q) = FirstOwed(p, q) \o Flat(Due(q), Tail(rx[p]))
  <2>1. PICK n \in Nat : n = Len(Tail(rx[p]))
    BY <1>0, <1>3, LenProperties, HeadTailProperties
  <2>2. /\ DOMAIN rx[p] = 1 .. n + 1 /\ Tail(rx[p]) \in Seq(Mbufs)
        /\ rx[p][1] = Head(rx[p]) /\ Head(rx[p]) \in Mbufs
        /\ \A i \in 1 .. n : Tail(rx[p])[i] = rx[p][i + 1]
    BY <1>0, <1>3, <2>1, LenProperties, HeadTailProperties
  <2>3. \A i \in 1 .. n + 1 : rx[p][i] \in Mbufs /\ frame[rx[p][i]] \in Frames
    BY <2>2, RxIsLive
  <2>4. todo[p] \in Seq(ActionSet)
    BY <1>0 DEF TypeOK
  <2>5. FirstOwed(p, q) = Emitted(frame[rx[p][1]], left(1), q)
    <3>1. 1 \in 1 .. n + 1
      OBVIOUS
    <3> QED
      BY <2>2, <2>3, <3>1 DEF FirstOwed, Due
  <2>6. FirstOwed(p, q) \in Lists(Data)
    <3>1. 1 \in 1 .. n + 1 /\ left(1) \in Seq(ActionSet)
      BY <1>0, <2>4, RuleOf
    <3>2. Emitted(frame[rx[p][1]], left(1), q) \in Lists(Frames)
      BY <2>3, <3>1, EmittedType
    <3>3. Lists(Frames) \subseteq Lists(Data)
      BY DEF Lists, Data
    <3> QED
      BY <2>5, <3>2, <3>3
  <2>7. PICK rest \in Seq(Lists(Data)) : rest = Mapped(Due(q), Tail(rx[p]))
    <3>1. Mapped(Due(q), Tail(rx[p])) \in Seq(Lists(Data))
      BY <1>0, <2>2, DueType, MappedType
    <3> QED
      BY <3>1
  <2>8. Len(rest) = n /\ \A i \in 1 .. n : rest[i] = Emitted(frame[rx[p][i + 1]], left(i + 1), q)
    <3>g. PICK g : g = Due(q)
      OBVIOUS
    <3>r. PICK r \in Seq(Mbufs) : r = Tail(rx[p])
      BY <2>2
    <3>0. r = Tail(rx[p]) /\ g = Due(q)
      BY <3>g, <3>r
    <3>1. /\ Len(Mapped(g, r)) = Len(r)
          /\ \A i \in 1 .. Len(r) : Mapped(g, r)[i] = g[r[i]]
      BY MappedIs
    <3>2. ASSUME NEW i \in 1 .. n
          PROVE  rest[i] = Emitted(frame[rx[p][i + 1]], left(i + 1), q)
      <4>1. i + 1 \in 1 .. n + 1 /\ i + 1 # 1
        OBVIOUS
      <4>2. rest[i] = Due(q)[rx[p][i + 1]]
        BY <2>1, <2>2, <2>7, <3>0, <3>1
      <4>3. Due(q)[rx[p][i + 1]]
              = Emitted(frame[rx[p][i + 1]], ActionsFor(rules, frame[rx[p][i + 1]]), q)
        BY <2>3, <4>1 DEF Due
      <4> QED
        BY <4>1, <4>2, <4>3
    <3> QED
      BY <2>1, <2>7, <3>0, <3>1, <3>2
  <2>9. PICK x \in Lists(Data) : x = FirstOwed(p, q)
    BY <2>6
  <2>10. each = <<x>> \o rest
    <3>1. PICK one \in Seq(Lists(Data)) : one = <<x>> /\ Len(one) = 1 /\ one[1] = x
      <4>1. <<x>> \in Seq(Lists(Data)) /\ Len(<<x>>) = 1 /\ <<x>>[1] = x
        OBVIOUS
      <4> QED
        BY <4>1
    <3>2. /\ one \o rest \in Seq(Lists(Data)) /\ Len(one \o rest) = Len(one) + Len(rest)
          /\ \A i \in 1 .. Len(one) + Len(rest) :
               (one \o rest)[i] = IF i <= Len(one) THEN one[i] ELSE rest[i - Len(one)]
      BY ConcatProperties
    <3>3. PICK all \in Seq(Lists(Data)) : all = one \o rest
      BY <3>2
    <3>4. Len(all) = n + 1 /\ DOMAIN all = 1 .. n + 1
      BY <2>8, <3>1, <3>2, <3>3, LenProperties
    <3>5. ASSUME NEW i \in 1 .. n + 1
          PROVE  all[i] = Emitted(frame[rx[p][i]], left(i), q)
      <4>1. CASE i = 1
        <5>1. all[1] = x
          BY <2>8, <3>1, <3>2, <3>3
        <5> QED
          BY <2>5, <2>9, <4>1, <5>1
      <4>2. CASE i # 1
        <5>0. i - 1 \in 1 .. n /\ (i - 1) + 1 = i /\ ~(i <= 1)
          BY <4>2
        <5>1. PICK j \in 1 .. n : j = i - 1 /\ j + 1 = i
          BY <5>0
        <5>2. all[i] = rest[j]
          BY <2>8, <3>1, <3>2, <3>3, <5>0, <5>1
        <5>3. rest[j] = Emitted(frame[rx[p][j + 1]], left(j + 1), q)
          BY <2>8
        <5> QED
          BY <5>1, <5>2, <5>3
      <4> QED
        BY <4>1, <4>2
    <3>6. each = [i \in 1 .. n + 1 |-> Emitted(frame[rx[p][i]], left(i), q)]
      BY <2>2
    <3>7. all = [i \in 1 .. n + 1 |-> all[i]]
      BY <3>4, LenProperties
    <3> HIDE DEF left, each
    <3>8. all = each
      BY <3>5, <3>6, <3>7
    <3> QED
      BY <3>1, <3>3, <3>8
  <2>11. FlattenSeq(<<x>> \o rest) = x \o FlattenSeq(rest)
    BY FlattenFirst
  <2> HIDE DEF left, each
  <2> QED
    BY <1>1, <2>6, <2>7, <2>9, <2>10, <2>11 DEF Flat
<1> QED
  BY <1>2, <1>3

-----------------------------------------------------------------------------
(* A step leaves the frames of the mbufs it does not touch, so it leaves the
   parts of the channels they are in.  Carried is what more is needed: every
   mbuf in a queue of port p holds a frame of port p, with no more tags than
   the headroom, and the pushes of an action list come before its outputs. *)

-----------------------------------------------------------------------------
(* What a step leaves alone. *)

Used == Mbufs \ (pool \cup lost)

\* What a buffer holds is in use.
LEMMA BuffersHold ==
  ASSUME IInv, NEW p \in Ports, NEW q \in Ports
  PROVE  /\ rx[p] \in Seq(Used) /\ ring[q] \in Seq(Used)
         /\ tx[p][q] \in Seq(Used \cup {NoMbuf})
<1>0. TypeOK /\ OneOwner
  BY DEF IInv
<1>1. /\ RxBuffer(p) \in Buffers /\ Contents[RxBuffer(p)] = rx[p]
      /\ TxBuffer(p, q) \in Buffers /\ Contents[TxBuffer(p, q)] = tx[p][q]
      /\ RingBuffer(q) \in Buffers /\ Contents[RingBuffer(q)] = ring[q]
  BY ContentsOf
<1>2. DOMAIN Contents = Buffers
  BY DEF Contents
<1>3. \A b \in Buffers : \A i \in DOMAIN Contents[b] : Contents[b][i] \notin pool \cup lost
  BY <1>0, <1>2 DEF OneOwner, Partition
<1>4. ASSUME NEW T, NEW s \in Seq(T), NEW Out, \A i \in DOMAIN s : s[i] \notin Out
      PROVE  s \in Seq(T \ Out)
  <2>1. PICK n \in Nat : n = Len(s)
    BY LenProperties
  <2>2. s = [i \in 1 .. n |-> s[i]] /\ DOMAIN s = 1 .. n
    BY <2>1, LenProperties
  <2>3. \A i \in 1 .. n : s[i] \in T \ Out
    BY <1>4, <2>1, <2>2, ElementOfSeq
  <2> QED
    BY <2>2, <2>3, IsASeq
<1>5. rx[p] \in Seq(Mbufs) /\ ring[q] \in Seq(Mbufs) /\ tx[p][q] \in Seq(Cell)
  BY <1>0, BufferTyped DEF TypeOK
<1>6. rx[p] \in Seq(Mbufs \ (pool \cup lost)) /\ ring[q] \in Seq(Mbufs \ (pool \cup lost))
  BY <1>1, <1>3, <1>4, <1>5
<1>7. tx[p][q] \in Seq(Cell \ (pool \cup lost))
  BY <1>1, <1>3, <1>4, <1>5
<1>8. Cell \ (pool \cup lost) = Used \cup {NoMbuf}
  BY <1>0, DataPlaneAssumption DEF Cell, Used, TypeOK
<1> QED
  BY <1>6, <1>7, <1>8 DEF Used

Holding ==
  \A p, q \in Ports : /\ rx[p] \in Seq(Used) /\ ring[q] \in Seq(Used)
                      /\ tx[p][q] \in Seq(Used \cup {NoMbuf})

LEMMA AlwaysHold == IInv => Holding
  BY BuffersHold DEF Holding

LEMMA HoldAfter ==
  ASSUME IInv', NEW p \in Ports, NEW q \in Ports
  PROVE  /\ rx'[p] \in Seq(Used') /\ ring'[q] \in Seq(Used')
         /\ tx'[p][q] \in Seq(Used' \cup {NoMbuf})
<1>1. Holding'
  BY AlwaysHold, PTL
<1> QED
  BY <1>1 DEF Holding

\* The packet worker p is executing a push on, if it is.
Pushing(p) == IF Push(p) THEN {Head(rx[p])} ELSE {}

\* The frame of an mbuf in use changes only where PUSH writes into it.
LEMMA FrameStays ==
  ASSUME IInv, NEW p \in Ports, Worker(p) \/ Transmit(p),
         NEW m \in Used, m \in Used', m \notin Pushing(p)
  PROVE  frame'[m] = frame[m]
<1>0. TypeOK
  BY DEF IInv
<1>1. m \in Mbufs /\ m \notin pool /\ m \notin pool' /\ m \notin lost'
  BY DEF Used
<1>2. ASSUME NEW ms, Free(ms) PROVE frame'[m] = frame[m]
  BY <1>1, <1>2 DEF Free
<1>3. CASE Unsupported(p) \/ Finish(p) \/ FullTxBurst(p) \/ Transmit(p)
  BY <1>2, <1>3 DEF Unsupported, Finish, FullTxBurst, Transmit
<1>4. CASE Unruled(p)
  BY <1>0, <1>1, <1>4 DEF Unruled, TypeOK
<1>5. CASE RxOne(p) \/ OutputCopy(p)
  BY <1>0, <1>1, <1>5 DEF RxOne, OutputCopy, TypeOK
<1>6. CASE Push(p)
  BY <1>0, <1>1, <1>6 DEF Push, Pushing, TypeOK
<1>7. CASE \/ Loop(p) \/ RxDone(p) \/ ProcessDone(p) \/ Ruled(p) \/ Drop(p)
           \/ OutputNull(p) \/ CallTxBurst(p) \/ RaceTxBurst(p)
           \/ NullTxBurst(p) \/ ReturnTxBurst(p)
  <2>1. UNCHANGED frame
    BY <1>7 DEF Loop, Leave, BeginDrain, SkipDrain, DrainPort, EndDrain, RxDone,
       ProcessDone, Ruled, Drop, OutputNull, CallTxBurst, RaceTxBurst,
       NullTxBurst, ReturnTxBurst
  <2> QED
    BY <2>1
<1> QED
  BY <1>3, <1>4, <1>5, <1>6, <1>7 DEF Worker, Receive, Process, Execute, Send

\* Nothing but rx[p] holds the packet being pushed on, and that holds it once.
LEMMA PushingApart ==
  ASSUME IInv, NEW p \in Ports, NEW o \in Ports, NEW q \in Ports
  PROVE  /\ \A i \in 1 .. Len(ring[q]) : ring[q][i] \notin Pushing(p)
         /\ \A i \in 1 .. Len(tx[o][q]) : tx[o][q][i] \notin Pushing(p)
         /\ o # p => \A i \in 1 .. Len(rx[o]) : rx[o][i] \notin Pushing(p)
         /\ \A i \in 2 .. Len(rx[p]) : rx[p][i] \notin Pushing(p)
<1> SUFFICES ASSUME Push(p)
             PROVE  /\ \A i \in 1 .. Len(ring[q]) : ring[q][i] # Head(rx[p])
                    /\ \A i \in 1 .. Len(tx[o][q]) : tx[o][q][i] # Head(rx[p])
                    /\ o # p => \A i \in 1 .. Len(rx[o]) : rx[o][i] # Head(rx[p])
                    /\ \A i \in 2 .. Len(rx[p]) : rx[p][i] # Head(rx[p])
  BY DEF Pushing
<1>0. TypeOK /\ OneOwner /\ Control
  BY DEF IInv
<1>1. rx[p] \in Seq(Mbufs) /\ rx[o] \in Seq(Mbufs) /\ ring[q] \in Seq(Mbufs) /\ tx[o][q] \in Seq(Cell)
  BY <1>0, BufferTyped DEF TypeOK
<1>2. rx[p] # << >>
  BY <1>0 DEF Push, Doing, At, Control
<1>3. 1 \in DOMAIN rx[p] /\ rx[p][1] = Head(rx[p]) /\ Head(rx[p]) \in Mbufs
  BY <1>1, <1>2
<1>4. Head(rx[p]) # NoMbuf
  BY <1>3, DataPlaneAssumption
<1>5. /\ RxBuffer(p) \in Buffers /\ Contents[RxBuffer(p)] = rx[p]
      /\ RxBuffer(o) \in Buffers /\ Contents[RxBuffer(o)] = rx[o]
      /\ TxBuffer(o, q) \in Buffers /\ Contents[TxBuffer(o, q)] = tx[o][q]
      /\ RingBuffer(q) \in Buffers /\ Contents[RingBuffer(q)] = ring[q]
  BY ContentsOf
<1>6. /\ RxBuffer(p) # TxBuffer(o, q) /\ RxBuffer(p) # RingBuffer(q)
      /\ o # p => RxBuffer(p) # RxBuffer(o)
  BY DEF RxBuffer, TxBuffer, RingBuffer
<1>7. ASSUME NEW b \in Buffers, NEW j \in DOMAIN Contents[b], Contents[b][j] = Head(rx[p])
      PROVE  b = RxBuffer(p) /\ j = 1
  <2>1. DOMAIN Contents = Buffers
    BY DEF Contents
  <2> QED
    BY <1>0, <1>3, <1>4, <1>5, <1>7, <2>1 DEF OneOwner, Partition
<1>8. /\ DOMAIN rx[p] = 1 .. Len(rx[p]) /\ DOMAIN rx[o] = 1 .. Len(rx[o])
      /\ DOMAIN ring[q] = 1 .. Len(ring[q]) /\ DOMAIN tx[o][q] = 1 .. Len(tx[o][q])
  BY <1>1, LenProperties
<1>9. \A i \in 2 .. Len(rx[p]) : i \in DOMAIN rx[p] /\ i # 1
  BY <1>1
<1> QED
  BY <1>5, <1>6, <1>7, <1>8, <1>9

-----------------------------------------------------------------------------
(* A channel is what the ring holds, what the row holds, what is owed. *)

RingPart(o, d) == Flat(Held(o), ring[d])
TxPart(o, d) == Flat(Held(o), tx[o][d])
\* What the packet being processed owes to d, and what those behind it do.
BegunOwes(o, d) == Emitted(frame[Head(rx[o])], todo[o], d)
Later(o, d) == Flat(Due(d), Tail(rx[o]))

ChannelParts ==
  \A o, d \in Ports :
    /\ RingPart(o, d) \in Lists(Data) /\ TxPart(o, d) \in Lists(Data)
    /\ Owed(o, d) \in Lists(Data)
    /\ Copied(o, d) = RingPart(o, d) \o TxPart(o, d)
    /\ Channel(o, d) = Copied(o, d) \o Owed(o, d)

Owing ==
  \A o, d \in Ports :
    /\ ~InRx(o) => Owed(o, d) = Flat(Due(d), rx[o])
    /\ InRx(o) => Owed(o, d) = BegunOwes(o, d) \o Later(o, d)

LEMMA OwingAlways == IInv => Owing
<1> SUFFICES ASSUME IInv, NEW o \in Ports, NEW d \in Ports
             PROVE  /\ ~InRx(o) => Owed(o, d) = Flat(Due(d), rx[o])
                    /\ InRx(o) => Owed(o, d) = BegunOwes(o, d) \o Later(o, d)
  BY DEF Owing
<1>1. TypeOK /\ rx[o] \in Seq(Mbufs)
  BY DEF IInv, TypeOK
<1>2. ASSUME InRx(o) PROVE Owed(o, d) = BegunOwes(o, d) \o Later(o, d)
  <2>1. rx[o] # << >>
    BY <1>2 DEF InRx
  <2> QED
    BY <1>2, <2>1, OwedIs DEF FirstOwed, BegunOwes, Later
<1>3. ASSUME ~InRx(o) PROVE Owed(o, d) = Flat(Due(d), rx[o])
  <2>1. CASE rx[o] = << >>
    BY <2>1, OwedIs, FlatEmpty
  <2>2. CASE rx[o] # << >>
    <3>1. PICK g \in [Mbufs -> Lists(Data)], s \in Seq(Mbufs) : g = Due(d) /\ s = rx[o]
      <4>1. Due(d) \in [Mbufs -> Lists(Data)]
        BY <1>1, DueType
      <4> QED
        BY <1>1, <4>1
    <3>2. Flat(g, s) = g[Head(s)] \o Flat(g, Tail(s))
      BY <2>2, <3>1, FlatHead
    <3> QED
      BY <1>3, <2>2, <3>1, <3>2, OwedIs DEF FirstOwed
  <2> QED
    BY <2>1, <2>2
<1> QED
  BY <1>2, <1>3

LEMMA PartsAlways == IInv => ChannelParts
<1> SUFFICES ASSUME IInv, NEW o \in Ports, NEW d \in Ports
             PROVE  /\ RingPart(o, d) \in Lists(Data) /\ TxPart(o, d) \in Lists(Data)
                    /\ Owed(o, d) \in Lists(Data)
                    /\ Copied(o, d) = RingPart(o, d) \o TxPart(o, d)
                    /\ Channel(o, d) = Copied(o, d) \o Owed(o, d)
  BY DEF ChannelParts
<1>1. TypeOK
  BY DEF IInv
<1>2. ring[d] \in Seq(Cell) /\ tx[o][d] \in Seq(Cell) /\ rx[o] \in Seq(Mbufs)
  BY <1>1, BufferTyped, MbufsAreCells DEF TypeOK
<1>3. Held(o) \in [Cell -> Lists(Data)] /\ Due(d) \in [Mbufs -> Lists(Data)]
  BY <1>1, HeldType, DueType
<1>4. RingPart(o, d) \in Lists(Data)
  BY <1>2, <1>3, MappedType DEF RingPart
<1>5. TxPart(o, d) \in Lists(Data)
  BY <1>2, <1>3, MappedType DEF TxPart
<1>6. Owed(o, d) \in Lists(Data)
  <2>1. CASE rx[o] = << >>
    BY <2>1, OwedIs, EmptyList
  <2>2. CASE rx[o] # << >>
    <3>1. FirstOwed(o, d) \in Lists(Data) /\ Owed(o, d) = FirstOwed(o, d) \o Flat(Due(d), Tail(rx[o]))
      BY <2>2, OwedIs
    <3>2. Tail(rx[o]) \in Seq(Mbufs)
      BY <1>2, <2>2
    <3>3. Flat(Due(d), Tail(rx[o])) \in Lists(Data)
      BY <1>3, <3>2, MappedType
    <3>4. \A s, t \in Seq(Data) : s \o t \in Seq(Data)
      BY ConcatProperties
    <3> QED
      BY <3>1, <3>3, <3>4 DEF Lists
  <2> QED
    BY <2>1, <2>2
<1>7. FramesOf(o, ring[d]) = RingPart(o, d) /\ FramesOf(o, tx[o][d]) = TxPart(o, d)
  BY <1>2, FramesOfIs DEF RingPart, TxPart
<1> QED
  BY <1>4, <1>5, <1>6, <1>7 DEF Copied, Channel

LEMMA CellsOf ==
  ASSUME NEW s, s \in Seq(Used) \/ s \in Seq(Used \cup {NoMbuf})
  PROVE  /\ s \in Seq(Cell) /\ s \in Seq(Used \cup {NoMbuf})
         /\ \A i \in 1 .. Len(s) : s[i] = NoMbuf \/ s[i] \in Used
<1>1. \A T : Seq(Used) \subseteq Seq(Used \cup {NoMbuf})
  OBVIOUS
<1>2. s \in Seq(Used \cup {NoMbuf})
  BY <1>1
<1>3. Used \cup {NoMbuf} \subseteq Cell
  BY DEF Used, Cell
<1>4. s \in Seq(Cell)
  BY <1>2, <1>3
<1>5. \A i \in 1 .. Len(s) : s[i] \in Used \cup {NoMbuf}
  BY <1>2, ElementOfSeq
<1> QED
  BY <1>2, <1>4, <1>5

LEMMA HeldStays ==
  ASSUME IInv, NEW p \in Ports, Worker(p) \/ Transmit(p), NEW o,
         NEW s \in Seq(Used \cup {NoMbuf}), s \in Seq(Used' \cup {NoMbuf}),
         \A i \in 1 .. Len(s) : s[i] \notin Pushing(p)
  PROVE  Flat(Held(o)', s) = Flat(Held(o), s)
<1>1. PICK T : T = Used \cup {NoMbuf}
  OBVIOUS
<1>2. ASSUME NEW i \in 1 .. Len(s) PROVE Held(o)'[s[i]] = Held(o)[s[i]]
  <2>1. s[i] \in Used \cup {NoMbuf} /\ s[i] \in Used' \cup {NoMbuf}
    BY ElementOfSeq
  <2>2. s[i] \in Cell
    BY <2>1 DEF Used, Cell
  <2>3. CASE s[i] = NoMbuf
    BY <2>2, <2>3 DEF Held
  <2>4. CASE s[i] # NoMbuf
    <3>1. frame'[s[i]] = frame[s[i]]
      BY <2>1, <2>4, FrameStays
    <3> QED
      BY <2>2, <3>1 DEF Held
  <2> QED
    BY <2>3, <2>4
<1>3. PICK g, h : g = Held(o)' /\ h = Held(o)
  OBVIOUS
<1>4. Flat(g, s) = Flat(h, s)
  BY <1>2, <1>3, FlatSame
<1> QED
  BY <1>3, <1>4

LEMMA DueStays ==
  ASSUME IInv, NEW p \in Ports, Worker(p) \/ Transmit(p), UNCHANGED rules, NEW d,
         NEW s \in Seq(Used), s \in Seq(Used'),
         \A i \in 1 .. Len(s) : s[i] \notin Pushing(p)
  PROVE  Flat(Due(d)', s) = Flat(Due(d), s)
<1>2. ASSUME NEW i \in 1 .. Len(s) PROVE Due(d)'[s[i]] = Due(d)[s[i]]
  <2>1. s[i] \in Used /\ s[i] \in Used'
    BY ElementOfSeq
  <2>2. s[i] \in Mbufs
    BY <2>1 DEF Used
  <2>3. frame'[s[i]] = frame[s[i]]
    BY <2>1, FrameStays
  <2> QED
    BY <2>2, <2>3 DEF Due
<1>3. PICK g, h : g = Due(d)' /\ h = Due(d)
  OBVIOUS
<1>4. Flat(g, s) = Flat(h, s)
  BY <1>2, <1>3, FlatSame
<1> QED
  BY <1>3, <1>4

LEMMA RulesStay ==
  ASSUME NEW p \in Ports, Worker(p) \/ Transmit(p)
  PROVE  UNCHANGED rules
<1>1. CASE Loop(p)
  BY <1>1 DEF Loop, Leave, BeginDrain, SkipDrain, DrainPort, EndDrain
<1>2. CASE Receive(p)
  BY <1>2 DEF Receive, RxOne, RxDone
<1>3. CASE Process(p)
  BY <1>3 DEF Process, ProcessDone, Unsupported, Unruled, Ruled
<1>4. CASE Execute(p)
  BY <1>4 DEF Execute, Drop, Push, OutputCopy, OutputNull, Finish
<1>5. CASE Send(p)
  BY <1>5 DEF Send, CallTxBurst, RaceTxBurst, NullTxBurst, ReturnTxBurst, FullTxBurst
<1>6. CASE Transmit(p)
  BY <1>6 DEF Transmit
<1> QED
  BY <1>1, <1>2, <1>3, <1>4, <1>5, <1>6 DEF Worker

LEMMA RingStays ==
  ASSUME IInv, IInv', NEW p \in Ports, Worker(p) \/ Transmit(p),
         NEW o \in Ports, NEW d \in Ports, ring'[d] = ring[d]
  PROVE  RingPart(o, d)' = RingPart(o, d)
<1>1. ring[d] \in Seq(Used) /\ ring[d] \in Seq(Used')
  BY BuffersHold, HoldAfter
<1>2. ring[d] \in Seq(Used \cup {NoMbuf}) /\ ring[d] \in Seq(Used' \cup {NoMbuf})
  BY <1>1
<1>3. Flat(Held(o)', ring[d]) = Flat(Held(o), ring[d])
  BY <1>2, HeldStays, PushingApart
<1> QED
  BY <1>3 DEF RingPart

LEMMA TxStays ==
  ASSUME IInv, IInv', NEW p \in Ports, Worker(p) \/ Transmit(p),
         NEW o \in Ports, NEW d \in Ports, tx'[o][d] = tx[o][d]
  PROVE  TxPart(o, d)' = TxPart(o, d)
<1>1. tx[o][d] \in Seq(Used \cup {NoMbuf}) /\ tx[o][d] \in Seq(Used' \cup {NoMbuf})
  BY BuffersHold, HoldAfter
<1>2. Flat(Held(o)', tx[o][d]) = Flat(Held(o), tx[o][d])
  BY <1>1, HeldStays, PushingApart
<1> QED
  BY <1>2 DEF TxPart

\* What the packets behind the first one owe, when it stays and when it goes.
LEMMA LaterStays ==
  ASSUME IInv, IInv', NEW p \in Ports, Worker(p) \/ Transmit(p),
         NEW o \in Ports, NEW d \in Ports, rx[o] # << >>,
         rx'[o] = rx[o] \/ rx'[o] = Tail(rx[o])
  PROVE  Flat(Due(d)', Tail(rx[o])) = Later(o, d)
<1>1. rx[o] \in Seq(Used) /\ rx'[o] \in Seq(Used')
  BY BuffersHold, HoldAfter
<1>2. Tail(rx[o]) \in Seq(Used)
  BY <1>1
<1>3. Tail(rx[o]) \in Seq(Used')
  <2>1. PICK after \in Seq(Used') : after = rx'[o]
    BY <1>1
  <2>2. CASE rx'[o] = rx[o]
    <3>1. after # << >> /\ Tail(rx[o]) = Tail(after)
      BY <2>1, <2>2
    <3>2. Tail(after) \in Seq(Used')
      BY <3>1, HeadTailProperties
    <3> QED
      BY <3>1, <3>2
  <2>3. CASE rx'[o] = Tail(rx[o])
    BY <1>1, <2>3
  <2> QED
    BY <2>2, <2>3
<1>4. ASSUME NEW i \in 1 .. Len(Tail(rx[o])) PROVE Tail(rx[o])[i] \notin Pushing(p)
  <2>1. i + 1 \in 2 .. Len(rx[o]) /\ i + 1 \in 1 .. Len(rx[o]) /\ Tail(rx[o])[i] = rx[o][i + 1]
    BY <1>1
  <2> QED
    BY <2>1, PushingApart
<1> QED
  BY <1>2, <1>3, <1>4, DueStays, RulesStay DEF Later

LEMMA OwedStays ==
  ASSUME IInv, IInv', NEW p \in Ports, Worker(p) \/ Transmit(p),
         NEW o \in Ports, NEW d \in Ports, rx'[o] = rx[o], InRx(o)' <=> InRx(o),
         InRx(o) => BegunOwes(o, d)' = BegunOwes(o, d), ~InRx(o) => ~(Push(p) /\ o = p)
  PROVE  Owed(o, d)' = Owed(o, d)
<1>1. Owing /\ Owing'
  BY OwingAlways, PTL
<1>2. CASE InRx(o)
  <2>1. Owed(o, d) = BegunOwes(o, d) \o Later(o, d)
    BY <1>1, <1>2 DEF Owing
  <2>2. Owed(o, d)' = BegunOwes(o, d)' \o Later(o, d)'
    BY <1>1, <1>2 DEF Owing
  <2>3. rx[o] # << >>
    BY <1>2 DEF InRx
  <2>4. Flat(Due(d)', Tail(rx[o])) = Later(o, d)
    BY <2>3, LaterStays
  <2>5. Later(o, d)' = Flat(Due(d)', Tail(rx[o]))
    BY DEF Later
  <2> QED
    BY <1>2, <2>1, <2>2, <2>4, <2>5
<1>3. CASE ~InRx(o)
  <2>1. Owed(o, d) = Flat(Due(d), rx[o]) /\ Owed(o, d)' = Flat(Due(d)', rx[o])
    BY <1>1, <1>3 DEF Owing
  <2>2. rx[o] \in Seq(Used) /\ rx[o] \in Seq(Used')
    BY BuffersHold, HoldAfter
  <2>3. \A i \in 1 .. Len(rx[o]) : rx[o][i] \notin Pushing(p)
    <3>1. CASE o = p
      BY <1>3, <3>1 DEF Pushing
    <3>2. CASE o # p
      BY <3>2, PushingApart
    <3> QED
      BY <3>1, <3>2
  <2> QED
    BY <2>1, <2>2, <2>3, DueStays, RulesStay
<1> QED
  BY <1>2, <1>3

LEMMA BegunOwesStays ==
  ASSUME IInv, IInv', NEW p \in Ports, Worker(p) \/ Transmit(p),
         NEW o \in Ports, NEW d \in Ports, rx'[o] = rx[o], todo'[o] = todo[o], InRx(o),
         ~(Push(p) /\ o = p)
  PROVE  BegunOwes(o, d)' = BegunOwes(o, d)
<1>1. rx[o] \in Seq(Used) /\ rx[o] \in Seq(Used') /\ rx[o] # << >>
  BY BuffersHold, HoldAfter DEF InRx
<1>2. 1 \in 1 .. Len(rx[o]) /\ rx[o][1] = Head(rx[o]) /\ Head(rx[o]) \in Used /\ Head(rx[o]) \in Used'
  BY <1>1
<1>3. Head(rx[o]) \notin Pushing(p)
  <2>1. CASE o = p
    BY <2>1 DEF Pushing
  <2>2. CASE o # p
    BY <1>2, <2>2, PushingApart
  <2> QED
    BY <2>1, <2>2
<1>4. frame'[Head(rx[o])] = frame[Head(rx[o])]
  BY <1>2, <1>3, FrameStays
<1> QED
  BY <1>4 DEF BegunOwes

\* A worker does not change what another port's packets owe.
LEMMA OwedOfOthers ==
  ASSUME IInv, IInv', NEW p \in Ports, NEW o \in Ports, NEW d \in Ports,
         (Worker(p) /\ o # p) \/ Transmit(p)
  PROVE  Owed(o, d)' = Owed(o, d)
<1>1. TypeOK
  BY DEF IInv
<1>2. rx'[o] = rx[o] /\ pc'[o] = pc[o] /\ todo'[o] = todo[o]
  BY <1>1, OthersUntouched DEF Transmit
<1>3. Transmit(p) => ~Push(p)
  <2>1. ASSUME Transmit(p), Push(p) PROVE FALSE
    <3>1. ring[p] # << >> /\ ring[p] \in Seq(Mbufs) /\ ring' = [ring EXCEPT ![p] = Tail(@)] /\ ring' = ring
      BY <1>1, <2>1 DEF Transmit, Push, TypeOK
    <3>2. ring'[p] = Tail(ring[p])
      BY <1>1, <3>1 DEF TypeOK
    <3>3. Len(Tail(ring[p])) = Len(ring[p]) - 1
      BY <3>1, HeadTailProperties
    <3>4. PICK n \in Nat : n = Len(ring[p])
      BY <3>1, LenProperties
    <3>5. n = n - 1
      BY <3>1, <3>2, <3>3, <3>4
    <3> QED
      BY <3>5
  <2> QED
    BY <2>1
<1>4. InRx(o)' <=> InRx(o)
  BY <1>2 DEF InRx
<1>5. InRx(o) => BegunOwes(o, d)' = BegunOwes(o, d)
  BY <1>2, <1>3, BegunOwesStays
<1> QED
  BY <1>2, <1>3, <1>4, <1>5, OwedStays

-----------------------------------------------------------------------------
(* What the buffers carry. *)


RxCarried(p) ==
  \A i \in 1 .. Len(rx[p]) : /\ frame[rx[p][i]].src = p
                             /\ Len(frame[rx[p][i]].tags) <= Headroom
TxCarried(p, q) ==
  \A i \in 1 .. Len(tx[p][q]) : tx[p][q][i] = NoMbuf \/ frame[tx[p][q][i]].src = p

\* A worker's packets are of its own port, their tags fit the headroom, and
\* the actions left are pushes before outputs.
Carried ==
  \A p \in Ports : /\ RxCarried(p) /\ Sorted(todo[p])
                   /\ \A q \in Ports : TxCarried(p, q)

LEMMA RxCarriedStays ==
  ASSUME IInv, IInv', NEW p \in Ports, Worker(p) \/ Transmit(p),
         NEW o \in Ports, RxCarried(o), ~(Push(p) /\ o = p),
         \A i \in 1 .. Len(rx'[o]) : \E j \in 1 .. Len(rx[o]) : rx'[o][i] = rx[o][j]
  PROVE  RxCarried(o)'
<1>1. ASSUME NEW i \in 1 .. Len(rx'[o])
      PROVE  /\ frame'[rx'[o][i]].src = o
             /\ Len(frame'[rx'[o][i]].tags) <= Headroom
  <2>1. PICK j \in 1 .. Len(rx[o]) : rx'[o][i] = rx[o][j]
    OBVIOUS
  <2>2. rx[o][j] \in Used /\ rx[o][j] \in Used'
    <3>1. rx[o] \in Seq(Used) /\ rx'[o] \in Seq(Used')
      BY BuffersHold, HoldAfter
    <3> QED
      BY <2>1, <3>1, ElementOfSeq
  <2>3. rx[o][j] \notin Pushing(p)
    BY PushingApart DEF Pushing
  <2>4. frame'[rx[o][j]] = frame[rx[o][j]]
    BY <2>2, <2>3, FrameStays
  <2> QED
    BY <2>1, <2>4 DEF RxCarried
<1> QED
  BY <1>1 DEF RxCarried

LEMMA TxCarriedStays ==
  ASSUME IInv, IInv', NEW p \in Ports, Worker(p) \/ Transmit(p),
         NEW o \in Ports, NEW q \in Ports, TxCarried(o, q),
         \A i \in 1 .. Len(tx'[o][q]) : \E j \in 1 .. Len(tx[o][q]) : tx'[o][q][i] = tx[o][q][j]
  PROVE  TxCarried(o, q)'
<1>1. ASSUME NEW i \in 1 .. Len(tx'[o][q])
      PROVE  tx'[o][q][i] = NoMbuf \/ frame'[tx'[o][q][i]].src = o
  <2>1. PICK j \in 1 .. Len(tx[o][q]) : tx'[o][q][i] = tx[o][q][j]
    OBVIOUS
  <2>2. tx[o][q][j] \in Used \cup {NoMbuf} /\ tx[o][q][j] \in Used' \cup {NoMbuf}
    <3>1. tx[o][q] \in Seq(Used \cup {NoMbuf}) /\ tx'[o][q] \in Seq(Used' \cup {NoMbuf})
      BY BuffersHold, HoldAfter
    <3> QED
      BY <2>1, <3>1, ElementOfSeq
  <2>3. tx[o][q][j] \notin Pushing(p)
    BY PushingApart
  <2>4. tx[o][q][j] # NoMbuf => frame'[tx[o][q][j]] = frame[tx[o][q][j]]
    BY <2>2, <2>3, FrameStays
  <2> QED
    BY <2>1, <2>4 DEF TxCarried
<1> QED
  BY <1>1 DEF TxCarried

LEMMA SortedTail ==
  ASSUME NEW S, NEW a \in Seq(S), a # << >>, Sorted(a)
  PROVE  Sorted(Tail(a))
<1>1. \A i \in 1 .. Len(Tail(a)) : i + 1 \in 1 .. Len(a) /\ Tail(a)[i] = a[i + 1]
  OBVIOUS
<1>2. \A i, j \in 1 .. Len(Tail(a)) : i < j => i + 1 < j + 1
  BY LenProperties
<1> QED
  BY <1>1, <1>2 DEF Sorted

LEMMA SortedRule ==
  ASSUME TypeOK, NEW k \in DOMAIN rules
  PROVE  Sorted(rules[k])
  BY TableFacts DEF WellFormed, Sorted

LEMMA SortedStays ==
  ASSUME TypeOK, NEW p \in Ports, Worker(p) \/ Transmit(p), NEW o \in Ports, Sorted(todo[o])
  PROVE  Sorted(todo'[o])
<1>1. CASE Ruled(p)
  <2>1. PICK k \in DOMAIN rules : todo' = [todo EXCEPT ![p] = rules[k]]
    BY <1>1 DEF Ruled
  <2>2. Sorted(rules[k])
    BY SortedRule
  <2>3. todo'[o] = IF o = p THEN rules[k] ELSE todo[o]
    BY <2>1 DEF TypeOK
  <2> QED
    BY <2>2, <2>3
<1>2. CASE Drop(p) \/ Push(p) \/ OutputCopy(p) \/ OutputNull(p)
  <2>1. todo[p] # << >> /\ todo' = [todo EXCEPT ![p] = Tail(@)]
    BY <1>2 DEF Drop, Push, OutputCopy, OutputNull, Doing
  <2>2. todo'[o] = IF o = p THEN Tail(todo[p]) ELSE todo[o]
    BY <2>1 DEF TypeOK
  <2>3. todo[p] \in Seq(ActionSet)
    BY DEF TypeOK
  <2> QED
    BY <2>1, <2>2, <2>3, SortedTail
<1>3. CASE \/ Loop(p) \/ Receive(p) \/ ProcessDone(p) \/ Unsupported(p) \/ Unruled(p)
           \/ Finish(p) \/ Send(p) \/ Transmit(p)
  <2>1. todo' = todo
    BY <1>3 DEF Loop, Leave, BeginDrain, SkipDrain, DrainPort, EndDrain, Receive, RxOne, RxDone,
       ProcessDone, Unsupported, Unruled, Finish, Send, CallTxBurst, RaceTxBurst,
       NullTxBurst, ReturnTxBurst, FullTxBurst, Transmit
  <2> QED
    BY <2>1
<1> QED
  BY <1>1, <1>2, <1>3 DEF Worker, Process, Execute

LEMMA RxMoves ==
  ASSUME TypeOK, Control, NEW p \in Ports, Worker(p) \/ Transmit(p), ~RxOne(p), NEW o \in Ports
  PROVE  \/ rx'[o] = rx[o]
         \/ o = p /\ rx[o] # << >> /\ rx'[o] = Tail(rx[o])
<1>1. CASE Unsupported(p) \/ Unruled(p) \/ Finish(p)
  <2>1. rx[p] # << >> /\ rx' = [rx EXCEPT ![p] = Tail(@)]
    BY <1>1 DEF Unsupported, Unruled, Finish, At, Control
  <2> QED
    BY <2>1 DEF TypeOK
<1>2. CASE \/ Loop(p) \/ RxDone(p) \/ ProcessDone(p) \/ Ruled(p) \/ Drop(p) \/ Push(p)
           \/ OutputCopy(p) \/ OutputNull(p) \/ Send(p) \/ Transmit(p)
  <2>1. rx' = rx
    BY <1>2 DEF Loop, Leave, BeginDrain, SkipDrain, DrainPort, EndDrain, RxDone,
       ProcessDone, Ruled, Drop, Push, OutputCopy, OutputNull, Send, CallTxBurst,
       RaceTxBurst, NullTxBurst, ReturnTxBurst, FullTxBurst, Transmit
  <2> QED
    BY <2>1
<1> QED
  BY <1>1, <1>2 DEF Worker, Receive, Process, Execute

\* The worker sends a copy, or the null pointer, to the buffer of port q.
LEMMA BufferedIs ==
  ASSUME TypeOK, NEW p \in Ports, OutputCopy(p) \/ OutputNull(p)
  PROVE  /\ Head(todo[p]).port \in Ports
         /\ \E m \in Cell :
              /\ OutputCopy(p) => /\ m \in pool /\ pool' = pool \ {m}
                                  /\ frame' = [frame EXCEPT ![m] = frame[Head(rx[p])]]
              /\ ~OutputCopy(p) => m = NoMbuf /\ frame' = frame /\ pool = {} /\ pool' = pool
              /\ Buffer(p, Head(todo[p]).port, m)
              /\ \A o, q \in Ports :
                   tx'[o][q] = IF o = p /\ q = Head(todo[p]).port THEN Append(tx[o][q], m)
                                                                  ELSE tx[o][q]
<1>1. Head(todo[p]) \in ActionSet /\ Head(todo[p]).type = "OUTPUT"
  BY DEF OutputCopy, OutputNull, Doing, TypeOK
<1>2. PICK d \in Ports : d = Head(todo[p]).port
  BY <1>1, ActionFacts
<1>3. PICK m \in Cell :
              /\ OutputCopy(p) => /\ m \in pool /\ pool' = pool \ {m}
                                  /\ frame' = [frame EXCEPT ![m] = frame[Head(rx[p])]]
              /\ ~OutputCopy(p) => m = NoMbuf /\ frame' = frame /\ pool = {} /\ pool' = pool
              /\ Buffer(p, d, m)
  <2>1. CASE OutputCopy(p)
    <3>1. PICK m \in pool : /\ pool' = pool \ {m} /\ frame' = [frame EXCEPT ![m] = frame[Head(rx[p])]]
                            /\ Buffer(p, d, m)
      BY <1>2, <2>1 DEF OutputCopy
    <3>2. m \in Cell
      BY DEF TypeOK, Cell
    <3> QED
      BY <2>1, <3>1, <3>2
  <2>2. CASE ~OutputCopy(p)
    <3>1. NoMbuf \in Cell /\ Buffer(p, d, NoMbuf) /\ frame' = frame /\ pool = {} /\ pool' = pool
      BY <1>2, <2>2 DEF OutputNull, Cell
    <3> QED
      BY <2>2, <3>1
  <2> QED
    BY <2>1, <2>2
<1>4. ASSUME NEW o \in Ports, NEW q \in Ports
      PROVE  tx'[o][q] = IF o = p /\ q = d THEN Append(tx[o][q], m) ELSE tx[o][q]
  <2>1. tx' = [tx EXCEPT ![p][d] = Append(@, m)]
    BY <1>3 DEF Buffer
  <2> QED
    BY <2>1 DEF TypeOK, Row
<1> QED
  BY <1>2, <1>3, <1>4

\* tx_burst took the first mbufs of the batch, or SendAllPackets gave up.
LEMMA Bursts ==
  ASSUME IInv, NEW p \in Ports, ReturnTxBurst(p) \/ FullTxBurst(p)
  PROVE  /\ queue[p] \in Ports /\ Batch(p) = tx[p][queue[p]] /\ Batch(p) \in Seq(Cell)
         /\ ReturnTxBurst(p) => /\ Taken(p) \in 1 .. Len(Batch(p))
                                /\ SubSeq(Batch(p), 1, Taken(p)) \in Seq(Mbufs)
         /\ \A o, q \in Ports :
              /\ tx'[o][q] = IF o = p /\ q = queue[p]
                             THEN IF ReturnTxBurst(p)
                                  THEN SubSeq(Batch(p), Taken(p) + 1, Len(Batch(p))) ELSE << >>
                             ELSE tx[o][q]
              /\ ring'[q] = IF q = queue[p] /\ ReturnTxBurst(p)
                            THEN ring[q] \o SubSeq(Batch(p), 1, Taken(p)) ELSE ring[q]
<1>0. TypeOK /\ Control
  BY DEF IInv
<1>1. queue[p] \in Ports
  BY <1>0 DEF Control, ReturnTxBurst, FullTxBurst, At
<1>2. Batch(p) = tx[p][queue[p]] /\ Batch(p) \in Seq(Cell)
  BY <1>0, <1>1, BufferTyped DEF Batch
<1>3. ReturnTxBurst(p) => Taken(p) \in 1 .. Len(Batch(p))
  BY <1>0, <1>1, TakenFacts DEF ReturnTxBurst
<1>4. ReturnTxBurst(p) => SubSeq(Batch(p), 1, Taken(p)) \in Seq(Mbufs)
  <2> SUFFICES ASSUME ReturnTxBurst(p) PROVE SubSeq(Batch(p), 1, Taken(p)) \in Seq(Mbufs)
    OBVIOUS
  <2>1. PICK t \in Nat : t = Taken(p) /\ t \in 1 .. Len(Batch(p))
    BY <1>3
  <2>2. SubSeq(Batch(p), 1, t) = [i \in 1 .. t |-> Batch(p)[i]]
    BY <1>2, <2>1
  <2>3. \A i \in 1 .. t : Batch(p)[i] # NoMbuf
    BY <2>1 DEF ReturnTxBurst, NullTaken
  <2>4. \A i \in 1 .. t : Batch(p)[i] \in Cell
    BY <1>2, <2>1, ElementOfSeq
  <2>5. \A i \in 1 .. t : Batch(p)[i] \in Mbufs
    BY <2>3, <2>4 DEF Cell
  <2> QED
    BY <2>1, <2>2, <2>5, IsASeq
<1>6. ASSUME NEW o \in Ports, NEW q \in Ports
      PROVE  /\ tx'[o][q] = IF o = p /\ q = queue[p]
                            THEN IF ReturnTxBurst(p)
                                 THEN SubSeq(Batch(p), Taken(p) + 1, Len(Batch(p))) ELSE << >>
                            ELSE tx[o][q]
             /\ ring'[q] = IF q = queue[p] /\ ReturnTxBurst(p)
                           THEN ring[q] \o SubSeq(Batch(p), 1, Taken(p)) ELSE ring[q]
  <2>1. CASE ReturnTxBurst(p)
    <3>1. /\ tx' = [tx EXCEPT ![p][queue[p]] = SubSeq(Batch(p), Taken(p) + 1, Len(Batch(p)))]
          /\ ring' = [ring EXCEPT ![queue[p]] = ring[queue[p]] \o SubSeq(Batch(p), 1, Taken(p))]
      BY <1>0, <1>1, <1>2, <2>1 DEF ReturnTxBurst, TypeOK, Row
    <3> QED
      BY <1>0, <1>1, <2>1, <3>1 DEF TypeOK, Row
  <2>2. CASE ~ReturnTxBurst(p)
    <3>1. tx' = [tx EXCEPT ![p][queue[p]] = << >>] /\ ring' = ring
      BY <2>2 DEF FullTxBurst
    <3> QED
      BY <1>0, <1>1, <2>2, <3>1 DEF TypeOK, Row
  <2> QED
    BY <2>1, <2>2
<1> QED
  BY <1>1, <1>2, <1>3, <1>4, <1>6

\* The other steps leave the rows of port_tx_table_ alone.
LEMMA RowsStay ==
  ASSUME NEW p \in Ports, Worker(p) \/ Transmit(p),
         ~(OutputCopy(p) \/ OutputNull(p) \/ ReturnTxBurst(p) \/ FullTxBurst(p))
  PROVE  tx' = tx /\ (ring' = ring \/ Transmit(p))
<1>1. CASE Loop(p)
  BY <1>1 DEF Loop, Leave, BeginDrain, SkipDrain, DrainPort, EndDrain
<1>2. CASE Receive(p)
  BY <1>2 DEF Receive, RxOne, RxDone
<1>3. CASE Process(p)
  BY <1>3 DEF Process, ProcessDone, Unsupported, Unruled, Ruled
<1>4. CASE Execute(p)
  BY <1>4 DEF Execute, Drop, Push, Finish
<1>5. CASE Send(p)
  BY <1>5 DEF Send, CallTxBurst, RaceTxBurst, NullTxBurst
<1>6. CASE Transmit(p)
  BY <1>6 DEF Transmit
<1> QED
  BY <1>1, <1>2, <1>3, <1>4, <1>5, <1>6 DEF Worker

\* The frame that RxOne delivers.
LEMMA ReceivedIs ==
  ASSUME TypeOK, NEW p \in Ports, RxOne(p)
  PROVE  \E m \in pool, class \in Traffic :
           LET f == [src |-> p, no |-> Len(arrived[p]) + 1, class |-> class, tags |-> << >>]
           IN /\ m \in Mbufs /\ rx'[p] = Append(rx[p], m) /\ frame'[m] = f /\ f \in Frames
              /\ arrived' = [arrived EXCEPT ![p] = Append(@, class)]
              /\ pool' = pool \ {m}
<1>1. PICK m \in pool, class \in Traffic :
       /\ pool' = pool \ {m}
       /\ frame' = [frame EXCEPT ![m] =
                      [src |-> p, no |-> Len(arrived[p]) + 1,
                       class |-> class, tags |-> << >>]]
       /\ rx' = [rx EXCEPT ![p] = Append(@, m)]
       /\ arrived' = [arrived EXCEPT ![p] = Append(@, class)]
  BY DEF RxOne
<1>2. m \in Mbufs /\ class \in Classes /\ Len(arrived[p]) + 1 \in Nat /\ << >> \in Seq(Tags)
  <2>1. arrived[p] \in Seq(Classes)
    BY DEF TypeOK
  <2>2. Len(arrived[p]) \in Nat
    BY <2>1, LenProperties
  <2> QED
    BY <2>2, DataPlaneAssumption, EmptySeq DEF TypeOK
<1> DEFINE f == [src |-> p, no |-> Len(arrived[p]) + 1, class |-> class, tags |-> << >>]
<1>3. f \in Frames
  BY <1>2 DEF Frames
<1>4. rx'[p] = Append(rx[p], m) /\ frame'[m] = f
  BY <1>1, <1>2 DEF TypeOK
<1> QED
  BY <1>1, <1>2, <1>3, <1>4

\* Carried, kept by every step.
LEMMA RxCarriedKept ==
  ASSUME IInv, IInv', Carried, NEW p \in Ports, Worker(p) \/ Transmit(p), NEW o \in Ports
  PROVE  RxCarried(o)'
<1>0. TypeOK /\ Control /\ RxCarried(o) /\ RxCarried(p)
  BY DEF IInv, Carried
<1>1. rx[p] \in Seq(Mbufs) /\ rx[o] \in Seq(Mbufs)
  BY <1>0 DEF TypeOK
<1>2. CASE RxOne(p)
  <2>0. ~(Push(p) /\ o = p)
    BY <1>2 DEF RxOne, Push, Doing, At
  <2>1. PICK m \in Mbufs : rx'[p] = Append(rx[p], m) /\ frame'[m].src = p /\ frame'[m].tags = << >>
    <3>1. PICK m \in pool, class \in Traffic :
             /\ m \in Mbufs /\ rx'[p] = Append(rx[p], m)
             /\ frame'[m] = [src |-> p, no |-> Len(arrived[p]) + 1, class |-> class, tags |-> << >>]
      BY <1>0, <1>2, ReceivedIs
    <3> QED
      BY <3>1
  <2>2. CASE o = p
    <3>1. ASSUME NEW i \in 1 .. Len(rx'[p])
          PROVE  frame'[rx'[p][i]].src = p /\ Len(frame'[rx'[p][i]].tags) <= Headroom
      <4>1. CASE i = Len(rx[p]) + 1
        <5>1. rx'[p][i] = m
          BY <1>1, <2>1, <4>1
        <5>2. Len(<< >>) <= Headroom
          BY RulesAssumption
        <5> QED
          BY <2>1, <5>1, <5>2
      <4>2. CASE i # Len(rx[p]) + 1
        <5>1. i \in 1 .. Len(rx[p]) /\ rx'[p][i] = rx[p][i]
          BY <1>1, <2>1, <4>2
        <5>2. rx[p][i] \in Used /\ rx[p][i] \in Used'
          <6>1. rx[p] \in Seq(Used) /\ rx'[p] \in Seq(Used')
            BY BuffersHold, HoldAfter
          <6> QED
            BY <5>1, <6>1, ElementOfSeq
        <5>3. frame'[rx[p][i]] = frame[rx[p][i]]
          BY <2>0, <2>2, <5>2, FrameStays DEF Pushing
        <5> QED
          BY <1>0, <5>1, <5>3 DEF RxCarried
      <4> QED
        BY <4>1, <4>2
    <3> QED
      BY <2>2, <3>1 DEF RxCarried
  <2>3. CASE o # p
    <3>1. rx'[o] = rx[o]
      BY <1>0, <1>2, <2>3 DEF RxOne, TypeOK
    <3> QED
      BY <1>0, <2>0, <3>1, RxCarriedStays
  <2> QED
    BY <2>2, <2>3
<1>3. CASE Push(p) /\ o = p
  <2>1. rx' = rx /\ rx[p] # << >> /\ Head(todo[p]) \in ActionSet /\ Head(todo[p]).type = "PUSH"
    BY <1>0, <1>3 DEF Push, Doing, At, Control, TypeOK
  <2>2. Head(rx[p]) \in Mbufs /\ frame[Head(rx[p])] \in Frames
    BY <2>1, HeadIsLive DEF IInv
  <2>3. PICK f \in Frames, t \in Tags : f = frame[Head(rx[p])] /\ t = Head(todo[p]).tag
    BY <2>1, <2>2, ActionFacts
  <2>4. frame' = [frame EXCEPT ![Head(rx[p])] = Pushed(f, t)]
    BY <1>3, <2>3 DEF Push
  <2>5. frame'[Head(rx[p])] = Pushed(f, t) /\ \A m \in Mbufs : m # Head(rx[p]) => frame'[m] = frame[m]
    BY <1>0, <2>2, <2>4 DEF TypeOK
  <2>6. f.src = p /\ Len(f.tags) <= Headroom
    <3>1. 1 \in 1 .. Len(rx[p]) /\ rx[p][1] = Head(rx[p])
      BY <1>1, <2>1
    <3> QED
      BY <1>0, <2>3, <3>1 DEF RxCarried
  <2>7. Pushed(f, t).src = p /\ Len(Pushed(f, t).tags) <= Headroom
    <3>1. CASE Len(f.tags) < Headroom
      <4>1. Pushed(f, t) = [f EXCEPT !.tags = Append(f.tags, t)]
        BY <3>1 DEF Pushed
      <4>2. Pushed(f, t).src = p /\ Pushed(f, t).tags = Append(f.tags, t)
        BY <2>6, <4>1 DEF Frames
      <4>3. f.tags \in Seq(Tags)
        BY DEF Frames
      <4>4. PICK n \in Nat : n = Len(f.tags)
        BY <4>3, LenProperties
      <4>5. Len(Append(f.tags, t)) = n + 1
        BY <4>3, <4>4, AppendProperties
      <4> QED
        BY <3>1, <4>2, <4>4, <4>5, RulesAssumption
    <3>2. CASE ~(Len(f.tags) < Headroom)
      BY <2>6, <3>2 DEF Pushed
    <3> QED
      BY <3>1, <3>2
  <2>8. ASSUME NEW i \in 1 .. Len(rx[p])
        PROVE  frame'[rx[p][i]].src = p /\ Len(frame'[rx[p][i]].tags) <= Headroom
    <3>1. CASE rx[p][i] = Head(rx[p])
      BY <2>5, <2>7, <3>1
    <3>2. CASE rx[p][i] # Head(rx[p])
      <4>1. rx[p][i] \in Mbufs
        BY <1>1, ElementOfSeq
      <4>2. frame'[rx[p][i]] = frame[rx[p][i]]
        BY <2>5, <3>2, <4>1
      <4> QED
        BY <1>0, <4>2 DEF RxCarried
    <3> QED
      BY <3>1, <3>2
  <2> QED
    BY <1>3, <2>1, <2>8 DEF RxCarried
<1>4. CASE ~RxOne(p) /\ ~(Push(p) /\ o = p)
  <2>1. \/ rx'[o] = rx[o]
        \/ o = p /\ rx[o] # << >> /\ rx'[o] = Tail(rx[o])
    BY <1>0, <1>4, RxMoves
  <2>2. \A i \in 1 .. Len(rx'[o]) : \E j \in 1 .. Len(rx[o]) : rx'[o][i] = rx[o][j]
    <3>1. CASE rx'[o] = rx[o]
      BY <3>1
    <3>2. CASE rx[o] # << >> /\ rx'[o] = Tail(rx[o])
      <4>1. \A i \in 1 .. Len(Tail(rx[o])) : i + 1 \in 1 .. Len(rx[o]) /\ Tail(rx[o])[i] = rx[o][i + 1]
        BY <1>1, <3>2
      <4> QED
        BY <3>2, <4>1
    <3> QED
      BY <2>1, <3>1, <3>2
  <2> QED
    BY <1>0, <1>4, <2>2, RxCarriedStays
<1> QED
  BY <1>2, <1>3, <1>4

LEMMA TxCarriedKept ==
  ASSUME IInv, IInv', Carried, NEW p \in Ports, Worker(p) \/ Transmit(p),
         NEW o \in Ports, NEW q \in Ports
  PROVE  TxCarried(o, q)'
<1>0. TypeOK /\ Control /\ TxCarried(o, q) /\ RxCarried(p)
  BY DEF IInv, Carried
<1>1. tx[o][q] \in Seq(Cell)
  BY <1>0, BufferTyped
<1>2. CASE OutputCopy(p) \/ OutputNull(p)
  <2>1. PICK m \in Cell :
          /\ OutputCopy(p) => m \in pool /\ frame' = [frame EXCEPT ![m] = frame[Head(rx[p])]]
          /\ ~OutputCopy(p) => m = NoMbuf
          /\ tx'[o][q] = IF o = p /\ q = Head(todo[p]).port THEN Append(tx[o][q], m) ELSE tx[o][q]
    BY <1>0, <1>2, BufferedIs
  <2>2. CASE tx'[o][q] = tx[o][q]
    BY <1>0, <2>2, TxCarriedStays
  <2>3. CASE o = p /\ tx'[o][q] = Append(tx[o][q], m)
    <3>1. m = NoMbuf \/ frame'[m].src = p
      <4>1. CASE OutputCopy(p)
        <5>1. rx[p] # << >> /\ m \in Mbufs
          BY <1>0, <2>1, <4>1 DEF OutputCopy, Doing, At, Control, TypeOK
        <5>2. frame'[m] = frame[Head(rx[p])]
          BY <1>0, <2>1, <4>1, <5>1 DEF TypeOK
        <5>3. rx[p] \in Seq(Mbufs)
          BY <1>0 DEF TypeOK
        <5>4. 1 \in 1 .. Len(rx[p]) /\ rx[p][1] = Head(rx[p])
          BY <5>1, <5>3
        <5> QED
          BY <1>0, <5>2, <5>4 DEF RxCarried
      <4> QED
        BY <2>1, <4>1
    <3>2. ASSUME NEW i \in 1 .. Len(tx'[o][q])
          PROVE  tx'[o][q][i] = NoMbuf \/ frame'[tx'[o][q][i]].src = o
      <4>1. CASE i = Len(tx[o][q]) + 1
        <5>1. tx'[o][q][i] = m
          BY <1>1, <2>3, <4>1
        <5> QED
          BY <2>3, <3>1, <5>1
      <4>2. CASE i # Len(tx[o][q]) + 1
        <5>1. i \in 1 .. Len(tx[o][q]) /\ tx'[o][q][i] = tx[o][q][i]
          BY <1>1, <2>3, <4>2
        <5>2. tx[o][q][i] \in Used \cup {NoMbuf} /\ tx[o][q][i] \in Used' \cup {NoMbuf}
          <6>1. tx[o][q] \in Seq(Used \cup {NoMbuf}) /\ tx'[o][q] \in Seq(Used' \cup {NoMbuf})
            BY BuffersHold, HoldAfter
          <6> QED
            BY <5>1, <6>1, ElementOfSeq
        <5>3. tx[o][q][i] \notin Pushing(p)
          BY <5>1, PushingApart
        <5>4. tx[o][q][i] # NoMbuf => frame'[tx[o][q][i]] = frame[tx[o][q][i]]
          BY <5>2, <5>3, FrameStays
        <5> QED
          BY <1>0, <5>1, <5>4 DEF TxCarried
      <4> QED
        BY <4>1, <4>2
    <3> QED
      BY <3>2 DEF TxCarried
  <2> QED
    BY <2>1, <2>2, <2>3
<1>3. CASE ReturnTxBurst(p) \/ FullTxBurst(p)
  <2>1. PICK b, t : b \in Seq(Cell) /\ b = Batch(p) /\ b = tx[p][queue[p]] /\ t = Taken(p)
    BY <1>3, Bursts
  <2>2. \/ tx'[o][q] = tx[o][q]
        \/ tx'[o][q] = << >>
        \/ tx[o][q] = b /\ t \in 1 .. Len(b) /\ tx'[o][q] = SubSeq(b, t + 1, Len(b))
    <3>1. /\ ReturnTxBurst(p) => t \in 1 .. Len(b)
          /\ tx'[o][q] = IF o = p /\ q = queue[p]
                         THEN IF ReturnTxBurst(p) THEN SubSeq(b, t + 1, Len(b)) ELSE << >>
                         ELSE tx[o][q]
      BY <1>3, <2>1, Bursts
    <3> QED
      BY <2>1, <3>1, Zenon
  <2>3. CASE tx'[o][q] = tx[o][q]
    BY <1>0, <2>3, TxCarriedStays
  <2>4. CASE tx'[o][q] = << >>
    BY <2>4 DEF TxCarried
  <2>5. CASE tx[o][q] = b /\ t \in 1 .. Len(b) /\ tx'[o][q] = SubSeq(b, t + 1, Len(b))
    <3>1. \A i \in 1 .. Len(SubSeq(b, t + 1, Len(b))) :
            t + i \in 1 .. Len(b) /\ SubSeq(b, t + 1, Len(b))[i] = b[t + i]
      BY <2>5
    <3> QED
      BY <1>0, <2>5, <3>1, TxCarriedStays
  <2> QED
    BY <2>2, <2>3, <2>4, <2>5
<1>4. CASE ~(OutputCopy(p) \/ OutputNull(p) \/ ReturnTxBurst(p) \/ FullTxBurst(p))
  <2>1. tx'[o][q] = tx[o][q]
    BY <1>4, RowsStay
  <2> QED
    BY <1>0, <2>1, TxCarriedStays
<1> QED
  BY <1>2, <1>3, <1>4

LEMMA CarriedKept ==
  ASSUME IInv, IInv', Carried, NEW p \in Ports, Worker(p) \/ Transmit(p)
  PROVE  Carried'
<1>1. ASSUME NEW o \in Ports PROVE RxCarried(o)' /\ \A q \in Ports : TxCarried(o, q)'
  BY RxCarriedKept, TxCarriedKept
<1>2. ASSUME NEW o \in Ports PROVE Sorted(todo'[o])
  <2>1. TypeOK /\ Sorted(todo[o])
    BY DEF IInv, Carried
  <2> QED
    BY <2>1, SortedStays
<1>3. ASSUME NEW o \in Ports PROVE Sorted(todo[o])'
  BY <1>2 DEF Sorted
<1> QED
  BY <1>1, <1>3 DEF Carried

LEMMA InitCarried == Init => Carried
<1> SUFFICES ASSUME Init, NEW p \in Ports, NEW q \in Ports
             PROVE  RxCarried(p) /\ Sorted(todo[p]) /\ TxCarried(p, q)
  BY DEF Carried
<1>1. rx[p] = << >> /\ todo[p] = << >> /\ tx[p][q] = << >>
  BY DEF Init
<1> QED
  BY <1>1 DEF RxCarried, TxCarried, Sorted

-----------------------------------------------------------------------------
(* What a worker's step makes of what its packets still owe. *)

-----------------------------------------------------------------------------
(* What each step makes of what a worker's packets owe. *)

LEMMA DataConcat ==
  ASSUME NEW s \in Lists(Data), NEW t \in Lists(Data)
  PROVE  /\ s \o t \in Lists(Data) /\ s \o << >> = s /\ << >> \o s = s
<1>1. s \in Seq(Data) /\ t \in Seq(Data)
  BY DEF Lists
<1>2. s \o t \in Seq(Data) /\ s \o << >> = s /\ << >> \o s = s
  BY <1>1, ConcatProperties, ConcatEmptySeq
<1> QED
  BY <1>2 DEF Lists

LEMMA DataAssociative ==
  ASSUME NEW s \in Lists(Data), NEW t \in Lists(Data), NEW u \in Lists(Data)
  PROVE  (s \o t) \o u = s \o (t \o u)
<1>1. s \in Seq(Data) /\ t \in Seq(Data) /\ u \in Seq(Data)
  BY DEF Lists
<1> QED
  BY <1>1, Associative

\* The packet worker p is about.
LEMMA HeadFacts ==
  ASSUME IInv, Carried, NEW p \in Ports, rx[p] # << >>
  PROVE  /\ Head(rx[p]) \in Used /\ frame[Head(rx[p])] \in Frames
         /\ frame[Head(rx[p])].src = p /\ Len(frame[Head(rx[p])].tags) <= Headroom
         /\ rx[p] \in Seq(Mbufs) /\ Tail(rx[p]) \in Seq(Mbufs)
<1>1. rx[p] \in Seq(Used) /\ rx[p] \in Seq(Mbufs)
  BY BuffersHold DEF IInv, TypeOK
<1>2. 1 \in 1 .. Len(rx[p]) /\ rx[p][1] = Head(rx[p]) /\ Head(rx[p]) \in Used
  BY <1>1
<1>3. frame[Head(rx[p])] \in Frames
  BY HeadIsLive DEF IInv
<1>4. frame[Head(rx[p])].src = p /\ Len(frame[Head(rx[p])].tags) <= Headroom
  BY <1>2 DEF Carried, RxCarried
<1>5. Tail(rx[p]) \in Seq(Mbufs)
  BY <1>1
<1> QED
  BY <1>1, <1>2, <1>3, <1>4, <1>5

\* Everything owed, the packet in front first.
LEMMA OwedFirst ==
  ASSUME IInv, Carried, NEW p \in Ports, NEW d \in Ports, rx[p] # << >>
  PROVE  /\ BegunOwes(p, d) \in Lists(Data) /\ Later(p, d) \in Lists(Data)
         /\ Emitted(frame[Head(rx[p])], ActionsFor(rules, frame[Head(rx[p])]), d) \in Lists(Data)
         /\ InRx(p) => Owed(p, d) = BegunOwes(p, d) \o Later(p, d)
         /\ ~InRx(p) =>
              Owed(p, d) = Emitted(frame[Head(rx[p])], ActionsFor(rules, frame[Head(rx[p])]), d)
                             \o Later(p, d)
<1>0. TypeOK /\ todo[p] \in Seq(ActionSet)
  BY DEF IInv, TypeOK
<1>1. PICK h \in Mbufs, f \in Frames, r \in Seq(Mbufs) :
         h = Head(rx[p]) /\ f = frame[h] /\ r = Tail(rx[p])
  BY HeadFacts DEF Used
<1>2. Lists(Frames) \subseteq Lists(Data)
  BY DEF Lists, Data
<1>3. BegunOwes(p, d) \in Lists(Data)
  BY <1>0, <1>1, <1>2, EmittedType DEF BegunOwes
<1>4. Emitted(f, ActionsFor(rules, f), d) \in Lists(Data)
  BY <1>0, <1>2, EmittedType, RuleOf
<1>5. Due(d) \in [Mbufs -> Lists(Data)]
  BY <1>0, DueType
<1>6. Later(p, d) \in Lists(Data)
  BY <1>1, <1>5, MappedType DEF Later
<1>7. Owing
  BY OwingAlways
<1>8. InRx(p) => Owed(p, d) = BegunOwes(p, d) \o Later(p, d)
  BY <1>7 DEF Owing
<1>9. ASSUME ~InRx(p)
      PROVE  Owed(p, d) = Emitted(f, ActionsFor(rules, f), d) \o Later(p, d)
  <2>1. Owed(p, d) = Flat(Due(d), rx[p])
    BY <1>7, <1>9 DEF Owing
  <2>2. PICK g \in [Mbufs -> Lists(Data)], s \in Seq(Mbufs) : g = Due(d) /\ s = rx[p]
    BY <1>5, HeadFacts
  <2>3. Flat(g, s) = g[Head(s)] \o Flat(g, Tail(s))
    BY <2>2, FlatHead
  <2>4. g[h] = Emitted(f, ActionsFor(rules, f), d)
    BY <1>1, <2>2 DEF Due
  <2> QED
    BY <1>1, <2>1, <2>2, <2>3, <2>4 DEF Later
<1> QED
  BY <1>1, <1>3, <1>4, <1>6, <1>8, <1>9

\* The packet in front leaves, and owes nothing more.
LEMMA OwedLeaves ==
  ASSUME IInv, IInv', Carried, NEW p \in Ports, Worker(p), NEW d \in Ports,
         rx[p] # << >>, rx'[p] = Tail(rx[p]), ~InRx(p)',
         InRx(p) => BegunOwes(p, d) = << >>,
         ~InRx(p) =>
           Emitted(frame[Head(rx[p])], ActionsFor(rules, frame[Head(rx[p])]), d) = << >>
  PROVE  Owed(p, d)' = Owed(p, d)
<1>1. Later(p, d) \in Lists(Data)
  BY OwedFirst
<1>2. << >> \o Later(p, d) = Later(p, d)
  BY <1>1, DataConcat
<1>3. Owed(p, d) = Later(p, d)
  BY <1>2, OwedFirst
<1>4. Owing'
  BY OwingAlways, PTL
<1>5. Owed(p, d)' = Flat(Due(d)', Tail(rx[p]))
  BY <1>4 DEF Owing
<1>6. Flat(Due(d)', Tail(rx[p])) = Later(p, d)
  BY LaterStays
<1> QED
  BY <1>3, <1>5, <1>6

\* A packet without a rule owes nothing.
LEMMA UnruledEmits ==
  ASSUME TypeOK, NEW f \in Frames, NEW d,
         f.class = "unsupported" \/ <<f.src, f.class>> \notin DOMAIN rules
  PROVE  Emitted(f, ActionsFor(rules, f), d) = << >>
<1>1. <<f.src, f.class>> \notin DOMAIN rules
  <2>1. DOMAIN rules \subseteq Keys
    BY DataPlaneAssumption DEF TypeOK, IsRuleTable
  <2>2. <<f.src, "unsupported">> \notin Keys
    BY DEF Keys, Protocols
  <2> QED
    BY <2>1, <2>2
<1>2. ActionsFor(rules, f) = << >>
  BY <1>1 DEF ActionsFor
<1> QED
  BY <1>2, EmittedNothing

\* A packet without a rule, or refused, owes nothing.
LEMMA OwedUnruled ==
  ASSUME IInv, IInv', Carried, NEW p \in Ports, Unsupported(p) \/ Unruled(p), NEW d \in Ports
  PROVE  Owed(p, d)' = Owed(p, d)
<1>0. TypeOK
  BY DEF IInv
<1>1. rx[p] # << >> /\ rx'[p] = Tail(rx[p]) /\ pc[p] = "process" /\ pc' = pc
  BY <1>0 DEF Unsupported, Unruled, At, TypeOK
<1>2. ~InRx(p) /\ ~InRx(p)'
  BY <1>1 DEF InRx
<1>3. PICK f \in Frames : f = frame[Head(rx[p])] /\ f.src = p
  BY <1>1, HeadFacts
<1>4. f.class = "unsupported" \/ <<f.src, f.class>> \notin DOMAIN rules
  BY <1>3 DEF Unsupported, Unruled
<1>5. Emitted(f, ActionsFor(rules, f), d) = << >>
  BY <1>0, <1>4, UnruledEmits
<1> QED
  BY <1>1, <1>2, <1>3, <1>5, OwedLeaves DEF Worker, Process

\* An executed list owes nothing, so its packet may go.
LEMMA OwedFinish ==
  ASSUME IInv, IInv', Carried, NEW p \in Ports, Finish(p), NEW d \in Ports
  PROVE  Owed(p, d)' = Owed(p, d)
<1>0. TypeOK /\ Control
  BY DEF IInv
<1>1. rx[p] # << >> /\ rx'[p] = Tail(rx[p]) /\ todo[p] = << >> /\ pc'[p] = "process" /\ pc[p] = "actions"
  BY <1>0 DEF Finish, At, Control, TypeOK, Goto
<1>2. InRx(p) /\ ~InRx(p)'
  BY <1>1 DEF InRx
<1>3. BegunOwes(p, d) = << >>
  BY <1>1, EmittedNothing DEF BegunOwes
<1> QED
  BY <1>1, <1>2, <1>3, OwedLeaves DEF Worker, Execute

\* The packet in front has its rule: what it owes is what the rule says.
LEMMA OwedRuled ==
  ASSUME IInv, IInv', Carried, NEW p \in Ports, Ruled(p), NEW d \in Ports
  PROVE  Owed(p, d)' = Owed(p, d)
<1>0. TypeOK /\ Owing'
  BY OwingAlways, PTL DEF IInv
<1>1. rx[p] # << >> /\ rx' = rx /\ frame' = frame /\ pc'[p] = "actions" /\ pc[p] = "process"
  BY <1>0 DEF Ruled, At, TypeOK, Goto
<1>2. ~InRx(p) /\ InRx(p)'
  BY <1>1 DEF InRx
<1>3. PICK f \in Frames : f = frame[Head(rx[p])] /\ f.src = p
  BY <1>1, HeadFacts
<1>4. todo'[p] = ActionsFor(rules, f)
  <2>1. <<p, f.class>> \in DOMAIN rules /\ todo'[p] = rules[<<p, f.class>>]
    BY <1>0, <1>3 DEF Ruled, TypeOK
  <2> QED
    BY <1>3, <2>1 DEF ActionsFor
<1>5. Owed(p, d)' = BegunOwes(p, d)' \o Later(p, d)'
  BY <1>0, <1>2 DEF Owing
<1>6. BegunOwes(p, d)' = Emitted(f, ActionsFor(rules, f), d)
  BY <1>1, <1>3, <1>4 DEF BegunOwes
<1>7. Later(p, d)' = Later(p, d)
  <2>1. Flat(Due(d)', Tail(rx[p])) = Later(p, d)
    BY <1>1, LaterStays DEF Worker, Process
  <2> QED
    BY <1>1, <2>1 DEF Later
<1> QED
  BY <1>1, <1>2, <1>3, <1>5, <1>6, <1>7, OwedFirst

\* An action is done on the packet in front: what is before it in the list.
LEMMA OwedDoing ==
  ASSUME IInv, IInv', Carried, NEW p \in Ports, Worker(p), NEW d \in Ports,
         InRx(p), InRx(p)', rx'[p] = rx[p]
  PROVE  /\ Owed(p, d) = BegunOwes(p, d) \o Later(p, d)
         /\ Owed(p, d)' = BegunOwes(p, d)' \o Later(p, d)
<1>1. rx[p] # << >>
  BY DEF InRx
<1>2. Owing'
  BY OwingAlways, PTL
<1>3. Owed(p, d)' = BegunOwes(p, d)' \o Later(p, d)'
  BY <1>2 DEF Owing
<1>4. Flat(Due(d)', Tail(rx[p])) = Later(p, d)
  BY <1>1, LaterStays
<1>5. Later(p, d)' = Later(p, d)
  BY <1>4 DEF Later
<1> QED
  BY <1>1, <1>3, <1>5, OwedFirst

LEMMA OwedDropOrPush ==
  ASSUME IInv, IInv', Carried, NEW p \in Ports, Drop(p) \/ Push(p), NEW d \in Ports
  PROVE  Owed(p, d)' = Owed(p, d)
<1>0. TypeOK /\ Control
  BY DEF IInv
<1>1. /\ rx[p] # << >> /\ rx' = rx /\ pc' = pc /\ pc[p] = "actions"
      /\ todo[p] # << >> /\ todo'[p] = Tail(todo[p]) /\ todo[p] \in Seq(ActionSet)
  BY <1>0 DEF Drop, Push, Doing, At, Control, TypeOK
<1>2. InRx(p) /\ InRx(p)'
  BY <1>1 DEF InRx
<1>3. PICK f \in Frames : f = frame[Head(rx[p])] /\ Len(f.tags) <= Headroom
  BY <1>1, HeadFacts
<1>4. PICK a \in Seq(ActionSet) : a = todo[p] /\ a # << >>
  BY <1>1
<1>5. BegunOwes(p, d)' = BegunOwes(p, d)
  <2>1. CASE Drop(p)
    <3>1. frame' = frame /\ Head(a).type = "DROP"
      BY <1>4, <2>1 DEF Drop, Doing
    <3>2. Emitted(f, Tail(a), d) = Emitted(f, a, d)
      BY <1>4, <3>1, EmittedDrop
    <3> QED
      BY <1>1, <1>3, <1>4, <3>1, <3>2 DEF BegunOwes
  <2>2. CASE Push(p)
    <3>1. frame'[Head(rx[p])] = Pushed(f, Head(a).tag) /\ Head(a).type = "PUSH"
      <4>1. Head(rx[p]) \in Mbufs
        BY <1>1, HeadFacts DEF Used
      <4> QED
        BY <1>0, <1>3, <1>4, <2>2, <4>1 DEF Push, Doing, TypeOK
    <3>2. Emitted(Pushed(f, Head(a).tag), Tail(a), d) = Emitted(f, a, d)
      BY <1>3, <1>4, <3>1, EmittedPush, SMTT(40)
    <3> QED
      BY <1>1, <1>3, <1>4, <3>1, <3>2 DEF BegunOwes
  <2> QED
    BY <2>1, <2>2
<1>6. Worker(p)
  BY SMTT(40) DEF Worker, Execute
<1> QED
  BY <1>1, <1>2, <1>5, <1>6, OwedDoing

\* The list goes on after an output: to the port it names, the packet owes
\* one frame less.
LEMMA OwedOutput ==
  ASSUME IInv, IInv', Carried, NEW p \in Ports, OutputCopy(p) \/ OutputNull(p), NEW d \in Ports
  PROVE  Owed(p, d) = IF d = Head(todo[p]).port
                      THEN <<frame[Head(rx[p])]>> \o Owed(p, d)' ELSE Owed(p, d)'
<1>0. TypeOK /\ Control
  BY DEF IInv
<1>1. /\ rx[p] # << >> /\ rx' = rx /\ pc[p] = "actions"
      /\ todo[p] # << >> /\ todo'[p] = Tail(todo[p]) /\ todo[p] \in Seq(ActionSet)
      /\ Head(todo[p]).type = "OUTPUT"
  <2>1. Doing(p, "OUTPUT") /\ rx' = rx
    BY DEF OutputCopy, OutputNull
  <2>2. /\ pc[p] = "actions" /\ todo[p] # << >> /\ Head(todo[p]).type = "OUTPUT"
        /\ todo' = [todo EXCEPT ![p] = Tail(@)]
    BY <2>1 DEF Doing, At
  <2>3. rx[p] # << >>
    BY <1>0, <2>2 DEF Control
  <2>4. todo'[p] = Tail(todo[p]) /\ todo[p] \in Seq(ActionSet)
    BY <1>0, <2>2 DEF TypeOK
  <2> QED
    BY <2>1, <2>2, <2>3, <2>4
<1>2. pc'[p] \in {"actions", "send"}
  BY <1>0, <1>1, Zenon DEF OutputCopy, OutputNull, Buffer, Goto, TypeOK
<1>3. InRx(p) /\ InRx(p)' /\ Worker(p) /\ ~Push(p)
  BY <1>1, <1>2 DEF InRx, Worker, Execute, Push, Doing
<1>4. PICK f \in Frames, h \in Used : h = Head(rx[p]) /\ f = frame[h] /\ Len(f.tags) <= Headroom
  BY <1>1, HeadFacts
<1>5. PICK a \in Seq(ActionSet) : a = todo[p] /\ a # << >> /\ Sorted(a) /\ Head(a).type = "OUTPUT"
  BY <1>1 DEF Carried
<1>6. h \in Used'
  <2>1. rx'[p] \in Seq(Used')
    BY HoldAfter
  <2>2. PICK s \in Seq(Used') : s = rx[p]
    BY <1>1, <2>1
  <2> QED
    BY <1>1, <1>4, <2>2, HeadTailProperties
<1>7. frame'[h] = f
  BY <1>3, <1>4, <1>6, FrameStays DEF Pushing
<1>8. BegunOwes(p, d) = Emitted(f, a, d) /\ BegunOwes(p, d)' = Emitted(f, Tail(a), d)
  BY <1>1, <1>4, <1>5, <1>7 DEF BegunOwes
<1>9. /\ Emitted(f, Tail(a), d) \in Lists(Frames)
      /\ Head(a).port = d => Emitted(f, a, d) = <<f>> \o Emitted(f, Tail(a), d)
      /\ Head(a).port # d => Emitted(f, a, d) = Emitted(f, Tail(a), d)
  BY <1>4, <1>5, EmittedOutput
<1>10. PICK e \in Lists(Data), l \in Lists(Data), one \in Lists(Data) :
          e = Emitted(f, Tail(a), d) /\ l = Later(p, d) /\ one = <<f>>
  <2>1. Lists(Frames) \subseteq Lists(Data) /\ <<f>> \in Lists(Data)
    BY DEF Lists, Data
  <2> QED
    BY <1>1, <1>9, <2>1, OwedFirst
<1>11. (one \o e) \o l = one \o (e \o l)
  BY DataAssociative
<1>12. Owed(p, d) = Emitted(f, a, d) \o l /\ Owed(p, d)' = e \o l
  BY <1>1, <1>3, <1>8, <1>10, OwedDoing
<1> QED
  BY <1>4, <1>5, <1>9, <1>10, <1>11, <1>12, Zenon

DuesTyped == \A d \in Ports : Due(d) \in [Mbufs -> Lists(Data)]

LEMMA DuesType == TypeOK => DuesTyped
  BY DueType DEF DuesTyped

\* A received packet owes, behind what was owed already, all its rule says.
LEMMA OwedReceived ==
  ASSUME IInv, IInv', NEW p \in Ports, RxOne(p)
  PROVE  \E class \in Traffic :
           LET f == [src |-> p, no |-> Len(arrived[p]) + 1, class |-> class, tags |-> << >>]
           IN /\ arrived' = [arrived EXCEPT ![p] = Append(@, class)]
              /\ \A d \in Ports :
                   /\ Emitted(f, ActionsFor(rules, f), d) \in Lists(Data)
                   /\ Owed(p, d)' = Owed(p, d) \o Emitted(f, ActionsFor(rules, f), d)
<1>0. TypeOK /\ Owing /\ Owing' /\ DuesTyped /\ DuesTyped'
  <2>1. TypeOK /\ TypeOK'
    BY DEF IInv
  <2>2. Owing /\ Owing'
    BY OwingAlways, PTL
  <2>3. DuesTyped /\ DuesTyped'
    BY <2>1, DuesType, PTL
  <2> QED
    BY <2>1, <2>2, <2>3
<1>1. PICK m \in pool, class \in Traffic :
           LET f == [src |-> p, no |-> Len(arrived[p]) + 1, class |-> class, tags |-> << >>]
           IN /\ m \in Mbufs /\ rx'[p] = Append(rx[p], m) /\ frame'[m] = f /\ f \in Frames
              /\ arrived' = [arrived EXCEPT ![p] = Append(@, class)]
              /\ pool' = pool \ {m}
  BY <1>0, ReceivedIs
<1>2. PICK f \in Frames :
        /\ f = [src |-> p, no |-> Len(arrived[p]) + 1, class |-> class, tags |-> << >>]
        /\ m \in Mbufs /\ rx'[p] = Append(rx[p], m) /\ frame'[m] = f
        /\ arrived' = [arrived EXCEPT ![p] = Append(@, class)]
  BY <1>1
<1>3. ~InRx(p) /\ ~InRx(p)' /\ rules' = rules
  BY DEF InRx, RxOne, At
<1>4. rx[p] \in Seq(Used) /\ rx[p] \in Seq(Mbufs) /\ Append(rx[p], m) \in Seq(Used')
  BY <1>0, <1>2, BuffersHold, HoldAfter DEF TypeOK
<1>5. rx[p] \in Seq(Used')
  <2>1. PICK n \in Nat : n = Len(rx[p])
    BY <1>4, LenProperties
  <2>2. \A i \in 1 .. n : rx[p][i] = Append(rx[p], m)[i] /\ i \in 1 .. Len(Append(rx[p], m))
    BY <1>4, <2>1, AppendProperties
  <2>3. PICK a \in Seq(Used') : a = Append(rx[p], m)
    BY <1>4
  <2>4. \A i \in 1 .. Len(a) : a[i] \in Used'
    BY ElementOfSeq
  <2>5. \A i \in 1 .. n : rx[p][i] \in Used'
    BY <2>2, <2>3, <2>4
  <2>6. rx[p] = [i \in 1 .. n |-> rx[p][i]]
    BY <1>4, <2>1, LenProperties
  <2> QED
    BY <2>5, <2>6, IsASeq
<1>6. ASSUME NEW d \in Ports
      PROVE  /\ Emitted(f, ActionsFor(rules, f), d) \in Lists(Data)
             /\ Owed(p, d)' = Owed(p, d) \o Emitted(f, ActionsFor(rules, f), d)
  <2>1. Due(d) \in [Mbufs -> Lists(Data)] /\ Due(d)' \in [Mbufs -> Lists(Data)]
    BY <1>0 DEF DuesTyped
  <2>2. PICK g \in [Mbufs -> Lists(Data)] : g = Due(d)'
    BY <2>1
  <2>3. g[m] = Emitted(f, ActionsFor(rules, f), d)
    BY <1>2, <1>3, <2>2 DEF Due
  <2>4. Flat(g, Append(rx[p], m)) = Flat(g, rx[p]) \o g[m]
    BY <1>2, <1>4, FlatAppend
  <2>5. Flat(g, rx[p]) = Flat(Due(d), rx[p])
    <3>1. Worker(p) /\ \A i \in 1 .. Len(rx[p]) : rx[p][i] \notin Pushing(p)
      BY DEF Worker, Receive, Pushing, Push, RxOne, Doing, At
    <3> QED
      BY <1>3, <1>4, <1>5, <2>2, <3>1, DueStays
  <2>6. Owed(p, d) = Flat(Due(d), rx[p]) /\ Owed(p, d)' = Flat(g, Append(rx[p], m))
    BY <1>0, <1>2, <1>3, <2>2 DEF Owing
  <2> QED
    BY <1>2, <2>2, <2>3, <2>4, <2>5, <2>6
<1> QED
  BY <1>2, <1>6

-----------------------------------------------------------------------------
(* What a step makes of the copies that wait in a buffer or in a ring. *)

\* Only RxOne and OUTPUT change what the packets of a port owe.
LEMMA OwedQuiet ==
  ASSUME IInv, IInv', Carried, RxIsLatest, NEW p \in Ports, Worker(p), NEW d \in Ports,
         ~(RxOne(p) \/ OutputCopy(p) \/ OutputNull(p))
  PROVE  Owed(p, d)' = Owed(p, d)
<1>0. TypeOK /\ Control
  BY DEF IInv
<1>1. CASE Unsupported(p) \/ Unruled(p)
  BY <1>1, OwedUnruled
<1>2. CASE Finish(p)
  BY <1>2, OwedFinish
<1>3. CASE Ruled(p)
  BY <1>3, OwedRuled
<1>4. CASE Drop(p) \/ Push(p)
  BY <1>4, OwedDropOrPush
<1>5. CASE Loop(p) \/ RxDone(p) \/ ProcessDone(p) \/ Send(p)
  <2>1. rx' = rx /\ todo' = todo
    BY <1>5 DEF Loop, Leave, BeginDrain, SkipDrain, DrainPort, EndDrain, RxDone,
       ProcessDone, Send, CallTxBurst, RaceTxBurst, NullTxBurst, ReturnTxBurst, FullTxBurst
  <2>2. ~Push(p)
    BY <1>5 DEF Loop, Leave, BeginDrain, SkipDrain, DrainPort, EndDrain, RxDone,
       ProcessDone, Send, CallTxBurst, RaceTxBurst, NullTxBurst, ReturnTxBurst, FullTxBurst,
       Push, Doing, At
  <2>3. pc[p] \in {"poll", "drain", "done"} => rx[p] = << >>
    BY DEF RxIsLatest
  <2>4. InRx(p)' <=> InRx(p)
    <3>1. CASE Loop(p)
      <4>1. rx[p] = << >>
        BY <2>3, <3>1 DEF Loop, Leave, BeginDrain, SkipDrain, DrainPort, EndDrain, At
      <4> QED
        BY <2>1, <4>1 DEF InRx
    <3>2. CASE RxDone(p) \/ ProcessDone(p)
      <4>1. pc[p] \in {"recv", "process"} /\ pc'[p] \in {"process", "poll"}
        BY <1>0, <3>2 DEF RxDone, ProcessDone, At, Goto, TypeOK
      <4> QED
        BY <4>1 DEF InRx
    <3>3. CASE Send(p)
      <4>1. pc[p] \in {"send", "burst"}
        BY <3>3 DEF Send, CallTxBurst, RaceTxBurst, NullTxBurst, ReturnTxBurst, FullTxBurst, At
      <4>2. rx[p] # << >> => pc'[p] \in {"actions", "send", "burst"}
        BY <1>0, <3>3, <4>1
           DEF Send, CallTxBurst, RaceTxBurst, NullTxBurst, ReturnTxBurst, FullTxBurst,
               Resume, Goto, At, TypeOK
      <4> QED
        BY <2>1, <4>1, <4>2 DEF InRx
    <3> QED
      BY <1>5, <3>1, <3>2, <3>3
  <2>5. InRx(p) => BegunOwes(p, d)' = BegunOwes(p, d)
    BY <2>1, <2>2, BegunOwesStays
  <2> QED
    BY <2>1, <2>2, <2>4, <2>5, OwedStays
<1> QED
  BY <1>1, <1>2, <1>3, <1>4, <1>5 DEF Worker, Receive, Process, Execute

LEMMA PartsOf ==
  ASSUME IInv, NEW o \in Ports, NEW d \in Ports
  PROVE  /\ RingPart(o, d) \in Lists(Data) /\ TxPart(o, d) \in Lists(Data)
         /\ Owed(o, d) \in Lists(Data) /\ Copied(o, d) \in Lists(Data)
         /\ Copied(o, d) = RingPart(o, d) \o TxPart(o, d)
         /\ Channel(o, d) = Copied(o, d) \o Owed(o, d)
<1>1. ChannelParts
  BY PartsAlways
<1>2. /\ RingPart(o, d) \in Lists(Data) /\ TxPart(o, d) \in Lists(Data)
      /\ Owed(o, d) \in Lists(Data)
      /\ Copied(o, d) = RingPart(o, d) \o TxPart(o, d)
      /\ Channel(o, d) = Copied(o, d) \o Owed(o, d)
  BY <1>1 DEF ChannelParts
<1>3. RingPart(o, d) \o TxPart(o, d) \in Lists(Data)
  BY <1>2, DataConcat
<1> QED
  BY <1>2, <1>3

PartsTyped ==
  \A o, d \in Ports :
         /\ RingPart(o, d) \in Lists(Data) /\ TxPart(o, d) \in Lists(Data)
         /\ Owed(o, d) \in Lists(Data) /\ Copied(o, d) \in Lists(Data)
         /\ Copied(o, d) = RingPart(o, d) \o TxPart(o, d)
         /\ Channel(o, d) = Copied(o, d) \o Owed(o, d)

LEMMA PartsTypedAlways == IInv => PartsTyped
  BY PartsOf DEF PartsTyped

LEMMA PartsAfter ==
  ASSUME IInv', NEW o \in Ports, NEW d \in Ports
  PROVE  /\ RingPart(o, d)' \in Lists(Data) /\ TxPart(o, d)' \in Lists(Data)
         /\ Owed(o, d)' \in Lists(Data) /\ Copied(o, d)' \in Lists(Data)
         /\ Copied(o, d)' = RingPart(o, d)' \o TxPart(o, d)'
         /\ Channel(o, d)' = Copied(o, d)' \o Owed(o, d)'
<1>1. PartsTyped'
  BY PartsTypedAlways, PTL
<1> QED
  BY <1>1 DEF PartsTyped

\* The row and the ring, when neither changes.
LEMMA CopiedStays ==
  ASSUME IInv, IInv', NEW p \in Ports, Worker(p) \/ Transmit(p),
         NEW o \in Ports, NEW d \in Ports, tx'[o][d] = tx[o][d], ring'[d] = ring[d]
  PROVE  Copied(o, d)' = Copied(o, d)
<1>1. RingPart(o, d)' = RingPart(o, d) /\ TxPart(o, d)' = TxPart(o, d)
  BY RingStays, TxStays
<1> QED
  BY <1>1, PartsOf, PartsAfter, ZenonT(40)

LEMMA FrontOfAppend ==
  ASSUME NEW S, NEW T, NEW s \in Seq(S), NEW x \in S, Append(s, x) \in Seq(T)
  PROVE  s \in Seq(T)
<1>1. PICK n \in Nat : n = Len(s)
  BY LenProperties
<1>2. PICK a \in Seq(T) : a = Append(s, x)
  OBVIOUS
<1>3. \A i \in 1 .. n : s[i] = a[i] /\ i \in 1 .. Len(a)
  BY <1>1, <1>2, AppendProperties
<1>4. \A i \in 1 .. n : s[i] \in T
  BY <1>3, ElementOfSeq
<1>5. s = [i \in 1 .. n |-> s[i]]
  BY <1>1, LenProperties
<1> QED
  BY <1>4, <1>5, IsASeq

HeldTyped == \A o \in Ports : Held(o) \in [Cell -> Lists(Data)]

LEMMA HeldTypedAlways == TypeOK => HeldTyped
  BY HeldType DEF HeldTyped

LEMMA HeldTypes ==
  ASSUME TypeOK', NEW o \in Ports
  PROVE  Held(o)' \in [Cell -> Lists(Data)]
<1>1. HeldTyped'
  BY HeldTypedAlways, PTL
<1> QED
  BY <1>1 DEF HeldTyped

\* Worker p sends a copy of the packet in front to the buffer of port d.
LEMMA CopiedOutput ==
  ASSUME IInv, IInv', Carried, NEW p \in Ports, OutputCopy(p) \/ OutputNull(p),
         NEW d \in Ports, d = Head(todo[p]).port
  PROVE  /\ OutputCopy(p) => Copied(p, d)' = Copied(p, d) \o <<frame[Head(rx[p])]>>
         /\ ~OutputCopy(p) => Copied(p, d)' = Copied(p, d) /\ pool = {}
         /\ frame[Head(rx[p])] \in Data
<1>0. TypeOK /\ TypeOK' /\ Control
  BY DEF IInv
<1>1. PICK m \in Cell :
              /\ OutputCopy(p) => m \in pool /\ frame' = [frame EXCEPT ![m] = frame[Head(rx[p])]]
              /\ ~OutputCopy(p) => m = NoMbuf /\ pool = {}
              /\ tx'[p][d] = Append(tx[p][d], m)
  BY <1>0, BufferedIs
<1>2. ring' = ring /\ Worker(p) /\ rx[p] # << >> /\ ~Push(p)
  BY <1>0 DEF OutputCopy, OutputNull, Doing, At, Control, Worker, Execute, Push
<1>3. PICK f \in Data : f = frame[Head(rx[p])] /\ f.src = p
  BY <1>2, HeadFacts DEF Data
<1>4. RingPart(p, d)' = RingPart(p, d)
  BY <1>2, RingStays
<1>5. PICK g \in [Cell -> Lists(Data)] : g = Held(p)'
  <2>1. Held(p)' \in [Cell -> Lists(Data)]
    BY <1>0, HeldTypes
  <2> QED
    BY <2>1
<1>6. /\ tx[p][d] \in Seq(Cell) /\ tx[p][d] \in Seq(Used \cup {NoMbuf})
      /\ tx[p][d] \in Seq(Used' \cup {NoMbuf})
  <2>1. tx[p][d] \in Seq(Cell) /\ tx[p][d] \in Seq(Used \cup {NoMbuf})
    BY <1>0, BufferTyped, BuffersHold
  <2>2. Append(tx[p][d], m) \in Seq(Used' \cup {NoMbuf})
    BY <1>1, HoldAfter, ZenonT(40)
  <2>3. PICK T : T = Used' \cup {NoMbuf}
    OBVIOUS
  <2>4. tx[p][d] \in Seq(T)
    <3>1. Append(tx[p][d], m) \in Seq(T)
      BY <2>2, <2>3, SMTT(40)
    <3> QED
      BY <2>1, <3>1, FrontOfAppend
  <2> QED
    BY <2>1, <2>3, <2>4
<1>7. Flat(g, Append(tx[p][d], m)) = Flat(g, tx[p][d]) \o g[m]
  BY <1>5, <1>6, FlatAppend, SMTT(40)
<1>8. Flat(g, tx[p][d]) = TxPart(p, d)
  <2>1. Flat(Held(p)', tx[p][d]) = Flat(Held(p), tx[p][d])
    BY <1>2, <1>6, HeldStays, PushingApart, SMTT(40)
  <2> QED
    BY <1>5, <2>1 DEF TxPart
<1>9. TxPart(p, d)' = TxPart(p, d) \o g[m]
  BY <1>1, <1>5, <1>7, <1>8, ZenonT(40) DEF TxPart
<1>10. OutputCopy(p) => g[m] = <<f>>
  <2>1. ASSUME OutputCopy(p) PROVE g[m] = <<f>>
    <3>1. m \in Mbufs /\ m # NoMbuf
      BY <1>0, <1>1, <2>1, DataPlaneAssumption DEF TypeOK
    <3>2. frame'[m] = f
      BY <1>0, <1>1, <1>3, <2>1, <3>1 DEF TypeOK
    <3> QED
      BY <1>3, <1>5, <3>1, <3>2 DEF Held
  <2> QED
    BY <2>1
<1>11. ~OutputCopy(p) => g[m] = << >>
  BY <1>1, <1>5 DEF Held
<1>12. PICK r \in Lists(Data), t \in Lists(Data), one \in Lists(Data) :
          r = RingPart(p, d) /\ t = TxPart(p, d) /\ one = <<f>>
  <2>1. <<f>> \in Lists(Data)
    BY DEF Lists
  <2> QED
    BY <2>1, PartsOf
<1>13. (r \o t) \o one = r \o (t \o one) /\ t \o << >> = t
  BY DataAssociative, DataConcat
<1>14. Copied(p, d) = r \o t /\ Copied(p, d)' = r \o (t \o g[m])
  BY <1>4, <1>9, <1>12, PartsOf, PartsAfter
<1> QED
  BY <1>1, <1>3, <1>10, <1>11, <1>12, <1>13, <1>14, ZenonT(40)

LEMMA CutInTwo ==
  ASSUME NEW S, NEW s \in Seq(S), NEW n \in Nat, n = Len(s), NEW t \in 1 .. n
  PROVE  s = SubSeq(s, 1, t) \o SubSeq(s, t + 1, n)
<1>1. PICK a \in Seq(S), b \in Seq(S) : a = SubSeq(s, 1, t) /\ b = SubSeq(s, t + 1, n)
  <2>1. SubSeq(s, 1, t) \in Seq(S) /\ SubSeq(s, t + 1, n) \in Seq(S)
    OBVIOUS
  <2> QED
    BY <2>1
<1>2. Len(a) = t /\ \A i \in 1 .. t : a[i] = s[i]
  BY <1>1
<1>3. Len(b) = n - t /\ \A i \in 1 .. n - t : b[i] = s[t + i]
  BY <1>1
<1>4. PICK c \in Seq(S) : c = a \o b
  BY ConcatProperties
<1>5. Len(c) = n /\ \A i \in 1 .. n : c[i] = IF i <= t THEN a[i] ELSE b[i - t]
  <2>1. /\ Len(c) = Len(a) + Len(b)
        /\ \A i \in 1 .. Len(a) + Len(b) : c[i] = IF i <= Len(a) THEN a[i] ELSE b[i - Len(a)]
    BY <1>4, ConcatProperties
  <2>2. Len(a) + Len(b) = n /\ Len(a) = t
    BY <1>2, <1>3
  <2> QED
    BY <2>1, <2>2
<1>6. ASSUME NEW i \in 1 .. n PROVE c[i] = s[i]
  <2>1. CASE i <= t
    BY <1>2, <1>5, <2>1
  <2>2. CASE ~(i <= t)
    <3>1. PICK j \in 1 .. n - t : j = i - t /\ t + j = i
      <4>1. i - t \in 1 .. n - t /\ t + (i - t) = i
        BY <2>2
      <4> QED
        BY <4>1
    <3> QED
      BY <1>3, <1>5, <2>2, <3>1
  <2> QED
    BY <2>1, <2>2
<1>7. c = [i \in 1 .. n |-> c[i]] /\ s = [i \in 1 .. n |-> s[i]]
  BY <1>5, LenProperties
<1> QED
  BY <1>1, <1>4, <1>6, <1>7

LEMMA CellConcat ==
  ASSUME NEW g \in [Cell -> Lists(Data)], NEW s \in Seq(Cell), NEW t \in Seq(Cell)
  PROVE  Flat(g, s \o t) = Flat(g, s) \o Flat(g, t)
  BY FlatConcat

\* What a worker hands to the ring moves from its row to the ring, and is of
\* no other port.
LEMMA CopiedReturn ==
  ASSUME IInv, IInv', Carried, NEW p \in Ports, ReturnTxBurst(p), NEW o \in Ports, NEW d \in Ports
  PROVE  Copied(o, d)' = Copied(o, d)
<1>0. TypeOK /\ TypeOK'
  BY DEF IInv
<1>1. Worker(p) /\ frame' = frame
  BY DEF Worker, Send, ReturnTxBurst
<1>2. CASE d # queue[p]
  <2>1. tx'[o][d] = tx[o][d] /\ ring'[d] = ring[d]
    BY <1>2, Bursts
  <2> QED
    BY <1>1, <2>1, CopiedStays
<1>3. CASE d = queue[p]
  <2>1. PICK b \in Seq(Cell), n \in Nat, t \in Nat :
          t \in 1 .. n /\ b = Batch(p) /\ b = tx[p][d] /\ n = Len(b) /\ t = Taken(p)
    <3>1. /\ Batch(p) \in Seq(Cell) /\ Batch(p) = tx[p][d]
          /\ Taken(p) \in 1 .. Len(Batch(p))
      BY <1>3, Bursts
    <3>2. Len(Batch(p)) \in Nat
      BY <3>1, LenProperties
    <3>3. Taken(p) \in Nat
      BY <3>1, <3>2
    <3> QED
      BY <3>1, <3>2, <3>3
  <2>2. PICK taken \in Seq(Cell), rest \in Seq(Cell) :
          taken = SubSeq(b, 1, t) /\ rest = SubSeq(b, t + 1, n)
    <3>1. SubSeq(b, 1, t) \in Seq(Cell) /\ SubSeq(b, t + 1, n) \in Seq(Cell)
      BY <2>1
    <3> QED
      BY <3>1
  <2>3. b = taken \o rest
    BY <2>1, <2>2, CutInTwo
  <2>4. \A i \in 1 .. Len(taken) : taken[i] # NoMbuf /\ \E j \in 1 .. n : taken[i] = b[j]
    <3>1. \A i \in 1 .. t : taken[i] = b[i] /\ i \in 1 .. n
      BY <2>1, <2>2
    <3>2. Len(taken) = t
      BY <2>1, <2>2
    <3>3. \A i \in 1 .. t : b[i] # NoMbuf
      BY <2>1 DEF ReturnTxBurst, NullTaken
    <3> QED
      BY <3>1, <3>2, <3>3
  <2>5. PICK r \in Seq(Cell) : r = ring[d]
    BY <1>0, MbufsAreCells DEF TypeOK
  <2>6. ring'[d] = r \o taken /\ tx'[o][d] = IF o = p THEN rest ELSE tx[o][d]
    BY <1>3, <2>1, <2>2, <2>5, Bursts
  <2>7. PICK g \in [Cell -> Lists(Data)] : g = Held(o) /\ Held(o)' = g
    <3>1. Held(o) \in [Cell -> Lists(Data)] /\ Held(o)' = Held(o)
      BY <1>0, <1>1, HeldType DEF Held
    <3> QED
      BY <3>1
  <2>8. Flat(g, r \o taken) = Flat(g, r) \o Flat(g, taken)
    BY CellConcat
  <2>9. RingPart(o, d)' = RingPart(o, d) \o Flat(g, taken)
    BY <2>5, <2>6, <2>7, <2>8 DEF RingPart
  <2>10. Flat(g, taken) \in Lists(Data) /\ Flat(g, rest) \in Lists(Data)
    BY MappedType
  <2>11. CASE o = p
    <3>1. TxPart(o, d) = Flat(g, taken) \o Flat(g, rest)
      <4>1. Flat(g, taken \o rest) = Flat(g, taken) \o Flat(g, rest)
        BY CellConcat
      <4> QED
        BY <2>1, <2>3, <2>7, <2>11, <4>1 DEF TxPart
    <3>2. TxPart(o, d)' = Flat(g, rest)
      BY <2>6, <2>7, <2>11 DEF TxPart
    <3>3. PICK rp \in Lists(Data), u \in Lists(Data), v \in Lists(Data) :
             rp = RingPart(o, d) /\ u = Flat(g, taken) /\ v = Flat(g, rest)
      BY <2>10, PartsOf
    <3>4. (rp \o u) \o v = rp \o (u \o v)
      BY DataAssociative
    <3>5. Copied(o, d) = rp \o (u \o v) /\ Copied(o, d)' = (rp \o u) \o v
      BY <2>9, <3>1, <3>2, <3>3, PartsOf, PartsAfter
    <3> QED
      BY <3>4, <3>5
  <2>12. CASE o # p
    <3>1. ASSUME NEW i \in 1 .. Len(taken) PROVE g[taken[i]] = << >>
      <4>1. PICK j \in 1 .. n : taken[i] = b[j]
        BY <2>4
      <4>2. b[j] # NoMbuf
        BY <2>4, <4>1
      <4>3. frame[b[j]].src = p
        BY <2>1, <4>2 DEF Carried, TxCarried
      <4>4. b[j] \in Cell
        BY <2>1, ElementOfSeq
      <4> QED
        BY <2>7, <2>12, <4>1, <4>3, <4>4 DEF Held
    <3>2. Flat(g, taken) = << >>
      BY <3>1, FlatNothing
    <3>3. RingPart(o, d)' = RingPart(o, d)
      <4>1. RingPart(o, d) \o << >> = RingPart(o, d)
        BY PartsOf, DataConcat
      <4> QED
        BY <2>9, <3>2, <4>1
    <3>4. TxPart(o, d)' = TxPart(o, d)
      BY <1>1, <2>6, <2>12, TxStays
    <3> QED
      BY <3>3, <3>4, PartsOf, PartsAfter, ZenonT(40)
  <2> QED
    BY <2>11, <2>12
<1> QED
  BY <1>2, <1>3

\* SendAllPackets gives up: the ring is full, and the row is empty after it.
LEMMA CopiedFull ==
  ASSUME IInv, IInv', NEW p \in Ports, FullTxBurst(p), NEW o \in Ports, NEW d \in Ports
  PROVE  /\ queue[p] \in Ports
         /\ ~(o = p /\ d = queue[p]) => Copied(o, d)' = Copied(o, d)
         /\ o = p /\ d = queue[p] => Copied(o, d)' = RingPart(o, d) /\ Len(ring[d]) >= RingSize
<1>0. TypeOK /\ Control
  BY DEF IInv
<1>1. Worker(p) /\ ring' = ring /\ ~ReturnTxBurst(p)
  BY DEF Worker, Send, FullTxBurst, ReturnTxBurst
<1>2. queue[p] \in Ports /\ Batch(p) = tx[p][queue[p]] /\ Batch(p) \in Seq(Cell)
  BY Bursts
<1>3. tx'[o][d] = IF o = p /\ d = queue[p] THEN << >> ELSE tx[o][d]
  BY <1>1, Bursts
<1>4. CASE ~(o = p /\ d = queue[p])
  BY <1>1, <1>2, <1>3, <1>4, CopiedStays
<1>5. CASE o = p /\ d = queue[p]
  <2>1. Len(ring[d]) >= RingSize
    <3>1. Batch(p) # << >>
      BY <1>0, <1>2 DEF Control, FullTxBurst, At
    <3>2. PICK n \in Nat, k \in Nat : n = Len(Batch(p)) /\ k = Len(ring[d]) /\ n > 0
      <4>1. Len(Batch(p)) \in Nat /\ Len(Batch(p)) > 0
        BY <1>2, <3>1
      <4>2. ring[d] \in Seq(Mbufs)
        BY <1>0 DEF TypeOK
      <4>3. Len(ring[d]) \in Nat
        BY <4>2, LenProperties
      <4> QED
        BY <4>1, <4>3
    <3>3. (IF n <= RingSize - k THEN n ELSE RingSize - k) = 0
      BY <1>5, <3>2 DEF FullTxBurst, Taken, Room
    <3>4. RingSize \in Nat
      BY DataPlaneAssumption
    <3> QED
      BY <3>2, <3>3, <3>4
  <2>2. TxPart(o, d)' = << >>
    BY <1>3, <1>5, FlatEmpty DEF TxPart
  <2>3. RingPart(o, d)' = RingPart(o, d)
    BY <1>1, RingStays
  <2>4. Copied(o, d)' = RingPart(o, d) \o << >>
    BY <2>2, <2>3, PartsAfter
  <2>5. RingPart(o, d) \o << >> = RingPart(o, d)
    BY PartsOf, DataConcat
  <2> QED
    BY <1>2, <1>5, <2>1, <2>4, <2>5
<1> QED
  BY <1>2, <1>4, <1>5

\* The NIC sends the frame in front of the ring: the head of its channel.
Sent(q) == frame[Head(ring[q])]

\* Transmit takes the first copy off the channel of its port of arrival.
LEMMA CopiedTransmit ==
  ASSUME IInv, IInv', NEW q \in Ports, Transmit(q), NEW o \in Ports, NEW d \in Ports
  PROVE  /\ Sent(q) \in Frames /\ wire' = [wire EXCEPT ![q] = Append(@, Sent(q))]
         /\ d = q /\ o = Sent(q).src => Copied(o, d) = <<Sent(q)>> \o Copied(o, d)'
         /\ ~(d = q /\ o = Sent(q).src) => Copied(o, d) = Copied(o, d)'
<1>0. TypeOK
  BY DEF IInv
<1>1. ring[q] # << >> /\ tx' = tx /\ ring' = [ring EXCEPT ![q] = Tail(@)]
      /\ wire' = [wire EXCEPT ![q] = Append(@, frame[Head(ring[q])])]
  BY DEF Transmit
<1>2. PICK f \in Frames, h \in Mbufs : h = Head(ring[q]) /\ f = frame[h] /\ f = Sent(q)
  BY <1>1, RingHeadIsLive DEF IInv, Sent
<1>3. ring'[d] = IF d = q THEN Tail(ring[q]) ELSE ring[d]
  BY <1>0, <1>1 DEF TypeOK
<1>4. CASE d # q
  <2>1. Copied(o, d)' = Copied(o, d)
    BY <1>1, <1>3, <1>4, CopiedStays, SMTT(40)
  <2> QED
    BY <1>1, <1>2, <1>4, <2>1 DEF Sent
<1>5. CASE d = q
  <2>1. TxPart(o, d)' = TxPart(o, d)
    BY <1>1, TxStays
  <2>2. PICK r \in Seq(Cell), g \in [Cell -> Lists(Data)] : r = ring[q] /\ g = Held(o)
    <3>1. ring[q] \in Seq(Mbufs)
      BY <1>0 DEF TypeOK
    <3>2. ring[q] \in Seq(Cell) /\ Held(o) \in [Cell -> Lists(Data)]
      BY <1>0, <3>1, MbufsAreCells, HeldType
    <3> QED
      BY <3>2
  <2>3. Flat(g, r) = g[h] \o Flat(g, Tail(r))
    BY <1>1, <1>2, <2>2, FlatHead
  <2>4. g[h] = IF o = f.src THEN <<f>> ELSE << >>
    <3>1. h # NoMbuf /\ h \in Cell
      BY DataPlaneAssumption DEF Cell
    <3> QED
      BY <1>2, <2>2, <3>1 DEF Held
  <2>5. RingPart(o, d)' = Flat(g, Tail(r))
    <3>1. ring'[q] \in Seq(Used') /\ ring[q] \in Seq(Used)
      BY HoldAfter, BuffersHold
    <3>2. Tail(r) \in Seq(Used) /\ Tail(r) \in Seq(Used')
      BY <1>1, <1>3, <1>5, <2>2, <3>1
    <3>3. Tail(r) \in Seq(Used \cup {NoMbuf}) /\ Tail(r) \in Seq(Used' \cup {NoMbuf})
      BY <3>2
    <3>4. \A i \in 1 .. Len(Tail(r)) : Tail(r)[i] \notin Pushing(q)
      <4>1. \A i \in 1 .. Len(Tail(r)) : i + 1 \in 1 .. Len(r) /\ Tail(r)[i] = r[i + 1]
        BY <1>1, <2>2
      <4> QED
        BY <2>2, <4>1, PushingApart
    <3>5. Flat(Held(o)', Tail(r)) = Flat(Held(o), Tail(r))
      BY <3>3, <3>4, HeldStays
    <3> QED
      BY <1>3, <1>5, <2>2, <3>5 DEF RingPart
  <2>6. PICK rest \in Lists(Data), t \in Lists(Data), one \in Lists(Data) :
          rest = Flat(g, Tail(r)) /\ t = TxPart(o, d) /\ one = <<f>>
    <3>1. <<f>> \in Lists(Data) /\ Tail(r) \in Seq(Cell)
      BY <1>1, <2>2 DEF Lists, Data
    <3>2. Flat(g, Tail(r)) \in Lists(Data)
      BY <3>1, MappedType
    <3> QED
      BY <3>1, <3>2, PartsOf
  <2>7. Copied(o, d) = (g[h] \o rest) \o t /\ Copied(o, d)' = rest \o t
    BY <1>5, <2>1, <2>2, <2>3, <2>5, <2>6, PartsOf, PartsAfter, ZenonT(40) DEF RingPart
  <2>8. (one \o rest) \o t = one \o (rest \o t) /\ << >> \o rest = rest
    BY DataAssociative, DataConcat
  <2> QED
    BY <1>1, <1>2, <1>5, <2>4, <2>6, <2>7, <2>8, Zenon DEF Sent
<1> QED
  BY <1>4, <1>5

-----------------------------------------------------------------------------
(* The refinement: each step of the data plane is one of LossyForwarding,
   or changes nothing it speaks of. *)

-----------------------------------------------------------------------------
(* The abstract definitions are the data plane's own. *)

LEMMA SameTags == ASSUME NEW a PROVE Abstract!PushedTags(a) = PushedTags(a)
  BY DEF Abstract!PushedTags, PushedTags, Abstract!IsPush, IsPush,
         Abstract!FlattenSeq, FlattenSeq

LEMMA SameCount == ASSUME NEW S PROVE Abstract!Cardinality(S) = Cardinality(S)
  BY DEF Abstract!Cardinality, Cardinality

LEMMA SameModified == ASSUME NEW f, NEW a PROVE Abstract!Modified(f, a) = Modified(f, a)
  BY SameTags DEF Abstract!Modified, Modified

LEMMA SameEmitted ==
  ASSUME NEW f, NEW a, NEW q
  PROVE  Abstract!Emitted(f, a, q) = Emitted(f, a, q)
  BY SameCount, SameModified DEF Abstract!Emitted, Emitted, Abstract!OUTPUT, OUTPUT

LEMMA SameActions ==
  ASSUME NEW r, NEW f
  PROVE  Abstract!ActionsFor(r, f) = ActionsFor(r, f)
  BY DEF Abstract!ActionsFor, ActionsFor

LEMMA SamePorts == Abstract!Ports = Ports
  BY DEF Abstract!Ports, Ports

-----------------------------------------------------------------------------
(* Sequences cut open. *)

LosesSegment(s, r) ==
  \E first \in DOMAIN s : \E last \in first .. Len(s) :
    r = SubSeq(s, 1, first - 1) \o SubSeq(s, last + 1, Len(s))

\* Taking a run out of the middle is what Lose does.
LEMMA SegmentLost ==
  ASSUME NEW T, NEW a \in Seq(T), NEW b \in Seq(T), NEW c \in Seq(T), b # << >>
  PROVE  LosesSegment((a \o b) \o c, a \o c)
<1>0. PICK s : s = (a \o b) \o c
  OBVIOUS
<1>1. PICK i \in Nat, j \in Nat, k \in Nat : i = Len(a) /\ j = Len(b) /\ k = Len(c) /\ j > 0
  <2>1. Len(a) \in Nat /\ Len(b) \in Nat /\ Len(c) \in Nat
    BY LenProperties
  <2>2. Len(b) # 0
    OBVIOUS
  <2> QED
    BY <2>1, <2>2
<1>2. PICK ab \in Seq(T) : ab = a \o b
  BY ConcatProperties
<1>3. s \in Seq(T) /\ s = ab \o c
  BY <1>0, <1>2, ConcatProperties
<1>4. Len(ab) = i + j /\ \A n \in 1 .. i : ab[n] = a[n]
  <2>1. /\ Len(ab) = Len(a) + Len(b)
        /\ \A n \in 1 .. Len(a) + Len(b) : ab[n] = IF n <= Len(a) THEN a[n] ELSE b[n - Len(a)]
    BY <1>2, ConcatProperties
  <2> QED
    BY <1>1, <2>1
<1>5. /\ Len(s) = i + j + k
      /\ \A n \in 1 .. i : s[n] = a[n]
      /\ \A n \in 1 .. k : s[i + j + n] = c[n]
  <2>1. /\ Len(s) = Len(ab) + Len(c)
        /\ \A n \in 1 .. Len(ab) + Len(c) : s[n] = IF n <= Len(ab) THEN ab[n] ELSE c[n - Len(ab)]
    BY <1>3, ConcatProperties
  <2>2. \A n \in 1 .. i + j + k : s[n] = IF n <= i + j THEN ab[n] ELSE c[n - (i + j)]
    BY <1>1, <1>4, <2>1
  <2>3. ASSUME NEW n \in 1 .. i PROVE s[n] = a[n]
    <3>1. n \in 1 .. i + j + k /\ n <= i + j
      OBVIOUS
    <3>2. s[n] = ab[n]
      BY <2>2, <3>1
    <3> QED
      BY <1>4, <3>2
  <2>4. ASSUME NEW n \in 1 .. k PROVE s[i + j + n] = c[n]
    <3>1. i + j + n \in 1 .. i + j + k /\ ~(i + j + n <= i + j) /\ (i + j + n) - (i + j) = n
      OBVIOUS
    <3> QED
      BY <2>2, <3>1
  <2> QED
    BY <1>1, <1>4, <2>1, <2>3, <2>4
<1>6. SubSeq(s, 1, i) = a
  <2>1. SubSeq(s, 1, i) = [n \in 1 .. i |-> s[n]]
    BY <1>3, <1>5
  <2>2. a = [n \in 1 .. i |-> a[n]]
    BY <1>1, LenProperties
  <2> QED
    BY <1>5, <2>1, <2>2
<1>7. SubSeq(s, i + j + 1, i + j + k) = c
  <2>0. PICK m \in Nat, o \in Nat : m = i + j + 1 /\ o = i + j + k /\ o = Len(s)
    BY <1>5
  <2>1. PICK u \in Seq(T) : u = SubSeq(s, i + j + 1, i + j + k)
    <3>1. SubSeq(s, m, o) \in Seq(T)
      BY <1>1, <1>3, <2>0, SubSeqProperties
    <3> QED
      BY <2>0, <3>1
  <2>2. Len(u) = k /\ \A n \in 1 .. k : u[n] = s[i + j + n]
    BY <1>3, <1>5, <2>1, SMTT(40)
  <2>3. u = [n \in 1 .. k |-> u[n]] /\ c = [n \in 1 .. k |-> c[n]]
    BY <1>1, <2>2, LenProperties
  <2>4. \A n \in 1 .. k : u[n] = c[n]
    BY <1>5, <2>2
  <2> QED
    BY <2>1, <2>3, <2>4
<1>8. i + 1 \in DOMAIN s /\ i + j \in i + 1 .. Len(s) /\ (i + 1) - 1 = i
  BY <1>1, <1>3, <1>5, SMTT(40)
<1> QED
  BY <1>0, <1>5, <1>6, <1>7, <1>8 DEF LosesSegment

LEMMA FirstOff ==
  ASSUME NEW T, NEW x \in T, NEW s \in Seq(T)
  PROVE  <<x>> \o s # << >> /\ Head(<<x>> \o s) = x /\ Tail(<<x>> \o s) = s
<1>1. PICK one \in Seq(T) : one = <<x>> /\ Len(one) = 1 /\ one[1] = x
  <2>1. <<x>> \in Seq(T) /\ Len(<<x>>) = 1 /\ <<x>>[1] = x
    OBVIOUS
  <2> QED
    BY <2>1
<1>2. PICK n \in Nat : n = Len(s)
  BY LenProperties
<1>3. PICK u \in Seq(T) : u = one \o s
  BY ConcatProperties
<1>4. Len(u) = n + 1 /\ u[1] = x /\ \A i \in 1 .. n : u[i + 1] = s[i]
  <2>1. /\ Len(u) = Len(one) + Len(s)
        /\ \A i \in 1 .. Len(one) + Len(s) : u[i] = IF i <= Len(one) THEN one[i] ELSE s[i - Len(one)]
    BY <1>3, ConcatProperties
  <2>2. Len(u) = n + 1 /\ \A i \in 1 .. n + 1 : u[i] = IF i <= 1 THEN one[i] ELSE s[i - 1]
    BY <1>1, <1>2, <2>1
  <2>3. u[1] = x
    BY <1>1, <2>2
  <2>4. ASSUME NEW i \in 1 .. n PROVE u[i + 1] = s[i]
    <3>1. i + 1 \in 1 .. n + 1 /\ ~(i + 1 <= 1) /\ (i + 1) - 1 = i
      OBVIOUS
    <3> QED
      BY <2>2, <3>1
  <2> QED
    BY <2>2, <2>3, <2>4
<1>5. u # << >>
  BY <1>4, EmptySeq
<1>6. /\ Head(u) = u[1] /\ Tail(u) \in Seq(T) /\ Len(Tail(u)) = Len(u) - 1
      /\ \A i \in 1 .. Len(Tail(u)) : Tail(u)[i] = u[i + 1]
  BY <1>5, HeadTailProperties
<1>7. PICK t \in Seq(T) : t = Tail(u) /\ Len(t) = n /\ \A i \in 1 .. n : t[i] = u[i + 1]
  <2>1. Len(Tail(u)) = n
    BY <1>4, <1>6
  <2> QED
    BY <1>6, <2>1
<1>8. t = [i \in 1 .. n |-> t[i]] /\ s = [i \in 1 .. n |-> s[i]]
  BY <1>2, <1>7, LenProperties
<1>9. t = s
  BY <1>4, <1>7, <1>8, ZenonT(40)
<1> QED
  BY <1>1, <1>3, <1>4, <1>5, <1>6, <1>7, <1>9, Zenon

-----------------------------------------------------------------------------
(* The channels as one function. *)

LEMMA ChannelsAt ==
  ASSUME NEW p \in Ports, NEW q \in Ports
  PROVE  Channels[p][q] = Channel(p, q)
  BY DEF Channels

LEMMA ChannelsStay ==
  ASSUME \A o, d \in Ports : Channel(o, d)' = Channel(o, d)
  PROVE  Channels' = Channels
<1>1. Channels' = [o \in Ports |-> [d \in Ports |-> Channel(o, d)']]
  BY DEF Channels
<1>2. Channels = [o \in Ports |-> [d \in Ports |-> Channel(o, d)]]
  BY DEF Channels
<1> QED
  BY <1>1, <1>2

LEMMA OneChannel ==
  ASSUME NEW p \in Ports, NEW q \in Ports, NEW s, Channel(p, q)' = s,
         \A o, d \in Ports : ~(o = p /\ d = q) => Channel(o, d)' = Channel(o, d)
  PROVE  Channels' = [Channels EXCEPT ![p][q] = s]
<1>1. Channels' = [o \in Ports |-> [d \in Ports |-> Channel(o, d)']]
  BY DEF Channels
<1>2. Channels = [o \in Ports |-> [d \in Ports |-> Channel(o, d)]]
  BY DEF Channels
<1>3. \A o, d \in Ports : Channel(o, d)' = IF o = p /\ d = q THEN s ELSE Channel(o, d)
  OBVIOUS
<1> QED
  BY <1>1, <1>2, <1>3

\* Frames that follow each other leave one channel.
LEMMA SegmentLeaves ==
  ASSUME NEW p \in Ports, NEW q \in Ports,
         NEW a \in Lists(Data), NEW b \in Lists(Data), NEW c \in Lists(Data),
         Channel(p, q) = (a \o b) \o c, Channel(p, q)' = a \o c,
         \A o, d \in Ports : ~(o = p /\ d = q) => Channel(o, d)' = Channel(o, d),
         UNCHANGED <<rules, arrived, wire>>
  PROVE  [Abstract!Next]_(Abstract!vars)
<1>1. CASE b = << >>
  <2>1. a \o b = a
    BY <1>1, DataConcat
  <2>2. \A o, d \in Ports : Channel(o, d)' = Channel(o, d)
    BY <2>1
  <2>3. Channels' = Channels
    BY <2>2, ChannelsStay
  <2> QED
    BY <2>3 DEF Abstract!vars
<1>2. CASE b # << >>
  <2>1. a \in Seq(Data) /\ b \in Seq(Data) /\ c \in Seq(Data)
    BY DEF Lists
  <2>2. PICK s : s = (a \o b) \o c
    OBVIOUS
  <2>3. LosesSegment(s, a \o c)
    BY <1>2, <2>1, <2>2, SegmentLost
  <2>4. PICK first \in DOMAIN s : \E last \in first .. Len(s) :
           a \o c = SubSeq(s, 1, first - 1) \o SubSeq(s, last + 1, Len(s))
    BY <2>3 DEF LosesSegment
  <2>9. PICK last \in first .. Len(s) :
           a \o c = SubSeq(s, 1, first - 1) \o SubSeq(s, last + 1, Len(s))
    BY <2>4
  <2>5. Channels[p][q] = s
    BY <2>2, ChannelsAt
  <2>6. Channels' = [Channels EXCEPT ![p][q] = a \o c]
    BY OneChannel
  <2>7. Channels' = [Channels EXCEPT ![p][q] = SubSeq(@, 1, first - 1) \o SubSeq(@, last + 1, Len(@))]
    BY <2>9, <2>5, <2>6
  <2>8. Abstract!Lose(p, q)
    BY <2>5, <2>7 DEF Abstract!Lose
  <2> QED
    BY <2>8, SamePorts DEF Abstract!Next
<1> QED
  BY <1>1, <1>2

\* No step of a worker writes the wire, and only RxOne writes the arrivals.
LEMMA HistoryStays ==
  ASSUME NEW p \in Ports, Worker(p)
  PROVE  UNCHANGED <<rules, wire>> /\ (RxOne(p) \/ UNCHANGED arrived)
<1>1. CASE Loop(p)
  BY <1>1 DEF Loop, Leave, BeginDrain, SkipDrain, DrainPort, EndDrain
<1>2. CASE Receive(p)
  BY <1>2 DEF Receive, RxOne, RxDone
<1>3. CASE Process(p)
  BY <1>3 DEF Process, ProcessDone, Unsupported, Unruled, Ruled
<1>4. CASE Execute(p)
  BY <1>4 DEF Execute, Drop, Push, OutputCopy, OutputNull, Finish
<1>5. CASE Send(p)
  BY <1>5 DEF Send, CallTxBurst, RaceTxBurst, NullTxBurst, ReturnTxBurst, FullTxBurst
<1> QED
  BY <1>1, <1>2, <1>3, <1>4, <1>5 DEF Worker

\* What is owed and what is copied, when worker p does none of the steps
\* that change them.
LEMMA OwedAll ==
  ASSUME IInv, IInv', Carried, RxIsLatest, NEW p \in Ports, Worker(p),
         NEW o \in Ports, NEW d \in Ports,
         o # p \/ ~(RxOne(p) \/ OutputCopy(p) \/ OutputNull(p))
  PROVE  Owed(o, d)' = Owed(o, d)
<1>1. CASE o # p
  BY <1>1, OwedOfOthers
<1>2. CASE o = p
  BY <1>2, OwedQuiet
<1> QED
  BY <1>1, <1>2

LEMMA CopiedAll ==
  ASSUME IInv, IInv', Carried, NEW p \in Ports, Worker(p), NEW o \in Ports, NEW d \in Ports,
         ~((OutputCopy(p) \/ OutputNull(p)) /\ o = p /\ d = Head(todo[p]).port),
         ~(FullTxBurst(p) /\ o = p /\ d = queue[p])
  PROVE  Copied(o, d)' = Copied(o, d)
<1>0. TypeOK
  BY DEF IInv
<1>1. CASE OutputCopy(p) \/ OutputNull(p)
  <2>1. tx'[o][d] = tx[o][d]
    BY <1>0, <1>1, BufferedIs
  <2>2. ring' = ring
    BY <1>1 DEF OutputCopy, OutputNull
  <2> QED
    BY <2>1, <2>2, CopiedStays
<1>2. CASE ReturnTxBurst(p)
  BY <1>2, CopiedReturn
<1>3. CASE FullTxBurst(p)
  BY <1>3, CopiedFull
<1>4. CASE ~(OutputCopy(p) \/ OutputNull(p) \/ ReturnTxBurst(p) \/ FullTxBurst(p))
  <2>1. tx' = tx /\ (ring' = ring \/ Transmit(p))
    BY <1>4, RowsStay
  <2>2. ring' = ring
    BY <1>4 DEF Worker, Loop, Leave, BeginDrain, SkipDrain, DrainPort, EndDrain, Receive, RxOne,
       RxDone, Process, ProcessDone, Unsupported, Unruled, Ruled, Execute, Drop, Push, Finish,
       Send, CallTxBurst, RaceTxBurst, NullTxBurst
  <2> QED
    BY <2>1, <2>2, CopiedStays
<1> QED
  BY <1>1, <1>2, <1>3, <1>4

LEMMA ChannelFromParts ==
  ASSUME IInv, IInv', NEW o \in Ports, NEW d \in Ports,
         Copied(o, d)' = Copied(o, d), Owed(o, d)' = Owed(o, d)
  PROVE  Channel(o, d)' = Channel(o, d)
  BY PartsOf, PartsAfter

\* Steps that forward nothing, and the copy that moves from one part of the
\* channel to another, are invisible.
LEMMA QuietRefines ==
  ASSUME IInv, IInv', Carried, RxIsLatest, NEW p \in Ports, Worker(p),
         ~(RxOne(p) \/ OutputNull(p) \/ FullTxBurst(p))
  PROVE  UNCHANGED (Abstract!vars)
<1>1. ASSUME NEW o \in Ports, NEW d \in Ports PROVE Channel(o, d)' = Channel(o, d)
  <2>1. CASE OutputCopy(p) /\ o = p
    <3>1. CASE d = Head(todo[p]).port
      <4>1. PICK f \in Data : f = frame[Head(rx[p])]
        BY <2>1, <3>1, CopiedOutput
      <4>2. Copied(p, d)' = Copied(p, d) \o <<f>>
        BY <2>1, <3>1, <4>1, CopiedOutput
      <4>3. Owed(p, d) = <<f>> \o Owed(p, d)'
        BY <2>1, <3>1, <4>1, OwedOutput
      <4>4. PICK c \in Lists(Data), one \in Lists(Data), w \in Lists(Data) :
              c = Copied(p, d) /\ one = <<f>> /\ w = Owed(p, d)'
        <5>1. <<f>> \in Lists(Data)
          BY DEF Lists
        <5>2. Copied(p, d) \in Lists(Data) /\ Owed(p, d)' \in Lists(Data)
          BY PartsOf, PartsAfter
        <5> QED
          BY <5>1, <5>2
      <4>5. (c \o one) \o w = c \o (one \o w)
        BY DataAssociative
      <4>6. Channel(p, d) = c \o (one \o w) /\ Channel(p, d)' = (c \o one) \o w
        <5>1. Channel(p, d) = Copied(p, d) \o Owed(p, d)
          BY PartsOf
        <5>2. Channel(p, d)' = Copied(p, d)' \o Owed(p, d)'
          BY PartsAfter
        <5> QED
          BY <4>2, <4>3, <4>4, <5>1, <5>2
      <4> QED
        BY <2>1, <4>5, <4>6
    <3>2. CASE d # Head(todo[p]).port
      <4>1. Copied(o, d)' = Copied(o, d)
        BY <2>1, <3>2, CopiedAll DEF OutputCopy, FullTxBurst, Doing, At
      <4>2. Owed(o, d)' = Owed(o, d)
        BY <2>1, <3>2, OwedOutput
      <4> QED
        BY <4>1, <4>2, ChannelFromParts
    <3> QED
      BY <3>1, <3>2
  <2>2. CASE ~(OutputCopy(p) /\ o = p)
    <3>1. Owed(o, d)' = Owed(o, d)
      BY <2>2, OwedAll
    <3>2. Copied(o, d)' = Copied(o, d)
      BY <2>2, CopiedAll
    <3> QED
      BY <3>1, <3>2, ChannelFromParts
  <2> QED
    BY <2>1, <2>2
<1>2. Channels' = Channels
  BY <1>1, ChannelsStay
<1>3. UNCHANGED <<rules, wire, arrived>>
  BY HistoryStays
<1> QED
  BY <1>2, <1>3 DEF Abstract!vars

\* A null pointer in the place of a copy loses the frame that was due.
LEMMA NullRefines ==
  ASSUME IInv, IInv', Carried, RxIsLatest, NEW p \in Ports, OutputNull(p)
  PROVE  [Abstract!Next]_(Abstract!vars)
<1>0. TypeOK /\ Worker(p)
  BY DEF IInv, Worker, Execute
<1>1. PICK q \in Ports : q = Head(todo[p]).port
  BY <1>0, BufferedIs
<1>2. ~OutputCopy(p) /\ ~FullTxBurst(p) /\ ~RxOne(p)
  <2>1. pool = {} /\ pc[p] = "actions"
    BY DEF OutputNull, Doing, At
  <2> QED
    BY <2>1 DEF OutputCopy, FullTxBurst, RxOne, At
<1>3. PICK f \in Data : f = frame[Head(rx[p])]
  BY <1>1, CopiedOutput
<1>4. Copied(p, q)' = Copied(p, q) /\ Owed(p, q) = <<f>> \o Owed(p, q)'
  BY <1>1, <1>2, <1>3, CopiedOutput, OwedOutput
<1>5. PICK a \in Lists(Data), b \in Lists(Data), c \in Lists(Data) :
        a = Copied(p, q) /\ b = <<f>> /\ c = Owed(p, q)'
  <2>1. <<f>> \in Lists(Data)
    BY DEF Lists
  <2>2. Copied(p, q) \in Lists(Data) /\ Owed(p, q)' \in Lists(Data)
    BY PartsOf, PartsAfter
  <2> QED
    BY <2>1, <2>2
<1>6. Channel(p, q) = (a \o b) \o c /\ Channel(p, q)' = a \o c
  <2>1. Channel(p, q) = Copied(p, q) \o Owed(p, q)
    BY PartsOf
  <2>2. Channel(p, q)' = Copied(p, q)' \o Owed(p, q)'
    BY PartsAfter
  <2>3. (a \o b) \o c = a \o (b \o c)
    BY DataAssociative
  <2> QED
    BY <1>4, <1>5, <2>1, <2>2, <2>3
<1>7. ASSUME NEW o \in Ports, NEW d \in Ports, ~(o = p /\ d = q)
      PROVE  Channel(o, d)' = Channel(o, d)
  <2>1. Copied(o, d)' = Copied(o, d)
    BY <1>0, <1>1, <1>2, <1>7, CopiedAll
  <2>2. Owed(o, d)' = Owed(o, d)
    <3>1. CASE o = p
      BY <1>1, <1>7, <3>1, OwedOutput
    <3>2. CASE o # p
      BY <1>0, <3>2, OwedAll
    <3> QED
      BY <3>1, <3>2
  <2> QED
    BY <2>1, <2>2, ChannelFromParts
<1>8. UNCHANGED <<rules, arrived, wire>>
  BY <1>0, <1>2, HistoryStays
<1>9. \A o, d \in Ports : ~(o = p /\ d = q) => Channel(o, d)' = Channel(o, d)
  BY <1>7
<1> QED
  BY <1>6, <1>8, <1>9, SegmentLeaves

\* Giving up on a full ring loses what the row held for it.
LEMMA FullRefines ==
  ASSUME IInv, IInv', Carried, RxIsLatest, NEW p \in Ports, FullTxBurst(p)
  PROVE  [Abstract!Next]_(Abstract!vars)
<1>0. Worker(p) /\ ~(RxOne(p) \/ OutputCopy(p) \/ OutputNull(p))
  BY DEF Worker, Send, FullTxBurst, RxOne, OutputCopy, OutputNull, Doing, At
<1>1. PICK q \in Ports : q = queue[p]
  BY CopiedFull
<1>2. Copied(p, q)' = RingPart(p, q) /\ Owed(p, q)' = Owed(p, q)
  BY <1>0, <1>1, CopiedFull, OwedAll
<1>3. PICK a \in Lists(Data), b \in Lists(Data), c \in Lists(Data) :
        a = RingPart(p, q) /\ b = TxPart(p, q) /\ c = Owed(p, q)
  <2>1. RingPart(p, q) \in Lists(Data) /\ TxPart(p, q) \in Lists(Data) /\ Owed(p, q) \in Lists(Data)
    BY PartsOf
  <2> QED
    BY <2>1
<1>4. Channel(p, q) = (a \o b) \o c
  BY <1>3, PartsOf
<1>5. Channel(p, q)' = a \o c
  BY <1>2, <1>3, PartsAfter
<1>6. ASSUME NEW o \in Ports, NEW d \in Ports, ~(o = p /\ d = q)
      PROVE  Channel(o, d)' = Channel(o, d)
  <2>1. Copied(o, d)' = Copied(o, d) /\ Owed(o, d)' = Owed(o, d)
    BY <1>0, <1>1, <1>6, CopiedFull, OwedAll
  <2> QED
    BY <2>1, ChannelFromParts
<1>7. \A o, d \in Ports : ~(o = p /\ d = q) => Channel(o, d)' = Channel(o, d)
  BY <1>6
<1>8. UNCHANGED <<rules, arrived, wire>>
  BY <1>0, HistoryStays
<1> QED
  BY <1>4, <1>5, <1>7, <1>8, SegmentLeaves, ZenonT(40)

\* The NIC takes the head of one channel to its wire.
LEMMA TransmitRefines ==
  ASSUME IInv, IInv', NEW q \in Ports, Transmit(q)
  PROVE  \E p \in Ports : Abstract!Deliver(p, q)
<1>1. PICK f \in Frames : f = Sent(q) /\ wire' = [wire EXCEPT ![q] = Append(@, f)]
  BY CopiedTransmit
<1>2. PICK p \in Ports : p = f.src
  BY DEF Frames
<1>3. ASSUME NEW o \in Ports, NEW d \in Ports
      PROVE  Channel(o, d) = IF o = p /\ d = q THEN <<f>> \o Channel(o, d)' ELSE Channel(o, d)'
  <2>0. f = Sent(q) /\ p = Sent(q).src
    BY <1>1, <1>2
  <2>1. /\ d = q /\ o = Sent(q).src => Copied(o, d) = <<Sent(q)>> \o Copied(o, d)'
        /\ ~(d = q /\ o = Sent(q).src) => Copied(o, d) = Copied(o, d)'
    BY CopiedTransmit
  <2>2. Owed(o, d)' = Owed(o, d)
    BY OwedOfOthers
  <2>3. PICK c \in Lists(Data), w \in Lists(Data), one \in Lists(Data) :
          c = Copied(o, d)' /\ w = Owed(o, d) /\ one = <<f>>
    <3>1. Copied(o, d)' \in Lists(Data) /\ Owed(o, d) \in Lists(Data)
      BY PartsOf, PartsAfter
    <3>2. <<f>> \in Lists(Data)
      BY DEF Lists, Data
    <3> QED
      BY <3>1, <3>2
  <2>4. Channel(o, d)' = c \o w
    BY <2>2, <2>3, PartsAfter
  <2>5. Channel(o, d) = Copied(o, d) \o w
    BY <2>3, PartsOf
  <2>6. (one \o c) \o w = one \o (c \o w)
    BY DataAssociative
  <2>7. CASE o = p /\ d = q
    <3>1. Copied(o, d) = one \o c
      BY <2>0, <2>1, <2>3, <2>7
    <3> QED
      BY <2>3, <2>4, <2>5, <2>6, <2>7, <3>1
  <2>8. CASE ~(o = p /\ d = q)
    <3>1. Copied(o, d) = c
      BY <2>0, <2>1, <2>3, <2>8
    <3> QED
      BY <2>4, <2>5, <2>8, <3>1
  <2> QED
    BY <2>7, <2>8
<1>4. PICK s \in Seq(Data) : s = Channel(p, q)'
  <2>1. Copied(p, q)' \in Lists(Data) /\ Owed(p, q)' \in Lists(Data)
        /\ Channel(p, q)' = Copied(p, q)' \o Owed(p, q)'
    BY PartsAfter
  <2>2. Channel(p, q)' \in Lists(Data)
    BY <2>1, DataConcat
  <2> QED
    BY <2>2 DEF Lists
<1>5. Channel(p, q) = <<f>> \o s
  BY <1>3, <1>4
<1>6. <<f>> \o s # << >> /\ Head(<<f>> \o s) = f /\ Tail(<<f>> \o s) = s
  <2>1. f \in Data
    BY DEF Data
  <2> QED
    BY <2>1, FirstOff
<1>7. Channels[p][q] # << >> /\ Head(Channels[p][q]) = f /\ Tail(Channels[p][q]) = s
  BY <1>5, <1>6, ChannelsAt
<1>8. \A o, d \in Ports : ~(o = p /\ d = q) => Channel(o, d)' = Channel(o, d)
  BY <1>3
<1>9. Channels' = [Channels EXCEPT ![p][q] = s]
  BY <1>4, <1>8, OneChannel
<1>10. Channels' = [Channels EXCEPT ![p][q] = Tail(@)]
  BY <1>7, <1>9
<1>11. wire' = [wire EXCEPT ![q] = Append(@, Head(Channels[p][q]))]
  BY <1>1, <1>7
<1>12. UNCHANGED <<rules, arrived>>
  BY DEF Transmit
<1>13. Abstract!Deliver(p, q)
  BY <1>7, <1>10, <1>11, <1>12 DEF Abstract!Deliver
<1> QED
  BY <1>13

\* A received frame puts on each channel what its rule says.
LEMMA ReceiveRefines ==
  ASSUME IInv, IInv', Carried, NEW p \in Ports, RxOne(p)
  PROVE  \E class \in Traffic : Abstract!Accept(p, class)
<1>0. Worker(p) /\ ~OutputCopy(p) /\ ~OutputNull(p) /\ ~FullTxBurst(p)
  BY DEF Worker, Receive, RxOne, OutputCopy, OutputNull, FullTxBurst, Doing, At
<1>1. PICK class \in Traffic : \E f :
        /\ f = [src |-> p, no |-> Len(arrived[p]) + 1, class |-> class, tags |-> << >>]
        /\ arrived' = [arrived EXCEPT ![p] = Append(@, class)]
        /\ \A d \in Ports :
             /\ Emitted(f, ActionsFor(rules, f), d) \in Lists(Data)
             /\ Owed(p, d)' = Owed(p, d) \o Emitted(f, ActionsFor(rules, f), d)
  BY OwedReceived, ZenonT(40)
<1>f. PICK f :
        /\ f = [src |-> p, no |-> Len(arrived[p]) + 1, class |-> class, tags |-> << >>]
        /\ arrived' = [arrived EXCEPT ![p] = Append(@, class)]
        /\ \A d \in Ports :
             /\ Emitted(f, ActionsFor(rules, f), d) \in Lists(Data)
             /\ Owed(p, d)' = Owed(p, d) \o Emitted(f, ActionsFor(rules, f), d)
  BY <1>1
<1> DEFINE more(d) == Emitted(f, ActionsFor(rules, f), d)
<1>2. ASSUME NEW d \in Ports PROVE Channel(p, d)' = Channel(p, d) \o more(d)
  <2>1. Copied(p, d)' = Copied(p, d)
    BY <1>0, CopiedAll
  <2>2. PICK c \in Lists(Data), w \in Lists(Data), e \in Lists(Data) :
          c = Copied(p, d) /\ w = Owed(p, d) /\ e = more(d)
    <3>1. Copied(p, d) \in Lists(Data) /\ Owed(p, d) \in Lists(Data) /\ more(d) \in Lists(Data)
      BY <1>f, PartsOf
    <3> QED
      BY <3>1
  <2>3. Owed(p, d)' = w \o e
    BY <1>f, <2>2
  <2>4. Channel(p, d)' = c \o (w \o e)
    BY <2>1, <2>2, <2>3, PartsAfter
  <2>5. Channel(p, d) = c \o w
    BY <2>2, PartsOf
  <2>6. (c \o w) \o e = c \o (w \o e)
    BY DataAssociative
  <2> QED
    BY <2>2, <2>4, <2>5, <2>6
<1>3. ASSUME NEW o \in Ports, NEW d \in Ports, o # p PROVE Channel(o, d)' = Channel(o, d)
  <2>1. Copied(o, d)' = Copied(o, d) /\ Owed(o, d)' = Owed(o, d)
    BY <1>0, <1>3, CopiedAll, OwedOfOthers
  <2> QED
    BY <2>1, ChannelFromParts
<1> HIDE DEF more
<1>4. Channels' = [Channels EXCEPT ![p] = [d \in Ports |-> @[d] \o more(d)]]
  <2>1. Channels' = [o \in Ports |-> [d \in Ports |-> Channel(o, d)']]
    BY DEF Channels
  <2>2. Channels = [o \in Ports |-> [d \in Ports |-> Channel(o, d)]]
    BY DEF Channels
  <2>3. [d \in Ports |-> Channel(p, d)'] = [d \in Ports |-> Channels[p][d] \o more(d)]
    BY <1>2, <2>2
  <2>4. \A o \in Ports : o # p => [d \in Ports |-> Channel(o, d)'] = [d \in Ports |-> Channel(o, d)]
    BY <1>3
  <2> QED
    BY <2>1, <2>2, <2>3, <2>4
<1>5. Abstract!Original(p, Len(arrived[p]) + 1, class) = f
  BY <1>f DEF Abstract!Original
<1>6. \A d : Abstract!Emitted(f, Abstract!ActionsFor(rules, f), d) = more(d)
  BY SameEmitted, SameActions DEF more
<1>7. Len(arrived[p]) < MaxArrivals /\ UNCHANGED <<rules, wire>>
  BY DEF RxOne
<1>8. Abstract!Accept(p, class)
  BY <1>f, <1>4, <1>5, <1>6, <1>7, SamePorts DEF Abstract!Accept
<1> QED
  BY <1>8

\* Each step is one of LossyForwarding or stutters.
LEMMA StepRefines ==
  IInv /\ IInv' /\ Carried /\ RxIsLatest /\ [Next]_vars => [Abstract!Next]_(Abstract!vars)
<1> SUFFICES ASSUME IInv, IInv', Carried, RxIsLatest, [Next]_vars
             PROVE  [Abstract!Next]_(Abstract!vars)
  OBVIOUS
<1>1. ASSUME NEW p \in Ports, Worker(p) PROVE [Abstract!Next]_(Abstract!vars)
  <2>1. CASE RxOne(p)
    BY <2>1, ReceiveRefines, SamePorts DEF Abstract!Next
  <2>2. CASE OutputNull(p)
    BY <2>2, NullRefines
  <2>3. CASE FullTxBurst(p)
    BY <2>3, FullRefines
  <2>4. CASE ~(RxOne(p) \/ OutputNull(p) \/ FullTxBurst(p))
    BY <1>1, <2>4, QuietRefines
  <2> QED
    BY <2>1, <2>2, <2>3, <2>4
<1>2. ASSUME NEW q \in Ports, Transmit(q) PROVE [Abstract!Next]_(Abstract!vars)
  BY <1>2, TransmitRefines, SamePorts DEF Abstract!Next
<1>3. CASE Sigint \/ UNCHANGED vars
  <2>1. UNCHANGED <<rules, arrived, wire, rx, tx, ring, frame, pc, todo>>
    BY <1>3 DEF Sigint, vars
  <2>2. Channels' = Channels
    BY <2>1 DEF Channels, Channel, Copied, Owed, FramesOf, Begun
  <2> QED
    BY <2>1, <2>2 DEF Abstract!vars
<1> QED
  BY <1>1, <1>2, <1>3 DEF Next, Stopped

\* The initial states have empty channels.
LEMMA InitRefines == Init => Abstract!Init
<1> SUFFICES ASSUME Init PROVE Abstract!Init
  OBVIOUS
<1>1. IInv
  BY InitInvariant
<1>2. ASSUME NEW p \in Ports, NEW q \in Ports PROVE Channel(p, q) = << >>
  <2>1. ring[q] = << >> /\ tx[p][q] = << >> /\ rx[p] = << >>
    BY DEF Init
  <2>2. RingPart(p, q) = << >> /\ TxPart(p, q) = << >>
    BY <2>1, FlatEmpty DEF RingPart, TxPart
  <2>3. Owed(p, q) = << >>
    BY <1>1, <2>1, OwedIs
  <2>4. << >> \o << >> = << >>
    BY EmptyList, DataConcat
  <2>5. Channel(p, q) = (<< >> \o << >>) \o << >>
    BY <1>1, <2>2, <2>3, PartsOf
  <2> QED
    BY <2>4, <2>5
<1>3. Channels = [p \in Ports |-> [q \in Ports |-> << >>]]
  BY <1>2 DEF Channels
<1> QED
  BY <1>3, SamePorts DEF Init, Abstract!Init

\* What the refinement rests on, in every reachable state.
LEMMA CarriedHolds == Spec => [](IInv /\ RxIsLatest /\ Carried)
<1>1. Init => Carried
  BY InitCarried
<1>2. IInv /\ IInv' /\ Carried /\ [Next]_vars => Carried'
  <2> SUFFICES ASSUME IInv, IInv', Carried, [Next]_vars PROVE Carried'
    OBVIOUS
  <2>1. CASE \E p \in Ports : Worker(p) \/ Transmit(p)
    BY <2>1, CarriedKept
  <2>2. CASE Sigint \/ UNCHANGED vars
    <3>1. UNCHANGED <<rx, tx, frame, todo>>
      BY <2>2 DEF Sigint, vars
    <3> QED
      BY <3>1 DEF Carried, RxCarried, TxCarried, Sorted
  <2> QED
    BY <2>1, <2>2 DEF Next, Stopped
<1>3. Spec => [](IInv /\ RxIsLatest)
  BY LatestHolds
<1> QED
  BY <1>1, <1>2, <1>3, PTL DEF Spec

\* The data plane implements the lossy channels: whatever the workers, their
\* buffers, the mempool and the rings do, each step is an accepted frame, a
\* delivered head, a lost run of frames, or nothing at all.
THEOREM Refinement == Spec => LossyForwarder
<1>1. Init => Abstract!Init
  BY InitRefines
<1>2. IInv /\ IInv' /\ Carried /\ RxIsLatest /\ [Next]_vars => [Abstract!Next]_(Abstract!vars)
  BY StepRefines
<1> QED
  BY <1>1, <1>2, CarriedHolds, PTL DEF Spec, LossyForwarder, Abstract!Spec

-----------------------------------------------------------------------------
(* When a frame is lost. *)

\* The lengths of the parts of a channel.
LEMMA DataLength ==
  ASSUME NEW s \in Lists(Data), NEW t \in Lists(Data)
  PROVE  Len(s) \in Nat /\ Len(t) \in Nat /\ Len(s \o t) = Len(s) + Len(t)
  BY ConcatProperties DEF Lists

LEMMA OneDatum == ASSUME NEW f \in Data PROVE <<f>> \in Lists(Data) /\ Len(<<f>>) = 1
  BY DEF Lists

\* A channel is as long as its two parts together.
LEMMA ChannelLength ==
  ASSUME IInv, IInv', NEW o \in Ports, NEW d \in Ports
  PROVE  /\ Len(Copied(o, d)) \in Nat /\ Len(Owed(o, d)) \in Nat
         /\ Len(Copied(o, d)') \in Nat /\ Len(Owed(o, d)') \in Nat
         /\ Len(Channel(o, d)) = Len(Copied(o, d)) + Len(Owed(o, d))
         /\ Len(Channel(o, d)') = Len(Copied(o, d)') + Len(Owed(o, d)')
<1>1. PICK c \in Lists(Data), w \in Lists(Data), c1 \in Lists(Data), w1 \in Lists(Data) :
        /\ c = Copied(o, d) /\ w = Owed(o, d) /\ Channel(o, d) = c \o w
        /\ c1 = Copied(o, d)' /\ w1 = Owed(o, d)' /\ Channel(o, d)' = c1 \o w1
  <2>1. /\ Copied(o, d) \in Lists(Data) /\ Owed(o, d) \in Lists(Data)
        /\ Channel(o, d) = Copied(o, d) \o Owed(o, d)
    BY PartsOf
  <2>2. /\ Copied(o, d)' \in Lists(Data) /\ Owed(o, d)' \in Lists(Data)
        /\ Channel(o, d)' = Copied(o, d)' \o Owed(o, d)'
    BY PartsAfter
  <2> QED
    BY <2>1, <2>2, Zenon
<1>2. Len(c) \in Nat /\ Len(w) \in Nat /\ Len(c \o w) = Len(c) + Len(w)
  BY DataLength
<1>3. Len(c1) \in Nat /\ Len(w1) \in Nat /\ Len(c1 \o w1) = Len(c1) + Len(w1)
  BY DataLength
<1> QED
  BY <1>1, <1>2, <1>3

\* What a step that is not OUTPUT, a full ring or the NIC leaves of a channel.
LEMMA WorkerKeeps ==
  ASSUME IInv, IInv', Carried, RxIsLatest, NEW p \in Ports, Worker(p),
         NEW o \in Ports, NEW d \in Ports, Len(ring[d]) < RingSize
  PROVE  /\ Len(Copied(o, d)') >= Len(Copied(o, d))
         /\ pool # {} => Len(Channel(o, d)') >= Len(Channel(o, d))
<1>0. /\ Len(Copied(o, d)) \in Nat /\ Len(Owed(o, d)) \in Nat
      /\ Len(Copied(o, d)') \in Nat /\ Len(Owed(o, d)') \in Nat
      /\ Len(Channel(o, d)) = Len(Copied(o, d)) + Len(Owed(o, d))
      /\ Len(Channel(o, d)') = Len(Copied(o, d)') + Len(Owed(o, d)')
  BY ChannelLength
<1>1. Len(ring[d]) \in Nat /\ RingSize \in Nat
  BY DataPlaneAssumption DEF IInv, TypeOK
<1>2. ~(FullTxBurst(p) /\ o = p /\ d = queue[p])
  <2> SUFFICES ASSUME FullTxBurst(p), o = p, d = queue[p] PROVE FALSE
    OBVIOUS
  <2>1. Len(ring[d]) >= RingSize
    BY CopiedFull
  <2> QED
    BY <1>1, <2>1
<1>3. CASE (OutputCopy(p) \/ OutputNull(p)) /\ o = p /\ d = Head(todo[p]).port
  <2>1. /\ OutputCopy(p) => Copied(o, d)' = Copied(o, d) \o <<frame[Head(rx[p])]>>
        /\ ~OutputCopy(p) => Copied(o, d)' = Copied(o, d) /\ pool = {}
        /\ frame[Head(rx[p])] \in Data
    BY <1>3, CopiedOutput
  <2>2. Owed(o, d) = <<frame[Head(rx[p])]>> \o Owed(o, d)'
    BY <1>3, OwedOutput
  <2>3. PICK one \in Lists(Data), c \in Lists(Data), w1 \in Lists(Data) :
          one = <<frame[Head(rx[p])]>> /\ c = Copied(o, d) /\ w1 = Owed(o, d)' /\ Len(one) = 1
    <3>1. Copied(o, d) \in Lists(Data) /\ Owed(o, d)' \in Lists(Data)
      BY PartsOf, PartsAfter
    <3>2. <<frame[Head(rx[p])]>> \in Lists(Data) /\ Len(<<frame[Head(rx[p])]>>) = 1
      BY <2>1, OneDatum
    <3> QED
      BY <3>1, <3>2
  <2>4. Len(c \o one) = Len(c) + 1 /\ Len(one \o w1) = 1 + Len(w1)
    BY <2>3, DataLength
  <2>5. Len(Owed(o, d)) = 1 + Len(Owed(o, d)')
    BY <2>2, <2>3, <2>4
  <2>6. CASE OutputCopy(p)
    <3>1. Len(Copied(o, d)') = Len(Copied(o, d)) + 1
      BY <2>1, <2>3, <2>4, <2>6
    <3> QED
      BY <1>0, <2>5, <3>1
  <2>7. CASE ~OutputCopy(p)
    <3>1. Copied(o, d)' = Copied(o, d) /\ pool = {}
      BY <2>1, <2>7
    <3> QED
      BY <1>0, <3>1
  <2> QED
    BY <2>6, <2>7
<1>4. CASE ~((OutputCopy(p) \/ OutputNull(p)) /\ o = p /\ d = Head(todo[p]).port)
  <2>1. Copied(o, d)' = Copied(o, d)
    BY <1>2, <1>4, CopiedAll
  <2>2. Len(Owed(o, d)') >= Len(Owed(o, d))
    <3>1. CASE o # p \/ ~(RxOne(p) \/ OutputCopy(p) \/ OutputNull(p))
      <4>1. Owed(o, d)' = Owed(o, d)
        BY <3>1, OwedAll
      <4> QED
        BY <1>0, <4>1
    <3>2. CASE o = p /\ (OutputCopy(p) \/ OutputNull(p))
      <4>1. Owed(o, d)' = Owed(o, d)
        BY <1>4, <3>2, OwedOutput
      <4> QED
        BY <1>0, <4>1
    <3>3. CASE o = p /\ RxOne(p)
      <4>1. PICK more : more \in Lists(Data) /\ Owed(o, d)' = Owed(o, d) \o more
        BY <3>3, OwedReceived
      <4>2. PICK w \in Lists(Data) : w = Owed(o, d)
        BY PartsOf
      <4>3. Len(more) \in Nat /\ Len(w \o more) = Len(w) + Len(more)
        BY <4>1, <4>2, DataLength
      <4>4. Len(Owed(o, d)') = Len(Owed(o, d)) + Len(more)
        BY <4>1, <4>2, <4>3
      <4> QED
        BY <1>0, <4>3, <4>4
    <3> QED
      BY <3>1, <3>2, <3>3
  <2>3. Len(Copied(o, d)') = Len(Copied(o, d))
    BY <2>1
  <2> QED
    BY <1>0, <2>2, <2>3
<1> QED
  BY <1>3, <1>4

\* The NIC shortens only the channels to the port it sends from.
LEMMA TransmitKeeps ==
  ASSUME IInv, IInv', NEW q \in Ports, Transmit(q),
         NEW o \in Ports, NEW d \in Ports, wire'[d] = wire[d]
  PROVE  Copied(o, d)' = Copied(o, d) /\ Channel(o, d)' = Channel(o, d)
<1>1. d # q
  <2> SUFFICES ASSUME d = q PROVE FALSE
    OBVIOUS
  <2>1. Sent(q) \in Frames /\ wire' = [wire EXCEPT ![q] = Append(@, Sent(q))]
    BY CopiedTransmit
  <2>2. wire \in [Ports -> Seq(Frames)]
    BY DEF IInv, TypeOK
  <2>3. PICK s \in Seq(Frames), f \in Frames : s = wire[q] /\ f = Sent(q) /\ wire'[q] = Append(s, f)
    BY <2>1, <2>2
  <2>4. Len(Append(s, f)) = Len(s) + 1 /\ Len(s) \in Nat
    OBVIOUS
  <2>5. Append(s, f) = s
    BY <2>3
  <2> QED
    BY <2>4, <2>5
<1>2. Copied(o, d) = Copied(o, d)'
  BY <1>1, CopiedTransmit
<1>3. Owed(o, d)' = Owed(o, d)
  BY OwedOfOthers
<1> QED
  BY <1>2, <1>3, ChannelFromParts

LEMMA StepLoses ==
  ASSUME IInv, IInv', Carried, RxIsLatest, [Next]_vars,
         NEW o \in Ports, NEW d \in Ports, wire'[d] = wire[d], Len(ring[d]) < RingSize
  PROVE  /\ Len(Copied(o, d)') >= Len(Copied(o, d))
         /\ pool # {} => Len(Channel(o, d)') >= Len(Channel(o, d))
<1>0. /\ Len(Copied(o, d)) \in Nat /\ Len(Owed(o, d)) \in Nat
      /\ Len(Channel(o, d)) = Len(Copied(o, d)) + Len(Owed(o, d))
  BY ChannelLength
<1>1. CASE \E p \in Ports : Worker(p)
  BY <1>1, WorkerKeeps
<1>2. CASE Copied(o, d)' = Copied(o, d) /\ Channel(o, d)' = Channel(o, d)
  <2>1. Len(Copied(o, d)') = Len(Copied(o, d)) /\ Len(Channel(o, d)') = Len(Channel(o, d))
    BY <1>2
  <2> QED
    BY <1>0, <2>1
<1>3. CASE \E p \in Ports : Transmit(p)
  BY <1>2, <1>3, TransmitKeeps
<1>4. CASE Sigint \/ UNCHANGED vars
  <2>1. UNCHANGED <<rules, arrived, wire, rx, tx, ring, frame, pc, todo>>
    BY <1>4 DEF Sigint, vars
  <2>2. Copied(o, d)' = Copied(o, d) /\ Channel(o, d)' = Channel(o, d)
    BY <2>1 DEF Channel, Copied, Owed, FramesOf, Begun
  <2> QED
    BY <1>2, <2>2
<1> QED
  BY <1>1, <1>3, <1>4 DEF Next, Stopped

\* A frame due on a port is given up only when the mempool is empty at the
\* moment it is copied, or when the TX ring is full at the moment it is sent.
THEOREM GivenUpOnlyUnderPressure == Spec => LossOnlyUnderPressure
<1> DEFINE Keeps == \A p, q \in Ports :
             wire'[q] = wire[q] /\ Len(ring[q]) < RingSize =>
               /\ Len(Copied(p, q))' >= Len(Copied(p, q))
               /\ pool # {} => Len(Channel(p, q))' >= Len(Channel(p, q))
<1>1. IInv /\ IInv' /\ Carried /\ RxIsLatest /\ [Next]_vars => [Keeps]_vars
  BY StepLoses
<1> HIDE DEF Keeps
<1>2. Spec => [][Keeps]_vars
  BY <1>1, CarriedHolds, PTL DEF Spec
<1> QED
  BY <1>2 DEF LossOnlyUnderPressure, Keeps

-----------------------------------------------------------------------------
(* What the abstract channels promise of the wires.  How often an element is
   in a sequence, and what is left when a run is taken out of one. *)

\* How often an element is in a sequence, and whether it is there at all.
LEMMA TimesSeq ==
  ASSUME NEW S, NEW s \in Seq(S), NEW x
  PROVE  /\ Times(s, x) \in Nat /\ Times(s, x) <= Len(s)
         /\ (\A i \in DOMAIN s : s[i] # x) => Times(s, x) = 0
         /\ \A i \in DOMAIN s : s[i] = x => Times(s, x) > 0
<1>1. PICK n \in Nat : n = Len(s) /\ DOMAIN s = 1 .. n
  BY LenProperties
<1> DEFINE W == {i \in 1 .. n : s[i] = x}
<1>2. Times(s, x) = Cardinality(W)
  BY <1>1 DEF Times
<1>3. IsFiniteSet(1 .. n) /\ Cardinality(1 .. n) = n
  BY FS_Interval
<1>4. W \in SUBSET (1 .. n)
  OBVIOUS
<1>5. /\ \A i \in 1 .. n : s[i] = x => W # {}
      /\ (\A i \in 1 .. n : s[i] # x) => W = {}
  OBVIOUS
<1> HIDE DEF W
<1>6. IsFiniteSet(W) /\ Cardinality(W) <= n
  BY <1>3, <1>4, FS_Subset
<1>7. Cardinality(W) \in Nat /\ (Cardinality(W) = 0 <=> W = {})
  BY <1>6, FS_CardinalityType, FS_EmptySet
<1>8. Times(s, x) \in Nat /\ Times(s, x) <= Len(s)
  BY <1>1, <1>2, <1>6, <1>7
<1>9. (\A i \in DOMAIN s : s[i] # x) => Times(s, x) = 0
  BY <1>1, <1>2, <1>5, <1>7
<1>10. ASSUME NEW i \in DOMAIN s, s[i] = x PROVE Times(s, x) > 0
  <2>1. Cardinality(W) # 0
    BY <1>1, <1>5, <1>7, <1>10
  <2> QED
    BY <1>2, <1>7, <2>1
<1> QED
  BY <1>8, <1>9, <1>10

\* Concatenation adds.
LEMMA TimesConcat ==
  ASSUME NEW S, NEW s \in Seq(S), NEW t \in Seq(S), NEW x
  PROVE  Times(s \o t, x) = Times(s, x) + Times(t, x)
<1>1. PICK n \in Nat, k \in Nat : /\ n = Len(s) /\ DOMAIN s = 1 .. n
                                  /\ k = Len(t) /\ DOMAIN t = 1 .. k
  BY LenProperties
<1>2. PICK u \in Seq(S) : u = s \o t
  BY ConcatProperties
<1>3. /\ DOMAIN u = 1 .. n + k
      /\ \A i \in 1 .. n : u[i] = s[i]
      /\ \A i \in 1 .. k : u[i + n] = t[i]
  <2>1. Len(u) = n + k /\ \A i \in 1 .. n + k : u[i] = IF i <= n THEN s[i] ELSE t[i - n]
    BY <1>1, <1>2, ConcatProperties
  <2>2. DOMAIN u = 1 .. n + k
    BY <2>1, LenProperties
  <2>3. ASSUME NEW i \in 1 .. n PROVE u[i] = s[i]
    <3>1. i \in 1 .. n + k /\ i <= n
      OBVIOUS
    <3> QED
      BY <2>1, <3>1
  <2>4. ASSUME NEW i \in 1 .. k PROVE u[i + n] = t[i]
    <3>1. i + n \in 1 .. n + k /\ ~(i + n <= n) /\ (i + n) - n = i
      OBVIOUS
    <3> QED
      BY <2>1, <3>1
  <2> QED
    BY <2>2, <2>3, <2>4
<1> DEFINE A == {i \in 1 .. n : s[i] = x}
           T == {i \in 1 .. k : t[i] = x}
           B == {i \in n + 1 .. n + k : u[i] = x}
           W == {i \in 1 .. n + k : u[i] = x}
           f == [i \in T |-> i + n]
<1>4. IsFiniteSet(A) /\ IsFiniteSet(T)
  <2>1. IsFiniteSet(1 .. n) /\ IsFiniteSet(1 .. k)
        /\ A \in SUBSET (1 .. n) /\ T \in SUBSET (1 .. k)
    BY FS_Interval
  <2> QED
    BY <2>1, FS_Subset
<1>5. f \in Bijection(T, B)
  <2>1. f \in [T -> B] /\ \A i, j \in T : f[i] = f[j] => i = j
    BY <1>3
  <2>2. ASSUME NEW j \in B PROVE \E i \in T : f[i] = j
    <3>1. j - n \in 1 .. k /\ j = (j - n) + n
      OBVIOUS
    <3>2. t[j - n] = u[j]
      BY <1>3, <3>1
    <3>3. j - n \in T
      BY <3>1, <3>2
    <3> QED
      BY <3>1, <3>3
  <2> HIDE DEF T, B, f
  <2>3. f \in Injection(T, B)
    BY <2>1 DEF Injection, IsInjective
  <2>4. f \in Surjection(T, B)
    BY <2>1, <2>2 DEF Surjection
  <2> QED
    BY <2>3, <2>4 DEF Bijection
<1>6. W = A \cup B /\ A \cap B = {}
  <2>1. A = {i \in 1 .. n : u[i] = x}
    BY <1>3
  <2> QED
    BY <2>1
<1>7. /\ Times(u, x) = Cardinality(W) /\ Times(s, x) = Cardinality(A)
      /\ Times(t, x) = Cardinality(T)
  BY <1>1, <1>3 DEF Times
<1> HIDE DEF A, B, T, W, f
<1>8. IsFiniteSet(B) /\ Cardinality(B) = Cardinality(T)
  <2>1. ExistsBijection(T, B)
    BY <1>5 DEF ExistsBijection
  <2> QED
    BY <1>4, <2>1, FS_Bijection
<1>9. Cardinality(A) \in Nat /\ Cardinality(B) \in Nat /\ Cardinality({}) = 0
  BY <1>4, <1>8, FS_CardinalityType, FS_EmptySet
<1>10. Cardinality(W) = Cardinality(A) + Cardinality(B) - Cardinality({})
  BY <1>4, <1>6, <1>8, FS_Union
<1> QED
  BY <1>2, <1>7, <1>8, <1>9, <1>10

\* r has some of the elements of s, in the order of s.
Thinned(r, s) ==
  /\ \A i, j \in DOMAIN r : \E k, l \in DOMAIN s :
       r[i] = s[k] /\ r[j] = s[l] /\ (i < j => k < l)
  /\ \A x : Times(r, x) <= Times(s, x)

\* What is left when a run is taken out of a sequence.
LEMMA RunOut ==
  ASSUME NEW S, NEW s \in Seq(S), NEW n \in Nat, n = Len(s),
         NEW first \in 1 .. n, NEW last \in first .. n,
         NEW r, r = SubSeq(s, 1, first - 1) \o SubSeq(s, last + 1, n)
  PROVE  r \in Seq(S) /\ Thinned(r, s)
<1>1. PICK a \in Seq(S), b \in Seq(S), c \in Seq(S), d \in Seq(S) :
        /\ a = SubSeq(s, 1, first - 1) /\ b = SubSeq(s, first, last)
        /\ c = SubSeq(s, last + 1, n) /\ d = SubSeq(s, 1, last)
  <2>1. /\ SubSeq(s, 1, first - 1) \in Seq(S) /\ SubSeq(s, first, last) \in Seq(S)
        /\ SubSeq(s, last + 1, n) \in Seq(S) /\ SubSeq(s, 1, last) \in Seq(S)
    BY SubSeqProperties
  <2> QED
    BY <2>1
<1>2. /\ Len(a) = first - 1 /\ \A i \in 1 .. first - 1 : a[i] = s[i]
      /\ Len(c) = n - last /\ \A i \in 1 .. n - last : c[i] = s[last + i]
      /\ Len(d) = last /\ \A i \in 1 .. last : d[i] = s[i]
  <2>1. Len(a) = first - 1 /\ \A i \in 1 .. first - 1 : a[i] = s[i]
    BY <1>1
  <2>2. Len(c) = n - last /\ \A i \in 1 .. n - last : c[i] = s[last + i]
    BY <1>1
  <2>3. Len(d) = last /\ \A i \in 1 .. last : d[i] = s[i]
    BY <1>1
  <2> QED
    BY <2>1, <2>2, <2>3
<1>3. r = a \o c /\ r \in Seq(S)
  BY <1>1, ConcatProperties
<1>4. DOMAIN s = 1 .. n /\ DOMAIN r = 1 .. first - 1 + (n - last)
      /\ \A i \in DOMAIN r : r[i] = s[IF i < first THEN i ELSE i + (last - first + 1)]
  <2>1. /\ DOMAIN s = 1 .. n /\ Len(r) = first - 1 + (n - last)
        /\ DOMAIN r = 1 .. Len(r)
        /\ \A i \in 1 .. first - 1 + (n - last) :
             r[i] = IF i <= first - 1 THEN a[i] ELSE c[i - (first - 1)]
    <3>1. /\ Len(a \o c) = Len(a) + Len(c)
          /\ \A i \in 1 .. Len(a) + Len(c) :
               (a \o c)[i] = IF i <= Len(a) THEN a[i] ELSE c[i - Len(a)]
      BY ConcatProperties
    <3>2. DOMAIN s = 1 .. n /\ DOMAIN r = 1 .. Len(r)
      BY <1>3, LenProperties
    <3>3. /\ Len(r) = Len(a) + Len(c)
          /\ \A i \in 1 .. Len(a) + Len(c) : r[i] = IF i <= Len(a) THEN a[i] ELSE c[i - Len(a)]
      BY <1>3, <3>1, Zenon
    <3> QED
      BY <1>2, <3>2, <3>3
  <2>2. ASSUME NEW i \in 1 .. first - 1 + (n - last)
        PROVE  r[i] = s[IF i < first THEN i ELSE i + (last - first + 1)]
    <3>1. CASE i < first
      <4>1. i <= first - 1 /\ i \in 1 .. first - 1
        BY <3>1
      <4> QED
        BY <1>2, <2>1, <3>1, <4>1
    <3>2. CASE ~(i < first)
      <4>1. ~(i <= first - 1) /\ i - (first - 1) \in 1 .. n - last
            /\ last + (i - (first - 1)) = i + (last - first + 1)
        BY <3>2
      <4>2. r[i] = c[i - (first - 1)]
        BY <2>1, <4>1
      <4>3. c[i - (first - 1)] = s[last + (i - (first - 1))]
        BY <1>2, <4>1
      <4> QED
        BY <3>2, <4>1, <4>2, <4>3
    <3> QED
      BY <3>1, <3>2
  <2> QED
    BY <2>1, <2>2
<1>5. ASSUME NEW i \in DOMAIN r, NEW j \in DOMAIN r
      PROVE  \E k, l \in DOMAIN s : r[i] = s[k] /\ r[j] = s[l] /\ (i < j => k < l)
  <2>1. PICK k \in DOMAIN s, l \in DOMAIN s :
          /\ k = IF i < first THEN i ELSE i + (last - first + 1)
          /\ l = IF j < first THEN j ELSE j + (last - first + 1)
    <3>1. i \in 1 .. first - 1 + (n - last) /\ j \in 1 .. first - 1 + (n - last)
      BY <1>4
    <3>2. (IF i < first THEN i ELSE i + (last - first + 1)) \in 1 .. n
      BY <3>1
    <3>3. (IF j < first THEN j ELSE j + (last - first + 1)) \in 1 .. n
      BY <3>1
    <3> QED
      BY <1>4, <3>2, <3>3
  <2>2. i < j => k < l
    BY <1>4, <2>1
  <2>3. r[i] = s[k] /\ r[j] = s[l]
    BY <1>4, <2>1
  <2> QED
    BY <2>2, <2>3
<1>6. ASSUME NEW x PROVE Times(r, x) <= Times(s, x)
  <2>1. s = d \o c
    <3>1. last \in 1 .. n
      OBVIOUS
    <3> QED
      BY <1>1, <3>1, CutInTwo
  <2>2. Times(a, x) <= Times(d, x)
    <3>1. CASE first = 1
      <4>1. a = << >>
        BY <1>2, <3>1, EmptySeq
      <4> QED
        BY <4>1, TimesNone, TimesSeq
    <3>2. CASE first # 1
      <4>1. first - 1 \in 1 .. last
        BY <3>2
      <4>2. d = SubSeq(d, 1, first - 1) \o SubSeq(d, first - 1 + 1, last)
        BY <1>2, <4>1, CutInTwo
      <4>3. SubSeq(d, 1, first - 1) = a
        <5>1. SubSeq(d, 1, first - 1) = [i \in 1 .. first - 1 |-> d[i]]
          BY <1>2, <4>1
        <5>2. a = [i \in 1 .. first - 1 |-> s[i]]
          BY <1>1, <1>2
        <5>3. \A i \in 1 .. first - 1 : d[i] = s[i]
          BY <1>2, <4>1
        <5> QED
          BY <5>1, <5>2, <5>3
      <4>4. SubSeq(d, first - 1 + 1, last) \in Seq(S)
        BY <1>2, <4>1
      <4>5. PICK e \in Seq(S) : d = a \o e
        BY <4>2, <4>3, <4>4
      <4>6. Times(d, x) = Times(a, x) + Times(e, x)
        BY <4>5, TimesConcat
      <4>7. Times(a, x) \in Nat /\ Times(e, x) \in Nat
        BY TimesSeq
      <4> QED
        BY <4>6, <4>7
    <3> QED
      BY <3>1, <3>2
  <2>3. Times(r, x) = Times(a, x) + Times(c, x) /\ Times(s, x) = Times(d, x) + Times(c, x)
    <3>1. Times(a \o c, x) = Times(a, x) + Times(c, x) /\ Times(d \o c, x) = Times(d, x) + Times(c, x)
      BY TimesConcat
    <3> QED
      BY <1>3, <2>1, <3>1, Zenon
  <2>4. Times(a, x) \in Nat /\ Times(c, x) \in Nat /\ Times(d, x) \in Nat
    BY TimesSeq
  <2> QED
    BY <2>2, <2>3, <2>4
<1> QED
  BY <1>3, <1>5, <1>6, Zenon DEF Thinned

-----------------------------------------------------------------------------
(* One channel and its wire: the frames of a port come in the order in which
   they arrived, those on the wire first. *)

\* c holds frames of port p, in the order of their numbers, none above n.
Queued(p, n, c) ==
  /\ c \in Seq(Frames)
  /\ \A j \in DOMAIN c : c[j].src = p /\ c[j].no \in 1 .. n
  /\ \A i, j \in DOMAIN c : i < j => c[i].no <= c[j].no

\* The frames of port p on the wire w come in the order of their numbers too,
\* and before those of c.
Ahead(p, n, w, c) ==
  /\ w \in Seq(Frames)
  /\ \A i \in DOMAIN w : w[i].src = p =>
       /\ w[i].no \in 1 .. n
       /\ \A j \in DOMAIN w : i < j /\ w[j].src = p => w[i].no <= w[j].no
       /\ \A j \in DOMAIN c : w[i].no <= c[j].no

LEMMA QueuedMore ==
  ASSUME NEW p, NEW n \in Nat, NEW w, NEW c, NEW e \in Seq(Frames),
         Queued(p, n, c), Ahead(p, n, w, c),
         \A k \in DOMAIN e : e[k].src = p /\ e[k].no = n + 1
  PROVE  Queued(p, n + 1, c \o e) /\ Ahead(p, n + 1, w, c \o e)
<1>1. PICK u \in Seq(Frames) : u = c \o e
  BY ConcatProperties DEF Queued
<1>2. PICK l \in Nat, k \in Nat : /\ l = Len(c) /\ DOMAIN c = 1 .. l
                                  /\ k = Len(e) /\ DOMAIN e = 1 .. k
  BY LenProperties DEF Queued
<1>3. DOMAIN u = 1 .. l + k /\ \A i \in 1 .. l + k : u[i] = IF i <= l THEN c[i] ELSE e[i - l]
  <2>1. /\ Len(c \o e) = Len(c) + Len(e)
        /\ \A i \in 1 .. Len(c) + Len(e) : (c \o e)[i] = IF i <= Len(c) THEN c[i] ELSE e[i - Len(c)]
    BY ConcatProperties DEF Queued
  <2>2. DOMAIN u = 1 .. Len(u)
    BY LenProperties
  <2> QED
    BY <1>1, <1>2, <2>1, <2>2
<1>4. \A i \in 1 .. l : u[i].src = p /\ u[i].no \in 1 .. n /\ u[i] = c[i]
  <2> TAKE i \in 1 .. l
  <2>1. i \in 1 .. l + k /\ i <= l
    OBVIOUS
  <2> QED
    BY <1>2, <1>3, <2>1 DEF Queued
<1>5. \A i \in l + 1 .. l + k : u[i].src = p /\ u[i].no = n + 1
  <2> TAKE i \in l + 1 .. l + k
  <2>1. i \in 1 .. l + k /\ ~(i <= l) /\ i - l \in 1 .. k
    OBVIOUS
  <2> QED
    BY <1>2, <1>3, <2>1
<1>6. ASSUME NEW i \in DOMAIN u
      PROVE  u[i].src = p /\ u[i].no \in 1 .. n + 1 /\ (i \in 1 .. l \/ u[i].no = n + 1)
  <2>1. i \in 1 .. l \/ i \in l + 1 .. l + k
    BY <1>3
  <2> QED
    BY <1>4, <1>5, <2>1
<1>7. ASSUME NEW i \in DOMAIN u, NEW j \in DOMAIN u, i < j PROVE u[i].no <= u[j].no
  <2>1. CASE j \in 1 .. l
    <3>1. i \in 1 .. l
      BY <1>3, <1>7, <2>1
    <3> QED
      BY <1>2, <1>4, <1>7, <2>1, <3>1 DEF Queued
  <2>2. CASE j \notin 1 .. l
    BY <1>6, <2>2
  <2> QED
    BY <2>1, <2>2
<1>8. ASSUME NEW i \in DOMAIN w, w[i].src = p
      PROVE  /\ w[i].no \in 1 .. n + 1
             /\ \A j \in DOMAIN w : i < j /\ w[j].src = p => w[i].no <= w[j].no
             /\ \A j \in DOMAIN u : w[i].no <= u[j].no
  <2>1. /\ w[i].no \in 1 .. n
        /\ \A j \in DOMAIN w : i < j /\ w[j].src = p => w[i].no <= w[j].no
        /\ \A j \in 1 .. l : w[i].no <= c[j].no
    BY <1>2, <1>8 DEF Ahead
  <2>2. ASSUME NEW j \in DOMAIN u PROVE w[i].no <= u[j].no
    <3>1. CASE j \in 1 .. l
      BY <1>4, <2>1, <3>1
    <3>2. CASE j \notin 1 .. l
      BY <1>6, <2>1, <3>2
    <3> QED
      BY <3>1, <3>2
  <2> QED
    BY <2>1, <2>2
<1> QED
  BY <1>1, <1>6, <1>7, <1>8 DEF Queued, Ahead

LEMMA QueuedRun ==
  ASSUME NEW p, NEW n \in Nat, NEW w, NEW c, NEW r \in Seq(Frames),
         Queued(p, n, c), Ahead(p, n, w, c), Thinned(r, c)
  PROVE  Queued(p, n, r) /\ Ahead(p, n, w, r)
<1>1. \A j \in DOMAIN r : \E l \in DOMAIN c : r[j] = c[l]
  BY DEF Thinned
<1>2. \A j \in DOMAIN r : r[j].src = p /\ r[j].no \in 1 .. n
  BY <1>1 DEF Queued
<1>3. ASSUME NEW i \in DOMAIN r, NEW j \in DOMAIN r, i < j PROVE r[i].no <= r[j].no
  <2>1. PICK k \in DOMAIN c, l \in DOMAIN c : r[i] = c[k] /\ r[j] = c[l] /\ k < l
    BY <1>3 DEF Thinned
  <2> QED
    BY <2>1 DEF Queued
<1>4. ASSUME NEW i \in DOMAIN w, w[i].src = p, NEW j \in DOMAIN r PROVE w[i].no <= r[j].no
  BY <1>1, <1>4 DEF Ahead
<1>5. Queued(p, n, r)
  BY <1>2, <1>3 DEF Queued
<1>6. Ahead(p, n, w, r)
  BY <1>4 DEF Ahead
<1> QED
  BY <1>5, <1>6

LEMMA QueuedHead ==
  ASSUME NEW p, NEW n \in Nat, NEW w, NEW c, c # << >>, Queued(p, n, c), Ahead(p, n, w, c)
  PROVE  /\ Head(c) \in Frames /\ Head(c).src = p
         /\ Queued(p, n, Tail(c)) /\ Ahead(p, n, Append(w, Head(c)), Tail(c))
<1>1. c \in Seq(Frames) /\ w \in Seq(Frames)
  BY DEF Queued, Ahead
<1>2. PICK l \in Nat, m \in Nat : l = Len(c) /\ DOMAIN c = 1 .. l /\ m = Len(w) /\ DOMAIN w = 1 .. m
  BY <1>1, LenProperties
<1>3. PICK r \in Seq(Frames), h \in Frames : r = Tail(c) /\ h = Head(c)
  BY <1>1, HeadTailProperties
<1>4. /\ l >= 1 /\ h = c[1] /\ DOMAIN r = 1 .. l - 1
      /\ \A i \in 1 .. l - 1 : r[i] = c[i + 1]
  <2>1. Len(Tail(c)) = Len(c) - 1 /\ \A i \in 1 .. Len(Tail(c)) : Tail(c)[i] = c[i + 1]
    BY <1>1, HeadTailProperties
  <2>2. DOMAIN r = 1 .. Len(r) /\ Len(r) \in Nat
    BY LenProperties
  <2>3. h = c[1]
    BY <1>1, <1>3
  <2> QED
    BY <1>2, <1>3, <2>1, <2>2, <2>3
<1>5. 1 \in DOMAIN c /\ \A i \in 1 .. l - 1 : i + 1 \in DOMAIN c
  BY <1>2, <1>4
<1>6. h.src = p /\ h.no \in 1 .. n /\ \A j \in DOMAIN r : h.no <= r[j].no
  <2>1. ASSUME NEW j \in DOMAIN r PROVE h.no <= r[j].no
    <3>1. j + 1 \in DOMAIN c /\ 1 < j + 1 /\ r[j] = c[j + 1]
      BY <1>4, <1>5
    <3> QED
      BY <1>4, <1>5, <3>1 DEF Queued
  <2> QED
    BY <1>4, <1>5, <2>1 DEF Queued
<1>7. Queued(p, n, r)
  <2>1. ASSUME NEW i \in DOMAIN r, NEW j \in DOMAIN r, i < j PROVE r[i].no <= r[j].no
    <3>1. i + 1 \in DOMAIN c /\ j + 1 \in DOMAIN c /\ i + 1 < j + 1
      BY <1>4, <1>5, <2>1
    <3>2. c[i + 1].no <= c[j + 1].no
      BY <3>1 DEF Queued
    <3> QED
      BY <1>4, <3>2
  <2>2. \A j \in DOMAIN r : r[j].src = p /\ r[j].no \in 1 .. n
    BY <1>4, <1>5 DEF Queued
  <2> QED
    BY <2>1, <2>2 DEF Queued
<1>8. PICK v \in Seq(Frames) : v = Append(w, h)
  BY <1>1, AppendProperties
<1>9. /\ DOMAIN v = 1 .. m + 1 /\ v[m + 1] = h
      /\ \A i \in 1 .. m : v[i] = w[i]
  <2>1. Len(Append(w, h)) = Len(w) + 1
        /\ Append(w, h)[Len(w) + 1] = h /\ \A i \in 1 .. Len(w) : Append(w, h)[i] = w[i]
    BY <1>1, AppendProperties
  <2>2. DOMAIN v = 1 .. Len(v)
    BY LenProperties
  <2> QED
    BY <1>2, <1>8, <2>1, <2>2
<1>10. Ahead(p, n, v, r)
  <2>1. ASSUME NEW i \in DOMAIN v, v[i].src = p
        PROVE  /\ v[i].no \in 1 .. n
               /\ \A j \in DOMAIN v : i < j /\ v[j].src = p => v[i].no <= v[j].no
               /\ \A j \in DOMAIN r : v[i].no <= r[j].no
    <3>1. CASE i = m + 1
      <4>1. \A j \in DOMAIN v : ~(i < j)
        BY <1>9, <3>1
      <4> QED
        BY <1>6, <1>9, <3>1, <4>1
    <3>2. CASE i \in 1 .. m
      <4>1. /\ v[i].no \in 1 .. n
            /\ \A j \in DOMAIN w : i < j /\ w[j].src = p => w[i].no <= w[j].no
            /\ \A j \in DOMAIN c : v[i].no <= c[j].no
        BY <1>2, <1>9, <2>1, <3>2 DEF Ahead
      <4>2. v[i].no <= h.no
        BY <1>4, <1>5, <4>1
      <4>3. ASSUME NEW j \in DOMAIN v, i < j, v[j].src = p PROVE v[i].no <= v[j].no
        <5>1. CASE j = m + 1
          BY <1>9, <4>2, <5>1
        <5>2. CASE j \in 1 .. m
          BY <1>2, <1>9, <3>2, <4>1, <4>3, <5>2
        <5> QED
          BY <1>9, <5>1, <5>2
      <4>4. ASSUME NEW j \in DOMAIN r PROVE v[i].no <= r[j].no
        BY <1>4, <1>5, <4>1
      <4> QED
        BY <4>1, <4>3, <4>4
    <3> QED
      BY <1>9, <3>1, <3>2
  <2> QED
    BY <2>1 DEF Ahead
<1> QED
  BY <1>3, <1>6, <1>7, <1>8, <1>10

LEMMA AheadOther ==
  ASSUME NEW p, NEW n \in Nat, NEW w, NEW c, NEW f \in Frames, f.src # p, Ahead(p, n, w, c)
  PROVE  Ahead(p, n, Append(w, f), c)
<1>1. w \in Seq(Frames)
  BY DEF Ahead
<1>2. PICK m \in Nat : m = Len(w) /\ DOMAIN w = 1 .. m
  BY <1>1, LenProperties
<1>3. PICK v \in Seq(Frames) : v = Append(w, f)
  BY <1>1, AppendProperties
<1>4. /\ DOMAIN v = 1 .. m + 1 /\ v[m + 1] = f
      /\ \A i \in 1 .. m : v[i] = w[i]
  <2>1. Len(Append(w, f)) = Len(w) + 1
        /\ Append(w, f)[Len(w) + 1] = f /\ \A i \in 1 .. Len(w) : Append(w, f)[i] = w[i]
    BY <1>1, AppendProperties
  <2>2. DOMAIN v = 1 .. Len(v)
    BY LenProperties
  <2> QED
    BY <1>2, <1>3, <2>1, <2>2
<1>5. \A i \in DOMAIN v : v[i].src = p => i \in DOMAIN w /\ v[i] = w[i]
  <2> TAKE i \in DOMAIN v
  <2>1. i = m + 1 \/ i \in 1 .. m
    BY <1>4
  <2> QED
    BY <1>2, <1>4, <2>1
<1> QED
  BY <1>3, <1>5 DEF Ahead

-----------------------------------------------------------------------------
(* The channels and the wires of every port: in order, and no frame more often
   than its rule sends it. *)

\* The frames the rules owe port q for the i-th frame that arrived on p.
RuledFrames(p, i, q) ==
  LET f == [src |-> p, no |-> i, class |-> arrived[p][i], tags |-> << >>]
  IN Emitted(f, ActionsFor(rules, f), q)

\* The channels and the wires, and how many of a frame they hold between them.
InLine(p, q) ==
  /\ Queued(p, Len(arrived[p]), Channels[p][q])
  /\ Ahead(p, Len(arrived[p]), wire[q], Channels[p][q])

Within(p, q) ==
  \A x \in Frames : x.src = p /\ x.no \in 1 .. Len(arrived[p]) =>
    Times(wire[q], x) + Times(Channels[p][q], x) <= Times(RuledFrames(p, x.no, q), x)

Lined == \A p, q \in Ports : InLine(p, q) /\ Within(p, q)

LEMMA HistoryTypes ==
  ASSUME TypeOK, NEW p \in Ports
  PROVE  /\ arrived[p] \in Seq(Classes) /\ Len(arrived[p]) \in Nat
         /\ DOMAIN arrived[p] = 1 .. Len(arrived[p]) /\ wire[p] \in Seq(Frames)
  BY LenProperties DEF TypeOK

LEMMA RuledFramesType ==
  ASSUME TypeOK, NEW p \in Ports, NEW i \in 1 .. Len(arrived[p]), NEW q
  PROVE  RuledFrames(p, i, q) \in Seq(Frames)
<1>1. PICK f : f = [src |-> p, no |-> i, class |-> arrived[p][i], tags |-> << >>]
  OBVIOUS
<1>2. f \in Frames
  <2>1. arrived[p][i] \in Classes /\ i \in Nat /\ << >> \in Seq(Tags)
    BY HistoryTypes, ElementOfSeq, EmptySeq
  <2> QED
    BY <1>1, <2>1 DEF Frames
<1>3. Emitted(f, ActionsFor(rules, f), q) \in Seq(Frames)
  BY <1>2, RuleOf, EmittedType DEF Lists
<1> QED
  BY <1>1, <1>3 DEF RuledFrames

\* What a frame that arrives puts on the channels.
LEMMA AcceptedIs ==
  ASSUME IInv, NEW p \in Ports, NEW class \in Traffic, Abstract!Accept(p, class)
  PROVE  \E f \in Frames :
           /\ f = [src |-> p, no |-> Len(arrived[p]) + 1, class |-> class, tags |-> << >>]
           /\ arrived' = [arrived EXCEPT ![p] = Append(@, class)]
           /\ UNCHANGED <<rules, wire>>
           /\ \A d \in Ports :
                LET e == Emitted(f, ActionsFor(rules, f), d)
                IN /\ e \in Seq(Frames)
                   /\ \A k \in DOMAIN e : e[k].src = p /\ e[k].no = Len(arrived[p]) + 1
                   /\ Channels'[p][d] = Channels[p][d] \o e
                   /\ \A o \in Ports : o # p => Channels'[o][d] = Channels[o][d]
<1>0. TypeOK
  BY DEF IInv
<1>1. PICK f : f = [src |-> p, no |-> Len(arrived[p]) + 1, class |-> class, tags |-> << >>]
  OBVIOUS
<1>2. f \in Frames
  <2>1. class \in Classes /\ Len(arrived[p]) + 1 \in Nat /\ << >> \in Seq(Tags)
    BY <1>0, HistoryTypes, EmptySeq, DataPlaneAssumption
  <2> QED
    BY <1>1, <2>1 DEF Frames
<1>3. Abstract!Original(p, Len(arrived[p]) + 1, class) = f
  BY <1>1 DEF Abstract!Original
<1> DEFINE e(d) == Emitted(f, ActionsFor(rules, f), d)
<1>4. \A d : Abstract!Emitted(f, Abstract!ActionsFor(rules, f), d) = e(d)
  BY SameEmitted, SameActions
<1> HIDE DEF e
<1>5. /\ arrived' = [arrived EXCEPT ![p] = Append(@, class)]
      /\ UNCHANGED <<rules, wire>>
      /\ Channels' = [Channels EXCEPT ![p] = [d \in Ports |-> @[d] \o e(d)]]
  BY <1>3, <1>4, SamePorts DEF Abstract!Accept
<1>6. DOMAIN Channels = Ports
  BY DEF Channels
<1>7. ASSUME NEW d \in Ports
      PROVE  /\ Channels'[p][d] = Channels[p][d] \o e(d)
             /\ \A o \in Ports : o # p => Channels'[o][d] = Channels[o][d]
  <2>1. Channels'[p] = [q \in Ports |-> Channels[p][q] \o e(q)]
    BY <1>5, <1>6
  <2>2. \A o \in Ports : o # p => Channels'[o] = Channels[o]
    BY <1>5, <1>6
  <2> QED
    BY <2>1, <2>2
<1>8. ASSUME NEW d \in Ports
      PROVE  e(d) \in Seq(Frames) /\ \A k \in DOMAIN e(d) : e(d)[k].src = p /\ e(d)[k].no = Len(arrived[p]) + 1
  <2>1. ActionsFor(rules, f) \in Seq(ActionSet)
    BY <1>0, RuleOf
  <2>2. e(d) \in Seq(Frames)
    BY <1>2, <2>1, EmittedType DEF e, Lists
  <2>3. \A k \in DOMAIN e(d) : e(d)[k] = Modified(f, ActionsFor(rules, f))
    BY EmittedIs DEF e
  <2>4. Modified(f, ActionsFor(rules, f)).src = p /\ Modified(f, ActionsFor(rules, f)).no = Len(arrived[p]) + 1
    BY <1>1, ModifiedIs
  <2> QED
    BY <2>2, <2>3, <2>4
<1>9. \A d \in Ports :
        LET g == Emitted(f, ActionsFor(rules, f), d)
        IN /\ g \in Seq(Frames)
           /\ \A k \in DOMAIN g : g[k].src = p /\ g[k].no = Len(arrived[p]) + 1
           /\ Channels'[p][d] = Channels[p][d] \o g
           /\ \A o \in Ports : o # p => Channels'[o][d] = Channels[o][d]
  BY <1>7, <1>8 DEF e
<1> QED
  BY <1>1, <1>2, <1>5, <1>9

LEMMA AcceptKeeps ==
  ASSUME IInv, NEW p \in Ports, NEW class \in Traffic, Abstract!Accept(p, class),
         NEW o \in Ports, NEW d \in Ports, InLine(o, d), Within(o, d)
  PROVE  InLine(o, d)' /\ Within(o, d)'
<1>0. TypeOK
  BY DEF IInv
<1>1. PICK f \in Frames :
        /\ f = [src |-> p, no |-> Len(arrived[p]) + 1, class |-> class, tags |-> << >>]
        /\ arrived' = [arrived EXCEPT ![p] = Append(@, class)]
        /\ UNCHANGED <<rules, wire>>
        /\ \A q \in Ports :
             LET e == Emitted(f, ActionsFor(rules, f), q)
             IN /\ e \in Seq(Frames)
                /\ \A k \in DOMAIN e : e[k].src = p /\ e[k].no = Len(arrived[p]) + 1
                /\ Channels'[p][q] = Channels[p][q] \o e
                /\ \A u \in Ports : u # p => Channels'[u][q] = Channels[u][q]
  BY AcceptedIs
<1>2. CASE o # p
  <2>1. arrived'[o] = arrived[o] /\ Channels'[o][d] = Channels[o][d] /\ wire' = wire /\ rules' = rules
    BY <1>0, <1>1, <1>2 DEF TypeOK
  <2>2. InLine(o, d)'
    BY <2>1 DEF InLine
  <2>3. \A i : RuledFrames(o, i, d)' = RuledFrames(o, i, d)
    BY <2>1 DEF RuledFrames
  <2>4. Within(o, d)'
    BY <2>1, <2>3 DEF Within
  <2> QED
    BY <2>2, <2>4
<1>3. CASE o = p
  <2>1. PICK n \in Nat, c \in Seq(Frames), w \in Seq(Frames), e \in Seq(Frames) :
          /\ n = Len(arrived[p]) /\ c = Channels[p][d] /\ w = wire[d]
          /\ e = Emitted(f, ActionsFor(rules, f), d)
          /\ \A k \in DOMAIN e : e[k].src = p /\ e[k].no = n + 1
          /\ Channels'[p][d] = c \o e
    <3>1. Len(arrived[p]) \in Nat /\ Channels[p][d] \in Seq(Frames) /\ wire[d] \in Seq(Frames)
      BY <1>0, <1>3, HistoryTypes DEF InLine, Queued
    <3> DEFINE g == Emitted(f, ActionsFor(rules, f), d)
    <3>2. /\ g \in Seq(Frames) /\ \A k \in DOMAIN g : g[k].src = p /\ g[k].no = Len(arrived[p]) + 1
          /\ Channels'[p][d] = Channels[p][d] \o g
      BY <1>1
    <3> HIDE DEF g
    <3>3. \E n \in Nat, c \in Seq(Frames), w \in Seq(Frames), e \in Seq(Frames) :
            /\ n = Len(arrived[p]) /\ c = Channels[p][d] /\ w = wire[d] /\ e = g
            /\ \A k \in DOMAIN e : e[k].src = p /\ e[k].no = n + 1
            /\ Channels'[p][d] = c \o e
      BY <3>1, <3>2
    <3> QED
      BY <3>3 DEF g
  <2>2. /\ Len(arrived'[p]) = n + 1 /\ wire'[d] = w /\ rules' = rules
        /\ arrived'[p][n + 1] = class /\ \A i \in 1 .. n : arrived'[p][i] = arrived[p][i]
    <3>1. arrived[p] \in Seq(Classes) /\ class \in Classes
      BY <1>0, HistoryTypes, DataPlaneAssumption
    <3>2. arrived'[p] = Append(arrived[p], class)
      BY <1>0, <1>1 DEF TypeOK
    <3> QED
      BY <1>1, <2>1, <3>1, <3>2, AppendProperties
  <2>3. Queued(p, n, c) /\ Ahead(p, n, w, c)
    BY <1>3, <2>1 DEF InLine
  <2>4. InLine(o, d)'
    <3>1. Queued(p, n + 1, c \o e) /\ Ahead(p, n + 1, w, c \o e)
      BY <2>1, <2>3, QueuedMore
    <3> QED
      BY <1>3, <2>1, <2>2, <3>1 DEF InLine
  <2>5. ASSUME NEW x \in Frames, x.src = p, x.no \in 1 .. n + 1
        PROVE  Times(w, x) + Times(c \o e, x) <= Times(RuledFrames(p, x.no, d)', x)
    <3>0. /\ Times(w, x) \in Nat /\ Times(c, x) \in Nat /\ Times(e, x) \in Nat
          /\ Times(c \o e, x) = Times(c, x) + Times(e, x)
      BY TimesSeq, TimesConcat
    <3>1. CASE x.no \in 1 .. n
      <4>1. RuledFrames(p, x.no, d)' = RuledFrames(p, x.no, d)
        BY <2>2, <3>1 DEF RuledFrames
      <4>2. \A k \in DOMAIN e : e[k] # x
        BY <2>1, <3>1
      <4>3. Times(e, x) = 0
        BY <4>2, TimesSeq
      <4>4. Times(w, x) + Times(c, x) <= Times(RuledFrames(p, x.no, d), x)
        BY <1>3, <2>1, <2>5, <3>1 DEF Within
      <4>5. Times(c \o e, x) = Times(c, x)
        BY <3>0, <4>3
      <4> QED
        BY <4>1, <4>4, <4>5
    <3>2. CASE x.no \notin 1 .. n
      <4>1. x.no = n + 1
        BY <2>5, <3>2
      <4>2. RuledFrames(p, x.no, d)' = e
        BY <1>1, <2>1, <2>2, <4>1 DEF RuledFrames
      <4>3. \A k \in DOMAIN c : c[k] # x
        BY <2>3, <3>2 DEF Queued
      <4>4. \A k \in DOMAIN w : w[k] # x
        BY <2>3, <2>5, <3>2 DEF Ahead
      <4>5. Times(c, x) = 0 /\ Times(w, x) = 0
        BY <4>3, <4>4, TimesSeq
      <4>6. Times(w, x) + Times(c \o e, x) <= Times(e, x)
        BY <3>0, <4>5
      <4> QED
        BY <4>2, <4>6
    <3> QED
      BY <3>1, <3>2
  <2>6. Within(o, d)'
    BY <1>3, <2>1, <2>2, <2>5 DEF Within
  <2> QED
    BY <2>4, <2>6
<1> QED
  BY <1>2, <1>3

\* A step that takes frames from a channel, to the wire or for good.
LEMMA TakenKeeps ==
  ASSUME TypeOK, NEW o \in Ports, NEW d \in Ports, Within(o, d), InLine(o, d),
         UNCHANGED <<rules, arrived>>,
         Queued(o, Len(arrived[o]), Channels'[o][d]),
         Ahead(o, Len(arrived[o]), wire'[d], Channels'[o][d]),
         \A x \in Frames : x.src = o =>
           Times(wire'[d], x) + Times(Channels'[o][d], x)
             <= Times(wire[d], x) + Times(Channels[o][d], x)
  PROVE  InLine(o, d)' /\ Within(o, d)'
<1>1. InLine(o, d)'
  BY DEF InLine
<1>2. \A i : RuledFrames(o, i, d)' = RuledFrames(o, i, d)
  BY DEF RuledFrames
<1>3. ASSUME NEW x \in Frames, x.src = o, x.no \in 1 .. Len(arrived[o])
      PROVE  Times(wire'[d], x) + Times(Channels'[o][d], x) <= Times(RuledFrames(o, x.no, d)', x)
  <2>1. Times(wire[d], x) + Times(Channels[o][d], x) <= Times(RuledFrames(o, x.no, d), x)
    BY <1>3 DEF Within
  <2>2. PICK i \in Nat, j \in Nat, k \in Nat, l \in Nat :
          /\ i = Times(wire[d], x) /\ j = Times(Channels[o][d], x)
          /\ k = Times(wire'[d], x) /\ l = Times(Channels'[o][d], x)
    <3>1. /\ Times(wire[d], x) \in Nat /\ Times(Channels[o][d], x) \in Nat
          /\ Times(wire'[d], x) \in Nat /\ Times(Channels'[o][d], x) \in Nat
      BY TimesSeq DEF InLine, Queued, Ahead
    <3> QED
      BY <3>1
  <2>3. k + l <= i + j
    BY <1>3, <2>2
  <2>4. PICK t \in Nat : t = Times(RuledFrames(o, x.no, d), x)
    BY <1>3, RuledFramesType, TimesSeq
  <2>5. i + j <= t
    BY <2>1, <2>2, <2>4
  <2>6. k + l <= t
    BY <2>3, <2>5
  <2> QED
    BY <1>2, <2>2, <2>4, <2>6
<1>4. Within(o, d)'
  BY <1>3 DEF Within
<1> QED
  BY <1>1, <1>4

\* A lost run leaves the rest of the channel in its order.
LEMMA LoseKeeps ==
  ASSUME IInv, NEW p \in Ports, NEW q \in Ports, Abstract!Lose(p, q), Lined,
         NEW o \in Ports, NEW d \in Ports
  PROVE  InLine(o, d)' /\ Within(o, d)'
<1>0. TypeOK /\ InLine(o, d) /\ Within(o, d) /\ InLine(p, q)
  BY DEF IInv, Lined
<1>1. PICK first \in DOMAIN Channels[p][q] : \E last \in first .. Len(Channels[p][q]) :
        /\ UNCHANGED <<rules, arrived, wire>>
        /\ Channels' = [Channels EXCEPT ![p][q] = SubSeq(@, 1, first - 1)
                                                     \o SubSeq(@, last + 1, Len(@))]
  BY DEF Abstract!Lose
<1>2. PICK last \in first .. Len(Channels[p][q]) :
        /\ UNCHANGED <<rules, arrived, wire>>
        /\ Channels' = [Channels EXCEPT ![p][q] = SubSeq(@, 1, first - 1)
                                                     \o SubSeq(@, last + 1, Len(@))]
  BY <1>1
<1>3. PICK c \in Seq(Frames), n \in Nat : c = Channels[p][q] /\ n = Len(c) /\ first \in 1 .. n
  <2>1. Channels[p][q] \in Seq(Frames)
    BY <1>0 DEF InLine, Queued
  <2>2. Len(Channels[p][q]) \in Nat /\ first \in 1 .. Len(Channels[p][q])
    BY <2>1, LenProperties
  <2> QED
    BY <2>1, <2>2
<1>4. PICK r : r = SubSeq(c, 1, first - 1) \o SubSeq(c, last + 1, n)
  OBVIOUS
<1>5. /\ Channels'[p][q] = r
      /\ \A u, v \in Ports : ~(u = p /\ v = q) => Channels'[u][v] = Channels[u][v]
  <2>1. Channels' = [Channels EXCEPT ![p][q] = r]
    BY <1>2, <1>3, <1>4
  <2> HIDE DEF Channels
  <2>2. DOMAIN Channels = Ports /\ \A u \in Ports : DOMAIN Channels[u] = Ports
    BY DEF Channels
  <2> QED
    BY <2>1, <2>2
<1>6. r \in Seq(Frames) /\ Thinned(r, c)
  <2>1. n \in Nat /\ n = Len(c) /\ first \in 1 .. n /\ last \in first .. n
        /\ r = SubSeq(c, 1, first - 1) \o SubSeq(c, last + 1, n)
    BY <1>3, <1>4
  <2> QED
    BY <2>1, RunOut
<1>7. CASE o = p /\ d = q
  <2>1. Len(arrived[p]) \in Nat
    BY <1>0, HistoryTypes
  <2>2. Queued(p, Len(arrived[p]), r) /\ Ahead(p, Len(arrived[p]), wire[q], r)
    <3>1. Queued(p, Len(arrived[p]), c) /\ Ahead(p, Len(arrived[p]), wire[q], c)
      BY <1>0, <1>3 DEF InLine
    <3> QED
      BY <1>6, <2>1, <3>1, QueuedRun
  <2>3. ASSUME NEW x \in Frames
        PROVE  Times(wire'[d], x) + Times(Channels'[o][d], x)
                 <= Times(wire[d], x) + Times(Channels[o][d], x)
    <3>1. Times(wire[d], x) \in Nat
      BY <1>0, HistoryTypes, TimesSeq
    <3>2. Times(r, x) \in Nat /\ Times(c, x) \in Nat
      BY <1>6, TimesSeq
    <3>3. Times(wire[d], x) + Times(r, x) <= Times(wire[d], x) + Times(c, x)
      BY <1>6, <3>1, <3>2 DEF Thinned
    <3> QED
      BY <1>2, <1>3, <1>5, <1>7, <3>3
  <2>4. UNCHANGED <<rules, arrived>> /\ wire' = wire
    BY <1>2
  <2>5. Queued(o, Len(arrived[o]), Channels'[o][d]) /\ Ahead(o, Len(arrived[o]), wire'[d], Channels'[o][d])
    BY <1>5, <1>7, <2>2, <2>4
  <2> QED
    BY <1>0, <2>3, <2>4, <2>5, TakenKeeps
<1>8. CASE ~(o = p /\ d = q)
  <2>1. UNCHANGED <<rules, arrived, wire>> /\ Channels'[o][d] = Channels[o][d]
    BY <1>2, <1>5, <1>8
  <2>2. \A i : RuledFrames(o, i, d)' = RuledFrames(o, i, d)
    BY <2>1 DEF RuledFrames
  <2>3. InLine(o, d)'
    BY <1>0, <2>1 DEF InLine
  <2>4. Within(o, d)'
    BY <1>0, <2>1, <2>2 DEF Within
  <2> QED
    BY <2>3, <2>4
<1> QED
  BY <1>7, <1>8

\* A frame that leaves a channel is on the wire once more.
LEMMA TimesMove ==
  ASSUME NEW S, NEW w \in Seq(S), NEW c \in Seq(S), c # << >>, NEW x
  PROVE  /\ Times(Append(w, Head(c)), x) + Times(Tail(c), x) = Times(w, x) + Times(c, x)
         /\ Head(c) # x => Times(Append(w, Head(c)), x) = Times(w, x)
<1>1. PICK h \in S, r \in Seq(S) : h = Head(c) /\ r = Tail(c)
  BY HeadTailProperties
<1>2. Append(w, h) = w \o <<h>> /\ <<h>> \in Seq(S)
  OBVIOUS
<1>3. Times(w \o <<h>>, x) = Times(w, x) + Times(<<h>>, x)
  BY <1>2, TimesConcat
<1>4. /\ Times(r, x) \in Nat /\ Times(w, x) \in Nat
      /\ h = x => Times(c, x) = Times(r, x) + 1
      /\ h # x => Times(c, x) = Times(r, x)
  <2>1. Times(w, x) \in Nat /\ Times(r, x) \in Nat
    BY TimesSeq
  <2>2. /\ Head(c) = x => Times(c, x) = Times(Tail(c), x) + 1
        /\ Head(c) # x => Times(c, x) = Times(Tail(c), x)
    BY TimesIs
  <2> QED
    BY <1>1, <2>1, <2>2
<1>5. (h = x => Times(<<h>>, x) = 1) /\ (h # x => Times(<<h>>, x) = 0)
  <2>1. <<h>> # << >> /\ Head(<<h>>) = h /\ Tail(<<h>>) = << >>
    OBVIOUS
  <2>2. /\ Head(<<h>>) = x => Times(<<h>>, x) = Times(Tail(<<h>>), x) + 1
        /\ Head(<<h>>) # x => Times(<<h>>, x) = Times(Tail(<<h>>), x)
    BY <1>2, <2>1, TimesIs
  <2>3. Times(Tail(<<h>>), x) = 0
    BY <2>1, TimesNone
  <2> QED
    BY <2>1, <2>2, <2>3
<1>6. (h = x => Times(Append(w, h), x) = Times(w, x) + 1)
      /\ (h # x => Times(Append(w, h), x) = Times(w, x))
  BY <1>2, <1>3, <1>4, <1>5
<1>7. Times(Append(w, h), x) + Times(r, x) = Times(w, x) + Times(c, x)
  BY <1>4, <1>6
<1> QED
  BY <1>1, <1>6, <1>7

LEMMA DeliverKeeps ==
  ASSUME IInv, NEW p \in Ports, NEW q \in Ports, Abstract!Deliver(p, q), Lined,
         NEW o \in Ports, NEW d \in Ports
  PROVE  InLine(o, d)' /\ Within(o, d)'
<1>0. /\ TypeOK /\ InLine(o, d) /\ Within(o, d) /\ InLine(p, q)
      /\ Len(arrived[o]) \in Nat
  BY HistoryTypes DEF IInv, Lined
<1>1. PICK c \in Seq(Frames) :
        /\ c = Channels[p][q] /\ c # << >> /\ UNCHANGED <<rules, arrived>>
        /\ wire' = [wire EXCEPT ![q] = Append(@, Head(c))]
        /\ Channels' = [Channels EXCEPT ![p][q] = Tail(c)]
  <2>1. Channels[p][q] \in Seq(Frames)
    BY <1>0 DEF InLine, Queued
  <2> QED
    BY <2>1 DEF Abstract!Deliver
<1>2. /\ Channels'[p][q] = Tail(c)
      /\ \A u, v \in Ports : ~(u = p /\ v = q) => Channels'[u][v] = Channels[u][v]
  <2> HIDE DEF Channels
  <2>1. DOMAIN Channels = Ports /\ \A u \in Ports : DOMAIN Channels[u] = Ports
    BY DEF Channels
  <2> QED
    BY <1>1, <2>1
<1>3. wire'[q] = Append(wire[q], Head(c)) /\ \A v \in Ports : v # q => wire'[v] = wire[v]
  BY <1>0, <1>1 DEF TypeOK
<1>4. Queued(p, Len(arrived[p]), c) /\ Ahead(p, Len(arrived[p]), wire[q], c)
      /\ Len(arrived[p]) \in Nat
  BY <1>0, <1>1, HistoryTypes DEF InLine
<1>5. /\ Head(c) \in Frames /\ Head(c).src = p
      /\ Queued(p, Len(arrived[p]), Tail(c))
      /\ Ahead(p, Len(arrived[p]), Append(wire[q], Head(c)), Tail(c))
  BY <1>1, <1>4, QueuedHead
<1>6. ASSUME NEW x
      PROVE  /\ Times(Append(wire[q], Head(c)), x) + Times(Tail(c), x) = Times(wire[q], x) + Times(c, x)
             /\ Head(c) # x => Times(Append(wire[q], Head(c)), x) = Times(wire[q], x)
  BY <1>0, <1>1, HistoryTypes, TimesMove
<1>7. Times(wire[d], o) \in Nat /\ \A x : Times(wire[d], x) \in Nat /\ Times(Channels[o][d], x) \in Nat
  <2>1. wire[d] \in Seq(Frames) /\ Channels[o][d] \in Seq(Frames)
    BY <1>0, HistoryTypes DEF InLine, Queued
  <2> QED
    BY <2>1, TimesSeq
<1>8. /\ Queued(o, Len(arrived[o]), Channels'[o][d])
      /\ Ahead(o, Len(arrived[o]), wire'[d], Channels'[o][d])
  <2>1. CASE o = p /\ d = q
    BY <1>2, <1>3, <1>5, <2>1
  <2>2. CASE o # p /\ d = q
    <3>1. Queued(o, Len(arrived[o]), Channels[o][d]) /\ Ahead(o, Len(arrived[o]), wire[d], Channels[o][d])
      BY <1>0 DEF InLine
    <3>2. Ahead(o, Len(arrived[o]), Append(wire[d], Head(c)), Channels[o][d])
      BY <1>0, <1>5, <2>2, <3>1, AheadOther
    <3> QED
      BY <1>2, <1>3, <2>2, <3>1, <3>2
  <2>3. CASE d # q
    BY <1>0, <1>2, <1>3, <2>3 DEF InLine
  <2> QED
    BY <2>1, <2>2, <2>3
<1>9. ASSUME NEW x \in Frames, x.src = o
      PROVE  Times(wire'[d], x) + Times(Channels'[o][d], x)
               <= Times(wire[d], x) + Times(Channels[o][d], x)
  <2>1. CASE o = p /\ d = q
    <3>1. Times(wire'[d], x) + Times(Channels'[o][d], x) = Times(wire[d], x) + Times(Channels[o][d], x)
      BY <1>1, <1>2, <1>3, <1>6, <2>1
    <3>2. Times(wire[d], x) + Times(Channels[o][d], x) \in Nat
      BY <1>7
    <3> QED
      BY <3>1, <3>2
  <2>2. CASE ~(o = p /\ d = q)
    <3>1. Times(wire'[d], x) = Times(wire[d], x)
      <4>1. CASE d = q
        <5>1. Head(c) # x
          BY <1>5, <1>9, <2>2, <4>1
        <5> QED
          BY <1>3, <1>6, <4>1, <5>1
      <4>2. CASE d # q
        BY <1>3, <4>2
      <4> QED
        BY <4>1, <4>2
    <3>2. Channels'[o][d] = Channels[o][d]
      BY <1>2, <2>2
    <3> QED
      BY <1>7, <3>1, <3>2
  <2> QED
    BY <2>1, <2>2
<1> QED
  BY <1>0, <1>1, <1>8, <1>9, TakenKeeps

LEMMA InitLined == Init => Lined
<1> SUFFICES ASSUME Init, NEW p \in Ports, NEW q \in Ports PROVE InLine(p, q) /\ Within(p, q)
  BY DEF Lined
<1>1. Abstract!Init
  BY InitRefines
<1>2. Channels[p][q] = << >> /\ wire[q] = << >> /\ arrived[p] = << >>
  BY <1>1, SamePorts DEF Abstract!Init
<1>3. << >> \in Seq(Frames) /\ Len(<< >>) = 0 /\ DOMAIN << >> = {}
  BY EmptySeq
<1>4. InLine(p, q)
  BY <1>2, <1>3 DEF InLine, Queued, Ahead
<1>5. Within(p, q)
  BY <1>2, <1>3 DEF Within
<1> QED
  BY <1>4, <1>5

LEMMA LinedHolds == Spec => [](IInv /\ Lined)
<1>1. IInv /\ IInv' /\ Carried /\ RxIsLatest /\ [Next]_vars /\ Lined => Lined'
  <2> SUFFICES ASSUME IInv, IInv', Carried, RxIsLatest, [Next]_vars, Lined,
                      NEW o \in Ports, NEW d \in Ports
               PROVE  InLine(o, d)' /\ Within(o, d)'
    BY DEF Lined
  <2>0. InLine(o, d) /\ Within(o, d)
    BY DEF Lined
  <2>1. [Abstract!Next]_(Abstract!vars)
    BY StepRefines
  <2>2. CASE \E p \in Ports, class \in Traffic : Abstract!Accept(p, class)
    BY <2>0, <2>2, AcceptKeeps
  <2>3. CASE \E p, q \in Ports : Abstract!Lose(p, q)
    BY <2>3, LoseKeeps
  <2>4. CASE \E p, q \in Ports : Abstract!Deliver(p, q)
    BY <2>4, DeliverKeeps
  <2>5. CASE UNCHANGED (Abstract!vars)
    <3>1. UNCHANGED <<rules, arrived, wire>> /\ Channels' = Channels
      BY <2>5 DEF Abstract!vars
    <3>2. \A i : RuledFrames(o, i, d)' = RuledFrames(o, i, d)
      BY <3>1 DEF RuledFrames
    <3>3. InLine(o, d)'
      BY <2>0, <3>1 DEF InLine
    <3>4. Within(o, d)'
      BY <2>0, <3>1, <3>2 DEF Within
    <3> QED
      BY <3>3, <3>4
  <2> QED
    BY <2>1, <2>2, <2>3, <2>4, <2>5, SamePorts DEF Abstract!Next
<1> QED
  BY <1>1, InitLined, CarriedHolds, PTL DEF Spec

\* Frames that came in by one port leave another one in the order in which
\* they arrived, whichever lcore sends them and whatever is lost on the way.
THEOREM WiresInOrder == Spec => []Abstract!InOrder
<1>1. IInv /\ Lined => Abstract!InOrder
  <2> SUFFICES ASSUME IInv, Lined, NEW q \in Ports, NEW i \in DOMAIN wire[q], NEW j \in DOMAIN wire[q],
                      i < j, wire[q][i].src = wire[q][j].src
               PROVE  wire[q][i].no <= wire[q][j].no
    BY SamePorts DEF Abstract!InOrder
  <2>1. wire[q][i].src \in Ports
    <3>1. wire[q] \in Seq(Frames)
      BY HistoryTypes DEF IInv
    <3>2. wire[q][i] \in Frames
      BY <3>1
    <3> QED
      BY <3>2 DEF Frames
  <2>2. Ahead(wire[q][i].src, Len(arrived[wire[q][i].src]), wire[q], Channels[wire[q][i].src][q])
    BY <2>1 DEF Lined, InLine
  <2> QED
    BY <2>2 DEF Ahead
<1> QED
  BY <1>1, LinedHolds, PTL

\* Whatever is on the wire of a port is a frame that arrived, with the tags
\* its rule pushes, and is there at most as often as that rule outputs it to
\* the port: no lcore invents, repeats or changes a frame.
THEOREM WiresAsRuled == Spec => []Abstract!AsRuled
<1>1. IInv /\ Lined => Abstract!AsRuled
  <2> SUFFICES ASSUME IInv, Lined, NEW q \in Ports, NEW i \in DOMAIN wire[q]
               PROVE  LET f == wire[q][i]
                          original == Abstract!Original(f.src, f.no, arrived[f.src][f.no])
                          due == Abstract!Emitted(original, Abstract!ActionsFor(rules, original), q)
                          copies == {j \in DOMAIN wire[q] : wire[q][j] = f}
                      IN /\ f.no \in DOMAIN arrived[f.src]
                         /\ \E n \in DOMAIN due : due[n] = f
                         /\ Abstract!Cardinality(copies) <= Len(due)
    BY SamePorts DEF Abstract!AsRuled
  <2>0. TypeOK
    BY DEF IInv
  <2>1. PICK f \in Frames : f = wire[q][i] /\ f.src \in Ports
    <3>1. wire[q] \in Seq(Frames)
      BY <2>0, HistoryTypes
    <3>2. wire[q][i] \in Frames
      BY <3>1
    <3> QED
      BY <3>2 DEF Frames
  <2>2. InLine(f.src, q) /\ Within(f.src, q)
    BY <2>1 DEF Lined
  <2>3. f.no \in 1 .. Len(arrived[f.src]) /\ f.no \in DOMAIN arrived[f.src]
    BY <2>0, <2>1, <2>2, HistoryTypes DEF InLine, Ahead
  <2>4. PICK due \in Seq(Frames) : due = RuledFrames(f.src, f.no, q)
    BY <2>0, <2>1, <2>3, RuledFramesType
  <2>5. PICK a \in Nat, b \in Nat, c \in Nat :
          /\ a = Times(wire[q], f) /\ b = Times(Channels[f.src][q], f) /\ c = Times(due, f)
          /\ a > 0 /\ c <= Len(due)
    <3>1. Times(wire[q], f) \in Nat /\ Times(wire[q], f) > 0
      BY <2>0, <2>1, HistoryTypes, TimesSeq
    <3>2. Times(Channels[f.src][q], f) \in Nat
      BY <2>2, TimesSeq DEF InLine, Queued
    <3>3. Times(due, f) \in Nat /\ Times(due, f) <= Len(due)
      BY TimesSeq
    <3> QED
      BY <3>1, <3>2, <3>3
  <2>6. a + b <= c
    BY <2>1, <2>2, <2>3, <2>4, <2>5 DEF Within
  <2>7. \E n \in DOMAIN due : due[n] = f
    <3>1. c # 0
      BY <2>5, <2>6
    <3> QED
      BY <2>5, <3>1, TimesSeq
  <2>8. Cardinality({j \in DOMAIN wire[q] : wire[q][j] = f}) <= Len(due)
    <3>1. Len(due) \in Nat
      BY LenProperties
    <3>2. a <= Len(due)
      BY <2>5, <2>6, <3>1
    <3> QED
      BY <2>5, <3>2 DEF Times
  <2>9. Abstract!Emitted(Abstract!Original(f.src, f.no, arrived[f.src][f.no]),
                         Abstract!ActionsFor(rules, Abstract!Original(f.src, f.no, arrived[f.src][f.no])), q)
          = due
    BY <2>4, SameEmitted, SameActions DEF RuledFrames, Abstract!Original
  <2> QED
    BY <2>1, <2>3, <2>7, <2>8, <2>9, SameCount
<1> QED
  BY <1>1, LinedHolds, PTL
=============================================================================
