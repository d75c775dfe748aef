----------------------- MODULE StatisticsQueueProofs -----------------------
(***************************************************************************)
(* The two containers whose threads share them, proved for any number of   *)
(* threads and any size: the ring holds the latest samples in their order  *)
(* and is read rightly when nobody writes; the map and the counter behind  *)
(* the lock lose nothing, whatever the threads do to each other.           *)
(***************************************************************************)
EXTENDS MCStatisticsQueue, FiniteSetTheorems, WellFoundedInduction, TLAPS

-----------------------------------------------------------------------------
(* The ring: the inductive invariant. *)

TypeOK ==
  /\ v \in [0 .. max - 1 -> Int]
  /\ current \in 0 .. max - 1 /\ size \in 0 .. max
  /\ inserted \in Nat /\ cleaned \in 0 .. inserted
  /\ locked \in BOOLEAN
  /\ pc \in [Threads -> {"idle", "grow", "advance", "store", "clean"}]

\* The thread that is not idle holds the mutex, and there is only one.
Exclusive ==
  /\ \A t \in Threads : pc[t] # "idle" => locked
  /\ \A t, u \in Threads : pc[t] # "idle" /\ pc[u] # "idle" => t = u

\* Some thread is about to do what is at the location.
Some(location) == \E t \in Threads : pc[t] = location

\* The place of the sample k before the one at place c.
Back(c, k) == IF k <= c THEN c - k ELSE c - k + max

Smaller(x, y) == IF x < y THEN x ELSE y

\* The samples are in their order, behind _current, or, when it has been
\* advanced for the sample to come, behind the place before it.
Ordered ==
  /\ size = Smaller(IF Some("advance") \/ Some("store") THEN inserted + 1 ELSE inserted, max)
  /\ \A k \in 0 .. Smaller(inserted, max) - 1 :
       IF Some("store") THEN k < max - 1 => Keeps(k, v[Back(current, k + 1)])
                        ELSE Keeps(k, v[Back(current, k)])

RingInv == TypeOK /\ Exclusive /\ Ordered

\* What the reader knows while nobody has written.
Undisturbed ==
  /\ LL \in Nat /\ reader \in {"idle", "compare", "place", "load", "done"}
  /\ alone =>
       /\ ~locked
       /\ reader = "compare" => size > 0 /\ scr = current
       /\ reader \in {"place", "load"} => scr = current /\ LL < size
       /\ reader = "place" => (wraps <=> current < LL)
       /\ reader = "load" => sof = Back(current, LL)
  /\ GatherExact

GatherInv == RingInv /\ Undisturbed

-----------------------------------------------------------------------------
(* The threads that write. *)

Locations == {"grow", "advance", "store", "clean"}

\* Where the one thread that holds the mutex is, all are.
LEMMA OnlyOne ==
  ASSUME RingInv
  PROVE  /\ ~locked => \A l \in Locations : ~Some(l)
         /\ \A t \in Threads : pc[t] # "idle" =>
              /\ locked
              /\ \A l \in Locations : Some(l) <=> pc[t] = l
              /\ \A u \in Threads \ {t} : pc[u] = "idle"
BY DEF RingInv, Exclusive, Some, Locations

\* A thread goes to a location while the others are idle.
LEMMA Goes ==
  ASSUME RingInv, NEW t \in Threads, NEW location \in Locations \cup {"idle"},
         Goto(t, location), \A u \in Threads \ {t} : pc[u] = "idle"
  PROVE  /\ pc' \in [Threads -> Locations \cup {"idle"}]
         /\ \A l \in Locations : Some(l)' <=> location = l
         /\ \A u \in Threads : pc'[u] # "idle" => u = t
         /\ pc'[t] = location
<1>1. pc \in [Threads -> Locations \cup {"idle"}]
  BY DEF RingInv, TypeOK, Locations
<1>2. /\ pc' \in [Threads -> Locations \cup {"idle"}]
      /\ \A u \in Threads : pc'[u] = IF u = t THEN location ELSE "idle"
  BY <1>1 DEF Goto
<1> QED
  BY <1>2 DEF Some, Locations

LEMMA LockStep ==
  ASSUME RingInv, NEW t \in Threads, NEW location \in {"grow", "clean"},
         Lock(t, location)
  PROVE  RingInv'
<1>1. /\ ~locked /\ Goto(t, location) /\ locked' = TRUE /\ UNCHANGED ring
  BY DEF Lock
<1>2. \A u \in Threads : pc[u] = "idle"
  BY <1>1 DEF RingInv, Exclusive
<1>3. /\ pc' \in [Threads -> Locations \cup {"idle"}]
      /\ \A l \in Locations : Some(l)' <=> location = l
      /\ \A u \in Threads : pc'[u] # "idle" => u = t
  BY <1>1, <1>2, Goes DEF Locations
<1>4. TypeOK'
  BY <1>1, <1>3 DEF RingInv, TypeOK, ring, Locations
<1>5. Exclusive'
  BY <1>1, <1>3 DEF Exclusive
<1>6. ~Some("advance") /\ ~Some("store") /\ ~Some("advance")' /\ ~Some("store")'
  BY <1>1, <1>3, OnlyOne DEF Locations
<1>7. Ordered'
  BY <1>1, <1>6 DEF RingInv, Ordered, ring, Keeps, Newest
<1> QED
  BY <1>4, <1>5, <1>7 DEF RingInv

LEMMA GrowStep ==
  ASSUME RingInv, NEW t \in Threads, Grow(t)
  PROVE  RingInv'
<1>1. /\ pc[t] = "grow" /\ Goto(t, "advance")
      /\ size' = IF size = max THEN size ELSE size + 1
      /\ UNCHANGED <<v, current, inserted, cleaned, locked>>
  BY DEF Grow
<1>2. /\ locked /\ \A u \in Threads \ {t} : pc[u] = "idle"
      /\ ~Some("advance") /\ ~Some("store")
  BY <1>1, OnlyOne DEF Locations
<1>3. /\ pc' \in [Threads -> Locations \cup {"idle"}]
      /\ \A l \in Locations : Some(l)' <=> l = "advance"
      /\ \A u \in Threads : pc'[u] # "idle" => u = t
  BY <1>1, <1>2, Goes DEF Locations
<1>4. size \in 0 .. max /\ inserted \in Nat /\ max \in Nat /\ size = Smaller(inserted, max)
  BY <1>2, StatisticsQueueAssumption DEF RingInv, TypeOK, Ordered
<1>5. size' \in 0 .. max /\ size' = Smaller(inserted + 1, max)
  BY <1>1, <1>4 DEF Smaller
<1>6. TypeOK'
  BY <1>1, <1>3, <1>5 DEF RingInv, TypeOK, Locations
<1>7. Exclusive'
  BY <1>1, <1>2, <1>3 DEF Exclusive
<1>8. Ordered'
  BY <1>1, <1>2, <1>3, <1>5 DEF RingInv, Ordered, Keeps, Newest, Locations
<1> QED
  BY <1>6, <1>7, <1>8 DEF RingInv

\* A place is one of the array's, and no two samples share one.
LEMMA Places ==
  ASSUME NEW c \in 0 .. max - 1
  PROVE  /\ \A k \in 0 .. max - 1 : Back(c, k) \in 0 .. max - 1
         /\ \A k \in 1 .. max - 1 : Back(c, k) # c
         /\ Back(c, 0) = c
         /\ LET next == IF c + 1 = max THEN 0 ELSE c + 1
            IN \A k \in 0 .. max - 2 : Back(next, k + 1) = Back(c, k)
<1>1. max \in Nat \ {0}
  BY StatisticsQueueAssumption
<1> QED
  BY <1>1 DEF Back

LEMMA AdvanceStep ==
  ASSUME RingInv, NEW t \in Threads, Advance(t)
  PROVE  RingInv'
<1>1. /\ pc[t] = "advance" /\ Goto(t, "store")
      /\ current' = IF current + 1 = max THEN 0 ELSE current + 1
      /\ UNCHANGED <<v, size, inserted, cleaned, locked>>
  BY DEF Advance
<1>2. /\ locked /\ \A u \in Threads \ {t} : pc[u] = "idle"
      /\ Some("advance") /\ ~Some("store")
  BY <1>1, OnlyOne DEF Locations
<1>3. /\ pc' \in [Threads -> Locations \cup {"idle"}]
      /\ \A l \in Locations : Some(l)' <=> l = "store"
      /\ \A u \in Threads : pc'[u] # "idle" => u = t
  BY <1>1, <1>2, Goes DEF Locations
<1>4. current \in 0 .. max - 1 /\ current' \in 0 .. max - 1 /\ max \in Nat \ {0}
  BY <1>1, StatisticsQueueAssumption DEF RingInv, TypeOK
<1>5. TypeOK'
  BY <1>1, <1>3, <1>4 DEF RingInv, TypeOK, Locations
<1>6. Exclusive'
  BY <1>1, <1>2, <1>3 DEF Exclusive
<1>7. Ordered'
  <2>1. size' = Smaller(inserted' + 1, max)
    BY <1>1, <1>2 DEF RingInv, Ordered
  <2>2. ASSUME NEW k \in 0 .. Smaller(inserted, max) - 1, k < max - 1
        PROVE  Keeps(k, v[Back(current', k + 1)])
    <3>1. Keeps(k, v[Back(current, k)])
      BY <1>2 DEF RingInv, Ordered
    <3>2. k \in 0 .. max - 2
      BY <1>4, <2>2 DEF RingInv, TypeOK, Smaller
    <3>3. Back(current', k + 1) = Back(current, k)
      BY <1>1, <1>4, <3>2, Places
    <3> QED
      BY <3>1, <3>3
  <2>3. Some("store")' /\ ~Some("advance")'
    BY <1>3 DEF Locations
  <2> QED
    BY <1>1, <2>1, <2>2, <2>3 DEF Ordered, Keeps, Newest
<1> QED
  BY <1>5, <1>6, <1>7 DEF RingInv

LEMMA StoreStep ==
  ASSUME RingInv, NEW t \in Threads, Store(t)
  PROVE  RingInv'
<1>1. /\ pc[t] = "store" /\ Goto(t, "idle")
      /\ inserted' = inserted + 1
      /\ v' = [v EXCEPT ![current] = inserted + 1]
      /\ locked' = FALSE
      /\ UNCHANGED <<current, size, cleaned>>
  BY DEF Store
<1>2. /\ locked /\ \A u \in Threads \ {t} : pc[u] = "idle"
      /\ ~Some("advance") /\ Some("store")
  BY <1>1, OnlyOne DEF Locations
<1>3. /\ pc' \in [Threads -> Locations \cup {"idle"}]
      /\ \A l \in Locations : ~Some(l)'
      /\ \A u \in Threads : pc'[u] # "idle" => u = t
      /\ pc'[t] = "idle"
  BY <1>1, <1>2, Goes DEF Locations
<1>4. /\ current \in 0 .. max - 1 /\ max \in Nat \ {0} /\ inserted \in Nat /\ cleaned \in Nat
      /\ cleaned <= inserted
      /\ v \in [0 .. max - 1 -> Int]
  BY StatisticsQueueAssumption DEF RingInv, TypeOK
<1>5. TypeOK'
  <2>1. v' \in [0 .. max - 1 -> Int]
    BY <1>1, <1>4
  <2>2. pc' \in [Threads -> {"idle", "grow", "advance", "store", "clean"}]
    BY <1>3 DEF Locations
  <2>3. size \in 0 .. max
    BY DEF RingInv, TypeOK
  <2>4. inserted' \in Nat /\ cleaned' \in 0 .. inserted'
    BY <1>1, <1>4
  <2> QED
    BY <1>1, <1>4, <2>1, <2>2, <2>3, <2>4 DEF TypeOK
<1>6. Exclusive'
  BY <1>3 DEF Exclusive
<1>7. Ordered'
  <2>1. size' = Smaller(inserted', max)
    BY <1>1, <1>2 DEF RingInv, Ordered
  <2>2. ASSUME NEW k \in 0 .. Smaller(inserted + 1, max) - 1
        PROVE  Keeps(k, v[Back(current, k)])'
    <3>1. CASE k = 0
      <4>1. v'[Back(current, 0)] = inserted + 1
        BY <1>1, <1>4, Places
      <4> QED
        BY <1>1, <1>4, <3>1, <4>1 DEF Keeps, Newest
    <3>2. CASE k # 0
      <4>1. /\ k \in 1 .. max - 1 /\ k - 1 \in 0 .. Smaller(inserted, max) - 1
            /\ k - 1 < max - 1 /\ (k - 1) + 1 = k
        BY <1>4, <2>2, <3>2 DEF Smaller
      <4>2. Keeps(k - 1, v[Back(current, (k - 1) + 1)])
        BY <1>2, <4>1 DEF RingInv, Ordered
      <4>3. Keeps(k - 1, v[Back(current, k)])
        BY <4>1, <4>2
      <4>4. v'[Back(current, k)] = v[Back(current, k)]
        BY <1>1, <1>4, <4>1, Places
      <4>5. inserted' - k = inserted - (k - 1)
        BY <1>1, <1>4, <4>1
      <4> QED
        BY <1>1, <4>3, <4>4, <4>5 DEF Keeps, Newest
    <3> QED
      BY <3>1, <3>2
  <2>3. ~Some("store")' /\ ~Some("advance")'
    BY <1>3 DEF Locations
  <2> QED
    BY <1>1, <2>1, <2>2, <2>3 DEF Ordered
<1> QED
  BY <1>5, <1>6, <1>7 DEF RingInv

\* What is cleaned may be zeros from now on.
LEMMA CleanStep ==
  ASSUME RingInv, NEW t \in Threads, Clean(t)
  PROVE  RingInv'
<1>1. /\ pc[t] = "clean" /\ Goto(t, "idle")
      /\ v' = [k \in DOMAIN v |-> IF k < size THEN 0 ELSE v[k]]
      /\ cleaned' = inserted
      /\ locked' = FALSE
      /\ UNCHANGED <<current, size, inserted>>
  BY DEF Clean
<1>2. /\ locked /\ \A u \in Threads \ {t} : pc[u] = "idle"
      /\ ~Some("advance") /\ ~Some("store")
  BY <1>1, OnlyOne DEF Locations
<1>3. /\ pc' \in [Threads -> Locations \cup {"idle"}]
      /\ \A l \in Locations : ~Some(l)'
      /\ \A u \in Threads : pc'[u] # "idle" => u = t
      /\ pc'[t] = "idle"
  BY <1>1, <1>2, Goes DEF Locations
<1>4. /\ current \in 0 .. max - 1 /\ max \in Nat \ {0} /\ inserted \in Nat
      /\ v \in [0 .. max - 1 -> Int]
  BY StatisticsQueueAssumption DEF RingInv, TypeOK
<1>5. TypeOK'
  <2>1. v' \in [0 .. max - 1 -> Int]
    BY <1>1, <1>4
  <2>2. pc' \in [Threads -> {"idle", "grow", "advance", "store", "clean"}]
    BY <1>3 DEF Locations
  <2>3. size \in 0 .. max
    BY DEF RingInv, TypeOK
  <2>4. inserted' \in Nat /\ cleaned' \in 0 .. inserted'
    BY <1>1, <1>4
  <2> QED
    BY <1>1, <1>4, <2>1, <2>2, <2>3, <2>4 DEF TypeOK
<1>6. Exclusive'
  BY <1>3 DEF Exclusive
<1>7. Ordered'
  <2>1. size' = Smaller(inserted', max)
    BY <1>1, <1>2 DEF RingInv, Ordered
  <2>2. ASSUME NEW k \in 0 .. Smaller(inserted, max) - 1
        PROVE  Keeps(k, v[Back(current, k)])'
    <3>1. k \in 0 .. max - 1 /\ inserted - k <= inserted
      BY <1>4, <2>2 DEF Smaller
    <3>2. Back(current, k) \in DOMAIN v
      BY <1>4, <3>1, Places
    <3>3. v'[Back(current, k)] = 0 \/ v'[Back(current, k)] = v[Back(current, k)]
      BY <1>1, <3>2
    <3>4. Keeps(k, v[Back(current, k)])
      BY <1>2 DEF RingInv, Ordered
    <3> QED
      BY <1>1, <3>1, <3>3, <3>4 DEF Keeps, Newest
  <2>3. ~Some("store")' /\ ~Some("advance")'
    BY <1>3 DEF Locations
  <2> QED
    BY <1>1, <2>1, <2>2, <2>3 DEF Ordered
<1> QED
  BY <1>5, <1>6, <1>7 DEF RingInv

\* A step of the reader leaves the ring alone.
LEMMA ReaderStep ==
  ASSUME RingInv, UNCHANGED <<ring, locked, pc>>
  PROVE  RingInv'
<1>1. UNCHANGED <<v, current, size, inserted, cleaned, locked, pc>>
  BY DEF ring
<1>2. TypeOK' /\ Exclusive'
  BY <1>1 DEF RingInv, TypeOK, Exclusive
<1>3. Some("store")' = Some("store") /\ Some("advance")' = Some("advance")
  BY <1>1 DEF Some
<1>4. Ordered'
  BY <1>1, <1>3 DEF RingInv, Ordered, Keeps, Newest
<1> QED
  BY <1>2, <1>4 DEF RingInv

LEMMA RingStep ==
  ASSUME RingInv, Next
  PROVE  RingInv'
<1>1. CASE \E t \in Threads : Insert(t)
  <2>1. PICK t \in Threads : Insert(t)
    BY <1>1
  <2> QED
    BY <2>1, LockStep, GrowStep, AdvanceStep, StoreStep DEF Insert
<1>2. CASE \E t \in Threads : Lock(t, "clean") \/ Clean(t)
  <2>1. PICK t \in Threads : Lock(t, "clean") \/ Clean(t)
    BY <1>2
  <2> QED
    BY <2>1, LockStep, CleanStep
<1>3. CASE Gather
  BY <1>3, ReaderStep DEF Gather, Get, Compare, Place, Load, Return
<1> QED
  BY <1>1, <1>2, <1>3 DEF Next

LEMMA InitRing == Init => GatherInv
<1> SUFFICES ASSUME Init PROVE GatherInv
  OBVIOUS
<1>1. max \in Nat \ {0} /\ MaxInserts \in Nat
  BY StatisticsQueueAssumption
<1>2. v \in [0 .. max - 1 -> Int]
  BY <1>1 DEF Init
<1>3. TypeOK /\ Exclusive
  <2>1. pc = [t \in Threads |-> "idle"] /\ locked = FALSE
    BY DEF Init
  <2>2. pc \in [Threads -> {"idle", "grow", "advance", "store", "clean"}]
    BY <2>1
  <2>3. 0 \in 0 .. max - 1 /\ 0 \in 0 .. max /\ 0 \in 0 .. 0
    BY <1>1
  <2> QED
    BY <1>2, <2>1, <2>2, <2>3 DEF Init, TypeOK, Exclusive
<1>4. Ordered
  BY <1>1 DEF Init, Ordered, Some, Smaller
<1>5. Undisturbed
  BY DEF Init, Undisturbed, GatherExact
<1> QED
  BY <1>3, <1>4, <1>5 DEF GatherInv, RingInv

-----------------------------------------------------------------------------
(* The thread that reads. *)

\* A thread that writes, or does not, leaves the reader where it is.
LEMMA WriterStep ==
  ASSUME GatherInv, NEW t \in Threads, Insert(t) \/ Lock(t, "clean") \/ Clean(t)
  PROVE  Undisturbed'
<1>1. RingInv /\ Undisturbed /\ UNCHANGED reading
  BY DEF GatherInv, Insert, Lock, Grow, Advance, Store, Clean
<1>2. ~alone'
  <2>1. CASE pc[t] = "idle"
    BY <2>1 DEF Insert, Lock, Grow, Advance, Store, Clean
  <2>2. CASE pc[t] # "idle"
    <3>1. locked /\ ~alone
      BY <1>1, <2>2, OnlyOne DEF Undisturbed
    <3>2. alone' = alone
      BY <2>2 DEF Insert, Lock, Grow, Advance, Store, Clean
    <3> QED
      BY <3>1, <3>2, Zenon
  <2> QED
    BY <2>1, <2>2
<1> QED
  BY <1>1, <1>2 DEF Undisturbed, GatherExact, reading

\* When nobody writes, every offset the ring goes back to is a sample kept.
LEMMA Settled ==
  ASSUME RingInv, ~locked
  PROVE  /\ size = Smaller(inserted, max)
         /\ \A k \in 0 .. size - 1 : Keeps(k, v[Back(current, k)])
<1>1. ~Some("advance") /\ ~Some("store")
  BY OnlyOne DEF Locations
<1> QED
  BY <1>1 DEF RingInv, Ordered

LEMMA GetStep ==
  ASSUME GatherInv, Get
  PROVE  Undisturbed'
<1>1. /\ alone' = ~locked /\ LL' \in Offsets
      /\ UNCHANGED <<v, current, size, inserted, cleaned, locked>>
      /\ \/ size = 0 /\ scr' = Null /\ reader' = "done"
         \/ size # 0 /\ scr' = current /\ reader' = "compare"
  BY DEF Get, ring
<1>2. LL' \in Nat /\ size \in Nat
  BY <1>1, StatisticsQueueAssumption DEF GatherInv, RingInv, TypeOK
<1>3. alone' => ~locked'
  BY <1>1, Zenon
<1>4. CASE size = 0
  BY <1>1, <1>2, <1>3, <1>4 DEF Undisturbed, GatherExact
<1>5. CASE size # 0
  BY <1>1, <1>2, <1>3, <1>5 DEF Undisturbed, GatherExact
<1> QED
  BY <1>4, <1>5

LEMMA CompareStep ==
  ASSUME GatherInv, Compare
  PROVE  Undisturbed'
<1>1. /\ reader = "compare" /\ (wraps' <=> current < LL)
      /\ UNCHANGED <<v, current, size, inserted, cleaned, locked, alone, LL>>
      /\ \/ LL < size /\ reader' = "place" /\ scr' = scr
         \/ ~(LL < size) /\ reader' = "done" /\ scr' = Null
  <2>1. wraps' <=> current < LL
    BY Zenon DEF Compare
  <2> QED
    BY <2>1 DEF Compare, ring
<1>2. /\ LL \in Nat
      /\ alone => ~locked /\ scr = current
  BY <1>1 DEF GatherInv, Undisturbed
<1>3. LL' \in Nat /\ reader' \in {"idle", "compare", "place", "load", "done"}
  BY <1>1, <1>2
<1> QED
  BY <1>1, <1>2, <1>3 DEF Undisturbed, GatherExact

LEMMA PlaceStep ==
  ASSUME GatherInv, Place
  PROVE  Undisturbed'
<1>1. /\ reader = "place" /\ reader' = "load"
      /\ sof' = IF wraps THEN max + current - LL ELSE current - LL
      /\ UNCHANGED <<v, current, size, inserted, cleaned, locked, alone, LL, scr>>
  BY DEF Place, ring
<1>2. /\ LL \in Nat
      /\ alone => ~locked /\ scr = current /\ LL < size
      /\ alone => (wraps <=> current < LL)
  BY <1>1 DEF GatherInv, Undisturbed
<1>3. current \in Int /\ max \in Int
  BY StatisticsQueueAssumption DEF GatherInv, RingInv, TypeOK
<1>4. alone => sof' = Back(current, LL)
  <2>1. CASE wraps
    BY <1>1, <1>2, <1>3, <2>1 DEF Back
  <2>2. CASE ~wraps
    BY <1>1, <1>2, <1>3, <2>2 DEF Back
  <2> QED
    BY <2>1, <2>2
<1> QED
  BY <1>1, <1>2, <1>4 DEF Undisturbed, GatherExact

LEMMA LoadStep ==
  ASSUME GatherInv, Load
  PROVE  Undisturbed'
<1>1. /\ reader = "load" /\ reader' = "done"
      /\ scr' \in At(scr) /\ sof' \in At(sof)
      /\ UNCHANGED <<v, current, size, inserted, cleaned, locked, alone, LL>>
  BY DEF Load, ring
<1>2. LL \in Nat /\ alone => ~locked /\ scr = current /\ LL < size /\ sof = Back(current, LL)
  BY <1>1 DEF GatherInv, Undisturbed
<1>3. LL \in Nat
  BY DEF GatherInv, Undisturbed
<1>4. ASSUME alone PROVE LL < size /\ Keeps(0, scr') /\ Keeps(LL, sof')
  <2>1. /\ RingInv /\ ~locked /\ LL \in 0 .. size - 1 /\ 0 \in 0 .. size - 1
        /\ scr = current /\ sof = Back(current, LL) /\ LL < size
    BY <1>2, <1>3, <1>4 DEF GatherInv, RingInv, TypeOK
  <2>2. /\ current \in 0 .. max - 1 /\ LL \in 0 .. max - 1 /\ DOMAIN v = 0 .. max - 1
    BY <1>3, <2>1, StatisticsQueueAssumption DEF RingInv, TypeOK
  <2>3. Back(current, 0) = current /\ Back(current, LL) \in DOMAIN v
    BY <2>2, Places
  <2>4. scr' = v[Back(current, 0)] /\ sof' = v[Back(current, LL)]
    BY <1>1, <2>1, <2>2, <2>3 DEF At
  <2>5. Keeps(0, v[Back(current, 0)]) /\ Keeps(LL, v[Back(current, LL)])
    BY <2>1, Settled
  <2> QED
    BY <2>1, <2>4, <2>5
<1> QED
  BY <1>1, <1>2, <1>3, <1>4 DEF Undisturbed, GatherExact, Keeps, Newest

LEMMA NextRing == GatherInv /\ [Next]_vars => GatherInv'
<1> SUFFICES ASSUME GatherInv, [Next]_vars PROVE GatherInv'
  OBVIOUS
<1>1. RingInv'
  <2>1. CASE Next
    BY <2>1, RingStep DEF GatherInv
  <2>2. CASE UNCHANGED vars
    BY <2>2, ReaderStep DEF vars, GatherInv
  <2> QED
    BY <2>1, <2>2
<1>2. ASSUME Next PROVE Undisturbed'
  <2>1. CASE \E t \in Threads : Insert(t) \/ Lock(t, "clean") \/ Clean(t)
    BY <2>1, WriterStep
  <2>2. CASE Gather
    <3>1. ASSUME Return PROVE Undisturbed'
      <4>1. /\ reader' = "idle"
            /\ UNCHANGED <<v, current, size, inserted, cleaned, locked, alone, LL>>
        BY <3>1 DEF Return, ring
      <4>2. LL \in Nat /\ (alone => ~locked)
        BY DEF GatherInv, Undisturbed
      <4> QED
        BY <4>1, <4>2 DEF Undisturbed, GatherExact
    <3> QED
      BY <2>2, <3>1, GetStep, CompareStep, PlaceStep, LoadStep DEF Gather
  <2> QED
    BY <1>2, <2>1, <2>2 DEF Next
<1>3. ASSUME UNCHANGED vars PROVE Undisturbed'
  BY <1>3 DEF vars, reading, ring, GatherInv, Undisturbed, GatherExact, Keeps, Newest
<1> QED
  BY <1>1, <1>2, <1>3 DEF GatherInv

\* The ring and its reader keep to GatherInv, whoever inserts and cleans.
THEOREM RingCorrect == Spec => []GatherInv
<1> QED
  BY InitRing, NextRing, PTL DEF Spec

\* When no thread is inserting or cleaning, the ring holds the latest samples
\* in the order of their insertion, as many as it can.
THEOREM Ring == Spec => []RingExact
<1>1. GatherInv => RingExact
  <2> SUFFICES ASSUME GatherInv, ~locked PROVE RingExact
    BY DEF RingExact
  <2>1. /\ size = Smaller(inserted, max) /\ size \in 0 .. max /\ inserted \in Nat
        /\ \A k \in 0 .. size - 1 : Keeps(k, v[Back(current, k)])
        /\ current \in 0 .. max - 1
    BY Settled DEF GatherInv, RingInv, TypeOK
  <2>2. max \in Nat \ {0}
    BY StatisticsQueueAssumption
  <2>3. ASSUME NEW k \in 0 .. size - 1
        PROVE  (current - k) % max = Back(current, k)
    BY <2>1, <2>2 DEF Back
  <2>4. size = IF inserted < max THEN inserted ELSE max
    BY <2>1 DEF Smaller
  <2> QED
    BY <2>1, <2>3, <2>4 DEF RingExact
<1> QED
  BY <1>1, RingCorrect, PTL

\* A call of gatherStatistics that nobody disturbs compares the newest sample
\* with the one LL before it, or answers that there is none.
THEOREM Gathered == Spec => []GatherExact
<1>1. GatherInv => GatherExact
  BY DEF GatherInv, Undisturbed
<1> QED
  BY <1>1, RingCorrect, PTL

-----------------------------------------------------------------------------
(* The map: the inductive invariant. *)

MapLocations == {"count", "store", "insert", "inserting", "clear", "add", "adding", "done"}

Counting == {"count", "store", "insert", "inserting", "clear"}

\* How often the thread has counted, which keys it has inserted, whether it
\* has cleared the map, and how often it has added behind the lock.
Counted(t) ==
  IF map_pc[t] \in {"count", "store"} THEN i[t]
  ELSE IF map_pc[t] \in Counting THEN i[t] + 1 ELSE Keys

Inserted(t) ==
  IF map_pc[t] = "clear" THEN i[t] + 1
  ELSE IF map_pc[t] \in Counting THEN i[t] ELSE Keys

Cleared(t) == i[t] > Half \/ map_pc[t] \notin Counting

Added(t) ==
  IF map_pc[t] \in Counting THEN 0 ELSE IF map_pc[t] = "done" THEN Keys ELSE i[t]

Rounds == Threads \X (0 .. Keys - 1)
Counts == {r \in Rounds : r[2] < Counted(r[1])}
Additions == {r \in Rounds : r[2] < Added(r[1])}

MapTypeOK ==
  /\ map_pc \in [Threads -> MapLocations]
  /\ i \in [Threads -> 0 .. Keys - 1]
  /\ loaded = [t \in Threads |-> loaded[t]]
  /\ a \in Nat /\ counter_ \in Nat
  /\ \A t \in Threads : map_pc[t] = "clear" => i[t] = Half

\* One thread has the lock, and what it has read is still so.
Held ==
  /\ \A t \in Threads :
       /\ map_pc[t] \in {"inserting", "adding"} => map_locked
       /\ map_pc[t] = "inserting" => loaded[t] = map_
       /\ map_pc[t] = "adding" => loaded[t] = counter_
  /\ \A t, u \in Threads :
       {map_pc[t], map_pc[u]} \subseteq {"inserting", "adding"} => t = u

CounterExact == counter_ = Cardinality(Additions)

\* Once every thread has cleared the map, it has keys above Half only, and all
\* those that the last one to clear it has inserted since.
MapExact ==
  (\A t \in Threads : Cleared(t)) =>
    /\ map_ \subseteq Half + 1 .. Keys - 1
    /\ \E t \in Threads : Half + 1 .. Inserted(t) - 1 \subseteq map_

\* The variable is never more than the number of times it was counted; and a
\* thread that has counted before has seen it counted once.
CountBounds ==
  /\ a <= Cardinality(Counts)
  /\ \A t \in Threads : map_pc[t] = "store" =>
       /\ loaded[t] \in Nat /\ loaded[t] <= Cardinality(Counts)
       /\ i[t] > 0 => loaded[t] > 0
  /\ \A t \in Threads : Counted(t) > 0 => a > 0
  /\ Keys > 1 /\ (\A t \in Threads : Counted(t) = Keys) => a > 1

MapInv == MapTypeOK /\ Held /\ CounterExact /\ MapExact /\ CountBounds


-----------------------------------------------------------------------------
(* The measures of a thread. *)

LEMMA MapConstants ==
  /\ Keys \in Nat \ {0} /\ Half \in 0 .. Keys - 1
  /\ IsFiniteSet(Threads) /\ Threads # {}
BY MapAssumption DEF Map!SafeMapAssumption, Map!IsFiniteSet, IsFiniteSet

LEMMA RoundsFinite ==
  /\ IsFiniteSet(Rounds)
  /\ Cardinality(Rounds) = Keys * Cardinality(Threads)
<1>1. IsFiniteSet(0 .. Keys - 1) /\ Cardinality(0 .. Keys - 1) = Keys
  BY MapConstants, FS_Interval
<1>2. IsFiniteSet(Threads) /\ Cardinality(Threads) \in Nat
  BY MapConstants, FS_CardinalityType
<1>3. /\ IsFiniteSet(Rounds)
      /\ Cardinality(Rounds) = Cardinality(Threads) * Cardinality(0 .. Keys - 1)
  BY <1>1, <1>2, FS_Product DEF Rounds
<1>4. \A x, y \in Nat : x * y = y * x
  OBVIOUS
<1> QED
  BY <1>1, <1>2, <1>3, <1>4, MapConstants

\* One thread has done one round more.
LEMMA OneMore ==
  ASSUME NEW c \in [Threads -> 0 .. Keys], NEW d \in [Threads -> 0 .. Keys],
         NEW t \in Threads, d[t] = c[t] + 1, \A u \in Threads \ {t} : d[u] = c[u]
  PROVE  LET done == {r \in Rounds : r[2] < c[r[1]]}
         IN /\ Cardinality({r \in Rounds : r[2] < d[r[1]]}) = Cardinality(done) + 1
            /\ Cardinality(done) \in Nat
<1> DEFINE done == {r \in Rounds : r[2] < c[r[1]]}
           now == {r \in Rounds : r[2] < d[r[1]]}
           new == <<t, c[t]>>
<1>1. /\ c[t] \in 0 .. Keys - 1 /\ Keys \in Nat
      /\ \A u \in Threads : c[u] \in Nat /\ d[u] \in Nat
  BY MapConstants
<1>2. new \in Rounds /\ new \notin done
  BY <1>1 DEF Rounds
<1>3. ASSUME NEW r \in Rounds
      PROVE  r \in now <=> r \in done \/ r = new
  <2>1. PICK u \in Threads, k \in 0 .. Keys - 1 : r = <<u, k>>
    BY DEF Rounds
  <2>2. r \in now <=> k < d[u]
    BY <2>1
  <2>3. r \in done <=> k < c[u]
    BY <2>1
  <2>4. r = new <=> u = t /\ k = c[t]
    BY <2>1
  <2>5. k < d[u] <=> k < c[u] \/ (u = t /\ k = c[t])
    BY <1>1
  <2> QED
    BY <2>2, <2>3, <2>4, <2>5
<1>4. now = done \cup {new}
  BY <1>2, <1>3
<1>5. IsFiniteSet(done)
  <2>1. done \in SUBSET Rounds
    OBVIOUS
  <2> QED
    BY <2>1, RoundsFinite, FS_Subset
<1>6. Cardinality(done \cup {new}) = Cardinality(done) + 1
  BY <1>2, <1>5, FS_AddElement
<1>7. Cardinality(done) \in Nat
  BY <1>5, FS_CardinalityType
<1> QED
  BY <1>4, <1>6, <1>7

LEMMA Numbers ==
  ASSUME MapTypeOK
  PROVE  /\ \A t \in Threads : /\ Counted(t) \in 0 .. Keys /\ Added(t) \in 0 .. Keys
                               /\ Inserted(t) \in 0 .. Keys
         /\ Cardinality(Counts) \in Nat /\ Cardinality(Additions) \in Nat
<1>1. \A t \in Threads : i[t] \in 0 .. Keys - 1
  BY DEF MapTypeOK
<1>2. \A t \in Threads : /\ Counted(t) \in 0 .. Keys /\ Added(t) \in 0 .. Keys
                         /\ Inserted(t) \in 0 .. Keys
  BY <1>1, MapConstants DEF Counted, Added, Inserted
<1>3. Counts \in SUBSET Rounds /\ Additions \in SUBSET Rounds
  BY DEF Counts, Additions
<1>4. Cardinality(Counts) \in Nat /\ Cardinality(Additions) \in Nat
  BY <1>3, RoundsFinite, FS_Subset, FS_CardinalityType
<1> QED
  BY <1>2, <1>4

\* When a thread has counted, or added, once more, so have all together.
LEMMA CountedOnceMore ==
  ASSUME MapTypeOK, MapTypeOK', NEW t \in Threads, Counted(t)' = Counted(t) + 1,
         \A u \in Threads \ {t} : Counted(u)' = Counted(u)
  PROVE  Cardinality(Counts)' = Cardinality(Counts) + 1
<1> DEFINE c == [u \in Threads |-> Counted(u)]
           d == [u \in Threads |-> Counted(u)']
<1>1. \A u \in Threads : Counted(u) \in 0 .. Keys
  BY Numbers
<1>2. ASSUME MapTypeOK' PROVE \A u \in Threads : Counted(u)' \in 0 .. Keys
  <2>1. \A u \in Threads : i'[u] \in 0 .. Keys - 1
    BY <1>2 DEF MapTypeOK
  <2> QED
    BY <2>1, MapConstants DEF Counted
<1>3. /\ c \in [Threads -> 0 .. Keys] /\ d \in [Threads -> 0 .. Keys]
      /\ d[t] = c[t] + 1 /\ \A u \in Threads \ {t} : d[u] = c[u]
  BY <1>1, <1>2
<1>4. /\ Counts = {r \in Rounds : r[2] < c[r[1]]}
      /\ Counts' = {r \in Rounds : r[2] < d[r[1]]}
  BY DEF Counts, Rounds
<1> HIDE DEF c, d
<1>5. Cardinality({r \in Rounds : r[2] < d[r[1]]})
        = Cardinality({r \in Rounds : r[2] < c[r[1]]}) + 1
  BY <1>3, OneMore
<1>6. Cardinality(Counts)' = Cardinality({r \in Rounds : r[2] < d[r[1]]})
  BY <1>4
<1> QED
  BY <1>4, <1>5, <1>6

LEMMA AddedOnceMore ==
  ASSUME MapTypeOK, MapTypeOK', NEW t \in Threads, Added(t)' = Added(t) + 1,
         \A u \in Threads \ {t} : Added(u)' = Added(u)
  PROVE  Cardinality(Additions)' = Cardinality(Additions) + 1
<1> DEFINE c == [u \in Threads |-> Added(u)]
           d == [u \in Threads |-> Added(u)']
<1>1. \A u \in Threads : Added(u) \in 0 .. Keys
  BY Numbers
<1>2. \A u \in Threads : Added(u)' \in 0 .. Keys
  <2>1. \A u \in Threads : i'[u] \in 0 .. Keys - 1
    BY DEF MapTypeOK
  <2> QED
    BY <2>1, MapConstants DEF Added
<1>3. /\ c \in [Threads -> 0 .. Keys] /\ d \in [Threads -> 0 .. Keys]
      /\ d[t] = c[t] + 1 /\ \A u \in Threads \ {t} : d[u] = c[u]
  BY <1>1, <1>2
<1>4. /\ Additions = {r \in Rounds : r[2] < c[r[1]]}
      /\ Additions' = {r \in Rounds : r[2] < d[r[1]]}
  BY DEF Additions, Rounds
<1> HIDE DEF c, d
<1>5. Cardinality({r \in Rounds : r[2] < d[r[1]]})
        = Cardinality({r \in Rounds : r[2] < c[r[1]]}) + 1
  BY <1>3, OneMore
<1>6. Cardinality(Additions)' = Cardinality({r \in Rounds : r[2] < d[r[1]]})
  BY <1>4
<1> QED
  BY <1>4, <1>5, <1>6

\* The loop variable after a round.
LEMMA NextRound ==
  ASSUME NEW n \in 0 .. Keys - 1
  PROVE  (n + 1) % Keys = IF n + 1 < Keys THEN n + 1 ELSE 0
<1>1. Keys \in Nat \ {0}
  BY MapConstants
<1>2. CASE n + 1 < Keys
  BY <1>1, <1>2
<1>3. CASE n + 1 = Keys
  BY <1>1, <1>3
<1> QED
  BY <1>1, <1>2, <1>3

LEMMA CardinalityIs == Map!Cardinality(Threads) = Cardinality(Threads)
BY DEF Map!Cardinality, Cardinality

-----------------------------------------------------------------------------
(* The threads that count, insert, clear and add. *)

\* A thread moves on; the others stay where they are.
LEMMA Elsewhere ==
  ASSUME MapTypeOK, NEW t \in Threads, NEW l \in MapLocations, NEW n \in 0 .. Keys - 1,
         map_pc' = [map_pc EXCEPT ![t] = l], i' = [i EXCEPT ![t] = n]
  PROVE  /\ map_pc' \in [Threads -> MapLocations] /\ i' \in [Threads -> 0 .. Keys - 1]
         /\ map_pc'[t] = l /\ i'[t] = n
         /\ \A u \in Threads \ {t} :
              /\ map_pc'[u] = map_pc[u] /\ i'[u] = i[u]
              /\ Counted(u)' = Counted(u) /\ Inserted(u)' = Inserted(u)
              /\ Cleared(u)' = Cleared(u) /\ Added(u)' = Added(u)
<1>1. map_pc \in [Threads -> MapLocations] /\ i \in [Threads -> 0 .. Keys - 1]
  BY DEF MapTypeOK
<1>2. /\ map_pc' \in [Threads -> MapLocations] /\ i' \in [Threads -> 0 .. Keys - 1]
      /\ map_pc'[t] = l /\ i'[t] = n
      /\ \A u \in Threads \ {t} : map_pc'[u] = map_pc[u] /\ i'[u] = i[u]
  BY <1>1
<1> QED
  BY <1>2 DEF Counted, Inserted, Cleared, Added

LEMMA Stays ==
  ASSUME MapTypeOK, NEW t \in Threads, i' = i
  PROVE  i[t] \in 0 .. Keys - 1 /\ i' = [i EXCEPT ![t] = i[t]]
BY DEF MapTypeOK

\* What has been read is of the thread that reads.
LEMMA Reads ==
  ASSUME MapTypeOK, NEW t \in Threads, NEW value, loaded' = [loaded EXCEPT ![t] = value]
  PROVE  /\ loaded' = [u \in Threads |-> loaded'[u]]
         /\ loaded'[t] = value
         /\ \A u \in Threads \ {t} : loaded'[u] = loaded[u]
<1>1. DOMAIN loaded = Threads /\ loaded = [u \in Threads |-> loaded[u]]
  BY DEF MapTypeOK
<1> QED
  BY <1>1

\* A step that changes no measure.
LEMMA SameMeasures ==
  ASSUME MapInv, MapTypeOK', UNCHANGED <<a, map_, counter_>>,
         \A u \in Threads : /\ Counted(u)' = Counted(u) /\ Inserted(u)' = Inserted(u)
                            /\ Cleared(u)' = Cleared(u) /\ Added(u)' = Added(u),
         \A u \in Threads : map_pc'[u] = "store" =>
           \/ map_pc[u] = "store" /\ i'[u] = i[u] /\ loaded'[u] = loaded[u]
           \/ loaded'[u] = a /\ (i'[u] > 0 => Counted(u) > 0)
  PROVE  CounterExact' /\ MapExact' /\ CountBounds'
<1>1. Counts' = Counts /\ Additions' = Additions
  BY DEF Counts, Additions, Rounds
<1>2. Cardinality(Counts)' = Cardinality(Counts)
  BY <1>1
<1>3. CounterExact' /\ MapExact'
  BY <1>1 DEF MapInv, CounterExact, MapExact
<1>4. ASSUME NEW u \in Threads, map_pc'[u] = "store"
      PROVE  /\ loaded'[u] \in Nat /\ loaded'[u] <= Cardinality(Counts)
             /\ i'[u] > 0 => loaded'[u] > 0
  <2>1. a \in Nat
    BY DEF MapInv, MapTypeOK
  <2> QED
    BY <1>4, <2>1 DEF MapInv, CountBounds
<1>5. CountBounds'
  BY <1>2, <1>4 DEF MapInv, CountBounds
<1> QED
  BY <1>3, <1>5

LEMMA CountLoadStep ==
  ASSUME MapInv, NEW t \in Threads, Map!CountLoad(t)
  PROVE  MapInv'
<1>1. /\ map_pc[t] = "count" /\ map_pc' = [map_pc EXCEPT ![t] = "store"]
      /\ loaded' = [loaded EXCEPT ![t] = a]
      /\ UNCHANGED <<a, map_, counter_, map_locked, i>>
  BY DEF Map!CountLoad, Map!Goto, Map!Read
<1>2. MapTypeOK
  BY DEF MapInv
<1>3. /\ map_pc' \in [Threads -> MapLocations] /\ i' \in [Threads -> 0 .. Keys - 1]
      /\ map_pc'[t] = "store" /\ i'[t] = i[t]
      /\ \A u \in Threads \ {t} :
           /\ map_pc'[u] = map_pc[u] /\ i'[u] = i[u]
           /\ Counted(u)' = Counted(u) /\ Inserted(u)' = Inserted(u)
           /\ Cleared(u)' = Cleared(u) /\ Added(u)' = Added(u)
  BY <1>1, <1>2, Stays, Elsewhere DEF MapLocations
<1>4. /\ loaded' = [u \in Threads |-> loaded'[u]]
      /\ loaded'[t] = a
      /\ \A u \in Threads \ {t} : loaded'[u] = loaded[u]
  BY <1>1, <1>2, Reads
<1>5. MapTypeOK'
  BY <1>1, <1>2, <1>3, <1>4 DEF MapTypeOK
<1>6. Held'
  BY <1>1, <1>3, <1>4 DEF MapInv, Held
<1>7. /\ Counted(t)' = Counted(t) /\ Inserted(t)' = Inserted(t)
      /\ Cleared(t)' = Cleared(t) /\ Added(t)' = Added(t) /\ Counted(t) = i[t]
  BY <1>1, <1>3 DEF Counted, Inserted, Cleared, Added, Counting
<1>8. CounterExact' /\ MapExact' /\ CountBounds'
  BY <1>1, <1>3, <1>4, <1>5, <1>7, SameMeasures
<1> QED
  BY <1>5, <1>6, <1>8 DEF MapInv

LEMMA LockMapStep ==
  ASSUME MapInv, NEW t \in Threads, NEW from, NEW value, NEW to,
         \/ from = "insert" /\ to = "inserting" /\ value = map_
         \/ from = "add" /\ to = "adding" /\ value = counter_,
         map_pc[t] = from, Map!Lock(t, value, to)
  PROVE  MapInv'
<1>1. /\ ~map_locked /\ map_locked' = TRUE
      /\ map_pc' = [map_pc EXCEPT ![t] = to]
      /\ loaded' = [loaded EXCEPT ![t] = value]
      /\ UNCHANGED <<a, map_, counter_, i>>
  BY DEF Map!Lock, Map!Goto, Map!Read
<1>2. MapTypeOK
  BY DEF MapInv
<1>3. /\ map_pc' \in [Threads -> MapLocations] /\ i' \in [Threads -> 0 .. Keys - 1]
      /\ map_pc'[t] = to /\ i'[t] = i[t]
      /\ \A u \in Threads \ {t} :
           /\ map_pc'[u] = map_pc[u] /\ i'[u] = i[u]
           /\ Counted(u)' = Counted(u) /\ Inserted(u)' = Inserted(u)
           /\ Cleared(u)' = Cleared(u) /\ Added(u)' = Added(u)
  BY <1>1, <1>2, Stays, Elsewhere DEF MapLocations
<1>4. /\ loaded' = [u \in Threads |-> loaded'[u]]
      /\ loaded'[t] = value
      /\ \A u \in Threads \ {t} : loaded'[u] = loaded[u]
  BY <1>1, <1>2, Reads
<1>5. MapTypeOK'
  BY <1>1, <1>2, <1>3, <1>4 DEF MapTypeOK
<1>6. \A u \in Threads : map_pc[u] \notin {"inserting", "adding"}
  BY <1>1 DEF MapInv, Held
<1>7. Held'
  BY <1>1, <1>3, <1>4, <1>6 DEF Held
<1>8. /\ Counted(t)' = Counted(t) /\ Inserted(t)' = Inserted(t)
      /\ Cleared(t)' = Cleared(t) /\ Added(t)' = Added(t)
  BY <1>3 DEF Counted, Inserted, Cleared, Added, Counting
<1>9. CounterExact' /\ MapExact' /\ CountBounds'
  BY <1>1, <1>3, <1>4, <1>5, <1>8, SameMeasures
<1> QED
  BY <1>5, <1>7, <1>9 DEF MapInv

\* One is added to what was read before, which is not more than was counted.
LEMMA CountStoreStep ==
  ASSUME MapInv, NEW t \in Threads, Map!CountStore(t)
  PROVE  MapInv'
<1>1. /\ map_pc[t] = "store" /\ map_pc' = [map_pc EXCEPT ![t] = "insert"]
      /\ a' = loaded[t] + 1
      /\ UNCHANGED <<map_, counter_, map_locked, i, loaded>>
  BY DEF Map!CountStore, Map!Goto
<1>2. MapTypeOK
  BY DEF MapInv
<1>3. /\ map_pc' \in [Threads -> MapLocations] /\ i' \in [Threads -> 0 .. Keys - 1]
      /\ map_pc'[t] = "insert" /\ i'[t] = i[t]
      /\ \A u \in Threads \ {t} :
           /\ map_pc'[u] = map_pc[u] /\ i'[u] = i[u]
           /\ Counted(u)' = Counted(u) /\ Inserted(u)' = Inserted(u)
           /\ Cleared(u)' = Cleared(u) /\ Added(u)' = Added(u)
  BY <1>1, <1>2, Stays, Elsewhere DEF MapLocations
<1>4. loaded[t] \in Nat /\ loaded[t] <= Cardinality(Counts) /\ (i[t] > 0 => loaded[t] > 0)
  BY <1>1 DEF MapInv, CountBounds
<1>5. MapTypeOK'
  BY <1>1, <1>2, <1>3, <1>4 DEF MapTypeOK
<1>6. Held'
  BY <1>1, <1>3 DEF MapInv, Held
<1>7. /\ Counted(t) = i[t] /\ Counted(t)' = i[t] + 1 /\ Inserted(t)' = Inserted(t)
      /\ Cleared(t)' = Cleared(t) /\ Added(t)' = Added(t) /\ i[t] \in 0 .. Keys - 1
  BY <1>1, <1>2, <1>3 DEF Counted, Inserted, Cleared, Added, Counting, MapTypeOK
<1>8. Cardinality(Counts)' = Cardinality(Counts) + 1 /\ Cardinality(Counts) \in Nat
  BY <1>2, <1>3, <1>5, <1>7, CountedOnceMore, Numbers
<1>9. CounterExact' /\ MapExact'
  <2>1. Additions' = Additions
    BY <1>3, <1>7 DEF Additions, Rounds
  <2> QED
    BY <1>1, <1>3, <1>7, <2>1 DEF MapInv, CounterExact, MapExact
<1>10. CountBounds'
  <2>1. a' <= Cardinality(Counts)' /\ a' > 0
    BY <1>1, <1>4, <1>8
  <2>2. ASSUME NEW u \in Threads, map_pc'[u] = "store"
        PROVE  /\ loaded'[u] \in Nat /\ loaded'[u] <= Cardinality(Counts)'
               /\ i'[u] > 0 => loaded'[u] > 0
    BY <1>1, <1>3, <1>8, <2>2 DEF MapInv, CountBounds
  <2>3. Keys > 1 /\ (\A u \in Threads : Counted(u)' = Keys) => a' > 1
    BY <1>1, <1>4, <1>7, MapConstants
  <2> QED
    BY <2>1, <2>2, <2>3 DEF CountBounds
<1> QED
  BY <1>5, <1>6, <1>9, <1>10 DEF MapInv

\* Where Again leads.
LEMMA AgainStep ==
  ASSUME MapTypeOK, NEW t \in Threads, NEW again \in MapLocations,
         NEW location \in MapLocations, Map!Again(t, again, location)
  PROVE  \E n \in 0 .. Keys - 1, l \in MapLocations :
           /\ map_pc' = [map_pc EXCEPT ![t] = l] /\ i' = [i EXCEPT ![t] = n]
           /\ IF i[t] + 1 < Keys THEN n = i[t] + 1 /\ l = again
                                 ELSE n = 0 /\ l = location /\ i[t] = Keys - 1
<1>1. i[t] \in 0 .. Keys - 1 /\ Keys \in Nat \ {0}
  BY MapConstants DEF MapTypeOK
<1>2. (i[t] + 1) % Keys = IF i[t] + 1 < Keys THEN i[t] + 1 ELSE 0
  BY <1>1, NextRound
<1>3. /\ i' = [i EXCEPT ![t] = (i[t] + 1) % Keys]
      /\ map_pc' = [map_pc EXCEPT ![t] = IF i[t] + 1 < Keys THEN again ELSE location]
  BY DEF Map!Again, Map!Goto
<1>4. CASE i[t] + 1 < Keys
  <2>1. i[t] + 1 \in 0 .. Keys - 1
    BY <1>1, <1>4
  <2>2. (i[t] + 1) % Keys = i[t] + 1
    BY <1>2, <1>4
  <2>3. i' = [i EXCEPT ![t] = i[t] + 1] /\ map_pc' = [map_pc EXCEPT ![t] = again]
    BY <1>3, <1>4, <2>2, Zenon
  <2> QED
    BY <1>4, <2>1, <2>3
<1>5. CASE ~(i[t] + 1 < Keys)
  <2>1. 0 \in 0 .. Keys - 1 /\ i[t] = Keys - 1
    BY <1>1, <1>5
  <2>2. (i[t] + 1) % Keys = 0
    BY <1>2, <1>5
  <2>3. i' = [i EXCEPT ![t] = 0] /\ map_pc' = [map_pc EXCEPT ![t] = location]
    BY <1>3, <1>5, <2>2, Zenon
  <2> QED
    BY <1>5, <2>1, <2>3
<1> QED
  BY <1>4, <1>5

\* A key is inserted into the map read, which is the map still.
LEMMA InsertingStep ==
  ASSUME MapInv, NEW t \in Threads, map_pc[t] = "inserting", Map!Insert(t)
  PROVE  MapInv'
<1>1. /\ map_' = loaded[t] \cup {i[t]} /\ map_locked' = FALSE
      /\ UNCHANGED <<a, counter_, loaded>>
      /\ \/ i[t] = Half /\ Map!Goto(t, "clear") /\ UNCHANGED i
         \/ i[t] # Half /\ Map!Again(t, "count", "add")
  BY DEF Map!Insert
<1>2. /\ MapTypeOK /\ loaded[t] = map_ /\ i[t] \in 0 .. Keys - 1
      /\ \A u \in Threads \ {t} : map_pc[u] \notin {"inserting", "adding"}
  BY DEF MapInv, Held, MapTypeOK
<1>3. PICK n \in 0 .. Keys - 1, l \in MapLocations :
        /\ map_pc' = [map_pc EXCEPT ![t] = l] /\ i' = [i EXCEPT ![t] = n]
        /\ \/ i[t] = Half /\ n = i[t] /\ l = "clear"
           \/ i[t] # Half /\ i[t] + 1 < Keys /\ n = i[t] + 1 /\ l = "count"
           \/ i[t] # Half /\ i[t] = Keys - 1 /\ n = 0 /\ l = "add"
  <2>1. CASE i[t] = Half
    BY <1>1, <1>2, <2>1, Stays DEF Map!Goto, MapLocations
  <2>2. CASE i[t] # Half
    BY <1>1, <1>2, <2>2, AgainStep DEF MapLocations
  <2> QED
    BY <2>1, <2>2
<1>4. /\ map_pc' \in [Threads -> MapLocations] /\ i' \in [Threads -> 0 .. Keys - 1]
      /\ map_pc'[t] = l /\ i'[t] = n
      /\ \A u \in Threads \ {t} :
           /\ map_pc'[u] = map_pc[u] /\ i'[u] = i[u]
           /\ Counted(u)' = Counted(u) /\ Inserted(u)' = Inserted(u)
           /\ Cleared(u)' = Cleared(u) /\ Added(u)' = Added(u)
  BY <1>2, <1>3, Elsewhere
<1>5. MapTypeOK'
  BY <1>1, <1>2, <1>3, <1>4 DEF MapTypeOK
<1>6. Held'
  BY <1>1, <1>2, <1>3, <1>4 DEF MapInv, Held
<1>7. /\ Counted(t)' = Counted(t) /\ Inserted(t) = i[t] /\ Inserted(t)' = i[t] + 1
      /\ Cleared(t)' = Cleared(t) /\ Added(t)' = Added(t)
      /\ Cleared(t) <=> i[t] > Half
  BY <1>2, <1>3, <1>4, MapConstants DEF Counted, Inserted, Cleared, Added, Counting
<1>8. CounterExact'
  <2>1. Additions' = Additions
    BY <1>4, <1>7 DEF Additions, Rounds
  <2> QED
    BY <1>1, <2>1 DEF MapInv, CounterExact
<1>9. MapExact'
  <2> SUFFICES ASSUME \A u \in Threads : Cleared(u)'
               PROVE  /\ map_' \subseteq Half + 1 .. Keys - 1
                      /\ \E u \in Threads : Half + 1 .. Inserted(u)' - 1 \subseteq map_'
    BY DEF MapExact
  <2>1. \A u \in Threads : Cleared(u)
    BY <1>4, <1>7
  <2>2. i[t] \in Half + 1 .. Keys - 1
    BY <1>2, <1>7, <2>1, MapConstants
  <2>3. map_ \subseteq Half + 1 .. Keys - 1
    BY <2>1 DEF MapInv, MapExact
  <2>4. PICK u \in Threads : Half + 1 .. Inserted(u) - 1 \subseteq map_
    BY <2>1 DEF MapInv, MapExact
  <2>5. map_' = map_ \cup {i[t]}
    BY <1>1, <1>2
  <2>6. CASE u = t
    <3>1. Half + 1 .. i[t] - 1 \subseteq map_ /\ Inserted(t)' - 1 = i[t]
      BY <1>2, <1>7, <2>4, <2>6
    <3>2. Half + 1 .. i[t] \subseteq map_ \cup {i[t]}
      BY <1>2, <3>1, MapConstants
    <3> QED
      BY <2>2, <2>3, <2>5, <3>1, <3>2
  <2>7. CASE u # t
    BY <1>4, <2>2, <2>3, <2>4, <2>5, <2>7
  <2> QED
    BY <2>6, <2>7
<1>10. CountBounds'
  <2>1. Counts' = Counts
    BY <1>4, <1>7 DEF Counts, Rounds
  <2>2. Cardinality(Counts)' = Cardinality(Counts)
    BY <2>1
  <2>3. map_pc'[t] # "store"
    BY <1>3, <1>4
  <2> QED
    BY <1>1, <1>4, <1>7, <2>2, <2>3 DEF MapInv, CountBounds
<1> QED
  BY <1>5, <1>6, <1>8, <1>9, <1>10 DEF MapInv

\* When the last thread clears the map, none has keys of the others to lose.
LEMMA ClearStep ==
  ASSUME MapInv, NEW t \in Threads, Map!Clear(t)
  PROVE  MapInv'
<1>1. /\ map_pc[t] = "clear" /\ ~map_locked /\ map_' = {}
      /\ Map!Again(t, "count", "add")
      /\ UNCHANGED <<a, counter_, map_locked, loaded>>
  BY DEF Map!Clear
<1>2. /\ MapTypeOK /\ i[t] = Half /\ i[t] \in 0 .. Keys - 1
      /\ \A u \in Threads : map_pc[u] \notin {"inserting", "adding"}
  BY <1>1 DEF MapInv, Held, MapTypeOK
<1>3. PICK n \in 0 .. Keys - 1, l \in MapLocations :
        /\ map_pc' = [map_pc EXCEPT ![t] = l] /\ i' = [i EXCEPT ![t] = n]
        /\ \/ i[t] + 1 < Keys /\ n = i[t] + 1 /\ l = "count"
           \/ i[t] = Keys - 1 /\ n = 0 /\ l = "add"
  BY <1>1, <1>2, AgainStep DEF MapLocations
<1>4. /\ map_pc' \in [Threads -> MapLocations] /\ i' \in [Threads -> 0 .. Keys - 1]
      /\ map_pc'[t] = l /\ i'[t] = n
      /\ \A u \in Threads \ {t} :
           /\ map_pc'[u] = map_pc[u] /\ i'[u] = i[u]
           /\ Counted(u)' = Counted(u) /\ Inserted(u)' = Inserted(u)
           /\ Cleared(u)' = Cleared(u) /\ Added(u)' = Added(u)
  BY <1>2, <1>3, Elsewhere
<1>5. MapTypeOK'
  BY <1>1, <1>2, <1>3, <1>4 DEF MapTypeOK
<1>6. Held'
  BY <1>1, <1>2, <1>3, <1>4 DEF Held
<1>7. /\ Counted(t)' = Counted(t) /\ Inserted(t)' = Half + 1 /\ Added(t)' = Added(t)
  BY <1>1, <1>2, <1>3, <1>4, MapConstants DEF Counted, Inserted, Added, Counting
<1>8. CounterExact'
  <2>1. Additions' = Additions
    BY <1>4, <1>7 DEF Additions, Rounds
  <2> QED
    BY <1>1, <2>1 DEF MapInv, CounterExact
<1>9. MapExact'
  <2>1. Half + 1 .. Inserted(t)' - 1 = {}
    BY <1>7, MapConstants
  <2> QED
    BY <1>1, <2>1 DEF MapExact
<1>10. CountBounds'
  <2>1. Counts' = Counts
    BY <1>4, <1>7 DEF Counts, Rounds
  <2>2. Cardinality(Counts)' = Cardinality(Counts)
    BY <2>1
  <2>3. map_pc'[t] # "store"
    BY <1>3, <1>4
  <2> QED
    BY <1>1, <1>4, <1>7, <2>2, <2>3 DEF MapInv, CountBounds
<1> QED
  BY <1>5, <1>6, <1>8, <1>9, <1>10 DEF MapInv

\* One is added to the counter read, which is the counter still.
LEMMA AddingStep ==
  ASSUME MapInv, NEW t \in Threads, map_pc[t] = "adding", Map!Add(t)
  PROVE  MapInv'
<1>1. /\ counter_' = loaded[t] + 1 /\ map_locked' = FALSE
      /\ Map!Again(t, "add", "done")
      /\ UNCHANGED <<a, map_, loaded>>
  BY DEF Map!Add
<1>2. /\ MapTypeOK /\ loaded[t] = counter_ /\ i[t] \in 0 .. Keys - 1 /\ counter_ \in Nat
      /\ \A u \in Threads \ {t} : map_pc[u] \notin {"inserting", "adding"}
  BY DEF MapInv, Held, MapTypeOK
<1>3. PICK n \in 0 .. Keys - 1, l \in MapLocations :
        /\ map_pc' = [map_pc EXCEPT ![t] = l] /\ i' = [i EXCEPT ![t] = n]
        /\ \/ i[t] + 1 < Keys /\ n = i[t] + 1 /\ l = "add"
           \/ i[t] = Keys - 1 /\ n = 0 /\ l = "done"
  BY <1>1, <1>2, AgainStep DEF MapLocations
<1>4. /\ map_pc' \in [Threads -> MapLocations] /\ i' \in [Threads -> 0 .. Keys - 1]
      /\ map_pc'[t] = l /\ i'[t] = n
      /\ \A u \in Threads \ {t} :
           /\ map_pc'[u] = map_pc[u] /\ i'[u] = i[u]
           /\ Counted(u)' = Counted(u) /\ Inserted(u)' = Inserted(u)
           /\ Cleared(u)' = Cleared(u) /\ Added(u)' = Added(u)
  BY <1>2, <1>3, Elsewhere
<1>5. MapTypeOK'
  BY <1>1, <1>2, <1>3, <1>4 DEF MapTypeOK
<1>6. Held'
  BY <1>1, <1>2, <1>3, <1>4 DEF MapInv, Held
<1>7. /\ Counted(t)' = Counted(t) /\ Inserted(t)' = Inserted(t)
      /\ Cleared(t)' = Cleared(t) /\ Added(t)' = Added(t) + 1
  BY <1>2, <1>3, <1>4, MapConstants DEF Counted, Inserted, Cleared, Added, Counting
<1>8. CounterExact'
  <2>1. Cardinality(Additions)' = Cardinality(Additions) + 1
    BY <1>2, <1>4, <1>5, <1>7, AddedOnceMore
  <2> QED
    BY <1>1, <1>2, <2>1 DEF MapInv, CounterExact
<1>9. MapExact'
  BY <1>1, <1>4, <1>7 DEF MapInv, MapExact
<1>10. CountBounds'
  <2>1. Counts' = Counts
    BY <1>4, <1>7 DEF Counts, Rounds
  <2>2. Cardinality(Counts)' = Cardinality(Counts)
    BY <2>1
  <2>3. map_pc'[t] # "store"
    BY <1>3, <1>4
  <2> QED
    BY <1>1, <1>4, <1>7, <2>2, <2>3 DEF MapInv, CountBounds
<1> QED
  BY <1>5, <1>6, <1>8, <1>9, <1>10 DEF MapInv

LEMMA InitMap == Map!Init => MapInv
<1> SUFFICES ASSUME Map!Init PROVE MapInv
  OBVIOUS
<1>1. /\ map_pc = [t \in Threads |-> "count"] /\ i = [t \in Threads |-> 0]
      /\ loaded = [t \in Threads |-> 0]
      /\ a = 0 /\ map_ = {} /\ counter_ = 0
  BY DEF Map!Init
<1>2. MapTypeOK
  BY <1>1, MapConstants DEF MapTypeOK, MapLocations
<1>3. Held
  BY <1>1 DEF Held
<1>4. \A t \in Threads : /\ Counted(t) = 0 /\ Added(t) = 0 /\ ~Cleared(t)
  BY <1>1, MapConstants DEF Counted, Added, Cleared, Counting
<1>5. Counts = {} /\ Additions = {}
  BY <1>4 DEF Counts, Additions, Rounds
<1>6. CounterExact /\ MapExact /\ CountBounds
  BY <1>1, <1>4, <1>5, MapConstants, FS_EmptySet DEF CounterExact, MapExact, CountBounds
<1> QED
  BY <1>2, <1>3, <1>6 DEF MapInv

LEMMA NextMap == MapInv /\ [Map!Next]_(Map!vars) => MapInv'
<1> SUFFICES ASSUME MapInv, [Map!Next]_(Map!vars) PROVE MapInv'
  OBVIOUS
<1>1. CASE Map!Next
  <2>1. PICK t \in Threads :
          \/ Map!CountLoad(t) \/ Map!CountStore(t) \/ Map!Insert(t)
          \/ Map!Clear(t) \/ Map!Add(t)
    BY <1>1 DEF Map!Next
  <2>2. ASSUME Map!Insert(t) PROVE MapInv'
    <3>1. CASE map_pc[t] = "inserting"
      BY <2>2, <3>1, InsertingStep
    <3>2. CASE map_pc[t] # "inserting"
      <4>1. map_pc[t] = "insert" /\ Map!Lock(t, map_, "inserting")
        BY <2>2, <3>2 DEF Map!Insert
      <4> QED
        BY <4>1, LockMapStep
    <3> QED
      BY <3>1, <3>2
  <2>3. ASSUME Map!Add(t) PROVE MapInv'
    <3>1. CASE map_pc[t] = "adding"
      BY <2>3, <3>1, AddingStep
    <3>2. CASE map_pc[t] # "adding"
      <4>1. map_pc[t] = "add" /\ Map!Lock(t, counter_, "adding")
        BY <2>3, <3>2 DEF Map!Add
      <4> QED
        BY <4>1, LockMapStep
    <3> QED
      BY <3>1, <3>2
  <2> QED
    BY <2>1, <2>2, <2>3, CountLoadStep, CountStoreStep, ClearStep
<1>2. CASE UNCHANGED Map!vars
  <2>1. UNCHANGED <<a, map_, counter_, map_locked, map_pc, i, loaded>>
    BY <1>2 DEF Map!vars
  <2>2. MapTypeOK' /\ Held'
    BY <2>1 DEF MapInv, MapTypeOK, Held
  <2>3. \A u \in Threads : /\ Counted(u)' = Counted(u) /\ Inserted(u)' = Inserted(u)
                           /\ Cleared(u)' = Cleared(u) /\ Added(u)' = Added(u)
    BY <2>1 DEF Counted, Inserted, Cleared, Added
  <2> QED
    BY <2>1, <2>2, <2>3, SameMeasures DEF MapInv
<1> QED
  BY <1>1, <1>2

\* The threads keep to MapInv.
THEOREM MapCorrect == Map!Spec => []MapInv
<1> QED
  BY InitMap, NextMap, PTL DEF Map!Spec

\* When all threads are done, the counter behind the lock has every addition
\* and the map every key above Half and no other; the counter without the
\* lock has at least two, unless there is one key only, and none too many.
THEOREM Joined == Map!Spec => []JoinedExact
<1>1. MapInv => JoinedExact
  <2> SUFFICES ASSUME MapInv, \A t \in Threads : map_pc[t] = "done"
               PROVE  /\ counter_ = Keys * Cardinality(Threads)
                      /\ map_ = Half + 1 .. Keys - 1
                      /\ a \in (IF Keys > 1 THEN 2 ELSE 1) .. Keys * Cardinality(Threads)
    BY CardinalityIs DEF JoinedExact, Map!JoinedExact
  <2>1. \A t \in Threads : /\ Counted(t) = Keys /\ Added(t) = Keys
                           /\ Inserted(t) = Keys /\ Cleared(t)
    BY DEF Counted, Added, Inserted, Cleared, Counting
  <2>2. Counts = Rounds /\ Additions = Rounds
    BY <2>1, MapConstants DEF Counts, Additions, Rounds
  <2>3. Cardinality(Rounds) = Keys * Cardinality(Threads) /\ Cardinality(Rounds) \in Nat
    BY RoundsFinite, FS_CardinalityType
  <2>4. counter_ = Cardinality(Rounds)
    BY <2>2 DEF MapInv, CounterExact
  <2>5. map_ = Half + 1 .. Keys - 1
    BY <2>1 DEF MapInv, MapExact
  <2>6. a \in Nat /\ a <= Cardinality(Rounds) /\ a > 0 /\ (Keys > 1 => a > 1)
    BY <2>1, <2>2, MapConstants DEF MapInv, MapTypeOK, CountBounds
  <2>7. a \in (IF Keys > 1 THEN 2 ELSE 1) .. Cardinality(Rounds)
    BY <2>3, <2>6
  <2> QED
    BY <2>3, <2>4, <2>5, <2>7
<1> QED
  BY <1>1, MapCorrect, PTL
=============================================================================
