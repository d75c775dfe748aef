--------------------------- MODULE StatisticsQueue ---------------------------
(***************************************************************************)
(* StatisticsQueue of common/ss.h: a ring of the latest samples, with      *)
(* CSampleStatistics::gatherStatistics on top of it, which compares the    *)
(* newest sample with the one LL before it.  insert and clean hold the     *)
(* mutex; get, and so gatherStatistics, takes no lock.                     *)
(*                                                                         *)
(* A sample is its number, in the order of insertion; 0 is a sample of     *)
(* zeros.  The rate computed from two samples is left out.  A read outside *)
(* the array yields any sample.                                            *)
(***************************************************************************)
EXTENDS Integers

CONSTANTS
  max,          \* _max
  Threads,      \* the threads that insert and clean
  Offsets,      \* the arguments of gatherStatistics
  MaxInserts    \* bound of the model: insertions

ASSUME StatisticsQueueAssumption ==
  max \in Nat \ {0} /\ Offsets \subseteq Nat /\ MaxInserts \in Nat

Null == -1
Samples == 0 .. MaxInserts

VARIABLES
  v,            \* the array
  current,      \* _current
  size,         \* _size
  locked,       \* _mu is held
  pc,           \* where each thread is
  reader,       \* where the thread that calls gatherStatistics is
  LL,           \* its argument
  wraps,        \* the outcome of _current < offset
  scr, sof,     \* the samples it compares
  inserted,     \* history: the number of insertions
  cleaned,      \* history: the number there were at the last clean
  alone         \* history: nobody wrote since the reader began

ring == <<v, current, size, inserted, cleaned>>
reading == <<reader, LL, wraps, scr, sof>>
vars == <<ring, reading, locked, pc, alone>>

\* The array is not initialised.
Init ==
  /\ v \in [0 .. max - 1 -> {0, MaxInserts}]
  /\ current = 0 /\ size = 0 /\ inserted = 0 /\ cleaned = 0
  /\ locked = FALSE
  /\ pc = [t \in Threads |-> "idle"]
  /\ reader = "idle" /\ LL = 0 /\ wraps = FALSE /\ scr = Null /\ sof = Null
  /\ alone = FALSE

-----------------------------------------------------------------------------
(* insert and clean. *)

Goto(t, location) == pc' = [pc EXCEPT ![t] = location]

\* Mutant: the mutex is not taken.
DoNotLock(t, location) ==
  /\ pc[t] = "idle"
  /\ Goto(t, location)
  /\ locked' = TRUE
  /\ alone' = FALSE
  /\ UNCHANGED <<ring, reading>>

Lock(t, location) ==
  /\ pc[t] = "idle"
  /\ ~locked
  /\ Goto(t, location)
  /\ locked' = TRUE
  /\ alone' = FALSE
  /\ UNCHANGED <<ring, reading>>

Grow(t) ==
  /\ pc[t] = "grow"
  /\ size' = IF size = max THEN size ELSE size + 1
  /\ Goto(t, "advance")
  /\ UNCHANGED <<v, current, inserted, cleaned, reading, locked, alone>>

Advance(t) ==
  /\ pc[t] = "advance"
  /\ current' = IF current + 1 = max THEN 0 ELSE current + 1
  /\ Goto(t, "store")
  /\ UNCHANGED <<v, size, inserted, cleaned, reading, locked, alone>>

Store(t) ==
  /\ pc[t] = "store"
  /\ inserted' = inserted + 1
  /\ v' = [v EXCEPT ![current] = inserted']
  /\ locked' = FALSE
  /\ Goto(t, "idle")
  /\ UNCHANGED <<current, size, cleaned, reading, alone>>

\* memset of the first _size elements; _size and _current stay.
Clean(t) ==
  /\ pc[t] = "clean"
  /\ v' = [k \in DOMAIN v |-> IF k < size THEN 0 ELSE v[k]]
  /\ cleaned' = inserted
  /\ locked' = FALSE
  /\ Goto(t, "idle")
  /\ UNCHANGED <<current, size, inserted, reading, alone>>

Insert(t) == \/ inserted < MaxInserts /\ Lock(t, "grow")
             \/ Grow(t) \/ Advance(t) \/ Store(t)

-----------------------------------------------------------------------------
(* gatherStatistics.  What get finds of _size is as good as read together  *)
(* with _current, for _size never becomes smaller; _current is read twice  *)
(* by get(offset).                                                         *)

At(k) == IF k \in DOMAIN v THEN {v[k]} ELSE Samples

\* The null pointer ends the call.
Get ==
  /\ reader = "idle"
  /\ alone' = ~locked
  /\ LL' \in Offsets
  /\ IF size = 0
     THEN scr' = Null /\ sof' = Null /\ reader' = "done"
     ELSE scr' = current /\ sof' = Null /\ reader' = "compare"
  /\ UNCHANGED <<ring, locked, pc, wraps>>

Compare ==
  /\ reader = "compare"
  /\ wraps' = (current < LL)
  /\ IF LL < size THEN reader' = "place" /\ UNCHANGED scr
                  ELSE reader' = "done" /\ scr' = Null
  /\ UNCHANGED <<ring, locked, pc, alone, LL, sof>>

\* Mutant: behind the first element comes the last, wherever _current is.
PlaceAtEnd ==
  /\ reader = "place"
  /\ sof' = IF wraps THEN max - LL ELSE current - LL
  /\ reader' = "load"
  /\ UNCHANGED <<ring, locked, pc, alone, LL, wraps, scr>>

Place ==
  /\ reader = "place"
  /\ sof' = IF wraps THEN max + current - LL ELSE current - LL
  /\ reader' = "load"
  /\ UNCHANGED <<ring, locked, pc, alone, LL, wraps, scr>>

\* The pointers are followed.
Load ==
  /\ reader = "load"
  /\ scr' \in At(scr)
  /\ sof' \in At(sof)
  /\ reader' = "done"
  /\ UNCHANGED <<ring, locked, pc, alone, LL, wraps>>

Return ==
  /\ reader = "done"
  /\ reader' = "idle"
  /\ UNCHANGED <<ring, locked, pc, alone, LL, wraps, scr, sof>>

Gather == Get \/ Compare \/ Place \/ Load \/ Return

Next == \/ \E t \in Threads : Insert(t) \/ Lock(t, "clean") \/ Clean(t)
        \/ Gather

Spec == Init /\ [][Next]_vars

-----------------------------------------------------------------------------
(* Correctness. *)

Newest(k) == inserted - k

\* The sample the ring keeps for offset k: the one that many insertions
\* ago, unless it was there at the last clean, when it may be zeros.
Keeps(k, sample) ==
  \/ sample = Newest(k)
  \/ sample = 0 /\ Newest(k) <= cleaned

\* Whichever threads insert and clean, and wherever the ring has wrapped
\* around, when none of them is at it the ring holds the latest samples, in
\* the order of their insertion, and as many as it can.
RingExact ==
  ~locked =>
    /\ size = IF inserted < max THEN inserted ELSE max
    /\ \A k \in 0 .. size - 1 : Keeps(k, v[(current - k) % max])

\* A call of gatherStatistics that no insert or clean disturbs compares the
\* newest sample with the one LL before it, or answers -1 when the ring does
\* not go back so far.
GatherExact ==
  reader = "done" /\ alone =>
    IF LL < size THEN Keeps(0, scr) /\ Keeps(LL, sof) ELSE scr = Null
=============================================================================
