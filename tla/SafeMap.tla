------------------------------ MODULE SafeMap ------------------------------
(***************************************************************************)
(* common/safe_map.cc: threads that insert into a map behind a reader-     *)
(* writer lock, clear it once each, and then count behind the same lock.   *)
(* Beside them a variable is counted without it; its data race is that a   *)
(* thread loads, and later stores.  What is done behind the lock takes two *)
(* steps as well, so that it is the lock that makes it one.                *)
(*                                                                         *)
(* The value inserted is the key.  Nobody takes the lock for reading.      *)
(***************************************************************************)
EXTENDS Integers, FiniteSets

CONSTANTS
  Threads,   \* the threads main creates
  Keys,      \* the number of keys inserted and of additions: 10000
  Half       \* the key after which the map is cleared: 5000

\* What the constants satisfy.
SafeMapAssumption ==
  /\ IsFiniteSet(Threads) /\ Threads # {}
  /\ Keys \in Nat /\ Half \in 0 .. Keys - 1

VARIABLES
  a,          \* counted without the lock
  map_,       \* the keys in the map
  counter_,   \* counted behind the lock
  locked,     \* lock_ is held for writing
  pc,         \* where each thread is
  i,          \* its loop variable
  loaded      \* what it has read of the variable it changes

vars == <<a, map_, counter_, locked, pc, i, loaded>>

Init ==
  /\ a = 0 /\ map_ = {} /\ counter_ = 0
  /\ locked = FALSE
  /\ pc = [t \in Threads |-> "count"]
  /\ i = [t \in Threads |-> 0]
  /\ loaded = [t \in Threads |-> 0]

-----------------------------------------------------------------------------

Goto(t, location) == pc' = [pc EXCEPT ![t] = location]
Read(t, value) == loaded' = [loaded EXCEPT ![t] = value]

CountLoad(t) ==
  /\ pc[t] = "count"
  /\ Read(t, a)
  /\ Goto(t, "store")
  /\ UNCHANGED <<a, map_, counter_, locked, i>>

CountStore(t) ==
  /\ pc[t] = "store"
  /\ a' = loaded[t] + 1
  /\ Goto(t, "insert")
  /\ UNCHANGED <<map_, counter_, locked, i, loaded>>

\* Mutant: the lock is taken for reading.
LockShared(t, value, location) ==
  /\ locked' = TRUE
  /\ Read(t, value)
  /\ Goto(t, location)
  /\ UNCHANGED <<a, map_, counter_, i>>

Lock(t, value, location) ==
  /\ ~locked
  /\ locked' = TRUE
  /\ Read(t, value)
  /\ Goto(t, location)
  /\ UNCHANGED <<a, map_, counter_, i>>

\* The loop goes on, or ends and is followed by what is at location.
Again(t, again, location) ==
  /\ i' = [i EXCEPT ![t] = (i[t] + 1) % Keys]
  /\ Goto(t, IF i[t] + 1 < Keys THEN again ELSE location)

Insert(t) ==
  \/ pc[t] = "insert" /\ Lock(t, map_, "inserting")
  \/ /\ pc[t] = "inserting"
     /\ map_' = loaded[t] \cup {i[t]}
     /\ locked' = FALSE
     /\ IF i[t] = Half THEN Goto(t, "clear") /\ UNCHANGED i
                       ELSE Again(t, "count", "add")
     /\ UNCHANGED <<a, counter_, loaded>>

Clear(t) ==
  /\ pc[t] = "clear"
  /\ ~locked
  /\ map_' = {}
  /\ Again(t, "count", "add")
  /\ UNCHANGED <<a, counter_, locked, loaded>>

Add(t) ==
  \/ pc[t] = "add" /\ Lock(t, counter_, "adding")
  \/ /\ pc[t] = "adding"
     /\ counter_' = loaded[t] + 1
     /\ locked' = FALSE
     /\ Again(t, "add", "done")
     /\ UNCHANGED <<a, map_, loaded>>

Next == \E t \in Threads :
          CountLoad(t) \/ CountStore(t) \/ Insert(t) \/ Clear(t) \/ Add(t)

Spec == Init /\ [][Next]_vars

-----------------------------------------------------------------------------
(* Correctness. *)

\* What main prints when the threads have been joined: the counter behind the
\* lock has every addition, and the map the keys above Half and no other,
\* although each thread has cleared what others were inserting; the counter
\* without the lock has lost any number but, with two keys or more, not all
\* but one, and has none too many.
JoinedExact ==
  (\A t \in Threads : pc[t] = "done") =>
    /\ counter_ = Keys * Cardinality(Threads)
    /\ map_ = Half + 1 .. Keys - 1
    /\ a \in (IF Keys > 1 THEN 2 ELSE 1) .. Keys * Cardinality(Threads)
=============================================================================
