-------------------------- MODULE MCStatisticsQueue --------------------------
(***************************************************************************)
(* One of the two programs of common/ whose threads share a container: the *)
(* ring of ss.h, of which readers take no lock, or the map of safe_map.cc, *)
(* beside which a variable is counted without the lock.                    *)
(***************************************************************************)
EXTENDS StatisticsQueue, TLC

CONSTANTS Keys, Half    \* as in SafeMap

VARIABLES
  program,              \* the program that runs, "ring" or "map"
  a, map_, counter_, map_locked, map_pc, i, loaded

Map == INSTANCE SafeMap WITH locked <- map_locked, pc <- map_pc

ASSUME MapAssumption == Map!SafeMapAssumption

map_vars == <<a, map_, counter_, map_locked, map_pc, i, loaded>>

ContainersInit ==
  /\ program \in {"ring", "map"}
  /\ Init
  /\ Map!Init

ContainersNext ==
  \/ program = "ring" /\ Next /\ UNCHANGED <<program, map_vars>>
  \/ program = "map" /\ Map!Next /\ UNCHANGED <<program, vars>>

ContainersSpec ==
  ContainersInit /\ [][ContainersNext]_<<program, vars, map_vars>>

\* SafeMap!JoinedExact.
JoinedExact == Map!JoinedExact

ThreadSymmetry == Permutations(Threads)
=============================================================================
