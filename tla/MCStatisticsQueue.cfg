\* Two writers and a reader, a ring of three that wraps around twice; or two
\* threads with three keys.
SPECIFICATION ContainersSpec
CONSTANTS
  max = 3
  Threads = {t1, t2}
  Offsets = {0, 1, 2, 3}
  MaxInserts = 6
  Keys = 3
  Half = 1
SYMMETRY ThreadSymmetry
CHECK_DEADLOCK FALSE
INVARIANTS RingExact GatherExact JoinedExact
