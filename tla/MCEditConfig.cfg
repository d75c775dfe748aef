\* Files of up to three lines, two runs, each of which may be killed or find the
\* disk full for a while.
SPECIFICATION MCSpec
CONSTANTS
  Keys = {"k1", "k2"}
  Values = {"x", "y"}
  NoKey = "none"
  Files <- MCFiles
  MaxRuns = 2
CHECK_DEADLOCK FALSE
INVARIANTS OthersKept KeyIsSet
