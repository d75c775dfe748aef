\* Every machine of up to five lcores, two sockets and three ports with three
\* files; every file with one machine; every command line.
SPECIFICATION MCSpec
CONSTANTS
  MaxLcore = 5
  Sockets = {0, 1}
  MaxPorts = 3
  MAX_CHECK_TIME = 3
  kMAX_LCORES = 3
  Tags <- MCTags
  Headroom = 1
  Disks <- MCDisks
  Argvs <- MCArgvs
CHECK_DEADLOCK FALSE
INVARIANTS OwnLcore LinksShown TableWellFormed WordsExact TableIsFile ServiceReady StatisticsReady
