SPECIFICATION Spec
CONSTANTS
  N = 2
  Byte <- TwoBytes
  Stray <- BothStray
  Chunks <- SomeChunks
  Lengths <- SomeLengths
  MaxFd = 103
  ClosePipes = FALSE
  MaxModules = 3
  MaxSent = 4
INVARIANT EofMeansDrained
CHECK_DEADLOCK FALSE
