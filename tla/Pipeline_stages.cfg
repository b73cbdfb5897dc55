SPECIFICATION StagesSpec
CONSTANTS
  N = 3
  Byte <- TwoBytes
  Stray <- BothStray
  Chunks <- SomeChunks
  Lengths <- SomeLengths
  MaxFd = 103
  ClosePipes = TRUE
  MaxModules = 3
  MaxSent = 4
  Bytes <- MCBytes
  Counts <- MCCounts
  Widths <- MCWidths
  MemSize <- MCMemSize
  MaxInput = 8
  ALIGN = 2
  MAX_ARGV = 2
  HEAD_BUF = 4
  REV_LINE = 4
  TAC_LINES = 2
  TAC_LEN = 3
  UNIQ_LINE = 6
  Whole <- MCWhole
  Unended <- MCUnended
  Texts <- MCTexts
  Ranks <- MCRanks
  BUF_SIZE = 9
  MAX_LINES = 3
  MaxLines = 4
INVARIANTS
  TypeOK RingConsistent FdsFresh NothingLostUnlessFull GotInOrder
  HeadPromise WcPromise FoldPromise RevPromise TacPromise UniqPromise
  SortedStable SortKeepsLines
PROPERTY ImplementsFifo
CHECK_DEADLOCK FALSE
