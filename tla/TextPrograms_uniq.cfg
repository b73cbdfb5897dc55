SPECIFICATION ProgramsSpec
CONSTANTS
  Bytes <- MCBytes
  Counts <- MCCounts
  Widths <- MCWidths
  MemSize <- MCBuildMemSize
  MaxInput = 8
  ALIGN = 2
  MAX_ARGV = 2
  HEAD_BUF = 4
  REV_LINE = 4
  TAC_LINES = 2
  TAC_LEN = 3
  UNIQ_LINE = 6
  Whole <- MCWhole
  Unended <- MCUnended
  Texts <- MCTexts
  Ranks <- MCRanks
  BUF_SIZE = 9
  MAX_LINES = 3
  MaxLines = 4
INVARIANT UniqRemovesRepeats
CHECK_DEADLOCK FALSE
