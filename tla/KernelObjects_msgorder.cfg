SPECIFICATION MCSpec
CONSTANTS
  SEM_MAX = 2
  Word = 3
  InitialValues <- ZeroOrOne
  MaxSemId = 4
  SHMEM_MAX_REGIONS = 2
  FlagWords <- EachFlag
  Data <- TwoData
  Zero = "zero"
  RefWord = 4
  MSGQ_CAPACITY = 3
  MSG_SIZE = 3
  Msgs <- TwoMsgs
  Garbage = "garbage"
  Stray <- BothStray
  MaxQid = 2
  p1 = p1
  p2 = p2
  Pids <- TwoPids
  VFS_MAX_FD = 2
  MAX_OPEN_FILES = 4
  Files <- Ramdisk
  Size <- Sizes
  Lengths <- Lens
  PipeFd = 100
  NoFile = "none"
  PipeEnd = "pipe"
  MAX_ENV_VARS = 3
  a = a
  b = b
  c = c
  long = long
  longer = longer
  x = x
  y = y
  yy = yy
  Names <- SomeNames
  Values <- SomeValues
  NameCut <- Cut63
  ValueCut <- Cut255
  Preset <- OnePreset
  Given <- ItsValue
  Done = Done
  Refused = Refused
  EVT_MAX_SUBSCRIBERS = 2
  EVT_QUEUE_SIZE = 3
  EvtPids <- Subscribed
  Masks <- TwoMasks
  EvtTypes <- TwoTypes
INVARIANT MessagesInOrder
SYMMETRY Processes
CONSTRAINT OneTable
CHECK_DEADLOCK FALSE
