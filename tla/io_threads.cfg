SPECIFICATION FairSpec
CONSTANTS
  None = None
  Threads = {o1, o2, p1}
  Owners = {o1, o2}
  Printers = {p1}
  Loggers = {}
  Bypassers = {}
  CaptureStreams = {1, 2}
  OneAtATime = TRUE
  OutMsgs = {m1, m2}
  ErrMsgs = {e1}
  MaxFd = 5
  MaxPipes = 2
  PipeCap = 1
  MaxOther = 1
INVARIANTS TypeOK Wired NothingLeaked NothingLost CaptureComplete
PROPERTIES OthersFilesKept Teed CallsReturn
CHECK_DEADLOCK FALSE
