SPECIFICATION FairSpec
CONSTANTS
  None = None
  Threads = {o, p}
  Owners = {o}
  Printers = {p}
  Loggers = {}
  Bypassers = {}
  CaptureStreams = {2}
  OneAtATime = TRUE
  OutMsgs = {}
  ErrMsgs = {e1, e2}
  MaxFd = 5
  MaxPipes = 1
  PipeCap = 1
  MaxOther = 0
PROPERTY EndReturns
CHECK_DEADLOCK FALSE
