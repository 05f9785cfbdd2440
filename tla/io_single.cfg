SPECIFICATION Spec
CONSTANTS
  None = None
  Threads = {t}
  Owners = {t}
  Printers = {t}
  Loggers = {t}
  Bypassers = {t}
  CaptureStreams = {1}
  OneAtATime = TRUE
  OutMsgs = {m1, m2, m3}
  ErrMsgs = {e1}
  MaxFd = 5
  MaxPipes = 2
  PipeCap = 3
  MaxOther = 0
INVARIANTS InPrintOrder
PROPERTIES BypassShown
