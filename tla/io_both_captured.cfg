SPECIFICATION Spec
CONSTANTS
  None = None
  Threads = {t}
  Owners = {t}
  Printers = {t}
  Loggers = {}
  Bypassers = {}
  CaptureStreams = {1, 2}
  OneAtATime = FALSE
  OutMsgs = {m1}
  ErrMsgs = {e1}
  MaxFd = 7
  MaxPipes = 2
  PipeCap = 2
  MaxOther = 0
INVARIANTS OutputNotLost
