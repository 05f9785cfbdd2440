SPECIFICATION FairSpec
CONSTANTS
  Threads = {t1, t2}
  MaxCalls = 2
INVARIANTS TypeOK OneVerdict UsedWhenMade
PROPERTIES CallsEnd
CHECK_DEADLOCK FALSE
