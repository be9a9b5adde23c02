SPECIFICATION Spec
CONSTANTS
  Second = 2
  Timeout = 4
  Interval = 3
  WriteMax = 1
  ScanMax = 1
  NoticeMax = 4
  Ports = 2
  QueueMax = 1
  LeftMax = 1
  RunMax = 2
  MaxNow = 22
CHECK_DEADLOCK FALSE
INVARIANTS
  
  NoFalseTimeout
  SshdIsWatched
