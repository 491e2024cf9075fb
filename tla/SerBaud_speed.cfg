SPECIFICATION Spec
CONSTANTS
  NumRates = 4
  StrUnit = 2
  BaudSet = 6
  Slop = 2
  TestSlop = 10
  TimeOut = 10
  HalfSec = 9
  ByteWait = 5
  LokWait = 36
INVARIANTS OnTime ServerKnows TakenByBoth 
