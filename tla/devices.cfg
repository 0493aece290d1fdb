CONSTANTS
  Byte = 2
  DivPeriod = 3
  Periods = {3, 4}
  MCycles = {1, 2}
  Rate = 1
  DmaLength = 2
  SerialPeriod = 5
  Values = {0, 1}
  FF = 255
  Groups <- SomeGroups
SPECIFICATION SysSpec
INVARIANT DmaCopies
INVARIANT SentOnTime
INVARIANT OneClock
PROPERTY KeepsTime
