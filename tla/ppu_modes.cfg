CONSTANTS
  Width = 3
  Height = 3
  Lines = 5
  LineDots = 8
  OamDots = 2
  MaxTransfer = 5
  Burst = 2
  LycValues <- SmallLycValues
  WyValues <- SmallWyValues
SPECIFICATION Spec
INVARIANT LineInv
INVARIANT LycFlagCurrent
INVARIANT WindowRowFollowsLines
PROPERTY FramesKeepComing
