CONSTANTS
  Code <- MCCode
  Starts <- MCStarts
  Cells <- MCCells
  Top = 16
  Handler <- MCHandler
  MaxIrqs = 1
SPECIFICATION ProgramSpec
INVARIANT RoutinesCompute
PROPERTY RoutinesReturn
CHECK_DEADLOCK FALSE
