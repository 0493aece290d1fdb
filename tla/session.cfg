CONSTANTS
  Roms <- SomeRoms
  Dumped <- SaveOrder
  Advanced <- StepOrder
  MaxInstants = 3
  MaxCommands = 3
  MaxFrames = 2
SPECIFICATION SessionSpec
INVARIANT LastFrameShown
INVARIANT WholeMachine
INVARIANT OwnSavesLoad
CHECK_DEADLOCK FALSE
