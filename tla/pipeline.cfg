CONSTANTS
  Width = 24
  FifoSize = 48
  ScxValues = {0, 3}
  WindowStarts <- SomeStarts
  Entries = 4
  MaxObjects = 3
  Tables <- SomeTables
  MaxWrites = 2
SPECIFICATION PipelineSpec
INVARIANT FifosInStep
INVARIANT SpritesNearColumn
INVARIANT FirstSpriteShown
INVARIANT ColumnsFollowRegisters
PROPERTY KeepsPromise
