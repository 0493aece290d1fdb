CONSTANTS
  Step = 4
  RomSizes = {16}
  RamSizes = {4}
  Offsets = {0}
  Values = {0, 1}
  NoCompare = none
  Rom0 <- Rom
  Cheats = {}
SPECIFICATION Spec
INVARIANT RamBankIsHi
