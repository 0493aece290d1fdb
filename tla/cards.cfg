CONSTANTS
  Step = 4
  RomSizes = {2, 4, 8, 16}
  RamSizes = {0, 4}
  Mbc3Sizes = {2, 4, 8}
  Offsets = {0}
  Values = {0, 1}
  NoCompare = none
  Rom0 <- Rom
  Cheats <- SomeCheats
  OtherCheats <- FourCheats
SPECIFICATION CardSpec
INVARIANT HighBankNotX0
INVARIANT CheatsAreSeen
INVARIANT RomIsFileAndCheats
INVARIANT OthersKeepFile
