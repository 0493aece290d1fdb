--------------------------------- MODULE Cards ---------------------------------
(***************************************************************************)
(* The cartridge the emulator was started with: what CreateCartridge makes  *)
(* of the type byte.  MBC1 keeps its own variables; MBC3 and ROM only       *)
(* share a second set.                                                      *)
(***************************************************************************)
EXTENDS Mbc1

CONSTANTS Mbc3Sizes, OtherCheats

ASSUME CardsAssumption ==
  /\ Mbc3Sizes \subseteq Nat \ {0, 1}
  /\ OtherCheats \subseteq [area : {"low", "high"}, offset : Offsets, replace : Values,
                            compare : Values \cup {NoCompare}]

VARIABLES chip,                     \* the class of the cartridge
          total, bank, file,        \* m_total_banks, m_bank_number, m_rom
          inserted, kept,           \* m_genies: its keys, the bytes they replaced
          mixed, spoilt             \* disorder and spoilt of Mbc3 and RomOnly

Mbc3Card == INSTANCE Mbc3 WITH Sizes <- Mbc3Sizes, Cheats <- OtherCheats, rom <- file,
                               genies <- inserted, replaced <- kept, disorder <- mixed
RomCard == INSTANCE RomOnly WITH Cheats <- OtherCheats, rom <- file,
                                 genies <- inserted, replaced <- kept, disorder <- mixed

otherVars == <<total, bank, file, inserted, kept, mixed, spoilt>>

NoCard == total = 2 /\ bank = 1 /\ spoilt = {}

CreateCartridge ==
  /\ Init
  /\ \/ chip = "MBC1" /\ RomCard!Init /\ NoCard
     \/ chip = "ROM" /\ RomCard!Init /\ NoCard /\ numBanks = 2 /\ numRamBanks = 0
     \/ chip = "MBC3" /\ Mbc3Card!Init /\ numBanks = 2 /\ numRamBanks = 0

CardNext ==
  /\ UNCHANGED chip
  /\ \/ chip = "MBC1" /\ UNCHANGED otherVars /\ Next
     \/ chip = "MBC3" /\ UNCHANGED vars /\ Mbc3Card!Next
     \/ chip = "ROM" /\ UNCHANGED <<vars, total, bank, spoilt>> /\ RomCard!Next

CardSpec == CreateCartridge /\ [][CardNext]_<<chip, vars, otherVars>>

-----------------------------------------------------------------------------
(* On MBC3 and ROM only cartridges the banks hold the file and the cheats,  *)
(* but for the banks behind the first two of an MBC3 once a cheat that wrote *)
(* to them was removed (BanksKeepFile of Mbc3).                             *)
OthersKeepFile == chip # "MBC1" => Mbc3Card!BanksKeepFile
=============================================================================
