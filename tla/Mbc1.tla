---------------------------------- MODULE Mbc1 ----------------------------------
(***************************************************************************)
(* The MBC1 cartridge: the four bank registers behind writes to the ROM     *)
(* area, the three areas they map, and the Game Genie patches that          *)
(* EmulatorState::AddGenie and RemoveGenie make in the ROM.                 *)
(*                                                                          *)
(* Sizes are powers of two (the code masks with size - 1), so masking is %  *)
(* here.  An address is an area (low 0000-3FFF, high 4000-7FFF) and one of a *)
(* few offsets in the bank it reaches.  Step is 32 in the code: the low     *)
(* register has five bits and the high register counts in units of 32.      *)
(***************************************************************************)
EXTENDS Integers, SequencesExt

CONSTANTS Step,        \* banks reached by the low register alone
          RomSizes,    \* sizes of the cartridges, in banks
          RamSizes,    \* sizes of their RAM, in banks
          Offsets, Values,
          Rom0,        \* contents of the ROM file, <<bank, offset>> to value
          Cheats,      \* cheats the user may insert
          NoCompare          \* compare value of a cheat that has none

MaxBanks == 4 * Step

ASSUME Mbc1Assumption ==
  /\ Step \in Nat /\ Step > 1
  /\ RomSizes \subseteq {n \in 2..MaxBanks : Step % n = 0 \/ n \in {2 * Step, MaxBanks}}
  /\ RamSizes \subseteq Nat
  /\ Rom0 \in [(0..MaxBanks) \X Offsets -> Values]
  /\ Cheats \subseteq [area : {"low", "high"}, offset : Offsets, replace : Values,
                       compare : Values \cup {NoCompare}]

VARIABLES
  numBanks, numRamBanks,       \* m_numbanks, m_numrambanks
  low, hi,                     \* m_second_bank_num, m_bank_num_hi
  enableRam, mode,             \* m_enableRam, m_bankingMode
  sram,                        \* m_sram, one value a bank
  rom,                         \* m_therom; row numBanks is the memory behind it
  genies,                      \* keys of m_genies, oldest first
  replaced,                    \* the replace_values kept with each of them
  disorder                     \* history: a cheat was removed before a later one
                               \* at the same address

vars == <<numBanks, numRamBanks, low, hi, enableRam, mode, sram, rom, genies,
          replaced, disorder>>
registers == <<low, hi, enableRam, mode>>
size == <<numBanks, numRamBanks>>
patches == <<rom, genies, replaced, disorder>>

Init ==
  /\ numBanks \in RomSizes /\ numRamBanks \in RamSizes
  /\ low = 1 /\ hi = 0 /\ enableRam = FALSE /\ mode = 0
  /\ sram \in [0..numRamBanks - 1 -> Values]
  /\ rom = [cell \in (0..numBanks) \X Offsets |-> Rom0[cell]]
  /\ genies = <<>> /\ replaced = [c \in Cheats |-> <<>>]
  /\ disorder = FALSE

-----------------------------------------------------------------------------
(* The banks mapped in 0000-3FFF, 4000-7FFF and A000-BFFF                   *)

LowBank == IF mode = 1 THEN (hi * Step) % numBanks ELSE 0
HighBank == (hi * Step + low) % numBanks
RamBank == IF mode = 1 THEN low % numRamBanks ELSE 0

MappedBank(area) == IF area = "low" THEN LowBank ELSE HighBank

ReadRom(area, o) == rom[<<MappedBank(area), o>>]

-----------------------------------------------------------------------------
(* Writes to the registers and the RAM                                      *)

WriteEnable(v) ==
  /\ numRamBanks # 0
  /\ enableRam' = v
  /\ UNCHANGED <<size, low, hi, mode, sram, patches>>

Mut_WriteBank(v) ==                 \* zero is not replaced by one
  /\ low' = v % numBanks
  /\ UNCHANGED <<size, hi, enableRam, mode, sram, patches>>

(* A zero is made one before the mask, so a small cartridge can get bank 0. *)
WriteBank(v) ==
  /\ low' = (IF v = 0 THEN 1 ELSE v) % numBanks
  /\ UNCHANGED <<size, hi, enableRam, mode, sram, patches>>

WriteHi(v) ==
  /\ hi' = v
  /\ UNCHANGED <<size, low, enableRam, mode, sram, patches>>

WriteMode(v) ==
  /\ numRamBanks >= 4
  /\ mode' = v
  /\ UNCHANGED <<size, low, hi, enableRam, sram, patches>>

WriteRam(v) ==
  /\ enableRam
  /\ sram' = [sram EXCEPT ![RamBank] = v]
  /\ UNCHANGED <<size, registers, patches>>

-----------------------------------------------------------------------------
(* Cheats                                                                   *)

Mut_PatchedBanks(area) ==           \* the banks mapped in 0000-3FFF: bank 0 only
  IF area = "low" THEN {0} ELSE (1..numBanks - 1) \ {Step, 2 * Step, 3 * Step}

(* Banks whose cells a patch replaces: the ones its area may show.  The test *)
(* of the low ones is `<=', so that a cartridge of Step or 2 * Step banks is *)
(* patched one bank behind its end.                                         *)
PatchedBanks(area) ==
  IF area = "low" THEN {b \in {0, Step, 2 * Step, 3 * Step} : b <= numBanks}
                  ELSE (1..numBanks - 1) \ {Step, 2 * Step, 3 * Step}

Matches(c) ==
  {b \in PatchedBanks(c.area) : c.compare = NoCompare \/ rom[<<b, c.offset>>] = c.compare}

SameAddress(c, d) == c.area = d.area /\ c.offset = d.offset

Active == {genies[i] : i \in DOMAIN genies}

Mut_AddGenie(c) ==                  \* remembers the cells after replacing them
  /\ c \notin Active
  /\ replaced' = [replaced EXCEPT ![c] = [b \in Matches(c) |-> c.replace]]
  /\ rom' = [cell \in DOMAIN rom |->
               IF cell[1] \in Matches(c) /\ cell[2] = c.offset THEN c.replace ELSE rom[cell]]
  /\ genies' = Append(genies, c)
  /\ UNCHANGED <<size, registers, sram, disorder>>

AddGenie(c) ==
  /\ c \notin Active
  /\ replaced' = [replaced EXCEPT ![c] = [b \in Matches(c) |-> rom[<<b, c.offset>>]]]
  /\ rom' = [cell \in DOMAIN rom |->
               IF cell[1] \in Matches(c) /\ cell[2] = c.offset THEN c.replace ELSE rom[cell]]
  /\ genies' = Append(genies, c)
  /\ UNCHANGED <<size, registers, sram, disorder>>

RemoveGenie(c) ==
  \E i \in DOMAIN genies :
    /\ genies[i] = c
    /\ rom' = [cell \in DOMAIN rom |->
                 IF cell[1] \in DOMAIN replaced[c] /\ cell[2] = c.offset
                 THEN replaced[c][cell[1]] ELSE rom[cell]]
    /\ genies' = RemoveAt(genies, i)
    /\ replaced' = [replaced EXCEPT ![c] = <<>>]
    /\ disorder' = (disorder \/ \E j \in i + 1..Len(genies) : SameAddress(c, genies[j]))
    /\ UNCHANGED <<size, registers, sram>>

-----------------------------------------------------------------------------
Game ==
  \/ \E v \in BOOLEAN : WriteEnable(v)
  \/ \E v \in 0..Step - 1 : WriteBank(v)
  \/ \E v \in 0..3 : WriteHi(v)
  \/ \E v \in 0..1 : WriteMode(v)
  \/ \E v \in Values : WriteRam(v)

User == \E c \in Cheats : AddGenie(c) \/ RemoveGenie(c)

Next == Game \/ User

Spec == Init /\ [][Next]_vars

-----------------------------------------------------------------------------
(* Properties                                                               *)

(* Types; every area is mapped to a bank the cartridge has.                 *)
TypeOK ==
  /\ numBanks \in RomSizes /\ numRamBanks \in RamSizes
  /\ low \in 0..Step - 1 /\ hi \in 0..3
  /\ enableRam \in BOOLEAN /\ mode \in 0..1
  /\ mode = 1 => numRamBanks >= 4
  /\ enableRam => RamBank \in 0..numRamBanks - 1
  /\ LowBank \in 0..numBanks - 1 /\ HighBank \in 0..numBanks - 1

(* "Selecting ROM banks 0x00, 0x20, 0x40, 0x60 is not possible" in the high *)
(* area of a cartridge of 32 banks or more, although the zero test is on    *)
(* the low register only and before the mask.                               *)
HighBankNotX0 == numBanks >= Step => HighBank % Step # 0

(* Whatever banks the game selects, it reads the value of a cheat without   *)
(* compare value at the cheat's address, as long as no later one patches    *)
(* the same address, cheats are removed in order and bank 0 is not in the   *)
(* high area (which only cartridges of fewer than 32 banks allow).          *)
CheatsAreSeen ==
  \A i \in DOMAIN genies :
    LET c == genies[i]
    IN /\ c.compare = NoCompare /\ ~disorder
       /\ \A j \in DOMAIN genies : i < j => ~SameAddress(c, genies[j])
       /\ c.area = "low" \/ HighBank # 0
       => ReadRom(c.area, c.offset) = c.replace

(* The ROM (and the memory behind it) is the file with the inserted cheats  *)
(* laid over it, oldest first: removing cheats leaves nothing behind.       *)
Laid ==
  LET over[n \in 0..Len(genies)] ==
        IF n = 0 THEN [cell \in DOMAIN rom |-> Rom0[cell]]
        ELSE LET c == genies[n]
             IN [cell \in DOMAIN rom |->
                   IF /\ cell[1] \in PatchedBanks(c.area) /\ cell[2] = c.offset
                      /\ c.compare \in {NoCompare, over[n - 1][cell]}
                   THEN c.replace ELSE over[n - 1][cell]]
  IN over[Len(genies)]

RomIsFileAndCheats == ~disorder => rom = Laid

(* "the two ranges are mapped to the bank selected with the two bits        *)
(* register banknum_hi": in advanced mode the RAM bank is that register.    *)
RamBankIsHi == mode = 1 => RamBank = hi % numRamBanks
=============================================================================
