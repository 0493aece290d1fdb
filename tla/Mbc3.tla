---------------------------------- MODULE Mbc3 ----------------------------------
(***************************************************************************)
(* The ROM of an MBC3 cartridge: its bank register and the Game Genie       *)
(* patches.  ApplyPatch walks over all banks the high area may show, but    *)
(* tests and replaces the cell of bank 1 each time (m_rom[address] for      *)
(* m_rom[pos]), while RemovePatch writes to the banks it is given.          *)
(*                                                                          *)
(* RAM, the clock and the areas behind them are not part of this module.    *)
(***************************************************************************)
EXTENDS Integers, SequencesExt

CONSTANTS Sizes,         \* sizes of the cartridges, in banks
          Offsets, Values, Rom0, Cheats, NoCompare       \* as in Mbc1

VARIABLES
  total,                 \* m_total_banks
  bank,                  \* m_bank_number
  rom,                   \* m_rom
  genies, replaced,      \* m_genies
  disorder,              \* history: a cheat was removed before a later one at
                         \* the same address
  spoilt                 \* history: offsets of the cheats of the high area that
                         \* wrote to all banks when they were removed

vars == <<total, bank, rom, genies, replaced, disorder, spoilt>>

Init ==
  /\ total \in Sizes /\ bank = 1
  /\ rom = [cell \in (0..total - 1) \X Offsets |-> Rom0[cell]]
  /\ genies = <<>> /\ replaced = [c \in Cheats |-> <<>>]
  /\ disorder = FALSE /\ spoilt = {}

(* `&= ~m_total_banks' clears one bit: the size itself selects bank 0, and  *)
(* what is twice the size or more selects memory behind the ROM.            *)
WriteBank(v) ==
  /\ bank' = LET n == IF v = 0 THEN 1 ELSE v
             IN IF (n \div total) % 2 = 1 THEN n - total ELSE n
  /\ UNCHANGED <<total, rom, genies, replaced, disorder, spoilt>>

MappedBank(area) == IF area = "low" THEN 0 ELSE bank

Active == {genies[i] : i \in DOMAIN genies}

Matches(c, v) == c.compare \in {NoCompare, v}

Tested(c) == <<IF c.area = "low" THEN 0 ELSE 1, c.offset>>

Mut_Replaces(c) ==       \* remembers the cell after replacing it
  IF ~Matches(c, rom[Tested(c)]) THEN <<>>
  ELSE [b \in {Tested(c)[1]} |-> c.replace]

(* The banks a patch remembers and the bytes it will put back: what the     *)
(* tested cell held, then, in the turns of the loop in which that cell      *)
(* still matches, its new value.                                            *)
Replaces(c) ==
  LET first == Tested(c)[1]
      more  == IF c.area = "high" /\ Matches(c, c.replace) THEN 2..total - 1 ELSE {}
  IN IF ~Matches(c, rom[Tested(c)]) THEN <<>>
     ELSE [b \in {first} \cup more |-> IF b = first THEN rom[Tested(c)] ELSE c.replace]

AddGenie(c) ==
  /\ c \notin Active
  /\ replaced' = [replaced EXCEPT ![c] = Replaces(c)]
  /\ rom' = IF Matches(c, rom[Tested(c)]) THEN [rom EXCEPT ![Tested(c)] = c.replace] ELSE rom
  /\ genies' = Append(genies, c)
  /\ UNCHANGED <<total, bank, disorder, spoilt>>

RemoveGenie(c) ==
  \E i \in DOMAIN genies :
    /\ genies[i] = c
    /\ rom' = [cell \in DOMAIN rom |->
                 IF cell[2] = c.offset /\ cell[1] \in DOMAIN replaced[c]
                 THEN replaced[c][cell[1]] ELSE rom[cell]]
    /\ genies' = RemoveAt(genies, i)
    /\ replaced' = [replaced EXCEPT ![c] = <<>>]
    /\ disorder' = (disorder \/ \E j \in i + 1..Len(genies) : Tested(genies[j]) = Tested(c))
    /\ spoilt' = IF DOMAIN replaced[c] \subseteq {0, 1} THEN spoilt ELSE spoilt \cup {c.offset}
    /\ UNCHANGED <<total, bank>>

Next ==
  \/ \E v \in 0..4 * total - 1 : WriteBank(v)
  \/ \E c \in Cheats : AddGenie(c) \/ RemoveGenie(c)

-----------------------------------------------------------------------------
(* The tested cells hold the file's bytes with the inserted cheats laid     *)
(* over them, oldest first.                                                 *)
Laid ==
  LET over[n \in 0..Len(genies)] ==
        IF n = 0 THEN [cell \in DOMAIN rom |-> Rom0[cell]]
        ELSE LET c == genies[n]
             IN [over[n - 1] EXCEPT ![Tested(c)] = IF Matches(c, @) THEN c.replace ELSE @]
  IN over[Len(genies)]

(* In bank 0 and 1 the game reads the file with the inserted cheats; in any *)
(* other bank it reads the file, without the cheats, until the removal of a *)
(* cheat of the high area has written to all banks.                         *)
BanksKeepFile ==
  \A area \in {"low", "high"}, o \in Offsets :
    LET cell == <<MappedBank(area), o>>
    IN cell[1] < total =>
         IF cell[1] \in {0, 1} THEN disorder \/ rom[cell] = Laid[cell]
         ELSE o \in spoilt \/ rom[cell] = Rom0[cell]
=============================================================================
