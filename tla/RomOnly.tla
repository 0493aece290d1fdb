-------------------------------- MODULE RomOnly --------------------------------
(***************************************************************************)
(* A cartridge without registers: two banks, both mapped; only the patches  *)
(* of the Game Genie change it.                                             *)
(***************************************************************************)
EXTENDS Integers, SequencesExt

CONSTANTS Offsets, Rom0, Cheats, NoCompare

VARIABLES rom, genies, replaced, disorder

Init ==
  /\ rom = [cell \in (0..1) \X Offsets |-> Rom0[cell]]
  /\ genies = <<>> /\ replaced = [c \in Cheats |-> <<>>]
  /\ disorder = FALSE

Active == {genies[i] : i \in DOMAIN genies}

Patched(c) == <<IF c.area = "low" THEN 0 ELSE 1, c.offset>>

AddGenie(c) ==
  /\ c \notin Active
  /\ replaced' = [replaced EXCEPT ![c] = IF c.compare \in {NoCompare, rom[Patched(c)]}
                                         THEN <<rom[Patched(c)]>> ELSE <<>>]
  /\ rom' = [rom EXCEPT ![Patched(c)] = IF c.compare \in {NoCompare, @} THEN c.replace ELSE @]
  /\ genies' = Append(genies, c)
  /\ UNCHANGED disorder

(* RemovePatch reads replaces[0].  Of a cheat that matched nothing the      *)
(* vector is empty: the read is through a null pointer and nothing follows. *)
RemoveGenie(c) ==
  \E i \in DOMAIN genies :
    /\ genies[i] = c /\ replaced[c] # <<>>
    /\ rom' = [rom EXCEPT ![Patched(c)] = replaced[c][1]]
    /\ genies' = RemoveAt(genies, i)
    /\ replaced' = [replaced EXCEPT ![c] = <<>>]
    /\ disorder' = (disorder \/ \E j \in i + 1..Len(genies) : Patched(genies[j]) = Patched(c))

Next == \E c \in Cheats : AddGenie(c) \/ RemoveGenie(c)
=============================================================================
