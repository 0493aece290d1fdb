-------------------------------- MODULE MCCards --------------------------------
(* MBC1 cartridges of 2 to 16 banks with a low register of two bits, MBC3   *)
(* cartridges of 2 to 8 banks and a ROM of two banks; three cheats, two of  *)
(* them at one address of the high area, and for the latter two a fourth    *)
(* one whose compare value is the value it writes.                          *)
EXTENDS Cards

Rom == [cell \in (0..4 * Step) \X Offsets |-> cell[1] % 2]

Cheat(a, o, v, x) == [area |-> a, offset |-> o, replace |-> v, compare |-> x]

SomeCheats == {Cheat("low", 0, 1, NoCompare), Cheat("high", 0, 1, NoCompare),
               Cheat("high", 0, 0, 1)}

FourCheats == SomeCheats \cup {Cheat("high", 0, 1, 1)}
=============================================================================
