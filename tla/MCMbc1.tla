---------------------------------- MODULE MCMbc1 --------------------------------
(* A cartridge of 16 banks and four banks of RAM, without cheats.           *)
EXTENDS Mbc1

Rom == [cell \in (0..4 * Step) \X Offsets |-> 0]
=============================================================================
