------------------------------- MODULE MCSession -------------------------------
(* Three revisions of a game on different cartridges, two of them MBC1s     *)
(* with RAM of different sizes, a game with a short title and one on an     *)
(* MBC3.                                                                    *)
EXTENDS Session

Rom(t, s, c, k) == [title |-> t, short |-> s, chip |-> c, size |-> k]

SomeRoms == {Rom("A", FALSE, "MBC1", 8), Rom("A", FALSE, "MBC1", 32), Rom("A", FALSE, "ROM", 0),
             Rom("B", TRUE, "MBC1", 8), Rom("C", FALSE, "MBC3", 8)}

(* The timer is dumped and advanced as the serial port is; the channels of  *)
(* the APU are not dumped at all.                                           *)
SaveOrder == <<"cpu", "memory", "ppu", "serial", "apu", "card">>

StepOrder == <<"card", "memory", "ppu", "apu", "channels", "serial", "cpu">>
=============================================================================
