----------------------------- MODULE MCInterrupts -----------------------------
(* Instances of Interrupts for TLC.                                         *)
EXTENDS Interrupts
TimerSerial == {2, 3}
OnlyTimer == {2}
SerialJoypad == {3, 4}
Joypad == {4}
=============================================================================
