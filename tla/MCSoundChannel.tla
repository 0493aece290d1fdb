----------------------------- MODULE MCSoundChannel -----------------------------
(* Steps of two T-states; lengths up to three, one of them over the maximum *)
(* of 2; frequencies of two bits, of which the low register has one; a      *)
(* noise period of up to 2 * 4 units cut to three bits; an LFSR of four     *)
(* bits with a short part of two.                                           *)
EXTENDS SoundChannel
AllKinds == {"sweep", "pulse", "wave", "noise"}
MaxLens == [k \in AllKinds |-> 2]
Factors == [k \in AllKinds |-> 1]
AllPositions == [sweep |-> 1, pulse |-> 2, wave |-> 3, noise |-> 2]
AllPrograms == [sweep |-> {"sweep"}, pulse |-> {"length", "envelope", "tone"},
                wave |-> {"length", "tone"}, noise |-> {"length", "tone"}]
Horizons == [length |-> 10, envelope |-> 66, sweep |-> 30, tone |-> 10]
=============================================================================
