------------------------------ MODULE MCPpuModes ------------------------------
(* A screen of 3 lines of 3 pixels; the constants keep the order of the     *)
(* real ones.                                                               *)
EXTENDS PpuModes
SmallLycValues == {1, 3}   \* a visible line and the first of VBLANK
SmallWyValues == {0, 1, 2}
=============================================================================
