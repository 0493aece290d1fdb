----------------------------- MODULE MCLifecycle -----------------------------
(***************************************************************************)
(* A game whose main loop writes LCDC and calls a function, which may call  *)
(* itself, return, or drop its return address; the interrupt handler is     *)
(* the function.                                                            *)
(***************************************************************************)
EXTENDS Lifecycle

MCCode ==
  << [op |-> "call", to |-> 3],     \* the main loop
     [op |-> "lcd",  to |-> 1],
     [op |-> "call", to |-> 3],     \* the function
     [op |-> "ret",  to |-> 0],
     [op |-> "drop", to |-> 2] >>
MCHandler == 3
MCInterruptible == {4}
MCBreakpoints == {4}
=============================================================================
