---------------------------- MODULE IrqController ----------------------------
(***************************************************************************)
(* What the interrupt logic of the emulated console promises to a game,     *)
(* with every operation atomic: a request stays pending until it is served  *)
(* or the game overwrites the flag register, the request served is the one  *)
(* of highest priority, serving disables further interrupts, and HALT ends  *)
(* only when an enabled request is pending.  Interrupts.tla refines it.     *)
(***************************************************************************)
EXTENDS Naturals

CONSTANT Sources          \* interrupt numbers (Nat); the smaller, the more urgent

VARIABLES pending,        \* the sources whose bit is set in IF (0xFF0F)
          enabled,        \* the sources whose bit is set in IE (0xFFFF)
          master,         \* the interrupt master enable of the CPU
          asleep          \* the CPU is halted

vars == <<pending, enabled, master, asleep>>

Init ==
  /\ pending = {} /\ enabled = {}
  /\ master = FALSE /\ asleep = FALSE

Raise(s) ==
  /\ pending' = pending \cup {s}
  /\ UNCHANGED <<enabled, master, asleep>>

MostUrgent(s, S) == s \in S /\ \A t \in S : s <= t

Serve(s) ==
  /\ master /\ ~asleep
  /\ MostUrgent(s, pending \cap enabled)
  /\ pending' = pending \ {s}
  /\ master' = FALSE
  /\ UNCHANGED <<enabled, asleep>>

Enable ==
  /\ ~master
  /\ master' = TRUE
  /\ UNCHANGED <<pending, enabled, asleep>>

Disable ==
  /\ ~asleep
  /\ master' = FALSE
  /\ UNCHANGED <<pending, enabled, asleep>>

Overwrite ==
  /\ ~asleep
  /\ \/ pending' \in SUBSET Sources /\ UNCHANGED enabled
     \/ enabled' \in SUBSET Sources /\ UNCHANGED pending
  /\ UNCHANGED <<master, asleep>>

Sleep ==
  /\ asleep' = TRUE
  /\ UNCHANGED <<pending, enabled, master>>

Wake ==
  /\ pending \cap enabled # {}
  /\ asleep' = FALSE
  /\ UNCHANGED <<pending, enabled, master>>

Next ==
  \/ \E s \in Sources : Raise(s) \/ Serve(s)
  \/ Enable \/ Disable \/ Overwrite \/ Sleep \/ Wake

Spec == Init /\ [][Next]_vars
=============================================================================
