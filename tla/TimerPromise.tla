----------------------------- MODULE TimerPromise -----------------------------
(***************************************************************************)
(* What the timer promises (include/timing/Timer.h): DIV shows a clock that *)
(* always runs, TIMA counts whole periods of an exact clock since the last  *)
(* write of TAC, starts again from TMA on overflow and requests an          *)
(* interrupt.  Time passes in any number of T-states at once and none may   *)
(* be lost.                                                                 *)
(***************************************************************************)
EXTENDS Integers

CONSTANTS Byte,        \* number of values of an 8-bit register
          DivPeriod,   \* T-states per increment of DIV
          Periods,     \* TIMA periods TAC can select
          Steps        \* numbers of T-states that may pass at once

VARIABLES
  clock,               \* T-states since DIV was reset, modulo its overflow
  phase,               \* T-states since TIMA last ticked or TAC was written
  period, enabled,     \* as selected by TAC
  tima, tma,
  request              \* 1 iff an interrupt was requested in this step

vars == <<clock, phase, period, enabled, tima, tma, request>>

Div == clock \div DivPeriod

(* TIMA after k ticks: it counts to the overflow, then around from TMA.     *)
AfterTicks(k) ==
  IF tima + k < Byte THEN tima + k
  ELSE tma + ((k - (Byte - tima)) % (Byte - tma))

Init ==
  /\ clock = 0 /\ phase = 0
  /\ period = 0 /\ enabled = FALSE
  /\ tima = 0 /\ tma = 0 /\ request = 0

Pass(n) ==
  /\ clock' = (clock + n) % (Byte * DivPeriod)
  /\ IF enabled
     THEN LET ticks == (phase + n) \div period
          IN /\ phase' = (phase + n) % period
             /\ tima' = AfterTicks(ticks)
             /\ request' = IF tima + ticks >= Byte THEN 1 ELSE 0
     ELSE /\ UNCHANGED <<phase, tima>>
          /\ request' = 0
  /\ UNCHANGED <<period, enabled, tma>>

ResetDiv ==
  /\ clock' = 0 /\ request' = 0
  /\ UNCHANGED <<phase, period, enabled, tima, tma>>

WriteTima == 
  /\ tima' \in 0..Byte - 1 /\ request' = 0
  /\ UNCHANGED <<clock, phase, period, enabled, tma>>

WriteTma == 
  /\ tma' \in 0..Byte - 1 /\ request' = 0
  /\ UNCHANGED <<clock, phase, period, enabled, tima>>

Select ==
  /\ period' \in Periods /\ enabled' \in BOOLEAN
  /\ phase' = 0 /\ request' = 0
  /\ UNCHANGED <<clock, tima, tma>>

Next ==
  \/ \E n \in Steps : Pass(n)
  \/ ResetDiv \/ WriteTima \/ WriteTma \/ Select

Spec == Init /\ [][Next]_vars
=============================================================================
