--------------------------------- MODULE Timer ---------------------------------
(***************************************************************************)
(* Timer::Tick and the register writes of source/timing/Timer.cpp.          *)
(*                                                                          *)
(* Tick handles at most one period per call, by an `if' where a `while'     *)
(* would be needed in general: no T-state is lost only because Sync is      *)
(* called with one or two M-cycles and the shortest period is longer        *)
(* (StepAssumption).                                                        *)
(***************************************************************************)
EXTENDS Integers

CONSTANTS Byte,        \* 256
          DivPeriod,   \* 256 T-states
          Periods,     \* {16, 64, 256, 1024}
          MCycles,     \* arguments of Sync in the code: {1, 2}
          Rate         \* T-states per M-cycle: 4

TStates == {c * Rate : c \in MCycles}

ASSUME TimerAssumption ==
  /\ Byte \in Nat \ {0} /\ DivPeriod \in Nat \ {0} /\ Rate \in Nat \ {0}
  /\ MCycles \subseteq Nat /\ Periods \subseteq Nat \ {0}

ASSUME StepAssumption ==
  \A n \in TStates : n < DivPeriod /\ \A p \in Periods : n < p

VARIABLES
  divider, dividerCycles,       \* m_divider, m_divider_cycles
  tima, tma, enable,            \* m_tima, m_tma, m_enable
  realClockCycle,               \* m_real_clock_cycle
  currentCycles,                \* m_current_cycles
  request                       \* 1 iff the step set the timer bit of IF

vars == <<divider, dividerCycles, tima, tma, enable, realClockCycle,
          currentCycles, request>>

(* The clock period is 0 until TAC is written; the timer is off until then. *)
Init ==
  /\ divider = 0 /\ dividerCycles = 0
  /\ tima = 0 /\ tma = 0 /\ enable = FALSE
  /\ realClockCycle = 0 /\ currentCycles = 0
  /\ request = 0

Mut_AdvanceDivider(n) ==             \* starts DIV again from zero
  IF dividerCycles + n >= DivPeriod
  THEN /\ divider' = (divider + 1) % Byte
       /\ dividerCycles' = 0
  ELSE /\ dividerCycles' = dividerCycles + n
       /\ UNCHANGED divider

AdvanceDivider(n) ==
  IF dividerCycles + n >= DivPeriod
  THEN /\ divider' = (divider + 1) % Byte
       /\ dividerCycles' = dividerCycles + n - DivPeriod
  ELSE /\ dividerCycles' = dividerCycles + n
       /\ UNCHANGED divider

(* TIMA overflows to TMA and requests the interrupt in the same call.       *)
AdvanceTima(n) ==
  IF currentCycles + n >= realClockCycle
  THEN /\ currentCycles' = currentCycles + n - realClockCycle
       /\ tima' = IF tima + 1 = Byte THEN tma ELSE tima + 1
       /\ request' = IF tima + 1 = Byte THEN 1 ELSE 0
  ELSE /\ currentCycles' = currentCycles + n
       /\ request' = 0
       /\ UNCHANGED tima

Tick(n) ==
  /\ AdvanceDivider(n)
  /\ IF enable THEN AdvanceTima(n)
     ELSE UNCHANGED <<currentCycles, tima>> /\ request' = 0
  /\ UNCHANGED <<tma, enable, realClockCycle>>

SetDiv ==
  /\ divider' = 0 /\ dividerCycles' = 0 /\ request' = 0
  /\ UNCHANGED <<tima, tma, enable, realClockCycle, currentCycles>>

SetTima(v) ==
  /\ tima' = v /\ request' = 0
  /\ UNCHANGED <<divider, dividerCycles, tma, enable, realClockCycle, currentCycles>>

SetTma(v) ==
  /\ tma' = v /\ request' = 0
  /\ UNCHANGED <<divider, dividerCycles, tima, enable, realClockCycle, currentCycles>>

SetTAC(on, p) ==
  /\ enable' = on /\ realClockCycle' = p
  /\ currentCycles' = 0 /\ request' = 0
  /\ UNCHANGED <<divider, dividerCycles, tima, tma>>

Next ==
  \/ \E n \in TStates : Tick(n)
  \/ SetDiv
  \/ \E v \in 0..Byte - 1 : SetTima(v) \/ SetTma(v)
  \/ \E on \in BOOLEAN, p \in Periods : SetTAC(on, p)

Spec == Init /\ [][Next]_vars

-----------------------------------------------------------------------------
(* Properties                                                               *)

(* Registers are bytes; a running period is never complete between two      *)
(* calls of Tick (Tick tests for one period only).                          *)
TypeOK ==
  /\ divider \in 0..Byte - 1 /\ dividerCycles \in 0..DivPeriod - 1
  /\ tima \in 0..Byte - 1 /\ tma \in 0..Byte - 1
  /\ enable \in BOOLEAN /\ request \in {0, 1}
  /\ realClockCycle \in Periods \cup {0} /\ currentCycles \in Nat
  /\ enable => realClockCycle \in Periods
  /\ currentCycles = 0 \/ currentCycles < realClockCycle

Promise == INSTANCE TimerPromise WITH
  clock <- divider * DivPeriod + dividerCycles,
  phase <- currentCycles, period <- realClockCycle, enabled <- enable,
  Steps <- TStates

(* DIV and TIMA keep exact time for every mix of one and two M-cycle steps  *)
(* and register writes: Timer implements TimerPromise.                      *)
KeepsTime == Promise!Spec
=============================================================================
