------------------------------- MODULE SerialPort -------------------------------
(***************************************************************************)
(* Serial: SB and SC as the game writes them, the clock that Sync advances, *)
(* and the end of a transfer.  With the internal clock the emulation thread *)
(* calls Send, which blocks until the peer answers; the thread of the       *)
(* device ends a transfer of the peer at any time, also while the emulation *)
(* thread is in Send.  The device remembers the byte to send (m_out) when   *)
(* SB is written; what ends a transfer changes SB only.                     *)
(***************************************************************************)
EXTENDS Integers

CONSTANTS Period,        \* T-states of a transfer: 8192
          Data           \* bytes exchanged

VARIABLES
  sb, out,               \* m_data_transfer; the device's m_out
  flag, internal,        \* m_flag, m_clock
  count,                 \* m_curr_cycles
  sending,               \* the emulation thread is in m_dev->Send
  elapsed                \* history: T-states since SC was written

vars == <<sb, out, flag, internal, count, sending, elapsed>>

Init ==
  /\ sb \in Data /\ out = sb
  /\ flag = FALSE /\ internal = FALSE
  /\ count = 0 /\ sending = FALSE /\ elapsed = 0

WriteData(v) ==
  /\ sb' = v /\ out' = v
  /\ UNCHANGED <<flag, internal, count, sending, elapsed>>

Mut_WriteControl(f, c) ==        \* goes on with the count of a cancelled transfer
  /\ flag' = f /\ internal' = c
  /\ elapsed' = 0
  /\ UNCHANGED <<sb, out, count, sending>>

WriteControl(f, c) ==
  /\ flag' = f /\ internal' = c
  /\ count' = 0 /\ elapsed' = 0
  /\ UNCHANGED <<sb, out, sending>>

(* Clock, for n < Period T-states: an external clock is counted as well,    *)
(* and for nothing.                                                         *)
Clock(n) ==
  IF ~flag THEN UNCHANGED vars
  ELSE /\ UNCHANGED <<sb, out, flag, internal>>
       /\ IF count + n < Period
          THEN count' = count + n /\ elapsed' = elapsed + n /\ UNCHANGED sending
          ELSE IF internal
          THEN count' = 0 /\ sending' = TRUE /\ elapsed' = elapsed + Period - count
          ELSE count' = count + n - Period /\ elapsed' = 0 /\ UNCHANGED sending

(* RequestInterrupt, without the bit it sets in IF                          *)
EndTransfer(b) ==
  /\ flag' = FALSE /\ sb' = b

SendReturns(b) ==
  /\ sending /\ sending' = FALSE
  /\ EndTransfer(b)
  /\ UNCHANGED <<out, internal, count, elapsed>>

PeerTransfer(b) ==
  /\ EndTransfer(b)
  /\ UNCHANGED <<out, internal, count, sending, elapsed>>

(* A transfer with the internal clock is sent when exactly one period has   *)
(* passed since the game wrote SC, whatever transfers were started, counted *)
(* with the external clock or ended by the peer before.                     *)
SentOnTime ==
  /\ sending => elapsed = Period
  /\ flag /\ internal /\ ~sending => elapsed < Period
=============================================================================
