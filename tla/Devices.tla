--------------------------------- MODULE Devices ---------------------------------
(***************************************************************************)
(* EmulatorState::Sync: every M-cycle the emulation thread advances the OAM *)
(* DMA, the PPU, the timer, the sound and the serial port, in this order    *)
(* and by the same number of T-states; between two Syncs the game writes    *)
(* their registers.  Here the DMA (OamDma), the timer (Timer) and the       *)
(* serial port (SerialPort) advance together; of the PPU only its hiding of *)
(* OAM is seen, which changes from one Sync to the next at will.            *)
(*                                                                          *)
(* Bound: the devices do not touch each other, so that one behaviour has    *)
(* the game program one group of them; all of them always advance.          *)
(***************************************************************************)
EXTENDS Timer

CONSTANTS DmaLength, SerialPeriod,
          Values, FF,    \* bytes written and exchanged, and 0xFF
          Groups         \* the sets of devices the game may program

VARIABLES
  running, page, index, ram, oam, age, before, changed, hidden,    \* OamDma
  sb, out, flag, internal, count, sending, elapsed,                \* SerialPort
  programs,              \* the devices the game of this behaviour programs
  lead                   \* history: by how much the clock of DIV was ahead of
                         \* the serial transfer when one of them was written

Dma == INSTANCE OamDma WITH Length <- DmaLength, Bytes <- Values
Port == INSTANCE SerialPort WITH Period <- SerialPeriod, Data <- Values \cup {FF}

ASSUME DevicesAssumption ==
  /\ Groups \subseteq SUBSET {"dma", "timer", "div", "serial"}
  /\ DmaLength \in Nat \ {0} /\ SerialPeriod \in Nat \ {0} /\ FF \notin Values
  /\ \A n \in TStates : n < SerialPeriod

dmaVars == <<running, page, index, ram, oam, age, before, changed, hidden>>
portVars == <<sb, out, flag, internal, count, sending, elapsed>>
sysVars == <<vars, dmaVars, portVars, programs, lead>>

DivClock == divider * DivPeriod + dividerCycles
Ahead == (DivClock - elapsed) % (Byte * DivPeriod)

SysInit ==
  /\ Init /\ Dma!Init /\ Port!Init
  /\ programs \in Groups /\ lead = 0

(* Send does not return before the peer has answered: the emulation thread  *)
(* runs nothing meanwhile.                                                  *)
Mut_SyncAll(n, hides) ==         \* a transfer that is due stops the other devices
  /\ ~sending
  /\ Port!Clock(n)
  /\ IF sending' THEN UNCHANGED <<vars, dmaVars>>
     ELSE Dma!Advance(n, hides) /\ Tick(n)
  /\ UNCHANGED <<programs, lead>>

SyncAll(n, hides) ==
  /\ ~sending
  /\ Dma!Advance(n, hides)
  /\ Tick(n)
  /\ Port!Clock(n)
  /\ UNCHANGED <<programs, lead>>

SendReturns ==
  /\ \E b \in Values \cup {FF} : Port!SendReturns(b)
  /\ UNCHANGED <<vars, dmaVars, programs, lead>>

(* the thread of the serial device                                          *)
PeerTransfer ==
  /\ "serial" \in programs
  /\ \E b \in Values : Port!PeerTransfer(b)
  /\ UNCHANGED <<vars, dmaVars, programs, lead>>

GameDiv ==
  /\ ~sending /\ "div" \in programs
  /\ SetDiv
  /\ UNCHANGED <<dmaVars, portVars, programs>>
  /\ lead' = Ahead'

GameTimer ==
  /\ ~sending /\ "timer" \in programs
  /\ \/ \E v \in 0..Byte - 1 : SetTima(v) \/ SetTma(v)
     \/ \E on \in BOOLEAN, p \in Periods : SetTAC(on, p)
  /\ UNCHANGED <<dmaVars, portVars, programs, lead>>

GameDma ==
  /\ ~sending /\ "dma" \in programs
  /\ \/ \E p \in {"ram", "oam"} : Dma!Start(p)
     \/ \E i \in 0..DmaLength - 1, v \in Values : Dma!WriteRam(i, v) \/ Dma!WriteOam(i, v)
  /\ UNCHANGED <<vars, portVars, programs, lead>>

GameSerial ==
  /\ ~sending /\ "serial" \in programs
  /\ UNCHANGED <<vars, dmaVars, programs>>
  /\ \/ \E v \in Values : Port!WriteData(v) /\ UNCHANGED lead
     \/ \E f, c \in BOOLEAN : Port!WriteControl(f, c) /\ lead' = Ahead'

SysNext ==
  \/ \E n \in TStates, hides \in BOOLEAN : SyncAll(n, hides)
  \/ SendReturns \/ PeerTransfer
  \/ GameDiv \/ GameTimer \/ GameDma \/ GameSerial

SysSpec == SysInit /\ [][SysNext]_sysVars

-----------------------------------------------------------------------------
(* Properties                                                               *)

(* A DMA copies its page byte by byte with the T-states of Sync.            *)
DmaCopies == Dma!Copies

(* A transfer is sent one period after the game started it.                 *)
SentOnTime == Port!SentOnTime

(* By the clock of DIV, too, a transfer takes one period: no T-state of a   *)
(* Sync is counted by one of the two devices only, and while Send waits for *)
(* the peer no more than the rest of the Sync that called it has passed.    *)
OneClock ==
  /\ flag /\ internal /\ ~sending => Ahead = lead
  /\ sending /\ flag => \E n \in TStates : (Ahead - lead) % (Byte * DivPeriod) < n
=============================================================================
