------------------------------ MODULE Interrupts ------------------------------
(***************************************************************************)
(* The CPU's interrupt handling (Cpu::Step, handle_interrupts,              *)
(* serve_interrupt, and the instructions EI, DI, HALT, RETI) together with  *)
(* everything that requests an interrupt.  The flag register 0xFF0F is one  *)
(* atomic byte, but every request is Memory::Read, a bit set, Memory::Write:*)
(* two accesses, made by the emulation thread (PPU, timer, serial clock),   *)
(* by the display thread (Joypad::Set...) and by the thread of the serial   *)
(* device.  Each access is a step of its own here.                          *)
(*                                                                          *)
(* Abstractions: a register byte is the set of its set bits; the program is *)
(* any sequence of the instructions that touch the interrupt state, the     *)
(* others being "Plain"; a local that went out of scope is reset; the Sync  *)
(* calls of one instruction are one phase, in which each device raises its  *)
(* interrupt at most once.                                                  *)
(***************************************************************************)
EXTENDS Naturals

CONSTANTS EmuSources,     \* raised by the emulation thread inside Sync
          AsyncSources    \* raised by another thread: 3 serial, 4 joypad

ASSUME SourceAssumption ==
  /\ EmuSources \subseteq 0..4
  /\ AsyncSources \subseteq {3, 4}

(* VBLANK 0, LCD STAT 1, TIMER 2, SERIAL 3, JOYPAD 4                        *)
Sources == EmuSources \cup AsyncSources

VARIABLES
  iflag,      \* m_interrupt_flag (0xFF0F)
  ie,         \* m_interrupt_enable (0xFFFF)
  ime,        \* m_ctx.enableInt
  eiDelay,    \* m_ctx.ei_delay
  halted,     \* m_ctx.halted
  haltBug,    \* m_ctx.haltBug
  pc,         \* where the emulation thread stands in Cpu::Step
  after,      \* where it goes when the current Sync phase is over
  serving,    \* the argument of serve_interrupt
  local,      \* the "ir" local of serve_interrupt or of a device's request
  devs,       \* devices that may still raise in this Sync phase
  apc, alocal,\* the asynchronous threads: where they stand, their "ir" local
  armed,      \* history: Steps ended since the EI or RETI in force; 3: none
  stale       \* history: who decided on a flag register since written by others

cpu   == <<ime, eiDelay, halted, haltBug>>
async == <<apc, alocal>>
vars  == <<iflag, ie, ime, eiDelay, halted, haltBug, pc, after, serving,
           local, devs, apc, alocal, armed, stale>>

NotArmed == 3
NoSource == 5
EmuAgent == 5             \* the emulation thread as a member of stale

Init ==
  /\ iflag = {} /\ ie = {}
  /\ ime = FALSE /\ eiDelay = 0 /\ halted = FALSE /\ haltBug = FALSE
  /\ pc = "step" /\ after = "step" /\ serving = NoSource
  /\ local = {} /\ devs = {}
  /\ apc = [t \in AsyncSources |-> "idle"]
  /\ alocal = [t \in AsyncSources |-> {}]
  /\ armed = NotArmed
  /\ stale = {}

(* The emulation thread writes IF: the copies of the others are out of date. *)
EmuWrites(v) ==
  /\ iflag' = v
  /\ stale' = (stale \ {EmuAgent}) \cup {t \in AsyncSources : apc[t] = "write"}

-----------------------------------------------------------------------------
(* Sync: the devices advance and may request an interrupt.                  *)

EnterSync(next) ==
  /\ pc' = "sync" /\ after' = next
  /\ devs' = EmuSources

(* Timer::Tick, PPU::stat_source, mode_hblank, Serial::RequestInterrupt:    *)
(* ir = Read(0xFF0F); set the bit ...                                       *)
DeviceRead(s) ==
  /\ pc = "sync" /\ s \in devs
  /\ local' = iflag \cup {s}
  /\ devs' = devs \ {s}
  /\ pc' = "raise"
  /\ UNCHANGED <<iflag, ie, cpu, after, serving, async, armed, stale>>

(* ... Write(0xFF0F, ir).                                                   *)
DeviceWrite ==
  /\ pc = "raise"
  /\ EmuWrites(local)
  /\ local' = {}
  /\ pc' = "sync"
  /\ UNCHANGED <<ie, cpu, after, serving, devs, async, armed>>

SyncDone ==
  /\ pc = "sync"
  /\ pc' = after /\ after' = "step"
  /\ devs' = {}
  /\ UNCHANGED <<iflag, ie, cpu, serving, local, async, armed, stale>>

-----------------------------------------------------------------------------
(* Cpu::Step                                                                *)

Wanted == iflag \cap ie

Urgent(s) == s \in Wanted /\ \A t \in Wanted : s <= t

Mut_HaltedStep ==                 \* wakes only if it may serve the request
  /\ pc = "step" /\ halted
  /\ halted' = ~(ime /\ Wanted # {})
  /\ EnterSync("end")
  /\ UNCHANGED <<iflag, ie, ime, eiDelay, haltBug, serving, local, async, armed, stale>>

HaltedStep ==
  /\ pc = "step" /\ halted
  /\ halted' = (Wanted = {})
  /\ EnterSync("end")
  /\ UNCHANGED <<iflag, ie, ime, eiDelay, haltBug, serving, local, async, armed, stale>>

(* The opcode is read; with haltBug the instruction pointer does not move.  *)
Fetch ==
  /\ haltBug' = FALSE
  /\ EnterSync("exec")

NoInterrupt ==
  /\ pc = "step" /\ ~halted
  /\ ~ime \/ Wanted = {}
  /\ Fetch
  /\ UNCHANGED <<iflag, ie, ime, eiDelay, halted, serving, local, async, armed, stale>>

(* handle_interrupts found s as the most urgent one ...                     *)
Handle(s) ==
  /\ pc = "step" /\ ~halted
  /\ ime /\ Urgent(s)
  /\ serving' = s
  /\ pc' = "reread"
  /\ UNCHANGED <<iflag, ie, cpu, after, local, devs, async, armed, stale>>

(* ... and serve_interrupt reads the register again ...                     *)
Mut_ServeRead ==                  \* forgets the requests it does not serve
  /\ pc = "reread"
  /\ ime' = FALSE
  /\ local' = {}
  /\ armed' = NotArmed
  /\ pc' = "clear"
  /\ UNCHANGED <<iflag, ie, eiDelay, halted, haltBug, after, serving, devs, async, stale>>

ServeRead ==
  /\ pc = "reread"
  /\ ime' = FALSE
  /\ local' = iflag \ {serving}
  /\ armed' = NotArmed
  /\ pc' = "clear"
  /\ UNCHANGED <<iflag, ie, eiDelay, halted, haltBug, after, serving, devs, async, stale>>

(* ... writes it back, and interrupt_routine pushes the program counter.    *)
ServeWrite ==
  /\ pc = "clear"
  /\ EmuWrites(local)
  /\ local' = {} /\ serving' = NoSource
  /\ EnterSync("fetch")
  /\ UNCHANGED <<ie, cpu, async, armed>>

FetchHandler ==
  /\ pc = "fetch"
  /\ Fetch
  /\ UNCHANGED <<iflag, ie, ime, eiDelay, halted, serving, local, async, armed, stale>>

-----------------------------------------------------------------------------
(* The instructions                                                         *)

Plain ==
  /\ pc = "exec"
  /\ EnterSync("end")
  /\ UNCHANGED <<iflag, ie, cpu, serving, local, async, armed, stale>>

(* EI, and RETI after it popped the return address                          *)
Mut_EnableInterrupts ==           \* one Step too early
  /\ pc = "exec"
  /\ IF ime THEN UNCHANGED <<eiDelay, armed>>
            ELSE eiDelay' = 1 /\ armed' = 0
  /\ pc' = "end"
  /\ UNCHANGED <<iflag, ie, ime, halted, haltBug, after, serving, local, devs, async, stale>>

EnableInterrupts ==
  /\ pc = "exec"
  /\ IF ime THEN UNCHANGED <<eiDelay, armed>>
            ELSE eiDelay' = 2 /\ armed' = 0
  /\ pc' = "end"
  /\ UNCHANGED <<iflag, ie, ime, halted, haltBug, after, serving, local, devs, async, stale>>

DI ==
  /\ pc = "exec"
  /\ ime' = FALSE /\ eiDelay' = 0 /\ armed' = NotArmed
  /\ pc' = "end"
  /\ UNCHANGED <<iflag, ie, halted, haltBug, after, serving, local, devs, async, stale>>

HALT ==
  /\ pc = "exec"
  /\ halted' = TRUE
  /\ haltBug' = (haltBug \/ (~ime /\ Wanted # {}))
  /\ pc' = "end"
  /\ UNCHANGED <<iflag, ie, ime, eiDelay, after, serving, local, devs, async, armed, stale>>

WriteIF(v) ==
  /\ pc = "exec"
  /\ EmuWrites(v)
  /\ EnterSync("end")
  /\ UNCHANGED <<ie, cpu, serving, local, async, armed>>

WriteIE(v) ==
  /\ pc = "exec"
  /\ ie' = v
  /\ EnterSync("end")
  /\ UNCHANGED <<iflag, cpu, serving, local, async, armed, stale>>

(* The tail of Step: the delayed effect of EI.                              *)
EndStep ==
  /\ pc = "end"
  /\ IF eiDelay > 0
     THEN /\ eiDelay' = eiDelay - 1
          /\ ime' = (eiDelay = 1)
     ELSE UNCHANGED <<eiDelay, ime>>
  /\ armed' = IF armed < 2 THEN armed + 1 ELSE armed
  /\ pc' = "step"
  /\ UNCHANGED <<iflag, ie, halted, haltBug, after, serving, local, devs, async, stale>>

-----------------------------------------------------------------------------
(* Joypad::RequestInterrupt on the display thread, Serial::RequestInterrupt *)
(* on the serial device's thread: nothing orders them with the CPU.         *)

AsyncRead(t) ==
  /\ apc[t] = "idle"
  /\ alocal' = [alocal EXCEPT ![t] = iflag \cup {t}]
  /\ apc' = [apc EXCEPT ![t] = "write"]
  /\ UNCHANGED <<iflag, ie, cpu, pc, after, serving, local, devs, armed, stale>>

Overtakes(t) ==           \* the emulation thread acts on what t now changes
  \/ pc \in {"raise", "clear"}
  \/ pc = "reread" /\ (t < serving \/ t \in stale)

AsyncWrite(t) ==
  /\ apc[t] = "write"
  /\ iflag' = alocal[t]
  /\ stale' = (stale \ {t}) \cup {u \in AsyncSources \ {t} : apc[u] = "write"}
                \cup (IF Overtakes(t) THEN {EmuAgent} ELSE {})
  /\ alocal' = [alocal EXCEPT ![t] = {}]
  /\ apc' = [apc EXCEPT ![t] = "idle"]
  /\ UNCHANGED <<ie, cpu, pc, after, serving, local, devs, armed>>

-----------------------------------------------------------------------------
Sync == (\E s \in EmuSources : DeviceRead(s)) \/ DeviceWrite \/ SyncDone

Control ==
  \/ HaltedStep \/ NoInterrupt
  \/ \E s \in Sources : Handle(s)
  \/ ServeRead \/ ServeWrite \/ FetchHandler \/ EndStep

Execute ==
  \/ Plain \/ EnableInterrupts \/ DI \/ HALT
  \/ \E v \in SUBSET Sources : WriteIF(v) \/ WriteIE(v)

EmuThread == Sync \/ Control \/ Execute

Others == \E t \in AsyncSources : AsyncRead(t) \/ AsyncWrite(t)

Next == EmuThread \/ Others

(* The emulation thread runs `while(!Stopped()) Step()`: it never waits for  *)
(* anything modelled here.  The other threads act when the user or the peer *)
(* does, so nothing is assumed of them.                                     *)
Spec == Init /\ [][Next]_vars /\ WF_vars(EmuThread)

-----------------------------------------------------------------------------
(* Properties                                                               *)

(* Every variable keeps its type; ei_delay never leaves 0..2.               *)
TypeOK ==
  /\ iflag \subseteq Sources /\ ie \subseteq Sources
  /\ ime \in BOOLEAN /\ halted \in BOOLEAN /\ haltBug \in BOOLEAN
  /\ eiDelay \in 0..2
  /\ pc \in {"step", "reread", "clear", "fetch", "exec", "end", "sync", "raise"}
  /\ after \in {"step", "fetch", "exec", "end"}
  /\ serving \in Sources \cup {NoSource}
  /\ local \subseteq Sources /\ devs \subseteq EmuSources
  /\ apc \in [AsyncSources -> {"idle", "write"}]
  /\ alocal \in [AsyncSources -> SUBSET Sources]
  /\ armed \in 0..3
  /\ stale \subseteq AsyncSources \cup {EmuAgent}

(* An interrupt is taken only if an EI or RETI is in force (no DI and no    *)
(* service since) and the Step after that instruction has ended: the delay  *)
(* counter of Cpu::Step, set to 2 by instruction_FB and instruction_D9,     *)
(* lets exactly one more instruction complete, whatever the other threads   *)
(* do to the flag register.                                                 *)
EnableProtocol == (ime \/ pc \in {"reread"}) => armed = 2

(* include/timing/Timer.h says of an overflow that "an interrupt is         *)
(* requested": a timer request then stays in IF until the CPU serves it or  *)
(* the game writes the register.                                            *)
TimerRequestKept ==
  [][(2 \in iflag /\ 2 \notin iflag') =>
       \/ pc = "clear" /\ serving = 2
       \/ pc = "exec"]_vars

(* A halted CPU with an enabled request pending leaves HALT, with           *)
(* interrupts enabled or not, unless the request itself is lost.            *)
WakesUp == (halted /\ Wanted # {}) ~> (~halted \/ Wanted = {})

(* The split accesses are as good as atomic ones as long as nobody writes   *)
(* back a register that another thread has changed since it was read: but   *)
(* for these steps, the controller of IrqController is implemented, with    *)
(* the requests of every thread.                                            *)
Controller == INSTANCE IrqController WITH
  pending <- iflag,
  enabled <- ie,
  master  <- (ime \/ pc = "clear"),
  asleep  <- halted

StaleWrite ==
  \/ EmuAgent \in stale /\ (DeviceWrite \/ ServeWrite)
  \/ \E t \in AsyncSources \cap stale : AsyncWrite(t)

ImplementsController ==
  Controller!Init /\ [][StaleWrite \/ Controller!Next]_(Controller!vars)
=============================================================================
