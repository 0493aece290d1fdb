------------------------------ MODULE Lifecycle ------------------------------
(***************************************************************************)
(* Who runs the CPU, and who may stop it: the command line thread           *)
(* (CliManager, Debugger), the emulation thread Detach starts and Attach    *)
(* joins, and the display thread, which closes the window or, on Ctrl+C,    *)
(* sets m_stopped.  Debugger commands and the emulation thread call         *)
(* Cpu::Step in loops; a step's Sync and ShowFrame look at the window.      *)
(*                                                                          *)
(* Abstractions: a step is one instruction with one Sync, at its end; the   *)
(* game is a little program (Code) of calls, returns and interrupts, enough *)
(* to move the call stack and its debugger copy, the stack trace.           *)
(***************************************************************************)
EXTENDS Naturals, Sequences

CONSTANTS Code,          \* address -> [op, to]; the game starts at 1
          Handler,       \* where interrupts go
          Interruptible, \* addresses an interrupt may come at
          Breakpoints,   \* addresses with a breakpoint
          MaxDepth,      \* bound: depth of the stack and of the trace
          MaxCommands    \* bound: commands given

ASSUME LifecycleAssumption ==
  /\ 1 \in DOMAIN Code /\ Handler \in DOMAIN Code
  /\ \A a \in DOMAIN Code :                    \* the game stays in its code
       /\ a \in Nat \ {0}
       /\ Code[a].op # "ret" => Code[a].to \in DOMAIN Code
       /\ Code[a].op \in {"call", "ret"} => a + 1 \in DOMAIN Code
  /\ MaxDepth \in Nat /\ MaxCommands \in Nat

VARIABLES closed,        \* Display::m_stop: the window is closed
          stopped,       \* m_stopped
          debugging,     \* m_debugging, of the debugger and of the state
          thread,        \* m_emu_thread: where it is
          cmd, at,       \* the command being executed, and where it is
          target,        \* the address at which next and stepout end
          beat,          \* which of the two looks at the window comes next
          missed,        \* m_stop_check_cycles is past the value Sync tests
          lcd,           \* the LCD is on
          ip, stack,     \* the game: instruction pointer, return addresses
          tracing, trace,\* m_enable_stacktrace, m_stacktrace
          stale,         \* history: the stack changed unobserved
          commands       \* still to be given

game == <<ip, stack, lcd, trace, stale>>
clock == <<beat, missed>>
cli  == <<cmd, at, target>>
vars == <<closed, stopped, debugging, thread, cli, clock, game, tracing, commands>>

Addr == DOMAIN Code

(* main: --debug leaves the debugger attached, otherwise Detach is called.  *)
Init ==
  /\ closed = FALSE /\ stopped = FALSE
  /\ \/ debugging = TRUE  /\ thread = "none"
     \/ debugging = FALSE /\ thread = "test"
  /\ cmd = "none" /\ at = "idle" /\ target = 0
  /\ beat = 0 /\ missed = FALSE /\ lcd = TRUE
  /\ ip = 1 /\ stack = <<>>
  /\ tracing = FALSE /\ trace = <<>> /\ stale = FALSE
  /\ commands = MaxCommands

Last(s) == s[Len(s)]
Pop(s) == SubSeq(s, 1, Len(s) - 1)

-----------------------------------------------------------------------------
(* Cpu::Step                                                                *)

Watching == debugging /\ tracing

(* add_stacktrace_entry and remove_stacktrace_entry                         *)
TracePush(a) == trace' = IF Watching THEN Append(trace, a) ELSE trace

TracePop(a) ==
  trace' = IF Watching /\ trace # <<>> /\ Last(trace) = a THEN Pop(trace) ELSE trace

(* The instruction at a with stack s; calls and returns may be conditional. *)
Call(a, s) ==
  /\ Code[a].op = "call" /\ Len(s) < MaxDepth /\ Len(trace) < MaxDepth
  /\ stack' = Append(s, a + 1)
  /\ ip' = Code[a].to
  /\ TracePush(a + 1)
  /\ UNCHANGED lcd

Return(a, s) ==
  /\ Code[a].op = "ret" /\ s # <<>>
  /\ stack' = Pop(s)
  /\ ip' = Last(s)
  /\ TracePop(Last(s))
  /\ UNCHANGED lcd

NotTaken(a, s) ==
  /\ Code[a].op \in {"call", "ret"}
  /\ ip' = a + 1
  /\ stack' = s
  /\ UNCHANGED <<lcd, trace>>

(* The game drops a return address and goes on.                             *)
Drop(a, s) ==
  /\ Code[a].op = "drop"
  /\ stack' = IF s = <<>> THEN s ELSE Pop(s)
  /\ ip' = Code[a].to
  /\ UNCHANGED <<lcd, trace>>

WriteLcd(a, s) ==
  /\ Code[a].op = "lcd"
  /\ lcd' \in BOOLEAN
  /\ stack' = s /\ ip' = Code[a].to
  /\ UNCHANGED trace

Instruction(a, s) ==
  Call(a, s) \/ Return(a, s) \/ NotTaken(a, s) \/ Drop(a, s) \/ WriteLcd(a, s)

(* What the debugger does not see                                           *)
Unobserved == ~debugging \/ "drop" \in {Code[ip].op, Code[Handler].op}

(* An interrupt is served first, in the same step, and is not traced.       *)
Served ==
  /\ ip \in Interruptible /\ Len(stack) < MaxDepth
  /\ Instruction(Handler, Append(stack, ip))

(* EmulatorState::Sync looks at the window when its counter equals 500, and *)
(* leaves the counter there when it finds it closed, never to look again;   *)
(* ShowFrame looks at the end of a frame, which comes only with the LCD on. *)
(* The two alternate here; in the code many Syncs lie between.              *)
Mut_Looks == beat = 0 /\ ~missed                 \* ShowFrame does not look

Looks == IF beat = 0 THEN ~missed ELSE lcd

Sync ==
  /\ beat' = 1 - beat
  /\ missed' = (missed \/ (beat = 0 /\ closed))
  /\ stopped' = (stopped \/ (Looks /\ closed))

(* Two threads in Step at once: nothing is known of the game from then on   *)
(* (ip 0), and the counter may have been stored past its test.              *)
Unknown ==
  /\ ip' = 0 /\ stack' = <<>>
  /\ lcd' \in BOOLEAN
  /\ \/ UNCHANGED trace
     \/ Watching /\ trace # <<>> /\ trace' = Pop(trace)
     \/ Watching /\ Len(trace) < MaxDepth /\ trace' = Append(trace, 0)
  /\ stale' = (trace' # <<>>)
  /\ Sync \/ (beat = 0 /\ beat' = 1 /\ missed' = TRUE /\ UNCHANGED stopped)

Known ==
  /\ Instruction(ip, stack) \/ Served
  /\ stale' = (trace' # <<>> /\ (stale \/ (stack' # stack /\ Unobserved)))
  /\ Sync

StepEnds(otherInStep) ==
  /\ IF otherInStep \/ ip = 0 THEN Unknown ELSE Known
  /\ UNCHANGED <<closed, debugging, tracing, commands>>

-----------------------------------------------------------------------------
(* The emulation thread: while (!Stopped()) Step()                          *)

EmuTest ==
  /\ thread = "test"
  /\ thread' = IF stopped THEN "ended" ELSE "step"
  /\ UNCHANGED <<closed, stopped, debugging, cli, clock, game, tracing, commands>>

EmuStep ==
  /\ thread = "step"
  /\ StepEnds(at = "step")
  /\ thread' = "test"
  /\ UNCHANGED cli

EmuThread == EmuTest \/ EmuStep

-----------------------------------------------------------------------------
(* The display thread                                                       *)

CloseWindow ==
  /\ ~closed
  /\ closed' = TRUE
  /\ UNCHANGED <<stopped, debugging, thread, cli, clock, game, tracing, commands>>

CtrlC ==
  /\ ~closed
  /\ stopped' = TRUE
  /\ UNCHANGED <<closed, debugging, thread, cli, clock, game, tracing, commands>>

-----------------------------------------------------------------------------
(* The command line: a command is typed                                     *)

Typed ==
  /\ at = "idle" /\ commands > 0
  /\ commands' = commands - 1
  /\ UNCHANGED <<clock, ip, stack, lcd>>

Begin(c, to) ==
  /\ cmd' = c /\ at' = "step" /\ target' = to
  /\ UNCHANGED <<closed, stopped, debugging, thread, tracing, trace, stale>>

(* step and continue: only these two look at Stopped() and IsDebugging().   *)
StepOrContinue ==
  /\ Typed
  /\ \/ ~stopped /\ debugging /\ \E c \in {"step", "continue"} : Begin(c, 0)
     \/ /\ stopped                             \* sched.Stop()
        /\ at' = "ended"
        /\ UNCHANGED <<closed, stopped, debugging, thread, cmd, target, tracing, trace, stale>>

(* A call is stepped over, anything else is one step.                       *)
NextCommand ==
  /\ Typed
  /\ \/ ip = 0 /\ \E a \in {0, 1} : Begin("next", a)
     \/ ip # 0 /\ Begin("next", IF Code[ip].op = "call" THEN ip + 1 ELSE 0)

StepOut ==
  /\ Typed
  /\ tracing /\ trace # <<>> /\ Last(trace) # ip
  /\ Begin("stepout", Last(trace))

Mut_Attach ==                                    \* nothing stops the thread
  /\ Typed
  /\ ~debugging
  /\ cmd' = "attach" /\ at' = "join"
  /\ UNCHANGED <<closed, stopped, debugging, thread, target, tracing, trace, stale>>

(* Attach: m_stopped is set, the thread joined, m_stopped cleared.          *)
Attach ==
  /\ Typed
  /\ ~debugging
  /\ stopped' = TRUE
  /\ cmd' = "attach" /\ at' = "join"
  /\ UNCHANGED <<closed, debugging, thread, target, tracing, trace, stale>>

Mut_Detach ==                                    \* m_debugging is not tested
  /\ Typed
  /\ debugging' = FALSE /\ stopped' = FALSE
  /\ thread' = IF thread = "none" THEN "test" ELSE "terminated"
  /\ UNCHANGED <<closed, cli, tracing, trace, stale>>

Detach ==
  /\ Typed
  /\ debugging
  /\ debugging' = FALSE /\ stopped' = FALSE
  /\ thread' = IF thread = "none" THEN "test" ELSE "terminated"
  /\ UNCHANGED <<closed, cli, tracing, trace, stale>>

EnableTrace ==
  /\ Typed
  /\ ~tracing /\ tracing' = TRUE
  /\ UNCHANGED <<closed, stopped, debugging, thread, cli, trace, stale>>

Mut_DisableOrClear ==                            \* disable keeps the trace
  /\ Typed
  /\ tracing
  /\ tracing' \in BOOLEAN
  /\ trace' = (IF tracing' THEN <<>> ELSE trace) /\ stale' = FALSE
  /\ UNCHANGED <<closed, stopped, debugging, thread, cli>>

(* disable clears the trace; clear leaves tracing as it is.                 *)
DisableOrClear ==
  /\ Typed
  /\ tracing
  /\ tracing' \in BOOLEAN
  /\ trace' = <<>> /\ stale' = FALSE
  /\ UNCHANGED <<closed, stopped, debugging, thread, cli>>

Mut_Exit ==                                      \* without EmulatorState::Stop
  /\ Typed
  /\ at' = "ended"
  /\ UNCHANGED <<closed, stopped, debugging, thread, cmd, target, tracing, trace, stale>>

(* exit: sched.Stop(), EmulatorState::Stop()                                *)
Exit ==
  /\ Typed
  /\ at' = "ended"
  /\ closed' = TRUE /\ stopped' = TRUE
  /\ UNCHANGED <<debugging, thread, cmd, target, tracing, trace, stale>>

User ==
  \/ StepOrContinue \/ NextCommand \/ StepOut \/ Attach \/ Detach
  \/ EnableTrace \/ DisableOrClear \/ Exit

-----------------------------------------------------------------------------
(* The command line: a command is executed                                  *)

CliStep ==
  /\ at = "step"
  /\ StepEnds(thread = "step")
  /\ at' = IF cmd = "step" \/ (cmd = "next" /\ target = 0) THEN "clear" ELSE "test"
  /\ UNCHANGED <<cmd, target, thread>>

(* The conditions of the do-while loops of continue and next, and of the    *)
(* while loop of stepout; a breakpoint counts hits, so it need not end it.  *)
LoopTest ==
  /\ at = "test"
  /\ \/ cmd = "continue" /\ (stopped \/ ip \in Breakpoints \cup {0}) /\ at' = "clear"
     \/ cmd = "continue" /\ ~stopped /\ at' = "step"
     \/ cmd = "next" /\ (stopped \/ ip \in {target, 0}) /\ at' = "clear"
     \/ cmd = "next" /\ ~stopped /\ ip # target /\ at' = "step"
     \/ cmd = "stepout" /\ ip \in {target, 0} /\ at' = "idle"
     \/ cmd = "stepout" /\ ip # target /\ at' = "step"
  /\ UNCHANGED <<closed, stopped, debugging, thread, cmd, target, clock, game, tracing, commands>>

(* SetStopped(false) after the loop                                         *)
ClearStopped ==
  /\ at = "clear"
  /\ at' = "idle"
  /\ stopped' = FALSE
  /\ UNCHANGED <<closed, debugging, thread, cmd, target, clock, game, tracing, commands>>

Mut_Join ==                                      \* does not wait
  /\ at = "join"
  /\ at' = "attached"
  /\ UNCHANGED <<closed, stopped, debugging, thread, cmd, target, clock, game, tracing, commands>>

Join ==
  /\ at = "join" /\ thread = "ended"
  /\ thread' = "none"
  /\ at' = "attached"
  /\ UNCHANGED <<closed, stopped, debugging, cmd, target, clock, game, tracing, commands>>

AttachEnd ==
  /\ at = "attached"
  /\ at' = "idle"
  /\ stopped' = FALSE /\ debugging' = TRUE
  /\ UNCHANGED <<closed, thread, cmd, target, clock, game, tracing, commands>>

CliThread == CliStep \/ LoopTest \/ ClearStopped \/ Join \/ AttachEnd

-----------------------------------------------------------------------------
Next == EmuThread \/ CliThread \/ User \/ CloseWindow \/ CtrlC

(* The two threads that run code are scheduled; nobody has to type, close   *)
(* the window or press a key.                                               *)
Spec == Init /\ [][Next]_vars /\ WF_vars(EmuThread) /\ WF_vars(CliThread)

-----------------------------------------------------------------------------
(* std::terminate is not reached: Detach starts a thread only when there is *)
(* none to overwrite, Attach joins one only when there is.                  *)
NeverTerminates == thread # "terminated" /\ (at = "join" => thread # "none")

(* Two threads are inside Cpu::Step at once only if next or stepout, which  *)
(* do not ask IsDebugging, were typed while the debugger was detached; and  *)
(* a debugger that is attached has no emulation thread beside it, so that   *)
(* the stack trace is changed by one thread only.                           *)
OneStepper ==
  /\ (thread = "step" /\ at = "step") => (cmd \in {"next", "stepout"} /\ ~debugging)
  /\ debugging => thread = "none"

(* The stack trace holds frames that are on the game's stack, in order,     *)
(* unless the stack changed where the debugger does not see it: while       *)
(* detached, or by a game that drops a return address itself.               *)
IsSubsequence(s, t) ==
  \E pos \in [1..Len(s) -> 1..Len(t)] :
    /\ \A i, j \in 1..Len(s) : i < j => pos[i] < pos[j]
    /\ \A i \in 1..Len(s) : s[i] = t[pos[i]]

TraceIsStack == ~stale => IsSubsequence(trace, stack)

(* Attach returns: nothing clears m_stopped between its store and the join. *)
AttachReturns == (at = "join") ~> (at = "idle")

(* When the window is closed, the thread that runs the game in a loop that  *)
(* looks at m_stopped leaves it, unless the LCD is off and the counter of   *)
(* Sync has run past its test: no frame and no Sync looks at the window.    *)
Runs == thread \in {"test", "step"} \/ (at = "step" /\ cmd \in {"continue", "next"})

Blind == ~lcd /\ missed

CloseIsSeen == (closed /\ Runs) ~> (~Runs \/ Blind)

(* Once the command line has ended, whichever way, the emulation thread     *)
(* ends: main then destroys the state it runs on.                           *)
EndIsSeen == (at = "ended") ~> (thread \in {"none", "ended"})
=============================================================================
