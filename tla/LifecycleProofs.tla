--------------------------- MODULE LifecycleProofs ---------------------------
(***************************************************************************)
(* Whatever the game does and whatever is typed, however often: who is in   *)
(* Cpu::Step, and that threads are started and joined one for one.          *)
(***************************************************************************)
EXTENDS Lifecycle, SequenceTheorems, TLAPS

(* The thread exists exactly while the debugger is detached, but for the    *)
(* moment after the join; step and continue run attached only.              *)
ThreadInv ==
  /\ thread \in {"none", "test", "step", "ended"}
  /\ debugging => thread = "none"
  /\ at = "attached" => thread = "none"
  /\ (~debugging /\ at # "attached") => thread # "none"

CommandInv ==
  /\ at \in {"step", "test"} => cmd \in {"step", "continue", "next", "stepout"}
  /\ (at \in {"step", "test"} /\ cmd \in {"step", "continue"}) => debugging
  /\ at \in {"join", "attached"} => ~debugging

Inv == debugging \in BOOLEAN /\ ThreadInv /\ CommandInv

LEMMA InitInv == Init => Inv
BY DEF Init, Inv, ThreadInv, CommandInv

LEMMA NextInv == Inv /\ [Next]_vars => Inv'
<1> SUFFICES ASSUME Inv, [Next]_vars PROVE Inv'
  OBVIOUS
<1> USE DEF Inv, ThreadInv, CommandInv
<1>1. CASE UNCHANGED vars
  BY <1>1 DEF vars, cli
<1>2. CASE EmuTest
  BY <1>2 DEF EmuTest, cli
<1>3. CASE EmuStep
  BY <1>3 DEF EmuStep, StepEnds, cli
<1>4. CASE CliStep
  BY <1>4 DEF CliStep, StepEnds
<1>5. CASE LoopTest
  BY <1>5 DEF LoopTest
<1>6. CASE ClearStopped
  BY <1>6 DEF ClearStopped
<1>7. CASE Join
  BY <1>7 DEF Join
<1>8. CASE AttachEnd
  BY <1>8 DEF AttachEnd
<1>9. CASE StepOrContinue
  BY <1>9 DEF StepOrContinue, Typed, Begin
<1>10. CASE NextCommand
  <2>1. debugging' = debugging /\ thread' = thread /\ cmd' = "next" /\ at' = "step" /\ at = "idle"
    BY <1>10 DEF NextCommand, Typed, Begin
  <2> QED BY <2>1
<1>11. CASE StepOut
  BY <1>11 DEF StepOut, Typed, Begin
<1>12. CASE Attach
  BY <1>12 DEF Attach, Typed
<1>13. CASE Detach
  BY <1>13 DEF Detach, Typed, cli
<1>14. CASE EnableTrace \/ DisableOrClear
  BY <1>14 DEF EnableTrace, DisableOrClear, Typed, cli
<1>15. CASE Exit
  BY <1>15 DEF Exit, Typed
<1>16. CASE CloseWindow \/ CtrlC
  BY <1>16 DEF CloseWindow, CtrlC, cli
<1> QED
  BY <1>1, <1>2, <1>3, <1>4, <1>5, <1>6, <1>7, <1>8, <1>9, <1>10, <1>11, <1>12, <1>13, <1>14,
     <1>15, <1>16 DEF Next, EmuThread, CliThread, User

(* Only next and stepout typed while detached put a second thread into      *)
(* Cpu::Step, and an attached debugger is alone with the stack trace.       *)
THEOREM StepsAlone == Spec => []OneStepper
<1>1. Inv => OneStepper
  BY DEF Inv, ThreadInv, CommandInv, OneStepper
<1> QED BY InitInv, NextInv, <1>1, PTL DEF Spec

(* Every thread started is joined before the next one is.                   *)
THEOREM ThreadsArePaired == Spec => []NeverTerminates
<1>1. Inv => NeverTerminates
  BY DEF Inv, ThreadInv, CommandInv, NeverTerminates
<1> QED BY InitInv, NextInv, <1>1, PTL DEF Spec

-----------------------------------------------------------------------------
(* Subsequences, with sequences of any elements                             *)

LEMMA PopFacts ==
  ASSUME NEW S, NEW s \in Seq(S), s # <<>>
  PROVE  /\ Pop(s) \in Seq(S) /\ Len(s) \in Nat \ {0} /\ Len(Pop(s)) = Len(s) - 1
         /\ \A i \in 1..Len(s) - 1 : Pop(s)[i] = s[i]
<1>1. Len(s) \in Nat \ {0} /\ \A i \in 1..Len(s) - 1 : s[i] \in S
  OBVIOUS
<1>2. /\ SubSeq(s, 1, Len(s) - 1) \in Seq(S)
      /\ Len(SubSeq(s, 1, Len(s) - 1)) = IF 1 <= Len(s) - 1 THEN (Len(s) - 1) - 1 + 1 ELSE 0
      /\ \A i \in 1..(Len(s) - 1) - 1 + 1 : SubSeq(s, 1, Len(s) - 1)[i] = s[1 + i - 1]
  BY <1>1, SubSeqProperties
<1>3. Len(Pop(s)) = Len(s) - 1
  <2>1. CASE Len(s) = 1
    BY <1>2, <2>1 DEF Pop
  <2>2. CASE Len(s) # 1
    <3>0. \A n \in Nat \ {0} : n # 1 => 1 <= n - 1 /\ (n - 1) - 1 + 1 = n - 1
      OBVIOUS
    <3>1. 1 <= Len(s) - 1 /\ (Len(s) - 1) - 1 + 1 = Len(s) - 1
      BY <1>1, <2>2, <3>0, Zenon
    <3> QED BY <1>2, <3>1, Zenon DEF Pop
  <2> QED BY <2>1, <2>2
<1>4. ASSUME NEW i \in 1..Len(s) - 1 PROVE Pop(s)[i] = s[i]
  <2>1. i \in 1..(Len(s) - 1) - 1 + 1 /\ 1 + i - 1 = i
    BY <1>1
  <2> QED BY <1>2, <2>1 DEF Pop
<1> QED BY <1>1, <1>2, <1>3, <1>4 DEF Pop

LEMMA EmptyIsSub ==
  ASSUME NEW S, NEW t \in Seq(S)
  PROVE  IsSubsequence(<<>>, t)
<1> DEFINE pos == [i \in 1..0 |-> 1]
<1>1. pos \in [1..Len(<<>>) -> 1..Len(t)]
  OBVIOUS
<1>2. \A i, j \in 1..Len(<<>>) : FALSE
  OBVIOUS
<1> QED BY <1>1, <1>2 DEF IsSubsequence

LEMMA SubPush ==
  ASSUME NEW S, NEW s \in Seq(S), NEW t \in Seq(S), NEW a \in S, IsSubsequence(s, t)
  PROVE  IsSubsequence(s, Append(t, a))
<1>1. PICK pos \in [1..Len(s) -> 1..Len(t)] :
        /\ \A i, j \in 1..Len(s) : i < j => pos[i] < pos[j]
        /\ \A i \in 1..Len(s) : s[i] = t[pos[i]]
  BY DEF IsSubsequence
<1>2. pos \in [1..Len(s) -> 1..Len(Append(t, a))]
  OBVIOUS
<1>3. \A i \in 1..Len(s) : s[i] = Append(t, a)[pos[i]]
  BY <1>1
<1> QED BY <1>1, <1>2, <1>3 DEF IsSubsequence

LEMMA BothPush ==
  ASSUME NEW S, NEW s \in Seq(S), NEW t \in Seq(S), NEW a \in S, IsSubsequence(s, t)
  PROVE  IsSubsequence(Append(s, a), Append(t, a))
<1>1. PICK pos \in [1..Len(s) -> 1..Len(t)] :
        /\ \A i, j \in 1..Len(s) : i < j => pos[i] < pos[j]
        /\ \A i \in 1..Len(s) : s[i] = t[pos[i]]
  BY DEF IsSubsequence
<1> DEFINE ss == Append(s, a)
           tt == Append(t, a)
           new == [i \in 1..Len(s) + 1 |-> IF i <= Len(s) THEN pos[i] ELSE Len(t) + 1]
<1>2. new \in [1..Len(ss) -> 1..Len(tt)]
  OBVIOUS
<1>3. \A i, j \in 1..Len(ss) : i < j => new[i] < new[j]
  BY <1>1
<1>4. \A i \in 1..Len(ss) : ss[i] = tt[new[i]]
  BY <1>1
<1> QED BY <1>2, <1>3, <1>4 DEF IsSubsequence

LEMMA SubPop ==
  ASSUME NEW S, NEW s \in Seq(S), NEW t \in Seq(S), s # <<>>, IsSubsequence(s, t)
  PROVE  IsSubsequence(Pop(s), t)
<1>1. PICK pos \in [1..Len(s) -> 1..Len(t)] :
        /\ \A i, j \in 1..Len(s) : i < j => pos[i] < pos[j]
        /\ \A i \in 1..Len(s) : s[i] = t[pos[i]]
  BY DEF IsSubsequence
<1> DEFINE new == [i \in 1..Len(s) - 1 |-> pos[i]]
<1>2. Len(Pop(s)) = Len(s) - 1 /\ \A i \in 1..Len(s) - 1 : Pop(s)[i] = s[i]
  BY PopFacts
<1>3. new \in [1..Len(Pop(s)) -> 1..Len(t)]
  BY <1>2
<1>4. \A i, j \in 1..Len(Pop(s)) : i < j => new[i] < new[j]
  BY <1>1, <1>2
<1>5. \A i \in 1..Len(Pop(s)) : Pop(s)[i] = t[new[i]]
  BY <1>1, <1>2
<1> QED BY <1>3, <1>4, <1>5 DEF IsSubsequence

(* Positions are strictly increasing: all but the last are below the last.  *)
LEMMA BothPop ==
  ASSUME NEW S, NEW s \in Seq(S), NEW t \in Seq(S), s # <<>>, IsSubsequence(s, t)
  PROVE  t # <<>> /\ IsSubsequence(Pop(s), Pop(t))
<1>1. PICK pos \in [1..Len(s) -> 1..Len(t)] :
        /\ \A i, j \in 1..Len(s) : i < j => pos[i] < pos[j]
        /\ \A i \in 1..Len(s) : s[i] = t[pos[i]]
  BY DEF IsSubsequence
<1> DEFINE new == [i \in 1..Len(s) - 1 |-> pos[i]]
<1>2. /\ Len(Pop(s)) = Len(s) - 1 /\ \A i \in 1..Len(s) - 1 : Pop(s)[i] = s[i]
  BY PopFacts
<1>3. Len(s) \in 1..Len(s) /\ pos[Len(s)] \in 1..Len(t)
  OBVIOUS
<1>4. t # <<>>
  BY <1>3
<1>5. /\ Len(Pop(t)) = Len(t) - 1 /\ \A i \in 1..Len(t) - 1 : Pop(t)[i] = t[i]
  BY <1>4, PopFacts
<1>6. \A i \in 1..Len(s) - 1 : pos[i] \in 1..Len(t) - 1
  <2> TAKE i \in 1..Len(s) - 1
  <2>1. i \in 1..Len(s) /\ i < Len(s)
    OBVIOUS
  <2>2. pos[i] < pos[Len(s)] /\ pos[i] \in 1..Len(t)
    BY <1>1, <1>3, <2>1
  <2> QED BY <1>3, <2>2
<1>7. new \in [1..Len(Pop(s)) -> 1..Len(Pop(t))]
  BY <1>2, <1>5, <1>6
<1>8. \A i \in 1..Len(Pop(s)) : Pop(s)[i] = Pop(t)[new[i]]
  <2> TAKE i \in 1..Len(Pop(s))
  <2>1. i \in 1..Len(s) - 1 /\ i \in 1..Len(s)
    BY <1>2
  <2>2. Pop(s)[i] = t[pos[i]] /\ new[i] = pos[i] /\ pos[i] \in 1..Len(t) - 1
    BY <1>1, <1>2, <1>6, <2>1
  <2> QED BY <1>5, <2>2
<1>9. \A i, j \in 1..Len(Pop(s)) : i < j => new[i] < new[j]
  BY <1>1, <1>2
<1> QED BY <1>4, <1>7, <1>8, <1>9 DEF IsSubsequence

(* The last element of the longer one is not used if it is another one.     *)
LEMMA TopPop ==
  ASSUME NEW S, NEW s \in Seq(S), NEW t \in Seq(S), t # <<>>, IsSubsequence(s, t),
         s = <<>> \/ Last(s) # Last(t)
  PROVE  IsSubsequence(s, Pop(t))
<1>1. PICK pos \in [1..Len(s) -> 1..Len(t)] :
        /\ \A i, j \in 1..Len(s) : i < j => pos[i] < pos[j]
        /\ \A i \in 1..Len(s) : s[i] = t[pos[i]]
  BY DEF IsSubsequence
<1>2. /\ Len(Pop(t)) = Len(t) - 1 /\ \A i \in 1..Len(t) - 1 : Pop(t)[i] = t[i]
  BY PopFacts
<1>3. \A i \in 1..Len(s) : pos[i] \in 1..Len(t) - 1
  <2> SUFFICES ASSUME NEW i \in 1..Len(s) PROVE pos[i] # Len(t)
    OBVIOUS
  <2>1. Len(s) \in 1..Len(s) /\ s # <<>>
    OBVIOUS
  <2>2. pos[Len(s)] # Len(t)
    BY <1>1, <2>1 DEF Last
  <2>3. i = Len(s) \/ pos[i] < pos[Len(s)]
    BY <1>1, <2>1
  <2> QED BY <2>1, <2>2, <2>3
<1>4. pos \in [1..Len(s) -> 1..Len(Pop(t))]
  BY <1>2, <1>3
<1>5. \A i \in 1..Len(s) : s[i] = Pop(t)[pos[i]]
  BY <1>1, <1>2, <1>3
<1> QED BY <1>1, <1>4, <1>5 DEF IsSubsequence

-----------------------------------------------------------------------------
(* The stack trace and the stack                                            *)

Address == Addr \cup {0}

StackType ==
  /\ ip \in Address /\ stack \in Seq(Addr) /\ trace \in Seq(Address)
  /\ debugging \in BOOLEAN /\ tracing \in BOOLEAN /\ stale \in BOOLEAN

(* Nothing is pushed while tracing is off, and disable clears.              *)
StackInv == StackType /\ (~tracing => trace = <<>>) /\ TraceIsStack

LEMMA LastIn ==
  ASSUME NEW S, NEW s \in Seq(S), s # <<>>
  PROVE  Last(s) \in S
BY DEF Last

LEMMA InstructionType ==
  ASSUME NEW a \in Addr, NEW s \in Seq(Addr), trace \in Seq(Address), Instruction(a, s)
  PROVE  ip' \in Addr /\ stack' \in Seq(Addr) /\ trace' \in Seq(Address)
<1> USE LifecycleAssumption DEF Addr, Address
<1>1. CASE Call(a, s)
  BY <1>1 DEF Call, TracePush
<1>2. CASE Return(a, s)
  BY <1>2, LastIn, PopFacts DEF Return, TracePop
<1>3. CASE NotTaken(a, s)
  BY <1>3 DEF NotTaken
<1>4. CASE Drop(a, s)
  BY <1>4, PopFacts DEF Drop
<1>5. CASE WriteLcd(a, s)
  BY <1>5 DEF WriteLcd
<1> QED BY <1>1, <1>2, <1>3, <1>4, <1>5 DEF Instruction

(* An instruction the debugger watches, with the return address of an       *)
(* interrupt on the stack or not                                            *)
LEMMA WatchedInstruction ==
  ASSUME NEW a \in Addr, NEW s \in Seq(Addr), trace \in Seq(Address), Watching,
         Code[a].op # "drop", IsSubsequence(trace, s), Instruction(a, s)
  PROVE  IsSubsequence(trace', stack')
<1>0. s \in Seq(Address) /\ Addr \subseteq Address
  BY DEF Address
<1>1. CASE Call(a, s)
  <2>1. a + 1 \in Address
    BY <1>1, LifecycleAssumption DEF Call, Addr, Address
  <2> QED BY <1>0, <1>1, <2>1, BothPush DEF Call, TracePush
<1>2. CASE Return(a, s)
  <2>1. s # <<>> /\ stack' = Pop(s)
    BY <1>2 DEF Return
  <2>2. CASE trace # <<>> /\ Last(trace) = Last(s)
    BY <1>0, <1>2, <2>1, <2>2, BothPop DEF Return, TracePop
  <2>3. CASE ~(trace # <<>> /\ Last(trace) = Last(s))
    BY <1>0, <1>2, <2>1, <2>3, TopPop DEF Return, TracePop
  <2> QED BY <2>2, <2>3
<1>3. CASE NotTaken(a, s)
  BY <1>3 DEF NotTaken
<1>4. CASE WriteLcd(a, s)
  BY <1>4 DEF WriteLcd
<1> QED BY <1>1, <1>2, <1>3, <1>4 DEF Instruction, Drop

(* What the debugger does not see, or its copy empty: nothing is claimed    *)
(* then, or the stack is as it was.                                         *)
LEMMA KnownKeeps ==
  ASSUME StackInv, ip # 0, Known, UNCHANGED <<debugging, tracing>>
  PROVE  StackInv'
<1>0. /\ ip \in Addr /\ Handler \in Addr /\ stack \in Seq(Addr) /\ trace \in Seq(Address)
      /\ Append(stack, ip) \in Seq(Addr) /\ stack \in Seq(Address) /\ ip \in Address
  BY LifecycleAssumption DEF StackInv, StackType, Addr, Address
<1>1. PICK a \in Addr, s \in Seq(Addr) :
        /\ Instruction(a, s)
        /\ (a = ip /\ s = stack) \/ (a = Handler /\ s = Append(stack, ip))
  BY <1>0 DEF Known, Served
<1>2. ip' \in Addr /\ stack' \in Seq(Addr) /\ trace' \in Seq(Address)
  BY <1>0, <1>1, InstructionType
<1>3. stale' = (trace' # <<>> /\ (stale \/ (stack' # stack /\ Unobserved)))
  BY DEF Known
<1>4. StackType'
  BY <1>2, <1>3 DEF StackInv, StackType, Address
<1>5. ~Watching => trace' = trace
  BY <1>1 DEF Instruction, Call, Return, NotTaken, Drop, WriteLcd, TracePush, TracePop
<1>6. (~tracing => trace = <<>>)'
  BY <1>5 DEF StackInv, Watching
<1>7. stack' \in Seq(Address)
  BY <1>2 DEF Address
<1>8. ASSUME ~stale' PROVE IsSubsequence(trace', stack')
  <2>1. CASE trace' = <<>>
    BY <1>7, <2>1, EmptyIsSub
  <2>2. CASE trace' # <<>> /\ ~Unobserved
    <3>1. ~stale /\ IsSubsequence(trace, stack) /\ Code[a].op # "drop" /\ Watching
      BY <1>1, <1>3, <1>5, <1>8, <2>2 DEF Unobserved, StackInv, StackType, TraceIsStack, Watching
    <3>2. IsSubsequence(trace, s)
      BY <1>0, <1>1, <3>1, SubPush
    <3> QED BY <1>0, <1>1, <3>1, <3>2, WatchedInstruction
  <2>3. CASE trace' # <<>> /\ Unobserved
    <3>1. ~stale /\ IsSubsequence(trace, stack) /\ stack' = stack
      BY <1>3, <1>8, <2>3 DEF StackInv, StackType, TraceIsStack
    <3>2. CASE trace' = trace
      BY <3>1, <3>2
    <3>3. CASE trace # <<>> /\ trace' = Pop(trace)
      BY <1>0, <3>1, <3>3, SubPop
    <3>4. CASE Call(a, s)
      <4>1. stack' = Append(s, a + 1) /\ Len(s) >= Len(stack) /\ Len(stack') = Len(s) + 1
        BY <1>0, <1>1, <3>4 DEF Call
      <4> QED BY <1>0, <3>1, <4>1
    <3> QED
      BY <1>1, <3>2, <3>3, <3>4
         DEF Instruction, Return, NotTaken, Drop, WriteLcd, TracePop
  <2> QED BY <2>1, <2>2, <2>3
<1> QED BY <1>4, <1>6, <1>8 DEF StackInv, TraceIsStack

LEMMA UnknownKeeps ==
  ASSUME StackInv, Unknown, UNCHANGED <<debugging, tracing>>
  PROVE  StackInv'
<1>1. ip' = 0 /\ stack' = <<>> /\ stale' = (trace' # <<>>)
  BY DEF Unknown
<1>2. trace' \in Seq(Address) /\ (~Watching => trace' = trace)
  BY PopFacts DEF Unknown, StackInv, StackType, Address
<1>3. stack' \in Seq(Addr) /\ stack' \in Seq(Address)
  BY <1>1
<1>4. StackType' /\ (~tracing => trace = <<>>)'
  BY <1>1, <1>2, <1>3 DEF StackInv, StackType, Address, Watching
<1>5. ~stale' => IsSubsequence(trace', stack')
  BY <1>1, <1>3, EmptyIsSub
<1> QED BY <1>4, <1>5 DEF StackInv, TraceIsStack

LEMMA StackInvNext == StackInv /\ [Next]_vars => StackInv'
<1> SUFFICES ASSUME StackInv, [Next]_vars PROVE StackInv'
  OBVIOUS
<1>1. CASE EmuStep \/ CliStep
  <2>1. \E o \in BOOLEAN : StepEnds(o)
    BY <1>1 DEF EmuStep, CliStep
  <2> QED BY <2>1, KnownKeeps, UnknownKeeps DEF StepEnds
<1>2. CASE UNCHANGED <<ip, stack, trace, stale, tracing>> /\ debugging' \in BOOLEAN
  BY <1>2 DEF StackInv, StackType, TraceIsStack
<1>3. CASE EnableTrace
  BY <1>3 DEF EnableTrace, Typed, StackInv, StackType, TraceIsStack
<1>4. CASE DisableOrClear
  <2>1. /\ trace' = <<>> /\ stale' = FALSE /\ tracing' \in BOOLEAN
        /\ UNCHANGED <<ip, stack, debugging>>
    BY <1>4 DEF DisableOrClear, Typed
  <2>2. stack \in Seq(Address) /\ trace' \in Seq(Address)
    BY <2>1 DEF StackInv, StackType, Address
  <2> QED BY <2>1, <2>2, EmptyIsSub DEF StackInv, StackType, TraceIsStack
<1>5. CASE UNCHANGED vars
  BY <1>2, <1>5 DEF vars, game, StackInv, StackType
<1>6. CASE EmuTest \/ CloseWindow \/ CtrlC \/ LoopTest \/ ClearStopped \/ Join \/ AttachEnd
  BY <1>2, <1>6 DEF EmuTest, CloseWindow, CtrlC, LoopTest, ClearStopped, Join, AttachEnd, game,
     StackInv, StackType
<1>7. CASE StepOrContinue \/ NextCommand \/ StepOut \/ Attach \/ Detach \/ Exit
  <2>1. UNCHANGED <<ip, stack, trace, stale, tracing>> /\ (debugging' = debugging \/ debugging' = FALSE)
    BY <1>7 DEF StepOrContinue, NextCommand, StepOut, Attach, Detach, Exit, Typed, Begin
  <2> QED BY <1>2, <2>1 DEF StackInv, StackType
<1> QED
  BY <1>1, <1>3, <1>4, <1>5, <1>6, <1>7 DEF Next, EmuThread, CliThread, User

(* The stack trace the debugger prints holds frames of the game's stack in  *)
(* their order, whatever the game calls, returns from and is interrupted    *)
(* by, as long as the stack changes where the debugger sees it.             *)
THEOREM TraceIsOnStack == Spec => []TraceIsStack
<1>1. Init => StackInv
  <2> SUFFICES ASSUME Init PROVE StackInv
    OBVIOUS
  <2>1. /\ ip = 1 /\ stack = <<>> /\ trace = <<>> /\ ~tracing /\ ~stale
        /\ debugging \in BOOLEAN /\ tracing \in BOOLEAN /\ stale \in BOOLEAN
    BY DEF Init
  <2>2. stack \in Seq(Addr) /\ stack \in Seq(Address) /\ trace \in Seq(Address)
    BY <2>1
  <2> QED BY <2>1, <2>2, EmptyIsSub, LifecycleAssumption DEF StackInv, StackType, TraceIsStack, Addr, Address
<1>2. StackInv => TraceIsStack
  BY DEF StackInv
<1> QED BY <1>1, <1>2, StackInvNext, PTL DEF Spec
=============================================================================
