------------------------------- MODULE CpuProofs -------------------------------
(***************************************************************************)
(* Proofs about the processor: the interrupts, for every set of requesting  *)
(* devices; the arithmetic, for all operands and flags; and the routines of *)
(* MCCpu, whatever they are called with and wherever interrupts are taken:  *)
(* what each instruction does, an invariant for every address, one step of  *)
(* every routine, and the handler around them.                              *)
(***************************************************************************)
EXTENDS Interrupts, MCCpu, SequenceTheorems, TLAPS

LEMMA SourcesAreNumbers == Sources \subseteq 0..4
BY SourceAssumption DEF Sources

(* Every variable of Interrupts keeps its type in every behaviour.          *)
THEOREM TypeCorrect == Spec => []TypeOK
<1>1. ASSUME Init PROVE TypeOK
  <2>1. apc \in [AsyncSources -> {"idle", "write"}]
    BY <1>1 DEF Init
  <2>2. alocal \in [AsyncSources -> SUBSET Sources]
    BY <1>1 DEF Init
  <2>3. ime \in BOOLEAN /\ halted \in BOOLEAN /\ haltBug \in BOOLEAN
    BY <1>1 DEF Init
  <2>4. pc \in {"step", "reread", "clear", "fetch", "exec", "end", "sync", "raise"}
    BY <1>1 DEF Init
  <2>5. after \in {"step", "fetch", "exec", "end"}
    BY <1>1 DEF Init
  <2>6. eiDelay \in 0..2 /\ armed \in 0..3
    BY <1>1 DEF Init, NotArmed
  <2>7. stale \subseteq AsyncSources \cup {EmuAgent} /\ iflag \subseteq Sources /\ ie \subseteq Sources /\ local \subseteq Sources /\ devs \subseteq EmuSources
    BY <1>1 DEF Init
  <2>8. serving \in Sources \cup {NoSource}
    BY <1>1 DEF Init
  <2> QED BY <2>1, <2>2, <2>3, <2>4, <2>5, <2>6, <2>7, <2>8 DEF TypeOK
<1>2. TypeOK /\ [Next]_vars => TypeOK'
  <2> SUFFICES ASSUME TypeOK, [Next]_vars PROVE TypeOK'
    OBVIOUS
  <2> USE DEF TypeOK, NotArmed, NoSource, cpu, async, EmuWrites
  <2>1. ASSUME NEW s \in EmuSources, DeviceRead(s) PROVE TypeOK'
    BY <2>1 DEF DeviceRead, Sources
  <2>2. CASE DeviceWrite
    BY <2>2 DEF DeviceWrite
  <2>3. CASE SyncDone
    BY <2>3 DEF SyncDone
  <2>4. CASE HaltedStep
    <3>1. halted' \in BOOLEAN
      BY <2>4, Zenon DEF HaltedStep
    <3> QED BY <2>4, <3>1 DEF HaltedStep, EnterSync
  <2>5. CASE NoInterrupt
    BY <2>5 DEF NoInterrupt, Fetch, EnterSync
  <2>6. ASSUME NEW s \in Sources, Handle(s) PROVE TypeOK'
    BY <2>6 DEF Handle
  <2>7. CASE ServeRead
    <3>1. ime' \in BOOLEAN
      BY <2>7, Zenon DEF ServeRead
    <3> QED BY <2>7, <3>1 DEF ServeRead
  <2>8. CASE ServeWrite
    BY <2>8 DEF ServeWrite, EnterSync
  <2>9. CASE FetchHandler
    BY <2>9 DEF FetchHandler, Fetch, EnterSync
  <2>10. CASE EndStep
    <3>1. ime' \in BOOLEAN
      BY <2>10, Zenon DEF EndStep
    <3>2. eiDelay' \in 0..2 /\ armed' \in 0..3
      BY <2>10 DEF EndStep
    <3> QED BY <2>10, <3>1, <3>2 DEF EndStep
  <2>11. CASE Plain
    BY <2>11 DEF Plain, EnterSync
  <2>12. CASE EnableInterrupts
    BY <2>12 DEF EnableInterrupts
  <2>13. CASE DI
    <3>1. ime' \in BOOLEAN
      BY <2>13, Zenon DEF DI
    <3> QED BY <2>13, <3>1 DEF DI
  <2>14. CASE HALT
    <3>1. haltBug' \in BOOLEAN /\ halted' \in BOOLEAN
      BY <2>14, Zenon DEF HALT
    <3> QED BY <2>14, <3>1 DEF HALT
  <2>15. ASSUME NEW v \in SUBSET Sources, WriteIF(v) PROVE TypeOK'
    BY <2>15 DEF WriteIF, EnterSync
  <2>16. ASSUME NEW v \in SUBSET Sources, WriteIE(v) PROVE TypeOK'
    BY <2>16 DEF WriteIE, EnterSync
  <2>17. ASSUME NEW t \in AsyncSources, AsyncRead(t) PROVE TypeOK'
    BY <2>17 DEF AsyncRead, Sources
  <2>18. ASSUME NEW t \in AsyncSources, AsyncWrite(t) PROVE TypeOK'
    BY <2>18 DEF AsyncWrite
  <2>19. CASE UNCHANGED vars
    BY <2>19 DEF vars
  <2> QED BY <2>1, <2>2, <2>3, <2>4, <2>5, <2>6, <2>7, <2>8, <2>9, <2>10, <2>11,
             <2>12, <2>13, <2>14, <2>15, <2>16, <2>17, <2>18, <2>19
          DEF Next, EmuThread, Sync, Control, Execute, Others
<1> QED BY <1>1, <1>2, PTL DEF Spec

-----------------------------------------------------------------------------
(* The delay counter and the history variable count the same Steps.         *)
DelayInv ==
  /\ eiDelay > 0 => ~ime /\ armed = 2 - eiDelay
  /\ ime => armed = 2
  /\ pc \in {"reread"} => ime

LEMMA DelayInvariant == Spec => []DelayInv
<1>1. Init => DelayInv
  BY DEF Init, DelayInv, NotArmed
<1>2. TypeOK /\ DelayInv /\ [Next]_vars => DelayInv'
  <2> SUFFICES ASSUME TypeOK, DelayInv, [Next]_vars PROVE DelayInv'
    OBVIOUS
  <2> USE DEF TypeOK, DelayInv, NotArmed, cpu
  <2>1. CASE EmuThread
    <3>1. CASE Sync
      BY <3>1 DEF Sync, DeviceRead, DeviceWrite, SyncDone
    <3>2. CASE Control
      BY <3>2 DEF Control, HaltedStep, NoInterrupt, Handle, ServeRead, ServeWrite,
                  FetchHandler, EndStep, Fetch, EnterSync
    <3>3. CASE Execute
      BY <3>3 DEF Execute, Plain, EnableInterrupts, DI, HALT, WriteIF, WriteIE, EnterSync
    <3> QED BY <2>1, <3>1, <3>2, <3>3 DEF EmuThread
  <2>2. CASE Others
    BY <2>2 DEF Others, AsyncRead, AsyncWrite
  <2>3. CASE UNCHANGED vars
    BY <2>3 DEF vars
  <2> QED BY <2>1, <2>2, <2>3 DEF Next
<1> QED BY <1>1, <1>2, TypeCorrect, PTL DEF Spec

(* No interrupt is taken earlier than one whole instruction after EI or     *)
(* RETI, whatever the other threads do to the flag register.                *)
THEOREM EnableProtocolHolds == Spec => []EnableProtocol
<1>1. DelayInv => EnableProtocol
  BY DEF DelayInv, EnableProtocol
<1> QED BY <1>1, DelayInvariant, PTL
-----------------------------------------------------------------------------
(* A copy of the flag register that is not out of date differs from it by   *)
(* the one bit its holder means to change, and the request about to be      *)
(* served is still the most urgent one.                                     *)
FreshLocals ==
  /\ pc = "raise" /\ EmuAgent \notin stale => \E s \in EmuSources : local = iflag \cup {s}
  /\ pc = "reread" /\ EmuAgent \notin stale => Urgent(serving)
  /\ pc = "clear" /\ EmuAgent \notin stale => Urgent(serving) /\ local = iflag \ {serving}
  /\ pc \in {"reread", "clear"} => serving \in Sources
  /\ pc = "reread" => ime
  /\ pc = "clear" => ~ime

FreshCopies ==
  \A t \in AsyncSources : apc[t] = "write" /\ t \notin stale => alocal[t] = iflag \cup {t}

(* HALT takes effect between instructions only.                             *)
AwakeInside ==
  pc \in {"reread", "clear", "fetch", "exec"} \/ (pc \in {"sync", "raise"} /\ after \in {"fetch", "exec"})
    => ~halted

(* The emulation thread is out of date only while it holds a copy.          *)
StaleInside == EmuAgent \in stale => pc \in {"raise", "reread", "clear"}

SharedInv == FreshLocals /\ FreshCopies /\ AwakeInside /\ StaleInside

LEMMA SharedStep ==
  ASSUME TypeOK, SharedInv, [Next]_vars
  PROVE  SharedInv'
<1> USE DEF TypeOK, SharedInv, FreshLocals, FreshCopies, AwakeInside, StaleInside, cpu, async, EmuWrites
<1>0. EmuAgent \notin AsyncSources
  BY SourceAssumption DEF EmuAgent
<1>1. CASE Sync
  <2>1. ASSUME NEW s \in EmuSources, DeviceRead(s) PROVE SharedInv'
    BY <2>1 DEF DeviceRead
  <2>2. CASE DeviceWrite
    BY <1>0, <2>2 DEF DeviceWrite
  <2>3. CASE SyncDone
    BY <2>3 DEF SyncDone
  <2> QED BY <1>1, <2>1, <2>2, <2>3 DEF Sync
<1>2. CASE Control
  <2>1. CASE HaltedStep
    BY <2>1 DEF HaltedStep, EnterSync
  <2>2. CASE NoInterrupt
    BY <2>2 DEF NoInterrupt, Fetch, EnterSync
  <2>3. ASSUME NEW s \in Sources, Handle(s) PROVE SharedInv'
    BY <2>3 DEF Handle, Urgent, Wanted
  <2>4. CASE ServeRead
    BY <2>4 DEF ServeRead, Urgent, Wanted
  <2>5. CASE ServeWrite
    BY <1>0, <2>5 DEF ServeWrite, EnterSync
  <2>6. CASE FetchHandler
    BY <2>6 DEF FetchHandler, Fetch, EnterSync
  <2>7. CASE EndStep
    BY <2>7 DEF EndStep
  <2> QED BY <1>2, <2>1, <2>2, <2>3, <2>4, <2>5, <2>6, <2>7 DEF Control
<1>3. CASE Execute
  BY <1>0, <1>3 DEF Execute, Plain, EnableInterrupts, DI, HALT, WriteIF, WriteIE, EnterSync
<1>4. ASSUME NEW t \in AsyncSources, AsyncRead(t) PROVE SharedInv'
  BY <1>4 DEF AsyncRead, Urgent, Wanted
<1>5. ASSUME NEW t \in AsyncSources, AsyncWrite(t) PROVE SharedInv'
  <2>1. FreshCopies' /\ AwakeInside' /\ StaleInside'
    BY <1>0, <1>5 DEF AsyncWrite, Overtakes
  <2>2. CASE Overtakes(t)
    BY <1>0, <1>5, <2>1, <2>2 DEF AsyncWrite
  <2>3. CASE ~Overtakes(t)
    <3>1. pc \notin {"raise", "clear"}
      BY <2>3 DEF Overtakes
    <3>2. pc = "reread" /\ EmuAgent \notin stale' => Urgent(serving)'
      <4> SUFFICES ASSUME pc = "reread", EmuAgent \notin stale' PROVE Urgent(serving)'
        OBVIOUS
      <4>1. EmuAgent \notin stale /\ Urgent(serving)
        BY <1>0, <1>5 DEF AsyncWrite
      <4>2. ~(t < serving) /\ t \notin stale
        BY <2>3 DEF Overtakes
      <4>3. iflag' = iflag \cup {t} /\ ie' = ie /\ serving' = serving
        BY <1>5, <4>2 DEF AsyncWrite
      <4>4. t \in Nat /\ serving \in Nat /\ Sources \subseteq Nat
        BY SourcesAreNumbers, <4>1 DEF Urgent, Wanted, Sources
      <4> QED BY <4>1, <4>2, <4>3, <4>4 DEF Urgent, Wanted
    <3> QED BY <1>5, <2>1, <3>1, <3>2 DEF AsyncWrite
  <2> QED BY <2>2, <2>3
<1>6. CASE UNCHANGED vars
  BY <1>6 DEF vars, Urgent, Wanted
<1> QED BY <1>1, <1>2, <1>3, <1>4, <1>5, <1>6 DEF Next, EmuThread, Others

LEMMA SharedInvariant == Spec => []SharedInv
<1>1. Init => SharedInv
  BY SourceAssumption DEF Init, SharedInv, FreshLocals, FreshCopies, AwakeInside, StaleInside
<1>2. TypeOK /\ SharedInv /\ [Next]_vars => SharedInv'
  BY SharedStep
<1> QED BY <1>1, <1>2, TypeCorrect, PTL DEF Spec

LEMMA StepSimulation ==
  ASSUME TypeOK, DelayInv, SharedInv, [Next]_vars
  PROVE  [StaleWrite \/ Controller!Next]_(Controller!vars)
<1> USE DEF TypeOK, cpu, Controller!vars, Controller!Next
<1>1. CASE Sync
  <2>1. ASSUME NEW s \in EmuSources, DeviceRead(s) PROVE UNCHANGED Controller!vars
    BY <2>1 DEF DeviceRead
  <2>2. CASE DeviceWrite
    <3>1. CASE EmuAgent \in stale
      BY <2>2, <3>1 DEF StaleWrite
    <3>2. CASE EmuAgent \notin stale
      <4>1. PICK s \in EmuSources : local = iflag \cup {s}
        BY <2>2, <3>2 DEF DeviceWrite, SharedInv, FreshLocals
      <4>2. Controller!Raise(s)
        BY <2>2, <4>1 DEF DeviceWrite, EmuWrites, Controller!Raise
      <4> QED BY <4>2 DEF Sources
    <3> QED BY <3>1, <3>2
  <2>3. CASE SyncDone
    BY <2>3 DEF SyncDone
  <2> QED BY <1>1, <2>1, <2>2, <2>3 DEF Sync
<1>2. CASE Control
  <2>1. CASE HaltedStep
    BY <2>1 DEF HaltedStep, EnterSync, Wanted, Controller!Wake
  <2>2. CASE NoInterrupt
    BY <2>2 DEF NoInterrupt, Fetch, EnterSync
  <2>3. ASSUME NEW s \in Sources, Handle(s) PROVE UNCHANGED Controller!vars
    BY <2>3 DEF Handle
  <2>4. CASE ServeRead
    BY <2>4 DEF ServeRead, SharedInv, FreshLocals
  <2>5. CASE ServeWrite
    <3>1. CASE EmuAgent \in stale
      BY <2>5, <3>1 DEF StaleWrite
    <3>2. CASE EmuAgent \notin stale
      <4>1. Controller!Serve(serving)
        BY <2>5, <3>2 DEF ServeWrite, EmuWrites, EnterSync, SharedInv, FreshLocals, AwakeInside,
                    Urgent, Wanted, Controller!Serve, Controller!MostUrgent
      <4>2. serving \in Sources
        BY <2>5 DEF ServeWrite, SharedInv, FreshLocals
      <4> QED BY <4>1, <4>2
    <3> QED BY <3>1, <3>2
  <2>6. CASE FetchHandler
    BY <2>6 DEF FetchHandler, Fetch, EnterSync
  <2>7. CASE EndStep
    BY <2>7 DEF EndStep, DelayInv, Controller!Enable
  <2> QED BY <1>2, <2>1, <2>2, <2>3, <2>4, <2>5, <2>6, <2>7 DEF Control
<1>3. CASE Execute
  <2>1. CASE Plain
    BY <2>1 DEF Plain, EnterSync
  <2>2. CASE EnableInterrupts
    BY <2>2 DEF EnableInterrupts
  <2>3. CASE DI
    BY <2>3 DEF DI, SharedInv, AwakeInside, Controller!Disable
  <2>4. CASE HALT
    BY <2>4 DEF HALT, Controller!Sleep
  <2>5. ASSUME NEW v \in SUBSET Sources, WriteIF(v) PROVE Controller!Overwrite
    BY <2>5 DEF WriteIF, EmuWrites, EnterSync, SharedInv, AwakeInside, Controller!Overwrite
  <2>6. ASSUME NEW v \in SUBSET Sources, WriteIE(v) PROVE Controller!Overwrite
    BY <2>6 DEF WriteIE, EnterSync, SharedInv, AwakeInside, Controller!Overwrite
  <2> QED BY <1>3, <2>1, <2>2, <2>3, <2>4, <2>5, <2>6 DEF Execute
<1>4. ASSUME NEW t \in AsyncSources, AsyncRead(t) PROVE UNCHANGED Controller!vars
  BY <1>4 DEF AsyncRead
<1>5. ASSUME NEW t \in AsyncSources, AsyncWrite(t) PROVE StaleWrite \/ Controller!Next
  <2>1. CASE t \in stale
    BY <1>5, <2>1 DEF StaleWrite
  <2>2. CASE t \notin stale
    <3>1. Controller!Raise(t)
      BY <1>5, <2>2 DEF AsyncWrite, SharedInv, FreshCopies, Controller!Raise
    <3> QED BY <3>1 DEF Sources
  <2> QED BY <2>1, <2>2
<1>6. CASE UNCHANGED vars
  BY <1>6 DEF vars
<1> QED BY <1>1, <1>2, <1>3, <1>4, <1>5, <1>6 DEF Next, EmuThread, Others

(* But for the steps that write back a register another thread has changed  *)
(* since, the split accesses of all threads implement the atomic interrupt  *)
(* controller.                                                              *)
THEOREM RefinesController == Spec => ImplementsController
<1>1. Init => Controller!Init
  BY DEF Init, Controller!Init
<1>2. TypeOK /\ DelayInv /\ SharedInv /\ [Next]_vars
        => [StaleWrite \/ Controller!Next]_(Controller!vars)
  BY StepSimulation
<1> QED
  BY <1>1, <1>2, TypeCorrect, DelayInvariant, SharedInvariant, PTL
     DEF Spec, ImplementsController

(* With one thread only no copy is ever out of date, and the controller is  *)
(* implemented without exception.                                           *)
LEMMA OneThreadIsFresh == ASSUME AsyncSources = {} PROVE Spec => [](stale = {})
<1>1. Init => stale = {}
  BY DEF Init
<1>2. stale = {} /\ [Next]_vars => (stale = {})'
  <2> SUFFICES ASSUME stale = {}, [Next]_vars PROVE stale' = {}
    OBVIOUS
  <2>1. CASE Sync
    BY <2>1 DEF Sync, DeviceRead, DeviceWrite, SyncDone, EmuWrites
  <2>2. CASE Control
    BY <2>2 DEF Control, HaltedStep, NoInterrupt, Handle, ServeRead, ServeWrite, EmuWrites,
                FetchHandler, EndStep
  <2>3. CASE Execute
    BY <2>3 DEF Execute, Plain, EnableInterrupts, DI, HALT, WriteIF, WriteIE, EmuWrites
  <2>4. CASE Others
    BY <2>4 DEF Others
  <2>5. CASE UNCHANGED vars
    BY <2>5 DEF vars
  <2> QED BY <2>1, <2>2, <2>3, <2>4, <2>5 DEF Next, EmuThread
<1> QED BY <1>1, <1>2, PTL DEF Spec

(* If no other thread requests interrupts the emulation thread's two-access *)
(* read-modify-writes of IF implement the atomic controller exactly.        *)
THEOREM OneThreadIsAtomic == ASSUME AsyncSources = {} PROVE Spec => Controller!Spec
<1>1. stale = {} /\ [StaleWrite \/ Controller!Next]_(Controller!vars)
        => [Controller!Next]_(Controller!vars)
  BY DEF StaleWrite
<1> QED BY <1>1, RefinesController, OneThreadIsFresh, PTL DEF ImplementsController, Controller!Spec

-----------------------------------------------------------------------------
(* Arithmetic                                                               *)

Digit == 0..9

(* The digits of a number below 200.                                        *)
LEMMA TwoDigits ==
  ASSUME NEW g \in 0..19, NEW e \in Digit
  PROVE  /\ (10 * g + e) \div 10 = g
         /\ (10 * g + e) % 10 = e
         /\ (10 * g + e) \div 100 = IF g > 9 THEN 1 ELSE 0
         /\ g % 10 = IF g > 9 THEN g - 10 ELSE g
<1>1. (10 * g + e) \div 10 = g /\ (10 * g + e) % 10 = e
  BY DEF Digit
<1>2. CASE g > 9
  <2>1. (10 * g + e) \div 100 = 1 /\ g % 10 = g - 10
    BY <1>2 DEF Digit
  <2> QED BY <1>1, <1>2, <2>1
<1>3. CASE ~(g > 9)
  <2>1. (10 * g + e) \div 100 = 0 /\ g % 10 = g
    BY <1>3 DEF Digit
  <2> QED BY <1>1, <1>3, <2>1
<1> QED BY <1>2, <1>3

(* DAA after an addition, in terms of the accumulator corrected in its low  *)
(* digit.                                                                   *)
LEMMA DaaAdd ==
  ASSUME NEW a \in Byte, NEW fl, fl.n = 0, fl.c \in 0..1, NEW low \in Int,
         low = IF fl.h = 1 \/ a % 16 > 9 THEN a + 6 ELSE a
  PROVE  LET high == IF fl.c = 1 \/ low > 159 THEN low + 96 ELSE low
         IN /\ Daa(a, fl).v = high % 256
            /\ Daa(a, fl).f.c = IF (high \div 256) % 2 = 1 THEN 1 ELSE fl.c
BY DEF Daa, Result, Flags

LEMMA DaaSub ==
  ASSUME NEW a \in Byte, NEW fl, fl.n = 1, fl.c \in 0..1, NEW low \in Int,
         low = IF fl.h = 1 THEN (a - 6) % 256 ELSE a
  PROVE  LET high == IF fl.c = 1 THEN low - 96 ELSE low
         IN /\ Daa(a, fl).v = high % 256
            /\ Daa(a, fl).f.c = IF (high \div 256) % 2 = 1 THEN 1 ELSE fl.c
BY DEF Daa, Result, Flags

(* ADC followed by DAA adds decimal numbers of two digits: the result is    *)
(* their sum modulo 100 with the carry as hundreds, for both carries in.    *)
THEOREM DecimalAddition ==
  ASSUME NEW x1 \in Digit, NEW x0 \in Digit, NEW y1 \in Digit, NEW y0 \in Digit,
         NEW fl \in Flag
  PROVE  LET s == Adc(16 * x1 + x0, 16 * y1 + y0, fl)
             d == Daa(s.v, s.f)
             t == 10 * (x1 + y1) + x0 + y0 + fl.c
         IN /\ d.v = 16 * ((t \div 10) % 10) + (t % 10)
            /\ d.f.c = t \div 100
<1> DEFINE s == Adc(16 * x1 + x0, 16 * y1 + y0, fl)
           d == Daa(s.v, s.f)
           lo == x0 + y0 + fl.c
           hi == x1 + y1
           t == 10 * (x1 + y1) + x0 + y0 + fl.c
<1> SUFFICES d.v = 16 * ((t \div 10) % 10) + (t % 10) /\ d.f.c = t \div 100
  OBVIOUS
<1>1. fl.c \in 0..1 /\ lo \in 0..19 /\ hi \in 0..18 /\ t = 10 * hi + lo
  BY DEF Flag, Digit
<1>2. /\ s.v = (16 * hi + lo) % 256
      /\ s.f.n = 0
      /\ s.f.h = Bool(lo > 15)
      /\ s.f.c = Bool(16 * hi + lo > 255)
  <2>1. (16 * x1 + x0) % 16 = x0 /\ (16 * y1 + y0) % 16 = y0
    BY DEF Digit
  <2>2. (16 * x1 + x0) + (16 * y1 + y0) + fl.c = 16 * hi + lo
    BY <1>1 DEF Digit
  <2>3. ((16 * x1 + x0) % 16) + ((16 * y1 + y0) % 16) + fl.c = lo
    BY <1>1, <2>1 DEF Digit
  <2> QED BY <2>2, <2>3 DEF Adc, AddBytes, Result, Flags
<1> HIDE DEF s, d, lo, hi, t
<1>3. PICK k \in 0..1 : (k = 1 <=> lo > 9)
  <2>1. CASE lo > 9 BY <2>1
  <2>2. CASE ~(lo > 9) BY <2>2
  <2> QED BY <2>1, <2>2
<1>4. PICK e \in 0..9, g \in 0..19 : e = lo - 10 * k /\ g = hi + k
  BY <1>1, <1>3
<1>5. 16 * hi + lo + 6 * k = 16 * g + e /\ t = 10 * g + e
  BY <1>1, <1>3, <1>4
<1>6. s.v \in Byte /\ s.f.c \in 0..1
  BY <1>1, <1>2 DEF Byte, Bool
<1>7. s.f.h = 1 \/ s.v % 16 > 9 <=> k = 1
  BY <1>1, <1>2, <1>3 DEF Bool
<1> DEFINE low == s.v + 6 * k
<1>8. low \in Int /\ low = IF s.f.h = 1 \/ s.v % 16 > 9 THEN s.v + 6 ELSE s.v
  BY <1>6, <1>7, <1>3 DEF Byte
<1> DEFINE high == IF s.f.c = 1 \/ low > 159 THEN low + 96 ELSE low
<1>9. d.v = high % 256 /\ d.f.c = IF (high \div 256) % 2 = 1 THEN 1 ELSE s.f.c
  BY <1>2, <1>6, <1>8, DaaAdd DEF d
<1> HIDE DEF low, high
<1>10. CASE 16 * hi + lo > 255
  <2>1. s.v = 16 * hi + lo - 256 /\ s.f.c = 1
    BY <1>1, <1>2, <1>10 DEF Bool
  <2>2. g \in 15..19
    BY <1>1, <1>3, <1>4, <1>10
  <2>3. high = 16 * (g - 10) + e
    BY <1>1, <1>3, <1>4, <1>5, <2>1 DEF low, high
  <2>4. high % 256 = high /\ high \div 256 = 0
    BY <1>4, <2>2, <2>3
  <2>5. t \div 100 = 1 /\ (t \div 10) % 10 = g - 10 /\ t % 10 = e
    BY <1>4, <1>5, <2>2, TwoDigits DEF Digit
  <2> QED BY <1>9, <2>1, <2>3, <2>4, <2>5
<1>11. CASE ~(16 * hi + lo > 255)
  <2>1. s.v = 16 * hi + lo /\ s.f.c = 0
    BY <1>1, <1>2, <1>11 DEF Bool
  <2>2. low = 16 * g + e /\ low < 262
    BY <1>1, <1>3, <1>5, <1>11, <2>1 DEF low
  <2>3. CASE g > 9
    <3>1. high = 16 * g + e + 96
      BY <1>4, <2>2, <2>3 DEF high
    <3>2. high % 256 = 16 * (g - 10) + e /\ high \div 256 = 1
      BY <1>4, <2>2, <2>3, <3>1
    <3>3. t \div 100 = 1 /\ (t \div 10) % 10 = g - 10 /\ t % 10 = e
      BY <1>4, <1>5, <2>3, TwoDigits DEF Digit
    <3> QED BY <1>9, <3>2, <3>3
  <2>4. CASE ~(g > 9)
    <3>1. high = 16 * g + e
      BY <1>4, <2>1, <2>2, <2>4 DEF high
    <3>2. high % 256 = high /\ high \div 256 = 0
      BY <1>4, <2>4, <3>1
    <3>3. t \div 100 = 0 /\ (t \div 10) % 10 = g /\ t % 10 = e
      <4>1. t = 10 * g + e /\ e \in Digit
        BY <1>4, <1>5 DEF Digit
      <4>2. t \div 10 = g /\ t % 10 = e /\ t \div 100 = 0 /\ g % 10 = g
        BY <2>4, <4>1, TwoDigits
      <4> QED BY <4>2
    <3> QED BY <1>9, <2>1, <3>1, <3>2, <3>3
  <2> QED BY <2>3, <2>4
<1> QED BY <1>10, <1>11

(* SBC followed by DAA subtracts decimal numbers of two digits: the result  *)
(* is their difference modulo 100 and the carry is the borrow.              *)
THEOREM DecimalSubtraction ==
  ASSUME NEW x1 \in Digit, NEW x0 \in Digit, NEW y1 \in Digit, NEW y0 \in Digit,
         NEW fl \in Flag
  PROVE  LET s == Sbc(16 * x1 + x0, 16 * y1 + y0, fl)
             d == Daa(s.v, s.f)
             t == 10 * (x1 - y1) + x0 - y0 - fl.c
         IN /\ d.v = 16 * ((t % 100) \div 10) + (t % 10)
            /\ d.f.c = Bool(t < 0)
<1> DEFINE s == Sbc(16 * x1 + x0, 16 * y1 + y0, fl)
           d == Daa(s.v, s.f)
           lo == x0 - y0 - fl.c
           hi == x1 - y1
           t == 10 * (x1 - y1) + x0 - y0 - fl.c
<1> SUFFICES d.v = 16 * ((t % 100) \div 10) + (t % 10) /\ d.f.c = Bool(t < 0)
  OBVIOUS
<1>1. fl.c \in 0..1 /\ lo \in -10..9 /\ hi \in -9..9 /\ t = 10 * hi + lo
  BY DEF Flag, Digit
<1>2. /\ s.v = (16 * hi + lo) % 256
      /\ s.f.n = 1
      /\ s.f.h = Bool(lo < 0)
      /\ s.f.c = Bool(16 * hi + lo < 0)
  <2>1. (16 * x1 + x0) % 16 = x0 /\ (16 * y1 + y0) % 16 = y0
    BY DEF Digit
  <2>2. (16 * x1 + x0) - (16 * y1 + y0) - fl.c = 16 * hi + lo
    BY <1>1 DEF Digit
  <2>3. ((16 * x1 + x0) % 16) - ((16 * y1 + y0) % 16) - fl.c = lo
    BY <1>1, <2>1 DEF Digit
  <2>4. 16 * x1 + x0 < (16 * y1 + y0) + fl.c <=> 16 * hi + lo < 0
    BY <1>1 DEF Digit
  <2> QED BY <2>2, <2>3, <2>4 DEF Sbc, Result, Flags, Bool
<1> HIDE DEF s, d, lo, hi, t
<1>3. PICK k \in 0..1 : (k = 1 <=> lo < 0)
  <2>1. CASE lo < 0 BY <2>1
  <2>2. CASE ~(lo < 0) BY <2>2
  <2> QED BY <2>1, <2>2
<1>4. PICK e \in 0..9, g \in -10..9 : e = lo + 10 * k /\ g = hi - k
  BY <1>1, <1>3
<1>5. 16 * hi + lo - 6 * k = 16 * g + e /\ t = 10 * g + e
  BY <1>1, <1>3, <1>4
<1>6. s.v \in Byte /\ s.f.c \in 0..1 /\ (s.f.h = 1 <=> k = 1) /\ (s.f.c = 1 <=> g < 0)
  BY <1>1, <1>2, <1>3, <1>4 DEF Byte, Bool
<1> DEFINE low == (16 * g + e) % 256
           high == IF s.f.c = 1 THEN low - 96 ELSE low
<1>7. low \in Int /\ low = IF s.f.h = 1 THEN (s.v - 6) % 256 ELSE s.v
  BY <1>1, <1>2, <1>3, <1>4, <1>5, <1>6
<1>8. d.v = high % 256 /\ d.f.c = IF (high \div 256) % 2 = 1 THEN 1 ELSE s.f.c
  BY <1>2, <1>6, <1>7, DaaSub DEF d
<1> HIDE DEF low, high
<1>9. CASE g < 0
  <2>1. low = 16 * g + e + 256
    BY <1>4, <1>9 DEF low
  <2>2. high = 16 * (g + 10) + e /\ s.f.c = 1
    BY <1>4, <1>6, <1>9, <2>1 DEF high
  <2>3. high % 256 = high /\ high \div 256 = 0
    BY <1>4, <1>9, <2>2
  <2>4. t % 100 = 10 * (g + 10) + e /\ t % 10 = e /\ t < 0
    <3>1. (10 * g + e) % 100 = 10 * (g + 10) + e
      BY <1>4, <1>9
    <3>2. (10 * g + e) % 10 = e /\ 10 * g + e < 0
      BY <1>4, <1>9
    <3> QED BY <1>5, <3>1, <3>2
  <2>5. (10 * (g + 10) + e) \div 10 = g + 10
    BY <1>4, <1>9
  <2> QED BY <1>8, <2>2, <2>3, <2>4, <2>5 DEF Bool
<1>10. CASE ~(g < 0)
  <2>1. low = 16 * g + e
    BY <1>4, <1>10 DEF low
  <2>2. high = 16 * g + e /\ s.f.c = 0
    BY <1>4, <1>6, <1>10, <2>1 DEF high
  <2>3. high % 256 = high /\ high \div 256 = 0
    BY <1>4, <1>10, <2>2
  <2>4. t % 100 = 10 * g + e /\ t % 10 = e /\ ~(t < 0)
    <3>1. (10 * g + e) % 100 = 10 * g + e
      BY <1>4, <1>10
    <3>2. (10 * g + e) % 10 = e /\ ~(10 * g + e < 0)
      BY <1>4, <1>10
    <3> QED BY <1>5, <3>1, <3>2
  <2>5. (10 * g + e) \div 10 = g
    BY <1>4, <1>10
  <2> QED BY <1>8, <2>2, <2>3, <2>4, <2>5 DEF Bool
<1> QED BY <1>9, <1>10

(* ADD on the low bytes and ADC on the high bytes is ADD HL,rr: the same    *)
(* sum, and the same H and C after the second addition.                     *)
THEOREM WideAddition ==
  ASSUME NEW h \in Byte, NEW l \in Byte, NEW d \in Byte, NEW e \in Byte, NEW fl \in Flag
  PROVE  LET low == Add(l, e, fl)
             hi  == Adc(h, d, low.f)
             w   == AddHL(256 * h + l, 256 * d + e, fl)
         IN /\ w.v = 256 * hi.v + low.v
            /\ w.f.h = hi.f.h
            /\ w.f.c = hi.f.c
<1> DEFINE c == Bool(l + e > 255)
           low == Add(l, e, fl)
           hi  == Adc(h, d, low.f)
           w   == AddHL(256 * h + l, 256 * d + e, fl)
<1>1. /\ low.v = (l + e) % 256 /\ low.f.c = c
      /\ c \in 0..1 /\ l + e = 256 * c + ((l + e) % 256)
  <2>1. l + e + 0 = l + e /\ (l % 16) + (e % 16) + 0 = (l % 16) + (e % 16)
    BY DEF Byte
  <2>2. low.v = (l + e) % 256 /\ low.f.c = c
    BY <2>1 DEF Add, AddBytes, Result, Flags
  <2> HIDE DEF low
  <2>3. CASE l + e > 255
    <3>1. c = 1
      BY <2>3 DEF Bool
    <3> HIDE DEF c
    <3>2. (l + e) % 256 = l + e - 256
      BY <2>3 DEF Byte
    <3> QED BY <2>2, <3>1, <3>2 DEF Byte
  <2>4. CASE ~(l + e > 255)
    <3>1. c = 0
      BY <2>4 DEF Bool
    <3> HIDE DEF c
    <3>2. (l + e) % 256 = l + e
      BY <2>4 DEF Byte
    <3> QED BY <2>2, <3>1, <3>2 DEF Byte
  <2> QED BY <2>3, <2>4
<1>2. /\ hi.v = (h + d + c) % 256
      /\ hi.f.h = Bool((h % 16) + (d % 16) + c > 15)
      /\ hi.f.c = Bool(h + d + c > 255)
  BY <1>1 DEF Adc, AddBytes, Result, Flags
<1>3. /\ w.v = ((256 * h + l) + (256 * d + e)) % 65536
      /\ w.f.h = Bool(((256 * h + l) % 4096) + ((256 * d + e) % 4096) > 4095)
      /\ w.f.c = Bool((256 * h + l) + (256 * d + e) > 65535)
  BY DEF AddHL, Result, Flags
<1> HIDE DEF c, low, hi, w
<1> DEFINE v == (l + e) % 256
<1>v. v \in 0..255 /\ l + e = 256 * c + v /\ low.v = v
  BY <1>1 DEF Byte
<1> HIDE DEF v
<1>4. (256 * h + l) + (256 * d + e) = 256 * (h + d + c) + v
  BY <1>1, <1>v DEF Byte
<1>5. (256 * (h + d + c) + v) % 65536 = 256 * ((h + d + c) % 256) + v
  BY <1>1, <1>v DEF Byte
<1>6. (256 * h + l) + (256 * d + e) > 65535 <=> h + d + c > 255
  BY <1>1, <1>v, <1>4 DEF Byte
<1>7. (256 * h + l) % 4096 = 256 * (h % 16) + l /\ (256 * d + e) % 4096 = 256 * (d % 16) + e
  BY DEF Byte
<1>8. ((256 * h + l) % 4096) + ((256 * d + e) % 4096) > 4095 <=> (h % 16) + (d % 16) + c > 15
  BY <1>1, <1>v, <1>7 DEF Byte
<1>9. w.v = 256 * hi.v + low.v
  BY <1>v, <1>2, <1>3, <1>4, <1>5
<1>10. w.f.h = hi.f.h /\ w.f.c = hi.f.c
  BY <1>2, <1>3, <1>6, <1>8 DEF Bool
<1> QED BY <1>9, <1>10 DEF low, hi, w

-----------------------------------------------------------------------------
(* The code *)

(* Where each routine begins: RST and CALL name these addresses. *)
LEMMA Addresses ==
  /\ HexAt = 258 /\ MulAt = 269 /\ DivAt = 281 /\ SumAt = 292 /\ DiffAt = 301 /\ AbsAt = 312
  /\ ReverseAt = 322 /\ FrameAt = 329 /\ HalfAt = 341 /\ CopyAt = 344 /\ MCHandler = 369
<1>1. HexAt = 258 /\ Len(HexCode) = 11
  BY DEF HexAt, Base, HexCode
<1>2. MulAt = 269 /\ Len(MulCode) = 12
  BY <1>1 DEF MulAt, MulCode
<1>3. DivAt = 281 /\ Len(DivCode) = 11
  BY <1>2 DEF DivAt, DivCode
<1>4. SumAt = 292 /\ Len(SumCode) = 9
  BY <1>3 DEF SumAt, SumCode
<1>5. DiffAt = 301 /\ Len(DiffCode) = 11
  BY <1>4 DEF DiffAt, DiffCode
<1>6. AbsAt = 312 /\ Len(AbsCode) = 10
  BY <1>5 DEF AbsAt, AbsCode
<1>7. ReverseAt = 322 /\ Len(ReverseCode) = 7
  BY <1>6 DEF ReverseAt, ReverseCode
<1>8. FrameAt = 329 /\ Len(FrameCode) = 12
  BY <1>7 DEF FrameAt, FrameCode
<1>9. HalfAt = 341 /\ Len(HalfCode) = 3
  BY <1>8 DEF HalfAt, HalfCode
<1>10. CopyAt = 344 /\ Len(CopyCode) = 25
  BY <1>9 DEF CopyAt, CopyCode
<1>11. MCHandler = 369
  BY <1>10 DEF MCHandler
<1> QED BY <1>1, <1>2, <1>3, <1>4, <1>5, <1>6, <1>7, <1>8, <1>9, <1>10, <1>11

(* How many instructions each has *)
LEMMA Lengths ==
  /\ Len(Main) = 22 /\ Len(HexCode) = 11 /\ Len(MulCode) = 12 /\ Len(DivCode) = 11
  /\ Len(SumCode) = 9 /\ Len(DiffCode) = 11 /\ Len(AbsCode) = 10 /\ Len(ReverseCode) = 7
  /\ Len(FrameCode) = 12 /\ Len(HalfCode) = 3 /\ Len(CopyCode) = 25 /\ Len(HandlerCode) = 10
<1>1. Len(Main) = 22 BY DEF Main
<1>2. Len(HexCode) = 11 BY DEF HexCode
<1>3. Len(MulCode) = 12 BY DEF MulCode
<1>4. Len(DivCode) = 11 BY DEF DivCode
<1>5. Len(SumCode) = 9 BY DEF SumCode
<1>6. Len(DiffCode) = 11 BY DEF DiffCode
<1>7. Len(AbsCode) = 10 BY DEF AbsCode
<1>8. Len(ReverseCode) = 7 BY DEF ReverseCode
<1>9. Len(FrameCode) = 12 BY DEF FrameCode
<1>10. Len(HalfCode) = 3 BY DEF HalfCode
<1>11. Len(CopyCode) = 25 BY DEF CopyCode
<1>12. Len(HandlerCode) = 10 BY DEF HandlerCode
<1> QED BY <1>1, <1>2, <1>3, <1>4, <1>5, <1>6, <1>7, <1>8, <1>9, <1>10, <1>11, <1>12

(* s begins with t: what is appended later does not change it *)
LEMMA Appended ==
  ASSUME NEW S, NEW s \in Seq(S), NEW t \in Seq(S)
  PROVE  /\ s \o t \in Seq(S) /\ Len(s \o t) = Len(s) + Len(t)
         /\ \A k \in 1..Len(s) : (s \o t)[k] = s[k]
         /\ \A i \in 1..Len(t) : (s \o t)[Len(s) + i] = t[i]
OBVIOUS

Holds(s, at, t) == at + Len(t) - 1 <= Len(s) /\ \A i \in 1..Len(t) : s[at - 1 + i] = t[i]

LEMMA Extended ==
  ASSUME NEW S, NEW s \in Seq(S), NEW u \in Seq(S)
  PROVE /\ s \o u \in Seq(S) /\ Len(s \o u) = Len(s) + Len(u)
        /\ Holds(s \o u, Len(s) + 1, u)
        /\ \A at \in Nat \ {0} : \A t \in Seq(S) : Holds(s, at, t) => Holds(s \o u, at, t)
<1>1. /\ s \o u \in Seq(S) /\ Len(s \o u) = Len(s) + Len(u)
      /\ \A k \in 1..Len(s) : (s \o u)[k] = s[k]
      /\ \A i \in 1..Len(u) : (s \o u)[Len(s) + i] = u[i]
  BY Appended
<1>2. Len(s) \in Nat /\ Len(u) \in Nat
  OBVIOUS
<1>3. Holds(s \o u, Len(s) + 1, u)
  BY <1>1, <1>2 DEF Holds
<1>4. ASSUME NEW at \in Nat \ {0}, NEW t \in Seq(S), Holds(s, at, t) PROVE Holds(s \o u, at, t)
  BY <1>1, <1>2, <1>4 DEF Holds
<1> QED BY <1>1, <1>3, <1>4

Texts == {Main, HexCode, MulCode, DivCode, SumCode, DiffCode, AbsCode, ReverseCode, FrameCode,
          HalfCode, CopyCode, HandlerCode}

Instructions == {Op("NOP")} \cup UNION {{t[i] : i \in 1..Len(t)} : t \in Texts}

LEMMA TextsAreCode == \A t \in Texts : t \in Seq(Instructions)
<1>1. ASSUME NEW t \in Texts, t = [i \in 1..Len(t) |-> t[i]], Len(t) \in Nat
      PROVE  t \in Seq(Instructions)
  <2>1. \A i \in 1..Len(t) : t[i] \in Instructions
    BY DEF Instructions
  <2> QED BY <1>1, <2>1
<1>2. \A t \in Texts : t = [i \in 1..Len(t) |-> t[i]] /\ Len(t) \in Nat
  <2>1. \A t \in {Main, HexCode, MulCode} : t = [i \in 1..Len(t) |-> t[i]] /\ Len(t) \in Nat
    BY DEF Main, HexCode, MulCode
  <2>2. \A t \in {DivCode, SumCode, DiffCode, AbsCode} : t = [i \in 1..Len(t) |-> t[i]] /\ Len(t) \in Nat
    BY DEF DivCode, SumCode, DiffCode, AbsCode
  <2>3. \A t \in {ReverseCode, FrameCode, HalfCode} : t = [i \in 1..Len(t) |-> t[i]] /\ Len(t) \in Nat
    BY DEF ReverseCode, FrameCode, HalfCode
  <2>4. \A t \in {CopyCode, HandlerCode} : t = [i \in 1..Len(t) |-> t[i]] /\ Len(t) \in Nat
    BY DEF CopyCode, HandlerCode
  <2> QED BY <2>1, <2>2, <2>3, <2>4 DEF Texts
<1> QED BY <1>1, <1>2

Parts == <<Main, HexCode, MulCode, DivCode, SumCode, DiffCode, AbsCode, ReverseCode, FrameCode,
           HalfCode, CopyCode, HandlerCode>>

Places == <<236, 258, 269, 281, 292, 301, 312, 322, 329, 341, 344, 369, 379>>

Laid(s, n) ==
  /\ s \in Seq(Instructions) /\ Len(s) + 1 = Places[n + 1]
  /\ \A k \in 1..n : Holds(s, Places[k], Parts[k])

LEMMA PlacesFollow ==
  ASSUME NEW k \in 1..12
  PROVE  /\ Places[k] \in Nat \ {0} /\ Places[k + 1] = Places[k] + Len(Parts[k])
         /\ Parts[k] \in Seq(Instructions)
<1>1. Parts[k] \in Texts
  BY DEF Parts, Texts
<1>2. Places[k] \in Nat \ {0}
  BY DEF Places
<1>3. Places[k + 1] = Places[k] + Len(Parts[k])
  <2>1. /\ Places[1] = 236 /\ Places[2] = 258 /\ Places[3] = 269 /\ Places[4] = 281
        /\ Places[5] = 292 /\ Places[6] = 301 /\ Places[7] = 312 /\ Places[8] = 322
        /\ Places[9] = 329 /\ Places[10] = 341 /\ Places[11] = 344 /\ Places[12] = 369
        /\ Places[13] = 379
    BY DEF Places
  <2>2. /\ Parts[1] = Main /\ Parts[2] = HexCode /\ Parts[3] = MulCode /\ Parts[4] = DivCode
        /\ Parts[5] = SumCode /\ Parts[6] = DiffCode /\ Parts[7] = AbsCode /\ Parts[8] = ReverseCode
        /\ Parts[9] = FrameCode /\ Parts[10] = HalfCode /\ Parts[11] = CopyCode /\ Parts[12] = HandlerCode
    BY DEF Parts
  <2>3. k \in {1, 2, 3, 4, 5, 6, 7, 8, 9, 10, 11, 12}
    OBVIOUS
  <2>4. /\ Places[2] = Places[1] + Len(Parts[1])
        /\ Places[3] = Places[2] + Len(Parts[2])
        /\ Places[4] = Places[3] + Len(Parts[3])
        /\ Places[5] = Places[4] + Len(Parts[4])
        /\ Places[6] = Places[5] + Len(Parts[5])
        /\ Places[7] = Places[6] + Len(Parts[6])
        /\ Places[8] = Places[7] + Len(Parts[7])
        /\ Places[9] = Places[8] + Len(Parts[8])
        /\ Places[10] = Places[9] + Len(Parts[9])
        /\ Places[11] = Places[10] + Len(Parts[10])
        /\ Places[12] = Places[11] + Len(Parts[11])
        /\ Places[13] = Places[12] + Len(Parts[12])
    BY <2>1, <2>2, Lengths
  <2> QED
    <3>1. CASE k = 1
      BY <2>4, <3>1
    <3>2. CASE k = 2
      BY <2>4, <3>2
    <3>3. CASE k = 3
      BY <2>4, <3>3
    <3>4. CASE k = 4
      BY <2>4, <3>4
    <3>5. CASE k = 5
      BY <2>4, <3>5
    <3>6. CASE k = 6
      BY <2>4, <3>6
    <3>7. CASE k = 7
      BY <2>4, <3>7
    <3>8. CASE k = 8
      BY <2>4, <3>8
    <3>9. CASE k = 9
      BY <2>4, <3>9
    <3>10. CASE k = 10
      BY <2>4, <3>10
    <3>11. CASE k = 11
      BY <2>4, <3>11
    <3>12. CASE k = 12
      BY <2>4, <3>12
    <3> QED BY <2>3, <3>1, <3>2, <3>3, <3>4, <3>5, <3>6, <3>7, <3>8, <3>9, <3>10, <3>11, <3>12
<1> QED BY <1>1, <1>2, <1>3, TextsAreCode

LEMMA OneMore ==
  ASSUME NEW s, NEW n \in 0..11, Laid(s, n)
  PROVE  Laid(s \o Parts[n + 1], n + 1)
<1> DEFINE u == Parts[n + 1]
           r == s \o u
<1>1. /\ \A k \in 1..n + 1 : Places[k] \in Nat \ {0} /\ Parts[k] \in Seq(Instructions)
      /\ Places[n + 1] \in Nat /\ Places[n + 2] = Places[n + 1] + Len(u)
  <2>1. n + 1 \in 1..12 /\ n + 1 + 1 = n + 2 /\ \A k \in 1..n + 1 : k \in 1..12
    OBVIOUS
  <2> QED BY <2>1, PlacesFollow
<1>2. s \in Seq(Instructions) /\ u \in Seq(Instructions) /\ Len(s) + 1 = Places[n + 1]
      /\ \A k \in 1..n : Holds(s, Places[k], Parts[k])
  BY <1>1 DEF Laid
<1> HIDE DEF u
<1>3. /\ r \in Seq(Instructions) /\ Len(r) = Len(s) + Len(u)
      /\ Holds(r, Len(s) + 1, u)
      /\ \A at \in Nat \ {0} : \A t \in Seq(Instructions) : Holds(s, at, t) => Holds(r, at, t)
  BY <1>2, Extended
<1> HIDE DEF r
<1>4. Len(r) + 1 = Places[n + 2] /\ n + 1 + 1 = n + 2
  <2>1. Len(s) \in Nat /\ Len(u) \in Nat
    BY <1>2
  <2> QED BY <1>1, <1>2, <1>3, <2>1
<1>5. ASSUME NEW k \in 1..n PROVE Holds(r, Places[k], Parts[k])
  <2>1. k \in 1..n + 1
    OBVIOUS
  <2> QED BY <1>1, <1>2, <1>3, <2>1
<1>6. \A k \in 1..n + 1 : Holds(r, Places[k], Parts[k])
  <2>1. \A k \in 1..n + 1 : k \in 1..n \/ k = n + 1
    OBVIOUS
  <2> QED BY <1>2, <1>3, <1>5, <2>1 DEF u
<1>7. Laid(r, n + 1)
  BY <1>3, <1>4, <1>6 DEF Laid
<1> QED BY <1>7 DEF r, u

(* The routines lie where Places says. *)
LEMMA CodeIs == \A k \in 1..12 : Holds(Code, Places[k], Parts[k])
<1> DEFINE r0 == [x \in 1..Base |-> Op("NOP")]
<1>1. Laid(r0, 0)
  BY DEF Laid, Base, Instructions, Places
<1> HIDE DEF r0
<1>2. Laid(r0 \o Main \o HexCode \o MulCode, 3)
  BY <1>1, OneMore DEF Parts
<1>3. Laid(r0 \o Main \o HexCode \o MulCode \o DivCode \o SumCode \o DiffCode, 6)
  BY <1>2, OneMore DEF Parts
<1>4. Laid(r0 \o Main \o HexCode \o MulCode \o DivCode \o SumCode \o DiffCode
           \o AbsCode \o ReverseCode \o FrameCode, 9)
  BY <1>3, OneMore DEF Parts
<1>5. Laid(Rom, 12)
  BY <1>4, OneMore DEF Parts, Rom, r0
<1> QED BY <1>5, RoutineAssumption DEF Laid, MCCode

-----------------------------------------------------------------------------
(* The types of the machine, and words on its stack                         *)

MachineTyped ==
  /\ reg \in [Reg8 -> Byte] /\ f \in Flag /\ mem \in [MCCells -> Byte] /\ start.reg \in [Reg8 -> Byte]

LEMMA Cells16 == /\ \A x \in 0..15 : x \in MCCells
                 /\ Count = 65408 /\ Count \in MCCells /\ Count + 1 \in MCCells /\ Count + 2 \in MCCells

BY DEF MCCells, Count

(* hi and lo are now on top of the stack, nothing else changed in memory *)
OnStack(hi, lo) ==
  /\ sp' = sp - 2 /\ mem' \in [MCCells -> Byte] /\ mem'[sp - 1] = hi /\ mem'[sp - 2] = lo
  /\ \A x \in MCCells : x # sp - 1 /\ x # sp - 2 => mem'[x] = mem[x]

(* PUSH, CALL, RST and an interrupt: the two bytes below the stack *)
LEMMA Pushed ==
  ASSUME NEW hi \in Byte, NEW lo \in Byte, sp \in 2..16, mem \in [MCCells -> Byte],
         PushWord(hi, lo)
  PROVE  OnStack(hi, lo)
<1>1. (sp - 1) % 65536 = sp - 1 /\ (sp - 2) % 65536 = sp - 2
  OBVIOUS
<1>2. sp - 1 \in MCCells /\ sp - 2 \in MCCells /\ sp - 1 # sp - 2
  BY Cells16
<1>3. \A p, q \in MCCells : mem' = [mem EXCEPT ![p] = hi, ![q] = lo] /\ p # q =>
        /\ mem' \in [MCCells -> Byte] /\ mem'[p] = hi /\ mem'[q] = lo
        /\ \A x \in MCCells : x # p /\ x # q => mem'[x] = mem[x]
  OBVIOUS
<1>4. mem' = [mem EXCEPT ![(sp - 1) % 65536] = hi, ![(sp - 2) % 65536] = lo] /\ sp' = (sp - 2) % 65536
  BY DEF PushWord
<1> QED BY <1>1, <1>2, <1>3, <1>4 DEF OnStack

LEMMA WordOf ==
  ASSUME NEW hi \in Byte, NEW lo \in Byte
  PROVE  (lo + 256 * hi) \div 256 = hi /\ (lo + 256 * hi) % 256 = lo
BY DEF Byte

(* POP, RET and RETI read back the two bytes. *)
LEMMA PoppedIs ==
  ASSUME sp \in 0..14, mem \in [MCCells -> Byte]
  PROVE  /\ Popped = mem[sp] + 256 * mem[sp + 1] /\ (sp + 2) % 65536 = sp + 2
         /\ Popped \div 256 = mem[sp + 1] /\ Popped % 256 = mem[sp]
         /\ mem[sp] \in Byte /\ mem[sp + 1] \in Byte
<1>1. (sp + 1) % 65536 = sp + 1 /\ (sp + 2) % 65536 = sp + 2
  OBVIOUS
<1>2. mem[sp] \in Byte /\ mem[sp + 1] \in Byte
  BY Cells16
<1>3. Popped = mem[sp] + 256 * mem[sp + 1]
  BY <1>1 DEF Popped
<1> HIDE DEF Popped
<1> QED BY <1>1, <1>2, <1>3, WordOf

-----------------------------------------------------------------------------
(* Which action an instruction is                                           *)

(* The operation tells which action an instruction is. *)
LEMMA Operations ==
  ASSUME Instruction
  PROVE
    /\ I.op = "LD" => LoadByte
    /\ I.op = "LD16" => LoadWord
    /\ I.op = "LDA_" => LoadA
    /\ I.op = "LD_A" => StoreA
    /\ I.op = "LD_SP" => StoreSP
    /\ I.op = "LDA" => LoadStep
    /\ I.op = "STA" => StoreStep
    /\ I.op = "LDHLSP" => LoadHLSP
    /\ I.op = "LDSPHL" => LoadSPHL
    /\ I.op \in {"ADD", "ADC", "SUB", "SBC", "AND", "XOR", "OR", "CP"} => Accumulate
    /\ I.op \in {"DAA", "CPL", "SCF", "CCF"} => Adjust
    /\ I.op \in {"INC", "DEC"} => CountByte
    /\ I.op \in {"INC16", "DEC16"} => CountWord
    /\ I.op = "ADDHL" => AddWord
    /\ I.op = "ADDSP" => AddToSP
    /\ I.op \in {"RLCA", "RRCA", "RLA", "RRA"} => RotateA
    /\ I.op \in {"RLC", "RRC", "RL", "RR", "SLA", "SRA", "SWAP", "SRL", "RES", "SET"} => CB
    /\ I.op = "BIT" => Bit
    /\ I.op = "PUSH" => Push
    /\ I.op = "POP" => Pop
    /\ I.op = "JR" => JumpRelative
    /\ I.op = "JP" => Jump
    /\ I.op = "JPHL" => JumpHL
    /\ I.op = "CALL" => Call
    /\ I.op = "RST" => Restart
    /\ I.op = "RET" => Return
    /\ I.op = "RETI" => ReturnFromInterrupt
<1>1. LoadByte => I.op = "LD"
  BY DEF LoadByte, Decoded
<1>2. LoadWord => I.op = "LD16"
  BY DEF LoadWord, Decoded
<1>3. LoadA => I.op = "LDA_"
  BY DEF LoadA, Decoded
<1>4. StoreA => I.op = "LD_A"
  BY DEF StoreA, Decoded
<1>5. StoreSP => I.op = "LD_SP"
  BY DEF StoreSP, Decoded
<1>6. LoadStep => I.op = "LDA"
  BY DEF LoadStep, Decoded
<1>7. StoreStep => I.op = "STA"
  BY DEF StoreStep, Decoded
<1>8. LoadHLSP => I.op = "LDHLSP"
  BY DEF LoadHLSP, Decoded
<1>9. LoadSPHL => I.op = "LDSPHL"
  BY DEF LoadSPHL, Decoded
<1>10. Accumulate => I.op \in {"ADD", "ADC", "SUB", "SBC", "AND", "XOR", "OR", "CP"}
  BY DEF Accumulate, Decoded
<1>11. Adjust => I.op \in {"DAA", "CPL", "SCF", "CCF"}
  BY DEF Adjust, Decoded
<1>12. CountByte => I.op \in {"INC", "DEC"}
  BY DEF CountByte, Decoded
<1>13. CountWord => I.op \in {"INC16", "DEC16"}
  BY DEF CountWord, Decoded
<1>14. AddWord => I.op = "ADDHL"
  BY DEF AddWord, Decoded
<1>15. AddToSP => I.op = "ADDSP"
  BY DEF AddToSP, Decoded
<1>16. RotateA => I.op \in {"RLCA", "RRCA", "RLA", "RRA"}
  BY DEF RotateA, Decoded
<1>17. CB => I.op \in {"RLC", "RRC", "RL", "RR", "SLA", "SRA", "SWAP", "SRL", "RES", "SET"}
  BY DEF CB, Decoded
<1>18. Bit => I.op = "BIT"
  BY DEF Bit, Decoded
<1>19. Push => I.op = "PUSH"
  BY DEF Push, Decoded
<1>20. Pop => I.op = "POP"
  BY DEF Pop, Decoded
<1>21. JumpRelative => I.op = "JR"
  BY DEF JumpRelative, Decoded
<1>22. Jump => I.op = "JP"
  BY DEF Jump, Decoded
<1>23. JumpHL => I.op = "JPHL"
  BY DEF JumpHL, Decoded
<1>24. Call => I.op = "CALL"
  BY DEF Call, Decoded
<1>25. Restart => I.op = "RST"
  BY DEF Restart, Decoded
<1>26. Return => I.op = "RET"
  BY DEF Return, Decoded
<1>27. ReturnFromInterrupt => I.op = "RETI"
  BY DEF ReturnFromInterrupt, Decoded
<1> QED BY <1>1, <1>2, <1>3, <1>4, <1>5, <1>6, <1>7, <1>8, <1>9, <1>10, <1>11, <1>12, <1>13, <1>14, <1>15, <1>16, <1>17, <1>18, <1>19, <1>20, <1>21, <1>22, <1>23, <1>24, <1>25, <1>26, <1>27 DEF Instruction

-----------------------------------------------------------------------------
(* What the instructions do *)

(* a result of the arithmetic is a byte and flags *)
Fine(r) == r.v \in Byte /\ r.f \in Flag

Goes(to) == ip' = to /\ UNCHANGED <<master, irqs, start>>
Onward == Goes((ip + 1) % 65536)

LEMMA OnwardIs == Next1 /\ UNCHANGED <<master, irqs, start>> => Onward
BY DEF Onward, Goes, Next1

(* A word is its two bytes. *)
LEMMA WordHalves ==
  ASSUME NEW w \in Nat, w < 65536
  PROVE  w % 256 \in Byte /\ w \div 256 \in Byte /\ w = 256 * (w \div 256) + (w % 256)
<1>1. w = 256 * (w \div 256) + (w % 256)
  OBVIOUS
<1>2. w % 256 \in Byte
  BY DEF Byte
<1>3. w \div 256 \in Byte
  BY DEF Byte
<1> QED BY <1>1, <1>2, <1>3

LEMMA BoolIs == /\ Bool(TRUE) = 1 /\ Bool(FALSE) = 0 /\ \A p \in BOOLEAN : Bool(p) \in 0..1
BY DEF Bool

LEMMA ZeroIs == ASSUME NEW v \in Int PROVE Zero(v) = (IF v = 0 THEN 1 ELSE 0)
BY DEF Zero, Bool

(* A record of four flags is one of Flag. *)
LEMMA FlagsAre ==
  ASSUME NEW z \in 0..1, NEW n \in 0..1, NEW h \in 0..1, NEW c \in 0..1
  PROVE  /\ Flags(z, n, h, c) \in Flag
         /\ Flags(z, n, h, c).z = z /\ Flags(z, n, h, c).n = n /\ Flags(z, n, h, c).h = h
         /\ Flags(z, n, h, c).c = c
BY DEF Flags, Flag

LEMMA FlagHas == ASSUME NEW g \in Flag PROVE g.z \in 0..1 /\ g.n \in 0..1 /\ g.h \in 0..1 /\ g.c \in 0..1
BY DEF Flag

LEMMA RegsAre == ASSUME MachineTyped, NEW x \in Reg8 PROVE reg[x] \in Byte /\ reg[x] \in Nat
BY DEF MachineTyped, Byte

(* Loads *)
LEMMA DoesLd ==
  ASSUME Instruction, MachineTyped, I.op = "LD",
         NEW x \in Reg8, I.dst = x, NEW y \in Reg8, I.src = y
  PROVE  Onward /\ reg' = [reg EXCEPT ![x] = reg[y]] /\ UNCHANGED <<f, sp, mem>> /\ MachineTyped'
<1>1. LoadByte
  BY Operations
<1>2. Operand = reg[y]
  BY DEF Operand, Reg8
<1>3. Store(x, reg[y]) /\ Next1 /\ UNCHANGED <<f, sp, master, irqs, start>>
  BY <1>1, <1>2 DEF LoadByte, Decoded
<1>4. reg' = [reg EXCEPT ![x] = reg[y]] /\ UNCHANGED mem
  BY <1>3 DEF Store, Reg8
<1>5. reg' \in [Reg8 -> Byte]
  BY <1>4, RegsAre DEF MachineTyped
<1> QED BY <1>3, <1>4, <1>5, OnwardIs DEF MachineTyped

LEMMA DoesLdN ==
  ASSUME Instruction, MachineTyped, I.op = "LD", I.src = "d8",
         NEW x \in Reg8, I.dst = x, NEW n \in Byte, I.n = n
  PROVE  Onward /\ reg' = [reg EXCEPT ![x] = n] /\ UNCHANGED <<f, sp, mem>> /\ MachineTyped'
<1>1. LoadByte
  BY Operations
<1>2. Operand = n
  BY DEF Operand
<1>3. Store(x, n) /\ Next1 /\ UNCHANGED <<f, sp, master, irqs, start>>
  BY <1>1, <1>2 DEF LoadByte, Decoded
<1>4. reg' = [reg EXCEPT ![x] = n] /\ UNCHANGED mem
  BY <1>3 DEF Store, Reg8
<1>5. reg' \in [Reg8 -> Byte]
  BY <1>4 DEF MachineTyped
<1> QED BY <1>3, <1>4, <1>5, OnwardIs DEF MachineTyped

LEMMA Pairs ==
  /\ High["bc"] = "b" /\ High["de"] = "d" /\ High["hl"] = "h" /\ High["af"] = "a"
  /\ Low["bc"] = "c" /\ Low["de"] = "e" /\ Low["hl"] = "l"
BY DEF High, Low

LEMMA HLIs == HL = reg["h"] * 256 + reg["l"]
BY Pairs DEF HL, Pair

(* LD rr,d16 *)
LEMMA DoesLd16 ==
  ASSUME Instruction, MachineTyped, I.op = "LD16",
         NEW p \in {"bc", "de", "hl"}, I.dst = p, NEW w \in Nat, w < 65536, I.n = w,
         NEW x \in Reg8, NEW y \in Reg8, High[p] = x, Low[p] = y
  PROVE  /\ Onward /\ UNCHANGED <<f, sp, mem>> /\ MachineTyped'
         /\ reg' = [reg EXCEPT ![x] = w \div 256, ![y] = w % 256]
<1>1. LoadWord
  BY Operations
<1>2. StorePair(p, w) /\ Next1 /\ UNCHANGED <<f, mem, master, irqs, start>>
  BY <1>1 DEF LoadWord, Decoded
<1>3. reg' = [reg EXCEPT ![x] = w \div 256, ![y] = w % 256] /\ UNCHANGED sp
  BY <1>2 DEF StorePair, SetPair
<1>4. w \div 256 \in Byte /\ w % 256 \in Byte
  BY WordHalves
<1>5. reg' \in [Reg8 -> Byte]
  BY <1>3, <1>4 DEF MachineTyped
<1> QED BY <1>2, <1>3, <1>5, OnwardIs DEF MachineTyped

(* the accumulator, in memory *)
LEMMA DoesLoadA ==
  ASSUME Instruction, MachineTyped, I.op = "LDA_", NEW x \in MCCells, Address = x
  PROVE  Onward /\ reg' = [reg EXCEPT !["a"] = mem[x]] /\ UNCHANGED <<f, sp, mem>> /\ MachineTyped'
<1>1. LoadA
  BY Operations
<1>2. reg' = [reg EXCEPT !["a"] = mem[x]] /\ Next1 /\ UNCHANGED <<f, sp, mem, master, irqs, start>>
  BY <1>1 DEF LoadA, Decoded
<1>3. reg' \in [Reg8 -> Byte]
  BY <1>2 DEF MachineTyped
<1> QED BY <1>2, <1>3, OnwardIs DEF MachineTyped

LEMMA DoesStoreA ==
  ASSUME Instruction, MachineTyped, I.op = "LD_A", NEW x \in MCCells, Address = x
  PROVE  Onward /\ mem' = [mem EXCEPT ![x] = reg["a"]] /\ UNCHANGED <<f, sp, reg>> /\ MachineTyped'
<1>1. StoreA
  BY Operations
<1>2. mem' = [mem EXCEPT ![x] = reg["a"]] /\ Next1 /\ UNCHANGED <<f, sp, reg, master, irqs, start>>
  BY <1>1 DEF StoreA, Decoded
<1>3. mem' \in [MCCells -> Byte]
  BY <1>2, RegsAre DEF MachineTyped, Reg8
<1> QED BY <1>2, <1>3, OnwardIs DEF MachineTyped

Operators == {"ADD", "ADC", "SUB", "SBC", "AND", "XOR", "OR", "CP"}

(* the arithmetic instructions with a register or a byte *)
LEMMA DoesAccumulate ==
  ASSUME Instruction, MachineTyped, NEW o \in Operators, I.op = o,
         NEW v, \/ I.src = "d8" /\ I.n = v
                \/ I.src \in Reg8 /\ v = reg[I.src],
         NEW r, Fine(r), Compute(o, reg["a"], v) = r
  PROVE  Onward /\ reg' = [reg EXCEPT !["a"] = r.v] /\ f' = r.f /\ UNCHANGED <<sp, mem>> /\ MachineTyped'
<1>1. Accumulate
  BY Operations DEF Operators
<1>2. Operand = v
  BY DEF Operand, Reg8
<1>4. /\ reg' = [reg EXCEPT !["a"] = r.v] /\ f' = r.f
      /\ Next1 /\ UNCHANGED <<sp, mem, master, irqs, start>>
  BY <1>1, <1>2 DEF Accumulate, Decoded
<1>5. reg' \in [Reg8 -> Byte]
  BY <1>4 DEF MachineTyped, Fine
<1> QED BY <1>4, <1>5, OnwardIs DEF MachineTyped, Fine

LEMMA SetTwo ==
  ASSUME NEW r \in [Reg8 -> Byte], NEW x, NEW y, NEW v \in Byte, NEW w \in Byte
  PROVE  [r EXCEPT ![x] = v, ![y] = w] \in [Reg8 -> Byte]
OBVIOUS

(* The other arithmetic instructions *)
LEMMA DoesAdjust ==
  ASSUME Instruction, MachineTyped, NEW o \in {"DAA", "CPL", "SCF", "CCF"}, I.op = o,
         NEW r, Fine(r),
         CASE o = "DAA" -> Daa(reg["a"], f) = r
           [] o = "CPL" -> Cpl(reg["a"], f) = r
           [] o = "SCF" -> Scf(reg["a"], f) = r
           [] o = "CCF" -> Ccf(reg["a"], f) = r
  PROVE  Onward /\ reg' = [reg EXCEPT !["a"] = r.v] /\ f' = r.f /\ UNCHANGED <<sp, mem>> /\ MachineTyped'
<1>1. Adjust
  BY Operations
<1>4. /\ reg' = [reg EXCEPT !["a"] = r.v] /\ f' = r.f
      /\ Next1 /\ UNCHANGED <<sp, mem, master, irqs, start>>
  BY <1>1 DEF Adjust, Decoded
<1>5. reg' \in [Reg8 -> Byte]
  BY <1>4 DEF MachineTyped, Fine
<1> QED BY <1>4, <1>5, OnwardIs DEF MachineTyped, Fine

LEMMA DoesInc ==
  ASSUME Instruction, MachineTyped, I.op = "INC", NEW x \in Reg8, I.src = x,
         NEW r, Fine(r), Inc(reg[x], f) = r
  PROVE  Onward /\ reg' = [reg EXCEPT ![x] = r.v] /\ f' = r.f /\ UNCHANGED <<sp, mem>> /\ MachineTyped'
<1>1. CountByte
  BY Operations
<1>2. Operand = reg[x]
  BY DEF Operand, Reg8
<1>4. Store(x, r.v) /\ f' = r.f /\ Next1 /\ UNCHANGED <<sp, master, irqs, start>>
  BY <1>1, <1>2 DEF CountByte, Decoded
<1>5. reg' = [reg EXCEPT ![x] = r.v] /\ UNCHANGED mem
  BY <1>4 DEF Store, Reg8
<1>6. reg' \in [Reg8 -> Byte]
  BY <1>5 DEF MachineTyped, Fine
<1> QED BY <1>4, <1>5, <1>6, OnwardIs DEF MachineTyped, Fine

LEMMA DoesDec ==
  ASSUME Instruction, MachineTyped, I.op = "DEC", NEW x \in Reg8, I.src = x,
         NEW r, Fine(r), Dec(reg[x], f) = r
  PROVE  Onward /\ reg' = [reg EXCEPT ![x] = r.v] /\ f' = r.f /\ UNCHANGED <<sp, mem>> /\ MachineTyped'
<1>1. CountByte
  BY Operations
<1>2. Operand = reg[x]
  BY DEF Operand, Reg8
<1>4. Store(x, r.v) /\ f' = r.f /\ Next1 /\ UNCHANGED <<sp, master, irqs, start>>
  BY <1>1, <1>2 DEF CountByte, Decoded
<1>5. reg' = [reg EXCEPT ![x] = r.v] /\ UNCHANGED mem
  BY <1>4 DEF Store, Reg8
<1>6. reg' \in [Reg8 -> Byte]
  BY <1>5 DEF MachineTyped, Fine
<1> QED BY <1>4, <1>5, <1>6, OnwardIs DEF MachineTyped, Fine

LEMMA DoesCB ==
  ASSUME Instruction, MachineTyped, NEW o \in {"SRL", "SLA", "RL", "RR", "SRA", "SWAP", "SET"}, I.op = o, NEW x \in Reg8, I.src = x,
         NEW r, Fine(r), Shift(o, reg[x]) = r
  PROVE  Onward /\ reg' = [reg EXCEPT ![x] = r.v] /\ f' = r.f /\ UNCHANGED <<sp, mem>> /\ MachineTyped'
<1>1. CB
  BY Operations
<1>2. Operand = reg[x]
  BY DEF Operand, Reg8
<1>4. Store(x, r.v) /\ f' = r.f /\ Next1 /\ UNCHANGED <<sp, master, irqs, start>>
  BY <1>1, <1>2 DEF CB, Decoded
<1>5. reg' = [reg EXCEPT ![x] = r.v] /\ UNCHANGED mem
  BY <1>4 DEF Store, Reg8
<1>6. reg' \in [Reg8 -> Byte]
  BY <1>5 DEF MachineTyped, Fine
<1> QED BY <1>4, <1>5, <1>6, OnwardIs DEF MachineTyped, Fine

LEMMA DoesRLA ==
  ASSUME Instruction, MachineTyped, I.op = "RLA",
         NEW r, Fine(r), Rl(reg["a"], f) = r
  PROVE  Onward /\ reg' = [reg EXCEPT !["a"] = r.v] /\ f' = [r.f EXCEPT !.z = 0] /\ UNCHANGED <<sp, mem>> /\ MachineTyped'
<1>1. RotateA
  BY Operations
<1>4. /\ reg' = [reg EXCEPT !["a"] = r.v] /\ f' = [r.f EXCEPT !.z = 0]
      /\ Next1 /\ UNCHANGED <<sp, mem, master, irqs, start>>
  BY <1>1 DEF RotateA, Decoded
<1>5. reg' \in [Reg8 -> Byte]
  BY <1>4 DEF MachineTyped, Fine
<1>6. f' \in Flag
  <2>1. r.f \in Flag
    BY DEF Fine
  <2> QED BY ONLY <1>4, <2>1 DEF Flag
<1> QED BY <1>4, <1>5, <1>6, OnwardIs DEF MachineTyped, Fine

(* Words *)
LEMMA DoesIncHL ==
  ASSUME Instruction, MachineTyped, I.op = "INC16", I.dst = "hl"
  PROVE  LET w == (HL + 1) % 65536
         IN /\ Onward /\ UNCHANGED <<f, sp, mem>> /\ MachineTyped'
            /\ reg' = [reg EXCEPT !["h"] = w \div 256, !["l"] = w % 256]
<1> DEFINE w == (HL + 1) % 65536
<1>1. CountWord
  BY Operations
<1>2. StorePair("hl", w) /\ Next1 /\ UNCHANGED <<f, mem, master, irqs, start>>
  BY <1>1 DEF CountWord, Decoded, HL
<1>3. w \in Nat /\ w < 65536
  BY RegsAre, HLIs DEF Reg8
<1> HIDE DEF w
<1>4. reg' = [reg EXCEPT !["h"] = w \div 256, !["l"] = w % 256] /\ UNCHANGED sp
  BY <1>2, Pairs DEF StorePair, SetPair
<1>5. w \div 256 \in Byte /\ w % 256 \in Byte
  BY <1>3, WordHalves
<1>6. reg' \in [Reg8 -> Byte]
  BY <1>4, <1>5 DEF MachineTyped
<1> QED BY <1>2, <1>4, <1>6, OnwardIs DEF MachineTyped, w

LEMMA DoesIncSP ==
  ASSUME Instruction, MachineTyped, I.op = "INC16", I.dst = "sp", sp \in 10..16
  PROVE  Onward /\ sp' = sp + 1 /\ UNCHANGED <<f, reg, mem>> /\ MachineTyped'
<1>1. CountWord
  BY Operations
<1>2. StorePair("sp", (sp + 1) % 65536) /\ Next1 /\ UNCHANGED <<f, mem, master, irqs, start>>
  BY <1>1 DEF CountWord, Decoded, Pair
<1>3. (sp + 1) % 65536 = sp + 1
  OBVIOUS
<1> QED BY <1>2, <1>3 DEF StorePair, Next1, Onward, Goes, MachineTyped

LEMMA DoesDecSP ==
  ASSUME Instruction, MachineTyped, I.op = "DEC16", I.dst = "sp", sp \in 10..16
  PROVE  Onward /\ sp' = sp - 1 /\ UNCHANGED <<f, reg, mem>> /\ MachineTyped'
<1>1. CountWord
  BY Operations
<1>2. StorePair("sp", (sp - 1) % 65536) /\ Next1 /\ UNCHANGED <<f, mem, master, irqs, start>>
  BY <1>1 DEF CountWord, Decoded, Pair
<1>3. (sp - 1) % 65536 = sp - 1
  OBVIOUS
<1> QED BY <1>2, <1>3 DEF StorePair, Next1, Onward, Goes, MachineTyped

LEMMA DoesAddHL ==
  ASSUME Instruction, MachineTyped, I.op = "ADDHL",
         NEW v \in Nat, Pair(I.src) = v,
         NEW r, r.v \in Nat, r.v < 65536, r.f \in Flag, AddHL(HL, v, f) = r
  PROVE  /\ Onward /\ UNCHANGED <<sp, mem>> /\ MachineTyped' /\ f' = r.f
         /\ reg' = [reg EXCEPT !["h"] = r.v \div 256, !["l"] = r.v % 256]
<1>1. AddWord
  BY Operations
<1>2. reg' = SetPair("hl", r.v) /\ f' = r.f /\ Next1 /\ UNCHANGED <<sp, mem, master, irqs, start>>
  BY <1>1 DEF AddWord, Decoded
<1>4. reg' = [reg EXCEPT !["h"] = r.v \div 256, !["l"] = r.v % 256]
  BY <1>2, Pairs DEF SetPair
<1>5. r.v \div 256 \in Byte /\ r.v % 256 \in Byte
  BY WordHalves
<1>6. reg' \in [Reg8 -> Byte]
  <2>1. reg \in [Reg8 -> Byte]
    BY DEF MachineTyped, Fine
  <2> QED BY ONLY <1>4, <1>5, <2>1, SetTwo
<1>7. f' \in Flag
  BY <1>2
<1>8. mem' \in [MCCells -> Byte] /\ start'.reg \in [Reg8 -> Byte]
  BY <1>2 DEF MachineTyped
<1> QED BY ONLY <1>2, <1>4, <1>6, <1>7, <1>8, OnwardIs DEF MachineTyped

LEMMA SetHL ==
  ASSUME MachineTyped, NEW w, reg' = SetPair("hl", w), NEW hi \in Byte, NEW lo \in Byte, w \div 256 = hi, w % 256 = lo
  PROVE  reg' = [reg EXCEPT !["h"] = hi, !["l"] = lo] /\ reg' \in [Reg8 -> Byte]
<1>1. reg' = [reg EXCEPT !["h"] = hi, !["l"] = lo]
  BY Pairs DEF SetPair
<1>2. reg \in [Reg8 -> Byte]
  BY DEF MachineTyped
<1> QED BY ONLY <1>1, <1>2, SetTwo, hi \in Byte, lo \in Byte

(* POP AF restores the flags PUSH AF stored. *)
LEMMA FlagsFromByte ==
  ASSUME NEW g \in Flag, NEW hi \in Byte, NEW w,
         w = g.z * 128 + g.n * 64 + g.h * 32 + g.c * 16 + 256 * hi
  PROVE  Flags(BitOf(w, 7), BitOf(w, 6), BitOf(w, 5), BitOf(w, 4)) = g
<1>1. Value(7) = 128 /\ Value(6) = 64 /\ Value(5) = 32 /\ Value(4) = 16
  BY DEF Value
<1>2. PICK z \in 0..1, n \in 0..1, h \in 0..1, c \in 0..1 : g = [z |-> z, n |-> n, h |-> h, c |-> c]
  BY DEF Flag
<1>3. hi \in 0..255 /\ w = z * 128 + n * 64 + h * 32 + c * 16 + 256 * hi
  BY <1>2 DEF Byte
<1>4. (w \div 128) % 2 = z
  BY ONLY <1>3, z \in 0..1, n \in 0..1, h \in 0..1, c \in 0..1
<1>5. (w \div 64) % 2 = n
  BY ONLY <1>3, z \in 0..1, n \in 0..1, h \in 0..1, c \in 0..1
<1>6. (w \div 32) % 2 = h
  BY ONLY <1>3, z \in 0..1, n \in 0..1, h \in 0..1, c \in 0..1
<1>7. (w \div 16) % 2 = c
  BY ONLY <1>3, z \in 0..1, n \in 0..1, h \in 0..1, c \in 0..1
<1> QED BY ONLY <1>1, <1>2, <1>4, <1>5, <1>6, <1>7 DEF Flags, BitOf

LEMMA FlagByte == ASSUME NEW g \in Flag PROVE g.z * 128 + g.n * 64 + g.h * 32 + g.c * 16 \in Byte
BY DEF Flag, Byte

(* The stack *)
LEMMA DoesPush ==
  ASSUME Instruction, MachineTyped, I.op = "PUSH", sp \in 2..16, NEW x \in Reg8, High[I.src] = x,
         NEW lo \in Byte, lo = IF I.src = "af" THEN F ELSE reg[Low[I.src]]
  PROVE  Onward /\ OnStack(reg[x], lo) /\ UNCHANGED <<reg, f>> /\ MachineTyped'
<1>1. Push
  BY Operations
<1>2. PushWord(reg[x], lo) /\ Next1 /\ UNCHANGED <<reg, f, master, irqs, start>>
  BY <1>1 DEF Push, Decoded
<1>3. OnStack(reg[x], lo)
  BY <1>2, RegsAre, Pushed DEF MachineTyped
<1> QED BY <1>2, <1>3, OnwardIs DEF MachineTyped, OnStack

LEMMA DoesPopHL ==
  ASSUME Instruction, MachineTyped, I.op = "POP", I.dst = "hl", sp \in 0..14
  PROVE  /\ Onward /\ sp' = sp + 2 /\ UNCHANGED <<f, mem>> /\ MachineTyped'
         /\ reg' = [reg EXCEPT !["h"] = mem[sp + 1], !["l"] = mem[sp]]
<1>1. Pop
  BY Operations
<1>2. reg' = SetPair("hl", Popped) /\ sp' = (sp + 2) % 65536 /\ Next1 /\ UNCHANGED <<f, mem, master, irqs, start>>
  BY <1>1 DEF Pop, Decoded
<1>3. /\ sp' = sp + 2 /\ Popped \div 256 = mem[sp + 1] /\ Popped % 256 = mem[sp]
      /\ mem[sp] \in Byte /\ mem[sp + 1] \in Byte
  BY <1>2, PoppedIs DEF MachineTyped
<1>4. reg' = [reg EXCEPT !["h"] = mem[sp + 1], !["l"] = mem[sp]]
  BY <1>2, <1>3, SetHL
<1>5. reg' \in [Reg8 -> Byte]
  BY <1>2, <1>3, SetHL
<1> QED BY <1>2, <1>3, <1>4, <1>5, OnwardIs DEF MachineTyped

LEMMA DoesPopAF ==
  ASSUME Instruction, MachineTyped, I.op = "POP", I.dst = "af", sp \in 0..14, NEW g \in Flag,
         mem[sp] = g.z * 128 + g.n * 64 + g.h * 32 + g.c * 16
  PROVE  /\ Onward /\ sp' = sp + 2 /\ UNCHANGED mem /\ MachineTyped'
         /\ reg' = [reg EXCEPT !["a"] = mem[sp + 1]] /\ f' = g
<1>1. Pop
  BY Operations
<1>2. /\ sp' = (sp + 2) % 65536 /\ Next1 /\ UNCHANGED <<mem, master, irqs, start>>
      /\ f' = Flags(BitOf(Popped, 7), BitOf(Popped, 6), BitOf(Popped, 5), BitOf(Popped, 4))
  BY <1>1 DEF Pop, Decoded
<1>3. reg' = [reg EXCEPT !["a"] = Popped \div 256]
  BY <1>1 DEF Pop, Decoded
<1>4. /\ sp' = sp + 2 /\ Popped \div 256 = mem[sp + 1] /\ Popped = mem[sp] + 256 * mem[sp + 1]
      /\ mem[sp] \in Byte /\ mem[sp + 1] \in Byte
  BY <1>2, PoppedIs DEF MachineTyped
<1>5. f' = g
  BY <1>2, <1>4, FlagsFromByte
<1>6. reg' = [reg EXCEPT !["a"] = mem[sp + 1]]
  BY ONLY <1>3, <1>4, Zenon
<1>7. reg' \in [Reg8 -> Byte]
  BY <1>4, <1>6 DEF MachineTyped
<1> QED BY <1>2, <1>4, <1>5, <1>6, <1>7, OnwardIs DEF MachineTyped

LEMMA DoesPopAFany ==
  ASSUME Instruction, MachineTyped, I.op = "POP", I.dst = "af", sp \in 0..14
  PROVE  /\ Onward /\ sp' = sp + 2 /\ UNCHANGED mem /\ MachineTyped'
         /\ reg' = [reg EXCEPT !["a"] = mem[sp + 1]]
<1>1. Pop
  BY Operations
<1>2. /\ sp' = (sp + 2) % 65536 /\ Next1 /\ UNCHANGED <<mem, master, irqs, start>>
      /\ f' = Flags(BitOf(Popped, 7), BitOf(Popped, 6), BitOf(Popped, 5), BitOf(Popped, 4))
  BY <1>1 DEF Pop, Decoded
<1>3. reg' = [reg EXCEPT !["a"] = Popped \div 256]
  BY <1>1 DEF Pop, Decoded
<1>4. /\ sp' = sp + 2 /\ Popped \div 256 = mem[sp + 1] /\ Popped = mem[sp] + 256 * mem[sp + 1]
      /\ mem[sp] \in Byte /\ mem[sp + 1] \in Byte
  BY <1>2, PoppedIs DEF MachineTyped
<1>5. f' \in Flag
  <2>1. Popped \in Int
    BY <1>4 DEF Byte
  <2>2. Value(7) = 128 /\ Value(6) = 64 /\ Value(5) = 32 /\ Value(4) = 16
    BY DEF Value
  <2>3. /\ BitOf(Popped, 7) \in 0..1 /\ BitOf(Popped, 6) \in 0..1
        /\ BitOf(Popped, 5) \in 0..1 /\ BitOf(Popped, 4) \in 0..1
    BY ONLY <2>1, <2>2 DEF BitOf
  <2> QED BY <1>2, <2>3, FlagsAre
<1>6. reg' = [reg EXCEPT !["a"] = mem[sp + 1]]
  BY ONLY <1>3, <1>4, Zenon
<1>7. reg' \in [Reg8 -> Byte]
  BY <1>4, <1>6 DEF MachineTyped
<1> QED BY <1>2, <1>4, <1>5, <1>6, <1>7, OnwardIs DEF MachineTyped

(* Jumps, calls and returns *)
LEMMA DoesJump ==
  ASSUME Instruction, MachineTyped, I.op = "JP", NEW n \in Nat, I.n = n, I.cc = "nz"
  PROVE  Goes(IF f.z = 0 THEN n ELSE (ip + 1) % 65536) /\ UNCHANGED <<reg, f, sp, mem>> /\ MachineTyped'
<1>1. Jump
  BY Operations
<1>2. Condition("nz") <=> f.z = 0
  BY DEF Condition
<1>4. /\ ip' = (IF Condition("nz") THEN n ELSE (ip + 1) % 65536)
      /\ UNCHANGED <<reg, f, sp, mem, master, irqs, start>>
  BY <1>1 DEF Jump, Decoded
<1>3. ip' = (IF f.z = 0 THEN n ELSE (ip + 1) % 65536) /\ UNCHANGED <<reg, f, sp, mem, master, irqs, start>>
  BY <1>2, <1>4
<1> QED BY <1>3 DEF Goes, MachineTyped

LEMMA DoesJR ==
  ASSUME Instruction, MachineTyped, I.op = "JR", NEW n \in Int, I.n = n
  PROVE  /\ Goes(IF Condition(I.cc) THEN (ip + 1 + n) % 65536 ELSE (ip + 1) % 65536)
         /\ UNCHANGED <<reg, f, sp, mem>> /\ MachineTyped'
<1>1. JumpRelative
  BY Operations
<1>3. /\ ip' = (IF Condition(I.cc) THEN (ip + 1 + n) % 65536 ELSE (ip + 1) % 65536)
      /\ UNCHANGED <<reg, f, sp, mem, master, irqs, start>>
  BY <1>1 DEF JumpRelative, Decoded
<1> QED BY <1>3 DEF Goes, MachineTyped

LEMMA Conditions ==
  /\ Condition("always") /\ (Condition("nz") <=> f.z = 0) /\ (Condition("z") <=> f.z = 1)
  /\ (Condition("nc") <=> f.c = 0) /\ (Condition("c") <=> f.c = 1)
BY DEF Condition

LEMMA Always == ASSUME I.cc = "always" PROVE Condition(I.cc)
BY DEF Condition

LEMMA DoesCall ==
  ASSUME Instruction, MachineTyped, I.op = "CALL", sp \in 2..16, ip \in 0..400, NEW n, I.n = n,
         Condition(I.cc)
  PROVE  Goes(n) /\ OnStack((ip + 1) \div 256, (ip + 1) % 256) /\ UNCHANGED <<reg, f>> /\ MachineTyped'
<1>1. Call
  BY Operations
<1>3. PushWord((ip + 1) \div 256, (ip + 1) % 256) /\ ip' = n /\ UNCHANGED <<reg, f, master, irqs, start>>
  BY <1>1 DEF Call, Decoded
<1>4. (ip + 1) \div 256 \in Byte /\ (ip + 1) % 256 \in Byte
  BY WordHalves
<1>5. OnStack((ip + 1) \div 256, (ip + 1) % 256)
  BY <1>3, <1>4, Pushed DEF MachineTyped
<1> QED BY <1>3, <1>5 DEF Goes, MachineTyped, OnStack

LEMMA DoesRst ==
  ASSUME Instruction, MachineTyped, I.op = "RST", sp \in 2..16, ip \in 0..400, NEW n, I.n = n
  PROVE  Goes(n) /\ OnStack((ip + 1) \div 256, (ip + 1) % 256) /\ UNCHANGED <<reg, f>> /\ MachineTyped'
<1>1. Restart
  BY Operations
<1>3. PushWord((ip + 1) \div 256, (ip + 1) % 256) /\ ip' = n /\ UNCHANGED <<reg, f, master, irqs, start>>
  BY <1>1 DEF Restart, Decoded
<1>4. (ip + 1) \div 256 \in Byte /\ (ip + 1) % 256 \in Byte
  BY WordHalves
<1>5. OnStack((ip + 1) \div 256, (ip + 1) % 256)
  BY <1>3, <1>4, Pushed DEF MachineTyped
<1> QED BY <1>3, <1>5 DEF Goes, MachineTyped, OnStack

LEMMA DoesRet ==
  ASSUME Instruction, MachineTyped, I.op = "RET", sp \in 0..14, Condition(I.cc)
  PROVE  /\ Goes(mem[sp] + 256 * mem[sp + 1]) /\ sp' = sp + 2
         /\ UNCHANGED <<reg, f, mem>> /\ MachineTyped'
<1>1. Return
  BY Operations
<1>3. ip' = Popped /\ sp' = (sp + 2) % 65536 /\ UNCHANGED <<reg, f, mem, master, irqs, start>>
  BY <1>1 DEF Return, Decoded
<1>4. Popped = mem[sp] + 256 * mem[sp + 1] /\ (sp + 2) % 65536 = sp + 2
  BY PoppedIs DEF MachineTyped
<1> QED BY <1>3, <1>4 DEF Goes, MachineTyped

LEMMA DoesNotRet ==
  ASSUME Instruction, MachineTyped, I.op = "RET", I.cc = "z" /\ f.z = 0
  PROVE  Onward /\ UNCHANGED <<reg, f, sp, mem>> /\ MachineTyped'
<1>1. Return
  BY Operations
<1>2. ~Condition(I.cc)
  BY DEF Condition
<1>3. Next1 /\ UNCHANGED <<reg, f, sp, mem, master, irqs, start>>
  BY <1>1, <1>2 DEF Return, Decoded
<1> QED BY <1>3, OnwardIs DEF MachineTyped

LEMMA DoesReti ==
  ASSUME Instruction, MachineTyped, I.op = "RETI", sp \in 0..14
  PROVE  /\ ip' = mem[sp] + 256 * mem[sp + 1] /\ sp' = sp + 2 /\ master' = TRUE
         /\ UNCHANGED <<reg, f, mem, irqs, start>> /\ MachineTyped'
<1>1. ReturnFromInterrupt
  BY Operations
<1>3. /\ ip' = Popped /\ sp' = (sp + 2) % 65536 /\ master' = TRUE
      /\ UNCHANGED <<reg, f, mem, irqs, start>>
  BY <1>1 DEF ReturnFromInterrupt, Decoded
<1>4. Popped = mem[sp] + 256 * mem[sp + 1] /\ (sp + 2) % 65536 = sp + 2
  BY PoppedIs DEF MachineTyped
<1> QED BY <1>3, <1>4 DEF MachineTyped

LEMMA DoesBit ==
  ASSUME Instruction, MachineTyped, I.op = "BIT", NEW x \in Reg8, I.src = x, NEW g \in Flag, TestBit(I.n, reg[x], f) = g
  PROVE  Onward /\ f' = g /\ UNCHANGED <<reg, sp, mem>> /\ MachineTyped'
<1>1. Bit
  BY Operations
<1>2. Operand = reg[x]
  BY DEF Operand, Reg8
<1>3. f' = g /\ Next1 /\ UNCHANGED <<reg, sp, mem, master, irqs, start>>
  BY <1>1, <1>2 DEF Bit, Decoded
<1> QED BY <1>3, OnwardIs DEF MachineTyped

(* Loads by way of HL *)
LEMMA DoesStoreHL ==
  ASSUME Instruction, MachineTyped, I.op = "LD", I.dst = "(hl)", NEW y \in Reg8, I.src = y, HL \in MCCells
  PROVE  Onward /\ mem' = [mem EXCEPT ![HL] = reg[y]] /\ UNCHANGED <<reg, f, sp>> /\ MachineTyped'
<1>1. LoadByte
  BY Operations
<1>2. Operand = reg[y]
  BY DEF Operand, Reg8
<1>3. Store("(hl)", reg[y]) /\ Next1 /\ UNCHANGED <<f, sp, master, irqs, start>>
  BY <1>1, <1>2 DEF LoadByte, Decoded
<1>4. mem' = [mem EXCEPT ![HL] = reg[y]] /\ UNCHANGED reg
  BY <1>3 DEF Store
<1>5. mem' \in [MCCells -> Byte]
  BY <1>4, RegsAre DEF MachineTyped
<1> QED BY <1>3, <1>4, <1>5, OnwardIs DEF MachineTyped

LEMMA DoesSTA ==
  ASSUME Instruction, MachineTyped, I.op = "STA", I.n = 1, HL \in 0..15
  PROVE  /\ Onward /\ mem' = [mem EXCEPT ![HL] = reg["a"]] /\ UNCHANGED <<f, sp>> /\ MachineTyped'
         /\ reg' = [reg EXCEPT !["h"] = 0, !["l"] = HL + 1]
<1> DEFINE w == (HL + 1) % 65536
<1>1. StoreStep
  BY Operations
<1>2. /\ mem' = [mem EXCEPT ![HL] = reg["a"]] /\ reg' = SetPair("hl", w)
      /\ Next1 /\ UNCHANGED <<f, sp, master, irqs, start>>
  BY <1>1 DEF StoreStep, Decoded
<1>3. w = HL + 1 /\ w \div 256 = 0 /\ w % 256 = HL + 1 /\ HL + 1 \in Byte /\ 0 \in Byte
  BY DEF Byte
<1> HIDE DEF w
<1>4. reg' = [reg EXCEPT !["h"] = 0, !["l"] = HL + 1] /\ reg' \in [Reg8 -> Byte]
  BY <1>2, <1>3, SetHL
<1>5. mem' \in [MCCells -> Byte]
  BY <1>2, RegsAre DEF MachineTyped, Reg8
<1> QED BY <1>2, <1>4, <1>5, OnwardIs DEF MachineTyped

LEMMA DoesLDAUp ==
  ASSUME Instruction, MachineTyped, I.op = "LDA", I.n = 1, HL \in 1..15
  PROVE  /\ Onward /\ UNCHANGED <<f, sp, mem>> /\ MachineTyped'
         /\ reg' = [reg EXCEPT !["h"] = 0, !["l"] = HL + 1, !["a"] = mem[HL]]
<1> DEFINE w == (HL + (1)) % 65536
<1>1. LoadStep
  BY Operations
<1>2. /\ reg' = [SetPair("hl", w) EXCEPT !["a"] = mem[HL]]
      /\ Next1 /\ UNCHANGED <<f, sp, mem, master, irqs, start>>
  BY <1>1 DEF LoadStep, Decoded
<1>3. w \div 256 = 0 /\ w % 256 = HL + 1 /\ HL + 1 \in Byte /\ 0 \in Byte
  BY DEF Byte
<1> HIDE DEF w
<1>4. SetPair("hl", w) = [reg EXCEPT !["h"] = 0, !["l"] = HL + 1]
  BY ONLY <1>3, Pairs, Zenon DEF SetPair
<1>5. reg' = [[reg EXCEPT !["h"] = 0, !["l"] = HL + 1] EXCEPT !["a"] = mem[HL]]
  BY <1>2, <1>4
<1>6. mem[HL] \in Byte /\ reg \in [Reg8 -> Byte]
  BY Cells16 DEF MachineTyped
<1>7. reg' = [reg EXCEPT !["h"] = 0, !["l"] = HL + 1, !["a"] = mem[HL]]
  BY ONLY <1>5
<1>8. reg' \in [Reg8 -> Byte]
  <2>1. [reg EXCEPT !["h"] = 0, !["l"] = HL + 1] \in [Reg8 -> Byte]
    BY <1>3, <1>6, SetTwo
  <2> QED BY ONLY <1>5, <1>6, <2>1
<1> QED BY <1>2, <1>7, <1>8, OnwardIs DEF MachineTyped

LEMMA DoesLDADown ==
  ASSUME Instruction, MachineTyped, I.op = "LDA", I.n = -1, HL \in 1..15
  PROVE  /\ Onward /\ UNCHANGED <<f, sp, mem>> /\ MachineTyped'
         /\ reg' = [reg EXCEPT !["h"] = 0, !["l"] = HL - 1, !["a"] = mem[HL]]
<1> DEFINE w == (HL + (-1)) % 65536
<1>1. LoadStep
  BY Operations
<1>2. /\ reg' = [SetPair("hl", w) EXCEPT !["a"] = mem[HL]]
      /\ Next1 /\ UNCHANGED <<f, sp, mem, master, irqs, start>>
  BY <1>1 DEF LoadStep, Decoded
<1>3. w \div 256 = 0 /\ w % 256 = HL - 1 /\ HL - 1 \in Byte /\ 0 \in Byte
  BY DEF Byte
<1> HIDE DEF w
<1>4. SetPair("hl", w) = [reg EXCEPT !["h"] = 0, !["l"] = HL - 1]
  BY ONLY <1>3, Pairs, Zenon DEF SetPair
<1>5. reg' = [[reg EXCEPT !["h"] = 0, !["l"] = HL - 1] EXCEPT !["a"] = mem[HL]]
  BY <1>2, <1>4
<1>6. mem[HL] \in Byte /\ reg \in [Reg8 -> Byte]
  BY Cells16 DEF MachineTyped
<1>7. reg' = [reg EXCEPT !["h"] = 0, !["l"] = HL - 1, !["a"] = mem[HL]]
  BY ONLY <1>5
<1>8. reg' \in [Reg8 -> Byte]
  <2>1. [reg EXCEPT !["h"] = 0, !["l"] = HL - 1] \in [Reg8 -> Byte]
    BY <1>3, <1>6, SetTwo
  <2> QED BY ONLY <1>5, <1>6, <2>1
<1> QED BY <1>2, <1>7, <1>8, OnwardIs DEF MachineTyped

(* The stack pointer as an operand *)
LEMMA DoesLoadSP ==
  ASSUME Instruction, MachineTyped, I.op = "LDSPHL"
  PROVE  Onward /\ sp' = HL /\ UNCHANGED <<reg, f, mem>> /\ MachineTyped'
<1>1. LoadSPHL
  BY Operations
<1>2. sp' = HL /\ Next1 /\ UNCHANGED <<reg, f, mem, master, irqs, start>>
  BY <1>1 DEF LoadSPHL, Decoded
<1> QED BY <1>2, OnwardIs DEF MachineTyped

LEMMA DoesAddToSP ==
  ASSUME Instruction, MachineTyped, I.op = "ADDSP", NEW r, r.f \in Flag, AddSP(sp, I.n) = r
  PROVE  Onward /\ sp' = r.v /\ f' = r.f /\ UNCHANGED <<reg, mem>> /\ MachineTyped'
<1>1. AddToSP
  BY Operations
<1>2. sp' = r.v /\ f' = r.f /\ Next1 /\ UNCHANGED <<reg, mem, master, irqs, start>>
  BY <1>1 DEF AddToSP, Decoded
<1> QED BY <1>2, OnwardIs DEF MachineTyped, Fine

LEMMA DoesLoadHLSP ==
  ASSUME Instruction, MachineTyped, I.op = "LDHLSP", NEW r, r.v \in 0..16, r.f \in Flag, AddSP(sp, I.n) = r
  PROVE  /\ Onward /\ f' = r.f /\ UNCHANGED <<sp, mem>> /\ MachineTyped'
         /\ reg' = [reg EXCEPT !["h"] = 0, !["l"] = r.v]
<1>1. LoadHLSP
  BY Operations
<1>2. reg' = SetPair("hl", r.v) /\ f' = r.f /\ Next1 /\ UNCHANGED <<sp, mem, master, irqs, start>>
  BY <1>1 DEF LoadHLSP, Decoded
<1>4. r.v \div 256 = 0 /\ r.v % 256 = r.v /\ r.v \in Byte /\ 0 \in Byte
  BY DEF Byte
<1>5. reg' = [reg EXCEPT !["h"] = 0, !["l"] = r.v]
  BY <1>2, <1>4, SetHL
<1>6. reg' \in [Reg8 -> Byte]
  BY <1>2, <1>4, SetHL
<1> QED BY <1>2, <1>5, <1>6, OnwardIs DEF MachineTyped, Fine

LEMMA DoesStoreSP ==
  ASSUME Instruction, MachineTyped, I.op = "LD_SP", I.n = 0, sp \in 0..255
  PROVE  /\ Onward /\ UNCHANGED <<reg, f, sp>> /\ MachineTyped'
         /\ mem' = [mem EXCEPT ![0] = sp, ![1] = 0]
<1> DEFINE lo == sp % 256
           hi == sp \div 256
           p  == (0 + 1) % 65536
<1>1. StoreSP
  BY Operations
<1>2. /\ mem' = [mem EXCEPT ![0] = lo, ![p] = hi]
      /\ Next1 /\ UNCHANGED <<reg, f, sp, master, irqs, start>>
  BY <1>1 DEF StoreSP, Decoded
<1>3. lo = sp /\ hi = 0 /\ p = 1 /\ sp \in Byte /\ 0 \in Byte
  BY DEF Byte
<1> HIDE DEF lo, hi, p
<1>4. mem' = [mem EXCEPT ![0] = sp, ![1] = 0]
  BY ONLY <1>2, <1>3, Zenon
<1>5. mem \in [MCCells -> Byte]
  BY DEF MachineTyped
<1>6. mem' \in [MCCells -> Byte]
  BY ONLY <1>3, <1>4, <1>5
<1> QED BY <1>2, <1>4, <1>6, OnwardIs DEF MachineTyped

LEMMA DoesJumpHL ==
  ASSUME Instruction, MachineTyped, I.op = "JPHL"
  PROVE  Goes(HL) /\ UNCHANGED <<reg, f, sp, mem>> /\ MachineTyped'
<1>1. JumpHL
  BY Operations
<1>2. ip' = HL /\ UNCHANGED <<reg, f, sp, mem, master, irqs, start>>
  BY <1>1 DEF JumpHL, Decoded
<1> QED BY <1>2 DEF Goes, MachineTyped

-----------------------------------------------------------------------------
(* What the arithmetic computes, in numbers                                 *)

LEMMA ByteOf == ASSUME NEW x \in Int PROVE x % 256 \in Byte
BY DEF Byte

LEMMA ResultIs ==
  ASSUME NEW w \in Byte, NEW z \in 0..1, NEW n \in 0..1, NEW h \in 0..1, NEW c \in 0..1
  PROVE  LET r == Result(w, Flags(z, n, h, c))
         IN Fine(r) /\ r.v = w /\ r.f.z = z /\ r.f.n = n /\ r.f.h = h /\ r.f.c = c
BY DEF Result, Flags, Flag, Fine

LEMMA ZeroOfByte == ASSUME NEW w \in Byte PROVE Zero(w) \in 0..1 /\ Zero(w) = (IF w = 0 THEN 1 ELSE 0)
BY DEF Zero, Bool

LEMMA AddBytesIs ==
  ASSUME NEW a \in Byte, NEW v \in Byte, NEW carry \in 0..1
  PROVE  LET r == AddBytes(a, v, carry)
         IN Fine(r) /\ r.v = (a + v + carry) % 256 /\ r.f.n = 0
            /\ r.f.h = (IF (a % 16) + (v % 16) + carry > 15 THEN 1 ELSE 0)
            /\ r.f.c = (IF a + v + carry > 255 THEN 1 ELSE 0)
<1> DEFINE w == (a + v + carry) % 256
           z == Zero(w)
           h == Bool((a % 16) + (v % 16) + carry > 15)
           c == Bool(a + v + carry > 255)
<1>1. w \in Byte
  BY DEF Byte
<1>2. z \in 0..1 /\ h \in 0..1 /\ c \in 0..1
  <2>1. z \in 0..1
    BY <1>1, ZeroOfByte, FlagHas DEF Bool
  <2>2. h \in 0..1
    BY DEF Bool
  <2>3. c \in 0..1
    BY FlagHas DEF Bool, Byte
  <2> QED BY <2>1, <2>2, <2>3
<1>3. AddBytes(a, v, carry) = Result(w, Flags(z, 0, h, c))
  BY DEF AddBytes
<1>4. z = Zero(w) /\ h = Bool((a % 16) + (v % 16) + carry > 15) /\ c = Bool(a + v + carry > 255)
  OBVIOUS
<1> HIDE DEF z, h, c, w
<1> QED BY <1>1, <1>2, <1>3, <1>4, ResultIs, ZeroOfByte DEF Bool, w

LEMMA SubIs ==
  ASSUME NEW a \in Byte, NEW v \in Byte, NEW g \in Flag
  PROVE  LET r == Sub(a, v, g)
         IN Fine(r) /\ r.v = (a - v) % 256 /\ r.f.c = (IF v > a THEN 1 ELSE 0)
<1> DEFINE w == (a - v) % 256
           z == Bool(a = v)
           h == Bool(v % 16 > a % 16)
           c == Bool(v > a)
<1>1. w \in Byte
  BY DEF Byte
<1>2. z \in 0..1 /\ h \in 0..1 /\ c \in 0..1
  <2>1. z \in 0..1
    BY <1>1, ZeroOfByte, FlagHas DEF Bool
  <2>2. h \in 0..1
    BY DEF Bool
  <2>3. c \in 0..1
    BY FlagHas DEF Bool, Byte
  <2> QED BY <2>1, <2>2, <2>3
<1>3. Sub(a, v, g) = Result(w, Flags(z, 1, h, c))
  BY DEF Sub
<1>4. z = Bool(a = v) /\ h = Bool(v % 16 > a % 16) /\ c = Bool(v > a)
  OBVIOUS
<1> HIDE DEF z, h, c, w
<1> QED BY <1>1, <1>2, <1>3, <1>4, ResultIs, ZeroOfByte DEF Bool, w

LEMMA SbcIs ==
  ASSUME NEW a \in Byte, NEW v \in Byte, NEW g \in Flag
  PROVE  LET r == Sbc(a, v, g)
         IN Fine(r) /\ r.v = (a - v - g.c) % 256
<1> DEFINE w == (a - v - g.c) % 256
           z == Zero(w)
           h == Bool((a % 16) - (v % 16) - g.c < 0)
           c == Bool(a < v + g.c)
<1>1. w \in Byte
  <2>1. g.c \in 0..1
    BY FlagHas
  <2>2. a - v - g.c \in Int
    BY <2>1 DEF Byte
  <2> QED BY <2>2, ByteOf
<1>2. z \in 0..1 /\ h \in 0..1 /\ c \in 0..1
  <2>1. z \in 0..1
    BY <1>1, ZeroOfByte, FlagHas DEF Bool
  <2>2. h \in 0..1
    BY DEF Bool
  <2>3. c \in 0..1
    BY FlagHas DEF Bool, Byte
  <2> QED BY <2>1, <2>2, <2>3
<1>3. Sbc(a, v, g) = Result(w, Flags(z, 1, h, c))
  BY DEF Sbc
<1>4. z = Zero(w) /\ h = Bool((a % 16) - (v % 16) - g.c < 0) /\ c = Bool(a < v + g.c)
  OBVIOUS
<1> HIDE DEF z, h, c, w
<1> QED BY <1>1, <1>2, <1>3, <1>4, ResultIs, ZeroOfByte DEF Bool, w

LEMMA IncIs ==
  ASSUME NEW v \in Byte, NEW g \in Flag
  PROVE  LET r == Inc(v, g)
         IN Fine(r) /\ r.v = (v + 1) % 256 /\ r.f.c = g.c
<1> DEFINE w == (v + 1) % 256
           z == Zero(w)
           h == Bool((v % 16) + 1 > 15)
           c == g.c
<1>1. w \in Byte
  BY DEF Byte
<1>2. z \in 0..1 /\ h \in 0..1 /\ c \in 0..1
  <2>1. z \in 0..1
    BY <1>1, ZeroOfByte, FlagHas DEF Bool
  <2>2. h \in 0..1
    BY DEF Bool
  <2>3. c \in 0..1
    BY FlagHas DEF Bool, Byte
  <2> QED BY <2>1, <2>2, <2>3
<1>3. Inc(v, g) = Result(w, Flags(z, 0, h, c))
  BY DEF Inc
<1>4. z = Zero(w) /\ h = Bool((v % 16) + 1 > 15) /\ c = g.c
  OBVIOUS
<1> HIDE DEF z, h, c, w
<1> QED BY <1>1, <1>2, <1>3, <1>4, ResultIs, ZeroOfByte DEF Bool, w

LEMMA DecIs ==
  ASSUME NEW v \in Byte, NEW g \in Flag
  PROVE  LET r == Dec(v, g)
         IN Fine(r) /\ r.v = (v - 1) % 256 /\ r.f.c = g.c /\ r.f.z = (IF (v - 1) % 256 = 0 THEN 1 ELSE 0)
<1> DEFINE w == (v - 1) % 256
           z == Zero(w)
           h == Bool((v - 1) % 16 = 15)
           c == g.c
<1>1. w \in Byte
  BY DEF Byte
<1>2. z \in 0..1 /\ h \in 0..1 /\ c \in 0..1
  <2>1. z \in 0..1
    BY <1>1, ZeroOfByte, FlagHas DEF Bool
  <2>2. h \in 0..1
    BY DEF Bool
  <2>3. c \in 0..1
    BY FlagHas DEF Bool, Byte
  <2> QED BY <2>1, <2>2, <2>3
<1>3. Dec(v, g) = Result(w, Flags(z, 1, h, c))
  BY DEF Dec
<1>4. z = Zero(w) /\ h = Bool((v - 1) % 16 = 15) /\ c = g.c
  OBVIOUS
<1> HIDE DEF z, h, c, w
<1> QED BY <1>1, <1>2, <1>3, <1>4, ResultIs, ZeroOfByte DEF Bool, w

LEMMA CplIs ==
  ASSUME NEW v \in Byte, NEW g \in Flag
  PROVE  LET r == Cpl(v, g)
         IN Fine(r) /\ r.v = 255 - v
<1> DEFINE w == 255 - v
           z == g.z
           h == 1
           c == g.c
<1>1. w \in Byte
  BY DEF Byte
<1>2. z \in 0..1 /\ h \in 0..1 /\ c \in 0..1
  <2>1. z \in 0..1
    BY <1>1, ZeroOfByte, FlagHas DEF Bool
  <2>2. h \in 0..1
    BY DEF Bool
  <2>3. c \in 0..1
    BY FlagHas DEF Bool, Byte
  <2> QED BY <2>1, <2>2, <2>3
<1>3. Cpl(v, g) = Result(w, Flags(z, 1, h, c))
  BY DEF Cpl
<1>4. z = g.z /\ h = 1 /\ c = g.c
  OBVIOUS
<1> HIDE DEF z, h, c, w
<1> QED BY <1>1, <1>2, <1>3, <1>4, ResultIs, ZeroOfByte DEF Bool, w

LEMMA ScfIs ==
  ASSUME NEW v \in Byte, NEW g \in Flag
  PROVE  LET r == Scf(v, g)
         IN Fine(r) /\ r.v = v /\ r.f.c = 1
<1> DEFINE w == v
           z == g.z
           h == 0
           c == 1
<1>1. w \in Byte
  BY DEF Byte
<1>2. z \in 0..1 /\ h \in 0..1 /\ c \in 0..1
  <2>1. z \in 0..1
    BY <1>1, ZeroOfByte, FlagHas DEF Bool
  <2>2. h \in 0..1
    BY DEF Bool
  <2>3. c \in 0..1
    BY FlagHas DEF Bool, Byte
  <2> QED BY <2>1, <2>2, <2>3
<1>3. Scf(v, g) = Result(w, Flags(z, 0, h, c))
  BY DEF Scf
<1>4. z = g.z /\ h = 0 /\ c = 1
  OBVIOUS
<1> HIDE DEF z, h, c, w
<1> QED BY <1>1, <1>2, <1>3, <1>4, ResultIs, ZeroOfByte DEF Bool, w

LEMMA CcfIs ==
  ASSUME NEW v \in Byte, NEW g \in Flag
  PROVE  LET r == Ccf(v, g)
         IN Fine(r) /\ r.v = v /\ r.f.c = 1 - g.c
<1> DEFINE w == v
           z == g.z
           h == 0
           c == 1 - g.c
<1>1. w \in Byte
  BY DEF Byte
<1>2. z \in 0..1 /\ h \in 0..1 /\ c \in 0..1
  <2>1. z \in 0..1
    BY <1>1, ZeroOfByte, FlagHas DEF Bool
  <2>2. h \in 0..1
    BY DEF Bool
  <2>3. c \in 0..1
    BY FlagHas DEF Bool, Byte
  <2> QED BY <2>1, <2>2, <2>3
<1>3. Ccf(v, g) = Result(w, Flags(z, 0, h, c))
  BY DEF Ccf
<1>4. z = g.z /\ h = 0 /\ c = 1 - g.c
  OBVIOUS
<1> HIDE DEF z, h, c, w
<1> QED BY <1>1, <1>2, <1>3, <1>4, ResultIs, ZeroOfByte DEF Bool, w

LEMMA RlIs ==
  ASSUME NEW v \in Byte, NEW g \in Flag
  PROVE  LET r == Rl(v, g)
         IN Fine(r) /\ r.v = ((2 * v) % 256) + g.c /\ r.f.c = v \div 128
<1> DEFINE w == ((2 * v) % 256) + g.c
           z == Zero(w)
           h == 0
           c == v \div 128
<1>1. w \in Byte
  BY FlagHas DEF Byte
<1>2. z \in 0..1 /\ h \in 0..1 /\ c \in 0..1
  <2>1. z \in 0..1
    BY <1>1, ZeroOfByte, FlagHas DEF Bool
  <2>2. h \in 0..1
    BY DEF Bool
  <2>3. c \in 0..1
    BY FlagHas DEF Bool, Byte
  <2> QED BY <2>1, <2>2, <2>3
<1>3. Rl(v, g) = Result(w, Flags(z, 0, h, c))
  BY DEF Rl, Shifted
<1>4. z = Zero(w) /\ h = 0 /\ c = v \div 128
  OBVIOUS
<1> HIDE DEF z, h, c, w
<1> QED BY <1>1, <1>2, <1>3, <1>4, ResultIs, ZeroOfByte DEF Bool, w

LEMMA RrIs ==
  ASSUME NEW v \in Byte, NEW g \in Flag
  PROVE  LET r == Rr(v, g)
         IN Fine(r) /\ r.v = (v \div 2) + 128 * g.c /\ r.f.c = v % 2
<1> DEFINE w == (v \div 2) + 128 * g.c
           z == Zero(w)
           h == 0
           c == v % 2
<1>1. w \in Byte
  BY FlagHas DEF Byte
<1>2. z \in 0..1 /\ h \in 0..1 /\ c \in 0..1
  <2>1. z \in 0..1
    BY <1>1, ZeroOfByte, FlagHas DEF Bool
  <2>2. h \in 0..1
    BY DEF Bool
  <2>3. c \in 0..1
    BY FlagHas DEF Bool, Byte
  <2> QED BY <2>1, <2>2, <2>3
<1>3. Rr(v, g) = Result(w, Flags(z, 0, h, c))
  BY DEF Rr, Shifted
<1>4. z = Zero(w) /\ h = 0 /\ c = v % 2
  OBVIOUS
<1> HIDE DEF z, h, c, w
<1> QED BY <1>1, <1>2, <1>3, <1>4, ResultIs, ZeroOfByte DEF Bool, w

LEMMA SlaIs ==
  ASSUME NEW v \in Byte, NEW g \in Flag
  PROVE  LET r == Sla(v, g)
         IN Fine(r) /\ r.v = (2 * v) % 256 /\ r.f.c = v \div 128
<1> DEFINE w == (2 * v) % 256
           z == Zero(w)
           h == 0
           c == v \div 128
<1>1. w \in Byte
  BY DEF Byte
<1>2. z \in 0..1 /\ h \in 0..1 /\ c \in 0..1
  <2>1. z \in 0..1
    BY <1>1, ZeroOfByte, FlagHas DEF Bool
  <2>2. h \in 0..1
    BY DEF Bool
  <2>3. c \in 0..1
    BY FlagHas DEF Bool, Byte
  <2> QED BY <2>1, <2>2, <2>3
<1>3. Sla(v, g) = Result(w, Flags(z, 0, h, c))
  BY DEF Sla, Shifted
<1>4. z = Zero(w) /\ h = 0 /\ c = v \div 128
  OBVIOUS
<1> HIDE DEF z, h, c, w
<1> QED BY <1>1, <1>2, <1>3, <1>4, ResultIs, ZeroOfByte DEF Bool, w

LEMMA SraIs ==
  ASSUME NEW v \in Byte, NEW g \in Flag
  PROVE  LET r == Sra(v, g)
         IN Fine(r) /\ r.v = (v \div 2) + 128 * (v \div 128) /\ r.f.c = v % 2
<1> DEFINE w == (v \div 2) + 128 * (v \div 128)
           z == Zero(w)
           h == 0
           c == v % 2
<1>1. w \in Byte
  BY DEF Byte
<1>2. z \in 0..1 /\ h \in 0..1 /\ c \in 0..1
  <2>1. z \in 0..1
    BY <1>1, ZeroOfByte, FlagHas DEF Bool
  <2>2. h \in 0..1
    BY DEF Bool
  <2>3. c \in 0..1
    BY FlagHas DEF Bool, Byte
  <2> QED BY <2>1, <2>2, <2>3
<1>3. Sra(v, g) = Result(w, Flags(z, 0, h, c))
  BY DEF Sra, Shifted
<1>4. z = Zero(w) /\ h = 0 /\ c = v % 2
  OBVIOUS
<1> HIDE DEF z, h, c, w
<1> QED BY <1>1, <1>2, <1>3, <1>4, ResultIs, ZeroOfByte DEF Bool, w

LEMMA SrlIs ==
  ASSUME NEW v \in Byte, NEW g \in Flag
  PROVE  LET r == Srl(v, g)
         IN Fine(r) /\ r.v = v \div 2 /\ r.f.c = v % 2
<1> DEFINE w == v \div 2
           z == Zero(w)
           h == 0
           c == v % 2
<1>1. w \in Byte
  BY DEF Byte
<1>2. z \in 0..1 /\ h \in 0..1 /\ c \in 0..1
  <2>1. z \in 0..1
    BY <1>1, ZeroOfByte, FlagHas DEF Bool
  <2>2. h \in 0..1
    BY DEF Bool
  <2>3. c \in 0..1
    BY FlagHas DEF Bool, Byte
  <2> QED BY <2>1, <2>2, <2>3
<1>3. Srl(v, g) = Result(w, Flags(z, 0, h, c))
  BY DEF Srl, Shifted
<1>4. z = Zero(w) /\ h = 0 /\ c = v % 2
  OBVIOUS
<1> HIDE DEF z, h, c, w
<1> QED BY <1>1, <1>2, <1>3, <1>4, ResultIs, ZeroOfByte DEF Bool, w

LEMMA SwapIs ==
  ASSUME NEW v \in Byte, NEW g \in Flag
  PROVE  LET r == Swap(v, g)
         IN Fine(r) /\ r.v = ((v % 16) * 16) + (v \div 16)
<1> DEFINE w == ((v % 16) * 16) + (v \div 16)
           z == Zero(w)
           h == 0
           c == 0
<1>1. w \in Byte
  BY DEF Byte
<1>2. z \in 0..1 /\ h \in 0..1 /\ c \in 0..1
  <2>1. z \in 0..1
    BY <1>1, ZeroOfByte, FlagHas DEF Bool
  <2>2. h \in 0..1
    BY DEF Bool
  <2>3. c \in 0..1
    BY FlagHas DEF Bool, Byte
  <2> QED BY <2>1, <2>2, <2>3
<1>3. Swap(v, g) = Result(w, Flags(z, 0, h, c))
  BY DEF Swap, Shifted
<1>4. z = Zero(w) /\ h = 0 /\ c = 0
  OBVIOUS
<1> HIDE DEF z, h, c, w
<1> QED BY <1>1, <1>2, <1>3, <1>4, ResultIs, ZeroOfByte DEF Bool, w

LEMMA CpIs ==
  ASSUME NEW a \in Byte, NEW v \in Byte, NEW g \in Flag
  PROVE  LET r == Cp(a, v, g) IN Fine(r) /\ r.v = a /\ r.f.c = (IF v > a THEN 1 ELSE 0)
<1>1. Fine(Sub(a, v, g)) /\ Sub(a, v, g).f.c = (IF v > a THEN 1 ELSE 0)
  BY SubIs
<1>2. Cp(a, v, g).v = a /\ Cp(a, v, g).f = Sub(a, v, g).f
  BY DEF Cp, Result
<1> QED BY <1>1, <1>2 DEF Fine

(* Bits of a byte *)
LEMMA Powers ==
  /\ Value(0) = 1 /\ Value(1) = 2 /\ Value(2) = 4 /\ Value(3) = 8 /\ Value(4) = 16
  /\ Value(5) = 32 /\ Value(6) = 64 /\ Value(7) = 128
BY DEF Value

(* BitOf in terms of quotients and remainders *)
LEMMA BitsOf ==
  ASSUME NEW v \in Byte
  PROVE  /\ BitOf(v, 0) = v % 2 /\ BitOf(v, 1) = (v \div 2) % 2 /\ BitOf(v, 2) = (v \div 4) % 2
         /\ BitOf(v, 3) = (v \div 8) % 2 /\ BitOf(v, 4) = (v \div 16) % 2
         /\ BitOf(v, 5) = (v \div 32) % 2 /\ BitOf(v, 6) = (v \div 64) % 2
         /\ BitOf(v, 7) = v \div 128
<1>1. v \div 1 = v
  BY DEF Byte
<1>2. (v \div 128) % 2 = v \div 128
  BY DEF Byte
<1> QED BY <1>1, <1>2, Powers DEF BitOf

LEMMA LowNibble ==
  ASSUME NEW v \in 0..255
  PROVE  v % 16 = (v % 2) + ((v \div 2) % 2) * 2 + ((v \div 4) % 2) * 4 + ((v \div 8) % 2) * 8
OBVIOUS

LEMMA BitsOf15 ==
  /\ BitOf(15, 0) = 1 /\ BitOf(15, 1) = 1 /\ BitOf(15, 2) = 1 /\ BitOf(15, 3) = 1
  /\ BitOf(15, 4) = 0 /\ BitOf(15, 5) = 0 /\ BitOf(15, 6) = 0 /\ BitOf(15, 7) = 0
BY Powers DEF BitOf

LEMMA And15Is ==
  ASSUME NEW v \in Byte, NEW g \in Flag
  PROVE  LET r == And(v, 15, g) IN Fine(r) /\ r.v = v % 16
<1> DEFINE both(x, y) == x * y
           w == Bitwise8(both, v, 15)
<1>1. \A i \in 0..7 : BitOf(v, i) \in 0..1
  BY Powers DEF BitOf, Byte
<1>2. w = BitOf(v, 0) + BitOf(v, 1) * 2 + BitOf(v, 2) * 4 + BitOf(v, 3) * 8
  BY <1>1, BitsOf15, Powers DEF Bitwise8
<1>3. v \in 0..255
  BY DEF Byte
<1>4. w = v % 16
  BY <1>2, <1>3, BitsOf, LowNibble
<1>5. And(v, 15, g) = Result(w, Flags(Zero(w), 0, 1, 0))
  BY DEF And
<1> HIDE DEF w
<1>6. w \in Byte
  BY <1>3, <1>4 DEF Byte
<1> QED BY <1>4, <1>5, <1>6, ResultIs, ZeroOfByte

LEMMA XorSelfIs ==
  ASSUME NEW v \in Byte, NEW g \in Flag
  PROVE  LET r == Xor(v, v, g) IN Fine(r) /\ r.v = 0 /\ r.f.c = 0
<1> DEFINE one(x, y) == Bool(x # y)
           w == Bitwise8(one, v, v)
<1>1. \A x : one(x, x) = 0
  BY DEF Bool
<1>2. w = 0
  BY <1>1, Powers DEF Bitwise8
<1>5. Xor(v, v, g) = Result(w, Flags(Zero(w), 0, 0, 0))
  BY DEF Xor
<1>6. 0 \in Byte
  BY DEF Byte
<1> HIDE DEF w
<1> QED BY <1>2, <1>5, <1>6, ResultIs, ZeroOfByte

(* setting the lowest bit of an even number *)
LEMMA SetLowest ==
  ASSUME NEW v \in Byte, v % 2 = 0, NEW g \in Flag
  PROVE  LET r == Result(SetBit(0, v), g) IN Fine(r) /\ r.v = v + 1 /\ r.f = g
<1>1. BitOf(v, 0) = 0
  BY BitsOf
<1>2. SetBit(0, v) = v + 1
  <2>1. (1 - BitOf(v, 0)) * Value(0) = 1
    BY <1>1, Powers
  <2>2. v \in Int
    BY DEF Byte
  <2> QED BY <2>1, <2>2 DEF SetBit
<1>3. v + 1 \in Byte
  BY DEF Byte
<1> QED BY <1>2, <1>3 DEF Result, Fine

LEMMA SignBit ==
  ASSUME NEW v \in Byte, NEW g \in Flag
  PROVE  TestBit(7, v, g) \in Flag /\ TestBit(7, v, g).z = (IF v > 127 THEN 0 ELSE 1)
<1>1. BitOf(v, 7) = (IF v > 127 THEN 1 ELSE 0)
  BY BitsOf DEF Byte
<1>2. Bool(BitOf(v, 7) = 0) = (IF v > 127 THEN 0 ELSE 1)
  BY <1>1 DEF Bool
<1>3. g.c \in 0..1 /\ Bool(BitOf(v, 7) = 0) \in 0..1
  BY <1>2, FlagHas
<1> QED BY <1>2, <1>3, FlagsAre DEF TestBit

(* Words *)
LEMMA AddHLIs ==
  ASSUME NEW x \in Nat, NEW v \in Nat, NEW g \in Flag
  PROVE  LET r == AddHL(x, v, g)
         IN r.v \in Nat /\ r.v < 65536 /\ r.v = (x + v) % 65536 /\ r.f \in Flag
<1>1. g.z \in 0..1 /\ Bool((x % 4096) + (v % 4096) > 4095) \in 0..1 /\ Bool(x + v > 65535) \in 0..1
  BY FlagHas DEF Bool
<1>2. AddHL(x, v, g).f \in Flag
  BY <1>1, FlagsAre DEF AddHL, Result
<1>3. AddHL(x, v, g).v = (x + v) % 65536
  BY DEF AddHL, Result
<1>4. (x + v) % 65536 \in Nat /\ (x + v) % 65536 < 65536
  OBVIOUS
<1> QED BY <1>2, <1>3, <1>4

LEMMA AddSPIs ==
  ASSUME NEW x \in 10..16, NEW v \in {0, 1, 254}
  PROVE  LET r == AddSP(x, v)
         IN r.v = (IF v = 254 THEN x - 2 ELSE x + v) /\ r.f \in Flag
<1>1. Bool((x % 16) + (v % 16) > 15) \in 0..1 /\ Bool((x % 256) + v > 255) \in 0..1
  BY DEF Bool
<1>2. AddSP(x, v).f \in Flag
  BY <1>1, FlagsAre DEF AddSP, Result
<1>3. AddSP(x, v).v = (x + Signed(v)) % 65536
  BY DEF AddSP, Result
<1>4. Signed(v) = (IF v = 254 THEN -2 ELSE v)
  BY DEF Signed
<1>5. (x + Signed(v)) % 65536 = (IF v = 254 THEN x - 2 ELSE x + v)
  BY <1>4
<1> QED BY <1>2, <1>3, <1>5

-----------------------------------------------------------------------------
(* The inductive invariant of the routines: for every address, what the     *)
(* registers, the flags, the stack and memory hold when the program is      *)
(* there, in terms of the registers z.reg it started with                   *)

(* Powers of two, up to the ninth *)
Two(k) == <<1, 2, 4, 8, 16, 32, 64, 128, 256>>[k + 1]

(* return address `to' at the bottom of the stack *)
Called(to, m) == m[14] + 256 * m[15] = to

Wide(r, hi, lo) == r[hi] * 256 + r[lo]

(* The digit d on its way to its character, at cell `at' *)
Converting(j, r, g, m, d, at) ==
  /\ r["h"] = 0 /\ r["l"] = (IF j = 11 THEN at + 1 ELSE at)
  /\ \/ j = 5 /\ r["a"] % 16 = d
     \/ j = 6 /\ r["a"] = d
     \/ j = 7 /\ r["a"] = d + 144 /\ g.n = 0 /\ g.h = 0 /\ g.c = 0
     \/ j = 8 /\ r["a"] = (IF d < 10 THEN d + 144 ELSE d - 10) /\ g.c = (IF d < 10 THEN 0 ELSE 1)
     \/ j = 9 /\ r["a"] = (IF d < 10 THEN d + 208 ELSE d + 55) /\ g.n = 0 /\ g.h = 0 /\ g.c = 0
     \/ j = 10 /\ r["a"] = Ascii(d)
     \/ j = 11 /\ m[at] = Ascii(d)

HexInv(z, j, r, g, s, m) ==
  /\ z.ip = 236 /\ Called(237, m) /\ z.reg["h"] = 0 /\ z.reg["l"] = 0
  /\ \/ j = 1 /\ s = 14 /\ r = z.reg
     \/ /\ s = 12 /\ m[13] = z.reg["a"] /\ r["h"] = 0
        /\ \/ j = 2 /\ r["l"] = 0 /\ r["a"] = z.reg["a"]
           \/ j = 3 /\ r["l"] = 0 /\ r["a"] = (z.reg["a"] % 16) * 16 + (z.reg["a"] \div 16)
           \/ j = 4 /\ r["l"] = 1 /\ m[0] = Ascii(z.reg["a"] \div 16)
     \/ /\ s = 10 /\ m[10] = 5 /\ m[11] = 1 /\ m[13] = z.reg["a"]
        /\ Converting(j, r, g, m, z.reg["a"] \div 16, 0)
     \/ /\ s = 14 /\ m[0] = Ascii(z.reg["a"] \div 16)
        /\ Converting(j, r, g, m, z.reg["a"] % 16, 1)

(* What is left to multiply: HL + factor * (what DE becomes) is the product. *)
MulInv(z, j, r, g, s, m) ==
  /\ z.ip = 238 /\ Called(239, m) /\ s = 14
  /\ LET P  == z.reg["b"] * z.reg["c"]
         w  == Wide(r, "h", "l")
         de == Wide(r, "d", "e")
         b  == r["b"]
     IN \/ j \in 1..3 /\ b = z.reg["b"] /\ r["c"] = z.reg["c"] /\ (j > 1 => w = 0) /\ (j = 3 => r["d"] = 0)
        \/ j = 4 /\ w + b * de = P
        \/ j = 5 /\ b < 128 /\ w + (2 * b + g.c) * de = P
        \/ j = 6 /\ b < 128 /\ w + (2 * b + 1) * de = P
        \/ j = 7 /\ b < 128 /\ w + b * (2 * de) = P
        \/ j = 8 /\ b < 128 /\ w + b * (512 * r["d"] + 256 * g.c + r["e"]) = P
        \/ j = 9 /\ b < 128 /\ w + b * de = P
        \/ j = 10 /\ b \in 1..128 /\ w + (b - 1) * de = P
        \/ j = 11 /\ b < 128 /\ w + b * de = P /\ g.z = (IF b = 0 THEN 1 ELSE 0)
        \/ j = 12 /\ w = P

(* All but k bits of the dividend n are divided: q is the quotient so far, c *)
(* holds what is left and q.                                                 *)
Left(n, k, c, q) == c = (n % Two(k)) * Two(8 - k) + q /\ q < Two(8 - k)

Divided(z, k, a, c, q) ==
  a + q * z.reg["e"] = z.reg["c"] \div Two(k) /\ Left(z.reg["c"], k, c, q)

DivInv(z, j, r, g, s, m) ==
  /\ z.ip = 240 /\ Called(242, m) /\ s = 14 /\ z.reg["e"] \in 1..128 /\ r["e"] = z.reg["e"]
  /\ LET a == r["a"]
         b == r["b"]
         c == r["c"]
         e == z.reg["e"]
     IN \/ j = 1 /\ c = z.reg["c"]
        \/ j = 2 /\ c = z.reg["c"] /\ a = 0
        \/ j = 3 /\ b \in 1..8 /\ a < e /\ \E q \in Byte : Divided(z, b, a, c, q)
        \/ j = 4 /\ b \in 1..8 /\ a < e /\ \E q \in Byte : Divided(z, b - 1, 2 * a + g.c, c, 2 * q)
        \/ j \in 5..7 /\ b \in 1..8 /\ a < 2 * e /\ (j = 6 => g.c = (IF e > a THEN 1 ELSE 0)) /\ (j = 7 => a >= e)
                      /\ \E q \in Byte : Divided(z, b - 1, a, c, 2 * q)
        \/ j = 8 /\ b \in 1..8 /\ a < e /\ \E q \in Byte : Divided(z, b - 1, a + e, c, 2 * q)
        \/ j = 9 /\ b \in 1..8 /\ a < e /\ \E q \in Byte : Divided(z, b - 1, a, c, q)
        \/ j = 10 /\ b \in 0..7 /\ a < e /\ (\E q \in Byte : Divided(z, b, a, c, q)) /\ g.z = (IF b = 0 THEN 1 ELSE 0)
        \/ j = 11 /\ a < e /\ \E q \in Byte : Divided(z, 0, a, c, q)

LowSum(z) == AddBytes(z.reg["c"], z.reg["e"], 0)
LowDigits(z) == Daa(LowSum(z).v, LowSum(z).f)
HighSum(z) == AddBytes(z.reg["b"], z.reg["d"], LowDigits(z).f.c)
HighDigits(z) == Daa(HighSum(z).v, HighSum(z).f)

SumInv(z, j, r, g, s, m) ==
  /\ z.ip = 243 /\ Called(244, m) /\ s = 14
  /\ r["d"] = z.reg["d"] /\ r["e"] = z.reg["e"] /\ (j < 9 => r["b"] = z.reg["b"])
  /\ r["c"] = (IF j < 5 THEN z.reg["c"] ELSE LowDigits(z).v)
  /\ \/ j = 1
     \/ j = 2 /\ r["a"] = z.reg["c"]
     \/ j = 3 /\ r["a"] = LowSum(z).v /\ g = LowSum(z).f
     \/ j = 4 /\ r["a"] = LowDigits(z).v /\ g = LowDigits(z).f
     \/ j = 5 /\ g = LowDigits(z).f
     \/ j = 6 /\ g = LowDigits(z).f /\ r["a"] = z.reg["b"]
     \/ j = 7 /\ r["a"] = HighSum(z).v /\ g = HighSum(z).f
     \/ j = 8 /\ r["a"] = HighDigits(z).v /\ g = HighDigits(z).f
     \/ j = 9 /\ r["b"] = HighDigits(z).v /\ g = HighDigits(z).f

LowDiff(z) == Sbc(z.reg["c"], z.reg["e"], Flags(0, 0, 0, 0))
LowLeft(z) == Daa(LowDiff(z).v, LowDiff(z).f)
HighDiff(z) == Sbc(z.reg["b"], z.reg["d"], LowLeft(z).f)
HighLeft(z) == Daa(HighDiff(z).v, HighDiff(z).f)

DiffInv(z, j, r, g, s, m) ==
  /\ z.ip = 245 /\ Called(246, m) /\ s = 14
  /\ r["d"] = z.reg["d"] /\ r["e"] = z.reg["e"] /\ (j < 11 => r["b"] = z.reg["b"])
  /\ r["c"] = (IF j < 7 THEN z.reg["c"] ELSE LowLeft(z).v)
  /\ \/ j = 1
     \/ j = 2 /\ r["a"] = z.reg["c"]
     \/ j = 3 /\ r["a"] = z.reg["c"] /\ g.c = 1
     \/ j = 4 /\ r["a"] = z.reg["c"] /\ g.c = 0
     \/ j = 5 /\ r["a"] = LowDiff(z).v /\ g = LowDiff(z).f
     \/ j = 6 /\ r["a"] = LowLeft(z).v /\ g = LowLeft(z).f
     \/ j = 7 /\ g = LowLeft(z).f
     \/ j = 8 /\ g = LowLeft(z).f /\ r["a"] = z.reg["b"]
     \/ j = 9 /\ r["a"] = HighDiff(z).v /\ g = HighDiff(z).f
     \/ j = 10 /\ r["a"] = HighLeft(z).v /\ g = HighLeft(z).f
     \/ j = 11 /\ r["b"] = HighLeft(z).v /\ g = HighLeft(z).f

AbsInv(z, j, r, g, s, m) ==
  /\ z.ip = 247 /\ Called(248, m) /\ s = 14 /\ (j > 2 => z.reg["h"] > 127)
  /\ j < 10 => /\ r["l"] = (IF j < 6 THEN z.reg["l"] ELSE 255 - z.reg["l"])
               /\ r["h"] = (IF j < 9 THEN z.reg["h"] ELSE 255 - z.reg["h"])
  /\ \/ j \in {1, 3, 6, 9}
     \/ j = 2 /\ g.z = (IF z.reg["h"] > 127 THEN 0 ELSE 1)
     \/ j = 4 /\ r["a"] = z.reg["l"]
     \/ j = 5 /\ r["a"] = 255 - z.reg["l"]
     \/ j = 7 /\ r["a"] = z.reg["h"]
     \/ j = 8 /\ r["a"] = 255 - z.reg["h"]
     \/ j = 10 /\ Wide(r, "h", "l") = 65536 - Wide(z.reg, "h", "l")

(* the lowest k bits of x are the highest of those of y, in reverse order *)
Reversed(k, x, y) == \A i \in 0..7 : i < k => BitOf(x, i) = BitOf(y, k - 1 - i)

ReverseInv(z, j, r, g, s, m) ==
  /\ z.ip = 249 /\ Called(250, m) /\ s = 14
  /\ LET a == r["a"]
         b == r["b"]
         c == r["c"]
         A == z.reg["a"]
     IN \/ j = 1 /\ a = A
        \/ j = 2 /\ c = A
        \/ j = 3 /\ b \in 1..8 /\ c = A \div Two(8 - b) /\ Reversed(8 - b, a, A)
        \/ j = 4 /\ b \in 1..8 /\ c = A \div Two(9 - b) /\ Reversed(8 - b, a, A) /\ g.c = BitOf(A, 8 - b)
        \/ j = 5 /\ b \in 1..8 /\ c = A \div Two(9 - b) /\ Reversed(9 - b, a, A)
        \/ j = 6 /\ b \in 0..7 /\ c = A \div Two(8 - b) /\ Reversed(8 - b, a, A)
                 /\ g.z = (IF b = 0 THEN 1 ELSE 0)
        \/ j = 7 /\ Reversed(8, a, A)

FrameInv(z, j, r, g, s, m) ==
  /\ z.ip = 251 /\ Called(252, m)
  /\ s = (IF j \in {1, 12} THEN 14 ELSE IF j = 11 THEN 13 ELSE 12)
  /\ r["b"] = z.reg["b"] /\ r["c"] = z.reg["c"]
  /\ j \in 3..10 => r["h"] = 0 /\ r["l"] = (IF j \in {3, 4, 7, 8} THEN 12 ELSE 13)
  /\ j \in 4..8 => m[12] = z.reg["c"]
  /\ j = 6 => m[13] = z.reg["b"]
  /\ j = 7 => r["a"] = z.reg["b"]
  /\ j >= 8 => r["d"] = z.reg["b"]
  /\ j = 9 => r["a"] = z.reg["c"]
  /\ j >= 10 => r["e"] = z.reg["c"]

HalfInv(z, j, r, g, s, m) ==
  /\ z.ip = 253 /\ Called(254, m) /\ s = 14
  /\ r["h"] = (IF j = 1 THEN z.reg["h"] ELSE (z.reg["h"] \div 2) + 128 * (z.reg["h"] \div 128))
  /\ r["l"] = (IF j < 3 THEN z.reg["l"] ELSE (z.reg["l"] \div 2) + 128 * (z.reg["h"] % 2))
  /\ j = 2 => g.c = z.reg["h"] % 2

CopyInv(z, j, r, g, s, m) ==
  /\ z.ip = 256 /\ Called(257, m)
  /\ s = (IF j = 5 THEN 13 ELSE 14)
  /\ j \notin {10, 13, 16, 20, 23, 24} => r["a"] = z.reg["a"]
  /\ j >= 2 => m[0] = 14 /\ m[1] = 0
  /\ j >= 3 => r["h"] = 0 /\ r["l"] = (IF j = 3 THEN 2 ELSE 16)
  /\ j \in 7..17 => r["b"] = 0 /\ r["c"] = 2
  /\ j >= 8 => r["d"] = 0 /\ r["e"] = 3
  /\ j >= 9 => m[2] = z.reg["a"]
  /\ j >= 12 => m[3] = z.reg["a"]
  /\ j >= 15 => m[4] = z.reg["a"]
  /\ j \in 18..23 => r["c"] = 129
  /\ j >= 19 => m[65409] = z.reg["a"]
  /\ j >= 22 => m[65410] = z.reg["a"]
  /\ j = 24 => r["c"] = 130

(* before the call *)
CallInv(z, p, r, g, s, m) ==
  \/ p = z.ip /\ s = 16 /\ r = z.reg /\ g.z = 0 /\ p \in {236, 238, 240, 243, 245, 247, 249, 251, 253, 256}
  \/ /\ z.ip = 240 /\ r["h"] = 1 /\ r["l"] = 25 /\ r["c"] = z.reg["c"] /\ r["e"] = z.reg["e"]
     /\ \/ p = 241 /\ s = 16 /\ g.z = 0
        \/ p = 255 /\ s = 14 /\ Called(242, m)

Running(z, p, r, g, s, m) ==
  \/ CallInv(z, p, r, g, s, m)
  \/ p \in 258..268 /\ HexInv(z, p - 257, r, g, s, m)
  \/ p \in 269..280 /\ MulInv(z, p - 268, r, g, s, m)
  \/ p \in 281..291 /\ DivInv(z, p - 280, r, g, s, m)
  \/ p \in 292..300 /\ SumInv(z, p - 291, r, g, s, m)
  \/ p \in 301..311 /\ DiffInv(z, p - 300, r, g, s, m)
  \/ p \in 312..321 /\ AbsInv(z, p - 311, r, g, s, m)
  \/ p \in 322..328 /\ ReverseInv(z, p - 321, r, g, s, m)
  \/ p \in 329..340 /\ FrameInv(z, p - 328, r, g, s, m)
  \/ p \in 341..343 /\ HalfInv(z, p - 340, r, g, s, m)
  \/ p \in 344..368 /\ CopyInv(z, p - 343, r, g, s, m)

Finished ==
  /\ sp = 16 /\ ip = (IF start.ip = 240 THEN 242 ELSE start.ip + 1)
  /\ start.ip \in {236, 238, 240, 243, 245, 247, 249, 251, 253, 256}
  /\ Correct(reg, start.reg)

(* The handler has interrupted the program at p, with registers r, flags g, stack s. *)
Saved(j, p, r, g, s) ==
  /\ sp = s - (IF j \in {1, 10} THEN 2 ELSE IF j \in {2, 9} THEN 4 ELSE 6)
  /\ mem[s - 1] = p \div 256 /\ mem[s - 2] = p % 256
  /\ j \in 2..9 => mem[s - 3] = r["a"] /\ mem[s - 4] = g.z * 128 + g.n * 64 + g.h * 32 + g.c * 16
  /\ j \in 3..8 => mem[s - 5] = r["h"] /\ mem[s - 6] = r["l"]
  /\ \A x \in {"b", "c", "d", "e"} : reg[x] = r[x]
  /\ j \in {1, 2, 9, 10} => reg["h"] = r["h"] /\ reg["l"] = r["l"]
  /\ j \in {1, 2, 10} => reg["a"] = r["a"] 
  /\ j \in {1, 10} => f = g
  /\ j = 4 => reg["a"] = mem[Count]
  /\ j = 5 => reg["a"] = mem[Count] + 1

Counted == mem[Count] + irqs + (IF ~master /\ ip < 374 THEN 1 ELSE 0) = start.mem[Count] + MaxIrqs

(* The instructions, one by one, as the text at each address gives them *)
LEMMA MainIs ==
  /\ Code[236] = Go("CALL", "always", 258) /\ Code[237] = Op("HALT")
  /\ Code[238] = Go("CALL", "always", 269) /\ Code[239] = Op("HALT")
  /\ Code[240] = Ld16("hl", 281) /\ Code[241] = Go("CALL", "nz", 255)
  /\ Code[242] = Op("HALT") /\ Code[243] = Go("CALL", "always", 292)
  /\ Code[244] = Op("HALT") /\ Code[245] = Go("CALL", "always", 301)
  /\ Code[246] = Op("HALT") /\ Code[247] = Go("CALL", "always", 312)
  /\ Code[248] = Op("HALT") /\ Code[249] = Go("CALL", "always", 322)
  /\ Code[250] = Op("HALT") /\ Code[251] = Go("CALL", "always", 329)
  /\ Code[252] = Op("HALT") /\ Code[253] = Go("CALL", "always", 341)
  /\ Code[254] = Op("HALT") /\ Code[255] = Op("JPHL")
  /\ Code[256] = Go("CALL", "always", 344) /\ Code[257] = Op("HALT")
<1>1. Holds(Code, 236, Main)
  BY CodeIs DEF Places, Parts
<1>2. \A i \in 1..Len(Main) : Code[236 - 1 + i] = Main[i]
  BY <1>1 DEF Holds
<1>3. Len(Main) = 22
  BY Lengths
<1>4. Code[236] = Main[1] /\ Code[237] = Main[2] /\ Code[238] = Main[3]
  BY <1>2, <1>3
<1>5. Code[239] = Main[4] /\ Code[240] = Main[5] /\ Code[241] = Main[6]
  BY <1>2, <1>3
<1>6. Code[242] = Main[7] /\ Code[243] = Main[8] /\ Code[244] = Main[9]
  BY <1>2, <1>3
<1>7. Code[245] = Main[10] /\ Code[246] = Main[11] /\ Code[247] = Main[12]
  BY <1>2, <1>3
<1>8. Code[248] = Main[13] /\ Code[249] = Main[14] /\ Code[250] = Main[15]
  BY <1>2, <1>3
<1>9. Code[251] = Main[16] /\ Code[252] = Main[17] /\ Code[253] = Main[18]
  BY <1>2, <1>3
<1>10. Code[254] = Main[19] /\ Code[255] = Main[20] /\ Code[256] = Main[21]
  BY <1>2, <1>3
<1>11. Code[257] = Main[22]
  BY <1>2, <1>3
<1>12. /\ Code[236] = Go("CALL", "always", 258)
      /\ Code[237] = Op("HALT")
      /\ Code[238] = Go("CALL", "always", 269)
      /\ Code[239] = Op("HALT")
      /\ Code[240] = Ld16("hl", 281)
      /\ Code[241] = Go("CALL", "nz", 255)
  BY <1>4, <1>5, Addresses DEF Main, Base
<1>13. /\ Code[242] = Op("HALT")
      /\ Code[243] = Go("CALL", "always", 292)
      /\ Code[244] = Op("HALT")
      /\ Code[245] = Go("CALL", "always", 301)
      /\ Code[246] = Op("HALT")
      /\ Code[247] = Go("CALL", "always", 312)
  BY <1>6, <1>7, Addresses DEF Main, Base
<1>14. /\ Code[248] = Op("HALT")
      /\ Code[249] = Go("CALL", "always", 322)
      /\ Code[250] = Op("HALT")
      /\ Code[251] = Go("CALL", "always", 329)
      /\ Code[252] = Op("HALT")
      /\ Code[253] = Go("CALL", "always", 341)
  BY <1>8, <1>9, Addresses DEF Main, Base
<1>15. /\ Code[254] = Op("HALT")
      /\ Code[255] = Op("JPHL")
      /\ Code[256] = Go("CALL", "always", 344)
      /\ Code[257] = Op("HALT")
  BY <1>10, <1>11, Addresses DEF Main, Base
<1> QED BY <1>12, <1>13, <1>14, <1>15

LEMMA HexIs ==
  /\ Code[258] = On("PUSH", "af") /\ Code[259] = On("SWAP", "a")
  /\ Code[260] = By("RST", 262) /\ Code[261] = To("POP", "af")
  /\ Code[262] = OnN("AND", 15) /\ Code[263] = OnN("ADD", 144)
  /\ Code[264] = Op("DAA") /\ Code[265] = OnN("ADC", 64)
  /\ Code[266] = Op("DAA") /\ Code[267] = By("STA", 1)
  /\ Code[268] = Ret("always")
<1>1. Holds(Code, 258, HexCode)
  BY CodeIs DEF Places, Parts
<1>2. \A i \in 1..11 : Code[257 + i] = HexCode[i]
  BY <1>1, Lengths DEF Holds
<1>3. Code[258] = HexCode[1] /\ Code[259] = HexCode[2] /\ Code[260] = HexCode[3]
  BY <1>2
<1>4. Code[261] = HexCode[4] /\ Code[262] = HexCode[5] /\ Code[263] = HexCode[6]
  BY <1>2
<1>5. Code[264] = HexCode[7] /\ Code[265] = HexCode[8] /\ Code[266] = HexCode[9]
  BY <1>2
<1>6. Code[267] = HexCode[10] /\ Code[268] = HexCode[11]
  BY <1>2
<1> QED BY <1>3, <1>4, <1>5, <1>6, Addresses DEF HexCode

LEMMA MulIs ==
  /\ Code[269] = Ld16("hl", 0) /\ Code[270] = LdN("d", 0)
  /\ Code[271] = Ld("e", "c") /\ Code[272] = On("SRL", "b")
  /\ Code[273] = Go("JR", "nc", 1) /\ Code[274] = On("ADDHL", "de")
  /\ Code[275] = On("SLA", "e") /\ Code[276] = On("RL", "d")
  /\ Code[277] = On("INC", "b") /\ Code[278] = On("DEC", "b")
  /\ Code[279] = Go("JR", "nz", -8) /\ Code[280] = Ret("always")
<1>1. Holds(Code, 269, MulCode)
  BY CodeIs DEF Places, Parts
<1>2. \A i \in 1..12 : Code[268 + i] = MulCode[i]
  BY <1>1, Lengths DEF Holds
<1>3. Code[269] = MulCode[1] /\ Code[270] = MulCode[2] /\ Code[271] = MulCode[3]
  BY <1>2
<1>4. Code[272] = MulCode[4] /\ Code[273] = MulCode[5] /\ Code[274] = MulCode[6]
  BY <1>2
<1>5. Code[275] = MulCode[7] /\ Code[276] = MulCode[8] /\ Code[277] = MulCode[9]
  BY <1>2
<1>6. Code[278] = MulCode[10] /\ Code[279] = MulCode[11] /\ Code[280] = MulCode[12]
  BY <1>2
<1> QED BY <1>3, <1>4, <1>5, <1>6, Addresses DEF MulCode

LEMMA DivIs ==
  /\ Code[281] = On("XOR", "a") /\ Code[282] = LdN("b", 8)
  /\ Code[283] = On("SLA", "c") /\ Code[284] = Op("RLA")
  /\ Code[285] = On("CP", "e") /\ Code[286] = Go("JR", "c", 2)
  /\ Code[287] = On("SUB", "e") /\ Code[288] = At("SET", 0, "c")
  /\ Code[289] = On("DEC", "b") /\ Code[290] = Go("JR", "nz", -8)
  /\ Code[291] = Ret("always")
<1>1. Holds(Code, 281, DivCode)
  BY CodeIs DEF Places, Parts
<1>2. \A i \in 1..11 : Code[280 + i] = DivCode[i]
  BY <1>1, Lengths DEF Holds
<1>3. Code[281] = DivCode[1] /\ Code[282] = DivCode[2] /\ Code[283] = DivCode[3]
  BY <1>2
<1>4. Code[284] = DivCode[4] /\ Code[285] = DivCode[5] /\ Code[286] = DivCode[6]
  BY <1>2
<1>5. Code[287] = DivCode[7] /\ Code[288] = DivCode[8] /\ Code[289] = DivCode[9]
  BY <1>2
<1>6. Code[290] = DivCode[10] /\ Code[291] = DivCode[11]
  BY <1>2
<1> QED BY <1>3, <1>4, <1>5, <1>6, Addresses DEF DivCode

LEMMA SumIs ==
  /\ Code[292] = Ld("a", "c") /\ Code[293] = On("ADD", "e")
  /\ Code[294] = Op("DAA") /\ Code[295] = Ld("c", "a")
  /\ Code[296] = Ld("a", "b") /\ Code[297] = On("ADC", "d")
  /\ Code[298] = Op("DAA") /\ Code[299] = Ld("b", "a")
  /\ Code[300] = Ret("always")
<1>1. Holds(Code, 292, SumCode)
  BY CodeIs DEF Places, Parts
<1>2. \A i \in 1..9 : Code[291 + i] = SumCode[i]
  BY <1>1, Lengths DEF Holds
<1>3. Code[292] = SumCode[1] /\ Code[293] = SumCode[2] /\ Code[294] = SumCode[3]
  BY <1>2
<1>4. Code[295] = SumCode[4] /\ Code[296] = SumCode[5] /\ Code[297] = SumCode[6]
  BY <1>2
<1>5. Code[298] = SumCode[7] /\ Code[299] = SumCode[8] /\ Code[300] = SumCode[9]
  BY <1>2
<1> QED BY <1>3, <1>4, <1>5, Addresses DEF SumCode

LEMMA DiffIs ==
  /\ Code[301] = Ld("a", "c") /\ Code[302] = Op("SCF")
  /\ Code[303] = Op("CCF") /\ Code[304] = On("SBC", "e")
  /\ Code[305] = Op("DAA") /\ Code[306] = Ld("c", "a")
  /\ Code[307] = Ld("a", "b") /\ Code[308] = On("SBC", "d")
  /\ Code[309] = Op("DAA") /\ Code[310] = Ld("b", "a")
  /\ Code[311] = Ret("always")
<1>1. Holds(Code, 301, DiffCode)
  BY CodeIs DEF Places, Parts
<1>2. \A i \in 1..11 : Code[300 + i] = DiffCode[i]
  BY <1>1, Lengths DEF Holds
<1>3. Code[301] = DiffCode[1] /\ Code[302] = DiffCode[2] /\ Code[303] = DiffCode[3]
  BY <1>2
<1>4. Code[304] = DiffCode[4] /\ Code[305] = DiffCode[5] /\ Code[306] = DiffCode[6]
  BY <1>2
<1>5. Code[307] = DiffCode[7] /\ Code[308] = DiffCode[8] /\ Code[309] = DiffCode[9]
  BY <1>2
<1>6. Code[310] = DiffCode[10] /\ Code[311] = DiffCode[11]
  BY <1>2
<1> QED BY <1>3, <1>4, <1>5, <1>6, Addresses DEF DiffCode

LEMMA AbsIs ==
  /\ Code[312] = At("BIT", 7, "h") /\ Code[313] = Ret("z")
  /\ Code[314] = Ld("a", "l") /\ Code[315] = Op("CPL")
  /\ Code[316] = Ld("l", "a") /\ Code[317] = Ld("a", "h")
  /\ Code[318] = Op("CPL") /\ Code[319] = Ld("h", "a")
  /\ Code[320] = To("INC16", "hl") /\ Code[321] = Ret("always")
<1>1. Holds(Code, 312, AbsCode)
  BY CodeIs DEF Places, Parts
<1>2. \A i \in 1..10 : Code[311 + i] = AbsCode[i]
  BY <1>1, Lengths DEF Holds
<1>3. Code[312] = AbsCode[1] /\ Code[313] = AbsCode[2] /\ Code[314] = AbsCode[3]
  BY <1>2
<1>4. Code[315] = AbsCode[4] /\ Code[316] = AbsCode[5] /\ Code[317] = AbsCode[6]
  BY <1>2
<1>5. Code[318] = AbsCode[7] /\ Code[319] = AbsCode[8] /\ Code[320] = AbsCode[9]
  BY <1>2
<1>6. Code[321] = AbsCode[10]
  BY <1>2
<1> QED BY <1>3, <1>4, <1>5, <1>6, Addresses DEF AbsCode

LEMMA ReverseIs ==
  /\ Code[322] = Ld("c", "a") /\ Code[323] = LdN("b", 8)
  /\ Code[324] = On("SRL", "c") /\ Code[325] = Op("RLA")
  /\ Code[326] = On("DEC", "b") /\ Code[327] = Go("JP", "nz", 324)
  /\ Code[328] = Ret("always")
<1>1. Holds(Code, 322, ReverseCode)
  BY CodeIs DEF Places, Parts
<1>2. \A i \in 1..7 : Code[321 + i] = ReverseCode[i]
  BY <1>1, Lengths DEF Holds
<1>3. Code[322] = ReverseCode[1] /\ Code[323] = ReverseCode[2] /\ Code[324] = ReverseCode[3]
  BY <1>2
<1>4. Code[325] = ReverseCode[4] /\ Code[326] = ReverseCode[5] /\ Code[327] = ReverseCode[6]
  BY <1>2
<1>5. Code[328] = ReverseCode[7]
  BY <1>2
<1> QED BY <1>3, <1>4, <1>5, Addresses DEF ReverseCode

LEMMA FrameIs ==
  /\ Code[329] = By("ADDSP", 254) /\ Code[330] = By("LDHLSP", 0)
  /\ Code[331] = Ld("(hl)", "c") /\ Code[332] = To("INC16", "hl")
  /\ Code[333] = Ld("(hl)", "b") /\ Code[334] = By("LDA", -1)
  /\ Code[335] = Ld("d", "a") /\ Code[336] = By("LDA", 1)
  /\ Code[337] = Ld("e", "a") /\ Code[338] = Op("LDSPHL")
  /\ Code[339] = By("ADDSP", 1) /\ Code[340] = Ret("always")
<1>1. Holds(Code, 329, FrameCode)
  BY CodeIs DEF Places, Parts
<1>2. \A i \in 1..12 : Code[328 + i] = FrameCode[i]
  BY <1>1, Lengths DEF Holds
<1>3. Code[329] = FrameCode[1] /\ Code[330] = FrameCode[2] /\ Code[331] = FrameCode[3]
  BY <1>2
<1>4. Code[332] = FrameCode[4] /\ Code[333] = FrameCode[5] /\ Code[334] = FrameCode[6]
  BY <1>2
<1>5. Code[335] = FrameCode[7] /\ Code[336] = FrameCode[8] /\ Code[337] = FrameCode[9]
  BY <1>2
<1>6. Code[338] = FrameCode[10] /\ Code[339] = FrameCode[11] /\ Code[340] = FrameCode[12]
  BY <1>2
<1> QED BY <1>3, <1>4, <1>5, <1>6, Addresses DEF FrameCode

LEMMA HalfIs ==
  /\ Code[341] = On("SRA", "h") /\ Code[342] = On("RR", "l")
  /\ Code[343] = Ret("always")
<1>1. Holds(Code, 341, HalfCode)
  BY CodeIs DEF Places, Parts
<1>2. \A i \in 1..3 : Code[340 + i] = HalfCode[i]
  BY <1>1, Lengths DEF Holds
<1>3. Code[341] = HalfCode[1] /\ Code[342] = HalfCode[2] /\ Code[343] = HalfCode[3]
  BY <1>2
<1> QED BY <1>3, Addresses DEF HalfCode

LEMMA CopyIs ==
  /\ Code[344] = By("LD_SP", 0) /\ Code[345] = Ld16("hl", 2)
  /\ Code[346] = On("ADDHL", "sp") /\ Code[347] = To("DEC16", "sp")
  /\ Code[348] = To("INC16", "sp") /\ Code[349] = Ld16("bc", 2)
  /\ Code[350] = Ld16("de", 3) /\ Code[351] = Mem("LD_A", "bc", 0)
  /\ Code[352] = LdN("a", 0) /\ Code[353] = Mem("LDA_", "bc", 0)
  /\ Code[354] = Mem("LD_A", "de", 0) /\ Code[355] = LdN("a", 0)
  /\ Code[356] = Mem("LDA_", "de", 0) /\ Code[357] = Mem("LD_A", "a16", 4)
  /\ Code[358] = LdN("a", 0) /\ Code[359] = Mem("LDA_", "a16", 4)
  /\ Code[360] = LdN("c", 129) /\ Code[361] = Mem("LD_A", "c", 0)
  /\ Code[362] = LdN("a", 0) /\ Code[363] = Mem("LDA_", "a8", 129)
  /\ Code[364] = Mem("LD_A", "a8", 130) /\ Code[365] = LdN("a", 0)
  /\ Code[366] = LdN("c", 130) /\ Code[367] = Mem("LDA_", "c", 0)
  /\ Code[368] = Ret("always")
<1>1. Holds(Code, 344, CopyCode)
  BY CodeIs DEF Places, Parts
<1>2. \A i \in 1..Len(CopyCode) : Code[344 - 1 + i] = CopyCode[i]
  BY <1>1 DEF Holds
<1>3. Len(CopyCode) = 25
  BY Lengths
<1>4. Code[344] = CopyCode[1] /\ Code[345] = CopyCode[2] /\ Code[346] = CopyCode[3]
  BY <1>2, <1>3
<1>5. Code[347] = CopyCode[4] /\ Code[348] = CopyCode[5] /\ Code[349] = CopyCode[6]
  BY <1>2, <1>3
<1>6. Code[350] = CopyCode[7] /\ Code[351] = CopyCode[8] /\ Code[352] = CopyCode[9]
  BY <1>2, <1>3
<1>7. Code[353] = CopyCode[10] /\ Code[354] = CopyCode[11] /\ Code[355] = CopyCode[12]
  BY <1>2, <1>3
<1>8. Code[356] = CopyCode[13] /\ Code[357] = CopyCode[14] /\ Code[358] = CopyCode[15]
  BY <1>2, <1>3
<1>9. Code[359] = CopyCode[16] /\ Code[360] = CopyCode[17] /\ Code[361] = CopyCode[18]
  BY <1>2, <1>3
<1>10. Code[362] = CopyCode[19] /\ Code[363] = CopyCode[20] /\ Code[364] = CopyCode[21]
  BY <1>2, <1>3
<1>11. Code[365] = CopyCode[22] /\ Code[366] = CopyCode[23] /\ Code[367] = CopyCode[24]
  BY <1>2, <1>3
<1>12. Code[368] = CopyCode[25]
  BY <1>2, <1>3
<1>13. /\ Code[344] = By("LD_SP", 0)
      /\ Code[345] = Ld16("hl", 2)
      /\ Code[346] = On("ADDHL", "sp")
      /\ Code[347] = To("DEC16", "sp")
      /\ Code[348] = To("INC16", "sp")
      /\ Code[349] = Ld16("bc", 2)
  BY <1>4, <1>5, Addresses DEF CopyCode
<1>14. /\ Code[350] = Ld16("de", 3)
      /\ Code[351] = Mem("LD_A", "bc", 0)
      /\ Code[352] = LdN("a", 0)
      /\ Code[353] = Mem("LDA_", "bc", 0)
      /\ Code[354] = Mem("LD_A", "de", 0)
      /\ Code[355] = LdN("a", 0)
  BY <1>6, <1>7, Addresses DEF CopyCode
<1>15. /\ Code[356] = Mem("LDA_", "de", 0)
      /\ Code[357] = Mem("LD_A", "a16", 4)
      /\ Code[358] = LdN("a", 0)
      /\ Code[359] = Mem("LDA_", "a16", 4)
      /\ Code[360] = LdN("c", 129)
      /\ Code[361] = Mem("LD_A", "c", 0)
  BY <1>8, <1>9, Addresses DEF CopyCode
<1>16. /\ Code[362] = LdN("a", 0)
      /\ Code[363] = Mem("LDA_", "a8", 129)
      /\ Code[364] = Mem("LD_A", "a8", 130)
      /\ Code[365] = LdN("a", 0)
      /\ Code[366] = LdN("c", 130)
      /\ Code[367] = Mem("LDA_", "c", 0)
  BY <1>10, <1>11, Addresses DEF CopyCode
<1>17. /\ Code[368] = Ret("always")
  BY <1>12, Addresses DEF CopyCode
<1> QED BY <1>13, <1>14, <1>15, <1>16, <1>17

LEMMA HandlerIs ==
  /\ Code[369] = On("PUSH", "af") /\ Code[370] = On("PUSH", "hl")
  /\ Code[371] = Mem("LDA_", "a8", 128) /\ Code[372] = On("INC", "a")
  /\ Code[373] = Mem("LD_A", "a8", 128) /\ Code[374] = Ld("h", "a")
  /\ Code[375] = Op("SCF") /\ Code[376] = To("POP", "hl")
  /\ Code[377] = To("POP", "af") /\ Code[378] = Op("RETI")
<1>1. Holds(Code, 369, HandlerCode)
  BY CodeIs DEF Places, Parts
<1>2. \A i \in 1..10 : Code[368 + i] = HandlerCode[i]
  BY <1>1, Lengths DEF Holds
<1>3. Code[369] = HandlerCode[1] /\ Code[370] = HandlerCode[2] /\ Code[371] = HandlerCode[3]
  BY <1>2
<1>4. Code[372] = HandlerCode[4] /\ Code[373] = HandlerCode[5] /\ Code[374] = HandlerCode[6]
  BY <1>2
<1>5. Code[375] = HandlerCode[7] /\ Code[376] = HandlerCode[8] /\ Code[377] = HandlerCode[9]
  BY <1>2
<1>6. Code[378] = HandlerCode[10]
  BY <1>2
<1> QED BY <1>3, <1>4, <1>5, <1>6, Addresses DEF HandlerCode

-----------------------------------------------------------------------------
(* one step of the program *)
Carried == MachineTyped' /\ mem'[65408] = mem[65408] /\ UNCHANGED <<master, irqs, start>>

LEMMA OnwardTo == ASSUME ip \in 0..400, Onward PROVE ip' = ip + 1 /\ UNCHANGED <<master, irqs, start>>
BY DEF Onward, Goes

(* Control at an address whose invariant holds is within the program. *)
LEMMA HexRuns ==
  ASSUME NEW k \in 1..11, ip' = 257 + k, HexInv(start, k, reg', f', sp', mem')
  PROVE  Running(start, ip', reg', f', sp', mem')
<1>1. ip' - 257 = k /\ ip' \in 258..268
  OBVIOUS
<1> QED BY <1>1 DEF Running

LEMMA MulRuns ==
  ASSUME NEW k \in 1..12, ip' = 268 + k, MulInv(start, k, reg', f', sp', mem')
  PROVE  Running(start, ip', reg', f', sp', mem')
<1>1. ip' - 268 = k /\ ip' \in 269..280
  OBVIOUS
<1> QED BY <1>1 DEF Running

LEMMA DivRuns ==
  ASSUME NEW k \in 1..11, ip' = 280 + k, DivInv(start, k, reg', f', sp', mem')
  PROVE  Running(start, ip', reg', f', sp', mem')
<1>1. ip' - 280 = k /\ ip' \in 281..291
  OBVIOUS
<1> QED BY <1>1 DEF Running

LEMMA SumRuns ==
  ASSUME NEW k \in 1..9, ip' = 291 + k, SumInv(start, k, reg', f', sp', mem')
  PROVE  Running(start, ip', reg', f', sp', mem')
<1>1. ip' - 291 = k /\ ip' \in 292..300
  OBVIOUS
<1> QED BY <1>1 DEF Running

LEMMA DiffRuns ==
  ASSUME NEW k \in 1..11, ip' = 300 + k, DiffInv(start, k, reg', f', sp', mem')
  PROVE  Running(start, ip', reg', f', sp', mem')
<1>1. ip' - 300 = k /\ ip' \in 301..311
  OBVIOUS
<1> QED BY <1>1 DEF Running

LEMMA AbsRuns ==
  ASSUME NEW k \in 1..10, ip' = 311 + k, AbsInv(start, k, reg', f', sp', mem')
  PROVE  Running(start, ip', reg', f', sp', mem')
<1>1. ip' - 311 = k /\ ip' \in 312..321
  OBVIOUS
<1> QED BY <1>1 DEF Running

LEMMA ReverseRuns ==
  ASSUME NEW k \in 1..7, ip' = 321 + k, ReverseInv(start, k, reg', f', sp', mem')
  PROVE  Running(start, ip', reg', f', sp', mem')
<1>1. ip' - 321 = k /\ ip' \in 322..328
  OBVIOUS
<1> QED BY <1>1 DEF Running

LEMMA FrameRuns ==
  ASSUME NEW k \in 1..12, ip' = 328 + k, FrameInv(start, k, reg', f', sp', mem')
  PROVE  Running(start, ip', reg', f', sp', mem')
<1>1. ip' - 328 = k /\ ip' \in 329..340
  OBVIOUS
<1> QED BY <1>1 DEF Running

LEMMA HalfRuns ==
  ASSUME NEW k \in 1..3, ip' = 340 + k, HalfInv(start, k, reg', f', sp', mem')
  PROVE  Running(start, ip', reg', f', sp', mem')
<1>1. ip' - 340 = k /\ ip' \in 341..343
  OBVIOUS
<1> QED BY <1>1 DEF Running

LEMMA CopyRuns ==
  ASSUME NEW k \in 1..25, ip' = 343 + k, CopyInv(start, k, reg', f', sp', mem')
  PROVE  Running(start, ip', reg', f', sp', mem')
<1>1. ip' - 343 = k /\ ip' \in 344..368
  OBVIOUS
<1> QED BY <1>1 DEF Running

-----------------------------------------------------------------------------
(* Hexadecimal digits                                                       *)

LEMMA AddSmall ==
  ASSUME NEW a \in 0..15
  PROVE  LET r == AddBytes(a, 144, 0)
         IN Fine(r) /\ r.v = a + 144 /\ r.f.n = 0 /\ r.f.h = 0 /\ r.f.c = 0
<1>1. a \in Byte /\ 144 \in Byte /\ 0 \in 0..1
  BY DEF Byte
<1>2. (a + 144 + 0) % 256 = a + 144 /\ ~((a % 16) + (144 % 16) + 0 > 15) /\ ~(a + 144 + 0 > 255)
  OBVIOUS
<1>3. LET r == AddBytes(a, 144, 0)
      IN Fine(r) /\ r.v = (a + 144 + 0) % 256 /\ r.f.n = 0
         /\ r.f.h = (IF (a % 16) + (144 % 16) + 0 > 15 THEN 1 ELSE 0)
         /\ r.f.c = (IF a + 144 + 0 > 255 THEN 1 ELSE 0)
  BY ONLY <1>1, AddBytesIs
<1> QED BY ONLY <1>2, <1>3

LEMMA AddLater ==
  ASSUME NEW a, NEW c, (a \in 144..153 /\ c = 0) \/ (a \in 0..5 /\ c = 1)
  PROVE  LET r == AddBytes(a, 64, c)
         IN Fine(r) /\ r.v = a + 64 + c /\ r.f.n = 0 /\ r.f.h = 0 /\ r.f.c = 0
<1>1. a \in Byte /\ 64 \in Byte /\ c \in 0..1
  BY DEF Byte
<1>2. (a + 64 + c) % 256 = a + 64 + c /\ ~((a % 16) + (64 % 16) + c > 15) /\ ~(a + 64 + c > 255)
  OBVIOUS
<1>3. LET r == AddBytes(a, 64, c)
      IN Fine(r) /\ r.v = (a + 64 + c) % 256 /\ r.f.n = 0
         /\ r.f.h = (IF (a % 16) + (64 % 16) + c > 15 THEN 1 ELSE 0)
         /\ r.f.c = (IF a + 64 + c > 255 THEN 1 ELSE 0)
  BY ONLY <1>1, AddBytesIs
<1> QED BY ONLY <1>2, <1>3

(* DAA after an addition without half carry or carry *)
LEMMA DaaPlain ==
  ASSUME NEW a \in Byte, NEW g \in Flag, g.n = 0, g.h = 0, g.c = 0
  PROVE  LET r    == Daa(a, g)
             low  == IF a % 16 > 9 THEN a + 6 ELSE a
             high == IF low > 159 THEN low + 96 ELSE low
         IN Fine(r) /\ r.v = high % 256 /\ r.f.c = (high \div 256) % 2
<1> DEFINE low  == IF a % 16 > 9 THEN a + 6 ELSE a
           high == IF low > 159 THEN low + 96 ELSE low
           c    == IF (high \div 256) % 2 = 1 THEN 1 ELSE 0
<1>1. Daa(a, g) = Result(high % 256, Flags(Zero(high % 256), 0, 0, c))
  BY DEF Daa
<1>2. high \in Int
  BY DEF Byte
<1>3. c = (high \div 256) % 2 /\ c \in 0..1
  <2> HIDE DEF high
  <2> QED BY <1>2
<1> HIDE DEF high, c
<1>4. high % 256 \in Byte
  BY <1>2, ByteOf
<1>5. Fine(Daa(a, g)) /\ Daa(a, g).v = high % 256 /\ Daa(a, g).f.c = (high \div 256) % 2
  BY <1>1, <1>3, <1>4, ResultIs, ZeroOfByte
<1> QED BY <1>5 DEF high

LEMMA DaaFirst ==
  ASSUME NEW a \in Byte, NEW g \in Flag, g.n = 0, g.h = 0, g.c = 0, a - 144 \in 0..15
  PROVE  LET d == a - 144
             r == Daa(a, g)
         IN Fine(r) /\ r.v = (IF d < 10 THEN d + 144 ELSE d - 10) /\ r.f.c = (IF d < 10 THEN 0 ELSE 1)
<1> DEFINE low  == IF a % 16 > 9 THEN a + 6 ELSE a
           high == IF low > 159 THEN low + 96 ELSE low
<1>1. Fine(Daa(a, g)) /\ Daa(a, g).v = high % 256 /\ Daa(a, g).f.c = (high \div 256) % 2
  BY DaaPlain
<1>2. a % 16 = a - 144 /\ a \in Int
  BY DEF Byte
<1>3. high = (IF a < 154 THEN a ELSE a + 102)
  BY <1>2
<1> HIDE DEF high
<1>4. high % 256 = (IF a < 154 THEN a ELSE a - 154) /\ (high \div 256) % 2 = (IF a < 154 THEN 0 ELSE 1)
  BY <1>2, <1>3
<1> QED BY <1>1, <1>2, <1>4

LEMMA DaaSecond ==
  ASSUME NEW a \in Byte, NEW g \in Flag, g.n = 0, g.h = 0, g.c = 0, a \in 208..217 \/ a \in 65..70
  PROVE  LET r == Daa(a, g) IN Fine(r) /\ r.v = (IF a > 207 THEN a - 160 ELSE a)
<1> DEFINE low  == IF a % 16 > 9 THEN a + 6 ELSE a
           high == IF low > 159 THEN low + 96 ELSE low
<1>1. Fine(Daa(a, g)) /\ Daa(a, g).v = high % 256
  BY DaaPlain
<1>2. a % 16 = (IF a > 207 THEN a - 208 ELSE a - 64) /\ a \in Int
  BY DEF Byte
<1>3. high = (IF a > 207 THEN a + 96 ELSE a)
  BY <1>2
<1> HIDE DEF high
<1>4. high % 256 = (IF a > 207 THEN a - 160 ELSE a)
  BY <1>2, <1>3
<1> QED BY <1>1, <1>2, <1>4

(* One instruction of HexCode leads to the next address and its invariant, or out with the result. *)
LEMMA HexStep ==
  ASSUME Instruction, MachineTyped, NEW j \in 1..11, ip = 257 + j,
         HexInv(start, j, reg, f, sp, mem)
  PROVE  Carried /\ (Running(start, ip', reg', f', sp', mem') \/ Finished')
<1> USE DEF HexInv, Converting, Called
<1>t. /\ reg \in [Reg8 -> Byte] /\ f \in Flag /\ mem \in [MCCells -> Byte]
      /\ start.reg \in [Reg8 -> Byte]
  BY DEF MachineTyped
<1>r. \A x \in Reg8 : reg[x] \in Byte /\ start.reg[x] \in Byte
  BY <1>t
<1>d. start.reg["a"] \div 16 \in 0..15 /\ start.reg["a"] % 16 \in 0..15
  BY <1>r DEF Reg8, Byte
<1>g. f.z \in 0..1 /\ f.n \in 0..1 /\ f.h \in 0..1 /\ f.c \in 0..1
  BY <1>t, FlagHas
<1>1. CASE j = 1
  <2>1. I.op = "PUSH" /\ I.src = "af" /\ ip = 258
    BY <1>1, HexIs DEF I, On
  <2>2. sp = 14 /\ reg = start.reg
    BY <1>1
  <2>3. F \in Byte /\ High["af"] = "a"
    BY <1>t, FlagByte, Pairs DEF F
  <2>4. Onward /\ OnStack(reg["a"], F) /\ UNCHANGED <<reg, f>> /\ MachineTyped'
    BY <2>1, <2>2, <2>3, DoesPush DEF Reg8
  <2>5. ip' = ip + 1 /\ UNCHANGED <<master, irqs, start>>
    BY <2>1, <2>4, OnwardTo
  <2>6. /\ sp' = 12 /\ mem'[13] = reg["a"]
        /\ mem'[14] = mem[14] /\ mem'[15] = mem[15] /\ mem'[65408] = mem[65408]
    BY <2>2, <2>4, Cells16 DEF OnStack
  <2>7. HexInv(start, 2, reg', f', sp', mem')
    BY <1>1, <2>2, <2>4, <2>6
  <2> QED BY <2>1, <2>4, <2>5, <2>6, <2>7, HexRuns DEF Carried
<1>2. CASE j = 2
  <2>1. I.op = "SWAP" /\ I.src = "a" /\ ip = 259
    BY <1>2, HexIs DEF I, On
  <2>2. Onward /\ reg' = [reg EXCEPT !["a"] = (reg["a"] % 16) * 16 + (reg["a"] \div 16)] /\ UNCHANGED <<sp, mem>> /\ MachineTyped'
    BY <2>1, <1>t, <1>r, SwapIs, DoesCB DEF Reg8, Shift
  <2>3. ip' = ip + 1 /\ UNCHANGED <<master, irqs, start>>
    BY <2>1, <2>2, OnwardTo
  <2>4. HexInv(start, 3, reg', f', sp', mem')
    BY <1>2, <2>2, <1>r, <1>t DEF Reg8
  <2> QED BY <2>1, <2>2, <2>3, <2>4, HexRuns DEF Carried
<1>3. CASE j = 3
  <2>1. I.op = "RST" /\ I.n = 262 /\ ip = 260
    BY <1>3, HexIs DEF I, By
  <2>2. sp = 12
    BY <1>3
  <2>3. Goes(262) /\ OnStack((ip + 1) \div 256, (ip + 1) % 256) /\ UNCHANGED <<reg, f>> /\ MachineTyped'
    BY <2>1, <2>2, DoesRst
  <2>4. /\ sp' = 10 /\ mem'[11] = 1 /\ mem'[10] = 5 /\ mem'[13] = mem[13]
        /\ mem'[14] = mem[14] /\ mem'[15] = mem[15] /\ mem'[65408] = mem[65408]
    BY <2>1, <2>2, <2>3, Cells16 DEF OnStack
  <2>5. start.reg["a"] \div 16 = ((start.reg["a"] % 16) * 16 + (start.reg["a"] \div 16)) % 16
    BY <1>r DEF Reg8, Byte
  <2>6. HexInv(start, 5, reg', f', sp', mem')
    BY <1>3, <2>3, <2>4, <2>5
  <2> QED BY <2>3, <2>4, <2>6, HexRuns DEF Carried, Goes
<1>4. CASE j = 4
  <2>1. I.op = "POP" /\ I.dst = "af" /\ ip = 261
    BY <1>4, HexIs DEF I, To
  <2>a. sp = 12 /\ mem[13] = start.reg["a"]
    BY <1>4
  <2>2. Onward /\ sp' = 14 /\ UNCHANGED mem /\ reg' = [reg EXCEPT !["a"] = start.reg["a"]] /\ MachineTyped'
    BY <2>1, <2>a, DoesPopAFany
  <2>3. ip' = ip + 1 /\ UNCHANGED <<master, irqs, start>>
    BY <2>1, <2>2, OnwardTo
  <2>4. HexInv(start, 5, reg', f', sp', mem')
    BY <1>4, <2>2, <1>r, <1>t DEF Reg8
  <2> QED BY <2>1, <2>2, <2>3, <2>4, HexRuns DEF Carried
<1>5. CASE j = 5
  <2>1. I.op = "AND" /\ I.n = 15 /\ I.src = "d8" /\ ip = 262
    BY <1>5, HexIs DEF I, OnN
  <2>2. Onward /\ reg' = [reg EXCEPT !["a"] = reg["a"] % 16] /\ UNCHANGED <<sp, mem>> /\ MachineTyped'
    BY <2>1, <1>t, <1>r, And15Is, DoesAccumulate DEF Reg8, Operators, Compute
  <2>3. ip' = ip + 1 /\ UNCHANGED <<master, irqs, start>>
    BY <2>1, <2>2, OnwardTo
  <2>4. HexInv(start, 6, reg', f', sp', mem')
    BY <1>5, <2>2, <1>r, <1>t DEF Reg8
  <2> QED BY <2>1, <2>2, <2>3, <2>4, HexRuns DEF Carried
<1>6. CASE j = 6
  <2>1. I.op = "ADD" /\ I.n = 144 /\ I.src = "d8" /\ ip = 263
    BY <1>6, HexIs DEF I, OnN
  <2>a. reg["a"] \in 0..15
    BY <1>6, <1>d
  <2>b. LET r == AddBytes(reg["a"], 144, 0)
        IN Fine(r) /\ r.v = reg["a"] + 144 /\ r.f.n = 0 /\ r.f.h = 0 /\ r.f.c = 0
    BY <2>a, AddSmall
  <2>2. Onward /\ reg' = [reg EXCEPT !["a"] = reg["a"] + 144] /\ f'.n = 0 /\ f'.h = 0 /\ f'.c = 0 /\ UNCHANGED <<sp, mem>> /\ MachineTyped'
    BY <2>1, <2>b, <1>r, DoesAccumulate DEF Reg8, Operators, Compute, Add, Byte
  <2>3. ip' = ip + 1 /\ UNCHANGED <<master, irqs, start>>
    BY <2>1, <2>2, OnwardTo
  <2>4. HexInv(start, 7, reg', f', sp', mem')
    BY <1>6, <2>2, <1>r, <1>t DEF Reg8
  <2> QED BY <2>1, <2>2, <2>3, <2>4, HexRuns DEF Carried
<1>7. CASE j = 7
  <2>1. I.op = "DAA" /\ ip = 264
    BY <1>7, HexIs DEF I, Op
  <2>a. f.n = 0 /\ f.h = 0 /\ f.c = 0 /\ reg["a"] - 144 \in 0..15
    BY <1>7, <1>d
  <2>b. LET d == reg["a"] - 144
            r == Daa(reg["a"], f)
        IN Fine(r) /\ r.v = (IF d < 10 THEN d + 144 ELSE d - 10) /\ r.f.c = (IF d < 10 THEN 0 ELSE 1)
    BY <2>a, <1>t, <1>r, DaaFirst DEF Reg8
  <2>2. Onward /\ reg' = [reg EXCEPT !["a"] = Daa(reg["a"], f).v] /\ f' = Daa(reg["a"], f).f /\ UNCHANGED <<sp, mem>> /\ MachineTyped'
    BY <2>1, <2>b, <1>r, DoesAdjust DEF Reg8
  <2>3. ip' = ip + 1 /\ UNCHANGED <<master, irqs, start>>
    BY <2>1, <2>2, OnwardTo
  <2>4. HexInv(start, 8, reg', f', sp', mem')
    BY <1>7, <2>2, <1>r, <1>t, <2>a, <2>b, <1>d DEF Reg8
  <2> QED BY <2>1, <2>2, <2>3, <2>4, HexRuns DEF Carried
<1>8. CASE j = 8
  <2>1. I.op = "ADC" /\ I.n = 64 /\ I.src = "d8" /\ ip = 265
    BY <1>8, HexIs DEF I, OnN
  <2>d. \E d \in 0..15 : reg["a"] = (IF d < 10 THEN d + 144 ELSE d - 10) /\ f.c = (IF d < 10 THEN 0 ELSE 1)
    BY <1>8, <1>d
  <2>a. (reg["a"] \in 144..153 /\ f.c = 0) \/ (reg["a"] \in 0..5 /\ f.c = 1)
    <3>1. PICK d \in 0..15 : reg["a"] = (IF d < 10 THEN d + 144 ELSE d - 10) /\ f.c = (IF d < 10 THEN 0 ELSE 1)
      BY ONLY <2>d
    <3>2. CASE d < 10
      <4>1. reg["a"] = d + 144 /\ f.c = 0
        BY ONLY <3>1, <3>2
      <4>2. d + 144 \in 144..153
        BY ONLY <3>2, d \in 0..15
      <4> QED BY ONLY <4>1, <4>2
    <3>3. CASE ~(d < 10)
      BY ONLY <3>1, <3>3, d \in 0..15
    <3> QED BY ONLY <3>2, <3>3
  <2>b. LET r == AddBytes(reg["a"], 64, f.c)
        IN Fine(r) /\ r.v = reg["a"] + 64 + f.c /\ r.f.n = 0 /\ r.f.h = 0 /\ r.f.c = 0
    BY <2>a, AddLater
  <2>2. Onward /\ reg' = [reg EXCEPT !["a"] = reg["a"] + 64 + f.c] /\ f'.n = 0 /\ f'.h = 0 /\ f'.c = 0 /\ UNCHANGED <<sp, mem>> /\ MachineTyped'
    BY <2>1, <2>b, <1>r, DoesAccumulate DEF Reg8, Operators, Compute, Adc, Byte
  <2>3. ip' = ip + 1 /\ UNCHANGED <<master, irqs, start>>
    BY <2>1, <2>2, OnwardTo
  <2>4. HexInv(start, 9, reg', f', sp', mem')
    BY <1>8, <2>2, <1>r, <1>t, <1>d DEF Reg8
  <2> QED BY <2>1, <2>2, <2>3, <2>4, HexRuns DEF Carried
<1>9. CASE j = 9
  <2>1. I.op = "DAA" /\ ip = 266
    BY <1>9, HexIs DEF I, Op
  <2>a. f.n = 0 /\ f.h = 0 /\ f.c = 0 /\ (reg["a"] \in 208..217 \/ reg["a"] \in 65..70)
    BY <1>9, <1>d
  <2>b. LET r == Daa(reg["a"], f)
        IN Fine(r) /\ r.v = (IF reg["a"] > 207 THEN reg["a"] - 160 ELSE reg["a"])
    BY <2>a, <1>t, <1>r, DaaSecond DEF Reg8
  <2>2. Onward /\ reg' = [reg EXCEPT !["a"] = Daa(reg["a"], f).v] /\ UNCHANGED <<sp, mem>> /\ MachineTyped'
    BY <2>1, <2>b, <1>r, DoesAdjust DEF Reg8
  <2>3. ip' = ip + 1 /\ UNCHANGED <<master, irqs, start>>
    BY <2>1, <2>2, OnwardTo
  <2>4. HexInv(start, 10, reg', f', sp', mem')
    BY <1>9, <2>2, <1>r, <1>t, <2>a, <2>b, <1>d DEF Reg8, Ascii
  <2> QED BY <2>1, <2>2, <2>3, <2>4, HexRuns DEF Carried
<1>10. CASE j = 10
  <2>1. I.op = "STA" /\ I.n = 1 /\ ip = 267
    BY <1>10, HexIs DEF I, By
  <2>2. CASE sp = 10
    <3>1. HL = 0 /\ reg["a"] = Ascii(start.reg["a"] \div 16) /\ mem[10] = 5 /\ mem[11] = 1 /\ mem[13] = start.reg["a"]
      BY <1>10, <2>2, HLIs
    <3>2. /\ Onward /\ mem' = [mem EXCEPT ![0] = reg["a"]] /\ UNCHANGED <<f, sp>> /\ MachineTyped'
          /\ reg' = [reg EXCEPT !["h"] = 0, !["l"] = 1]
      BY <2>1, <3>1, DoesSTA
    <3>3. ip' = ip + 1 /\ UNCHANGED <<master, irqs, start>>
      BY <2>1, <3>2, OnwardTo
    <3>4. /\ mem'[0] = reg["a"] /\ mem'[10] = mem[10] /\ mem'[11] = mem[11] /\ mem'[13] = mem[13]
          /\ mem'[14] = mem[14] /\ mem'[15] = mem[15] /\ mem'[65408] = mem[65408]
      BY <3>2, <1>t, Cells16
    <3>5. reg'["h"] = 0 /\ reg'["l"] = 1
      BY <3>2, <1>t DEF Reg8
    <3>6. HexInv(start, 11, reg', f', sp', mem')
      BY <1>10, <2>2, <3>1, <3>2, <3>4, <3>5
    <3> QED BY <2>1, <3>2, <3>3, <3>4, <3>6, HexRuns DEF Carried
  <2>3. CASE sp = 14
    <3>1. HL = 1 /\ reg["a"] = Ascii(start.reg["a"] % 16) /\ mem[0] = Ascii(start.reg["a"] \div 16)
      BY <1>10, <2>3, HLIs
    <3>2. /\ Onward /\ mem' = [mem EXCEPT ![1] = reg["a"]] /\ UNCHANGED <<f, sp>> /\ MachineTyped'
          /\ reg' = [reg EXCEPT !["h"] = 0, !["l"] = 2]
      BY <2>1, <3>1, DoesSTA
    <3>3. ip' = ip + 1 /\ UNCHANGED <<master, irqs, start>>
      BY <2>1, <3>2, OnwardTo
    <3>4. /\ mem'[1] = reg["a"] /\ mem'[0] = mem[0]
          /\ mem'[14] = mem[14] /\ mem'[15] = mem[15] /\ mem'[65408] = mem[65408]
      BY <3>2, <1>t, Cells16
    <3>5. reg'["h"] = 0 /\ reg'["l"] = 2
      BY <3>2, <1>t DEF Reg8
    <3>6. HexInv(start, 11, reg', f', sp', mem')
      BY <1>10, <2>3, <3>1, <3>2, <3>4, <3>5
    <3> QED BY <2>1, <3>2, <3>3, <3>4, <3>6, HexRuns DEF Carried
  <2> QED BY <1>10, <2>2, <2>3
<1>11. CASE j = 11
  <2>1. I.cc = "always" /\ I.op = "RET" /\ ip = 268
    BY <1>11, HexIs DEF I, Ret
  <2>2. CASE sp = 10
    <3>1. mem[10] = 5 /\ mem[11] = 1 /\ reg["l"] = 1 /\ reg["h"] = 0 /\ mem[0] = Ascii(start.reg["a"] \div 16) /\ mem[13] = start.reg["a"]
      BY <1>11, <2>2
    <3>2. sp \in 0..14 /\ sp + 1 = 11 /\ sp + 2 = 12 /\ 5 + 256 * 1 = 261
      BY ONLY <2>2
    <3>3. Goes(mem[sp] + 256 * mem[sp + 1]) /\ sp' = sp + 2 /\ UNCHANGED <<reg, f, mem>> /\ MachineTyped'
      BY ONLY Instruction, MachineTyped, <2>1, <3>2, Always, DoesRet
    <3>4. Goes(261) /\ sp' = 12
      BY ONLY <2>2, <3>1, <3>2, <3>3
    <3>5. HexInv(start, 4, reg', f', sp', mem')
      BY <1>11, <2>2, <3>1, <3>3, <3>4
    <3> QED BY <3>3, <3>4, <3>5, HexRuns DEF Carried, Goes
  <2>3. CASE sp = 14
    <3>1. mem[14] + 256 * mem[15] = 237 /\ mem[0] = Ascii(start.reg["a"] \div 16) /\ mem[1] = Ascii(start.reg["a"] % 16)
      BY <1>11, <2>3
    <3>2. sp \in 0..14 /\ sp + 1 = 15 /\ sp + 2 = 16
      BY ONLY <2>3
    <3>3. Goes(mem[sp] + 256 * mem[sp + 1]) /\ sp' = sp + 2 /\ UNCHANGED <<reg, f, mem>> /\ MachineTyped'
      BY ONLY Instruction, MachineTyped, <2>1, <3>2, Always, DoesRet
    <3>4. ip' = 237 /\ sp' = 16 /\ UNCHANGED <<master, irqs, start>>
      BY ONLY <2>3, <3>1, <3>2, <3>3 DEF Goes
    <3>5. start'.ip = 236
      BY <1>11, <3>4
    <3>6. Correct(reg, start.reg)'
      BY ONLY <3>1, <3>3, <3>4, <3>5 DEF Correct, Base, Buffer
    <3>7. Finished'
      BY ONLY <3>4, <3>5, <3>6 DEF Finished
    <3> QED BY <3>3, <3>4, <3>7 DEF Carried, Goes
  <2> QED BY <1>11, <2>2, <2>3
<1>x. j \in {1, 2, 3, 4, 5, 6, 7, 8, 9, 10, 11}
  OBVIOUS
<1> QED BY ONLY <1>x, <1>1, <1>2, <1>3, <1>4, <1>5, <1>6, <1>7, <1>8, <1>9, <1>10, <1>11

-----------------------------------------------------------------------------
(* Multiplication                                                           *)

LEMMA ByteIs == \A v : v \in Byte <=> v \in Nat /\ v < 256
BY DEF Byte

(* A result is still correct when registers, memory and flags stay. *)
LEMMA StillCorrect ==
  ASSUME Correct(reg, start.reg), UNCHANGED <<reg, f, mem, start>>,
         start.ip \in {236, 238, 240, 243, 245, 247, 249, 251, 253, 256}
  PROVE  Correct(reg, start.reg)'
<1> DEFINE Same == reg' = reg /\ f' = f /\ mem' = mem /\ start' = start /\ HL' = HL /\ Correct(reg, start.reg)
<1>0. Same
  BY DEF HL, Pair
<1>1. CASE start.ip = 236
  BY ONLY <1>0, <1>1 DEF Correct, Base
<1>2. CASE start.ip = 238
  BY ONLY <1>0, <1>2 DEF Correct, Base
<1>3. CASE start.ip = 240
  BY ONLY <1>0, <1>3 DEF Correct, Base
<1>4. CASE start.ip = 243
  BY ONLY <1>0, <1>4 DEF Correct, Base
<1>5. CASE start.ip = 245
  BY ONLY <1>0, <1>5 DEF Correct, Base
<1>6. CASE start.ip = 247
  BY ONLY <1>0, <1>6 DEF Correct, Base
<1>7. CASE start.ip = 249
  BY ONLY <1>0, <1>7 DEF Correct, Base
<1>8. CASE start.ip = 251
  BY ONLY <1>0, <1>8 DEF Correct, Base
<1>9. CASE start.ip = 253
  BY ONLY <1>0, <1>9 DEF Correct, Base
<1>10. CASE start.ip = 256
  BY ONLY <1>0, <1>10 DEF Correct, Base
<1> QED BY <1>1, <1>2, <1>3, <1>4, <1>5, <1>6, <1>7, <1>8, <1>9, <1>10

(* RET with the caller's address on the stack *)
LEMMA Returns ==
  ASSUME Instruction, MachineTyped, I.op = "RET", Condition(I.cc), sp = 14,
         start.ip \in {236, 238, 240, 243, 245, 247, 249, 251, 253, 256},
         Called(IF start.ip = 240 THEN 242 ELSE start.ip + 1, mem),
         Correct(reg, start.reg)
  PROVE  Carried /\ Finished'
<1>1. sp \in 0..14 /\ sp + 1 = 15 /\ sp + 2 = 16
  OBVIOUS
<1>2. Goes(mem[sp] + 256 * mem[sp + 1]) /\ sp' = sp + 2 /\ UNCHANGED <<reg, f, mem>> /\ MachineTyped'
  BY <1>1, DoesRet
<1>3. ip' = (IF start.ip = 240 THEN 242 ELSE start.ip + 1) /\ sp' = 16 /\ UNCHANGED <<master, irqs, start>>
  BY <1>1, <1>2 DEF Goes, Called
<1>4. Correct(reg, start.reg)'
  BY <1>2, <1>3, StillCorrect
<1>5. Finished'
  BY <1>3, <1>4 DEF Finished
<1> QED BY <1>2, <1>3, <1>5 DEF Carried

LEMMA Products ==
  ASSUME NEW x \in Nat, NEW y \in Nat, x < 256, y < 256
  PROVE  x * y \in Nat /\ x * y < 65536
<1>1. x * y = 255 * 255 - (255 - x) * y - 255 * (255 - y)
  OBVIOUS
<1>2. (255 - x) * y >= 0
  OBVIOUS
<1>3. x * y \in Nat
  OBVIOUS
<1> QED BY <1>1, <1>2, <1>3

(* One instruction of MulCode: the product of what is left and what is done does not change. *)
LEMMA MulStep ==
  ASSUME Instruction, MachineTyped, NEW j \in 1..12, ip = 268 + j,
         MulInv(start, j, reg, f, sp, mem)
  PROVE  Carried /\ (Running(start, ip', reg', f', sp', mem') \/ Finished')
<1> USE DEF MulInv, Wide
<1>t. /\ reg \in [Reg8 -> Byte] /\ f \in Flag /\ mem \in [MCCells -> Byte]
      /\ start.reg \in [Reg8 -> Byte]
  BY DEF MachineTyped
<1>r. \A x \in Reg8 : reg[x] \in Byte /\ start.reg[x] \in Byte
  BY <1>t
<1>a. \A x \in Reg8 : reg[x] \in Nat /\ reg[x] < 256 /\ start.reg[x] \in Nat /\ start.reg[x] < 256
  BY <1>r, ByteIs
<1>H. PICK H \in Nat : reg["h"] = H /\ H < 256
  BY <1>a DEF Reg8
<1>L. PICK L \in Nat : reg["l"] = L /\ L < 256
  BY <1>a DEF Reg8
<1>D. PICK D \in Nat : reg["d"] = D /\ D < 256
  BY <1>a DEF Reg8
<1>E. PICK E \in Nat : reg["e"] = E /\ E < 256
  BY <1>a DEF Reg8
<1>B. PICK B \in Nat : reg["b"] = B /\ B < 256
  BY <1>a DEF Reg8
<1>C. PICK C \in Nat : reg["c"] = C /\ C < 256
  BY <1>a DEF Reg8
<1>P. PICK P \in Nat : start.reg["b"] * start.reg["c"] = P /\ P < 65536
  BY <1>a, Products DEF Reg8
<1>c. start.ip = 238 /\ Called(239, mem) /\ sp = 14
  BY DEF MulInv
<1>p. /\ H \in Nat /\ L \in Nat /\ D \in Nat /\ E \in Nat /\ B \in Nat /\ C \in Nat /\ P \in Nat
      /\ reg["h"] = H /\ reg["l"] = L /\ reg["d"] = D /\ reg["e"] = E /\ reg["b"] = B /\ reg["c"] = C
      /\ H < 256 /\ L < 256 /\ D < 256 /\ E < 256 /\ B < 256 /\ C < 256
      /\ start.reg["b"] * start.reg["c"] = P /\ P < 65536
  BY <1>H, <1>L, <1>D, <1>E, <1>B, <1>C, <1>P
<1>g. f.z \in 0..1 /\ f.n \in 0..1 /\ f.h \in 0..1 /\ f.c \in 0..1
  BY <1>t, FlagHas
<1>1. CASE j = 1
  <2>1. I.dst = "hl" /\ I.n = 0 /\ I.op = "LD16" /\ ip = 269
    BY <1>1, MulIs DEF I, Ld16
  <2>2. Onward /\ UNCHANGED <<f, sp, mem>> /\ MachineTyped' /\ reg' = [reg EXCEPT !["h"] = 0 \div 256, !["l"] = 0 % 256]
    BY <2>1, DoesLd16, Pairs DEF Reg8
  <2>3. 0 \div 256 = 0 /\ 0 % 256 = 0
    OBVIOUS
  <2>4. ip' = ip + 1 /\ UNCHANGED <<master, irqs, start>>
    BY <2>1, <2>2, OnwardTo
  <2>5. reg'["h"] = 0 /\ reg'["l"] = 0 /\ reg'["b"] = reg["b"] /\ reg'["c"] = reg["c"]
    BY <2>2, <2>3, <1>t DEF Reg8
  <2>6. MulInv(start, 2, reg', f', sp', mem')
    BY <1>1, <2>2, <2>5
  <2> QED BY <2>1, <2>2, <2>4, <2>6, MulRuns DEF Carried
<1>2. CASE j = 2
  <2>1. I.dst = "d" /\ I.n = 0 /\ I.op = "LD" /\ I.src = "d8" /\ ip = 270
    BY <1>2, MulIs DEF I, LdN
  <2>2. Onward /\ UNCHANGED <<f, sp, mem>> /\ MachineTyped' /\ reg' = [reg EXCEPT !["d"] = 0]
    BY <2>1, DoesLdN DEF Reg8, Byte
  <2>4. ip' = ip + 1 /\ UNCHANGED <<master, irqs, start>>
    BY <2>1, <2>2, OnwardTo
  <2>5. reg'["h"] = reg["h"] /\ reg'["l"] = reg["l"] /\ reg'["d"] = 0 /\ reg'["b"] = reg["b"] /\ reg'["c"] = reg["c"]
    BY <2>2, <1>t DEF Reg8
  <2>6. MulInv(start, 3, reg', f', sp', mem')
    BY <1>2, <2>2, <2>5
  <2> QED BY <2>1, <2>2, <2>4, <2>6, MulRuns DEF Carried
<1>3. CASE j = 3
  <2>1. I.dst = "e" /\ I.src = "c" /\ I.op = "LD" /\ ip = 271
    BY <1>3, MulIs DEF I, Ld
  <2>2. Onward /\ UNCHANGED <<f, sp, mem>> /\ MachineTyped' /\ reg' = [reg EXCEPT !["e"] = reg["c"]]
    BY <2>1, DoesLd DEF Reg8
  <2>4. ip' = ip + 1 /\ UNCHANGED <<master, irqs, start>>
    BY <2>1, <2>2, OnwardTo
  <2>5. reg'["h"] = H /\ reg'["l"] = L /\ reg'["d"] = D /\ reg'["b"] = B /\ reg'["e"] = C
    BY <2>2, <1>t, <1>p DEF Reg8
  <2>a. H * 256 + L = 0 /\ D = 0 /\ start.reg["b"] = B /\ start.reg["c"] = C
    <3>1. /\ reg["h"] * 256 + reg["l"] = 0 /\ reg["d"] = 0
          /\ start.reg["b"] = reg["b"] /\ start.reg["c"] = reg["c"]
      BY <1>3
    <3>2. reg["h"] = H /\ reg["l"] = L /\ reg["d"] = D /\ reg["b"] = B /\ reg["c"] = C
      BY <1>p
    <3>3. D = 0 /\ start.reg["b"] = B /\ start.reg["c"] = C
      BY ONLY <3>1, <3>2
    <3>4. H * 256 + L = 0
      BY ONLY <3>1, <3>2
    <3> QED BY <3>3, <3>4
  <2>6. H * 256 + L = 0 /\ D = 0 /\ B * C = P
    BY ONLY <2>a, <1>p
  <2>7. (H * 256 + L) + B * (D * 256 + C) = P
    BY ONLY <2>6
  <2>8. MulInv(start, 4, reg', f', sp', mem')
    BY ONLY <1>c, <1>p, <2>2, <2>5, <2>7
  <2> QED BY <2>1, <2>2, <2>4, <2>8, MulRuns DEF Carried
<1>4. CASE j = 4
  <2>1. I.op = "SRL" /\ I.src = "b" /\ ip = 272
    BY <1>4, MulIs DEF I, On
  <2>2. (H * 256 + L) + B * (D * 256 + E) = P
    BY <1>4, <1>p
  <2>3. Onward /\ reg' = [reg EXCEPT !["b"] = B \div 2] /\ f'.c = B % 2 /\ UNCHANGED <<sp, mem>> /\ MachineTyped'
    BY <2>1, <1>p, <1>t, <1>r, SrlIs, DoesCB DEF Reg8, Shift
  <2>4. ip' = ip + 1 /\ UNCHANGED <<master, irqs, start>>
    BY <2>1, <2>3, OnwardTo
  <2>5. reg'["h"] = H /\ reg'["l"] = L /\ reg'["d"] = D /\ reg'["b"] = B \div 2 /\ reg'["e"] = E
    BY <2>3, <1>t, <1>p DEF Reg8
  <2>6. B = 2 * (B \div 2) + (B % 2) /\ B \div 2 < 128
    BY ONLY <1>p, B \in Nat
  <2>7. (H * 256 + L) + (2 * (B \div 2) + (B % 2)) * (D * 256 + E) = P
    BY ONLY <2>2, <2>6
  <2>8. MulInv(start, 5, reg', f', sp', mem')
    <3>a. /\ start.ip = 238 /\ Called(239, mem') /\ sp' = 14
        /\ reg'["b"] < 128 /\ (reg'["h"] * 256 + reg'["l"]) + (2 * reg'["b"] + f'.c) * (reg'["d"] * 256 + reg'["e"]) = start.reg["b"] * start.reg["c"]
      <4>1. reg'["b"] < 128
        BY ONLY <2>5, <2>6
      <4>2. (H * 256 + L) + (2 * reg'["b"] + f'.c) * (D * 256 + E) = start.reg["b"] * start.reg["c"]
        <5>3. PICK V \in Nat : B \div 2 = V
          BY ONLY B \in Nat
        <5>4. PICK U \in Nat : B % 2 = U
          BY ONLY B \in Nat
        <5>5. reg'["b"] = V /\ f'.c = U
          BY ONLY <2>3, <2>5, <5>3, <5>4
        <5>6. (H * 256 + L) + (2 * V + U) * (D * 256 + E) = P
          BY ONLY <2>7, <5>3, <5>4
        <5> QED BY ONLY <5>5, <5>6, <1>p
      <4> QED BY ONLY <1>c, <2>3, <2>5, <4>1, <4>2 DEF Called
    <3> QED BY ONLY <3>a DEF MulInv, Wide
  <2> QED BY <2>1, <2>3, <2>4, <2>8, MulRuns DEF Carried
<1>5. CASE j = 5
  <2>1. I.op = "JR" /\ I.cc = "nc" /\ I.n = 1 /\ ip = 273
    BY <1>5, MulIs DEF I, Go
  <2>2. B < 128 /\ (H * 256 + L) + (2 * B + f.c) * (D * 256 + E) = P
    BY <1>5, <1>p
  <2>3. Goes(IF f.c = 0 THEN 275 ELSE 274) /\ UNCHANGED <<reg, f, sp, mem>> /\ MachineTyped'
    <3>1. Goes(IF f.c = 0 THEN (ip + 1 + 1) % 65536 ELSE (ip + 1) % 65536) /\ UNCHANGED <<reg, f, sp, mem>> /\ MachineTyped'
      BY <2>1, DoesJR, Conditions
    <3>2. (273 + 1 + 1) % 65536 = 275 /\ (273 + 1) % 65536 = 274
      OBVIOUS
    <3> QED BY <2>1, <3>1, <3>2
  <2>4. CASE f.c = 0
    <3>1. (H * 256 + L) + B * (2 * (D * 256 + E)) = P
      BY ONLY <2>2, <2>4, H \in Nat, L \in Nat, D \in Nat, E \in Nat, B \in Nat, P \in Nat
    <3>2. MulInv(start, 7, reg', f', sp', mem')
      <4>a. /\ start.ip = 238 /\ Called(239, mem') /\ sp' = 14
          /\ reg'["b"] < 128 /\ (reg'["h"] * 256 + reg'["l"]) + reg'["b"] * (2 * (reg'["d"] * 256 + reg'["e"])) = start.reg["b"] * start.reg["c"]
        <5>1. reg' = reg /\ sp' = sp /\ mem' = mem
          BY ONLY <2>3
        <5>2. /\ reg["b"] < 128
              /\ (reg["h"] * 256 + reg["l"]) + reg["b"] * (2 * (reg["d"] * 256 + reg["e"])) = start.reg["b"] * start.reg["c"]
          BY ONLY <1>p, <2>2, <3>1
        <5> QED BY ONLY <1>c, <5>1, <5>2 DEF Called
      <4> QED BY ONLY <4>a DEF MulInv, Wide
    <3> QED BY <2>3, <2>4, <3>2, MulRuns DEF Carried, Goes
  <2>5. CASE f.c = 1
    <3>1. (H * 256 + L) + (2 * B + 1) * (D * 256 + E) = P
      BY ONLY <2>2, <2>5, H \in Nat, L \in Nat, D \in Nat, E \in Nat, B \in Nat, P \in Nat
    <3>2. MulInv(start, 6, reg', f', sp', mem')
      <4>a. /\ start.ip = 238 /\ Called(239, mem') /\ sp' = 14
          /\ reg'["b"] < 128 /\ (reg'["h"] * 256 + reg'["l"]) + (2 * reg'["b"] + 1) * (reg'["d"] * 256 + reg'["e"]) = start.reg["b"] * start.reg["c"]
        <5>1. reg' = reg /\ sp' = sp /\ mem' = mem
          BY ONLY <2>3
        <5>2. /\ reg["b"] < 128
              /\ (reg["h"] * 256 + reg["l"]) + (2 * reg["b"] + 1) * (reg["d"] * 256 + reg["e"]) = start.reg["b"] * start.reg["c"]
          BY ONLY <1>p, <2>2, <3>1
        <5> QED BY ONLY <1>c, <5>1, <5>2 DEF Called
      <4> QED BY ONLY <4>a DEF MulInv, Wide
    <3> QED BY <2>3, <2>5, <3>2, MulRuns DEF Carried, Goes
  <2> QED BY <1>g, <2>4, <2>5
<1>6. CASE j = 6
  <2>1. I.op = "ADDHL" /\ I.src = "de" /\ ip = 274
    BY <1>6, MulIs DEF I, On
  <2>2. B < 128 /\ (H * 256 + L) + (2 * B + 1) * (D * 256 + E) = P
    BY <1>6, <1>p
  <2>3. (H * 256 + L) + (D * 256 + E) + B * (2 * (D * 256 + E)) = P
    BY ONLY <2>2, H \in Nat, L \in Nat, D \in Nat, E \in Nat, B \in Nat, P \in Nat
  <2>4. (H * 256 + L) + (D * 256 + E) < 65536
    <3>1. B * (2 * (D * 256 + E)) >= 0
      BY ONLY H \in Nat, L \in Nat, D \in Nat, E \in Nat, B \in Nat, P \in Nat
    <3> QED BY ONLY <2>3, <3>1, <1>p, H \in Nat, L \in Nat, D \in Nat, E \in Nat, B \in Nat, P \in Nat
  <2>5. HL = (H * 256 + L) /\ Pair("de") = (D * 256 + E)
    BY <1>p, HLIs, Pairs DEF Pair
  <2> DEFINE r == AddHL((H * 256 + L), (D * 256 + E), f)
  <2>6. r.v \in Nat /\ r.v < 65536 /\ r.v = (H * 256 + L) + (D * 256 + E) /\ r.f \in Flag
    <3>1. (H * 256 + L) \in Nat /\ (D * 256 + E) \in Nat
      BY ONLY H \in Nat, L \in Nat, D \in Nat, E \in Nat, B \in Nat, P \in Nat
    <3>2. ((H * 256 + L) + (D * 256 + E)) % 65536 = (H * 256 + L) + (D * 256 + E)
      BY ONLY <2>4, <3>1
    <3>3. f \in Flag
      BY <1>t
    <3>4. /\ r.v \in Nat /\ r.v < 65536 /\ r.v = ((H * 256 + L) + (D * 256 + E)) % 65536 /\ r.f \in Flag
      BY ONLY <3>1, <3>3, AddHLIs
    <3> QED BY ONLY <3>2, <3>4
  <2> HIDE DEF r
  <2>7. /\ Onward /\ UNCHANGED <<sp, mem>> /\ MachineTyped' /\ f' = r.f
        /\ reg' = [reg EXCEPT !["h"] = r.v \div 256, !["l"] = r.v % 256]
    <3>1. (D * 256 + E) \in Nat /\ AddHL(HL, (D * 256 + E), f) = r
      BY <2>5 DEF r
    <3> QED BY <2>1, <2>5, <2>6, <3>1, DoesAddHL
  <2>8. ip' = ip + 1 /\ UNCHANGED <<master, irqs, start>>
    BY <2>1, <2>7, OnwardTo
  <2>9. reg'["h"] = r.v \div 256 /\ reg'["l"] = r.v % 256 /\ reg'["d"] = D /\ reg'["b"] = B /\ reg'["e"] = E
    BY <2>7, <1>t, <1>p DEF Reg8
  <2>10. (r.v \div 256) * 256 + (r.v % 256) + B * (2 * (D * 256 + E)) = P
    <3>1. r.v = 256 * (r.v \div 256) + (r.v % 256)
      BY ONLY <2>6, WordHalves
    <3>2. r.v + B * (2 * (D * 256 + E)) = P
      BY ONLY <2>3, <2>6, H \in Nat, L \in Nat, D \in Nat, E \in Nat, B \in Nat, P \in Nat
    <3>3. r.v \div 256 \in Nat /\ r.v % 256 \in Nat
      BY ONLY <2>6
    <3> QED BY ONLY <3>1, <3>2, <3>3
  <2>11. MulInv(start, 7, reg', f', sp', mem')
    BY <1>6, <1>p, <2>2, <2>7, <2>9, <2>10
  <2> QED BY <2>1, <2>7, <2>8, <2>11, MulRuns DEF Carried
<1>7. CASE j = 7
  <2>1. I.op = "SLA" /\ I.src = "e" /\ ip = 275
    BY <1>7, MulIs DEF I, On
  <2>2. B < 128 /\ (H * 256 + L) + B * (2 * (D * 256 + E)) = P
    BY <1>7, <1>p
  <2>3. Onward /\ reg' = [reg EXCEPT !["e"] = (2 * E) % 256] /\ f'.c = E \div 128 /\ UNCHANGED <<sp, mem>> /\ MachineTyped'
    BY <2>1, <1>p, <1>t, <1>r, SlaIs, DoesCB DEF Reg8, Shift
  <2>4. ip' = ip + 1 /\ UNCHANGED <<master, irqs, start>>
    BY <2>1, <2>3, OnwardTo
  <2>5. reg'["h"] = H /\ reg'["l"] = L /\ reg'["d"] = D /\ reg'["b"] = B /\ reg'["e"] = (2 * E) % 256
    BY <2>3, <1>t, <1>p DEF Reg8
  <2>6. 2 * E = 256 * (E \div 128) + ((2 * E) % 256)
    BY ONLY E \in Nat, <1>p
  <2>7. 2 * (D * 256 + E) = 512 * D + 256 * (E \div 128) + ((2 * E) % 256)
    BY ONLY <2>6, H \in Nat, L \in Nat, D \in Nat, E \in Nat, B \in Nat, P \in Nat
  <2>8. (H * 256 + L) + B * (512 * D + 256 * (E \div 128) + ((2 * E) % 256)) = P
    BY ONLY <2>2, <2>7
  <2>9. MulInv(start, 8, reg', f', sp', mem')
    BY <1>7, <1>p, <2>2, <2>3, <2>5, <2>8
  <2> QED BY <2>1, <2>3, <2>4, <2>9, MulRuns DEF Carried
<1>8. CASE j = 8
  <2>1. I.op = "RL" /\ I.src = "d" /\ ip = 276
    BY <1>8, MulIs DEF I, On
  <2>a. PICK K \in Nat : f.c = K
    BY <1>g
  <2>2. B < 128 /\ (H * 256 + L) + B * (512 * D + 256 * K + E) = P
    BY <1>8, <1>p, <2>a
  <2>3. Onward /\ reg' = [reg EXCEPT !["d"] = ((2 * D) % 256) + K] /\ UNCHANGED <<sp, mem>> /\ MachineTyped'
    BY <2>1, <2>a, <1>p, <1>t, <1>r, RlIs, DoesCB DEF Reg8, Shift
  <2>4. ip' = ip + 1 /\ UNCHANGED <<master, irqs, start>>
    BY <2>1, <2>3, OnwardTo
  <2>5. reg'["h"] = H /\ reg'["l"] = L /\ reg'["d"] = ((2 * D) % 256) + K /\ reg'["b"] = B /\ reg'["e"] = E
    BY <2>3, <1>t, <1>p DEF Reg8
  <2>6. (H * 256 + L) + B * ((((2 * D) % 256) + K) * 256 + E) = P
    <3>1. CASE B = 0
      <4>1. B * (512 * D + 256 * K + E) = 0 /\ B * ((((2 * D) % 256) + K) * 256 + E) = 0
        BY ONLY <3>1, H \in Nat, L \in Nat, D \in Nat, E \in Nat, B \in Nat, P \in Nat, K \in Nat
      <4> QED BY ONLY <2>2, <4>1, H \in Nat, L \in Nat, D \in Nat, E \in Nat, B \in Nat, P \in Nat
    <3>2. CASE B # 0
      <4>1. B * (512 * D + 256 * K + E) >= 512 * D + 256 * K + E
        <5>1. B >= 1 /\ 512 * D + 256 * K + E >= 0
          BY ONLY <3>2, H \in Nat, L \in Nat, D \in Nat, E \in Nat, B \in Nat, P \in Nat, K \in Nat
        <5>2. B * (512 * D + 256 * K + E) = (B - 1) * (512 * D + 256 * K + E) + (512 * D + 256 * K + E)
          BY ONLY H \in Nat, L \in Nat, D \in Nat, E \in Nat, B \in Nat, P \in Nat, K \in Nat
        <5>3. (B - 1) * (512 * D + 256 * K + E) >= 0
          BY ONLY <5>1, H \in Nat, L \in Nat, D \in Nat, E \in Nat, B \in Nat, P \in Nat, K \in Nat
        <5> QED BY ONLY <5>2, <5>3, H \in Nat, L \in Nat, D \in Nat, E \in Nat, B \in Nat, P \in Nat, K \in Nat
      <4>2. 512 * D < 65536
        BY ONLY <4>1, <2>2, <1>p, H \in Nat, L \in Nat, D \in Nat, E \in Nat, B \in Nat, P \in Nat, K \in Nat
      <4>3. (2 * D) % 256 = 2 * D
        BY ONLY <4>2, D \in Nat
      <4>4. 512 * D + 256 * K + E = (((2 * D) % 256) + K) * 256 + E
        BY ONLY <4>3, H \in Nat, L \in Nat, D \in Nat, E \in Nat, B \in Nat, P \in Nat, K \in Nat
      <4> QED BY ONLY <2>2, <4>4
    <3> QED BY <3>1, <3>2
  <2>7. MulInv(start, 9, reg', f', sp', mem')
    <3>1. PICK V \in Nat : V = ((2 * D) % 256) + K
      BY ONLY D \in Nat, K \in Nat
    <3>2. (H * 256 + L) + B * (V * 256 + E) = P /\ reg'["d"] = V
      BY ONLY <3>1, <2>5, <2>6
    <3>a. /\ start.ip = 238 /\ Called(239, mem') /\ sp' = 14
        /\ reg'["b"] < 128 /\ (reg'["h"] * 256 + reg'["l"]) + reg'["b"] * (reg'["d"] * 256 + reg'["e"]) = start.reg["b"] * start.reg["c"]
      <4>1. /\ reg'["b"] < 128
            /\ (H * 256 + L) + reg'["b"] * (reg'["d"] * 256 + E) = start.reg["b"] * start.reg["c"]
        BY ONLY <2>2, <2>5, <3>2, <1>p
      <4> QED BY ONLY <1>c, <2>3, <2>5, <4>1 DEF Called
    <3> QED BY ONLY <3>a DEF MulInv, Wide
  <2> QED BY <2>1, <2>3, <2>4, <2>7, MulRuns DEF Carried
<1>9. CASE j = 9
  <2>1. I.op = "INC" /\ I.src = "b" /\ ip = 277
    BY <1>9, MulIs DEF I, On
  <2>2. B < 128 /\ (H * 256 + L) + B * (D * 256 + E) = P
    BY <1>9, <1>p
  <2>a. (B + 1) % 256 = B + 1
    BY ONLY <2>2, B \in Nat
  <2>3. Onward /\ reg' = [reg EXCEPT !["b"] = B + 1] /\ UNCHANGED <<sp, mem>> /\ MachineTyped'
    BY <2>1, <2>a, <1>p, <1>t, <1>r, IncIs, DoesInc DEF Reg8
  <2>4. ip' = ip + 1 /\ UNCHANGED <<master, irqs, start>>
    BY <2>1, <2>3, OnwardTo
  <2>5. reg'["h"] = H /\ reg'["l"] = L /\ reg'["d"] = D /\ reg'["b"] = B + 1 /\ reg'["e"] = E
    BY <2>3, <1>t, <1>p DEF Reg8
  <2>6. (B + 1) - 1 = B /\ B + 1 \in 1..128
    BY ONLY <2>2, B \in Nat
  <2>7. (H * 256 + L) + ((B + 1) - 1) * (D * 256 + E) = P
    BY ONLY <2>2, <2>6
  <2>8. MulInv(start, 10, reg', f', sp', mem')
    BY <1>9, <1>p, <2>3, <2>5, <2>6, <2>7
  <2> QED BY <2>1, <2>3, <2>4, <2>8, MulRuns DEF Carried
<1>10. CASE j = 10
  <2>1. I.op = "DEC" /\ I.src = "b" /\ ip = 278
    BY <1>10, MulIs DEF I, On
  <2>2. B \in 1..128 /\ (H * 256 + L) + (B - 1) * (D * 256 + E) = P
    BY <1>10, <1>p
  <2>a. (B - 1) % 256 = B - 1
    BY ONLY <2>2, B \in Nat
  <2>3. /\ Onward /\ reg' = [reg EXCEPT !["b"] = B - 1] /\ UNCHANGED <<sp, mem>> /\ MachineTyped'
        /\ f'.z = (IF B - 1 = 0 THEN 1 ELSE 0)
    <3>1. LET r == Dec(B, f) IN Fine(r) /\ r.v = B - 1 /\ r.f.z = (IF B - 1 = 0 THEN 1 ELSE 0)
      BY <2>a, <1>p, <1>t, <1>r, DecIs DEF Reg8
    <3> QED BY <2>1, <1>p, <3>1, DoesDec DEF Reg8
  <2>4. ip' = ip + 1 /\ UNCHANGED <<master, irqs, start>>
    BY <2>1, <2>3, OnwardTo
  <2>5. reg'["h"] = H /\ reg'["l"] = L /\ reg'["d"] = D /\ reg'["b"] = B - 1 /\ reg'["e"] = E
    BY <2>3, <1>t, <1>p DEF Reg8
  <2>6. B - 1 < 128
    BY ONLY <2>2, B \in Nat
  <2>8. MulInv(start, 11, reg', f', sp', mem')
    <3>1. PICK V \in Nat : V = B - 1
      BY ONLY <2>2, B \in Nat
    <3>2. V < 128 /\ (H * 256 + L) + V * (D * 256 + E) = P /\ f'.z = (IF V = 0 THEN 1 ELSE 0) /\ reg'["b"] = V
      BY <3>1, <2>2, <2>3, <2>5, <2>6
    <3>a. /\ start.ip = 238 /\ Called(239, mem') /\ sp' = 14
        /\ reg'["b"] < 128 /\ (reg'["h"] * 256 + reg'["l"]) + reg'["b"] * (reg'["d"] * 256 + reg'["e"]) = start.reg["b"] * start.reg["c"] /\ f'.z = (IF reg'["b"] = 0 THEN 1 ELSE 0)
      <4>1. /\ reg'["b"] < 128 /\ f'.z = (IF reg'["b"] = 0 THEN 1 ELSE 0)
            /\ (H * 256 + L) + reg'["b"] * (D * 256 + E) = start.reg["b"] * start.reg["c"]
        BY ONLY <3>2, <1>p
      <4> QED BY ONLY <1>c, <2>3, <2>5, <4>1 DEF Called
    <3> QED BY ONLY <3>a DEF MulInv, Wide
  <2> QED BY <2>1, <2>3, <2>4, <2>8, MulRuns DEF Carried
<1>11. CASE j = 11
  <2>1. I.op = "JR" /\ I.cc = "nz" /\ I.n = -8 /\ ip = 279
    BY <1>11, MulIs DEF I, Go
  <2>2. B < 128 /\ (H * 256 + L) + B * (D * 256 + E) = P /\ f.z = (IF B = 0 THEN 1 ELSE 0)
    BY <1>11, <1>p
  <2>3. Goes(IF f.z = 0 THEN 272 ELSE 280) /\ UNCHANGED <<reg, f, sp, mem>> /\ MachineTyped'
    <3>1. Goes(IF f.z = 0 THEN (ip + 1 + (-8)) % 65536 ELSE (ip + 1) % 65536) /\ UNCHANGED <<reg, f, sp, mem>> /\ MachineTyped'
      BY <2>1, DoesJR, Conditions
    <3>2. (279 + 1 + (-8)) % 65536 = 272 /\ (279 + 1) % 65536 = 280
      OBVIOUS
    <3> QED BY <2>1, <3>1, <3>2
  <2>4. CASE B # 0
    <3>2. MulInv(start, 4, reg', f', sp', mem')
      BY <1>11, <1>p, <2>2, <2>3 DEF Goes
    <3> QED BY <2>2, <2>3, <2>4, <3>2, MulRuns DEF Carried, Goes
  <2>5. CASE B = 0
    <3>1. (H * 256 + L) = P
      BY ONLY <2>2, <2>5, H \in Nat, L \in Nat, D \in Nat, E \in Nat, B \in Nat, P \in Nat
    <3>2. MulInv(start, 12, reg', f', sp', mem')
      BY <1>11, <1>p, <2>3, <3>1 DEF Goes
    <3> QED BY <2>2, <2>3, <2>5, <3>2, MulRuns DEF Carried, Goes
  <2> QED BY <2>4, <2>5
<1>12. CASE j = 12
  <2>1. I.cc = "always" /\ I.op = "RET" /\ ip = 280
    BY <1>12, MulIs DEF I, Ret
  <2>2. (H * 256 + L) = P
    BY <1>12, <1>p
  <2>3. sp = 14 /\ start.ip = 238 /\ Called(239, mem)
    BY <1>12
  <2>4. Correct(reg, start.reg)
    BY <2>2, <2>3, <1>p, HLIs DEF Correct, Base
  <2> QED BY <2>1, <2>3, <2>4, Always, Returns
<1>x. j \in {1, 2, 3, 4, 5, 6, 7, 8, 9, 10, 11, 12}
  OBVIOUS
<1> QED BY ONLY <1>x, <1>1, <1>2, <1>3, <1>4, <1>5, <1>6, <1>7, <1>8, <1>9, <1>10, <1>11, <1>12

-----------------------------------------------------------------------------
(* Division                                                                 *)

LEMMA TwoIs ==
  /\ Two(0) = 1 /\ Two(1) = 2 /\ Two(2) = 4 /\ Two(3) = 8 /\ Two(4) = 16
  /\ Two(5) = 32 /\ Two(6) = 64 /\ Two(7) = 128 /\ Two(8) = 256
BY DEF Two

(* k bits are left of the dividend n. *)
LEMMA NextBitOf ==
  ASSUME NEW n \in Nat, n < 256, NEW b \in 1..8, NEW c \in Nat, c < 256, NEW q \in Nat, Left(n, b, c, q)
  PROVE  /\ Left(n, b - 1, (2 * c) % 256, 2 * q)
         /\ n \div Two(b - 1) = 2 * (n \div Two(b)) + (c \div 128)
         /\ n \div Two(b) \in Nat /\ n \div Two(b - 1) \in Nat
<1>0. c = (n % Two(b)) * Two(8 - b) + q /\ q < Two(8 - b) /\ 8 - (b - 1) = 9 - b
  BY DEF Left
<1> SUFFICES /\ (2 * c) % 256 = (n % Two(b - 1)) * Two(8 - (b - 1)) + 2 * q /\ 2 * q < Two(8 - (b - 1))
             /\ n \div Two(b - 1) = 2 * (n \div Two(b)) + (c \div 128)
             /\ n \div Two(b) \in Nat /\ n \div Two(b - 1) \in Nat
  BY DEF Left
<1>1. CASE b = 1
  <2>1. c = (n % 2) * 128 + q /\ q < 128 /\ n \in Nat /\ q \in Nat
    BY <1>1, <1>0, TwoIs
  <2>2. PICK y \in Nat : y = n % 1
    OBVIOUS
  <2>3. PICK h \in Nat : h = n \div 2
    OBVIOUS
  <2>4. PICK i \in Nat : i = (n % 2) \div 1
    OBVIOUS
  <2>5. n % 2 = 1 * i + y /\ i < 2 /\ n \div 1 = 2 * h + i /\ y < 1
    BY ONLY <2>2, <2>3, <2>4, n \in Nat
  <2>6. c = 128 * i + (128 * y + q) /\ 128 * y + q < 128
    BY ONLY <2>1, <2>5, y \in Nat, i \in Nat
  <2>7. c \div 128 = i /\ (2 * c) % 256 = y * 256 + 2 * q /\ 2 * q < 256
    BY ONLY <2>1, <2>5, <2>6, y \in Nat, i \in Nat
  <2>8. (2 * c) % 256 = (n % 1) * 256 + 2 * q /\ 2 * q < 256 /\ n \div 1 = 2 * (n \div 2) + (c \div 128)
    BY ONLY <2>2, <2>3, <2>5, <2>7
  <2>9. Two(b) = 2 /\ Two(b - 1) = 1 /\ Two(8 - (b - 1)) = 256
    BY <1>1, TwoIs
  <2>10. n \div 2 \in Nat /\ n \div 1 \in Nat
    OBVIOUS
  <2> QED BY ONLY <2>8, <2>9, <2>10
<1>2. CASE b = 2
  <2>1. c = (n % 4) * 64 + q /\ q < 64 /\ n \in Nat /\ q \in Nat
    BY <1>2, <1>0, TwoIs
  <2>2. PICK y \in Nat : y = n % 2
    OBVIOUS
  <2>3. PICK h \in Nat : h = n \div 4
    OBVIOUS
  <2>4. PICK i \in Nat : i = (n % 4) \div 2
    OBVIOUS
  <2>5. n % 4 = 2 * i + y /\ i < 2 /\ n \div 2 = 2 * h + i /\ y < 2
    BY ONLY <2>2, <2>3, <2>4, n \in Nat
  <2>6. c = 128 * i + (64 * y + q) /\ 64 * y + q < 128
    BY ONLY <2>1, <2>5, y \in Nat, i \in Nat
  <2>7. c \div 128 = i /\ (2 * c) % 256 = y * 128 + 2 * q /\ 2 * q < 128
    BY ONLY <2>1, <2>5, <2>6, y \in Nat, i \in Nat
  <2>8. (2 * c) % 256 = (n % 2) * 128 + 2 * q /\ 2 * q < 128 /\ n \div 2 = 2 * (n \div 4) + (c \div 128)
    BY ONLY <2>2, <2>3, <2>5, <2>7
  <2>9. Two(b) = 4 /\ Two(b - 1) = 2 /\ Two(8 - (b - 1)) = 128
    BY <1>2, TwoIs
  <2>10. n \div 4 \in Nat /\ n \div 2 \in Nat
    OBVIOUS
  <2> QED BY ONLY <2>8, <2>9, <2>10
<1>3. CASE b = 3
  <2>1. c = (n % 8) * 32 + q /\ q < 32 /\ n \in Nat /\ q \in Nat
    BY <1>3, <1>0, TwoIs
  <2>2. PICK y \in Nat : y = n % 4
    OBVIOUS
  <2>3. PICK h \in Nat : h = n \div 8
    OBVIOUS
  <2>4. PICK i \in Nat : i = (n % 8) \div 4
    OBVIOUS
  <2>5. n % 8 = 4 * i + y /\ i < 2 /\ n \div 4 = 2 * h + i /\ y < 4
    BY ONLY <2>2, <2>3, <2>4, n \in Nat
  <2>6. c = 128 * i + (32 * y + q) /\ 32 * y + q < 128
    BY ONLY <2>1, <2>5, y \in Nat, i \in Nat
  <2>7. c \div 128 = i /\ (2 * c) % 256 = y * 64 + 2 * q /\ 2 * q < 64
    BY ONLY <2>1, <2>5, <2>6, y \in Nat, i \in Nat
  <2>8. (2 * c) % 256 = (n % 4) * 64 + 2 * q /\ 2 * q < 64 /\ n \div 4 = 2 * (n \div 8) + (c \div 128)
    BY ONLY <2>2, <2>3, <2>5, <2>7
  <2>9. Two(b) = 8 /\ Two(b - 1) = 4 /\ Two(8 - (b - 1)) = 64
    BY <1>3, TwoIs
  <2>10. n \div 8 \in Nat /\ n \div 4 \in Nat
    OBVIOUS
  <2> QED BY ONLY <2>8, <2>9, <2>10
<1>4. CASE b = 4
  <2>1. c = (n % 16) * 16 + q /\ q < 16 /\ n \in Nat /\ q \in Nat
    BY <1>4, <1>0, TwoIs
  <2>2. PICK y \in Nat : y = n % 8
    OBVIOUS
  <2>3. PICK h \in Nat : h = n \div 16
    OBVIOUS
  <2>4. PICK i \in Nat : i = (n % 16) \div 8
    OBVIOUS
  <2>5. n % 16 = 8 * i + y /\ i < 2 /\ n \div 8 = 2 * h + i /\ y < 8
    BY ONLY <2>2, <2>3, <2>4, n \in Nat
  <2>6. c = 128 * i + (16 * y + q) /\ 16 * y + q < 128
    BY ONLY <2>1, <2>5, y \in Nat, i \in Nat
  <2>7. c \div 128 = i /\ (2 * c) % 256 = y * 32 + 2 * q /\ 2 * q < 32
    BY ONLY <2>1, <2>5, <2>6, y \in Nat, i \in Nat
  <2>8. (2 * c) % 256 = (n % 8) * 32 + 2 * q /\ 2 * q < 32 /\ n \div 8 = 2 * (n \div 16) + (c \div 128)
    BY ONLY <2>2, <2>3, <2>5, <2>7
  <2>9. Two(b) = 16 /\ Two(b - 1) = 8 /\ Two(8 - (b - 1)) = 32
    BY <1>4, TwoIs
  <2>10. n \div 16 \in Nat /\ n \div 8 \in Nat
    OBVIOUS
  <2> QED BY ONLY <2>8, <2>9, <2>10
<1>5. CASE b = 5
  <2>1. c = (n % 32) * 8 + q /\ q < 8 /\ n \in Nat /\ q \in Nat
    BY <1>5, <1>0, TwoIs
  <2>2. PICK y \in Nat : y = n % 16
    OBVIOUS
  <2>3. PICK h \in Nat : h = n \div 32
    OBVIOUS
  <2>4. PICK i \in Nat : i = (n % 32) \div 16
    OBVIOUS
  <2>5. n % 32 = 16 * i + y /\ i < 2 /\ n \div 16 = 2 * h + i /\ y < 16
    BY ONLY <2>2, <2>3, <2>4, n \in Nat
  <2>6. c = 128 * i + (8 * y + q) /\ 8 * y + q < 128
    BY ONLY <2>1, <2>5, y \in Nat, i \in Nat
  <2>7. c \div 128 = i /\ (2 * c) % 256 = y * 16 + 2 * q /\ 2 * q < 16
    BY ONLY <2>1, <2>5, <2>6, y \in Nat, i \in Nat
  <2>8. (2 * c) % 256 = (n % 16) * 16 + 2 * q /\ 2 * q < 16 /\ n \div 16 = 2 * (n \div 32) + (c \div 128)
    BY ONLY <2>2, <2>3, <2>5, <2>7
  <2>9. Two(b) = 32 /\ Two(b - 1) = 16 /\ Two(8 - (b - 1)) = 16
    BY <1>5, TwoIs
  <2>10. n \div 32 \in Nat /\ n \div 16 \in Nat
    OBVIOUS
  <2> QED BY ONLY <2>8, <2>9, <2>10
<1>6. CASE b = 6
  <2>1. c = (n % 64) * 4 + q /\ q < 4 /\ n \in Nat /\ q \in Nat
    BY <1>6, <1>0, TwoIs
  <2>2. PICK y \in Nat : y = n % 32
    OBVIOUS
  <2>3. PICK h \in Nat : h = n \div 64
    OBVIOUS
  <2>4. PICK i \in Nat : i = (n % 64) \div 32
    OBVIOUS
  <2>5. n % 64 = 32 * i + y /\ i < 2 /\ n \div 32 = 2 * h + i /\ y < 32
    BY ONLY <2>2, <2>3, <2>4, n \in Nat
  <2>6. c = 128 * i + (4 * y + q) /\ 4 * y + q < 128
    BY ONLY <2>1, <2>5, y \in Nat, i \in Nat
  <2>7. c \div 128 = i /\ (2 * c) % 256 = y * 8 + 2 * q /\ 2 * q < 8
    BY ONLY <2>1, <2>5, <2>6, y \in Nat, i \in Nat
  <2>8. (2 * c) % 256 = (n % 32) * 8 + 2 * q /\ 2 * q < 8 /\ n \div 32 = 2 * (n \div 64) + (c \div 128)
    BY ONLY <2>2, <2>3, <2>5, <2>7
  <2>9. Two(b) = 64 /\ Two(b - 1) = 32 /\ Two(8 - (b - 1)) = 8
    BY <1>6, TwoIs
  <2>10. n \div 64 \in Nat /\ n \div 32 \in Nat
    OBVIOUS
  <2> QED BY ONLY <2>8, <2>9, <2>10
<1>7. CASE b = 7
  <2>1. c = (n % 128) * 2 + q /\ q < 2 /\ n \in Nat /\ q \in Nat
    BY <1>7, <1>0, TwoIs
  <2>2. PICK y \in Nat : y = n % 64
    OBVIOUS
  <2>3. PICK h \in Nat : h = n \div 128
    OBVIOUS
  <2>4. PICK i \in Nat : i = (n % 128) \div 64
    OBVIOUS
  <2>5. n % 128 = 64 * i + y /\ i < 2 /\ n \div 64 = 2 * h + i /\ y < 64
    BY ONLY <2>2, <2>3, <2>4, n \in Nat
  <2>6. c = 128 * i + (2 * y + q) /\ 2 * y + q < 128
    BY ONLY <2>1, <2>5, y \in Nat, i \in Nat
  <2>7. c \div 128 = i /\ (2 * c) % 256 = y * 4 + 2 * q /\ 2 * q < 4
    BY ONLY <2>1, <2>5, <2>6, y \in Nat, i \in Nat
  <2>8. (2 * c) % 256 = (n % 64) * 4 + 2 * q /\ 2 * q < 4 /\ n \div 64 = 2 * (n \div 128) + (c \div 128)
    BY ONLY <2>2, <2>3, <2>5, <2>7
  <2>9. Two(b) = 128 /\ Two(b - 1) = 64 /\ Two(8 - (b - 1)) = 4
    BY <1>7, TwoIs
  <2>10. n \div 128 \in Nat /\ n \div 64 \in Nat
    OBVIOUS
  <2> QED BY ONLY <2>8, <2>9, <2>10
<1>8. CASE b = 8
  <2>1. c = (n % 256) * 1 + q /\ q < 1 /\ n \in Nat /\ q \in Nat
    BY <1>8, <1>0, TwoIs
  <2>2. PICK y \in Nat : y = n % 128
    OBVIOUS
  <2>3. PICK h \in Nat : h = n \div 256
    OBVIOUS
  <2>4. PICK i \in Nat : i = (n % 256) \div 128
    OBVIOUS
  <2>5. n % 256 = 128 * i + y /\ i < 2 /\ n \div 128 = 2 * h + i /\ y < 128
    BY ONLY <2>2, <2>3, <2>4, n \in Nat
  <2>6. c = 128 * i + (1 * y + q) /\ 1 * y + q < 128
    BY ONLY <2>1, <2>5, y \in Nat, i \in Nat
  <2>7. c \div 128 = i /\ (2 * c) % 256 = y * 2 + 2 * q /\ 2 * q < 2
    BY ONLY <2>1, <2>5, <2>6, y \in Nat, i \in Nat
  <2>8. (2 * c) % 256 = (n % 128) * 2 + 2 * q /\ 2 * q < 2 /\ n \div 128 = 2 * (n \div 256) + (c \div 128)
    BY ONLY <2>2, <2>3, <2>5, <2>7
  <2>9. Two(b) = 256 /\ Two(b - 1) = 128 /\ Two(8 - (b - 1)) = 2
    BY <1>8, TwoIs
  <2>10. n \div 256 \in Nat /\ n \div 128 \in Nat
    OBVIOUS
  <2> QED BY ONLY <2>8, <2>9, <2>10
<1> QED BY <1>1, <1>2, <1>3, <1>4, <1>5, <1>6, <1>7, <1>8

LEMMA LowBitOf ==
  ASSUME NEW n \in Nat, n < 256, NEW b \in 1..8, NEW k, k = b - 1, NEW c \in Nat, c < 256,
         NEW q \in Nat, NEW y, y = 2 * q, Left(n, k, c, y)
  PROVE  c % 2 = 0 /\ y + 1 < 256 /\ Left(n, k, c + 1, y + 1)
<1>0. /\ c = (n % Two(b - 1)) * Two(9 - b) + 2 * q /\ 2 * q < Two(9 - b) /\ 8 - (b - 1) = 9 - b
      /\ c \in Nat /\ q \in Nat /\ n \in Nat
  <2>1. 8 - (b - 1) = 9 - b
    OBVIOUS
  <2> QED BY <2>1 DEF Left
<1> SUFFICES c % 2 = 0 /\ y + 1 < Two(8 - k) /\ y + 1 < 256 /\ c + 1 = (n % Two(k)) * Two(8 - k) + (y + 1)
  BY DEF Left
<1>1. CASE b = 1
  BY <1>1, <1>0, TwoIs
<1>2. CASE b = 2
  BY <1>2, <1>0, TwoIs
<1>3. CASE b = 3
  BY <1>3, <1>0, TwoIs
<1>4. CASE b = 4
  BY <1>4, <1>0, TwoIs
<1>5. CASE b = 5
  BY <1>5, <1>0, TwoIs
<1>6. CASE b = 6
  BY <1>6, <1>0, TwoIs
<1>7. CASE b = 7
  BY <1>7, <1>0, TwoIs
<1>8. CASE b = 8
  BY <1>8, <1>0, TwoIs
<1> QED BY <1>1, <1>2, <1>3, <1>4, <1>5, <1>6, <1>7, <1>8

LEMMA Quotient ==
  ASSUME NEW n \in Nat, NEW e \in Nat \ {0}, NEW a \in Nat, NEW q \in Nat, a + q * e = n, a < e
  PROVE  q = n \div e /\ a = n % e
<1> DEFINE d == n \div e
           m == n % e
<1>1. d \in Nat /\ m \in Nat /\ m < e /\ n = d * e + m
  OBVIOUS
<1> HIDE DEF d, m
<1>2. (q - d) * e = m - a /\ q - d \in Int
  BY <1>1
<1>3. CASE q - d >= 1
  <2>1. (q - d) * e = e + (q - d - 1) * e /\ (q - d - 1) * e >= 0
    BY <1>3, <1>1
  <2> QED BY <1>1, <1>2, <2>1
<1>4. CASE q - d <= -1
  <2>1. (d - q) * e = e + (d - q - 1) * e /\ (d - q - 1) * e >= 0
    BY <1>4, <1>1
  <2>2. (d - q) * e = a - m
    BY <1>1, <1>2
  <2> QED BY <1>1, <2>1, <2>2
<1>5. q = d
  BY <1>1, <1>2, <1>3, <1>4
<1>6. q = d /\ a = m
  BY <1>1, <1>5
<1> QED BY <1>6 DEF d, m

LEMMA DivideAll ==
  ASSUME NEW z, z.reg["c"] \in Nat, z.reg["c"] < 256, z.reg["e"] \in Nat
  PROVE  Divided(z, 8, 0, z.reg["c"], 0)
<1>1. Two(8) = 256 /\ Two(8 - 8) = 1
  BY TwoIs
<1>2. PICK n \in Nat : z.reg["c"] = n /\ n < 256
  OBVIOUS
<1>3. PICK e \in Nat : z.reg["e"] = e
  OBVIOUS
<1>4. 0 + 0 * e = n \div 256 /\ n = (n % 256) * 1 + 0 /\ 0 < 1
  BY ONLY <1>2, n \in Nat, e \in Nat
<1> QED BY ONLY <1>1, <1>2, <1>3, <1>4 DEF Divided, Left

LEMMA NextBit ==
  ASSUME NEW z, z.reg["c"] \in Nat, z.reg["c"] < 256, z.reg["e"] \in Nat,
         NEW b \in 1..8, NEW a \in Nat, NEW c \in Nat, c < 256, NEW q \in Byte, Divided(z, b, a, c, q)
  PROVE  Divided(z, b - 1, 2 * a + (c \div 128), (2 * c) % 256, 2 * q)
<1>0. PICK n \in Nat : z.reg["c"] = n /\ n < 256
  OBVIOUS
<1>e. PICK e \in Nat : z.reg["e"] = e
  OBVIOUS
<1>1. q \in Nat
  BY DEF Byte
<1>2. a + q * e = n \div Two(b) /\ Left(n, b, c, q)
  BY <1>0, <1>e DEF Divided
<1>3. /\ Left(n, b - 1, (2 * c) % 256, 2 * q)
      /\ n \div Two(b - 1) = 2 * (n \div Two(b)) + (c \div 128) /\ n \div Two(b) \in Nat
  BY ONLY <1>0, <1>1, <1>2, n \in Nat, b \in 1..8, c \in Nat, c < 256, NextBitOf
<1>4. (2 * a + (c \div 128)) + (2 * q) * e = n \div Two(b - 1)
  <2>1. PICK w \in Nat : w = n \div Two(b)
    BY ONLY <1>3
  <2>2. PICK i \in Nat : i = c \div 128
    OBVIOUS
  <2>3. a + q * e = w /\ n \div Two(b - 1) = 2 * w + i
    BY ONLY <1>2, <1>3, <2>1, <2>2
  <2>4. (2 * q) * e = 2 * (q * e)
    BY ONLY <1>1, e \in Nat
  <2>5. (2 * a + i) + (2 * q) * e = 2 * w + i
    BY ONLY <2>3, <2>4, <1>1, e \in Nat, a \in Nat, i \in Nat, w \in Nat
  <2> QED BY ONLY <2>2, <2>3, <2>5
<1> QED BY ONLY <1>0, <1>e, <1>3, <1>4 DEF Divided

LEMMA LowBit ==
  ASSUME NEW z, z.reg["c"] \in Nat, z.reg["c"] < 256, z.reg["e"] \in Nat,
         NEW b \in 1..8, NEW k, k = b - 1, NEW x \in Int,
         NEW c \in Nat, c < 256, NEW q \in Byte, NEW y, y = 2 * q, Divided(z, k, x, c, y)
  PROVE  c % 2 = 0 /\ y + 1 \in Byte /\ Divided(z, k, x - z.reg["e"], c + 1, y + 1)
<1>0. PICK n \in Nat : z.reg["c"] = n /\ n < 256
  OBVIOUS
<1>e. PICK e \in Nat : z.reg["e"] = e
  OBVIOUS
<1>1. q \in Nat
  BY DEF Byte
<1>2. x + y * e = n \div Two(k) /\ Left(n, k, c, y)
  BY ONLY <1>0, <1>e, Divided(z, k, x, c, y) DEF Divided
<1>3. c % 2 = 0 /\ y + 1 < 256 /\ Left(n, k, c + 1, y + 1)
  BY ONLY <1>0, <1>1, <1>2, n \in Nat, b \in 1..8, c \in Nat, c < 256, k = b - 1, y = 2 * q, LowBitOf
<1>4. (x - e) + (y + 1) * e = n \div Two(k)
  <2>1. (y + 1) * e = y * e + e /\ y \in Nat
    BY ONLY <1>1, e \in Nat, y = 2 * q
  <2> QED BY ONLY <1>2, <2>1, e \in Nat, x \in Int
<1>5. y + 1 \in Byte
  BY ONLY <1>1, <1>3, y = 2 * q DEF Byte
<1>6. Divided(z, k, x - e, c + 1, y + 1)
  BY ONLY <1>0, <1>e, <1>3, <1>4 DEF Divided
<1> QED BY ONLY <1>3, <1>5, <1>6, <1>e

LEMMA Doubles ==
  ASSUME NEW z, NEW b \in 1..8, NEW k, k = b - 1, NEW a, NEW c, NEW q \in Byte,
         NEW y, y = 2 * q, Divided(z, k, a, c, y)
  PROVE  y \in Byte
<1>1. 8 - (b - 1) = 9 - b /\ q \in Nat
  BY DEF Byte
<1>2. y < Two(9 - b)
  BY ONLY <1>1, k = b - 1, Divided(z, k, a, c, y) DEF Divided, Left
<1>3. Two(9 - b) \in {2, 4, 8, 16, 32, 64, 128, 256}
  BY TwoIs
<1> QED BY <1>1, <1>2, <1>3 DEF Byte

LEMMA AllDivided ==
  ASSUME NEW z, z.reg["c"] \in Nat, z.reg["c"] < 256, z.reg["e"] \in Nat, z.reg["e"] # 0,
         NEW a \in Nat, a < z.reg["e"], NEW c, NEW q \in Byte, Divided(z, 0, a, c, q)
  PROVE  c = z.reg["c"] \div z.reg["e"] /\ a = z.reg["c"] % z.reg["e"]
<1>0. PICK n \in Nat : z.reg["c"] = n /\ n < 256
  OBVIOUS
<1>e. PICK e \in Nat \ {0} : z.reg["e"] = e
  OBVIOUS
<1>1. q \in Nat /\ Two(0) = 1 /\ Two(8 - 0) = 256
  BY TwoIs DEF Byte
<1>2. n \div 1 = n /\ (n % 1) * 256 = 0
  OBVIOUS
<1>3. a + q * e = n /\ c = q
  BY <1>0, <1>e, <1>1, <1>2 DEF Divided, Left
<1>4. q = n \div e /\ a = n % e
  BY <1>0, <1>e, <1>1, <1>3, Quotient
<1> QED BY ONLY <1>0, <1>e, <1>3, <1>4

(* One instruction of DivCode: quotient so far, remainder so far and bits to come give the dividend. *)
LEMMA DivStep ==
  ASSUME Instruction, MachineTyped, NEW j \in 1..11, ip = 280 + j,
         DivInv(start, j, reg, f, sp, mem)
  PROVE  Carried /\ (Running(start, ip', reg', f', sp', mem') \/ Finished')
<1>t. /\ reg \in [Reg8 -> Byte] /\ f \in Flag /\ mem \in [MCCells -> Byte]
      /\ start.reg \in [Reg8 -> Byte]
  BY DEF MachineTyped
<1>r. \A x \in Reg8 : reg[x] \in Byte /\ start.reg[x] \in Byte
  BY <1>t
<1>a. \A x \in Reg8 : reg[x] \in Nat /\ reg[x] < 256 /\ start.reg[x] \in Nat /\ start.reg[x] < 256
  BY <1>r, ByteIs
<1>g. f.z \in 0..1 /\ f.n \in 0..1 /\ f.h \in 0..1 /\ f.c \in 0..1
  BY <1>t, FlagHas
<1>A. PICK A \in Nat : reg["a"] = A /\ A < 256
  BY <1>a DEF Reg8
<1>B. PICK B \in Nat : reg["b"] = B /\ B < 256
  BY <1>a DEF Reg8
<1>C. PICK C \in Nat : reg["c"] = C /\ C < 256
  BY <1>a DEF Reg8
<1>E. PICK E \in Nat : reg["e"] = E /\ E < 256
  BY <1>a DEF Reg8
<1>p. /\ A \in Nat /\ B \in Nat /\ C \in Nat /\ E \in Nat
      /\ reg["a"] = A /\ reg["b"] = B /\ reg["c"] = C /\ reg["e"] = E
      /\ A < 256 /\ B < 256 /\ C < 256 /\ E < 256
  BY <1>A, <1>B, <1>C, <1>E
<1>c. /\ start.ip = 240 /\ Called(242, mem) /\ sp = 14 /\ reg["e"] = start.reg["e"]
      /\ start.reg["e"] \in 1..128
  BY DEF DivInv
<1>e. E \in 1..128 /\ start.reg["e"] = E
  BY <1>c, <1>p
<1>N. PICK N \in Nat : start.reg["c"] = N /\ N < 256
  BY <1>a DEF Reg8
<1>n. N \in Nat /\ start.reg["c"] = N /\ N < 256
  BY <1>N
<1>1. CASE j = 1
  <2>1. I.op = "XOR" /\ I.src = "a" /\ ip = 281
    BY <1>1, DivIs DEF I, On
  <2>2. C = start.reg["c"]
    BY <1>1, <1>p DEF DivInv
  <2>3. Onward /\ reg' = [reg EXCEPT !["a"] = 0] /\ UNCHANGED <<sp, mem>> /\ MachineTyped'
    BY <2>1, <1>t, <1>r, XorSelfIs, DoesAccumulate DEF Operators, Compute, Reg8
  <2>4. ip' = ip + 1 /\ UNCHANGED <<master, irqs, start>>
    BY <2>1, <2>3, OnwardTo
  <2>8. /\ start.ip = 240 /\ Called(242, mem') /\ sp' = 14 /\ reg'["e"] = start.reg["e"] /\ start.reg["e"] \in 1..128
        /\ reg'["c"] = start.reg["c"] /\ reg'["a"] = 0
    BY <1>c, <1>e, <1>p, <1>t, <2>3, <2>2 DEF Called, Reg8
  <2>9. DivInv(start, 2, reg', f', sp', mem')
    BY ONLY <2>8 DEF DivInv
  <2> QED BY <2>1, <2>3, <2>4, <2>9, DivRuns DEF Carried
<1>2. CASE j = 2
  <2>1. I.dst = "b" /\ I.n = 8 /\ I.op = "LD" /\ I.src = "d8" /\ ip = 282
    BY <1>2, DivIs DEF I, LdN
  <2>2. C = start.reg["c"] /\ A = 0
    BY <1>2, <1>p DEF DivInv
  <2>3. Onward /\ reg' = [reg EXCEPT !["b"] = 8] /\ UNCHANGED <<f, sp, mem>> /\ MachineTyped'
    BY <2>1, DoesLdN DEF Reg8, Byte
  <2>4. ip' = ip + 1 /\ UNCHANGED <<master, irqs, start>>
    BY <2>1, <2>3, OnwardTo
  <2>5. reg'["a"] = 0 /\ reg'["b"] = 8 /\ reg'["c"] = N /\ reg'["e"] = E
    BY <2>2, <2>3, <1>t, <1>p, <1>n DEF Reg8
  <2>6. Divided(start, 8, 0, N, 0)
    BY ONLY DivideAll, <1>n, <1>e
  <2>7. /\ reg'["b"] \in 1..8 /\ reg'["a"] < start.reg["e"]
        /\ 0 \in Byte /\ Divided(start, reg'["b"], reg'["a"], reg'["c"], 0)
    BY ONLY <2>5, <2>6, <1>e DEF Byte
  <2>8. /\ start.ip = 240 /\ Called(242, mem') /\ sp' = 14 /\ reg'["e"] = start.reg["e"] /\ start.reg["e"] \in 1..128
        /\ reg'["b"] \in 1..8 /\ reg'["a"] < start.reg["e"]
        /\ 0 \in Byte /\ Divided(start, reg'["b"], reg'["a"], reg'["c"], 0)
    BY <1>c, <1>e, <1>p, <1>t, <2>3, <2>7 DEF Called, Reg8
  <2>9. DivInv(start, 3, reg', f', sp', mem')
    BY ONLY <2>8 DEF DivInv
  <2> QED BY <2>1, <2>3, <2>4, <2>9, DivRuns DEF Carried
<1>3. CASE j = 3
  <2>1. I.op = "SLA" /\ I.src = "c" /\ ip = 283
    BY <1>3, DivIs DEF I, On
  <2>2. B \in 1..8 /\ A < E /\ \E q \in Byte : Divided(start, B, A, C, q)
    BY <1>3, <1>p, <1>e DEF DivInv
  <2>a. PICK q \in Byte : Divided(start, B, A, C, q)
    BY <2>2
  <2>3. Onward /\ reg' = [reg EXCEPT !["c"] = (2 * C) % 256] /\ f'.c = C \div 128 /\ UNCHANGED <<sp, mem>> /\ MachineTyped'
    BY <2>1, <1>p, <1>t, <1>r, SlaIs, DoesCB DEF Reg8, Shift
  <2>4. ip' = ip + 1 /\ UNCHANGED <<master, irqs, start>>
    BY <2>1, <2>3, OnwardTo
  <2>5. reg'["a"] = A /\ reg'["b"] = B /\ reg'["c"] = (2 * C) % 256 /\ reg'["e"] = E
    BY <2>3, <1>t, <1>p DEF Reg8
  <2>6. Divided(start, B - 1, 2 * A + (C \div 128), (2 * C) % 256, 2 * q)
    BY ONLY NextBit, <1>n, <1>e, <1>p, <2>2, <2>a, q \in Byte
  <2>7. /\ reg'["b"] \in 1..8 /\ reg'["a"] < start.reg["e"]
        /\ q \in Byte /\ Divided(start, reg'["b"] - 1, 2 * reg'["a"] + f'.c, reg'["c"], 2 * q)
    BY ONLY <2>2, <2>3, <2>5, <2>6, <1>e, q \in Byte
  <2>8. /\ start.ip = 240 /\ Called(242, mem') /\ sp' = 14 /\ reg'["e"] = start.reg["e"] /\ start.reg["e"] \in 1..128
        /\ reg'["b"] \in 1..8 /\ reg'["a"] < start.reg["e"]
        /\ q \in Byte /\ Divided(start, reg'["b"] - 1, 2 * reg'["a"] + f'.c, reg'["c"], 2 * q)
    BY <1>c, <1>e, <1>p, <1>t, <2>3, <2>7 DEF Called, Reg8
  <2>9. DivInv(start, 4, reg', f', sp', mem')
    BY ONLY <2>8 DEF DivInv
  <2> QED BY <2>1, <2>3, <2>4, <2>9, DivRuns DEF Carried
<1>4. CASE j = 4
  <2>1. I.op = "RLA" /\ ip = 284
    BY <1>4, DivIs DEF I, Op
  <2>a. PICK K \in Nat : f.c = K /\ K < 2
    BY <1>g
  <2>2. B \in 1..8 /\ A < E /\ \E q \in Byte : Divided(start, B - 1, 2 * A + K, C, 2 * q)
    BY <1>4, <1>p, <1>e, <2>a DEF DivInv
  <2>b. PICK q \in Byte : Divided(start, B - 1, 2 * A + K, C, 2 * q)
    BY <2>2
  <2>c. ((2 * A) % 256) + K = 2 * A + K /\ 2 * A + K < 2 * E
    BY ONLY <2>2, <2>a, <1>e, <1>p
  <2>3. Onward /\ reg' = [reg EXCEPT !["a"] = 2 * A + K] /\ UNCHANGED <<sp, mem>> /\ MachineTyped'
    <3>1. LET r == Rl(reg["a"], f) IN Fine(r) /\ r.v = 2 * A + K
      BY <1>p, <1>t, <1>r, <2>a, <2>c, RlIs DEF Reg8
    <3> QED BY <2>1, <3>1, DoesRLA
  <2>4. ip' = ip + 1 /\ UNCHANGED <<master, irqs, start>>
    BY <2>1, <2>3, OnwardTo
  <2>5. reg'["a"] = 2 * A + K /\ reg'["b"] = B /\ reg'["c"] = C /\ reg'["e"] = E
    BY <2>3, <1>t, <1>p DEF Reg8
  <2>7. /\ reg'["b"] \in 1..8 /\ reg'["a"] < 2 * start.reg["e"]
        /\ q \in Byte /\ Divided(start, reg'["b"] - 1, reg'["a"], reg'["c"], 2 * q)
    BY ONLY <2>2, <2>b, <2>c, <2>5, <1>e, q \in Byte
  <2>8. /\ start.ip = 240 /\ Called(242, mem') /\ sp' = 14 /\ reg'["e"] = start.reg["e"] /\ start.reg["e"] \in 1..128
        /\ reg'["b"] \in 1..8 /\ reg'["a"] < 2 * start.reg["e"]
        /\ q \in Byte /\ Divided(start, reg'["b"] - 1, reg'["a"], reg'["c"], 2 * q)
    BY <1>c, <1>e, <1>p, <1>t, <2>3, <2>7 DEF Called, Reg8
  <2>9. DivInv(start, 5, reg', f', sp', mem')
    BY ONLY <2>8 DEF DivInv
  <2> QED BY <2>1, <2>3, <2>4, <2>9, DivRuns DEF Carried
<1>5. CASE j = 5
  <2>1. I.op = "CP" /\ I.src = "e" /\ ip = 285
    BY <1>5, DivIs DEF I, On
  <2>2. B \in 1..8 /\ A < 2 * E /\ \E q \in Byte : Divided(start, B - 1, A, C, 2 * q)
    BY <1>5, <1>p, <1>e DEF DivInv
  <2>a. PICK q \in Byte : Divided(start, B - 1, A, C, 2 * q)
    BY <2>2
  <2>3. Onward /\ reg' = [reg EXCEPT !["a"] = A] /\ f'.c = (IF E > A THEN 1 ELSE 0) /\ UNCHANGED <<sp, mem>> /\ MachineTyped'
    <3>1. LET r == Cp(reg["a"], reg["e"], f) IN Fine(r) /\ r.v = A /\ r.f.c = (IF E > A THEN 1 ELSE 0)
      BY <1>p, <1>t, <1>r, CpIs DEF Reg8
    <3> QED BY <2>1, <3>1, DoesAccumulate DEF Operators, Compute, Reg8
  <2>4. ip' = ip + 1 /\ UNCHANGED <<master, irqs, start>>
    BY <2>1, <2>3, OnwardTo
  <2>5. reg'["a"] = A /\ reg'["b"] = B /\ reg'["c"] = C /\ reg'["e"] = E
    BY <2>3, <1>t, <1>p DEF Reg8
  <2>7. /\ reg'["b"] \in 1..8 /\ reg'["a"] < 2 * start.reg["e"]
        /\ q \in Byte /\ Divided(start, reg'["b"] - 1, reg'["a"], reg'["c"], 2 * q)
        /\ f'.c = (IF start.reg["e"] > reg'["a"] THEN 1 ELSE 0)
    BY ONLY <2>2, <2>a, <2>3, <2>5, <1>e, q \in Byte
  <2>8. /\ start.ip = 240 /\ Called(242, mem') /\ sp' = 14 /\ reg'["e"] = start.reg["e"] /\ start.reg["e"] \in 1..128
        /\ reg'["b"] \in 1..8 /\ reg'["a"] < 2 * start.reg["e"]
        /\ q \in Byte /\ Divided(start, reg'["b"] - 1, reg'["a"], reg'["c"], 2 * q)
        /\ f'.c = (IF start.reg["e"] > reg'["a"] THEN 1 ELSE 0)
    BY <1>c, <1>e, <1>p, <1>t, <2>3, <2>7 DEF Called, Reg8
  <2>9. DivInv(start, 6, reg', f', sp', mem')
    BY ONLY <2>8 DEF DivInv
  <2> QED BY <2>1, <2>3, <2>4, <2>9, DivRuns DEF Carried
<1>6. CASE j = 6
  <2>1. I.op = "JR" /\ I.cc = "c" /\ I.n = 2 /\ ip = 286
    BY <1>6, DivIs DEF I, Go
  <2>2. B \in 1..8 /\ A < 2 * E /\ (\E q \in Byte : Divided(start, B - 1, A, C, 2 * q)) /\ f.c = (IF E > A THEN 1 ELSE 0)
    BY <1>6, <1>p, <1>e DEF DivInv
  <2>a. PICK q \in Byte : Divided(start, B - 1, A, C, 2 * q)
    BY <2>2
  <2>b. 2 * q \in Byte
    <3>1. PICK k \in Int : k = B - 1
      BY ONLY <2>2
    <3>3. PICK y \in Int : y = 2 * q
      BY ONLY q \in Byte DEF Byte
    <3>4. Divided(start, k, A, C, y)
      BY ONLY <3>1, <3>3, <2>a
    <3>5. y \in Byte
      BY ONLY Doubles, <2>2, <3>1, <3>3, <3>4, q \in Byte
    <3> QED BY ONLY <3>3, <3>5
  <2>3. Goes(IF f.c = 1 THEN 289 ELSE 287) /\ UNCHANGED <<reg, f, sp, mem>> /\ MachineTyped'
    <3>1. Goes(IF f.c = 1 THEN (ip + 1 + 2) % 65536 ELSE (ip + 1) % 65536) /\ UNCHANGED <<reg, f, sp, mem>> /\ MachineTyped'
      BY <2>1, DoesJR, Conditions
    <3>2. (286 + 1 + 2) % 65536 = 289 /\ (286 + 1) % 65536 = 287
      OBVIOUS
    <3> QED BY <2>1, <3>1, <3>2
  <2>5. reg'["a"] = A /\ reg'["b"] = B /\ reg'["c"] = C /\ reg'["e"] = E
    BY <2>3, <1>p
  <2>6. CASE A < E
    <3>1. ip' = 289 /\ UNCHANGED <<master, irqs, start>>
      BY <2>2, <2>3, <2>6, <1>e, <1>p DEF Goes
    <3>2. /\ reg'["b"] \in 1..8 /\ reg'["a"] < start.reg["e"]
          /\ 2 * q \in Byte /\ Divided(start, reg'["b"] - 1, reg'["a"], reg'["c"], 2 * q)
      BY ONLY <2>2, <2>a, <2>b, <2>5, <2>6, <1>e
    <3>3. /\ start.ip = 240 /\ Called(242, mem') /\ sp' = 14 /\ reg'["e"] = start.reg["e"] /\ start.reg["e"] \in 1..128
      BY <1>c, <2>3 DEF Called
    <3>4. DivInv(start, 9, reg', f', sp', mem')
      BY ONLY <3>2, <3>3 DEF DivInv
    <3> QED BY <2>3, <3>1, <3>4, DivRuns DEF Carried
  <2>7. CASE ~(A < E)
    <3>1. ip' = 287 /\ UNCHANGED <<master, irqs, start>>
      BY <2>2, <2>3, <2>7, <1>e, <1>p DEF Goes
    <3>2. /\ reg'["b"] \in 1..8 /\ reg'["a"] < 2 * start.reg["e"]
          /\ q \in Byte /\ Divided(start, reg'["b"] - 1, reg'["a"], reg'["c"], 2 * q)
          /\ reg'["a"] >= start.reg["e"]
      BY ONLY <2>2, <2>a, <2>5, <2>7, <1>e, <1>p, q \in Byte
    <3>3. /\ start.ip = 240 /\ Called(242, mem') /\ sp' = 14 /\ reg'["e"] = start.reg["e"] /\ start.reg["e"] \in 1..128
      BY <1>c, <2>3 DEF Called
    <3>4. DivInv(start, 7, reg', f', sp', mem')
      BY ONLY <3>2, <3>3 DEF DivInv
    <3> QED BY <2>3, <3>1, <3>4, DivRuns DEF Carried
  <2> QED BY <2>6, <2>7
<1>7. CASE j = 7
  <2>1. I.op = "SUB" /\ I.src = "e" /\ ip = 287
    BY <1>7, DivIs DEF I, On
  <2>2. B \in 1..8 /\ A < 2 * E /\ A >= E /\ \E q \in Byte : Divided(start, B - 1, A, C, 2 * q)
    BY <1>7, <1>p, <1>e DEF DivInv
  <2>a. PICK q \in Byte : Divided(start, B - 1, A, C, 2 * q)
    BY <2>2
  <2>b. (A - E) % 256 = A - E /\ A - E < E /\ (A - E) + E = A
    BY ONLY <2>2, <1>e, <1>p
  <2>3. Onward /\ reg' = [reg EXCEPT !["a"] = A - E] /\ UNCHANGED <<sp, mem>> /\ MachineTyped'
    <3>1. LET r == Sub(reg["a"], reg["e"], f) IN Fine(r) /\ r.v = A - E
      <4>1. reg["a"] \in Byte /\ reg["e"] \in Byte /\ reg["a"] = A /\ reg["e"] = E /\ f \in Flag
        BY <1>r, <1>t, <1>p DEF Reg8
      <4>2. LET r == Sub(reg["a"], reg["e"], f) IN Fine(r) /\ r.v = (A - E) % 256
        BY ONLY <4>1, SubIs
      <4> QED BY ONLY <4>2, <2>b
    <3> QED BY <2>1, <3>1, DoesAccumulate DEF Operators, Compute, Reg8
  <2>4. ip' = ip + 1 /\ UNCHANGED <<master, irqs, start>>
    BY <2>1, <2>3, OnwardTo
  <2>5. reg'["a"] = A - E /\ reg'["b"] = B /\ reg'["c"] = C /\ reg'["e"] = E
    BY <2>3, <1>t, <1>p DEF Reg8
  <2>7. /\ reg'["b"] \in 1..8 /\ reg'["a"] < start.reg["e"]
        /\ q \in Byte /\ Divided(start, reg'["b"] - 1, reg'["a"] + start.reg["e"], reg'["c"], 2 * q)
    BY ONLY <2>2, <2>a, <2>b, <2>5, <1>e, q \in Byte
  <2>8. /\ start.ip = 240 /\ Called(242, mem') /\ sp' = 14 /\ reg'["e"] = start.reg["e"] /\ start.reg["e"] \in 1..128
        /\ reg'["b"] \in 1..8 /\ reg'["a"] < start.reg["e"]
        /\ q \in Byte /\ Divided(start, reg'["b"] - 1, reg'["a"] + start.reg["e"], reg'["c"], 2 * q)
    BY <1>c, <1>e, <1>p, <1>t, <2>3, <2>7 DEF Called, Reg8
  <2>9. DivInv(start, 8, reg', f', sp', mem')
    BY ONLY <2>8 DEF DivInv
  <2> QED BY <2>1, <2>3, <2>4, <2>9, DivRuns DEF Carried
<1>8. CASE j = 8
  <2>1. I.op = "SET" /\ I.n = 0 /\ I.src = "c" /\ ip = 288
    BY <1>8, DivIs DEF I, At
  <2>2. B \in 1..8 /\ A < E /\ \E q \in Byte : Divided(start, B - 1, A + E, C, 2 * q)
    BY <1>8, <1>p, <1>e DEF DivInv
  <2>a. PICK q \in Byte : Divided(start, B - 1, A + E, C, 2 * q)
    BY <2>2
  <2>b. C % 2 = 0 /\ 2 * q + 1 \in Byte /\ Divided(start, B - 1, A, C + 1, 2 * q + 1)
    <3>1. PICK k \in Int : k = B - 1
      BY ONLY <2>2
    <3>2. PICK x \in Int : x = A + E
      BY ONLY <1>p
    <3>3. PICK y \in Int : y = 2 * q
      BY ONLY q \in Byte DEF Byte
    <3>4. Divided(start, k, x, C, y)
      BY ONLY <3>1, <3>2, <3>3, <2>a
    <3>6. C % 2 = 0 /\ y + 1 \in Byte /\ Divided(start, k, x - start.reg["e"], C + 1, y + 1)
      BY ONLY LowBit, <1>n, <1>e, <1>p, <2>2, <3>1, <3>2, <3>3, <3>4, q \in Byte, x \in Int
    <3>5. x - start.reg["e"] = A
      BY ONLY <3>2, <1>e, <1>p
    <3> QED BY ONLY <3>1, <3>3, <3>5, <3>6
  <2>3. Onward /\ reg' = [reg EXCEPT !["c"] = C + 1] /\ UNCHANGED <<sp, mem>> /\ MachineTyped'
    <3>1. LET r == Result(SetBit(0, reg["c"]), f) IN Fine(r) /\ r.v = C + 1
      BY <1>p, <1>t, <1>r, <2>b, SetLowest DEF Reg8
    <3> QED BY <2>1, <3>1, DoesCB DEF Shift, Reg8
  <2>4. ip' = ip + 1 /\ UNCHANGED <<master, irqs, start>>
    BY <2>1, <2>3, OnwardTo
  <2>5. reg'["a"] = A /\ reg'["b"] = B /\ reg'["c"] = C + 1 /\ reg'["e"] = E
    BY <2>3, <1>t, <1>p DEF Reg8
  <2>c. PICK x \in Byte : Divided(start, B - 1, A, C + 1, x)
    BY <2>b
  <2>7. /\ reg'["b"] \in 1..8 /\ reg'["a"] < start.reg["e"]
        /\ x \in Byte /\ Divided(start, reg'["b"] - 1, reg'["a"], reg'["c"], x)
    BY ONLY <2>2, <2>c, <2>5, <1>e, x \in Byte
  <2>8. /\ start.ip = 240 /\ Called(242, mem') /\ sp' = 14 /\ reg'["e"] = start.reg["e"] /\ start.reg["e"] \in 1..128
        /\ reg'["b"] \in 1..8 /\ reg'["a"] < start.reg["e"]
        /\ x \in Byte /\ Divided(start, reg'["b"] - 1, reg'["a"], reg'["c"], x)
    BY <1>c, <1>e, <1>p, <1>t, <2>3, <2>7 DEF Called, Reg8
  <2>9. DivInv(start, 9, reg', f', sp', mem')
    BY ONLY <2>8 DEF DivInv
  <2> QED BY <2>1, <2>3, <2>4, <2>9, DivRuns DEF Carried
<1>9. CASE j = 9
  <2>1. I.op = "DEC" /\ I.src = "b" /\ ip = 289
    BY <1>9, DivIs DEF I, On
  <2>2. B \in 1..8 /\ A < E /\ \E q \in Byte : Divided(start, B - 1, A, C, q)
    BY <1>9, <1>p, <1>e DEF DivInv
  <2>a. PICK q \in Byte : Divided(start, B - 1, A, C, q)
    BY <2>2
  <2>b. (B - 1) % 256 = B - 1 /\ B - 1 \in 0..7
    BY ONLY <2>2
  <2>3. /\ Onward /\ reg' = [reg EXCEPT !["b"] = B - 1] /\ UNCHANGED <<sp, mem>> /\ MachineTyped'
        /\ f'.z = (IF B - 1 = 0 THEN 1 ELSE 0)
    <3>1. LET r == Dec(B, f) IN Fine(r) /\ r.v = B - 1 /\ r.f.z = (IF B - 1 = 0 THEN 1 ELSE 0)
      BY <2>b, <1>p, <1>t, <1>r, DecIs DEF Reg8
    <3> QED BY <2>1, <1>p, <3>1, DoesDec DEF Reg8
  <2>4. ip' = ip + 1 /\ UNCHANGED <<master, irqs, start>>
    BY <2>1, <2>3, OnwardTo
  <2>5. reg'["a"] = A /\ reg'["b"] = B - 1 /\ reg'["c"] = C /\ reg'["e"] = E
    BY <2>3, <1>t, <1>p DEF Reg8
  <2>7. /\ reg'["b"] \in 0..7 /\ reg'["a"] < start.reg["e"] /\ f'.z = (IF reg'["b"] = 0 THEN 1 ELSE 0)
        /\ q \in Byte /\ Divided(start, reg'["b"], reg'["a"], reg'["c"], q)
    BY ONLY <2>2, <2>a, <2>b, <2>3, <2>5, <1>e, q \in Byte
  <2>8. /\ start.ip = 240 /\ Called(242, mem') /\ sp' = 14 /\ reg'["e"] = start.reg["e"] /\ start.reg["e"] \in 1..128
        /\ reg'["b"] \in 0..7 /\ reg'["a"] < start.reg["e"] /\ f'.z = (IF reg'["b"] = 0 THEN 1 ELSE 0)
        /\ q \in Byte /\ Divided(start, reg'["b"], reg'["a"], reg'["c"], q)
    BY <1>c, <1>e, <1>p, <1>t, <2>3, <2>7 DEF Called, Reg8
  <2>9. DivInv(start, 10, reg', f', sp', mem')
    BY ONLY <2>8 DEF DivInv
  <2> QED BY <2>1, <2>3, <2>4, <2>9, DivRuns DEF Carried
<1>10. CASE j = 10
  <2>1. I.op = "JR" /\ I.cc = "nz" /\ I.n = -8 /\ ip = 290
    BY <1>10, DivIs DEF I, Go
  <2>2. B \in 0..7 /\ A < E /\ (\E q \in Byte : Divided(start, B, A, C, q)) /\ f.z = (IF B = 0 THEN 1 ELSE 0)
    BY <1>10, <1>p, <1>e DEF DivInv
  <2>a. PICK q \in Byte : Divided(start, B, A, C, q)
    BY <2>2
  <2>3. Goes(IF f.z = 0 THEN 283 ELSE 291) /\ UNCHANGED <<reg, f, sp, mem>> /\ MachineTyped'
    <3>1. Goes(IF f.z = 0 THEN (ip + 1 + (-8)) % 65536 ELSE (ip + 1) % 65536) /\ UNCHANGED <<reg, f, sp, mem>> /\ MachineTyped'
      BY <2>1, DoesJR, Conditions
    <3>2. (290 + 1 + (-8)) % 65536 = 283 /\ (290 + 1) % 65536 = 291
      OBVIOUS
    <3> QED BY <2>1, <3>1, <3>2
  <2>5. reg'["a"] = A /\ reg'["b"] = B /\ reg'["c"] = C /\ reg'["e"] = E
    BY <2>3, <1>p
  <2>6. CASE B # 0
    <3>1. ip' = 283 /\ UNCHANGED <<master, irqs, start>>
      BY <2>2, <2>3, <2>6 DEF Goes
    <3>2. /\ reg'["b"] \in 1..8 /\ reg'["a"] < start.reg["e"]
          /\ q \in Byte /\ Divided(start, reg'["b"], reg'["a"], reg'["c"], q)
      BY ONLY <2>2, <2>a, <2>5, <2>6, <1>e, q \in Byte
    <3>3. /\ start.ip = 240 /\ Called(242, mem') /\ sp' = 14 /\ reg'["e"] = start.reg["e"] /\ start.reg["e"] \in 1..128
      BY <1>c, <2>3 DEF Called
    <3>4. DivInv(start, 3, reg', f', sp', mem')
      BY ONLY <3>2, <3>3 DEF DivInv
    <3> QED BY <2>3, <3>1, <3>4, DivRuns DEF Carried
  <2>7. CASE B = 0
    <3>1. ip' = 291 /\ UNCHANGED <<master, irqs, start>>
      BY <2>2, <2>3, <2>7 DEF Goes
    <3>2. /\ reg'["a"] < start.reg["e"]
          /\ q \in Byte /\ Divided(start, 0, reg'["a"], reg'["c"], q)
      BY ONLY <2>2, <2>a, <2>5, <2>7, <1>e, q \in Byte
    <3>3. /\ start.ip = 240 /\ Called(242, mem') /\ sp' = 14 /\ reg'["e"] = start.reg["e"] /\ start.reg["e"] \in 1..128
      BY <1>c, <2>3 DEF Called
    <3>4. DivInv(start, 11, reg', f', sp', mem')
      BY ONLY <3>2, <3>3 DEF DivInv
    <3> QED BY <2>3, <3>1, <3>4, DivRuns DEF Carried
  <2> QED BY <2>6, <2>7
<1>11. CASE j = 11
  <2>1. I.cc = "always" /\ I.op = "RET" /\ ip = 291
    BY <1>11, DivIs DEF I, Ret
  <2>2. A < E /\ \E q \in Byte : Divided(start, 0, A, C, q)
    BY <1>11, <1>p, <1>e DEF DivInv
  <2>a. PICK q \in Byte : Divided(start, 0, A, C, q)
    BY <2>2
  <2>3. C = N \div E /\ A = N % E
    BY ONLY AllDivided, <1>n, <1>e, <1>p, <2>2, <2>a, q \in Byte
  <2>4. Correct(reg, start.reg)
    BY <2>3, <1>c, <1>e, <1>n, <1>p DEF Correct, Base
  <2> QED BY <2>1, <1>c, <2>4, Always, Returns
<1>x. j \in {1, 2, 3, 4, 5, 6, 7, 8, 9, 10, 11}
  OBVIOUS
<1> QED BY ONLY <1>x, <1>1, <1>2, <1>3, <1>4, <1>5, <1>6, <1>7, <1>8, <1>9, <1>10, <1>11

-----------------------------------------------------------------------------
(* Bits in reverse order                                                    *)

LEMMA HalfBits ==
  ASSUME NEW n \in Byte, NEW k \in 0..7, NEW c \in Nat, c = n \div Two(k)
  PROVE  c % 2 = BitOf(n, k) /\ c \div 2 = n \div Two(k + 1)
<1>0. n \in Nat /\ n < 256
  BY ByteIs
<1>b. /\ BitOf(n, 0) = n % 2 /\ BitOf(n, 1) = (n \div 2) % 2 /\ BitOf(n, 2) = (n \div 4) % 2
      /\ BitOf(n, 3) = (n \div 8) % 2 /\ BitOf(n, 4) = (n \div 16) % 2
      /\ BitOf(n, 5) = (n \div 32) % 2 /\ BitOf(n, 6) = (n \div 64) % 2
      /\ BitOf(n, 7) = n \div 128
  BY BitsOf
<1>1. CASE k = 0
  <2>1. c = n \div 1 /\ BitOf(n, k) = n % 2 /\ Two(k + 1) = 2
    BY <1>1, <1>b, TwoIs
  <2>2. c % 2 = n % 2 /\ c \div 2 = n \div 2
    BY ONLY <1>0, <2>1
  <2> QED BY ONLY <2>1, <2>2
<1>2. CASE k = 1
  <2>1. c = n \div 2 /\ BitOf(n, k) = (n \div 2) % 2 /\ Two(k + 1) = 4
    BY <1>2, <1>b, TwoIs
  <2>2. c % 2 = (n \div 2) % 2 /\ c \div 2 = n \div 4
    BY ONLY <1>0, <2>1
  <2> QED BY ONLY <2>1, <2>2
<1>3. CASE k = 2
  <2>1. c = n \div 4 /\ BitOf(n, k) = (n \div 4) % 2 /\ Two(k + 1) = 8
    BY <1>3, <1>b, TwoIs
  <2>2. c % 2 = (n \div 4) % 2 /\ c \div 2 = n \div 8
    BY ONLY <1>0, <2>1
  <2> QED BY ONLY <2>1, <2>2
<1>4. CASE k = 3
  <2>1. c = n \div 8 /\ BitOf(n, k) = (n \div 8) % 2 /\ Two(k + 1) = 16
    BY <1>4, <1>b, TwoIs
  <2>2. c % 2 = (n \div 8) % 2 /\ c \div 2 = n \div 16
    BY ONLY <1>0, <2>1
  <2> QED BY ONLY <2>1, <2>2
<1>5. CASE k = 4
  <2>1. c = n \div 16 /\ BitOf(n, k) = (n \div 16) % 2 /\ Two(k + 1) = 32
    BY <1>5, <1>b, TwoIs
  <2>2. c % 2 = (n \div 16) % 2 /\ c \div 2 = n \div 32
    BY ONLY <1>0, <2>1
  <2> QED BY ONLY <2>1, <2>2
<1>6. CASE k = 5
  <2>1. c = n \div 32 /\ BitOf(n, k) = (n \div 32) % 2 /\ Two(k + 1) = 64
    BY <1>6, <1>b, TwoIs
  <2>2. c % 2 = (n \div 32) % 2 /\ c \div 2 = n \div 64
    BY ONLY <1>0, <2>1
  <2> QED BY ONLY <2>1, <2>2
<1>7. CASE k = 6
  <2>1. c = n \div 64 /\ BitOf(n, k) = (n \div 64) % 2 /\ Two(k + 1) = 128
    BY <1>7, <1>b, TwoIs
  <2>2. c % 2 = (n \div 64) % 2 /\ c \div 2 = n \div 128
    BY ONLY <1>0, <2>1
  <2> QED BY ONLY <2>1, <2>2
<1>8. CASE k = 7
  <2>1. c = n \div 128 /\ BitOf(n, k) = n \div 128 /\ Two(k + 1) = 256
    BY <1>8, <1>b, TwoIs
  <2>2. c % 2 = n \div 128 /\ c \div 2 = n \div 256
    BY ONLY <1>0, <2>1
  <2> QED BY ONLY <2>1, <2>2
<1> QED BY <1>1, <1>2, <1>3, <1>4, <1>5, <1>6, <1>7, <1>8

LEMMA ShiftBits ==
  ASSUME NEW a \in Byte, NEW v \in 0..1, NEW w, w = ((2 * a) % 256) + v
  PROVE  /\ BitOf(w, 0) = v /\ BitOf(w, 1) = BitOf(a, 0) /\ BitOf(w, 2) = BitOf(a, 1)
         /\ BitOf(w, 3) = BitOf(a, 2) /\ BitOf(w, 4) = BitOf(a, 3) /\ BitOf(w, 5) = BitOf(a, 4)
         /\ BitOf(w, 6) = BitOf(a, 5) /\ BitOf(w, 7) = BitOf(a, 6)
<1>1. a \in Nat /\ a < 256 /\ v \in Nat /\ v < 2
  BY ByteIs
<1>2. w \in Nat /\ w < 256
  BY <1>1
<1>3. w \in Byte
  BY <1>2, ByteIs
<1>4. /\ w % 2 = v /\ (w \div 2) % 2 = a % 2 /\ (w \div 4) % 2 = (a \div 2) % 2
      /\ (w \div 8) % 2 = (a \div 4) % 2 /\ (w \div 16) % 2 = (a \div 8) % 2
  BY <1>1
<1>5. /\ (w \div 32) % 2 = (a \div 16) % 2
      /\ (w \div 64) % 2 = (a \div 32) % 2 /\ w \div 128 = (a \div 64) % 2
  BY <1>1
<1> QED BY ONLY <1>3, <1>4, <1>5, a \in Byte, BitsOf

LEMMA ReversedMore ==
  ASSUME NEW k \in 0..7, NEW a \in Byte, NEW v \in 0..1, NEW n, v = BitOf(n, k), Reversed(k, a, n),
         NEW w, w = ((2 * a) % 256) + v
  PROVE  Reversed(k + 1, w, n)
<1>0. /\ BitOf(w, 0) = v /\ BitOf(w, 1) = BitOf(a, 0) /\ BitOf(w, 2) = BitOf(a, 1)
      /\ BitOf(w, 3) = BitOf(a, 2) /\ BitOf(w, 4) = BitOf(a, 3) /\ BitOf(w, 5) = BitOf(a, 4)
      /\ BitOf(w, 6) = BitOf(a, 5) /\ BitOf(w, 7) = BitOf(a, 6)
  BY ShiftBits
<1> SUFFICES ASSUME NEW i \in 0..7, i < k + 1 PROVE BitOf(w, i) = BitOf(n, k + 1 - 1 - i)
  BY DEF Reversed
<1>1. CASE i = 0
  <2>1. k + 1 - 1 - 0 = k
    OBVIOUS
  <2> QED BY ONLY <1>0, <1>1, <2>1, v = BitOf(n, k)
<1>2. CASE i \in 1..7
  <2>1. PICK m \in 0..6 : m = i - 1
    BY <1>2
  <2>2. m < k /\ k - 1 - m = k + 1 - 1 - i
    BY ONLY <2>1, i < k + 1, i \in 1..7, k \in 0..7, <1>2
  <2>3. BitOf(w, i) = BitOf(a, m)
    <3>1. i = m + 1
      BY <2>1
    <3> QED BY <3>1, <1>0, <2>1
  <2>4. BitOf(a, m) = BitOf(n, k - 1 - m)
    BY <2>1, <2>2 DEF Reversed
  <2> QED BY ONLY <2>2, <2>3, <2>4
<1> QED BY <1>1, <1>2

(* One instruction of ReverseCode *)
LEMMA ReverseStep ==
  ASSUME Instruction, MachineTyped, NEW j \in 1..7, ip = 321 + j,
         ReverseInv(start, j, reg, f, sp, mem)
  PROVE  Carried /\ (Running(start, ip', reg', f', sp', mem') \/ Finished')
<1>t. /\ reg \in [Reg8 -> Byte] /\ f \in Flag /\ mem \in [MCCells -> Byte]
      /\ start.reg \in [Reg8 -> Byte]
  BY DEF MachineTyped
<1>r. \A x \in Reg8 : reg[x] \in Byte /\ start.reg[x] \in Byte
  BY <1>t
<1>a. \A x \in Reg8 : reg[x] \in Nat /\ reg[x] < 256 /\ start.reg[x] \in Nat /\ start.reg[x] < 256
  BY <1>r, ByteIs
<1>g. f.z \in 0..1 /\ f.n \in 0..1 /\ f.h \in 0..1 /\ f.c \in 0..1
  BY <1>t, FlagHas
<1>A. PICK A \in Nat : reg["a"] = A /\ A < 256
  BY <1>a DEF Reg8
<1>B. PICK B \in Nat : reg["b"] = B /\ B < 256
  BY <1>a DEF Reg8
<1>C. PICK C \in Nat : reg["c"] = C /\ C < 256
  BY <1>a DEF Reg8
<1>p. /\ A \in Nat /\ B \in Nat /\ C \in Nat
      /\ reg["a"] = A /\ reg["b"] = B /\ reg["c"] = C
      /\ A < 256 /\ B < 256 /\ C < 256
  BY <1>A, <1>B, <1>C
<1>c. /\ start.ip = 249 /\ Called(250, mem) /\ sp = 14
  BY DEF ReverseInv
<1>N. PICK N \in Nat : start.reg["a"] = N /\ N < 256
  BY <1>a DEF Reg8
<1>n. N \in Nat /\ start.reg["a"] = N /\ N < 256 /\ N \in Byte /\ A \in Byte /\ C \in Byte
  BY <1>N, <1>p, ByteIs
<1>1. CASE j = 1
  <2>1. I.dst = "c" /\ I.src = "a" /\ I.op = "LD" /\ ip = 322
    BY <1>1, ReverseIs DEF I, Ld
  <2>2. A = N
    BY <1>1, <1>p, <1>n DEF ReverseInv
  <2>3. Onward /\ UNCHANGED <<f, sp, mem>> /\ MachineTyped' /\ reg' = [reg EXCEPT !["c"] = reg["a"]]
    BY <2>1, DoesLd DEF Reg8
  <2>4. ip' = ip + 1 /\ UNCHANGED <<master, irqs, start>>
    BY <2>1, <2>3, OnwardTo
  <2>5. reg'["a"] = A /\ reg'["c"] = A
    BY <2>3, <1>t, <1>p DEF Reg8
  <2>8. /\ start.ip = 249 /\ Called(250, mem') /\ sp' = 14
    BY ONLY <1>c, <2>3 DEF Called
  <2>7. reg'["c"] = start.reg["a"]
    BY ONLY <2>5, <2>2, <1>n
  <2>9. ReverseInv(start, 2, reg', f', sp', mem')
    BY ONLY <2>8, <2>7 DEF ReverseInv
  <2> QED BY <2>1, <2>3, <2>4, <2>9, ReverseRuns DEF Carried
<1>2. CASE j = 2
  <2>1. I.dst = "b" /\ I.n = 8 /\ I.op = "LD" /\ I.src = "d8" /\ ip = 323
    BY <1>2, ReverseIs DEF I, LdN
  <2>2. C = N
    BY <1>2, <1>p, <1>n DEF ReverseInv
  <2>3. Onward /\ reg' = [reg EXCEPT !["b"] = 8] /\ UNCHANGED <<f, sp, mem>> /\ MachineTyped'
    BY <2>1, DoesLdN DEF Reg8, Byte
  <2>4. ip' = ip + 1 /\ UNCHANGED <<master, irqs, start>>
    BY <2>1, <2>3, OnwardTo
  <2>5. reg'["a"] = A /\ reg'["c"] = C /\ reg'["b"] = 8
    BY <2>3, <1>t, <1>p DEF Reg8
  <2>6. Two(8 - 8) = 1 /\ N \div 1 = N
    <3>1. N \div 1 = N
      BY ONLY <1>n
    <3> QED BY ONLY <3>1, TwoIs
  <2>a. Reversed(8 - 8, A, N)
    BY ONLY TRUE DEF Reversed
  <2>8. /\ start.ip = 249 /\ Called(250, mem') /\ sp' = 14
    BY ONLY <1>c, <2>3 DEF Called
  <2>7. reg'["b"] \in 1..8 /\ reg'["c"] = start.reg["a"] \div Two(8 - reg'["b"]) /\ Reversed(8 - reg'["b"], reg'["a"], start.reg["a"])
    BY ONLY <2>5, <2>2, <2>6, <2>a, <1>n
  <2>9. ReverseInv(start, 3, reg', f', sp', mem')
    BY ONLY <2>8, <2>7 DEF ReverseInv
  <2> QED BY <2>1, <2>3, <2>4, <2>9, ReverseRuns DEF Carried
<1>3. CASE j = 3
  <2>1. I.op = "SRL" /\ I.src = "c" /\ ip = 324
    BY <1>3, ReverseIs DEF I, On
  <2>2. B \in 1..8 /\ C = N \div Two(8 - B) /\ Reversed(8 - B, A, N)
    BY <1>3, <1>p, <1>n DEF ReverseInv
  <2>K. PICK K \in 0..7 : K = 8 - B
    BY ONLY <2>2
  <2>3. Onward /\ reg' = [reg EXCEPT !["c"] = C \div 2] /\ f'.c = C % 2 /\ UNCHANGED <<sp, mem>> /\ MachineTyped'
    BY <2>1, <1>p, <1>t, <1>r, SrlIs, DoesCB DEF Reg8, Shift
  <2>4. ip' = ip + 1 /\ UNCHANGED <<master, irqs, start>>
    BY <2>1, <2>3, OnwardTo
  <2>5. reg'["a"] = A /\ reg'["b"] = B /\ reg'["c"] = C \div 2
    BY <2>3, <1>t, <1>p DEF Reg8
  <2>6. C = N \div Two(K) /\ 9 - B = K + 1
    BY ONLY <2>2, <2>K
  <2>a. C % 2 = BitOf(N, K) /\ C \div 2 = N \div Two(K + 1)
    BY ONLY <2>6, <1>n, K \in 0..7, HalfBits
  <2>b. C % 2 = BitOf(N, 8 - B) /\ C \div 2 = N \div Two(9 - B)
    BY ONLY <2>6, <2>a, <2>K
  <2>8. /\ start.ip = 249 /\ Called(250, mem') /\ sp' = 14
    BY ONLY <1>c, <2>3 DEF Called
  <2>7. /\ reg'["b"] \in 1..8 /\ reg'["c"] = start.reg["a"] \div Two(9 - reg'["b"]) /\ Reversed(8 - reg'["b"], reg'["a"], start.reg["a"])
        /\ f'.c = BitOf(start.reg["a"], 8 - reg'["b"])
    BY ONLY <2>5, <2>2, <2>3, <2>b, <1>n
  <2>9. ReverseInv(start, 4, reg', f', sp', mem')
    BY ONLY <2>8, <2>7 DEF ReverseInv
  <2> QED BY <2>1, <2>3, <2>4, <2>9, ReverseRuns DEF Carried
<1>4. CASE j = 4
  <2>1. I.op = "RLA" /\ ip = 325
    BY <1>4, ReverseIs DEF I, Op
  <2>2. B \in 1..8 /\ C = N \div Two(9 - B) /\ Reversed(8 - B, A, N) /\ f.c = BitOf(N, 8 - B)
    BY <1>4, <1>p, <1>n DEF ReverseInv
  <2>K. PICK K \in 0..7 : K = 8 - B
    BY ONLY <2>2
  <2>a. PICK V \in 0..1 : f.c = V
    BY <1>g
  <2>3. Onward /\ reg' = [reg EXCEPT !["a"] = ((2 * A) % 256) + V] /\ UNCHANGED <<sp, mem>> /\ MachineTyped'
    <3>1. LET r == Rl(reg["a"], f) IN Fine(r) /\ r.v = ((2 * A) % 256) + V
      BY <1>p, <1>t, <1>r, <2>a, RlIs DEF Reg8
    <3> QED BY <2>1, <3>1, DoesRLA
  <2>4. ip' = ip + 1 /\ UNCHANGED <<master, irqs, start>>
    BY <2>1, <2>3, OnwardTo
  <2>5. reg'["a"] = ((2 * A) % 256) + V /\ reg'["b"] = B /\ reg'["c"] = C
    BY <2>3, <1>t, <1>p DEF Reg8
  <2>6. K + 1 = 9 - B /\ V = BitOf(N, K) /\ Reversed(K, A, N)
    BY ONLY <2>2, <2>K, <2>a
  <2>c. PICK W : W = ((2 * A) % 256) + V
    OBVIOUS
  <2>b. Reversed(K + 1, W, N)
    BY ONLY <2>6, <2>c, <1>n, K \in 0..7, V \in 0..1, ReversedMore
  <2>d. Reversed(9 - B, W, N) /\ reg'["a"] = W /\ reg'["b"] = B /\ reg'["c"] = C
    BY ONLY <2>b, <2>5, <2>6, <2>c
  <2>8. /\ start.ip = 249 /\ Called(250, mem') /\ sp' = 14
    BY ONLY <1>c, <2>3 DEF Called
  <2>7. /\ reg'["b"] \in 1..8 /\ reg'["c"] = start.reg["a"] \div Two(9 - reg'["b"]) /\ Reversed(9 - reg'["b"], reg'["a"], start.reg["a"])
    BY ONLY <2>d, <2>2, <1>n
  <2>9. ReverseInv(start, 5, reg', f', sp', mem')
    BY ONLY <2>8, <2>7 DEF ReverseInv
  <2> QED BY <2>1, <2>3, <2>4, <2>9, ReverseRuns DEF Carried
<1>5. CASE j = 5
  <2>1. I.op = "DEC" /\ I.src = "b" /\ ip = 326
    BY <1>5, ReverseIs DEF I, On
  <2>2. B \in 1..8 /\ C = N \div Two(9 - B) /\ Reversed(9 - B, A, N)
    BY <1>5, <1>p, <1>n DEF ReverseInv
  <2>b. (B - 1) % 256 = B - 1 /\ B - 1 \in 0..7 /\ 8 - (B - 1) = 9 - B
    BY ONLY <2>2
  <2>3. /\ Onward /\ reg' = [reg EXCEPT !["b"] = B - 1] /\ UNCHANGED <<sp, mem>> /\ MachineTyped'
        /\ f'.z = (IF B - 1 = 0 THEN 1 ELSE 0)
    <3>1. LET r == Dec(B, f) IN Fine(r) /\ r.v = B - 1 /\ r.f.z = (IF B - 1 = 0 THEN 1 ELSE 0)
      BY <2>b, <1>p, <1>t, <1>r, DecIs DEF Reg8
    <3> QED BY <2>1, <1>p, <3>1, DoesDec DEF Reg8
  <2>4. ip' = ip + 1 /\ UNCHANGED <<master, irqs, start>>
    BY <2>1, <2>3, OnwardTo
  <2>5. reg'["a"] = A /\ reg'["b"] = B - 1 /\ reg'["c"] = C
    BY <2>3, <1>t, <1>p DEF Reg8
  <2>8. /\ start.ip = 249 /\ Called(250, mem') /\ sp' = 14
    BY ONLY <1>c, <2>3 DEF Called
  <2>7. /\ reg'["b"] \in 0..7 /\ reg'["c"] = start.reg["a"] \div Two(8 - reg'["b"]) /\ Reversed(8 - reg'["b"], reg'["a"], start.reg["a"])
        /\ f'.z = (IF reg'["b"] = 0 THEN 1 ELSE 0)
    BY ONLY <2>5, <2>2, <2>3, <2>b, <1>n
  <2>9. ReverseInv(start, 6, reg', f', sp', mem')
    BY ONLY <2>8, <2>7 DEF ReverseInv
  <2> QED BY <2>1, <2>3, <2>4, <2>9, ReverseRuns DEF Carried
<1>6. CASE j = 6
  <2>1. I.op = "JP" /\ I.cc = "nz" /\ I.n = 324 /\ ip = 327
    BY <1>6, ReverseIs DEF I, Go
  <2>2. B \in 0..7 /\ C = N \div Two(8 - B) /\ Reversed(8 - B, A, N) /\ f.z = (IF B = 0 THEN 1 ELSE 0)
    BY <1>6, <1>p, <1>n DEF ReverseInv
  <2>3. Goes(IF f.z = 0 THEN 324 ELSE 328) /\ UNCHANGED <<reg, f, sp, mem>> /\ MachineTyped'
    <3>1. Goes(IF f.z = 0 THEN 324 ELSE (ip + 1) % 65536) /\ UNCHANGED <<reg, f, sp, mem>> /\ MachineTyped'
      BY <2>1, DoesJump
    <3>2. (327 + 1) % 65536 = 328
      OBVIOUS
    <3> QED BY <2>1, <3>1, <3>2
  <2>5. reg'["a"] = A /\ reg'["b"] = B /\ reg'["c"] = C
    BY <2>3, <1>p
  <2>8. /\ start.ip = 249 /\ Called(250, mem') /\ sp' = 14
    BY ONLY <1>c, <2>3 DEF Called
  <2>6. CASE B # 0
    <3>1. ip' = 324 /\ UNCHANGED <<master, irqs, start>>
      BY <2>2, <2>3, <2>6 DEF Goes
    <3>2. reg'["b"] \in 1..8 /\ reg'["c"] = start.reg["a"] \div Two(8 - reg'["b"]) /\ Reversed(8 - reg'["b"], reg'["a"], start.reg["a"])
      BY ONLY <2>2, <2>5, <2>6, <1>n
    <3>4. ReverseInv(start, 3, reg', f', sp', mem')
      BY ONLY <3>2, <2>8 DEF ReverseInv
    <3> QED BY <2>3, <3>1, <3>4, ReverseRuns DEF Carried
  <2>7. CASE B = 0
    <3>1. ip' = 328 /\ UNCHANGED <<master, irqs, start>>
      BY <2>2, <2>3, <2>7 DEF Goes
    <3>2. Reversed(8, reg'["a"], start.reg["a"])
      BY ONLY <2>2, <2>5, <2>7, <1>n
    <3>4. ReverseInv(start, 7, reg', f', sp', mem')
      BY ONLY <3>2, <2>8 DEF ReverseInv
    <3> QED BY <2>3, <3>1, <3>4, ReverseRuns DEF Carried
  <2> QED BY <2>6, <2>7
<1>7. CASE j = 7
  <2>1. I.cc = "always" /\ I.op = "RET" /\ ip = 328
    BY <1>7, ReverseIs DEF I, Ret
  <2>2. Reversed(8, reg["a"], start.reg["a"])
    BY <1>7 DEF ReverseInv
  <2>3. \A i \in 0..7 : BitOf(reg["a"], i) = BitOf(start.reg["a"], 7 - i)
    <3> SUFFICES ASSUME NEW i \in 0..7 PROVE BitOf(reg["a"], i) = BitOf(start.reg["a"], 7 - i)
      OBVIOUS
    <3>1. i < 8 /\ 8 - 1 - i = 7 - i
      BY ONLY i \in 0..7
    <3> QED BY ONLY <2>2, <3>1, i \in 0..7 DEF Reversed
  <2>4. Correct(reg, start.reg)
    BY ONLY <2>3, <1>c DEF Correct, Base
  <2> QED BY <2>1, <1>c, <2>4, Always, Returns
<1>x. j \in {1, 2, 3, 4, 5, 6, 7}
  OBVIOUS
<1> QED BY ONLY <1>x, <1>1, <1>2, <1>3, <1>4, <1>5, <1>6, <1>7

-----------------------------------------------------------------------------
(* Decimal numbers                                                          *)

(* the number a byte of two digits stands for *)
Number(x) == 10 * (x \div 16) + (x % 16)

LEMMA DaaIs ==
  ASSUME NEW a \in Byte, NEW g \in Flag
  PROVE  Fine(Daa(a, g))
<1> DEFINE low  == IF g.n = 0 THEN (IF g.h = 1 \/ a % 16 > 9 THEN a + 6 ELSE a)
                         ELSE (IF g.h = 1 THEN (a - 6) % 256 ELSE a)
           high == IF g.n = 0 THEN (IF g.c = 1 \/ low > 159 THEN low + 96 ELSE low)
                         ELSE (IF g.c = 1 THEN low - 96 ELSE low)
           res  == high % 256
           c    == IF (high \div 256) % 2 = 1 THEN 1 ELSE g.c
<1>1. Daa(a, g) = Result(res, Flags(Zero(res), g.n, 0, c))
  BY DEF Daa
<1>2. a \in Int
  BY DEF Byte
<1>3. low \in Int
  BY ONLY <1>2
<1> HIDE DEF low
<1>4. high \in Int
  BY ONLY <1>3
<1> HIDE DEF high
<1>5. res \in Byte
  BY ONLY <1>4, ByteOf
<1>6. c \in 0..1 /\ g.n \in 0..1
  BY FlagHas
<1>7. Zero(res) \in 0..1
  BY ONLY <1>5, ZeroOfByte
<1> HIDE DEF res, c
<1> QED BY ONLY <1>1, <1>5, <1>6, <1>7, 0 \in 0..1, ResultIs

LEMMA DigitsOf ==
  ASSUME NEW a \in Byte, IsDecimal(a)
  PROVE  a \div 16 \in Digit /\ a % 16 \in Digit /\ a = 16 * (a \div 16) + (a % 16)
<1>1. a \in Nat /\ a < 256
  BY ByteIs
<1> QED BY <1>1 DEF IsDecimal, Digit

LEMMA NumberOf ==
  ASSUME NEW p \in Digit, NEW q \in Digit, NEW v, v = 16 * p + q
  PROVE  Number(v) = 10 * p + q
<1>1. v \div 16 = p /\ v % 16 = q
  BY DEF Digit
<1> QED BY ONLY <1>1 DEF Number

(* ADC and DAA on two digits each, as numbers *)
LEMMA AddsDecimal ==
  ASSUME NEW a \in Byte, IsDecimal(a), NEW v \in Byte, IsDecimal(v), NEW g \in Flag
  PROVE  LET s == AddBytes(a, v, g.c)
             d == Daa(s.v, s.f)
         IN Fine(s) /\ Fine(d) /\ Number(d.v) + 100 * d.f.c = Number(a) + Number(v) + g.c
<1> DEFINE s == AddBytes(a, v, g.c)
           d == Daa(s.v, s.f)
<1>1. g.c \in 0..1
  BY FlagHas
<1>2. Fine(s)
  BY <1>1, AddBytesIs
<1>3. Fine(d)
  <2> HIDE DEF s
  <2> QED BY <1>2, DaaIs DEF Fine
<1>x. PICK x1 \in Digit : x1 = a \div 16
  BY DigitsOf
<1>y. PICK x0 \in Digit : x0 = a % 16
  BY DigitsOf
<1>z. PICK y1 \in Digit : y1 = v \div 16
  BY DigitsOf
<1>w. PICK y0 \in Digit : y0 = v % 16
  BY DigitsOf
<1>4. a = 16 * x1 + x0 /\ v = 16 * y1 + y0
  BY ONLY <1>x, <1>y, <1>z, <1>w, a \in Byte, v \in Byte, IsDecimal(a), IsDecimal(v), DigitsOf
<1>5. PICK k \in 0..1 : k = g.c
  BY <1>1
<1>6. PICK t \in Int : t = 10 * (x1 + y1) + x0 + y0 + k
  BY ONLY k \in 0..1, x1 \in Digit, x0 \in Digit, y1 \in Digit, y0 \in Digit DEF Digit
<1>7. d.v = 16 * ((t \div 10) % 10) + (t % 10) /\ d.f.c = t \div 100
  <2>1. LET e == Adc(16 * x1 + x0, 16 * y1 + y0, g)
            b == Daa(e.v, e.f)
            u == 10 * (x1 + y1) + x0 + y0 + g.c
        IN /\ b.v = 16 * ((u \div 10) % 10) + (u % 10) /\ b.f.c = u \div 100
    BY ONLY DecimalAddition, x1 \in Digit, x0 \in Digit, y1 \in Digit, y0 \in Digit, g \in Flag
  <2>2. Adc(16 * x1 + x0, 16 * y1 + y0, g) = s
    BY ONLY <1>4 DEF Adc
  <2> HIDE DEF s
  <2> QED BY ONLY <1>5, <1>6, <2>1, <2>2
<1> HIDE DEF d, s
<1>8. t \in 0..199
  BY ONLY <1>6, k \in 0..1, x1 \in Digit, x0 \in Digit, y1 \in Digit, y0 \in Digit DEF Digit
<1>9. (t \div 10) % 10 \in Digit /\ t % 10 \in Digit /\ 10 * ((t \div 10) % 10) + (t % 10) + 100 * (t \div 100) = t
  BY ONLY <1>8 DEF Digit
<1>10. Number(d.v) = 10 * ((t \div 10) % 10) + (t % 10)
  BY ONLY <1>7, <1>9, NumberOf
<1>11. Number(a) = 10 * x1 + x0 /\ Number(v) = 10 * y1 + y0
  BY ONLY <1>4, x1 \in Digit, x0 \in Digit, y1 \in Digit, y0 \in Digit, NumberOf
<1>12. Number(d.v) + 100 * d.f.c = Number(a) + Number(v) + g.c
  <2>1. Number(d.v) + 100 * d.f.c = t
    BY ONLY <1>7, <1>8, <1>9, <1>10
  <2>2. Number(a) + Number(v) + g.c = t
    BY ONLY <1>5, <1>6, <1>11, k \in 0..1, x1 \in Digit, x0 \in Digit, y1 \in Digit, y0 \in Digit DEF Digit
  <2> QED BY ONLY <2>1, <2>2
<1> QED BY ONLY <1>2, <1>3, <1>12 DEF d, s

(* SBC and DAA on two digits each, as numbers *)
LEMMA SubtractsDecimal ==
  ASSUME NEW a \in Byte, IsDecimal(a), NEW v \in Byte, IsDecimal(v), NEW g \in Flag
  PROVE  LET s == Sbc(a, v, g)
             d == Daa(s.v, s.f)
         IN Fine(s) /\ Fine(d) /\ Number(d.v) - 100 * d.f.c = Number(a) - Number(v) - g.c
<1> DEFINE s == Sbc(a, v, g)
           d == Daa(s.v, s.f)
<1>1. g.c \in 0..1
  BY FlagHas
<1>2. Fine(s)
  BY <1>1, SbcIs
<1>3. Fine(d)
  <2> HIDE DEF s
  <2> QED BY <1>2, DaaIs DEF Fine
<1>x. PICK x1 \in Digit : x1 = a \div 16
  BY DigitsOf
<1>y. PICK x0 \in Digit : x0 = a % 16
  BY DigitsOf
<1>z. PICK y1 \in Digit : y1 = v \div 16
  BY DigitsOf
<1>w. PICK y0 \in Digit : y0 = v % 16
  BY DigitsOf
<1>4. a = 16 * x1 + x0 /\ v = 16 * y1 + y0
  BY ONLY <1>x, <1>y, <1>z, <1>w, a \in Byte, v \in Byte, IsDecimal(a), IsDecimal(v), DigitsOf
<1>5. PICK k \in 0..1 : k = g.c
  BY <1>1
<1>6. PICK t \in Int : t = 10 * (x1 - y1) + x0 - y0 - k
  BY ONLY k \in 0..1, x1 \in Digit, x0 \in Digit, y1 \in Digit, y0 \in Digit DEF Digit
<1>7. d.v = 16 * ((t % 100) \div 10) + (t % 10) /\ d.f.c = Bool(t < 0)
  <2>1. LET e == Sbc(16 * x1 + x0, 16 * y1 + y0, g)
            b == Daa(e.v, e.f)
            u == 10 * (x1 - y1) + x0 - y0 - g.c
        IN /\ b.v = 16 * ((u % 100) \div 10) + (u % 10) /\ b.f.c = Bool(u < 0)
    BY ONLY DecimalSubtraction, x1 \in Digit, x0 \in Digit, y1 \in Digit, y0 \in Digit, g \in Flag
  <2>2. Sbc(16 * x1 + x0, 16 * y1 + y0, g) = s
    BY ONLY <1>4
  <2> HIDE DEF s
  <2> QED BY ONLY <1>5, <1>6, <2>1, <2>2
<1> HIDE DEF d, s
<1>8. t \in (-100)..99
  BY ONLY <1>6, k \in 0..1, x1 \in Digit, x0 \in Digit, y1 \in Digit, y0 \in Digit DEF Digit
<1>9. /\ (t % 100) \div 10 \in Digit /\ t % 10 \in Digit
      /\ 10 * ((t % 100) \div 10) + (t % 10) - 100 * (IF t < 0 THEN 1 ELSE 0) = t
  BY ONLY <1>8 DEF Digit
<1>10. Number(d.v) = 10 * ((t % 100) \div 10) + (t % 10)
  BY ONLY <1>7, <1>9, NumberOf
<1>11. Number(a) = 10 * x1 + x0 /\ Number(v) = 10 * y1 + y0
  BY ONLY <1>4, x1 \in Digit, x0 \in Digit, y1 \in Digit, y0 \in Digit, NumberOf
<1>13. d.f.c = (IF t < 0 THEN 1 ELSE 0)
  BY ONLY <1>7 DEF Bool
<1>12. Number(d.v) - 100 * d.f.c = Number(a) - Number(v) - g.c
  <2>1. Number(d.v) - 100 * d.f.c = t
    BY ONLY <1>13, <1>9, <1>10
  <2>2. Number(a) - Number(v) - g.c = t
    BY ONLY <1>5, <1>6, <1>11, k \in 0..1, x1 \in Digit, x0 \in Digit, y1 \in Digit, y0 \in Digit DEF Digit
  <2> QED BY ONLY <2>1, <2>2
<1> QED BY ONLY <1>2, <1>3, <1>12 DEF d, s

LEMMA DecimalIs ==
  ASSUME NEW hi \in Byte, NEW lo \in Byte
  PROVE  Decimal(hi, lo) = 100 * Number(hi) + Number(lo) /\ Number(hi) \in Nat /\ Number(lo) \in Nat
<1>1. hi \in Nat /\ lo \in Nat
  BY ByteIs
<1> QED BY <1>1 DEF Decimal, Number

LEMMA NoFlags == Flags(0, 0, 0, 0) \in Flag /\ Flags(0, 0, 0, 0).c = 0
<1>1. 0 \in 0..1
  OBVIOUS
<1> QED BY <1>1, FlagsAre

DecimalDigits(z) == \A x \in {"b", "c", "d", "e"} : z.reg[x] \in Byte /\ IsDecimal(z.reg[x])

(* Two additions of two digits each add four digits. *)
LEMMA SumTotal ==
  ASSUME NEW z, DecimalDigits(z)
  PROVE  /\ Fine(LowSum(z)) /\ Fine(LowDigits(z)) /\ Fine(HighSum(z)) /\ Fine(HighDigits(z))
         /\ Decimal(HighDigits(z).v, LowDigits(z).v) + 10000 * HighDigits(z).f.c
             = Decimal(z.reg["b"], z.reg["c"]) + Decimal(z.reg["d"], z.reg["e"])
<1>0. /\ z.reg["b"] \in Byte /\ IsDecimal(z.reg["b"]) /\ z.reg["c"] \in Byte /\ IsDecimal(z.reg["c"])
      /\ z.reg["d"] \in Byte /\ IsDecimal(z.reg["d"]) /\ z.reg["e"] \in Byte /\ IsDecimal(z.reg["e"])
  BY DEF DecimalDigits
<1>1. /\ Fine(LowSum(z)) /\ Fine(LowDigits(z))
      /\ Number(LowDigits(z).v) + 100 * LowDigits(z).f.c = Number(z.reg["c"]) + Number(z.reg["e"]) + 0
  BY ONLY <1>0, NoFlags, AddsDecimal DEF LowSum, LowDigits
<1>2. /\ Fine(HighSum(z)) /\ Fine(HighDigits(z))
      /\ Number(HighDigits(z).v) + 100 * HighDigits(z).f.c = Number(z.reg["b"]) + Number(z.reg["d"]) + LowDigits(z).f.c
  BY ONLY <1>0, <1>1, AddsDecimal DEF HighSum, HighDigits, Fine
<1>3. /\ HighDigits(z).v \in Byte /\ LowDigits(z).v \in Byte
      /\ LowDigits(z).f.c \in 0..1 /\ HighDigits(z).f.c \in 0..1
  BY ONLY <1>1, <1>2, FlagHas DEF Fine
<1>4. /\ Decimal(HighDigits(z).v, LowDigits(z).v) = 100 * Number(HighDigits(z).v) + Number(LowDigits(z).v)
      /\ Number(HighDigits(z).v) \in Nat /\ Number(LowDigits(z).v) \in Nat
  BY ONLY <1>3, DecimalIs
<1>5. /\ Decimal(z.reg["b"], z.reg["c"]) = 100 * Number(z.reg["b"]) + Number(z.reg["c"])
      /\ Number(z.reg["b"]) \in Nat /\ Number(z.reg["c"]) \in Nat
  BY ONLY <1>0, DecimalIs
<1>6. /\ Decimal(z.reg["d"], z.reg["e"]) = 100 * Number(z.reg["d"]) + Number(z.reg["e"])
      /\ Number(z.reg["d"]) \in Nat /\ Number(z.reg["e"]) \in Nat
  BY ONLY <1>0, DecimalIs
<1>7. Decimal(HighDigits(z).v, LowDigits(z).v) + 10000 * HighDigits(z).f.c
             = Decimal(z.reg["b"], z.reg["c"]) + Decimal(z.reg["d"], z.reg["e"])
  <2>1. PICK h \in Nat : h = Number(HighDigits(z).v)
    BY ONLY <1>4
  <2>2. PICK l \in Nat : l = Number(LowDigits(z).v)
    BY ONLY <1>4
  <2>3. PICK p \in Nat : p = HighDigits(z).f.c
    BY ONLY <1>3
  <2>4. PICK q \in Nat : q = LowDigits(z).f.c
    BY ONLY <1>3
  <2>5. PICK b \in Nat : b = Number(z.reg["b"])
    BY ONLY <1>5
  <2>6. PICK c \in Nat : c = Number(z.reg["c"])
    BY ONLY <1>5
  <2>7. PICK d \in Nat : d = Number(z.reg["d"])
    BY ONLY <1>6
  <2>8. PICK e \in Nat : e = Number(z.reg["e"])
    BY ONLY <1>6
  <2>9. l + 100 * q = c + e + 0 /\ h + 100 * p = b + d + q
    BY ONLY <1>1, <1>2, <2>1, <2>2, <2>3, <2>4, <2>5, <2>6, <2>7, <2>8
  <2>10. (100 * h + l) + 10000 * p = (100 * b + c) + (100 * d + e)
    BY ONLY <2>9, h \in Nat, l \in Nat, p \in Nat, q \in Nat, b \in Nat, c \in Nat, d \in Nat, e \in Nat
  <2> QED BY ONLY <1>4, <1>5, <1>6, <2>1, <2>2, <2>3, <2>5, <2>6, <2>7, <2>8, <2>10
<1> QED BY ONLY <1>1, <1>2, <1>7

(* Two subtractions of two digits each subtract four digits. *)
LEMMA DiffTotal ==
  ASSUME NEW z, DecimalDigits(z)
  PROVE  /\ Fine(LowDiff(z)) /\ Fine(LowLeft(z)) /\ Fine(HighDiff(z)) /\ Fine(HighLeft(z))
         /\ Decimal(HighLeft(z).v, LowLeft(z).v) - 10000 * HighLeft(z).f.c
             = Decimal(z.reg["b"], z.reg["c"]) - Decimal(z.reg["d"], z.reg["e"])
<1>0. /\ z.reg["b"] \in Byte /\ IsDecimal(z.reg["b"]) /\ z.reg["c"] \in Byte /\ IsDecimal(z.reg["c"])
      /\ z.reg["d"] \in Byte /\ IsDecimal(z.reg["d"]) /\ z.reg["e"] \in Byte /\ IsDecimal(z.reg["e"])
  BY DEF DecimalDigits
<1>1. /\ Fine(LowDiff(z)) /\ Fine(LowLeft(z))
      /\ Number(LowLeft(z).v) - 100 * LowLeft(z).f.c = Number(z.reg["c"]) - Number(z.reg["e"]) - 0
  BY ONLY <1>0, NoFlags, SubtractsDecimal DEF LowDiff, LowLeft
<1>2. /\ Fine(HighDiff(z)) /\ Fine(HighLeft(z))
      /\ Number(HighLeft(z).v) - 100 * HighLeft(z).f.c = Number(z.reg["b"]) - Number(z.reg["d"]) - LowLeft(z).f.c
  BY ONLY <1>0, <1>1, SubtractsDecimal DEF HighDiff, HighLeft, Fine
<1>3. /\ HighLeft(z).v \in Byte /\ LowLeft(z).v \in Byte
      /\ LowLeft(z).f.c \in 0..1 /\ HighLeft(z).f.c \in 0..1
  BY ONLY <1>1, <1>2, FlagHas DEF Fine
<1>4. /\ Decimal(HighLeft(z).v, LowLeft(z).v) = 100 * Number(HighLeft(z).v) + Number(LowLeft(z).v)
      /\ Number(HighLeft(z).v) \in Nat /\ Number(LowLeft(z).v) \in Nat
  BY ONLY <1>3, DecimalIs
<1>5. /\ Decimal(z.reg["b"], z.reg["c"]) = 100 * Number(z.reg["b"]) + Number(z.reg["c"])
      /\ Number(z.reg["b"]) \in Nat /\ Number(z.reg["c"]) \in Nat
  BY ONLY <1>0, DecimalIs
<1>6. /\ Decimal(z.reg["d"], z.reg["e"]) = 100 * Number(z.reg["d"]) + Number(z.reg["e"])
      /\ Number(z.reg["d"]) \in Nat /\ Number(z.reg["e"]) \in Nat
  BY ONLY <1>0, DecimalIs
<1>7. Decimal(HighLeft(z).v, LowLeft(z).v) - 10000 * HighLeft(z).f.c
             = Decimal(z.reg["b"], z.reg["c"]) - Decimal(z.reg["d"], z.reg["e"])
  <2>1. PICK h \in Nat : h = Number(HighLeft(z).v)
    BY ONLY <1>4
  <2>2. PICK l \in Nat : l = Number(LowLeft(z).v)
    BY ONLY <1>4
  <2>3. PICK p \in Nat : p = HighLeft(z).f.c
    BY ONLY <1>3
  <2>4. PICK q \in Nat : q = LowLeft(z).f.c
    BY ONLY <1>3
  <2>5. PICK b \in Nat : b = Number(z.reg["b"])
    BY ONLY <1>5
  <2>6. PICK c \in Nat : c = Number(z.reg["c"])
    BY ONLY <1>5
  <2>7. PICK d \in Nat : d = Number(z.reg["d"])
    BY ONLY <1>6
  <2>8. PICK e \in Nat : e = Number(z.reg["e"])
    BY ONLY <1>6
  <2>9. l - 100 * q = c - e - 0 /\ h - 100 * p = b - d - q
    BY ONLY <1>1, <1>2, <2>1, <2>2, <2>3, <2>4, <2>5, <2>6, <2>7, <2>8
  <2>10. (100 * h + l) - 10000 * p = (100 * b + c) - (100 * d + e)
    BY ONLY <2>9, h \in Nat, l \in Nat, p \in Nat, q \in Nat, b \in Nat, c \in Nat, d \in Nat, e \in Nat
  <2> QED BY ONLY <1>4, <1>5, <1>6, <2>1, <2>2, <2>3, <2>5, <2>6, <2>7, <2>8, <2>10
<1> QED BY ONLY <1>1, <1>2, <1>7

(* One instruction of SumCode *)
LEMMA SumStep ==
  ASSUME Instruction, MachineTyped, DecimalDigits(start), NEW j \in 1..9, ip = 291 + j,
         SumInv(start, j, reg, f, sp, mem)
  PROVE  Carried /\ (Running(start, ip', reg', f', sp', mem') \/ Finished')
<1>t. /\ reg \in [Reg8 -> Byte] /\ f \in Flag /\ mem \in [MCCells -> Byte]
      /\ start.reg \in [Reg8 -> Byte]
  BY DEF MachineTyped
<1>r. \A x \in Reg8 : reg[x] \in Byte /\ start.reg[x] \in Byte
  BY <1>t
<1>a. \A x \in Reg8 : reg[x] \in Nat /\ reg[x] < 256 /\ start.reg[x] \in Nat /\ start.reg[x] < 256
  BY <1>r, ByteIs
<1>g. f.z \in 0..1 /\ f.n \in 0..1 /\ f.h \in 0..1 /\ f.c \in 0..1
  BY <1>t, FlagHas
<1>c. /\ start.ip = 243 /\ Called(244, mem) /\ sp = 14
      /\ reg["d"] = start.reg["d"] /\ reg["e"] = start.reg["e"] /\ (j < 9 => reg["b"] = start.reg["b"])
      /\ reg["c"] = (IF j < 5 THEN start.reg["c"] ELSE LowDigits(start).v)
  BY DEF SumInv
<1>f. /\ Fine(LowSum(start)) /\ Fine(LowDigits(start)) /\ Fine(HighSum(start)) /\ Fine(HighDigits(start))
      /\ Decimal(HighDigits(start).v, LowDigits(start).v) + 10000 * HighDigits(start).f.c
          = Decimal(start.reg["b"], start.reg["c"]) + Decimal(start.reg["d"], start.reg["e"])
  BY SumTotal
<1>b. reg["a"] \in Byte /\ reg["b"] \in Byte /\ reg["c"] \in Byte /\ reg["d"] \in Byte /\ reg["e"] \in Byte
  BY <1>r DEF Reg8
<1>1. CASE j = 1
  <2>1. I.dst = "a" /\ I.src = "c" /\ I.op = "LD" /\ ip = 292
    BY <1>1, SumIs DEF I, Ld
  <2>3. Onward /\ UNCHANGED <<f, sp, mem>> /\ MachineTyped' /\ reg' = [reg EXCEPT !["a"] = reg["c"]]
    BY <2>1, DoesLd DEF Reg8
  <2>4. ip' = ip + 1 /\ UNCHANGED <<master, irqs, start>>
    BY <2>1, <2>3, OnwardTo
  <2>5. reg'["a"] = reg["c"] /\ reg'["b"] = reg["b"] /\ reg'["c"] = reg["c"] /\ reg'["d"] = reg["d"] /\ reg'["e"] = reg["e"]
    BY <2>3, <1>t DEF Reg8
  <2>6. /\ start.ip = 243 /\ Called(244, mem') /\ sp' = 14
        /\ reg'["d"] = start.reg["d"] /\ reg'["e"] = start.reg["e"] /\ reg'["b"] = start.reg["b"]
        /\ reg'["c"] = start.reg["c"]
    BY <1>1, <1>c, <2>3, <2>5 DEF Called
  <2>7. reg'["a"] = start.reg["c"]
    BY ONLY <2>3, <2>5, <1>c, <1>1
  <2>8. SumInv(start, 2, reg', f', sp', mem')
    BY ONLY <2>6, <2>7 DEF SumInv
  <2> QED BY <2>1, <2>3, <2>4, <2>8, SumRuns DEF Carried
<1>2. CASE j = 2
  <2>1. I.op = "ADD" /\ I.src = "e" /\ ip = 293
    BY <1>2, SumIs DEF I, On
  <2>2. reg["a"] = start.reg["c"] /\ reg["e"] = start.reg["e"]
    BY <1>2 DEF SumInv
  <2>3. Onward /\ reg' = [reg EXCEPT !["a"] = LowSum(start).v] /\ f' = LowSum(start).f /\ UNCHANGED <<sp, mem>> /\ MachineTyped'
    <3>1. Compute("ADD", reg["a"], reg["e"]) = LowSum(start)
      BY ONLY <2>2 DEF Compute, Add, LowSum
    <3> QED BY <2>1, <3>1, <1>f, DoesAccumulate DEF Operators, Reg8
  <2>4. ip' = ip + 1 /\ UNCHANGED <<master, irqs, start>>
    BY <2>1, <2>3, OnwardTo
  <2>5. reg'["a"] = LowSum(start).v /\ reg'["b"] = reg["b"] /\ reg'["c"] = reg["c"] /\ reg'["d"] = reg["d"] /\ reg'["e"] = reg["e"]
    BY <2>3, <1>t DEF Reg8
  <2>6. /\ start.ip = 243 /\ Called(244, mem') /\ sp' = 14
        /\ reg'["d"] = start.reg["d"] /\ reg'["e"] = start.reg["e"] /\ reg'["b"] = start.reg["b"]
        /\ reg'["c"] = start.reg["c"]
    BY <1>2, <1>c, <2>2, <2>3, <2>5 DEF Called
  <2>7. reg'["a"] = LowSum(start).v /\ f' = LowSum(start).f
    BY ONLY <2>3, <2>5, <2>2, <1>c, <1>2
  <2>8. SumInv(start, 3, reg', f', sp', mem')
    BY ONLY <2>6, <2>7 DEF SumInv
  <2> QED BY <2>1, <2>3, <2>4, <2>8, SumRuns DEF Carried
<1>3. CASE j = 3
  <2>1. I.op = "DAA" /\ ip = 294
    BY <1>3, SumIs DEF I, Op
  <2>2. reg["a"] = LowSum(start).v /\ f = LowSum(start).f
    BY <1>3 DEF SumInv
  <2>3. Onward /\ reg' = [reg EXCEPT !["a"] = LowDigits(start).v] /\ f' = LowDigits(start).f /\ UNCHANGED <<sp, mem>> /\ MachineTyped'
    <3>1. Daa(reg["a"], f) = LowDigits(start)
      BY ONLY <2>2 DEF LowDigits
    <3> QED BY <2>1, <3>1, <1>f, DoesAdjust
  <2>4. ip' = ip + 1 /\ UNCHANGED <<master, irqs, start>>
    BY <2>1, <2>3, OnwardTo
  <2>5. reg'["a"] = LowDigits(start).v /\ reg'["b"] = reg["b"] /\ reg'["c"] = reg["c"] /\ reg'["d"] = reg["d"] /\ reg'["e"] = reg["e"]
    BY <2>3, <1>t DEF Reg8
  <2>6. /\ start.ip = 243 /\ Called(244, mem') /\ sp' = 14
        /\ reg'["d"] = start.reg["d"] /\ reg'["e"] = start.reg["e"] /\ reg'["b"] = start.reg["b"]
        /\ reg'["c"] = start.reg["c"]
    BY <1>3, <1>c, <2>2, <2>3, <2>5 DEF Called
  <2>7. reg'["a"] = LowDigits(start).v /\ f' = LowDigits(start).f
    BY ONLY <2>3, <2>5, <2>2, <1>c, <1>3
  <2>8. SumInv(start, 4, reg', f', sp', mem')
    BY ONLY <2>6, <2>7 DEF SumInv
  <2> QED BY <2>1, <2>3, <2>4, <2>8, SumRuns DEF Carried
<1>4. CASE j = 4
  <2>1. I.dst = "c" /\ I.src = "a" /\ I.op = "LD" /\ ip = 295
    BY <1>4, SumIs DEF I, Ld
  <2>2. reg["a"] = LowDigits(start).v /\ f = LowDigits(start).f
    BY <1>4 DEF SumInv
  <2>3. Onward /\ UNCHANGED <<f, sp, mem>> /\ MachineTyped' /\ reg' = [reg EXCEPT !["c"] = reg["a"]]
    BY <2>1, DoesLd DEF Reg8
  <2>4. ip' = ip + 1 /\ UNCHANGED <<master, irqs, start>>
    BY <2>1, <2>3, OnwardTo
  <2>5. reg'["c"] = reg["a"] /\ reg'["a"] = reg["a"] /\ reg'["b"] = reg["b"] /\ reg'["d"] = reg["d"] /\ reg'["e"] = reg["e"]
    BY <2>3, <1>t DEF Reg8
  <2>6. /\ start.ip = 243 /\ Called(244, mem') /\ sp' = 14
        /\ reg'["d"] = start.reg["d"] /\ reg'["e"] = start.reg["e"] /\ reg'["b"] = start.reg["b"]
        /\ reg'["c"] = LowDigits(start).v
    BY <1>4, <1>c, <2>2, <2>3, <2>5 DEF Called
  <2>7. f' = LowDigits(start).f
    BY ONLY <2>3, <2>5, <2>2, <1>c, <1>4
  <2>8. SumInv(start, 5, reg', f', sp', mem')
    BY ONLY <2>6, <2>7 DEF SumInv
  <2> QED BY <2>1, <2>3, <2>4, <2>8, SumRuns DEF Carried
<1>5. CASE j = 5
  <2>1. I.dst = "a" /\ I.src = "b" /\ I.op = "LD" /\ ip = 296
    BY <1>5, SumIs DEF I, Ld
  <2>2. f = LowDigits(start).f
    BY <1>5 DEF SumInv
  <2>3. Onward /\ UNCHANGED <<f, sp, mem>> /\ MachineTyped' /\ reg' = [reg EXCEPT !["a"] = reg["b"]]
    BY <2>1, DoesLd DEF Reg8
  <2>4. ip' = ip + 1 /\ UNCHANGED <<master, irqs, start>>
    BY <2>1, <2>3, OnwardTo
  <2>5. reg'["a"] = reg["b"] /\ reg'["b"] = reg["b"] /\ reg'["c"] = reg["c"] /\ reg'["d"] = reg["d"] /\ reg'["e"] = reg["e"]
    BY <2>3, <1>t DEF Reg8
  <2>6. /\ start.ip = 243 /\ Called(244, mem') /\ sp' = 14
        /\ reg'["d"] = start.reg["d"] /\ reg'["e"] = start.reg["e"] /\ reg'["b"] = start.reg["b"]
        /\ reg'["c"] = LowDigits(start).v
    BY <1>5, <1>c, <2>2, <2>3, <2>5 DEF Called
  <2>7. f' = LowDigits(start).f /\ reg'["a"] = start.reg["b"]
    BY ONLY <2>3, <2>5, <2>2, <1>c, <1>5
  <2>8. SumInv(start, 6, reg', f', sp', mem')
    BY ONLY <2>6, <2>7 DEF SumInv
  <2> QED BY <2>1, <2>3, <2>4, <2>8, SumRuns DEF Carried
<1>6. CASE j = 6
  <2>1. I.op = "ADC" /\ I.src = "d" /\ ip = 297
    BY <1>6, SumIs DEF I, On
  <2>2. f = LowDigits(start).f /\ reg["a"] = start.reg["b"] /\ reg["d"] = start.reg["d"]
    BY <1>6 DEF SumInv
  <2>3. Onward /\ reg' = [reg EXCEPT !["a"] = HighSum(start).v] /\ f' = HighSum(start).f /\ UNCHANGED <<sp, mem>> /\ MachineTyped'
    <3>1. Compute("ADC", reg["a"], reg["d"]) = HighSum(start)
      BY ONLY <2>2 DEF Compute, Adc, HighSum
    <3> QED BY <2>1, <3>1, <1>f, DoesAccumulate DEF Operators, Reg8
  <2>4. ip' = ip + 1 /\ UNCHANGED <<master, irqs, start>>
    BY <2>1, <2>3, OnwardTo
  <2>5. reg'["a"] = HighSum(start).v /\ reg'["b"] = reg["b"] /\ reg'["c"] = reg["c"] /\ reg'["d"] = reg["d"] /\ reg'["e"] = reg["e"]
    BY <2>3, <1>t DEF Reg8
  <2>6. /\ start.ip = 243 /\ Called(244, mem') /\ sp' = 14
        /\ reg'["d"] = start.reg["d"] /\ reg'["e"] = start.reg["e"] /\ reg'["b"] = start.reg["b"]
        /\ reg'["c"] = LowDigits(start).v
    BY <1>6, <1>c, <2>2, <2>3, <2>5 DEF Called
  <2>7. reg'["a"] = HighSum(start).v /\ f' = HighSum(start).f
    BY ONLY <2>3, <2>5, <2>2, <1>c, <1>6
  <2>8. SumInv(start, 7, reg', f', sp', mem')
    BY ONLY <2>6, <2>7 DEF SumInv
  <2> QED BY <2>1, <2>3, <2>4, <2>8, SumRuns DEF Carried
<1>7. CASE j = 7
  <2>1. I.op = "DAA" /\ ip = 298
    BY <1>7, SumIs DEF I, Op
  <2>2. reg["a"] = HighSum(start).v /\ f = HighSum(start).f
    BY <1>7 DEF SumInv
  <2>3. Onward /\ reg' = [reg EXCEPT !["a"] = HighDigits(start).v] /\ f' = HighDigits(start).f /\ UNCHANGED <<sp, mem>> /\ MachineTyped'
    <3>1. Daa(reg["a"], f) = HighDigits(start)
      BY ONLY <2>2 DEF HighDigits
    <3> QED BY <2>1, <3>1, <1>f, DoesAdjust
  <2>4. ip' = ip + 1 /\ UNCHANGED <<master, irqs, start>>
    BY <2>1, <2>3, OnwardTo
  <2>5. reg'["a"] = HighDigits(start).v /\ reg'["b"] = reg["b"] /\ reg'["c"] = reg["c"] /\ reg'["d"] = reg["d"] /\ reg'["e"] = reg["e"]
    BY <2>3, <1>t DEF Reg8
  <2>6. /\ start.ip = 243 /\ Called(244, mem') /\ sp' = 14
        /\ reg'["d"] = start.reg["d"] /\ reg'["e"] = start.reg["e"] /\ reg'["b"] = start.reg["b"]
        /\ reg'["c"] = LowDigits(start).v
    BY <1>7, <1>c, <2>2, <2>3, <2>5 DEF Called
  <2>7. reg'["a"] = HighDigits(start).v /\ f' = HighDigits(start).f
    BY ONLY <2>3, <2>5, <2>2, <1>c, <1>7
  <2>8. SumInv(start, 8, reg', f', sp', mem')
    BY ONLY <2>6, <2>7 DEF SumInv
  <2> QED BY <2>1, <2>3, <2>4, <2>8, SumRuns DEF Carried
<1>8. CASE j = 8
  <2>1. I.dst = "b" /\ I.src = "a" /\ I.op = "LD" /\ ip = 299
    BY <1>8, SumIs DEF I, Ld
  <2>2. reg["a"] = HighDigits(start).v /\ f = HighDigits(start).f
    BY <1>8 DEF SumInv
  <2>3. Onward /\ UNCHANGED <<f, sp, mem>> /\ MachineTyped' /\ reg' = [reg EXCEPT !["b"] = reg["a"]]
    BY <2>1, DoesLd DEF Reg8
  <2>4. ip' = ip + 1 /\ UNCHANGED <<master, irqs, start>>
    BY <2>1, <2>3, OnwardTo
  <2>5. reg'["b"] = reg["a"] /\ reg'["a"] = reg["a"] /\ reg'["c"] = reg["c"] /\ reg'["d"] = reg["d"] /\ reg'["e"] = reg["e"]
    BY <2>3, <1>t DEF Reg8
  <2>6. /\ start.ip = 243 /\ Called(244, mem') /\ sp' = 14
        /\ reg'["d"] = start.reg["d"] /\ reg'["e"] = start.reg["e"]
        /\ reg'["c"] = LowDigits(start).v
    BY <1>8, <1>c, <2>2, <2>3, <2>5 DEF Called
  <2>7. reg'["b"] = HighDigits(start).v /\ f' = HighDigits(start).f
    BY ONLY <2>3, <2>5, <2>2, <1>c, <1>8
  <2>8. SumInv(start, 9, reg', f', sp', mem')
    BY ONLY <2>6, <2>7 DEF SumInv
  <2> QED BY <2>1, <2>3, <2>4, <2>8, SumRuns DEF Carried
<1>9. CASE j = 9
  <2>1. I.cc = "always" /\ I.op = "RET" /\ ip = 300
    BY <1>9, SumIs DEF I, Ret
  <2>2. reg["b"] = HighDigits(start).v /\ f = HighDigits(start).f /\ reg["c"] = LowDigits(start).v
    BY <1>9 DEF SumInv
  <2>4. Correct(reg, start.reg)
    BY ONLY <2>2, <1>c, <1>f DEF Correct, Base
  <2> QED BY <2>1, <1>c, <2>4, Always, Returns
<1>x. j \in {1, 2, 3, 4, 5, 6, 7, 8, 9}
  OBVIOUS
<1> QED BY ONLY <1>x, <1>1, <1>2, <1>3, <1>4, <1>5, <1>6, <1>7, <1>8, <1>9

(* One instruction of DiffCode *)
LEMMA DiffStep ==
  ASSUME Instruction, MachineTyped, DecimalDigits(start), NEW j \in 1..11, ip = 300 + j,
         DiffInv(start, j, reg, f, sp, mem)
  PROVE  Carried /\ (Running(start, ip', reg', f', sp', mem') \/ Finished')
<1>t. /\ reg \in [Reg8 -> Byte] /\ f \in Flag /\ mem \in [MCCells -> Byte]
      /\ start.reg \in [Reg8 -> Byte]
  BY DEF MachineTyped
<1>r. \A x \in Reg8 : reg[x] \in Byte /\ start.reg[x] \in Byte
  BY <1>t
<1>a. \A x \in Reg8 : reg[x] \in Nat /\ reg[x] < 256 /\ start.reg[x] \in Nat /\ start.reg[x] < 256
  BY <1>r, ByteIs
<1>g. f.z \in 0..1 /\ f.n \in 0..1 /\ f.h \in 0..1 /\ f.c \in 0..1
  BY <1>t, FlagHas
<1>c. /\ start.ip = 245 /\ Called(246, mem) /\ sp = 14
      /\ reg["d"] = start.reg["d"] /\ reg["e"] = start.reg["e"] /\ (j < 11 => reg["b"] = start.reg["b"])
      /\ reg["c"] = (IF j < 7 THEN start.reg["c"] ELSE LowLeft(start).v)
  BY DEF DiffInv
<1>f. /\ Fine(LowDiff(start)) /\ Fine(LowLeft(start)) /\ Fine(HighDiff(start)) /\ Fine(HighLeft(start))
      /\ Decimal(HighLeft(start).v, LowLeft(start).v) - 10000 * HighLeft(start).f.c
          = Decimal(start.reg["b"], start.reg["c"]) - Decimal(start.reg["d"], start.reg["e"])
  BY DiffTotal
<1>b. reg["a"] \in Byte /\ reg["b"] \in Byte /\ reg["c"] \in Byte /\ reg["d"] \in Byte /\ reg["e"] \in Byte
  BY <1>r DEF Reg8
<1>1. CASE j = 1
  <2>1. I.dst = "a" /\ I.src = "c" /\ I.op = "LD" /\ ip = 301
    BY <1>1, DiffIs DEF I, Ld
  <2>3. Onward /\ UNCHANGED <<f, sp, mem>> /\ MachineTyped' /\ reg' = [reg EXCEPT !["a"] = reg["c"]]
    BY <2>1, DoesLd DEF Reg8
  <2>4. ip' = ip + 1 /\ UNCHANGED <<master, irqs, start>>
    BY <2>1, <2>3, OnwardTo
  <2>5. reg'["a"] = reg["c"] /\ reg'["b"] = reg["b"] /\ reg'["c"] = reg["c"] /\ reg'["d"] = reg["d"] /\ reg'["e"] = reg["e"]
    BY <2>3, <1>t DEF Reg8
  <2>6. /\ start.ip = 245 /\ Called(246, mem') /\ sp' = 14
        /\ reg'["d"] = start.reg["d"] /\ reg'["e"] = start.reg["e"] /\ reg'["b"] = start.reg["b"]
        /\ reg'["c"] = start.reg["c"]
    BY <1>1, <1>c, <2>3, <2>5 DEF Called
  <2>7. reg'["a"] = start.reg["c"]
    BY ONLY <2>3, <2>5, <1>c, <1>1
  <2>8. DiffInv(start, 2, reg', f', sp', mem')
    BY ONLY <2>6, <2>7 DEF DiffInv
  <2> QED BY <2>1, <2>3, <2>4, <2>8, DiffRuns DEF Carried
<1>2. CASE j = 2
  <2>1. I.op = "SCF" /\ ip = 302
    BY <1>2, DiffIs DEF I, Op
  <2>2. reg["a"] = start.reg["c"]
    BY <1>2 DEF DiffInv
  <2>3. Onward /\ reg' = [reg EXCEPT !["a"] = reg["a"]] /\ f'.c = 1 /\ UNCHANGED <<sp, mem>> /\ MachineTyped'
    <3>1. LET r == Scf(reg["a"], f) IN Fine(r) /\ r.v = reg["a"] /\ r.f.c = 1
      BY <1>b, <1>t, ScfIs
    <3> QED BY <2>1, <3>1, DoesAdjust
  <2>4. ip' = ip + 1 /\ UNCHANGED <<master, irqs, start>>
    BY <2>1, <2>3, OnwardTo
  <2>5. reg'["a"] = reg["a"] /\ reg'["b"] = reg["b"] /\ reg'["c"] = reg["c"] /\ reg'["d"] = reg["d"] /\ reg'["e"] = reg["e"]
    BY <2>3, <1>t DEF Reg8
  <2>6. /\ start.ip = 245 /\ Called(246, mem') /\ sp' = 14
        /\ reg'["d"] = start.reg["d"] /\ reg'["e"] = start.reg["e"] /\ reg'["b"] = start.reg["b"]
        /\ reg'["c"] = start.reg["c"]
    BY <1>2, <1>c, <2>2, <2>3, <2>5 DEF Called
  <2>7. reg'["a"] = start.reg["c"] /\ f'.c = 1
    BY ONLY <2>3, <2>5, <2>2, <1>c, <1>2
  <2>8. DiffInv(start, 3, reg', f', sp', mem')
    BY ONLY <2>6, <2>7 DEF DiffInv
  <2> QED BY <2>1, <2>3, <2>4, <2>8, DiffRuns DEF Carried
<1>3. CASE j = 3
  <2>1. I.op = "CCF" /\ ip = 303
    BY <1>3, DiffIs DEF I, Op
  <2>2. reg["a"] = start.reg["c"] /\ f.c = 1
    BY <1>3 DEF DiffInv
  <2>3. Onward /\ reg' = [reg EXCEPT !["a"] = reg["a"]] /\ f'.c = 0 /\ UNCHANGED <<sp, mem>> /\ MachineTyped'
    <3>1. LET r == Ccf(reg["a"], f) IN Fine(r) /\ r.v = reg["a"] /\ r.f.c = 0
      BY <1>b, <1>t, <2>2, CcfIs
    <3> QED BY <2>1, <3>1, DoesAdjust
  <2>4. ip' = ip + 1 /\ UNCHANGED <<master, irqs, start>>
    BY <2>1, <2>3, OnwardTo
  <2>5. reg'["a"] = reg["a"] /\ reg'["b"] = reg["b"] /\ reg'["c"] = reg["c"] /\ reg'["d"] = reg["d"] /\ reg'["e"] = reg["e"]
    BY <2>3, <1>t DEF Reg8
  <2>6. /\ start.ip = 245 /\ Called(246, mem') /\ sp' = 14
        /\ reg'["d"] = start.reg["d"] /\ reg'["e"] = start.reg["e"] /\ reg'["b"] = start.reg["b"]
        /\ reg'["c"] = start.reg["c"]
    BY <1>3, <1>c, <2>2, <2>3, <2>5 DEF Called
  <2>7. reg'["a"] = start.reg["c"] /\ f'.c = 0
    BY ONLY <2>3, <2>5, <2>2, <1>c, <1>3
  <2>8. DiffInv(start, 4, reg', f', sp', mem')
    BY ONLY <2>6, <2>7 DEF DiffInv
  <2> QED BY <2>1, <2>3, <2>4, <2>8, DiffRuns DEF Carried
<1>4. CASE j = 4
  <2>1. I.op = "SBC" /\ I.src = "e" /\ ip = 304
    BY <1>4, DiffIs DEF I, On
  <2>2. reg["a"] = start.reg["c"] /\ f.c = 0 /\ reg["e"] = start.reg["e"]
    BY <1>4 DEF DiffInv
  <2>3. Onward /\ reg' = [reg EXCEPT !["a"] = LowDiff(start).v] /\ f' = LowDiff(start).f /\ UNCHANGED <<sp, mem>> /\ MachineTyped'
    <3>1. Compute("SBC", reg["a"], reg["e"]) = LowDiff(start)
      <4>1. Flags(0, 0, 0, 0).c = f.c
        BY <2>2, NoFlags
      <4> QED BY ONLY <2>2, <4>1 DEF Compute, Sbc, LowDiff
    <3> QED BY <2>1, <3>1, <1>f, DoesAccumulate DEF Operators, Reg8
  <2>4. ip' = ip + 1 /\ UNCHANGED <<master, irqs, start>>
    BY <2>1, <2>3, OnwardTo
  <2>5. reg'["a"] = LowDiff(start).v /\ reg'["b"] = reg["b"] /\ reg'["c"] = reg["c"] /\ reg'["d"] = reg["d"] /\ reg'["e"] = reg["e"]
    BY <2>3, <1>t DEF Reg8
  <2>6. /\ start.ip = 245 /\ Called(246, mem') /\ sp' = 14
        /\ reg'["d"] = start.reg["d"] /\ reg'["e"] = start.reg["e"] /\ reg'["b"] = start.reg["b"]
        /\ reg'["c"] = start.reg["c"]
    BY <1>4, <1>c, <2>2, <2>3, <2>5 DEF Called
  <2>7. reg'["a"] = LowDiff(start).v /\ f' = LowDiff(start).f
    BY ONLY <2>3, <2>5, <2>2, <1>c, <1>4
  <2>8. DiffInv(start, 5, reg', f', sp', mem')
    BY ONLY <2>6, <2>7 DEF DiffInv
  <2> QED BY <2>1, <2>3, <2>4, <2>8, DiffRuns DEF Carried
<1>5. CASE j = 5
  <2>1. I.op = "DAA" /\ ip = 305
    BY <1>5, DiffIs DEF I, Op
  <2>2. reg["a"] = LowDiff(start).v /\ f = LowDiff(start).f
    BY <1>5 DEF DiffInv
  <2>3. Onward /\ reg' = [reg EXCEPT !["a"] = LowLeft(start).v] /\ f' = LowLeft(start).f /\ UNCHANGED <<sp, mem>> /\ MachineTyped'
    <3>1. Daa(reg["a"], f) = LowLeft(start)
      BY ONLY <2>2 DEF LowLeft
    <3> QED BY <2>1, <3>1, <1>f, DoesAdjust
  <2>4. ip' = ip + 1 /\ UNCHANGED <<master, irqs, start>>
    BY <2>1, <2>3, OnwardTo
  <2>5. reg'["a"] = LowLeft(start).v /\ reg'["b"] = reg["b"] /\ reg'["c"] = reg["c"] /\ reg'["d"] = reg["d"] /\ reg'["e"] = reg["e"]
    BY <2>3, <1>t DEF Reg8
  <2>6. /\ start.ip = 245 /\ Called(246, mem') /\ sp' = 14
        /\ reg'["d"] = start.reg["d"] /\ reg'["e"] = start.reg["e"] /\ reg'["b"] = start.reg["b"]
        /\ reg'["c"] = start.reg["c"]
    BY <1>5, <1>c, <2>2, <2>3, <2>5 DEF Called
  <2>7. reg'["a"] = LowLeft(start).v /\ f' = LowLeft(start).f
    BY ONLY <2>3, <2>5, <2>2, <1>c, <1>5
  <2>8. DiffInv(start, 6, reg', f', sp', mem')
    BY ONLY <2>6, <2>7 DEF DiffInv
  <2> QED BY <2>1, <2>3, <2>4, <2>8, DiffRuns DEF Carried
<1>6. CASE j = 6
  <2>1. I.dst = "c" /\ I.src = "a" /\ I.op = "LD" /\ ip = 306
    BY <1>6, DiffIs DEF I, Ld
  <2>2. reg["a"] = LowLeft(start).v /\ f = LowLeft(start).f
    BY <1>6 DEF DiffInv
  <2>3. Onward /\ UNCHANGED <<f, sp, mem>> /\ MachineTyped' /\ reg' = [reg EXCEPT !["c"] = reg["a"]]
    BY <2>1, DoesLd DEF Reg8
  <2>4. ip' = ip + 1 /\ UNCHANGED <<master, irqs, start>>
    BY <2>1, <2>3, OnwardTo
  <2>5. reg'["c"] = reg["a"] /\ reg'["a"] = reg["a"] /\ reg'["b"] = reg["b"] /\ reg'["d"] = reg["d"] /\ reg'["e"] = reg["e"]
    BY <2>3, <1>t DEF Reg8
  <2>6. /\ start.ip = 245 /\ Called(246, mem') /\ sp' = 14
        /\ reg'["d"] = start.reg["d"] /\ reg'["e"] = start.reg["e"] /\ reg'["b"] = start.reg["b"]
        /\ reg'["c"] = LowLeft(start).v
    BY <1>6, <1>c, <2>2, <2>3, <2>5 DEF Called
  <2>7. f' = LowLeft(start).f
    BY ONLY <2>3, <2>5, <2>2, <1>c, <1>6
  <2>8. DiffInv(start, 7, reg', f', sp', mem')
    BY ONLY <2>6, <2>7 DEF DiffInv
  <2> QED BY <2>1, <2>3, <2>4, <2>8, DiffRuns DEF Carried
<1>7. CASE j = 7
  <2>1. I.dst = "a" /\ I.src = "b" /\ I.op = "LD" /\ ip = 307
    BY <1>7, DiffIs DEF I, Ld
  <2>2. f = LowLeft(start).f
    BY <1>7 DEF DiffInv
  <2>3. Onward /\ UNCHANGED <<f, sp, mem>> /\ MachineTyped' /\ reg' = [reg EXCEPT !["a"] = reg["b"]]
    BY <2>1, DoesLd DEF Reg8
  <2>4. ip' = ip + 1 /\ UNCHANGED <<master, irqs, start>>
    BY <2>1, <2>3, OnwardTo
  <2>5. reg'["a"] = reg["b"] /\ reg'["b"] = reg["b"] /\ reg'["c"] = reg["c"] /\ reg'["d"] = reg["d"] /\ reg'["e"] = reg["e"]
    BY <2>3, <1>t DEF Reg8
  <2>6. /\ start.ip = 245 /\ Called(246, mem') /\ sp' = 14
        /\ reg'["d"] = start.reg["d"] /\ reg'["e"] = start.reg["e"] /\ reg'["b"] = start.reg["b"]
        /\ reg'["c"] = LowLeft(start).v
    BY <1>7, <1>c, <2>2, <2>3, <2>5 DEF Called
  <2>7. f' = LowLeft(start).f /\ reg'["a"] = start.reg["b"]
    BY ONLY <2>3, <2>5, <2>2, <1>c, <1>7
  <2>8. DiffInv(start, 8, reg', f', sp', mem')
    BY ONLY <2>6, <2>7 DEF DiffInv
  <2> QED BY <2>1, <2>3, <2>4, <2>8, DiffRuns DEF Carried
<1>8. CASE j = 8
  <2>1. I.op = "SBC" /\ I.src = "d" /\ ip = 308
    BY <1>8, DiffIs DEF I, On
  <2>2. f = LowLeft(start).f /\ reg["a"] = start.reg["b"] /\ reg["d"] = start.reg["d"]
    BY <1>8 DEF DiffInv
  <2>3. Onward /\ reg' = [reg EXCEPT !["a"] = HighDiff(start).v] /\ f' = HighDiff(start).f /\ UNCHANGED <<sp, mem>> /\ MachineTyped'
    <3>1. Compute("SBC", reg["a"], reg["d"]) = HighDiff(start)
      BY ONLY <2>2 DEF Compute, HighDiff
    <3> QED BY <2>1, <3>1, <1>f, DoesAccumulate DEF Operators, Reg8
  <2>4. ip' = ip + 1 /\ UNCHANGED <<master, irqs, start>>
    BY <2>1, <2>3, OnwardTo
  <2>5. reg'["a"] = HighDiff(start).v /\ reg'["b"] = reg["b"] /\ reg'["c"] = reg["c"] /\ reg'["d"] = reg["d"] /\ reg'["e"] = reg["e"]
    BY <2>3, <1>t DEF Reg8
  <2>6. /\ start.ip = 245 /\ Called(246, mem') /\ sp' = 14
        /\ reg'["d"] = start.reg["d"] /\ reg'["e"] = start.reg["e"] /\ reg'["b"] = start.reg["b"]
        /\ reg'["c"] = LowLeft(start).v
    BY <1>8, <1>c, <2>2, <2>3, <2>5 DEF Called
  <2>7. reg'["a"] = HighDiff(start).v /\ f' = HighDiff(start).f
    BY ONLY <2>3, <2>5, <2>2, <1>c, <1>8
  <2>8. DiffInv(start, 9, reg', f', sp', mem')
    BY ONLY <2>6, <2>7 DEF DiffInv
  <2> QED BY <2>1, <2>3, <2>4, <2>8, DiffRuns DEF Carried
<1>9. CASE j = 9
  <2>1. I.op = "DAA" /\ ip = 309
    BY <1>9, DiffIs DEF I, Op
  <2>2. reg["a"] = HighDiff(start).v /\ f = HighDiff(start).f
    BY <1>9 DEF DiffInv
  <2>3. Onward /\ reg' = [reg EXCEPT !["a"] = HighLeft(start).v] /\ f' = HighLeft(start).f /\ UNCHANGED <<sp, mem>> /\ MachineTyped'
    <3>1. Daa(reg["a"], f) = HighLeft(start)
      BY ONLY <2>2 DEF HighLeft
    <3> QED BY <2>1, <3>1, <1>f, DoesAdjust
  <2>4. ip' = ip + 1 /\ UNCHANGED <<master, irqs, start>>
    BY <2>1, <2>3, OnwardTo
  <2>5. reg'["a"] = HighLeft(start).v /\ reg'["b"] = reg["b"] /\ reg'["c"] = reg["c"] /\ reg'["d"] = reg["d"] /\ reg'["e"] = reg["e"]
    BY <2>3, <1>t DEF Reg8
  <2>6. /\ start.ip = 245 /\ Called(246, mem') /\ sp' = 14
        /\ reg'["d"] = start.reg["d"] /\ reg'["e"] = start.reg["e"] /\ reg'["b"] = start.reg["b"]
        /\ reg'["c"] = LowLeft(start).v
    BY <1>9, <1>c, <2>2, <2>3, <2>5 DEF Called
  <2>7. reg'["a"] = HighLeft(start).v /\ f' = HighLeft(start).f
    BY ONLY <2>3, <2>5, <2>2, <1>c, <1>9
  <2>8. DiffInv(start, 10, reg', f', sp', mem')
    BY ONLY <2>6, <2>7 DEF DiffInv
  <2> QED BY <2>1, <2>3, <2>4, <2>8, DiffRuns DEF Carried
<1>10. CASE j = 10
  <2>1. I.dst = "b" /\ I.src = "a" /\ I.op = "LD" /\ ip = 310
    BY <1>10, DiffIs DEF I, Ld
  <2>2. reg["a"] = HighLeft(start).v /\ f = HighLeft(start).f
    BY <1>10 DEF DiffInv
  <2>3. Onward /\ UNCHANGED <<f, sp, mem>> /\ MachineTyped' /\ reg' = [reg EXCEPT !["b"] = reg["a"]]
    BY <2>1, DoesLd DEF Reg8
  <2>4. ip' = ip + 1 /\ UNCHANGED <<master, irqs, start>>
    BY <2>1, <2>3, OnwardTo
  <2>5. reg'["b"] = reg["a"] /\ reg'["a"] = reg["a"] /\ reg'["c"] = reg["c"] /\ reg'["d"] = reg["d"] /\ reg'["e"] = reg["e"]
    BY <2>3, <1>t DEF Reg8
  <2>6. /\ start.ip = 245 /\ Called(246, mem') /\ sp' = 14
        /\ reg'["d"] = start.reg["d"] /\ reg'["e"] = start.reg["e"]
        /\ reg'["c"] = LowLeft(start).v
    BY <1>10, <1>c, <2>2, <2>3, <2>5 DEF Called
  <2>7. reg'["b"] = HighLeft(start).v /\ f' = HighLeft(start).f
    BY ONLY <2>3, <2>5, <2>2, <1>c, <1>10
  <2>8. DiffInv(start, 11, reg', f', sp', mem')
    BY ONLY <2>6, <2>7 DEF DiffInv
  <2> QED BY <2>1, <2>3, <2>4, <2>8, DiffRuns DEF Carried
<1>11. CASE j = 11
  <2>1. I.cc = "always" /\ I.op = "RET" /\ ip = 311
    BY <1>11, DiffIs DEF I, Ret
  <2>2. reg["b"] = HighLeft(start).v /\ f = HighLeft(start).f /\ reg["c"] = LowLeft(start).v
    BY <1>11 DEF DiffInv
  <2>4. Correct(reg, start.reg)
    BY ONLY <2>2, <1>c, <1>f DEF Correct, Base
  <2> QED BY <2>1, <1>c, <2>4, Always, Returns
<1>x. j \in {1, 2, 3, 4, 5, 6, 7, 8, 9, 10, 11}
  OBVIOUS
<1> QED BY ONLY <1>x, <1>1, <1>2, <1>3, <1>4, <1>5, <1>6, <1>7, <1>8, <1>9, <1>10, <1>11

-----------------------------------------------------------------------------
(* The absolute value, and the half                                         *)

(* One instruction of AbsCode *)
LEMMA AbsStep ==
  ASSUME Instruction, MachineTyped, NEW j \in 1..10, ip = 311 + j,
         AbsInv(start, j, reg, f, sp, mem)
  PROVE  Carried /\ (Running(start, ip', reg', f', sp', mem') \/ Finished')
<1>t. /\ reg \in [Reg8 -> Byte] /\ f \in Flag /\ mem \in [MCCells -> Byte]
      /\ start.reg \in [Reg8 -> Byte]
  BY DEF MachineTyped
<1>r. \A x \in Reg8 : reg[x] \in Byte /\ start.reg[x] \in Byte
  BY <1>t
<1>a. \A x \in Reg8 : reg[x] \in Nat /\ reg[x] < 256 /\ start.reg[x] \in Nat /\ start.reg[x] < 256
  BY <1>r, ByteIs
<1>g. f.z \in 0..1 /\ f.n \in 0..1 /\ f.h \in 0..1 /\ f.c \in 0..1
  BY <1>t, FlagHas
<1>H. PICK H \in Nat : reg["h"] = H /\ H < 256
  BY <1>a DEF Reg8
<1>L. PICK L \in Nat : reg["l"] = L /\ L < 256
  BY <1>a DEF Reg8
<1>A. PICK A \in Nat : reg["a"] = A /\ A < 256
  BY <1>a DEF Reg8
<1>p. /\ H \in Nat /\ L \in Nat /\ A \in Nat
      /\ reg["h"] = H /\ reg["l"] = L /\ reg["a"] = A
      /\ H < 256 /\ L < 256 /\ A < 256
  BY <1>H, <1>L, <1>A
<1>c. /\ start.ip = 247 /\ Called(248, mem) /\ sp = 14
  BY DEF AbsInv
<1>X. PICK X \in Nat : start.reg["h"] = X /\ X < 256
  BY <1>a DEF Reg8
<1>Y. PICK Y \in Nat : start.reg["l"] = Y /\ Y < 256
  BY <1>a DEF Reg8
<1>n. X \in Nat /\ start.reg["h"] = X /\ X < 256 /\ Y \in Nat /\ start.reg["l"] = Y /\ Y < 256
  BY <1>X, <1>Y
<1>q. reg["a"] \in Byte /\ reg["h"] \in Byte /\ reg["l"] \in Byte
  BY <1>r DEF Reg8
<1>1. CASE j = 1
  <2>1. I.op = "BIT" /\ I.n = 7 /\ I.src = "h" /\ ip = 312
    BY <1>1, AbsIs DEF I, At
  <2>2. L = Y /\ H = X
    BY <1>1, <1>p, <1>n DEF AbsInv
  <2>3. Onward /\ f'.z = (IF X > 127 THEN 0 ELSE 1) /\ UNCHANGED <<reg, sp, mem>> /\ MachineTyped'
    <3>1. TestBit(7, reg["h"], f) \in Flag /\ TestBit(7, reg["h"], f).z = (IF X > 127 THEN 0 ELSE 1)
      BY <1>q, <1>t, <1>p, <2>2, SignBit
    <3> QED BY <2>1, <3>1, DoesBit DEF Reg8
  <2>4. ip' = ip + 1 /\ UNCHANGED <<master, irqs, start>>
    BY <2>1, <2>3, OnwardTo
  <2>5. reg'["a"] = A /\ reg'["h"] = H /\ reg'["l"] = L
    BY <2>3, <1>t, <1>p DEF Reg8
  <2>6. reg'["l"] = start.reg["l"] /\ reg'["h"] = start.reg["h"] /\ f'.z = (IF start.reg["h"] > 127 THEN 0 ELSE 1)
    BY ONLY <2>2, <2>3, <2>5, <1>n
  <2>7. /\ start.ip = 247 /\ Called(248, mem') /\ sp' = 14
    BY ONLY <1>c, <2>3 DEF Called
  <2>8. AbsInv(start, 2, reg', f', sp', mem')
    BY ONLY <2>6, <2>7 DEF AbsInv
  <2> QED BY <2>1, <2>3, <2>4, <2>8, AbsRuns DEF Carried
<1>2. CASE j = 2
  <2>1. I.cc = "z" /\ I.op = "RET" /\ ip = 313
    BY <1>2, AbsIs DEF I, Ret
  <2>2. L = Y /\ H = X /\ f.z = (IF X > 127 THEN 0 ELSE 1)
    BY <1>2, <1>p, <1>n DEF AbsInv
  <2>5. CASE X > 127
    <3>1. f.z = 0
      BY ONLY <2>2, <2>5
    <3>2. Onward /\ UNCHANGED <<reg, f, sp, mem>> /\ MachineTyped'
      BY <2>1, <3>1, DoesNotRet
    <3>3. ip' = ip + 1 /\ UNCHANGED <<master, irqs, start>>
      BY <2>1, <3>2, OnwardTo
    <3>4. reg'["l"] = start.reg["l"] /\ reg'["h"] = start.reg["h"] /\ start.reg["h"] > 127
      BY <2>2, <2>5, <3>2, <1>n, <1>p
    <3>5. /\ start.ip = 247 /\ Called(248, mem') /\ sp' = 14
      BY ONLY <1>c, <3>2 DEF Called
    <3>6. AbsInv(start, 3, reg', f', sp', mem')
      BY ONLY <3>4, <3>5 DEF AbsInv
    <3> QED BY <2>1, <3>2, <3>3, <3>6, AbsRuns DEF Carried
  <2>6. CASE ~(X > 127)
    <3>1. Condition(I.cc)
      BY <2>1, <2>2, <2>6, Conditions
    <3>2. HL = X * 256 + Y /\ start.reg["h"] * 256 + start.reg["l"] = X * 256 + Y
      BY <2>2, <1>p, <1>n, HLIs
    <3>3. X * 256 + Y < 32768
      BY ONLY <2>6, <1>n
    <3>4. SignedWord(start.reg["h"] * 256 + start.reg["l"]) = HL
      BY ONLY <3>2, <3>3 DEF SignedWord
    <3>5. Correct(reg, start.reg)
      BY ONLY <3>4, <1>c DEF Correct, Base
    <3> QED BY <2>1, <1>c, <3>1, <3>5, Returns
  <2> QED BY <2>5, <2>6
<1>3. CASE j = 3
  <2>1. I.dst = "a" /\ I.src = "l" /\ I.op = "LD" /\ ip = 314
    BY <1>3, AbsIs DEF I, Ld
  <2>2. L = Y /\ H = X /\ X > 127
    BY <1>3, <1>p, <1>n DEF AbsInv
  <2>3. Onward /\ UNCHANGED <<f, sp, mem>> /\ MachineTyped' /\ reg' = [reg EXCEPT !["a"] = reg["l"]]
    BY <2>1, DoesLd DEF Reg8
  <2>4. ip' = ip + 1 /\ UNCHANGED <<master, irqs, start>>
    BY <2>1, <2>3, OnwardTo
  <2>5. reg'["a"] = L /\ reg'["h"] = H /\ reg'["l"] = L
    BY <2>3, <1>t, <1>p DEF Reg8
  <2>6. reg'["l"] = start.reg["l"] /\ reg'["h"] = start.reg["h"] /\ start.reg["h"] > 127 /\ reg'["a"] = start.reg["l"]
    BY ONLY <2>2, <2>3, <2>5, <1>n
  <2>7. /\ start.ip = 247 /\ Called(248, mem') /\ sp' = 14
    BY ONLY <1>c, <2>3 DEF Called
  <2>8. AbsInv(start, 4, reg', f', sp', mem')
    BY ONLY <2>6, <2>7 DEF AbsInv
  <2> QED BY <2>1, <2>3, <2>4, <2>8, AbsRuns DEF Carried
<1>4. CASE j = 4
  <2>1. I.op = "CPL" /\ ip = 315
    BY <1>4, AbsIs DEF I, Op
  <2>2. L = Y /\ H = X /\ X > 127 /\ A = Y
    BY <1>4, <1>p, <1>n DEF AbsInv
  <2>3. Onward /\ reg' = [reg EXCEPT !["a"] = 255 - A] /\ UNCHANGED <<sp, mem>> /\ MachineTyped'
    <3>1. LET r == Cpl(reg["a"], f) IN Fine(r) /\ r.v = 255 - A
      BY <1>q, <1>t, <1>p, CplIs
    <3> QED BY <2>1, <3>1, DoesAdjust
  <2>4. ip' = ip + 1 /\ UNCHANGED <<master, irqs, start>>
    BY <2>1, <2>3, OnwardTo
  <2>5. reg'["a"] = 255 - A /\ reg'["h"] = H /\ reg'["l"] = L
    BY <2>3, <1>t, <1>p DEF Reg8
  <2>6. reg'["l"] = start.reg["l"] /\ reg'["h"] = start.reg["h"] /\ start.reg["h"] > 127 /\ reg'["a"] = 255 - start.reg["l"]
    BY ONLY <2>2, <2>3, <2>5, <1>n
  <2>7. /\ start.ip = 247 /\ Called(248, mem') /\ sp' = 14
    BY ONLY <1>c, <2>3 DEF Called
  <2>8. AbsInv(start, 5, reg', f', sp', mem')
    BY ONLY <2>6, <2>7 DEF AbsInv
  <2> QED BY <2>1, <2>3, <2>4, <2>8, AbsRuns DEF Carried
<1>5. CASE j = 5
  <2>1. I.dst = "l" /\ I.src = "a" /\ I.op = "LD" /\ ip = 316
    BY <1>5, AbsIs DEF I, Ld
  <2>2. L = Y /\ H = X /\ X > 127 /\ A = 255 - Y
    BY <1>5, <1>p, <1>n DEF AbsInv
  <2>3. Onward /\ UNCHANGED <<f, sp, mem>> /\ MachineTyped' /\ reg' = [reg EXCEPT !["l"] = reg["a"]]
    BY <2>1, DoesLd DEF Reg8
  <2>4. ip' = ip + 1 /\ UNCHANGED <<master, irqs, start>>
    BY <2>1, <2>3, OnwardTo
  <2>5. reg'["l"] = A /\ reg'["a"] = A /\ reg'["h"] = H
    BY <2>3, <1>t, <1>p DEF Reg8
  <2>6. reg'["l"] = 255 - start.reg["l"] /\ reg'["h"] = start.reg["h"] /\ start.reg["h"] > 127
    BY ONLY <2>2, <2>3, <2>5, <1>n
  <2>7. /\ start.ip = 247 /\ Called(248, mem') /\ sp' = 14
    BY ONLY <1>c, <2>3 DEF Called
  <2>8. AbsInv(start, 6, reg', f', sp', mem')
    BY ONLY <2>6, <2>7 DEF AbsInv
  <2> QED BY <2>1, <2>3, <2>4, <2>8, AbsRuns DEF Carried
<1>6. CASE j = 6
  <2>1. I.dst = "a" /\ I.src = "h" /\ I.op = "LD" /\ ip = 317
    BY <1>6, AbsIs DEF I, Ld
  <2>2. L = 255 - Y /\ H = X /\ X > 127
    BY <1>6, <1>p, <1>n DEF AbsInv
  <2>3. Onward /\ UNCHANGED <<f, sp, mem>> /\ MachineTyped' /\ reg' = [reg EXCEPT !["a"] = reg["h"]]
    BY <2>1, DoesLd DEF Reg8
  <2>4. ip' = ip + 1 /\ UNCHANGED <<master, irqs, start>>
    BY <2>1, <2>3, OnwardTo
  <2>5. reg'["a"] = H /\ reg'["h"] = H /\ reg'["l"] = L
    BY <2>3, <1>t, <1>p DEF Reg8
  <2>6. reg'["l"] = 255 - start.reg["l"] /\ reg'["h"] = start.reg["h"] /\ start.reg["h"] > 127 /\ reg'["a"] = start.reg["h"]
    BY ONLY <2>2, <2>3, <2>5, <1>n
  <2>7. /\ start.ip = 247 /\ Called(248, mem') /\ sp' = 14
    BY ONLY <1>c, <2>3 DEF Called
  <2>8. AbsInv(start, 7, reg', f', sp', mem')
    BY ONLY <2>6, <2>7 DEF AbsInv
  <2> QED BY <2>1, <2>3, <2>4, <2>8, AbsRuns DEF Carried
<1>7. CASE j = 7
  <2>1. I.op = "CPL" /\ ip = 318
    BY <1>7, AbsIs DEF I, Op
  <2>2. L = 255 - Y /\ H = X /\ X > 127 /\ A = X
    BY <1>7, <1>p, <1>n DEF AbsInv
  <2>3. Onward /\ reg' = [reg EXCEPT !["a"] = 255 - A] /\ UNCHANGED <<sp, mem>> /\ MachineTyped'
    <3>1. LET r == Cpl(reg["a"], f) IN Fine(r) /\ r.v = 255 - A
      BY <1>q, <1>t, <1>p, CplIs
    <3> QED BY <2>1, <3>1, DoesAdjust
  <2>4. ip' = ip + 1 /\ UNCHANGED <<master, irqs, start>>
    BY <2>1, <2>3, OnwardTo
  <2>5. reg'["a"] = 255 - A /\ reg'["h"] = H /\ reg'["l"] = L
    BY <2>3, <1>t, <1>p DEF Reg8
  <2>6. reg'["l"] = 255 - start.reg["l"] /\ reg'["h"] = start.reg["h"] /\ start.reg["h"] > 127 /\ reg'["a"] = 255 - start.reg["h"]
    BY ONLY <2>2, <2>3, <2>5, <1>n
  <2>7. /\ start.ip = 247 /\ Called(248, mem') /\ sp' = 14
    BY ONLY <1>c, <2>3 DEF Called
  <2>8. AbsInv(start, 8, reg', f', sp', mem')
    BY ONLY <2>6, <2>7 DEF AbsInv
  <2> QED BY <2>1, <2>3, <2>4, <2>8, AbsRuns DEF Carried
<1>8. CASE j = 8
  <2>1. I.dst = "h" /\ I.src = "a" /\ I.op = "LD" /\ ip = 319
    BY <1>8, AbsIs DEF I, Ld
  <2>2. L = 255 - Y /\ H = X /\ X > 127 /\ A = 255 - X
    BY <1>8, <1>p, <1>n DEF AbsInv
  <2>3. Onward /\ UNCHANGED <<f, sp, mem>> /\ MachineTyped' /\ reg' = [reg EXCEPT !["h"] = reg["a"]]
    BY <2>1, DoesLd DEF Reg8
  <2>4. ip' = ip + 1 /\ UNCHANGED <<master, irqs, start>>
    BY <2>1, <2>3, OnwardTo
  <2>5. reg'["h"] = A /\ reg'["a"] = A /\ reg'["l"] = L
    BY <2>3, <1>t, <1>p DEF Reg8
  <2>6. reg'["l"] = 255 - start.reg["l"] /\ reg'["h"] = 255 - start.reg["h"] /\ start.reg["h"] > 127
    BY ONLY <2>2, <2>3, <2>5, <1>n
  <2>7. /\ start.ip = 247 /\ Called(248, mem') /\ sp' = 14
    BY ONLY <1>c, <2>3 DEF Called
  <2>8. AbsInv(start, 9, reg', f', sp', mem')
    BY ONLY <2>6, <2>7 DEF AbsInv
  <2> QED BY <2>1, <2>3, <2>4, <2>8, AbsRuns DEF Carried
<1>9. CASE j = 9
  <2>1. I.op = "INC16" /\ I.dst = "hl" /\ ip = 320
    BY <1>9, AbsIs DEF I, To
  <2>2. L = 255 - Y /\ H = 255 - X /\ X > 127
    BY <1>9, <1>p, <1>n DEF AbsInv
  <2>5. PICK W \in Nat : W = (H * 256 + L) + 1
    BY ONLY <1>p
  <2>6. W % 65536 = W /\ W < 65536 /\ W = 65536 - (X * 256 + Y)
    BY ONLY <2>2, <2>5, <1>n
  <2>3. Onward /\ UNCHANGED <<f, sp, mem>> /\ MachineTyped' /\ reg' = [reg EXCEPT !["h"] = W \div 256, !["l"] = W % 256]
    <3>1. (HL + 1) % 65536 = W
      BY ONLY <1>p, <2>5, <2>6, HLIs
    <3> QED BY <2>1, <3>1, DoesIncHL
  <2>4. ip' = ip + 1 /\ UNCHANGED <<master, irqs, start>>
    BY <2>1, <2>3, OnwardTo
  <2>7. reg'["h"] = W \div 256 /\ reg'["l"] = W % 256
    BY <2>3, <1>t DEF Reg8
  <2>8. reg'["h"] * 256 + reg'["l"] = 65536 - (start.reg["h"] * 256 + start.reg["l"])
    <3>1. (W \div 256) * 256 + (W % 256) = W
      BY ONLY W \in Nat
    <3> QED BY ONLY <2>6, <2>7, <3>1, <1>n
  <2>9. /\ start.ip = 247 /\ Called(248, mem') /\ sp' = 14 /\ start.reg["h"] > 127
    BY ONLY <1>c, <2>2, <2>3, <1>n DEF Called
  <2>10. AbsInv(start, 10, reg', f', sp', mem')
    BY ONLY <2>8, <2>9 DEF AbsInv, Wide
  <2> QED BY <2>1, <2>3, <2>4, <2>10, AbsRuns DEF Carried
<1>10. CASE j = 10
  <2>1. I.cc = "always" /\ I.op = "RET" /\ ip = 321
    BY <1>10, AbsIs DEF I, Ret
  <2>2. X > 127 /\ H * 256 + L = 65536 - (X * 256 + Y)
    BY <1>10, <1>p, <1>n DEF AbsInv, Wide
  <2>3. HL = 65536 - (X * 256 + Y) /\ start.reg["h"] * 256 + start.reg["l"] = X * 256 + Y
    BY <2>2, <1>p, <1>n, HLIs
  <2>5. SignedWord(X * 256 + Y) = -(65536 - (X * 256 + Y))
    BY ONLY <2>2, <1>n DEF SignedWord
  <2>6. SignedWord(start.reg["h"] * 256 + start.reg["l"]) = -HL
    BY ONLY <2>3, <2>5
  <2>4. Correct(reg, start.reg)
    BY ONLY <2>6, <1>c DEF Correct, Base
  <2> QED BY <2>1, <1>c, <2>4, Always, Returns
<1>x. j \in {1, 2, 3, 4, 5, 6, 7, 8, 9, 10}
  OBVIOUS
<1> QED BY ONLY <1>x, <1>1, <1>2, <1>3, <1>4, <1>5, <1>6, <1>7, <1>8, <1>9, <1>10

(* One instruction of HalfCode *)
LEMMA HalfStep ==
  ASSUME Instruction, MachineTyped, NEW j \in 1..3, ip = 340 + j,
         HalfInv(start, j, reg, f, sp, mem)
  PROVE  Carried /\ (Running(start, ip', reg', f', sp', mem') \/ Finished')
<1>t. /\ reg \in [Reg8 -> Byte] /\ f \in Flag /\ mem \in [MCCells -> Byte]
      /\ start.reg \in [Reg8 -> Byte]
  BY DEF MachineTyped
<1>r. \A x \in Reg8 : reg[x] \in Byte /\ start.reg[x] \in Byte
  BY <1>t
<1>a. \A x \in Reg8 : reg[x] \in Nat /\ reg[x] < 256 /\ start.reg[x] \in Nat /\ start.reg[x] < 256
  BY <1>r, ByteIs
<1>g. f.z \in 0..1 /\ f.n \in 0..1 /\ f.h \in 0..1 /\ f.c \in 0..1
  BY <1>t, FlagHas
<1>H. PICK H \in Nat : reg["h"] = H /\ H < 256
  BY <1>a DEF Reg8
<1>L. PICK L \in Nat : reg["l"] = L /\ L < 256
  BY <1>a DEF Reg8
<1>p. /\ H \in Nat /\ L \in Nat
      /\ reg["h"] = H /\ reg["l"] = L
      /\ H < 256 /\ L < 256
  BY <1>H, <1>L
<1>c. /\ start.ip = 253 /\ Called(254, mem) /\ sp = 14
  BY DEF HalfInv
<1>X. PICK X \in Nat : start.reg["h"] = X /\ X < 256
  BY <1>a DEF Reg8
<1>Y. PICK Y \in Nat : start.reg["l"] = Y /\ Y < 256
  BY <1>a DEF Reg8
<1>n. X \in Nat /\ start.reg["h"] = X /\ X < 256 /\ Y \in Nat /\ start.reg["l"] = Y /\ Y < 256
  BY <1>X, <1>Y
<1>q. reg["h"] \in Byte /\ reg["l"] \in Byte
  BY <1>r DEF Reg8
<1>1. CASE j = 1
  <2>1. I.op = "SRA" /\ I.src = "h" /\ ip = 341
    BY <1>1, HalfIs DEF I, On
  <2>2. H = X /\ L = Y
    BY <1>1, <1>p, <1>n DEF HalfInv
  <2>3. Onward /\ reg' = [reg EXCEPT !["h"] = (X \div 2) + 128 * (X \div 128)] /\ f'.c = X % 2 /\ UNCHANGED <<sp, mem>> /\ MachineTyped'
    BY <2>1, <2>2, <1>p, <1>q, <1>t, SraIs, DoesCB DEF Reg8, Shift
  <2>4. ip' = ip + 1 /\ UNCHANGED <<master, irqs, start>>
    BY <2>1, <2>3, OnwardTo
  <2>5. reg'["h"] = (X \div 2) + 128 * (X \div 128) /\ reg'["l"] = Y
    BY <2>2, <2>3, <1>t, <1>p DEF Reg8
  <2>6. /\ start.ip = 253 /\ Called(254, mem') /\ sp' = 14
    BY ONLY <1>c, <2>3 DEF Called
  <2>7. HalfInv(start, 2, reg', f', sp', mem')
    BY ONLY <2>3, <2>5, <2>6, <1>n DEF HalfInv
  <2> QED BY <2>1, <2>3, <2>4, <2>7, HalfRuns DEF Carried
<1>2. CASE j = 2
  <2>1. I.op = "RR" /\ I.src = "l" /\ ip = 342
    BY <1>2, HalfIs DEF I, On
  <2>2. H = (X \div 2) + 128 * (X \div 128) /\ L = Y /\ f.c = X % 2
    BY <1>2, <1>p, <1>n DEF HalfInv
  <2>3. Onward /\ reg' = [reg EXCEPT !["l"] = (Y \div 2) + 128 * (X % 2)] /\ UNCHANGED <<sp, mem>> /\ MachineTyped'
    BY <2>1, <2>2, <1>p, <1>q, <1>t, RrIs, DoesCB DEF Reg8, Shift
  <2>4. ip' = ip + 1 /\ UNCHANGED <<master, irqs, start>>
    BY <2>1, <2>3, OnwardTo
  <2>5. reg'["h"] = (X \div 2) + 128 * (X \div 128) /\ reg'["l"] = (Y \div 2) + 128 * (X % 2)
    BY <2>2, <2>3, <1>t, <1>p DEF Reg8
  <2>6. /\ start.ip = 253 /\ Called(254, mem') /\ sp' = 14
    BY ONLY <1>c, <2>3 DEF Called
  <2>7. HalfInv(start, 3, reg', f', sp', mem')
    BY ONLY <2>3, <2>5, <2>6, <1>n DEF HalfInv
  <2> QED BY <2>1, <2>3, <2>4, <2>7, HalfRuns DEF Carried
<1>3. CASE j = 3
  <2>1. I.cc = "always" /\ I.op = "RET" /\ ip = 343
    BY <1>3, HalfIs DEF I, Ret
  <2>2. H = (X \div 2) + 128 * (X \div 128) /\ L = (Y \div 2) + 128 * (X % 2)
    BY <1>3, <1>p, <1>n DEF HalfInv
  <2>3. HL = ((X \div 2) + 128 * (X \div 128)) * 256 + ((Y \div 2) + 128 * (X % 2)) /\ start.reg["h"] * 256 + start.reg["l"] = X * 256 + Y
    BY <2>2, <1>p, <1>n, HLIs
  <2>5. SignedWord(((X \div 2) + 128 * (X \div 128)) * 256 + ((Y \div 2) + 128 * (X % 2))) = SignedWord(X * 256 + Y) \div 2
    <3> DEFINE w == ((X \div 2) + 128 * (X \div 128)) * 256 + ((Y \div 2) + 128 * (X % 2))
               v == X * 256 + Y
    <3>0. v \div 2 = (X \div 2) * 256 + 128 * (X % 2) + (Y \div 2) /\ v \in Nat
      BY ONLY <1>n
    <3>1. CASE X < 128
      <4>1. w = (X \div 2) * 256 + 128 * (X % 2) + (Y \div 2) /\ w < 32768 /\ v < 32768
        BY ONLY <3>1, <1>n
      <4>2. SignedWord(w) = w /\ SignedWord(v) = v
        BY ONLY <4>1 DEF SignedWord
      <4> QED BY ONLY <3>0, <4>1, <4>2
    <3>2. CASE ~(X < 128)
      <4>1. w = (X \div 2) * 256 + 32768 + 128 * (X % 2) + (Y \div 2) /\ ~(w < 32768) /\ ~(v < 32768)
        BY ONLY <3>2, <1>n
      <4>2. SignedWord(w) = w - 65536 /\ SignedWord(v) = v - 65536
        BY ONLY <4>1 DEF SignedWord
      <4>3. (v - 65536) \div 2 = (v \div 2) - 32768
        BY ONLY <3>0
      <4> QED BY ONLY <3>0, <4>1, <4>2, <4>3
    <3> QED BY ONLY <3>1, <3>2
  <2>6. SignedWord(HL) = SignedWord(start.reg["h"] * 256 + start.reg["l"]) \div 2
    BY ONLY <2>3, <2>5
  <2>4. Correct(reg, start.reg)
    BY ONLY <2>6, <1>c DEF Correct, Base
  <2> QED BY <2>1, <1>c, <2>4, Always, Returns
<1>x. j \in {1, 2, 3}
  OBVIOUS
<1> QED BY ONLY <1>x, <1>1, <1>2, <1>3

-----------------------------------------------------------------------------
(* The variable on the stack, and the copies                                *)

(* One instruction of FrameCode *)
LEMMA FrameStep ==
  ASSUME Instruction, MachineTyped, NEW j \in 1..12, ip = 328 + j,
         FrameInv(start, j, reg, f, sp, mem)
  PROVE  Carried /\ (Running(start, ip', reg', f', sp', mem') \/ Finished')
<1>t. /\ reg \in [Reg8 -> Byte] /\ f \in Flag /\ mem \in [MCCells -> Byte]
      /\ start.reg \in [Reg8 -> Byte]
  BY DEF MachineTyped
<1>r. \A x \in Reg8 : reg[x] \in Byte /\ start.reg[x] \in Byte
  BY <1>t
<1>a. \A x \in Reg8 : reg[x] \in Nat /\ reg[x] < 256 /\ start.reg[x] \in Nat /\ start.reg[x] < 256
  BY <1>r, ByteIs
<1>g. f.z \in 0..1 /\ f.n \in 0..1 /\ f.h \in 0..1 /\ f.c \in 0..1
  BY <1>t, FlagHas
<1>c. start.ip = 251 /\ Called(252, mem)
  BY DEF FrameInv
<1>m. /\ 0 \in MCCells /\ 1 \in MCCells /\ 2 \in MCCells /\ 3 \in MCCells /\ 4 \in MCCells /\ 12 \in MCCells
      /\ 13 \in MCCells /\ 14 \in MCCells /\ 15 \in MCCells /\ 65408 \in MCCells /\ 65409 \in MCCells /\ 65410 \in MCCells
  BY Cells16
<1>1. CASE j = 1
  <2>1. I.op = "ADDSP" /\ I.n = 254 /\ ip = 329
    BY <1>1, FrameIs DEF I, By
  <2>2. /\ sp = 14 /\ reg["b"] = start.reg["b"] /\ reg["c"] = start.reg["c"]
    BY <1>1 DEF FrameInv
  <2>3. Onward /\ sp' = 12 /\ UNCHANGED <<reg, mem>> /\ MachineTyped'
    <3>1. AddSP(14, 254).v = 12 /\ AddSP(14, 254).f \in Flag
      BY AddSPIs
    <3> QED BY <2>1, <2>2, <3>1, DoesAddToSP
  <2>4. ip' = ip + 1 /\ UNCHANGED <<master, irqs, start>>
    BY <2>1, <2>3, OnwardTo
  <2>5. /\ reg'["a"] = reg["a"] /\ reg'["b"] = reg["b"] /\ reg'["c"] = reg["c"] /\ reg'["d"] = reg["d"]
        /\ reg'["e"] = reg["e"] /\ reg'["h"] = reg["h"] /\ reg'["l"] = reg["l"]
    BY <2>3, <1>t DEF Reg8
  <2>6. mem' = mem
    BY ONLY <2>3
  <2>7. /\ sp' = 12 /\ reg'["b"] = start.reg["b"] /\ reg'["c"] = start.reg["c"]
    BY ONLY <2>2, <2>3, <2>5, <2>6
  <2>8. start.ip = 251 /\ Called(252, mem') /\ mem'[65408] = mem[65408]
    BY ONLY <1>c, <2>6 DEF Called
  <2>9. FrameInv(start, 2, reg', f', sp', mem')
    BY ONLY <2>7, <2>8 DEF FrameInv
  <2> QED BY <2>1, <2>3, <2>4, <2>8, <2>9, FrameRuns DEF Carried
<1>2. CASE j = 2
  <2>1. I.op = "LDHLSP" /\ I.n = 0 /\ ip = 330
    BY <1>2, FrameIs DEF I, By
  <2>2. /\ sp = 12 /\ reg["b"] = start.reg["b"] /\ reg["c"] = start.reg["c"]
    BY <1>2 DEF FrameInv
  <2>3. Onward /\ UNCHANGED <<sp, mem>> /\ MachineTyped' /\ reg' = [reg EXCEPT !["h"] = 0, !["l"] = 12]
    <3>1. AddSP(12, 0).v = 12 /\ AddSP(12, 0).f \in Flag
      BY AddSPIs
    <3> QED BY <2>1, <2>2, <3>1, DoesLoadHLSP
  <2>4. ip' = ip + 1 /\ UNCHANGED <<master, irqs, start>>
    BY <2>1, <2>3, OnwardTo
  <2>5. /\ reg'["a"] = reg["a"] /\ reg'["b"] = reg["b"] /\ reg'["c"] = reg["c"] /\ reg'["d"] = reg["d"]
        /\ reg'["e"] = reg["e"] /\ reg'["h"] = 0 /\ reg'["l"] = 12
    BY <2>3, <1>t DEF Reg8
  <2>6. mem' = mem
    BY ONLY <2>3
  <2>7. /\ sp' = 12 /\ reg'["b"] = start.reg["b"] /\ reg'["c"] = start.reg["c"] /\ reg'["h"] = 0
        /\ reg'["l"] = 12
    BY ONLY <2>2, <2>3, <2>5, <2>6
  <2>8. start.ip = 251 /\ Called(252, mem') /\ mem'[65408] = mem[65408]
    BY ONLY <1>c, <2>6 DEF Called
  <2>9. FrameInv(start, 3, reg', f', sp', mem')
    BY ONLY <2>7, <2>8 DEF FrameInv
  <2> QED BY <2>1, <2>3, <2>4, <2>8, <2>9, FrameRuns DEF Carried
<1>3. CASE j = 3
  <2>1. I.dst = "(hl)" /\ I.src = "c" /\ I.op = "LD" /\ ip = 331
    BY <1>3, FrameIs DEF I, Ld
  <2>2. /\ sp = 12 /\ reg["b"] = start.reg["b"] /\ reg["c"] = start.reg["c"] /\ reg["h"] = 0
        /\ reg["l"] = 12
    BY <1>3 DEF FrameInv
  <2>3. Onward /\ mem' = [mem EXCEPT ![12] = reg["c"]] /\ UNCHANGED <<reg, f, sp>> /\ MachineTyped'
    <3>1. HL = 12 /\ HL \in MCCells
      BY <2>2, <1>m, HLIs
    <3> QED BY <2>1, <3>1, DoesStoreHL DEF Reg8
  <2>4. ip' = ip + 1 /\ UNCHANGED <<master, irqs, start>>
    BY <2>1, <2>3, OnwardTo
  <2>5. /\ reg'["a"] = reg["a"] /\ reg'["b"] = reg["b"] /\ reg'["c"] = reg["c"] /\ reg'["d"] = reg["d"]
        /\ reg'["e"] = reg["e"] /\ reg'["h"] = reg["h"] /\ reg'["l"] = reg["l"]
    BY <2>3, <1>t DEF Reg8
  <2>6. /\ mem'[0] = mem[0] /\ mem'[1] = mem[1] /\ mem'[2] = mem[2] /\ mem'[3] = mem[3]
        /\ mem'[4] = mem[4] /\ mem'[12] = reg["c"] /\ mem'[13] = mem[13] /\ mem'[14] = mem[14]
        /\ mem'[15] = mem[15] /\ mem'[65408] = mem[65408] /\ mem'[65409] = mem[65409] /\ mem'[65410] = mem[65410]
    BY ONLY <2>3, <1>t, <1>m
  <2>7. /\ sp' = 12 /\ reg'["b"] = start.reg["b"] /\ reg'["c"] = start.reg["c"] /\ reg'["h"] = 0
        /\ reg'["l"] = 12 /\ mem'[12] = start.reg["c"]
    BY ONLY <2>2, <2>3, <2>5, <2>6
  <2>8. start.ip = 251 /\ Called(252, mem') /\ mem'[65408] = mem[65408]
    BY ONLY <1>c, <2>6 DEF Called
  <2>9. FrameInv(start, 4, reg', f', sp', mem')
    BY ONLY <2>7, <2>8 DEF FrameInv
  <2> QED BY <2>1, <2>3, <2>4, <2>8, <2>9, FrameRuns DEF Carried
<1>4. CASE j = 4
  <2>1. I.op = "INC16" /\ I.dst = "hl" /\ ip = 332
    BY <1>4, FrameIs DEF I, To
  <2>2. /\ sp = 12 /\ reg["b"] = start.reg["b"] /\ reg["c"] = start.reg["c"] /\ reg["h"] = 0
        /\ reg["l"] = 12 /\ mem[12] = start.reg["c"]
    BY <1>4 DEF FrameInv
  <2>3. Onward /\ UNCHANGED <<f, sp, mem>> /\ MachineTyped' /\ reg' = [reg EXCEPT !["h"] = 0, !["l"] = 13]
    <3>1. HL = 12
      BY <2>2, HLIs
    <3>2. (12 + 1) % 65536 = 13 /\ 13 \div 256 = 0 /\ 13 % 256 = 13
      OBVIOUS
    <3> QED BY <2>1, <3>1, <3>2, DoesIncHL
  <2>4. ip' = ip + 1 /\ UNCHANGED <<master, irqs, start>>
    BY <2>1, <2>3, OnwardTo
  <2>5. /\ reg'["a"] = reg["a"] /\ reg'["b"] = reg["b"] /\ reg'["c"] = reg["c"] /\ reg'["d"] = reg["d"]
        /\ reg'["e"] = reg["e"] /\ reg'["h"] = 0 /\ reg'["l"] = 13
    BY <2>3, <1>t DEF Reg8
  <2>6. mem' = mem
    BY ONLY <2>3
  <2>7. /\ sp' = 12 /\ reg'["b"] = start.reg["b"] /\ reg'["c"] = start.reg["c"] /\ reg'["h"] = 0
        /\ reg'["l"] = 13 /\ mem'[12] = start.reg["c"]
    BY ONLY <2>2, <2>3, <2>5, <2>6
  <2>8. start.ip = 251 /\ Called(252, mem') /\ mem'[65408] = mem[65408]
    BY ONLY <1>c, <2>6 DEF Called
  <2>9. FrameInv(start, 5, reg', f', sp', mem')
    BY ONLY <2>7, <2>8 DEF FrameInv
  <2> QED BY <2>1, <2>3, <2>4, <2>8, <2>9, FrameRuns DEF Carried
<1>5. CASE j = 5
  <2>1. I.dst = "(hl)" /\ I.src = "b" /\ I.op = "LD" /\ ip = 333
    BY <1>5, FrameIs DEF I, Ld
  <2>2. /\ sp = 12 /\ reg["b"] = start.reg["b"] /\ reg["c"] = start.reg["c"] /\ reg["h"] = 0
        /\ reg["l"] = 13 /\ mem[12] = start.reg["c"]
    BY <1>5 DEF FrameInv
  <2>3. Onward /\ mem' = [mem EXCEPT ![13] = reg["b"]] /\ UNCHANGED <<reg, f, sp>> /\ MachineTyped'
    <3>1. HL = 13 /\ HL \in MCCells
      BY <2>2, <1>m, HLIs
    <3> QED BY <2>1, <3>1, DoesStoreHL DEF Reg8
  <2>4. ip' = ip + 1 /\ UNCHANGED <<master, irqs, start>>
    BY <2>1, <2>3, OnwardTo
  <2>5. /\ reg'["a"] = reg["a"] /\ reg'["b"] = reg["b"] /\ reg'["c"] = reg["c"] /\ reg'["d"] = reg["d"]
        /\ reg'["e"] = reg["e"] /\ reg'["h"] = reg["h"] /\ reg'["l"] = reg["l"]
    BY <2>3, <1>t DEF Reg8
  <2>6. /\ mem'[0] = mem[0] /\ mem'[1] = mem[1] /\ mem'[2] = mem[2] /\ mem'[3] = mem[3]
        /\ mem'[4] = mem[4] /\ mem'[12] = mem[12] /\ mem'[13] = reg["b"] /\ mem'[14] = mem[14]
        /\ mem'[15] = mem[15] /\ mem'[65408] = mem[65408] /\ mem'[65409] = mem[65409] /\ mem'[65410] = mem[65410]
    BY ONLY <2>3, <1>t, <1>m
  <2>7. /\ sp' = 12 /\ reg'["b"] = start.reg["b"] /\ reg'["c"] = start.reg["c"] /\ reg'["h"] = 0
        /\ reg'["l"] = 13 /\ mem'[12] = start.reg["c"] /\ mem'[13] = start.reg["b"]
    BY ONLY <2>2, <2>3, <2>5, <2>6
  <2>8. start.ip = 251 /\ Called(252, mem') /\ mem'[65408] = mem[65408]
    BY ONLY <1>c, <2>6 DEF Called
  <2>9. FrameInv(start, 6, reg', f', sp', mem')
    BY ONLY <2>7, <2>8 DEF FrameInv
  <2> QED BY <2>1, <2>3, <2>4, <2>8, <2>9, FrameRuns DEF Carried
<1>6. CASE j = 6
  <2>1. I.op = "LDA" /\ I.n = -1 /\ ip = 334
    BY <1>6, FrameIs DEF I, By
  <2>2. /\ sp = 12 /\ reg["b"] = start.reg["b"] /\ reg["c"] = start.reg["c"] /\ reg["h"] = 0
        /\ reg["l"] = 13 /\ mem[12] = start.reg["c"] /\ mem[13] = start.reg["b"]
    BY <1>6 DEF FrameInv
  <2>3. /\ Onward /\ UNCHANGED <<f, sp, mem>> /\ MachineTyped'
        /\ reg' = [reg EXCEPT !["h"] = 0, !["l"] = 12, !["a"] = mem[13]]
    <3>1. HL = 13 /\ HL \in 1..15 /\ HL - 1 = 12
      BY <2>2, HLIs
    <3> QED BY <2>1, <3>1, DoesLDADown
  <2>4. ip' = ip + 1 /\ UNCHANGED <<master, irqs, start>>
    BY <2>1, <2>3, OnwardTo
  <2>5. /\ reg'["a"] = mem[13] /\ reg'["b"] = reg["b"] /\ reg'["c"] = reg["c"] /\ reg'["d"] = reg["d"]
        /\ reg'["e"] = reg["e"] /\ reg'["h"] = 0 /\ reg'["l"] = 12
    BY <2>3, <1>t DEF Reg8
  <2>6. mem' = mem
    BY ONLY <2>3
  <2>7. /\ sp' = 12 /\ reg'["b"] = start.reg["b"] /\ reg'["c"] = start.reg["c"] /\ reg'["h"] = 0
        /\ reg'["l"] = 12 /\ mem'[12] = start.reg["c"] /\ reg'["a"] = start.reg["b"]
    BY ONLY <2>2, <2>3, <2>5, <2>6
  <2>8. start.ip = 251 /\ Called(252, mem') /\ mem'[65408] = mem[65408]
    BY ONLY <1>c, <2>6 DEF Called
  <2>9. FrameInv(start, 7, reg', f', sp', mem')
    BY ONLY <2>7, <2>8 DEF FrameInv
  <2> QED BY <2>1, <2>3, <2>4, <2>8, <2>9, FrameRuns DEF Carried
<1>7. CASE j = 7
  <2>1. I.dst = "d" /\ I.src = "a" /\ I.op = "LD" /\ ip = 335
    BY <1>7, FrameIs DEF I, Ld
  <2>2. /\ sp = 12 /\ reg["b"] = start.reg["b"] /\ reg["c"] = start.reg["c"] /\ reg["h"] = 0
        /\ reg["l"] = 12 /\ mem[12] = start.reg["c"] /\ reg["a"] = start.reg["b"]
    BY <1>7 DEF FrameInv
  <2>3. Onward /\ UNCHANGED <<f, sp, mem>> /\ MachineTyped' /\ reg' = [reg EXCEPT !["d"] = reg["a"]]
    BY <2>1, DoesLd DEF Reg8
  <2>4. ip' = ip + 1 /\ UNCHANGED <<master, irqs, start>>
    BY <2>1, <2>3, OnwardTo
  <2>5. /\ reg'["a"] = reg["a"] /\ reg'["b"] = reg["b"] /\ reg'["c"] = reg["c"] /\ reg'["d"] = reg["a"]
        /\ reg'["e"] = reg["e"] /\ reg'["h"] = reg["h"] /\ reg'["l"] = reg["l"]
    BY <2>3, <1>t DEF Reg8
  <2>6. mem' = mem
    BY ONLY <2>3
  <2>7. /\ sp' = 12 /\ reg'["b"] = start.reg["b"] /\ reg'["c"] = start.reg["c"] /\ reg'["h"] = 0
        /\ reg'["l"] = 12 /\ mem'[12] = start.reg["c"] /\ reg'["d"] = start.reg["b"]
    BY ONLY <2>2, <2>3, <2>5, <2>6
  <2>8. start.ip = 251 /\ Called(252, mem') /\ mem'[65408] = mem[65408]
    BY ONLY <1>c, <2>6 DEF Called
  <2>9. FrameInv(start, 8, reg', f', sp', mem')
    BY ONLY <2>7, <2>8 DEF FrameInv
  <2> QED BY <2>1, <2>3, <2>4, <2>8, <2>9, FrameRuns DEF Carried
<1>8. CASE j = 8
  <2>1. I.op = "LDA" /\ I.n = 1 /\ ip = 336
    BY <1>8, FrameIs DEF I, By
  <2>2. /\ sp = 12 /\ reg["b"] = start.reg["b"] /\ reg["c"] = start.reg["c"] /\ reg["h"] = 0
        /\ reg["l"] = 12 /\ mem[12] = start.reg["c"] /\ reg["d"] = start.reg["b"]
    BY <1>8 DEF FrameInv
  <2>3. /\ Onward /\ UNCHANGED <<f, sp, mem>> /\ MachineTyped'
        /\ reg' = [reg EXCEPT !["h"] = 0, !["l"] = 13, !["a"] = mem[12]]
    <3>1. HL = 12 /\ HL \in 1..15 /\ HL + 1 = 13
      BY <2>2, HLIs
    <3> QED BY <2>1, <3>1, DoesLDAUp
  <2>4. ip' = ip + 1 /\ UNCHANGED <<master, irqs, start>>
    BY <2>1, <2>3, OnwardTo
  <2>5. /\ reg'["a"] = mem[12] /\ reg'["b"] = reg["b"] /\ reg'["c"] = reg["c"] /\ reg'["d"] = reg["d"]
        /\ reg'["e"] = reg["e"] /\ reg'["h"] = 0 /\ reg'["l"] = 13
    BY <2>3, <1>t DEF Reg8
  <2>6. mem' = mem
    BY ONLY <2>3
  <2>7. /\ sp' = 12 /\ reg'["b"] = start.reg["b"] /\ reg'["c"] = start.reg["c"] /\ reg'["h"] = 0
        /\ reg'["l"] = 13 /\ reg'["d"] = start.reg["b"] /\ reg'["a"] = start.reg["c"]
    BY ONLY <2>2, <2>3, <2>5, <2>6
  <2>8. start.ip = 251 /\ Called(252, mem') /\ mem'[65408] = mem[65408]
    BY ONLY <1>c, <2>6 DEF Called
  <2>9. FrameInv(start, 9, reg', f', sp', mem')
    BY ONLY <2>7, <2>8 DEF FrameInv
  <2> QED BY <2>1, <2>3, <2>4, <2>8, <2>9, FrameRuns DEF Carried
<1>9. CASE j = 9
  <2>1. I.dst = "e" /\ I.src = "a" /\ I.op = "LD" /\ ip = 337
    BY <1>9, FrameIs DEF I, Ld
  <2>2. /\ sp = 12 /\ reg["b"] = start.reg["b"] /\ reg["c"] = start.reg["c"] /\ reg["h"] = 0
        /\ reg["l"] = 13 /\ reg["d"] = start.reg["b"] /\ reg["a"] = start.reg["c"]
    BY <1>9 DEF FrameInv
  <2>3. Onward /\ UNCHANGED <<f, sp, mem>> /\ MachineTyped' /\ reg' = [reg EXCEPT !["e"] = reg["a"]]
    BY <2>1, DoesLd DEF Reg8
  <2>4. ip' = ip + 1 /\ UNCHANGED <<master, irqs, start>>
    BY <2>1, <2>3, OnwardTo
  <2>5. /\ reg'["a"] = reg["a"] /\ reg'["b"] = reg["b"] /\ reg'["c"] = reg["c"] /\ reg'["d"] = reg["d"]
        /\ reg'["e"] = reg["a"] /\ reg'["h"] = reg["h"] /\ reg'["l"] = reg["l"]
    BY <2>3, <1>t DEF Reg8
  <2>6. mem' = mem
    BY ONLY <2>3
  <2>7. /\ sp' = 12 /\ reg'["b"] = start.reg["b"] /\ reg'["c"] = start.reg["c"] /\ reg'["h"] = 0
        /\ reg'["l"] = 13 /\ reg'["d"] = start.reg["b"] /\ reg'["e"] = start.reg["c"]
    BY ONLY <2>2, <2>3, <2>5, <2>6
  <2>8. start.ip = 251 /\ Called(252, mem') /\ mem'[65408] = mem[65408]
    BY ONLY <1>c, <2>6 DEF Called
  <2>9. FrameInv(start, 10, reg', f', sp', mem')
    BY ONLY <2>7, <2>8 DEF FrameInv
  <2> QED BY <2>1, <2>3, <2>4, <2>8, <2>9, FrameRuns DEF Carried
<1>10. CASE j = 10
  <2>1. I.op = "LDSPHL" /\ ip = 338
    BY <1>10, FrameIs DEF I, Op
  <2>2. /\ sp = 12 /\ reg["b"] = start.reg["b"] /\ reg["c"] = start.reg["c"] /\ reg["h"] = 0
        /\ reg["l"] = 13 /\ reg["d"] = start.reg["b"] /\ reg["e"] = start.reg["c"]
    BY <1>10 DEF FrameInv
  <2>3. Onward /\ sp' = 13 /\ UNCHANGED <<reg, f, mem>> /\ MachineTyped'
    <3>1. HL = 13
      BY <2>2, HLIs
    <3> QED BY <2>1, <3>1, DoesLoadSP
  <2>4. ip' = ip + 1 /\ UNCHANGED <<master, irqs, start>>
    BY <2>1, <2>3, OnwardTo
  <2>5. /\ reg'["a"] = reg["a"] /\ reg'["b"] = reg["b"] /\ reg'["c"] = reg["c"] /\ reg'["d"] = reg["d"]
        /\ reg'["e"] = reg["e"] /\ reg'["h"] = reg["h"] /\ reg'["l"] = reg["l"]
    BY <2>3, <1>t DEF Reg8
  <2>6. mem' = mem
    BY ONLY <2>3
  <2>7. /\ sp' = 13 /\ reg'["b"] = start.reg["b"] /\ reg'["c"] = start.reg["c"] /\ reg'["d"] = start.reg["b"]
        /\ reg'["e"] = start.reg["c"]
    BY ONLY <2>2, <2>3, <2>5, <2>6
  <2>8. start.ip = 251 /\ Called(252, mem') /\ mem'[65408] = mem[65408]
    BY ONLY <1>c, <2>6 DEF Called
  <2>9. FrameInv(start, 11, reg', f', sp', mem')
    BY ONLY <2>7, <2>8 DEF FrameInv
  <2> QED BY <2>1, <2>3, <2>4, <2>8, <2>9, FrameRuns DEF Carried
<1>11. CASE j = 11
  <2>1. I.op = "ADDSP" /\ I.n = 1 /\ ip = 339
    BY <1>11, FrameIs DEF I, By
  <2>2. /\ sp = 13 /\ reg["b"] = start.reg["b"] /\ reg["c"] = start.reg["c"] /\ reg["d"] = start.reg["b"]
        /\ reg["e"] = start.reg["c"]
    BY <1>11 DEF FrameInv
  <2>3. Onward /\ sp' = 14 /\ UNCHANGED <<reg, mem>> /\ MachineTyped'
    <3>1. AddSP(13, 1).v = 14 /\ AddSP(13, 1).f \in Flag
      BY AddSPIs
    <3> QED BY <2>1, <2>2, <3>1, DoesAddToSP
  <2>4. ip' = ip + 1 /\ UNCHANGED <<master, irqs, start>>
    BY <2>1, <2>3, OnwardTo
  <2>5. /\ reg'["a"] = reg["a"] /\ reg'["b"] = reg["b"] /\ reg'["c"] = reg["c"] /\ reg'["d"] = reg["d"]
        /\ reg'["e"] = reg["e"] /\ reg'["h"] = reg["h"] /\ reg'["l"] = reg["l"]
    BY <2>3, <1>t DEF Reg8
  <2>6. mem' = mem
    BY ONLY <2>3
  <2>7. /\ sp' = 14 /\ reg'["b"] = start.reg["b"] /\ reg'["c"] = start.reg["c"] /\ reg'["d"] = start.reg["b"]
        /\ reg'["e"] = start.reg["c"]
    BY ONLY <2>2, <2>3, <2>5, <2>6
  <2>8. start.ip = 251 /\ Called(252, mem') /\ mem'[65408] = mem[65408]
    BY ONLY <1>c, <2>6 DEF Called
  <2>9. FrameInv(start, 12, reg', f', sp', mem')
    BY ONLY <2>7, <2>8 DEF FrameInv
  <2> QED BY <2>1, <2>3, <2>4, <2>8, <2>9, FrameRuns DEF Carried
<1>12. CASE j = 12
  <2>1. I.cc = "always" /\ I.op = "RET" /\ ip = 340
    BY <1>12, FrameIs DEF I, Ret
  <2>2. sp = 14 /\ reg["d"] = start.reg["b"] /\ reg["e"] = start.reg["c"]
    BY <1>12 DEF FrameInv
  <2>4. Correct(reg, start.reg)
    BY ONLY <2>2, <1>c DEF Correct, Base
  <2> QED BY <2>1, <2>2, <1>c, <2>4, Always, Returns
<1>x. j \in {1, 2, 3, 4, 5, 6, 7, 8, 9, 10, 11, 12}
  OBVIOUS
<1> QED BY ONLY <1>x, <1>1, <1>2, <1>3, <1>4, <1>5, <1>6, <1>7, <1>8, <1>9, <1>10, <1>11, <1>12

(* One instruction of CopyCode *)
LEMMA CopyStep ==
  ASSUME Instruction, MachineTyped, NEW j \in 1..25, ip = 343 + j,
         CopyInv(start, j, reg, f, sp, mem)
  PROVE  Carried /\ (Running(start, ip', reg', f', sp', mem') \/ Finished')
<1>t. /\ reg \in [Reg8 -> Byte] /\ f \in Flag /\ mem \in [MCCells -> Byte]
      /\ start.reg \in [Reg8 -> Byte]
  BY DEF MachineTyped
<1>r. \A x \in Reg8 : reg[x] \in Byte /\ start.reg[x] \in Byte
  BY <1>t
<1>a. \A x \in Reg8 : reg[x] \in Nat /\ reg[x] < 256 /\ start.reg[x] \in Nat /\ start.reg[x] < 256
  BY <1>r, ByteIs
<1>g. f.z \in 0..1 /\ f.n \in 0..1 /\ f.h \in 0..1 /\ f.c \in 0..1
  BY <1>t, FlagHas
<1>c. start.ip = 256 /\ Called(257, mem)
  BY DEF CopyInv
<1>m. /\ 0 \in MCCells /\ 1 \in MCCells /\ 2 \in MCCells /\ 3 \in MCCells /\ 4 \in MCCells /\ 12 \in MCCells
      /\ 13 \in MCCells /\ 14 \in MCCells /\ 15 \in MCCells /\ 65408 \in MCCells /\ 65409 \in MCCells /\ 65410 \in MCCells
  BY Cells16
<1>1. CASE j = 1
  <2>1. I.op = "LD_SP" /\ I.n = 0 /\ ip = 344
    BY <1>1, CopyIs DEF I, By
  <2>2. /\ sp = 14 /\ reg["a"] = start.reg["a"]
    BY <1>1 DEF CopyInv
  <2>3. Onward /\ mem' = [mem EXCEPT ![0] = 14, ![1] = 0] /\ UNCHANGED <<reg, f, sp>> /\ MachineTyped'
    BY <2>1, <2>2, DoesStoreSP
  <2>4. ip' = ip + 1 /\ UNCHANGED <<master, irqs, start>>
    BY <2>1, <2>3, OnwardTo
  <2>5. /\ reg'["a"] = reg["a"] /\ reg'["b"] = reg["b"] /\ reg'["c"] = reg["c"] /\ reg'["d"] = reg["d"]
        /\ reg'["e"] = reg["e"] /\ reg'["h"] = reg["h"] /\ reg'["l"] = reg["l"]
    BY <2>3, <1>t DEF Reg8
  <2>6. /\ mem'[0] = 14 /\ mem'[1] = 0 /\ mem'[2] = mem[2] /\ mem'[3] = mem[3]
        /\ mem'[4] = mem[4] /\ mem'[12] = mem[12] /\ mem'[13] = mem[13] /\ mem'[14] = mem[14]
        /\ mem'[15] = mem[15] /\ mem'[65408] = mem[65408] /\ mem'[65409] = mem[65409] /\ mem'[65410] = mem[65410]
    BY ONLY <2>3, <1>t, <1>m
  <2>7. /\ sp' = 14 /\ reg'["a"] = start.reg["a"] /\ mem'[0] = 14 /\ mem'[1] = 0
    BY ONLY <2>2, <2>3, <2>5, <2>6
  <2>8. start.ip = 256 /\ Called(257, mem') /\ mem'[65408] = mem[65408]
    BY ONLY <1>c, <2>6 DEF Called
  <2>9. CopyInv(start, 2, reg', f', sp', mem')
    BY ONLY <2>7, <2>8 DEF CopyInv
  <2> QED BY <2>1, <2>3, <2>4, <2>8, <2>9, CopyRuns DEF Carried
<1>2. CASE j = 2
  <2>1. I.dst = "hl" /\ I.n = 2 /\ I.op = "LD16" /\ ip = 345
    BY <1>2, CopyIs DEF I, Ld16
  <2>2. /\ sp = 14 /\ reg["a"] = start.reg["a"] /\ mem[0] = 14 /\ mem[1] = 0
    BY <1>2 DEF CopyInv
  <2>3. Onward /\ UNCHANGED <<f, sp, mem>> /\ MachineTyped' /\ reg' = [reg EXCEPT !["h"] = 0, !["l"] = 2]
    <3>1. 2 \div 256 = 0 /\ 2 % 256 = 2 /\ 2 \in Nat /\ 2 < 65536
      OBVIOUS
    <3>2. High["hl"] = "h" /\ Low["hl"] = "l" /\ "h" \in Reg8 /\ "l" \in Reg8
      BY Pairs DEF Reg8
    <3> QED BY <2>1, <3>1, <3>2, DoesLd16
  <2>4. ip' = ip + 1 /\ UNCHANGED <<master, irqs, start>>
    BY <2>1, <2>3, OnwardTo
  <2>5. /\ reg'["a"] = reg["a"] /\ reg'["b"] = reg["b"] /\ reg'["c"] = reg["c"] /\ reg'["d"] = reg["d"]
        /\ reg'["e"] = reg["e"] /\ reg'["h"] = 0 /\ reg'["l"] = 2
    BY <2>3, <1>t DEF Reg8
  <2>6. mem' = mem
    BY ONLY <2>3
  <2>7. /\ sp' = 14 /\ reg'["a"] = start.reg["a"] /\ mem'[0] = 14 /\ mem'[1] = 0
        /\ reg'["h"] = 0 /\ reg'["l"] = 2
    BY ONLY <2>2, <2>3, <2>5, <2>6
  <2>8. start.ip = 256 /\ Called(257, mem') /\ mem'[65408] = mem[65408]
    BY ONLY <1>c, <2>6 DEF Called
  <2>9. CopyInv(start, 3, reg', f', sp', mem')
    BY ONLY <2>7, <2>8 DEF CopyInv
  <2> QED BY <2>1, <2>3, <2>4, <2>8, <2>9, CopyRuns DEF Carried
<1>3. CASE j = 3
  <2>1. I.op = "ADDHL" /\ I.src = "sp" /\ ip = 346
    BY <1>3, CopyIs DEF I, On
  <2>2. /\ sp = 14 /\ reg["a"] = start.reg["a"] /\ mem[0] = 14 /\ mem[1] = 0
        /\ reg["h"] = 0 /\ reg["l"] = 2
    BY <1>3 DEF CopyInv
  <2>3. Onward /\ UNCHANGED <<sp, mem>> /\ MachineTyped' /\ reg' = [reg EXCEPT !["h"] = 0, !["l"] = 16]
    <3>1. HL = 2 /\ Pair("sp") = 14
      BY <2>2, HLIs DEF Pair
    <3>2. AddHL(2, 14, f).v = 16 /\ AddHL(2, 14, f).f \in Flag
      <4>1. (2 + 14) % 65536 = 16 /\ 2 \in Nat /\ 14 \in Nat
        OBVIOUS
      <4> QED BY ONLY <4>1, <1>t, AddHLIs
    <3>3. 16 \div 256 = 0 /\ 16 % 256 = 16 /\ 16 \in Nat /\ 16 < 65536 /\ 14 \in Nat
      OBVIOUS
    <3> QED BY <2>1, <3>1, <3>2, <3>3, DoesAddHL
  <2>4. ip' = ip + 1 /\ UNCHANGED <<master, irqs, start>>
    BY <2>1, <2>3, OnwardTo
  <2>5. /\ reg'["a"] = reg["a"] /\ reg'["b"] = reg["b"] /\ reg'["c"] = reg["c"] /\ reg'["d"] = reg["d"]
        /\ reg'["e"] = reg["e"] /\ reg'["h"] = 0 /\ reg'["l"] = 16
    BY <2>3, <1>t DEF Reg8
  <2>6. mem' = mem
    BY ONLY <2>3
  <2>7. /\ sp' = 14 /\ reg'["a"] = start.reg["a"] /\ mem'[0] = 14 /\ mem'[1] = 0
        /\ reg'["h"] = 0 /\ reg'["l"] = 16
    BY ONLY <2>2, <2>3, <2>5, <2>6
  <2>8. start.ip = 256 /\ Called(257, mem') /\ mem'[65408] = mem[65408]
    BY ONLY <1>c, <2>6 DEF Called
  <2>9. CopyInv(start, 4, reg', f', sp', mem')
    BY ONLY <2>7, <2>8 DEF CopyInv
  <2> QED BY <2>1, <2>3, <2>4, <2>8, <2>9, CopyRuns DEF Carried
<1>4. CASE j = 4
  <2>1. I.op = "DEC16" /\ I.dst = "sp" /\ ip = 347
    BY <1>4, CopyIs DEF I, To
  <2>2. /\ sp = 14 /\ reg["a"] = start.reg["a"] /\ mem[0] = 14 /\ mem[1] = 0
        /\ reg["h"] = 0 /\ reg["l"] = 16
    BY <1>4 DEF CopyInv
  <2>3. Onward /\ sp' = 13 /\ UNCHANGED <<reg, f, mem>> /\ MachineTyped'
    BY <2>1, <2>2, DoesDecSP
  <2>4. ip' = ip + 1 /\ UNCHANGED <<master, irqs, start>>
    BY <2>1, <2>3, OnwardTo
  <2>5. /\ reg'["a"] = reg["a"] /\ reg'["b"] = reg["b"] /\ reg'["c"] = reg["c"] /\ reg'["d"] = reg["d"]
        /\ reg'["e"] = reg["e"] /\ reg'["h"] = reg["h"] /\ reg'["l"] = reg["l"]
    BY <2>3, <1>t DEF Reg8
  <2>6. mem' = mem
    BY ONLY <2>3
  <2>7. /\ sp' = 13 /\ reg'["a"] = start.reg["a"] /\ mem'[0] = 14 /\ mem'[1] = 0
        /\ reg'["h"] = 0 /\ reg'["l"] = 16
    BY ONLY <2>2, <2>3, <2>5, <2>6
  <2>8. start.ip = 256 /\ Called(257, mem') /\ mem'[65408] = mem[65408]
    BY ONLY <1>c, <2>6 DEF Called
  <2>9. CopyInv(start, 5, reg', f', sp', mem')
    BY ONLY <2>7, <2>8 DEF CopyInv
  <2> QED BY <2>1, <2>3, <2>4, <2>8, <2>9, CopyRuns DEF Carried
<1>5. CASE j = 5
  <2>1. I.op = "INC16" /\ I.dst = "sp" /\ ip = 348
    BY <1>5, CopyIs DEF I, To
  <2>2. /\ sp = 13 /\ reg["a"] = start.reg["a"] /\ mem[0] = 14 /\ mem[1] = 0
        /\ reg["h"] = 0 /\ reg["l"] = 16
    BY <1>5 DEF CopyInv
  <2>3. Onward /\ sp' = 14 /\ UNCHANGED <<reg, f, mem>> /\ MachineTyped'
    BY <2>1, <2>2, DoesIncSP
  <2>4. ip' = ip + 1 /\ UNCHANGED <<master, irqs, start>>
    BY <2>1, <2>3, OnwardTo
  <2>5. /\ reg'["a"] = reg["a"] /\ reg'["b"] = reg["b"] /\ reg'["c"] = reg["c"] /\ reg'["d"] = reg["d"]
        /\ reg'["e"] = reg["e"] /\ reg'["h"] = reg["h"] /\ reg'["l"] = reg["l"]
    BY <2>3, <1>t DEF Reg8
  <2>6. mem' = mem
    BY ONLY <2>3
  <2>7. /\ sp' = 14 /\ reg'["a"] = start.reg["a"] /\ mem'[0] = 14 /\ mem'[1] = 0
        /\ reg'["h"] = 0 /\ reg'["l"] = 16
    BY ONLY <2>2, <2>3, <2>5, <2>6
  <2>8. start.ip = 256 /\ Called(257, mem') /\ mem'[65408] = mem[65408]
    BY ONLY <1>c, <2>6 DEF Called
  <2>9. CopyInv(start, 6, reg', f', sp', mem')
    BY ONLY <2>7, <2>8 DEF CopyInv
  <2> QED BY <2>1, <2>3, <2>4, <2>8, <2>9, CopyRuns DEF Carried
<1>6. CASE j = 6
  <2>1. I.dst = "bc" /\ I.n = 2 /\ I.op = "LD16" /\ ip = 349
    BY <1>6, CopyIs DEF I, Ld16
  <2>2. /\ sp = 14 /\ reg["a"] = start.reg["a"] /\ mem[0] = 14 /\ mem[1] = 0
        /\ reg["h"] = 0 /\ reg["l"] = 16
    BY <1>6 DEF CopyInv
  <2>3. Onward /\ UNCHANGED <<f, sp, mem>> /\ MachineTyped' /\ reg' = [reg EXCEPT !["b"] = 0, !["c"] = 2]
    <3>1. 2 \div 256 = 0 /\ 2 % 256 = 2 /\ 2 \in Nat /\ 2 < 65536
      OBVIOUS
    <3>2. High["bc"] = "b" /\ Low["bc"] = "c" /\ "b" \in Reg8 /\ "c" \in Reg8
      BY Pairs DEF Reg8
    <3> QED BY <2>1, <3>1, <3>2, DoesLd16
  <2>4. ip' = ip + 1 /\ UNCHANGED <<master, irqs, start>>
    BY <2>1, <2>3, OnwardTo
  <2>5. /\ reg'["a"] = reg["a"] /\ reg'["b"] = 0 /\ reg'["c"] = 2 /\ reg'["d"] = reg["d"]
        /\ reg'["e"] = reg["e"] /\ reg'["h"] = reg["h"] /\ reg'["l"] = reg["l"]
    BY <2>3, <1>t DEF Reg8
  <2>6. mem' = mem
    BY ONLY <2>3
  <2>7. /\ sp' = 14 /\ reg'["a"] = start.reg["a"] /\ mem'[0] = 14 /\ mem'[1] = 0
        /\ reg'["h"] = 0 /\ reg'["l"] = 16 /\ reg'["b"] = 0 /\ reg'["c"] = 2
    BY ONLY <2>2, <2>3, <2>5, <2>6
  <2>8. start.ip = 256 /\ Called(257, mem') /\ mem'[65408] = mem[65408]
    BY ONLY <1>c, <2>6 DEF Called
  <2>9. CopyInv(start, 7, reg', f', sp', mem')
    BY ONLY <2>7, <2>8 DEF CopyInv
  <2> QED BY <2>1, <2>3, <2>4, <2>8, <2>9, CopyRuns DEF Carried
<1>7. CASE j = 7
  <2>1. I.dst = "de" /\ I.n = 3 /\ I.op = "LD16" /\ ip = 350
    BY <1>7, CopyIs DEF I, Ld16
  <2>2. /\ sp = 14 /\ reg["a"] = start.reg["a"] /\ mem[0] = 14 /\ mem[1] = 0
        /\ reg["h"] = 0 /\ reg["l"] = 16 /\ reg["b"] = 0 /\ reg["c"] = 2
    BY <1>7 DEF CopyInv
  <2>3. Onward /\ UNCHANGED <<f, sp, mem>> /\ MachineTyped' /\ reg' = [reg EXCEPT !["d"] = 0, !["e"] = 3]
    <3>1. 3 \div 256 = 0 /\ 3 % 256 = 3 /\ 3 \in Nat /\ 3 < 65536
      OBVIOUS
    <3>2. High["de"] = "d" /\ Low["de"] = "e" /\ "d" \in Reg8 /\ "e" \in Reg8
      BY Pairs DEF Reg8
    <3> QED BY <2>1, <3>1, <3>2, DoesLd16
  <2>4. ip' = ip + 1 /\ UNCHANGED <<master, irqs, start>>
    BY <2>1, <2>3, OnwardTo
  <2>5. /\ reg'["a"] = reg["a"] /\ reg'["b"] = reg["b"] /\ reg'["c"] = reg["c"] /\ reg'["d"] = 0
        /\ reg'["e"] = 3 /\ reg'["h"] = reg["h"] /\ reg'["l"] = reg["l"]
    BY <2>3, <1>t DEF Reg8
  <2>6. mem' = mem
    BY ONLY <2>3
  <2>7. /\ sp' = 14 /\ reg'["a"] = start.reg["a"] /\ mem'[0] = 14 /\ mem'[1] = 0
        /\ reg'["h"] = 0 /\ reg'["l"] = 16 /\ reg'["b"] = 0 /\ reg'["c"] = 2
        /\ reg'["d"] = 0 /\ reg'["e"] = 3
    BY ONLY <2>2, <2>3, <2>5, <2>6
  <2>8. start.ip = 256 /\ Called(257, mem') /\ mem'[65408] = mem[65408]
    BY ONLY <1>c, <2>6 DEF Called
  <2>9. CopyInv(start, 8, reg', f', sp', mem')
    BY ONLY <2>7, <2>8 DEF CopyInv
  <2> QED BY <2>1, <2>3, <2>4, <2>8, <2>9, CopyRuns DEF Carried
<1>8. CASE j = 8
  <2>1. I.op = "LD_A" /\ I.by = "bc" /\ I.n = 0 /\ ip = 351
    BY <1>8, CopyIs DEF I, Mem
  <2>2. /\ sp = 14 /\ reg["a"] = start.reg["a"] /\ mem[0] = 14 /\ mem[1] = 0
        /\ reg["h"] = 0 /\ reg["l"] = 16 /\ reg["b"] = 0 /\ reg["c"] = 2
        /\ reg["d"] = 0 /\ reg["e"] = 3
    BY <1>8 DEF CopyInv
  <2>3. Onward /\ mem' = [mem EXCEPT ![2] = reg["a"]] /\ UNCHANGED <<reg, f, sp>> /\ MachineTyped'
    <3>1. Address = 2
      <4>1. Address = Pair("bc")
        BY <2>1 DEF Address
      <4>2. Pair("bc") = 2
        BY <2>2, Pairs DEF Pair
      <4> QED BY <4>1, <4>2
    <3> QED BY <2>1, <3>1, <1>m, DoesStoreA
  <2>4. ip' = ip + 1 /\ UNCHANGED <<master, irqs, start>>
    BY <2>1, <2>3, OnwardTo
  <2>5. /\ reg'["a"] = reg["a"] /\ reg'["b"] = reg["b"] /\ reg'["c"] = reg["c"] /\ reg'["d"] = reg["d"]
        /\ reg'["e"] = reg["e"] /\ reg'["h"] = reg["h"] /\ reg'["l"] = reg["l"]
    BY <2>3, <1>t DEF Reg8
  <2>6. /\ mem'[0] = mem[0] /\ mem'[1] = mem[1] /\ mem'[2] = reg["a"] /\ mem'[3] = mem[3]
        /\ mem'[4] = mem[4] /\ mem'[12] = mem[12] /\ mem'[13] = mem[13] /\ mem'[14] = mem[14]
        /\ mem'[15] = mem[15] /\ mem'[65408] = mem[65408] /\ mem'[65409] = mem[65409] /\ mem'[65410] = mem[65410]
    BY ONLY <2>3, <1>t, <1>m
  <2>7. /\ sp' = 14 /\ reg'["a"] = start.reg["a"] /\ mem'[0] = 14 /\ mem'[1] = 0
        /\ reg'["h"] = 0 /\ reg'["l"] = 16 /\ reg'["b"] = 0 /\ reg'["c"] = 2
        /\ reg'["d"] = 0 /\ reg'["e"] = 3 /\ mem'[2] = start.reg["a"]
    BY ONLY <2>2, <2>3, <2>5, <2>6
  <2>8. start.ip = 256 /\ Called(257, mem') /\ mem'[65408] = mem[65408]
    BY ONLY <1>c, <2>6 DEF Called
  <2>9. CopyInv(start, 9, reg', f', sp', mem')
    BY ONLY <2>7, <2>8 DEF CopyInv
  <2> QED BY <2>1, <2>3, <2>4, <2>8, <2>9, CopyRuns DEF Carried
<1>9. CASE j = 9
  <2>1. I.dst = "a" /\ I.n = 0 /\ I.op = "LD" /\ I.src = "d8" /\ ip = 352
    BY <1>9, CopyIs DEF I, LdN
  <2>2. /\ sp = 14 /\ reg["a"] = start.reg["a"] /\ mem[0] = 14 /\ mem[1] = 0
        /\ reg["h"] = 0 /\ reg["l"] = 16 /\ reg["b"] = 0 /\ reg["c"] = 2
        /\ reg["d"] = 0 /\ reg["e"] = 3 /\ mem[2] = start.reg["a"]
    BY <1>9 DEF CopyInv
  <2>3. Onward /\ UNCHANGED <<f, sp, mem>> /\ MachineTyped' /\ reg' = [reg EXCEPT !["a"] = 0]
    BY <2>1, DoesLdN DEF Reg8, Byte
  <2>4. ip' = ip + 1 /\ UNCHANGED <<master, irqs, start>>
    BY <2>1, <2>3, OnwardTo
  <2>5. /\ reg'["a"] = 0 /\ reg'["b"] = reg["b"] /\ reg'["c"] = reg["c"] /\ reg'["d"] = reg["d"]
        /\ reg'["e"] = reg["e"] /\ reg'["h"] = reg["h"] /\ reg'["l"] = reg["l"]
    BY <2>3, <1>t DEF Reg8
  <2>6. mem' = mem
    BY ONLY <2>3
  <2>7. /\ sp' = 14 /\ mem'[0] = 14 /\ mem'[1] = 0 /\ reg'["h"] = 0
        /\ reg'["l"] = 16 /\ reg'["b"] = 0 /\ reg'["c"] = 2 /\ reg'["d"] = 0
        /\ reg'["e"] = 3 /\ mem'[2] = start.reg["a"]
    BY ONLY <2>2, <2>3, <2>5, <2>6
  <2>8. start.ip = 256 /\ Called(257, mem') /\ mem'[65408] = mem[65408]
    BY ONLY <1>c, <2>6 DEF Called
  <2>9. CopyInv(start, 10, reg', f', sp', mem')
    BY ONLY <2>7, <2>8 DEF CopyInv
  <2> QED BY <2>1, <2>3, <2>4, <2>8, <2>9, CopyRuns DEF Carried
<1>10. CASE j = 10
  <2>1. I.op = "LDA_" /\ I.by = "bc" /\ I.n = 0 /\ ip = 353
    BY <1>10, CopyIs DEF I, Mem
  <2>2. /\ sp = 14 /\ mem[0] = 14 /\ mem[1] = 0 /\ reg["h"] = 0
        /\ reg["l"] = 16 /\ reg["b"] = 0 /\ reg["c"] = 2 /\ reg["d"] = 0
        /\ reg["e"] = 3 /\ mem[2] = start.reg["a"]
    BY <1>10 DEF CopyInv
  <2>3. Onward /\ UNCHANGED <<f, sp, mem>> /\ MachineTyped' /\ reg' = [reg EXCEPT !["a"] = mem[2]]
    <3>1. Address = 2
      <4>1. Address = Pair("bc")
        BY <2>1 DEF Address
      <4>2. Pair("bc") = 2
        BY <2>2, Pairs DEF Pair
      <4> QED BY <4>1, <4>2
    <3> QED BY <2>1, <3>1, <1>m, DoesLoadA
  <2>4. ip' = ip + 1 /\ UNCHANGED <<master, irqs, start>>
    BY <2>1, <2>3, OnwardTo
  <2>5. /\ reg'["a"] = mem[2] /\ reg'["b"] = reg["b"] /\ reg'["c"] = reg["c"] /\ reg'["d"] = reg["d"]
        /\ reg'["e"] = reg["e"] /\ reg'["h"] = reg["h"] /\ reg'["l"] = reg["l"]
    BY <2>3, <1>t DEF Reg8
  <2>6. mem' = mem
    BY ONLY <2>3
  <2>7. /\ sp' = 14 /\ reg'["a"] = start.reg["a"] /\ mem'[0] = 14 /\ mem'[1] = 0
        /\ reg'["h"] = 0 /\ reg'["l"] = 16 /\ reg'["b"] = 0 /\ reg'["c"] = 2
        /\ reg'["d"] = 0 /\ reg'["e"] = 3 /\ mem'[2] = start.reg["a"]
    BY ONLY <2>2, <2>3, <2>5, <2>6
  <2>8. start.ip = 256 /\ Called(257, mem') /\ mem'[65408] = mem[65408]
    BY ONLY <1>c, <2>6 DEF Called
  <2>9. CopyInv(start, 11, reg', f', sp', mem')
    BY ONLY <2>7, <2>8 DEF CopyInv
  <2> QED BY <2>1, <2>3, <2>4, <2>8, <2>9, CopyRuns DEF Carried
<1>11. CASE j = 11
  <2>1. I.op = "LD_A" /\ I.by = "de" /\ I.n = 0 /\ ip = 354
    BY <1>11, CopyIs DEF I, Mem
  <2>2. /\ sp = 14 /\ reg["a"] = start.reg["a"] /\ mem[0] = 14 /\ mem[1] = 0
        /\ reg["h"] = 0 /\ reg["l"] = 16 /\ reg["b"] = 0 /\ reg["c"] = 2
        /\ reg["d"] = 0 /\ reg["e"] = 3 /\ mem[2] = start.reg["a"]
    BY <1>11 DEF CopyInv
  <2>3. Onward /\ mem' = [mem EXCEPT ![3] = reg["a"]] /\ UNCHANGED <<reg, f, sp>> /\ MachineTyped'
    <3>1. Address = 3
      <4>1. Address = Pair("de")
        BY <2>1 DEF Address
      <4>2. Pair("de") = 3
        BY <2>2, Pairs DEF Pair
      <4> QED BY <4>1, <4>2
    <3> QED BY <2>1, <3>1, <1>m, DoesStoreA
  <2>4. ip' = ip + 1 /\ UNCHANGED <<master, irqs, start>>
    BY <2>1, <2>3, OnwardTo
  <2>5. /\ reg'["a"] = reg["a"] /\ reg'["b"] = reg["b"] /\ reg'["c"] = reg["c"] /\ reg'["d"] = reg["d"]
        /\ reg'["e"] = reg["e"] /\ reg'["h"] = reg["h"] /\ reg'["l"] = reg["l"]
    BY <2>3, <1>t DEF Reg8
  <2>6. /\ mem'[0] = mem[0] /\ mem'[1] = mem[1] /\ mem'[2] = mem[2] /\ mem'[3] = reg["a"]
        /\ mem'[4] = mem[4] /\ mem'[12] = mem[12] /\ mem'[13] = mem[13] /\ mem'[14] = mem[14]
        /\ mem'[15] = mem[15] /\ mem'[65408] = mem[65408] /\ mem'[65409] = mem[65409] /\ mem'[65410] = mem[65410]
    BY ONLY <2>3, <1>t, <1>m
  <2>7. /\ sp' = 14 /\ reg'["a"] = start.reg["a"] /\ mem'[0] = 14 /\ mem'[1] = 0
        /\ reg'["h"] = 0 /\ reg'["l"] = 16 /\ reg'["b"] = 0 /\ reg'["c"] = 2
        /\ reg'["d"] = 0 /\ reg'["e"] = 3 /\ mem'[2] = start.reg["a"] /\ mem'[3] = start.reg["a"]
    BY ONLY <2>2, <2>3, <2>5, <2>6
  <2>8. start.ip = 256 /\ Called(257, mem') /\ mem'[65408] = mem[65408]
    BY ONLY <1>c, <2>6 DEF Called
  <2>9. CopyInv(start, 12, reg', f', sp', mem')
    BY ONLY <2>7, <2>8 DEF CopyInv
  <2> QED BY <2>1, <2>3, <2>4, <2>8, <2>9, CopyRuns DEF Carried
<1>12. CASE j = 12
  <2>1. I.dst = "a" /\ I.n = 0 /\ I.op = "LD" /\ I.src = "d8" /\ ip = 355
    BY <1>12, CopyIs DEF I, LdN
  <2>2. /\ sp = 14 /\ reg["a"] = start.reg["a"] /\ mem[0] = 14 /\ mem[1] = 0
        /\ reg["h"] = 0 /\ reg["l"] = 16 /\ reg["b"] = 0 /\ reg["c"] = 2
        /\ reg["d"] = 0 /\ reg["e"] = 3 /\ mem[2] = start.reg["a"] /\ mem[3] = start.reg["a"]
    BY <1>12 DEF CopyInv
  <2>3. Onward /\ UNCHANGED <<f, sp, mem>> /\ MachineTyped' /\ reg' = [reg EXCEPT !["a"] = 0]
    BY <2>1, DoesLdN DEF Reg8, Byte
  <2>4. ip' = ip + 1 /\ UNCHANGED <<master, irqs, start>>
    BY <2>1, <2>3, OnwardTo
  <2>5. /\ reg'["a"] = 0 /\ reg'["b"] = reg["b"] /\ reg'["c"] = reg["c"] /\ reg'["d"] = reg["d"]
        /\ reg'["e"] = reg["e"] /\ reg'["h"] = reg["h"] /\ reg'["l"] = reg["l"]
    BY <2>3, <1>t DEF Reg8
  <2>6. mem' = mem
    BY ONLY <2>3
  <2>7. /\ sp' = 14 /\ mem'[0] = 14 /\ mem'[1] = 0 /\ reg'["h"] = 0
        /\ reg'["l"] = 16 /\ reg'["b"] = 0 /\ reg'["c"] = 2 /\ reg'["d"] = 0
        /\ reg'["e"] = 3 /\ mem'[2] = start.reg["a"] /\ mem'[3] = start.reg["a"]
    BY ONLY <2>2, <2>3, <2>5, <2>6
  <2>8. start.ip = 256 /\ Called(257, mem') /\ mem'[65408] = mem[65408]
    BY ONLY <1>c, <2>6 DEF Called
  <2>9. CopyInv(start, 13, reg', f', sp', mem')
    BY ONLY <2>7, <2>8 DEF CopyInv
  <2> QED BY <2>1, <2>3, <2>4, <2>8, <2>9, CopyRuns DEF Carried
<1>13. CASE j = 13
  <2>1. I.op = "LDA_" /\ I.by = "de" /\ I.n = 0 /\ ip = 356
    BY <1>13, CopyIs DEF I, Mem
  <2>2. /\ sp = 14 /\ mem[0] = 14 /\ mem[1] = 0 /\ reg["h"] = 0
        /\ reg["l"] = 16 /\ reg["b"] = 0 /\ reg["c"] = 2 /\ reg["d"] = 0
        /\ reg["e"] = 3 /\ mem[2] = start.reg["a"] /\ mem[3] = start.reg["a"]
    BY <1>13 DEF CopyInv
  <2>3. Onward /\ UNCHANGED <<f, sp, mem>> /\ MachineTyped' /\ reg' = [reg EXCEPT !["a"] = mem[3]]
    <3>1. Address = 3
      <4>1. Address = Pair("de")
        BY <2>1 DEF Address
      <4>2. Pair("de") = 3
        BY <2>2, Pairs DEF Pair
      <4> QED BY <4>1, <4>2
    <3> QED BY <2>1, <3>1, <1>m, DoesLoadA
  <2>4. ip' = ip + 1 /\ UNCHANGED <<master, irqs, start>>
    BY <2>1, <2>3, OnwardTo
  <2>5. /\ reg'["a"] = mem[3] /\ reg'["b"] = reg["b"] /\ reg'["c"] = reg["c"] /\ reg'["d"] = reg["d"]
        /\ reg'["e"] = reg["e"] /\ reg'["h"] = reg["h"] /\ reg'["l"] = reg["l"]
    BY <2>3, <1>t DEF Reg8
  <2>6. mem' = mem
    BY ONLY <2>3
  <2>7. /\ sp' = 14 /\ reg'["a"] = start.reg["a"] /\ mem'[0] = 14 /\ mem'[1] = 0
        /\ reg'["h"] = 0 /\ reg'["l"] = 16 /\ reg'["b"] = 0 /\ reg'["c"] = 2
        /\ reg'["d"] = 0 /\ reg'["e"] = 3 /\ mem'[2] = start.reg["a"] /\ mem'[3] = start.reg["a"]
    BY ONLY <2>2, <2>3, <2>5, <2>6
  <2>8. start.ip = 256 /\ Called(257, mem') /\ mem'[65408] = mem[65408]
    BY ONLY <1>c, <2>6 DEF Called
  <2>9. CopyInv(start, 14, reg', f', sp', mem')
    BY ONLY <2>7, <2>8 DEF CopyInv
  <2> QED BY <2>1, <2>3, <2>4, <2>8, <2>9, CopyRuns DEF Carried
<1>14. CASE j = 14
  <2>1. I.op = "LD_A" /\ I.by = "a16" /\ I.n = 4 /\ ip = 357
    BY <1>14, CopyIs DEF I, Mem
  <2>2. /\ sp = 14 /\ reg["a"] = start.reg["a"] /\ mem[0] = 14 /\ mem[1] = 0
        /\ reg["h"] = 0 /\ reg["l"] = 16 /\ reg["b"] = 0 /\ reg["c"] = 2
        /\ reg["d"] = 0 /\ reg["e"] = 3 /\ mem[2] = start.reg["a"] /\ mem[3] = start.reg["a"]
    BY <1>14 DEF CopyInv
  <2>3. Onward /\ mem' = [mem EXCEPT ![4] = reg["a"]] /\ UNCHANGED <<reg, f, sp>> /\ MachineTyped'
    <3>1. Address = 4
      BY <2>1, <2>2 DEF Address
    <3> QED BY <2>1, <3>1, <1>m, DoesStoreA
  <2>4. ip' = ip + 1 /\ UNCHANGED <<master, irqs, start>>
    BY <2>1, <2>3, OnwardTo
  <2>5. /\ reg'["a"] = reg["a"] /\ reg'["b"] = reg["b"] /\ reg'["c"] = reg["c"] /\ reg'["d"] = reg["d"]
        /\ reg'["e"] = reg["e"] /\ reg'["h"] = reg["h"] /\ reg'["l"] = reg["l"]
    BY <2>3, <1>t DEF Reg8
  <2>6. /\ mem'[0] = mem[0] /\ mem'[1] = mem[1] /\ mem'[2] = mem[2] /\ mem'[3] = mem[3]
        /\ mem'[4] = reg["a"] /\ mem'[12] = mem[12] /\ mem'[13] = mem[13] /\ mem'[14] = mem[14]
        /\ mem'[15] = mem[15] /\ mem'[65408] = mem[65408] /\ mem'[65409] = mem[65409] /\ mem'[65410] = mem[65410]
    BY ONLY <2>3, <1>t, <1>m
  <2>7. /\ sp' = 14 /\ reg'["a"] = start.reg["a"] /\ mem'[0] = 14 /\ mem'[1] = 0
        /\ reg'["h"] = 0 /\ reg'["l"] = 16 /\ reg'["b"] = 0 /\ reg'["c"] = 2
        /\ reg'["d"] = 0 /\ reg'["e"] = 3 /\ mem'[2] = start.reg["a"] /\ mem'[3] = start.reg["a"]
        /\ mem'[4] = start.reg["a"]
    BY ONLY <2>2, <2>3, <2>5, <2>6
  <2>8. start.ip = 256 /\ Called(257, mem') /\ mem'[65408] = mem[65408]
    BY ONLY <1>c, <2>6 DEF Called
  <2>9. CopyInv(start, 15, reg', f', sp', mem')
    BY ONLY <2>7, <2>8 DEF CopyInv
  <2> QED BY <2>1, <2>3, <2>4, <2>8, <2>9, CopyRuns DEF Carried
<1>15. CASE j = 15
  <2>1. I.dst = "a" /\ I.n = 0 /\ I.op = "LD" /\ I.src = "d8" /\ ip = 358
    BY <1>15, CopyIs DEF I, LdN
  <2>2. /\ sp = 14 /\ reg["a"] = start.reg["a"] /\ mem[0] = 14 /\ mem[1] = 0
        /\ reg["h"] = 0 /\ reg["l"] = 16 /\ reg["b"] = 0 /\ reg["c"] = 2
        /\ reg["d"] = 0 /\ reg["e"] = 3 /\ mem[2] = start.reg["a"] /\ mem[3] = start.reg["a"]
        /\ mem[4] = start.reg["a"]
    BY <1>15 DEF CopyInv
  <2>3. Onward /\ UNCHANGED <<f, sp, mem>> /\ MachineTyped' /\ reg' = [reg EXCEPT !["a"] = 0]
    BY <2>1, DoesLdN DEF Reg8, Byte
  <2>4. ip' = ip + 1 /\ UNCHANGED <<master, irqs, start>>
    BY <2>1, <2>3, OnwardTo
  <2>5. /\ reg'["a"] = 0 /\ reg'["b"] = reg["b"] /\ reg'["c"] = reg["c"] /\ reg'["d"] = reg["d"]
        /\ reg'["e"] = reg["e"] /\ reg'["h"] = reg["h"] /\ reg'["l"] = reg["l"]
    BY <2>3, <1>t DEF Reg8
  <2>6. mem' = mem
    BY ONLY <2>3
  <2>7. /\ sp' = 14 /\ mem'[0] = 14 /\ mem'[1] = 0 /\ reg'["h"] = 0
        /\ reg'["l"] = 16 /\ reg'["b"] = 0 /\ reg'["c"] = 2 /\ reg'["d"] = 0
        /\ reg'["e"] = 3 /\ mem'[2] = start.reg["a"] /\ mem'[3] = start.reg["a"] /\ mem'[4] = start.reg["a"]
    BY ONLY <2>2, <2>3, <2>5, <2>6
  <2>8. start.ip = 256 /\ Called(257, mem') /\ mem'[65408] = mem[65408]
    BY ONLY <1>c, <2>6 DEF Called
  <2>9. CopyInv(start, 16, reg', f', sp', mem')
    BY ONLY <2>7, <2>8 DEF CopyInv
  <2> QED BY <2>1, <2>3, <2>4, <2>8, <2>9, CopyRuns DEF Carried
<1>16. CASE j = 16
  <2>1. I.op = "LDA_" /\ I.by = "a16" /\ I.n = 4 /\ ip = 359
    BY <1>16, CopyIs DEF I, Mem
  <2>2. /\ sp = 14 /\ mem[0] = 14 /\ mem[1] = 0 /\ reg["h"] = 0
        /\ reg["l"] = 16 /\ reg["b"] = 0 /\ reg["c"] = 2 /\ reg["d"] = 0
        /\ reg["e"] = 3 /\ mem[2] = start.reg["a"] /\ mem[3] = start.reg["a"] /\ mem[4] = start.reg["a"]
    BY <1>16 DEF CopyInv
  <2>3. Onward /\ UNCHANGED <<f, sp, mem>> /\ MachineTyped' /\ reg' = [reg EXCEPT !["a"] = mem[4]]
    <3>1. Address = 4
      BY <2>1, <2>2 DEF Address
    <3> QED BY <2>1, <3>1, <1>m, DoesLoadA
  <2>4. ip' = ip + 1 /\ UNCHANGED <<master, irqs, start>>
    BY <2>1, <2>3, OnwardTo
  <2>5. /\ reg'["a"] = mem[4] /\ reg'["b"] = reg["b"] /\ reg'["c"] = reg["c"] /\ reg'["d"] = reg["d"]
        /\ reg'["e"] = reg["e"] /\ reg'["h"] = reg["h"] /\ reg'["l"] = reg["l"]
    BY <2>3, <1>t DEF Reg8
  <2>6. mem' = mem
    BY ONLY <2>3
  <2>7. /\ sp' = 14 /\ reg'["a"] = start.reg["a"] /\ mem'[0] = 14 /\ mem'[1] = 0
        /\ reg'["h"] = 0 /\ reg'["l"] = 16 /\ reg'["b"] = 0 /\ reg'["c"] = 2
        /\ reg'["d"] = 0 /\ reg'["e"] = 3 /\ mem'[2] = start.reg["a"] /\ mem'[3] = start.reg["a"]
        /\ mem'[4] = start.reg["a"]
    BY ONLY <2>2, <2>3, <2>5, <2>6
  <2>8. start.ip = 256 /\ Called(257, mem') /\ mem'[65408] = mem[65408]
    BY ONLY <1>c, <2>6 DEF Called
  <2>9. CopyInv(start, 17, reg', f', sp', mem')
    BY ONLY <2>7, <2>8 DEF CopyInv
  <2> QED BY <2>1, <2>3, <2>4, <2>8, <2>9, CopyRuns DEF Carried
<1>17. CASE j = 17
  <2>1. I.dst = "c" /\ I.n = 129 /\ I.op = "LD" /\ I.src = "d8" /\ ip = 360
    BY <1>17, CopyIs DEF I, LdN
  <2>2. /\ sp = 14 /\ reg["a"] = start.reg["a"] /\ mem[0] = 14 /\ mem[1] = 0
        /\ reg["h"] = 0 /\ reg["l"] = 16 /\ reg["b"] = 0 /\ reg["c"] = 2
        /\ reg["d"] = 0 /\ reg["e"] = 3 /\ mem[2] = start.reg["a"] /\ mem[3] = start.reg["a"]
        /\ mem[4] = start.reg["a"]
    BY <1>17 DEF CopyInv
  <2>3. Onward /\ UNCHANGED <<f, sp, mem>> /\ MachineTyped' /\ reg' = [reg EXCEPT !["c"] = 129]
    BY <2>1, DoesLdN DEF Reg8, Byte
  <2>4. ip' = ip + 1 /\ UNCHANGED <<master, irqs, start>>
    BY <2>1, <2>3, OnwardTo
  <2>5. /\ reg'["a"] = reg["a"] /\ reg'["b"] = reg["b"] /\ reg'["c"] = 129 /\ reg'["d"] = reg["d"]
        /\ reg'["e"] = reg["e"] /\ reg'["h"] = reg["h"] /\ reg'["l"] = reg["l"]
    BY <2>3, <1>t DEF Reg8
  <2>6. mem' = mem
    BY ONLY <2>3
  <2>7. /\ sp' = 14 /\ reg'["a"] = start.reg["a"] /\ mem'[0] = 14 /\ mem'[1] = 0
        /\ reg'["h"] = 0 /\ reg'["l"] = 16 /\ reg'["d"] = 0 /\ reg'["e"] = 3
        /\ mem'[2] = start.reg["a"] /\ mem'[3] = start.reg["a"] /\ mem'[4] = start.reg["a"] /\ reg'["c"] = 129
    BY ONLY <2>2, <2>3, <2>5, <2>6
  <2>8. start.ip = 256 /\ Called(257, mem') /\ mem'[65408] = mem[65408]
    BY ONLY <1>c, <2>6 DEF Called
  <2>9. CopyInv(start, 18, reg', f', sp', mem')
    BY ONLY <2>7, <2>8 DEF CopyInv
  <2> QED BY <2>1, <2>3, <2>4, <2>8, <2>9, CopyRuns DEF Carried
<1>18. CASE j = 18
  <2>1. I.op = "LD_A" /\ I.by = "c" /\ I.n = 0 /\ ip = 361
    BY <1>18, CopyIs DEF I, Mem
  <2>2. /\ sp = 14 /\ reg["a"] = start.reg["a"] /\ mem[0] = 14 /\ mem[1] = 0
        /\ reg["h"] = 0 /\ reg["l"] = 16 /\ reg["d"] = 0 /\ reg["e"] = 3
        /\ mem[2] = start.reg["a"] /\ mem[3] = start.reg["a"] /\ mem[4] = start.reg["a"] /\ reg["c"] = 129
    BY <1>18 DEF CopyInv
  <2>3. Onward /\ mem' = [mem EXCEPT ![65409] = reg["a"]] /\ UNCHANGED <<reg, f, sp>> /\ MachineTyped'
    <3>1. Address = 65409
      BY <2>1, <2>2 DEF Address
    <3> QED BY <2>1, <3>1, <1>m, DoesStoreA
  <2>4. ip' = ip + 1 /\ UNCHANGED <<master, irqs, start>>
    BY <2>1, <2>3, OnwardTo
  <2>5. /\ reg'["a"] = reg["a"] /\ reg'["b"] = reg["b"] /\ reg'["c"] = reg["c"] /\ reg'["d"] = reg["d"]
        /\ reg'["e"] = reg["e"] /\ reg'["h"] = reg["h"] /\ reg'["l"] = reg["l"]
    BY <2>3, <1>t DEF Reg8
  <2>6. /\ mem'[0] = mem[0] /\ mem'[1] = mem[1] /\ mem'[2] = mem[2] /\ mem'[3] = mem[3]
        /\ mem'[4] = mem[4] /\ mem'[12] = mem[12] /\ mem'[13] = mem[13] /\ mem'[14] = mem[14]
        /\ mem'[15] = mem[15] /\ mem'[65408] = mem[65408] /\ mem'[65409] = reg["a"] /\ mem'[65410] = mem[65410]
    BY ONLY <2>3, <1>t, <1>m
  <2>7. /\ sp' = 14 /\ reg'["a"] = start.reg["a"] /\ mem'[0] = 14 /\ mem'[1] = 0
        /\ reg'["h"] = 0 /\ reg'["l"] = 16 /\ reg'["d"] = 0 /\ reg'["e"] = 3
        /\ mem'[2] = start.reg["a"] /\ mem'[3] = start.reg["a"] /\ mem'[4] = start.reg["a"] /\ reg'["c"] = 129
        /\ mem'[65409] = start.reg["a"]
    BY ONLY <2>2, <2>3, <2>5, <2>6
  <2>8. start.ip = 256 /\ Called(257, mem') /\ mem'[65408] = mem[65408]
    BY ONLY <1>c, <2>6 DEF Called
  <2>9. CopyInv(start, 19, reg', f', sp', mem')
    BY ONLY <2>7, <2>8 DEF CopyInv
  <2> QED BY <2>1, <2>3, <2>4, <2>8, <2>9, CopyRuns DEF Carried
<1>19. CASE j = 19
  <2>1. I.dst = "a" /\ I.n = 0 /\ I.op = "LD" /\ I.src = "d8" /\ ip = 362
    BY <1>19, CopyIs DEF I, LdN
  <2>2. /\ sp = 14 /\ reg["a"] = start.reg["a"] /\ mem[0] = 14 /\ mem[1] = 0
        /\ reg["h"] = 0 /\ reg["l"] = 16 /\ reg["d"] = 0 /\ reg["e"] = 3
        /\ mem[2] = start.reg["a"] /\ mem[3] = start.reg["a"] /\ mem[4] = start.reg["a"] /\ reg["c"] = 129
        /\ mem[65409] = start.reg["a"]
    BY <1>19 DEF CopyInv
  <2>3. Onward /\ UNCHANGED <<f, sp, mem>> /\ MachineTyped' /\ reg' = [reg EXCEPT !["a"] = 0]
    BY <2>1, DoesLdN DEF Reg8, Byte
  <2>4. ip' = ip + 1 /\ UNCHANGED <<master, irqs, start>>
    BY <2>1, <2>3, OnwardTo
  <2>5. /\ reg'["a"] = 0 /\ reg'["b"] = reg["b"] /\ reg'["c"] = reg["c"] /\ reg'["d"] = reg["d"]
        /\ reg'["e"] = reg["e"] /\ reg'["h"] = reg["h"] /\ reg'["l"] = reg["l"]
    BY <2>3, <1>t DEF Reg8
  <2>6. mem' = mem
    BY ONLY <2>3
  <2>7. /\ sp' = 14 /\ mem'[0] = 14 /\ mem'[1] = 0 /\ reg'["h"] = 0
        /\ reg'["l"] = 16 /\ reg'["d"] = 0 /\ reg'["e"] = 3 /\ mem'[2] = start.reg["a"]
        /\ mem'[3] = start.reg["a"] /\ mem'[4] = start.reg["a"] /\ reg'["c"] = 129 /\ mem'[65409] = start.reg["a"]
    BY ONLY <2>2, <2>3, <2>5, <2>6
  <2>8. start.ip = 256 /\ Called(257, mem') /\ mem'[65408] = mem[65408]
    BY ONLY <1>c, <2>6 DEF Called
  <2>9. CopyInv(start, 20, reg', f', sp', mem')
    BY ONLY <2>7, <2>8 DEF CopyInv
  <2> QED BY <2>1, <2>3, <2>4, <2>8, <2>9, CopyRuns DEF Carried
<1>20. CASE j = 20
  <2>1. I.op = "LDA_" /\ I.by = "a8" /\ I.n = 129 /\ ip = 363
    BY <1>20, CopyIs DEF I, Mem
  <2>2. /\ sp = 14 /\ mem[0] = 14 /\ mem[1] = 0 /\ reg["h"] = 0
        /\ reg["l"] = 16 /\ reg["d"] = 0 /\ reg["e"] = 3 /\ mem[2] = start.reg["a"]
        /\ mem[3] = start.reg["a"] /\ mem[4] = start.reg["a"] /\ reg["c"] = 129 /\ mem[65409] = start.reg["a"]
    BY <1>20 DEF CopyInv
  <2>3. Onward /\ UNCHANGED <<f, sp, mem>> /\ MachineTyped' /\ reg' = [reg EXCEPT !["a"] = mem[65409]]
    <3>1. Address = 65409
      BY <2>1, <2>2 DEF Address
    <3> QED BY <2>1, <3>1, <1>m, DoesLoadA
  <2>4. ip' = ip + 1 /\ UNCHANGED <<master, irqs, start>>
    BY <2>1, <2>3, OnwardTo
  <2>5. /\ reg'["a"] = mem[65409] /\ reg'["b"] = reg["b"] /\ reg'["c"] = reg["c"] /\ reg'["d"] = reg["d"]
        /\ reg'["e"] = reg["e"] /\ reg'["h"] = reg["h"] /\ reg'["l"] = reg["l"]
    BY <2>3, <1>t DEF Reg8
  <2>6. mem' = mem
    BY ONLY <2>3
  <2>7. /\ sp' = 14 /\ reg'["a"] = start.reg["a"] /\ mem'[0] = 14 /\ mem'[1] = 0
        /\ reg'["h"] = 0 /\ reg'["l"] = 16 /\ reg'["d"] = 0 /\ reg'["e"] = 3
        /\ mem'[2] = start.reg["a"] /\ mem'[3] = start.reg["a"] /\ mem'[4] = start.reg["a"] /\ reg'["c"] = 129
        /\ mem'[65409] = start.reg["a"]
    BY ONLY <2>2, <2>3, <2>5, <2>6
  <2>8. start.ip = 256 /\ Called(257, mem') /\ mem'[65408] = mem[65408]
    BY ONLY <1>c, <2>6 DEF Called
  <2>9. CopyInv(start, 21, reg', f', sp', mem')
    BY ONLY <2>7, <2>8 DEF CopyInv
  <2> QED BY <2>1, <2>3, <2>4, <2>8, <2>9, CopyRuns DEF Carried
<1>21. CASE j = 21
  <2>1. I.op = "LD_A" /\ I.by = "a8" /\ I.n = 130 /\ ip = 364
    BY <1>21, CopyIs DEF I, Mem
  <2>2. /\ sp = 14 /\ reg["a"] = start.reg["a"] /\ mem[0] = 14 /\ mem[1] = 0
        /\ reg["h"] = 0 /\ reg["l"] = 16 /\ reg["d"] = 0 /\ reg["e"] = 3
        /\ mem[2] = start.reg["a"] /\ mem[3] = start.reg["a"] /\ mem[4] = start.reg["a"] /\ reg["c"] = 129
        /\ mem[65409] = start.reg["a"]
    BY <1>21 DEF CopyInv
  <2>3. Onward /\ mem' = [mem EXCEPT ![65410] = reg["a"]] /\ UNCHANGED <<reg, f, sp>> /\ MachineTyped'
    <3>1. Address = 65410
      BY <2>1, <2>2 DEF Address
    <3> QED BY <2>1, <3>1, <1>m, DoesStoreA
  <2>4. ip' = ip + 1 /\ UNCHANGED <<master, irqs, start>>
    BY <2>1, <2>3, OnwardTo
  <2>5. /\ reg'["a"] = reg["a"] /\ reg'["b"] = reg["b"] /\ reg'["c"] = reg["c"] /\ reg'["d"] = reg["d"]
        /\ reg'["e"] = reg["e"] /\ reg'["h"] = reg["h"] /\ reg'["l"] = reg["l"]
    BY <2>3, <1>t DEF Reg8
  <2>6. /\ mem'[0] = mem[0] /\ mem'[1] = mem[1] /\ mem'[2] = mem[2] /\ mem'[3] = mem[3]
        /\ mem'[4] = mem[4] /\ mem'[12] = mem[12] /\ mem'[13] = mem[13] /\ mem'[14] = mem[14]
        /\ mem'[15] = mem[15] /\ mem'[65408] = mem[65408] /\ mem'[65409] = mem[65409] /\ mem'[65410] = reg["a"]
    BY ONLY <2>3, <1>t, <1>m
  <2>7. /\ sp' = 14 /\ reg'["a"] = start.reg["a"] /\ mem'[0] = 14 /\ mem'[1] = 0
        /\ reg'["h"] = 0 /\ reg'["l"] = 16 /\ reg'["d"] = 0 /\ reg'["e"] = 3
        /\ mem'[2] = start.reg["a"] /\ mem'[3] = start.reg["a"] /\ mem'[4] = start.reg["a"] /\ reg'["c"] = 129
        /\ mem'[65409] = start.reg["a"] /\ mem'[65410] = start.reg["a"]
    BY ONLY <2>2, <2>3, <2>5, <2>6
  <2>8. start.ip = 256 /\ Called(257, mem') /\ mem'[65408] = mem[65408]
    BY ONLY <1>c, <2>6 DEF Called
  <2>9. CopyInv(start, 22, reg', f', sp', mem')
    BY ONLY <2>7, <2>8 DEF CopyInv
  <2> QED BY <2>1, <2>3, <2>4, <2>8, <2>9, CopyRuns DEF Carried
<1>22. CASE j = 22
  <2>1. I.dst = "a" /\ I.n = 0 /\ I.op = "LD" /\ I.src = "d8" /\ ip = 365
    BY <1>22, CopyIs DEF I, LdN
  <2>2. /\ sp = 14 /\ reg["a"] = start.reg["a"] /\ mem[0] = 14 /\ mem[1] = 0
        /\ reg["h"] = 0 /\ reg["l"] = 16 /\ reg["d"] = 0 /\ reg["e"] = 3
        /\ mem[2] = start.reg["a"] /\ mem[3] = start.reg["a"] /\ mem[4] = start.reg["a"] /\ reg["c"] = 129
        /\ mem[65409] = start.reg["a"] /\ mem[65410] = start.reg["a"]
    BY <1>22 DEF CopyInv
  <2>3. Onward /\ UNCHANGED <<f, sp, mem>> /\ MachineTyped' /\ reg' = [reg EXCEPT !["a"] = 0]
    BY <2>1, DoesLdN DEF Reg8, Byte
  <2>4. ip' = ip + 1 /\ UNCHANGED <<master, irqs, start>>
    BY <2>1, <2>3, OnwardTo
  <2>5. /\ reg'["a"] = 0 /\ reg'["b"] = reg["b"] /\ reg'["c"] = reg["c"] /\ reg'["d"] = reg["d"]
        /\ reg'["e"] = reg["e"] /\ reg'["h"] = reg["h"] /\ reg'["l"] = reg["l"]
    BY <2>3, <1>t DEF Reg8
  <2>6. mem' = mem
    BY ONLY <2>3
  <2>7. /\ sp' = 14 /\ mem'[0] = 14 /\ mem'[1] = 0 /\ reg'["h"] = 0
        /\ reg'["l"] = 16 /\ reg'["d"] = 0 /\ reg'["e"] = 3 /\ mem'[2] = start.reg["a"]
        /\ mem'[3] = start.reg["a"] /\ mem'[4] = start.reg["a"] /\ reg'["c"] = 129 /\ mem'[65409] = start.reg["a"]
        /\ mem'[65410] = start.reg["a"]
    BY ONLY <2>2, <2>3, <2>5, <2>6
  <2>8. start.ip = 256 /\ Called(257, mem') /\ mem'[65408] = mem[65408]
    BY ONLY <1>c, <2>6 DEF Called
  <2>9. CopyInv(start, 23, reg', f', sp', mem')
    BY ONLY <2>7, <2>8 DEF CopyInv
  <2> QED BY <2>1, <2>3, <2>4, <2>8, <2>9, CopyRuns DEF Carried
<1>23. CASE j = 23
  <2>1. I.dst = "c" /\ I.n = 130 /\ I.op = "LD" /\ I.src = "d8" /\ ip = 366
    BY <1>23, CopyIs DEF I, LdN
  <2>2. /\ sp = 14 /\ mem[0] = 14 /\ mem[1] = 0 /\ reg["h"] = 0
        /\ reg["l"] = 16 /\ reg["d"] = 0 /\ reg["e"] = 3 /\ mem[2] = start.reg["a"]
        /\ mem[3] = start.reg["a"] /\ mem[4] = start.reg["a"] /\ reg["c"] = 129 /\ mem[65409] = start.reg["a"]
        /\ mem[65410] = start.reg["a"]
    BY <1>23 DEF CopyInv
  <2>3. Onward /\ UNCHANGED <<f, sp, mem>> /\ MachineTyped' /\ reg' = [reg EXCEPT !["c"] = 130]
    BY <2>1, DoesLdN DEF Reg8, Byte
  <2>4. ip' = ip + 1 /\ UNCHANGED <<master, irqs, start>>
    BY <2>1, <2>3, OnwardTo
  <2>5. /\ reg'["a"] = reg["a"] /\ reg'["b"] = reg["b"] /\ reg'["c"] = 130 /\ reg'["d"] = reg["d"]
        /\ reg'["e"] = reg["e"] /\ reg'["h"] = reg["h"] /\ reg'["l"] = reg["l"]
    BY <2>3, <1>t DEF Reg8
  <2>6. mem' = mem
    BY ONLY <2>3
  <2>7. /\ sp' = 14 /\ mem'[0] = 14 /\ mem'[1] = 0 /\ reg'["h"] = 0
        /\ reg'["l"] = 16 /\ reg'["d"] = 0 /\ reg'["e"] = 3 /\ mem'[2] = start.reg["a"]
        /\ mem'[3] = start.reg["a"] /\ mem'[4] = start.reg["a"] /\ mem'[65409] = start.reg["a"] /\ mem'[65410] = start.reg["a"]
        /\ reg'["c"] = 130
    BY ONLY <2>2, <2>3, <2>5, <2>6
  <2>8. start.ip = 256 /\ Called(257, mem') /\ mem'[65408] = mem[65408]
    BY ONLY <1>c, <2>6 DEF Called
  <2>9. CopyInv(start, 24, reg', f', sp', mem')
    BY ONLY <2>7, <2>8 DEF CopyInv
  <2> QED BY <2>1, <2>3, <2>4, <2>8, <2>9, CopyRuns DEF Carried
<1>24. CASE j = 24
  <2>1. I.op = "LDA_" /\ I.by = "c" /\ I.n = 0 /\ ip = 367
    BY <1>24, CopyIs DEF I, Mem
  <2>2. /\ sp = 14 /\ mem[0] = 14 /\ mem[1] = 0 /\ reg["h"] = 0
        /\ reg["l"] = 16 /\ reg["d"] = 0 /\ reg["e"] = 3 /\ mem[2] = start.reg["a"]
        /\ mem[3] = start.reg["a"] /\ mem[4] = start.reg["a"] /\ mem[65409] = start.reg["a"] /\ mem[65410] = start.reg["a"]
        /\ reg["c"] = 130
    BY <1>24 DEF CopyInv
  <2>3. Onward /\ UNCHANGED <<f, sp, mem>> /\ MachineTyped' /\ reg' = [reg EXCEPT !["a"] = mem[65410]]
    <3>1. Address = 65410
      BY <2>1, <2>2 DEF Address
    <3> QED BY <2>1, <3>1, <1>m, DoesLoadA
  <2>4. ip' = ip + 1 /\ UNCHANGED <<master, irqs, start>>
    BY <2>1, <2>3, OnwardTo
  <2>5. /\ reg'["a"] = mem[65410] /\ reg'["b"] = reg["b"] /\ reg'["c"] = reg["c"] /\ reg'["d"] = reg["d"]
        /\ reg'["e"] = reg["e"] /\ reg'["h"] = reg["h"] /\ reg'["l"] = reg["l"]
    BY <2>3, <1>t DEF Reg8
  <2>6. mem' = mem
    BY ONLY <2>3
  <2>7. /\ sp' = 14 /\ reg'["a"] = start.reg["a"] /\ mem'[0] = 14 /\ mem'[1] = 0
        /\ reg'["h"] = 0 /\ reg'["l"] = 16 /\ reg'["d"] = 0 /\ reg'["e"] = 3
        /\ mem'[2] = start.reg["a"] /\ mem'[3] = start.reg["a"] /\ mem'[4] = start.reg["a"] /\ mem'[65409] = start.reg["a"]
        /\ mem'[65410] = start.reg["a"]
    BY ONLY <2>2, <2>3, <2>5, <2>6
  <2>8. start.ip = 256 /\ Called(257, mem') /\ mem'[65408] = mem[65408]
    BY ONLY <1>c, <2>6 DEF Called
  <2>9. CopyInv(start, 25, reg', f', sp', mem')
    BY ONLY <2>7, <2>8 DEF CopyInv
  <2> QED BY <2>1, <2>3, <2>4, <2>8, <2>9, CopyRuns DEF Carried
<1>25. CASE j = 25
  <2>1. I.cc = "always" /\ I.op = "RET" /\ ip = 368
    BY <1>25, CopyIs DEF I, Ret
  <2>2. /\ sp = 14 /\ reg["a"] = start.reg["a"] /\ mem[0] = 14 /\ mem[1] = 0
        /\ reg["h"] = 0 /\ reg["l"] = 16 /\ mem[2] = start.reg["a"] /\ mem[3] = start.reg["a"] /\ mem[4] = start.reg["a"]
        /\ mem[65409] = start.reg["a"] /\ mem[65410] = start.reg["a"]
    BY <1>25 DEF CopyInv
  <2>3. HL = 16 /\ Top = 16 /\ mem[0] + 256 * mem[1] = Top - 2
    BY <2>2, HLIs, RoutineAssumption
  <2>5. \A p \in 2..4 \cup Count + 1..Count + 2 : mem[p] = start.reg["a"]
    BY ONLY <2>2 DEF Count
  <2>4. Correct(reg, start.reg)
    BY ONLY <2>2, <2>3, <2>5, <1>c DEF Correct, Base
  <2> QED BY <2>1, <2>2, <1>c, <2>4, Always, Returns
<1>x. j \in {1, 2, 3, 4, 5, 6, 7, 8, 9, 10, 11, 12, 13, 14, 15, 16, 17, 18, 19, 20, 21, 22, 23, 24, 25}
  OBVIOUS
<1> QED BY ONLY <1>x, <1>1, <1>2, <1>3, <1>4, <1>5, <1>6, <1>7, <1>8, <1>9, <1>10, <1>11, <1>12, <1>13, <1>14, <1>15, <1>16, <1>17, <1>18, <1>19, <1>20, <1>21, <1>22, <1>23, <1>24, <1>25

-----------------------------------------------------------------------------
(* Calls, and one instruction of the program                                *)

(* CALL: the program enters a routine. *)
LEMMA Enters ==
  ASSUME Instruction, MachineTyped, NEW n, ip \in 236..256, I.op = "CALL", I.cc = "always", I.n = n, sp = 16
  PROVE  /\ ip' = n /\ sp' = 14 /\ UNCHANGED <<reg, f>> /\ Called(ip + 1, mem') /\ Carried
         /\ \A x \in 0..13 : mem'[x] = mem[x]
<1>1. /\ Goes(n) /\ OnStack((ip + 1) \div 256, (ip + 1) % 256) /\ UNCHANGED <<reg, f>> /\ MachineTyped'
  BY Always, DoesCall
<1>2. sp - 1 = 15 /\ sp - 2 = 14
  OBVIOUS
<1>3. /\ sp' = 14 /\ mem'[15] = (ip + 1) \div 256 /\ mem'[14] = (ip + 1) % 256
      /\ \A x \in MCCells : x # 15 /\ x # 14 => mem'[x] = mem[x]
  BY <1>1, <1>2 DEF OnStack
<1>4. mem'[14] + 256 * mem'[15] = ip + 1
  BY <1>3
<1>5. mem'[65408] = mem[65408] /\ \A x \in 0..13 : mem'[x] = mem[x]
  BY ONLY <1>3, Cells16
<1> QED BY <1>1, <1>3, <1>4, <1>5 DEF Goes, Called, Carried

(* The calls, and the way through HL to the division *)
LEMMA CallStep ==
  ASSUME Instruction, MachineTyped, Callable(start), CallInv(start, ip, reg, f, sp, mem)
  PROVE  Carried /\ (Running(start, ip', reg', f', sp', mem') \/ Finished')
<1>0. /\ start.ip = 236 => start.reg["h"] = 0 /\ start.reg["l"] = 0
      /\ start.ip = 240 => start.reg["e"] \in 1..128
  BY DEF Callable, Base, Buffer
<1>1. CASE /\ ip = start.ip /\ sp = 16 /\ reg = start.reg /\ f.z = 0
           /\ ip \in {236, 238, 240, 243, 245, 247, 249, 251, 253, 256}
  <2>1. CASE ip = 236
    <3>1. I.op = "CALL" /\ I.cc = "always" /\ I.n = 258 /\ start.ip = 236
      BY <1>1, <2>1, MainIs DEF I, Go
    <3>2. /\ ip' = 258 /\ sp' = 14 /\ UNCHANGED <<reg, f>> /\ Called(237, mem') /\ Carried
      BY <1>1, <2>1, <3>1, Enters
    <3>3. HexInv(start, 1, reg', f', sp', mem')
      BY <1>0, <1>1, <3>1, <3>2 DEF HexInv
    <3> QED BY <3>2, <3>3, HexRuns
  <2>2. CASE ip = 238
    <3>1. I.op = "CALL" /\ I.cc = "always" /\ I.n = 269 /\ start.ip = 238
      BY <1>1, <2>2, MainIs DEF I, Go
    <3>2. /\ ip' = 269 /\ sp' = 14 /\ UNCHANGED <<reg, f>> /\ Called(239, mem') /\ Carried
      BY <1>1, <2>2, <3>1, Enters
    <3>3. MulInv(start, 1, reg', f', sp', mem')
      BY <1>0, <1>1, <3>1, <3>2 DEF MulInv
    <3> QED BY <3>2, <3>3, MulRuns
  <2>3. CASE ip = 243
    <3>1. I.op = "CALL" /\ I.cc = "always" /\ I.n = 292 /\ start.ip = 243
      BY <1>1, <2>3, MainIs DEF I, Go
    <3>2. /\ ip' = 292 /\ sp' = 14 /\ UNCHANGED <<reg, f>> /\ Called(244, mem') /\ Carried
      BY <1>1, <2>3, <3>1, Enters
    <3>3. SumInv(start, 1, reg', f', sp', mem')
      BY <1>0, <1>1, <3>1, <3>2 DEF SumInv
    <3> QED BY <3>2, <3>3, SumRuns
  <2>4. CASE ip = 245
    <3>1. I.op = "CALL" /\ I.cc = "always" /\ I.n = 301 /\ start.ip = 245
      BY <1>1, <2>4, MainIs DEF I, Go
    <3>2. /\ ip' = 301 /\ sp' = 14 /\ UNCHANGED <<reg, f>> /\ Called(246, mem') /\ Carried
      BY <1>1, <2>4, <3>1, Enters
    <3>3. DiffInv(start, 1, reg', f', sp', mem')
      BY <1>0, <1>1, <3>1, <3>2 DEF DiffInv
    <3> QED BY <3>2, <3>3, DiffRuns
  <2>5. CASE ip = 247
    <3>1. I.op = "CALL" /\ I.cc = "always" /\ I.n = 312 /\ start.ip = 247
      BY <1>1, <2>5, MainIs DEF I, Go
    <3>2. /\ ip' = 312 /\ sp' = 14 /\ UNCHANGED <<reg, f>> /\ Called(248, mem') /\ Carried
      BY <1>1, <2>5, <3>1, Enters
    <3>3. AbsInv(start, 1, reg', f', sp', mem')
      BY <1>0, <1>1, <3>1, <3>2 DEF AbsInv
    <3> QED BY <3>2, <3>3, AbsRuns
  <2>6. CASE ip = 249
    <3>1. I.op = "CALL" /\ I.cc = "always" /\ I.n = 322 /\ start.ip = 249
      BY <1>1, <2>6, MainIs DEF I, Go
    <3>2. /\ ip' = 322 /\ sp' = 14 /\ UNCHANGED <<reg, f>> /\ Called(250, mem') /\ Carried
      BY <1>1, <2>6, <3>1, Enters
    <3>3. ReverseInv(start, 1, reg', f', sp', mem')
      BY <1>0, <1>1, <3>1, <3>2 DEF ReverseInv
    <3> QED BY <3>2, <3>3, ReverseRuns
  <2>7. CASE ip = 251
    <3>1. I.op = "CALL" /\ I.cc = "always" /\ I.n = 329 /\ start.ip = 251
      BY <1>1, <2>7, MainIs DEF I, Go
    <3>2. /\ ip' = 329 /\ sp' = 14 /\ UNCHANGED <<reg, f>> /\ Called(252, mem') /\ Carried
      BY <1>1, <2>7, <3>1, Enters
    <3>3. FrameInv(start, 1, reg', f', sp', mem')
      BY <1>0, <1>1, <3>1, <3>2 DEF FrameInv
    <3> QED BY <3>2, <3>3, FrameRuns
  <2>8. CASE ip = 253
    <3>1. I.op = "CALL" /\ I.cc = "always" /\ I.n = 341 /\ start.ip = 253
      BY <1>1, <2>8, MainIs DEF I, Go
    <3>2. /\ ip' = 341 /\ sp' = 14 /\ UNCHANGED <<reg, f>> /\ Called(254, mem') /\ Carried
      BY <1>1, <2>8, <3>1, Enters
    <3>3. HalfInv(start, 1, reg', f', sp', mem')
      BY <1>0, <1>1, <3>1, <3>2 DEF HalfInv
    <3> QED BY <3>2, <3>3, HalfRuns
  <2>9. CASE ip = 256
    <3>1. I.op = "CALL" /\ I.cc = "always" /\ I.n = 344 /\ start.ip = 256
      BY <1>1, <2>9, MainIs DEF I, Go
    <3>2. /\ ip' = 344 /\ sp' = 14 /\ UNCHANGED <<reg, f>> /\ Called(257, mem') /\ Carried
      BY <1>1, <2>9, <3>1, Enters
    <3>3. CopyInv(start, 1, reg', f', sp', mem')
      BY <1>0, <1>1, <3>1, <3>2 DEF CopyInv
    <3> QED BY <3>2, <3>3, CopyRuns
  <2>10. CASE ip = 240
    <3>1. I.op = "LD16" /\ I.dst = "hl" /\ I.n = 281 /\ start.ip = 240
      BY <1>1, <2>10, MainIs DEF I, Ld16
    <3>2. 281 \div 256 = 1 /\ 281 % 256 = 25
      OBVIOUS
    <3>3. Onward /\ UNCHANGED <<f, sp, mem>> /\ MachineTyped' /\ reg' = [reg EXCEPT !["h"] = 1, !["l"] = 25]
      BY <3>1, <3>2, DoesLd16, Pairs DEF Reg8
    <3>4. ip' = 241 /\ UNCHANGED <<master, irqs, start>>
      BY <2>10, <3>3, OnwardTo
    <3>5. reg'["h"] = 1 /\ reg'["l"] = 25 /\ reg'["c"] = reg["c"] /\ reg'["e"] = reg["e"]
      BY <3>3 DEF MachineTyped, Reg8
    <3>6. CallInv(start, ip', reg', f', sp', mem')
      BY <1>1, <3>1, <3>3, <3>4, <3>5 DEF CallInv
    <3> QED BY <3>3, <3>4, <3>6 DEF Running, Carried
  <2> QED BY <1>1, <2>1, <2>2, <2>3, <2>4, <2>5, <2>6, <2>7, <2>8, <2>9, <2>10
<1>2. CASE /\ start.ip = 240 /\ reg["h"] = 1 /\ reg["l"] = 25 /\ reg["c"] = start.reg["c"] /\ reg["e"] = start.reg["e"]
           /\ ip = 241 /\ sp = 16 /\ f.z = 0
  <2>1. I.op = "CALL" /\ I.cc = "nz" /\ I.n = 255
    BY <1>2, MainIs DEF I, Go
  <2>2. Condition(I.cc)
    BY <1>2, <2>1, Conditions
  <2>3. /\ Goes(255) /\ OnStack((ip + 1) \div 256, (ip + 1) % 256) /\ UNCHANGED <<reg, f>> /\ MachineTyped'
    BY <1>2, <2>1, <2>2, DoesCall
  <2>4. sp - 1 = 15 /\ sp - 2 = 14 /\ (ip + 1) \div 256 = 0 /\ (ip + 1) % 256 = 242
    BY <1>2
  <2>5. /\ sp' = 14 /\ mem'[15] = 0 /\ mem'[14] = 242
        /\ \A x \in MCCells : x # 15 /\ x # 14 => mem'[x] = mem[x]
    BY ONLY <2>3, <2>4 DEF OnStack
  <2>6. mem'[65408] = mem[65408]
    BY ONLY <2>5, Cells16
  <2>7. CallInv(start, ip', reg', f', sp', mem')
    BY <1>2, <2>3, <2>5 DEF CallInv, Called, Goes
  <2> QED BY <2>3, <2>6, <2>7 DEF Running, Carried, Goes
<1>3. CASE /\ start.ip = 240 /\ reg["h"] = 1 /\ reg["l"] = 25 /\ reg["c"] = start.reg["c"] /\ reg["e"] = start.reg["e"]
           /\ ip = 255 /\ sp = 14 /\ Called(242, mem)
  <2>1. I.op = "JPHL"
    BY <1>3, MainIs DEF I, Op
  <2>2. HL = 281
    BY <1>3, HLIs
  <2>3. ip' = 281 /\ UNCHANGED <<reg, f, sp, mem, master, irqs, start>> /\ MachineTyped'
    BY <2>1, <2>2, DoesJumpHL DEF Goes
  <2>4. DivInv(start, 1, reg', f', sp', mem')
    BY <1>0, <1>3, <2>3 DEF DivInv
  <2> QED BY <2>3, <2>4, DivRuns DEF Carried
<1> QED BY <1>1, <1>2, <1>3 DEF CallInv

(* One instruction of the program, at any of its points *)
LEMMA ProgramStep ==
  ASSUME Instruction, MachineTyped, Callable(start), Running(start, ip, reg, f, sp, mem)
  PROVE  Carried /\ (Running(start, ip', reg', f', sp', mem') \/ Finished')
<1>0. start.ip \in {243, 245} => DecimalDigits(start)
  BY DEF Callable, Base, Buffer, DecimalDigits, Reg8
<1>1. CASE CallInv(start, ip, reg, f, sp, mem)
  BY <1>1, CallStep
<1>2. CASE ip \in 258..268 /\ HexInv(start, ip - 257, reg, f, sp, mem)
  <2>1. PICK j \in 1..11 : ip = 257 + j /\ ip - 257 = j
    BY <1>2
  <2>2. HexInv(start, j, reg, f, sp, mem)
    BY <1>2, <2>1
  <2> QED BY <2>1, <2>2, HexStep
<1>3. CASE ip \in 269..280 /\ MulInv(start, ip - 268, reg, f, sp, mem)
  <2>1. PICK j \in 1..12 : ip = 268 + j /\ ip - 268 = j
    BY <1>3
  <2>2. MulInv(start, j, reg, f, sp, mem)
    BY <1>3, <2>1
  <2> QED BY <2>1, <2>2, MulStep
<1>4. CASE ip \in 281..291 /\ DivInv(start, ip - 280, reg, f, sp, mem)
  <2>1. PICK j \in 1..11 : ip = 280 + j /\ ip - 280 = j
    BY <1>4
  <2>2. DivInv(start, j, reg, f, sp, mem)
    BY <1>4, <2>1
  <2> QED BY <2>1, <2>2, DivStep
<1>5. CASE ip \in 292..300 /\ SumInv(start, ip - 291, reg, f, sp, mem)
  <2>1. PICK j \in 1..9 : ip = 291 + j /\ ip - 291 = j
    BY <1>5
  <2>2. SumInv(start, j, reg, f, sp, mem)
    BY <1>5, <2>1
  <2>3. DecimalDigits(start)
    BY <1>0, <2>2 DEF SumInv
  <2> QED BY <2>1, <2>2, <2>3, SumStep
<1>6. CASE ip \in 301..311 /\ DiffInv(start, ip - 300, reg, f, sp, mem)
  <2>1. PICK j \in 1..11 : ip = 300 + j /\ ip - 300 = j
    BY <1>6
  <2>2. DiffInv(start, j, reg, f, sp, mem)
    BY <1>6, <2>1
  <2>3. DecimalDigits(start)
    BY <1>0, <2>2 DEF DiffInv
  <2> QED BY <2>1, <2>2, <2>3, DiffStep
<1>7. CASE ip \in 312..321 /\ AbsInv(start, ip - 311, reg, f, sp, mem)
  <2>1. PICK j \in 1..10 : ip = 311 + j /\ ip - 311 = j
    BY <1>7
  <2>2. AbsInv(start, j, reg, f, sp, mem)
    BY <1>7, <2>1
  <2> QED BY <2>1, <2>2, AbsStep
<1>8. CASE ip \in 322..328 /\ ReverseInv(start, ip - 321, reg, f, sp, mem)
  <2>1. PICK j \in 1..7 : ip = 321 + j /\ ip - 321 = j
    BY <1>8
  <2>2. ReverseInv(start, j, reg, f, sp, mem)
    BY <1>8, <2>1
  <2> QED BY <2>1, <2>2, ReverseStep
<1>9. CASE ip \in 329..340 /\ FrameInv(start, ip - 328, reg, f, sp, mem)
  <2>1. PICK j \in 1..12 : ip = 328 + j /\ ip - 328 = j
    BY <1>9
  <2>2. FrameInv(start, j, reg, f, sp, mem)
    BY <1>9, <2>1
  <2> QED BY <2>1, <2>2, FrameStep
<1>10. CASE ip \in 341..343 /\ HalfInv(start, ip - 340, reg, f, sp, mem)
  <2>1. PICK j \in 1..3 : ip = 340 + j /\ ip - 340 = j
    BY <1>10
  <2>2. HalfInv(start, j, reg, f, sp, mem)
    BY <1>10, <2>1
  <2> QED BY <2>1, <2>2, HalfStep
<1>11. CASE ip \in 344..368 /\ CopyInv(start, ip - 343, reg, f, sp, mem)
  <2>1. PICK j \in 1..25 : ip = 343 + j /\ ip - 343 = j
    BY <1>11
  <2>2. CopyInv(start, j, reg, f, sp, mem)
    BY <1>11, <2>1
  <2> QED BY <2>1, <2>2, CopyStep
<1> QED BY <1>1, <1>2, <1>3, <1>4, <1>5, <1>6, <1>7, <1>8, <1>9, <1>10, <1>11 DEF Running

-----------------------------------------------------------------------------
(* Where the program stops, and what an interrupt leaves alone              *)

Halts == {237, 239, 242, 244, 246, 248, 250, 252, 254, 257}

(* The program stops at the HALTs of Main and nowhere else. *)
LEMMA HaltsAre == ASSUME NEW x \in 236..378 PROVE Code[x].op = "HALT" <=> x \in Halts
<1>1. CASE x \in 236..257
  BY <1>1, MainIs DEF Halts, Go, Op, Ld16
<1>2. CASE x \in 258..268
  BY <1>2, HexIs DEF Halts, On, OnN, By, To, Op, Ret
<1>3. CASE x \in 269..280
  BY <1>3, MulIs DEF Halts, Ld16, LdN, Ld, On, Go, Ret
<1>4. CASE x \in 281..291
  BY <1>4, DivIs DEF Halts, On, LdN, Op, Go, At, Ret
<1>5. CASE x \in 292..300
  BY <1>5, SumIs DEF Halts, Ld, On, Op, Ret
<1>6. CASE x \in 301..311
  BY <1>6, DiffIs DEF Halts, Ld, On, Op, Ret
<1>7. CASE x \in 312..321
  BY <1>7, AbsIs DEF Halts, At, Ret, Ld, Op, To
<1>8. CASE x \in 322..328
  BY <1>8, ReverseIs DEF Halts, Ld, LdN, On, Op, Go, Ret
<1>9. CASE x \in 329..340
  BY <1>9, FrameIs DEF Halts, By, Ld, To, Op, Ret
<1>10. CASE x \in 341..343
  BY <1>10, HalfIs DEF Halts, On, Ret
<1>11. CASE x \in 344..368
  BY <1>11, CopyIs DEF Halts, By, Ld16, On, To, Mem, LdN, Ret
<1>12. CASE x \in 369..378
  BY <1>12, HandlerIs DEF Halts, On, Mem, Ld, Op, To
<1> QED BY <1>1, <1>2, <1>3, <1>4, <1>5, <1>6, <1>7, <1>8, <1>9, <1>10, <1>11, <1>12

(* HALT is no Instruction: the program has ended. *)
LEMMA Going == ASSUME Instruction PROVE I.op # "HALT"
BY DEF Instruction, Decoded, LoadByte, LoadWord, LoadA, StoreA, StoreSP, LoadStep, StoreStep, LoadHLSP, LoadSPHL,
       Accumulate, Adjust, CountByte, CountWord, AddWord, AddToSP, RotateA, CB, Bit, Push, Pop,
       JumpRelative, Jump, JumpHL, Call, Restart, Return, ReturnFromInterrupt

(* Where the program can be, and where its stack is *)
LEMMA Place ==
  ASSUME NEW z, NEW p, NEW r, NEW g, NEW s, NEW m, Running(z, p, r, g, s, m)
  PROVE  p \in 236..368 /\ s \in 10..16 /\ p \notin Halts
<1>1. CASE CallInv(z, p, r, g, s, m)
  BY <1>1 DEF CallInv, Halts
<1>2. CASE p \in 258..268 /\ HexInv(z, p - 257, r, g, s, m)
  <2>1. s \in {10, 12, 14}
    BY <1>2 DEF HexInv
  <2> QED BY <1>2, <2>1 DEF Halts
<1>3. CASE p \in 269..280 /\ MulInv(z, p - 268, r, g, s, m)
  <2>1. s \in {14}
    BY <1>3 DEF MulInv
  <2> QED BY <1>3, <2>1 DEF Halts
<1>4. CASE p \in 281..291 /\ DivInv(z, p - 280, r, g, s, m)
  <2>1. s \in {14}
    BY <1>4 DEF DivInv
  <2> QED BY <1>4, <2>1 DEF Halts
<1>5. CASE p \in 292..300 /\ SumInv(z, p - 291, r, g, s, m)
  <2>1. s \in {14}
    BY <1>5 DEF SumInv
  <2> QED BY <1>5, <2>1 DEF Halts
<1>6. CASE p \in 301..311 /\ DiffInv(z, p - 300, r, g, s, m)
  <2>1. s \in {14}
    BY <1>6 DEF DiffInv
  <2> QED BY <1>6, <2>1 DEF Halts
<1>7. CASE p \in 312..321 /\ AbsInv(z, p - 311, r, g, s, m)
  <2>1. s \in {14}
    BY <1>7 DEF AbsInv
  <2> QED BY <1>7, <2>1 DEF Halts
<1>8. CASE p \in 322..328 /\ ReverseInv(z, p - 321, r, g, s, m)
  <2>1. s \in {14}
    BY <1>8 DEF ReverseInv
  <2> QED BY <1>8, <2>1 DEF Halts
<1>9. CASE p \in 329..340 /\ FrameInv(z, p - 328, r, g, s, m)
  <2>1. s \in {12, 13, 14}
    BY <1>9 DEF FrameInv
  <2> QED BY <1>9, <2>1 DEF Halts
<1>10. CASE p \in 341..343 /\ HalfInv(z, p - 340, r, g, s, m)
  <2>1. s \in {14}
    BY <1>10 DEF HalfInv
  <2> QED BY <1>10, <2>1 DEF Halts
<1>11. CASE p \in 344..368 /\ CopyInv(z, p - 343, r, g, s, m)
  <2>1. s \in {13, 14}
    BY <1>11 DEF CopyInv
  <2> QED BY <1>11, <2>1 DEF Halts
<1> QED BY <1>1, <1>2, <1>3, <1>4, <1>5, <1>6, <1>7, <1>8, <1>9, <1>10, <1>11 DEF Running

(* m2 is m but for the counter and the three words below s. *)
Below(m, m2, s) == \A x \in MCCells : (x # 65408 /\ ~(s - 6 <= x /\ x < s)) => m2[x] = m[x]

(* The cells the routines use are not below their stack. *)
LEMMA BelowIs ==
  ASSUME NEW m, NEW m2, NEW s \in 10..16, Below(m, m2, s)
  PROVE  /\ m2[0] = m[0] /\ m2[1] = m[1] /\ m2[2] = m[2] /\ m2[3] = m[3] /\ (s > 10 => m2[4] = m[4])
         /\ m2[65409] = m[65409] /\ m2[65410] = m[65410]
         /\ (s < 15 => m2[14] = m[14] /\ m2[15] = m[15]) /\ (s < 14 => m2[13] = m[13])
         /\ (s < 13 => m2[12] = m[12]) /\ (s = 10 => m2[10] = m[10] /\ m2[11] = m[11])
<1>1. /\ 0 \in MCCells /\ 1 \in MCCells /\ 2 \in MCCells /\ 3 \in MCCells /\ 4 \in MCCells
      /\ 10 \in MCCells /\ 11 \in MCCells /\ 12 \in MCCells
      /\ 13 \in MCCells /\ 14 \in MCCells /\ 15 \in MCCells /\ 65409 \in MCCells /\ 65410 \in MCCells
  BY Cells16
<1> QED BY <1>1 DEF Below

(* What the routines keep in memory is out of the handler's reach. *)
LEMMA Kept ==
  ASSUME NEW z, NEW p, NEW r, NEW g, NEW s, NEW m, NEW m2, Running(z, p, r, g, s, m), Below(m, m2, s)
  PROVE  Running(z, p, r, g, s, m2)
<1>0. s \in 10..16
  BY Place
<1>b. /\ m2[0] = m[0] /\ m2[1] = m[1] /\ m2[2] = m[2] /\ m2[3] = m[3] /\ (s > 10 => m2[4] = m[4])
      /\ m2[65409] = m[65409] /\ m2[65410] = m[65410]
      /\ (s < 15 => m2[14] = m[14] /\ m2[15] = m[15]) /\ (s < 14 => m2[13] = m[13])
      /\ (s < 13 => m2[12] = m[12]) /\ (s = 10 => m2[10] = m[10] /\ m2[11] = m[11])
  BY <1>0, BelowIs
<1>1. CASE CallInv(z, p, r, g, s, m)
  <2>1. CallInv(z, p, r, g, s, m2)
    BY <1>1, <1>b DEF CallInv, Called
  <2> QED BY <2>1 DEF Running
<1>2. CASE p \in 258..268 /\ HexInv(z, p - 257, r, g, s, m)
  <2>1. HexInv(z, p - 257, r, g, s, m2)
    <3> DEFINE j == p - 257
    <3>1. ASSUME NEW d, NEW at \in {0, 1}, Converting(j, r, g, m, d, at) PROVE Converting(j, r, g, m2, d, at)
      BY ONLY <3>1, <1>b DEF Converting
    <3>2. HexInv(z, j, r, g, s, m)
      BY <1>2
    <3> HIDE DEF j
    <3>3. HexInv(z, j, r, g, s, m2)
      BY <3>1, <3>2, <1>b DEF HexInv, Called
    <3> QED BY <3>3 DEF j
  <2> QED BY <1>2, <2>1 DEF Running
<1>3. CASE p \in 269..280 /\ MulInv(z, p - 268, r, g, s, m)
  <2>1. MulInv(z, p - 268, r, g, s, m2)
    BY <1>3, <1>b DEF MulInv, Called
  <2> QED BY <1>3, <2>1 DEF Running
<1>4. CASE p \in 281..291 /\ DivInv(z, p - 280, r, g, s, m)
  <2>1. DivInv(z, p - 280, r, g, s, m2)
    BY <1>4, <1>b DEF DivInv, Called
  <2> QED BY <1>4, <2>1 DEF Running
<1>5. CASE p \in 292..300 /\ SumInv(z, p - 291, r, g, s, m)
  <2>1. SumInv(z, p - 291, r, g, s, m2)
    BY <1>5, <1>b DEF SumInv, Called
  <2> QED BY <1>5, <2>1 DEF Running
<1>6. CASE p \in 301..311 /\ DiffInv(z, p - 300, r, g, s, m)
  <2>1. DiffInv(z, p - 300, r, g, s, m2)
    BY <1>6, <1>b DEF DiffInv, Called
  <2> QED BY <1>6, <2>1 DEF Running
<1>7. CASE p \in 312..321 /\ AbsInv(z, p - 311, r, g, s, m)
  <2>1. AbsInv(z, p - 311, r, g, s, m2)
    BY <1>7, <1>b DEF AbsInv, Called
  <2> QED BY <1>7, <2>1 DEF Running
<1>8. CASE p \in 322..328 /\ ReverseInv(z, p - 321, r, g, s, m)
  <2>1. ReverseInv(z, p - 321, r, g, s, m2)
    BY <1>8, <1>b DEF ReverseInv, Called
  <2> QED BY <1>8, <2>1 DEF Running
<1>9. CASE p \in 329..340 /\ FrameInv(z, p - 328, r, g, s, m)
  <2>1. FrameInv(z, p - 328, r, g, s, m2)
    BY <1>9, <1>b DEF FrameInv, Called
  <2> QED BY <1>9, <2>1 DEF Running
<1>10. CASE p \in 341..343 /\ HalfInv(z, p - 340, r, g, s, m)
  <2>1. HalfInv(z, p - 340, r, g, s, m2)
    BY <1>10, <1>b DEF HalfInv, Called
  <2> QED BY <1>10, <2>1 DEF Running
<1>11. CASE p \in 344..368 /\ CopyInv(z, p - 343, r, g, s, m)
  <2>1. CopyInv(z, p - 343, r, g, s, m2)
    BY <1>11, <1>b DEF CopyInv, Called
  <2> QED BY <1>11, <2>1 DEF Running
<1> QED BY <1>1, <1>2, <1>3, <1>4, <1>5, <1>6, <1>7, <1>8, <1>9, <1>10, <1>11 DEF Running

-----------------------------------------------------------------------------
(* The handler                                                              *)

(* One instruction of the handler: what it keeps for the program at p, and what RETI returns to *)
LEMMA HandlerStep ==
  ASSUME Instruction, MachineTyped, NEW j \in 1..10, ip = 368 + j,
         NEW p \in 236..368, NEW r \in [Reg8 -> Byte], NEW g \in Flag, NEW s \in 10..16,
         Saved(j, p, r, g, s), j \in {4, 5} => mem[Count] < 255
  PROVE  /\ MachineTyped' /\ Below(mem, mem', s) /\ UNCHANGED <<irqs, start>>
         /\ mem'[Count] = mem[Count] + (IF j = 5 THEN 1 ELSE 0)
         /\ IF j = 10 THEN ip' = p /\ sp' = s /\ reg' = r /\ f' = g /\ master' = TRUE
                      ELSE ip' = ip + 1 /\ UNCHANGED master /\ Saved(j + 1, p, r, g, s)'
<1>t. /\ reg \in [Reg8 -> Byte] /\ f \in Flag /\ mem \in [MCCells -> Byte]
  BY DEF MachineTyped
<1>r. \A x \in Reg8 : reg[x] \in Byte /\ r[x] \in Byte
  BY <1>t
<1>G. PICK G \in Byte : G = g.z * 128 + g.n * 64 + g.h * 32 + g.c * 16
  BY FlagByte
<1>n. Count = 65408 /\ 65408 \in MCCells
  BY Cells16
<1>m. /\ s - 1 \in MCCells /\ s - 2 \in MCCells /\ s - 3 \in MCCells /\ s - 4 \in MCCells
      /\ s - 5 \in MCCells /\ s - 6 \in MCCells
  <2>1. s - 1 \in 0..15 /\ s - 2 \in 0..15 /\ s - 3 \in 0..15 /\ s - 4 \in 0..15 /\ s - 5 \in 0..15 /\ s - 6 \in 0..15
    OBVIOUS
  <2> QED BY <2>1, Cells16
<1>b. mem[65408] \in Nat
  BY <1>t, <1>n DEF Byte
<1>k. mem' = mem => Below(mem, mem', s)
  BY DEF Below
<1>1. CASE j = 1
  <2>1. I.op = "PUSH" /\ I.src = "af" /\ ip = 369
    BY <1>1, HandlerIs DEF I, On
  <2>2. /\ sp = s - 2 /\ mem[s - 1] = p \div 256 /\ mem[s - 2] = p % 256 /\ reg["b"] = r["b"]
        /\ reg["c"] = r["c"] /\ reg["d"] = r["d"] /\ reg["e"] = r["e"] /\ reg["h"] = r["h"]
        /\ reg["l"] = r["l"] /\ reg["a"] = r["a"] /\ f = g
    BY <1>1, <1>G, <1>n DEF Saved
  <2>3. Onward /\ OnStack(reg["a"], G) /\ UNCHANGED <<reg, f>> /\ MachineTyped'
    <3>1. F = G
      BY <2>2, <1>G DEF F
    <3>2. sp \in 2..16 /\ G \in Byte
      BY <2>2, <1>r, <1>G DEF Reg8
    <3> QED BY <2>1, <3>2, <3>1, DoesPush, Pairs DEF Reg8
  <2>4. ip' = ip + 1 /\ UNCHANGED <<master, irqs, start>>
    BY <2>1, <2>3, OnwardTo
  <2>5. sp - 1 = s - 3 /\ sp - 2 = s - 4
    BY <2>2
  <2>6. /\ sp' = s - 4 /\ mem'[s - 3] = reg["a"] /\ mem'[s - 4] = G
        /\ \A x \in MCCells : x # s - 3 /\ x # s - 4 => mem'[x] = mem[x]
    BY <2>2, <2>3, <2>5 DEF OnStack
  <2>7. Below(mem, mem', s) /\ mem'[65408] = mem[65408] /\ UNCHANGED reg
    BY ONLY <2>3, <2>6, <1>n, s \in 10..16 DEF Below
  <2>8. /\ sp' = s - 4 /\ mem'[s - 1] = p \div 256 /\ mem'[s - 2] = p % 256 /\ mem'[s - 3] = r["a"]
        /\ mem'[s - 4] = G /\ reg'["b"] = r["b"] /\ reg'["c"] = r["c"] /\ reg'["d"] = r["d"]
        /\ reg'["e"] = r["e"] /\ reg'["h"] = r["h"] /\ reg'["l"] = r["l"] /\ reg'["a"] = r["a"]
    BY ONLY <2>2, <2>3, <2>6, <2>7, <1>m, s \in 10..16, <1>n
  <2>9. Saved(2, p, r, g, s)'
    BY <2>8, <1>G, <1>n DEF Saved
  <2> QED BY <1>1, <1>k, <1>b, <1>n, <2>3, <2>4, <2>6, <2>7, <2>9
<1>2. CASE j = 2
  <2>1. I.op = "PUSH" /\ I.src = "hl" /\ ip = 370
    BY <1>2, HandlerIs DEF I, On
  <2>2. /\ sp = s - 4 /\ mem[s - 1] = p \div 256 /\ mem[s - 2] = p % 256 /\ mem[s - 3] = r["a"]
        /\ mem[s - 4] = G /\ reg["b"] = r["b"] /\ reg["c"] = r["c"] /\ reg["d"] = r["d"]
        /\ reg["e"] = r["e"] /\ reg["h"] = r["h"] /\ reg["l"] = r["l"] /\ reg["a"] = r["a"]
    BY <1>2, <1>G, <1>n DEF Saved
  <2>3. Onward /\ OnStack(reg["h"], reg["l"]) /\ UNCHANGED <<reg, f>> /\ MachineTyped'
    <3>2. sp \in 2..16 /\ reg["l"] \in Byte
      BY <2>2, <1>r, <1>G DEF Reg8
    <3> QED BY <2>1, <3>2, DoesPush, Pairs DEF Reg8
  <2>4. ip' = ip + 1 /\ UNCHANGED <<master, irqs, start>>
    BY <2>1, <2>3, OnwardTo
  <2>5. sp - 1 = s - 5 /\ sp - 2 = s - 6
    BY <2>2
  <2>6. /\ sp' = s - 6 /\ mem'[s - 5] = reg["h"] /\ mem'[s - 6] = reg["l"]
        /\ \A x \in MCCells : x # s - 5 /\ x # s - 6 => mem'[x] = mem[x]
    BY <2>2, <2>3, <2>5 DEF OnStack
  <2>7. Below(mem, mem', s) /\ mem'[65408] = mem[65408] /\ UNCHANGED reg
    BY ONLY <2>3, <2>6, <1>n, s \in 10..16 DEF Below
  <2>8. /\ sp' = s - 6 /\ mem'[s - 1] = p \div 256 /\ mem'[s - 2] = p % 256 /\ mem'[s - 3] = r["a"]
        /\ mem'[s - 4] = G /\ mem'[s - 5] = r["h"] /\ mem'[s - 6] = r["l"] /\ reg'["b"] = r["b"]
        /\ reg'["c"] = r["c"] /\ reg'["d"] = r["d"] /\ reg'["e"] = r["e"]
    BY ONLY <2>2, <2>3, <2>6, <2>7, <1>m, s \in 10..16, <1>n
  <2>9. Saved(3, p, r, g, s)'
    BY <2>8, <1>G, <1>n DEF Saved
  <2> QED BY <1>2, <1>k, <1>b, <1>n, <2>3, <2>4, <2>6, <2>7, <2>9
<1>3. CASE j = 3
  <2>1. I.op = "LDA_" /\ I.by = "a8" /\ I.n = 128 /\ ip = 371
    BY <1>3, HandlerIs DEF I, Mem
  <2>2. /\ sp = s - 6 /\ mem[s - 1] = p \div 256 /\ mem[s - 2] = p % 256 /\ mem[s - 3] = r["a"]
        /\ mem[s - 4] = G /\ mem[s - 5] = r["h"] /\ mem[s - 6] = r["l"] /\ reg["b"] = r["b"]
        /\ reg["c"] = r["c"] /\ reg["d"] = r["d"] /\ reg["e"] = r["e"]
    BY <1>3, <1>G, <1>n DEF Saved
  <2>3. Onward /\ reg' = [reg EXCEPT !["a"] = mem[65408]] /\ UNCHANGED <<f, sp, mem>> /\ MachineTyped'
    BY <2>1, <1>n, DoesLoadA DEF Address
  <2>4. ip' = ip + 1 /\ UNCHANGED <<master, irqs, start>>
    BY <2>1, <2>3, OnwardTo
  <2>6. /\ reg'["a"] = mem[65408] /\ reg'["b"] = reg["b"] /\ reg'["c"] = reg["c"] /\ reg'["d"] = reg["d"]
        /\ reg'["e"] = reg["e"] /\ reg'["h"] = reg["h"] /\ reg'["l"] = reg["l"]
    BY <2>3, <1>t DEF Reg8
  <2>7. mem' = mem
    BY <2>3
  <2>8. /\ sp' = s - 6 /\ mem'[s - 1] = p \div 256 /\ mem'[s - 2] = p % 256 /\ mem'[s - 3] = r["a"]
        /\ mem'[s - 4] = G /\ mem'[s - 5] = r["h"] /\ mem'[s - 6] = r["l"] /\ reg'["b"] = r["b"]
        /\ reg'["c"] = r["c"] /\ reg'["d"] = r["d"] /\ reg'["e"] = r["e"] /\ reg'["a"] = mem'[65408]
    BY ONLY <2>2, <2>3, <2>6, <2>7, <1>m, s \in 10..16, <1>n
  <2>9. Saved(4, p, r, g, s)'
    BY <2>8, <1>G, <1>n DEF Saved
  <2> QED BY <1>3, <1>k, <1>b, <1>n, <2>3, <2>4, <2>6, <2>7, <2>9
<1>4. CASE j = 4
  <2>1. I.op = "INC" /\ I.src = "a" /\ ip = 372
    BY <1>4, HandlerIs DEF I, On
  <2>2. /\ sp = s - 6 /\ mem[s - 1] = p \div 256 /\ mem[s - 2] = p % 256 /\ mem[s - 3] = r["a"]
        /\ mem[s - 4] = G /\ mem[s - 5] = r["h"] /\ mem[s - 6] = r["l"] /\ reg["b"] = r["b"]
        /\ reg["c"] = r["c"] /\ reg["d"] = r["d"] /\ reg["e"] = r["e"] /\ reg["a"] = mem[65408]
    BY <1>4, <1>G, <1>n DEF Saved
  <2>3. Onward /\ reg' = [reg EXCEPT !["a"] = mem[65408] + 1] /\ UNCHANGED <<sp, mem>> /\ MachineTyped'
    <3>1. Fine(Inc(reg["a"], f)) /\ Inc(reg["a"], f).v = (reg["a"] + 1) % 256
      BY <1>r, <1>t, IncIs DEF Reg8
    <3>2. (reg["a"] + 1) % 256 = mem[65408] + 1
      BY <2>2, <1>4, <1>b, <1>n
    <3> QED BY <2>1, <3>1, <3>2, DoesInc DEF Reg8
  <2>4. ip' = ip + 1 /\ UNCHANGED <<master, irqs, start>>
    BY <2>1, <2>3, OnwardTo
  <2>6. /\ reg'["a"] = mem[65408] + 1 /\ reg'["b"] = reg["b"] /\ reg'["c"] = reg["c"] /\ reg'["d"] = reg["d"]
        /\ reg'["e"] = reg["e"] /\ reg'["h"] = reg["h"] /\ reg'["l"] = reg["l"]
    BY <2>3, <1>t DEF Reg8
  <2>7. mem' = mem
    BY <2>3
  <2>8. /\ sp' = s - 6 /\ mem'[s - 1] = p \div 256 /\ mem'[s - 2] = p % 256 /\ mem'[s - 3] = r["a"]
        /\ mem'[s - 4] = G /\ mem'[s - 5] = r["h"] /\ mem'[s - 6] = r["l"] /\ reg'["b"] = r["b"]
        /\ reg'["c"] = r["c"] /\ reg'["d"] = r["d"] /\ reg'["e"] = r["e"] /\ reg'["a"] = mem'[65408] + 1
    BY ONLY <2>2, <2>3, <2>6, <2>7, <1>m, s \in 10..16, <1>n
  <2>9. Saved(5, p, r, g, s)'
    BY <2>8, <1>G, <1>n DEF Saved
  <2> QED BY <1>4, <1>k, <1>b, <1>n, <2>3, <2>4, <2>6, <2>7, <2>9
<1>5. CASE j = 5
  <2>1. I.op = "LD_A" /\ I.by = "a8" /\ I.n = 128 /\ ip = 373
    BY <1>5, HandlerIs DEF I, Mem
  <2>2. /\ sp = s - 6 /\ mem[s - 1] = p \div 256 /\ mem[s - 2] = p % 256 /\ mem[s - 3] = r["a"]
        /\ mem[s - 4] = G /\ mem[s - 5] = r["h"] /\ mem[s - 6] = r["l"] /\ reg["b"] = r["b"]
        /\ reg["c"] = r["c"] /\ reg["d"] = r["d"] /\ reg["e"] = r["e"] /\ reg["a"] = mem[65408] + 1
    BY <1>5, <1>G, <1>n DEF Saved
  <2>3. Onward /\ mem' = [mem EXCEPT ![65408] = reg["a"]] /\ UNCHANGED <<f, sp, reg>> /\ MachineTyped'
    BY <2>1, <1>n, DoesStoreA DEF Address
  <2>4. ip' = ip + 1 /\ UNCHANGED <<master, irqs, start>>
    BY <2>1, <2>3, OnwardTo
  <2>6. mem'[65408] = mem[65408] + 1 /\ \A x \in MCCells : x # 65408 => mem'[x] = mem[x]
    BY <2>2, <2>3, <1>t, <1>n
  <2>7. Below(mem, mem', s)
    BY ONLY <2>6 DEF Below
  <2>8. /\ sp' = s - 6 /\ mem'[s - 1] = p \div 256 /\ mem'[s - 2] = p % 256 /\ mem'[s - 3] = r["a"]
        /\ mem'[s - 4] = G /\ mem'[s - 5] = r["h"] /\ mem'[s - 6] = r["l"] /\ reg'["b"] = r["b"]
        /\ reg'["c"] = r["c"] /\ reg'["d"] = r["d"] /\ reg'["e"] = r["e"]
    BY ONLY <2>2, <2>3, <2>6, <2>7, <1>m, s \in 10..16, <1>n
  <2>9. Saved(6, p, r, g, s)'
    BY <2>8, <1>G, <1>n DEF Saved
  <2> QED BY <1>5, <1>k, <1>b, <1>n, <2>3, <2>4, <2>6, <2>7, <2>9
<1>6. CASE j = 6
  <2>1. I.op = "LD" /\ I.dst = "h" /\ I.src = "a" /\ ip = 374
    BY <1>6, HandlerIs DEF I, Ld
  <2>2. /\ sp = s - 6 /\ mem[s - 1] = p \div 256 /\ mem[s - 2] = p % 256 /\ mem[s - 3] = r["a"]
        /\ mem[s - 4] = G /\ mem[s - 5] = r["h"] /\ mem[s - 6] = r["l"] /\ reg["b"] = r["b"]
        /\ reg["c"] = r["c"] /\ reg["d"] = r["d"] /\ reg["e"] = r["e"]
    BY <1>6, <1>G, <1>n DEF Saved
  <2>3. Onward /\ UNCHANGED <<f, sp, mem>> /\ MachineTyped' /\ reg' = [reg EXCEPT !["h"] = reg["a"]]
    BY <2>1, DoesLd DEF Reg8
  <2>4. ip' = ip + 1 /\ UNCHANGED <<master, irqs, start>>
    BY <2>1, <2>3, OnwardTo
  <2>6. /\ reg'["a"] = reg["a"] /\ reg'["b"] = reg["b"] /\ reg'["c"] = reg["c"] /\ reg'["d"] = reg["d"]
        /\ reg'["e"] = reg["e"] /\ reg'["h"] = reg["a"] /\ reg'["l"] = reg["l"]
    BY <2>3, <1>t DEF Reg8
  <2>7. mem' = mem
    BY <2>3
  <2>8. /\ sp' = s - 6 /\ mem'[s - 1] = p \div 256 /\ mem'[s - 2] = p % 256 /\ mem'[s - 3] = r["a"]
        /\ mem'[s - 4] = G /\ mem'[s - 5] = r["h"] /\ mem'[s - 6] = r["l"] /\ reg'["b"] = r["b"]
        /\ reg'["c"] = r["c"] /\ reg'["d"] = r["d"] /\ reg'["e"] = r["e"]
    BY ONLY <2>2, <2>3, <2>6, <2>7, <1>m, s \in 10..16, <1>n
  <2>9. Saved(7, p, r, g, s)'
    BY <2>8, <1>G, <1>n DEF Saved
  <2> QED BY <1>6, <1>k, <1>b, <1>n, <2>3, <2>4, <2>6, <2>7, <2>9
<1>7. CASE j = 7
  <2>1. I.op = "SCF" /\ ip = 375
    BY <1>7, HandlerIs DEF I, Op
  <2>2. /\ sp = s - 6 /\ mem[s - 1] = p \div 256 /\ mem[s - 2] = p % 256 /\ mem[s - 3] = r["a"]
        /\ mem[s - 4] = G /\ mem[s - 5] = r["h"] /\ mem[s - 6] = r["l"] /\ reg["b"] = r["b"]
        /\ reg["c"] = r["c"] /\ reg["d"] = r["d"] /\ reg["e"] = r["e"]
    BY <1>7, <1>G, <1>n DEF Saved
  <2>3. Onward /\ reg' = [reg EXCEPT !["a"] = reg["a"]] /\ UNCHANGED <<sp, mem>> /\ MachineTyped'
    <3>1. Fine(Scf(reg["a"], f)) /\ Scf(reg["a"], f).v = reg["a"]
      BY <1>r, <1>t, ScfIs DEF Reg8
    <3> QED BY <2>1, <3>1, DoesAdjust
  <2>4. ip' = ip + 1 /\ UNCHANGED <<master, irqs, start>>
    BY <2>1, <2>3, OnwardTo
  <2>6. /\ reg'["a"] = reg["a"] /\ reg'["b"] = reg["b"] /\ reg'["c"] = reg["c"] /\ reg'["d"] = reg["d"]
        /\ reg'["e"] = reg["e"] /\ reg'["h"] = reg["h"] /\ reg'["l"] = reg["l"]
    BY <2>3, <1>t DEF Reg8
  <2>7. mem' = mem
    BY <2>3
  <2>8. /\ sp' = s - 6 /\ mem'[s - 1] = p \div 256 /\ mem'[s - 2] = p % 256 /\ mem'[s - 3] = r["a"]
        /\ mem'[s - 4] = G /\ mem'[s - 5] = r["h"] /\ mem'[s - 6] = r["l"] /\ reg'["b"] = r["b"]
        /\ reg'["c"] = r["c"] /\ reg'["d"] = r["d"] /\ reg'["e"] = r["e"]
    BY ONLY <2>2, <2>3, <2>6, <2>7, <1>m, s \in 10..16, <1>n
  <2>9. Saved(8, p, r, g, s)'
    BY <2>8, <1>G, <1>n DEF Saved
  <2> QED BY <1>7, <1>k, <1>b, <1>n, <2>3, <2>4, <2>6, <2>7, <2>9
<1>8. CASE j = 8
  <2>1. I.op = "POP" /\ I.dst = "hl" /\ ip = 376
    BY <1>8, HandlerIs DEF I, To
  <2>2. /\ sp = s - 6 /\ mem[s - 1] = p \div 256 /\ mem[s - 2] = p % 256 /\ mem[s - 3] = r["a"]
        /\ mem[s - 4] = G /\ mem[s - 5] = r["h"] /\ mem[s - 6] = r["l"] /\ reg["b"] = r["b"]
        /\ reg["c"] = r["c"] /\ reg["d"] = r["d"] /\ reg["e"] = r["e"]
    BY <1>8, <1>G, <1>n DEF Saved
  <2>3. Onward /\ sp' = s - 4 /\ UNCHANGED <<f, mem>> /\ MachineTyped' /\ reg' = [reg EXCEPT !["h"] = r["h"], !["l"] = r["l"]]
    <3>1. sp \in 0..14 /\ sp + 1 = s - 5 /\ sp + 2 = s - 4
      BY <2>2
    <3> QED BY <2>1, <2>2, <3>1, DoesPopHL
  <2>4. ip' = ip + 1 /\ UNCHANGED <<master, irqs, start>>
    BY <2>1, <2>3, OnwardTo
  <2>6. /\ reg'["a"] = reg["a"] /\ reg'["b"] = reg["b"] /\ reg'["c"] = reg["c"] /\ reg'["d"] = reg["d"]
        /\ reg'["e"] = reg["e"] /\ reg'["h"] = r["h"] /\ reg'["l"] = r["l"]
    BY <2>3, <1>t DEF Reg8
  <2>7. mem' = mem
    BY <2>3
  <2>8. /\ sp' = s - 4 /\ mem'[s - 1] = p \div 256 /\ mem'[s - 2] = p % 256 /\ mem'[s - 3] = r["a"]
        /\ mem'[s - 4] = G /\ reg'["b"] = r["b"] /\ reg'["c"] = r["c"] /\ reg'["d"] = r["d"]
        /\ reg'["e"] = r["e"] /\ reg'["h"] = r["h"] /\ reg'["l"] = r["l"]
    BY ONLY <2>2, <2>3, <2>6, <2>7, <1>m, s \in 10..16, <1>n
  <2>9. Saved(9, p, r, g, s)'
    BY <2>8, <1>G, <1>n DEF Saved
  <2> QED BY <1>8, <1>k, <1>b, <1>n, <2>3, <2>4, <2>6, <2>7, <2>9
<1>9. CASE j = 9
  <2>1. I.op = "POP" /\ I.dst = "af" /\ ip = 377
    BY <1>9, HandlerIs DEF I, To
  <2>2. /\ sp = s - 4 /\ mem[s - 1] = p \div 256 /\ mem[s - 2] = p % 256 /\ mem[s - 3] = r["a"]
        /\ mem[s - 4] = G /\ reg["b"] = r["b"] /\ reg["c"] = r["c"] /\ reg["d"] = r["d"]
        /\ reg["e"] = r["e"] /\ reg["h"] = r["h"] /\ reg["l"] = r["l"]
    BY <1>9, <1>G, <1>n DEF Saved
  <2>3. Onward /\ sp' = s - 2 /\ UNCHANGED mem /\ MachineTyped' /\ reg' = [reg EXCEPT !["a"] = r["a"]] /\ f' = g
    <3>1. sp \in 0..14 /\ sp + 1 = s - 3 /\ sp + 2 = s - 2
      BY <2>2
    <3> QED BY <2>1, <2>2, <3>1, <1>G, DoesPopAF
  <2>4. ip' = ip + 1 /\ UNCHANGED <<master, irqs, start>>
    BY <2>1, <2>3, OnwardTo
  <2>6. /\ reg'["a"] = r["a"] /\ reg'["b"] = reg["b"] /\ reg'["c"] = reg["c"] /\ reg'["d"] = reg["d"]
        /\ reg'["e"] = reg["e"] /\ reg'["h"] = reg["h"] /\ reg'["l"] = reg["l"]
    BY <2>3, <1>t DEF Reg8
  <2>7. mem' = mem
    BY <2>3
  <2>8. /\ sp' = s - 2 /\ mem'[s - 1] = p \div 256 /\ mem'[s - 2] = p % 256 /\ reg'["b"] = r["b"]
        /\ reg'["c"] = r["c"] /\ reg'["d"] = r["d"] /\ reg'["e"] = r["e"] /\ reg'["h"] = r["h"]
        /\ reg'["l"] = r["l"] /\ reg'["a"] = r["a"] /\ f' = g
    BY ONLY <2>2, <2>3, <2>6, <2>7, <1>m, s \in 10..16, <1>n
  <2>9. Saved(10, p, r, g, s)'
    BY <2>8, <1>G, <1>n DEF Saved
  <2> QED BY <1>9, <1>k, <1>b, <1>n, <2>3, <2>4, <2>6, <2>7, <2>9
<1>10. CASE j = 10
  <2>1. I.op = "RETI" /\ ip = 378
    BY <1>10, HandlerIs DEF I, Op
  <2>2. /\ sp = s - 2 /\ mem[s - 1] = p \div 256 /\ mem[s - 2] = p % 256 /\ reg["b"] = r["b"]
        /\ reg["c"] = r["c"] /\ reg["d"] = r["d"] /\ reg["e"] = r["e"] /\ reg["h"] = r["h"]
        /\ reg["l"] = r["l"] /\ reg["a"] = r["a"] /\ f = g
    BY <1>10, <1>G, <1>n DEF Saved
  <2>3. /\ ip' = p /\ sp' = s /\ master' = TRUE
        /\ UNCHANGED <<reg, f, mem, irqs, start>> /\ MachineTyped'
    <3>1. sp \in 0..14 /\ sp + 1 = s - 1 /\ sp + 2 = s
      BY <2>2
    <3>2. (p % 256) + 256 * (p \div 256) = p
      OBVIOUS
    <3>3. mem[sp] = p % 256 /\ mem[sp + 1] = p \div 256
      BY ONLY <2>2, <3>1
    <3>4. /\ ip' = mem[sp] + 256 * mem[sp + 1] /\ sp' = sp + 2 /\ master' = TRUE
          /\ UNCHANGED <<reg, f, mem, irqs, start>> /\ MachineTyped'
      BY <2>1, <3>1, DoesReti
    <3> QED BY ONLY <3>1, <3>2, <3>3, <3>4
  <2>4. \A x \in Reg8 : reg[x] = r[x]
    BY <2>2 DEF Reg8
  <2>5. reg = r
    <3>1. reg = [x \in Reg8 |-> reg[x]] /\ r = [x \in Reg8 |-> r[x]]
      BY <1>t
    <3> QED BY ONLY <2>4, <3>1, Zenon
  <2> QED BY <1>10, <1>k, <1>b, <1>n, <1>t, <2>2, <2>3, <2>4
<1>x. j \in {1, 2, 3, 4, 5, 6, 7, 8, 9, 10}
  OBVIOUS
<1> QED BY ONLY <1>x, <1>1, <1>2, <1>3, <1>4, <1>5, <1>6, <1>7, <1>8, <1>9, <1>10

-----------------------------------------------------------------------------
(* Programs and handler together                                            *)

(* The handler has interrupted the program. *)
Handling ==
  \E p \in 236..368, r \in [Reg8 -> Byte], g \in Flag, s \in 10..16 :
    Running(start, p, r, g, s, mem) /\ ip \in 369..378 /\ Saved(ip - 368, p, r, g, s)

(* The inductive invariant: the program is at an address and what that      *)
(* address promises holds, or it has finished, or the handler runs and will *)
(* leave registers, flags and stack as that address promises them.          *)
ProgramInv ==
  /\ Callable(start) /\ MachineTyped /\ master \in BOOLEAN /\ irqs \in 0..MaxIrqs /\ Counted
  /\ master => (Running(start, ip, reg, f, sp, mem) \/ Finished)
  /\ ~master => Handling

(* The counter never overflows: it counts at most MaxIrqs. *)
LEMMA CountIs ==
  ASSUME ProgramInv
  PROVE  /\ mem[65408] \in Nat /\ start.mem[65408] \in Nat /\ irqs \in Nat /\ MaxIrqs \in Nat /\ irqs <= MaxIrqs
         /\ Count = 65408 /\ start.mem[65408] + MaxIrqs < 256
         /\ mem[65408] + irqs + (IF ~master /\ ip < 374 THEN 1 ELSE 0) = start.mem[65408] + MaxIrqs
<1>1. Count = 65408 /\ 65408 \in MCCells
  BY Cells16
<1>2. mem[65408] \in Byte /\ start.mem[65408] \in Byte
  BY <1>1 DEF ProgramInv, MachineTyped, Callable
<1>3. mem[65408] \in Nat /\ start.mem[65408] \in Nat
  BY <1>2 DEF Byte
<1>4. start.mem[65408] + MaxIrqs < 256
  BY <1>1 DEF ProgramInv, Callable
<1>5. MaxIrqs \in Nat
  BY RoutineAssumption
<1> QED BY <1>1, <1>3, <1>4, <1>5 DEF ProgramInv, Counted

(* Every initial state satisfies the invariant. *)
LEMMA ProgramStarts == ProgramInit => ProgramInv
<1> SUFFICES ASSUME ProgramInit PROVE ProgramInv
  OBVIOUS
<1>1. Callable(start) /\ MaxIrqs \in Nat /\ Top = 16
  BY RoutineAssumption DEF ProgramInit
<1>2. Flags(0, 0, 0, 0) \in Flag /\ Flags(0, 0, 0, 0).z = 0
  BY FlagsAre
<1>3. MachineTyped
  BY <1>1, <1>2 DEF ProgramInit, MachineTyped, Callable
<1>4. ip \in {236, 238, 240, 243, 245, 247, 249, 251, 253, 256}
  BY <1>1 DEF ProgramInit, Callable, Base
<1>5. CallInv(start, ip, reg, f, sp, mem)
  BY <1>1, <1>2, <1>4 DEF ProgramInit, CallInv
<1>6. Running(start, ip, reg, f, sp, mem)
  BY <1>5 DEF Running
<1>7. Counted
  <2>1. mem[65408] \in Nat /\ Count = 65408
    BY <1>3, Cells16 DEF MachineTyped, Byte
  <2> QED BY <1>1, <2>1 DEF ProgramInit, Counted
<1> QED BY <1>1, <1>3, <1>6, <1>7 DEF ProgramInv, ProgramInit

LEMMA AtHalt == ip \in 236..378 => (I.op = "HALT" <=> ip \in Halts)
BY HaltsAre DEF I

LEMMA FinishedHalts == Finished => I.op = "HALT"
<1>1. Finished => ip \in Halts /\ ip \in 236..378
  BY DEF Finished, Halts
<1> QED BY <1>1, AtHalt

(* An instruction of the program or of the handler keeps the invariant. *)
LEMMA InstructionKeeps ==
  ASSUME ProgramInv, Instruction
  PROVE  ProgramInv'
<1>i. Callable(start) /\ MachineTyped /\ irqs \in 0..MaxIrqs /\ master \in BOOLEAN
  BY DEF ProgramInv
<1>1. CASE master
  <2>1. ~Finished
    BY FinishedHalts, Going
  <2>2. Running(start, ip, reg, f, sp, mem)
    BY <1>1, <2>1 DEF ProgramInv
  <2>3. Carried /\ (Running(start, ip', reg', f', sp', mem') \/ Finished')
    BY <1>i, <2>2, ProgramStep
  <2>4. Counted'
    BY <1>1, <2>3, CountIs DEF Carried, Counted
  <2> QED BY <1>1, <1>i, <2>3, <2>4 DEF ProgramInv, Carried
<1>2. CASE ~master
  <2>1. PICK p \in 236..368, r \in [Reg8 -> Byte], g \in Flag, s \in 10..16 :
          Running(start, p, r, g, s, mem) /\ ip \in 369..378 /\ Saved(ip - 368, p, r, g, s)
    <3>1. Handling
      BY <1>2 DEF ProgramInv
    <3> QED BY ONLY <3>1 DEF Handling
  <2>2. PICK j \in 1..10 : ip = 368 + j /\ ip - 368 = j
    BY <2>1
  <2>3. j \in {4, 5} => mem[Count] < 255
    BY <1>2, <2>2, CountIs
  <2>4. /\ MachineTyped' /\ Below(mem, mem', s) /\ UNCHANGED <<irqs, start>>
        /\ mem'[Count] = mem[Count] + (IF j = 5 THEN 1 ELSE 0)
        /\ IF j = 10 THEN ip' = p /\ sp' = s /\ reg' = r /\ f' = g /\ master' = TRUE
                     ELSE ip' = ip + 1 /\ UNCHANGED master /\ Saved(j + 1, p, r, g, s)'
    <3>1. Saved(j, p, r, g, s)
      BY ONLY <2>1, <2>2
    <3> QED BY <1>i, <2>2, <2>3, <3>1, HandlerStep
  <2>5. Running(start, p, r, g, s, mem')
    BY <2>1, <2>4, Kept
  <2>6. Counted'
    BY <1>2, <2>2, <2>4, CountIs DEF Counted
  <2>7. CASE j = 10
    <3>1. master' = TRUE /\ Running(start', ip', reg', f', sp', mem')
      BY ONLY <2>4, <2>5, <2>7
    <3> QED BY <1>i, <2>4, <2>6, <3>1 DEF ProgramInv
  <2>8. CASE j # 10
    <3>1. ip' \in 369..378 /\ ip' - 368 = j + 1 /\ ~master'
      BY <1>2, <2>2, <2>4, <2>8
    <3>2. Saved(ip - 368, p, r, g, s)'
      BY <2>4, <2>8, <3>1
    <3>3. Handling'
      BY <2>4, <2>5, <3>1, <3>2 DEF Handling
    <3> QED BY <1>i, <2>4, <2>6, <3>1, <3>3 DEF ProgramInv
  <2> QED BY <2>7, <2>8
<1> QED BY <1>i, <1>1, <1>2

(* An interrupt keeps it: the program waits where it was. *)
LEMMA InterruptKeeps ==
  ASSUME ProgramInv, Interrupt
  PROVE  ProgramInv'
<1>i. Callable(start) /\ MachineTyped /\ irqs \in 0..MaxIrqs
  BY DEF ProgramInv
<1>1. /\ master /\ irqs > 0 /\ ~Done /\ master' = FALSE /\ irqs' = irqs - 1
      /\ PushWord(ip \div 256, ip % 256) /\ ip' = 369 /\ UNCHANGED <<reg, f, start>>
  BY RoutineAssumption, Addresses DEF Interrupt
<1>2. ~Finished
  BY <1>1, FinishedHalts DEF Done
<1>3. Running(start, ip, reg, f, sp, mem)
  BY <1>1, <1>2 DEF ProgramInv
<1>p. PICK p \in 236..368 : p = ip
  BY <1>3, Place
<1>r. PICK r \in [Reg8 -> Byte] : r = reg
  BY <1>i DEF MachineTyped
<1>g. PICK g \in Flag : g = f
  BY <1>i DEF MachineTyped
<1>s. PICK s \in 10..16 : s = sp
  BY <1>3, Place
<1>4. Running(start, p, r, g, s, mem)
  BY ONLY <1>3, <1>p, <1>r, <1>g, <1>s
<1>5. OnStack(p \div 256, p % 256)
  <2>1. p \div 256 \in Byte /\ p % 256 \in Byte /\ sp \in 2..16
    BY <1>s DEF Byte
  <2>2. PushWord(p \div 256, p % 256)
    BY ONLY <1>1, <1>p
  <2> QED BY <1>i, <2>1, <2>2, Pushed DEF MachineTyped
<1>6. /\ sp' = s - 2 /\ mem' \in [MCCells -> Byte] /\ mem'[s - 1] = p \div 256 /\ mem'[s - 2] = p % 256
      /\ \A x \in MCCells : x # s - 1 /\ x # s - 2 => mem'[x] = mem[x]
  BY ONLY <1>5, <1>s DEF OnStack
<1>7. Below(mem, mem', s) /\ mem'[65408] = mem[65408]
  BY ONLY <1>6, s \in 10..16, Cells16 DEF Below
<1>8. Running(start, p, r, g, s, mem')
  BY <1>4, <1>7, Kept
<1>9. Saved(1, p, r, g, s)'
  BY <1>1, <1>6, <1>r, <1>g DEF Saved
<1>10. Handling'
  <2>1. ip' \in 369..378 /\ ip' - 368 = 1
    BY <1>1
  <2>2. Saved(ip - 368, p, r, g, s)'
    BY <1>9, <2>1
  <2>3. Running(start', p, r, g, s, mem')
    BY ONLY <1>1, <1>8
  <2> QED BY <2>1, <2>2, <2>3 DEF Handling
<1>11. MachineTyped'
  BY <1>1, <1>6, <1>i DEF MachineTyped
<1>12. Counted'
  BY <1>1, <1>7, CountIs DEF Counted
<1>13. irqs' \in 0..MaxIrqs
  BY <1>1, <1>i, CountIs
<1> QED BY <1>1, <1>i, <1>10, <1>11, <1>12, <1>13 DEF ProgramInv

(* The invariant at a HALT is the property. *)
LEMMA ProgramInvComputes == ProgramInv => RoutinesCompute
<1> SUFFICES ASSUME ProgramInv, Done
             PROVE  /\ sp = Top /\ master
                    /\ ip = IF start.ip = Base + 5 THEN start.ip + 2 ELSE start.ip + 1
                    /\ mem[Count] = start.mem[Count] + MaxIrqs - irqs
                    /\ Correct(reg, start.reg)
  BY DEF RoutinesCompute
<1>1. master
  <2>1. Handling => ip \in 236..378 /\ ip \notin Halts
    BY DEF Handling, Halts
  <2> QED BY <2>1, AtHalt DEF ProgramInv, Done
<1>2. Finished
  <2>1. Running(start, ip, reg, f, sp, mem) => ip \in 236..378 /\ ip \notin Halts
    BY Place
  <2> QED BY <1>1, <2>1, AtHalt DEF ProgramInv, Done
<1> QED BY <1>1, <1>2, CountIs, RoutineAssumption DEF Finished, Base

(* When a routine called with CALL has returned, the stack is where it was  *)
(* and the result is the one its source promises, whatever it was called    *)
(* with and wherever interrupts were taken.                                 *)
THEOREM RoutinesAlwaysCompute == ProgramSpec => []RoutinesCompute
<1>1. ProgramInv /\ [ProgramNext]_programVars => ProgramInv'
  <2>1. ASSUME ProgramInv, UNCHANGED programVars PROVE ProgramInv'
    <3>1. UNCHANGED <<reg, f, sp, ip, mem, master, irqs, start>>
      BY <2>1 DEF programVars
    <3>2. Finished => Finished'
      <4> SUFFICES ASSUME Finished PROVE Correct(reg, start.reg)'
        BY <3>1 DEF Finished
      <4>0. Correct(reg, start.reg)
        BY DEF Finished
      <4>1. CASE start.ip = 236
        BY <3>1, <4>0, <4>1 DEF Correct, HL, Pair, Base
      <4>2. CASE start.ip = 238
        BY <3>1, <4>0, <4>2 DEF Correct, HL, Pair, Base
      <4>3. CASE start.ip = 240
        BY <3>1, <4>0, <4>3 DEF Correct, HL, Pair, Base
      <4>4. CASE start.ip = 243
        BY <3>1, <4>0, <4>4 DEF Correct, HL, Pair, Base
      <4>5. CASE start.ip = 245
        BY <3>1, <4>0, <4>5 DEF Correct, HL, Pair, Base
      <4>6. CASE start.ip = 247
        BY <3>1, <4>0, <4>6 DEF Correct, HL, Pair, Base
      <4>7. CASE start.ip = 249
        BY <3>1, <4>0, <4>7 DEF Correct, HL, Pair, Base
      <4>8. CASE start.ip = 251
        BY <3>1, <4>0, <4>8 DEF Correct, HL, Pair, Base
      <4>9. CASE start.ip = 253
        BY <3>1, <4>0, <4>9 DEF Correct, HL, Pair, Base
      <4>10. CASE start.ip = 256
        BY <3>1, <4>0, <4>10 DEF Correct, HL, Pair, Base
      <4> QED BY <4>1, <4>2, <4>3, <4>4, <4>5, <4>6, <4>7, <4>8, <4>9, <4>10 DEF Finished
    <3>3. Handling => Handling'
      <4> SUFFICES ASSUME Handling PROVE Handling'
        OBVIOUS
      <4>1. PICK p \in 236..368, r \in [Reg8 -> Byte], g \in Flag, s \in 10..16 :
              Running(start, p, r, g, s, mem) /\ ip \in 369..378 /\ Saved(ip - 368, p, r, g, s)
        BY DEF Handling
      <4>2. Saved(ip - 368, p, r, g, s)'
        BY ONLY <3>1, <4>1 DEF Saved
      <4> QED BY <3>1, <4>1, <4>2 DEF Handling
    <3>4. MachineTyped' /\ Counted'
      BY <2>1, <3>1 DEF ProgramInv, MachineTyped, Counted
    <3> QED BY <2>1, <3>1, <3>2, <3>3, <3>4 DEF ProgramInv
  <2> QED BY <2>1, InstructionKeeps, InterruptKeeps DEF ProgramNext
<1> QED BY <1>1, ProgramStarts, ProgramInvComputes, PTL DEF ProgramSpec

=============================================================================
