----------------------------- MODULE DevicesProofs -----------------------------
(***************************************************************************)
(* Proofs about Timer and Devices, for every register size, set of periods, *)
(* length of a DMA and of a transfer and every size of a step below the     *)
(* periods: the timer implements TimerPromise, by itself and in the         *)
(* composition, the DMA copies its page, and a transfer is on time, by its  *)
(* own clock and by that of DIV.                                            *)
(***************************************************************************)
EXTENDS Devices, TLAPS

-----------------------------------------------------------------------------
(* The timer by itself                                                      *)

(* What % gives within two periods                                          *)
LEMMA ModuloBelow ==
  ASSUME NEW v \in Nat, NEW m \in Nat \ {0}, v < m
  PROVE  v % m = v /\ v \div m = 0
OBVIOUS

LEMMA ModuloOnce ==
  ASSUME NEW v \in Nat, NEW m \in Nat \ {0}, m <= v, v < m + m
  PROVE  v % m = v - m /\ v \div m = 1
OBVIOUS

LEMMA TimesMonotone ==
  ASSUME NEW a \in Nat, NEW b \in Nat, NEW d \in Nat, a <= b
  PROVE  a * d \in Nat /\ b * d \in Nat /\ a * d <= b * d
OBVIOUS

(* What % gives of any integer                                              *)
LEMMA ModuloUnique ==
  ASSUME NEW m \in Nat \ {0}, NEW q \in Int, NEW r \in 0..m - 1, NEW a \in Int, a = q * m + r
  PROVE  a % m = r
OBVIOUS

LEMMA ModuloSplit ==
  ASSUME NEW m \in Nat \ {0}, NEW a \in Int
  PROVE  \E q \in Int : a = q * m + (a % m) /\ (a % m) \in 0..m-1
<1>1. a \div m \in Int /\ (a % m) \in 0..m - 1
  OBVIOUS
<1>2. a = (a \div m) * m + (a % m)
  OBVIOUS
<1> QED BY <1>1, <1>2

LEMMA TimesSum ==
  ASSUME NEW m \in Nat \ {0}, NEW q \in Int, NEW k \in Int
  PROVE  (q + k) * m = q * m + k * m /\ q * m \in Int /\ k * m \in Int
OBVIOUS

LEMMA ModuloSum ==
  ASSUME NEW m \in Nat \ {0}, NEW a \in Int, NEW k \in Int
  PROVE  (a + k * m) % m = a % m
<1>1. PICK q \in Int : a = q * m + (a % m) /\ (a % m) \in 0..m-1
  BY ModuloSplit
<1>2. (q + k) * m = q * m + k * m /\ q * m \in Int /\ k * m \in Int /\ q + k \in Int
  BY TimesSum
<1> DEFINE r == a % m
           b == a + k * m
<1>3. b = (q + k) * m + r /\ b \in Int /\ r \in 0..m - 1
  BY <1>1, <1>2
<1> HIDE DEF r, b
<1>4. b % m = r
  BY <1>2, <1>3, ModuloUnique
<1> QED BY <1>4 DEF r, b

LEMMA ModuloMany ==
  ASSUME NEW m \in Nat \ {0}, NEW a \in Int, NEW k \in Int, NEW b, b = a + k * m
  PROVE  b % m = a % m
BY ModuloSum, Zenon

LEMMA StepSize ==
  ASSUME NEW n \in TStates
  PROVE  n \in Nat /\ n < DivPeriod /\ \A p \in Periods : n < p
BY TimerAssumption, StepAssumption DEF TStates

(* Two-digit counters: adding n < d to (q, r) carries at most once.          *)
LEMMA CounterStep ==
  ASSUME NEW b \in Nat \ {0}, NEW d \in Nat \ {0}
  PROVE  \A q \in 0..b - 1, r \in 0..d - 1, n \in 0..d - 1 :
           (q * d + r + n) % (b * d) =
             IF r + n >= d THEN ((q + 1) % b) * d + (r + n - d) ELSE q * d + (r + n)
<1> TAKE q \in 0..b - 1, r \in 0..d - 1, n \in 0..d - 1
<1> DEFINE v == q * d + r + n
<1>1. b * d \in Nat \ {0} /\ q * d \in Nat /\ v \in Nat /\ (q + 1) * d = q * d + d
  OBVIOUS
<1>2. (q + 1) * d <= b * d
  BY <1>1, TimesMonotone
<1>3. CASE r + n < d
  <2>1. v < b * d
    BY <1>1, <1>2, <1>3
  <2> QED BY <1>1, <1>3, <2>1, ModuloBelow
<1>4. CASE r + n >= d /\ q + 1 < b
  <2>1. (q + 2) * d <= b * d /\ (q + 2) * d = q * d + d + d
    BY <1>4, TimesMonotone
  <2>2. v < b * d /\ v % (b * d) = v
    BY <1>1, <1>4, <2>1, ModuloBelow
  <2>3. (q + 1) % b = q + 1
    BY <1>4, ModuloBelow
  <2> QED BY <1>1, <1>4, <2>2, <2>3
<1>5. CASE r + n >= d /\ q + 1 = b
  <2>1. b * d = q * d + d
    BY <1>1, <1>5
  <2>2. b * d <= v /\ v < b * d + b * d
    BY <1>1, <1>5, <2>1
  <2>3. v % (b * d) = v - b * d
    BY <1>1, <2>2, ModuloOnce
  <2>4. (q + 1) % b = 0 /\ ((q + 1) % b) * d = 0
    BY <1>5, ModuloOnce
  <2> QED BY <1>1, <1>5, <2>1, <2>3, <2>4
<1> QED BY <1>3, <1>4, <1>5

-----------------------------------------------------------------------------
(* The registers keep their types and at most one period is ever complete.  *)
THEOREM TypeCorrect == Spec => []TypeOK
<1>1. Init => TypeOK
  <2> SUFFICES ASSUME Init PROVE TypeOK
    OBVIOUS
  <2>1. enable \in BOOLEAN /\ ~enable
    BY Zenon DEF Init
  <2>2. /\ divider \in 0..Byte - 1 /\ dividerCycles \in 0..DivPeriod - 1
        /\ tima \in 0..Byte - 1 /\ tma \in 0..Byte - 1
    BY TimerAssumption DEF Init
  <2> QED BY <2>1, <2>2 DEF Init, TypeOK
<1>2. TypeOK /\ [Next]_vars => TypeOK'
  <2> SUFFICES ASSUME TypeOK, [Next]_vars PROVE TypeOK'
    OBVIOUS
  <2> USE TimerAssumption DEF TypeOK
  <2>1. ASSUME NEW n \in TStates, Tick(n) PROVE TypeOK'
    <3>1. n \in Nat /\ n < DivPeriod /\ \A p \in Periods : n < p
      BY StepSize
    <3>2. (divider + 1) % Byte \in 0..Byte - 1
      OBVIOUS
    <3>3. divider' \in 0..Byte - 1 /\ dividerCycles' \in 0..DivPeriod - 1
      BY <2>1, <3>1, <3>2 DEF Tick, AdvanceDivider
    <3>4. enable' = enable /\ tma' = tma /\ realClockCycle' = realClockCycle
      BY <2>1 DEF Tick
    <3>5. CASE enable
      <4>1. AdvanceTima(n) /\ realClockCycle \in Periods /\ n < realClockCycle
        BY <2>1, <3>1, <3>5 DEF Tick
      <4>2. request' \in {0, 1}
        BY <4>1 DEF AdvanceTima
      <4>3. tima' \in 0..Byte - 1
        BY <4>1 DEF AdvanceTima
      <4>4. currentCycles' \in Nat /\ (currentCycles' = 0 \/ currentCycles' < realClockCycle)
        BY <3>1, <4>1 DEF AdvanceTima
      <4> QED BY <3>3, <3>4, <4>2, <4>3, <4>4
    <3>6. CASE ~enable
      <4>1. currentCycles' = currentCycles /\ tima' = tima /\ request' = 0
        BY <2>1, <3>6 DEF Tick
      <4> QED BY <3>3, <3>4, <4>1
    <3> QED BY <3>5, <3>6
  <2>2. CASE SetDiv
    BY <2>2 DEF SetDiv
  <2>3. ASSUME NEW v \in 0..Byte - 1, SetTima(v) PROVE TypeOK'
    BY <2>3 DEF SetTima
  <2>4. ASSUME NEW v \in 0..Byte - 1, SetTma(v) PROVE TypeOK'
    BY <2>4 DEF SetTma
  <2>5. ASSUME NEW on \in BOOLEAN, NEW p \in Periods, SetTAC(on, p) PROVE TypeOK'
    <3>1. enable' \in BOOLEAN
      BY <2>5, Zenon DEF SetTAC
    <3> QED BY <2>5, <3>1 DEF SetTAC
  <2>6. CASE UNCHANGED vars
    BY <2>6 DEF vars
  <2> QED BY <2>1, <2>2, <2>3, <2>4, <2>5, <2>6 DEF Next
<1> QED BY <1>1, <1>2, PTL DEF Spec

(* a call of Tick adds its T-states to the clock of DIV                     *)
LEMMA DivTick ==
  ASSUME TypeOK, NEW n \in TStates, Tick(n)
  PROVE  DivClock' = (DivClock + n) % (Byte * DivPeriod)
<1>0. /\ divider \in 0..Byte - 1 /\ dividerCycles \in 0..DivPeriod - 1
      /\ n \in 0..DivPeriod - 1
      /\ Byte \in Nat \ {0} /\ DivPeriod \in Nat \ {0}
  BY TimerAssumption, StepSize DEF TypeOK
<1>1. (divider * DivPeriod + dividerCycles + n) % (Byte * DivPeriod) =
        IF dividerCycles + n >= DivPeriod
        THEN ((divider + 1) % Byte) * DivPeriod + (dividerCycles + n - DivPeriod)
        ELSE divider * DivPeriod + (dividerCycles + n)
  <2>1. \A q \in 0..Byte - 1, r \in 0..DivPeriod - 1, k \in 0..DivPeriod - 1 :
          (q * DivPeriod + r + k) % (Byte * DivPeriod) =
            IF r + k >= DivPeriod
            THEN ((q + 1) % Byte) * DivPeriod + (r + k - DivPeriod)
            ELSE q * DivPeriod + (r + k)
    BY <1>0, CounterStep
  <2> QED BY <1>0, <2>1, Zenon
<1>2. AdvanceDivider(n)
  BY DEF Tick
<1> QED BY <1>1, <1>2 DEF AdvanceDivider, DivClock

-----------------------------------------------------------------------------
(* DIV and TIMA keep exact time: every call of Tick, whatever its size, has  *)
(* the effect of the ideal clock, although it tests for one period only.    *)
THEOREM TimerKeepsTime == Spec => KeepsTime
<1> DEFINE clk == divider * DivPeriod + dividerCycles
<1>1. Init => Promise!Init
  BY TimerAssumption DEF Init, Promise!Init
<1>2. TypeOK /\ [Next]_vars => [Promise!Next]_(Promise!vars)
  <2> SUFFICES ASSUME TypeOK, [Next]_vars PROVE [Promise!Next]_(Promise!vars)
    OBVIOUS
  <2> USE TimerAssumption
  <2>1. ASSUME NEW n \in TStates, Tick(n) PROVE Promise!Pass(n)
    <3>1. n \in Nat /\ n < DivPeriod /\ \A p \in Periods : n < p
      BY StepSize
    <3>2. clk' = (clk + n) % (Byte * DivPeriod)
      BY <2>1, DivTick DEF DivClock
    <3>3. CASE enable
      <4> DEFINE ticks == (currentCycles + n) \div realClockCycle
      <4>1. /\ AdvanceTima(n) /\ realClockCycle \in Nat \ {0} /\ n < realClockCycle
            /\ currentCycles \in Nat /\ currentCycles < realClockCycle
            /\ tima \in 0..Byte - 1 /\ tma \in 0..Byte - 1
        BY <2>1, <3>1, <3>3 DEF Tick, TypeOK
      <4>2. CASE currentCycles + n < realClockCycle
        <5>1. ticks = 0 /\ (currentCycles + n) % realClockCycle = currentCycles + n
          BY <3>1, <4>1, <4>2, ModuloBelow
        <5>2. currentCycles' = currentCycles + n /\ tima' = tima
          BY <3>1, <4>1, <4>2 DEF AdvanceTima
        <5>3. request' = IF tima + ticks >= Byte THEN 1 ELSE 0
          BY <3>1, <4>1, <4>2, <5>1 DEF AdvanceTima
        <5>4. tima' = Promise!AfterTicks(ticks)
          BY <4>1, <5>1, <5>2 DEF Promise!AfterTicks
        <5> QED BY <2>1, <3>2, <3>3, <5>1, <5>2, <5>3, <5>4 DEF Promise!Pass, Tick
      <4>3. CASE currentCycles + n >= realClockCycle
        <5> DEFINE v == currentCycles + n
        <5>0. v \in Nat /\ realClockCycle <= v /\ v < realClockCycle + realClockCycle
          BY <3>1, <4>1, <4>3
        <5>1. ticks = 1 /\ (currentCycles + n) % realClockCycle = currentCycles + n - realClockCycle
          <6> HIDE DEF v
          <6>1. v % realClockCycle = v - realClockCycle /\ v \div realClockCycle = 1
            BY <4>1, <5>0, ModuloOnce
          <6> QED BY <3>1, <4>1, <6>1 DEF v
        <5>2. /\ currentCycles' = currentCycles + n - realClockCycle
              /\ tima' = IF tima + 1 = Byte THEN tma ELSE tima + 1
          BY <4>1, <4>3 DEF AdvanceTima
        <5>3. request' = IF tima + ticks >= Byte THEN 1 ELSE 0
          BY <4>1, <4>3, <5>1 DEF AdvanceTima
        <5>4. tima' = Promise!AfterTicks(ticks)
          <6>1. CASE tima + 1 < Byte
            BY <4>1, <5>1, <5>2, <6>1 DEF Promise!AfterTicks
          <6>2. CASE tima + 1 = Byte
            <7>1. 0 % (Byte - tma) = 0
              BY <4>1, ModuloBelow
            <7> QED BY <4>1, <5>1, <5>2, <6>2, <7>1 DEF Promise!AfterTicks
          <6> QED BY <4>1, <6>1, <6>2
        <5> QED BY <2>1, <3>2, <3>3, <5>1, <5>2, <5>3, <5>4 DEF Promise!Pass, Tick
      <4> QED BY <3>1, <4>1, <4>2, <4>3
    <3>4. CASE ~enable
      BY <2>1, <3>2, <3>4 DEF Promise!Pass, Tick
    <3> QED BY <3>3, <3>4
  <2>2. ASSUME SetDiv PROVE Promise!ResetDiv
    <3>1. clk' = 0
      BY <2>2 DEF SetDiv
    <3>2. /\ request' = 0 /\ currentCycles' = currentCycles /\ realClockCycle' = realClockCycle
          /\ enable' = enable /\ tima' = tima /\ tma' = tma
      BY <2>2 DEF SetDiv
    <3> QED BY <3>1, <3>2, Zenon DEF Promise!ResetDiv
  <2>3. ASSUME NEW v \in 0..Byte - 1, SetTima(v) PROVE Promise!WriteTima
    BY <2>3 DEF SetTima, Promise!WriteTima
  <2>4. ASSUME NEW v \in 0..Byte - 1, SetTma(v) PROVE Promise!WriteTma
    BY <2>4 DEF SetTma, Promise!WriteTma
  <2>5. ASSUME NEW on \in BOOLEAN, NEW p \in Periods, SetTAC(on, p) PROVE Promise!Select
    BY <2>5, Zenon DEF SetTAC, Promise!Select
  <2>6. CASE UNCHANGED vars
    BY <2>6 DEF vars, Promise!vars
  <2> QED
    BY <2>1, <2>2, <2>3, <2>4, <2>5, <2>6 DEF Next, Promise!Next
<1> QED BY <1>1, <1>2, TypeCorrect, PTL DEF Spec, KeepsTime, Promise!Spec

-----------------------------------------------------------------------------
(* The timer as a part of Sync                                              *)

LEMMA StepsAreShort ==
  \A n \in TStates : n \in Nat /\ n < SerialPeriod
<1> SUFFICES ASSUME NEW n \in TStates PROVE n \in Nat /\ n < SerialPeriod
  OBVIOUS
<1>1. PICK c \in MCycles : n = c * Rate
  BY DEF TStates
<1>2. c \in Nat /\ Rate \in Nat
  BY <1>1, TimerAssumption
<1> QED BY <1>1, <1>2, DevicesAssumption

LEMMA TimerStep == [SysNext]_sysVars => [Next]_vars
<1> SUFFICES ASSUME [SysNext]_sysVars PROVE [Next]_vars
  OBVIOUS
<1>1. ASSUME NEW n \in TStates, NEW h \in BOOLEAN, SyncAll(n, h) PROVE Next
  BY <1>1 DEF SyncAll, Next
<1>2. CASE SendReturns
  BY <1>2 DEF SendReturns
<1>3. CASE PeerTransfer
  BY <1>3 DEF PeerTransfer
<1>4. CASE GameDiv
  BY <1>4 DEF GameDiv, Next
<1>5. CASE GameTimer
  BY <1>5 DEF GameTimer, Next
<1>6. CASE GameDma
  BY <1>6 DEF GameDma
<1>7. CASE GameSerial
  BY <1>7 DEF GameSerial
<1>8. CASE UNCHANGED sysVars
  BY <1>8 DEF sysVars
<1> QED BY <1>1, <1>2, <1>3, <1>4, <1>5, <1>6, <1>7, <1>8 DEF SysNext

LEMMA TimerInSystem == SysSpec => Spec
<1>1. SysInit => Init
  BY DEF SysInit
<1> QED BY <1>1, TimerStep, PTL DEF SysSpec, Spec

(* Under Sync, with the other devices and with the emulation thread waiting *)
(* in a serial transfer, the timer keeps exact time.                        *)
THEOREM DevicesKeepTime == SysSpec => KeepsTime
BY TimerInSystem, TimerKeepsTime

-----------------------------------------------------------------------------
(* The serial port: the count restarts with the history of the transfer,    *)
(* whatever happened to the one before.                                     *)
PortInv ==
  /\ count \in 0..SerialPeriod - 1 /\ elapsed \in Nat
  /\ flag \in BOOLEAN /\ internal \in BOOLEAN /\ sending \in BOOLEAN
  /\ flag /\ internal /\ ~sending => elapsed = count
  /\ sending => elapsed = SerialPeriod

LEMMA PortClock ==
  ASSUME PortInv, NEW n \in TStates, ~sending, Port!Clock(n)
  PROVE  PortInv'
<1> USE DEF PortInv, Port!vars
<1>0. n \in Nat /\ n < SerialPeriod /\ SerialPeriod \in Nat
  BY StepsAreShort, DevicesAssumption
<1>1. CASE ~flag
  BY <1>1 DEF Port!Clock
<1>2. CASE flag /\ count + n < SerialPeriod
  BY <1>0, <1>2 DEF Port!Clock
<1>3. CASE flag /\ ~(count + n < SerialPeriod) /\ internal
  BY <1>0, <1>3 DEF Port!Clock
<1>4. CASE flag /\ ~(count + n < SerialPeriod) /\ ~internal
  BY <1>0, <1>4 DEF Port!Clock
<1> QED BY <1>1, <1>2, <1>3, <1>4

LEMMA PortInvariant == SysSpec => []PortInv
<1>1. SysInit => PortInv
  <2> SUFFICES ASSUME SysInit PROVE PortInv
    OBVIOUS
  <2>1. flag = FALSE /\ internal = FALSE /\ sending = FALSE /\ count = 0 /\ elapsed = 0
    BY DEF SysInit, Port!Init
  <2>2. SerialPeriod \in Nat \ {0}
    BY DevicesAssumption
  <2>3. flag \in BOOLEAN /\ internal \in BOOLEAN /\ sending \in BOOLEAN
    BY <2>1, Zenon
  <2>4. ~flag /\ ~internal /\ ~sending
    BY <2>1, Zenon
  <2>5. count \in 0..SerialPeriod - 1 /\ elapsed \in Nat
    BY <2>1, <2>2
  <2> QED BY <2>3, <2>4, <2>5 DEF PortInv
<1>2. PortInv /\ [SysNext]_sysVars => PortInv'
  <2> SUFFICES ASSUME PortInv, [SysNext]_sysVars PROVE PortInv'
    OBVIOUS
  <2>1. ASSUME NEW n \in TStates, NEW h \in BOOLEAN, SyncAll(n, h) PROVE PortInv'
    BY <2>1, PortClock DEF SyncAll
  <2>2. CASE SendReturns
    BY <2>2 DEF SendReturns, Port!SendReturns, Port!EndTransfer, PortInv
  <2>3. CASE PeerTransfer
    <3>1. flag' = FALSE /\ UNCHANGED <<internal, count, sending, elapsed>>
      BY <2>3, Zenon DEF PeerTransfer, Port!PeerTransfer, Port!EndTransfer
    <3> QED BY <3>1 DEF PortInv
  <2>4. CASE GameDiv
    BY <2>4 DEF GameDiv, portVars, PortInv
  <2>5. CASE GameTimer
    BY <2>5 DEF GameTimer, portVars, PortInv
  <2>6. CASE GameDma
    BY <2>6 DEF GameDma, portVars, PortInv
  <2>7. CASE GameSerial
    <3>1. ASSUME NEW v \in Values, Port!WriteData(v) PROVE PortInv'
      BY <3>1 DEF Port!WriteData, PortInv
    <3>2. ASSUME NEW f \in BOOLEAN, NEW c \in BOOLEAN, ~sending, Port!WriteControl(f, c) PROVE PortInv'
      <4>1. flag' = f /\ internal' = c /\ count' = 0 /\ elapsed' = 0 /\ sending' = sending
        BY <3>2 DEF Port!WriteControl
      <4>2. flag' \in BOOLEAN /\ internal' \in BOOLEAN
        BY <4>1
      <4>3. SerialPeriod \in Nat \ {0} /\ sending' = FALSE
        BY <3>2, <4>1, DevicesAssumption DEF PortInv
      <4> QED BY <4>1, <4>2, <4>3 DEF PortInv
    <3> QED BY <2>7, <3>1, <3>2 DEF GameSerial
  <2>8. CASE UNCHANGED sysVars
    BY <2>8 DEF sysVars, portVars, PortInv
  <2> QED BY <2>1, <2>2, <2>3, <2>4, <2>5, <2>6, <2>7, <2>8 DEF SysNext
<1> QED BY <1>1, <1>2, PTL DEF SysSpec

(* A transfer with the internal clock is sent exactly one period after the  *)
(* game started it, whatever the game and the peer did to earlier ones.     *)
THEOREM TransfersAreOnTime == SysSpec => []SentOnTime
<1>1. PortInv => SentOnTime
  BY DevicesAssumption DEF PortInv, SentOnTime, Port!SentOnTime
<1> QED BY <1>1, PortInvariant, PTL

-----------------------------------------------------------------------------
(* The clocks of DIV and of the serial port: what both have counted cancels *)
(* in their distance, however often either has come round.                  *)

Turn == Byte * DivPeriod

LEMMA TurnTyped == Turn \in Nat \ {0}
BY TimerAssumption DEF Turn

LEMMA DistanceTyped ==
  ASSUME TypeOK, PortInv
  PROVE  DivClock \in Int /\ elapsed \in Int /\ Ahead = (DivClock - elapsed) % Turn /\ Ahead \in Int
<1>1. DivClock \in Int /\ elapsed \in Int
  BY TimerAssumption DEF TypeOK, PortInv, DivClock
<1> QED BY <1>1, TurnTyped DEF Ahead, Turn

LEMMA DistanceTypedNext ==
  ASSUME TypeOK', PortInv'
  PROVE  Ahead' \in Int
<1>1. DivClock' \in Int /\ elapsed' \in Int
  BY TimerAssumption DEF TypeOK, PortInv, DivClock
<1> QED BY <1>1, TurnTyped DEF Ahead, Turn

(* A clock that has come round is as far from another one as before.        *)
LEMMA DistanceStep ==
  ASSUME NEW m \in Nat \ {0}, NEW w \in Int, NEW u \in Int, NEW x \in Int,
         x - (w % m) = u - w
  PROVE  x % m = u % m
<1>1. PICK q \in Int : w = q * m + (w % m)
  BY ModuloSplit
<1> DEFINE r == w % m
<1>2. r \in Int /\ q * m \in Int
  BY <1>1, TimesSum
<1>3. w = q * m + r /\ x - r = u - w
  BY <1>1
<1> HIDE DEF r
<1>4. u = x + q * m
  BY <1>2, <1>3
<1> QED BY <1>4, ModuloMany

LEMMA TurnDistance ==
  \A w, u, x \in Int : x - (w % Turn) = u - w => x % Turn = u % Turn
<1>1. \A m \in Nat \ {0} : \A w, u, x \in Int : x - (w % m) = u - w => x % m = u % m
  BY DistanceStep, Zenon
<1> QED BY <1>1, TurnTyped, Zenon

LEMMA DistanceKept ==
  ASSUME NEW m \in Nat \ {0}, NEW a \in Int, NEW d \in Nat, NEW u \in Int, u = a + d
  PROVE  ((u % m) - (a % m)) % m <= d
<1>1. PICK q \in Int : u = q * m + (u % m)
  BY ModuloSplit
<1>2. PICK k \in Int : a = k * m + (a % m)
  BY ModuloSplit
<1> DEFINE r == u % m
           s == a % m
           j == k - q
           c == r - s
<1>3. r \in Int /\ s \in Int /\ j \in Int /\ c \in Int /\ d \in Int
  BY <1>1, <1>2
<1>4. (j + q) * m = j * m + q * m /\ j * m \in Int /\ q * m \in Int
  BY <1>3, TimesSum
<1>5. j + q = k
  OBVIOUS
<1>6. u = q * m + r /\ a = k * m + s
  BY <1>1, <1>2
<1> HIDE DEF r, s, j
<1>7. c = d + j * m
  BY <1>3, <1>4, <1>5, <1>6
<1> HIDE DEF c
<1>8. c % m = d % m
  BY <1>3, <1>7, ModuloMany, Zenon
<1>9. d % m <= d
  OBVIOUS
<1> QED BY <1>8, <1>9 DEF c, r, s

ClockInv == lead \in Int /\ OneClock

LEMMA ClockSync ==
  ASSUME TypeOK, PortInv, TypeOK', PortInv', ClockInv, NEW n \in TStates, NEW h \in BOOLEAN,
         SyncAll(n, h)
  PROVE  ClockInv'
<1>1. ~sending /\ lead' = lead /\ Port!Clock(n) /\ Tick(n)
  BY DEF SyncAll
<1>2. n \in Nat /\ n < SerialPeriod /\ SerialPeriod \in Nat
  BY StepsAreShort, DevicesAssumption
<1>3. DivClock' = (DivClock + n) % Turn
  BY <1>1, DivTick DEF Turn
<1>4. CASE ~flag
  BY <1>1, <1>4 DEF Port!Clock, Port!vars, ClockInv, OneClock
<1>5. CASE flag /\ ~internal
  BY <1>1, <1>2, <1>5 DEF Port!Clock, ClockInv, OneClock
<1>6. CASE flag /\ internal
  <2>1. lead = Ahead /\ elapsed = count
    BY <1>1, <1>6 DEF ClockInv, OneClock, PortInv
  <2>2. CASE count + n < SerialPeriod
    <3>1. elapsed' = elapsed + n /\ ~sending'
      BY <1>1, <1>6, <2>2 DEF Port!Clock
    <3>2. Ahead' = (((DivClock + n) % Turn) - (elapsed + n)) % Turn
      BY <1>2, <1>3, <3>1, DistanceTyped DEF Ahead, Turn
    <3>3. Ahead' = Ahead
      <4> DEFINE w == DivClock + n
                 u == DivClock - elapsed
                 x == (w % Turn) - (elapsed + n)
      <4>0. w \in Int /\ u \in Int /\ w % Turn \in Int
        BY <1>2, DistanceTyped, TurnTyped
      <4>1. x \in Int /\ x - (w % Turn) = u - w
        BY <1>2, <4>0, DistanceTyped
      <4>2. Ahead' = x % Turn /\ Ahead = u % Turn
        BY <3>2, DistanceTyped
      <4> HIDE DEF w, u, x
      <4>3. x % Turn = u % Turn
        BY <4>0, <4>1, TurnDistance, Zenon
      <4> QED BY <4>2, <4>3
    <3> QED BY <1>1, <2>1, <3>1, <3>3 DEF ClockInv, OneClock
  <2>3. CASE count + n >= SerialPeriod
    <3> DEFINE d == n - (SerialPeriod - count)
    <3>1. elapsed' = elapsed + n - d /\ sending' /\ d \in Nat /\ d < n
      BY <1>1, <1>2, <1>6, <2>1, <2>3 DEF Port!Clock, PortInv
    <3> HIDE DEF d
    <3>2. Ahead' = (((DivClock + n) % Turn) - (elapsed + n - d)) % Turn
      BY <1>3, <3>1 DEF Ahead, Turn
    <3>3. Ahead' = (DivClock - elapsed + d) % Turn
      <4> DEFINE w == DivClock + n
                 u == DivClock - elapsed + d
                 x == (w % Turn) - (elapsed + n - d)
      <4>0. w \in Int /\ u \in Int /\ w % Turn \in Int
        BY <1>2, <3>1, DistanceTyped, TurnTyped
      <4>1. x \in Int /\ x - (w % Turn) = u - w
        BY <1>2, <3>1, <4>0, DistanceTyped
      <4>2. Ahead' = x % Turn
        BY <3>2
      <4> HIDE DEF w, x
      <4>3. Ahead' = u % Turn
        <5> HIDE DEF u
        <5>1. x % Turn = u % Turn
          BY <4>0, <4>1, TurnDistance, Zenon
        <5> QED BY <4>2, <5>1
      <4> QED BY <4>3
    <3>4. (Ahead' - lead) % Turn <= d
      <4>1. lead = (DivClock - elapsed) % Turn /\ DivClock - elapsed \in Int
        BY <2>1, DistanceTyped
      <4>2. DivClock - elapsed + d \in Int
        BY <3>1, <4>1
      <4>3. (((DivClock - elapsed + d) % Turn) - ((DivClock - elapsed) % Turn)) % Turn <= d
        BY <3>1, <4>1, <4>2, DistanceKept, TurnTyped, Zenon
      <4> QED BY <3>3, <4>1, <4>3
    <3>5. (Ahead' - lead') % (Byte * DivPeriod) < n
      <4>1. Ahead' \in Int /\ lead \in Int
        BY <3>3, TurnTyped, <3>1, DistanceTyped DEF ClockInv
      <4> QED BY <1>1, <1>2, <3>1, <3>4, <4>1, TurnTyped DEF Turn
    <3> QED BY <1>1, <3>1, <3>5 DEF ClockInv, OneClock
  <2> QED BY <1>2, <2>2, <2>3 DEF PortInv
<1> QED BY <1>4, <1>5, <1>6 DEF PortInv

(* A transfer takes one period by the clock of DIV as well: no T-state of a *)
(* Sync is counted by one of the two only, in any mix of steps.             *)
THEOREM ClocksAgree == SysSpec => []OneClock
<1>1. SysInit => ClockInv
  BY DEF SysInit, Port!Init, ClockInv, OneClock
<1>2. TypeOK /\ PortInv /\ TypeOK' /\ PortInv' /\ ClockInv /\ [SysNext]_sysVars => ClockInv'
  <2> SUFFICES ASSUME TypeOK, PortInv, TypeOK', PortInv', ClockInv, [SysNext]_sysVars
               PROVE  ClockInv'
    OBVIOUS
  <2>1. ASSUME NEW n \in TStates, NEW h \in BOOLEAN, SyncAll(n, h) PROVE ClockInv'
    BY <2>1, ClockSync
  <2>2. CASE SendReturns
    BY <2>2 DEF SendReturns, Port!SendReturns, Port!EndTransfer, ClockInv, OneClock
  <2>3. CASE PeerTransfer
    BY <2>3 DEF PeerTransfer, Port!PeerTransfer, Port!EndTransfer, ClockInv, OneClock
  <2>4. CASE GameDiv
    <3>1. lead' = Ahead' /\ sending' = sending /\ ~sending
      BY <2>4 DEF GameDiv, portVars
    <3> QED BY <3>1, DistanceTypedNext DEF ClockInv, OneClock
  <2>5. CASE GameTimer
    BY <2>5 DEF GameTimer, portVars, SetTima, SetTma, SetTAC, ClockInv, OneClock, Ahead, DivClock
  <2>6. CASE GameDma
    BY <2>6 DEF GameDma, portVars, vars, ClockInv, OneClock, Ahead, DivClock
  <2>7. CASE GameSerial
    <3>1. ASSUME NEW v \in Values, Port!WriteData(v), UNCHANGED <<vars, lead>> PROVE ClockInv'
      BY <3>1 DEF Port!WriteData, vars, ClockInv, OneClock, Ahead, DivClock
    <3>2. ASSUME NEW f \in BOOLEAN, NEW c \in BOOLEAN, ~sending, Port!WriteControl(f, c), lead' = Ahead'
          PROVE ClockInv'
      <4>1. ~sending' /\ lead' = Ahead'
        BY <3>2 DEF Port!WriteControl
      <4> QED BY <4>1, DistanceTypedNext DEF ClockInv, OneClock
    <3> QED BY <2>7, <3>1, <3>2 DEF GameSerial
  <2>8. CASE UNCHANGED sysVars
    BY <2>8 DEF sysVars, portVars, vars, ClockInv, OneClock, Ahead, DivClock
  <2> QED BY <2>1, <2>2, <2>3, <2>4, <2>5, <2>6, <2>7, <2>8 DEF SysNext
<1>3. ClockInv => OneClock
  BY DEF ClockInv
<1>4. SysSpec => []TypeOK
  BY TimerInSystem, TypeCorrect
<1> QED BY <1>1, <1>2, <1>3, <1>4, PortInvariant, PTL DEF SysSpec

-----------------------------------------------------------------------------
(* The DMA: what is still to be copied is as it was, but for the bytes the  *)
(* game has written.                                                        *)
DmaTyped ==
  /\ ram \in [0..DmaLength - 1 -> Values]
  /\ oam \in [0..DmaLength - 1 -> Values \cup {FF}]
  /\ before \in [0..DmaLength - 1 -> Values \cup {FF}]
  /\ index \in 0..DmaLength - 1 /\ age \in 0..DmaLength
  /\ hidden \subseteq 0..age - 1
  /\ page \in {"none", "ram", "oam"} /\ running \in BOOLEAN

DmaInv ==
  /\ DmaTyped
  /\ running => age = index /\ page # "none"
  /\ \A i \in 0..DmaLength - 1 : i \notin changed =>
       /\ i < age => oam[i] = IF i \in hidden THEN FF ELSE before[i]
       /\ running /\ i >= index /\ page = "ram" => before[i] = ram[i]
       /\ running /\ i >= index /\ page = "oam" => before[i] = oam[i]

LEMMA DmaAdvance ==
  ASSUME DmaInv, NEW n \in Nat, NEW h \in BOOLEAN, Dma!Advance(n, h)
  PROVE  DmaInv'
<1> USE DEF DmaInv, DmaTyped, Dma!Index
<1>0. DmaLength \in Nat \ {0}
  BY DevicesAssumption
<1>1. CASE ~running
  BY <1>1 DEF Dma!Advance, Dma!vars
<1>2. CASE running
  <2> DEFINE next == IF index + n < DmaLength THEN index + n ELSE DmaLength
  <2> DEFINE now == index..next - 1
  <2>1. next \in index..DmaLength /\ (next = DmaLength \/ next = index + n)
    BY <1>0
  <2>2. oam' = [i \in 0..DmaLength - 1 |-> IF i \in now THEN Dma!Source(i, h) ELSE oam[i]]
    BY <1>2 DEF Dma!Advance
  <2>3. age' = next
    BY <1>0, <1>2 DEF Dma!Advance
  <2>4. hidden' = IF h /\ page = "oam" THEN hidden \cup now ELSE hidden
    BY <1>2 DEF Dma!Advance
  <2>5. IF next = DmaLength THEN running' = FALSE /\ page' = "none" /\ index' = 0
                            ELSE index' = next /\ running' = running /\ page' = page
    BY <1>2 DEF Dma!Advance
  <2>6. ram' = ram /\ before' = before /\ changed' = changed
    BY <1>2 DEF Dma!Advance
  <2> HIDE DEF next
  <2>7. DmaTyped'
    <3>1. \A i \in 0..DmaLength - 1 : Dma!Source(i, h) \in Values \cup {FF}
      BY DEF Dma!Source
    <3>2. oam' \in [0..DmaLength - 1 -> Values \cup {FF}]
      BY <2>2, <3>1
    <3>3. hidden' \subseteq 0..age' - 1
      BY <1>0, <1>2, <2>1, <2>3, <2>4
    <3>4. running' \in BOOLEAN
      BY <2>5, Zenon
    <3>5. index' \in 0..DmaLength - 1 /\ age' \in 0..DmaLength
      BY <1>0, <2>1, <2>3, <2>5
    <3>6. page' \in {"none", "ram", "oam"}
      BY <2>5
    <3> QED BY <2>6, <3>2, <3>3, <3>4, <3>5, <3>6
  <2>8. running' => age' = index' /\ page' # "none"
    BY <1>2, <2>3, <2>5
  <2>9. ASSUME NEW i \in 0..DmaLength - 1, i \notin changed', i < age'
        PROVE  oam'[i] = IF i \in hidden' THEN FF ELSE before'[i]
    <3>1. CASE i \in now
      <4>1. oam'[i] = Dma!Source(i, h)
        BY <2>2, <3>1
      <4>2. i >= index /\ i \notin hidden
        BY <1>2, <3>1
      <4> QED BY <1>2, <2>4, <2>6, <2>9, <3>1, <4>1, <4>2 DEF Dma!Source
    <3>2. CASE i \notin now
      <4>1. oam'[i] = oam[i] /\ i < age
        BY <1>2, <2>1, <2>2, <2>3, <2>9, <3>2
      <4> QED BY <2>4, <2>6, <2>9, <3>2, <4>1
    <3> QED BY <3>1, <3>2
  <2>10. ASSUME NEW i \in 0..DmaLength - 1, i \notin changed', running', i >= index'
         PROVE  /\ page' = "ram" => before'[i] = ram'[i]
                /\ page' = "oam" => before'[i] = oam'[i]
    <3>1. i >= index /\ i \notin now
      <4>1. next # DmaLength /\ index' = next
        BY <2>5, <2>10
      <4>2. next \in Nat /\ index \in Nat /\ i \in Nat /\ index <= next /\ i >= next
        BY <1>0, <2>1, <2>10, <4>1
      <4> QED BY <4>2
    <3>2. oam'[i] = oam[i]
      BY <2>2, <3>1
    <3> QED BY <1>2, <2>5, <2>6, <2>10, <3>1, <3>2
  <2> QED BY <2>7, <2>8, <2>9, <2>10
<1> QED BY <1>1, <1>2

LEMMA DmaAccess ==
  ASSUME DmaInv,
         \/ \E p \in {"ram", "oam"} : Dma!Start(p)
         \/ \E i \in 0..DmaLength - 1, v \in Values : Dma!WriteRam(i, v) \/ Dma!WriteOam(i, v)
  PROVE  DmaInv'
<1> USE DEF DmaInv, DmaTyped
<1>0. DmaLength \in Nat \ {0}
  BY DevicesAssumption
<1>1. ASSUME NEW p \in {"ram", "oam"}, Dma!Start(p) PROVE DmaInv'
  BY <1>0, <1>1 DEF Dma!Start
<1>2. ASSUME NEW i \in 0..DmaLength - 1, NEW v \in Values, Dma!WriteRam(i, v) PROVE DmaInv'
  BY <1>0, <1>2 DEF Dma!WriteRam
<1>3. ASSUME NEW i \in 0..DmaLength - 1, NEW v \in Values, Dma!WriteOam(i, v) PROVE DmaInv'
  BY <1>0, <1>3 DEF Dma!WriteOam
<1> QED BY <1>1, <1>2, <1>3

(* For every length of the page and every sequence of steps, restarts and   *)
(* writes of the game, the DMA copies what it should, one byte per T-state. *)
THEOREM PagesAreCopied == SysSpec => []DmaCopies
<1>1. SysInit => DmaInv
  <2> SUFFICES ASSUME SysInit PROVE DmaInv
    OBVIOUS
  <2>1. /\ running = FALSE /\ page = "none" /\ index = 0 /\ age = 0
        /\ ram \in [0..DmaLength - 1 -> Values] /\ before = ram
        /\ oam = [i \in 0..DmaLength - 1 |-> FF]
        /\ changed = 0..DmaLength - 1 /\ hidden = {}
    BY DEF SysInit, Dma!Init, Dma!Index
  <2>2. DmaLength \in Nat \ {0}
    BY DevicesAssumption
  <2>3. oam \in [0..DmaLength - 1 -> Values \cup {FF}]
    BY <2>1
  <2>4. before \in [0..DmaLength - 1 -> Values \cup {FF}]
    BY <2>1
  <2>5. DmaTyped
    <3>1. running \in BOOLEAN
      BY <2>1, Zenon
    <3>2. index \in 0..DmaLength - 1 /\ age \in 0..DmaLength
      BY <2>1, <2>2
    <3> QED BY <2>1, <2>3, <2>4, <3>1, <3>2 DEF DmaTyped
  <2> QED BY <2>1, <2>5 DEF DmaInv
<1>2. DmaInv /\ [SysNext]_sysVars => DmaInv'
  <2> SUFFICES ASSUME DmaInv, [SysNext]_sysVars PROVE DmaInv'
    OBVIOUS
  <2>1. ASSUME NEW n \in TStates, NEW h \in BOOLEAN, SyncAll(n, h) PROVE DmaInv'
    BY <2>1, StepsAreShort, DmaAdvance DEF SyncAll
  <2>2. CASE GameDma
    BY <2>2, DmaAccess DEF GameDma
  <2>3. CASE UNCHANGED dmaVars
    BY <2>3 DEF dmaVars, DmaInv, DmaTyped
  <2> QED BY <2>1, <2>2, <2>3
          DEF SysNext, SendReturns, PeerTransfer, GameDiv, GameTimer, GameSerial, sysVars
<1>3. DmaInv => DmaCopies
  BY DEF DmaInv, DmaTyped, DmaCopies, Dma!Copies, Dma!Index
<1> QED BY <1>1, <1>2, <1>3, PTL DEF SysSpec
=============================================================================
