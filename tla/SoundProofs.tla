------------------------------- MODULE SoundProofs -------------------------------
(* Theorems about SoundChannel, for every length of a step, of a note and   *)
(* of the LFSR.                                                             *)
EXTENDS SoundChannel, WellFoundedInduction, TLAPS

(* A shift in the wide mode loses no bit but the lowest, and that one only  *)
(* into the new highest: what is not all zeros does not become so.          *)
LEMMA WideShiftLives ==
  ASSUME NEW bits \in [Bits -> BOOLEAN], ~AllZero(bits)
  PROVE  ~AllZero(ClockLfsr(bits, FALSE))
<1> DEFINE after == ClockLfsr(bits, FALSE)
<1>1. PICK i \in Bits : bits[i]
  BY DEF AllZero
<1>2. Width \in Nat /\ Width >= 3
  BY SMT, SoundAssumption DEF SoundAssumption
<1>3. CASE i # 0
  <2>1. i - 1 \in Bits /\ i - 1 # Width - 1 /\ (i - 1) + 1 = i
    BY SMT, <1>2, <1>3 DEF Bits
  <2>2. after[i - 1] = bits[i]
    BY <2>1 DEF ClockLfsr
  <2> QED BY <1>1, <2>1, <2>2 DEF AllZero
<1>4. CASE i = 0
  <2>1. CASE bits[1]
    <3>1. 0 \in Bits /\ 0 # Width - 1 /\ 0 + 1 = 1
      BY SMT, <1>2 DEF Bits
    <3>2. after[0] = bits[1]
      BY <3>1 DEF ClockLfsr
    <3> QED BY <2>1, <3>1, <3>2 DEF AllZero
  <2>2. CASE ~bits[1]
    <3>1. Width - 1 \in Bits
      BY SMT, <1>2 DEF Bits
    <3>2. after[Width - 1] = (bits[0] # bits[1])
      BY <3>1 DEF ClockLfsr
    <3> QED BY <1>1, <1>4, <2>2, <3>1, <3>2 DEF AllZero
  <2> QED BY <2>1, <2>2
<1> QED BY <1>3, <1>4

(* In the short mode the same is true of the short part.                    *)
LEMMA ShortShiftLives ==
  ASSUME NEW bits \in [Bits -> BOOLEAN], ~ShortZero(bits)
  PROVE  ~ShortZero(ClockLfsr(bits, TRUE))
<1> DEFINE after == ClockLfsr(bits, TRUE)
<1>1. PICK i \in 0..ShortBit : bits[i]
  BY DEF ShortZero
<1>2. Width \in Nat /\ ShortBit \in 1..Width - 2
  BY SMT, SoundAssumption DEF SoundAssumption
<1>3. CASE i # 0
  <2>1. i - 1 \in 0..ShortBit /\ i - 1 \in Bits /\ i - 1 # Width - 1 /\ i - 1 # ShortBit
        /\ (i - 1) + 1 = i
    BY SMT, <1>2, <1>3 DEF Bits
  <2>2. after[i - 1] = bits[i]
    BY <2>1 DEF ClockLfsr
  <2> QED BY <1>1, <2>1, <2>2 DEF ShortZero
<1>4. CASE i = 0
  <2>1. CASE bits[1] /\ ShortBit # 0
    <3>1. 0 \in 0..ShortBit /\ 0 \in Bits /\ 0 # Width - 1 /\ 0 # ShortBit /\ 0 + 1 = 1
      BY SMT, <1>2 DEF Bits
    <3>2. after[0] = bits[1]
      BY <3>1 DEF ClockLfsr
    <3> QED BY <2>1, <3>1, <3>2 DEF ShortZero
  <2>2. CASE ~bits[1]
    <3>1. ShortBit \in Bits /\ ShortBit \in 0..ShortBit
      BY SMT, <1>2 DEF Bits
    <3>2. after[ShortBit] = (bits[0] # bits[1])
      BY <3>1 DEF ClockLfsr
    <3> QED BY <1>1, <1>4, <2>2, <3>1, <3>2 DEF ShortZero
  <2>3. ShortBit # 0
    BY SMT, <1>2
  <2> QED BY <2>1, <2>2, <2>3
<1> QED BY <1>3, <1>4

LEMMA ShiftTyped ==
  ASSUME NEW bits \in [Bits -> BOOLEAN], NEW short \in BOOLEAN
  PROVE  ClockLfsr(bits, short) \in [Bits -> BOOLEAN]
<1>1. \A i \in Bits : i # Width - 1 => i + 1 \in Bits
  BY SMT, SoundAssumption DEF Bits, SoundAssumption
<1>2. 0 \in Bits /\ 1 \in Bits
  BY SMT, SoundAssumption DEF Bits, SoundAssumption
<1>3. (bits[0] # bits[1]) \in BOOLEAN
  OBVIOUS
<1>4. \A i \in Bits :
        (IF i = Width - 1 \/ (short /\ i = ShortBit) THEN bits[0] # bits[1] ELSE bits[i + 1])
          \in BOOLEAN
  BY Zenon, <1>1, <1>3
<1> QED BY Zenon, <1>4 DEF ClockLfsr

(* The short part is a part: what is zero in all is zero in it.             *)
LEMMA ShortIsPart ==
  ASSUME NEW bits, AllZero(bits)
  PROVE  ShortZero(bits)
<1>1. \A i \in 0..ShortBit : i \in Bits
  BY SMT, SoundAssumption DEF Bits, SoundAssumption
<1> QED BY <1>1 DEF AllZero, ShortZero

(* The inductive strengthening of NoiseNeverDies: in short mode it is the   *)
(* short part that must not be zero, since the bits above it die out.       *)
LfsrLives ==
  /\ lfsr \in [Bits -> BOOLEAN]
  /\ poly.short \in BOOLEAN
  /\ doomed \/ (~AllZero(lfsr) /\ (poly.short => ~ShortZero(lfsr)))

LEMMA LivesAtFirst == Init => LfsrLives
<1> SUFFICES ASSUME Init PROVE LfsrLives
  OBVIOUS
<1>1. lfsr = [i \in Bits |-> TRUE] /\ poly.short = FALSE
  BY DEF Init
<1>2. 0 \in Bits
  BY SMT, SoundAssumption DEF Bits, SoundAssumption
<1> QED BY <1>1, <1>2 DEF LfsrLives, AllZero

(* A step that changes neither the LFSR nor its mode.                       *)
LEMMA LivesUnchanged ==
  ASSUME LfsrLives, UNCHANGED <<lfsr, poly, doomed>>
  PROVE  LfsrLives'
BY DEF LfsrLives, AllZero, ShortZero

LEMMA LivesTick == LfsrLives /\ Tick => LfsrLives'
<1> SUFFICES ASSUME LfsrLives, Tick PROVE LfsrLives'
  OBVIOUS
<1>1. poly' = poly /\ doomed' = doomed
  BY DEF Tick, regs
<1>2. lfsr' = lfsr \/ lfsr' = ClockLfsr(lfsr, poly.short)
  BY DEF Tick, wave
<1>3. CASE lfsr' = lfsr
  BY <1>1, <1>3, LivesUnchanged
<1>4. CASE lfsr' = ClockLfsr(lfsr, poly.short)
  <2>1. lfsr \in [Bits -> BOOLEAN] /\ poly.short \in BOOLEAN
    BY DEF LfsrLives
  <2>2. lfsr' \in [Bits -> BOOLEAN] /\ poly'.short \in BOOLEAN
    BY Zenon, <1>1, <1>4, <2>1, ShiftTyped
  <2>3. CASE doomed
    BY <1>1, <2>2, <2>3 DEF LfsrLives
  <2>4. CASE ~doomed /\ poly.short
    <3>1. ~ShortZero(lfsr) /\ poly.short = TRUE
      BY Zenon, <2>4, <2>1 DEF LfsrLives
    <3>2. ~ShortZero(ClockLfsr(lfsr, TRUE))
      BY <2>1, <3>1, ShortShiftLives
    <3>3. ~ShortZero(lfsr')
      BY Zenon, <1>4, <3>1, <3>2
    <3>4. ~AllZero(lfsr')
      BY Zenon, <3>3, ShortIsPart
    <3> QED BY Zenon, <2>2, <3>3, <3>4 DEF LfsrLives, AllZero, ShortZero
  <2>5. CASE ~doomed /\ ~poly.short
    <3>1. ~AllZero(lfsr) /\ poly.short = FALSE
      BY Zenon, <2>5, <2>1 DEF LfsrLives
    <3>2. ~AllZero(ClockLfsr(lfsr, FALSE))
      BY <2>1, <3>1, WideShiftLives
    <3>3. ~AllZero(lfsr') /\ ~poly'.short
      BY Zenon, <1>1, <1>4, <3>1, <3>2, <2>5
    <3> QED BY Zenon, <2>2, <3>3 DEF LfsrLives, AllZero, ShortZero
  <2> QED BY <2>3, <2>4, <2>5
<1> QED BY <1>2, <1>3, <1>4

LEMMA LivesGame == LfsrLives /\ Game => LfsrLives'
<1> SUFFICES ASSUME LfsrLives, Game PROVE LfsrLives'
  OBVIOUS
<1>1. CASE Power
  BY <1>1, LivesUnchanged DEF Power, regs, wave, history
<1>2. ASSUME NEW l \in Lens, WriteLen(l) PROVE LfsrLives'
  BY <1>2, LivesUnchanged DEF WriteLen
<1>3. ASSUME NEW r, WriteEnvelope(r) PROVE LfsrLives'
  BY <1>3, LivesUnchanged DEF WriteEnvelope, wave, history
<1>4. ASSUME NEW b \in BOOLEAN, SetDac(b) PROVE LfsrLives'
  BY <1>4, LivesUnchanged DEF SetDac, regs, wave, history
<1>5. ASSUME NEW r, WriteSweep(r) PROVE LfsrLives'
  BY <1>5, LivesUnchanged DEF WriteSweep, wave, history
<1>6. ASSUME NEW f, WriteFreq(f) PROVE LfsrLives'
  BY <1>6, LivesUnchanged DEF WriteFreq, regs, wave
<1>7. ASSUME NEW p, p.short \in BOOLEAN, WritePolynomialCounter(p) PROVE LfsrLives'
  <2>1. lfsr' = lfsr /\ poly' = p /\ doomed' = (doomed \/ (p.short /\ ShortZero(lfsr)))
    BY <1>7 DEF WritePolynomialCounter, wave
  <2> QED BY <1>7, <2>1 DEF LfsrLives, AllZero, ShortZero
<1>8. ASSUME NEW sel, NEW h, WriteControl(sel, h) PROVE LfsrLives'
  BY <1>8, LivesUnchanged DEF WriteControl, wave
<1>9. ASSUME NEW sel, NEW h, Trigger(sel, h) PROVE LfsrLives'
  BY <1>9, LivesUnchanged DEF Trigger, wave
<1>10. CASE \E v \in 0..MaxVolume, u \in BOOLEAN, p \in EnvPeriods :
               WriteEnvelope([volume |-> v, up |-> u, period |-> p])
  BY Zenon, <1>10, <1>3
<1>11. CASE \E p \in SweepPeriods, d \in BOOLEAN, s \in Shifts :
               WriteSweep([period |-> p, down |-> d, shifts |-> s])
  BY Zenon, <1>11, <1>5
<1>12. CASE \E s \in ShiftFreqs, r \in Ratios, b \in BOOLEAN :
               WritePolynomialCounter([shift |-> s, ratio |-> r, short |-> b])
  <2>1. PICK p \in [shift : ShiftFreqs, ratio : Ratios, short : BOOLEAN] :
          WritePolynomialCounter(p)
    BY <1>12
  <2>2. p.short \in BOOLEAN
    OBVIOUS
  <2> QED BY <2>1, <2>2, <1>7
<1>13. CASE \E sel \in Selections, h \in Highs : WriteControl(sel, h) \/ Trigger(sel, h)
  BY Zenon, <1>13, <1>8, <1>9
<1> QED BY Zenon, <1>1, <1>2, <1>4, <1>6, <1>10, <1>11, <1>12, <1>13 DEF Game

(* The noise never dies, for every width of the LFSR and of its short part: *)
(* clock_lfsr keeps what is not zero in the mode it runs in from becoming   *)
(* zero, and only a switch of the mode (FF22) can find its part zero.       *)
THEOREM NoiseLives == Spec => []NoiseNeverDies
<1>1. LfsrLives /\ UNCHANGED vars => LfsrLives'
  BY LivesUnchanged DEF vars, regs, wave, history
<1>2. LfsrLives /\ [Next]_vars => LfsrLives'
  BY <1>1, LivesTick, LivesGame DEF Next
<1>3. LfsrLives => NoiseNeverDies
  BY DEF LfsrLives, NoiseNeverDies
<1> QED BY <1>2, <1>3, LivesAtFirst, PTL DEF Spec

-----------------------------------------------------------------------------
(* The time of a note: T-states counted from the trigger, against the step  *)
(* the sequencer is in and the T-states it has been there.                  *)

LEMMA DivUnique ==
  ASSUME NEW m \in Nat \ {0}, NEW q \in Int, NEW r \in 0..m - 1, NEW a \in Int, a = q * m + r
  PROVE  a \div m = q /\ a % m = r
OBVIOUS

LEMMA DivExact ==
  ASSUME NEW m \in Nat \ {0}, NEW q \in Int, NEW a \in Int, a = q * m
  PROVE  a \div m = q /\ a % m = 0
<1>1. 0 \in 0..m - 1 /\ a = q * m + 0
  BY SMT
<1> QED BY <1>1, DivUnique

LEMMA DivSplit ==
  ASSUME NEW m \in Nat \ {0}, NEW a \in Nat
  PROVE  \E q \in Nat, r \in 0..m - 1 : a = q * m + r
<1>1. a \div m \in Nat /\ (a % m) \in 0..m - 1
  OBVIOUS
<1>2. a = (a \div m) * m + (a % m)
  OBVIOUS
<1> QED BY <1>1, <1>2, Zenon

LEMMA StepAssumption == StepCycles \in Nat \ {0}
BY SMT, SoundAssumption DEF SoundAssumption

(* How often something happens in a T-states that happens first after t and *)
(* then every p of them.                                                    *)
Times(a, t, p) == IF a <= t THEN 0 ELSE (a - t - 1) \div p + 1

LEMMA TimesNext ==
  ASSUME NEW a \in Nat, NEW t \in Nat, NEW p \in Nat \ {0}
  PROVE  /\ Times(a, t, p) \in Nat
         /\ (\E k \in Nat : a = t + k * p) => Times(a + 1, t, p) = Times(a, t, p) + 1
         /\ ~(\E k \in Nat : a = t + k * p) => Times(a + 1, t, p) = Times(a, t, p)
<1>1. CASE a < t
  <2>1. Times(a, t, p) = 0 /\ Times(a + 1, t, p) = 0
    BY SMT, <1>1 DEF Times
  <2>2. \A k \in Nat : k * p >= 0
    BY SMT
  <2>3. ~(\E k \in Nat : a = t + k * p)
    BY SMT, <1>1, <2>2
  <2> QED BY SMT, <2>1, <2>3
<1>2. CASE a = t
  <2>1. Times(a, t, p) = 0
    BY SMT, <1>2 DEF Times
  <2>2. 0 = 0 * p + 0 /\ 0 \in 0..p - 1 /\ 0 \in Int
    BY SMT
  <2>3. 0 \div p = 0
    BY <2>2, DivUnique
  <2>4. Times(a + 1, t, p) = 0 \div p + 1
    BY SMT, <1>2 DEF Times
  <2>5. a = t + 0 * p
    BY SMT, <1>2
  <2> QED BY SMT, <2>1, <2>3, <2>4, <2>5
<1>3. CASE a > t
  <2> DEFINE b == a - t - 1
  <2>1. b \in Nat
    BY SMT, <1>3
  <2> HIDE DEF b
  <2>2. PICK q \in Nat, r \in 0..p - 1 : b = q * p + r
    BY <2>1, DivSplit
  <2>3. b \div p = q
    BY SMT, <2>1, <2>2, DivUnique
  <2>4. Times(a, t, p) = q + 1
    BY SMT, <1>3, <2>3 DEF Times, b
  <2>5. Times(a + 1, t, p) = (b + 1) \div p + 1 /\ a = t + (b + 1)
    BY SMT, <1>3 DEF Times, b
  <2>6. CASE r = p - 1
    <3> DEFINE n == q + 1
               d == b + 1
    <3>1. d = n * p /\ n \in Int /\ d \in Int
      BY SMT, <2>1, <2>2, <2>6
    <3> HIDE DEF n, d
    <3>2. d \div p = n
      BY Zenon, <3>1, DivExact
    <3> USE DEF n, d
    <3>3. a = t + (q + 1) * p
      BY SMT, <2>5, <3>1
    <3>4. Times(a + 1, t, p) = Times(a, t, p) + 1 /\ Times(a, t, p) \in Nat /\ q + 1 \in Nat
      BY SMT, <2>2, <2>4, <2>5, <3>2
    <3> QED BY Zenon, <3>3, <3>4
  <2>7. CASE r # p - 1
    <3>1. /\ b + 1 = q * p + (r + 1) /\ r + 1 \in 0..p - 1 /\ r + 1 # 0 /\ b + 1 \in Int
          /\ q \in Int
      BY SMT, <2>1, <2>2, <2>7
    <3>2. (b + 1) \div p = q
      BY Zenon, <3>1, DivUnique
    <3>3. ASSUME NEW k \in Nat, a = t + k * p PROVE FALSE
      <4> DEFINE d == b + 1
                 e == r + 1
      <4>1. d = k * p /\ k \in Int /\ d \in Int /\ d = q * p + e /\ e \in 0..p - 1 /\ q \in Int
        BY SMT, <2>1, <2>5, <3>1, <3>3
      <4> HIDE DEF d, e
      <4>2. d % p = 0
        BY Zenon, <4>1, DivExact
      <4>4. d \in Int /\ d = q * p + e /\ e \in 0..p - 1 /\ q \in Int
        BY <4>1
      <4> HIDE <4>1
      <4>3. d % p = e
        BY <4>4, DivUnique
      <4> USE DEF d, e
      <4> QED BY <3>1, <4>2, <4>3
    <3> QED BY SMT, <2>2, <2>4, <2>5, <3>2, <3>3
  <2> QED BY <2>6, <2>7
<1> QED BY SMT, <1>1, <1>2, <1>3

Hits(n, c, first, every) == c = 0 /\ \E k \in Nat : n = first + k * every

(* In T-state c of a step, the n-th since the trigger ...                   *)
LEMMA EnteredNext ==
  ASSUME NEW n \in Nat, NEW c \in 0..StepCycles - 1, NEW a \in Nat, a = n * StepCycles + c,
         NEW first \in Nat, NEW every \in Nat \ {0}
  PROVE  /\ Entered(a, first, every) \in Nat
         /\ Hits(n, c, first, every)
            => Entered(a + 1, first, every) = Entered(a, first, every) + 1
         /\ ~Hits(n, c, first, every)
            => Entered(a + 1, first, every) = Entered(a, first, every)
<1> DEFINE t == StepCycles * first
           p == StepCycles * every
<1>1. t \in Nat /\ p \in Nat \ {0}
  BY SMT, StepAssumption
<1>2. Entered(a, first, every) = Times(a, t, p) /\ Entered(a + 1, first, every) = Times(a + 1, t, p)
  BY DEF Entered, Times
<1>3. \A k \in Nat : t + k * p = (first + k * every) * StepCycles
  BY SMT, StepAssumption
<1> HIDE DEF t, p
<1>4. ASSUME NEW k \in Nat, a = t + k * p PROVE c = 0 /\ n = first + k * every
  <2> DEFINE m == first + k * every
  <2>1. /\ a = m * StepCycles /\ a = n * StepCycles + c
        /\ n \in Int /\ m \in Int /\ a \in Int /\ c \in 0..StepCycles - 1
    BY SMT, StepAssumption, <1>3, <1>4
  <2> HIDE DEF m
  <2>2. a \div StepCycles = m /\ a % StepCycles = 0
    BY Zenon, <2>1, StepAssumption, DivExact
  <2>3. a \div StepCycles = n /\ a % StepCycles = c
    BY <2>1, StepAssumption, DivUnique
  <2> QED BY <2>2, <2>3 DEF m
<1>5. ASSUME c = 0, NEW k \in Nat, n = first + k * every PROVE a = t + k * p
  <2>1. a = (first + k * every) * StepCycles
    BY SMT, StepAssumption, <1>5
  <2> QED BY <2>1, <1>3
<1>6. (\E k \in Nat : a = t + k * p) <=> Hits(n, c, first, every)
  BY Zenon, <1>4, <1>5 DEF Hits
<1>7. /\ Times(a, t, p) \in Nat
      /\ (\E k \in Nat : a = t + k * p) => Times(a + 1, t, p) = Times(a, t, p) + 1
      /\ ~(\E k \in Nat : a = t + k * p) => Times(a + 1, t, p) = Times(a, t, p)
  BY <1>1, TimesNext, Zenon
<1> QED BY Zenon, <1>2, <1>6, <1>7

-----------------------------------------------------------------------------
(* What every state has: the types, and the units a game with another focus *)
(* never starts.                                                            *)

RegsTyped ==
  /\ selection \in BOOLEAN /\ lenReg \in Lens \cup {0}
  /\ envReg \in [volume : 0..MaxVolume, up : BOOLEAN, period : EnvPeriods \cup {0}]
  /\ sweepReg \in [period : SweepPeriods \cup {0}, down : BOOLEAN, shifts : Shifts \cup {0}]
  /\ poly \in [shift : ShiftFreqs \cup {0}, ratio : Ratios \cup {0}, short : BOOLEAN]
  /\ focus # "length" => ~selection
  /\ focus # "envelope" => envReg.period = 0
  /\ focus # "sweep" => sweepReg.period = 0

EnvTyped ==
  /\ env \in [volume : 0..MaxVolume, up : BOOLEAN, period : EnvPeriods \cup {0}, counter : Nat]
  /\ focus # "envelope" => env.period = 0

SweepTyped ==
  /\ sweep \in [period : SweepPeriods \cup {0}, down : BOOLEAN, shifts : Shifts \cup {0},
                on : BOOLEAN, clocks : Nat, shadow : Int]
  /\ focus # "sweep" => ~sweep.on

SequencerTyped ==
  /\ cycles \in 0..StepCycles - 1 /\ step \in 0..7 /\ age \in 0..Horizon[focus]
  /\ age < Horizon[focus] => \E q \in Nat : age = (8 * q + step) * StepCycles + cycles

ToneTyped ==
  /\ freq \in Int /\ (focus # "sweep" => freq \in 0..TopFreq)
  /\ period \in Nat /\ count \in Nat
  /\ pos \in 0..Positions[kind] - 1

NoteTyped ==
  /\ note \in [len : Nat, volume : 0..MaxVolume, freq : Int, pos : 0..Positions[kind] - 1,
               sounds : BOOLEAN]
  /\ pure \in [length : BOOLEAN, pitch : BOOLEAN]
  /\ enabled => note.sounds

Typed ==
  /\ kind \in Kinds /\ focus \in Programs[kind]
  /\ on \in BOOLEAN /\ enabled \in BOOLEAN /\ dac \in BOOLEAN /\ len \in Nat
  /\ RegsTyped /\ EnvTyped /\ SweepTyped /\ SequencerTyped /\ ToneTyped /\ NoteTyped

LEMMA Constants ==
  ASSUME NEW k \in Kinds, NEW f \in Programs[k]
  PROVE  /\ f \in DOMAIN Horizon /\ Horizon[f] \in Nat
         /\ Positions[k] \in Nat \ {0} /\ Factor[k] \in Nat \ {0} /\ MaxLen[k] \in Nat \ {0}
         /\ MaxVolume \in Nat /\ TopFreq \in Nat /\ LowFreq \in Nat \ {0} /\ Word \in Nat \ {0}
         /\ Lens \subseteq Nat /\ EnvPeriods \subseteq Nat /\ SweepPeriods \subseteq Nat
         /\ Ratios \subseteq Nat
         /\ \A s \in {0} \cup Shifts \cup ShiftFreqs : s \in Nat /\ 2^s \in Nat \ {0}
<1>1. f \in DOMAIN Horizon
  BY SoundAssumption DEF SoundAssumption
<1> QED BY <1>1, SoundAssumption, HorizonAssumption DEF SoundAssumption, HorizonAssumption

(* The frequency registers hold a frequency whatever is written to them.    *)
LEMMA TopFreqSplit ==
  \E p \in Nat : TopFreq = p * LowFreq + (LowFreq - 1) /\ TopFreq \div LowFreq = p
<1>1. LowFreq \in Nat \ {0} /\ TopFreq \in Nat /\ (TopFreq + 1) % LowFreq = 0
  BY SoundAssumption DEF SoundAssumption
<1> DEFINE l == LowFreq
           t == TopFreq
           n == t + 1
<1>2. n \in Nat /\ n % l = 0 /\ l \in Nat \ {0} /\ t \in Nat
  BY <1>1
<1> HIDE DEF n, l, t
<1>3. PICK q \in Nat, r \in 0..l - 1 : n = q * l + r
  BY <1>2, DivSplit
<1>4. n % l = r /\ q \in Int /\ n \in Int
  BY <1>2, <1>3, DivUnique
<1>5. n = q * l
  BY <1>2, <1>3, <1>4
<1>6. q # 0 /\ t = q * l - 1
  BY <1>2, <1>5 DEF n
<1> DEFINE p == q - 1
           m == l - 1
<1>7. t = p * l + m /\ m \in 0..l - 1 /\ p \in Nat /\ p \in Int /\ t \in Int
  BY <1>2, <1>3, <1>6
<1> HIDE DEF p, m
<1>8. t \div l = p
  BY <1>2, <1>7, DivUnique
<1> QED BY Zenon, <1>7, <1>8 DEF t, l, m

LEMMA FreqHigh ==
  ASSUME NEW f \in Int, NEW high \in 0..TopFreq \div LowFreq
  PROVE  high * LowFreq + (f % LowFreq) \in 0..TopFreq
<1>1. LowFreq \in Nat \ {0} /\ TopFreq \in Nat
  BY SoundAssumption DEF SoundAssumption
<1>2. PICK p \in Nat : TopFreq = p * LowFreq + (LowFreq - 1) /\ TopFreq \div LowFreq = p
  BY TopFreqSplit
<1> DEFINE g == f % LowFreq
<1>3. g \in 0..LowFreq - 1
  BY <1>1
<1> HIDE DEF g
<1>4. high \in 0..p /\ high * LowFreq <= p * LowFreq /\ high * LowFreq >= 0
  BY <1>1, <1>2
<1>5. high * LowFreq + g \in 0..TopFreq
  BY <1>1, <1>2, <1>3, <1>4
<1> QED BY <1>5 DEF g

LEMMA FreqLow ==
  ASSUME NEW f \in 0..TopFreq, NEW low \in 0..LowFreq - 1
  PROVE  (f - (f % LowFreq)) + low \in 0..TopFreq
<1>1. LowFreq \in Nat \ {0} /\ TopFreq \in Nat /\ f \in Nat
  BY SoundAssumption DEF SoundAssumption
<1>2. PICK p \in Nat : TopFreq = p * LowFreq + (LowFreq - 1) /\ TopFreq \div LowFreq = p
  BY TopFreqSplit
<1>3. PICK q \in Nat, r \in 0..LowFreq - 1 : f = q * LowFreq + r
  BY <1>1, DivSplit
<1>4. (f % LowFreq) = r
  BY <1>1, <1>3, DivUnique
<1>5. q <= p
  <2>1. SUFFICES ASSUME q >= p + 1 PROVE FALSE
    BY <1>2, <1>3
  <2>2. q * LowFreq >= (p + 1) * LowFreq
    BY <1>1, <2>1
  <2> QED BY <1>1, <1>2, <1>3, <2>2
<1>6. q * LowFreq <= p * LowFreq /\ q * LowFreq >= 0
  BY <1>1, <1>5
<1> DEFINE g == f % LowFreq
<1>7. g = r
  BY <1>4
<1> HIDE DEF g
<1>8. (f - g) + low \in 0..TopFreq
  BY <1>1, <1>2, <1>3, <1>6, <1>7
<1> QED BY <1>8 DEF g

LEMMA TypedAtFirst == Init => Typed
<1> SUFFICES ASSUME Init PROVE Typed
  OBVIOUS
<1>1. kind \in Kinds /\ focus \in Programs[kind]
  BY DEF Init
<1>2. StepCycles \in Nat \ {0} /\ MaxVolume \in Nat /\ TopFreq \in Nat
      /\ Horizon[focus] \in Nat /\ Positions[kind] \in Nat \ {0}
  BY <1>1, StepAssumption, Constants
<1>3. on \in BOOLEAN /\ enabled \in BOOLEAN /\ dac \in BOOLEAN /\ len \in Nat
  BY DEF Init
<1>4. RegsTyped
  <2>1. selection \in BOOLEAN /\ ~selection
    BY Zenon DEF Init
  <2>2. /\ lenReg \in Lens \cup {0} /\ envReg.period = 0 /\ sweepReg.period = 0
        /\ envReg \in [volume : 0..MaxVolume, up : BOOLEAN, period : EnvPeriods \cup {0}]
        /\ sweepReg \in [period : SweepPeriods \cup {0}, down : BOOLEAN, shifts : Shifts \cup {0}]
        /\ poly \in [shift : ShiftFreqs \cup {0}, ratio : Ratios \cup {0}, short : BOOLEAN]
    BY <1>2 DEF Init
  <2> QED BY <2>1, <2>2, Zenon DEF RegsTyped
<1>5. EnvTyped
  BY <1>2 DEF Init, EnvTyped
<1>6. SweepTyped
  BY DEF Init, SweepTyped
<1>7. SequencerTyped
  <2>1. cycles = 0 /\ step = 0 /\ age = 0
    BY DEF Init
  <2>2. age = (8 * 0 + step) * StepCycles + cycles
    BY SMT, <1>2, <2>1
  <2> QED BY SMT, <1>2, <2>1, <2>2 DEF SequencerTyped
<1>8. ToneTyped
  BY <1>2 DEF Init, ToneTyped
<1>9. NoteTyped
  BY <1>2 DEF Init, NoteTyped
<1> QED BY <1>1, <1>3, <1>4, <1>5, <1>6, <1>7, <1>8, <1>9 DEF Typed

(* What a T-state in which the channel is clocked does to the units.        *)
LEMMA EnvTick ==
  ASSUME Typed
  PROVE  /\ NextEnv \in [volume : 0..MaxVolume, up : BOOLEAN, period : EnvPeriods \cup {0},
                         counter : Nat]
         /\ NextEnv.period = env.period /\ NextEnv.up = env.up
<1>1. env \in [volume : 0..MaxVolume, up : BOOLEAN, period : EnvPeriods \cup {0}, counter : Nat]
  BY DEF Typed, EnvTyped
<1>2. MaxVolume \in Nat
  BY SoundAssumption DEF SoundAssumption
<1> DEFINE now == env.counter + 1
           vol == CASE env.up /\ env.volume < MaxVolume -> env.volume + 1
                    [] ~env.up /\ env.volume > 0 -> env.volume - 1
                    [] OTHER -> env.volume
<1>3. now \in Nat /\ vol \in 0..MaxVolume
  BY <1>1, <1>2
<1>4. \/ NextEnv = env
      \/ NextEnv = [env EXCEPT !.counter = now]
      \/ NextEnv = [env EXCEPT !.counter = 0, !.volume = vol]
  BY <1>1 DEF NextEnv
<1> HIDE DEF now, vol
<1>5. CASE NextEnv = env
  BY <1>1, <1>5
<1>6. CASE NextEnv = [env EXCEPT !.counter = now]
  BY <1>1, <1>3, <1>6
<1>7. CASE NextEnv = [env EXCEPT !.counter = 0, !.volume = vol]
  BY <1>1, <1>3, <1>7
<1> QED BY <1>4, <1>5, <1>6, <1>7

LEMMA SweepTick ==
  ASSUME Typed
  PROVE  /\ NextSweep \in [period : SweepPeriods \cup {0}, down : BOOLEAN,
                           shifts : Shifts \cup {0}, on : BOOLEAN, clocks : Nat, shadow : Int]
         /\ NextSweep.on = sweep.on /\ NextSweep.period = sweep.period
         /\ NextSweep.down = sweep.down /\ NextSweep.shifts = sweep.shifts
         /\ focus # "sweep" => ~Slides /\ ~Overflows
<1>1. /\ sweep \in [period : SweepPeriods \cup {0}, down : BOOLEAN, shifts : Shifts \cup {0},
                    on : BOOLEAN, clocks : Nat, shadow : Int]
      /\ focus # "sweep" => ~sweep.on
  BY DEF Typed, SweepTyped
<1>2. \A s \in {0} \cup Shifts : s \in Nat /\ 2^s \in Nat \ {0}
  BY SoundAssumption DEF SoundAssumption
<1>3. Shifted(sweep.shadow, sweep) \in Int
  <2>1. 2^sweep.shifts \in Nat \ {0} /\ sweep.shadow \in Int
    BY <1>1, <1>2
  <2> DEFINE p == 2^sweep.shifts
  <2>2. sweep.shadow \div p \in Int
    <3> HIDE DEF p
    <3>1. p \in Nat \ {0}
      BY <2>1 DEF p
    <3> QED BY <2>1, <3>1
  <2> QED BY <2>1, <2>2 DEF Shifted
<1> DEFINE clocks == IF ~SweepClock THEN sweep.clocks
                     ELSE IF sweep.clocks + 1 >= sweep.period THEN 0 ELSE sweep.clocks + 1
           shadow == IF Slides THEN Shifted(sweep.shadow, sweep) ELSE sweep.shadow
<1>4. clocks \in Nat /\ shadow \in Int
  BY <1>1, <1>3
<1>5. NextSweep = [sweep EXCEPT !.clocks = clocks, !.shadow = shadow]
  BY DEF NextSweep
<1>6. focus # "sweep" => ~Slides /\ ~Overflows
  BY <1>1 DEF Slides, Overflows, SweepDue, SweepClock
<1> HIDE DEF clocks, shadow
<1> QED BY <1>1, <1>4, <1>5, <1>6

LEMMA SequencerTick ==
  ASSUME Typed, cycles' = (cycles + 1) % StepCycles,
         step' = IF cycles' = 0 THEN (step + 1) % 8 ELSE step,
         age' = Least(age + 1, Horizon[focus]), focus' = focus
  PROVE  SequencerTyped'
<1>1. /\ cycles \in 0..StepCycles - 1 /\ step \in 0..7 /\ age \in 0..Horizon[focus]
      /\ age < Horizon[focus] => \E q \in Nat : age = (8 * q + step) * StepCycles + cycles
      /\ StepCycles \in Nat \ {0} /\ Horizon[focus] \in Nat
  BY StepAssumption, Constants DEF Typed, SequencerTyped
<1>2. cycles' = IF cycles = StepCycles - 1 THEN 0 ELSE cycles + 1
  BY <1>1
<1>3. step' = IF cycles = StepCycles - 1 THEN (IF step = 7 THEN 0 ELSE step + 1) ELSE step
  BY <1>1, <1>2
<1>4. age' \in 0..Horizon[focus] /\ (age' < Horizon[focus] => age < Horizon[focus] /\ age' = age + 1)
  BY <1>1 DEF Least
<1>5. ASSUME age' < Horizon[focus]
      PROVE  \E q \in Nat : age' = (8 * q + step') * StepCycles + cycles'
  <2>1. PICK q \in Nat : age = (8 * q + step) * StepCycles + cycles
    BY <1>1, <1>4, <1>5
  <2>2. CASE cycles = StepCycles - 1 /\ step = 7
    <3>1. age' = (8 * (q + 1) + step') * StepCycles + cycles' /\ q + 1 \in Nat
      BY <1>1, <1>2, <1>3, <1>4, <1>5, <2>1, <2>2
    <3> QED BY Zenon, <3>1
  <2>3. CASE cycles = StepCycles - 1 /\ step # 7
    <3>1. age' = (8 * q + step') * StepCycles + cycles'
      BY <1>1, <1>2, <1>3, <1>4, <1>5, <2>1, <2>3
    <3> QED BY Zenon, <3>1
  <2>4. CASE cycles # StepCycles - 1
    <3>1. step' = step /\ cycles' = cycles + 1 /\ age' = age + 1
      BY <1>1, <1>2, <1>3, <1>4, <1>5, <2>4
    <3>2. age' = (8 * q + step') * StepCycles + cycles'
      BY <1>1, <2>1, <3>1
    <3> QED BY Zenon, <3>2
  <2> QED BY <2>2, <2>3, <2>4
<1> QED BY <1>1, <1>2, <1>3, <1>4, <1>5 DEF SequencerTyped

LEMMA PeriodTyped ==
  ASSUME NEW f \in 0..TopFreq, kind \in Kinds,
         poly \in [shift : ShiftFreqs \cup {0}, ratio : Ratios \cup {0}, short : BOOLEAN]
  PROVE  Period(f) \in Nat
<1>1. /\ Factor[kind] \in Nat \ {0} /\ Word \in Nat \ {0} /\ TopFreq \in Nat
      /\ 2^poly.shift \in Nat \ {0} /\ poly.ratio \in Nat
  BY SoundAssumption DEF SoundAssumption
<1>2. CASE kind = "noise"
  <2> DEFINE x == IF poly.ratio = 0 THEN 1 ELSE 2 * poly.ratio
             p == 2^poly.shift
             w == Factor[kind] * x * p
  <2>1. x \in Nat /\ p \in Nat
    BY <1>1
  <2> HIDE DEF x, p
  <2>2. w \in Nat
    BY <1>1, <2>1
  <2> HIDE DEF w
  <2>3. (w % Word) \in Nat
    BY <1>1, <2>2
  <2> QED BY <1>2, <2>3 DEF Period, w, x, p
<1>3. CASE kind # "noise"
  <2>1. TopFreq + 1 - f \in Nat
    BY <1>1
  <2>2. (TopFreq + 1 - f) * Factor[kind] \in Nat
    BY <1>1, <2>1
  <2> QED BY <1>3, <2>2 DEF Period
<1> QED BY <1>2, <1>3

LEMMA TypedTick == Typed /\ Tick => Typed'
<1> SUFFICES ASSUME Typed, Tick PROVE Typed'
  OBVIOUS
<1>1. kind' = kind /\ focus' = focus /\ on' = on /\ dac' = dac /\ note' = note
      /\ selection' = selection /\ lenReg' = lenReg /\ envReg' = envReg
      /\ sweepReg' = sweepReg /\ poly' = poly
  BY DEF Tick, regs
<1>2. RegsTyped'
  BY <1>1 DEF RegsTyped, Typed
<1>3. CASE ~Clocked
  <2>1. /\ enabled' = enabled /\ len' = len /\ cycles' = cycles /\ step' = step /\ env' = env
        /\ sweep' = sweep /\ period' = period /\ count' = count /\ freq' = freq /\ pos' = pos
        /\ age' = age /\ pure' = pure
    BY <1>3 DEF Tick, units, wave
  <2> QED BY <1>1, <1>2, <2>1
          DEF Typed, EnvTyped, SweepTyped, SequencerTyped, ToneTyped, NoteTyped
<1>4. CASE Clocked
  <2>1. /\ len' = NextLen /\ env' = NextEnv /\ sweep' = NextSweep
        /\ enabled' = ~(Overflows \/ (LengthClock /\ len = 1))
        /\ freq' = IF Slides THEN sweep'.shadow ELSE freq
        /\ cycles' = (cycles + 1) % StepCycles
        /\ step' = IF cycles' = 0 THEN (step + 1) % 8 ELSE step
        /\ count' = IF TimerDue \/ ~Timed THEN 0 ELSE count + 1
        /\ period' = IF TimerDue THEN Period(freq') ELSE period
        /\ pos' = IF TimerDue THEN (pos + 1) % Positions[kind] ELSE pos
        /\ age' = Least(age + 1, Horizon[focus])
        /\ pure' = [pure EXCEPT !.pitch = @ /\ freq' = freq]
    BY <1>4 DEF Tick
  <2>2. EnvTyped'
    BY <1>1, <2>1, EnvTick DEF EnvTyped, Typed
  <2>3. SweepTyped'
    BY <1>1, <2>1, SweepTick DEF SweepTyped, Typed
  <2>4. SequencerTyped'
    BY <1>1, <2>1, SequencerTick
  <2>5. ToneTyped'
    <3>1. /\ freq \in Int /\ (focus # "sweep" => freq \in 0..TopFreq)
          /\ period \in Nat /\ count \in Nat /\ pos \in 0..Positions[kind] - 1
          /\ Positions[kind] \in Nat \ {0}
      BY Constants DEF Typed, ToneTyped
    <3>2. freq' \in Int /\ (focus # "sweep" => freq' \in 0..TopFreq)
      BY <2>1, <3>1, SweepTick
    <3>3. count' \in Nat /\ pos' \in 0..Positions[kind] - 1
      BY <2>1, <3>1
    <3>4. CASE TimerDue
      <4>1. freq' \in 0..TopFreq
        BY <3>2, <3>4 DEF TimerDue, Timed
      <4>2. Period(freq') \in Nat
        BY <4>1, PeriodTyped DEF Typed, RegsTyped
      <4> QED BY <1>1, <2>1, <3>2, <3>3, <3>4, <4>2 DEF ToneTyped
    <3>5. CASE ~TimerDue
      BY <1>1, <2>1, <3>1, <3>2, <3>3, <3>5 DEF ToneTyped
    <3> QED BY <3>4, <3>5
  <2>6. enabled' \in BOOLEAN /\ len' \in Nat
    <3>1. enabled' \in BOOLEAN
      BY Zenon, <2>1
    <3>2. len \in Nat /\ (LengthClock => len > 0)
      BY DEF Typed, LengthClock
    <3> QED BY <2>1, <3>1, <3>2 DEF NextLen
  <2>7. NoteTyped'
    <3>1. enabled /\ note.sounds
      BY <1>4 DEF Clocked, Typed, NoteTyped
    <3>2. pure' \in [length : BOOLEAN, pitch : BOOLEAN]
      <4> DEFINE b == pure.pitch /\ freq' = freq
      <4>1. b \in BOOLEAN /\ pure \in [length : BOOLEAN, pitch : BOOLEAN]
        BY DEF Typed, NoteTyped
      <4>2. pure' = [pure EXCEPT !.pitch = b]
        BY <2>1
      <4> HIDE DEF b
      <4> QED BY <4>1, <4>2
    <3> QED BY <1>1, <3>1, <3>2 DEF NoteTyped, Typed
  <2> QED BY <1>1, <1>2, <2>2, <2>3, <2>4, <2>5, <2>6, <2>7 DEF Typed
<1> QED BY <1>3, <1>4

LEMMA TypedUnchanged ==
  ASSUME Typed,
         UNCHANGED <<kind, focus, on, enabled, dac, regs, units, freq, pos, note, age, pure>>
  PROVE  Typed'
BY DEF Typed, RegsTyped, EnvTyped, SweepTyped, SequencerTyped, ToneTyped, NoteTyped, regs, units

(* The writes but the trigger leave the units that sound alone.             *)
LEMMA TypedWrite ==
  ASSUME Typed, UNCHANGED <<kind, focus, on, enabled, units, note, age>>,
         dac' \in BOOLEAN, RegsTyped',
         freq' = freq \/ (freq' \in Int /\ (focus # "sweep" => freq' \in 0..TopFreq)),
         pos' = pos \/ pos' = 0,
         pure' = pure \/ pure' = [pure EXCEPT !.pitch = FALSE]
                      \/ pure' = [length |-> FALSE, pitch |-> FALSE]
  PROVE  Typed'
<1>1. Positions[kind] \in Nat \ {0}
  BY Constants DEF Typed
<1>2. EnvTyped' /\ SweepTyped' /\ SequencerTyped'
  BY DEF Typed, EnvTyped, SweepTyped, SequencerTyped, units
<1>3. ToneTyped'
  BY <1>1 DEF Typed, ToneTyped, units
<1>4. NoteTyped'
  <2>1. pure \in [length : BOOLEAN, pitch : BOOLEAN]
    BY DEF Typed, NoteTyped
  <2>2. pure' \in [length : BOOLEAN, pitch : BOOLEAN]
    <3>1. CASE pure' = pure
      BY <2>1, <3>1
    <3>2. CASE pure' = [pure EXCEPT !.pitch = FALSE]
      BY <2>1, <3>2
    <3>3. CASE pure' = [length |-> FALSE, pitch |-> FALSE]
      BY <3>3
    <3> QED BY Zenon, <3>1, <3>2, <3>3
  <2> QED BY <2>2 DEF Typed, NoteTyped
<1> QED BY <1>2, <1>3, <1>4 DEF Typed, units

LEMMA TypedTrigger ==
  ASSUME Typed, NEW sel \in Selections, NEW h \in Highs, Trigger(sel, h)
  PROVE  Typed'
<1>1. /\ selection' = sel /\ lenReg' = lenReg /\ envReg' = envReg /\ sweepReg' = sweepReg
      /\ poly' = poly /\ kind' = kind /\ focus' = focus /\ on' = on /\ dac' = dac /\ pos' = pos
      /\ env' = [volume |-> envReg.volume, up |-> envReg.up, period |-> envReg.period,
                 counter |-> 0]
      /\ sweep' = [period |-> sweepReg.period, down |-> sweepReg.down,
                   shifts |-> sweepReg.shifts, on |-> sweep.on \/ sweepReg.period # 0,
                   clocks |-> 0, shadow |-> freq']
      /\ len' = IF lenReg = 0 THEN MaxLen[kind] ELSE lenReg
      /\ cycles' = 0 /\ step' = 0 /\ age' = 0 /\ count' = 0
      /\ period' = IF Timed THEN Period(freq') ELSE 0
      /\ freq' = IF kind = "noise" THEN freq ELSE h * LowFreq + (freq % LowFreq)
      /\ pure' = [length |-> sel, pitch |-> TRUE]
      /\ note' = [len |-> len', volume |-> envReg.volume, freq |-> freq', pos |-> pos,
                  sounds |-> enabled']
  BY Zenon DEF Trigger, Restart, wave
<1>2. /\ StepCycles \in Nat \ {0} /\ Horizon[focus] \in Nat /\ TopFreq \in Nat
      /\ LowFreq \in Nat \ {0} /\ MaxLen[kind] \in Nat /\ Lens \subseteq Nat
  BY StepAssumption, Constants DEF Typed
<1>3. sel \in BOOLEAN /\ (focus # "length" => ~sel)
  BY DEF Selections
<1>4. RegsTyped'
  BY <1>1, <1>3 DEF Typed, RegsTyped
<1>5. EnvTyped'
  BY <1>1 DEF Typed, RegsTyped, EnvTyped
<1>6. freq' \in Int /\ (focus # "sweep" => freq' \in 0..TopFreq)
  <2>1. freq \in Int /\ (focus # "sweep" => freq \in 0..TopFreq)
    BY DEF Typed, ToneTyped
  <2>2. h \in 0..TopFreq \div LowFreq
    <3> PICK p \in Nat : TopFreq \div LowFreq = p
      BY TopFreqSplit
    <3> QED BY DEF Highs
  <2>3. h * LowFreq + (freq % LowFreq) \in 0..TopFreq
    BY <2>1, <2>2, FreqHigh
  <2> QED BY <1>1, <1>2, <2>1, <2>3
<1>7. SweepTyped'
  <2> DEFINE o == sweep.on \/ sweepReg.period # 0
  <2>1. o \in BOOLEAN /\ (focus # "sweep" => ~o)
    BY DEF Typed, RegsTyped, SweepTyped
  <2> HIDE DEF o
  <2>2. sweep' = [period |-> sweepReg.period, down |-> sweepReg.down,
                   shifts |-> sweepReg.shifts, on |-> o, clocks |-> 0, shadow |-> freq']
    BY <1>1 DEF o
  <2> QED BY <1>1, <1>6, <2>1, <2>2 DEF Typed, RegsTyped, SweepTyped
<1>8. SequencerTyped'
  <2>1. age' = (8 * 0 + step') * StepCycles + cycles' /\ 0 \in Nat
    BY <1>1, <1>2
  <2>2. \E q \in Nat : age' = (8 * q + step') * StepCycles + cycles'
    BY Zenon, <2>1
  <2> QED BY <1>1, <1>2, <2>2 DEF SequencerTyped
<1>9. ToneTyped'
  <2>1. Timed => freq' \in 0..TopFreq
    BY <1>6 DEF Timed
  <2>2. Timed => Period(freq') \in Nat
    BY <2>1, PeriodTyped DEF Typed, RegsTyped
  <2> QED BY <1>1, <1>6, <2>2 DEF Typed, ToneTyped
<1>10. enabled' \in BOOLEAN /\ len' \in Nat
  <2>1. enabled' = IF kind = "wave" THEN dac ELSE TRUE
    BY DEF Trigger, Restart
  <2> QED BY <1>1, <1>2, <2>1 DEF Typed, RegsTyped
<1>11. NoteTyped'
  BY <1>1, <1>3, <1>6, <1>10 DEF Typed, RegsTyped, ToneTyped, NoteTyped
<1> QED BY <1>1, <1>4, <1>5, <1>7, <1>8, <1>9, <1>10, <1>11 DEF Typed

LEMMA TypedGame == Typed /\ Game => Typed'
<1> SUFFICES ASSUME Typed, Game PROVE Typed'
  OBVIOUS
<1>0. freq \in Int /\ (focus # "sweep" => freq \in 0..TopFreq) /\ dac \in BOOLEAN
      /\ LowFreq \in Nat \ {0}
  BY Constants DEF Typed, ToneTyped
<1>1. CASE Power
  <2>1. on' = ~on /\ on' \in BOOLEAN
    BY Zenon, <1>1 DEF Power
  <2> QED BY <1>1, <2>1 DEF Power, regs, units, wave, history,
          Typed, RegsTyped, EnvTyped, SweepTyped, SequencerTyped, ToneTyped, NoteTyped
<1>2. ASSUME NEW l \in Lens, WriteLen(l) PROVE Typed'
  <2>1. RegsTyped'
    BY <1>2 DEF WriteLen, Typed, RegsTyped
  <2> QED BY <1>0, <1>2, <2>1, TypedWrite DEF WriteLen
<1>3. ASSUME NEW v \in 0..MaxVolume, NEW u \in BOOLEAN, NEW p \in EnvPeriods,
             WriteEnvelope([volume |-> v, up |-> u, period |-> p])
      PROVE  Typed'
  <2> DEFINE r == [volume |-> v, up |-> u, period |-> p]
  <2>1. r \in [volume : 0..MaxVolume, up : BOOLEAN, period : EnvPeriods \cup {0}]
    OBVIOUS
  <2> HIDE DEF r
  <2>2. RegsTyped'
    BY <1>3, <2>1 DEF WriteEnvelope, Typed, RegsTyped, r
  <2>3. dac' \in BOOLEAN
    <3>1. r.up \in BOOLEAN
      BY <2>1
    <3>2. dac' = IF kind = "noise" THEN dac ELSE (r.volume # 0 \/ r.up)
      BY Zenon, <1>3 DEF WriteEnvelope, r
    <3> QED BY Zenon, <1>0, <3>1, <3>2
  <2>4. UNCHANGED <<kind, focus, on, enabled, units, note, age, freq, pos, pure>>
    BY <1>3 DEF WriteEnvelope, wave, history
  <2> QED BY <2>2, <2>3, <2>4, TypedWrite
<1>4. ASSUME NEW b \in BOOLEAN, SetDac(b) PROVE Typed'
  <2>1. RegsTyped'
    BY <1>4 DEF SetDac, Typed, RegsTyped, regs
  <2>2. UNCHANGED <<kind, focus, on, enabled, units, note, age, freq, pos, pure>>
        /\ dac' \in BOOLEAN
    BY <1>4 DEF SetDac, wave, history
  <2> QED BY <2>1, <2>2, TypedWrite
<1>5. ASSUME NEW p \in SweepPeriods, NEW d \in BOOLEAN, NEW s \in Shifts,
             WriteSweep([period |-> p, down |-> d, shifts |-> s])
      PROVE  Typed'
  <2>1. RegsTyped'
    BY <1>5 DEF WriteSweep, Typed, RegsTyped
  <2>2. UNCHANGED <<kind, focus, on, enabled, units, note, age, freq, pos, pure, dac>>
    BY <1>5 DEF WriteSweep, wave, history
  <2> QED BY <1>0, <2>1, <2>2, TypedWrite
<1>6. ASSUME NEW f \in 0..LowFreq - 1, WriteFreq(f) PROVE Typed'
  <2>1. RegsTyped'
    BY <1>6 DEF WriteFreq, Typed, RegsTyped, regs
  <2>2. freq' = (freq - (freq % LowFreq)) + f
    BY <1>6 DEF WriteFreq
  <2>3. freq' \in Int
    BY <1>0, <2>2
  <2>4. focus # "sweep" => freq' \in 0..TopFreq
    BY <1>0, <2>2, FreqLow
  <2>5. UNCHANGED <<kind, focus, on, enabled, units, note, age, pos, dac>>
        /\ pure' = [pure EXCEPT !.pitch = FALSE]
    BY <1>6 DEF WriteFreq, wave
  <2> QED BY <1>0, <2>1, <2>3, <2>4, <2>5, TypedWrite
<1>7. ASSUME NEW s \in ShiftFreqs, NEW r \in Ratios, NEW b \in BOOLEAN,
             WritePolynomialCounter([shift |-> s, ratio |-> r, short |-> b])
      PROVE  Typed'
  <2>1. RegsTyped'
    BY <1>7 DEF WritePolynomialCounter, Typed, RegsTyped
  <2>2. UNCHANGED <<kind, focus, on, enabled, units, note, age, freq, pos, dac>>
        /\ pure' = [pure EXCEPT !.pitch = FALSE]
    BY <1>7 DEF WritePolynomialCounter, wave
  <2> QED BY <1>0, <2>1, <2>2, TypedWrite
<1>8. ASSUME NEW sel \in Selections, NEW h \in Highs, WriteControl(sel, h) PROVE Typed'
  <2>1. RegsTyped'
    BY <1>8 DEF WriteControl, Typed, RegsTyped, Selections
  <2>2. h \in 0..TopFreq \div LowFreq
    <3> PICK p \in Nat : TopFreq \div LowFreq = p
      BY TopFreqSplit
    <3> QED BY DEF Highs
  <2>3. h * LowFreq + (freq % LowFreq) \in 0..TopFreq
    BY <1>0, <2>2, FreqHigh
  <2>4. freq' = freq \/ freq' \in 0..TopFreq
    BY <1>8, <2>3 DEF WriteControl
  <2>5. UNCHANGED <<kind, focus, on, enabled, units, note, age, pos, dac>>
        /\ pure' = [length |-> FALSE, pitch |-> FALSE]
    BY <1>8 DEF WriteControl, wave
  <2>6. TopFreq \in Nat
    BY SoundAssumption DEF SoundAssumption
  <2>7. freq' = freq \/ (freq' \in Int /\ (focus # "sweep" => freq' \in 0..TopFreq))
    BY <2>4, <2>6
  <2> QED BY <1>0, <2>1, <2>5, <2>7, TypedWrite
<1> QED BY Zenon, <1>1, <1>2, <1>3, <1>4, <1>5, <1>6, <1>7, <1>8, TypedTrigger DEF Game

LEMMA TypedHolds == Spec => []Typed
<1>1. Typed /\ UNCHANGED vars => Typed'
  BY TypedUnchanged DEF vars, history, wave
<1> QED BY <1>1, TypedAtFirst, TypedTick, TypedGame, PTL DEF Spec, Next

-----------------------------------------------------------------------------
(* The length.                                                              *)

LEMMA TimesAt ==
  ASSUME NEW t \in Nat, NEW p \in Nat \ {0}, NEW k \in Nat
  PROVE  Times(t + k * p, t, p) = k
<1>1. CASE k = 0
  <2>1. t + k * p = t
    BY <1>1
  <2> QED BY <1>1, <2>1 DEF Times
<1>2. CASE k # 0
  <2> DEFINE a == t + k * p
             b == a - t - 1
             q == k - 1
             r == p - 1
  <2>1. b = q * p + r /\ r \in 0..p - 1 /\ q \in Int /\ b \in Int /\ a > t
    <3>1. q * p = k * p - p /\ q \in Nat /\ q * p >= 0
      BY <1>2
    <3>2. k * p \in Nat /\ q * p \in Nat
      BY <3>1
    <3> QED BY <1>2, <3>1, <3>2
  <2> HIDE DEF b, q, r
  <2>2. b \div p = q
    BY <2>1, DivUnique
  <2>3. Times(a, t, p) = b \div p + 1
    BY <2>1 DEF Times, b
  <2> QED BY <2>2, <2>3 DEF q
<1> QED BY <1>1, <1>2

LEMMA TimesBound ==
  ASSUME NEW a \in Nat, NEW t \in Nat, NEW p \in Nat \ {0}, NEW n \in Nat, Times(a, t, p) <= n
  PROVE  a <= t + n * p
<1>0. n * p \in Nat
  OBVIOUS
<1>1. CASE a <= t
  BY <1>0, <1>1
<1>2. CASE a > t
  <2> DEFINE b == a - t - 1
  <2>1. b \in Nat
    BY <1>2
  <2> HIDE DEF b
  <2>2. PICK q \in Nat, r \in 0..p - 1 : b = q * p + r
    BY <2>1, DivSplit
  <2>3. b \div p = q
    <3>1. q \in Int /\ b \in Int
      BY <2>1, <2>2
    <3> QED BY Zenon, <2>2, <3>1, DivUnique
  <2>4. Times(a, t, p) = b \div p + 1
    BY <1>2 DEF Times, b
  <2>5. q + 1 <= n
    BY <2>3, <2>4
  <2>6. (q + 1) * p <= n * p
    BY <2>5
  <2>7. (q + 1) * p = q * p + p
    OBVIOUS
  <2> HIDE <2>5
  <2> DEFINE x == q * p
             y == n * p
  <2>8. x + p <= y /\ b = x + r /\ x \in Int /\ y \in Int
    BY <2>2, <2>6, <2>7
  <2> HIDE DEF x, y
  <2>9. a <= t + y
    BY <2>1, <2>8 DEF b
  <2> QED BY <2>9 DEF y
<1> QED BY <1>1, <1>2

(* A unit clocked in the steps of a set is clocked in step first and in     *)
(* every so many steps after it.                                            *)
Cycle(steps, first, every) ==
  \A q \in Nat, s \in 0..7 : (\E k \in Nat : 8 * q + s = first + k * every) <=> s \in steps

LEMMA LengthSteps == Cycle({0, 2, 4, 6}, 0, 2)
<1> SUFFICES ASSUME NEW q \in Nat, NEW s \in 0..7
             PROVE  (\E k \in Nat : 8 * q + s = 0 + k * 2) <=> s \in {0, 2, 4, 6}
  BY DEF Cycle
<1>1. ASSUME s \in {0, 2, 4, 6} PROVE \E k \in Nat : 8 * q + s = 0 + k * 2
  <2>1. CASE s = 0
    BY <2>1
  <2>2. CASE s = 2
    BY <2>2
  <2>3. CASE s = 4
    BY <2>3
  <2>4. CASE s = 6
    BY <2>4
  <2> QED BY <1>1, <2>1, <2>2, <2>3, <2>4
<1>2. ASSUME NEW k \in Nat, 8 * q + s = 0 + k * 2 PROVE s \in {0, 2, 4, 6}
  BY <1>2
<1> QED BY Zenon, <1>1, <1>2

LEMMA SweepSteps == Cycle({2, 6}, 2, 4)
<1> SUFFICES ASSUME NEW q \in Nat, NEW s \in 0..7
             PROVE  (\E k \in Nat : 8 * q + s = 2 + k * 4) <=> s \in {2, 6}
  BY DEF Cycle
<1>1. ASSUME s \in {2, 6} PROVE \E k \in Nat : 8 * q + s = 2 + k * 4
  <2>1. CASE s = 2
    BY <2>1
  <2>2. CASE s = 6
    BY <2>2
  <2> QED BY <1>1, <2>1, <2>2
<1>2. ASSUME NEW k \in Nat, 8 * q + s = 2 + k * 4 PROVE s \in {2, 6}
  BY <1>2
<1> QED BY Zenon, <1>1, <1>2

LEMMA EnvelopeSteps == Cycle({7}, 7, 8)
<1> SUFFICES ASSUME NEW q \in Nat, NEW s \in 0..7
             PROVE  (\E k \in Nat : 8 * q + s = 7 + k * 8) <=> s \in {7}
  BY DEF Cycle
<1>1. ASSUME s \in {7} PROVE \E k \in Nat : 8 * q + s = 7 + k * 8
  BY <1>1
<1>2. ASSUME NEW k \in Nat, 8 * q + s = 7 + k * 8 PROVE s \in {7}
  BY <1>2
<1> QED BY Zenon, <1>1, <1>2

LEMMA EnteredTick ==
  ASSUME Typed, age < Horizon[focus], NEW steps, NEW first \in Nat, NEW every \in Nat \ {0},
         Cycle(steps, first, every)
  PROVE  /\ Entered(age, first, every) \in Nat
         /\ At(steps) => /\ Entered(age + 1, first, every) = Entered(age, first, every) + 1
                         /\ age = StepCycles * first
                                  + Entered(age, first, every) * (StepCycles * every)
         /\ ~At(steps) => Entered(age + 1, first, every) = Entered(age, first, every)
<1>1. /\ cycles \in 0..StepCycles - 1 /\ step \in 0..7 /\ age \in Nat
      /\ StepCycles \in Nat \ {0}
  BY Constants, StepAssumption DEF Typed, SequencerTyped
<1>2. PICK q \in Nat : age = (8 * q + step) * StepCycles + cycles
  BY DEF Typed, SequencerTyped
<1>3. PICK n \in Nat : n = 8 * q + step
  BY <1>1
<1>4. age = n * StepCycles + cycles /\ ((\E k \in Nat : n = first + k * every) <=> step \in steps)
  BY Zenon, <1>1, <1>2, <1>3 DEF Cycle
<1>5. Hits(n, cycles, first, every) <=> At(steps)
  BY Zenon, <1>4 DEF Hits, At
<1>6. /\ Entered(age, first, every) \in Nat
      /\ Hits(n, cycles, first, every)
           => Entered(age + 1, first, every) = Entered(age, first, every) + 1
      /\ ~Hits(n, cycles, first, every)
           => Entered(age + 1, first, every) = Entered(age, first, every)
  <2>1. Hits(n, cycles, first, every)
          => Entered(age + 1, first, every) = Entered(age, first, every) + 1
    BY SMT, <1>1, <1>4, EnteredNext
  <2>2. ~Hits(n, cycles, first, every)
          => Entered(age + 1, first, every) = Entered(age, first, every)
    BY SMT, <1>1, <1>4, EnteredNext
  <2>3. Entered(age, first, every) \in Nat
    BY Zenon, <1>1, <1>4, EnteredNext
  <2> QED BY Zenon, <2>1, <2>2, <2>3
<1>7. ASSUME At(steps)
      PROVE  age = StepCycles * first + Entered(age, first, every) * (StepCycles * every)
  <2> DEFINE t == StepCycles * first
             p == StepCycles * every
  <2>1. t \in Nat /\ p \in Nat \ {0}
    BY <1>1
  <2>2. Entered(age, first, every) = Times(age, t, p)
    BY DEF Entered, Times
  <2>3. PICK k \in Nat : n = first + k * every
    BY Zenon, <1>4, <1>7 DEF At
  <2>4. age = t + k * p
    <3>1. age = (first + k * every) * StepCycles
      BY <1>1, <1>4, <1>7, <2>3 DEF At
    <3> QED BY <1>1, <3>1
  <2> HIDE DEF t, p
  <2>5. Times(t + k * p, t, p) = k
    BY <2>1, TimesAt
  <2>6. Entered(age, first, every) = k
    BY <2>2, <2>4, <2>5
  <2>7. age = t + Entered(age, first, every) * p
    BY <2>4, <2>6
  <2> QED BY <2>7 DEF t, p
<1> QED BY Zenon, <1>5, <1>6, <1>7

(* While a note sounds whose length counter is selected, it stays so, and   *)
(* the note ends before the bound of age.                                   *)
LengthInv ==
  note.sounds /\ pure.length =>
    /\ focus = "length" /\ selection
    /\ note.len \in Lens \cup {MaxLen[kind]} /\ note.len > 0
    /\ enabled => len = note.len - Entered(age, 0, 2) /\ len > 0
    /\ ~enabled => age = (note.len - 1) * 2 * StepCycles + 1

LEMMA LengthAge ==
  ASSUME Typed, LengthInv, note.sounds, pure.length, enabled
  PROVE  /\ Entered(age, 0, 2) \in Nat /\ age <= (note.len - 1) * (2 * StepCycles)
         /\ age < Horizon[focus]
<1> DEFINE n == note.len - 1
           p == 2 * StepCycles
<1>1. /\ focus = "length" /\ note.len \in Lens \cup {MaxLen[kind]} /\ note.len > 0
      /\ len = note.len - Entered(age, 0, 2) /\ len > 0
  BY DEF LengthInv
<1>2. /\ StepCycles \in Nat \ {0} /\ age \in Nat /\ note.len \in Nat
      /\ kind \in Kinds /\ focus \in Programs[kind] /\ Horizon[focus] \in Nat
  BY StepAssumption, Constants DEF Typed, SequencerTyped, NoteTyped
<1>3. n \in Nat /\ p \in Nat \ {0}
  BY <1>1, <1>2
<1>4. Entered(age, 0, 2) = Times(age, 0, p)
  BY <1>2 DEF Entered, Times
<1>5. Times(age, 0, p) \in Nat
  BY <1>2, <1>3, TimesNext
<1>6. Times(age, 0, p) <= n
  BY <1>1, <1>2, <1>4, <1>5
<1>7. age <= n * p
  <2> HIDE DEF n, p
  <2>1. age <= 0 + n * p
    BY <1>2, <1>3, <1>6, TimesBound
  <2>2. n * p \in Nat
    BY <1>3
  <2> QED BY <2>1, <2>2
<1>8. (note.len - 1) * (2 * StepCycles) < Horizon["length"]
  BY <1>1, <1>2, HorizonAssumption DEF HorizonAssumption
<1>9. n * p \in Int
  BY <1>3
<1> QED BY <1>1, <1>2, <1>4, <1>5, <1>7, <1>8, <1>9

LEMMA LengthTick == Typed /\ LengthInv /\ Tick => LengthInv'
<1> SUFFICES ASSUME Typed, LengthInv, Tick, note'.sounds, pure'.length
             PROVE  /\ focus' = "length" /\ selection'
                    /\ note'.len \in Lens \cup {MaxLen[kind']} /\ note'.len > 0
                    /\ enabled' => len' = note'.len - Entered(age', 0, 2) /\ len' > 0
                    /\ ~enabled' => age' = (note'.len - 1) * 2 * StepCycles + 1
  BY DEF LengthInv
<1>1. kind' = kind /\ focus' = focus /\ note' = note /\ selection' = selection
  BY DEF Tick, regs
<1>2. CASE ~Clocked
  BY <1>1, <1>2 DEF Tick, units, LengthInv
<1>3. CASE Clocked
  <2>1. /\ len' = NextLen /\ enabled' = ~(Overflows \/ (LengthClock /\ len = 1))
        /\ age' = Least(age + 1, Horizon[focus])
        /\ pure' = [pure EXCEPT !.pitch = @ /\ freq' = freq]
    BY <1>3 DEF Tick
  <2>2. pure.length
    <3>1. pure \in [length : BOOLEAN, pitch : BOOLEAN]
      BY DEF Typed, NoteTyped
    <3> DEFINE b == pure.pitch /\ freq' = freq
    <3>2. pure' = [pure EXCEPT !.pitch = b]
      BY <2>1
    <3> HIDE DEF b
    <3> QED BY <3>1, <3>2
  <2>3. enabled /\ note.sounds
    BY <1>1, <1>3 DEF Clocked
  <2>4. /\ focus = "length" /\ selection /\ note.len \in Lens \cup {MaxLen[kind]} /\ note.len > 0
        /\ len = note.len - Entered(age, 0, 2) /\ len > 0
    BY <2>2, <2>3 DEF LengthInv
  <2>5. age < Horizon[focus] /\ Entered(age, 0, 2) \in Nat
    BY <2>2, <2>3, LengthAge
  <2>6. /\ cycles \in 0..StepCycles - 1 /\ step \in 0..7 /\ age \in Nat /\ Horizon[focus] \in Nat
        /\ note.len \in Nat /\ StepCycles \in Nat \ {0} /\ len \in Nat
    BY Constants, StepAssumption DEF Typed, SequencerTyped, NoteTyped
  <2>7. /\ At({0, 2, 4, 6}) => /\ Entered(age + 1, 0, 2) = Entered(age, 0, 2) + 1
                                /\ age = StepCycles * 0 + Entered(age, 0, 2) * (StepCycles * 2)
        /\ ~At({0, 2, 4, 6}) => Entered(age + 1, 0, 2) = Entered(age, 0, 2)
    <3>1. 0 \in Nat /\ 2 \in Nat \ {0}
      OBVIOUS
    <3> QED BY Zenon, <2>5, <3>1, EnteredTick, LengthSteps
  <2>8. ~Overflows
    BY <2>4, SweepTick
  <2>9. age' = age + 1
    BY <2>1, <2>5, <2>6 DEF Least
  <2>10. LengthClock <=> At({0, 2, 4, 6})
    BY <2>4 DEF LengthClock
  <2>12. CASE ~LengthClock
    BY <1>1, <2>1, <2>4, <2>7, <2>8, <2>9, <2>10, <2>12 DEF NextLen
  <2>13. CASE LengthClock /\ len # 1
    <3>1. len' = len - 1 /\ len - 1 > 0
      BY <2>1, <2>4, <2>6, <2>13 DEF NextLen
    <3>2. Entered(age', 0, 2) = Entered(age, 0, 2) + 1
      BY <2>7, <2>9, <2>10, <2>13
    <3>3. len' = note.len - Entered(age', 0, 2) /\ len' > 0
      BY <2>4, <2>5, <2>6, <3>1, <3>2
    <3>4. enabled'
      BY <2>1, <2>8, <2>13
    <3> QED BY <1>1, <2>4, <3>3, <3>4
  <2>14. CASE LengthClock /\ len = 1
    <3> DEFINE n == note.len - 1
               p == 2 * StepCycles
    <3>1. n \in Nat /\ p \in Nat \ {0} /\ Entered(age, 0, 2) = n
      BY <2>4, <2>5, <2>6, <2>14
    <3>2. age = n * p
      <4>1. age = StepCycles * 0 + n * (StepCycles * 2)
        BY <2>7, <2>10, <2>14, <3>1
      <4> QED BY <2>6, <3>1, <4>1
    <3>3. n * p = (note.len - 1) * 2 * StepCycles
      BY <2>6
    <3>4. ~enabled'
      BY <2>1, <2>14
    <3> QED BY <1>1, <2>4, <2>9, <3>2, <3>3, <3>4
  <2> QED BY <2>12, <2>13, <2>14
<1> QED BY <1>2, <1>3

LEMMA LengthUnchanged ==
  ASSUME LengthInv, UNCHANGED <<kind, focus, selection, enabled, len, note, age>>,
         pure'.length => pure.length
  PROVE  LengthInv'
BY DEF LengthInv

LEMMA LengthGame == Typed /\ LengthInv /\ Game => LengthInv'
<1> SUFFICES ASSUME Typed, LengthInv, Game PROVE LengthInv'
  OBVIOUS
<1>0. pure \in [length : BOOLEAN, pitch : BOOLEAN]
  BY DEF Typed, NoteTyped
<1>1. CASE Power
  BY <1>1, LengthUnchanged DEF Power, regs, units, history
<1>2. ASSUME NEW l \in Lens, WriteLen(l) PROVE LengthInv'
  BY <1>0, <1>2, LengthUnchanged DEF WriteLen, units
<1>3. ASSUME NEW r, WriteEnvelope(r) PROVE LengthInv'
  BY <1>3, LengthUnchanged DEF WriteEnvelope, units, history
<1>4. ASSUME NEW b \in BOOLEAN, SetDac(b) PROVE LengthInv'
  BY <1>4, LengthUnchanged DEF SetDac, regs, units, history
<1>5. ASSUME NEW r, WriteSweep(r) PROVE LengthInv'
  BY <1>5, LengthUnchanged DEF WriteSweep, units, history
<1>6. ASSUME NEW f, WriteFreq(f) PROVE LengthInv'
  BY <1>0, <1>6, LengthUnchanged DEF WriteFreq, regs, units
<1>7. ASSUME NEW p, WritePolynomialCounter(p) PROVE LengthInv'
  BY <1>0, <1>7, LengthUnchanged DEF WritePolynomialCounter, units
<1>8. ASSUME NEW sel \in Selections, NEW h \in Highs, WriteControl(sel, h) PROVE LengthInv'
  <2>1. ~pure'.length
    BY <1>8 DEF WriteControl
  <2> QED BY <2>1 DEF LengthInv
<1>9. ASSUME NEW sel \in Selections, NEW h \in Highs, Trigger(sel, h) PROVE LengthInv'
  <2>1. /\ selection' = sel /\ kind' = kind /\ focus' = focus /\ lenReg' = lenReg
        /\ len' = IF lenReg = 0 THEN MaxLen[kind] ELSE lenReg
        /\ age' = 0 /\ pure' = [length |-> sel, pitch |-> TRUE]
        /\ note' = [len |-> len', volume |-> envReg.volume, freq |-> freq', pos |-> pos,
                    sounds |-> enabled']
    BY Zenon, <1>9 DEF Trigger, Restart
  <2>2. sel => focus = "length"
    BY DEF Selections
  <2>3. lenReg \in Lens \cup {0} /\ Lens \subseteq Nat /\ MaxLen[kind] \in Nat \ {0}
    BY Constants DEF Typed, RegsTyped
  <2>4. len' \in Lens \cup {MaxLen[kind]} /\ len' > 0 /\ len' \in Nat
    BY <2>1, <2>3
  <2>5. Entered(age', 0, 2) = 0
    BY <2>1, StepAssumption DEF Entered
  <2> QED BY <2>1, <2>2, <2>4, <2>5 DEF LengthInv
<1> QED BY Zenon, <1>1, <1>2, <1>3, <1>4, <1>5, <1>6, <1>7, <1>8, <1>9 DEF Game

(* A note with its length counter selected sounds exactly as long as the    *)
(* length says, whatever length, step and period of the sequencer there are *)
(* and whatever the game writes meanwhile but the control register.         *)
THEOREM NotesLastTheirLength == Spec => []NoteLength
<1>1. Init => LengthInv
  BY DEF Init, LengthInv
<1>2. Typed /\ LengthInv /\ UNCHANGED vars => LengthInv'
  BY LengthUnchanged DEF vars, history, regs, units
<1>3. Typed /\ LengthInv /\ [Next]_vars => LengthInv'
  BY <1>2, LengthTick, LengthGame DEF Next
<1>4. LengthInv => NoteLength
  BY DEF LengthInv, NoteLength
<1> QED BY <1>1, <1>3, <1>4, TypedHolds, PTL DEF Spec

-----------------------------------------------------------------------------
(* The volume.                                                              *)

(* A volume v after m steps of an envelope.                                 *)
Ramp(v, up, m) ==
  IF up THEN Least(v + m, MaxVolume) ELSE IF m < v THEN v - m ELSE 0

(* The counter of the envelope counts the clocks since the last of m steps  *)
(* (to the bound of age, behind which the volume no longer changes).        *)
VolumeInv ==
  enabled /\ kind # "wave" =>
    /\ env.period = 0 => env.volume = note.volume
    /\ env.period # 0 =>
         /\ env.counter < env.period
         /\ \E m \in Nat :
              /\ env.volume = Ramp(note.volume, env.up, m)
              /\ age < Horizon[focus] => Entered(age, 7, 8) = m * env.period + env.counter
              /\ age = Horizon[focus] => m >= MaxVolume

LEMMA RampEnds ==
  ASSUME NEW v \in 0..MaxVolume, NEW up \in BOOLEAN, NEW m \in Nat, NEW n \in Nat,
         m >= MaxVolume, n >= MaxVolume
  PROVE  Ramp(v, up, m) = Ramp(v, up, n)
BY SoundAssumption DEF Ramp, Least, SoundAssumption

LEMMA EnteredTyped ==
  ASSUME NEW a \in Nat, NEW first \in Nat, NEW every \in Nat \ {0}
  PROVE  Entered(a, first, every) \in Nat
<1> DEFINE t == StepCycles * first
           p == StepCycles * every
<1>1. t \in Nat /\ p \in Nat \ {0}
  BY SMT, StepAssumption
<1>2. Entered(a, first, every) = Times(a, t, p)
  BY DEF Entered, Times
<1> HIDE DEF t, p
<1> QED BY <1>1, <1>2, TimesNext

(* At the bound of age the envelope has had its clocks for all steps.       *)
LEMMA EnvelopeEnds ==
  ASSUME Typed, focus = "envelope", NEW p \in EnvPeriods \ {0}
  PROVE  p * MaxVolume <= Entered(Horizon[focus], 7, 8)
<1>1. /\ StepCycles \in Nat \ {0} /\ MaxVolume \in Nat /\ p \in Nat \ {0}
      /\ Horizon[focus] \in Nat /\ kind \in Kinds /\ focus \in Programs[kind]
  BY Constants, StepAssumption DEF Typed
<1> DEFINE t == StepCycles * 7
           w == StepCycles * 8
           h == Horizon[focus]
           n == p * MaxVolume - 1
           e == Entered(h, 7, 8)
<1>2. 7 * StepCycles + n * (8 * StepCycles) < h
  BY <1>1, HorizonAssumption DEF HorizonAssumption
<1>3. t \in Nat /\ w \in Nat \ {0} /\ h \in Nat /\ n \in Int
  BY <1>1
<1>4. 7 * StepCycles = t /\ 8 * StepCycles = w
  BY <1>1
<1>5. t + n * w < h
  BY <1>2, <1>4
<1>6. e \in Nat
  <2>1. 7 \in Nat /\ 8 \in Nat \ {0}
    OBVIOUS
  <2> QED BY Zenon, <1>3, <2>1, EnteredTyped
<1>7. e = Times(h, t, w)
  BY DEF Entered, Times
<1>8. n + 1 = p * MaxVolume
  BY <1>1
<1>9. e >= n + 1
  <2>1. SUFFICES ASSUME e <= n PROVE FALSE
    BY <1>3, <1>6
  <2> HIDE DEF t, w, h, n, e
  <2>2. n \in Nat /\ Times(h, t, w) <= n
    BY <1>3, <1>6, <1>7, <2>1
  <2>3. h <= t + n * w
    BY <1>3, <2>2, TimesBound
  <2>4. n * w \in Int
    BY <1>3
  <2> QED BY <1>3, <1>5, <2>3, <2>4
<1> HIDE DEF n, e
<1> QED BY <1>3, <1>6, <1>8, <1>9 DEF e, h

LEMMA LastStep ==
  ASSUME NEW p \in Nat \ {0}, NEW x \in Nat, NEW m \in Nat, NEW c \in Nat, c < p,
         p * x <= m * p + c
  PROVE  x <= m
<1>1. SUFFICES ASSUME m + 1 <= x PROVE FALSE
  OBVIOUS
<1>2. (m + 1) * p <= x * p
  BY <1>1
<1>3. (m + 1) * p = m * p + p /\ x * p = p * x
  OBVIOUS
<1> QED BY <1>2, <1>3

LEMMA VolumeAtEnd ==
  ASSUME Typed, focus = "envelope", NEW p \in EnvPeriods \ {0},
         NEW m \in Nat, NEW c \in Nat, c < p, Entered(Horizon[focus], 7, 8) = m * p + c
  PROVE  m >= MaxVolume
<1>1. p \in Nat \ {0} /\ MaxVolume \in Nat
  BY SoundAssumption DEF SoundAssumption
<1>2. p * MaxVolume <= m * p + c
  BY EnvelopeEnds
<1>3. MaxVolume <= m
  BY <1>1, <1>2, LastStep
<1> QED BY <1>1, <1>3

LEMMA VolumeTick == Typed /\ Typed' /\ VolumeInv /\ Tick => VolumeInv'
<1> SUFFICES ASSUME Typed, Typed', VolumeInv, Tick, enabled', kind' # "wave" PROVE VolumeInv'
  BY DEF VolumeInv
<1>1. kind' = kind /\ focus' = focus /\ note' = note
  BY DEF Tick, regs
<1>2. CASE ~Clocked
  BY <1>1, <1>2 DEF Tick, units, VolumeInv
<1>3. CASE Clocked
  <2>1. env' = NextEnv /\ age' = Least(age + 1, Horizon[focus])
    BY <1>3 DEF Tick
  <2>2. enabled /\ kind # "wave"
    BY <1>1, <1>3 DEF Clocked
  <2>3. env'.period = env.period /\ env'.up = env.up
    BY <2>1, EnvTick
  <2>4. /\ env \in [volume : 0..MaxVolume, up : BOOLEAN, period : EnvPeriods \cup {0},
                    counter : Nat]
        /\ MaxVolume \in Nat /\ EnvPeriods \subseteq Nat /\ age \in 0..Horizon[focus]
        /\ Horizon[focus] \in Nat /\ note.volume \in 0..MaxVolume /\ env.period \in Nat
    BY Constants DEF Typed, EnvTyped, SequencerTyped, NoteTyped
  <2>5. CASE env.period = 0
    <3>1. env' = env
      BY <2>1, <2>5 DEF NextEnv
    <3> QED BY <1>1, <2>2, <2>5, <3>1 DEF VolumeInv
  <2>6. CASE env.period # 0
    <3>1. env.counter < env.period
      BY <2>2, <2>6 DEF VolumeInv
    <3>2. PICK m \in Nat :
            /\ env.volume = Ramp(note.volume, env.up, m)
            /\ age < Horizon[focus] => Entered(age, 7, 8) = m * env.period + env.counter
            /\ age = Horizon[focus] => m >= MaxVolume
      BY <2>2, <2>6 DEF VolumeInv
    <3> DEFINE n == IF At({7}) /\ env.counter + 1 = env.period THEN m + 1 ELSE m
    <3>3. /\ n \in Nat /\ n >= m
          /\ env'.volume = Ramp(note.volume, env.up, n)
          /\ env'.counter \in Nat /\ env'.counter < env.period
      <4>1. CASE ~At({7})
        <5>1. env' = env
          BY <2>1, <4>1 DEF NextEnv
        <5> QED BY <2>4, <3>1, <3>2, <4>1, <5>1
      <4>2. CASE At({7}) /\ env.counter + 1 # env.period
        <5>1. env' = [env EXCEPT !.counter = env.counter + 1]
          BY <2>1, <2>2, <2>6, <4>2 DEF NextEnv
        <5> QED BY <2>4, <3>1, <3>2, <4>2, <5>1
      <4>3. CASE At({7}) /\ env.counter + 1 = env.period
        <5> DEFINE v == CASE env.up /\ env.volume < MaxVolume -> env.volume + 1
                          [] ~env.up /\ env.volume > 0 -> env.volume - 1
                          [] OTHER -> env.volume
        <5>1. env' = [env EXCEPT !.counter = 0, !.volume = v]
          BY <2>1, <2>2, <2>6, <4>3 DEF NextEnv
        <5>2. v = Ramp(note.volume, env.up, m + 1)
          <6>1. CASE env.up
            BY <2>4, <3>2, <6>1 DEF Ramp, Least
          <6>2. CASE ~env.up
            BY <2>4, <3>2, <6>2 DEF Ramp
          <6> QED BY <6>1, <6>2
        <5> HIDE DEF v
        <5>3. env'.counter = 0 /\ env'.volume = v
          BY <2>4, <5>1
        <5> QED BY <2>4, <2>6, <4>3, <5>2, <5>3
      <4> QED BY <4>1, <4>2, <4>3
    <3>4. CASE age < Horizon[focus]
      <4>1. age' = age + 1
        BY <2>1, <2>4, <3>4 DEF Least
      <4>2. /\ Entered(age, 7, 8) \in Nat
            /\ At({7}) => Entered(age + 1, 7, 8) = Entered(age, 7, 8) + 1
            /\ ~At({7}) => Entered(age + 1, 7, 8) = Entered(age, 7, 8)
        <5>1. 7 \in Nat /\ 8 \in Nat \ {0}
          OBVIOUS
        <5> QED BY Zenon, <3>4, <5>1, EnteredTick, EnvelopeSteps
      <4>3. Entered(age', 7, 8) = n * env.period + env'.counter
        <5>1. CASE ~At({7})
          <6>1. env' = env
            BY <2>1, <5>1 DEF NextEnv
          <6> QED BY <3>2, <3>4, <4>1, <4>2, <5>1, <6>1
        <5>2. CASE At({7}) /\ env.counter + 1 # env.period
          <6>1. env' = [env EXCEPT !.counter = env.counter + 1]
            BY <2>1, <2>2, <2>6, <5>2 DEF NextEnv
          <6>2. env'.counter = env.counter + 1 /\ n = m
            BY <2>4, <5>2, <6>1
          <6>3. m * env.period \in Nat
            BY <2>4
          <6> HIDE DEF n
          <6> QED BY <2>4, <3>2, <3>4, <4>1, <4>2, <5>2, <6>2, <6>3
        <5>3. CASE At({7}) /\ env.counter + 1 = env.period
          <6>1. env'.counter = 0 /\ n = m + 1
            <7> DEFINE v == CASE env.up /\ env.volume < MaxVolume -> env.volume + 1
                              [] ~env.up /\ env.volume > 0 -> env.volume - 1
                              [] OTHER -> env.volume
            <7>1. env' = [env EXCEPT !.counter = 0, !.volume = v]
              BY <2>1, <2>2, <2>6, <5>3 DEF NextEnv
            <7> HIDE DEF v
            <7> QED BY <2>4, <5>3, <7>1
          <6>2. (m + 1) * env.period = m * env.period + env.period
                /\ m * env.period \in Nat
            BY <2>4
          <6> HIDE DEF n
          <6> QED BY <2>4, <3>2, <3>4, <4>1, <4>2, <5>3, <6>1, <6>2
        <5> QED BY <5>1, <5>2, <5>3
      <4> HIDE DEF n
      <4>4. focus = "envelope" /\ env.period \in EnvPeriods \ {0}
        BY <2>4, <2>6 DEF Typed, EnvTyped
      <4>5. age' = Horizon[focus] => n >= MaxVolume
        BY <3>3, <4>3, <4>4, VolumeAtEnd
      <4> QED BY <1>1, <2>3, <2>6, <3>3, <4>3, <4>5 DEF VolumeInv
    <3>5. CASE age = Horizon[focus]
      <4>1. age' = Horizon[focus] /\ n >= MaxVolume
        BY <2>1, <2>4, <3>2, <3>3, <3>5 DEF Least
      <4> HIDE DEF n
      <4> QED BY <1>1, <2>3, <2>4, <2>6, <3>3, <4>1 DEF VolumeInv
    <3> QED BY <2>4, <3>4, <3>5
  <2> QED BY <2>5, <2>6
<1> QED BY <1>2, <1>3

LEMMA VolumeUnchanged ==
  ASSUME VolumeInv, UNCHANGED <<kind, focus, enabled, env, note, age>>
  PROVE  VolumeInv'
BY DEF VolumeInv

LEMMA VolumeTrigger ==
  ASSUME Typed, NEW sel, NEW h, Trigger(sel, h)
  PROVE  VolumeInv'
<1>1. /\ kind' = kind /\ focus' = focus /\ age' = 0
      /\ env' = [volume |-> envReg.volume, up |-> envReg.up, period |-> envReg.period,
                 counter |-> 0]
      /\ note' = [len |-> len', volume |-> envReg.volume, freq |-> freq', pos |-> pos,
                  sounds |-> enabled']
  BY Zenon DEF Trigger, Restart
<1>2. /\ envReg \in [volume : 0..MaxVolume, up : BOOLEAN, period : EnvPeriods \cup {0}]
      /\ envReg.period # 0 => focus = "envelope"
      /\ EnvPeriods \subseteq Nat /\ MaxVolume \in Nat /\ StepCycles \in Nat \ {0}
  BY Constants, StepAssumption DEF Typed, RegsTyped
<1>3. /\ env'.volume = envReg.volume /\ env'.up = envReg.up /\ env'.period = envReg.period
      /\ env'.counter = 0 /\ note'.volume = envReg.volume
  BY <1>1
<1>4. envReg.volume = Ramp(envReg.volume, envReg.up, 0)
  BY <1>2 DEF Ramp, Least
<1>5. Entered(0, 7, 8) = 0
  BY <1>2 DEF Entered
<1>6. ASSUME envReg.period # 0
      PROVE  /\ 0 < envReg.period /\ Entered(0, 7, 8) = 0 * envReg.period + 0
             /\ 0 = Horizon[focus] => 0 >= MaxVolume
  <2>1. 0 < envReg.period /\ envReg.period \in EnvPeriods \ {0} /\ envReg.period \in Nat
    <3>1. envReg.period \in EnvPeriods \cup {0}
      BY <1>2
    <3> DEFINE p == envReg.period
    <3>2. p \in EnvPeriods \cup {0} /\ p # 0 /\ EnvPeriods \subseteq Nat
      BY <1>2, <1>6, <3>1
    <3> HIDE DEF p
    <3>3. 0 < p /\ p \in EnvPeriods \ {0} /\ p \in Nat
      BY <3>2
    <3> QED BY <3>3 DEF p
  <2>2. Entered(0, 7, 8) = 0 * envReg.period + 0
    BY <1>5, <2>1
  <2>3. 0 = Horizon[focus] => 0 >= MaxVolume
    <3> DEFINE m == 0
               c == 0
               p == envReg.period
    <3>1. m \in Nat /\ c \in Nat /\ c < p /\ Entered(0, 7, 8) = m * p + c
      BY <2>1, <2>2
    <3> HIDE DEF m, c, p
    <3>2. ASSUME 0 = Horizon[focus] PROVE m >= MaxVolume
      BY <1>2, <1>6, <2>1, <3>1, <3>2, VolumeAtEnd DEF p
    <3> QED BY <3>2 DEF m
  <2> QED BY <2>1, <2>2, <2>3
<1>7. envReg.period # 0 =>
        \E m \in Nat :
          /\ env'.volume = Ramp(note'.volume, env'.up, m)
          /\ age' < Horizon[focus'] => Entered(age', 7, 8) = m * env'.period + env'.counter
          /\ age' = Horizon[focus'] => m >= MaxVolume
  <2>1. envReg.period # 0 =>
          /\ env'.volume = Ramp(note'.volume, env'.up, 0)
          /\ age' < Horizon[focus'] => Entered(age', 7, 8) = 0 * env'.period + env'.counter
          /\ age' = Horizon[focus'] => 0 >= MaxVolume
    BY Zenon, <1>1, <1>3, <1>4, <1>6
  <2>2. 0 \in Nat
    OBVIOUS
  <2> QED BY Zenon, <2>1, <2>2
<1> QED BY Zenon, <1>3, <1>6, <1>7 DEF VolumeInv

LEMMA VolumeGame == Typed /\ VolumeInv /\ Game => VolumeInv'
<1> SUFFICES ASSUME Typed, VolumeInv, Game PROVE VolumeInv'
  OBVIOUS
<1>1. CASE Power
  BY <1>1, VolumeUnchanged DEF Power, units, history
<1>2. ASSUME NEW l, WriteLen(l) PROVE VolumeInv'
  BY <1>2, VolumeUnchanged DEF WriteLen, units
<1>3. ASSUME NEW r, WriteEnvelope(r) PROVE VolumeInv'
  BY <1>3, VolumeUnchanged DEF WriteEnvelope, units, history
<1>4. ASSUME NEW b, SetDac(b) PROVE VolumeInv'
  BY <1>4, VolumeUnchanged DEF SetDac, units, history
<1>5. ASSUME NEW r, WriteSweep(r) PROVE VolumeInv'
  BY <1>5, VolumeUnchanged DEF WriteSweep, units, history
<1>6. ASSUME NEW f, WriteFreq(f) PROVE VolumeInv'
  BY <1>6, VolumeUnchanged DEF WriteFreq, units
<1>7. ASSUME NEW p, WritePolynomialCounter(p) PROVE VolumeInv'
  BY <1>7, VolumeUnchanged DEF WritePolynomialCounter, units
<1>8. ASSUME NEW sel, NEW h, WriteControl(sel, h) PROVE VolumeInv'
  BY <1>8, VolumeUnchanged DEF WriteControl, units
<1>9. ASSUME NEW sel, NEW h, Trigger(sel, h) PROVE VolumeInv'
  BY <1>9, VolumeTrigger
<1> QED BY Zenon, <1>1, <1>2, <1>3, <1>4, <1>5, <1>6, <1>7, <1>8, <1>9 DEF Game

LEMMA VolumeInvImplies == Typed /\ VolumeInv => VolumeFollowsTime
<1> SUFFICES ASSUME Typed, VolumeInv, enabled, kind # "wave"
             PROVE  LET n == IF env.period = 0 THEN 0 ELSE Entered(age, 7, 8) \div env.period
                    IN env.volume = Ramp(note.volume, env.up, n)
  BY DEF VolumeFollowsTime, Ramp
<1>1. /\ env.period \in EnvPeriods \cup {0} /\ env.counter \in Nat /\ env.up \in BOOLEAN
      /\ note.volume \in 0..MaxVolume
      /\ MaxVolume \in Nat /\ EnvPeriods \subseteq Nat /\ env.period \in Nat
      /\ age \in 0..Horizon[focus] /\ Horizon[focus] \in Nat
  BY Constants DEF Typed, EnvTyped, SequencerTyped, NoteTyped
<1>2. CASE env.period = 0
  <2>1. env.volume = note.volume
    BY <1>2 DEF VolumeInv
  <2> QED BY <1>1, <1>2, <2>1 DEF Ramp, Least
<1>3. CASE env.period # 0
  <2> DEFINE e == Entered(age, 7, 8)
             p == env.period
             c == env.counter
  <2>1. c < p /\ c \in Nat /\ p \in Nat \ {0}
    BY <1>1, <1>3 DEF VolumeInv
  <2>2. PICK m \in Nat :
          /\ env.volume = Ramp(note.volume, env.up, m)
          /\ age < Horizon[focus] => e = m * p + c
          /\ age = Horizon[focus] => m >= MaxVolume
    BY Zenon, <1>3 DEF VolumeInv
  <2>3. e \in Nat
    <3>1. 7 \in Nat /\ 8 \in Nat \ {0} /\ age \in Nat
      BY <1>1
    <3> QED BY Zenon, <3>1, EnteredTyped
  <2>4. CASE age < Horizon[focus]
    <3> HIDE DEF e, p, c
    <3>1. e = m * p + c /\ c \in 0..p - 1 /\ m \in Int /\ e \in Int
      BY <2>1, <2>2, <2>3, <2>4
    <3>2. e \div p = m
      BY <2>1, <3>1, DivUnique
    <3> QED BY <1>3, <2>2, <3>2 DEF e, p
  <2>5. CASE age = Horizon[focus]
    <3>1. focus = "envelope" /\ env.period \in EnvPeriods \ {0}
      BY <1>1, <1>3 DEF Typed, EnvTyped
    <3>2. p * MaxVolume <= e
      BY <2>5, <3>1, EnvelopeEnds
    <3> HIDE DEF e, p, c
    <3>3. PICK q \in Nat, r \in 0..p - 1 : e = q * p + r
      BY <2>1, <2>3, DivSplit
    <3>4. e \div p = q
      <4>1. q \in Int /\ e \in Int
        BY <2>3
      <4> QED BY Zenon, <2>1, <3>3, <4>1, DivUnique
    <3>5. MaxVolume <= q
      <4>1. r \in Nat /\ r < p /\ p * MaxVolume <= q * p + r
        BY <2>1, <3>2, <3>3
      <4> QED BY <1>1, <2>1, <4>1, LastStep
    <3>6. q >= MaxVolume /\ m >= MaxVolume
      BY <1>1, <2>2, <2>5, <3>5
    <3>7. Ramp(note.volume, env.up, m) = Ramp(note.volume, env.up, q)
      BY <1>1, <3>6, RampEnds
    <3> QED BY <1>3, <2>2, <3>4, <3>7 DEF e, p
  <2> QED BY <1>1, <2>4, <2>5
<1> QED BY <1>2, <1>3

(* The volume of a note is the function of its age that the envelope of its *)
(* trigger gives, for every period, top and length of a step.               *)
THEOREM VolumesFollowTime == Spec => []VolumeFollowsTime
<1>1. Init => VolumeInv
  BY DEF Init, VolumeInv
<1>2. Typed /\ VolumeInv /\ UNCHANGED vars => VolumeInv'
  BY VolumeUnchanged DEF vars, history, units
<1>3. Typed /\ Typed' /\ VolumeInv /\ [Next]_vars => VolumeInv'
  BY <1>2, VolumeTick, VolumeGame DEF Next
<1> QED BY <1>1, <1>3, VolumeInvImplies, TypedHolds, PTL DEF Spec

-----------------------------------------------------------------------------
(* The pitch.                                                               *)

(* The timer counts the T-states since the last of k shifts, in the period  *)
(* of the note.                                                             *)
ToneInv ==
  Timed /\ enabled /\ pure.pitch =>
    /\ freq = note.freq /\ period = Period(note.freq) /\ count < AtLeast1(period)
    /\ age < Horizon[focus] =>
         \E k \in Nat : /\ age = k * AtLeast1(period) + count
                        /\ pos = (note.pos + k) % Positions[kind]

LEMMA ModSmall ==
  ASSUME NEW n \in Nat \ {0}, NEW r \in 0..n - 1
  PROVE  r % n = r
OBVIOUS

LEMMA ModNext ==
  ASSUME NEW n \in Nat \ {0}, NEW x \in Nat
  PROVE  ((x % n) + 1) % n = (x + 1) % n
<1>1. PICK q \in Nat, r \in 0..n - 1 : x = q * n + r
  BY DivSplit
<1>2. q \in Int /\ x \in Int
  OBVIOUS
<1>3. x % n = r
  BY Zenon, <1>1, <1>2, DivUnique
<1>4. CASE r # n - 1
  <2> DEFINE a == x + 1
             s == r + 1
  <2>1. a = q * n + s /\ s \in 0..n - 1 /\ a \in Int /\ q \in Int
    BY <1>1, <1>4
  <2> HIDE DEF a, s
  <2>2. a % n = s
    BY Zenon, <2>1, DivUnique
  <2>3. s % n = s
    BY Zenon, <2>1, ModSmall
  <2> QED BY <1>3, <2>2, <2>3 DEF a, s
<1>5. CASE r = n - 1
  <2> DEFINE a == x + 1
             p == q + 1
             s == r + 1
             one == 1
  <2>1. a = p * n /\ p \in Int /\ a \in Int
    BY <1>1, <1>5
  <2>2. s = one * n /\ one \in Int /\ s \in Int
    BY <1>5
  <2> HIDE DEF a, p, s, one
  <2>3. a % n = 0 /\ s % n = 0
    BY Zenon, <2>1, <2>2, DivExact
  <2> QED BY <1>3, <2>3 DEF a, s
<1> QED BY <1>4, <1>5

LEMMA ToneTick == Typed /\ Typed' /\ ToneInv /\ Tick => ToneInv'
<1> SUFFICES ASSUME Typed, Typed', ToneInv, Tick, Timed', enabled', pure'.pitch PROVE ToneInv'
  BY DEF ToneInv
<1>1. kind' = kind /\ focus' = focus /\ note' = note /\ poly' = poly /\ focus = "tone" /\ Timed
  BY DEF Tick, regs, Timed
<1>2. Period(note.freq)' = Period(note.freq)
  BY Zenon, <1>1 DEF Period
<1>3. CASE ~Clocked
  <2>1. /\ enabled' = enabled /\ pure' = pure /\ freq' = freq /\ period' = period
        /\ count' = count /\ pos' = pos /\ age' = age
    BY <1>3 DEF Tick, units, wave
  <2> QED BY <1>1, <1>2, <2>1 DEF ToneInv
<1>4. CASE Clocked
  <2>1. /\ freq' = IF Slides THEN sweep'.shadow ELSE freq
        /\ count' = IF TimerDue \/ ~Timed THEN 0 ELSE count + 1
        /\ period' = IF TimerDue THEN Period(freq') ELSE period
        /\ pos' = IF TimerDue THEN (pos + 1) % Positions[kind] ELSE pos
        /\ age' = Least(age + 1, Horizon[focus])
        /\ pure' = [pure EXCEPT !.pitch = @ /\ freq' = freq]
    BY <1>4 DEF Tick
  <2>2. enabled /\ freq' = freq
    BY <1>1, <1>4, <2>1, SweepTick DEF Clocked
  <2>3. pure.pitch
    <3> DEFINE b == pure.pitch /\ freq' = freq
    <3>1. pure \in [length : BOOLEAN, pitch : BOOLEAN]
      BY DEF Typed, NoteTyped
    <3>2. pure' = [pure EXCEPT !.pitch = b]
      BY <2>1
    <3>3. b
      <4> HIDE DEF b
      <4> QED BY <3>1, <3>2
    <3> QED BY <3>3
  <2>4. freq = note.freq /\ period = Period(note.freq) /\ count < AtLeast1(period)
    BY <1>1, <2>2, <2>3 DEF ToneInv
  <2>5. /\ period \in Nat /\ count \in Nat /\ age \in 0..Horizon[focus] /\ Horizon[focus] \in Nat
        /\ Positions[kind] \in Nat \ {0} /\ note.pos \in Nat
    BY Constants DEF Typed, ToneTyped, SequencerTyped, NoteTyped
  <2>6. period' = period
    BY <2>1, <2>2, <2>4
  <2> DEFINE p == AtLeast1(period)
  <2>7. p \in Nat \ {0} /\ (TimerDue <=> count + 1 = p)
    BY <1>1, <2>4, <2>5 DEF AtLeast1, TimerDue
  <2>8. count' < p /\ (~TimerDue => count' = count + 1) /\ (TimerDue => count' = 0)
    BY <1>1, <2>1, <2>4, <2>5, <2>7
  <2>9. ASSUME age' < Horizon[focus]
        PROVE  \E k \in Nat : /\ age' = k * p + count'
                              /\ pos' = (note.pos + k) % Positions[kind]
    <3>1. age' = age + 1 /\ age < Horizon[focus]
      BY <2>1, <2>5, <2>9 DEF Least
    <3>2. PICK k \in Nat : age = k * p + count /\ pos = (note.pos + k) % Positions[kind]
      BY Zenon, <1>1, <2>2, <2>3, <3>1 DEF ToneInv
    <3> HIDE DEF p
    <3>3. CASE ~TimerDue
      <4>1. k * p \in Nat
        BY <2>7
      <4>2. age' = k * p + count'
        BY <2>5, <2>8, <3>1, <3>2, <3>3, <4>1
      <4>3. pos' = pos
        BY <2>1, <3>3
      <4> QED BY Zenon, <3>2, <4>2, <4>3
    <3>4. CASE TimerDue
      <4>1. (k + 1) * p = k * p + p /\ k * p \in Nat
        BY <2>7
      <4>2. age' = (k + 1) * p + count'
        BY <2>5, <2>7, <2>8, <3>1, <3>2, <3>4, <4>1
      <4> DEFINE n == Positions[kind]
                 x == note.pos + k
      <4>3. pos' = (pos + 1) % n /\ pos = x % n /\ x \in Nat /\ n \in Nat \ {0}
        BY <2>1, <2>5, <3>2, <3>4
      <4>4. note.pos + (k + 1) = x + 1
        BY <2>5
      <4> HIDE DEF n, x
      <4>5. pos' = (x + 1) % n
        BY Zenon, <4>3, ModNext
      <4>6. k + 1 \in Nat /\ pos' = (note.pos + (k + 1)) % n
        BY <4>4, <4>5
      <4> QED BY Zenon, <4>2, <4>6 DEF n
    <3> QED BY <3>3, <3>4
  <2>10. p = AtLeast1(period')
    BY <2>6
  <2> HIDE DEF p
  <2>11. age' < Horizon[focus'] =>
           \E k \in Nat : /\ age' = k * AtLeast1(period') + count'
                          /\ pos' = (note'.pos + k) % Positions[kind']
    BY Zenon, <1>1, <2>9, <2>10
  <2>12. freq' = note'.freq /\ period' = Period(note.freq)' /\ count' < AtLeast1(period')
    BY <1>1, <1>2, <2>2, <2>4, <2>6, <2>8, <2>10
  <2> QED BY Zenon, <2>11, <2>12 DEF ToneInv
<1> QED BY <1>3, <1>4

LEMMA ToneUnchanged ==
  ASSUME ToneInv, UNCHANGED <<kind, focus, enabled, poly, period, count, freq, pos, note, age>>,
         pure'.pitch => pure.pitch
  PROVE  ToneInv'
<1>1. Period(note.freq)' = Period(note.freq)
  BY Zenon DEF Period
<1> QED BY <1>1 DEF ToneInv, Timed

LEMMA ToneTrigger ==
  ASSUME Typed, NEW sel \in Selections, NEW h \in Highs, Trigger(sel, h)
  PROVE  ToneInv'
<1> SUFFICES ASSUME Timed' PROVE ToneInv'
  BY DEF ToneInv
<1>1. /\ kind' = kind /\ focus' = focus /\ poly' = poly /\ pos' = pos /\ age' = 0 /\ count' = 0
      /\ period' = IF Timed THEN Period(freq') ELSE 0
      /\ note' = [len |-> len', volume |-> envReg.volume, freq |-> freq', pos |-> pos,
                  sounds |-> enabled']
  BY Zenon DEF Trigger, Restart, wave
<1>2. note'.freq = freq' /\ note'.pos = pos' /\ Timed
  BY <1>1 DEF Timed
<1>3. Period(note.freq)' = Period(freq')
  BY Zenon, <1>1, <1>2 DEF Period
<1>4. period' = Period(note.freq)'
  BY <1>1, <1>2, <1>3
<1>5. Typed'
  BY TypedTrigger
<1>6. /\ period' \in Nat /\ pos \in 0..Positions[kind] - 1 /\ Positions[kind] \in Nat \ {0}
  BY <1>5, Constants DEF Typed, ToneTyped
<1> DEFINE p == AtLeast1(period')
<1>7. p \in Nat \ {0}
  BY <1>6 DEF AtLeast1
<1> HIDE DEF p
<1>8. count' < p /\ age' = 0 * p + count'
  BY <1>1, <1>7
<1>9. pos' = (note'.pos + 0) % Positions[kind']
  <2>1. note'.pos + 0 = pos
    BY <1>1, <1>2, <1>6
  <2>2. pos % Positions[kind] = pos
    BY Zenon, <1>6, ModSmall
  <2> QED BY <1>1, <2>1, <2>2
<1>10. \E k \in Nat : /\ age' = k * p + count'
                      /\ pos' = (note'.pos + k) % Positions[kind']
  <2>1. 0 \in Nat
    OBVIOUS
  <2> QED BY Zenon, <1>8, <1>9, <2>1
<1> QED BY Zenon, <1>2, <1>4, <1>8, <1>10 DEF ToneInv, p

LEMMA ToneGame == Typed /\ ToneInv /\ Game => ToneInv'
<1> SUFFICES ASSUME Typed, ToneInv, Game PROVE ToneInv'
  OBVIOUS
<1>0. /\ pure \in [length : BOOLEAN, pitch : BOOLEAN]
      /\ ~pure'.pitch => ToneInv'
  BY DEF Typed, NoteTyped, ToneInv
<1>1. CASE Power
  BY <1>1, ToneUnchanged DEF Power, regs, units, wave, history
<1>2. ASSUME NEW l, WriteLen(l) PROVE ToneInv'
  BY <1>0, <1>2 DEF WriteLen
<1>3. ASSUME NEW r, WriteEnvelope(r) PROVE ToneInv'
  BY <1>3, ToneUnchanged DEF WriteEnvelope, units, wave, history
<1>4. ASSUME NEW b, SetDac(b) PROVE ToneInv'
  BY <1>4, ToneUnchanged DEF SetDac, regs, units, wave, history
<1>5. ASSUME NEW r, WriteSweep(r) PROVE ToneInv'
  BY <1>5, ToneUnchanged DEF WriteSweep, units, wave, history
<1>6. ASSUME NEW f, WriteFreq(f) PROVE ToneInv'
  BY <1>0, <1>6 DEF WriteFreq
<1>7. ASSUME NEW p, WritePolynomialCounter(p) PROVE ToneInv'
  BY <1>0, <1>7 DEF WritePolynomialCounter
<1>8. ASSUME NEW sel, NEW h, WriteControl(sel, h) PROVE ToneInv'
  BY <1>0, <1>8 DEF WriteControl
<1> QED BY Zenon, <1>1, <1>2, <1>3, <1>4, <1>5, <1>6, <1>7, <1>8, ToneTrigger DEF Game

LEMMA ToneInvImplies == Typed /\ ToneInv => OnPitch
<1> SUFFICES ASSUME Typed, ToneInv, Timed, enabled, pure.pitch, age < Horizon[focus]
             PROVE  pos = (note.pos + age \div AtLeast1(Period(note.freq))) % Positions[kind]
  BY DEF OnPitch
<1>1. period = Period(note.freq) /\ count < AtLeast1(period)
  BY DEF ToneInv
<1>2. period \in Nat /\ count \in Nat /\ age \in Nat
  BY Constants DEF Typed, ToneTyped, SequencerTyped
<1> DEFINE p == AtLeast1(period)
<1>3. p \in Nat \ {0}
  BY <1>2 DEF AtLeast1
<1>4. PICK k \in Nat : age = k * p + count /\ pos = (note.pos + k) % Positions[kind]
  BY Zenon DEF ToneInv
<1>5. p = AtLeast1(Period(note.freq)) /\ count < p
  BY <1>1
<1> HIDE DEF p
<1>6. count \in 0..p - 1 /\ age \in Int /\ k \in Int
  BY <1>2, <1>3, <1>5
<1>7. age \div p = k
  BY Zenon, <1>3, <1>4, <1>6, DivUnique
<1> QED BY Zenon, <1>4, <1>5, <1>7

(* A note whose pitch nobody changes is where its age and its period say,   *)
(* for every frequency, unit and number of positions.                       *)
THEOREM NotesKeepTheirPitch == Spec => []OnPitch
<1>1. Init => ToneInv
  BY DEF Init, ToneInv
<1>2. Typed /\ ToneInv /\ UNCHANGED vars => ToneInv'
  BY ToneUnchanged DEF vars, history, units, regs, wave
<1>3. Typed /\ Typed' /\ ToneInv /\ [Next]_vars => ToneInv'
  BY <1>2, ToneTick, ToneGame DEF Next
<1> QED BY <1>1, <1>3, ToneInvImplies, TypedHolds, PTL DEF Spec

-----------------------------------------------------------------------------
(* The slide.                                                               *)

LEMMA LeastNumber ==
  ASSUME NEW T \in SUBSET Nat, T # {}
  PROVE  \E x \in T : \A y \in T : x <= y
<1> DEFINE R == OpToRel(<, Nat)
<1>1. IsWellFoundedOn(R, Nat)
  BY NatLessThanWellFounded
<1>2. \A a, b \in Nat : a < b => <<a, b>> \in R
  BY DEF OpToRel
<1> HIDE DEF R
<1>3. PICK x \in T : \A y \in T : ~(<<y, x>> \in R)
  BY <1>1, WFMin, Zenon
<1>4. \A y \in T : ~(y < x)
  BY <1>2, <1>3, Zenon
<1>5. \A y \in T : x <= y
  BY <1>4
<1> QED BY <1>5

(* The frequencies of m steps of a sweep s from one on; one out of range is *)
(* the last.                                                                *)
Following(v, s) == IF v > TopFreq THEN v ELSE Shifted(v, s)

IsSlide(g, m, from, s) ==
  /\ g \in [0..m -> Int] /\ g[0] = from
  /\ \A k \in 1..m : g[k] = Following(g[k - 1], s)

Moving == sweep.on /\ sweep.shifts # 0

(* The sweep is m steps along its slide, and its clocks count those since   *)
(* the last.                                                                *)
SlideInv ==
  note.sounds /\ kind = "sweep" /\ focus = "sweep" /\ age < Horizon[focus] =>
    \E m, g :
      /\ m \in Nat
      /\ IsSlide(g, m, note.freq, sweep)
      /\ Moving => /\ Entered(age, 2, 4) = m * AtLeast1(sweep.period) + sweep.clocks
                   /\ sweep.clocks < AtLeast1(sweep.period)
      /\ ~Moving => m = 0
      /\ enabled => sweep.shadow = g[m] /\ g[m] <= TopFreq
      /\ ~enabled => g[m] > TopFreq

LEMMA ShiftedTyped ==
  ASSUME NEW v \in Int, NEW s, s.shifts \in Shifts \cup {0}
  PROVE  Shifted(v, s) \in Int
<1> DEFINE p == 2^s.shifts
<1>1. p \in Nat \ {0}
  BY SoundAssumption DEF SoundAssumption
<1>2. Shifted(v, s) = IF s.down THEN v - (v \div p) ELSE v + (v \div p)
  BY DEF Shifted
<1> HIDE DEF p
<1>3. (v \div p) \in Int
  BY <1>1
<1> QED BY <1>2, <1>3

(* Only the shifts and the direction of a sweep matter.                     *)
LEMMA SlideSame ==
  ASSUME NEW g, NEW m, NEW from, NEW s, NEW t, IsSlide(g, m, from, s),
         s.shifts = t.shifts, s.down = t.down
  PROVE  IsSlide(g, m, from, t)
<1>1. \A v : Following(v, s) = Following(v, t)
  BY DEF Following, Shifted
<1> QED BY <1>1 DEF IsSlide

LEMMA SlideOn ==
  ASSUME NEW g, NEW m \in Nat, NEW from, NEW s, IsSlide(g, m, from, s),
         s.shifts \in Shifts \cup {0}, g[m] <= TopFreq
  PROVE  \E h : IsSlide(h, m + 1, from, s) /\ h[m + 1] = Shifted(g[m], s)
<1> DEFINE h == [k \in 0..m + 1 |-> IF k = m + 1 THEN Shifted(g[m], s) ELSE g[k]]
<1>1. g \in [0..m -> Int] /\ g[0] = from /\ (\A k \in 1..m : g[k] = Following(g[k - 1], s))
      /\ TopFreq \in Nat
  BY SoundAssumption DEF IsSlide, SoundAssumption
<1>2. m \in 0..m /\ g[m] \in Int
  BY <1>1
<1>3. Shifted(g[m], s) \in Int
  BY <1>2, ShiftedTyped
<1>4. m + 1 \in 0..m + 1 /\ m + 1 # 0 /\ 0 \in 0..m + 1
  OBVIOUS
<1>5. h[m + 1] = Shifted(g[m], s) /\ (\A k \in 0..m : h[k] = g[k])
  <2>1. \A k \in 0..m : k \in 0..m + 1 /\ k # m + 1
    OBVIOUS
  <2> QED BY Zenon, <1>4, <2>1
<1>6. h \in [0..m + 1 -> Int]
  <2>1. \A k \in 0..m + 1 : k # m + 1 => k \in 0..m
    OBVIOUS
  <2> QED BY <1>1, <1>3, <2>1
<1>7. h[0] = from
  <2>1. 0 \in 0..m
    OBVIOUS
  <2> QED BY Zenon, <1>1, <1>5, <2>1
<1> HIDE DEF h
<1>8. ASSUME NEW k \in 1..m + 1 PROVE h[k] = Following(h[k - 1], s)
  <2>1. k - 1 \in 0..m
    OBVIOUS
  <2>2. h[k - 1] = g[k - 1]
    BY <1>5, <2>1
  <2>3. CASE k = m + 1
    <3>1. k - 1 = m
      BY <2>3
    <3>2. Following(g[m], s) = Shifted(g[m], s)
      BY <1>1, <1>2 DEF Following
    <3> QED BY Zenon, <1>5, <2>2, <2>3, <3>1, <3>2
  <2>4. CASE k # m + 1
    <3>1. k \in 1..m /\ k \in 0..m
      BY <2>4
    <3> QED BY Zenon, <1>1, <1>5, <2>2, <3>1
  <2> QED BY <2>3, <2>4
<1>9. IsSlide(h, m + 1, from, s)
  BY Zenon, <1>6, <1>7, <1>8 DEF IsSlide
<1> QED BY <1>5, <1>9

LEMMA SlideUnique ==
  ASSUME NEW g, NEW m \in Nat, NEW from, NEW s, IsSlide(g, m, from, s), NEW f,
         \A k \in 0..m : f[k] = IF k = 0 THEN from
                                ELSE IF f[k - 1] > TopFreq THEN f[k - 1] ELSE Shifted(f[k - 1], s)
  PROVE  f[m] = g[m]
<1> DEFINE T == {k \in 0..m : f[k] # g[k]}
<1>1. SUFFICES ASSUME T # {} PROVE FALSE
  <2>1. m \in 0..m
    OBVIOUS
  <2> QED BY <2>1
<1>2. T \in SUBSET Nat
  OBVIOUS
<1>3. PICK n \in T : \A y \in T : n <= y
  BY <1>1, <1>2, LeastNumber
<1>4. n \in 0..m /\ f[n] # g[n] /\ (\A k \in 0..m : f[k] # g[k] => n <= k)
  BY <1>3
<1> HIDE DEF T
<1>5. n # 0
  <2>1. 0 \in 0..m
    OBVIOUS
  <2>2. f[0] = from /\ g[0] = from
    BY <2>1 DEF IsSlide
  <2> QED BY <1>4, <2>2
<1>6. n - 1 \in 0..m /\ n \in 1..m /\ ~(n <= n - 1)
  BY <1>4, <1>5
<1>7. f[n - 1] = g[n - 1]
  BY <1>4, <1>6
<1>8. g[n] = Following(g[n - 1], s)
  BY <1>6 DEF IsSlide
<1>9. f[n] = Following(f[n - 1], s)
  BY <1>4, <1>5 DEF Following
<1> QED BY <1>4, <1>7, <1>8, <1>9

LEMMA SlideTick == Typed /\ SlideInv /\ Tick => SlideInv'
<1> SUFFICES ASSUME Typed, SlideInv, Tick,
                    note'.sounds, kind' = "sweep", focus' = "sweep", age' < Horizon[focus']
             PROVE  \E m, g :
                      /\ m \in Nat
                      /\ IsSlide(g, m, note'.freq, sweep')
                      /\ Moving' => /\ Entered(age', 2, 4)
                                         = m * AtLeast1(sweep'.period) + sweep'.clocks
                                    /\ sweep'.clocks < AtLeast1(sweep'.period)
                      /\ ~Moving' => m = 0
                      /\ enabled' => sweep'.shadow = g[m] /\ g[m] <= TopFreq
                      /\ ~enabled' => g[m] > TopFreq
  BY DEF SlideInv
<1>1. kind' = kind /\ focus' = focus /\ note' = note /\ kind = "sweep" /\ focus = "sweep"
      /\ note.sounds
  BY DEF Tick
<1>2. CASE ~Clocked
  <2>1. enabled' = enabled /\ sweep' = sweep /\ age' = age
    BY <1>2 DEF Tick, units
  <2> QED BY <1>1, <2>1 DEF SlideInv, Moving
<1>3. CASE Clocked
  <2>1. /\ sweep' = NextSweep /\ enabled' = ~(Overflows \/ (LengthClock /\ len = 1))
        /\ age' = Least(age + 1, Horizon[focus])
    BY <1>3 DEF Tick
  <2>2. enabled /\ ~LengthClock
    BY <1>1, <1>3 DEF Clocked, LengthClock, Typed, RegsTyped
  <2>3. /\ sweep \in [period : SweepPeriods \cup {0}, down : BOOLEAN, shifts : Shifts \cup {0},
                      on : BOOLEAN, clocks : Nat, shadow : Int]
        /\ SweepPeriods \subseteq Nat /\ age \in Nat /\ Horizon[focus] \in Nat
        /\ TopFreq \in Nat /\ note.freq \in Int /\ sweep.period \in Nat /\ sweep.clocks \in Nat
        /\ sweep.shadow \in Int
    BY Constants DEF Typed, SweepTyped, SequencerTyped, NoteTyped
  <2>4. age < Horizon[focus] /\ age' = age + 1
    BY <1>1, <2>1, <2>3 DEF Least
  <2>5. /\ sweep'.period = sweep.period /\ sweep'.on = sweep.on
        /\ sweep'.shifts = sweep.shifts /\ sweep'.down = sweep.down
    BY <2>1, SweepTick
  <2>6. /\ sweep'.clocks = IF ~SweepClock THEN sweep.clocks
                           ELSE IF sweep.clocks + 1 >= sweep.period THEN 0 ELSE sweep.clocks + 1
        /\ sweep'.shadow = IF Slides THEN Shifted(sweep.shadow, sweep) ELSE sweep.shadow
    <3> DEFINE clocks == IF ~SweepClock THEN sweep.clocks
                         ELSE IF sweep.clocks + 1 >= sweep.period THEN 0 ELSE sweep.clocks + 1
               shadow == IF Slides THEN Shifted(sweep.shadow, sweep) ELSE sweep.shadow
    <3>1. sweep' = [sweep EXCEPT !.clocks = clocks, !.shadow = shadow]
      BY <2>1 DEF NextSweep
    <3> HIDE DEF clocks, shadow
    <3>2. sweep'.clocks = clocks /\ sweep'.shadow = shadow
      BY <2>3, <3>1
    <3> QED BY <3>2 DEF clocks, shadow
  <2>7. PICK m, g :
          /\ m \in Nat
          /\ IsSlide(g, m, note.freq, sweep)
          /\ Moving => /\ Entered(age, 2, 4) = m * AtLeast1(sweep.period) + sweep.clocks
                       /\ sweep.clocks < AtLeast1(sweep.period)
          /\ ~Moving => m = 0
          /\ enabled => sweep.shadow = g[m] /\ g[m] <= TopFreq
          /\ ~enabled => g[m] > TopFreq
    BY Zenon, <1>1, <2>4 DEF SlideInv
  <2>8. Moving' <=> Moving
    BY Zenon, <2>5 DEF Moving
  <2>9. /\ At({2, 6}) => Entered(age + 1, 2, 4) = Entered(age, 2, 4) + 1
        /\ ~At({2, 6}) => Entered(age + 1, 2, 4) = Entered(age, 2, 4)
    <3>1. 2 \in Nat /\ 4 \in Nat \ {0}
      OBVIOUS
    <3> QED BY Zenon, <2>4, <3>1, EnteredTick, SweepSteps
  <2> DEFINE p == AtLeast1(sweep.period)
  <2>10. p \in Nat \ {0} /\ p = AtLeast1(sweep'.period)
    BY <2>3, <2>5 DEF AtLeast1
  <2>11. Moving => (SweepClock <=> At({2, 6}))
    BY <1>1 DEF Moving, SweepClock
  <2>12. Moving /\ SweepClock => (sweep.clocks + 1 >= sweep.period <=> sweep.clocks + 1 = p)
    BY <2>3, <2>7 DEF AtLeast1
  <2>13. IsSlide(g, m, note'.freq, sweep')
    BY <1>1, <2>5, <2>7, SlideSame
  <2>14. CASE ~SweepDue
    <3>1. ~Slides /\ ~Overflows
      BY <2>14 DEF Slides, Overflows
    <3>2. enabled' /\ sweep'.shadow = sweep.shadow
      BY <2>1, <2>2, <2>6, <3>1
    <3>3. ASSUME Moving
          PROVE  /\ Entered(age', 2, 4) = m * p + sweep'.clocks /\ sweep'.clocks < p
      <4>1. Entered(age, 2, 4) = m * p + sweep.clocks /\ sweep.clocks < p /\ m * p \in Nat
        BY <2>7, <2>10, <3>3
      <4> HIDE DEF p
      <4>2. CASE ~SweepClock
        BY <2>4, <2>6, <2>9, <2>11, <3>3, <4>1, <4>2
      <4>3. CASE SweepClock
        <5>1. sweep.clocks + 1 # p /\ sweep'.clocks = sweep.clocks + 1
          <6>1. ~(sweep.clocks + 1 >= sweep.period)
            BY <2>14, <3>3, <4>3 DEF SweepDue, Moving
          <6> QED BY <2>6, <2>12, <3>3, <4>3, <6>1
        <5>2. Entered(age', 2, 4) = Entered(age, 2, 4) + 1
          BY <2>4, <2>9, <2>11, <3>3, <4>3
        <5> QED BY <2>3, <2>10, <4>1, <5>1, <5>2
      <4> QED BY <4>2, <4>3
    <3> HIDE DEF p
    <3> QED BY <2>2, <2>7, <2>8, <2>10, <2>13, <3>2, <3>3
  <2>15. CASE SweepDue
    <3>1. Moving /\ SweepClock /\ sweep.clocks + 1 >= sweep.period
      BY <2>15 DEF SweepDue, SweepClock, Moving
    <3>2. sweep'.clocks = 0 /\ sweep.clocks + 1 = p
      BY <2>6, <2>12, <3>1
    <3>3. sweep.shadow = g[m] /\ g[m] <= TopFreq
      BY <2>2, <2>7
    <3>4. sweep.shifts \in Shifts \cup {0} /\ Shifted(sweep.shadow, sweep) \in Int
      BY <2>3, ShiftedTyped
    <3>5. PICK h : IsSlide(h, m + 1, note.freq, sweep) /\ h[m + 1] = Shifted(g[m], sweep)
      BY <2>7, <3>3, <3>4, SlideOn
    <3>6. IsSlide(h, m + 1, note'.freq, sweep')
      BY <1>1, <2>5, <3>5, SlideSame
    <3>7. Entered(age', 2, 4) = (m + 1) * p + sweep'.clocks /\ sweep'.clocks < p
      <4>1. Entered(age, 2, 4) = m * p + sweep.clocks
        BY <2>7, <3>1
      <4>2. Entered(age', 2, 4) = Entered(age, 2, 4) + 1
        BY <2>4, <2>9, <2>11, <3>1
      <4> HIDE DEF p
      <4>3. (m + 1) * p = m * p + p /\ m * p \in Nat
        BY <2>7, <2>10
      <4> QED BY <2>3, <2>10, <3>2, <4>1, <4>2, <4>3
    <3>8. /\ enabled' => sweep'.shadow = h[m + 1] /\ h[m + 1] <= TopFreq
          /\ ~enabled' => h[m + 1] > TopFreq
      <4> DEFINE v == Shifted(sweep.shadow, sweep)
      <4>1. v \in Int /\ h[m + 1] = v
        BY <3>3, <3>4, <3>5
      <4>2. (Slides <=> v <= TopFreq) /\ (Overflows <=> v > TopFreq)
        BY Zenon, <2>15 DEF Slides, Overflows
      <4>3. (enabled' <=> ~Overflows) /\ (Slides => sweep'.shadow = v)
        BY <2>1, <2>2, <2>6
      <4> HIDE DEF v
      <4> QED BY <2>3, <4>1, <4>2, <4>3
    <3>9. m + 1 \in Nat
      BY <2>7
    <3> HIDE DEF p
    <3> QED BY Zenon, <2>8, <2>10, <3>1, <3>6, <3>7, <3>8, <3>9
  <2> QED BY <2>14, <2>15
<1> QED BY <1>2, <1>3

LEMMA SlideUnchanged ==
  ASSUME SlideInv, UNCHANGED <<kind, focus, enabled, sweep, note, age>>
  PROVE  SlideInv'
BY DEF SlideInv, Moving

LEMMA SlideTrigger ==
  ASSUME Typed, NEW sel \in Selections, NEW h \in Highs, Trigger(sel, h)
  PROVE  SlideInv'
<1> SUFFICES ASSUME kind' = "sweep", focus' = "sweep" PROVE SlideInv'
  BY DEF SlideInv
<1>1. /\ kind' = kind /\ focus' = focus /\ age' = 0 /\ kind = "sweep" /\ focus = "sweep"
      /\ sweep' = [period |-> sweepReg.period, down |-> sweepReg.down,
                   shifts |-> sweepReg.shifts, on |-> sweep.on \/ sweepReg.period # 0,
                   clocks |-> 0, shadow |-> freq']
      /\ note' = [len |-> len', volume |-> envReg.volume, freq |-> freq', pos |-> pos,
                  sounds |-> enabled']
      /\ enabled'
  BY DEF Trigger, Restart
<1>2. freq' \in 0..TopFreq /\ TopFreq \in Nat
  <2>1. freq \in Int /\ TopFreq \in Nat
    BY Constants DEF Typed, ToneTyped
  <2>2. h \in 0..TopFreq \div LowFreq
    BY <1>1 DEF Highs
  <2>3. h * LowFreq + (freq % LowFreq) \in 0..TopFreq
    BY <2>1, <2>2, FreqHigh
  <2> QED BY <1>1, <2>1, <2>3 DEF Trigger
<1>3. sweep'.clocks = 0 /\ sweep'.shadow = freq' /\ note'.freq = freq' /\ sweep'.period \in Nat
  BY <1>1, Constants DEF Typed, RegsTyped
<1> DEFINE g == [k \in 0..0 |-> freq']
<1>4. IsSlide(g, 0, note'.freq, sweep') /\ g[0] = freq'
  BY <1>2, <1>3 DEF IsSlide
<1>5. Entered(age', 2, 4) = 0 * AtLeast1(sweep'.period) + sweep'.clocks
      /\ sweep'.clocks < AtLeast1(sweep'.period)
  BY <1>1, <1>3, StepAssumption DEF Entered, AtLeast1
<1> HIDE DEF g
<1>6. 0 \in Nat /\ sweep'.shadow = g[0] /\ g[0] <= TopFreq
  BY <1>2, <1>3, <1>4
<1> QED BY Zenon, <1>1, <1>4, <1>5, <1>6 DEF SlideInv

LEMMA SlideGame == Typed /\ SlideInv /\ Game => SlideInv'
<1> SUFFICES ASSUME Typed, SlideInv, Game PROVE SlideInv'
  OBVIOUS
<1>1. CASE Power
  BY <1>1, SlideUnchanged DEF Power, units, history
<1>2. ASSUME NEW l, WriteLen(l) PROVE SlideInv'
  BY <1>2, SlideUnchanged DEF WriteLen, units
<1>3. ASSUME NEW r, WriteEnvelope(r) PROVE SlideInv'
  BY <1>3, SlideUnchanged DEF WriteEnvelope, units, history
<1>4. ASSUME NEW b, SetDac(b) PROVE SlideInv'
  BY <1>4, SlideUnchanged DEF SetDac, units, history
<1>5. ASSUME NEW r, WriteSweep(r) PROVE SlideInv'
  BY <1>5, SlideUnchanged DEF WriteSweep, units, history
<1>6. ASSUME NEW f, WriteFreq(f) PROVE SlideInv'
  BY <1>6, SlideUnchanged DEF WriteFreq, units
<1>7. ASSUME NEW p, WritePolynomialCounter(p) PROVE SlideInv'
  BY <1>7, SlideUnchanged DEF WritePolynomialCounter, units
<1>8. ASSUME NEW sel, NEW h, WriteControl(sel, h) PROVE SlideInv'
  BY <1>8, SlideUnchanged DEF WriteControl, units
<1> QED BY Zenon, <1>1, <1>2, <1>3, <1>4, <1>5, <1>6, <1>7, <1>8, SlideTrigger DEF Game

LEMMA SlideInvImplies == Typed /\ SlideInv => PitchSlides
<1> DEFINE n == IF sweep.on /\ sweep.shifts # 0
                THEN Entered(age, 2, 4) \div AtLeast1(sweep.period) ELSE 0
           f[k \in 0..n] == IF k = 0 THEN note.freq
                            ELSE IF f[k-1] > TopFreq THEN f[k-1] ELSE Shifted(f[k-1], sweep)
<1> SUFFICES ASSUME Typed, SlideInv, note.sounds, kind = "sweep", focus = "sweep",
                    age < Horizon[focus]
             PROVE  IF enabled THEN sweep.shadow = f[n] /\ f[n] <= TopFreq ELSE f[n] > TopFreq
  BY DEF PitchSlides
<1>1. PICK m, g :
        /\ m \in Nat
        /\ IsSlide(g, m, note.freq, sweep)
        /\ Moving => /\ Entered(age, 2, 4) = m * AtLeast1(sweep.period) + sweep.clocks
                     /\ sweep.clocks < AtLeast1(sweep.period)
        /\ ~Moving => m = 0
        /\ enabled => sweep.shadow = g[m] /\ g[m] <= TopFreq
        /\ ~enabled => g[m] > TopFreq
  BY Zenon DEF SlideInv
<1>0. m \in Nat
  BY <1>1
<1>2. n = m
  <2>1. CASE ~Moving
    BY <1>1, <2>1 DEF Moving
  <2>2. CASE Moving
    <3>1. sweep.period \in Nat /\ sweep.clocks \in Nat /\ age \in Nat
      BY Constants DEF Typed, SweepTyped, SequencerTyped
    <3> DEFINE e == Entered(age, 2, 4)
               p == AtLeast1(sweep.period)
    <3>2. n = e \div p
      BY <2>2 DEF Moving
    <3>3. p \in Nat \ {0} /\ sweep.clocks < p /\ e = m * p + sweep.clocks
      BY <1>1, <2>2, <3>1 DEF AtLeast1
    <3> HIDE DEF e, p, n
    <3>4. sweep.clocks \in 0..p - 1 /\ m \in Int /\ e \in Int
      <4>1. m * p \in Int
        BY <1>0, <3>3
      <4> QED BY <1>0, <3>1, <3>3, <4>1
    <3>5. e \div p = m
      BY Zenon, <3>3, <3>4, DivUnique
    <3> QED BY <3>2, <3>5
  <2> QED BY <2>1, <2>2
<1>3. f = [k \in 0..n |-> IF k = 0 THEN note.freq
                          ELSE IF f[k-1] > TopFreq THEN f[k-1] ELSE Shifted(f[k-1], sweep)]
  <2> DEFINE h == [k \in 0..n |-> g[k]]
  <2>1. h = [k \in 0..n |-> IF k = 0 THEN note.freq
                            ELSE IF h[k-1] > TopFreq THEN h[k-1] ELSE Shifted(h[k-1], sweep)]
    <3> HIDE DEF n
    <3>1. ASSUME NEW k \in 0..n
          PROVE  h[k] = IF k = 0 THEN note.freq
                        ELSE IF h[k-1] > TopFreq THEN h[k-1] ELSE Shifted(h[k-1], sweep)
      <4>1. CASE k = 0
        BY <1>1, <4>1 DEF IsSlide
      <4>2. CASE k # 0
        <5>1. k - 1 \in 0..n /\ k \in 1..m
          BY <1>0, <1>2, <4>2
        <5>2. h[k] = g[k] /\ h[k-1] = g[k-1]
          BY <5>1
        <5>3. g[k] = Following(g[k-1], sweep)
          BY <1>1, <5>1 DEF IsSlide
        <5> QED BY <4>2, <5>2, <5>3 DEF Following
      <4> QED BY <4>1, <4>2
    <3> QED BY Zenon, <3>1
  <2> HIDE DEF h, n
  <2> QED BY <2>1 DEF f
<1> HIDE DEF f
<1>4. f[n] = g[m]
  <2> HIDE DEF n
  <2>1. \A k \in 0..m : f[k] = IF k = 0 THEN note.freq
                               ELSE IF f[k - 1] > TopFreq THEN f[k - 1]
                                    ELSE Shifted(f[k - 1], sweep)
    BY <1>2, <1>3
  <2>2. f[m] = g[m]
    BY <1>1, <2>1, SlideUnique
  <2> QED BY <1>2, <2>2
<1> HIDE DEF n
<1> QED BY <1>1, <1>4

(* The sweep moves the pitch along the one slide its trigger gives, in      *)
(* equal times, and ends the note where the slide leaves the range, for     *)
(* every range, period, direction and number of shifts.                     *)
THEOREM PitchesSlide == Spec => []PitchSlides
<1>1. Init => SlideInv
  BY DEF Init, SlideInv
<1>2. Typed /\ SlideInv /\ UNCHANGED vars => SlideInv'
  BY SlideUnchanged DEF vars, history, units
<1>3. Typed /\ SlideInv /\ [Next]_vars => SlideInv'
  BY <1>2, SlideTick, SlideGame DEF Next
<1> QED BY <1>1, <1>3, SlideInvImplies, TypedHolds, PTL DEF Spec
=============================================================================
