------------------------------ MODULE SoundChannel ------------------------------
(***************************************************************************)
(* One of the four channels of the APU (PulseChannel with and without Sweep, *)
(* WaveChannel, NoiseChannel) with its SoundTimer, Sequencer, LenCounter,    *)
(* Envelope and Sweep, the power bit of FF26, and the game writing its       *)
(* registers between two T-states.  The channels do not touch each other,    *)
(* so that one of any kind stands for the four.                             *)
(*                                                                          *)
(* Every unit counts calls of its Clock from the trigger on, and none runs  *)
(* while APU or DAC are off; the game may write in any T-state.  What the   *)
(* listener is owed is stated in time: after a trigger, length, volume,     *)
(* pitch and position are functions of the T-states the note has sounded.   *)
(*                                                                          *)
(* Left out: duty patterns, wave RAM, output levels and panning (data).     *)
(* Bounds: in one behaviour the game programs one of the units (focus), and *)
(* the timer, which no other unit reads, runs only in those about it.       *)
(***************************************************************************)
EXTENDS Integers

CONSTANTS
  Kinds,                 \* of {"sweep", "pulse", "wave", "noise"}
  Programs,              \* [kind]: the focuses its game may have, of
                         \* {"length", "envelope", "sweep", "tone"}
  StepCycles,            \* cycles_per_step: 8192
  Lens,                  \* length registers: 0..63, wave and noise 0..255
  MaxLen,                \* [kind]: 64, wave 255
  MaxVolume,             \* 15
  EnvPeriods,            \* 0..7
  TopFreq, LowFreq,      \* 2047; 256, the values of the low frequency register
  SweepPeriods, Shifts,  \* 0..7
  Factor,                \* [kind]: 4, wave 2; noise 8, its unit
  Ratios, ShiftFreqs,    \* 0..7, 0..15
  Word,                  \* 65536
  Positions,             \* [kind]: 8 (duty), 32 (samples)
  Width, ShortBit,       \* of the LFSR: 15 bits, bit 6
  Horizon                \* [focus]: bound of the history variable age

ASSUME SoundAssumption ==
  /\ Kinds \subseteq {"sweep", "pulse", "wave", "noise"}
  /\ StepCycles \in Nat \ {0} /\ Programs \in [Kinds -> SUBSET DOMAIN Horizon]
  /\ Lens \subseteq Nat /\ MaxLen \in [Kinds -> Nat \ {0}]
  /\ MaxVolume \in Nat /\ EnvPeriods \subseteq Nat
  /\ TopFreq \in Nat /\ LowFreq \in Nat \ {0} /\ (TopFreq + 1) % LowFreq = 0
  /\ SweepPeriods \subseteq Nat
  /\ {0} \cup Shifts \cup ShiftFreqs \subseteq {s \in Nat : 2^s \in Nat \ {0}}  \* all are
  /\ Ratios \subseteq Nat /\ Word \in Nat \ {0}
  /\ Factor \in [Kinds -> Nat \ {0}] /\ Positions \in [Kinds -> Nat \ {0}]
  /\ Width \in Nat /\ ShortBit \in 1..Width - 2

(* The bounds of age are no bounds of the notes: a length is reached before, *)
(* and an envelope at its end.                                              *)
ASSUME HorizonAssumption ==
  /\ Horizon \in [DOMAIN Horizon -> Nat]
  /\ \A k \in Kinds : "length" \in Programs[k] =>
       \A l \in Lens \cup {MaxLen[k]} : (l - 1) * (2 * StepCycles) < Horizon["length"]
  /\ \A k \in Kinds : "envelope" \in Programs[k] =>
       \A p \in EnvPeriods :
         7 * StepCycles + (p * MaxVolume - 1) * (8 * StepCycles) < Horizon["envelope"]

VARIABLES
  kind, focus,           \* constant in a behaviour
  on, enabled, dac,      \* APU::m_enabled, m_enabled, m_dac
  selection,             \* m_selection: the length counter is clocked
  lenReg, len,           \* m_len of the channel and of its counter
  cycles, step,          \* Sequencer
  envReg, env,           \* Envelope: [volume, up, period], and with counter
  sweepReg, sweep,       \* Sweep: [period, down, shifts]; on, clocks, shadow
  freq,                  \* m_freq, m_wavelen
  poly,                  \* [shift, ratio, short] of the noise
  period, count,         \* SoundTimer
  pos,                   \* m_duty_offset, m_curr_sample, shifts of the LFSR
  lfsr,                  \* its bits, 0 the lowest
  note,                  \* history: the note triggered last, see Triggered
  age,                   \* history: T-states it has been clocked, to Horizon[focus]
  pure,                  \* history: selected, and its pitch unchanged, since
  doomed                 \* history: short mode was set with the short part zero

regs == <<selection, lenReg, envReg, sweepReg, poly>>
units == <<len, cycles, step, env, sweep, period, count>>
wave == <<pos, lfsr>>
history == <<note, age, pure, doomed>>
vars == <<kind, focus, on, enabled, dac, regs, units, freq, wave, history>>

Bits == 0..Width - 1
Least(a, b) == IF a < b THEN a ELSE b

(* GetCalculatedPeriod: the period of the noise is cut to a word.           *)
Period(f) ==
  IF kind = "noise"
  THEN (Factor[kind] * (IF poly.ratio = 0 THEN 1 ELSE 2 * poly.ratio)
        * 2^poly.shift) % Word
  ELSE (TopFreq + 1 - f) * Factor[kind]

Init ==
  /\ kind \in Kinds /\ focus \in Programs[kind]
  /\ on = FALSE /\ enabled = FALSE /\ dac = FALSE
  /\ selection = FALSE /\ lenReg = 0 /\ len = 0
  /\ cycles = 0 /\ step = 0
  /\ envReg = [volume |-> 0, up |-> FALSE, period |-> 0]
  /\ env = [volume |-> 0, up |-> FALSE, period |-> 0, counter |-> 0]
  /\ sweepReg = [period |-> 0, down |-> FALSE, shifts |-> 0]
  /\ sweep = [period |-> 0, down |-> FALSE, shifts |-> 0,
              on |-> FALSE, clocks |-> 0, shadow |-> 0]
  /\ freq = 0
  /\ poly = [shift |-> 0, ratio |-> 0, short |-> FALSE]
  /\ period = 0 /\ count = 0
  /\ pos = 0 /\ lfsr = [i \in Bits |-> TRUE]
  /\ note = [len |-> 0, volume |-> 0, freq |-> 0, pos |-> 0, sounds |-> FALSE]
  /\ age = 0 /\ pure = [length |-> FALSE, pitch |-> FALSE] /\ doomed = FALSE

-----------------------------------------------------------------------------
(* One T-state of Tick.                                                     *)

Clocked == on /\ enabled /\ (dac \/ kind = "noise")

At(steps) == cycles = 0 /\ step \in steps

(* LenCounter::Clock                                                        *)
LengthClock == selection /\ At({0, 2, 4, 6}) /\ len > 0
NextLen == IF LengthClock THEN len - 1 ELSE len

(* Envelope::Clock; the wave channel has none.                              *)
Mut_NextEnv ==                   \* goes on below 0 and above the top
  LET now == env.counter + 1 IN
  IF kind = "wave" \/ ~At({7}) \/ env.period = 0 THEN env
  ELSE IF now # env.period THEN [env EXCEPT !.counter = now]
  ELSE [env EXCEPT !.counter = 0,
                   !.volume = (IF env.up THEN @ + 1 ELSE @ - 1) % (MaxVolume + 1)]

NextEnv ==
  LET now == env.counter + 1 IN
  IF kind = "wave" \/ ~At({7}) \/ env.period = 0 THEN env
  ELSE IF now # env.period THEN [env EXCEPT !.counter = now]
  ELSE [env EXCEPT !.counter = 0,
                   !.volume = CASE env.up /\ @ < MaxVolume -> @ + 1
                                [] ~env.up /\ @ > 0 -> @ - 1
                                [] OTHER -> @]

(* Sweep::Clock: the sweep works on its own copy of the frequency.          *)
SweepClock == kind = "sweep" /\ At({2, 6}) /\ sweep.on
Mut_SweepDue == SweepClock /\ sweep.clocks >= sweep.period /\ sweep.shifts # 0
SweepDue == SweepClock /\ sweep.clocks + 1 >= sweep.period /\ sweep.shifts # 0

Shifted(f, s) == LET d == f \div 2^s.shifts IN IF s.down THEN f - d ELSE f + d

Overflows == SweepDue /\ Shifted(sweep.shadow, sweep) > TopFreq
Slides == SweepDue /\ Shifted(sweep.shadow, sweep) <= TopFreq

NextSweep ==
  [sweep EXCEPT
     !.clocks = IF ~SweepClock THEN @ ELSE IF @ + 1 >= sweep.period THEN 0 ELSE @ + 1,
     !.shadow = IF Slides THEN Shifted(@, sweep) ELSE @]

(* clock_lfsr; the xor of the two lowest bits is shifted in.                *)
Mut_ClockLfsr(bits, short) ==    \* ... or rather, their or negated
  LET new == ~(bits[0] \/ bits[1]) IN
  [i \in Bits |-> IF i = Width - 1 \/ (short /\ i = ShortBit) THEN new ELSE bits[i + 1]]

ClockLfsr(bits, short) ==
  LET new == bits[0] # bits[1] IN
  [i \in Bits |-> IF i = Width - 1 \/ (short /\ i = ShortBit) THEN new ELSE bits[i + 1]]

(* SoundTimer::Clock                                                        *)
Timed == focus = "tone"
Mut_TimerDue == Timed /\ count > period
TimerDue == Timed /\ count + 1 >= period

(* APU::Tick for one T-state: the sequencer of the channel, then its timer, *)
(* which reads the frequency the sweep has just set.                        *)
Tick ==
  /\ UNCHANGED <<kind, focus, on, dac, regs, note, doomed>>
  /\ IF ~Clocked
     THEN UNCHANGED <<enabled, units, freq, wave, age, pure>>
     ELSE
       /\ len' = NextLen /\ env' = NextEnv /\ sweep' = NextSweep
       /\ enabled' = ~(Overflows \/ (LengthClock /\ len = 1))
       /\ freq' = IF Slides THEN sweep'.shadow ELSE freq
       /\ cycles' = (cycles + 1) % StepCycles
       /\ step' = IF cycles' = 0 THEN (step + 1) % 8 ELSE step
       /\ count' = IF TimerDue \/ ~Timed THEN 0 ELSE count + 1
       /\ period' = IF TimerDue THEN Period(freq') ELSE period
       /\ pos' = IF TimerDue THEN (pos + 1) % Positions[kind] ELSE pos
       /\ lfsr' = IF TimerDue /\ kind = "noise" THEN ClockLfsr(lfsr, poly.short) ELSE lfsr
       /\ age' = Least(age + 1, Horizon[focus])
       /\ pure' = [pure EXCEPT !.pitch = @ /\ freq' = freq]

-----------------------------------------------------------------------------
(* The registers.                                                           *)

(* FF26: the bit stops the clocks and resets nothing.                       *)
Power ==
  /\ on' = ~on
  /\ UNCHANGED <<kind, focus, enabled, dac, regs, units, freq, wave, history>>

(* WriteDuty (which resets the position), WriteLen                          *)
WriteLen(l) ==
  /\ focus = "length" \/ (focus = "tone" /\ l = 0)
  /\ lenReg' = l
  /\ pos' = IF kind \in {"sweep", "pulse"} THEN 0 ELSE pos
  /\ pure' = [pure EXCEPT !.pitch = FALSE]
  /\ UNCHANGED <<kind, focus, on, enabled, dac, selection, envReg, sweepReg, poly,
                 units, freq, lfsr, note, age, doomed>>

(* WriteEnvelope: the DAC of a pulse channel is on unless the volume is 0   *)
(* and falls; the rest waits for the trigger.                               *)
WriteEnvelope(r) ==
  /\ kind # "wave" /\ focus = "envelope"
  /\ envReg' = r
  /\ dac' = IF kind = "noise" THEN dac ELSE r.volume # 0 \/ r.up
  /\ UNCHANGED <<kind, focus, on, enabled, selection, lenReg, sweepReg, poly,
                 units, freq, wave, history>>

(* WaveChannel::SetEnabled; of the pulse channels, an envelope that switches *)
(* the DAC on, written by a game that programs something else.              *)
SetDac(b) ==
  /\ kind = "wave" \/ (kind # "noise" /\ focus # "envelope" /\ b)
  /\ dac' = b
  /\ UNCHANGED <<kind, focus, on, enabled, regs, units, freq, wave, history>>

WriteSweep(r) ==
  /\ kind = "sweep" /\ focus = "sweep"
  /\ sweepReg' = r
  /\ UNCHANGED <<kind, focus, on, enabled, dac, selection, lenReg, envReg, poly,
                 units, freq, wave, history>>

(* WriteFreq: the low part; a note that sounds goes on in the new pitch     *)
(* when its timer is next reloaded, or its sweep slides.                    *)
WriteFreq(f) ==
  /\ kind # "noise" /\ focus \in {"sweep", "tone"}
  /\ freq' = (freq - (freq % LowFreq)) + f
  /\ pure' = [pure EXCEPT !.pitch = FALSE]
  /\ UNCHANGED <<kind, focus, on, enabled, dac, regs, units, wave, note, age, doomed>>

AllZero(bits) == \A i \in Bits : ~bits[i]
ShortZero(bits) == \A i \in 0..ShortBit : ~bits[i]

WritePolynomialCounter(p) ==
  /\ kind = "noise" /\ focus = "tone"
  /\ poly' = p
  /\ pure' = [pure EXCEPT !.pitch = FALSE]
  /\ doomed' = (doomed \/ (p.short /\ ShortZero(lfsr)))
  /\ UNCHANGED <<kind, focus, on, enabled, dac, selection, lenReg, envReg, sweepReg,
                 units, freq, wave, note, age>>

(* WriteControl without the trigger bit                                     *)
WriteControl(sel, high) ==
  /\ selection' = sel
  /\ freq' = IF kind = "noise" THEN freq ELSE high * LowFreq + (freq % LowFreq)
  /\ pure' = [length |-> FALSE, pitch |-> FALSE]
  /\ UNCHANGED <<kind, focus, on, enabled, dac, lenReg, envReg, sweepReg, poly,
                 units, wave, note, age, doomed>>

(* Restart.  Neither the position nor the LFSR is reset; a sweep that has   *)
(* once been on stays on.                                                   *)
Mut_Restart ==                   \* the sequencer goes on
  /\ env' = [volume |-> envReg.volume, up |-> envReg.up, period |-> envReg.period,
             counter |-> 0]
  /\ sweep' = [period |-> sweepReg.period, down |-> sweepReg.down,
               shifts |-> sweepReg.shifts, on |-> sweep.on \/ sweepReg.period # 0,
               clocks |-> 0, shadow |-> freq']
  /\ period' = (IF Timed THEN Period(freq') ELSE 0) /\ count' = 0
  /\ len' = IF lenReg = 0 THEN MaxLen[kind] ELSE lenReg
  /\ UNCHANGED <<cycles, step>>
  /\ enabled' = IF kind = "wave" THEN dac ELSE TRUE

Restart ==
  /\ env' = [volume |-> envReg.volume, up |-> envReg.up, period |-> envReg.period,
             counter |-> 0]
  /\ sweep' = [period |-> sweepReg.period, down |-> sweepReg.down,
               shifts |-> sweepReg.shifts, on |-> sweep.on \/ sweepReg.period # 0,
               clocks |-> 0, shadow |-> freq']
  /\ period' = (IF Timed THEN Period(freq') ELSE 0) /\ count' = 0
  /\ len' = IF lenReg = 0 THEN MaxLen[kind] ELSE lenReg
  /\ cycles' = 0 /\ step' = 0
  /\ enabled' = IF kind = "wave" THEN dac ELSE TRUE

(* WriteControl with the trigger bit                                        *)
Trigger(sel, high) ==
  /\ selection' = sel
  /\ freq' = IF kind = "noise" THEN freq ELSE high * LowFreq + (freq % LowFreq)
  /\ Restart
  /\ note' = [len |-> len', volume |-> envReg.volume, freq |-> freq', pos |-> pos,
              sounds |-> enabled']
  /\ age' = 0 /\ pure' = [length |-> sel, pitch |-> TRUE]
  /\ UNCHANGED <<kind, focus, on, dac, lenReg, envReg, sweepReg, poly, wave, doomed>>

Selections == IF focus = "length" THEN BOOLEAN ELSE {FALSE}
Highs == IF focus \in {"sweep", "tone"} /\ kind # "noise"
         THEN 0..TopFreq \div LowFreq ELSE {0}

Game ==
  \/ Power
  \/ \E l \in Lens : WriteLen(l)
  \/ \E v \in 0..MaxVolume, u \in BOOLEAN, p \in EnvPeriods :
       WriteEnvelope([volume |-> v, up |-> u, period |-> p])
  \/ \E b \in BOOLEAN : SetDac(b)
  \/ \E p \in SweepPeriods, d \in BOOLEAN, s \in Shifts :
       WriteSweep([period |-> p, down |-> d, shifts |-> s])
  \/ \E f \in 0..LowFreq - 1 : WriteFreq(f)
  \/ \E s \in ShiftFreqs, r \in Ratios, b \in BOOLEAN :
       WritePolynomialCounter([shift |-> s, ratio |-> r, short |-> b])
  \/ \E sel \in Selections, h \in Highs : WriteControl(sel, h) \/ Trigger(sel, h)

Next == Tick \/ Game

Spec == Init /\ [][Next]_vars

-----------------------------------------------------------------------------
(* Properties                                                               *)

(* Of the first a T-states of a note, those in which the sequencer was      *)
(* about to enter step first, first + every, ...                            *)
Entered(a, first, every) ==
  LET t == StepCycles * first IN
  IF a <= t THEN 0 ELSE (a - t - 1) \div (StepCycles * every) + 1

AtLeast1(n) == IF n = 0 THEN 1 ELSE n

(* A note triggered with its length counter selected sounds until the       *)
(* counter has been clocked as often as the length says, the first time at  *)
(* once, and not one T-state more or less; whenever the length is           *)
(* rewritten, or the power or the DAC switched off and on, meanwhile.       *)
NoteLength ==
  note.sounds /\ pure.length =>
    IF enabled THEN len = note.len - Entered(age, 0, 2) /\ len > 0
               ELSE age = (note.len - 1) * 2 * StepCycles + 1

(* The volume of a note is a function of the time it has sounded and of the *)
(* envelope register at its trigger, whatever was written to it since.      *)
VolumeFollowsTime ==
  enabled /\ note.sounds /\ kind # "wave" =>
    LET n == IF env.period = 0 THEN 0 ELSE Entered(age, 7, 8) \div env.period
    IN env.volume = IF env.up THEN Least(note.volume + n, MaxVolume)
                    ELSE IF n < note.volume THEN note.volume - n ELSE 0

(* The sweep moves the pitch of a note in equal times along one sequence of *)
(* frequencies, and silences the note at the step that would leave the      *)
(* range and not before, whatever frequency the game writes meanwhile.      *)
PitchSlides ==
  note.sounds /\ kind = "sweep" /\ focus = "sweep" /\ age < Horizon[focus] =>
    LET n == IF sweep.on /\ sweep.shifts # 0
             THEN Entered(age, 2, 4) \div AtLeast1(sweep.period) ELSE 0
        f[k \in 0..n] == IF k = 0 THEN note.freq
                         ELSE IF f[k-1] > TopFreq THEN f[k-1] ELSE Shifted(f[k-1], sweep)
    IN IF enabled THEN sweep.shadow = f[n] /\ f[n] <= TopFreq ELSE f[n] > TopFreq

(* While nothing changes its pitch, a note advances in its wave once per    *)
(* period, the first time one period after the trigger; a period that was   *)
(* cut to 0 by the width of a word counts as 1.                             *)
OnPitch ==
  Timed /\ enabled /\ note.sounds /\ pure.pitch /\ age < Horizon[focus] =>
    pos = (note.pos + age \div AtLeast1(Period(note.freq))) % Positions[kind]

(* The LFSR, which no trigger reloads, never runs down to all zeros (a      *)
(* silence that nothing the game can do would end), unless the game has     *)
(* switched to the short mode while the short part was zero.                *)
NoiseNeverDies == AllZero(lfsr) => doomed
=============================================================================
