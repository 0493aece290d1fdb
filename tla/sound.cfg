CONSTANTS
  Kinds <- AllKinds
  Programs <- AllPrograms
  StepCycles = 2
  Lens = {0, 1, 3}
  MaxLen <- MaxLens
  MaxVolume = 2
  EnvPeriods = {0, 1, 2}
  TopFreq = 3
  LowFreq = 2
  SweepPeriods = {0, 2}
  Shifts = {0, 1}
  Factor <- Factors
  Ratios = {0, 1}
  ShiftFreqs = {0, 2}
  Word = 8
  Positions <- AllPositions
  Width = 4
  ShortBit = 1
  Horizon <- Horizons
SPECIFICATION Spec
INVARIANT NoteLength
INVARIANT VolumeFollowsTime
INVARIANT PitchSlides
INVARIANT OnPitch
INVARIANT NoiseNeverDies
