CONSTANTS
  EmuSources <- OnlyTimer
  AsyncSources <- Joypad
SPECIFICATION Spec
PROPERTY TimerRequestKept
