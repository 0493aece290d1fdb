CONSTANTS
  EmuSources <- TimerSerial
  AsyncSources <- SerialJoypad
SPECIFICATION Spec
INVARIANT EnableProtocol
PROPERTY ImplementsController
PROPERTY WakesUp
