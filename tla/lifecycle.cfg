CONSTANTS
  Code <- MCCode
  Handler <- MCHandler
  Interruptible <- MCInterruptible
  Breakpoints <- MCBreakpoints
  MaxDepth = 3
  MaxCommands = 4
SPECIFICATION Spec
INVARIANT NeverTerminates
INVARIANT OneStepper
INVARIANT TraceIsStack
CHECK_DEADLOCK FALSE
PROPERTY AttachReturns
PROPERTY CloseIsSeen
PROPERTY EndIsSeen
