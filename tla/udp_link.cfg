CONSTANTS
  Connector = c
  Listener = l
  Closers = {c}
  Masters = {c, l}
  MaxTransfers = 2
SPECIFICATION Spec
 
 
PROPERTY DisconnectReturns
PROPERTY PeerReleased
CHECK_DEADLOCK FALSE
