CONSTANTS
  own = own
  gate = gate
  far = far
  RingSize = 3
  Phase = 0
  Own = own
  Neighbours = {gate}
  Gateway = gate
  Remote = {far}
  CacheSize = 1
  Peers = {far}
  Ports = {7}
  FirstFreePort = 8
  MaxSends = 1
  MaxEvents = 4
SPECIFICATION FairNetSpec
INVARIANTS
  RingsInStep
  WellAddressed
  OneSocketPerPeer
PROPERTY SignalledFramesHandled
\* The handler may hang in Resolve.
CHECK_DEADLOCK FALSE
