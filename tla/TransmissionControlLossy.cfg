CONSTANTS
  client = client
  server = server
  Hosts <- MCHosts
  Servers = {server}
  Clients = {client}
  Talkers = {client}
  ServerPort = 80
  Isn = 100
  Payloads <- MCPayloads
  HandlerActs <- MCFewerActs
  Reliable = FALSE
  MaxSockets <- MCMaxSockets
  MaxSends <- MCMaxSends
SPECIFICATION TcpSpec
INVARIANTS
  TcpTypeOK
  InOrder
  HandshakeAgrees
  UniqueConnection
  NoStraySegment
  AckNotAhead
PROPERTY ImplementsStreams
CHECK_DEADLOCK FALSE
