CONSTANTS
  client = client
  server = server
  Hosts <- MCHosts
  Servers = {server}
  Clients = {client}
  Talkers = {client}
  ServerPort = 80
  Isn = 100
  Payloads <- MCPayloads
  HandlerActs <- MCHandlerActs
  Reliable = TRUE
  MaxSockets <- MCMaxSockets
  MaxSends <- MCMaxSends
SPECIFICATION FairTcpSpec
INVARIANT DeliveredBeforeClose
PROPERTY ClosesTogether
CHECK_DEADLOCK FALSE
