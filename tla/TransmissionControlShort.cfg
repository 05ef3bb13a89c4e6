CONSTANTS
  client = client
  server = server
  Hosts <- MCHosts
  Servers = {server}
  Clients = {client}
  Talkers = {client}
  ServerPort = 80
  Isn = 100
  Payloads <- MCShortPayloads
  HandlerActs <- MCAcceptOnly
  Reliable = TRUE
  MaxSockets <- MCMaxSockets
  MaxSends <- MCMaxSends
SPECIFICATION TcpSpec
INVARIANT OnlyDisorderRefused
CHECK_DEADLOCK FALSE
