-------------------- MODULE TransmissionControlRefinement --------------------
(***************************************************************************)
(* TransmissionControl implements ByteStreams: an end is a socket that has *)
(* a peer, and is known by the addresses of both.                          *)
(***************************************************************************)
EXTENDS TransmissionControl

EndOf(h, s) == [host |-> h, port |-> s.lport, peer |-> s.rhost, pport |-> s.rport]

SocketsWithPeer(h) == {k \in DOMAIN sockets[h] : sockets[h][k].rhost # NoHost}

StreamEnds == UNION {{EndOf(h, sockets[h][k]) : k \in SocketsWithPeer(h)} : h \in Hosts}

SocketOf(e) ==
  sockets[e.host][CHOOSE k \in SocketsWithPeer(e.host) : EndOf(e.host, sockets[e.host][k]) = e]

StreamWritten == [e \in StreamEnds |-> SocketOf(e).sent]

StreamRead == [e \in StreamEnds |-> SocketOf(e).got]

StreamOver == {e \in StreamEnds : SocketOf(e).state \in {"CLOSE_WAIT", "CLOSED"}}

B == INSTANCE ByteStreams WITH
       Stations <- Hosts, Ports <- UInt16, Texts <- Payloads,
       written <- StreamWritten, read <- StreamRead, over <- StreamOver

(***************************************************************************)
(* Every behaviour of TCP is one of two byte streams for each connection:  *)
(* a step adds at most one payload to what one end has written and at most *)
(* the other end's next one to what it has been given; neither is ever     *)
(* taken back, a connection's ends keep their addresses, and after its FIN *)
(* or a reset an end is given nothing (tcp.cpp:119-250, 302-322).          *)
(***************************************************************************)
ImplementsStreams == B!StreamsSpec
=============================================================================
