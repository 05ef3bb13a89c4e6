------------------------- MODULE TransmissionControl -------------------------
(***************************************************************************)
(* TCP (src/src/net/tcp.cpp): the providers of two or more hosts and the   *)
(* network between them, which may lose, repeat and reorder segments.      *)
(* Nothing is ever retransmitted.                                          *)
(*                                                                         *)
(* A segment is handled inside the card's interrupt handler and is one     *)
(* step.  A task's Send runs with interrupts enabled and is two: the       *)
(* header is filled in, then the sequence number is advanced and the       *)
(* segment handed down.  So is its Disconnect: the state changes, then the *)
(* FIN is sent.  Checksums, window, options and byte order are left out,   *)
(* but not what byte order and the driver do to the size of the data; the  *)
(* acknowledgement number a segment carries is, as the code reads it only  *)
(* where it would answer a segment that has no socket, a place that        *)
(* `reset' is never set for (tcp.cpp:126, 244).                            *)
(*                                                                         *)
(* Closed sockets stay in the array: the loop that would remove them tests *)
(* socket == 0 where socket is not (tcp.cpp:259) and never runs its body.  *)
(***************************************************************************)
EXTENDS Integers, Sequences, SequencesExt

CONSTANTS
  Hosts,        \* each host is its own IP address
  Servers,      \* the hosts that listen, on ServerPort
  Clients,      \* the hosts that connect
  Talkers,      \* the hosts whose tasks call Send
  ServerPort,
  Isn,          \* the initial sequence number, 0xbeefcafe on every host
  Payloads,     \* what is sent: [text, zeros], the number of bytes up to the
                \* last nonzero one and of zero bytes behind it
  HandlerActs,  \* what the handlers of each host do with data, a subset of
                \* {"accept", "refuse", "reply", "close"}
  Reliable,     \* the network delivers each segment once, in order; else it
                \* delivers each any number of times, in any order, or never
  MaxSockets,   \* bound: sockets each host creates, 65535 in the code
  MaxSends      \* bound: payloads each host sends through one socket

ASSUME HostsAssumption == Servers \cup Clients \cup Talkers \subseteq Hosts
ASSUME IsnAssumption == Isn \in Nat
ASSUME PayloadsAssumption == Payloads \subseteq [text : Nat, zeros : Nat]
ASSUME ReliableAssumption == Reliable \in BOOLEAN

VARIABLES
  sockets,      \* of each host, the sequence sockets[0 .. numSockets - 1]
  freePort,     \* of each host
  sending,      \* of each host, the Send that a task is in the middle of
  net           \* the segments that may reach each host: a queue of those on
                \* their way, or the set of all there ever were

tcpVars == <<sockets, freePort, sending, net>>

SocketState == {"CLOSED", "LISTEN", "SYN_SENT", "SYN_RECEIVED", "ESTABLISHED",
                "FIN_WAIT1", "FIN_WAIT2", "CLOSE_WAIT"}

HeaderSize == 24       \* of a segment
IpHeaderSize == 20
EtherHeaderSize == 14
NoPort == 0
NoHost == "none"
NoSend == [sock |-> 0]
NoData == [text |-> 0, zeros |-> 0]

ASSUME NoHostAssumption == NoHost \notin Hosts

\* What a port, and the number of a host's sockets, is kept in.
UInt16 == 0 .. 65535

\* freePort after a Connect, and the port of the n-th: it starts at 1024 and wraps.
Wrapped(p) == p % 65536
NextPort(p) == Wrapped(p + 1)
PortAt(n) == Wrapped(1024 + n)

ASSUME ServerPortAssumption == ServerPort \in UInt16

Smaller(a, b) == IF a < b THEN a ELSE b

(***************************************************************************)
(* How many bytes the receiver's IPv4 passes up as data where n were sent. *)
(* The sender's card cuts the frame off at 1518 bytes, pads it to 60 and   *)
(* adds 4, the frame check sequence, which the receiver's driver leaves on *)
(* unless the frame is larger than 64.  totalLength is written in one byte *)
(* order and compared with the frame's size in the other.                  *)
(***************************************************************************)
PassedUp(n) ==
  LET total == IpHeaderSize + HeaderSize + n
      frame == Smaller(EtherHeaderSize + total, 1518)
      size  == IF frame <= 60 THEN 64 ELSE frame
      read  == (total % 256) * 256 + total \div 256
  IN  Smaller(read, size - EtherHeaderSize) - IpHeaderSize - HeaderSize

Size(data) == data.text + data.zeros

(***************************************************************************)
(* What the receiver's TCP may find where data were sent.  Padding is      *)
(* zero; a check sequence behind it is four bytes of anything, and so is   *)
(* the text in front of the place where data were cut off.                 *)
(***************************************************************************)
Handed(data) ==
  LET n == Size(data)
      m == PassedUp(n)
      text == {t \in 0 .. m : \/ t = data.text
                              \/ (m > n /\ t > m - 4)
                              \/ (m < n /\ data.text > m)}
  IN  {[text |-> t, zeros |-> m - t] : t \in text}

\* totalLength has 16 bits, and is never read as less than the headers.
ASSUME SizesAssumption ==
  \A p \in Payloads :
    IpHeaderSize + HeaderSize + Size(p) <= 65535 /\ PassedUp(Size(p)) \in Nat

(***************************************************************************)
(* No host creates more sockets than the array has elements, so that       *)
(* freePort gives no port twice.                                           *)
(***************************************************************************)
ASSUME SocketsAssumption == \A h \in Hosts : MaxSockets[h] \in UInt16

(***************************************************************************)
(* A host that both listens and connects does not connect so often that it *)
(* comes to its own ServerPort, which tcp.cpp:345 would not prevent.       *)
(***************************************************************************)
ASSUME OwnPortAssumption ==
  \A h \in Servers \cap Clients : \A n \in 0 .. MaxSockets[h] - 1 :
    PortAt(n) # ServerPort

-----------------------------------------------------------------------------
(***************************************************************************)
(* A new socket; closing says that a task is in the middle of Disconnect,  *)
(* and sent and got are its history.  Listen leaves the remote address     *)
(* unset and Connect the acknowledgement number; NoHost and 0 stand for    *)
(* whatever malloc returned.  NoStraySegment says why it is harmless.      *)
(***************************************************************************)
Socket(h, st, lp, rh, rp) ==
  [state |-> st, lport |-> lp, rhost |-> rh, rport |-> rp, seq |-> Isn, ack |-> 0,
   handler |-> FALSE, closing |-> FALSE, sent |-> <<>>, got |-> <<>>]

\* What the provider's Send makes of its arguments, on socket s of host h.
Segment(h, s, flags, data) ==
  [src |-> h, sport |-> s.lport, dport |-> s.rport, seq |-> s.seq,
   flags |-> flags, data |-> data]

Put(q, segs) == IF Reliable THEN q \o segs ELSE q \cup ToSet(segs)
Rest(q) == IF Reliable THEN Tail(q) ELSE q
InTransit(q) == IF Reliable THEN ToSet(q) ELSE q
Arriving(q) ==
  IF Reliable THEN {q[i] : i \in DOMAIN q \cap {1}} ELSE q

\* The socket after a payload: every byte counts in the sequence number.
Sent(s, data) ==
  [s EXCEPT !.seq = @ + Size(data), !.sent = Append(@, data)]

\* Mutant: x is one past the last nonzero byte.
Got_OneTooMany(s, data) ==
  [s EXCEPT !.got = Append(@, data),
            !.ack = @ + IF data.text = 0 THEN 1 - HeaderSize ELSE data.text + 1]

\* ... and after it has been given data: only the bytes up to the last nonzero
\* one are acknowledged, and x is 0 when there is none.
Got(s, data) ==
  [s EXCEPT !.got = Append(@, data),
            !.ack = @ + IF data.text = 0 THEN 1 - HeaderSize ELSE data.text]

\* Disconnect in its two parts, and as a handler calls it.
FinDue(s) == [s EXCEPT !.state = "FIN_WAIT1", !.closing = TRUE]
FinSent(s) == [s EXCEPT !.seq = @ + 1, !.closing = FALSE]
Finished(s) == [s EXCEPT !.state = "FIN_WAIT1", !.seq = @ + 1]

-----------------------------------------------------------------------------
(***************************************************************************)
(* The calls of tasks.                                                     *)
(***************************************************************************)
Listen(h) ==
  /\ h \in Servers
  /\ Len(sockets[h]) < MaxSockets[h]
  /\ sockets' = [sockets EXCEPT ![h] =
                   Append(@, Socket(h, "LISTEN", ServerPort, NoHost, NoPort))]
  /\ UNCHANGED <<freePort, sending, net>>

Connect(h, r) ==
  /\ h \in Clients
  /\ r # h
  /\ Len(sockets[h]) < MaxSockets[h]
  /\ LET s == Socket(h, "SYN_SENT", freePort[h], r, ServerPort)
     IN  /\ sockets' = [sockets EXCEPT ![h] = Append(@, s)]
         /\ net' = [net EXCEPT ![r] = Put(@, <<Segment(h, s, {"SYN"}, NoData)>>)]
  /\ freePort' = [freePort EXCEPT ![h] = NextPort(@)]
  /\ UNCHANGED sending

Bind(h, k) ==
  /\ ~sockets[h][k].handler
  /\ sockets' = [sockets EXCEPT ![h][k].handler = TRUE]
  /\ UNCHANGED <<freePort, sending, net>>

\* Socket::Send waits for ESTABLISHED; the segment's header is filled in ...
SendBegin(h, k, data) ==
  /\ h \in Talkers
  /\ sending[h] = NoSend
  /\ sockets[h][k].state = "ESTABLISHED"
  /\ Len(sockets[h][k].sent) < MaxSends[h]
  /\ sending' = [sending EXCEPT ![h] =
                   [sock |-> k,
                    seg |-> Segment(h, sockets[h][k], {"PSH", "ACK"}, data)]]
  /\ UNCHANGED <<sockets, freePort, net>>

\* ... and sent, in whatever state the socket is by now.
SendEnd(h) ==
  /\ sending[h] # NoSend
  /\ LET k == sending[h].sock
         m == sending[h].seg
     IN  /\ sockets' = [sockets EXCEPT ![h][k] = Sent(@, m.data)]
         /\ net' = [net EXCEPT ![sockets[h][k].rhost] = Put(@, <<m>>)]
  /\ sending' = [sending EXCEPT ![h] = NoSend]
  /\ UNCHANGED freePort

(***************************************************************************)
(* Disconnect does not look at the state.  Bound: a task disconnects a     *)
(* socket it can send on, and not in the middle of a Send.  The state      *)
(* changes ...                                                             *)
(***************************************************************************)
DisconnectBegin(h, k) ==
  /\ h \in Talkers
  /\ sending[h] = NoSend
  /\ sockets[h][k].state = "ESTABLISHED"
  /\ sockets' = [sockets EXCEPT ![h][k] = FinDue(@)]
  /\ UNCHANGED <<freePort, sending, net>>

\* ... and the FIN is sent, in whatever state the socket is by now.
DisconnectEnd(h, k) ==
  /\ sockets[h][k].closing
  /\ LET s == sockets[h][k]
     IN  /\ sockets' = [sockets EXCEPT ![h][k] = FinSent(s)]
         /\ net' = [net EXCEPT ![s.rhost] =
                      Put(@, <<Segment(h, s, {"FIN", "ACK"}, NoData)>>)]
  /\ UNCHANGED <<freePort, sending>>

-----------------------------------------------------------------------------
(***************************************************************************)
(* OnInternetProtocolReceived.                                             *)
(***************************************************************************)
Matches(h, k, m) ==
  LET s == sockets[h][k]
  IN  /\ s.lport = m.dport
      /\ \/ s.state = "LISTEN" /\ m.flags \cap {"SYN", "ACK"} = {"SYN"}
         \/ s.rport = m.sport /\ s.rhost = m.src

\* Mutant: the newest socket that matches is taken.
SocketFor_Last(h, k, m) ==
  /\ k \in DOMAIN sockets[h]
  /\ Matches(h, k, m)
  /\ \A j \in DOMAIN sockets[h] : j > k => ~Matches(h, j, m)

\* The oldest socket that matches is the segment's.
SocketFor(h, k, m) ==
  /\ k \in DOMAIN sockets[h]
  /\ Matches(h, k, m)
  /\ \A j \in DOMAIN sockets[h] : j < k => ~Matches(h, j, m)

Type(m) == m.flags \cap {"SYN", "ACK", "FIN"}

\* Host h is done with the segment: socket k becomes s, and it answers.
Answer(h, k, s, segs) ==
  /\ sockets' = [sockets EXCEPT ![h][k] = s]
  /\ net' = [net EXCEPT ![h] = Rest(@), ![s.rhost] = Put(@, segs)]
  /\ UNCHANGED <<freePort, sending>>

\* RST closes the socket and is answered by nothing.
ReceiveReset(h, k, s, m) ==
  /\ "RST" \in m.flags
  /\ Answer(h, k, [s EXCEPT !.state = "CLOSED"], <<>>)

\* Mutant: the connection is taken for established before it is confirmed.
ReceiveSyn_Established(h, k, s, m) ==
  /\ Type(m) = {"SYN"}
  /\ s.state = "LISTEN"
  /\ LET t == [s EXCEPT !.state = "ESTABLISHED", !.rport = m.sport,
                        !.rhost = m.src, !.ack = m.seq + 1, !.seq = Isn]
     IN  Answer(h, k, [t EXCEPT !.seq = @ + 1],
                <<Segment(h, t, {"SYN", "ACK"}, NoData)>>)

\* Mutant: the socket that takes the connection goes on listening.
ReceiveSyn_StillListening(h, k, s, m) ==
  /\ Type(m) = {"SYN"}
  /\ s.state = "LISTEN"
  /\ LET t == [s EXCEPT !.rport = m.sport, !.rhost = m.src,
                        !.ack = m.seq + 1, !.seq = Isn]
     IN  Answer(h, k, [t EXCEPT !.seq = @ + 1],
                <<Segment(h, t, {"SYN", "ACK"}, NoData)>>)

\* Mutant: the peer's port is not kept.
ReceiveSyn_PortNotKept(h, k, s, m) ==
  /\ Type(m) = {"SYN"}
  /\ s.state = "LISTEN"
  /\ LET t == [s EXCEPT !.state = "SYN_RECEIVED", !.rhost = m.src,
                        !.ack = m.seq + 1, !.seq = Isn]
     IN  Answer(h, k, [t EXCEPT !.seq = @ + 1],
                <<Segment(h, t, {"SYN", "ACK"}, NoData)>>)

ReceiveSyn(h, k, s, m) ==
  /\ Type(m) = {"SYN"}
  /\ s.state = "LISTEN"
  /\ LET t == [s EXCEPT !.state = "SYN_RECEIVED", !.rport = m.sport,
                        !.rhost = m.src, !.ack = m.seq + 1, !.seq = Isn]
     IN  Answer(h, k, [t EXCEPT !.seq = @ + 1],
                <<Segment(h, t, {"SYN", "ACK"}, NoData)>>)

ReceiveSynAck(h, k, s, m) ==
  /\ Type(m) = {"SYN", "ACK"}
  /\ s.state = "SYN_SENT"
  /\ LET t == [s EXCEPT !.state = "ESTABLISHED", !.ack = m.seq + 1, !.seq = @ + 1]
     IN  Answer(h, k, t, <<Segment(h, t, {"ACK"}, NoData)>>)

\* Mutant: the side that closes second does not send its own FIN.
ReceiveFin_AckOnly(h, k, s, m) ==
  /\ Type(m) \in {{"FIN"}, {"FIN", "ACK"}}
  /\ \/ /\ s.state = "ESTABLISHED"
        /\ LET t == [s EXCEPT !.state = "CLOSE_WAIT", !.ack = @ + 1]
           IN  Answer(h, k, t, <<Segment(h, t, {"ACK"}, NoData)>>)
     \/ /\ s.state = "CLOSE_WAIT"
        /\ Answer(h, k, [s EXCEPT !.state = "CLOSED"], <<>>)
     \/ /\ s.state \in {"FIN_WAIT1", "FIN_WAIT2"}
        /\ LET t == [s EXCEPT !.state = "CLOSED", !.ack = @ + 1]
           IN  Answer(h, k, t, <<Segment(h, t, {"ACK"}, NoData)>>)

ReceiveFin(h, k, s, m) ==
  /\ Type(m) \in {{"FIN"}, {"FIN", "ACK"}}
  /\ \/ /\ s.state = "ESTABLISHED"
        /\ LET t == [s EXCEPT !.state = "CLOSE_WAIT", !.ack = @ + 1]
           IN  Answer(h, k, t, <<Segment(h, t, {"ACK"}, NoData),
                                    Segment(h, t, {"FIN", "ACK"}, NoData)>>)
     \/ /\ s.state = "CLOSE_WAIT"
        /\ Answer(h, k, [s EXCEPT !.state = "CLOSED"], <<>>)
     \/ /\ s.state \in {"FIN_WAIT1", "FIN_WAIT2"}
        /\ LET t == [s EXCEPT !.state = "CLOSED", !.ack = @ + 1]
           IN  Answer(h, k, t, <<Segment(h, t, {"ACK"}, NoData)>>)

\* An ACK that completes something; whatever it carries is ignored.
ReceiveAck(h, k, s, m) ==
  /\ Type(m) = {"ACK"}
  /\ \/ /\ s.state = "SYN_RECEIVED"
        /\ Answer(h, k, [s EXCEPT !.state = "ESTABLISHED"], <<>>)
     \/ /\ s.state = "FIN_WAIT1"
        /\ Answer(h, k, [s EXCEPT !.state = "FIN_WAIT2"], <<>>)
     \/ /\ s.state = "CLOSE_WAIT"
        /\ Answer(h, k, [s EXCEPT !.state = "CLOSED"], <<>>)

\* Mutant: what is piggybacked on an ACK is overlooked.
PlainAck_Piggybacked(s, m) ==
  /\ Type(m) = {"ACK"}
  /\ s.state \notin {"SYN_RECEIVED", "FIN_WAIT1", "CLOSE_WAIT"}

PlainAck(s, m) ==
  /\ m.flags = {"ACK"}
  /\ s.state \notin {"SYN_RECEIVED", "FIN_WAIT1", "CLOSE_WAIT"}

\* Everything else is taken for data, piggybacked ACKs included.
CarriesData(s, m) ==
  \/ Type(m) = {}
  \/ /\ Type(m) = {"ACK"}
     /\ m.flags # {"ACK"}
     /\ s.state \notin {"SYN_RECEIVED", "FIN_WAIT1", "CLOSE_WAIT"}

\* Mutant: the sequence number is not compared.
InSequence_Always(s, m) == TRUE

InSequence(s, m) == m.seq = s.ack

(***************************************************************************)
(* The handler is called before the acknowledgement number moves, and may  *)
(* itself send or disconnect.  Bound: it does so on an established socket  *)
(* (on another, its Send would wait for ever inside the interrupt).        *)
(***************************************************************************)
ReceiveData(h, k, s, m) ==
  /\ CarriesData(s, m)
  /\ InSequence(s, m)
  /\ s.handler
  /\ \E given \in Handed(m.data) :
       \/ /\ "accept" \in HandlerActs[h]
          /\ LET t == Got(s, given)
             IN  Answer(h, k, t, <<Segment(h, t, {"ACK"}, NoData)>>)
       \/ /\ "reply" \in HandlerActs[h]
          /\ s.state = "ESTABLISHED"
          /\ Len(s.sent) < MaxSends[h]
          /\ \E data \in Payloads :
               LET t == Got(Sent(s, data), given)
               IN  Answer(h, k, t, <<Segment(h, s, {"PSH", "ACK"}, data),
                                        Segment(h, t, {"ACK"}, NoData)>>)
       \/ /\ "close" \in HandlerActs[h]
          /\ s.state = "ESTABLISHED"
          /\ LET t == Got(Finished(s), given)
             IN  Answer(h, k, t, <<Segment(h, s, {"FIN", "ACK"}, NoData),
                                      Segment(h, t, {"ACK"}, NoData)>>)

\* The segment does not fit the state, or its data were refused: the peer is
\* told to reset, and the socket itself stays as it is.
Unwanted(h, s, m) ==
  \/ Type(m) = {"SYN"} /\ s.state # "LISTEN"
  \/ Type(m) = {"SYN", "ACK"} /\ s.state # "SYN_SENT"
  \/ {"SYN", "FIN"} \subseteq Type(m)
  \/ /\ Type(m) \in {{"FIN"}, {"FIN", "ACK"}}
     /\ s.state \notin {"ESTABLISHED", "CLOSE_WAIT", "FIN_WAIT1", "FIN_WAIT2"}
  \/ /\ CarriesData(s, m)
     /\ ~InSequence(s, m) \/ ~s.handler \/ "refuse" \in HandlerActs[h]

SendReset(h, k, s, m) ==
  /\ "RST" \notin m.flags
  /\ Unwanted(h, s, m)
  /\ Answer(h, k, s, <<Segment(h, s, {"RST"}, NoData)>>)

\* No socket, a closed one, or an ACK that changes nothing.
Ignored(h, m) ==
  \A k \in DOMAIN sockets[h] :
    SocketFor(h, k, m) =>
      LET s == sockets[h][k]
      IN  "RST" \notin m.flags /\ (s.state = "CLOSED" \/ PlainAck(s, m))

Ignore(h, m) ==
  /\ Ignored(h, m)
  /\ net' = [net EXCEPT ![h] = Rest(@)]
  /\ UNCHANGED <<sockets, freePort, sending>>

\* Mutant: a closed socket is not passed over.
Handle_ClosedToo(h, k, s, m) ==
  \/ ReceiveReset(h, k, s, m)
  \/ /\ "RST" \notin m.flags
     /\ \/ ReceiveSyn(h, k, s, m)
        \/ ReceiveSynAck(h, k, s, m)
        \/ ReceiveFin(h, k, s, m)
        \/ ReceiveAck(h, k, s, m)
        \/ ReceiveData(h, k, s, m)
        \/ SendReset(h, k, s, m)

\* Socket k, in state s, handles the segment m.
Handle(h, k, s, m) ==
  \/ ReceiveReset(h, k, s, m)
  \/ /\ "RST" \notin m.flags
     /\ s.state # "CLOSED"
     /\ \/ ReceiveSyn(h, k, s, m)
        \/ ReceiveSynAck(h, k, s, m)
        \/ ReceiveFin(h, k, s, m)
        \/ ReceiveAck(h, k, s, m)
        \/ ReceiveData(h, k, s, m)
        \/ SendReset(h, k, s, m)

Receive(h) ==
  \E m \in Arriving(net[h]) :
    \/ Ignore(h, m)
    \/ \E k \in DOMAIN sockets[h] :
         SocketFor(h, k, m) /\ Handle(h, k, sockets[h][k], m)

-----------------------------------------------------------------------------
TcpInit ==
  /\ sockets = [h \in Hosts |-> <<>>]
  /\ freePort = [h \in Hosts |-> 1024]
  /\ sending = [h \in Hosts |-> NoSend]
  /\ net = [h \in Hosts |-> IF Reliable THEN <<>> ELSE {}]

TcpNext ==
  \E h \in Hosts :
    \/ Listen(h)
    \/ \E r \in Hosts : Connect(h, r)
    \/ \E k \in DOMAIN sockets[h] :
         \/ Bind(h, k)
         \/ \E data \in Payloads : SendBegin(h, k, data)
         \/ DisconnectBegin(h, k)
         \/ DisconnectEnd(h, k)
    \/ SendEnd(h)
    \/ Receive(h)

TcpSpec == TcpInit /\ [][TcpNext]_tcpVars

(***************************************************************************)
(* The scheduler takes every task's turn in the end, so that a Send or a   *)
(* Disconnect that has begun ends.  Nothing is assumed of the programs,    *)
(* nor of the cards and the network.                                       *)
(***************************************************************************)
TcpFairness ==
  \A h \in Hosts :
    /\ WF_tcpVars(SendEnd(h))
    /\ WF_tcpVars(\E k \in DOMAIN sockets[h] : DisconnectEnd(h, k))

FairTcpSpec == TcpSpec /\ TcpFairness

-----------------------------------------------------------------------------
(***************************************************************************)
(* Every socket is in one of the states of tcp.h:16-31 that the code       *)
(* reaches; it has a peer exactly when it no longer listens.               *)
(***************************************************************************)
TcpTypeOK ==
  \A h \in Hosts :
    /\ freePort[h] \in UInt16
    /\ \A k \in DOMAIN sockets[h] :
         LET s == sockets[h][k]
         IN  /\ s.state \in SocketState
             /\ s.rhost \in (Hosts \ {h}) \cup {NoHost}
             /\ s.rhost = NoHost <=> s.state = "LISTEN"

\* Socket k of h and socket j of s.rhost are the ends of one connection.
Ends(h, k, j) ==
  LET s == sockets[h][k]
  IN  /\ s.rhost # NoHost
      /\ j \in DOMAIN sockets[s.rhost]
      /\ LET t == sockets[s.rhost][j]
         IN  t.rhost = h /\ t.lport = s.rport /\ t.rport = s.lport

(***************************************************************************)
(* What a handler is given is, in order and without a gap or a repetition, *)
(* what the other end sent, whatever the network loses, repeats or         *)
(* reorders (the comparison of sequence numbers, tcp.cpp:214-226).         *)
(***************************************************************************)
InOrder ==
  \A h \in Hosts : \A k \in DOMAIN sockets[h] :
    LET s == sockets[h][k]
    IN  s.rhost # NoHost =>
          \A j \in DOMAIN sockets[s.rhost] :
            Ends(h, k, j) =>
              /\ Len(s.got) <= Len(sockets[s.rhost][j].sent)
              /\ \A n \in DOMAIN s.got : s.got[n] = sockets[s.rhost][j].sent[n]

(***************************************************************************)
(* A socket is ESTABLISHED only when the other end exists, was created for *)
(* this connection, and is past the first half of the handshake: no        *)
(* segment that is repeated or late makes one end believe in a connection  *)
(* the other end has not agreed to (tcp.cpp:130-156, 190-195).             *)
(***************************************************************************)
HandshakeAgrees ==
  \A h \in Hosts : \A k \in DOMAIN sockets[h] :
    sockets[h][k].state = "ESTABLISHED" =>
      \E j \in DOMAIN sockets[sockets[h][k].rhost] :
        /\ Ends(h, k, j)
        /\ sockets[sockets[h][k].rhost][j].state \notin {"LISTEN", "SYN_SENT"}

(***************************************************************************)
(* A host never has two sockets for one connection: a SYN that comes again *)
(* does not open a second one, even when another socket still listens on   *)
(* the port, because the search takes the oldest socket that matches and   *)
(* connected sockets are older than listening ones (tcp.cpp:104-116).      *)
(***************************************************************************)
UniqueConnection ==
  \A h \in Hosts : \A k, j \in DOMAIN sockets[h] :
    LET s == sockets[h][k]
        t == sockets[h][j]
    IN  k # j /\ s.rhost # NoHost =>
          <<s.lport, s.rhost, s.rport>> # <<t.lport, t.rhost, t.rport>>

(***************************************************************************)
(* Every segment but a SYN finds a socket that was connected before it was *)
(* sent, so that the search of tcp.cpp:104-116 never decides by the remote *)
(* address of a listening socket, which is not initialised, and no segment *)
(* is without a socket.                                                    *)
(***************************************************************************)
NoStraySegment ==
  \A h \in Hosts : \A m \in InTransit(net[h]) :
    m.flags # {"SYN"} =>
      \E k \in DOMAIN sockets[h] :
        SocketFor(h, k, m) /\ sockets[h][k].rhost = m.src

(***************************************************************************)
(* Neither end of an open connection acknowledges what the other has not   *)
(* sent: the number that the client's SYN and the server's count in        *)
(* (tcp.cpp:136-139, 150-151) and the one computed from the payload        *)
(* (tcp.cpp:220-224) never run ahead of the sender's.                      *)
(***************************************************************************)
AckNotAhead ==
  \A h \in Hosts : \A k \in DOMAIN sockets[h] :
    sockets[h][k].state = "ESTABLISHED" =>
      \A j \in DOMAIN sockets[sockets[h][k].rhost] :
        LET t == sockets[sockets[h][k].rhost][j]
        IN  Ends(h, k, j) /\ t.state = "ESTABLISHED" => sockets[h][k].ack <= t.seq

NoReset == \A h \in Hosts : \A m \in InTransit(net[h]) : "RST" \notin m.flags

(***************************************************************************)
(* On a reliable network the end that is closed by the other has been      *)
(* given everything the other sent, although a FIN is taken whatever its   *)
(* sequence number and data ride on ACKs (tcp.cpp:165-173, 207-226):       *)
(* unless data were refused, and then a reset is still on its way.         *)
(***************************************************************************)
DeliveredBeforeClose ==
  Reliable /\ NoReset =>
    \A h \in Hosts : \A k \in DOMAIN sockets[h] :
      sockets[h][k].state = "CLOSE_WAIT" =>
        \A j \in DOMAIN sockets[sockets[h][k].rhost] :
          LET t == sockets[sockets[h][k].rhost][j]
          IN  Ends(h, k, j) /\ t.state \in {"FIN_WAIT1", "FIN_WAIT2"} =>
                sockets[h][k].got = t.sent

InState(h, k, st) == k \in DOMAIN sockets[h] /\ sockets[h][k].state = st

\* Every segment that comes to a host is handled there in the end.
SegmentsHandled == \A h \in Hosts : []<>(net[h] = <<>>)

(***************************************************************************)
(* On a reliable network, when no data are refused and no segment stays    *)
(* unseen in a card's ring (amd_am79c973.cpp:144-155 can acknowledge a     *)
(* frame it has not looked at), a socket that is disconnected closes and   *)
(* so does the other end, whoever disconnects first or both at once        *)
(* (tcp.cpp:165-206).                                                      *)
(***************************************************************************)
ClosesTogether ==
  Reliable /\ []NoReset /\ SegmentsHandled =>
    \A h \in Clients, r \in Servers :
    \A k \in 1 .. MaxSockets[h], j \in 1 .. MaxSockets[r] :
      ( /\ k \in DOMAIN sockets[h]
        /\ sockets[h][k].rhost = r
        /\ Ends(h, k, j)
        /\ InState(h, k, "FIN_WAIT1") \/ InState(r, j, "FIN_WAIT1"))
      ~> InState(h, k, "CLOSED") /\ InState(r, j, "CLOSED")

(***************************************************************************)
(* "data in wrong order" (tcp.cpp:230) is what the peer is told to reset   *)
(* for.  So where the network delivers everything once and in order, an    *)
(* open end that refuses nothing finds the data that come to it in order.  *)
(***************************************************************************)
OnlyDisorderRefused ==
  Reliable /\ NoReset =>
    \A h \in Hosts : \A m \in Arriving(net[h]) :
    \A k \in DOMAIN sockets[h], j \in DOMAIN sockets[m.src] :
      /\ m.flags = {"PSH", "ACK"}
      /\ SocketFor(h, k, m) /\ InState(h, k, "ESTABLISHED")
      /\ Ends(h, k, j) /\ InState(m.src, j, "ESTABLISHED")
      => InSequence(sockets[h][k], m)
=============================================================================
