----------------------------- MODULE NetworkStack -----------------------------
(***************************************************************************)
(* What the network card's driver hands up, and what it is given to send:  *)
(* Ethernet frames, ARP, IPv4, ICMP and UDP (src/src/net).  One host, with *)
(* a task that uses the stack and the card's interrupt that enters it from *)
(* below, on a network of neighbours and of hosts behind a gateway         *)
(* (external).  Headers are records; numbers are in network order.         *)
(***************************************************************************)
EXTENDS NetworkCard, Sequences, SequencesExt

CONSTANTS
  Own,            \* this host's IP address
  Neighbours,     \* IP addresses in the same subnet
  Gateway,        \* gatewayIP
  Remote,         \* IP addresses elsewhere
  CacheSize,      \* entries of the ARP cache, 128 in the code
  Ports,          \* the UDP ports in use
  Peers,          \* the addresses that exchange datagrams with this host
  FirstFreePort,
  MaxSends,       \* bound: frames the task asks to be sent
  MaxEvents       \* bound: these, frames that arrive, and sockets opened

ASSUME StackAssumption ==
  /\ Gateway \in Neighbours
  /\ Own \notin Neighbours \union Remote
  /\ Neighbours \intersect Remote = {}
  /\ CacheSize \in Nat \ {0}
  /\ Peers \subseteq Neighbours \union Remote
  /\ FirstFreePort \in Nat
  /\ Ports \subseteq Nat

VARIABLES
  cache,          \* IPcache and MACcache up to numCacheEntries
  learnt,         \* IPcache[numCacheEntries], before the entry counts
  sockets,        \* sockets up to numSockets
  freePort,
  arrivals,       \* bound: frames the network has brought
  sends           \* bound: frames the task has asked to be sent

stackVars == <<cache, learnt, sockets, freePort>>
netVars == <<cardVars, stackVars, arrivals, sends>>

Mac(ip)   == [mac |-> ip]
Broadcast == [mac |-> "all"]

NoIp      == "none"

\* No station has the broadcast address, or none.
ASSUME BroadcastAssumption ==
  {"all", NoIp} \intersect (Neighbours \union Remote \union {Own}) = {}

Room == arrivals + sends + Len(sockets) < MaxEvents

-----------------------------------------------------------------------------
(* Frames.                                                                 *)

Arp(command, src, srcIP, dst, dstIP) ==
  [type |-> "arp", dst |-> dst, src |-> src, command |-> command,
   srcIP |-> srcIP, srcMAC |-> src, dstIP |-> dstIP, dstMAC |-> dst]

Datagram(src, srcIP, dst, dstIP, message) ==
  [type |-> "ip", dst |-> dst, src |-> src, srcIP |-> srcIP, dstIP |-> dstIP,
   message |-> message]

Echo(type) == [protocol |-> "icmp", type |-> type]
Udp(srcPort, dstPort) ==
  [protocol |-> "udp", srcPort |-> srcPort, dstPort |-> dstPort]

(* The next hop of Send in ipv4.cpp.                                       *)
Route(ip) == IF ip \in Neighbours \union {Own} THEN ip ELSE Gateway

(* GetMACFromCache: the first entry counts, Broadcast stands for none.     *)
Entries(ip) == {i \in DOMAIN cache : cache[i].ip = ip}
GetMACFromCache(ip) ==
  IF Entries(ip) = {} THEN Broadcast
  ELSE cache[CHOOSE i \in Entries(ip) : \A j \in Entries(ip) : i <= j].mac

(* Every frame the network may bring (external): from a neighbour, or from *)
(* elsewhere through the gateway, well formed, for this host or for all.   *)
Via(ip) == Mac(Route(ip))
Incoming ==
       {Arp("request", Mac(h), h, Broadcast, ip) :
          h \in Neighbours, ip \in {Own, Gateway}}
  \union {Arp("response", Mac(h), h, Mac(Own), Own) : h \in Neighbours}
  \union {Datagram(Via(ip), ip, Mac(Own), Own, Echo(t)) :
            ip \in Peers, t \in {0, 8}}
  \union {Datagram(Via(ip), ip, Mac(Own), Own, Udp(p, q)) :
            ip \in Peers, p \in Ports, q \in Ports}

-----------------------------------------------------------------------------
(* Sending.  ARP's Resolve asks once for an address it does not know and   *)
(* polls the cache until it is there.                                      *)

Question(ip) == Arp("request", Mac(Own), Own, Broadcast, ip)
Hop(f) == IF f.type = "arp" THEN f.dstIP ELSE Route(f.dstIP)
Known(f) == GetMACFromCache(Hop(f)) # Broadcast
Addressed(f) ==
  LET to == GetMACFromCache(Hop(f))
  IN  IF f.type = "arp" THEN [f EXCEPT !.dst = to, !.dstMAC = to]
      ELSE [f EXCEPT !.dst = to]

(* By the task.                                                            *)
StartSend(f) ==
  task' = IF Known(f) THEN Sending(Addressed(f), NoFrame)
          ELSE Sending(Question(Hop(f)), f)

Call ==
  /\ mode = "user"
  /\ task = Idle
  /\ UNCHANGED <<active, handler, csr, ringVars, recvVars, cardSend, cardRecv,
                 mode, temp, answer, cache, learnt, arrivals>>

CallToSend ==
  /\ Call
  /\ sends < MaxSends
  /\ Room
  /\ sends' = sends + 1
  /\ UNCHANGED <<sockets, freePort>>

(* Bound: programs open their sockets before the card is activated.        *)
CallToOpen ==
  /\ Call
  /\ ~active
  /\ UNCHANGED <<sends, task>>

RequestEchoReply(ip) ==
  /\ CallToSend
  /\ StartSend(Datagram(Mac(Own), Own, Broadcast, ip, Echo(8)))

BroadcastMACAddress(ip) ==
  /\ CallToSend
  /\ StartSend(Arp("response", Mac(Own), Own, Broadcast, ip))

Resolved ==
  /\ mode = "user"
  /\ task.stage = "poll"
  /\ Known(task.next)
  /\ task' = Sending(Addressed(task.next), NoFrame)
  /\ UNCHANGED <<active, handler, csr, ringVars, recvVars, cardSend, cardRecv,
                 mode, temp, answer, stackVars, arrivals, sends>>

(* By a handler, inside the interrupt: what is not in the cache now will   *)
(* never be, for the interrupt that would bring it cannot come.            *)
SendInside(f) ==
  IF Known(f)
  THEN Send(Addressed(f), 2) /\ mode' = "handled"
  ELSE Send(Question(Hop(f)), 2) /\ mode' = "hung"

-----------------------------------------------------------------------------
(* UDP sockets.                                                            *)

Message(s) ==
  Datagram(Mac(Own), Own, Broadcast, s.remoteIP,
           Udp(s.localPort, s.remotePort))

Listen(port) ==
  /\ CallToOpen
  /\ Room
  /\ sockets' = Append(sockets, [localPort |-> port, remotePort |-> 0,
       remoteIP |-> NoIp, listening |-> TRUE, handler |-> "none"])
  /\ UNCHANGED freePort

Connect(ip, port) ==
  /\ CallToOpen
  /\ Room
  /\ sockets' = Append(sockets, [localPort |-> freePort, remotePort |-> port,
       remoteIP |-> ip, listening |-> FALSE, handler |-> "none"])
  /\ freePort' = freePort + 1

(* The handler is a program's: it answers every datagram.  One that only   *)
(* looks at the data changes as little as none.                            *)
Bind(i) ==
  /\ CallToOpen
  /\ sockets[i].handler = "none"
  /\ sockets' = [sockets EXCEPT ![i].handler = "answer"]
  /\ UNCHANGED freePort

SendDatagram(i) ==
  /\ ~sockets[i].listening
  /\ CallToSend
  /\ StartSend(Message(sockets[i]))

-----------------------------------------------------------------------------
(* Receiving: the frame the driver hands up passes through the layers,     *)
(* each of which looks at the receive buffer for itself.  The card may have *)
(* written another frame there since the layer below looked.  An answer    *)
(* overwrites the request in place: UDP, ICMP and ARP change their part of *)
(* it, IPv4 and Ethernet turn it round on the way back.                    *)

Frame == Stored(recvMemory, currentRecvBuffer)

Layer ==
  UNCHANGED <<active, handler, csr, recvDescr, currentRecvBuffer, cardSend,
              cardRecv, temp, task, arrivals, sends>>

(* A layer with nothing to answer, and one that goes on with its answer.   *)
NoReply ==
  /\ mode' = "handled"
  /\ UNCHANGED <<recvMemory, answer>>

Rewrite(f, n) ==
  /\ recvMemory' = Written(recvMemory, currentRecvBuffer, f, n)
  /\ answer' = f
  /\ UNCHANGED <<ringVars, stackVars>>

(* The driver and Ethernet: who the frame is for.                          *)
ForUs(f) == f.type \in {"arp", "ip"} /\ f.dst \in {Broadcast, Mac(Own)}

PassUp ==
  /\ mode = "receive"
  /\ recvDescr[currentRecvBuffer] # "card"
  /\ mode' = IF Skipped \/ ~ForUs(Frame) THEN "handled" ELSE Frame.type
  /\ Layer
  /\ UNCHANGED <<ringVars, recvMemory, answer, stackVars>>

(* ARP.                                                                    *)
ForArp(f) == f.type = "arp" /\ f.dstIP = Own

ArpAnswer(f) ==
  [f EXCEPT !.command = "response", !.dstIP = f.srcIP, !.dstMAC = f.srcMAC,
            !.srcIP = Own, !.srcMAC = Mac(Own)]

ArpRequest(f) ==
  /\ f.command = "request"
  /\ mode' = "swap"
  /\ Rewrite(ArpAnswer(f), 2)

ArpResponse(f) ==
  /\ f.command = "response"
  /\ IF Len(cache) < CacheSize
     THEN /\ mode' = "learn"
          /\ learnt' = f.srcIP
          /\ UNCHANGED <<recvMemory, answer>>
     ELSE NoReply /\ UNCHANGED learnt
  /\ UNCHANGED <<ringVars, cache, sockets, freePort>>

ArpReceived ==
  /\ mode = "arp"
  /\ IF ForArp(Frame) THEN ArpRequest(Frame) \/ ArpResponse(Frame)
     ELSE NoReply /\ UNCHANGED <<ringVars, stackVars>>
  /\ Layer

(* The hardware address is read after the IP address has been stored; of a  *)
(* frame that is not ARP's it is bytes of something else.                  *)
Learn ==
  /\ mode = "learn"
  /\ cache' = Append(cache, [ip |-> learnt,
                mac |-> IF Frame.type = "arp" THEN Frame.srcMAC ELSE Mac(NoIp)])
  /\ NoReply
  /\ Layer
  /\ UNCHANGED <<ringVars, learnt, sockets, freePort>>

(* ICMP and UDP, through IPv4.                                             *)
EchoAnswer(f) == [f EXCEPT !.message = Echo(0)]

EchoReceived(f) ==
  /\ f.message.protocol = "icmp"
  /\ IF f.message = Echo(8)
     THEN mode' = "turn" /\ Rewrite(EchoAnswer(f), 2)
     ELSE NoReply /\ UNCHANGED <<ringVars, stackVars>>

(* The first socket that listens on the port or belongs to the peer.       *)
Belongs(s, f) ==
  /\ s.localPort = f.message.dstPort
  /\ \/ s.listening
     \/ s.remotePort = f.message.srcPort /\ s.remoteIP = f.srcIP
Candidates(f) == {i \in DOMAIN sockets : Belongs(sockets[i], f)}
\* Mutant: listening sockets come first.
SocketFor_Listening(f) ==
  LET Listening == {i \in Candidates(f) : sockets[i].listening}
      S == IF Listening = {} THEN Candidates(f) ELSE Listening
  IN  CHOOSE i \in S : \A j \in S : i <= j
SocketFor(f) == CHOOSE i \in Candidates(f) : \A j \in Candidates(f) : i <= j

Associated(s, f) ==
  [localPort |-> s.localPort, remotePort |-> f.message.srcPort,
   remoteIP |-> f.srcIP, listening |-> FALSE, handler |-> s.handler]

Deliver(i, f) ==
  LET s == Associated(sockets[i], f) IN
  /\ sockets' = [sockets EXCEPT ![i] = s]
  /\ IF s.handler = "answer"
     THEN SendInside(Message(s)) /\ UNCHANGED <<recvMemory, answer>>
     ELSE NoReply /\ UNCHANGED ringVars

UdpReceived(f) ==
  /\ f.message.protocol = "udp"
  /\ IF Candidates(f) # {} THEN Deliver(SocketFor(f), f)
     ELSE NoReply /\ UNCHANGED <<ringVars, sockets>>
  /\ UNCHANGED <<cache, learnt, freePort>>

ForIp(f) == f.type = "ip" /\ f.dstIP = Own

IpReceived ==
  /\ mode = "ip"
  /\ IF ForIp(Frame) THEN EchoReceived(Frame) \/ UdpReceived(Frame)
     ELSE NoReply /\ UNCHANGED <<ringVars, stackVars>>
  /\ Layer

(* The way back.  To turn round the headers of a frame that has been       *)
(* written over the answer makes a frame of neither.                       *)
TurnedBy(swapped) == IF Frame = answer /\ answer # Torn THEN swapped ELSE Torn

SwapIps(f) == [f EXCEPT !.dstIP = f.srcIP, !.srcIP = f.dstIP]

Turn ==
  /\ mode = "turn"
  /\ Rewrite(TurnedBy(SwapIps(answer)), 2)
  /\ mode' = "swap"
  /\ Layer

\* Mutant: the sender is overwritten before it is copied.
SwapMacs_Order(f) == [f EXCEPT !.dst = Mac(Own), !.src = Mac(Own)]
SwapMacs(f) == [f EXCEPT !.dst = f.src, !.src = Mac(Own)]

Swap ==
  /\ mode = "swap"
  /\ Rewrite(TurnedBy(SwapMacs(answer)), 0)
  /\ mode' = "reply"
  /\ Layer

Layers == PassUp \/ ArpReceived \/ Learn \/ IpReceived \/ Turn \/ Swap

-----------------------------------------------------------------------------
NetInit ==
  /\ CardInit
  /\ cache = << >>
  /\ learnt = NoIp
  /\ sockets = << >>
  /\ freePort = FirstFreePort
  /\ arrivals = 0
  /\ sends = 0

(* The task's calls, which bring in the caller's choice of arguments.      *)
Program ==
  \/ \E ip \in Peers : RequestEchoReply(ip)
  \/ \E ip \in Neighbours : BroadcastMACAddress(ip)
  \/ \E port \in Ports : Listen(port)
  \/ \E ip \in Peers, port \in Ports : Connect(ip, port)
  \/ \E i \in DOMAIN sockets : Bind(i)
  \/ \E i \in DOMAIN sockets : SendDatagram(i)

TaskSend == SendCount \/ SendAdvance \/ SendCopy \/ SendHand
InHandler == SendBack \/ NextFrame \/ Drained \/ Acknowledge

Network ==
  /\ Room
  /\ arrivals' = arrivals + 1
  /\ \E f \in Incoming, status \in {"frame", "bad"} : Arrive(f, status)
  /\ UNCHANGED <<stackVars, sends>>

(* The driver's and the card's steps that the stack takes no part in.      *)
StackIdle == UNCHANGED <<stackVars, arrivals, sends>>

Driver ==
  \/ (Activate \/ SetHandler \/ Transmit) /\ StackIdle
  \/ (TaskSend \/ Interrupt \/ InHandler) /\ StackIdle

NetNext == Program \/ Resolved \/ Network \/ Driver \/ Layers

NetSpec == NetInit /\ [][NetNext]_netVars

(* The processor does what it can: the task's Send goes on, a requested    *)
(* interrupt is taken, the handler runs.                                   *)
Processor ==
  \/ (TaskSend \/ Interrupt \/ InHandler) /\ StackIdle
  \/ Layers

FairNetSpec == NetSpec /\ WF_netVars(Processor)

-----------------------------------------------------------------------------
(***************************************************************************)
(* The driver and the card never lose one another in a ring: the           *)
(* descriptors the card has filled are those from the driver's position to *)
(* the card's, and the ones the driver has filled those from the card's to *)
(* the driver's, so that frames are handled and sent in the order they     *)
(* came (amd_am79c973.cpp:163-222).  Two sends that take one descriptor,   *)
(* and a send that takes one the card still owns, end this for good: the   *)
(* first happens when the interrupt's handler sends while a task is        *)
(* between the read of the position and its write (lines 165 and 166).     *)
(***************************************************************************)
Between(i, j, S) ==
  \E k \in 0 .. RingSize :
     /\ (i + k) % RingSize = j
     /\ S = {(i + n) % RingSize : n \in 0 .. k - 1}

Filled == {i \in DOMAIN recvDescr : recvDescr[i] # "card"}
Used   == {i \in DOMAIN sendDescr : sendDescr[i] = "card" \/ Taken(i)}

RingsInStep ==
  /\ Between(currentRecvBuffer, cardRecv, Filled)
  /\ ~overrun => Between(cardSend, currentSendBuffer, Used)

(***************************************************************************)
(* While every address in the cache is its station's, whatever layers a    *)
(* frame was made by or turned round in, and whatever the card writes in   *)
(* the buffers meanwhile, it goes to the station through which the IP      *)
(* address in it is reached, the gateway for an address elsewhere, and     *)
(* names this host as its sender (etherframe.cpp:53-95, arp.cpp:32-44,     *)
(* ipv4.cpp:74-121).  Nothing is said of a torn frame, such as an answer   *)
(* over which another frame has come: it goes where the other one's        *)
(* headers say.                                                            *)
(***************************************************************************)
AddressesTrue == \A i \in DOMAIN cache : cache[i].mac = Mac(cache[i].ip)

Sound(f) ==
  /\ f.src = Mac(Own) /\ f.srcIP = Own
  /\ f.type = "ip" => f.dst = Via(f.dstIP)
  /\ f.type = "arp" => f.srcMAC = Mac(Own) /\ f.dst = f.dstMAC
  /\ f.type = "arp" /\ f.command = "response" => f.dst = Mac(f.dstIP)

WellAddressed ==
  AddressesTrue => \A i \in DOMAIN sendDescr :
    sendDescr[i] = "card" /\ Stored(sendMemory, i) # Torn
      => Sound(Stored(sendMemory, i))

(***************************************************************************)
(* Two sockets are never associated with the same peer, however many       *)
(* listen on its port and whatever order datagrams come in                 *)
(* (udp.cpp:80-99).                                                        *)
(***************************************************************************)
OneSocketPerPeer ==
  \A i, j \in DOMAIN sockets :
     /\ ~sockets[i].listening /\ ~sockets[j].listening
     /\ sockets[i].localPort = sockets[j].localPort
     /\ sockets[i].remotePort = sockets[j].remotePort
     /\ sockets[i].remoteIP = sockets[j].remoteIP
     => i = j

(***************************************************************************)
(* When the card has signalled received frames, the interrupt handler ends *)
(* up with an empty ring, also for frames that come while it runs, unless  *)
(* it hangs in Resolve.  Not so for a frame that comes after the handler's *)
(* last look at the ring and before it acknowledges the status it read at  *)
(* the beginning (amd_am79c973.cpp:141-160).                               *)
(***************************************************************************)
SignalledFramesHandled ==
  ("RINT" \in csr /\ mode # "ack") ~> (Filled = {} \/ mode = "hung")
=============================================================================
