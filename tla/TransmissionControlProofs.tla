----------------------- MODULE TransmissionControlProofs -----------------------
(***************************************************************************)
(* The invariants of TransmissionControl, for any hosts, clients, servers, *)
(* payloads and initial sequence number, on a network of either kind: of   *)
(* connections, of the order of data, of what a queue without faults holds,*)
(* and that it implements ByteStreams.  What is said of acknowledgements   *)
(* and of data needs payloads of which the receiver finds just what was    *)
(* sent: the run TransmissionControlShort shows what happens otherwise.    *)
(***************************************************************************)
EXTENDS TransmissionControlRefinement, TLAPS

Data == [text : Nat, zeros : Nat]
Flags == {{"SYN"}, {"SYN", "ACK"}, {"ACK"}, {"FIN", "ACK"}, {"PSH", "ACK"}, {"RST"}}

SocketSet ==
  [state : SocketState, lport : UInt16, rhost : Hosts \cup {NoHost}, rport : UInt16,
   seq : Nat, ack : Int, handler : BOOLEAN, closing : BOOLEAN,
   sent : Seq(Data), got : Seq(Data)]

SegmentSet ==
  {m \in [src : Hosts, sport : UInt16, dport : UInt16, seq : Nat, flags : Flags, data : Data] :
     m.flags = {"PSH", "ACK"} => m.data \in Payloads}

\* No payload is so short, or of such a size, that the receiver finds another.
PayloadsFit == \A p \in Payloads : PassedUp(Size(p)) = Size(p)

Types ==
  /\ sockets \in [Hosts -> Seq(SocketSet)]
  /\ freePort \in [Hosts -> UInt16]
  /\ sending \in [Hosts -> {NoSend} \cup [sock : Nat \ {0}, seg : SegmentSet]]
  /\ net \in [Hosts -> IF Reliable THEN Seq(SegmentSet) ELSE SUBSET SegmentSet]

\* Nobody has itself for a peer, and what listens has none.
Peers ==
  \A h \in Hosts :
    /\ \A k \in DOMAIN sockets[h] :
         LET s == sockets[h][k]
         IN  s.rhost # h /\ (s.rhost = NoHost <=> s.state = "LISTEN")
    /\ \A m \in InTransit(net[h]) : m.src # h
    /\ sending[h] # NoSend => sending[h].sock \in DOMAIN sockets[h]

(***************************************************************************)
(* A host's connecting sockets have the ports that freePort has been at,   *)
(* the others ServerPort.                                                  *)
(***************************************************************************)
Addresses ==
  \A h \in Hosts :
    /\ Len(sockets[h]) <= MaxSockets[h]
    /\ \E n \in 0 .. Len(sockets[h]) :
         /\ freePort[h] = PortAt(n)
         /\ \A k \in DOMAIN sockets[h] :
              \/ h \in Servers /\ sockets[h][k].lport = ServerPort
              \/ /\ h \in Clients
                 /\ sockets[h][k].state # "LISTEN"
                 /\ \E i \in 0 .. n - 1 : sockets[h][k].lport = PortAt(i)

\* The sockets that listen are the youngest of those on their port.
ListenersLast ==
  \A h \in Hosts : \A k, j \in DOMAIN sockets[h] :
    /\ k < j
    /\ sockets[h][k].state = "LISTEN"
    /\ sockets[h][j].lport = sockets[h][k].lport
    => sockets[h][j].state = "LISTEN"

(***************************************************************************)
(* A connection from the segments' point of view and from the sockets'.    *)
(* FromTo(s, h, a, b): the socket s talks from port a to the port b of h. *)
(***************************************************************************)
FromTo(s, h, a, b) == s.rhost = h /\ s.lport = a /\ s.rport = b

Past(s) == s.state \notin {"LISTEN", "SYN_SENT"}

Half == {"SYN_RECEIVED", "ESTABLISHED"}
Open == Half \cup {"FIN_WAIT1", "FIN_WAIT2", "CLOSE_WAIT"}

\* The socket p may have sent the segment m to h ...
SentBy(p, h, m) ==
  /\ FromTo(p, h, m.sport, m.dport)
  /\ m.seq + m.data.text + m.data.zeros <= p.seq
  /\ m.flags = {"SYN"} => m.seq = Isn
  /\ m.flags = {"SYN", "ACK"} => m.seq = Isn /\ p.seq > Isn
  /\ "ACK" \in m.flags => Past(p)

\* ... and the socket s is the one it is for.
MeantFor(s, m) ==
  /\ FromTo(s, m.src, m.dport, m.sport)
  /\ m.flags \notin {{"SYN", "ACK"}, {"RST"}} => Past(s)

SegmentOK(h, m) ==
  /\ \E j \in DOMAIN sockets[m.src] : SentBy(sockets[m.src][j], h, m)
  /\ m.flags # {"SYN"} => \E k \in DOMAIN sockets[h] : MeantFor(sockets[h][k], m)

\* What the socket s of h knows of the other end p is true.
Agrees(p, h, s) ==
  /\ FromTo(p, h, s.rport, s.lport)
  /\ s.state # "SYN_RECEIVED" => Past(p)
  /\ PayloadsFit /\ s.state \in Half => s.ack <= p.seq \/ s.ack <= Isn + 1

SocketOK(h, s) ==
  /\ s.rhost # NoHost => s.seq >= Isn
  /\ s.state = "SYN_SENT" => s.seq = Isn
  /\ s.state \in Open =>
       /\ s.seq > Isn
       /\ \E j \in DOMAIN sockets[s.rhost] : Agrees(sockets[s.rhost][j], h, s)

Closing == {"FIN_WAIT1", "FIN_WAIT2", "CLOSED"}

\* The socket s of h, the FIN of which a task is about to send.
ClosingOK(h, s) ==
  s.closing =>
    /\ s.state \in Closing
    /\ \E j \in DOMAIN sockets[s.rhost] :
         FromTo(sockets[s.rhost][j], h, s.rport, s.lport) /\ Past(sockets[s.rhost][j])

\* The segment m that the socket s of h is about to send.
SendOK(h, s, m) ==
  /\ m.src = h /\ m.sport = s.lport /\ m.dport = s.rport
  /\ m.flags = {"PSH", "ACK"}
  /\ m.seq <= s.seq
  /\ Past(s)
  /\ \E j \in DOMAIN sockets[s.rhost] :
       FromTo(sockets[s.rhost][j], h, s.rport, s.lport) /\ Past(sockets[s.rhost][j])

Connections ==
  \A h \in Hosts :
    /\ \A m \in InTransit(net[h]) : SegmentOK(h, m)
    /\ \A k \in DOMAIN sockets[h] : SocketOK(h, sockets[h][k]) /\ ClosingOK(h, sockets[h][k])
    /\ sending[h] # NoSend =>
         SendOK(h, sockets[h][sending[h].sock], sending[h].seg)

TcpInv == Types /\ Peers /\ Addresses /\ ListenersLast /\ UniqueConnection /\ Connections

-----------------------------------------------------------------------------
(***************************************************************************)
(* Segments, the network and sockets.                                      *)
(***************************************************************************)
LEMMA Kinds ==
  ASSUME NEW m \in SegmentSet
  PROVE  /\ "RST" \in m.flags <=> m.flags = {"RST"}
         /\ m.flags \cap {"SYN", "ACK"} = {"SYN"} <=> m.flags = {"SYN"}
         /\ Type(m) = {"SYN"} <=> m.flags = {"SYN"}
         /\ Type(m) = {"SYN", "ACK"} <=> m.flags = {"SYN", "ACK"}
         /\ Type(m) \in {{"FIN"}, {"FIN", "ACK"}} <=> m.flags = {"FIN", "ACK"}
         /\ Type(m) = {"ACK"} <=> m.flags \in {{"ACK"}, {"PSH", "ACK"}}
         /\ "ACK" \in m.flags <=> m.flags \notin {{"SYN"}, {"RST"}}
         /\ \A s : "RST" \notin m.flags /\ CarriesData(s, m) => m.flags = {"PSH", "ACK"}
<1>1. m.flags \in Flags
  BY DEF SegmentSet
<1>2. CASE m.flags = {"SYN"}
  <2>1. Type(m) = {"SYN"} /\ "ACK" \notin m.flags /\ "RST" \notin m.flags /\ "SYN" \in m.flags
    BY <1>2 DEF Type
  <2> QED
    BY <1>2, <2>1 DEF CarriesData
<1>3. CASE m.flags = {"SYN", "ACK"}
  <2>1. Type(m) = {"SYN", "ACK"} /\ "ACK" \in m.flags /\ "RST" \notin m.flags /\ "SYN" \in m.flags
    BY <1>3 DEF Type
  <2> QED
    BY <1>3, <2>1 DEF CarriesData
<1>4. CASE m.flags = {"ACK"}
  <2>1. Type(m) = {"ACK"} /\ "ACK" \in m.flags /\ "RST" \notin m.flags /\ "SYN" \notin m.flags
    BY <1>4 DEF Type
  <2> QED
    BY <1>4, <2>1 DEF CarriesData
<1>5. CASE m.flags = {"FIN", "ACK"}
  <2>1. Type(m) = {"FIN", "ACK"} /\ "ACK" \in m.flags /\ "RST" \notin m.flags /\ "SYN" \notin m.flags
    BY <1>5 DEF Type
  <2> QED
    BY <1>5, <2>1 DEF CarriesData
<1>6. CASE m.flags = {"PSH", "ACK"}
  <2>1. Type(m) = {"ACK"} /\ "ACK" \in m.flags /\ "RST" \notin m.flags /\ "SYN" \notin m.flags
    BY <1>6 DEF Type
  <2> QED
    BY <1>6, <2>1 DEF CarriesData
<1>7. CASE m.flags = {"RST"}
  <2>1. Type(m) = {} /\ "ACK" \notin m.flags /\ "RST" \in m.flags /\ "SYN" \notin m.flags
    BY <1>7 DEF Type
  <2> QED
    BY <1>7, <2>1 DEF CarriesData
<1> QED
  BY <1>1, <1>2, <1>3, <1>4, <1>5, <1>6, <1>7 DEF Flags

\* The queue, or the set, of the segments on their way to a host.
Queues == IF Reliable THEN Seq(SegmentSet) ELSE SUBSET SegmentSet

LEMMA InTransitTyped ==
  ASSUME NEW q \in Queues
  PROVE  InTransit(q) \subseteq SegmentSet /\ Arriving(q) \subseteq InTransit(q)
  BY DEF Queues, InTransit, Arriving, ToSet

LEMMA PutSegments ==
  ASSUME NEW q \in Queues, NEW segs \in Seq(SegmentSet)
  PROVE  /\ Put(q, segs) \in Queues
         /\ InTransit(Put(q, segs)) = InTransit(q) \cup ToSet(segs)
<1>1. CASE Reliable
  <2>1. q \in Seq(SegmentSet) /\ q \o segs \in Seq(SegmentSet)
    BY <1>1 DEF Queues
  <2>2. ToSet(q \o segs) = ToSet(q) \cup ToSet(segs)
    <3>1. ASSUME NEW i \in DOMAIN (q \o segs)
          PROVE  (q \o segs)[i] \in ToSet(q) \cup ToSet(segs)
      <4>1. CASE i <= Len(q)
        BY <2>1, <4>1 DEF ToSet
      <4>2. CASE i > Len(q)
        <5>1. i - Len(q) \in DOMAIN segs /\ (q \o segs)[i] = segs[i - Len(q)]
          BY <2>1, <4>2
        <5> QED
          BY <5>1 DEF ToSet
      <4> QED
        BY <2>1, <4>1, <4>2
    <3>2. ASSUME NEW i \in DOMAIN q
          PROVE  q[i] \in ToSet(q \o segs)
      <4>1. i \in DOMAIN (q \o segs) /\ (q \o segs)[i] = q[i]
        BY <2>1
      <4> QED
        BY <4>1 DEF ToSet
    <3>3. ASSUME NEW i \in DOMAIN segs
          PROVE  segs[i] \in ToSet(q \o segs)
      <4>1. Len(q) + i \in DOMAIN (q \o segs) /\ (q \o segs)[Len(q) + i] = segs[i]
        BY <2>1
      <4> QED
        BY <4>1 DEF ToSet
    <3> QED
      BY <3>1, <3>2, <3>3 DEF ToSet
  <2> QED
    BY <1>1, <2>1, <2>2 DEF Put, Queues, InTransit
<1>2. CASE ~Reliable
  BY <1>2 DEF Put, Queues, InTransit, ToSet
<1> QED
  BY <1>1, <1>2

LEMMA RestSegments ==
  ASSUME NEW q \in Queues, Arriving(q) # {}
  PROVE  Rest(q) \in Queues /\ InTransit(Rest(q)) \subseteq InTransit(q)
<1>1. CASE Reliable
  <2>1. q \in Seq(SegmentSet) /\ q # <<>>
    BY <1>1 DEF Queues, Arriving
  <2>2. Tail(q) \in Seq(SegmentSet) /\ \A i \in DOMAIN Tail(q) : i + 1 \in DOMAIN q /\ Tail(q)[i] = q[i + 1]
    BY <2>1
  <2> QED
    BY <1>1, <2>2 DEF Rest, Queues, InTransit, ToSet
<1>2. CASE ~Reliable
  BY <1>2 DEF Rest, Queues, InTransit
<1> QED
  BY <1>1, <1>2

LEMMA NewSocketTyped ==
  ASSUME NEW h \in Hosts, NEW st \in SocketState, NEW lp \in UInt16,
         NEW rh \in Hosts \cup {NoHost}, NEW rp \in UInt16
  PROVE  Socket(h, st, lp, rh, rp) \in SocketSet
  BY IsnAssumption DEF IsnAssumption, Socket, SocketSet

LEMMA SegmentTyped ==
  ASSUME NEW h \in Hosts, NEW s \in SocketSet, NEW flags \in Flags, NEW data \in Data,
         flags = {"PSH", "ACK"} => data \in Payloads
  PROVE  Segment(h, s, flags, data) \in SegmentSet
  BY DEF Segment, SegmentSet, SocketSet

LEMMA FlagsTyped ==
  /\ {"SYN"} \in Flags /\ {"SYN", "ACK"} \in Flags /\ {"ACK"} \in Flags
  /\ {"FIN", "ACK"} \in Flags /\ {"PSH", "ACK"} \in Flags /\ {"RST"} \in Flags
  /\ NoData \in Data /\ Payloads \subseteq Data
  BY PayloadsAssumption DEF PayloadsAssumption, Flags, NoData, Data

LEMMA PassedUpTyped ==
  ASSUME NEW n \in Nat
  PROVE  PassedUp(n) \in Int
<1> DEFINE total == IpHeaderSize + HeaderSize + n
           frame == Smaller(EtherHeaderSize + total, 1518)
           size == IF frame <= 60 THEN 64 ELSE frame
           read == (total % 256) * 256 + total \div 256
<1>1. total \in Nat /\ EtherHeaderSize \in Nat
  BY DEF IpHeaderSize, HeaderSize, EtherHeaderSize
<1>2. PassedUp(n) = Smaller(read, size - EtherHeaderSize) - IpHeaderSize - HeaderSize
  BY DEF PassedUp
<1> HIDE DEF total
<1>3. read \in Int
  <2>1. total % 256 \in Int /\ total \div 256 \in Int
    BY <1>1
  <2> QED
    BY <2>1
<1>4. \A a, b \in Int : Smaller(a, b) \in Int
  BY DEF Smaller
<1>5. frame \in Int
  BY <1>1, <1>4
<1> HIDE DEF read, frame
<1>6. size - EtherHeaderSize \in Int
  BY <1>1, <1>5
<1> HIDE DEF size
<1>7. Smaller(read, size - EtherHeaderSize) \in Int
  BY <1>3, <1>4, <1>6
<1> QED
  BY <1>2, <1>7 DEF IpHeaderSize, HeaderSize

\* From 3 to 211 bytes there are more than padding and nothing is cut off.
LEMMA MostSizesFit ==
  ASSUME NEW n \in 3 .. 211
  PROVE  PassedUp(n) = n
<1> DEFINE total == IpHeaderSize + HeaderSize + n
           frame == Smaller(EtherHeaderSize + total, 1518)
           size == IF frame <= 60 THEN 64 ELSE frame
           read == (total % 256) * 256 + total \div 256
<1>1. total = n + 44 /\ n \in Int /\ 3 <= n /\ n <= 211 /\ EtherHeaderSize = 14
  BY DEF IpHeaderSize, HeaderSize, EtherHeaderSize
<1>2. PassedUp(n) = Smaller(read, size - EtherHeaderSize) - IpHeaderSize - HeaderSize
  BY DEF PassedUp
<1> HIDE DEF total
<1>3. read = total * 256
  <2>1. total % 256 = total /\ total \div 256 = 0
    BY <1>1
  <2> QED
    BY <1>1, <2>1
<1>4. frame = total + 14
  BY <1>1 DEF Smaller
<1> HIDE DEF read, frame
<1>5. size - EtherHeaderSize = total
  BY <1>1, <1>4
<1> HIDE DEF size
<1>6. Smaller(read, size - EtherHeaderSize) = total
  BY <1>1, <1>3, <1>5 DEF Smaller
<1> QED
  BY <1>1, <1>2, <1>6 DEF IpHeaderSize, HeaderSize

LEMMA HandedTyped ==
  ASSUME NEW d \in Data
  PROVE  Handed(d) \subseteq Data
<1>1. Size(d) \in Nat
  BY DEF Size, Data
<1>2. PassedUp(Size(d)) \in Int
  BY <1>1, PassedUpTyped
<1>3. ASSUME NEW m \in Int, NEW t \in 0 .. m
      PROVE  [text |-> t, zeros |-> m - t] \in Data
  BY <1>3 DEF Data
<1> QED
  BY <1>2, <1>3 DEF Handed

LEMMA HandedWhole ==
  ASSUME PayloadsFit, NEW d \in Payloads, NEW given \in Handed(d)
  PROVE  given = d
<1>1. d \in Data /\ PassedUp(Size(d)) = Size(d)
  BY PayloadsAssumption DEF PayloadsFit, PayloadsAssumption, Data
<1>2. d = [text |-> d.text, zeros |-> d.zeros] /\ d.text \in Nat /\ d.zeros \in Nat
  BY <1>1 DEF Data
<1>3. given = [text |-> d.text, zeros |-> Size(d) - d.text]
  <2>1. Size(d) \in Nat
    BY <1>2 DEF Size
  <2> QED
    BY <1>1, <2>1 DEF Handed
<1>4. Size(d) - d.text = d.zeros
  BY <1>2 DEF Size
<1> QED
  BY <1>2, <1>3, <1>4

LEMMA SentTyped ==
  ASSUME NEW s \in SocketSet, NEW data \in Data
  PROVE  /\ Sent(s, data) \in SocketSet
         /\ Sent(s, data).seq = s.seq + data.text + data.zeros
         /\ Sent(s, data).sent = Append(s.sent, data)
         /\ Sent(s, data).state = s.state /\ Sent(s, data).lport = s.lport /\ Sent(s, data).rhost = s.rhost
         /\ Sent(s, data).rport = s.rport /\ Sent(s, data).ack = s.ack /\ Sent(s, data).handler = s.handler
         /\ Sent(s, data).got = s.got /\ Sent(s, data).closing = s.closing
<1>1. s.seq + data.text + data.zeros \in Nat /\ Append(s.sent, data) \in Seq(Data)
  BY DEF SocketSet, Data
<1>2. [s EXCEPT !.seq = s.seq + data.text + data.zeros, !.sent = Append(s.sent, data)] \in SocketSet
  BY <1>1 DEF SocketSet
<1>3. s.seq + Size(data) = s.seq + data.text + data.zeros
  BY DEF Size, SocketSet, Data
<1> QED
  BY <1>2, <1>3 DEF Sent, SocketSet

LEMMA GotTyped ==
  ASSUME NEW s \in SocketSet, NEW data \in Data
  PROVE  /\ Got(s, data) \in SocketSet
         /\ Got(s, data).got = Append(s.got, data)
         /\ Got(s, data).ack = s.ack + IF data.text = 0 THEN 1 - HeaderSize ELSE data.text
         /\ Got(s, data).state = s.state /\ Got(s, data).lport = s.lport /\ Got(s, data).rhost = s.rhost
         /\ Got(s, data).rport = s.rport /\ Got(s, data).seq = s.seq /\ Got(s, data).handler = s.handler
         /\ Got(s, data).sent = s.sent /\ Got(s, data).closing = s.closing
<1> DEFINE step == IF data.text = 0 THEN 1 - HeaderSize ELSE data.text
<1>1. s.ack + step \in Int /\ Append(s.got, data) \in Seq(Data)
  BY DEF SocketSet, Data, HeaderSize
<1>2. [s EXCEPT !.got = Append(s.got, data), !.ack = s.ack + step] \in SocketSet
  BY <1>1 DEF SocketSet
<1> QED
  BY <1>2 DEF Got, SocketSet

LEMMA FinishedTyped ==
  ASSUME NEW s \in SocketSet
  PROVE  /\ Finished(s) \in SocketSet
         /\ Finished(s).state = "FIN_WAIT1" /\ Finished(s).seq = s.seq + 1
         /\ Finished(s).lport = s.lport /\ Finished(s).rhost = s.rhost /\ Finished(s).rport = s.rport
         /\ Finished(s).ack = s.ack /\ Finished(s).handler = s.handler /\ Finished(s).sent = s.sent
         /\ Finished(s).got = s.got /\ Finished(s).closing = s.closing
<1>1. s.seq + 1 \in Nat /\ "FIN_WAIT1" \in SocketState
  BY DEF SocketSet, SocketState
<1>2. [s EXCEPT !.state = "FIN_WAIT1", !.seq = s.seq + 1] \in SocketSet
  BY <1>1 DEF SocketSet
<1> QED
  BY <1>2 DEF Finished, SocketSet

LEMMA FinDueTyped ==
  ASSUME NEW s \in SocketSet
  PROVE  /\ FinDue(s) \in SocketSet
         /\ FinDue(s).state = "FIN_WAIT1" /\ FinDue(s).closing
         /\ FinDue(s).lport = s.lport /\ FinDue(s).rhost = s.rhost /\ FinDue(s).rport = s.rport
         /\ FinDue(s).seq = s.seq /\ FinDue(s).ack = s.ack /\ FinDue(s).handler = s.handler
         /\ FinDue(s).sent = s.sent /\ FinDue(s).got = s.got
<1>1. "FIN_WAIT1" \in SocketState
  BY DEF SocketState
<1>2. [s EXCEPT !.state = "FIN_WAIT1", !.closing = TRUE] \in SocketSet
  BY <1>1 DEF SocketSet
<1> QED
  BY <1>2 DEF FinDue, SocketSet

LEMMA FinSentTyped ==
  ASSUME NEW s \in SocketSet
  PROVE  /\ FinSent(s) \in SocketSet
         /\ FinSent(s).state = s.state /\ ~FinSent(s).closing
         /\ FinSent(s).lport = s.lport /\ FinSent(s).rhost = s.rhost /\ FinSent(s).rport = s.rport
         /\ FinSent(s).seq = s.seq + 1 /\ FinSent(s).ack = s.ack
         /\ FinSent(s).handler = s.handler
         /\ FinSent(s).sent = s.sent /\ FinSent(s).got = s.got
<1>1. s.seq + 1 \in Nat
  BY DEF SocketSet
<1>2. [s EXCEPT !.seq = s.seq + 1, !.closing = FALSE] \in SocketSet
  BY <1>1 DEF SocketSet
<1> QED
  BY <1>2 DEF FinSent, SocketSet

LEMMA SocketUpdate ==
  ASSUME Types, NEW h \in Hosts, NEW k \in DOMAIN sockets[h], NEW t \in SocketSet,
         sockets' = [sockets EXCEPT ![h][k] = t]
  PROVE  /\ sockets' \in [Hosts -> Seq(SocketSet)]
         /\ \A g \in Hosts : /\ DOMAIN sockets'[g] = DOMAIN sockets[g]
                             /\ Len(sockets'[g]) = Len(sockets[g])
         /\ sockets'[h][k] = t
         /\ \A g \in Hosts : \A i \in DOMAIN sockets[g] :
              g # h \/ i # k => sockets'[g][i] = sockets[g][i]
<1>1. sockets[h] \in Seq(SocketSet) /\ sockets'[h] = [sockets[h] EXCEPT ![k] = t]
  BY DEF Types
<1>2. [sockets[h] EXCEPT ![k] = t] \in Seq(SocketSet)
  BY <1>1
<1>3. /\ DOMAIN [sockets[h] EXCEPT ![k] = t] = DOMAIN sockets[h]
      /\ Len([sockets[h] EXCEPT ![k] = t]) = Len(sockets[h])
  BY <1>1
<1>4. \A g \in Hosts : g # h => sockets'[g] = sockets[g]
  BY DEF Types
<1>5. sockets' \in [Hosts -> Seq(SocketSet)]
  BY <1>1, <1>2, <1>4 DEF Types
<1> QED
  BY <1>1, <1>3, <1>4, <1>5

LEMMA SocketAdded ==
  ASSUME Types, NEW h \in Hosts, NEW t \in SocketSet,
         sockets' = [sockets EXCEPT ![h] = Append(@, t)]
  PROVE  /\ sockets' \in [Hosts -> Seq(SocketSet)]
         /\ \A g \in Hosts : g # h => sockets'[g] = sockets[g]
         /\ Len(sockets'[h]) = Len(sockets[h]) + 1
         /\ DOMAIN sockets'[h] = DOMAIN sockets[h] \cup {Len(sockets[h]) + 1}
         /\ \A i \in DOMAIN sockets[h] : sockets'[h][i] = sockets[h][i]
         /\ sockets'[h][Len(sockets[h]) + 1] = t
<1>1. sockets[h] \in Seq(SocketSet) /\ sockets'[h] = Append(sockets[h], t)
  BY DEF Types
<1>2. Append(sockets[h], t) \in Seq(SocketSet)
  BY <1>1
<1>3. \A g \in Hosts : g # h => sockets'[g] = sockets[g]
  BY DEF Types
<1>4. sockets' \in [Hosts -> Seq(SocketSet)]
  BY <1>1, <1>2, <1>3 DEF Types
<1> QED
  BY <1>1, <1>3, <1>4

LEMMA SocketTyped ==
  ASSUME Types, NEW h \in Hosts, NEW k \in DOMAIN sockets[h]
  PROVE  /\ sockets[h][k] \in SocketSet
         /\ sockets[h][k].seq \in Nat /\ sockets[h][k].ack \in Int
         /\ sockets[h][k].rhost \in Hosts \cup {NoHost}
<1>1. sockets[h][k] \in SocketSet
  BY DEF Types
<1> QED
  BY <1>1 DEF SocketSet

\* What the segments segs to the peer of t may add to what is on its way.
Transmits(t, segs) ==
  /\ net' \in [Hosts -> Queues]
  /\ \A g \in Hosts :
       InTransit(net'[g]) \subseteq
         InTransit(net[g]) \cup IF g = t.rhost THEN ToSet(segs) ELSE {}

LEMMA PutTransmits ==
  ASSUME Types, NEW t \in SocketSet, NEW segs \in Seq(SegmentSet),
         net' = [net EXCEPT ![t.rhost] = Put(@, segs)]
  PROVE  Transmits(t, segs)
<1>1. net \in [Hosts -> Queues]
  BY DEF Types, Queues
<1> QED
  BY <1>1, PutSegments DEF Transmits

LEMMA AnswerTransmits ==
  ASSUME Types, NEW h \in Hosts, Arriving(net[h]) # {},
         NEW t \in SocketSet, t.rhost # h, NEW segs \in Seq(SegmentSet),
         net' = [net EXCEPT ![h] = Rest(@), ![t.rhost] = Put(@, segs)]
  PROVE  Transmits(t, segs)
<1>1. net \in [Hosts -> Queues]
  BY DEF Types, Queues
<1>2. \A g \in Hosts :
        net'[g] = IF g = t.rhost THEN Put(net[g], segs)
                  ELSE IF g = h THEN Rest(net[g]) ELSE net[g]
  BY <1>1
<1>3. net' = [g \in Hosts |-> net'[g]]
  BY <1>1
<1>4. ASSUME NEW g \in Hosts
      PROVE  /\ net'[g] \in Queues
             /\ InTransit(net'[g]) \subseteq
                  InTransit(net[g]) \cup IF g = t.rhost THEN ToSet(segs) ELSE {}
  BY <1>1, <1>2, PutSegments, RestSegments
<1> QED
  BY <1>3, <1>4 DEF Transmits

-----------------------------------------------------------------------------
(***************************************************************************)
(* A segment that arrives finds the socket it was meant for, or one that   *)
(* listens.                                                                *)
(***************************************************************************)
LEMMA Arrived ==
  ASSUME TcpInv, NEW h \in Hosts, NEW m \in Arriving(net[h]),
         NEW k \in DOMAIN sockets[h], SocketFor(h, k, m)
  PROVE  /\ m \in SegmentSet /\ m.src # h
         /\ sockets[h][k] \in SocketSet
         /\ sockets[h][k].lport = m.dport
         /\ sockets[h][k].state = "LISTEN" => m.flags = {"SYN"}
         /\ sockets[h][k].state # "LISTEN" =>
              /\ FromTo(sockets[h][k], m.src, m.dport, m.sport)
              /\ m.flags \notin {{"SYN"}, {"SYN", "ACK"}, {"RST"}} => Past(sockets[h][k])
         /\ \E j \in DOMAIN sockets[m.src] : SentBy(sockets[m.src][j], h, m)
<1> DEFINE s == sockets[h][k]
<1>1. m \in InTransit(net[h]) /\ m \in SegmentSet /\ m.src \in Hosts
  <2>1. net[h] \in Queues
    BY DEF TcpInv, Types, Queues
  <2> QED
    BY <2>1, InTransitTyped DEF SegmentSet
<1>2. m.src # h /\ SegmentOK(h, m) /\ (s.rhost = NoHost <=> s.state = "LISTEN")
  BY <1>1 DEF TcpInv, Peers, Connections
<1>3. s \in SocketSet
  BY DEF TcpInv, Types
<1>4. Matches(h, k, m)
  BY DEF SocketFor
<1>5. s.state = "LISTEN" => m.flags = {"SYN"}
  BY <1>1, <1>2, <1>4, Kinds, NoHostAssumption DEF Matches, NoHostAssumption
<1>6. s.state # "LISTEN" => FromTo(s, m.src, m.dport, m.sport)
  BY <1>4 DEF Matches, FromTo
<1>7. ASSUME s.state # "LISTEN", m.flags \notin {{"SYN"}, {"SYN", "ACK"}, {"RST"}}
      PROVE  Past(s)
  <2>1. PICK i \in DOMAIN sockets[h] : MeantFor(sockets[h][i], m)
    BY <1>2, <1>7 DEF SegmentOK
  <2>2. i = k
    BY <2>1, <1>1, <1>6, <1>7, NoHostAssumption
       DEF TcpInv, UniqueConnection, MeantFor, FromTo, NoHostAssumption
  <2> QED
    BY <2>1, <2>2, <1>7 DEF MeantFor
<1> QED
  BY <1>1, <1>2, <1>3, <1>4, <1>5, <1>6, <1>7 DEF Matches, SegmentOK

-----------------------------------------------------------------------------
(***************************************************************************)
(* What all but four actions do: socket k of h becomes t, which sends segs *)
(* to its peer.  Either it keeps its addresses or it listened for the      *)
(* connection it now has.                                                  *)
(***************************************************************************)
Kept(s, t) ==
  /\ t.lport = s.lport /\ t.rhost = s.rhost /\ t.rport = s.rport
  /\ t.state = "LISTEN" <=> s.state = "LISTEN"
  /\ Past(s) => Past(t)
  /\ t.seq >= s.seq

\* A task that is about to send the FIN of t was so before, or s was open.
StillCloses(s, t) ==
  t.closing => t.state \in Closing /\ (s.closing \/ s.state = "ESTABLISHED")

Accepted(h, k, t) ==
  /\ sockets[h][k].state = "LISTEN"
  /\ t.state = "SYN_RECEIVED"
  /\ \E m \in Arriving(net[h]) :
       /\ SocketFor(h, k, m)
       /\ FromTo(t, m.src, sockets[h][k].lport, m.sport)

NewSegment(h, t, m) ==
  /\ m.src = h
  /\ m.flags # {"SYN"}
  /\ SentBy(t, t.rhost, m)
  /\ \E j \in DOMAIN sockets[t.rhost] : MeantFor(sockets[t.rhost][j], m)

(***************************************************************************)
(* What this does to the two streams of data of the connection: nothing,   *)
(* or a task's Send ends, or the handler is given a payload, and may answer*)
(* it or close the connection.                                             *)
(***************************************************************************)
Receiving == Half \cup {"FIN_WAIT1", "FIN_WAIT2"}

Silent(segs) == \A i \in DOMAIN segs : segs[i].flags # {"PSH", "ACK"}

Quiet(h, s, t, segs) ==
  /\ t.sent = s.sent /\ t.got = s.got /\ Silent(segs)
  /\ \/ s.state \in {"LISTEN", "SYN_SENT"} /\ t.seq = Isn + 1 /\ t.ack = Isn + 1
     \/ /\ t.state \in Receiving => s.state \in Receiving /\ t.ack = s.ack
        /\ \/ t.seq = s.seq /\ (t.state \in Half => s.state \in Half)
           \/ t.state \notin Half

Sends(h, k, s, t, segs) ==
  /\ sending[h] # NoSend
  /\ k = sending[h].sock
  /\ t = Sent(s, sending[h].seg.data)
  /\ segs = <<sending[h].seg>>

Gets(h, s, t, segs) ==
  /\ s.state \in {"ESTABLISHED", "FIN_WAIT2"}
  /\ \E m \in Arriving(net[h]) :
       /\ m.flags = {"PSH", "ACK"}
       /\ FromTo(s, m.src, m.dport, m.sport)
       /\ m.seq = s.ack
       /\ \E d \in Handed(m.data) :
            t.got = Append(s.got, d) /\ (d.text > 0 => t.ack = s.ack + d.text)
  /\ \/ t.sent = s.sent /\ Silent(segs) /\ t.state = s.state /\ t.seq = s.seq
     \/ /\ "close" \in HandlerActs[h]
        /\ t.sent = s.sent /\ Silent(segs) /\ t.state = "FIN_WAIT1"
     \/ /\ "reply" \in HandlerActs[h]
        /\ s.state = "ESTABLISHED" /\ t.state = "ESTABLISHED"
        /\ \E data \in Payloads :
             /\ t.sent = Append(s.sent, data)
             /\ t.seq = s.seq + data.text + data.zeros
             /\ \A i \in DOMAIN segs : segs[i].flags = {"PSH", "ACK"} =>
                  segs[i].seq = s.seq /\ segs[i].data = data

Evolves(h, k, t, segs) ==
  /\ freePort' = freePort
  /\ \/ /\ sending' = sending
        /\ Quiet(h, sockets[h][k], t, segs) \/ Gets(h, sockets[h][k], t, segs)
     \/ /\ sending' = [sending EXCEPT ![h] = NoSend]
        /\ Sends(h, k, sockets[h][k], t, segs)
  /\ sockets' = [sockets EXCEPT ![h][k] = t]
  /\ t \in SocketSet
  /\ segs \in Seq(SegmentSet)
  /\ Transmits(t, segs)
  /\ t.rhost # h
  /\ Kept(sockets[h][k], t) \/ Accepted(h, k, t)
  /\ StillCloses(sockets[h][k], t)
  /\ SocketOK(h, t)
  /\ \A i \in DOMAIN segs : NewSegment(h, t, segs[i])

LEMMA NewSegmentOK ==
  ASSUME NEW h \in Hosts, NEW t \in SocketSet, NEW u \in SocketSet, NEW data \in Data,
         NEW flags \in Flags, flags \notin {{"SYN"}, {"SYN", "ACK"}},
         flags = {"PSH", "ACK"} => data \in Payloads,
         u.lport = t.lport, u.rport = t.rport, u.seq + data.text + data.zeros <= t.seq,
         NEW j \in DOMAIN sockets[t.rhost],
         FromTo(sockets[t.rhost][j], h, t.rport, t.lport),
         flags = {"RST"} \/ (Past(t) /\ Past(sockets[t.rhost][j]))
  PROVE  /\ Segment(h, u, flags, data) \in SegmentSet
         /\ NewSegment(h, t, Segment(h, u, flags, data))
<1> DEFINE m == Segment(h, u, flags, data)
<1>1. m \in SegmentSet
  BY SegmentTyped
<1>2. /\ m.src = h /\ m.sport = t.lport /\ m.dport = t.rport
      /\ m.seq = u.seq /\ m.flags = flags /\ m.data = data
  BY DEF Segment
<1> HIDE DEF m
<1>3. "ACK" \in m.flags => Past(t)
  BY <1>1, <1>2, Kinds
<1>4. SentBy(t, t.rhost, m)
  BY <1>2, <1>3 DEF SentBy, FromTo
<1>5. MeantFor(sockets[t.rhost][j], m)
  BY <1>2 DEF MeantFor
<1>6. NewSegment(h, t, m)
  BY <1>2, <1>4, <1>5 DEF NewSegment
<1> QED
  BY <1>1, <1>6 DEF m

LEMMA SendsNothing ==
  <<>> \in Seq(SegmentSet) /\ \A h, t : \A i \in DOMAIN <<>> : NewSegment(h, t, <<>>[i])
  OBVIOUS

LEMMA SendsOne ==
  ASSUME NEW h, NEW t, NEW a \in SegmentSet, NewSegment(h, t, a)
  PROVE  <<a>> \in Seq(SegmentSet) /\ \A i \in DOMAIN <<a>> : NewSegment(h, t, <<a>>[i])
  OBVIOUS

LEMMA SendsTwo ==
  ASSUME NEW h, NEW t, NEW a \in SegmentSet, NEW b \in SegmentSet,
         NewSegment(h, t, a), NewSegment(h, t, b)
  PROVE  <<a, b>> \in Seq(SegmentSet) /\ \A i \in DOMAIN <<a, b>> : NewSegment(h, t, <<a, b>>[i])
  OBVIOUS

\* The tasks' steps.
LEMMA BindEvolves ==
  ASSUME TcpInv, NEW h \in Hosts, NEW k \in DOMAIN sockets[h], Bind(h, k)
  PROVE  Evolves(h, k, [sockets[h][k] EXCEPT !.handler = TRUE], <<>>)
<1> DEFINE s == sockets[h][k]
           t == [s EXCEPT !.handler = TRUE]
<1>1. s \in SocketSet /\ SocketOK(h, s) /\ ClosingOK(h, s) /\ s.rhost # h
  BY DEF TcpInv, Types, Connections, Peers
<1>2. t \in SocketSet /\ t = [s EXCEPT !.handler = t.handler]
  BY <1>1 DEF SocketSet
<1>3. /\ t.state = s.state /\ t.lport = s.lport /\ t.rhost = s.rhost
      /\ t.rport = s.rport /\ t.seq = s.seq /\ t.ack = s.ack /\ t.closing = s.closing
  BY <1>1 DEF SocketSet
<1>4. sockets' = [sockets EXCEPT ![h][k] = t]
  BY DEF Bind, TcpInv, Types
<1>5. Transmits(t, <<>>)
  BY DEF Bind, TcpInv, Types, Transmits, Queues
<1> HIDE DEF t, s
<1>6. Kept(s, t) /\ SocketOK(h, t)
  BY <1>1, <1>3 DEF Kept, Past, SocketOK, Agrees, SocketSet
<1>7. Quiet(h, s, t, <<>>)
  BY <1>1, <1>3 DEF Quiet, Silent, SocketSet, t
<1>8. freePort' = freePort /\ sending' = sending
  BY DEF Bind
<1>9. StillCloses(s, t)
  BY <1>1, <1>3 DEF ClosingOK, StillCloses
<1> QED
  BY <1>1, <1>2, <1>3, <1>4, <1>5, <1>6, <1>7, <1>8, <1>9, SendsNothing DEF Evolves, s, t

LEMMA SendEndEvolves ==
  ASSUME TcpInv, NEW h \in Hosts, SendEnd(h)
  PROVE  LET k == sending[h].sock
             m == sending[h].seg
         IN  k \in DOMAIN sockets[h] /\ Evolves(h, k, Sent(sockets[h][k], m.data), <<m>>)
<1> DEFINE k == sending[h].sock
           m == sending[h].seg
           s == sockets[h][k]
           t == Sent(s, m.data)
<1>1. sending[h] # NoSend
  BY DEF SendEnd
<1>2. k \in DOMAIN sockets[h] /\ SendOK(h, s, m)
  BY <1>1 DEF TcpInv, Peers, Connections
<1>3. m \in SegmentSet /\ m.data \in Data
  BY <1>1 DEF TcpInv, Types, SegmentSet
<1>4. s \in SocketSet /\ SocketOK(h, s) /\ ClosingOK(h, s) /\ s.rhost # h
  BY <1>2 DEF TcpInv, Types, Connections, Peers
<1>5. sockets' = [sockets EXCEPT ![h][k] = t] /\ net' = [net EXCEPT ![s.rhost] = Put(@, <<m>>)]
  BY DEF SendEnd
<1> HIDE DEF k, m, s
<1>6. /\ t \in SocketSet /\ t.seq = s.seq + m.data.text + m.data.zeros
      /\ t.state = s.state /\ t.lport = s.lport /\ t.rhost = s.rhost
      /\ t.rport = s.rport /\ t.ack = s.ack /\ t.closing = s.closing
  BY <1>3, <1>4, SentTyped
<1> HIDE DEF t
<1>7. Kept(s, t) /\ SocketOK(h, t)
  <2>1. Past(s)
    BY <1>2 DEF SendOK
  <2>2. Kept(s, t)
    BY <1>3, <1>4, <1>6 DEF Kept, Past, SocketSet, Data
  <2> QED
    BY <1>4, <1>6, <2>1, <2>2, IsnAssumption DEF Kept, Past, SocketOK, Agrees, SocketSet, IsnAssumption
<1>8. NewSegment(h, t, m)
  <2>1. m.flags # {"SYN"} /\ m.flags # {"SYN", "ACK"}
    BY <1>2 DEF SendOK
  <2>2. SentBy(t, t.rhost, m)
    <3>1. m.seq + m.data.text + m.data.zeros <= t.seq
      BY <1>2, <1>3, <1>4, <1>6 DEF SendOK, SegmentSet, SocketSet, Data
    <3> QED
      BY <1>2, <1>6, <2>1, <3>1 DEF SendOK, SentBy, FromTo, Past
  <2>3. \E j \in DOMAIN sockets[t.rhost] : MeantFor(sockets[t.rhost][j], m)
    BY <1>2, <1>6 DEF SendOK, MeantFor, FromTo
  <2> QED
    BY <1>2, <2>1, <2>2, <2>3 DEF NewSegment, SendOK
<1>9. <<m>> \in Seq(SegmentSet) /\ \A i \in DOMAIN <<m>> : NewSegment(h, t, <<m>>[i])
  BY <1>3, <1>8, SendsOne
<1>10. Transmits(t, <<m>>)
  BY <1>5, <1>6, <1>9, PutTransmits DEF TcpInv
<1>11. Sends(h, k, s, t, <<m>>) /\ sending' = [sending EXCEPT ![h] = NoSend] /\ freePort' = freePort
  BY <1>1 DEF SendEnd, Sends, k, m, t
<1>12. StillCloses(s, t)
  BY <1>4, <1>6 DEF ClosingOK, StillCloses
<1>13. Evolves(h, k, t, <<m>>)
  BY <1>4, <1>5, <1>6, <1>7, <1>9, <1>10, <1>11, <1>12 DEF Evolves, s
<1> QED
  BY <1>2, <1>13 DEF k, m, s, t

LEMMA DisconnectBeginEvolves ==
  ASSUME TcpInv, NEW h \in Hosts, NEW k \in DOMAIN sockets[h], DisconnectBegin(h, k)
  PROVE  Evolves(h, k, FinDue(sockets[h][k]), <<>>)
<1> DEFINE s == sockets[h][k]
           t == FinDue(s)
<1>1. s \in SocketSet /\ SocketOK(h, s) /\ s.rhost # h /\ s.state = "ESTABLISHED"
  BY DEF TcpInv, Types, Connections, Peers, DisconnectBegin
<1>2. sockets' = [sockets EXCEPT ![h][k] = t]
  BY DEF DisconnectBegin
<1> HIDE DEF s
<1>3. /\ t \in SocketSet /\ t.seq = s.seq /\ t.state = "FIN_WAIT1"
      /\ t.lport = s.lport /\ t.rhost = s.rhost /\ t.rport = s.rport
      /\ t.sent = s.sent /\ t.got = s.got /\ t.ack = s.ack
  BY <1>1, FinDueTyped
<1> HIDE DEF t
<1>4. PICK j \in DOMAIN sockets[s.rhost] : Agrees(sockets[s.rhost][j], h, s)
  BY <1>1 DEF SocketOK, Open, Half
<1>5. Kept(s, t) /\ SocketOK(h, t)
  BY <1>1, <1>3, <1>4, IsnAssumption
     DEF Kept, Past, SocketOK, Agrees, SocketSet, Open, Half, IsnAssumption
<1>6. StillCloses(s, t)
  BY <1>1, <1>3 DEF StillCloses, Closing
<1>7. Transmits(t, <<>>)
  BY DEF DisconnectBegin, TcpInv, Types, Transmits, Queues
<1>8. Quiet(h, s, t, <<>>) /\ freePort' = freePort /\ sending' = sending
  BY <1>1, <1>3 DEF Quiet, Silent, DisconnectBegin, Receiving, Half
<1> QED
  BY <1>1, <1>2, <1>3, <1>5, <1>6, <1>7, <1>8, SendsNothing DEF Evolves, s, t

LEMMA DisconnectEndEvolves ==
  ASSUME TcpInv, NEW h \in Hosts, NEW k \in DOMAIN sockets[h], DisconnectEnd(h, k)
  PROVE  Evolves(h, k, FinSent(sockets[h][k]),
                 <<Segment(h, sockets[h][k], {"FIN", "ACK"}, NoData)>>)
<1> DEFINE s == sockets[h][k]
           t == FinSent(s)
           m == Segment(h, s, {"FIN", "ACK"}, NoData)
<1>1. s \in SocketSet /\ SocketOK(h, s) /\ ClosingOK(h, s) /\ s.rhost # h /\ s.closing
  BY DEF TcpInv, Types, Connections, Peers, DisconnectEnd
<1>2. /\ sockets' = [sockets EXCEPT ![h][k] = t]
      /\ net' = [net EXCEPT ![s.rhost] = Put(@, <<m>>)]
  BY DEF DisconnectEnd
<1> HIDE DEF s
<1>3. /\ t \in SocketSet /\ t.seq = s.seq + 1 /\ t.state = s.state /\ ~t.closing
      /\ t.lport = s.lport /\ t.rhost = s.rhost /\ t.rport = s.rport
      /\ t.sent = s.sent /\ t.got = s.got /\ t.ack = s.ack
  BY <1>1, FinSentTyped
<1> HIDE DEF t
<1>4. /\ s.state \in Closing
      /\ \E j \in DOMAIN sockets[s.rhost] :
           FromTo(sockets[s.rhost][j], h, s.rport, s.lport) /\ Past(sockets[s.rhost][j])
  BY <1>1 DEF ClosingOK
<1>5. PICK j \in DOMAIN sockets[s.rhost] :
        FromTo(sockets[s.rhost][j], h, s.rport, s.lport) /\ Past(sockets[s.rhost][j])
  BY <1>4
<1>6. Kept(s, t) /\ SocketOK(h, t) /\ t.state \notin Half /\ Past(t)
  BY <1>1, <1>3, <1>4, IsnAssumption
     DEF Kept, Past, SocketOK, Agrees, SocketSet, Open, Half, Closing, IsnAssumption
<1>7. m \in SegmentSet /\ NewSegment(h, t, m)
  <2>1. /\ j \in DOMAIN sockets[t.rhost] /\ Past(sockets[t.rhost][j])
        /\ FromTo(sockets[t.rhost][j], h, t.rport, t.lport)
    BY <1>3, <1>5
  <2>2. s.seq + NoData.text + NoData.zeros <= t.seq
    BY <1>1, <1>3 DEF NoData, SocketSet
  <2>3. {"FIN", "ACK"} \in Flags \ {{"SYN"}, {"SYN", "ACK"}, {"PSH", "ACK"}} /\ NoData \in Data
    BY FlagsTyped
  <2> QED
    BY <1>1, <1>3, <1>6, <2>1, <2>2, <2>3, NewSegmentOK
<1>8. <<m>> \in Seq(SegmentSet) /\ \A i \in DOMAIN <<m>> : NewSegment(h, t, <<m>>[i])
  BY <1>7, SendsOne
<1>9. Silent(<<m>>)
  BY DEF Silent, Segment
<1> HIDE DEF m
<1>10. Transmits(t, <<m>>)
  BY <1>2, <1>3, <1>8, PutTransmits DEF TcpInv
<1>11. Quiet(h, s, t, <<m>>) /\ freePort' = freePort /\ sending' = sending
  BY <1>3, <1>6, <1>9 DEF Quiet, DisconnectEnd
<1>12. StillCloses(s, t)
  BY <1>3 DEF StillCloses
<1> QED
  BY <1>1, <1>2, <1>3, <1>6, <1>8, <1>10, <1>11, <1>12 DEF Evolves, s, t, m

(***************************************************************************)
(* The handling of a segment.  Whatever arrives at a socket that does not  *)
(* listen comes from the other end of its connection.                      *)
(***************************************************************************)
LEMMA ArrivedFromPeer ==
  ASSUME TcpInv, NEW h \in Hosts, NEW m \in Arriving(net[h]),
         NEW k \in DOMAIN sockets[h], SocketFor(h, k, m), sockets[h][k].state # "LISTEN"
  PROVE  LET s == sockets[h][k]
         IN  /\ s \in SocketSet /\ SocketOK(h, s) /\ s.rhost \in Hosts \ {h}
             /\ m \in SegmentSet /\ FromTo(s, m.src, m.dport, m.sport)
             /\ m.flags \notin {{"SYN"}, {"SYN", "ACK"}, {"RST"}} => Past(s)
             /\ \E j \in DOMAIN sockets[s.rhost] :
                  /\ FromTo(sockets[s.rhost][j], h, s.rport, s.lport)
                  /\ SentBy(sockets[s.rhost][j], h, m)
<1>1. SocketOK(h, sockets[h][k])
  BY DEF TcpInv, Connections
<1>2. m \in SegmentSet => m.src \in Hosts
  BY DEF SegmentSet
<1> QED
  BY <1>1, <1>2, Arrived DEF FromTo, SentBy

LEMMA AnswerEvolves ==
  ASSUME TcpInv, NEW h \in Hosts, NEW m \in Arriving(net[h]), NEW k \in DOMAIN sockets[h],
         NEW t \in SocketSet, NEW segs \in Seq(SegmentSet), Answer(h, k, t, segs),
         t.rhost # h, SocketOK(h, t), \A i \in DOMAIN segs : NewSegment(h, t, segs[i]),
         Kept(sockets[h][k], t) \/ Accepted(h, k, t), StillCloses(sockets[h][k], t),
         Quiet(h, sockets[h][k], t, segs) \/ Gets(h, sockets[h][k], t, segs)
  PROVE  Evolves(h, k, t, segs)
<1>1. Transmits(t, segs)
  BY AnswerTransmits DEF Answer, TcpInv
<1> QED
  BY <1>1 DEF Evolves, Answer

\* A socket that changes its state, and what it acknowledges.
Moves(s, t, st, a) ==
  /\ t \in SocketSet /\ t.state = st /\ t.ack = a
  /\ t.lport = s.lport /\ t.rhost = s.rhost /\ t.rport = s.rport
  /\ t.seq = s.seq /\ t.sent = s.sent /\ t.got = s.got /\ t.closing = s.closing

LEMMA Moved ==
  ASSUME NEW s \in SocketSet, NEW st \in SocketState, NEW a \in Int
  PROVE  /\ Moves(s, [s EXCEPT !.state = st, !.ack = a], st, a)
         /\ Moves(s, [s EXCEPT !.state = st], st, s.ack)
<1>1. [s EXCEPT !.state = st, !.ack = a] \in SocketSet
  BY DEF SocketSet
<1>2. [s EXCEPT !.state = st] \in SocketSet
  BY DEF SocketSet
<1> QED
  BY <1>1, <1>2 DEF SocketSet, Moves

\* A socket past the handshake whose peer, socket j, is past it too.
LEMMA WellConnected ==
  ASSUME NEW h \in Hosts, NEW s \in SocketSet, NEW t \in SocketSet, s.state # "LISTEN",
         t.lport = s.lport, t.rhost = s.rhost, t.rport = s.rport, t.seq >= s.seq,
         t.seq > Isn, Past(t), t.state # "SYN_RECEIVED",
         NEW j \in DOMAIN sockets[s.rhost],
         FromTo(sockets[s.rhost][j], h, s.rport, s.lport), Past(sockets[s.rhost][j]),
         PayloadsFit /\ t.state = "ESTABLISHED" =>
           t.ack <= sockets[s.rhost][j].seq \/ t.ack <= Isn + 1
  PROVE  Kept(s, t) /\ SocketOK(h, t)
<1>1. Kept(s, t)
  BY DEF Kept, Past
<1>2. Agrees(sockets[t.rhost][j], h, t)
  BY SMTT(30) DEF Agrees, Half
<1> QED
  BY <1>1, <1>2, IsnAssumption DEF SocketOK, Past, SocketSet, IsnAssumption

\* A socket whose task is about to send its FIN never opens again.
LEMMA ClosesOn ==
  ASSUME TcpInv, NEW h \in Hosts, NEW k \in DOMAIN sockets[h], NEW t,
         t.closing = sockets[h][k].closing,
         sockets[h][k].state \in Closing => t.state \in Closing
  PROVE  StillCloses(sockets[h][k], t)
<1>1. ClosingOK(h, sockets[h][k])
  BY DEF TcpInv, Connections
<1> QED
  BY <1>1 DEF ClosingOK, StillCloses

LEMMA OneEnd ==
  ASSUME TcpInv, NEW g \in Hosts, NEW h \in Hosts, NEW a, NEW b,
         NEW i \in DOMAIN sockets[g], NEW j \in DOMAIN sockets[g],
         FromTo(sockets[g][i], h, a, b), FromTo(sockets[g][j], h, a, b)
  PROVE  i = j
  BY NoHostAssumption, SMTT(30) DEF TcpInv, UniqueConnection, FromTo, NoHostAssumption

\* The peer of a socket that has heard of it knows it too.
LEMMA OpenPeer ==
  ASSUME TcpInv, NEW h \in Hosts, NEW m \in Arriving(net[h]), m.flags \notin {{"SYN"}, {"RST"}},
         NEW k \in DOMAIN sockets[h], SocketFor(h, k, m), sockets[h][k].state \in Open
  PROVE  LET s == sockets[h][k]
         IN  \E j \in DOMAIN sockets[s.rhost] :
               /\ Agrees(sockets[s.rhost][j], h, s)
               /\ SentBy(sockets[s.rhost][j], h, m)
               /\ Past(sockets[s.rhost][j])
<1> DEFINE s == sockets[h][k]
<1>1. /\ s \in SocketSet /\ SocketOK(h, s) /\ s.rhost \in Hosts \ {h} /\ m \in SegmentSet
      /\ \E j \in DOMAIN sockets[s.rhost] :
           /\ FromTo(sockets[s.rhost][j], h, s.rport, s.lport)
           /\ SentBy(sockets[s.rhost][j], h, m)
  BY ArrivedFromPeer DEF Open, Half
<1>2. PICK j \in DOMAIN sockets[s.rhost] :
        /\ FromTo(sockets[s.rhost][j], h, s.rport, s.lport)
        /\ SentBy(sockets[s.rhost][j], h, m)
  BY <1>1
<1>3. PICK i \in DOMAIN sockets[s.rhost] : Agrees(sockets[s.rhost][i], h, s)
  BY <1>1 DEF SocketOK
<1>4. i = j
  BY <1>1, <1>2, <1>3, OneEnd DEF Agrees
<1>5. "ACK" \in m.flags
  BY <1>1, Kinds
<1> QED
  BY <1>2, <1>3, <1>4, <1>5 DEF SentBy

LEMMA ResetEvolves ==
  ASSUME TcpInv, NEW h \in Hosts, NEW m \in Arriving(net[h]), NEW k \in DOMAIN sockets[h],
         SocketFor(h, k, m), ReceiveReset(h, k, sockets[h][k], m)
  PROVE  Evolves(h, k, [sockets[h][k] EXCEPT !.state = "CLOSED"], <<>>)
<1> DEFINE s == sockets[h][k]
           t == [s EXCEPT !.state = "CLOSED"]
<1>1. m.flags = {"RST"} /\ s.state # "LISTEN"
  BY Kinds, Arrived DEF ReceiveReset
<1>2. s \in SocketSet /\ SocketOK(h, s) /\ s.rhost \in Hosts \ {h}
  BY <1>1, ArrivedFromPeer
<1>3. Answer(h, k, t, <<>>)
  BY DEF ReceiveReset
<1> HIDE DEF s
<1>4. "CLOSED" \in SocketState /\ s.ack \in Int
  BY <1>2 DEF SocketState, SocketSet
<1>5. Moves(s, t, "CLOSED", s.ack)
  BY <1>2, <1>4, Moved
<1> HIDE DEF t
<1>6. Kept(s, t) /\ SocketOK(h, t)
  BY <1>1, <1>2, <1>5 DEF Moves, Kept, Past, SocketOK, Open, Half, SocketSet
<1>7. Quiet(h, s, t, <<>>)
  BY <1>5 DEF Moves, Quiet, Silent, Receiving, Half
<1>8. StillCloses(s, t)
  BY <1>5, ClosesOn DEF Moves, Closing, s
<1> QED
  BY <1>2, <1>3, <1>5, <1>6, <1>7, <1>8, SendsNothing, AnswerEvolves DEF Moves, s, t

LEMMA SynEvolves ==
  ASSUME TcpInv, NEW h \in Hosts, NEW m \in Arriving(net[h]), NEW k \in DOMAIN sockets[h],
         SocketFor(h, k, m), ReceiveSyn(h, k, sockets[h][k], m)
  PROVE  \E t, segs : Evolves(h, k, t, segs)
<1> DEFINE s == sockets[h][k]
           u == [s EXCEPT !.state = "SYN_RECEIVED", !.rport = m.sport,
                          !.rhost = m.src, !.ack = m.seq + 1, !.seq = Isn]
           t == [u EXCEPT !.seq = @ + 1]
           r == Segment(h, u, {"SYN", "ACK"}, NoData)
<1>1. /\ m.flags = {"SYN"} /\ s.state = "LISTEN" /\ s \in SocketSet
      /\ m \in SegmentSet /\ m.src # h /\ s.lport = m.dport
  BY Kinds, Arrived DEF ReceiveSyn
<1>2. PICK j \in DOMAIN sockets[m.src] : SentBy(sockets[m.src][j], h, m)
  BY Arrived
<1>3. Answer(h, k, t, <<r>>)
  BY DEF ReceiveSyn
<1> HIDE DEF s
<1>5. /\ m.src \in Hosts /\ m.sport \in UInt16 /\ m.seq + 1 \in Int /\ Isn \in Nat
      /\ m.seq = Isn /\ "SYN_RECEIVED" \in SocketState
  BY <1>1, <1>2, IsnAssumption DEF SentBy, SegmentSet, SocketState, IsnAssumption
<1>6. /\ u \in SocketSet /\ u.lport = s.lport /\ u.rhost = m.src /\ u.rport = m.sport
      /\ u.seq = Isn /\ u.ack = m.seq + 1 /\ u.state = "SYN_RECEIVED"
      /\ u.sent = s.sent /\ u.got = s.got /\ u.closing = s.closing
  BY <1>1, <1>5 DEF SocketSet
<1> HIDE DEF u
<1>7. /\ t \in SocketSet /\ t.lport = s.lport /\ t.rhost = m.src /\ t.rport = m.sport
      /\ t.seq = Isn + 1 /\ t.ack = Isn + 1 /\ t.state = "SYN_RECEIVED"
      /\ t.sent = s.sent /\ t.got = s.got /\ t.closing = s.closing
  <2>1. u.seq + 1 = Isn + 1 /\ Isn + 1 \in Nat /\ m.seq + 1 = Isn + 1
    BY <1>5, <1>6
  <2> QED
    BY <1>6, <2>1 DEF SocketSet
<1> HIDE DEF t
<1>8. FromTo(sockets[t.rhost][j], h, t.rport, t.lport) /\ t.rhost \in Hosts
  BY <1>1, <1>2, <1>5, <1>7 DEF SentBy, FromTo
<1>9. SocketOK(h, t)
  <2>1. Agrees(sockets[t.rhost][j], h, t)
    BY <1>5, <1>7, <1>8 DEF Agrees
  <2> QED
    BY <1>2, <1>5, <1>7, <2>1 DEF SocketOK
<1>10. Accepted(h, k, t)
  BY <1>1, <1>5, <1>7 DEF Accepted, FromTo, s
<1>11. /\ r \in SegmentSet /\ r.src = h /\ r.sport = t.lport /\ r.dport = t.rport
       /\ r.seq = Isn /\ r.flags = {"SYN", "ACK"} /\ r.data = NoData
  BY <1>6, <1>7, FlagsTyped, SegmentTyped DEF Segment
<1> HIDE DEF r
<1>12. NewSegment(h, t, r)
  <2>1. SentBy(t, t.rhost, r)
    BY <1>5, <1>7, <1>11 DEF SentBy, FromTo, NoData, Past
  <2>2. MeantFor(sockets[t.rhost][j], r)
    BY <1>8, <1>11 DEF MeantFor, FromTo
  <2> QED
    BY <1>2, <1>7, <1>11, <2>1, <2>2 DEF NewSegment
<1>13. <<r>> \in Seq(SegmentSet) /\ \A i \in DOMAIN <<r>> : NewSegment(h, t, <<r>>[i])
  BY <1>11, <1>12, SendsOne
<1>14. Quiet(h, s, t, <<r>>)
  BY <1>1, <1>7, <1>11 DEF Quiet, Silent
<1>15. StillCloses(s, t)
  BY <1>1, <1>7, ClosesOn DEF Closing, s
<1>16. Evolves(h, k, t, <<r>>)
  BY <1>1, <1>3, <1>7, <1>9, <1>10, <1>13, <1>14, <1>15, AnswerEvolves DEF s
<1> QED
  BY <1>16

\* An answer to the peer, which is past its half of the handshake as t is.
LEMMA ReplyOK ==
  ASSUME NEW h \in Hosts, NEW t \in SocketSet, NEW flags \in {{"ACK"}, {"FIN", "ACK"}}, Past(t),
         NEW j \in DOMAIN sockets[t.rhost],
         FromTo(sockets[t.rhost][j], h, t.rport, t.lport), Past(sockets[t.rhost][j])
  PROVE  /\ Segment(h, t, flags, NoData) \in SegmentSet
         /\ Segment(h, t, flags, NoData).flags # {"PSH", "ACK"}
         /\ NewSegment(h, t, Segment(h, t, flags, NoData))
<1>1. t.seq + NoData.text + NoData.zeros <= t.seq
  BY DEF NoData, SocketSet
<1>2. /\ flags \in Flags /\ flags \notin {{"SYN"}, {"SYN", "ACK"}} /\ flags # {"PSH", "ACK"}
      /\ NoData \in Data
  BY FlagsTyped
<1>3. Segment(h, t, flags, NoData).flags = flags
  BY DEF Segment
<1> QED
  BY <1>1, <1>2, <1>3, NewSegmentOK

LEMMA SynAckEvolves ==
  ASSUME TcpInv, NEW h \in Hosts, NEW m \in Arriving(net[h]), NEW k \in DOMAIN sockets[h],
         SocketFor(h, k, m), ReceiveSynAck(h, k, sockets[h][k], m)
  PROVE  \E t, segs : Evolves(h, k, t, segs)
<1> DEFINE s == sockets[h][k]
           t == [s EXCEPT !.state = "ESTABLISHED", !.ack = m.seq + 1, !.seq = @ + 1]
           r == Segment(h, t, {"ACK"}, NoData)
<1>1. s.state = "SYN_SENT" /\ Answer(h, k, t, <<r>>)
  BY DEF ReceiveSynAck
<1>2. s \in SocketSet /\ SocketOK(h, s) /\ s.rhost \in Hosts \ {h} /\ m \in SegmentSet
  BY <1>1, ArrivedFromPeer
<1>3. PICK j \in DOMAIN sockets[s.rhost] :
        /\ FromTo(sockets[s.rhost][j], h, s.rport, s.lport)
        /\ SentBy(sockets[s.rhost][j], h, m)
  BY <1>1, ArrivedFromPeer
<1>4. m.flags = {"SYN", "ACK"}
  BY <1>2, Kinds DEF ReceiveSynAck
<1> DEFINE p == sockets[s.rhost][j]
<1> HIDE DEF s, p
<1>5. m.seq = Isn /\ Past(p) /\ Isn \in Nat /\ s.seq = Isn
  BY <1>1, <1>2, <1>3, <1>4, IsnAssumption DEF SentBy, SocketOK, p, IsnAssumption
<1>6. /\ "ESTABLISHED" \in SocketState /\ s.seq + 1 \in Nat /\ m.seq + 1 \in Int
      /\ s.seq + 1 = Isn + 1 /\ m.seq + 1 = Isn + 1
  BY <1>5 DEF SocketState
<1>7. /\ t \in SocketSet /\ t.lport = s.lport /\ t.rhost = s.rhost /\ t.rport = s.rport
      /\ t.seq = Isn + 1 /\ t.ack = Isn + 1 /\ t.state = "ESTABLISHED"
      /\ t.sent = s.sent /\ t.got = s.got /\ t.closing = s.closing
  BY <1>2, <1>6 DEF SocketSet
<1> HIDE DEF t
<1>8. Kept(s, t) /\ SocketOK(h, t)
  BY <1>1, <1>2, <1>3, <1>5, <1>7, WellConnected DEF Past, p
<1>9. r \in SegmentSet /\ r.flags # {"PSH", "ACK"} /\ NewSegment(h, t, r)
  BY <1>3, <1>5, <1>7, ReplyOK DEF Past, p
<1> HIDE DEF r
<1>10. Quiet(h, s, t, <<r>>)
  BY <1>1, <1>7, <1>9 DEF Quiet, Silent
<1>11. <<r>> \in Seq(SegmentSet) /\ \A i \in DOMAIN <<r>> : NewSegment(h, t, <<r>>[i])
  BY <1>9, SendsOne
<1>12. StillCloses(s, t)
  BY <1>1, <1>7, ClosesOn DEF Closing, s
<1>13. Evolves(h, k, t, <<r>>)
  BY <1>1, <1>2, <1>7, <1>8, <1>10, <1>11, <1>12, AnswerEvolves DEF s
<1> QED
  BY <1>13

\* A segment other than a SYN or a reset moves an open socket on to state st.
LEMMA OpenMoves ==
  ASSUME TcpInv, NEW h \in Hosts, NEW m \in Arriving(net[h]), m.flags \notin {{"SYN"}, {"RST"}},
         NEW k \in DOMAIN sockets[h], SocketFor(h, k, m), sockets[h][k].state \in Open,
         NEW st \in SocketState \ {"LISTEN", "SYN_SENT", "SYN_RECEIVED"}, NEW a,
         NEW t, Moves(sockets[h][k], t, st, a),
         st = "ESTABLISHED" => sockets[h][k].state \in Half,
         sockets[h][k].state \in Closing => st \in Closing,
         st \in Receiving => sockets[h][k].state \in Receiving /\ a = sockets[h][k].ack,
         NEW segs \in Seq(SegmentSet), Answer(h, k, t, segs),
         NewSegment(h, t, Segment(h, t, {"ACK"}, NoData)) /\
           NewSegment(h, t, Segment(h, t, {"FIN", "ACK"}, NoData))
           => \A i \in DOMAIN segs : NewSegment(h, t, segs[i]),
         Silent(segs)
  PROVE  Evolves(h, k, t, segs)
<1> DEFINE s == sockets[h][k]
<1>1. s \in SocketSet /\ SocketOK(h, s) /\ s.rhost # h /\ s.state # "LISTEN"
  BY DEF TcpInv, Types, Connections, Peers, Open, Half
<1>2. PICK j \in DOMAIN sockets[s.rhost] :
        Agrees(sockets[s.rhost][j], h, s) /\ Past(sockets[s.rhost][j])
  BY OpenPeer
<1> HIDE DEF s
<1>3. /\ t \in SocketSet /\ t.state = st /\ t.ack = a
      /\ t.lport = s.lport /\ t.rhost = s.rhost /\ t.rport = s.rport
      /\ t.seq = s.seq /\ t.sent = s.sent /\ t.got = s.got
  BY DEF Moves, s
<1>4. Past(t) /\ t.seq > Isn /\ t.state # "SYN_RECEIVED" /\ t.seq >= s.seq
  <2>1. s.seq \in Nat /\ s.seq > Isn
    BY <1>1 DEF SocketOK, SocketSet, s
  <2> QED
    BY <1>3, <2>1, IsnAssumption DEF Past, IsnAssumption
<1>5. PayloadsFit /\ t.state = "ESTABLISHED" =>
        t.ack <= sockets[s.rhost][j].seq \/ t.ack <= Isn + 1
  BY <1>2, <1>3 DEF Agrees, Receiving, Half, s
<1>6. Kept(s, t) /\ SocketOK(h, t)
  BY <1>1, <1>2, <1>3, <1>4, <1>5, WellConnected DEF Agrees
<1>7. \A i \in DOMAIN segs : NewSegment(h, t, segs[i])
  BY <1>2, <1>3, <1>4, ReplyOK DEF Agrees
<1>8. Quiet(h, s, t, segs)
  BY <1>3 DEF Quiet, s, Half
<1>9. StillCloses(s, t)
  BY <1>3, ClosesOn DEF Moves, s
<1> QED
  BY <1>1, <1>3, <1>6, <1>7, <1>8, <1>9, AnswerEvolves DEF s

LEMMA FinEvolves ==
  ASSUME TcpInv, NEW h \in Hosts, NEW m \in Arriving(net[h]), NEW k \in DOMAIN sockets[h],
         SocketFor(h, k, m), ReceiveFin(h, k, sockets[h][k], m)
  PROVE  \E t, segs : Evolves(h, k, t, segs)
<1> DEFINE s == sockets[h][k]
<1>1. m.flags = {"FIN", "ACK"} /\ s \in SocketSet
  BY Kinds, Arrived DEF ReceiveFin
<1>2. m.flags \notin {{"SYN"}, {"RST"}}
  BY <1>1
<1>3. s.ack + 1 \in Int /\ s.ack \in Int
  BY <1>1 DEF SocketSet
<1>4. /\ "CLOSE_WAIT" \in SocketState \ {"LISTEN", "SYN_SENT", "SYN_RECEIVED"}
      /\ "CLOSED" \in SocketState \ {"LISTEN", "SYN_SENT", "SYN_RECEIVED"}
      /\ "CLOSE_WAIT" \notin Receiving /\ "CLOSED" \notin Receiving
      /\ "CLOSED" \in Closing /\ "ESTABLISHED" \notin Closing
  BY DEF SocketState, Receiving, Half, Closing
<1>5. ASSUME s.state = "ESTABLISHED",
             NEW t, t = [s EXCEPT !.state = "CLOSE_WAIT", !.ack = @ + 1],
             Answer(h, k, t, <<Segment(h, t, {"ACK"}, NoData),
                               Segment(h, t, {"FIN", "ACK"}, NoData)>>)
      PROVE  \E segs : Evolves(h, k, t, segs)
  <2> DEFINE segs == <<Segment(h, t, {"ACK"}, NoData), Segment(h, t, {"FIN", "ACK"}, NoData)>>
  <2>1. Moves(s, t, "CLOSE_WAIT", s.ack + 1)
    BY <1>1, <1>3, <1>4, <1>5, Moved
  <2>2. segs \in Seq(SegmentSet) /\ Silent(segs)
    <3>1. /\ Segment(h, t, {"ACK"}, NoData) \in SegmentSet
          /\ Segment(h, t, {"FIN", "ACK"}, NoData) \in SegmentSet
      BY <2>1, FlagsTyped, SegmentTyped DEF Moves
    <3>2. /\ Segment(h, t, {"ACK"}, NoData).flags # {"PSH", "ACK"}
          /\ Segment(h, t, {"FIN", "ACK"}, NoData).flags # {"PSH", "ACK"}
      BY DEF Segment
    <3> QED
      BY <3>1, <3>2 DEF Silent
  <2>3. NewSegment(h, t, Segment(h, t, {"ACK"}, NoData)) /\
          NewSegment(h, t, Segment(h, t, {"FIN", "ACK"}, NoData))
          => \A i \in DOMAIN segs : NewSegment(h, t, segs[i])
    OBVIOUS
  <2>4. s.state \in Open /\ s.state \notin Closing
    BY <1>5 DEF Open, Half, Closing
  <2>5. Answer(h, k, t, segs)
    BY <1>5
  <2> HIDE DEF segs
  <2> QED
    BY <1>2, <1>4, <2>1, <2>2, <2>3, <2>4, <2>5, OpenMoves
<1>6. ASSUME s.state = "CLOSE_WAIT",
             NEW t, t = [s EXCEPT !.state = "CLOSED"], Answer(h, k, t, <<>>)
      PROVE  \E segs : Evolves(h, k, t, segs)
  <2>1. Moves(s, t, "CLOSED", s.ack)
    BY <1>1, <1>3, <1>4, <1>6, Moved
  <2>2. <<>> \in Seq(SegmentSet) /\ Silent(<<>>) /\ \A i \in DOMAIN <<>> : NewSegment(h, t, <<>>[i])
    BY DEF Silent
  <2>3. s.state \in Open
    BY <1>6 DEF Open, Half
  <2> QED
    BY <1>2, <1>4, <1>6, <2>1, <2>2, <2>3, OpenMoves
<1>7. ASSUME s.state \in {"FIN_WAIT1", "FIN_WAIT2"},
             NEW t, t = [s EXCEPT !.state = "CLOSED", !.ack = @ + 1],
             Answer(h, k, t, <<Segment(h, t, {"ACK"}, NoData)>>)
      PROVE  \E segs : Evolves(h, k, t, segs)
  <2> DEFINE segs == <<Segment(h, t, {"ACK"}, NoData)>>
  <2>1. Moves(s, t, "CLOSED", s.ack + 1)
    BY <1>1, <1>3, <1>4, <1>7, Moved
  <2>2. segs \in Seq(SegmentSet) /\ Silent(segs)
    <3>1. Segment(h, t, {"ACK"}, NoData) \in SegmentSet
      BY <2>1, FlagsTyped, SegmentTyped DEF Moves
    <3>2. Segment(h, t, {"ACK"}, NoData).flags # {"PSH", "ACK"}
      BY DEF Segment
    <3> QED
      BY <3>1, <3>2 DEF Silent
  <2>3. NewSegment(h, t, Segment(h, t, {"ACK"}, NoData)) =>
          \A i \in DOMAIN segs : NewSegment(h, t, segs[i])
    OBVIOUS
  <2>4. s.state \in Open
    BY <1>7 DEF Open, Half
  <2>5. Answer(h, k, t, segs)
    BY <1>7
  <2> HIDE DEF segs
  <2> QED
    BY <1>2, <1>4, <2>1, <2>2, <2>3, <2>4, <2>5, OpenMoves
<1> QED
  BY <1>5, <1>6, <1>7 DEF ReceiveFin

LEMMA AckEvolves ==
  ASSUME TcpInv, NEW h \in Hosts, NEW m \in Arriving(net[h]), NEW k \in DOMAIN sockets[h],
         SocketFor(h, k, m), ReceiveAck(h, k, sockets[h][k], m)
  PROVE  \E t, segs : Evolves(h, k, t, segs)
<1> DEFINE s == sockets[h][k]
<1>1. m.flags \notin {{"SYN"}, {"RST"}} /\ s \in SocketSet
  BY Kinds, Arrived DEF ReceiveAck
<1>2. PICK st \in {"ESTABLISHED", "FIN_WAIT2", "CLOSED"} :
        /\ Answer(h, k, [s EXCEPT !.state = st], <<>>)
        /\ \/ s.state = "SYN_RECEIVED" /\ st = "ESTABLISHED"
           \/ s.state = "FIN_WAIT1" /\ st = "FIN_WAIT2"
           \/ s.state = "CLOSE_WAIT" /\ st = "CLOSED"
  BY DEF ReceiveAck
<1>3. st \in SocketState \ {"LISTEN", "SYN_SENT", "SYN_RECEIVED"} /\ s.state \in Open
  BY <1>2 DEF SocketState, Open, Half
<1> DEFINE t == [s EXCEPT !.state = st]
<1>4. Moves(s, t, st, s.ack)
  BY <1>1, <1>3, Moved DEF SocketSet
<1>5. <<>> \in Seq(SegmentSet) /\ Silent(<<>>) /\ \A i \in DOMAIN <<>> : NewSegment(h, t, <<>>[i])
  BY DEF Silent
<1>6. /\ st = "ESTABLISHED" => s.state \in Half
      /\ st \in Receiving => s.state \in Receiving
      /\ s.state \in Closing => st \in Closing
  BY <1>2 DEF Receiving, Half, Closing
<1>7. Answer(h, k, t, <<>>)
  BY <1>2
<1> HIDE DEF t
<1> QED
  BY <1>1, <1>3, <1>4, <1>5, <1>6, <1>7, OpenMoves

LEMMA ResetSentEvolves ==
  ASSUME TcpInv, NEW h \in Hosts, NEW m \in Arriving(net[h]), NEW k \in DOMAIN sockets[h],
         SocketFor(h, k, m), SendReset(h, k, sockets[h][k], m)
  PROVE  \E segs : Evolves(h, k, sockets[h][k], segs)
<1> DEFINE s == sockets[h][k]
           r == Segment(h, s, {"RST"}, NoData)
<1>1. s.state # "LISTEN"
  <2>1. SUFFICES ASSUME s.state = "LISTEN" PROVE FALSE
    OBVIOUS
  <2>2. m \in SegmentSet /\ m.flags = {"SYN"}
    BY <2>1, Arrived
  <2>3. /\ Type(m) = {"SYN"} /\ "RST" \notin m.flags /\ "FIN" \notin Type(m)
    BY <2>2 DEF Type
  <2>4. ~CarriesData(s, m)
    BY <2>2, <2>3, Kinds DEF CarriesData
  <2> QED
    BY <2>1, <2>3, <2>4 DEF SendReset, Unwanted
<1>2. s \in SocketSet /\ SocketOK(h, s) /\ s.rhost \in Hosts \ {h}
  BY <1>1, ArrivedFromPeer
<1>3. PICK j \in DOMAIN sockets[s.rhost] : FromTo(sockets[s.rhost][j], h, s.rport, s.lport)
  BY <1>1, ArrivedFromPeer
<1>4. Answer(h, k, s, <<r>>)
  BY DEF SendReset
<1> HIDE DEF s
<1>5. Kept(s, s)
  BY <1>2 DEF Kept, SocketSet
<1>6. r \in SegmentSet /\ r.flags = {"RST"} /\ NewSegment(h, s, r)
  <2>1. s.seq + NoData.text + NoData.zeros <= s.seq
    BY <1>2 DEF NoData, SocketSet
  <2>2. {"RST"} \in Flags /\ {"RST"} \notin {{"SYN"}, {"SYN", "ACK"}, {"PSH", "ACK"}} /\ NoData \in Data
    BY FlagsTyped
  <2>3. r.flags = {"RST"}
    BY DEF Segment
  <2> QED
    BY <1>2, <1>3, <2>1, <2>2, <2>3, NewSegmentOK
<1> HIDE DEF r
<1>7. Quiet(h, s, s, <<r>>)
  BY <1>6 DEF Quiet, Silent
<1>8. <<r>> \in Seq(SegmentSet) /\ \A i \in DOMAIN <<r>> : NewSegment(h, s, <<r>>[i])
  BY <1>6, SendsOne, SMTT(30)
<1>9. StillCloses(s, s)
  BY ClosesOn DEF s
<1>10. Evolves(h, k, s, <<r>>)
  BY <1>2, <1>4, <1>5, <1>7, <1>8, <1>9, AnswerEvolves DEF s
<1> QED
  BY <1>10 DEF s

LEMMA DataArrives ==
  ASSUME TcpInv, NEW h \in Hosts, NEW m \in Arriving(net[h]), NEW k \in DOMAIN sockets[h],
         SocketFor(h, k, m), sockets[h][k].state # "CLOSED", "RST" \notin m.flags,
         CarriesData(sockets[h][k], m), InSequence(sockets[h][k], m)
  PROVE  LET s == sockets[h][k]
         IN  /\ s \in SocketSet /\ s.rhost # h /\ s.seq > Isn
             /\ m.data \in Data /\ m.data \in Payloads
             /\ s.state \in {"ESTABLISHED", "FIN_WAIT2"}
             /\ m.flags = {"PSH", "ACK"} /\ m.seq = s.ack
             /\ FromTo(s, m.src, m.dport, m.sport)
             /\ \E j \in DOMAIN sockets[s.rhost] :
                  /\ FromTo(sockets[s.rhost][j], h, s.rport, s.lport)
                  /\ Past(sockets[s.rhost][j])
                  /\ s.ack + m.data.text <= sockets[s.rhost][j].seq
<1> DEFINE s == sockets[h][k]
<1>1. m \in SegmentSet /\ s \in SocketSet
  BY Arrived
<1>2. m.flags = {"PSH", "ACK"}
  BY <1>1, Kinds
<1>3. Type(m) = {"ACK"} /\ m.flags # {"ACK"}
  BY <1>1, <1>2, Kinds
<1>4. s.state \notin {"SYN_RECEIVED", "FIN_WAIT1", "CLOSE_WAIT"}
  BY <1>3 DEF CarriesData
<1>5. s.state # "LISTEN"
  BY <1>2, Arrived
<1>6. Past(s) /\ FromTo(s, m.src, m.dport, m.sport) /\ SocketOK(h, s) /\ s.rhost # h
  BY <1>2, <1>5, ArrivedFromPeer
<1>7. s.state \in {"ESTABLISHED", "FIN_WAIT2"}
  BY <1>1, <1>4, <1>5, <1>6 DEF Past, SocketSet, SocketState
<1>8. s.state \in Open
  BY <1>7 DEF Open, Half
<1>9. PICK j \in DOMAIN sockets[s.rhost] :
        /\ Agrees(sockets[s.rhost][j], h, s)
        /\ SentBy(sockets[s.rhost][j], h, m)
        /\ Past(sockets[s.rhost][j])
  BY <1>2, <1>8, OpenPeer
<1>10. m.seq = s.ack /\ m.data \in Data /\ m.data \in Payloads /\ m.seq \in Nat
  BY <1>1, <1>2 DEF InSequence, SegmentSet
<1>11. s.rhost \in Hosts
  BY <1>1, <1>6 DEF FromTo, SegmentSet
<1>12. sockets[s.rhost][j].seq \in Nat
  BY <1>11, SocketTyped DEF TcpInv
<1>13. s.ack + m.data.text <= sockets[s.rhost][j].seq
  BY <1>9, <1>10, <1>12 DEF SentBy, Data
<1>14. s.seq > Isn
  BY <1>6, <1>8 DEF SocketOK
<1> QED
  BY <1>1, <1>2, <1>6, <1>7, <1>9, <1>10, <1>13, <1>14 DEF Agrees

LEMMA DataEvolves ==
  ASSUME TcpInv, NEW h \in Hosts, NEW m \in Arriving(net[h]), NEW k \in DOMAIN sockets[h],
         SocketFor(h, k, m), sockets[h][k].state # "CLOSED", "RST" \notin m.flags,
         ReceiveData(h, k, sockets[h][k], m)
  PROVE  \E t, segs : Evolves(h, k, t, segs)
<1> DEFINE s == sockets[h][k]
<1>1. CarriesData(s, m) /\ InSequence(s, m)
  BY DEF ReceiveData
<1>2. /\ s \in SocketSet /\ s.rhost # h /\ s.seq > Isn
      /\ m.data \in Data /\ m.data \in Payloads
      /\ s.state \in {"ESTABLISHED", "FIN_WAIT2"}
      /\ m.flags = {"PSH", "ACK"} /\ m.seq = s.ack
      /\ FromTo(s, m.src, m.dport, m.sport)
  BY <1>1, DataArrives
<1>3. PICK j \in DOMAIN sockets[s.rhost] :
        /\ FromTo(sockets[s.rhost][j], h, s.rport, s.lport)
        /\ Past(sockets[s.rhost][j])
        /\ s.ack + m.data.text <= sockets[s.rhost][j].seq
  BY <1>1, DataArrives
<1>0. PICK given \in Handed(m.data) :
        \/ LET t == Got(s, given)
           IN  Answer(h, k, t, <<Segment(h, t, {"ACK"}, NoData)>>)
        \/ /\ "reply" \in HandlerActs[h] /\ s.state = "ESTABLISHED"
           /\ \E data \in Payloads :
                LET t == Got(Sent(s, data), given)
                IN  Answer(h, k, t, <<Segment(h, s, {"PSH", "ACK"}, data),
                                         Segment(h, t, {"ACK"}, NoData)>>)
        \/ /\ "close" \in HandlerActs[h] /\ s.state = "ESTABLISHED"
           /\ LET t == Got(Finished(s), given)
              IN  Answer(h, k, t, <<Segment(h, s, {"FIN", "ACK"}, NoData),
                                       Segment(h, t, {"ACK"}, NoData)>>)
  BY DEF ReceiveData
<1> DEFINE a == s.ack + IF given.text = 0 THEN 1 - HeaderSize ELSE given.text
<1>4. /\ given \in Data /\ a \in Int
      /\ PayloadsFit => a <= sockets[s.rhost][j].seq
      /\ given.text > 0 => a = s.ack + given.text
  <2>1. s.ack \in Int /\ s.rhost \in Hosts
    BY <1>2, NoHostAssumption DEF SocketSet, FromTo, TcpInv, Peers, NoHostAssumption
  <2>2. sockets[s.rhost][j].seq \in Nat
    BY <2>1, SocketTyped DEF TcpInv
  <2>3. given \in Data /\ (PayloadsFit => given = m.data)
    BY <1>2, HandedTyped, HandedWhole
  <2>4. PayloadsFit => s.ack + given.text <= sockets[s.rhost][j].seq
    BY <1>3, <2>3
  <2> QED
    BY <2>1, <2>2, <2>3, <2>4 DEF Data, HeaderSize
<1> HIDE DEF a
<1>5. ASSUME NEW t \in SocketSet, NEW segs \in Seq(SegmentSet), Answer(h, k, t, segs),
             t.lport = s.lport, t.rhost = s.rhost, t.rport = s.rport, t.seq >= s.seq, Past(t),
             t.state # "SYN_RECEIVED", t.ack = a, t.got = Append(s.got, given),
             t.closing = s.closing, t.state \in {s.state, "FIN_WAIT1"},
             \A i \in DOMAIN segs : NewSegment(h, t, segs[i]),
             \/ t.sent = s.sent /\ Silent(segs) /\ t.state = s.state /\ t.seq = s.seq
             \/ /\ "close" \in HandlerActs[h]
                /\ t.sent = s.sent /\ Silent(segs) /\ t.state = "FIN_WAIT1"
             \/ /\ "reply" \in HandlerActs[h]
                /\ s.state = "ESTABLISHED" /\ t.state = "ESTABLISHED"
                /\ \E data \in Payloads :
                     /\ t.sent = Append(s.sent, data)
                     /\ t.seq = s.seq + data.text + data.zeros
                     /\ \A i \in DOMAIN segs : segs[i].flags = {"PSH", "ACK"} =>
                          segs[i].seq = s.seq /\ segs[i].data = data
      PROVE  Evolves(h, k, t, segs)
  <2>1. t.seq > Isn
    BY <1>2, <1>5, IsnAssumption, SMTT(30) DEF SocketSet, IsnAssumption
  <2>2. Kept(s, t) /\ SocketOK(h, t)
    BY <1>2, <1>3, <1>4, <1>5, <2>1, WellConnected
  <2>3. Gets(h, s, t, segs)
    BY <1>2, <1>4, <1>5 DEF Gets
  <2>4. StillCloses(s, t)
    BY <1>5, ClosesOn DEF Closing
  <2> QED
    BY <1>2, <1>5, <2>2, <2>3, <2>4, AnswerEvolves
<1>6. ASSUME NEW t, t = Got(s, given), Answer(h, k, t, <<Segment(h, t, {"ACK"}, NoData)>>)
      PROVE  \E segs : Evolves(h, k, t, segs)
  <2> DEFINE r == Segment(h, t, {"ACK"}, NoData)
  <2>1. /\ t \in SocketSet /\ t.state = s.state /\ t.lport = s.lport /\ t.rhost = s.rhost
        /\ t.rport = s.rport /\ t.ack = a /\ t.got = Append(s.got, given)
        /\ t.sent = s.sent /\ t.seq = s.seq /\ t.seq >= s.seq /\ t.closing = s.closing
    <3>1. t.seq = s.seq /\ s.seq \in Nat
      BY <1>2, <1>4, <1>6, GotTyped DEF SocketSet
    <3> QED
      BY <1>2, <1>4, <1>6, <3>1, GotTyped, SMTT(30) DEF a
  <2>2. Past(t) /\ t.state # "SYN_RECEIVED"
    BY <1>2, <2>1 DEF Past
  <2>3. r \in SegmentSet /\ r.flags # {"PSH", "ACK"} /\ NewSegment(h, t, r)
    BY <1>3, <2>1, <2>2, ReplyOK
  <2>4. Answer(h, k, t, <<r>>)
    BY <1>6, SMTT(30)
  <2> HIDE DEF r
  <2>5. /\ <<r>> \in Seq(SegmentSet) /\ Silent(<<r>>)
        /\ \A i \in DOMAIN <<r>> : NewSegment(h, t, <<r>>[i])
    BY <2>3, SendsOne, SMTT(30) DEF Silent
  <2> QED
    BY <1>5, <2>1, <2>2, <2>4, <2>5
<1>7. ASSUME s.state = "ESTABLISHED", "reply" \in HandlerActs[h], NEW data \in Payloads,
             NEW t, t = Got(Sent(s, data), given),
             Answer(h, k, t, <<Segment(h, s, {"PSH", "ACK"}, data), Segment(h, t, {"ACK"}, NoData)>>)
      PROVE  \E segs : Evolves(h, k, t, segs)
  <2> DEFINE q == Segment(h, s, {"PSH", "ACK"}, data)
             r == Segment(h, t, {"ACK"}, NoData)
             u == Sent(s, data)
  <2>1. data \in Data
    BY FlagsTyped
  <2>2. /\ u \in SocketSet /\ u.state = s.state /\ u.lport = s.lport /\ u.rhost = s.rhost
        /\ u.rport = s.rport /\ u.ack = s.ack /\ u.got = s.got
        /\ u.sent = Append(s.sent, data) /\ u.seq = s.seq + data.text + data.zeros
        /\ u.closing = s.closing
    BY <1>2, <2>1, SentTyped
  <2>3. t = Got(u, given)
    BY <1>7
  <2> HIDE DEF u
  <2>4. /\ t \in SocketSet /\ t.state = s.state /\ t.lport = s.lport /\ t.rhost = s.rhost
        /\ t.rport = s.rport /\ t.ack = a /\ t.got = Append(s.got, given)
        /\ t.sent = Append(s.sent, data) /\ t.seq = s.seq + data.text + data.zeros
        /\ t.closing = s.closing
    BY <1>4, <2>2, <2>3, GotTyped, SMTT(30) DEF a
  <2>5. t.seq >= s.seq /\ s.seq + data.text + data.zeros <= t.seq
    <3>1. s.seq \in Nat /\ data.text \in Nat /\ data.zeros \in Nat
      BY <1>2, <2>1 DEF SocketSet, Data
    <3> QED
      BY <2>4, <3>1
  <2>6. Past(t) /\ t.state # "SYN_RECEIVED" /\ t.state = "ESTABLISHED"
    BY <1>7, <2>4 DEF Past
  <2>7. r \in SegmentSet /\ r.flags # {"PSH", "ACK"} /\ NewSegment(h, t, r)
    BY <1>3, <2>4, <2>6, ReplyOK
  <2>8. q \in SegmentSet /\ NewSegment(h, t, q)
    <3>1. {"PSH", "ACK"} \in Flags /\ {"PSH", "ACK"} \notin {{"SYN"}, {"SYN", "ACK"}}
      BY FlagsTyped
    <3> QED
      BY <1>2, <1>3, <2>1, <2>4, <2>5, <2>6, <3>1, NewSegmentOK
  <2>9. q.seq = s.seq /\ q.data = data
    BY DEF Segment
  <2>10. Answer(h, k, t, <<q, r>>)
    BY <1>7
  <2> HIDE DEF q, r
  <2>11. /\ <<q, r>> \in Seq(SegmentSet) /\ \A i \in DOMAIN <<q, r>> : NewSegment(h, t, <<q, r>>[i])
    BY <2>7, <2>8, SendsTwo
  <2>12. \A i \in DOMAIN <<q, r>> : <<q, r>>[i].flags = {"PSH", "ACK"} =>
           <<q, r>>[i].seq = s.seq /\ <<q, r>>[i].data = data
    BY <2>7, <2>9
  <2> QED
    BY <1>5, <1>7, <2>4, <2>5, <2>6, <2>10, <2>11, <2>12
<1>8. ASSUME s.state = "ESTABLISHED", "close" \in HandlerActs[h],
             NEW t, t = Got(Finished(s), given),
             Answer(h, k, t, <<Segment(h, s, {"FIN", "ACK"}, NoData), Segment(h, t, {"ACK"}, NoData)>>)
      PROVE  \E segs : Evolves(h, k, t, segs)
  <2> DEFINE q == Segment(h, s, {"FIN", "ACK"}, NoData)
             r == Segment(h, t, {"ACK"}, NoData)
             u == Finished(s)
  <2>1. /\ u \in SocketSet /\ u.state = "FIN_WAIT1" /\ u.lport = s.lport /\ u.rhost = s.rhost
        /\ u.rport = s.rport /\ u.ack = s.ack /\ u.got = s.got
        /\ u.sent = s.sent /\ u.seq = s.seq + 1 /\ u.closing = s.closing
    BY <1>2, FinishedTyped
  <2>2. t = Got(u, given)
    BY <1>8
  <2> HIDE DEF u
  <2>3. /\ t \in SocketSet /\ t.state = "FIN_WAIT1" /\ t.lport = s.lport /\ t.rhost = s.rhost
        /\ t.rport = s.rport /\ t.ack = a /\ t.got = Append(s.got, given)
        /\ t.sent = s.sent /\ t.seq = s.seq + 1 /\ t.closing = s.closing
    <3>1. given \in Data
      BY <1>4
    <3>2. /\ t \in SocketSet /\ t.state = u.state /\ t.lport = u.lport /\ t.rhost = u.rhost
          /\ t.rport = u.rport /\ t.got = Append(u.got, given)
          /\ t.sent = u.sent /\ t.seq = u.seq /\ t.closing = u.closing
          /\ t.ack = u.ack + IF given.text = 0 THEN 1 - HeaderSize ELSE given.text
      BY <2>1, <2>2, <3>1, GotTyped
    <3> QED
      BY <2>1, <3>2 DEF a
  <2>4. t.seq >= s.seq /\ s.seq + NoData.text + NoData.zeros <= t.seq
    BY <1>2, <2>3 DEF SocketSet, NoData
  <2>5. Past(t) /\ t.state # "SYN_RECEIVED"
    BY <2>3 DEF Past
  <2>6. r \in SegmentSet /\ r.flags # {"PSH", "ACK"} /\ NewSegment(h, t, r)
    BY <1>3, <2>3, <2>5, ReplyOK
  <2>7. q \in SegmentSet /\ NewSegment(h, t, q)
    <3>1. /\ {"FIN", "ACK"} \in Flags /\ {"FIN", "ACK"} \notin {{"SYN"}, {"SYN", "ACK"}, {"PSH", "ACK"}}
          /\ NoData \in Data
      BY FlagsTyped
    <3> QED
      BY <1>2, <1>3, <2>3, <2>4, <2>5, <3>1, NewSegmentOK
  <2>8. q.flags # {"PSH", "ACK"}
    BY DEF Segment
  <2>9. Answer(h, k, t, <<q, r>>)
    BY <1>8
  <2> HIDE DEF q, r
  <2>10. /\ <<q, r>> \in Seq(SegmentSet) /\ \A i \in DOMAIN <<q, r>> : NewSegment(h, t, <<q, r>>[i])
         /\ Silent(<<q, r>>)
    BY <2>6, <2>7, <2>8, SendsTwo DEF Silent
  <2> QED
    BY <1>5, <1>8, <2>3, <2>4, <2>5, <2>9, <2>10
<1> QED
  BY <1>0, <1>6, <1>7, <1>8

\* The handling of a segment is such a step, whichever branch is taken.
LEMMA HandleEvolves ==
  ASSUME TcpInv, NEW h \in Hosts, NEW m \in Arriving(net[h]), NEW k \in DOMAIN sockets[h],
         SocketFor(h, k, m), Handle(h, k, sockets[h][k], m)
  PROVE  \E t, segs : Evolves(h, k, t, segs)
  BY ResetEvolves, SynEvolves, SynAckEvolves, FinEvolves, AckEvolves, DataEvolves,
     ResetSentEvolves DEF Handle

-----------------------------------------------------------------------------
(***************************************************************************)
(* What no step undoes: a connected socket stays, with its addresses, and  *)
(* its sequence number does not go back.  So what is true of the segments  *)
(* and of the ends of the connections stays true.                          *)
(***************************************************************************)
Grows ==
  \A g \in Hosts : \A i \in DOMAIN sockets[g] :
    /\ i \in DOMAIN sockets'[g]
    /\ sockets[g][i].rhost # NoHost => Kept(sockets[g][i], sockets'[g][i])

LEMMA GrowsSegment ==
  ASSUME Types, Types', Grows, NEW h \in Hosts, NEW m \in SegmentSet, SegmentOK(h, m)
  PROVE  SegmentOK(h, m)'
<1>1. PICK j \in DOMAIN sockets[m.src] : SentBy(sockets[m.src][j], h, m)
  BY DEF SegmentOK
<1>2. m.src \in Hosts /\ m.src # NoHost /\ h # NoHost
  BY NoHostAssumption DEF SegmentSet, NoHostAssumption
<1>3. j \in DOMAIN sockets'[m.src] /\ Kept(sockets[m.src][j], sockets'[m.src][j])
  BY <1>1, <1>2 DEF Grows, SentBy, FromTo
<1>4. sockets[m.src][j].seq \in Nat /\ sockets'[m.src][j].seq \in Nat
  <2>1. sockets[m.src][j] \in SocketSet /\ sockets'[m.src][j] \in SocketSet
    BY <1>2, <1>3 DEF Types
  <2> QED
    BY <2>1 DEF SocketSet
<1>5. SentBy(sockets'[m.src][j], h, m)
  <2>1. m.seq + m.data.text + m.data.zeros \in Int /\ Isn \in Int
    BY IsnAssumption DEF SegmentSet, Data, IsnAssumption
  <2> QED
    BY <1>1, <1>3, <1>4, <2>1 DEF SentBy, FromTo, Kept
<1>6. m.flags # {"SYN"} => \E k \in DOMAIN sockets'[h] : MeantFor(sockets'[h][k], m)
  BY <1>2 DEF SegmentOK, MeantFor, FromTo, Grows, Kept
<1> QED
  BY <1>3, <1>5, <1>6 DEF SegmentOK

LEMMA GrowsSocket ==
  ASSUME Types, Types', Grows, NEW h \in Hosts, NEW s \in SocketSet, s.state \in Open => s.rhost # NoHost,
         SocketOK(h, s)
  PROVE  SocketOK(h, s)'
<1>1. SUFFICES ASSUME s.state \in Open
               PROVE  \E j \in DOMAIN sockets'[s.rhost] : Agrees(sockets'[s.rhost][j], h, s)
  BY DEF SocketOK
<1>2. PICK j \in DOMAIN sockets[s.rhost] : Agrees(sockets[s.rhost][j], h, s)
  BY <1>1 DEF SocketOK
<1>3. s.rhost \in Hosts /\ h # NoHost /\ s.ack \in Int /\ Isn \in Int
  BY <1>1, NoHostAssumption, IsnAssumption DEF SocketSet, NoHostAssumption, IsnAssumption
<1>4. j \in DOMAIN sockets'[s.rhost] /\ Kept(sockets[s.rhost][j], sockets'[s.rhost][j])
  BY <1>2, <1>3 DEF Grows, Agrees, FromTo
<1>5. sockets[s.rhost][j].seq \in Nat /\ sockets'[s.rhost][j].seq \in Nat
  <2>1. sockets[s.rhost][j] \in SocketSet /\ sockets'[s.rhost][j] \in SocketSet
    BY <1>3, <1>4 DEF Types
  <2> QED
    BY <2>1 DEF SocketSet
<1>6. Agrees(sockets'[s.rhost][j], h, s)
  BY <1>2, <1>3, <1>4, <1>5 DEF Agrees, FromTo, Kept
<1> QED
  BY <1>4, <1>6

LEMMA GrowsClosing ==
  ASSUME Grows, NEW h \in Hosts, NEW s \in SocketSet, NEW t, ClosingOK(h, s),
         s.state # "LISTEN" => s.rhost \in Hosts,
         s.state = "ESTABLISHED" =>
           \E j \in DOMAIN sockets[s.rhost] :
             FromTo(sockets[s.rhost][j], h, s.rport, s.lport) /\ Past(sockets[s.rhost][j]),
         StillCloses(s, t), s.state # "LISTEN" => Kept(s, t)
  PROVE  t.closing =>
           /\ t.state \in Closing
           /\ \E j \in DOMAIN sockets'[t.rhost] :
                FromTo(sockets'[t.rhost][j], h, t.rport, t.lport) /\ Past(sockets'[t.rhost][j])
<1> SUFFICES ASSUME t.closing
             PROVE  /\ t.state \in Closing
                    /\ \E j \in DOMAIN sockets'[t.rhost] :
                         /\ FromTo(sockets'[t.rhost][j], h, t.rport, t.lport)
                         /\ Past(sockets'[t.rhost][j])
  OBVIOUS
<1>1. t.state \in Closing /\ (s.closing \/ s.state = "ESTABLISHED") /\ s.state # "LISTEN"
  BY DEF StillCloses, ClosingOK, Closing
<1>2. s.rhost \in Hosts /\ t.rhost = s.rhost /\ t.lport = s.lport /\ t.rport = s.rport
  BY <1>1 DEF Kept
<1>3. PICK j \in DOMAIN sockets[s.rhost] :
        FromTo(sockets[s.rhost][j], h, s.rport, s.lport) /\ Past(sockets[s.rhost][j])
  BY <1>1 DEF ClosingOK
<1>4. j \in DOMAIN sockets'[s.rhost] /\ Kept(sockets[s.rhost][j], sockets'[s.rhost][j])
  BY <1>2, <1>3, NoHostAssumption DEF Grows, FromTo, NoHostAssumption
<1>5. FromTo(sockets'[s.rhost][j], h, s.rport, s.lport) /\ Past(sockets'[s.rhost][j])
  BY <1>3, <1>4 DEF Kept, FromTo
<1> QED
  BY <1>1, <1>2, <1>4, <1>5

\* What GrowsClosing asks of a socket.
LEMMA ClosingPeer ==
  ASSUME TcpInv, NEW h \in Hosts, NEW k \in DOMAIN sockets[h], NEW s, s = sockets[h][k]
  PROVE  /\ s \in SocketSet /\ ClosingOK(h, s)
         /\ s.state # "LISTEN" => s.rhost \in Hosts
         /\ s.state = "ESTABLISHED" =>
              \E j \in DOMAIN sockets[s.rhost] :
                FromTo(sockets[s.rhost][j], h, s.rport, s.lport) /\ Past(sockets[s.rhost][j])
<1>1. /\ s \in SocketSet /\ ClosingOK(h, s) /\ SocketOK(h, s)
      /\ (s.rhost = NoHost <=> s.state = "LISTEN")
  BY SocketTyped DEF TcpInv, Connections, Peers
<1>2. s.state # "LISTEN" => s.rhost \in Hosts
  BY <1>1 DEF SocketSet
<1>3. ASSUME s.state = "ESTABLISHED"
      PROVE  \E j \in DOMAIN sockets[s.rhost] :
               FromTo(sockets[s.rhost][j], h, s.rport, s.lport) /\ Past(sockets[s.rhost][j])
  BY <1>1, <1>3 DEF SocketOK, Agrees, Open, Half
<1> QED
  BY <1>1, <1>2, <1>3

LEMMA GrowsSend ==
  ASSUME Types, Grows, NEW h \in Hosts, NEW s \in SocketSet, NEW t \in SocketSet, NEW m \in SegmentSet,
         s.rhost # NoHost, Kept(s, t), SendOK(h, s, m)
  PROVE  SendOK(h, t, m)'
<1>1. /\ m.src = h /\ m.sport = s.lport /\ m.dport = s.rport /\ m.flags = {"PSH", "ACK"}
      /\ m.seq <= s.seq /\ Past(s)
  BY DEF SendOK
<1>2. m.seq <= t.seq
  BY <1>1 DEF Kept, SocketSet, SegmentSet
<1>3. PICK j \in DOMAIN sockets[s.rhost] :
        FromTo(sockets[s.rhost][j], h, s.rport, s.lport) /\ Past(sockets[s.rhost][j])
  BY DEF SendOK
<1>4. s.rhost \in Hosts /\ h # NoHost
  BY NoHostAssumption DEF SocketSet, NoHostAssumption
<1>5. j \in DOMAIN sockets'[s.rhost] /\ Kept(sockets[s.rhost][j], sockets'[s.rhost][j])
  BY <1>3, <1>4 DEF Grows, FromTo
<1>6. FromTo(sockets'[s.rhost][j], h, s.rport, s.lport) /\ Past(sockets'[s.rhost][j])
  BY <1>3, <1>5 DEF Kept, FromTo
<1> QED
  BY <1>1, <1>2, <1>5, <1>6 DEF SendOK, Kept

-----------------------------------------------------------------------------
(***************************************************************************)
(* Every step but a Listen, a Connect and the beginning of a Send.         *)
(***************************************************************************)
LEMMA EvolvesSockets ==
  ASSUME TcpInv, NEW h \in Hosts, NEW k \in DOMAIN sockets[h], NEW t, NEW segs, Evolves(h, k, t, segs)
  PROVE  /\ sockets' \in [Hosts -> Seq(SocketSet)]
         /\ \A g \in Hosts : /\ DOMAIN sockets'[g] = DOMAIN sockets[g]
                             /\ Len(sockets'[g]) = Len(sockets[g])
         /\ sockets'[h][k] = t
         /\ \A g \in Hosts : \A i \in DOMAIN sockets[g] :
              g # h \/ i # k => sockets'[g][i] = sockets[g][i]
  BY SocketUpdate DEF Evolves, TcpInv

LEMMA EvolvesTypes ==
  ASSUME TcpInv, NEW h \in Hosts, NEW k \in DOMAIN sockets[h], NEW t, NEW segs, Evolves(h, k, t, segs)
  PROVE  Types'
<1>1. sockets' \in [Hosts -> Seq(SocketSet)]
  BY EvolvesSockets
<1>2. sending' \in [Hosts -> {NoSend} \cup [sock : Nat \ {0}, seg : SegmentSet]]
  BY DEF Evolves, TcpInv, Types
<1>3. net' \in [Hosts -> Queues] /\ freePort' = freePort
  BY DEF Evolves, Transmits
<1> QED
  BY <1>1, <1>2, <1>3 DEF Types, TcpInv, Queues

LEMMA EvolvesGrows ==
  ASSUME TcpInv, NEW h \in Hosts, NEW k \in DOMAIN sockets[h], NEW t, NEW segs, Evolves(h, k, t, segs)
  PROVE  Grows
<1> SUFFICES ASSUME NEW g \in Hosts, NEW i \in DOMAIN sockets[g], sockets[g][i].rhost # NoHost
             PROVE  Kept(sockets[g][i], sockets'[g][i])
  BY EvolvesSockets DEF Grows
<1>1. sockets[g][i].seq \in Nat
  BY SocketTyped DEF TcpInv
<1>2. CASE g = h /\ i = k
  <2>1. ~Accepted(h, k, t)
    BY <1>2 DEF Accepted, TcpInv, Peers
  <2>2. sockets'[h][k] = t
    BY EvolvesSockets
  <2> QED
    BY <1>2, <2>1, <2>2 DEF Evolves
<1>3. CASE ~(g = h /\ i = k)
  <2>1. sockets'[g][i] = sockets[g][i]
    BY <1>3, EvolvesSockets
  <2> QED
    BY <1>1, <2>1 DEF Kept
<1> QED
  BY <1>2, <1>3

LEMMA EvolvesPeers ==
  ASSUME TcpInv, NEW h \in Hosts, NEW k \in DOMAIN sockets[h], NEW t, NEW segs, Evolves(h, k, t, segs)
  PROVE  Peers'
<1>1. t.rhost # h /\ (t.rhost = NoHost <=> t.state = "LISTEN")
  <2>1. t.rhost # h
    BY DEF Evolves
  <2>2. CASE Kept(sockets[h][k], t)
    BY <2>2, <2>1 DEF Kept, TcpInv, Peers
  <2>3. CASE Accepted(h, k, t)
    BY <2>3, <2>1, Arrived, NoHostAssumption DEF Accepted, FromTo, SegmentSet, NoHostAssumption
  <2> QED
    BY <2>1, <2>2, <2>3 DEF Evolves
<1>2. ASSUME NEW g \in Hosts, NEW i \in DOMAIN sockets'[g]
      PROVE  LET s == sockets'[g][i]
             IN  s.rhost # g /\ (s.rhost = NoHost <=> s.state = "LISTEN")
  <2>1. i \in DOMAIN sockets[g]
    BY EvolvesSockets
  <2> QED
    BY <1>1, <2>1, EvolvesSockets DEF TcpInv, Peers
<1>3. ASSUME NEW g \in Hosts, NEW m \in InTransit(net'[g])
      PROVE  m.src # g
  <2>1. CASE m \in InTransit(net[g])
    BY <2>1 DEF TcpInv, Peers
  <2>2. CASE g = t.rhost /\ m \in ToSet(segs)
    BY <1>1, <2>2 DEF ToSet, Evolves, NewSegment
  <2> QED
    BY <1>3, <2>1, <2>2 DEF Evolves, Transmits
<1>4. ASSUME NEW g \in Hosts, sending'[g] # NoSend
      PROVE  sending'[g].sock \in DOMAIN sockets'[g]
  <2>1. sending'[g] = sending[g]
    BY <1>4 DEF Evolves, TcpInv, Types
  <2> QED
    BY <1>4, <2>1, EvolvesSockets DEF TcpInv, Peers
<1> QED
  BY <1>2, <1>3, <1>4 DEF Peers

LEMMA EvolvesAddresses ==
  ASSUME TcpInv, NEW h \in Hosts, NEW k \in DOMAIN sockets[h], NEW t, NEW segs, Evolves(h, k, t, segs)
  PROVE  Addresses'
<1>1. t.lport = sockets[h][k].lport /\ (t.state = "LISTEN" => sockets[h][k].state = "LISTEN")
  BY DEF Evolves, Kept, Accepted, FromTo
<1>2. SUFFICES ASSUME NEW g \in Hosts
               PROVE  /\ Len(sockets'[g]) <= MaxSockets[g]
                      /\ \E n \in 0 .. Len(sockets'[g]) :
                           /\ freePort'[g] = PortAt(n)
                           /\ \A i \in DOMAIN sockets'[g] :
                                \/ g \in Servers /\ sockets'[g][i].lport = ServerPort
                                \/ /\ g \in Clients
                                   /\ sockets'[g][i].state # "LISTEN"
                                   /\ \E z \in 0 .. n - 1 : sockets'[g][i].lport = PortAt(z)
  BY DEF Addresses
<1>3. /\ Len(sockets'[g]) = Len(sockets[g]) /\ DOMAIN sockets'[g] = DOMAIN sockets[g]
      /\ freePort' = freePort
  BY EvolvesSockets DEF Evolves
<1>4. ASSUME NEW i \in DOMAIN sockets[g]
      PROVE  /\ sockets'[g][i].lport = sockets[g][i].lport
             /\ sockets'[g][i].state = "LISTEN" => sockets[g][i].state = "LISTEN"
  BY <1>1, EvolvesSockets
<1>5. Len(sockets[g]) <= MaxSockets[g]
  BY DEF TcpInv, Addresses
<1>6. PICK n \in 0 .. Len(sockets[g]) :
        /\ freePort[g] = PortAt(n)
        /\ \A i \in DOMAIN sockets[g] :
             \/ g \in Servers /\ sockets[g][i].lport = ServerPort
             \/ /\ g \in Clients
                /\ sockets[g][i].state # "LISTEN"
                /\ \E z \in 0 .. n - 1 : sockets[g][i].lport = PortAt(z)
  BY DEF TcpInv, Addresses
<1>7. \A i \in DOMAIN sockets'[g] :
        \/ g \in Servers /\ sockets'[g][i].lport = ServerPort
        \/ /\ g \in Clients
           /\ sockets'[g][i].state # "LISTEN"
           /\ \E z \in 0 .. n - 1 : sockets'[g][i].lport = PortAt(z)
  BY <1>3, <1>4, <1>6
<1> QED
  BY <1>3, <1>5, <1>6, <1>7

(***************************************************************************)
(* The socket that accepts a connection is the oldest that listens, and no *)
(* other has the connection: an older one would have been taken, and the   *)
(* younger ones on the port all listen.                                    *)
(***************************************************************************)
LEMMA AcceptedIsNew ==
  ASSUME TcpInv, NEW h \in Hosts, NEW k \in DOMAIN sockets[h], NEW t, Accepted(h, k, t)
  PROVE  /\ \A i \in DOMAIN sockets[h] : i # k =>
              <<sockets[h][i].lport, sockets[h][i].rhost, sockets[h][i].rport>>
                # <<t.lport, t.rhost, t.rport>>
         /\ \A i \in DOMAIN sockets[h] :
              sockets[h][i].state = "LISTEN" /\ sockets[h][i].lport = t.lport => i >= k
         /\ t.lport = sockets[h][k].lport /\ t.rhost # NoHost
<1>1. PICK m \in Arriving(net[h]) :
        SocketFor(h, k, m) /\ FromTo(t, m.src, sockets[h][k].lport, m.sport)
  BY DEF Accepted
<1>2. /\ m \in SegmentSet /\ m.flags = {"SYN"} /\ sockets[h][k].lport = m.dport
      /\ sockets[h][k].state = "LISTEN"
  BY <1>1, Arrived DEF Accepted
<1>3. m.flags \cap {"SYN", "ACK"} = {"SYN"} /\ m.src # NoHost
  BY <1>2, NoHostAssumption DEF SegmentSet, NoHostAssumption
<1>4. k \in Int /\ \A i \in DOMAIN sockets[h] : i \in Int
  BY DEF TcpInv, Types
<1>5. ASSUME NEW i \in DOMAIN sockets[h], i # k,
             FromTo(sockets[h][i], t.rhost, t.lport, t.rport)
      PROVE  FALSE
  <2>1. Matches(h, i, m)
    BY <1>1, <1>2, <1>5 DEF Matches, FromTo
  <2>2. i > k
    BY <1>1, <1>4, <1>5, <2>1 DEF SocketFor
  <2>3. sockets[h][i].state = "LISTEN"
    BY <1>1, <1>2, <1>5, <2>2 DEF TcpInv, ListenersLast, FromTo
  <2>4. sockets[h][i].rhost = NoHost
    BY <2>3 DEF TcpInv, Peers
  <2> QED
    BY <1>1, <1>3, <1>5, <2>4 DEF FromTo
<1>6. ASSUME NEW i \in DOMAIN sockets[h], sockets[h][i].state = "LISTEN",
             sockets[h][i].lport = t.lport
      PROVE  i >= k
  <2>1. Matches(h, i, m)
    BY <1>1, <1>2, <1>3, <1>6 DEF Matches, FromTo
  <2> QED
    BY <1>1, <1>4, <2>1 DEF SocketFor
<1> QED
  BY <1>1, <1>3, <1>5, <1>6 DEF FromTo

LEMMA EvolvesListeners ==
  ASSUME TcpInv, NEW h \in Hosts, NEW k \in DOMAIN sockets[h], NEW t, NEW segs, Evolves(h, k, t, segs)
  PROVE  ListenersLast'
<1> SUFFICES ASSUME NEW g \in Hosts, NEW i \in DOMAIN sockets'[g], NEW j \in DOMAIN sockets'[g],
                    i < j, sockets'[g][i].state = "LISTEN",
                    sockets'[g][j].lport = sockets'[g][i].lport
             PROVE  sockets'[g][j].state = "LISTEN"
  BY DEF ListenersLast
<1>1. i \in DOMAIN sockets[g] /\ j \in DOMAIN sockets[g] /\ i \in Int /\ j \in Int /\ k \in Int
  BY EvolvesSockets DEF TcpInv, Types
<1>2. t.lport = sockets[h][k].lport /\ (t.state = "LISTEN" => sockets[h][k].state = "LISTEN")
  BY DEF Evolves, Kept, Accepted, FromTo
<1>3. /\ sockets[g][i].state = "LISTEN"
      /\ sockets'[g][i].lport = sockets[g][i].lport
      /\ sockets'[g][j].lport = sockets[g][j].lport
  BY <1>1, <1>2, EvolvesSockets
<1>4. sockets[g][j].state = "LISTEN"
  BY <1>1, <1>3 DEF TcpInv, ListenersLast
<1>5. CASE g = h /\ j = k
  <2>1. ~Accepted(h, k, t)
    BY <1>1, <1>3, <1>5, AcceptedIsNew
  <2> QED
    BY <1>4, <1>5, <2>1, EvolvesSockets DEF Evolves, Kept
<1>6. CASE ~(g = h /\ j = k)
  BY <1>1, <1>4, <1>6, EvolvesSockets
<1> QED
  BY <1>5, <1>6

LEMMA EvolvesUnique ==
  ASSUME TcpInv, NEW h \in Hosts, NEW k \in DOMAIN sockets[h], NEW t, NEW segs, Evolves(h, k, t, segs)
  PROVE  UniqueConnection'
<1> SUFFICES ASSUME NEW g \in Hosts, NEW i \in DOMAIN sockets'[g], NEW j \in DOMAIN sockets'[g],
                    i # j, sockets'[g][i].rhost # NoHost
             PROVE  <<sockets'[g][i].lport, sockets'[g][i].rhost, sockets'[g][i].rport>>
                      # <<sockets'[g][j].lport, sockets'[g][j].rhost, sockets'[g][j].rport>>
  BY DEF UniqueConnection
<1>1. i \in DOMAIN sockets[g] /\ j \in DOMAIN sockets[g]
  BY EvolvesSockets
<1>2. CASE g = h /\ Accepted(h, k, t)
  <2>1. CASE i = k
    BY <1>1, <1>2, <2>1, AcceptedIsNew, EvolvesSockets
  <2>2. CASE j = k
    BY <1>1, <1>2, <2>2, AcceptedIsNew, EvolvesSockets
  <2>3. CASE i # k /\ j # k
    BY <1>1, <2>3, EvolvesSockets DEF TcpInv, UniqueConnection
  <2> QED
    BY <2>1, <2>2, <2>3
<1>3. CASE g # h \/ Kept(sockets[h][k], t)
  <2>1. \A z \in DOMAIN sockets[g] :
          /\ sockets'[g][z].lport = sockets[g][z].lport
          /\ sockets'[g][z].rhost = sockets[g][z].rhost
          /\ sockets'[g][z].rport = sockets[g][z].rport
    BY <1>3, EvolvesSockets DEF Kept
  <2> QED
    BY <1>1, <2>1 DEF TcpInv, UniqueConnection
<1> QED
  BY <1>2, <1>3 DEF Evolves

LEMMA EvolvesConnections ==
  ASSUME TcpInv, NEW h \in Hosts, NEW k \in DOMAIN sockets[h], NEW t, NEW segs, Evolves(h, k, t, segs)
  PROVE  Connections'
<1>1. Types /\ Types' /\ Grows /\ Peers'
  BY EvolvesTypes, EvolvesGrows, EvolvesPeers DEF TcpInv
<1>2. ASSUME NEW g \in Hosts, NEW m \in InTransit(net'[g])
      PROVE  SegmentOK(g, m)'
  <2>1. CASE m \in InTransit(net[g])
    <3>1. SegmentOK(g, m)
      BY <2>1 DEF TcpInv, Connections
    <3>2. m \in SegmentSet
      <4>1. net[g] \in Queues
        BY DEF TcpInv, Types, Queues
      <4> QED
        BY <2>1, <4>1, InTransitTyped
    <3> QED
      BY <1>1, <3>1, <3>2, GrowsSegment
  <2>2. CASE g = t.rhost /\ m \in ToSet(segs)
    <3>1. PICK i \in DOMAIN segs : m = segs[i]
      BY <2>2 DEF ToSet
    <3>2. NewSegment(h, t, m) /\ m \in SegmentSet
      BY <3>1 DEF Evolves
    <3>3. SentBy(sockets'[h][k], g, m) /\ m.src = h /\ k \in DOMAIN sockets'[h]
      BY <2>2, <3>2, EvolvesSockets DEF NewSegment
    <3>4. PICK j \in DOMAIN sockets[g] : MeantFor(sockets[g][j], m)
      BY <2>2, <3>2 DEF NewSegment
    <3>5. sockets[g][j].rhost # NoHost
      BY <3>3, <3>4, NoHostAssumption DEF MeantFor, FromTo, NoHostAssumption
    <3>6. j \in DOMAIN sockets'[g] /\ Kept(sockets[g][j], sockets'[g][j])
      BY <1>1, <3>4, <3>5 DEF Grows
    <3>7. MeantFor(sockets'[g][j], m)
      BY <3>4, <3>6 DEF MeantFor, FromTo, Kept
    <3> QED
      BY <3>3, <3>6, <3>7 DEF SegmentOK
  <2> QED
    BY <1>2, <2>1, <2>2 DEF Evolves, Transmits
<1>3. ASSUME NEW g \in Hosts, NEW i \in DOMAIN sockets'[g]
      PROVE  SocketOK(g, sockets[g][i])'
  <2>1. ASSUME NEW s \in SocketSet, SocketOK(g, s), s = sockets'[g][i]
        PROVE  SocketOK(g, sockets[g][i])'
    <3>1. s.state \in Open => s.rhost # NoHost
      BY <1>1, <2>1 DEF Peers, Open, Half
    <3>2. SocketOK(g, s)'
      BY <1>1, <2>1, <3>1, GrowsSocket
    <3> QED
      BY <2>1, <3>2
  <2>2. i \in DOMAIN sockets[g]
    BY EvolvesSockets
  <2>3. CASE g = h /\ i = k
    BY <2>1, <2>3, EvolvesSockets, ZenonT(60) DEF Evolves
  <2>4. CASE ~(g = h /\ i = k)
    BY <2>1, <2>2, <2>4, EvolvesSockets, SocketTyped DEF TcpInv, Connections
  <2> QED
    BY <2>3, <2>4
<1>4. ASSUME NEW g \in Hosts, sending'[g] # NoSend
      PROVE  SendOK(g, sockets[g][sending[g].sock], sending[g].seg)'
  <2>1. sending'[g] = sending[g]
    BY <1>4 DEF Evolves, TcpInv, Types
  <2> DEFINE i == sending[g].sock
             s == sockets[g][i]
             u == sockets'[g][i]
  <2>2. /\ i \in DOMAIN sockets[g] /\ SendOK(g, s, sending[g].seg)
        /\ sending[g].seg \in SegmentSet
    BY <1>4, <2>1 DEF TcpInv, Types, Peers, Connections
  <2>3. s \in SocketSet /\ s.rhost # NoHost
    BY <2>2, SocketTyped, ZenonT(60) DEF SendOK, Past, TcpInv, Peers
  <2>4. Kept(s, u) /\ u \in SocketSet
    BY <1>1, <2>2, <2>3 DEF Grows, Types
  <2> HIDE DEF s, u
  <2>5. ASSUME NEW m \in SegmentSet, m = sending[g].seg, NEW w, w = u
        PROVE  SendOK(g, w, m)'
    BY <1>1, <2>2, <2>3, <2>4, <2>5, GrowsSend, SMTT(30)
  <2> QED
    BY <2>1, <2>2, <2>5 DEF u
<1>5. ASSUME NEW g \in Hosts, NEW i \in DOMAIN sockets'[g]
      PROVE  ClosingOK(g, sockets[g][i])'
  <2>1. i \in DOMAIN sockets[g]
    BY EvolvesSockets
  <2>2. PICK s : s = sockets[g][i]
    OBVIOUS
  <2>3. PICK w : w = sockets'[g][i]
    OBVIOUS
  <2>4. StillCloses(s, w) /\ (s.state # "LISTEN" => Kept(s, w))
    <3>1. CASE g = h /\ i = k
      BY <2>2, <2>3, <3>1, EvolvesSockets DEF Evolves, Accepted
    <3>2. CASE ~(g = h /\ i = k)
      <4>1. w = s
        BY <2>1, <2>2, <2>3, <3>2, EvolvesSockets
      <4>2. s \in SocketSet /\ ClosingOK(g, s)
        BY <2>1, <2>2, ClosingPeer
      <4> QED
        BY <4>1, <4>2 DEF Kept, StillCloses, ClosingOK, SocketSet
    <3> QED
      BY <3>1, <3>2
  <2> QED
    BY <1>1, <2>1, <2>2, <2>3, <2>4, ClosingPeer, GrowsClosing DEF ClosingOK
<1> QED
  BY <1>2, <1>3, <1>4, <1>5 DEF Connections

-----------------------------------------------------------------------------
(***************************************************************************)
(* A Listen or a Connect appends the socket t.                             *)
(***************************************************************************)
LEMMA WrappedTyped ==
  ASSUME NEW p \in Nat
  PROVE  Wrapped(p) \in UInt16
  BY SMT DEF Wrapped, UInt16

LEMMA PortTyped ==
  ASSUME NEW n \in Nat
  PROVE  PortAt(n) \in UInt16
<1>1. 1024 + n \in Nat
  BY SMT
<1> QED
  BY <1>1, WrappedTyped DEF PortAt

LEMMA PortNext ==
  ASSUME NEW n \in Nat
  PROVE  NextPort(PortAt(n)) = PortAt(n + 1)
  BY SMT DEF PortAt, NextPort, Wrapped

LEMMA UInt16Bounded ==
  ASSUME NEW x \in UInt16
  PROVE  x \in Nat /\ x < 65536
  BY SMT DEF UInt16

LEMMA WrappedDiffer ==
  ASSUME NEW n \in Nat, NEW i \in Nat, i < n, n < 65536
  PROVE  PortAt(i) # PortAt(n)
  BY SMT DEF PortAt, Wrapped

LEMMA PortsDiffer ==
  ASSUME NEW x \in UInt16, NEW n \in 0 .. x, NEW i \in 0 .. n - 1
  PROVE  PortAt(i) # PortAt(n)
<1>1. n \in Nat /\ i \in Nat /\ i < n /\ n < 65536
  BY UInt16Bounded, SMT
<1> QED
  BY <1>1, WrappedDiffer, SMT

\* What is known of a host's ports.
LEMMA HostPorts ==
  ASSUME TcpInv, NEW h \in Hosts
  PROVE  /\ Len(sockets[h]) \in Nat /\ DOMAIN sockets[h] = 1 .. Len(sockets[h])
         /\ MaxSockets[h] \in Nat /\ MaxSockets[h] \in UInt16
         /\ Len(sockets[h]) <= MaxSockets[h]
         /\ \E n \in 0 .. Len(sockets[h]) :
              /\ freePort[h] = PortAt(n)
              /\ \A k \in DOMAIN sockets[h] :
                   \/ h \in Servers /\ sockets[h][k].lport = ServerPort
                   \/ /\ h \in Clients
                      /\ sockets[h][k].state # "LISTEN"
                      /\ \E i \in 0 .. n - 1 : sockets[h][k].lport = PortAt(i)
<1>1. Len(sockets[h]) \in Nat /\ DOMAIN sockets[h] = 1 .. Len(sockets[h])
  BY DEF TcpInv, Types
<1>2. MaxSockets[h] \in UInt16
  BY SocketsAssumption DEF SocketsAssumption
<1>3. MaxSockets[h] \in Nat
  BY <1>2, UInt16Bounded
<1> QED
  BY <1>1, <1>2, <1>3 DEF TcpInv, Addresses

\* freePort is no port of the host yet.
LEMMA PortIsFree ==
  ASSUME TcpInv, NEW h \in Clients, h \in Hosts, Len(sockets[h]) < MaxSockets[h],
         NEW k \in DOMAIN sockets[h]
  PROVE  sockets[h][k].lport # freePort[h]
<1>1. PICK n \in 0 .. Len(sockets[h]) :
        /\ freePort[h] = PortAt(n)
        /\ \/ h \in Servers /\ sockets[h][k].lport = ServerPort
           \/ \E i \in 0 .. n - 1 : sockets[h][k].lport = PortAt(i)
  BY HostPorts
<1>2. n \in 0 .. MaxSockets[h] /\ n \in 0 .. MaxSockets[h] - 1 /\ MaxSockets[h] \in UInt16
  BY <1>1, HostPorts
<1>3. CASE h \in Servers /\ sockets[h][k].lport = ServerPort
  BY <1>1, <1>2, <1>3, OwnPortAssumption DEF OwnPortAssumption
<1>4. CASE \E i \in 0 .. n - 1 : sockets[h][k].lport = PortAt(i)
  <2>1. PICK i \in 0 .. n - 1 : sockets[h][k].lport = PortAt(i)
    BY <1>4
  <2> QED
    BY <1>1, <1>2, <2>1, PortsDiffer
<1> QED
  BY <1>1, <1>3, <1>4

Opens(h, t, segs) ==
  /\ Len(sockets[h]) < MaxSockets[h]
  /\ sockets' = [sockets EXCEPT ![h] = Append(@, t)]
  /\ sending' = sending
  /\ t \in SocketSet
  /\ t.sent = <<>> /\ t.got = <<>> /\ ~t.closing
  /\ Transmits(t, segs)
  /\ \/ /\ h \in Servers
        /\ t.state = "LISTEN" /\ t.rhost = NoHost /\ t.lport = ServerPort
        /\ segs = <<>>
        /\ freePort' = freePort
     \/ /\ h \in Clients
        /\ t.state = "SYN_SENT" /\ t.rhost \in Hosts \ {h} /\ t.lport = freePort[h]
        /\ t.seq = Isn
        /\ freePort' = [freePort EXCEPT ![h] = NextPort(@)]
        /\ segs \in Seq(SegmentSet)
        /\ \A i \in DOMAIN segs :
             /\ segs[i].src = h /\ segs[i].flags = {"SYN"}
             /\ SentBy(t, t.rhost, segs[i])

LEMMA ListenOpens ==
  ASSUME TcpInv, NEW h \in Hosts, Listen(h)
  PROVE  \E t, segs : Opens(h, t, segs)
<1> DEFINE t == Socket(h, "LISTEN", ServerPort, NoHost, NoPort)
<1>1. t \in SocketSet
  <2>1. ServerPort \in UInt16 /\ NoPort \in UInt16
    <3>1. NoPort \in UInt16
      BY SMT DEF NoPort, UInt16
    <3> QED
      BY <3>1, ServerPortAssumption DEF ServerPortAssumption
  <2>2. "LISTEN" \in SocketState
    BY DEF SocketState
  <2> QED
    BY <2>1, <2>2, NewSocketTyped
<1>2. /\ t.state = "LISTEN" /\ t.rhost = NoHost /\ t.lport = ServerPort
      /\ t.sent = <<>> /\ t.got = <<>> /\ ~t.closing
  BY DEF Socket
<1>3. sockets' = [sockets EXCEPT ![h] = Append(@, t)]
  BY DEF Listen
<1> HIDE DEF t
<1>4. net \in [Hosts -> Queues] /\ net' = net
  BY DEF Listen, TcpInv, Types, Queues
<1>5. Transmits(t, <<>>)
  BY <1>4 DEF Transmits
<1>6. /\ Len(sockets[h]) < MaxSockets[h] /\ sending' = sending
      /\ h \in Servers /\ freePort' = freePort
  BY DEF Listen
<1>7. Opens(h, t, <<>>)
  BY <1>1, <1>2, <1>3, <1>5, <1>6 DEF Opens
<1> QED
  BY <1>7

LEMMA ConnectOpens ==
  ASSUME TcpInv, NEW h \in Hosts, NEW r \in Hosts, Connect(h, r)
  PROVE  \E t, segs : Opens(h, t, segs)
<1> DEFINE t == Socket(h, "SYN_SENT", freePort[h], r, ServerPort)
           m == Segment(h, t, {"SYN"}, NoData)
<1>1. t \in SocketSet
  <2>1. "SYN_SENT" \in SocketState /\ freePort[h] \in UInt16
    BY DEF SocketState, TcpInv, Types
  <2> QED
    BY <2>1, NewSocketTyped, ServerPortAssumption DEF ServerPortAssumption
<1>2. /\ t.state = "SYN_SENT" /\ t.rhost = r /\ t.lport = freePort[h] /\ t.seq = Isn
      /\ t.sent = <<>> /\ t.got = <<>> /\ ~t.closing
  BY DEF Socket
<1>3. /\ sockets' = [sockets EXCEPT ![h] = Append(@, t)]
      /\ net' = [net EXCEPT ![r] = Put(@, <<m>>)]
      /\ h \in Clients /\ r # h /\ Len(sockets[h]) < MaxSockets[h]
      /\ freePort' = [freePort EXCEPT ![h] = NextPort(@)] /\ sending' = sending
  BY DEF Connect
<1> HIDE DEF t
<1>4. m \in SegmentSet
  BY <1>1, FlagsTyped, SegmentTyped
<1>5. SentBy(t, t.rhost, m) /\ m.src = h /\ m.flags = {"SYN"}
  <2>1. /\ m.sport = t.lport /\ m.dport = t.rport /\ m.seq = Isn /\ m.data = NoData
        /\ m.flags = {"SYN"} /\ m.src = h
    BY <1>2 DEF Segment
  <2>2. "ACK" \notin m.flags /\ Isn \in Nat
    BY <2>1, IsnAssumption DEF IsnAssumption
  <2> QED
    BY <1>2, <2>1, <2>2 DEF SentBy, FromTo, NoData
<1> HIDE DEF m
<1>6. <<m>> \in Seq(SegmentSet) /\ \A i \in DOMAIN <<m>> : <<m>>[i] = m
  BY <1>4
<1>7. Transmits(t, <<m>>)
  BY <1>1, <1>2, <1>3, <1>6, PutTransmits DEF TcpInv
<1>8. Opens(h, t, <<m>>)
  BY <1>1, <1>2, <1>3, <1>5, <1>6, <1>7 DEF Opens
<1> QED
  BY <1>8

LEMMA OpensSockets ==
  ASSUME TcpInv, NEW h \in Hosts, NEW t, NEW segs, Opens(h, t, segs)
  PROVE  /\ sockets' \in [Hosts -> Seq(SocketSet)]
         /\ \A g \in Hosts : g # h => sockets'[g] = sockets[g]
         /\ Len(sockets'[h]) = Len(sockets[h]) + 1
         /\ DOMAIN sockets'[h] = DOMAIN sockets[h] \cup {Len(sockets[h]) + 1}
         /\ \A i \in DOMAIN sockets[h] : sockets'[h][i] = sockets[h][i]
         /\ sockets'[h][Len(sockets[h]) + 1] = t
  BY SocketAdded DEF Opens, TcpInv

LEMMA OpensTypes ==
  ASSUME TcpInv, NEW h \in Hosts, NEW t, NEW segs, Opens(h, t, segs)
  PROVE  Types' /\ Grows
<1>1. freePort' \in [Hosts -> UInt16]
  <2>1. freePort \in [Hosts -> UInt16] /\ NextPort(freePort[h]) \in UInt16
    <3>1. PICK n \in Nat : freePort[h] = PortAt(n)
      BY HostPorts
    <3> QED
      BY <3>1, PortNext, PortTyped DEF TcpInv, Types
  <2> QED
    BY <2>1 DEF Opens
<1>2. net' \in [Hosts -> Queues] /\ sending' = sending
  BY DEF Opens, Transmits
<1>3. Types'
  BY <1>1, <1>2, OpensSockets DEF Types, TcpInv, Queues
<1>4. ASSUME NEW g \in Hosts, NEW i \in DOMAIN sockets[g]
      PROVE  i \in DOMAIN sockets'[g] /\ sockets'[g][i] = sockets[g][i] /\ sockets[g][i].seq \in Nat
  BY OpensSockets, SocketTyped DEF TcpInv
<1>5. Grows
  BY <1>4 DEF Grows, Kept
<1> QED
  BY <1>3, <1>5

LEMMA OpensPeers ==
  ASSUME TcpInv, NEW h \in Hosts, NEW t, NEW segs, Opens(h, t, segs)
  PROVE  Peers'
<1>1. t.rhost # h /\ (t.rhost = NoHost <=> t.state = "LISTEN")
  BY NoHostAssumption DEF Opens, NoHostAssumption
<1>2. ASSUME NEW g \in Hosts, NEW i \in DOMAIN sockets'[g]
      PROVE  LET s == sockets'[g][i]
             IN  s.rhost # g /\ (s.rhost = NoHost <=> s.state = "LISTEN")
  <2>1. CASE g = h /\ i = Len(sockets[h]) + 1
    BY <1>1, <2>1, OpensSockets
  <2>2. CASE ~(g = h /\ i = Len(sockets[h]) + 1)
    <3>1. i \in DOMAIN sockets[g] /\ sockets'[g][i] = sockets[g][i]
      BY <2>2, OpensSockets
    <3> QED
      BY <3>1 DEF TcpInv, Peers
  <2> QED
    BY <2>1, <2>2
<1>3. ASSUME NEW g \in Hosts, NEW m \in InTransit(net'[g])
      PROVE  m.src # g
  <2>1. CASE m \in InTransit(net[g])
    BY <2>1 DEF TcpInv, Peers
  <2>2. CASE g = t.rhost /\ m \in ToSet(segs)
    BY <1>1, <2>2 DEF ToSet, Opens
  <2> QED
    BY <1>3, <2>1, <2>2 DEF Opens, Transmits
<1>4. ASSUME NEW g \in Hosts, sending'[g] # NoSend
      PROVE  sending'[g].sock \in DOMAIN sockets'[g]
  BY <1>4, OpensSockets DEF Opens, TcpInv, Peers
<1> QED
  BY <1>2, <1>3, <1>4 DEF Peers

LEMMA OpensAddresses ==
  ASSUME TcpInv, NEW h \in Hosts, NEW t, NEW segs, Opens(h, t, segs)
  PROVE  Addresses'
<1>1. SUFFICES ASSUME NEW g \in Hosts
               PROVE  /\ Len(sockets'[g]) <= MaxSockets[g]
                      /\ \E n \in 0 .. Len(sockets'[g]) :
                           /\ freePort'[g] = PortAt(n)
                           /\ \A i \in DOMAIN sockets'[g] :
                                \/ g \in Servers /\ sockets'[g][i].lport = ServerPort
                                \/ /\ g \in Clients
                                   /\ sockets'[g][i].state # "LISTEN"
                                   /\ \E z \in 0 .. n - 1 : sockets'[g][i].lport = PortAt(z)
  BY DEF Addresses
<1>2. /\ Len(sockets[g]) <= MaxSockets[g] /\ Len(sockets[g]) \in Nat
      /\ MaxSockets[g] \in Nat /\ freePort \in [Hosts -> UInt16]
  BY HostPorts DEF TcpInv, Types
<1>3. PICK n \in 0 .. Len(sockets[g]) :
        /\ freePort[g] = PortAt(n)
        /\ \A i \in DOMAIN sockets[g] :
             \/ g \in Servers /\ sockets[g][i].lport = ServerPort
             \/ /\ g \in Clients
                /\ sockets[g][i].state # "LISTEN"
                /\ \E z \in 0 .. n - 1 : sockets[g][i].lport = PortAt(z)
  BY HostPorts
<1>4. CASE g # h
  BY <1>2, <1>3, <1>4, OpensSockets DEF Opens
<1>5. CASE g = h /\ t.state = "LISTEN"
  <2>1. freePort'[g] = PortAt(n) /\ n \in 0 .. Len(sockets'[g]) /\ Len(sockets'[g]) <= MaxSockets[g]
    BY <1>2, <1>3, <1>5, OpensSockets DEF Opens
  <2>2. g \in Servers /\ t.lport = ServerPort
    BY <1>5 DEF Opens
  <2> QED
    BY <1>3, <1>5, <2>1, <2>2, OpensSockets
<1>6. CASE g = h /\ t.state # "LISTEN"
  <2>1. /\ g \in Clients /\ t.lport = PortAt(n)
        /\ freePort'[g] = PortAt(n + 1) /\ Len(sockets'[g]) <= MaxSockets[g]
        /\ n + 1 \in 0 .. Len(sockets'[g])
    <3>1. n \in Nat /\ NextPort(freePort[g]) = PortAt(n + 1)
      BY <1>2, <1>3, PortNext
    <3>2. /\ h \in Clients /\ t.lport = freePort[h]
          /\ freePort' = [freePort EXCEPT ![h] = NextPort(@)]
          /\ Len(sockets[h]) < MaxSockets[h]
      BY <1>6 DEF Opens
    <3>3. Len(sockets'[g]) = Len(sockets[g]) + 1
      BY <1>6, OpensSockets
    <3>4. Len(sockets'[g]) <= MaxSockets[g] /\ n + 1 \in 0 .. Len(sockets'[g])
      BY <1>2, <1>3, <1>6, <3>2, <3>3
    <3>5. freePort'[g] = NextPort(freePort[g])
      BY <1>2, <1>6, <3>2
    <3> QED
      BY <1>3, <1>6, <3>1, <3>2, <3>4, <3>5
  <2>2. n \in 0 .. (n + 1) - 1 /\ 0 .. n - 1 \subseteq 0 .. (n + 1) - 1
    BY <1>3
  <2>3. ASSUME NEW i \in DOMAIN sockets'[g]
        PROVE  \/ g \in Servers /\ sockets'[g][i].lport = ServerPort
               \/ /\ g \in Clients
                  /\ sockets'[g][i].state # "LISTEN"
                  /\ \E z \in 0 .. (n + 1) - 1 : sockets'[g][i].lport = PortAt(z)
    <3>1. CASE i \in DOMAIN sockets[g]
      BY <1>3, <1>6, <2>2, <3>1, OpensSockets
    <3>2. CASE i = Len(sockets[g]) + 1
      BY <1>6, <2>1, <2>2, <3>2, OpensSockets
    <3> QED
      BY <1>6, <3>1, <3>2, OpensSockets
  <2> QED
    BY <2>1, <2>3
<1> QED
  BY <1>4, <1>5, <1>6

LEMMA OpensListeners ==
  ASSUME TcpInv, NEW h \in Hosts, NEW t, NEW segs, Opens(h, t, segs)
  PROVE  ListenersLast' /\ UniqueConnection'
<1> DEFINE last == Len(sockets[h]) + 1
<1>1. /\ Len(sockets[h]) \in Nat /\ DOMAIN sockets[h] = 1 .. Len(sockets[h])
  BY DEF TcpInv, Types
<1>2. ASSUME NEW i \in DOMAIN sockets[h], t.state # "LISTEN"
      PROVE  sockets[h][i].lport # t.lport
  BY <1>2, PortIsFree DEF Opens
<1>3. ASSUME NEW i \in DOMAIN sockets[h], t.state = "LISTEN", sockets[h][i].rhost # NoHost
      PROVE  sockets[h][i].rhost # t.rhost
  BY <1>3 DEF Opens
<1>4. t.state = "LISTEN" => t.rhost = NoHost
  BY NoHostAssumption DEF Opens
<1>5. ListenersLast'
  <2> SUFFICES ASSUME NEW g \in Hosts, NEW i \in DOMAIN sockets'[g], NEW j \in DOMAIN sockets'[g],
                      i < j, sockets'[g][i].state = "LISTEN",
                      sockets'[g][j].lport = sockets'[g][i].lport
               PROVE  sockets'[g][j].state = "LISTEN"
    BY DEF ListenersLast
  <2>1. CASE g # h
    BY <2>1, OpensSockets DEF TcpInv, ListenersLast
  <2>2. CASE g = h /\ j # last
    BY <1>1, <2>2, OpensSockets DEF TcpInv, ListenersLast
  <2>3. CASE g = h /\ j = last
    BY <1>1, <1>2, <2>3, OpensSockets
  <2> QED
    BY <2>1, <2>2, <2>3
<1>6. UniqueConnection'
  <2> SUFFICES ASSUME NEW g \in Hosts, NEW i \in DOMAIN sockets'[g], NEW j \in DOMAIN sockets'[g],
                      i # j, sockets'[g][i].rhost # NoHost
               PROVE  <<sockets'[g][i].lport, sockets'[g][i].rhost, sockets'[g][i].rport>>
                        # <<sockets'[g][j].lport, sockets'[g][j].rhost, sockets'[g][j].rport>>
    BY DEF UniqueConnection
  <2>0. UniqueConnection
    BY DEF TcpInv
  <2>1. CASE g # h
    <3>1. sockets'[g] = sockets[g]
      BY <2>1, OpensSockets
    <3> QED
      BY <2>0, <3>1 DEF UniqueConnection
  <2>2. CASE g = h /\ i # last /\ j # last
    <3>1. /\ i \in DOMAIN sockets[h] /\ sockets'[h][i] = sockets[h][i]
          /\ j \in DOMAIN sockets[h] /\ sockets'[h][j] = sockets[h][j]
      BY <2>2, OpensSockets
    <3> QED
      BY <2>0, <2>2, <3>1 DEF UniqueConnection
  <2>3. CASE g = h /\ i = last
    BY <1>1, <1>2, <1>4, <2>3, OpensSockets
  <2>4. CASE g = h /\ j = last
    BY <1>1, <1>2, <1>3, <2>4, OpensSockets, SMTT(30)
  <2> QED
    BY <2>1, <2>2, <2>3, <2>4
<1> QED
  BY <1>5, <1>6

LEMMA OpensConnections ==
  ASSUME TcpInv, NEW h \in Hosts, NEW t, NEW segs, Opens(h, t, segs)
  PROVE  Connections'
<1>1. Types /\ Types' /\ Grows /\ Peers'
  BY OpensTypes, OpensPeers DEF TcpInv
<1> DEFINE last == Len(sockets[h]) + 1
<1>2. last \in DOMAIN sockets'[h] /\ sockets'[h][last] = t
  BY OpensSockets
<1>3. ASSUME NEW g \in Hosts, NEW m \in InTransit(net'[g])
      PROVE  SegmentOK(g, m)'
  <2>1. CASE m \in InTransit(net[g])
    <3>1. SegmentOK(g, m)
      BY <2>1 DEF TcpInv, Connections
    <3>2. m \in SegmentSet
      <4>1. net[g] \in Queues
        BY DEF TcpInv, Types, Queues
      <4> QED
        BY <2>1, <4>1, InTransitTyped
    <3> QED
      BY <1>1, <3>1, <3>2, GrowsSegment
  <2>2. CASE g = t.rhost /\ m \in ToSet(segs)
    <3>1. SentBy(t, g, m) /\ m.src = h /\ m.flags = {"SYN"}
      BY <2>2 DEF ToSet, Opens
    <3> QED
      BY <1>2, <3>1 DEF SegmentOK
  <2> QED
    BY <1>3, <2>1, <2>2 DEF Opens, Transmits
<1>4. ASSUME NEW g \in Hosts, NEW i \in DOMAIN sockets'[g]
      PROVE  SocketOK(g, sockets[g][i])'
  <2>1. ASSUME NEW s \in SocketSet, SocketOK(g, s), s = sockets'[g][i]
        PROVE  SocketOK(g, sockets[g][i])'
    <3>1. s.state \in Open => s.rhost # NoHost
      BY <1>1, <2>1 DEF Peers, Open, Half
    <3>2. SocketOK(g, s)'
      BY <1>1, <2>1, <3>1, GrowsSocket
    <3> QED
      BY <2>1, <3>2
  <2>2. CASE g = h /\ i = last
    <3>1. SocketOK(h, t) /\ t \in SocketSet
      BY IsnAssumption DEF Opens, SocketOK, Open, Half, IsnAssumption
    <3> QED
      BY <1>2, <2>1, <2>2, <3>1
  <2>3. CASE ~(g = h /\ i = last)
    BY <2>1, <2>3, OpensSockets, SocketTyped DEF TcpInv, Connections
  <2> QED
    BY <2>2, <2>3
<1>5. ASSUME NEW g \in Hosts, sending'[g] # NoSend
      PROVE  SendOK(g, sockets[g][sending[g].sock], sending[g].seg)'
  <2>1. sending'[g] = sending[g]
    BY DEF Opens
  <2> DEFINE i == sending[g].sock
             s == sockets[g][i]
             u == sockets'[g][i]
  <2>2. /\ i \in DOMAIN sockets[g] /\ SendOK(g, s, sending[g].seg)
        /\ sending[g].seg \in SegmentSet
    BY <1>5, <2>1 DEF TcpInv, Types, Peers, Connections
  <2>3. s \in SocketSet /\ s.rhost # NoHost
    BY <2>2, SocketTyped, ZenonT(60) DEF SendOK, Past, TcpInv, Peers
  <2>4. Kept(s, u) /\ u \in SocketSet
    BY <1>1, <2>2, <2>3 DEF Grows, Types
  <2> HIDE DEF s, u
  <2>5. ASSUME NEW m \in SegmentSet, m = sending[g].seg, NEW w, w = u
        PROVE  SendOK(g, w, m)'
    BY <1>1, <2>2, <2>3, <2>4, <2>5, GrowsSend
  <2> QED
    BY <2>1, <2>2, <2>5 DEF u
<1>6. ASSUME NEW g \in Hosts, NEW i \in DOMAIN sockets'[g]
      PROVE  ClosingOK(g, sockets[g][i])'
  <2>1. CASE g = h /\ i = last
    BY <1>2, <2>1 DEF Opens, ClosingOK
  <2>2. CASE ~(g = h /\ i = last)
    <3>1. i \in DOMAIN sockets[g] /\ sockets'[g][i] = sockets[g][i]
      BY <2>2, OpensSockets
    <3>2. PICK s : s = sockets[g][i]
      OBVIOUS
    <3>3. s \in SocketSet /\ ClosingOK(g, s)
      BY <3>1, <3>2, ClosingPeer
    <3>4. StillCloses(s, s) /\ Kept(s, s)
      BY <3>3 DEF Kept, StillCloses, ClosingOK, SocketSet
    <3> QED
      BY <1>1, <3>1, <3>2, <3>4, ClosingPeer, GrowsClosing DEF ClosingOK
  <2> QED
    BY <2>1, <2>2
<1> QED
  BY <1>3, <1>4, <1>5, <1>6 DEF Connections

-----------------------------------------------------------------------------
(***************************************************************************)
(* The two steps that leave the sockets alone: a segment is dropped, or    *)
(* the header of a segment is filled in.                                   *)
(***************************************************************************)
LEMMA SameSockets ==
  ASSUME TcpInv, sockets' = sockets, freePort' = freePort,
         sending' \in [Hosts -> {NoSend} \cup [sock : Nat \ {0}, seg : SegmentSet]],
         net' \in [Hosts -> Queues],
         \A g \in Hosts : InTransit(net'[g]) \subseteq InTransit(net[g]),
         \A g \in Hosts : sending'[g] # NoSend =>
           /\ sending'[g].sock \in DOMAIN sockets[g]
           /\ SendOK(g, sockets[g][sending'[g].sock], sending'[g].seg)
  PROVE  TcpInv'
<1>1. Types'
  BY DEF TcpInv, Types, Queues
<1>2. Peers' /\ ListenersLast' /\ UniqueConnection'
  BY DEF TcpInv, Peers, ListenersLast, UniqueConnection
<1>3. Addresses'
  BY ZenonT(60) DEF TcpInv, Addresses
<1>4. Connections'
  <2>1. ASSUME NEW g \in Hosts, NEW m \in InTransit(net'[g])
        PROVE  SegmentOK(g, m)'
    BY <2>1 DEF TcpInv, Connections, SegmentOK
  <2>2. ASSUME NEW g \in Hosts, NEW k \in DOMAIN sockets[g]
        PROVE  SocketOK(g, sockets[g][k])' /\ ClosingOK(g, sockets[g][k])'
    <3>1. SocketOK(g, sockets[g][k])'
      BY <2>2, SMTT(30) DEF TcpInv, Connections, SocketOK
    <3>2. ClosingOK(g, sockets[g][k])'
      BY <2>2, SMTT(30) DEF TcpInv, Connections, ClosingOK
    <3> QED
      BY <3>1, <3>2
  <2>3. ASSUME NEW g \in Hosts, sending'[g] # NoSend
        PROVE  SendOK(g, sockets[g][sending[g].sock], sending[g].seg)'
    <3>1. SendOK(g, sockets[g][sending'[g].sock], sending'[g].seg)
      BY <2>3
    <3> QED
      BY <3>1, ZenonT(60) DEF SendOK
  <2> QED
    BY <2>1, <2>2, <2>3 DEF Connections
<1> QED
  BY <1>1, <1>2, <1>3, <1>4 DEF TcpInv

LEMMA IgnoreKeeps ==
  ASSUME TcpInv, NEW h \in Hosts, NEW m \in Arriving(net[h]), Ignore(h, m)
  PROVE  TcpInv'
<1>1. net \in [Hosts -> Queues] /\ net' = [net EXCEPT ![h] = Rest(@)]
  BY DEF TcpInv, Types, Queues, Ignore
<1>2. Rest(net[h]) \in Queues /\ InTransit(Rest(net[h])) \subseteq InTransit(net[h])
  BY <1>1, RestSegments
<1>3. net' \in [Hosts -> Queues] /\ \A g \in Hosts : InTransit(net'[g]) \subseteq InTransit(net[g])
  BY <1>1, <1>2
<1>4. sockets' = sockets /\ freePort' = freePort /\ sending' = sending
  BY DEF Ignore
<1>5. \A g \in Hosts : sending[g] # NoSend =>
        /\ sending[g].sock \in DOMAIN sockets[g]
        /\ SendOK(g, sockets[g][sending[g].sock], sending[g].seg)
  BY DEF TcpInv, Peers, Connections
<1>6. sending \in [Hosts -> {NoSend} \cup [sock : Nat \ {0}, seg : SegmentSet]]
  BY DEF TcpInv, Types
<1> QED
  BY <1>3, <1>4, <1>5, <1>6, SameSockets

LEMMA SendBeginKeeps ==
  ASSUME TcpInv, NEW h \in Hosts, NEW k \in DOMAIN sockets[h], NEW data \in Payloads,
         SendBegin(h, k, data)
  PROVE  TcpInv'
<1> DEFINE s == sockets[h][k]
           m == Segment(h, s, {"PSH", "ACK"}, data)
           b == [sock |-> k, seg |-> m]
<1>1. s \in SocketSet /\ SocketOK(h, s) /\ s.state = "ESTABLISHED" /\ k \in Nat \ {0}
  BY DEF TcpInv, Types, Connections, SendBegin
<1>2. /\ sending' = [sending EXCEPT ![h] = b] /\ sockets' = sockets
      /\ freePort' = freePort /\ net' = net
  BY DEF SendBegin
<1>3. m \in SegmentSet
  BY <1>1, FlagsTyped, SegmentTyped, PayloadsAssumption DEF PayloadsAssumption, Data
<1>4. SendOK(h, s, m)
  <2>1. /\ m.src = h /\ m.sport = s.lport /\ m.dport = s.rport /\ m.seq = s.seq
        /\ m.flags = {"PSH", "ACK"}
    BY DEF Segment
  <2>2. Past(s) /\ s.state \in Open
    BY <1>1 DEF Past, Open, Half
  <2>3. PICK j \in DOMAIN sockets[s.rhost] : Agrees(sockets[s.rhost][j], h, s)
    BY <1>1, <2>2 DEF SocketOK
  <2>4. Past(sockets[s.rhost][j]) /\ FromTo(sockets[s.rhost][j], h, s.rport, s.lport)
    BY <1>1, <2>3 DEF Agrees
  <2>5. m.seq <= s.seq
    BY <1>1, <2>1 DEF SocketSet
  <2> HIDE DEF m, s
  <2> QED
    BY <2>1, <2>2, <2>4, <2>5 DEF SendOK
<1> HIDE DEF m, s
<1>5. b.sock = k /\ b.seg = m /\ b \in [sock : Nat \ {0}, seg : SegmentSet]
  BY <1>1, <1>3
<1> HIDE DEF b
<1>6. /\ sending \in [Hosts -> {NoSend} \cup [sock : Nat \ {0}, seg : SegmentSet]]
      /\ net \in [Hosts -> Queues]
  BY DEF TcpInv, Types, Queues
<1>7. sending' \in [Hosts -> {NoSend} \cup [sock : Nat \ {0}, seg : SegmentSet]]
  BY <1>2, <1>5, <1>6
<1>8. ASSUME NEW g \in Hosts, sending'[g] # NoSend
      PROVE  /\ sending'[g].sock \in DOMAIN sockets[g]
             /\ SendOK(g, sockets[g][sending'[g].sock], sending'[g].seg)
  <2>1. CASE g = h
    <3>1. sending'[g] = b
      BY <1>2, <1>6, <2>1
    <3> QED
      BY <1>4, <1>5, <2>1, <3>1 DEF s
  <2>2. CASE g # h
    <3>1. sending'[g] = sending[g]
      BY <1>2, <1>6, <2>2
    <3> QED
      BY <1>8, <3>1 DEF TcpInv, Peers, Connections
  <2> QED
    BY <2>1, <2>2
<1> QED
  BY <1>2, <1>6, <1>7, <1>8, SameSockets

-----------------------------------------------------------------------------
LEMMA EvolvesKeeps ==
  ASSUME TcpInv, NEW h \in Hosts, NEW k \in DOMAIN sockets[h], NEW t, NEW segs, Evolves(h, k, t, segs)
  PROVE  TcpInv'
  BY EvolvesTypes, EvolvesPeers, EvolvesAddresses, EvolvesListeners, EvolvesUnique,
     EvolvesConnections DEF TcpInv

LEMMA OpensKeeps ==
  ASSUME TcpInv, NEW h \in Hosts, NEW t, NEW segs, Opens(h, t, segs)
  PROVE  TcpInv'
  BY OpensTypes, OpensPeers, OpensAddresses, OpensListeners, OpensConnections DEF TcpInv

\* A step is of one of these forms.
LEMMA StepForms ==
  ASSUME TcpInv, TcpNext
  PROVE  \E h \in Hosts :
           \/ \E t, segs : Opens(h, t, segs)
           \/ \E k \in DOMAIN sockets[h] : \E t, segs : Evolves(h, k, t, segs)
           \/ \E k \in DOMAIN sockets[h] : \E data \in Payloads : SendBegin(h, k, data)
           \/ \E m \in Arriving(net[h]) : Ignore(h, m)
<1>1. PICK h \in Hosts :
        \/ Listen(h)
        \/ \E r \in Hosts : Connect(h, r)
        \/ \E k \in DOMAIN sockets[h] :
             \/ Bind(h, k)
             \/ \E data \in Payloads : SendBegin(h, k, data)
             \/ DisconnectBegin(h, k)
             \/ DisconnectEnd(h, k)
        \/ SendEnd(h)
        \/ Receive(h)
  BY DEF TcpNext
<1>2. CASE Listen(h)
  BY <1>2, ListenOpens
<1>3. CASE \E r \in Hosts : Connect(h, r)
  BY <1>3, ConnectOpens
<1>4. ASSUME NEW k \in DOMAIN sockets[h], Bind(h, k)
      PROVE  \E t, segs : Evolves(h, k, t, segs)
  BY <1>4, BindEvolves
<1>5. ASSUME NEW k \in DOMAIN sockets[h], DisconnectBegin(h, k) \/ DisconnectEnd(h, k)
      PROVE  \E t, segs : Evolves(h, k, t, segs)
  BY <1>5, DisconnectBeginEvolves, DisconnectEndEvolves
<1>6. CASE SendEnd(h)
  BY <1>6, SendEndEvolves
<1>7. CASE Receive(h)
  BY <1>7, HandleEvolves DEF Receive
<1> QED
  BY <1>1, <1>2, <1>3, <1>4, <1>5, <1>6, <1>7

LEMMA Initially ==
  ASSUME TcpInit
  PROVE  TcpInv
<1>1. sockets = [h \in Hosts |-> <<>>] /\ sending = [h \in Hosts |-> NoSend]
  BY DEF TcpInit
<1>2. \A h \in Hosts : DOMAIN sockets[h] = {} /\ Len(sockets[h]) = 0
  BY <1>1
<1>3. \A h \in Hosts : InTransit(net[h]) = {} /\ net[h] \in Queues
  <2> SUFFICES ASSUME NEW h \in Hosts
               PROVE  InTransit(net[h]) = {} /\ net[h] \in Queues
    OBVIOUS
  <2>1. CASE Reliable
    <3>1. net[h] = <<>> /\ ToSet(<<>>) = {}
      BY <2>1 DEF TcpInit, ToSet
    <3> QED
      BY <2>1, <3>1 DEF InTransit, Queues
  <2>2. CASE ~Reliable
    BY <2>2 DEF TcpInit, InTransit, Queues
  <2> QED
    BY <2>1, <2>2
<1>4. \A h \in Hosts : freePort[h] = PortAt(0)
  <2>1. PortAt(0) = 1024
    BY SMT DEF PortAt, Wrapped
  <2> QED
    BY <2>1 DEF TcpInit
<1>5. Types
  <2>1. net \in [Hosts -> Queues]
    BY <1>3 DEF TcpInit
  <2>2. freePort \in [Hosts -> UInt16]
    BY <1>4, PortTyped DEF TcpInit
  <2>3. /\ sockets \in [Hosts -> Seq(SocketSet)]
        /\ sending \in [Hosts -> {NoSend} \cup [sock : Nat \ {0}, seg : SegmentSet]]
    BY <1>1
  <2> QED
    BY <2>1, <2>2, <2>3 DEF Types, Queues
<1>6. Peers /\ ListenersLast /\ UniqueConnection /\ Connections
  BY <1>1, <1>2, <1>3 DEF Peers, ListenersLast, UniqueConnection, Connections
<1>7. Addresses
  <2> SUFFICES ASSUME NEW h \in Hosts
               PROVE  /\ Len(sockets[h]) <= MaxSockets[h]
                      /\ freePort[h] = PortAt(0)
                      /\ 0 \in 0 .. Len(sockets[h])
    BY <1>2 DEF Addresses
  <2>1. MaxSockets[h] \in Nat
    BY SocketsAssumption, UInt16Bounded DEF SocketsAssumption
  <2> QED
    BY <1>2, <1>4, <2>1
<1> QED
  BY <1>5, <1>6, <1>7 DEF TcpInv

LEMMA TcpStep ==
  ASSUME TcpInv, [TcpNext]_tcpVars
  PROVE  TcpInv'
<1>1. CASE TcpNext
  BY <1>1, StepForms, OpensKeeps, EvolvesKeeps, SendBeginKeeps, IgnoreKeeps
<1>2. CASE UNCHANGED tcpVars
  <2>1. sockets' = sockets /\ freePort' = freePort /\ sending' = sending /\ net' = net
    BY <1>2 DEF tcpVars
  <2>2. \A g \in Hosts : sending[g] # NoSend =>
          /\ sending[g].sock \in DOMAIN sockets[g]
          /\ SendOK(g, sockets[g][sending[g].sock], sending[g].seg)
    BY DEF TcpInv, Peers, Connections
  <2>3. /\ sending \in [Hosts -> {NoSend} \cup [sock : Nat \ {0}, seg : SegmentSet]]
        /\ net \in [Hosts -> Queues]
    BY DEF TcpInv, Types, Queues
  <2> QED
    BY <2>1, <2>2, <2>3, SameSockets
<1> QED
  BY <1>1, <1>2

(***************************************************************************)
(* The invariant that the safety of connections rests on.                  *)
(***************************************************************************)
THEOREM TcpInvariant == TcpSpec => []TcpInv
<1>1. TcpInit => TcpInv
  BY Initially
<1>2. TcpInv /\ [TcpNext]_tcpVars => TcpInv'
  BY TcpStep
<1> QED
  BY <1>1, <1>2, PTL DEF TcpSpec

-----------------------------------------------------------------------------
(***************************************************************************)
(* What the runs check, for every instance.                                *)
(***************************************************************************)
(***************************************************************************)
(* Every socket is in one of the states the code reaches, and has a peer   *)
(* exactly when it no longer listens; no host is its own peer.             *)
(***************************************************************************)
THEOREM TcpTypesOK == TcpSpec => []TcpTypeOK
<1>1. ASSUME TcpInv, NEW h \in Hosts
      PROVE  freePort[h] \in UInt16
  BY <1>1 DEF TcpInv, Types
<1>2. ASSUME TcpInv, NEW h \in Hosts, NEW k \in DOMAIN sockets[h], NEW s, s = sockets[h][k]
      PROVE  /\ s.state \in SocketState
             /\ s.rhost \in (Hosts \ {h}) \cup {NoHost}
             /\ s.rhost = NoHost <=> s.state = "LISTEN"
  <2>1. s \in SocketSet /\ s.rhost # h /\ (s.rhost = NoHost <=> s.state = "LISTEN")
    BY <1>2, SocketTyped DEF TcpInv, Peers
  <2> QED
    BY <2>1 DEF SocketSet
<1>3. TcpInv => TcpTypeOK
  BY <1>1, <1>2 DEF TcpTypeOK
<1> QED
  BY <1>3, TcpInvariant, PTL

(***************************************************************************)
(* A host never has two sockets for one connection, although a SYN may     *)
(* arrive any number of times and several sockets may listen on the port.  *)
(***************************************************************************)
THEOREM ConnectionsUnique == TcpSpec => []UniqueConnection
<1>1. TcpInv => UniqueConnection
  BY DEF TcpInv
<1> QED
  BY <1>1, TcpInvariant, PTL

(***************************************************************************)
(* The socket that a segment other than a SYN was meant for is the one the *)
(* search of OnInternetProtocolReceived finds: the listening sockets, the  *)
(* remote address of which is not initialised, are never compared with it. *)
(***************************************************************************)
LEMMA SegmentsFindSockets ==
  ASSUME TcpInv, NEW h \in Hosts, NEW m \in InTransit(net[h]), m.flags # {"SYN"}
  PROVE  \E k \in DOMAIN sockets[h] : SocketFor(h, k, m) /\ sockets[h][k].rhost = m.src
<1>1. m \in SegmentSet /\ m.src \in Hosts /\ m.src # NoHost
  <2>1. net[h] \in Queues
    BY DEF TcpInv, Types, Queues
  <2> QED
    BY <2>1, InTransitTyped, NoHostAssumption DEF SegmentSet, NoHostAssumption
<1>2. PICK k \in DOMAIN sockets[h] : MeantFor(sockets[h][k], m)
  BY DEF TcpInv, Connections, SegmentOK
<1>3. sockets[h][k].rhost = m.src /\ Matches(h, k, m)
  BY <1>2 DEF Matches, MeantFor, FromTo
<1>4. ASSUME NEW j \in DOMAIN sockets[h], j < k, Matches(h, j, m)
      PROVE  FALSE
  <2>1. m.flags \cap {"SYN", "ACK"} # {"SYN"}
    BY <1>1, Kinds
  <2>2. FromTo(sockets[h][j], m.src, m.dport, m.sport)
    BY <1>4, <2>1 DEF Matches, FromTo
  <2>3. j = k
    BY <1>1, <1>2, <2>2, OneEnd DEF MeantFor
  <2>4. j \in Nat /\ k \in Nat
    BY DEF TcpInv, Types
  <2> QED
    BY <1>4, <2>3, <2>4
<1> QED
  BY <1>3, <1>4 DEF SocketFor

(***************************************************************************)
(* Every segment under way that is not a SYN will reach a socket whose     *)
(* peer is its sender (the search of OnInternetProtocolReceived,           *)
(* tcp.cpp:104-116).                                                       *)
(***************************************************************************)
THEOREM NoSegmentStrays == TcpSpec => []NoStraySegment
<1>1. TcpInv => NoStraySegment
  BY SegmentsFindSockets DEF NoStraySegment
<1> QED
  BY <1>1, TcpInvariant, PTL

(***************************************************************************)
(* A socket is ESTABLISHED only when the other end exists and is past the  *)
(* first half of the handshake, whatever segments were lost, repeated or   *)
(* late.                                                                   *)
(***************************************************************************)
LEMMA EstablishedAgree ==
  ASSUME TcpInv, NEW h \in Hosts, NEW k \in DOMAIN sockets[h],
         sockets[h][k].state = "ESTABLISHED"
  PROVE  \E j \in DOMAIN sockets[sockets[h][k].rhost] :
           /\ Ends(h, k, j)
           /\ Agrees(sockets[sockets[h][k].rhost][j], h, sockets[h][k])
           /\ Past(sockets[sockets[h][k].rhost][j])
<1> DEFINE s == sockets[h][k]
<1>1. s \in SocketSet /\ SocketOK(h, s) /\ s.rhost # NoHost /\ s.state \in Open
  BY SocketTyped DEF TcpInv, Connections, Peers, Open, Half
<1>2. PICK j \in DOMAIN sockets[s.rhost] : Agrees(sockets[s.rhost][j], h, s)
  BY <1>1 DEF SocketOK
<1>3. Past(sockets[s.rhost][j])
  BY <1>2 DEF Agrees
<1>4. Ends(h, k, j)
  BY <1>1, <1>2 DEF Ends, Agrees, FromTo
<1> QED
  BY <1>2, <1>3, <1>4

(***************************************************************************)
(* No socket thinks it is connected to an end that does not know of it     *)
(* (tcp.cpp:130-153, 190-196).                                             *)
(***************************************************************************)
THEOREM HandshakesAgree == TcpSpec => []HandshakeAgrees
<1>1. TcpInv => HandshakeAgrees
  BY EstablishedAgree DEF HandshakeAgrees, Past
<1> QED
  BY <1>1, TcpInvariant, PTL

(***************************************************************************)
(* Neither end of an open connection acknowledges what the other has not   *)
(* sent, whatever zeros the payloads end with and however the handlers     *)
(* answer, as long as no payload is so short, or of such a size, that the  *)
(* receiver finds more or less than was sent (ipv4.cpp:63-70).             *)
(***************************************************************************)
THEOREM AcksNotAhead ==
  ASSUME PayloadsFit
  PROVE  TcpSpec => []AckNotAhead
<1>1. ASSUME TcpInv, NEW h \in Hosts, NEW k \in DOMAIN sockets[h],
             sockets[h][k].state = "ESTABLISHED",
             NEW j \in DOMAIN sockets[sockets[h][k].rhost], Ends(h, k, j),
             sockets[sockets[h][k].rhost][j].state = "ESTABLISHED"
      PROVE  sockets[h][k].ack <= sockets[sockets[h][k].rhost][j].seq
  <2> DEFINE s == sockets[h][k]
             t == sockets[s.rhost][j]
  <2>1. PICK i \in DOMAIN sockets[s.rhost] : Agrees(sockets[s.rhost][i], h, s)
    BY <1>1, EstablishedAgree
  <2>2. s.rhost \in Hosts /\ s \in SocketSet
    BY <1>1, SocketTyped DEF Ends, SocketSet, TcpInv
  <2>3. FromTo(t, h, s.rport, s.lport)
    BY <1>1 DEF Ends, FromTo
  <2>4. i = j
    BY <1>1, <2>1, <2>2, <2>3, OneEnd DEF Agrees
  <2>5. s.ack <= t.seq \/ s.ack <= Isn + 1
    BY <1>1, <2>1, <2>4 DEF Agrees, Half
  <2>6. t.seq > Isn /\ t \in SocketSet
    BY <1>1, <2>2, SocketTyped DEF TcpInv, Connections, SocketOK, Open, Half
  <2> QED
    BY <2>2, <2>5, <2>6, IsnAssumption DEF SocketSet, IsnAssumption
<1>2. TcpInv => AckNotAhead
  BY <1>1 DEF AckNotAhead
<1> QED
  BY <1>2, TcpInvariant, PTL

-----------------------------------------------------------------------------
(***************************************************************************)
(* Delivery in order.  It needs that every payload has a nonzero byte (the *)
(* acknowledgement of one of zeros goes backwards, tcp.cpp:220-224), and   *)
(* that where a task sends the handler does not, as its segment could come *)
(* between the two steps of the task's Send (tcp.cpp:314-322) and would    *)
(* have the same sequence number.                                          *)
(***************************************************************************)
TextInPayloads == \A p \in Payloads : p.text > 0
OneWriter == \A h \in Talkers : "reply" \notin HandlerActs[h]

TextData == {d \in Data : d.text > 0}

\* off[n] is the sequence number of the n-th payload of sent.
Offsets(sent, off) ==
  /\ sent \in Seq(TextData)
  /\ off \in [1 .. Len(sent) + 1 -> Nat]
  /\ off[1] = Isn + 1
  /\ \A n \in 1 .. Len(sent) : off[n + 1] = off[n] + sent[n].text + sent[n].zeros
  /\ \A a, b \in 1 .. Len(sent) + 1 : a < b => off[a] < off[b]

Carries(m, sent, off) == \E n \in 1 .. Len(sent) : m.seq = off[n] /\ m.data = sent[n]

(***************************************************************************)
(* What r has got is a beginning of what was sent; it waits for the next   *)
(* payload, or for ever if zero bytes at the end of the last one were not  *)
(* counted.                                                                *)
(***************************************************************************)
HasGot(r, sent, off) ==
  /\ Len(r.got) <= Len(sent)
  /\ \A n \in 1 .. Len(r.got) : r.got[n] = sent[n]
  /\ r.state \in Receiving =>
       \/ r.ack = off[Len(r.got) + 1]
       \/ Len(r.got) > 0 /\ off[Len(r.got)] < r.ack /\ r.ack < off[Len(r.got) + 1]

SenderOK(s, off) ==
  /\ Offsets(s.sent, off)
  /\ s.state \in Half => s.seq = off[Len(s.sent) + 1]

\* The stream of data from the socket s of h.
Stream(h, s, off) ==
  /\ SenderOK(s, off)
  /\ \A g \in Hosts : \A m \in InTransit(net[g]) :
       m.src = h /\ m.flags = {"PSH", "ACK"} /\ FromTo(s, g, m.sport, m.dport) =>
         Carries(m, s.sent, off)
  /\ \A g \in Hosts : \A i \in DOMAIN sockets[g] :
       s.rhost = g /\ FromTo(sockets[g][i], h, s.rport, s.lport) =>
         HasGot(sockets[g][i], s.sent, off)

Pending(h, j, s, off) ==
  sending[h] # NoSend /\ sending[h].sock = j => sending[h].seg.seq = off[Len(s.sent) + 1]

Streams ==
  \A h \in Hosts : \A j \in DOMAIN sockets[h] :
    \E off : Stream(h, sockets[h][j], off) /\ Pending(h, j, sockets[h][j], off)

\* Only who has a peer has data, and what a task sends is a payload.
Origins ==
  \A h \in Hosts :
    /\ sending[h] # NoSend => h \in Talkers /\ sending[h].seg.data \in TextData
    /\ \A k \in DOMAIN sockets[h] :
         LET s == sockets[h][k]
         IN  /\ s.state \in {"LISTEN", "SYN_SENT"} => s.sent = <<>> /\ s.got = <<>>
             /\ s.got # <<>> =>
                  /\ s.rhost # NoHost
                  /\ \E j \in DOMAIN sockets[s.rhost] :
                       FromTo(sockets[s.rhost][j], h, s.rport, s.lport)

StreamInv == TcpInv /\ Streams /\ Origins

LEMMA OffsetsStart ==
  ASSUME NEW off, off = [n \in 1 .. 1 |-> Isn + 1]
  PROVE  Offsets(<<>>, off)
<1>1. <<>> \in Seq(TextData) /\ Len(<<>>) = 0 /\ Isn + 1 \in Nat
  BY IsnAssumption DEF IsnAssumption
<1> QED
  BY <1>1 DEF Offsets

LEMMA OffsetsAppend ==
  ASSUME NEW sent, NEW off, Offsets(sent, off), NEW data \in TextData
  PROVE  \E new :
           /\ Offsets(Append(sent, data), new)
           /\ \A n \in 1 .. Len(sent) + 1 : new[n] = off[n]
           /\ new[Len(sent) + 2] = off[Len(sent) + 1] + data.text + data.zeros
<1> DEFINE last == Len(sent) + 1
           more == Append(sent, data)
           end == off[last] + data.text + data.zeros
           new == [n \in 1 .. last + 1 |-> IF n = last + 1 THEN end ELSE off[n]]
<1>1. /\ sent \in Seq(TextData) /\ Len(sent) \in Nat /\ last \in 1 .. Len(sent) + 1
      /\ \A n \in 1 .. last : off[n] \in Nat
  BY DEF Offsets
<1>2. data.text \in Nat /\ data.zeros \in Nat /\ data.text > 0
  BY DEF TextData, Data
<1>3. more \in Seq(TextData) /\ Len(more) = last /\ more[last] = data
      /\ \A n \in 1 .. Len(sent) : more[n] = sent[n]
  BY <1>1
<1>4. end \in Nat /\ end > off[last]
  BY <1>1, <1>2
<1> HIDE DEF end, more
<1>5. /\ new \in [1 .. Len(more) + 1 -> Nat] /\ new[last + 1] = end
      /\ \A n \in 1 .. last : new[n] = off[n]
  BY <1>1, <1>3, <1>4
<1> HIDE DEF new
<1>6. new[1] = Isn + 1
  BY <1>1, <1>5 DEF Offsets
<1>7. ASSUME NEW n \in 1 .. Len(more)
      PROVE  new[n + 1] = new[n] + more[n].text + more[n].zeros
  <2>1. CASE n = last
    BY <1>1, <1>3, <1>5, <2>1 DEF end
  <2>2. CASE n # last
    <3>1. n \in 1 .. Len(sent) /\ n \in 1 .. last /\ n + 1 \in 1 .. last
      BY <1>1, <1>3, <2>2
    <3> QED
      BY <1>3, <1>5, <3>1 DEF Offsets
  <2> QED
    BY <2>1, <2>2
<1>8. ASSUME NEW a \in 1 .. Len(more) + 1, NEW b \in 1 .. Len(more) + 1, a < b
      PROVE  new[a] < new[b]
  <2>1. a \in 1 .. last /\ new[a] = off[a]
    BY <1>1, <1>3, <1>5, <1>8
  <2>2. off[a] < off[last] \/ a = last
    BY <1>1, <2>1 DEF Offsets
  <2>3. CASE b = last + 1
    BY <1>1, <1>4, <1>5, <2>1, <2>2, <2>3
  <2>4. CASE b # last + 1
    <3>1. b \in 1 .. last /\ new[b] = off[b]
      BY <1>1, <1>3, <1>5, <2>4
    <3> QED
      BY <1>8, <2>1, <3>1 DEF Offsets
  <2> QED
    BY <2>3, <2>4
<1>9. Offsets(more, new)
  BY <1>3, <1>5, <1>6, <1>7, <1>8 DEF Offsets
<1>10. last + 1 = Len(sent) + 2
  BY <1>1
<1> QED
  BY <1>5, <1>9, <1>10 DEF more, end

LEMMA CarriesMore ==
  ASSUME NEW sent, NEW off, Offsets(sent, off), NEW data \in TextData, NEW new,
         \A n \in 1 .. Len(sent) + 1 : new[n] = off[n], NEW m
  PROVE  /\ Carries(m, sent, off) => Carries(m, Append(sent, data), new)
         /\ m.seq = off[Len(sent) + 1] /\ m.data = data => Carries(m, Append(sent, data), new)
<1>1. sent \in Seq(TextData) /\ Len(sent) \in Nat
  BY DEF Offsets
<1>2. /\ Len(Append(sent, data)) = Len(sent) + 1
      /\ Append(sent, data)[Len(sent) + 1] = data
      /\ \A n \in 1 .. Len(sent) : Append(sent, data)[n] = sent[n]
  BY <1>1
<1> QED
  BY <1>1, <1>2 DEF Carries

LEMMA HasGotMore ==
  ASSUME NEW sent, NEW off, Offsets(sent, off), NEW data \in TextData, NEW new,
         \A n \in 1 .. Len(sent) + 1 : new[n] = off[n],
         NEW r \in SocketSet, HasGot(r, sent, off)
  PROVE  HasGot(r, Append(sent, data), new)
<1>1. sent \in Seq(TextData) /\ Len(sent) \in Nat /\ Len(r.got) \in Nat /\ Len(r.got) <= Len(sent)
  BY DEF Offsets, SocketSet, HasGot
<1>2. /\ Len(Append(sent, data)) = Len(sent) + 1
      /\ \A n \in 1 .. Len(sent) : Append(sent, data)[n] = sent[n]
  BY <1>1
<1>3. /\ Len(r.got) + 1 \in 1 .. Len(sent) + 1
      /\ Len(r.got) > 0 => Len(r.got) \in 1 .. Len(sent) + 1
  BY <1>1
<1>4. \A n \in 1 .. Len(r.got) : r.got[n] = Append(sent, data)[n]
  BY <1>1, <1>2 DEF HasGot
<1> QED
  BY <1>1, <1>2, <1>3, <1>4 DEF HasGot

LEMMA HasGotNothing ==
  ASSUME NEW sent, NEW off, Offsets(sent, off), NEW r, r.got = <<>>,
         r.state \in Receiving => r.ack = Isn + 1
  PROVE  HasGot(r, sent, off)
<1>1. Len(r.got) = 0 /\ Len(sent) \in Nat /\ off[1] = Isn + 1
  BY DEF Offsets
<1> QED
  BY <1>1 DEF HasGot

\* A payload that the comparison of the sequence numbers lets through is the next.
LEMMA HasGotNext ==
  ASSUME NEW sent, NEW off, Offsets(sent, off), NEW r \in SocketSet, HasGot(r, sent, off),
         r.state \in Receiving, NEW m, Carries(m, sent, off), m.seq = r.ack,
         NEW t, t.got = Append(r.got, m.data),
         m.data.text > 0 => t.ack = r.ack + m.data.text
  PROVE  HasGot(t, sent, off)
<1> DEFINE l == Len(r.got)
<1>1. /\ sent \in Seq(TextData) /\ Len(sent) \in Nat /\ l \in Nat /\ l <= Len(sent)
      /\ r.got \in Seq(Data)
      /\ \A n \in 1 .. Len(sent) + 1 : off[n] \in Nat
  <2>1. r.got \in Seq(Data)
    BY DEF SocketSet
  <2>2. l \in Nat /\ l <= Len(sent)
    BY <2>1 DEF HasGot
  <2>3. /\ sent \in Seq(TextData) /\ Len(sent) \in Nat
        /\ \A n \in 1 .. Len(sent) + 1 : off[n] \in Nat
    BY DEF Offsets
  <2> QED
    BY <2>1, <2>2, <2>3
<1>2. PICK n \in 1 .. Len(sent) : r.ack = off[n] /\ m.data = sent[n]
  BY DEF Carries
<1>3. n = l + 1
  <2>1. n \in 1 .. Len(sent) + 1 /\ l + 1 \in 1 .. Len(sent) + 1
    BY <1>1
  <2>2. CASE r.ack = off[l + 1]
    <3>1. /\ n < l + 1 => off[n] < off[l + 1]
          /\ l + 1 < n => off[l + 1] < off[n]
      BY <2>1 DEF Offsets
    <3>2. off[n] = off[l + 1] /\ off[n] \in Nat
      BY <1>1, <1>2, <2>1, <2>2
    <3> QED
      BY <1>1, <2>1, <3>1, <3>2
  <2>3. CASE l > 0 /\ off[l] < r.ack /\ r.ack < off[l + 1]
    <3>1. l \in 1 .. Len(sent) + 1
      BY <1>1, <2>3
    <3>2. n < l \/ n = l \/ n = l + 1 \/ n > l + 1
      BY <1>1, <2>1
    <3> QED
      BY <1>1, <1>2, <2>1, <2>3, <3>1, <3>2 DEF Offsets
  <2> QED
    BY <2>2, <2>3 DEF HasGot
<1>4. sent[n] \in TextData
  BY <1>1
<1>5. m.data.text \in Nat /\ m.data.zeros \in Nat /\ m.data.text > 0 /\ m.data \in Data
  BY <1>2, <1>4 DEF TextData, Data
<1>6. /\ Len(t.got) = l + 1 /\ t.got[l + 1] = m.data
      /\ \A i \in 1 .. l : t.got[i] = r.got[i]
  BY <1>1, <1>5
<1>7. Len(t.got) <= Len(sent)
  BY <1>1, <1>3, <1>6
<1>8. \A i \in 1 .. Len(t.got) : t.got[i] = sent[i]
  <2> TAKE i \in 1 .. Len(t.got)
  <2>1. CASE i = l + 1
    BY <1>2, <1>3, <1>6, <2>1
  <2>2. CASE i # l + 1
    <3>1. i \in 1 .. l
      BY <1>1, <1>6, <2>2
    <3> QED
      BY <1>6, <3>1 DEF HasGot
  <2> QED
    BY <2>1, <2>2
<1>9. t.ack = off[l + 2] \/ (off[l + 1] < t.ack /\ t.ack < off[l + 2])
  <2>1. off[n + 1] = off[n] + m.data.text + m.data.zeros /\ off[n] \in Nat
    BY <1>1, <1>2 DEF Offsets
  <2>2. t.ack = off[n] + m.data.text
    BY <1>2, <1>5
  <2>3. n + 1 = l + 2
    BY <1>1, <1>3
  <2> QED
    BY <1>3, <1>5, <2>1, <2>2, <2>3
<1>10. Len(t.got) + 1 = l + 2 /\ Len(t.got) > 0
  BY <1>1, <1>6
<1> QED
  BY <1>6, <1>7, <1>8, <1>9, <1>10 DEF HasGot

-----------------------------------------------------------------------------
\* The streams after a step, in terms of the primed variables.
LEMMA StreamAfter ==
  ASSUME NEW h \in Hosts, NEW j \in DOMAIN sockets'[h], NEW u, u = sockets'[h][j], NEW off,
         SenderOK(u, off),
         \A g \in Hosts : \A m \in InTransit(net'[g]) :
           m.src = h /\ m.flags = {"PSH", "ACK"} /\ FromTo(u, g, m.sport, m.dport) =>
             Carries(m, u.sent, off),
         \A g \in Hosts : \A i \in DOMAIN sockets'[g] :
           u.rhost = g /\ FromTo(sockets'[g][i], h, u.rport, u.lport) =>
             HasGot(sockets'[g][i], u.sent, off),
         sending'[h] # NoSend /\ sending'[h].sock = j =>
           sending'[h].seg.seq = off[Len(u.sent) + 1]
  PROVE  (\E o : Stream(h, sockets[h][j], o) /\ Pending(h, j, sockets[h][j], o))'
  BY DEF Stream, Pending

\* Nothing is on the way from an address the host does not have, and its peers have nothing.
NoEnd(h, t) ==
  \A i \in DOMAIN sockets[h] : ~FromTo(sockets[h][i], t.rhost, t.lport, t.rport)

LEMMA NothingYet ==
  ASSUME TcpInv, Origins, NEW h \in Hosts, NEW t, NoEnd(h, t),
         NEW g \in Hosts, g = t.rhost
  PROVE  /\ \A m \in InTransit(net[g]) : ~(m.src = h /\ FromTo(t, g, m.sport, m.dport))
         /\ \A i \in DOMAIN sockets[g] : FromTo(sockets[g][i], h, t.rport, t.lport) =>
              sockets[g][i].got = <<>> /\ sockets[g][i].state \notin Receiving
<1>1. ASSUME NEW m \in InTransit(net[g]), m.src = h, FromTo(t, g, m.sport, m.dport)
      PROVE  FALSE
  <2>1. PICK i \in DOMAIN sockets[h] : SentBy(sockets[h][i], g, m)
    BY <1>1 DEF TcpInv, Connections, SegmentOK
  <2> QED
    BY <1>1, <2>1 DEF SentBy, NoEnd, FromTo
<1>2. ASSUME NEW i \in DOMAIN sockets[g], FromTo(sockets[g][i], h, t.rport, t.lport)
      PROVE  sockets[g][i].got = <<>> /\ sockets[g][i].state \notin Receiving
  <2> DEFINE w == sockets[g][i]
  <2>1. w.rhost = h /\ w.lport = t.rport /\ w.rport = t.lport
    BY <1>2 DEF FromTo
  <2>2. ASSUME w.got # <<>>
        PROVE  FALSE
    <3>1. PICK j \in DOMAIN sockets[h] : FromTo(sockets[h][j], g, w.rport, w.lport)
      BY <2>1, <2>2 DEF Origins
    <3> QED
      BY <2>1, <3>1 DEF NoEnd
  <2>3. ASSUME w.state \in Receiving
        PROVE  FALSE
    <3>1. w.state \in Open /\ SocketOK(g, w)
      BY <2>3 DEF Receiving, Open, TcpInv, Connections
    <3>2. PICK j \in DOMAIN sockets[h] : Agrees(sockets[h][j], g, w)
      BY <2>1, <3>1 DEF SocketOK
    <3> QED
      BY <2>1, <3>2 DEF NoEnd, Agrees
  <2> QED
    BY <2>2, <2>3
<1> QED
  BY <1>1, <1>2

-----------------------------------------------------------------------------
(***************************************************************************)
(* The socket k of h changes: the streams that come to it.                 *)
(***************************************************************************)
\* The socket s becomes t when it takes all that m carries.
TakesWhole(s, t, m) ==
  /\ m.flags = {"PSH", "ACK"} /\ FromTo(s, m.src, m.dport, m.sport)
  /\ m.seq = s.ack /\ t.got = Append(s.got, m.data)
  /\ m.data.text > 0 => t.ack = s.ack + m.data.text

\* Where payloads fit, the handler is given what the segment carries.
LEMMA GetsWhole ==
  ASSUME TcpInv, PayloadsFit, NEW h \in Hosts, NEW s, NEW t, NEW segs, Gets(h, s, t, segs)
  PROVE  \E m \in Arriving(net[h]) : TakesWhole(s, t, m)
<1>1. PICK m \in Arriving(net[h]) :
        /\ m.flags = {"PSH", "ACK"} /\ FromTo(s, m.src, m.dport, m.sport)
        /\ m.seq = s.ack
        /\ \E d \in Handed(m.data) :
             t.got = Append(s.got, d) /\ (d.text > 0 => t.ack = s.ack + d.text)
  BY DEF Gets
<1>2. m \in SegmentSet
  <2>1. net[h] \in Queues
    BY DEF TcpInv, Types, Queues
  <2> QED
    BY <2>1, InTransitTyped
<1>3. m.data \in Payloads
  BY <1>1, <1>2 DEF SegmentSet
<1> QED
  BY <1>1, <1>3, HandedWhole DEF TakesWhole

LEMMA ReceiverEvolves ==
  ASSUME StreamInv, PayloadsFit, NEW h \in Hosts, NEW k \in DOMAIN sockets[h], NEW t, NEW segs,
         Evolves(h, k, t, segs),
         NEW g \in Hosts, NEW j \in DOMAIN sockets[g], NEW u, u = sockets[g][j], NEW off,
         Stream(g, u, off), u.rhost = h, FromTo(t, g, u.rport, u.lport)
  PROVE  HasGot(t, u.sent, off)
<1> DEFINE s == sockets[h][k]
<1>1. TcpInv /\ Offsets(u.sent, off) /\ s \in SocketSet
  BY SocketTyped DEF StreamInv, TcpInv, Stream, SenderOK
<1>2. Kept(s, t) => HasGot(s, u.sent, off)
  BY DEF Kept, FromTo, Stream
<1>3. s.state \in {"LISTEN", "SYN_SENT"} => s.got = <<>>
  BY DEF StreamInv, Origins
<1>4. Kept(s, t) \/ s.state = "LISTEN"
  BY DEF Evolves, Accepted
<1> HIDE DEF s
<1>5. CASE Quiet(h, s, t, segs)
  <2>1. CASE s.state \in {"LISTEN", "SYN_SENT"} /\ t.ack = Isn + 1
    <3>1. t.got = <<>>
      BY <1>3, <1>5, <2>1 DEF Quiet
    <3> QED
      BY <1>1, <2>1, <3>1, HasGotNothing
  <2>2. CASE t.state \in Receiving => s.state \in Receiving /\ t.ack = s.ack
    <3>1. CASE Kept(s, t)
      BY <1>2, <1>5, <2>2, <3>1 DEF Quiet, HasGot
    <3>2. CASE s.state = "LISTEN"
      <4>1. t.got = <<>> /\ t.state \notin Receiving
        BY <1>3, <1>5, <2>2, <3>2 DEF Quiet, Receiving, Half
      <4> QED
        BY <1>1, <4>1, HasGotNothing
    <3> QED
      BY <1>4, <3>1, <3>2
  <2> QED
    BY <1>5, <2>1, <2>2 DEF Quiet
<1>6. CASE Sends(h, k, s, t, segs)
  <2>1. SendOK(h, s, sending[h].seg) /\ sending[h].seg \in SegmentSet
    BY <1>1, <1>6 DEF Sends, TcpInv, Types, Connections, s
  <2>2. Kept(s, t)
    BY <1>4, <2>1 DEF SendOK, Past
  <2>3. t.got = s.got /\ t.ack = s.ack /\ t.state = s.state
    BY <1>1, <1>6, <2>1, SentTyped DEF Sends, SegmentSet
  <2> QED
    BY <1>2, <2>2, <2>3 DEF HasGot
<1>7. CASE Gets(h, s, t, segs)
  <2>1. s.state \in Receiving /\ s.state # "LISTEN"
    BY <1>7 DEF Gets, Receiving, Half
  <2>2. Kept(s, t)
    BY <1>4, <2>1
  <2>3. PICK m \in Arriving(net[h]) :
          /\ m.flags = {"PSH", "ACK"} /\ FromTo(s, m.src, m.dport, m.sport)
          /\ m.seq = s.ack /\ t.got = Append(s.got, m.data)
          /\ m.data.text > 0 => t.ack = s.ack + m.data.text
    <3>1. \E m \in Arriving(net[h]) : TakesWhole(s, t, m)
      BY <1>1, <1>7, GetsWhole
    <3> QED
      BY <3>1 DEF TakesWhole
  <2>4. m \in InTransit(net[h])
    <3>1. net[h] \in Queues
      BY <1>1 DEF TcpInv, Types, Queues
    <3> QED
      BY <3>1, InTransitTyped
  <2>5. m.src = g /\ FromTo(u, h, m.sport, m.dport)
    BY <2>2, <2>3 DEF Kept, FromTo
  <2>6. Carries(m, u.sent, off)
    BY <2>3, <2>4, <2>5 DEF Stream
  <2> QED
    BY <1>1, <1>2, <2>1, <2>2, <2>3, <2>6, HasGotNext
<1> QED
  BY <1>5, <1>6, <1>7 DEF Evolves, s

LEMMA OtherStreams ==
  ASSUME StreamInv, PayloadsFit, NEW h \in Hosts, NEW k \in DOMAIN sockets[h], NEW t, NEW segs,
         Evolves(h, k, t, segs),
         NEW g \in Hosts, NEW j \in DOMAIN sockets[g], ~(g = h /\ j = k)
  PROVE  (\E o : Stream(g, sockets[g][j], o) /\ Pending(g, j, sockets[g][j], o))'
<1>1. TcpInv
  BY DEF StreamInv
<1>2. PICK u : u = sockets[g][j]
  OBVIOUS
<1>3. PICK off : Stream(g, u, off) /\ Pending(g, j, u, off)
  BY <1>2 DEF StreamInv, Streams
<1>4. u = sockets'[g][j] /\ j \in DOMAIN sockets'[g]
  BY <1>1, <1>2, EvolvesSockets
<1>5. ASSUME NEW f \in Hosts, NEW m \in InTransit(net'[f]),
             m.src = g, m.flags = {"PSH", "ACK"}, FromTo(u, f, m.sport, m.dport)
      PROVE  Carries(m, u.sent, off)
  <2>1. CASE m \in InTransit(net[f])
    BY <1>3, <1>5, <2>1 DEF Stream
  <2>2. CASE f = t.rhost /\ m \in ToSet(segs)
    <3>1. NewSegment(h, t, m)
      BY <2>2 DEF ToSet, Evolves
    <3>2. g = h /\ FromTo(t, f, m.sport, m.dport)
      BY <1>5, <2>2, <3>1 DEF NewSegment, SentBy
    <3>3. k \in DOMAIN sockets'[h] /\ sockets'[h][k] = t /\ UniqueConnection'
      BY <1>1, EvolvesSockets, EvolvesUnique
    <3>4. f # NoHost
      BY NoHostAssumption DEF NoHostAssumption
    <3> QED
      BY <1>4, <1>5, <3>2, <3>3, <3>4 DEF UniqueConnection, FromTo
  <2> QED
    BY <1>5, <2>1, <2>2 DEF Evolves, Transmits
<1>6. ASSUME NEW f \in Hosts, NEW i \in DOMAIN sockets'[f],
             u.rhost = f, FromTo(sockets'[f][i], g, u.rport, u.lport)
      PROVE  HasGot(sockets'[f][i], u.sent, off)
  <2>1. CASE f = h /\ i = k
    <3>1. sockets'[f][i] = t
      BY <1>1, <2>1, EvolvesSockets
    <3> QED
      BY <1>2, <1>3, <1>6, <2>1, <3>1, ReceiverEvolves
  <2>2. CASE ~(f = h /\ i = k)
    <3>1. i \in DOMAIN sockets[f] /\ sockets'[f][i] = sockets[f][i]
      BY <1>1, <2>2, EvolvesSockets
    <3> QED
      BY <1>3, <1>6, <3>1 DEF Stream
  <2> QED
    BY <2>1, <2>2
<1>7. sending'[g] # NoSend /\ sending'[g].sock = j => sending'[g].seg.seq = off[Len(u.sent) + 1]
  BY <1>1, <1>3 DEF Pending, Evolves, TcpInv, Types
<1>8. SenderOK(u, off)
  BY <1>3 DEF Stream
<1> QED
  BY <1>4, <1>5, <1>6, <1>7, <1>8, StreamAfter

-----------------------------------------------------------------------------
(***************************************************************************)
(* ... and the stream that comes from it.                                  *)
(***************************************************************************)
\* The ends it sends to do not move: no host is its own peer.
LEMMA PeersStay ==
  ASSUME TcpInv, NEW h \in Hosts, NEW k \in DOMAIN sockets[h], NEW t, NEW segs, Evolves(h, k, t, segs),
         NEW f \in Hosts, f = t.rhost, NEW i \in DOMAIN sockets'[f]
  PROVE  i \in DOMAIN sockets[f] /\ sockets'[f][i] = sockets[f][i] /\ sockets[f][i] \in SocketSet
<1>1. f # h
  BY DEF Evolves
<1> QED
  BY <1>1, EvolvesSockets, SocketTyped DEF TcpInv

\* It accepts a connection.
LEMMA NewStream ==
  ASSUME StreamInv, NEW h \in Hosts, NEW k \in DOMAIN sockets[h], NEW t, NEW segs, Evolves(h, k, t, segs),
         Accepted(h, k, t)
  PROVE  (\E o : Stream(h, sockets[h][k], o) /\ Pending(h, k, sockets[h][k], o))'
<1> DEFINE s == sockets[h][k]
           off == [n \in 1 .. 1 |-> Isn + 1]
<1>1. TcpInv /\ Origins
  BY DEF StreamInv
<1>2. s.state = "LISTEN" /\ s.rhost = NoHost /\ s.sent = <<>> /\ s.got = <<>> /\ ~Past(s)
  BY <1>1 DEF Accepted, TcpInv, Peers, Origins, Past
<1>3. sending[h] # NoSend => sending[h].sock # k
  BY <1>1, <1>2 DEF TcpInv, Connections, SendOK
<1>4. /\ t.sent = <<>> /\ t.seq = Isn + 1 /\ Silent(segs) /\ sending' = sending
  <2>1. Quiet(h, s, t, segs) /\ sending' = sending
    BY <1>2, <1>3 DEF Evolves, Sends, Gets
  <2>2. t.state = "SYN_RECEIVED"
    BY DEF Accepted
  <2> QED
    BY <1>2, <2>1, <2>2 DEF Quiet, Half, Receiving
<1>5. NoEnd(h, t)
  <2>1. t.rhost # NoHost /\ \A i \in DOMAIN sockets[h] : i # k =>
          <<sockets[h][i].lport, sockets[h][i].rhost, sockets[h][i].rport>> # <<t.lport, t.rhost, t.rport>>
    BY <1>1, AcceptedIsNew
  <2> QED
    BY <1>2, <2>1 DEF NoEnd, FromTo
<1>6. Offsets(<<>>, off) /\ off[1] = Isn + 1 /\ Len(<<>>) = 0
  BY OffsetsStart
<1> HIDE DEF off
<1>7. SenderOK(t, off)
  BY <1>4, <1>6 DEF SenderOK
<1>8. ASSUME NEW f \in Hosts, NEW m \in InTransit(net'[f]),
             m.src = h, m.flags = {"PSH", "ACK"}, FromTo(t, f, m.sport, m.dport)
      PROVE  FALSE
  <2>1. f = t.rhost
    BY <1>8 DEF FromTo
  <2>2. m \notin ToSet(segs)
    BY <1>4, <1>8 DEF ToSet, Silent
  <2>3. m \in InTransit(net[f])
    BY <2>2 DEF Evolves, Transmits
  <2> QED
    BY <1>1, <1>5, <1>8, <2>1, <2>3, NothingYet
<1>9. ASSUME NEW f \in Hosts, NEW i \in DOMAIN sockets'[f],
             t.rhost = f, FromTo(sockets'[f][i], h, t.rport, t.lport)
      PROVE  HasGot(sockets'[f][i], t.sent, off)
  <2>1. i \in DOMAIN sockets[f] /\ sockets'[f][i] = sockets[f][i]
    BY <1>1, <1>9, PeersStay
  <2>2. sockets[f][i].got = <<>> /\ sockets[f][i].state \notin Receiving
    BY <1>1, <1>5, <1>9, <2>1, NothingYet
  <2> QED
    BY <1>4, <1>6, <2>1, <2>2, HasGotNothing
<1>10. k \in DOMAIN sockets'[h] /\ t = sockets'[h][k]
  BY <1>1, EvolvesSockets
<1> QED
  BY <1>3, <1>4, <1>7, <1>8, <1>9, <1>10, StreamAfter

\* It sends a payload, its task's or its handler's.
Writes(t, segs, end, data) ==
  /\ t.state \in Half => t.seq = end + data.text + data.zeros
  /\ \A i \in DOMAIN segs : segs[i].flags = {"PSH", "ACK"} =>
       segs[i].seq = end /\ segs[i].data = data

LEMMA LongerStream ==
  ASSUME StreamInv, NEW h \in Hosts, NEW k \in DOMAIN sockets[h], NEW t, NEW segs, Evolves(h, k, t, segs),
         Kept(sockets[h][k], t),
         NEW off, Stream(h, sockets[h][k], off),
         NEW data \in TextData, t.sent = Append(sockets[h][k].sent, data),
         Writes(t, segs, off[Len(sockets[h][k].sent) + 1], data),
         sending'[h] = NoSend
  PROVE  (\E o : Stream(h, sockets[h][k], o) /\ Pending(h, k, sockets[h][k], o))'
<1> DEFINE s == sockets[h][k]
<1>1. TcpInv /\ Offsets(s.sent, off)
  BY DEF StreamInv, Stream, SenderOK
<1>2. PICK new :
        /\ Offsets(t.sent, new)
        /\ \A n \in 1 .. Len(s.sent) + 1 : new[n] = off[n]
        /\ new[Len(s.sent) + 2] = off[Len(s.sent) + 1] + data.text + data.zeros
  <2>1. ASSUME NEW sent, sent = s.sent
        PROVE  \E new :
                 /\ Offsets(Append(sent, data), new)
                 /\ \A n \in 1 .. Len(sent) + 1 : new[n] = off[n]
                 /\ new[Len(sent) + 2] = off[Len(sent) + 1] + data.text + data.zeros
    <3>1. Offsets(sent, off)
      BY <1>1, <2>1
    <3> QED
      BY <3>1, OffsetsAppend
  <2> QED
    BY <2>1
<1>3. t.rhost = s.rhost /\ t.lport = s.lport /\ t.rport = s.rport
  BY DEF Kept
<1>4. SenderOK(t, new)
  <2>1. s.sent \in Seq(TextData) /\ Len(t.sent) + 1 = Len(s.sent) + 2
    BY <1>1 DEF Offsets
  <2> QED
    BY <1>2, <2>1 DEF SenderOK, Writes
<1>5. ASSUME NEW f \in Hosts, NEW m \in InTransit(net'[f]),
             m.src = h, m.flags = {"PSH", "ACK"}, FromTo(t, f, m.sport, m.dport)
      PROVE  Carries(m, t.sent, new)
  <2>1. CASE m \in InTransit(net[f])
    <3>1. Carries(m, s.sent, off)
      BY <1>3, <1>5, <2>1 DEF Stream, FromTo
    <3> QED
      BY <1>1, <1>2, <3>1, CarriesMore
  <2>2. CASE m \in ToSet(segs)
    <3>1. m.seq = off[Len(s.sent) + 1] /\ m.data = data
      BY <1>5, <2>2 DEF ToSet, Writes
    <3>2. Carries(m, Append(s.sent, data), new)
      BY <1>1, <1>2, <3>1, CarriesMore
    <3> QED
      BY <3>2
  <2> QED
    BY <1>5, <2>1, <2>2 DEF Evolves, Transmits
<1>6. ASSUME NEW f \in Hosts, NEW i \in DOMAIN sockets'[f],
             t.rhost = f, FromTo(sockets'[f][i], h, t.rport, t.lport)
      PROVE  HasGot(sockets'[f][i], t.sent, new)
  <2>1. i \in DOMAIN sockets[f] /\ sockets'[f][i] = sockets[f][i] /\ sockets[f][i] \in SocketSet
    BY <1>1, <1>6, PeersStay
  <2>2. HasGot(sockets[f][i], s.sent, off)
    BY <1>3, <1>6, <2>1 DEF Stream
  <2> QED
    BY <1>1, <1>2, <2>1, <2>2, HasGotMore
<1>7. k \in DOMAIN sockets'[h] /\ t = sockets'[h][k]
  BY <1>1, EvolvesSockets
<1> QED
  BY <1>4, <1>5, <1>6, <1>7, StreamAfter

\* It sends none.
LEMMA SameStream ==
  ASSUME StreamInv, NEW h \in Hosts, NEW k \in DOMAIN sockets[h], NEW t, NEW segs, Evolves(h, k, t, segs),
         Kept(sockets[h][k], t), Silent(segs), t.sent = sockets[h][k].sent, sending' = sending,
         NEW off, Stream(h, sockets[h][k], off), Pending(h, k, sockets[h][k], off),
         t.state \in Half => t.seq = off[Len(t.sent) + 1]
  PROVE  (\E o : Stream(h, sockets[h][k], o) /\ Pending(h, k, sockets[h][k], o))'
<1> DEFINE s == sockets[h][k]
<1>1. TcpInv /\ SenderOK(t, off)
  BY DEF StreamInv, Stream, SenderOK
<1>2. t.rhost = s.rhost /\ t.lport = s.lport /\ t.rport = s.rport
  BY DEF Kept
<1>3. ASSUME NEW f \in Hosts, NEW m \in InTransit(net'[f]),
             m.src = h, m.flags = {"PSH", "ACK"}, FromTo(t, f, m.sport, m.dport)
      PROVE  Carries(m, t.sent, off)
  <2>1. m \notin ToSet(segs)
    BY <1>3 DEF ToSet, Silent
  <2>2. m \in InTransit(net[f])
    BY <2>1 DEF Evolves, Transmits
  <2> QED
    BY <1>2, <1>3, <2>2 DEF Stream, FromTo
<1>4. ASSUME NEW f \in Hosts, NEW i \in DOMAIN sockets'[f],
             t.rhost = f, FromTo(sockets'[f][i], h, t.rport, t.lport)
      PROVE  HasGot(sockets'[f][i], t.sent, off)
  <2>1. i \in DOMAIN sockets[f] /\ sockets'[f][i] = sockets[f][i]
    BY <1>1, <1>4, PeersStay
  <2> QED
    BY <1>2, <1>4, <2>1 DEF Stream
<1>5. k \in DOMAIN sockets'[h] /\ t = sockets'[h][k]
  BY <1>1, EvolvesSockets
<1>6. sending'[h] # NoSend /\ sending'[h].sock = k => sending'[h].seg.seq = off[Len(t.sent) + 1]
  BY DEF Pending
<1> QED
  BY <1>1, <1>3, <1>4, <1>5, <1>6, StreamAfter

LEMMA OwnStream ==
  ASSUME StreamInv, PayloadsFit, TextInPayloads, OneWriter,
         NEW h \in Hosts, NEW k \in DOMAIN sockets[h], NEW t, NEW segs, Evolves(h, k, t, segs)
  PROVE  (\E o : Stream(h, sockets[h][k], o) /\ Pending(h, k, sockets[h][k], o))'
<1> DEFINE s == sockets[h][k]
<1>1. CASE Accepted(h, k, t)
  BY <1>1, NewStream
<1>2. CASE Kept(s, t)
  <2>1. TcpInv /\ s \in SocketSet /\ s.seq \in Nat
    BY SocketTyped DEF StreamInv, TcpInv
  <2>2. PICK off : Stream(h, s, off) /\ Pending(h, k, s, off)
    BY DEF StreamInv, Streams
  <2>3. Offsets(s.sent, off) /\ (s.state \in Half => s.seq = off[Len(s.sent) + 1])
    BY <2>2 DEF Stream, SenderOK
  <2>4. CASE Quiet(h, s, t, segs) /\ sending' = sending
    <3>1. t.sent = s.sent /\ Silent(segs)
      BY <2>4 DEF Quiet
    <3>2. ASSUME t.state \in Half
          PROVE  t.seq = off[Len(t.sent) + 1]
      <4>1. CASE s.state \in {"LISTEN", "SYN_SENT"} /\ t.seq = Isn + 1
        <5>1. s.sent = <<>> /\ Len(<<>>) = 0 /\ off[1] = Isn + 1
          BY <2>3, <4>1 DEF StreamInv, Origins, Offsets
        <5> QED
          BY <3>1, <4>1, <5>1
      <4>2. CASE t.seq = s.seq /\ s.state \in Half
        BY <2>3, <3>1, <4>2
      <4> QED
        BY <2>4, <3>2, <4>1, <4>2 DEF Quiet, Half
    <3> QED
      BY <1>2, <2>2, <2>4, <3>1, <3>2, SameStream
  <2>5. CASE Sends(h, k, s, t, segs) /\ sending' = [sending EXCEPT ![h] = NoSend]
    <3> DEFINE m == sending[h].seg
               data == m.data
    <3>1. sending[h] # NoSend /\ k = sending[h].sock /\ t = Sent(s, data) /\ segs = <<m>>
      BY <2>5 DEF Sends
    <3>2. data \in TextData /\ data \in Data
      BY <3>1 DEF StreamInv, Origins, TextData
    <3>3. m.seq = off[Len(s.sent) + 1]
      BY <2>2, <3>1 DEF Pending
    <3>4. /\ t.sent = Append(s.sent, data) /\ t.seq = s.seq + data.text + data.zeros
          /\ t.state = s.state
      BY <2>1, <3>1, <3>2, SentTyped
    <3>5. \A i \in DOMAIN segs : segs[i] = m
      BY <3>1
    <3>6. sending'[h] = NoSend
      BY <2>1, <2>5 DEF TcpInv, Types
    <3> HIDE DEF m, s
    <3>7. Writes(t, segs, off[Len(s.sent) + 1], data)
      BY <2>3, <3>3, <3>4, <3>5 DEF Writes
    <3> HIDE DEF data
    <3> QED
      BY <1>2, <2>2, <3>2, <3>4, <3>6, <3>7, LongerStream DEF s
  <2>6. CASE Gets(h, s, t, segs) /\ sending' = sending
    <3>1. CASE t.sent = s.sent /\ Silent(segs) /\ t.state = s.state /\ t.seq = s.seq
      BY <1>2, <2>2, <2>3, <2>6, <3>1, SameStream
    <3>2. CASE t.sent = s.sent /\ Silent(segs) /\ t.state = "FIN_WAIT1"
      BY <1>2, <2>2, <2>6, <3>2, SameStream DEF Half
    <3>3. ASSUME "reply" \in HandlerActs[h], s.state = "ESTABLISHED", t.state = "ESTABLISHED",
                 NEW data \in Payloads, t.sent = Append(s.sent, data),
                 t.seq = s.seq + data.text + data.zeros,
                 \A i \in DOMAIN segs : segs[i].flags = {"PSH", "ACK"} =>
                   segs[i].seq = s.seq /\ segs[i].data = data
          PROVE  (\E o : Stream(h, sockets[h][k], o) /\ Pending(h, k, sockets[h][k], o))'
      <4>1. data \in TextData
        BY PayloadsAssumption DEF TextInPayloads, PayloadsAssumption, TextData, Data
      <4>2. sending'[h] = NoSend
        BY <2>6, <3>3 DEF OneWriter, StreamInv, Origins
      <4>3. s.seq = off[Len(s.sent) + 1]
        BY <2>3, <3>3 DEF Half
      <4>4. Writes(t, segs, off[Len(s.sent) + 1], data)
        BY <3>3, <4>3 DEF Writes
      <4> QED
        BY <1>2, <2>2, <3>3, <4>1, <4>2, <4>4, LongerStream
    <3>4. \/ t.sent = s.sent /\ Silent(segs) /\ t.state = s.state /\ t.seq = s.seq
          \/ t.sent = s.sent /\ Silent(segs) /\ t.state = "FIN_WAIT1"
          \/ /\ "reply" \in HandlerActs[h] /\ s.state = "ESTABLISHED" /\ t.state = "ESTABLISHED"
             /\ \E data \in Payloads :
                  /\ t.sent = Append(s.sent, data)
                  /\ t.seq = s.seq + data.text + data.zeros
                  /\ \A i \in DOMAIN segs : segs[i].flags = {"PSH", "ACK"} =>
                       segs[i].seq = s.seq /\ segs[i].data = data
      BY <2>6 DEF Gets
    <3> QED
      BY <3>1, <3>2, <3>3, <3>4
  <2> QED
    BY <2>4, <2>5, <2>6 DEF Evolves
<1> QED
  BY <1>1, <1>2 DEF Evolves

-----------------------------------------------------------------------------
LEMMA PeersRemain ==
  ASSUME Grows, NEW g \in Hosts, NEW h \in Hosts, NEW a, NEW b,
         NEW j \in DOMAIN sockets[g], FromTo(sockets[g][j], h, a, b)
  PROVE  \E i \in DOMAIN sockets'[g] : FromTo(sockets'[g][i], h, a, b)
  BY NoHostAssumption DEF Grows, FromTo, Kept, NoHostAssumption

LEMMA OriginEvolves ==
  ASSUME StreamInv, NEW h \in Hosts, NEW k \in DOMAIN sockets[h], NEW t, NEW segs, Evolves(h, k, t, segs)
  PROVE  /\ t.state \in {"LISTEN", "SYN_SENT"} => t.sent = <<>> /\ t.got = <<>>
         /\ t.got # <<>> =>
              /\ t.rhost # NoHost
              /\ \E j \in DOMAIN sockets[t.rhost] : FromTo(sockets[t.rhost][j], h, t.rport, t.lport)
<1> DEFINE s == sockets[h][k]
<1>1. /\ TcpInv /\ s \in SocketSet /\ (s.rhost = NoHost <=> s.state = "LISTEN") /\ SocketOK(h, s)
      /\ s.state \in {"LISTEN", "SYN_SENT"} => s.sent = <<>> /\ s.got = <<>>
      /\ s.got # <<>> =>
           /\ s.rhost # NoHost
           /\ \E j \in DOMAIN sockets[s.rhost] : FromTo(sockets[s.rhost][j], h, s.rport, s.lport)
  BY SocketTyped DEF StreamInv, TcpInv, Peers, Origins, Connections
<1>2. CASE Quiet(h, s, t, segs)
  <2>1. t.sent = s.sent /\ t.got = s.got
    BY <1>2 DEF Quiet
  <2>2. CASE Kept(s, t)
    BY <1>1, <2>1, <2>2 DEF Kept, Past
  <2>3. CASE Accepted(h, k, t)
    BY <1>1, <2>1, <2>3 DEF Accepted
  <2> QED
    BY <2>2, <2>3 DEF Evolves
<1>3. CASE Sends(h, k, s, t, segs)
  <2>1. Past(s) /\ sending[h].seg \in SegmentSet
    BY <1>1, <1>3 DEF Sends, TcpInv, Types, Connections, SendOK
  <2>2. t.state = s.state /\ t.got = s.got /\ t.rhost = s.rhost /\ t.lport = s.lport /\ t.rport = s.rport
    BY <1>1, <1>3, <2>1, SentTyped DEF Sends, SegmentSet
  <2> QED
    BY <1>1, <2>1, <2>2 DEF Past
<1>4. CASE Gets(h, s, t, segs)
  <2>1. s.state \in Open /\ s.state \notin {"LISTEN", "SYN_SENT"}
    BY <1>4 DEF Gets, Open, Half
  <2>2. PICK j \in DOMAIN sockets[s.rhost] : Agrees(sockets[s.rhost][j], h, s)
    BY <1>1, <2>1 DEF SocketOK
  <2>3. Kept(s, t)
    BY <2>1 DEF Evolves, Accepted
  <2>4. s.rhost # NoHost
    BY <1>1, <2>1
  <2> QED
    BY <2>1, <2>2, <2>3, <2>4 DEF Kept, Past, Agrees
<1> QED
  BY <1>2, <1>3, <1>4 DEF Evolves

LEMMA OriginsEvolve ==
  ASSUME StreamInv, NEW h \in Hosts, NEW k \in DOMAIN sockets[h], NEW t, NEW segs, Evolves(h, k, t, segs)
  PROVE  Origins'
<1>1. TcpInv /\ Grows
  BY EvolvesGrows DEF StreamInv
<1>2. ASSUME NEW g \in Hosts, sending'[g] # NoSend
      PROVE  g \in Talkers /\ sending'[g].seg.data \in TextData
  <2>1. sending'[g] = sending[g]
    BY <1>1, <1>2 DEF Evolves, TcpInv, Types
  <2> QED
    BY <1>2, <2>1 DEF StreamInv, Origins
<1>3. ASSUME NEW g \in Hosts, NEW i \in DOMAIN sockets'[g], NEW u, u = sockets'[g][i]
      PROVE  /\ u.state \in {"LISTEN", "SYN_SENT"} => u.sent = <<>> /\ u.got = <<>>
             /\ u.got # <<>> =>
                  /\ u.rhost # NoHost
                  /\ \E j \in DOMAIN sockets'[u.rhost] :
                       FromTo(sockets'[u.rhost][j], g, u.rport, u.lport)
  <2>1. /\ u.state \in {"LISTEN", "SYN_SENT"} => u.sent = <<>> /\ u.got = <<>>
        /\ u.got # <<>> =>
             /\ u.rhost # NoHost
             /\ \E j \in DOMAIN sockets[u.rhost] :
                  FromTo(sockets[u.rhost][j], g, u.rport, u.lport)
    <3>1. CASE g = h /\ i = k
      <4>1. u = t
        BY <1>1, <1>3, <3>1, EvolvesSockets
      <4> QED
        BY <3>1, <4>1, OriginEvolves
    <3>2. CASE ~(g = h /\ i = k)
      <4>1. i \in DOMAIN sockets[g] /\ u = sockets[g][i]
        BY <1>1, <1>3, <3>2, EvolvesSockets
      <4> QED
        BY <4>1 DEF StreamInv, Origins
    <3> QED
      BY <3>1, <3>2
  <2>2. u.rhost \in Hosts \cup {NoHost}
    <3>1. u \in SocketSet
      BY <1>1, <1>3, EvolvesSockets
    <3> QED
      BY <3>1 DEF SocketSet
  <2> QED
    BY <1>1, <2>1, <2>2, PeersRemain
<1> QED
  BY <1>2, <1>3 DEF Origins

LEMMA StreamsEvolve ==
  ASSUME StreamInv, PayloadsFit, TextInPayloads, OneWriter,
         NEW h \in Hosts, NEW k \in DOMAIN sockets[h], NEW t, NEW segs, Evolves(h, k, t, segs)
  PROVE  StreamInv'
<1>1. TcpInv /\ TcpInv'
  BY EvolvesKeeps DEF StreamInv
<1>2. \A g \in Hosts : DOMAIN sockets'[g] = DOMAIN sockets[g]
  BY <1>1, EvolvesSockets
<1>3. Streams'
  BY <1>2, OtherStreams, OwnStream DEF Streams
<1> QED
  BY <1>1, <1>3, OriginsEvolve DEF StreamInv

-----------------------------------------------------------------------------
\* A Listen or a Connect: a new stream, of nothing, and no change to the others.
LEMMA StreamOpens ==
  ASSUME StreamInv, NEW h \in Hosts, NEW t, NEW segs, Opens(h, t, segs),
         NEW last, last = Len(sockets[h]) + 1
  PROVE  (\E o : Stream(h, sockets[h][last], o) /\ Pending(h, last, sockets[h][last], o))'
<1> DEFINE off == [n \in 1 .. 1 |-> Isn + 1]
<1>1. TcpInv /\ Origins
  BY DEF StreamInv
<1>2. /\ t.sent = <<>> /\ t.got = <<>> /\ t.state \in {"LISTEN", "SYN_SENT"}
      /\ Silent(segs) /\ sending' = sending
      /\ t.state = "SYN_SENT" => h \in Clients /\ t.rhost \in Hosts \ {h} /\ t.lport = freePort[h]
      /\ t.state = "LISTEN" => t.rhost = NoHost
  <2>1. CASE segs = <<>>
    BY <2>1 DEF Opens, Silent
  <2>2. CASE \A i \in DOMAIN segs : segs[i].flags = {"SYN"}
    <3>1. {"SYN"} # {"PSH", "ACK"}
      OBVIOUS
    <3> QED
      BY <2>2, <3>1 DEF Opens, Silent
  <2> QED
    BY <2>1, <2>2 DEF Opens
<1>3. ASSUME NEW f \in Hosts, f = t.rhost
      PROVE  t.state = "SYN_SENT" /\ f # h /\ NoEnd(h, t)
  <2>1. t.state = "SYN_SENT"
    BY <1>2, <1>3, NoHostAssumption DEF NoHostAssumption
  <2>2. \A i \in DOMAIN sockets[h] : sockets[h][i].lport # t.lport
    BY <1>1, <1>2, <2>1, PortIsFree DEF Opens
  <2> QED
    BY <1>2, <1>3, <2>1, <2>2 DEF NoEnd, FromTo
<1>4. Offsets(<<>>, off) /\ off[1] = Isn + 1 /\ Len(<<>>) = 0
  BY OffsetsStart
<1> HIDE DEF off
<1>5. SenderOK(t, off)
  BY <1>2, <1>4 DEF SenderOK, Half
<1>6. ASSUME NEW f \in Hosts, NEW m \in InTransit(net'[f]),
             m.src = h, m.flags = {"PSH", "ACK"}, FromTo(t, f, m.sport, m.dport)
      PROVE  FALSE
  <2>1. f = t.rhost
    BY <1>6 DEF FromTo
  <2>2. m \notin ToSet(segs)
    BY <1>2, <1>6 DEF ToSet, Silent
  <2>3. m \in InTransit(net[f])
    BY <2>2 DEF Opens, Transmits
  <2> QED
    BY <1>1, <1>3, <1>6, <2>1, <2>3, NothingYet
<1>7. ASSUME NEW f \in Hosts, NEW i \in DOMAIN sockets'[f],
             t.rhost = f, FromTo(sockets'[f][i], h, t.rport, t.lport)
      PROVE  HasGot(sockets'[f][i], t.sent, off)
  <2>1. i \in DOMAIN sockets[f] /\ sockets'[f][i] = sockets[f][i]
    BY <1>1, <1>3, <1>7, OpensSockets
  <2>2. sockets[f][i].got = <<>> /\ sockets[f][i].state \notin Receiving
    BY <1>1, <1>3, <1>7, <2>1, NothingYet
  <2> QED
    BY <1>2, <1>4, <2>1, <2>2, HasGotNothing
<1>8. last \in DOMAIN sockets'[h] /\ t = sockets'[h][last]
  BY <1>1, OpensSockets
<1>9. sending'[h] # NoSend => sending'[h].sock # last
  BY <1>1, <1>2 DEF TcpInv, Types, Peers
<1> QED
  BY <1>5, <1>6, <1>7, <1>8, <1>9, StreamAfter

LEMMA OthersOpen ==
  ASSUME StreamInv, NEW h \in Hosts, NEW t, NEW segs, Opens(h, t, segs),
         NEW g \in Hosts, NEW j \in DOMAIN sockets[g]
  PROVE  (\E o : Stream(g, sockets[g][j], o) /\ Pending(g, j, sockets[g][j], o))'
<1>1. TcpInv
  BY DEF StreamInv
<1>2. PICK u : u = sockets[g][j]
  OBVIOUS
<1>3. PICK off : Stream(g, u, off) /\ Pending(g, j, u, off)
  BY <1>2 DEF StreamInv, Streams
<1>4. u = sockets'[g][j] /\ j \in DOMAIN sockets'[g]
  BY <1>1, <1>2, OpensSockets
<1>5. ASSUME NEW f \in Hosts, NEW m \in InTransit(net'[f]),
             m.src = g, m.flags = {"PSH", "ACK"}, FromTo(u, f, m.sport, m.dport)
      PROVE  Carries(m, u.sent, off)
  <2>1. {"SYN"} # {"PSH", "ACK"}
    OBVIOUS
  <2>2. m \notin ToSet(segs)
    <3>1. segs = <<>> \/ \A i \in DOMAIN segs : segs[i].flags = {"SYN"}
      BY DEF Opens
    <3>2. CASE segs = <<>>
      BY <3>2 DEF ToSet
    <3>3. CASE \A i \in DOMAIN segs : segs[i].flags = {"SYN"}
      BY <1>5, <2>1, <3>3 DEF ToSet
    <3> QED
      BY <3>1, <3>2, <3>3
  <2>3. m \in InTransit(net[f])
    BY <2>2 DEF Opens, Transmits
  <2> QED
    BY <1>3, <1>5, <2>3 DEF Stream
<1>6. ASSUME NEW f \in Hosts, NEW i \in DOMAIN sockets'[f],
             u.rhost = f, FromTo(sockets'[f][i], g, u.rport, u.lport)
      PROVE  HasGot(sockets'[f][i], u.sent, off)
  <2>1. CASE f = h /\ i = Len(sockets[h]) + 1
    <3>1. sockets'[f][i] = t
      BY <1>1, <2>1, OpensSockets
    <3>2. t.got = <<>> /\ t.state \notin Receiving
      BY DEF Opens, Receiving, Half
    <3>3. Offsets(u.sent, off)
      BY <1>3 DEF Stream, SenderOK
    <3> QED
      BY <3>1, <3>2, <3>3, HasGotNothing
  <2>2. CASE ~(f = h /\ i = Len(sockets[h]) + 1)
    <3>1. i \in DOMAIN sockets[f] /\ sockets'[f][i] = sockets[f][i]
      BY <1>1, <2>2, OpensSockets
    <3> QED
      BY <1>3, <1>6, <3>1 DEF Stream
  <2> QED
    BY <2>1, <2>2
<1>7. sending'[g] # NoSend /\ sending'[g].sock = j => sending'[g].seg.seq = off[Len(u.sent) + 1]
  BY <1>3 DEF Pending, Opens
<1>8. SenderOK(u, off)
  BY <1>3 DEF Stream
<1> QED
  BY <1>4, <1>5, <1>6, <1>7, <1>8, StreamAfter

LEMMA StreamsOpen ==
  ASSUME StreamInv, NEW h \in Hosts, NEW t, NEW segs, Opens(h, t, segs)
  PROVE  StreamInv'
<1>1. TcpInv /\ TcpInv' /\ Grows
  BY OpensKeeps, OpensTypes DEF StreamInv
<1>2. PICK last : last = Len(sockets[h]) + 1
  OBVIOUS
<1>3. Streams'
  <2> SUFFICES ASSUME NEW g \in Hosts, NEW j \in DOMAIN sockets'[g]
               PROVE  (\E o : Stream(g, sockets[g][j], o) /\ Pending(g, j, sockets[g][j], o))'
    BY DEF Streams
  <2>1. CASE g = h /\ j = last
    BY <1>2, <2>1, StreamOpens
  <2>2. CASE ~(g = h /\ j = last)
    <3>1. j \in DOMAIN sockets[g]
      BY <1>1, <1>2, <2>2, OpensSockets
    <3> QED
      BY <3>1, OthersOpen
  <2> QED
    BY <2>1, <2>2
<1>4. Origins'
  <2>1. ASSUME NEW g \in Hosts, sending'[g] # NoSend
        PROVE  g \in Talkers /\ sending'[g].seg.data \in TextData
    BY <2>1 DEF Opens, StreamInv, Origins
  <2>2. ASSUME NEW g \in Hosts, NEW i \in DOMAIN sockets'[g], NEW u, u = sockets'[g][i]
        PROVE  /\ u.state \in {"LISTEN", "SYN_SENT"} => u.sent = <<>> /\ u.got = <<>>
               /\ u.got # <<>> =>
                    /\ u.rhost # NoHost
                    /\ \E j \in DOMAIN sockets'[u.rhost] :
                         FromTo(sockets'[u.rhost][j], g, u.rport, u.lport)
    <3>1. CASE g = h /\ i = last
      <4>1. u = t
        BY <1>1, <1>2, <2>2, <3>1, OpensSockets
      <4> QED
        BY <4>1 DEF Opens
    <3>2. CASE ~(g = h /\ i = last)
      <4>1. i \in DOMAIN sockets[g] /\ u = sockets[g][i] /\ u \in SocketSet
        BY <1>1, <1>2, <2>2, <3>2, OpensSockets, SocketTyped DEF TcpInv
      <4>2. u.rhost \in Hosts \cup {NoHost}
        BY <4>1 DEF SocketSet
      <4>3. /\ u.state \in {"LISTEN", "SYN_SENT"} => u.sent = <<>> /\ u.got = <<>>
            /\ u.got # <<>> =>
                 /\ u.rhost # NoHost
                 /\ \E j \in DOMAIN sockets[u.rhost] :
                      FromTo(sockets[u.rhost][j], g, u.rport, u.lport)
        BY <4>1 DEF StreamInv, Origins
      <4> QED
        BY <1>1, <4>2, <4>3, PeersRemain
    <3> QED
      BY <3>1, <3>2
  <2> QED
    BY <2>1, <2>2 DEF Origins
<1> QED
  BY <1>1, <1>3, <1>4 DEF StreamInv

\* A step that leaves the sockets alone: no more is on its way, and what a
\* task begins to send has the next sequence number.
LEMMA StreamsStay ==
  ASSUME StreamInv, TcpInv', sockets' = sockets,
         \A g \in Hosts : InTransit(net'[g]) \subseteq InTransit(net[g]),
         \A g \in Hosts : sending'[g] # NoSend /\ sending'[g] # sending[g] =>
           /\ g \in Talkers /\ sending'[g].seg.data \in TextData
           /\ sockets[g][sending'[g].sock].state \in Half
           /\ sending'[g].seg.seq = sockets[g][sending'[g].sock].seq
  PROVE  StreamInv'
<1>1. ASSUME NEW g \in Hosts, NEW j \in DOMAIN sockets[g]
      PROVE  (\E o : Stream(g, sockets[g][j], o) /\ Pending(g, j, sockets[g][j], o))'
  <2>1. PICK u : u = sockets[g][j]
    OBVIOUS
  <2>2. PICK off : Stream(g, u, off) /\ Pending(g, j, u, off)
    BY <2>1 DEF StreamInv, Streams
  <2>3. SenderOK(u, off) /\ u = sockets'[g][j]
    BY <2>1, <2>2 DEF Stream
  <2>4. ASSUME NEW f \in Hosts, NEW m \in InTransit(net'[f]),
               m.src = g, m.flags = {"PSH", "ACK"}, FromTo(u, f, m.sport, m.dport)
        PROVE  Carries(m, u.sent, off)
    BY <2>2, <2>4 DEF Stream
  <2>5. ASSUME NEW f \in Hosts, NEW i \in DOMAIN sockets'[f],
               u.rhost = f, FromTo(sockets'[f][i], g, u.rport, u.lport)
        PROVE  HasGot(sockets'[f][i], u.sent, off)
    BY <2>2, <2>5 DEF Stream
  <2>6. sending'[g] # NoSend /\ sending'[g].sock = j => sending'[g].seg.seq = off[Len(u.sent) + 1]
    BY <2>1, <2>2, <2>3 DEF Pending, SenderOK
  <2> QED
    BY <2>3, <2>4, <2>5, <2>6, StreamAfter
<1>2. Streams'
  BY <1>1 DEF Streams
<1>3. Origins'
  BY DEF StreamInv, Origins
<1> QED
  BY <1>2, <1>3 DEF StreamInv

LEMMA IgnoreStreams ==
  ASSUME StreamInv, NEW h \in Hosts, NEW m \in Arriving(net[h]), Ignore(h, m)
  PROVE  StreamInv'
<1>1. TcpInv /\ TcpInv'
  BY IgnoreKeeps DEF StreamInv
<1>2. net \in [Hosts -> Queues] /\ net' = [net EXCEPT ![h] = Rest(@)]
  BY <1>1 DEF TcpInv, Types, Queues, Ignore
<1>3. InTransit(Rest(net[h])) \subseteq InTransit(net[h])
  BY <1>2, RestSegments
<1>4. \A g \in Hosts : InTransit(net'[g]) \subseteq InTransit(net[g])
  BY <1>2, <1>3
<1> QED
  BY <1>1, <1>4, StreamsStay DEF Ignore

LEMMA SendBeginStreams ==
  ASSUME StreamInv, PayloadsFit, TextInPayloads,
         NEW h \in Hosts, NEW k \in DOMAIN sockets[h], NEW data \in Payloads, SendBegin(h, k, data)
  PROVE  StreamInv'
<1> DEFINE b == [sock |-> k, seg |-> Segment(h, sockets[h][k], {"PSH", "ACK"}, data)]
<1>1. TcpInv /\ TcpInv'
  BY SendBeginKeeps DEF StreamInv
<1>2. data \in TextData
  BY PayloadsAssumption DEF TextInPayloads, PayloadsAssumption, TextData, Data
<1>3. /\ h \in Talkers /\ sockets[h][k].state \in Half
      /\ sockets' = sockets /\ net' = net /\ sending' = [sending EXCEPT ![h] = b]
  BY DEF SendBegin, Half
<1>4. b.sock = k /\ b.seg.data = data /\ b.seg.seq = sockets[h][k].seq
  BY DEF Segment
<1> HIDE DEF b
<1>5. \A g \in Hosts : sending'[g] = IF g = h THEN b ELSE sending[g]
  BY <1>1, <1>3 DEF TcpInv, Types
<1> QED
  BY <1>1, <1>2, <1>3, <1>4, <1>5, StreamsStay

LEMMA StreamStep ==
  ASSUME PayloadsFit, TextInPayloads, OneWriter, StreamInv, [TcpNext]_tcpVars
  PROVE  StreamInv'
<1>1. TcpInv
  BY DEF StreamInv
<1>2. CASE TcpNext
  BY <1>1, <1>2, StepForms, StreamsOpen, StreamsEvolve, SendBeginStreams, IgnoreStreams
<1>3. CASE UNCHANGED tcpVars
  <2>1. sockets' = sockets /\ sending' = sending /\ net' = net
    BY <1>3 DEF tcpVars
  <2>2. TcpInv'
    BY <1>1, <1>3, TcpStep
  <2> QED
    BY <2>1, <2>2, StreamsStay
<1> QED
  BY <1>2, <1>3

(***************************************************************************)
(* The invariant that delivery in order rests on: each data segment that   *)
(* may ever arrive carries the payload that its sequence number stands for *)
(* (tcp.cpp:212-227, 314-317).                                             *)
(***************************************************************************)
THEOREM StreamInvariant ==
  ASSUME PayloadsFit, TextInPayloads, OneWriter
  PROVE  TcpSpec => []StreamInv
<1>1. TcpInit => StreamInv
  <2> SUFFICES ASSUME TcpInit
               PROVE  StreamInv
    OBVIOUS
  <2>1. \A h \in Hosts : DOMAIN sockets[h] = {} /\ sending[h] = NoSend
    BY DEF TcpInit
  <2> QED
    BY <2>1, Initially DEF StreamInv, Streams, Origins
<1>2. StreamInv /\ [TcpNext]_tcpVars => StreamInv'
  BY StreamStep
<1> QED
  BY <1>1, <1>2, PTL DEF TcpSpec

(***************************************************************************)
(* What a handler is given is, in order and without a gap or a repetition, *)
(* what the other end sent, on a network that loses, repeats and reorders  *)
(* segments: provided that every payload has a nonzero byte and is not so  *)
(* short, or of such a size, that the receiver finds more or less than was *)
(* sent, and that no handler replies on a host whose tasks send.           *)
(***************************************************************************)
THEOREM DeliveredInOrder ==
  ASSUME PayloadsFit, TextInPayloads, OneWriter
  PROVE  TcpSpec => []InOrder
<1>1. ASSUME StreamInv, NEW h \in Hosts, NEW k \in DOMAIN sockets[h], NEW g \in Hosts,
             sockets[h][k].rhost = g, NEW j \in DOMAIN sockets[g], Ends(h, k, j)
      PROVE  /\ Len(sockets[h][k].got) <= Len(sockets[g][j].sent)
             /\ \A n \in DOMAIN sockets[h][k].got :
                  sockets[h][k].got[n] = sockets[g][j].sent[n]
  <2> DEFINE s == sockets[h][k]
             u == sockets[g][j]
  <2>1. PICK off : Stream(g, u, off)
    BY <1>1 DEF StreamInv, Streams
  <2>2. u.rhost = h /\ FromTo(s, g, u.rport, u.lport)
    BY <1>1 DEF Ends, FromTo
  <2>3. HasGot(s, u.sent, off)
    BY <2>1, <2>2 DEF Stream
  <2>4. s.got \in Seq(Data)
    BY <1>1, SocketTyped DEF StreamInv, TcpInv, SocketSet
  <2> QED
    BY <2>3, <2>4 DEF HasGot
<1>2. ASSUME StreamInv, NEW h \in Hosts, NEW k \in DOMAIN sockets[h], sockets[h][k].rhost # NoHost
      PROVE  sockets[h][k].rhost \in Hosts
  BY <1>2, SocketTyped DEF StreamInv, TcpInv, SocketSet
<1>3. StreamInv => InOrder
  BY <1>1, <1>2 DEF InOrder
<1> QED
  BY <1>3, StreamInvariant, PTL

-----------------------------------------------------------------------------
(***************************************************************************)
(* Delivery before the end, on a reliable network.  It needs that where a  *)
(* task sends the handler does not close, as the FIN could come between    *)
(* the two steps of the task's Send (tcp.cpp:314-322) and the data after   *)
(* it.  Sequence numbers play no part: what they do not fit is refused.    *)
(***************************************************************************)
OneCloser == \A h \in Talkers : "close" \notin HandlerActs[h]

Outgoing == {"SYN_SENT", "SYN_RECEIVED", "ESTABLISHED", "FIN_WAIT1", "FIN_WAIT2"}
Incoming == {"SYN_SENT", "SYN_RECEIVED", "ESTABLISHED", "CLOSE_WAIT"}

Finishing == {"FIN_WAIT1", "FIN_WAIT2"}

\* The queue q carries, in the segments of D and in order, what is left of sent after got.
Carried(q, D, sent, got) ==
  /\ Len(got) <= Len(sent)
  /\ \A n \in 1 .. Len(got) : got[n] = sent[n]
  /\ \E pos \in [Len(got) + 1 .. Len(sent) -> DOMAIN q] :
       /\ \A n \in Len(got) + 1 .. Len(sent) : q[pos[n]] \in D /\ q[pos[n]].data = sent[n]
       /\ \A n, i \in Len(got) + 1 .. Len(sent) : n < i => pos[n] < pos[i]
       /\ \A p \in DOMAIN q : q[p] \in D => \E n \in Len(got) + 1 .. Len(sent) : pos[n] = p

\* Where the segments of a set are in q: an acknowledgement before all data,
\* all data before the position p, or none at all.
AckFirst(q, A, D) == \E p \in DOMAIN q : q[p] \in A /\ \A i \in DOMAIN q : q[i] \in D => p < i
AllBefore(q, D, p) == \A i \in DOMAIN q : q[i] \in D => i < p
NoneOf(q, D) == \A i \in DOMAIN q : q[i] \notin D

(***************************************************************************)
(* What holds of the socket t, its peer s and the queue q to the peer, the *)
(* connection's data, plain ACKs and FINs being D, A and F, as long as no  *)
(* end has given up.                                                       *)
(***************************************************************************)
Delivery(q, D, A, F, t, s) ==
  /\ Carried(q, D, t.sent, s.got)
  /\ t.state \in {"SYN_SENT", "SYN_RECEIVED"} => t.sent = <<>>
  /\ s.state = "SYN_RECEIVED" =>
       t.state # "SYN_RECEIVED" /\ (t.state = "SYN_SENT" \/ AckFirst(q, A, D))
  /\ \A p \in DOMAIN q : q[p] \in F => t.state \in Finishing /\ AllBefore(q, D, p)
  /\ s.state = "CLOSE_WAIT" => t.state \in Finishing /\ NoneOf(q, D)

LEMMA Dequeued ==
  ASSUME NEW q \in Seq(SegmentSet), q # <<>>
  PROVE  /\ Tail(q) \in Seq(SegmentSet)
         /\ 1 \in DOMAIN q /\ Head(q) = q[1] /\ Head(q) \in SegmentSet
         /\ \A p \in DOMAIN q : p \in Nat /\ p >= 1
         /\ \A p \in DOMAIN Tail(q) :
              p \in Nat /\ p >= 1 /\ p + 1 \in DOMAIN q /\ Tail(q)[p] = q[p + 1]
         /\ \A p \in DOMAIN q : p # 1 => p - 1 \in DOMAIN Tail(q) /\ Tail(q)[p - 1] = q[p]
<1>1. Len(q) \in Nat /\ Len(q) >= 1 /\ DOMAIN q = 1 .. Len(q)
  BY SMT
<1>2. Tail(q) \in Seq(SegmentSet) /\ Len(Tail(q)) = Len(q) - 1 /\ Head(q) = q[1]
  BY <1>1
<1>3. DOMAIN Tail(q) = 1 .. Len(q) - 1 /\ \A p \in 1 .. Len(q) - 1 : Tail(q)[p] = q[p + 1]
  BY <1>1, <1>2
<1> QED
  BY <1>1, <1>2, <1>3

LEMMA Enqueued ==
  ASSUME NEW q \in Seq(SegmentSet), NEW m \in SegmentSet
  PROVE  /\ Append(q, m) \in Seq(SegmentSet)
         /\ Len(q) + 1 \in Nat /\ Append(q, m)[Len(q) + 1] = m
         /\ DOMAIN Append(q, m) = DOMAIN q \cup {Len(q) + 1}
         /\ \A p \in DOMAIN q : p \in Nat /\ p < Len(q) + 1 /\ Append(q, m)[p] = q[p]
  OBVIOUS

LEMMA CarriedAt ==
  ASSUME NEW q, NEW D, NEW sent, NEW got, Len(got) <= Len(sent),
         \A n \in 1 .. Len(got) : got[n] = sent[n],
         NEW N, N = Len(got) + 1 .. Len(sent), NEW pos \in [N -> DOMAIN q],
         \A n \in N : q[pos[n]] \in D /\ q[pos[n]].data = sent[n],
         \A n, i \in N : n < i => pos[n] < pos[i],
         \A p \in DOMAIN q : q[p] \in D => \E n \in N : pos[n] = p
  PROVE  Carried(q, D, sent, got)
<1>1. \E f \in [N -> DOMAIN q] :
        /\ \A n \in N : q[f[n]] \in D /\ q[f[n]].data = sent[n]
        /\ \A n, i \in N : n < i => f[n] < f[i]
        /\ \A p \in DOMAIN q : q[p] \in D => \E n \in N : f[n] = p
  BY Zenon
<1> QED
  BY <1>1, Zenon DEF Carried

LEMMA CarriedSkip ==
  ASSUME NEW q \in Seq(SegmentSet), q # <<>>, NEW D, Head(q) \notin D,
         NEW sent \in Seq(Data), NEW got \in Seq(Data), Carried(q, D, sent, got)
  PROVE  Carried(Tail(q), D, sent, got)
<1> DEFINE N == Len(got) + 1 .. Len(sent)
<1>1. PICK pos :
        /\ pos \in [N -> DOMAIN q]
        /\ \A n \in N : q[pos[n]] \in D /\ q[pos[n]].data = sent[n]
        /\ \A n, i \in N : n < i => pos[n] < pos[i]
        /\ \A p \in DOMAIN q : q[p] \in D => \E n \in N : pos[n] = p
  BY DEF Carried
<1> DEFINE new == [n \in N |-> pos[n] - 1]
<1> HIDE DEF N
<1>2. \A n \in N : pos[n] \in DOMAIN q /\ pos[n] \in Nat /\ pos[n] # 1
  BY <1>1, Dequeued
<1>3. \A n \in N : new[n] \in DOMAIN Tail(q) /\ Tail(q)[new[n]] = q[pos[n]] /\ new[n] = pos[n] - 1
  BY <1>2, Dequeued
<1>4. new \in [N -> DOMAIN Tail(q)]
  BY <1>3
<1> HIDE DEF new
<1>5. \A n, i \in N : n < i => new[n] < new[i]
  BY <1>1, <1>2, <1>3
<1>6. ASSUME NEW p \in DOMAIN Tail(q), Tail(q)[p] \in D
      PROVE  \E n \in N : new[n] = p
  <2>1. p \in Nat /\ p + 1 \in DOMAIN q /\ q[p + 1] \in D
    BY <1>6, Dequeued
  <2>2. PICK n \in N : pos[n] = p + 1
    BY <1>1, <2>1
  <2> QED
    BY <1>3, <2>1, <2>2
<1>7. \A n \in N : Tail(q)[new[n]] \in D /\ Tail(q)[new[n]].data = sent[n]
  BY <1>1, <1>3
<1>8. Len(got) <= Len(sent) /\ \A n \in 1 .. Len(got) : got[n] = sent[n]
  BY DEF Carried
<1>9. \E f \in [N -> DOMAIN Tail(q)] :
         /\ \A n \in N : Tail(q)[f[n]] \in D /\ Tail(q)[f[n]].data = sent[n]
         /\ \A n, i \in N : n < i => f[n] < f[i]
         /\ \A p \in DOMAIN Tail(q) : Tail(q)[p] \in D => \E n \in N : f[n] = p
  <2> WITNESS new \in [N -> DOMAIN Tail(q)]
  <2> QED
    BY <1>5, <1>6, <1>7
<1> QED
  BY <1>8, <1>9, Zenon DEF Carried, N

LEMMA CarriedTake ==
  ASSUME NEW q \in Seq(SegmentSet), q # <<>>, NEW D, Head(q) \in D,
         NEW sent \in Seq(Data), NEW got \in Seq(Data), Carried(q, D, sent, got)
  PROVE  Carried(Tail(q), D, sent, Append(got, Head(q).data))
<1> DEFINE l == Len(got)
           N == l + 1 .. Len(sent)
           M == l + 2 .. Len(sent)
           more == Append(got, Head(q).data)
<1>1. PICK pos :
        /\ pos \in [N -> DOMAIN q]
        /\ \A n \in N : q[pos[n]] \in D /\ q[pos[n]].data = sent[n]
        /\ \A n, i \in N : n < i => pos[n] < pos[i]
        /\ \A p \in DOMAIN q : q[p] \in D => \E n \in N : pos[n] = p
  BY DEF Carried
<1>2. l \in Nat /\ Len(sent) \in Nat /\ l <= Len(sent) /\ \A n \in 1 .. l : got[n] = sent[n]
  BY DEF Carried
<1> HIDE DEF l
<1>3. \A n \in N : pos[n] \in DOMAIN q /\ pos[n] \in Nat /\ pos[n] >= 1
  BY <1>1, Dequeued
<1>4. l + 1 \in N /\ pos[l + 1] = 1
  <2>1. PICK n \in N : pos[n] = 1
    BY <1>1, Dequeued
  <2>2. l + 1 \in N /\ (n = l + 1 \/ l + 1 < n)
    BY <1>2
  <2> QED
    BY <1>1, <1>3, <2>1, <2>2
<1>5. Head(q).data = sent[l + 1] /\ l + 1 <= Len(sent)
  BY <1>1, <1>2, <1>4, Dequeued
<1>6. Head(q).data \in Data
  BY Dequeued DEF SegmentSet
<1>7. /\ Len(more) = l + 1 /\ more[l + 1] = Head(q).data
      /\ \A n \in 1 .. l : more[n] = got[n]
  BY <1>2, <1>6 DEF l
<1> HIDE DEF more
<1>8. ASSUME NEW n \in 1 .. Len(more)
      PROVE  more[n] = sent[n]
  <2>1. n = l + 1 \/ n \in 1 .. l
    BY <1>2, <1>7
  <2> QED
    BY <1>2, <1>5, <1>7, <2>1
<1> DEFINE new == [n \in M |-> pos[n] - 1]
<1>9. \A n \in M : n \in N /\ l + 1 < n
  BY <1>2
<1>10. \A n \in N : n = l + 1 \/ n \in M
  BY <1>2
<1> HIDE DEF N
<1>11. \A n \in M : pos[n] # 1
  BY <1>1, <1>3, <1>4, <1>9
<1> HIDE DEF M
<1>12. \A n \in M : new[n] \in DOMAIN Tail(q) /\ Tail(q)[new[n]] = q[pos[n]] /\ new[n] = pos[n] - 1
  BY <1>3, <1>9, <1>11, Dequeued
<1>13. new \in [M -> DOMAIN Tail(q)]
  BY <1>12
<1> HIDE DEF new
<1>14. \A n, i \in M : n < i => new[n] < new[i]
  BY <1>1, <1>3, <1>9, <1>12
<1>15. ASSUME NEW p \in DOMAIN Tail(q), Tail(q)[p] \in D
       PROVE  \E n \in M : new[n] = p
  <2>1. p \in Nat /\ p >= 1 /\ p + 1 \in DOMAIN q /\ q[p + 1] \in D
    BY <1>15, Dequeued
  <2>2. PICK n \in N : pos[n] = p + 1
    BY <1>1, <2>1
  <2>3. n \in M
    BY <1>4, <1>10, <2>1, <2>2
  <2> QED
    BY <1>12, <2>1, <2>2, <2>3
<1>16. \A n \in M : Tail(q)[new[n]] \in D /\ Tail(q)[new[n]].data = sent[n]
  BY <1>1, <1>9, <1>12
<1>17. M = Len(more) + 1 .. Len(sent) /\ Len(more) <= Len(sent)
  BY <1>2, <1>5, <1>7 DEF M
<1>18. Carried(Tail(q), D, sent, more)
  BY <1>8, <1>13, <1>14, <1>15, <1>16, <1>17, CarriedAt, ZenonT(60)
<1> QED
  BY <1>18 DEF more

LEMMA CarriedPut ==
  ASSUME NEW q \in Seq(SegmentSet), NEW m \in SegmentSet, NEW D, m \notin D,
         NEW sent \in Seq(Data), NEW got \in Seq(Data), Carried(q, D, sent, got)
  PROVE  Carried(Append(q, m), D, sent, got)
<1> DEFINE N == Len(got) + 1 .. Len(sent)
<1>1. PICK pos :
        /\ pos \in [N -> DOMAIN q]
        /\ \A n \in N : q[pos[n]] \in D /\ q[pos[n]].data = sent[n]
        /\ \A n, i \in N : n < i => pos[n] < pos[i]
        /\ \A p \in DOMAIN q : q[p] \in D => \E n \in N : pos[n] = p
  BY DEF Carried
<1> HIDE DEF N
<1>2. \A n \in N : pos[n] \in DOMAIN Append(q, m) /\ Append(q, m)[pos[n]] = q[pos[n]]
  BY <1>1, Enqueued
<1>3. pos \in [N -> DOMAIN Append(q, m)]
  BY <1>1, <1>2
<1>4. \A p \in DOMAIN Append(q, m) : Append(q, m)[p] \in D => \E n \in N : pos[n] = p
  BY <1>1, Enqueued
<1>5. \A n \in N : Append(q, m)[pos[n]] \in D /\ Append(q, m)[pos[n]].data = sent[n]
  BY <1>1, <1>2
<1>6. Len(got) <= Len(sent) /\ \A n \in 1 .. Len(got) : got[n] = sent[n]
  BY DEF Carried
<1>7. \E f \in [N -> DOMAIN Append(q, m)] :
         /\ \A n \in N : Append(q, m)[f[n]] \in D /\ Append(q, m)[f[n]].data = sent[n]
         /\ \A n, i \in N : n < i => f[n] < f[i]
         /\ \A p \in DOMAIN Append(q, m) : Append(q, m)[p] \in D => \E n \in N : f[n] = p
  <2> WITNESS pos \in [N -> DOMAIN Append(q, m)]
  <2> QED
    BY <1>1, <1>4, <1>5
<1> QED
  BY <1>6, <1>7, Zenon DEF Carried, N

LEMMA CarriedMore ==
  ASSUME NEW q \in Seq(SegmentSet), NEW m \in SegmentSet, NEW D, m \in D,
         NEW sent \in Seq(Data), NEW got \in Seq(Data), Carried(q, D, sent, got)
  PROVE  Carried(Append(q, m), D, Append(sent, m.data), got)
<1> DEFINE N == Len(got) + 1 .. Len(sent)
           last == Len(sent) + 1
           M == Len(got) + 1 .. last
           more == Append(sent, m.data)
           end == Len(q) + 1
<1>1. PICK pos :
        /\ pos \in [N -> DOMAIN q]
        /\ \A n \in N : q[pos[n]] \in D /\ q[pos[n]].data = sent[n]
        /\ \A n, i \in N : n < i => pos[n] < pos[i]
        /\ \A p \in DOMAIN q : q[p] \in D => \E n \in N : pos[n] = p
  BY DEF Carried
<1>2. /\ Len(got) \in Nat /\ Len(sent) \in Nat /\ Len(got) <= Len(sent)
      /\ \A n \in 1 .. Len(got) : got[n] = sent[n]
  BY DEF Carried
<1>3. m.data \in Data
  BY DEF SegmentSet
<1>4. Len(more) = last /\ more[last] = m.data /\ \A n \in 1 .. Len(sent) : more[n] = sent[n]
  BY <1>3
<1>5. \A n \in 1 .. Len(got) : got[n] = more[n]
  BY <1>2, <1>4
<1>6. last \in M /\ Len(got) <= last /\ \A n \in M : n = last \/ n \in N
  BY <1>2
<1>7. \A n \in N : n \in M /\ n < last /\ n \in 1 .. Len(sent)
  BY <1>2
<1>8. \A n \in M : n <= last
  BY <1>2
<1> HIDE DEF more
<1> DEFINE new == [n \in M |-> IF n = last THEN end ELSE pos[n]]
<1> HIDE DEF N
<1>9. new[last] = end /\ \A n \in N : new[n] = pos[n]
  BY <1>6, <1>7
<1> DEFINE r == Append(q, m)
<1>10. end \in DOMAIN r /\ r[end] = m /\ end \in Nat
  BY Enqueued
<1>11. \A n \in N : pos[n] \in DOMAIN r /\ r[pos[n]] = q[pos[n]] /\ pos[n] < end
  BY <1>1, Enqueued
<1>12. \A p \in DOMAIN r : p = end \/ (p \in DOMAIN q /\ r[p] = q[p])
  BY Enqueued
<1> HIDE DEF M, last, end, r
<1>13. new \in [M -> DOMAIN r]
  BY <1>1, <1>6, <1>10, <1>11
<1> HIDE DEF new
<1>14. \A n \in M : r[new[n]] \in D /\ r[new[n]].data = more[n]
  <2> SUFFICES ASSUME NEW n \in M
               PROVE  r[new[n]] \in D /\ r[new[n]].data = more[n]
    OBVIOUS
  <2>1. CASE n = last
    BY <1>4, <1>9, <1>10, <2>1
  <2>2. CASE n # last
    <3>1. n \in N /\ n \in 1 .. Len(sent)
      BY <1>6, <1>7, <2>2
    <3>2. r[new[n]] = q[pos[n]] /\ more[n] = sent[n]
      BY <1>4, <1>9, <1>11, <3>1
    <3> QED
      BY <1>1, <3>1, <3>2
  <2> QED
    BY <2>1, <2>2
<1>15. ASSUME NEW n \in M, NEW i \in M, n < i
       PROVE  new[n] < new[i]
  <2>1. n \in Int /\ i \in Int /\ last \in Int
    BY <1>2 DEF M, last
  <2>2. n \in N
    BY <1>6, <1>8, <1>15, <2>1
  <2> QED
    BY <1>1, <1>6, <1>9, <1>11, <1>15, <2>2
<1>16. \A p \in DOMAIN r : r[p] \in D => \E n \in M : new[n] = p
  BY <1>1, <1>6, <1>7, <1>9, <1>12
<1>17. M = Len(got) + 1 .. Len(more)
  BY <1>4 DEF M
<1>18. Carried(r, D, more, got)
  BY <1>4, <1>5, <1>6, <1>13, <1>14, <1>15, <1>16, <1>17, CarriedAt, ZenonT(60)
<1> QED
  BY <1>18 DEF more, r

LEMMA CarriedEnds ==
  ASSUME NEW q \in Seq(SegmentSet), NEW D, NEW sent \in Seq(Data), NEW got \in Seq(Data)
  PROVE  /\ Carried(q, D, sent, got) /\ sent = <<>> =>
              got = <<>> /\ \A p \in DOMAIN q : q[p] \notin D
         /\ Carried(q, D, sent, got) /\ (\A p \in DOMAIN q : q[p] \notin D) => got = sent
         /\ (\A p \in DOMAIN q : q[p] \notin D) /\ sent = <<>> /\ got = <<>> =>
              Carried(q, D, sent, got)
<1>1. ASSUME Carried(q, D, sent, got), sent = <<>>
      PROVE  got = <<>> /\ \A p \in DOMAIN q : q[p] \notin D
  <2>1. Len(got) = 0 /\ Len(sent) = 0
    BY <1>1 DEF Carried
  <2>2. Len(got) + 1 .. Len(sent) = {}
    BY <2>1
  <2> QED
    BY <1>1, <2>1, <2>2 DEF Carried
<1>2. ASSUME Carried(q, D, sent, got), \A p \in DOMAIN q : q[p] \notin D
      PROVE  got = sent
  <2>1. Len(got) <= Len(sent) /\ \A n \in 1 .. Len(got) : got[n] = sent[n]
    BY <1>2 DEF Carried
  <2>2. Len(got) = Len(sent)
    <3>1. SUFFICES ASSUME Len(got) + 1 <= Len(sent) PROVE FALSE
      BY <2>1
    <3>2. Len(got) + 1 \in Len(got) + 1 .. Len(sent)
      BY <3>1
    <3> QED
      BY <1>2, <3>2 DEF Carried
  <2> QED
    BY <2>1, <2>2
<1>3. ASSUME \A p \in DOMAIN q : q[p] \notin D, sent = <<>>, got = <<>>
      PROVE  Carried(q, D, sent, got)
  <2> DEFINE none == [n \in {} |-> n]
  <2>1. Len(got) = 0 /\ Len(sent) = 0 /\ Len(got) + 1 .. Len(sent) = {} /\ 1 .. Len(got) = {}
    BY <1>3
  <2>2. none \in [{} -> DOMAIN q]
    OBVIOUS
  <2>3. Len(got) <= Len(sent) /\ \A n \in 1 .. Len(got) : got[n] = sent[n]
    BY <2>1
  <2>4. {} = Len(got) + 1 .. Len(sent)
    BY <2>1
  <2>5. /\ \A n \in {} : q[none[n]] \in D /\ q[none[n]].data = sent[n]
        /\ \A n, i \in {} : n < i => none[n] < none[i]
        /\ \A p \in DOMAIN q : q[p] \in D => \E n \in {} : none[n] = p
    BY <1>3
  <2> QED
    BY <2>2, <2>3, <2>4, <2>5, CarriedAt
<1> QED
  BY <1>1, <1>2, <1>3
LEMMA PlacesInTail ==
  ASSUME NEW q \in Seq(SegmentSet), q # <<>>, NEW D, NEW A
  PROVE  /\ AckFirst(q, A, D) /\ Head(q) \notin A => AckFirst(Tail(q), A, D)
         /\ NoneOf(q, D) => NoneOf(Tail(q), D)
         /\ \A p \in DOMAIN Tail(q) : AllBefore(q, D, p + 1) => AllBefore(Tail(q), D, p)
<1>1. ASSUME AckFirst(q, A, D), Head(q) \notin A
      PROVE  AckFirst(Tail(q), A, D)
  <2>1. PICK p \in DOMAIN q : q[p] \in A /\ \A i \in DOMAIN q : q[i] \in D => p < i
    BY <1>1 DEF AckFirst
  <2>2. p - 1 \in DOMAIN Tail(q) /\ Tail(q)[p - 1] \in A /\ p \in Nat
    BY <1>1, <2>1, Dequeued
  <2>3. \A i \in DOMAIN Tail(q) : Tail(q)[i] \in D => p - 1 < i
    BY <2>1, <2>2, Dequeued
  <2> QED
    BY <2>2, <2>3 DEF AckFirst
<1>2. NoneOf(q, D) => NoneOf(Tail(q), D)
  BY Dequeued DEF NoneOf
<1>3. ASSUME NEW p \in DOMAIN Tail(q), AllBefore(q, D, p + 1), NEW i \in DOMAIN Tail(q), Tail(q)[i] \in D
      PROVE  i < p
  <2>1. i + 1 \in DOMAIN q /\ q[i + 1] \in D /\ i \in Nat /\ p \in Nat
    BY <1>3, Dequeued
  <2>2. i + 1 < p + 1
    BY <1>3, <2>1 DEF AllBefore
  <2> QED
    BY <2>1, <2>2
<1> QED
  BY <1>1, <1>2, <1>3 DEF AllBefore

LEMMA PlacesWithMore ==
  ASSUME NEW q \in Seq(SegmentSet), NEW m \in SegmentSet, NEW D, NEW A
  PROVE  /\ AckFirst(q, A, D) => AckFirst(Append(q, m), A, D)
         /\ m \in A /\ m \notin D /\ NoneOf(q, D) => AckFirst(Append(q, m), A, D)
         /\ m \notin D /\ NoneOf(q, D) => NoneOf(Append(q, m), D)
         /\ m \notin D => \A p : AllBefore(q, D, p) => AllBefore(Append(q, m), D, p)
         /\ m \notin D => AllBefore(Append(q, m), D, Len(q) + 1)
<1> DEFINE r == Append(q, m)
           end == Len(q) + 1
<1>1. /\ end \in DOMAIN r /\ r[end] = m
      /\ \A p \in DOMAIN q : p \in DOMAIN r /\ r[p] = q[p] /\ p < end
      /\ \A p \in DOMAIN r : p = end \/ (p \in DOMAIN q /\ r[p] = q[p])
  BY Enqueued
<1> HIDE DEF r, end
<1>2. AckFirst(q, A, D) => AckFirst(r, A, D)
  BY <1>1 DEF AckFirst
<1>3. m \in A /\ m \notin D /\ NoneOf(q, D) => AckFirst(r, A, D)
  BY <1>1 DEF AckFirst, NoneOf
<1>4. m \notin D /\ NoneOf(q, D) => NoneOf(r, D)
  BY <1>1 DEF NoneOf
<1>5. m \notin D => \A p : AllBefore(q, D, p) => AllBefore(r, D, p)
  BY <1>1 DEF AllBefore
<1>6. m \notin D => AllBefore(r, D, end)
  BY <1>1 DEF AllBefore
<1> QED
  BY <1>2, <1>3, <1>4, <1>5, <1>6 DEF r, end

-----------------------------------------------------------------------------
(***************************************************************************)
(* What a step may do to a connection from t to s, one lemma each.         *)
(***************************************************************************)
\* The first segment goes, and it was not data.
LEMMA DeliverySkips ==
  ASSUME NEW q \in Seq(SegmentSet), q # <<>>, NEW D, NEW A, NEW F, Head(q) \notin D,
         NEW t \in SocketSet, NEW s \in SocketSet, NEW u \in SocketSet,
         u.got = s.got, u.state \in {s.state, "ESTABLISHED"},
         Head(q) \in A => u.state # "SYN_RECEIVED",
         Delivery(q, D, A, F, t, s)
  PROVE  Delivery(Tail(q), D, A, F, t, u)
<1>1. t.sent \in Seq(Data) /\ s.got \in Seq(Data) /\ u.got \in Seq(Data)
  BY DEF SocketSet
<1>2. Carried(Tail(q), D, t.sent, u.got)
  BY <1>1, CarriedSkip DEF Delivery
<1>3. u.state = "SYN_RECEIVED" =>
        t.state # "SYN_RECEIVED" /\ (t.state = "SYN_SENT" \/ AckFirst(Tail(q), A, D))
  BY PlacesInTail DEF Delivery
<1>4. \A p \in DOMAIN Tail(q) : Tail(q)[p] \in F => t.state \in Finishing /\ AllBefore(Tail(q), D, p)
  BY Dequeued, PlacesInTail DEF Delivery
<1>5. u.state = "CLOSE_WAIT" => t.state \in Finishing /\ NoneOf(Tail(q), D)
  BY PlacesInTail DEF Delivery
<1>6. t.state \in {"SYN_SENT", "SYN_RECEIVED"} => t.sent = <<>>
  BY DEF Delivery
<1> QED
  BY <1>2, <1>3, <1>4, <1>5, <1>6 DEF Delivery

\* The first segment is data, and is taken.
LEMMA DeliveryTakes ==
  ASSUME NEW q \in Seq(SegmentSet), q # <<>>, NEW D, NEW A, NEW F, Head(q) \in D,
         NEW t \in SocketSet, NEW s \in SocketSet, NEW u \in SocketSet,
         u.got = Append(s.got, Head(q).data), u.state = "ESTABLISHED",
         Delivery(q, D, A, F, t, s)
  PROVE  Delivery(Tail(q), D, A, F, t, u)
<1>1. t.sent \in Seq(Data) /\ s.got \in Seq(Data)
  BY DEF SocketSet
<1>2. Carried(Tail(q), D, t.sent, u.got)
  BY <1>1, CarriedTake DEF Delivery
<1>3. \A p \in DOMAIN Tail(q) : Tail(q)[p] \in F => t.state \in Finishing /\ AllBefore(Tail(q), D, p)
  BY Dequeued, PlacesInTail DEF Delivery
<1>4. t.state \in {"SYN_SENT", "SYN_RECEIVED"} => t.sent = <<>>
  BY DEF Delivery
<1> QED
  BY <1>2, <1>3, <1>4 DEF Delivery

\* The first segment is the FIN.
LEMMA DeliveryEnds ==
  ASSUME NEW q \in Seq(SegmentSet), q # <<>>, NEW D, NEW A, NEW F, Head(q) \in F \ D,
         NEW t \in SocketSet, NEW s \in SocketSet, NEW u \in SocketSet,
         u.got = s.got, u.state = "CLOSE_WAIT",
         Delivery(q, D, A, F, t, s)
  PROVE  Delivery(Tail(q), D, A, F, t, u)
<1>1. t.sent \in Seq(Data) /\ s.got \in Seq(Data)
  BY DEF SocketSet
<1>2. Carried(Tail(q), D, t.sent, u.got)
  BY <1>1, CarriedSkip DEF Delivery
<1>3. \A p \in DOMAIN Tail(q) : Tail(q)[p] \in F => t.state \in Finishing /\ AllBefore(Tail(q), D, p)
  BY Dequeued, PlacesInTail DEF Delivery
<1>4. t.state \in Finishing /\ AllBefore(q, D, 1)
  BY Dequeued DEF Delivery
<1>5. NoneOf(q, D)
  <2>1. \A i \in DOMAIN q : ~(i < 1)
    BY Dequeued
  <2> QED
    BY <1>4, <2>1 DEF AllBefore, NoneOf
<1>6. NoneOf(Tail(q), D)
  BY <1>5, PlacesInTail
<1>7. t.state \in {"SYN_SENT", "SYN_RECEIVED"} => t.sent = <<>>
  BY DEF Delivery
<1> QED
  BY <1>2, <1>3, <1>4, <1>6, <1>7 DEF Delivery

\* Half open, the peer is never given data before the ACK that opens it.
LEMMA DeliveryWaits ==
  ASSUME NEW q \in Seq(SegmentSet), q # <<>>, NEW D, NEW A, NEW F,
         NEW t \in SocketSet, NEW s \in SocketSet, s.state = "SYN_RECEIVED",
         A \cap D = {}, Delivery(q, D, A, F, t, s)
  PROVE  Head(q) \notin D
<1>1. t.sent \in Seq(Data) /\ s.got \in Seq(Data)
  BY DEF SocketSet
<1>2. CASE t.state \in {"SYN_SENT", "SYN_RECEIVED"}
  <2>1. t.sent = <<>> /\ Carried(q, D, t.sent, s.got)
    BY <1>2 DEF Delivery
  <2>2. \A p \in DOMAIN q : q[p] \notin D
    BY <1>1, <2>1, CarriedEnds
  <2> QED
    BY <2>2, Dequeued
<1>3. CASE t.state \notin {"SYN_SENT", "SYN_RECEIVED"}
  <2>1. PICK p \in DOMAIN q : q[p] \in A /\ \A i \in DOMAIN q : q[i] \in D => p < i
    BY <1>3 DEF Delivery, AckFirst
  <2>2. ~(p < 1) /\ 1 \in DOMAIN q /\ Head(q) = q[1]
    BY Dequeued
  <2> QED
    BY <2>1, <2>2
<1> QED
  BY <1>2, <1>3

\* The socket sends something that is neither data nor a FIN.
LEMMA DeliveryAdds ==
  ASSUME NEW q \in Seq(SegmentSet), NEW m \in SegmentSet, NEW D, NEW A, NEW F, m \notin D \cup F,
         NEW t \in SocketSet, NEW s \in SocketSet, NEW u \in SocketSet, u.sent = t.sent,
         \/ u.state = t.state
         \/ t.state = "SYN_SENT" /\ u.state = "ESTABLISHED" /\ m \in A,
         Delivery(q, D, A, F, t, s)
  PROVE  Delivery(Append(q, m), D, A, F, u, s)
<1>1. t.sent \in Seq(Data) /\ s.got \in Seq(Data)
  BY DEF SocketSet
<1>2. Carried(Append(q, m), D, u.sent, s.got)
  BY <1>1, CarriedPut DEF Delivery
<1>3. t.state = "SYN_SENT" => NoneOf(q, D)
  <2>1. ASSUME t.state = "SYN_SENT" PROVE t.sent = <<>> /\ Carried(q, D, t.sent, s.got)
    BY <2>1 DEF Delivery
  <2> QED
    BY <1>1, <2>1, CarriedEnds DEF NoneOf
<1>4. s.state = "SYN_RECEIVED" =>
        u.state # "SYN_RECEIVED" /\ (u.state = "SYN_SENT" \/ AckFirst(Append(q, m), A, D))
  BY <1>3, PlacesWithMore DEF Delivery
<1>5. ASSUME NEW p \in DOMAIN Append(q, m), Append(q, m)[p] \in F
      PROVE  u.state \in Finishing /\ AllBefore(Append(q, m), D, p)
  <2>1. p \in DOMAIN q /\ q[p] \in F
    BY <1>5, Enqueued
  <2>2. t.state \in Finishing /\ AllBefore(q, D, p)
    BY <2>1 DEF Delivery
  <2> QED
    BY <2>2, PlacesWithMore DEF Finishing
<1>6. s.state = "CLOSE_WAIT" => u.state \in Finishing /\ NoneOf(Append(q, m), D)
  BY PlacesWithMore DEF Delivery, Finishing
<1>7. u.state \in {"SYN_SENT", "SYN_RECEIVED"} => u.sent = <<>>
  BY DEF Delivery
<1> QED
  BY <1>2, <1>4, <1>5, <1>6, <1>7 DEF Delivery

\* It sends data, established.
LEMMA DeliveryWrites ==
  ASSUME NEW q \in Seq(SegmentSet), NEW m \in SegmentSet, NEW D, NEW A, NEW F, m \in D \ F,
         NEW t \in SocketSet, NEW s \in SocketSet, NEW u \in SocketSet,
         u.sent = Append(t.sent, m.data), t.state = "ESTABLISHED", u.state = "ESTABLISHED",
         Delivery(q, D, A, F, t, s)
  PROVE  Delivery(Append(q, m), D, A, F, u, s)
<1>1. t.sent \in Seq(Data) /\ s.got \in Seq(Data)
  BY DEF SocketSet
<1>2. Carried(Append(q, m), D, u.sent, s.got)
  BY <1>1, CarriedMore DEF Delivery
<1>3. s.state = "SYN_RECEIVED" => AckFirst(Append(q, m), A, D)
  BY PlacesWithMore DEF Delivery
<1>4. \A p \in DOMAIN q : q[p] \notin F
  BY DEF Delivery, Finishing
<1>5. \A p \in DOMAIN Append(q, m) : Append(q, m)[p] \notin F
  BY <1>4, Enqueued
<1>6. s.state # "CLOSE_WAIT"
  BY DEF Delivery, Finishing
<1> QED
  BY <1>2, <1>3, <1>5, <1>6 DEF Delivery

\* It sends the FIN, established or with the state changed before.
LEMMA DeliveryFinishes ==
  ASSUME NEW q \in Seq(SegmentSet), NEW m \in SegmentSet, NEW D, NEW A, NEW F, m \in F \ D,
         NEW t \in SocketSet, NEW s \in SocketSet, NEW u \in SocketSet,
         u.sent = t.sent, t.state \in {"ESTABLISHED"} \cup Finishing, u.state \in Finishing,
         Delivery(q, D, A, F, t, s)
  PROVE  Delivery(Append(q, m), D, A, F, u, s)
<1>1. t.sent \in Seq(Data) /\ s.got \in Seq(Data)
  BY DEF SocketSet
<1>2. Carried(Append(q, m), D, u.sent, s.got)
  BY <1>1, CarriedPut DEF Delivery
<1>3. s.state = "SYN_RECEIVED" => AckFirst(Append(q, m), A, D)
  BY PlacesWithMore DEF Delivery, Finishing
<1>4. ASSUME NEW p \in DOMAIN Append(q, m), Append(q, m)[p] \in F
      PROVE  AllBefore(Append(q, m), D, p)
  <2>1. CASE p = Len(q) + 1
    BY <2>1, PlacesWithMore
  <2>2. CASE p \in DOMAIN q /\ q[p] \in F
    <3>1. AllBefore(q, D, p)
      BY <2>2 DEF Delivery
    <3> QED
      BY <3>1, PlacesWithMore
  <2> QED
    BY <1>4, <2>1, <2>2, Enqueued
<1>5. s.state = "CLOSE_WAIT" => NoneOf(Append(q, m), D)
  BY PlacesWithMore DEF Delivery
<1>6. u.state \notin {"SYN_SENT", "SYN_RECEIVED"}
  BY DEF Finishing
<1> QED
  BY <1>2, <1>3, <1>4, <1>5, <1>6 DEF Delivery

\* It moves on without sending anything.
LEMMA DeliveryMoves ==
  ASSUME NEW q \in Seq(SegmentSet), NEW D, NEW A, NEW F,
         NEW t \in SocketSet, NEW s \in SocketSet, NEW u \in SocketSet, u.sent = t.sent,
         \/ u.state = t.state
         \/ t.state = "SYN_RECEIVED" /\ u.state = "ESTABLISHED"
         \/ t.state = "ESTABLISHED" /\ u.state = "FIN_WAIT1"
         \/ t.state = "FIN_WAIT1" /\ u.state = "FIN_WAIT2",
         Delivery(q, D, A, F, t, s)
  PROVE  Delivery(q, D, A, F, u, s)
  BY DEF Delivery, Finishing

\* A new connection, which nothing has been sent on.
LEMMA DeliveryStarts ==
  ASSUME NEW q \in Seq(SegmentSet), NEW D, NEW A, NEW F, NoneOf(q, D), NoneOf(q, F),
         NEW t \in SocketSet, NEW s \in SocketSet, t.sent = <<>>, s.got = <<>>,
         \/ t.state = "SYN_SENT" /\ s.state \in {"SYN_SENT", "SYN_RECEIVED"}
         \/ t.state = "SYN_RECEIVED" /\ s.state = "SYN_SENT"
  PROVE  Delivery(q, D, A, F, t, s)
<1>1. t.sent \in Seq(Data) /\ s.got \in Seq(Data)
  BY DEF SocketSet
<1>2. Carried(q, D, t.sent, s.got)
  BY <1>1, CarriedEnds DEF NoneOf
<1> QED
  BY <1>2 DEF Delivery, NoneOf

\* And what it is for.
LEMMA DeliveryComplete ==
  ASSUME NEW q \in Seq(SegmentSet), NEW D, NEW A, NEW F,
         NEW t \in SocketSet, NEW s \in SocketSet, s.state = "CLOSE_WAIT",
         Delivery(q, D, A, F, t, s)
  PROVE  s.got = t.sent
<1>1. t.sent \in Seq(Data) /\ s.got \in Seq(Data)
  BY DEF SocketSet
<1> QED
  BY <1>1, CarriedEnds, ZenonT(60) DEF Delivery, NoneOf

-----------------------------------------------------------------------------
(***************************************************************************)
(* What a step does to the socket it is about, which becomes u.            *)
(***************************************************************************)
\* What the socket t of r sends its peer with the given flags.
From(r, t, flags) ==
  {m \in SegmentSet : m.src = r /\ m.sport = t.lport /\ m.dport = t.rport /\ m.flags = flags}

\* What it sends first, and what it becomes.
Speaks(s, u, a) ==
  \/ /\ a.flags \notin {{"PSH", "ACK"}, {"FIN", "ACK"}} /\ u.sent = s.sent
     /\ \/ u.state = s.state
        \/ s.state = "SYN_SENT" /\ u.state = "ESTABLISHED" /\ a.flags = {"ACK"}
  \/ /\ a.flags = {"PSH", "ACK"} /\ u.sent = Append(s.sent, a.data)
     /\ s.state = "ESTABLISHED" /\ u.state = "ESTABLISHED"
  \/ /\ a.flags = {"FIN", "ACK"} /\ u.sent = s.sent
     /\ s.state \in {"ESTABLISHED"} \cup Finishing /\ u.state \in Finishing

Transmission(g, s, u, segs) ==
  /\ u \in SocketSet /\ FromTo(u, s.rhost, s.lport, s.rport)
  /\ u.state \in {"LISTEN", "SYN_SENT"} => u.state = s.state /\ u.sent = s.sent /\ u.got = s.got
  /\ \/ /\ segs = <<>>
        /\ u.state \in Outgoing =>
             /\ u.sent = s.sent
             /\ \/ u.state = s.state
                \/ s.state = "SYN_RECEIVED" /\ u.state = "ESTABLISHED"
                \/ s.state = "ESTABLISHED" /\ u.state = "FIN_WAIT1"
                \/ s.state = "FIN_WAIT1" /\ u.state = "FIN_WAIT2"
     \/ \E a :
          /\ a \in From(g, s, a.flags) /\ segs = <<a>>
          /\ u.state \in Outgoing => Speaks(s, u, a)
     \/ \E a, b :
          /\ a \in From(g, s, a.flags) /\ b \in From(g, s, b.flags) /\ segs = <<a, b>>
          /\ u.state \in Outgoing => Speaks(s, u, a) /\ b.flags = {"ACK"}

\* What the segment m means to the socket it arrives at.
Hears(s, u, m, segs) ==
  /\ m.flags = {"RST"} => u.state = "CLOSED"
  /\ u.state \in Incoming =>
       /\ s.state \in Incoming
       /\ \/ \E n \in DOMAIN segs : segs[n].flags = {"RST"}
          \/ /\ m.flags # {"PSH", "ACK"} /\ u.got = s.got
             /\ u.state \in {s.state, "ESTABLISHED"}
             /\ m.flags = {"ACK"} => u.state # "SYN_RECEIVED"
          \/ m.flags = {"FIN", "ACK"} /\ u.got = s.got /\ u.state = "CLOSE_WAIT"
          \/ m.flags = {"PSH", "ACK"} /\ s.state = "SYN_RECEIVED"
          \/ m.flags = {"PSH", "ACK"} /\ u.got = Append(s.got, m.data) /\ u.state = "ESTABLISHED"

\* The states a socket may be in when a task is in the middle of a Send.
Writing == {"ESTABLISHED", "CLOSE_WAIT", "CLOSED"}

Reacts(g, s, u, m, segs) ==
  /\ Transmission(g, s, u, segs)
  /\ Hears(s, u, m, segs)
  /\ s.state \in Writing => u.state \in Writing \/ "close" \in HandlerActs[g]

LEMMA SegmentFrom ==
  ASSUME NEW g \in Hosts, NEW s \in SocketSet, NEW w \in SocketSet,
         w.lport = s.lport, w.rport = s.rport, NEW flags \in Flags, NEW data \in Data,
         flags = {"PSH", "ACK"} => data \in Payloads
  PROVE  LET m == Segment(g, w, flags, data)
         IN  m \in SegmentSet /\ m \in From(g, s, m.flags) /\ m.flags = flags /\ m.data = data
<1>1. Segment(g, w, flags, data) \in SegmentSet
  BY SegmentTyped
<1> QED
  BY <1>1 DEF Segment, From

LEMMA ControlFrom ==
  ASSUME NEW g \in Hosts, NEW s \in SocketSet, NEW w \in SocketSet,
         w.lport = s.lport, w.rport = s.rport, NEW flags \in {{"ACK"}, {"FIN", "ACK"}, {"RST"}}
  PROVE  LET m == Segment(g, w, flags, NoData)
         IN  m \in SegmentSet /\ m \in From(g, s, m.flags) /\ m.flags = flags
<1>1. flags \in Flags /\ NoData \in Data
  BY FlagsTyped
<1>2. flags # {"PSH", "ACK"}
  OBVIOUS
<1> QED
  BY <1>1, <1>2, SegmentFrom

LEMMA ResetReacts ==
  ASSUME NEW g, NEW s \in SocketSet, NEW m
  PROVE  Reacts(g, s, [s EXCEPT !.state = "CLOSED"], m, <<>>)
<1> DEFINE u == [s EXCEPT !.state = "CLOSED"]
<1>1. Moves(s, u, "CLOSED", s.ack)
  BY Moved DEF SocketSet, SocketState
<1> HIDE DEF u
<1>2. Transmission(g, s, u, <<>>)
  BY <1>1 DEF Moves, Transmission, FromTo, Outgoing
<1>3. Hears(s, u, m, <<>>)
  BY <1>1 DEF Moves, Hears, Incoming
<1>4. u.state \in Writing
  BY <1>1 DEF Moves, Writing
<1> QED
  BY <1>2, <1>3, <1>4 DEF Reacts, u

LEMMA SynAckReacts ==
  ASSUME NEW g \in Hosts, NEW m \in SegmentSet, NEW s \in SocketSet, NEW k,
         ReceiveSynAck(g, k, s, m)
  PROVE  \E u, segs : Answer(g, k, u, segs) /\ Reacts(g, s, u, m, segs)
<1> DEFINE u == [s EXCEPT !.state = "ESTABLISHED", !.ack = m.seq + 1, !.seq = @ + 1]
           a == Segment(g, u, {"ACK"}, NoData)
<1>1. s.state = "SYN_SENT" /\ Answer(g, k, u, <<a>>) /\ m.flags = {"SYN", "ACK"}
  BY Kinds DEF ReceiveSynAck
<1>2. s.seq + 1 \in Nat /\ m.seq + 1 \in Int /\ "ESTABLISHED" \in SocketState
  BY DEF SocketSet, SegmentSet, SocketState
<1>3. /\ u \in SocketSet /\ u.state = "ESTABLISHED" /\ u.sent = s.sent /\ u.got = s.got
      /\ u.lport = s.lport /\ u.rhost = s.rhost /\ u.rport = s.rport
  BY <1>2 DEF SocketSet
<1> HIDE DEF u
<1>4. a \in From(g, s, a.flags) /\ a.flags = {"ACK"}
  BY <1>3, ControlFrom
<1> HIDE DEF a
<1>5. Speaks(s, u, a)
  BY <1>1, <1>3, <1>4 DEF Speaks
<1>6. Transmission(g, s, u, <<a>>)
  BY <1>3, <1>4, <1>5 DEF Transmission, FromTo
<1>7. Hears(s, u, m, <<a>>)
  <2>1. m.flags \notin {{"RST"}, {"PSH", "ACK"}, {"ACK"}}
    BY <1>1
  <2> QED
    BY <1>1, <1>3, <2>1 DEF Hears, Incoming
<1>8. s.state \notin Writing
  BY <1>1 DEF Writing
<1> QED
  BY <1>1, <1>6, <1>7, <1>8 DEF Reacts

LEMMA FinReacts ==
  ASSUME NEW g \in Hosts, NEW m \in SegmentSet, NEW s \in SocketSet, NEW k,
         ReceiveFin(g, k, s, m)
  PROVE  \E u, segs : Answer(g, k, u, segs) /\ Reacts(g, s, u, m, segs)
<1>1. m.flags = {"FIN", "ACK"}
  BY Kinds DEF ReceiveFin
<1>2. s.ack + 1 \in Int /\ "CLOSE_WAIT" \in SocketState /\ "CLOSED" \in SocketState
  BY DEF SocketSet, SocketState
<1>3. ASSUME s.state = "ESTABLISHED", NEW u, u = [s EXCEPT !.state = "CLOSE_WAIT", !.ack = @ + 1],
             NEW a, a = Segment(g, u, {"ACK"}, NoData),
             NEW b, b = Segment(g, u, {"FIN", "ACK"}, NoData)
      PROVE  Reacts(g, s, u, m, <<a, b>>)
  <2>1. Moves(s, u, "CLOSE_WAIT", s.ack + 1)
    BY <1>2, <1>3, Moved
  <2>2. a \in From(g, s, a.flags) /\ b \in From(g, s, b.flags)
    BY <1>3, <2>1, ControlFrom DEF Moves
  <2>3. Transmission(g, s, u, <<a, b>>)
    BY <2>1, <2>2 DEF Moves, Transmission, FromTo, Outgoing
  <2>4. Hears(s, u, m, <<a, b>>)
    BY <1>1, <1>3, <2>1 DEF Moves, Hears, Incoming
  <2> QED
    BY <2>1, <2>3, <2>4 DEF Moves, Reacts, Writing
<1>4. CASE s.state = "CLOSE_WAIT" /\ Answer(g, k, [s EXCEPT !.state = "CLOSED"], <<>>)
  BY <1>4, ResetReacts
<1>5. ASSUME s.state \in Finishing, NEW u, u = [s EXCEPT !.state = "CLOSED", !.ack = @ + 1],
             NEW a, a = Segment(g, u, {"ACK"}, NoData)
      PROVE  Reacts(g, s, u, m, <<a>>)
  <2>1. Moves(s, u, "CLOSED", s.ack + 1)
    BY <1>2, <1>5, Moved
  <2>2. a \in From(g, s, a.flags)
    BY <1>5, <2>1, ControlFrom DEF Moves
  <2>3. Transmission(g, s, u, <<a>>)
    BY <2>1, <2>2 DEF Moves, Transmission, FromTo, Outgoing
  <2>4. Hears(s, u, m, <<a>>)
    BY <1>1, <2>1 DEF Moves, Hears, Incoming
  <2> QED
    BY <2>1, <2>3, <2>4 DEF Moves, Reacts, Writing
<1> QED
  BY <1>3, <1>4, <1>5 DEF ReceiveFin, Finishing

LEMMA AckReacts ==
  ASSUME NEW g \in Hosts, NEW m \in SegmentSet, NEW s \in SocketSet, NEW k,
         ReceiveAck(g, k, s, m)
  PROVE  \E u, segs : Answer(g, k, u, segs) /\ Reacts(g, s, u, m, segs)
<1>1. m.flags \in {{"ACK"}, {"PSH", "ACK"}}
  BY Kinds DEF ReceiveAck
<1>2. ASSUME NEW st \in {"ESTABLISHED", "FIN_WAIT2"},
             \/ s.state = "SYN_RECEIVED" /\ st = "ESTABLISHED"
             \/ s.state = "FIN_WAIT1" /\ st = "FIN_WAIT2",
             NEW u, u = [s EXCEPT !.state = st]
      PROVE  Reacts(g, s, u, m, <<>>)
  <2>1. Moves(s, u, st, s.ack)
    BY <1>2, Moved DEF SocketSet, SocketState
  <2>2. Transmission(g, s, u, <<>>)
    BY <1>2, <2>1 DEF Moves, Transmission, FromTo
  <2>3. Hears(s, u, m, <<>>)
    BY <1>1, <1>2, <2>1 DEF Moves, Hears, Incoming
  <2> QED
    BY <1>2, <2>2, <2>3 DEF Reacts, Writing
<1>3. CASE s.state = "CLOSE_WAIT" /\ Answer(g, k, [s EXCEPT !.state = "CLOSED"], <<>>)
  BY <1>3, ResetReacts
<1> QED
  BY <1>2, <1>3 DEF ReceiveAck

LEMMA RefusalReacts ==
  ASSUME NEW g \in Hosts, NEW m \in SegmentSet, NEW s \in SocketSet, s.state # "LISTEN", NEW k,
         SendReset(g, k, s, m)
  PROVE  \E u, segs : Answer(g, k, u, segs) /\ Reacts(g, s, u, m, segs)
<1> DEFINE a == Segment(g, s, {"RST"}, NoData)
<1>1. Answer(g, k, s, <<a>>) /\ m.flags # {"RST"}
  BY DEF SendReset
<1>2. a \in From(g, s, a.flags) /\ a.flags = {"RST"}
  BY ControlFrom
<1> HIDE DEF a
<1>3. Speaks(s, s, a)
  BY <1>2 DEF Speaks
<1>4. Transmission(g, s, s, <<a>>)
  BY <1>2, <1>3 DEF Transmission, FromTo
<1>5. 1 \in DOMAIN <<a>> /\ <<a>>[1].flags = {"RST"}
  BY <1>2
<1>6. Hears(s, s, m, <<a>>)
  BY <1>1, <1>5 DEF Hears
<1> QED
  BY <1>1, <1>4, <1>6 DEF Reacts

LEMMA DataReacts ==
  ASSUME PayloadsFit, NEW g \in Hosts, NEW m \in SegmentSet, NEW s \in SocketSet, NEW k,
         s.state \in {"ESTABLISHED", "FIN_WAIT2"}, m.flags = {"PSH", "ACK"},
         ReceiveData(g, k, s, m)
  PROVE  \E u, segs : Answer(g, k, u, segs) /\ Reacts(g, s, u, m, segs)
<1>1. m.data \in Data
  BY DEF SegmentSet
<1>2. ASSUME NEW u \in SocketSet, u.got = Append(s.got, m.data), NEW segs,
             \/ u.state = s.state
             \/ u.state = "FIN_WAIT1" /\ "close" \in HandlerActs[g],
             Transmission(g, s, u, segs)
      PROVE  Reacts(g, s, u, m, segs)
  <2>1. Hears(s, u, m, segs)
    BY <1>2 DEF Hears, Incoming
  <2> QED
    BY <1>2, <2>1 DEF Reacts, Writing
<1>3. ASSUME NEW u, u = Got(s, m.data), NEW a, a = Segment(g, u, {"ACK"}, NoData)
      PROVE  Reacts(g, s, u, m, <<a>>)
  <2>1. /\ u \in SocketSet /\ u.got = Append(s.got, m.data) /\ u.state = s.state /\ u.sent = s.sent
        /\ u.lport = s.lport /\ u.rhost = s.rhost /\ u.rport = s.rport
    BY <1>1, <1>3, GotTyped
  <2>2. a \in From(g, s, a.flags) /\ a.flags = {"ACK"}
    BY <1>3, <2>1, ControlFrom
  <2>3. Speaks(s, u, a)
    <3>1. a.flags \notin {{"PSH", "ACK"}, {"FIN", "ACK"}}
      BY <2>2
    <3> QED
      BY <2>1, <3>1 DEF Speaks
  <2>4. Transmission(g, s, u, <<a>>)
    BY <2>1, <2>2, <2>3 DEF Transmission, FromTo
  <2> QED
    BY <1>2, <2>1, <2>4
<1>4. ASSUME NEW data \in Payloads, NEW u, u = Got(Sent(s, data), m.data), s.state = "ESTABLISHED",
             NEW a, a = Segment(g, s, {"PSH", "ACK"}, data), NEW b, b = Segment(g, u, {"ACK"}, NoData)
      PROVE  Reacts(g, s, u, m, <<a, b>>)
  <2>1. /\ u \in SocketSet /\ u.got = Append(s.got, m.data) /\ u.state = s.state
        /\ u.sent = Append(s.sent, data)
        /\ u.lport = s.lport /\ u.rhost = s.rhost /\ u.rport = s.rport
    <3>1. data \in Data
      BY FlagsTyped
    <3>2. PICK w : w = Sent(s, data)
      OBVIOUS
    <3>3. /\ w \in SocketSet /\ w.sent = Append(s.sent, data) /\ w.got = s.got /\ w.state = s.state
          /\ w.lport = s.lport /\ w.rhost = s.rhost /\ w.rport = s.rport
      BY <3>1, <3>2, SentTyped
    <3> QED
      BY <1>1, <1>4, <3>2, <3>3, GotTyped, SMTT(30)
  <2>2. /\ a \in From(g, s, a.flags) /\ a.flags = {"PSH", "ACK"} /\ a.data = data
        /\ b \in From(g, s, b.flags) /\ b.flags = {"ACK"}
    <3>1. a \in From(g, s, a.flags) /\ a.flags = {"PSH", "ACK"} /\ a.data = data
      BY <1>4, FlagsTyped, SegmentFrom
    <3>2. b \in From(g, s, b.flags) /\ b.flags = {"ACK"}
      BY <1>4, <2>1, ControlFrom
    <3> QED
      BY <3>1, <3>2
  <2>3. Speaks(s, u, a)
    BY <1>4, <2>1, <2>2 DEF Speaks
  <2>4. Transmission(g, s, u, <<a, b>>)
    BY <1>4, <2>1, <2>2, <2>3 DEF Transmission, FromTo
  <2> QED
    BY <1>2, <2>1, <2>4
<1>5. ASSUME "close" \in HandlerActs[g], NEW u, u = Got(Finished(s), m.data), s.state = "ESTABLISHED",
             NEW a, a = Segment(g, s, {"FIN", "ACK"}, NoData), NEW b, b = Segment(g, u, {"ACK"}, NoData)
      PROVE  Reacts(g, s, u, m, <<a, b>>)
  <2>1. /\ u \in SocketSet /\ u.got = Append(s.got, m.data) /\ u.state = "FIN_WAIT1"
        /\ u.sent = s.sent
        /\ u.lport = s.lport /\ u.rhost = s.rhost /\ u.rport = s.rport
    BY <1>1, <1>5, FinishedTyped, GotTyped, SMTT(30)
  <2>2. /\ a \in From(g, s, a.flags) /\ a.flags = {"FIN", "ACK"}
        /\ b \in From(g, s, b.flags) /\ b.flags = {"ACK"}
    <3>1. a \in From(g, s, a.flags) /\ a.flags = {"FIN", "ACK"}
      BY <1>5, ControlFrom
    <3>2. b \in From(g, s, b.flags) /\ b.flags = {"ACK"}
      BY <1>5, <2>1, ControlFrom
    <3> QED
      BY <3>1, <3>2
  <2>3. Speaks(s, u, a)
    BY <1>5, <2>1, <2>2 DEF Speaks, Finishing
  <2>4. Transmission(g, s, u, <<a, b>>)
    BY <1>5, <2>1, <2>2, <2>3 DEF Transmission, FromTo
  <2> QED
    BY <1>2, <1>5, <2>1, <2>4
<1> DEFINE Answers(u, segs) == Answer(g, k, u, segs) /\ Reacts(g, s, u, m, segs)
<1>6. \A given \in Handed(m.data) : given = m.data
  BY HandedWhole DEF SegmentSet
<1>7. CASE Answer(g, k, Got(s, m.data), <<Segment(g, Got(s, m.data), {"ACK"}, NoData)>>)
  <2>1. Answers(Got(s, m.data), <<Segment(g, Got(s, m.data), {"ACK"}, NoData)>>)
    BY <1>3, <1>7
  <2> QED
    BY <2>1
<1>8. ASSUME NEW data \in Payloads, NEW u, u = Got(Sent(s, data), m.data), s.state = "ESTABLISHED",
             Answer(g, k, u, <<Segment(g, s, {"PSH", "ACK"}, data), Segment(g, u, {"ACK"}, NoData)>>)
      PROVE  \E w, segs : Answers(w, segs)
  <2>1. Answers(u, <<Segment(g, s, {"PSH", "ACK"}, data), Segment(g, u, {"ACK"}, NoData)>>)
    BY <1>4, <1>8
  <2> QED
    BY <2>1
<1>9. ASSUME "close" \in HandlerActs[g], NEW u, u = Got(Finished(s), m.data), s.state = "ESTABLISHED",
             Answer(g, k, u, <<Segment(g, s, {"FIN", "ACK"}, NoData), Segment(g, u, {"ACK"}, NoData)>>)
      PROVE  \E w, segs : Answers(w, segs)
  <2>1. Answers(u, <<Segment(g, s, {"FIN", "ACK"}, NoData), Segment(g, u, {"ACK"}, NoData)>>)
    BY <1>5, <1>9
  <2> QED
    BY <2>1
<1> QED
  BY <1>6, <1>7, <1>8, <1>9 DEF ReceiveData

LEMMA HandleReacts ==
  ASSUME PayloadsFit, TcpInv, NEW g \in Hosts, NEW m \in Arriving(net[g]), NEW k \in DOMAIN sockets[g],
         SocketFor(g, k, m), sockets[g][k].state # "LISTEN", Handle(g, k, sockets[g][k], m)
  PROVE  /\ m \in SegmentSet /\ FromTo(sockets[g][k], m.src, m.dport, m.sport)
         /\ \E u, segs : Answer(g, k, u, segs) /\ Reacts(g, sockets[g][k], u, m, segs)
<1> DEFINE s == sockets[g][k]
<1>1. m \in SegmentSet /\ s \in SocketSet /\ FromTo(s, m.src, m.dport, m.sport)
  BY Arrived
<1>2. CASE ReceiveReset(g, k, s, m)
  BY <1>1, <1>2, ResetReacts DEF ReceiveReset
<1>3. CASE ReceiveSynAck(g, k, s, m)
  BY <1>1, <1>3, SynAckReacts
<1>4. CASE ReceiveFin(g, k, s, m)
  BY <1>1, <1>4, FinReacts
<1>5. CASE ReceiveAck(g, k, s, m)
  BY <1>1, <1>5, AckReacts
<1>6. ASSUME ReceiveData(g, k, s, m), s.state # "CLOSED", "RST" \notin m.flags
      PROVE  \E u, segs : Answer(g, k, u, segs) /\ Reacts(g, s, u, m, segs)
  <2>1. CarriesData(s, m) /\ InSequence(s, m)
    BY <1>6 DEF ReceiveData
  <2>2. s.state \in {"ESTABLISHED", "FIN_WAIT2"} /\ m.flags = {"PSH", "ACK"}
    BY <1>6, <2>1, DataArrives
  <2> QED
    BY <1>1, <1>6, <2>2, DataReacts
<1>7. CASE SendReset(g, k, s, m)
  BY <1>1, <1>7, RefusalReacts
<1> QED
  BY <1>1, <1>2, <1>3, <1>4, <1>5, <1>6, <1>7 DEF Handle, ReceiveSyn

-----------------------------------------------------------------------------
(***************************************************************************)
(* The socket t of r and the socket s of h, if they are the ends of a      *)
(* connection that neither has given up, with the queue q from t to s and  *)
(* the queue back from s to t: what t has sent is delivered, unless s has  *)
(* told it to reset.                                                       *)
(***************************************************************************)
Delivers(q, r, t, s) ==
  Delivery(q, From(r, t, {"PSH", "ACK"}), From(r, t, {"ACK"}), From(r, t, {"FIN", "ACK"}), t, s)

ResetIn(q, h, s) == \E p \in DOMAIN q : q[p] \in From(h, s, {"RST"})

PairOK(r, t, h, s, q, back) ==
  /\ FromTo(t, h, s.rport, s.lport) /\ FromTo(s, r, t.rport, t.lport)
  /\ t.state \in Outgoing /\ s.state \in Incoming
  => ResetIn(back, h, s) \/ Delivers(q, r, t, s)

LEMMA FromParts ==
  ASSUME NEW r, NEW t
  PROVE  /\ \A f : \A m \in From(r, t, f) : m \in SegmentSet /\ m.flags = f
         /\ \A u : FromTo(u, t.rhost, t.lport, t.rport) => \A f : From(r, u, f) = From(r, t, f)
         /\ From(r, t, {"ACK"}) \cap From(r, t, {"PSH", "ACK"}) = {}
         /\ From(r, t, {"FIN", "ACK"}) \cap From(r, t, {"PSH", "ACK"}) = {}
         /\ \A m \in From(r, t, {"ACK"}) : m \notin From(r, t, {"FIN", "ACK"})
         /\ \A m \in From(r, t, {"RST"}) : m \notin From(r, t, {"PSH", "ACK"})
<1>1. {"ACK"} # {"PSH", "ACK"} /\ {"FIN", "ACK"} # {"PSH", "ACK"} /\ {"ACK"} # {"FIN", "ACK"}
      /\ {"RST"} # {"PSH", "ACK"}
  OBVIOUS
<1> QED
  BY <1>1 DEF From, FromTo

LEMMA Concatenations ==
  ASSUME NEW q \in Seq(SegmentSet)
  PROVE  /\ q \o <<>> = q
         /\ \A a \in SegmentSet : q \o <<a>> = Append(q, a)
         /\ \A a, b \in SegmentSet : q \o <<a, b>> = Append(Append(q, a), b)
<1>1. q \o <<>> = q
  OBVIOUS
<1>2. \A a \in SegmentSet : q \o <<a>> = Append(q, a)
  OBVIOUS
<1>3. ASSUME NEW a \in SegmentSet, NEW b \in SegmentSet
      PROVE  q \o <<a, b>> = Append(Append(q, a), b)
  OBVIOUS
<1> QED
  BY <1>1, <1>2, <1>3

\* The sender's step: segs follow what is on its way.
LEMMA SenderDelivers ==
  ASSUME NEW q \in Seq(SegmentSet), NEW r \in Hosts, NEW t \in SocketSet, NEW s \in SocketSet,
         NEW u, NEW segs, Transmission(r, t, u, segs), u.state \in Outgoing,
         Delivers(q, r, t, s)
  PROVE  Delivers(q \o segs, r, u, s)
<1> DEFINE D == From(r, t, {"PSH", "ACK"})
           A == From(r, t, {"ACK"})
           F == From(r, t, {"FIN", "ACK"})
<1>1. u \in SocketSet /\ Delivery(q, D, A, F, t, s)
  BY DEF Transmission, Delivers
<1>2. D = From(r, u, {"PSH", "ACK"}) /\ A = From(r, u, {"ACK"}) /\ F = From(r, u, {"FIN", "ACK"})
  <2>1. FromTo(u, t.rhost, t.lport, t.rport)
    BY DEF Transmission
  <2>2. \A f : From(r, u, f) = From(r, t, f)
    BY <2>1, FromParts, Zenon
  <2> QED
    BY <2>2, Zenon
<1>3. ASSUME NEW a, a \in From(r, t, a.flags), Speaks(t, u, a)
      PROVE  a \in SegmentSet /\ Delivery(Append(q, a), D, A, F, u, s)
  <2>1. a \in SegmentSet
    BY <1>3, FromParts
  <2>2. ASSUME a.flags \notin {{"PSH", "ACK"}, {"FIN", "ACK"}}, u.sent = t.sent,
               \/ u.state = t.state
               \/ t.state = "SYN_SENT" /\ u.state = "ESTABLISHED" /\ a.flags = {"ACK"}
        PROVE  Delivery(Append(q, a), D, A, F, u, s)
    <3>1. a \notin D \cup F /\ (a.flags = {"ACK"} => a \in A)
      BY <1>3, <2>2, FromParts
    <3> HIDE DEF D, A, F
    <3> QED
      BY <1>1, <2>1, <2>2, <3>1, DeliveryAdds
  <2>3. ASSUME a.flags = {"PSH", "ACK"}, u.sent = Append(t.sent, a.data),
               t.state = "ESTABLISHED", u.state = "ESTABLISHED"
        PROVE  Delivery(Append(q, a), D, A, F, u, s)
    <3>1. a \in D \ F
      BY <1>3, <2>3, FromParts
    <3> HIDE DEF D, A, F
    <3> QED
      BY <1>1, <2>1, <2>3, <3>1, DeliveryWrites
  <2>4. ASSUME a.flags = {"FIN", "ACK"}, u.sent = t.sent,
               t.state \in {"ESTABLISHED"} \cup Finishing, u.state \in Finishing
        PROVE  Delivery(Append(q, a), D, A, F, u, s)
    <3>1. a \in F \ D
      BY <1>3, <2>4, FromParts
    <3> HIDE DEF D, A, F
    <3> QED
      BY <1>1, <2>1, <2>4, <3>1, DeliveryFinishes
  <2> QED
    BY <1>3, <2>1, <2>2, <2>3, <2>4 DEF Speaks
<1>4. ASSUME segs = <<>>, u.sent = t.sent,
             \/ u.state = t.state
             \/ t.state = "SYN_RECEIVED" /\ u.state = "ESTABLISHED"
             \/ t.state = "ESTABLISHED" /\ u.state = "FIN_WAIT1"
             \/ t.state = "FIN_WAIT1" /\ u.state = "FIN_WAIT2"
      PROVE  Delivery(q \o segs, D, A, F, u, s)
  <2> HIDE DEF D, A, F
  <2> QED
    BY <1>1, <1>4, Concatenations, DeliveryMoves
<1>5. ASSUME NEW a, a \in From(r, t, a.flags), segs = <<a>>, Speaks(t, u, a)
      PROVE  Delivery(q \o segs, D, A, F, u, s)
  <2> HIDE DEF D, A, F
  <2> QED
    BY <1>3, <1>5, Concatenations
<1>6. ASSUME NEW a, a \in From(r, t, a.flags), NEW b, b \in From(r, t, b.flags), segs = <<a, b>>,
             Speaks(t, u, a), b.flags = {"ACK"}
      PROVE  Delivery(q \o segs, D, A, F, u, s)
  <2>1. b \in SegmentSet /\ b \notin D \cup F
    BY <1>6, FromParts
  <2> HIDE DEF D, A, F
  <2>2. a \in SegmentSet /\ Delivery(Append(q, a), D, A, F, u, s) /\ Append(q, a) \in Seq(SegmentSet)
    BY <1>3, <1>6
  <2>3. Delivery(Append(Append(q, a), b), D, A, F, u, s)
    BY <1>1, <2>1, <2>2, DeliveryAdds
  <2> QED
    BY <1>6, <2>1, <2>2, <2>3, Concatenations
<1>7. Delivery(q \o segs, D, A, F, u, s)
  <2> HIDE DEF D, A, F
  <2>1. \/ /\ segs = <<>> /\ u.sent = t.sent
           /\ \/ u.state = t.state
              \/ t.state = "SYN_RECEIVED" /\ u.state = "ESTABLISHED"
              \/ t.state = "ESTABLISHED" /\ u.state = "FIN_WAIT1"
              \/ t.state = "FIN_WAIT1" /\ u.state = "FIN_WAIT2"
        \/ \E a : a \in From(r, t, a.flags) /\ segs = <<a>> /\ Speaks(t, u, a)
        \/ \E a, b : /\ a \in From(r, t, a.flags) /\ b \in From(r, t, b.flags) /\ segs = <<a, b>>
                    /\ Speaks(t, u, a) /\ b.flags = {"ACK"}
    BY Zenon DEF Transmission
  <2>2. CASE \E a : a \in From(r, t, a.flags) /\ segs = <<a>> /\ Speaks(t, u, a)
    BY <1>5, <2>2, Zenon
  <2>3. CASE \E a, b : /\ a \in From(r, t, a.flags) /\ b \in From(r, t, b.flags) /\ segs = <<a, b>>
                       /\ Speaks(t, u, a) /\ b.flags = {"ACK"}
    BY <1>6, <2>3, Zenon
  <2> QED
    BY <1>4, <2>1, <2>2, <2>3, Zenon
<1> QED
  BY <1>2, <1>7 DEF Delivers

\* The receiver's: the first segment goes, and means to it what Hears says.
LEMMA ReceiverDelivers ==
  ASSUME NEW q \in Seq(SegmentSet), q # <<>>, NEW r \in Hosts, NEW t \in SocketSet, NEW s \in SocketSet,
         NEW u \in SocketSet, NEW segs, Hears(s, u, Head(q), segs), u.state \in Incoming,
         Head(q) \in From(r, t, Head(q).flags),
         \A n \in DOMAIN segs : segs[n].flags # {"RST"},
         Delivers(q, r, t, s)
  PROVE  Delivers(Tail(q), r, t, u)
<1> DEFINE D == From(r, t, {"PSH", "ACK"})
           A == From(r, t, {"ACK"})
           F == From(r, t, {"FIN", "ACK"})
           m == Head(q)
<1>1. Delivery(q, D, A, F, t, s) /\ A \cap D = {} /\ F \cap D = {}
  BY FromParts DEF Delivers
<1>2. /\ m.flags = {"PSH", "ACK"} <=> m \in D
      /\ m.flags = {"ACK"} <=> m \in A
      /\ m.flags = {"FIN", "ACK"} <=> m \in F
  BY DEF From
<1>3. SUFFICES Delivery(Tail(q), D, A, F, t, u)
  BY DEF Delivers
<1> HIDE DEF D, A, F, m
<1>4. CASE /\ m.flags # {"PSH", "ACK"} /\ u.got = s.got /\ u.state \in {s.state, "ESTABLISHED"}
           /\ m.flags = {"ACK"} => u.state # "SYN_RECEIVED"
  BY <1>1, <1>2, <1>4, DeliverySkips DEF m
<1>5. CASE m.flags = {"FIN", "ACK"} /\ u.got = s.got /\ u.state = "CLOSE_WAIT"
  BY <1>1, <1>2, <1>5, DeliveryEnds DEF m
<1>6. CASE m.flags = {"PSH", "ACK"} /\ s.state = "SYN_RECEIVED"
  BY <1>1, <1>2, <1>6, DeliveryWaits DEF m
<1>7. CASE m.flags = {"PSH", "ACK"} /\ u.got = Append(s.got, m.data) /\ u.state = "ESTABLISHED"
  BY <1>1, <1>2, <1>7, DeliveryTakes DEF m
<1> QED
  BY <1>4, <1>5, <1>6, <1>7 DEF Hears, m

-----------------------------------------------------------------------------
(***************************************************************************)
(* A pair of ends after a step of one of them.                             *)
(***************************************************************************)
\* The sender's, which may have handled the first segment that came back.
LEMMA SenderPair ==
  ASSUME NEW q \in Seq(SegmentSet), NEW back \in Seq(SegmentSet), NEW r \in Hosts, NEW h,
         NEW t \in SocketSet, NEW s \in SocketSet, NEW u, NEW segs, Transmission(r, t, u, segs),
         PairOK(r, t, h, s, q, back), NEW nb,
         \/ nb = back
         \/ /\ back # <<>> /\ nb = Tail(back)
            /\ Head(back) \in From(h, s, {"RST"}) => u.state = "CLOSED"
  PROVE  PairOK(r, u, h, s, q \o segs, nb)
<1> SUFFICES ASSUME FromTo(u, h, s.rport, s.lport), FromTo(s, r, u.rport, u.lport),
                    u.state \in Outgoing, s.state \in Incoming
             PROVE  ResetIn(nb, h, s) \/ Delivers(q \o segs, r, u, s)
  BY DEF PairOK
<1>1. u.lport = t.lport /\ u.rhost = t.rhost /\ u.rport = t.rport
  BY DEF Transmission, FromTo
<1>2. t.state \in Outgoing
  BY DEF Transmission, Speaks, Outgoing, Finishing
<1>3. ResetIn(back, h, s) \/ Delivers(q, r, t, s)
  BY <1>1, <1>2 DEF PairOK, FromTo
<1>4. CASE Delivers(q, r, t, s)
  BY <1>4, SenderDelivers
<1>5. CASE ResetIn(back, h, s)
  <2>1. CASE nb = back
    BY <1>5, <2>1
  <2>2. CASE back # <<>> /\ nb = Tail(back) /\ Head(back) \notin From(h, s, {"RST"})
    BY <1>5, <2>2, Dequeued DEF ResetIn
  <2>3. u.state # "CLOSED"
    BY DEF Outgoing
  <2> QED
    BY <2>1, <2>2, <2>3
<1> QED
  BY <1>3, <1>4, <1>5

LEMMA ResetStays ==
  ASSUME NEW q \in Seq(SegmentSet), NEW segs \in Seq(SegmentSet), NEW h, NEW s
  PROVE  /\ ResetIn(q, h, s) => ResetIn(q \o segs, h, s)
         /\ ResetIn(segs, h, s) => ResetIn(q \o segs, h, s)
<1>1. ASSUME NEW p \in DOMAIN q
      PROVE  p \in DOMAIN (q \o segs) /\ (q \o segs)[p] = q[p]
  OBVIOUS
<1>2. ASSUME NEW p \in DOMAIN segs
      PROVE  Len(q) + p \in DOMAIN (q \o segs) /\ (q \o segs)[Len(q) + p] = segs[p]
  OBVIOUS
<1> QED
  BY <1>1, <1>2 DEF ResetIn

\* What is sent comes from the socket that sends it.
LEMMA TransmissionFrom ==
  ASSUME NEW g, NEW s, NEW u, NEW segs, Transmission(g, s, u, segs)
  PROVE  segs \in Seq(SegmentSet) /\ \A n \in DOMAIN segs : segs[n] \in From(g, s, segs[n].flags)
<1>1. CASE segs = <<>>
  BY <1>1
<1>2. ASSUME NEW a, a \in From(g, s, a.flags), segs = <<a>>
      PROVE  segs \in Seq(SegmentSet) /\ \A n \in DOMAIN segs : segs[n] \in From(g, s, segs[n].flags)
  <2>1. a \in SegmentSet /\ DOMAIN segs = {1} /\ segs[1] = a
    BY <1>2 DEF From
  <2> QED
    BY <1>2, <2>1
<1>3. ASSUME NEW a, a \in From(g, s, a.flags), NEW b, b \in From(g, s, b.flags), segs = <<a, b>>
      PROVE  segs \in Seq(SegmentSet) /\ \A n \in DOMAIN segs : segs[n] \in From(g, s, segs[n].flags)
  <2>1. a \in SegmentSet /\ b \in SegmentSet /\ DOMAIN segs = {1, 2} /\ segs[1] = a /\ segs[2] = b
    BY <1>3 DEF From
  <2> QED
    BY <1>3, <2>1
<1> QED
  BY <1>1, <1>2, <1>3 DEF Transmission

\* The receiver's, which may have handled the first segment.
LEMMA ReceiverPair ==
  ASSUME NEW q \in Seq(SegmentSet), NEW back \in Seq(SegmentSet), NEW r \in Hosts, NEW h \in Hosts,
         NEW t \in SocketSet, NEW s \in SocketSet, NEW u, NEW segs, Transmission(h, s, u, segs),
         PairOK(r, t, h, s, q, back), NEW nq,
         \/ nq = q /\ (u.state \in Incoming => u.state = s.state /\ u.got = s.got)
         \/ /\ q # <<>> /\ nq = Tail(q) /\ Hears(s, u, Head(q), segs)
            /\ FromTo(s, Head(q).src, Head(q).dport, Head(q).sport)
  PROVE  PairOK(r, t, h, u, nq, back \o segs)
<1> SUFFICES ASSUME FromTo(t, h, u.rport, u.lport), FromTo(u, r, t.rport, t.lport),
                    t.state \in Outgoing, u.state \in Incoming
             PROVE  ResetIn(back \o segs, h, u) \/ Delivers(nq, r, t, u)
  BY DEF PairOK
<1>1. u \in SocketSet /\ u.lport = s.lport /\ u.rhost = s.rhost /\ u.rport = s.rport
  BY DEF Transmission, FromTo
<1>2. From(h, u, {"RST"}) = From(h, s, {"RST"})
  BY <1>1 DEF From
<1>3. s.state \in Incoming
  BY DEF Hears
<1>4. ResetIn(back, h, s) \/ Delivers(q, r, t, s)
  BY <1>1, <1>3 DEF PairOK, FromTo
<1>5. segs \in Seq(SegmentSet) /\ \A n \in DOMAIN segs : segs[n] \in From(h, s, segs[n].flags)
  BY TransmissionFrom
<1>6. CASE ResetIn(back, h, s) \/ \E n \in DOMAIN segs : segs[n].flags = {"RST"}
  <2>1. ResetIn(back, h, u) \/ ResetIn(segs, h, u)
    BY <1>2, <1>5, <1>6 DEF ResetIn
  <2> QED
    BY <1>5, <2>1, ResetStays
<1>7. CASE Delivers(q, r, t, s) /\ ~\E n \in DOMAIN segs : segs[n].flags = {"RST"}
  <2>1. CASE nq = q /\ u.state = s.state /\ u.got = s.got
    BY <1>7, <2>1 DEF Delivers, Delivery
  <2>2. CASE /\ q # <<>> /\ nq = Tail(q) /\ Hears(s, u, Head(q), segs)
             /\ FromTo(s, Head(q).src, Head(q).dport, Head(q).sport)
    <3>1. Head(q) \in From(r, t, Head(q).flags)
      BY <1>1, <2>2, Dequeued DEF From, FromTo
    <3> QED
      BY <1>1, <1>7, <2>2, <3>1, ReceiverDelivers
  <2> QED
    BY <2>1, <2>2
<1> QED
  BY <1>4, <1>6, <1>7

\* Of others: at most the first segment goes and two are added, none of X.
Apart(q, nq, X) ==
  \E base, segs :
    /\ base = q \/ (q # <<>> /\ Head(q) \notin X /\ base = Tail(q))
    /\ nq = base \o segs
    /\ \/ segs = <<>>
       \/ \E a \in SegmentSet \ X : segs = <<a>>
       \/ \E a, b \in SegmentSet \ X : segs = <<a, b>>

LEMMA OtherPair ==
  ASSUME NEW q \in Seq(SegmentSet), NEW back \in Seq(SegmentSet), NEW r \in Hosts, NEW h,
         NEW t \in SocketSet, NEW s \in SocketSet, NEW nq, NEW nb, NEW X, NEW Y,
         Apart(q, nq, X), Apart(back, nb, Y),
         From(r, t, {"PSH", "ACK"}) \cup From(r, t, {"ACK"}) \cup From(r, t, {"FIN", "ACK"}) \subseteq X,
         From(h, s, {"RST"}) \subseteq Y,
         PairOK(r, t, h, s, q, back)
  PROVE  PairOK(r, t, h, s, nq, nb)
<1>1. ASSUME Delivers(q, r, t, s)
      PROVE  Delivers(nq, r, t, s)
  <2> DEFINE D == From(r, t, {"PSH", "ACK"})
             A == From(r, t, {"ACK"})
             F == From(r, t, {"FIN", "ACK"})
  <2>1. D \subseteq X /\ A \subseteq X /\ F \subseteq X /\ Delivery(q, D, A, F, t, s)
    BY <1>1 DEF Delivers
  <2>2. SUFFICES Delivery(nq, D, A, F, t, s)
    BY DEF Delivers
  <2> HIDE DEF D, A, F
  <2>3. PICK base, segs :
          /\ base = q \/ (q # <<>> /\ Head(q) \notin X /\ base = Tail(q))
          /\ nq = base \o segs
          /\ \/ segs = <<>>
             \/ \E a \in SegmentSet \ X : segs = <<a>>
             \/ \E a, b \in SegmentSet \ X : segs = <<a, b>>
    BY Zenon DEF Apart
  <2>4. base \in Seq(SegmentSet) /\ Delivery(base, D, A, F, t, s)
    <3>1. CASE base = q
      BY <2>1, <3>1
    <3>2. CASE q # <<>> /\ Head(q) \notin X /\ base = Tail(q)
      <4>1. Head(q) \notin D /\ Head(q) \notin A
        BY <2>1, <3>2
      <4> QED
        BY <2>1, <3>2, <4>1, Dequeued, DeliverySkips
    <3> QED
      BY <2>3, <3>1, <3>2
  <2>5. ASSUME NEW w \in Seq(SegmentSet), Delivery(w, D, A, F, t, s), NEW a \in SegmentSet \ X
        PROVE  Append(w, a) \in Seq(SegmentSet) /\ Delivery(Append(w, a), D, A, F, t, s)
    BY <2>1, <2>5, DeliveryAdds
  <2>6. CASE segs = <<>>
    BY <2>3, <2>4, <2>6, Concatenations
  <2>7. ASSUME NEW a \in SegmentSet \ X, segs = <<a>>
        PROVE  Delivery(nq, D, A, F, t, s)
    <3>1. Delivery(Append(base, a), D, A, F, t, s)
      BY <2>4, <2>5
    <3>2. nq = Append(base, a)
      BY <2>3, <2>4, <2>7, Concatenations
    <3> QED
      BY <3>1, <3>2
  <2>8. ASSUME NEW a \in SegmentSet \ X, NEW b \in SegmentSet \ X, segs = <<a, b>>
        PROVE  Delivery(nq, D, A, F, t, s)
    <3>1. Delivery(Append(base, a), D, A, F, t, s) /\ Append(base, a) \in Seq(SegmentSet)
      BY <2>4, <2>5
    <3>2. Delivery(Append(Append(base, a), b), D, A, F, t, s)
      BY <2>5, <3>1
    <3>3. nq = Append(Append(base, a), b)
      BY <2>3, <2>4, <2>8, Concatenations
    <3> QED
      BY <3>2, <3>3
  <2> QED
    BY <2>3, <2>6, <2>7, <2>8
<1>2. ASSUME ResetIn(back, h, s)
      PROVE  ResetIn(nb, h, s)
  <2>1. PICK base, segs :
          /\ base = back \/ (back # <<>> /\ Head(back) \notin Y /\ base = Tail(back))
          /\ nb = base \o segs
          /\ \/ segs = <<>>
             \/ \E a \in SegmentSet \ Y : segs = <<a>>
             \/ \E a, b \in SegmentSet \ Y : segs = <<a, b>>
    BY Zenon DEF Apart
  <2>2. segs \in Seq(SegmentSet)
    <3>1. /\ <<>> \in Seq(SegmentSet)
          /\ \A a, b \in SegmentSet : <<a>> \in Seq(SegmentSet) /\ <<a, b>> \in Seq(SegmentSet)
      OBVIOUS
    <3> QED
      BY <2>1, <3>1, Zenon
  <2>3. base \in Seq(SegmentSet) /\ ResetIn(base, h, s)
    <3>1. CASE base = back
      BY <1>2, <3>1
    <3>2. CASE back # <<>> /\ Head(back) \notin Y /\ base = Tail(back)
      <4>1. PICK p \in DOMAIN back : back[p] \in From(h, s, {"RST"})
        BY <1>2 DEF ResetIn
      <4>2. p # 1
        BY <3>2, <4>1, Dequeued
      <4> QED
        BY <3>2, <4>1, <4>2, Dequeued DEF ResetIn
    <3> QED
      BY <2>1, <3>1, <3>2
  <2> QED
    BY <2>1, <2>2, <2>3, ResetStays
<1> QED
  BY <1>1, <1>2 DEF PairOK

-----------------------------------------------------------------------------
(***************************************************************************)
(* The invariant, and the steps that are about a socket with a peer: those *)
(* of tasks, and the handling of the first segment that arrives.           *)
(***************************************************************************)
Deliveries ==
  \A r, h \in Hosts : \A j \in DOMAIN sockets[r], i \in DOMAIN sockets[h] :
    PairOK(r, sockets[r][j], h, sockets[h][i], net[h], net[r])

\* Nothing is sent before there is a connection, nor after the FIN.
Writers ==
  \A h \in Hosts :
    /\ sending[h] # NoSend => h \in Talkers /\ sockets[h][sending[h].sock].state \in Writing
    /\ \A i \in DOMAIN sockets[h] : sockets[h][i].state \in {"LISTEN", "SYN_SENT"} =>
         sockets[h][i].sent = <<>> /\ sockets[h][i].got = <<>>

DeliveryInv == TcpInv /\ Writers /\ (Reliable => Deliveries)

Acts(g, k, u, segs) ==
  LET s == sockets[g][k]
      m == Head(net[g])
  IN  /\ sockets' = [sockets EXCEPT ![g][k] = u]
      /\ Transmission(g, s, u, segs)
      /\ \A f \in Hosts : sending'[f] # NoSend => sending'[f] = sending[f]
      /\ sending'[g] # NoSend /\ s.state \in Writing =>
           u.state \in Writing \/ "close" \in HandlerActs[g]
      /\ Reliable =>
           \/ /\ u.state \in Incoming => u.state = s.state /\ u.got = s.got
              /\ \A f \in Hosts : net'[f] = IF f = s.rhost THEN net[f] \o segs ELSE net[f]
           \/ /\ net[g] # <<>> /\ FromTo(s, m.src, m.dport, m.sport) /\ Hears(s, u, m, segs)
              /\ \A f \in Hosts :
                   net'[f] = IF f = s.rhost THEN net[f] \o segs
                             ELSE IF f = g THEN Tail(net[f]) ELSE net[f]

\* All that the socket t of r sends its peer.
Link(r, t) == {m \in SegmentSet : m.src = r /\ m.sport = t.lport /\ m.dport = t.rport}

LEMMA ReliableQueues ==
  ASSUME TcpInv, Reliable, NEW h \in Hosts
  PROVE  /\ net[h] \in Seq(SegmentSet)
         /\ \A p \in DOMAIN net[h] : net[h][p] \in InTransit(net[h])
         /\ net[h] # <<>> => Head(net[h]) \in SegmentSet /\ Arriving(net[h]) = {Head(net[h])}
<1>1. net[h] \in Seq(SegmentSet)
  BY DEF TcpInv, Types
<1>2. \A p \in DOMAIN net[h] : net[h][p] \in InTransit(net[h])
  BY DEF InTransit, ToSet
<1>3. ASSUME net[h] # <<>>
      PROVE  Head(net[h]) \in SegmentSet /\ Arriving(net[h]) = {Head(net[h])}
  <2>1. 1 \in DOMAIN net[h] /\ Head(net[h]) = net[h][1] /\ Head(net[h]) \in SegmentSet
    BY <1>1, <1>3, Dequeued
  <2> QED
    BY <2>1 DEF Arriving
<1> QED
  BY <1>1, <1>2, <1>3

\* The socket k of g is not one of the pair.
LEMMA ActsApart ==
  ASSUME TcpInv, Reliable, NEW g \in Hosts, NEW k \in DOMAIN sockets[g], NEW u, NEW segs,
         Acts(g, k, u, segs), NEW r \in Hosts, NEW h \in Hosts,
         NEW j \in DOMAIN sockets[r], NEW i \in DOMAIN sockets[h],
         NEW t, t = sockets[r][j], NEW s, s = sockets[h][i],
         FromTo(t, h, s.rport, s.lport), FromTo(s, r, t.rport, t.lport),
         ~(r = g /\ j = k), ~(h = g /\ i = k)
  PROVE  Apart(net[h], net'[h], Link(r, t))
<1> DEFINE w == sockets[g][k]
           X == Link(r, t)
           q == net[h]
<1>1. q \in Seq(SegmentSet) /\ Transmission(g, w, u, segs)
  BY ReliableQueues DEF Acts
<1>2. ASSUME h = w.rhost, NEW a, a \in From(g, w, a.flags)
      PROVE  a \in SegmentSet \ X
  <2>1. a \in X => r = g /\ FromTo(t, h, t.lport, t.rport) /\ FromTo(w, h, t.lport, t.rport)
    BY <1>2 DEF From, Link, FromTo
  <2>2. a \notin X
    BY <2>1, OneEnd, SMTT(30)
  <2> QED
    BY <1>2, <2>2 DEF From
<1>3. CASE h = w.rhost
  <2>1. net'[h] = q \o segs
    BY <1>3, ZenonT(60) DEF Acts
  <2>2. \/ segs = <<>>
        \/ \E a \in SegmentSet \ X : segs = <<a>>
        \/ \E a, b \in SegmentSet \ X : segs = <<a, b>>
    <3> HIDE DEF X
    <3> QED
      BY <1>1, <1>2, <1>3, Zenon DEF Transmission
  <2> QED
    BY <2>1, <2>2, ZenonT(60) DEF Apart
<1>4. CASE h # w.rhost /\ net'[h] = q
  <2>1. q = q \o <<>>
    BY <1>1
  <2> QED
    BY <1>4, <2>1, Zenon DEF Apart
<1>5. CASE h # w.rhost /\ net'[h] # q
  <2>1. h = g /\ q # <<>> /\ net'[h] = Tail(q) /\ FromTo(w, Head(q).src, Head(q).dport, Head(q).sport)
    BY <1>5 DEF Acts
  <2>2. Head(q) \in X => FromTo(w, r, t.rport, t.lport)
    BY <2>1 DEF Link, FromTo
  <2>3. Head(q) \notin X
    BY <2>1, <2>2, OneEnd
  <2>4. Tail(q) = Tail(q) \o <<>>
    BY <1>1, <2>1
  <2> QED
    BY <2>1, <2>3, <2>4, Zenon DEF Apart
<1> QED
  BY <1>3, <1>4, <1>5

LEMMA ActsDeliver ==
  ASSUME TcpInv, Reliable, Deliveries, NEW g \in Hosts, NEW k \in DOMAIN sockets[g], NEW u, NEW segs,
         Acts(g, k, u, segs)
  PROVE  Deliveries'
<1> SUFFICES ASSUME NEW r \in Hosts, NEW h \in Hosts,
                    NEW j \in DOMAIN sockets'[r], NEW i \in DOMAIN sockets'[h]
             PROVE  PairOK(r, sockets'[r][j], h, sockets'[h][i], net'[h], net'[r])
  BY DEF Deliveries
<1> DEFINE w == sockets[g][k]
           t == sockets[r][j]
           s == sockets[h][i]
<1>1. u \in SocketSet /\ Transmission(g, w, u, segs) /\ FromTo(u, w.rhost, w.lport, w.rport)
  BY DEF Acts, Transmission
<1>2. /\ j \in DOMAIN sockets[r] /\ i \in DOMAIN sockets[h] /\ sockets'[g][k] = u
      /\ ~(r = g /\ j = k) => sockets'[r][j] = t
      /\ ~(h = g /\ i = k) => sockets'[h][i] = s
  BY <1>1, SocketUpdate, ZenonT(60) DEF Acts, TcpInv
<1>3. t \in SocketSet /\ s \in SocketSet /\ w \in SocketSet /\ t.rhost # r /\ s.rhost # h /\ w.rhost # g
  BY <1>2, SocketTyped DEF TcpInv, Peers
<1>4. net[r] \in Seq(SegmentSet) /\ net[h] \in Seq(SegmentSet)
  BY ReliableQueues
<1>5. PairOK(r, t, h, s, net[h], net[r])
  BY <1>2 DEF Deliveries
<1>6. CASE r = g /\ j = k
  <2> SUFFICES ASSUME FromTo(u, h, sockets'[h][i].rport, sockets'[h][i].lport)
               PROVE  PairOK(r, u, h, sockets'[h][i], net'[h], net'[r])
    BY <1>2, <1>6 DEF PairOK
  <2>1. h = w.rhost /\ h # g /\ sockets'[h][i] = s
    BY <1>1, <1>2, <1>3 DEF FromTo
  <2>2. net'[h] = net[h] \o segs
    BY <2>1, ZenonT(60) DEF Acts
  <2>3. \/ net'[r] = net[r]
        \/ /\ net[r] # <<>> /\ net'[r] = Tail(net[r])
           /\ Head(net[r]) \in From(h, s, {"RST"}) => u.state = "CLOSED"
    BY <1>6, <2>1, ZenonT(60) DEF Acts, Hears, From
  <2> HIDE DEF t, s
  <2>4. PairOK(r, u, h, s, net[h] \o segs, net'[r])
    BY <1>1, <1>3, <1>4, <1>5, <1>6, <2>3, SenderPair, ZenonT(60) DEF t
  <2> QED
    BY <2>1, <2>2, <2>4
<1>7. CASE h = g /\ i = k
  <2> SUFFICES ASSUME FromTo(u, r, sockets'[r][j].rport, sockets'[r][j].lport)
               PROVE  PairOK(r, sockets'[r][j], h, u, net'[h], net'[r])
    BY <1>2, <1>7 DEF PairOK
  <2>1. r = w.rhost /\ r # g /\ sockets'[r][j] = t
    BY <1>1, <1>2, <1>3 DEF FromTo
  <2>2. net'[r] = net[r] \o segs
    BY <2>1, ZenonT(60) DEF Acts
  <2>3. \/ net'[h] = net[h] /\ (u.state \in Incoming => u.state = s.state /\ u.got = s.got)
        \/ /\ net[h] # <<>> /\ net'[h] = Tail(net[h]) /\ Hears(s, u, Head(net[h]), segs)
           /\ FromTo(s, Head(net[h]).src, Head(net[h]).dport, Head(net[h]).sport)
    BY <1>7, <2>1 DEF Acts
  <2> HIDE DEF t, s
  <2>4. PairOK(r, t, h, u, net'[h], net[r] \o segs)
    BY <1>1, <1>3, <1>4, <1>5, <1>7, <2>3, ReceiverPair DEF s
  <2> QED
    BY <2>1, <2>2, <2>4
<1>8. CASE ~(r = g /\ j = k) /\ ~(h = g /\ i = k)
  <2> SUFFICES ASSUME FromTo(t, h, s.rport, s.lport), FromTo(s, r, t.rport, t.lport)
               PROVE  PairOK(r, t, h, s, net'[h], net'[r])
    BY <1>2, <1>8 DEF PairOK
  <2>1. Apart(net[h], net'[h], Link(r, t)) /\ Apart(net[r], net'[r], Link(h, s))
    BY <1>2, <1>8, ActsApart
  <2>2. /\ From(r, t, {"PSH", "ACK"}) \cup From(r, t, {"ACK"}) \cup From(r, t, {"FIN", "ACK"})
             \subseteq Link(r, t)
        /\ From(h, s, {"RST"}) \subseteq Link(h, s)
    BY DEF From, Link
  <2> HIDE DEF t, s
  <2> QED
    BY <1>3, <1>4, <1>5, <2>1, <2>2, OtherPair
<1> QED
  BY <1>6, <1>7, <1>8

LEMMA ActsWrite ==
  ASSUME OneCloser, TcpInv, Writers, NEW g \in Hosts, NEW k \in DOMAIN sockets[g], NEW u, NEW segs,
         Acts(g, k, u, segs)
  PROVE  Writers'
<1> DEFINE w == sockets[g][k]
<1>1. u \in SocketSet /\ Transmission(g, w, u, segs)
  BY DEF Acts, Transmission
<1>2. /\ sockets'[g][k] = u
      /\ \A f \in Hosts : DOMAIN sockets'[f] = DOMAIN sockets[f]
      /\ \A f \in Hosts : \A i \in DOMAIN sockets[f] : ~(f = g /\ i = k) => sockets'[f][i] = sockets[f][i]
  BY <1>1, SocketUpdate DEF Acts, TcpInv
<1>3. ASSUME NEW h \in Hosts, sending'[h] # NoSend
      PROVE  h \in Talkers /\ sockets'[h][sending'[h].sock].state \in Writing
  <2>1. sending'[h] = sending[h] /\ sending[h] # NoSend
    BY <1>3 DEF Acts
  <2>2. /\ h \in Talkers /\ sockets[h][sending[h].sock].state \in Writing
        /\ sending[h].sock \in DOMAIN sockets[h]
    BY <2>1 DEF Writers, TcpInv, Peers
  <2>3. CASE h = g /\ sending[h].sock = k
    <3>1. u.state \in Writing \/ "close" \in HandlerActs[g]
      BY <1>3, <2>2, <2>3 DEF Acts
    <3> QED
      BY <1>2, <2>1, <2>2, <2>3, <3>1 DEF OneCloser
  <2>4. CASE ~(h = g /\ sending[h].sock = k)
    BY <1>2, <2>1, <2>2, <2>4
  <2> QED
    BY <2>3, <2>4
<1>4. ASSUME NEW h \in Hosts, NEW i \in DOMAIN sockets'[h], sockets'[h][i].state \in {"LISTEN", "SYN_SENT"}
      PROVE  sockets'[h][i].sent = <<>> /\ sockets'[h][i].got = <<>>
  <2>1. CASE h = g /\ i = k
    <3>1. u.state = w.state /\ u.sent = w.sent /\ u.got = w.got
      BY <1>1, <1>2, <1>4, <2>1 DEF Transmission
    <3> QED
      BY <1>2, <1>4, <2>1, <3>1 DEF Writers
  <2>2. CASE ~(h = g /\ i = k)
    BY <1>2, <1>4, <2>2 DEF Writers
  <2> QED
    BY <2>1, <2>2
<1> QED
  BY <1>3, <1>4 DEF Writers

-----------------------------------------------------------------------------
(***************************************************************************)
(* The steps that give the socket k of g a peer, or make it listen.        *)
(***************************************************************************)
\* What no connection sends before it exists.
Later == {m \in SegmentSet : m.flags \notin {{"SYN"}, {"SYN", "ACK"}}}

Begins(g, k, u) ==
  /\ k \in DOMAIN sockets'[g] /\ sockets'[g][k] = u
  /\ \A f \in Hosts : \A i \in DOMAIN sockets'[f] :
       ~(f = g /\ i = k) => i \in DOMAIN sockets[f] /\ sockets'[f][i] = sockets[f][i]
  /\ u \in SocketSet /\ u.sent = <<>> /\ u.got = <<>> /\ u.rhost # g
  /\ \/ u.state = "LISTEN"
     \/ u.state \in {"SYN_SENT", "SYN_RECEIVED"} /\ NoEnd(g, u)
  /\ sending' = sending
  /\ sending[g] # NoSend => sending[g].sock # k
  /\ Reliable => \A f \in Hosts : Apart(net[f], net'[f], Later)

LEMMA ApartNone ==
  ASSUME NEW q \in Seq(SegmentSet), NEW nq, NEW X, NEW D, D \subseteq X, Apart(q, nq, X), NoneOf(q, D)
  PROVE  nq \in Seq(SegmentSet) /\ NoneOf(nq, D)
<1>1. PICK base, segs :
        /\ base = q \/ (q # <<>> /\ Head(q) \notin X /\ base = Tail(q))
        /\ nq = base \o segs
        /\ \/ segs = <<>>
           \/ \E a \in SegmentSet \ X : segs = <<a>>
           \/ \E a, b \in SegmentSet \ X : segs = <<a, b>>
  BY Zenon DEF Apart
<1>2. base \in Seq(SegmentSet) /\ NoneOf(base, D)
  <2>1. CASE base = q
    BY <2>1
  <2>2. CASE q # <<>> /\ base = Tail(q)
    BY <2>2, Dequeued, PlacesInTail
  <2> QED
    BY <1>1, <2>1, <2>2
<1>3. ASSUME NEW w \in Seq(SegmentSet), NoneOf(w, D), NEW a \in SegmentSet \ X
      PROVE  Append(w, a) \in Seq(SegmentSet) /\ NoneOf(Append(w, a), D)
  BY <1>3, PlacesWithMore
<1>4. CASE segs = <<>>
  BY <1>1, <1>2, <1>4, Concatenations
<1>5. ASSUME NEW a \in SegmentSet \ X, segs = <<a>>
      PROVE  nq \in Seq(SegmentSet) /\ NoneOf(nq, D)
  <2>1. nq = Append(base, a)
    BY <1>1, <1>2, <1>5, Concatenations
  <2> QED
    BY <1>2, <1>3, <2>1
<1>6. ASSUME NEW a \in SegmentSet \ X, NEW b \in SegmentSet \ X, segs = <<a, b>>
      PROVE  nq \in Seq(SegmentSet) /\ NoneOf(nq, D)
  <2>1. nq = Append(Append(base, a), b)
    BY <1>1, <1>2, <1>6, Concatenations
  <2>2. Append(base, a) \in Seq(SegmentSet) /\ NoneOf(Append(base, a), D)
    BY <1>2, <1>3
  <2> QED
    BY <1>3, <2>1, <2>2
<1> QED
  BY <1>1, <1>4, <1>5, <1>6

\* Before it has the socket u, nothing is under way between g and its peer w,
\* except SYNs to it.
LEMMA NothingBefore ==
  ASSUME TcpInv, Reliable, Writers, NEW g \in Hosts, NEW u, NoEnd(g, u), NEW h \in Hosts, h # g,
         NEW i \in DOMAIN sockets[h], NEW w, w = sockets[h][i],
         FromTo(u, h, w.rport, w.lport), FromTo(w, g, u.rport, u.lport)
  PROVE  /\ NoneOf(net[h], Link(g, u))
         /\ \A f : f # {"SYN"} => NoneOf(net[g], From(h, w, f))
         /\ w.state \notin Open
         /\ w.state = "SYN_SENT" => w.sent = <<>> /\ w.got = <<>>
<1>1. ASSUME NEW p \in DOMAIN net[h], net[h][p] \in Link(g, u)
      PROVE  FALSE
  <2> DEFINE m == net[h][p]
  <2>1. SegmentOK(h, m) /\ m.src = g
    BY <1>1, ReliableQueues DEF TcpInv, Connections, Link
  <2>2. PICK n \in DOMAIN sockets[g] : SentBy(sockets[g][n], h, m)
    BY <2>1 DEF SegmentOK
  <2> QED
    BY <1>1, <2>2 DEF NoEnd, SentBy, FromTo, Link
<1>2. ASSUME NEW f, f # {"SYN"}, NEW p \in DOMAIN net[g], net[g][p] \in From(h, w, f)
      PROVE  FALSE
  <2> DEFINE m == net[g][p]
  <2>1. SegmentOK(g, m) /\ m.flags # {"SYN"}
    BY <1>2, ReliableQueues DEF TcpInv, Connections, From
  <2>2. PICK n \in DOMAIN sockets[g] : MeantFor(sockets[g][n], m)
    BY <2>1 DEF SegmentOK
  <2> QED
    BY <1>2, <2>2 DEF NoEnd, MeantFor, FromTo, From
<1>3. w.state \notin Open
  <2>1. SocketOK(h, w)
    BY DEF TcpInv, Connections
  <2> QED
    BY <2>1 DEF SocketOK, Agrees, NoEnd, FromTo
<1> QED
  BY <1>1, <1>2, <1>3 DEF NoneOf, Writers

LEMMA BeginsDeliver ==
  ASSUME TcpInv, Reliable, Writers, Deliveries, NEW g \in Hosts, NEW k, NEW u, Begins(g, k, u)
  PROVE  Deliveries'
<1> SUFFICES ASSUME NEW r \in Hosts, NEW h \in Hosts,
                    NEW j \in DOMAIN sockets'[r], NEW i \in DOMAIN sockets'[h],
                    NEW t, t = sockets'[r][j], NEW s, s = sockets'[h][i],
                    FromTo(t, h, s.rport, s.lport), FromTo(s, r, t.rport, t.lport),
                    t.state \in Outgoing, s.state \in Incoming
             PROVE  PairOK(r, t, h, s, net'[h], net'[r])
  BY DEF Deliveries, PairOK
<1>1. net[r] \in Seq(SegmentSet) /\ net[h] \in Seq(SegmentSet)
  BY ReliableQueues
<1>2. Apart(net[r], net'[r], Later) /\ Apart(net[h], net'[h], Later)
  BY DEF Begins
<1>3. /\ \A f \in {{"PSH", "ACK"}, {"ACK"}, {"FIN", "ACK"}, {"RST"}} :
           f \notin {{"SYN"}, {"SYN", "ACK"}}
      /\ {"PSH", "ACK"} # {"SYN"} /\ {"FIN", "ACK"} # {"SYN"}
  OBVIOUS
<1>4. /\ From(r, t, {"PSH", "ACK"}) \subseteq Later /\ From(r, t, {"ACK"}) \subseteq Later
      /\ From(r, t, {"FIN", "ACK"}) \subseteq Later /\ From(h, s, {"RST"}) \subseteq Later
  BY <1>3 DEF From, Later
<1>5. ASSUME NoneOf(net[h], From(r, t, {"PSH", "ACK"})), NoneOf(net[h], From(r, t, {"FIN", "ACK"})),
             t \in SocketSet, s \in SocketSet, t.sent = <<>>, s.got = <<>>,
             \/ t.state = "SYN_SENT" /\ s.state \in {"SYN_SENT", "SYN_RECEIVED"}
             \/ t.state = "SYN_RECEIVED" /\ s.state = "SYN_SENT"
      PROVE  PairOK(r, t, h, s, net'[h], net'[r])
  <2>1. /\ net'[h] \in Seq(SegmentSet)
        /\ NoneOf(net'[h], From(r, t, {"PSH", "ACK"})) /\ NoneOf(net'[h], From(r, t, {"FIN", "ACK"}))
    BY <1>1, <1>2, <1>4, <1>5, ApartNone
  <2>2. Delivers(net'[h], r, t, s)
    BY <1>5, <2>1, DeliveryStarts DEF Delivers
  <2> QED
    BY <2>2 DEF PairOK
<1>6. ASSUME r = g, j = k
      PROVE  PairOK(r, t, h, s, net'[h], net'[r])
  <2>1. t = u /\ h # g /\ i \in DOMAIN sockets[h] /\ s = sockets[h][i]
    BY <1>6 DEF Begins, FromTo
  <2>2. u \in SocketSet /\ u.sent = <<>> /\ u.state \in {"SYN_SENT", "SYN_RECEIVED"} /\ NoEnd(g, u)
    BY <2>1 DEF Begins, Outgoing
  <2>3. /\ NoneOf(net[h], Link(g, u)) /\ s.state \notin Open
        /\ s.state = "SYN_SENT" => s.sent = <<>> /\ s.got = <<>>
    BY <1>6, <2>1, <2>2, NothingBefore
  <2>4. s.state = "SYN_SENT" /\ s \in SocketSet
    BY <2>1, <2>3, SocketTyped DEF Incoming, Open, Half, TcpInv
  <2>5. NoneOf(net[h], From(r, t, {"PSH", "ACK"})) /\ NoneOf(net[h], From(r, t, {"FIN", "ACK"}))
    BY <1>6, <2>1, <2>3 DEF NoneOf, Link, From
  <2> QED
    BY <1>5, <2>1, <2>2, <2>3, <2>4, <2>5
<1>7. ASSUME h = g, i = k
      PROVE  PairOK(r, t, h, s, net'[h], net'[r])
  <2>1. s = u /\ r # g /\ j \in DOMAIN sockets[r] /\ t = sockets[r][j]
    BY <1>7 DEF Begins, FromTo
  <2>2. u \in SocketSet /\ u.got = <<>> /\ u.state \in {"SYN_SENT", "SYN_RECEIVED"} /\ NoEnd(g, u)
    BY <2>1 DEF Begins, Incoming
  <2>3. /\ \A f : f # {"SYN"} => NoneOf(net[g], From(r, t, f))
        /\ t.state \notin Open
        /\ t.state = "SYN_SENT" => t.sent = <<>> /\ t.got = <<>>
    BY <1>7, <2>1, <2>2, NothingBefore
  <2>4. t.state = "SYN_SENT" /\ t \in SocketSet
    BY <2>1, <2>3, SocketTyped DEF Outgoing, Open, Half, TcpInv
  <2>5. NoneOf(net[h], From(r, t, {"PSH", "ACK"})) /\ NoneOf(net[h], From(r, t, {"FIN", "ACK"}))
    BY <1>3, <1>7, <2>3
  <2> QED
    BY <1>5, <2>1, <2>2, <2>3, <2>4, <2>5
<1>8. ASSUME ~(r = g /\ j = k), ~(h = g /\ i = k)
      PROVE  PairOK(r, t, h, s, net'[h], net'[r])
  <2>1. /\ j \in DOMAIN sockets[r] /\ t = sockets[r][j]
        /\ i \in DOMAIN sockets[h] /\ s = sockets[h][i]
    BY <1>8 DEF Begins
  <2>2. PairOK(r, t, h, s, net[h], net[r]) /\ t \in SocketSet /\ s \in SocketSet
    BY <2>1, SocketTyped DEF Deliveries, TcpInv
  <2>3. From(r, t, {"PSH", "ACK"}) \cup From(r, t, {"ACK"}) \cup From(r, t, {"FIN", "ACK"}) \subseteq Later
    BY <1>4
  <2> QED
    BY <1>1, <1>2, <1>4, <2>2, <2>3, OtherPair
<1> QED
  BY <1>6, <1>7, <1>8

LEMMA BeginsWrite ==
  ASSUME TcpInv, Writers, NEW g \in Hosts, NEW k, NEW u, Begins(g, k, u),
         \A f \in Hosts : DOMAIN sockets[f] \subseteq DOMAIN sockets'[f]
  PROVE  Writers'
<1>1. ASSUME NEW h \in Hosts, sending'[h] # NoSend
      PROVE  h \in Talkers /\ sockets'[h][sending'[h].sock].state \in Writing
  <2>1. sending'[h] = sending[h] /\ sending[h].sock \in DOMAIN sockets[h]
    BY <1>1 DEF Begins, TcpInv, Peers
  <2> QED
    BY <1>1, <2>1 DEF Begins, Writers
<1>2. ASSUME NEW h \in Hosts, NEW i \in DOMAIN sockets'[h], sockets'[h][i].state \in {"LISTEN", "SYN_SENT"}
      PROVE  sockets'[h][i].sent = <<>> /\ sockets'[h][i].got = <<>>
  BY <1>2 DEF Begins, Writers
<1> QED
  BY <1>1, <1>2 DEF Writers

-----------------------------------------------------------------------------
(***************************************************************************)
(* Every step is of one of these forms, or pops a segment nobody is for.   *)
(***************************************************************************)
LEMMA BindActs ==
  ASSUME TcpInv, NEW g \in Hosts, NEW k \in DOMAIN sockets[g], Bind(g, k)
  PROVE  \E u, segs : Acts(g, k, u, segs)
<1> DEFINE s == sockets[g][k]
           u == [s EXCEPT !.handler = TRUE]
<1>1. s \in SocketSet /\ net' = net /\ sending' = sending
  BY SocketTyped DEF TcpInv, Bind
<1>2. /\ u \in SocketSet /\ u.state = s.state /\ u.sent = s.sent /\ u.got = s.got
      /\ u.lport = s.lport /\ u.rhost = s.rhost /\ u.rport = s.rport
  BY <1>1 DEF SocketSet
<1>3. sockets' = [sockets EXCEPT ![g][k] = u]
  BY DEF Bind, TcpInv, Types
<1> HIDE DEF u
<1>4. Transmission(g, s, u, <<>>)
  BY <1>2 DEF Transmission, FromTo
<1>5. Reliable => \A f \in Hosts : net'[f] = IF f = s.rhost THEN net[f] \o <<>> ELSE net[f]
  BY <1>1, ReliableQueues, Concatenations
<1>6. Acts(g, k, u, <<>>)
  BY <1>1, <1>2, <1>3, <1>4, <1>5 DEF Acts
<1> QED
  BY <1>6

LEMMA SendEndActs ==
  ASSUME TcpInv, Writers, NEW g \in Hosts, SendEnd(g)
  PROVE  \E k \in DOMAIN sockets[g] : \E u, segs : Acts(g, k, u, segs)
<1> DEFINE k == sending[g].sock
           m == sending[g].seg
           s == sockets[g][k]
           u == Sent(s, m.data)
<1>1. /\ sending[g] # NoSend /\ sending' = [sending EXCEPT ![g] = NoSend]
      /\ sockets' = [sockets EXCEPT ![g][k] = u] /\ net' = [net EXCEPT ![s.rhost] = Put(@, <<m>>)]
  BY DEF SendEnd
<1>2. k \in DOMAIN sockets[g] /\ SendOK(g, s, m) /\ s.state \in Writing
  BY <1>1 DEF TcpInv, Peers, Connections, Writers
<1>3. m \in SegmentSet /\ m.data \in Data /\ s \in SocketSet
  BY <1>1, <1>2, SocketTyped DEF TcpInv, Types, SegmentSet
<1> HIDE DEF k, m, s
<1>4. /\ u \in SocketSet /\ u.state = s.state /\ u.sent = Append(s.sent, m.data) /\ u.got = s.got
      /\ u.lport = s.lport /\ u.rhost = s.rhost /\ u.rport = s.rport
  BY <1>3, SentTyped
<1> HIDE DEF u
<1>5. m \in From(g, s, m.flags) /\ m.flags = {"PSH", "ACK"}
  BY <1>2, <1>3 DEF SendOK, From
<1>6. u.state \in Outgoing => Speaks(s, u, m)
  BY <1>2, <1>4, <1>5 DEF Speaks, Outgoing, Writing
<1>7. Transmission(g, s, u, <<m>>)
  BY <1>2, <1>4, <1>5, <1>6 DEF Transmission, FromTo, Writing
<1>8. Reliable => \A f \in Hosts : net'[f] = IF f = s.rhost THEN net[f] \o <<m>> ELSE net[f]
  BY <1>1 DEF Put, TcpInv, Types
<1>9. \A f \in Hosts : sending'[f] # NoSend => f # g /\ sending'[f] = sending[f]
  BY <1>1 DEF TcpInv, Types
<1>10. Acts(g, k, u, <<m>>)
  BY <1>1, <1>4, <1>7, <1>8, <1>9 DEF Acts, s
<1> QED
  BY <1>2, <1>10

LEMMA DisconnectBeginActs ==
  ASSUME TcpInv, NEW g \in Hosts, NEW k \in DOMAIN sockets[g], DisconnectBegin(g, k)
  PROVE  \E u, segs : Acts(g, k, u, segs)
<1> DEFINE s == sockets[g][k]
           u == FinDue(s)
<1>1. /\ s.state = "ESTABLISHED" /\ sending' = sending /\ sending[g] = NoSend /\ net' = net
      /\ sockets' = [sockets EXCEPT ![g][k] = u]
  BY DEF DisconnectBegin
<1>2. s \in SocketSet
  BY SocketTyped DEF TcpInv
<1> HIDE DEF s
<1>3. /\ u \in SocketSet /\ u.state = "FIN_WAIT1" /\ u.sent = s.sent
      /\ u.lport = s.lport /\ u.rhost = s.rhost /\ u.rport = s.rport
  BY <1>2, FinDueTyped
<1> HIDE DEF u
<1>4. Transmission(g, s, u, <<>>)
  BY <1>1, <1>3 DEF Transmission, FromTo
<1>5. Reliable => \A f \in Hosts : net'[f] = IF f = s.rhost THEN net[f] \o <<>> ELSE net[f]
  BY <1>1, ReliableQueues, Concatenations
<1>6. Acts(g, k, u, <<>>)
  BY <1>1, <1>3, <1>4, <1>5 DEF Acts, s, Incoming
<1> QED
  BY <1>6

\* The state has changed before; the socket may even be closed by now.
LEMMA DisconnectEndActs ==
  ASSUME TcpInv, NEW g \in Hosts, NEW k \in DOMAIN sockets[g], DisconnectEnd(g, k)
  PROVE  \E u, segs : Acts(g, k, u, segs)
<1> DEFINE s == sockets[g][k]
           u == FinSent(s)
           m == Segment(g, s, {"FIN", "ACK"}, NoData)
<1>1. /\ s.closing /\ sending' = sending
      /\ sockets' = [sockets EXCEPT ![g][k] = u] /\ net' = [net EXCEPT ![s.rhost] = Put(@, <<m>>)]
  BY DEF DisconnectEnd
<1>2. s \in SocketSet /\ s.state \in Closing
  BY <1>1, SocketTyped DEF TcpInv, Connections, ClosingOK
<1> HIDE DEF s
<1>3. /\ u \in SocketSet /\ u.state = s.state /\ u.sent = s.sent /\ u.got = s.got
      /\ u.lport = s.lport /\ u.rhost = s.rhost /\ u.rport = s.rport
  BY <1>2, FinSentTyped
<1>4. m \in From(g, s, m.flags) /\ m.flags = {"FIN", "ACK"}
  BY <1>2, ControlFrom
<1> HIDE DEF u, m
<1>5. u.state \in Outgoing => Speaks(s, u, m)
  BY <1>2, <1>3, <1>4 DEF Speaks, Outgoing, Closing, Finishing
<1>6. Transmission(g, s, u, <<m>>)
  BY <1>3, <1>4, <1>5 DEF Transmission, FromTo
<1>7. Reliable => \A f \in Hosts : net'[f] = IF f = s.rhost THEN net[f] \o <<m>> ELSE net[f]
  BY <1>1 DEF Put, TcpInv, Types
<1>8. Acts(g, k, u, <<m>>)
  BY <1>1, <1>3, <1>6, <1>7 DEF Acts, s
<1> QED
  BY <1>8

\* What the answer to a segment does to the queues.
LEMMA AnswerQueues ==
  ASSUME TcpInv, Reliable, NEW g \in Hosts, NEW m \in Arriving(net[g]), NEW k, NEW u, u.rhost # g,
         NEW segs, Answer(g, k, u, segs)
  PROVE  /\ net[g] # <<>> /\ m = Head(net[g])
         /\ \A f \in Hosts : net'[f] = IF f = u.rhost THEN net[f] \o segs
                                       ELSE IF f = g THEN Tail(net[f]) ELSE net[f]
<1>1. net[g] # <<>>
  BY DEF Arriving
<1>2. m = Head(net[g])
  BY <1>1, ReliableQueues
<1>3. net \in [Hosts -> Seq(SegmentSet)]
  BY DEF TcpInv, Types
<1> QED
  BY <1>1, <1>2, <1>3 DEF Answer, Put, Rest

LEMMA HandleActs ==
  ASSUME PayloadsFit, TcpInv, NEW g \in Hosts, NEW m \in Arriving(net[g]), NEW k \in DOMAIN sockets[g],
         SocketFor(g, k, m), sockets[g][k].state # "LISTEN", Handle(g, k, sockets[g][k], m)
  PROVE  \E u, segs : Acts(g, k, u, segs)
<1> DEFINE s == sockets[g][k]
<1>1. /\ m \in SegmentSet /\ FromTo(s, m.src, m.dport, m.sport)
      /\ \E u, segs : Answer(g, k, u, segs) /\ Reacts(g, s, u, m, segs)
  BY HandleReacts
<1>2. PICK u, segs : Answer(g, k, u, segs) /\ Reacts(g, s, u, m, segs)
  BY <1>1
<1>3. Transmission(g, s, u, segs) /\ Hears(s, u, m, segs)
  BY <1>2 DEF Reacts
<1>4. u.rhost = s.rhost /\ s.rhost # g
  BY <1>3 DEF Transmission, FromTo, TcpInv, Peers
<1>5. sockets' = [sockets EXCEPT ![g][k] = u] /\ sending' = sending
  BY <1>2 DEF Answer
<1>6. s.state \in Writing => u.state \in Writing \/ "close" \in HandlerActs[g]
  BY <1>2 DEF Reacts
<1>7. Reliable =>
        /\ net[g] # <<>> /\ m = Head(net[g])
        /\ \A f \in Hosts : net'[f] = IF f = s.rhost THEN net[f] \o segs
                                      ELSE IF f = g THEN Tail(net[f]) ELSE net[f]
  BY <1>2, <1>4, AnswerQueues
<1>8. Acts(g, k, u, segs)
  BY <1>1, <1>3, <1>5, <1>6, <1>7 DEF Acts
<1> QED
  BY <1>8

LEMMA IgnoreActs ==
  ASSUME TcpInv, NEW g \in Hosts, NEW m \in Arriving(net[g]), NEW k \in DOMAIN sockets[g],
         SocketFor(g, k, m), Ignore(g, m)
  PROVE  Acts(g, k, sockets[g][k], <<>>)
<1> DEFINE s == sockets[g][k]
<1>1. "RST" \notin m.flags /\ (s.state = "CLOSED" \/ PlainAck(s, m))
  BY DEF Ignore, Ignored
<1>2. s.state # "LISTEN" /\ m.flags # {"RST"} /\ (s.state = "CLOSED" \/ m.flags = {"ACK"})
  <2>1. {"SYN"} # {"ACK"}
    OBVIOUS
  <2> QED
    BY <1>1, <2>1, Arrived DEF PlainAck
<1>3. s \in SocketSet /\ FromTo(s, m.src, m.dport, m.sport)
  BY <1>2, Arrived
<1>4. sockets' = [sockets EXCEPT ![g][k] = s] /\ sending' = sending
  BY DEF Ignore, TcpInv, Types
<1>5. Transmission(g, s, s, <<>>)
  BY <1>3 DEF Transmission, FromTo
<1>6. Hears(s, s, m, <<>>)
  <2>1. {"ACK"} # {"PSH", "ACK"}
    OBVIOUS
  <2>2. s.state \in Incoming => m.flags = {"ACK"} /\ s.state # "SYN_RECEIVED"
    BY <1>1, <1>2 DEF Incoming, PlainAck
  <2> QED
    BY <1>2, <2>1, <2>2 DEF Hears
<1>7. ASSUME Reliable
      PROVE  /\ net[g] # <<>> /\ m = Head(net[g])
             /\ \A f \in Hosts : net'[f] = IF f = s.rhost THEN net[f] \o <<>>
                                           ELSE IF f = g THEN Tail(net[f]) ELSE net[f]
  <2>1. net[g] # <<>>
    BY <1>7 DEF Arriving
  <2>2. m = Head(net[g])
    BY <1>7, <2>1, ReliableQueues
  <2>3. s.rhost # g /\ net \in [Hosts -> Seq(SegmentSet)]
    BY <1>7 DEF TcpInv, Peers, Types
  <2>4. \A f \in Hosts : net'[f] = IF f = g THEN Tail(net[f]) ELSE net[f]
    BY <1>7, <2>3 DEF Ignore, Rest
  <2>5. \A f \in Hosts : net[f] \o <<>> = net[f]
    BY <2>3, Concatenations
  <2> QED
    BY <2>1, <2>2, <2>3, <2>4, <2>5
<1> QED
  BY <1>3, <1>4, <1>5, <1>6, <1>7 DEF Acts

\* A listening socket takes a SYN, and nothing else arrives at it.
LEMMA ListenerAccepts ==
  ASSUME TcpInv, NEW g \in Hosts, NEW m \in Arriving(net[g]), NEW k \in DOMAIN sockets[g],
         SocketFor(g, k, m), sockets[g][k].state = "LISTEN", Handle(g, k, sockets[g][k], m)
  PROVE  m.flags = {"SYN"} /\ ReceiveSyn(g, k, sockets[g][k], m)
<1> DEFINE s == sockets[g][k]
<1>1. m \in SegmentSet /\ m.flags = {"SYN"}
  BY Arrived
<1>2. Type(m) = {"SYN"} /\ "RST" \notin m.flags /\ "FIN" \notin Type(m) /\ "ACK" \notin Type(m)
  BY <1>1 DEF Type
<1>3. ~CarriesData(s, m)
  BY <1>1, <1>2, Kinds DEF CarriesData
<1>4. ~SendReset(g, k, s, m)
  BY <1>2, <1>3 DEF SendReset, Unwanted
<1>5. ~ReceiveReset(g, k, s, m) /\ ~ReceiveSynAck(g, k, s, m) /\ ~ReceiveFin(g, k, s, m)
      /\ ~ReceiveAck(g, k, s, m) /\ ~ReceiveData(g, k, s, m)
  BY <1>2, <1>3 DEF ReceiveReset, ReceiveSynAck, ReceiveFin, ReceiveAck, ReceiveData
<1> QED
  BY <1>1, <1>4, <1>5 DEF Handle

LEMMA ApartForms ==
  ASSUME NEW q \in Seq(SegmentSet), NEW X
  PROVE  /\ Apart(q, q, X)
         /\ \A m \in SegmentSet \ X : Apart(q, q \o <<m>>, X)
         /\ q # <<>> /\ Head(q) \notin X => Apart(q, Tail(q), X)
<1>1. q = q \o <<>> /\ (q # <<>> => Tail(q) = Tail(q) \o <<>>)
  OBVIOUS
<1> QED
  BY <1>1, Zenon DEF Apart

LEMMA AcceptBegins ==
  ASSUME TcpInv, Writers, NEW g \in Hosts, NEW m \in Arriving(net[g]), NEW k \in DOMAIN sockets[g],
         SocketFor(g, k, m), sockets[g][k].state = "LISTEN", Handle(g, k, sockets[g][k], m)
  PROVE  \E u : Begins(g, k, u) /\ \A f \in Hosts : DOMAIN sockets[f] \subseteq DOMAIN sockets'[f]
<1> DEFINE s == sockets[g][k]
           w == [s EXCEPT !.state = "SYN_RECEIVED", !.rport = m.sport,
                          !.rhost = m.src, !.ack = m.seq + 1, !.seq = Isn]
           u == [w EXCEPT !.seq = @ + 1]
           r == Segment(g, w, {"SYN", "ACK"}, NoData)
<1>1. /\ m.flags = {"SYN"} /\ s.state = "LISTEN" /\ s \in SocketSet
      /\ m \in SegmentSet /\ m.src # g /\ s.lport = m.dport
      /\ s.sent = <<>> /\ s.got = <<>>
  BY Arrived, ListenerAccepts DEF Writers
<1>2. Answer(g, k, u, <<r>>)
  BY ListenerAccepts DEF ReceiveSyn
<1> HIDE DEF s
<1>3. /\ m.src \in Hosts /\ m.sport \in UInt16 /\ m.seq + 1 \in Int /\ Isn \in Nat
      /\ "SYN_RECEIVED" \in SocketState
  BY <1>1, IsnAssumption DEF SegmentSet, SocketState, IsnAssumption
<1>4. /\ w \in SocketSet /\ w.lport = s.lport /\ w.rhost = m.src /\ w.rport = m.sport
      /\ w.seq = Isn /\ w.state = "SYN_RECEIVED" /\ w.sent = s.sent /\ w.got = s.got
  BY <1>1, <1>3 DEF SocketSet
<1> HIDE DEF w
<1>5. /\ u \in SocketSet /\ u.lport = s.lport /\ u.rhost = m.src /\ u.rport = m.sport
      /\ u.state = "SYN_RECEIVED" /\ u.sent = <<>> /\ u.got = <<>>
  BY <1>1, <1>3, <1>4 DEF SocketSet
<1>6. r \in SegmentSet /\ r.flags = {"SYN", "ACK"}
  BY <1>4, FlagsTyped, SegmentTyped DEF Segment
<1> HIDE DEF u, r
<1>7. /\ \A f \in Hosts : DOMAIN sockets'[f] = DOMAIN sockets[f]
      /\ sockets'[g][k] = u
      /\ \A f \in Hosts : \A i \in DOMAIN sockets[f] : ~(f = g /\ i = k) => sockets'[f][i] = sockets[f][i]
  BY <1>2, <1>5, SocketUpdate DEF Answer, TcpInv
<1>8. NoEnd(g, u)
  <2>1. Accepted(g, k, u)
    BY <1>1, <1>5 DEF Accepted, FromTo, s
  <2>2. u.rhost # NoHost /\ \A i \in DOMAIN sockets[g] : i # k =>
          <<sockets[g][i].lport, sockets[g][i].rhost, sockets[g][i].rport>> # <<u.lport, u.rhost, u.rport>>
    BY <2>1, AcceptedIsNew
  <2>3. s.rhost = NoHost
    BY <1>1 DEF TcpInv, Peers, s
  <2> QED
    BY <2>2, <2>3 DEF NoEnd, FromTo, s
<1>9. sending' = sending /\ (sending[g] # NoSend => sending[g].sock # k)
  BY <1>1, <1>2 DEF Answer, Writers, Writing, s
<1>10. ASSUME Reliable, NEW f \in Hosts
       PROVE  Apart(net[f], net'[f], Later)
  <2>1. /\ net[g] # <<>> /\ m = Head(net[g])
        /\ net'[f] = IF f = u.rhost THEN net[f] \o <<r>> ELSE IF f = g THEN Tail(net[f]) ELSE net[f]
    <3>1. u.rhost # g
      BY <1>1, <1>5
    <3> QED
      BY <1>2, <1>10, <3>1, AnswerQueues, SMTT(30)
  <2>2. m \notin Later /\ r \in SegmentSet \ Later
    BY <1>1, <1>6 DEF Later
  <2>3. net[f] \in Seq(SegmentSet)
    BY <1>10, ReliableQueues
  <2> QED
    BY <2>1, <2>2, <2>3, ApartForms
<1>11. Begins(g, k, u)
  BY <1>1, <1>5, <1>7, <1>8, <1>9, <1>10 DEF Begins
<1> QED
  BY <1>7, <1>11

\* A socket is created.
LEMMA NewBegins ==
  ASSUME TcpInv, NEW g \in Hosts, NEW u \in SocketSet, u.sent = <<>>, u.got = <<>>, u.rhost # g,
         u.state = "LISTEN" \/ (u.state = "SYN_SENT" /\ NoEnd(g, u)),
         sockets' = [sockets EXCEPT ![g] = Append(@, u)], sending' = sending,
         Reliable => \A f \in Hosts : Apart(net[f], net'[f], Later)
  PROVE  \E k, w : Begins(g, k, w) /\ \A f \in Hosts : DOMAIN sockets[f] \subseteq DOMAIN sockets'[f]
<1> DEFINE k == Len(sockets[g]) + 1
<1>1. /\ \A f \in Hosts : f # g => sockets'[f] = sockets[f]
      /\ DOMAIN sockets'[g] = DOMAIN sockets[g] \cup {k}
      /\ \A i \in DOMAIN sockets[g] : sockets'[g][i] = sockets[g][i]
      /\ sockets'[g][k] = u
  BY SocketAdded DEF TcpInv
<1>2. k \notin DOMAIN sockets[g]
  BY DEF TcpInv, Types
<1>3. sending[g] # NoSend => sending[g].sock # k
  BY <1>2 DEF TcpInv, Peers
<1> HIDE DEF k
<1>4. Begins(g, k, u)
  BY <1>1, <1>3 DEF Begins
<1> QED
  BY <1>1, <1>4

LEMMA ListenBegins ==
  ASSUME TcpInv, NEW g \in Hosts, Listen(g)
  PROVE  \E k, w : Begins(g, k, w) /\ \A f \in Hosts : DOMAIN sockets[f] \subseteq DOMAIN sockets'[f]
<1> DEFINE u == Socket(g, "LISTEN", ServerPort, NoHost, NoPort)
<1>1. ServerPort \in UInt16 /\ NoPort \in UInt16 /\ "LISTEN" \in SocketState
  <2>1. NoPort \in UInt16
    BY SMT DEF NoPort, UInt16
  <2> QED
    BY <2>1, ServerPortAssumption DEF ServerPortAssumption, SocketState
<1>2. u \in SocketSet
  BY <1>1, NewSocketTyped
<1>3. u.state = "LISTEN" /\ u.rhost = NoHost /\ u.sent = <<>> /\ u.got = <<>>
  BY DEF Socket
<1>4. sockets' = [sockets EXCEPT ![g] = Append(@, u)] /\ sending' = sending /\ net' = net
  BY DEF Listen
<1> HIDE DEF u
<1>5. Reliable => \A f \in Hosts : Apart(net[f], net'[f], Later)
  BY <1>4, ReliableQueues, ApartForms
<1>6. u.rhost # g
  BY <1>3, NoHostAssumption DEF NoHostAssumption
<1> QED
  BY <1>2, <1>3, <1>4, <1>5, <1>6, NewBegins

LEMMA ConnectBegins ==
  ASSUME TcpInv, NEW g \in Hosts, NEW h \in Hosts, Connect(g, h)
  PROVE  \E k, w : Begins(g, k, w) /\ \A f \in Hosts : DOMAIN sockets[f] \subseteq DOMAIN sockets'[f]
<1> DEFINE u == Socket(g, "SYN_SENT", freePort[g], h, ServerPort)
           m == Segment(g, u, {"SYN"}, NoData)
<1>1. "SYN_SENT" \in SocketState /\ freePort[g] \in UInt16
  BY DEF SocketState, TcpInv, Types
<1>2. u \in SocketSet
  BY <1>1, NewSocketTyped, ServerPortAssumption DEF ServerPortAssumption
<1>3. u.state = "SYN_SENT" /\ u.rhost = h /\ u.lport = freePort[g] /\ u.sent = <<>> /\ u.got = <<>>
  BY DEF Socket
<1>4. /\ g \in Clients /\ h # g /\ Len(sockets[g]) < MaxSockets[g]
      /\ sockets' = [sockets EXCEPT ![g] = Append(@, u)] /\ sending' = sending
      /\ net' = [net EXCEPT ![h] = Put(@, <<m>>)]
  BY DEF Connect
<1> HIDE DEF u
<1>5. m \in SegmentSet /\ m.flags = {"SYN"}
  BY <1>2, FlagsTyped, SegmentTyped DEF Segment
<1> HIDE DEF m
<1>6. NoEnd(g, u)
  BY <1>3, <1>4, PortIsFree DEF NoEnd, FromTo
<1>7. ASSUME Reliable, NEW f \in Hosts
      PROVE  Apart(net[f], net'[f], Later)
  <2>1. net[f] \in Seq(SegmentSet)
    BY <1>7, ReliableQueues
  <2>2. net'[f] = IF f = h THEN net[f] \o <<m>> ELSE net[f]
    BY <1>4, <1>7 DEF Put, TcpInv, Types
  <2>3. m \in SegmentSet \ Later
    BY <1>5 DEF Later
  <2> QED
    BY <2>1, <2>2, <2>3, ApartForms
<1> QED
  BY <1>2, <1>3, <1>4, <1>6, <1>7, NewBegins

-----------------------------------------------------------------------------
\* A connection's segment finds its socket.
LEMMA SocketFound ==
  ASSUME TcpInv, NEW g \in Hosts, NEW m \in SegmentSet, NEW k \in DOMAIN sockets[g],
         FromTo(sockets[g][k], m.src, m.dport, m.sport)
  PROVE  SocketFor(g, k, m)
<1>1. m.src # NoHost
  BY NoHostAssumption DEF SegmentSet, NoHostAssumption
<1>2. sockets[g][k].state # "LISTEN"
  BY <1>1 DEF TcpInv, Peers, FromTo
<1>3. Matches(g, k, m)
  BY DEF Matches, FromTo
<1>4. ASSUME NEW j \in DOMAIN sockets[g], j < k, Matches(g, j, m)
      PROVE  FALSE
  <2>1. CASE sockets[g][j].state = "LISTEN"
    BY <1>2, <1>4, <2>1 DEF TcpInv, ListenersLast, Matches, FromTo
  <2>2. CASE FromTo(sockets[g][j], m.src, m.dport, m.sport)
    <3>1. j = k
      BY <1>1, <2>2 DEF TcpInv, UniqueConnection, FromTo
    <3>2. j \in Nat
      BY DEF TcpInv, Types
    <3> QED
      BY <1>4, <3>1, <3>2
  <2> QED
    BY <1>4, <2>1, <2>2 DEF Matches, FromTo
<1> QED
  BY <1>3, <1>4 DEF SocketFor

\* The first segment goes, and belongs to no connection.
LEMMA IgnoreDelivers ==
  ASSUME TcpInv, Reliable, Deliveries, NEW g \in Hosts, NEW m \in Arriving(net[g]), Ignore(g, m),
         \A k \in DOMAIN sockets[g] : ~SocketFor(g, k, m)
  PROVE  Deliveries'
<1> SUFFICES ASSUME NEW r \in Hosts, NEW h \in Hosts,
                    NEW j \in DOMAIN sockets[r], NEW i \in DOMAIN sockets[h],
                    NEW t, t = sockets[r][j], NEW s, s = sockets[h][i],
                    FromTo(t, h, s.rport, s.lport), FromTo(s, r, t.rport, t.lport)
             PROVE  PairOK(r, t, h, s, net'[h], net'[r])
  BY DEF Deliveries, PairOK, Ignore
<1>1. net[g] # <<>>
  BY DEF Arriving
<1>2. m = Head(net[g]) /\ m \in SegmentSet
  BY <1>1, ReliableQueues
<1>3. \A f \in Hosts : net[f] \in Seq(SegmentSet) /\ net'[f] = IF f = g THEN Tail(net[f]) ELSE net[f]
  BY DEF Ignore, Rest, TcpInv, Types
<1>4. ASSUME h = g
      PROVE  m \notin Link(r, t)
  <2>1. m \in Link(r, t) => FromTo(sockets[g][i], m.src, m.dport, m.sport)
    BY <1>4 DEF Link, FromTo
  <2> QED
    BY <1>2, <1>4, <2>1, SocketFound
<1>5. ASSUME r = g
      PROVE  m \notin Link(h, s)
  <2>1. m \in Link(h, s) => FromTo(sockets[g][j], m.src, m.dport, m.sport)
    BY <1>5 DEF Link, FromTo
  <2> QED
    BY <1>2, <1>5, <2>1, SocketFound
<1>6. Apart(net[h], net'[h], Link(r, t)) /\ Apart(net[r], net'[r], Link(h, s))
  BY <1>1, <1>2, <1>3, <1>4, <1>5, ApartForms
<1>7. /\ From(r, t, {"PSH", "ACK"}) \cup From(r, t, {"ACK"}) \cup From(r, t, {"FIN", "ACK"})
           \subseteq Link(r, t)
      /\ From(h, s, {"RST"}) \subseteq Link(h, s)
  BY DEF From, Link
<1>8. t \in SocketSet /\ s \in SocketSet /\ PairOK(r, t, h, s, net[h], net[r])
  BY SocketTyped DEF TcpInv, Deliveries
<1> QED
  BY <1>3, <1>6, <1>7, <1>8, OtherPair

LEMMA SendBeginWrites ==
  ASSUME TcpInv, Writers, NEW g \in Hosts, NEW k \in DOMAIN sockets[g], NEW data \in Payloads,
         SendBegin(g, k, data)
  PROVE  Writers'
<1> DEFINE b == [sock |-> k, seg |-> Segment(g, sockets[g][k], {"PSH", "ACK"}, data)]
<1>1. /\ g \in Talkers /\ sockets[g][k].state \in Writing /\ sockets' = sockets
      /\ sending' = [sending EXCEPT ![g] = b]
  BY DEF SendBegin, Writing
<1>2. b.sock = k
  OBVIOUS
<1> HIDE DEF b
<1>3. \A f \in Hosts : sending'[f] = IF f = g THEN b ELSE sending[f]
  BY <1>1 DEF TcpInv, Types
<1> QED
  BY <1>1, <1>2, <1>3 DEF Writers

LEMMA DeliveryStep ==
  ASSUME PayloadsFit, OneCloser, DeliveryInv, [TcpNext]_tcpVars
  PROVE  DeliveryInv'
<1>1. TcpInv /\ Writers /\ (Reliable => Deliveries)
  BY DEF DeliveryInv
<1>2. TcpInv'
  BY <1>1, TcpStep
<1>3. ASSUME NEW g \in Hosts, NEW k \in DOMAIN sockets[g], NEW u, NEW segs, Acts(g, k, u, segs)
      PROVE  Writers' /\ (Reliable => Deliveries')
  BY <1>1, <1>3, ActsWrite, ActsDeliver
<1>4. ASSUME NEW g \in Hosts, NEW k, NEW u, Begins(g, k, u),
             \A f \in Hosts : DOMAIN sockets[f] \subseteq DOMAIN sockets'[f]
      PROVE  Writers' /\ (Reliable => Deliveries')
  BY <1>1, <1>4, BeginsWrite, BeginsDeliver
<1>5. ASSUME NEW g \in Hosts, Receive(g)
      PROVE  Writers' /\ (Reliable => Deliveries')
  <2>1. PICK m \in Arriving(net[g]) :
          \/ Ignore(g, m)
          \/ \E k \in DOMAIN sockets[g] : SocketFor(g, k, m) /\ Handle(g, k, sockets[g][k], m)
    BY <1>5 DEF Receive
  <2>2. ASSUME NEW k \in DOMAIN sockets[g], SocketFor(g, k, m), Handle(g, k, sockets[g][k], m)
        PROVE  Writers' /\ (Reliable => Deliveries')
    <3>1. CASE sockets[g][k].state = "LISTEN"
      BY <1>1, <1>4, <2>2, <3>1, AcceptBegins
    <3>2. CASE sockets[g][k].state # "LISTEN"
      BY <1>1, <1>3, <2>2, <3>2, HandleActs
    <3> QED
      BY <3>1, <3>2
  <2>3. ASSUME Ignore(g, m), NEW k \in DOMAIN sockets[g], SocketFor(g, k, m)
        PROVE  Writers' /\ (Reliable => Deliveries')
    BY <1>1, <1>3, <2>3, IgnoreActs
  <2>4. ASSUME Ignore(g, m), \A k \in DOMAIN sockets[g] : ~SocketFor(g, k, m)
        PROVE  Writers' /\ (Reliable => Deliveries')
    <3>1. Writers'
      BY <1>1, <2>4 DEF Writers, Ignore
    <3> QED
      BY <1>1, <2>4, <3>1, IgnoreDelivers
  <2> QED
    BY <2>1, <2>2, <2>3, <2>4
<1>6. ASSUME NEW g \in Hosts, NEW k \in DOMAIN sockets[g], NEW data \in Payloads, SendBegin(g, k, data)
      PROVE  Writers' /\ (Reliable => Deliveries')
  <2>1. sockets' = sockets /\ net' = net
    BY <1>6 DEF SendBegin
  <2>2. Writers'
    BY <1>1, <1>6, SendBeginWrites
  <2> QED
    BY <1>1, <2>1, <2>2 DEF Deliveries
<1>7. CASE UNCHANGED tcpVars
  <2>1. sockets' = sockets /\ net' = net /\ sending' = sending
    BY <1>7 DEF tcpVars
  <2> QED
    BY <1>1, <1>2, <2>1 DEF Deliveries, Writers, DeliveryInv
<1>8. CASE TcpNext
  <2>1. PICK g \in Hosts :
          \/ Listen(g)
          \/ \E r \in Hosts : Connect(g, r)
          \/ \E k \in DOMAIN sockets[g] :
               \/ Bind(g, k)
               \/ \E data \in Payloads : SendBegin(g, k, data)
               \/ DisconnectBegin(g, k)
               \/ DisconnectEnd(g, k)
          \/ SendEnd(g)
          \/ Receive(g)
    BY <1>8 DEF TcpNext
  <2>2. ASSUME Listen(g)
        PROVE  Writers' /\ (Reliable => Deliveries')
    <3>1. \E k, w : Begins(g, k, w) /\ \A f \in Hosts : DOMAIN sockets[f] \subseteq DOMAIN sockets'[f]
      BY <1>1, <2>2, ListenBegins
    <3> QED
      BY <1>4, <3>1
  <2>3. ASSUME \E r \in Hosts : Connect(g, r)
        PROVE  Writers' /\ (Reliable => Deliveries')
    <3>1. \E k, w : Begins(g, k, w) /\ \A f \in Hosts : DOMAIN sockets[f] \subseteq DOMAIN sockets'[f]
      BY <1>1, <2>3, ConnectBegins
    <3> QED
      BY <1>4, <3>1
  <2>4. ASSUME NEW k \in DOMAIN sockets[g], Bind(g, k)
        PROVE  Writers' /\ (Reliable => Deliveries')
    BY <1>1, <1>3, <2>4, BindActs
  <2>5. ASSUME NEW k \in DOMAIN sockets[g], DisconnectBegin(g, k) \/ DisconnectEnd(g, k)
        PROVE  Writers' /\ (Reliable => Deliveries')
    BY <1>1, <1>3, <2>5, DisconnectBeginActs, DisconnectEndActs
  <2>6. ASSUME SendEnd(g)
        PROVE  Writers' /\ (Reliable => Deliveries')
    <3>1. PICK k \in DOMAIN sockets[g] : \E u, segs : Acts(g, k, u, segs)
      BY <1>1, <2>6, SendEndActs
    <3> QED
      BY <1>3, <3>1
  <2>7. Writers' /\ (Reliable => Deliveries')
    BY <1>5, <1>6, <2>1, <2>2, <2>3, <2>4, <2>5, <2>6
  <2> QED
    BY <1>2, <2>7 DEF DeliveryInv
<1> QED
  BY <1>7, <1>8

(***************************************************************************)
(* The invariant that delivery before the end rests on: on a reliable      *)
(* network the queue to a host carries, in order and before the FIN, just  *)
(* the payloads its sockets have yet to be given (tcp.cpp:165-226).        *)
(***************************************************************************)
THEOREM DeliveryInvariant ==
  ASSUME PayloadsFit, OneCloser
  PROVE  TcpSpec => []DeliveryInv
<1>1. TcpInit => DeliveryInv
  <2> SUFFICES ASSUME TcpInit
               PROVE  DeliveryInv
    OBVIOUS
  <2>1. \A h \in Hosts : DOMAIN sockets[h] = {} /\ sending[h] = NoSend
    BY DEF TcpInit
  <2> QED
    BY <2>1, Initially DEF DeliveryInv, Writers, Deliveries
<1>2. DeliveryInv /\ [TcpNext]_tcpVars => DeliveryInv'
  BY DeliveryStep
<1> QED
  BY <1>1, <1>2, PTL DEF TcpSpec

(***************************************************************************)
(* On a reliable network the end that is closed by the other has been      *)
(* given everything the other sent, unless a reset is on its way: provided *)
(* that the handlers of a host whose tasks send do not close, and that the *)
(* receiver finds of no payload more or less than was sent.                *)
(***************************************************************************)
THEOREM AllDeliveredBeforeClose ==
  ASSUME PayloadsFit, OneCloser
  PROVE  TcpSpec => []DeliveredBeforeClose
<1>1. ASSUME DeliveryInv, Reliable, NoReset, NEW h \in Hosts, NEW k \in DOMAIN sockets[h],
             sockets[h][k].state = "CLOSE_WAIT", NEW r, r = sockets[h][k].rhost,
             NEW j \in DOMAIN sockets[r], Ends(h, k, j), sockets[r][j].state \in Finishing
      PROVE  sockets[h][k].got = sockets[r][j].sent
  <2> DEFINE s == sockets[h][k]
             t == sockets[r][j]
  <2>1. TcpInv /\ Deliveries
    BY <1>1 DEF DeliveryInv
  <2>2. r \in Hosts /\ s \in SocketSet
    BY <1>1, <2>1, SocketTyped DEF TcpInv, Ends
  <2>3. t \in SocketSet
    BY <2>1, <2>2, SocketTyped DEF TcpInv
  <2>4. FromTo(t, h, s.rport, s.lport) /\ FromTo(s, r, t.rport, t.lport)
    BY <1>1 DEF Ends, FromTo
  <2>5. PairOK(r, t, h, s, net[h], net[r])
    BY <2>1, <2>2 DEF Deliveries
  <2>6. ~ResetIn(net[r], h, s)
    BY <1>1, <2>1, <2>2, ReliableQueues DEF NoReset, ResetIn, From
  <2>7. Delivers(net[h], r, t, s)
    BY <1>1, <2>4, <2>5, <2>6 DEF PairOK, Outgoing, Incoming, Finishing
  <2>8. net[h] \in Seq(SegmentSet)
    BY <1>1, <2>1, ReliableQueues
  <2> QED
    BY <1>1, <2>2, <2>3, <2>7, <2>8, DeliveryComplete DEF Delivers
<1>2. DeliveryInv => DeliveredBeforeClose
  BY <1>1 DEF DeliveredBeforeClose, Finishing
<1> QED
  BY <1>2, DeliveryInvariant, PTL

-----------------------------------------------------------------------------
(***************************************************************************)
(* The refinement of ByteStreams.  An end is known by its addresses, and   *)
(* only one socket has them.                                               *)
(***************************************************************************)
Ended == {"CLOSE_WAIT", "CLOSED"}

EndsKnown ==
  \A h \in Hosts : \A k \in SocketsWithPeer(h) :
    LET s == sockets[h][k]
        e == EndOf(h, s)
    IN  e \in StreamEnds /\ e \in B!End /\ SocketOf(e) = s

LEMMA EndsFound == TcpInv => EndsKnown
<1> SUFFICES ASSUME TcpInv, NEW h \in Hosts, NEW k \in SocketsWithPeer(h)
             PROVE  LET s == sockets[h][k]
                        e == EndOf(h, s)
                    IN  e \in StreamEnds /\ e \in B!End /\ SocketOf(e) = s
  BY DEF EndsKnown
<1> DEFINE s == sockets[h][k]
           e == EndOf(h, s)
<1>1. k \in DOMAIN sockets[h] /\ s \in SocketSet /\ s.rhost \in Hosts
  BY SocketTyped DEF SocketsWithPeer, TcpInv
<1>2. e \in StreamEnds
  BY DEF StreamEnds
<1>3. e \in B!End
  BY <1>1 DEF B!End, EndOf, SocketSet
<1>4. e.host = h
  BY DEF EndOf
<1>5. ASSUME NEW i \in SocketsWithPeer(h), EndOf(h, sockets[h][i]) = e
      PROVE  i = k
  <2>1. i \in DOMAIN sockets[h]
    BY DEF SocketsWithPeer
  <2>2. FromTo(sockets[h][i], s.rhost, s.lport, s.rport) /\ FromTo(s, s.rhost, s.lport, s.rport)
    BY <1>5 DEF EndOf, FromTo
  <2> QED
    BY <1>1, <2>1, <2>2, OneEnd
<1>6. (CHOOSE i \in SocketsWithPeer(h) : EndOf(h, sockets[h][i]) = e) = k
  BY <1>5
<1>7. SocketOf(e) = s
  BY <1>4, <1>6 DEF SocketOf
<1> QED
  BY <1>2, <1>3, <1>7

LEMMA EndsHaveSockets ==
  \A e \in StreamEnds : \E h \in Hosts : \E k \in SocketsWithPeer(h) : e = EndOf(h, sockets[h][k])
  BY DEF StreamEnds

LEMMA StreamsAre ==
  /\ DOMAIN StreamWritten = StreamEnds /\ DOMAIN StreamRead = StreamEnds
  /\ StreamOver \subseteq StreamEnds
  /\ \A e \in StreamEnds :
       /\ StreamWritten[e] = SocketOf(e).sent /\ StreamRead[e] = SocketOf(e).got
       /\ e \in StreamOver <=> SocketOf(e).state \in Ended
  BY DEF StreamWritten, StreamRead, StreamOver, Ended

\* What a step does to the streams, given what it does to the sockets with a peer.
\* It leaves them alone.
LEMMA StreamsUnchanged ==
  ASSUME \A g \in Hosts : SocketsWithPeer(g)' = SocketsWithPeer(g),
         \A g \in Hosts : \A i \in SocketsWithPeer(g) : sockets'[g][i] = sockets[g][i],
         EndsKnown, EndsKnown'
  PROVE  UNCHANGED <<StreamWritten, StreamRead, StreamOver>>
<1>1. \A g \in Hosts : {EndOf(g, sockets'[g][i]) : i \in SocketsWithPeer(g)'}
                         = {EndOf(g, sockets[g][i]) : i \in SocketsWithPeer(g)}
  OBVIOUS
<1>2. StreamEnds' = StreamEnds
  BY <1>1 DEF StreamEnds, EndOf
<1>3. \A e \in StreamEnds : SocketOf(e)' = SocketOf(e)
  BY EndsHaveSockets DEF EndsKnown, EndOf
<1> QED
  BY <1>2, <1>3 DEF StreamWritten, StreamRead, StreamOver

\* It changes a socket that keeps its addresses.
LEMMA StreamsChange ==
  ASSUME EndsKnown, EndsKnown', NEW h \in Hosts, NEW k \in SocketsWithPeer(h),
         NEW s, s = sockets[h][k], NEW t, t = sockets'[h][k], EndOf(h, t) = EndOf(h, s),
         \A g \in Hosts : SocketsWithPeer(g)' = SocketsWithPeer(g),
         \A g \in Hosts : \A i \in SocketsWithPeer(g) :
           g # h \/ i # k => sockets'[g][i] = sockets[g][i]
  PROVE  LET e == EndOf(h, s)
         IN  /\ e \in StreamEnds /\ StreamWritten[e] = s.sent /\ StreamRead[e] = s.got
             /\ e \in StreamOver <=> s.state \in Ended
             /\ StreamWritten' = [StreamWritten EXCEPT ![e] = t.sent]
             /\ StreamRead' = [StreamRead EXCEPT ![e] = t.got]
             /\ StreamOver' = IF t.state \in Ended THEN StreamOver \cup {e} ELSE StreamOver \ {e}
<1> DEFINE e == EndOf(h, s)
<1>1. e \in StreamEnds /\ SocketOf(e) = s
  BY DEF EndsKnown
<1>2. e \in StreamEnds' /\ SocketOf(e)' = t
  BY DEF EndsKnown, EndOf
<1>3. ASSUME NEW g \in Hosts, NEW i \in SocketsWithPeer(g)
      PROVE  EndOf(g, sockets'[g][i]) = EndOf(g, sockets[g][i])
  BY <1>3
<1>4. StreamEnds' = StreamEnds
  <2>1. \A g \in Hosts : {EndOf(g, sockets'[g][i]) : i \in SocketsWithPeer(g)'}
                           = {EndOf(g, sockets[g][i]) : i \in SocketsWithPeer(g)}
    BY <1>3
  <2> QED
    BY <2>1 DEF StreamEnds, EndOf
<1>5. ASSUME NEW d \in StreamEnds, d # e
      PROVE  SocketOf(d)' = SocketOf(d)
  <2> PICK g \in Hosts : \E i \in SocketsWithPeer(g) : d = EndOf(g, sockets[g][i])
    BY EndsHaveSockets
  <2>1. PICK i \in SocketsWithPeer(g) : d = EndOf(g, sockets[g][i])
    OBVIOUS
  <2>2. sockets'[g][i] = sockets[g][i]
    BY <1>5, <2>1
  <2>3. SocketOf(d) = sockets[g][i]
    BY <2>1 DEF EndsKnown
  <2>4. SocketOf(d)' = sockets'[g][i]
    BY <2>1, <2>2 DEF EndsKnown, EndOf
  <2> QED
    BY <2>2, <2>3, <2>4
<1>6. /\ StreamWritten[e] = s.sent /\ StreamRead[e] = s.got
      /\ e \in StreamOver <=> s.state \in Ended
  BY <1>1, StreamsAre
<1>7. StreamWritten' = [StreamWritten EXCEPT ![e] = t.sent]
  BY <1>2, <1>4, <1>5 DEF StreamWritten
<1>8. StreamRead' = [StreamRead EXCEPT ![e] = t.got]
  BY <1>2, <1>4, <1>5 DEF StreamRead
<1>9. StreamOver' = IF t.state \in Ended THEN StreamOver \cup {e} ELSE StreamOver \ {e}
  BY <1>1, <1>2, <1>4, <1>5 DEF StreamOver, Ended
<1> QED
  BY <1>1, <1>6, <1>7, <1>8, <1>9

\* It gives a socket a peer.
LEMMA StreamsBegin ==
  ASSUME TcpInv, TcpInv', EndsKnown, EndsKnown', NEW h \in Hosts, NEW k, k \notin SocketsWithPeer(h),
         NEW t, t = sockets'[h][k], t.sent = <<>>, t.got = <<>>, t.state \notin Ended,
         \A g \in Hosts : SocketsWithPeer(g)' = IF g = h THEN SocketsWithPeer(g) \cup {k} ELSE SocketsWithPeer(g),
         \A g \in Hosts : \A i \in SocketsWithPeer(g) : sockets'[g][i] = sockets[g][i]
  PROVE  B!StreamsNext
<1> DEFINE e == EndOf(h, t)
<1>1. k \in SocketsWithPeer(h)'
  OBVIOUS
<1>2. e \in B!End /\ e \in StreamEnds' /\ SocketOf(e)' = t
  BY <1>1 DEF EndsKnown, EndOf, B!End
<1>3. e \notin StreamEnds
  <2> SUFFICES ASSUME e \in StreamEnds
               PROVE  FALSE
    OBVIOUS
  <2> PICK g \in Hosts : \E i \in SocketsWithPeer(g) : e = EndOf(g, sockets[g][i])
    BY EndsHaveSockets
  <2>1. PICK i \in SocketsWithPeer(g) : e = EndOf(g, sockets[g][i])
    OBVIOUS
  <2>2. g = h /\ i # k /\ sockets'[h][i] = sockets[h][i]
    BY <2>1 DEF EndOf
  <2>3. i \in SocketsWithPeer(h)'
    BY <2>1, <2>2
  <2>4. /\ k \in DOMAIN sockets'[h] /\ i \in DOMAIN sockets'[h]
        /\ t.rhost # NoHost
    BY <1>1, <2>3 DEF SocketsWithPeer
  <2>5. t.lport = sockets[h][i].lport /\ t.rhost = sockets[h][i].rhost /\ t.rport = sockets[h][i].rport
    BY <2>1, <2>2 DEF EndOf
  <2> QED
    BY <2>2, <2>4, <2>5 DEF TcpInv, UniqueConnection
<1>4. StreamEnds' = StreamEnds \cup {e}
  <2>1. \A g \in Hosts : \A i \in SocketsWithPeer(g) :
          EndOf(g, sockets'[g][i]) = EndOf(g, sockets[g][i])
    OBVIOUS
  <2>2. \A g \in Hosts : {EndOf(g, sockets'[g][i]) : i \in SocketsWithPeer(g)'}
                           = {EndOf(g, sockets[g][i]) : i \in SocketsWithPeer(g)}
                               \cup IF g = h THEN {e} ELSE {}
    BY <2>1
  <2> QED
    BY <2>2 DEF StreamEnds, EndOf
<1>5. ASSUME NEW d \in StreamEnds
      PROVE  SocketOf(d)' = SocketOf(d)
  <2> PICK g \in Hosts : \E i \in SocketsWithPeer(g) : d = EndOf(g, sockets[g][i])
    BY EndsHaveSockets
  <2>1. PICK i \in SocketsWithPeer(g) : d = EndOf(g, sockets[g][i])
    OBVIOUS
  <2>2. sockets'[g][i] = sockets[g][i] /\ i \in SocketsWithPeer(g)'
    BY <2>1
  <2>3. SocketOf(d) = sockets[g][i]
    BY <2>1 DEF EndsKnown
  <2>4. SocketOf(d)' = sockets'[g][i]
    BY <2>1, <2>2 DEF EndsKnown, EndOf
  <2> QED
    BY <2>2, <2>3, <2>4
<1>6. StreamWritten' = B!WithEnd(StreamWritten, e)
  BY <1>2, <1>3, <1>4, <1>5, StreamsAre DEF StreamWritten, B!WithEnd
<1>7. StreamRead' = B!WithEnd(StreamRead, e)
  BY <1>2, <1>3, <1>4, <1>5, StreamsAre DEF StreamRead, B!WithEnd
<1>8. StreamOver' = StreamOver
  BY <1>2, <1>3, <1>4, <1>5 DEF StreamOver, Ended
<1>9. B!OpenEnd(e)
  BY <1>2, <1>3, <1>6, <1>7, <1>8, StreamsAre DEF B!OpenEnd
<1>10. e \in DOMAIN StreamWritten'
  BY <1>2 DEF StreamWritten
<1> QED
  BY <1>9, <1>10 DEF B!StreamsNext

-----------------------------------------------------------------------------
(***************************************************************************)
(* What a step of TCP is to the streams.                                   *)
(***************************************************************************)
\* A task sends payloads.
Drafts == \A h \in Hosts : sending[h] # NoSend => sending[h].seg.data \in Payloads

StreamsInv == StreamInv /\ InOrder /\ Drafts /\ EndsKnown

LEMMA SocketsRest ==
  ASSUME StreamsInv, StreamsInv', sockets' = sockets
  PROVE  UNCHANGED B!streamVars
<1>1. UNCHANGED <<StreamWritten, StreamRead, StreamOver>>
  BY StreamsUnchanged DEF StreamsInv, SocketsWithPeer
<1> QED
  BY <1>1 DEF B!streamVars

LEMMA SocketOpens ==
  ASSUME StreamsInv, StreamsInv', NEW h \in Hosts, NEW t, NEW segs, Opens(h, t, segs)
  PROVE  [B!StreamsNext]_B!streamVars
<1> DEFINE k == Len(sockets[h]) + 1
<1>1. TcpInv /\ TcpInv'
  BY DEF StreamsInv, StreamInv
<1>2. /\ \A g \in Hosts : g # h => sockets'[g] = sockets[g]
      /\ DOMAIN sockets'[h] = DOMAIN sockets[h] \cup {k}
      /\ \A i \in DOMAIN sockets[h] : sockets'[h][i] = sockets[h][i]
      /\ sockets'[h][k] = t
  BY <1>1, OpensSockets
<1>3. k \notin DOMAIN sockets[h]
  BY <1>1 DEF TcpInv, Types
<1> HIDE DEF k
<1>4. /\ \A g \in Hosts : \A i \in SocketsWithPeer(g) : sockets'[g][i] = sockets[g][i]
      /\ k \notin SocketsWithPeer(h)
  BY <1>2, <1>3 DEF SocketsWithPeer
<1>5. CASE t.rhost = NoHost
  <2>1. \A g \in Hosts : SocketsWithPeer(g)' = SocketsWithPeer(g)
    BY <1>2, <1>5 DEF SocketsWithPeer
  <2>2. UNCHANGED <<StreamWritten, StreamRead, StreamOver>>
    BY <1>4, <2>1, StreamsUnchanged DEF StreamsInv
  <2> QED
    BY <2>2 DEF B!streamVars
<1>6. CASE t.rhost # NoHost
  <2>1. \A g \in Hosts :
          SocketsWithPeer(g)' = IF g = h THEN SocketsWithPeer(g) \cup {k} ELSE SocketsWithPeer(g)
    BY <1>2, <1>6 DEF SocketsWithPeer
  <2>2. t.sent = <<>> /\ t.got = <<>> /\ t.state \notin Ended
    BY <1>6 DEF Opens, Ended
  <2>3. B!StreamsNext
    BY <1>1, <1>2, <1>4, <2>1, <2>2, StreamsBegin DEF StreamsInv
  <2> QED
    BY <2>3
<1> QED
  BY <1>5, <1>6

LEMMA OneMore ==
  ASSUME NEW S, NEW q \in Seq(S), NEW e \in S
  PROVE  Len(Append(q, e)) = Len(q) + 1 /\ Append(q, e) # <<>> /\ Append(q, e)[Len(q) + 1] = e
OBVIOUS

\* The payload that the socket s is given is the next that its peer has written.
LEMMA GetsNext ==
  ASSUME StreamsInv, StreamsInv', NEW h \in Hosts, NEW k \in DOMAIN sockets[h], NEW t, NEW segs,
         Evolves(h, k, t, segs), NEW s, s = sockets[h][k], s.rhost # NoHost,
         t.lport = s.lport, t.rhost = s.rhost, t.rport = s.rport,
         NEW d \in Data, t.got = Append(s.got, d)
  PROVE  LET o == B!Opposite(EndOf(h, s))
         IN  /\ o \in DOMAIN StreamWritten
             /\ Len(s.got) < Len(StreamWritten[o])
             /\ d = StreamWritten[o][Len(s.got) + 1]
<1> DEFINE r == s.rhost
           o == B!Opposite(EndOf(h, s))
<1>1. TcpInv /\ TcpInv' /\ t \in SocketSet
  BY DEF StreamsInv, StreamInv, Evolves
<1>2. s \in SocketSet /\ r \in Hosts /\ r # h
  BY <1>1, SocketTyped DEF TcpInv, Peers
<1>3. /\ sockets'[h][k] = t /\ sockets'[r] = sockets[r] /\ k \in DOMAIN sockets'[h]
  BY <1>1, <1>2 DEF Evolves, TcpInv, Types
<1>4. s.got \in Seq(Data) /\ Len(t.got) = Len(s.got) + 1 /\ t.got # <<>> /\ t.got[Len(s.got) + 1] = d
  <2>1. s.got \in Seq(Data)
    BY <1>2 DEF SocketSet
  <2> DEFINE q == s.got
  <2> HIDE DEF q, r, o
  <2>2. q \in Seq(Data)
    BY <2>1 DEF q
  <2>3. Len(Append(q, d)) = Len(q) + 1 /\ Append(q, d) # <<>> /\ Append(q, d)[Len(q) + 1] = d
    BY <2>2, OneMore
  <2> QED
    BY <2>1, <2>3 DEF q
<1>5. PICK j \in DOMAIN sockets[r] : FromTo(sockets[r][j], h, s.rport, s.lport)
  BY <1>3, <1>4 DEF StreamsInv, StreamInv, Origins
<1> DEFINE u == sockets[r][j]
<1>6. u.rhost = h /\ u.lport = s.rport /\ u.rport = s.lport /\ h # NoHost
  BY <1>5, NoHostAssumption DEF FromTo, NoHostAssumption
<1>7. Ends(h, k, j)'
  BY <1>2, <1>3, <1>6 DEF Ends
<1>8. Len(t.got) <= Len(u.sent) /\ \A n \in DOMAIN t.got : t.got[n] = u.sent[n]
  <2> DEFINE w == sockets'[h][k]
  <2>1. k \in DOMAIN sockets'[h] /\ w.rhost = r /\ r # NoHost /\ j \in DOMAIN sockets'[w.rhost]
    BY <1>3, <1>5
  <2>2. w.rhost # NoHost =>
          \A i \in DOMAIN sockets'[w.rhost] : Ends(h, k, i)' =>
            /\ Len(w.got) <= Len(sockets'[w.rhost][i].sent)
            /\ \A n \in DOMAIN w.got : w.got[n] = sockets'[w.rhost][i].sent[n]
    BY <2>1, Zenon DEF StreamsInv, InOrder
  <2>3. /\ Len(w.got) <= Len(sockets'[w.rhost][j].sent)
        /\ \A n \in DOMAIN w.got : w.got[n] = sockets'[w.rhost][j].sent[n]
    BY <1>7, <2>1, <2>2, Zenon
  <2>4. w = t /\ sockets'[w.rhost][j] = u
    BY <1>3
  <2> QED
    BY <2>3, <2>4, Zenon
<1>9. o = EndOf(r, u)
  BY <1>6 DEF EndOf, B!Opposite
<1>10. j \in SocketsWithPeer(r)
  BY <1>6 DEF SocketsWithPeer
<1>11. o \in StreamEnds /\ SocketOf(o) = u
  BY <1>2, <1>9, <1>10 DEF StreamsInv, EndsKnown
<1>12. u.sent \in Seq(Data)
  BY <1>1, <1>2, SocketTyped DEF TcpInv, SocketSet
<1>13. Len(s.got) < Len(u.sent) /\ d = u.sent[Len(s.got) + 1]
  <2>1. Len(s.got) + 1 \in DOMAIN t.got
    BY <1>4, <1>1 DEF SocketSet
  <2> QED
    BY <1>4, <1>8, <1>12, <2>1, SMTT(30)
<1> QED
  BY <1>11, <1>13, StreamsAre

\* A socket that has a peer and keeps its addresses: t is what it becomes.
LEMMA SocketContinues ==
  ASSUME StreamsInv, StreamsInv', NEW h \in Hosts, NEW k \in DOMAIN sockets[h], NEW t, NEW segs,
         Evolves(h, k, t, segs), NEW s, s = sockets[h][k], s.rhost # NoHost, Kept(s, t)
  PROVE  [B!StreamsNext]_B!streamVars
<1> DEFINE e == EndOf(h, s)
<1>1. TcpInv /\ TcpInv' /\ EndsKnown /\ EndsKnown' /\ t \in SocketSet
  BY DEF StreamsInv, StreamInv, Evolves
<1>2. s \in SocketSet
  BY <1>1, SocketTyped DEF TcpInv
<1>3. /\ sockets'[h][k] = t
      /\ \A g \in Hosts : DOMAIN sockets'[g] = DOMAIN sockets[g]
      /\ \A g \in Hosts : \A i \in DOMAIN sockets[g] : g # h \/ i # k => sockets'[g][i] = sockets[g][i]
  BY <1>1, EvolvesSockets
<1>4. t.lport = s.lport /\ t.rhost = s.rhost /\ t.rport = s.rport
  BY DEF Kept
<1>5. k \in SocketsWithPeer(h) /\ EndOf(h, t) = e
  BY <1>4 DEF SocketsWithPeer, EndOf
<1>6. /\ \A g \in Hosts : SocketsWithPeer(g)' = SocketsWithPeer(g)
      /\ \A g \in Hosts : \A i \in SocketsWithPeer(g) :
           g # h \/ i # k => sockets'[g][i] = sockets[g][i]
  <2>1. \A g \in Hosts : \A i \in DOMAIN sockets[g] : sockets'[g][i].rhost = sockets[g][i].rhost
    BY <1>3, <1>4
  <2> QED
    BY <1>3, <2>1 DEF SocketsWithPeer
<1>7. /\ e \in StreamEnds /\ StreamWritten[e] = s.sent /\ StreamRead[e] = s.got
      /\ e \in StreamOver <=> s.state \in Ended
      /\ StreamWritten' = [StreamWritten EXCEPT ![e] = t.sent]
      /\ StreamRead' = [StreamRead EXCEPT ![e] = t.got]
      /\ StreamOver' = IF t.state \in Ended THEN StreamOver \cup {e} ELSE StreamOver \ {e}
  BY <1>1, <1>3, <1>5, <1>6, StreamsChange
<1>8. /\ t.sent = s.sent => StreamWritten' = StreamWritten
      /\ t.got = s.got => StreamRead' = StreamRead
      /\ (t.state \in Ended <=> s.state \in Ended) => StreamOver' = StreamOver
  <2>1. t.sent = s.sent => [StreamWritten EXCEPT ![e] = t.sent] = StreamWritten
    BY <1>7 DEF StreamWritten
  <2>2. t.got = s.got => [StreamRead EXCEPT ![e] = t.got] = StreamRead
    BY <1>7 DEF StreamRead
  <2>3. (t.state \in Ended <=> s.state \in Ended) => StreamOver' = StreamOver
    BY <1>7
  <2> QED
    BY <1>7, <2>1, <2>2, <2>3
<1>9. ASSUME NEW d \in Payloads, t.sent = Append(s.sent, d)
      PROVE  B!Writes(e)
  BY <1>7, <1>9 DEF B!Writes
<1>10. ASSUME B!Exchange(e)
       PROVE  B!StreamsNext
  BY <1>7, <1>10, StreamsAre DEF B!StreamsNext
<1>11. CASE Quiet(h, s, t, segs)
  <2>1. s.state \in Ended => t.state \in Ended
    <3> SUFFICES ASSUME s.state \in Ended, t.state \notin Ended
                 PROVE  FALSE
      OBVIOUS
    <3>1. Past(t)
      BY DEF Kept, Past, Ended
    <3>2. t.state \in Receiving
      BY <1>1, <3>1 DEF Past, Ended, Receiving, Half, SocketSet, SocketState
    <3> QED
      BY <1>11, <3>2 DEF Quiet, Ended, Receiving, Half
  <2>2. t.sent = s.sent /\ t.got = s.got
    BY <1>11 DEF Quiet
  <2>3. CASE t.state \in Ended /\ s.state \notin Ended
    <3>1. B!Finish(e)
      BY <1>7, <1>8, <2>2, <2>3 DEF B!Finish
    <3> QED
      BY <1>7, <3>1, StreamsAre DEF B!StreamsNext
  <2>4. CASE t.state \in Ended <=> s.state \in Ended
    BY <1>8, <2>2, <2>4 DEF B!streamVars
  <2> QED
    BY <2>1, <2>3, <2>4
<1>12. CASE Sends(h, k, s, t, segs)
  <2>1. t.sent = Append(s.sent, sending[h].seg.data) /\ t.got = s.got /\ t.state = s.state
    BY <1>2, <1>12 DEF Sends, Sent, SocketSet
  <2>2. sending[h].seg.data \in Payloads
    BY <1>12 DEF Sends, StreamsInv, Drafts
  <2> QED
    BY <1>8, <1>9, <1>10, <2>1, <2>2, SMTT(30) DEF B!Exchange
<1>13. CASE Gets(h, s, t, segs)
  <2>1. s.state \notin Ended /\ t.state \notin Ended
    BY <1>13 DEF Gets, Ended
  <2>2. PICK m \in Arriving(net[h]) : \E d \in Handed(m.data) : t.got = Append(s.got, d)
    BY <1>13 DEF Gets
  <2>3. PICK d \in Handed(m.data) : t.got = Append(s.got, d)
    BY <2>2
  <2>4. d \in Data
    <3>1. net[h] \in Queues
      BY <1>1 DEF TcpInv, Types, Queues
    <3>2. m.data \in Data
      BY <3>1, InTransitTyped DEF SegmentSet
    <3> QED
      BY <3>2, HandedTyped
  <2>5. B!Reads(e)
    <3>1. /\ B!Opposite(e) \in DOMAIN StreamWritten
          /\ Len(s.got) < Len(StreamWritten[B!Opposite(e)])
          /\ d = StreamWritten[B!Opposite(e)][Len(s.got) + 1]
      BY <1>4, <2>3, <2>4, GetsNext
    <3> QED
      BY <1>7, <2>1, <2>3, <3>1 DEF B!Reads
  <2>6. t.sent = s.sent \/ \E p \in Payloads : t.sent = Append(s.sent, p)
    BY <1>13 DEF Gets
  <2> QED
    BY <1>8, <1>9, <1>10, <2>1, <2>5, <2>6 DEF B!Exchange
<1> QED
  BY <1>11, <1>12, <1>13 DEF Evolves

LEMMA SocketEvolves ==
  ASSUME StreamsInv, StreamsInv', NEW h \in Hosts, NEW k \in DOMAIN sockets[h], NEW t, NEW segs,
         Evolves(h, k, t, segs)
  PROVE  [B!StreamsNext]_B!streamVars
<1> DEFINE s == sockets[h][k]
<1>1. TcpInv /\ TcpInv' /\ EndsKnown /\ EndsKnown' /\ t \in SocketSet
  BY DEF StreamsInv, StreamInv, Evolves
<1>2. s \in SocketSet /\ (s.rhost = NoHost <=> s.state = "LISTEN")
  BY <1>1, SocketTyped DEF TcpInv, Peers
<1>3. /\ sockets'[h][k] = t
      /\ \A g \in Hosts : DOMAIN sockets'[g] = DOMAIN sockets[g]
      /\ \A g \in Hosts : \A i \in DOMAIN sockets[g] : g # h \/ i # k => sockets'[g][i] = sockets[g][i]
  BY <1>1, EvolvesSockets
<1>4. CASE s.rhost # NoHost
  <2>1. Kept(s, t)
    BY <1>2, <1>4 DEF Evolves, Accepted
  <2> QED
    BY <1>4, <2>1, SocketContinues
<1>5. CASE s.rhost = NoHost /\ t.rhost = NoHost
  <2>1. \A g \in Hosts : SocketsWithPeer(g)' = SocketsWithPeer(g)
    <3>1. \A g \in Hosts : \A i \in DOMAIN sockets[g] : sockets'[g][i].rhost = sockets[g][i].rhost
      BY <1>3, <1>5
    <3> QED
      BY <1>3, <3>1 DEF SocketsWithPeer
  <2>2. \A g \in Hosts : \A i \in SocketsWithPeer(g) : sockets'[g][i] = sockets[g][i]
    BY <1>3, <1>5 DEF SocketsWithPeer
  <2>3. UNCHANGED <<StreamWritten, StreamRead, StreamOver>>
    BY <1>1, <2>1, <2>2, StreamsUnchanged
  <2> QED
    BY <2>3 DEF B!streamVars
<1>6. CASE s.rhost = NoHost /\ t.rhost # NoHost
  <2>1. t.state = "SYN_RECEIVED"
    BY <1>6 DEF Evolves, Kept, Accepted
  <2>2. s.sent = <<>> /\ s.got = <<>>
    BY <1>2, <1>6 DEF StreamsInv, StreamInv, Origins
  <2>3. t.sent = s.sent /\ t.got = s.got
    <3>1. ~Gets(h, s, t, segs)
      BY <1>2, <1>6, SMTT(30) DEF Gets
    <3>2. ~Sends(h, k, s, t, segs)
      BY <1>1, <1>2, <1>6 DEF Sends, TcpInv, Connections, SendOK, Past
    <3> QED
      BY <3>1, <3>2, SMTT(30) DEF Evolves, Quiet
  <2>4. k \notin SocketsWithPeer(h)
    BY <1>6 DEF SocketsWithPeer
  <2>5. \A g \in Hosts :
          SocketsWithPeer(g)' = IF g = h THEN SocketsWithPeer(g) \cup {k} ELSE SocketsWithPeer(g)
    <3>1. \A g \in Hosts : \A i \in DOMAIN sockets[g] : g # h \/ i # k =>
            sockets'[g][i].rhost = sockets[g][i].rhost
      BY <1>3
    <3> QED
      BY <1>3, <1>6, <3>1 DEF SocketsWithPeer
  <2>6. \A g \in Hosts : \A i \in SocketsWithPeer(g) : sockets'[g][i] = sockets[g][i]
    BY <1>3, <2>4 DEF SocketsWithPeer
  <2>7. t.state \notin Ended
    BY <2>1 DEF Ended
  <2>8. B!StreamsNext
    BY <1>1, <1>3, <2>2, <2>3, <2>4, <2>5, <2>6, <2>7, StreamsBegin
  <2> QED
    BY <2>8
<1> QED
  BY <1>4, <1>5, <1>6

LEMMA StreamsStep ==
  ASSUME StreamsInv, StreamsInv', [TcpNext]_tcpVars
  PROVE  [B!StreamsNext]_B!streamVars
<1>1. TcpInv
  BY DEF StreamsInv, StreamInv
<1>2. CASE TcpNext
  <2>1. ASSUME NEW h \in Hosts, NEW k \in DOMAIN sockets[h], NEW data \in Payloads,
               SendBegin(h, k, data)
        PROVE  [B!StreamsNext]_B!streamVars
    BY <2>1, SocketsRest DEF SendBegin
  <2>2. ASSUME NEW h \in Hosts, NEW m \in Arriving(net[h]), Ignore(h, m)
        PROVE  [B!StreamsNext]_B!streamVars
    BY <2>2, SocketsRest DEF Ignore
  <2> QED
    BY <1>1, <1>2, <2>1, <2>2, StepForms, SocketOpens, SocketEvolves
<1>3. CASE UNCHANGED tcpVars
  BY <1>3, SocketsRest DEF tcpVars
<1> QED
  BY <1>2, <1>3

LEMMA DraftsStay ==
  ASSUME StreamInv, Drafts, [TcpNext]_tcpVars
  PROVE  Drafts'
<1>1. TcpInv
  BY DEF StreamInv
<1>2. ASSUME \A g \in Hosts : sending'[g] # NoSend => sending'[g] = sending[g]
      PROVE  Drafts'
  BY <1>2 DEF Drafts
<1>3. ASSUME NEW h \in Hosts, NEW t, NEW segs, Opens(h, t, segs)
      PROVE  Drafts'
  BY <1>2, <1>3 DEF Opens
<1>4. ASSUME NEW h \in Hosts, NEW k \in DOMAIN sockets[h], NEW t, NEW segs, Evolves(h, k, t, segs)
      PROVE  Drafts'
  <2>1. \A g \in Hosts : sending'[g] # NoSend => sending'[g] = sending[g]
    BY <1>1, <1>4 DEF Evolves, TcpInv, Types
  <2> QED
    BY <1>2, <2>1
<1>5. ASSUME NEW h \in Hosts, NEW k \in DOMAIN sockets[h], NEW data \in Payloads,
             SendBegin(h, k, data)
      PROVE  Drafts'
  <2>1. /\ sending'[h].seg.data = data
        /\ \A g \in Hosts : g # h => sending'[g] = sending[g]
    BY <1>1, <1>5 DEF SendBegin, Segment, TcpInv, Types
  <2> QED
    BY <2>1 DEF Drafts
<1>6. ASSUME NEW h \in Hosts, NEW m \in Arriving(net[h]), Ignore(h, m)
      PROVE  Drafts'
  BY <1>2, <1>6 DEF Ignore
<1>7. CASE UNCHANGED tcpVars
  BY <1>2, <1>7 DEF tcpVars
<1>8. CASE TcpNext
  BY <1>1, <1>3, <1>4, <1>5, <1>6, <1>8, StepForms
<1> QED
  BY <1>7, <1>8

(***************************************************************************)
(* TCP implements two byte streams for each connection, on a network that  *)
(* loses, repeats and reorders segments: what an end has written is only   *)
(* added to, each step gives an end at most the next payload that the      *)
(* other has written, and nothing after it was closed or reset.  The       *)
(* hypotheses are those of DeliveredInOrder.                               *)
(***************************************************************************)
THEOREM StreamsRefinement ==
  ASSUME PayloadsFit, TextInPayloads, OneWriter
  PROVE  TcpSpec => ImplementsStreams
<1>1. TcpInit => B!StreamsInit
  <2> SUFFICES ASSUME TcpInit
               PROVE  B!StreamsInit
    OBVIOUS
  <2>1. \A h \in Hosts : SocketsWithPeer(h) = {}
    BY DEF TcpInit, SocketsWithPeer
  <2>2. StreamEnds = {}
    BY <2>1 DEF StreamEnds
  <2> QED
    BY <2>2 DEF StreamWritten, StreamRead, StreamOver, B!StreamsInit
<1>2. TcpInit => Drafts
  BY DEF TcpInit, Drafts
<1>3. StreamInv /\ Drafts /\ [TcpNext]_tcpVars => Drafts'
  BY DraftsStay
<1>4. TcpSpec => []Drafts
  BY <1>2, <1>3, StreamInvariant, PTL DEF TcpSpec
<1>5. StreamInv => EndsKnown
  BY EndsFound DEF StreamInv
<1>6. TcpSpec => []StreamsInv
  BY <1>4, <1>5, StreamInvariant, DeliveredInOrder, PTL DEF StreamsInv
<1>7. StreamsInv /\ StreamsInv' /\ [TcpNext]_tcpVars => [B!StreamsNext]_B!streamVars
  BY StreamsStep
<1> QED
  BY <1>1, <1>6, <1>7, PTL DEF TcpSpec, ImplementsStreams, B!StreamsSpec

==============================================================================
