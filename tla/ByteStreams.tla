----------------------------- MODULE ByteStreams -----------------------------
(***************************************************************************)
(* What TCP promises to programs: two ends of a connection write payloads, *)
(* and each end is given what the other wrote, in order, each once, until  *)
(* nothing more comes.  Nothing is said of segments, numbers, handshakes   *)
(* or the network.  TransmissionControl is shown to implement this         *)
(* specification.                                                          *)
(***************************************************************************)
EXTENDS Naturals, Sequences

CONSTANTS
  Stations,     \* where the ends are
  Ports,        \* which end of a station
  Texts         \* what may be written

VARIABLES
  written,      \* by each end there is
  read,         \* by each end there is
  over          \* the ends that are given nothing more

streamVars == <<written, read, over>>

End == [host : Stations, port : Ports, peer : Stations, pport : Ports]

Opposite(e) == [host |-> e.peer, port |-> e.pport, peer |-> e.host, pport |-> e.port]

StreamsInit ==
  /\ written = [e \in {} |-> <<>>]
  /\ read = [e \in {} |-> <<>>]
  /\ over = {}

\* Nothing for an end that did not exist, what f has for the others.
WithEnd(f, e) == [d \in DOMAIN f \cup {e} |-> IF d = e THEN <<>> ELSE f[d]]

\* An end comes into being.  The opposite one may come later, or never.
OpenEnd(e) ==
  /\ e \in End
  /\ e \notin DOMAIN written
  /\ written' = WithEnd(written, e)
  /\ read' = WithEnd(read, e)
  /\ UNCHANGED over

Writes(e) ==
  \E text \in Texts : written' = [written EXCEPT ![e] = Append(@, text)]

\* The next of what the opposite end has written.
Reads(e) ==
  /\ e \notin over
  /\ Opposite(e) \in DOMAIN written
  /\ LET all == written[Opposite(e)]
     IN  /\ Len(read[e]) < Len(all)
         /\ read' = [read EXCEPT ![e] = Append(@, all[Len(@) + 1])]

\* An end writes, or reads, or answers what it reads.
Exchange(e) ==
  /\ UNCHANGED written \/ Writes(e)
  /\ UNCHANGED read \/ Reads(e)
  /\ UNCHANGED over

Finish(e) ==
  /\ e \notin over
  /\ over' = over \cup {e}
  /\ UNCHANGED <<written, read>>

StreamsNext ==
  \/ \E e \in DOMAIN written : Exchange(e) \/ Finish(e)
  \/ \E e \in DOMAIN written' : OpenEnd(e)

StreamsSpec == StreamsInit /\ [][StreamsNext]_streamVars
=============================================================================
