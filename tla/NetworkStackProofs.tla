-------------------------- MODULE NetworkStackProofs --------------------------
(***************************************************************************)
(* Three invariants of NetworkStack for rings of any size and any network: *)
(* driver and card stay in step in both rings, no two UDP sockets are      *)
(* associated with the same peer, and what is transmitted is addressed to  *)
(* the station that its IP address is reached through.                     *)
(***************************************************************************)
EXTENDS NetworkStack, SequenceTheorems, WellFoundedInduction, TLAPS

-----------------------------------------------------------------------------
(***************************************************************************)
(* Rings.  A ring holds the positions from i on, up to but excluding j.    *)
(***************************************************************************)
Slots == 0 .. RingSize - 1

LEMMA RingTyped == RingSize \in Nat \ {0}
  BY CardAssumption DEF CardAssumption

\* Remainders of what is at most one round further.
LEMMA Wraps ==
  ASSUME NEW n \in 0 .. 2 * RingSize - 1
  PROVE  n % RingSize = IF n < RingSize THEN n ELSE n - RingSize
<1> DEFINE R == RingSize
           q == n \div R
           r == n % R
<1>1. R \in Nat \ {0}
  BY RingTyped
<1>2. q \in Nat /\ r \in 0 .. R - 1 /\ n = R * q + r
  BY <1>1
<1> HIDE DEF R, q, r
<1>3. n \in 0 .. 2 * R - 1
  BY DEF R
<1>4. q < 2
  <2>1. SUFFICES ASSUME q >= 2 PROVE FALSE
    BY <1>2
  <2>2. R * q >= R * 2
    BY <1>1, <1>2, <2>1
  <2>3. QED
    BY <1>1, <1>2, <1>3, <2>2
<1>5. q = 0 \/ q = 1
  BY <1>2, <1>4
<1>6. CASE q = 0
  <2>1. R * q = 0
    BY <1>1, <1>6
  <2>2. n = r /\ n < R
    BY <1>1, <1>2, <1>3, <2>1
  <2>3. QED
    BY <2>2 DEF R, r
<1>7. CASE q = 1
  <2>1. R * q = R
    BY <1>1, <1>7
  <2>2. r = n - R /\ ~(n < R)
    BY <1>1, <1>2, <1>3, <2>1
  <2>3. QED
    BY <2>2 DEF R, r
<1>8. QED
  BY <1>5, <1>6, <1>7

\* The k-th position from i.
Nth(i, k) == (i + k) % RingSize

LEMMA NthTyped ==
  ASSUME NEW i \in Slots, NEW k \in 0 .. RingSize
  PROVE  /\ Nth(i, k) \in Slots
         /\ Nth(i, k) = IF i + k < RingSize THEN i + k ELSE i + k - RingSize
<1>1. RingSize \in Nat \ {0} /\ i \in 0 .. RingSize - 1
  BY RingTyped DEF Slots
<1>2. i + k \in 0 .. 2 * RingSize - 1
  BY <1>1
<1>3. QED
  BY <1>1, <1>2, Wraps DEF Nth, Slots

LEMMA AfterTyped ==
  ASSUME NEW i \in Slots
  PROVE  /\ After(i) \in Slots /\ After(i) = Nth(i, 1)
         /\ After(i) = IF i + 1 < RingSize THEN i + 1 ELSE 0
<1>1. RingSize \in Nat \ {0} /\ i \in 0 .. RingSize - 1
  BY RingTyped DEF Slots
<1>2. Nth(i, 1) \in Slots /\ Nth(i, 1) = IF i + 1 < RingSize THEN i + 1 ELSE i + 1 - RingSize
  BY <1>1, NthTyped
<1>3. QED
  BY <1>1, <1>2 DEF After, Nth

LEMMA BetweenNth ==
  ASSUME NEW i \in Slots, NEW j, NEW S
  PROVE  Between(i, j, S) <=>
           \E k \in 0 .. RingSize : Nth(i, k) = j /\ S = {Nth(i, n) : n \in 0 .. k - 1}
  BY DEF Between, Nth

LEMMA BetweenEmpty ==
  ASSUME NEW i \in Slots
  PROVE  Between(i, i, {})
<1>1. RingSize \in Nat \ {0} /\ i \in 0 .. RingSize - 1
  BY RingTyped DEF Slots
<1>2. 0 \in 0 .. RingSize /\ Nth(i, 0) = i
  BY <1>1, NthTyped
<1>3. {Nth(i, n) : n \in 0 .. 0 - 1} = {}
  OBVIOUS
<1>4. QED
  BY <1>2, <1>3, BetweenNth

\* One more position is used at the end.
LEMMA BetweenFill ==
  ASSUME NEW i \in Slots, NEW j \in Slots, NEW S, Between(i, j, S), j \notin S
  PROVE  Between(i, After(j), S \cup {j})
<1>1. PICK k \in 0 .. RingSize : Nth(i, k) = j /\ S = {Nth(i, n) : n \in 0 .. k - 1}
  BY BetweenNth
<1>2. RingSize \in Nat \ {0} /\ i \in 0 .. RingSize - 1
  BY RingTyped DEF Slots
<1>3. k # RingSize
  <2>1. SUFFICES ASSUME k = RingSize PROVE FALSE
    OBVIOUS
  <2>2. Nth(i, 0) = i /\ Nth(i, k) = i
    BY <1>2, <2>1, NthTyped
  <2>3. 0 \in 0 .. k - 1
    BY <1>2, <2>1
  <2>4. QED
    BY <1>1, <2>2, <2>3
<1>4. k + 1 \in 0 .. RingSize /\ k \in 0 .. RingSize
  BY <1>2, <1>3
<1>5. After(j) = Nth(i, k + 1)
  <2>1. j = IF i + k < RingSize THEN i + k ELSE i + k - RingSize
    BY <1>1, <1>4, NthTyped
  <2>2. Nth(i, k + 1) = IF i + (k + 1) < RingSize THEN i + (k + 1) ELSE i + (k + 1) - RingSize
    BY <1>4, NthTyped
  <2>3. After(j) = IF j + 1 < RingSize THEN j + 1 ELSE 0
    BY AfterTyped
  <2>4. QED
    BY <1>2, <1>4, <2>1, <2>2, <2>3
<1>6. S \cup {j} = {Nth(i, n) : n \in 0 .. (k + 1) - 1}
  <2>1. 0 .. (k + 1) - 1 = (0 .. k - 1) \cup {k}
    BY <1>4
  <2>2. QED
    BY <1>1, <2>1
<1>7. QED
  BY <1>4, <1>5, <1>6, BetweenNth

\* The first position is used no longer.
LEMMA BetweenTake ==
  ASSUME NEW i \in Slots, NEW j \in Slots, NEW S, Between(i, j, S), i \in S
  PROVE  Between(After(i), j, S \ {i})
<1>1. PICK k \in 0 .. RingSize : Nth(i, k) = j /\ S = {Nth(i, n) : n \in 0 .. k - 1}
  BY BetweenNth
<1>2. RingSize \in Nat \ {0} /\ i \in 0 .. RingSize - 1
  BY RingTyped DEF Slots
<1>3. k \in 1 .. RingSize
  <2>1. PICK n \in 0 .. k - 1 : i = Nth(i, n)
    BY <1>1
  <2>2. QED
    BY <1>2, <2>1
<1>4. k - 1 \in 0 .. RingSize /\ After(i) \in Slots
  BY <1>2, <1>3, AfterTyped
<1>5. \A n \in 0 .. k - 1 : Nth(After(i), n) = Nth(i, n + 1)
  <2>1. TAKE n \in 0 .. k - 1
  <2>2. n \in 0 .. RingSize /\ n + 1 \in 0 .. RingSize
    BY <1>2, <1>3
  <2>3. After(i) = IF i + 1 < RingSize THEN i + 1 ELSE 0
    BY AfterTyped
  <2>4. Nth(After(i), n) = IF After(i) + n < RingSize THEN After(i) + n ELSE After(i) + n - RingSize
    BY <1>4, <2>2, NthTyped
  <2>5. Nth(i, n + 1) = IF i + (n + 1) < RingSize THEN i + (n + 1) ELSE i + (n + 1) - RingSize
    BY <2>2, NthTyped
  <2>6. QED
    BY <1>2, <1>3, <2>2, <2>3, <2>4, <2>5
<1>6. Nth(After(i), k - 1) = j
  <2>1. k - 1 \in 0 .. k - 1 /\ (k - 1) + 1 = k
    BY <1>2, <1>3
  <2>2. QED
    BY <1>1, <1>5, <2>1
<1>7. S \ {i} = {Nth(After(i), n) : n \in 0 .. (k - 1) - 1}
  <2>1. Nth(i, 0) = i
    BY <1>2, NthTyped
  <2>2. \A n \in 1 .. k - 1 : Nth(i, n) # i
    <3>1. TAKE n \in 1 .. k - 1
    <3>2. n \in 0 .. RingSize
      BY <1>2, <1>3
    <3>3. Nth(i, n) = IF i + n < RingSize THEN i + n ELSE i + n - RingSize
      BY <3>2, NthTyped
    <3>4. QED
      BY <1>2, <1>3, <3>3
  <2>3. 0 .. k - 1 = {0} \cup (1 .. k - 1)
    BY <1>3
  <2>4. S \ {i} = {Nth(i, n) : n \in 1 .. k - 1}
    BY <1>1, <2>1, <2>2, <2>3
  <2>5. ASSUME NEW s PROVE s \in S \ {i} <=> s \in {Nth(After(i), n) : n \in 0 .. (k - 1) - 1}
    <3>1. ASSUME NEW n \in 1 .. k - 1, s = Nth(i, n)
          PROVE  s \in {Nth(After(i), m) : m \in 0 .. (k - 1) - 1}
      <4>1. n - 1 \in 0 .. (k - 1) - 1 /\ n - 1 \in 0 .. k - 1 /\ (n - 1) + 1 = n
        BY <1>3
      <4>2. Nth(After(i), n - 1) = Nth(i, n)
        BY <1>5, <4>1
      <4>3. QED
        BY <3>1, <4>1, <4>2
    <3>2. ASSUME NEW n \in 0 .. (k - 1) - 1, s = Nth(After(i), n)
          PROVE  s \in {Nth(i, m) : m \in 1 .. k - 1}
      <4>1. n + 1 \in 1 .. k - 1 /\ n \in 0 .. k - 1
        BY <1>3
      <4>2. QED
        BY <1>5, <3>2, <4>1
    <3>3. QED
      BY <2>4, <3>1, <3>2
  <2>6. QED
    BY <2>5
<1>8. QED
  BY <1>4, <1>6, <1>7, BetweenNth

-----------------------------------------------------------------------------
(***************************************************************************)
(* The receive ring.  Whoever is to be answered or given back is there.    *)
(***************************************************************************)
AtFrame == {"arp", "learn", "ip", "turn", "swap", "reply", "handled"}

RecvInv ==
  /\ recvDescr \in [Slots -> {"card", "frame", "bad"}]
  /\ currentRecvBuffer \in Slots /\ cardRecv \in Slots
  /\ Between(currentRecvBuffer, cardRecv, Filled)
  /\ mode \in AtFrame => recvDescr[currentRecvBuffer] # "card"

LEMMA ArriveKeepsRecv ==
  ASSUME RecvInv, NEW f, NEW status \in {"frame", "bad"}, Arrive(f, status)
  PROVE  RecvInv'
<1>1. UNCHANGED <<currentRecvBuffer, mode>>
  BY DEF Arrive
<1>2. CASE recvDescr[cardRecv] = "card"
  <2>1. recvDescr' = [recvDescr EXCEPT ![cardRecv] = status] /\ cardRecv' = After(cardRecv)
    BY <1>2 DEF Arrive
  <2>2. Filled' = Filled \cup {cardRecv} /\ cardRecv \notin Filled
    BY <1>2, <2>1 DEF RecvInv, Filled
  <2>3. Between(currentRecvBuffer, cardRecv', Filled')
    BY <2>1, <2>2, BetweenFill DEF RecvInv
  <2>4. QED
    BY <1>1, <1>2, <2>1, <2>3, AfterTyped DEF RecvInv
<1>3. CASE recvDescr[cardRecv] # "card"
  BY <1>1, <1>3 DEF Arrive, RecvInv, Filled
<1>4. QED
  BY <1>2, <1>3

LEMMA GiveBackKeepsRecv ==
  ASSUME RecvInv, GiveBack, mode \in AtFrame, mode' \notin AtFrame,
         UNCHANGED cardRecv
  PROVE  RecvInv'
<1>1. recvDescr' = [recvDescr EXCEPT ![currentRecvBuffer] = "card"]
      /\ currentRecvBuffer' = After(currentRecvBuffer)
  BY DEF GiveBack
<1>2. Filled' = Filled \ {currentRecvBuffer} /\ currentRecvBuffer \in Filled
  BY <1>1 DEF RecvInv, Filled
<1>3. Between(currentRecvBuffer', cardRecv', Filled')
  BY <1>1, <1>2, BetweenTake DEF RecvInv
<1>4. QED
  BY <1>1, <1>3, AfterTyped DEF RecvInv

LEMMA SameKeepsRecv ==
  ASSUME RecvInv, UNCHANGED <<recvDescr, currentRecvBuffer, cardRecv>>,
         mode' \in AtFrame => recvDescr[currentRecvBuffer] # "card"
  PROVE  RecvInv'
  BY DEF RecvInv, Filled

LEMMA RecvInitially == NetInit => RecvInv
<1> SUFFICES ASSUME NetInit PROVE RecvInv
  OBVIOUS
<1>1. 0 \in Slots
  BY RingTyped DEF Slots
<1>2. Filled = {} /\ currentRecvBuffer = 0 /\ cardRecv = 0 /\ mode = "user"
  BY DEF NetInit, CardInit, Filled
<1>3. recvDescr \in [Slots -> {"card", "frame", "bad"}]
  BY DEF NetInit, CardInit, Slots
<1>4. QED
  BY <1>1, <1>2, <1>3, BetweenEmpty DEF RecvInv, AtFrame

\* The layers look at the frame the driver is at.
LEMMA LayersKeepRecv ==
  ASSUME RecvInv, Layers
  PROVE  RecvInv'
<1>1. UNCHANGED <<recvDescr, currentRecvBuffer, cardRecv>>
  BY DEF Layers, PassUp, ArpReceived, Learn, IpReceived, Turn, Swap, Layer
<1>2. recvDescr[currentRecvBuffer] # "card"
  BY DEF Layers, PassUp, ArpReceived, Learn, IpReceived, Turn, Swap, RecvInv, AtFrame
<1>3. QED
  BY <1>1, <1>2, SameKeepsRecv

LEMMA RecvNext ==
  ASSUME RecvInv, NetNext
  PROVE  RecvInv'
<1>1. CASE Program
  BY <1>1, SameKeepsRecv
     DEF RecvInv, Program, RequestEchoReply, BroadcastMACAddress, Listen, Connect, Bind,
         SendDatagram, CallToSend, CallToOpen, Call, recvVars
<1>2. CASE Resolved
  BY <1>2, SameKeepsRecv DEF RecvInv, Resolved, recvVars
<1>3. CASE Network
  BY <1>3, ArriveKeepsRecv DEF Network
<1>4. CASE Activate \/ SetHandler \/ Transmit
  BY <1>4, SameKeepsRecv DEF RecvInv, Activate, SetHandler, Transmit, recvVars
<1>5. CASE TaskSend \/ Interrupt
  BY <1>5, SameKeepsRecv
     DEF RecvInv, AtFrame, TaskSend, SendCount, SendAdvance, SendCopy, SendHand, Interrupt, recvVars
<1>6. CASE SendBack \/ NextFrame
  BY <1>6, GiveBackKeepsRecv DEF SendBack, NextFrame, AtFrame
<1>7. CASE Drained \/ Acknowledge
  BY <1>7, SameKeepsRecv DEF Drained, Acknowledge, recvVars, AtFrame
<1>8. CASE Layers
  BY <1>8, LayersKeepRecv
<1>9. QED
  BY <1>1, <1>2, <1>3, <1>4, <1>5, <1>6, <1>7, <1>8 DEF NetNext, Driver, InHandler

-----------------------------------------------------------------------------
(***************************************************************************)
(* The send ring.  A descriptor a task has taken counts as used before it  *)
(* is handed over, and until then the card does not own it.                *)
(***************************************************************************)
Reading == task.stage \in {"read", "counted"}
Holding == task.stage \in {"taken", "copied"}

SendInv ==
  /\ sendDescr \in [Slots -> {"host", "card"}]
  /\ currentSendBuffer \in Slots /\ cardSend \in Slots /\ overrun \in BOOLEAN
  /\ Reading \/ Holding => task.descr \in Slots
  /\ task.stage = "counted" => task.after \in Slots
  /\ ~overrun =>
       /\ Between(cardSend, currentSendBuffer, Used)
       /\ Reading => task.descr = currentSendBuffer
       /\ task.stage = "counted" => task.after = After(currentSendBuffer)
       /\ Holding => sendDescr[task.descr] # "card"

\* task is a record of five fields.
TaskShape ==
  \E s, d, a, f, n :
    task = [stage |-> s, descr |-> d, after |-> a, frame |-> f, next |-> n]

\* The handler's Send takes a descriptor that is free, or overruns.
LEMMA SendKeepsRing ==
  ASSUME SendInv, NEW f, NEW k, Send(f, k), UNCHANGED <<task, cardSend>>
  PROVE  SendInv'
<1> DEFINE j == currentSendBuffer
<1>1. /\ sendDescr' = [sendDescr EXCEPT ![j] = "card"] /\ currentSendBuffer' = After(j)
      /\ overrun' = (overrun \/ sendDescr[j] = "card" \/ Claimed(j))
  BY DEF Send
<1>2. /\ sendDescr' \in [Slots -> {"host", "card"}] /\ currentSendBuffer' \in Slots
      /\ overrun' \in BOOLEAN /\ j \in Slots /\ DOMAIN sendDescr = Slots /\ DOMAIN sendDescr' = Slots
  BY <1>1, AfterTyped DEF SendInv, Claimed
<1>3. ASSUME ~overrun'
      PROVE  /\ Between(cardSend', currentSendBuffer', Used')
             /\ ~Reading
             /\ Holding => sendDescr'[task.descr] # "card"
  <2>1. ~overrun /\ j \notin Used /\ sendDescr[j] # "card" /\ ~Claimed(j)
    BY <1>1, <1>3 DEF Used, Taken, Claimed, SendStages
  <2>2. Used' = Used \cup {j}
    BY <1>1, <1>2 DEF Used, Taken
  <2>3. Between(cardSend, After(j), Used \cup {j})
    BY <1>2, <2>1, BetweenFill DEF SendInv
  <2>4. Holding => sendDescr'[task.descr] # "card"
    BY <1>1, <1>2, <2>1 DEF SendInv, Holding, Claimed, SendStages
  <2>5. ~Reading
    BY <2>1 DEF SendInv, Reading, Claimed, SendStages
  <2>6. QED
    BY <1>1, <2>2, <2>3, <2>4, <2>5
<1>4. UNCHANGED <<Reading, Holding>>
  BY DEF Reading, Holding
<1>5. QED
  BY <1>2, <1>3, <1>4 DEF SendInv, Reading

LEMMA TransmitKeepsRing ==
  ASSUME SendInv, Transmit
  PROVE  SendInv'
<1> DEFINE i == cardSend
<1>1. /\ sendDescr[i] = "card" /\ sendDescr' = [sendDescr EXCEPT ![i] = "host"]
      /\ cardSend' = After(i) /\ UNCHANGED <<currentSendBuffer, overrun, task, mode>>
  BY DEF Transmit
<1>2. /\ sendDescr' \in [Slots -> {"host", "card"}] /\ cardSend' \in Slots /\ i \in Slots
      /\ DOMAIN sendDescr = Slots /\ DOMAIN sendDescr' = Slots
  BY <1>1, AfterTyped DEF SendInv
<1>3. ASSUME ~overrun
      PROVE  /\ Between(cardSend', currentSendBuffer', Used')
             /\ Holding => sendDescr'[task.descr] # "card"
  <2>1. i \in Used
    BY <1>1, <1>2 DEF Used
  <2>2. ~(Holding /\ task.descr = i)
    BY <1>1, <1>3 DEF SendInv
  <2>3. Used' = Used \ {i}
    BY <1>1, <1>2, <2>2 DEF Used, Taken, Holding
  <2>4. Between(After(i), currentSendBuffer, Used \ {i})
    BY <1>2, <1>3, <2>1, BetweenTake DEF SendInv
  <2>5. QED
    BY <1>1, <1>2, <1>3, <2>3, <2>4 DEF SendInv
<1>4. UNCHANGED <<Reading, Holding>>
  BY <1>1 DEF Reading, Holding
<1>5. QED
  BY <1>1, <1>2, <1>3, <1>4 DEF SendInv

LEMMA AdvanceKeepsRing ==
  ASSUME SendInv, TaskShape, SendAdvance, UNCHANGED cardSend
  PROVE  SendInv'
<1> DEFINE j == task.descr
<1>1. task.stage = "counted" /\ Reading /\ ~Holding /\ j \in Slots /\ task.after \in Slots
  BY DEF SendAdvance, SendInv, Reading, Holding
<1>2. task' = [task EXCEPT !.stage = "taken"]
  BY DEF SendAdvance
<1>3. task'.stage = "taken" /\ task'.descr = j /\ Holding' /\ ~Reading'
  BY <1>1, <1>2 DEF TaskShape, Holding, Reading
<1>4. /\ currentSendBuffer' = task.after /\ overrun' = (overrun \/ sendDescr[j] = "card")
      /\ sendDescr' = sendDescr
  BY DEF SendAdvance
<1>5. currentSendBuffer' \in Slots /\ overrun' \in BOOLEAN /\ DOMAIN sendDescr = Slots
  BY <1>1, <1>4 DEF SendInv
<1>6. ASSUME ~overrun'
      PROVE  Between(cardSend, currentSendBuffer', Used') /\ sendDescr[j] # "card"
  <2>1. ~overrun /\ sendDescr[j] # "card" /\ j = currentSendBuffer /\ task.after = After(j)
    BY <1>1, <1>4, <1>6 DEF SendInv
  <2>2. j \notin Used
    BY <1>1, <2>1 DEF Used, Taken
  <2>3. Used' = Used \cup {j}
    BY <1>1, <1>3, <1>4, <1>5 DEF Used, Taken
  <2>4. QED
    BY <1>1, <1>4, <2>1, <2>2, <2>3, BetweenFill DEF SendInv
<1>7. QED
  BY <1>1, <1>3, <1>4, <1>5, <1>6 DEF SendInv

LEMMA HandKeepsRing ==
  ASSUME SendInv, SendHand, UNCHANGED cardSend
  PROVE  SendInv'
<1> DEFINE d == task.descr
<1>1. Holding /\ d \in Slots
  BY DEF SendHand, SendInv, Holding
<1>2. /\ sendDescr' = [sendDescr EXCEPT ![d] = "card"]
      /\ UNCHANGED <<currentSendBuffer, overrun>>
  BY DEF SendHand
<1>3. task'.stage \in {"idle", "poll"}
  BY DEF SendHand, Polling, Idle
<1>4. ~Holding' /\ ~Reading' /\ task'.stage # "counted"
  BY <1>3 DEF Holding, Reading
<1>5. Used' = Used
  BY <1>1, <1>2, <1>3 DEF SendInv, Used, Taken, Holding
<1>6. QED
  BY <1>1, <1>2, <1>4, <1>5 DEF SendInv

\* The task reads the position, or the ring is left alone.
LEMMA SameKeepsRing ==
  ASSUME SendInv, UNCHANGED <<sendDescr, currentSendBuffer, overrun, cardSend>>,
         Holding' = Holding, Holding => task'.descr = task.descr,
         Reading' => task'.descr = currentSendBuffer \/ (Reading /\ task'.descr = task.descr),
         task'.stage = "counted" =>
           \/ task'.after = After(currentSendBuffer)
           \/ task.stage = "counted" /\ task'.after = task.after
  PROVE  SendInv'
<1>1. Used' = Used
  BY DEF Used, Taken, Holding
<1>2. Reading' \/ Holding' => task'.descr \in Slots
  BY DEF SendInv
<1>3. task'.stage = "counted" => task'.after \in Slots
  BY AfterTyped DEF SendInv
<1>4. QED
  BY <1>1, <1>2, <1>3 DEF SendInv

LEMMA SendInitially == NetInit => SendInv /\ TaskShape
<1> SUFFICES ASSUME NetInit PROVE SendInv /\ TaskShape
  OBVIOUS
<1>1. 0 \in Slots
  BY RingTyped DEF Slots
<1>2. task.stage = "idle" /\ TaskShape
  BY DEF NetInit, CardInit, Idle, TaskShape
<1>3. sendDescr = [i \in Slots |-> "host"] /\ currentSendBuffer = 0 /\ cardSend = 0 /\ overrun = FALSE
  BY DEF NetInit, CardInit, Slots
<1>4. Used = {}
  BY <1>2, <1>3 DEF Used, Taken
<1>5. QED
  BY <1>1, <1>2, <1>3, <1>4, BetweenEmpty DEF SendInv, Reading, Holding

LEMMA TaskShapeNext ==
  ASSUME TaskShape, NetNext
  PROVE  TaskShape'
<1>1. PICK s, d, a, f, n :
        task = [stage |-> s, descr |-> d, after |-> a, frame |-> f, next |-> n]
  BY DEF TaskShape
<1>2. ASSUME NEW v
      PROVE  [task EXCEPT !.stage = v]
               = [stage |-> v, descr |-> d, after |-> a, frame |-> f, next |-> n]
  BY <1>1
<1>3. ASSUME NEW v, NEW w, task' = [task EXCEPT !.stage = v, !.after = w]
      PROVE  task' = [stage |-> v, descr |-> d, after |-> w, frame |-> f, next |-> n]
  BY <1>1, <1>3
<1>4. \/ task' = task
      \/ \E g, h : task' = Sending(g, h)
      \/ \E v : task' = [task EXCEPT !.stage = v]
      \/ \E v, w : task' = [task EXCEPT !.stage = v, !.after = w]
      \/ task' = Idle \/ \E h : task' = Polling(h)
  <2>1. CASE Program
    BY <2>1 DEF Program, RequestEchoReply, BroadcastMACAddress, Listen, Connect, Bind,
                SendDatagram, CallToOpen, StartSend
  <2>2. CASE Resolved \/ Network
    BY <2>2 DEF Resolved, Network, Arrive
  <2>3. CASE Layers
    BY <2>3 DEF Layers, PassUp, ArpReceived, Learn, IpReceived, Turn, Swap, Layer
  <2>4. CASE Driver
    BY <2>4 DEF Driver, Activate, SetHandler, Transmit, TaskSend, SendCount, SendAdvance, SendCopy,
                SendHand, Interrupt, InHandler, SendBack, NextFrame, Drained, Acknowledge
  <2>5. QED
    BY <2>1, <2>2, <2>3, <2>4 DEF NetNext
<1>5. ASSUME NEW h, task' = Polling(h)
      PROVE  task' = [stage |-> "poll", descr |-> 0, after |-> 0, frame |-> NoFrame, next |-> h]
  <2>1. task' = [Idle EXCEPT !.stage = "poll", !.next = h]
    BY <1>5 DEF Polling
  <2>2. Idle = [stage |-> "idle", descr |-> 0, after |-> 0, frame |-> NoFrame, next |-> NoFrame]
    BY DEF Idle
  <2>3. QED
    BY <2>1, <2>2
<1>6. QED
  <2>1. ASSUME NEW g, NEW h, task' = Sending(g, h) PROVE TaskShape'
    BY <2>1 DEF TaskShape, Sending
  <2>2. ASSUME NEW v, task' = [task EXCEPT !.stage = v] PROVE TaskShape'
    BY <1>2, <2>2 DEF TaskShape
  <2>3. ASSUME NEW v, NEW w, task' = [task EXCEPT !.stage = v, !.after = w] PROVE TaskShape'
    BY <1>3, <2>3 DEF TaskShape
  <2>4. ASSUME NEW h, task' = Polling(h) PROVE TaskShape'
    BY <1>5, <2>4 DEF TaskShape
  <2>5. CASE task' = task \/ task' = Idle
    BY <2>5 DEF TaskShape, Idle
  <2>6. QED
    BY <1>4, <2>1, <2>2, <2>3, <2>4, <2>5

\* What the layers do to the send ring is at most one Send.
LEMMA LayersSend ==
  ASSUME Layers
  PROVE  /\ UNCHANGED <<task, cardSend>>
         /\ UNCHANGED ringVars \/ \E g, k : Send(g, k)
<1>1. UNCHANGED <<task, cardSend>>
  BY DEF Layers, PassUp, ArpReceived, Learn, IpReceived, Turn, Swap, Layer
<1>2. CASE IpReceived
  BY <1>1, <1>2 DEF IpReceived, EchoReceived, UdpReceived, Deliver, SendInside, Rewrite
<1>3. CASE PassUp \/ ArpReceived \/ Learn \/ Turn \/ Swap
  BY <1>1, <1>3 DEF PassUp, ArpReceived, ArpRequest, ArpResponse, Learn, Turn, Swap, Rewrite
<1>4. QED
  BY <1>1, <1>2, <1>3 DEF Layers

LEMMA SendNext ==
  ASSUME SendInv, TaskShape, NetNext
  PROVE  SendInv'
<1>1. ASSUME UNCHANGED <<ringVars, cardSend, task>> PROVE SendInv'
  BY <1>1, SameKeepsRing DEF SendInv, ringVars, Holding, Reading
<1>2. ASSUME NEW g, NEW h, ~Holding, task' = Sending(g, h), UNCHANGED <<ringVars, cardSend>>
      PROVE  SendInv'
  <2>1. task'.stage = "read" /\ task'.descr = currentSendBuffer
    BY <1>2 DEF Sending
  <2>2. QED
    BY <1>2, <2>1, SameKeepsRing DEF ringVars, Holding, Reading
<1>3. CASE Program
  <2>1. task = Idle /\ UNCHANGED <<ringVars, cardSend>>
    BY <1>3 DEF Program, RequestEchoReply, BroadcastMACAddress, Listen, Connect, Bind,
                SendDatagram, CallToSend, CallToOpen, Call
  <2>2. ~Holding
    BY <2>1 DEF Idle, Holding
  <2>3. task' = task \/ \E g, h : task' = Sending(g, h)
    BY <1>3 DEF Program, RequestEchoReply, BroadcastMACAddress, Listen, Connect, Bind,
                SendDatagram, CallToOpen, StartSend
  <2>4. QED
    BY <1>1, <1>2, <2>1, <2>2, <2>3
<1>4. CASE Resolved
  <2>1. ~Holding
    BY <1>4 DEF Resolved, Holding
  <2>2. QED
    BY <1>2, <1>4, <2>1 DEF Resolved
<1>5. CASE Network
  BY <1>1, <1>5 DEF Network, Arrive
<1>6. CASE Activate \/ SetHandler \/ Interrupt
  BY <1>1, <1>6 DEF Activate, SetHandler, Interrupt
<1>7. CASE Transmit
  BY <1>7, TransmitKeepsRing
<1>8. CASE TaskSend
  <2>1. CASE SendCount
    <3>1. /\ task.stage = "read"
          /\ task' = [task EXCEPT !.stage = "counted", !.after = After(currentSendBuffer)]
      BY <2>1 DEF SendCount
    <3>2. /\ task'.stage = "counted" /\ task'.descr = task.descr
          /\ task'.after = After(currentSendBuffer)
      BY <3>1 DEF TaskShape
    <3>3. QED
      BY <2>1, <3>1, <3>2, SameKeepsRing DEF SendCount, ringVars, Holding, Reading
  <2>2. CASE SendAdvance
    BY <2>2, AdvanceKeepsRing DEF SendAdvance
  <2>3. CASE SendCopy
    <3>1. task.stage = "taken" /\ task' = [task EXCEPT !.stage = "copied"]
      BY <2>3 DEF SendCopy
    <3>2. task'.stage = "copied" /\ task'.descr = task.descr
      BY <3>1 DEF TaskShape
    <3>3. QED
      BY <2>3, <3>1, <3>2, SameKeepsRing DEF SendCopy, Holding, Reading
  <2>4. CASE SendHand
    BY <2>4, HandKeepsRing DEF SendHand
  <2>5. QED
    BY <1>8, <2>1, <2>2, <2>3, <2>4 DEF TaskSend
<1>9. CASE SendBack
  BY <1>9, SendKeepsRing DEF SendBack
<1>10. CASE NextFrame \/ Drained \/ Acknowledge
  BY <1>1, <1>10 DEF NextFrame, Drained, Acknowledge
<1>11. CASE Layers
  BY <1>1, <1>11, LayersSend, SendKeepsRing
<1>12. QED
  BY <1>3, <1>4, <1>5, <1>6, <1>7, <1>8, <1>9, <1>10, <1>11 DEF NetNext, Driver, InHandler

-----------------------------------------------------------------------------
RingInv == RecvInv /\ TaskShape /\ SendInv

LEMMA RingStep == RingInv /\ [NetNext]_netVars => RingInv'
<1>1. ASSUME RingInv, NetNext PROVE RingInv'
  BY <1>1, RecvNext, TaskShapeNext, SendNext DEF RingInv
<1>2. ASSUME RingInv, UNCHANGED netVars PROVE RingInv'
  BY <1>2 DEF RingInv, RecvInv, AtFrame, TaskShape, SendInv, Taken, Holding, Reading, Used, Filled,
              netVars, cardVars, ringVars, recvVars
<1>3. QED
  BY <1>1, <1>2

(***************************************************************************)
(* Driver and card stay in step in both rings, in the send ring for as     *)
(* long as no descriptor is taken that the card owns or that another Send  *)
(* has read, whenever the interrupts come (amd_am79c973.cpp:163-222).      *)
(***************************************************************************)
THEOREM RingsStayInStep == NetSpec => []RingsInStep
<1>1. NetInit => RingInv
  BY RecvInitially, SendInitially DEF RingInv
<1>2. RingInv => RingsInStep
  BY DEF RingInv, RecvInv, SendInv, RingsInStep
<1>3. QED
  BY <1>1, <1>2, RingStep, PTL DEF NetSpec

-----------------------------------------------------------------------------
(***************************************************************************)
(* UDP sockets.  A socket that connects has a port nobody else has, as     *)
(* long as programs listen only below the ports handed out from freePort.  *)
(* Sockets that listen on one port take their peers in the order in which  *)
(* they were opened: an associated one has no listening one before it.     *)
(***************************************************************************)
ListenersBelow == \A p \in Ports : p < FirstFreePort

SocketRecord(s) ==
  /\ s = [localPort |-> s.localPort, remotePort |-> s.remotePort, remoteIP |-> s.remoteIP,
          listening |-> s.listening, handler |-> s.handler]
  /\ s.localPort \in Nat
  /\ s.listening \in BOOLEAN

SamePeer(s, t) == s.remotePort = t.remotePort /\ s.remoteIP = t.remoteIP

SocketsTyped ==
  /\ freePort \in Nat /\ FirstFreePort <= freePort
  /\ \E S : sockets \in Seq(S)
  /\ \A i \in DOMAIN sockets : SocketRecord(sockets[i])

PortsApart ==
  \A i \in DOMAIN sockets : FirstFreePort <= sockets[i].localPort =>
     /\ ~sockets[i].listening
     /\ sockets[i].localPort < freePort
     /\ \A j \in DOMAIN sockets : sockets[j].localPort = sockets[i].localPort => i = j

TakenInOrder ==
  \A i, j \in DOMAIN sockets :
     /\ i < j /\ ~sockets[j].listening
     /\ sockets[i].localPort = sockets[j].localPort
     => ~sockets[i].listening /\ ~SamePeer(sockets[i], sockets[j])

SocketInv == SocketsTyped /\ PortsApart /\ TakenInOrder

LEMMA SocketsAreNumbered ==
  SocketsTyped => DOMAIN sockets = 1 .. Len(sockets) /\ Len(sockets) \in Nat
  BY LenProperties DEF SocketsTyped

\* What opening a socket does to the sockets.
LEMMA Opened ==
  ASSUME SocketsTyped, NEW s, SocketRecord(s), sockets' = Append(sockets, s)
  PROVE  /\ \E S : sockets' \in Seq(S)
         /\ DOMAIN sockets' = DOMAIN sockets \cup {Len(sockets) + 1}
         /\ sockets'[Len(sockets) + 1] = s
         /\ \A i \in DOMAIN sockets : sockets'[i] = sockets[i] /\ i < Len(sockets) + 1
         /\ \A i \in DOMAIN sockets' : SocketRecord(sockets'[i])
<1>1. PICK S : sockets \in Seq(S)
  BY DEF SocketsTyped
<1> DEFINE T == S \cup {s}
<1>2. sockets \in Seq(T) /\ s \in T
  BY <1>1, SeqMonotonic
<1> HIDE DEF T
<1>3. Append(sockets, s) \in Seq(T) /\ Len(Append(sockets, s)) = Len(sockets) + 1
  BY <1>2
<1>4. DOMAIN sockets = 1 .. Len(sockets) /\ Len(sockets) \in Nat
  BY SocketsAreNumbered
<1>5. DOMAIN sockets' = 1 .. Len(sockets) + 1
  BY <1>3, LenProperties
<1>6. sockets'[Len(sockets) + 1] = s /\ \A i \in DOMAIN sockets : sockets'[i] = sockets[i]
  BY <1>2, <1>4
<1>7. DOMAIN sockets' = DOMAIN sockets \cup {Len(sockets) + 1}
  BY <1>4, <1>5
<1>8. \A i \in DOMAIN sockets : i < Len(sockets) + 1
  BY <1>4
<1>9. \A i \in DOMAIN sockets' : SocketRecord(sockets'[i])
  BY <1>6, <1>7 DEF SocketsTyped
<1>10. QED
  BY <1>3, <1>6, <1>7, <1>8, <1>9

\* What a change of one socket does to the sockets.
LEMMA Changed ==
  ASSUME SocketsTyped, NEW k \in DOMAIN sockets, NEW s, SocketRecord(s),
         sockets' = [sockets EXCEPT ![k] = s]
  PROVE  /\ \E S : sockets' \in Seq(S)
         /\ DOMAIN sockets' = DOMAIN sockets
         /\ sockets'[k] = s
         /\ \A i \in DOMAIN sockets : i # k => sockets'[i] = sockets[i]
         /\ \A i \in DOMAIN sockets' : SocketRecord(sockets'[i])
<1>1. PICK S : sockets \in Seq(S)
  BY DEF SocketsTyped
<1> DEFINE T == S \cup {s}
<1>2. sockets \in Seq(T) /\ s \in T
  BY <1>1, SeqMonotonic
<1> HIDE DEF T
<1>3. k \in 1 .. Len(sockets) /\ DOMAIN sockets = 1 .. Len(sockets)
  BY SocketsAreNumbered
<1>4. sockets' \in Seq(T) /\ DOMAIN sockets' = DOMAIN sockets
  BY <1>2, <1>3, ExceptSeq
<1>5. sockets'[k] = s /\ \A i \in DOMAIN sockets : i # k => sockets'[i] = sockets[i]
  BY <1>3
<1>6. \A i \in DOMAIN sockets' : SocketRecord(sockets'[i])
  BY <1>4, <1>5 DEF SocketsTyped
<1>7. QED
  BY <1>4, <1>5, <1>6

LEMMA SocketsListen ==
  ASSUME SocketInv, ListenersBelow, NEW port \in Ports, Listen(port)
  PROVE  SocketInv'
<1> DEFINE n == Len(sockets) + 1
           s == [localPort |-> port, remotePort |-> 0, remoteIP |-> NoIp, listening |-> TRUE,
                 handler |-> "none"]
<1>1. port \in Nat /\ FirstFreePort \in Nat /\ port < FirstFreePort
  BY StackAssumption DEF StackAssumption, ListenersBelow
<1>2. SocketRecord(s) /\ s.localPort = port /\ s.listening
  BY <1>1 DEF SocketRecord
<1>3. sockets' = Append(sockets, s) /\ freePort' = freePort
  BY DEF Listen
<1> HIDE DEF s
<1>4. /\ \E S : sockets' \in Seq(S)
      /\ DOMAIN sockets' = DOMAIN sockets \cup {n}
      /\ sockets'[n] = s
      /\ \A i \in DOMAIN sockets : sockets'[i] = sockets[i] /\ i < n
      /\ \A i \in DOMAIN sockets' : SocketRecord(sockets'[i])
  BY <1>2, <1>3, Opened DEF SocketInv
<1>5. DOMAIN sockets \subseteq Nat /\ n \in Nat
  BY SocketsAreNumbered DEF SocketInv
<1> HIDE DEF n
<1>6. SocketsTyped'
  BY <1>3, <1>4 DEF SocketInv, SocketsTyped
<1>7. PortsApart'
  BY <1>1, <1>2, <1>3, <1>4, <1>5 DEF SocketInv, PortsApart
<1>8. TakenInOrder'
  BY <1>2, <1>4, <1>5 DEF SocketInv, TakenInOrder, SamePeer
<1>9. QED
  BY <1>6, <1>7, <1>8 DEF SocketInv

LEMMA SocketsConnect ==
  ASSUME SocketInv, NEW ip, NEW port, Connect(ip, port)
  PROVE  SocketInv'
<1> DEFINE n == Len(sockets) + 1
           s == [localPort |-> freePort, remotePort |-> port, remoteIP |-> ip,
                 listening |-> FALSE, handler |-> "none"]
<1>1. freePort \in Nat /\ FirstFreePort \in Nat /\ FirstFreePort <= freePort
  BY StackAssumption DEF StackAssumption, SocketInv, SocketsTyped
<1>2. SocketRecord(s) /\ s.localPort = freePort /\ ~s.listening
  BY <1>1 DEF SocketRecord
<1>3. sockets' = Append(sockets, s) /\ freePort' = freePort + 1
  BY DEF Connect
<1> HIDE DEF s
<1>4. /\ \E S : sockets' \in Seq(S)
      /\ DOMAIN sockets' = DOMAIN sockets \cup {n}
      /\ sockets'[n] = s
      /\ \A i \in DOMAIN sockets : sockets'[i] = sockets[i] /\ i < n
      /\ \A i \in DOMAIN sockets' : SocketRecord(sockets'[i])
  BY <1>2, <1>3, Opened DEF SocketInv
<1>5. DOMAIN sockets \subseteq Nat /\ n \in Nat
  BY SocketsAreNumbered DEF SocketInv
<1> HIDE DEF n
<1>6. SocketsTyped'
  BY <1>1, <1>3, <1>4 DEF SocketInv, SocketsTyped
<1>7. \A i \in DOMAIN sockets : sockets[i].localPort \in Nat /\ sockets[i].localPort # freePort
  BY <1>1 DEF SocketInv, SocketsTyped, SocketRecord, PortsApart
<1>8. PortsApart'
  BY <1>1, <1>2, <1>3, <1>4, <1>7 DEF SocketInv, PortsApart
<1>9. TakenInOrder'
  BY <1>2, <1>4, <1>5, <1>7 DEF SocketInv, TakenInOrder, SamePeer
<1>10. QED
  BY <1>6, <1>8, <1>9 DEF SocketInv

LEMMA SocketsBind ==
  ASSUME SocketInv, NEW k \in DOMAIN sockets, Bind(k)
  PROVE  SocketInv'
<1> DEFINE s == [sockets[k] EXCEPT !.handler = "answer"]
<1>1. /\ SocketRecord(s) /\ SamePeer(s, sockets[k])
      /\ s.localPort = sockets[k].localPort /\ s.listening = sockets[k].listening
  <2>1. SocketRecord(sockets[k])
    BY DEF SocketInv, SocketsTyped
  <2>2. s = [localPort |-> sockets[k].localPort, remotePort |-> sockets[k].remotePort,
             remoteIP |-> sockets[k].remoteIP, listening |-> sockets[k].listening,
             handler |-> "answer"]
    BY <2>1 DEF SocketRecord
  <2>3. QED
    BY <2>1, <2>2 DEF SocketRecord, SamePeer
<1>2. sockets' = [sockets EXCEPT ![k] = s] /\ freePort' = freePort
  BY DEF Bind
<1> HIDE DEF s
<1>3. /\ \E S : sockets' \in Seq(S)
      /\ DOMAIN sockets' = DOMAIN sockets
      /\ sockets'[k] = s
      /\ \A i \in DOMAIN sockets : i # k => sockets'[i] = sockets[i]
      /\ \A i \in DOMAIN sockets' : SocketRecord(sockets'[i])
  BY <1>1, <1>2, Changed DEF SocketInv
<1>4. \A i \in DOMAIN sockets :
         /\ sockets'[i].localPort = sockets[i].localPort
         /\ sockets'[i].listening = sockets[i].listening
         /\ sockets'[i].remotePort = sockets[i].remotePort
         /\ sockets'[i].remoteIP = sockets[i].remoteIP
  BY <1>1, <1>3 DEF SamePeer
<1>5. SocketsTyped'
  BY <1>2, <1>3 DEF SocketInv, SocketsTyped
<1>6. PortsApart' /\ TakenInOrder'
  BY <1>2, <1>3, <1>4 DEF SocketInv, PortsApart, TakenInOrder, SamePeer
<1>7. QED
  BY <1>5, <1>6 DEF SocketInv

\* A datagram goes to the first of the sockets it may go to.
LEMMA SocketForIsFirst ==
  ASSUME SocketsTyped, NEW f, Candidates(f) # {}
  PROVE  /\ SocketFor(f) \in Candidates(f)
         /\ \A j \in Candidates(f) : SocketFor(f) <= j
<1>1. Candidates(f) \subseteq Nat
  BY SocketsAreNumbered DEF Candidates
<1>2. PICK n \in Candidates(f) : \A m \in Candidates(f) : ~ (<<m, n>> \in OpToRel(<, Nat))
  BY <1>1, NatLessThanWellFounded, WFMin
<1>3. \A m \in Candidates(f) : ~ (m < n)
  BY <1>1, <1>2 DEF OpToRel
<1>4. \E i \in Candidates(f) : \A j \in Candidates(f) : i <= j
  BY <1>1, <1>3
<1>5. QED
  BY <1>4 DEF SocketFor

LEMMA SocketsDeliver ==
  ASSUME SocketInv, NEW f, Candidates(f) # {}, Deliver(SocketFor(f), f), freePort' = freePort
  PROVE  SocketInv'
<1> DEFINE k == SocketFor(f)
           s == Associated(sockets[k], f)
<1>1. /\ k \in DOMAIN sockets /\ Belongs(sockets[k], f)
      /\ \A i \in DOMAIN sockets : i < k => ~Belongs(sockets[i], f)
  <2>1. DOMAIN sockets \subseteq Nat
    BY SocketsAreNumbered DEF SocketInv
  <2>2. QED
    BY <2>1, SocketForIsFirst DEF SocketInv, Candidates
<1>2. /\ SocketRecord(s) /\ ~s.listening
      /\ s.localPort = sockets[k].localPort
      /\ s.remotePort = f.message.srcPort /\ s.remoteIP = f.srcIP
  <2>1. SocketRecord(sockets[k])
    BY <1>1 DEF SocketInv, SocketsTyped
  <2>2. QED
    BY <2>1 DEF SocketRecord, Associated
<1>3. sockets' = [sockets EXCEPT ![k] = s]
  BY DEF Deliver
<1> HIDE DEF k, s
<1>4. /\ \E S : sockets' \in Seq(S)
      /\ DOMAIN sockets' = DOMAIN sockets
      /\ sockets'[k] = s
      /\ \A i \in DOMAIN sockets : i # k => sockets'[i] = sockets[i]
      /\ \A i \in DOMAIN sockets' : SocketRecord(sockets'[i])
  BY <1>1, <1>2, <1>3, Changed DEF SocketInv
<1>5. SocketsTyped'
  BY <1>4 DEF SocketInv, SocketsTyped
<1>6. PortsApart'
  BY <1>1, <1>2, <1>4 DEF SocketInv, PortsApart
<1>7. ~sockets[k].listening => SamePeer(s, sockets[k])
  BY <1>1, <1>2 DEF Belongs, SamePeer
<1>8. TakenInOrder'
  <2>1. SUFFICES ASSUME NEW i \in DOMAIN sockets, NEW j \in DOMAIN sockets, i < j,
                        ~sockets'[j].listening, sockets'[i].localPort = sockets'[j].localPort
                 PROVE  ~sockets'[i].listening /\ ~SamePeer(sockets'[i], sockets'[j])
    BY <1>4 DEF TakenInOrder, SamePeer
  <2>2. sockets[i].localPort = sockets[j].localPort
    BY <1>2, <1>4, <2>1
  <2>3. i \in Nat /\ j \in Nat
    BY SocketsAreNumbered DEF SocketInv
  <2>4. CASE j = k
    <3>1. sockets'[i] = sockets[i] /\ sockets'[j] = s
      BY <1>4, <2>1, <2>3, <2>4
    <3>2. sockets[i].localPort = f.message.dstPort
      BY <1>1, <2>2, <2>4 DEF Belongs
    <3>3. ~Belongs(sockets[i], f)
      BY <1>1, <2>1, <2>4
    <3>4. QED
      BY <1>2, <3>1, <3>2, <3>3 DEF Belongs, SamePeer
  <2>5. CASE j # k
    <3>1. ~sockets[i].listening /\ ~SamePeer(sockets[i], sockets[j])
      BY <1>4, <2>1, <2>2, <2>5 DEF SocketInv, TakenInOrder
    <3>2. sockets'[j] = sockets[j] /\ (i # k => sockets'[i] = sockets[i])
      BY <1>4, <2>5
    <3>3. QED
      BY <1>2, <1>4, <1>7, <3>1, <3>2 DEF SamePeer
  <2>6. QED
    BY <2>4, <2>5
<1>9. QED
  BY <1>5, <1>6, <1>8 DEF SocketInv

LEMMA SocketsSame ==
  ASSUME SocketInv, UNCHANGED <<sockets, freePort>>
  PROVE  SocketInv'
  BY DEF SocketInv, SocketsTyped, PortsApart, TakenInOrder

LEMMA SocketsNext ==
  ASSUME SocketInv, ListenersBelow, NetNext
  PROVE  SocketInv'
<1>1. CASE Program
  <2>1. CASE \E port \in Ports : Listen(port)
    BY <2>1, SocketsListen
  <2>2. CASE \E ip \in Peers, port \in Ports : Connect(ip, port)
    BY <2>2, SocketsConnect
  <2>3. CASE \E i \in DOMAIN sockets : Bind(i)
    BY <2>3, SocketsBind
  <2>4. CASE \/ \E ip \in Peers : RequestEchoReply(ip)
             \/ \E ip \in Neighbours : BroadcastMACAddress(ip)
             \/ \E i \in DOMAIN sockets : SendDatagram(i)
    BY <2>4, SocketsSame DEF RequestEchoReply, BroadcastMACAddress, SendDatagram, CallToSend
  <2>5. QED
    BY <1>1, <2>1, <2>2, <2>3, <2>4 DEF Program
<1>2. CASE Resolved \/ Network \/ Driver
  BY <1>2, SocketsSame DEF Resolved, Network, Driver, StackIdle, stackVars
<1>3. CASE Layers
  <2>1. freePort' = freePort
    BY <1>3 DEF Layers, PassUp, ArpReceived, ArpRequest, ArpResponse, Learn, IpReceived,
                EchoReceived, UdpReceived, Turn, Swap, Rewrite, stackVars
  <2>2. sockets' = sockets \/ \E f : Candidates(f) # {} /\ Deliver(SocketFor(f), f)
    BY <1>3 DEF Layers, PassUp, ArpReceived, ArpRequest, ArpResponse, Learn, IpReceived,
                EchoReceived, UdpReceived, Turn, Swap, Rewrite, stackVars
  <2>3. QED
    BY <2>1, <2>2, SocketsSame, SocketsDeliver
<1>4. QED
  BY <1>1, <1>2, <1>3 DEF NetNext

(***************************************************************************)
(* If programs listen only on ports below the first that is handed out to  *)
(* a socket that connects, no two sockets are ever associated with the     *)
(* same peer, for any number of sockets, in whatever order they are opened *)
(* and datagrams come in (udp.cpp:80-99).                                  *)
(***************************************************************************)
THEOREM PeersApart == NetSpec => [](ListenersBelow => OneSocketPerPeer)
<1> DEFINE Inv == ListenersBelow => SocketInv
<1>1. NetInit => Inv
  <2>1. SUFFICES ASSUME NetInit PROVE SocketInv
    OBVIOUS
  <2>2. sockets = << >> /\ freePort = FirstFreePort /\ FirstFreePort \in Nat
    BY <2>1, StackAssumption DEF StackAssumption, NetInit
  <2>3. sockets \in Seq({}) /\ Len(sockets) = 0
    BY <2>2, EmptySeq
  <2>4. DOMAIN sockets = {}
    BY <2>3, LenProperties
  <2>5. QED
    BY <2>2, <2>3, <2>4 DEF SocketInv, SocketsTyped, PortsApart, TakenInOrder
<1>2. Inv /\ [NetNext]_netVars => Inv'
  BY SocketsNext, SocketsSame DEF ListenersBelow, netVars, stackVars
<1>3. Inv => (ListenersBelow => OneSocketPerPeer)
  <2>1. SUFFICES ASSUME SocketInv PROVE OneSocketPerPeer
    OBVIOUS
  <2>2. DOMAIN sockets \subseteq Nat
    BY <2>1, SocketsAreNumbered DEF SocketInv
  <2>3. QED
    BY <2>1, <2>2 DEF SocketInv, TakenInOrder, OneSocketPerPeer, SamePeer
<1>4. QED
  BY <1>1, <1>2, <1>3, PTL DEF NetSpec

-----------------------------------------------------------------------------
(***************************************************************************)
(* Addresses.  Sound: what this host sends goes where WellAddressed wants  *)
(* it.  Addressable: what waits for the address of its next hop.  A frame  *)
(* in the receive buffers that is for this host's IP address has come from *)
(* a station; what the layers make of one is for another.                  *)
(***************************************************************************)
Addressable(f) ==
  \/ \E ip, m : f = Datagram(Mac(Own), Own, Broadcast, ip, m)
  \/ \E ip : f = Arp("response", Mac(Own), Own, Broadcast, ip)

Raw(f) ==
  \/ \E h \in Neighbours : \E ip : f = Arp("request", Mac(h), h, Broadcast, ip)
  \/ \E h \in Neighbours : f = Arp("response", Mac(h), h, Mac(Own), Own)
  \/ \E ip, m : ip # Own /\ f = Datagram(Via(ip), ip, Mac(Own), Own, m)

Received(f) == f = Torn \/ Raw(f) \/ f.dstIP # Own

\* An answer whose own headers are turned round, but not yet Ethernet's.
Answered(f) ==
  \/ \E h \in Neighbours :
       f = [type |-> "arp", dst |-> Broadcast, src |-> Mac(h), command |-> "response",
            srcIP |-> Own, srcMAC |-> Mac(Own), dstIP |-> h, dstMAC |-> Mac(h)]
  \/ \E ip, m : ip # Own /\ f = Datagram(Via(ip), Own, Mac(Own), ip, m)

AnswerInv ==
  /\ \A q \in Places : Received(recvMemory[q])
  /\ mode = "turn" => \E ip, m : ip # Own /\ answer = Datagram(Via(ip), ip, Mac(Own), Own, m)
  /\ mode = "swap" => answer = Torn \/ Answered(answer)
  /\ mode = "reply" => answer = Torn \/ Sound(answer)

SendsInv ==
  /\ \E S : cache \in Seq(S)
  /\ AddressesTrue =>
       /\ \A q \in Places : sendMemory[q] = Torn \/ Sound(sendMemory[q])
       /\ task.stage \in SendStages => Sound(task.frame)
  /\ task.next = NoFrame \/ Addressable(task.next)
  /\ task.stage = "poll" => task.next # NoFrame

LEMMA PlaceTyped ==
  ASSUME NEW i \in Slots
  PROVE  Place(i) \in Places
<1>1. RingSize \in Nat \ {0} /\ Phase \in {0, 1} /\ i \in Nat /\ i <= RingSize - 1
  BY CardAssumption DEF CardAssumption, Slots
<1> DEFINE a == i + Phase
           b == RingSize - 1 + Phase
<1>2. a \in Nat /\ b \in Nat /\ a <= b
  BY <1>1
<1> HIDE DEF a, b
<1>3. a \div 2 \in Nat /\ b \div 2 \in Nat /\ a \div 2 <= b \div 2
  BY <1>2
<1>4. Place(i) = a \div 2 /\ Place(RingSize - 1) = b \div 2
  BY DEF Place, a, b
<1>5. QED
  BY <1>3, <1>4 DEF Places

LEMMA WrittenIs ==
  ASSUME NEW memory, NEW i, NEW f, NEW n, NEW q \in Places
  PROVE  Written(memory, i, f, n)[q] \in {f, Torn, memory[q]}
  BY DEF Written

LEMMA MacsDiffer ==
  /\ \A a, b : Mac(a) = Mac(b) <=> a = b
  /\ \A h \in Neighbours : Mac(h) # Broadcast /\ Mac(h) # Mac(Own)
  /\ Mac(Own) # Broadcast
<1>1. \A a, b : Mac(a) = Mac(b) => a = b
  <2> SUFFICES ASSUME NEW a, NEW b, Mac(a) = Mac(b)
               PROVE  a = b
    OBVIOUS
  <2>1. Mac(a).mac = a /\ Mac(b).mac = b
    BY DEF Mac
  <2>2. QED
    BY <2>1
<1>2. Broadcast = Mac("all")
  BY DEF Broadcast, Mac
<1>3. QED
  BY <1>1, <1>2, StackAssumption, BroadcastAssumption DEF StackAssumption, BroadcastAssumption

\* The next hop is a station in the subnet.
LEMMA Routes ==
  ASSUME NEW ip, ip # Own
  PROVE  Route(ip) \in Neighbours
  BY StackAssumption DEF StackAssumption, Route

\* What the cache says of an address is true.
LEMMA CacheTrue ==
  ASSUME NEW S, cache \in Seq(S), AddressesTrue, NEW ip
  PROVE  GetMACFromCache(ip) \in {Broadcast, Mac(ip)}
<1>1. CASE Entries(ip) = {}
  BY <1>1 DEF GetMACFromCache
<1>2. CASE Entries(ip) # {}
  <2>1. DOMAIN cache \subseteq Nat /\ Entries(ip) \subseteq DOMAIN cache
    BY LenProperties DEF Entries
  <2>2. PICK n \in Entries(ip) : \A m \in Entries(ip) : ~ (<<m, n>> \in OpToRel(<, Nat))
    BY <1>2, <2>1, NatLessThanWellFounded, WFMin
  <2>3. \A m \in Entries(ip) : ~ (m < n)
    BY <2>1, <2>2 DEF OpToRel
  <2>4. \E i \in Entries(ip) : \A j \in Entries(ip) : i <= j
    BY <2>1, <2>3
  <2> DEFINE i == CHOOSE i \in Entries(ip) : \A j \in Entries(ip) : i <= j
  <2>5. i \in Entries(ip)
    BY <2>4
  <2>6. GetMACFromCache(ip) = cache[i].mac
    BY <1>2 DEF GetMACFromCache
  <2> HIDE DEF i
  <2>7. cache[i].ip = ip
    BY <2>5 DEF Entries
  <2>8. cache[i].mac = Mac(cache[i].ip)
    BY <2>1, <2>5 DEF AddressesTrue
  <2>9. QED
    BY <2>6, <2>7, <2>8
<1>3. QED
  BY <1>1, <1>2

LEMMA QuestionSound ==
  ASSUME NEW ip
  PROVE  Sound(Question(ip))
  BY DEF Sound, Question, Arp

LEMMA AddressedSound ==
  ASSUME NEW S, cache \in Seq(S), AddressesTrue, NEW f, Addressable(f), Known(f)
  PROVE  Sound(Addressed(f))
<1>1. GetMACFromCache(Hop(f)) = Mac(Hop(f))
  BY CacheTrue DEF Known
<1>2. ASSUME NEW ip, NEW m, f = Datagram(Mac(Own), Own, Broadcast, ip, m)
      PROVE  Sound(Addressed(f))
  <2>1. f.type = "ip" /\ Hop(f) = Route(ip)
    BY <1>2 DEF Datagram, Hop
  <2>2. Addressed(f) = [f EXCEPT !.dst = Via(ip)]
    BY <1>1, <2>1 DEF Addressed, Via
  <2>3. Addressed(f) = Datagram(Mac(Own), Own, Via(ip), ip, m)
    BY <1>2, <2>2 DEF Datagram
  <2>4. QED
    BY <2>3 DEF Sound, Datagram
<1>3. ASSUME NEW ip, f = Arp("response", Mac(Own), Own, Broadcast, ip)
      PROVE  Sound(Addressed(f))
  <2>1. f.type = "arp" /\ Hop(f) = ip
    BY <1>3 DEF Arp, Hop
  <2>2. Addressed(f) = [f EXCEPT !.dst = Mac(ip), !.dstMAC = Mac(ip)]
    BY <1>1, <2>1 DEF Addressed
  <2>3. Addressed(f) = Arp("response", Mac(Own), Own, Mac(ip), ip)
    BY <1>3, <2>2 DEF Arp
  <2>4. QED
    BY <2>3 DEF Sound, Arp
<1>4. QED
  BY <1>2, <1>3 DEF Addressable

LEMMA MessageAddressable ==
  ASSUME NEW s
  PROVE  Addressable(Message(s))
  BY DEF Addressable, Message

\* What arrives is from a station other than this host.
LEMMA IncomingRaw ==
  ASSUME NEW f \in Incoming
  PROVE  Raw(f)
<1>1. \A ip \in Peers : ip # Own
  BY StackAssumption DEF StackAssumption
<1>2. QED
  BY <1>1 DEF Incoming, Raw

\* Of what is for this host, by type.
LEMMA ForUsIsRaw ==
  ASSUME NEW f, Received(f), f.type \in {"arp", "ip"}, f.dstIP = Own
  PROVE  /\ f.type = "arp" /\ f.command = "request" =>
              \E h \in Neighbours : f = Arp("request", Mac(h), h, Broadcast, Own)
         /\ f.type = "ip" => \E ip, m : ip # Own /\ f = Datagram(Via(ip), ip, Mac(Own), Own, m)
<1>1. Raw(f)
  BY DEF Received, Torn
<1>2. ASSUME NEW h \in Neighbours, NEW ip, f = Arp("request", Mac(h), h, Broadcast, ip)
      PROVE  f.type = "arp" /\ ip = Own
  BY <1>2 DEF Arp
<1>3. ASSUME NEW h \in Neighbours, f = Arp("response", Mac(h), h, Mac(Own), Own)
      PROVE  f.type = "arp" /\ f.command # "request"
  BY <1>3 DEF Arp
<1>4. ASSUME NEW ip, NEW m, f = Datagram(Via(ip), ip, Mac(Own), Own, m)
      PROVE  f.type = "ip"
  BY <1>4 DEF Datagram
<1>5. QED
  BY <1>1, <1>2, <1>3, <1>4 DEF Raw

\* The answers that ARP and ICMP make, and what IPv4 and Ethernet do to them.
LEMMA ArpAnswers ==
  ASSUME NEW h \in Neighbours, NEW f, f = Arp("request", Mac(h), h, Broadcast, Own)
  PROVE  Answered(ArpAnswer(f)) /\ Received(ArpAnswer(f))
<1>1. f.srcIP = h /\ f.srcMAC = Mac(h)
  BY DEF Arp
<1>2. ArpAnswer(f) = [f EXCEPT !.command = "response", !.dstIP = h, !.dstMAC = Mac(h),
                               !.srcIP = Own, !.srcMAC = Mac(Own)]
  BY <1>1 DEF ArpAnswer
<1> DEFINE g == ArpAnswer(f)
<1>3. g = [type |-> "arp", dst |-> Broadcast, src |-> Mac(h), command |-> "response",
           srcIP |-> Own, srcMAC |-> Mac(Own), dstIP |-> h, dstMAC |-> Mac(h)]
  BY <1>2 DEF Arp
<1> HIDE DEF g
<1>4. g.dstIP # Own
  BY <1>3, StackAssumption DEF StackAssumption
<1>5. QED
  BY <1>3, <1>4 DEF g, Answered, Received

LEMMA EchoAnswers ==
  ASSUME NEW ip, ip # Own, NEW m, NEW f, f = Datagram(Via(ip), ip, Mac(Own), Own, m)
  PROVE  /\ EchoAnswer(f) = Datagram(Via(ip), ip, Mac(Own), Own, Echo(0))
         /\ SwapIps(f) = Datagram(Via(ip), Own, Mac(Own), ip, m)
         /\ Received(EchoAnswer(f)) /\ Received(SwapIps(f)) /\ Answered(SwapIps(f))
<1>1. EchoAnswer(f) = Datagram(Via(ip), ip, Mac(Own), Own, Echo(0))
  BY DEF EchoAnswer, Datagram
<1>2. f.srcIP = ip /\ f.dstIP = Own
  BY DEF Datagram
<1>3. SwapIps(f) = [f EXCEPT !.dstIP = ip, !.srcIP = Own]
  BY <1>2 DEF SwapIps
<1>4. SwapIps(f) = Datagram(Via(ip), Own, Mac(Own), ip, m)
  BY <1>3 DEF Datagram
<1>5. SwapIps(f).dstIP # Own
  BY <1>4 DEF Datagram
<1>6. QED
  BY <1>1, <1>4, <1>5 DEF Received, Raw, Answered

LEMMA AnsweredTurns ==
  ASSUME NEW f, Answered(f)
  PROVE  Sound(SwapMacs(f)) /\ Received(SwapMacs(f))
<1>1. ASSUME NEW h \in Neighbours,
             f = [type |-> "arp", dst |-> Broadcast, src |-> Mac(h), command |-> "response",
                  srcIP |-> Own, srcMAC |-> Mac(Own), dstIP |-> h, dstMAC |-> Mac(h)]
      PROVE  Sound(SwapMacs(f)) /\ Received(SwapMacs(f))
  <2>2. SwapMacs(f) = [f EXCEPT !.dst = Mac(h), !.src = Mac(Own)]
    BY <1>1 DEF SwapMacs
  <2>3. SwapMacs(f) = Arp("response", Mac(Own), Own, Mac(h), h)
    BY <1>1, <2>2 DEF Arp
  <2>4. SwapMacs(f).dstIP # Own
    BY <2>3, StackAssumption DEF StackAssumption, Arp
  <2>5. QED
    BY <2>3, <2>4 DEF Sound, Received, Arp
<1>2. ASSUME NEW ip, NEW m, ip # Own, f = Datagram(Via(ip), Own, Mac(Own), ip, m)
      PROVE  Sound(SwapMacs(f)) /\ Received(SwapMacs(f))
  <2>1. SwapMacs(f) = [f EXCEPT !.dst = Via(ip), !.src = Mac(Own)]
    BY <1>2 DEF SwapMacs, Datagram
  <2>2. SwapMacs(f) = Datagram(Mac(Own), Own, Via(ip), ip, m)
    BY <1>2, <2>1 DEF Datagram
  <2>3. QED
    BY <1>2, <2>2 DEF Sound, Received, Datagram
<1>3. QED
  BY <1>1, <1>2 DEF Answered

-----------------------------------------------------------------------------
(***************************************************************************)
(* The receive buffers and the answer made in them.                        *)
(***************************************************************************)
LEMMA AnswerSame ==
  ASSUME AnswerInv, UNCHANGED <<recvMemory, answer>>,
         mode' = mode \/ mode' \notin {"turn", "swap", "reply"}
  PROVE  AnswerInv'
  BY DEF AnswerInv

\* A layer writes in the buffer the driver is at, or something arrives.
LEMMA ReceivedWritten ==
  ASSUME AnswerInv, NEW i, NEW f, NEW n, Received(f),
         recvMemory' = Written(recvMemory, i, f, n)
  PROVE  \A q \in Places : Received(recvMemory'[q])
<1>1. TAKE q \in Places
<1>2. recvMemory'[q] \in {f, Torn, recvMemory[q]}
  BY WrittenIs
<1>3. Received(Torn) /\ Received(recvMemory[q])
  BY DEF Received, AnswerInv
<1>4. QED
  BY <1>2, <1>3

LEMMA AnswerArrives ==
  ASSUME AnswerInv, Network
  PROVE  AnswerInv'
<1>1. PICK f \in Incoming, status \in {"frame", "bad"} : Arrive(f, status)
  BY DEF Network
<1>2. UNCHANGED <<answer, mode>>
  BY <1>1 DEF Arrive
<1>3. Received(f) /\ Received(Torn)
  BY IncomingRaw DEF Received
<1>4. \A q \in Places : Received(recvMemory'[q])
  <2>1. CASE recvMemory' = recvMemory
    BY <2>1 DEF AnswerInv
  <2>2. CASE \E g \in {f, Torn} : \E n : recvMemory' = Written(recvMemory, cardRecv, g, n)
    BY <1>3, <2>2, ReceivedWritten
  <2>3. QED
    BY <1>1, <2>1, <2>2 DEF Arrive
<1>5. QED
  BY <1>2, <1>4 DEF AnswerInv

\* A layer that answers leaves what the layer below expects.
LEMMA AnswerRewritten ==
  ASSUME AnswerInv, NEW f, NEW n, Rewrite(f, n), Received(f),
         \/ mode' = "turn" /\ \E ip, m : ip # Own /\ f = Datagram(Via(ip), ip, Mac(Own), Own, m)
         \/ mode' = "swap" /\ (f = Torn \/ Answered(f))
         \/ mode' = "reply" /\ (f = Torn \/ Sound(f))
  PROVE  AnswerInv'
<1>1. \A q \in Places : Received(recvMemory'[q])
  BY ReceivedWritten DEF Rewrite
<1>2. answer' = f
  BY DEF Rewrite
<1>3. QED
  BY <1>1, <1>2 DEF AnswerInv

LEMMA AnswerLayers ==
  ASSUME AnswerInv, currentRecvBuffer \in Slots, Layers
  PROVE  AnswerInv'
<1>1. Received(Frame)
  BY PlaceTyped DEF AnswerInv, Frame, Stored
<1>2. CASE PassUp
  <2>1. mode' = "handled" \/ (ForUs(Frame) /\ mode' = Frame.type)
    BY <1>2 DEF PassUp
  <2>2. QED
    BY <1>2, <2>1, AnswerSame DEF PassUp, ForUs
<1>3. CASE ArpReceived
  <2>1. CASE ForArp(Frame) /\ ArpRequest(Frame)
    <3>1. PICK h \in Neighbours : Frame = Arp("request", Mac(h), h, Broadcast, Own)
      BY <1>1, <2>1, ForUsIsRaw DEF ForArp, ArpRequest
    <3>2. QED
      BY <2>1, <3>1, ArpAnswers, AnswerRewritten DEF ArpRequest
  <2>2. CASE ForArp(Frame) /\ ArpResponse(Frame)
    BY <2>2, AnswerSame DEF ArpResponse, NoReply
  <2>3. CASE NoReply
    BY <2>3, AnswerSame DEF NoReply
  <2>4. QED
    BY <1>3, <2>1, <2>2, <2>3 DEF ArpReceived
<1>4. CASE Learn
  BY <1>4, AnswerSame DEF Learn, NoReply
<1>5. CASE IpReceived
  <2>1. CASE ForIp(Frame) /\ EchoReceived(Frame) /\ Frame.message = Echo(8)
    <3>1. PICK ip, m : ip # Own /\ Frame = Datagram(Via(ip), ip, Mac(Own), Own, m)
      BY <1>1, <2>1, ForUsIsRaw DEF ForIp
    <3>2. EchoAnswer(Frame) = Datagram(Via(ip), ip, Mac(Own), Own, Echo(0)) /\ Received(EchoAnswer(Frame))
      BY <3>1, EchoAnswers
    <3>3. Rewrite(EchoAnswer(Frame), 2) /\ mode' = "turn"
      BY <2>1 DEF EchoReceived
    <3>4. QED
      BY <3>1, <3>2, <3>3, AnswerRewritten
  <2>2. CASE NoReply
    BY <2>2, AnswerSame DEF NoReply
  <2>3. CASE UdpReceived(Frame)
    <3>1. UNCHANGED <<recvMemory, answer>> /\ mode' \in {"handled", "hung"}
      BY <2>3 DEF UdpReceived, Deliver, SendInside, NoReply
    <3>2. QED
      BY <3>1, AnswerSame
  <2>4. QED
    BY <1>5, <2>1, <2>2, <2>3 DEF IpReceived, EchoReceived
<1>6. CASE Turn
  <2>1. PICK ip, m : ip # Own /\ answer = Datagram(Via(ip), ip, Mac(Own), Own, m)
    BY <1>6 DEF Turn, AnswerInv
  <2>2. Received(SwapIps(answer)) /\ Answered(SwapIps(answer)) /\ Received(Torn)
    BY <2>1, EchoAnswers DEF Received
  <2>3. TurnedBy(SwapIps(answer)) \in {SwapIps(answer), Torn}
    BY DEF TurnedBy
  <2>4. QED
    BY <1>6, <2>2, <2>3, AnswerRewritten DEF Turn
<1>7. CASE Swap
  <2>1. TurnedBy(SwapMacs(answer)) = Torn
        \/ (Answered(answer) /\ TurnedBy(SwapMacs(answer)) = SwapMacs(answer))
    BY <1>7 DEF Swap, AnswerInv, TurnedBy
  <2>2. Received(TurnedBy(SwapMacs(answer)))
        /\ (TurnedBy(SwapMacs(answer)) = Torn \/ Sound(TurnedBy(SwapMacs(answer))))
    BY <2>1, AnsweredTurns DEF Received
  <2>3. QED
    BY <1>7, <2>2, AnswerRewritten DEF Swap
<1>8. QED
  BY <1>2, <1>3, <1>4, <1>5, <1>6, <1>7 DEF Layers

LEMMA AnswerNext ==
  ASSUME AnswerInv, currentRecvBuffer \in Slots, NetNext
  PROVE  AnswerInv'
<1>1. CASE Program \/ Resolved
  BY <1>1, AnswerSame
     DEF Program, RequestEchoReply, BroadcastMACAddress, Listen, Connect, Bind, SendDatagram,
         CallToSend, CallToOpen, Call, Resolved, recvVars
<1>2. CASE Activate \/ SetHandler \/ Transmit \/ TaskSend
  BY <1>2, AnswerSame
     DEF Activate, SetHandler, Transmit, TaskSend, SendCount, SendAdvance, SendCopy, SendHand, recvVars
<1>3. CASE Interrupt \/ NextFrame \/ Drained \/ Acknowledge
  BY <1>3, AnswerSame DEF Interrupt, NextFrame, Drained, Acknowledge, recvVars
<1>4. CASE SendBack
  BY <1>4 DEF SendBack, AnswerInv
<1>5. QED
  BY <1>1, <1>2, <1>3, <1>4, AnswerArrives, AnswerLayers DEF NetNext, Driver, InHandler

-----------------------------------------------------------------------------
(***************************************************************************)
(* What the task and the handlers send.                                    *)
(***************************************************************************)
LEMMA SendsSame ==
  ASSUME SendsInv, UNCHANGED <<cache, sendMemory, task>>
  PROVE  SendsInv'
  BY DEF SendsInv, AddressesTrue

\* An address that is learnt makes no other true.
LEMMA SendsLearnt ==
  ASSUME SendsInv, NEW e, cache' = Append(cache, e), UNCHANGED <<sendMemory, task>>
  PROVE  SendsInv'
<1>1. PICK S : cache \in Seq(S)
  BY DEF SendsInv
<1> DEFINE T == S \cup {e}
<1>2. cache \in Seq(T) /\ e \in T
  BY <1>1, SeqMonotonic
<1> HIDE DEF T
<1>3. cache' \in Seq(T) /\ Len(cache') = Len(cache) + 1
  BY <1>2
<1>4. DOMAIN cache = 1 .. Len(cache) /\ DOMAIN cache' = 1 .. Len(cache) + 1 /\ Len(cache) \in Nat
  BY <1>2, <1>3, LenProperties
<1>5. \A i \in DOMAIN cache : i \in DOMAIN cache' /\ cache'[i] = cache[i]
  BY <1>2, <1>4
<1>6. AddressesTrue' => AddressesTrue
  BY <1>5 DEF AddressesTrue
<1>7. QED
  BY <1>3, <1>6 DEF SendsInv

\* A frame is copied into a send buffer.
LEMMA SendsWritten ==
  ASSUME SendsInv, NEW i, NEW f, NEW n, sendMemory' = Written(sendMemory, i, f, n),
         AddressesTrue => f = Torn \/ Sound(f)
  PROVE  AddressesTrue => \A q \in Places : sendMemory'[q] = Torn \/ Sound(sendMemory'[q])
<1>1. SUFFICES ASSUME AddressesTrue, NEW q \in Places
               PROVE  sendMemory'[q] = Torn \/ Sound(sendMemory'[q])
  OBVIOUS
<1>2. sendMemory'[q] \in {f, Torn, sendMemory[q]}
  BY WrittenIs
<1>3. QED
  BY <1>1, <1>2 DEF SendsInv

LEMMA SendsSend ==
  ASSUME SendsInv, NEW f, NEW k, Send(f, k), AddressesTrue => f = Torn \/ Sound(f),
         UNCHANGED <<cache, task>>
  PROVE  SendsInv'
<1>1. PICK n : sendMemory' = Written(sendMemory, currentSendBuffer, f, n)
  BY DEF Send
<1>2. AddressesTrue => \A q \in Places : sendMemory'[q] = Torn \/ Sound(sendMemory'[q])
  BY <1>1, SendsWritten
<1>3. AddressesTrue' = AddressesTrue
  BY DEF AddressesTrue
<1>4. QED
  BY <1>2, <1>3 DEF SendsInv

LEMMA SendsLayers ==
  ASSUME SendsInv, Layers
  PROVE  SendsInv'
<1>1. task' = task
  BY LayersSend
<1>2. CASE PassUp \/ ArpReceived \/ Turn \/ Swap
  BY <1>1, <1>2, SendsSame
     DEF PassUp, ArpReceived, ArpRequest, ArpResponse, Turn, Swap, Rewrite, ringVars, stackVars
<1>3. CASE Learn
  BY <1>1, <1>3, SendsLearnt DEF Learn, ringVars
<1>4. CASE IpReceived
  <2>1. cache' = cache
    BY <1>4 DEF IpReceived, EchoReceived, UdpReceived, Rewrite, stackVars
  <2>2. CASE UNCHANGED ringVars
    BY <1>1, <2>1, <2>2, SendsSame DEF ringVars
  <2>3. ASSUME NEW s, SendInside(Message(s)) PROVE SendsInv'
    <3>1. PICK S : cache \in Seq(S)
      BY DEF SendsInv
    <3>2. AddressesTrue /\ Known(Message(s)) => Sound(Addressed(Message(s)))
      BY <3>1, MessageAddressable, AddressedSound
    <3>3. Sound(Question(Hop(Message(s))))
      BY QuestionSound
    <3>4. \E g : Send(g, 2) /\ (AddressesTrue => Sound(g))
      BY <2>3, <3>2, <3>3 DEF SendInside
    <3>5. QED
      BY <1>1, <2>1, <3>4, SendsSend
  <2>4. UNCHANGED ringVars \/ \E s : SendInside(Message(s))
    BY <1>4 DEF IpReceived, EchoReceived, UdpReceived, Deliver, Rewrite
  <2>5. QED
    BY <2>2, <2>3, <2>4
<1>5. QED
  BY <1>2, <1>3, <1>4 DEF Layers

\* The task's sends.
LEMMA SendsStart ==
  ASSUME SendsInv, NEW f, Addressable(f), StartSend(f), UNCHANGED <<cache, sendMemory>>
  PROVE  SendsInv'
<1>1. PICK S : cache \in Seq(S)
  BY DEF SendsInv
<1>2. (AddressesTrue => Sound(task'.frame)) /\ (task'.next = NoFrame \/ Addressable(task'.next))
  <2>1. CASE Known(f)
    <3>1. AddressesTrue => Sound(Addressed(f))
      BY <1>1, <2>1, AddressedSound
    <3>2. QED
      BY <2>1, <3>1 DEF StartSend, Sending
  <2>2. CASE ~Known(f)
    BY <2>2, QuestionSound DEF StartSend, Sending
  <2>3. QED
    BY <2>1, <2>2
<1>3. task'.stage = "read"
  BY DEF StartSend, Sending
<1>4. AddressesTrue' = AddressesTrue
  BY DEF AddressesTrue
<1>5. QED
  BY <1>2, <1>3, <1>4 DEF SendsInv

LEMMA SendsProgram ==
  ASSUME SendsInv, Program
  PROVE  SendsInv'
<1>1. UNCHANGED <<cache, sendMemory>>
  BY DEF Program, RequestEchoReply, BroadcastMACAddress, Listen, Connect, Bind, SendDatagram,
         CallToSend, CallToOpen, Call, ringVars
<1>2. task' = task \/ \E f : Addressable(f) /\ StartSend(f)
  <2>1. ASSUME NEW ip, RequestEchoReply(ip)
        PROVE  \E f : Addressable(f) /\ StartSend(f)
    BY <2>1 DEF RequestEchoReply, Addressable
  <2>2. ASSUME NEW ip, BroadcastMACAddress(ip)
        PROVE  \E f : Addressable(f) /\ StartSend(f)
    BY <2>2 DEF BroadcastMACAddress, Addressable
  <2>3. ASSUME NEW i, SendDatagram(i)
        PROVE  \E f : Addressable(f) /\ StartSend(f)
    BY <2>3, MessageAddressable DEF SendDatagram
  <2>4. QED
    BY <2>1, <2>2, <2>3 DEF Program, Listen, Connect, Bind, CallToOpen
<1>3. QED
  BY <1>1, <1>2, SendsSame, SendsStart

LEMMA SendsTask ==
  ASSUME SendsInv, TaskShape, TaskSend, UNCHANGED cache
  PROVE  SendsInv'
<1>1. PICK s, d, a, f, n :
        task = [stage |-> s, descr |-> d, after |-> a, frame |-> f, next |-> n]
  BY DEF TaskShape
<1>2. AddressesTrue' = AddressesTrue
  BY DEF AddressesTrue
<1>3. ASSUME task.stage \in SendStages, task'.stage \in SendStages,
             task'.frame = task.frame, task'.next = task.next,
             AddressesTrue => \A q \in Places : sendMemory'[q] = Torn \/ Sound(sendMemory'[q])
      PROVE  SendsInv'
  BY <1>2, <1>3 DEF SendsInv, SendStages
<1>4. CASE SendCount
  <2>1. task' = [task EXCEPT !.stage = "counted", !.after = After(currentSendBuffer)]
        /\ task.stage = "read" /\ sendMemory' = sendMemory
    BY <1>4 DEF SendCount, ringVars
  <2>2. task'.stage = "counted" /\ task'.frame = task.frame /\ task'.next = task.next
    BY <1>1, <2>1
  <2>3. QED
    BY <1>3, <2>1, <2>2 DEF SendsInv, SendStages
<1>5. CASE SendAdvance
  <2>1. task' = [task EXCEPT !.stage = "taken"] /\ task.stage = "counted" /\ sendMemory' = sendMemory
    BY <1>5 DEF SendAdvance
  <2>2. task'.stage = "taken" /\ task'.frame = task.frame /\ task'.next = task.next
    BY <1>1, <2>1
  <2>3. QED
    BY <1>3, <2>1, <2>2 DEF SendsInv, SendStages
<1>6. CASE SendCopy
  <2>1. task' = [task EXCEPT !.stage = "copied"] /\ task.stage = "taken"
    BY <1>6 DEF SendCopy
  <2>2. task'.stage = "copied" /\ task'.frame = task.frame /\ task'.next = task.next
    BY <1>1, <2>1
  <2>3. PICK k : sendMemory' = Written(sendMemory, task.descr, task.frame, k)
    BY <1>6 DEF SendCopy
  <2>4. AddressesTrue => Sound(task.frame)
    BY <2>1 DEF SendsInv, SendStages
  <2>5. AddressesTrue => \A q \in Places : sendMemory'[q] = Torn \/ Sound(sendMemory'[q])
    BY <2>3, <2>4, SendsWritten
  <2>6. QED
    BY <1>3, <2>1, <2>2, <2>5 DEF SendStages
<1>7. CASE SendHand
  <2>1. CASE task' = Idle
    BY <1>2, <1>7, <2>1 DEF SendHand, SendsInv, Idle, SendStages
  <2>2. CASE task.next # NoFrame /\ task' = Polling(task.next)
    <3>1. task' = [Idle EXCEPT !.stage = "poll", !.next = n]
      BY <1>1, <2>2 DEF Polling
    <3>2. Idle = [stage |-> "idle", descr |-> 0, after |-> 0, frame |-> NoFrame, next |-> NoFrame]
      BY DEF Idle
    <3>3. task'.stage = "poll" /\ task'.next = task.next
      BY <1>1, <3>1, <3>2
    <3>4. QED
      BY <1>2, <1>7, <2>2, <3>3 DEF SendHand, SendsInv, SendStages
  <2>3. QED
    BY <1>7, <2>1, <2>2 DEF SendHand
<1>8. QED
  BY <1>4, <1>5, <1>6, <1>7 DEF TaskSend

LEMMA SendsResolved ==
  ASSUME SendsInv, Resolved
  PROVE  SendsInv'
<1>1. /\ task.stage = "poll" /\ Known(task.next)
      /\ task' = Sending(Addressed(task.next), NoFrame)
      /\ UNCHANGED <<cache, sendMemory>>
  BY DEF Resolved, ringVars, stackVars
<1>2. PICK S : cache \in Seq(S)
  BY DEF SendsInv
<1>3. AddressesTrue => Sound(Addressed(task.next))
  BY <1>1, <1>2, AddressedSound DEF SendsInv
<1>4. task'.stage = "read" /\ task'.frame = Addressed(task.next) /\ task'.next = NoFrame
  BY <1>1 DEF Sending
<1>5. AddressesTrue' = AddressesTrue
  BY <1>1 DEF AddressesTrue
<1>6. QED
  BY <1>1, <1>3, <1>4, <1>5 DEF SendsInv

LEMMA SendsNext ==
  ASSUME SendsInv, AnswerInv, TaskShape, NetNext
  PROVE  SendsInv'
<1>1. CASE Network
  BY <1>1, SendsSame DEF Network, stackVars, Arrive, ringVars
<1>2. ASSUME Driver PROVE SendsInv'
  <2>1. cache' = cache
    BY <1>2 DEF Driver, StackIdle, stackVars
  <2>2. CASE TaskSend
    BY <2>1, <2>2, SendsTask
  <2>3. CASE SendBack
    <3>1. answer = Torn \/ Sound(answer)
      BY <2>3 DEF SendBack, AnswerInv
    <3>2. PICK g \in {answer, Torn} : Send(g, 3)
      BY <2>3 DEF SendBack
    <3>3. task' = task
      BY <2>3 DEF SendBack
    <3>4. QED
      BY <2>1, <3>1, <3>2, <3>3, SendsSend
  <2>4. CASE Activate \/ SetHandler \/ Transmit \/ Interrupt \/ NextFrame \/ Drained \/ Acknowledge
    BY <2>1, <2>4, SendsSame
       DEF Activate, SetHandler, Transmit, Interrupt, NextFrame, Drained, Acknowledge, ringVars
  <2>5. QED
    BY <1>2, <2>2, <2>3, <2>4 DEF Driver, InHandler
<1>3. QED
  BY <1>1, <1>2, SendsProgram, SendsResolved, SendsLayers DEF NetNext

-----------------------------------------------------------------------------
AddressInv == RingInv /\ AnswerInv /\ SendsInv

LEMMA AddressStep == AddressInv /\ [NetNext]_netVars => AddressInv'
<1>1. ASSUME AddressInv, NetNext PROVE AddressInv'
  BY <1>1, RingStep, AnswerNext, SendsNext DEF AddressInv, RingInv, RecvInv
<1>2. ASSUME AddressInv, UNCHANGED netVars PROVE AddressInv'
  <2>1. RingInv'
    BY <1>2, RingStep DEF AddressInv
  <2>2. AnswerInv'
    BY <1>2, AnswerSame DEF AddressInv, netVars, cardVars, recvVars
  <2>3. SendsInv'
    BY <1>2, SendsSame DEF AddressInv, netVars, cardVars, ringVars, stackVars
  <2>4. QED
    BY <2>1, <2>2, <2>3 DEF AddressInv
<1>3. QED
  BY <1>1, <1>2

(***************************************************************************)
(* While every address in the cache is its station's, what the card        *)
(* transmits for this host goes to the station through which its IP        *)
(* address is reached, whatever layers made it or turned it round and      *)
(* whatever the interrupts and the card overwrite meanwhile                *)
(* (etherframe.cpp:53-95, arp.cpp:32-44, ipv4.cpp:74-121).                 *)
(***************************************************************************)
THEOREM FramesWellAddressed == NetSpec => []WellAddressed
<1>1. NetInit => AddressInv
  <2> SUFFICES ASSUME NetInit PROVE AddressInv
    OBVIOUS
  <2>1. RingInv
    BY RecvInitially, SendInitially DEF RingInv
  <2>2. AnswerInv
    BY DEF NetInit, CardInit, AnswerInv, Received
  <2>3. task.stage = "idle" /\ task.next = NoFrame /\ cache \in Seq({})
    BY EmptySeq DEF NetInit, CardInit, Idle
  <2>4. SendsInv
    BY <2>3 DEF NetInit, CardInit, SendsInv, SendStages
  <2>5. QED
    BY <2>1, <2>2, <2>4 DEF AddressInv
<1>2. AddressInv => WellAddressed
  <2>1. SUFFICES ASSUME AddressInv, AddressesTrue, NEW i \in DOMAIN sendDescr
                 PROVE  Stored(sendMemory, i) = Torn \/ Sound(Stored(sendMemory, i))
    BY DEF WellAddressed
  <2>2. Place(i) \in Places
    BY <2>1, PlaceTyped DEF AddressInv, RingInv, SendInv
  <2>3. QED
    BY <2>1, <2>2 DEF AddressInv, SendsInv, Stored
<1>3. QED
  BY <1>1, <1>2, AddressStep, PTL DEF NetSpec

==============================================================================
