----------------------------- MODULE NetworkCard -----------------------------
(***************************************************************************)
(* The driver of the am79c973 network card                                 *)
(* (src/src/drivers/amd_am79c973.cpp): a ring of descriptors in each       *)
(* direction, shared with the card, which runs all the time.  The driver   *)
(* is entered by tasks (Send, with interrupts enabled) and by the card's   *)
(* interrupt.  What the card and the network do is external.               *)
(*                                                                         *)
(* The header declares the buffers as sendBuffers[2*1024+15][8], eight     *)
(* bytes for each and not 2048: the addresses, rounded up to sixteen,      *)
(* coincide in pairs and lie within 80 bytes, so that a frame reaches into *)
(* the places that follow its own.  A ring's memory is what each place     *)
(* holds, a whole frame or bytes of several.                               *)
(***************************************************************************)
EXTENDS Integers, FiniteSets

CONSTANTS
  RingSize,     \* descriptors in a ring, 8 in the code
  Phase         \* 0 or 1: which neighbours share an address

ASSUME CardAssumption ==
  /\ RingSize \in Nat \ {0}
  /\ Phase \in {0, 1}

VARIABLES
  active,              \* Activate has started the card
  handler,             \* a RawDataHandler has registered itself
  csr,                 \* the pending bits of the card's status register
  sendDescr,           \* who owns each descriptor of the send ring
  recvDescr,           \* "card", or what the card left for the host
  sendMemory,          \* what each place of the send buffers holds
  recvMemory,          \* what each place of the receive buffers holds
  currentSendBuffer,
  currentRecvBuffer,
  cardSend,            \* the card's own position in the send ring
  cardRecv,            \* the card's own position in the receive ring
  mode,                \* what the processor is doing
  temp,                \* the status HandleInterrupt has read
  answer,              \* what the handlers have made of a request, in place
  task,                \* the task that uses the network
  overrun              \* history: a descriptor in use was used again

ringVars == <<sendDescr, sendMemory, currentSendBuffer, overrun>>
recvVars == <<recvDescr, recvMemory, currentRecvBuffer>>
cardVars == <<active, handler, csr, ringVars, recvVars, cardSend, cardRecv,
              mode, temp, answer, task>>

(* Bytes of several frames: its parts do not belong together, and no layer *)
(* recognises it as its own.                                               *)
Torn    == [type |-> "torn"]
NoFrame == [type |-> "none"]
Idle    == [stage |-> "idle", descr |-> 0, after |-> 0, frame |-> NoFrame,
            next |-> NoFrame]

After(i) == (i + 1) % RingSize

(* Which buffers share a place: the places are sixteen bytes apart.        *)
Place(i) == (i + Phase) \div 2
Places == 0 .. Place(RingSize - 1)
Stored(memory, i) == memory[Place(i)]

(* Writing in buffer i, up to n places further on.  A frame that begins up *)
(* to two places before loses some of its 42 bytes of headers; one that    *)
(* begins further back keeps them.                                         *)
Written(memory, i, f, n) ==
  [q \in Places |-> IF q = Place(i) THEN f
                    ELSE IF q \in Place(i) - 2 .. Place(i) + n THEN Torn
                    ELSE memory[q]]

(* How far a frame reaches that takes at least k places more than its own: *)
(* 42 bytes take two, what the card has padded takes three.                *)
Reach(k) == {k} \union (k .. Place(RingSize - 1))

CardInit ==
  /\ active = FALSE
  /\ handler = FALSE
  /\ csr = {}
  /\ sendDescr = [i \in 0 .. RingSize - 1 |-> "host"]
  /\ recvDescr = [i \in 0 .. RingSize - 1 |-> "card"]
  /\ sendMemory = [q \in Places |-> Torn]
  /\ recvMemory = [q \in Places |-> Torn]
  /\ currentSendBuffer = 0
  /\ currentRecvBuffer = 0
  /\ cardSend = 0
  /\ cardRecv = 0
  /\ mode = "user"
  /\ temp = {}
  /\ answer = NoFrame
  /\ task = Idle
  /\ overrun = FALSE

Activate ==
  /\ ~active
  /\ mode = "user"
  /\ active' = TRUE
  /\ csr' = {"IDON"}
  /\ UNCHANGED <<handler, ringVars, recvVars, cardSend, cardRecv, mode, temp,
                 answer, task>>

SetHandler ==
  /\ ~handler
  /\ mode = "user"
  /\ handler' = TRUE
  /\ UNCHANGED <<active, csr, ringVars, recvVars, cardSend, cardRecv, mode,
                 temp, answer, task>>

-----------------------------------------------------------------------------
(* The card and the network it is connected to (external).                 *)

Arrive(f, status) ==
  /\ active
  /\ IF recvDescr[cardRecv] = "card"
     THEN /\ recvDescr' = [recvDescr EXCEPT ![cardRecv] = status]
          /\ \E n \in Reach(3) : recvMemory' =
               Written(recvMemory, cardRecv, IF status = "frame" THEN f ELSE Torn, n)
          /\ cardRecv' = After(cardRecv)
          /\ csr' = csr \union {"RINT"}
     ELSE /\ csr' = csr \union {"MISS"}
          /\ UNCHANGED <<recvDescr, recvMemory, cardRecv>>
  /\ UNCHANGED <<active, handler, ringVars, currentRecvBuffer, cardSend, mode,
                 temp, answer, task>>

Transmit ==
  /\ active
  /\ sendDescr[cardSend] = "card"
  /\ sendDescr' = [sendDescr EXCEPT ![cardSend] = "host"]
  /\ cardSend' = After(cardSend)
  /\ csr' = csr \union {"TINT"}
  /\ UNCHANGED <<active, handler, sendMemory, currentSendBuffer, recvVars,
                 cardRecv, mode, temp, answer, task, overrun>>

-----------------------------------------------------------------------------
(* A task's Send has a descriptor from the moment it has read its number;  *)
(* it has taken it when the next Send reads another.                       *)
SendStages == {"read", "counted", "taken", "copied"}
Claimed(i) == task.stage \in SendStages /\ task.descr = i
Taken(i)   == task.stage \in {"taken", "copied"} /\ task.descr = i

(* Send, called inside the interrupt: nothing but the card interferes.     *)
Send(f, k) ==
  /\ currentSendBuffer' = After(currentSendBuffer)
  /\ \E n \in Reach(k) :
        sendMemory' = Written(sendMemory, currentSendBuffer, f, n)
  /\ sendDescr' = [sendDescr EXCEPT ![currentSendBuffer] = "card"]
  /\ overrun' = \/ overrun
                \/ sendDescr[currentSendBuffer] = "card"
                \/ Claimed(currentSendBuffer)

(* Send, called by a task: the interrupt handler may run between any two   *)
(* accesses.  A task that asked for an address polls for it afterwards.    *)
Sending(f, next) ==
  [stage |-> "read", descr |-> currentSendBuffer, after |-> 0, frame |-> f,
   next |-> next]
Polling(next) == [Idle EXCEPT !.stage = "poll", !.next = next]

SendCount ==
  /\ mode = "user"
  /\ task.stage = "read"
  /\ task' = [task EXCEPT !.stage = "counted", !.after = After(currentSendBuffer)]
  /\ UNCHANGED <<active, handler, csr, ringVars, recvVars, cardSend, cardRecv,
                 mode, temp, answer>>

SendAdvance ==
  /\ mode = "user"
  /\ task.stage = "counted"
  /\ currentSendBuffer' = task.after
  /\ overrun' = (overrun \/ sendDescr[task.descr] = "card")
  /\ task' = [task EXCEPT !.stage = "taken"]
  /\ UNCHANGED <<active, handler, csr, sendDescr, sendMemory, recvVars,
                 cardSend, cardRecv, mode, temp, answer>>

SendCopy ==
  /\ mode = "user"
  /\ task.stage = "taken"
  /\ \E n \in Reach(2) :
        sendMemory' = Written(sendMemory, task.descr, task.frame, n)
  /\ task' = [task EXCEPT !.stage = "copied"]
  /\ UNCHANGED <<active, handler, csr, sendDescr, currentSendBuffer, overrun,
                 recvVars, cardSend, cardRecv, mode, temp, answer>>

SendHand ==
  /\ mode = "user"
  /\ task.stage = "copied"
  /\ sendDescr' = [sendDescr EXCEPT ![task.descr] = "card"]
  /\ task' = IF task.next = NoFrame THEN Idle
             ELSE Polling(task.next)
  /\ UNCHANGED <<active, handler, csr, sendMemory, currentSendBuffer, overrun,
                 recvVars, cardSend, cardRecv, mode, temp, answer>>

-----------------------------------------------------------------------------
(* HandleInterrupt, with interrupts disabled; PassUp is the stack's.       *)

Interrupt ==
  /\ mode = "user"
  /\ csr # {}
  /\ temp' = csr
  /\ mode' = IF "RINT" \in csr THEN "receive" ELSE "ack"
  /\ UNCHANGED <<active, handler, csr, ringVars, recvVars, cardSend, cardRecv,
                 answer, task>>

(* A frame with the error bit, or in pieces, or nobody to hand it to.      *)
Skipped == recvDescr[currentRecvBuffer] = "bad" \/ ~handler

\* Mutant: the ring is taken to have one descriptor less.
GiveBack_RingTooShort ==
  /\ recvDescr' = [recvDescr EXCEPT ![currentRecvBuffer] = "card"]
  /\ currentRecvBuffer' = (currentRecvBuffer + 1) % (RingSize - 1)

(* The descriptor goes back, after the reply that was written in its       *)
(* buffer has been copied.                                                 *)
GiveBack ==
  /\ recvDescr' = [recvDescr EXCEPT ![currentRecvBuffer] = "card"]
  /\ currentRecvBuffer' = After(currentRecvBuffer)

(* The answer leaves whole only if nothing has been written over it.       *)
SendBack ==
  /\ mode = "reply"
  /\ Send(IF Stored(recvMemory, currentRecvBuffer) = answer THEN answer ELSE Torn, 3)
  /\ GiveBack
  /\ mode' = "receive"
  /\ answer' = NoFrame
  /\ UNCHANGED <<active, handler, csr, recvMemory, cardSend, cardRecv, temp,
                 task>>

\* Mutant: one frame for each interrupt.
NextFrame_Once ==
  /\ mode = "handled"
  /\ GiveBack
  /\ mode' = "ack"
  /\ UNCHANGED <<active, handler, csr, ringVars, recvMemory, cardSend, cardRecv,
                 temp, answer, task>>

NextFrame ==
  /\ mode = "handled"
  /\ GiveBack
  /\ mode' = "receive"
  /\ UNCHANGED <<active, handler, csr, ringVars, recvMemory, cardSend, cardRecv,
                 temp, answer, task>>

Drained ==
  /\ mode = "receive"
  /\ recvDescr[currentRecvBuffer] = "card"
  /\ mode' = "ack"
  /\ UNCHANGED <<active, handler, csr, ringVars, recvVars, cardSend, cardRecv,
                 temp, answer, task>>

Acknowledge ==
  /\ mode = "ack"
  /\ csr' = csr \ temp
  /\ temp' = {}
  /\ mode' = "user"
  /\ UNCHANGED <<active, handler, ringVars, recvVars, cardSend, cardRecv, answer,
                 task>>
=============================================================================
