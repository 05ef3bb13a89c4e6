------------------------------ MODULE Interrupts ------------------------------
(***************************************************************************)
(* The InterruptManager (hardwarecommunication/interrupts.cpp) and the     *)
(* pair of 8259 controllers it programs, which are hardware.  Interrupts   *)
(* are named by their line: line i is interrupt hardwareInterruptOffset+i. *)
(* A controller latches the edge of a line (requests), withholds a line    *)
(* while one of its own or a higher priority is in service, and is told by *)
(* an acknowledgement that its most urgent line in service is done.        *)
(***************************************************************************)
EXTENDS Integers, FiniteSets, FiniteSetsExt

CONSTANT Lines  \* the lines devices are connected to

ASSUME LinesAssumption == Lines \subseteq (0 .. 15) \ {2}

VARIABLES
  requests,   \* the lines latched by the controllers
  inService,  \* the lines the controllers believe to be handled; 2 is the cascade
  handlers,   \* handlers[], on the lines in use
  active      \* ActiveInterruptManager # 0, and with it the interrupt flag

interruptVars == <<requests, inService, handlers, active>>

NoHandler == "none"

MasterLines == 0 .. 7
SlaveLines  == 8 .. 15

\* The input of the first controller a line arrives at.
Input(i) == IF i \in SlaveLines THEN 2 ELSE i

Withheld(i) ==
  \/ \E j \in inService \cap MasterLines : j <= Input(i)
  \/ i \in SlaveLines /\ \E j \in inService \cap SlaveLines : j <= i

Deliverable == {i \in requests : ~Withheld(i)}

\* Two lines of the second controller share their input of the first.
MoreUrgent(i, j) == Input(i) < Input(j) \/ (Input(i) = Input(j) /\ i < j)

\* The line the processor is interrupted with.
Signalled(i) == i \in Deliverable /\ \A j \in Deliverable \ {i} : MoreUrgent(i, j)

\* A device raises its line.
Raise(i) == requests' = requests \cup {i}

EndOfInterrupt(lines) == IF lines = {} THEN {} ELSE {Min(lines)}

\* Mutant: the second controller is not acknowledged.
Acknowledge_MasterOnly(i, s) == s \ EndOfInterrupt(s \cap MasterLines)

\* What remains in service after the acknowledgements for line i.
Acknowledge(i, s) ==
  s \ (EndOfInterrupt(s \cap MasterLines)
         \cup IF i \in SlaveLines THEN EndOfInterrupt(s \cap SlaveLines) ELSE {})

(***************************************************************************)
(* The processor takes line i; DoHandleInterrupt calls the handler that is *)
(* registered and acknowledges.  What the handler does, and Schedule for   *)
(* line 0, is the caller's.                                                *)
(***************************************************************************)
DoHandleInterrupt(i) ==
  /\ active
  /\ Signalled(i)
  /\ requests' = requests \ {i}
  /\ inService' = Acknowledge(i, inService \cup {i, Input(i)})
  /\ UNCHANGED <<handlers, active>>

\* The constructor of InterruptHandler.
Register(hs, h, i) == [hs EXCEPT ![i] = h]

Activate ==
  /\ ~active
  /\ active' = TRUE
  /\ UNCHANGED <<requests, inService, handlers>>

\* The constructor of InterruptManager: no handlers, controllers initialised
\* with no line masked.
InterruptsInit ==
  /\ requests = {}
  /\ inService = {}
  /\ handlers = [i \in Lines |-> NoHandler]
  /\ active = FALSE
=============================================================================
