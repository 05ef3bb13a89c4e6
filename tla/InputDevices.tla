------------------------------ MODULE InputDevices ------------------------------
(***************************************************************************)
(* Keyboard and mouse with their drivers (drivers/keyboard.cpp, mouse.cpp, *)
(* driver.cpp), the interrupts they come by, and what their events do to   *)
(* the window system; what the console makes of them is in Console.  The   *)
(* keyboard controller is hardware: one output buffer for both devices,    *)
(* which it fills when it is empty, raising the line of the device the     *)
(* byte is from if its command byte says so.                               *)
(***************************************************************************)
EXTENDS Interrupts, Desktop, Sequences

CONSTANTS
  KeyBytes,     \* bytes the keyboard sends
  ButtonBytes,  \* the first byte of a mouse packet: bit i-1 is button i
  XBytes,       \* the second and the third one: signed offsets
  YBytes,
  MaxKeys       \* bound on the keys pressed

VARIABLES
  out,      \* the controller's output buffer
  command,  \* the bits of its command byte that matter here
  answers,  \* the devices that have been told to report and have not answered
  rest,     \* how many bytes of its packet the mouse has still to send
  keys,     \* the keys pressed so far
  boot,     \* how far ActivateAll is
  packet,   \* buffer[0 .. offset - 1] of the mouse driver
  buttons,  \* those of the last packet
  gui       \* the window system

deviceVars == <<out, command, answers, rest, keys>>
driverVars == <<boot, packet, buttons, gui>>
vars == <<interruptVars, deviceVars, driverVars>>

Timer == 0
KeyboardLine == 1
MouseLine == 12

ASSUME DevicesAssumption ==
  /\ {Timer, KeyboardLine, MouseLine} \subseteq Lines
  /\ KeyBytes \cup ButtonBytes \cup XBytes \cup YBytes \subseteq 0 .. 255
  /\ MaxKeys \in Nat

Empty == [full |-> FALSE, from |-> "none", byte |-> 0]

-----------------------------------------------------------------------------
(***************************************************************************)
(* The controller.  Bits 0 and 1 of its command byte let the keyboard and  *)
(* the mouse interrupt, bits 4 and 5 stop them.                            *)
(***************************************************************************)
CommandBits == {0, 1, 4, 5}

Bits(byte) == {i \in CommandBits : (byte \div 2 ^ i) % 2 = 1}

Interrupting(bits, from) == (IF from = "mouse" THEN 1 ELSE 0) \in bits

Running(from) == (IF from = "mouse" THEN 5 ELSE 4) \notin command

LineOf(from) == IF from = "mouse" THEN MouseLine ELSE KeyboardLine

Put(from, byte) ==
  /\ Running(from) /\ ~out.full
  /\ out' = [full |-> TRUE, from |-> from, byte |-> byte]
  /\ requests' = IF Interrupting(command, from) THEN requests \cup {LineOf(from)}
                                                ELSE requests
  /\ UNCHANGED <<inService, handlers, active, command, driverVars>>

\* A device's answer to the command 0xF4, before anything it reports.
Answer(d) ==
  /\ d \in answers
  /\ Put(d, 250)
  /\ answers' = answers \ {d}
  /\ UNCHANGED <<rest, keys>>

PressKey ==
  /\ "keyboard" \notin answers
  /\ keys < MaxKeys
  /\ \E byte \in KeyBytes : Put("keyboard", byte)
  /\ keys' = keys + 1
  /\ UNCHANGED <<answers, rest>>

\* The mouse reports only after it was told to.
MouseSends ==
  /\ boot \in {"told", "on"} /\ "mouse" \notin answers
  /\ \E byte \in (CASE rest = 0 -> ButtonBytes [] rest = 2 -> XBytes
                    [] rest = 1 -> YBytes) : Put("mouse", byte)
  /\ rest' = (rest + 2) % 3
  /\ UNCHANGED <<answers, keys>>

Tick ==
  /\ active /\ Timer \notin requests
  /\ Raise(Timer)
  /\ UNCHANGED <<inService, handlers, active, deviceVars, driverVars>>

-----------------------------------------------------------------------------
(***************************************************************************)
(* KeyboardDriver::HandleInterrupt reads the buffer whatever is in it.     *)
(***************************************************************************)
HandleKeyboard ==
  /\ out' = Empty
  /\ UNCHANGED <<packet, buttons, gui>>

(***************************************************************************)
(* MouseDriver::HandleInterrupt: the third byte completes a packet, which  *)
(* becomes a movement and then an event for each button that changed.      *)
(***************************************************************************)
Pressed(mask, i) == (mask \div 2 ^ (i - 1)) % 2 = 1

SignedByte(v) == ((v + 128) % 256) - 128

ButtonEvent(g, i, was, is) ==
  IF Pressed(was, i) = Pressed(is, i) THEN g
  ELSE IF Pressed(was, i) THEN OnMouseUp(g, i) ELSE OnMouseDown(g, i)

ButtonEvents(g, was, is) ==
  ButtonEvent(ButtonEvent(ButtonEvent(g, 1, was, is), 2, was, is), 3, was, is)

Move(dx, dy) ==
  IF dx = 0 /\ dy = 0 THEN gui ELSE OnMouseMove(gui, SignedByte(dx), -SignedByte(dy))

CompletePacket(bytes) ==
  /\ buttons' = bytes[1]
  /\ gui' = ButtonEvents(Move(bytes[2], bytes[3]), buttons, bytes[1])

TakeByte ==
  LET bytes == Append(packet, out.byte)
  IN  /\ out' = Empty
      /\ packet' = IF Len(bytes) = 3 THEN << >> ELSE bytes
      /\ IF Len(bytes) = 3 THEN CompletePacket(bytes) ELSE UNCHANGED <<buttons, gui>>

\* Mutant: the status of the controller is not looked at.
HandleMouse_NoStatus == TakeByte

HandleMouse ==
  IF out.full /\ out.from = "mouse"
  THEN TakeByte
  ELSE UNCHANGED <<out, packet, buttons, gui>>

\* DoHandleInterrupt, with the handler that is called; Schedule, for the timer,
\* touches nothing here.
Interrupt(i) ==
  /\ DoHandleInterrupt(i)
  /\ CASE handlers[i] = "keyboard" -> HandleKeyboard
       [] handlers[i] = "mouse" -> HandleMouse
       [] OTHER -> UNCHANGED <<out, packet, buttons, gui>>
  /\ UNCHANGED <<command, answers, rest, keys, boot>>

-----------------------------------------------------------------------------
(***************************************************************************)
(* DriverManager::ActivateAll, with interrupts disabled but the devices    *)
(* running.  Both drivers let their device send (0xAE, 0xA8) and read the  *)
(* command byte without waiting for it: what they get is the controller's  *)
(* byte, which then takes the place of one that was waiting, or that one.  *)
(***************************************************************************)
StatusRead(stopped) ==
  {command \ {stopped}} \cup (IF out.full THEN {Bits(out.byte)} ELSE {})

\* The constructors register the drivers; Activate of the first empties the buffer.
DrainKeyboard ==
  /\ boot = "constructed" /\ boot' = "drained"
  /\ handlers' = Register(Register(handlers, "keyboard", KeyboardLine),
                           "mouse", MouseLine)
  /\ out' = Empty
  /\ UNCHANGED <<requests, inService, active, command, answers, rest, keys, packet,
                 buttons, gui>>

ActivateKeyboard ==
  /\ boot = "drained" /\ boot' = "keyboard"
  /\ \E status \in StatusRead(4) : command' = (status \cup {0}) \ {4}
  /\ out' = Empty
  /\ answers' = answers \cup {"keyboard"}
  /\ UNCHANGED <<interruptVars, rest, keys, packet, buttons, gui>>

ActivateMouse ==
  /\ boot = "keyboard" /\ boot' = "told"
  /\ packet' = << >> /\ buttons' = 0
  /\ \E status \in StatusRead(5) : command' = status \cup {1}
  /\ out' = Empty
  /\ answers' = answers \cup {"mouse"}
  /\ UNCHANGED <<interruptVars, rest, keys, gui>>

\* dataport.Read() for the mouse's answer, without waiting for it either.
TakeAnswer ==
  /\ boot = "told" /\ boot' = "on"
  /\ out' = Empty
  /\ UNCHANGED <<interruptVars, command, answers, rest, keys, packet, buttons, gui>>

Start ==
  /\ boot = "on"
  /\ Activate
  /\ UNCHANGED <<deviceVars, driverVars>>

\* The firmware leaves the controller in a state of its own.
InputInit ==
  /\ InterruptsInit
  /\ out = Empty /\ command \in SUBSET CommandBits /\ answers = {}
  /\ rest = 0 /\ keys = 0
  /\ boot = "constructed" /\ packet = << >> /\ buttons = 0
  /\ gui = NewDesktop

InputNext ==
  \/ DrainKeyboard \/ ActivateKeyboard \/ ActivateMouse \/ TakeAnswer \/ Start
  \/ Tick \/ PressKey \/ MouseSends
  \/ \E d \in {"keyboard", "mouse"} : Answer(d)
  \/ \E i \in Lines : Interrupt(i)

InputSpec == InputInit /\ [][InputNext]_vars

-----------------------------------------------------------------------------
(***************************************************************************)
(* Activation can leave the driver out of step with the mouse: an answer   *)
(* that comes late is taken for a byte of a packet, and the keyboard's     *)
(* answer, read by the mouse's activation, leaves an edge whose interrupt  *)
(* eats a byte of the mouse.  Settled says that neither is the case: the   *)
(* bytes the driver has and those it has to get are whole packets, and     *)
(* every interrupt of the keyboard is for a byte of the keyboard.          *)
(***************************************************************************)
MouseByte == IF out.full /\ out.from = "mouse" THEN 1 ELSE 0

Settled ==
  /\ boot = "on" /\ answers = {}
  /\ (Len(packet) + rest + MouseByte) % 3 = 0
  /\ KeyboardLine \in requests => out.full /\ out.from = "keyboard"

(***************************************************************************)
(* Once driver and mouse agree where a packet begins and what activation   *)
(* left behind is gone, no interleaving of ticks, keys and movements makes *)
(* a byte count twice or not at all (mouse.cpp:69-78, keyboard.cpp:54).    *)
(***************************************************************************)
StaysInStep == [][Settled => Settled']_vars

(***************************************************************************)
(* A byte that waits in the controller, of a device that may interrupt, is *)
(* still announced: its edge is latched, and no line stays in service that *)
(* would withhold it.  There is no second edge for the same byte, so an    *)
(* edge lost is a device lost (interrupts.cpp:197-203, keyboard.cpp:54,    *)
(* mouse.cpp:69-73).                                                       *)
(***************************************************************************)
WaitingByteAnnounced ==
  /\ out.full /\ Interrupting(command, out.from) => LineOf(out.from) \in requests
  /\ inService = {}

(***************************************************************************)
(* The drivers' packets move and release the front window as the buttons   *)
(* say: see FrontDragged (window.cpp:19-40).                               *)
(***************************************************************************)
FrontDragsWhileHeld == FrontDragged(gui, Pressed(buttons, 1))

(***************************************************************************)
(* The keyboard's events reach the widget the mouse's events chose: see    *)
(* KeysToClicked (widget.cpp:90, 155).                                     *)
(***************************************************************************)
KeysReachClicked == KeysToClicked(gui)
=============================================================================
