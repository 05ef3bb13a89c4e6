-------------------------------- MODULE Console --------------------------------
(***************************************************************************)
(* The text console of kernel.cpp: printf, whose cursor is two static      *)
(* variables that every caller shares.  A task's printf is interrupted     *)
(* anywhere, and the kernel is built without optimisation: x++ and y++     *)
(* load the variable, add, and store it, and each test reads the variable  *)
(* again, so each access is an action of its own.  A printf called by an   *)
(* interrupt handler, or through the system call print, runs with          *)
(* interrupts disabled and is one action.  What is on the screen, and      *)
(* MouseToConsole, which shows the mouse there, are not modelled.          *)
(***************************************************************************)
EXTENDS Integers

CONSTANTS
  Width, Height,  \* 80 and 25
  Modulus,        \* 256: x and y are bytes
  Printers        \* the tasks that call printf

ASSUME ConsoleAssumption ==
  /\ Width \in Nat \ {0} /\ Height \in Nat \ {0, 1}
  /\ Modulus \in Nat /\ Width < Modulus /\ Height < Modulus

VARIABLES
  x, y,   \* printf's cursor
  stage,  \* where each task is in printf
  held    \* the incremented coordinate a task is about to store

consoleVars == <<x, y, stage, held>>

Nothing == -1

Byte(v) == v % Modulus

\* What follows each assignment to x or y.
Following ==
  [step    |-> "wrap",    \* x++ after a character
   down    |-> "wrap",    \* y++ after '\n'
   zero    |-> "next",    \* x = 0 at the end of a line
   next    |-> "clear",   \* and y++
   restart |-> "rows",    \* y = 0, the first step of the loop over the rows
   first   |-> "columns", \* x = 0, that of the loop over the columns
   blank   |-> "columns", \* its x++
   under   |-> "rows",    \* and y++
   home    |-> "top",     \* x = 0 and y = 0 when the screen is clear
   top     |-> "begin"]

Stages == DOMAIN Following \cup {"begin", "wrap", "clear", "rows", "columns"}

-----------------------------------------------------------------------------
At(t, s) == stage[t] = s

Goto(t, s) == stage' = [stage EXCEPT ![t] = s]

Proceed(t) == Goto(t, Following[stage[t]])

\* The next character of the string: a visible one, or '\n'.
Visible(t) ==
  /\ At(t, "begin") /\ Goto(t, "step")
  /\ UNCHANGED <<x, y, held>>

NewLine(t) ==
  /\ At(t, "begin") /\ Goto(t, "down")
  /\ x' = 0
  /\ UNCHANGED <<y, held>>

\* x++ and y++
Load(t, v) ==
  /\ held[t] = Nothing
  /\ held' = [held EXCEPT ![t] = Byte(v + 1)]
  /\ UNCHANGED <<x, y, stage>>

LoadX(t) == stage[t] \in {"step", "blank"} /\ Load(t, x)

LoadY(t) == stage[t] \in {"down", "next", "under"} /\ Load(t, y)

StoreX(t) ==
  /\ stage[t] \in {"step", "blank"} /\ held[t] # Nothing
  /\ x' = held[t]
  /\ held' = [held EXCEPT ![t] = Nothing]
  /\ Proceed(t)
  /\ UNCHANGED y

StoreY(t) ==
  /\ stage[t] \in {"down", "next", "under"} /\ held[t] # Nothing
  /\ y' = held[t]
  /\ held' = [held EXCEPT ![t] = Nothing]
  /\ Proceed(t)
  /\ UNCHANGED x

\* x = 0 and y = 0
ZeroX(t) ==
  /\ stage[t] \in {"zero", "first", "home"} /\ Proceed(t)
  /\ x' = 0
  /\ UNCHANGED <<y, held>>

ZeroY(t) ==
  /\ stage[t] \in {"restart", "top"} /\ Proceed(t)
  /\ y' = 0
  /\ UNCHANGED <<x, held>>

\* Mutant: only the column just past the last one is noticed.
Wrap_Equal(t) ==
  /\ At(t, "wrap") /\ Goto(t, IF x = Width THEN "zero" ELSE "clear")
  /\ UNCHANGED <<x, y, held>>

\* if(x >= 80)
Wrap(t) ==
  /\ At(t, "wrap") /\ Goto(t, IF x >= Width THEN "zero" ELSE "clear")
  /\ UNCHANGED <<x, y, held>>

\* if(y >= 25)
Clear(t) ==
  /\ At(t, "clear") /\ Goto(t, IF y >= Height THEN "restart" ELSE "begin")
  /\ UNCHANGED <<x, y, held>>

\* y < 25 and x < 80, of the loops that clear the screen counting in the cursor.
Rows(t) ==
  /\ At(t, "rows") /\ Goto(t, IF y < Height THEN "first" ELSE "home")
  /\ UNCHANGED <<x, y, held>>

Columns(t) ==
  /\ At(t, "columns") /\ Goto(t, IF x < Width THEN "blank" ELSE "under")
  /\ UNCHANGED <<x, y, held>>

Printf(t) ==
  \/ Visible(t) \/ NewLine(t)
  \/ LoadX(t) \/ StoreX(t) \/ LoadY(t) \/ StoreY(t) \/ ZeroX(t) \/ ZeroY(t)
  \/ Wrap(t) \/ Clear(t) \/ Rows(t) \/ Columns(t)

-----------------------------------------------------------------------------
(***************************************************************************)
(* printf without interruption: where the cursor is after n > 0 visible    *)
(* characters, or a new line.                                              *)
(***************************************************************************)
Wrapped(p) == IF p.x >= Width THEN [x |-> 0, y |-> Byte(p.y + 1)] ELSE p

Cleared(p) == IF p.y >= Height THEN [x |-> 0, y |-> 0] ELSE p

AfterOne(p) == Cleared(Wrapped([x |-> Byte(p.x + 1), y |-> p.y]))

\* The first character brings the cursor back to the screen; there it advances
\* cell by cell, and from the last one to the first.
After(p, n) ==
  LET q == AfterOne(p)
      c == (Width * q.y + q.x + n - 1) % (Width * Height)
  IN  [x |-> c % Width, y |-> c \div Width]

AfterNewLine(p) == Cleared([x |-> 0, y |-> Byte(p.y + 1)])

Cursor == [x |-> x, y |-> y]

MoveCursor(p) ==
  /\ x' = p.x /\ y' = p.y
  /\ UNCHANGED <<stage, held>>

\* sysprintf: print is a system call, which no interrupt divides.
SysPrintf(t) ==
  /\ At(t, "begin")
  /\ MoveCursor(After(Cursor, 1)) \/ MoveCursor(AfterNewLine(Cursor))

\* PrintfKeyboardEventHandler::OnKeyDown, for a character and for '\n', and the
\* driver's "KEYBOARD 0x" with two digits for a key it does not know.
UnknownKey == 13

PrintKey == MoveCursor(After(Cursor, 1))

PrintEnter == MoveCursor(AfterNewLine(Cursor))

PrintUnknownKey == MoveCursor(After(Cursor, UnknownKey))

\* "Hello kernel!\n" has been printed.
ConsoleInit ==
  /\ x = 0 /\ y = 1
  /\ stage = [t \in Printers |-> "begin"]
  /\ held = [t \in Printers |-> Nothing]

ConsoleNext ==
  \/ \E t \in Printers : Printf(t) \/ SysPrintf(t)
  \/ PrintKey \/ PrintEnter \/ PrintUnknownKey

ConsoleSpec == ConsoleInit /\ [][ConsoleNext]_consoleVars

-----------------------------------------------------------------------------
(***************************************************************************)
(* The cursor is outside the screen only while some task has still to      *)
(* notice it, or is in the middle of bringing it back, however the tasks   *)
(* interleave between the load and the store of an increment: no task      *)
(* passes its test and leaves the cursor beyond the end for good           *)
(* (kernel.cpp:31-51).                                                     *)
(***************************************************************************)
ResetX == {"wrap", "zero", "restart", "rows", "first", "columns", "blank",
           "under", "home"}

ResetY == ResetX \cup {"next", "clear", "top"}

CursorComesBack ==
  /\ x >= Width  => \E t \in Printers : stage[t] \in ResetX
  /\ y >= Height => \E t \in Printers : stage[t] \in ResetY
=============================================================================
