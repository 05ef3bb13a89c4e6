-------------------------- MODULE InputDevicesProofs --------------------------
(***************************************************************************)
(* The invariants of Console and of InputDevices, for any screen and any   *)
(* number of printing tasks, any set of lines, any desktop and number of   *)
(* windows, and any bytes.                                                 *)
(*                                                                         *)
(* First the console, then what the operators of Desktop preserve, whoever *)
(* calls them, and then the devices, the drivers and the interrupts.       *)
(***************************************************************************)
EXTENDS InputDevices, Console, WellFoundedInduction, TLAPS

-----------------------------------------------------------------------------
(***************************************************************************)
(* The console: a task that stores a coordinate outside the screen is at   *)
(* the test for it, and a task at the test or beyond it does not leave     *)
(* before it has put the coordinate back.                                  *)
(***************************************************************************)
ConsoleTyped ==
  /\ x \in Nat /\ y \in Nat
  /\ stage \in [Printers -> Stages]
  /\ held \in [Printers -> Nat \cup {Nothing}]

LEMMA ByteTyped ==
  ASSUME NEW v \in Nat
  PROVE  Byte(v) \in Nat
  BY ConsoleAssumption DEF ConsoleAssumption, Byte

LEMMA FollowingTyped ==
  ASSUME NEW s \in DOMAIN Following
  PROVE  Following[s] \in Stages
  BY DEF Following, Stages

\* printf without interruption leaves the cursor on the screen.
OnScreen(p) == p.x \in Nat /\ p.y \in Nat /\ p.x < Width /\ p.y < Height

LEMMA ScreenCells ==
  ASSUME NEW v \in Int
  PROVE  LET n == v % (Width * Height)
         IN  n % Width \in 0 .. Width - 1 /\ n \div Width \in 0 .. Height - 1
<1> DEFINE n == v % (Width * Height)
           r == n % Width
           d == n \div Width
<1>1. Width \in Nat \ {0} /\ Height \in Nat \ {0}
  BY ConsoleAssumption DEF ConsoleAssumption
<1>2. Width * Height \in Nat \ {0}
  BY <1>1
<1>3. n \in Nat /\ n < Width * Height
  BY <1>2
<1> HIDE DEF n
<1>4. r \in 0 .. Width - 1 /\ d \in Nat /\ n = Width * d + r
  BY <1>1, <1>3
<1> HIDE DEF r, d
<1>5. d < Height
  <2>1. SUFFICES ASSUME d >= Height PROVE FALSE
    BY <1>1, <1>4
  <2>2. Width * d >= Width * Height
    BY <1>1, <1>4, <2>1
  <2>3. QED
    BY <1>1, <1>3, <1>4, <2>2
<1>6. QED
  BY <1>1, <1>4, <1>5 DEF n, r, d

LEMMA AfterOnScreen ==
  ASSUME NEW p \in [x : Nat, y : Nat], NEW n \in Nat
  PROVE  OnScreen(After(p, n)) /\ OnScreen(AfterNewLine(p))
<1>1. Width \in Nat \ {0} /\ Height \in Nat \ {0}
  BY ConsoleAssumption DEF ConsoleAssumption
<1>2. Byte(p.x + 1) \in Nat /\ Byte(p.y + 1) \in Nat
  BY ByteTyped
<1>3. AfterOne(p).x \in Nat /\ AfterOne(p).y \in Nat
  <2>1. ASSUME NEW q \in [x : Nat, y : Nat]
        PROVE  Cleared(q) \in [x : Nat, y : Nat] /\ Wrapped(q) \in [x : Nat, y : Nat]
    BY <2>1, ByteTyped DEF Cleared, Wrapped
  <2>2. [x |-> Byte(p.x + 1), y |-> p.y] \in [x : Nat, y : Nat]
    BY <1>2
  <2>3. QED
    BY <2>1, <2>2 DEF AfterOne
<1>4. Width * AfterOne(p).y + AfterOne(p).x + n - 1 \in Int
  BY <1>1, <1>3
<1>5. OnScreen(After(p, n))
  BY <1>1, <1>4, ScreenCells DEF After, OnScreen
<1>6. OnScreen(AfterNewLine(p))
  BY <1>1, <1>2 DEF AfterNewLine, Cleared, OnScreen
<1>7. QED
  BY <1>5, <1>6

-----------------------------------------------------------------------------
\* Where a step of a task leads, and what it does to the cursor.
LEMMA PrintfTyped ==
  ASSUME ConsoleTyped, NEW t \in Printers, Printf(t)
  PROVE  ConsoleTyped'
<1>1. Byte(x + 1) \in Nat /\ Byte(y + 1) \in Nat
  BY ByteTyped DEF ConsoleTyped
<1>2. CASE Visible(t) \/ NewLine(t) \/ Wrap(t) \/ Clear(t) \/ Rows(t) \/ Columns(t)
  <2>1. {"step", "down", "zero", "clear", "restart", "begin", "first", "home", "blank", "under"}
          \subseteq Stages
    BY DEF Stages, Following
  <2>2. PICK s \in Stages : Goto(t, s)
    BY <1>2, <2>1 DEF Visible, NewLine, Wrap, Clear, Rows, Columns
  <2>3. stage' \in [Printers -> Stages]
    BY <2>2 DEF ConsoleTyped, Goto
  <2>4. (x' = x \/ x' = 0) /\ y' = y /\ held' = held
    BY <1>2 DEF Visible, NewLine, Wrap, Clear, Rows, Columns
  <2>5. QED
    BY <2>3, <2>4 DEF ConsoleTyped
<1>3. CASE LoadX(t) \/ LoadY(t)
  BY <1>1, <1>3 DEF LoadX, LoadY, Load, ConsoleTyped
<1>4. CASE StoreX(t) \/ StoreY(t) \/ ZeroX(t) \/ ZeroY(t)
  <2>1. Proceed(t) /\ stage[t] \in DOMAIN Following
    BY <1>4 DEF StoreX, StoreY, ZeroX, ZeroY, Following
  <2>2. stage' \in [Printers -> Stages]
    BY <2>1, FollowingTyped DEF ConsoleTyped, Proceed, Goto
  <2>3. held' \in [Printers -> Nat \cup {Nothing}] /\ x' \in Nat /\ y' \in Nat
    BY <1>4 DEF StoreX, StoreY, ZeroX, ZeroY, ConsoleTyped
  <2>4. QED
    BY <2>2, <2>3 DEF ConsoleTyped
<1>5. QED
  BY <1>2, <1>3, <1>4 DEF Printf

\* A task's own stage after a step that leaves the cursor outside the screen.
LEMMA PrintfComesBack ==
  ASSUME ConsoleTyped, CursorComesBack, NEW t \in Printers, Printf(t)
  PROVE  CursorComesBack'
<1>0. /\ x \in Nat /\ y \in Nat /\ Width \in Nat \ {0} /\ Height \in Nat \ {0}
      /\ stage \in [Printers -> Stages]
  BY ConsoleAssumption DEF ConsoleTyped, ConsoleAssumption
<1>1. \A u \in Printers \ {t} : stage'[u] = stage[u]
  BY <1>0 DEF Printf, Visible, NewLine, LoadX, LoadY, Load, StoreX, StoreY, ZeroX, ZeroY, Wrap,
              Clear, Rows, Columns, Proceed, Goto
<1>2. /\ x' >= Width  => stage'[t] \in ResetX \/ (x >= Width /\ stage[t] \notin ResetX)
      /\ y' >= Height => stage'[t] \in ResetY \/ (y >= Height /\ stage[t] \notin ResetY)
  <2>1. CASE Visible(t) \/ NewLine(t)
    BY <1>0, <2>1 DEF Visible, NewLine, At, Goto, ResetX, ResetY
  <2>2. CASE LoadX(t) \/ LoadY(t)
    BY <2>2 DEF LoadX, LoadY, Load
  <2>3. CASE StoreX(t)
    BY <1>0, <2>3 DEF StoreX, Proceed, Goto, Following, ResetX, ResetY
  <2>4. CASE StoreY(t)
    BY <1>0, <2>4 DEF StoreY, Proceed, Goto, Following, ResetX, ResetY
  <2>5. CASE ZeroX(t)
    BY <1>0, <2>5 DEF ZeroX, Proceed, Goto, Following, ResetX, ResetY
  <2>6. CASE ZeroY(t)
    BY <1>0, <2>6 DEF ZeroY, Proceed, Goto, Following, ResetX, ResetY
  <2>7. CASE Wrap(t)
    BY <1>0, <2>7 DEF Wrap, At, Goto, ResetX, ResetY
  <2>8. CASE Clear(t)
    BY <1>0, <2>8 DEF Clear, At, Goto, ResetX, ResetY
  <2>9. CASE Rows(t)
    BY <1>0, <2>9 DEF Rows, At, Goto, ResetX, ResetY
  <2>10. CASE Columns(t)
    BY <1>0, <2>10 DEF Columns, At, Goto, ResetX, ResetY
  <2>11. QED
    BY <2>1, <2>2, <2>3, <2>4, <2>5, <2>6, <2>7, <2>8, <2>9, <2>10 DEF Printf
<1>3. x' >= Width => \E u \in Printers : stage'[u] \in ResetX
  BY <1>1, <1>2 DEF CursorComesBack
<1>4. y' >= Height => \E u \in Printers : stage'[u] \in ResetY
  BY <1>1, <1>2 DEF CursorComesBack
<1>5. QED
  BY <1>3, <1>4 DEF CursorComesBack

\* A call that nothing interrupts leaves the cursor on the screen.
LEMMA UninterruptedOnScreen ==
  ASSUME ConsoleTyped, NEW n \in Nat,
         MoveCursor(After(Cursor, n)) \/ MoveCursor(AfterNewLine(Cursor))
  PROVE  ConsoleTyped' /\ CursorComesBack'
<1>1. Cursor \in [x : Nat, y : Nat]
  BY DEF Cursor, ConsoleTyped
<1>2. /\ x' \in Nat /\ y' \in Nat /\ x' < Width /\ y' < Height
      /\ UNCHANGED <<stage, held>>
  BY <1>1, AfterOnScreen DEF MoveCursor, OnScreen
<1>3. Width \in Nat /\ Height \in Nat
  BY ConsoleAssumption DEF ConsoleAssumption
<1>4. QED
  BY <1>2, <1>3 DEF ConsoleTyped, CursorComesBack

ConsoleInv == ConsoleTyped /\ CursorComesBack

LEMMA ConsoleInitially == ConsoleInit => ConsoleInv
<1> SUFFICES ASSUME ConsoleInit PROVE ConsoleInv
  OBVIOUS
<1>1. Width > 0 /\ Height > 1 /\ Width \in Nat /\ Height \in Nat
  BY ConsoleAssumption DEF ConsoleAssumption
<1>2. "begin" \in Stages
  BY DEF Stages
<1>3. QED
  BY <1>1, <1>2 DEF ConsoleInit, ConsoleInv, ConsoleTyped, CursorComesBack

LEMMA ConsoleStep == ConsoleInv /\ [ConsoleNext]_consoleVars => ConsoleInv'
<1>1. ASSUME ConsoleInv, NEW t \in Printers, Printf(t) PROVE ConsoleInv'
  BY <1>1, PrintfTyped, PrintfComesBack DEF ConsoleInv
<1>2. ASSUME ConsoleInv, NEW t \in Printers, SysPrintf(t) PROVE ConsoleInv'
  BY <1>2, UninterruptedOnScreen DEF ConsoleInv, SysPrintf
<1>3. ASSUME ConsoleInv, PrintKey \/ PrintEnter \/ PrintUnknownKey PROVE ConsoleInv'
  BY <1>3, UninterruptedOnScreen
     DEF ConsoleInv, PrintKey, PrintEnter, PrintUnknownKey, UnknownKey
<1>4. ASSUME ConsoleInv, UNCHANGED consoleVars PROVE ConsoleInv'
  BY <1>4 DEF consoleVars, ConsoleInv, ConsoleTyped, CursorComesBack
<1>5. QED
  BY <1>1, <1>2, <1>3, <1>4 DEF ConsoleNext

(***************************************************************************)
(* Wherever tasks are interrupted in printf, a cursor outside the screen   *)
(* is being brought back by one of them (kernel.cpp:31-51).                *)
(***************************************************************************)
THEOREM CursorReturns == ConsoleSpec => []CursorComesBack
<1>1. ConsoleInv => CursorComesBack
  BY DEF ConsoleInv
<1>2. QED
  BY <1>1, ConsoleInitially, ConsoleStep, PTL DEF ConsoleSpec

-----------------------------------------------------------------------------

Windows == Children \cup {None}

\* The states of the window system.
Guis ==
  [mouseX : Int, mouseY : Int,
   frame : [Children -> Areas], dragging : [Children -> BOOLEAN],
   focussed : Windows, inner : [Children -> Windows], clicked : Windows]

LEMMA NewDesktopTyped == NewDesktop \in Guis
  BY DesktopAssumption DEF DesktopAssumption, NewDesktop, Guis, Windows, None

\* The first child that contains a point is a child that contains it, and any
\* other that does comes after it.
LEMMA ChildAtIsFirst ==
  ASSUME NEW g \in Guis, NEW a \in Int, NEW b \in Int
  PROVE  /\ ChildAt(g, a, b) \in Windows
         /\ ChildAt(g, a, b) # None =>
              ContainsCoordinate(g.frame[ChildAt(g, a, b)], a, b)
         /\ \A w \in Children : ContainsCoordinate(g.frame[w], a, b) =>
              ChildAt(g, a, b) # None /\ ChildAt(g, a, b) <= w
<1> DEFINE there == {w \in Children : ContainsCoordinate(g.frame[w], a, b)}
<1>1. there \subseteq Children /\ Children \subseteq Nat \ {0}
  BY DEF Children
<1>2. CASE there = {}
  BY <1>2 DEF ChildAt, Windows
<1>3. CASE there # {}
  <2>1. \E n \in there : \A m \in there : n <= m
    <3>1. PICK n \in there : \A m \in there : ~ (<<m, n>> \in OpToRel(<, Nat))
      BY <1>1, <1>3, NatLessThanWellFounded, WFMin
    <3>2. \A m \in there : ~ (m < n)
      BY <1>1, <3>1 DEF OpToRel
    <3> HIDE DEF there
    <3>3. QED
      BY <1>1, <3>2
  <2>2. Min(there) \in there /\ \A m \in there : Min(there) <= m
    BY <2>1 DEF Min
  <2>3. ChildAt(g, a, b) = Min(there)
    BY <1>3 DEF ChildAt
  <2>4. QED
    BY <1>1, <2>2, <2>3 DEF Windows, None
<1>4. QED
  BY <1>2, <1>3
-----------------------------------------------------------------------------
(***************************************************************************)
(* Events keep the window system well formed.                              *)
(***************************************************************************)
LEMMA PressWindowTyped ==
  ASSUME NEW g \in Guis, NEW w \in Children, NEW a \in Int, NEW b \in Int, NEW button
  PROVE  PressWindow(g, w, a, b, button) \in Guis
  BY DEF PressWindow, PressControl, GetFocus, Guis, Windows

LEMMA ButtonsTyped ==
  ASSUME NEW g \in Guis, NEW button
  PROVE  OnMouseDown(g, button) \in Guis /\ OnMouseUp(g, button) \in Guis
<1>1. g.mouseX \in Int /\ g.mouseY \in Int
  BY DEF Guis
<1> DEFINE w == ChildAt(g, g.mouseX, g.mouseY)
<1>2. w \in Windows
  BY <1>1, ChildAtIsFirst
<1>3. OnMouseDown(g, button) \in Guis
  BY <1>1, <1>2, PressWindowTyped DEF OnMouseDown, Windows
<1>4. OnMouseUp(g, button) \in Guis
  <2>1. [g EXCEPT !.dragging[w] = FALSE] \in Guis
    BY DEF Guis
  <2>2. QED
    BY <2>1 DEF OnMouseUp
<1>5. QED
  BY <1>3, <1>4

LEMMA MoveWindowTyped ==
  ASSUME NEW g \in Guis, NEW w \in Windows, NEW da \in Int, NEW db \in Int
  PROVE  MoveWindow(g, w, da, db) \in Guis
<1>1. CASE w # None /\ g.dragging[w]
  <2>1. w \in Children /\ g.frame[w] \in Areas
    BY <1>1 DEF Windows, Guis
  <2>2. Moved(g.frame[w], da, db) \in Areas
    BY <2>1 DEF Areas, Moved
  <2>3. QED
    BY <1>1, <2>1, <2>2 DEF MoveWindow, Guis
<1>2. CASE ~ (w # None /\ g.dragging[w])
  BY <1>2 DEF MoveWindow
<1>3. QED
  BY <1>1, <1>2

(***************************************************************************)
(* The position of the mouse after a movement, and what it moves.          *)
(***************************************************************************)
LEMMA WithinTyped ==
  ASSUME NEW v \in Int, NEW limit \in Nat \ {0}
  PROVE  Within(v, limit) \in Int
  BY DEF Within

LEMMA QuarterTyped ==
  ASSUME NEW v \in Int
  PROVE  Quarter(v) \in Int
  BY DEF Quarter

\* The parts of the state that moving a window does not touch.
Rest(g) == <<g.dragging, g.focussed, g.inner, g.clicked>>

LEMMA MoveWindowRest ==
  ASSUME NEW g \in Guis, NEW w, NEW da, NEW db
  PROVE  Rest(MoveWindow(g, w, da, db)) = Rest(g)
  BY DEF MoveWindow, Guis, Rest

LEMMA NotifyTyped ==
  ASSUME NEW g \in Guis, NEW a \in Int, NEW b \in Int
  PROVE  /\ Notify(g, a, b) \in Guis
         /\ Rest(Notify(g, a, b)) = Rest(g)
<1> DEFINE da == a - g.mouseX
           db == b - g.mouseY
           first  == ChildAt(g, g.mouseX, g.mouseY)
           moved  == MoveWindow(g, first, da, db)
           second == ChildAt(moved, a, b)
<1>1. g.mouseX \in Int /\ g.mouseY \in Int
  BY DEF Guis
<1>2. da \in Int /\ db \in Int
  BY <1>1
<1> HIDE DEF da, db
<1>3. first \in Windows
  BY <1>1, ChildAtIsFirst
<1>4. moved \in Guis
  BY <1>2, <1>3, MoveWindowTyped
<1>5. second \in Windows
  BY <1>4, ChildAtIsFirst
<1> HIDE DEF first, moved, second
<1>6. Notify(g, a, b) = moved
        \/ Notify(g, a, b) = MoveWindow(moved, second, da, db)
  BY DEF Notify, first, moved, second, da, db
<1>7. Rest(moved) = Rest(g)
  BY MoveWindowRest DEF moved
<1>8. QED
  BY <1>2, <1>4, <1>5, <1>6, <1>7, MoveWindowTyped, MoveWindowRest

\* What a movement of the mouse leaves alone.
LEMMA OnMouseMoveTyped ==
  ASSUME NEW g \in Guis, NEW dx \in Int, NEW dy \in Int
  PROVE  /\ OnMouseMove(g, dx, dy) \in Guis
         /\ Rest(OnMouseMove(g, dx, dy)) = Rest(g)
<1> DEFINE a == Within(g.mouseX + Quarter(dx), DesktopWidth)
           b == Within(g.mouseY + Quarter(dy), DesktopHeight)
<1>1. a \in Int /\ b \in Int
  <2>1. g.mouseX \in Int /\ g.mouseY \in Int
    BY DEF Guis
  <2>2. Quarter(dx) \in Int /\ Quarter(dy) \in Int
    BY QuarterTyped
  <2>3. g.mouseX + Quarter(dx) \in Int /\ g.mouseY + Quarter(dy) \in Int
    BY <2>1, <2>2
  <2>4. QED
    BY <2>3, WithinTyped, DesktopAssumption DEF DesktopAssumption
<1> HIDE DEF a, b
<1>2. Notify(g, a, b) \in Guis
  BY <1>1, NotifyTyped
<1>3. OnMouseMove(g, dx, dy) = [Notify(g, a, b) EXCEPT !.mouseX = a, !.mouseY = b]
  BY DEF OnMouseMove, a, b
<1>4. OnMouseMove(g, dx, dy) \in Guis
  BY <1>1, <1>2, <1>3 DEF Guis
<1>5. Rest(OnMouseMove(g, dx, dy)) = Rest(Notify(g, a, b))
  BY <1>2, <1>3 DEF Guis, Rest
<1>6. QED
  BY <1>1, <1>4, <1>5, NotifyTyped
-----------------------------------------------------------------------------
(***************************************************************************)
(* The front window while it is dragged.                                   *)
(***************************************************************************)
LEMMA MovedContains ==
  ASSUME NEW f \in Areas, NEW a \in Int, NEW b \in Int, NEW da \in Int, NEW db \in Int,
         ContainsCoordinate(f, a, b)
  PROVE  ContainsCoordinate(Moved(f, da, db), a + da, b + db)
  BY DEF ContainsCoordinate, Moved, Areas

\* The front window is first wherever it is.
LEMMA FrontIsFirst ==
  ASSUME NEW g \in Guis, NEW a \in Int, NEW b \in Int, 1 \in Children,
         ContainsCoordinate(g.frame[1], a, b)
  PROVE  ChildAt(g, a, b) = 1
<1>1. ChildAt(g, a, b) \in Windows /\ ChildAt(g, a, b) # None /\ ChildAt(g, a, b) <= 1
  BY ChildAtIsFirst
<1>2. QED
  BY <1>1, DesktopAssumption DEF DesktopAssumption, Windows, Children, None

\* Dragged to (a, b), the front window has (a, b) in it and nothing else moves it.
LEMMA NotifyFront ==
  ASSUME NEW g \in Guis, NEW a \in Int, NEW b \in Int, 1 \in Children, g.dragging[1],
         ContainsCoordinate(g.frame[1], g.mouseX, g.mouseY)
  PROVE  ContainsCoordinate(Notify(g, a, b).frame[1], a, b)
<1> DEFINE da == a - g.mouseX
           db == b - g.mouseY
           moved == MoveWindow(g, 1, da, db)
<1>1. g.mouseX \in Int /\ g.mouseY \in Int /\ g.frame[1] \in Areas
  BY DEF Guis
<1>2. /\ da \in Int /\ db \in Int
      /\ g.mouseX + da = a /\ g.mouseY + db = b
  BY <1>1
<1> HIDE DEF da, db
<1>3. moved \in Guis
  BY <1>2, MoveWindowTyped DEF Windows
<1>4. moved.frame[1] = Moved(g.frame[1], da, db)
  <2>1. 1 # None
    BY DEF None
  <2>2. QED
    BY <2>1 DEF MoveWindow, Guis
<1> HIDE DEF moved
<1>5. ContainsCoordinate(moved.frame[1], a, b)
  BY <1>1, <1>2, <1>4, MovedContains
<1>6. ChildAt(g, g.mouseX, g.mouseY) = 1
  BY <1>1, FrontIsFirst
<1>7. ChildAt(moved, a, b) = 1
  BY <1>3, <1>5, FrontIsFirst
<1>8. Notify(g, a, b) = moved
  BY <1>6, <1>7 DEF Notify, moved, da, db
<1>9. QED
  BY <1>5, <1>8

LEMMA OnMouseMoveFront ==
  ASSUME NEW g \in Guis, NEW dx \in Int, NEW dy \in Int, NEW down \in BOOLEAN,
         FrontDragged(g, down)
  PROVE  FrontDragged(OnMouseMove(g, dx, dy), down)
<1> DEFINE a == Within(g.mouseX + Quarter(dx), DesktopWidth)
           b == Within(g.mouseY + Quarter(dy), DesktopHeight)
<1>1. a \in Int /\ b \in Int
  <2>1. g.mouseX \in Int /\ g.mouseY \in Int
    BY DEF Guis
  <2>2. Quarter(dx) \in Int /\ Quarter(dy) \in Int
    BY QuarterTyped
  <2>3. g.mouseX + Quarter(dx) \in Int /\ g.mouseY + Quarter(dy) \in Int
    BY <2>1, <2>2
  <2>4. QED
    BY <2>3, WithinTyped, DesktopAssumption DEF DesktopAssumption
<1>2. OnMouseMove(g, dx, dy) = [Notify(g, a, b) EXCEPT !.mouseX = a, !.mouseY = b]
  BY DEF OnMouseMove
<1> HIDE DEF a, b
<1>3. Notify(g, a, b) \in Guis /\ Rest(Notify(g, a, b)) = Rest(g)
  BY <1>1, NotifyTyped
<1>4. /\ OnMouseMove(g, dx, dy).frame = Notify(g, a, b).frame
      /\ OnMouseMove(g, dx, dy).mouseX = a /\ OnMouseMove(g, dx, dy).mouseY = b
      /\ OnMouseMove(g, dx, dy).dragging = g.dragging
  BY <1>2, <1>3 DEF Guis, Rest
<1>5. CASE NumChildren > 0 /\ g.dragging[1]
  <2>1. down /\ ContainsCoordinate(g.frame[1], g.mouseX, g.mouseY)
    BY <1>5 DEF FrontDragged
  <2>2. 1 \in Children
    BY <1>5, DesktopAssumption DEF DesktopAssumption, Children
  <2>3. ContainsCoordinate(Notify(g, a, b).frame[1], a, b)
    BY <1>1, <1>5, <2>1, <2>2, NotifyFront
  <2>4. QED
    BY <1>4, <2>1, <2>3 DEF FrontDragged
<1>6. CASE ~ (NumChildren > 0 /\ g.dragging[1])
  BY <1>4, <1>6 DEF FrontDragged
<1>7. QED
  BY <1>5, <1>6

(***************************************************************************)
(* A button pressed or released.  Only a release, or a press of another    *)
(* button, ends the dragging of the front window, but each of them does.   *)
(***************************************************************************)
LEMMA PressWindowFields ==
  ASSUME NEW g \in Guis, NEW w \in Children, NEW a, NEW b, NEW button
  PROVE  /\ PressWindow(g, w, a, b, button).mouseX = g.mouseX
         /\ PressWindow(g, w, a, b, button).mouseY = g.mouseY
         /\ PressWindow(g, w, a, b, button).frame = g.frame
         /\ PressWindow(g, w, a, b, button).dragging
              = [g.dragging EXCEPT ![w] = (button = 1)]
  BY DEF PressWindow, PressControl, GetFocus, Guis

LEMMA OnMouseDownFront ==
  ASSUME NEW g \in Guis, NEW button, NEW down \in BOOLEAN,
         button = 1 => down,
         FrontDragged(g, down)
  PROVE  FrontDragged(OnMouseDown(g, button), down)
<1> DEFINE w == ChildAt(g, g.mouseX, g.mouseY)
           h == OnMouseDown(g, button)
<1>1. g.mouseX \in Int /\ g.mouseY \in Int
  BY DEF Guis
<1>2. w \in Windows /\ (w # None => ContainsCoordinate(g.frame[w], g.mouseX, g.mouseY))
  BY <1>1, ChildAtIsFirst
<1>3. CASE w = None
  BY <1>3 DEF OnMouseDown
<1>4. CASE w # None
  <2>1. w \in Children
    BY <1>2, <1>4 DEF Windows
  <2>2. h = PressWindow(g, w, g.mouseX, g.mouseY, button)
    BY <1>4 DEF OnMouseDown
  <2>3. /\ h.mouseX = g.mouseX /\ h.mouseY = g.mouseY /\ h.frame = g.frame
        /\ h.dragging = [g.dragging EXCEPT ![w] = (button = 1)]
    BY <2>1, <2>2, PressWindowFields
  <2> HIDE DEF w, h
  <2>4. g.dragging \in [Children -> BOOLEAN]
    BY DEF Guis
  <2>5. CASE w = 1
    <3>1. h.dragging[1] = (button = 1)
      BY <2>1, <2>3, <2>4, <2>5
    <3>2. QED
      BY <1>2, <1>4, <2>3, <2>5, <3>1 DEF FrontDragged, h
  <2>6. CASE w # 1
    <3>1. h.dragging[1] = g.dragging[1]
      BY <2>1, <2>3, <2>4, <2>6
    <3>2. QED
      BY <2>3, <3>1 DEF FrontDragged, h
  <2>7. QED
    BY <2>5, <2>6
<1>5. QED
  BY <1>3, <1>4

LEMMA OnMouseUpFront ==
  ASSUME NEW g \in Guis, NEW button, NEW down \in BOOLEAN, FrontDragged(g, down)
  PROVE  FrontDragged(OnMouseUp(g, button), FALSE)
<1> DEFINE w == ChildAt(g, g.mouseX, g.mouseY)
           h == OnMouseUp(g, button)
<1>1. g.mouseX \in Int /\ g.mouseY \in Int /\ g.dragging \in [Children -> BOOLEAN]
  BY DEF Guis
<1>2. SUFFICES ASSUME NumChildren > 0, h.dragging[1]
               PROVE  FALSE
  BY DEF FrontDragged
<1>3. 1 \in Children
  BY <1>2, DesktopAssumption DEF DesktopAssumption, Children
<1>4. g.dragging[1]
  BY <1>1, <1>2, <1>3 DEF OnMouseUp, Guis
<1>5. ContainsCoordinate(g.frame[1], g.mouseX, g.mouseY)
  BY <1>2, <1>4 DEF FrontDragged
<1>6. w = 1
  BY <1>1, <1>3, <1>5, FrontIsFirst
<1>7. 1 # None
  BY DEF None
<1>8. h = [g EXCEPT !.dragging[1] = FALSE]
  BY <1>6, <1>7 DEF OnMouseUp
<1>9. ~ h.dragging[1]
  BY <1>1, <1>3, <1>8 DEF Guis
<1>10. QED
  BY <1>2, <1>9
-----------------------------------------------------------------------------
(***************************************************************************)
(* Why keys reach the widget pressed last: the Desktop's focus is that     *)
(* widget's window, and the window's focus is the widget.                  *)
(***************************************************************************)
FocusAgrees(g) ==
  /\ g.focussed = g.clicked
  /\ g.clicked # None => g.inner[g.clicked] = g.clicked

LEMMA FocusReachesClicked ==
  ASSUME NEW g \in Guis, FocusAgrees(g)
  PROVE  KeysToClicked(g)
  BY DEF FocusAgrees, KeysToClicked, KeyReceiver

LEMMA NewDesktopFocus == FocusAgrees(NewDesktop)
  BY DEF FocusAgrees, NewDesktop

LEMMA PressWindowFocus ==
  ASSUME NEW g \in Guis, NEW w \in Children, NEW a, NEW b, NEW button, FocusAgrees(g)
  PROVE  FocusAgrees(PressWindow(g, w, a, b, button))
<1> DEFINE f == g.frame[w]
           h == [g EXCEPT !.dragging[w] = (button = 1)]
<1>1. h \in Guis /\ FocusAgrees(h)
  BY DEF Guis, FocusAgrees
<1> HIDE DEF h
<1>2. FocusAgrees(PressControl(h, w))
  <2>1. /\ PressControl(h, w).focussed = w /\ PressControl(h, w).clicked = w
        /\ PressControl(h, w).inner = [h.inner EXCEPT ![w] = w]
    BY <1>1 DEF PressControl, GetFocus, Guis
  <2>2. h.inner \in [Children -> Windows]
    BY <1>1 DEF Guis
  <2>3. PressControl(h, w).inner[w] = w
    BY <2>1, <2>2
  <2>4. QED
    BY <2>1, <2>3 DEF FocusAgrees
<1>3. PressWindow(g, w, a, b, button) \in {h, PressControl(h, w)}
  BY DEF PressWindow, h
<1>4. QED
  BY <1>1, <1>2, <1>3

LEMMA ButtonsFocus ==
  ASSUME NEW g \in Guis, NEW button, FocusAgrees(g)
  PROVE  FocusAgrees(OnMouseDown(g, button)) /\ FocusAgrees(OnMouseUp(g, button))
<1>1. g.mouseX \in Int /\ g.mouseY \in Int
  BY DEF Guis
<1>2. ChildAt(g, g.mouseX, g.mouseY) \in Windows
  BY <1>1, ChildAtIsFirst
<1>3. FocusAgrees(OnMouseDown(g, button))
  BY <1>2, PressWindowFocus DEF OnMouseDown, Windows
<1>4. FocusAgrees(OnMouseUp(g, button))
  BY DEF OnMouseUp, FocusAgrees, Guis
<1>5. QED
  BY <1>3, <1>4

LEMMA OnMouseMoveFocus ==
  ASSUME NEW g \in Guis, NEW dx \in Int, NEW dy \in Int, FocusAgrees(g)
  PROVE  FocusAgrees(OnMouseMove(g, dx, dy))
  BY OnMouseMoveTyped DEF Rest, FocusAgrees

-----------------------------------------------------------------------------
(***************************************************************************)
(* The devices, the drivers and the interrupts.                            *)
(***************************************************************************)
Bytes == 0 .. 255
Devices == {"keyboard", "mouse"}
Buffers == [full : BOOLEAN, from : {"none"} \cup Devices, byte : Bytes]

DevicesTyped ==
  /\ requests \subseteq Lines
  /\ handlers \in [Lines -> {NoHandler} \cup Devices]
  /\ active \in BOOLEAN
  /\ boot \in {"constructed", "drained", "keyboard", "told", "on"}
  /\ out \in Buffers
  /\ out.full => out.from \in Devices
  /\ answers \subseteq Devices
  /\ rest \in 0 .. 2
  /\ packet \in Seq(Bytes) /\ Len(packet) \in 0 .. 2
  /\ buttons \in Bytes

\* Each handler is called for its own line, and for it whenever interrupts come.
Registered ==
  /\ active => boot = "on"
  /\ boot # "constructed" =>
       handlers[KeyboardLine] = "keyboard" /\ handlers[MouseLine] = "mouse"
  /\ \A i \in Lines : /\ handlers[i] = "keyboard" => i = KeyboardLine
                      /\ handlers[i] = "mouse" => i = MouseLine

DesktopInv ==
  /\ gui \in Guis
  /\ FrontDragsWhileHeld
  /\ FocusAgrees(gui)
  /\ ~active => gui = NewDesktop

InputInv == DevicesTyped /\ Registered /\ WaitingByteAnnounced /\ DesktopInv

-----------------------------------------------------------------------------
(***************************************************************************)
(* What the handlers do to the devices' part of the state.                 *)
(***************************************************************************)
LEMMA LinesTyped ==
  /\ {0, 1, 12} \subseteq Lines
  /\ Lines \subseteq (0 .. 15) \ {2}
  /\ Timer = 0 /\ KeyboardLine = 1 /\ MouseLine = 12
  BY LinesAssumption, DevicesAssumption
     DEF LinesAssumption, DevicesAssumption, Timer, KeyboardLine, MouseLine

LEMMA NothingStaysInService ==
  ASSUME NEW i \in Lines
  PROVE  Acknowledge(i, {} \cup {i, Input(i)}) = {}
<1>1. ASSUME NEW n \in Int PROVE EndOfInterrupt({n}) = {n}
  BY <1>1 DEF EndOfInterrupt, Min
<1>2. i \in (0 .. 15) \ {2}
  BY LinesTyped
<1>3. CASE i \in MasterLines
  <2>1. i \notin SlaveLines /\ Input(i) = i
    BY <1>3 DEF MasterLines, SlaveLines, Input
  <2>2. {i, Input(i)} \cap MasterLines = {i}
    BY <1>3, <2>1
  <2>3. EndOfInterrupt({i}) = {i}
    BY <1>1, <1>2
  <2>4. QED
    BY <2>1, <2>2, <2>3 DEF Acknowledge
<1>4. CASE i \in SlaveLines
  <2>1. i \notin MasterLines /\ Input(i) = 2 /\ 2 \in MasterLines /\ 2 \notin SlaveLines
    BY <1>4 DEF MasterLines, SlaveLines, Input
  <2>2. {i, Input(i)} \cap MasterLines = {2} /\ {i, Input(i)} \cap SlaveLines = {i}
    BY <1>4, <2>1
  <2>3. EndOfInterrupt({i}) = {i} /\ EndOfInterrupt({2}) = {2}
    BY <1>1, <1>2
  <2>4. QED
    BY <1>4, <2>1, <2>2, <2>3 DEF Acknowledge
<1>5. QED
  BY <1>2, <1>3, <1>4 DEF MasterLines, SlaveLines

\* An interrupt is the keyboard's, the mouse's, or one without a handler.
LEMMA InterruptCases ==
  ASSUME InputInv, NEW i \in Lines, Interrupt(i)
  PROVE  /\ boot = "on" /\ active
         /\ requests' = requests \ {i} /\ i \in requests /\ inService' = {}
         /\ UNCHANGED <<handlers, active, command, answers, rest, boot>>
         /\ \/ i = KeyboardLine /\ HandleKeyboard
            \/ i = MouseLine /\ HandleMouse
            \/ /\ i # KeyboardLine /\ i # MouseLine
               /\ UNCHANGED <<out, packet, buttons, gui>>
<1>1. active /\ boot = "on"
  BY DEF Interrupt, DoHandleInterrupt, InputInv, Registered
<1>2. requests' = requests \ {i} /\ i \in requests /\ UNCHANGED <<handlers, active>>
  BY DEF Interrupt, DoHandleInterrupt, Signalled, Deliverable
<1>3. inService' = {}
  <2>1. inService = {}
    BY DEF InputInv, WaitingByteAnnounced
  <2>2. inService' = Acknowledge(i, inService \cup {i, Input(i)})
    BY DEF Interrupt, DoHandleInterrupt
  <2>3. QED
    BY <2>1, <2>2, NothingStaysInService
<1>4. UNCHANGED <<command, answers, rest, boot>>
  BY DEF Interrupt
<1>5. \/ i = KeyboardLine /\ HandleKeyboard
      \/ i = MouseLine /\ HandleMouse
      \/ /\ i # KeyboardLine /\ i # MouseLine
         /\ UNCHANGED <<out, packet, buttons, gui>>
  <2>1. CASE handlers[i] = "keyboard"
    BY <2>1 DEF Interrupt, InputInv, Registered
  <2>2. CASE handlers[i] = "mouse"
    BY <2>2 DEF Interrupt, InputInv, Registered
  <2>3. CASE handlers[i] # "keyboard" /\ handlers[i] # "mouse"
    BY <1>1, <2>3 DEF Interrupt, InputInv, Registered
  <2>4. QED
    BY <2>1, <2>2, <2>3
<1>6. QED
  BY <1>1, <1>2, <1>3, <1>4, <1>5

\* A byte of the mouse is taken from the buffer and completes a packet or not.
LEMMA HandleMouseDevices ==
  ASSUME DevicesTyped, HandleMouse
  PROVE  /\ packet' \in Seq(Bytes) /\ Len(packet') \in 0 .. 2
         /\ buttons' \in Bytes
         /\ \/ /\ out.full /\ out.from = "mouse" /\ out' = Empty
               /\ \/ Len(packet) < 2 /\ Len(packet') = Len(packet) + 1
                  \/ Len(packet) = 2 /\ Len(packet') = 0
            \/ ~(out.full /\ out.from = "mouse") /\ UNCHANGED <<out, packet>>
<1>1. CASE out.full /\ out.from = "mouse"
  <2> DEFINE bytes == Append(packet, out.byte)
  <2>1. bytes \in Seq(Bytes) /\ Len(bytes) = Len(packet) + 1
    BY DEF DevicesTyped, Buffers
  <2>2. out' = Empty /\ packet' = IF Len(bytes) = 3 THEN << >> ELSE bytes
    BY <1>1 DEF HandleMouse, TakeByte
  <2>3. packet' \in Seq(Bytes) /\ Len(packet') \in 0 .. 2
        /\ (Len(packet) < 2 => Len(packet') = Len(packet) + 1)
        /\ (Len(packet) = 2 => Len(packet') = 0)
    BY <2>1, <2>2 DEF DevicesTyped
  <2>4. buttons' \in Bytes
    <3>1. Len(bytes) = 3 => bytes[1] \in Bytes
      BY <2>1
    <3>2. QED
      BY <1>1, <3>1 DEF HandleMouse, TakeByte, CompletePacket, DevicesTyped
  <2>5. Len(packet) < 2 \/ Len(packet) = 2
    <3>1. \A n \in 0 .. 2 : n < 2 \/ n = 2
      OBVIOUS
    <3>2. QED
      BY <3>1 DEF DevicesTyped
  <2>6. QED
    BY <1>1, <2>2, <2>3, <2>4, <2>5
<1>2. CASE ~(out.full /\ out.from = "mouse")
  BY <1>2 DEF HandleMouse, DevicesTyped
<1>3. QED
  BY <1>1, <1>2

\* A device puts a byte into the buffer, which was empty.
LEMMA DevicePuts ==
  ASSUME DevicesTyped, PressKey \/ MouseSends \/ \E d \in Devices : Answer(d)
  PROVE  /\ \E from \in Devices, byte \in Bytes : Put(from, byte)
         /\ answers' \subseteq Devices /\ rest' \in 0 .. 2
<1>1. CASE PressKey
  BY <1>1, DevicesAssumption DEF PressKey, DevicesTyped, DevicesAssumption, Bytes, Devices
<1>2. CASE MouseSends
  <2>1. ButtonBytes \subseteq Bytes /\ XBytes \subseteq Bytes /\ YBytes \subseteq Bytes
    BY DevicesAssumption DEF DevicesAssumption, Bytes
  <2>2. rest = 0 \/ rest = 1 \/ rest = 2
    BY DEF DevicesTyped
  <2>3. (CASE rest = 0 -> ButtonBytes [] rest = 2 -> XBytes [] rest = 1 -> YBytes) \subseteq Bytes
    BY <2>1, <2>2
  <2>4. \E byte \in Bytes : Put("mouse", byte)
    BY <1>2, <2>3 DEF MouseSends
  <2>5. rest' \in 0 .. 2 /\ answers' = answers
    BY <1>2 DEF MouseSends, DevicesTyped
  <2>6. QED
    BY <2>4, <2>5 DEF DevicesTyped, Devices
<1>3. CASE \E d \in Devices : Answer(d)
  BY <1>3 DEF Answer, DevicesTyped, Bytes
<1>4. QED
  BY <1>1, <1>2, <1>3

\* The steps of ActivateAll: one of them tells a device, all empty the buffer.
Activating == DrainKeyboard \/ ActivateKeyboard \/ ActivateMouse \/ TakeAnswer

LEMMA ActivatingDevices ==
  ASSUME DevicesTyped, Activating
  PROVE  /\ out' = Empty
         /\ UNCHANGED <<requests, inService, active, rest, gui>>
         /\ boot # "on" /\ boot' \in {"drained", "keyboard", "told", "on"}
         /\ answers' \subseteq Devices
         /\ packet' \in {packet, << >>} /\ buttons' \in {buttons, 0}
         /\ ActivateMouse => buttons' = 0
         /\ ~ActivateMouse => buttons' = buttons
<1>1. CASE DrainKeyboard
  BY <1>1 DEF DrainKeyboard, DevicesTyped, ActivateMouse
<1>2. CASE ActivateKeyboard
  BY <1>2 DEF ActivateKeyboard, DevicesTyped, Devices, interruptVars, ActivateMouse
<1>3. CASE ActivateMouse
  BY <1>3 DEF ActivateMouse, DevicesTyped, Devices, interruptVars
<1>4. CASE TakeAnswer
  BY <1>4 DEF TakeAnswer, DevicesTyped, interruptVars, ActivateMouse
<1>5. QED
  BY <1>1, <1>2, <1>3, <1>4 DEF Activating

LEMMA Steps ==
  ASSUME InputNext
  PROVE  \/ Activating \/ Start \/ Tick
         \/ PressKey \/ MouseSends \/ \E d \in Devices : Answer(d)
         \/ \E i \in Lines : Interrupt(i)
  BY DEF InputNext, Activating, Devices

LEMMA EmptyTyped == Empty \in Buffers /\ ~Empty.full
  BY DEF Empty, Buffers, Bytes

-----------------------------------------------------------------------------
(***************************************************************************)
(* The devices' bytes: types, registration, announcement and packets.      *)
(***************************************************************************)
LEMMA Initially == InputInit => InputInv
<1> SUFFICES ASSUME InputInit PROVE InputInv
  OBVIOUS
<1>1. DevicesTyped
  <2>1. /\ requests \subseteq Lines /\ active \in BOOLEAN
        /\ handlers \in [Lines -> {NoHandler} \cup Devices]
        /\ boot = "constructed" /\ answers = {}
    BY DEF InputInit, InterruptsInit
  <2>2. out \in Buffers /\ ~out.full
    BY EmptyTyped DEF InputInit
  <2>3. packet \in Seq(Bytes) /\ Len(packet) \in 0 .. 2
    BY DEF InputInit
  <2>4. rest \in 0 .. 2 /\ buttons \in Bytes
    BY DEF InputInit, Bytes
  <2>5. QED
    BY <2>1, <2>2, <2>3, <2>4 DEF DevicesTyped
<1>2. Registered
  BY DEF InputInit, InterruptsInit, Registered, NoHandler
<1>3. WaitingByteAnnounced
  BY EmptyTyped DEF InputInit, InterruptsInit, WaitingByteAnnounced
<1>4. DesktopInv
  <2>1. gui = NewDesktop
    BY DEF InputInit
  <2>2. FrontDragged(NewDesktop, Pressed(buttons, 1))
    BY DesktopAssumption DEF DesktopAssumption, FrontDragged, NewDesktop, Children
  <2>3. QED
    BY <2>1, <2>2, NewDesktopTyped, NewDesktopFocus DEF DesktopInv, FrontDragsWhileHeld
<1>5. QED
  BY <1>1, <1>2, <1>3, <1>4 DEF InputInv

LEMMA DevicesTypedNext ==
  ASSUME InputInv, InputNext
  PROVE  DevicesTyped'
<1>0. DevicesTyped
  BY DEF InputInv
<1>1. CASE Activating
  <2>1. handlers' \in [Lines -> {NoHandler} \cup Devices]
    BY <1>0, <1>1 DEF Activating, DrainKeyboard, ActivateKeyboard, ActivateMouse, TakeAnswer,
                      Register, DevicesTyped, interruptVars, Devices
  <2>2. packet' \in Seq(Bytes) /\ Len(packet') \in 0 .. 2 /\ buttons' \in Bytes
    <3>1. << >> \in Seq(Bytes) /\ Len(<< >>) = 0
      OBVIOUS
    <3>2. packet' \in {packet, << >>} /\ buttons' \in {buttons, 0}
      BY <1>0, <1>1, ActivatingDevices
    <3>3. packet' \in Seq(Bytes) /\ Len(packet') \in 0 .. 2
      <4>1. CASE packet' = packet
        BY <1>0, <4>1 DEF DevicesTyped
      <4>2. CASE packet' = << >>
        BY <3>1, <4>2
      <4>3. QED
        BY <3>2, <4>1, <4>2
    <3>4. buttons' \in Bytes
      BY <1>0, <3>2 DEF DevicesTyped, Bytes
    <3>5. QED
      BY <3>3, <3>4
  <2>3. QED
    BY <1>0, <1>1, <2>1, <2>2, ActivatingDevices, EmptyTyped DEF DevicesTyped
<1>2. CASE Start
  BY <1>0, <1>2 DEF Start, Activate, DevicesTyped, deviceVars, driverVars
<1>3. CASE Tick
  BY <1>0, <1>3, LinesTyped DEF Tick, Raise, DevicesTyped, deviceVars, driverVars
<1>4. CASE PressKey \/ MouseSends \/ \E d \in Devices : Answer(d)
  <2>1. PICK from \in Devices, byte \in Bytes : Put(from, byte)
    BY <1>0, <1>4, DevicePuts
  <2>2. out' \in Buffers /\ out'.from \in Devices
    BY <2>1 DEF Put, Buffers
  <2>3. requests' \subseteq Lines
    BY <1>0, <2>1, LinesTyped DEF Put, LineOf, DevicesTyped
  <2>4. QED
    BY <1>0, <1>4, <2>1, <2>2, <2>3, DevicePuts DEF Put, DevicesTyped, driverVars
<1>5. CASE \E i \in Lines : Interrupt(i)
  <2>1. PICK i \in Lines : Interrupt(i)
    BY <1>5
  <2>2. /\ requests' = requests \ {i}
        /\ UNCHANGED <<handlers, active, answers, rest, boot>>
    BY <2>1, InterruptCases
  <2>3. /\ out' = out \/ out' = Empty
        /\ packet' \in Seq(Bytes) /\ Len(packet') \in 0 .. 2 /\ buttons' \in Bytes
    <3>1. CASE HandleKeyboard
      BY <1>0, <3>1 DEF HandleKeyboard, DevicesTyped
    <3>2. CASE HandleMouse
      BY <1>0, <3>2, HandleMouseDevices
    <3>3. CASE UNCHANGED <<out, packet, buttons>>
      BY <1>0, <3>3 DEF DevicesTyped
    <3>4. QED
      BY <2>1, <3>1, <3>2, <3>3, InterruptCases
  <2>4. QED
    BY <1>0, <2>2, <2>3, EmptyTyped DEF DevicesTyped
<1>6. QED
  BY <1>1, <1>2, <1>3, <1>4, <1>5, Steps

LEMMA RegisteredNext ==
  ASSUME InputInv, InputNext
  PROVE  Registered'
<1>0. Registered /\ handlers \in [Lines -> {NoHandler} \cup Devices]
  BY DEF InputInv, DevicesTyped
<1>1. CASE DrainKeyboard
  BY <1>0, <1>1, LinesTyped DEF DrainKeyboard, Register, Registered
<1>2. CASE ActivateKeyboard \/ ActivateMouse \/ TakeAnswer
  BY <1>0, <1>2 DEF ActivateKeyboard, ActivateMouse, TakeAnswer, Registered, interruptVars
<1>3. CASE Start
  BY <1>0, <1>3 DEF Start, Activate, Registered, driverVars
<1>4. CASE Tick
  BY <1>0, <1>4 DEF Tick, Registered, driverVars
<1>5. CASE PressKey \/ MouseSends \/ \E d \in Devices : Answer(d)
  BY <1>0, <1>5, DevicePuts DEF InputInv, Put, Registered, driverVars
<1>6. CASE \E i \in Lines : Interrupt(i)
  BY <1>0, <1>6, InterruptCases DEF Registered
<1>7. QED
  BY <1>1, <1>2, <1>3, <1>4, <1>5, <1>6, Steps DEF Activating

LEMMA AnnouncedNext ==
  ASSUME InputInv, InputNext
  PROVE  WaitingByteAnnounced'
<1>0. WaitingByteAnnounced /\ DevicesTyped
  BY DEF InputInv
<1>1. CASE Activating
  BY <1>0, <1>1, ActivatingDevices, EmptyTyped DEF WaitingByteAnnounced
<1>2. CASE Start
  BY <1>0, <1>2 DEF Start, Activate, WaitingByteAnnounced, deviceVars
<1>3. CASE Tick
  BY <1>0, <1>3 DEF Tick, Raise, WaitingByteAnnounced, deviceVars
<1>4. CASE PressKey \/ MouseSends \/ \E d \in Devices : Answer(d)
  BY <1>0, <1>4, DevicePuts DEF Put, WaitingByteAnnounced
<1>5. CASE \E i \in Lines : Interrupt(i)
  <2>1. PICK i \in Lines : Interrupt(i)
    BY <1>5
  <2>2. requests' = requests \ {i} /\ inService' = {} /\ command' = command
    BY <2>1, InterruptCases
  <2>3. CASE i = KeyboardLine /\ HandleKeyboard
    BY <2>2, <2>3, EmptyTyped DEF HandleKeyboard, WaitingByteAnnounced
  <2>4. CASE i = MouseLine /\ HandleMouse
    <3>1. CASE out' = Empty
      BY <2>2, <3>1, EmptyTyped DEF WaitingByteAnnounced
    <3>2. CASE ~(out.full /\ out.from = "mouse") /\ out' = out
      <4>1. out.full => LineOf(out.from) # i
        BY <1>0, <2>4, <3>2, LinesTyped DEF LineOf, DevicesTyped, Devices
      <4>2. QED
        BY <1>0, <2>2, <3>2, <4>1 DEF WaitingByteAnnounced
    <3>3. QED
      BY <1>0, <2>4, <3>1, <3>2, HandleMouseDevices
  <2>5. CASE i # KeyboardLine /\ i # MouseLine /\ out' = out
    BY <1>0, <2>2, <2>5 DEF WaitingByteAnnounced, LineOf
  <2>6. QED
    BY <2>1, <2>3, <2>4, <2>5, InterruptCases
<1>6. QED
  BY <1>1, <1>2, <1>3, <1>4, <1>5, Steps

(***************************************************************************)
(* Settled is stable: a byte of the mouse is either still to come, in the  *)
(* buffer, or in the packet, and only its own interrupt moves it on.       *)
(***************************************************************************)
LEMMA Packets ==
  ASSUME NEW m \in 0 .. 2, NEW r \in 0 .. 2, NEW w \in 0 .. 1, (m + r + w) % 3 = 0
  PROVE  /\ w = 0 => (m + ((r + 2) % 3) + 1) % 3 = 0
         /\ w = 1 /\ m < 2 => (m + 1 + r + 0) % 3 = 0
         /\ w = 1 /\ m = 2 => (0 + r + 0) % 3 = 0
  OBVIOUS

LEMMA SettledNext ==
  ASSUME InputInv, InputNext, Settled
  PROVE  Settled'
<1>0. /\ boot = "on" /\ answers = {}
      /\ (Len(packet) + rest + MouseByte) % 3 = 0
      /\ KeyboardLine \in requests => out.full /\ out.from = "keyboard"
  BY DEF Settled
<1>a. DevicesTyped /\ Len(packet) \in 0 .. 2 /\ rest \in 0 .. 2 /\ MouseByte \in 0 .. 1
  BY DEF InputInv, DevicesTyped, MouseByte
<1>b. KeyboardLine # MouseLine /\ KeyboardLine # Timer
  BY LinesTyped
<1>1. CASE Activating
  BY <1>0, <1>1, <1>a, ActivatingDevices
<1>2. CASE Start
  BY <1>0, <1>2 DEF Start, Activate, Settled, MouseByte, deviceVars, driverVars
<1>3. CASE Tick
  BY <1>0, <1>3, <1>b DEF Tick, Raise, Settled, MouseByte, deviceVars, driverVars
<1>4. CASE PressKey
  <2>1. /\ boot' = boot /\ packet' = packet /\ rest' = rest /\ answers' = answers
        /\ ~out.full /\ out'.full /\ out'.from = "keyboard"
    BY <1>4 DEF PressKey, Put, driverVars
  <2>2. MouseByte = 0 /\ MouseByte' = 0
    BY <2>1 DEF MouseByte
  <2>3. QED
    BY <1>0, <2>1, <2>2 DEF Settled
<1>5. CASE MouseSends
  <2>1. /\ boot' = boot /\ packet' = packet /\ rest' = (rest + 2) % 3 /\ answers' = answers
        /\ ~out.full /\ out'.full /\ out'.from = "mouse"
        /\ requests' \in {requests, requests \cup {MouseLine}}
    BY <1>5 DEF MouseSends, Put, LineOf, driverVars
  <2>2. MouseByte = 0 /\ MouseByte' = 1
    BY <2>1 DEF MouseByte
  <2>3. KeyboardLine \notin requests'
    BY <1>0, <1>b, <2>1
  <2>4. (Len(packet) + ((rest + 2) % 3) + 1) % 3 = 0
    BY <1>0, <1>a, <2>2, Packets
  <2>5. QED
    BY <1>0, <2>1, <2>2, <2>3, <2>4 DEF Settled
<1>6. CASE \E d \in Devices : Answer(d)
  BY <1>0, <1>6 DEF Answer
<1>7. CASE \E i \in Lines : Interrupt(i)
  <2>1. PICK i \in Lines : Interrupt(i)
    BY <1>7
  <2>2. UNCHANGED <<boot, rest, answers>> /\ requests' = requests \ {i} /\ i \in requests
    BY <2>1, InterruptCases
  <2>3. CASE i = KeyboardLine /\ HandleKeyboard
    <3>1. packet' = packet /\ MouseByte = 0 /\ MouseByte' = 0
      BY <1>0, <2>2, <2>3, EmptyTyped DEF HandleKeyboard, MouseByte
    <3>2. QED
      BY <1>0, <2>2, <2>3, <3>1 DEF Settled
  <2>4. CASE i = MouseLine /\ HandleMouse
    <3>1. CASE out.full /\ out.from = "mouse"
      <4>1. KeyboardLine \notin requests /\ MouseByte = 1
        BY <1>0, <3>1 DEF MouseByte
      <4>2. /\ out' = Empty
            /\ \/ Len(packet) < 2 /\ Len(packet') = Len(packet) + 1
               \/ Len(packet) = 2 /\ Len(packet') = 0
        BY <1>a, <2>4, <3>1, HandleMouseDevices
      <4>3. MouseByte' = 0
        BY <4>2, EmptyTyped DEF MouseByte
      <4>4. (Len(packet') + rest + 0) % 3 = 0
        BY <1>0, <1>a, <4>1, <4>2, Packets
      <4>5. QED
        BY <1>0, <2>2, <4>1, <4>3, <4>4 DEF Settled
    <3>2. CASE ~(out.full /\ out.from = "mouse")
      <4>1. out' = out /\ packet' = packet
        BY <1>a, <2>4, <3>2, HandleMouseDevices
      <4>2. MouseByte' = MouseByte
        BY <4>1 DEF MouseByte
      <4>3. QED
        BY <1>0, <2>2, <4>1, <4>2 DEF Settled
    <3>3. QED
      BY <3>1, <3>2
  <2>5. CASE i # KeyboardLine /\ out' = out /\ packet' = packet
    <3>1. MouseByte' = MouseByte
      BY <2>5 DEF MouseByte
    <3>2. QED
      BY <1>0, <2>2, <2>5, <3>1 DEF Settled
  <2>6. QED
    BY <2>1, <2>3, <2>4, <2>5, InterruptCases
<1>8. QED
  BY <1>1, <1>2, <1>3, <1>4, <1>5, <1>6, <1>7, Steps

-----------------------------------------------------------------------------
(***************************************************************************)
(* The window system: a movement, then one event for each button.          *)
(***************************************************************************)
GuiAgrees(g, mask) == g \in Guis /\ FrontDragged(g, Pressed(mask, 1)) /\ FocusAgrees(g)

LEMMA FirstButton ==
  ASSUME NEW g, NEW was, NEW is, GuiAgrees(g, was)
  PROVE  GuiAgrees(ButtonEvent(g, 1, was, is), is)
<1>0. g \in Guis /\ FrontDragged(g, Pressed(was, 1)) /\ FocusAgrees(g)
  BY DEF GuiAgrees
<1>1. CASE Pressed(was, 1) = Pressed(is, 1)
  <2>1. FrontDragged(g, Pressed(is, 1))
    BY <1>0, <1>1
  <2>2. QED
    BY <1>0, <1>1, <2>1 DEF GuiAgrees, ButtonEvent
<1>2. CASE Pressed(was, 1) # Pressed(is, 1) /\ Pressed(was, 1)
  <2>1. Pressed(is, 1) = FALSE
    BY <1>2 DEF Pressed
  <2>2. FrontDragged(OnMouseUp(g, 1), FALSE)
    BY <1>0, OnMouseUpFront DEF Pressed
  <2>3. FrontDragged(OnMouseUp(g, 1), Pressed(is, 1))
    BY <2>1, <2>2
  <2>4. QED
    BY <1>0, <1>2, <2>3, ButtonsTyped, ButtonsFocus DEF GuiAgrees, ButtonEvent
<1>3. CASE ~Pressed(was, 1) /\ Pressed(is, 1)
  <2>1. Pressed(is, 1) = TRUE
    BY <1>3 DEF Pressed
  <2>2. FrontDragged(g, TRUE)
    BY <1>0 DEF FrontDragged
  <2>3. FrontDragged(OnMouseDown(g, 1), TRUE)
    BY <1>0, <2>2, OnMouseDownFront
  <2>4. FrontDragged(OnMouseDown(g, 1), Pressed(is, 1))
    BY <2>1, <2>3
  <2>5. QED
    BY <1>0, <1>3, <2>4, ButtonsTyped, ButtonsFocus DEF GuiAgrees, ButtonEvent
<1>4. QED
  BY <1>1, <1>2, <1>3 DEF Pressed

LEMMA OtherButton ==
  ASSUME NEW g, NEW i \in {2, 3}, NEW was, NEW is, GuiAgrees(g, is)
  PROVE  GuiAgrees(ButtonEvent(g, i, was, is), is)
<1>0. g \in Guis /\ FrontDragged(g, Pressed(is, 1)) /\ FocusAgrees(g)
  BY DEF GuiAgrees
<1>1. GuiAgrees(OnMouseUp(g, i), is)
  <2>1. FrontDragged(OnMouseUp(g, i), FALSE)
    BY <1>0, OnMouseUpFront DEF Pressed
  <2>2. FrontDragged(OnMouseUp(g, i), Pressed(is, 1))
    BY <2>1 DEF FrontDragged
  <2>3. QED
    BY <1>0, <2>2, ButtonsTyped, ButtonsFocus DEF GuiAgrees
<1>2. GuiAgrees(OnMouseDown(g, i), is)
  <2>1. Pressed(is, 1) \in BOOLEAN /\ i # 1
    BY DEF Pressed
  <2>2. FrontDragged(OnMouseDown(g, i), Pressed(is, 1))
    BY <1>0, <2>1, OnMouseDownFront
  <2>3. QED
    BY <1>0, <2>2, ButtonsTyped, ButtonsFocus DEF GuiAgrees
<1>3. QED
  BY <1>1, <1>2 DEF ButtonEvent

LEMMA PacketAgrees ==
  ASSUME NEW dx \in Bytes, NEW dy \in Bytes, NEW was, NEW is, GuiAgrees(gui, was)
  PROVE  GuiAgrees(ButtonEvents(Move(dx, dy), was, is), is)
<1>1. GuiAgrees(Move(dx, dy), was)
  <2>1. SignedByte(dx) \in Int /\ -SignedByte(dy) \in Int
    BY DEF SignedByte, Bytes
  <2>2. Pressed(was, 1) \in BOOLEAN
    BY DEF Pressed
  <2>3. QED
    BY <2>1, <2>2, OnMouseMoveTyped, OnMouseMoveFront, OnMouseMoveFocus DEF Move, GuiAgrees
<1>2. GuiAgrees(ButtonEvent(Move(dx, dy), 1, was, is), is)
  BY <1>1, FirstButton
<1>3. GuiAgrees(ButtonEvent(ButtonEvent(Move(dx, dy), 1, was, is), 2, was, is), is)
  BY <1>2, OtherButton
<1>4. GuiAgrees(ButtonEvents(Move(dx, dy), was, is), is)
  BY <1>3, OtherButton DEF ButtonEvents
<1>5. QED
  BY <1>4

LEMMA DesktopInvNext ==
  ASSUME InputInv, InputNext
  PROVE  DesktopInv'
<1>0. DesktopInv /\ DevicesTyped
  BY DEF InputInv
<1>1. CASE UNCHANGED <<gui, buttons, active>>
  BY <1>0, <1>1 DEF DesktopInv, FrontDragsWhileHeld
<1>2. CASE \E i \in Lines : Interrupt(i)
  <2>1. active /\ active' = active /\ (HandleMouse \/ UNCHANGED <<gui, buttons>>)
    BY <1>2, InterruptCases DEF HandleKeyboard
  <2>2. CASE UNCHANGED <<gui, buttons>>
    BY <1>1, <2>1, <2>2
  <2>3. CASE HandleMouse /\ ~UNCHANGED <<gui, buttons>>
    <3> DEFINE bytes == Append(packet, out.byte)
    <3>1. CompletePacket(bytes) /\ Len(bytes) = 3
      BY <2>3 DEF HandleMouse, TakeByte
    <3>2. bytes[2] \in Bytes /\ bytes[3] \in Bytes
      <4>1. packet \in Seq(Bytes) /\ out.byte \in Bytes
        BY <1>0 DEF DevicesTyped, Buffers
      <4>2. QED
        BY <3>1, <4>1
    <3>3. /\ buttons' = bytes[1]
          /\ gui' = ButtonEvents(Move(bytes[2], bytes[3]), buttons, bytes[1])
      BY <3>1 DEF CompletePacket
    <3>4. GuiAgrees(gui, buttons)
      BY <1>0 DEF DesktopInv, FrontDragsWhileHeld, GuiAgrees
    <3> HIDE DEF bytes
    <3>5. GuiAgrees(gui', buttons')
      BY <3>2, <3>3, <3>4, PacketAgrees
    <3>6. QED
      BY <2>1, <3>5 DEF DesktopInv, FrontDragsWhileHeld, GuiAgrees
  <2>4. QED
    BY <2>1, <2>2, <2>3
<1>3. CASE Activating
  <2>1. gui' = gui /\ active' = active /\ gui = NewDesktop
    BY <1>0, <1>3, ActivatingDevices DEF InputInv, Registered, DesktopInv
  <2>2. FrontDragged(NewDesktop, Pressed(buttons', 1))
    BY DesktopAssumption DEF DesktopAssumption, FrontDragged, NewDesktop, Children
  <2>3. QED
    BY <1>0, <2>1, <2>2 DEF DesktopInv, FrontDragsWhileHeld
<1>4. CASE Start
  BY <1>0, <1>4 DEF Start, Activate, DesktopInv, FrontDragsWhileHeld, driverVars
<1>5. CASE Tick
  BY <1>1, <1>5 DEF Tick, driverVars
<1>6. CASE PressKey \/ MouseSends \/ \E d \in Devices : Answer(d)
  BY <1>0, <1>1, <1>6, DevicePuts DEF Put, driverVars
<1>7. QED
  BY <1>2, <1>3, <1>4, <1>5, <1>6, Steps

-----------------------------------------------------------------------------
LEMMA InputStep == InputInv /\ [InputNext]_vars => InputInv'
<1>1. ASSUME InputInv, InputNext PROVE InputInv'
  BY <1>1, DevicesTypedNext, RegisteredNext, AnnouncedNext, DesktopInvNext DEF InputInv
<1>2. ASSUME InputInv, UNCHANGED vars PROVE InputInv'
  <2>1. /\ UNCHANGED <<requests, inService, handlers, active, out, command, answers, rest>>
        /\ UNCHANGED <<boot, packet, buttons, gui>>
    BY <1>2 DEF vars, interruptVars, deviceVars, driverVars
  <2>2. DevicesTyped' /\ Registered'
    BY <1>2, <2>1 DEF InputInv, DevicesTyped, Registered
  <2>3. WaitingByteAnnounced'
    BY <1>2, <2>1 DEF InputInv, WaitingByteAnnounced
  <2>4. DesktopInv'
    BY <1>2, <2>1 DEF InputInv, DesktopInv, FrontDragsWhileHeld
  <2>5. QED
    BY <2>2, <2>3, <2>4 DEF InputInv
<1>3. QED
  BY <1>1, <1>2

\* All parts of the inductive invariant hold in every reachable state.
THEOREM InputInvariant == InputSpec => []InputInv
  BY Initially, InputStep, PTL DEF InputSpec

(***************************************************************************)
(* No byte of a device that may interrupt is left unannounced and no line  *)
(* is left in service: neither device can fall silent because of the       *)
(* InterruptManager (interrupts.cpp:197-203).                              *)
(***************************************************************************)
THEOREM BytesAnnounced == InputSpec => []WaitingByteAnnounced
<1>1. InputInv => WaitingByteAnnounced
  BY DEF InputInv
<1>2. QED
  BY <1>1, InputInvariant, PTL

(***************************************************************************)
(* Whatever keys were pressed during activation and whichever answers came *)
(* late: once the mouse driver is in step with the mouse and nothing is    *)
(* left over, it stays in step (mouse.cpp:69-78, keyboard.cpp:54).         *)
(***************************************************************************)
THEOREM MouseStaysInStep == InputSpec => StaysInStep
<1>1. InputInv /\ [InputNext]_vars => [Settled => Settled']_vars
  BY SettledNext
<1>2. QED
  BY <1>1, InputInvariant, PTL DEF InputSpec, StaysInStep

(***************************************************************************)
(* The front window is dragged only while the first button is held, and    *)
(* then stays under the mouse (window.cpp:19-40).                          *)
(***************************************************************************)
THEOREM FrontWindowDragged == InputSpec => []FrontDragsWhileHeld
<1>1. InputInv => FrontDragsWhileHeld
  BY DEF InputInv, DesktopInv
<1>2. QED
  BY <1>1, InputInvariant, PTL

(***************************************************************************)
(* Keys go to the widget that was pressed last (widget.cpp:90, 155).       *)
(***************************************************************************)
THEOREM KeysFollowClicks == InputSpec => []KeysReachClicked
<1>1. InputInv => KeysReachClicked
  BY FocusReachesClicked DEF InputInv, DesktopInv, KeysReachClicked
<1>2. QED
  BY <1>1, InputInvariant, PTL
================================================================================
