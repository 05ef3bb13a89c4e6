-------------------------------- MODULE Desktop --------------------------------
(***************************************************************************)
(* The window system (gui/desktop.cpp, widget.cpp, window.cpp): a Desktop  *)
(* with windows, which can be dragged, and a plain widget in each of them. *)
(* Its state is one record and each event an operator on it, because one   *)
(* mouse interrupt delivers several events.                                *)
(***************************************************************************)
EXTENDS Integers, FiniteSets, FiniteSetsExt

CONSTANTS
  DesktopWidth, DesktopHeight,
  NumChildren,  \* the Desktop's windows, in the order of AddChild: 1 is in front
  Frames,       \* x, y, w and h of each window, at the start
  Controls      \* x, y, w and h of the widget in each window, relative to it

Children == 1 .. NumChildren

Areas == [x : Int, y : Int, w : Int, h : Int]

DesktopAssumption ==
  /\ DesktopWidth \in Nat \ {0} /\ DesktopHeight \in Nat \ {0}
  /\ NumChildren \in 0 .. 100
  /\ Frames \in [Children -> Areas] /\ Controls \in [Children -> Areas]

ASSUME DesktopAssumption

None == 0

(***************************************************************************)
(* focussed is the Desktop's focussedChild, inner[w] that of window w; the *)
(* widget in window w is named w too.  clicked is a history variable: the  *)
(* widget that was pressed last.                                           *)
(***************************************************************************)
NewDesktop ==
  [mouseX   |-> DesktopWidth \div 2,
   mouseY   |-> DesktopHeight \div 2,
   frame    |-> Frames,
   dragging |-> [w \in Children |-> FALSE],
   focussed |-> None,
   inner    |-> [w \in Children |-> None],
   clicked  |-> None]

-----------------------------------------------------------------------------
ContainsCoordinate(f, a, b) ==
  /\ f.x <= a /\ a < f.x + f.w
  /\ f.y <= b /\ b < f.y + f.h

\* The first child that contains the point; the others do not get the event.
ChildAt(g, a, b) ==
  LET there == {w \in Children : ContainsCoordinate(g.frame[w], a, b)}
  IN  IF there = {} THEN None ELSE Min(there)

\* Mutant: a composite widget does not tell its parent.
GetFocus_NotParent(g, w) == [g EXCEPT !.inner[w] = w]

\* GetFocus of a widget, of its window and of the Desktop.
GetFocus(g, w) == [g EXCEPT !.inner[w] = w, !.focussed = w]

\* Widget::OnMouseDown, for a widget that is Focussable.
PressControl(g, w) == [GetFocus(g, w) EXCEPT !.clicked = w]

\* Window::OnMouseDown, then CompositeWidget's.
PressWindow(g, w, a, b, button) ==
  LET f == g.frame[w]
      h == [g EXCEPT !.dragging[w] = (button = 1)]
  IN  IF ContainsCoordinate(Controls[w], a - f.x, b - f.y)
      THEN PressControl(h, w) ELSE h

\* Desktop::OnMouseDown and OnMouseUp.
OnMouseDown(g, button) ==
  LET w == ChildAt(g, g.mouseX, g.mouseY)
  IN  IF w = None THEN g ELSE PressWindow(g, w, g.mouseX, g.mouseY, button)

OnMouseUp(g, button) ==
  LET w == ChildAt(g, g.mouseX, g.mouseY)
  IN  IF w = None THEN g ELSE [g EXCEPT !.dragging[w] = FALSE]

-----------------------------------------------------------------------------
Moved(f, da, db) == [x |-> f.x + da, y |-> f.y + db, w |-> f.w, h |-> f.h]

\* Window::OnMouseMove; the widget in it ignores the event.
MoveWindow(g, w, da, db) ==
  IF w # None /\ g.dragging[w]
  THEN [g EXCEPT !.frame[w] = Moved(g.frame[w], da, db)]
  ELSE g

\* Mutant: the child that got the event at the old place gets it again.
Notify_Twice(g, a, b) ==
  LET first  == ChildAt(g, g.mouseX, g.mouseY)
      moved  == MoveWindow(g, first, a - g.mouseX, b - g.mouseY)
      second == ChildAt(moved, a, b)
  IN  MoveWindow(moved, second, a - g.mouseX, b - g.mouseY)

(***************************************************************************)
(* CompositeWidget::OnMouseMove: the child at the old place is told, then  *)
(* the child at the new place unless it is the same.                       *)
(***************************************************************************)
Notify(g, a, b) ==
  LET first  == ChildAt(g, g.mouseX, g.mouseY)
      moved  == MoveWindow(g, first, a - g.mouseX, b - g.mouseY)
      second == ChildAt(moved, a, b)
  IN  IF second = first THEN moved
      ELSE MoveWindow(moved, second, a - g.mouseX, b - g.mouseY)

\* Division by 4, which rounds towards zero.
Quarter(v) == IF v >= 0 THEN v \div 4 ELSE -((-v) \div 4)

Within(v, limit) == IF v < 0 THEN 0 ELSE IF v >= limit THEN limit - 1 ELSE v

\* Desktop::OnMouseMove
OnMouseMove(g, dx, dy) ==
  LET a == Within(g.mouseX + Quarter(dx), DesktopWidth)
      b == Within(g.mouseY + Quarter(dy), DesktopHeight)
  IN  [Notify(g, a, b) EXCEPT !.mouseX = a, !.mouseY = b]

\* CompositeWidget::OnKeyDown, down the chain: the widget that gets a key.
KeyReceiver(g) == IF g.focussed = None THEN None ELSE g.inner[g.focussed]

-----------------------------------------------------------------------------
(***************************************************************************)
(* The front window is dragged only with the first button held, and it     *)
(* stays under the mouse for as long as it is: no release and no move can  *)
(* escape it (window.cpp:19-40).  A window behind another one can lose     *)
(* both.                                                                   *)
(***************************************************************************)
FrontDragged(g, held) ==
  NumChildren > 0 /\ g.dragging[1] =>
    /\ held
    /\ ContainsCoordinate(g.frame[1], g.mouseX, g.mouseY)

(***************************************************************************)
(* Keys go to the widget that was pressed last, however windows were moved *)
(* or pressed beside it since (widget.cpp:27, 90, 155).                    *)
(***************************************************************************)
KeysToClicked(g) == KeyReceiver(g) = g.clicked
=============================================================================
