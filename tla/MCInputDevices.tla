---------------------------- MODULE MCInputDevices ----------------------------
(***************************************************************************)
(* Input devices for TLC: the geometry of a small desktop.                 *)
(***************************************************************************)
EXTENDS InputDevices

Frame(a, b, c, d) == [x |-> a, y |-> b, w |-> c, h |-> d]

MCFrames == <<Frame(0, 0, 2, 1), Frame(1, 1, 2, 1)>>

MCControls == <<Frame(1, 0, 1, 1), Frame(0, 0, 1, 1)>>
=============================================================================
