-------------------------------- MODULE Heap --------------------------------
(***************************************************************************)
(* What malloc and free promise: a block lies in the managed memory, two   *)
(* blocks never overlap, a block is as long as it was asked to be, and     *)
(* only free ends it.  Nothing is said of headers, lists or placement.     *)
(* MemoryManager is shown to implement this specification.                 *)
(***************************************************************************)
EXTENDS Integers

CONSTANTS
  Lo, Hi,       \* the managed memory is Lo .. Hi - 1
  Requests      \* the sizes that may be asked for

VARIABLE blocks \* the length of each block handed out, by its address

\* The n bytes at a are in the memory and meet no block.
Vacant(a, n) ==
  /\ Lo <= a /\ a + n <= Hi
  /\ \A b \in DOMAIN blocks : a + n <= b \/ b + blocks[b] <= a

HeapInit == blocks = [a \in {} |-> 0]

Obtain(n) ==
  \E a \in Lo .. Hi :
    /\ a \notin DOMAIN blocks
    /\ Vacant(a, n)
    /\ blocks' = [b \in DOMAIN blocks \cup {a} |-> IF b = a THEN n ELSE blocks[b]]

Release(a) ==
  /\ a \in DOMAIN blocks
  /\ blocks' = [b \in DOMAIN blocks \ {a} |-> blocks[b]]

HeapNext ==
  \/ \E n \in Requests : Obtain(n)
  \/ \E a \in Lo .. Hi : Release(a)

HeapSpec == HeapInit /\ [][HeapNext]_blocks
=============================================================================
