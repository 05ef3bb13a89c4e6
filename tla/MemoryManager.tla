--------------------------- MODULE MemoryManager ---------------------------
(***************************************************************************)
(* The kernel heap (src/src/memorymanagement.cpp): first fit over a doubly *)
(* linked list of chunks whose headers lie in the managed memory itself.   *)
(* Its callers are operator new and operator delete, inside system calls   *)
(* and before interrupts are enabled, so a call is one atomic step.        *)
(*                                                                         *)
(* Addresses and sizes are plain integers: kernelMain keeps Start +        *)
(* HeapSize below 2^32, and malloc adds only to requests it has found      *)
(* smaller than a chunk, so no sum the code forms wraps around.            *)
(***************************************************************************)
EXTENDS Integers

CONSTANTS
  Header,       \* sizeof(MemoryChunk), 16
  Start,        \* first byte of the heap, 10 MB
  HeapSize,     \* number of bytes handed to the constructor
  Sizes         \* the sizes callers ask for

ASSUME HeaderAssumption == Header \in Nat \ {0}
ASSUME HeapAssumption   == Start \in Nat \ {0} /\ HeapSize \in Nat
ASSUME SizesAssumption  == Sizes \subseteq Nat

VARIABLES
  heap,         \* the chunks, by the address of their header
  blocks        \* history: what was asked for, by the address returned

memVars == <<heap, blocks>>

NULL  == 0
Limit == Start + HeapSize

MemoryChunk == [next : Nat, prev : Nat, allocated : BOOLEAN, size : Nat]

Payload(a) == a + Header

-----------------------------------------------------------------------------
(***************************************************************************)
(* The loop of malloc takes the first free chunk of the list that is       *)
(* larger than the request.  The list is in address order (ListInOrder).   *)
(***************************************************************************)
\* Mutant: the header's bytes are counted as room for the request.
Fits_HeaderCounts(a, n) == heap[a].size + Header > n /\ ~heap[a].allocated

Fits(a, n) == heap[a].size > n /\ ~heap[a].allocated

\* Mutant: the test of allocated is missing.
FirstFit_Allocated(a, n) ==
  /\ a \in DOMAIN heap
  /\ heap[a].size > n
  /\ \A b \in DOMAIN heap : b < a => ~(heap[b].size > n)

FirstFit(a, n) ==
  /\ a \in DOMAIN heap
  /\ Fits(a, n)
  /\ \A b \in DOMAIN heap : b < a => ~Fits(b, n)

\* Mutant: the new chunk's size forgets its header.
Split_NoHeader(h, a, n) ==
  LET t == Payload(a) + n
      c == h[a].next
  IN  [x \in DOMAIN h \cup {t} |->
         IF x = t
         THEN [next |-> c, prev |-> a, allocated |-> FALSE, size |-> h[a].size - n]
         ELSE IF x = a THEN [h[a] EXCEPT !.next = t, !.size = n]
         ELSE IF x = c THEN [h[c] EXCEPT !.prev = t]
         ELSE h[x]]

\* Chunk a of h cut to n bytes, the rest a free chunk of its own.
Split(h, a, n) ==
  LET t == Payload(a) + n
      c == h[a].next
  IN  [x \in DOMAIN h \cup {t} |->
         IF x = t
         THEN [next |-> c, prev |-> a, allocated |-> FALSE,
               size |-> h[a].size - n - Header]
         ELSE IF x = a THEN [h[a] EXCEPT !.next = t, !.size = n]
         ELSE IF x = c THEN [h[c] EXCEPT !.prev = t]
         ELSE h[x]]

\* Mutant: the chunk after the absorbed one keeps its prev.
Absorb_StalePrev(h, a) ==
  LET b == h[a].next
  IN  [x \in DOMAIN h \ {b} |->
         IF x = a THEN [h[a] EXCEPT !.next = h[b].next,
                                    !.size = @ + h[b].size + Header]
         ELSE h[x]]

\* Chunk a of h grown over the chunk that follows it.
Absorb(h, a) ==
  LET b == h[a].next
      c == h[b].next
  IN  [x \in DOMAIN h \ {b} |->
         IF x = a THEN [h[a] EXCEPT !.next = c, !.size = @ + h[b].size + Header]
         ELSE IF x = c THEN [h[c] EXCEPT !.prev = a]
         ELSE h[x]]

\* Mutant: the test for room for a second chunk is missing.
Take_AlwaysSplits(h, a, n) == [Split(h, a, n) EXCEPT ![a].allocated = TRUE]

\* Take chunk a of h for a request of n bytes, splitting it when the rest can
\* hold a header and one byte.
Take(h, a, n) ==
  LET g == IF h[a].size >= n + Header + 1 THEN Split(h, a, n) ELSE h
  IN  [g EXCEPT ![a].allocated = TRUE]

Malloc(n) ==
  \E a \in DOMAIN heap :
    /\ FirstFit(a, n)
    /\ heap' = Take(heap, a, n)
    /\ blocks' = [p \in DOMAIN blocks \cup {Payload(a)} |->
                    IF p = Payload(a) THEN n ELSE blocks[p]]

\* malloc returns 0, and so does operator new.
MallocFails(n) ==
  /\ \A a \in DOMAIN heap : ~Fits(a, n)
  /\ UNCHANGED memVars

-----------------------------------------------------------------------------
\* Mutant: free joins a chunk to its predecessor only.
Give_NoNext(h, a) ==
  LET g == [h EXCEPT ![a].allocated = FALSE]
      p == g[a].prev
  IN  IF p # NULL /\ ~g[p].allocated THEN Absorb(g, p) ELSE g

\* Mutant: free joins a chunk to its successor only.
Give_NoPrev(h, a) ==
  LET g == [h EXCEPT ![a].allocated = FALSE]
      s == g[a].next
  IN  IF s # NULL /\ ~g[s].allocated THEN Absorb(g, a) ELSE g

JoinPrev(h, a) ==
  LET p == h[a].prev
  IN  IF p # NULL /\ ~h[p].allocated THEN Absorb(h, p) ELSE h

JoinNext(h, a) ==
  LET s == h[a].next
  IN  IF s # NULL /\ ~h[s].allocated THEN Absorb(h, a) ELSE h

\* The chunk that chunk a of h belongs to after JoinPrev.
Joined(h, a) ==
  LET p == h[a].prev IN IF p # NULL /\ ~h[p].allocated THEN p ELSE a

Give(h, a) ==
  LET g == [h EXCEPT ![a].allocated = FALSE]
  IN  JoinNext(JoinPrev(g, a), Joined(g, a))

(***************************************************************************)
(* free(p).  Callers hand back what new returned, and nothing twice.       *)
(***************************************************************************)
Free(p) ==
  /\ p \in DOMAIN blocks
  /\ heap' = Give(heap, p - Header)
  /\ blocks' = [q \in DOMAIN blocks \ {p} |-> blocks[q]]

-----------------------------------------------------------------------------
\* The constructor; a region smaller than a header is not managed at all.
MemInit ==
  /\ heap = IF HeapSize < Header THEN [a \in {} |-> 0]
            ELSE [a \in {Start} |->
                    [next |-> NULL, prev |-> NULL, allocated |-> FALSE,
                     size |-> HeapSize - Header]]
  /\ blocks = [p \in {} |-> 0]

MemNext ==
  \/ \E n \in Sizes : Malloc(n) \/ MallocFails(n)
  \/ \E p \in DOMAIN blocks : Free(p)

MemSpec == MemInit /\ [][MemNext]_memVars

-----------------------------------------------------------------------------
MemTypeOK ==
  /\ DOMAIN heap \subseteq Nat /\ heap \in [DOMAIN heap -> MemoryChunk]
  /\ DOMAIN blocks \subseteq Nat /\ blocks \in [DOMAIN blocks -> Nat]

End(h, a) == Payload(a) + h[a].size

(***************************************************************************)
(* The chunks tile the managed memory: no byte is lost or owned twice,     *)
(* however often memory is split and joined (malloc:48-58, free:71-87).    *)
(***************************************************************************)
Tiling ==
  \A a \in DOMAIN heap :
    /\ Start <= a
    /\ IF heap[a].next = NULL
       THEN End(heap, a) = Limit
       ELSE heap[a].next = End(heap, a) /\ heap[a].next \in DOMAIN heap

(***************************************************************************)
(* The list can be walked both ways, from `first', which never moves, in   *)
(* address order: prev and next are inverse to each other.                 *)
(***************************************************************************)
ListInOrder ==
  \A a \in DOMAIN heap :
    /\ heap[a].prev = NULL <=> a = Start
    /\ heap[a].prev # NULL =>
         heap[a].prev \in DOMAIN heap /\ heap[heap[a].prev].next = a
    /\ heap[a].next # NULL =>
         a < heap[a].next /\ heap[heap[a].next].prev = a

(***************************************************************************)
(* Two neighbours are never both free, so that what can be handed out in   *)
(* one piece is not kept in two (free:71 and 81, and malloc's remainder).  *)
(***************************************************************************)
NoAdjacentFree ==
  \A a \in DOMAIN heap :
    heap[a].next # NULL =>
      heap[a].allocated \/ heap[heap[a].next].allocated

(***************************************************************************)
(* Nothing is lost in the long run: whatever was allocated and freed, in   *)
(* whatever order, an empty heap is the single chunk the constructor made. *)
(***************************************************************************)
WholeWhenEmpty ==
  (\A a \in DOMAIN heap : ~heap[a].allocated) =>
     DOMAIN heap \subseteq {Start}

(***************************************************************************)
(* What callers hold is what is marked allocated: each block is a chunk's  *)
(* payload, at least as long as asked and at most a header longer (the     *)
(* split test of malloc:46).                                               *)
(***************************************************************************)
BlocksAreChunks ==
  /\ \A p \in DOMAIN blocks :
       /\ p - Header \in DOMAIN heap
       /\ heap[p - Header].allocated
       /\ heap[p - Header].size - blocks[p] \in 0 .. Header
  /\ \A a \in DOMAIN heap : heap[a].allocated => Payload(a) \in DOMAIN blocks

(***************************************************************************)
(* The allocator keeps the promises of Heap: blocks never overlap each     *)
(* other and stay as they are until freed.                                 *)
(***************************************************************************)
H == INSTANCE Heap WITH Lo <- Start, Hi <- Limit, Requests <- Sizes

ImplementsHeap == H!HeapSpec
=============================================================================
