------------------------ MODULE MemoryManagerProofs ------------------------
(***************************************************************************)
(* The kernel heap for every heap size, header size and set of requests.   *)
(* The argument is about the list as a whole, so the invariants are first  *)
(* stated of an arbitrary list h, with one more conjunct, Apart: no chunk  *)
(* begins inside another or ends past the memory.  Tiling alone does not   *)
(* say so (it only relates a chunk to its successor), and without it a     *)
(* split could overwrite the header of a third chunk.                      *)
(***************************************************************************)
EXTENDS MemoryManager, TLAPS

Typed(h) == DOMAIN h \subseteq Nat /\ h \in [DOMAIN h -> MemoryChunk]

Tiled(h) ==
  \A a \in DOMAIN h :
    /\ Start <= a
    /\ IF h[a].next = NULL THEN End(h, a) = Limit
                           ELSE h[a].next = End(h, a) /\ h[a].next \in DOMAIN h

Linked(h) ==
  \A a \in DOMAIN h :
    /\ h[a].prev = NULL <=> a = Start
    /\ h[a].prev # NULL =>
         h[a].prev \in DOMAIN h /\ h[h[a].prev].next = a
    /\ h[a].next # NULL =>
         a < h[a].next /\ h[h[a].next].prev = a

Apart(h) ==
  /\ \A a, b \in DOMAIN h : a < b => End(h, a) <= b
  /\ \A a \in DOMAIN h : End(h, a) <= Limit

Shape(h) == Typed(h) /\ Tiled(h) /\ Linked(h) /\ Apart(h)

\* The chunk at a and the one after it are not both free.
NotBothFree(h, a) ==
  h[a].next # NULL => h[a].allocated \/ h[h[a].next].allocated

IInv ==
  /\ MemTypeOK
  /\ Shape(heap)
  /\ \A a \in DOMAIN heap : NotBothFree(heap, a)
  /\ BlocksAreChunks

-----------------------------------------------------------------------------
(***************************************************************************)
(* The operations on lists keep their shape.                               *)
(***************************************************************************)
Allocated(h, g, a) == g = [h EXCEPT ![a].allocated = TRUE]
Freed(h, g, a)     == g = [h EXCEPT ![a].allocated = FALSE]

\* Setting the allocated bit of a chunk moves nothing.
LEMMA FlagShape ==
  ASSUME NEW h, Shape(h), NEW a \in DOMAIN h, NEW g,
         \/ Allocated(h, g, a)
         \/ Freed(h, g, a)
  PROVE  /\ Shape(g)
         /\ DOMAIN g = DOMAIN h
         /\ \A x \in DOMAIN h : /\ g[x].next = h[x].next
                                /\ g[x].prev = h[x].prev
                                /\ g[x].size = h[x].size
                                /\ x # a => g[x].allocated = h[x].allocated
         /\ Allocated(h, g, a) => g[a].allocated
         /\ Freed(h, g, a) => ~g[a].allocated
<1> USE DEF Allocated, Freed
<1>1. Typed(h) /\ Tiled(h) /\ Linked(h) /\ Apart(h)
  BY DEF Shape
<1>2. DOMAIN g = DOMAIN h
  OBVIOUS
<1>3. \A x \in DOMAIN h : /\ g[x].next = h[x].next
                          /\ g[x].prev = h[x].prev
                          /\ g[x].size = h[x].size
                          /\ x # a => g[x].allocated = h[x].allocated
  BY <1>1 DEF Typed, MemoryChunk
<1>v. /\ Allocated(h, g, a) => g[a].allocated
      /\ Freed(h, g, a) => ~g[a].allocated
  BY <1>1 DEF Typed, MemoryChunk
<1>4. Typed(g)
  BY <1>1 DEF Typed, MemoryChunk
<1>5. Tiled(g)
  BY <1>1, <1>2, <1>3 DEF Tiled, End
<1>6. Linked(g)
  BY <1>1, <1>2, <1>3 DEF Linked, Tiled
<1>7. Apart(g)
  BY <1>1, <1>2, <1>3 DEF Apart, End
<1> QED
  BY <1>2, <1>3, <1>v, <1>4, <1>5, <1>6, <1>7 DEF Shape

\* What Split leaves: chunk a, its remainder at t, the rest but for one prev.
LEMMA SplitShape ==
  ASSUME NEW h, Shape(h), NEW a \in DOMAIN h, NEW n \in Nat,
         h[a].size >= n + Header + 1
  PROVE  LET g == Split(h, a, n)
             t == Payload(a) + n
         IN  /\ Shape(g)
             /\ t \notin DOMAIN h
             /\ DOMAIN g = DOMAIN h \cup {t}
             /\ g[a].next = t /\ g[a].size = n
             /\ g[t].next = h[a].next /\ ~g[t].allocated
             /\ \A x \in DOMAIN h : g[x].allocated = h[x].allocated
             /\ \A x \in DOMAIN h \ {a} : g[x].next = h[x].next /\ g[x].size = h[x].size
<1> DEFINE g == Split(h, a, n)
           t == Payload(a) + n
           c == h[a].next
<1> USE HeaderAssumption, HeapAssumption DEF NULL, Payload
<1>1. Typed(h) /\ Tiled(h) /\ Linked(h) /\ Apart(h)
  BY DEF Shape
<1>2. h[a] \in MemoryChunk /\ a \in Nat /\ a > 0
  BY <1>1 DEF Typed, Tiled
<1>3. t \in Nat /\ a < t /\ t < End(h, a) /\ End(h, a) \in Nat
  BY <1>2 DEF MemoryChunk, End
<1>4. t \notin DOMAIN h
  BY <1>1, <1>2, <1>3 DEF Apart
<1>5. c # NULL => c \in DOMAIN h /\ c = End(h, a) /\ h[c].prev = a /\ c # a /\ c # t
  BY <1>1, <1>2, <1>3 DEF Tiled, Linked, MemoryChunk
<1>6. DOMAIN g = DOMAIN h \cup {t}
  BY DEF Split
<1>7. g[a] = [h[a] EXCEPT !.next = t, !.size = n]
  BY <1>3, <1>4, <1>5, <1>2 DEF Split
<1>8. g[t] = [next |-> c, prev |-> a, allocated |-> FALSE,
              size |-> h[a].size - n - Header]
  BY <1>3, <1>4, <1>5, <1>2 DEF Split
<1>9. c # NULL => g[c] = [h[c] EXCEPT !.prev = t]
  BY <1>5, <1>4 DEF Split
<1>10. \A x \in DOMAIN h \ {a, c} : g[x] = h[x]
  BY <1>4 DEF Split
<1>g. g = [x \in DOMAIN g |-> g[x]]
  BY <1>6 DEF Split
<1> HIDE DEF g
<1>11. Typed(g)
  <2>1. g[a] \in MemoryChunk
    BY <1>7, <1>2, <1>3 DEF MemoryChunk
  <2>2. g[t] \in MemoryChunk
    BY <1>8, <1>2 DEF MemoryChunk
  <2>3. c # NULL => g[c] \in MemoryChunk
    BY <1>9, <1>5, <1>1, <1>3 DEF Typed, MemoryChunk
  <2>4. \A x \in DOMAIN h \ {a, c} : g[x] \in MemoryChunk
    BY <1>10, <1>1 DEF Typed
  <2>5. \A x \in DOMAIN g : g[x] \in MemoryChunk
    BY <2>1, <2>2, <2>3, <2>4, <1>6, <1>1 DEF Tiled
  <2> QED
    BY <2>5, <1>g, <1>6, <1>1, <1>3 DEF Typed
<1>12. /\ g[a].next = t /\ g[a].size = n /\ g[a].prev = h[a].prev
       /\ g[a].allocated = h[a].allocated
  BY <1>7, <1>2 DEF MemoryChunk
<1>13. /\ g[t].next = c /\ g[t].prev = a /\ g[t].allocated = FALSE
       /\ g[t].size = h[a].size - n - Header
  BY <1>8
<1>14. c # NULL => /\ g[c].next = h[c].next /\ g[c].size = h[c].size /\ g[c].prev = t
                   /\ g[c].allocated = h[c].allocated
  BY <1>9, <1>5, <1>1 DEF Typed, MemoryChunk
<1>15. \A x \in DOMAIN h \ {a} : /\ g[x].next = h[x].next /\ g[x].size = h[x].size
                                 /\ g[x].allocated = h[x].allocated
  BY <1>10, <1>14, <1>2, <1>1 DEF Tiled
<1>16. \A x \in DOMAIN h \ {c} : g[x].prev = h[x].prev
  BY <1>10, <1>12
<1>17. End(g, a) = t /\ End(g, t) = End(h, a)
  BY <1>12, <1>13, <1>2 DEF End, MemoryChunk
<1>18. \A x \in DOMAIN h \ {a} : End(g, x) = End(h, x)
  BY <1>15 DEF End
<1>19. \A x \in DOMAIN h : x \in Nat /\ h[x].size \in Nat /\ End(h, x) \in Nat /\ x > 0
                           /\ End(h, x) > x /\ h[x].next \in Nat /\ h[x].prev \in Nat
  BY <1>1 DEF Typed, Tiled, MemoryChunk, End
<1>20. Tiled(g)
  <2> SUFFICES ASSUME NEW x \in DOMAIN g
               PROVE  /\ Start <= x
                      /\ IF g[x].next = NULL THEN End(g, x) = Limit
                         ELSE g[x].next = End(g, x) /\ g[x].next \in DOMAIN g
    BY DEF Tiled
  <2>1. CASE x = a
    BY <2>1, <1>12, <1>17, <1>6, <1>1, <1>2, <1>3 DEF Tiled
  <2>2. CASE x = t
    BY <2>2, <1>13, <1>17, <1>6, <1>5, <1>1, <1>3, <1>2 DEF Tiled
  <2>3. CASE x \in DOMAIN h \ {a}
    BY <2>3, <1>15, <1>18, <1>6, <1>1 DEF Tiled
  <2> QED
    BY <2>1, <2>2, <2>3, <1>6
<1>21. Linked(g)
  <2> SUFFICES ASSUME NEW x \in DOMAIN g
               PROVE  /\ g[x].prev = NULL <=> x = Start
                      /\ g[x].prev # NULL => g[x].prev \in DOMAIN g /\ g[g[x].prev].next = x
                      /\ g[x].next # NULL => x < g[x].next /\ g[g[x].next].prev = x
    BY DEF Linked
  <2>1. CASE x = a
    <3>1. g[a].prev # NULL => /\ h[a].prev \in DOMAIN h \ {a} /\ h[h[a].prev].next = a
      BY <1>12, <1>1, <1>19 DEF Linked, Tiled
    <3> QED
      BY <2>1, <3>1, <1>12, <1>13, <1>15, <1>3, <1>6, <1>1 DEF Linked
  <2>2. CASE x = t
    <3>1. t # Start
      BY <1>1, <1>2, <1>3 DEF Tiled
    <3>2. c # NULL => t < c
      BY <1>5, <1>3
    <3> QED
      BY <2>2, <3>1, <3>2, <1>12, <1>13, <1>14, <1>5, <1>6, <1>2
  <2>3. CASE x = c /\ c # NULL
    <3>1. c # Start
      BY <1>5, <1>1, <1>2 DEF Linked
    <3>2. h[c].next # NULL => h[c].next \in DOMAIN h \ {c} /\ c < h[c].next /\ h[h[c].next].prev = c
      BY <2>3, <1>5, <1>1, <1>19 DEF Linked, Tiled
    <3>3. h[c].next # NULL => g[h[c].next].prev = h[h[c].next].prev
      BY <3>2, <1>16
    <3> QED
      BY <2>3, <3>1, <3>2, <3>3, <1>13, <1>14, <1>2, <1>5, <1>6, <1>3
  <2>4. CASE x \in DOMAIN h \ {a, c}
    <3>1. h[x].prev # NULL => h[x].prev \in DOMAIN h \ {a} /\ h[h[x].prev].next = x
      BY <2>4, <1>1 DEF Linked
    <3>2. h[x].next # NULL => h[x].next \in DOMAIN h \ {c} /\ x < h[x].next /\ h[h[x].next].prev = x
      BY <2>4, <1>1, <1>5 DEF Linked, Tiled
    <3> QED
      BY <2>4, <3>1, <3>2, <1>15, <1>16, <1>6, <1>1 DEF Linked
  <2> QED
    BY <2>1, <2>2, <2>3, <2>4, <1>6, <1>19
<1>22. Apart(g)
  <2>a. \A x \in DOMAIN g : End(g, x) <= Limit
    BY <1>1, <1>6, <1>17, <1>18, <1>3, <1>19 DEF Apart, Limit
  <2> SUFFICES ASSUME NEW x \in DOMAIN g, NEW y \in DOMAIN g, x < y
               PROVE  End(g, x) <= y
    BY <2>a DEF Apart
  <2>1. CASE x = a
    <3>1. y # t => End(h, a) <= y
      BY <2>1, <1>1, <1>6 DEF Apart
    <3> QED
      BY <2>1, <3>1, <1>17, <1>3, <1>6, <1>19
  <2>2. CASE x = t
    <3>1. y \in DOMAIN h /\ a < y
      BY <2>2, <1>3, <1>6, <1>2, <1>19
    <3> QED
      BY <2>2, <3>1, <1>17, <1>1 DEF Apart
  <2>3. CASE x \in DOMAIN h \ {a} /\ y = t
    <3>1. x < a
      BY <2>3, <1>1, <1>3, <1>19, <1>2 DEF Apart
    <3>2. End(h, x) <= a
      BY <2>3, <3>1, <1>1 DEF Apart
    <3> QED
      BY <2>3, <3>2, <1>18, <1>3, <1>19
  <2>4. CASE x \in DOMAIN h \ {a} /\ y \in DOMAIN h
    BY <2>4, <1>18, <1>1 DEF Apart
  <2> QED
    BY <2>1, <2>2, <2>3, <2>4, <1>6
<1>23. Shape(g)
  BY <1>11, <1>20, <1>21, <1>22 DEF Shape
<1> QED
  BY <1>23, <1>4, <1>6, <1>12, <1>13, <1>15 DEF g

\* What Absorb leaves: the chunks but for the absorbed one, in the same order.
LEMMA AbsorbShape ==
  ASSUME NEW h, Shape(h), NEW a \in DOMAIN h, NEW b, b = h[a].next, b # NULL,
         NEW g, g = Absorb(h, a)
  PROVE  /\ Shape(g)
         /\ b \in DOMAIN h /\ b # a
         /\ DOMAIN g = DOMAIN h \ {b}
         /\ g[a].next = h[b].next
         /\ \A x \in DOMAIN g : g[x].allocated = h[x].allocated
         /\ \A x \in DOMAIN g \ {a} : /\ g[x].next = h[x].next /\ g[x].next # b
                                      /\ g[x].size = h[x].size
<1> DEFINE c == h[b].next
<1> USE HeaderAssumption, HeapAssumption DEF NULL, Payload
<1>1. Typed(h) /\ Tiled(h) /\ Linked(h) /\ Apart(h)
  BY DEF Shape
<1>2. \A x \in DOMAIN h : /\ x \in Nat /\ x > 0 /\ h[x] \in MemoryChunk
                          /\ h[x].size \in Nat /\ End(h, x) \in Nat /\ End(h, x) > x
                          /\ h[x].next \in Nat /\ h[x].prev \in Nat
  BY <1>1 DEF Typed, Tiled, MemoryChunk, End
<1>3. b \in DOMAIN h /\ b = End(h, a) /\ a < b /\ a # b /\ h[b].prev = a
  BY <1>1, <1>2 DEF Tiled, Linked
<1>4. c # NULL => c \in DOMAIN h \ {a, b} /\ c = End(h, b) /\ b < c /\ h[c].prev = b
  BY <1>1, <1>2, <1>3 DEF Tiled, Linked
<1>5. DOMAIN g = DOMAIN h \ {b}
  BY DEF Absorb
<1>6. g[a] = [h[a] EXCEPT !.next = c, !.size = @ + h[b].size + Header]
  BY <1>3 DEF Absorb
<1>f. /\ h[a] \in MemoryChunk /\ h[a].size \in Nat
      /\ h[b] \in MemoryChunk /\ h[b].size \in Nat /\ c \in Nat
  BY <1>2, <1>3
<1>7. c # NULL => g[c] = [h[c] EXCEPT !.prev = a]
  BY <1>4 DEF Absorb
<1>8. \A x \in DOMAIN h \ {a, b, c} : g[x] = h[x]
  BY DEF Absorb
<1>9. g = [x \in DOMAIN g |-> g[x]]
  BY <1>5 DEF Absorb
<1>10. Typed(g)
  <2> DEFINE sz == h[a].size + h[b].size + Header
  <2>s. sz \in Nat
    BY <1>f
  <2>a. g[a] = [h[a] EXCEPT !.next = c, !.size = sz]
    BY <1>6
  <2> HIDE DEF sz
  <2>1. g[a] \in MemoryChunk
    BY <2>a, <2>s, <1>f DEF MemoryChunk
  <2>2. c # NULL => g[c] \in MemoryChunk
    BY <1>7, <1>4, <1>2 DEF MemoryChunk
  <2>3. \A x \in DOMAIN h \ {a, b, c} : g[x] \in MemoryChunk
    BY <1>8, <1>2
  <2>4. \A x \in DOMAIN g : g[x] \in MemoryChunk
    BY <2>1, <2>2, <2>3, <1>5, <1>2
  <2> QED
    BY <2>4, <1>9, <1>5, <1>2 DEF Typed
<1>11. /\ g[a].next = c /\ g[a].size = h[a].size + h[b].size + Header
       /\ g[a].prev = h[a].prev /\ g[a].allocated = h[a].allocated
  BY <1>6, <1>f DEF MemoryChunk
<1>12. c # NULL => /\ g[c].next = h[c].next /\ g[c].size = h[c].size /\ g[c].prev = a
                   /\ g[c].allocated = h[c].allocated
  BY <1>7, <1>4, <1>2 DEF MemoryChunk
<1>13. \A x \in DOMAIN h \ {a, b} : /\ g[x].next = h[x].next /\ g[x].size = h[x].size
                                    /\ g[x].allocated = h[x].allocated
  BY <1>8, <1>12, <1>2
<1>14. \A x \in DOMAIN h \ {b, c} : g[x].prev = h[x].prev
  BY <1>8, <1>11
<1>15. \A x \in DOMAIN h \ {a, b} : h[x].next # b
  BY <1>1, <1>2, <1>3 DEF Linked
<1>16. \A x \in DOMAIN h \ {c} : h[x].prev # b
  BY <1>1, <1>2, <1>3 DEF Linked
<1>17. End(g, a) = End(h, b) /\ \A x \in DOMAIN h \ {a, b} : End(g, x) = End(h, x)
  BY <1>11, <1>13, <1>3, <1>2 DEF End
<1>18. Tiled(g)
  <2> SUFFICES ASSUME NEW x \in DOMAIN g
               PROVE  /\ Start <= x
                      /\ IF g[x].next = NULL THEN End(g, x) = Limit
                         ELSE g[x].next = End(g, x) /\ g[x].next \in DOMAIN g
    BY DEF Tiled
  <2>1. CASE x = a
    BY <2>1, <1>11, <1>17, <1>5, <1>4, <1>3, <1>1 DEF Tiled
  <2>2. CASE x \in DOMAIN h \ {a, b}
    BY <2>2, <1>13, <1>15, <1>17, <1>5, <1>1 DEF Tiled
  <2> QED
    BY <2>1, <2>2, <1>5
<1>19. Linked(g)
  <2> SUFFICES ASSUME NEW x \in DOMAIN g
               PROVE  /\ g[x].prev = NULL <=> x = Start
                      /\ g[x].prev # NULL => g[x].prev \in DOMAIN g /\ g[g[x].prev].next = x
                      /\ g[x].next # NULL => x < g[x].next /\ g[g[x].next].prev = x
    BY DEF Linked
  <2>1. CASE x = a
    <3>1. g[a].prev # NULL => h[a].prev \in DOMAIN h \ {a, b} /\ h[h[a].prev].next = a
      BY <1>11, <1>1, <1>2, <1>3, <1>4 DEF Linked
    <3> QED
      <4>1. g[a].prev = NULL <=> a = Start
        BY <1>11, <1>1 DEF Linked
      <4>2. g[a].prev # NULL => g[a].prev \in DOMAIN g /\ g[g[a].prev].next = a
        BY <3>1, <1>11, <1>13, <1>5
      <4>3. g[a].next # NULL => a < g[a].next /\ g[g[a].next].prev = a
        BY <1>11, <1>12, <1>4, <1>3, <1>2
      <4> QED
        BY <2>1, <4>1, <4>2, <4>3
  <2>2. CASE x = c /\ c # NULL
    <3>1. c # Start
      BY <2>2, <1>4, <1>1, <1>3, <1>2 DEF Linked
    <3>2. h[c].next # NULL => /\ h[c].next \in DOMAIN h \ {b, c} /\ c < h[c].next
                              /\ h[h[c].next].prev = c
      BY <2>2, <1>4, <1>1, <1>2, <1>3 DEF Linked, Tiled
    <3>3. h[c].next # NULL => g[h[c].next].prev = h[h[c].next].prev
      BY <3>2, <1>14
    <3> QED
      BY <2>2, <3>1, <3>2, <3>3, <1>11, <1>12, <1>2, <1>3, <1>5
  <2>3. CASE x \in DOMAIN h \ {a, b, c}
    <3>1. h[x].prev # NULL => h[x].prev \in DOMAIN h \ {a, b} /\ h[h[x].prev].next = x
      BY <2>3, <1>1, <1>16 DEF Linked
    <3>2. h[x].next # NULL => /\ h[x].next \in DOMAIN h \ {b, c} /\ x < h[x].next
                              /\ h[h[x].next].prev = x
      BY <2>3, <1>1, <1>2, <1>4, <1>15 DEF Linked, Tiled
    <3> QED
      <4>1. g[x].prev = NULL <=> x = Start
        BY <2>3, <1>14, <1>1 DEF Linked
      <4>2. g[x].prev # NULL => g[x].prev \in DOMAIN g /\ g[g[x].prev].next = x
        BY <2>3, <3>1, <1>13, <1>14, <1>5
      <4>3. g[x].next # NULL => x < g[x].next /\ g[g[x].next].prev = x
        BY <2>3, <3>2, <1>13, <1>14
      <4> QED
        BY <4>1, <4>2, <4>3
  <2> QED
    BY <2>1, <2>2, <2>3, <1>5, <1>2
<1>20. Apart(g)
  <2>a. \A x \in DOMAIN g : End(g, x) <= Limit
    BY <1>1, <1>3, <1>5, <1>17 DEF Apart
  <2> SUFFICES ASSUME NEW x \in DOMAIN g, NEW y \in DOMAIN g, x < y
               PROVE  End(g, x) <= y
    BY <2>a DEF Apart
  <2>1. CASE x = a
    <3>1. b <= y /\ y # b
      BY <2>1, <1>1, <1>3, <1>5 DEF Apart
    <3> QED
      BY <2>1, <3>1, <1>17, <1>1, <1>2, <1>3, <1>5 DEF Apart
  <2>2. CASE x \in DOMAIN h \ {a, b}
    BY <2>2, <1>17, <1>1, <1>5 DEF Apart
  <2> QED
    BY <2>1, <2>2, <1>5
<1>21. Shape(g)
  BY <1>10, <1>18, <1>19, <1>20 DEF Shape
<1> QED
  BY <1>21, <1>3, <1>5, <1>11, <1>13, <1>15, <1>2

-----------------------------------------------------------------------------
(***************************************************************************)
(* malloc and free.  SameBlocks: the allocated chunks of h, but for chunk  *)
(* a, are those of g, but for chunk a, with their sizes.                   *)
(***************************************************************************)
Kept(h, g, x) == x \in DOMAIN g /\ g[x].allocated /\ g[x].size = h[x].size

SameBlocks(h, g, a) ==
  /\ \A x \in DOMAIN h \ {a} : h[x].allocated => Kept(h, g, x)
  /\ \A x \in DOMAIN g \ {a} : g[x].allocated => Kept(g, h, x)

LEMMA TakeKeepsList ==
  ASSUME NEW h, Shape(h), \A x \in DOMAIN h : NotBothFree(h, x),
         NEW a \in DOMAIN h, NEW n \in Nat, h[a].size > n, ~h[a].allocated
  PROVE  LET g == Take(h, a, n)
         IN  /\ Shape(g)
             /\ \A x \in DOMAIN g : NotBothFree(g, x)
             /\ SameBlocks(h, g, a)
             /\ a \in DOMAIN g /\ g[a].allocated /\ g[a].size - n \in 0 .. Header
<1> USE HeaderAssumption, HeapAssumption DEF NULL
<1> DEFINE cut == h[a].size >= n + Header + 1
           s == IF cut THEN Split(h, a, n) ELSE h
           g == Take(h, a, n)
           t == Payload(a) + n
<1>1. Allocated(s, g, a)
  BY DEF Take, Allocated
<1>2. h[a].size \in Nat /\ Typed(h) /\ Tiled(h)
  BY DEF Shape, Typed, MemoryChunk
<1>3. CASE cut
  <2>1. s = Split(h, a, n)
    BY <1>3
  <2>2. /\ Shape(s) /\ t \notin DOMAIN h /\ DOMAIN s = DOMAIN h \cup {t}
        /\ s[a].next = t /\ s[a].size = n
        /\ s[t].next = h[a].next /\ ~s[t].allocated
        /\ \A x \in DOMAIN h : s[x].allocated = h[x].allocated
        /\ \A x \in DOMAIN h \ {a} : s[x].next = h[x].next /\ s[x].size = h[x].size
    BY <2>1, <1>3, SplitShape
  <2> HIDE DEF g, s, t
  <2>a. a \in DOMAIN s
    BY <2>2
  <2>3. /\ Shape(g) /\ DOMAIN g = DOMAIN s
        /\ \A x \in DOMAIN s : /\ g[x].next = s[x].next /\ g[x].size = s[x].size
                               /\ x # a => g[x].allocated = s[x].allocated
        /\ g[a].allocated
    BY <2>2, <2>a, <1>1, FlagShape
  <2>b. /\ g[a].allocated
        /\ \A x \in DOMAIN h \ {a} : /\ g[x].next = h[x].next /\ g[x].size = h[x].size
                                     /\ g[x].allocated = h[x].allocated
    BY <2>2, <2>3
  <2>c. \A x \in DOMAIN h : h[x].next # NULL => /\ h[x].next \in DOMAIN h
                                                /\ h[x].allocated \/ h[h[x].next].allocated
    BY <1>2 DEF NotBothFree, Tiled
  <2>4. \A x \in DOMAIN g : NotBothFree(g, x)
    <3> SUFFICES ASSUME NEW x \in DOMAIN g, g[x].next # NULL
                 PROVE  g[x].allocated \/ g[g[x].next].allocated
      BY DEF NotBothFree
    <3>1. CASE x = a
      BY <3>1, <2>2, <2>3
    <3>2. CASE x = t
      BY <3>2, <2>2, <2>3, <2>b, <2>c
    <3>3. CASE x \in DOMAIN h \ {a}
      BY <3>3, <2>b, <2>c
    <3> QED
      BY <3>1, <3>2, <3>3, <2>2, <2>3
  <2>5. SameBlocks(h, g, a)
    <3>1. DOMAIN g = DOMAIN h \cup {t} /\ ~g[t].allocated
      BY <2>2, <2>3
    <3> QED
      BY <3>1, <2>b DEF SameBlocks, Kept
  <2>6. g[a].size - n \in 0 .. Header
    <3>1. g[a].size = n
      BY <2>a, <2>2, <2>3
    <3> QED
      BY <3>1
  <2> QED
    BY <2>a, <2>b, <2>3, <2>4, <2>5, <2>6 DEF g
<1>4. CASE ~cut
  <2>1. s = h
    BY <1>4
  <2> HIDE DEF g, s
  <2>3. /\ Shape(g) /\ DOMAIN g = DOMAIN h
        /\ \A x \in DOMAIN h : /\ g[x].next = h[x].next /\ g[x].size = h[x].size
                               /\ x # a => g[x].allocated = h[x].allocated
        /\ g[a].allocated
    BY <2>1, <1>1, FlagShape
  <2>4. h[a].size - n \in 0 .. Header
    BY <1>4, <1>2
  <2>5. \A x \in DOMAIN g : NotBothFree(g, x)
    BY <2>3, <1>2 DEF NotBothFree, Tiled
  <2>6. SameBlocks(h, g, a)
    BY <2>3 DEF SameBlocks, Kept
  <2> QED
    BY <2>3, <2>4, <2>5, <2>6 DEF g
<1> QED
  BY <1>3, <1>4

\* Joining two free chunks keeps every allocated one.
LEMMA AbsorbKeepsBlocks ==
  ASSUME NEW h, Shape(h), NEW a \in DOMAIN h, h[a].next # NULL,
         ~h[a].allocated, ~h[h[a].next].allocated
  PROVE  \A x : SameBlocks(h, Absorb(h, a), x)
<1> DEFINE g == Absorb(h, a)
<1>1. /\ DOMAIN g = DOMAIN h \ {h[a].next}
      /\ \A x \in DOMAIN g : g[x].allocated = h[x].allocated
      /\ \A x \in DOMAIN g \ {a} : g[x].size = h[x].size
  BY AbsorbShape
<1> HIDE DEF g
<1>2. \A x : SameBlocks(h, g, x)
  BY <1>1 DEF SameBlocks, Kept
<1> QED
  BY <1>2 DEF g

\* After JoinPrev only the joined chunk may be free beside a free successor.
LEMMA JoinPrevKeepsList ==
  ASSUME NEW h, Shape(h), NEW a \in DOMAIN h, ~h[a].allocated,
         \A x \in DOMAIN h : x # a /\ h[x].next # a => NotBothFree(h, x)
  PROVE  LET g == JoinPrev(h, a)
             d == Joined(h, a)
         IN  /\ Shape(g) /\ d \in DOMAIN g /\ ~g[d].allocated
             /\ \A x \in DOMAIN g \ {d} : NotBothFree(g, x)
             /\ \A x : SameBlocks(h, g, x)
<1> USE HeapAssumption DEF NULL
<1> DEFINE p == h[a].prev
           g == JoinPrev(h, a)
           d == Joined(h, a)
<1>1. Linked(h) /\ Tiled(h) /\ Typed(h)
  BY DEF Shape
<1>2. CASE p # NULL /\ ~h[p].allocated
  <2>1. g = Absorb(h, p) /\ d = p
    BY <1>2 DEF JoinPrev, Joined
  <2>2. p \in DOMAIN h /\ h[p].next = a /\ a # NULL
    BY <1>2, <1>1 DEF Linked, Tiled
  <2>3. /\ Shape(g) /\ a # p /\ DOMAIN g = DOMAIN h \ {a}
        /\ \A x \in DOMAIN g : g[x].allocated = h[x].allocated
        /\ \A x \in DOMAIN g \ {p} : g[x].next = h[x].next /\ g[x].next # a
    BY <2>1, <2>2, AbsorbShape
  <2>4. \A x : SameBlocks(h, g, x)
    BY <2>1, <2>2, <1>2, AbsorbKeepsBlocks
  <2> HIDE DEF g, d
  <2>5. \A x \in DOMAIN g \ {d} : NotBothFree(g, x)
    BY <2>1, <2>3, <1>1 DEF NotBothFree, Tiled
  <2> QED
    BY <2>1, <2>2, <2>3, <2>4, <2>5, <1>2 DEF g, d
<1>3. CASE ~(p # NULL /\ ~h[p].allocated)
  <2>1. g = h /\ d = a
    BY <1>3 DEF JoinPrev, Joined
  <2>2. \A x \in DOMAIN h : h[x].next = a => h[x].allocated
    BY <1>3, <1>1 DEF Linked, Tiled
  <2>3. \A x \in DOMAIN h \ {a} : NotBothFree(h, x)
    BY <2>2 DEF NotBothFree
  <2>4. \A x : SameBlocks(h, h, x)
    BY DEF SameBlocks, Kept
  <2> QED
    BY <2>1, <2>3, <2>4
<1> QED
  BY <1>2, <1>3

\* After JoinNext nothing is left to join.
LEMMA JoinNextKeepsList ==
  ASSUME NEW h, Shape(h), NEW a \in DOMAIN h, ~h[a].allocated,
         \A x \in DOMAIN h \ {a} : NotBothFree(h, x)
  PROVE  LET g == JoinNext(h, a)
         IN  /\ Shape(g)
             /\ \A x \in DOMAIN g : NotBothFree(g, x)
             /\ \A x : SameBlocks(h, g, x)
<1> USE HeapAssumption DEF NULL
<1> DEFINE s == h[a].next
           g == JoinNext(h, a)
<1>1. Linked(h) /\ Tiled(h) /\ Typed(h)
  BY DEF Shape
<1>2. CASE s # NULL /\ ~h[s].allocated
  <2>1. g = Absorb(h, a)
    BY <1>2 DEF JoinNext
  <2>2. /\ Shape(g) /\ s \in DOMAIN h /\ s # a /\ DOMAIN g = DOMAIN h \ {s}
        /\ g[a].next = h[s].next
        /\ \A x \in DOMAIN g : g[x].allocated = h[x].allocated
        /\ \A x \in DOMAIN g \ {a} : g[x].next = h[x].next /\ g[x].next # s
    BY <2>1, <1>2, AbsorbShape
  <2>3. \A x : SameBlocks(h, g, x)
    BY <2>1, <1>2, AbsorbKeepsBlocks
  <2> HIDE DEF g
  <2>4. \A x \in DOMAIN g \ {a} : NotBothFree(g, x)
    BY <2>2, <1>1 DEF NotBothFree, Tiled
  <2>5. NotBothFree(g, a)
    <3>1. h[s].next # NULL => h[h[s].next].allocated /\ h[s].next \in DOMAIN h
      BY <1>2, <2>2, <1>1 DEF NotBothFree, Tiled
    <3>2. h[s].next # s
      BY <2>2, <1>1, <1>2 DEF Linked, Typed
    <3> QED
      BY <3>1, <3>2, <2>2 DEF NotBothFree
  <2> QED
    BY <2>2, <2>3, <2>4, <2>5 DEF g
<1>3. CASE ~(s # NULL /\ ~h[s].allocated)
  <2>1. g = h
    BY <1>3 DEF JoinNext
  <2>2. NotBothFree(h, a)
    BY <1>3 DEF NotBothFree
  <2>3. \A x : SameBlocks(h, h, x)
    BY DEF SameBlocks, Kept
  <2> QED
    BY <2>1, <2>2, <2>3
<1> QED
  BY <1>2, <1>3

LEMMA GiveKeepsList ==
  ASSUME NEW h, Shape(h), \A x \in DOMAIN h : NotBothFree(h, x), NEW a \in DOMAIN h
  PROVE  LET g == Give(h, a)
         IN  /\ Shape(g)
             /\ \A x \in DOMAIN g : NotBothFree(g, x)
             /\ SameBlocks(h, g, a)
             /\ a \in DOMAIN g => ~g[a].allocated
<1> DEFINE f == [h EXCEPT ![a].allocated = FALSE]
           j == JoinPrev(f, a)
           d == Joined(f, a)
           g == JoinNext(j, d)
<1>1. Linked(h) /\ Tiled(h) /\ Typed(h)
  BY DEF Shape
<1>f. Freed(h, f, a)
  BY DEF Freed
<1>j. j = JoinPrev(f, a) /\ d = Joined(f, a) /\ g = JoinNext(j, d)
  OBVIOUS
<1> HIDE DEF f, j, d, g
<1>2. /\ Shape(f) /\ DOMAIN f = DOMAIN h
      /\ \A x \in DOMAIN h : /\ f[x].next = h[x].next /\ f[x].size = h[x].size
                             /\ x # a => f[x].allocated = h[x].allocated
      /\ ~f[a].allocated
  BY <1>f, FlagShape
<1>3. \A x \in DOMAIN f : x # a /\ f[x].next # a => NotBothFree(f, x)
  BY <1>2, <1>1 DEF NotBothFree, Tiled
<1>4. ~f[a].allocated /\ SameBlocks(h, f, a)
  BY <1>2 DEF SameBlocks, Kept
<1>5. /\ Shape(j) /\ d \in DOMAIN j /\ ~j[d].allocated
      /\ \A x \in DOMAIN j \ {d} : NotBothFree(j, x)
      /\ \A x : SameBlocks(f, j, x)
  BY <1>j, <1>2, <1>3, <1>4, JoinPrevKeepsList
<1>6. /\ Shape(g)
      /\ \A x \in DOMAIN g : NotBothFree(g, x)
      /\ \A x : SameBlocks(j, g, x)
  BY <1>j, <1>5, JoinNextKeepsList
<1>7. SameBlocks(h, g, a)
  <2>1. SameBlocks(f, j, a) /\ SameBlocks(j, g, a)
    BY <1>5, <1>6
  <2> QED
    BY <2>1, <1>4 DEF SameBlocks, Kept
<1>8. a \in DOMAIN g => ~g[a].allocated
  <2>1. a \in DOMAIN j => ~j[a].allocated
    <3> SUFFICES ASSUME a \in DOMAIN j, j[a].allocated PROVE FALSE
      OBVIOUS
    <3>1. SameBlocks(f, j, j)
      BY <1>5
    <3>2. SameBlocks(f, j, d)
      BY <1>5
    <3>3. a # d
      BY <1>5
    <3> QED
      BY <3>2, <3>3, <1>4 DEF SameBlocks, Kept
  <2> SUFFICES ASSUME a \in DOMAIN g, g[a].allocated PROVE FALSE
    OBVIOUS
  <2>2. PICK z : z # a
    BY <1>1, a # a + 1 DEF Typed
  <2>3. SameBlocks(j, g, z)
    BY <1>6
  <2> QED
    BY <2>1, <2>2, <2>3 DEF SameBlocks, Kept
<1>9. Give(h, a) = g
  BY DEF Give, f, j, d, g
<1> QED
  BY <1>6, <1>7, <1>8, <1>9

-----------------------------------------------------------------------------
LEMMA InitIInv == MemInit => IInv
<1> SUFFICES ASSUME MemInit PROVE IInv
  OBVIOUS
<1> USE HeaderAssumption, HeapAssumption DEF MemInit
<1>1. CASE HeapSize < Header
  BY <1>1 DEF IInv, MemTypeOK, BlocksAreChunks, NotBothFree, Shape, Typed, Tiled, Linked, Apart
<1>2. CASE ~(HeapSize < Header)
  <2> DEFINE c == [next |-> NULL, prev |-> NULL, allocated |-> FALSE,
                   size |-> HeapSize - Header]
  <2>1. DOMAIN heap = {Start} /\ heap = [a \in {Start} |-> c]
    BY <1>2
  <2>2. heap[Start] = c /\ c \in MemoryChunk
    BY <1>2, <2>1 DEF MemoryChunk, NULL
  <2>3. End(heap, Start) = Limit
    BY <2>2 DEF End, Payload, Limit
  <2>4. MemTypeOK /\ Typed(heap)
    BY <2>1, <2>2 DEF MemTypeOK, Typed
  <2>5. Shape(heap)
    <3> DEFINE e == End(heap, Start)
    <3> HIDE DEF c
    <3>0. e = Limit /\ Limit \in Nat
      BY <2>3 DEF Limit
    <3>1. heap[Start].next = NULL /\ heap[Start].prev = NULL
      BY <2>2 DEF c
    <3> HIDE DEF e
    <3>2. Tiled(heap)
      BY <2>1, <3>0, <3>1 DEF Tiled, e
    <3>3. Linked(heap)
      BY <2>1, <3>1 DEF Linked
    <3>4. Apart(heap)
      <4>1. DOMAIN heap = {Start} /\ End(heap, Start) <= Limit /\ ~(Start < Start)
        BY <2>1, <3>0 DEF e
      <4> QED
        BY ONLY <4>1 DEF Apart
    <3> QED
      BY <2>4, <3>2, <3>3, <3>4 DEF Shape
  <2>6. BlocksAreChunks /\ \A a \in DOMAIN heap : NotBothFree(heap, a)
    BY <2>1, <2>2 DEF BlocksAreChunks, NotBothFree
  <2> QED
    BY <2>4, <2>5, <2>6 DEF IInv
<1> QED
  BY <1>1, <1>2

LEMMA MallocIInv ==
  ASSUME IInv, NEW n \in Nat, Malloc(n)
  PROVE  IInv'
<1> USE HeaderAssumption
<1>1. PICK a \in DOMAIN heap :
         /\ Fits(a, n) /\ heap' = Take(heap, a, n)
         /\ blocks' = [p \in DOMAIN blocks \cup {Payload(a)} |->
                         IF p = Payload(a) THEN n ELSE blocks[p]]
  BY DEF Malloc, FirstFit
<1>2. /\ Shape(heap')
      /\ \A x \in DOMAIN heap' : NotBothFree(heap', x)
      /\ SameBlocks(heap, heap', a)
      /\ a \in DOMAIN heap' /\ heap'[a].allocated /\ heap'[a].size - n \in 0 .. Header
  BY <1>1, TakeKeepsList DEF IInv, Fits
<1>3. a \in Nat /\ DOMAIN heap \subseteq Nat /\ DOMAIN heap' \subseteq Nat
  BY <1>2 DEF IInv, MemTypeOK, Shape, Typed
<1>4. DOMAIN blocks \subseteq Nat /\ blocks \in [DOMAIN blocks -> Nat]
  BY DEF IInv, MemTypeOK
<1>5. MemTypeOK'
  BY <1>1, <1>2, <1>3, <1>4 DEF MemTypeOK, Shape, Typed, Payload
<1>6. BlocksAreChunks'
  <2>1. ASSUME NEW p \in DOMAIN blocks'
        PROVE  /\ p - Header \in DOMAIN heap'
               /\ heap'[p - Header].allocated
               /\ heap'[p - Header].size - blocks'[p] \in 0 .. Header
    <3>1. CASE p = Payload(a)
      BY <3>1, <1>1, <1>2, <1>3 DEF Payload
    <3>2. CASE p # Payload(a)
      <4>1. p \in DOMAIN blocks /\ blocks'[p] = blocks[p] /\ p - Header # a
        BY <3>2, <1>1, <1>3, <1>4 DEF Payload
      <4>2. /\ p - Header \in DOMAIN heap \ {a} /\ heap[p - Header].allocated
            /\ heap[p - Header].size - blocks[p] \in 0 .. Header
        BY <4>1 DEF IInv, BlocksAreChunks
      <4> QED
        BY <4>1, <4>2, <1>2 DEF SameBlocks, Kept
    <3> QED
      BY <3>1, <3>2
  <2>2. ASSUME NEW x \in DOMAIN heap', heap'[x].allocated
        PROVE  Payload(x) \in DOMAIN blocks'
    <3>1. CASE x = a
      BY <3>1, <1>1
    <3>2. CASE x # a
      BY <2>2, <3>2, <1>2, <1>1 DEF SameBlocks, Kept, IInv, BlocksAreChunks
    <3> QED
      BY <3>1, <3>2
  <2> QED
    BY <2>1, <2>2 DEF BlocksAreChunks, Payload
<1> QED
  BY <1>2, <1>5, <1>6 DEF IInv

LEMMA FreeIInv ==
  ASSUME IInv, NEW p \in DOMAIN blocks, Free(p)
  PROVE  IInv'
<1> USE HeaderAssumption
<1> DEFINE a == p - Header
<1>1. /\ heap' = Give(heap, a)
      /\ blocks' = [q \in DOMAIN blocks \ {p} |-> blocks[q]]
  BY DEF Free
<1>2. a \in DOMAIN heap
  BY DEF IInv, BlocksAreChunks
<1>3. DOMAIN blocks \subseteq Nat /\ blocks \in [DOMAIN blocks -> Nat] /\ a \in Nat
  BY <1>2 DEF IInv, MemTypeOK
<1> HIDE DEF a
<1>4. /\ Shape(heap')
      /\ \A x \in DOMAIN heap' : NotBothFree(heap', x)
      /\ SameBlocks(heap, heap', a)
      /\ a \in DOMAIN heap' => ~heap'[a].allocated
  BY <1>1, <1>2, GiveKeepsList DEF IInv
<1>5. MemTypeOK'
  BY <1>1, <1>3, <1>4 DEF MemTypeOK, Shape, Typed
<1>6. BlocksAreChunks'
  <2>1. ASSUME NEW q \in DOMAIN blocks'
        PROVE  /\ q - Header \in DOMAIN heap'
               /\ heap'[q - Header].allocated
               /\ heap'[q - Header].size - blocks'[q] \in 0 .. Header
    <3>1. q \in DOMAIN blocks /\ blocks'[q] = blocks[q] /\ q - Header # a
      BY <1>1, <1>3 DEF a
    <3>2. /\ q - Header \in DOMAIN heap \ {a} /\ heap[q - Header].allocated
          /\ heap[q - Header].size - blocks[q] \in 0 .. Header
      BY <3>1 DEF IInv, BlocksAreChunks
    <3> QED
      BY <3>1, <3>2, <1>4 DEF SameBlocks, Kept
  <2>2. ASSUME NEW x \in DOMAIN heap', heap'[x].allocated
        PROVE  Payload(x) \in DOMAIN blocks'
    <3>1. x # a /\ x \in DOMAIN heap /\ heap[x].allocated
      BY <2>2, <1>4 DEF SameBlocks, Kept
    <3>2. x \in Nat /\ Payload(x) \in DOMAIN blocks
      BY <3>1 DEF IInv, MemTypeOK, BlocksAreChunks
    <3>3. Payload(x) # p
      BY <3>1, <3>2, <1>3 DEF Payload, a
    <3> QED
      BY <3>2, <3>3, <1>1
  <2> QED
    BY <2>1, <2>2 DEF BlocksAreChunks, Payload
<1> QED
  BY <1>4, <1>5, <1>6 DEF IInv

LEMMA NextIInv == IInv /\ [MemNext]_memVars => IInv'
<1> SUFFICES ASSUME IInv, [MemNext]_memVars PROVE IInv'
  OBVIOUS
<1>1. ASSUME NEW n \in Sizes, Malloc(n) PROVE IInv'
  BY <1>1, MallocIInv, SizesAssumption
<1>2. ASSUME UNCHANGED memVars PROVE IInv'
  BY <1>2 DEF memVars, IInv, MemTypeOK, BlocksAreChunks, Shape, Typed, Tiled,
              Linked, Apart, NotBothFree, End, Payload
<1>3. ASSUME NEW p \in DOMAIN blocks, Free(p) PROVE IInv'
  BY <1>3, FreeIInv
<1> QED
  BY <1>1, <1>2, <1>3 DEF MemNext, MallocFails

(***************************************************************************)
(* What a run checks on a heap of sixteen bytes holds of every heap.       *)
(***************************************************************************)
\* The invariants of the list and of what callers hold (malloc, free).
THEOREM HeapInvariance == MemSpec => []IInv
<1> QED
  BY InitIInv, NextIInv, PTL DEF MemSpec

\* Chunks and blocks are what they should be.
THEOREM HeapTyped == MemSpec => []MemTypeOK
<1>1. IInv => MemTypeOK
  BY DEF IInv
<1> QED
  BY <1>1, HeapInvariance, PTL

\* No byte of the managed memory is lost, and none belongs to two chunks.
THEOREM HeapTiled == MemSpec => []Tiling
<1>1. IInv => Tiling
  BY DEF IInv, Shape, Tiled, Tiling
<1> QED
  BY <1>1, HeapInvariance, PTL

\* The list stays doubly linked and in address order.
THEOREM HeapListInOrder == MemSpec => []ListInOrder
<1>1. IInv => ListInOrder
  BY DEF IInv, Shape, Linked, ListInOrder
<1> QED
  BY <1>1, HeapInvariance, PTL

\* free leaves no two free neighbours, nor does a split.
THEOREM HeapCoalesced == MemSpec => []NoAdjacentFree
<1>1. IInv => NoAdjacentFree
  BY DEF IInv, NotBothFree, NoAdjacentFree
<1> QED
  BY <1>1, HeapInvariance, PTL

\* Blocks and allocated chunks correspond, with at most a header to spare.
THEOREM HeapBlocks == MemSpec => []BlocksAreChunks
<1>1. IInv => BlocksAreChunks
  BY DEF IInv
<1> QED
  BY <1>1, HeapInvariance, PTL

\* With everything freed the heap is the constructor's single chunk again:
\* the chunk before a second one would be free too, against NoAdjacentFree.
THEOREM HeapWhole == MemSpec => []WholeWhenEmpty
<1>1. IInv => WholeWhenEmpty
  <2> SUFFICES ASSUME IInv, \A a \in DOMAIN heap : ~heap[a].allocated,
                      NEW a \in DOMAIN heap, a # Start
               PROVE  FALSE
    BY DEF WholeWhenEmpty
  <2>1. Linked(heap) /\ Tiled(heap)
    BY DEF IInv, Shape
  <2>2. PICK p \in DOMAIN heap : heap[p].next = a
    BY <2>1 DEF Linked
  <2>3. a # NULL
    BY <2>1, HeapAssumption DEF Tiled, NULL
  <2> QED
    BY <2>2, <2>3 DEF IInv, NotBothFree
<1> QED
  BY <1>1, HeapInvariance, PTL

-----------------------------------------------------------------------------
\* A block ends inside its chunk, and its chunk inside the managed memory.
LEMMA BlockBounds ==
  ASSUME IInv, NEW p \in DOMAIN blocks
  PROVE  /\ p - Header \in DOMAIN heap /\ heap[p - Header].allocated
         /\ Start <= p - Header /\ p \in Nat /\ blocks[p] \in Nat
         /\ End(heap, p - Header) \in Nat
         /\ p + blocks[p] <= End(heap, p - Header)
         /\ End(heap, p - Header) <= Limit
<1> USE HeaderAssumption, HeapAssumption
<1> DEFINE a == p - Header
<1>1. /\ a \in DOMAIN heap /\ heap[a].allocated
      /\ heap[a].size - blocks[p] \in 0 .. Header
  BY DEF IInv, BlocksAreChunks
<1>2. p \in Nat /\ blocks[p] \in Nat /\ heap[a].size \in Nat
  BY <1>1 DEF IInv, MemTypeOK, MemoryChunk
<1>3. Start <= a /\ End(heap, a) <= Limit
  BY <1>1 DEF IInv, Shape, Tiled, Apart
<1>4. End(heap, a) = p + heap[a].size
  BY <1>2 DEF End, Payload
<1> QED
  BY <1>1, <1>2, <1>3, <1>4

LEMMA MallocObtains ==
  ASSUME IInv, NEW n \in Nat, Malloc(n)
  PROVE  H!Obtain(n)
<1> USE HeaderAssumption, HeapAssumption
<1>1. PICK a \in DOMAIN heap :
         /\ Fits(a, n)
         /\ blocks' = [p \in DOMAIN blocks \cup {Payload(a)} |->
                         IF p = Payload(a) THEN n ELSE blocks[p]]
  BY DEF Malloc, FirstFit
<1>2. /\ a \in Nat /\ heap[a].size \in Nat /\ heap[a].size > n /\ ~heap[a].allocated
      /\ Start <= a /\ End(heap, a) <= Limit
  BY <1>1 DEF Fits, IInv, MemTypeOK, MemoryChunk, Shape, Tiled, Apart
<1>3. /\ Payload(a) \in Nat /\ a < Payload(a) /\ Payload(a) - Header = a
      /\ Payload(a) + n < End(heap, a) /\ End(heap, a) \in Nat
  BY <1>2 DEF Payload, End
<1>4. Payload(a) \notin DOMAIN blocks
  BY <1>2, <1>3 DEF IInv, BlocksAreChunks
<1>5. H!Vacant(Payload(a), n)
  <2>1. Start <= Payload(a) /\ Payload(a) + n <= Limit
    BY <1>2, <1>3 DEF Limit
  <2>2. ASSUME NEW b \in DOMAIN blocks
        PROVE  Payload(a) + n <= b \/ b + blocks[b] <= Payload(a)
    <3>1. /\ b - Header \in DOMAIN heap /\ b - Header # a
          /\ b \in Nat /\ blocks[b] \in Nat /\ End(heap, b - Header) \in Nat
          /\ b + blocks[b] <= End(heap, b - Header)
      BY BlockBounds, <1>2
    <3>2. CASE a < b - Header
      <4>1. End(heap, a) <= b - Header
        BY <3>1, <3>2 DEF IInv, Shape, Apart
      <4> QED
        BY <4>1, <3>1, <1>2, <1>3
    <3>3. CASE b - Header < a
      <4>1. End(heap, b - Header) <= a
        BY <3>1, <3>3 DEF IInv, Shape, Apart
      <4> QED
        BY <4>1, <3>1, <1>2, <1>3
    <3> QED
      BY <3>1, <3>2, <3>3, <1>2
  <2> QED
    BY <2>1, <2>2 DEF H!Vacant
<1>6. Payload(a) \in Start .. Limit
  BY <1>2, <1>3 DEF Limit
<1> QED
  BY <1>1, <1>4, <1>5, <1>6 DEF H!Obtain

\* malloc and free keep the promises of Heap: every block is inside the
\* managed memory, clear of all others and untouched until it is freed.
THEOREM HeapRefinement == MemSpec => ImplementsHeap
<1>1. MemInit => H!HeapInit
  BY DEF MemInit, H!HeapInit
<1>2. IInv /\ [MemNext]_memVars => [H!HeapNext]_blocks
  <2> SUFFICES ASSUME IInv, [MemNext]_memVars PROVE [H!HeapNext]_blocks
    OBVIOUS
  <2>1. ASSUME NEW n \in Sizes, Malloc(n) PROVE H!HeapNext
    BY <2>1, MallocObtains, SizesAssumption DEF H!HeapNext
  <2>2. ASSUME UNCHANGED memVars PROVE UNCHANGED blocks
    BY <2>2 DEF memVars
  <2>3. ASSUME NEW p \in DOMAIN blocks, Free(p) PROVE H!HeapNext
    <3>1. p \in Start .. Limit
      BY BlockBounds, HeaderAssumption, HeapAssumption DEF Limit
    <3> QED
      BY <2>3, <3>1 DEF Free, H!Release, H!HeapNext
  <2> QED
    BY <2>1, <2>2, <2>3 DEF MemNext, MallocFails
<1> QED
  BY <1>1, <1>2, HeapInvariance, PTL DEF MemSpec, ImplementsHeap, H!HeapSpec
=============================================================================
