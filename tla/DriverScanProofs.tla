-------------------------- MODULE DriverScanProofs --------------------------
(***************************************************************************)
(* The scan of the buses for any number of devices, any heap and any size  *)
(* of a driver.  To the heap the scan is one more caller, so that all its  *)
(* invariants hold here too; from them follows that no two drivers share a *)
(* block.  That every card has one driver is an argument about the order   *)
(* of the loops: what has been driven or has failed are the cards before   *)
(* the current position.                                                   *)
(***************************************************************************)
EXTENDS DriverScan, MemoryManagerProofs, SequenceTheorems

LEMMA StepIsMemStep == [ScanNext]_scanVars => [MemNext]_memVars
<1> SUFFICES ASSUME [ScanNext]_scanVars PROVE [MemNext]_memVars
  OBVIOUS
<1>1. CASE OthersUseHeap
  BY <1>1 DEF OthersUseHeap, MemNext
<1>2. CASE NextFunction
  BY <1>2, ScanAssumption DEF NextFunction, GetDriver, MemNext, ScanAssumption
<1>3. CASE SelectDrivers \/ NextDevice \/ DeviceDone \/ ScanDone \/ UNCHANGED scanVars
  BY <1>3 DEF SelectDrivers, NextDevice, DeviceDone, ScanDone, scanVars
<1>4. QED
  BY <1>1, <1>2, <1>3 DEF ScanNext

(***************************************************************************)
(* With drivers among its callers the heap does what it does for any       *)
(* others (pci.cpp:170, memorymanagement.cpp:33-89).                       *)
(***************************************************************************)
THEOREM ScanUsesHeap == ScanSpec => MemSpec
<1>1. ScanInit => MemInit
  BY DEF ScanInit
<1>2. QED
  BY <1>1, StepIsMemStep, PTL DEF ScanSpec, MemSpec

-----------------------------------------------------------------------------
(***************************************************************************)
(* The inductive invariant.                                                *)
(***************************************************************************)
ScanTyped ==
  /\ scan \in {"before", "device", "functions", "over"}
  /\ device \in Nat /\ function \in Nat /\ numFunctions \in Nat
  /\ \E S : drivers \in Seq(S)
  /\ handlers = [v \in Vectors |-> handlers[v]]
  /\ \A c \in cards : c.device \in Nat /\ c.function \in Nat /\ c.line \in Lines

Past(c) ==
  \/ c.device < device
  \/ scan = "functions" /\ c.device = device /\ c.function < function

Driven == {drivers[i].card : i \in DOMAIN drivers}

SlotShape ==
  /\ \A c \in cards : c.device < device \/ (scan = "functions" /\ c.device = device)
  /\ scan = "functions" =>
       /\ function <= numFunctions
       /\ \A f \in 0 .. numFunctions - 1 : slot.at[f].kind = "card" =>
            slot.at[f] \in cards /\ slot.at[f].device = device /\ slot.at[f].function = f
       /\ \A c \in cards : c.device = device =>
            c.function < numFunctions /\ slot.at[c.function] = c /\ c.kind = "card"

PastAreDone == Driven \cup failed = {c \in cards : Past(c)}

DriversApart ==
  /\ \A i \in DOMAIN drivers :
        LET d == drivers[i] IN
        d.card \notin failed /\ (d.card.base # Unmapped => d.base = d.card.base)
  /\ \A i, j \in DOMAIN drivers : drivers[i].card = drivers[j].card => i = j

ScanInv ==
  ScanTyped /\ SlotShape /\ PastAreDone /\ DriversApart /\ BlocksKept /\ LastOnLineServed

LEMMA DriversAreNumbered ==
  ScanTyped => DOMAIN drivers = 1 .. Len(drivers) /\ Len(drivers) \in Nat
  BY LenProperties DEF ScanTyped

\* What AddDriver does to the drivers.
LEMMA Added ==
  ASSUME ScanTyped, NEW d, drivers' = Append(drivers, d)
  PROVE  /\ \E S : drivers' \in Seq(S)
         /\ DOMAIN drivers' = DOMAIN drivers \cup {Len(drivers) + 1}
         /\ drivers'[Len(drivers) + 1] = d
         /\ \A i \in DOMAIN drivers : drivers'[i] = drivers[i] /\ i < Len(drivers) + 1
<1>1. PICK S : drivers \in Seq(S)
  BY DEF ScanTyped
<1> DEFINE T == S \cup {d}
<1>2. drivers \in Seq(T) /\ d \in T
  BY <1>1, SeqMonotonic
<1> HIDE DEF T
<1>3. Append(drivers, d) \in Seq(T) /\ Len(Append(drivers, d)) = Len(drivers) + 1
  BY <1>2
<1>4. DOMAIN drivers = 1 .. Len(drivers) /\ Len(drivers) \in Nat
  BY DriversAreNumbered
<1>5. DOMAIN drivers' = 1 .. Len(drivers) + 1
  BY <1>3, LenProperties
<1>6. drivers'[Len(drivers) + 1] = d /\ \A i \in DOMAIN drivers : drivers'[i] = drivers[i]
  BY <1>2, <1>4
<1>7. DOMAIN drivers' = DOMAIN drivers \cup {Len(drivers) + 1}
  BY <1>4, <1>5
<1>8. \A i \in DOMAIN drivers : i < Len(drivers) + 1
  BY <1>4
<1>9. QED
  BY <1>3, <1>6, <1>7, <1>8

LEMMA ScanInitially == ScanInit => ScanInv
<1> SUFFICES ASSUME ScanInit PROVE ScanInv
  OBVIOUS
<1>1. drivers = << >> /\ drivers \in Seq({}) /\ Len(drivers) = 0
  BY EmptySeq DEF ScanInit
<1>2. DOMAIN drivers = {}
  BY <1>1, LenProperties
<1>3. ScanTyped
  BY <1>1 DEF ScanInit, ScanTyped
<1>4. SlotShape /\ PastAreDone
  BY <1>2 DEF ScanInit, SlotShape, PastAreDone, Driven
<1>5. DriversApart /\ BlocksKept /\ LastOnLineServed
  BY <1>2 DEF DriversApart, BlocksKept, LastOnLineServed, OnLine
<1>6. QED
  BY <1>3, <1>4, <1>5 DEF ScanInv

\* The blocks of others come and go without touching the drivers'.
LEMMA OthersKeep ==
  ASSUME IInv, ScanInv, OthersUseHeap
  PROVE  ScanInv'
<1>1. UNCHANGED <<loopVars, resultVars, cards>>
  BY DEF OthersUseHeap
<1>2. ScanTyped' /\ SlotShape' /\ PastAreDone' /\ DriversApart' /\ LastOnLineServed'
  BY <1>1 DEF ScanInv, ScanTyped, SlotShape, PastAreDone, Past, Driven, DriversApart,
              LastOnLineServed, OnLine, loopVars, resultVars
<1>3. \A p \in DriverBlocks : p \in DOMAIN blocks => p \in DOMAIN blocks' /\ blocks'[p] = blocks[p]
  <2>1. ASSUME NEW n \in Sizes, Malloc(n)
        PROVE \A p \in DOMAIN blocks : p \in DOMAIN blocks' /\ blocks'[p] = blocks[p]
    <3>1. PICK a \in DOMAIN heap :
             /\ FirstFit(a, n)
             /\ blocks' = [p \in DOMAIN blocks \cup {Payload(a)} |->
                             IF p = Payload(a) THEN n ELSE blocks[p]]
      BY <2>1 DEF Malloc
    <3>2. Payload(a) \notin DOMAIN blocks
      <4>1. Payload(a) - Header = a
        BY HeaderAssumption DEF IInv, MemTypeOK, Payload
      <4>2. ~heap[a].allocated
        BY <3>1 DEF FirstFit, Fits
      <4>3. QED
        BY <4>1, <4>2 DEF IInv, BlocksAreChunks
    <3>3. QED
      BY <3>1, <3>2
  <2>2. ASSUME NEW p \in DOMAIN blocks \ DriverBlocks, Free(p)
        PROVE \A q \in DriverBlocks :
                 q \in DOMAIN blocks => q \in DOMAIN blocks' /\ blocks'[q] = blocks[q]
    BY <2>2 DEF Free
  <2>3. QED
    BY <2>1, <2>2 DEF OthersUseHeap, MallocFails, memVars
<1>4. BlocksKept'
  BY <1>1, <1>3 DEF ScanInv, BlocksKept, DriverBlocks, resultVars
<1>5. QED
  BY <1>2, <1>4 DEF ScanInv

-----------------------------------------------------------------------------
\* The functions the loop asks for are those the device has.
LEMMA CardsOfSlot ==
  ASSUME NEW d \in Nat, NEW s \in Single(d) \cup Many(d)
  PROVE  /\ NumFunctions(s) \in Nat
         /\ \A f \in 0 .. NumFunctions(s) - 1 : s.at[f].kind = "card" =>
              s.at[f] \in CardsIn(s) /\ s.at[f].device = d /\ s.at[f].function = f
         /\ \A c \in CardsIn(s) :
              /\ c.device = d /\ c.function \in Nat /\ c.line \in Lines /\ c.kind = "card"
              /\ c.function < NumFunctions(s) /\ s.at[c.function] = c
<1>1. Functions \in Nat \ {0}
  BY ScanAssumption DEF ScanAssumption
<1>2. \A f, c : c \in Cards(d, f) =>
         c.kind = "card" /\ c.device = d /\ c.function = f /\ c.line \in Lines
  BY DEF Cards
<1>3. Other.kind # "card" /\ Nothing.kind # "card"
  BY DEF Other, Nothing
<1>4. CASE s \in Single(d)
  <2>1. PICK c \in Cards(d, 0) \cup {Other}, answers \in BOOLEAN :
           s = [many |-> FALSE, real |-> {0},
                at |-> [f \in 0 .. Functions - 1 |-> IF f = 0 \/ answers THEN c ELSE Nothing]]
    BY <1>4 DEF Single
  <2>2. s.many = FALSE /\ s.real = {0} /\ s.at[0] = c
    BY <1>1, <2>1
  <2>3. NumFunctions(s) = 1
    BY <2>2 DEF NumFunctions
  <2>4. CardsIn(s) = IF c.kind = "card" THEN {c} ELSE {}
    BY <2>2 DEF CardsIn
  <2>5. c.kind = "card" => c.device = d /\ c.function = 0 /\ c.line \in Lines
    BY <1>2, <1>3, <2>1
  <2>6. \A f \in 0 .. NumFunctions(s) - 1 : f = 0
    BY <2>3
  <2>7. QED
    BY <2>2, <2>3, <2>4, <2>5, <2>6
<1>5. CASE s \in Many(d)
  <2>1. PICK g \in [0 .. Functions - 1 -> Anything(d)] :
           /\ \A f \in 0 .. Functions - 1 : g[f].kind = "card" => g[f].function = f
           /\ s = [many |-> TRUE, real |-> 0 .. Functions - 1, at |-> g]
    BY <1>5 DEF Many
  <2>2. s.many = TRUE /\ s.real = 0 .. Functions - 1 /\ s.at = g
    BY <2>1
  <2>3. NumFunctions(s) = Functions
    BY <2>2 DEF NumFunctions
  <2>4. CardsIn(s) = {g[f] : f \in {e \in 0 .. Functions - 1 : g[e].kind = "card"}}
    BY <2>2 DEF CardsIn
  <2>5. ASSUME NEW f \in 0 .. Functions - 1, g[f].kind = "card"
        PROVE  g[f].device = d /\ g[f].function = f /\ g[f].line \in Lines
    <3>1. g[f] \in Anything(d)
      BY <2>1
    <3>2. g[f] # Other /\ g[f] # Nothing
      BY <1>3, <2>5
    <3>3. g[f] \in UNION {Cards(d, e) : e \in 0 .. Functions - 1}
      BY <3>1, <3>2 DEF Anything
    <3>4. PICK e \in 0 .. Functions - 1 : g[f] \in Cards(d, e)
      BY <3>3
    <3>5. QED
      BY <1>2, <2>1, <2>5, <3>4
  <2>6. \A f \in 0 .. Functions - 1 : g[f].kind = "card" =>
           g[f] \in CardsIn(s) /\ g[f].device = d /\ g[f].function = f
    BY <2>4, <2>5
  <2>7. ASSUME NEW c \in CardsIn(s)
        PROVE  /\ c.device = d /\ c.function \in 0 .. Functions - 1 /\ c.line \in Lines
               /\ c.kind = "card" /\ g[c.function] = c
    BY <2>4, <2>5
  <2>8. QED
    BY <1>1, <2>2, <2>3, <2>6, <2>7
<1>6. QED
  BY <1>4, <1>5

LEMMA DeviceKeeps ==
  ASSUME ScanInv, NextDevice
  PROVE  ScanInv'
<1>1. PICK s \in Single(device) \cup Many(device) :
         slot' = s /\ numFunctions' = NumFunctions(s) /\ cards' = cards \cup CardsIn(s)
  BY DEF NextDevice
<1>2. /\ scan = "device" /\ scan' = "functions" /\ function' = 0
      /\ UNCHANGED <<memVars, device, resultVars>>
  BY DEF NextDevice
<1>3. device \in Nat
  BY DEF ScanInv, ScanTyped
<1>4. /\ NumFunctions(s) \in Nat
      /\ \A f \in 0 .. NumFunctions(s) - 1 : s.at[f].kind = "card" =>
           s.at[f] \in CardsIn(s) /\ s.at[f].device = device /\ s.at[f].function = f
      /\ \A c \in CardsIn(s) :
           /\ c.device = device /\ c.function \in Nat /\ c.line \in Lines /\ c.kind = "card"
           /\ c.function < NumFunctions(s) /\ s.at[c.function] = c
  BY <1>3, CardsOfSlot
<1>5. \A c \in cards : c.device \in Nat /\ c.device < device
  BY <1>2 DEF ScanInv, ScanTyped, SlotShape
<1>6. ScanTyped'
  BY <1>1, <1>2, <1>3, <1>4 DEF ScanInv, ScanTyped, resultVars
<1>7. SlotShape'
  <2>1. \A c \in cards' : c.device < device \/ c.device = device
    BY <1>1, <1>4, <1>5
  <2>2. \A c \in cards' : c.device = device => c \in CardsIn(s)
    BY <1>1, <1>3, <1>5
  <2>3. function' <= numFunctions'
    BY <1>1, <1>2, <1>4
  <2>4. \A f \in 0 .. numFunctions' - 1 : slot'.at[f].kind = "card" =>
           slot'.at[f] \in cards' /\ slot'.at[f].device = device' /\ slot'.at[f].function = f
    BY <1>1, <1>2, <1>4
  <2>5. \A c \in cards' : c.device = device' =>
           c.function < numFunctions' /\ slot'.at[c.function] = c /\ c.kind = "card"
    BY <1>1, <1>2, <1>4, <2>2
  <2>6. QED
    BY <1>2, <2>1, <2>3, <2>4, <2>5 DEF SlotShape
<1>8. PastAreDone'
  <2>1. \A c \in cards : Past(c) /\ Past(c)'
    BY <1>2, <1>5 DEF Past
  <2>2. \A c \in CardsIn(s) : ~Past(c)'
    BY <1>2, <1>3, <1>4 DEF Past
  <2>3. {c \in cards : Past(c)} = {c \in cards \cup CardsIn(s) : Past(c)'}
    BY <2>1, <2>2
  <2>4. QED
    BY <1>1, <1>2, <2>3 DEF ScanInv, PastAreDone, Driven, resultVars
<1>9. DriversApart' /\ BlocksKept' /\ LastOnLineServed'
  BY <1>2 DEF ScanInv, DriversApart, BlocksKept, LastOnLineServed, OnLine, resultVars, memVars
<1>10. QED
  BY <1>6, <1>7, <1>8, <1>9 DEF ScanInv

LEMMA LoopKeeps ==
  ASSUME ScanInv, SelectDrivers \/ DeviceDone \/ ScanDone
  PROVE  ScanInv'
<1>1. UNCHANGED <<memVars, resultVars, cards>>
  BY DEF SelectDrivers, DeviceDone, ScanDone
<1>2. ScanTyped'
  BY <1>1 DEF ScanInv, ScanTyped, resultVars, SelectDrivers, DeviceDone, ScanDone
<1>3. SlotShape' /\ \A c \in cards : Past(c) <=> Past(c)'
  <2>1. CASE SelectDrivers \/ ScanDone
    BY <1>1, <2>1 DEF SelectDrivers, ScanDone, ScanInv, ScanTyped, SlotShape, Past
  <2>2. CASE DeviceDone
    <3>1. \A c \in cards : c.device \in Nat /\ c.function \in Nat /\ c.device <= device
      BY <2>2 DEF DeviceDone, ScanInv, ScanTyped, SlotShape
    <3>2. \A c \in cards : c.device = device => c.function < function
      BY <2>2 DEF DeviceDone, ScanInv, SlotShape
    <3>3. scan = "functions" /\ scan' = "device" /\ device' = device + 1 /\ device \in Nat
      BY <2>2 DEF DeviceDone, ScanInv, ScanTyped
    <3>4. \A c \in cards : c.device < device' /\ Past(c) /\ Past(c)'
      BY <3>1, <3>2, <3>3 DEF Past
    <3>5. SlotShape'
      BY <1>1, <3>3, <3>4 DEF SlotShape
    <3>6. QED
      BY <3>4, <3>5
  <2>3. QED
    BY <2>1, <2>2
<1>4. PastAreDone'
  BY <1>1, <1>3 DEF ScanInv, PastAreDone, Driven, resultVars
<1>5. DriversApart' /\ BlocksKept' /\ LastOnLineServed'
  BY <1>1 DEF ScanInv, DriversApart, BlocksKept, LastOnLineServed, OnLine, resultVars, memVars
<1>6. QED
  BY <1>2, <1>3, <1>4, <1>5 DEF ScanInv

-----------------------------------------------------------------------------
\* The block malloc returns is nobody's yet.
LEMMA NewBlock ==
  ASSUME IInv, NEW n, Malloc(n), NEW a \in DOMAIN heap, FirstFit(a, n)
  PROVE  /\ Payload(a) \notin DOMAIN blocks
         /\ blocks' = [p \in DOMAIN blocks \cup {Payload(a)} |->
                         IF p = Payload(a) THEN n ELSE blocks[p]]
<1>1. PICK b \in DOMAIN heap :
         /\ FirstFit(b, n)
         /\ blocks' = [p \in DOMAIN blocks \cup {Payload(b)} |->
                         IF p = Payload(b) THEN n ELSE blocks[p]]
  BY DEF Malloc
<1>2. a \in Nat /\ b \in Nat
  BY DEF IInv, MemTypeOK
<1>3. a = b
  BY <1>1, <1>2 DEF FirstFit
<1>4. Payload(a) - Header = a
  BY <1>2, HeaderAssumption DEF Payload
<1>5. ~heap[a].allocated
  BY DEF FirstFit, Fits
<1>6. QED
  BY <1>1, <1>3, <1>4, <1>5 DEF IInv, BlocksAreChunks

\* The cards before the next position are those before this one, and the card
\* here, if there is one.
LEMMA OneFurther ==
  ASSUME ScanInv, NextFunction
  PROVE  LET c == slot.at[function]
         IN  /\ SlotShape'
             /\ \A e \in cards : Past(e)' <=> Past(e) \/ (c.kind = "card" /\ e = c)
             /\ c.kind = "card" => c \in cards /\ ~Past(c) /\ c.line \in Lines
<1> DEFINE c == slot.at[function]
<1>1. /\ scan = "functions" /\ function < numFunctions /\ function' = function + 1
      /\ UNCHANGED <<scan, device, numFunctions, slot, cards>>
  BY DEF NextFunction, GetDeviceDescriptor
<1>2. device \in Nat /\ function \in Nat /\ numFunctions \in Nat
  BY DEF ScanInv, ScanTyped
<1>3. function \in 0 .. numFunctions - 1
  BY <1>1, <1>2
<1>4. c.kind = "card" => c \in cards /\ c.device = device /\ c.function = function
  BY <1>1, <1>3 DEF ScanInv, SlotShape
<1>5. c.kind = "card" => ~Past(c) /\ c.line \in Lines
  BY <1>2, <1>4 DEF Past, ScanInv, ScanTyped
<1>6. SlotShape'
  BY <1>1, <1>2 DEF ScanInv, SlotShape
<1>7. ASSUME NEW e \in cards PROVE Past(e)' <=> Past(e) \/ (c.kind = "card" /\ e = c)
  <2>1. e.function \in Nat /\ (e.device = device => slot.at[e.function] = e /\ e.kind = "card")
    BY <1>1 DEF ScanInv, ScanTyped, SlotShape
  <2>2. Past(e)' <=> Past(e) \/ (e.device = device /\ e.function = function)
    BY <1>1, <1>2, <2>1 DEF Past
  <2>3. QED
    BY <1>4, <2>1, <2>2
<1>8. QED
  BY <1>4, <1>5, <1>6, <1>7

LEMMA GetDriverKeeps ==
  ASSUME IInv, ScanInv, NextFunction,
         NEW c, c = slot.at[function], c.kind = "card",
         Malloc(DriverSize), NEW a \in DOMAIN heap, FirstFit(a, DriverSize),
         Construct(c, Payload(a)), UNCHANGED failed
  PROVE  ScanInv'
<1> DEFINE n == Len(drivers) + 1
           p == Payload(a)
<1>1. PICK base \in PortBases(c) :
         drivers' = Append(drivers, [block |-> p, base |-> base, card |-> c])
  BY DEF Construct
<1>2. /\ \E S : drivers' \in Seq(S)
      /\ DOMAIN drivers' = DOMAIN drivers \cup {n}
      /\ drivers'[n] = [block |-> p, base |-> base, card |-> c]
      /\ \A i \in DOMAIN drivers : drivers'[i] = drivers[i] /\ i < n
  BY <1>1, Added DEF ScanInv
<1>3. n \in Nat /\ DOMAIN drivers \subseteq Nat
  BY DriversAreNumbered DEF ScanInv
<1>4. handlers' = [handlers EXCEPT ![Vector(c.line)] = p]
  BY DEF Construct
<1>5. p \notin DOMAIN blocks /\ blocks' = [q \in DOMAIN blocks \cup {p} |->
                                             IF q = p THEN DriverSize ELSE blocks[q]]
  BY NewBlock
<1>6. /\ SlotShape'
      /\ \A e \in cards : Past(e)' <=> Past(e) \/ e = c
      /\ c \in cards /\ ~Past(c) /\ c.line \in Lines
  BY OneFurther
<1>7. UNCHANGED <<scan, device, numFunctions, slot, cards>> /\ function' = function + 1
  BY DEF NextFunction, GetDeviceDescriptor
<1> HIDE DEF n, p
<1>8. ScanTyped'
  <2>1. handlers' = [v \in Vectors |-> handlers'[v]]
    BY <1>4 DEF ScanInv, ScanTyped
  <2>2. QED
    BY <1>2, <1>7, <2>1 DEF ScanInv, ScanTyped
<1>9. Driven' = Driven \cup {c}
  BY <1>2 DEF Driven
<1>10. PastAreDone'
  BY <1>6, <1>7, <1>9 DEF ScanInv, PastAreDone
<1>11. c \notin Driven /\ c \notin failed
  BY <1>6 DEF ScanInv, PastAreDone
<1>12. DriversApart'
  <2>1. c.base # Unmapped => base = c.base
    BY <1>1 DEF PortBases, HasIoRegister
  <2>2. \A i \in DOMAIN drivers : drivers[i].card # c
    BY <1>11 DEF Driven
  <2>3. QED
    BY <1>2, <1>11, <2>1, <2>2 DEF ScanInv, DriversApart
<1>13. BlocksKept'
  <2>1. \A i \in DOMAIN drivers : drivers[i].block \in DOMAIN blocks /\ drivers[i].block # p
    BY <1>5 DEF ScanInv, BlocksKept
  <2>2. QED
    BY <1>2, <1>5, <2>1 DEF ScanInv, BlocksKept
<1>14. LastOnLineServed'
  <2>1. SUFFICES ASSUME NEW v \in Vectors, NEW i \in OnLine(v)', \A j \in OnLine(v)' : j <= i
                 PROVE  handlers'[v] = drivers'[i].block
    BY DEF LastOnLineServed
  <2>2. Vector(c.line) \in Vectors /\ handlers = [w \in Vectors |-> handlers[w]]
    BY <1>6 DEF Vectors, ScanInv, ScanTyped
  <2>3. OnLine(v)' = OnLine(v) \cup (IF Vector(c.line) = v THEN {n} ELSE {})
    BY <1>2 DEF OnLine
  <2>4. OnLine(v) \subseteq DOMAIN drivers
    BY DEF OnLine
  <2>5. CASE Vector(c.line) = v
    <3>1. i = n
      BY <1>2, <1>3, <2>1, <2>3, <2>4, <2>5
    <3>2. QED
      BY <1>2, <1>4, <2>2, <2>5, <3>1
  <2>6. CASE Vector(c.line) # v
    <3>1. handlers'[v] = handlers[v] /\ drivers'[i] = drivers[i] /\ handlers[v] = drivers[i].block
      BY <1>2, <1>4, <2>1, <2>2, <2>3, <2>4, <2>6 DEF ScanInv, LastOnLineServed
    <3>2. QED
      BY <3>1
  <2>7. QED
    BY <2>5, <2>6
<1>15. QED
  BY <1>6, <1>8, <1>10, <1>12, <1>13, <1>14 DEF ScanInv

LEMMA FunctionKeeps ==
  ASSUME IInv, ScanInv, NextFunction
  PROVE  ScanInv'
<1> DEFINE c == slot.at[function]
<1>1. ASSUME UNCHANGED <<memVars, drivers, handlers>>,
             failed' = IF c.kind = "card" THEN failed \cup {c} ELSE failed
      PROVE  ScanInv'
  <2>1. /\ SlotShape'
        /\ \A e \in cards : Past(e)' <=> Past(e) \/ (c.kind = "card" /\ e = c)
        /\ c.kind = "card" => c \in cards /\ ~Past(c)
    BY OneFurther
  <2>2. UNCHANGED <<scan, device, numFunctions, slot, cards>> /\ function' = function + 1
    BY DEF NextFunction, GetDeviceDescriptor
  <2>3. Driven' = Driven
    BY <1>1 DEF Driven
  <2>4. PastAreDone'
    BY <1>1, <2>1, <2>2, <2>3 DEF ScanInv, PastAreDone
  <2>5. c.kind = "card" => c \notin Driven
    BY <2>1 DEF ScanInv, PastAreDone
  <2>6. DriversApart'
    BY <1>1, <2>5 DEF ScanInv, DriversApart, Driven
  <2>7. ScanTyped'
    BY <1>1, <2>2 DEF ScanInv, ScanTyped
  <2>8. BlocksKept' /\ LastOnLineServed'
    BY <1>1 DEF ScanInv, BlocksKept, LastOnLineServed, OnLine, memVars
  <2>9. QED
    BY <2>1, <2>4, <2>6, <2>7, <2>8 DEF ScanInv
<1>2. CASE c.kind # "card"
  BY <1>1, <1>2 DEF NextFunction, GetDeviceDescriptor, resultVars
<1>3. CASE c.kind = "card"
  <2>1. GetDriver(c)
    BY <1>3 DEF NextFunction, GetDeviceDescriptor
  <2>2. QED
    BY <1>1, <1>3, <2>1, GetDriverKeeps DEF GetDriver, MallocFails
<1>4. QED
  BY <1>2, <1>3

LEMMA ScanStep == IInv /\ ScanInv /\ [ScanNext]_scanVars => ScanInv'
<1> SUFFICES ASSUME IInv, ScanInv, [ScanNext]_scanVars PROVE ScanInv'
  OBVIOUS
<1>1. CASE UNCHANGED scanVars
  BY <1>1 DEF scanVars, loopVars, resultVars, memVars, ScanInv, ScanTyped, SlotShape, PastAreDone,
              Past, Driven, DriversApart, BlocksKept, LastOnLineServed, OnLine
<1>2. QED
  BY <1>1, OthersKeep, LoopKeeps, DeviceKeeps, FunctionKeeps DEF ScanNext

(***************************************************************************)
(* Every card on any number of buses has exactly one driver or none for    *)
(* want of memory, which works on the card's own registers, keeps its      *)
(* block, and is called for its line if no later one took it               *)
(* (pci.cpp:69-115 and 160-199).                                           *)
(***************************************************************************)
THEOREM EveryCardDriven == ScanSpec => []CardsDriven
<1>1. ScanInit => IInv /\ ScanInv
  BY InitIInv, ScanInitially DEF ScanInit
<1>2. IInv /\ ScanInv /\ [ScanNext]_scanVars => IInv' /\ ScanInv'
  BY NextIInv, StepIsMemStep, ScanStep
<1>3. ScanInv => CardsDriven
  <2>1. SUFFICES ASSUME ScanInv PROVE OneDriverEach
    BY DEF ScanInv, CardsDriven
  <2>2. scan = "over" => \A c \in cards : Past(c)
    BY <2>1 DEF ScanInv, SlotShape, Past
  <2>3. QED
    BY <2>1, <2>2 DEF ScanInv, PastAreDone, Driven, DriversApart, OneDriverEach, HasIoRegister
<1>4. QED
  BY <1>1, <1>2, <1>3, PTL DEF ScanSpec
=============================================================================
