----------------------------- MODULE DriverScan -----------------------------
(***************************************************************************)
(* PCI enumeration (hardwarecommunication/pci.cpp) on top of the kernel    *)
(* heap: SelectDrivers looks at every function of every device, takes a    *)
(* block from the heap for the driver of each network card it finds, lets  *)
(* the constructor register for the card's interrupt, and hands the driver *)
(* to the driver manager.  Drivers are never deleted.  SelectDrivers is    *)
(* one call at boot: nobody else uses the heap until it returns.           *)
(*                                                                         *)
(* What the configuration space of a device holds is external, and chosen  *)
(* when the scan gets there.                                               *)
(***************************************************************************)
EXTENDS MemoryManager, FiniteSets, Sequences

CONSTANTS
  Devices,        \* devices on all buses, 256 in the code
  Functions,      \* functions of a device, 8 in the code
  Lines,          \* the interrupt lines the BIOS may have written
  Offset,         \* HardwareInterruptOffset, 0x20
  DriverSize,     \* sizeof(amd_am79c973)
  MaxBefore       \* bound: blocks in use when the scan begins

ASSUME ScanAssumption ==
  /\ Devices \in Nat
  /\ Functions \in Nat \ {0}
  /\ Lines \subseteq 0 .. 255
  /\ Offset \in 0 .. 255
  /\ DriverSize \in Sizes
  /\ MaxBefore \in Nat

VARIABLES
  scan,           \* "before", "device", "functions" or "over"
  device,         \* bus * 32 + device of the loops
  function,       \* of the loop
  numFunctions,
  slot,           \* what is at the current device
  drivers,        \* drivers[0 .. numDrivers - 1] of the driver manager
  handlers,       \* handlers[] of the interrupt manager, by vector
  cards,          \* history: the cards on the buses so far
  failed          \* history: those whose "instantiation failed"

loopVars == <<scan, device, function, numFunctions, slot>>
resultVars == <<drivers, handlers, failed>>
scanVars == <<memVars, loopVars, resultVars, cards>>

-----------------------------------------------------------------------------
(* Devices (external).  A function is a card, some other thing, or none,   *)
(* which reads as ones, the bit for many functions included.  A device     *)
(* with one function may answer whatever number it is asked for.           *)

Unmapped == 0
Nothing  == [kind |-> "none"]
Other    == [kind |-> "other"]
Address(d, f) == d * Functions + f + 1

Cards(d, f) ==
  {[kind |-> "card", device |-> d, function |-> f, line |-> n, base |-> a] :
     n \in Lines, a \in {Unmapped, Address(d, f)}}

Anything(d) ==
  {Other, Nothing} \union (UNION {Cards(d, f) : f \in 0 .. Functions - 1})

Single(d) ==
  {[many |-> FALSE, real |-> {0},
    at |-> [f \in 0 .. Functions - 1 |-> IF f = 0 \/ answers THEN c ELSE Nothing]] :
     c \in Cards(d, 0) \union {Other}, answers \in BOOLEAN}

Many(d) ==
  {[many |-> TRUE, real |-> 0 .. Functions - 1, at |-> g] :
     g \in {h \in [0 .. Functions - 1 -> Anything(d)] :
              \A f \in 0 .. Functions - 1 :
                 h[f].kind = "card" => h[f].function = f}}

Absent == [many |-> TRUE, real |-> 0 .. Functions - 1,
           at |-> [f \in 0 .. Functions - 1 |-> Nothing]]

CardsIn(s) == {s.at[f] : f \in {g \in s.real : s.at[g].kind = "card"}}

-----------------------------------------------------------------------------
(* GetDeviceDescriptor: vendor, device and interrupt line; of the base     *)
(* address registers, GetBaseAddressRegister writes an address for those   *)
(* of the I/O kind only.  Without one portBase is never written and holds  *)
(* what was on the stack, an earlier function's as a rule.                 *)
GetDeviceDescriptor(f) == slot.at[f]
HasIoRegister(c) == c.base # Unmapped
PortBases(c) ==
  IF HasIoRegister(c) THEN {c.base}
  ELSE {Unmapped} \union {drivers[i].base : i \in DOMAIN drivers}

(* The parameter of InterruptHandler's constructor is a byte.              *)
Vector(line) == (line + Offset) % 256

(* The constructor registers, which replaces whoever had the line.         *)
Construct(c, block) ==
  /\ \E base \in PortBases(c) :
        drivers' = Append(drivers, [block |-> block, base |-> base, card |-> c])
  /\ handlers' = [handlers EXCEPT ![Vector(c.line)] = block]

GetDriver(c) ==
  \/ /\ Malloc(DriverSize)
     /\ \E a \in DOMAIN heap : FirstFit(a, DriverSize) /\ Construct(c, Payload(a))
     /\ UNCHANGED failed
  \/ /\ MallocFails(DriverSize)
     /\ failed' = failed \union {c}
     /\ UNCHANGED <<drivers, handlers>>

-----------------------------------------------------------------------------
(* SelectDrivers, one step for each iteration of its loops.                *)

SelectDrivers ==
  /\ scan = "before"
  /\ Cardinality(DOMAIN blocks) <= MaxBefore
  /\ scan' = "device"
  /\ UNCHANGED <<memVars, device, function, numFunctions, slot, resultVars, cards>>

\* Mutant: all functions are asked for, of every device.
NumFunctions_All(s) == Functions

(* DeviceHasFunctions.                                                     *)
NumFunctions(s) == IF s.many THEN Functions ELSE 1

NextDevice ==
  /\ scan = "device"
  /\ device < Devices
  /\ \E s \in Single(device) \union Many(device) :
        /\ slot' = s
        /\ numFunctions' = NumFunctions(s)
        /\ cards' = cards \union CardsIn(s)
  /\ function' = 0
  /\ scan' = "functions"
  /\ UNCHANGED <<memVars, device, resultVars>>

NextFunction ==
  LET c == GetDeviceDescriptor(function) IN
  /\ scan = "functions"
  /\ function < numFunctions
  /\ IF c.kind = "card" THEN GetDriver(c)
     ELSE UNCHANGED <<memVars, resultVars>>
  /\ function' = function + 1
  /\ UNCHANGED <<scan, device, numFunctions, slot, cards>>

DeviceDone ==
  /\ scan = "functions"
  /\ function = numFunctions
  /\ scan' = "device"
  /\ device' = device + 1
  /\ slot' = Absent
  /\ function' = 0
  /\ numFunctions' = 0
  /\ UNCHANGED <<memVars, resultVars, cards>>

ScanDone ==
  /\ scan = "device"
  /\ device = Devices
  /\ scan' = "over"
  /\ UNCHANGED <<memVars, device, function, numFunctions, slot, resultVars, cards>>

-----------------------------------------------------------------------------
DriverBlocks == {drivers[i].block : i \in DOMAIN drivers}
Vectors == {Vector(n) : n \in Lines}

ScanInit ==
  /\ MemInit
  /\ scan = "before"
  /\ device = 0
  /\ function = 0
  /\ numFunctions = 0
  /\ slot = Absent
  /\ drivers = << >>
  /\ handlers = [v \in Vectors |-> NULL]
  /\ cards = {}
  /\ failed = {}

(* The heap's other callers, who free what is theirs.                      *)
OthersUseHeap ==
  /\ scan \in {"before", "over"}
  /\ \/ \E n \in Sizes : Malloc(n) \/ MallocFails(n)
     \/ \E p \in DOMAIN blocks \ DriverBlocks : Free(p)
  /\ UNCHANGED <<loopVars, resultVars, cards>>

ScanNext ==
  \/ OthersUseHeap
  \/ SelectDrivers \/ NextDevice \/ NextFunction \/ DeviceDone \/ ScanDone

ScanSpec == ScanInit /\ [][ScanNext]_scanVars

-----------------------------------------------------------------------------
(***************************************************************************)
(* Each network card on the buses ends up with exactly one driver, unless  *)
(* memory ran out for it, whatever the other devices are and however many  *)
(* numbers they answer to (pci.cpp:71-93).  The driver works through the   *)
(* card's own registers if these have an address, keeps its block of the   *)
(* heap for good (pci.cpp:170), and the last one on an interrupt line is   *)
(* the one who is called for it (interrupts.cpp:19).                       *)
(***************************************************************************)
OneDriverEach ==
  /\ scan = "over" => {drivers[i].card : i \in DOMAIN drivers} \union failed = cards
  /\ \A i \in DOMAIN drivers :
        LET d == drivers[i] IN
        /\ d.card \in cards \ failed
        /\ HasIoRegister(d.card) => d.base = d.card.base
  /\ \A i, j \in DOMAIN drivers : drivers[i].card = drivers[j].card => i = j

BlocksKept ==
  /\ \A i \in DOMAIN drivers :
        /\ drivers[i].block \in DOMAIN blocks
        /\ blocks[drivers[i].block] = DriverSize
  /\ \A i, j \in DOMAIN drivers : drivers[i].block = drivers[j].block => i = j

OnLine(v) == {i \in DOMAIN drivers : Vector(drivers[i].card.line) = v}

LastOnLineServed ==
  \A v \in Vectors :
    \A i \in OnLine(v) :
      (\A j \in OnLine(v) : j <= i) => handlers[v] = drivers[i].block

CardsDriven == OneDriverEach /\ BlocksKept /\ LastOnLineServed
=============================================================================
