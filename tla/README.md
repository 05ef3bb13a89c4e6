# A verification of wyoos-gtu

wyoos-gtu is a small 32-bit x86 kernel in C++: preemptive multitasking with `fork`, `execve`,
`waitpid` and `exit`, a heap, drivers for keyboard, mouse, VGA, ATA and the am79c973 network card,
a network stack (Ethernet, ARP, IPv4, ICMP, UDP, TCP) and a small window system. These modules
model its core logic in TLA+, check it with TLC on small instances and prove the most important
results for every size with TLAPS.

What the linked kernel runs today is the scheduler, the system calls, the programs of `kernel.cpp`
and the heap; the drivers are linked, and the network stack and the window system are in the tree
without being started by `kernelMain`. All of them are modelled: the first group because it runs,
the second because it is meant to and is where the interplay of interrupts, tasks and hardware is
hardest to test.

Paths below are relative to `src/`, the repository.

## 1. The system

### Components, their state and operations

| component | code | state | operations |
|---|---|---|---|
| TaskManager | `src/multitasking.cpp`, `include/multitasking.h` | `tasks[256]`, `numTasks`, `currentTask`; per task a stack, the saved CPU state, and a `PCB` of pid, ppid, state, waitpid | `AddTask(Task*)`, `AddTask()`, `KillCurrent`, `WaitTask`, `Schedule` |
| SyscallHandler | `src/syscalls.cpp` | none of its own; reads and writes the trap frame | int 0x80: print, fork, execve, exit, waitpid |
| User programs | `src/kernel.cpp:217-391` | locals in the tasks' stacks | `usr_main`, `strategy`, `collatz`, `long_running_program` |
| Boot | `src/loader.s`, `kernelMain` | the order of construction | loads one task, then enables interrupts |
| MemoryManager | `src/memorymanagement.cpp` | a doubly linked list of chunks inside the heap | constructor, `malloc`, `free`, `new`, `delete` |
| InterruptManager | `src/hardwarecommunication/interrupts.cpp`, `interruptstubs.s` | IDT, `handlers[256]`, `ActiveInterruptManager` | Activate, Deactivate, DoHandleInterrupt |
| Ports, GDT | `port.cpp`, `gdt.cpp` | constants | run once at boot |
| PCI | `pci.cpp` | loop counters; drivers on the heap | SelectDrivers, GetDriver |
| Console | `kernel.cpp:19-120` | a cursor in two static variables, the screen | `printf`, `printHex`, `printInt` |
| DriverManager | `src/drivers/driver.cpp` | an array of drivers | AddDriver, ActivateAll |
| Keyboard, Mouse | `src/drivers/keyboard.cpp`, `mouse.cpp` | a three byte packet buffer and the buttons (mouse) | HandleInterrupt |
| am79c973 | `src/drivers/amd_am79c973.cpp` | eight send and eight receive descriptors shared with the card | Send, Receive, HandleInterrupt |
| ATA, VGA | `ata.cpp`, `vga.cpp` | none | sequences of port accesses |
| Ethernet, ARP, IPv4, ICMP | `src/net/etherframe.cpp`, `arp.cpp`, `ipv4.cpp`, `icmp.cpp` | handlers by type or protocol; the ARP cache | OnEtherFrameReceived, Resolve, Send |
| UDP | `src/net/udp.cpp` | sockets | Connect, Listen, Send, Disconnect, OnInternetProtocolReceived |
| TCP | `src/net/tcp.cpp` | sockets with a state machine and sequence numbers, `freePort` | Connect, Listen, Bind, Send, Disconnect, OnInternetProtocolReceived |
| GUI | `src/gui/*.cpp` | a tree of widgets, focus, the dragged window | mouse and key events, Draw |

### How they interact

The timer raises IRQ 0; the stub pushes the trap frame on the running task's stack;
`DoHandleInterrupt` calls `Schedule`, which returns another task's frame, and the return from the
interrupt restores that one. A program enters the kernel through int 0x80, with interrupts
disabled; `SyscallHandler` calls the TaskManager and, for exit and a successful waitpid, `Schedule`.
`fork` allocates a `Task` from the heap, and the PCI scan a driver for each card it knows. Drivers
get their interrupts through the handler table, by the number the BIOS wrote for the card or by a
fixed one. Keyboard and mouse share one controller with one output buffer, and call an event handler
that writes to the console (`kernel.cpp`) or is the window system (`Desktop`).
A received frame is passed up, inside the card's interrupt, from the card to Ethernet, ARP or IPv4,
then to UDP or TCP, whose handlers may send at once; a task's own Send runs the same code with
interrupts enabled.

### What is hard

* **Interleaving.** A tick falls between any two instructions of a program; parent and child of a
  fork share the parent's locals (section 3). Interrupt handlers run in the middle of Send.
* **Ordering.** `Schedule` writes the outgoing task's state after it has chosen the next one;
  a wake-up changes where the round robin continues. An interrupt latched before a driver was
  activated is delivered after it was.
* **Shared hardware.** The card works on the rings while the driver does, in buffers that overlap; a
  status read at the start of a handler is acknowledged at its end; one buffer holds the bytes of two
  devices, answers to commands among them.
* **Blocking.** `Schedule`'s search, `TCP::Socket::Send`'s wait and ARP's `Resolve` are loops that
  only something else can end.
* **Unreliable delivery.** TCP retransmits nothing and meets repeated and late segments.
* **Bounds.** The process table, descriptors, the ARP cache, the socket array and the port counter
  are finite and not all of them are guarded.

### What makes each component correct

* TaskManager: one RUNNING task, which is the current one; pids unique; death final; a wait ends by
  its target's death and only then; nobody starves; the table stays in its bounds.
* Programs: every wait succeeds, every child runs its own program and is reaped, main ends last.
* Heap: chunks tile the memory, the list is consistent both ways, free neighbours are joined, blocks
  are disjoint and as large as asked.
* TCP: a connection has two ends that agree on it, data arrive in order and once, what is
  acknowledged was sent, closing ends both sides.
* Card: driver and card go round the rings in step, what has been signalled is handled, and a frame
  is sent whole or recognisable as torn.
* ARP, IPv4, UDP: an answer goes to who asked; a resolved address is the one announced; a datagram
  reaches the socket it belongs to.
* Interrupts: what a device announced is delivered, and what was delivered is acknowledged, to both
  controllers where both are involved.
* PCI: every card has one driver, with its own registers and block of memory, and is heard.
* Mouse: a packet's bytes belong together once driver and mouse agree where one begins. GUI: a window is dragged while the button is held, keys
  go to the widget that was pressed.
* Console: the cursor returns to the screen, whoever prints meanwhile.

`PROJECT.json` lists the concrete places where these can go wrong ("hazards"), with the properties
that watch them.

## 2. Plan

Written, in this order:

1. `TaskManager`, `ProcessLifecycle` and the refinement between them, with their proofs;
   `UserPrograms` on top of the scheduler.
2. `Heap`, `MemoryManager`, their refinement and proofs; `DriverScan`, the heap's caller at boot.
3. `TransmissionControl`, `ByteStreams` and the refinement between them, with their proofs.
4. `NetworkCard` and, on it, `NetworkStack`: Ethernet, ARP, IPv4, ICMP and UDP in one composition.
5. `Interrupts`, `Desktop` and their composition `InputDevices`, with keyboard and mouse; `Console`,
   which stands alone.
6. `GlobalDescriptorTable`: the encoding of segment descriptors, functions without state.

Which module uses which (EXTENDS, or `=>` for a refinement):

    ProcessLifecycle <= TaskManager <- UserPrograms
    Heap <= MemoryManager <- DriverScan
    NetworkCard <- NetworkStack
    Interrupts, Desktop <- InputDevices
    Console
    ByteStreams <= TransmissionControl
    GlobalDescriptorTable

To come:

* the heap under interrupts: `MemoryManager`'s calls split at their writes, composed with a task
  and a handler that both send;
* the screen: a cell rewritten by `printf` while `MouseToConsole` exchanges its colours.

## 3. The modules

### TaskManager

State and code: `numTasks` and `currentTask` keep their names; `pid`, `ppid`, `state`, `waitpid` are
the PCB fields, as functions on the slots in use; `cpu` says what the processor is doing: `boot`,
`idle` (kernelMain's last loop), `user`, `spin` (Schedule's search has nothing to find), `wild`
(`tasks[]` has overflowed).

| action | code |
|---|---|
| `LoadMain` | `kernelMain` up to `interrupts.Activate()`, with `AddTask(Task*)` |
| `Tick` | the timer's path through `DoHandleInterrupt` into `Schedule` |
| `Fork`, `ForkOverflow` | `SyscallHandler::fork` and `AddTask()`, with and without a free slot |
| `Exit` | `KillCurrent`, then `Schedule` |
| `WaitPid(p)` | `WaitTask` succeeding, then `Schedule`; a refused wait changes nothing here |

`Schedule(st, wp)` is one operator used by all three callers. Its parts follow the function: the
last WAITING slot (`LastWaiter`) and the search for its target (`WaitOver`), else the first READY
slot after the current one (`NextReady`, `Distance`), then the change of states (`SwitchTo`); or
`spin` when there is no READY slot. The order of these matters: a preempted task is RUNNING, not
READY, while the search looks, so that the only runnable task is not found.

Handlers are atomic because the interrupt gates and int 0x80 clear the interrupt flag. A wait that
is entered when its target is already dead is found and ended by the Schedule of the same call.
`tasks[256]` is followed by `numTasks` in the class, hence what `ForkOverflow` does; past it nothing
is claimed (`wild`). `TaskAddress` stands for the address of the new Task.

Left out: saved CPU states and stacks (they follow their task), `waitstate` (never read),
`printTasks`.

### ProcessLifecycle and TaskManagerRefinement

What processes are promised, with no table and no order of service: who is unborn, runnable,
waiting or dead, whom a waiter waits for, who owns the processor, and whether the machine has
halted. The mapping takes slot p - 1 for process p; RUNNING and READY are both runnable. It allows
the halt only when no process other than the outgoing one can run, which is what the code achieves.

### UserPrograms

One action per instruction that touches a local variable, and per system call, of the programs that
ship. Its reason is fork's frame: `SyscallHandler::fork` relocates the `ebp` of the trap frame, the
frame of the `fork()` stub; the stub's `leave` then restores the caller's `ebp` from the copied
stack, and that is an address in the parent's stack. Until the child calls a function of its own it
reads and writes its parent's `pid`, `collatz_pids`, `lrp_pids` and loop index. `base[s]` is the
task whose stack `ebp` points into and `frame` the locals of each stack. The order of `strategy`'s
locals in memory, which gives a meaning to an index one past an array's end, was read off the kernel
image in the repository. `InReach` stops a task whose index has left the locals (a bound: what such
a store would hit is not modelled). `TickAt` says before which instructions ticks come.
`Survivable` is the set of instructions before which the programs survive one, and `harmed`, a history
variable, becomes true at the first tick that comes before another. The children's
computations are one instruction that ends in `exit`. `BaseIsAncestor` says "ancestor" without
recursion: a task and its ancestors are what every set has that contains the task and the parents
of its members.

### Heap and MemoryManager

`heap` maps the address of each chunk's header to the chunk (`next`, `prev`, `allocated`, `size`),
with 0 for a null pointer, as in the code. `blocks` is a history variable: the sizes asked for, by
the address returned. `Malloc` is first fit over `size > n`, with the split when the rest can hold a
header and a byte (`Take`, `Split`); `Free` marks the chunk free and joins it to its neighbours
(`Give`: `JoinPrev`, then `JoinNext` on the chunk that results, both through `Absorb`). Callers free
what they hold and nothing twice. Calls are atomic: in the linked kernel they come from system
calls and from before interrupts are enabled. `Heap` is the abstract allocator: blocks inside the
memory, disjoint, unchanged until released.

### TransmissionControl

Any number of hosts, each with a socket array, and a network (external). `Reliable` chooses between
a queue per host and a set of all segments ever sent, from which any may arrive, repeatedly or
never, in any order.

| action | code |
|---|---|
| `Listen`, `Connect`, `Bind` | the provider's functions of these names |
| `SendBegin`, `SendEnd` | `Socket::Send` and `Provider::Send`: the header is filled in, then the number advances and the segment leaves; an interrupt may come in between |
| `DisconnectBegin`, `DisconnectEnd` | `Provider::Disconnect`: the state changes, then the FIN leaves and the number advances; `closing` says that a task is in between |
| `Receive` | `OnInternetProtocolReceived` as a whole: the search (`SocketFor`), the RST test, the switch (`ReceiveSyn`, `ReceiveSynAck`, `ReceiveFin`, `ReceiveAck`, `ReceiveData`), the reset (`SendReset`), or nothing (`Ignore`) |

A handler may accept, refuse, send or disconnect while it is called (`HandlerActs`), and sees the
socket as the code leaves it at that point: the acknowledgement number moves after it returns.
A payload is a pair [text, zeros], because the code takes its length from its last nonzero byte.
What the handler is given is not always what was sent. `PassedUp` is the size that arrives: IPv4
compares `totalLength` in the wrong byte order and so passes on the frame's size, and the driver
removes the check sequence from frames larger than 64 bytes only. One or two bytes of data fill up a
frame of 64 and arrive as six; 3 to 211 bytes arrive as they are; 212 and some others would be read as
less than the headers (`SizesAssumption` leaves those out). `Handed` is what these bytes may be: the
padding is zero, the check sequence anything, and data that are cut off end in whatever stands there.
The loop that removes closed sockets tests `socket == 0` in a branch where it is not, so it never
runs, and closed sockets stay.

Left out: checksum, window, options and byte order but for `totalLength`; the acknowledgement number a segment carries
(read only where a segment without socket would be answered, which never happens: `reset` is set
only inside the test for a socket); the wrap of sequence numbers at 2^32; exhaustion of the socket
array. `Send` to a socket that is not established from inside a handler would spin inside the
interrupt; handlers of the model do not do it. `Disconnect` does not test the state; tasks of the
model disconnect established sockets only. The remote address of a listening socket is
uninitialised memory; `NoStraySegment` shows that the search never decides by it.

### ByteStreams and TransmissionControlRefinement

`ByteStreams` says what TCP promises to programs, with no segments, numbers or handshake: ends come
into being, each adds payloads to what it has `written`, is given (`read`) the next payload that the
opposite end has written, or does both in one step, as a handler that replies does; and ends that are
`over` are given nothing more. The mapping takes every socket with a peer for an end, known by the
addresses of both; an end is over when its socket is CLOSED or CLOSE_WAIT. That nothing is taken back,
that a socket's connection never changes, and that a closed socket, which stays in the array, takes
nothing is said by the shape of the abstract steps. An end may come before its opposite, since the
client has its socket first. `ByteStreams` does not say that everything written is read before an end
is over; that is `DeliveredBeforeClose`, on a reliable network.

### NetworkCard

The driver's two rings, the card on their other side (external), and the processor that is either a
task's, in the middle of Send, or the card's interrupt handler (`mode`).

| action | code |
|---|---|
| `Activate`, `SetHandler` | the functions of these names |
| `SendCount`, `SendAdvance`, `SendCopy`, `SendHand` | a task's `Send`: the next position is computed and stored (line 166, after 165 has read the present one), the frame copied, the descriptor handed over; interrupts are enabled |
| `Send` (operator) | the same inside the handler, where only the card interferes |
| `Interrupt`, `SendBack`, `NextFrame`, `Drained`, `Acknowledge` | `HandleInterrupt` and `Receive`: the status is read, each frame of the ring is handed up (`PassUp` of `NetworkStack`), sent back if the stack says so, its descriptor returned; then the status read first is acknowledged |
| `Arrive`, `Transmit` | the card: it fills the next receive descriptor, or signals a missed frame, and sends what it owns |

The header declares `sendBuffers[2*1024+15][8]`, 2063 buffers of eight bytes instead of eight of
2063, so that the eight addresses lie within 80 bytes and, rounded up to sixteen, coincide in pairs;
which ones depends on the object's alignment (`Phase`). A ring's memory is what each `Place` holds, a
frame or `Torn`, bytes of several, which no layer recognises. A frame that is written is whole at its
own place and tears what begins up to two places before it, whose headers it overwrites, and what
begins in the places it reaches (`Written`, `Reach`); a frame further back keeps its headers and
stays. One task sends at a time.

### NetworkStack

The driver's handler goes up through the layers one step at a time, because the card may write in the
receive buffers between any two of them: `PassUp` is the driver and Ethernet, `ArpReceived` and
`IpReceived` the layer above, which takes from the buffer what is there by then, `Turn` and `Swap` the
way back, on which IPv4 and Ethernet turn the headers round. `answer` is what the handlers have made
of the request; where the buffer no longer holds it, what is turned round or sent is `Torn`. A cache
entry takes two steps: `ArpResponse` stores the IP address, `Learn` reads the hardware address, of
another frame if one has come. A layer's own reading of its message is one step: that the card writes
while ARP, ICMP or UDP is in the middle of a message is not modelled.

A task's send runs in the open: `StartSend` decides the frame, the four steps of Send follow, and a
task that had to ask for an address polls (`Resolved`). Frames are records of the fields the layers
read.

| definition | code |
|---|---|
| `Listen`, `Connect`, `Bind`, `SendDatagram` | UDP's provider and sockets |
| `RequestEchoReply`, `BroadcastMACAddress` | ICMP and ARP, as a task calls them |
| `Route`, `GetMACFromCache`, `Known`, `Addressed` | `InternetProtocolProvider::Send`, ARP's cache and `Resolve` |
| `SendInside` | a handler's send: with the address unknown, the question is sent and the handler stays in `Resolve` for ever (`hung`) |
| `PassUp`, `Swap` | `EtherFrameProvider::OnRawDataReceived`, before and after the layer above |
| `ArpReceived`, `ArpRequest`, `ArpResponse`, `Learn` | ARP's `OnEtherFrameReceived` |
| `IpReceived`, `Turn` | IPv4's `OnEtherFrameReceived`, before and after the protocol: `EchoReceived`, `UdpReceived` |

UDP's `Disconnect` is no action: its loop requires `socket == 0` and never runs. Payloads of datagrams
and their sizes are abstracted from, for no state of the stack depends on them. So are checksums,
among them ICMP's, which covers eight bytes whatever the size.

### Interrupts

The manager and the two 8259 controllers (hardware): edges latched in `requests`, lines in service,
priorities, the cascade. `DoHandleInterrupt` takes the most urgent line and acknowledges it at the
first controller, and at the second for lines from 8 on. What the handler does is conjoined by the
module that has it.

### Console

`printf` at the grain of its accesses to the cursor, `x` and `y`, two static variables that all
callers share. The Makefile builds without optimisation, so that `x++` is a load (`LoadX`), an addition
and a store (`StoreX`), each test reads its variable again, and a task can be interrupted between any
two of these. `stage` says where each task is, `held` what it has loaded and not yet stored, so that a
store may bring back a value that others have long passed. Inside handlers and the system call `print`
nothing interrupts and printf is one step (`After`, `AfterNewLine`). The loops that clear the screen
use the cursor itself as their counters, so a call that is interrupted there, and the one that
interrupts it, share them. Bytes wrap at `Modulus`.

What is written on the screen is left out, and with it `MouseToConsole`, which exchanges the colours of
the cell under the mouse: of two tasks that write to one cell, or a handler that changes one between
the read and the write of line 34, the last store counts, and nothing in the code promises more.

### Desktop

A desktop with windows, each with one focussable widget, as a record; each event is an operator,
because one packet of the mouse causes up to four of them. Coordinates, `ContainsCoordinate`, the
search for the first child, dragging and the chain of `GetFocus` follow the code. `clicked` is a
history variable. Drawing is left out.

### InputDevices

Composes `Interrupts` and `Desktop` with the keyboard controller (hardware) and the drivers. The
drivers' events go to the window system; what `kernel.cpp`'s own handlers do with them is in `Console`.

| action | code |
|---|---|
| `DrainKeyboard`, `ActivateKeyboard` | the drivers' constructors and `KeyboardDriver::Activate`: empty the buffer, then the commands |
| `ActivateMouse`, `TakeAnswer` | `MouseDriver::Activate`: the commands, then line 64, which reads the answer without waiting for it |
| `Start` | `interrupts.Activate()` |
| `Interrupt(i)` | `DoHandleInterrupt` with `KeyboardDriver::HandleInterrupt`, `MouseDriver::HandleInterrupt`, or `Schedule` |
| `Tick`, `PressKey`, `MouseSends`, `Answer` | timer, keyboard, mouse (external) |

The controller's buffer holds one byte, of a key, of a movement, or the answer 0xFA of either device to
the command 0xF4 that both drivers send (`keyboard.cpp:49`, `mouse.cpp:63`); `answers` says whose is
still to come. It may come at any time after the command: while the other driver is being activated,
whose reads then take it, or after interrupts are enabled. Both drivers read the controller's command
byte without waiting for it, and may get a byte that was in the buffer instead (`StatusRead`); they
write back what they got, so that the other device's interrupts may be off afterwards. The firmware
leaves the command byte in a state of its own. `kernelMain` constructs no drivers at this commit; the
model assumes them constructed and activated between the handler of the system calls and
`interrupts.Activate()`, in that order.

### DriverScan

`SelectDrivers` with one step for each iteration of its loops, on `MemoryManager`: `NextDevice`
chooses what is at the device, `NextFunction` looks at one function and, for a network card, does
what `GetDriver`, the constructors and `AddDriver` do. Devices are external: a card, another thing
or nothing at each function, devices of one function that answer to all numbers, absent ones that
read as ones. The interrupt line is whatever the BIOS wrote, 255 included, and the vector is
computed in eight bits. A card whose I/O base is unassigned gets the `portBase` left on the stack,
possibly another card's. The kernel never calls `SelectDrivers`; before and after it the heap has
other callers (`OthersUseHeap`). `drivers[265]` is larger than the bounds reach.

### GlobalDescriptorTable

The constructor of `SegmentDescriptor` and its `Base` and `Limit`, as operators on eight bytes. The
segments that the kernel builds with it end at 64 MB, while the heap of `kernelMain` extends to the
end of memory, whatever its size.

## 4. The runs

| run | instance | shows |
|---|---|---|
| `scheduler` | at most 4 processes, arbitrary programs, fair timer | `TypeOK`, `UniquePids`, `OneRunning`, `WaitersHaveTarget`, `WokenByTermination`, that `TaskManager` implements `ProcessLifecycle` (which includes that death is final), and `ReadyEventuallyRuns`: round robin starves nobody, wake-ups notwithstanding; `LastWaiterServed` |
| `programs` | usr_main, strategy, 1 + 2 children, 5 slots, ticks at `Survivable` instructions and before the test of a pid | until a tick of the second kind `WaitsSucceed`, `ChildrenReaped`, `RightProgram`, and the programs end (`Completes`); `BaseIsAncestor` also after one, when waits fail and the table overflows |
| `heap` | header 2, heap of 16 bytes, requests of 0, 1, 2, 3, 5; 2 devices of 2 functions, drivers of 3 bytes, lines 11 and 255 | five invariants, the refinement of `Heap`, and `CardsDriven` |
| `tcp_lossy` | a client with 1 and a server with 2 sockets, 2 payloads one way and 1 the other, faults unbounded | `TcpTypeOK`, `InOrder`, `HandshakeAgrees`, `UniqueConnection`, `NoStraySegment`, `AckNotAhead`, the refinement of `ByteStreams` |
| `tcp_reliable` | the same hosts; the server's handler may also disconnect | `DeliveredBeforeClose`, `ClosesTogether` |
| `network` | rings of 3 on two places, a cache of 1, this host, its gateway and one host beyond it, one port to listen on, the host beyond exchanging datagrams, 4 events of which 1 is a send of the task | `RingsInStep`, `WellAddressed`, `OneSocketPerPeer`, `SignalledFramesHandled` |
| `input` | a desktop of 3 by 2 with two overlapping windows; two keys | `WaitingByteAnnounced`, `FrontDragsWhileHeld`, `KeysReachClicked`, `StaysInStep` |
| `console` | three printing tasks, a screen of 2 by 2, bytes that wrap after 4 | `CursorComesBack` |
| `waiter_resumes`, `spin_only_when_blocked`, `main_ends_last`, `tcp_short` | | statements of the source that do not hold (section 5) |

**Why the bounds suffice.** Four processes allow two waiters with their targets, or a waiter, its
target and two that compete, in every order of slots; the safety properties are proved for every
number. Every actor of `UserPrograms` occurs, and one kind of child twice. With `TickAt` just
`Survivable` and `MaxTasks` to match, all properties of `programs` hold for 2 + 2 children too, and the
safety properties for 3 + 3, the number of the code (262,799 states); they are proved for every number.
`Survivable` is every instruction the programs survive a tick at; `test`, which `TickAt` adds, is one
after which waits fail and the programs go on forking. Sixteen bytes of heap
hold up to seven chunks, so that a freed chunk can have a free neighbour on either side, on both or
on none, with chunks beyond them; the sizes include 0, the largest size that does not split and the
smallest that does. Three drivers fit, so that a fourth card meets a full heap; two lines let two
cards share one and have one each. The set-like network of `tcp_lossy` includes every repetition and
every order; two payloads are what it takes to see one overtake another, two sockets of the server
what it takes to see a repeated SYN open a second connection. `MaxSockets` and `MaxSends` bound
calls by programs, not the network. The initial sequence number is a small constant because TLC's
integers are 32 bits wide. Rings of three put two descriptors at one place and a third beside them, so
that frames overwrite and tear one another; four events let a ring wrap and fill, a frame be missed, a
reply meet the task's own frame in the send ring, an answer be overwritten by the next request, and the
cache be full; `MaxEvents` bounds frames, sends and sockets together, so that two sockets still leave
two datagrams to confuse them. Three tasks are one more than it takes for a stored value to be older
than a wrap; a screen of two by two makes every kind of wrap happen within a few characters. The
offsets of the mouse include positive, negative and, through the sign, extreme ones; the devices'
answers and keys 2 and 30, whose bits differ as those of a command byte do, are what activation can
misread. The payloads of the TCP runs have 3 and 4 bytes, which arrive with their own size; `tcp_short`
has the others.

**Fairness.** `scheduler`: weak fairness of `Tick`. The PC's timer runs from power-on, the
controller masks nothing, and handlers return. Nothing is assumed of programs. `programs`: besides
boot and timer, a task that keeps getting the processor makes progress (strong fairness of its next
instruction, for ticks are many thousand instructions apart). `tcp_reliable`: weak fairness of
`SendEnd` and `DisconnectEnd`, because the scheduler takes every task's turn in the end; nobody is
obliged to connect, send or disconnect. That segments are handled is no fairness of the code, since the
driver can acknowledge a frame it has not looked at: it is a hypothesis of `ClosesTogether`
(`SegmentsHandled`). `tcp_lossy` claims no liveness: nothing is retransmitted, so
a lost SYN blocks the sender for ever. `network`: weak fairness of `Processor`, the steps of the
task's Send and of the handler, and the interrupt that a pending status requests; neither the card
nor the network nor programs are obliged to anything. The other runs claim no liveness.

**Deadlock** is checked for `heap`, `input` and `console`. The scheduler may end in `spin` or `wild`; in the
TCP and network runs all programs may be done, and a handler may hang in `Resolve`.

**Conditions found while checking.**

* `WaitsSucceed`, `ChildrenReaped`, `RightProgram` and `Completes` hold until a tick comes between
  fork's return and the point where the child has its own frame, or before a load of a pid or an index
  (`harmed`). One before `init`, `cond`, `inc`, `test`, `status` or `load` breaks one of them, or
  `MainEndsLast`; `main_ends_last` shows such a case, with a comment of the source that says
  otherwise. A tick before `store` or `result` alone is harmless.
* `InOrder` needs one writer per end. If a host's task and its handler both send on a socket, the
  handler can run between the two halves of Send and use the same sequence number; TLC then finds
  `InOrder` violated (set `Talkers` to both hosts).
* `InOrder` also needs payloads with a nonzero byte. A payload of zeros moves the acknowledgement
  number back by 23, and after 23 bytes of text a repeated segment is taken again (set the payloads
  to text 23 and zeros 1; TLC finds it).
* `DeliveredBeforeClose` needs that a handler does not close where the host's task sends: it could
  put the FIN between the two halves of Send (`tcp.cpp:314-322`), and the data after the FIN are lost
  (set `Talkers` to both hosts; TLC finds it). And it is about the end that is closed. An end that has
  itself sent a FIN takes the next ACK for its answer, even one with data, and drops the data.
* `InOrder`, `AckNotAhead` and the refinement of `ByteStreams` need payloads that arrive with their own
  size, as those of 3 to 211 bytes do. After one or two bytes the acknowledgement number is ahead of
  the sender's: its next payload is refused (`tcp_short`), and one that happens to fit later is taken
  with a gap before it.
* `ClosesTogether` needs that every segment which comes is handled (`SegmentsHandled`). The ACK and the
  FIN of `tcp.cpp:171-172` follow each other at once, and the second may come when the handler of the
  first has looked at the ring for the last time; it is then acknowledged unseen, and both ends stay
  half closed until another frame comes.
* `RingsInStep` speaks of the send ring only until a descriptor in use is used again (`overrun`). Two
  things lead there, and the code prevents neither: a frame is sent while all descriptors are in use,
  or the interrupt's handler sends while a task is between the read of `currentSendBuffer` and its
  write (lines 165 and 166), so that both have the same one. The run reaches both.
* `WellAddressed` speaks of frames that are not torn, while every address in the cache is its station's
  (`AddressesTrue`). An answer over which another frame was written before it was turned round goes
  where the other one's headers say; an entry of the cache made of two frames stays wrong for ever.
  The run reaches both.
* `SignalledFramesHandled` excepts the end of the handler: a frame that arrives after the last look
  at the ring and before line 155 is acknowledged unseen and waits for the next one. And a handler
  that answers a datagram of a host whose address is not in the cache hangs in `Resolve`; the cache
  learns from responses only, never from requests.
* `OneSocketPerPeer` needs listening ports below the ones `Connect` hands out (1024 on).
* `StaysInStep` begins when everything is `Settled`, and activation need not end so. If the mouse's
  answer comes after `mouse.cpp:64` has read the port, it is taken for the first byte of a packet, and
  every packet after it is shifted. If the keyboard's answer is taken by a read of the mouse's
  activation, the edge it has latched is delivered later, and the keyboard's handler takes whatever
  byte is in the buffer, the mouse's for instance. Nothing in the driver finds its way back.
* `WaitingByteAnnounced` speaks of devices that may interrupt: a command byte that was misread can turn
  off the keyboard.
* `CursorComesBack` says that somebody will bring the cursor back, not that it stays on the screen: a
  task that stores an old value may put it outside, and until its own test another may write there.
* `FrontDragsWhileHeld` is about the front window. A window behind it whose button is released over
  the front one goes on being dragged.
* `CardsDriven` says nothing of the registers of a card without an I/O base, and that of two cards
  on one line the last one is heard, which means that the first one is not.

## 5. Where the code and its comments disagree

| run | statement | what happens |
|---|---|---|
| `spin_only_when_blocked` | "move current process to ready queue", `multitasking.cpp:225` | it is moved after the search: a tick during the last runnable task hangs the machine |
| `waiter_resumes` | "If there is a task in the waiting state, check if the process it's waiting for has terminated", `multitasking.cpp:177` | only the last waiter is checked |
| `tcp_short` | "data in wrong order", `tcp.cpp:230`; "remove checksum", `amd_am79c973.cpp:203` | data in order are refused after a payload of one or two bytes, whose check sequence was counted as data |
| `main_ends_last` | "wait strategy process to terminate", `kernel.cpp:270` | one tick and the child clears its parent's pid |

`AddTask()`, which fork uses, has no test of the table's size, though `AddTask(Task*)` has one
(`multitasking.cpp:76`): the 257th task is stored in `numTasks` itself. The model has it as
`ForkOverflow`, after which `cpu` is `wild` and nothing is claimed any more.

## 6. What is proved

For every value of the constants that satisfies the named assumptions: `MaxTasks` positive and
`TaskAddress` beyond it (`TaskManager`); `Header` and `Start` positive, `HeapSize` and all sizes
natural numbers (`MemoryManager`); a nonempty ring (`NetworkCard`); addresses of this host, its
neighbours and others apart (`NetworkStack`); lines of the controllers other than the cascade
(`Interrupts`), at least two rows and fewer rows and columns than a byte can count (`Console`), a
nonempty desktop and integer geometry (`Desktop`), the three lines of the PC and bytes in their range
(`InputDevices`); a driver's size among the heap's sizes (`DriverScan`); at least one child of each
kind (`UserPrograms`); payloads of natural lengths, ports and socket numbers that fit their 16 bits,
and a host that both listens and connects not reaching its own listening port (`TransmissionControl`).

**TaskManagerProofs.** The invariant is `IInv`: `TypeOK`, `PidIsSlot` (slot s holds pid s + 1, from
which uniqueness follows), `CpuAgrees` (what `cpu`, `numTasks` and `currentTask` say of one another,
for instance that there is a current task once the first tick has come), `OneRunning` and
`WaitersHaveTarget`. None of the last two is inductive without the others: that the outgoing task is
the only RUNNING one is what makes `SwitchTo` leave one RUNNING task, and that the target of a wait
is another slot is what survives a fork. The proof has one lemma for `Schedule`, parameterised by
the states and waits its caller hands over, which ticks, exits and waits share. From `IInv`:
`TypeCorrect`, `PidsUnique`, `TableMatchesCpu`, `WaitersWaitForOthers`, and the action properties
`ExitIsFinal` and `WaitEndsByDeath`, through the lemma `BlockedStep`: what a step can do to a task
that does not run.

The last part of the module is `Refinement`: every step of the scheduler is a step of
`ProcessLifecycle` or leaves its state unchanged. One lemma per action.

**MemoryManagerProofs.** `IInv` is `MemTypeOK`, `Shape(heap)`, no two free neighbours and
`BlocksAreChunks`. `Shape` is typing, tiling, links that are inverse to each other, and `Apart`: no
chunk begins inside another and none ends past the limit. Tiling and links as the runs state them
are local and do not exclude a second, unconnected list in the same bytes; `Apart` does, and it is
what first fit needs to hand out disjoint blocks. `SplitShape` and `AbsorbShape` say that the two
changes of the list keep its shape. From them: `HeapTyped`, `HeapTiled`, `HeapListInOrder`,
`HeapCoalesced`, `HeapBlocks`, `HeapWhole` and the refinement `HeapRefinement`.

**UserProgramsProofs.** To the scheduler the programs are some of its arbitrary ones
(`ProgramsUseScheduler`), so `IInv` holds while they run. `LocalsInLine` holds wherever ticks come:
`BaseInv` adds to `BaseIsAncestor` that a parent's slot is below its child's. The other theorems
let ticks come anywhere, too, and say what holds as long as none has come outside `Survivable`
(`~harmed`); afterwards it may be false, as `main_ends_last` shows. Their invariant, `ProgramInv`, goes
through the programs instruction by instruction. `MainIs`, `ForkedIs`, `StrategyIs` and `ChildIs` say of usr_main, of the second task
before its execve, of strategy in round i of loop k, and of a child: which instruction can be next,
which word of whose stack holds which pid, who has died, and whom the task waits for. The hard part
is what a late child writes. Until it calls its program it has strategy's locals, and stores the 0
that fork gave it where strategy's index then points: at the pid it was forked for, at the index of
the fourth loop, or, past the end of `lrp_pids`, at the first child's pid. `ChildWrites` shows that
strategy needs none of them then: at `store` the pid is still to come from its register, the fourth
index is set when no such child is left, and the first pid has been loaded (`Overwritten`). `Alone` says that a task at an instruction that does
not survive a tick is the one that runs. Once the table has overflowed only what the programs had
promised before is kept.

**TransmissionControlProofs.** `TcpInv` holds on both kinds of network, for any hosts and sockets.
Besides the types it has `Peers` (what listens, and only that, has no peer), `Addresses` (which ports
a host has handed out, so that a port is handed out once), `ListenersLast` (the sockets that listen
are the youngest on their port, without which the search, which takes the first match, could give a
segment of a connection to a listener), `UniqueConnection`, and `Connections`: every segment, under
way or half sent, has a sender that is far enough in its state machine, and a socket it is meant
for unless it is a SYN; numbers of a socket bound those of its segments and the acknowledgement of
its peer. From it: `TcpTypesOK`, `ConnectionsUnique`, `NoSegmentStrays` and `HandshakesAgree`, with no hypothesis,
and `AcksNotAhead`. A received segment changes its socket in one of a few ways (`Evolves`), whichever
branch of the handler took it; the invariant is shown for those. `DeliveredInOrder` adds `Streams`:
for each socket a sequence of offsets at which its payloads begin; every data segment carries a
payload at its offset, and what the peer has been given is a prefix that ends at its acknowledgement
number. `StreamsRefinement` is the refinement of `ByteStreams`, step by step: `EndsFound` says that the
mapping finds the only socket with an end's addresses, `StreamsUnchanged`, `StreamsChange` and
`StreamsBegin` what a step does to the abstract variables, given what it does to the sockets, and
`SocketContinues` goes through what can become of a connected one.
`AcksNotAhead` and all that follows have the hypothesis `PayloadsFit`: every payload arrives with its own
size. `MostSizesFit` proves it of those of 3 to 211 bytes; that it is not always so is what `tcp_short`
shows. `DeliveredInOrder` and `StreamsRefinement` have two more, which the runs satisfy. `TextInPayloads`, every payload has a nonzero byte:
`tcp.cpp:220-224` takes the length from the last one. `OneWriter`, a host whose task sends does not
reply from its handler: `tcp.cpp:314-322` reads the number before and advances it after the segment
is made. Without any of them TLC finds `InOrder` violated (section 4).
`AllDeliveredBeforeClose` is about a reliable network and does not need the last two, as sequence numbers
play no part in it: a segment they do not fit is refused, and then a reset is on its way. It needs
`OneCloser`, a host whose task sends does not close from its handler; the run `tcp_reliable` satisfies
it, and without it TLC finds the property violated (section 4). Its invariant, `DeliveryInv`, adds two
parts. `Writers`: a task that is in a Send has a socket that was connected and not yet closed by its
host. `Deliveries`, for every pair of ends (`PairOK`): the queue to the receiving end carries in order
just the payloads it has still to be given (`Carried`), none of them behind the FIN; the ACK that
completes the handshake comes before all of them, since it is taken for an ACK whatever it carries;
and an end that its peer has closed has none left. Or data were refused, and then a reset is in the
queue back. A queue loses its head and gets something at its end: `Acts` and `Begins` reduce every
action to those two forms, for the two ends themselves and for any third socket of either host.

**DriverScanProofs.** To the heap the scan is one more caller (`ScanUsesHeap`), so the heap's
invariant holds with drivers among its blocks; from it follows that drivers have blocks of their own
and keep them. `EveryCardDriven` is an argument about the loops: `ScanInv` says which cards lie
before the current position (`Past`), that these and no others have been driven or have failed
(`PastAreDone`), that what is at the current device is known to `cards` by its true address
(`SlotShape`), and that drivers are of different cards (`DriversApart`). A device that answers to
numbers it does not have is harmless because `numFunctions` is 1 for it.

**NetworkStackProofs.** `RingsStayInStep`, for rings of any size and interrupts anywhere: `RecvInv` says
that the filled descriptors are those from the driver's to the card's position, `SendInv` the same of
the used ones in the other direction up to an overrun, and `TaskShape` which descriptor a divided Send
holds and where it will put the position, without which the second is not inductive. The lemmas are
about positions modulo the ring's size: what is between two of them when either moves. `PeersApart`,
under `ListenersBelow`: a socket found by its listening has no later rival, because the search takes
the first that belongs to the peer (`SocketInv`). `FramesWellAddressed`, for any network: `AnswerInv`
says what can be in the receive buffers at each step of the handler, `Raw` frames as they arrive, torn
ones, and the answer half turned round, and that a frame still addressed to this host is one of the
first two; `SendsInv` that what the send buffers hold and what the task prepares is well addressed or
torn, as long as the cache tells the truth. That an answer is sent only while the buffer still holds
it is what the steps between the layers make necessary.

**InputDevicesProofs.** Its first part is about `Console`: `ConsoleInv` adds types to `CursorComesBack`,
which is inductive with them, since a store outside the screen puts its own task among those that
bring the cursor back. The second holds what the operators of `Desktop` preserve, with no reference to
who calls them; the third has the invariant of the devices, `InputInv`: typing, `Registered` (each
handler is called for its own line, whenever interrupts come at all), `WaitingByteAnnounced` and
`DesktopInv`. `MouseStaysInStep` follows from it step by step: no step out of a settled state loses or
doubles a byte, and the only way an edge of the keyboard could be left without its byte is a read by a
driver's activation, which is over.

**GlobalDescriptorTable.** `DescriptorKept` says of the pure functions of `gdt.cpp` what the comment
in the constructor promises, for every 32-bit base and limit. TLC has no part in it: its integers
are too short.

**Only model-checked.** Liveness (`ReadyEventuallyRuns`, `LastWaiterServed`, `Completes`,
`ClosesTogether`, `SignalledFramesHandled`), which is out of the proof system's reach. Every other
property of a passing run is stated by a theorem.

## 7. What is not modelled

* **Ports, `loader.s`**, the loading of the descriptor table: single instructions, the machine's
  set-up before any state exists.
* **VGA**: port sequences and pixels; no control state, and the kernel stays in text mode.
* **ATA**: no state of its own and never constructed. Its polling loops and the 28-bit address, of
  which `ata.cpp` writes two parts to one register, would need a model of the disk that nothing in
  the repository describes.
* **Exceptions**: their stubs' frames, the encoding of the IDT, `Deactivate` and the destructors,
  which nothing calls.
* **Checksums**, windows and options of TCP; the sizes of what UDP and ICMP hand up.
* **What is on the screen**, and `MouseToConsole`: section 3, `Console`.
* **The card within a layer**: a frame that arrives while ARP, ICMP or UDP is in the middle of reading
  its message, and two tasks that send at once.
* **Trees of widgets** deeper than a desktop, its windows and a widget in each; the child that a
  composite hands an event to is chosen the same way at each level.
* **A heap whose calls are interrupted**: it cannot occur in the linked kernel; it would as soon as
  tasks used the network stack.

## 8. Running it

    tlc -config TaskManager.cfg MCTaskManager.tla
    tlc -config DriverScan.cfg DriverScan.tla
    tlc -config NetworkStack.cfg MCNetworkStack.tla
    tlc -config InputDevices.cfg MCInputDevices.tla
    tlc -config Console.cfg MCConsole.tla
    tlapm NetworkStackProofs.tla

`PROJECT.json` names the module and configuration of every run, the code each definition stands for,
and for each property a plausible mistake in the code that makes it fail.
