---------------------------- MODULE TaskManager ----------------------------
(***************************************************************************)
(* The process table and the scheduler (src/src/multitasking.cpp) under    *)
(* the system calls and the timer interrupt that drive them                *)
(* (src/src/syscalls.cpp, src/src/hardwarecommunication/interrupts.cpp),   *)
(* for ARBITRARY user programs: the running task may fork, exit or wait    *)
(* for any pid whenever it likes, and the timer may strike between any     *)
(* two of its instructions.                                                *)
(*                                                                         *)
(* Every gate of the IDT is an interrupt gate, so a handler runs with      *)
(* interrupts disabled and is one atomic step.  System calls that change   *)
(* neither the table nor the CPU (print, execve, an unknown number, a      *)
(* waitpid that returns 0) are stuttering steps of this module.            *)
(*                                                                         *)
(* Left out: PCB::waitstate, which only printTasks reads, and register     *)
(* contents; a task's registers live in the trap frame on its own stack.   *)
(***************************************************************************)
EXTENDS Integers

CONSTANTS
  MaxTasks,     \* length of TaskManager::tasks[], 256 in the code
  TaskAddress   \* address `new Task` returns, as the int that numTasks becomes
                \* when tasks[MaxTasks], which is numTasks itself, is written

ASSUME MaxTasksAssumption    == MaxTasks \in Nat \ {0}
ASSUME TaskAddressAssumption == TaskAddress \in Nat /\ TaskAddress > MaxTasks

VARIABLES
  numTasks,     \* TaskManager::numTasks
  currentTask,  \* TaskManager::currentTask, -1 before the first switch
  pid,          \* tasks[i]->pcb.pid     for each slot i in use
  ppid,         \* tasks[i]->pcb.ppid
  state,        \* tasks[i]->pcb.state
  waitpid,      \* tasks[i]->pcb.waitpid
  cpu           \* what the processor executes

table == <<numTasks, pid, ppid, state, waitpid>>
vars  == <<numTasks, currentTask, pid, ppid, state, waitpid, cpu>>

(***************************************************************************)
(* ProcessState; BLOCKED is declared in the header and never used.         *)
(***************************************************************************)
ProcessState == {"READY", "RUNNING", "TERMINATED", "WAITING"}

(***************************************************************************)
(* boot:  kernelMain before InterruptManager::Activate, interrupts off     *)
(* idle:  kernelMain's endless loop, interrupts on, no task ever scheduled *)
(* user:  task currentTask runs                                            *)
(* spin:  Schedule searches for a READY task that does not exist, with     *)
(*        interrupts disabled: the machine never leaves this loop          *)
(* wild:  numTasks has been overwritten; what follows is undefined         *)
(***************************************************************************)
CpuMode == {"boot", "idle", "user", "spin", "wild"}

NoPid == 0
Pids  == 1 .. MaxTasks
Slots == 0 .. numTasks - 1

-----------------------------------------------------------------------------
(***************************************************************************)
(* Schedule(st, wp): TaskManager::Schedule, entered with the states st and *)
(* the wait targets wp that the calling handler has left in the table.     *)
(***************************************************************************)

\* The task Schedule takes for the current one (0 when none ever ran).
Outgoing == IF currentTask = -1 THEN 0 ELSE currentTask

\* The first loop keeps the last WAITING slot it meets, and only that one.
LastWaiter(w, st) ==
  /\ w \in Slots
  /\ st[w] = "WAITING"
  /\ \A v \in Slots : v > w => st[v] # "WAITING"

\* Mutant: any termination ends the wait.
WaitOver_AnyTerminated(w, st, wp) ==
  /\ LastWaiter(w, st)
  /\ \E t \in Slots : st[t] = "TERMINATED"

\* Mutant: the target is searched among the younger tasks only.
WaitOver_LaterSlots(w, st, wp) ==
  /\ LastWaiter(w, st)
  /\ \E t \in Slots : t > w /\ pid[t] = wp[w] /\ st[t] = "TERMINATED"

\* ... and that task is resumed when the pid it waits for is TERMINATED.
WaitOver(w, st, wp) ==
  /\ LastWaiter(w, st)
  /\ \E t \in Slots : pid[t] = wp[w] /\ st[t] = "TERMINATED"

\* Mutant: the search starts at slot 0 instead of after the current task.
Distance_FromZero(i) == i % numTasks

\* Number of slots the round-robin search passes before it looks at slot i.
Distance(i) == (i - Outgoing - 1) % numTasks

\* Mutant: every task that does not wait is taken for READY.
NextReady_NotWaiting(i, st) ==
  /\ i \in Slots
  /\ st[i] # "WAITING"
  /\ \A j \in Slots : st[j] # "WAITING" => Distance(i) <= Distance(j)

\* The READY slot the search finds first.
NextReady(i, st) ==
  /\ i \in Slots
  /\ st[i] = "READY"
  /\ \A j \in Slots : st[j] = "READY" => Distance(i) <= Distance(j)

\* The current task goes back to READY unless it waits or has terminated,
\* the chosen one becomes RUNNING and gets the processor.
SwitchTo(i, st) ==
  /\ state' = [s \in Slots |->
                 IF s = i THEN "RUNNING"
                 ELSE IF s = Outgoing /\ st[s] \notin {"WAITING", "TERMINATED"}
                      THEN "READY" ELSE st[s]]
  /\ currentTask' = i
  /\ cpu' = "user"

Schedule(st, wp) ==
  /\ \/ \E w \in Slots :
           /\ WaitOver(w, st, wp)
           /\ waitpid' = [wp EXCEPT ![w] = NoPid]
           /\ SwitchTo(w, st)
     \/ \E i \in Slots :
           /\ \A w \in Slots : ~WaitOver(w, st, wp)
           /\ NextReady(i, st)
           /\ waitpid' = wp
           /\ SwitchTo(i, st)
     \/ /\ \A w \in Slots : ~WaitOver(w, st, wp)
        /\ \A i \in Slots : st[i] # "READY"
        /\ state' = st
        /\ waitpid' = wp
        /\ currentTask' = Outgoing
        /\ cpu' = "spin"
  /\ UNCHANGED <<numTasks, pid, ppid>>

-----------------------------------------------------------------------------
(***************************************************************************)
(* kernelMain: Task main(&gdt, usr_main), TaskManager::AddTask(&main) and  *)
(* InterruptManager::Activate.  AddTask(Task* ) sets a pid only here, for  *)
(* the first process ever; its ppid and waitpid stay unset and unread.     *)
(***************************************************************************)
LoadMain ==
  /\ cpu = "boot"
  /\ numTasks < MaxTasks
  /\ numTasks' = numTasks + 1
  /\ pid'      = [s \in {numTasks} |-> 1]
  /\ ppid'     = [s \in {numTasks} |-> NoPid]
  /\ state'    = [s \in {numTasks} |-> "READY"]
  /\ waitpid'  = [s \in {numTasks} |-> NoPid]
  /\ cpu'      = "idle"
  /\ UNCHANGED currentTask

(***************************************************************************)
(* IRQ 0: DoHandleInterrupt calls Schedule and acknowledges the interrupt. *)
(***************************************************************************)
Tick ==
  /\ cpu \in {"idle", "user"}
  /\ Schedule(state, waitpid)

(***************************************************************************)
(* SyscallHandler::fork through TaskManager::AddTask().  The child is      *)
(* READY in the next free slot; the parent keeps the processor.            *)
(***************************************************************************)
Extend(f, v) == [s \in 0 .. numTasks |-> IF s = numTasks THEN v ELSE f[s]]

\* Mutant: the pid is taken before numTasks is incremented.
Fork_PidBeforeIncrement ==
  /\ cpu = "user"
  /\ numTasks < MaxTasks
  /\ numTasks' = numTasks + 1
  /\ pid'      = Extend(pid, numTasks)
  /\ ppid'     = Extend(ppid, pid[currentTask])
  /\ state'    = Extend(state, "READY")
  /\ waitpid'  = Extend(waitpid, NoPid)
  /\ UNCHANGED <<currentTask, cpu>>

\* Mutant: the child's pcb is copied from the parent's, state included.
Fork_CopiesState ==
  /\ cpu = "user"
  /\ numTasks < MaxTasks
  /\ numTasks' = numTasks + 1
  /\ pid'      = Extend(pid, numTasks + 1)
  /\ ppid'     = Extend(ppid, pid[currentTask])
  /\ state'    = Extend(state, state[currentTask])
  /\ waitpid'  = Extend(waitpid, NoPid)
  /\ UNCHANGED <<currentTask, cpu>>

\* Mutant: a full table is taken for one with room.
Fork_OneTooMany ==
  /\ cpu = "user"
  /\ numTasks <= MaxTasks
  /\ numTasks' = numTasks + 1
  /\ pid'      = Extend(pid, numTasks + 1)
  /\ ppid'     = Extend(ppid, pid[currentTask])
  /\ state'    = Extend(state, "READY")
  /\ waitpid'  = Extend(waitpid, NoPid)
  /\ UNCHANGED <<currentTask, cpu>>

Fork ==
  /\ cpu = "user"
  /\ numTasks < MaxTasks
  /\ numTasks' = numTasks + 1
  /\ pid'      = Extend(pid, numTasks + 1)
  /\ ppid'     = Extend(ppid, pid[currentTask])
  /\ state'    = Extend(state, "READY")
  /\ waitpid'  = Extend(waitpid, NoPid)
  /\ UNCHANGED <<currentTask, cpu>>

(***************************************************************************)
(* AddTask() has no check for a full table.  tasks[MaxTasks] is numTasks,  *)
(* the next member of the class: it receives the address of the new Task,  *)
(* is then incremented, and every later index is taken from it.            *)
(***************************************************************************)
ForkOverflow ==
  /\ cpu = "user"
  /\ numTasks >= MaxTasks
  /\ numTasks' = TaskAddress + 1
  /\ cpu' = "wild"
  /\ UNCHANGED <<currentTask, pid, ppid, state, waitpid>>

(***************************************************************************)
(* EXIT_INT: KillCurrent, then Schedule.                                   *)
(***************************************************************************)
Exit ==
  /\ cpu = "user"
  /\ Schedule([state EXCEPT ![currentTask] = "TERMINATED"], waitpid)

(***************************************************************************)
(* WAITPID_INT: WaitTask, then Schedule when it returned 1.  The target    *)
(* may be any task but the caller, terminated ones included.               *)
(***************************************************************************)
\* Mutant: the test for waiting on oneself is missing.
WaitTarget_Self(p) == \E t \in Slots : pid[t] = p

WaitTarget(p) == p # pid[currentTask] /\ \E t \in Slots : pid[t] = p

WaitPid(p) ==
  /\ cpu = "user"
  /\ WaitTarget(p)
  /\ Schedule([state EXCEPT ![currentTask] = "WAITING"],
              [waitpid EXCEPT ![currentTask] = p])

-----------------------------------------------------------------------------
Init ==
  /\ numTasks = 0
  /\ currentTask = -1
  /\ pid     = [s \in {} |-> NoPid]
  /\ ppid    = [s \in {} |-> NoPid]
  /\ state   = [s \in {} |-> "READY"]
  /\ waitpid = [s \in {} |-> NoPid]
  /\ cpu = "boot"

Next ==
  \/ LoadMain
  \/ Tick
  \/ Fork
  \/ ForkOverflow
  \/ Exit
  \/ \E p \in Pids : WaitPid(p)

Spec == Init /\ [][Next]_vars

(***************************************************************************)
(* The PC's timer runs from power-on and no line of the interrupt          *)
(* controller is masked, so a tick comes as long as interrupts are on.     *)
(* Nothing is assumed of the user programs.                                *)
(***************************************************************************)
Fairness == WF_vars(Tick)
FairSpec == Spec /\ Fairness

-----------------------------------------------------------------------------
Halted == cpu \in {"spin", "wild"}

(***************************************************************************)
(* The table holds exactly the tasks that were added, each with a pid, a   *)
(* state and a wait target, until tasks[] overflows (AddTask).             *)
(***************************************************************************)
TypeOK ==
  /\ cpu \in CpuMode
  /\ numTasks \in 0 .. MaxTasks \/ cpu = "wild"
  /\ DOMAIN state \subseteq 0 .. MaxTasks - 1
  /\ cpu # "wild" => DOMAIN state = Slots
  /\ currentTask \in {-1} \cup DOMAIN state
  /\ state   \in [DOMAIN state -> ProcessState]
  /\ pid     \in [DOMAIN state -> Pids]
  /\ ppid    \in [DOMAIN state -> Pids \cup {NoPid}]
  /\ waitpid \in [DOMAIN state -> Pids \cup {NoPid}]

(***************************************************************************)
(* A pid names one process: waitpid searches the table by pid              *)
(* (multitasking.cpp:124, 183) and KillCurrent leaves dead tasks in it, so *)
(* a pid must never come back (comment at multitasking.cpp:99).            *)
(***************************************************************************)
UniquePids ==
  \A s, t \in DOMAIN pid : pid[s] = pid[t] => s = t

(***************************************************************************)
(* The processor and the table agree: while user code runs, the current    *)
(* task is the one task marked RUNNING, whatever mix of ticks, exits and   *)
(* wake-ups led here (multitasking.cpp:226-233).                           *)
(***************************************************************************)
OneRunning ==
  cpu = "user" => \A s \in DOMAIN state : state[s] = "RUNNING" <=> s = currentTask

(***************************************************************************)
(* A WAITING task waits for another task of the table, so that some exit   *)
(* can end its wait; the target is forgotten exactly when the wait is over *)
(* (WaitTask and Schedule, multitasking.cpp:117-135 and 187).              *)
(***************************************************************************)
WaitersHaveTarget ==
  \A s \in DOMAIN state :
     /\ state[s] = "WAITING" <=> waitpid[s] # NoPid
     /\ state[s] = "WAITING" =>
          \E t \in DOMAIN state \ {s} : pid[t] = waitpid[s]

(***************************************************************************)
(* Exit is final: once TERMINATED a task is never put back to READY and    *)
(* never gets the processor again ("so that this process won't be          *)
(* scheduled anymore", kernel.cpp:282).                                    *)
(***************************************************************************)
TerminatedIsFinal ==
  [][\A s \in DOMAIN state :
       state[s] = "TERMINATED" =>
         /\ state'[s] = "TERMINATED"
         /\ cpu' = "user" => currentTask' # s]_vars

(***************************************************************************)
(* waitpid returns for one reason only: a WAITING task leaves that state   *)
(* by getting the processor, in a step at whose end the task it waited for *)
(* is TERMINATED (multitasking.cpp:177-194).                               *)
(***************************************************************************)
WokenByTermination ==
  [][\A s \in DOMAIN state :
       state[s] = "WAITING" /\ state'[s] # "WAITING" =>
         /\ currentTask' = s
         /\ cpu' = "user"
         /\ \E t \in DOMAIN state :
               pid[t] = waitpid[s] /\ state'[t] = "TERMINATED"]_vars

(***************************************************************************)
(* Round robin starves nobody: a READY task gets the processor, although   *)
(* every wake-up moves the point the search starts from                    *)
(* (multitasking.cpp:198-216).                                             *)
(***************************************************************************)
Ready(s)   == s \in DOMAIN state /\ state[s] = "READY"
Running(s) == s \in DOMAIN state /\ state[s] = "RUNNING"

ReadyEventuallyRuns ==
  \A s \in 0 .. MaxTasks - 1 : Ready(s) ~> Running(s) \/ Halted

(***************************************************************************)
(* The waiter that Schedule looks at is resumed once its target is dead,   *)
(* unless a later slot starts to wait first (multitasking.cpp:168-195).    *)
(***************************************************************************)
Waiting(s) == s \in DOMAIN state /\ state[s] = "WAITING"
TargetDead(s) ==
  \E t \in DOMAIN state : pid[t] = waitpid[s] /\ state[t] = "TERMINATED"

LastWaiterServed ==
  \A s \in 0 .. MaxTasks - 1 :
     (cpu = "user" /\ LastWaiter(s, state) /\ TargetDead(s))
       ~> (Running(s) \/ Halted \/ \E v \in s + 1 .. MaxTasks - 1 : Waiting(v))

-----------------------------------------------------------------------------
(***************************************************************************)
(* Statements of the source that the code does not live up to.             *)
(***************************************************************************)

(***************************************************************************)
(* "If there is a task in the waiting state, check if the process it's     *)
(* waiting for has terminated" (multitasking.cpp:177): a task whose target *)
(* has terminated is resumed.  Only the last waiter is ever checked.       *)
(***************************************************************************)
WaiterEventuallyResumes ==
  \A s \in 0 .. MaxTasks - 1 :
     (Waiting(s) /\ TargetDead(s)) ~> (Running(s) \/ Halted)

(***************************************************************************)
(* "move current process to ready queue" (multitasking.cpp:225): the task  *)
(* a tick interrupts stays eligible, so the search finds nothing only when *)
(* no task can run.  The code moves it after the search.                   *)
(***************************************************************************)
SpinOnlyWhenBlocked ==
  cpu = "spin" =>
    \A s \in DOMAIN state : state[s] \in {"WAITING", "TERMINATED"}
=============================================================================
