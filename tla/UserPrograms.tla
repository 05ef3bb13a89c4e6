---------------------------- MODULE UserPrograms ----------------------------
(***************************************************************************)
(* The programs the kernel ships (usr_main, strategy, collatz and          *)
(* long_running_program of src/src/kernel.cpp) running on the scheduler of *)
(* TaskManager: one action is one instruction that reads or writes a local *)
(* variable, or one system call.                                           *)
(*                                                                         *)
(* Locals matter because of fork.  SyscallHandler::fork relocates the ebp  *)
(* of the trap frame, which is the frame of the fork() stub.  The stub's   *)
(* `leave' then pops the caller's ebp as the stack copy holds it: an       *)
(* address in the PARENT's stack.  Until the child calls a function of its *)
(* own, every local it names is its parent's.  The layout of strategy's    *)
(* locals, which decides what an array index one past the end names, is    *)
(* that of the kernel image in the repository (src/mykernel.bin).          *)
(***************************************************************************)
EXTENDS TaskManager

CONSTANTS
  NC,       \* collatz children strategy forks, 3 in the code
  NL,       \* long_running_program children, 3 in the code
  TickAt    \* bound: the instructions a timer interrupt may precede; all of
            \* them in reality, fewer to find out which ones the programs survive

ASSUME ChildrenAssumption == NC \in Nat \ {0} /\ NL \in Nat \ {0}

VARIABLES
  pc,       \* [at, loop]: the next instruction; loop 0 is usr_main's single
            \* fork and wait, loops 1 to 4 are those of strategy, in order
  reg,      \* the register that holds a system call's argument or result
  base,     \* the task in whose stack ebp points
  frame,    \* the locals of usr_main and strategy in the stack of each task
  harmed    \* history: a tick came where the programs do not survive one

programVars == <<pc, reg, base, frame>>
allVars     == <<vars, programVars, harmed>>

(***************************************************************************)
(* Words of a stack, upwards: status and status of the two wait loops,     *)
(* lrp_pids, collatz_pids, i of the four loops (the last loop's lowest);   *)
(* then pid and status of usr_main, which are out of any index's reach.    *)
(***************************************************************************)
Index(k)   == NC + NL + 4 - k
StatusOfLoop(k) == IF k = 0 THEN NC + NL + 5 ELSE 2 - k
MainPid    == NC + NL + 4
Words      == -2 .. NC + NL + 5
Count(k)   == IF k \in {1, 3} THEN NC ELSE NL

\* The word that holds the pid which instruction number k of frame f means.
PidWord(k, f) ==
  CASE k = 0        -> MainPid
    [] k \in {1, 3} -> NL + f[Index(k)]
    [] OTHER        -> f[Index(k)]

\* Bound: a task whose index has left the locals executes no further.
InReach(k, f) == k = 0 \/ PidWord(k, f) \in 0 .. NC + NL + 3

Me    == currentTask
Frame == frame[base[Me]]
K     == pc[Me].loop

-----------------------------------------------------------------------------
At(a) == cpu = "user" /\ pc[Me].at = a

Goto(a, k) == pc' = [pc EXCEPT ![Me] = [at |-> a, loop |-> k]]

Write(word, v) == frame' = [frame EXCEPT ![base[Me]][word] = v]

\* for (int i = 0; ...)
LoopInit ==
  /\ At("init")
  /\ Write(Index(K), 0)
  /\ Goto("cond", K)
  /\ UNCHANGED <<reg, base, vars>>

\* Mutant: strategy does not wait for the long running programs.
LoopCond_LastLoopLost ==
  /\ At("cond")
  /\ IF Frame[Index(K)] < Count(K)
     THEN Goto(IF K \in {1, 2} THEN "fork" ELSE "load", K)
     ELSE IF K < 3 THEN Goto("init", K + 1) ELSE Goto("exit", K)
  /\ UNCHANGED <<reg, base, frame, vars>>

LoopCond ==
  /\ At("cond")
  /\ IF Frame[Index(K)] < Count(K)
     THEN Goto(IF K \in {1, 2} THEN "fork" ELSE "load", K)
     ELSE IF K < 4 THEN Goto("init", K + 1) ELSE Goto("exit", K)
  /\ UNCHANGED <<reg, base, frame, vars>>

LoopInc ==
  /\ At("inc")
  /\ Write(Index(K), Frame[Index(K)] + 1)
  /\ Goto("cond", K)
  /\ UNCHANGED <<reg, base, vars>>

\* Mutant: the relocated ebp is stored in the parent's trap frame.
CallFork_RelocatesParent ==
  /\ At("fork")
  /\ \/ /\ Fork
        /\ LET next == [at |-> "store", loop |-> K]
           IN  pc' = [Extend(pc, next) EXCEPT ![Me] = next]
        /\ reg'   = [Extend(reg, 0) EXCEPT ![Me] = numTasks + 1]
        /\ base'  = [Extend(base, base[Me]) EXCEPT ![Me] = numTasks]
        /\ frame' = Extend(frame, frame[Me])
     \/ /\ ForkOverflow
        /\ UNCHANGED programVars

\* pid = fork(), the system call: parent and child return from it alike.
CallFork ==
  /\ At("fork")
  /\ \/ /\ Fork
        /\ LET next == [at |-> "store", loop |-> K]
           IN  pc' = [Extend(pc, next) EXCEPT ![Me] = next]
        /\ reg'   = [Extend(reg, 0) EXCEPT ![Me] = numTasks + 1]
        /\ base'  = Extend(base, base[Me])
        /\ frame' = Extend(frame, frame[Me])
     \/ /\ ForkOverflow
        /\ UNCHANGED programVars

\* pid = fork(), the assignment.
StorePid ==
  /\ At("store")
  /\ InReach(K, Frame)
  /\ Write(PidWord(K, Frame), reg[Me])
  /\ Goto("test", K)
  /\ UNCHANGED <<reg, base, vars>>

\* Mutant: the second loop starts collatz too.
TestPid_AlwaysCollatz ==
  /\ At("test")
  /\ InReach(K, Frame)
  /\ IF Frame[PidWord(K, Frame)] = 0
     THEN Goto(IF K = 0 THEN "execve" ELSE "collatz", K)
     ELSE Goto(IF K = 0 THEN "status" ELSE "inc", K)
  /\ UNCHANGED <<reg, base, frame, vars>>

\* if (pid == 0): the child's program, each entered on the child's own stack.
TestPid ==
  /\ At("test")
  /\ InReach(K, Frame)
  /\ IF Frame[PidWord(K, Frame)] = 0
     THEN Goto(CASE K = 0 -> "execve" [] K = 1 -> "collatz" [] OTHER -> "lrp", K)
     ELSE Goto(IF K = 0 THEN "status" ELSE "inc", K)
  /\ UNCHANGED <<reg, base, frame, vars>>

\* execve(strategy); the new program's prologue sets up a frame of its own.
CallExecve ==
  /\ At("execve")
  /\ Goto("init", 1)
  /\ base' = [base EXCEPT ![Me] = Me]
  /\ UNCHANGED <<reg, frame, vars>>

\* int status = -1, in usr_main.
InitStatus ==
  /\ At("status")
  /\ Write(StatusOfLoop(0), -1)
  /\ Goto("load", 0)
  /\ UNCHANGED <<reg, base, vars>>

\* Mutant: the wait loops start at the second child.
LoadPid_SkipsFirst ==
  /\ At("load")
  /\ InReach(K, Frame)
  /\ reg' = [reg EXCEPT ![Me] =
               IF K = 0 THEN Frame[MainPid] ELSE Frame[PidWord(K, Frame) + 1]]
  /\ Goto("wait", K)
  /\ UNCHANGED <<base, frame, vars>>

\* The argument of waitpid(pid, &status).
LoadPid ==
  /\ At("load")
  /\ InReach(K, Frame)
  /\ reg' = [reg EXCEPT ![Me] = Frame[PidWord(K, Frame)]]
  /\ Goto("wait", K)
  /\ UNCHANGED <<base, frame, vars>>

\* The system call.  ecx is -1 when there is nothing to wait for; otherwise
\* Schedule sets it to 1 when it resumes the caller.
CallWaitPid ==
  /\ At("wait")
  /\ \/ /\ \E p \in Pids : p = reg[Me] /\ WaitPid(p)
        /\ reg' = [reg EXCEPT ![Me] = 1]
     \/ /\ ~WaitTarget(reg[Me])
        /\ reg' = [reg EXCEPT ![Me] = -1]
        /\ UNCHANGED vars
  /\ Goto("result", K)
  /\ UNCHANGED <<base, frame>>

StoreStatus ==
  /\ At("result")
  /\ Write(StatusOfLoop(K), reg[Me])
  /\ Goto("check", K)
  /\ UNCHANGED <<reg, base, vars>>

\* if (status == -1) printf("waitpid failed!"); both branches go on.
CheckStatus ==
  /\ At("check")
  /\ Goto(IF K = 0 THEN "exit" ELSE "inc", K)
  /\ UNCHANGED <<reg, base, frame, vars>>

\* Mutant: long_running_program does not call exit.
CallExit_NotByLrp ==
  /\ At("exit") \/ At("collatz")
  /\ Exit
  /\ UNCHANGED programVars

\* exit(), at the end of usr_main, strategy, collatz, long_running_program.
CallExit ==
  /\ At("exit") \/ At("collatz") \/ At("lrp")
  /\ Exit
  /\ UNCHANGED programVars

-----------------------------------------------------------------------------
Boot ==
  /\ LoadMain
  /\ pc'    = [s \in {0} |-> [at |-> "fork", loop |-> 0]]
  /\ reg'   = [s \in {0} |-> 0]
  /\ base'  = [s \in {0} |-> 0]
  /\ frame' = [s \in {0} |-> [w \in Words |-> 0]]
  /\ UNCHANGED harmed

\* Ticks come while a child computes, inside the system calls' stubs and around
\* the instructions that use a system call's result: what the programs survive.
Survivable == {"collatz", "lrp", "fork", "store", "execve", "wait", "result",
               "check", "exit"}

Timer ==
  /\ cpu = "user" => pc[Me].at \in TickAt
  /\ Tick
  /\ harmed' = (harmed \/ (cpu = "user" /\ pc[Me].at \notin Survivable))
  /\ UNCHANGED programVars

Instruction ==
  /\ UNCHANGED harmed
  /\ \/ LoopInit \/ LoopCond \/ LoopInc
     \/ CallFork \/ StorePid \/ TestPid \/ CallExecve
     \/ InitStatus \/ LoadPid \/ CallWaitPid \/ StoreStatus \/ CheckStatus
     \/ CallExit

ProgramInit ==
  /\ Init
  /\ pc    = [s \in {} |-> [at |-> "fork", loop |-> 0]]
  /\ reg   = [s \in {} |-> 0]
  /\ base  = [s \in {} |-> 0]
  /\ frame = [s \in {} |-> [w \in Words |-> 0]]
  /\ harmed = FALSE

ProgramNext == Boot \/ Timer \/ Instruction

ProgramSpec == ProgramInit /\ [][ProgramNext]_allVars

(***************************************************************************)
(* The kernel boots, the first tick starts it, and a task that keeps       *)
(* getting the processor executes its instructions: ticks are many         *)
(* thousand instructions apart.                                            *)
(***************************************************************************)
ProgramFairness ==
  /\ WF_allVars(Boot)
  /\ WF_allVars(Timer)
  /\ \A s \in 0 .. MaxTasks - 1 : SF_allVars(Me = s /\ Instruction)

FairProgramSpec == ProgramSpec /\ ProgramFairness

-----------------------------------------------------------------------------
Dead(s) == s \in DOMAIN state /\ state[s] = "TERMINATED"

(***************************************************************************)
(* Until a tick the programs do not survive, no waitpid of usr_main or     *)
(* strategy fails: the pids they kept are still the ones fork returned     *)
(* ("waitpid failed!", kernel.cpp:275, 321, 334).                          *)
(***************************************************************************)
WaitsSucceed ==
  ~harmed => \A s \in DOMAIN pc :
    pc[s].at = "check" => frame[base[s]][StatusOfLoop(pc[s].loop)] = 1

(***************************************************************************)
(* Until such a tick, strategy ends after all the children it was to start *)
(* have started and ended ("wait all children processes to be terminated", *)
(* kernel.cpp:312).                                                        *)
(***************************************************************************)
ChildrenReaped ==
  ~harmed /\ Dead(1) => numTasks = 2 + NC + NL /\ \A s \in Slots \ {0} : Dead(s)

(***************************************************************************)
(* usr_main ends after strategy ("wait strategy process to terminate",     *)
(* kernel.cpp:270).                                                        *)
(***************************************************************************)
MainEndsLast == Dead(0) => Dead(1)

(***************************************************************************)
(* Until such a tick, each child runs the program it was forked for,       *)
(* although it learns that it is the child by writing to and reading from  *)
(* its parent's variables (kernel.cpp:296-309).                            *)
(***************************************************************************)
RightProgram ==
  ~harmed => \A s \in DOMAIN pc :
    /\ pc[s].at = "collatz" => s \in 2 .. NC + 1
    /\ pc[s].at = "lrp" => s \in NC + 2 .. NC + NL + 1
    /\ pc[s].at \in {"load", "wait", "exit"} => s \in {0, 1}

(***************************************************************************)
(* Whatever the timer does, a task's locals are in its own stack or in     *)
(* that of an ancestor: fork and execve never point it at a stranger's     *)
(* (syscalls.cpp:33-38, 52).  A task and its ancestors are what every set  *)
(* has that has the task and the parents of its members.                   *)
(***************************************************************************)
Parent(s) == ppid[s] - 1

Line(A) == \A s \in A \ {0} : Parent(s) \in A

BaseIsAncestor ==
  \A s \in DOMAIN base : \A A \in SUBSET DOMAIN base :
    s \in A /\ Line(A) => base[s] \in A

(***************************************************************************)
(* The programs run to their end unless such a tick comes or Schedule's    *)
(* search never ends (usr_main, kernel.cpp:261-280; multitasking.cpp:201). *)
(***************************************************************************)
Completes == <>(Dead(0) \/ cpu = "spin" \/ harmed)
=============================================================================
