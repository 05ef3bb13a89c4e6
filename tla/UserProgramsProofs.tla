------------------------- MODULE UserProgramsProofs -------------------------
(***************************************************************************)
(* The shipped programs for any number of children and any table.          *)
(*                                                                         *)
(* Wherever the ticks come, the programs are a refinement of TaskManager,  *)
(* whose invariant they therefore keep, and a task's locals are in its own *)
(* stack or an ancestor's: BaseInv.                                        *)
(*                                                                         *)
(* Until a tick comes where Survivable does not say, the programs keep     *)
(* their promises, wherever ticks may come.  ProgramInv says for each of usr_main, strategy and a child   *)
(* at which instruction it may be and what it relies on there: which word  *)
(* of which stack still holds which pid, who is dead, who is waited for.   *)
(* Nothing is said of a program once the table has overflowed but what it  *)
(* had promised before.                                                    *)
(***************************************************************************)
EXTENDS UserPrograms, TaskManagerProofs

-----------------------------------------------------------------------------
(***************************************************************************)
(* To the scheduler the programs are some of the arbitrary programs of     *)
(* TaskManager.                                                            *)
(***************************************************************************)
LEMMA StepIsSchedulers == [ProgramNext]_allVars => [Next]_vars
<1> SUFFICES ASSUME [ProgramNext]_allVars PROVE [Next]_vars
  OBVIOUS
<1>1. CASE Boot \/ Timer
  BY <1>1 DEF Boot, Timer, Next
<1>2. CASE CallFork \/ CallWaitPid \/ CallExit
  BY <1>2 DEF CallFork, CallWaitPid, CallExit, Next
<1>3. CASE \/ LoopInit \/ LoopCond \/ LoopInc \/ StorePid \/ TestPid \/ CallExecve
           \/ InitStatus \/ LoadPid \/ StoreStatus \/ CheckStatus \/ UNCHANGED allVars
  BY <1>3 DEF LoopInit, LoopCond, LoopInc, StorePid, TestPid, CallExecve, InitStatus,
              LoadPid, StoreStatus, CheckStatus, allVars
<1> QED
  BY <1>1, <1>2, <1>3 DEF ProgramNext, Instruction

(***************************************************************************)
(* Every behaviour of the programs is one of the scheduler's, so that all  *)
(* that is proved of the process table holds while they run (the handler   *)
(* in syscalls.cpp:61-100 does nothing else to it).                        *)
(***************************************************************************)
THEOREM ProgramsUseScheduler == ProgramSpec => Spec
<1>1. ProgramInit => Init
  BY DEF ProgramInit
<1> QED
  BY <1>1, StepIsSchedulers, PTL DEF ProgramSpec, Spec

(***************************************************************************)
(* s waits for p, or need not any more.                                    *)
(***************************************************************************)
Awaits(s, p) ==
  \/ s \in DOMAIN state /\ state[s] = "WAITING" /\ waitpid[s] = p
  \/ Dead(p - 1)

\* Schedule kills nobody, and wakes only whose wait is over.
LEMMA ScheduleKeeps ==
  ASSUME IInv, cpu \in {"idle", "user"}, NEW st, NEW wp, Handed(st, wp), Schedule(st, wp)
  PROVE  /\ cpu' \in {"user", "spin"}
         /\ UNCHANGED <<numTasks, pid, ppid>>
         /\ DOMAIN state = Slots /\ DOMAIN state' = Slots
         /\ \A s \in Slots : st[s] = "TERMINATED" <=> state'[s] = "TERMINATED"
         /\ \A s \in Slots : st[s] = "WAITING" => Awaits(s, wp[s])'
<1>1. UNCHANGED <<numTasks, pid, ppid>>
  BY DEF Schedule
<1>2. DOMAIN state = Slots /\ \A t \in Slots : pid[t] = t + 1 /\ t \in Int
  BY DEF IInv, TypeOK, PidIsSlot, Slots
<1>3. st \in [Slots -> ProcessState] /\ wp \in [Slots -> Pids \cup {NoPid}]
  BY DEF Handed
<1>4. CASE cpu' = "spin" /\ state' = st /\ waitpid' = wp
  BY <1>1, <1>2, <1>3, <1>4 DEF Awaits
<1>5. ASSUME NEW i \in Slots, cpu' = "user",
             \/ st[i] = "READY" /\ waitpid' = wp
             \/ Resumable(i, st, wp) /\ waitpid' = [wp EXCEPT ![i] = NoPid],
             state' \in [Slots -> ProcessState],
             state'[i] = "RUNNING",
             \A s \in Slots \ {i} : IF st[s] \in Blocked THEN state'[s] = st[s]
                                                         ELSE state'[s] \notin Blocked
      PROVE  /\ \A s \in Slots : st[s] = "TERMINATED" <=> state'[s] = "TERMINATED"
             /\ \A s \in Slots : st[s] = "WAITING" => Awaits(s, wp[s])'
  <2>1. \A s \in Slots : st[s] = "TERMINATED" <=> state'[s] = "TERMINATED"
    BY <1>5 DEF Blocked, Resumable
  <2>2. ASSUME NEW s \in Slots, st[s] = "WAITING", s # i
        PROVE  Awaits(s, wp[s])'
    <3>1. state'[s] = "WAITING" /\ waitpid'[s] = wp[s]
      BY <1>3, <1>5, <2>2 DEF Blocked
    <3> QED
      BY <1>5, <3>1 DEF Awaits
  <2>3. ASSUME st[i] = "WAITING"
        PROVE  Awaits(i, wp[i])'
    <3>1. PICK t \in Slots : pid[t] = wp[i] /\ st[t] = "TERMINATED"
      BY <1>5, <2>3 DEF Resumable
    <3>2. t = wp[i] - 1 /\ state'[t] = "TERMINATED"
      BY <1>2, <2>1, <3>1
    <3> QED
      BY <1>5, <3>2 DEF Awaits, Dead
  <2> QED
    BY <2>1, <2>2, <2>3
<1> QED
  BY <1>1, <1>2, <1>3, <1>4, <1>5, ScheduleEffect

\* What WaitTask hands to Schedule.
LEMMA HandedWaiting ==
  ASSUME IInv, NEW p \in Pids, WaitPid(p)
  PROVE  Handed([state EXCEPT ![currentTask] = "WAITING"], [waitpid EXCEPT ![currentTask] = p])
<1>1. /\ Handed(state, waitpid) /\ DOMAIN state = Slots
      /\ currentTask \in Slots /\ state[currentTask] = "RUNNING"
  BY OwnerIsCurrent DEF WaitPid
<1>2. p # NoPid /\ \E t \in Slots \ {currentTask} : pid[t] = p
  BY DEF WaitPid, WaitTarget, Pids, NoPid
<1> QED
  BY <1>1, <1>2 DEF Handed, ProcessState

-----------------------------------------------------------------------------
(***************************************************************************)
(* Whose locals a task uses, wherever the ticks come.                      *)
(***************************************************************************)
BaseInv ==
  /\ DOMAIN base = DOMAIN state
  /\ \A s \in DOMAIN state \ {0} : Parent(s) \in 0 .. s - 1
  /\ BaseIsAncestor

LEMMA ForkKeepsBase ==
  ASSUME IInv, BaseInv, CallFork
  PROVE  BaseInv'
<1>1. CASE ForkOverflow /\ UNCHANGED programVars
  BY <1>1 DEF ForkOverflow, programVars, BaseInv, Parent, BaseIsAncestor, Line
<1>2. CASE Fork /\ base' = Extend(base, base[Me])
  <2> DEFINE n == numTasks
  <2>1. /\ n \in Nat /\ Me \in 0 .. n - 1
        /\ DOMAIN state = 0 .. n - 1 /\ DOMAIN ppid = 0 .. n - 1 /\ DOMAIN base = 0 .. n - 1
        /\ pid[Me] = Me + 1
    BY <1>2, MaxTasksAssumption
    DEF Fork, Me, IInv, TypeOK, CpuAgrees, PidIsSlot, Slots, BaseInv
  <2>2. DOMAIN base' = 0 .. n /\ DOMAIN state' = 0 .. n
    BY <1>2 DEF Fork, Extend
  <2>3. \A s \in 0 .. n - 1 : ppid'[s] - 1 = Parent(s) /\ base'[s] = base[s]
    BY <1>2, <2>1 DEF Fork, Extend, Parent
  <2>4. ppid'[n] - 1 = Me /\ base'[n] = base[Me]
    BY <1>2, <2>1 DEF Fork, Extend, Me
  <2> HIDE DEF n
  <2>5. \A s \in (0 .. n) \ {0} : ppid'[s] - 1 \in 0 .. s - 1
    <3>1. \A s \in (0 .. n - 1) \ {0} : ppid'[s] - 1 \in 0 .. s - 1
      BY <2>1, <2>3 DEF BaseInv
    <3> QED
      BY <2>1, <2>4, <3>1
  <2>6. ASSUME NEW s \in 0 .. n, NEW A \in SUBSET (0 .. n), s \in A,
               \A t \in A \ {0} : ppid'[t] - 1 \in A
        PROVE  base'[s] \in A
    <3> DEFINE B == A \cap 0 .. n - 1
    <3>1. Line(B)
      <4>1. ASSUME NEW t \in B \ {0} PROVE Parent(t) \in B
        <5>1. Parent(t) \in 0 .. t - 1 /\ Parent(t) = ppid'[t] - 1
          BY <2>1, <2>3 DEF BaseInv
        <5>2. ppid'[t] - 1 \in A
          BY <2>6
        <5> QED
          BY <2>1, <5>1, <5>2
      <4> QED
        BY <4>1 DEF Line
    <3>2. \A r \in B : base[r] \in B
      BY <2>1, <3>1 DEF BaseInv, BaseIsAncestor
    <3>3. CASE s \in B
      BY <2>1, <2>3, <3>2, <3>3
    <3>4. CASE s = n
      <4>1. Me \in A
        BY <2>1, <2>4, <2>6, <3>4
      <4> QED
        BY <2>1, <2>4, <3>2, <3>4, <4>1
    <3> QED
      BY <2>1, <2>6, <3>3, <3>4
  <2> QED
    BY <2>2, <2>5, <2>6 DEF BaseInv, BaseIsAncestor, Line, Parent
<1> QED
  BY <1>1, <1>2 DEF CallFork

LEMMA BaseStep ==
  ASSUME IInv, BaseInv, [ProgramNext]_allVars
  PROVE  BaseInv'
<1>1. CASE Boot
  <2>1. numTasks = 0
    BY <1>1 DEF Boot, LoadMain, IInv, CpuAgrees
  <2>2. DOMAIN base' = {0} /\ base'[0] = 0 /\ DOMAIN state' = {0}
    BY <1>1, <2>1 DEF Boot, LoadMain
  <2> QED
    BY <2>2 DEF BaseInv, BaseIsAncestor
<1>2. CASE CallFork
  BY <1>2, ForkKeepsBase
<1>3. ASSUME UNCHANGED base, UNCHANGED ppid, DOMAIN state' = DOMAIN state
      PROVE  BaseInv'
  BY <1>3 DEF BaseInv, BaseIsAncestor, Line, Parent
<1>4. CASE Timer
  <2>1. Tick /\ UNCHANGED base
    BY <1>4 DEF Timer, programVars
  <2>2. cpu \in {"idle", "user"} /\ Schedule(state, waitpid)
    BY <2>1 DEF Tick
  <2> QED
    BY <1>3, <2>1, <2>2, HandedAsIs, ScheduleKeeps
<1>5. CASE CallExit
  <2> DEFINE st == [state EXCEPT ![currentTask] = "TERMINATED"]
  <2>1. cpu = "user" /\ Schedule(st, waitpid) /\ UNCHANGED base
    BY <1>5 DEF CallExit, Exit, programVars
  <2>2. Handed(st, waitpid)
    BY <2>1, OwnerIsCurrent DEF Handed, ProcessState
  <2> QED
    BY <1>3, <2>1, <2>2, ScheduleKeeps
<1>6. CASE CallWaitPid
  <2>1. UNCHANGED base
    BY <1>6 DEF CallWaitPid
  <2>2. CASE UNCHANGED vars
    BY <1>3, <2>1, <2>2 DEF vars
  <2>3. ASSUME NEW p \in Pids, WaitPid(p)
        PROVE  BaseInv'
    <3> DEFINE st == [state EXCEPT ![currentTask] = "WAITING"]
               wp == [waitpid EXCEPT ![currentTask] = p]
    <3>1. cpu = "user" /\ Schedule(st, wp)
      BY <2>3 DEF WaitPid
    <3>2. Handed(st, wp)
      BY <2>3, <3>1, HandedWaiting
    <3> QED
      BY <1>3, <2>1, <3>1, <3>2, ScheduleKeeps
  <2> QED
    BY <1>6, <2>2, <2>3 DEF CallWaitPid
<1>7. CASE CallExecve
  <2>1. UNCHANGED <<ppid, state>> /\ base' = [base EXCEPT ![Me] = Me]
    BY <1>7 DEF CallExecve, vars
  <2>2. \A s \in DOMAIN base : base'[s] = s \/ base'[s] = base[s]
    BY <2>1
  <2> QED
    BY <2>1, <2>2 DEF BaseInv, BaseIsAncestor, Line, Parent
<1>8. CASE \/ LoopInit \/ LoopCond \/ LoopInc \/ StorePid \/ TestPid
           \/ InitStatus \/ LoadPid \/ StoreStatus \/ CheckStatus \/ UNCHANGED allVars
  <2>1. UNCHANGED base /\ UNCHANGED vars
    BY <1>8 DEF LoopInit, LoopCond, LoopInc, StorePid, TestPid, InitStatus,
                LoadPid, StoreStatus, CheckStatus, allVars, programVars
  <2> QED
    BY <1>3, <2>1 DEF vars
<1> QED
  BY <1>1, <1>2, <1>4, <1>5, <1>6, <1>7, <1>8 DEF ProgramNext, Instruction

(***************************************************************************)
(* Wherever the ticks come and however full the table is, a task's locals  *)
(* are in its own stack or in that of an ancestor (syscalls.cpp:33-38).    *)
(***************************************************************************)
THEOREM LocalsInLine == ProgramSpec => []BaseIsAncestor
<1>1. ProgramInit => BaseInv
  BY DEF ProgramInit, Init, BaseInv, BaseIsAncestor
<1>2. IInv /\ BaseInv /\ [ProgramNext]_allVars => BaseInv'
  BY BaseStep
<1>3. BaseInv => BaseIsAncestor
  BY DEF BaseInv
<1> QED
  BY <1>1, <1>2, <1>3, ProgramsUseScheduler, Invariance, PTL DEF ProgramSpec

-----------------------------------------------------------------------------
(***************************************************************************)
(* What the programs survive.  Child number c, counted from 0 in the order *)
(* of the forks, has slot c + 2 and pid c + 3, and its pid is kept in the  *)
(* word WordOf(c) of strategy's stack.  ChildOf(k, i) is the one that loop *)
(* k means when its index is i.                                            *)
(***************************************************************************)
ChildOf(k, i) == IF k \in {1, 3} THEN i ELSE NC + i
WordOf(c) == IF c < NC THEN NL + c ELSE c - NC
Round(at, k, f) == IF at = "init" THEN 0 ELSE f[Index(k)]

\* usr_main, with n tasks in the table, the locals f and the register r.  The
\* pid of strategy is there when it is read: strategy itself writes there too.
MainIs(at, f, r, n) ==
  /\ at \in {"fork", "store", "test", "status", "load", "wait", "result", "check", "exit"}
  /\ at = "fork" <=> n = 1
  /\ at \in {"store", "wait"} => r = 2
  /\ at \in {"test", "status", "load"} => f[MainPid] = 2
  /\ at = "result" => r = 1 /\ Awaits(0, 2)
  /\ at \in {"check", "exit"} => Dead(1)
  /\ at = "check" => f[StatusOfLoop(0)] = 1

\* The second task before its execve, with usr_main's locals.
ForkedIs(at, f, r, n) ==
  /\ n = 2
  /\ at \in {"store", "test", "execve"}
  /\ at = "store" => r = 0
  /\ at = "test" => f[MainPid] = 0

\* The last child may start after strategy's second loop: its index then points
\* one past the second array, to the first child's pid, which has been read.
Overwritten(at, k, i) ==
  \/ k = 4
  \/ k = 3 /\ at # "init" /\ (i > 0 \/ at \notin {"cond", "load"})

\* strategy, in round i of loop k.
StrategyIs(at, k, i, f, r, n) ==
  LET c == ChildOf(k, i)
  IN  /\ k \in 1 .. 4
      /\ at \in IF k < 3 THEN {"init", "cond", "fork", "store", "test", "inc"}
                ELSE {"init", "cond", "load", "wait", "result", "check", "inc", "exit"}
      /\ i \in 0 .. Count(k)
      /\ at \notin {"init", "cond", "exit"} => i < Count(k)
      /\ at = "exit" => k = 4 /\ i = NL
      /\ k > 1 => f[Index(1)] = NC
      /\ k > 2 => f[Index(2)] = NL
      /\ n = IF k > 2 THEN 2 + NC + NL
             ELSE IF at \in {"store", "test", "inc"} THEN 3 + c ELSE 2 + c
      /\ \A d \in 0 .. n - 3 :
           \/ at = "store" /\ d = c
           \/ Overwritten(at, k, i) /\ d = 0
           \/ f[WordOf(d)] = d + 3
      /\ k > 2 => \A d \in 0 .. c - 1 : Dead(d + 2)
      /\ at \in {"store", "wait"} => r = c + 3
      /\ at = "result" => r = 1 /\ Awaits(1, c + 3)
      /\ at = "check" => f[StatusOfLoop(k)] = 1
      /\ at \in {"check", "inc"} /\ k > 2 => Dead(c + 2)

\* A child, with strategy's locals f.
ChildIs(s, at, k, f, r) ==
  /\ k = IF s < NC + 2 THEN 1 ELSE 2
  /\ at \in {"store", "test", IF s < NC + 2 THEN "collatz" ELSE "lrp"}
  /\ at = "store" => r = 0
  /\ at = "test" => f[PidWord(k, f)] = 0

Finishing == {"exit", "collatz", "lrp"}

Domains ==
  /\ DOMAIN pc = Slots /\ DOMAIN reg = Slots /\ DOMAIN base = Slots /\ DOMAIN frame = Slots
  /\ \A s \in Slots : DOMAIN frame[s] = Words

Alone ==
  \A s \in Slots : pc[s].at \notin Survivable => cpu = "user" /\ s = currentTask

DeadFinished ==
  \A s \in Slots : state[s] = "TERMINATED" => pc[s].at \in Finishing

MainPart ==
  0 \in Slots =>
    base[0] = 0 /\ pc[0].loop = 0 /\ MainIs(pc[0].at, frame[0], reg[0], numTasks)

StrategyPart ==
  1 \in Slots =>
    IF pc[1].loop = 0
    THEN base[1] = 0 /\ ForkedIs(pc[1].at, frame[0], reg[1], numTasks)
    ELSE /\ base[1] = 1
         /\ StrategyIs(pc[1].at, pc[1].loop, Round(pc[1].at, pc[1].loop, frame[1]),
                       frame[1], reg[1], numTasks)

ChildPart ==
  \A s \in Slots \ {0, 1} :
    base[s] = 1 /\ ChildIs(s, pc[s].at, pc[s].loop, frame[1], reg[s])

Survive == Domains /\ Alone /\ DeadFinished /\ MainPart /\ StrategyPart /\ ChildPart

Promises == WaitsSucceed /\ ChildrenReaped /\ MainEndsLast /\ RightProgram

ProgramInv ==
  /\ cpu # "wild" => Survive
  /\ cpu = "wild" => Promises

LEMMA SlotsTyped ==
  ASSUME IInv, cpu # "wild"
  PROVE  numTasks \in Nat /\ DOMAIN state = Slots /\ Slots = 0 .. numTasks - 1
BY MaxTasksAssumption DEF IInv, TypeOK, Slots

\* The words of strategy's locals, which no two of them share.
LEMMA Layout ==
  /\ NC \in Nat \ {0} /\ NL \in Nat \ {0}
  /\ Index(1) = NC + NL + 3 /\ Index(2) = NC + NL + 2
  /\ Index(3) = NC + NL + 1 /\ Index(4) = NC + NL
  /\ MainPid = NC + NL + 4
  /\ StatusOfLoop(0) = NC + NL + 5 /\ StatusOfLoop(3) = -1 /\ StatusOfLoop(4) = -2
  /\ Count(1) = NC /\ Count(2) = NL /\ Count(3) = NC /\ Count(4) = NL
BY ChildrenAssumption DEF ChildrenAssumption, Index, MainPid, StatusOfLoop, Count

LEMMA WordsApart ==
  /\ \A c \in 0 .. NC + NL - 1 : WordOf(c) \in 0 .. NC + NL - 1
  /\ \A c, d \in 0 .. NC + NL - 1 : WordOf(c) = WordOf(d) => c = d
BY ChildrenAssumption DEF ChildrenAssumption, WordOf

\* The word that strategy means in round i.
LEMMA WordMeant ==
  ASSUME NEW k \in 1 .. 4, NEW f, f[Index(k)] \in 0 .. Count(k) - 1
  PROVE  /\ ChildOf(k, f[Index(k)]) \in 0 .. NC + NL - 1
         /\ PidWord(k, f) = WordOf(ChildOf(k, f[Index(k)]))
BY Layout DEF ChildOf, WordOf, PidWord

LEMMA SurviveMeans == IInv /\ cpu # "wild" /\ Survive => Promises
<1> SUFFICES ASSUME IInv, cpu # "wild", Survive PROVE Promises
  OBVIOUS
<1>1. numTasks \in Nat /\ DOMAIN state = Slots /\ Slots = 0 .. numTasks - 1 /\ DOMAIN pc = Slots
  BY SlotsTyped DEF Survive, Domains
<1>2. ASSUME 1 \in Slots, pc[1].loop # 0, NEW i, i = Round(pc[1].at, pc[1].loop, frame[1])
      PROVE  base[1] = 1 /\ StrategyIs(pc[1].at, pc[1].loop, i, frame[1], reg[1], numTasks)
  BY <1>2 DEF Survive, StrategyPart
<1>3. WaitsSucceed
  <2> SUFFICES ASSUME NEW s \in Slots, pc[s].at = "check"
               PROVE  frame[base[s]][StatusOfLoop(pc[s].loop)] = 1
    BY <1>1 DEF WaitsSucceed
  <2>1. CASE s = 0
    BY <2>1 DEF Survive, MainPart, MainIs
  <2>2. CASE s = 1
    <3>1. pc[1].loop # 0
      BY <2>2 DEF Survive, StrategyPart, ForkedIs
    <3> QED
      BY <1>2, <2>2, <3>1 DEF StrategyIs
  <2>3. CASE s \notin {0, 1}
    BY <2>3 DEF Survive, ChildPart, ChildIs
  <2> QED
    BY <2>1, <2>2, <2>3
<1>4. ASSUME Dead(1)
      PROVE  numTasks = 2 + NC + NL /\ \A s \in Slots \ {0} : Dead(s)
  <2>1. 1 \in Slots /\ pc[1].at \in Finishing
    BY <1>1, <1>4 DEF Dead, Survive, DeadFinished
  <2>2. pc[1].loop # 0
    BY <2>1 DEF Survive, StrategyPart, ForkedIs, Finishing
  <2>3. /\ numTasks = 2 + NC + NL
        /\ \A d \in 0 .. NC + NL - 1 : Dead(d + 2)
    <3> DEFINE i == Round(pc[1].at, pc[1].loop, frame[1])
    <3>1. StrategyIs(pc[1].at, pc[1].loop, i, frame[1], reg[1], numTasks)
      BY <1>2, <2>1, <2>2
    <3> HIDE DEF i
    <3>2. pc[1].at = "exit" /\ pc[1].loop = 4 /\ i = NL
      BY <2>1, <3>1 DEF StrategyIs, Finishing
    <3>3. ChildOf(4, NL) = NC + NL
      BY DEF ChildOf
    <3>4. StrategyIs("exit", 4, NL, frame[1], reg[1], numTasks)
      BY <3>1, <3>2
    <3>5. numTasks = 2 + NC + NL
      BY <3>4 DEF StrategyIs
    <3>6. \A d \in 0 .. ChildOf(4, NL) - 1 : Dead(d + 2)
      BY <3>4 DEF StrategyIs
    <3>7. ChildOf(4, NL) - 1 = NC + NL - 1
      BY <3>3, Layout
    <3> QED
      BY <3>5, <3>6, <3>7, Zenon
  <2>4. ASSUME NEW s \in Slots \ {0, 1} PROVE Dead(s)
    <3>1. s - 2 \in 0 .. NC + NL - 1 /\ s = (s - 2) + 2
      BY <1>1, <2>3, Layout
    <3> QED
      BY <2>3, <3>1
  <2> QED
    BY <1>4, <2>3, <2>4
<1>5. Dead(0) => Dead(1)
  BY <1>1 DEF Dead, Survive, DeadFinished, MainPart, MainIs, Finishing
<1>6. ASSUME NEW s \in Slots
      PROVE  /\ pc[s].at = "collatz" => s \in 2 .. NC + 1
             /\ pc[s].at = "lrp" => s \in NC + 2 .. NC + NL + 1
             /\ pc[s].at \in {"load", "wait", "exit"} => s \in {0, 1}
  <2>1. CASE s = 0
    BY <2>1 DEF Survive, MainPart, MainIs
  <2>2. CASE s = 1
    BY <1>2, <2>2 DEF Survive, StrategyPart, ForkedIs, StrategyIs
  <2>3. CASE s \notin {0, 1}
    <3>1. numTasks <= NC + NL + 2
      <4>1. 1 \in Slots /\ (pc[1].loop = 0 => numTasks = 2)
        BY <1>1, <2>3 DEF Survive, StrategyPart, ForkedIs
      <4> QED
        BY <1>2, <4>1, Layout DEF StrategyIs, ChildOf
    <3>2. pc[s].at \in {"store", "test", IF s < NC + 2 THEN "collatz" ELSE "lrp"}
      BY <2>3 DEF Survive, ChildPart, ChildIs
    <3>3. s \in 2 .. NC + NL + 1 /\ NC \in Nat /\ NL \in Nat
      BY <1>1, <2>3, <3>1, Layout
    <3> QED
      BY <3>2, <3>3
  <2> QED
    BY <2>1, <2>2, <2>3
<1> QED
  BY <1>1, <1>3, <1>4, <1>5, <1>6
  DEF Promises, ChildrenReaped, MainEndsLast, RightProgram

-----------------------------------------------------------------------------
(***************************************************************************)
(* What a task has reason to believe of the others stays true: who is dead *)
(* stays dead, and who waits goes on until it need not.                    *)
(***************************************************************************)
Lasting ==
  /\ \A s : Dead(s) => Dead(s)'
  /\ \A s, p : Awaits(s, p) => Awaits(s, p)'

LEMMA SameLasts == UNCHANGED vars => Lasting
BY DEF vars, Lasting, Dead, Awaits

LEMMA ScheduleLasts ==
  ASSUME IInv, cpu \in {"idle", "user"}, NEW st, NEW wp, Handed(st, wp), Schedule(st, wp),
         \A s \in Slots : state[s] \in Blocked => st[s] = state[s] /\ wp[s] = waitpid[s]
  PROVE  Lasting
<1>1. ASSUME NEW s, Dead(s) PROVE Dead(s)'
  BY <1>1, ScheduleKeeps DEF Dead, Blocked
<1>2. ASSUME NEW s, NEW p, Awaits(s, p) PROVE Awaits(s, p)'
  <2>1. CASE Dead(p - 1)
    BY <1>1, <2>1 DEF Awaits
  <2>2. CASE s \in DOMAIN state /\ state[s] = "WAITING" /\ waitpid[s] = p
    BY <2>2, ScheduleKeeps DEF Blocked
  <2> QED
    BY <1>2, <2>1, <2>2 DEF Awaits
<1> QED
  BY <1>1, <1>2 DEF Lasting

LEMMA ForkLasts == IInv /\ Fork => Lasting
<1> SUFFICES ASSUME IInv, Fork PROVE Lasting
  OBVIOUS
<1>1. DOMAIN state = 0 .. numTasks - 1 /\ numTasks \in Nat
  BY MaxTasksAssumption DEF Fork, IInv, TypeOK, Slots
<1>2. \A s \in DOMAIN state :
        s \in DOMAIN state' /\ state'[s] = state[s] /\ waitpid'[s] = waitpid[s]
  BY <1>1 DEF Fork, Extend
<1> QED
  BY <1>2 DEF Lasting, Dead, Awaits

LEMMA MainLasts ==
  ASSUME Lasting, NEW at, NEW f, NEW r, NEW n, MainIs(at, f, r, n)
  PROVE  MainIs(at, f, r, n)'
BY DEF Lasting, MainIs

LEMMA StrategyLasts ==
  ASSUME Lasting, NEW at, NEW k, NEW i, NEW f, NEW r, NEW n, StrategyIs(at, k, i, f, r, n)
  PROVE  StrategyIs(at, k, i, f, r, n)'
BY DEF Lasting, StrategyIs

(***************************************************************************)
(* What the one task does not need of the locals that it shares with       *)
(* another, when that one runs.                                            *)
(***************************************************************************)
LEMMA MainFrame ==
  ASSUME NEW at, NEW f, NEW g, NEW r, NEW n, MainIs(at, f, r, n), at \in Survivable,
         g[StatusOfLoop(0)] = f[StatusOfLoop(0)]
  PROVE  MainIs(at, g, r, n)
BY DEF MainIs, Survivable

LEMMA ForkedFrame ==
  ASSUME NEW at, NEW f, NEW g, NEW r, NEW n, ForkedIs(at, f, r, n), at \in Survivable
  PROVE  ForkedIs(at, g, r, n)
BY DEF ForkedIs, Survivable

LEMMA ChildFrame ==
  ASSUME NEW s, NEW at, NEW k, NEW f, NEW g, NEW r, ChildIs(s, at, k, f, r), at \in Survivable
  PROVE  ChildIs(s, at, k, g, r)
BY DEF ChildIs, Survivable

(***************************************************************************)
(* An instruction that makes no system call is the running task's affair.  *)
(***************************************************************************)
LocalStep ==
  /\ cpu = "user"
  /\ UNCHANGED vars
  /\ DOMAIN pc' = DOMAIN pc /\ DOMAIN reg' = DOMAIN reg
  /\ DOMAIN base' = DOMAIN base /\ DOMAIN frame' = DOMAIN frame
  /\ \A s \in DOMAIN frame : DOMAIN frame'[s] = DOMAIN frame[s]
  /\ \A s \in DOMAIN pc \ {Me} : pc'[s] = pc[s]
  /\ \A s \in DOMAIN reg \ {Me} : reg'[s] = reg[s]
  /\ \A s \in DOMAIN base \ {Me} : base'[s] = base[s]
  /\ \A s \in DOMAIN frame \ {base[Me]} : frame'[s] = frame[s]

LEMMA LocalInstruction ==
  ASSUME LoopInit \/ LoopCond \/ LoopInc \/ StorePid \/ TestPid \/ CallExecve
         \/ InitStatus \/ LoadPid \/ StoreStatus \/ CheckStatus
  PROVE  LocalStep
<1>1. ASSUME NEW w, NEW v, Write(w, v)
      PROVE  /\ DOMAIN frame' = DOMAIN frame
             /\ \A s \in DOMAIN frame : DOMAIN frame'[s] = DOMAIN frame[s]
             /\ \A s \in DOMAIN frame \ {base[Me]} : frame'[s] = frame[s]
  BY <1>1 DEF Write
<1>2. ASSUME NEW at, NEW k, Goto(at, k)
      PROVE  DOMAIN pc' = DOMAIN pc /\ \A s \in DOMAIN pc \ {Me} : pc'[s] = pc[s]
  BY <1>2 DEF Goto
<1>3. CASE LoopInit
  BY <1>1, <1>2, <1>3 DEF LoopInit, LocalStep, At
<1>4. CASE LoopCond
  BY <1>2, <1>4 DEF LoopCond, LocalStep, At
<1>5. CASE LoopInc
  BY <1>1, <1>2, <1>5 DEF LoopInc, LocalStep, At
<1>6. CASE StorePid
  BY <1>1, <1>2, <1>6 DEF StorePid, LocalStep, At
<1>7. CASE TestPid
  BY <1>2, <1>7 DEF TestPid, LocalStep, At
<1>8. CASE CallExecve
  BY <1>2, <1>8 DEF CallExecve, LocalStep, At
<1>9. CASE InitStatus
  BY <1>1, <1>2, <1>9 DEF InitStatus, LocalStep, At
<1>10. CASE LoadPid
  BY <1>2, <1>10 DEF LoadPid, LocalStep, At
<1>11. CASE StoreStatus
  BY <1>1, <1>2, <1>11 DEF StoreStatus, LocalStep, At
<1>12. CASE CheckStatus
  BY <1>2, <1>12 DEF CheckStatus, LocalStep, At
<1> QED
  BY <1>3, <1>4, <1>5, <1>6, <1>7, <1>8, <1>9, <1>10, <1>11, <1>12

\* While a task runs, the others are where a tick finds them.
LEMMA OthersQuiet ==
  ASSUME IInv, cpu = "user", Survive
  PROVE  /\ Me \in Slots /\ state[Me] = "RUNNING" /\ Slots = 0 .. numTasks - 1
         /\ numTasks \in Nat /\ DOMAIN state = Slots
         /\ \A s \in Slots \ {Me} : pc[s].at \in Survivable
<1>1. Me \in Slots /\ state[Me] = "RUNNING" /\ DOMAIN state = Slots
  BY OwnerIsCurrent DEF Me
<1> QED
  BY <1>1, SlotsTyped DEF Survive, Alone, Me

LEMMA LocalSurvives ==
  ASSUME IInv, Survive, LocalStep, MainPart', StrategyPart', ChildPart'
  PROVE  Survive'
<1>1. /\ Me \in Slots /\ Slots' = Slots /\ state' = state /\ cpu' = "user"
      /\ currentTask' = currentTask /\ state[Me] = "RUNNING"
  BY OthersQuiet DEF LocalStep, vars, Slots
<1>2. Domains'
  BY <1>1 DEF LocalStep, Survive, Domains
<1>3. Alone'
  BY <1>1 DEF LocalStep, Survive, Domains, Alone, Me
<1>4. DeadFinished'
  BY <1>1 DEF LocalStep, Survive, Domains, DeadFinished
<1> QED
  BY <1>2, <1>3, <1>4 DEF Survive

LEMMA MainElsewhere ==
  ASSUME IInv, Survive, LocalStep, Me # 0,
         0 \in DOMAIN frame => frame'[0][StatusOfLoop(0)] = frame[0][StatusOfLoop(0)]
  PROVE  MainPart'
<1>1. Slots' = Slots /\ numTasks' = numTasks /\ Lasting
  BY SameLasts DEF LocalStep, vars, Slots
<1> SUFFICES ASSUME 0 \in Slots, NEW at, NEW f, NEW r, NEW n,
                    at = pc'[0].at, f = frame'[0], r = reg'[0], n = numTasks'
             PROVE  base'[0] = 0 /\ pc'[0].loop = 0 /\ MainIs(at, f, r, n)'
  BY <1>1 DEF MainPart
<1>2. /\ base[0] = 0 /\ pc[0].loop = 0 /\ MainIs(pc[0].at, frame[0], reg[0], numTasks)
      /\ base'[0] = base[0] /\ pc'[0] = pc[0] /\ reg'[0] = reg[0]
  BY DEF Survive, MainPart, LocalStep, Domains
<1>3. pc[0].at \in Survivable
  BY OthersQuiet DEF LocalStep
<1>4. MainIs(at, f, r, n)
  BY <1>1, <1>2, <1>3, MainFrame DEF Survive, Domains
<1> QED
  BY <1>1, <1>2, <1>4, MainLasts

LEMMA StrategyElsewhere ==
  ASSUME IInv, Survive, LocalStep, Me # 1,
         1 \in Slots /\ pc[1].loop # 0 => frame'[1] = frame[1]
  PROVE  StrategyPart'
<1>1. Slots' = Slots /\ numTasks' = numTasks /\ Lasting
  BY SameLasts DEF LocalStep, vars, Slots
<1>2. CASE 1 \notin Slots
  BY <1>1, <1>2 DEF StrategyPart
<1>3. CASE 1 \in Slots
  <2>1. /\ base'[1] = base[1] /\ pc'[1] = pc[1] /\ reg'[1] = reg[1]
        /\ pc[1].at \in Survivable
    BY <1>3, OthersQuiet DEF Survive, LocalStep, Domains
  <2>2. CASE pc[1].loop = 0
    <3>1. base[1] = 0 /\ ForkedIs(pc[1].at, frame[0], reg[1], numTasks)
      BY <1>3, <2>2 DEF Survive, StrategyPart
    <3>2. ForkedIs(pc[1].at, frame'[0], reg[1], numTasks)
      BY <2>1, <3>1, ForkedFrame
    <3> QED
      BY <1>1, <2>1, <2>2, <3>1, <3>2 DEF StrategyPart
  <2>3. CASE pc[1].loop # 0
    <3>1. SUFFICES ASSUME NEW at, NEW k, NEW i, NEW f, NEW r, NEW n,
                          at = pc'[1].at, k = pc'[1].loop, f = frame'[1], r = reg'[1],
                          n = numTasks', i = Round(at, k, f)
                   PROVE  base'[1] = 1 /\ StrategyIs(at, k, i, f, r, n)'
      BY <2>1, <2>3 DEF StrategyPart, Round
    <3>2. base[1] = 1 /\ StrategyIs(at, k, i, f, r, n)
      BY <1>1, <1>3, <2>1, <2>3, <3>1 DEF Survive, StrategyPart
    <3> QED
      BY <1>1, <2>1, <3>2, StrategyLasts
  <2> QED
    BY <2>2, <2>3
<1> QED
  BY <1>2, <1>3

LEMMA ChildrenElsewhere ==
  ASSUME IInv, Survive, LocalStep, Me \in {0, 1}
  PROVE  ChildPart'
<1>1. Slots' = Slots
  BY DEF LocalStep, vars, Slots
<1> SUFFICES ASSUME NEW s \in Slots \ {0, 1}
             PROVE  base'[s] = 1 /\ ChildIs(s, pc'[s].at, pc'[s].loop, frame'[1], reg'[s])
  BY <1>1 DEF ChildPart
<1>2. /\ base'[s] = base[s] /\ pc'[s] = pc[s] /\ reg'[s] = reg[s]
      /\ pc[s].at \in Survivable
  BY OthersQuiet DEF Survive, LocalStep, Domains
<1>3. base[s] = 1 /\ ChildIs(s, pc[s].at, pc[s].loop, frame[1], reg[s])
  BY DEF Survive, ChildPart
<1> QED
  BY <1>2, <1>3, ChildFrame

(***************************************************************************)
(* usr_main's instructions.                                                *)
(***************************************************************************)
LEMMA MainOwn ==
  ASSUME IInv, Survive, LocalStep, Me = 0,
         pc'[0].loop = 0, base'[0] = 0,
         \A at, f, r : at = pc'[0].at /\ f = frame'[0] /\ r = reg'[0] => MainIs(at, f, r, numTasks)
  PROVE  Survive'
<1>1. Slots' = Slots /\ numTasks' = numTasks /\ Lasting /\ 0 \in Slots
  BY SameLasts, OthersQuiet DEF LocalStep, vars, Slots
<1>2. base[0] = 0
  BY <1>1 DEF Survive, MainPart
<1>3. MainPart'
  <2> SUFFICES ASSUME NEW at, NEW f, NEW r, NEW n,
                      at = pc'[0].at, f = frame'[0], r = reg'[0], n = numTasks'
               PROVE  MainIs(at, f, r, n)'
    BY DEF MainPart
  <2> QED
    BY <1>1, MainLasts
<1>4. StrategyPart'
  <2>1. 1 \in Slots => frame'[1] = frame[1]
    BY <1>2 DEF LocalStep, Survive, Domains
  <2> QED
    BY <2>1, StrategyElsewhere
<1> QED
  BY <1>3, <1>4, ChildrenElsewhere, LocalSurvives

LEMMA MainInstruction ==
  ASSUME IInv, Survive, Me = 0,
         LoopInit \/ LoopCond \/ LoopInc \/ StorePid \/ TestPid \/ CallExecve
         \/ InitStatus \/ LoadPid \/ StoreStatus \/ CheckStatus
  PROVE  Survive'
<1>1. LocalStep /\ cpu = "user"
  BY LocalInstruction DEF LocalStep
<1> DEFINE at == pc[0].at
           f == frame[0]
           r == reg[0]
<1>2. /\ 0 \in Slots /\ state[0] = "RUNNING"
      /\ base[0] = 0 /\ pc[0].loop = 0 /\ MainIs(at, f, r, numTasks)
      /\ DOMAIN pc = Slots /\ DOMAIN reg = Slots /\ DOMAIN base = Slots
      /\ DOMAIN frame = Slots /\ DOMAIN f = Words
  BY <1>1, OthersQuiet DEF Survive, MainPart, Domains
<1>3. MainPid \in Words /\ StatusOfLoop(0) \in Words /\ MainPid # StatusOfLoop(0)
  BY Layout DEF Words
<1>4. At(at) /\ Frame = f /\ K = 0 /\ PidWord(0, f) = MainPid
  BY <1>1, <1>2 DEF At, Frame, K, PidWord, Me
<1>5. CASE StorePid
  <2>1. /\ at = "store" /\ pc'[0] = [at |-> "test", loop |-> 0]
        /\ frame'[0][MainPid] = r /\ base' = base /\ reg' = reg
    BY <1>2, <1>3, <1>4, <1>5 DEF StorePid, At, Goto, Write, Me
  <2> HIDE DEF at, f, r
  <2>2. \A g : g[MainPid] = r => MainIs("test", g, r, numTasks)
    BY <1>2, <2>1 DEF MainIs
  <2> QED
    BY <1>1, <1>2, <2>1, <2>2, MainOwn DEF r
<1>6. CASE TestPid
  <2>1. at = "test" /\ base' = base /\ reg' = reg /\ frame' = frame
    BY <1>2, <1>4, <1>6 DEF TestPid, At, Me
  <2>2. f[MainPid] = 2
    BY <1>2, <2>1 DEF MainIs
  <2>3. pc'[0] = [at |-> "status", loop |-> 0]
    BY <1>2, <1>4, <1>6, <2>2 DEF TestPid, Goto, Me
  <2> HIDE DEF at, f, r
  <2>4. MainIs("status", f, r, numTasks)
    BY <1>2, <2>1 DEF MainIs
  <2> QED
    BY <1>1, <1>2, <2>1, <2>3, <2>4, MainOwn DEF f, r
<1>7. CASE InitStatus
  <2>1. /\ at = "status" /\ pc'[0] = [at |-> "load", loop |-> 0]
        /\ frame'[0][MainPid] = f[MainPid] /\ base' = base /\ reg' = reg
    BY <1>2, <1>3, <1>4, <1>7 DEF InitStatus, At, Goto, Write, Me
  <2> HIDE DEF at, f, r
  <2>2. \A g : g[MainPid] = f[MainPid] => MainIs("load", g, r, numTasks)
    BY <1>2, <2>1 DEF MainIs
  <2> QED
    BY <1>1, <1>2, <2>1, <2>2, MainOwn DEF r
<1>8. CASE LoadPid
  <2>1. /\ at = "load" /\ pc'[0] = [at |-> "wait", loop |-> 0]
        /\ reg'[0] = f[MainPid] /\ base' = base /\ frame' = frame
    BY <1>2, <1>3, <1>4, <1>8 DEF LoadPid, At, Goto, Me
  <2> HIDE DEF at, f, r
  <2>2. MainIs("wait", f, f[MainPid], numTasks)
    BY <1>2, <2>1 DEF MainIs
  <2> QED
    BY <1>1, <1>2, <2>1, <2>2, MainOwn DEF f
<1>9. CASE StoreStatus
  <2>1. /\ at = "result" /\ pc'[0] = [at |-> "check", loop |-> 0]
        /\ frame'[0][StatusOfLoop(0)] = r /\ base' = base /\ reg' = reg
    BY <1>2, <1>3, <1>4, <1>9 DEF StoreStatus, At, Goto, Write, Me
  <2>2. Dead(1)
    BY <1>2, <2>1 DEF MainIs, Awaits
  <2> HIDE DEF at, f, r
  <2>3. \A g : g[StatusOfLoop(0)] = r => MainIs("check", g, r, numTasks)
    BY <1>2, <2>1, <2>2 DEF MainIs
  <2> QED
    BY <1>1, <1>2, <2>1, <2>3, MainOwn DEF r
<1>10. CASE CheckStatus
  <2>1. /\ at = "check" /\ pc'[0] = [at |-> "exit", loop |-> 0]
        /\ base' = base /\ reg' = reg /\ frame' = frame
    BY <1>2, <1>4, <1>10 DEF CheckStatus, At, Goto, Me
  <2> HIDE DEF at, f, r
  <2>2. MainIs("exit", f, r, numTasks)
    BY <1>2, <2>1 DEF MainIs
  <2> QED
    BY <1>1, <1>2, <2>1, <2>2, MainOwn DEF f, r
<1>11. CASE LoopInit \/ LoopCond \/ LoopInc \/ CallExecve
  BY <1>2, <1>11 DEF LoopInit, LoopCond, LoopInc, CallExecve, At, Me, MainIs
<1> QED
  BY <1>5, <1>6, <1>7, <1>8, <1>9, <1>10, <1>11

(***************************************************************************)
(* The second task's instructions before its execve, on usr_main's locals. *)
(***************************************************************************)
LEMMA ForkedInstruction ==
  ASSUME IInv, Survive, Me = 1, pc[1].loop = 0,
         LoopInit \/ LoopCond \/ LoopInc \/ StorePid \/ TestPid \/ CallExecve
         \/ InitStatus \/ LoadPid \/ StoreStatus \/ CheckStatus
  PROVE  Survive'
<1>1. LocalStep /\ cpu = "user" /\ ChildPart'
  BY LocalInstruction, ChildrenElsewhere DEF LocalStep
<1>2. Slots' = Slots /\ numTasks' = numTasks
  BY <1>1 DEF LocalStep, vars, Slots
<1> DEFINE at == pc[1].at
           f == frame[0]
           r == reg[1]
<1>3. /\ 1 \in Slots /\ 0 \in Slots
      /\ base[1] = 0 /\ ForkedIs(at, f, r, numTasks)
      /\ DOMAIN pc = Slots /\ DOMAIN reg = Slots /\ DOMAIN base = Slots
      /\ DOMAIN frame = Slots /\ DOMAIN f = Words
  BY <1>1, OthersQuiet DEF Survive, StrategyPart, Domains
<1>4. MainPid \in Words /\ MainPid # StatusOfLoop(0)
  BY Layout DEF Words
<1>5. At(at) /\ Frame = f /\ K = 0 /\ PidWord(0, f) = MainPid
  BY <1>1, <1>3 DEF At, Frame, K, PidWord, Me
<1>6. ASSUME frame'[0][StatusOfLoop(0)] = f[StatusOfLoop(0)], StrategyPart'
      PROVE  Survive'
  BY <1>1, <1>6, MainElsewhere, LocalSurvives
<1>7. CASE StorePid
  <2>1. /\ at = "store" /\ pc'[1] = [at |-> "test", loop |-> 0]
        /\ frame'[0][MainPid] = r /\ base' = base /\ reg' = reg
        /\ frame'[0][StatusOfLoop(0)] = f[StatusOfLoop(0)]
    BY <1>3, <1>4, <1>5, <1>7 DEF StorePid, At, Goto, Write, Me
  <2>2. r = 0 /\ numTasks = 2
    BY <1>3, <2>1 DEF ForkedIs
  <2>3. StrategyPart'
    BY <1>2, <1>3, <2>1, <2>2 DEF StrategyPart, ForkedIs
  <2> QED
    BY <1>6, <2>1, <2>3
<1>8. CASE TestPid
  <2>1. at = "test" /\ base' = base /\ reg' = reg /\ frame' = frame
    BY <1>3, <1>5, <1>8 DEF TestPid, At, Me
  <2>2. f[MainPid] = 0 /\ numTasks = 2
    BY <1>3, <2>1 DEF ForkedIs
  <2>3. pc'[1] = [at |-> "execve", loop |-> 0]
    BY <1>3, <1>5, <1>8, <2>2 DEF TestPid, Goto, Me
  <2>4. StrategyPart'
    BY <1>2, <1>3, <2>1, <2>2, <2>3 DEF StrategyPart, ForkedIs
  <2> QED
    BY <1>6, <2>1, <2>4
<1>9. CASE CallExecve
  <2>1. /\ at = "execve" /\ pc'[1] = [at |-> "init", loop |-> 1]
        /\ base'[1] = 1 /\ reg' = reg /\ frame' = frame
    BY <1>3, <1>5, <1>9 DEF CallExecve, At, Goto, Me
  <2>2. numTasks = 2
    BY <1>3 DEF ForkedIs
  <2>3. StrategyPart'
    <3> SUFFICES ASSUME NEW g, NEW q, g = frame'[1], q = reg'[1]
                 PROVE  StrategyIs("init", 1, 0, g, q, 2)'
      BY <1>2, <2>1, <2>2 DEF StrategyPart, Round
    <3> QED
      BY Layout DEF StrategyIs, ChildOf
  <2> QED
    BY <1>6, <2>1, <2>3
<1>10. CASE LoopInit \/ LoopCond \/ LoopInc \/ InitStatus \/ LoadPid \/ StoreStatus \/ CheckStatus
  BY <1>3, <1>10
  DEF LoopInit, LoopCond, LoopInc, InitStatus, LoadPid, StoreStatus, CheckStatus, At, Me, ForkedIs
<1> QED
  BY <1>7, <1>8, <1>9, <1>10

(***************************************************************************)
(* strategy's instructions.                                                *)
(***************************************************************************)
LEMMA StrategyOwn ==
  ASSUME IInv, Survive, LocalStep, Me = 1, base[1] = 1, base'[1] = 1, pc'[1].loop # 0,
         \A at, k, i, f, r :
           at = pc'[1].at /\ k = pc'[1].loop /\ f = frame'[1] /\ r = reg'[1] /\ i = Round(at, k, f)
             => StrategyIs(at, k, i, f, r, numTasks)
  PROVE  Survive'
<1>1. Slots' = Slots /\ numTasks' = numTasks /\ Lasting
  BY SameLasts DEF LocalStep, vars, Slots
<1>2. StrategyPart'
  <2> SUFFICES ASSUME NEW at, NEW k, NEW i, NEW f, NEW r, NEW n,
                      at = pc'[1].at, k = pc'[1].loop, f = frame'[1], r = reg'[1],
                      n = numTasks', i = Round(at, k, f)
               PROVE  StrategyIs(at, k, i, f, r, n)'
    BY DEF StrategyPart, Round
  <2> QED
    BY <1>1, StrategyLasts
<1>3. MainPart'
  <2>1. 0 \in DOMAIN frame => frame'[0] = frame[0]
    BY DEF LocalStep
  <2> QED
    BY <2>1, MainElsewhere
<1> QED
  BY <1>2, <1>3, ChildrenElsewhere, LocalSurvives

\* What an instruction of strategy leaves of its locals when it writes elsewhere.
Spares(f, g, k) ==
  /\ k > 1 => g[Index(1)] = f[Index(1)]
  /\ k > 2 => g[Index(2)] = f[Index(2)]
  /\ \A d \in 0 .. NC + NL - 1 : g[WordOf(d)] = f[WordOf(d)]

LEMMA LoopStarts ==
  ASSUME NEW k, NEW f, NEW g, NEW r, NEW n \in Nat, StrategyIs("init", k, 0, f, r, n),
         Spares(f, g, k)
  PROVE  StrategyIs("cond", k, 0, g, r, n)
<1>1. n <= 2 + NC + NL
  BY Layout DEF StrategyIs, ChildOf
<1> QED
  BY <1>1, Layout DEF StrategyIs, Spares, Overwritten

LEMMA LoopContinues ==
  ASSUME NEW k, NEW i, NEW f, NEW r, NEW n, StrategyIs("cond", k, i, f, r, n), i < Count(k)
  PROVE  StrategyIs(IF k \in {1, 2} THEN "fork" ELSE "load", k, i, f, r, n)
BY DEF StrategyIs, Overwritten

LEMMA LoopEnds ==
  ASSUME NEW k, NEW i, NEW f, NEW r, NEW n, StrategyIs("cond", k, i, f, r, n),
         i = f[Index(k)], ~ (i < Count(k))
  PROVE  IF k < 4 THEN StrategyIs("init", k + 1, 0, f, r, n)
                  ELSE StrategyIs("exit", k, i, f, r, n)
<1>1. k \in 1 .. 4 /\ i = Count(k)
  BY Layout DEF StrategyIs
<1>2. CASE k = 1
  <2>1. StrategyIs("cond", 1, NC, f, r, n) /\ f[Index(1)] = NC
    BY <1>1, <1>2, Layout
  <2>2. n = 2 + NC /\ \A d \in 0 .. n - 3 : f[WordOf(d)] = d + 3
    BY <2>1, Layout DEF StrategyIs, ChildOf, Overwritten
  <2>3. StrategyIs("init", 2, 0, f, r, n)
    BY <2>1, <2>2, Layout DEF StrategyIs, ChildOf
  <2> QED
    BY <1>2, <2>3
<1>3. CASE k = 2
  <2>1. StrategyIs("cond", 2, NL, f, r, n) /\ f[Index(2)] = NL
    BY <1>1, <1>3, Layout
  <2>2. /\ n = 2 + NC + NL /\ f[Index(1)] = NC
        /\ \A d \in 0 .. n - 3 : f[WordOf(d)] = d + 3
    BY <2>1, Layout DEF StrategyIs, ChildOf, Overwritten
  <2>3. StrategyIs("init", 3, 0, f, r, n)
    BY <2>1, <2>2, Layout DEF StrategyIs, ChildOf
  <2> QED
    BY <1>3, <2>3
<1>4. CASE k = 3
  <2>1. StrategyIs("cond", 3, NC, f, r, n)
    BY <1>1, <1>4, Layout
  <2>2. /\ n = 2 + NC + NL /\ f[Index(1)] = NC /\ f[Index(2)] = NL
        /\ \A d \in 0 .. n - 3 : d = 0 \/ f[WordOf(d)] = d + 3
        /\ \A d \in 0 .. NC - 1 : Dead(d + 2)
    BY <2>1, Layout DEF StrategyIs, ChildOf, Overwritten
  <2>3. ChildOf(4, 0) = NC
    BY Layout DEF ChildOf
  <2>4. \A d \in 0 .. ChildOf(4, 0) - 1 : Dead(d + 2)
    BY <2>2, <2>3
  <2>5. Overwritten("init", 4, 0)
    BY DEF Overwritten
  <2>6. n - 3 \in Int /\ n = 2 + NC + NL /\ 0 \in 0 .. Count(4)
    BY <2>2, Layout
  <2>7. StrategyIs("init", 4, 0, f, r, n)
    BY <2>2, <2>4, <2>5, <2>6 DEF StrategyIs
  <2> QED
    BY <1>4, <2>7
<1>5. CASE k = 4
  BY <1>1, <1>5, Layout DEF StrategyIs, ChildOf, Overwritten
<1> QED
  BY <1>1, <1>2, <1>3, <1>4, <1>5

LEMMA LoopAdvances ==
  ASSUME NEW k, NEW i, NEW f, NEW g, NEW r, NEW n \in Nat, StrategyIs("inc", k, i, f, r, n),
         Spares(f, g, k)
  PROVE  StrategyIs("cond", k, i + 1, g, r, n)
<1>1. k \in 1 .. 4 /\ i \in 0 .. Count(k) - 1 /\ n <= 2 + NC + NL
  BY Layout DEF StrategyIs, ChildOf
<1>2. ChildOf(k, i) \in Nat /\ ChildOf(k, i + 1) = ChildOf(k, i) + 1
  BY <1>1, Layout DEF ChildOf
<1>3. k > 2 => \A d \in 0 .. ChildOf(k, i + 1) - 1 : Dead(d + 2)
  BY <1>2 DEF StrategyIs
<1>4. Overwritten("inc", k, i) => Overwritten("cond", k, i + 1)
  BY <1>1, Layout DEF Overwritten
<1>5. \A d \in 0 .. n - 3 : (Overwritten("cond", k, i + 1) /\ d = 0) \/ g[WordOf(d)] = d + 3
  BY <1>1, <1>4, Layout DEF StrategyIs, Spares
<1>6. i + 1 \in 0 .. Count(k)
  BY <1>1, Layout
<1> QED
  BY <1>1, <1>2, <1>3, <1>5, <1>6 DEF StrategyIs, Spares

LEMMA PidStored ==
  ASSUME NEW k, NEW i, NEW f, NEW g, NEW r, NEW n \in Nat, StrategyIs("store", k, i, f, r, n),
         g[WordOf(ChildOf(k, i))] = r,
         k > 1 => g[Index(1)] = f[Index(1)],
         \A d \in 0 .. NC + NL - 1 : d # ChildOf(k, i) => g[WordOf(d)] = f[WordOf(d)]
  PROVE  StrategyIs("test", k, i, g, r, n)
<1>1. k \in {1, 2} /\ n <= 2 + NC + NL /\ n = 3 + ChildOf(k, i) /\ r = ChildOf(k, i) + 3
  BY Layout DEF StrategyIs, ChildOf
<1>2. \A d \in 0 .. n - 3 : g[WordOf(d)] = d + 3
  BY <1>1, Layout DEF StrategyIs, Overwritten
<1> QED
  BY <1>1, <1>2 DEF StrategyIs

LEMMA PidTested ==
  ASSUME NEW k, NEW i, NEW f, NEW r, NEW n \in Nat, StrategyIs("test", k, i, f, r, n)
  PROVE  /\ f[WordOf(ChildOf(k, i))] # 0
         /\ StrategyIs("inc", k, i, f, r, n)
<1>1. k \in {1, 2} /\ ChildOf(k, i) \in 0 .. n - 3 /\ n = 3 + ChildOf(k, i)
  BY Layout DEF StrategyIs, ChildOf
<1>2. f[WordOf(ChildOf(k, i))] = ChildOf(k, i) + 3
  BY <1>1 DEF StrategyIs, Overwritten
<1> QED
  BY <1>1, <1>2 DEF StrategyIs, Overwritten

LEMMA PidLoaded ==
  ASSUME NEW k, NEW i, NEW f, NEW r, NEW n \in Nat, StrategyIs("load", k, i, f, r, n)
  PROVE  /\ f[WordOf(ChildOf(k, i))] = ChildOf(k, i) + 3
         /\ StrategyIs("wait", k, i, f, ChildOf(k, i) + 3, n)
<1>1. k \in {3, 4} /\ ChildOf(k, i) \in 0 .. n - 3 /\ i \in Nat
  BY Layout DEF StrategyIs, ChildOf
<1>2. ~ (Overwritten("load", k, i) /\ ChildOf(k, i) = 0)
  BY <1>1, Layout DEF Overwritten, ChildOf
<1>3. f[WordOf(ChildOf(k, i))] = ChildOf(k, i) + 3
  BY <1>1, <1>2 DEF StrategyIs
<1>4. Overwritten("load", k, i) => Overwritten("wait", k, i)
  BY DEF Overwritten
<1> QED
  BY <1>1, <1>3, <1>4 DEF StrategyIs

LEMMA WaitReturned ==
  ASSUME NEW k, NEW i, NEW f, NEW g, NEW r, NEW n \in Nat, StrategyIs("result", k, i, f, r, n),
         state[1] = "RUNNING", Spares(f, g, k), g[StatusOfLoop(k)] = r
  PROVE  StrategyIs("check", k, i, g, r, n)
<1>1. k \in {3, 4} /\ n = 2 + NC + NL /\ i \in Nat /\ ChildOf(k, i) \in Nat
  BY Layout DEF StrategyIs, ChildOf
<1>2. r = 1 /\ Dead(ChildOf(k, i) + 2)
  <2>1. ChildOf(k, i) + 3 - 1 = ChildOf(k, i) + 2
    BY <1>1
  <2> QED
    BY <1>1, <2>1 DEF StrategyIs, Awaits
<1>3. \A d \in 0 .. n - 3 : (Overwritten("check", k, i) /\ d = 0) \/ g[WordOf(d)] = d + 3
  BY <1>1, Layout DEF StrategyIs, Spares, Overwritten
<1> QED
  BY <1>1, <1>2, <1>3 DEF StrategyIs, Spares

LEMMA StatusChecked ==
  ASSUME NEW k, NEW i, NEW f, NEW r, NEW n, StrategyIs("check", k, i, f, r, n)
  PROVE  StrategyIs("inc", k, i, f, r, n)
BY DEF StrategyIs, Overwritten

\* A write to word v of f.
Replaced(f, g, v) == \A w \in Words \ {v} : g[w] = f[w]

LEMMA SparesOthers ==
  ASSUME NEW k \in 1 .. 4, NEW f, NEW g, NEW v, Replaced(f, g, v),
         v = Index(k) \/ (k \in {3, 4} /\ v = StatusOfLoop(k))
  PROVE  /\ Spares(f, g, k)
         /\ v # Index(k) => g[Index(k)] = f[Index(k)]
<1>1. v \notin 0 .. NC + NL - 1 /\ (k > 1 => v # Index(1)) /\ (k > 2 => v # Index(2))
  BY Layout
<1>2. k > 1 => g[Index(1)] = f[Index(1)]
  BY <1>1, Layout DEF Replaced, Words
<1>3. k > 2 => g[Index(2)] = f[Index(2)]
  BY <1>1, Layout DEF Replaced, Words
<1>4. ASSUME NEW d \in 0 .. NC + NL - 1 PROVE g[WordOf(d)] = f[WordOf(d)]
  <2>1. WordOf(d) \in Words \ {v}
    BY <1>1, WordsApart, Layout DEF Words
  <2> QED
    BY <2>1 DEF Replaced
<1>5. v # Index(k) => g[Index(k)] = f[Index(k)]
  BY Layout DEF Replaced, Words
<1> QED
  BY <1>2, <1>3, <1>4, <1>5 DEF Spares

LEMMA StrategyInstruction ==
  ASSUME IInv, Survive, Me = 1, pc[1].loop # 0,
         LoopInit \/ LoopCond \/ LoopInc \/ StorePid \/ TestPid \/ CallExecve
         \/ InitStatus \/ LoadPid \/ StoreStatus \/ CheckStatus
  PROVE  Survive'
<1>1. LocalStep /\ cpu = "user"
  BY LocalInstruction DEF LocalStep
<1> DEFINE at == pc[1].at
           k == pc[1].loop
           f == frame[1]
           g == frame'[1]
           r == reg[1]
           i == Round(at, k, f)
           c == ChildOf(k, i)
           n == numTasks
<1>2. /\ 1 \in Slots /\ state[1] = "RUNNING" /\ base[1] = 1
      /\ StrategyIs(at, k, i, f, r, n) /\ n \in Nat
      /\ DOMAIN pc = Slots /\ DOMAIN reg = Slots /\ DOMAIN base = Slots
      /\ DOMAIN frame = Slots /\ DOMAIN f = Words
  BY <1>1, OthersQuiet DEF Survive, StrategyPart, Domains
<1>3. At(at) /\ Frame = f /\ K = k
  BY <1>1, <1>2 DEF At, Frame, K, Me
<1>4. k \in 1 .. 4 /\ (k \in {3, 4} => StatusOfLoop(k) \in Words) /\ Index(k) \in Words
  BY <1>2, Layout DEF StrategyIs, Words
<1>5. at # "init" => i = f[Index(k)]
  BY DEF Round
<1>6. at \notin {"init", "cond", "exit"} => PidWord(k, f) = WordOf(c) /\ c \in 0 .. NC + NL - 1
  <2>1. at \notin {"init", "cond", "exit"} => i \in 0 .. Count(k) - 1
    BY <1>2, <1>4, Layout DEF StrategyIs
  <2> QED
    BY <1>4, <1>5, <2>1, WordMeant
<1>7. ASSUME NEW w \in Words, NEW v, Write(w, v), base' = base
      PROVE  g[w] = v /\ Replaced(f, g, w)
  BY <1>2, <1>7 DEF Write, Replaced, Me
<1>8. ASSUME NEW a, NEW l, Goto(a, l)
      PROVE  pc'[1] = [at |-> a, loop |-> l]
  BY <1>2, <1>8 DEF Goto, Me
<1> HIDE DEF at, k, f, g, r, i, c, n
<1>9. ASSUME NEW a, NEW l \in 1 .. 4, pc'[1] = [at |-> a, loop |-> l], base' = base,
             StrategyIs(a, l, Round(a, l, g), g, reg'[1], n)
      PROVE  Survive'
  BY <1>1, <1>2, <1>9, StrategyOwn DEF g, n
<1>10. CASE LoopInit
  <2>1. at = "init" /\ i = 0 /\ reg' = reg /\ base' = base
    BY <1>3, <1>10 DEF LoopInit, At, Round, i, at, Me
  <2>2. Write(Index(k), 0) /\ Goto("cond", k)
    BY <1>3, <1>10 DEF LoopInit
  <2>3. g[Index(k)] = 0 /\ Spares(f, g, k) /\ pc'[1] = [at |-> "cond", loop |-> k]
    BY <1>4, <1>7, <1>8, <2>1, <2>2, SparesOthers
  <2>4. StrategyIs("cond", k, 0, g, r, n)
    BY <1>2, <2>1, <2>3, LoopStarts
  <2> QED
    BY <1>4, <1>9, <2>1, <2>3, <2>4 DEF Round, r
<1>11. CASE LoopCond
  <2>1. at = "cond" /\ i = f[Index(k)] /\ reg' = reg /\ base' = base /\ g = f
    BY <1>3, <1>5, <1>11 DEF LoopCond, At, at, f, g, Me
  <2>2. CASE i < Count(k)
    <3>1. Goto(IF k \in {1, 2} THEN "fork" ELSE "load", k)
      BY <1>3, <1>11, <2>1, <2>2 DEF LoopCond
    <3>2. StrategyIs(IF k \in {1, 2} THEN "fork" ELSE "load", k, i, f, r, n)
      BY <1>2, <2>1, <2>2, LoopContinues
    <3> QED
      BY <1>4, <1>8, <1>9, <2>1, <3>1, <3>2 DEF Round, r
  <2>3. CASE ~ (i < Count(k)) /\ k < 4
    <3>1. Goto("init", k + 1)
      BY <1>3, <1>11, <2>1, <2>3 DEF LoopCond
    <3>2. StrategyIs("init", k + 1, 0, f, r, n)
      BY <1>2, <2>1, <2>3, LoopEnds
    <3>3. k + 1 \in 1 .. 4
      BY <1>4, <2>3
    <3> QED
      BY <1>8, <1>9, <2>1, <3>1, <3>2, <3>3 DEF Round, r
  <2>4. CASE ~ (i < Count(k)) /\ ~ (k < 4)
    <3>1. Goto("exit", k)
      BY <1>3, <1>11, <2>1, <2>4 DEF LoopCond
    <3>2. StrategyIs("exit", k, i, f, r, n)
      BY <1>2, <2>1, <2>4, LoopEnds
    <3> QED
      BY <1>4, <1>8, <1>9, <2>1, <3>1, <3>2 DEF Round, r
  <2> QED
    BY <2>2, <2>3, <2>4
<1>12. CASE LoopInc
  <2>1. at = "inc" /\ i = f[Index(k)] /\ reg' = reg /\ base' = base
    BY <1>3, <1>5, <1>12 DEF LoopInc, At, at, Me
  <2>2. Write(Index(k), i + 1) /\ Goto("cond", k)
    BY <1>3, <1>12, <2>1 DEF LoopInc
  <2>3. g[Index(k)] = i + 1 /\ Spares(f, g, k) /\ pc'[1] = [at |-> "cond", loop |-> k]
    BY <1>4, <1>7, <1>8, <2>1, <2>2, SparesOthers
  <2>4. StrategyIs("cond", k, i + 1, g, r, n)
    BY <1>2, <2>1, <2>3, LoopAdvances
  <2> QED
    BY <1>4, <1>9, <2>1, <2>3, <2>4 DEF Round, r
<1>13. CASE StorePid
  <2>1. at = "store" /\ i = f[Index(k)] /\ reg' = reg /\ base' = base
    BY <1>3, <1>5, <1>13 DEF StorePid, At, at, Me
  <2>2. Write(WordOf(c), r) /\ Goto("test", k)
    BY <1>3, <1>6, <1>13, <2>1 DEF StorePid, r, Me
  <2>3. c \in 0 .. NC + NL - 1 /\ WordOf(c) \in Words /\ WordOf(c) < Index(k) /\ WordOf(c) < Index(1)
    BY <1>4, <1>6, <2>1, WordsApart, Layout DEF Words
  <2>4. g[WordOf(c)] = r /\ Replaced(f, g, WordOf(c)) /\ pc'[1] = [at |-> "test", loop |-> k]
    BY <1>7, <1>8, <2>1, <2>2, <2>3
  <2>5. g[Index(k)] = f[Index(k)] /\ g[Index(1)] = f[Index(1)]
    BY <1>4, <2>3, <2>4, Layout DEF Replaced, Words
  <2>6. ASSUME NEW d \in 0 .. NC + NL - 1, d # c
        PROVE  g[WordOf(d)] = f[WordOf(d)]
    BY <2>3, <2>4, <2>6, WordsApart, Layout DEF Replaced, Words
  <2>7. StrategyIs("test", k, i, g, r, n)
    BY <1>2, <2>1, <2>4, <2>5, <2>6, PidStored DEF c
  <2> QED
    BY <1>4, <1>9, <2>1, <2>4, <2>5, <2>7 DEF Round, r
<1>14. CASE TestPid
  <2>1. at = "test" /\ i = f[Index(k)] /\ reg' = reg /\ base' = base /\ g = f
    BY <1>3, <1>5, <1>14 DEF TestPid, At, at, f, g, Me
  <2>2. f[PidWord(k, f)] # 0 /\ StrategyIs("inc", k, i, f, r, n)
    BY <1>2, <1>6, <2>1, PidTested DEF c
  <2>3. Goto("inc", k)
    BY <1>3, <1>4, <1>14, <2>2 DEF TestPid
  <2> QED
    BY <1>4, <1>8, <1>9, <2>1, <2>2, <2>3 DEF Round, r
<1>15. CASE LoadPid
  <2>1. at = "load" /\ i = f[Index(k)] /\ base' = base /\ g = f
    BY <1>3, <1>5, <1>15 DEF LoadPid, At, at, f, g, Me
  <2>2. f[WordOf(c)] = c + 3 /\ StrategyIs("wait", k, i, f, c + 3, n)
    BY <1>2, <2>1, PidLoaded DEF c
  <2>3. Goto("wait", k) /\ reg'[1] = c + 3
    BY <1>2, <1>3, <1>4, <1>6, <1>15, <2>1, <2>2 DEF LoadPid, Me
  <2> QED
    BY <1>4, <1>8, <1>9, <2>1, <2>2, <2>3 DEF Round
<1>16. CASE StoreStatus
  <2>1. at = "result" /\ i = f[Index(k)] /\ reg' = reg /\ base' = base
    BY <1>3, <1>5, <1>16 DEF StoreStatus, At, at, Me
  <2>2. k \in {3, 4}
    BY <1>2, <1>4, <2>1 DEF StrategyIs
  <2>3. Write(StatusOfLoop(k), r) /\ Goto("check", k)
    BY <1>3, <1>16 DEF StoreStatus, r, Me
  <2>4. /\ g[StatusOfLoop(k)] = r /\ Spares(f, g, k) /\ g[Index(k)] = f[Index(k)]
        /\ pc'[1] = [at |-> "check", loop |-> k]
    <3>1. StatusOfLoop(k) # Index(k)
      BY <2>2, Layout
    <3> QED
      BY <1>4, <1>7, <1>8, <2>1, <2>2, <2>3, <3>1, SparesOthers
  <2>5. StrategyIs("check", k, i, g, r, n)
    BY <1>2, <2>1, <2>4, WaitReturned
  <2> QED
    BY <1>4, <1>9, <2>1, <2>4, <2>5 DEF Round, r
<1>17. CASE CheckStatus
  <2>1. at = "check" /\ i = f[Index(k)] /\ reg' = reg /\ base' = base /\ g = f
    BY <1>3, <1>5, <1>17 DEF CheckStatus, At, at, f, g, Me
  <2>2. Goto("inc", k) /\ StrategyIs("inc", k, i, f, r, n)
    BY <1>2, <1>3, <1>4, <1>17, <2>1, StatusChecked DEF CheckStatus
  <2> QED
    BY <1>4, <1>8, <1>9, <2>1, <2>2 DEF Round, r
<1>18. CASE CallExecve \/ InitStatus
  <2>1. at \in {"execve", "status"}
    BY <1>3, <1>18 DEF CallExecve, InitStatus, At, at, Me
  <2> QED
    BY <1>2, <2>1 DEF StrategyIs
<1> QED
  BY <1>10, <1>11, <1>12, <1>13, <1>14, <1>15, <1>16, <1>17, <1>18

(***************************************************************************)
(* A child's instructions before its program, on strategy's locals: what   *)
(* it writes spares what strategy, where a tick may stop it, still needs.  *)
(* A collatz child that starts late writes to the fourth loop's index, a   *)
(* long running program to the first child's pid.                          *)
(***************************************************************************)
LEMMA ChildWrites ==
  ASSUME NEW at \in Survivable, NEW k, NEW i, NEW f, NEW g, NEW r, NEW n \in Nat,
         StrategyIs(at, k, i, f, r, n), i = f[Index(k)],
         NEW l \in {1, 2}, l = 1 => k # 4, l = 2 => k # 1,
         Replaced(f, g, PidWord(l, f))
  PROVE  /\ PidWord(l, f) \in Words
         /\ PidWord(l, g) = PidWord(l, f)
         /\ g[Index(k)] = f[Index(k)]
         /\ StrategyIs(at, k, i, g, r, n)
<1> DEFINE v == PidWord(l, f)
           c == ChildOf(k, i)
<1>1. /\ k \in 1 .. 4 /\ i \in 0 .. Count(k)
      /\ k < 3 => at \in {"fork", "store"} /\ i < Count(k)
      /\ k > 2 => at \in {"wait", "result", "check", "exit"}
      /\ k > 1 => f[Index(1)] = NC
      /\ k > 2 => f[Index(2)] = NL
      /\ n <= 2 + NC + NL
  BY Layout DEF StrategyIs, Survivable, ChildOf
<1>2. \/ k = l /\ v = WordOf(c) /\ c \in 0 .. NC + NL - 1
      \/ l = 1 /\ k \in {2, 3} /\ v = NC + NL
      \/ l = 2 /\ k \in {3, 4} /\ v = WordOf(0)
  <2>1. CASE k = l
    <3>1. f[Index(k)] \in 0 .. Count(k) - 1
      BY <1>1, <2>1, Layout
    <3> QED
      BY <1>1, <2>1, <3>1, WordMeant
  <2>2. CASE k # l
    BY <1>1, <2>2, Layout DEF PidWord, WordOf
  <2> QED
    BY <2>1, <2>2
<1>3. v \in 0 .. NC + NL
  BY <1>2, WordsApart, Layout
<1>4. v = NC + NL => k \in {2, 3}
  BY <1>2, WordsApart, Layout
<1> HIDE DEF v, c
<1>5. v \in Words
  BY <1>3, Layout DEF Words
<1>6. \A w \in Words : w # v => g[w] = f[w]
  BY DEF Replaced, v
<1>7. /\ g[Index(1)] = f[Index(1)] /\ g[Index(2)] = f[Index(2)] /\ g[Index(3)] = f[Index(3)]
      /\ k > 2 => g[StatusOfLoop(k)] = f[StatusOfLoop(k)]
  BY <1>1, <1>3, <1>6, Layout DEF Words
<1>8. g[Index(k)] = f[Index(k)]
  BY <1>1, <1>3, <1>4, <1>6, <1>7, Layout DEF Words
<1>9. PidWord(l, g) = v
  BY <1>7 DEF PidWord, v
<1>10. ASSUME NEW d \in 0 .. n - 3
       PROVE  \/ at = "store" /\ d = c
              \/ Overwritten(at, k, i) /\ d = 0
              \/ g[WordOf(d)] = d + 3
  <2>1. d \in 0 .. NC + NL - 1 /\ WordOf(d) \in 0 .. NC + NL - 1 /\ WordOf(d) \in Words
    BY <1>1, WordsApart, Layout DEF Words
  <2>2. \/ at = "store" /\ d = c
        \/ Overwritten(at, k, i) /\ d = 0
        \/ f[WordOf(d)] = d + 3
    BY DEF StrategyIs, c
  <2>3. CASE WordOf(d) # v
    BY <1>6, <2>1, <2>2, <2>3
  <2>4. CASE WordOf(d) = v /\ k = l
    <3>1. d = c
      BY <1>2, <2>1, <2>4, WordsApart
    <3>2. at # "store" => n = 2 + c
      BY <1>1, <2>4 DEF StrategyIs, c
    <3> QED
      BY <3>1, <3>2
  <2>5. CASE WordOf(d) = v /\ k # l
    <3>1. d = 0 /\ k \in {3, 4}
      BY <1>2, <2>1, <2>5, WordsApart, Layout
    <3>2. Overwritten(at, k, i)
      BY <1>1, <3>1 DEF Overwritten
    <3> QED
      BY <3>1, <3>2
  <2> QED
    BY <2>3, <2>4, <2>5
<1>11. at \notin {"test", "status", "load"}
  BY DEF Survivable
<1>12. StrategyIs(at, k, i, g, r, n)
  BY <1>1, <1>7, <1>10, <1>11 DEF StrategyIs, c
<1> QED
  BY <1>5, <1>8, <1>9, <1>12 DEF v

LEMMA ChildInstruction ==
  ASSUME IInv, Survive, Me \notin {0, 1},
         LoopInit \/ LoopCond \/ LoopInc \/ StorePid \/ TestPid \/ CallExecve
         \/ InitStatus \/ LoadPid \/ StoreStatus \/ CheckStatus
  PROVE  Survive'
<1>1. LocalStep /\ cpu = "user"
  BY LocalInstruction DEF LocalStep
<1>2. /\ Me \in Slots /\ Me \in 2 .. numTasks - 1 /\ 1 \in Slots /\ numTasks \in Nat
      /\ state[Me] = "RUNNING" /\ DOMAIN state = Slots /\ Slots' = Slots /\ Me' = Me
      /\ numTasks' = numTasks /\ Lasting
  BY <1>1, OthersQuiet, SameLasts DEF LocalStep, vars, Slots, Me
<1>3. /\ DOMAIN pc = Slots /\ DOMAIN reg = Slots /\ DOMAIN base = Slots
      /\ DOMAIN frame = Slots /\ DOMAIN frame[1] = Words
      /\ base[Me] = 1 /\ ChildIs(Me, pc[Me].at, pc[Me].loop, frame[1], reg[Me])
  BY <1>2 DEF Survive, Domains, ChildPart
<1> DEFINE at == pc[1].at
           k == pc[1].loop
           f == frame[1]
           r == reg[1]
           i == f[Index(k)]
           l == pc[Me].loop
<1>4. k # 0
  BY <1>2 DEF Survive, StrategyPart, ForkedIs
<1>5. at \in Survivable /\ base[1] = 1 /\ StrategyIs(at, k, i, f, r, numTasks)
  <2>1. at \in Survivable
    BY <1>1, <1>2, OthersQuiet
  <2>2. Round(at, k, f) = i
    BY <2>1 DEF Round, Survivable
  <2> QED
    BY <1>2, <1>4, <2>1, <2>2 DEF Survive, StrategyPart
<1>6. l \in {1, 2} /\ (l = 1 => k # 4) /\ (l = 2 => k # 1)
  <2>1. l = IF Me < NC + 2 THEN 1 ELSE 2
    BY <1>3 DEF ChildIs
  <2>2. ASSUME k = 4, l = 1 PROVE FALSE
    <3>1. ChildOf(4, i) = NC + i /\ StrategyIs(at, 4, i, f, r, numTasks)
      BY <1>5, <2>2 DEF ChildOf
    <3>2. \A d \in 0 .. ChildOf(4, i) - 1 : Dead(d + 2)
      BY <3>1 DEF StrategyIs
    <3>3. i \in Nat
      BY <3>1, Layout DEF StrategyIs
    <3>4. Me - 2 \in 0 .. ChildOf(4, i) - 1 /\ (Me - 2) + 2 = Me
      BY <1>2, <2>1, <2>2, <3>1, <3>3, Layout
    <3>5. Dead(Me)
      BY <3>2, <3>4
    <3> QED
      BY <1>2, <3>5 DEF Dead
  <2>3. ASSUME k = 1, l = 2 PROVE FALSE
    <3>1. numTasks <= 2 + NC
      BY <1>5, <2>3, Layout DEF StrategyIs, ChildOf, Survivable
    <3> QED
      BY <1>2, <2>1, <2>3, <3>1, Layout
  <2> QED
    BY <2>1, <2>2, <2>3
<1>7. At(pc[Me].at) /\ Frame = f /\ K = l
  BY <1>1, <1>3 DEF At, Frame, K
<1>8. pc'[1] = pc[1] /\ reg'[1] = r /\ base'[1] = 1
  BY <1>1, <1>2, <1>3, <1>5 DEF LocalStep
<1>9. \A s \in Slots \ {Me} : pc'[s] = pc[s] /\ reg'[s] = reg[s] /\ base'[s] = base[s]
  BY <1>1, <1>3 DEF LocalStep
<1>10. frame'[0] = frame[0]
  BY <1>1, <1>2, <1>3 DEF LocalStep, Slots
<1>11. MainPart'
  BY <1>1, <1>10, MainElsewhere
<1> HIDE DEF at, k, f, r, i, l
<1>12. ASSUME NEW g, g = frame'[1], g[Index(k)] = i, StrategyIs(at, k, i, g, r, numTasks),
              base'[Me] = 1, ChildIs(Me, pc'[Me].at, pc'[Me].loop, g, reg'[Me])
       PROVE  Survive'
  <2>1. StrategyPart'
    <3> SUFFICES ASSUME NEW a, NEW b, NEW j, NEW q, NEW t, NEW n,
                        a = pc'[1].at, b = pc'[1].loop, q = frame'[1], t = reg'[1],
                        n = numTasks', j = Round(a, b, q)
                 PROVE  StrategyIs(a, b, j, q, t, n)'
      BY <1>4, <1>8 DEF StrategyPart, Round, k
    <3>1. a = at /\ b = k /\ t = r /\ n = numTasks /\ q = g
      BY <1>2, <1>8, <1>12 DEF at, k
    <3>2. j = i
      BY <1>5, <1>12, <3>1 DEF Round, Survivable
    <3> QED
      BY <1>2, <1>12, <3>1, <3>2, StrategyLasts
  <2>2. ChildPart'
    <3> SUFFICES ASSUME NEW s \in Slots \ {0, 1}
                 PROVE  base'[s] = 1 /\ ChildIs(s, pc'[s].at, pc'[s].loop, frame'[1], reg'[s])
      BY <1>2 DEF ChildPart
    <3>1. CASE s = Me
      BY <1>12, <3>1
    <3>2. CASE s # Me
      <4>1. base[s] = 1 /\ ChildIs(s, pc[s].at, pc[s].loop, frame[1], reg[s])
        BY DEF Survive, ChildPart
      <4>2. pc[s].at \in Survivable
        BY <1>1, <3>2, OthersQuiet
      <4> QED
        BY <1>9, <3>2, <4>1, <4>2, ChildFrame
    <3> QED
      BY <3>1, <3>2
  <2> QED
    BY <1>1, <1>11, <2>1, <2>2, LocalSurvives
<1>13. CASE StorePid
  <2>1. /\ pc[Me].at = "store" /\ pc'[Me] = [at |-> "test", loop |-> l]
        /\ base'[Me] = 1 /\ reg' = reg
    BY <1>2, <1>3, <1>7, <1>13 DEF StorePid, At, Goto
  <2>2. Write(PidWord(l, f), reg[Me]) /\ reg[Me] = 0
    BY <1>3, <1>7, <1>13, <2>1 DEF StorePid, ChildIs
  <2> DEFINE g == frame'[1]
  <2>3. Replaced(f, g, PidWord(l, f))
    BY <1>2, <1>3, <2>2 DEF Write, Replaced, f
  <2>4. /\ PidWord(l, f) \in Words /\ PidWord(l, g) = PidWord(l, f) /\ g[Index(k)] = i
        /\ StrategyIs(at, k, i, g, r, numTasks)
    BY <1>2, <1>5, <1>6, <2>3, ChildWrites DEF i
  <2>5. g[PidWord(l, f)] = 0
    BY <1>2, <1>3, <2>2, <2>4 DEF Write, f
  <2>6. ChildIs(Me, "test", l, g, reg'[Me])
    BY <1>3, <2>4, <2>5 DEF ChildIs, l
  <2> QED
    BY <1>12, <2>1, <2>4, <2>6
<1>14. CASE TestPid
  <2>1. /\ pc[Me].at = "test" /\ base' = base /\ reg' = reg /\ frame' = frame
    BY <1>7, <1>14 DEF TestPid, At
  <2>2. f[PidWord(l, f)] = 0
    BY <1>3, <2>1 DEF ChildIs, f, l
  <2>3. pc'[Me] = [at |-> IF l = 1 THEN "collatz" ELSE "lrp", loop |-> l]
    BY <1>2, <1>3, <1>6, <1>7, <1>14, <2>2 DEF TestPid, Goto
  <2>4. ChildIs(Me, pc'[Me].at, l, f, reg'[Me])
    BY <1>3, <2>3 DEF ChildIs, l
  <2> QED
    BY <1>3, <1>5, <1>12, <2>1, <2>3, <2>4 DEF f, i
<1>15. CASE LoopInit \/ LoopCond \/ LoopInc \/ CallExecve \/ InitStatus \/ LoadPid
            \/ StoreStatus \/ CheckStatus
  BY <1>3, <1>15
  DEF LoopInit, LoopCond, LoopInc, CallExecve, InitStatus, LoadPid, StoreStatus, CheckStatus, At, ChildIs
<1> QED
  BY <1>13, <1>14, <1>15

-----------------------------------------------------------------------------
(***************************************************************************)
(* The steps that hand the processor on.                                   *)
(***************************************************************************)
LEMMA PartsLast ==
  ASSUME Survive, Lasting, numTasks' = numTasks, UNCHANGED <<base, frame>>
  PROVE  /\ (0 \in Slots => pc'[0] = pc[0] /\ reg'[0] = reg[0]) => MainPart'
         /\ (1 \in Slots => pc'[1] = pc[1] /\ reg'[1] = reg[1]) => StrategyPart'
         /\ (\A s \in Slots \ {0, 1} : pc'[s] = pc[s] /\ reg'[s] = reg[s]) => ChildPart'
<1>1. Slots' = Slots
  BY DEF Slots
<1>2. ASSUME 0 \in Slots, pc'[0] = pc[0], reg'[0] = reg[0]
      PROVE  MainPart'
  <2> SUFFICES ASSUME NEW at, NEW f, NEW r, NEW n,
                      at = pc'[0].at, f = frame'[0], r = reg'[0], n = numTasks'
               PROVE  base'[0] = 0 /\ pc'[0].loop = 0 /\ MainIs(at, f, r, n)'
    BY DEF MainPart
  <2>1. base[0] = 0 /\ pc[0].loop = 0 /\ MainIs(at, f, r, n)
    BY <1>2 DEF Survive, MainPart
  <2> QED
    BY <1>2, <2>1, MainLasts
<1>3. ASSUME 1 \in Slots, pc'[1] = pc[1], reg'[1] = reg[1]
      PROVE  StrategyPart'
  <2>1. CASE pc[1].loop = 0
    BY <1>1, <1>3, <2>1 DEF Survive, StrategyPart, ForkedIs
  <2>2. CASE pc[1].loop # 0
    <3> SUFFICES ASSUME NEW at, NEW k, NEW i, NEW f, NEW r, NEW n,
                        at = pc'[1].at, k = pc'[1].loop, f = frame'[1], r = reg'[1],
                        n = numTasks', i = Round(at, k, f)
                 PROVE  base'[1] = 1 /\ StrategyIs(at, k, i, f, r, n)'
      BY <1>3, <2>2 DEF StrategyPart, Round
    <3>1. base[1] = 1 /\ StrategyIs(at, k, i, f, r, n)
      BY <1>3, <2>2 DEF Survive, StrategyPart
    <3> QED
      BY <3>1, StrategyLasts
  <2> QED
    BY <2>1, <2>2
<1> QED
  BY <1>1, <1>2, <1>3 DEF MainPart, StrategyPart, ChildPart, Survive, ChildIs, PidWord

LEMMA HandedOn ==
  ASSUME IInv, Survive, cpu \in {"idle", "user"},
         NEW st, NEW wp, Handed(st, wp), Schedule(st, wp),
         \A s \in Slots : st[s] = "TERMINATED" => pc'[s].at \in Finishing,
         \A s \in Slots : pc'[s].at \in Survivable,
         DOMAIN pc' = Slots, DOMAIN reg' = Slots, UNCHANGED <<base, frame>>,
         MainPart', StrategyPart', ChildPart'
  PROVE  cpu' # "wild" /\ Survive'
<1>1. /\ cpu' \in {"user", "spin"} /\ Slots' = Slots
      /\ \A s \in Slots : st[s] = "TERMINATED" <=> state'[s] = "TERMINATED"
  BY ScheduleKeeps DEF Slots
<1>2. Domains'
  BY <1>1 DEF Survive, Domains
<1>3. Alone' /\ DeadFinished'
  BY <1>1 DEF Alone, DeadFinished
<1> QED
  BY <1>1, <1>2, <1>3 DEF Survive

LEMMA TimerSurvives ==
  ASSUME IInv, Survive, Timer, ~harmed'
  PROVE  cpu' # "wild" /\ Survive'
<1>1. /\ cpu \in {"idle", "user"} /\ Schedule(state, waitpid) /\ Handed(state, waitpid)
      /\ UNCHANGED programVars /\ numTasks' = numTasks
  BY HandedAsIs DEF Timer, Tick, Schedule
<1>2. \A s \in Slots : pc[s].at \in Survivable
  BY <1>1 DEF Survive, Alone, Timer, Me
<1>3. Lasting
  BY <1>1, ScheduleLasts
<1>4. MainPart' /\ StrategyPart' /\ ChildPart'
  BY <1>1, <1>3, PartsLast DEF programVars
<1> QED
  BY <1>1, <1>2, <1>4, HandedOn DEF programVars, Survive, Domains, DeadFinished

LEMMA ExitSurvives ==
  ASSUME IInv, Survive, CallExit
  PROVE  cpu' # "wild" /\ Survive'
<1> DEFINE st == [state EXCEPT ![currentTask] = "TERMINATED"]
<1>1. /\ cpu = "user" /\ Schedule(st, waitpid) /\ UNCHANGED programVars
      /\ pc[Me].at \in Finishing /\ numTasks' = numTasks
  BY DEF CallExit, Exit, At, Finishing, Schedule
<1>2. /\ Handed(st, waitpid) /\ Me = currentTask /\ Me \in Slots /\ state[Me] = "RUNNING"
      /\ DOMAIN state = Slots
  BY <1>1, OwnerIsCurrent DEF Handed, ProcessState, Me
<1>3. Lasting
  BY <1>1, <1>2, ScheduleLasts DEF Blocked
<1>4. \A s \in Slots : st[s] = "TERMINATED" => pc[s].at \in Finishing
  BY <1>1, <1>2 DEF Survive, DeadFinished
<1>5. \A s \in Slots : pc[s].at \in Survivable
  BY <1>1, <1>2, OthersQuiet DEF Finishing, Survivable
<1>6. MainPart' /\ StrategyPart' /\ ChildPart'
  BY <1>1, <1>3, PartsLast DEF programVars
<1> HIDE DEF st
<1> QED
  BY <1>1, <1>2, <1>4, <1>5, <1>6, HandedOn DEF programVars, Survive, Domains

\* usr_main and strategy wait for a pid that is in the table and not their own.
LEMMA WaiterFindsTarget ==
  ASSUME IInv, Survive, At("wait")
  PROVE  /\ Me \in {0, 1} /\ WaitTarget(reg[Me])
         /\ Me = 1 => pc[1].loop # 0
<1>1. /\ cpu = "user" /\ pc[Me].at = "wait" /\ Me \in Slots /\ Me = currentTask
      /\ numTasks \in Nat /\ Slots = 0 .. numTasks - 1
  BY OthersQuiet DEF At, Me
<1>2. \A t \in Slots : pid[t] = t + 1
  BY <1>1, SlotsTyped DEF IInv, TypeOK, PidIsSlot
<1>3. CASE Me = 0
  <2>1. reg[0] = 2 /\ numTasks # 1
    BY <1>1, <1>3 DEF Survive, MainPart, MainIs
  <2> QED
    BY <1>1, <1>2, <1>3, <2>1 DEF WaitTarget
<1>4. CASE Me = 1
  <2>1. pc[1].loop # 0
    BY <1>1, <1>4 DEF Survive, StrategyPart, ForkedIs
  <2>2. PICK i : StrategyIs("wait", pc[1].loop, i, frame[1], reg[1], numTasks)
    BY <1>1, <1>4, <2>1 DEF Survive, StrategyPart
  <2>3. reg[1] - 1 \in 2 .. numTasks - 1 /\ reg[1] \in Int
    <3>1. /\ pc[1].loop \in {3, 4} /\ i \in 0 .. Count(pc[1].loop) - 1
          /\ numTasks = 2 + NC + NL /\ reg[1] = ChildOf(pc[1].loop, i) + 3
      BY <2>2, Layout DEF StrategyIs
    <3> QED
      BY <3>1, Layout DEF ChildOf
  <2> QED
    BY <1>1, <1>2, <1>4, <2>1, <2>3 DEF WaitTarget
<1>5. CASE Me \notin {0, 1}
  BY <1>1, <1>5 DEF Survive, ChildPart, ChildIs
<1> QED
  BY <1>3, <1>4, <1>5

LEMMA WaitPidSurvives ==
  ASSUME IInv, Survive, CallWaitPid
  PROVE  cpu' # "wild" /\ Survive'
<1>1. Me \in {0, 1} /\ WaitTarget(reg[Me]) /\ (Me = 1 => pc[1].loop # 0)
  BY WaiterFindsTarget DEF CallWaitPid
<1>2. PICK p \in Pids : p = reg[Me] /\ WaitPid(p)
  BY <1>1 DEF CallWaitPid
<1> DEFINE st == [state EXCEPT ![currentTask] = "WAITING"]
           wp == [waitpid EXCEPT ![currentTask] = p]
<1>3. /\ cpu = "user" /\ pc[Me].at = "wait" /\ Schedule(st, wp) /\ numTasks' = numTasks
      /\ UNCHANGED <<base, frame>> /\ reg' = [reg EXCEPT ![Me] = 1]
      /\ pc' = [pc EXCEPT ![Me] = [at |-> "result", loop |-> K]]
  BY <1>1, <1>2 DEF CallWaitPid, WaitPid, At, Goto, Schedule
<1>4. /\ Handed(state, waitpid) /\ DOMAIN state = Slots /\ currentTask = Me /\ Me \in Slots
      /\ state[Me] = "RUNNING" /\ DOMAIN waitpid = Slots
      /\ DOMAIN pc = Slots /\ DOMAIN reg = Slots /\ DOMAIN base = Slots /\ DOMAIN frame = Slots
  BY <1>3, OwnerIsCurrent DEF Me, Survive, Domains, Handed
<1>5. Handed(st, wp)
  BY <1>2, HandedWaiting
<1>6. \A s \in Slots : state[s] \in Blocked => st[s] = state[s] /\ wp[s] = waitpid[s]
  BY <1>4 DEF Blocked
<1>7. st[Me] = "WAITING" /\ wp[Me] = p
  BY <1>4
<1>8. \A s \in Slots : st[s] = "TERMINATED" => s # Me /\ state[s] = "TERMINATED"
  BY <1>4
<1> HIDE DEF st, wp
<1>9. Lasting
  BY <1>3, <1>5, <1>6, ScheduleLasts
<1>10. ASSUME NEW s, s = Me PROVE Awaits(s, p)'
  <2>1. PICK u, v : u = st /\ v = wp
    OBVIOUS
  <2>2. \A t \in Slots : u[t] = "WAITING" => Awaits(t, v[t])'
    BY <1>3, <1>5, <2>1, ScheduleKeeps
  <2> QED
    BY <1>4, <1>7, <1>10, <2>1, <2>2 DEF Awaits
<1>11. /\ \A s \in Slots \ {Me} : pc'[s] = pc[s] /\ reg'[s] = reg[s]
       /\ pc'[Me] = [at |-> "result", loop |-> pc[Me].loop] /\ reg'[Me] = 1
       /\ DOMAIN pc' = Slots /\ DOMAIN reg' = Slots
  BY <1>3, <1>4 DEF K
<1>12. \A s \in Slots : st[s] = "TERMINATED" => pc'[s].at \in Finishing
  BY <1>8, <1>11 DEF Survive, DeadFinished
<1>13. \A s \in Slots : pc'[s].at \in Survivable
  <2>1. \A s \in Slots \ {Me} : pc[s].at \in Survivable
    BY <1>3, OthersQuiet
  <2> QED
    BY <1>11, <2>1 DEF Survivable
<1>14. MainPart'
  <2>1. CASE Me # 0
    BY <1>3, <1>9, <1>11, <2>1, PartsLast
  <2>2. CASE Me = 0
    <3>1. base[0] = 0 /\ pc[0].loop = 0 /\ MainIs("wait", frame[0], p, numTasks)
      BY <1>2, <1>3, <1>4, <2>2 DEF Survive, MainPart
    <3>2. p = 2 /\ Awaits(0, 2)'
      BY <1>10, <2>2, <3>1 DEF MainIs, Awaits
    <3> SUFFICES ASSUME NEW f, NEW n, f = frame'[0], n = numTasks'
                 PROVE  MainIs("result", f, 1, n)'
      BY <1>3, <1>11, <2>2, <3>1 DEF MainPart
    <3>3. n # 1
      BY <1>3, <3>1 DEF MainIs
    <3> QED
      BY <3>2, <3>3 DEF MainIs
  <2> QED
    BY <2>1, <2>2
<1>15. StrategyPart'
  <2>1. CASE Me # 1
    BY <1>3, <1>9, <1>11, <2>1, PartsLast
  <2>2. CASE Me = 1
    <3> SUFFICES ASSUME NEW k, NEW i, NEW f, NEW n,
                        k = pc'[1].loop, f = frame'[1], n = numTasks', i = f[Index(k)]
                 PROVE  base'[1] = 1 /\ StrategyIs("result", k, i, f, 1, n)'
      BY <1>1, <1>11, <2>2 DEF StrategyPart, Round
    <3>1. base[1] = 1 /\ k = pc[1].loop /\ StrategyIs("wait", k, i, f, p, n)
      BY <1>1, <1>2, <1>3, <1>4, <1>11, <2>2 DEF Survive, StrategyPart, Round
    <3>2. StrategyIs("wait", k, i, f, p, n)'
      BY <1>9, <3>1, StrategyLasts
    <3>3. p = ChildOf(k, i) + 3 /\ k \in {3, 4}
      BY <3>1 DEF StrategyIs
    <3>4. Awaits(1, ChildOf(k, i) + 3)'
      BY <1>10, <2>2, <3>3 DEF Awaits
    <3>5. Overwritten("result", k, i) <=> Overwritten("wait", k, i)
      BY DEF Overwritten
    <3> QED
      BY <1>3, <3>1, <3>2, <3>3, <3>4, <3>5 DEF StrategyIs
  <2> QED
    BY <2>1, <2>2
<1>16. ChildPart'
  BY <1>1, <1>3, <1>9, <1>11, PartsLast
<1> QED
  BY <1>3, <1>5, <1>11, <1>12, <1>13, <1>14, <1>15, <1>16, HandedOn

(***************************************************************************)
(* The steps that make a task.                                             *)
(***************************************************************************)
\* usr_main forks once, strategy in its first two loops.
LEMMA WhoForks ==
  ASSUME IInv, Survive, At("fork")
  PROVE  \/ Me = 0 /\ numTasks = 1
         \/ Me = 1 /\ pc[1].loop # 0
<1>1. cpu = "user" /\ pc[Me].at = "fork" /\ Me \in Slots
  BY OthersQuiet DEF At
<1> QED
  BY <1>1 DEF Survive, MainPart, MainIs, StrategyPart, ForkedIs, ChildPart, ChildIs

LEMMA ChildForked ==
  ASSUME NEW k, NEW i, NEW f, NEW r, NEW n \in Nat, StrategyIs("fork", k, i, f, r, n)
  PROVE  /\ StrategyIs("store", k, i, f, n + 1, n + 1)
         /\ ChildIs(n, "store", k, f, 0)
         /\ n > 1
<1> DEFINE c == ChildOf(k, i)
<1>1. k \in {1, 2} /\ i \in 0 .. Count(k) - 1 /\ n = 2 + c /\ c \in Nat
  BY Layout DEF StrategyIs, ChildOf
<1>2. k = IF n < NC + 2 THEN 1 ELSE 2
  BY <1>1, Layout DEF ChildOf
<1>3. \A d \in 0 .. n - 3 : f[WordOf(d)] = d + 3
  BY <1>1 DEF StrategyIs, Overwritten
<1>4. n + 1 = 3 + c /\ n + 1 = c + 3 /\ \A d \in 0 .. (n + 1) - 3 : d = c \/ d \in 0 .. n - 3
  BY <1>1
<1> HIDE DEF c
<1>5. StrategyIs("store", k, i, f, n + 1, n + 1)
  BY <1>1, <1>3, <1>4 DEF StrategyIs, c
<1> QED
  BY <1>1, <1>2, <1>5 DEF ChildIs

LEMMA ForkSurvives ==
  ASSUME IInv, Survive, At("fork"), Fork,
         pc' = [Extend(pc, [at |-> "store", loop |-> K])
                  EXCEPT ![Me] = [at |-> "store", loop |-> K]],
         reg' = [Extend(reg, 0) EXCEPT ![Me] = numTasks + 1],
         base' = Extend(base, base[Me]), frame' = Extend(frame, frame[Me])
  PROVE  cpu' # "wild" /\ Survive'
<1> DEFINE n == numTasks
<1>1. /\ cpu = "user" /\ cpu' = "user" /\ currentTask' = currentTask /\ pc[Me].at = "fork"
      /\ n \in Nat /\ Slots = 0 .. n - 1 /\ Me \in Slots /\ DOMAIN state = Slots
      /\ numTasks' = n + 1 /\ Slots' = 0 .. n
      /\ DOMAIN pc = Slots /\ DOMAIN reg = Slots /\ DOMAIN base = Slots /\ DOMAIN frame = Slots
      /\ \A s \in Slots : DOMAIN frame[s] = Words
      /\ Lasting
  BY OthersQuiet, SlotsTyped, ForkLasts DEF At, Fork, Survive, Domains, Slots
<1> HIDE DEF n
<1>2. /\ \A s \in Slots : base'[s] = base[s] /\ frame'[s] = frame[s]
      /\ \A s \in Slots \ {Me} : pc'[s] = pc[s] /\ reg'[s] = reg[s]
      /\ pc'[Me] = [at |-> "store", loop |-> K] /\ reg'[Me] = n + 1
      /\ pc'[n] = [at |-> "store", loop |-> K] /\ reg'[n] = 0
      /\ base'[n] = base[Me] /\ frame'[n] = frame[Me]
      /\ DOMAIN pc' = 0 .. n /\ DOMAIN reg' = 0 .. n /\ DOMAIN base' = 0 .. n /\ DOMAIN frame' = 0 .. n
  BY <1>1 DEF Extend, n
<1>3. /\ \A s \in Slots : state'[s] = state[s]
      /\ state'[n] = "READY" /\ state[Me] = "RUNNING" /\ 0 .. n = Slots \cup {n} /\ n \notin Slots
  BY <1>1, OthersQuiet DEF Fork, Extend, n
<1>4. Domains'
  BY <1>1, <1>2, <1>3 DEF Domains
<1>5. Alone'
  <2>1. \A s \in Slots \ {Me} : pc'[s].at \in Survivable
    BY <1>1, <1>2, OthersQuiet
  <2>2. \A s \in 0 .. n : pc'[s].at \in Survivable
    BY <1>2, <1>3, <2>1 DEF Survivable
  <2> QED
    BY <1>1, <2>2 DEF Alone
<1>6. DeadFinished'
  <2>1. ASSUME NEW s \in 0 .. n, state'[s] = "TERMINATED" PROVE pc'[s].at \in Finishing
    <3>1. s \in Slots /\ s # Me /\ state[s] = "TERMINATED"
      BY <1>3, <2>1
    <3> QED
      BY <1>2, <3>1 DEF Survive, DeadFinished
  <2> QED
    BY <1>1, <2>1 DEF DeadFinished
<1>7. CASE Me = 0 /\ n = 1
  <2>1. base[0] = 0 /\ K = 0 /\ MainIs("fork", frame[0], reg[0], 1)
    BY <1>1, <1>7 DEF Survive, MainPart, K, n
  <2>2. MainPart'
    BY <1>1, <1>2, <1>7, <2>1 DEF MainPart, MainIs
  <2>3. StrategyPart' /\ ChildPart'
    BY <1>1, <1>2, <1>7, <2>1 DEF StrategyPart, ForkedIs, ChildPart
  <2> QED
    BY <1>1, <1>4, <1>5, <1>6, <2>2, <2>3 DEF Survive
<1>8. CASE Me = 1 /\ pc[1].loop # 0
  <2> DEFINE k == pc[1].loop
             f == frame[1]
             i == f[Index(k)]
  <2>1. base[1] = 1 /\ K = k /\ StrategyIs("fork", k, i, f, reg[1], n)
    BY <1>1, <1>8 DEF Survive, StrategyPart, Round, K, n
  <2> HIDE DEF k, f, i
  <2>2. StrategyIs("store", k, i, f, n + 1, n + 1) /\ ChildIs(n, "store", k, f, 0) /\ n > 1
    BY <1>1, <2>1, ChildForked
  <2>3. StrategyPart'
    <3> SUFFICES ASSUME NEW b, NEW j, NEW g, NEW m,
                        b = pc'[1].loop, g = frame'[1], m = numTasks', j = g[Index(b)]
                 PROVE  StrategyIs("store", b, j, g, m, m)'
      BY <1>1, <1>2, <1>8, <2>1, <2>2 DEF StrategyPart, Round, k
    <3>1. b = k /\ j = i /\ g = f /\ m = n + 1
      BY <1>1, <1>2, <1>8, <2>1 DEF f, i
    <3> QED
      BY <1>1, <2>2, <3>1, StrategyLasts
  <2>4. MainPart'
    <3>1. 0 \in Slots /\ base[0] = 0 /\ pc[0].loop = 0 /\ MainIs(pc[0].at, frame[0], reg[0], n)
      BY <1>1, <2>2 DEF Survive, MainPart, n
    <3> SUFFICES ASSUME NEW at, NEW g, NEW r, NEW m,
                        at = pc'[0].at, g = frame'[0], r = reg'[0], m = numTasks'
                 PROVE  MainIs(at, g, r, m)'
      BY <1>2, <1>8, <3>1 DEF MainPart
    <3>2. MainIs(at, g, r, m)
      BY <1>1, <1>2, <1>8, <2>2, <3>1 DEF MainIs
    <3> QED
      BY <1>1, <3>2, MainLasts
  <2>5. ChildPart'
    <3> SUFFICES ASSUME NEW s \in (0 .. n) \ {0, 1}
                 PROVE  base'[s] = 1 /\ ChildIs(s, pc'[s].at, pc'[s].loop, frame'[1], reg'[s])
      BY <1>1 DEF ChildPart
    <3>1. frame'[1] = f
      BY <1>1, <1>2, <1>8 DEF f
    <3>2. CASE s = n
      BY <1>2, <1>8, <2>1, <2>2, <3>1, <3>2
    <3>3. CASE s \in Slots
      <4>1. base[s] = 1 /\ ChildIs(s, pc[s].at, pc[s].loop, frame[1], reg[s])
        BY <3>3 DEF Survive, ChildPart
      <4>2. base'[s] = base[s] /\ pc'[s] = pc[s] /\ reg'[s] = reg[s] /\ frame'[1] = frame[1]
        BY <1>1, <1>2, <1>8, <3>3
      <4> QED
        BY <4>1, <4>2
    <3> QED
      BY <1>3, <3>2, <3>3
  <2> QED
    BY <1>1, <1>4, <1>5, <1>6, <2>3, <2>4, <2>5 DEF Survive
<1> QED
  BY <1>7, <1>8, WhoForks DEF n

\* Whoever finds the table full, strategy has not ended.
LEMMA OverflowKeepsPromises ==
  ASSUME IInv, Survive, At("fork"), ForkOverflow, UNCHANGED programVars, UNCHANGED harmed
  PROVE  Promises'
<1>1. /\ cpu = "user" /\ UNCHANGED <<state, pc, base, frame>> /\ DOMAIN pc = Slots
      /\ numTasks \in Nat /\ Slots = 0 .. numTasks - 1
      /\ state[Me] = "RUNNING" /\ DOMAIN state = Slots
  BY OthersQuiet DEF ForkOverflow, programVars, Survive, Domains
<1>2. ~ Dead(1)
  BY <1>1, WhoForks DEF Dead
<1>3. Promises
  BY <1>1, SurviveMeans
<1> QED
  BY <1>1, <1>2, <1>3
  DEF Promises, WaitsSucceed, ChildrenReaped, MainEndsLast, RightProgram, Dead

LEMMA BootSurvives ==
  ASSUME IInv, Boot
  PROVE  cpu' # "wild" /\ Survive'
<1>1. numTasks = 0
  BY DEF Boot, LoadMain, IInv, CpuAgrees
<1>2. /\ cpu' = "idle" /\ numTasks' = 1 /\ Slots' = {0} /\ state'[0] = "READY"
      /\ pc' = [s \in {0} |-> [at |-> "fork", loop |-> 0]]
      /\ reg' = [s \in {0} |-> 0] /\ base' = [s \in {0} |-> 0]
      /\ frame' = [s \in {0} |-> [w \in Words |-> 0]]
  BY <1>1 DEF Boot, LoadMain, Slots
<1>3. Domains' /\ Alone' /\ DeadFinished'
  BY <1>2 DEF Domains, Alone, DeadFinished, Survivable
<1>4. MainPart' /\ StrategyPart' /\ ChildPart'
  BY <1>2 DEF MainPart, MainIs, StrategyPart, ChildPart
<1> QED
  BY <1>2, <1>3, <1>4 DEF Survive

-----------------------------------------------------------------------------
(***************************************************************************)
(* Every step, and what follows for the programs.                          *)
(***************************************************************************)
LEMMA ProgramStep ==
  ASSUME IInv, ProgramInv, [ProgramNext]_allVars, ~harmed'
  PROVE  ProgramInv'
<1>1. CASE cpu = "wild"
  <2>1. UNCHANGED allVars
    BY <1>1 DEF ProgramNext, Boot, LoadMain, Timer, Tick, Instruction, At, LoopInit, LoopCond,
                LoopInc, CallFork, StorePid, TestPid, CallExecve, InitStatus, LoadPid,
                CallWaitPid, StoreStatus, CheckStatus, CallExit
  <2>2. Promises /\ cpu' = "wild"
    BY <1>1, <2>1 DEF ProgramInv, allVars, vars
  <2>3. Promises'
    BY <2>1, <2>2
    DEF allVars, vars, programVars, Slots, Dead, Promises, WaitsSucceed, ChildrenReaped,
        MainEndsLast, RightProgram
  <2> QED
    BY <2>2, <2>3 DEF ProgramInv
<1>2. CASE cpu # "wild"
  <2>1. Survive
    BY <1>2 DEF ProgramInv
  <2>2. ASSUME cpu' # "wild" /\ Survive' PROVE ProgramInv'
    BY <2>2 DEF ProgramInv
  <2>3. CASE Boot
    BY <2>2, <2>3, BootSurvives
  <2>4. CASE Timer
    BY <2>1, <2>2, <2>4, TimerSurvives
  <2>5. CASE CallExit
    BY <2>1, <2>2, <2>5, ExitSurvives
  <2>6. CASE CallWaitPid
    BY <2>1, <2>2, <2>6, WaitPidSurvives
  <2>7. CASE CallFork /\ UNCHANGED harmed
    <3>1. CASE ForkOverflow /\ UNCHANGED programVars
      <4>1. Promises'
        BY <2>1, <2>7, <3>1, OverflowKeepsPromises DEF CallFork
      <4> QED
        BY <3>1, <4>1 DEF ProgramInv, ForkOverflow
    <3>2. CASE ~ (ForkOverflow /\ UNCHANGED programVars)
      BY <2>1, <2>2, <2>7, <3>2, ForkSurvives DEF CallFork
    <3> QED
      BY <3>1, <3>2
  <2>8. CASE LoopInit \/ LoopCond \/ LoopInc \/ StorePid \/ TestPid \/ CallExecve
             \/ InitStatus \/ LoadPid \/ StoreStatus \/ CheckStatus
    <3>1. cpu' # "wild"
      BY <1>2, <2>8, LocalInstruction DEF LocalStep, vars
    <3>2. Survive'
      BY <2>1, <2>8, MainInstruction, ForkedInstruction, StrategyInstruction, ChildInstruction
    <3> QED
      BY <2>2, <3>1, <3>2
  <2>9. CASE UNCHANGED allVars
    <3>1. UNCHANGED vars /\ UNCHANGED programVars
      BY <2>9 DEF allVars
    <3>2. cpu' = cpu /\ state' = state /\ currentTask' = currentTask /\ numTasks' = numTasks
          /\ Slots' = Slots /\ Lasting
      BY <3>1, SameLasts DEF vars, Slots
    <3>3. MainPart' /\ StrategyPart' /\ ChildPart'
      BY <2>1, <3>1, <3>2, PartsLast DEF programVars
    <3>4. Domains' /\ Alone' /\ DeadFinished'
      BY <2>1, <3>1, <3>2 DEF programVars, Survive, Domains, Alone, DeadFinished
    <3> QED
      BY <1>2, <2>2, <3>2, <3>3, <3>4 DEF Survive
  <2> QED
    BY <2>3, <2>4, <2>5, <2>6, <2>7, <2>8, <2>9 DEF ProgramNext, Instruction
<1> QED
  BY <1>1, <1>2

(***************************************************************************)
(* Ticks come anywhere, and until one has come where Survivable does not   *)
(* say the programs keep ProgramInv, in any number and with any table      *)
(* (usr_main, strategy, collatz and long_running_program,                  *)
(* kernel.cpp:261-391); after one MainEndsLast fails.                      *)
(***************************************************************************)
THEOREM ProgramInvariant == ProgramSpec => [](~harmed => ProgramInv)
<1>1. ProgramInit => (~harmed => ProgramInv)
  BY DEF ProgramInit, Init, ProgramInv, Survive, Domains, Alone, DeadFinished, MainPart,
         StrategyPart, ChildPart, Slots
<1>2. IInv /\ (~harmed => ProgramInv) /\ [ProgramNext]_allVars => (~harmed => ProgramInv)'
  <2> SUFFICES ASSUME IInv, ~harmed => ProgramInv, [ProgramNext]_allVars, ~harmed'
               PROVE  ProgramInv'
    OBVIOUS
  <2>1. ~harmed
    BY DEF ProgramNext, Boot, Timer, Instruction, allVars
  <2> QED
    BY <2>1, ProgramStep
<1> QED
  BY <1>1, <1>2, ProgramsUseScheduler, Invariance, PTL DEF ProgramSpec

LEMMA ProgramInvMeans == IInv /\ ProgramInv => Promises
BY SurviveMeans DEF ProgramInv

(***************************************************************************)
(* Until such a tick every waitpid finds the child it is for, although the *)
(* pids went through locals that parent and children share ("waitpid       *)
(* failed!", kernel.cpp:275, 321, 334).                                    *)
(***************************************************************************)
THEOREM WaitsFindChildren == ProgramSpec => []WaitsSucceed
<1>1. IInv /\ (~harmed => ProgramInv) => WaitsSucceed
  BY ProgramInvMeans DEF Promises, WaitsSucceed
<1> QED
  BY <1>1, ProgramInvariant, ProgramsUseScheduler, Invariance, PTL

(***************************************************************************)
(* Until such a tick strategy ends only after every child has started and  *)
(* ended ("wait all children processes to be terminated", kernel.cpp:312). *)
(***************************************************************************)
THEOREM StrategyReaps == ProgramSpec => []ChildrenReaped
<1>1. IInv /\ (~harmed => ProgramInv) => ChildrenReaped
  BY ProgramInvMeans DEF Promises, ChildrenReaped
<1> QED
  BY <1>1, ProgramInvariant, ProgramsUseScheduler, Invariance, PTL

(***************************************************************************)
(* Until such a tick usr_main outlives strategy ("wait strategy process to *)
(* terminate", kernel.cpp:270); main_ends_last shows one after which it    *)
(* does not.                                                               *)
(***************************************************************************)
THEOREM MainOutlivesStrategy == ProgramSpec => [](~harmed => MainEndsLast)
<1>1. IInv /\ ProgramInv => MainEndsLast
  BY ProgramInvMeans DEF Promises
<1> QED
  BY <1>1, ProgramInvariant, ProgramsUseScheduler, Invariance, PTL

(***************************************************************************)
(* Until such a tick the first NC children run collatz, the others         *)
(* long_running_program, and no child goes on into its parent's wait loop  *)
(* (kernel.cpp:296-309).                                                   *)
(***************************************************************************)
THEOREM ChildrenRunTheirs == ProgramSpec => []RightProgram
<1>1. IInv /\ (~harmed => ProgramInv) => RightProgram
  BY ProgramInvMeans DEF Promises, RightProgram
<1> QED
  BY <1>1, ProgramInvariant, ProgramsUseScheduler, Invariance, PTL

==============================================================================
