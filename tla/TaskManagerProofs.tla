------------------------- MODULE TaskManagerProofs -------------------------
(***************************************************************************)
(* Safety of the process table and the scheduler, for every MaxTasks.      *)
(*                                                                         *)
(* TypeOK, OneRunning and WaitersHaveTarget are inductive once two facts   *)
(* about the table are added: slot s holds pid s + 1, and currentTask      *)
(* follows cpu (no task before the first tick, a slot of the table after). *)
(***************************************************************************)
EXTENDS TaskManagerRefinement, TLAPS

PidIsSlot == \A s \in DOMAIN pid : pid[s] = s + 1

CpuAgrees ==
  /\ cpu = "boot" => numTasks = 0 /\ currentTask = -1
  /\ cpu = "idle" => numTasks = 1 /\ currentTask = -1 /\ state[0] = "READY"
  /\ cpu \in {"user", "spin"} => numTasks > 0 /\ currentTask \in Slots

IInv ==
  /\ TypeOK
  /\ PidIsSlot
  /\ CpuAgrees
  /\ OneRunning
  /\ WaitersHaveTarget

-----------------------------------------------------------------------------
(***************************************************************************)
(* The states and wait targets a handler may hand to Schedule: at most the *)
(* outgoing task is RUNNING, and every waiter has a target.                *)
(***************************************************************************)
Handed(st, wp) ==
  /\ st \in [Slots -> ProcessState]
  /\ wp \in [Slots -> Pids \cup {NoPid}]
  /\ \A s \in Slots : st[s] = "RUNNING" => s = Outgoing
  /\ \A s \in Slots :
       /\ st[s] = "WAITING" <=> wp[s] # NoPid
       /\ st[s] = "WAITING" => \E t \in Slots \ {s} : pid[t] = wp[s]

LEMMA OutgoingIsSlot ==
  ASSUME IInv, cpu \in {"idle", "user"}
  PROVE  Outgoing \in Slots /\ numTasks \in Nat \ {0}
  BY MaxTasksAssumption DEF IInv, TypeOK, CpuAgrees, Outgoing, Slots

LEMMA HandedAsIs ==
  ASSUME IInv, cpu \in {"idle", "user"}
  PROVE  Handed(state, waitpid)
<1>1. DOMAIN state = Slots /\ numTasks \in Nat
  BY MaxTasksAssumption DEF IInv, TypeOK
<1>2. \A s \in Slots : state[s] = "RUNNING" => s = Outgoing
  BY <1>1 DEF IInv, CpuAgrees, OneRunning, Outgoing, Slots
<1>3. QED
  BY <1>1, <1>2 DEF IInv, TypeOK, WaitersHaveTarget, Handed

\* Slot i is one Schedule may choose, and waitpid' is what it then leaves.
Chosen(i, st, wp) ==
  \/ st[i] = "READY" /\ waitpid' = wp
  \/ st[i] = "WAITING" /\ waitpid' = [wp EXCEPT ![i] = NoPid]

(***************************************************************************)
(* Switching to slot i re-establishes the invariant.                       *)
(***************************************************************************)
LEMMA SwitchToInv ==
  ASSUME IInv, cpu \in {"idle", "user"},
         NEW st, NEW wp, Handed(st, wp),
         NEW i \in Slots,
         Chosen(i, st, wp),
         SwitchTo(i, st),
         UNCHANGED <<numTasks, pid, ppid>>
  PROVE  IInv'
<1>1. Outgoing \in Slots /\ numTasks \in Nat \ {0}
  BY OutgoingIsSlot
<1>2. DOMAIN state = Slots /\ Slots' = Slots
  BY DEF IInv, TypeOK, Slots
<1>3. st \in [Slots -> ProcessState] /\ wp \in [Slots -> Pids \cup {NoPid}]
  BY DEF Handed
<1>4. state' \in [Slots -> ProcessState] /\ DOMAIN state' = Slots
  BY <1>3 DEF SwitchTo, ProcessState
<1>5. waitpid' \in [Slots -> Pids \cup {NoPid}]
  BY <1>3 DEF Chosen
<1>6. TypeOK'
  <2>1. pid' \in [Slots -> Pids] /\ ppid' \in [Slots -> Pids \cup {NoPid}]
    BY <1>2 DEF IInv, TypeOK
  <2>2. numTasks' \in 0 .. MaxTasks /\ Slots \subseteq 0 .. MaxTasks - 1
    BY <1>1, MaxTasksAssumption DEF IInv, TypeOK, Slots
  <2>3. QED
    BY <1>2, <1>4, <1>5, <2>1, <2>2 DEF TypeOK, SwitchTo, CpuMode
<1>7. PidIsSlot'
  BY DEF IInv, PidIsSlot
<1>8. CpuAgrees'
  BY <1>1, <1>2 DEF CpuAgrees, SwitchTo
<1>9. OneRunning'
  BY <1>3, <1>4 DEF Handed, SwitchTo, OneRunning
<1>10. WaitersHaveTarget'
  <2> SUFFICES ASSUME NEW s \in Slots
               PROVE  /\ state'[s] = "WAITING" <=> waitpid'[s] # NoPid
                      /\ state'[s] = "WAITING" =>
                           \E t \in Slots \ {s} : pid'[t] = waitpid'[s]
    BY <1>4 DEF WaitersHaveTarget
  <2>1. state'[s] = "WAITING" <=> st[s] = "WAITING" /\ s # i
    BY <1>3 DEF SwitchTo
  <2>2. waitpid'[s] = IF s = i THEN NoPid ELSE wp[s]
    BY <1>3 DEF Handed, Chosen
  <2>3. QED
    BY <2>1, <2>2 DEF Handed
<1>11. QED
  BY <1>6, <1>7, <1>8, <1>9, <1>10 DEF IInv

LEMMA ScheduleInv ==
  ASSUME IInv, cpu \in {"idle", "user"},
         NEW st, NEW wp, Handed(st, wp), Schedule(st, wp)
  PROVE  IInv'
<1>0. UNCHANGED <<numTasks, pid, ppid>>
  BY DEF Schedule
<1>1. ASSUME NEW w \in Slots, WaitOver(w, st, wp), SwitchTo(w, st),
             waitpid' = [wp EXCEPT ![w] = NoPid]
      PROVE  IInv'
  <2>1. Chosen(w, st, wp)
    BY <1>1 DEF WaitOver, LastWaiter, Chosen
  <2>2. QED
    BY <1>0, <1>1, <2>1, SwitchToInv
<1>2. ASSUME NEW i \in Slots, NextReady(i, st), SwitchTo(i, st), waitpid' = wp
      PROVE  IInv'
  <2>1. Chosen(i, st, wp)
    BY <1>2 DEF NextReady, Chosen
  <2>2. QED
    BY <1>0, <1>2, <2>1, SwitchToInv
<1>3. CASE /\ state' = st
           /\ waitpid' = wp
           /\ currentTask' = Outgoing
           /\ cpu' = "spin"
  <2>1. Outgoing \in Slots /\ numTasks \in Nat \ {0}
    BY OutgoingIsSlot
  <2>2. DOMAIN state = Slots /\ Slots' = Slots /\ UNCHANGED <<numTasks, pid, ppid>>
    BY DEF IInv, TypeOK, Slots, Schedule
  <2>3. TypeOK'
    BY <1>3, <2>1, <2>2, MaxTasksAssumption
    DEF IInv, TypeOK, Handed, CpuMode, Slots
  <2>4. PidIsSlot' /\ CpuAgrees' /\ OneRunning'
    BY <1>3, <2>1, <2>2 DEF IInv, PidIsSlot, CpuAgrees, OneRunning
  <2>5. WaitersHaveTarget'
    BY <1>3, <2>2 DEF Handed, WaitersHaveTarget
  <2>6. QED
    BY <2>3, <2>4, <2>5 DEF IInv
<1>4. QED
  BY <1>1, <1>2, <1>3 DEF Schedule

-----------------------------------------------------------------------------
LEMMA InitInv == Init => IInv
  BY MaxTasksAssumption
  DEF Init, IInv, TypeOK, CpuMode, ProcessState, Pids, NoPid, Slots, PidIsSlot,
      CpuAgrees, OneRunning, WaitersHaveTarget

LEMMA LoadMainInv == IInv /\ LoadMain => IInv'
  BY MaxTasksAssumption
  DEF LoadMain, IInv, TypeOK, CpuMode, ProcessState, Pids, NoPid, Slots,
      PidIsSlot, CpuAgrees, OneRunning, WaitersHaveTarget

LEMMA TickInv == IInv /\ Tick => IInv'
  BY HandedAsIs, ScheduleInv DEF Tick

LEMMA ForkInv == IInv /\ Fork => IInv'
<1> SUFFICES ASSUME IInv, Fork PROVE IInv'
  OBVIOUS
<1> USE MaxTasksAssumption
<1>1. numTasks \in 1 .. MaxTasks - 1 /\ DOMAIN state = 0 .. numTasks - 1
  BY DEF IInv, TypeOK, CpuAgrees, Fork, Slots
<1>2. currentTask \in 0 .. numTasks - 1 /\ currentTask # numTasks
  BY <1>1 DEF IInv, CpuAgrees, Fork, Slots
<1>3. /\ pid'     = [s \in 0 .. numTasks |-> IF s = numTasks THEN numTasks + 1 ELSE pid[s]]
      /\ state'   = [s \in 0 .. numTasks |-> IF s = numTasks THEN "READY" ELSE state[s]]
      /\ waitpid' = [s \in 0 .. numTasks |-> IF s = numTasks THEN NoPid ELSE waitpid[s]]
      /\ ppid'    = [s \in 0 .. numTasks |-> IF s = numTasks THEN pid[currentTask] ELSE ppid[s]]
  BY DEF Fork, Extend
<1>4. Slots' = 0 .. numTasks /\ DOMAIN state' = 0 .. numTasks
  BY <1>1, <1>3 DEF Fork, Slots
<1>5. TypeOK'
  <2>1. pid[currentTask] \in Pids /\ numTasks + 1 \in Pids
    BY <1>1, <1>2 DEF IInv, TypeOK, Pids
  <2>2. pid' \in [0 .. numTasks -> Pids]
    BY <1>1, <1>3, <2>1 DEF IInv, TypeOK
  <2>3. ppid' \in [0 .. numTasks -> Pids \cup {NoPid}]
    BY <1>1, <1>3, <2>1 DEF IInv, TypeOK
  <2>4. waitpid' \in [0 .. numTasks -> Pids \cup {NoPid}]
    BY <1>1, <1>3 DEF IInv, TypeOK
  <2>5. state' \in [0 .. numTasks -> ProcessState]
    BY <1>1, <1>3 DEF IInv, TypeOK, ProcessState
  <2>6. QED
    <3>1. numTasks' \in 0 .. MaxTasks /\ 0 .. numTasks \subseteq 0 .. MaxTasks - 1
      BY <1>1 DEF Fork
    <3>2. currentTask' \in DOMAIN state' /\ cpu' = "user"
      BY <1>1, <1>2, <1>4 DEF Fork
    <3>3. QED
      BY <1>4, <2>2, <2>3, <2>4, <2>5, <3>1, <3>2 DEF TypeOK, CpuMode
<1>6. PidIsSlot'
  BY <1>1, <1>3 DEF IInv, TypeOK, PidIsSlot
<1>7. CpuAgrees'
  BY <1>1, <1>2, <1>4 DEF CpuAgrees, Fork
<1>8. OneRunning'
  <2> SUFFICES ASSUME NEW s \in 0 .. numTasks
               PROVE  state'[s] = "RUNNING" <=> s = currentTask
    BY <1>4 DEF OneRunning, Fork
  <2>1. CASE s = numTasks
    BY <1>2, <1>3, <2>1
  <2>2. CASE s # numTasks
    <3>1. s \in DOMAIN state /\ state'[s] = state[s]
      BY <1>1, <1>3, <2>2
    <3>2. QED
      BY <3>1 DEF IInv, OneRunning, Fork
  <2>3. QED
    BY <2>1, <2>2
<1>9. WaitersHaveTarget'
  <2> SUFFICES ASSUME NEW s \in 0 .. numTasks
               PROVE  /\ state'[s] = "WAITING" <=> waitpid'[s] # NoPid
                      /\ state'[s] = "WAITING" =>
                           \E t \in (0 .. numTasks) \ {s} : pid'[t] = waitpid'[s]
    BY <1>4 DEF WaitersHaveTarget
  <2>1. CASE s = numTasks
    BY <1>3, <2>1
  <2>2. CASE s # numTasks
    <3>1. s \in DOMAIN state /\ state'[s] = state[s] /\ waitpid'[s] = waitpid[s]
      BY <1>1, <1>3, <2>2
    <3>2. \A t \in DOMAIN state : t \in 0 .. numTasks /\ pid'[t] = pid[t]
      BY <1>1, <1>3
    <3>3. QED
      BY <3>1, <3>2 DEF IInv, WaitersHaveTarget
  <2>3. QED
    BY <2>1, <2>2
<1>10. QED
  BY <1>5, <1>6, <1>7, <1>8, <1>9 DEF IInv

LEMMA ForkOverflowInv == IInv /\ ForkOverflow => IInv'
  BY MaxTasksAssumption, TaskAddressAssumption
  DEF ForkOverflow, IInv, TypeOK, CpuMode, Slots, PidIsSlot, CpuAgrees,
      OneRunning, WaitersHaveTarget

LEMMA ExitInv == IInv /\ Exit => IInv'
<1> SUFFICES ASSUME IInv, Exit PROVE IInv'
  OBVIOUS
<1> DEFINE st == [state EXCEPT ![currentTask] = "TERMINATED"]
<1>1. Handed(state, waitpid) /\ currentTask \in Slots /\ Outgoing = currentTask
  BY HandedAsIs, OutgoingIsSlot DEF IInv, CpuAgrees, Exit, Outgoing, Slots
<1>2. state[currentTask] = "RUNNING"
  BY <1>1 DEF IInv, TypeOK, OneRunning, Exit
<1>3. Handed(st, waitpid)
  BY <1>1, <1>2 DEF Handed, ProcessState
<1>4. QED
  BY <1>3, ScheduleInv DEF Exit

LEMMA WaitPidInv == ASSUME NEW p \in Pids PROVE IInv /\ WaitPid(p) => IInv'
<1> SUFFICES ASSUME IInv, WaitPid(p) PROVE IInv'
  OBVIOUS
<1> DEFINE st == [state EXCEPT ![currentTask] = "WAITING"]
           wp == [waitpid EXCEPT ![currentTask] = p]
<1>1. Handed(state, waitpid) /\ currentTask \in Slots /\ Outgoing = currentTask
  BY HandedAsIs, OutgoingIsSlot DEF IInv, CpuAgrees, WaitPid, Outgoing, Slots
<1>2. state[currentTask] = "RUNNING"
  BY <1>1 DEF IInv, TypeOK, OneRunning, WaitPid
<1>3. p # NoPid /\ \E t \in Slots \ {currentTask} : pid[t] = p
  BY DEF WaitPid, WaitTarget, Pids, NoPid
<1>4. Handed(st, wp)
  BY <1>1, <1>2, <1>3 DEF Handed, ProcessState
<1>5. QED
  BY <1>4, ScheduleInv DEF WaitPid

LEMMA StutterInv == IInv /\ UNCHANGED vars => IInv'
  BY DEF vars, IInv, TypeOK, Slots, PidIsSlot, CpuAgrees, OneRunning,
         WaitersHaveTarget

LEMMA StepInv == IInv /\ [Next]_vars => IInv'
  BY LoadMainInv, TickInv, ForkInv, ForkOverflowInv, ExitInv, WaitPidInv,
     StutterInv DEF Next

-----------------------------------------------------------------------------
(***************************************************************************)
(* IInv holds throughout every execution, whatever MaxTasks and whatever   *)
(* the programs do.                                                        *)
(***************************************************************************)
THEOREM Invariance == Spec => []IInv
  BY InitInv, StepInv, PTL DEF Spec

(***************************************************************************)
(* The table never holds anything but what AddTask put there (TypeOK).     *)
(***************************************************************************)
THEOREM TypeCorrect == Spec => []TypeOK
<1>1. IInv => TypeOK
  BY DEF IInv
<1>2. QED
  BY <1>1, Invariance, PTL

(***************************************************************************)
(* A pid names one process for ever (UniquePids).                          *)
(***************************************************************************)
THEOREM PidsUnique == Spec => []UniquePids
<1>1. IInv => UniquePids
  <2> SUFFICES ASSUME IInv, NEW s \in DOMAIN pid, NEW t \in DOMAIN pid,
                      pid[s] = pid[t]
               PROVE  s = t
    BY DEF UniquePids
  <2>1. s \in Int /\ t \in Int
    BY MaxTasksAssumption DEF IInv, TypeOK
  <2>2. QED
    BY <2>1 DEF IInv, PidIsSlot
<1>2. QED
  BY <1>1, Invariance, PTL

(***************************************************************************)
(* While user code runs, the current task and no other is RUNNING          *)
(* (Schedule, multitasking.cpp:225-236).                                   *)
(***************************************************************************)
THEOREM TableMatchesCpu == Spec => []OneRunning
<1>1. IInv => OneRunning
  BY DEF IInv
<1>2. QED
  BY <1>1, Invariance, PTL

(***************************************************************************)
(* Every waiter waits for another task of the table, and nobody else waits *)
(* (WaitTask, multitasking.cpp:114-144).                                   *)
(***************************************************************************)
THEOREM WaitersWaitForOthers == Spec => []WaitersHaveTarget
<1>1. IInv => WaitersHaveTarget
  BY DEF IInv
<1>2. QED
  BY <1>1, Invariance, PTL

-----------------------------------------------------------------------------
(***************************************************************************)
(* What a pass through Schedule comes to: one slot gets the processor, a   *)
(* READY one or a waiter whose target is dead, and nobody else's state     *)
(* changes but for the outgoing task's; or the search never ends.          *)
(***************************************************************************)
Resumable(i, st, wp) ==
  /\ st[i] = "WAITING"
  /\ \E t \in Slots : pid[t] = wp[i] /\ st[t] = "TERMINATED"

Blocked == {"WAITING", "TERMINATED"}

LEMMA ScheduleEffect ==
  ASSUME IInv, cpu \in {"idle", "user"},
         NEW st, NEW wp, Handed(st, wp), Schedule(st, wp)
  PROVE  \/ \E i \in Slots :
              /\ cpu' = "user"
              /\ currentTask' = i
              /\ \/ st[i] = "READY" /\ waitpid' = wp
                 \/ Resumable(i, st, wp) /\ waitpid' = [wp EXCEPT ![i] = NoPid]
              /\ state' \in [Slots -> ProcessState]
              /\ state'[i] = "RUNNING"
              /\ \A s \in Slots \ {i} :
                    IF st[s] \in Blocked THEN state'[s] = st[s]
                                         ELSE state'[s] \notin Blocked
         \/ /\ cpu' = "spin"
            /\ state' = st
            /\ waitpid' = wp
            /\ \A s \in Slots : st[s] # "READY"
<1>1. st \in [Slots -> ProcessState]
  BY DEF Handed
<1>2. ASSUME NEW i \in Slots, SwitchTo(i, st)
      PROVE  /\ cpu' = "user"
             /\ currentTask' = i
             /\ state' \in [Slots -> ProcessState]
             /\ state'[i] = "RUNNING"
             /\ \A s \in Slots \ {i} :
                   IF st[s] \in Blocked THEN state'[s] = st[s]
                                        ELSE state'[s] \notin Blocked
  BY <1>1, <1>2 DEF SwitchTo, ProcessState, Blocked
<1>3. ASSUME NEW w \in Slots, WaitOver(w, st, wp)
      PROVE  Resumable(w, st, wp)
  BY <1>3 DEF WaitOver, LastWaiter, Resumable
<1>4. ASSUME NEW i \in Slots, NextReady(i, st)
      PROVE  st[i] = "READY"
  BY <1>4 DEF NextReady
<1>5. QED
  BY <1>2, <1>3, <1>4 DEF Schedule

(***************************************************************************)
(* The states and targets the three handlers pass to Schedule, and what    *)
(* they leave of the table the interrupt found.                            *)
(***************************************************************************)
LEMMA HandedByHandlers ==
  ASSUME IInv, Next, ~LoadMain, ~Fork, ~ForkOverflow
  PROVE  /\ cpu \in {"idle", "user"}
         /\ UNCHANGED <<numTasks, pid, ppid>>
         /\ \E st, wp :
              /\ Handed(st, wp)
              /\ Schedule(st, wp)
              /\ \A s \in Slots :
                    state[s] \in Blocked => st[s] = state[s] /\ wp[s] = waitpid[s]
<1>1. Handed(state, waitpid) /\ cpu \in {"idle", "user"}
  BY HandedAsIs DEF Next, Tick, Exit, WaitPid
<1>2. CASE Tick
  BY <1>1, <1>2 DEF Tick, Schedule
<1>3. ASSUME cpu = "user"
      PROVE  currentTask \in Slots /\ Outgoing = currentTask
             /\ state[currentTask] = "RUNNING"
  BY <1>3, OutgoingIsSlot DEF IInv, TypeOK, OneRunning, CpuAgrees, Outgoing, Slots
<1>4. CASE Exit
  <2> DEFINE st == [state EXCEPT ![currentTask] = "TERMINATED"]
  <2>1. Handed(st, waitpid)
    BY <1>1, <1>3, <1>4 DEF Handed, ProcessState, Exit
  <2>2. \A s \in Slots : state[s] \in Blocked => st[s] = state[s]
    BY <1>1, <1>3, <1>4 DEF Exit, Blocked, Handed
  <2>3. Schedule(st, waitpid) /\ UNCHANGED <<numTasks, pid, ppid>>
    BY <1>4 DEF Exit, Schedule
  <2>4. QED
    BY <1>1, <2>1, <2>2, <2>3
<1>5. CASE \E p \in Pids : WaitPid(p)
  <2>1. PICK p \in Pids : WaitPid(p)
    BY <1>5
  <2> DEFINE st == [state EXCEPT ![currentTask] = "WAITING"]
             wp == [waitpid EXCEPT ![currentTask] = p]
  <2>2. p # NoPid /\ \E t \in Slots \ {currentTask} : pid[t] = p
    BY <2>1 DEF WaitPid, WaitTarget, Pids, NoPid
  <2>3. Handed(st, wp)
    BY <1>1, <1>3, <2>1, <2>2 DEF Handed, ProcessState, WaitPid
  <2>4. \A s \in Slots : state[s] \in Blocked => st[s] = state[s] /\ wp[s] = waitpid[s]
    BY <1>1, <1>3, <2>1 DEF WaitPid, Blocked, Handed
  <2>5. Schedule(st, wp) /\ UNCHANGED <<numTasks, pid, ppid>>
    BY <2>1 DEF WaitPid, Schedule
  <2> HIDE DEF st, wp
  <2>6. QED
    BY <1>1, <2>3, <2>4, <2>5
<1>6. QED
  BY <1>2, <1>4, <1>5 DEF Next

LEMMA BlockedStep ==
  ASSUME IInv, [Next]_vars, NEW s \in DOMAIN state, state[s] \in Blocked
  PROVE  \/ state'[s] = state[s] /\ (cpu' = "user" => currentTask' # s \/ UNCHANGED vars)
         \/ /\ state[s] = "WAITING"
            /\ currentTask' = s
            /\ cpu' = "user"
            /\ \E t \in DOMAIN state : pid[t] = waitpid[s] /\ state'[t] = "TERMINATED"
<1>1. CASE LoadMain
  BY <1>1 DEF LoadMain, IInv, TypeOK, CpuAgrees, Slots
<1>2. CASE Fork
  <2>1. DOMAIN state = 0 .. numTasks - 1 /\ numTasks \in Nat
    BY <1>2, MaxTasksAssumption DEF Fork, IInv, TypeOK, Slots
  <2>2. state'[s] = state[s]
    BY <1>2, <2>1 DEF Fork, Extend
  <2>3. currentTask # s /\ currentTask' = currentTask
    BY <1>2, <2>1 DEF Fork, IInv, OneRunning, CpuAgrees, Slots, Blocked
  <2>4. QED
    BY <2>2, <2>3
<1>3. CASE ForkOverflow
  BY <1>3 DEF ForkOverflow
<1>4. CASE UNCHANGED vars
  BY <1>4 DEF vars
<1>5. CASE Next /\ ~LoadMain /\ ~Fork /\ ~ForkOverflow
  <2>1. /\ cpu \in {"idle", "user"}
        /\ UNCHANGED <<numTasks, pid, ppid>>
    BY <1>5, HandedByHandlers
  <2>2. PICK st, wp : /\ Handed(st, wp)
                      /\ Schedule(st, wp)
                      /\ \A r \in Slots :
                           state[r] \in Blocked => st[r] = state[r] /\ wp[r] = waitpid[r]
    BY <1>5, HandedByHandlers
  <2>3. s \in Slots /\ DOMAIN state = Slots /\ st[s] = state[s] /\ wp[s] = waitpid[s]
    BY <2>1, <2>2 DEF IInv, TypeOK
  <2>4. CASE cpu' = "spin" /\ state' = st
    BY <2>3, <2>4
  <2>5. ASSUME NEW i \in Slots, cpu' = "user", currentTask' = i,
               st[i] = "READY" \/ Resumable(i, st, wp),
               \A r \in Slots \ {i} :
                  IF st[r] \in Blocked THEN state'[r] = st[r]
                                       ELSE state'[r] \notin Blocked
        PROVE  \/ state'[s] = state[s] /\ currentTask' # s
               \/ /\ state[s] = "WAITING"
                  /\ currentTask' = s
                  /\ \E t \in Slots : pid[t] = waitpid[s] /\ state'[t] = "TERMINATED"
    <3>1. CASE s # i
      BY <2>3, <2>5, <3>1 DEF Blocked
    <3>2. CASE s = i
      <4>1. Resumable(s, st, wp)
        BY <2>3, <2>5, <3>2 DEF Blocked
      <4>2. PICK t \in Slots : pid[t] = wp[s] /\ st[t] = "TERMINATED"
        BY <4>1 DEF Resumable
      <4>3. t # i /\ state'[t] = "TERMINATED"
        BY <2>5, <3>2, <4>1, <4>2 DEF Resumable, Blocked
      <4>4. QED
        BY <2>3, <2>5, <3>2, <4>1, <4>2, <4>3 DEF Resumable
    <3>3. QED
      BY <3>1, <3>2
  <2>6. QED
    BY <2>1, <2>2, <2>3, <2>4, <2>5, ScheduleEffect
<1>6. QED
  BY <1>1, <1>2, <1>3, <1>4, <1>5

(***************************************************************************)
(* Exit is final for every table size and every program.                   *)
(***************************************************************************)
THEOREM ExitIsFinal == Spec => TerminatedIsFinal
<1>1. IInv /\ [Next]_vars =>
        [\A s \in DOMAIN state :
           state[s] = "TERMINATED" =>
             /\ state'[s] = "TERMINATED"
             /\ cpu' = "user" => currentTask' # s]_vars
  BY BlockedStep DEF Blocked
<1>2. QED
  BY <1>1, Invariance, PTL DEF Spec, TerminatedIsFinal

(***************************************************************************)
(* A wait ends only by the death of its target (WokenByTermination).       *)
(***************************************************************************)
THEOREM WaitEndsByDeath == Spec => WokenByTermination
<1>1. IInv /\ [Next]_vars =>
        [\A s \in DOMAIN state :
           state[s] = "WAITING" /\ state'[s] # "WAITING" =>
             /\ currentTask' = s
             /\ cpu' = "user"
             /\ \E t \in DOMAIN state :
                   pid[t] = waitpid[s] /\ state'[t] = "TERMINATED"]_vars
  BY BlockedStep DEF Blocked
<1>2. QED
  BY <1>1, Invariance, PTL DEF Spec, WokenByTermination

-----------------------------------------------------------------------------
(***************************************************************************)
(* TaskManager implements ProcessLifecycle: each step of the kernel is a   *)
(* step of the abstract specification or a stutter.                        *)
(***************************************************************************)
LEMMA Mapping ==
  ASSUME IInv, NEW s \in DOMAIN state
  PROVE  /\ s + 1 \in Pids /\ s + 1 - 1 = s
         /\ pid[s] = s + 1
         /\ LStatus[s + 1] = StatusOf(s)
         /\ LAwaits[s + 1] = waitpid[s]
<1>1. s \in 0 .. MaxTasks - 1
  BY DEF IInv, TypeOK
<1>2. s + 1 \in Pids /\ s + 1 - 1 = s
  BY <1>1, MaxTasksAssumption DEF Pids
<1>3. QED
  BY <1>2 DEF IInv, TypeOK, PidIsSlot, LStatus, LAwaits

LEMMA InitRefines == Init => L!LifecycleInit
  BY MaxTasksAssumption
  DEF Init, L!LifecycleInit, LStatus, LAwaits, LOwner, LPhase, NoPid

LEMMA LoadRefines == IInv /\ LoadMain => L!Load
<1> SUFFICES ASSUME IInv, LoadMain PROVE L!Load
  OBVIOUS
<1>1. numTasks = 0 /\ DOMAIN state = {} /\ DOMAIN state' = {0} /\ cpu' = "idle"
  BY DEF LoadMain, IInv, TypeOK, CpuAgrees, Slots
<1>2. state'[0] = "READY" /\ waitpid'[0] = NoPid
  BY <1>1 DEF LoadMain
<1>3. LStatus' = [LStatus EXCEPT ![1] = "runnable"]
  BY <1>1, <1>2, MaxTasksAssumption DEF LStatus, StatusOf, Pids
<1>4. LAwaits' = LAwaits
  BY <1>1, <1>2, MaxTasksAssumption DEF LAwaits, Pids
<1>5. QED
  BY <1>1, <1>3, <1>4 DEF L!Load, LoadMain, LPhase, LOwner

LEMMA ForkRefines == IInv /\ Fork => \E p \in Pids : L!Spawn(p)
<1> SUFFICES ASSUME IInv, Fork PROVE \E p \in Pids : L!Spawn(p)
  OBVIOUS
<1> USE MaxTasksAssumption
<1>1. /\ numTasks \in Nat /\ numTasks < MaxTasks
      /\ DOMAIN state = 0 .. numTasks - 1 /\ DOMAIN state' = 0 .. numTasks
      /\ currentTask \in 0 .. numTasks - 1
  BY DEF Fork, Extend, IInv, TypeOK, CpuAgrees, Slots
<1>2. \A s \in DOMAIN state : state'[s] = state[s] /\ waitpid'[s] = waitpid[s]
  BY <1>1 DEF Fork, Extend
<1>3. state'[numTasks] = "READY" /\ waitpid'[numTasks] = NoPid
  BY <1>1 DEF Fork, Extend
<1> DEFINE c == numTasks + 1
<1>4. c \in Pids /\ c - 1 = numTasks /\ numTasks \notin DOMAIN state
  BY <1>1 DEF Pids
<1>5. LStatus[c] = "unborn" /\ LAwaits[c] = NoPid
  BY <1>1, <1>4 DEF LStatus, LAwaits
<1>6. \A p \in Pids \ {c} : p - 1 \in DOMAIN state' <=> p - 1 \in DOMAIN state
  BY <1>1, <1>4 DEF Pids
<1>7. LStatus' = [LStatus EXCEPT ![c] = "runnable"]
  <2>1. ASSUME NEW p \in Pids, p # c
        PROVE  LStatus'[p] = LStatus[p]
    BY <1>2, <1>6, <2>1 DEF LStatus, StatusOf
  <2>2. LStatus'[c] = "runnable"
    BY <1>1, <1>3, <1>4 DEF LStatus, StatusOf
  <2>3. QED
    BY <2>1, <2>2 DEF LStatus
<1>8. LAwaits' = LAwaits
  BY <1>1, <1>2, <1>3, <1>4, <1>5, <1>6 DEF LAwaits
<1>9. LPhase = "running" /\ LPhase' = LPhase /\ LOwner' = LOwner /\ LOwner # NoPid
  BY <1>1 DEF Fork, LPhase, LOwner, NoPid
<1>10. QED
  BY <1>4, <1>5, <1>7, <1>8, <1>9 DEF L!Spawn

LEMMA OverflowRefines == IInv /\ ForkOverflow => L!Break
<1> SUFFICES ASSUME IInv, ForkOverflow PROVE L!Break
  OBVIOUS
<1>1. numTasks = MaxTasks /\ DOMAIN state = 0 .. MaxTasks - 1
  BY MaxTasksAssumption DEF ForkOverflow, IInv, TypeOK, Slots
<1>2. \A p \in Pids : LStatus[p] # "unborn"
  BY <1>1, MaxTasksAssumption DEF LStatus, StatusOf, Pids
<1>3. currentTask \in Nat
  BY <1>1 DEF ForkOverflow, IInv, CpuAgrees, Slots
<1>4. QED
  BY <1>2, <1>3
  DEF L!Break, ForkOverflow, LPhase, LOwner, LStatus, StatusOf, LAwaits, NoPid

-----------------------------------------------------------------------------
(***************************************************************************)
(* Schedule(st, wp) is Dispatch of the statuses and waits that st and wp   *)
(* stand for.                                                              *)
(***************************************************************************)
StatusIn(st, s) ==
  CASE st[s] = "WAITING"    -> "waiting"
    [] st[s] = "TERMINATED" -> "dead"
    [] OTHER                -> "runnable"

AbsStatus(st) ==
  [p \in Pids |-> IF p - 1 \in DOMAIN state THEN StatusIn(st, p - 1) ELSE "unborn"]

AbsAwaits(wp) ==
  [p \in Pids |-> IF p - 1 \in DOMAIN state THEN wp[p - 1] ELSE NoPid]

LEMMA ScheduleRefines ==
  ASSUME IInv, cpu \in {"idle", "user"},
         NEW st, NEW wp, Handed(st, wp), Schedule(st, wp),
         \A s \in Slots : cpu = "idle" => st[s] = "READY"
  PROVE  L!Dispatch(AbsStatus(st), AbsAwaits(wp))
<1> USE MaxTasksAssumption
<1>1. /\ numTasks \in Nat \ {0} /\ DOMAIN state = Slots /\ Slots' = Slots
      /\ IInv' /\ DOMAIN state' = Slots
      /\ UNCHANGED <<numTasks, pid, ppid>>
  BY ScheduleInv, OutgoingIsSlot DEF IInv, TypeOK, Slots, Schedule
<1>2. st \in [Slots -> ProcessState] /\ wp \in [Slots -> Pids \cup {NoPid}]
  BY DEF Handed
<1>3. \A s \in Slots : s \in 0 .. MaxTasks - 1 /\ s + 1 \in Pids /\ s + 1 - 1 = s
  BY <1>1 DEF IInv, TypeOK, Pids
<1>4. \A p \in Pids : p - 1 \in Slots => p - 1 + 1 = p
  BY DEF Pids
<1>5. LPhase = "running"
  BY DEF LPhase
<1>6. CASE /\ cpu' = "spin"
           /\ state' = st
           /\ waitpid' = wp
           /\ \A s \in Slots : st[s] # "READY"
  <2>1. LStatus' = AbsStatus(st) /\ LAwaits' = AbsAwaits(wp)
    BY <1>1, <1>6 DEF LStatus, LAwaits, AbsStatus, AbsAwaits, StatusOf, StatusIn
  <2>2. LOwner' = NoPid /\ LPhase' = "halted"
    BY <1>6 DEF LOwner, LPhase
  <2>3. ASSUME NEW p \in Pids, AbsStatus(st)[p] = "runnable"
        PROVE  p = LOwner
    <3>1. p - 1 \in Slots /\ st[p - 1] = "RUNNING"
      BY <1>1, <1>2, <1>6, <2>3 DEF AbsStatus, StatusIn, ProcessState
    <3>2. p - 1 = Outgoing
      BY <3>1 DEF Handed
    <3>3. cpu = "user" /\ currentTask \in Slots
      BY <1>6, <3>1 DEF IInv, CpuAgrees
    <3>4. QED
      BY <3>2, <3>3, <1>3, <1>4 DEF LOwner, Outgoing, Slots, Pids
  <2>4. QED
    BY <2>1, <2>2, <2>3 DEF L!Dispatch
<1>7. ASSUME NEW i \in Slots,
             cpu' = "user",
             currentTask' = i,
             \/ st[i] = "READY" /\ waitpid' = wp
             \/ Resumable(i, st, wp) /\ waitpid' = [wp EXCEPT ![i] = NoPid],
             state' \in [Slots -> ProcessState],
             state'[i] = "RUNNING",
             \A s \in Slots \ {i} :
                IF st[s] \in Blocked THEN state'[s] = st[s]
                                     ELSE state'[s] \notin Blocked
      PROVE  L!Dispatch(AbsStatus(st), AbsAwaits(wp))
  <2> DEFINE q == i + 1
  <2>1. q \in Pids /\ q - 1 = i /\ LOwner' = q /\ LPhase' = LPhase
    BY <1>3, <1>5, <1>7 DEF LOwner, LPhase
  <2>2. ASSUME NEW s \in Slots, s # i
        PROVE  StatusOf(s)' = StatusIn(st, s)
    BY <1>2, <1>7, <2>2 DEF StatusOf, StatusIn, Blocked, ProcessState
  <2>3. StatusOf(i)' = "runnable"
    BY <1>7 DEF StatusOf
  <2>4. \A p \in Pids \ {q} : p - 1 # i
    BY <1>4, <2>1 DEF Slots, Pids
  <2>5. LStatus' = [p \in Pids |-> IF p = q THEN "runnable" ELSE AbsStatus(st)[p]]
    BY <1>1, <2>1, <2>2, <2>3, <2>4 DEF LStatus, AbsStatus
  <2>6. CASE st[i] = "READY" /\ waitpid' = wp
    <3>1. AbsStatus(st)[q] = "runnable"
      BY <1>1, <2>1, <2>6 DEF AbsStatus, StatusIn
    <3>2. LStatus' = AbsStatus(st)
      BY <2>5, <3>1 DEF AbsStatus
    <3>3. LAwaits' = AbsAwaits(wp)
      BY <1>1, <2>6 DEF LAwaits, AbsAwaits
    <3>4. QED
      BY <2>1, <3>1, <3>2, <3>3 DEF L!Dispatch
  <2>7. CASE Resumable(i, st, wp) /\ waitpid' = [wp EXCEPT ![i] = NoPid]
    <3>1. PICK t \in Slots : pid[t] = wp[i] /\ st[t] = "TERMINATED"
      BY <2>7 DEF Resumable
    <3>2. pid[t] = t + 1
      BY <1>1 DEF IInv, TypeOK, PidIsSlot
    <3>3. AbsStatus(st)[t + 1] = "dead" /\ t + 1 \in Pids
      BY <1>1, <1>3, <3>1 DEF AbsStatus, StatusIn
    <3>4. AbsStatus(st)[q] = "waiting" /\ AbsAwaits(wp)[q] = t + 1
      BY <1>1, <2>1, <2>7, <3>1, <3>2 DEF AbsStatus, AbsAwaits, StatusIn, Resumable
    <3>5. LAwaits' = [p \in Pids |-> IF p = q THEN NoPid ELSE AbsAwaits(wp)[p]]
      BY <1>1, <1>2, <2>1, <2>4, <2>7 DEF LAwaits, AbsAwaits
    <3>6. QED
      BY <2>1, <2>5, <3>3, <3>4, <3>5 DEF L!Dispatch
  <2>8. QED
    BY <1>7, <2>6, <2>7
<1>8. QED
  BY <1>6, <1>7, ScheduleEffect

LEMMA TickRefines == IInv /\ Tick => L!Preempt
<1> SUFFICES ASSUME IInv, Tick PROVE L!Preempt
  OBVIOUS
<1>1. Handed(state, waitpid) /\ cpu \in {"idle", "user"} /\ Schedule(state, waitpid)
  BY HandedAsIs DEF Tick
<1>2. \A s \in Slots : cpu = "idle" => state[s] = "READY"
  BY DEF IInv, CpuAgrees, Slots
<1>3. AbsStatus(state) = LStatus /\ AbsAwaits(waitpid) = LAwaits
  BY DEF AbsStatus, AbsAwaits, LStatus, LAwaits, StatusIn, StatusOf
<1>4. L!Dispatch(LStatus, LAwaits)
  BY <1>1, <1>2, <1>3, ScheduleRefines
<1>5. QED
  BY <1>1, <1>4 DEF L!Preempt, LPhase

\* The running task as the abstract specification sees it.
LEMMA OwnerIsCurrent ==
  ASSUME IInv, cpu = "user"
  PROVE  /\ Handed(state, waitpid)
         /\ DOMAIN state = Slots
         /\ currentTask \in Slots /\ Outgoing = currentTask
         /\ state[currentTask] = "RUNNING"
         /\ LOwner = currentTask + 1 /\ LOwner - 1 = currentTask
         /\ LOwner \in Pids /\ LOwner # NoPid
         /\ LOwner = pid[currentTask]
         /\ \A p \in Pids : p # LOwner => p - 1 # currentTask
         /\ LPhase = "running"
<1>1. Handed(state, waitpid) /\ DOMAIN state = Slots /\ currentTask \in Slots
  BY HandedAsIs DEF IInv, TypeOK, CpuAgrees
<1>2. Outgoing = currentTask /\ state[currentTask] = "RUNNING"
  BY <1>1 DEF Outgoing, Slots, IInv, OneRunning
<1>3. LOwner = currentTask + 1 /\ LOwner \in Pids /\ LOwner = pid[currentTask]
  BY <1>1, Mapping DEF LOwner
<1>4. currentTask \in Int
  BY <1>1, MaxTasksAssumption DEF Slots, IInv, TypeOK
<1>5. \A p \in Pids : p # LOwner => p - 1 # currentTask
  BY <1>3, <1>4 DEF Pids
<1>6. LOwner - 1 = currentTask /\ LOwner # NoPid
  BY <1>3, <1>4 DEF Pids, NoPid
<1>7. QED
  BY <1>1, <1>2, <1>3, <1>5, <1>6 DEF LPhase

LEMMA ExitRefines == IInv /\ Exit => L!Die
<1> SUFFICES ASSUME IInv, Exit PROVE L!Die
  OBVIOUS
<1> DEFINE st == [state EXCEPT ![currentTask] = "TERMINATED"]
<1>1. cpu = "user" /\ Schedule(st, waitpid)
  BY DEF Exit
<1>2. Handed(st, waitpid)
  BY <1>1, OwnerIsCurrent DEF Handed, ProcessState
<1>3. AbsStatus(st) = [LStatus EXCEPT ![LOwner] = "dead"]
  <2>1. ASSUME NEW p \in Pids, p # LOwner
        PROVE  AbsStatus(st)[p] = LStatus[p]
    BY <1>1, <2>1, OwnerIsCurrent DEF AbsStatus, LStatus, StatusIn, StatusOf
  <2>2. AbsStatus(st)[LOwner] = "dead"
    <3>1. LOwner - 1 = currentTask
      BY <1>1, OwnerIsCurrent
    <3>2. QED
      BY <1>1, <3>1, OwnerIsCurrent DEF AbsStatus, StatusIn
  <2>3. QED
    BY <2>1, <2>2 DEF AbsStatus, LStatus
<1>4. AbsAwaits(waitpid) = LAwaits
  BY DEF AbsAwaits, LAwaits
<1>5. L!Dispatch(AbsStatus(st), AbsAwaits(waitpid))
  <2> HIDE DEF st
  <2>1. QED
    BY <1>1, <1>2, ScheduleRefines
<1>6. QED
  BY <1>1, <1>3, <1>4, <1>5, OwnerIsCurrent DEF L!Die

LEMMA WaitPidRefines ==
  ASSUME NEW p \in Pids PROVE IInv /\ WaitPid(p) => L!Await(p)
<1> SUFFICES ASSUME IInv, WaitPid(p) PROVE L!Await(p)
  OBVIOUS
<1> DEFINE st == [state EXCEPT ![currentTask] = "WAITING"]
           wp == [waitpid EXCEPT ![currentTask] = p]
<1>1. cpu = "user" /\ Schedule(st, wp) /\ p # pid[currentTask]
  BY DEF WaitPid, WaitTarget
<1>2. PICK t \in Slots : pid[t] = p
  BY DEF WaitPid, WaitTarget
<1>3. p # NoPid /\ t # currentTask
  BY <1>1, <1>2 DEF Pids, NoPid
<1>4. Handed(st, wp)
  BY <1>1, <1>2, <1>3, OwnerIsCurrent DEF Handed, ProcessState
<1>5. LOwner - 1 = currentTask
  BY <1>1, OwnerIsCurrent
<1>6. AbsStatus(st) = [LStatus EXCEPT ![LOwner] = "waiting"]
  <2>1. ASSUME NEW r \in Pids, r # LOwner
        PROVE  AbsStatus(st)[r] = LStatus[r]
    BY <1>1, <2>1, OwnerIsCurrent DEF AbsStatus, LStatus, StatusIn, StatusOf
  <2>2. AbsStatus(st)[LOwner] = "waiting"
    BY <1>1, <1>5, OwnerIsCurrent DEF AbsStatus, StatusIn
  <2>3. QED
    BY <2>1, <2>2 DEF AbsStatus, LStatus
<1>7. AbsAwaits(wp) = [LAwaits EXCEPT ![LOwner] = p]
  <2>1. ASSUME NEW r \in Pids, r # LOwner
        PROVE  AbsAwaits(wp)[r] = LAwaits[r]
    BY <1>1, <2>1, OwnerIsCurrent DEF AbsAwaits, LAwaits
  <2>2. AbsAwaits(wp)[LOwner] = p
    BY <1>1, <1>5, OwnerIsCurrent DEF AbsAwaits, Handed
  <2>3. QED
    BY <2>1, <2>2 DEF AbsAwaits, LAwaits
<1>8. LStatus[p] # "unborn"
  <2>1. p = t + 1 /\ LStatus[t + 1] = StatusOf(t)
    BY <1>1, <1>2, Mapping, OwnerIsCurrent
  <2>2. QED
    BY <2>1 DEF StatusOf
<1>9. L!Dispatch(AbsStatus(st), AbsAwaits(wp))
  <2> HIDE DEF st, wp
  <2>1. QED
    BY <1>1, <1>4, ScheduleRefines
<1>10. QED
  BY <1>1, <1>6, <1>7, <1>8, <1>9, OwnerIsCurrent DEF L!Await

LEMMA StepRefines == IInv /\ [Next]_vars => [L!LifecycleNext]_(L!lvars)
<1>1. UNCHANGED vars => UNCHANGED L!lvars
  BY DEF vars, L!lvars, LStatus, StatusOf, LAwaits, LOwner, LPhase
<1>2. QED
  BY <1>1, LoadRefines, TickRefines, ForkRefines, OverflowRefines, ExitRefines,
     WaitPidRefines DEF Next, L!LifecycleNext

(***************************************************************************)
(* The scheduler implements the abstract life cycle of processes: only     *)
(* processes that can run get the processor, only death ends a wait, the   *)
(* dead stay dead, and the machine stops only when no process but the      *)
(* outgoing one is runnable.                                               *)
(***************************************************************************)
THEOREM Refinement == Spec => ImplementsLifecycle
  BY InitRefines, StepRefines, Invariance, PTL
  DEF Spec, ImplementsLifecycle, L!LifecycleSpec
=============================================================================
