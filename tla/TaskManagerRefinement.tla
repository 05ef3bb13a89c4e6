----------------------- MODULE TaskManagerRefinement -----------------------
(***************************************************************************)
(* TaskManager implements ProcessLifecycle: slot p - 1 is process p.       *)
(***************************************************************************)
EXTENDS TaskManager

StatusOf(s) ==
  CASE state[s] = "WAITING"    -> "waiting"
    [] state[s] = "TERMINATED" -> "dead"
    [] OTHER                   -> "runnable"

LStatus ==
  [p \in Pids |-> IF p - 1 \in DOMAIN state THEN StatusOf(p - 1) ELSE "unborn"]

LAwaits ==
  [p \in Pids |-> IF p - 1 \in DOMAIN state THEN waitpid[p - 1] ELSE NoPid]

LOwner == IF cpu \in {"user", "wild"} THEN currentTask + 1 ELSE NoPid

LPhase == CASE cpu = "boot" -> "loading"
            [] cpu = "spin" -> "halted"
            [] cpu = "wild" -> "broken"
            [] OTHER        -> "running"

L == INSTANCE ProcessLifecycle WITH
       Procs <- Pids, First <- 1, None <- NoPid,
       status <- LStatus, awaits <- LAwaits, owner <- LOwner, phase <- LPhase

(***************************************************************************)
(* Every behaviour of the scheduler is a behaviour of ProcessLifecycle:    *)
(* the processor goes only to a process that can run, a wait ends only     *)
(* with the death of its target, a dead process stays dead, and the        *)
(* machine stops only when no process besides the outgoing one can run.    *)
(***************************************************************************)
ImplementsLifecycle == L!LifecycleSpec
=============================================================================
