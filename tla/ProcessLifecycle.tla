-------------------------- MODULE ProcessLifecycle --------------------------
(***************************************************************************)
(* What fork, waitpid, exit and preemption promise to processes, with no   *)
(* table, no slots and no order of service: who exists, who is dead, whom  *)
(* a blocked process waits for, and who owns the processor.  TaskManager   *)
(* is shown to implement this specification.                               *)
(***************************************************************************)
CONSTANTS
  Procs,    \* the processes that can ever exist
  First,    \* the one the kernel loads, a member of Procs
  None      \* no process, not a member of Procs

VARIABLES
  status,   \* of each process
  awaits,   \* the process a waiting one waits for, None otherwise
  owner,    \* the process that has the processor, None before the first and
            \* after the last
  phase     \* "loading", "running", "halted" or "broken"

lvars == <<status, awaits, owner, phase>>

Status == {"unborn", "runnable", "waiting", "dead"}

LifecycleTypeOK ==
  /\ status \in [Procs -> Status]
  /\ awaits \in [Procs -> Procs \cup {None}]
  /\ owner \in Procs \cup {None}
  /\ phase \in {"loading", "running", "halted", "broken"}

LifecycleInit ==
  /\ status = [p \in Procs |-> "unborn"]
  /\ awaits = [p \in Procs |-> None]
  /\ owner = None
  /\ phase = "loading"

Load ==
  /\ phase = "loading"
  /\ status' = [status EXCEPT ![First] = "runnable"]
  /\ phase' = "running"
  /\ UNCHANGED <<awaits, owner>>

(***************************************************************************)
(* The processor passes on, st and aw being the statuses and waits the     *)
(* previous owner leaves behind: to a runnable process, or to a waiting    *)
(* one whose wait is over; the machine halts only when no process other    *)
(* than the previous owner is runnable.                                    *)
(***************************************************************************)
Dispatch(st, aw) ==
  \/ \E p \in Procs :
        /\ st[p] = "runnable"
        /\ owner' = p
        /\ status' = st
        /\ awaits' = aw
        /\ UNCHANGED phase
  \/ \E p, q \in Procs :
        /\ st[p] = "waiting"
        /\ aw[p] = q
        /\ st[q] = "dead"
        /\ owner' = p
        /\ status' = [r \in Procs |-> IF r = p THEN "runnable" ELSE st[r]]
        /\ awaits' = [r \in Procs |-> IF r = p THEN None ELSE aw[r]]
        /\ UNCHANGED phase
  \/ /\ \A p \in Procs : st[p] = "runnable" => p = owner
     /\ owner' = None
     /\ status' = st
     /\ awaits' = aw
     /\ phase' = "halted"

Preempt ==
  /\ phase = "running"
  /\ Dispatch(status, awaits)

Spawn(child) ==
  /\ phase = "running"
  /\ owner # None
  /\ status[child] = "unborn"
  /\ status' = [status EXCEPT ![child] = "runnable"]
  /\ UNCHANGED <<awaits, owner, phase>>

Die ==
  /\ phase = "running"
  /\ owner # None
  /\ Dispatch([status EXCEPT ![owner] = "dead"], awaits)

Await(p) ==
  /\ phase = "running"
  /\ owner # None
  /\ p # owner
  /\ status[p] # "unborn"
  /\ Dispatch([status EXCEPT ![owner] = "waiting"],
              [awaits EXCEPT ![owner] = p])

\* No promise is made once a process is spawned and none is left to spawn.
Break ==
  /\ phase = "running"
  /\ owner # None
  /\ \A p \in Procs : status[p] # "unborn"
  /\ phase' = "broken"
  /\ UNCHANGED <<status, awaits, owner>>

LifecycleNext ==
  \/ Load
  \/ Preempt
  \/ \E p \in Procs : Spawn(p) \/ Await(p)
  \/ Die
  \/ Break

LifecycleSpec == LifecycleInit /\ [][LifecycleNext]_lvars
=============================================================================
