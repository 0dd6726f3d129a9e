----------------------------- MODULE RoundRobin -----------------------------
(***************************************************************************)
(* What the scheduler of the kernel promises (src/kernel/src/scheduler/    *)
(* mod.rs): tasks of one priority take turns on one CPU, in the order in   *)
(* which they became runnable.  Each operation is one step here; Scheduler *)
(* has the locks, the saved contexts and the timer between its parts.      *)
(***************************************************************************)
EXTENDS Integers, Sequences

CONSTANT MaxPid     \* a bound: tasks ever created, kshell included

ASSUME RoundRobinAssumption == MaxPid \in Nat \ {0}

Pid   == 1 .. MaxPid
Shell == 1          \* kshell, which never exits
Boot  == 0          \* the thread that calls run(), "no task yet"

VARIABLES
    state,      \* the task's State; "none" where there is no Tcb
    queue,      \* the run queue
    current,    \* the task that has the CPU
    nextPid,
    halted      \* exit_current found nothing to run

vars == <<state, queue, current, nextPid, halted>>

Init ==
    /\ state = [p \in Pid |-> IF p = Shell THEN "Runnable" ELSE "none"]
    /\ queue = <<Shell>>
    /\ current = Boot /\ nextPid = Shell + 1
    /\ halted = FALSE

(* spawn(): a new task waits at the end of the queue.                       *)
Create ==
    /\ ~halted /\ nextPid \in Pid
    /\ state' = [state EXCEPT ![nextPid] = "Runnable"]
    /\ queue' = Append(queue, nextPid)
    /\ nextPid' = nextPid + 1
    /\ UNCHANGED <<current, halted>>

\* mutant: the outgoing task is forgotten
Switch_Drops ==
    /\ ~halted /\ queue # << >>
    /\ current' = Head(queue) /\ queue' = Tail(queue)
    /\ state' = [p \in Pid |-> IF p = Head(queue) THEN "Running"
                               ELSE IF p = current THEN "Runnable" ELSE state[p]]
    /\ UNCHANGED <<nextPid, halted>>

(* run(), yield_now() or a timer tick: the head of the queue gets the CPU   *)
(* and the task that had it goes to the end.                                *)
Switch ==
    /\ ~halted /\ queue # << >>
    /\ current' = Head(queue)
    /\ IF current = Boot
       THEN /\ queue' = Tail(queue)
            /\ state' = [state EXCEPT ![Head(queue)] = "Running"]
       ELSE /\ queue' = Append(Tail(queue), current)
            /\ state' = [state EXCEPT ![current] = "Runnable",
                                      ![Head(queue)] = "Running"]
    /\ UNCHANGED <<nextPid, halted>>

\* mutant: the exiting task is queued again
Exit_Requeues ==
    /\ ~halted /\ current \notin {Boot, Shell} /\ queue # << >>
    /\ state' = [state EXCEPT ![current] = "Zombie", ![Head(queue)] = "Running"]
    /\ queue' = Append(Tail(queue), current)
    /\ current' = Head(queue)
    /\ UNCHANGED <<nextPid, halted>>

(* exit_current(): the task is a Zombie and the head of the queue goes on.  *)
Exit ==
    /\ ~halted /\ current \notin {Boot, Shell}
    /\ IF queue = << >>
       THEN /\ state' = [state EXCEPT ![current] = "Zombie"]
            /\ halted' = TRUE
            /\ UNCHANGED <<queue, current>>
       ELSE /\ state' = [state EXCEPT ![current] = "Zombie",
                                      ![Head(queue)] = "Running"]
            /\ queue' = Tail(queue)
            /\ current' = Head(queue)
            /\ UNCHANGED halted
    /\ UNCHANGED nextPid

(* reap(): the slot of a Zombie is emptied.                                 *)
Reap(p) ==
    /\ ~halted /\ state[p] = "Zombie"
    /\ state' = [state EXCEPT ![p] = "none"]
    /\ UNCHANGED <<queue, current, nextPid, halted>>

Next == Create \/ Switch \/ Exit \/ \E p \in Pid : Reap(p)

Spec == Init /\ [][Next]_vars
-----------------------------------------------------------------------------
(* Properties.                                                              *)

TypeOK ==
    /\ state \in [Pid -> {"none", "Runnable", "Running", "Zombie"}]
    /\ queue \in Seq(Pid)
    /\ current \in 0 .. MaxPid /\ nextPid \in 2 .. MaxPid + 1
    /\ halted \in BOOLEAN

(* A task waits in the queue, once, exactly while it is Runnable: none is   *)
(* lost, none is queued twice, no Zombie comes back (mod.rs:301-336, 532).  *)
QueueExact ==
    /\ \A p \in Pid : state[p] = "Runnable" <=>
                         \E i \in 1 .. Len(queue) : queue[i] = p
    /\ \A i, j \in 1 .. Len(queue) : queue[i] = queue[j] => i = j

(* The task that has the CPU, and no other, is Running (mod.rs:301-350).    *)
OneRunning == \A p \in Pid : state[p] = "Running" <=> p = current

(* mod.rs:567-573: "kshell being spawned at boot means this should be       *)
(* unreachable in practice", of exit_current() with nothing left to run.    *)
NeverHalts == ~halted
=============================================================================
