------------------------------ MODULE Syscall ------------------------------
(***************************************************************************)
(* System calls and the audit log (src/kernel/src/main.rs:345-560,         *)
(* audit.rs), composed with the turns that RoundRobin gives to tasks.      *)
(*                                                                         *)
(* kshell runs commands: it spawns ring-3 programs or kernel threads,      *)
(* waits for them a bounded number of yields, and reaps them; or it runs   *)
(* audittest.  Every ring-3 program enters the kernel through one saved    *)
(* stack pointer and one kernel stack, with interrupts on, so the timer    *)
(* may switch between any two steps.  Everything that decides about a      *)
(* permission writes to one log behind a spin lock.                        *)
(***************************************************************************)
EXTENDS RoundRobin, FiniteSets, SequencesExt

CONSTANTS
    Commands,   \* what kshell may start: a sequence of programs per command
    Audittest,  \* the audited calls that audittest makes
    Expected,   \* the events that it wants to find afterwards
    MaxWaits,   \* yields before kshell reaps (10 in the code)
    LogCap,     \* LOG_CAPACITY (256 in the code)
    Bytes       \* length of what a program writes

(* No command starts more than one ring-3 program (main.rs:767-1451), and a *)
(* program's last call is its exit.  audittest looks for events of calls   *)
(* that it has made itself (main.rs:700-707).                              *)
Calls    == [call : STRING, ok : BOOLEAN]
Programs == [calls : Seq(Calls), caps : SUBSET STRING, user : BOOLEAN]

ASSUME SyscallAssumption ==
    /\ \A c \in Commands :
          /\ c \in Seq(Programs) /\ c # << >>
          /\ \A i, j \in 1 .. Len(c) : c[i].user /\ c[j].user => i = j
          /\ \A i \in 1 .. Len(c) : LET s == c[i].calls IN
                s # << >> /\ s[Len(s)].call = "exit"
    /\ Audittest \in Seq(Calls)
    /\ Expected \subseteq { [by |-> Shell, call |-> Audittest[i].call, ok |-> Audittest[i].ok]
                             : i \in 1 .. Len(Audittest) }
    /\ LogCap \in Nat \ {0} /\ Bytes \in Nat \ {0} /\ MaxWaits \in Nat

VARIABLES
    shell,      \* what kshell is doing
    task,       \* per task: place in its call, calls to come, capabilities
    saved,      \* SAVED_USER_RSP: whose stack pointer; 0 before the first call
    frame,      \* whose registers lie on top of SYSCALL_KSTACK
    log, lock,  \* the audit log, and the task that holds its mutex
    told, sent  \* histories: decisions per task, bytes on the port per task

kernelVars == <<vars, shell, task, saved, frame, log, lock, told, sent>>

Idle == [cmd |-> "none", rest |-> << >>, pids |-> {}, tries |-> 0, before |-> 0,
         verdict |-> "none"]

(* A program: its calls in order, its capability mask, its ring.           *)
Started(prog) ==
    [at |-> IF prog.user THEN "new" ELSE "run", todo |-> prog.calls,
     caps |-> prog.caps, user |-> prog.user, ok |-> FALSE, left |-> 0]

KernelInit ==
    /\ Init
    /\ shell = Idle
    /\ task = [p \in Pid |-> Started([calls |-> << >>, caps |-> {}, user |-> FALSE])]
    /\ saved = 0 /\ frame = 0
    /\ log = << >> /\ lock = 0
    /\ told = [p \in Pid |-> << >>] /\ sent = [p \in Pid |-> 0]

OnCpu(p) == current = p /\ shell.cmd # "panic"
At(p, places) == OnCpu(p) /\ task[p].at \in places
Call(p) == Head(task[p].todo)
InCall(p) == task[p].user /\ task[p].at \notin {"new", "run", "gone"}

-----------------------------------------------------------------------------
(* kshell (shell_cmd).                                                     *)

Shelling(cmd) == OnCpu(Shell) /\ shell.cmd = cmd

Begin(c) ==
    /\ Shelling("none") /\ nextPid + Len(c) - 1 <= MaxPid
    /\ shell' = [Idle EXCEPT !.cmd = "spawn", !.rest = c]
    /\ UNCHANGED <<vars, task, saved, frame, log, lock, told, sent>>

(* spawn_program and spawn, one after the other.                           *)
SpawnNext ==
    /\ Shelling("spawn") /\ shell.rest # << >>
    /\ Create
    /\ task' = [task EXCEPT ![nextPid] = Started(Head(shell.rest))]
    /\ shell' = [shell EXCEPT !.rest = Tail(@), !.pids = @ \cup {nextPid},
                              !.cmd = IF Len(shell.rest) = 1 THEN "wait" ELSE @]
    /\ UNCHANGED <<saved, frame, log, lock, told, sent>>

AllZombies == \A p \in shell.pids : state[p] = "Zombie"

WaitAgain ==
    /\ Shelling("wait") /\ ~AllZombies /\ shell.tries < MaxWaits
    /\ IF queue = << >> THEN UNCHANGED vars ELSE Switch
    /\ shell' = [shell EXCEPT !.tries = @ + 1]
    /\ UNCHANGED <<task, saved, frame, log, lock, told, sent>>

(* reap() of a Zombie; the command ends with the last one.                 *)
ReapOne(p) ==
    /\ Shelling("wait") /\ p \in shell.pids /\ state[p] = "Zombie"
    /\ AllZombies \/ shell.tries = MaxWaits
    /\ Reap(p)
    /\ shell' = IF shell.pids = {p} THEN Idle ELSE [shell EXCEPT !.pids = @ \ {p}]
    /\ UNCHANGED <<task, saved, frame, log, lock, told, sent>>

\* mutant: reap does nothing for a task that is still alive
ReapLive_Skips(p) ==
    /\ Shelling("wait") /\ p \in shell.pids /\ state[p] # "Zombie"
    /\ shell.tries = MaxWaits
    /\ shell' = IF shell.pids = {p} THEN Idle ELSE [shell EXCEPT !.pids = @ \ {p}]
    /\ UNCHANGED <<vars, task, saved, frame, log, lock, told, sent>>

(* reap() of a task that has not exited within the wait panics.            *)
ReapLive(p) ==
    /\ Shelling("wait") /\ p \in shell.pids /\ state[p] # "Zombie"
    /\ shell.tries = MaxWaits
    /\ shell' = [shell EXCEPT !.cmd = "panic"]
    /\ UNCHANGED <<vars, task, saved, frame, log, lock, told, sent>>

(* audittest: count, audited calls, count, and a look at the newest.       *)
BeginAudittest ==
    /\ Shelling("none")
    /\ shell' = [Idle EXCEPT !.cmd = "audittest", !.before = Len(log)]
    /\ task' = [task EXCEPT ![Shell].todo = Audittest]
    /\ UNCHANGED <<vars, saved, frame, log, lock, told, sent>>

Newest(n) == SubSeq(log, Len(log) - n + 1, Len(log))

EndAudittest ==
    /\ Shelling("audittest") /\ task[Shell].at = "run" /\ task[Shell].todo = << >>
    /\ shell' = [Idle EXCEPT !.verdict =
                   IF Expected \subseteq ToSet(Newest(Len(log) - shell.before))
                   THEN "PASS" ELSE "FAIL"]
    /\ UNCHANGED <<vars, task, saved, frame, log, lock, told, sent>>

-----------------------------------------------------------------------------
(* A task's steps.                                                         *)

Goes(p, place) == task' = [task EXCEPT ![p].at = place]

Finished(p) == task' = [task EXCEPT ![p].at = "run", ![p].todo = Tail(@)]

Decides(p, ok) ==
    /\ task' = [task EXCEPT ![p].at = "log", ![p].ok = ok]
    /\ told' = IF p = Shell THEN told
               ELSE [told EXCEPT ![p] = Append(@, [by |-> p, call |-> Call(p).call, ok |-> ok])]

(* isolated_trampoline and jump_to_userspace.                              *)
Trampoline(p) ==
    /\ At(p, {"new"}) /\ Goes(p, "run")
    /\ UNCHANGED <<vars, shell, saved, frame, log, lock, told, sent>>

(* The first instructions of syscall_handler and its dispatch: the user    *)
(* stack pointer goes into the static, registers onto the one stack.       *)
Syscall(p) ==
    /\ At(p, {"run"}) /\ task[p].user
    /\ saved' = p
    /\ frame' = IF Call(p).call = "other" THEN frame ELSE p
    /\ Goes(p, CASE Call(p).call \in {"write", "draw"} -> "check"
                 [] Call(p).call = "exit" -> "exit"
                 [] OTHER -> "sysret")
    /\ UNCHANGED <<vars, shell, log, lock, told, sent>>

(* A kernel thread's call of the VFS or of IPC, which decide themselves.   *)
KernelCall(p) ==
    /\ At(p, {"run"}) /\ ~task[p].user /\ task[p].todo # << >>
    /\ IF Call(p).call = "exit"
       THEN Goes(p, "exit") /\ UNCHANGED told
       ELSE Decides(p, Call(p).ok)
    /\ UNCHANGED <<vars, shell, saved, frame, log, lock, sent>>

\* mutant: a denial returns without an event
Check_Silent(p) ==
    /\ At(p, {"check"})
    /\ told' = [told EXCEPT ![p] = Append(@,
                   [by |-> p, call |-> Call(p).call, ok |-> Call(p).call \in task[p].caps])]
    /\ task' = [task EXCEPT ![p].ok = TRUE,
                            ![p].at = IF Call(p).call \in task[p].caps THEN "log" ELSE "sysret"]
    /\ UNCHANGED <<vars, shell, saved, frame, log, lock, sent>>

(* checked_sys_write, checked_sys_draw: the capability of the current task *)
(* decides, and the outcome is logged before anything else is done.        *)
Check(p) ==
    /\ At(p, {"check"})
    /\ Decides(p, Call(p).call \in task[current].caps)
    /\ UNCHANGED <<vars, shell, saved, frame, log, lock, sent>>

\* mutant: a full log is waited for
LogLock_Waits(p) ==
    /\ At(p, {"log"}) /\ lock = 0 /\ Len(log) < LogCap
    /\ lock' = p /\ Goes(p, "push")
    /\ UNCHANGED <<vars, shell, saved, frame, log, told, sent>>

(* audit_log: the spin lock, then the ring.                                *)
LogLock(p) ==
    /\ At(p, {"log"}) /\ lock = 0
    /\ lock' = p /\ Goes(p, "push")
    /\ UNCHANGED <<vars, shell, saved, frame, log, told, sent>>

Kept(events) == IF Len(events) >= LogCap THEN Tail(events) ELSE events

\* mutant: a denied write goes on all the same
LogPush_Acts(p) ==
    /\ At(p, {"push"})
    /\ log' = Append(Kept(log), [by |-> p, call |-> Call(p).call, ok |-> task[p].ok])
    /\ lock' = 0
    /\ IF task[p].user
       THEN task' = [task EXCEPT ![p].at = "act",
                                 ![p].left = IF Call(p).call = "write" THEN Bytes ELSE 0]
       ELSE Finished(p)
    /\ UNCHANGED <<vars, shell, saved, frame, told, sent>>

LogPush(p) ==
    /\ At(p, {"push"})
    /\ log' = Append(Kept(log), [by |-> p, call |-> Call(p).call, ok |-> task[p].ok])
    /\ lock' = 0
    /\ IF task[p].user
       THEN task' = [task EXCEPT ![p].at = IF task[p].ok THEN "act" ELSE "sysret",
                                 ![p].left = IF Call(p).call = "write" THEN Bytes ELSE 0]
       ELSE Finished(p)
    /\ UNCHANGED <<vars, shell, saved, frame, told, sent>>

(* serial_write_bytes, a byte at a time; a rectangle in one go.            *)
Act(p) ==
    /\ At(p, {"act"})
    /\ IF task[p].left > 0
       THEN /\ sent' = [sent EXCEPT ![p] = @ + 1]
            /\ task' = [task EXCEPT ![p].left = @ - 1,
                                    ![p].at = IF task[p].left = 1 THEN "sysret" ELSE @]
       ELSE Goes(p, "sysret") /\ UNCHANGED sent
    /\ UNCHANGED <<vars, shell, saved, frame, log, lock, told>>

(* pop, the saved stack pointer, sysretq: back to whoever is stored there. *)
Sysret(p) ==
    /\ At(p, {"sysret"})
    /\ IF saved = p /\ (Call(p).call = "other" \/ frame = p)
       THEN Finished(p) ELSE Goes(p, "wild")
    /\ UNCHANGED <<vars, shell, saved, frame, log, lock, told, sent>>

(* sys_exit_handler, or a thread's own exit_current.                       *)
ExitCurrent(p) ==
    /\ At(p, {"exit"})
    /\ Exit /\ Goes(p, "gone")
    /\ UNCHANGED <<shell, saved, frame, log, lock, told, sent>>

TaskStep(p) ==
    \/ Trampoline(p) \/ Syscall(p) \/ KernelCall(p) \/ Check(p) \/ LogLock(p)
    \/ LogPush(p) \/ Act(p) \/ Sysret(p) \/ ExitCurrent(p)

(* irq0_timer, and run() at the start.                                     *)
Tick ==
    /\ shell.cmd # "panic"
    /\ Switch
    /\ UNCHANGED <<shell, task, saved, frame, log, lock, told, sent>>

KernelNext ==
    \/ \E c \in Commands : Begin(c)
    \/ SpawnNext \/ WaitAgain \/ BeginAudittest \/ EndAudittest
    \/ \E p \in Pid : ReapOne(p) \/ ReapLive(p) \/ TaskStep(p)
    \/ Tick

(* The timer goes on, and its period is much longer than a step, so a task *)
(* that gets the CPU again and again gets ahead.                           *)
KernelSpec ==
    /\ KernelInit /\ [][KernelNext]_kernelVars
    /\ WF_kernelVars(Tick) /\ \A p \in Pid : SF_kernelVars(TaskStep(p))

-----------------------------------------------------------------------------
(* Properties.                                                             *)

(* "Every push/call below must happen on a real kernel stack" (main.rs:    *)
(* 400-406), which is one for all: while a program is inside a call, the   *)
(* saved pointer and the stack's top are its own.  They are because kshell *)
(* reaps the program of a command, or panics, before it starts another.    *)
CallOwnsStack == \A p \in Pid : InCall(p) => saved = p /\
                   (Call(p).call # "other" => frame = p)

(* "Every one of those calls audit_log() once, on both the allow and the   *)
(* deny path" (audit.rs:11-15): of each task the log holds the latest      *)
(* decisions, all of them until it is full.  audittest passes only when    *)
(* the log has what it expects, and fails only when the log has been full: *)
(* the count it subtracts then stands still.                               *)
EventsOf(p, events) ==
    LET kept[i \in 0 .. Len(events)] ==
          IF i = 0 THEN << >>
          ELSE IF events[i].by = p THEN Append(kept[i - 1], events[i]) ELSE kept[i - 1]
    IN  kept[Len(events)]
Mine(p) == EventsOf(p, log)
Due(p)  == IF task[p].at \in {"log", "push"} THEN Front(told[p]) ELSE told[p]
AuditTells ==
    /\ \A p \in Pid \ {Shell} :
          /\ IsSuffix(Mine(p), Due(p))
          /\ Len(log) < LogCap => Mine(p) = Due(p)
    /\ shell.verdict = "PASS" => Expected \subseteq ToSet(log)
    /\ shell.verdict = "FAIL" => Len(log) = LogCap

(* checked_sys_write (main.rs:386-394): a program has no byte on the port  *)
(* that no write of its own allows, whose decision went to the log first.  *)
Writes(events) == Cardinality({i \in DOMAIN events : events[i].call = "write" /\ events[i].ok})
BytesAllowed   == \A p \in Pid \ {Shell} : sent[p] <= Bytes * Writes(Due(p))

(* Every system call returns or exits, however often the timer comes in    *)
(* and whoever holds the log: audit_log is "never block/panic on a full    *)
(* log" (audit.rs:54).  Unless the kernel has panicked.                    *)
CallsReturn == \A p \in Pid : InCall(p) ~> (~InCall(p) \/ shell.cmd = "panic")
=============================================================================
