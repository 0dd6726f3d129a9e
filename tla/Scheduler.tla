----------------------------- MODULE Scheduler -----------------------------
(***************************************************************************)
(* The kernel scheduler (src/kernel/src/scheduler/mod.rs) on its single    *)
(* CPU, one step per instruction that other code can get in front of, with *)
(* the timer interrupt that may arrive between any two of them             *)
(* (src/kernel/src/drivers/idt.rs) and the shell commands that spawn, wait *)
(* for and reap tasks (src/kernel/src/main.rs).                            *)
(*                                                                         *)
(* A thread is a stack of activations.  The one at the bottom is the       *)
(* task's own code, which may be inside yield_now, exit_current, spawn or  *)
(* reap; the timer pushes one more, its call of try_preempt.  A saved      *)
(* context is a place in one thread's stack.  It is stale once that thread *)
(* has been resumed at or below that place: what it points to is gone.     *)
(*                                                                         *)
(* Every task has the default priority, so the run queue is one FIFO.      *)
(***************************************************************************)
EXTENDS Integers, Sequences, FiniteSets

CONSTANTS
    MaxPid,         \* tasks ever created, kshell included
    Wait,           \* yields a shell command spends waiting for a task
    Kinds,          \* what the shell spawns: "plain", "isolated"
    TickInSwitch    \* may the timer fire inside yield_now / exit_current?

ASSUME SchedulerAssumption ==
    /\ MaxPid \in Nat \ {0}
    /\ Wait \in Nat
    /\ Kinds \subseteq {"plain", "isolated"}
    /\ TickInSwitch \in BOOLEAN

Pid   == 1 .. MaxPid
Shell == 1          \* kshell, spawned by the boot code
Boot  == 0          \* the boot thread, and "no task yet"

(* Where an activation can be.                                              *)
SwitchPcs == {"pop", "popped", "swap", "read", "demote", "push", "pushed",
              "mark", "save", "load", "epop", "epopped", "ecur", "emark"}
SpawnPcs  == {"insert", "inserted", "spush", "spushed", "patch", "patched"}
ReapPcs   == {"take", "taken"}
CodePcs   == {"tramp", "code", "access", "update"}
Pcs       == SwitchPcs \cup SpawnPcs \cup ReapPcs \cup CodePcs
Ops       == {"code", "boot", "yield", "exit", "isr", "spawn", "reap"}

Activation == [op : Ops, pc : Pcs, nxt : 0 .. MaxPid, prv : 0 .. MaxPid]
Frame(op, pc, nxt) == [op |-> op, pc |-> pc, nxt |-> nxt, prv |-> Boot]

VARIABLES
    state,      \* Tcb.state; "none" where the slot of tasks is None
    queue,      \* RunQueue.q at the default priority
    current, nextPid,
    rqLocked,   \* the Mutex around the run queue
    writer, readers,    \* the RwLock around tasks
    ctx,        \* Tcb.ctx: whose stack, how deep, and is it still there
    cpu,        \* the thread whose stack the CPU is on
    stack,      \* the activations of each thread
    irq,        \* RFLAGS.IF
    iso, patched,   \* tasks of spawn_isolated; those with its fields set
    jobs, tries,    \* tasks a shell command waits for; yields it has left
    reaped,     \* tasks whose memory was freed
    halted      \* "no", or why the machine stopped

locks == <<rqLocked, writer, readers>>
shell == <<nextPid, iso, patched, jobs, tries, reaped>>
vars  == <<state, queue, current, nextPid, rqLocked, writer, readers, ctx, cpu,
           stack, irq, iso, patched, jobs, tries, reaped, halted>>

(* kernel_main_native has spawned kshell and calls run(), interrupts off.   *)
Init ==
    /\ state = [p \in Pid |-> IF p = Shell THEN "Runnable" ELSE "none"]
    /\ queue = <<Shell>>
    /\ current = Boot /\ nextPid = Shell + 1
    /\ rqLocked = FALSE /\ writer = FALSE /\ readers = 0
    /\ ctx = [p \in Pid |-> [owner |-> p, depth |-> 1, fresh |-> p = Shell]]
    /\ cpu = Boot
    /\ stack = [t \in 0 .. MaxPid |->
                  << Frame(IF t = Boot THEN "boot" ELSE "code",
                           IF t = Boot THEN "pop" ELSE "code", 0) >>]
    /\ irq = FALSE
    /\ iso = {} /\ patched = {} /\ jobs = {} /\ tries = Wait /\ reaped = {}
    /\ halted = "no"
-----------------------------------------------------------------------------
(* The activation the CPU is executing.                                     *)

Depth == Len(stack[cpu])
Top   == stack[cpu][Depth]
At(l) == halted = "no" /\ Top.pc = l

SetTop(a) == stack' = [stack EXCEPT ![cpu][Depth] = a]
Goto(l)   == SetTop([Top EXCEPT !.pc = l])

(* What is left of a stack when the topmost call of switch_to returns: the  *)
(* interrupt handler returns, a task is back in its code, run() loops.      *)
Back(s) ==
    LET a == s[Len(s)] IN
    CASE a.op = "isr"  -> SubSeq(s, 1, Len(s) - 1)
      [] a.op = "boot" -> [s EXCEPT ![Len(s)] = Frame("boot", "pop", 0)]
      [] a.op = "code" -> s
      [] OTHER         -> [s EXCEPT ![Len(s)] = Frame("code", "code", 0)]

Return == /\ stack' = [stack EXCEPT ![cpu] = Back(@)]
          /\ irq' = (irq \/ Top.op = "isr")

(* Mutex::lock of the run queue, RwLock::write and RwLock::read of tasks:   *)
(* each spins until it can be taken.                                        *)
LockRq(l, m) ==
    /\ At(l) /\ ~rqLocked
    /\ rqLocked' = TRUE
    /\ Goto(m)
    /\ UNCHANGED <<state, queue, current, writer, readers, ctx, cpu, irq,
                   shell, halted>>

LockTasks(l, m) ==
    /\ At(l) /\ ~writer /\ readers = 0
    /\ writer' = TRUE
    /\ Goto(m)
    /\ UNCHANGED <<state, queue, current, rqLocked, readers, ctx, cpu, irq,
                   shell, halted>>
-----------------------------------------------------------------------------
(* yield_now(), run() and the shared switch_to().                           *)

(* A task calls yield_now.  The shell does so only in its bounded waits.    *)
Yield ==
    /\ At("code") /\ cpu # Boot
    /\ cpu = Shell => jobs # {} /\ tries > 0
    /\ tries' = IF cpu = Shell THEN tries - 1 ELSE tries
    /\ SetTop(Frame("yield", "pop", 0))
    /\ UNCHANGED <<state, queue, current, locks, ctx, cpu, irq, nextPid, iso,
                   patched, jobs, reaped, halted>>

Pop == LockRq("pop", "popped")

(* RunQueue::pop and the guard's drop.  An empty queue: yield_now returns,  *)
(* run() halts until the next interrupt and tries again.                    *)
Popped ==
    /\ At("popped")
    /\ rqLocked' = FALSE
    /\ IF queue = << >>
       THEN Return /\ queue' = queue
       ELSE /\ SetTop(Frame(Top.op, "swap", Head(queue)))
            /\ queue' = Tail(queue)
            /\ irq' = irq
    /\ UNCHANGED <<state, current, writer, readers, ctx, cpu, shell, halted>>

(* switch_to: current.swap(next_pid).                                       *)
Swap ==
    /\ At("swap")
    /\ current' = Top.nxt
    /\ IF current = Top.nxt
       THEN Return
       ELSE /\ SetTop([Top EXCEPT !.pc = "read", !.prv = current])
            /\ irq' = irq
    /\ UNCHANGED <<state, queue, locks, ctx, cpu, shell, halted>>

(* tasks.read(); the guard is held until next is marked.                    *)
Read ==
    /\ At("read") /\ ~writer
    /\ readers' = readers + 1
    /\ Goto("demote")
    /\ UNCHANGED <<state, queue, current, rqLocked, writer, ctx, cpu, irq,
                   shell, halted>>

\* mutant: the outgoing task is left for others to queue
Demote_Drops ==
    /\ At("demote")
    /\ LET p == Top.prv IN
       state' = IF p # Boot /\ state[p] = "Running"
                THEN [state EXCEPT ![p] = "Runnable"] ELSE state
    /\ Goto("mark")
    /\ UNCHANGED <<queue, current, locks, ctx, cpu, irq, shell, halted>>

\* mutant: the outgoing task is queued again whatever its state
Demote_Any ==
    /\ At("demote")
    /\ LET p == Top.prv IN
       IF p # Boot /\ state[p] # "none"
       THEN state' = [state EXCEPT ![p] = "Runnable"] /\ Goto("push")
       ELSE /\ state' = state
            /\ SetTop([Top EXCEPT !.pc = "mark", !.prv = Boot])
    /\ UNCHANGED <<queue, current, locks, ctx, cpu, irq, shell, halted>>

\* mutant: the outgoing task is queued again even when it is a Zombie
Demote_Requeues ==
    /\ At("demote")
    /\ LET p == Top.prv IN
       IF p # Boot /\ state[p] # "none"
       THEN /\ state' = [state EXCEPT ![p] = IF @ = "Running" THEN "Runnable" ELSE @]
            /\ Goto("push")
       ELSE /\ state' = state
            /\ SetTop([Top EXCEPT !.pc = "mark", !.prv = Boot])
    /\ UNCHANGED <<queue, current, locks, ctx, cpu, irq, shell, halted>>

(* An outgoing task that was Running becomes Runnable and is queued again.  *)
(* One whose Tcb is gone leaves no place to save to (prev_ctx is null).     *)
Demote ==
    /\ At("demote")
    /\ LET p == Top.prv IN
       IF p # Boot /\ state[p] = "Running"
       THEN state' = [state EXCEPT ![p] = "Runnable"] /\ Goto("push")
       ELSE /\ state' = state
            /\ SetTop([Top EXCEPT !.pc = "mark",
                          !.prv = IF p # Boot /\ state[p] = "none" THEN Boot ELSE p])
    /\ UNCHANGED <<queue, current, locks, ctx, cpu, irq, shell, halted>>

Push == LockRq("push", "pushed")

\* mutant: push_front for push_back
Pushed_Front ==
    /\ At("pushed")
    /\ queue' = <<Top.prv>> \o queue
    /\ rqLocked' = FALSE
    /\ Goto("mark")
    /\ UNCHANGED <<state, current, writer, readers, ctx, cpu, irq, shell,
                   halted>>

Pushed ==
    /\ At("pushed")
    /\ queue' = Append(queue, Top.prv)
    /\ rqLocked' = FALSE
    /\ Goto("mark")
    /\ UNCHANGED <<state, current, writer, readers, ctx, cpu, irq, shell,
                   halted>>

(* The incoming task is Running; the read guard is dropped.  (cr3, here     *)
(* read and loaded, is a field of the incoming task: see tramp.)            *)
Mark ==
    /\ At("mark")
    /\ readers' = readers - 1
    /\ IF state[Top.nxt] = "none"
       THEN Return /\ state' = state
       ELSE /\ state' = [state EXCEPT ![Top.nxt] = "Running"]
            /\ Goto("save")
            /\ irq' = irq
    /\ UNCHANGED <<queue, current, rqLocked, writer, ctx, cpu, shell, halted>>

\* mutant: the registers are not saved
Save_Skips ==
    /\ At("save")
    /\ Goto("load")
    /\ UNCHANGED <<state, queue, current, locks, ctx, cpu, irq, shell, halted>>

(* context_switch, first half: the registers go to the context of prev,     *)
(* whichever thread is executing this.  Its Tcb may have been freed since.  *)
Save ==
    /\ At("save")
    /\ LET p == Top.prv IN
       IF p = Boot THEN ctx' = ctx /\ Goto("load") /\ halted' = halted
       ELSE IF state[p] = "none"
       THEN halted' = "wild" /\ UNCHANGED <<ctx, stack>>
       ELSE /\ ctx' = [ctx EXCEPT ![p] =
                         [owner |-> cpu, depth |-> Depth, fresh |-> TRUE]]
            /\ Goto("load")
            /\ halted' = halted
    /\ UNCHANGED <<state, queue, current, locks, cpu, irq, shell>>

(* context_switch, second half: the CPU continues where the context of next *)
(* points, with interrupts on (sti).  Where that is gone, it runs wild.     *)
Load ==
    /\ At("load")
    /\ LET c == ctx[Top.nxt] IN
       IF c.fresh /\ state[Top.nxt] # "none"
       THEN /\ cpu' = c.owner
            /\ stack' = [stack EXCEPT ![c.owner] = Back(SubSeq(@, 1, c.depth))]
            /\ ctx' = [p \in Pid |->
                         IF ctx[p].owner = c.owner /\ ctx[p].depth >= c.depth
                         THEN [ctx[p] EXCEPT !.fresh = FALSE] ELSE ctx[p]]
            /\ irq' = TRUE
            /\ halted' = halted
       ELSE halted' = "wild" /\ UNCHANGED <<cpu, stack, ctx, irq>>
    /\ UNCHANGED <<state, queue, current, locks, shell>>
-----------------------------------------------------------------------------
(* exit_current().                                                          *)

(* The current task becomes a Zombie.                                       *)
Exit ==
    /\ At("code") /\ cpu \notin {Boot, Shell} /\ ~writer
    /\ state' = [state EXCEPT ![current] = IF @ = "none" THEN @ ELSE "Zombie"]
    /\ SetTop(Frame("exit", "epop", 0))
    /\ UNCHANGED <<queue, current, locks, ctx, cpu, irq, shell, halted>>

ExitPop == LockRq("epop", "epopped")

ExitPopped ==
    /\ At("epopped")
    /\ rqLocked' = FALSE
    /\ IF queue = << >>
       THEN halted' = "exit" /\ UNCHANGED <<stack, queue>>
       ELSE /\ SetTop(Frame("exit", "ecur", Head(queue)))
            /\ queue' = Tail(queue)
            /\ halted' = halted
    /\ UNCHANGED <<state, current, writer, readers, ctx, cpu, irq, shell>>

ExitCurrent ==
    /\ At("ecur")
    /\ current' = Top.nxt
    /\ Goto("emark")
    /\ UNCHANGED <<state, queue, locks, ctx, cpu, irq, shell, halted>>

(* Its context is not saved: straight to the second half of context_switch. *)
ExitMark ==
    /\ At("emark") /\ ~writer
    /\ IF state[Top.nxt] = "none"
       THEN halted' = "noTcb" /\ UNCHANGED <<state, stack>>
       ELSE /\ state' = [state EXCEPT ![Top.nxt] = "Running"]
            /\ Goto("load")
            /\ halted' = halted
    /\ UNCHANGED <<queue, current, locks, ctx, cpu, irq, shell>>
-----------------------------------------------------------------------------
(* spawn() and spawn_isolated(), called by the shell.                       *)

(* A plain task may join others (conctest spawns three); an isolated one is *)
(* waited for alone.                                                        *)
Spawn(kind) ==
    /\ At("code") /\ cpu = Shell /\ nextPid <= MaxPid
    /\ IF kind = "plain" THEN jobs \cap iso = {} ELSE jobs = {}
    /\ nextPid' = nextPid + 1
    /\ iso' = IF kind = "isolated" THEN iso \cup {nextPid} ELSE iso
    /\ SetTop(Frame("spawn", "insert", nextPid))
    /\ UNCHANGED <<state, queue, current, locks, ctx, cpu, irq, patched, jobs,
                   tries, reaped, halted>>

Insert == LockTasks("insert", "inserted")

(* The Tcb goes into its slot, its context set to the start of its code.    *)
Inserted ==
    /\ At("inserted")
    /\ LET p == Top.nxt IN
       /\ state' = [state EXCEPT ![p] = "Runnable"]
       /\ ctx' = [ctx EXCEPT ![p] = [owner |-> p, depth |-> 1, fresh |-> TRUE]]
       /\ stack' = [stack EXCEPT
              ![cpu][Depth].pc = "spush",
              ![p] = << Frame("code", IF p \in iso THEN "tramp" ELSE "code", 0) >>]
    /\ writer' = FALSE
    /\ UNCHANGED <<queue, current, rqLocked, readers, cpu, irq, shell, halted>>

SpawnPush == LockRq("spush", "spushed")

(* The end of spawn(); spawn_isolated() goes on to patch the Tcb.           *)
SpawnPushed ==
    /\ At("spushed")
    /\ queue' = Append(queue, Top.nxt)
    /\ rqLocked' = FALSE
    /\ IF Top.nxt \in iso
       THEN Goto("patch") /\ UNCHANGED <<jobs, tries>>
       ELSE /\ SetTop(Frame("code", "code", 0))
            /\ jobs' = jobs \cup {Top.nxt}
            /\ tries' = Wait
    /\ UNCHANGED <<state, current, writer, readers, ctx, cpu, irq, nextPid,
                   iso, patched, reaped, halted>>

Patch == LockTasks("patch", "patched")

(* cr3, user_entry, user_stack_top and caps of the task.                    *)
Patched ==
    /\ At("patched")
    /\ patched' = patched \cup {Top.nxt}
    /\ writer' = FALSE
    /\ jobs' = jobs \cup {Top.nxt}
    /\ tries' = Wait
    /\ SetTop(Frame("code", "code", 0))
    /\ UNCHANGED <<state, queue, current, rqLocked, readers, ctx, cpu, irq,
                   nextPid, iso, reaped, halted>>

(* isolated_trampoline: enter ring 3 at the entry point of the current      *)
(* task; that of an unpatched task is address 0, a page fault.              *)
Trampoline ==
    /\ At("tramp") /\ ~writer
    /\ IF current \in patched
       THEN Goto("code") /\ halted' = halted
       ELSE halted' = "fault" /\ stack' = stack
    /\ UNCHANGED <<state, queue, current, locks, ctx, cpu, irq, shell>>
-----------------------------------------------------------------------------
(* The shell disposes of the tasks it spawned.                              *)

(* multitest, conctest and preempttest reap a task they saw Zombie, and     *)
(* leave it alone once their yields are spent; isotest, captest, spawn and  *)
(* drawtest then reap it all the same.                                      *)
Reap(p) ==
    /\ At("code") /\ cpu = Shell /\ p \in jobs
    /\ state[p] = "Zombie" \/ (tries = 0 /\ p \in iso)
    /\ SetTop(Frame("reap", "take", p))
    /\ UNCHANGED <<state, queue, current, locks, ctx, cpu, irq, shell, halted>>

GiveUp(p) ==
    /\ At("code") /\ cpu = Shell /\ p \in jobs \ iso
    /\ tries = 0 /\ state[p] # "Zombie"
    /\ jobs' = jobs \ {p}
    /\ tries' = Wait
    /\ UNCHANGED <<state, queue, current, nextPid, locks, ctx, cpu, stack, irq,
                   iso, patched, reaped, halted>>

Take == LockTasks("take", "taken")

(* reap(): the slot is emptied, then the state looked at, then the memory   *)
(* freed.                                                                   *)
Taken ==
    /\ At("taken")
    /\ LET p == Top.nxt IN
       /\ state' = [state EXCEPT ![p] = "none"]
       /\ IF state[p] = "Zombie"
          THEN /\ reaped' = reaped \cup {p}
               /\ jobs' = jobs \ {p}
               /\ tries' = Wait
               /\ SetTop(Frame("code", "code", 0))
               /\ halted' = halted
          ELSE halted' = "reap" /\ UNCHANGED <<stack, jobs, tries, reaped>>
    /\ writer' = FALSE
    /\ UNCHANGED <<queue, current, rqLocked, readers, ctx, cpu, irq, nextPid,
                   iso, patched>>

(* is_zombie, caps, uid, cwd, fd_info, ...: a read guard held while a field *)
(* is copied.                                                               *)
Access ==
    /\ At("code") /\ cpu # Boot /\ ~writer
    /\ readers' = readers + 1
    /\ Goto("access")
    /\ UNCHANGED <<state, queue, current, rqLocked, writer, ctx, cpu, irq,
                   shell, halted>>

Accessed ==
    /\ At("access")
    /\ readers' = readers - 1
    /\ Goto("code")
    /\ UNCHANGED <<state, queue, current, rqLocked, writer, ctx, cpu, irq,
                   shell, halted>>
(* set_caps, set_identity, alloc_fd, close_fd, ...: the write guard.        *)
Update == cpu # Boot /\ LockTasks("code", "update")

Updated ==
    /\ At("update")
    /\ writer' = FALSE
    /\ Goto("code")
    /\ UNCHANGED <<state, queue, current, rqLocked, readers, ctx, cpu, irq,
                   shell, halted>>
-----------------------------------------------------------------------------
\* mutant: tasks is not tried first, as switch_to will take it anyway
Tick_Blocks ==
    /\ halted = "no" /\ irq
    /\ TickInSwitch \/ Top.pc \notin SwitchPcs
    /\ ~rqLocked /\ queue # << >>
    /\ queue' = Tail(queue)
    /\ stack' = [stack EXCEPT ![cpu] =
                    Append(@, Frame("isr", "swap", Head(queue)))]
    /\ irq' = FALSE
    /\ UNCHANGED <<state, current, locks, ctx, cpu, shell, halted>>

(* The timer interrupt: try_preempt() with interrupts off.  A tick that     *)
(* finds tasks write-locked, the run queue locked or empty does nothing.    *)
Tick ==
    /\ halted = "no" /\ irq
    /\ TickInSwitch \/ Top.pc \notin SwitchPcs
    /\ ~writer /\ ~rqLocked /\ queue # << >>
    /\ queue' = Tail(queue)
    /\ stack' = [stack EXCEPT ![cpu] =
                    Append(@, Frame("isr", "swap", Head(queue)))]
    /\ irq' = FALSE
    /\ UNCHANGED <<state, current, locks, ctx, cpu, shell, halted>>

SwitchStep == \/ Pop \/ Popped \/ Swap \/ Read \/ Demote \/ Push \/ Pushed
              \/ Mark \/ Save \/ Load
ExitStep   == ExitPop \/ ExitPopped \/ ExitCurrent \/ ExitMark
SpawnStep  == \/ Insert \/ Inserted \/ SpawnPush \/ SpawnPushed
              \/ Patch \/ Patched \/ Trampoline
ReapStep   == Take \/ Taken

(* What the CPU does on its own once begun, and what a task may choose.     *)
Kernel == SwitchStep \/ ExitStep \/ SpawnStep \/ ReapStep \/ Accessed \/ Updated
Choice == \/ Yield \/ Exit \/ Access \/ Update
          \/ \E kind \in Kinds : Spawn(kind)
          \/ \E p \in jobs : Reap(p) \/ GiveUp(p)

Next == Kernel \/ Choice \/ Tick

Spec == Init /\ [][Next]_vars

(* A task that is on the CPU in the middle of a call.                       *)
InCall(t) == cpu = t /\ Top.op # "isr" /\ Kernel

(* The CPU never stops inside the kernel.  The timer is periodic and not    *)
(* synchronised with the tasks, so a tick that could act is not missed for  *)
(* ever; its period (10 ms) is far longer than a switch, so that a task     *)
(* that is given the CPU again and again gets on with its call.  Tasks may  *)
(* compute for ever: no fairness of Choice.                                 *)
FairSpec == /\ Spec
            /\ WF_vars(Kernel) /\ SF_vars(Tick)
            /\ \A t \in Pid : SF_vars(InCall(t))
-----------------------------------------------------------------------------
(* Properties.                                                              *)

TypeOK ==
    /\ state \in [Pid -> {"none", "Runnable", "Running", "Zombie"}]
    /\ queue \in Seq(Pid)
    /\ current \in 0 .. MaxPid /\ nextPid \in 2 .. MaxPid + 1
    /\ rqLocked \in BOOLEAN /\ writer \in BOOLEAN /\ readers \in Nat
    /\ ctx \in [Pid -> [owner : Pid, depth : 1 .. 2, fresh : BOOLEAN]]
    /\ cpu \in 0 .. MaxPid
    /\ stack \in [0 .. MaxPid -> Seq(Activation)]
    /\ \A t \in 0 .. MaxPid : Len(stack[t]) \in 1 .. 2
    /\ irq \in BOOLEAN
    /\ iso \subseteq Pid /\ patched \subseteq iso
    /\ jobs \subseteq Pid /\ reaped \subseteq Pid /\ tries \in 0 .. Wait
    /\ halted \in {"no", "exit", "noTcb", "reap", "fault", "wild"}

(* The scheduler gives up, or the CPU runs wild, only in code that cannot   *)
(* be reached: no panic of exit_current or reap (mod.rs:476, 481, 564, 573),*)
(* no page fault in the trampoline, no switch to a context that is gone.    *)
NoPanic == halted = "no"

(* A task off the CPU is resumed where it left it: its own stack, at the    *)
(* place saved last (mod.rs:367-370, "both pointers point to valid ...").   *)
ContextsIntact ==
    /\ TypeOK
    /\ \A p \in Pid : state[p] = "Runnable" /\ p # cpu =>
          /\ ctx[p].owner = p /\ ctx[p].fresh
          /\ ctx[p].depth = Len(stack[p])

(* mod.rs:743-751: the interrupt handler "could spin forever on a lock that *)
(* can only be released by code that will never run again".  switch_to      *)
(* takes both locks blocking; under try_preempt each is there to be taken.  *)
IsrNeverSpins ==
    ~irq => /\ At("read") => ~writer
            /\ At("push") => ~rqLocked

(* What is popped can be run (mod.rs:532-533, 564): a queued task is queued *)
(* once, has a Tcb and has not exited, and the one that exit_current pops   *)
(* still has its Tcb when it is looked up some steps and ticks later.       *)
QueueLive ==
    /\ TypeOK /\ halted # "noTcb"
    /\ halted = "no" =>
          \A i \in 1 .. Len(queue) : state[queue[i]] \in {"Runnable", "Running"}
    /\ \A i, j \in 1 .. Len(queue) : queue[i] = queue[j] => i = j

(* mod.rs:523-531: a Zombie "never runs again"; its slot is emptied, once.  *)
ZombieForGood ==
    [][\A p \in Pid : state[p] = "Zombie" => state'[p] \in {"Zombie", "none"}]_vars

(* mod.rs:576-578: the exiting task "will never be resumed", so that reap   *)
(* frees a stack nobody runs on (mod.rs:468-470).                           *)
StackLive == halted = "no" => cpu \notin reaped

(* main.rs:539-544: isolated_trampoline() "reads back exactly what          *)
(* spawn_isolated() stored", so it never enters ring 3 at address 0.        *)
TrampolineAfterPatch == halted # "fault"

(* A task waiting for the CPU gets it, whatever the others do, as long as   *)
(* the timer ticks (idt.rs:74-92, mod.rs:752).                              *)
NoStarvation == \A p \in Pid : (state[p] = "Runnable") ~> (state[p] # "Runnable")
-----------------------------------------------------------------------------
(* The abstraction: a switch counts as done from the moment its task is     *)
(* popped, a spawn from the moment its task is queued.                      *)

Switching == halted = "no" /\ Top.op # "exit" /\ Top.pc \in SwitchPcs
Exiting   == halted = "no" /\ Top.op = "exit" /\ Top.pc # "load"
Spawning  == stack[Shell][1].pc \in {"insert", "inserted", "spush", "spushed"}

turnCurrent == IF Top.pc \in {"swap", "ecur"} THEN Top.nxt ELSE current

turnQueue ==
    IF Top.pc \in {"swap", "read", "demote", "push", "pushed"} /\ cpu # Boot
    THEN Append(queue, cpu) ELSE queue

turnState == [p \in Pid |->
    CASE Spawning /\ p = stack[Shell][1].nxt -> "none"
      [] Exiting /\ p = turnCurrent -> "Running"
      [] Switching /\ turnCurrent # cpu /\ p = turnCurrent -> "Running"
      [] Switching /\ turnCurrent # cpu /\ p = cpu -> "Runnable"
      [] OTHER -> state[p] ]

turnNext == IF Spawning THEN nextPid - 1 ELSE nextPid

Turns == INSTANCE RoundRobin WITH
            state <- turnState, queue <- turnQueue, current <- turnCurrent,
            nextPid <- turnNext, halted <- (halted # "no")

(* With ticks kept out of the scheduler's own code, plain tasks take turns. *)
TakesTurns == Turns!Spec
=============================================================================
