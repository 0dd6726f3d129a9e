---------------------------- MODULE SyscallProofs ----------------------------
(***************************************************************************)
(* Theorems about the turns that tasks take and about system calls and the *)
(* audit log, for any commands, any number of tasks and any log: the queue *)
(* is exact and one task runs; the kernel's steps are steps of RoundRobin; *)
(* whoever is inside a call owns the one saved stack pointer and the one   *)
(* kernel stack; and the log tells what was decided.                       *)
(***************************************************************************)
EXTENDS Syscall, FiniteSetTheorems, SequenceTheorems, WellFoundedInduction, TLAPS

-----------------------------------------------------------------------------
(* Turns: the scheduler's contract by itself.                              *)

Elements(q) == { q[i] : i \in 1 .. Len(q) }
Distinct(q) == \A i, j \in 1 .. Len(q) : q[i] = q[j] => i = j

(* What popping the head leaves in a queue (RunQueue::pop, mod.rs:166-172). *)
LEMMA Popping ==
    ASSUME NEW q \in Seq(Pid), q # << >>, Distinct(q)
    PROVE  /\ Tail(q) \in Seq(Pid) /\ Distinct(Tail(q))
           /\ Head(q) \in Elements(q) /\ Head(q) \in Pid
           /\ Elements(Tail(q)) = Elements(q) \ {Head(q)}
<1>1. /\ Tail(q) \in Seq(Pid) /\ Len(Tail(q)) = Len(q) - 1
      /\ \A i \in 1 .. Len(Tail(q)) : Tail(q)[i] = q[i + 1]
      /\ Head(q) = q[1] /\ Head(q) \in Pid
  BY HeadTailProperties
<1>2. Len(q) \in Nat /\ Len(q) >= 1
  BY EmptySeq, LenProperties
<1>3. Distinct(Tail(q))
  <2> SUFFICES ASSUME NEW i \in 1 .. Len(Tail(q)), NEW j \in 1 .. Len(Tail(q)),
                      Tail(q)[i] = Tail(q)[j]
               PROVE  i = j
    BY DEF Distinct
  <2>1. i + 1 \in 1 .. Len(q) /\ j + 1 \in 1 .. Len(q) /\ q[i + 1] = q[j + 1]
    BY <1>1, <1>2
  <2> QED
    BY <2>1 DEF Distinct
<1>4. Head(q) \in Elements(q)
  BY <1>1, <1>2 DEF Elements
<1>5. ASSUME NEW p \in Elements(Tail(q)) PROVE p \in Elements(q) /\ p # Head(q)
  <2>1. PICK i \in 1 .. Len(Tail(q)) : p = Tail(q)[i]
    BY DEF Elements
  <2>2. i + 1 \in 1 .. Len(q) /\ p = q[i + 1] /\ i + 1 # 1 /\ 1 \in 1 .. Len(q)
    BY <1>1, <1>2, <2>1
  <2> QED
    BY <1>1, <2>2 DEF Elements, Distinct
<1>6. ASSUME NEW p \in Elements(q), p # Head(q) PROVE p \in Elements(Tail(q))
  <2>1. PICK i \in 1 .. Len(q) : p = q[i]
    BY DEF Elements
  <2>2. i - 1 \in 1 .. Len(Tail(q)) /\ Tail(q)[i - 1] = q[i]
    <3>1. i # 1
      BY <1>1, <1>6, <2>1
    <3>2. i - 1 \in 1 .. Len(Tail(q))
      BY <1>1, <1>2, <3>1
    <3> QED
      BY <1>1, <3>2
  <2> QED
    BY <2>1, <2>2 DEF Elements
<1> QED
  BY <1>1, <1>3, <1>4, <1>5, <1>6

(* What pushing a task adds to a queue (RunQueue::push, mod.rs:159-163).    *)
LEMMA Pushing ==
    ASSUME NEW q \in Seq(Pid), NEW p \in Pid, Distinct(q), p \notin Elements(q)
    PROVE  /\ Append(q, p) \in Seq(Pid) /\ Distinct(Append(q, p))
           /\ Elements(Append(q, p)) = Elements(q) \cup {p}
<1>1. /\ Append(q, p) \in Seq(Pid) /\ Len(Append(q, p)) = Len(q) + 1
      /\ \A i \in 1 .. Len(q) : Append(q, p)[i] = q[i]
      /\ Append(q, p)[Len(q) + 1] = p
  BY AppendProperties
<1>2. Len(q) \in Nat
  BY LenProperties
<1>3. \A i \in 1 .. Len(q) : q[i] # p
  BY DEF Elements
<1>4. Distinct(Append(q, p))
  <2> SUFFICES ASSUME NEW i \in 1 .. Len(q) + 1, NEW j \in 1 .. Len(q) + 1,
                      Append(q, p)[i] = Append(q, p)[j]
               PROVE  i = j
    BY <1>1 DEF Distinct
  <2>1. CASE i \in 1 .. Len(q) /\ j \in 1 .. Len(q)
    BY <1>1, <2>1 DEF Distinct
  <2>2. CASE i = Len(q) + 1 \/ j = Len(q) + 1
    BY <1>1, <1>2, <1>3, <2>2
  <2> QED
    BY <1>2, <2>1, <2>2
<1>5. ASSUME NEW x \in Elements(Append(q, p)) PROVE x \in Elements(q) \cup {p}
  <2>1. PICK i \in 1 .. Len(q) + 1 : x = Append(q, p)[i]
    BY <1>1 DEF Elements
  <2> QED
    BY <1>1, <1>2, <2>1 DEF Elements
<1>6. ASSUME NEW x \in Elements(q) \cup {p} PROVE x \in Elements(Append(q, p))
  <2>1. CASE x = p
    BY <1>1, <1>2, <2>1 DEF Elements
  <2>2. CASE x \in Elements(q)
    <3>1. PICK i \in 1 .. Len(q) : x = q[i]
      BY <2>2 DEF Elements
    <3>2. i \in 1 .. Len(Append(q, p)) /\ x = Append(q, p)[i]
      BY <1>1, <1>2, <3>1
    <3> QED
      BY <3>2 DEF Elements
  <2> QED
    BY <1>6, <2>1, <2>2
<1> QED
  BY <1>1, <1>4, <1>5, <1>6
-----------------------------------------------------------------------------
(* The inductive invariant.  That exit_current always finds a task needs    *)
(* that kshell is always there and, off the CPU, in the queue; that a new   *)
(* task is not queued yet needs that pids are not used twice.               *)

Queue  == /\ Distinct(queue)
          /\ Elements(queue) = { p \in Pid : state[p] = "Runnable" }
Unborn == \A p \in Pid : nextPid <= p => state[p] = "none"
Alive  == state[Shell] \in {"Runnable", "Running"}

IndInv == TypeOK /\ Queue /\ OneRunning /\ Unborn /\ Alive /\ NeverHalts

LEMMA IndInvInit == Init => IndInv
<1> SUFFICES ASSUME Init PROVE IndInv
  OBVIOUS
<1>1. MaxPid \in Nat /\ MaxPid > 0 /\ Shell \in Pid /\ Shell = 1 /\ Boot = 0
  BY RoundRobinAssumption DEF Pid, Shell, Boot
<1>2. /\ queue = <<Shell>> /\ queue \in Seq(Pid)
      /\ Len(queue) = 1 /\ queue[1] = Shell
  <2>1. queue = <<Shell>>
    BY DEF Init
  <2>2. <<Shell>> \in Seq(Pid)
    BY <1>1
  <2>3. Len(<<Shell>>) = 1 /\ <<Shell>>[1] = Shell
    OBVIOUS
  <2> QED
    BY <2>1, <2>2, <2>3
<1>3. TypeOK
  <2>1. state \in [Pid -> {"none", "Runnable", "Running", "Zombie"}]
    BY DEF Init
  <2>2. current = Boot /\ nextPid = Shell + 1
    BY DEF Init
  <2>3. halted \in BOOLEAN
    BY DEF Init
  <2>4. current \in 0 .. MaxPid /\ nextPid \in 2 .. MaxPid + 1
    BY <1>1, <2>2
  <2> QED
    BY <1>2, <2>1, <2>3, <2>4 DEF TypeOK
<1>4. Queue
  BY <1>1, <1>2 DEF Init, Queue, Elements, Distinct
<1>5. OneRunning /\ Unborn /\ Alive /\ NeverHalts
  BY <1>1 DEF Init, OneRunning, Unborn, Alive, NeverHalts, Pid
<1> QED
  BY <1>3, <1>4, <1>5 DEF IndInv

LEMMA IndInvNext == IndInv /\ [Next]_vars => IndInv'
<1> SUFFICES ASSUME IndInv, [Next]_vars PROVE IndInv'
  OBVIOUS
<1>1. /\ MaxPid \in Nat /\ MaxPid > 0 /\ Shell \in Pid /\ Shell = 1 /\ Boot = 0
      /\ Pid = 1 .. MaxPid
  BY RoundRobinAssumption DEF Pid, Shell, Boot
<1>2. /\ TypeOK /\ Queue /\ OneRunning /\ Unborn /\ Alive /\ NeverHalts
      /\ Distinct(queue) /\ queue \in Seq(Pid)
      /\ Elements(queue) = { p \in Pid : state[p] = "Runnable" }
  BY DEF IndInv, Queue, TypeOK
<1>3. current # Boot => current \in Pid /\ state[current] = "Running"
  BY <1>1, <1>2 DEF TypeOK, OneRunning
<1>4. queue # << >> => /\ Head(queue) \in Pid /\ state[Head(queue)] = "Runnable"
                       /\ Tail(queue) \in Seq(Pid) /\ Distinct(Tail(queue))
                       /\ Elements(Tail(queue)) = Elements(queue) \ {Head(queue)}
  BY <1>2, Popping
<1>5. CASE Create
  <2>1. /\ nextPid \in Pid /\ state[nextPid] = "none"
        /\ state' = [state EXCEPT ![nextPid] = "Runnable"]
        /\ queue' = Append(queue, nextPid) /\ nextPid' = nextPid + 1
        /\ current' = current /\ halted' = halted
    BY <1>1, <1>2, <1>5 DEF Create, Unborn
  <2>2. /\ queue' \in Seq(Pid) /\ Distinct(queue')
        /\ Elements(queue') = Elements(queue) \cup {nextPid}
    BY <1>2, <2>1, Pushing
  <2>3. TypeOK'
    BY <1>1, <1>2, <2>1, <2>2 DEF TypeOK
  <2>4. Queue'
    BY <1>2, <2>1, <2>2 DEF Queue, TypeOK
  <2>5. OneRunning' /\ Alive' /\ NeverHalts'
    BY <1>2, <2>1 DEF OneRunning, Alive, NeverHalts, TypeOK
  <2>6. Unborn'
    BY <1>1, <1>2, <2>1 DEF Unborn, TypeOK
  <2> QED
    BY <2>3, <2>4, <2>5, <2>6 DEF IndInv
<1>6. CASE Switch
  <2>1. /\ queue # << >> /\ current' = Head(queue)
        /\ nextPid' = nextPid /\ halted' = halted
    BY <1>6 DEF Switch
  <2>2. CASE current = Boot
    <3>1. /\ queue' = Tail(queue)
          /\ state' = [state EXCEPT ![Head(queue)] = "Running"]
      BY <1>6, <2>2 DEF Switch
    <3>2. \A p \in Pid : state[p] # "Running"
      BY <1>1, <1>2, <2>2 DEF OneRunning
    <3>3. TypeOK' /\ Queue' /\ Alive' /\ NeverHalts'
      BY <1>1, <1>2, <1>4, <2>1, <3>1 DEF TypeOK, Queue, Alive, NeverHalts
    <3>4. OneRunning' /\ Unborn'
      BY <1>1, <1>2, <1>4, <2>1, <3>1, <3>2 DEF TypeOK, OneRunning, Unborn
    <3> QED
      BY <3>3, <3>4 DEF IndInv
  <2>3. CASE current # Boot
    <3>1. /\ queue' = Append(Tail(queue), current)
          /\ state' = [state EXCEPT ![current] = "Runnable",
                                    ![Head(queue)] = "Running"]
      BY <1>6, <2>3 DEF Switch
    <3>2. /\ current \in Pid /\ state[current] = "Running"
          /\ current # Head(queue) /\ current \notin Elements(Tail(queue))
      BY <1>2, <1>3, <1>4, <2>1, <2>3
    <3>3. /\ queue' \in Seq(Pid) /\ Distinct(queue')
          /\ Elements(queue') = Elements(Tail(queue)) \cup {current}
      BY <1>4, <2>1, <3>1, <3>2, Pushing
    <3>4. TypeOK'
      BY <1>1, <1>2, <1>4, <2>1, <3>1, <3>3 DEF TypeOK
    <3>5. Queue'
      BY <1>2, <1>4, <2>1, <3>1, <3>2, <3>3 DEF TypeOK, Queue
    <3>6. OneRunning' /\ Alive' /\ NeverHalts'
      BY <1>1, <1>2, <1>4, <2>1, <3>1, <3>2
         DEF TypeOK, OneRunning, Alive, NeverHalts
    <3>7. Unborn'
      BY <1>2, <1>4, <2>1, <3>1, <3>2 DEF TypeOK, Unborn
    <3> QED
      BY <3>4, <3>5, <3>6, <3>7 DEF IndInv
  <2> QED
    BY <2>2, <2>3
<1>7. CASE Exit
  <2>1. current \in Pid /\ current # Shell /\ state[current] = "Running"
    BY <1>3, <1>7 DEF Exit
  <2>2. queue # << >>
    <3>1. Shell \in Elements(queue)
      BY <1>1, <1>2, <2>1 DEF Alive, OneRunning
    <3> QED
      BY <3>1 DEF Elements
  <2>3. /\ state' = [state EXCEPT ![current] = "Zombie",
                                  ![Head(queue)] = "Running"]
        /\ queue' = Tail(queue) /\ current' = Head(queue)
        /\ nextPid' = nextPid /\ halted' = halted
    BY <1>7, <2>2 DEF Exit
  <2>4. current # Head(queue)
    BY <1>4, <2>1, <2>2
  <2>5. TypeOK' /\ Queue'
    BY <1>1, <1>2, <1>4, <2>1, <2>2, <2>3, <2>4 DEF TypeOK, Queue
  <2>6. OneRunning' /\ Alive' /\ NeverHalts'
    BY <1>1, <1>2, <1>4, <2>1, <2>2, <2>3, <2>4
       DEF TypeOK, OneRunning, Alive, NeverHalts
  <2>7. Unborn'
    BY <1>2, <1>4, <2>1, <2>2, <2>3 DEF TypeOK, Unborn
  <2> QED
    BY <2>5, <2>6, <2>7 DEF IndInv
<1>8. CASE \E p \in Pid : Reap(p)
  BY <1>1, <1>2, <1>8
     DEF Reap, IndInv, TypeOK, Queue, OneRunning, Unborn, Alive, NeverHalts
<1>9. CASE UNCHANGED vars
  BY <1>2, <1>9
     DEF vars, IndInv, TypeOK, Queue, OneRunning, Unborn, Alive, NeverHalts
<1> QED
  BY <1>5, <1>6, <1>7, <1>8, <1>9 DEF Next

LEMMA Inductive == Spec => []IndInv
<1> QED
  BY IndInvInit, IndInvNext, PTL DEF Spec
-----------------------------------------------------------------------------
(* No task is lost from the queue, queued twice, or queued after it exited  *)
(* (RunQueue and its callers, mod.rs:159-350, 532-564).                     *)
THEOREM NobodyLost == Spec => []QueueExact
<1>1. IndInv => QueueExact
  BY DEF IndInv, Queue, QueueExact, Distinct, Elements
<1> QED
  BY <1>1, Inductive, PTL

(* The task on the CPU is the one task that is Running (mod.rs:301-350).    *)
THEOREM OneTaskRuns == Spec => []OneRunning
<1>1. IndInv => OneRunning
  BY DEF IndInv
<1> QED
  BY <1>1, Inductive, PTL

(* exit_current() always has a task to go on with (mod.rs:567-573): were    *)
(* its steps one step, the panic would be unreachable.                      *)
THEOREM ExitAlwaysFindsTask == Spec => []NeverHalts
<1>1. IndInv => NeverHalts
  BY DEF IndInv
<1> QED
  BY <1>1, Inductive, PTL

-----------------------------------------------------------------------------
(* The kernel.                                                             *)

Places == {"new", "run", "check", "log", "push", "act", "sysret", "exit", "wild", "gone"}
Tcbs   == [at : Places, todo : Seq(Calls), caps : SUBSET STRING, user : BOOLEAN,
           ok : BOOLEAN, left : Nat]
Event  == [by : Pid, call : STRING, ok : BOOLEAN]
Cmds   == {"none", "spawn", "wait", "audittest", "panic"}
Doings == [cmd : Cmds, rest : Seq(Programs), pids : SUBSET Pid, tries : Nat,
           before : Nat, verdict : {"none", "PASS", "FAIL"}]

KernelTypeOK ==
    /\ shell \in Doings
    /\ task \in [Pid -> Tcbs]
    /\ saved \in 0 .. MaxPid /\ frame \in 0 .. MaxPid
    /\ log \in Seq(Event) /\ lock \in 0 .. MaxPid
    /\ told \in [Pid -> Seq(Event)] /\ sent \in [Pid -> Nat]

-----------------------------------------------------------------------------
(* The inductive invariant.  CallOwnsStack needs that no two programs are  *)
(* ever about to use the stack: all that have not exited belong to kshell's*)
(* command in progress (Awaited), and there is at most one among them and  *)
(* those the command is still to spawn (Alone).  That reaping does not     *)
(* lose one needs that only tasks that are through are Zombies (Dead).     *)

Active(p) == task[p].user /\ task[p].at # "gone"

Awaited == \A p \in Pid : Active(p) =>
              p \in shell.pids /\ shell.cmd \in {"spawn", "wait", "panic"}

Alone ==
    /\ \A p, q \in Pid : Active(p) /\ Active(q) => p = q
    /\ \A i, j \in 1 .. Len(shell.rest) :
          shell.rest[i].user /\ shell.rest[j].user => i = j
    /\ \A p \in Pid, i \in 1 .. Len(shell.rest) : Active(p) => ~shell.rest[i].user

Dead == \A p \in Pid : /\ state[p] = "Zombie" => task[p].at = "gone"
                       /\ state[p] = "none" => task[p].at \in {"run", "gone"}

Owned == Awaited /\ Alone /\ Dead /\ CallOwnsStack

(* What a task is still to do: a program its exit at least, a task in the  *)
(* middle of a call that call.                                             *)
Ends(calls) == calls # << >> /\ calls[Len(calls)].call = "exit"
Pending ==
    /\ \A i \in 1 .. Len(shell.rest) : Ends(shell.rest[i].calls)
    /\ shell.cmd = "spawn" => shell.rest # << >>
    /\ \A p \in Pid :
          /\ Active(p) => Ends(task[p].todo)
          /\ task[p].at \in {"check", "log", "push", "act", "sysret", "exit"} =>
                 task[p].todo # << >>
          /\ task[p].user /\ task[p].at \in {"check", "log", "push", "act", "sysret"} =>
                 Call(p).call # "exit"

(* The log's mutex belongs to the task that is pushing, and the log never  *)
(* outgrows its capacity.                                                  *)
Locked ==
    /\ \A p \in Pid : task[p].at = "push" <=> lock = p
    /\ Len(log) <= LogCap

KInv == KernelTypeOK /\ Owned /\ Pending /\ Locked

(* Only audittest makes kshell itself call something.                      *)
Prompt == shell.cmd # "audittest" =>
             task[Shell].at = "run" /\ task[Shell].todo = << >>

-----------------------------------------------------------------------------
(* Every step of the kernel is a turn of RoundRobin, or leaves the tasks'  *)
(* states alone.                                                           *)
LEMMA KernelStep == [KernelNext]_kernelVars => [Next]_vars
<1> SUFFICES ASSUME [KernelNext]_kernelVars PROVE [Next]_vars
  OBVIOUS
<1>1. CASE UNCHANGED kernelVars
  BY <1>1 DEF kernelVars
<1>2. ASSUME NEW c \in Commands, Begin(c) PROVE UNCHANGED vars
  BY <1>2 DEF Begin
<1>3. CASE SpawnNext \/ Tick
  BY <1>3 DEF SpawnNext, Tick, Next
<1>4. CASE WaitAgain
  BY <1>4 DEF WaitAgain, Next
<1>5. CASE BeginAudittest \/ EndAudittest
  BY <1>5 DEF BeginAudittest, EndAudittest
<1>6. ASSUME NEW p \in Pid, ReapOne(p) \/ ReapLive(p) PROVE [Next]_vars
  BY <1>6 DEF ReapOne, ReapLive, Next
<1>7. ASSUME NEW p \in Pid, TaskStep(p) PROVE [Next]_vars
  <2>1. CASE ExitCurrent(p)
    BY <2>1 DEF ExitCurrent, Next
  <2>2. CASE ~ExitCurrent(p)
    BY <1>7, <2>2 DEF TaskStep, Trampoline, Syscall, KernelCall, Check, LogLock,
                      LogPush, Act, Sysret
  <2> QED
    BY <2>1, <2>2
<1> QED
  BY <1>1, <1>2, <1>3, <1>4, <1>5, <1>6, <1>7 DEF KernelNext

(* The whole kernel keeps the scheduler's contract (scheduler/mod.rs:      *)
(* 159-350, 532-573), whatever programs call and kshell spawns and reaps.  *)
THEOREM KernelTakesTurns == KernelSpec => Spec
<1>1. KernelInit => Init
  BY DEF KernelInit
<1> QED
  BY <1>1, KernelStep, PTL DEF KernelSpec, Spec

(* With system calls, too, the queue is exact, one task runs, and an exit  *)
(* finds a task to go on with.                                             *)
THEOREM KernelQueueExact == KernelSpec => [](QueueExact /\ OneRunning /\ NeverHalts)
  BY KernelTakesTurns, NobodyLost, OneTaskRuns, ExitAlwaysFindsTask, PTL

-----------------------------------------------------------------------------
LEMMA KInvInit == KernelInit => KInv
<1> SUFFICES ASSUME KernelInit PROVE KInv
  OBVIOUS
<1>1. /\ MaxPid \in Nat /\ Shell \in Pid /\ Pid = 1 .. MaxPid /\ 0 \notin Pid
  BY RoundRobinAssumption DEF Pid, Shell
<1>2. /\ << >> \in Seq(Programs) /\ << >> \in Seq(Calls) /\ << >> \in Seq(Event)
      /\ Len(<< >>) = 0
  OBVIOUS
<1>3. Idle \in Doings
  BY <1>2 DEF Idle, Cmds, Doings
<1>4. task = [p \in Pid |-> [at |-> "run", todo |-> << >>, caps |-> {}, user |-> FALSE,
                            ok |-> FALSE, left |-> 0]]
  BY DEF KernelInit, Started
<1>5. KernelTypeOK
  <2>1. task \in [Pid -> Tcbs]
    BY <1>2, <1>4 DEF Tcbs, Places
  <2>2. told \in [Pid -> Seq(Event)] /\ sent \in [Pid -> Nat] /\ log \in Seq(Event)
    BY <1>2 DEF KernelInit
  <2>3. saved \in 0 .. MaxPid /\ frame \in 0 .. MaxPid /\ lock \in 0 .. MaxPid
    BY <1>1 DEF KernelInit
  <2>4. shell = Idle
    BY DEF KernelInit
  <2> QED
    BY <1>3, <2>1, <2>2, <2>3, <2>4 DEF KernelTypeOK
<1>6. Owned
  BY <1>1, <1>2, <1>4 DEF KernelInit, Init, Owned, Awaited, Alone, Dead, CallOwnsStack,
                          Active, InCall, Idle
<1>7. Pending /\ Locked
  BY <1>1, <1>2, <1>4, SyscallAssumption DEF KernelInit, Pending, Locked, Active, Idle
<1> QED
  BY <1>5, <1>6, <1>7 DEF KInv

(* What a step of a task does to its own record, and that it leaves the    *)
(* others' alone.                                                          *)
OnlyTask(p) == /\ task' \in [Pid -> Tcbs]
               /\ task'[p].user = task[p].user
               /\ \A q \in Pid \ {p} : task'[q] = task[q]

LEMMA GoesFacts ==
    ASSUME task \in [Pid -> Tcbs], NEW p \in Pid, NEW place \in Places, Goes(p, place)
    PROVE  /\ OnlyTask(p)
           /\ task'[p].at = place /\ task'[p].todo = task[p].todo
           /\ task'[p].ok = task[p].ok /\ task'[p].left = task[p].left
BY DEF Goes, OnlyTask, Tcbs

LEMMA FinishedFacts ==
    ASSUME task \in [Pid -> Tcbs], NEW p \in Pid, task[p].todo # << >>, Finished(p)
    PROVE  /\ OnlyTask(p)
           /\ task'[p].at = "run" /\ task'[p].todo = Tail(task[p].todo)
           /\ task'[p].ok = task[p].ok /\ task'[p].left = task[p].left
<1>1. Tail(task[p].todo) \in Seq(Calls)
  <2>1. task[p].todo \in Seq(Calls)
    BY DEF Tcbs
  <2> QED
    BY <2>1, HeadTailProperties
<1> QED
  BY <1>1 DEF Finished, OnlyTask, Tcbs, Places

LEMMA DecidesFacts ==
    ASSUME task \in [Pid -> Tcbs], told \in [Pid -> Seq(Event)], NEW p \in Pid,
           NEW ok \in BOOLEAN, task[p].todo # << >>, Decides(p, ok)
    PROVE  /\ OnlyTask(p)
           /\ task'[p].at = "log" /\ task'[p].todo = task[p].todo
           /\ task'[p].ok = ok /\ task'[p].left = task[p].left
           /\ told' \in [Pid -> Seq(Event)]
<1>1. Call(p) \in Calls
  <2>1. task[p].todo \in Seq(Calls)
    BY DEF Tcbs
  <2> QED
    BY <2>1, HeadTailProperties DEF Call
<1>2. [by |-> p, call |-> Call(p).call, ok |-> ok] \in Event
  BY <1>1 DEF Calls, Event
<1>3. told' \in [Pid -> Seq(Event)]
  <2>1. Append(told[p], [by |-> p, call |-> Call(p).call, ok |-> ok]) \in Seq(Event)
    BY <1>2, AppendProperties
  <2> QED
    BY <2>1 DEF Decides
<1> QED
  BY <1>3 DEF Decides, OnlyTask, Tcbs, Places

(* A step of a task that neither begins nor ends its life does not change  *)
(* who may use the stack.                                                  *)
LEMMA Alike ==
    ASSUME KInv, NEW p \in Pid, OnlyTask(p), task[p].at # "gone", task'[p].at # "gone",
           state[p] = "Running", UNCHANGED <<state, shell>>
    PROVE  Awaited' /\ Alone' /\ Dead'
<1>1. \A q \in Pid : Active(q)' = Active(q)
  BY DEF OnlyTask, Active
<1>2. Awaited' /\ Alone'
  BY <1>1 DEF KInv, Owned, Awaited, Alone
<1>3. Dead'
  BY DEF OnlyTask, KInv, Owned, Dead
<1> QED
  BY <1>2, <1>3

(* The stack stays whose it is while nobody enters or leaves a call.       *)
LEMMA StackStays ==
    ASSUME KInv, NEW p \in Pid, OnlyTask(p), UNCHANGED <<saved, frame>>,
           \/ task'[p].at \in {"new", "run", "gone"}
           \/ InCall(p) /\ task'[p].todo = task[p].todo
           \/ ~task[p].user
    PROVE  CallOwnsStack'
BY DEF OnlyTask, KInv, Owned, CallOwnsStack, InCall, Call

(* The call a task is at.                                                  *)
LEMMA CallTyped ==
    ASSUME task \in [Pid -> Tcbs], NEW p \in Pid, task[p].todo # << >>
    PROVE  Call(p) \in Calls /\ Call(p).call \in STRING /\ Call(p).ok \in BOOLEAN
<1>1. task[p].todo \in Seq(Calls)
  BY DEF Tcbs
<1>2. Call(p) \in Calls
  BY <1>1, HeadTailProperties DEF Call
<1> QED
  BY <1>2 DEF Calls

LEMMA NotEmpty == ASSUME NEW s, Len(s) # 0 PROVE s # << >>
<1>1. Len(<< >>) = 0
  BY EmptySeq, Zenon
<1> QED
  BY <1>1, Zenon

(* Calls that end in an exit still do without the first, if that is no exit.*)
LEMMA EndsTail ==
    ASSUME NEW s \in Seq(Calls), Ends(s), Head(s).call # "exit"
    PROVE  Ends(Tail(s))
<1>1. /\ Head(s) = s[1] /\ Tail(s) \in Seq(Calls) /\ Len(Tail(s)) = Len(s) - 1
      /\ \A i \in 1 .. Len(Tail(s)) : Tail(s)[i] = s[i + 1]
  BY HeadTailProperties DEF Ends
<1>2. Len(s) \in Nat /\ Len(s) # 0 /\ Len(s) # 1
  BY <1>1, EmptySeq, LenProperties DEF Ends
<1> DEFINE n == Len(s) - 1
<1>3. n \in 1 .. Len(Tail(s)) /\ Len(Tail(s)) = n /\ n + 1 = Len(s)
  BY <1>1, <1>2
<1>4. Tail(s)[n] = s[Len(s)]
  BY <1>1, <1>3
<1>5. Tail(s) # << >>
  <2>1. Len(Tail(s)) # 0
    BY <1>1, <1>2, <1>3
  <2> QED
    BY <2>1, NotEmpty, Zenon
<1> QED
  BY <1>3, <1>4, <1>5 DEF Ends

(* A task that goes on with the call it is at has it to do still.          *)
LEMMA PendingStays ==
    ASSUME Pending, NEW p \in Pid, OnlyTask(p), UNCHANGED shell, task[p].at # "gone",
           task'[p].todo = task[p].todo, task[p].todo # << >> \/ task'[p].at = "run",
           ~task[p].user \/ Call(p).call # "exit" \/ task'[p].at \in {"run", "exit"}
    PROVE  Pending'
<1>1. /\ \A i \in 1 .. Len(shell'.rest) : Ends(shell'.rest[i].calls)
      /\ shell'.cmd = "spawn" => shell'.rest # << >>
  BY DEF Pending
<1>2. ASSUME NEW q \in Pid
      PROVE  /\ Active(q)' => Ends(task'[q].todo)
             /\ task'[q].at \in {"check", "log", "push", "act", "sysret", "exit"} =>
                    task'[q].todo # << >>
             /\ task'[q].user /\ task'[q].at \in {"check", "log", "push", "act", "sysret"} =>
                    Call(q)'.call # "exit"
  <2>1. CASE q = p
    BY <2>1 DEF Pending, OnlyTask, Active, Call
  <2>2. CASE q # p
    BY <2>2 DEF Pending, OnlyTask, Active, Call
  <2> QED
    BY <2>1, <2>2
<1> QED
  BY <1>1, <1>2 DEF Pending

(* The mutex stays whose it is.                                            *)
LEMMA LockedStays ==
    ASSUME Locked, NEW p \in Pid, OnlyTask(p), UNCHANGED <<log, lock>>,
           task[p].at # "push", task'[p].at # "push"
    PROVE  Locked'
BY DEF Locked, OnlyTask

(* Only an exit makes a Zombie, of the task that has the CPU.              *)
LEMMA NewZombies ==
    ASSUME IndInv, Create \/ Switch \/ Exit \/ UNCHANGED vars,
           NEW q \in Pid, state'[q] = "Zombie", state[q] # "Zombie"
    PROVE  Exit /\ q = current
<1>1. state \in [Pid -> {"none", "Runnable", "Running", "Zombie"}]
  BY DEF IndInv, TypeOK
<1> QED
  BY <1>1 DEF Create, Switch, Exit, vars

(* Each step of a task.                                                    *)
LEMMA TaskStepInv ==
    ASSUME IndInv, KInv, NEW p \in Pid, TaskStep(p)
    PROVE  KInv'
<1>1. /\ KernelTypeOK /\ Owned /\ Pending /\ Locked
      /\ task \in [Pid -> Tcbs] /\ told \in [Pid -> Seq(Event)]
      /\ 0 \notin Pid /\ p \in 0 .. MaxPid /\ MaxPid \in Nat /\ Pid = 1 .. MaxPid
      /\ LogCap \in Nat \ {0} /\ Bytes \in Nat
  BY RoundRobinAssumption, SyscallAssumption DEF KInv, KernelTypeOK, Pid
<1>2. task[p].at # "gone" /\ state[p] = "Running"
  BY DEF IndInv, OneRunning, OnCpu, TaskStep, Trampoline, Syscall, KernelCall, Check, LogLock, LogPush, Act, Sysret,
         ExitCurrent, At
<1>3. CASE Trampoline(p)
  <2>1. /\ OnlyTask(p) /\ task[p].at = "new" /\ task'[p].at = "run"
        /\ task'[p].todo = task[p].todo
    BY <1>1, <1>3, GoesFacts DEF Trampoline, At, Places
  <2>2. UNCHANGED <<state, shell, saved, frame, log, lock, told, sent>>
    BY <1>3 DEF Trampoline, vars
  <2>3. Owned'
    BY <1>2, <2>1, <2>2, Alike, StackStays DEF Owned
  <2>4. KernelTypeOK'
    BY <1>1, <2>1, <2>2 DEF OnlyTask, KernelTypeOK
  <2>5. Pending' /\ Locked'
    BY <1>1, <1>2, <2>1, <2>2, PendingStays, LockedStays
  <2> QED
    BY <2>3, <2>4, <2>5 DEF KInv
<1>4. CASE Syscall(p)
  <2> DEFINE place == CASE Call(p).call \in {"write", "draw"} -> "check"
                        [] Call(p).call = "exit" -> "exit"
                        [] OTHER -> "sysret"
  <2>1. place \in {"check", "exit", "sysret"}
    OBVIOUS
  <2>2. /\ Goes(p, place) /\ task[p].at = "run" /\ task[p].user
        /\ saved' = p /\ frame' = IF Call(p).call = "other" THEN frame ELSE p
        /\ UNCHANGED <<state, shell, log, lock, told, sent>>
    BY <1>4 DEF Syscall, At, vars
  <2>3. /\ OnlyTask(p) /\ task'[p].at \in {"check", "exit", "sysret"}
        /\ task'[p].todo = task[p].todo
    BY <1>1, <2>1, <2>2, GoesFacts DEF Places
  <2>4. Awaited' /\ Alone' /\ Dead'
    BY <1>2, <2>2, <2>3, Alike
  <2>5. CallOwnsStack'
    <3>1. ASSUME NEW q \in Pid, InCall(q)' PROVE q = p
      BY <1>1, <2>2, <2>3, <3>1 DEF OnlyTask, Owned, Alone, Active, InCall
    <3> QED
      BY <2>2, <2>3, <3>1 DEF CallOwnsStack, Call
  <2>6. KernelTypeOK'
    BY <1>1, <2>2, <2>3 DEF OnlyTask, KernelTypeOK
  <2>7. task[p].todo # << >>
    BY <1>1, <2>2 DEF Pending, Active, Ends
  <2>8. Call(p).call # "exit" \/ task'[p].at = "exit"
    BY <1>1, <2>2, GoesFacts, <2>1 DEF Places
  <2>9. Pending' /\ Locked'
    BY <1>1, <1>2, <2>2, <2>3, <2>7, <2>8, PendingStays, LockedStays
  <2> QED
    BY <2>4, <2>5, <2>6, <2>9 DEF KInv, Owned
<1>5. CASE KernelCall(p)
  <2>1. /\ task[p].at = "run" /\ ~task[p].user /\ task[p].todo # << >>
        /\ UNCHANGED <<state, shell, saved, frame, log, lock, sent>>
    BY <1>5 DEF KernelCall, At, vars
  <2>2. Call(p).ok \in BOOLEAN
    BY <1>1, <2>1, CallTyped
  <2>3. /\ OnlyTask(p) /\ task'[p].at \in {"exit", "log"}
        /\ task'[p].todo = task[p].todo /\ told' \in [Pid -> Seq(Event)]
    <3>1. CASE Goes(p, "exit") /\ UNCHANGED told
      BY <1>1, <3>1, GoesFacts DEF Places
    <3>2. CASE Decides(p, Call(p).ok)
      BY <1>1, <2>1, <2>2, <3>2, DecidesFacts
    <3> QED
      BY <1>5, <3>1, <3>2 DEF KernelCall
  <2>4. Owned'
    BY <1>2, <2>1, <2>3, Alike, StackStays DEF Owned
  <2>5. KernelTypeOK'
    BY <1>1, <2>1, <2>3 DEF OnlyTask, KernelTypeOK
  <2>6. Pending' /\ Locked'
    BY <1>1, <1>2, <2>1, <2>3, PendingStays, LockedStays
  <2> QED
    BY <2>4, <2>5, <2>6 DEF KInv
<1>6. CASE Check(p)
  <2>1. /\ task[p].at = "check" /\ task[p].todo # << >>
        /\ UNCHANGED <<state, shell, saved, frame, log, lock, sent>>
    BY <1>1, <1>6 DEF Check, At, vars, Pending
  <2>2. /\ OnlyTask(p) /\ task'[p].at = "log"
        /\ task'[p].todo = task[p].todo /\ told' \in [Pid -> Seq(Event)]
    <3>1. (Call(p).call \in task[current].caps) \in BOOLEAN
      OBVIOUS
    <3>2. Decides(p, Call(p).call \in task[current].caps)
      BY <1>6 DEF Check
    <3> QED
      BY <1>1, <2>1, <3>1, <3>2, DecidesFacts
  <2>3. Owned'
    <3>1. CallOwnsStack'
      BY <2>1, <2>2, StackStays DEF InCall
    <3> QED
      BY <1>2, <2>1, <2>2, <3>1, Alike DEF Owned
  <2>4. KernelTypeOK'
    BY <1>1, <2>1, <2>2 DEF OnlyTask, KernelTypeOK
  <2>5. ~task[p].user \/ Call(p).call # "exit"
    BY <1>1, <2>1 DEF Pending
  <2>6. Pending' /\ Locked'
    BY <1>1, <1>2, <2>1, <2>2, <2>5, PendingStays, LockedStays
  <2> QED
    BY <2>3, <2>4, <2>6 DEF KInv
<1>7. CASE LogLock(p)
  <2>1. /\ task[p].at = "log" /\ lock = 0 /\ lock' = p
        /\ UNCHANGED <<state, shell, saved, frame, log, told, sent>>
    BY <1>7 DEF LogLock, At, vars
  <2>2. OnlyTask(p) /\ task'[p].at = "push" /\ task'[p].todo = task[p].todo
    BY <1>1, <1>7, GoesFacts DEF LogLock, Places
  <2>3. Owned'
    <3>1. CallOwnsStack'
      BY <2>1, <2>2, StackStays DEF InCall
    <3> QED
      BY <1>2, <2>1, <2>2, <3>1, Alike DEF Owned
  <2>4. KernelTypeOK'
    BY <1>1, <2>1, <2>2 DEF OnlyTask, KernelTypeOK
  <2>5. task[p].todo # << >> /\ (~task[p].user \/ Call(p).call # "exit")
    BY <1>1, <2>1 DEF Pending
  <2>6. Pending'
    BY <1>1, <1>2, <2>1, <2>2, <2>5, PendingStays
  <2>7. Locked'
    BY <1>1, <2>1, <2>2 DEF Locked, OnlyTask
  <2> QED
    BY <2>3, <2>4, <2>6, <2>7 DEF KInv
<1>8. CASE LogPush(p)
  <2>1. /\ task[p].at = "push" /\ task[p].todo # << >>
        /\ lock = p /\ lock' = 0
        /\ UNCHANGED <<state, shell, saved, frame, told, sent>>
    BY <1>1, <1>8 DEF LogPush, At, vars, Pending, Locked
  <2>2. log' \in Seq(Event) /\ Len(log') <= LogCap
    <3>1. log \in Seq(Event) /\ Len(log) \in Nat /\ Len(log) <= LogCap
      BY <1>1 DEF KernelTypeOK, Locked
    <3>2. /\ Kept(log) \in Seq(Event)
          /\ Len(Kept(log)) = IF Len(log) >= LogCap THEN Len(log) - 1 ELSE Len(log)
      BY <1>1, <3>1, HeadTailProperties DEF Kept
    <3>3. [by |-> p, call |-> Call(p).call, ok |-> task[p].ok] \in Event
      <4>1. Call(p) \in Calls
        <5>1. task[p].todo \in Seq(Calls)
          BY <1>1 DEF Tcbs
        <5> QED
          BY <2>1, <5>1, HeadTailProperties DEF Call
      <4>2. task[p].ok \in BOOLEAN
        BY <1>1 DEF Tcbs
      <4> QED
        BY <4>1, <4>2 DEF Calls, Event
    <3>4. log' = Append(Kept(log), [by |-> p, call |-> Call(p).call, ok |-> task[p].ok])
      BY <1>8 DEF LogPush
    <3> QED
      BY <1>1, <3>1, <3>2, <3>3, <3>4, AppendProperties
  <2>3. CASE task[p].user
    <3>1. /\ OnlyTask(p) /\ task'[p].at \in {"act", "sysret"}
          /\ task'[p].todo = task[p].todo
      <4> DEFINE t == [task[p] EXCEPT !.at = IF task[p].ok THEN "act" ELSE "sysret",
                                      !.left = IF Call(p).call = "write" THEN Bytes ELSE 0]
      <4>1. /\ t \in Tcbs /\ t.at \in {"act", "sysret"} /\ t.todo = task[p].todo
            /\ t.user = task[p].user
        BY <1>1 DEF Tcbs, Places
      <4>2. task' = [task EXCEPT ![p] = t]
        BY <1>1, <1>8, <2>3 DEF LogPush, Tcbs
      <4> HIDE DEF t
      <4> QED
        BY <1>1, <4>1, <4>2 DEF OnlyTask
    <3>2. Owned'
      <4>1. CallOwnsStack'
        BY <2>1, <2>3, <3>1, StackStays DEF InCall
      <4> QED
        BY <1>2, <2>1, <3>1, <4>1, Alike DEF Owned
    <3>3. KernelTypeOK'
      BY <1>1, <2>1, <2>2, <3>1 DEF OnlyTask, KernelTypeOK
    <3>4. Call(p).call # "exit"
      BY <1>1, <2>1, <2>3 DEF Pending
    <3>5. Pending'
      BY <1>1, <1>2, <2>1, <3>1, <3>4, PendingStays
    <3>6. Locked'
      BY <1>1, <2>1, <2>2, <3>1 DEF Locked, OnlyTask
    <3> QED
      BY <3>2, <3>3, <3>5, <3>6 DEF KInv
  <2>4. CASE ~task[p].user
    <3>1. OnlyTask(p) /\ task'[p].at = "run"
      BY <1>1, <1>8, <2>1, <2>4, FinishedFacts DEF LogPush
    <3>2. Owned'
      BY <1>2, <2>1, <2>4, <3>1, Alike, StackStays DEF Owned
    <3>3. KernelTypeOK'
      BY <1>1, <2>1, <2>2, <3>1 DEF OnlyTask, KernelTypeOK
    <3>4. Pending'
      BY <1>1, <2>1, <2>4, <3>1 DEF Pending, OnlyTask, Active, Call
    <3>5. Locked'
      BY <1>1, <2>1, <2>2, <3>1 DEF Locked, OnlyTask
    <3> QED
      BY <3>2, <3>3, <3>4, <3>5 DEF KInv
  <2> QED
    BY <2>3, <2>4
<1>9. CASE Act(p)
  <2>1. /\ task[p].at = "act" /\ UNCHANGED <<state, shell, saved, frame, log, lock, told>>
    BY <1>9 DEF Act, At, vars
  <2>2. /\ OnlyTask(p) /\ task'[p].at \in {"act", "sysret"}
        /\ task'[p].todo = task[p].todo /\ sent' \in [Pid -> Nat]
    <3>1. CASE task[p].left > 0
      <4>1. task[p].left \in Nat /\ task[p].left - 1 \in Nat /\ sent[p] + 1 \in Nat
        BY <1>1, <3>1 DEF Tcbs, KernelTypeOK
      <4> DEFINE t == [task[p] EXCEPT !.left = @ - 1,
                                      !.at = IF task[p].left = 1 THEN "sysret" ELSE @]
      <4>2. /\ t \in Tcbs /\ t.at \in {"act", "sysret"} /\ t.todo = task[p].todo
            /\ t.user = task[p].user
        BY <1>1, <2>1, <4>1 DEF Tcbs, Places
      <4>3. task' = [task EXCEPT ![p] = t] /\ sent' = [sent EXCEPT ![p] = @ + 1]
        BY <1>1, <1>9, <3>1 DEF Act, Tcbs
      <4> HIDE DEF t
      <4> QED
        BY <1>1, <4>1, <4>2, <4>3 DEF OnlyTask, KernelTypeOK
    <3>2. CASE ~(task[p].left > 0)
      BY <1>1, <1>9, <3>2, GoesFacts DEF Act, Places, KernelTypeOK
    <3> QED
      BY <3>1, <3>2
  <2>3. Owned'
    <3>1. CallOwnsStack'
      BY <2>1, <2>2, StackStays DEF InCall
    <3> QED
      BY <1>2, <2>1, <2>2, <3>1, Alike DEF Owned
  <2>4. KernelTypeOK'
    BY <1>1, <2>1, <2>2 DEF OnlyTask, KernelTypeOK
  <2>5. task[p].todo # << >> /\ (~task[p].user \/ Call(p).call # "exit")
    BY <1>1, <2>1 DEF Pending
  <2>6. Pending' /\ Locked'
    BY <1>1, <1>2, <2>1, <2>2, <2>5, PendingStays, LockedStays
  <2> QED
    BY <2>3, <2>4, <2>6 DEF KInv
<1>10. CASE Sysret(p)
  <2>1. /\ task[p].at = "sysret" /\ task[p].todo # << >>
        /\ UNCHANGED <<state, shell, saved, frame, log, lock, told, sent>>
    BY <1>1, <1>10 DEF Sysret, At, vars, Pending
  <2>2. CASE task[p].user
    <3>1. InCall(p)
      BY <2>1, <2>2 DEF InCall
    <3>2. saved = p /\ (Call(p).call = "other" \/ frame = p)
      BY <1>1, <3>1 DEF Owned, CallOwnsStack
    <3>3. Finished(p)
      BY <1>10, <3>2 DEF Sysret
    <3>4. OnlyTask(p) /\ task'[p].at = "run" /\ task'[p].todo = Tail(task[p].todo)
      BY <1>1, <2>1, <3>3, FinishedFacts
    <3>5. Ends(Tail(task[p].todo))
      <4>1. /\ task[p].todo \in Seq(Calls) /\ Ends(task[p].todo)
            /\ Head(task[p].todo).call # "exit"
        BY <1>1, <2>1, <2>2 DEF Pending, Active, Tcbs, Call
      <4> QED
        BY <4>1, EndsTail
    <3>6. Owned'
      BY <1>2, <2>1, <3>4, Alike, StackStays DEF Owned
    <3>7. KernelTypeOK'
      BY <1>1, <2>1, <3>4 DEF OnlyTask, KernelTypeOK
    <3>8. Pending'
      BY <1>1, <2>1, <3>4, <3>5 DEF Pending, OnlyTask, Active, Call
    <3>9. Locked'
      BY <1>1, <2>1, <3>4, LockedStays
    <3> QED
      BY <3>6, <3>7, <3>8, <3>9 DEF KInv
  <2>3. CASE ~task[p].user
    <3>1. OnlyTask(p) /\ task'[p].at \in {"run", "wild"}
      BY <1>1, <1>10, <2>1, GoesFacts, FinishedFacts DEF Sysret, Places
    <3>2. Owned'
      BY <1>2, <2>1, <2>3, <3>1, Alike, StackStays DEF Owned
    <3>3. KernelTypeOK'
      BY <1>1, <2>1, <3>1 DEF OnlyTask, KernelTypeOK
    <3>4. Pending'
      BY <1>1, <2>1, <2>3, <3>1 DEF Pending, OnlyTask, Active, Call
    <3>5. Locked'
      BY <1>1, <2>1, <3>1, LockedStays
    <3> QED
      BY <3>2, <3>3, <3>4, <3>5 DEF KInv
  <2> QED
    BY <2>2, <2>3
<1>11. CASE ExitCurrent(p)
  <2>1. /\ task[p].at = "exit" /\ current = p /\ Exit
        /\ UNCHANGED <<shell, saved, frame, log, lock, told, sent>>
    BY <1>11 DEF ExitCurrent, At, OnCpu
  <2>2. OnlyTask(p) /\ task'[p].at = "gone" /\ task'[p].todo = task[p].todo
    BY <1>1, <1>11, GoesFacts DEF ExitCurrent, Places
  <2>3. \A q \in Pid : Active(q)' => Active(q)
    BY <2>2 DEF OnlyTask, Active
  <2>4. Awaited' /\ Alone'
    BY <1>1, <2>1, <2>3 DEF Owned, Awaited, Alone
  <2>5. Dead'
    <3>1. ASSUME NEW q \in Pid, state'[q] = "Zombie" PROVE task'[q].at = "gone"
      <4>1. q = p \/ state[q] = "Zombie"
        BY <2>1, <3>1, NewZombies
      <4> QED
        BY <1>1, <2>2, <4>1 DEF OnlyTask, Owned, Dead
    <3>2. ASSUME NEW q \in Pid, state'[q] = "none" PROVE task'[q].at \in {"run", "gone"}
      <4>1. state[q] = "none"
        BY <2>1, <3>2 DEF Exit, IndInv, TypeOK
      <4> QED
        BY <1>1, <2>2, <4>1 DEF OnlyTask, Owned, Dead
    <3> QED
      BY <3>1, <3>2 DEF Dead
  <2>6. CallOwnsStack'
    BY <2>1, <2>2, StackStays
  <2>7. KernelTypeOK'
    BY <1>1, <2>1, <2>2 DEF OnlyTask, KernelTypeOK
  <2>8. Pending'
    BY <1>1, <2>1, <2>2, <2>3 DEF Pending, OnlyTask, Active, Call
  <2>9. Locked'
    BY <1>1, <2>1, <2>2, LockedStays
  <2> QED
    BY <2>4, <2>5, <2>6, <2>7, <2>8, <2>9 DEF KInv, Owned
<1> QED
  BY <1>3, <1>4, <1>5, <1>6, <1>7, <1>8, <1>9, <1>10, <1>11 DEF TaskStep

-----------------------------------------------------------------------------
(* Each step of kshell.                                                    *)

(* A step that leaves tasks and the log alone.                             *)
LEMMA TasksStay ==
    ASSUME KInv, UNCHANGED <<task, saved, frame, log, lock, told, sent>>
    PROVE  CallOwnsStack' /\ Locked'
BY DEF KInv, Owned, CallOwnsStack, InCall, Call, Locked

LEMMA BeginInv ==
    ASSUME KInv, NEW c \in Commands, Begin(c)
    PROVE  KInv'
<1>1. /\ shell.cmd = "none" /\ shell' = [Idle EXCEPT !.cmd = "spawn", !.rest = c]
      /\ UNCHANGED <<state, task, saved, frame, log, lock, told, sent>>
  BY DEF Begin, Shelling, vars
<1>2. /\ c \in Seq(Programs) /\ c # << >>
      /\ \A i, j \in 1 .. Len(c) : c[i].user /\ c[j].user => i = j
      /\ \A i \in 1 .. Len(c) : Ends(c[i].calls)
  BY SyscallAssumption DEF Ends
<1>3. /\ shell'.cmd = "spawn" /\ shell'.rest = c /\ shell'.pids = {}
      /\ shell' \in Doings
  BY <1>1, <1>2 DEF Idle, Cmds, Doings
<1>4. \A p \in Pid : ~Active(p)
  BY <1>1 DEF KInv, Owned, Awaited
<1>5. Awaited' /\ Alone' /\ Dead'
  BY <1>1, <1>2, <1>3, <1>4 DEF KInv, Owned, Awaited, Alone, Dead, Active
<1>6. KernelTypeOK'
  BY <1>1, <1>3 DEF KInv, KernelTypeOK
<1>7. Pending'
  BY <1>1, <1>2, <1>3, <1>4 DEF KInv, Pending, Active, Call
<1> QED
  BY <1>1, <1>5, <1>6, <1>7, TasksStay DEF KInv, Owned

LEMMA SpawnInv ==
    ASSUME IndInv, KInv, SpawnNext
    PROVE  KInv'
<1>1. /\ shell.cmd = "spawn" /\ shell.rest # << >> /\ shell.rest \in Seq(Programs)
      /\ shell' = [shell EXCEPT !.rest = Tail(@), !.pids = @ \cup {nextPid},
                       !.cmd = IF Len(shell.rest) = 1 THEN "wait" ELSE @]
      /\ task' = [task EXCEPT ![nextPid] = Started(Head(shell.rest))]
      /\ Create /\ UNCHANGED <<saved, frame, log, lock, told, sent>>
  BY DEF SpawnNext, Shelling, KInv, KernelTypeOK, Doings
<1>2. /\ nextPid \in Pid /\ state[nextPid] = "none" /\ nextPid # 0
      /\ state' = [state EXCEPT ![nextPid] = "Runnable"]
  BY <1>1, RoundRobinAssumption DEF Create, IndInv, Unborn, TypeOK, Pid
<1> DEFINE prog == Head(shell.rest)
<1>3. /\ prog = shell.rest[1] /\ prog \in Programs /\ 1 \in 1 .. Len(shell.rest)
      /\ Tail(shell.rest) \in Seq(Programs)
      /\ Len(Tail(shell.rest)) = Len(shell.rest) - 1 /\ Len(shell.rest) \in Nat
      /\ \A i \in 1 .. Len(Tail(shell.rest)) :
            Tail(shell.rest)[i] = shell.rest[i + 1] /\ i + 1 \in 1 .. Len(shell.rest)
  BY <1>1, HeadTailProperties, LenProperties, EmptySeq
<1>4. Ends(prog.calls)
  BY <1>3 DEF KInv, Pending
<1> HIDE DEF prog
<1>5. /\ task \in [Pid -> Tcbs] /\ Started(prog) \in Tcbs
      /\ task'[nextPid] = Started(prog) /\ task' \in [Pid -> Tcbs]
      /\ \A q \in Pid \ {nextPid} : task'[q] = task[q]
  <2>1. task \in [Pid -> Tcbs]
    BY DEF KInv, KernelTypeOK
  <2>2. Started(prog) \in Tcbs
    BY <1>3 DEF Started, Programs, Tcbs, Places
  <2> QED
    BY <1>1, <1>2, <2>1, <2>2 DEF prog
<1>6. /\ Started(prog).todo = prog.calls /\ Started(prog).at \in {"new", "run"}
      /\ Started(prog).user = prog.user
  BY DEF Started
<1>7. /\ shell' \in Doings
      /\ shell'.cmd \in {"spawn", "wait"}
      /\ shell'.cmd = "spawn" => Len(shell.rest) # 1
      /\ shell'.rest = Tail(shell.rest)
      /\ shell'.pids = shell.pids \cup {nextPid}
  <2>1. shell \in Doings
    BY DEF KInv, KernelTypeOK
  <2> QED
    BY <1>1, <1>2, <1>3, <2>1 DEF Cmds, Doings
<1>8. KernelTypeOK'
  BY <1>1, <1>5, <1>7 DEF KInv, KernelTypeOK
<1>9. Awaited'
  BY <1>1, <1>5, <1>7 DEF KInv, Owned, Awaited, Active
<1>10. Alone'
  <2>1. ASSUME NEW p \in Pid, NEW q \in Pid, Active(p)', Active(q)' PROVE p = q
    <3>1. CASE p = nextPid /\ q # nextPid
      BY <1>3, <1>5, <1>6, <2>1, <3>1 DEF KInv, Owned, Alone, Active
    <3>2. CASE q = nextPid /\ p # nextPid
      BY <1>3, <1>5, <1>6, <2>1, <3>2 DEF KInv, Owned, Alone, Active
    <3>3. CASE p # nextPid /\ q # nextPid
      BY <1>5, <2>1, <3>3 DEF KInv, Owned, Alone, Active
    <3> QED
      BY <3>1, <3>2, <3>3
  <2>2. ASSUME NEW i \in 1 .. Len(Tail(shell.rest)), NEW j \in 1 .. Len(Tail(shell.rest)),
               Tail(shell.rest)[i].user, Tail(shell.rest)[j].user
        PROVE  i = j
    BY <1>3, <2>2 DEF KInv, Owned, Alone
  <2>3. ASSUME NEW p \in Pid, NEW i \in 1 .. Len(Tail(shell.rest)), Active(p)'
        PROVE  ~Tail(shell.rest)[i].user
    <3>1. CASE p = nextPid
      <4>1. shell.rest[1].user /\ i + 1 # 1
        BY <1>3, <1>5, <1>6, <2>3, <3>1 DEF Active
      <4> QED
        BY <1>3, <4>1 DEF KInv, Owned, Alone
    <3>2. CASE p # nextPid
      BY <1>3, <1>5, <2>3, <3>2 DEF KInv, Owned, Alone, Active
    <3> QED
      BY <3>1, <3>2
  <2> QED
    BY <1>7, <2>1, <2>2, <2>3 DEF Alone
<1>11. Dead'
  BY <1>2, <1>5 DEF KInv, Owned, Dead, IndInv, TypeOK
<1>12. CallOwnsStack'
  BY <1>1, <1>5, <1>6 DEF KInv, Owned, CallOwnsStack, InCall, Call
<1>13. Pending'
  <2>1. \A i \in 1 .. Len(Tail(shell.rest)) : Ends(Tail(shell.rest)[i].calls)
    BY <1>3 DEF KInv, Pending
  <2>2. shell'.cmd = "spawn" => Tail(shell.rest) # << >>
    <3>1. shell'.cmd = "spawn" => Len(Tail(shell.rest)) # 0
      BY <1>3, <1>7
    <3> QED
      BY <3>1, NotEmpty, Zenon
  <2> QED
    BY <1>4, <1>5, <1>6, <1>7, <2>1, <2>2 DEF KInv, Pending, Active, Call
<1>14. Locked'
  <2>1. task[nextPid].at # "push"
    BY <1>2 DEF KInv, Owned, Dead
  <2> QED
    BY <1>1, <1>2, <1>5, <1>6, <2>1 DEF KInv, Locked
<1> QED
  BY <1>8, <1>9, <1>10, <1>11, <1>12, <1>13, <1>14 DEF KInv, Owned

(* Giving the CPU to another task kills nobody.                            *)
LEMMA SwitchKeeps ==
    ASSUME IndInv, KInv, Switch \/ UNCHANGED vars, UNCHANGED <<task, shell>>
    PROVE  Awaited' /\ Alone' /\ Dead'
<1>1. Awaited' /\ Alone'
  BY DEF KInv, Owned, Awaited, Alone, Active
<1>2. ASSUME NEW p \in Pid
      PROVE  /\ state'[p] = "Zombie" => state[p] = "Zombie"
             /\ state'[p] = "none" => state[p] = "none"
  BY DEF Switch, IndInv, TypeOK, vars
<1>3. Dead'
  BY <1>2 DEF KInv, Owned, Dead
<1> QED
  BY <1>1, <1>3

LEMMA TickInv == ASSUME IndInv, KInv, Tick PROVE KInv'
<1>1. Switch /\ UNCHANGED <<shell, task, saved, frame, log, lock, told, sent>>
  BY DEF Tick
<1>2. Pending' /\ KernelTypeOK'
  BY <1>1 DEF KInv, Pending, Active, Call, KernelTypeOK
<1> QED
  BY <1>1, <1>2, SwitchKeeps, TasksStay DEF KInv, Owned

LEMMA WaitInv == ASSUME IndInv, KInv, WaitAgain PROVE KInv'
<1>1. /\ Switch \/ UNCHANGED vars
      /\ shell' = [shell EXCEPT !.tries = @ + 1] /\ shell.cmd = "wait"
      /\ UNCHANGED <<task, saved, frame, log, lock, told, sent>>
  BY DEF WaitAgain, Shelling
<1>2. /\ shell' \in Doings
      /\ shell'.cmd = shell.cmd /\ shell'.rest = shell.rest /\ shell'.pids = shell.pids
  <2>1. shell \in Doings /\ shell.tries + 1 \in Nat
    BY DEF KInv, KernelTypeOK, Doings
  <2> QED
    BY <1>1, <2>1 DEF Doings
<1>3. Awaited' /\ Alone'
  BY <1>1, <1>2 DEF KInv, Owned, Awaited, Alone, Active
<1>4. Dead'
  <2>1. ASSUME NEW p \in Pid
        PROVE  /\ state'[p] = "Zombie" => state[p] = "Zombie"
               /\ state'[p] = "none" => state[p] = "none"
    BY <1>1 DEF Switch, IndInv, TypeOK, vars
  <2> QED
    BY <1>1, <2>1 DEF KInv, Owned, Dead
<1>5. Pending' /\ KernelTypeOK'
  BY <1>1, <1>2 DEF KInv, Pending, Active, Call, KernelTypeOK
<1> QED
  BY <1>1, <1>3, <1>4, <1>5, TasksStay DEF KInv, Owned

(* kshell puts a command behind it, or panics over it, or starts audittest:*)
(* no task is born and nothing is left to spawn.                           *)
LEMMA CommandEnds ==
    ASSUME KInv,
           shell' \in Doings,
           shell'.rest = shell.rest \/ shell'.rest = << >>, shell'.cmd # "spawn",
           \A p \in Pid : Active(p) => p \in shell'.pids /\ shell'.cmd \in {"wait", "panic"},
           UNCHANGED <<task, saved, frame, log, lock, told, sent>>
    PROVE  KernelTypeOK' /\ Awaited' /\ Alone' /\ CallOwnsStack' /\ Pending' /\ Locked'
<1>1. Awaited' /\ KernelTypeOK'
  BY DEF KInv, Awaited, Active, KernelTypeOK
<1>2. Len(<< >>) = 0
  BY EmptySeq, Zenon
<1>3. Alone'
  BY <1>2 DEF KInv, Owned, Alone, Active
<1>4. Pending'
  BY <1>2 DEF KInv, Pending, Active, Call
<1> QED
  BY <1>1, <1>3, <1>4, TasksStay

LEMMA ReapOneInv == ASSUME IndInv, KInv, NEW p \in Pid, ReapOne(p) PROVE KInv'
<1>1. /\ shell.cmd = "wait" /\ state[p] = "Zombie" /\ Reap(p)
      /\ shell' = IF shell.pids = {p} THEN Idle ELSE [shell EXCEPT !.pids = @ \ {p}]
      /\ UNCHANGED <<task, saved, frame, log, lock, told, sent>>
  BY DEF ReapOne, Shelling
<1>2. task[p].at = "gone" /\ ~Active(p)
  BY <1>1 DEF KInv, Owned, Dead, Active
<1>3. /\ shell' \in Doings
      /\ shell'.rest = shell.rest \/ shell'.rest = << >>
      /\ shell'.cmd # "spawn"
      /\ shell.pids # {p} => shell'.cmd = "wait" /\ shell'.pids = shell.pids \ {p}
  <2>1. shell \in Doings /\ << >> \in Seq(Programs)
    BY DEF KInv, KernelTypeOK
  <2>2. CASE shell.pids = {p}
    BY <1>1, <2>1, <2>2 DEF Idle, Cmds, Doings
  <2>3. CASE shell.pids # {p}
    BY <1>1, <2>1, <2>3 DEF Cmds, Doings
  <2> QED
    BY <2>2, <2>3
<1>4. \A q \in Pid : Active(q) => q \in shell'.pids /\ shell'.cmd \in {"wait", "panic"}
  BY <1>2, <1>3 DEF KInv, Owned, Awaited
<1>5. Dead'
  BY <1>1, <1>2 DEF Reap, KInv, Owned, Dead, IndInv, TypeOK
<1> QED
  BY <1>1, <1>3, <1>4, <1>5, CommandEnds DEF KInv, Owned

LEMMA ReapLiveInv == ASSUME KInv, NEW p \in Pid, ReapLive(p) PROVE KInv'
<1>1. /\ shell.cmd = "wait" /\ shell' = [shell EXCEPT !.cmd = "panic"]
      /\ UNCHANGED <<state, task, saved, frame, log, lock, told, sent>>
  BY DEF ReapLive, Shelling, vars
<1>2. /\ shell' \in Doings
      /\ shell'.rest = shell.rest /\ shell'.cmd = "panic" /\ shell'.pids = shell.pids
  BY <1>1 DEF KInv, KernelTypeOK, Cmds, Doings
<1>3. \A q \in Pid : Active(q) => q \in shell'.pids /\ shell'.cmd \in {"wait", "panic"}
  BY <1>2 DEF KInv, Owned, Awaited
<1>4. Dead'
  BY <1>1 DEF KInv, Owned, Dead
<1> QED
  BY <1>1, <1>2, <1>3, <1>4, CommandEnds DEF KInv, Owned

LEMMA EndAudittestInv == ASSUME KInv, EndAudittest PROVE KInv'
<1>1. /\ shell.cmd = "audittest"
      /\ UNCHANGED <<state, task, saved, frame, log, lock, told, sent>>
  BY DEF EndAudittest, Shelling, vars
<1>2. /\ shell' \in Doings
      /\ shell'.rest = << >> /\ shell'.cmd = "none"
  <2>1. Idle \in Doings
    <3>1. << >> \in Seq(Programs)
      OBVIOUS
    <3> QED
      BY <3>1 DEF Idle, Cmds, Doings
  <2>2. PICK v \in {"PASS", "FAIL"} : shell' = [Idle EXCEPT !.verdict = v]
    BY DEF EndAudittest
  <2> QED
    BY <2>1, <2>2 DEF Idle, Cmds, Doings
<1>3. \A q \in Pid : ~Active(q)
  BY <1>1 DEF KInv, Owned, Awaited
<1>4. Dead'
  BY <1>1 DEF KInv, Owned, Dead
<1> QED
  BY <1>1, <1>2, <1>3, <1>4, CommandEnds DEF KInv, Owned

LEMMA BeginAudittestInv == ASSUME IndInv, KInv, Prompt, BeginAudittest PROVE KInv'
<1>1. /\ shell.cmd = "none" /\ shell' = [Idle EXCEPT !.cmd = "audittest", !.before = Len(log)]
      /\ task' = [task EXCEPT ![Shell].todo = Audittest]
      /\ UNCHANGED <<state, saved, frame, log, lock, told, sent>>
  BY DEF BeginAudittest, Shelling, vars
<1>2. /\ shell' \in Doings /\ shell'.cmd = "audittest" /\ shell'.rest = << >>
  <2>1. Len(log) \in Nat /\ << >> \in Seq(Programs)
    BY DEF KInv, KernelTypeOK
  <2> QED
    BY <1>1, <2>1 DEF Idle, Cmds, Doings
<1>3. \A p \in Pid : ~Active(p)
  BY <1>1 DEF KInv, Owned, Awaited
<1>4. /\ Shell \in Pid /\ task \in [Pid -> Tcbs] /\ task[Shell].at = "run"
      /\ ~task[Shell].user
  <2>1. Shell \in Pid
    BY RoundRobinAssumption DEF Pid, Shell
  <2>2. shell.cmd # "audittest"
    BY <1>1
  <2>3. task[Shell].at = "run"
    BY <2>2 DEF Prompt
  <2> QED
    BY <1>3, <2>1, <2>3 DEF Active, KInv, KernelTypeOK
<1>5. OnlyTask(Shell) /\ task'[Shell].at = "run"
  BY <1>1, <1>4, SyscallAssumption DEF OnlyTask, Tcbs
<1>6. \A p \in Pid : ~Active(p)'
  BY <1>3, <1>4, <1>5 DEF Active, OnlyTask
<1>7. KernelTypeOK'
  BY <1>1, <1>2, <1>5 DEF KInv, KernelTypeOK, OnlyTask
<1>8. Len(<< >>) = 0
  BY EmptySeq, Zenon
<1>9. Awaited' /\ Alone'
  BY <1>2, <1>6, <1>8 DEF Awaited, Alone
<1>10. Dead'
  BY <1>1, <1>4, <1>5 DEF KInv, Owned, Dead, OnlyTask
<1>11. CallOwnsStack'
  BY <1>1, <1>4, <1>5, StackStays
<1>12. Pending'
  BY <1>2, <1>4, <1>5, <1>6, <1>8 DEF KInv, Pending, OnlyTask, Call
<1>13. Locked'
  BY <1>1, <1>4, <1>5, LockedStays DEF KInv
<1> QED
  BY <1>7, <1>9, <1>10, <1>11, <1>12, <1>13 DEF KInv, Owned

LEMMA PromptNext ==
    ASSUME IndInv, KInv, Prompt, [KernelNext]_kernelVars
    PROVE  Prompt'
<1>1. CASE UNCHANGED kernelVars
  BY <1>1 DEF kernelVars, Prompt
<1>2. ASSUME NEW c \in Commands, Begin(c) PROVE Prompt'
  BY <1>2 DEF Begin, Shelling, Prompt
<1>3. CASE SpawnNext
  <2>1. nextPid # Shell
    BY <1>3, RoundRobinAssumption DEF IndInv, TypeOK, Shell
  <2>2. shell.cmd # "audittest" /\ task'[Shell] = task[Shell]
    BY <1>3, <2>1 DEF SpawnNext, Shelling, KInv, KernelTypeOK
  <2> QED
    BY <2>2 DEF Prompt
<1>4. CASE WaitAgain \/ Tick
  BY <1>4 DEF WaitAgain, Tick, Shelling, Prompt
<1>5. CASE BeginAudittest
  <2>1. shell'.cmd = "audittest"
    BY <1>5 DEF BeginAudittest, Idle
  <2> QED
    BY <2>1 DEF Prompt
<1>6. CASE EndAudittest
  BY <1>6 DEF EndAudittest, Prompt
<1>7. ASSUME NEW p \in Pid, ReapOne(p) \/ ReapLive(p) PROVE Prompt'
  BY <1>7 DEF ReapOne, ReapLive, Shelling, Prompt
<1>8. ASSUME NEW p \in Pid, TaskStep(p) PROVE Prompt'
  <2>1. shell' = shell
    BY <1>8 DEF TaskStep, Trampoline, Syscall, KernelCall, Check, LogLock, LogPush, Act,
                Sysret, ExitCurrent
  <2>2. CASE p # Shell
    <3>1. task'[Shell] = task[Shell]
      <4>1. Shell \in Pid /\ task \in [Pid -> Tcbs]
        BY RoundRobinAssumption DEF Pid, Shell, KInv, KernelTypeOK
      <4>2. CASE LogPush(p) \/ Act(p)
        BY <2>2, <4>1, <4>2 DEF LogPush, Act, Goes, Finished
      <4>3. CASE ~LogPush(p) /\ ~Act(p)
        BY <1>8, <2>2, <4>1, <4>3 DEF TaskStep, Trampoline, Syscall, KernelCall, Check,
              LogLock, Sysret, ExitCurrent, Goes, Finished, Decides
      <4> QED
        BY <4>2, <4>3
    <3> QED
      BY <2>1, <3>1 DEF Prompt
  <2>3. CASE p = Shell /\ shell.cmd # "audittest"
    <3>1. task[p].at = "run" /\ task[p].todo = << >>
      BY <2>3 DEF Prompt
    <3>2. ~task[p].user
      BY <3>1 DEF KInv, Pending, Active, Ends
    <3> QED
      BY <1>8, <3>1, <3>2 DEF TaskStep, Trampoline, Syscall, KernelCall, Check, LogLock,
                LogPush, Act, Sysret, ExitCurrent, At
  <2> QED
    BY <2>1, <2>2, <2>3 DEF Prompt
<1> QED
  BY <1>1, <1>2, <1>3, <1>4, <1>5, <1>6, <1>7, <1>8 DEF KernelNext

LEMMA KInvNext == IndInv /\ KInv /\ Prompt /\ [KernelNext]_kernelVars => KInv' /\ Prompt'
<1> SUFFICES ASSUME IndInv, KInv, Prompt, [KernelNext]_kernelVars PROVE KInv' /\ Prompt'
  OBVIOUS
<1>1. CASE UNCHANGED kernelVars
  <2>1. Owned'
    BY <1>1 DEF kernelVars, vars, KInv, Owned, Awaited, Alone, Dead, CallOwnsStack, Active,
                InCall, Call
  <2>2. KernelTypeOK' /\ Pending' /\ Locked'
    BY <1>1 DEF kernelVars, vars, KInv, KernelTypeOK, Pending, Locked, Active, Call
  <2> QED
    BY <2>1, <2>2, PromptNext DEF KInv
<1> QED
  BY <1>1, PromptNext, BeginInv, SpawnInv, WaitInv, BeginAudittestInv, EndAudittestInv,
     ReapOneInv, ReapLiveInv, TaskStepInv, TickInv DEF KernelNext

LEMMA PromptInit == KernelInit => Prompt
<1>1. Shell \in Pid
  BY RoundRobinAssumption DEF Pid, Shell
<1> QED
  BY <1>1 DEF KernelInit, Prompt, Started

LEMMA KernelInductive == KernelSpec => []KInv
<1>1. KernelInit => Init
  BY DEF KernelInit
<1>2. Init => IndInv
  BY IndInvInit
<1>3. IndInv /\ [KernelNext]_kernelVars => IndInv'
  BY KernelStep, IndInvNext
<1> QED
  BY <1>1, <1>2, <1>3, KInvInit, PromptInit, KInvNext, PTL DEF KernelSpec

-----------------------------------------------------------------------------
(* A program inside a call owns the one saved stack pointer and the one    *)
(* kernel stack (main.rs:345-560), wherever the timer comes in.            *)
THEOREM StackOwned == KernelSpec => []CallOwnsStack
<1>1. KInv => CallOwnsStack
  BY DEF KInv, Owned
<1> QED
  BY <1>1, KernelInductive, PTL

(* The mutex of the log belongs to the task that is pushing, so no two do, *)
(* and the log is never longer than LOG_CAPACITY (audit.rs:40-75).         *)
THEOREM LogBounded == KernelSpec => []Locked
<1>1. KInv => Locked
  BY DEF KInv
<1> QED
  BY <1>1, KernelInductive, PTL

-----------------------------------------------------------------------------
(* What is on the port.  A decision on its way to the log is the last one  *)
(* in the history, and bytes sent or to be sent are paid for by decisions  *)
(* that the log has had.                                                   *)
Decided(p) == task[p].at \in {"log", "push"} =>
                 /\ told[p] # << >>
                 /\ told[p][Len(told[p])] =
                       [by |-> p, call |-> Call(p).call, ok |-> task[p].ok]
Coming(p)  == IF task[p].at = "act" THEN task[p].left ELSE 0
Paid(p)    == sent[p] + Coming(p) <= Bytes * Writes(Due(p))
Accounts   == \A p \in Pid \ {Shell} : Decided(p) /\ Paid(p)

(* The writes of a history, with its last decision and without it.         *)
LEMMA WritesLast ==
    ASSUME NEW s \in Seq(Event), s # << >>
    PROVE  /\ Writes(s) \in Nat /\ Writes(Front(s)) \in Nat
           /\ Writes(s) >= Writes(Front(s))
           /\ s[Len(s)].call = "write" /\ s[Len(s)].ok =>
                 Writes(s) = Writes(Front(s)) + 1
<1> DEFINE n == Len(s)
           A == {i \in DOMAIN s : s[i].call = "write" /\ s[i].ok}
           B == {i \in DOMAIN Front(s) : Front(s)[i].call = "write" /\ Front(s)[i].ok}
<1>1. n \in Nat /\ n > 0 /\ DOMAIN s = 1 .. n
  BY EmptySeq, LenProperties
<1>2. /\ Front(s) \in Seq(Event) /\ Len(Front(s)) = n - 1
      /\ \A i \in 1 .. n - 1 : Front(s)[i] = s[i]
  <2>1. Front(s) = SubSeq(s, 1, n - 1)
    BY DEF Front
  <2>2. \A i \in 1 .. n - 1 : s[i] \in Event
    BY <1>1
  <2> QED
    BY <1>1, <2>1, <2>2, SubSeqProperties
<1>3. DOMAIN Front(s) = 1 .. n - 1
  BY <1>2, LenProperties
<1>4. A \subseteq 1 .. n /\ B \subseteq 1 .. n /\ IsFiniteSet(1 .. n)
  BY <1>1, <1>3, FS_Interval
<1>5. /\ IsFiniteSet(A) /\ IsFiniteSet(B)
      /\ Cardinality(A) \in Nat /\ Cardinality(B) \in Nat
  BY <1>4, FS_Subset, FS_CardinalityType
<1>6. B \subseteq A /\ Cardinality(B) <= Cardinality(A)
  <2>1. B \subseteq A
    BY <1>1, <1>2, <1>3
  <2> QED
    BY <1>5, <2>1, FS_Subset
<1>7. ASSUME s[n].call = "write" /\ s[n].ok PROVE Cardinality(A) = Cardinality(B) + 1
  <2>1. A = B \cup {n} /\ n \notin B
    BY <1>1, <1>2, <1>3, <1>7
  <2> QED
    BY <1>5, <2>1, FS_AddElement
<1> QED
  BY <1>5, <1>6, <1>7 DEF Writes

(* A decision that is made changes nothing of what the log has had.        *)
LEMMA FrontOfAppend ==
    ASSUME NEW s \in Seq(Event), NEW e \in Event
    PROVE  /\ Front(Append(s, e)) = s /\ Append(s, e) # << >>
           /\ Append(s, e)[Len(Append(s, e))] = e
<1>1. /\ Append(s, e) \in Seq(Event) /\ Len(Append(s, e)) = Len(s) + 1
      /\ \A i \in 1 .. Len(s) : Append(s, e)[i] = s[i]
      /\ Append(s, e)[Len(s) + 1] = e
  BY AppendProperties
<1>2. Front(Append(s, e)) = SubSeq(Append(s, e), 1, Len(s))
  BY <1>1, LenProperties DEF Front
<1>3. /\ SubSeq(Append(s, e), 1, Len(s)) \in Seq(Event)
      /\ Len(SubSeq(Append(s, e), 1, Len(s))) = Len(s)
      /\ \A i \in 1 .. Len(s) : SubSeq(Append(s, e), 1, Len(s))[i] = s[i]
  <2>1. Len(s) \in Nat /\ \A i \in 1 .. Len(s) : Append(s, e)[i] \in Event
    BY <1>1, LenProperties
  <2> QED
    BY <1>1, <2>1, SubSeqProperties
<1>4. Front(Append(s, e)) = s
  BY <1>2, <1>3, SeqEqual
<1>5. Append(s, e) # << >>
  <2>1. Len(Append(s, e)) # 0
    BY <1>1, LenProperties
  <2> QED
    BY <2>1, NotEmpty, Zenon
<1> QED
  BY <1>1, <1>4, <1>5

LEMMA WritesTyped == ASSUME NEW s \in Seq(Event) PROVE Writes(s) \in Nat
<1> DEFINE A == {i \in DOMAIN s : s[i].call = "write" /\ s[i].ok}
<1>1. Len(s) \in Nat /\ DOMAIN s = 1 .. Len(s)
  BY LenProperties
<1>2. A \subseteq 1 .. Len(s) /\ IsFiniteSet(1 .. Len(s))
  BY <1>1, FS_Interval
<1>3. Cardinality(A) \in Nat
  BY <1>2, FS_Subset, FS_CardinalityType
<1> QED
  BY <1>3 DEF Writes

LEMMA Multiplied == \A n, a, b \in Nat : a >= b => n * a >= n * b
OBVIOUS

(* A step of a task keeps its own accounts, and the others'.               *)
LEMMA AccountsTask ==
    ASSUME IndInv, KInv, Accounts, NEW p \in Pid, TaskStep(p)
    PROVE  Accounts'
<1>1. /\ KernelTypeOK /\ Pending /\ Locked /\ task \in [Pid -> Tcbs]
      /\ told \in [Pid -> Seq(Event)] /\ sent \in [Pid -> Nat] /\ Bytes \in Nat
  BY SyscallAssumption DEF KInv, KernelTypeOK
<1>2. ASSUME NEW q \in Pid \ {Shell}, q # p PROVE Decided(q)' /\ Paid(q)'
  <2>1. task'[q] = task[q]
    <3>1. CASE LogPush(p) \/ Act(p)
      BY <1>1, <1>2, <3>1 DEF LogPush, Act, Goes, Finished
    <3>2. CASE ~LogPush(p) /\ ~Act(p)
      BY <1>1, <1>2, <3>2 DEF TaskStep, Trampoline, Syscall, KernelCall, Check, LogLock,
              Sysret, ExitCurrent, Goes, Finished, Decides
    <3> QED
      BY <3>1, <3>2
  <2>2. told'[q] = told[q] /\ sent'[q] = sent[q]
    BY <1>1, <1>2 DEF TaskStep, Trampoline, Syscall, KernelCall, Check, LogLock, LogPush,
              Act, Sysret, ExitCurrent, Decides
  <2> QED
    BY <2>1, <2>2 DEF Accounts, Decided, Paid, Coming, Due, Call
<1>3. ASSUME p # Shell PROVE Decided(p)' /\ Paid(p)'
  <2>1. Decided(p) /\ Paid(p)
    BY <1>3 DEF Accounts
  <2>2. CASE /\ UNCHANGED <<told, sent>>
             /\ task[p].at \notin {"log", "push", "act"}
             /\ task'[p].at \notin {"log", "push", "act"}
    BY <2>1, <2>2 DEF Decided, Paid, Coming, Due
  <2>3. ASSUME NEW ok \in BOOLEAN, Decides(p, ok), UNCHANGED sent,
               task[p].at \in {"run", "check"}, task[p].todo # << >>
        PROVE  Decided(p)' /\ Paid(p)'
    <3> DEFINE e == [by |-> p, call |-> Call(p).call, ok |-> ok]
    <3>1. /\ OnlyTask(p) /\ task'[p].at = "log" /\ task'[p].todo = task[p].todo
          /\ task'[p].ok = ok
      BY <1>1, <2>3, DecidesFacts
    <3>2. e \in Event
      BY <1>1, <2>3, CallTyped DEF Event
    <3>3. told'[p] = Append(told[p], e)
      BY <1>1, <1>3, <2>3 DEF Decides
    <3>4. /\ told'[p] # << >> /\ told'[p][Len(told'[p])] = e
          /\ Due(p)' = told[p]
      <4>1. told[p] \in Seq(Event)
        BY <1>1
      <4> HIDE DEF e
      <4> QED
        BY <3>1, <3>2, <3>3, <4>1, FrontOfAppend DEF Due
    <3>5. Due(p) = told[p] /\ Coming(p) = 0 /\ Coming(p)' = 0
      BY <2>3, <3>1 DEF Due, Coming
    <3>6. Paid(p)'
      BY <2>1, <2>3, <3>4, <3>5 DEF Paid
    <3>7. Decided(p)'
      BY <3>1, <3>4 DEF Decided, Call
    <3> QED
      BY <3>6, <3>7
  <2>4. CASE Trampoline(p)
    BY <1>1, <2>2, <2>4, GoesFacts DEF Trampoline, At, Places
  <2>5. CASE Syscall(p)
    <3> DEFINE place == CASE Call(p).call \in {"write", "draw"} -> "check"
                          [] Call(p).call = "exit" -> "exit"
                          [] OTHER -> "sysret"
    <3>1. Goes(p, place) /\ task[p].at = "run" /\ UNCHANGED <<told, sent>>
      BY <2>5 DEF Syscall, At
    <3>2. place \in {"check", "exit", "sysret"}
      OBVIOUS
    <3> HIDE DEF place
    <3>3. place \in Places
      BY <3>2 DEF Places
    <3>4. task'[p].at = place
      BY <1>1, <3>1, <3>3, GoesFacts
    <3> QED
      BY <2>2, <3>1, <3>2, <3>4
  <2>6. CASE KernelCall(p)
    <3>1. task[p].at = "run" /\ task[p].todo # << >> /\ UNCHANGED sent
      BY <2>6 DEF KernelCall, At
    <3>2. CASE Call(p).call = "exit"
      BY <1>1, <2>2, <2>6, <3>1, <3>2, GoesFacts DEF KernelCall, Places
    <3>3. CASE Call(p).call # "exit"
      <4>1. Decides(p, Call(p).ok) /\ Call(p).ok \in BOOLEAN
        BY <1>1, <2>6, <3>1, <3>3, CallTyped DEF KernelCall
      <4> QED
        BY <2>3, <3>1, <4>1
    <3> QED
      BY <3>2, <3>3
  <2>7. CASE Check(p)
    <3>1. /\ Decides(p, Call(p).call \in task[current].caps) /\ UNCHANGED sent
          /\ task[p].at = "check" /\ task[p].todo # << >>
      BY <1>1, <2>7 DEF Check, At, Pending
    <3>2. (Call(p).call \in task[current].caps) \in BOOLEAN
      OBVIOUS
    <3> QED
      BY <2>3, <3>1, <3>2
  <2>8. CASE LogLock(p)
    <3>1. task[p].at = "log" /\ UNCHANGED <<told, sent>>
      BY <2>8 DEF LogLock, At
    <3>2. /\ task'[p].at = "push" /\ task'[p].todo = task[p].todo
          /\ task'[p].ok = task[p].ok
      BY <1>1, <2>8, GoesFacts DEF LogLock, Places
    <3> QED
      BY <2>1, <3>1, <3>2 DEF Decided, Paid, Coming, Due, Call
  <2>9. CASE LogPush(p)
    <3>1. task[p].at = "push" /\ UNCHANGED <<told, sent>> /\ task[p].todo # << >>
      BY <1>1, <2>9 DEF LogPush, At, Pending
    <3>2. told[p] \in Seq(Event) /\ told[p] # << >> /\ Due(p) = Front(told[p])
      BY <1>1, <2>1, <3>1 DEF Decided, Due
    <3>3. told[p][Len(told[p])].call = Call(p).call /\ told[p][Len(told[p])].ok = task[p].ok
      BY <2>1, <3>1 DEF Decided
    <3>4. /\ task'[p].at \notin {"log", "push"}
          /\ \/ Coming(p)' = 0
             \/ Coming(p)' = Bytes /\ Call(p).call = "write" /\ task[p].ok
      <4>1. CASE task[p].user
        <5> DEFINE t == [task[p] EXCEPT !.at = IF task[p].ok THEN "act" ELSE "sysret",
                                        !.left = IF Call(p).call = "write" THEN Bytes ELSE 0]
        <5>1. /\ t.at = (IF task[p].ok THEN "act" ELSE "sysret")
              /\ t.left = (IF Call(p).call = "write" THEN Bytes ELSE 0)
          BY <1>1 DEF Tcbs
        <5>2. task' = [task EXCEPT ![p] = t]
          BY <1>1, <2>9, <4>1 DEF LogPush, Tcbs
        <5> HIDE DEF t
        <5>3. task'[p] = t
          BY <1>1, <5>2
        <5> QED
          BY <5>1, <5>3 DEF Coming
      <4>2. CASE ~task[p].user
        <5>1. task'[p].at = "run"
          BY <1>1, <2>9, <3>1, <4>2, FinishedFacts DEF LogPush
        <5> QED
          BY <5>1 DEF Coming
      <4> QED
        BY <4>1, <4>2
    <3>5. Due(p)' = told[p] /\ Decided(p)'
      BY <3>1, <3>4 DEF Due, Decided
    <3>6. /\ Writes(told[p]) \in Nat /\ Writes(Front(told[p])) \in Nat
          /\ Writes(told[p]) >= Writes(Front(told[p]))
          /\ Coming(p)' # 0 => Writes(told[p]) = Writes(Front(told[p])) + 1
      BY <3>2, <3>3, <3>4, WritesLast
    <3>7. sent[p] <= Bytes * Writes(Front(told[p])) /\ sent[p] \in Nat
      BY <1>1, <2>1, <3>1, <3>2 DEF Paid, Coming
    <3>8. Paid(p)'
      <4>1. \A a, b \in Nat : a >= b => Bytes * a >= Bytes * b
        BY <1>1, Multiplied
      <4>2. \A a, b \in Nat : a = b + 1 => Bytes * a = Bytes * b + Bytes
        BY <1>1
      <4>3. \A a \in Nat : Bytes * a \in Nat
        BY <1>1
      <4> HIDE DEF Coming
      <4>4. sent[p] + Coming(p)' <= Bytes * Writes(told[p])
        <5>1. CASE Coming(p)' = 0
          BY <3>6, <3>7, <4>1, <4>3, <5>1
        <5>2. CASE Coming(p)' # 0
          <6>1. Bytes * Writes(told[p]) = Bytes * Writes(Front(told[p])) + Bytes
            BY <3>6, <4>2, <5>2
          <6> QED
            BY <1>1, <3>4, <3>6, <3>7, <4>3, <5>2, <6>1
        <5> QED
          BY <5>1, <5>2
      <4> QED
        BY <3>1, <3>5, <4>4 DEF Paid
    <3> QED
      BY <3>5, <3>8
  <2>10. CASE Act(p)
    <3>1. task[p].at = "act" /\ UNCHANGED told /\ task[p].left \in Nat /\ sent[p] \in Nat
      BY <1>1, <2>10 DEF Act, At, Tcbs
    <3>2. /\ task'[p].at \in {"act", "sysret"}
          /\ sent'[p] + Coming(p)' <= sent[p] + task[p].left
      <4>1. CASE task[p].left > 0
        BY <1>1, <2>10, <3>1, <4>1 DEF Act, Coming, Tcbs
      <4>2. CASE ~(task[p].left > 0)
        BY <1>1, <2>10, <3>1, <4>2, GoesFacts DEF Act, Coming, Places
      <4> QED
        BY <4>1, <4>2
    <3>3. Due(p)' = Due(p) /\ Coming(p) = task[p].left /\ Decided(p)'
      BY <3>1, <3>2 DEF Due, Coming, Decided
    <3>4. Paid(p)'
      <4>1. sent'[p] \in Nat /\ Coming(p)' \in Nat
        BY <1>1, <2>10, <3>1, GoesFacts DEF Act, Coming, Tcbs, Places
      <4>2. Due(p) = told[p] /\ told[p] \in Seq(Event)
        BY <1>1, <3>1 DEF Due
      <4>3. Bytes * Writes(Due(p)) \in Nat
        BY <1>1, <4>2, WritesTyped
      <4> QED
        BY <2>1, <3>1, <3>2, <3>3, <4>1, <4>3 DEF Paid
    <3> QED
      BY <3>3, <3>4
  <2>11. CASE Sysret(p)
    <3>1. task[p].at = "sysret" /\ UNCHANGED <<told, sent>> /\ task[p].todo # << >>
      BY <1>1, <2>11 DEF Sysret, At, Pending
    <3>2. task'[p].at \in {"run", "wild"}
      BY <1>1, <2>11, <3>1, GoesFacts, FinishedFacts DEF Sysret, Places
    <3> QED
      BY <2>2, <3>1, <3>2
  <2>12. CASE ExitCurrent(p)
    BY <1>1, <2>2, <2>12, GoesFacts DEF ExitCurrent, At, Places
  <2> QED
    BY <2>4, <2>5, <2>6, <2>7, <2>8, <2>9, <2>10, <2>11, <2>12 DEF TaskStep
<1> QED
  BY <1>2, <1>3 DEF Accounts

LEMMA AccountsNext ==
    ASSUME IndInv, KInv, Accounts, [KernelNext]_kernelVars
    PROVE  Accounts'
<1>1. ASSUME NEW p \in Pid, TaskStep(p) PROVE Accounts'
  BY <1>1, AccountsTask
<1>2. CASE SpawnNext
  <2>1. nextPid \in Pid /\ state[nextPid] = "none"
    BY <1>2, RoundRobinAssumption DEF SpawnNext, Create, IndInv, Unborn, TypeOK, Pid
  <2>2. task[nextPid].at \in {"run", "gone"}
    BY <2>1 DEF KInv, Owned, Dead
  <2>3. /\ task' = [task EXCEPT ![nextPid] = Started(Head(shell.rest))]
        /\ UNCHANGED <<told, sent>> /\ task \in [Pid -> Tcbs]
    BY <1>2 DEF SpawnNext, KInv, KernelTypeOK
  <2>4. task'[nextPid].at \in {"new", "run"}
    BY <2>1, <2>3 DEF Started
  <2>5. ASSUME NEW p \in Pid \ {Shell} PROVE Decided(p)' /\ Paid(p)'
    <3>1. CASE p = nextPid
      BY <2>2, <2>3, <2>4, <3>1 DEF Accounts, Decided, Paid, Coming, Due
    <3>2. CASE p # nextPid
      <4>1. task'[p] = task[p]
        BY <2>3, <3>2
      <4> QED
        BY <2>3, <4>1 DEF Accounts, Decided, Paid, Coming, Due, Call
    <3> QED
      BY <3>1, <3>2
  <2> QED
    BY <2>5 DEF Accounts
<1>3. ASSUME UNCHANGED <<told, sent>>, \A p \in Pid \ {Shell} : task'[p] = task[p]
      PROVE  Accounts'
  BY <1>3 DEF Accounts, Decided, Paid, Coming, Due, Call
<1>4. CASE BeginAudittest
  <2>1. /\ task' = [task EXCEPT ![Shell].todo = Audittest] /\ UNCHANGED <<told, sent>>
        /\ task \in [Pid -> Tcbs]
    BY <1>4 DEF BeginAudittest, KInv, KernelTypeOK
  <2>2. \A p \in Pid \ {Shell} : task'[p] = task[p]
    BY <2>1
  <2> QED
    BY <1>3, <2>1, <2>2
<1>5. ASSUME UNCHANGED <<task, told, sent>> PROVE Accounts'
  BY <1>3, <1>5
<1>6. CASE UNCHANGED kernelVars
  BY <1>5, <1>6 DEF kernelVars
<1>7. ASSUME NEW c \in Commands, Begin(c) PROVE Accounts'
  BY <1>5, <1>7 DEF Begin
<1>8. CASE WaitAgain \/ EndAudittest \/ Tick
  BY <1>5, <1>8 DEF WaitAgain, EndAudittest, Tick
<1>9. ASSUME NEW p \in Pid, ReapOne(p) \/ ReapLive(p) PROVE Accounts'
  BY <1>5, <1>9 DEF ReapOne, ReapLive
<1> QED
  BY <1>1, <1>2, <1>4, <1>6, <1>7, <1>8, <1>9 DEF KernelNext

LEMMA AccountsInit == KernelInit => Accounts
<1> SUFFICES ASSUME KernelInit, NEW p \in Pid \ {Shell} PROVE Decided(p) /\ Paid(p)
  BY DEF Accounts
<1>1. task[p].at = "run" /\ told[p] = << >> /\ sent[p] = 0
  BY DEF KernelInit, Started
<1>2. << >> \in Seq(Event)
  OBVIOUS
<1>3. Bytes * Writes(<< >>) \in Nat
  <2>1. Writes(<< >>) \in Nat
    BY <1>2, WritesTyped
  <2> HIDE DEF Writes
  <2>2. Bytes \in Nat
    BY SyscallAssumption
  <2> QED
    BY <2>1, <2>2
<1> QED
  BY <1>1, <1>3 DEF Decided, Paid, Coming, Due

(* A program has sent nothing that no write of its own allows whose        *)
(* decision is in the log's history: the check, the log entry and the      *)
(* bytes come in that order for every task (main.rs:386-394), wherever     *)
(* the timer comes in between.                                             *)
THEOREM NoByteUnlogged == KernelSpec => []BytesAllowed
<1>1. KernelInit => Init
  BY DEF KernelInit
<1>2. IndInv /\ [KernelNext]_kernelVars => IndInv'
  BY KernelStep, IndInvNext
<1>3. KInv /\ Accounts => BytesAllowed
  <2> SUFFICES ASSUME KInv, Accounts, NEW p \in Pid \ {Shell}
               PROVE  sent[p] <= Bytes * Writes(Due(p))
    BY DEF BytesAllowed
  <2>1. /\ sent[p] \in Nat /\ Coming(p) \in Nat /\ told[p] \in Seq(Event)
        /\ Paid(p) /\ Decided(p) /\ Bytes \in Nat
    BY SyscallAssumption DEF KInv, KernelTypeOK, Tcbs, Coming, Accounts
  <2>2. Writes(Due(p)) \in Nat
    BY <2>1, WritesLast, WritesTyped DEF Due, Decided
  <2>3. Bytes * Writes(Due(p)) \in Nat
    BY <2>1, <2>2
  <2> QED
    BY <2>1, <2>3 DEF Paid
<1>4. IndInv /\ KInv /\ Accounts /\ [KernelNext]_kernelVars => Accounts'
  BY AccountsNext
<1> QED
  BY <1>1, <1>2, <1>3, <1>4, IndInvInit, KernelInductive, AccountsInit, PTL DEF KernelSpec


-----------------------------------------------------------------------------
(* Induction over the numbers, said of the set of those that satisfy       *)
(* something: it has no greatest gap, for the numbers outside it would     *)
(* have a least one.                                                       *)
LEMMA NatInd ==
    ASSUME NEW S, 0 \in S, \A n \in Nat : n \in S => n + 1 \in S
    PROVE  Nat \subseteq S
<1> DEFINE Less == {ss \in Nat \X Nat : ss[1] < ss[2]}
           T    == Nat \ S
<1> SUFFICES ASSUME T # {} PROVE FALSE
  OBVIOUS
<1>1. IsWellFoundedOn(Less, Nat)
  BY NatLessThanWellFounded DEF OpToRel
<1>2. \A j, k \in Nat : j < k => <<j, k>> \in Less
  OBVIOUS
<1>3. T \subseteq Nat
  OBVIOUS
<1> HIDE DEF Less
<1>4. PICK k \in T : \A j \in T : ~(<<j, k>> \in Less)
  <2> HIDE DEF T
  <2> QED
    BY <1>1, <1>3, WFMin
<1>5. k \in Nat /\ k # 0 /\ k - 1 \in Nat /\ (k - 1) + 1 = k
  OBVIOUS
<1>6. k - 1 \in T
  BY <1>5
<1>7. <<k - 1, k>> \in Less
  BY <1>2, <1>5
<1> QED
  BY <1>4, <1>6, <1>7

(* EventsOf by what it adds up event by event.                             *)
Keeps(f, events, p) ==
    f = [i \in 0 .. Len(events) |->
           IF i = 0 THEN << >>
           ELSE IF events[i].by = p THEN Append(f[i - 1], events[i]) ELSE f[i - 1]]

(* There is such a function: it is built one event at a time.              *)
LEMMA KeepsExists ==
    ASSUME NEW s \in Seq(Event), NEW p
    PROVE  \E f : Keeps(f, s, p)
<1> DEFINE Upto(f, n) == f = [i \in 0 .. n |->
              IF i = 0 THEN << >>
              ELSE IF s[i].by = p THEN Append(f[i - 1], s[i]) ELSE f[i - 1]]
           S == {n \in Nat : \E f : Upto(f, n)}
<1>1. 0 \in S
  <2> DEFINE f == [i \in 0 .. 0 |-> << >>]
  <2>1. f = [i \in 0 .. 0 |-> IF i = 0 THEN << >>
              ELSE IF s[i].by = p THEN Append(f[i - 1], s[i]) ELSE f[i - 1]]
    OBVIOUS
  <2> QED
    BY <2>1
<1>2. ASSUME NEW n \in Nat, n \in S PROVE n + 1 \in S
  <2>1. PICK f : Upto(f, n)
    BY <1>2
  <2> DEFINE g == [i \in 0 .. n + 1 |-> IF i <= n THEN f[i]
                     ELSE IF s[i].by = p THEN Append(f[i - 1], s[i]) ELSE f[i - 1]]
             h == [i \in 0 .. n + 1 |-> IF i = 0 THEN << >>
                     ELSE IF s[i].by = p THEN Append(g[i - 1], s[i]) ELSE g[i - 1]]
  <2>2. \A i \in 0 .. n : f[i] = IF i = 0 THEN << >>
              ELSE IF s[i].by = p THEN Append(f[i - 1], s[i]) ELSE f[i - 1]
    BY <2>1
  <2>3. ASSUME NEW i \in 0 .. n + 1 PROVE g[i] = h[i]
    <3>1. CASE i = 0
      BY <2>2, <3>1
    <3>2. CASE i \in 1 .. n
      <4>1. i - 1 \in 0 .. n /\ g[i - 1] = f[i - 1] /\ g[i] = f[i]
        BY <3>2
      <4> QED
        BY <2>2, <3>2, <4>1
    <3>3. CASE i = n + 1
      <4>1. i - 1 \in 0 .. n /\ g[i - 1] = f[i - 1] /\ ~(i <= n) /\ i # 0
        BY <3>3
      <4> QED
        BY <4>1
    <3> QED
      BY <3>1, <3>2, <3>3
  <2>4. g = h
    BY <2>3
  <2>5. Upto(g, n + 1)
    BY <2>4
  <2> HIDE DEF g, h, Upto
  <2> QED
    BY <2>5
<1>3. Nat \subseteq S
  <2> HIDE DEF S
  <2> QED
    BY <1>1, <1>2, NatInd
<1>4. Len(s) \in S
  BY <1>3, LenProperties
<1> QED
  BY <1>4 DEF Keeps

(* What it gives up to each event, and that this is a sequence of events.  *)
LEMMA KeepsFacts ==
    ASSUME NEW s \in Seq(Event), NEW p, NEW f, Keeps(f, s, p)
    PROVE  /\ f[0] = << >>
           /\ \A i \in 1 .. Len(s) :
                f[i] = IF s[i].by = p THEN Append(f[i - 1], s[i]) ELSE f[i - 1]
           /\ \A i \in 0 .. Len(s) : f[i] \in Seq(Event)
<1>1. Len(s) \in Nat
  BY LenProperties
<1> DEFINE F(i) == IF i = 0 THEN << >>
                   ELSE IF s[i].by = p THEN Append(f[i - 1], s[i]) ELSE f[i - 1]
<1>8. f = [i \in 0 .. Len(s) |-> F(i)]
  BY DEF Keeps
<1> HIDE DEF F
<1>9. \A i \in 0 .. Len(s) : f[i] = F(i)
  BY <1>8
<1>2. f[0] = << >> /\ \A i \in 1 .. Len(s) :
          f[i] = IF s[i].by = p THEN Append(f[i - 1], s[i]) ELSE f[i - 1]
  BY <1>1, <1>9 DEF F
<1> DEFINE S == {i \in Nat : i <= Len(s) => f[i] \in Seq(Event)}
<1>3. 0 \in S
  <2>1. << >> \in Seq(Event)
    BY EmptySeq
  <2> QED
    BY <1>2, <2>1
<1>4. ASSUME NEW n \in Nat, n \in S PROVE n + 1 \in S
  <2> SUFFICES ASSUME n + 1 <= Len(s) PROVE f[n + 1] \in Seq(Event)
    OBVIOUS
  <2>1. n + 1 \in 1 .. Len(s) /\ (n + 1) - 1 = n
    BY <1>1
  <2>2. f[n] \in Seq(Event) /\ s[n + 1] \in Event
    BY <1>1, <1>4, <2>1, ElementOfSeq
  <2>3. f[n + 1] = IF s[n + 1].by = p THEN Append(f[n], s[n + 1]) ELSE f[n]
    BY <1>2, <2>1
  <2> QED
    BY <2>2, <2>3, AppendProperties
<1>5. Nat \subseteq S
  <2> HIDE DEF S
  <2> QED
    BY <1>3, <1>4, NatInd
<1> QED
  BY <1>1, <1>2, <1>5

(* EventsOf is the last value of such a function.                          *)
LEMMA EventsOfFcn ==
    ASSUME NEW s \in Seq(Event), NEW p
    PROVE  \E f : Keeps(f, s, p) /\ EventsOf(p, s) = f[Len(s)]
<1> DEFINE g == CHOOSE f : Keeps(f, s, p)
<1>1. Keeps(g, s, p)
  BY KeepsExists
<1>2. EventsOf(p, s) = g[Len(s)]
  BY DEF EventsOf, Keeps
<1> QED
  BY <1>1, <1>2

(* A task's events in a log that one more comes to.                        *)
LEMMA EventsAppend ==
    ASSUME NEW s \in Seq(Event), NEW p, NEW e \in Event
    PROVE  EventsOf(p, Append(s, e)) =
               IF e.by = p THEN Append(EventsOf(p, s), e) ELSE EventsOf(p, s)
<1> DEFINE t == Append(s, e)
<1>1. /\ Len(s) \in Nat /\ t \in Seq(Event) /\ Len(t) = Len(s) + 1
      /\ \A i \in 1 .. Len(s) : t[i] = s[i]
      /\ t[Len(s) + 1] = e
  BY AppendProperties, LenProperties
<1> HIDE DEF t
<1>2. PICK f : Keeps(f, s, p) /\ EventsOf(p, s) = f[Len(s)]
  BY EventsOfFcn
<1>3. PICK g : Keeps(g, t, p) /\ EventsOf(p, t) = g[Len(t)]
  BY <1>1, EventsOfFcn
<1>4. /\ f[0] = << >>
      /\ \A i \in 1 .. Len(s) :
           f[i] = IF s[i].by = p THEN Append(f[i - 1], s[i]) ELSE f[i - 1]
  BY <1>2, KeepsFacts
<1>5. /\ g[0] = << >>
      /\ \A i \in 1 .. Len(t) :
           g[i] = IF t[i].by = p THEN Append(g[i - 1], t[i]) ELSE g[i - 1]
  BY <1>1, <1>3, KeepsFacts
<1> DEFINE S == {i \in Nat : i <= Len(s) => g[i] = f[i]}
<1>6. 0 \in S
  BY <1>4, <1>5
<1>7. ASSUME NEW n \in Nat, n \in S PROVE n + 1 \in S
  <2> SUFFICES ASSUME n + 1 <= Len(s) PROVE g[n + 1] = f[n + 1]
    OBVIOUS
  <2>1. n + 1 \in 1 .. Len(s) /\ n + 1 \in 1 .. Len(t) /\ (n + 1) - 1 = n /\ g[n] = f[n]
    BY <1>1, <1>7
  <2> QED
    BY <1>1, <1>4, <1>5, <2>1
<1>8. Nat \subseteq S
  <2> HIDE DEF S
  <2> QED
    BY <1>6, <1>7, NatInd
<1>9. g[Len(s)] = f[Len(s)]
  BY <1>1, <1>8
<1>10. Len(t) \in 1 .. Len(t) /\ Len(t) - 1 = Len(s)
  BY <1>1
<1>11. g[Len(t)] = IF e.by = p THEN Append(g[Len(s)], e) ELSE g[Len(s)]
  BY <1>1, <1>5, <1>10
<1> QED
  BY <1>2, <1>3, <1>9, <1>11 DEF t

LEMMA EventsTyped ==
    ASSUME NEW s \in Seq(Event), NEW p
    PROVE  EventsOf(p, s) \in Seq(Event)
<1>1. PICK f : Keeps(f, s, p) /\ EventsOf(p, s) = f[Len(s)]
  BY EventsOfFcn
<1>2. Len(s) \in 0 .. Len(s)
  BY LenProperties
<1> QED
  BY <1>1, <1>2, KeepsFacts

(* A task's events in a log that has lost its oldest.                      *)
LEMMA EventsTail ==
    ASSUME NEW s \in Seq(Event), s # << >>, NEW p
    PROVE  EventsOf(p, s) = IF s[1].by = p THEN <<s[1]>> \o EventsOf(p, Tail(s))
                            ELSE EventsOf(p, Tail(s))
<1> DEFINE t == Tail(s)
<1>1. /\ Len(s) \in Nat \ {0} /\ t \in Seq(Event) /\ Len(t) = Len(s) - 1
      /\ \A i \in 1 .. Len(t) : t[i] = s[i + 1]
      /\ s[1] \in Event
  BY HeadTailProperties, EmptySeq, ElementOfSeq
<1> HIDE DEF t
<1>2. PICK f : Keeps(f, s, p) /\ EventsOf(p, s) = f[Len(s)]
  BY EventsOfFcn
<1>3. PICK g : Keeps(g, t, p) /\ EventsOf(p, t) = g[Len(t)]
  BY <1>1, EventsOfFcn
<1>4. /\ f[0] = << >>
      /\ \A i \in 1 .. Len(s) :
           f[i] = IF s[i].by = p THEN Append(f[i - 1], s[i]) ELSE f[i - 1]
  BY <1>2, KeepsFacts
<1>5. /\ g[0] = << >>
      /\ \A i \in 1 .. Len(t) :
           g[i] = IF t[i].by = p THEN Append(g[i - 1], t[i]) ELSE g[i - 1]
      /\ \A i \in 0 .. Len(t) : g[i] \in Seq(Event)
  BY <1>1, <1>3, KeepsFacts
<1> DEFINE Joined(x) == IF s[1].by = p THEN <<s[1]>> \o x ELSE x
           S == {i \in Nat : i <= Len(t) => f[i + 1] = Joined(g[i])}
<1>6. <<s[1]>> \in Seq(Event)
  BY <1>1
<1>7. \A x \in Seq(Event), e \in Event : Append(Joined(x), e) = Joined(Append(x, e))
  <2> SUFFICES ASSUME NEW x \in Seq(Event), NEW e \in Event
               PROVE  Append(<<s[1]>> \o x, e) = <<s[1]>> \o Append(x, e)
    OBVIOUS
  <2>1. <<s[1]>> \o x \in Seq(Event) /\ <<e>> \in Seq(Event)
    BY <1>6, ConcatProperties
  <2>2. Append(<<s[1]>> \o x, e) = (<<s[1]>> \o x) \o <<e>> /\ Append(x, e) = x \o <<e>>
    BY <2>1, AppendIsConcat
  <2> QED
    BY <1>6, <2>1, <2>2, ConcatAssociative
<1>8. f[1] = Joined(g[0])
  <2>1. f[1] = IF s[1].by = p THEN Append(<< >>, s[1]) ELSE << >>
    <3>1. 1 \in 1 .. Len(s)
      BY <1>1
    <3>2. f[1] = IF s[1].by = p THEN Append(f[1 - 1], s[1]) ELSE f[1 - 1]
      BY <1>4, <3>1
    <3>3. f[1 - 1] = << >>
      BY <1>4
    <3> QED
      BY <3>2, <3>3, Zenon
  <2>2. Append(<< >>, s[1]) = << >> \o <<s[1]>>
    BY <1>1, AppendIsConcat, EmptySeq
  <2>3. << >> \o <<s[1]>> = <<s[1]>> /\ <<s[1]>> \o << >> = <<s[1]>>
    BY <1>6, ConcatEmptySeq
  <2> QED
    BY <1>5, <2>1, <2>2, <2>3
<1>9. 0 \in S
  BY <1>8
<1>10. ASSUME NEW n \in Nat, n \in S PROVE n + 1 \in S
  <2> SUFFICES ASSUME n + 1 <= Len(t) PROVE f[n + 2] = Joined(g[n + 1])
    OBVIOUS
  <2>1. /\ n + 1 \in 1 .. Len(t) /\ n + 2 \in 1 .. Len(s) /\ (n + 1) - 1 = n
        /\ (n + 2) - 1 = n + 1 /\ (n + 1) + 1 = n + 2 /\ n \in 0 .. Len(t)
    BY <1>1
  <2>2. f[n + 1] = Joined(g[n]) /\ t[n + 1] = s[n + 2] /\ g[n] \in Seq(Event)
    BY <1>1, <1>5, <1>10, <2>1
  <2>3. s[n + 2] \in Event
    BY <2>1, ElementOfSeq
  <2>4. f[n + 2] = IF s[n + 2].by = p THEN Append(f[n + 1], s[n + 2]) ELSE f[n + 1]
    BY <1>4, <2>1
  <2>5. g[n + 1] = IF s[n + 2].by = p THEN Append(g[n], s[n + 2]) ELSE g[n]
    BY <1>5, <2>1, <2>2
  <2> HIDE DEF Joined
  <2> QED
    BY <1>7, <2>2, <2>3, <2>4, <2>5
<1>11. Nat \subseteq S
  <2> HIDE DEF S
  <2> QED
    BY <1>9, <1>10, NatInd
<1>12. f[Len(s)] = Joined(g[Len(t)])
  <2>1. Len(t) \in Nat /\ Len(t) + 1 = Len(s)
    BY <1>1
  <2>2. f[Len(t) + 1] = Joined(g[Len(t)])
    <3> HIDE DEF Joined
    <3> QED
      BY <1>11, <2>1
  <2> QED
    BY <2>1, <2>2
<1> QED
  BY <1>2, <1>3, <1>12 DEF t

(* Being a suffix, position by position.                                   *)
Behind(s, t) == /\ Len(s) <= Len(t)
                /\ \A i \in 1 .. Len(s) : s[i] = t[Len(t) - Len(s) + i]

LEMMA BehindIsSuffix ==
    ASSUME NEW s \in Seq(Event), NEW t \in Seq(Event), Behind(s, t)
    PROVE  IsSuffix(s, t)
<1> DEFINE m == Len(s)
           n == Len(t)
           a == Reverse(s)
           b == Reverse(t)
<1>1. m \in Nat /\ n \in Nat /\ m <= n
  BY LenProperties DEF Behind
<1>2. /\ a \in Seq(Event) /\ Len(a) = m /\ \A i \in 1 .. m : a[i] = s[m - i + 1]
      /\ b \in Seq(Event) /\ Len(b) = n /\ \A i \in 1 .. n : b[i] = t[n - i + 1]
  <2>1. \A i \in 1 .. m : s[m - i + 1] \in Event
    BY <1>1, ElementOfSeq
  <2>2. \A i \in 1 .. n : t[n - i + 1] \in Event
    BY <1>1, ElementOfSeq
  <2>3. a \in [1 .. m -> Event] /\ b \in [1 .. n -> Event]
    BY <2>1, <2>2 DEF Reverse
  <2> QED
    BY <1>1, <2>3 DEF Reverse
<1> HIDE DEF a, b
<1>3. \A i \in 1 .. m : a[i] = b[i]
  <2> SUFFICES ASSUME NEW i \in 1 .. m PROVE a[i] = b[i]
    OBVIOUS
  <2>1. m - i + 1 \in 1 .. m /\ n - m + (m - i + 1) = n - i + 1 /\ i \in 1 .. n
    BY <1>1
  <2>2. s[m - i + 1] = t[n - i + 1]
    BY <2>1 DEF Behind
  <2>3. a[i] = s[m - i + 1] /\ b[i] = t[n - i + 1]
    BY <1>2, <2>1
  <2> QED
    BY <2>2, <2>3
<1>4. SubSeq(a, 1, m) = SubSeq(b, 1, m)
  BY <1>1, <1>2, <1>3
<1> QED
  BY <1>1, <1>2, <1>4 DEF IsSuffix, IsPrefix, a, b

(* It stays one when both get the same event, and when it loses its first. *)
LEMMA BehindAppend ==
    ASSUME NEW s \in Seq(Event), NEW t \in Seq(Event), NEW e \in Event, Behind(s, t)
    PROVE  Behind(Append(s, e), Append(t, e))
<1>1. /\ Len(s) \in Nat /\ Len(t) \in Nat
      /\ Len(Append(s, e)) = Len(s) + 1 /\ Len(Append(t, e)) = Len(t) + 1
      /\ \A i \in 1 .. Len(s) : Append(s, e)[i] = s[i]
      /\ \A i \in 1 .. Len(t) : Append(t, e)[i] = t[i]
      /\ Append(s, e)[Len(s) + 1] = e /\ Append(t, e)[Len(t) + 1] = e
  BY AppendProperties, LenProperties
<1> DEFINE x == Append(s, e)
           y == Append(t, e)
<1> HIDE DEF x, y
<1>2. ASSUME NEW i \in 1 .. Len(s) + 1
      PROVE  x[i] = y[Len(t) - Len(s) + i]
  <2>1. CASE i = Len(s) + 1
    <3>1. Len(t) - Len(s) + i = Len(t) + 1
      BY <1>1, <2>1
    <3> QED
      BY <1>1, <2>1, <3>1 DEF x, y
  <2>2. CASE i \in 1 .. Len(s)
    <3>1. Len(t) - Len(s) + i \in 1 .. Len(t)
      BY <1>1, <2>2 DEF Behind
    <3> QED
      BY <1>1, <2>2, <3>1 DEF x, y, Behind
  <2> QED
    BY <1>1, <2>1, <2>2
<1>3. Len(x) = Len(s) + 1 /\ Len(y) = Len(t) + 1
      /\ Len(t) + 1 - (Len(s) + 1) = Len(t) - Len(s) /\ Len(s) + 1 <= Len(t) + 1
  BY <1>1 DEF Behind, x, y
<1>4. Behind(x, y)
  BY <1>2, <1>3 DEF Behind
<1> QED
  BY <1>4 DEF x, y

LEMMA BehindShorter ==
    ASSUME NEW s \in Seq(Event), NEW t \in Seq(Event), NEW e \in Event,
           Behind(<<e>> \o s, t)
    PROVE  Behind(s, t)
<1> DEFINE u == <<e>> \o s
<1>1. /\ Len(s) \in Nat /\ Len(t) \in Nat /\ Len(u) = Len(s) + 1
      /\ \A i \in 1 .. Len(s) : u[i + 1] = s[i]
  <2>1. <<e>> \in Seq(Event) /\ Len(<<e>>) = 1
    OBVIOUS
  <2>2. /\ Len(u) = 1 + Len(s) /\ Len(s) \in Nat /\ Len(t) \in Nat
        /\ \A i \in 1 .. 1 + Len(s) : u[i] = IF i <= 1 THEN <<e>>[i] ELSE s[i - 1]
    BY <2>1, ConcatProperties, LenProperties
  <2> HIDE DEF u
  <2>3. ASSUME NEW i \in 1 .. Len(s) PROVE u[i + 1] = s[i]
    <3>1. i + 1 \in 1 .. 1 + Len(s) /\ ~(i + 1 <= 1) /\ (i + 1) - 1 = i
      BY <2>2
    <3> QED
      BY <2>2, <3>1
  <2> QED
    BY <2>2, <2>3
<1>2. Behind(u, t)
  OBVIOUS
<1> HIDE DEF u
<1>3. ASSUME NEW i \in 1 .. Len(s) PROVE s[i] = t[Len(t) - Len(s) + i]
  <2>1. i + 1 \in 1 .. Len(u) /\ Len(t) - Len(u) + (i + 1) = Len(t) - Len(s) + i
    BY <1>1
  <2>2. u[i + 1] = t[Len(t) - Len(u) + (i + 1)]
    BY <1>2, <2>1 DEF Behind
  <2> QED
    BY <1>1, <2>1, <2>2
<1> QED
  BY <1>1, <1>2, <1>3 DEF Behind

-----------------------------------------------------------------------------
(* What AuditTells rests on.  Of a task's decisions the log has the latest *)
(* (Recorded).  While kshell has no command in progress, or audittest, no  *)
(* other task is there to write to the log (Strangers); so what audittest  *)
(* has called by now is what came to the log since it began, as long as    *)
(* the log has never been full (Tested), and a verdict stays right while   *)
(* it stands (Judged).                                                     *)
Recorded == \A p \in Pid \ {Shell} :
    /\ Behind(EventsOf(p, log), Due(p))
    /\ Len(log) < LogCap => EventsOf(p, log) = Due(p)

Strangers ==
    /\ ~task[Shell].user
    /\ \A p \in Pid \ {Shell} : state[p] # "none" =>
          p \in shell.pids /\ shell.cmd \in {"spawn", "wait", "panic"}

Made(i)  == [by |-> Shell, call |-> Audittest[i].call, ok |-> Audittest[i].ok]
Todo     == task[Shell].todo
Done     == Len(Audittest) - Len(Todo)
Tested   == shell.cmd = "audittest" =>
    /\ task[Shell].at \in {"run", "log", "push", "exit"}
    /\ Len(Todo) <= Len(Audittest)
    /\ \A i \in 1 .. Len(Todo) : Todo[i] = Audittest[Done + i]
    /\ task[Shell].at \in {"log", "push"} => task[Shell].ok = Call(Shell).ok
    /\ Len(log) < LogCap =>
          /\ Len(log) = shell.before + Done
          /\ \A i \in 1 .. Done : log[shell.before + i] = Made(i)

Judged ==
    /\ shell.verdict # "none" => shell.cmd = "none"
    /\ shell.verdict = "PASS" => Expected \subseteq ToSet(log)
    /\ shell.verdict = "FAIL" => Len(log) = LogCap

(* What a push leaves in the log: one more event, or one more and the      *)
(* oldest gone.                                                            *)
LEMMA PushLength ==
    ASSUME NEW s \in Seq(Event), NEW e \in Event, Len(s) <= LogCap
    PROVE  /\ Append(Kept(s), e) \in Seq(Event)
           /\ Len(s) < LogCap => Append(Kept(s), e) = Append(s, e)
                                 /\ Len(Append(s, e)) = Len(s) + 1
           /\ Len(s) >= LogCap => /\ Len(Append(Kept(s), e)) = LogCap
                                  /\ s # << >> /\ Kept(s) = Tail(s) /\ Tail(s) \in Seq(Event)
<1>1. LogCap \in Nat \ {0} /\ Len(s) \in Nat
  BY SyscallAssumption, LenProperties
<1>2. CASE Len(s) < LogCap
  <2>1. Kept(s) = s
    BY <1>1, <1>2 DEF Kept
  <2> QED
    BY <1>1, <1>2, <2>1, AppendProperties
<1>3. CASE Len(s) >= LogCap
  <2>1. Len(s) # 0 /\ Kept(s) = Tail(s)
    BY <1>1, <1>3 DEF Kept
  <2>2. s # << >>
    BY <2>1, NotEmpty, Zenon
  <2>3. Tail(s) \in Seq(Event) /\ Len(Tail(s)) = Len(s) - 1
    BY <2>2, HeadTailProperties
  <2>4. /\ Append(Kept(s), e) \in Seq(Event)
        /\ Len(Append(Kept(s), e)) = Len(Tail(s)) + 1
    BY <2>1, <2>3, AppendProperties
  <2>5. Len(Tail(s)) + 1 = LogCap
    <3>1. Len(s) = LogCap
      BY <1>1, <1>3
    <3>2. (Len(s) - 1) + 1 = LogCap
      BY <1>1, <3>1
    <3> QED
      BY <2>3, <3>2
  <2>6. ~(Len(s) < LogCap)
    BY <1>1, <1>3
  <2> QED
    BY <2>1, <2>2, <2>3, <2>4, <2>5, <2>6, Zenon
<1> QED
  BY <1>1, <1>2, <1>3

LEMMA PushKeeps ==
    ASSUME NEW s \in Seq(Event), NEW e \in Event, Len(s) <= LogCap, NEW p,
           NEW t \in Seq(Event), Behind(EventsOf(p, s), t),
           Len(s) < LogCap => EventsOf(p, s) = t
    PROVE  LET u == IF e.by = p THEN Append(t, e) ELSE t
               l == Append(Kept(s), e)
           IN  Behind(EventsOf(p, l), u) /\ (Len(l) < LogCap => EventsOf(p, l) = u)
<1> DEFINE u == IF e.by = p THEN Append(t, e) ELSE t
           l == Append(Kept(s), e)
<1>1. LogCap \in Nat \ {0} /\ Len(s) \in Nat
  BY SyscallAssumption, LenProperties
<1>2. CASE Len(s) < LogCap
  <2>1. l = Append(s, e) /\ EventsOf(p, s) = t
    BY <1>2, PushLength
  <2>2. EventsOf(p, l) = u
    BY <2>1, EventsAppend
  <2>3. u \in Seq(Event)
    BY AppendProperties
  <2> HIDE DEF u, l
  <2>4. Behind(u, u)
    BY <2>3, LenProperties DEF Behind
  <2> QED
    BY <2>2, <2>4 DEF u, l
<1>3. CASE Len(s) >= LogCap
  <2> DEFINE m == EventsOf(p, Tail(s))
  <2>1. /\ l = Append(Tail(s), e) /\ ~(Len(l) < LogCap) /\ s # << >>
        /\ Tail(s) \in Seq(Event)
    BY <1>1, <1>3, PushLength
  <2>2. m \in Seq(Event) /\ s[1] \in Event
    <3>1. 1 \in 1 .. Len(s)
      BY <1>1, <1>3
    <3> QED
      BY <2>1, <3>1, EventsTyped, ElementOfSeq
  <2>3. EventsOf(p, s) = IF s[1].by = p THEN <<s[1]>> \o m ELSE m
    BY <2>1, EventsTail
  <2>4. EventsOf(p, l) = IF e.by = p THEN Append(m, e) ELSE m
    BY <2>1, EventsAppend
  <2> HIDE DEF m, l
  <2>5. Behind(m, t)
    BY <2>2, <2>3, BehindShorter
  <2>6. Behind(EventsOf(p, l), u)
    BY <2>2, <2>4, <2>5, BehindAppend
  <2> QED
    BY <2>1, <2>6 DEF l
<1> QED
  BY <1>1, <1>2, <1>3

(* A task's step is about itself.                                          *)
LEMMA OthersKeep ==
    ASSUME KInv, NEW p \in Pid, TaskStep(p), NEW q \in Pid, q # p
    PROVE  task'[q] = task[q] /\ told'[q] = told[q]
<1>1. task \in [Pid -> Tcbs] /\ told \in [Pid -> Seq(Event)]
  BY DEF KInv, KernelTypeOK
<1>2. task'[q] = task[q]
  <2>1. CASE LogPush(p) \/ Act(p)
    BY <1>1, <2>1 DEF LogPush, Act, Goes, Finished
  <2>2. CASE ~LogPush(p) /\ ~Act(p)
    BY <1>1, <2>2 DEF TaskStep, Trampoline, Syscall, KernelCall, Check, LogLock,
            Sysret, ExitCurrent, Goes, Finished, Decides
  <2> QED
    BY <2>1, <2>2
<1>3. told'[q] = told[q]
  BY <1>1 DEF TaskStep, Trampoline, Syscall, KernelCall, Check, LogLock, LogPush,
            Act, Sysret, ExitCurrent, Decides
<1> QED
  BY <1>2, <1>3

(* Only the push of the task that has the CPU writes to the log.           *)
LEMMA PushFacts ==
    ASSUME IndInv, KInv, NEW p \in Pid, LogPush(p)
    PROVE  LET e == [by |-> p, call |-> Call(p).call, ok |-> task[p].ok] IN
           /\ task[p].at = "push" /\ task[p].todo # << >> /\ e \in Event
           /\ log' = Append(Kept(log), e)
           /\ OnlyTask(p)
           /\ ~task[p].user => task'[p].at = "run" /\ task'[p].todo = Tail(task[p].todo)
           /\ task'[p].at \in {"act", "sysret", "run"}
           /\ UNCHANGED <<shell, told, vars>>
<1>1. /\ task \in [Pid -> Tcbs] /\ Pending /\ Bytes \in Nat
  BY SyscallAssumption DEF KInv, KernelTypeOK
<1>2. task[p].at = "push" /\ task[p].todo # << >>
  BY <1>1 DEF LogPush, At, Pending
<1>3. Call(p) \in Calls /\ task[p] \in Tcbs
  BY <1>1, <1>2, CallTyped
<1>4. [by |-> p, call |-> Call(p).call, ok |-> task[p].ok] \in Event
  BY <1>3 DEF Event, Calls, Tcbs
<1>5. CASE task[p].user
  <2> DEFINE t == [task[p] EXCEPT !.at = IF task[p].ok THEN "act" ELSE "sysret",
                                  !.left = IF Call(p).call = "write" THEN Bytes ELSE 0]
  <2>1. /\ t.at \in {"act", "sysret"} /\ t \in Tcbs /\ t.user = task[p].user
    BY <1>1, <1>3 DEF Tcbs, Places
  <2>2. task' = [task EXCEPT ![p] = t]
    BY <1>1, <1>5 DEF LogPush, Tcbs
  <2> HIDE DEF t
  <2>3. task'[p] = t /\ \A q \in Pid \ {p} : task'[q] = task[q]
    BY <1>1, <2>2
  <2>4. task' \in [Pid -> Tcbs]
    BY <1>1, <2>1, <2>2
  <2> QED
    BY <1>2, <1>4, <1>5, <2>1, <2>3, <2>4 DEF LogPush, OnlyTask
<1>6. CASE ~task[p].user
  <2>1. Finished(p)
    BY <1>6 DEF LogPush
  <2>2. OnlyTask(p) /\ task'[p].at = "run" /\ task'[p].todo = Tail(task[p].todo)
    BY <1>1, <1>2, <2>1, FinishedFacts
  <2> QED
    BY <1>2, <1>4, <2>2 DEF LogPush
<1> QED
  BY <1>5, <1>6

(* A history, and the same without its last decision.                      *)
LEMMA FrontTyped ==
    ASSUME NEW s \in Seq(Event), s # << >>
    PROVE  Front(s) \in Seq(Event) /\ s = Append(Front(s), s[Len(s)])
<1>1. PICK r \in Seq(Event), e \in Event : s = Append(r, e)
  BY SequenceEmptyOrAppend
<1>2. Front(s) = r /\ s[Len(s)] = e
  BY <1>1, FrontOfAppend
<1> QED
  BY <1>1, <1>2

LEMMA RecordedNext ==
    ASSUME IndInv, KInv, Accounts, Recorded, [KernelNext]_kernelVars
    PROVE  Recorded'
<1>1. /\ task \in [Pid -> Tcbs] /\ told \in [Pid -> Seq(Event)] /\ log \in Seq(Event)
      /\ Len(log) <= LogCap /\ Pending
  BY DEF KInv, KernelTypeOK, Locked
<1>2. ASSUME NEW p \in Pid \ {Shell}, log' = log, Due(p)' = Due(p)
      PROVE  /\ Behind(EventsOf(p, log)', Due(p)')
             /\ (Len(log) < LogCap)' => EventsOf(p, log)' = Due(p)'
  BY <1>2 DEF Recorded
<1>3. ASSUME log' = log, \A p \in Pid \ {Shell} : Due(p)' = Due(p)
      PROVE  Recorded'
  BY <1>2, <1>3 DEF Recorded
<1>4. ASSUME NEW p \in Pid, TaskStep(p) PROVE Recorded'
  <2>1. ASSUME NEW q \in Pid \ {Shell}, q # p PROVE Due(q)' = Due(q)
    BY <1>4, <2>1, OthersKeep DEF Due
  <2>2. CASE LogPush(p)
    <3> DEFINE e == [by |-> p, call |-> Call(p).call, ok |-> task[p].ok]
    <3>1. /\ e \in Event /\ log' = Append(Kept(log), e) /\ UNCHANGED told
          /\ task[p].at = "push" /\ task'[p].at \in {"act", "sysret", "run"}
      BY <2>2, PushFacts
    <3>2. e.by = p
      OBVIOUS
    <3>3. ASSUME NEW q \in Pid \ {Shell}
          PROVE  Due(q) \in Seq(Event) /\ Due(q)' = IF p = q THEN Append(Due(q), e) ELSE Due(q)
      <4>1. CASE q # p
        <5>1. Due(q) \in Seq(Event)
          <6>1. told[q] \in Seq(Event)
            BY <1>1
          <6>2. task[q].at \in {"log", "push"} => told[q] # << >>
            BY <3>3 DEF Accounts, Decided
          <6> QED
            BY <6>1, <6>2, FrontTyped DEF Due
        <5> QED
          BY <2>1, <4>1, <5>1
      <4>2. CASE q = p
        <5>1. told[p] \in Seq(Event) /\ told[p] # << >> /\ told[p][Len(told[p])] = e
          BY <1>1, <3>1, <3>3, <4>2 DEF Accounts, Decided
        <5>2. Due(q) = Front(told[p]) /\ Due(q)' = told[p]
          BY <3>1, <4>2 DEF Due
        <5> HIDE DEF e
        <5>3. Front(told[p]) \in Seq(Event) /\ told[p] = Append(Front(told[p]), e)
          BY <5>1, FrontTyped
        <5> QED
          BY <4>2, <5>2, <5>3
      <4> QED
        BY <4>1, <4>2
    <3> HIDE DEF e
    <3>4. ASSUME NEW q \in Pid \ {Shell}
          PROVE  /\ Behind(EventsOf(q, log'), Due(q)')
                 /\ Len(log') < LogCap => EventsOf(q, log') = Due(q)'
      <4>1. /\ Behind(EventsOf(q, log), Due(q))
            /\ Len(log) < LogCap => EventsOf(q, log) = Due(q)
        BY DEF Recorded
      <4>2. Due(q) \in Seq(Event) /\ Due(q)' = IF e.by = q THEN Append(Due(q), e) ELSE Due(q)
        BY <3>2, <3>3
      <4> QED
        BY <1>1, <3>1, <4>1, <4>2, PushKeeps
    <3> QED
      BY <3>4 DEF Recorded
  <2>3. CASE ~LogPush(p)
    <3>1. log' = log
      BY <1>4, <2>3 DEF TaskStep, Trampoline, Syscall, KernelCall, Check, LogLock, Act,
              Sysret, ExitCurrent
    <3>2. ASSUME p # Shell PROVE Due(p)' = Due(p)
      <4>1. ASSUME NEW ok \in BOOLEAN, Decides(p, ok), task[p].at \in {"run", "check"},
                   task[p].todo # << >>
            PROVE  Due(p)' = Due(p)
        <5> DEFINE e == [by |-> p, call |-> Call(p).call, ok |-> ok]
        <5>1. e \in Event /\ told[p] \in Seq(Event)
          BY <1>1, <4>1, CallTyped DEF Event
        <5>2. told'[p] = Append(told[p], e)
          BY <1>1, <3>2, <4>1 DEF Decides
        <5>3. task'[p].at = "log"
          BY <1>1, <4>1, DecidesFacts
        <5> HIDE DEF e
        <5>4. Due(p)' = Front(Append(told[p], e)) /\ Due(p) = told[p]
          BY <4>1, <5>2, <5>3 DEF Due
        <5> QED
          BY <5>1, <5>4, FrontOfAppend
      <4>2. CASE KernelCall(p)
        <5>1. CASE Call(p).call = "exit"
          <6>1. Goes(p, "exit") /\ told' = told /\ task[p].at = "run"
            BY <4>2, <5>1 DEF KernelCall, At
          <6>2. task'[p].at = "exit"
            BY <1>1, <6>1, GoesFacts DEF Places
          <6> QED
            BY <6>1, <6>2 DEF Due
        <5>2. CASE Call(p).call # "exit"
          <6>1. /\ Decides(p, Call(p).ok) /\ task[p].at = "run" /\ task[p].todo # << >>
            BY <4>2, <5>2 DEF KernelCall, At
          <6>2. Call(p).ok \in BOOLEAN
            BY <1>1, <6>1, CallTyped
          <6> QED
            BY <4>1, <6>1, <6>2
        <5> QED
          BY <5>1, <5>2
      <4>3. CASE Check(p)
        <5>1. /\ Decides(p, Call(p).call \in task[current].caps)
              /\ task[p].at = "check" /\ task[p].todo # << >>
          BY <1>1, <4>3 DEF Check, At, Pending
        <5>2. (Call(p).call \in task[current].caps) \in BOOLEAN
          OBVIOUS
        <5> QED
          BY <4>1, <5>1, <5>2
      <4>4. CASE LogLock(p)
        <5>1. task[p].at = "log" /\ told' = told /\ Goes(p, "push")
          BY <4>4 DEF LogLock, At
        <5>2. task'[p].at = "push"
          BY <1>1, <5>1, GoesFacts DEF Places
        <5> QED
          BY <5>1, <5>2 DEF Due
      <4>5. CASE Trampoline(p) \/ Syscall(p) \/ Act(p) \/ Sysret(p) \/ ExitCurrent(p)
        <5>1. /\ told' = told /\ task[p].at \notin {"log", "push"}
          BY <4>5 DEF Trampoline, Syscall, Act, Sysret, ExitCurrent, At
        <5>2. task'[p].at \notin {"log", "push"}
          <6>1. CASE Trampoline(p)
            BY <1>1, <6>1, GoesFacts DEF Trampoline, Places
          <6>2. CASE Syscall(p)
            <7> DEFINE place == CASE Call(p).call \in {"write", "draw"} -> "check"
                                  [] Call(p).call = "exit" -> "exit"
                                  [] OTHER -> "sysret"
            <7>1. place \in {"check", "exit", "sysret"} /\ Goes(p, place)
              BY <6>2 DEF Syscall
            <7> HIDE DEF place
            <7> QED
              BY <1>1, <7>1, GoesFacts DEF Places
          <6>3. CASE Act(p)
            <7>1. CASE task[p].left > 0
              BY <1>1, <6>3, <7>1 DEF Act, At, Tcbs
            <7>2. CASE ~(task[p].left > 0)
              BY <1>1, <6>3, <7>2, GoesFacts DEF Act, Places
            <7> QED
              BY <7>1, <7>2
          <6>4. CASE Sysret(p)
            <7>1. task[p].todo # << >>
              BY <1>1, <6>4 DEF Sysret, At, Pending
            <7> QED
              BY <1>1, <6>4, <7>1, GoesFacts, FinishedFacts DEF Sysret, Places
          <6>5. CASE ExitCurrent(p)
            BY <1>1, <6>5, GoesFacts DEF ExitCurrent, Places
          <6> QED
            BY <4>5, <6>1, <6>2, <6>3, <6>4, <6>5
        <5> QED
          BY <5>1, <5>2 DEF Due
      <4> QED
        BY <1>4, <2>3, <4>2, <4>3, <4>4, <4>5 DEF TaskStep
    <3> QED
      BY <1>3, <2>1, <3>1, <3>2
  <2> QED
    BY <2>2, <2>3
<1>5. CASE SpawnNext
  <2>1. nextPid \in Pid /\ state[nextPid] = "none"
    BY <1>5, RoundRobinAssumption DEF SpawnNext, Create, IndInv, Unborn, TypeOK, Pid
  <2>2. task[nextPid].at \in {"run", "gone"}
    BY <2>1 DEF KInv, Owned, Dead
  <2>3. /\ task' = [task EXCEPT ![nextPid] = Started(Head(shell.rest))]
        /\ UNCHANGED <<told, log>>
    BY <1>5 DEF SpawnNext
  <2>4. task'[nextPid].at \in {"new", "run"}
    BY <1>1, <2>1, <2>3 DEF Started
  <2>5. \A p \in Pid \ {nextPid} : task'[p] = task[p]
    BY <1>1, <2>3
  <2>6. \A p \in Pid \ {Shell} : Due(p)' = Due(p)
    BY <2>2, <2>3, <2>4, <2>5 DEF Due
  <2> QED
    BY <1>3, <2>3, <2>6
<1>6. CASE BeginAudittest
  <2>1. /\ task' = [task EXCEPT ![Shell].todo = Audittest] /\ UNCHANGED <<told, log>>
    BY <1>6 DEF BeginAudittest
  <2>2. \A p \in Pid \ {Shell} : task'[p] = task[p]
    BY <1>1, <2>1
  <2>3. \A p \in Pid \ {Shell} : Due(p)' = Due(p)
    BY <2>1, <2>2 DEF Due
  <2> QED
    BY <1>3, <2>1, <2>3
<1>7. ASSUME UNCHANGED <<task, told, log>> PROVE Recorded'
  BY <1>3, <1>7 DEF Due
<1>8. CASE UNCHANGED kernelVars
  BY <1>7, <1>8 DEF kernelVars
<1>9. ASSUME NEW c \in Commands, Begin(c) PROVE Recorded'
  BY <1>7, <1>9 DEF Begin
<1>10. CASE WaitAgain \/ EndAudittest \/ Tick
  BY <1>7, <1>10 DEF WaitAgain, EndAudittest, Tick
<1>11. ASSUME NEW p \in Pid, ReapOne(p) \/ ReapLive(p) PROVE Recorded'
  BY <1>7, <1>11 DEF ReapOne, ReapLive
<1> QED
  BY <1>4, <1>5, <1>6, <1>8, <1>9, <1>10, <1>11 DEF KernelNext

(* No turn brings a task to life.                                          *)
LEMMA TurnKeeps ==
    ASSUME IndInv, Switch \/ Exit \/ UNCHANGED vars, NEW p \in Pid, state'[p] # "none"
    PROVE  state[p] # "none"
<1>1. /\ state \in [Pid -> {"none", "Runnable", "Running", "Zombie"}]
      /\ queue \in Seq(Pid) /\ OneRunning /\ Queue
  BY DEF IndInv, TypeOK
<1>2. CASE UNCHANGED vars
  BY <1>2 DEF vars
<1>3. CASE Switch \/ Exit
  <2>1. queue # << >> => state[Head(queue)] = "Runnable"
    <3>1. queue # << >> => Head(queue) \in Elements(queue)
      BY <1>1, Popping DEF Queue
    <3> QED
      BY <1>1, <3>1 DEF Queue
  <2>2. p = current => state[p] = "Running"
    BY <1>1 DEF OneRunning
  <2>3. \/ state'[p] = state[p] \/ p = current
        \/ queue # << >> /\ p = Head(queue)
    BY <1>1, <1>3 DEF Switch, Exit
  <2> QED
    BY <2>1, <2>2, <2>3
<1> QED
  BY <1>2, <1>3

(* No step changes a task's ring.                                          *)
LEMMA RingKeeps ==
    ASSUME IndInv, KInv, NEW p \in Pid, TaskStep(p)
    PROVE  task'[p].user = task[p].user
<1>1. task \in [Pid -> Tcbs] /\ task[p] \in Tcbs
  BY DEF KInv, KernelTypeOK
<1>2. CASE LogPush(p)
  BY <1>2, PushFacts DEF OnlyTask
<1>3. CASE Act(p)
  BY <1>1, <1>3 DEF Act, Goes, Tcbs
<1>4. CASE ~LogPush(p) /\ ~Act(p)
  BY <1>1, <1>4 DEF TaskStep, Trampoline, Syscall, KernelCall, Check, LogLock,
            Sysret, ExitCurrent, Goes, Finished, Decides, Tcbs
<1> QED
  BY <1>2, <1>3, <1>4

LEMMA StrangersNext ==
    ASSUME IndInv, KInv, Strangers, [KernelNext]_kernelVars
    PROVE  Strangers'
<1>1. /\ task \in [Pid -> Tcbs] /\ Shell \in Pid /\ shell \in Doings
      /\ state \in [Pid -> {"none", "Runnable", "Running", "Zombie"}]
  BY RoundRobinAssumption DEF KInv, KernelTypeOK, Pid, Shell, IndInv, TypeOK
<1>2. ASSUME task'[Shell].user = task[Shell].user,
             \A p \in Pid \ {Shell} : state'[p] # "none" => state[p] # "none",
             shell'.pids = shell.pids,
             shell'.cmd = shell.cmd \/ shell'.cmd = "panic"
      PROVE  Strangers'
  BY <1>2 DEF Strangers
<1>3. CASE UNCHANGED kernelVars
  BY <1>3 DEF kernelVars, vars, Strangers
<1>4. ASSUME NEW c \in Commands, Begin(c) PROVE Strangers'
  <2>1. shell.cmd = "none" /\ UNCHANGED <<state, task>>
    BY <1>4 DEF Begin, Shelling, vars
  <2> QED
    BY <2>1 DEF Strangers
<1>5. CASE SpawnNext
  <2>1. /\ shell.cmd = "spawn" /\ nextPid # Shell /\ nextPid \in Pid
        /\ state' = [state EXCEPT ![nextPid] = "Runnable"]
        /\ task' = [task EXCEPT ![nextPid] = Started(Head(shell.rest))]
    BY <1>5 DEF SpawnNext, Shelling, Create, IndInv, TypeOK, Shell
  <2>2. shell'.cmd \in {"spawn", "wait"} /\ shell'.pids = shell.pids \cup {nextPid}
    BY <1>1, <1>5, <2>1 DEF SpawnNext, Doings
  <2>3. task'[Shell] = task[Shell]
    BY <1>1, <2>1
  <2> QED
    BY <1>1, <2>1, <2>2, <2>3 DEF Strangers
<1>6. CASE WaitAgain
  <2>1. Switch \/ UNCHANGED vars
    BY <1>6 DEF WaitAgain
  <2>2. shell'.cmd = shell.cmd /\ shell'.pids = shell.pids /\ task' = task
    BY <1>1, <1>6 DEF WaitAgain, Doings
  <2> QED
    BY <1>2, <2>1, <2>2, TurnKeeps
<1>7. CASE Tick
  BY <1>2, <1>7, TurnKeeps DEF Tick
<1>8. CASE BeginAudittest
  <2>1. shell.cmd = "none" /\ UNCHANGED state
    BY <1>8 DEF BeginAudittest, Shelling, vars
  <2>2. task'[Shell].user = task[Shell].user
    BY <1>1, <1>8 DEF BeginAudittest, Tcbs
  <2> QED
    BY <2>1, <2>2 DEF Strangers
<1>9. CASE EndAudittest
  <2>1. shell.cmd = "audittest" /\ UNCHANGED <<state, task>>
    BY <1>9 DEF EndAudittest, Shelling, vars
  <2> QED
    BY <2>1 DEF Strangers
<1>10. ASSUME NEW p \in Pid, ReapOne(p) PROVE Strangers'
  <2>1. /\ shell.cmd = "wait" /\ state' = [state EXCEPT ![p] = "none"] /\ task' = task
        /\ shell' = IF shell.pids = {p} THEN Idle ELSE [shell EXCEPT !.pids = @ \ {p}]
    BY <1>10 DEF ReapOne, Shelling, Reap
  <2>2. CASE shell.pids = {p}
    BY <1>1, <2>1, <2>2 DEF Strangers
  <2>3. CASE shell.pids # {p}
    <3>1. shell'.cmd = shell.cmd /\ shell'.pids = shell.pids \ {p}
      BY <1>1, <2>1, <2>3 DEF Doings
    <3> QED
      BY <1>1, <2>1, <3>1 DEF Strangers
  <2> QED
    BY <2>2, <2>3
<1>11. ASSUME NEW p \in Pid, ReapLive(p) PROVE Strangers'
  <2>1. shell'.cmd = "panic" /\ shell'.pids = shell.pids /\ UNCHANGED <<state, task>>
    BY <1>1, <1>11 DEF ReapLive, vars, Doings
  <2> QED
    BY <1>2, <2>1
<1>12. ASSUME NEW p \in Pid, TaskStep(p) PROVE Strangers'
  <2>1. task'[Shell].user = task[Shell].user
    BY <1>1, <1>12, OthersKeep, RingKeeps
  <2>2. shell' = shell /\ (Exit \/ UNCHANGED vars)
    BY <1>12 DEF TaskStep, Trampoline, Syscall, KernelCall, Check, LogLock, LogPush, Act,
                Sysret, ExitCurrent
  <2> QED
    BY <1>2, <2>1, <2>2, TurnKeeps
<1> QED
  BY <1>3, <1>4, <1>5, <1>6, <1>7, <1>8, <1>9, <1>10, <1>11, <1>12 DEF KernelNext

(* While audittest runs, and while kshell has nothing to do, no task but   *)
(* kshell is there to take a step.                                         *)
LEMMA OnlyShellSteps ==
    ASSUME IndInv, KInv, Strangers, shell.cmd \in {"none", "audittest"},
           NEW p \in Pid, TaskStep(p)
    PROVE  p = Shell /\ ~task[Shell].user
<1>1. p = current
  BY DEF TaskStep, Trampoline, Syscall, KernelCall, Check, LogLock, LogPush, Act, Sysret,
         ExitCurrent, At, OnCpu
<1>2. state[p] = "Running"
  BY <1>1 DEF IndInv, OneRunning
<1> QED
  BY <1>2 DEF Strangers

(* audittest's own steps, one by one.                                      *)
LEMMA TestedStep ==
    ASSUME IndInv, KInv, Strangers, Tested, shell.cmd = "audittest", TaskStep(Shell)
    PROVE  Tested'
<1>1. /\ Shell \in Pid /\ task \in [Pid -> Tcbs] /\ told \in [Pid -> Seq(Event)]
      /\ task[Shell] \in Tcbs /\ ~task[Shell].user /\ Pending
      /\ log \in Seq(Event) /\ Len(log) <= LogCap
  BY RoundRobinAssumption DEF Pid, Shell, KInv, KernelTypeOK, Strangers, Locked
<1>2. /\ Len(Audittest) \in Nat /\ shell.before \in Nat /\ Len(log) \in Nat
      /\ Todo \in Seq(Calls) /\ Len(Todo) \in Nat
  BY <1>1, SyscallAssumption, LenProperties DEF Todo, Tcbs, KInv, KernelTypeOK, Doings
<1>3. /\ task[Shell].at \in {"run", "log", "push", "exit"}
      /\ Len(Todo) <= Len(Audittest)
      /\ \A i \in 1 .. Len(Todo) : Todo[i] = Audittest[Done + i]
      /\ task[Shell].at \in {"log", "push"} => task[Shell].ok = Call(Shell).ok
      /\ Len(log) < LogCap =>
          /\ Len(log) = shell.before + Done
          /\ \A i \in 1 .. Done : log[shell.before + i] = Made(i)
  BY DEF Tested
<1>4. ~(Trampoline(Shell) \/ Syscall(Shell) \/ Check(Shell) \/ Act(Shell) \/ Sysret(Shell)
        \/ ExitCurrent(Shell))
  BY <1>1, <1>3 DEF Trampoline, Syscall, Check, Act, Sysret, ExitCurrent, At, Exit, OnCpu
<1>5. ASSUME task'[Shell].at \in {"run", "log", "push", "exit"},
             task'[Shell].todo = Todo, log' = log, shell' = shell,
             task'[Shell].at \in {"log", "push"} => task'[Shell].ok = Call(Shell).ok
      PROVE  Tested'
  <2>1. Todo' = Todo /\ Done' = Done /\ Call(Shell)' = Call(Shell)
    BY <1>5 DEF Todo, Done, Call
  <2>2. \A i \in Int : Made(i)' = Made(i)
    BY DEF Made
  <2> QED
    BY <1>3, <1>5, <2>1, <2>2 DEF Tested
<1>6. CASE KernelCall(Shell)
  <2>1. /\ task[Shell].at = "run" /\ task[Shell].todo # << >> /\ UNCHANGED <<log, shell>>
    BY <1>6 DEF KernelCall, At
  <2>2. CASE Call(Shell).call = "exit"
    <3>1. Goes(Shell, "exit")
      BY <1>6, <2>2 DEF KernelCall
    <3>2. task'[Shell].at = "exit" /\ task'[Shell].todo = Todo
      BY <1>1, <3>1, GoesFacts DEF Places, Todo
    <3> QED
      BY <1>5, <2>1, <3>2
  <2>3. CASE Call(Shell).call # "exit"
    <3>1. Decides(Shell, Call(Shell).ok) /\ Call(Shell).ok \in BOOLEAN
      BY <1>1, <1>6, <2>1, <2>3, CallTyped DEF KernelCall
    <3>2. /\ task'[Shell].at = "log" /\ task'[Shell].todo = Todo
          /\ task'[Shell].ok = Call(Shell).ok
      BY <1>1, <2>1, <3>1, DecidesFacts DEF Todo
    <3> QED
      BY <1>5, <2>1, <3>2
  <2> QED
    BY <2>2, <2>3
<1>7. CASE LogLock(Shell)
  <2>1. task[Shell].at = "log" /\ UNCHANGED <<log, shell>> /\ Goes(Shell, "push")
    BY <1>7 DEF LogLock, At
  <2>2. /\ task'[Shell].at = "push" /\ task'[Shell].todo = Todo
        /\ task'[Shell].ok = task[Shell].ok
    BY <1>1, <2>1, GoesFacts DEF Places, Todo
  <2> QED
    BY <1>3, <1>5, <2>1, <2>2
<1>8. CASE LogPush(Shell)
  <2> DEFINE e == [by |-> Shell, call |-> Call(Shell).call, ok |-> task[Shell].ok]
  <2>1. /\ task[Shell].at = "push" /\ Todo # << >> /\ e \in Event
        /\ log' = Append(Kept(log), e) /\ shell' = shell
        /\ task'[Shell].at = "run" /\ Todo' = Tail(Todo)
    BY <1>1, <1>8, PushFacts DEF Todo
  <2>2. /\ Tail(Todo) \in Seq(Calls) /\ Len(Tail(Todo)) = Len(Todo) - 1
        /\ \A i \in 1 .. Len(Tail(Todo)) : Tail(Todo)[i] = Todo[i + 1]
        /\ Len(Todo) # 0 /\ Head(Todo) = Todo[1]
    BY <1>2, <2>1, HeadTailProperties, EmptySeq
  <2>3. Done' = Done + 1 /\ Done \in Nat /\ Len(Todo') = Len(Todo) - 1
        /\ Len(Todo') \in Nat /\ Len(Todo') <= Len(Audittest)
    BY <1>2, <1>3, <2>1, <2>2 DEF Done
  <2>4. ASSUME NEW i \in 1 .. Len(Todo') PROVE Todo'[i] = Audittest[Done' + i]
    <3>1. i + 1 \in 1 .. Len(Todo) /\ Done + (i + 1) = Done + 1 + i
      BY <1>2, <2>3
    <3>2. Todo'[i] = Todo[i + 1]
      BY <2>1, <2>2
    <3> QED
      BY <1>3, <2>3, <3>1, <3>2
  <2>5. e = Made(Done + 1)
    <3>1. Todo[1] = Audittest[Done + 1]
      <4>1. 1 \in 1 .. Len(Todo)
        BY <1>2, <2>2
      <4> QED
        BY <1>3, <4>1
    <3>2. Call(Shell) = Audittest[Done + 1] /\ task[Shell].ok = Call(Shell).ok
      BY <1>3, <2>1, <2>2, <3>1 DEF Call, Todo
    <3> QED
      BY <3>2 DEF Made
  <2> HIDE DEF e
  <2>6. ASSUME Len(log') < LogCap
        PROVE  /\ Len(log') = shell.before + Done'
               /\ \A i \in 1 .. Done' : log'[shell.before + i] = Made(i)
    <3>1. Len(log) < LogCap
      <4>1. LogCap \in Nat
        BY SyscallAssumption
      <4> QED
        BY <1>1, <1>2, <2>1, <2>6, <4>1, PushLength
    <3>2. /\ log' = Append(log, e) /\ Len(log') = Len(log) + 1
          /\ \A i \in 1 .. Len(log) : log'[i] = log[i]
          /\ log'[Len(log) + 1] = e
      <4>1. log' = Append(log, e)
        BY <1>1, <2>1, <3>1, PushLength
      <4> QED
        BY <1>1, <2>1, <4>1, AppendProperties
    <3>3. Len(log) = shell.before + Done
      BY <1>3, <3>1
    <3>6. shell.before + (Done + 1) = Len(log) + 1
      <4>1. shell.before \in Nat /\ Done \in Nat
        BY <1>2, <2>3
      <4> QED
        BY <3>3, <4>1
    <3>4. ASSUME NEW i \in 1 .. Done + 1 PROVE log'[shell.before + i] = Made(i)
      <4>1. CASE i = Done + 1
        <5>1. shell.before + i = Len(log) + 1
          BY <3>6, <4>1
        <5> QED
          BY <2>5, <3>2, <4>1, <5>1
      <4>2. CASE i \in 1 .. Done
        <5>1. shell.before + i \in 1 .. Len(log)
          BY <1>2, <2>3, <3>3, <4>2
        <5>2. log[shell.before + i] = Made(i)
          BY <1>3, <3>1, <4>2
        <5> QED
          BY <3>2, <5>1, <5>2
      <4> QED
        BY <2>3, <4>1, <4>2
    <3>5. Len(log') = shell.before + (Done + 1)
      BY <3>2, <3>6
    <3> QED
      BY <2>3, <3>4, <3>5
  <2>7. \A i \in Int : Made(i)' = Made(i)
    BY DEF Made
  <2> QED
    BY <2>1, <2>3, <2>4, <2>6, <2>7 DEF Tested
<1> QED
  BY <1>4, <1>6, <1>7, <1>8 DEF TaskStep

LEMMA TestedNext ==
    ASSUME IndInv, KInv, Prompt, Strangers, Tested, [KernelNext]_kernelVars
    PROVE  Tested'
<1>1. /\ Shell \in Pid /\ task \in [Pid -> Tcbs] /\ shell \in Doings /\ Len(Audittest) \in Nat
      /\ log \in Seq(Event) /\ Len(log) \in Nat
  BY RoundRobinAssumption, SyscallAssumption, LenProperties
  DEF Pid, Shell, KInv, KernelTypeOK
<1>2. ASSUME UNCHANGED <<task, log, shell>> PROVE Tested'
  BY <1>2 DEF Tested, Todo, Done, Made, Call
<1>3. ASSUME shell'.cmd # "audittest" PROVE Tested'
  BY <1>3 DEF Tested
<1>4. CASE UNCHANGED kernelVars \/ Tick
  BY <1>2, <1>4 DEF kernelVars, Tick
<1>5. ASSUME NEW c \in Commands, Begin(c) PROVE Tested'
  BY <1>3, <1>5 DEF Begin, Idle
<1>6. CASE SpawnNext \/ WaitAgain
  <2>1. shell'.cmd \in {"spawn", "wait"}
    BY <1>1, <1>6 DEF SpawnNext, WaitAgain, Shelling, Doings
  <2> QED
    BY <1>3, <2>1
<1>7. CASE EndAudittest
  BY <1>3, <1>7 DEF EndAudittest, Idle
<1>8. ASSUME NEW p \in Pid, ReapOne(p) \/ ReapLive(p) PROVE Tested'
  <2>1. shell'.cmd \in {"none", "wait", "panic"}
    BY <1>1, <1>8 DEF ReapOne, ReapLive, Shelling, Idle, Doings
  <2> QED
    BY <1>3, <2>1
<1>9. CASE BeginAudittest
  <2>1. /\ shell.cmd = "none" /\ shell'.before = Len(log) /\ log' = log
        /\ task' = [task EXCEPT ![Shell].todo = Audittest]
    BY <1>9 DEF BeginAudittest, Shelling, Idle
  <2>2. task[Shell].at = "run"
    BY <2>1 DEF Prompt
  <2>3. task'[Shell].at = "run" /\ Todo' = Audittest
    BY <1>1, <2>1, <2>2 DEF Tcbs, Todo
  <2>4. Done' = 0
    BY <1>1, <2>3 DEF Done
  <2>5. /\ Len(Todo') <= Len(Audittest)
        /\ \A i \in 1 .. Len(Todo') : Todo'[i] = Audittest[Done' + i]
    BY <1>1, <2>3, <2>4
  <2>6. Len(log') = shell'.before + Done'
    BY <1>1, <2>1, <2>4
  <2>7. 1 .. Done' = {}
    BY <2>4
  <2> QED
    BY <2>3, <2>5, <2>6, <2>7 DEF Tested
<1>10. ASSUME NEW p \in Pid, TaskStep(p) PROVE Tested'
  <2>1. shell' = shell
    BY <1>10 DEF TaskStep, Trampoline, Syscall, KernelCall, Check, LogLock, LogPush, Act,
                Sysret, ExitCurrent
  <2>2. CASE shell.cmd = "audittest"
    BY <1>10, <2>2, OnlyShellSteps, TestedStep
  <2> QED
    BY <1>3, <2>1, <2>2
<1> QED
  BY <1>4, <1>5, <1>6, <1>7, <1>8, <1>9, <1>10 DEF KernelNext

LEMMA ToSetOfSeq == ASSUME NEW s \in Seq(Event) PROVE ToSet(s) = { s[i] : i \in 1 .. Len(s) }
<1>1. DOMAIN s = 1 .. Len(s)
  BY LenProperties
<1> QED
  BY <1>1 DEF ToSet

(* What audittest looks at is the log behind what was there before.        *)
LEMMA NewestFacts ==
    ASSUME log \in Seq(Event), NEW b \in Nat
    PROVE  ToSet(Newest(Len(log) - b)) = { log[b + i] : i \in 1 .. Len(log) - b }
<1>1. Len(log) \in Nat
  BY LenProperties
<1> DEFINE n == Len(log)
           s == SubSeq(log, b + 1, n)
<1>2. Newest(n - b) = s
  <2>1. n - (n - b) + 1 = b + 1
    BY <1>1
  <2> QED
    BY <2>1 DEF Newest
<1>3. \A i \in b + 1 .. n : log[i] \in Event
  BY <1>1, ElementOfSeq
<1>4. /\ s \in Seq(Event) /\ Len(s) = IF b + 1 <= n THEN n - (b + 1) + 1 ELSE 0
      /\ \A i \in 1 .. n - (b + 1) + 1 : s[i] = log[b + 1 + i - 1]
  BY <1>1, <1>3, SubSeqProperties
<1> HIDE DEF s
<1>5. 1 .. Len(s) = 1 .. n - b
  BY <1>1, <1>4
<1>6. \A i \in 1 .. n - b : s[i] = log[b + i]
  BY <1>1, <1>4
<1>7. ToSet(s) = { s[i] : i \in 1 .. Len(s) }
  BY <1>4, ToSetOfSeq
<1> HIDE DEF n
<1>8. ToSet(s) = { log[b + i] : i \in 1 .. n - b }
  BY <1>5, <1>6, <1>7
<1> QED
  BY <1>2, <1>8 DEF n

(* The verdict is right when it is given.                                  *)
LEMMA JudgedNow ==
    ASSUME IndInv, KInv, Tested, EndAudittest
    PROVE  Judged'
<1>1. /\ log \in Seq(Event) /\ Len(log) \in Nat /\ shell.before \in Nat /\ Len(log) <= LogCap
      /\ log' = log /\ shell.cmd = "audittest" /\ Todo = << >> /\ LogCap \in Nat
      /\ Len(Audittest) \in Nat
  BY LenProperties, SyscallAssumption
  DEF KInv, KernelTypeOK, Doings, Locked, EndAudittest, Shelling, Todo
<1> DEFINE b == shell.before
           found == Expected \subseteq ToSet(Newest(Len(log) - b))
<1>2. shell' = [Idle EXCEPT !.verdict = IF found THEN "PASS" ELSE "FAIL"]
  BY DEF EndAudittest
<1>3. shell'.cmd = "none" /\ shell'.verdict = IF found THEN "PASS" ELSE "FAIL"
  BY <1>2 DEF Idle
<1>4. ToSet(Newest(Len(log) - b)) = { log[b + i] : i \in 1 .. Len(log) - b }
  BY <1>1, NewestFacts
<1>5. ASSUME found PROVE Expected \subseteq ToSet(log)
  <2>1. ToSet(log) = { log[i] : i \in 1 .. Len(log) }
    BY <1>1, ToSetOfSeq
  <2>2. \A i \in 1 .. Len(log) - b : b + i \in 1 .. Len(log)
    BY <1>1
  <2> QED
    BY <1>4, <1>5, <2>1, <2>2
<1>6. ASSUME Len(log) < LogCap PROVE found
  <2>1. Len(Todo) = 0 /\ Done = Len(Audittest)
    BY <1>1, EmptySeq DEF Done
  <2>2. /\ Len(log) = b + Len(Audittest)
        /\ \A i \in 1 .. Len(Audittest) : log[b + i] = Made(i)
    BY <1>1, <1>6, <2>1 DEF Tested
  <2>3. Expected \subseteq { Made(i) : i \in 1 .. Len(Audittest) }
    BY SyscallAssumption DEF Made
  <2>4. Len(log) - b = Len(Audittest)
    BY <1>1, <2>2
  <2>5. { Made(i) : i \in 1 .. Len(Audittest) }
          = { log[b + i] : i \in 1 .. Len(Audittest) }
    BY <2>2
  <2> QED
    BY <1>4, <2>3, <2>4, <2>5
<1> HIDE DEF found
<1>7. ~found => Len(log) = LogCap
  BY <1>1, <1>6
<1> QED
  BY <1>1, <1>3, <1>5, <1>7 DEF Judged

LEMMA JudgedNext ==
    ASSUME IndInv, KInv, Prompt, Strangers, Tested, Judged, [KernelNext]_kernelVars
    PROVE  Judged'
<1>1. shell \in Doings
  BY DEF KInv, KernelTypeOK
<1>2. ASSUME log' = log, shell'.cmd = shell.cmd, shell'.verdict = shell.verdict PROVE Judged'
  BY <1>2 DEF Judged
<1>3. ASSUME shell'.verdict = "none" PROVE Judged'
  BY <1>3 DEF Judged
<1>4. CASE UNCHANGED kernelVars \/ Tick
  BY <1>2, <1>4 DEF kernelVars, Tick
<1>5. ASSUME NEW c \in Commands, Begin(c) PROVE Judged'
  BY <1>3, <1>5 DEF Begin, Idle
<1>6. ASSUME shell.cmd # "none", shell'.verdict = shell.verdict PROVE Judged'
  BY <1>3, <1>6 DEF Judged
<1>7. CASE SpawnNext \/ WaitAgain
  BY <1>1, <1>6, <1>7 DEF SpawnNext, WaitAgain, Shelling, Doings
<1>8. CASE BeginAudittest
  BY <1>3, <1>8 DEF BeginAudittest, Idle
<1>9. CASE EndAudittest
  BY <1>9, JudgedNow
<1>10. ASSUME NEW p \in Pid, ReapOne(p) \/ ReapLive(p) PROVE Judged'
  <2>1. shell.cmd = "wait" /\ (shell'.verdict = "none" \/ shell'.verdict = shell.verdict)
    BY <1>1, <1>10 DEF ReapOne, ReapLive, Shelling, Idle, Doings
  <2> QED
    BY <1>3, <1>6, <2>1
<1>11. ASSUME NEW p \in Pid, TaskStep(p) PROVE Judged'
  <2>1. shell' = shell
    BY <1>11 DEF TaskStep, Trampoline, Syscall, KernelCall, Check, LogLock, LogPush, Act,
                Sysret, ExitCurrent
  <2>2. CASE shell.cmd = "none"
    <3>1. p = Shell
      BY <1>11, <2>2, OnlyShellSteps
    <3>2. ~LogPush(p)
      BY <2>2, <3>1 DEF Prompt, LogPush, At
    <3>3. log' = log
      BY <1>11, <3>2 DEF TaskStep, Trampoline, Syscall, KernelCall, Check, LogLock, Act,
                Sysret, ExitCurrent
    <3> QED
      BY <1>2, <2>1, <3>3
  <2> QED
    BY <1>6, <2>1, <2>2
<1> QED
  BY <1>4, <1>5, <1>7, <1>8, <1>9, <1>10, <1>11 DEF KernelNext

LEMMA EventsNone ==
    ASSUME NEW s \in Seq(Event), NEW p
    PROVE  Len(s) = 0 => EventsOf(p, s) = << >>
<1>1. PICK f : Keeps(f, s, p) /\ EventsOf(p, s) = f[Len(s)]
  BY EventsOfFcn
<1>2. /\ f[0] = << >>
      /\ \A i \in 1 .. Len(s) :
           f[i] = IF s[i].by = p THEN Append(f[i - 1], s[i]) ELSE f[i - 1]
  BY <1>1, KeepsFacts
<1> QED
  BY <1>1, <1>2

LEMMA LogToldInit == KernelInit => Recorded /\ Strangers /\ Tested /\ Judged
<1> SUFFICES ASSUME KernelInit PROVE Recorded /\ Strangers /\ Tested /\ Judged
  OBVIOUS
<1>1. /\ shell = Idle /\ log = << >> /\ Shell \in Pid
      /\ \A p \in Pid : /\ task[p].at = "run" /\ ~task[p].user /\ told[p] = << >>
                        /\ p # Shell => state[p] = "none"
  BY RoundRobinAssumption DEF KernelInit, Init, Started, Pid, Shell
<1>2. << >> \in Seq(Event) /\ Len(<< >>) = 0
  BY EmptySeq
<1>3. \A p \in Pid : EventsOf(p, << >>) = << >>
  BY <1>2, EventsNone, Zenon
<1>4. Recorded
  <2>1. \A p \in Pid : Due(p) = << >>
    BY <1>1 DEF Due
  <2>2. Behind(<< >>, << >>)
    BY <1>2 DEF Behind
  <2> QED
    BY <1>1, <1>3, <2>1, <2>2 DEF Recorded
<1>5. Strangers /\ Tested /\ Judged
  BY <1>1 DEF Strangers, Tested, Judged, Idle
<1> QED
  BY <1>4, <1>5

(* The audit log tells what was decided (audit.rs:11-15, 54): of each      *)
(* task it holds the latest decisions, in their order, and all of them as  *)
(* long as it is not full; and audittest's verdict is right: PASS stands   *)
(* for events that are there, FAIL is only ever said of a full log.        *)
THEOREM LogTells == KernelSpec => []AuditTells
<1>1. KernelInit => Init
  BY DEF KernelInit
<1>2. IndInv /\ [KernelNext]_kernelVars => IndInv'
  BY KernelStep, IndInvNext
<1>3. IndInv /\ KInv /\ Accounts /\ [KernelNext]_kernelVars => Accounts'
  BY AccountsNext
<1>4. IndInv /\ KInv /\ Accounts /\ Recorded /\ [KernelNext]_kernelVars => Recorded'
  BY RecordedNext
<1>5. IndInv /\ KInv /\ Strangers /\ [KernelNext]_kernelVars => Strangers'
  BY StrangersNext
<1>6. IndInv /\ KInv /\ Prompt /\ Strangers /\ Tested /\ [KernelNext]_kernelVars => Tested'
  BY TestedNext
<1>7. IndInv /\ KInv /\ Prompt /\ Strangers /\ Tested /\ Judged /\ [KernelNext]_kernelVars
          => Judged'
  BY JudgedNext
<1>8. KInv /\ Accounts /\ Recorded /\ Judged => AuditTells
  <2> SUFFICES ASSUME KInv, Accounts, Recorded, Judged PROVE AuditTells
    OBVIOUS
  <2>1. ASSUME NEW p \in Pid \ {Shell}
        PROVE  IsSuffix(Mine(p), Due(p)) /\ (Len(log) < LogCap => Mine(p) = Due(p))
    <3>1. /\ log \in Seq(Event) /\ told[p] \in Seq(Event)
          /\ task[p].at \in {"log", "push"} => told[p] # << >>
      BY DEF KInv, KernelTypeOK, Accounts, Decided
    <3>2. Due(p) \in Seq(Event)
      BY <3>1, FrontTyped DEF Due
    <3>3. Mine(p) = EventsOf(p, log) /\ Mine(p) \in Seq(Event)
      BY <3>1, EventsTyped DEF Mine
    <3>4. Behind(Mine(p), Due(p)) /\ (Len(log) < LogCap => Mine(p) = Due(p))
      BY <3>3 DEF Recorded
    <3> QED
      BY <3>2, <3>3, <3>4, BehindIsSuffix
  <2> QED
    BY <2>1 DEF AuditTells, Judged
<1> QED
  BY <1>1, <1>2, <1>3, <1>4, <1>5, <1>6, <1>7, <1>8, IndInvInit, KInvInit, PromptInit,
     KInvNext, AccountsInit, LogToldInit, PTL DEF KernelSpec
=============================================================================
