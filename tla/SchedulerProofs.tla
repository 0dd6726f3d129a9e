-------------------------- MODULE SchedulerProofs --------------------------
(***************************************************************************)
(* Theorems about the scheduler, for any number of tasks and any bound on  *)
(* the shell's waits.  With any kinds of task and ticks anywhere: the      *)
(* types, that the interrupt handler never spins on a lock, that what is   *)
(* popped can be run and that a Zombie never runs again.  With plain tasks *)
(* and ticks kept out of the scheduler's own code (Quiet): that nothing    *)
(* panics, that a task is resumed where it left its stack, and that tasks  *)
(* take turns as RoundRobin says.                                          *)
(***************************************************************************)
EXTENDS Scheduler, TLAPS, SequenceTheorems, FiniteSetTheorems

-----------------------------------------------------------------------------
(* The inductive invariant.                                                *)

Threads == 0 .. MaxPid
TurnPcs == {"swap", "read", "demote", "push", "pushed", "mark", "save", "load"}

(* An activation is at a place of its own call, and knows the tasks it is   *)
(* about; the boot thread has nowhere to be saved to.                       *)
WellFormed(a) ==
    /\ a.op = "boot"  => a.pc \in TurnPcs \cup {"pop", "popped"} /\ a.prv = Boot
    /\ a.op = "yield" => a.pc \in TurnPcs \cup {"pop", "popped"}
    /\ a.op = "isr"   => a.pc \in TurnPcs
    /\ a.op = "exit"  => a.pc \in {"epop", "epopped", "ecur", "emark", "load"}
    /\ a.op = "spawn" => a.pc \in SpawnPcs
    /\ a.op = "reap"  => a.pc \in ReapPcs
    /\ a.op = "code"  => a.pc \in CodePcs
    /\ a.pc \in TurnPcs \cup {"ecur", "emark"} \cup SpawnPcs \cup ReapPcs => a.nxt \in Pid
    /\ a.pc \in {"push", "pushed"} => a.prv \in Pid

(* A task's own code is at the bottom of its stack, and at most one call of *)
(* try_preempt on top of it, which leaves the CPU at its end only.  Only    *)
(* the shell spawns and reaps.                                             *)
Framed ==
    /\ \A t \in Threads :
          /\ WellFormed(stack[t][1]) /\ stack[t][1].op # "isr"
          /\ t = Boot <=> stack[t][1].op = "boot"
          /\ stack[t][1].op \in {"spawn", "reap"} => t = Shell
          /\ Len(stack[t]) = 2 => /\ WellFormed(stack[t][2]) /\ stack[t][2].op = "isr"
                                  /\ t # Boot
                                  /\ t # cpu => stack[t][2].pc = "load"
    /\ stack[Shell][1].pc \in {"patch", "patched"} => stack[Shell][1].nxt \in iso

(* Interrupts are off under the timer's call and in the boot thread, and    *)
(* then nobody else has a lock that switch_to takes blocking.               *)
IrqMeans == irq <=> (cpu # Boot /\ Len(stack[cpu]) = 1)
OffMeans == ~irq => /\ ~writer
                    /\ rqLocked => Top.pc \in {"popped", "pushed"}

(* The boot thread finds kshell in the queue and never comes back.          *)
AtBoot == cpu = Boot =>
    /\ state[Shell] # "none"
    /\ Top.pc \in {"pop", "popped"} => current = Boot /\ queue = <<Shell>>
    /\ Top.pc = "swap" => current = Boot
    /\ Top.pc \in TurnPcs => Top.nxt = Shell

(* A task without a Tcb yet has not run and is nobody's context.            *)
ToCome(p) == \/ p >= nextPid
             \/ stack[Shell][1].pc \in {"insert", "inserted"} /\ stack[Shell][1].nxt = p

Numbered == stack[Shell][1].pc \in {"insert", "inserted"} => stack[Shell][1].nxt < nextPid

Unborn ==
    /\ \A p \in Pid : ToCome(p) =>
          /\ p # Shell /\ cpu # p /\ state[p] = "none"
          /\ Len(stack[p]) = 1 /\ stack[p][1].pc = "code"
          /\ ctx[p].owner = p /\ ~ctx[p].fresh
          /\ \A q \in Pid : q # p => ctx[q].owner # p
    /\ Numbered

(* A context that is still there was saved by a call that has not gone on,  *)
(* or is the start of a task that has never run.                            *)
FreshAt(c) ==
    /\ c.depth <= Len(stack[c.owner])
    /\ \/ stack[c.owner][c.depth].pc = "load"
       \/ stack[c.owner][1].op = "code" /\ Len(stack[c.owner]) = 1 /\ c.owner # cpu

Fresh == \A p \in Pid : ctx[p].fresh => FreshAt(ctx[p])

(* The read guards of tasks that are held, one by one.                      *)
ReadPcs == {"demote", "push", "pushed", "mark", "access"}
Holders == { h \in Threads \X (1 .. 2) :
                h[2] <= Len(stack[h[1]]) /\ stack[h[1]][h[2]].pc \in ReadPcs }
ReadersExact == readers = Cardinality(Holders)

Inv == /\ TypeOK /\ Framed /\ IrqMeans /\ OffMeans /\ AtBoot
       /\ Unborn /\ Fresh /\ ReadersExact
-----------------------------------------------------------------------------
(* The activation on the CPU.                                              *)

LEMMA Consts == /\ MaxPid \in Nat \ {0} /\ Shell \in Pid /\ Shell \in Threads /\ Boot \in Threads
                /\ Pid \subseteq Threads /\ Boot \notin Pid /\ Pid \subseteq Nat
                /\ Wait \in Nat
BY SchedulerAssumption DEF Shell, Boot, Pid, Threads

LEMMA TopIn ==
    ASSUME Inv
    PROVE  /\ cpu \in Threads /\ stack[cpu] \in Seq(Activation) /\ Depth \in 1 .. 2
           /\ Top \in Activation /\ WellFormed(Top)
           /\ Top.op = "isr" <=> Depth = 2
           /\ Top.op = "boot" <=> cpu = Boot
           /\ Top.op \in {"spawn", "reap"} => cpu = Shell
           /\ Top.op # "isr" => stack[cpu][1] = Top
<1>1. cpu \in Threads /\ stack[cpu] \in Seq(Activation) /\ Len(stack[cpu]) \in 1 .. 2
  BY DEF Inv, TypeOK, Threads
<1>2. Depth \in 1 .. 2 /\ Top \in Activation
  BY <1>1 DEF Depth, Top
<1>3. CASE Depth = 1
  BY <1>1, <1>2, <1>3 DEF Inv, Framed, Top, Depth
<1>4. CASE Depth = 2
  BY <1>1, <1>2, <1>4 DEF Inv, Framed, Top, Depth
<1> QED
  BY <1>1, <1>2, <1>3, <1>4

LEMMA InvInit == Init => Inv
<1> SUFFICES ASSUME Init PROVE Inv
  OBVIOUS
<1>0. /\ MaxPid \in Nat \ {0} /\ Shell \in Pid /\ Shell \in Threads /\ Boot \in Threads
      /\ Pid \subseteq Threads /\ Boot \notin Pid /\ Pid \subseteq Nat /\ Wait \in Nat
  BY Consts
<1> DEFINE base(t) == Frame(IF t = Boot THEN "boot" ELSE "code",
                            IF t = Boot THEN "pop" ELSE "code", 0)
<1>1. \A t \in Threads : /\ base(t) \in Activation /\ WellFormed(base(t))
                         /\ base(t).op # "isr" /\ base(t).pc \notin ReadPcs
                         /\ t = Boot <=> base(t).op = "boot"
                         /\ base(t).op \notin {"spawn", "reap"}
                         /\ base(t).pc \in {"pop", "code"}
                         /\ t = Boot => base(t).pc = "pop"
                         /\ t # Boot => base(t).op = "code" /\ base(t).pc = "code"
  BY <1>0 DEF Frame, Activation, Ops, Pcs, SwitchPcs, CodePcs, WellFormed, Boot, TurnPcs,
              SpawnPcs, ReapPcs, ReadPcs
<1> HIDE DEF base
<1>2. stack = [t \in Threads |-> << base(t) >>]
  BY DEF Init, base, Threads
<1>3. \A t \in Threads : /\ stack[t] \in Seq(Activation) /\ Len(stack[t]) = 1
                         /\ stack[t][1] = base(t)
  BY <1>1, <1>2
<1>4. Top = base(Boot) /\ cpu = Boot
  BY <1>0, <1>3 DEF Init, Top, Depth
<1>5. /\ \A p \in Pid : state[p] = IF p = Shell THEN "Runnable" ELSE "none"
      /\ state \in [Pid -> {"none", "Runnable", "Running", "Zombie"}]
      /\ queue = <<Shell>> /\ current = Boot /\ nextPid = Shell + 1
      /\ rqLocked = FALSE /\ writer = FALSE /\ readers = 0 /\ irq = FALSE
      /\ iso = {} /\ patched = {} /\ jobs = {} /\ tries = Wait /\ reaped = {} /\ halted = "no"
  BY DEF Init
<1>12. /\ \A p \in Pid : /\ ctx[p].owner = p /\ ctx[p].depth = 1
                         /\ ctx[p].fresh = (p = Shell)
       /\ ctx \in [Pid -> [owner : Pid, depth : 1 .. 2, fresh : BOOLEAN]]
  <2>1. ctx = [p \in Pid |-> [owner |-> p, depth |-> 1, fresh |-> p = Shell]]
    BY DEF Init
  <2>2. ctx \in [Pid -> [owner : Pid, depth : 1 .. 2, fresh : BOOLEAN]]
    BY <2>1
  <2> QED
    BY <2>1, <2>2
<1>6. TypeOK
  <2>1. stack \in [0 .. MaxPid -> Seq(Activation)] /\ \A t \in 0 .. MaxPid : Len(stack[t]) \in 1 .. 2
    BY <1>2, <1>3 DEF Threads
  <2>2. queue \in Seq(Pid)
    BY <1>0, <1>5
  <2>3. current \in 0 .. MaxPid /\ nextPid \in 2 .. MaxPid + 1 /\ cpu \in 0 .. MaxPid
    BY <1>0, <1>4, <1>5 DEF Shell, Boot
  <2>4. tries \in 0 .. Wait /\ readers \in Nat
    BY <1>0, <1>5
  <2>5. /\ rqLocked \in BOOLEAN /\ writer \in BOOLEAN /\ irq \in BOOLEAN
        /\ iso \subseteq Pid /\ patched \subseteq iso
        /\ jobs \subseteq Pid /\ reaped \subseteq Pid
        /\ halted \in {"no", "exit", "noTcb", "reap", "fault", "wild"}
    BY <1>5
  <2>6. state \in [Pid -> {"none", "Runnable", "Running", "Zombie"}]
    BY <1>5
  <2> QED
    BY <1>12, <2>1, <2>2, <2>3, <2>4, <2>5, <2>6 DEF TypeOK
<1>7. Framed
  BY <1>0, <1>1, <1>3 DEF Framed, Shell, Boot
<1>8. IrqMeans /\ OffMeans /\ AtBoot
  <2>1. Top.pc = "pop"
    BY <1>1, <1>0, <1>4
  <2> QED
    BY <1>0, <1>4, <1>5, <2>1 DEF IrqMeans, OffMeans, AtBoot, TurnPcs
<1>9. Unborn
  <2>1. ASSUME NEW p \in Pid, ToCome(p) PROVE p # Shell /\ p # Boot
    <3>1. stack[Shell][1].pc = "code"
      BY <1>0, <1>1, <1>3
    <3> QED
      BY <1>0, <1>5, <2>1, <3>1 DEF ToCome
  <2>2. \A p \in Pid : p # Boot => Len(stack[p]) = 1 /\ stack[p][1].pc = "code"
    BY <1>0, <1>1, <1>3
  <2>3. Numbered
    BY <1>0, <1>1, <1>3 DEF Numbered
  <2> QED
    BY <1>0, <1>4, <1>5, <1>12, <2>1, <2>2, <2>3 DEF Unborn
<1>10. Fresh
  <2>1. /\ ctx[Shell].owner = Shell /\ ctx[Shell].depth = 1
        /\ stack[Shell][1].op = "code" /\ Len(stack[Shell]) = 1 /\ Shell # cpu
    BY <1>0, <1>1, <1>3, <1>4, <1>5, <1>12
  <2> QED
    BY <1>5, <1>12, <2>1 DEF Fresh, FreshAt
<1>11. ReadersExact
  <2>1. Holders = {}
    BY <1>1, <1>3 DEF Holders
  <2> QED
    BY <2>1, FS_EmptySet DEF Init, ReadersExact
<1> QED
  BY <1>6, <1>7, <1>8, <1>9, <1>10, <1>11 DEF Inv
-----------------------------------------------------------------------------
(* A step that moves on the activation on the CPU.                         *)

LEMMA Edited ==
    ASSUME Inv, NEW a \in Activation, SetTop(a), cpu' = cpu
    PROVE  /\ stack' \in [Threads -> Seq(Activation)]
           /\ \A t \in Threads : Len(stack'[t]) = Len(stack[t])
           /\ \A t \in Threads : t # cpu => stack'[t] = stack[t]
           /\ \A d \in 1 .. 2 : d # Depth => stack'[cpu][d] = stack[cpu][d]
           /\ stack'[cpu][Depth] = a
           /\ Depth' = Depth /\ Top' = a
<1> DEFINE s == [stack[cpu] EXCEPT ![Depth] = a]
<1>1. /\ cpu \in Threads /\ stack[cpu] \in Seq(Activation) /\ Depth \in 1 .. 2
      /\ Len(stack[cpu]) = Depth
  BY TopIn DEF Depth
<1>2. stack \in [Threads -> Seq(Activation)]
  BY DEF Inv, TypeOK, Threads
<1>3. s \in Seq(Activation) /\ Len(s) = Depth /\ s[Depth] = a
      /\ \A d \in 1 .. 2 : d # Depth => s[d] = stack[cpu][d]
  BY <1>1
<1>4. stack' = [stack EXCEPT ![cpu] = s]
  BY DEF SetTop
<1> HIDE DEF s
<1>5. stack'[cpu] = s /\ \A t \in Threads : t # cpu => stack'[t] = stack[t]
  BY <1>1, <1>2, <1>4
<1>6. stack' \in [Threads -> Seq(Activation)]
  BY <1>1, <1>2, <1>3, <1>4
<1>7. Depth' = Depth /\ Top' = a
  BY <1>1, <1>3, <1>5 DEF Depth, Top
<1> QED
  BY <1>1, <1>3, <1>5, <1>6, <1>7

(* What keeps the frames as they should be.                                *)
Alike(a) ==
    /\ WellFormed(a)
    /\ (a.op = "isr") = (Top.op = "isr") /\ (a.op = "boot") = (Top.op = "boot")
    /\ a.op \in {"spawn", "reap"} => cpu = Shell
    /\ a.pc \in {"patch", "patched"} => a.nxt \in iso

LEMMA EditFramed ==
    ASSUME Inv, NEW a \in Activation, SetTop(a), cpu' = cpu, Alike(a), iso \subseteq iso'
    PROVE  Framed'
<1>1. /\ \A t \in Threads : Len(stack'[t]) = Len(stack[t])
      /\ \A t \in Threads : t # cpu => stack'[t] = stack[t]
      /\ \A d \in 1 .. 2 : d # Depth => stack'[cpu][d] = stack[cpu][d]
      /\ stack'[cpu][Depth] = a
  BY Edited
<1>2. /\ cpu \in Threads /\ Depth \in 1 .. 2 /\ Len(stack[cpu]) = Depth
      /\ Top.op = "isr" <=> Depth = 2
      /\ Top.op = "boot" <=> cpu = Boot
      /\ Top.op # "isr" => stack[cpu][1] = Top
  BY TopIn DEF Depth
<1>3. Framed
  BY DEF Inv
<1>4. ASSUME NEW t \in Threads
      PROVE  /\ WellFormed(stack'[t][1]) /\ stack'[t][1].op # "isr"
             /\ t = Boot <=> stack'[t][1].op = "boot"
             /\ stack'[t][1].op \in {"spawn", "reap"} => t = Shell
             /\ Len(stack'[t]) = 2 => /\ WellFormed(stack'[t][2]) /\ stack'[t][2].op = "isr"
                                      /\ t # Boot
                                      /\ t # cpu' => stack'[t][2].pc = "load"
  <2>1. CASE t # cpu
    BY <1>1, <1>3, <2>1 DEF Framed
  <2>2. CASE t = cpu /\ Depth = 1
    BY <1>1, <1>2, <1>3, <2>2 DEF Framed, Alike
  <2>3. CASE t = cpu /\ Depth = 2
    BY <1>1, <1>2, <1>3, <2>3 DEF Framed, Alike
  <2>4. Depth = 1 \/ Depth = 2
    BY <1>2
  <2> QED
    BY <2>1, <2>2, <2>3, <2>4, Zenon
<1>5. stack'[Shell][1].pc \in {"patch", "patched"} => stack'[Shell][1].nxt \in iso'
  <2>1. CASE Shell = cpu /\ Depth = 1
    BY <1>1, <2>1 DEF Alike
  <2>2. CASE ~(Shell = cpu /\ Depth = 1)
    BY <1>1, <1>2, <1>3, <2>2, Consts DEF Framed
  <2> QED
    BY <2>1, <2>2
<1> QED
  BY <1>4, <1>5 DEF Framed

LEMMA EditFresh ==
    ASSUME Inv, NEW a \in Activation, SetTop(a), cpu' = cpu, Top.pc # "load", ctx' = ctx
    PROVE  Fresh'
<1>1. /\ \A t \in Threads : Len(stack'[t]) = Len(stack[t])
      /\ \A t \in Threads : t # cpu => stack'[t] = stack[t]
      /\ \A d \in 1 .. 2 : d # Depth => stack'[cpu][d] = stack[cpu][d]
  BY Edited
<1>2. Top = stack[cpu][Depth]
  BY DEF Top
<1>3. ASSUME NEW p \in Pid, ctx[p].fresh PROVE FreshAt(ctx[p])'
  <2>1. FreshAt(ctx[p]) /\ ctx[p].owner \in Threads /\ ctx[p].depth \in 1 .. 2
    BY <1>3, Consts DEF Inv, Fresh, TypeOK
  <2>2. CASE ctx[p].owner # cpu
    BY <1>1, <2>1, <2>2 DEF FreshAt
  <2>3. CASE ctx[p].owner = cpu
    <3>1. stack[cpu][ctx[p].depth].pc = "load" /\ ctx[p].depth # Depth
      BY <1>2, <2>1, <2>3 DEF FreshAt
    <3> QED
      BY <1>1, <2>1, <2>3, <3>1 DEF FreshAt
  <2> QED
    BY <2>2, <2>3
<1> QED
  BY <1>3 DEF Fresh

LEMMA Keeps ==
    ASSUME Inv, UNCHANGED <<cpu, ctx>>,
           \A t \in Threads : t # cpu => stack'[t] = stack[t],
           \A p \in Pid : state[p] = "none" => state'[p] = "none",
           \A p \in Pid : ToCome(p)' => ToCome(p),
           Numbered'
    PROVE  Unborn'
<1> SUFFICES ASSUME NEW p \in Pid, ToCome(p)'
             PROVE  (/\ p # Shell /\ cpu # p /\ state[p] = "none"
                     /\ Len(stack[p]) = 1 /\ stack[p][1].pc = "code"
                     /\ ctx[p].owner = p /\ ~ctx[p].fresh
                     /\ \A q \in Pid : q # p => ctx[q].owner # p)'
  BY DEF Unborn
<1>1. /\ p # Shell /\ cpu # p /\ state[p] = "none"
      /\ Len(stack[p]) = 1 /\ stack[p][1].pc = "code"
      /\ ctx[p].owner = p /\ ~ctx[p].fresh
      /\ \A q \in Pid : q # p => ctx[q].owner # p
  BY DEF Inv, Unborn
<1>2. stack'[p] = stack[p]
  BY <1>1, Consts
<1> QED
  BY <1>1, <1>2

LEMMA EditUnborn ==
    ASSUME Inv, NEW a \in Activation, SetTop(a), cpu' = cpu, ctx' = ctx, nextPid' = nextPid,
           a.pc \in {"insert", "inserted"} => Top.pc = "insert" /\ a.nxt = Top.nxt,
           \A p \in Pid : state[p] = "none" => state'[p] = "none"
    PROVE  Unborn'
<1>1. /\ \A t \in Threads : t # cpu => stack'[t] = stack[t]
      /\ \A d \in 1 .. 2 : d # Depth => stack'[cpu][d] = stack[cpu][d]
      /\ stack'[cpu][Depth] = a
  BY Edited
<1>2. ASSUME NEW p \in Pid, ToCome(p)' PROVE ToCome(p)
  <2>1. CASE cpu = Shell /\ Depth = 1
    BY <1>1, <1>2, <2>1 DEF ToCome, Top
  <2>2. CASE ~(cpu = Shell /\ Depth = 1)
    BY <1>1, <1>2, <2>2, Consts DEF ToCome
  <2> QED
    BY <2>1, <2>2
<1>3. Numbered'
  <2>1. Numbered
    BY DEF Inv, Unborn
  <2>2. CASE cpu = Shell /\ Depth = 1
    BY <1>1, <2>1, <2>2 DEF Numbered, Top
  <2>3. CASE ~(cpu = Shell /\ Depth = 1)
    BY <1>1, <2>1, <2>3, Consts DEF Numbered
  <2> QED
    BY <2>2, <2>3
<1> QED
  BY <1>1, <1>2, <1>3, Keeps

(* The guards held, before and after.                                      *)
LEMMA HoldersFinite == IsFiniteSet(Holders) /\ Cardinality(Holders) \in Nat
<1>1. IsFiniteSet(Threads) /\ IsFiniteSet(1 .. 2)
  <2>1. 0 \in Int /\ MaxPid \in Int /\ 1 \in Int /\ 2 \in Int
    BY Consts
  <2> QED
    BY <2>1, FS_Interval DEF Threads
<1>2. IsFiniteSet(Threads \X (1 .. 2))
  BY <1>1, FS_Product
<1>3. Holders \subseteq Threads \X (1 .. 2)
  BY DEF Holders
<1>4. IsFiniteSet(Holders)
  BY <1>2, <1>3, FS_Subset
<1> QED
  BY <1>4, FS_CardinalityType

LEMMA EditHolders ==
    ASSUME Inv, NEW a \in Activation, SetTop(a), cpu' = cpu
    PROVE  /\ <<cpu, Depth>> \in Holders <=> Top.pc \in ReadPcs
           /\ a.pc \in ReadPcs => Holders' = Holders \cup {<<cpu, Depth>>}
           /\ a.pc \notin ReadPcs => Holders' = Holders \ {<<cpu, Depth>>}
<1>1. /\ \A t \in Threads : Len(stack'[t]) = Len(stack[t])
      /\ \A t \in Threads : t # cpu => stack'[t] = stack[t]
      /\ \A d \in 1 .. 2 : d # Depth => stack'[cpu][d] = stack[cpu][d]
      /\ stack'[cpu][Depth] = a
  BY Edited
<1>2. cpu \in Threads /\ Depth \in 1 .. 2 /\ Len(stack[cpu]) = Depth /\ Top = stack[cpu][Depth]
  BY TopIn DEF Depth, Top
<1>3. \A t \in Threads, d \in 1 .. 2 :
         <<t, d>> \in Holders <=> d <= Len(stack[t]) /\ stack[t][d].pc \in ReadPcs
  BY DEF Holders
<1>4. \A t \in Threads, d \in 1 .. 2 :
         <<t, d>> \in Holders' <=> d <= Len(stack'[t]) /\ stack'[t][d].pc \in ReadPcs
  BY DEF Holders
<1>5. \A t \in Threads, d \in 1 .. 2 :
         <<t, d>> # <<cpu, Depth>> => (<<t, d>> \in Holders' <=> <<t, d>> \in Holders)
  BY <1>1, <1>3, <1>4
<1>6. /\ <<cpu, Depth>> \in Holders <=> Top.pc \in ReadPcs
      /\ <<cpu, Depth>> \in Holders' <=> a.pc \in ReadPcs
  <2>1. <<cpu, Depth>> \in Holders <=> Depth <= Len(stack[cpu]) /\ stack[cpu][Depth].pc \in ReadPcs
    BY <1>2 DEF Holders
  <2>2. <<cpu, Depth>> \in Holders' <=> Depth <= Len(stack'[cpu]) /\ stack'[cpu][Depth].pc \in ReadPcs
    BY <1>2 DEF Holders
  <2> QED
    BY <1>1, <1>2, <2>1, <2>2
<1>7. Holders \subseteq Threads \X (1 .. 2) /\ Holders' \subseteq Threads \X (1 .. 2)
  BY DEF Holders
<1>8. \A h \in Threads \X (1 .. 2) : h # <<cpu, Depth>> => (h \in Holders' <=> h \in Holders)
  <2> TAKE h \in Threads \X (1 .. 2)
  <2>1. PICK t \in Threads, d \in 1 .. 2 : h = <<t, d>>
    OBVIOUS
  <2> QED
    BY <1>5, <2>1
<1> HIDE DEF Holders, ReadPcs
<1> QED
  BY <1>6, <1>7, <1>8

Guards(l) == IF l \in ReadPcs THEN 1 ELSE 0

LEMMA EditReaders ==
    ASSUME Inv, NEW a \in Activation, SetTop(a), cpu' = cpu,
           readers' = readers + Guards(a.pc) - Guards(Top.pc)
    PROVE  ReadersExact' /\ readers' \in Nat
<1> DEFINE h == <<cpu, Depth>>
           H == Holders
           J == Holders'
<1>1. /\ h \in H <=> Top.pc \in ReadPcs
      /\ a.pc \in ReadPcs => J = H \cup {h}
      /\ a.pc \notin ReadPcs => J = H \ {h}
  BY EditHolders
<1>2. readers = Cardinality(H)
  BY DEF Inv, ReadersExact
<1>3. IsFiniteSet(H) /\ Cardinality(H) \in Nat
  BY HoldersFinite
<1>4. /\ h \notin H => Cardinality(H \cup {h}) = Cardinality(H) + 1
      /\ h \in H => Cardinality(H \cup {h}) = Cardinality(H)
  <2> HIDE DEF h, H
  <2> QED
    BY <1>3, FS_AddElement
<1>5. /\ h \in H => Cardinality(H \ {h}) = Cardinality(H) - 1
      /\ h \notin H => Cardinality(H \ {h}) = Cardinality(H)
  <2> HIDE DEF h, H
  <2> QED
    BY <1>3, FS_RemoveElement
<1>6. Cardinality(J) = readers'
  <2> HIDE DEF h, H, J
  <2> QED
    <3>1. CASE Top.pc \in ReadPcs /\ a.pc \in ReadPcs
      BY <1>1, <1>2, <1>3, <1>4, <3>1 DEF Guards
    <3>2. CASE Top.pc \in ReadPcs /\ a.pc \notin ReadPcs
      <4>1. Guards(Top.pc) = 1 /\ Guards(a.pc) = 0
        BY <3>2 DEF Guards
      <4>2. readers' = readers - 1
        BY <1>2, <1>3, <4>1
      <4> QED
        BY <1>1, <1>2, <1>5, <3>2, <4>2
    <3>3. CASE Top.pc \notin ReadPcs /\ a.pc \in ReadPcs
      <4>1. Guards(Top.pc) = 0 /\ Guards(a.pc) = 1
        BY <3>3 DEF Guards
      <4>2. readers' = readers + 1
        BY <1>2, <1>3, <4>1
      <4> QED
        BY <1>1, <1>2, <1>4, <3>3, <4>2
    <3>4. CASE Top.pc \notin ReadPcs /\ a.pc \notin ReadPcs
      <4>1. Guards(Top.pc) = 0 /\ Guards(a.pc) = 0
        BY <3>4 DEF Guards
      <4>2. readers' = readers
        BY <1>2, <1>3, <4>1
      <4> QED
        BY <1>1, <1>2, <1>5, <3>4, <4>2
    <3> QED
      BY <3>1, <3>2, <3>3, <3>4
<1>7. Cardinality(J) \in Nat
  <2>1. IsFiniteSet(H \cup {h}) /\ IsFiniteSet(H \ {h})
    <3> HIDE DEF h, H
    <3> QED
      BY <1>3, FS_AddElement, FS_RemoveElement
  <2>2. IsFiniteSet(J)
    <3> HIDE DEF h, H, J
    <3> QED
      BY <1>1, <2>1
  <2> HIDE DEF J
  <2> QED
    BY <2>2, FS_CardinalityType
<1> QED
  BY <1>6, <1>7 DEF ReadersExact

(* All of it: a step that puts a in the place of the activation on the CPU. *)
MoveOn(a) == SetTop(a) /\ UNCHANGED <<cpu, ctx, nextPid, irq, iso>>

(* The types of all but the stacks and the guards.                          *)
RestOK ==
    /\ state \in [Pid -> {"none", "Runnable", "Running", "Zombie"}]
    /\ queue \in Seq(Pid)
    /\ current \in 0 .. MaxPid /\ nextPid \in 2 .. MaxPid + 1
    /\ rqLocked \in BOOLEAN /\ writer \in BOOLEAN
    /\ ctx \in [Pid -> [owner : Pid, depth : 1 .. 2, fresh : BOOLEAN]]
    /\ cpu \in 0 .. MaxPid /\ irq \in BOOLEAN
    /\ iso \subseteq Pid /\ patched \subseteq iso
    /\ jobs \subseteq Pid /\ reaped \subseteq Pid /\ tries \in 0 .. Wait
    /\ halted \in {"no", "exit", "noTcb", "reap", "fault", "wild"}

LEMMA RestTyped == TypeOK => RestOK
BY DEF TypeOK, RestOK

LEMMA Edit ==
    ASSUME Inv, NEW a \in Activation, MoveOn(a), Alike(a), Top.pc # "load",
           a.pc \in {"insert", "inserted"} => Top.pc = "insert" /\ a.nxt = Top.nxt,
           \A p \in Pid : state[p] = "none" => state'[p] = "none",
           readers' = readers + Guards(a.pc) - Guards(Top.pc),
           RestOK'
    PROVE  /\ TypeOK' /\ Framed' /\ IrqMeans' /\ Unborn' /\ Fresh' /\ ReadersExact'
           /\ Top' = a /\ Depth' = Depth
<1>1. SetTop(a) /\ cpu' = cpu /\ ctx' = ctx /\ nextPid' = nextPid /\ irq' = irq /\ iso' = iso
  BY DEF MoveOn
<1>2. /\ stack' \in [Threads -> Seq(Activation)]
      /\ \A t \in Threads : Len(stack'[t]) = Len(stack[t])
      /\ Depth' = Depth /\ Top' = a
  BY <1>1, Edited
<1>3. ReadersExact' /\ readers' \in Nat
  BY <1>1, EditReaders
<1>4. TypeOK'
  BY <1>2, <1>3 DEF Inv, TypeOK, RestOK, Threads
<1>5. Framed'
  BY <1>1, EditFramed
<1>6. Fresh'
  BY <1>1, EditFresh
<1>7. Unborn'
  BY <1>1, EditUnborn
<1>8. IrqMeans'
  BY <1>1, <1>2 DEF Inv, IrqMeans, Depth
<1> QED
  BY <1>2, <1>3, <1>4, <1>5, <1>6, <1>7, <1>8

(* Which call is where.                                                     *)
LEMMA OpAt ==
    ASSUME Inv
    PROVE  /\ Top.pc \in {"pop", "popped"} => Top.op \in {"boot", "yield"}
           /\ Top.pc \in {"swap", "read", "demote", "push", "pushed", "mark", "save"}
                => Top.op \in {"boot", "yield", "isr"}
           /\ Top.pc = "load" => Top.op \in {"boot", "yield", "isr", "exit"}
           /\ Top.pc \in {"epop", "epopped", "ecur", "emark"} => Top.op = "exit"
           /\ Top.pc \in SpawnPcs => Top.op = "spawn"
           /\ Top.pc \in ReapPcs => Top.op = "reap"
           /\ Top.pc \in CodePcs => Top.op = "code"
<1>1. Top \in Activation /\ WellFormed(Top)
  BY TopIn
<1>2. Top.op \in Ops
  BY <1>1 DEF Activation
<1> QED
  BY <1>1, <1>2 DEF WellFormed, Ops, TurnPcs, SpawnPcs, ReapPcs, CodePcs

LEMMA Off ==
    ASSUME Inv, ~irq
    PROVE  /\ Top.op \in {"isr", "boot"} /\ Top.pc \in TurnPcs \cup {"pop", "popped"}
           /\ ~writer /\ (rqLocked => Top.pc \in {"popped", "pushed"})
<1>1. cpu = Boot \/ Depth = 2
  BY TopIn DEF Inv, IrqMeans, Depth
<1> QED
  BY <1>1, TopIn DEF Inv, OffMeans, WellFormed

(* Going on to the next place of the same call.                             *)
LEMMA GotoIn ==
    ASSUME Inv, NEW m \in Pcs
    PROVE  LET a == [Top EXCEPT !.pc = m] IN
           /\ a \in Activation /\ a.op = Top.op /\ a.pc = m /\ a.nxt = Top.nxt /\ a.prv = Top.prv
BY TopIn DEF Activation

LEMMA FrameIn ==
    ASSUME NEW op \in Ops, NEW m \in Pcs, NEW n \in Threads
    PROVE  LET a == Frame(op, m, n) IN
           /\ a \in Activation /\ a.op = op /\ a.pc = m /\ a.nxt = n /\ a.prv = Boot
BY Consts DEF Frame, Activation, Threads

LEMMA LockRqInv ==
    ASSUME Inv, NEW l, NEW m,
           \/ (l = "pop" /\ m = "popped") \/ (l = "push" /\ m = "pushed")
           \/ (l = "epop" /\ m = "epopped") \/ (l = "spush" /\ m = "spushed"),
           LockRq(l, m)
    PROVE  Inv'
<1> DEFINE a == [Top EXCEPT !.pc = m]
<1>1. m \in Pcs
  BY DEF Pcs, SwitchPcs, SpawnPcs
<1>2. a \in Activation /\ a.op = Top.op /\ a.pc = m /\ a.nxt = Top.nxt /\ a.prv = Top.prv
  BY <1>1, GotoIn
<1>3. Top.pc = l /\ SetTop(a)
  BY DEF LockRq, At, Goto
<1> HIDE DEF a
<1>4. /\ rqLocked' = TRUE
      /\ UNCHANGED <<state, queue, current, writer, readers, ctx, cpu, irq, shell, halted>>
  BY DEF LockRq
<1>5. Alike(a)
  <2>1. WellFormed(Top) /\ (Top.op \in {"spawn", "reap"} => cpu = Shell)
    BY TopIn
  <2>2. WellFormed(a)
    BY <1>2, <1>3, <2>1, OpAt DEF WellFormed, TurnPcs, SpawnPcs, ReapPcs
  <2> QED
    BY <1>2, <2>1, <2>2 DEF Alike
<1>6. Guards(a.pc) = Guards(Top.pc) /\ Guards(Top.pc) \in Nat /\ readers \in Nat
  BY <1>2, <1>3 DEF Guards, ReadPcs, Inv, TypeOK
<1>7. RestOK /\ RestOK'
  BY <1>4, RestTyped DEF Inv, RestOK, shell
<1>8. /\ TypeOK' /\ Framed' /\ IrqMeans' /\ Unborn' /\ Fresh' /\ ReadersExact'
      /\ Top' = a
  <2>1. MoveOn(a) /\ Top.pc # "load" /\ a.pc \notin {"insert", "inserted"} /\ state' = state
    BY <1>2, <1>3, <1>4 DEF MoveOn, shell
  <2>2. readers' = readers + Guards(a.pc) - Guards(Top.pc)
    BY <1>4, <1>6
  <2> QED
    BY <1>2, <1>5, <1>7, <2>1, <2>2, Edit
<1>9. OffMeans'
  BY <1>2, <1>3, <1>4, <1>8, Off DEF OffMeans, TurnPcs
<1>10. AtBoot'
  BY <1>2, <1>3, <1>4, <1>8 DEF Inv, AtBoot, TurnPcs
<1> QED
  BY <1>8, <1>9, <1>10 DEF Inv

LEMMA LockTasksInv ==
    ASSUME Inv, NEW l, NEW m,
           \/ (l = "insert" /\ m = "inserted") \/ (l = "patch" /\ m = "patched")
           \/ (l = "take" /\ m = "taken") \/ (l = "code" /\ m = "update" /\ cpu # Boot),
           LockTasks(l, m)
    PROVE  Inv'
<1> DEFINE a == [Top EXCEPT !.pc = m]
<1>1. m \in Pcs
  BY DEF Pcs, SpawnPcs, ReapPcs, CodePcs
<1>2. a \in Activation /\ a.op = Top.op /\ a.pc = m /\ a.nxt = Top.nxt /\ a.prv = Top.prv
  BY <1>1, GotoIn
<1>3. Top.pc = l /\ SetTop(a)
  BY DEF LockTasks, At, Goto
<1> HIDE DEF a
<1>4. /\ writer' = TRUE
      /\ UNCHANGED <<state, queue, current, rqLocked, readers, ctx, cpu, irq, shell, halted>>
  BY DEF LockTasks
<1>5. Top.op \in {"spawn", "reap", "code"} /\ (Top.pc \in SpawnPcs => Top.op = "spawn")
  BY <1>3, OpAt DEF SpawnPcs, ReapPcs, CodePcs
<1>6. Alike(a)
  <2>1. WellFormed(Top) /\ (Top.op \in {"spawn", "reap"} => cpu = Shell)
    BY TopIn
  <2>2. WellFormed(a)
    BY <1>2, <1>3, <2>1, OpAt DEF WellFormed, TurnPcs, SpawnPcs, ReapPcs, CodePcs
  <2>3. a.pc \in {"patch", "patched"} => a.nxt \in iso
    <3>1. ASSUME Top.pc = "patch" PROVE Top.nxt \in iso
      <4>1. Top.op = "spawn"
        BY <1>5, <3>1 DEF SpawnPcs
      <4>2. Top = stack[Shell][1]
        BY <4>1, TopIn
      <4> QED
        BY <3>1, <4>2 DEF Inv, Framed
    <3> QED
      BY <1>2, <1>3, <3>1
  <2> QED
    BY <1>2, <2>1, <2>2, <2>3 DEF Alike
<1>7. Guards(a.pc) = Guards(Top.pc) /\ Guards(Top.pc) \in Nat /\ readers \in Nat
  BY <1>2, <1>3 DEF Guards, ReadPcs, Inv, TypeOK
<1>8. RestOK /\ RestOK'
  BY <1>4, RestTyped DEF Inv, RestOK, shell
<1>9. /\ TypeOK' /\ Framed' /\ IrqMeans' /\ Unborn' /\ Fresh' /\ ReadersExact'
      /\ Top' = a
  <2>1. /\ MoveOn(a) /\ Top.pc # "load" /\ state' = state
        /\ a.pc \in {"insert", "inserted"} => Top.pc = "insert" /\ a.nxt = Top.nxt
    BY <1>2, <1>3, <1>4 DEF MoveOn, shell
  <2>2. readers' = readers + Guards(a.pc) - Guards(Top.pc)
    BY <1>4, <1>7
  <2> QED
    BY <1>2, <1>6, <1>8, <2>1, <2>2, Edit
<1>10. irq /\ cpu # Boot
  BY <1>5, Off, TopIn
<1>11. OffMeans' /\ AtBoot'
  BY <1>4, <1>10 DEF OffMeans, AtBoot
<1> QED
  BY <1>9, <1>11 DEF Inv

LEMMA YieldInv == ASSUME Inv, Yield PROVE Inv'
<1> DEFINE a == Frame("yield", "pop", 0)
<1>1. a \in Activation /\ a.op = "yield" /\ a.pc = "pop"
  BY FrameIn, Consts DEF Ops, Pcs, SwitchPcs, Boot
<1>2. Top.pc = "code" /\ cpu # Boot /\ SetTop(a) /\ (cpu = Shell => tries > 0)
  BY DEF Yield, At
<1> HIDE DEF a
<1>3. /\ tries' = IF cpu = Shell THEN tries - 1 ELSE tries
      /\ UNCHANGED <<state, queue, current, locks, ctx, cpu, irq, nextPid, iso,
                     patched, jobs, reaped, halted>>
  BY DEF Yield
<1>4. Top.op = "code" /\ irq
  BY <1>2, OpAt, Off DEF CodePcs
<1>5. Alike(a)
  BY <1>1, <1>4 DEF Alike, WellFormed, TurnPcs, SpawnPcs, ReapPcs
<1>6. Guards(a.pc) = 0 /\ Guards(Top.pc) = 0 /\ readers \in Nat
  BY <1>1, <1>2 DEF Guards, ReadPcs, Inv, TypeOK
<1>7. RestOK /\ RestOK'
  <2>1. tries' \in 0 .. Wait
    BY <1>2, <1>3, Consts DEF Inv, TypeOK
  <2> QED
    BY <1>3, <2>1, RestTyped DEF Inv, RestOK, locks
<1>8. /\ TypeOK' /\ Framed' /\ IrqMeans' /\ Unborn' /\ Fresh' /\ ReadersExact'
  <2>1. /\ MoveOn(a) /\ Top.pc # "load" /\ state' = state
        /\ a.pc \notin {"insert", "inserted"}
        /\ readers' = readers + Guards(a.pc) - Guards(Top.pc)
    BY <1>1, <1>2, <1>3, <1>6 DEF MoveOn, locks
  <2> QED
    BY <1>1, <1>5, <1>7, <2>1, Edit
<1>9. OffMeans' /\ AtBoot'
  BY <1>2, <1>3, <1>4 DEF OffMeans, AtBoot
<1> QED
  BY <1>8, <1>9 DEF Inv

LEMMA FirstOf ==
    ASSUME NEW S, NEW q \in Seq(S), Len(q) = 2
    PROVE  SubSeq(q, 1, 1) \in Seq(S) /\ Len(SubSeq(q, 1, 1)) = 1 /\ SubSeq(q, 1, 1)[1] = q[1]
OBVIOUS

(* A call of switch_to that ends without a switch.                          *)
LEMMA ReturnInv ==
    ASSUME Inv, Return, Top.pc \in {"popped", "swap", "mark"}, cpu # Boot,
           UNCHANGED <<cpu, ctx, nextPid, iso>>,
           \A p \in Pid : state[p] = "none" => state'[p] = "none",
           readers' = readers - Guards(Top.pc),
           RestOK'
    PROVE  Inv'
<1>0. stack' = [stack EXCEPT ![cpu] = Back(stack[cpu])] /\ irq' = (irq \/ Top.op = "isr")
  BY DEF Return
<1>1. /\ cpu \in Threads /\ Depth \in 1 .. 2 /\ Len(stack[cpu]) = Depth
      /\ stack[cpu] \in Seq(Activation) /\ stack[cpu][Depth] = Top
      /\ stack \in [Threads -> Seq(Activation)]
  BY TopIn DEF Depth, Top, Inv, TypeOK, Threads
<1>2. Top.op \in {"yield", "isr"} /\ Top \in Activation
  BY OpAt, TopIn
<1>3. CASE Top.op = "yield"
  <2> DEFINE a == Frame("code", "code", 0)
  <2>1. a \in Activation /\ a.op = "code" /\ a.pc = "code"
    BY FrameIn, Consts DEF Ops, Pcs, CodePcs, Boot
  <2>2. SetTop(a)
    <3>1. Back(stack[cpu]) = [stack[cpu] EXCEPT ![Depth] = a]
      BY <1>1, <1>3 DEF Back
    <3> QED
      BY <1>0, <3>1 DEF SetTop
  <2> HIDE DEF a
  <2>3. Alike(a)
    BY <1>3, <2>1 DEF Alike, WellFormed, TurnPcs, SpawnPcs, ReapPcs, CodePcs
  <2>4. irq' = irq /\ irq
    BY <1>0, <1>3, Off, <1>2 DEF Inv, TypeOK
  <2>5. /\ Guards(a.pc) = 0 /\ readers \in Nat /\ Guards(Top.pc) \in Nat
        /\ readers' = readers + Guards(a.pc) - Guards(Top.pc)
    BY <2>1 DEF Guards, ReadPcs, Inv, TypeOK
  <2>6. /\ TypeOK' /\ Framed' /\ IrqMeans' /\ Unborn' /\ Fresh' /\ ReadersExact'
    <3>1. MoveOn(a) /\ Top.pc # "load" /\ a.pc \notin {"insert", "inserted"}
      BY <2>1, <2>2, <2>4 DEF MoveOn
    <3> QED
      BY <2>1, <2>3, <2>5, <3>1, Edit
  <2>7. OffMeans' /\ AtBoot'
    BY <2>4 DEF OffMeans, AtBoot
  <2> QED
    BY <2>6, <2>7 DEF Inv
<1>4. CASE Top.op = "isr"
  <2>1. Depth = 2
    BY <1>4, TopIn
  <2> DEFINE s == SubSeq(stack[cpu], 1, 1)
  <2>2. Back(stack[cpu]) = s
    BY <1>1, <1>4, <2>1 DEF Back
  <2>3. s \in Seq(Activation) /\ Len(s) = 1 /\ s[1] = stack[cpu][1]
    BY <1>1, <2>1, FirstOf
  <2> HIDE DEF s
  <2>4. /\ stack' \in [Threads -> Seq(Activation)] /\ stack'[cpu] = s
        /\ \A t \in Threads : t # cpu => stack'[t] = stack[t]
    BY <1>0, <1>1, <2>2, <2>3
  <2>5. \A t \in Threads : /\ stack'[t][1] = stack[t][1] /\ Len(stack'[t]) \in 1 .. 2
                           /\ Len(stack'[t]) = 2 => stack'[t] = stack[t]
    BY <1>1, <2>3, <2>4 DEF Inv, TypeOK, Threads
  <2>6. Framed'
    BY <2>5, Consts DEF Inv, Framed
  <2>7. irq' = TRUE /\ cpu' = cpu /\ Len(stack'[cpu]) = 1
    BY <1>0, <1>4, <2>3, <2>4
  <2>8. IrqMeans' /\ OffMeans' /\ AtBoot'
    BY <2>7 DEF IrqMeans, OffMeans, AtBoot
  <2>9. Unborn'
    <3>1. ASSUME NEW p \in Pid, ToCome(p)' PROVE ToCome(p)
      BY <2>5, <3>1, Consts DEF ToCome
    <3>2. Numbered'
      BY <2>5, Consts DEF Inv, Unborn, Numbered
    <3> QED
      BY <2>4, <3>1, <3>2, Keeps
  <2>10. Fresh'
    <3>1. ASSUME NEW p \in Pid, ctx[p].fresh PROVE FreshAt(ctx[p])'
      <4>1. FreshAt(ctx[p]) /\ ctx[p].owner \in Threads /\ ctx[p].depth \in 1 .. 2
        BY <3>1, Consts DEF Inv, Fresh, TypeOK
      <4>2. CASE ctx[p].owner # cpu
        BY <2>4, <4>1, <4>2 DEF FreshAt
      <4>3. CASE ctx[p].owner = cpu
        <5>1. stack[cpu][ctx[p].depth].pc = "load" /\ ctx[p].depth # 2
          BY <1>1, <2>1, <4>1, <4>3 DEF FreshAt
        <5>2. ctx[p].depth = 1 /\ ctx' = ctx /\ cpu' = cpu
          BY <4>1, <5>1
        <5>3. stack'[cpu][1].pc = "load" /\ Len(stack'[cpu]) = 1
          BY <2>3, <2>4, <5>1, <5>2
        <5> QED
          BY <4>3, <5>2, <5>3 DEF FreshAt
      <4> QED
        BY <4>2, <4>3
    <3> QED
      BY <3>1 DEF Fresh
  <2> DEFINE h == <<cpu, Depth>>
             H == Holders
             J == Holders'
  <2>11. J = H \ {h} /\ (h \in H <=> Top.pc \in ReadPcs)
    <3>1. \A t \in Threads, d \in 1 .. 2 :
             <<t, d>> \in Holders' <=> <<t, d>> \in Holders /\ <<t, d>> # <<cpu, Depth>>
      <4>1. ASSUME NEW t \in Threads, NEW d \in 1 .. 2
            PROVE  /\ <<t, d>> \in Holders <=> d <= Len(stack[t]) /\ stack[t][d].pc \in ReadPcs
                   /\ <<t, d>> \in Holders' <=> d <= Len(stack'[t]) /\ stack'[t][d].pc \in ReadPcs
        BY DEF Holders
      <4>2. ASSUME NEW t \in Threads, NEW d \in 1 .. 2
            PROVE  (d <= Len(stack'[t]) /\ stack'[t][d].pc \in ReadPcs)
                   <=> (d <= Len(stack[t]) /\ stack[t][d].pc \in ReadPcs /\ ~(t = cpu /\ d = 2))
        <5>1. CASE t # cpu
          BY <2>4, <5>1
        <5>2. CASE t = cpu /\ d = 1
          <6>1. stack'[t][d] = stack[t][d] /\ d <= Len(stack'[t]) /\ d <= Len(stack[t])
            <7>1. stack'[cpu][1] = stack[cpu][1] /\ Len(stack'[cpu]) = 1 /\ Len(stack[cpu]) = 2
              BY <1>1, <2>1, <2>3, <2>4
            <7> QED
              BY <5>2, <7>1
          <6> QED
            BY <5>2, <6>1
        <5>3. CASE t = cpu /\ d = 2
          <6>1. Len(stack'[t]) = 1
            BY <2>3, <2>4, <5>3
          <6> QED
            BY <5>3, <6>1
        <5> QED
          BY <5>1, <5>2, <5>3
      <4> QED
        BY <2>1, <4>1, <4>2
    <3>2. H \subseteq Threads \X (1 .. 2) /\ J \subseteq Threads \X (1 .. 2)
      BY DEF Holders
    <3>3. \A g \in Threads \X (1 .. 2) : g \in J <=> g \in H /\ g # h
      <4> TAKE g \in Threads \X (1 .. 2)
      <4>1. PICK t \in Threads, d \in 1 .. 2 : g = <<t, d>>
        OBVIOUS
      <4> QED
        BY <3>1, <4>1
    <3>4. h \in H <=> Top.pc \in ReadPcs
      BY <1>1 DEF Holders
    <3> HIDE DEF h, H, J
    <3> QED
      BY <3>2, <3>3, <3>4
  <2>12. IsFiniteSet(H) /\ Cardinality(H) \in Nat /\ readers = Cardinality(H)
    BY HoldersFinite DEF Inv, ReadersExact
  <2>13. readers' = Cardinality(J) /\ Cardinality(J) \in Nat
    <3> HIDE DEF h, H, J
    <3>1. /\ IsFiniteSet(H \ {h})
          /\ h \in H => Cardinality(H \ {h}) = Cardinality(H) - 1
          /\ h \notin H => Cardinality(H \ {h}) = Cardinality(H)
      BY <2>12, FS_RemoveElement
    <3>2. Cardinality(H \ {h}) \in Nat
      BY <3>1, FS_CardinalityType
    <3>3. CASE Top.pc \in ReadPcs
      <4>1. readers' = readers - 1
        BY <3>3 DEF Guards
      <4> QED
        BY <2>11, <2>12, <3>1, <3>2, <3>3, <4>1
    <3>4. CASE Top.pc \notin ReadPcs
      <4>1. readers' = readers
        BY <2>12, <3>4 DEF Guards
      <4> QED
        BY <2>11, <2>12, <3>1, <3>2, <3>4, <4>1
    <3> QED
      BY <3>3, <3>4
  <2>14. TypeOK' /\ ReadersExact'
    BY <2>4, <2>5, <2>13 DEF TypeOK, RestOK, ReadersExact, Threads
  <2> QED
    BY <2>6, <2>8, <2>9, <2>10, <2>14 DEF Inv
<1> QED
  BY <1>2, <1>3, <1>4

(* The steps of switch_to that do not return and save or load nothing.     *)
LEMMA TurnInv ==
    ASSUME Inv, NEW a \in Activation, SetTop(a), a.op = Top.op, WellFormed(a),
           Top.pc \in {"popped", "swap", "read", "demote", "pushed", "mark", "save"},
           a.pc \in TurnPcs, a.pc # "pushed",
           UNCHANGED <<cpu, ctx, nextPid, irq, iso, writer>>,
           \/ ~rqLocked'
           \/ rqLocked' = rqLocked /\ Top.pc \notin {"popped", "pushed"},
           \A p \in Pid : state[p] = "none" <=> state'[p] = "none",
           readers' = readers + Guards(a.pc) - Guards(Top.pc),
           cpu = Boot => /\ a.pc = "swap" => current' = Boot
                         /\ a.nxt = Shell,
           RestOK'
    PROVE  Inv'
<1>1. Top.op \in {"boot", "yield", "isr"}
  BY OpAt
<1>2. Alike(a)
  BY <1>1, TopIn DEF Alike, TurnPcs
<1>3. MoveOn(a) /\ Top.pc # "load" /\ a.pc \notin {"insert", "inserted"}
  BY DEF MoveOn, TurnPcs
<1>4. /\ TypeOK' /\ Framed' /\ IrqMeans' /\ Unborn' /\ Fresh' /\ ReadersExact'
      /\ Top' = a
  BY <1>2, <1>3, Edit
<1>5. OffMeans'
  BY <1>4, Off DEF OffMeans
<1>6. AtBoot'
  BY <1>4, Consts DEF Inv, AtBoot, TurnPcs
<1> QED
  BY <1>4, <1>5, <1>6 DEF Inv

LEMMA PoppedInv == ASSUME Inv, Popped PROVE Inv'
<1>1. /\ Top.pc = "popped" /\ rqLocked' = FALSE
      /\ UNCHANGED <<state, current, writer, readers, ctx, cpu, shell, halted>>
  BY DEF Popped, At
<1>2. /\ Guards(Top.pc) = 0 /\ readers \in Nat /\ queue \in Seq(Pid) /\ iso' = iso
      /\ nextPid' = nextPid
  BY <1>1 DEF Guards, ReadPcs, Inv, TypeOK, shell
<1>3. CASE queue = << >>
  <2>1. cpu # Boot
    BY <1>1, <1>3 DEF Inv, AtBoot
  <2>2. Return /\ queue' = queue
    BY <1>3 DEF Popped
  <2>3. RestOK'
    <3>1. irq' \in BOOLEAN
      BY <2>2 DEF Return
    <3> QED
      BY <1>1, <2>2, <3>1, RestTyped DEF Inv, RestOK, shell
  <2>4. readers' = readers - Guards(Top.pc)
    BY <1>1, <1>2
  <2> QED
    BY <1>1, <1>2, <2>1, <2>2, <2>3, <2>4, ReturnInv
<1>4. CASE queue # << >>
  <2> DEFINE a == Frame(Top.op, "swap", Head(queue))
  <2>1. SetTop(a) /\ queue' = Tail(queue) /\ irq' = irq
    BY <1>4 DEF Popped
  <2>2. Head(queue) \in Pid /\ Tail(queue) \in Seq(Pid)
    BY <1>2, <1>4
  <2>3. Top.op \in {"boot", "yield"} /\ Top.op \in Ops
    BY <1>1, OpAt DEF Ops
  <2>4. a \in Activation /\ a.op = Top.op /\ a.pc = "swap" /\ a.nxt = Head(queue) /\ a.prv = Boot
    <3>1. "swap" \in Pcs /\ Head(queue) \in Threads
      BY <2>2, Consts DEF Pcs, SwitchPcs
    <3> QED
      BY <2>3, <3>1, FrameIn
  <2> HIDE DEF a
  <2>5. WellFormed(a)
    BY <2>2, <2>3, <2>4 DEF WellFormed, TurnPcs
  <2>6. readers' = readers + Guards(a.pc) - Guards(Top.pc)
    BY <1>1, <1>2, <2>4 DEF Guards, ReadPcs
  <2>7. cpu = Boot => current' = Boot /\ a.nxt = Shell
    BY <1>1, <2>4 DEF Inv, AtBoot
  <2>8. RestOK'
    BY <1>1, <2>1, <2>2, RestTyped DEF Inv, RestOK, shell
  <2> QED
    BY <1>1, <1>2, <2>1, <2>4, <2>5, <2>6, <2>7, <2>8, TurnInv DEF TurnPcs
<1> QED
  BY <1>3, <1>4

LEMMA SwapInv == ASSUME Inv, Swap PROVE Inv'
<1>1. /\ Top.pc = "swap" /\ current' = Top.nxt
      /\ UNCHANGED <<state, queue, locks, ctx, cpu, shell, halted>>
  BY DEF Swap, At
<1>2. /\ Guards(Top.pc) = 0 /\ readers \in Nat /\ iso' = iso /\ nextPid' = nextPid
      /\ readers' = readers
  BY <1>1 DEF Guards, ReadPcs, Inv, TypeOK, shell, locks
<1>3. /\ Top \in Activation /\ WellFormed(Top) /\ Top.nxt \in Pid /\ Top.nxt \in 0 .. MaxPid
      /\ current \in 0 .. MaxPid
  BY <1>1, TopIn, Consts DEF WellFormed, TurnPcs, Inv, TypeOK, Threads
<1>4. cpu = Boot => current = Boot /\ Top.nxt = Shell
  BY <1>1 DEF Inv, AtBoot, TurnPcs
<1>5. CASE current = Top.nxt
  <2>1. cpu # Boot
    BY <1>4, <1>5, Consts
  <2>2. Return
    BY <1>5 DEF Swap
  <2>3. RestOK'
    <3>1. irq' \in BOOLEAN
      BY <2>2 DEF Return
    <3> QED
      BY <1>1, <1>3, <3>1, RestTyped DEF Inv, RestOK, shell, locks
  <2>4. readers' = readers - Guards(Top.pc)
    BY <1>2
  <2> QED
    BY <1>1, <1>2, <2>1, <2>2, <2>3, <2>4, ReturnInv
<1>6. CASE current # Top.nxt
  <2> DEFINE a == [Top EXCEPT !.pc = "read", !.prv = current]
  <2>1. SetTop(a) /\ irq' = irq
    BY <1>6 DEF Swap
  <2>2. a \in Activation /\ a.op = Top.op /\ a.pc = "read" /\ a.nxt = Top.nxt /\ a.prv = current
    BY <1>3 DEF Activation, Pcs, SwitchPcs
  <2> HIDE DEF a
  <2>3. Top.op = "boot" => current = Boot
    BY <1>4, TopIn
  <2>4. WellFormed(a)
    BY <1>1, <1>3, <2>2, <2>3, OpAt DEF WellFormed, TurnPcs
  <2>5. readers' = readers + Guards(a.pc) - Guards(Top.pc)
    BY <1>1, <1>2, <2>2 DEF Guards, ReadPcs
  <2>6. RestOK'
    BY <1>1, <1>3, <2>1, RestTyped DEF Inv, RestOK, shell, locks
  <2>7. a.nxt \in Pid /\ writer' = writer /\ rqLocked' = rqLocked
    BY <1>1, <1>3, <2>2 DEF locks
  <2> QED
    BY <1>1, <1>2, <1>4, <2>1, <2>2, <2>4, <2>5, <2>6, <2>7, TurnInv DEF TurnPcs
<1> QED
  BY <1>5, <1>6

LEMMA ReadInv == ASSUME Inv, Read PROVE Inv'
<1> DEFINE a == [Top EXCEPT !.pc = "demote"]
<1>1. /\ Top.pc = "read" /\ readers' = readers + 1 /\ SetTop(a)
      /\ UNCHANGED <<state, queue, current, rqLocked, writer, ctx, cpu, irq, shell, halted>>
  BY DEF Read, At, Goto
<1>2. a \in Activation /\ a.op = Top.op /\ a.pc = "demote" /\ a.nxt = Top.nxt /\ a.prv = Top.prv
  BY GotoIn DEF Pcs, SwitchPcs
<1> HIDE DEF a
<1>3. WellFormed(a)
  BY <1>1, <1>2, TopIn, OpAt DEF WellFormed, TurnPcs
<1>4. readers' = readers + Guards(a.pc) - Guards(Top.pc)
  BY <1>1, <1>2 DEF Guards, ReadPcs, Inv, TypeOK
<1>5. RestOK'
  BY <1>1, RestTyped DEF Inv, RestOK, shell
<1>6. cpu = Boot => a.nxt = Shell
  BY <1>1, <1>2 DEF Inv, AtBoot, TurnPcs
<1>7. iso' = iso /\ nextPid' = nextPid
  BY <1>1 DEF shell
<1> QED
  BY <1>1, <1>2, <1>3, <1>4, <1>5, <1>6, <1>7, TurnInv DEF TurnPcs

LEMMA DemoteInv == ASSUME Inv, Demote PROVE Inv'
<1>1. /\ Top.pc = "demote" /\ UNCHANGED <<queue, current, locks, ctx, cpu, irq, shell, halted>>
  BY DEF Demote, At
<1>2. /\ Top \in Activation /\ WellFormed(Top) /\ Top.nxt \in Pid /\ Top.prv \in Threads
      /\ Top.op \in {"boot", "yield", "isr"}
  BY <1>1, TopIn, OpAt DEF WellFormed, TurnPcs, Activation, Threads
<1>3. iso' = iso /\ nextPid' = nextPid /\ readers' = readers /\ writer' = writer /\ rqLocked' = rqLocked
  BY <1>1 DEF shell, locks
<1>4. cpu = Boot => Top.nxt = Shell /\ Top.prv = Boot
  BY <1>1, <1>2, TopIn DEF Inv, AtBoot, TurnPcs, WellFormed
<1>5. ASSUME NEW a \in Activation, SetTop(a), a.op = Top.op, a.nxt = Top.nxt,
             a.pc \in {"push", "mark"}, a.pc = "push" => a.prv \in Pid,
             a.op = "boot" => a.prv = Boot,
             state' \in [Pid -> {"none", "Runnable", "Running", "Zombie"}],
             \A p \in Pid : state[p] = "none" <=> state'[p] = "none"
      PROVE  Inv'
  <2>1. WellFormed(a)
    BY <1>2, <1>5 DEF WellFormed, TurnPcs
  <2>2. readers' = readers + Guards(a.pc) - Guards(Top.pc)
    BY <1>1, <1>3, <1>5 DEF Guards, ReadPcs, Inv, TypeOK
  <2>3. RestOK'
    BY <1>1, <1>5, RestTyped DEF Inv, RestOK, shell, locks
  <2> QED
    BY <1>1, <1>3, <1>4, <1>5, <2>1, <2>2, <2>3, TurnInv DEF TurnPcs
<1>6. CASE Top.prv # Boot /\ state[Top.prv] = "Running"
  <2> DEFINE a == [Top EXCEPT !.pc = "push"]
  <2>1. SetTop(a) /\ state' = [state EXCEPT ![Top.prv] = "Runnable"]
    BY <1>6 DEF Demote, Goto
  <2>2. a \in Activation /\ a.op = Top.op /\ a.pc = "push" /\ a.nxt = Top.nxt /\ a.prv = Top.prv
    BY GotoIn DEF Pcs, SwitchPcs
  <2> HIDE DEF a
  <2>3. Top.prv \in Pid /\ (a.op = "boot" => a.prv = Boot)
    BY <1>2, <1>6, <2>2 DEF Pid, Threads, Boot, WellFormed
  <2>4. /\ state' \in [Pid -> {"none", "Runnable", "Running", "Zombie"}]
        /\ \A p \in Pid : state[p] = "none" <=> state'[p] = "none"
    BY <1>6, <2>1, <2>3 DEF Inv, TypeOK
  <2> QED
    BY <1>5, <2>1, <2>2, <2>3, <2>4
<1>7. CASE ~(Top.prv # Boot /\ state[Top.prv] = "Running")
  <2> DEFINE v == IF Top.prv # Boot /\ state[Top.prv] = "none" THEN Boot ELSE Top.prv
             a == [Top EXCEPT !.pc = "mark", !.prv = v]
  <2>1. SetTop(a) /\ state' = state
    BY <1>7 DEF Demote
  <2>2. v \in Threads /\ (Top.prv = Boot => v = Boot)
    BY <1>2, Consts
  <2> HIDE DEF v
  <2>3. a \in Activation /\ a.op = Top.op /\ a.pc = "mark" /\ a.nxt = Top.nxt /\ a.prv = v
    BY <1>2, <2>2 DEF Activation, Pcs, SwitchPcs, Threads
  <2> HIDE DEF a
  <2>4. a.op = "boot" => a.prv = Boot
    BY <1>2, <2>2, <2>3 DEF WellFormed
  <2>5. state' \in [Pid -> {"none", "Runnable", "Running", "Zombie"}]
    BY <2>1 DEF Inv, TypeOK
  <2> QED
    BY <1>5, <2>1, <2>3, <2>4, <2>5
<1> QED
  BY <1>6, <1>7

LEMMA PushedInv == ASSUME Inv, Pushed PROVE Inv'
<1> DEFINE a == [Top EXCEPT !.pc = "mark"]
<1>1. /\ Top.pc = "pushed" /\ rqLocked' = FALSE /\ queue' = Append(queue, Top.prv) /\ SetTop(a)
      /\ UNCHANGED <<state, current, writer, readers, ctx, cpu, irq, shell, halted>>
  BY DEF Pushed, At, Goto
<1>2. a \in Activation /\ a.op = Top.op /\ a.pc = "mark" /\ a.nxt = Top.nxt /\ a.prv = Top.prv
  BY GotoIn DEF Pcs, SwitchPcs
<1> HIDE DEF a
<1>3. WellFormed(Top) /\ Top.prv \in Pid /\ queue \in Seq(Pid)
  BY <1>1, TopIn DEF WellFormed, Inv, TypeOK
<1>4. WellFormed(a)
  BY <1>1, <1>2, <1>3, OpAt DEF WellFormed, TurnPcs
<1>5. readers' = readers + Guards(a.pc) - Guards(Top.pc)
  BY <1>1, <1>2 DEF Guards, ReadPcs, Inv, TypeOK
<1>6. RestOK'
  <2>1. queue' \in Seq(Pid)
    BY <1>1, <1>3
  <2> QED
    BY <1>1, <2>1, RestTyped DEF Inv, RestOK, shell
<1>7. cpu = Boot => a.nxt = Shell
  BY <1>1, <1>2 DEF Inv, AtBoot, TurnPcs
<1>8. iso' = iso /\ nextPid' = nextPid
  BY <1>1 DEF shell
<1> QED
  BY <1>1, <1>2, <1>4, <1>5, <1>6, <1>7, <1>8, TurnInv DEF TurnPcs

LEMMA MarkInv == ASSUME Inv, Mark PROVE Inv'
<1>1. /\ Top.pc = "mark" /\ readers' = readers - 1
      /\ UNCHANGED <<queue, current, rqLocked, writer, ctx, cpu, shell, halted>>
  BY DEF Mark, At
<1>2. Guards(Top.pc) = 1 /\ readers \in Nat /\ iso' = iso /\ nextPid' = nextPid
  BY <1>1 DEF Guards, ReadPcs, Inv, TypeOK, shell
<1>3. /\ Top \in Activation /\ WellFormed(Top) /\ Top.nxt \in Pid
  BY <1>1, TopIn DEF WellFormed, TurnPcs
<1>4. cpu = Boot => Top.nxt = Shell /\ state[Shell] # "none"
  BY <1>1 DEF Inv, AtBoot, TurnPcs
<1>5. CASE state[Top.nxt] = "none"
  <2>1. cpu # Boot
    BY <1>4, <1>5
  <2>2. Return /\ state' = state
    BY <1>5 DEF Mark
  <2>3. RestOK'
    <3>1. irq' \in BOOLEAN
      BY <2>2 DEF Return
    <3> QED
      BY <1>1, <2>2, <3>1, RestTyped DEF Inv, RestOK, shell
  <2>4. readers' = readers - Guards(Top.pc)
    BY <1>1, <1>2
  <2> QED
    BY <1>1, <1>2, <2>1, <2>2, <2>3, <2>4, ReturnInv
<1>6. CASE state[Top.nxt] # "none"
  <2> DEFINE a == [Top EXCEPT !.pc = "save"]
  <2>1. SetTop(a) /\ irq' = irq /\ state' = [state EXCEPT ![Top.nxt] = "Running"]
    BY <1>6 DEF Mark, Goto
  <2>2. a \in Activation /\ a.op = Top.op /\ a.pc = "save" /\ a.nxt = Top.nxt /\ a.prv = Top.prv
    BY GotoIn DEF Pcs, SwitchPcs
  <2> HIDE DEF a
  <2>3. WellFormed(a)
    BY <1>1, <1>3, <2>2, OpAt DEF WellFormed, TurnPcs
  <2>4. readers' = readers + Guards(a.pc) - Guards(Top.pc)
    BY <1>1, <1>2, <2>2 DEF Guards, ReadPcs
  <2>5. /\ state' \in [Pid -> {"none", "Runnable", "Running", "Zombie"}]
        /\ \A p \in Pid : state[p] = "none" <=> state'[p] = "none"
    BY <1>3, <1>6, <2>1 DEF Inv, TypeOK
  <2>6. RestOK'
    BY <1>1, <2>1, <2>5, RestTyped DEF Inv, RestOK, shell
  <2> QED
    BY <1>1, <1>2, <1>4, <2>1, <2>2, <2>3, <2>4, <2>5, <2>6, TurnInv DEF TurnPcs
<1> QED
  BY <1>5, <1>6

(* A step that moves no activation.                                         *)
LEMMA StayInv ==
    ASSUME Inv, UNCHANGED <<queue, current, ctx, cpu, stack, irq, iso, nextPid, readers>>,
           ~writer' \/ writer' = writer, ~rqLocked' \/ rqLocked' = rqLocked,
           \A p \in Pid : state[p] = "none" => state'[p] = "none",
           cpu = Boot => state' = state,
           RestOK'
    PROVE  Inv'
<1>1. TypeOK'
  BY DEF Inv, TypeOK, RestOK
<1>2. Framed'
  BY DEF Inv, Framed
<1>3. Top' = Top
  BY DEF Top, Depth
<1>4. IrqMeans' /\ OffMeans' /\ AtBoot'
  BY <1>3 DEF Inv, IrqMeans, OffMeans, AtBoot
<1>5. Unborn'
  BY DEF Inv, Unborn, ToCome, Numbered
<1>6. Fresh'
  BY DEF Inv, Fresh, FreshAt
<1>7. ReadersExact'
  BY DEF Inv, ReadersExact, Holders
<1> QED
  BY <1>1, <1>2, <1>4, <1>5, <1>6, <1>7 DEF Inv

LEMMA SaveInv == ASSUME Inv, Save PROVE Inv'
<1>1. /\ Top.pc = "save" /\ UNCHANGED <<state, queue, current, locks, cpu, irq, shell>>
  BY DEF Save, At
<1>2. /\ iso' = iso /\ nextPid' = nextPid /\ readers' = readers /\ writer' = writer
      /\ rqLocked' = rqLocked /\ readers \in Nat
  BY <1>1 DEF shell, locks, Inv, TypeOK
<1>3. /\ Top \in Activation /\ WellFormed(Top) /\ Top.op \in {"boot", "yield", "isr"}
      /\ Top.nxt \in Pid /\ Top.prv \in Threads /\ cpu \in Threads /\ Depth \in 1 .. 2
  BY <1>1, TopIn, OpAt DEF WellFormed, TurnPcs, Activation, Threads
<1> DEFINE a == [Top EXCEPT !.pc = "load"]
<1>4. a \in Activation /\ a.op = Top.op /\ a.pc = "load" /\ a.nxt = Top.nxt /\ a.prv = Top.prv
  BY GotoIn DEF Pcs, SwitchPcs
<1>5. Goto("load") => SetTop(a)
  BY DEF Goto
<1> HIDE DEF a
<1>6. WellFormed(a)
  BY <1>1, <1>3, <1>4 DEF WellFormed, TurnPcs
<1>7. readers' = readers + Guards(a.pc) - Guards(Top.pc)
  BY <1>1, <1>2, <1>4 DEF Guards, ReadPcs
<1>8. CASE Top.prv = Boot
  <2>1. SetTop(a) /\ ctx' = ctx /\ halted' = halted
    BY <1>5, <1>8 DEF Save
  <2>2. RestOK'
    BY <1>1, <2>1, RestTyped DEF Inv, RestOK, shell, locks
  <2>3. cpu = Boot => a.nxt = Shell
    BY <1>1, <1>4 DEF Inv, AtBoot, TurnPcs
  <2> QED
    BY <1>1, <1>2, <1>4, <1>6, <1>7, <2>1, <2>2, <2>3, TurnInv DEF TurnPcs
<1>9. CASE Top.prv # Boot /\ state[Top.prv] = "none"
  <2>1. halted' = "wild" /\ ctx' = ctx /\ stack' = stack
    BY <1>9 DEF Save
  <2>2. RestOK'
    BY <1>1, <2>1, RestTyped DEF Inv, RestOK, shell, locks
  <2> QED
    BY <1>1, <1>2, <2>1, <2>2, StayInv
<1>10. CASE Top.prv # Boot /\ state[Top.prv] # "none"
  <2> DEFINE p == Top.prv
             c == [owner |-> cpu, depth |-> Depth, fresh |-> TRUE]
  <2>1. SetTop(a) /\ ctx' = [ctx EXCEPT ![p] = c] /\ halted' = halted
    BY <1>5, <1>10 DEF Save
  <2>2. p \in Pid /\ cpu # Boot
    BY <1>3, <1>10, TopIn DEF Pid, Threads, Boot, WellFormed
  <2>3. cpu \in Pid
    BY <1>3, <2>2 DEF Pid, Threads, Boot
  <2>4. c \in [owner : Pid, depth : 1 .. 2, fresh : BOOLEAN] /\ c.owner = cpu /\ c.depth = Depth
    BY <1>3, <2>3
  <2>5. /\ ctx' \in [Pid -> [owner : Pid, depth : 1 .. 2, fresh : BOOLEAN]]
        /\ ctx'[p] = c /\ \A q \in Pid : q # p => ctx'[q] = ctx[q]
    BY <2>1, <2>2, <2>4 DEF Inv, TypeOK
  <2> HIDE DEF c
  <2>6. RestOK'
    BY <1>1, <2>1, <2>5, RestTyped DEF Inv, RestOK, shell, locks
  <2>7. Alike(a)
    BY <1>3, <1>4, <1>6 DEF Alike
  <2>8. /\ stack' \in [Threads -> Seq(Activation)]
        /\ \A t \in Threads : Len(stack'[t]) = Len(stack[t])
        /\ \A t \in Threads : t # cpu => stack'[t] = stack[t]
        /\ \A d \in 1 .. 2 : d # Depth => stack'[cpu][d] = stack[cpu][d]
        /\ stack'[cpu][Depth] = a /\ Depth' = Depth /\ Top' = a
    BY <1>1, <1>4, <2>1, Edited
  <2>9. Framed'
    BY <1>1, <1>2, <1>4, <2>1, <2>7, EditFramed
  <2>10. ReadersExact' /\ readers' \in Nat
    BY <1>1, <1>4, <1>7, <2>1, EditReaders
  <2>11. TypeOK'
    BY <2>6, <2>8, <2>10 DEF Inv, TypeOK, RestOK, Threads
  <2>12. IrqMeans' /\ OffMeans' /\ AtBoot'
    <3>1. irq' = irq /\ cpu' = cpu
      BY <1>1
    <3>2. IrqMeans'
      BY <2>8, <3>1 DEF Inv, IrqMeans, Depth
    <3>3. OffMeans'
      BY <1>1, <1>2, <3>1, Off DEF OffMeans
    <3> QED
      BY <2>2, <3>1, <3>2, <3>3 DEF AtBoot
  <2>13. Unborn'
    <3>1. ASSUME NEW q \in Pid, ToCome(q)' PROVE ToCome(q)
      <4>1. CASE cpu = Shell /\ Depth = 1
        BY <1>2, <1>4, <2>8, <3>1, <4>1 DEF ToCome
      <4>2. CASE ~(cpu = Shell /\ Depth = 1)
        BY SMTT(60), <1>2, <2>8, <3>1, <4>2, Consts DEF ToCome
      <4> QED
        BY <4>1, <4>2
    <3>2. ASSUME NEW q \in Pid, ToCome(q)'
          PROVE  (/\ q # Shell /\ cpu # q /\ state[q] = "none"
                  /\ Len(stack[q]) = 1 /\ stack[q][1].pc = "code"
                  /\ ctx[q].owner = q /\ ~ctx[q].fresh
                  /\ \A r \in Pid : r # q => ctx[r].owner # q)'
      <4>1. /\ q # Shell /\ cpu # q /\ state[q] = "none"
            /\ Len(stack[q]) = 1 /\ stack[q][1].pc = "code"
            /\ ctx[q].owner = q /\ ~ctx[q].fresh
            /\ \A r \in Pid : r # q => ctx[r].owner # q
        BY <3>1, <3>2 DEF Inv, Unborn
      <4>2. q # p
        BY <1>10, <4>1
      <4>3. stack'[q] = stack[q]
        BY <1>1, <2>8, <4>1, Consts
      <4> QED
        BY <1>1, <2>2, <2>4, <2>5, <4>1, <4>2, <4>3
    <3>3. Numbered'
      <4>1. Numbered
        BY DEF Inv, Unborn
      <4>2. CASE cpu = Shell /\ Depth = 1
        BY <1>2, <1>4, <2>8, <4>1, <4>2 DEF Numbered
      <4>3. CASE ~(cpu = Shell /\ Depth = 1)
        BY SMTT(60), <1>2, <2>8, <4>1, <4>3, Consts DEF Numbered
      <4> QED
        BY <4>2, <4>3
    <3> QED
      BY <3>2, <3>3 DEF Unborn
  <2>14. Fresh'
    <3>1. ASSUME NEW q \in Pid, ctx'[q].fresh PROVE FreshAt(ctx[q])'
      <4>1. CASE q = p
        <5>1. ctx'[q].owner = cpu /\ ctx'[q].depth = Depth /\ Depth <= Len(stack'[cpu])
          BY <1>3, <2>4, <2>5, <2>8, <4>1 DEF Depth
        <5> QED
          BY <1>4, <2>8, <5>1 DEF FreshAt
      <4>2. CASE q # p
        <5>1. ctx'[q] = ctx[q] /\ ctx[q].owner \in Threads /\ ctx[q].depth \in 1 .. 2
          BY <2>5, <4>2, Consts DEF Inv, TypeOK
        <5>2. FreshAt(ctx[q])
          BY <3>1, <5>1 DEF Inv, Fresh
        <5>3. CASE ctx[q].owner # cpu
          BY <1>1, <2>8, <5>1, <5>2, <5>3 DEF FreshAt
        <5>4. CASE ctx[q].owner = cpu
          <6>1. stack[cpu][ctx[q].depth].pc = "load" /\ ctx[q].depth # Depth
            BY <1>1, <5>2, <5>4 DEF FreshAt, Top
          <6> QED
            BY <1>1, <2>8, <5>1, <5>2, <5>4, <6>1 DEF FreshAt
        <5> QED
          BY <5>3, <5>4
      <4> QED
        BY <4>1, <4>2
    <3> QED
      BY <3>1 DEF Fresh
  <2> QED
    BY <2>9, <2>10, <2>11, <2>12, <2>13, <2>14 DEF Inv
<1> QED
  BY <1>8, <1>9, <1>10

LEMMA Within == ASSUME NEW l \in 1 .. 2, NEW e \in 1 .. l PROVE e \in 1 .. 2 /\ e <= l /\ (e = 2 => l = 2)
OBVIOUS

(* The thread that is resumed is back at the bottom of its stack.          *)
LEMMA Resumed ==
    ASSUME Inv, NEW n \in Pid, ctx[n].fresh, state[n] # "none"
    PROVE  LET o == ctx[n].owner
               d == ctx[n].depth
               r == Back(SubSeq(stack[o], 1, d))
           IN  /\ o \in Pid /\ d \in 1 .. Len(stack[o])
               /\ d = 2 => stack[o][1].op # "isr"
               /\ r \in Seq(Activation) /\ Len(r) = 1
               /\ \/ r[1] = stack[o][1] /\ (d = 1 => r[1].op = "code" /\ Len(stack[o]) = 1)
                  \/ r[1] = Frame("code", "code", 0) /\ d = 1 /\ stack[o][1].pc = "load"
<1> DEFINE o == ctx[n].owner
           d == ctx[n].depth
           q == stack[o]
           s == SubSeq(q, 1, d)
           r == Back(s)
<1>1. o \in Pid /\ o \in Threads /\ d \in 1 .. 2 /\ FreshAt(ctx[n])
  BY Consts DEF Inv, TypeOK, Fresh
<1>2. q \in Seq(Activation) /\ Len(q) \in 1 .. 2 /\ d \in 1 .. Len(q)
  BY <1>1 DEF Inv, TypeOK, Threads, FreshAt
<1>3. /\ WellFormed(q[1]) /\ q[1].op \notin {"isr", "boot"}
      /\ Len(q) = 2 => q[2].op = "isr"
  BY <1>1, Consts DEF Inv, Framed
<1>4. /\ q[d].pc = "load" \/ (q[1].op = "code" /\ Len(q) = 1)
  BY <1>1 DEF FreshAt
<1> HIDE DEF o, q
<1>5. CASE d = 2
  <2>1. s \in Seq(Activation) /\ Len(s) = 2 /\ s[2] = q[2] /\ s[1] = q[1]
    BY <1>2, <1>5
  <2>2. s[Len(s)].op = "isr"
    BY <1>2, <1>3, <1>5, <2>1
  <2> HIDE DEF s, d
  <2>3. r = SubSeq(s, 1, 1)
    <3>1. Back(s) = SubSeq(s, 1, Len(s) - 1) /\ Len(s) - 1 = 1
      BY <2>1, <2>2 DEF Back
    <3> QED
      BY <3>1
  <2>4. r \in Seq(Activation) /\ Len(r) = 1 /\ r[1] = q[1]
    BY <2>1, <2>3, FirstOf
  <2> QED
    BY <1>1, <1>2, <1>3, <1>5, <2>4 DEF o, d, q, s
<1>6. CASE d = 1
  <2>1. s \in Seq(Activation) /\ Len(s) = 1 /\ s[1] = q[1]
    BY <1>2, <1>6
  <2>2. q[1] \in Activation
    BY <1>2
  <2> HIDE DEF s, d
  <2>3. CASE q[1].op = "code"
    <3>1. r = s
      BY <1>3, <2>1, <2>3 DEF Back
    <3>2. q[d].pc # "load"
      BY <1>3, <1>6, <2>3 DEF WellFormed, CodePcs
    <3> QED
      BY <1>1, <1>2, <1>4, <1>6, <2>1, <2>3, <3>1, <3>2 DEF o, d, q, s
  <2>4. CASE q[1].op # "code"
    <3> DEFINE f == Frame("code", "code", 0)
    <3>1. f \in Activation
      BY FrameIn, Consts DEF Ops, Pcs, CodePcs, Boot
    <3>2. r = [s EXCEPT ![1] = f]
      BY <1>3, <2>1, <2>4 DEF Back
    <3> HIDE DEF f
    <3>3. r \in Seq(Activation) /\ Len(r) = 1 /\ r[1] = f
      BY <2>1, <3>1, <3>2
    <3> QED
      BY <1>1, <1>2, <1>4, <1>6, <2>4, <3>3 DEF f, o, d, q, s
  <2> QED
    BY <2>3, <2>4
<1> QED
  BY <1>1, <1>5, <1>6

LEMMA LoadInv == ASSUME Inv, Load PROVE Inv'
<1> DEFINE n == Top.nxt
           o == ctx[n].owner
           d == ctx[n].depth
           r == Back(SubSeq(stack[o], 1, d))
<1>1. /\ Top.pc = "load" /\ UNCHANGED <<state, queue, current, locks, shell>>
  BY DEF Load, At
<1>2. /\ iso' = iso /\ nextPid' = nextPid /\ readers' = readers /\ writer' = writer
      /\ rqLocked' = rqLocked /\ readers \in Nat
  BY <1>1 DEF shell, locks, Inv, TypeOK
<1>3. n \in Pid /\ stack[cpu][Depth].pc = "load" /\ Len(stack[cpu]) = Depth
  BY <1>1, TopIn DEF WellFormed, TurnPcs, Top, Depth
<1>4. CASE ~(ctx[n].fresh /\ state[n] # "none")
  <2>1. halted' = "wild" /\ UNCHANGED <<cpu, stack, ctx, irq>>
    BY <1>4 DEF Load
  <2>2. RestOK'
    BY <1>1, <2>1, RestTyped DEF Inv, RestOK, shell, locks
  <2> QED
    BY <1>1, <1>2, <2>1, <2>2, StayInv
<1>5. CASE ctx[n].fresh /\ state[n] # "none"
  <2>1. /\ cpu' = o /\ irq' = TRUE /\ halted' = halted
        /\ stack' = [stack EXCEPT ![o] = r]
        /\ ctx' = [p \in Pid |-> IF ctx[p].owner = o /\ ctx[p].depth >= d
                                 THEN [ctx[p] EXCEPT !.fresh = FALSE] ELSE ctx[p]]
    BY <1>5 DEF Load
  <2>2. /\ o \in Pid /\ d \in 1 .. Len(stack[o])
        /\ r \in Seq(Activation) /\ Len(r) = 1
        /\ \/ r[1] = stack[o][1] /\ (d = 1 => r[1].op = "code" /\ Len(stack[o]) = 1)
           \/ r[1] = Frame("code", "code", 0) /\ d = 1 /\ stack[o][1].pc = "load"
    BY <1>3, <1>5, Resumed
  <2> HIDE DEF n, o, d, r
  <2>3. o \in Threads /\ o # Boot /\ Len(stack[o]) \in 1 .. 2 /\ d \in 1 .. 2
        /\ d <= Len(stack[o])
    <3>1. o \in Threads /\ o # Boot
      BY <2>2, Consts
    <3>2. Len(stack[o]) \in 1 .. 2
      BY <3>1 DEF Inv, TypeOK, Threads
    <3>3. d \in 1 .. Len(stack[o])
      BY <2>2
    <3>4. d \in 1 .. 2 /\ d <= Len(stack[o])
      BY <3>2, <3>3, Within
    <3> QED
      BY <3>1, <3>2, <3>4
  <2>4. /\ stack' \in [Threads -> Seq(Activation)] /\ stack'[o] = r
        /\ \A t \in Threads : t # o => stack'[t] = stack[t]
    BY <2>1, <2>2, <2>3 DEF Inv, TypeOK, Threads
  <2>5. \A p \in Pid : /\ ctx'[p].owner = ctx[p].owner /\ ctx'[p].depth = ctx[p].depth
                       /\ ctx'[p].fresh \in BOOLEAN
                       /\ ctx'[p].fresh => ctx[p].fresh /\ ~(ctx[p].owner = o /\ ctx[p].depth >= d)
    <3> TAKE p \in Pid
    <3>1. ctx[p] \in [owner : Pid, depth : 1 .. 2, fresh : BOOLEAN]
      BY DEF Inv, TypeOK
    <3>2. CASE ctx[p].owner = o /\ ctx[p].depth >= d
      <4>1. ctx'[p] = [ctx[p] EXCEPT !.fresh = FALSE]
        BY <2>1, <3>2
      <4> QED
        BY <3>1, <4>1
    <3>3. CASE ~(ctx[p].owner = o /\ ctx[p].depth >= d)
      <4>1. ctx'[p] = ctx[p]
        BY <2>1, <3>3
      <4> QED
        BY <3>1, <3>3, <4>1
    <3> QED
      BY <3>2, <3>3
  <2>6. ctx' \in [Pid -> [owner : Pid, depth : 1 .. 2, fresh : BOOLEAN]]
    <3>1. \A p \in Pid : (IF ctx[p].owner = o /\ ctx[p].depth >= d
                          THEN [ctx[p] EXCEPT !.fresh = FALSE] ELSE ctx[p])
                         \in [owner : Pid, depth : 1 .. 2, fresh : BOOLEAN]
      <4> TAKE p \in Pid
      <4>1. ctx[p] \in [owner : Pid, depth : 1 .. 2, fresh : BOOLEAN]
        BY DEF Inv, TypeOK
      <4> QED
        BY <4>1
    <3> QED
      BY <2>1, <3>1
  <2>7. RestOK'
    <3>1. cpu' \in 0 .. MaxPid /\ irq' \in BOOLEAN
      BY <2>1, <2>3 DEF Threads
    <3> QED
      BY <1>1, <2>1, <2>6, <3>1, RestTyped DEF Inv, RestOK, shell, locks
  <2>8. TypeOK'
    <3>1. \A t \in 0 .. MaxPid : Len(stack'[t]) \in 1 .. 2
      BY <2>2, <2>4 DEF Inv, TypeOK, Threads
    <3> QED
      BY <1>2, <2>4, <2>7, <3>1 DEF TypeOK, RestOK, Threads
  <2>9. /\ WellFormed(r[1]) /\ r[1].op \notin {"isr", "boot"}
        /\ r[1].op \in {"spawn", "reap"} => o = Shell
        /\ r[1] = stack[o][1] \/ r[1].pc = "code"
    <3>1. Framed
      BY DEF Inv
    <3>2. CASE r[1] = stack[o][1]
      BY <2>3, <3>1, <3>2, Consts DEF Framed
    <3>3. CASE r[1] = Frame("code", "code", 0)
      BY <3>3 DEF Frame, WellFormed, TurnPcs, CodePcs, SpawnPcs, ReapPcs
    <3> QED
      BY <2>2, <3>2, <3>3
  <2>10. Framed'
    <3>1. ASSUME NEW t \in Threads
          PROVE  /\ WellFormed(stack'[t][1]) /\ stack'[t][1].op # "isr"
                 /\ t = Boot <=> stack'[t][1].op = "boot"
                 /\ stack'[t][1].op \in {"spawn", "reap"} => t = Shell
                 /\ Len(stack'[t]) = 2 => /\ WellFormed(stack'[t][2]) /\ stack'[t][2].op = "isr"
                                          /\ t # Boot
                                          /\ t # cpu' => stack'[t][2].pc = "load"
      <4>1. CASE t = o
        BY <2>2, <2>3, <2>4, <2>9, <4>1
      <4>2. CASE t # o
        <5>1. Len(stack[t]) = 2 => stack[t][2].pc = "load"
          BY <1>3 DEF Inv, Framed
        <5> QED
          BY <2>4, <4>2, <5>1 DEF Inv, Framed
      <4> QED
        BY <4>1, <4>2
    <3>2. stack'[Shell][1].pc \in {"patch", "patched"} => stack'[Shell][1].nxt \in iso'
      <4>1. stack'[Shell][1] = stack[Shell][1] \/ stack'[Shell][1].pc = "code"
        BY <2>4, <2>9, Consts
      <4> QED
        BY <1>2, <4>1 DEF Inv, Framed
    <3> QED
      BY <3>1, <3>2 DEF Framed
  <2>11. IrqMeans' /\ OffMeans' /\ AtBoot'
    BY <2>1, <2>2, <2>3, <2>4 DEF IrqMeans, OffMeans, AtBoot
  <2>12. Unborn'
    <3>1. ASSUME NEW p \in Pid, ToCome(p)' PROVE ToCome(p)
      <4>1. stack'[Shell][1] = stack[Shell][1] \/ stack'[Shell][1].pc = "code"
        BY <2>4, <2>9, Consts
      <4> QED
        BY <1>2, <3>1, <4>1 DEF ToCome
    <3>2. ASSUME NEW p \in Pid, ToCome(p)'
          PROVE  (/\ p # Shell /\ cpu # p /\ state[p] = "none"
                  /\ Len(stack[p]) = 1 /\ stack[p][1].pc = "code"
                  /\ ctx[p].owner = p /\ ~ctx[p].fresh
                  /\ \A q \in Pid : q # p => ctx[q].owner # p)'
      <4>1. /\ p # Shell /\ state[p] = "none"
            /\ Len(stack[p]) = 1 /\ stack[p][1].pc = "code"
            /\ ctx[p].owner = p /\ ~ctx[p].fresh
            /\ \A q \in Pid : q # p => ctx[q].owner # p
        BY <3>1, <3>2 DEF Inv, Unborn
      <4>2. o # p
        BY <1>3, <1>5, <4>1 DEF o
      <4>3. cpu' # p /\ stack'[p] = stack[p]
        BY <2>1, <2>4, <4>2, Consts
      <4> QED
        BY <1>1, <2>5, <4>1, <4>3
    <3>3. Numbered'
      <4>1. stack'[Shell][1] = stack[Shell][1] \/ stack'[Shell][1].pc = "code"
        BY <2>4, <2>9, Consts
      <4> QED
        BY <1>2, <4>1 DEF Inv, Unborn, Numbered
    <3> QED
      BY <3>2, <3>3 DEF Unborn
  <2>13. Fresh'
    <3>1. ASSUME NEW p \in Pid, ctx'[p].fresh PROVE FreshAt(ctx[p])'
      <4>1. /\ FreshAt(ctx[p]) /\ ctx[p].owner \in Threads /\ ctx[p].depth \in 1 .. 2
            /\ ~(ctx[p].owner = o /\ ctx[p].depth >= d)
            /\ ctx'[p].owner = ctx[p].owner /\ ctx'[p].depth = ctx[p].depth
        BY <2>5, <3>1, Consts DEF Inv, Fresh, TypeOK
      <4>2. CASE ctx[p].owner # o
        BY <2>1, <2>4, <4>1, <4>2 DEF FreshAt
      <4>3. CASE ctx[p].owner = o
        <5>1. d = 2 /\ ctx[p].depth = 1 /\ Len(stack[o]) = 2
          <6>1. ctx[p].depth < d /\ ctx[p].depth \in 1 .. 2 /\ d \in 1 .. 2
            BY <2>3, <4>1, <4>3
          <6>2. d = 2 /\ ctx[p].depth = 1
            BY <6>1
          <6>3. Len(stack[o]) \in 1 .. 2 /\ 2 \in 1 .. Len(stack[o])
            BY <2>2, <2>3, <6>2, Zenon
          <6> QED
            BY <6>2, <6>3, Within
        <5>2. r[1] = stack[o][1] /\ stack[o][1].pc = "load"
          BY <2>2, <4>1, <4>3, <5>1 DEF FreshAt
        <5>3. stack'[o][1].pc = "load" /\ Len(stack'[o]) = 1
          BY <2>2, <2>4, <5>2
        <5> QED
          BY <4>1, <4>3, <5>1, <5>3 DEF FreshAt
      <4> QED
        BY <4>2, <4>3
    <3> QED
      BY <3>1 DEF Fresh
  <2>14. Holders' = Holders
    <3>1. ASSUME NEW t \in Threads, NEW e \in 1 .. 2
          PROVE  <<t, e>> \in Holders' <=> <<t, e>> \in Holders
      <4>1. /\ <<t, e>> \in Holders <=> e <= Len(stack[t]) /\ stack[t][e].pc \in ReadPcs
            /\ <<t, e>> \in Holders' <=> e <= Len(stack'[t]) /\ stack'[t][e].pc \in ReadPcs
        BY DEF Holders
      <4>2. CASE t # o
        BY <2>4, <4>1, <4>2
      <4>3. CASE t = o /\ e = 1
        <5>1. stack'[o][1] = stack[o][1]
              \/ (stack'[o][1].pc = "code" /\ stack[o][1].pc = "load")
          BY <2>2, <2>4 DEF Frame
        <5>2. 1 <= Len(stack'[o]) /\ 1 <= Len(stack[o])
          <6>1. Len(stack'[o]) = 1
            BY <2>2, <2>4
          <6> QED
            BY <2>3, <6>1
        <5> QED
          BY <4>1, <4>3, <5>1, <5>2 DEF ReadPcs
      <4>4. CASE t = o /\ e = 2
        <5>1. ~(2 <= Len(stack'[o]))
          <6>1. Len(stack'[o]) = 1
            BY <2>2, <2>4
          <6> QED
            BY <6>1
        <5>2. Len(stack[o]) = 2 => stack[o][2].pc = "load"
          BY <1>3, <2>3 DEF Inv, Framed
        <5> QED
          BY <2>3, <4>1, <4>4, <5>1, <5>2 DEF ReadPcs
      <4> QED
        BY <4>2, <4>3, <4>4
    <3>2. Holders \subseteq Threads \X (1 .. 2) /\ Holders' \subseteq Threads \X (1 .. 2)
      BY DEF Holders
    <3>3. \A h \in Threads \X (1 .. 2) : h \in Holders' <=> h \in Holders
      <4> TAKE h \in Threads \X (1 .. 2)
      <4>1. PICK t \in Threads, e \in 1 .. 2 : h = <<t, e>>
        OBVIOUS
      <4> QED
        BY <3>1, <4>1
    <3> HIDE DEF Holders
    <3> QED
      BY <3>2, <3>3
  <2>15. ReadersExact'
    BY <1>2, <2>14 DEF Inv, ReadersExact
  <2> QED
    BY <2>8, <2>10, <2>11, <2>12, <2>13, <2>15 DEF Inv
<1> QED
  BY <1>4, <1>5

(* The steps of a task in its own code, or in exit, spawn or reap.         *)
LEMMA CodeInv ==
    ASSUME Inv, NEW a \in Activation, MoveOn(a), WellFormed(a),
           Top.op \in {"code", "exit", "spawn", "reap"}, Top.pc # "load",
           a.op \in {"code", "exit", "spawn", "reap"},
           a.op \in {"spawn", "reap"} => cpu = Shell,
           a.pc \in {"patch", "patched"} => a.nxt \in iso,
           a.pc \notin {"insert", "inserted"},
           \A p \in Pid : state[p] = "none" => state'[p] = "none",
           readers' = readers + Guards(a.pc) - Guards(Top.pc),
           RestOK'
    PROVE  Inv'
<1>1. Alike(a)
  BY DEF Alike
<1>2. /\ TypeOK' /\ Framed' /\ IrqMeans' /\ Unborn' /\ Fresh' /\ ReadersExact'
  BY <1>1, Edit
<1>3. irq' /\ cpu' # Boot
  BY Off, TopIn DEF MoveOn
<1>4. OffMeans' /\ AtBoot'
  BY <1>3 DEF OffMeans, AtBoot
<1> QED
  BY <1>2, <1>4 DEF Inv

LEMMA GuardsNone ==
    /\ \A l \in {"code", "tramp", "update", "epop", "epopped", "ecur", "emark", "load",
                 "take", "taken", "patch", "patched", "spush", "spushed", "insert", "inserted",
                 "swap"} : Guards(l) = 0
    /\ Guards("access") = 1
BY DEF Guards, ReadPcs

LEMMA ExitInv == ASSUME Inv, Exit PROVE Inv'
<1> DEFINE a == Frame("exit", "epop", 0)
<1>1. /\ Top.pc = "code" /\ SetTop(a)
      /\ state' = [state EXCEPT ![current] = IF @ = "none" THEN @ ELSE "Zombie"]
      /\ UNCHANGED <<queue, current, locks, ctx, cpu, irq, shell, halted>>
  BY DEF Exit, At
<1>2. a \in Activation /\ a.op = "exit" /\ a.pc = "epop" /\ a.prv = Boot
  BY FrameIn, Consts DEF Ops, Pcs, SwitchPcs, Boot
<1> HIDE DEF a
<1>3. Top.op = "code" /\ WellFormed(a)
  BY <1>1, <1>2, OpAt DEF CodePcs, WellFormed, TurnPcs, SpawnPcs, ReapPcs
<1>4. /\ MoveOn(a) /\ readers' = readers /\ readers \in Nat
  BY <1>1 DEF MoveOn, shell, locks, Inv, TypeOK
<1>5. readers' = readers + Guards(a.pc) - Guards(Top.pc)
  BY <1>1, <1>2, <1>4, GuardsNone
<1>6. /\ state' \in [Pid -> {"none", "Runnable", "Running", "Zombie"}]
      /\ \A p \in Pid : state[p] = "none" => state'[p] = "none"
  BY <1>1 DEF Inv, TypeOK
<1>7. RestOK'
  BY <1>1, <1>6, RestTyped DEF Inv, RestOK, shell, locks
<1> QED
  BY <1>1, <1>2, <1>3, <1>4, <1>5, <1>6, <1>7, CodeInv

LEMMA ExitPoppedInv == ASSUME Inv, ExitPopped PROVE Inv'
<1>1. /\ Top.pc = "epopped" /\ rqLocked' = FALSE
      /\ UNCHANGED <<state, current, writer, readers, ctx, cpu, irq, shell>>
  BY DEF ExitPopped, At
<1>2. readers \in Nat /\ queue \in Seq(Pid) /\ iso' = iso /\ nextPid' = nextPid
  BY <1>1 DEF Inv, TypeOK, shell
<1>3. CASE queue = << >>
  <2>1. halted' = "exit" /\ stack' = stack /\ queue' = queue
    BY <1>3 DEF ExitPopped
  <2>2. RestOK'
    BY <1>1, <2>1, RestTyped DEF Inv, RestOK, shell
  <2> QED
    BY <1>1, <1>2, <2>1, <2>2, StayInv
<1>4. CASE queue # << >>
  <2> DEFINE a == Frame("exit", "ecur", Head(queue))
  <2>1. SetTop(a) /\ queue' = Tail(queue) /\ halted' = halted
    BY <1>4 DEF ExitPopped
  <2>2. Head(queue) \in Pid /\ Tail(queue) \in Seq(Pid)
    BY <1>2, <1>4
  <2>3. a \in Activation /\ a.op = "exit" /\ a.pc = "ecur" /\ a.nxt = Head(queue) /\ a.prv = Boot
    <3>1. "ecur" \in Pcs /\ "exit" \in Ops /\ Head(queue) \in Threads
      BY <2>2, Consts DEF Pcs, SwitchPcs, Ops
    <3> QED
      BY <3>1, FrameIn
  <2> HIDE DEF a
  <2>4. Top.op = "exit" /\ WellFormed(a)
    BY <1>1, <2>2, <2>3, OpAt DEF WellFormed, TurnPcs, SpawnPcs, ReapPcs
  <2>5. MoveOn(a) /\ readers' = readers + Guards(a.pc) - Guards(Top.pc)
    BY <1>1, <1>2, <2>1, <2>3, GuardsNone DEF MoveOn
  <2>6. RestOK'
    BY <1>1, <2>1, <2>2, RestTyped DEF Inv, RestOK, shell
  <2> QED
    BY <1>1, <2>3, <2>4, <2>5, <2>6, CodeInv
<1> QED
  BY <1>3, <1>4

LEMMA ExitCurrentInv == ASSUME Inv, ExitCurrent PROVE Inv'
<1> DEFINE a == [Top EXCEPT !.pc = "emark"]
<1>1. /\ Top.pc = "ecur" /\ current' = Top.nxt /\ SetTop(a)
      /\ UNCHANGED <<state, queue, locks, ctx, cpu, irq, shell, halted>>
  BY DEF ExitCurrent, At, Goto
<1>2. a \in Activation /\ a.op = Top.op /\ a.pc = "emark" /\ a.nxt = Top.nxt /\ a.prv = Top.prv
  BY GotoIn DEF Pcs, SwitchPcs
<1> HIDE DEF a
<1>3. Top.op = "exit" /\ Top.nxt \in Pid /\ Top.nxt \in 0 .. MaxPid
  BY <1>1, OpAt, TopIn, Consts DEF WellFormed, Threads
<1>4. WellFormed(a)
  BY <1>2, <1>3 DEF WellFormed, TurnPcs, SpawnPcs, ReapPcs
<1>5. MoveOn(a) /\ readers' = readers /\ readers \in Nat
  BY <1>1 DEF MoveOn, shell, locks, Inv, TypeOK
<1>6. readers' = readers + Guards(a.pc) - Guards(Top.pc)
  BY <1>1, <1>2, <1>5, GuardsNone
<1>7. RestOK'
  BY <1>1, <1>3, RestTyped DEF Inv, RestOK, shell, locks
<1> QED
  BY <1>1, <1>2, <1>3, <1>4, <1>5, <1>6, <1>7, CodeInv

LEMMA ExitMarkInv == ASSUME Inv, ExitMark PROVE Inv'
<1>1. /\ Top.pc = "emark" /\ UNCHANGED <<queue, current, locks, ctx, cpu, irq, shell>>
  BY DEF ExitMark, At
<1>2. /\ readers' = readers /\ readers \in Nat /\ iso' = iso /\ nextPid' = nextPid
      /\ writer' = writer /\ rqLocked' = rqLocked
  BY <1>1 DEF shell, locks, Inv, TypeOK
<1>3. CASE state[Top.nxt] = "none"
  <2>1. halted' = "noTcb" /\ state' = state /\ stack' = stack
    BY <1>3 DEF ExitMark
  <2>2. RestOK'
    BY <1>1, <2>1, RestTyped DEF Inv, RestOK, shell, locks
  <2> QED
    BY <1>1, <1>2, <2>1, <2>2, StayInv
<1>4. CASE state[Top.nxt] # "none"
  <2> DEFINE a == [Top EXCEPT !.pc = "load"]
  <2>1. SetTop(a) /\ state' = [state EXCEPT ![Top.nxt] = "Running"] /\ halted' = halted
    BY <1>4 DEF ExitMark, Goto
  <2>2. a \in Activation /\ a.op = Top.op /\ a.pc = "load" /\ a.nxt = Top.nxt /\ a.prv = Top.prv
    BY GotoIn DEF Pcs, SwitchPcs
  <2> HIDE DEF a
  <2>3. Top.op = "exit" /\ Top.nxt \in Pid
    BY <1>1, OpAt, TopIn DEF WellFormed
  <2>4. WellFormed(a)
    BY <2>2, <2>3 DEF WellFormed, TurnPcs
  <2>5. MoveOn(a) /\ readers' = readers + Guards(a.pc) - Guards(Top.pc)
    BY <1>1, <1>2, <2>1, <2>2, GuardsNone DEF MoveOn
  <2>6. /\ state' \in [Pid -> {"none", "Runnable", "Running", "Zombie"}]
        /\ \A p \in Pid : state[p] = "none" => state'[p] = "none"
    BY <1>4, <2>1, <2>3 DEF Inv, TypeOK
  <2>7. RestOK'
    BY <1>1, <2>1, <2>6, RestTyped DEF Inv, RestOK, shell, locks
  <2> QED
    BY <1>1, <2>2, <2>3, <2>4, <2>5, <2>6, <2>7, CodeInv
<1> QED
  BY <1>3, <1>4

LEMMA TrampolineInv == ASSUME Inv, Trampoline PROVE Inv'
<1>1. /\ Top.pc = "tramp" /\ UNCHANGED <<state, queue, current, locks, ctx, cpu, irq, shell>>
  BY DEF Trampoline, At
<1>2. /\ readers' = readers /\ readers \in Nat /\ iso' = iso /\ nextPid' = nextPid
      /\ writer' = writer /\ rqLocked' = rqLocked
  BY <1>1 DEF shell, locks, Inv, TypeOK
<1>3. CASE current \notin patched
  <2>1. halted' = "fault" /\ stack' = stack
    BY <1>3 DEF Trampoline
  <2>2. RestOK'
    BY <1>1, <2>1, RestTyped DEF Inv, RestOK, shell, locks
  <2> QED
    BY <1>1, <1>2, <2>1, <2>2, StayInv
<1>4. CASE current \in patched
  <2> DEFINE a == [Top EXCEPT !.pc = "code"]
  <2>1. SetTop(a) /\ halted' = halted
    BY <1>4 DEF Trampoline, Goto
  <2>2. a \in Activation /\ a.op = Top.op /\ a.pc = "code" /\ a.nxt = Top.nxt /\ a.prv = Top.prv
    BY GotoIn DEF Pcs, CodePcs
  <2> HIDE DEF a
  <2>3. Top.op = "code" /\ WellFormed(a)
    BY <1>1, <2>2, OpAt DEF WellFormed, CodePcs, TurnPcs, SpawnPcs, ReapPcs
  <2>4. MoveOn(a) /\ readers' = readers + Guards(a.pc) - Guards(Top.pc)
    BY <1>1, <1>2, <2>1, <2>2, GuardsNone DEF MoveOn
  <2>5. RestOK'
    BY <1>1, <2>1, RestTyped DEF Inv, RestOK, shell, locks
  <2> QED
    BY <1>1, <2>2, <2>3, <2>4, <2>5, CodeInv
<1> QED
  BY <1>3, <1>4

LEMMA AccessInv == ASSUME Inv, Access PROVE Inv'
<1> DEFINE a == [Top EXCEPT !.pc = "access"]
<1>1. /\ Top.pc = "code" /\ readers' = readers + 1 /\ SetTop(a)
      /\ UNCHANGED <<state, queue, current, rqLocked, writer, ctx, cpu, irq, shell, halted>>
  BY DEF Access, At, Goto
<1>2. a \in Activation /\ a.op = Top.op /\ a.pc = "access" /\ a.nxt = Top.nxt /\ a.prv = Top.prv
  BY GotoIn DEF Pcs, CodePcs
<1> HIDE DEF a
<1>3. Top.op = "code" /\ WellFormed(a)
  BY <1>1, <1>2, OpAt DEF WellFormed, CodePcs, TurnPcs, SpawnPcs, ReapPcs
<1>4. /\ MoveOn(a) /\ readers \in Nat
  BY <1>1 DEF MoveOn, shell, Inv, TypeOK
<1>5. readers' = readers + Guards(a.pc) - Guards(Top.pc)
  <2>1. Guards(a.pc) = 1 /\ Guards(Top.pc) = 0
    BY <1>1, <1>2, GuardsNone
  <2> QED
    BY <1>1, <1>4, <2>1
<1>6. RestOK'
  BY <1>1, RestTyped DEF Inv, RestOK, shell
<1> QED
  BY <1>1, <1>2, <1>3, <1>4, <1>5, <1>6, CodeInv

LEMMA AccessedInv == ASSUME Inv, Accessed PROVE Inv'
<1> DEFINE a == [Top EXCEPT !.pc = "code"]
<1>1. /\ Top.pc = "access" /\ readers' = readers - 1 /\ SetTop(a)
      /\ UNCHANGED <<state, queue, current, rqLocked, writer, ctx, cpu, irq, shell, halted>>
  BY DEF Accessed, At, Goto
<1>2. a \in Activation /\ a.op = Top.op /\ a.pc = "code" /\ a.nxt = Top.nxt /\ a.prv = Top.prv
  BY GotoIn DEF Pcs, CodePcs
<1> HIDE DEF a
<1>3. Top.op = "code" /\ WellFormed(a)
  BY <1>1, <1>2, OpAt DEF WellFormed, CodePcs, TurnPcs, SpawnPcs, ReapPcs
<1>4. /\ MoveOn(a) /\ readers \in Nat
  BY <1>1 DEF MoveOn, shell, Inv, TypeOK
<1>5. readers' = readers + Guards(a.pc) - Guards(Top.pc)
  <2>1. Guards(a.pc) = 0 /\ Guards(Top.pc) = 1
    BY <1>1, <1>2, GuardsNone
  <2> QED
    BY <1>1, <1>4, <2>1
<1>6. RestOK'
  BY <1>1, RestTyped DEF Inv, RestOK, shell
<1> QED
  BY <1>1, <1>2, <1>3, <1>4, <1>5, <1>6, CodeInv

LEMMA UpdatedInv == ASSUME Inv, Updated PROVE Inv'
<1> DEFINE a == [Top EXCEPT !.pc = "code"]
<1>1. /\ Top.pc = "update" /\ writer' = FALSE /\ SetTop(a)
      /\ UNCHANGED <<state, queue, current, rqLocked, readers, ctx, cpu, irq, shell, halted>>
  BY DEF Updated, At, Goto
<1>2. a \in Activation /\ a.op = Top.op /\ a.pc = "code" /\ a.nxt = Top.nxt /\ a.prv = Top.prv
  BY GotoIn DEF Pcs, CodePcs
<1> HIDE DEF a
<1>3. Top.op = "code" /\ WellFormed(a)
  BY <1>1, <1>2, OpAt DEF WellFormed, CodePcs, TurnPcs, SpawnPcs, ReapPcs
<1>4. /\ MoveOn(a) /\ readers \in Nat
  BY <1>1 DEF MoveOn, shell, Inv, TypeOK
<1>5. readers' = readers + Guards(a.pc) - Guards(Top.pc)
  BY <1>1, <1>2, <1>4, GuardsNone
<1>6. RestOK'
  BY <1>1, RestTyped DEF Inv, RestOK, shell
<1> QED
  BY <1>1, <1>2, <1>3, <1>4, <1>5, <1>6, CodeInv

LEMMA ReapInv == ASSUME Inv, NEW p \in jobs, Reap(p) PROVE Inv'
<1> DEFINE a == Frame("reap", "take", p)
<1>1. /\ Top.pc = "code" /\ cpu = Shell /\ SetTop(a)
      /\ UNCHANGED <<state, queue, current, locks, ctx, cpu, irq, shell, halted>>
  BY DEF Reap, At
<1>2. p \in Pid /\ p \in Threads
  BY Consts DEF Inv, TypeOK
<1>3. a \in Activation /\ a.op = "reap" /\ a.pc = "take" /\ a.nxt = p /\ a.prv = Boot
  <2>1. "take" \in Pcs /\ "reap" \in Ops
    BY DEF Pcs, ReapPcs, Ops
  <2> QED
    BY <1>2, <2>1, FrameIn
<1> HIDE DEF a
<1>4. Top.op = "code" /\ WellFormed(a)
  BY <1>1, <1>2, <1>3, OpAt DEF WellFormed, CodePcs, TurnPcs, SpawnPcs, ReapPcs
<1>5. MoveOn(a) /\ readers' = readers /\ readers \in Nat
  BY <1>1 DEF MoveOn, shell, locks, Inv, TypeOK
<1>6. readers' = readers + Guards(a.pc) - Guards(Top.pc)
  BY <1>1, <1>3, <1>5, GuardsNone
<1>7. RestOK'
  BY <1>1, RestTyped DEF Inv, RestOK, shell, locks
<1> QED
  BY <1>1, <1>3, <1>4, <1>5, <1>6, <1>7, CodeInv

LEMMA GiveUpInv == ASSUME Inv, NEW p \in jobs, GiveUp(p) PROVE Inv'
<1>1. /\ jobs' = jobs \ {p} /\ tries' = Wait
      /\ UNCHANGED <<state, queue, current, nextPid, locks, ctx, cpu, stack, irq,
                     iso, patched, reaped, halted>>
  BY DEF GiveUp
<1>2. RestOK'
  <2>1. tries' \in 0 .. Wait
    BY <1>1, Consts
  <2> QED
    BY <1>1, <2>1, RestTyped DEF Inv, RestOK, locks
<1> QED
  BY <1>1, <1>2, StayInv DEF locks

LEMMA TakenInv == ASSUME Inv, Taken PROVE Inv'
<1> DEFINE p == Top.nxt
<1>1. /\ Top.pc = "taken" /\ state' = [state EXCEPT ![p] = "none"] /\ writer' = FALSE
      /\ UNCHANGED <<queue, current, rqLocked, readers, ctx, cpu, irq, nextPid, iso, patched>>
  BY DEF Taken, At
<1>2. Top.op = "reap" /\ p \in Pid /\ cpu = Shell /\ cpu # Boot
  BY <1>1, OpAt, TopIn, Consts DEF WellFormed, ReapPcs
<1> HIDE DEF p
<1>3. /\ state' \in [Pid -> {"none", "Runnable", "Running", "Zombie"}]
      /\ \A q \in Pid : state[q] = "none" => state'[q] = "none"
  BY <1>1, <1>2 DEF Inv, TypeOK
<1>4. CASE state[p] = "Zombie"
  <2> DEFINE a == Frame("code", "code", 0)
  <2>1. /\ reaped' = reaped \cup {p} /\ jobs' = jobs \ {p} /\ tries' = Wait
        /\ SetTop(a) /\ halted' = halted
    BY <1>4 DEF Taken, p
  <2>2. a \in Activation /\ a.op = "code" /\ a.pc = "code"
    <3>1. "code" \in Ops /\ "code" \in Pcs /\ 0 \in Threads
      BY Consts DEF Ops, Pcs, CodePcs, Boot
    <3> QED
      BY <3>1, FrameIn
  <2> HIDE DEF a
  <2>3. WellFormed(a)
    BY <2>2 DEF WellFormed, CodePcs, TurnPcs, SpawnPcs, ReapPcs
  <2>4. MoveOn(a) /\ readers' = readers /\ readers \in Nat
    BY <1>1, <2>1 DEF MoveOn, Inv, TypeOK
  <2>5. readers' = readers + Guards(a.pc) - Guards(Top.pc)
    BY <1>1, <2>2, <2>4, GuardsNone
  <2>6. RestOK'
    <3>1. tries' \in 0 .. Wait
      BY <2>1, Consts
    <3> QED
      BY <1>1, <1>2, <1>3, <2>1, <3>1, RestTyped DEF Inv, RestOK
  <2> QED
    BY <1>1, <1>2, <1>3, <2>2, <2>3, <2>4, <2>5, <2>6, CodeInv
<1>5. CASE state[p] # "Zombie"
  <2>1. halted' = "reap" /\ UNCHANGED <<stack, jobs, tries, reaped>>
    BY <1>5 DEF Taken, p
  <2>2. RestOK'
    BY <1>1, <1>3, <2>1, RestTyped DEF Inv, RestOK
  <2> QED
    BY <1>1, <1>2, <1>3, <2>1, <2>2, StayInv
<1> QED
  BY <1>4, <1>5

LEMMA SpawnInv == ASSUME Inv, NEW kind, Spawn(kind) PROVE Inv'
<1> DEFINE a == Frame("spawn", "insert", nextPid)
<1>1. /\ Top.pc = "code" /\ cpu = Shell /\ nextPid <= MaxPid /\ nextPid' = nextPid + 1
      /\ iso' = IF kind = "isolated" THEN iso \cup {nextPid} ELSE iso
      /\ SetTop(a)
      /\ UNCHANGED <<state, queue, current, locks, ctx, cpu, irq, patched, jobs,
                     tries, reaped, halted>>
  BY DEF Spawn, At
<1>2. nextPid \in Pid /\ nextPid \in Threads /\ nextPid' \in 2 .. MaxPid + 1
  BY <1>1, Consts DEF Inv, TypeOK, Pid, Threads
<1>3. a \in Activation /\ a.op = "spawn" /\ a.pc = "insert" /\ a.nxt = nextPid
  <2>1. "insert" \in Pcs /\ "spawn" \in Ops
    BY DEF Pcs, SpawnPcs, Ops
  <2> QED
    BY <1>2, <2>1, FrameIn
<1> HIDE DEF a
<1>4. Top.op = "code" /\ WellFormed(a) /\ irq /\ cpu # Boot
  BY <1>1, <1>2, <1>3, OpAt, Off, Consts DEF WellFormed, CodePcs, TurnPcs, SpawnPcs, ReapPcs
<1>5. Alike(a)
  BY <1>1, <1>3, <1>4 DEF Alike
<1>6. /\ stack' \in [Threads -> Seq(Activation)]
      /\ \A t \in Threads : Len(stack'[t]) = Len(stack[t])
      /\ \A t \in Threads : t # cpu => stack'[t] = stack[t]
      /\ stack'[cpu][Depth] = a /\ Depth' = Depth /\ Top' = a
  BY <1>1, <1>3, Edited
<1>7. Depth = 1
  BY <1>4, TopIn
<1>8. iso \subseteq iso' /\ iso' \subseteq Pid
  BY <1>1, <1>2 DEF Inv, TypeOK
<1>9. ReadersExact' /\ readers' \in Nat
  <2>1. readers' = readers /\ readers \in Nat
    BY <1>1 DEF locks, Inv, TypeOK
  <2>2. readers' = readers + Guards(a.pc) - Guards(Top.pc)
    BY <1>1, <1>3, <2>1, GuardsNone
  <2> QED
    BY <1>1, <1>3, <2>2, EditReaders
<1>10. TypeOK'
  <2>1. RestOK'
    BY <1>1, <1>2, <1>8, RestTyped DEF Inv, RestOK, locks
  <2> QED
    BY <1>6, <1>9, <2>1 DEF Inv, TypeOK, RestOK, Threads
<1>11. Framed'
  BY <1>1, <1>3, <1>5, <1>8, EditFramed
<1>12. Fresh'
  BY <1>1, <1>3, EditFresh
<1>13. Unborn'
  <2>1. ASSUME NEW p \in Pid, ToCome(p)' PROVE ToCome(p)
    <3>1. stack'[Shell][1] = a
      BY <1>1, <1>6, <1>7
    <3> QED
      BY <1>1, <1>2, <1>3, <2>1, <3>1, Consts DEF ToCome
  <2>2. Numbered'
    <3>1. stack'[Shell][1] = a
      BY <1>1, <1>6, <1>7
    <3>2. nextPid < nextPid'
      BY <1>1, <1>2, Consts
    <3> QED
      BY <1>3, <3>1, <3>2 DEF Numbered
  <2> QED
    BY <1>1, <1>6, <2>1, <2>2, Keeps
<1>14. IrqMeans' /\ OffMeans' /\ AtBoot'
  BY <1>1, <1>4, <1>6 DEF Inv, IrqMeans, OffMeans, AtBoot, Depth
<1> QED
  BY <1>9, <1>10, <1>11, <1>12, <1>13, <1>14 DEF Inv

LEMMA SpawnPushedInv == ASSUME Inv, SpawnPushed PROVE Inv'
<1> DEFINE n == Top.nxt
<1>1. /\ Top.pc = "spushed" /\ queue' = Append(queue, n) /\ rqLocked' = FALSE
      /\ UNCHANGED <<state, current, writer, readers, ctx, cpu, irq, nextPid,
                     iso, patched, reaped, halted>>
  BY DEF SpawnPushed, At
<1>2. Top.op = "spawn" /\ cpu = Shell /\ n \in Pid /\ readers \in Nat
  BY <1>1, OpAt, TopIn DEF WellFormed, SpawnPcs, Inv, TypeOK
<1>3. queue' \in Seq(Pid)
  BY <1>1, <1>2 DEF Inv, TypeOK
<1> HIDE DEF n
<1>4. CASE n \in iso
  <2> DEFINE a == [Top EXCEPT !.pc = "patch"]
  <2>1. SetTop(a) /\ jobs' = jobs /\ tries' = tries
    BY <1>4 DEF SpawnPushed, Goto, n
  <2>2. a \in Activation /\ a.op = Top.op /\ a.pc = "patch" /\ a.nxt = n
    BY GotoIn DEF Pcs, SpawnPcs, n
  <2> HIDE DEF a
  <2>3. WellFormed(a)
    BY <1>2, <2>2 DEF WellFormed, TurnPcs, SpawnPcs, ReapPcs
  <2>4. MoveOn(a) /\ readers' = readers + Guards(a.pc) - Guards(Top.pc)
    BY <1>1, <1>2, <2>1, <2>2, GuardsNone DEF MoveOn
  <2>5. RestOK'
    BY <1>1, <1>3, <2>1, RestTyped DEF Inv, RestOK
  <2> QED
    BY <1>1, <1>2, <1>4, <2>2, <2>3, <2>4, <2>5, CodeInv
<1>5. CASE n \notin iso
  <2> DEFINE a == Frame("code", "code", 0)
  <2>1. SetTop(a) /\ jobs' = jobs \cup {n} /\ tries' = Wait
    BY <1>5 DEF SpawnPushed, n
  <2>2. a \in Activation /\ a.op = "code" /\ a.pc = "code"
    <3>1. "code" \in Ops /\ "code" \in Pcs /\ 0 \in Threads
      BY Consts DEF Ops, Pcs, CodePcs, Boot
    <3> QED
      BY <3>1, FrameIn
  <2> HIDE DEF a
  <2>3. WellFormed(a)
    BY <2>2 DEF WellFormed, CodePcs, TurnPcs, SpawnPcs, ReapPcs
  <2>4. MoveOn(a) /\ readers' = readers + Guards(a.pc) - Guards(Top.pc)
    BY <1>1, <1>2, <2>1, <2>2, GuardsNone DEF MoveOn
  <2>5. RestOK'
    <3>1. tries' \in 0 .. Wait
      BY <2>1, Consts
    <3> QED
      BY <1>1, <1>2, <1>3, <2>1, <3>1, RestTyped DEF Inv, RestOK
  <2> QED
    BY <1>1, <1>2, <2>2, <2>3, <2>4, <2>5, CodeInv
<1> QED
  BY <1>4, <1>5

LEMMA PatchedInv == ASSUME Inv, Patched PROVE Inv'
<1> DEFINE n == Top.nxt
           a == Frame("code", "code", 0)
<1>1. /\ Top.pc = "patched" /\ patched' = patched \cup {n} /\ writer' = FALSE
      /\ jobs' = jobs \cup {n} /\ tries' = Wait /\ SetTop(a)
      /\ UNCHANGED <<state, queue, current, rqLocked, readers, ctx, cpu, irq,
                     nextPid, iso, reaped, halted>>
  BY DEF Patched, At
<1>2. Top.op = "spawn" /\ cpu = Shell /\ n \in Pid /\ readers \in Nat
  BY <1>1, OpAt, TopIn DEF WellFormed, SpawnPcs, Inv, TypeOK
<1>3. n \in iso
  <2>1. Top = stack[Shell][1]
    BY <1>2, TopIn
  <2> QED
    BY <1>1, <2>1 DEF Inv, Framed
<1>4. a \in Activation /\ a.op = "code" /\ a.pc = "code"
  <2>1. "code" \in Ops /\ "code" \in Pcs /\ 0 \in Threads
    BY Consts DEF Ops, Pcs, CodePcs, Boot
  <2> QED
    BY <2>1, FrameIn
<1> HIDE DEF a, n
<1>5. WellFormed(a)
  BY <1>4 DEF WellFormed, CodePcs, TurnPcs, SpawnPcs, ReapPcs
<1>6. MoveOn(a) /\ readers' = readers + Guards(a.pc) - Guards(Top.pc)
  BY <1>1, <1>2, <1>4, GuardsNone DEF MoveOn
<1>7. RestOK'
  <2>1. tries' \in 0 .. Wait
    BY <1>1, Consts
  <2> QED
    BY <1>1, <1>2, <1>3, <2>1, RestTyped DEF Inv, RestOK
<1> QED
  BY <1>1, <1>2, <1>4, <1>5, <1>6, <1>7, CodeInv

(* Two assignments of stacks under which the same guards are held.          *)
LEMMA SameHolders ==
    ASSUME readers' = readers,
           \A t \in Threads, d \in 1 .. 2 :
              (d <= Len(stack'[t]) /\ stack'[t][d].pc \in ReadPcs)
                 <=> (d <= Len(stack[t]) /\ stack[t][d].pc \in ReadPcs)
    PROVE  ReadersExact => ReadersExact'
<1>1. \A t \in Threads, d \in 1 .. 2 : <<t, d>> \in Holders' <=> <<t, d>> \in Holders
  <2> TAKE t \in Threads, d \in 1 .. 2
  <2>1. /\ <<t, d>> \in Holders <=> d <= Len(stack[t]) /\ stack[t][d].pc \in ReadPcs
        /\ <<t, d>> \in Holders' <=> d <= Len(stack'[t]) /\ stack'[t][d].pc \in ReadPcs
    BY DEF Holders
  <2> QED
    BY <2>1
<1>2. Holders \subseteq Threads \X (1 .. 2) /\ Holders' \subseteq Threads \X (1 .. 2)
  BY DEF Holders
<1>3. \A h \in Threads \X (1 .. 2) : h \in Holders' <=> h \in Holders
  <2> TAKE h \in Threads \X (1 .. 2)
  <2>1. PICK t \in Threads, d \in 1 .. 2 : h = <<t, d>>
    OBVIOUS
  <2> QED
    BY <1>1, <2>1
<1>4. Holders' = Holders
  <2> HIDE DEF Holders
  <2> QED
    BY <1>2, <1>3
<1> QED
  BY <1>4 DEF ReadersExact

LEMMA SecondOf ==
    ASSUME NEW S, NEW q \in Seq(S), NEW e \in S
    PROVE  LET r == Append(q, e) IN
           Len(q) = 1 => r \in Seq(S) /\ Len(r) = 2 /\ r[1] = q[1] /\ r[2] = e
<1> DEFINE r == Append(q, e)
<1>1. /\ r \in Seq(S) /\ Len(r) = Len(q) + 1
      /\ \A i \in 1 .. Len(q) : r[i] = q[i]
      /\ r[Len(q) + 1] = e
  BY AppendProperties
<1> HIDE DEF r
<1>2. Len(q) = 1 => Len(q) + 1 = 2 /\ 1 \in 1 .. Len(q)
  OBVIOUS
<1>3. Len(q) = 1 => Len(r) = 2 /\ r[1] = q[1] /\ r[2] = e
  BY <1>1, <1>2
<1> QED
  BY <1>1, <1>3 DEF r

LEMMA TickInv == ASSUME Inv, Tick PROVE Inv'
<1> DEFINE f == Frame("isr", "swap", Head(queue))
           s == Append(stack[cpu], f)
<1>1. /\ irq /\ ~writer /\ ~rqLocked /\ queue # << >> /\ queue' = Tail(queue)
      /\ stack' = [stack EXCEPT ![cpu] = s] /\ irq' = FALSE
      /\ UNCHANGED <<state, current, locks, ctx, cpu, shell, halted>>
  BY DEF Tick
<1>2. Head(queue) \in Pid /\ Tail(queue) \in Seq(Pid)
  BY <1>1 DEF Inv, TypeOK
<1>3. f \in Activation /\ f.op = "isr" /\ f.pc = "swap" /\ f.nxt \in Pid
  <2>1. "isr" \in Ops /\ "swap" \in Pcs /\ Head(queue) \in Threads
    BY <1>2, Consts DEF Ops, Pcs, SwitchPcs
  <2> QED
    BY <1>2, <2>1, FrameIn
<1> HIDE DEF f
<1>4. WellFormed(f)
  BY <1>3 DEF WellFormed, TurnPcs, CodePcs, SpawnPcs, ReapPcs
<1>5. cpu # Boot /\ Len(stack[cpu]) = 1 /\ stack[cpu] \in Seq(Activation) /\ cpu \in Threads
  <2>1. irq <=> (cpu # Boot /\ Len(stack[cpu]) = 1)
    BY DEF Inv, IrqMeans
  <2>2. cpu # Boot /\ Len(stack[cpu]) = 1
    BY <1>1, <2>1
  <2>3. cpu \in Threads /\ stack[cpu] \in Seq(Activation)
    BY TopIn
  <2> QED
    BY <2>2, <2>3
<1>6. s \in Seq(Activation) /\ Len(s) = 2 /\ s[1] = stack[cpu][1] /\ s[2] = f
  BY <1>3, <1>5, SecondOf
<1> HIDE DEF s
<1>7. /\ stack' \in [Threads -> Seq(Activation)] /\ stack'[cpu] = s
      /\ \A t \in Threads : t # cpu => stack'[t] = stack[t]
      /\ \A t \in Threads : stack'[t][1] = stack[t][1]
  BY <1>1, <1>5, <1>6 DEF Inv, TypeOK, Threads
<1>8. TypeOK'
  <2>1. RestOK'
    BY <1>1, <1>2, RestTyped DEF Inv, RestOK, shell, locks
  <2>2. \A t \in 0 .. MaxPid : Len(stack'[t]) \in 1 .. 2
    BY <1>6, <1>7 DEF Inv, TypeOK, Threads
  <2>3. readers' \in Nat
    BY <1>1 DEF Inv, TypeOK, locks
  <2> QED
    BY <1>7, <2>1, <2>2, <2>3 DEF TypeOK, RestOK, Threads
<1>9. Framed'
  <2>1. \A t \in Threads : Len(stack'[t]) = 2 =>
          (t # cpu /\ stack'[t] = stack[t]) \/ (t = cpu /\ stack'[t][2] = f)
    BY <1>6, <1>7
  <2>2. ASSUME NEW t \in Threads
        PROVE  /\ WellFormed(stack'[t][1]) /\ stack'[t][1].op # "isr"
               /\ t = Boot <=> stack'[t][1].op = "boot"
               /\ stack'[t][1].op \in {"spawn", "reap"} => t = Shell
               /\ Len(stack'[t]) = 2 => /\ WellFormed(stack'[t][2]) /\ stack'[t][2].op = "isr"
                                        /\ t # Boot
                                        /\ t # cpu' => stack'[t][2].pc = "load"
    BY <1>1, <1>3, <1>4, <1>5, <1>7, <2>1 DEF Inv, Framed
  <2>3. stack'[Shell][1].pc \in {"patch", "patched"} => stack'[Shell][1].nxt \in iso'
    BY <1>1, <1>7, Consts DEF Inv, Framed, shell
  <2> QED
    BY <2>2, <2>3 DEF Framed
<1>10. IrqMeans' /\ OffMeans' /\ AtBoot'
  <2>1. Len(stack'[cpu']) = 2 /\ cpu' # Boot
    BY <1>1, <1>5, <1>6, <1>7
  <2>2. ~writer' /\ ~rqLocked' /\ ~irq'
    BY <1>1 DEF locks
  <2>3. IrqMeans'
    BY <2>1, <2>2 DEF IrqMeans
  <2> QED
    BY <2>1, <2>2, <2>3 DEF OffMeans, AtBoot
<1>11. Unborn'
  <2>1. \A p \in Pid : ToCome(p)' => ToCome(p)
    BY <1>1, <1>7, Consts DEF ToCome, shell
  <2>2. Numbered'
    BY <1>1, <1>7, Consts DEF Inv, Unborn, Numbered, shell
  <2> QED
    BY <1>1, <1>7, <2>1, <2>2, Keeps
<1>12. Fresh'
  <2>1. ASSUME NEW p \in Pid, ctx[p].fresh PROVE FreshAt(ctx[p])'
    <3>1. FreshAt(ctx[p]) /\ ctx[p].owner \in Threads /\ ctx[p].depth \in 1 .. 2
      BY <2>1, Consts DEF Inv, Fresh, TypeOK
    <3>2. CASE ctx[p].owner # cpu
      BY <1>1, <1>7, <3>1, <3>2 DEF FreshAt
    <3>3. CASE ctx[p].owner = cpu
      <4>1. ctx[p].depth = 1 /\ stack[cpu][1].pc = "load"
        BY <1>5, <3>1, <3>3 DEF FreshAt
      <4>2. ctx'[p].owner = cpu /\ ctx'[p].depth = 1
        BY <1>1, <3>3, <4>1
      <4>3. Len(stack'[cpu]) = 2 /\ stack'[cpu][1].pc = "load"
        BY <1>6, <1>7, <4>1
      <4> QED
        BY <4>2, <4>3 DEF FreshAt
    <3> QED
      BY <3>2, <3>3
  <2> QED
    BY <1>1, <2>1 DEF Fresh
<1>13. ReadersExact'
  <2>1. ASSUME NEW t \in Threads, NEW d \in 1 .. 2
        PROVE  (d <= Len(stack'[t]) /\ stack'[t][d].pc \in ReadPcs)
                  <=> (d <= Len(stack[t]) /\ stack[t][d].pc \in ReadPcs)
    <3>1. CASE t # cpu
      BY <1>7, <3>1
    <3>2. CASE t = cpu /\ d = 1
      BY <1>5, <1>6, <1>7, <3>2
    <3>3. CASE t = cpu /\ d = 2
      <4>1. ~(2 <= Len(stack[cpu])) /\ stack'[cpu][2].pc \notin ReadPcs
        BY <1>3, <1>5, <1>6, <1>7 DEF ReadPcs
      <4> QED
        BY <3>3, <4>1
    <3> QED
      BY <3>1, <3>2, <3>3
  <2> QED
    BY <1>1, <2>1, SameHolders DEF Inv, locks
<1> QED
  BY <1>8, <1>9, <1>10, <1>11, <1>12, <1>13 DEF Inv

LEMMA InsertedInv == ASSUME Inv, Inserted PROVE Inv'
<1> DEFINE p == Top.nxt
           b == [Top EXCEPT !.pc = "spush"]
           f == Frame("code", IF p \in iso THEN "tramp" ELSE "code", 0)
           c == [owner |-> p, depth |-> 1, fresh |-> TRUE]
           q == [stack[cpu] EXCEPT ![Depth] = b]
<1>1. /\ Top.pc = "inserted" /\ writer' = FALSE
      /\ state' = [state EXCEPT ![p] = "Runnable"] /\ ctx' = [ctx EXCEPT ![p] = c]
      /\ UNCHANGED <<queue, current, rqLocked, readers, cpu, irq, shell, halted>>
  BY DEF Inserted, At
<1>2. stack' = [stack EXCEPT ![cpu][Depth].pc = "spush", ![p] = <<f>>]
  BY DEF Inserted
<1>3. b \in Activation /\ b.op = Top.op /\ b.pc = "spush" /\ b.nxt = p
  BY GotoIn DEF Pcs, SpawnPcs
<1>4. /\ f \in Activation /\ f.op = "code" /\ f.pc \in {"code", "tramp"}
  <2>1. "code" \in Ops /\ "code" \in Pcs /\ "tramp" \in Pcs /\ 0 \in Threads
    BY Consts DEF Ops, Pcs, CodePcs, Boot
  <2> QED
    BY <2>1, FrameIn
<1>5. stack' = [[stack EXCEPT ![cpu] = q] EXCEPT ![p] = <<f>>]
  BY <1>2 DEF Top
<1> HIDE DEF p, b, f, c, q
<1>6. /\ Top.op = "spawn" /\ cpu = Shell /\ cpu # Boot /\ irq /\ p \in Pid /\ p \in Threads
      /\ Depth = 1 /\ Len(stack[cpu]) = 1 /\ stack[cpu] \in Seq(Activation) /\ cpu \in Threads
      /\ Top = stack[Shell][1]
  <2>1. Top.op = "spawn"
    BY <1>1, OpAt DEF SpawnPcs
  <2>2. Depth \in 1 .. 2 /\ Depth # 2
    BY <2>1, TopIn
  <2>3. p \in Pid /\ irq
    BY <1>1, <2>1, TopIn, Off DEF WellFormed, SpawnPcs, p
  <2> QED
    BY <2>1, <2>2, <2>3, TopIn, Consts DEF Depth
<1>7. /\ p # Shell /\ p < nextPid /\ Len(stack[p]) = 1 /\ stack[p][1].pc = "code"
      /\ \A r \in Pid : r # p => ctx[r].owner # p
  <2>1. ToCome(p)
    BY <1>1, <1>6 DEF ToCome, p
  <2> QED
    BY <1>1, <1>6, <2>1 DEF Inv, Unborn, Numbered, p
<1>8. q \in Seq(Activation) /\ Len(q) = 1 /\ q[1] = b
  BY <1>3, <1>6 DEF q
<1>9. /\ stack' \in [Threads -> Seq(Activation)] /\ stack'[cpu] = q /\ stack'[p] = <<f>>
      /\ \A t \in Threads : t # cpu /\ t # p => stack'[t] = stack[t]
  <2>1. <<f>> \in Seq(Activation)
    BY <1>4
  <2>2. stack \in [Threads -> Seq(Activation)]
    BY DEF Inv, TypeOK, Threads
  <2> QED
    BY <1>5, <1>6, <1>7, <1>8, <2>1, <2>2
<1>10. Len(stack'[p]) = 1 /\ stack'[p][1] = f /\ Len(stack'[cpu]) = 1 /\ stack'[cpu][1] = b
  BY <1>8, <1>9
<1>11. /\ c \in [owner : Pid, depth : 1 .. 2, fresh : BOOLEAN]
       /\ c.owner = p /\ c.depth = 1 /\ c.fresh = TRUE
  BY <1>6 DEF c
<1>12. /\ ctx' \in [Pid -> [owner : Pid, depth : 1 .. 2, fresh : BOOLEAN]] /\ ctx'[p] = c
       /\ \A r \in Pid : r # p => ctx'[r] = ctx[r]
       /\ state' \in [Pid -> {"none", "Runnable", "Running", "Zombie"}]
       /\ \A r \in Pid : r # p => state'[r] = state[r]
  BY <1>1, <1>6, <1>11 DEF Inv, TypeOK
<1>13. nextPid' = nextPid /\ iso' = iso /\ cpu' = cpu /\ irq' = irq
  BY <1>1 DEF shell
<1>14. TypeOK'
  <2>1. RestOK'
    <3>1. RestOK
      BY RestTyped DEF Inv
    <3>2. writer' \in BOOLEAN /\ cpu' \in 0 .. MaxPid /\ rqLocked' \in BOOLEAN
      BY <1>1, <3>1 DEF RestOK
    <3> QED
      BY <1>1, <1>12, <3>1, <3>2 DEF RestOK, shell
  <2>2. \A t \in 0 .. MaxPid : Len(stack'[t]) \in 1 .. 2
    <3> TAKE t \in 0 .. MaxPid
    <3>1. Len(stack[t]) \in 1 .. 2
      BY DEF Inv, TypeOK
    <3>2. CASE t = cpu \/ t = p
      BY <1>10, <3>2
    <3>3. CASE t # cpu /\ t # p
      BY <1>9, <3>1, <3>3 DEF Threads
    <3> QED
      BY <3>2, <3>3
  <2>3. readers' \in Nat
    BY <1>1 DEF Inv, TypeOK
  <2> QED
    BY <1>9, <2>1, <2>2, <2>3 DEF TypeOK, RestOK, Threads
<1>15. Framed'
  <2>1. WellFormed(f) /\ WellFormed(b)
    BY <1>3, <1>4, <1>6 DEF WellFormed, CodePcs, TurnPcs, SpawnPcs, ReapPcs
  <2>2. ASSUME NEW t \in Threads
        PROVE  /\ WellFormed(stack'[t][1]) /\ stack'[t][1].op # "isr"
               /\ t = Boot <=> stack'[t][1].op = "boot"
               /\ stack'[t][1].op \in {"spawn", "reap"} => t = Shell
               /\ Len(stack'[t]) = 2 => /\ WellFormed(stack'[t][2]) /\ stack'[t][2].op = "isr"
                                        /\ t # Boot
                                        /\ t # cpu' => stack'[t][2].pc = "load"
    <3>1. CASE t = cpu
      BY <1>3, <1>6, <1>10, <2>1, <3>1
    <3>2. CASE t = p
      BY <1>4, <1>6, <1>10, <2>1, <3>2, Consts
    <3>3. CASE t # cpu /\ t # p
      BY <1>9, <1>13, <3>3 DEF Inv, Framed
    <3> QED
      BY <3>1, <3>2, <3>3
  <2>3. stack'[Shell][1].pc \notin {"patch", "patched"}
    BY <1>3, <1>6, <1>10
  <2> QED
    BY <2>2, <2>3 DEF Framed
<1>16. IrqMeans' /\ OffMeans' /\ AtBoot'
  BY <1>6, <1>10, <1>13 DEF IrqMeans, OffMeans, AtBoot
<1>17. Unborn'
  <2>1. ASSUME NEW r \in Pid, ToCome(r)' PROVE ToCome(r) /\ r # p
    <3>1. r >= nextPid
      BY <1>3, <1>6, <1>10, <1>13, <2>1 DEF ToCome
    <3> QED
      BY <1>6, <1>7, <3>1, Consts DEF ToCome, Inv, TypeOK
  <2>2. ASSUME NEW r \in Pid, ToCome(r)'
        PROVE  (/\ r # Shell /\ cpu # r /\ state[r] = "none"
                /\ Len(stack[r]) = 1 /\ stack[r][1].pc = "code"
                /\ ctx[r].owner = r /\ ~ctx[r].fresh
                /\ \A n \in Pid : n # r => ctx[n].owner # r)'
    <3>1. ToCome(r) /\ r # p
      BY <2>1, <2>2
    <3>2. /\ r # Shell /\ cpu # r /\ state[r] = "none"
          /\ Len(stack[r]) = 1 /\ stack[r][1].pc = "code"
          /\ ctx[r].owner = r /\ ~ctx[r].fresh
          /\ \A n \in Pid : n # r => ctx[n].owner # r
      BY <3>1 DEF Inv, Unborn
    <3>3. stack'[r] = stack[r] /\ ctx'[r] = ctx[r] /\ state'[r] = state[r]
      BY <1>9, <1>12, <3>1, <3>2, Consts
    <3>4. \A n \in Pid : n # r => ctx'[n].owner # r
      BY <1>11, <1>12, <3>1, <3>2
    <3> QED
      BY <1>13, <3>2, <3>3, <3>4
  <2>3. Numbered'
    BY <1>3, <1>6, <1>10 DEF Numbered
  <2> QED
    BY <2>2, <2>3 DEF Unborn
<1>18. Fresh'
  <2>1. ASSUME NEW r \in Pid, ctx'[r].fresh PROVE FreshAt(ctx[r])'
    <3>1. CASE r = p
      BY <1>4, <1>6, <1>7, <1>10, <1>11, <1>12, <1>13, <3>1 DEF FreshAt
    <3>2. CASE r # p
      <4>1. ctx'[r] = ctx[r] /\ ctx[r].owner # p /\ FreshAt(ctx[r])
            /\ ctx[r].owner \in Threads /\ ctx[r].depth \in 1 .. 2
        BY <1>7, <1>12, <2>1, <3>2, Consts DEF Inv, Fresh, TypeOK
      <4>2. CASE ctx[r].owner # cpu
        BY <1>9, <1>13, <4>1, <4>2 DEF FreshAt
      <4>3. CASE ctx[r].owner = cpu
        <5>1. ctx[r].depth = 1 /\ stack[cpu][1].pc = "load"
          BY <1>6, <4>1, <4>3 DEF FreshAt
        <5> QED
          BY <1>1, <1>6, <5>1
      <4> QED
        BY <4>2, <4>3
    <3> QED
      BY <3>1, <3>2
  <2> QED
    BY <2>1 DEF Fresh
<1>19. ReadersExact'
  <2>1. ASSUME NEW t \in Threads, NEW d \in 1 .. 2
        PROVE  (d <= Len(stack'[t]) /\ stack'[t][d].pc \in ReadPcs)
                  <=> (d <= Len(stack[t]) /\ stack[t][d].pc \in ReadPcs)
    <3>1. CASE t # cpu /\ t # p
      BY <1>9, <3>1
    <3>2. CASE d = 2 /\ (t = cpu \/ t = p)
      BY <1>6, <1>7, <1>10, <3>2
    <3>3. CASE d = 1 /\ t = cpu
      BY <1>1, <1>3, <1>6, <1>10, <3>3 DEF ReadPcs
    <3>4. CASE d = 1 /\ t = p
      BY <1>4, <1>7, <1>10, <3>4 DEF ReadPcs
    <3> QED
      BY <3>1, <3>2, <3>3, <3>4
  <2> QED
    BY <1>1, <2>1, SameHolders DEF Inv
<1> QED
  BY <1>14, <1>15, <1>16, <1>17, <1>18, <1>19 DEF Inv
-----------------------------------------------------------------------------
(* Every step keeps the invariant.                                         *)

LEMMA LockInv ==
    ASSUME Inv
    PROVE  /\ (Pop => Inv') /\ (Push => Inv') /\ (ExitPop => Inv') /\ (SpawnPush => Inv')
           /\ (Insert => Inv') /\ (Patch => Inv') /\ (Take => Inv') /\ (Update => Inv')
<1>1. ASSUME Pop PROVE Inv'
  BY <1>1, LockRqInv DEF Pop
<1>2. ASSUME Push PROVE Inv'
  BY <1>2, LockRqInv DEF Push
<1>3. ASSUME ExitPop PROVE Inv'
  BY <1>3, LockRqInv DEF ExitPop
<1>4. ASSUME SpawnPush PROVE Inv'
  BY <1>4, LockRqInv DEF SpawnPush
<1>5. ASSUME Insert PROVE Inv'
  BY <1>5, LockTasksInv DEF Insert
<1>6. ASSUME Patch PROVE Inv'
  BY <1>6, LockTasksInv DEF Patch
<1>7. ASSUME Take PROVE Inv'
  BY <1>7, LockTasksInv DEF Take
<1>8. ASSUME Update PROVE Inv'
  BY <1>8, LockTasksInv DEF Update
<1> QED
  BY <1>1, <1>2, <1>3, <1>4, <1>5, <1>6, <1>7, <1>8

LEMMA InvStep == Inv /\ [Next]_vars => Inv'
<1> SUFFICES ASSUME Inv, [Next]_vars PROVE Inv'
  OBVIOUS
<1>1. CASE SwitchStep
  BY <1>1, LockInv, PoppedInv, SwapInv, ReadInv, DemoteInv, PushedInv, MarkInv, SaveInv,
     LoadInv DEF SwitchStep
<1>2. CASE ExitStep
  BY <1>2, LockInv, ExitPoppedInv, ExitCurrentInv, ExitMarkInv DEF ExitStep
<1>3. CASE SpawnStep
  BY <1>3, LockInv, InsertedInv, SpawnPushedInv, PatchedInv, TrampolineInv
     DEF SpawnStep
<1>4. CASE ReapStep \/ Accessed \/ Updated
  BY <1>4, LockInv, TakenInv, AccessedInv, UpdatedInv DEF ReapStep
<1>5. CASE Choice
  BY <1>5, YieldInv, ExitInv, AccessInv, LockInv, SpawnInv, ReapInv, GiveUpInv
     DEF Choice
<1>6. CASE Tick
  BY <1>6, TickInv
<1>7. CASE UNCHANGED vars
  BY <1>7, StayInv, RestTyped DEF vars, Inv, TypeOK, RestOK
<1> QED
  BY <1>1, <1>2, <1>3, <1>4, <1>5, <1>6, <1>7 DEF Next, Kernel

(* What the locks, the stacks and the saved contexts say of one another     *)
(* (scheduler/mod.rs, idt.rs) holds in every state.                         *)
THEOREM InvAlways == Spec => []Inv
BY InvInit, InvStep, PTL DEF Spec
-----------------------------------------------------------------------------
(* The theorems.                                                           *)

(* Whatever is spawned and wherever the timer fires, every table of the     *)
(* scheduler keeps its type: a thread is never more than one interrupt      *)
(* deep, whatever is queued and saved is a task, and the count of read      *)
(* guards (RwLock around TASKS, scheduler/mod.rs) never goes below zero.    *)
THEOREM SchedulerTyped == Spec => []TypeOK
<1>1. Inv => TypeOK
  BY DEF Inv
<1> QED
  BY <1>1, InvAlways, PTL

(* mod.rs:743-751: the interrupt handler finds every lock that switch_to    *)
(* takes blocking free, because try_preempt has tried both with interrupts  *)
(* off and nobody else runs until they are on again.                        *)
THEOREM HandlerNeverSpins == Spec => []IsrNeverSpins
<1>1. Inv => IsrNeverSpins
  BY Off DEF IsrNeverSpins, At
<1> QED
  BY <1>1, InvAlways, PTL
-----------------------------------------------------------------------------
(* Who is to run: the invariant of the run queue.                          *)

Unmarked == {"read", "demote", "push", "pushed", "mark", "emark"}
Chosen   == Unmarked \cup {"save", "load"}

(* A call has in hand the task that it popped or made, until that task is   *)
(* Running or queued, and the one it is about to queue again.               *)
InHand(a, p) ==
    \/ a.pc \in Unmarked \cup {"swap", "ecur", "spush", "spushed"} /\ a.nxt = p
    \/ a.pc \in {"push", "pushed"} /\ a.prv = p

Held(t, d, p)  == d <= Len(stack[t]) /\ InHand(stack[t][d], p)
Has(q, p)      == \E i \in 1 .. Len(q) : q[i] = p
Distinct(q)    == \A i, j \in 1 .. Len(q) : q[i] = q[j] => i = j

(* A task queued or in hand is Runnable, and is so in one place.            *)
OnePlace(p) ==
    /\ Has(queue, p) => /\ state[p] = "Runnable"
                        /\ \A t \in Threads, d \in 1 .. 2 : ~Held(t, d, p)
    /\ \A t \in Threads, d \in 1 .. 2 : Held(t, d, p) =>
          /\ state[p] = "Runnable"
          /\ \A u \in Threads, e \in 1 .. 2 : Held(u, e, p) => u = t /\ e = d

(* The current task is Runnable only until the call that chose it marks it. *)
CurrentMeans ==
    /\ current \in Pid /\ state[current] = "Runnable" =>
          \E d \in 1 .. Depth : stack[cpu][d].pc \in Unmarked /\ stack[cpu][d].nxt = current
    /\ \A p \in Pid : ToCome(p) => current # p
    /\ Top.pc \in Chosen => current = Top.nxt
    /\ Top.pc \in {"read", "demote", "push", "pushed", "mark"} => Top.prv # Top.nxt
    /\ Top.pc \in {"save", "load"} => state[Top.nxt] # "Runnable"

(* A tick that falls after the choice saves this thread as the chosen task. *)
Beneath ==
    /\ Depth = 2 /\ stack[cpu][1].pc \in Chosen =>
          /\ Top.pc = "swap" => current = stack[cpu][1].nxt
          /\ Top.pc \in Chosen \ {"load"} => Top.prv \in {Boot, stack[cpu][1].nxt}
    /\ \A x \in Pid : ctx[x].fresh /\ ctx[x].depth = 2 =>
          (stack[ctx[x].owner][1].pc \in Chosen => x = stack[ctx[x].owner][1].nxt)

Live  == (\A p \in Pid : OnePlace(p)) /\ CurrentMeans /\ Beneath
Turn  == halted # "noTcb" /\ Distinct(queue) /\ (halted = "no" => Live)

LEMMA TailOf ==
    ASSUME NEW q \in Seq(Pid), q # << >>, Distinct(q)
    PROVE  /\ Distinct(Tail(q)) /\ Head(q) \in Pid /\ Has(q, Head(q)) /\ ~Has(Tail(q), Head(q))
           /\ \A p : Has(Tail(q), p) => Has(q, p)
<1>1. /\ Len(q) \in Nat \ {0} /\ Len(Tail(q)) = Len(q) - 1 /\ Head(q) = q[1]
      /\ \A i \in 1 .. Len(Tail(q)) : Tail(q)[i] = q[i + 1] /\ i + 1 \in 1 .. Len(q) /\ i + 1 # 1
  OBVIOUS
<1>2. 1 \in 1 .. Len(q) /\ q[1] \in Pid
  BY <1>1
<1>3. Distinct(Tail(q))
  <2> SUFFICES ASSUME NEW i \in 1 .. Len(Tail(q)), NEW j \in 1 .. Len(Tail(q)),
                      Tail(q)[i] = Tail(q)[j]
               PROVE  i = j
    BY DEF Distinct
  <2>1. i + 1 = j + 1
    BY <1>1 DEF Distinct
  <2> QED
    BY <1>1, <2>1
<1>4. ~Has(Tail(q), Head(q))
  BY <1>1, <1>2 DEF Has, Distinct
<1> QED
  BY <1>1, <1>2, <1>3, <1>4 DEF Has

LEMMA AppendOf ==
    ASSUME NEW q \in Seq(Pid), NEW x \in Pid, Distinct(q), ~Has(q, x)
    PROVE  /\ Distinct(Append(q, x))
           /\ \A p : Has(Append(q, x), p) => p = x \/ Has(q, p)
<1> DEFINE r == Append(q, x)
<1>1. /\ Len(q) \in Nat /\ Len(r) = Len(q) + 1
      /\ \A i \in 1 .. Len(r) : (i \in 1 .. Len(q) /\ r[i] = q[i]) \/ (i = Len(q) + 1 /\ r[i] = x)
  OBVIOUS
<1> HIDE DEF r
<1>2. Distinct(r)
  <2> SUFFICES ASSUME NEW i \in 1 .. Len(r), NEW j \in 1 .. Len(r), r[i] = r[j]
               PROVE  i = j
    BY DEF Distinct
  <2> QED
    BY <1>1 DEF Has, Distinct
<1>3. \A p : Has(r, p) => p = x \/ Has(q, p)
  BY <1>1 DEF Has
<1> QED
  BY <1>2, <1>3 DEF r

(* How a step may move a task from place to place.                         *)
LEMMA OnePlaceStep ==
    ASSUME NEW p \in Pid, OnePlace(p), NEW t0 \in Threads, NEW d0 \in 1 .. 2,
           \/ /\ Has(queue, p)' => Has(queue, p)
              /\ \A t \in Threads, d \in 1 .. 2 : Held(t, d, p)' => Held(t, d, p)
              /\ state'[p] = state[p]
           \/ /\ ~Has(queue, p)'
              /\ \A t \in Threads, d \in 1 .. 2 : Held(t, d, p)' => t = t0 /\ d = d0
              /\ state'[p] = "Runnable"
           \/ /\ \A t \in Threads, d \in 1 .. 2 : ~Held(t, d, p)'
              /\ ~Has(queue, p)' \/ state'[p] = "Runnable"
    PROVE  OnePlace(p)'
<1> USE DEF OnePlace
<1>1. CASE /\ Has(queue, p)' => Has(queue, p)
           /\ \A t \in Threads, d \in 1 .. 2 : Held(t, d, p)' => Held(t, d, p)
           /\ state'[p] = state[p]
  BY <1>1, Zenon
<1>2. CASE /\ ~Has(queue, p)'
           /\ \A t \in Threads, d \in 1 .. 2 : Held(t, d, p)' => t = t0 /\ d = d0
           /\ state'[p] = "Runnable"
  BY <1>2, Zenon
<1>3. CASE /\ \A t \in Threads, d \in 1 .. 2 : ~Held(t, d, p)'
           /\ ~Has(queue, p)' \/ state'[p] = "Runnable"
  BY <1>3, Zenon
<1> QED
  BY <1>1, <1>2, <1>3

(* Nobody but the activation on the CPU has it.                            *)
Ours(p) == InHand(Top, p) \/ Has(queue, p) \/ state[p] # "Runnable"

Moves(a, p) ==
    \/ /\ InHand(a, p) => InHand(Top, p)
       /\ Has(queue', p) => Has(queue, p)
       /\ state'[p] = state[p]
    \/ Ours(p) /\ ~Has(queue', p) /\ state'[p] = "Runnable"
    \/ Ours(p) /\ ~InHand(a, p) /\ (~Has(queue', p) \/ state'[p] = "Runnable")

LEMMA EditOnePlace ==
    ASSUME Inv, NEW a \in Activation, SetTop(a), cpu' = cpu,
           NEW p \in Pid, OnePlace(p), Moves(a, p)
    PROVE  OnePlace(p)'
<1>1. /\ \A t \in Threads : Len(stack'[t]) = Len(stack[t])
      /\ \A t \in Threads : t # cpu => stack'[t] = stack[t]
      /\ \A d \in 1 .. 2 : d # Depth => stack'[cpu][d] = stack[cpu][d]
      /\ stack'[cpu][Depth] = a
  BY Edited
<1>2. cpu \in Threads /\ Depth \in 1 .. 2 /\ Depth <= Len(stack[cpu]) /\ Top = stack[cpu][Depth]
  BY TopIn DEF Depth, Top
<1>3. ASSUME NEW t \in Threads, NEW d \in 1 .. 2
      PROVE  Held(t, d, p)' => \/ Held(t, d, p) /\ ~(t = cpu /\ d = Depth)
                               \/ t = cpu /\ d = Depth /\ InHand(a, p)
  <2>1. CASE t # cpu
    BY <1>1, <2>1 DEF Held
  <2>2. CASE t = cpu /\ d # Depth
    BY <1>1, <2>2 DEF Held
  <2>3. CASE t = cpu /\ d = Depth
    BY <1>1, <2>3 DEF Held
  <2> QED
    BY <2>1, <2>2, <2>3
<1>4. InHand(Top, p) => Held(cpu, Depth, p)
  BY <1>2 DEF Held
<1>5. Ours(p) => \A t \in Threads, d \in 1 .. 2 : Held(t, d, p) => t = cpu /\ d = Depth
  BY <1>2, <1>4, Zenon DEF Ours, OnePlace
<1>6. Has(queue, p)' <=> Has(queue', p)
  BY DEF Has
<1>7. CASE /\ InHand(a, p) => InHand(Top, p)
           /\ Has(queue', p) => Has(queue, p)
           /\ state'[p] = state[p]
  <2>1. \A t \in Threads, d \in 1 .. 2 : Held(t, d, p)' => Held(t, d, p)
    BY <1>3, <1>4, <1>7
  <2> QED
    BY <1>2, <1>6, <1>7, <2>1, OnePlaceStep
<1>8. CASE Ours(p) /\ ~Has(queue', p) /\ state'[p] = "Runnable"
  <2>1. \A t \in Threads, d \in 1 .. 2 : Held(t, d, p)' => t = cpu /\ d = Depth
    BY <1>3, <1>5, <1>8
  <2> QED
    BY <1>2, <1>6, <1>8, <2>1, OnePlaceStep
<1>9. CASE Ours(p) /\ ~InHand(a, p) /\ (~Has(queue', p) \/ state'[p] = "Runnable")
  <2>1. \A t \in Threads, d \in 1 .. 2 : ~Held(t, d, p)'
    BY <1>3, <1>5, <1>9
  <2> QED
    BY <1>2, <1>6, <1>9, <2>1, OnePlaceStep
<1> QED
  BY <1>7, <1>8, <1>9 DEF Moves

(* A step of the activation on the CPU that leaves current alone.          *)
LEMMA EditToCome ==
    ASSUME Inv, NEW a \in Activation, SetTop(a), cpu' = cpu, nextPid' = nextPid,
           a.pc \in {"insert", "inserted"} => Top.pc = "insert" /\ a.nxt = Top.nxt
    PROVE  \A p \in Pid : ToCome(p)' => ToCome(p)
<1>1. /\ \A t \in Threads : t # cpu => stack'[t] = stack[t]
      /\ \A d \in 1 .. 2 : d # Depth => stack'[cpu][d] = stack[cpu][d]
      /\ stack'[cpu][Depth] = a
  BY Edited
<1> SUFFICES ASSUME NEW p \in Pid, ToCome(p)' PROVE ToCome(p)
  OBVIOUS
<1>2. CASE cpu = Shell /\ Depth = 1
  BY <1>1, <1>2 DEF ToCome, Top
<1>3. CASE ~(cpu = Shell /\ Depth = 1)
  <2>1. stack'[Shell][1] = stack[Shell][1]
    BY <1>1, <1>3, Consts
  <2> QED
    BY <2>1 DEF ToCome
<1> QED
  BY <1>2, <1>3

(* What the activation a may say, next to the one that it replaces.         *)
Follows(a) ==
    /\ Top.pc \in Unmarked /\ state'[current] = "Runnable"
          => a.pc \in Unmarked /\ a.nxt = Top.nxt
    /\ a.pc \in Chosen => Top.pc \in Chosen \ {"load"} /\ a.nxt = Top.nxt
    /\ a.pc \in {"read", "demote", "push", "pushed", "mark"} => a.prv # a.nxt
    /\ a.pc \in {"save", "load"} => state'[a.nxt] # "Runnable"
    /\ Depth = 2 => a.pc # "swap" /\ (a.pc \in Chosen \ {"load"} => a.prv \in {Boot, Top.prv})

LEMMA EditCurrent ==
    ASSUME Inv, CurrentMeans, Beneath, NEW a \in Activation, SetTop(a), cpu' = cpu,
           current' = current, Follows(a),
           \A p \in Pid : ToCome(p)' => ToCome(p),
           \A p \in Pid : state'[p] = "Runnable" => state[p] = "Runnable" \/ Top.pc \in Unmarked
    PROVE  CurrentMeans'
<1>1. /\ \A d \in 1 .. 2 : d # Depth => stack'[cpu][d] = stack[cpu][d]
      /\ stack'[cpu][Depth] = a /\ Depth' = Depth /\ Top' = a
  BY Edited
<1>2. Depth \in 1 .. 2 /\ Top = stack[cpu][Depth]
  BY TopIn DEF Top
<1>3. ASSUME current \in Pid, state'[current] = "Runnable"
      PROVE  \E d \in 1 .. Depth : stack'[cpu][d].pc \in Unmarked /\ stack'[cpu][d].nxt = current
  <2>1. CASE Top.pc \in Unmarked
    <3>1. a.pc \in Unmarked /\ a.nxt = current
      BY <1>3, <2>1 DEF Follows, CurrentMeans, Chosen
    <3> QED
      BY <1>1, <1>2, <3>1
  <2>2. CASE Top.pc \notin Unmarked
    <3>1. PICK d \in 1 .. Depth : stack[cpu][d].pc \in Unmarked /\ stack[cpu][d].nxt = current
      BY <1>3, <2>2 DEF CurrentMeans
    <3>2. d # Depth /\ d \in 1 .. 2
      BY <1>2, <2>2, <3>1
    <3> QED
      BY <1>1, <3>1, <3>2
  <2> QED
    BY <2>1, <2>2
<1>4. a.pc \in Chosen => current = a.nxt
  BY DEF Follows, CurrentMeans
<1>5. \A p \in Pid : ToCome(p)' => current # p
  BY DEF CurrentMeans
<1> QED
  BY <1>1, <1>3, <1>4, <1>5 DEF CurrentMeans, Follows

LEMMA EditDeep ==
    ASSUME Inv, Beneath, NEW a \in Activation, SetTop(a), cpu' = cpu, ctx' = ctx,
           NEW x \in Pid, ctx[x].fresh, ctx[x].depth = 2,
           stack'[ctx[x].owner][1].pc \in Chosen
    PROVE  x = stack'[ctx[x].owner][1].nxt
<1>1. /\ \A t \in Threads : t # cpu => stack'[t] = stack[t]
      /\ \A d \in 1 .. 2 : d # Depth => stack'[cpu][d] = stack[cpu][d]
  BY Edited
<1>2. FreshAt(ctx[x]) /\ ctx[x].owner \in Threads
  BY Consts DEF Inv, Fresh, TypeOK
<1>3. Depth \in 1 .. 2 /\ Depth = Len(stack[cpu])
  BY TopIn DEF Depth
<1>4. ctx[x].owner = cpu => Depth # 1
  BY <1>2, <1>3 DEF FreshAt
<1>5. stack'[ctx[x].owner][1] = stack[ctx[x].owner][1]
  BY <1>1, <1>2, <1>3, <1>4
<1> QED
  BY <1>5 DEF Beneath

LEMMA EditBeneath ==
    ASSUME Inv, CurrentMeans, Beneath, NEW a \in Activation, SetTop(a), cpu' = cpu, ctx' = ctx,
           current' = current, Follows(a)
    PROVE  Beneath'
<1>1. /\ \A d \in 1 .. 2 : d # Depth => stack'[cpu][d] = stack[cpu][d]
      /\ stack'[cpu][Depth] = a /\ Depth' = Depth /\ Top' = a
  BY Edited
<1>2. ASSUME Depth = 2, stack'[cpu][1].pc \in Chosen
      PROVE  /\ a.pc = "swap" => current = stack'[cpu][1].nxt
             /\ a.pc \in Chosen \ {"load"} => a.prv \in {Boot, stack'[cpu][1].nxt}
  <2>1. stack'[cpu][1] = stack[cpu][1]
    BY <1>1, <1>2
  <2> QED
    BY <1>2, <2>1 DEF Beneath, Follows
<1>3. ASSUME NEW x \in Pid, ctx[x].fresh, ctx[x].depth = 2,
             stack'[ctx[x].owner][1].pc \in Chosen
      PROVE  x = stack'[ctx[x].owner][1].nxt
  BY <1>3, EditDeep
<1> QED
  BY <1>1, <1>2, <1>3 DEF Beneath

(* All of it together.                                                     *)
LEMMA EditLive ==
    ASSUME Inv, Live, NEW a \in Activation, SetTop(a),
           UNCHANGED <<cpu, ctx, current, nextPid>>, Follows(a),
           a.pc \in {"insert", "inserted"} => Top.pc = "insert" /\ a.nxt = Top.nxt,
           \A p \in Pid : state'[p] = "Runnable" => state[p] = "Runnable" \/ Top.pc \in Unmarked,
           \A p \in Pid : Moves(a, p)
    PROVE  Live'
<1>1. \A p \in Pid : OnePlace(p)'
  BY EditOnePlace DEF Live
<1>2. CurrentMeans'
  BY EditToCome, EditCurrent DEF Live
<1>3. Beneath'
  BY EditBeneath DEF Live
<1> QED
  BY <1>1, <1>2, <1>3 DEF Live

(* Steps that have nothing to do with who is to run.                       *)
LEMMA PlainLive ==
    ASSUME Inv, Live, NEW a \in Activation, SetTop(a),
           UNCHANGED <<cpu, ctx, current, nextPid, queue>>,
           a.pc \notin Chosen \cup {"swap", "ecur", "spush", "spushed", "insert", "inserted"},
           Top.pc \notin Unmarked,
           \A p \in Pid : \/ state'[p] = state[p]
                          \/ state[p] # "Runnable" /\ state'[p] # "Runnable"
    PROVE  Live'
<1>1. Follows(a)
  BY DEF Follows, Chosen, Unmarked
<1>2. ASSUME NEW p \in Pid PROVE ~InHand(a, p)
  BY DEF InHand, Chosen, Unmarked
<1>3. ASSUME NEW p \in Pid PROVE Moves(a, p)
  <2>1. CASE state'[p] = state[p]
    BY <1>2, <2>1 DEF Moves
  <2>2. CASE state[p] # "Runnable"
    <3>1. ~Has(queue', p)
      BY <2>2 DEF Live, OnePlace
    <3> QED
      BY <1>2, <2>2, <3>1 DEF Moves, Ours
  <2> QED
    BY <2>1, <2>2
<1>4. \A p \in Pid : state'[p] = "Runnable" => state[p] = "Runnable" \/ Top.pc \in Unmarked
  BY Zenon
<1> QED
  BY <1>1, <1>3, <1>4, EditLive

(* Steps of a call that go on with the same tasks in hand.                 *)
LEMMA SameLive ==
    ASSUME Inv, Live, NEW m \in Pcs, SetTop([Top EXCEPT !.pc = m]),
           UNCHANGED <<cpu, ctx, current, nextPid, queue, state>>,
           \/ Top.pc = "read" /\ m = "demote"
           \/ Top.pc = "push" /\ m = "pushed"
           \/ Top.pc = "insert" /\ m = "inserted"
           \/ Top.pc = "spush" /\ m = "spushed"
    PROVE  Live'
<1> DEFINE a == [Top EXCEPT !.pc = m]
<1>1. a \in Activation /\ a.op = Top.op /\ a.pc = m /\ a.nxt = Top.nxt /\ a.prv = Top.prv
  BY GotoIn
<1>2. SetTop(a)
  OBVIOUS
<1> HIDE DEF a
<1>3. Follows(a)
  BY <1>1 DEF Follows, Chosen, Unmarked, Live, CurrentMeans
<1>4. \A p \in Pid : InHand(a, p) => InHand(Top, p)
  BY <1>1 DEF InHand, Unmarked
<1>5. \A p \in Pid : Moves(a, p)
  BY <1>4 DEF Moves
<1>6. a.pc \in {"insert", "inserted"} => Top.pc = "insert" /\ a.nxt = Top.nxt
  BY <1>1
<1> QED
  BY <1>1, <1>2, <1>3, <1>5, <1>6, EditLive

LEMMA LockRqLive ==
    ASSUME Inv, Live, NEW l, NEW m,
           \/ (l = "pop" /\ m = "popped") \/ (l = "push" /\ m = "pushed")
           \/ (l = "epop" /\ m = "epopped") \/ (l = "spush" /\ m = "spushed"),
           LockRq(l, m)
    PROVE  Live'
<1>1. m \in Pcs
  BY DEF Pcs, SwitchPcs, SpawnPcs
<1>2. Top.pc = l /\ SetTop([Top EXCEPT !.pc = m])
  BY DEF LockRq, At, Goto
<1>3. UNCHANGED <<state, queue, current, ctx, cpu, nextPid>>
  BY DEF LockRq, shell
<1>4. CASE (l = "push" /\ m = "pushed") \/ (l = "spush" /\ m = "spushed")
  BY <1>1, <1>2, <1>3, <1>4, SameLive
<1>5. CASE (l = "pop" /\ m = "popped") \/ (l = "epop" /\ m = "epopped")
  <2> DEFINE a == [Top EXCEPT !.pc = m]
  <2>1. a \in Activation /\ a.pc = m
    BY <1>1, GotoIn
  <2>2. SetTop(a)
    BY <1>2
  <2> HIDE DEF a
  <2> QED
    BY <1>2, <1>3, <1>5, <2>1, <2>2, PlainLive DEF Chosen, Unmarked
<1> QED
  BY <1>4, <1>5

LEMMA LockTasksLive ==
    ASSUME Inv, Live, NEW l, NEW m,
           \/ (l = "insert" /\ m = "inserted") \/ (l = "patch" /\ m = "patched")
           \/ (l = "take" /\ m = "taken") \/ (l = "code" /\ m = "update"),
           LockTasks(l, m)
    PROVE  Live'
<1>1. m \in Pcs
  BY DEF Pcs, SpawnPcs, ReapPcs, CodePcs
<1>2. Top.pc = l /\ SetTop([Top EXCEPT !.pc = m])
  BY DEF LockTasks, At, Goto
<1>3. UNCHANGED <<state, queue, current, ctx, cpu, nextPid>>
  BY DEF LockTasks, shell
<1>4. CASE l = "insert" /\ m = "inserted"
  BY <1>1, <1>2, <1>3, <1>4, SameLive
<1>5. CASE (l = "patch" /\ m = "patched") \/ (l = "take" /\ m = "taken") \/ (l = "code" /\ m = "update")
  <2> DEFINE a == [Top EXCEPT !.pc = m]
  <2>1. a \in Activation /\ a.pc = m
    BY <1>1, GotoIn
  <2>2. SetTop(a)
    BY <1>2
  <2> HIDE DEF a
  <2> QED
    BY <1>2, <1>3, <1>5, <2>1, <2>2, PlainLive DEF Chosen, Unmarked
<1> QED
  BY <1>4, <1>5

LEMMA CodeFrame ==
    /\ Frame("code", "code", 0) \in Activation /\ Frame("code", "code", 0).pc = "code"
    /\ Frame("yield", "pop", 0) \in Activation /\ Frame("yield", "pop", 0).pc = "pop"
    /\ Frame("exit", "epop", 0) \in Activation /\ Frame("exit", "epop", 0).pc = "epop"
BY Consts DEF Frame, Activation, Ops, Pcs, SwitchPcs, CodePcs, Boot, Threads

LEMMA YieldLive == ASSUME Inv, Live, Yield PROVE Live'
<1>1. /\ Top.pc = "code" /\ SetTop(Frame("yield", "pop", 0))
      /\ UNCHANGED <<state, queue, current, ctx, cpu, nextPid>>
  BY DEF Yield, At
<1> QED
  BY <1>1, CodeFrame, PlainLive DEF Chosen, Unmarked

LEMMA ReadLive == ASSUME Inv, Live, Read PROVE Live'
<1>1. /\ Top.pc = "read" /\ SetTop([Top EXCEPT !.pc = "demote"])
      /\ UNCHANGED <<state, queue, current, ctx, cpu, nextPid>>
  BY DEF Read, At, Goto, shell
<1> QED
  BY <1>1, SameLive DEF Pcs, SwitchPcs

LEMMA AccessLive == ASSUME Inv, Live, Access \/ Accessed \/ Updated PROVE Live'
<1>1. PICK m \in {"access", "code"} :
         /\ Top.pc \in {"code", "access", "update"} /\ SetTop([Top EXCEPT !.pc = m])
         /\ UNCHANGED <<state, queue, current, ctx, cpu, nextPid>>
  BY DEF Access, Accessed, Updated, At, Goto, shell
<1> DEFINE a == [Top EXCEPT !.pc = m]
<1>2. a \in Activation /\ a.pc = m
  BY GotoIn DEF Pcs, CodePcs
<1>3. SetTop(a)
  BY <1>1
<1> HIDE DEF a
<1> QED
  BY <1>1, <1>2, <1>3, PlainLive DEF Chosen, Unmarked

LEMMA PatchedLive == ASSUME Inv, Live, Patched PROVE Live'
<1>1. /\ Top.pc = "patched" /\ SetTop(Frame("code", "code", 0))
      /\ UNCHANGED <<state, queue, current, ctx, cpu, nextPid>>
  BY DEF Patched, At
<1> QED
  BY <1>1, CodeFrame, PlainLive DEF Chosen, Unmarked

LEMMA TrampolineLive == ASSUME Inv, Live, Trampoline, halted' = "no" PROVE Live'
<1>1. /\ Top.pc = "tramp" /\ SetTop([Top EXCEPT !.pc = "code"])
      /\ UNCHANGED <<state, queue, current, ctx, cpu, nextPid>>
  BY DEF Trampoline, At, Goto, shell
<1> DEFINE a == [Top EXCEPT !.pc = "code"]
<1>2. a \in Activation /\ a.pc = "code"
  BY GotoIn DEF Pcs, CodePcs
<1>3. SetTop(a)
  BY <1>1
<1> HIDE DEF a
<1> QED
  BY <1>1, <1>2, <1>3, PlainLive DEF Chosen, Unmarked

LEMMA ReapLive == ASSUME Inv, Live, NEW p \in jobs, Reap(p) PROVE Live'
<1>1. /\ Top.pc = "code" /\ SetTop(Frame("reap", "take", p))
      /\ UNCHANGED <<state, queue, current, ctx, cpu, nextPid>>
  BY DEF Reap, At, shell
<1>2. Frame("reap", "take", p) \in Activation /\ Frame("reap", "take", p).pc = "take"
  <2>1. p \in Threads
    BY Consts DEF Inv, TypeOK
  <2> QED
    BY <2>1, FrameIn DEF Ops, Pcs, ReapPcs
<1> QED
  BY <1>1, <1>2, PlainLive DEF Chosen, Unmarked

LEMMA TakenLive == ASSUME Inv, Live, Taken, halted' = "no" PROVE Live'
<1>1. /\ Top.pc = "taken" /\ state' = [state EXCEPT ![Top.nxt] = "none"]
      /\ state[Top.nxt] = "Zombie" /\ SetTop(Frame("code", "code", 0))
      /\ UNCHANGED <<queue, current, ctx, cpu, nextPid>>
  BY DEF Taken, At
<1>2. \A p \in Pid : state'[p] = state[p] \/ (state[p] # "Runnable" /\ state'[p] # "Runnable")
  BY <1>1 DEF Inv, TypeOK
<1> QED
  BY <1>1, <1>2, CodeFrame, PlainLive DEF Chosen, Unmarked

LEMMA ExitLive == ASSUME Inv, Live, Exit PROVE Live'
<1>1. /\ Top.pc = "code" /\ SetTop(Frame("exit", "epop", 0))
      /\ state' = [state EXCEPT ![current] = IF @ = "none" THEN @ ELSE "Zombie"]
      /\ UNCHANGED <<queue, current, ctx, cpu, nextPid>>
  BY DEF Exit, At, shell
<1>2. Depth = 1 /\ Top = stack[cpu][1]
  BY <1>1, OpAt, TopIn DEF CodePcs, Top
<1>3. current \in Pid => state[current] # "Runnable"
  BY <1>1, <1>2 DEF Live, CurrentMeans, Unmarked
<1>4. \A p \in Pid : state'[p] = state[p] \/ (state[p] # "Runnable" /\ state'[p] # "Runnable")
  BY <1>1, <1>3 DEF Inv, TypeOK
<1> QED
  BY <1>1, <1>4, CodeFrame, PlainLive DEF Chosen, Unmarked

(* A task goes from the head of the queue into the hand of the call.       *)
LEMMA PopLive ==
    ASSUME Inv, Live, Distinct(queue), queue # << >>, NEW a \in Activation, SetTop(a),
           Depth = 1, Top.pc \in {"popped", "epopped"}, a.pc \in {"swap", "ecur"},
           a.nxt = Head(queue), queue' = Tail(queue),
           UNCHANGED <<cpu, ctx, current, nextPid, state>>
    PROVE  Live'
<1>1. /\ Head(queue) \in Pid /\ Has(queue, Head(queue)) /\ ~Has(queue', Head(queue))
      /\ \A p : Has(queue', p) => Has(queue, p)
  BY TailOf DEF Inv, TypeOK
<1>2. Follows(a)
  BY DEF Follows, Chosen, Unmarked
<1>3. ASSUME NEW p \in Pid PROVE Moves(a, p)
  <2>1. CASE p = Head(queue)
    <3>1. state'[p] = "Runnable"
      BY <1>1, <2>1 DEF Live, OnePlace
    <3> QED
      BY <1>1, <2>1, <3>1 DEF Moves, Ours
  <2>2. CASE p # Head(queue)
    <3>1. ~InHand(a, p)
      BY <2>2 DEF InHand
    <3> QED
      BY <1>1, <3>1 DEF Moves
  <2> QED
    BY <2>1, <2>2
<1> QED
  BY <1>2, <1>3, EditLive

LEMMA ReturnTop ==
    ASSUME Inv, Return, Top.op = "yield"
    PROVE  SetTop(Frame("code", "code", 0))
<1>1. Len(stack[cpu]) = Depth /\ stack[cpu][Depth] = Top
  BY DEF Depth, Top
<1>2. Back(stack[cpu]) = [stack[cpu] EXCEPT ![Depth] = Frame("code", "code", 0)]
  BY <1>1 DEF Back
<1> QED
  BY <1>2 DEF Return, SetTop

LEMMA PoppedLive == ASSUME Inv, Live, Distinct(queue), Popped PROVE Live' /\ Distinct(queue')
<1>1. /\ Top.pc = "popped" /\ UNCHANGED <<state, current, ctx, cpu, nextPid>>
  BY DEF Popped, At, shell
<1>2. Top.op \in {"boot", "yield"} /\ Depth = 1
  BY <1>1, OpAt, TopIn
<1>3. CASE queue = << >>
  <2>1. Return /\ queue' = queue
    BY <1>3 DEF Popped
  <2>2. Top.op = "yield"
    BY <1>1, <1>2, <1>3, TopIn DEF Inv, AtBoot
  <2> QED
    BY <1>1, <2>1, <2>2, ReturnTop, CodeFrame, PlainLive DEF Chosen, Unmarked
<1>4. CASE queue # << >>
  <2> DEFINE a == Frame(Top.op, "swap", Head(queue))
  <2>1. SetTop(a) /\ queue' = Tail(queue)
    BY <1>4 DEF Popped
  <2>2. queue \in Seq(Pid) /\ Head(queue) \in Threads /\ Distinct(queue')
    BY <1>4, <2>1, TailOf, Consts DEF Inv, TypeOK
  <2>3. a \in Activation /\ a.pc = "swap" /\ a.nxt = Head(queue)
    BY <1>2, <2>2, FrameIn DEF Ops, Pcs, SwitchPcs
  <2> HIDE DEF a
  <2> QED
    BY <1>1, <1>2, <1>4, <2>1, <2>2, <2>3, PopLive
<1> QED
  BY <1>3, <1>4

LEMMA ExitPoppedLive ==
    ASSUME Inv, Live, Distinct(queue), ExitPopped
    PROVE  Distinct(queue') /\ (halted' = "no" => Live')
<1>1. /\ Top.pc = "epopped" /\ UNCHANGED <<state, current, ctx, cpu, nextPid>>
  BY DEF ExitPopped, At, shell
<1>2. Depth = 1
  BY <1>1, OpAt, TopIn
<1>3. CASE queue = << >>
  BY <1>3 DEF ExitPopped
<1>4. CASE queue # << >>
  <2> DEFINE a == Frame("exit", "ecur", Head(queue))
  <2>1. SetTop(a) /\ queue' = Tail(queue)
    BY <1>4 DEF ExitPopped
  <2>2. queue \in Seq(Pid) /\ Head(queue) \in Threads /\ Distinct(queue')
    BY <1>4, <2>1, TailOf, Consts DEF Inv, TypeOK
  <2>3. a \in Activation /\ a.pc = "ecur" /\ a.nxt = Head(queue)
    BY <2>2, FrameIn DEF Ops, Pcs, SwitchPcs
  <2> HIDE DEF a
  <2> QED
    BY <1>1, <1>2, <1>4, <2>1, <2>2, <2>3, PopLive
<1> QED
  BY <1>3, <1>4

(* A task goes from the hand of the call to the end of the queue.          *)
LEMMA PushLive ==
    ASSUME Inv, Live, Distinct(queue), NEW a \in Activation, SetTop(a), NEW x \in Pid,
           InHand(Top, x), ~InHand(a, x), \A p \in Pid : InHand(a, p) => InHand(Top, p),
           queue' = Append(queue, x), Follows(a), a.pc \notin {"insert", "inserted"},
           UNCHANGED <<cpu, ctx, current, nextPid, state>>
    PROVE  Live' /\ Distinct(queue')
<1>1. Held(cpu, Depth, x) /\ cpu \in Threads /\ Depth \in 1 .. 2
  BY TopIn DEF Held, Top, Depth
<1>2. state[x] = "Runnable" /\ ~Has(queue, x)
  BY <1>1, Zenon DEF Live, OnePlace
<1>3. Distinct(queue') /\ \A p : Has(queue', p) => p = x \/ Has(queue, p)
  BY <1>2, AppendOf DEF Inv, TypeOK
<1>4. ASSUME NEW p \in Pid PROVE Moves(a, p)
  <2>1. CASE p = x
    BY <1>2, <2>1 DEF Moves, Ours
  <2>2. CASE p # x
    BY <1>3, <2>2 DEF Moves
  <2> QED
    BY <2>1, <2>2
<1> QED
  BY <1>3, <1>4, EditLive

LEMMA PushedLive == ASSUME Inv, Live, Distinct(queue), Pushed PROVE Live' /\ Distinct(queue')
<1> DEFINE a == [Top EXCEPT !.pc = "mark"]
<1>1. /\ Top.pc = "pushed" /\ SetTop(a) /\ queue' = Append(queue, Top.prv)
      /\ UNCHANGED <<state, current, ctx, cpu, nextPid>>
  BY DEF Pushed, At, Goto, shell
<1>2. a \in Activation /\ a.pc = "mark" /\ a.nxt = Top.nxt /\ a.prv = Top.prv
  BY GotoIn DEF Pcs, SwitchPcs
<1> HIDE DEF a
<1>3. Top.prv \in Pid /\ Top.prv # Top.nxt
  BY <1>1, TopIn DEF WellFormed, Live, CurrentMeans
<1>4. InHand(Top, Top.prv) /\ ~InHand(a, Top.prv) /\ \A p \in Pid : InHand(a, p) => InHand(Top, p)
  BY <1>1, <1>2, <1>3 DEF InHand, Unmarked
<1>5. Follows(a)
  BY <1>1, <1>2, <1>3 DEF Follows, Chosen, Unmarked
<1> QED
  BY <1>1, <1>2, <1>3, <1>4, <1>5, PushLive

LEMMA SpawnPushedLive ==
    ASSUME Inv, Live, Distinct(queue), SpawnPushed PROVE Live' /\ Distinct(queue')
<1>1. /\ Top.pc = "spushed" /\ queue' = Append(queue, Top.nxt)
      /\ UNCHANGED <<state, current, ctx, cpu, nextPid>>
      /\ SetTop([Top EXCEPT !.pc = "patch"]) \/ SetTop(Frame("code", "code", 0))
  BY DEF SpawnPushed, At, Goto
<1>2. PICK a \in Activation : SetTop(a) /\ a.pc \in {"patch", "code"}
  <2>1. [Top EXCEPT !.pc = "patch"] \in Activation /\ [Top EXCEPT !.pc = "patch"].pc = "patch"
    BY GotoIn DEF Pcs, SpawnPcs
  <2> QED
    BY <1>1, <2>1, CodeFrame
<1>3. Top.nxt \in Pid /\ InHand(Top, Top.nxt)
  BY <1>1, TopIn DEF WellFormed, SpawnPcs, InHand
<1>4. \A p : ~InHand(a, p)
  BY <1>2 DEF InHand, Unmarked
<1>5. Follows(a)
  BY <1>1, <1>2 DEF Follows, Chosen, Unmarked
<1> QED
  BY <1>1, <1>2, <1>3, <1>4, <1>5, PushLive

LEMMA DemoteLive == ASSUME Inv, Live, Demote PROVE Live'
<1>1. /\ Top.pc = "demote" /\ UNCHANGED <<queue, current, ctx, cpu, nextPid>>
  BY DEF Demote, At, shell
<1>2. Top \in Activation /\ Top.prv # Top.nxt /\ Top.nxt # Boot
  BY <1>1, TopIn, Consts DEF Live, CurrentMeans, WellFormed, TurnPcs
<1>3. CASE Top.prv # Boot /\ state[Top.prv] = "Running"
  <2> DEFINE a == [Top EXCEPT !.pc = "push"]
  <2>1. SetTop(a) /\ state' = [state EXCEPT ![Top.prv] = "Runnable"]
    BY <1>3 DEF Demote, Goto
  <2>2. a \in Activation /\ a.pc = "push" /\ a.nxt = Top.nxt /\ a.prv = Top.prv
    BY GotoIn DEF Pcs, SwitchPcs
  <2> HIDE DEF a
  <2>3. Follows(a)
    BY <1>1, <1>2, <2>2 DEF Follows, Chosen, Unmarked
  <2>4. Top.prv \in Pid
    BY <1>2, <1>3 DEF Activation, Pid, Boot
  <2>5. state'[Top.prv] = "Runnable" /\ \A p \in Pid : p # Top.prv => state'[p] = state[p]
    BY <2>1, <2>4 DEF Inv, TypeOK
  <2>6. ASSUME NEW p \in Pid PROVE Moves(a, p)
    <3>1. CASE p = Top.prv
      <4>1. ~Has(queue', p)
        BY <1>1, <1>3, <3>1 DEF Live, OnePlace
      <4> QED
        BY <1>3, <2>5, <3>1, <4>1 DEF Moves, Ours
    <3>2. CASE p # Top.prv
      <4>1. InHand(a, p) => InHand(Top, p)
        BY <1>1, <2>2, <3>2 DEF InHand, Unmarked
      <4> QED
        BY <1>1, <2>5, <3>2, <4>1 DEF Moves
    <3> QED
      BY <3>1, <3>2
  <2>7. Top.pc \in Unmarked
    BY <1>1 DEF Unmarked
  <2> QED
    BY <1>1, <2>1, <2>2, <2>3, <2>6, <2>7, EditLive
<1>4. CASE ~(Top.prv # Boot /\ state[Top.prv] = "Running")
  <2> DEFINE v == IF Top.prv # Boot /\ state[Top.prv] = "none" THEN Boot ELSE Top.prv
             a == [Top EXCEPT !.pc = "mark", !.prv = v]
  <2>1. SetTop(a) /\ state' = state
    BY <1>4 DEF Demote
  <2>2. v \in {Boot, Top.prv} /\ v \in 0 .. MaxPid
    BY <1>2, Consts DEF Activation, Threads
  <2>3. a \in Activation /\ a.pc = "mark" /\ a.nxt = Top.nxt /\ a.prv = v
    BY <1>2, <2>2 DEF Activation, Pcs, SwitchPcs
  <2> HIDE DEF a, v
  <2>4. Follows(a)
    BY <1>1, <1>2, <2>2, <2>3 DEF Follows, Chosen, Unmarked
  <2>5. \A p \in Pid : Moves(a, p)
    BY <1>1, <2>1, <2>3 DEF Moves, InHand, Unmarked
  <2> QED
    BY <1>1, <2>1, <2>3, <2>4, <2>5, EditLive
<1> QED
  BY <1>3, <1>4

(* The task that the call chose is Running.                                *)
LEMMA MarkedLive ==
    ASSUME Inv, Live, NEW a \in Activation, SetTop(a), Top.pc \in {"mark", "emark"},
           a.pc \in {"save", "load"}, a.nxt = Top.nxt, a.prv = Top.prv,
           Depth = 2 => a.pc = "save",
           state' = [state EXCEPT ![Top.nxt] = "Running"],
           UNCHANGED <<cpu, ctx, current, nextPid, queue>>
    PROVE  Live'
<1>1. Top.nxt \in Pid /\ InHand(Top, Top.nxt)
  BY TopIn DEF WellFormed, TurnPcs, InHand, Unmarked
<1>2. state'[Top.nxt] = "Running" /\ \A p \in Pid : p # Top.nxt => state'[p] = state[p]
  BY <1>1 DEF Inv, TypeOK
<1>3. Held(cpu, Depth, Top.nxt) /\ cpu \in Threads /\ Depth \in 1 .. 2
  BY <1>1, TopIn DEF Held, Top, Depth
<1>4. ~Has(queue', Top.nxt)
  BY <1>1, <1>3, Zenon DEF Live, OnePlace
<1>5. Top.pc \in Chosen \ {"load"} /\ Top.pc \in Unmarked
  BY DEF Chosen, Unmarked
<1>6. current = Top.nxt
  BY <1>5 DEF Live, CurrentMeans
<1>7. Follows(a)
  BY <1>2, <1>5, <1>6 DEF Follows
<1>8. ASSUME NEW p \in Pid PROVE Moves(a, p)
  <2>1. ~InHand(a, p)
    BY DEF InHand, Unmarked
  <2>2. CASE p = Top.nxt
    BY <1>1, <1>4, <2>1, <2>2 DEF Moves, Ours
  <2>3. CASE p # Top.nxt
    BY <1>2, <2>1, <2>3 DEF Moves
  <2> QED
    BY <2>2, <2>3
<1> QED
  BY <1>5, <1>7, <1>8, EditLive

LEMMA ChosenIn ==
    ASSUME Inv, Live, Top.pc \in {"swap", "ecur", "mark", "emark"}
    PROVE  /\ Top.nxt \in Pid /\ state[Top.nxt] = "Runnable"
           /\ \A t \in Threads, d \in 1 .. 2 : Held(t, d, Top.nxt) => t = cpu /\ d = Depth
<1>1. Top.nxt \in Pid /\ InHand(Top, Top.nxt)
  BY TopIn DEF WellFormed, TurnPcs, InHand, Unmarked
<1>2. Held(cpu, Depth, Top.nxt) /\ cpu \in Threads /\ Depth \in 1 .. 2
  BY <1>1, TopIn DEF Held, Top, Depth
<1> QED
  BY <1>1, <1>2, Zenon DEF Live, OnePlace

LEMMA MarkLive == ASSUME Inv, Live, Mark PROVE Live'
<1> DEFINE a == [Top EXCEPT !.pc = "save"]
<1>1. Top.pc = "mark" /\ UNCHANGED <<queue, current, ctx, cpu, nextPid>>
  BY DEF Mark, At, shell
<1>2. state[Top.nxt] # "none"
  BY <1>1, ChosenIn
<1>3. SetTop(a) /\ state' = [state EXCEPT ![Top.nxt] = "Running"]
  BY <1>2 DEF Mark, Goto
<1>4. a \in Activation /\ a.pc = "save" /\ a.nxt = Top.nxt /\ a.prv = Top.prv
  BY GotoIn DEF Pcs, SwitchPcs
<1> HIDE DEF a
<1> QED
  BY <1>1, <1>3, <1>4, MarkedLive

LEMMA ExitMarkLive == ASSUME Inv, Live, ExitMark PROVE Live' /\ halted' = halted
<1> DEFINE a == [Top EXCEPT !.pc = "load"]
<1>1. Top.pc = "emark" /\ UNCHANGED <<queue, current, ctx, cpu, nextPid>>
  BY DEF ExitMark, At, shell
<1>2. state[Top.nxt] # "none"
  BY <1>1, ChosenIn
<1>3. SetTop(a) /\ state' = [state EXCEPT ![Top.nxt] = "Running"] /\ halted' = halted
  BY <1>2 DEF ExitMark, Goto
<1>4. a \in Activation /\ a.pc = "load" /\ a.nxt = Top.nxt /\ a.prv = Top.prv
  BY GotoIn DEF Pcs, SwitchPcs
<1>5. Depth # 2
  BY <1>1, OpAt, TopIn
<1> HIDE DEF a
<1> QED
  BY <1>1, <1>3, <1>4, <1>5, MarkedLive

(* The call makes the task in its hand the current one.                    *)
LEMMA ChooseLive ==
    ASSUME Inv, Live, NEW a \in Activation, SetTop(a), current' = Top.nxt, a.nxt = Top.nxt,
           \/ Top.pc = "swap" /\ a.pc = "read" /\ a.prv = current /\ current # Top.nxt
           \/ Top.pc = "ecur" /\ a.pc = "emark" /\ Depth = 1,
           UNCHANGED <<cpu, ctx, state, nextPid, queue>>
    PROVE  Live'
<1>1. Top.nxt \in Pid /\ state[Top.nxt] = "Runnable"
  BY ChosenIn
<1>2. /\ \A d \in 1 .. 2 : d # Depth => stack'[cpu][d] = stack[cpu][d]
      /\ stack'[cpu][Depth] = a /\ Depth' = Depth /\ Top' = a
  BY Edited
<1>3. Depth \in 1 .. 2
  BY TopIn
<1>4. ASSUME NEW p \in Pid PROVE OnePlace(p)'
  <2>1. InHand(a, p) => InHand(Top, p)
    BY DEF InHand, Unmarked
  <2>2. Moves(a, p)
    BY <2>1 DEF Moves
  <2> QED
    BY <2>2, EditOnePlace DEF Live
<1>5. CurrentMeans'
  <2>1. \E d \in 1 .. Depth : stack'[cpu][d].pc \in Unmarked /\ stack'[cpu][d].nxt = Top.nxt
    BY <1>2, <1>3 DEF Unmarked
  <2>2. \A p \in Pid : ToCome(p)' => Top.nxt # p
    <3>1. \A p \in Pid : ToCome(p)' => ToCome(p)
      BY EditToCome
    <3> QED
      BY <1>1, <3>1 DEF Inv, Unborn
  <2>3. a.pc \in {"read", "demote", "push", "pushed", "mark"} => a.prv # a.nxt
    OBVIOUS
  <2>4. a.pc \notin {"save", "load"}
    OBVIOUS
  <2> QED
    BY <1>2, <2>1, <2>2, <2>3, <2>4 DEF CurrentMeans
<1>6. Beneath'
  <2>1. ASSUME Depth = 2, stack'[cpu][1].pc \in Chosen
        PROVE  a.pc # "swap" /\ a.prv = stack'[cpu][1].nxt
    <3>1. stack'[cpu][1] = stack[cpu][1]
      BY <1>2, <2>1
    <3> QED
      BY <2>1, <3>1 DEF Live, Beneath
  <2>2. ASSUME NEW x \in Pid, ctx[x].fresh, ctx[x].depth = 2,
               stack'[ctx[x].owner][1].pc \in Chosen
        PROVE  x = stack'[ctx[x].owner][1].nxt
    BY <2>2, EditDeep DEF Live
  <2> QED
    BY <1>2, <2>1, <2>2 DEF Beneath
<1> QED
  BY <1>4, <1>5, <1>6 DEF Live

(* No task is switched to itself.                                          *)
LEMMA NotItself == ASSUME Inv, Live, Top.pc = "swap" PROVE current # Top.nxt
<1> SUFFICES ASSUME current = Top.nxt PROVE FALSE
  OBVIOUS
<1>1. /\ current \in Pid /\ state[current] = "Runnable"
      /\ \A t \in Threads, d \in 1 .. 2 : Held(t, d, current) => t = cpu /\ d = Depth
  BY ChosenIn
<1>2. PICK d \in 1 .. Depth : stack[cpu][d].pc \in Unmarked /\ stack[cpu][d].nxt = current
  BY <1>1 DEF Live, CurrentMeans
<1>3. d \in 1 .. 2 /\ d <= Len(stack[cpu]) /\ cpu \in Threads
  BY <1>2, TopIn DEF Depth
<1>4. d = Depth
  BY <1>1, <1>2, <1>3 DEF Held, InHand
<1> QED
  BY <1>2, <1>4 DEF Top, Unmarked

LEMMA SwapLive == ASSUME Inv, Live, Swap PROVE Live'
<1>1. /\ Top.pc = "swap" /\ current' = Top.nxt
      /\ UNCHANGED <<state, queue, ctx, cpu, nextPid>>
  BY DEF Swap, At, shell
<1>2. current # Top.nxt
  BY <1>1, NotItself
<1> DEFINE a == [Top EXCEPT !.pc = "read", !.prv = current]
<1>3. SetTop(a)
  BY <1>2 DEF Swap
<1>4. a \in Activation /\ a.pc = "read" /\ a.nxt = Top.nxt /\ a.prv = current
  BY TopIn DEF Activation, Pcs, SwitchPcs, Inv, TypeOK
<1> HIDE DEF a
<1> QED
  BY <1>1, <1>2, <1>3, <1>4, ChooseLive

LEMMA ExitCurrentLive == ASSUME Inv, Live, ExitCurrent PROVE Live'
<1> DEFINE a == [Top EXCEPT !.pc = "emark"]
<1>1. /\ Top.pc = "ecur" /\ current' = Top.nxt /\ SetTop(a)
      /\ UNCHANGED <<state, queue, ctx, cpu, nextPid>>
  BY DEF ExitCurrent, At, Goto, shell
<1>2. a \in Activation /\ a.pc = "emark" /\ a.nxt = Top.nxt
  BY GotoIn DEF Pcs, SwitchPcs
<1>3. Depth = 1
  BY <1>1, OpAt, TopIn
<1> HIDE DEF a
<1> QED
  BY <1>1, <1>2, <1>3, ChooseLive

LEMMA SaveLive == ASSUME Inv, Live, Save, halted' = "no" PROVE Live'
<1> DEFINE a == [Top EXCEPT !.pc = "load"]
           p == Top.prv
           c == [owner |-> cpu, depth |-> Depth, fresh |-> TRUE]
<1>1. /\ Top.pc = "save" /\ SetTop(a) /\ ctx' = (IF p = Boot THEN ctx ELSE [ctx EXCEPT ![p] = c])
      /\ UNCHANGED <<state, queue, current, cpu, nextPid>>
  BY DEF Save, At, Goto, shell
<1>2. a \in Activation /\ a.pc = "load" /\ a.nxt = Top.nxt /\ a.prv = Top.prv
  BY GotoIn DEF Pcs, SwitchPcs
<1>3. c.owner = cpu /\ c.depth = Depth /\ p \in Threads
  BY TopIn DEF Activation, Threads
<1> HIDE DEF a, c
<1>4. Follows(a)
  BY <1>1, <1>2 DEF Follows, Live, CurrentMeans, Chosen, Unmarked
<1>5. ASSUME NEW x \in Pid PROVE OnePlace(x)'
  <2>1. Moves(a, x)
    BY <1>1, <1>2 DEF Moves, InHand, Unmarked
  <2> QED
    BY <1>1, <1>2, <2>1, EditOnePlace DEF Live
<1>6. CurrentMeans'
  <2>1. \A x \in Pid : ToCome(x)' => ToCome(x)
    BY <1>1, <1>2, EditToCome
  <2> QED
    BY <1>1, <1>2, <1>4, <2>1, EditCurrent DEF Live
<1>7. Beneath'
  <2>1. /\ \A t \in Threads : t # cpu => stack'[t] = stack[t]
        /\ \A d \in 1 .. 2 : d # Depth => stack'[cpu][d] = stack[cpu][d]
        /\ Depth' = Depth /\ Top' = a
    BY <1>1, <1>2, Edited
  <2>2. Depth \in 1 .. 2 /\ Depth = Len(stack[cpu])
    BY TopIn DEF Depth
  <2>3. ASSUME NEW x \in Pid, ctx'[x].fresh, ctx'[x].depth = 2,
               stack'[ctx'[x].owner][1].pc \in Chosen
        PROVE  x = stack'[ctx'[x].owner][1].nxt
    <3>1. CASE p # Boot /\ x = p
      <4>1. ctx'[x] = c
        BY <1>1, <3>1 DEF Inv, TypeOK
      <4>2. Depth = 2 /\ stack'[cpu][1] = stack[cpu][1] /\ stack[cpu][1].pc \in Chosen
        BY <1>3, <2>1, <2>3, <4>1
      <4>3. x = stack[cpu][1].nxt
        BY <1>1, <3>1, <4>2 DEF Live, Beneath, Chosen
      <4> QED
        BY <1>3, <4>1, <4>2, <4>3
    <3>2. CASE ~(p # Boot /\ x = p)
      <4>1. ctx'[x] = ctx[x]
        BY <1>1, <3>2 DEF Inv, TypeOK
      <4>2. FreshAt(ctx[x]) /\ ctx[x].owner \in Threads
        BY <2>3, <4>1, Consts DEF Inv, Fresh, TypeOK
      <4>3. ctx[x].owner = cpu => Depth # 1
        BY <2>2, <2>3, <4>1, <4>2 DEF FreshAt
      <4>4. stack'[ctx[x].owner][1] = stack[ctx[x].owner][1]
        BY <2>1, <2>2, <4>2, <4>3
      <4> QED
        BY <2>3, <4>1, <4>4 DEF Live, Beneath
    <3> QED
      BY <3>1, <3>2
  <2>4. a.pc \notin Chosen \ {"load"} /\ a.pc # "swap"
    BY <1>2
  <2> QED
    BY <2>1, <2>3, <2>4 DEF Beneath
<1> QED
  BY <1>5, <1>6, <1>7 DEF Live

LEMMA SpawnLive == ASSUME Inv, Live, NEW kind, Spawn(kind) PROVE Live'
<1> DEFINE a == Frame("spawn", "insert", nextPid)
<1>1. /\ Top.pc = "code" /\ SetTop(a) /\ nextPid' = nextPid + 1 /\ cpu = Shell
      /\ UNCHANGED <<state, queue, current, ctx, cpu>>
  BY DEF Spawn, At
<1>2. nextPid \in Pid /\ nextPid \in Threads
  <2>1. nextPid \in 2 .. MaxPid + 1 /\ nextPid <= MaxPid /\ MaxPid \in Nat
    BY SchedulerAssumption DEF Spawn, Inv, TypeOK
  <2> QED
    BY <2>1 DEF Pid, Threads
<1>3. a \in Activation /\ a.pc = "insert" /\ a.nxt = nextPid
  <2>1. "insert" \in Pcs /\ "spawn" \in Ops
    BY DEF Pcs, SpawnPcs, Ops
  <2> QED
    BY <1>2, <2>1, FrameIn
<1> HIDE DEF a
<1>4. Follows(a)
  BY <1>1, <1>3 DEF Follows, Chosen, Unmarked
<1>5. \A p \in Pid : Moves(a, p)
  BY <1>1, <1>3 DEF Moves, InHand, Unmarked
<1>6. ASSUME NEW p \in Pid, ToCome(p)' PROVE ToCome(p)
  <2>1. Depth = 1
    BY <1>1, OpAt, TopIn DEF CodePcs
  <2>2. stack'[Shell][1] = a
    BY <1>1, <1>3, <2>1, Edited
  <2>3. p >= nextPid + 1 \/ p = nextPid
    BY <1>1, <1>3, <1>6, <2>2 DEF ToCome
  <2>4. p \in Nat /\ nextPid \in Nat
    BY <1>2, Consts
  <2>5. p >= nextPid
    BY <2>3, <2>4
  <2> QED
    BY <2>5 DEF ToCome
<1>7. \A p \in Pid : OnePlace(p)'
  BY <1>1, <1>3, <1>5, EditOnePlace DEF Live
<1>8. CurrentMeans'
  BY <1>1, <1>3, <1>4, <1>6, EditCurrent DEF Live
<1>9. Beneath'
  BY <1>1, <1>3, <1>4, EditBeneath DEF Live
<1> QED
  BY <1>7, <1>8, <1>9 DEF Live

LEMMA StayLive ==
    ASSUME Live, UNCHANGED <<state, queue, current, nextPid, ctx, cpu, stack>>
    PROVE  Live'
BY DEF Live, OnePlace, Held, Has, CurrentMeans, Beneath, Top, Depth, ToCome

LEMMA TickLive == ASSUME Inv, Live, Distinct(queue), Tick PROVE Live' /\ Distinct(queue')
<1> DEFINE f == Frame("isr", "swap", Head(queue))
           s == Append(stack[cpu], f)
<1>1. /\ queue # << >> /\ queue' = Tail(queue) /\ stack' = [stack EXCEPT ![cpu] = s] /\ irq
      /\ UNCHANGED <<state, current, ctx, cpu, nextPid>>
  BY DEF Tick, shell
<1>2. /\ Head(queue) \in Pid /\ Has(queue, Head(queue)) /\ ~Has(queue', Head(queue))
      /\ Distinct(queue') /\ \A p : Has(queue', p) => Has(queue, p)
  BY <1>1, TailOf DEF Inv, TypeOK
<1>3. f \in Activation /\ f.op = "isr" /\ f.pc = "swap" /\ f.nxt = Head(queue)
  <2>1. "isr" \in Ops /\ "swap" \in Pcs /\ Head(queue) \in Threads
    BY <1>2, Consts DEF Ops, Pcs, SwitchPcs
  <2> QED
    BY <2>1, FrameIn
<1> HIDE DEF f
<1>4. cpu \in Threads /\ Len(stack[cpu]) = 1 /\ stack[cpu] \in Seq(Activation) /\ Depth = 1
  BY <1>1, TopIn DEF Inv, IrqMeans, Depth
<1>5. s \in Seq(Activation) /\ Len(s) = 2 /\ s[1] = stack[cpu][1] /\ s[2] = f
  BY <1>3, <1>4, SecondOf
<1> HIDE DEF s
<1>6. stack'[cpu] = s /\ \A t \in Threads : t # cpu => stack'[t] = stack[t]
  BY <1>1, <1>4 DEF Inv, TypeOK, Threads
<1>7. Depth' = 2 /\ Top' = f /\ Top = stack[cpu][1]
  BY <1>1, <1>4, <1>5, <1>6 DEF Depth, Top
<1>8. ASSUME NEW p \in Pid PROVE OnePlace(p)'
  <2>1. ASSUME NEW t \in Threads, NEW d \in 1 .. 2, Held(t, d, p)'
        PROVE  Held(t, d, p) \/ (t = cpu /\ d = 2 /\ p = Head(queue))
    <3>1. CASE t # cpu
      BY <1>6, <2>1, <3>1 DEF Held
    <3>2. CASE t = cpu /\ d = 1
      BY <1>4, <1>5, <1>6, <2>1, <3>2 DEF Held
    <3>3. CASE t = cpu /\ d = 2
      BY <1>3, <1>5, <1>6, <2>1, <3>3 DEF Held, InHand
    <3> QED
      BY <3>1, <3>2, <3>3
  <2>2. CASE p = Head(queue)
    <3>1. state[p] = "Runnable" /\ \A t \in Threads, d \in 1 .. 2 : ~Held(t, d, p)
      BY <1>2, <2>2 DEF Live, OnePlace
    <3>2. \A t \in Threads, d \in 1 .. 2 : Held(t, d, p)' => t = cpu /\ d = 2
      BY <2>1, <3>1
    <3>3. ~Has(queue, p)' /\ state'[p] = "Runnable"
      BY <1>1, <1>2, <2>2, <3>1 DEF Has
    <3> QED
      BY <1>4, <3>2, <3>3, OnePlaceStep DEF Live
  <2>3. CASE p # Head(queue)
    <3>1. \A t \in Threads, d \in 1 .. 2 : Held(t, d, p)' => Held(t, d, p)
      BY <2>1, <2>3
    <3>2. Has(queue, p)' => Has(queue, p)
      BY <1>2 DEF Has
    <3>3. state'[p] = state[p]
      BY <1>1
    <3> QED
      BY <1>4, <3>1, <3>2, <3>3, OnePlaceStep DEF Live
  <2> QED
    BY <2>2, <2>3
<1>9. stack'[Shell][1] = stack[Shell][1]
  BY <1>5, <1>6, Consts
<1>10. CurrentMeans'
  <2>1. current \in Pid /\ state[current] = "Runnable" =>
          \E d \in 1 .. 2 : stack'[cpu][d].pc \in Unmarked /\ stack'[cpu][d].nxt = current
    BY <1>4, <1>5, <1>6 DEF Live, CurrentMeans
  <2>2. \A p \in Pid : ToCome(p)' => ToCome(p)
    BY <1>1, <1>9 DEF ToCome
  <2> QED
    BY <1>1, <1>3, <1>7, <2>1, <2>2 DEF Live, CurrentMeans, Chosen, Unmarked
<1>11. Beneath'
  <2>1. ASSUME stack'[cpu][1].pc \in Chosen
        PROVE  current = stack'[cpu][1].nxt
    BY <1>5, <1>6, <1>7, <2>1 DEF Live, CurrentMeans
  <2>2. ASSUME NEW x \in Pid, ctx[x].fresh, ctx[x].depth = 2
        PROVE  stack'[ctx[x].owner] = stack[ctx[x].owner]
    <3>1. FreshAt(ctx[x]) /\ ctx[x].owner \in Threads
      BY <2>2, Consts DEF Inv, Fresh, TypeOK
    <3>2. ctx[x].owner # cpu
      BY <1>4, <2>2, <3>1 DEF FreshAt
    <3> QED
      BY <1>6, <3>1, <3>2
  <2> QED
    BY <1>1, <1>3, <1>7, <2>1, <2>2 DEF Live, Beneath, Chosen, Unmarked
<1> QED
  BY <1>2, <1>8, <1>10, <1>11 DEF Live

LEMMA InsertedLive == ASSUME Inv, Live, Inserted PROVE Live'
<1> DEFINE p == Top.nxt
           b == [Top EXCEPT !.pc = "spush"]
           f == Frame("code", IF p \in iso THEN "tramp" ELSE "code", 0)
           c == [owner |-> p, depth |-> 1, fresh |-> TRUE]
           q == [stack[cpu] EXCEPT ![Depth] = b]
<1>1. /\ Top.pc = "inserted"
      /\ state' = [state EXCEPT ![p] = "Runnable"] /\ ctx' = [ctx EXCEPT ![p] = c]
      /\ UNCHANGED <<queue, current, cpu, nextPid>>
  BY DEF Inserted, At, shell
<1>2. stack' = [[stack EXCEPT ![cpu] = q] EXCEPT ![p] = <<f>>]
  BY DEF Inserted, Top
<1>3. b.pc = "spush" /\ b.nxt = p /\ f.pc \in {"code", "tramp"}
  BY GotoIn DEF Pcs, SpawnPcs, Frame
<1>4. c.owner = p /\ c.depth = 1
  OBVIOUS
<1> HIDE DEF p, b, f, c, q
<1>5. /\ cpu = Shell /\ p \in Pid /\ p \in Threads /\ cpu \in Threads
      /\ Depth = 1 /\ Len(stack[cpu]) = 1 /\ stack[cpu] \in Seq(Activation)
      /\ Top = stack[Shell][1]
  <2>1. Top.op = "spawn"
    BY <1>1, OpAt DEF SpawnPcs
  <2>2. Depth \in 1 .. 2 /\ Depth # 2
    BY <2>1, TopIn
  <2>3. p \in Pid
    BY <1>1, <2>1, TopIn DEF WellFormed, SpawnPcs, p
  <2> QED
    BY <2>1, <2>2, <2>3, TopIn, Consts DEF Depth
<1>6. ToCome(p)
  BY <1>1, <1>5 DEF ToCome, p
<1>7. /\ p # Shell /\ state[p] = "none" /\ Len(stack[p]) = 1 /\ p < nextPid
      /\ \A r \in Pid : r # p => ctx[r].owner # p
  BY <1>1, <1>5, <1>6 DEF Inv, Unborn, Numbered, p
<1>8. Len(q) = 1 /\ q[1] = b
  BY <1>5 DEF q
<1>9. /\ stack'[cpu] = q /\ stack'[p] = <<f>>
      /\ \A t \in Threads : t # cpu /\ t # p => stack'[t] = stack[t]
  BY <1>2, <1>5, <1>7 DEF Inv, TypeOK, Threads
<1>10. Len(stack'[p]) = 1 /\ stack'[p][1] = f /\ Len(stack'[cpu]) = 1 /\ stack'[cpu][1] = b
  BY <1>8, <1>9
<1>11. /\ ctx'[p] = c /\ \A r \in Pid : r # p => ctx'[r] = ctx[r]
       /\ state'[p] = "Runnable" /\ \A r \in Pid : r # p => state'[r] = state[r]
  BY <1>1, <1>5 DEF Inv, TypeOK
<1>12. ASSUME NEW x \in Pid PROVE OnePlace(x)'
  <2>1. ASSUME NEW t \in Threads, NEW d \in 1 .. 2, Held(t, d, x)'
        PROVE  Held(t, d, x) \/ (t = cpu /\ d = 1 /\ x = p)
    <3>1. CASE t # cpu /\ t # p
      BY <1>9, <2>1, <3>1 DEF Held
    <3>2. CASE t = cpu
      <4>1. d = 1
        BY <1>10, <2>1, <3>2 DEF Held
      <4>2. InHand(b, x)
        BY <1>10, <2>1, <3>2, <4>1 DEF Held
      <4> QED
        BY <1>3, <3>2, <4>1, <4>2 DEF InHand, Unmarked
    <3>3. CASE t = p
      <4>1. d = 1
        BY <1>10, <2>1, <3>3 DEF Held
      <4>2. InHand(f, x)
        BY <1>10, <2>1, <3>3, <4>1 DEF Held
      <4> QED
        BY <1>3, <4>2 DEF InHand, Unmarked
    <3> QED
      BY <3>1, <3>2, <3>3
  <2>2. CASE x = p
    <3>1. ~Has(queue, x) /\ \A t \in Threads, d \in 1 .. 2 : ~Held(t, d, x)
      BY <1>7, <2>2 DEF Live, OnePlace
    <3>2. \A t \in Threads, d \in 1 .. 2 : Held(t, d, x)' => t = cpu /\ d = 1
      BY <2>1, <3>1
    <3>3. ~Has(queue, x)' /\ state'[x] = "Runnable"
      BY <1>1, <1>11, <2>2, <3>1 DEF Has
    <3> QED
      BY <1>5, <3>2, <3>3, OnePlaceStep DEF Live
  <2>3. CASE x # p
    <3>1. \A t \in Threads, d \in 1 .. 2 : Held(t, d, x)' => Held(t, d, x)
      BY <2>1, <2>3
    <3>2. Has(queue, x)' => Has(queue, x)
      BY <1>1 DEF Has
    <3>3. state'[x] = state[x]
      BY <1>11, <2>3
    <3> QED
      BY <1>5, <3>1, <3>2, <3>3, OnePlaceStep DEF Live
  <2> QED
    BY <2>2, <2>3
<1>13. Depth' = 1 /\ Top' = b /\ current # p
  BY <1>1, <1>5, <1>6, <1>10 DEF Depth, Top, Live, CurrentMeans
<1>14. CurrentMeans'
  <2>1. current \in Pid => state[current] # "Runnable"
    BY <1>1, <1>5 DEF Live, CurrentMeans, Unmarked
  <2>2. current \in Pid => state'[current] # "Runnable"
    BY <1>11, <1>13, <2>1
  <2>3. ASSUME NEW x \in Pid, ToCome(x)' PROVE current # x
    <3>1. ToCome(x)
      BY <1>1, <1>3, <1>5, <1>10, <2>3 DEF ToCome
    <3> QED
      BY <3>1 DEF Live, CurrentMeans
  <2> QED
    BY <1>1, <1>3, <1>13, <2>2, <2>3 DEF CurrentMeans, Chosen, Unmarked
<1>15. Beneath'
  <2>1. ASSUME NEW x \in Pid, ctx'[x].fresh, ctx'[x].depth = 2
        PROVE  ctx'[x] = ctx[x] /\ stack'[ctx[x].owner] = stack[ctx[x].owner]
    <3>1. x # p
      BY <1>4, <1>11, <2>1
    <3>2. ctx'[x] = ctx[x] /\ ctx[x].owner # p
      BY <1>7, <1>11, <3>1
    <3>3. FreshAt(ctx[x]) /\ ctx[x].owner \in Threads
      BY <2>1, <3>2, Consts DEF Inv, Fresh, TypeOK
    <3>4. ctx[x].owner # cpu
      BY <1>5, <2>1, <3>2, <3>3 DEF FreshAt
    <3> QED
      BY <1>9, <3>2, <3>3, <3>4
  <2>2. \A x \in Pid : ctx'[x].fresh /\ ctx'[x].depth = 2 =>
          (stack'[ctx'[x].owner][1].pc \in Chosen => x = stack'[ctx'[x].owner][1].nxt)
    BY <2>1 DEF Live, Beneath
  <2> QED
    BY <1>13, <2>2 DEF Beneath
<1> QED
  BY <1>12, <1>14, <1>15 DEF Live

LEMMA LoadLive == ASSUME Inv, Live, Load, halted' = "no" PROVE Live'
<1> DEFINE n == Top.nxt
           o == ctx[n].owner
           d == ctx[n].depth
           r == Back(SubSeq(stack[o], 1, d))
<1>1. Top.pc = "load" /\ UNCHANGED <<state, queue, current, nextPid>>
  BY DEF Load, At, shell
<1>2. n \in Pid /\ current = n /\ state[n] # "Runnable"
  BY <1>1, TopIn DEF WellFormed, TurnPcs, Live, CurrentMeans, Chosen
<1>3. ctx[n].fresh /\ state[n] # "none"
  BY DEF Load
<1>4. /\ cpu' = o /\ stack' = [stack EXCEPT ![o] = r]
      /\ ctx' = [p \in Pid |-> IF ctx[p].owner = o /\ ctx[p].depth >= d
                               THEN [ctx[p] EXCEPT !.fresh = FALSE] ELSE ctx[p]]
  BY <1>3 DEF Load
<1>5. /\ o \in Pid /\ d \in 1 .. Len(stack[o]) /\ r \in Seq(Activation) /\ Len(r) = 1
      /\ \/ r[1] = stack[o][1] /\ (d = 1 => r[1].op = "code" /\ Len(stack[o]) = 1)
         \/ r[1] = Frame("code", "code", 0) /\ d = 1 /\ stack[o][1].pc = "load"
  BY <1>2, <1>3, Resumed
<1> HIDE DEF n, o, d, r
<1>6. o \in Threads /\ Len(stack[o]) \in 1 .. 2 /\ d \in 1 .. 2 /\ 1 <= Len(stack[o])
  <2>1. o \in Threads
    BY <1>5, Consts
  <2>2. Len(stack[o]) \in 1 .. 2
    BY <2>1 DEF Inv, TypeOK, Threads
  <2>3. \A l \in 1 .. 2 : 1 <= l
    OBVIOUS
  <2>4. 1 <= Len(stack[o])
    BY <2>2, <2>3, Zenon
  <2> QED
    BY <1>5, <2>1, <2>2, <2>4, Within
<1>7. stack'[o] = r /\ \A t \in Threads : t # o => stack'[t] = stack[t]
  BY <1>4, <1>6 DEF Inv, TypeOK, Threads
<1>8. r[1] = stack[o][1] \/ r[1].pc = "code"
  BY <1>5, CodeFrame
<1>9. Depth' = 1 /\ Top' = r[1]
  BY <1>4, <1>5, <1>7 DEF Depth, Top
<1>10. \A p : ~InHand(r[1], p) \/ InHand(stack[o][1], p)
  BY <1>8 DEF InHand, Unmarked
<1>11. ASSUME NEW p \in Pid PROVE OnePlace(p)'
  <2>1. ASSUME NEW t \in Threads, NEW e \in 1 .. 2, Held(t, e, p)' PROVE Held(t, e, p)
    <3>1. CASE t # o
      BY <1>7, <2>1, <3>1 DEF Held
    <3>2. CASE t = o
      <4>1. e <= 1 /\ InHand(stack'[o][e], p)
        BY <1>5, <1>7, <2>1, <3>2 DEF Held
      <4>2. e = 1
        BY <4>1
      <4>3. InHand(stack[o][1], p)
        <5>1. InHand(r[1], p)
          BY <1>7, <4>1, <4>2, Zenon
        <5> QED
          BY <1>10, <5>1, Zenon
      <4> QED
        BY <1>6, <3>2, <4>2, <4>3 DEF Held
    <3> QED
      BY <3>1, <3>2
  <2>2. Has(queue, p)' => Has(queue, p)
    BY <1>1 DEF Has
  <2>3. 1 \in 1 .. 2 /\ state'[p] = state[p]
    BY <1>1
  <2> QED
    BY <1>6, <2>1, <2>2, <2>3, OnePlaceStep DEF Live
<1>12. ASSUME r[1].pc \in Chosen PROVE r[1].pc \notin Unmarked /\ n = r[1].nxt
  <2>1. r[1] = stack[o][1]
    BY <1>8, <1>12 DEF Chosen, Unmarked
  <2>2. d # 1
    <3>1. r[1].op = "code" => r[1].pc \in CodePcs
      BY <1>6, <2>1, Consts DEF Inv, Framed, WellFormed
    <3>2. "code" \notin Chosen /\ \A l \in CodePcs : l \notin Chosen
      BY DEF Chosen, Unmarked, CodePcs
    <3> QED
      BY <1>5, <1>12, <3>1, <3>2, CodeFrame
  <2>3. d = 2
    BY <1>6, <2>2
  <2>4. n = stack[o][1].nxt
    BY <1>2, <1>3, <1>12, <2>1, <2>3 DEF Live, Beneath, o, d
  <2>5. ~InHand(stack[o][1], n)
    <3>1. Held(o, 1, n) => state[n] = "Runnable"
      BY <1>2, <1>6 DEF Live, OnePlace
    <3> QED
      BY <1>2, <1>6, <3>1 DEF Held
  <2> QED
    BY <2>1, <2>4, <2>5 DEF InHand
<1>13. CurrentMeans'
  <2>1. \A p \in Pid : ToCome(p)' => current # p
    <3>1. stack'[Shell][1] = stack[Shell][1] \/ stack'[Shell][1].pc = "code"
      BY <1>7, <1>8, Consts
    <3>2. \A p \in Pid : ToCome(p)' => ToCome(p)
      BY <1>1, <3>1 DEF ToCome
    <3> QED
      BY <3>2 DEF Live, CurrentMeans
  <2>2. r[1].pc \notin {"read", "demote", "push", "pushed", "mark"}
    BY <1>12 DEF Chosen, Unmarked
  <2>3. r[1].pc \in {"save", "load"} => state[r[1].nxt] # "Runnable"
    BY <1>2, <1>12 DEF Chosen
  <2>4. r[1].pc \in Chosen => current = r[1].nxt
    BY <1>2, <1>12
  <2> QED
    BY <1>1, <1>2, <1>9, <2>1, <2>2, <2>3, <2>4 DEF CurrentMeans
<1>14. Beneath'
  <2>1. ASSUME NEW x \in Pid, ctx'[x].fresh, ctx'[x].depth = 2
        PROVE  ctx[x].fresh /\ ctx[x].depth = 2 /\ ctx'[x].owner = ctx[x].owner /\ ctx[x].owner # o
    <3>1. ctx[x] \in [owner : Pid, depth : 1 .. 2, fresh : BOOLEAN]
      BY DEF Inv, TypeOK
    <3>2. CASE ctx[x].owner = o /\ ctx[x].depth >= d
      <4>1. ctx'[x] = [ctx[x] EXCEPT !.fresh = FALSE]
        BY <1>4, <3>2
      <4> QED
        BY <2>1, <3>1, <4>1
    <3>3. CASE ~(ctx[x].owner = o /\ ctx[x].depth >= d)
      <4>1. ctx'[x] = ctx[x]
        BY <1>4, <3>3
      <4>2. ctx[x].depth = 2
        BY <2>1, <4>1
      <4>3. 2 >= d
        BY <1>6
      <4> QED
        BY <2>1, <3>3, <4>1, <4>2, <4>3
    <3> QED
      BY <3>2, <3>3
  <2>2. ASSUME NEW x \in Pid, ctx'[x].fresh, ctx'[x].depth = 2
        PROVE  stack'[ctx'[x].owner] = stack[ctx[x].owner]
    <3>1. ctx[x].owner \in Threads
      BY Consts DEF Inv, TypeOK
    <3> QED
      BY <1>7, <2>1, <2>2, <3>1
  <2>3. \A x \in Pid : ctx'[x].fresh /\ ctx'[x].depth = 2 =>
          (stack'[ctx'[x].owner][1].pc \in Chosen => x = stack'[ctx'[x].owner][1].nxt)
    BY <2>1, <2>2 DEF Live, Beneath
  <2> QED
    BY <1>9, <2>3 DEF Beneath
<1> QED
  BY <1>11, <1>13, <1>14 DEF Live

LEMMA LiveInit == Init => Turn
<1> SUFFICES ASSUME Init PROVE Turn
  OBVIOUS
<1>0. Inv
  BY InvInit
<1>1. /\ queue = <<Shell>> /\ current = Boot /\ cpu = Boot /\ halted = "no"
      /\ \A p \in Pid : state[p] = IF p = Shell THEN "Runnable" ELSE "none"
      /\ \A p \in Pid : ctx[p].depth = 1
  BY DEF Init
<1>2. \A t \in Threads : /\ stack[t][1].pc \in {"pop", "code"} /\ Len(stack[t]) = 1
  BY DEF Init, Frame, Threads
<1>3. Depth = 1 /\ Top.pc \in {"pop", "code"}
  BY <1>1, <1>2, Consts DEF Depth, Top
<1>4. \A t \in Threads, d \in 1 .. 2, p \in Pid : ~Held(t, d, p)
  BY <1>2 DEF Held, InHand, Unmarked
<1>5. Distinct(queue) /\ \A p \in Pid : Has(queue, p) => p = Shell
  BY <1>1 DEF Distinct, Has
<1>6. \A p \in Pid : OnePlace(p)
  BY <1>1, <1>4, <1>5 DEF OnePlace
<1>7. CurrentMeans /\ Beneath
  <2>1. Top.pc \notin Chosen /\ Top.pc \notin {"read", "demote", "push", "pushed", "mark"}
    BY <1>3 DEF Chosen, Unmarked
  <2>2. Top.pc \notin {"save", "load"} /\ current \notin Pid
    BY <1>1, <1>3, Consts
  <2>3. CurrentMeans
    BY <2>1, <2>2 DEF CurrentMeans
  <2>4. Beneath
    BY <1>1, <1>3 DEF Beneath
  <2> QED
    BY <2>3, <2>4
<1> QED
  BY <1>1, <1>5, <1>6, <1>7 DEF Turn, Live

(* Every step keeps it.                                                    *)
LEMMA TurnStep == Inv /\ Turn /\ [Next]_vars => Turn'
<1> SUFFICES ASSUME Inv, Turn, [Next]_vars PROVE Turn'
  OBVIOUS
<1>1. Distinct(queue) /\ halted # "noTcb" /\ (halted = "no" => Live)
  BY DEF Turn
<1>2. ASSUME halted' = halted, queue' = queue, halted = "no" => Live' PROVE Turn'
  BY <1>1, <1>2 DEF Turn
<1>3. CASE Pop \/ Push \/ ExitPop \/ SpawnPush
  <2>1. PICK l, m : /\ \/ (l = "pop" /\ m = "popped") \/ (l = "push" /\ m = "pushed")
                       \/ (l = "epop" /\ m = "epopped") \/ (l = "spush" /\ m = "spushed")
                    /\ LockRq(l, m)
    BY <1>3 DEF Pop, Push, ExitPop, SpawnPush
  <2>2. halted = "no" /\ UNCHANGED <<queue, halted>>
    BY <2>1 DEF LockRq, At
  <2>3. Live'
    BY <1>1, <2>1, <2>2, LockRqLive
  <2> QED
    BY <1>2, <2>2, <2>3
<1>4. CASE Insert \/ Patch \/ Take \/ Update
  <2>1. PICK l, m : /\ \/ (l = "insert" /\ m = "inserted") \/ (l = "patch" /\ m = "patched")
                       \/ (l = "take" /\ m = "taken") \/ (l = "code" /\ m = "update")
                    /\ LockTasks(l, m)
    BY <1>4 DEF Insert, Patch, Take, Update
  <2>2. halted = "no" /\ UNCHANGED <<queue, halted>>
    BY <2>1 DEF LockTasks, At
  <2>3. Live'
    BY <1>1, <2>1, <2>2, LockTasksLive
  <2> QED
    BY <1>2, <2>2, <2>3
<1>5. CASE Yield \/ Read \/ Access \/ Accessed \/ Updated \/ Patched
  <2>1. halted = "no" /\ UNCHANGED <<queue, halted>>
    BY <1>5 DEF Yield, Read, Access, Accessed, Updated, Patched, At
  <2> QED
    BY <1>1, <1>2, <1>5, <2>1, YieldLive, ReadLive, AccessLive, PatchedLive
<1>6. CASE Exit \/ Demote \/ Mark
  <2>1. halted = "no" /\ UNCHANGED <<queue, halted>>
    BY <1>6 DEF Exit, Demote, Mark, At
  <2> QED
    BY <1>1, <1>2, <1>6, <2>1, ExitLive, DemoteLive, MarkLive
<1>7. CASE Swap \/ ExitCurrent \/ ExitMark
  <2>1. halted = "no" /\ queue' = queue
    BY <1>7 DEF Swap, ExitCurrent, ExitMark, At
  <2>2. Live' /\ halted' = halted
    BY <1>1, <1>7, <2>1, SwapLive, ExitCurrentLive, ExitMarkLive DEF Swap, ExitCurrent
  <2> QED
    BY <1>2, <2>1, <2>2
<1>8. CASE \E kind \in Kinds : Spawn(kind)
  <2>1. PICK kind \in Kinds : Spawn(kind)
    BY <1>8
  <2>2. halted = "no" /\ UNCHANGED <<queue, halted>>
    BY <2>1 DEF Spawn, At
  <2> QED
    BY <1>1, <1>2, <2>1, <2>2, SpawnLive
<1>9. CASE \E p \in jobs : Reap(p) \/ GiveUp(p)
  <2>1. PICK p \in jobs : Reap(p) \/ GiveUp(p)
    BY <1>9
  <2>2. halted = "no" /\ UNCHANGED <<queue, halted>>
    BY <2>1 DEF Reap, GiveUp, At
  <2>3. CASE Reap(p)
    BY <1>1, <1>2, <2>2, <2>3, ReapLive
  <2>4. CASE GiveUp(p)
    <3>1. UNCHANGED <<state, queue, current, nextPid, ctx, cpu, stack>>
      BY <2>4 DEF GiveUp
    <3> QED
      BY <1>1, <1>2, <2>2, <3>1, StayLive
  <2> QED
    BY <2>1, <2>3, <2>4
<1>10. CASE Inserted
  <2>1. halted = "no" /\ UNCHANGED <<queue, halted>>
    BY <1>10 DEF Inserted, At
  <2> QED
    BY <1>1, <1>2, <1>10, <2>1, InsertedLive
<1>11. CASE Popped \/ Pushed \/ SpawnPushed \/ Tick
  <2>1. halted = "no" /\ halted' = halted
    BY <1>11 DEF Popped, Pushed, SpawnPushed, Tick, At
  <2>2. Live' /\ Distinct(queue')
    BY <1>1, <1>11, <2>1, PoppedLive, PushedLive, SpawnPushedLive, TickLive
  <2> QED
    BY <1>1, <2>1, <2>2 DEF Turn, Distinct
<1>12. CASE ExitPopped
  <2>1. halted = "no" /\ halted' \in {"no", "exit"}
    BY <1>12 DEF ExitPopped, At
  <2>2. Distinct(queue') /\ (halted' = "no" => Live')
    BY <1>1, <1>12, <2>1, ExitPoppedLive
  <2> QED
    BY <2>1, <2>2 DEF Turn, Distinct
<1>13. CASE Save \/ Load \/ Trampoline \/ Taken
  <2>1. /\ halted = "no" /\ halted' \in {"no", "wild", "fault", "reap"} /\ queue' = queue
    BY <1>13 DEF Save, Load, Trampoline, Taken, At
  <2>2. halted' = "no" => Live'
    BY <1>1, <1>13, <2>1, SaveLive, LoadLive, TrampolineLive, TakenLive
  <2> QED
    BY <1>1, <2>1, <2>2 DEF Turn
<1>14. CASE UNCHANGED vars
  <2>1. UNCHANGED <<state, queue, current, nextPid, ctx, cpu, stack, halted>>
    BY <1>14 DEF vars
  <2> QED
    BY <1>1, <1>2, <2>1, StayLive
<1> QED
  BY <1>3, <1>4, <1>5, <1>6, <1>7, <1>8, <1>9, <1>10, <1>11, <1>12, <1>13, <1>14
     DEF Next, Kernel, Choice, SwitchStep, ExitStep, SpawnStep, ReapStep

(* Who is to run is settled in every state.                                *)
THEOREM TurnAlways == Spec => []Turn
BY InvInit, InvStep, LiveInit, TurnStep, InvAlways, PTL DEF Spec

(* mod.rs:532-533, 564: what is popped can be run.                         *)
THEOREM QueuedCanRun == Spec => []QueueLive
<1>1. Inv /\ Turn => QueueLive
  <2> SUFFICES ASSUME Inv, Turn PROVE QueueLive
    OBVIOUS
  <2>1. TypeOK /\ queue \in Seq(Pid)
    BY DEF Inv, TypeOK
  <2>2. ASSUME halted = "no", NEW i \in 1 .. Len(queue)
        PROVE  state[queue[i]] = "Runnable"
    <3>1. queue[i] \in Pid /\ Has(queue, queue[i])
      BY <2>1 DEF Has
    <3> QED
      BY <2>2, <3>1 DEF Turn, Live, OnePlace
  <2> QED
    BY <2>1, <2>2 DEF QueueLive, Turn, Distinct
<1> QED
  BY <1>1, InvAlways, TurnAlways, PTL

(* mod.rs:523-531: a Zombie never runs again.                              *)
LEMMA ZombieStep ==
    ASSUME Inv, Turn, [Next]_vars, NEW p \in Pid, state[p] = "Zombie"
    PROVE  state'[p] \in {"Zombie", "none"}
<1>0. state \in [Pid -> {"none", "Runnable", "Running", "Zombie"}]
  BY DEF Inv, TypeOK
<1>1. CASE UNCHANGED state
  BY <1>1
<1>2. CASE Demote
  BY <1>0, <1>2 DEF Demote
<1>3. CASE Mark \/ ExitMark
  <2>1. Top.pc \in {"mark", "emark"} /\ Live
    BY <1>3 DEF Mark, ExitMark, At, Turn
  <2>2. Top.nxt \in Pid /\ state[Top.nxt] = "Runnable"
    BY <2>1, ChosenIn
  <2>3. state' = state \/ state' = [state EXCEPT ![Top.nxt] = "Running"]
    BY <1>3 DEF Mark, ExitMark
  <2> QED
    BY <1>0, <2>2, <2>3
<1>4. CASE Exit
  BY <1>0, <1>4 DEF Exit
<1>5. CASE Inserted
  <2>1. Top.pc = "inserted" /\ state' = [state EXCEPT ![Top.nxt] = "Runnable"]
    BY <1>5 DEF Inserted, At
  <2>2. Top.op = "spawn"
    BY <2>1, OpAt DEF SpawnPcs
  <2>3. Top = stack[Shell][1] /\ Top.nxt \in Pid
    BY <2>1, <2>2, TopIn DEF WellFormed, SpawnPcs
  <2>4. state[Top.nxt] = "none"
    BY <2>1, <2>3 DEF Inv, Unborn, ToCome
  <2> QED
    BY <1>0, <2>1, <2>4
<1>6. CASE Taken
  BY <1>0, <1>6 DEF Taken
<1>7. [Next]_vars => \/ UNCHANGED state
                     \/ Demote \/ Mark \/ ExitMark \/ Exit \/ Inserted \/ Taken
  BY DEF Next, Kernel, Choice, SwitchStep, ExitStep, SpawnStep, ReapStep, vars, Pop, Push,
         ExitPop, SpawnPush, Insert, Patch, Take, Update, LockRq, LockTasks, Yield, Read, Access,
         Accessed, Updated, Patched, Swap, ExitCurrent, Spawn, Reap, GiveUp, Popped, Pushed,
         SpawnPushed, Tick, ExitPopped, Save, Load, Trampoline
<1> QED
  BY <1>1, <1>2, <1>3, <1>4, <1>5, <1>6, <1>7

THEOREM ZombiesStay == Spec => ZombieForGood
<1>1. Inv /\ Turn /\ [Next]_vars
        => [\A p \in Pid : state[p] = "Zombie" => state'[p] \in {"Zombie", "none"}]_vars
  BY ZombieStep
<1> QED
  BY <1>1, InvAlways, TurnAlways, PTL DEF Spec, ZombieForGood
-----------------------------------------------------------------------------
(* Plain tasks, and no tick in the scheduler's own code: the invariant.    *)

Quiet == ~TickInSwitch /\ Kinds \subseteq {"plain"}

BackPcs == {"push", "pushed", "mark", "save", "load"}

(* No task is isolated, and no call of switch_to is interrupted.            *)
Plain ==
    /\ iso = {}
    /\ \A t \in Threads : /\ stack[t][1].pc # "tramp"
                          /\ Len(stack[t]) = 2 => stack[t][1].pc \notin SwitchPcs

(* The thread on the CPU is the current task, or the one being switched     *)
(* away from.                                                               *)
MineAt(a, cur) == IF a.pc \in Chosen THEN a.op # "exit" => a.prv = cpu ELSE cur = cpu

StateAt(a) == IF a.op = "exit" THEN "Zombie"
              ELSE IF a.pc \in BackPcs THEN "Runnable" ELSE "Running"

(* It alone is Running, until the next is marked.                           *)
OneRuns ==
    /\ cpu \in Pid => state[cpu] = StateAt(Top)
    /\ \A p \in Pid : p # cpu /\ state[p] = "Running" => Top.pc \in {"save", "load"} /\ p = Top.nxt
    /\ Top.pc \in {"save", "load"} => state[Top.nxt] = "Running"

(* Every other task that may run has its own stack to come back to.         *)
Saved ==
    /\ \A p \in Pid : ctx[p].owner = p
    /\ \A p \in Pid : state[p] \in {"Runnable", "Running"} /\ (p = cpu => Top.pc = "load")
          => ctx[p].fresh /\ ctx[p].depth = Len(stack[p])

(* kshell never exits, and waits its turn in the queue.                     *)
ShellWaits ==
    /\ state[Shell] \in {"Runnable", "Running"}
    /\ state[Shell] = "Runnable" => Has(queue, Shell) \/ InHand(Top, Shell)

(* A task switched away from is queued before it is saved.                  *)
Requeued == Top.pc \in {"mark", "save", "load"} /\ Top.op # "exit" /\ cpu # Boot => Has(queue, cpu)

(* What it reaps is a Zombie; what it spawns has the last number.           *)
Reaping == stack[Shell][1].pc \in ReapPcs => state[stack[Shell][1].nxt] = "Zombie"
NewPcs  == {"insert", "inserted", "spush", "spushed"}
Newest  == stack[Shell][1].pc \in NewPcs => stack[Shell][1].nxt = nextPid - 1

Calm == /\ halted = "no" /\ Plain /\ MineAt(Top, current) /\ OneRuns /\ Saved
        /\ ShellWaits /\ Requeued /\ Reaping /\ Newest

LEMMA CalmInit == Init => Calm
<1> SUFFICES ASSUME Init PROVE Calm
  OBVIOUS
<1>1. /\ queue = <<Shell>> /\ current = Boot /\ cpu = Boot /\ halted = "no" /\ iso = {}
      /\ \A p \in Pid : state[p] = IF p = Shell THEN "Runnable" ELSE "none"
      /\ \A p \in Pid : ctx[p].depth = 1 /\ ctx[p].owner = p /\ ctx[p].fresh = (p = Shell)
  BY DEF Init
<1>2. \A t \in Threads : /\ stack[t][1].pc \in {"pop", "code"} /\ Len(stack[t]) = 1
  BY DEF Init, Frame, Threads
<1>3. Depth = 1 /\ Top.pc \in {"pop", "code"}
  BY <1>1, <1>2, Consts DEF Depth, Top
<1>4. stack[Shell][1].pc \in {"pop", "code"} /\ Len(stack[Shell]) = 1
  BY <1>2, Consts
<1>5. Plain
  BY <1>1, <1>2 DEF Plain
<1>6. MineAt(Top, current)
  BY <1>1, <1>3 DEF MineAt, Chosen, Unmarked
<1>7. OneRuns
  BY <1>1, <1>3, Consts DEF OneRuns
<1>8. Saved
  BY <1>1, <1>4 DEF Saved
<1>9. ShellWaits
  <2>1. Has(queue, Shell)
    BY <1>1 DEF Has
  <2> QED
    BY <1>1, <2>1, Consts DEF ShellWaits
<1>10. Requeued /\ Reaping /\ Newest
  BY <1>3, <1>4 DEF Requeued, Reaping, Newest, ReapPcs, NewPcs
<1> QED
  BY <1>1, <1>5, <1>6, <1>7, <1>8, <1>9, <1>10 DEF Calm

(* What a step of the activation on the CPU may do to the tasks.            *)
Quietly(a) ==
    /\ a.pc # "tramp" /\ (a.pc = "load" => a.op = "exit")
    /\ MineAt(a, current')
    /\ cpu \in Pid => state'[cpu] = StateAt(a)
    /\ \A p \in Pid : p # cpu =>
          \/ state'[p] = state[p]
          \/ state[p] = "Runnable" /\ state'[p] = "Running" /\ a.pc \in {"save", "load"} /\ p = a.nxt
          \/ state'[p] = "none" /\ state[p] = "Zombie" /\ Top.op = "reap" /\ a.pc \notin ReapPcs
    /\ Top.pc \notin {"save", "load"}
    /\ a.pc \in {"save", "load"} => state'[a.nxt] = "Running"
    /\ state'[Shell] = "Runnable" => Has(queue', Shell) \/ InHand(a, Shell)
    /\ a.pc \in {"mark", "save", "load"} /\ a.op # "exit" /\ cpu # Boot => Has(queue', cpu)
    /\ a.pc \in ReapPcs => state'[a.nxt] = "Zombie"
    /\ a.pc \in NewPcs => a.nxt = nextPid' - 1
    /\ nextPid' = nextPid \/ (cpu = Shell /\ Depth = 1)
    /\ (cpu = Shell) => a.op # "exit"
    /\ Top.op = "exit" => a.op = "exit"

LEMMA EditPlain ==
    ASSUME Inv, Plain, NEW a \in Activation, SetTop(a), UNCHANGED <<cpu, iso>>, a.pc # "tramp"
    PROVE  Plain'
<1>1. /\ \A t \in Threads : Len(stack'[t]) = Len(stack[t])
      /\ \A t \in Threads : t # cpu => stack'[t] = stack[t]
      /\ \A d \in 1 .. 2 : d # Depth => stack'[cpu][d] = stack[cpu][d]
      /\ stack'[cpu][Depth] = a
  BY Edited
<1>2. cpu \in Threads /\ Depth \in 1 .. 2 /\ Depth = Len(stack[cpu])
  BY TopIn DEF Depth
<1>3. ASSUME NEW t \in Threads
      PROVE  stack'[t][1].pc # "tramp" /\ (Len(stack'[t]) = 2 => stack'[t][1].pc \notin SwitchPcs)
  <2>1. CASE t # cpu
    <3>1. stack'[t] = stack[t]
      BY <1>1, <2>1
    <3>2. stack[t][1].pc # "tramp" /\ (Len(stack[t]) = 2 => stack[t][1].pc \notin SwitchPcs)
      BY DEF Plain
    <3> QED
      BY <3>1, <3>2
  <2>2. CASE t = cpu /\ Depth = 1
    <3>1. stack'[t][1] = a
      BY <1>1, <2>2
    <3>2. Len(stack'[t]) = 1
      BY <1>1, <1>2, <2>2
    <3> QED
      BY <3>1, <3>2
  <2>3. CASE t = cpu /\ Depth = 2
    BY <1>1, <1>2, <2>3 DEF Plain
  <2> QED
    BY <1>2, <2>1, <2>2, <2>3
<1> QED
  BY <1>3 DEF Plain

LEMMA EditCalm ==
    ASSUME Inv, Calm, NEW a \in Activation, SetTop(a), UNCHANGED <<cpu, ctx, iso, halted>>,
           Quietly(a)
    PROVE  Calm'
<1>1. /\ \A t \in Threads : Len(stack'[t]) = Len(stack[t])
      /\ \A t \in Threads : t # cpu => stack'[t] = stack[t]
      /\ \A d \in 1 .. 2 : d # Depth => stack'[cpu][d] = stack[cpu][d]
      /\ stack'[cpu][Depth] = a /\ Depth' = Depth /\ Top' = a
  BY Edited
<1>2. /\ cpu \in Threads /\ Depth \in 1 .. 2 /\ Depth = Len(stack[cpu])
      /\ Top = stack[cpu][Depth] /\ (Top.op = "reap" => cpu = Shell /\ Depth = 1)
  BY TopIn DEF Depth, Top
<1>3. Plain'
  BY EditPlain DEF Quietly, Calm
<1>4. MineAt(Top, current)'
  BY <1>1 DEF Quietly, MineAt
<1>5. OneRuns'
  <2>1. \A p \in Pid : p # cpu /\ state'[p] = "Running" => a.pc \in {"save", "load"} /\ p = a.nxt
    BY DEF Quietly, Calm, OneRuns
  <2>2. cpu \in Pid => state'[cpu] = StateAt(Top')
    BY <1>1 DEF Quietly
  <2> QED
    BY <1>1, <2>1, <2>2 DEF Quietly, OneRuns, StateAt
<1>6. Saved'
  <2>1. ASSUME NEW p \in Pid, state'[p] \in {"Runnable", "Running"}, p = cpu => a.pc = "load"
        PROVE  ctx[p].fresh /\ ctx[p].depth = Len(stack'[p])
    <3>1. p # cpu
      BY <2>1 DEF Quietly, StateAt
    <3>2. state[p] \in {"Runnable", "Running"}
      BY <2>1, <3>1 DEF Quietly
    <3>3. Len(stack'[p]) = Len(stack[p])
      BY <1>1, Consts
    <3> QED
      BY <3>1, <3>2, <3>3 DEF Calm, Saved
  <2> QED
    BY <1>1, <2>1 DEF Calm, Saved
<1>7. ShellWaits'
  <2>1. state'[Shell] \in {"Runnable", "Running"}
    BY Consts DEF Quietly, StateAt, Calm, ShellWaits
  <2> QED
    BY <1>1, <2>1 DEF Quietly, ShellWaits, Has
<1>8. Requeued'
  BY <1>1 DEF Quietly, Requeued, Has
<1>9. Reaping'
  <2>1. CASE cpu = Shell /\ Depth = 1
    BY <1>1, <2>1 DEF Quietly, Reaping
  <2>2. CASE ~(cpu = Shell /\ Depth = 1)
    <3>1. stack'[Shell][1] = stack[Shell][1]
      BY <1>1, <1>2, <2>2, Consts
    <3>2. ASSUME stack[Shell][1].pc \in ReapPcs
          PROVE  state'[stack[Shell][1].nxt] = "Zombie"
      <4> DEFINE p == stack[Shell][1].nxt
      <4>1. state[p] = "Zombie"
        BY <3>2 DEF Calm, Reaping
      <4>2. p \in Pid
        BY <3>2, Consts DEF Inv, Framed, WellFormed
      <4>3. CASE p # cpu
        BY <1>2, <2>2, <4>1, <4>2, <4>3 DEF Quietly
      <4>4. CASE p = cpu
        BY <4>1, <4>2, <4>4 DEF Quietly, Calm, OneRuns, StateAt
      <4> QED
        BY <4>3, <4>4
    <3> QED
      BY <3>1, <3>2 DEF Reaping
  <2> QED
    BY <2>1, <2>2
<1>10. Newest'
  <2>1. CASE cpu = Shell /\ Depth = 1
    BY <1>1, <2>1 DEF Quietly, Newest
  <2>2. CASE ~(cpu = Shell /\ Depth = 1)
    <3>1. stack'[Shell][1] = stack[Shell][1]
      BY <1>1, <1>2, <2>2, Consts
    <3>2. nextPid' = nextPid
      BY <2>2 DEF Quietly
    <3> QED
      BY <3>1, <3>2 DEF Calm, Newest
  <2> QED
    BY <2>1, <2>2
<1> QED
  BY <1>3, <1>4, <1>5, <1>6, <1>7, <1>8, <1>9, <1>10 DEF Calm

(* Steps that leave the tasks and the queue alone.                         *)
LEMMA PlainCalm ==
    ASSUME Inv, Calm, NEW a \in Activation, SetTop(a),
           UNCHANGED <<cpu, ctx, iso, halted, state, queue, current>>,
           a.pc \notin Chosen \cup NewPcs \cup {"tramp"}, Top.pc \notin Chosen,
           a.op = "exit" <=> Top.op = "exit",
           \A p \in Pid : InHand(Top, p) => InHand(a, p),
           nextPid' = nextPid,
           a.pc \in ReapPcs => state[a.nxt] = "Zombie"
    PROVE  Calm'
<1>1. /\ a.pc \notin BackPcs /\ Top.pc \notin BackPcs
      /\ a.pc \notin {"mark", "save", "load"} /\ Top.pc \notin {"save", "load"}
  BY DEF BackPcs, Chosen, Unmarked
<1>2. MineAt(a, current')
  BY DEF MineAt, Calm
<1>3. cpu \in Pid => state'[cpu] = StateAt(a)
  BY <1>1 DEF Calm, OneRuns, StateAt
<1>4. state'[Shell] = "Runnable" => Has(queue', Shell) \/ InHand(a, Shell)
  BY Consts DEF Calm, ShellWaits
<1>5. cpu = Shell => a.op # "exit"
  <2>1. CASE cpu = Shell /\ Top.op = "exit"
    BY <2>1, Consts DEF Calm, OneRuns, StateAt, ShellWaits
  <2> QED
    BY <2>1
<1>6. Quietly(a)
  BY <1>1, <1>2, <1>3, <1>4, <1>5 DEF Quietly
<1> QED
  BY <1>6, EditCalm

LEMMA LockRqCalm ==
    ASSUME Inv, Calm, NEW l, NEW m,
           \/ (l = "pop" /\ m = "popped") \/ (l = "epop" /\ m = "epopped"),
           LockRq(l, m)
    PROVE  Calm'
<1> DEFINE a == [Top EXCEPT !.pc = m]
<1>1. /\ Top.pc = l /\ SetTop(a)
      /\ UNCHANGED <<state, queue, current, ctx, cpu, nextPid, iso, halted>>
  BY DEF LockRq, At, Goto, shell
<1>2. a \in Activation /\ a.op = Top.op /\ a.pc = m
  BY GotoIn DEF Pcs, SwitchPcs
<1> HIDE DEF a
<1>3. \A p \in Pid : ~InHand(Top, p)
  BY <1>1 DEF InHand, Unmarked
<1>4. /\ a.pc \notin Chosen \cup NewPcs \cup {"tramp"} /\ Top.pc \notin Chosen /\ a.pc \notin ReapPcs
  BY <1>1, <1>2 DEF Chosen, Unmarked, NewPcs, ReapPcs
<1> QED
  BY <1>1, <1>2, <1>3, <1>4, PlainCalm

(* Steps that go on with the same tasks in hand.                           *)
LEMMA SameCalm ==
    ASSUME Inv, Calm, NEW l, NEW m, Top.pc = l, SetTop([Top EXCEPT !.pc = m]),
           UNCHANGED <<cpu, ctx, iso, halted, state, queue, current, nextPid>>,
           \/ l = "read" /\ m = "demote"
           \/ l = "push" /\ m = "pushed"
           \/ l = "insert" /\ m = "inserted"
           \/ l = "spush" /\ m = "spushed"
           \/ l = "take" /\ m = "taken"
    PROVE  Calm'
<1> DEFINE a == [Top EXCEPT !.pc = m]
<1>1. a \in Activation /\ a.op = Top.op /\ a.pc = m /\ a.nxt = Top.nxt /\ a.prv = Top.prv
  BY GotoIn DEF Pcs, SwitchPcs, SpawnPcs, ReapPcs
<1>2. SetTop(a)
  OBVIOUS
<1> HIDE DEF a
<1>3. MineAt(a, current')
  BY <1>1 DEF MineAt, Calm, Chosen, Unmarked
<1>4. cpu \in Pid => state'[cpu] = StateAt(a)
  BY <1>1 DEF Calm, OneRuns, StateAt, BackPcs
<1>5. state'[Shell] = "Runnable" => Has(queue', Shell) \/ InHand(a, Shell)
  BY <1>1 DEF Calm, ShellWaits, InHand, Unmarked
<1>6. cpu = Shell => a.op # "exit"
  BY <1>1, OpAt DEF SpawnPcs, ReapPcs
<1>7. Top.op \in {"spawn", "reap"} => cpu = Shell /\ Top = stack[Shell][1]
  BY TopIn
<1>8. (a.pc \in ReapPcs => state'[a.nxt] = "Zombie") /\ (a.pc \in NewPcs => a.nxt = nextPid' - 1)
  BY <1>1, <1>7, OpAt DEF Calm, Reaping, Newest, ReapPcs, NewPcs, SpawnPcs
<1>9. Quietly(a)
  BY <1>1, <1>3, <1>4, <1>5, <1>6, <1>8 DEF Quietly
<1> QED
  BY <1>1, <1>2, <1>9, EditCalm

LEMMA CodeIn ==
    ASSUME Inv, Top.pc \in CodePcs
    PROVE  /\ Top.op = "code" /\ Depth = 1 /\ Top.pc \notin Chosen
           /\ \A p : ~InHand(Top, p)
BY OpAt, TopIn DEF CodePcs, Chosen, Unmarked, InHand

LEMMA CodeOps ==
    /\ Frame("code", "code", 0).op = "code"
    /\ Frame("yield", "pop", 0).op = "yield"
    /\ Frame("exit", "epop", 0).op = "exit"
BY DEF Frame

LEMMA YieldCalm == ASSUME Inv, Calm, Yield PROVE Calm'
<1>1. /\ Top.pc = "code" /\ SetTop(Frame("yield", "pop", 0))
      /\ UNCHANGED <<state, queue, current, ctx, cpu, nextPid, iso, halted>>
  BY DEF Yield, At
<1>2. "pop" \notin Chosen \cup NewPcs \cup {"tramp"} /\ "pop" \notin ReapPcs /\ "code" \in CodePcs
  BY DEF Chosen, Unmarked, NewPcs, ReapPcs, CodePcs
<1> QED
  BY <1>1, <1>2, CodeFrame, CodeOps, CodeIn, PlainCalm

LEMMA AccessCalm ==
    ASSUME Inv, Calm, Access \/ Accessed \/ Updated \/ Update
    PROVE  Calm'
<1>1. PICK m \in {"access", "code", "update"} :
         /\ Top.pc \in CodePcs /\ SetTop([Top EXCEPT !.pc = m])
         /\ UNCHANGED <<state, queue, current, ctx, cpu, nextPid, iso, halted>>
  BY DEF Access, Accessed, Updated, Update, LockTasks, At, Goto, shell, CodePcs
<1> DEFINE a == [Top EXCEPT !.pc = m]
<1>2. a \in Activation /\ a.op = Top.op /\ a.pc = m
  BY GotoIn DEF Pcs, CodePcs
<1>3. SetTop(a)
  BY <1>1
<1> HIDE DEF a
<1>4. a.pc \notin Chosen \cup NewPcs \cup {"tramp"} /\ a.pc \notin ReapPcs
  BY <1>2 DEF Chosen, Unmarked, NewPcs, ReapPcs
<1> QED
  BY <1>1, <1>2, <1>3, <1>4, CodeIn, PlainCalm

LEMMA ReapCalm == ASSUME Inv, Calm, NEW p \in jobs, Reap(p) PROVE Calm'
<1> DEFINE a == Frame("reap", "take", p)
<1>1. /\ Top.pc = "code" /\ SetTop(a) /\ state[p] = "Zombie"
      /\ UNCHANGED <<state, queue, current, ctx, cpu, nextPid, iso, halted>>
  BY DEF Reap, At, shell, Calm, Plain
<1>2. a \in Activation /\ a.pc = "take" /\ a.nxt = p /\ a.op = "reap"
  <2>1. p \in Threads
    BY Consts DEF Inv, TypeOK
  <2>2. "reap" \in Ops /\ "take" \in Pcs
    BY DEF Ops, Pcs, ReapPcs
  <2> QED
    BY <2>1, <2>2, FrameIn
<1> HIDE DEF a
<1>3. a.pc \notin Chosen \cup NewPcs \cup {"tramp"} /\ Top.pc \in CodePcs
  BY <1>1, <1>2 DEF Chosen, Unmarked, NewPcs, CodePcs
<1> QED
  BY <1>1, <1>2, <1>3, CodeIn, PlainCalm

LEMMA SpawnCalm == ASSUME Inv, Calm, Quiet, NEW kind \in Kinds, Spawn(kind) PROVE Calm'
<1> DEFINE a == Frame("spawn", "insert", nextPid)
<1>1. /\ Top.pc = "code" /\ SetTop(a) /\ nextPid' = nextPid + 1 /\ cpu = Shell /\ iso' = iso
      /\ UNCHANGED <<state, queue, current, ctx, cpu, halted>>
  BY DEF Spawn, At, Quiet
<1>2. nextPid \in Pid /\ nextPid \in Threads /\ nextPid \in Int
  <2>1. nextPid \in 2 .. MaxPid + 1 /\ nextPid <= MaxPid /\ MaxPid \in Nat
    BY SchedulerAssumption DEF Spawn, Inv, TypeOK
  <2> QED
    BY <2>1 DEF Pid, Threads
<1>3. a \in Activation /\ a.pc = "insert" /\ a.nxt = nextPid /\ a.op = "spawn"
  <2>1. "insert" \in Pcs /\ "spawn" \in Ops
    BY DEF Pcs, SpawnPcs, Ops
  <2> QED
    BY <1>2, <2>1, FrameIn
<1> HIDE DEF a
<1>4. Top.op = "code" /\ Depth = 1 /\ Top.pc \notin Chosen /\ \A p : ~InHand(Top, p)
  BY <1>1, CodeIn DEF CodePcs
<1>5. MineAt(a, current')
  BY <1>1, <1>3, <1>4 DEF MineAt, Calm, Chosen, Unmarked
<1>6. cpu \in Pid => state'[cpu] = StateAt(a)
  BY <1>1, <1>3, <1>4 DEF Calm, OneRuns, StateAt, BackPcs
<1>7. state'[Shell] = "Runnable" => Has(queue', Shell) \/ InHand(a, Shell)
  BY <1>1, <1>4 DEF Calm, ShellWaits
<1>8. a.nxt = nextPid' - 1
  BY <1>1, <1>2, <1>3
<1>9. Quietly(a)
  BY <1>1, <1>3, <1>4, <1>5, <1>6, <1>7, <1>8 DEF Quietly, ReapPcs
<1> QED
  BY <1>1, <1>3, <1>9, EditCalm

(* kshell itself is never the task that exits.                             *)
LEMMA ShellStays ==
    ASSUME Inv, Calm, Top.op = "exit"
    PROVE  cpu # Shell /\ cpu # Boot /\ cpu \in Pid /\ Depth = 1
<1>1. cpu # Boot /\ Depth = 1 /\ cpu \in Threads
  BY TopIn
<1>2. cpu \in Pid
  BY <1>1 DEF Threads, Pid, Boot
<1> QED
  BY <1>1, <1>2 DEF Calm, OneRuns, StateAt, ShellWaits

LEMMA ExitCalm == ASSUME Inv, Calm, Exit PROVE Calm'
<1> DEFINE a == Frame("exit", "epop", 0)
<1>1. /\ Top.pc = "code" /\ SetTop(a) /\ cpu \notin {Boot, Shell}
      /\ state' = [state EXCEPT ![current] = IF @ = "none" THEN @ ELSE "Zombie"]
      /\ UNCHANGED <<queue, current, ctx, cpu, nextPid, iso, halted>>
  BY DEF Exit, At, shell
<1>2. a \in Activation /\ a.pc = "epop" /\ a.op = "exit"
  BY CodeFrame, CodeOps
<1> HIDE DEF a
<1>3. Top.op = "code" /\ Depth = 1 /\ Top.pc \notin Chosen /\ \A p : ~InHand(Top, p)
  BY <1>1, CodeIn DEF CodePcs
<1>4. current = cpu /\ cpu \in Pid
  <2>1. cpu \in Threads
    BY TopIn
  <2> QED
    BY <1>1, <1>3, <2>1 DEF Calm, MineAt, Threads, Pid, Boot
<1>5. state[cpu] = "Running"
  BY <1>1, <1>3, <1>4 DEF Calm, OneRuns, StateAt, BackPcs
<1>6. state'[cpu] = "Zombie" /\ \A p \in Pid : p # cpu => state'[p] = state[p]
  BY <1>1, <1>4, <1>5 DEF Inv, TypeOK
<1>7. MineAt(a, current')
  BY <1>1, <1>2, <1>4 DEF MineAt
<1>8. state'[Shell] = "Runnable" => Has(queue', Shell) \/ InHand(a, Shell)
  BY <1>1, <1>3, <1>6, Consts DEF Calm, ShellWaits
<1>9. Quietly(a)
  BY <1>1, <1>2, <1>3, <1>6, <1>7, <1>8 DEF Quietly, ReapPcs, NewPcs, StateAt
<1> QED
  BY <1>1, <1>2, <1>9, EditCalm

(* kshell stays in the queue, unless it is popped.                         *)
LEMMA HasTail ==
    ASSUME NEW q \in Seq(Pid), q # << >>, NEW p, Has(q, p)
    PROVE  Has(Tail(q), p) \/ Head(q) = p
<1>1. PICK i \in 1 .. Len(q) : q[i] = p
  BY DEF Has
<1>2. CASE i = 1
  BY <1>1, <1>2
<1>3. CASE i # 1
  <2>1. i - 1 \in 1 .. Len(Tail(q)) /\ Tail(q)[i - 1] = q[i]
    BY <1>3
  <2> QED
    BY <1>1, <2>1 DEF Has
<1> QED
  BY <1>2, <1>3

LEMMA HasAppend ==
    ASSUME NEW q \in Seq(Pid), NEW x \in Pid
    PROVE  Has(Append(q, x), x) /\ \A p : Has(q, p) => Has(Append(q, x), p)
<1> DEFINE r == Append(q, x)
<1>1. /\ Len(r) = Len(q) + 1 /\ Len(q) \in Nat /\ r[Len(q) + 1] = x
      /\ \A i \in 1 .. Len(q) : r[i] = q[i] /\ i \in 1 .. Len(r)
  OBVIOUS
<1>2. Len(q) + 1 \in 1 .. Len(r)
  BY <1>1
<1> HIDE DEF r
<1>3. Has(r, x) /\ \A p : Has(q, p) => Has(r, p)
  BY <1>1, <1>2 DEF Has
<1> QED
  BY <1>3 DEF r

LEMMA HeadIn == ASSUME Inv, queue # << >> PROVE Head(queue) \in Pid /\ Head(queue) \in Threads
<1>1. Head(queue) \in Pid
  BY DEF Inv, TypeOK
<1> QED
  BY <1>1, Consts

LEMMA PopCalm ==
    ASSUME Inv, Calm, queue # << >>, NEW a \in Activation, SetTop(a),
           Top.pc \in {"popped", "epopped"}, a.pc \in {"swap", "ecur"}, a.op = Top.op,
           a.nxt = Head(queue), queue' = Tail(queue),
           UNCHANGED <<cpu, ctx, current, nextPid, state, iso, halted>>
    PROVE  Calm'
<1>1. /\ \A p : ~InHand(Top, p)
      /\ \A p : p = Head(queue) => InHand(a, p)
      /\ Top.pc \notin Chosen /\ a.pc \notin Chosen
      /\ Top.pc \notin BackPcs /\ a.pc \notin BackPcs
  BY DEF InHand, Unmarked, Chosen, BackPcs
<1>2. MineAt(a, current')
  BY <1>1 DEF MineAt, Calm
<1>3. cpu \in Pid => state'[cpu] = StateAt(a)
  BY <1>1 DEF Calm, OneRuns, StateAt
<1>4. state'[Shell] = "Runnable" => Has(queue', Shell) \/ InHand(a, Shell)
  <2>1. state[Shell] = "Runnable" => Has(queue, Shell)
    BY <1>1 DEF Calm, ShellWaits
  <2>2. queue \in Seq(Pid)
    BY DEF Inv, TypeOK
  <2> QED
    BY <1>1, <2>1, <2>2, HasTail
<1>5. cpu = Shell => a.op # "exit"
  BY ShellStays
<1>6. Quietly(a)
  BY <1>1, <1>2, <1>3, <1>4, <1>5 DEF Quietly, ReapPcs, NewPcs, BackPcs
<1> QED
  BY <1>6, EditCalm

LEMMA PoppedCalm == ASSUME Inv, Calm, Popped PROVE Calm'
<1>1. Top.pc = "popped" /\ UNCHANGED <<state, current, ctx, cpu, nextPid, iso, halted>>
  BY DEF Popped, At, shell
<1>2. Top.op \in {"boot", "yield"} /\ Depth = 1
  BY <1>1, OpAt, TopIn
<1>3. CASE queue = << >>
  <2>1. Return /\ queue' = queue
    BY <1>3 DEF Popped
  <2>2. Top.op = "yield"
    BY <1>1, <1>2, <1>3, TopIn DEF Inv, AtBoot
  <2>3. SetTop(Frame("code", "code", 0))
    BY <2>1, <2>2, ReturnTop
  <2>4. /\ "code" \notin Chosen \cup NewPcs \cup {"tramp"} /\ "code" \notin ReapPcs
        /\ Top.pc \notin Chosen /\ \A p : ~InHand(Top, p)
    BY <1>1 DEF Chosen, Unmarked, NewPcs, ReapPcs, InHand
  <2> QED
    BY <1>1, <2>1, <2>2, <2>3, <2>4, CodeFrame, CodeOps, PlainCalm
<1>4. CASE queue # << >>
  <2> DEFINE a == Frame(Top.op, "swap", Head(queue))
  <2>1. SetTop(a) /\ queue' = Tail(queue)
    BY <1>4 DEF Popped
  <2>2. Head(queue) \in Threads
    BY <1>4, HeadIn
  <2>3. a \in Activation /\ a.pc = "swap" /\ a.nxt = Head(queue) /\ a.op = Top.op
    BY <1>2, <2>2, FrameIn DEF Ops, Pcs, SwitchPcs
  <2> HIDE DEF a
  <2> QED
    BY <1>1, <1>4, <2>1, <2>3, PopCalm
<1> QED
  BY <1>3, <1>4

(* Something is left to run: kshell, at least.                             *)
LEMMA ExitPoppedCalm == ASSUME Inv, Calm, ExitPopped PROVE Calm'
<1>1. Top.pc = "epopped" /\ UNCHANGED <<state, current, ctx, cpu, nextPid, iso>>
  BY DEF ExitPopped, At, shell
<1>2. Top.op = "exit" /\ cpu # Shell
  BY <1>1, OpAt, ShellStays
<1>3. queue # << >>
  <2>1. ~InHand(Top, Shell) /\ Top.pc \notin {"save", "load"}
    BY <1>1 DEF InHand, Unmarked
  <2>2. state[Shell] = "Runnable"
    BY <1>2, <2>1, Consts DEF Calm, OneRuns, ShellWaits
  <2>3. Has(queue, Shell)
    BY <2>1, <2>2 DEF Calm, ShellWaits
  <2> QED
    BY <2>3 DEF Has
<1> DEFINE a == Frame("exit", "ecur", Head(queue))
<1>4. SetTop(a) /\ queue' = Tail(queue) /\ halted' = halted
  BY <1>3 DEF ExitPopped
<1>5. Head(queue) \in Threads
  BY <1>3, HeadIn
<1>6. a \in Activation /\ a.pc = "ecur" /\ a.nxt = Head(queue) /\ a.op = "exit"
  <2>1. "exit" \in Ops /\ "ecur" \in Pcs
    BY DEF Ops, Pcs, SwitchPcs
  <2> QED
    BY <1>5, <2>1, FrameIn
<1> HIDE DEF a
<1> QED
  BY <1>1, <1>2, <1>3, <1>4, <1>6, PopCalm

LEMMA PushedCalm == ASSUME Inv, Live, Calm, Pushed PROVE Calm'
<1> DEFINE a == [Top EXCEPT !.pc = "mark"]
<1>1. /\ Top.pc = "pushed" /\ SetTop(a) /\ queue' = Append(queue, Top.prv)
      /\ UNCHANGED <<state, current, ctx, cpu, nextPid, iso, halted>>
  BY DEF Pushed, At, Goto, shell
<1>2. a \in Activation /\ a.op = Top.op /\ a.pc = "mark" /\ a.nxt = Top.nxt /\ a.prv = Top.prv
  BY GotoIn DEF Pcs, SwitchPcs
<1> HIDE DEF a
<1>3. Top.op # "exit" /\ Top.prv \in Pid /\ queue \in Seq(Pid)
  BY <1>1, OpAt, TopIn DEF WellFormed, Inv, TypeOK
<1>4. MineAt(a, current')
  BY <1>1, <1>2 DEF MineAt, Calm, Chosen, Unmarked
<1>5. cpu \in Pid => state'[cpu] = StateAt(a)
  BY <1>1, <1>2, <1>3 DEF Calm, OneRuns, StateAt, BackPcs
<1>6. state'[Shell] = "Runnable" => Has(queue', Shell) \/ InHand(a, Shell)
  <2>1. Has(queue', Top.prv) /\ \A p : Has(queue, p) => Has(queue', p)
    BY <1>1, <1>3, HasAppend
  <2>2. InHand(Top, Shell) => InHand(a, Shell) \/ Shell = Top.prv
    BY <1>1, <1>2 DEF InHand, Unmarked
  <2> QED
    BY <1>1, <2>1, <2>2 DEF Calm, ShellWaits
<1>7. Has(queue', cpu)
  <2>1. Top.prv = cpu
    BY <1>1, <1>3 DEF Calm, MineAt, Chosen, Unmarked
  <2> QED
    BY <1>1, <1>3, <2>1, HasAppend
<1>8. Quietly(a)
  BY <1>1, <1>2, <1>3, <1>4, <1>5, <1>6, <1>7 DEF Quietly, ReapPcs, NewPcs
<1> QED
  BY <1>1, <1>2, <1>8, EditCalm

LEMMA SpawnPushedCalm == ASSUME Inv, Calm, SpawnPushed PROVE Calm'
<1> DEFINE a == Frame("code", "code", 0)
<1>1. /\ Top.pc = "spushed" /\ SetTop(a) /\ queue' = Append(queue, Top.nxt)
      /\ UNCHANGED <<state, current, ctx, cpu, nextPid, iso, halted>>
  BY DEF SpawnPushed, At, Calm, Plain
<1>2. a \in Activation /\ a.op = "code" /\ a.pc = "code"
  BY CodeFrame, CodeOps
<1> HIDE DEF a
<1>3. Top.op = "spawn" /\ Top.nxt \in Pid /\ queue \in Seq(Pid)
  BY <1>1, OpAt, TopIn DEF WellFormed, SpawnPcs, Inv, TypeOK
<1>4. MineAt(a, current')
  BY <1>1, <1>2 DEF MineAt, Calm, Chosen, Unmarked
<1>5. cpu \in Pid => state'[cpu] = StateAt(a)
  BY <1>1, <1>2, <1>3 DEF Calm, OneRuns, StateAt, BackPcs
<1>6. state'[Shell] = "Runnable" => Has(queue', Shell) \/ InHand(a, Shell)
  <2>1. Has(queue', Top.nxt) /\ \A p : Has(queue, p) => Has(queue', p)
    BY <1>1, <1>3, HasAppend
  <2>2. InHand(Top, Shell) => Shell = Top.nxt
    BY <1>1 DEF InHand, Unmarked
  <2> QED
    BY <1>1, <2>1, <2>2 DEF Calm, ShellWaits
<1>7. Quietly(a)
  BY <1>1, <1>2, <1>3, <1>4, <1>5, <1>6 DEF Quietly, ReapPcs, NewPcs
<1> QED
  BY <1>1, <1>2, <1>7, EditCalm

LEMMA DemoteCalm == ASSUME Inv, Live, Calm, Demote PROVE Calm'
<1>1. /\ Top.pc = "demote" /\ UNCHANGED <<queue, current, ctx, cpu, nextPid, iso, halted>>
  BY DEF Demote, At, shell
<1>2. Top.op # "exit" /\ Top.prv = cpu /\ Top \in Activation /\ cpu \in Threads
  BY <1>1, OpAt, TopIn DEF Calm, MineAt, Chosen, Unmarked
<1>3. CASE cpu # Boot
  <2> DEFINE a == [Top EXCEPT !.pc = "push"]
  <2>1. cpu \in Pid
    BY <1>2, <1>3 DEF Threads, Pid, Boot
  <2>2. state[cpu] = "Running"
    BY <1>1, <1>2, <2>1 DEF Calm, OneRuns, StateAt, BackPcs
  <2>3. SetTop(a) /\ state' = [state EXCEPT ![cpu] = "Runnable"]
    BY <1>2, <1>3, <2>2 DEF Demote, Goto
  <2>4. a \in Activation /\ a.op = Top.op /\ a.pc = "push" /\ a.nxt = Top.nxt /\ a.prv = cpu
    BY <1>2, GotoIn DEF Pcs, SwitchPcs
  <2> HIDE DEF a
  <2>5. state'[cpu] = "Runnable" /\ \A p \in Pid : p # cpu => state'[p] = state[p]
    BY <2>1, <2>3 DEF Inv, TypeOK
  <2>6. MineAt(a, current')
    BY <2>4 DEF MineAt, Chosen, Unmarked
  <2>7. state'[cpu] = StateAt(a)
    BY <1>2, <2>4, <2>5 DEF StateAt, BackPcs
  <2>8. state'[Shell] = "Runnable" => Has(queue', Shell) \/ InHand(a, Shell)
    <3>1. CASE Shell = cpu
      BY <2>4, <3>1 DEF InHand
    <3>2. CASE Shell # cpu
      <4>1. InHand(Top, Shell) => InHand(a, Shell)
        BY <1>1, <2>4 DEF InHand, Unmarked
      <4> QED
        BY <1>1, <2>5, <3>2, <4>1, Consts DEF Calm, ShellWaits
    <3> QED
      BY <3>1, <3>2
  <2>9. Quietly(a)
    BY <1>1, <1>2, <2>4, <2>5, <2>6, <2>7, <2>8 DEF Quietly, ReapPcs, NewPcs
  <2> QED
    BY <1>1, <2>3, <2>4, <2>9, EditCalm
<1>4. CASE cpu = Boot
  <2> DEFINE a == [Top EXCEPT !.pc = "mark", !.prv = Boot]
  <2>1. SetTop(a) /\ state' = state
    BY <1>2, <1>4 DEF Demote
  <2>2. a \in Activation /\ a.op = Top.op /\ a.pc = "mark" /\ a.nxt = Top.nxt /\ a.prv = cpu
    BY <1>2, <1>4, Consts DEF Activation, Pcs, SwitchPcs, Threads
  <2> HIDE DEF a
  <2>3. MineAt(a, current')
    BY <2>2 DEF MineAt, Chosen, Unmarked
  <2>4. cpu \notin Pid
    BY <1>4, Consts
  <2>5. state'[Shell] = "Runnable" => Has(queue', Shell) \/ InHand(a, Shell)
    BY <1>1, <2>1, <2>2 DEF Calm, ShellWaits, InHand, Unmarked
  <2>6. Quietly(a)
    BY <1>1, <1>2, <1>4, <2>1, <2>2, <2>3, <2>4, <2>5 DEF Quietly, ReapPcs, NewPcs
  <2> QED
    BY <1>1, <2>1, <2>2, <2>6, EditCalm
<1> QED
  BY <1>3, <1>4

(* The next task is marked Running.                                        *)
LEMMA MarkedCalm ==
    ASSUME Inv, Live, Calm, NEW a \in Activation, SetTop(a),
           \/ Top.pc = "mark" /\ a.pc = "save" /\ Top.op # "exit"
           \/ Top.pc = "emark" /\ a.pc = "load" /\ Top.op = "exit",
           a.op = Top.op, a.nxt = Top.nxt, a.prv = Top.prv,
           state' = [state EXCEPT ![Top.nxt] = "Running"],
           UNCHANGED <<cpu, ctx, current, nextPid, queue, iso, halted>>
    PROVE  Calm'
<1>1. Top.nxt \in Pid /\ state[Top.nxt] = "Runnable" /\ Top.pc \in Chosen
  BY ChosenIn DEF Chosen, Unmarked
<1>2. state'[Top.nxt] = "Running" /\ \A p \in Pid : p # Top.nxt => state'[p] = state[p]
  BY <1>1 DEF Inv, TypeOK
<1>3. Top.nxt # cpu
  <2>1. CASE Top.pc = "emark"
    <3>1. Top.op = "exit"
      BY <2>1
    <3> QED
      BY <1>1, <3>1 DEF Calm, OneRuns, StateAt
  <2>2. CASE Top.pc = "mark"
    BY <1>1, <2>2 DEF Calm, MineAt, Live, CurrentMeans
  <2> QED
    BY <2>1, <2>2
<1>4. MineAt(a, current')
  BY <1>1 DEF MineAt, Calm, Chosen
<1>5. cpu \in Pid => state'[cpu] = StateAt(a)
  BY <1>2, <1>3 DEF Calm, OneRuns, StateAt, BackPcs
<1>6. state'[Shell] = "Runnable" => Has(queue', Shell) \/ InHand(a, Shell)
  <2>1. CASE Shell = Top.nxt
    BY <1>2, <2>1
  <2>2. CASE Shell # Top.nxt
    <3>1. state'[Shell] = state[Shell] /\ ~InHand(Top, Shell)
      BY <1>2, <2>2, Consts DEF InHand
    <3> QED
      BY <3>1 DEF Calm, ShellWaits
  <2> QED
    BY <2>1, <2>2
<1>7. cpu = Shell => a.op # "exit"
  BY ShellStays
<1>8. a.op # "exit" /\ cpu # Boot => Has(queue', cpu)
  BY DEF Calm, Requeued
<1>9. Quietly(a)
  BY <1>1, <1>2, <1>3, <1>4, <1>5, <1>6, <1>7, <1>8 DEF Quietly, ReapPcs, NewPcs
<1> QED
  BY <1>9, EditCalm

LEMMA MarkCalm == ASSUME Inv, Live, Calm, Mark PROVE Calm'
<1> DEFINE a == [Top EXCEPT !.pc = "save"]
<1>1. Top.pc = "mark" /\ UNCHANGED <<queue, current, ctx, cpu, nextPid, iso, halted>>
  BY DEF Mark, At, shell
<1>2. state[Top.nxt] # "none" /\ Top.op # "exit"
  BY <1>1, ChosenIn, OpAt
<1>3. SetTop(a) /\ state' = [state EXCEPT ![Top.nxt] = "Running"]
  BY <1>2 DEF Mark, Goto
<1>4. a \in Activation /\ a.op = Top.op /\ a.pc = "save" /\ a.nxt = Top.nxt /\ a.prv = Top.prv
  BY GotoIn DEF Pcs, SwitchPcs
<1> HIDE DEF a
<1> QED
  BY <1>1, <1>2, <1>3, <1>4, MarkedCalm

LEMMA ExitMarkCalm == ASSUME Inv, Live, Calm, ExitMark PROVE Calm'
<1> DEFINE a == [Top EXCEPT !.pc = "load"]
<1>1. Top.pc = "emark" /\ UNCHANGED <<queue, current, ctx, cpu, nextPid, iso>>
  BY DEF ExitMark, At, shell
<1>2. state[Top.nxt] # "none" /\ Top.op = "exit"
  BY <1>1, ChosenIn, OpAt
<1>3. SetTop(a) /\ state' = [state EXCEPT ![Top.nxt] = "Running"] /\ halted' = halted
  BY <1>2 DEF ExitMark, Goto
<1>4. a \in Activation /\ a.op = Top.op /\ a.pc = "load" /\ a.nxt = Top.nxt /\ a.prv = Top.prv
  BY GotoIn DEF Pcs, SwitchPcs
<1> HIDE DEF a
<1> QED
  BY <1>1, <1>2, <1>3, <1>4, MarkedCalm

(* The task popped becomes the current one.                                *)
LEMMA ChooseCalm ==
    ASSUME Inv, Live, Calm, NEW a \in Activation, SetTop(a),
           a.op = Top.op, a.nxt = Top.nxt,
           \/ Top.pc = "swap" /\ a.pc = "read" /\ a.prv = current /\ a.op # "exit"
           \/ Top.pc = "ecur" /\ a.pc = "emark" /\ a.op = "exit",
           UNCHANGED <<cpu, ctx, state, queue, nextPid, iso, halted>>
    PROVE  Calm'
<1>1. Top.pc \notin Chosen /\ a.pc \in Chosen /\ a.pc \notin BackPcs /\ Top.pc \notin BackPcs
  BY DEF Chosen, Unmarked, BackPcs
<1>2. MineAt(a, current')
  BY <1>1 DEF MineAt, Calm
<1>3. cpu \in Pid => state'[cpu] = StateAt(a)
  BY <1>1 DEF Calm, OneRuns, StateAt
<1>4. state'[Shell] = "Runnable" => Has(queue', Shell) \/ InHand(a, Shell)
  <2>1. InHand(Top, Shell) => InHand(a, Shell)
    BY DEF InHand, Unmarked
  <2> QED
    BY <2>1 DEF Calm, ShellWaits
<1>5. cpu = Shell => a.op # "exit"
  BY ShellStays
<1>6. Quietly(a)
  BY <1>1, <1>2, <1>3, <1>4, <1>5 DEF Quietly, ReapPcs, NewPcs, BackPcs
<1> QED
  BY <1>6, EditCalm

LEMMA SwapCalm == ASSUME Inv, Live, Calm, Swap PROVE Calm'
<1>1. /\ Top.pc = "swap" /\ current' = Top.nxt
      /\ UNCHANGED <<state, queue, ctx, cpu, nextPid, iso, halted>>
  BY DEF Swap, At, shell
<1>2. current # Top.nxt /\ Top.op # "exit"
  BY <1>1, NotItself, OpAt
<1> DEFINE a == [Top EXCEPT !.pc = "read", !.prv = current]
<1>3. SetTop(a)
  BY <1>2 DEF Swap
<1>4. a \in Activation /\ a.pc = "read" /\ a.nxt = Top.nxt /\ a.prv = current /\ a.op = Top.op
  BY TopIn DEF Activation, Pcs, SwitchPcs, Inv, TypeOK
<1> HIDE DEF a
<1> QED
  BY <1>1, <1>2, <1>3, <1>4, ChooseCalm

LEMMA ExitCurrentCalm == ASSUME Inv, Live, Calm, ExitCurrent PROVE Calm'
<1> DEFINE a == [Top EXCEPT !.pc = "emark"]
<1>1. /\ Top.pc = "ecur" /\ SetTop(a)
      /\ UNCHANGED <<state, queue, ctx, cpu, nextPid, iso, halted>>
  BY DEF ExitCurrent, At, Goto, shell
<1>2. a \in Activation /\ a.op = Top.op /\ a.pc = "emark" /\ a.nxt = Top.nxt
  BY GotoIn DEF Pcs, SwitchPcs
<1>3. Top.op = "exit"
  BY <1>1, OpAt
<1> HIDE DEF a
<1> QED
  BY <1>1, <1>2, <1>3, ChooseCalm

(* The locks on the way.                                                   *)
LEMMA LocksCalm ==
    ASSUME Inv, Calm, Read \/ Push \/ Insert \/ SpawnPush \/ Take
    PROVE  Calm'
<1>1. PICK l, m : /\ Top.pc = l /\ SetTop([Top EXCEPT !.pc = m])
                  /\ \/ l = "read" /\ m = "demote"
                     \/ l = "push" /\ m = "pushed"
                     \/ l = "insert" /\ m = "inserted"
                     \/ l = "spush" /\ m = "spushed"
                     \/ l = "take" /\ m = "taken"
                  /\ UNCHANGED <<cpu, ctx, iso, halted, state, queue, current, nextPid>>
  <2>1. CASE Read
    BY <2>1 DEF Read, At, Goto, shell
  <2>2. CASE Push
    BY <2>2 DEF Push, LockRq, At, Goto, shell
  <2>3. CASE SpawnPush
    BY <2>3 DEF SpawnPush, LockRq, At, Goto, shell
  <2>4. CASE Insert
    BY <2>4 DEF Insert, LockTasks, At, Goto, shell
  <2>5. CASE Take
    BY <2>5 DEF Take, LockTasks, At, Goto, shell
  <2> QED
    BY <2>1, <2>2, <2>3, <2>4, <2>5
<1> QED
  BY <1>1, SameCalm

(* What kshell reaps has exited.                                           *)
LEMMA TakenCalm == ASSUME Inv, Calm, Taken PROVE Calm'
<1> DEFINE a == Frame("code", "code", 0)
           n == Top.nxt
<1>1. /\ Top.pc = "taken" /\ state' = [state EXCEPT ![n] = "none"]
      /\ UNCHANGED <<queue, current, ctx, cpu, nextPid, iso>>
  BY DEF Taken, At, shell
<1>2. Top.op = "reap" /\ cpu = Shell /\ Top = stack[Shell][1] /\ n \in Pid
  BY <1>1, OpAt, TopIn DEF WellFormed, ReapPcs
<1>3. state[n] = "Zombie"
  BY <1>1, <1>2 DEF Calm, Reaping, ReapPcs
<1>4. SetTop(a) /\ halted' = halted
  BY <1>3 DEF Taken
<1>5. a \in Activation /\ a.op = "code" /\ a.pc = "code"
  BY CodeFrame, CodeOps
<1>6. state'[n] = "none" /\ \A p \in Pid : p # n => state'[p] = state[p]
  BY <1>1, <1>2 DEF Inv, TypeOK
<1> HIDE DEF a, n
<1>7. n # Shell
  BY <1>3 DEF Calm, ShellWaits
<1>8. MineAt(a, current')
  BY <1>1, <1>5 DEF MineAt, Calm, Chosen, Unmarked
<1>9. state'[Shell] = StateAt(a) /\ state[Shell] = state'[Shell]
  BY <1>1, <1>2, <1>5, <1>6, <1>7, Consts DEF Calm, OneRuns, StateAt, BackPcs
<1>10. state'[Shell] # "Runnable"
  BY <1>5, <1>9 DEF StateAt, BackPcs
<1>11. a.pc \notin ReapPcs /\ a.pc \notin NewPcs /\ a.pc \notin {"save", "load", "tramp"}
  BY <1>5 DEF ReapPcs, NewPcs
<1>12. \A p \in Pid : state'[p] = state[p] \/ (state'[p] = "none" /\ state[p] = "Zombie")
  BY <1>3, <1>6
<1>13. Quietly(a)
  BY <1>1, <1>2, <1>5, <1>8, <1>9, <1>10, <1>11, <1>12 DEF Quietly
<1> QED
  BY <1>1, <1>4, <1>5, <1>13, EditCalm

(* The thread on the CPU is saved as the task it is.                       *)
LEMMA SaveCalm == ASSUME Inv, Calm, Save PROVE Calm'
<1> DEFINE a == [Top EXCEPT !.pc = "load"]
           c == [owner |-> cpu, depth |-> Depth, fresh |-> TRUE]
<1>1. Top.pc = "save" /\ UNCHANGED <<state, queue, current, cpu, nextPid, iso>>
  BY DEF Save, At, shell
<1>2. Top.op # "exit" /\ Top.prv = cpu /\ cpu \in Threads
  BY <1>1, OpAt, TopIn DEF Calm, MineAt, Chosen, Unmarked
<1>3. cpu # Boot => cpu \in Pid /\ state[cpu] = "Runnable"
  <2>1. cpu # Boot => cpu \in Pid
    BY <1>2 DEF Threads, Pid, Boot
  <2> QED
    BY <1>1, <1>2, <2>1 DEF Calm, OneRuns, StateAt, BackPcs
<1>4. SetTop(a) /\ ctx' = (IF cpu = Boot THEN ctx ELSE [ctx EXCEPT ![cpu] = c]) /\ halted' = halted
  BY <1>2, <1>3 DEF Save, Goto
<1>5. a \in Activation /\ a.op = Top.op /\ a.pc = "load" /\ a.nxt = Top.nxt /\ a.prv = Top.prv
  BY GotoIn DEF Pcs, SwitchPcs
<1>6. c.owner = cpu /\ c.depth = Depth /\ c.fresh
  OBVIOUS
<1> HIDE DEF a, c
<1>7. /\ \A t \in Threads : Len(stack'[t]) = Len(stack[t])
      /\ \A t \in Threads : t # cpu => stack'[t] = stack[t]
      /\ \A d \in 1 .. 2 : d # Depth => stack'[cpu][d] = stack[cpu][d]
      /\ stack'[cpu][Depth] = a /\ Depth' = Depth /\ Top' = a
  BY <1>1, <1>4, <1>5, Edited
<1>8. Plain'
  BY <1>1, <1>4, <1>5, EditPlain DEF Calm
<1>9. MineAt(Top, current)'
  BY <1>1, <1>2, <1>5, <1>7 DEF MineAt, Chosen
<1>10. OneRuns'
  BY <1>1, <1>5, <1>7 DEF Calm, OneRuns, StateAt, BackPcs
<1>11. Saved'
  <2>1. ASSUME NEW p \in Pid, state[p] \in {"Runnable", "Running"}, p # cpu
        PROVE  ctx'[p] = ctx[p] /\ ctx[p].fresh /\ ctx[p].depth = Len(stack'[p])
    <3>1. ctx'[p] = ctx[p]
      BY <1>4, <2>1 DEF Inv, TypeOK
    <3>2. Len(stack'[p]) = Len(stack[p])
      BY <1>7, Consts
    <3> QED
      BY <2>1, <3>1, <3>2 DEF Calm, Saved
  <2>2. ASSUME cpu \in Pid
        PROVE  ctx'[cpu].fresh /\ ctx'[cpu].depth = Len(stack'[cpu]) /\ ctx'[cpu].owner = cpu
    <3>1. ctx'[cpu] = c
      BY <1>4, <2>2, Consts DEF Inv, TypeOK
    <3>2. Len(stack'[cpu]) = Depth
      BY <1>2, <1>7 DEF Depth
    <3> QED
      BY <1>6, <3>1, <3>2
  <2>3. \A p \in Pid : ctx'[p].owner = p
    <3>1. \A p \in Pid : p # cpu => ctx'[p] = ctx[p]
      BY <1>4 DEF Inv, TypeOK
    <3> QED
      BY <2>2, <3>1 DEF Calm, Saved
  <2> QED
    BY <1>1, <2>1, <2>2, <2>3 DEF Saved
<1>12. ShellWaits'
  <2>1. ~InHand(Top, Shell)
    BY <1>1 DEF InHand, Unmarked
  <2> QED
    BY <1>1, <2>1 DEF Calm, ShellWaits, Has
<1>13. Requeued'
  BY <1>1, <1>5, <1>7 DEF Calm, Requeued, Has
<1>14. Reaping' /\ Newest'
  <2>1. Depth \in 1 .. 2
    BY TopIn
  <2>2. stack'[Shell][1] = stack[Shell][1] \/ stack'[Shell][1] = a
    BY <1>7, <2>1, Consts
  <2>3. a.pc \notin ReapPcs /\ a.pc \notin NewPcs
    BY <1>5 DEF ReapPcs, NewPcs
  <2>4. CASE stack'[Shell][1] = a
    BY <2>3, <2>4 DEF Reaping, Newest
  <2>5. CASE stack'[Shell][1] = stack[Shell][1]
    BY <1>1, <2>5 DEF Calm, Reaping, Newest
  <2> QED
    BY <2>2, <2>4, <2>5
<1> QED
  BY <1>4, <1>8, <1>9, <1>10, <1>11, <1>12, <1>13, <1>14 DEF Calm

(* The next task goes on where it was saved: at the end of its own stack.  *)
LEMMA Loaded ==
    ASSUME Inv, Live, Calm, Load
    PROVE  LET n == Top.nxt IN
           /\ Top.pc = "load" /\ UNCHANGED <<state, queue, current, nextPid, iso, halted>>
           /\ n \in Pid /\ n # cpu /\ current = n /\ state[n] = "Running" /\ cpu' = n
           /\ \A t \in Threads : t # n => stack'[t] = stack[t]
           /\ Len(stack'[n]) = 1 /\ Depth' = 1 /\ Top' = stack'[n][1]
           /\ \/ stack'[n][1] = stack[n][1]
              \/ stack'[n][1].pc = "code" /\ stack[n][1].pc = "load"
           /\ Top'.pc \notin SwitchPcs /\ Top'.op # "exit" /\ Top'.pc # "tramp"
           /\ \A p \in Pid : ctx'[p].owner = p /\ (p # n => ctx'[p] = ctx[p])
<1> DEFINE n == Top.nxt
           d == ctx[n].depth
           r == Back(SubSeq(stack[n], 1, d))
<1>1. Top.pc = "load" /\ UNCHANGED <<state, queue, current, nextPid, iso>>
  BY DEF Load, At, shell
<1>2. n \in Pid /\ n \in Threads /\ current = n /\ state[n] = "Running"
  BY <1>1, TopIn, Consts DEF WellFormed, TurnPcs, Live, CurrentMeans, Chosen, Calm, OneRuns
<1>3. (cpu \in Pid => state[cpu] # "Running") /\ n # cpu
  BY <1>1, <1>2 DEF Calm, OneRuns, StateAt, BackPcs
<1>4. ctx[n].owner = n /\ ctx[n].fresh /\ d = Len(stack[n])
  BY <1>2, <1>3 DEF Calm, Saved
<1>5. /\ cpu' = n /\ stack' = [stack EXCEPT ![n] = r] /\ halted' = halted
      /\ ctx' = [p \in Pid |-> IF ctx[p].owner = n /\ ctx[p].depth >= d
                               THEN [ctx[p] EXCEPT !.fresh = FALSE] ELSE ctx[p]]
  BY <1>2, <1>4 DEF Load
<1>6. /\ d \in 1 .. Len(stack[n]) /\ Len(r) = 1
      /\ \/ r[1] = stack[n][1] /\ (d = 1 => r[1].op = "code" /\ Len(stack[n]) = 1)
         \/ r[1] = Frame("code", "code", 0) /\ d = 1 /\ stack[n][1].pc = "load"
  <2>1. state[n] # "none"
    BY <1>2
  <2> QED
    BY <1>2, <1>4, <2>1, Resumed
<1> HIDE DEF n, d, r
<1>7. Len(stack[n]) \in 1 .. 2
  BY <1>2 DEF Inv, TypeOK, Threads
<1>8. stack'[n] = r /\ \A t \in Threads : t # n => stack'[t] = stack[t]
  BY <1>2, <1>5 DEF Inv, TypeOK, Threads
<1>9. Depth' = 1 /\ Top' = r[1]
  BY <1>5, <1>6, <1>8 DEF Depth, Top
<1>10. r[1].pc \notin SwitchPcs /\ r[1].op # "exit" /\ r[1].pc # "tramp"
  <2>1. CASE r[1] = Frame("code", "code", 0)
    BY <2>1, CodeFrame, CodeOps DEF SwitchPcs
  <2>2. CASE r[1] = stack[n][1]
    <3>1. WellFormed(stack[n][1]) /\ stack[n][1].pc # "tramp"
      BY <1>2 DEF Inv, Framed, Calm, Plain
    <3>2. Len(stack[n]) = 2 => stack[n][1].pc \notin SwitchPcs
      BY <1>2 DEF Calm, Plain
    <3>3. d = 1 => stack[n][1].op = "code" /\ stack[n][1].pc \in CodePcs
      BY <1>6, <2>2, <3>1, CodeOps DEF WellFormed
    <3>4. stack[n][1].op = "exit" => stack[n][1].pc \in SwitchPcs
      BY <3>1 DEF WellFormed, SwitchPcs
    <3>5. \A l \in CodePcs : l \notin SwitchPcs
      BY DEF CodePcs, SwitchPcs
    <3> QED
      BY <1>4, <1>7, <2>2, <3>1, <3>2, <3>3, <3>4, <3>5
  <2> QED
    BY <1>6, <2>1, <2>2
<1>11. r[1] = stack[n][1] \/ (r[1].pc = "code" /\ stack[n][1].pc = "load")
  BY <1>6, CodeFrame
<1>12. ASSUME NEW p \in Pid
       PROVE  ctx'[p].owner = p /\ (p # n => ctx'[p] = ctx[p])
  <2>1. ctx[p].owner = p /\ ctx[p] \in [owner : Pid, depth : 1 .. 2, fresh : BOOLEAN]
    BY DEF Calm, Saved, Inv, TypeOK
  <2>2. CASE p # n
    BY <1>5, <2>1, <2>2
  <2>3. CASE p = n
    <3>1. ctx'[p] = ctx[p] \/ ctx'[p] = [ctx[p] EXCEPT !.fresh = FALSE]
      BY <1>5
    <3> QED
      BY <2>1, <2>3, <3>1
  <2> QED
    BY <2>2, <2>3
<1> QED
  BY <1>1, <1>2, <1>3, <1>5, <1>6, <1>8, <1>9, <1>10, <1>11, <1>12 DEF n

LEMMA LoadCalm == ASSUME Inv, Live, Calm, Load PROVE Calm'
<1> DEFINE n == Top.nxt
           b == stack'[n][1]
<1>1. /\ Top.pc = "load" /\ UNCHANGED <<state, queue, current, nextPid, iso, halted>>
      /\ n \in Pid /\ n # cpu /\ current = n /\ state[n] = "Running" /\ cpu' = n
      /\ \A t \in Threads : t # n => stack'[t] = stack[t]
      /\ Len(stack'[n]) = 1 /\ Depth' = 1 /\ Top' = b
      /\ b = stack[n][1] \/ (b.pc = "code" /\ stack[n][1].pc = "load")
      /\ b.pc \notin SwitchPcs /\ b.op # "exit" /\ b.pc # "tramp"
      /\ \A p \in Pid : ctx'[p].owner = p /\ (p # n => ctx'[p] = ctx[p])
  BY Loaded
<1>2. \A p \in Pid : p # n => state[p] # "Running"
  BY <1>1 DEF Calm, OneRuns, StateAt, BackPcs
<1> HIDE DEF n
<1>3. b.pc \notin Chosen /\ b.pc \notin BackPcs /\ b.pc \notin {"save", "load"}
  BY <1>1 DEF Chosen, Unmarked, BackPcs, SwitchPcs
<1>4. Plain'
  <2>1. ASSUME NEW t \in Threads
        PROVE  stack'[t][1].pc # "tramp" /\ (Len(stack'[t]) = 2 => stack'[t][1].pc \notin SwitchPcs)
    <3>1. CASE t = n
      BY <1>1, <3>1
    <3>2. CASE t # n
      <4>1. stack'[t] = stack[t]
        BY <1>1, <3>2
      <4> QED
        BY <4>1 DEF Calm, Plain
    <3> QED
      BY <3>1, <3>2
  <2> QED
    BY <1>1, <2>1 DEF Calm, Plain
<1>5. MineAt(Top, current)'
  BY <1>1, <1>3 DEF MineAt
<1>6. OneRuns'
  <2>1. state[n] = StateAt(b)
    BY <1>1, <1>3 DEF StateAt
  <2> QED
    BY <1>1, <1>2, <1>3, <2>1 DEF OneRuns, StateAt
<1>7. Saved'
  <2>1. ASSUME NEW p \in Pid, state[p] \in {"Runnable", "Running"}, p # n
        PROVE  ctx'[p].fresh /\ ctx'[p].depth = Len(stack'[p])
    <3>1. ctx'[p] = ctx[p] /\ stack'[p] = stack[p]
      BY <1>1, <2>1, Consts
    <3> QED
      BY <1>1, <2>1, <3>1 DEF Calm, Saved
  <2> QED
    BY <1>1, <1>3, <2>1 DEF Saved
<1>8. ShellWaits'
  <2>1. ~InHand(Top, Shell)
    BY <1>1 DEF InHand, Unmarked
  <2> QED
    BY <1>1, <2>1 DEF Calm, ShellWaits, Has
<1>9. Requeued'
  BY <1>1 DEF Requeued, SwitchPcs
<1>10. Reaping' /\ Newest'
  <2>1. stack'[Shell][1] = stack[Shell][1] \/ stack'[Shell][1].pc = "code"
    BY <1>1, Consts
  <2>2. "code" \notin ReapPcs /\ "code" \notin NewPcs
    BY DEF ReapPcs, NewPcs
  <2>3. CASE stack'[Shell][1].pc = "code"
    BY <2>2, <2>3 DEF Reaping, Newest
  <2>4. CASE stack'[Shell][1] = stack[Shell][1]
    BY <1>1, <2>4 DEF Calm, Reaping, Newest
  <2> QED
    BY <2>1, <2>3, <2>4
<1> QED
  BY <1>1, <1>4, <1>5, <1>6, <1>7, <1>8, <1>9, <1>10 DEF Calm

LEMMA InsertedCalm == ASSUME Inv, Calm, Inserted PROVE Calm'
<1> DEFINE p == Top.nxt
           b == [Top EXCEPT !.pc = "spush"]
           f == Frame("code", "code", 0)
           c == [owner |-> p, depth |-> 1, fresh |-> TRUE]
           q == [stack[cpu] EXCEPT ![Depth] = b]
<1>1. /\ Top.pc = "inserted"
      /\ state' = [state EXCEPT ![p] = "Runnable"] /\ ctx' = [ctx EXCEPT ![p] = c]
      /\ UNCHANGED <<queue, current, cpu, nextPid, iso, halted>>
  BY DEF Inserted, At, shell
<1>2. stack' = [[stack EXCEPT ![cpu] = q] EXCEPT ![p] = <<f>>]
  BY DEF Inserted, Top, Calm, Plain
<1>3. b.op = Top.op /\ b.pc = "spush" /\ b.nxt = p /\ f.pc = "code"
  BY GotoIn, CodeFrame DEF Pcs, SpawnPcs
<1>4. c.owner = p /\ c.depth = 1 /\ c.fresh
  OBVIOUS
<1> HIDE DEF p, b, f, c, q
<1>5. Top.op = "spawn"
  BY <1>1, OpAt DEF SpawnPcs
<1>6. /\ cpu = Shell /\ p \in Pid /\ p \in Threads /\ cpu \in Threads
      /\ Depth = 1 /\ Len(stack[cpu]) = 1 /\ stack[cpu] \in Seq(Activation)
      /\ Top = stack[Shell][1]
  <2>1. Depth \in 1 .. 2 /\ Depth # 2
    BY <1>5, TopIn
  <2>2. p \in Pid
    BY <1>1, <1>5, TopIn DEF WellFormed, SpawnPcs, p
  <2> QED
    BY <1>5, <2>1, <2>2, TopIn, Consts DEF Depth
<1>7. p # Shell /\ state[p] = "none"
  BY <1>1, <1>6 DEF Inv, Unborn, ToCome, p
<1>8. Len(q) = 1 /\ q[1] = b
  BY <1>6 DEF q
<1>9. /\ stack'[cpu] = q /\ stack'[p] = <<f>>
      /\ \A t \in Threads : t # cpu /\ t # p => stack'[t] = stack[t]
  BY <1>2, <1>6, <1>7 DEF Inv, TypeOK, Threads
<1>10. /\ Len(stack'[p]) = 1 /\ stack'[p][1] = f /\ Len(stack'[cpu]) = 1 /\ stack'[cpu][1] = b
       /\ Top' = b
  <2>1. Len(stack'[p]) = 1 /\ stack'[p][1] = f /\ Len(stack'[cpu]) = 1 /\ stack'[cpu][1] = b
    BY <1>8, <1>9
  <2> QED
    BY <1>1, <2>1 DEF Top, Depth
<1>11. /\ ctx'[p] = c /\ \A r \in Pid : r # p => ctx'[r] = ctx[r]
       /\ state'[p] = "Runnable" /\ \A r \in Pid : r # p => state'[r] = state[r]
  BY <1>1, <1>6 DEF Inv, TypeOK
<1>12. Plain'
  <2>1. ASSUME NEW t \in Threads
        PROVE  stack'[t][1].pc # "tramp" /\ (Len(stack'[t]) = 2 => stack'[t][1].pc \notin SwitchPcs)
    <3>1. CASE t = p \/ t = cpu
      BY <1>3, <1>10, <3>1
    <3>2. CASE t # p /\ t # cpu
      <4>1. stack'[t] = stack[t]
        BY <1>9, <3>2
      <4> QED
        BY <4>1 DEF Calm, Plain
    <3> QED
      BY <3>1, <3>2
  <2> QED
    BY <1>1, <2>1 DEF Calm, Plain
<1>13. MineAt(Top, current)'
  BY <1>1, <1>3, <1>10 DEF Calm, MineAt, Chosen, Unmarked
<1>14. state[Shell] = "Running" /\ state'[Shell] = "Running"
  <2>1. state[Shell] = "Running"
    BY <1>1, <1>5, <1>6, Consts DEF Calm, OneRuns, StateAt, BackPcs
  <2> QED
    BY <1>7, <1>11, <2>1, Consts
<1>15. OneRuns'
  <2>1. \A r \in Pid : r # Shell => state'[r] # "Running"
    BY <1>1, <1>6, <1>11 DEF Calm, OneRuns
  <2>2. StateAt(b) = "Running" /\ b.pc \notin {"save", "load"}
    BY <1>3, <1>5 DEF StateAt, BackPcs
  <2> QED
    BY <1>1, <1>6, <1>10, <1>14, <2>1, <2>2 DEF OneRuns, StateAt
<1>16. Saved'
  <2>1. \A r \in Pid : ctx'[r].owner = r
    BY <1>4, <1>11 DEF Calm, Saved
  <2>2. ASSUME NEW r \in Pid, state'[r] \in {"Runnable", "Running"}, r # Shell
        PROVE  ctx'[r].fresh /\ ctx'[r].depth = Len(stack'[r])
    <3>1. CASE r = p
      BY <1>4, <1>10, <1>11, <3>1
    <3>2. CASE r # p
      <4>1. ctx'[r] = ctx[r] /\ state[r] = state'[r] /\ stack'[r] = stack[r]
        BY <1>6, <1>9, <1>11, <2>2, <3>2, Consts
      <4> QED
        BY <1>6, <2>2, <4>1 DEF Calm, Saved
    <3> QED
      BY <3>1, <3>2
  <2> QED
    BY <1>1, <1>3, <1>6, <1>10, <2>1, <2>2 DEF Saved
<1>17. ShellWaits' /\ Requeued'
  BY <1>3, <1>10, <1>14 DEF ShellWaits, Requeued
<1>18. Reaping' /\ Newest'
  <2>1. p = nextPid - 1
    BY <1>1, <1>6 DEF Calm, Newest, NewPcs, p
  <2> QED
    BY <1>1, <1>3, <1>6, <1>10, <2>1 DEF Reaping, Newest, ReapPcs
<1> QED
  BY <1>1, <1>12, <1>13, <1>15, <1>16, <1>17, <1>18 DEF Calm

(* A tick falls in a task's own code, or in spawn or reap.                 *)
LEMMA TickCalm == ASSUME Inv, Calm, Quiet, Tick PROVE Calm'
<1> DEFINE f == Frame("isr", "swap", Head(queue))
           s == Append(stack[cpu], f)
<1>1. /\ queue # << >> /\ queue' = Tail(queue) /\ stack' = [stack EXCEPT ![cpu] = s] /\ irq
      /\ Top.pc \notin SwitchPcs
      /\ UNCHANGED <<state, current, ctx, cpu, nextPid, iso, halted>>
  BY DEF Tick, shell, Quiet
<1>2. queue \in Seq(Pid)
  BY DEF Inv, TypeOK
<1>3. f \in Activation /\ f.op = "isr" /\ f.pc = "swap" /\ f.nxt = Head(queue)
  <2>1. "isr" \in Ops /\ "swap" \in Pcs /\ Head(queue) \in Threads
    BY <1>1, HeadIn DEF Ops, Pcs, SwitchPcs
  <2> QED
    BY <2>1, FrameIn
<1> HIDE DEF f
<1>4. cpu \in Threads /\ Len(stack[cpu]) = 1 /\ stack[cpu] \in Seq(Activation) /\ Depth = 1
  BY <1>1, TopIn DEF Inv, IrqMeans, Depth
<1>5. s \in Seq(Activation) /\ Len(s) = 2 /\ s[1] = stack[cpu][1] /\ s[2] = f
  BY <1>3, <1>4, SecondOf
<1> HIDE DEF s
<1>6. stack'[cpu] = s /\ \A t \in Threads : t # cpu => stack'[t] = stack[t]
  BY <1>1, <1>4 DEF Inv, TypeOK, Threads
<1>7. Depth' = 2 /\ Top' = f /\ Top = stack[cpu][1]
  BY <1>1, <1>4, <1>5, <1>6 DEF Depth, Top
<1>8. /\ Top.pc \notin Chosen /\ Top.pc \notin BackPcs /\ Top.pc \notin {"save", "load"}
      /\ Top.op # "exit" /\ Top.pc # "tramp"
  <2>1. WellFormed(Top)
    BY TopIn
  <2>2. Top.op # "exit"
    BY <1>1, <2>1 DEF WellFormed, SwitchPcs
  <2> QED
    BY <1>1, <1>4, <1>7, <2>2 DEF Chosen, Unmarked, BackPcs, SwitchPcs, Calm, Plain
<1>9. Plain'
  <2>1. ASSUME NEW t \in Threads
        PROVE  stack'[t][1].pc # "tramp" /\ (Len(stack'[t]) = 2 => stack'[t][1].pc \notin SwitchPcs)
    <3>1. CASE t = cpu
      BY <1>1, <1>5, <1>6, <1>7, <1>8, <3>1
    <3>2. CASE t # cpu
      <4>1. stack'[t] = stack[t]
        BY <1>6, <3>2
      <4> QED
        BY <4>1 DEF Calm, Plain
    <3> QED
      BY <3>1, <3>2
  <2> QED
    BY <1>1, <2>1 DEF Calm, Plain
<1>10. MineAt(Top, current)'
  BY <1>1, <1>3, <1>7, <1>8 DEF Calm, MineAt, Chosen, Unmarked
<1>11. cpu \in Pid => state[cpu] = "Running"
  BY <1>8 DEF Calm, OneRuns, StateAt
<1>12. OneRuns'
  <2>1. StateAt(f) = "Running" /\ f.pc \notin {"save", "load"}
    BY <1>3 DEF StateAt, BackPcs
  <2> QED
    BY <1>1, <1>7, <1>8, <1>11, <2>1 DEF Calm, OneRuns, StateAt
<1>13. Saved'
  <2>1. ASSUME NEW p \in Pid, state[p] \in {"Runnable", "Running"}, p # cpu
        PROVE  ctx[p].fresh /\ ctx[p].depth = Len(stack'[p])
    BY <1>6, <2>1, Consts DEF Calm, Saved
  <2>2. f.pc # "load"
    BY <1>3
  <2> QED
    BY <1>1, <1>7, <2>1, <2>2 DEF Calm, Saved
<1>14. ShellWaits'
  <2>1. state[Shell] = "Runnable" => Has(queue, Shell)
    <3>1. InHand(Top, Shell) => cpu = Shell
      <4>1. InHand(Top, Shell) => Top.pc \in SpawnPcs
        BY <1>1 DEF InHand, Unmarked, SwitchPcs, SpawnPcs
      <4> QED
        BY <4>1, OpAt, TopIn
    <3> QED
      BY <1>11, <3>1, Consts DEF Calm, ShellWaits
  <2>2. Has(queue, Shell) => Has(queue', Shell) \/ InHand(f, Shell)
    BY <1>1, <1>2, <1>3, HasTail DEF InHand
  <2> QED
    BY <1>1, <1>7, <2>1, <2>2 DEF Calm, ShellWaits, Has
<1>15. Requeued'
  BY <1>3, <1>7 DEF Requeued
<1>16. Reaping' /\ Newest'
  <2>1. stack'[Shell][1] = stack[Shell][1]
    BY <1>5, <1>6, Consts
  <2> QED
    BY <1>1, <2>1 DEF Calm, Reaping, Newest
<1> QED
  BY <1>1, <1>9, <1>10, <1>12, <1>13, <1>14, <1>15, <1>16 DEF Calm

LEMMA StayCalm ==
    ASSUME Calm, UNCHANGED <<state, queue, current, nextPid, ctx, cpu, stack, iso, halted>>
    PROVE  Calm'
BY DEF Calm, Plain, MineAt, OneRuns, Saved, ShellWaits, Requeued, Reaping, Newest, Has, Top, Depth, StateAt

(* No task is isolated: nothing to patch, and no trampoline.               *)
LEMMA NeverIsolated ==
    ASSUME Inv, Calm
    PROVE  ~Patch /\ ~Patched /\ ~Trampoline
<1>1. ASSUME Top.pc \in {"patch", "patched"} PROVE FALSE
  <2>1. Top = stack[Shell][1]
    BY <1>1, OpAt, TopIn DEF SpawnPcs
  <2> QED
    BY <1>1, <2>1 DEF Inv, Framed, Calm, Plain
<1>2. ASSUME Top.pc = "tramp" PROVE FALSE
  <2>1. Top = stack[cpu][1] /\ cpu \in Threads
    BY <1>2, OpAt, TopIn DEF CodePcs
  <2> QED
    BY <1>2, <2>1 DEF Calm, Plain
<1> QED
  BY <1>1, <1>2 DEF Patch, Patched, Trampoline, LockTasks, At

LEMMA CalmStep == ASSUME Quiet PROVE Inv /\ Turn /\ Calm /\ [Next]_vars => Calm'
<1> SUFFICES ASSUME Inv, Turn, Calm, [Next]_vars PROVE Calm'
  OBVIOUS
<1>1. Live
  BY DEF Turn, Calm
<1>2. CASE Pop \/ ExitPop
  <2>1. PICK l, m : /\ (l = "pop" /\ m = "popped") \/ (l = "epop" /\ m = "epopped")
                    /\ LockRq(l, m)
    BY <1>2 DEF Pop, ExitPop
  <2> QED
    BY <2>1, LockRqCalm
<1>3. CASE Read \/ Push \/ Insert \/ SpawnPush \/ Take
  BY <1>3, LocksCalm
<1>4. CASE Popped \/ Pushed \/ ExitPopped \/ SpawnPushed
  BY <1>1, <1>4, PoppedCalm, PushedCalm, ExitPoppedCalm, SpawnPushedCalm
<1>5. CASE Swap \/ Demote \/ Mark \/ Save \/ Load
  BY <1>1, <1>5, SwapCalm, DemoteCalm, MarkCalm, SaveCalm, LoadCalm
<1>6. CASE Exit \/ ExitCurrent \/ ExitMark
  BY <1>1, <1>6, ExitCalm, ExitCurrentCalm, ExitMarkCalm
<1>7. CASE Inserted \/ Taken \/ Tick
  BY <1>7, InsertedCalm, TakenCalm, TickCalm
<1>8. CASE Yield \/ Access \/ Accessed \/ Update \/ Updated
  BY <1>8, YieldCalm, AccessCalm
<1>9. CASE \E kind \in Kinds : Spawn(kind)
  BY <1>9, SpawnCalm
<1>10. CASE \E p \in jobs : Reap(p) \/ GiveUp(p)
  <2>1. PICK p \in jobs : Reap(p) \/ GiveUp(p)
    BY <1>10
  <2>2. CASE Reap(p)
    BY <2>2, ReapCalm
  <2>3. CASE GiveUp(p)
    <3>1. UNCHANGED <<state, queue, current, nextPid, ctx, cpu, stack, iso, halted>>
      BY <2>3 DEF GiveUp
    <3> QED
      BY <3>1, StayCalm
  <2> QED
    BY <2>1, <2>2, <2>3
<1>11. CASE Patch \/ Patched \/ Trampoline
  BY <1>11, NeverIsolated
<1>12. CASE UNCHANGED vars
  <2>1. UNCHANGED <<state, queue, current, nextPid, ctx, cpu, stack, iso, halted>>
    BY <1>12 DEF vars
  <2> QED
    BY <2>1, StayCalm
<1> QED
  BY <1>2, <1>3, <1>4, <1>5, <1>6, <1>7, <1>8, <1>9, <1>10, <1>11, <1>12
     DEF Next, Kernel, Choice, SwitchStep, ExitStep, SpawnStep, ReapStep

(* With plain tasks, and ticks kept out of the scheduler's own code.       *)
THEOREM CalmAlways == ASSUME Quiet PROVE Spec => []Calm
<1>1. Init => Inv /\ Turn /\ Calm
  BY InvInit, LiveInit, CalmInit
<1>2. Inv /\ Turn /\ Calm /\ [Next]_vars => Calm'
  BY CalmStep
<1> QED
  BY <1>1, <1>2, InvAlways, TurnAlways, PTL DEF Spec

(* mod.rs:476, 481, 564, 573: no panic of exit_current or reap is reached, *)
(* and no switch goes to a context that is gone.                           *)
THEOREM NeverPanics == ASSUME Quiet PROVE Spec => []NoPanic
<1>1. Calm => NoPanic
  BY DEF Calm, NoPanic
<1> QED
  BY <1>1, CalmAlways, PTL

(* mod.rs:367-370: a task off the CPU is resumed where it left its stack.  *)
THEOREM ResumesIntact == ASSUME Quiet PROVE Spec => []ContextsIntact
<1>1. Inv /\ Calm => ContextsIntact
  BY DEF Inv, Calm, Saved, ContextsIntact
<1> QED
  BY <1>1, InvAlways, CalmAlways, PTL
-----------------------------------------------------------------------------
(* The refinement of RoundRobin: what it sees of the tasks.                *)

New == stack[Shell][1].nxt

LEMMA NewIn ==
    ASSUME Inv, Live, Spawning
    PROVE  /\ New \in Pid /\ ~Has(queue, New) /\ Shell \in Threads
           /\ state[New] = "none" \/ (state[New] = "Runnable" /\ Held(Shell, 1, New))
           /\ \A t \in Threads, d \in 1 .. 2 : Held(t, d, New) => t = Shell /\ d = 1
<1>1. New \in Pid /\ Len(stack[Shell]) \in 1 .. 2
  BY Consts DEF Spawning, New, Inv, Framed, WellFormed, SpawnPcs, TypeOK, Threads
<1>2. CASE stack[Shell][1].pc \in {"insert", "inserted"}
  <2>1. state[New] = "none"
    BY <1>1, <1>2 DEF Inv, Unborn, ToCome, New
  <2> QED
    BY <1>1, <2>1, Consts DEF Live, OnePlace
<1>3. CASE stack[Shell][1].pc \in {"spush", "spushed"}
  <2>1. InHand(stack[Shell][1], New)
    BY <1>3 DEF InHand, New
  <2>2. \A l \in 1 .. 2 : 1 <= l
    OBVIOUS
  <2>3. 1 <= Len(stack[Shell])
    BY <1>1, <2>2, Zenon
  <2>4. Held(Shell, 1, New) /\ 1 \in 1 .. 2
    BY <2>1, <2>3 DEF Held
  <2> QED
    BY <1>1, <2>4, Consts DEF Live, OnePlace
<1> QED
  BY <1>2, <1>3 DEF Spawning

LEMMA NewApart ==
    ASSUME Inv, Live, Calm, Spawning
    PROVE  New \in Pid /\ New # cpu /\ New # turnCurrent
<1>1. New \in Pid /\ (state[New] = "Runnable" => Held(Shell, 1, New))
  BY NewIn
<1>2. ASSUME Top.pc \in {"swap", "ecur"} PROVE New # Top.nxt
  <2> SUFFICES ASSUME New = Top.nxt PROVE FALSE
    OBVIOUS
  <2>1. /\ state[New] = "Runnable"
        /\ \A t \in Threads, d \in 1 .. 2 : Held(t, d, New) => t = cpu /\ d = Depth
    BY <1>2, ChosenIn
  <2>2. Held(Shell, 1, New) /\ 1 \in 1 .. 2
    BY <1>1, <2>1
  <2>3. Shell = cpu /\ 1 = Depth
    BY <2>1, <2>2, Consts
  <2> QED
    BY <1>2, <2>3 DEF Top, Spawning
<1>3. ASSUME Top.pc \in Unmarked PROVE New # Top.nxt
  <2>1. Held(cpu, Depth, Top.nxt) /\ cpu \in Threads /\ Depth \in 1 .. 2
    BY <1>3, TopIn DEF Held, InHand, Top, Depth
  <2>2. New = Top.nxt => cpu = Shell /\ Depth = 1
    BY <2>1, NewIn
  <2> QED
    BY <1>3, <2>2 DEF Top, Spawning, Unmarked
<1>4. ASSUME Top.pc \in {"save", "load"} PROVE New # Top.nxt
  BY <1>4, NewIn DEF Calm, OneRuns
<1>5. New # cpu
  <2> SUFFICES ASSUME New = cpu PROVE FALSE
    OBVIOUS
  <2>1. state[cpu] = "Runnable"
    BY <1>1, NewIn DEF Calm, OneRuns, StateAt
  <2>2. Top.op # "exit" /\ Top.pc \in BackPcs /\ cpu # Boot
    BY <1>1, <2>1, Consts DEF Calm, OneRuns, StateAt
  <2>3. CASE Top.pc \in {"push", "pushed"}
    <3>1. Top.prv = cpu
      BY <2>2, <2>3 DEF Calm, MineAt, Chosen, Unmarked
    <3>2. Held(cpu, Depth, New) /\ cpu \in Threads /\ Depth \in 1 .. 2
      BY <2>3, <3>1, TopIn DEF Held, InHand, Top, Depth
    <3>3. cpu = Shell /\ Depth = 1
      BY <3>2, NewIn
    <3> QED
      BY <2>3, <3>3 DEF Top, Spawning
  <2>4. CASE Top.pc \in {"mark", "save", "load"}
    BY <2>2, <2>4, NewIn DEF Calm, Requeued
  <2> QED
    BY <2>2, <2>3, <2>4 DEF BackPcs
<1>6. Top.pc \in Chosen => current = Top.nxt
  BY DEF Live, CurrentMeans
<1>7. Top.pc \notin Chosen => current = cpu
  BY DEF Calm, MineAt
<1> QED
  BY <1>1, <1>2, <1>3, <1>4, <1>5, <1>6, <1>7 DEF turnCurrent, Chosen

(* The task that has the CPU by turns, against the thread that is on it.   *)
LEMMA TurnCases ==
    ASSUME Inv, Live, Calm
    PROVE  /\ Top.pc \in Chosen \cup {"swap", "ecur"} =>
                 turnCurrent = Top.nxt /\ turnCurrent \in Pid /\ turnCurrent # cpu
           /\ Top.pc \notin Chosen \cup {"swap", "ecur"} => turnCurrent = current /\ current = cpu
<1>1. ASSUME Top.pc \in Chosen \cup {"swap", "ecur"}
      PROVE  turnCurrent = Top.nxt /\ Top.nxt \in Pid
  <2>1. Top.pc \in TurnPcs \cup {"ecur", "emark"}
    BY <1>1 DEF Chosen, Unmarked, TurnPcs
  <2>2. Top.nxt \in Pid
    BY <2>1, TopIn DEF WellFormed
  <2>3. Top.pc \in Chosen => current = Top.nxt
    BY DEF Live, CurrentMeans
  <2> QED
    BY <1>1, <2>2, <2>3 DEF turnCurrent
<1>2. ASSUME Top.pc \in Chosen \cup {"swap", "ecur"} PROVE Top.nxt # cpu
  <2>1. CASE Top.pc \in {"swap", "ecur", "emark"}
    <3>1. state[Top.nxt] = "Runnable"
      BY <2>1, ChosenIn
    <3>2. Top.pc \notin BackPcs
      BY <2>1 DEF BackPcs
    <3> QED
      BY <1>1, <1>2, <3>1, <3>2 DEF Calm, OneRuns, StateAt
  <2>2. CASE Top.pc \in {"read", "demote", "push", "pushed", "mark"}
    <3>1. Top.op # "exit"
      BY <2>2, OpAt
    <3> QED
      BY <2>2, <3>1 DEF Live, CurrentMeans, Calm, MineAt, Chosen, Unmarked
  <2>3. CASE Top.pc \in {"save", "load"}
    BY <1>1, <1>2, <2>3 DEF Calm, OneRuns, StateAt, BackPcs
  <2> QED
    BY <1>2, <2>1, <2>2, <2>3 DEF Chosen, Unmarked
<1>3. ASSUME Top.pc \notin Chosen \cup {"swap", "ecur"} PROVE turnCurrent = current /\ current = cpu
  BY <1>3 DEF turnCurrent, Calm, MineAt
<1> QED
  BY <1>1, <1>2, <1>3

Seen(p) == IF Spawning /\ p = New THEN "none"
           ELSE IF p = turnCurrent THEN "Running"
           ELSE IF p = cpu THEN IF Top.op = "exit" THEN "Zombie" ELSE "Runnable"
           ELSE state[p]

View == /\ turnState = [p \in Pid |-> Seen(p)]
        /\ turnCurrent \in Threads
        /\ Spawning => New \in Pid /\ New # cpu /\ New # turnCurrent

LEMMA ViewHolds == Inv /\ Live /\ Calm => View
<1> SUFFICES ASSUME Inv, Live, Calm PROVE View
  OBVIOUS
<1>1. Spawning => New \in Pid /\ New # cpu /\ New # turnCurrent
  BY NewApart
<1>2. turnCurrent \in Threads /\ cpu \in Threads
  BY TurnCases, TopIn, Consts
<1>3. ASSUME NEW p \in Pid, ~(Spawning /\ p = New)
      PROVE  turnState[p] = Seen(p)
  <2>1. CASE p = turnCurrent
    <3>1. CASE Exiting
      BY <1>3, <2>1, <3>1 DEF turnState, Seen, Exiting, Switching, New
    <3>2. CASE ~Exiting /\ Switching /\ turnCurrent # cpu
      BY <1>3, <2>1, <3>2 DEF turnState, Seen, New
    <3>3. CASE ~Exiting /\ ~(Switching /\ turnCurrent # cpu)
      <4>1. turnState[p] = state[p]
        BY <1>3, <2>1, <3>3 DEF turnState, New
      <4>2. CASE turnCurrent = cpu
        <5>1. Top.pc \notin BackPcs /\ Top.op # "exit"
          BY <3>3, <4>2, TurnCases DEF BackPcs, Chosen, Unmarked, Exiting, Calm
        <5>2. state[p] = "Running"
          BY <2>1, <4>2, <5>1 DEF Calm, OneRuns, StateAt
        <5> QED
          BY <1>3, <2>1, <4>1, <5>2 DEF Seen
      <4>3. CASE turnCurrent # cpu
        <5>1. Top.pc \in SwitchPcs /\ turnCurrent = Top.nxt
          BY <4>3, TurnCases DEF SwitchPcs, Chosen, Unmarked
        <5>2. Top.pc = "load"
          BY <3>3, <4>3, <5>1 DEF Exiting, Switching, Calm
        <5>3. state[p] = "Running"
          BY <2>1, <5>1, <5>2 DEF Calm, OneRuns
        <5> QED
          BY <1>3, <2>1, <4>1, <5>3 DEF Seen
      <4> QED
        BY <4>2, <4>3
    <3> QED
      BY <3>1, <3>2, <3>3
  <2>2. CASE p # turnCurrent /\ p = cpu
    <3>1. Top.pc \in SwitchPcs /\ Top.pc \in Chosen \cup {"swap", "ecur"}
      BY <2>2, TurnCases DEF SwitchPcs, Chosen, Unmarked
    <3>2. CASE Top.op = "exit"
      <4>1. turnState[p] = state[p]
        BY <1>3, <2>2, <3>2 DEF turnState, Switching, Exiting, New
      <4> QED
        BY <1>3, <2>2, <3>2, <4>1 DEF Seen, Calm, OneRuns, StateAt
    <3>3. CASE Top.op # "exit"
      <4>1. Switching /\ ~Exiting
        BY <3>1, <3>3 DEF Switching, Exiting, Calm
      <4> QED
        BY <1>3, <2>2, <3>3, <4>1 DEF turnState, Seen, New
    <3> QED
      BY <3>2, <3>3
  <2>3. CASE p # turnCurrent /\ p # cpu
    BY <1>3, <2>3 DEF turnState, Seen, New
  <2> QED
    BY <2>1, <2>2, <2>3
<1>4. ASSUME NEW p \in Pid, Spawning, p = New PROVE turnState[p] = Seen(p)
  BY <1>1, <1>4 DEF turnState, Seen, New
<1>5. turnState = [p \in Pid |-> turnState[p]]
  BY DEF turnState
<1>6. turnState = [p \in Pid |-> Seen(p)]
  BY <1>3, <1>4, <1>5
<1> QED
  BY <1>1, <1>2, <1>6 DEF View

LEMMA ViewNext == Inv' /\ Live' /\ Calm' => View'
BY ViewHolds, PTL

Requeue == {"swap", "read", "demote", "push", "pushed"}
CurOf(a, c)   == IF a.pc \in {"swap", "ecur"} THEN a.nxt ELSE c
QueueOf(a, q) == IF a.pc \in Requeue /\ cpu # Boot THEN Append(q, cpu) ELSE q

LEMMA SpawningKept ==
    ASSUME Inv, NEW a \in Activation, SetTop(a), cpu' = cpu,
           a.pc \in NewPcs <=> Top.pc \in NewPcs, a.pc \in NewPcs => a.nxt = Top.nxt
    PROVE  Spawning' = Spawning /\ (Spawning => New' = New)
<1>1. /\ \A t \in Threads : t # cpu => stack'[t] = stack[t]
      /\ \A d \in 1 .. 2 : d # Depth => stack'[cpu][d] = stack[cpu][d]
      /\ stack'[cpu][Depth] = a
  BY Edited
<1>2. Depth \in 1 .. 2
  BY TopIn
<1>3. CASE cpu = Shell /\ Depth = 1
  <2>1. stack[Shell][1] = Top /\ stack'[Shell][1] = a
    BY <1>1, <1>3 DEF Top
  <2> QED
    BY <2>1 DEF Spawning, New, NewPcs
<1>4. CASE ~(cpu = Shell /\ Depth = 1)
  <2>1. stack'[Shell][1] = stack[Shell][1]
    BY <1>1, <1>2, <1>4, Consts
  <2> QED
    BY <2>1 DEF Spawning, New
<1> QED
  BY <1>3, <1>4

(* Steps that RoundRobin does not see.                                     *)
LEMMA Stutters ==
    ASSUME View, View', UNCHANGED <<cpu, nextPid, halted>>,
           turnCurrent' = turnCurrent, turnQueue' = turnQueue,
           Spawning' = Spawning, Spawning => New' = New,
           (Top.op = "exit")' = (Top.op = "exit") \/ turnCurrent = cpu,
           \A p \in Pid : p # turnCurrent /\ p # cpu /\ ~(Spawning /\ p = New) => state'[p] = state[p]
    PROVE  UNCHANGED Turns!vars
<1>1. ASSUME NEW p \in Pid PROVE Seen(p)' = Seen(p)
  BY DEF Seen
<1>2. turnState' = turnState
  BY <1>1 DEF View
<1>3. turnNext' = turnNext
  BY DEF turnNext
<1> QED
  BY <1>2, <1>3 DEF Turns!vars

LEMMA EditStutters ==
    ASSUME Inv, View, View', NEW a \in Activation, SetTop(a), UNCHANGED <<cpu, nextPid, halted>>,
           a.pc \in NewPcs <=> Top.pc \in NewPcs, a.pc \in NewPcs => a.nxt = Top.nxt,
           CurOf(a, current') = turnCurrent, QueueOf(a, queue') = turnQueue,
           (a.op = "exit" <=> Top.op = "exit") \/ turnCurrent = cpu,
           \A p \in Pid : p # turnCurrent /\ p # cpu => state'[p] = state[p]
    PROVE  UNCHANGED Turns!vars
<1>1. Top' = a
  BY Edited
<1>2. turnCurrent' = turnCurrent /\ turnQueue' = turnQueue
  BY <1>1 DEF turnCurrent, turnQueue, CurOf, QueueOf, Requeue
<1>3. Spawning' = Spawning /\ (Spawning => New' = New)
  BY SpawningKept
<1>4. (Top.op = "exit")' = (Top.op = "exit") \/ turnCurrent = cpu
  BY <1>1
<1> QED
  BY <1>2, <1>3, <1>4, Stutters

(* Steps that change neither the tasks nor the queue.                      *)
LEMMA PlainStutters ==
    ASSUME Inv, View, View', NEW a \in Activation, SetTop(a),
           UNCHANGED <<state, queue, current, cpu, nextPid, halted>>,
           a.pc \notin Requeue \cup {"ecur"}, Top.pc \notin Requeue \cup {"ecur"},
           a.op = "exit" <=> Top.op = "exit",
           \/ a.pc \notin NewPcs /\ Top.pc \notin NewPcs
           \/ a.pc \in NewPcs /\ Top.pc \in NewPcs /\ a.nxt = Top.nxt
    PROVE  UNCHANGED Turns!vars
<1>1. CurOf(a, current') = turnCurrent /\ QueueOf(a, queue') = turnQueue
  BY DEF CurOf, QueueOf, turnCurrent, turnQueue, Requeue
<1>2. \A p \in Pid : state'[p] = state[p]
  OBVIOUS
<1> QED
  BY <1>1, <1>2, EditStutters

LEMMA LocksStutter ==
    ASSUME Inv, View, View', Pop \/ ExitPop \/ Insert \/ SpawnPush \/ Take \/ Update
    PROVE  UNCHANGED Turns!vars
<1>1. PICK l, m : /\ Top.pc = l /\ SetTop([Top EXCEPT !.pc = m])
                  /\ UNCHANGED <<state, queue, current, cpu, nextPid, halted>>
                  /\ \/ l = "pop" /\ m = "popped"
                     \/ l = "epop" /\ m = "epopped"
                     \/ l = "insert" /\ m = "inserted"
                     \/ l = "spush" /\ m = "spushed"
                     \/ l = "take" /\ m = "taken"
                     \/ l = "code" /\ m = "update"
  <2>1. CASE Pop
    BY <2>1 DEF Pop, LockRq, At, Goto, shell
  <2>2. CASE ExitPop
    BY <2>2 DEF ExitPop, LockRq, At, Goto, shell
  <2>3. CASE SpawnPush
    BY <2>3 DEF SpawnPush, LockRq, At, Goto, shell
  <2>4. CASE Insert
    BY <2>4 DEF Insert, LockTasks, At, Goto, shell
  <2>5. CASE Take
    BY <2>5 DEF Take, LockTasks, At, Goto, shell
  <2>6. CASE Update
    BY <2>6 DEF Update, LockTasks, At, Goto, shell
  <2> QED
    BY <2>1, <2>2, <2>3, <2>4, <2>5, <2>6
<1> DEFINE a == [Top EXCEPT !.pc = m]
<1>2. a \in Activation /\ a.op = Top.op /\ a.pc = m /\ a.nxt = Top.nxt
  <2>1. m \in Pcs
    BY <1>1 DEF Pcs, SwitchPcs, SpawnPcs, ReapPcs, CodePcs
  <2> QED
    BY <2>1, GotoIn
<1>3. SetTop(a)
  BY <1>1
<1> HIDE DEF a
<1>4. a.pc \notin Requeue \cup {"ecur"} /\ Top.pc \notin Requeue \cup {"ecur"}
  BY <1>1, <1>2 DEF Requeue
<1>5. a.pc \in NewPcs <=> Top.pc \in NewPcs
  BY <1>1, <1>2 DEF NewPcs
<1> QED
  BY <1>1, <1>2, <1>3, <1>4, <1>5, PlainStutters

LEMMA CodeStutters ==
    ASSUME Inv, View, View', Yield \/ Access \/ Accessed \/ Updated \/ (\E p \in jobs : Reap(p))
    PROVE  UNCHANGED Turns!vars
<1>1. PICK a \in Activation :
         /\ SetTop(a) /\ Top.pc \in CodePcs
         /\ a.op # "exit" /\ a.pc \in {"access", "code", "pop", "take"}
         /\ UNCHANGED <<state, queue, current, cpu, nextPid, halted>>
  <2>1. CASE Yield
    BY <2>1, CodeFrame, CodeOps DEF Yield, At, CodePcs
  <2>2. CASE Access \/ Accessed \/ Updated
    <3>1. PICK m \in {"access", "code"} :
             /\ Top.pc \in CodePcs /\ SetTop([Top EXCEPT !.pc = m])
             /\ UNCHANGED <<state, queue, current, cpu, nextPid, halted>>
      BY <2>2 DEF Access, Accessed, Updated, At, Goto, shell, CodePcs
    <3> DEFINE b == [Top EXCEPT !.pc = m]
    <3>2. b \in Activation /\ b.op = Top.op /\ b.pc = m
      BY GotoIn DEF Pcs, CodePcs
    <3>3. SetTop(b)
      BY <3>1
    <3> HIDE DEF b
    <3>4. b.op # "exit"
      BY <3>1, <3>2, OpAt
    <3> QED
      BY <3>1, <3>2, <3>3, <3>4
  <2>3. ASSUME NEW p \in jobs, Reap(p)
        PROVE  \E a \in Activation :
                 /\ SetTop(a) /\ Top.pc \in CodePcs
                 /\ a.op # "exit" /\ a.pc \in {"access", "code", "pop", "take"}
                 /\ UNCHANGED <<state, queue, current, cpu, nextPid, halted>>
    <3> DEFINE b == Frame("reap", "take", p)
    <3>1. /\ SetTop(b) /\ Top.pc \in CodePcs
          /\ UNCHANGED <<state, queue, current, cpu, nextPid, halted>>
      BY <2>3 DEF Reap, At, shell, CodePcs
    <3>2. b \in Activation /\ b.op # "exit" /\ b.pc = "take"
      <4>1. p \in Threads
        BY Consts DEF Inv, TypeOK
      <4>2. "reap" \in Ops /\ "take" \in Pcs
        BY DEF Ops, Pcs, ReapPcs
      <4> QED
        BY <4>1, <4>2, FrameIn
    <3> HIDE DEF b
    <3> QED
      BY <3>1, <3>2
  <2> QED
    BY <2>1, <2>2, <2>3
<1>2. Top.op = "code"
  BY <1>1, OpAt
<1>3. /\ a.pc \notin Requeue \cup {"ecur"} /\ Top.pc \notin Requeue \cup {"ecur"}
      /\ a.pc \notin NewPcs /\ Top.pc \notin NewPcs
  BY <1>1 DEF Requeue, NewPcs, CodePcs
<1> QED
  BY <1>1, <1>2, <1>3, PlainStutters

LEMMA SwapStutters ==
    ASSUME Inv, Live, Calm, View, View', Swap \/ Read \/ Push
    PROVE  UNCHANGED Turns!vars
<1>1. PICK a \in Activation :
         /\ SetTop(a) /\ a.op = Top.op /\ UNCHANGED <<state, queue, cpu, nextPid, halted>>
         /\ Top.pc \in Requeue /\ a.pc \in Requeue
         /\ \/ Top.pc = "swap" /\ a.pc # "swap" /\ current' = Top.nxt
            \/ Top.pc # "swap" /\ a.pc # "swap" /\ current' = current
  <2>1. CASE Swap
    <3> DEFINE b == [Top EXCEPT !.pc = "read", !.prv = current]
    <3>1. /\ Top.pc = "swap" /\ current' = Top.nxt /\ UNCHANGED <<state, queue, cpu, nextPid, halted>>
      BY <2>1 DEF Swap, At, shell
    <3>2. SetTop(b)
      BY <2>1, <3>1, NotItself DEF Swap
    <3>3. b \in Activation /\ b.pc = "read" /\ b.op = Top.op
      BY TopIn DEF Activation, Pcs, SwitchPcs, Inv, TypeOK
    <3> HIDE DEF b
    <3> QED
      BY <3>1, <3>2, <3>3 DEF Requeue
  <2>2. CASE Read \/ Push
    <3>1. PICK m \in {"demote", "pushed"} :
             /\ Top.pc \in {"read", "push"} /\ SetTop([Top EXCEPT !.pc = m])
             /\ UNCHANGED <<state, queue, current, cpu, nextPid, halted>>
      BY <2>2 DEF Read, Push, LockRq, At, Goto, shell
    <3> DEFINE b == [Top EXCEPT !.pc = m]
    <3>2. b \in Activation /\ b.op = Top.op /\ b.pc = m
      BY GotoIn DEF Pcs, SwitchPcs
    <3>3. SetTop(b)
      BY <3>1
    <3> HIDE DEF b
    <3> QED
      BY <3>1, <3>2, <3>3 DEF Requeue
  <2> QED
    BY <2>1, <2>2
<1>2. a.pc \notin NewPcs /\ Top.pc \notin NewPcs
  BY <1>1 DEF NewPcs, Requeue
<1>3. CurOf(a, current') = turnCurrent /\ QueueOf(a, queue') = turnQueue
  BY <1>1 DEF CurOf, QueueOf, turnCurrent, turnQueue, Requeue
<1> QED
  BY <1>1, <1>2, <1>3, EditStutters

LEMMA DemoteStutters ==
    ASSUME Inv, Live, Calm, View, View', Demote
    PROVE  UNCHANGED Turns!vars
<1>1. Top.pc = "demote" /\ UNCHANGED <<queue, current, cpu, nextPid, halted>>
  BY DEF Demote, At, shell
<1>2. Top.prv = cpu /\ Top \in Activation /\ cpu \in Threads /\ Top.op # "exit"
  BY <1>1, OpAt, TopIn DEF Calm, MineAt, Chosen, Unmarked
<1>3. PICK a \in Activation : /\ SetTop(a) /\ a.op = Top.op
                              /\ a.pc = IF cpu = Boot THEN "mark" ELSE "push"
  <2>1. CASE cpu = Boot
    <3> DEFINE b == [Top EXCEPT !.pc = "mark", !.prv = Boot]
    <3>1. SetTop(b)
      BY <1>2, <2>1 DEF Demote
    <3>2. b \in Activation /\ b.op = Top.op /\ b.pc = "mark"
      BY <1>2, <2>1, Consts DEF Activation, Pcs, SwitchPcs, Threads
    <3> HIDE DEF b
    <3> QED
      BY <2>1, <3>1, <3>2
  <2>2. CASE cpu # Boot
    <3> DEFINE b == [Top EXCEPT !.pc = "push"]
    <3>1. cpu \in Pid
      BY <1>2, <2>2 DEF Threads, Pid, Boot
    <3>2. state[cpu] = "Running"
      BY <1>1, <1>2, <3>1 DEF Calm, OneRuns, StateAt, BackPcs
    <3>3. SetTop(b)
      BY <1>2, <2>2, <3>2 DEF Demote, Goto
    <3>4. b \in Activation /\ b.op = Top.op /\ b.pc = "push"
      BY GotoIn DEF Pcs, SwitchPcs
    <3> HIDE DEF b
    <3> QED
      BY <2>2, <3>3, <3>4
  <2> QED
    BY <2>1, <2>2
<1>4. a.pc \notin NewPcs /\ Top.pc \notin NewPcs
  BY <1>1, <1>3 DEF NewPcs
<1>5. CurOf(a, current') = turnCurrent /\ QueueOf(a, queue') = turnQueue
  BY <1>1, <1>3 DEF CurOf, QueueOf, turnCurrent, turnQueue, Requeue
<1>6. \A p \in Pid : p # cpu => state'[p] = state[p]
  BY <1>2 DEF Demote, Inv, TypeOK
<1> QED
  BY <1>1, <1>3, <1>4, <1>5, <1>6, EditStutters

LEMMA PushedStutters ==
    ASSUME Inv, Live, Calm, View, View', Pushed
    PROVE  UNCHANGED Turns!vars
<1> DEFINE a == [Top EXCEPT !.pc = "mark"]
<1>1. /\ Top.pc = "pushed" /\ SetTop(a) /\ queue' = Append(queue, Top.prv)
      /\ UNCHANGED <<state, current, cpu, nextPid, halted>>
  BY DEF Pushed, At, Goto, shell
<1>2. a \in Activation /\ a.op = Top.op /\ a.pc = "mark"
  BY GotoIn DEF Pcs, SwitchPcs
<1> HIDE DEF a
<1>3. Top.prv = cpu /\ cpu # Boot
  BY <1>1, OpAt, TopIn, Consts DEF Calm, MineAt, Chosen, Unmarked, WellFormed
<1>4. a.pc \notin NewPcs /\ Top.pc \notin NewPcs
  BY <1>1, <1>2 DEF NewPcs
<1>5. CurOf(a, current') = turnCurrent /\ QueueOf(a, queue') = turnQueue
  BY <1>1, <1>2, <1>3 DEF CurOf, QueueOf, turnCurrent, turnQueue, Requeue
<1> QED
  BY <1>1, <1>2, <1>4, <1>5, EditStutters

LEMMA MarkStutters ==
    ASSUME Inv, Live, Calm, View, View', Mark \/ ExitMark
    PROVE  UNCHANGED Turns!vars
<1>1. /\ Top.pc \in {"mark", "emark"} /\ UNCHANGED <<queue, current, cpu, nextPid>>
      /\ state[Top.nxt] # "none"
  <2>1. Top.pc \in {"mark", "emark"} /\ UNCHANGED <<queue, current, cpu, nextPid>>
    BY DEF Mark, ExitMark, At, shell
  <2> QED
    BY <2>1, ChosenIn
<1>2. PICK m \in {"save", "load"} :
         SetTop([Top EXCEPT !.pc = m]) /\ state' = [state EXCEPT ![Top.nxt] = "Running"] /\ halted' = halted
  BY <1>1 DEF Mark, ExitMark, Goto
<1> DEFINE a == [Top EXCEPT !.pc = m]
<1>3. a \in Activation /\ a.op = Top.op /\ a.pc = m
  BY GotoIn DEF Pcs, SwitchPcs
<1>4. SetTop(a)
  BY <1>2
<1> HIDE DEF a
<1>5. a.pc \notin NewPcs /\ Top.pc \notin NewPcs
  BY <1>1, <1>3 DEF NewPcs
<1>6. CurOf(a, current') = turnCurrent /\ QueueOf(a, queue') = turnQueue
  BY <1>1, <1>3 DEF CurOf, QueueOf, turnCurrent, turnQueue, Requeue
<1>7. turnCurrent = Top.nxt
  BY <1>1, TurnCases DEF Chosen, Unmarked
<1>8. \A p \in Pid : p # turnCurrent => state'[p] = state[p]
  BY <1>2, <1>7 DEF Inv, TypeOK
<1> QED
  BY <1>1, <1>2, <1>3, <1>4, <1>5, <1>6, <1>8, EditStutters

LEMMA SaveStutters ==
    ASSUME Inv, View, View', Save, halted' = halted
    PROVE  UNCHANGED Turns!vars
<1> DEFINE a == [Top EXCEPT !.pc = "load"]
<1>1. Top.pc = "save" /\ SetTop(a) /\ UNCHANGED <<state, queue, current, cpu, nextPid, halted>>
  BY DEF Save, At, Goto, shell
<1>2. a \in Activation /\ a.op = Top.op /\ a.pc = "load"
  BY GotoIn DEF Pcs, SwitchPcs
<1> HIDE DEF a
<1>3. /\ a.pc \notin Requeue \cup {"ecur"} /\ Top.pc \notin Requeue \cup {"ecur"}
      /\ a.pc \notin NewPcs /\ Top.pc \notin NewPcs
  BY <1>1, <1>2 DEF Requeue, NewPcs
<1> QED
  BY <1>1, <1>2, <1>3, PlainStutters

LEMMA ExitStutters ==
    ASSUME Inv, Live, Calm, View, View', Exit
    PROVE  UNCHANGED Turns!vars
<1> DEFINE a == Frame("exit", "epop", 0)
<1>1. /\ Top.pc = "code" /\ SetTop(a)
      /\ state' = [state EXCEPT ![current] = IF @ = "none" THEN @ ELSE "Zombie"]
      /\ UNCHANGED <<queue, current, cpu, nextPid, halted>>
  BY DEF Exit, At, shell
<1>2. a \in Activation /\ a.pc = "epop"
  BY CodeFrame
<1> HIDE DEF a
<1>3. turnCurrent = cpu /\ current = cpu
  BY <1>1, TurnCases DEF Chosen, Unmarked
<1>4. a.pc \notin NewPcs /\ Top.pc \notin NewPcs
  BY <1>1, <1>2 DEF NewPcs
<1>5. CurOf(a, current') = turnCurrent /\ QueueOf(a, queue') = turnQueue
  BY <1>1, <1>2 DEF CurOf, QueueOf, turnCurrent, turnQueue, Requeue
<1>6. \A p \in Pid : p # cpu => state'[p] = state[p]
  BY <1>1, <1>3 DEF Inv, TypeOK
<1> QED
  BY <1>1, <1>2, <1>3, <1>4, <1>5, <1>6, EditStutters

LEMMA ExitCurrentStutters ==
    ASSUME Inv, View, View', ExitCurrent
    PROVE  UNCHANGED Turns!vars
<1> DEFINE a == [Top EXCEPT !.pc = "emark"]
<1>1. /\ Top.pc = "ecur" /\ current' = Top.nxt /\ SetTop(a)
      /\ UNCHANGED <<state, queue, cpu, nextPid, halted>>
  BY DEF ExitCurrent, At, Goto, shell
<1>2. a \in Activation /\ a.op = Top.op /\ a.pc = "emark"
  BY GotoIn DEF Pcs, SwitchPcs
<1> HIDE DEF a
<1>3. a.pc \notin NewPcs /\ Top.pc \notin NewPcs
  BY <1>1, <1>2 DEF NewPcs
<1>4. CurOf(a, current') = turnCurrent /\ QueueOf(a, queue') = turnQueue
  BY <1>1, <1>2 DEF CurOf, QueueOf, turnCurrent, turnQueue, Requeue
<1> QED
  BY <1>1, <1>2, <1>3, <1>4, EditStutters

(* A spawn is not seen before the task is queued.                          *)
LEMMA SpawnStutters ==
    ASSUME Inv, Live, Calm, View, View', NEW kind \in Kinds, Spawn(kind)
    PROVE  UNCHANGED Turns!vars
<1> DEFINE a == Frame("spawn", "insert", nextPid)
<1>1. /\ Top.pc = "code" /\ SetTop(a) /\ nextPid' = nextPid + 1 /\ cpu = Shell
      /\ UNCHANGED <<state, queue, current, cpu, halted>>
  BY DEF Spawn, At
<1>2. nextPid \in Pid /\ nextPid \in Threads /\ nextPid \in Int
  <2>1. nextPid \in 2 .. MaxPid + 1 /\ nextPid <= MaxPid /\ MaxPid \in Nat
    BY SchedulerAssumption DEF Spawn, Inv, TypeOK
  <2> QED
    BY <2>1 DEF Pid, Threads
<1>3. a \in Activation /\ a.pc = "insert" /\ a.nxt = nextPid
  <2>1. "insert" \in Pcs /\ "spawn" \in Ops
    BY DEF Pcs, SpawnPcs, Ops
  <2> QED
    BY <1>2, <2>1, FrameIn
<1> HIDE DEF a
<1>4. Top.op = "code" /\ Top = stack[Shell][1] /\ Depth = 1
  BY <1>1, CodeIn, TopIn DEF CodePcs
<1>5. Top' = a /\ stack'[Shell][1] = a
  BY <1>1, <1>3, <1>4, Edited
<1>6. ~Spawning /\ Spawning' /\ New' = nextPid
  BY <1>1, <1>3, <1>4, <1>5 DEF Spawning, New
<1>7. turnCurrent = cpu /\ turnCurrent' = turnCurrent /\ turnQueue' = turnQueue
  <2>1. turnCurrent = cpu /\ current = cpu
    BY <1>1, TurnCases DEF Chosen, Unmarked
  <2> QED
    BY <1>1, <1>3, <1>5, <2>1 DEF turnCurrent, turnQueue
<1>8. state[nextPid] = "none" /\ nextPid # cpu
  <2>1. ToCome(nextPid)
    BY <1>2 DEF ToCome
  <2> QED
    BY <1>2, <2>1 DEF Inv, Unborn
<1>9. ASSUME NEW p \in Pid PROVE Seen(p)' = Seen(p)
  BY <1>1, <1>6, <1>7, <1>8 DEF Seen
<1>10. turnState' = turnState
  BY <1>9 DEF View
<1>11. turnNext' = turnNext
  BY <1>1, <1>2, <1>6 DEF turnNext
<1> QED
  BY <1>1, <1>7, <1>10, <1>11 DEF Turns!vars
-----------------------------------------------------------------------------
LEMMA LoadStutters ==
    ASSUME Inv, Live, Calm, View, View', Load
    PROVE  UNCHANGED Turns!vars
<1> DEFINE n == Top.nxt
<1>1. /\ Top.pc = "load" /\ UNCHANGED <<state, queue, current, nextPid, halted>>
      /\ n \in Pid /\ n # cpu /\ current = n /\ cpu' = n
      /\ \A t \in Threads : t # n => stack'[t] = stack[t]
      /\ \/ stack'[n][1] = stack[n][1]
         \/ stack'[n][1].pc = "code" /\ stack[n][1].pc = "load"
      /\ Top'.pc \notin SwitchPcs
  BY Loaded
<1> HIDE DEF n
<1>2. turnCurrent = n /\ turnCurrent' = n
  BY <1>1 DEF turnCurrent, SwitchPcs
<1>3. turnQueue' = turnQueue
  BY <1>1 DEF turnQueue, SwitchPcs
<1>4. Spawning' = Spawning /\ (Spawning => New' = New)
  <2>1. stack'[Shell][1] = stack[Shell][1]
        \/ (stack'[Shell][1].pc = "code" /\ stack[Shell][1].pc = "load")
    BY <1>1, Consts
  <2> QED
    BY <2>1 DEF Spawning, New
<1>5. cpu \in Pid => state[cpu] = IF Top.op = "exit" THEN "Zombie" ELSE "Runnable"
  BY <1>1 DEF Calm, OneRuns, StateAt, BackPcs
<1>6. ASSUME NEW p \in Pid PROVE Seen(p)' = Seen(p)
  BY <1>1, <1>2, <1>4, <1>5 DEF Seen
<1>7. turnState' = turnState
  BY <1>6 DEF View
<1>8. turnNext' = turnNext
  BY <1>1, <1>4 DEF turnNext
<1> QED
  BY <1>1, <1>2, <1>3, <1>7, <1>8 DEF Turns!vars

LEMMA InsertedStutters ==
    ASSUME Inv, Live, Calm, View, View', Inserted
    PROVE  UNCHANGED Turns!vars
<1> DEFINE p == Top.nxt
           b == [Top EXCEPT !.pc = "spush"]
           f == Frame("code", "code", 0)
           q == [stack[cpu] EXCEPT ![Depth] = b]
<1>1. /\ Top.pc = "inserted"
      /\ state' = [state EXCEPT ![p] = "Runnable"]
      /\ UNCHANGED <<queue, current, cpu, nextPid, halted>>
  BY DEF Inserted, At, shell
<1>2. stack' = [[stack EXCEPT ![cpu] = q] EXCEPT ![p] = <<f>>]
  BY DEF Inserted, Top, Calm, Plain
<1>3. b.op = Top.op /\ b.pc = "spush" /\ b.nxt = p
  BY GotoIn DEF Pcs, SpawnPcs
<1> HIDE DEF p, b, f, q
<1>4. Top.op = "spawn"
  BY <1>1, OpAt DEF SpawnPcs
<1>5. /\ cpu = Shell /\ p \in Pid /\ p \in Threads /\ cpu \in Threads
      /\ Depth = 1 /\ Len(stack[cpu]) = 1 /\ stack[cpu] \in Seq(Activation)
      /\ Top = stack[Shell][1]
  <2>1. Depth \in 1 .. 2 /\ Depth # 2
    BY <1>4, TopIn
  <2>2. p \in Pid
    BY <1>1, <1>4, TopIn DEF WellFormed, SpawnPcs, p
  <2> QED
    BY <1>4, <2>1, <2>2, TopIn, Consts DEF Depth
<1>6. p # Shell
  BY <1>1, <1>5 DEF Inv, Unborn, ToCome, p
<1>7. Len(q) = 1 /\ q[1] = b
  BY <1>5 DEF q
<1>8. stack'[cpu] = q
  BY <1>2, <1>5, <1>6 DEF Inv, TypeOK, Threads
<1>9. Top' = b /\ stack'[Shell][1] = b
  <2>1. Len(stack'[cpu]) = 1 /\ stack'[cpu][1] = b
    BY <1>7, <1>8
  <2> QED
    BY <1>1, <1>5, <2>1 DEF Top, Depth
<1>10. Spawning' /\ Spawning /\ New' = New /\ New = p
  BY <1>1, <1>3, <1>5, <1>9 DEF Spawning, New, p
<1>11. turnCurrent' = turnCurrent /\ turnQueue' = turnQueue
  BY <1>1, <1>3, <1>9 DEF turnCurrent, turnQueue
<1>12. (Top.op = "exit")' = (Top.op = "exit")
  BY <1>3, <1>9
<1>13. \A r \in Pid : r # p => state'[r] = state[r]
  BY <1>1 DEF Inv, TypeOK
<1> QED
  BY <1>1, <1>10, <1>11, <1>12, <1>13, Stutters

LEMMA PoppedStutters ==
    ASSUME Inv, View, View', Popped, queue = << >>
    PROVE  UNCHANGED Turns!vars
<1>1. /\ Top.pc = "popped" /\ Return /\ queue' = queue
      /\ UNCHANGED <<state, current, cpu, nextPid, halted>>
  BY DEF Popped, At, shell
<1>2. Top.op = "yield"
  BY <1>1, OpAt, TopIn DEF Inv, AtBoot
<1>3. SetTop(Frame("code", "code", 0))
  BY <1>1, <1>2, ReturnTop
<1>4. /\ "code" \notin Requeue \cup {"ecur"} /\ Top.pc \notin Requeue \cup {"ecur"}
      /\ "code" \notin NewPcs /\ Top.pc \notin NewPcs
  BY <1>1 DEF Requeue, NewPcs
<1> QED
  BY <1>1, <1>2, <1>3, <1>4, CodeFrame, CodeOps, PlainStutters

LEMMA StayStutters ==
    ASSUME UNCHANGED <<state, queue, current, nextPid, cpu, stack, halted>>
    PROVE  UNCHANGED Turns!vars
<1>1. /\ UNCHANGED <<Top, Spawning, Switching, Exiting, turnCurrent>>
  BY DEF Top, Depth, Spawning, Switching, Exiting, turnCurrent
<1>2. turnState' = turnState
  BY <1>1 DEF turnState
<1> QED
  BY <1>1, <1>2 DEF Turns!vars, turnQueue, turnNext

(* The steps that RoundRobin sees.                                         *)

(* What is next in the queue is another task, and known.                   *)
LEMMA NextIn ==
    ASSUME Inv, Live, Calm, View, queue # << >>, Top.pc \notin Chosen \cup {"swap", "ecur"}
    PROVE  /\ Head(queue) \in Pid /\ Head(queue) # cpu
           /\ turnCurrent = cpu /\ current = cpu /\ cpu \in Threads
           /\ Spawning => Head(queue) # New /\ New # cpu /\ New \in Pid
<1>1. Head(queue) \in Pid /\ Has(queue, Head(queue))
  <2>1. queue \in Seq(Pid)
    BY DEF Inv, TypeOK
  <2>2. Head(queue) = queue[1] /\ 1 \in 1 .. Len(queue)
    BY <2>1
  <2> QED
    BY <2>2, HeadIn DEF Has
<1>2. state[Head(queue)] = "Runnable"
  BY <1>1 DEF Live, OnePlace
<1>3. Top.pc \notin BackPcs
  BY DEF Chosen, Unmarked, BackPcs
<1>4. Head(queue) # cpu
  BY <1>1, <1>2, <1>3 DEF Calm, OneRuns, StateAt
<1>5. Spawning => Head(queue) # New
  BY <1>1, NewIn
<1> QED
  BY <1>1, <1>4, <1>5, TurnCases, TopIn DEF View

LEMMA Switches ==
    ASSUME Inv, Live, Calm, View, View', queue # << >>, queue' = Tail(queue),
           Top.pc \notin Chosen \cup Requeue \cup {"ecur"}, Top.op # "exit",
           Top'.pc = "swap", Top'.nxt = Head(queue), Top'.op # "exit",
           UNCHANGED <<state, current, cpu, nextPid, halted>>,
           Spawning' = Spawning, Spawning => New' = New
    PROVE  Turns!Switch
<1> DEFINE h == Head(queue)
<1>1. /\ h \in Pid /\ h # cpu /\ turnCurrent = cpu /\ current = cpu /\ cpu \in Threads
      /\ Spawning => h # New /\ New # cpu /\ New \in Pid
  BY NextIn DEF Requeue
<1>2. turnCurrent' = h
  BY DEF turnCurrent
<1> HIDE DEF h
<1>3. /\ turnQueue = queue
      /\ turnQueue' = IF cpu = Boot THEN Tail(queue) ELSE Append(Tail(queue), cpu)
  BY DEF turnQueue, Requeue
<1>4. ASSUME NEW p \in Pid
      PROVE  Seen(p)' = IF p = h THEN "Running" ELSE IF p = cpu THEN "Runnable" ELSE Seen(p)
  BY <1>1, <1>2 DEF Seen
<1>5. turnState' = [p \in Pid |-> IF p = h THEN "Running"
                                  ELSE IF p = cpu THEN "Runnable" ELSE turnState[p]]
  BY <1>4 DEF View
<1>6. turnState \in [Pid -> {turnState[p] : p \in Pid}]
  BY DEF View
<1>7. /\ cpu = Boot => turnState' = [turnState EXCEPT ![h] = "Running"]
      /\ cpu # Boot => turnState' = [turnState EXCEPT ![cpu] = "Runnable", ![h] = "Running"]
  BY <1>1, <1>5, <1>6, Consts
<1>8. turnNext' = turnNext /\ ~(halted # "no")
  BY DEF turnNext, Calm
<1> QED
  BY <1>1, <1>2, <1>3, <1>7, <1>8 DEF Turns!Switch, Turns!Boot, Boot, h

LEMMA PoppedSwitches ==
    ASSUME Inv, Live, Calm, View, View', Popped, queue # << >>
    PROVE  Turns!Switch
<1> DEFINE a == Frame(Top.op, "swap", Head(queue))
<1>1. /\ Top.pc = "popped" /\ SetTop(a) /\ queue' = Tail(queue)
      /\ UNCHANGED <<state, current, cpu, nextPid, halted>>
  BY DEF Popped, At, shell
<1>2. Top.op \in {"boot", "yield"}
  BY <1>1, OpAt
<1>3. a \in Activation /\ a.pc = "swap" /\ a.nxt = Head(queue) /\ a.op = Top.op
  BY <1>2, HeadIn, FrameIn DEF Ops, Pcs, SwitchPcs
<1> HIDE DEF a
<1>4. Top' = a
  BY <1>1, <1>3, Edited
<1>5. a.pc \notin NewPcs /\ Top.pc \notin NewPcs /\ Top.pc \notin Chosen \cup Requeue \cup {"ecur"}
  BY <1>1, <1>3 DEF NewPcs, Chosen, Unmarked, Requeue
<1>6. Spawning' = Spawning /\ (Spawning => New' = New)
  BY <1>1, <1>3, <1>5, SpawningKept
<1> QED
  BY <1>1, <1>2, <1>3, <1>4, <1>5, <1>6, Switches

LEMMA TickSwitches ==
    ASSUME Inv, Live, Calm, Quiet, View, View', Tick
    PROVE  Turns!Switch
<1> DEFINE f == Frame("isr", "swap", Head(queue))
           s == Append(stack[cpu], f)
<1>1. /\ queue # << >> /\ queue' = Tail(queue) /\ stack' = [stack EXCEPT ![cpu] = s] /\ irq
      /\ Top.pc \notin SwitchPcs
      /\ UNCHANGED <<state, current, cpu, nextPid, halted>>
  BY DEF Tick, shell, Quiet
<1>2. f \in Activation /\ f.op = "isr" /\ f.pc = "swap" /\ f.nxt = Head(queue)
  <2>1. "isr" \in Ops /\ "swap" \in Pcs /\ Head(queue) \in Threads
    BY <1>1, HeadIn DEF Ops, Pcs, SwitchPcs
  <2> QED
    BY <2>1, FrameIn
<1> HIDE DEF f
<1>3. cpu \in Threads /\ Len(stack[cpu]) = 1 /\ stack[cpu] \in Seq(Activation) /\ Depth = 1
  BY <1>1, TopIn DEF Inv, IrqMeans, Depth
<1>4. s \in Seq(Activation) /\ Len(s) = 2 /\ s[1] = stack[cpu][1] /\ s[2] = f
  BY <1>2, <1>3, SecondOf
<1> HIDE DEF s
<1>5. stack'[cpu] = s /\ \A t \in Threads : t # cpu => stack'[t] = stack[t]
  BY <1>1, <1>3 DEF Inv, TypeOK, Threads
<1>6. Top' = f
  BY <1>1, <1>4, <1>5 DEF Depth, Top
<1>7. stack'[Shell][1] = stack[Shell][1]
  BY <1>4, <1>5, Consts
<1>8. Spawning' = Spawning /\ New' = New
  BY <1>7 DEF Spawning, New
<1>9. Top.op # "exit" /\ Top.pc \notin Chosen \cup Requeue \cup {"ecur"}
  <2>1. WellFormed(Top)
    BY TopIn
  <2> QED
    BY <1>1, <2>1 DEF WellFormed, SwitchPcs, Chosen, Unmarked, Requeue
<1> QED
  BY <1>1, <1>2, <1>6, <1>8, <1>9, Switches

LEMMA ExitPoppedExits ==
    ASSUME Inv, Live, Calm, View, View', ExitPopped, halted' = halted
    PROVE  Turns!Exit
<1>1. /\ Top.pc = "epopped" /\ UNCHANGED <<state, current, cpu, nextPid>> /\ halted = "no"
  BY DEF ExitPopped, At, shell
<1>2. Top.op = "exit" /\ cpu # Shell /\ cpu # Boot
  BY <1>1, OpAt, ShellStays, TopIn
<1> DEFINE h == Head(queue)
           a == Frame("exit", "ecur", h)
<1>3. queue # << >> /\ SetTop(a) /\ queue' = Tail(queue)
  BY <1>1 DEF ExitPopped
<1>4. a \in Activation /\ a.pc = "ecur" /\ a.nxt = h /\ a.op = "exit"
  <2>1. "exit" \in Ops /\ "ecur" \in Pcs /\ h \in Threads
    BY <1>3, HeadIn DEF Ops, Pcs, SwitchPcs
  <2> QED
    BY <2>1, FrameIn
<1>5. /\ h \in Pid /\ h # cpu /\ turnCurrent = cpu /\ cpu \in Threads
      /\ Spawning => h # New /\ New # cpu /\ New \in Pid
  BY <1>1, <1>3, NextIn DEF Chosen, Unmarked
<1> HIDE DEF a
<1>6. Top' = a
  BY <1>1, <1>3, <1>4, Edited
<1>7. turnCurrent' = h /\ turnQueue = queue /\ turnQueue' = Tail(queue)
  BY <1>1, <1>3, <1>4, <1>6 DEF turnCurrent, turnQueue
<1> HIDE DEF h
<1>8. a.pc \notin NewPcs /\ Top.pc \notin NewPcs
  BY <1>1, <1>4 DEF NewPcs
<1>9. Spawning' = Spawning /\ (Spawning => New' = New)
  BY <1>1, <1>3, <1>4, <1>8, SpawningKept
<1>10. ASSUME NEW p \in Pid
       PROVE  Seen(p)' = IF p = h THEN "Running" ELSE IF p = cpu THEN "Zombie" ELSE Seen(p)
  BY <1>1, <1>4, <1>5, <1>6, <1>7, <1>9 DEF Seen
<1>11. turnState' = [p \in Pid |-> IF p = h THEN "Running"
                                   ELSE IF p = cpu THEN "Zombie" ELSE turnState[p]]
  BY <1>10 DEF View
<1>12. turnState \in [Pid -> {turnState[p] : p \in Pid}] /\ cpu \in Pid
  BY <1>2, <1>5 DEF View, Threads, Pid, Boot
<1>13. turnState' = [turnState EXCEPT ![cpu] = "Zombie", ![h] = "Running"]
  BY <1>5, <1>11, <1>12
<1>14. turnNext' = turnNext
  BY <1>1, <1>9 DEF turnNext
<1> QED
  BY <1>1, <1>2, <1>3, <1>5, <1>7, <1>13, <1>14
     DEF Turns!Exit, Turns!Boot, Turns!Shell, Boot, Shell, h

LEMMA SpawnPushedCreates ==
    ASSUME Inv, Live, Calm, View, View', SpawnPushed
    PROVE  Turns!Create
<1> DEFINE a == Frame("code", "code", 0)
           n == Top.nxt
<1>1. /\ Top.pc = "spushed" /\ SetTop(a) /\ queue' = Append(queue, n)
      /\ UNCHANGED <<state, current, cpu, nextPid, halted>>
  BY DEF SpawnPushed, At, Calm, Plain
<1>2. a \in Activation /\ a.op = "code" /\ a.pc = "code"
  BY CodeFrame, CodeOps
<1> HIDE DEF a
<1>3. Top.op = "spawn" /\ cpu = Shell /\ Top = stack[Shell][1] /\ Depth = 1 /\ n \in Pid
  <2>1. Top.op = "spawn"
    BY <1>1, OpAt DEF SpawnPcs
  <2> QED
    BY <1>1, <2>1, TopIn DEF WellFormed, SpawnPcs
<1>4. Top' = a /\ stack'[Shell][1] = a
  BY <1>1, <1>2, <1>3, Edited
<1>5. Spawning /\ ~Spawning' /\ New = n
  BY <1>1, <1>2, <1>3, <1>4 DEF Spawning, New, n
<1>6. n = nextPid - 1 /\ nextPid \in Int
  <2>1. nextPid \in 2 .. MaxPid + 1
    BY DEF Inv, TypeOK
  <2>2. n = nextPid - 1
    BY <1>1, <1>3 DEF Calm, Newest, NewPcs, n
  <2> QED
    BY <2>1, <2>2, Consts
<1>7. state[n] = "Runnable" /\ n # cpu
  <2>1. InHand(Top, n)
    BY <1>1 DEF InHand, n
  <2>2. Held(cpu, Depth, n) /\ cpu \in Threads /\ Depth \in 1 .. 2
    BY <2>1, TopIn DEF Held, Top, Depth
  <2> QED
    BY <1>3, <1>5, <2>2 DEF Live, OnePlace, View
<1> HIDE DEF n
<1>8. turnCurrent = cpu /\ turnCurrent' = cpu
  <2>1. turnCurrent = cpu /\ current = cpu
    BY <1>1, TurnCases DEF Chosen, Unmarked
  <2> QED
    BY <1>1, <1>2, <1>4, <2>1 DEF turnCurrent
<1>9. turnQueue = queue /\ turnQueue' = Append(queue, n)
  BY <1>1, <1>2, <1>4 DEF turnQueue
<1>10. ASSUME NEW p \in Pid
       PROVE  Seen(p)' = IF p = n THEN "Runnable" ELSE Seen(p)
  BY <1>1, <1>5, <1>7, <1>8 DEF Seen
<1>11. turnState' = [p \in Pid |-> IF p = n THEN "Runnable" ELSE turnState[p]]
  BY <1>10 DEF View
<1>12. turnState \in [Pid -> {turnState[p] : p \in Pid}]
  BY DEF View
<1>13. turnState' = [turnState EXCEPT ![n] = "Runnable"]
  BY <1>3, <1>11, <1>12
<1>14. turnNext = n /\ turnNext' = nextPid /\ nextPid = n + 1
  BY <1>1, <1>5, <1>6 DEF turnNext
<1>15. ~(halted # "no")
  BY DEF Calm
<1> QED
  BY <1>1, <1>3, <1>8, <1>9, <1>13, <1>14, <1>15 DEF Turns!Create, Turns!Pid, Pid

LEMMA TakenReaps ==
    ASSUME Inv, Live, Calm, View, View', Taken
    PROVE  \E p \in Turns!Pid : Turns!Reap(p)
<1> DEFINE a == Frame("code", "code", 0)
           n == Top.nxt
<1>1. /\ Top.pc = "taken" /\ state' = [state EXCEPT ![n] = "none"]
      /\ UNCHANGED <<queue, current, cpu, nextPid>>
  BY DEF Taken, At, shell
<1>2. Top.op = "reap" /\ cpu = Shell /\ Top = stack[Shell][1] /\ n \in Pid /\ Depth = 1
  <2>1. Top.op = "reap"
    BY <1>1, OpAt DEF ReapPcs
  <2> QED
    BY <1>1, <2>1, TopIn DEF WellFormed, ReapPcs
<1>3. state[n] = "Zombie"
  BY <1>1, <1>2 DEF Calm, Reaping, ReapPcs
<1>4. SetTop(a) /\ halted' = halted
  BY <1>3 DEF Taken
<1>5. a \in Activation /\ a.op = "code" /\ a.pc = "code"
  BY CodeFrame, CodeOps
<1>6. state'[n] = "none" /\ \A p \in Pid : p # n => state'[p] = state[p]
  BY <1>1, <1>2 DEF Inv, TypeOK
<1> HIDE DEF a, n
<1>7. n # cpu
  BY <1>2, <1>3 DEF Calm, ShellWaits
<1>8. Top' = a /\ stack'[Shell][1] = a
  BY <1>1, <1>2, <1>4, <1>5, Edited
<1>9. ~Spawning /\ ~Spawning'
  BY <1>1, <1>2, <1>5, <1>8 DEF Spawning
<1>10. turnCurrent = cpu /\ turnCurrent' = cpu
  <2>1. turnCurrent = cpu /\ current = cpu
    BY <1>1, TurnCases DEF Chosen, Unmarked
  <2> QED
    BY <1>1, <1>5, <1>8, <2>1 DEF turnCurrent
<1>11. turnQueue' = turnQueue /\ turnNext' = turnNext
  BY <1>1, <1>5, <1>8, <1>9 DEF turnQueue, turnNext
<1>12. ASSUME NEW p \in Pid
       PROVE  Seen(p)' = IF p = n THEN "none" ELSE Seen(p)
  BY <1>1, <1>6, <1>7, <1>9, <1>10 DEF Seen
<1>13. turnState' = [p \in Pid |-> IF p = n THEN "none" ELSE turnState[p]]
  BY <1>12 DEF View
<1>14. turnState \in [Pid -> {turnState[p] : p \in Pid}] /\ turnState[n] = "Zombie"
  BY <1>2, <1>3, <1>7, <1>9, <1>10 DEF View, Seen
<1>15. turnState' = [turnState EXCEPT ![n] = "none"]
  BY <1>2, <1>13, <1>14
<1>16. ~(halted # "no") /\ n \in Turns!Pid
  BY <1>2 DEF Calm, Turns!Pid, Pid
<1>17. Turns!Reap(n)
  BY <1>4, <1>10, <1>11, <1>14, <1>15, <1>16 DEF Turns!Reap
<1> QED
  BY <1>16, <1>17

LEMMA TurnsInit == Init => Turns!Init
<1> SUFFICES ASSUME Init PROVE Turns!Init
  OBVIOUS
<1>1. /\ queue = <<Shell>> /\ current = Boot /\ cpu = Boot /\ halted = "no" /\ nextPid = Shell + 1
      /\ state = [p \in Pid |-> IF p = Shell THEN "Runnable" ELSE "none"]
  BY DEF Init
<1>2. Inv /\ Live /\ Calm
  BY InvInit, LiveInit, CalmInit DEF Turn, Calm
<1>3. \A t \in Threads : stack[t][1].pc \in {"pop", "code"} /\ Len(stack[t]) = 1
  BY DEF Init, Frame, Threads
<1>4. Top.pc \in {"pop", "code"} /\ ~Spawning
  <2>1. stack[Shell][1].pc \in {"pop", "code"}
    BY <1>3, Consts
  <2> QED
    BY <1>1, <1>3, <2>1, Consts DEF Depth, Top, Spawning
<1>5. turnCurrent = Boot /\ turnQueue = queue /\ turnNext = nextPid
  BY <1>1, <1>4 DEF turnCurrent, turnQueue, turnNext
<1>6. \A p \in Pid : Seen(p) = state[p]
  BY <1>1, <1>4, <1>5, Consts DEF Seen
<1>7. turnState = [p \in Pid |-> IF p = Shell THEN "Runnable" ELSE "none"]
  BY <1>1, <1>2, <1>6, ViewHolds DEF View
<1> QED
  BY <1>1, <1>5, <1>7 DEF Turns!Init, Turns!Pid, Turns!Shell, Turns!Boot, Pid, Shell, Boot

(* Every step of the scheduler is a step of RoundRobin, or none.           *)
LEMMA TurnsStep ==
    ASSUME Quiet, Inv, Live, Calm, View, View', [Next]_vars, halted' = halted
    PROVE  [Turns!Next]_(Turns!vars)
<1>1. CASE Pop \/ ExitPop \/ Insert \/ SpawnPush \/ Take \/ Update
  BY <1>1, LocksStutter
<1>2. CASE Popped
  BY <1>2, PoppedStutters, PoppedSwitches DEF Turns!Next
<1>3. CASE Swap \/ Read \/ Push
  BY <1>3, SwapStutters
<1>4. CASE Demote \/ Pushed \/ Save \/ Load
  BY <1>4, DemoteStutters, PushedStutters, SaveStutters, LoadStutters
<1>5. CASE Mark \/ ExitMark
  BY <1>5, MarkStutters
<1>6. CASE Exit \/ ExitCurrent \/ Inserted
  BY <1>6, ExitStutters, ExitCurrentStutters, InsertedStutters
<1>7. CASE ExitPopped
  BY <1>7, ExitPoppedExits DEF Turns!Next
<1>8. CASE SpawnPushed
  BY <1>8, SpawnPushedCreates DEF Turns!Next
<1>9. CASE Taken
  BY <1>9, TakenReaps DEF Turns!Next
<1>10. CASE Tick
  BY <1>10, TickSwitches DEF Turns!Next
<1>11. CASE \E kind \in Kinds : Spawn(kind)
  BY <1>11, SpawnStutters
<1>12. CASE Yield \/ Access \/ Accessed \/ Updated \/ \E p \in jobs : Reap(p)
  BY <1>12, CodeStutters
<1>13. CASE \E p \in jobs : GiveUp(p)
  <2>1. UNCHANGED <<state, queue, current, nextPid, cpu, stack, halted>>
    BY <1>13 DEF GiveUp
  <2> QED
    BY <2>1, StayStutters
<1>14. CASE Patch \/ Patched \/ Trampoline
  BY <1>14, NeverIsolated
<1>15. CASE UNCHANGED vars
  <2>1. UNCHANGED <<state, queue, current, nextPid, cpu, stack, halted>>
    BY <1>15 DEF vars
  <2> QED
    BY <2>1, StayStutters
<1> QED
  BY <1>1, <1>2, <1>3, <1>4, <1>5, <1>6, <1>7, <1>8, <1>9, <1>10, <1>11, <1>12, <1>13, <1>14, <1>15
     DEF Next, Kernel, Choice, SwitchStep, ExitStep, SpawnStep, ReapStep

(* mod.rs:301-350, 532-585: behind the locks, the contexts and the timer,  *)
(* tasks take turns as RoundRobin says: yield_now, a tick, exit_current,   *)
(* spawn and reap are one step each, and the rest cannot be told.          *)
THEOREM TurnsTaken == ASSUME Quiet PROVE Spec => TakesTurns
<1>1. Init => Turns!Init
  BY TurnsInit
<1>2. Inv /\ Turn /\ Calm /\ Inv' /\ Turn' /\ Calm' /\ [Next]_vars => [Turns!Next]_(Turns!vars)
  <2> SUFFICES ASSUME Inv, Turn, Calm, Inv', Turn', Calm', [Next]_vars
               PROVE  [Turns!Next]_(Turns!vars)
    OBVIOUS
  <2>1. Live /\ Live' /\ halted' = halted
    BY DEF Turn, Calm
  <2>2. View /\ View'
    BY <2>1, ViewHolds, ViewNext
  <2> QED
    BY <2>1, <2>2, TurnsStep
<1> QED
  BY <1>1, <1>2, InvAlways, TurnAlways, CalmAlways, PTL DEF Spec, TakesTurns, Turns!Spec
=============================================================================
