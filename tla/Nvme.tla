-------------------------------- MODULE Nvme --------------------------------
(***************************************************************************)
(* The NVMe driver (src/kernel/src/drivers/nvme.rs), the block device on   *)
(* top of it (src/kernel/src/hal/block.rs) and a controller that answers   *)
(* when it likes, in any order, or not in time.                            *)
(*                                                                         *)
(* Only kshell calls the driver, one call at a time; it polls.  A call is  *)
(* a sequence of commands (todo).  Queue memory comes from frames that are *)
(* never given back, so each attempt at a queue has memory of its own (g). *)
(* Queue 0 is the admin queue, queue 1 the one for I/O.                    *)
(*                                                                         *)
(* What a block holds is the number of the block it was meant for.         *)
(***************************************************************************)
EXTENDS Integers, Sequences

CONSTANTS
    NBlocks,        \* the namespace's size
    Asks,           \* the calls that are made: the commands and the block
    Depth,          \* of each queue: 64 and 16 in the code
    MaxCmds,        \* bound: commands ever submitted, before 16-bit ids repeat
    MaxMems         \* bound: queue memories ever taken

ASSUME NvmeAssumption ==
    /\ NBlocks \in Nat \ {0} /\ MaxCmds \in 0 .. 65536 /\ MaxMems \in Nat
    /\ DOMAIN Depth = {0, 1} /\ \A q \in {0, 1} : Depth[q] \in Nat /\ Depth[q] >= 2

ASSUME AsksAssumption ==
    \A a \in Asks : /\ a[1] \in { <<"identify">>, <<"read">>, <<"write">>,
                                   <<"identify", "read">>, <<"identify", "write">> }
                    /\ a[2] \in Nat

VARIABLES
    admin, io,      \* ADMIN_QUEUE and IO_QUEUE
    pc, todo, lba,  \* the call kshell is in
    n, mems,        \* commands submitted, queue memories taken
    ioMem,          \* the memory of the I/O queue being created
    sq, cq,         \* queue memory: submissions, completions
    dma,            \* the frame of each command's transfer
    en, ready, fatal, reg,      \* CC.EN, CSTS.RDY, CSTS.CFS, ASQ and ACQ
    dsq, dcq,       \* the queues as the controller knows them
    busy,           \* commands fetched and not yet answered
    block           \* what the blocks hold

host == <<admin, io, pc, todo, lba, n, mems, ioMem>>
ctrl == <<en, ready, fatal, reg, dsq, dcq, busy, block>>
vars == <<host, ctrl, sq, cq, dma>>

Queues  == {0, 1}
Rw      == {"read", "write"}
Nothing == -1
None    == [on |-> FALSE, g |-> 0, tail |-> 0, head |-> 0, phase |-> TRUE, cid |-> 0]
Off     == [on |-> FALSE, g |-> 0, tail |-> 0, head |-> 0, phase |-> TRUE]
NoCmd   == [q |-> 0, id |-> 0, cid |-> 0, kind |-> "none", g |-> 0, lba |-> 0]
NoEntry == [phase |-> FALSE, cid |-> 0, id |-> 0, ok |-> FALSE]

Init ==
    /\ admin = None /\ io = None
    /\ pc = "idle" /\ todo = << >> /\ lba = 0
    /\ n = 0 /\ mems = 0 /\ ioMem = 0
    /\ sq = [g \in 1 .. MaxMems |-> << >>] /\ cq = [g \in 1 .. MaxMems |-> << >>]
    /\ dma = [i \in 1 .. MaxCmds |-> Nothing]
    /\ ready \in BOOLEAN /\ en = ready     \* the firmware may have left it on
    /\ fatal = FALSE /\ reg = 0
    /\ dsq = [q \in Queues |-> Off] /\ dcq = [q \in Queues |-> Off]
    /\ busy = {}
    /\ block = [b \in 0 .. NBlocks - 1 |-> b]
-----------------------------------------------------------------------------
(* Making queues.                                                           *)

(* Two runs of frames for a queue pair, zeroed.                             *)
TakeMem(q) ==
    /\ mems < MaxMems
    /\ mems' = mems + 1
    /\ sq' = [sq EXCEPT ![mems + 1] = [i \in 0 .. Depth[q] - 1 |-> NoCmd]]
    /\ cq' = [cq EXCEPT ![mems + 1] = [i \in 0 .. Depth[q] - 1 |-> NoEntry]]

Handle(g) == [None EXCEPT !.on = TRUE, !.g = g]

(* A call ends.                                                             *)
Return ==
    /\ pc' = "idle" /\ todo' = << >> /\ lba' = 0

(* init_admin_queues: memory, then CC := 0.                                 *)
Reset ==
    /\ TakeMem(0)
    /\ en' = FALSE
    /\ pc' = "disable"
    /\ UNCHANGED <<admin, io, lba, n, ioMem, dma, ready, fatal, reg, dsq, dcq, busy, block>>

\* mutant: the I/O queue's handle is kept
invalidate_KeepsIo == admin' = None /\ UNCHANGED io

invalidate_persistent_state == admin' = None /\ io' = None

(* init_admin_queues returns, to nvmeinittest or to ensure_admin_queue.     *)
InitReturns(ok) ==
    IF todo = <<"nvmeinittest">>
    THEN Return /\ invalidate_persistent_state
    ELSE /\ UNCHANGED io
         /\ IF ok THEN pc' = "next" /\ admin' = Handle(mems) /\ UNCHANGED <<todo, lba>>
            ELSE Return /\ UNCHANGED admin

(* CSTS.RDY is clear: AQA, ASQ, ACQ, then EN.                               *)
Enable ==
    /\ pc = "disable" /\ ~ready
    /\ pc' = "enable"
    /\ en' = TRUE /\ reg' = mems
    /\ UNCHANGED <<admin, io, todo, lba, n, mems, ioMem, sq, cq, dma, ready, fatal, dsq, dcq,
                   busy, block>>

InitTimeout ==
    /\ \/ pc = "disable" /\ ready
       \/ pc = "enable" /\ ~ready
    /\ InitReturns(FALSE)
    /\ UNCHANGED <<n, mems, ioMem, sq, cq, dma, ctrl>>

InitDone ==
    /\ pc = "enable"
    /\ \/ fatal /\ InitReturns(FALSE)
       \/ ~fatal /\ ready /\ InitReturns(TRUE)
    /\ UNCHANGED <<n, mems, ioMem, sq, cq, dma, ctrl>>

nvmeinittest == pc = "idle" /\ todo' = <<"nvmeinittest">> /\ Reset

(* identifytest, nvmeiotest, blockdevtest: one call of the driver, or of    *)
(* the block device, which asks for the size first.                         *)
Call(c, b) ==
    /\ pc = "idle"
    /\ pc' = "next" /\ todo' = c /\ lba' = b
    /\ UNCHANGED <<admin, io, n, mems, ioMem, ctrl, sq, cq, dma>>

NeedsIo == pc = "next" /\ todo # << >> /\ Head(todo) \in Rw /\ ~io.on
OnAdmin == pc = "next" /\ todo # << >> /\ Head(todo) \notin Rw

ensure_admin_queue ==
    /\ NeedsIo \/ OnAdmin
    /\ ~admin.on
    /\ Reset /\ UNCHANGED todo

(* Memory for the pair; two commands come first.                            *)
ensure_io_queue ==
    /\ NeedsIo /\ admin.on
    /\ TakeMem(1)
    /\ ioMem' = mems + 1
    /\ todo' = <<"createCq", "createSq">> \o todo
    /\ UNCHANGED <<admin, io, pc, lba, n, dma, ctrl>>

Finish ==
    /\ pc = "next" /\ todo = << >>
    /\ Return
    /\ UNCHANGED <<admin, io, n, mems, ioMem, ctrl, sq, cq, dma>>
-----------------------------------------------------------------------------
(* Commands: submit_admin_and_wait and submit_io_and_wait.                  *)

Queue(kind) == IF kind \in Rw THEN 1 ELSE 0

\* mutant: every transfer uses the same frame
Buffer_One(i) == 1

(* alloc_contiguous_frames(1): never given back, so never given twice.      *)
Buffer(i) == i

Prepared(kind) == IF kind = "write" THEN lba ELSE Nothing

Pushed(h, q) == [h EXCEPT !.tail = (@ + 1) % Depth[q], !.cid = @ + 1]

Command(q, h, kind) ==
    [q |-> q, id |-> n + 1, cid |-> h.cid, kind |-> kind, g |-> ioMem, lba |-> lba]

(* The command into its slot, the tail, the doorbell.                       *)
Submit ==
    /\ pc = "next" /\ todo # << >> /\ n < MaxCmds
    /\ LET k == Head(todo)
           q == Queue(k)
           h == IF q = 1 THEN io ELSE admin
       IN  /\ h.on
           /\ n' = n + 1
           /\ sq' = [sq EXCEPT ![h.g][h.tail] = Command(q, h, k)]
           /\ dma' = IF k \in Rw THEN [dma EXCEPT ![Buffer(n + 1)] = Prepared(k)] ELSE dma
           /\ IF q = 1 THEN io' = Pushed(io, 1) /\ UNCHANGED admin
              ELSE admin' = Pushed(admin, 0) /\ UNCHANGED io
           /\ dsq' = [dsq EXCEPT ![q].tail = (h.tail + 1) % Depth[q]]
    /\ pc' = "wait"
    /\ UNCHANGED <<todo, lba, mems, ioMem, cq, en, ready, fatal, reg, dcq, busy, block>>

Waiting == pc = "wait"
Q       == Queue(Head(todo))
H       == IF Q = 1 THEN io ELSE admin
Visible(h) == cq[h.g][h.head].phase = h.phase

Popped(h, q) == [h EXCEPT !.head = (@ + 1) % Depth[q],
                          !.phase = IF h.head + 1 = Depth[q] THEN ~@ ELSE @]

\* mutant: any completion will do
Mine_Any(e, h) == TRUE

Mine(e, h) == e.cid = h.cid - 1

(* The block device has asked for the size first (block.rs:86-100).         *)
PastEnd == Len(todo) = 2 /\ Head(todo) = "identify" /\ lba >= NBlocks

(* The entry at the head is taken, the doorbell rung, and only then is its  *)
(* cid compared and its status looked at.                                   *)
Consume ==
    /\ Waiting /\ Visible(H)
    /\ LET e    == cq[H.g][H.head]
           k    == Head(todo)
           ok   == Mine(e, H) /\ e.ok
       IN  /\ dcq' = [dcq EXCEPT ![Q].head = (H.head + 1) % Depth[Q]]
           /\ IF Q = 1 THEN io' = Popped(io, 1) /\ UNCHANGED admin
              ELSE /\ admin' = Popped(admin, 0)
                   /\ io' = IF ok /\ k = "createSq" THEN Handle(ioMem) ELSE io
           /\ IF ok /\ ~PastEnd THEN pc' = "next" /\ todo' = Tail(todo) /\ UNCHANGED lba ELSE Return
    /\ UNCHANGED <<n, mems, ioMem, sq, cq, dma, en, ready, fatal, reg, dsq, busy, block>>

CommandTimeout ==
    /\ Waiting /\ ~Visible(H)
    /\ Return
    /\ UNCHANGED <<admin, io, n, mems, ioMem, ctrl, sq, cq, dma>>
-----------------------------------------------------------------------------
(* The controller.                                                          *)

(* EN clear is a reset: nothing of the queues or of their commands is left. *)
CtrlResets ==
    /\ ~en /\ (ready \/ fatal)
    /\ ready' = FALSE /\ fatal' = FALSE
    /\ dsq' = [q \in Queues |-> Off] /\ dcq' = [q \in Queues |-> Off]
    /\ busy' = {}
    /\ UNCHANGED <<host, sq, cq, dma, en, reg, block>>

CtrlStarts ==
    /\ en /\ ~ready /\ ~fatal
    /\ \/ /\ ready' = TRUE /\ UNCHANGED fatal
          /\ dsq' = [dsq EXCEPT ![0] = [Off EXCEPT !.on = TRUE, !.g = reg]]
          /\ dcq' = [dcq EXCEPT ![0] = [Off EXCEPT !.on = TRUE, !.g = reg]]
       \/ fatal' = TRUE /\ UNCHANGED <<ready, dsq, dcq>>
    /\ UNCHANGED <<host, sq, cq, dma, en, reg, busy, block>>

Fetch(q) ==
    /\ ready /\ dsq[q].on /\ dsq[q].head # dsq[q].tail
    /\ busy' = busy \cup {sq[dsq[q].g][dsq[q].head]}
    /\ dsq' = [dsq EXCEPT ![q].head = (@ + 1) % Depth[q]]
    /\ UNCHANGED <<host, sq, cq, dma, en, ready, fatal, reg, dcq, block>>

(* What a command does; any may fail, and some must.                        *)
Possible(c) ==
    CASE c.kind = "createCq" -> ~dcq[1].on
      [] c.kind = "createSq" -> dcq[1].on /\ ~dsq[1].on
      [] c.kind \in Rw       -> c.lba < NBlocks
      [] OTHER               -> TRUE

Effect(c) ==
    /\ dsq' = IF c.kind = "createSq" THEN [dsq EXCEPT ![1] = [Off EXCEPT !.on = TRUE, !.g = c.g]]
              ELSE dsq
    /\ block' = IF c.kind = "write" THEN [block EXCEPT ![c.lba] = dma[Buffer(c.id)]] ELSE block
    /\ dma' = IF c.kind = "read" THEN [dma EXCEPT ![Buffer(c.id)] = block[c.lba]] ELSE dma

(* The completion goes to the tail; the phase turns with the queue.         *)
Posted(r, q) == [r EXCEPT !.tail = (@ + 1) % Depth[q],
                          !.phase = IF r.tail + 1 = Depth[q] THEN ~@ ELSE @]

(* A command is done and answered, unless the completion queue is full as   *)
(* far as the doorbell tells.                                               *)
Complete(c, ok) ==
    LET r == dcq[c.q] IN
    /\ ready /\ (r.tail + 1) % Depth[c.q] # r.head
    /\ busy' = busy \ {c}
    /\ cq' = [cq EXCEPT ![r.g][r.tail] = [phase |-> r.phase, cid |-> c.cid, id |-> c.id, ok |-> ok]]
    /\ dcq' = [q \in Queues |->
                  IF q = c.q THEN Posted(r, q)
                  ELSE IF ok /\ c.kind = "createCq" THEN [Off EXCEPT !.on = TRUE, !.g = c.g]
                  ELSE dcq[q]]
    /\ IF ok THEN Possible(c) /\ Effect(c) ELSE UNCHANGED <<dsq, block, dma>>
    /\ UNCHANGED <<host, sq, en, ready, fatal, reg>>

Next ==
    \/ \E a \in Asks : Call(a[1], a[2])
    \/ nvmeinittest \/ ensure_admin_queue \/ Enable \/ InitTimeout \/ InitDone
    \/ ensure_io_queue \/ Submit \/ Consume \/ CommandTimeout \/ Finish
    \/ CtrlResets \/ CtrlStarts
    \/ \E q \in Queues : Fetch(q)
    \/ \E c \in busy, ok \in BOOLEAN : Complete(c, ok)

Spec == Init /\ [][Next]_vars
-----------------------------------------------------------------------------
(* Properties.                                                              *)

HandleOK(h, q) ==
    /\ h.g \in 0 .. mems /\ h.tail \in 0 .. Depth[q] - 1 /\ h.head \in 0 .. Depth[q] - 1
    /\ h.cid \in 0 .. n /\ (h.on <=> h.g # 0)

TypeOK ==
    /\ HandleOK(admin, 0) /\ HandleOK(io, 1)
    /\ pc \in {"idle", "next", "wait", "disable", "enable"}
    /\ pc \in {"wait", "disable", "enable"} => todo # << >>
    /\ n \in 0 .. MaxCmds /\ mems \in 0 .. MaxMems /\ ioMem \in 0 .. mems
    /\ \A c \in busy : c.id \in 1 .. n
    /\ block \in [0 .. NBlocks - 1 -> -1 .. NBlocks]

(* nvme.rs:432-438: a call goes on only if the controller has done this     *)
(* very command, however many late answers are in the queue; and what a     *)
(* read then hands out is what it asked for.                                *)
OkMeansDone ==
    [][pc = "wait" /\ pc' = "next" =>
         LET e == cq[H.g][H.head] IN
         /\ e.id = n /\ e.ok
         /\ Head(todo) = "read" => dma[Buffer(n)] = lba]_vars

(* nvme.rs:413-427: the phase bit at the head tells whether there is a      *)
(* completion that has not been taken, past any number of turns.            *)
PhaseTells ==
    \A q \in Queues : LET h == IF q = 1 THEN io ELSE admin IN
        h.on /\ dcq[q].on /\ dcq[q].g = h.g => (Visible(h) <=> h.head # dcq[q].tail)

(* nvme.rs:586-599: the queues that are remembered are the controller's,    *)
(* whenever the shell is not in the middle of nvmeinittest; the I/O queue   *)
(* never without the admin queue, which io_timeout_ms() expects; and the    *)
(* phase bit is in step with both.                                          *)
QueuesAgree ==
    /\ TypeOK /\ PhaseTells
    /\ todo # <<"nvmeinittest">> =>
        /\ io.on => admin.on
        /\ \A q \in Queues : LET h == IF q = 1 THEN io ELSE admin IN
             h.on => /\ en /\ ready
                     /\ dsq[q].on /\ dsq[q].g = h.g
                     /\ dcq[q].on /\ dcq[q].g = h.g

(* nvme.rs:814-819, 846-848: a block only ever holds what was written to    *)
(* it, though commands given up on may read and fill their frames later.    *)
BlocksHoldWrites == \A b \in 0 .. NBlocks - 1 : block[b] = b
=============================================================================
