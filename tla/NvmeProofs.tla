----------------------------- MODULE NvmeProofs -----------------------------
(***************************************************************************)
(* Theorems about the NVMe driver against any controller that Nvme admits, *)
(* for any depth of its queues, any size of the disk and any sequence of   *)
(* calls.                                                                  *)
(***************************************************************************)
EXTENDS Nvme, SequenceTheorems, TLAPS

Kinds  == {"identify", "createCq", "createSq", "read", "write"}
Create == {"createCq", "createSq"}
Inits  == <<"nvmeinittest">>
Todos  == { << >>, <<"identify">>, <<"read">>, <<"write">>,
            <<"identify", "read">>, <<"identify", "write">>,
            <<"createCq", "createSq", "read">>, <<"createCq", "createSq", "write">>,
            <<"createSq", "read">>, <<"createSq", "write">>, Inits }

Slots(q)  == 0 .. Depth[q] - 1
Handles   == [on : BOOLEAN, g : Nat, tail : Nat, head : Nat, phase : BOOLEAN, cid : Nat]
Rings     == [on : BOOLEAN, g : Nat, tail : Nat, head : Nat, phase : BOOLEAN]
Commands  == [q : Queues, id : Nat, cid : Nat, kind : Kinds, g : Nat, lba : Nat]
Entries   == [phase : BOOLEAN, cid : Nat, id : Nat, ok : BOOLEAN]

Hd(q) == IF q = 1 THEN io ELSE admin

-----------------------------------------------------------------------------
(* Memory of a queue pair; nothing has been put into it yet.                *)
MemOK(q, g) == /\ g \in 1 .. mems
               /\ sq[g] \in [Slots(q) -> Commands \cup {NoCmd}]
               /\ cq[g] \in [Slots(q) -> Entries]
Fresh(q, g) == \A i \in Slots(q) : sq[g][i] = NoCmd /\ cq[g][i] = NoEntry

Started(g) == [Off EXCEPT !.on = TRUE, !.g = g]

(* A command the controller may still act on: fetched, or in a queue it has. *)
InSlot(q, c) == dsq[q].on /\ \E i \in Slots(q) : c = sq[dsq[q].g][i] /\ c # NoCmd
Live(c) == c \in busy \/ \E q \in Queues : InSlot(q, c)

Typed ==
    /\ admin \in Handles /\ io \in Handles /\ HandleOK(admin, 0) /\ HandleOK(io, 1)
    /\ dsq \in [Queues -> Rings] /\ dcq \in [Queues -> Rings]
    /\ pc \in {"idle", "next", "wait", "disable", "enable"} /\ todo \in Todos
    /\ lba \in Nat /\ n \in 0 .. MaxCmds /\ mems \in 0 .. MaxMems
    /\ ioMem \in 0 .. mems /\ reg \in 0 .. mems
    /\ sq = [g \in 1 .. MaxMems |-> sq[g]] /\ cq = [g \in 1 .. MaxMems |-> cq[g]]
    /\ dma \in [1 .. MaxCmds -> Int]
    /\ busy \subseteq Commands
    /\ block = [b \in 0 .. NBlocks - 1 |-> b]

(* Where the call is.                                                       *)
Control ==
    /\ pc = "idle" => todo = << >>
    /\ pc \in {"wait", "disable", "enable"} => todo # << >>
    /\ pc \in {"next", "wait"} => todo # Inits
    /\ pc = "wait" => Hd(Q).on /\ n > 0
    /\ io.on => admin.on

(* init_admin_queues is under way, in new memory.                           *)
Starting ==
    pc \in {"disable", "enable"} =>
        /\ todo # Inits => ~admin.on /\ Head(todo) \notin Create
        /\ admin.g < mems /\ io.g < mems /\ MemOK(0, mems) /\ Fresh(0, mems)
        /\ pc = "disable" =>
             /\ ~en
             /\ \A q \in Queues : dcq[q].on => dcq[q].g < mems
             /\ \A c : Live(c) /\ c.kind \in Create => c.g < mems
        /\ pc = "enable" =>
             /\ en
             /\ reg = mems
             /\ ready => /\ busy = {} /\ dsq[0] = Started(mems) /\ dcq[0] = Started(mems)
                         /\ ~dsq[1].on /\ ~dcq[1].on

(* ensure_io_queue is under way, in new memory.                             *)
Creating ==
    pc \in {"next", "wait"} /\ todo # << >> /\ Head(todo) \in Create =>
        /\ admin.on /\ ~io.on
        /\ ioMem # admin.g /\ MemOK(1, ioMem) /\ Fresh(1, ioMem)
        /\ Head(todo) = "createSq" => dcq[1].on /\ dcq[1].g = ioMem

(* What is remembered is what the controller has.                           *)
Agree ==
    \A q \in Queues : Hd(q).on =>
        /\ todo # Inits => en /\ ready
        /\ ready /\ pc # "enable" => dsq[q].on /\ dsq[q].g = Hd(q).g

(* The controller's queues.                                                 *)
Ctrl ==
    /\ en /\ ~ready => MemOK(0, reg) /\ Fresh(0, reg)
    /\ ~ready => busy = {} /\ \A q \in Queues : ~dsq[q].on /\ ~dcq[q].on
    /\ \A q \in Queues : /\ dsq[q].on => /\ dcq[q].on /\ dsq[q].g = dcq[q].g
                                         /\ dsq[q].tail \in Slots(q) /\ dsq[q].head \in Slots(q)
                         /\ dcq[q].on => /\ MemOK(q, dcq[q].g) /\ dsq[0].on
                                         /\ dcq[q].tail \in Slots(q) /\ dcq[q].head \in Slots(q)
    /\ dcq[1].on => dcq[1].g # dsq[0].g
    /\ dcq[1].on /\ ~dsq[1].on => dcq[1] = Started(dcq[1].g) /\ Fresh(1, dcq[1].g)
    /\ \A c \in busy : dsq[c.q].on

(* A slot is empty until the tail first passes it.                          *)
SlotOK(q, i) ==
    LET c == sq[dsq[q].g][i] IN
    /\ c # NoCmd => c.q = q
    /\ c = NoCmd => dsq[q].tail <= i /\ dsq[q].head <= dsq[q].tail
SlotsOK == \A q \in Queues : dsq[q].on => \A i \in Slots(q) : SlotOK(q, i)

CmdOK(c) ==
    /\ c \in Commands /\ c.q = Queue(c.kind) /\ c.id \in 1 .. n
    /\ c.kind = "write" => dma[c.id] = c.lba
    /\ c.kind \in Create => /\ MemOK(1, c.g) /\ c.g # dsq[0].g
                            /\ ~dsq[1].on => Fresh(1, c.g)
    /\ c.kind = "createSq" => dcq[1].on /\ dcq[1].g = c.g
CmdsOK == /\ \A c : Live(c) => CmdOK(c)
          /\ \A c, d : Live(c) /\ Live(d) /\ c.id = d.id => c = d

(* Nothing goes over an I/O queue before the driver has one.                *)
NoIoYet ==
    admin.on /\ ~io.on =>
        /\ dcq[1].on => dcq[1] = Started(dcq[1].g) /\ Fresh(1, dcq[1].g)
        /\ dsq[1].on => dsq[1] = Started(dsq[1].g)
        /\ \A c \in busy : c.q = 0

(* Both sides of a queue that both have.                                    *)
Joined(q) == Hd(q).on /\ dcq[q].on /\ dcq[q].g = Hd(q).g

(* The phase of each entry tells on which turn it was written.              *)
Phases(q) ==
    /\ \A i \in Slots(q) : cq[dcq[q].g][i].phase = (IF i < dcq[q].tail THEN dcq[q].phase
                                                    ELSE ~dcq[q].phase)
    /\ Hd(q).head = dcq[q].head
    /\ Hd(q).phase = (IF Hd(q).head <= dcq[q].tail THEN dcq[q].phase ELSE ~dcq[q].phase)

(* x is a command of the queue, or its completion: its cid is an old one,   *)
(* or it is the last one's.                                                 *)
CidOK(x, q) ==
    /\ x.cid < Hd(q).cid /\ x.id <= n
    /\ pc = "wait" /\ Q = q /\ x.cid = Hd(q).cid - 1 => x.id = n

JoinedOK == \A q \in Queues : Joined(q) =>
    /\ dsq[q].on /\ dsq[q].tail = Hd(q).tail
    /\ Phases(q)
    /\ \A c : (c \in busy /\ c.q = q) \/ InSlot(q, c) => CidOK(c, q)
    /\ \A i \in Slots(q) : cq[dcq[q].g][i].id <= n
    /\ \A i \in Slots(q) : cq[dcq[q].g][i].ok => CidOK(cq[dcq[q].g][i], q)

(* What is done for the command that is waited for.                         *)
Done(kind) ==
    /\ kind = "read" => dma[Buffer(n)] = lba
    /\ kind = "createCq" => dcq[1].on /\ dcq[1].g = ioMem
    /\ kind = "createSq" => dsq[1].on /\ dsq[1].g = ioMem

Waits == pc = "wait" =>
    /\ \A c : Live(c) /\ c.id = n => c.kind = Head(todo) /\ c.lba = lba /\ c.g = ioMem
    /\ \A i \in Slots(Q) : LET e == cq[H.g][i] IN e.ok /\ e.id = n => Done(Head(todo))

Inv == /\ Typed /\ Control /\ Starting /\ Creating /\ Agree /\ Ctrl /\ SlotsOK /\ CmdsOK
       /\ NoIoYet /\ JoinedOK /\ Waits

-----------------------------------------------------------------------------
(* What calls look like.                                                    *)
LEMMA WithQueue ==
    ASSUME NEW k \in Rw
    PROVE  <<"createCq", "createSq">> \o <<k>> = <<"createCq", "createSq", k>>
<1> DEFINE S == {"createCq", "createSq", "read", "write"}
           a == <<"createCq", "createSq">>
           b == <<k>>
           c == <<"createCq", "createSq", k>>
           d == a \o b
<1>1. /\ a \in Seq(S) /\ Len(a) = 2
      /\ b \in Seq(S) /\ Len(b) = 1
      /\ c \in Seq(S) /\ Len(c) = 3
  BY DEF Rw
<1>2. a[1] = c[1] /\ a[2] = c[2] /\ b[1] = c[3]
  OBVIOUS
<1> HIDE DEF a, b, c, S
<1>3. a \in Seq(S) /\ b \in Seq(S)
  BY <1>1
<1>4. /\ d \in Seq(S) /\ Len(d) = Len(a) + Len(b)
      /\ \A i \in 1 .. Len(a) + Len(b) : d[i] = IF i <= Len(a) THEN a[i] ELSE b[i - Len(a)]
  BY <1>3, ConcatProperties
<1> HIDE DEF d
<1>5. d \in Seq(S) /\ Len(d) = 3 /\ d[1] = a[1] /\ d[2] = a[2] /\ d[3] = b[1]
  BY <1>1, <1>4
<1>6. d = c
  <2>1. \A i \in 1 .. 3 : d[i] = c[i]
    BY <1>2, <1>5
  <2> QED
    BY <1>1, <1>5, <2>1, SeqEqual
<1> QED
  BY <1>6 DEF a, b, c, d

LEMMA TodoFacts ==
    ASSUME NEW x \in Todos, x # << >>
    PROVE  /\ Tail(x) \in Todos /\ Tail(x) # Inits
           /\ x = Inits \/ Head(x) \in Kinds
           /\ x = Inits => Head(x) \notin Kinds
           /\ Head(x) = "createCq" => Tail(x) # << >> /\ Head(Tail(x)) = "createSq"
           /\ Head(x) # "createCq" /\ Tail(x) # << >> => Head(Tail(x)) \in Rw
           /\ Head(x) \in Rw => /\ <<"createCq", "createSq">> \o x \in Todos
                                /\ <<"createCq", "createSq">> \o x # Inits
                                /\ <<"createCq", "createSq">> \o x # << >>
                                /\ Head(<<"createCq", "createSq">> \o x) = "createCq"
<1>1. CASE x = <<"identify">>
  BY <1>1 DEF Todos, Inits, Kinds, Rw
<1>2. CASE \E k \in Rw : x = <<k>>
  <2> PICK k \in Rw : x = <<k>>
    BY <1>2
  <2>1. <<"createCq", "createSq">> \o x = <<"createCq", "createSq", k>>
    BY WithQueue
  <2>2. /\ <<"createCq", "createSq", k>> \in Todos
        /\ <<"createCq", "createSq", k>> # Inits
        /\ <<"createCq", "createSq", k>> # << >>
        /\ Head(<<"createCq", "createSq", k>>) = "createCq"
    BY DEF Todos, Inits, Rw
  <2>3. Head(x) = k /\ Tail(x) = << >> /\ << >> \in Todos /\ << >> # Inits /\ x # Inits
    BY DEF Todos, Inits, Rw
  <2> QED
    BY <2>1, <2>2, <2>3 DEF Kinds, Rw
<1>3. CASE \E k \in Rw : x = <<"identify", k>>
  BY <1>3 DEF Todos, Inits, Kinds, Rw
<1>4. CASE \E k \in Rw : x = <<"createCq", "createSq", k>>
  BY <1>4 DEF Todos, Inits, Kinds, Rw
<1>5. CASE \E k \in Rw : x = <<"createSq", k>>
  BY <1>5 DEF Todos, Inits, Kinds, Rw
<1>6. CASE x = Inits
  BY <1>6 DEF Todos, Inits, Kinds, Rw
<1> QED
  BY <1>1, <1>2, <1>3, <1>4, <1>5, <1>6 DEF Todos, Rw

LEMMA AskFacts ==
    ASSUME NEW a \in Asks
    PROVE  /\ a[1] \in Todos /\ a[1] # << >> /\ a[1] # Inits /\ Head(a[1]) \notin Create
           /\ a[2] \in Nat
<1>1. a[2] \in Nat /\ a[1] \in { <<"identify">>, <<"read">>, <<"write">>,
                                 <<"identify", "read">>, <<"identify", "write">> }
  BY AsksAssumption DEF AsksAssumption
<1> QED
  BY <1>1 DEF Todos, Inits, Create

LEMMA Constants == /\ NBlocks \in Nat /\ MaxCmds \in Nat /\ MaxMems \in Nat
                   /\ Depth[0] \in Nat /\ Depth[1] \in Nat /\ Depth[0] >= 2 /\ Depth[1] >= 2
  BY NvmeAssumption DEF NvmeAssumption

LEMMA InitInv == Init => Inv
<1> SUFFICES ASSUME Init PROVE Inv
  OBVIOUS
<1> USE Constants DEF Init
<1>1. Typed
  <2>1. admin \in Handles /\ io \in Handles
    BY DEF Handles, None
  <2>2. HandleOK(admin, 0) /\ HandleOK(io, 1)
    BY DEF HandleOK, None
  <2>3. dsq \in [Queues -> Rings] /\ dcq \in [Queues -> Rings]
    BY DEF Rings, Off
  <2>4. todo \in Todos
    BY DEF Todos
  <2>5. dma \in [1 .. MaxCmds -> Int]
    BY DEF Nothing
  <2>6. /\ sq = [g \in 1 .. MaxMems |-> sq[g]] /\ cq = [g \in 1 .. MaxMems |-> cq[g]]
        /\ block = [b \in 0 .. NBlocks - 1 |-> b]
    OBVIOUS
  <2>7. /\ pc \in {"idle", "next", "wait", "disable", "enable"} /\ busy \subseteq Commands
        /\ lba \in Nat /\ n \in 0 .. MaxCmds /\ mems \in 0 .. MaxMems
        /\ ioMem \in 0 .. mems /\ reg \in 0 .. mems
    OBVIOUS
  <2> QED
    BY <2>1, <2>2, <2>3, <2>4, <2>5, <2>6, <2>7 DEF Typed
<1>2. /\ pc = "idle" /\ todo = << >> /\ busy = {} /\ ~admin.on /\ ~io.on /\ en = ready
      /\ \A q \in Queues : ~dsq[q].on /\ ~dcq[q].on
  BY DEF None, Off
<1>3. Control /\ Starting /\ Creating
  BY <1>2 DEF Control, Starting, Creating
<1>4. Agree /\ NoIoYet /\ JoinedOK /\ Waits
  BY <1>2 DEF Agree, NoIoYet, JoinedOK, Joined, Waits, Hd
<1>5. Ctrl /\ SlotsOK
  BY <1>2 DEF Ctrl, SlotsOK, Queues
<1>6. CmdsOK
  BY <1>2 DEF CmdsOK, Live, InSlot
<1> QED
  BY <1>1, <1>3, <1>4, <1>5, <1>6 DEF Inv


Memory == <<n, mems, sq, cq, dma>>

(* A call begins, ends or is given up: queues and memory stay.              *)
LEMMA ControlMoves ==
    ASSUME Inv, UNCHANGED <<Memory, ioMem, ctrl>>,
           \/ UNCHANGED <<admin, io>>
           \/ admin' = None /\ io' = None,
           admin'.on => todo # Inits /\ pc # "enable",
           \/ pc' = "idle" /\ todo' = << >>
           \/ pc' = "next" /\ todo' \in Todos /\ todo' # Inits
              /\ (todo' # << >> => Head(todo') \notin Create),
           lba' \in Nat
    PROVE  Inv'
<1> USE DEF Inv, Memory, ctrl
<1>1. << >> \in Todos /\ << >> # Inits
  BY DEF Todos, Inits
<1>2. /\ \A c : Live(c)' <=> Live(c)
      /\ \A q, c : InSlot(q, c)' <=> InSlot(q, c)
  BY DEF Live, InSlot
<1>3. pc' \in {"idle", "next"} /\ todo' # Inits /\ pc' \notin {"wait", "disable", "enable"}
  BY <1>1
<1>4. /\ ~None.on /\ None \in Handles
      /\ \A q \in Queues : /\ None.g = 0 /\ None.cid = 0
                           /\ None.tail \in Slots(q) /\ None.head \in Slots(q)
  BY Constants DEF None, Handles, Queues, Slots
<1>5. Typed'
  <2>1. admin' \in Handles /\ io' \in Handles /\ HandleOK(admin, 0)' /\ HandleOK(io, 1)'
    <3>1. CASE admin' = None /\ io' = None
      <4>1. n \in Nat /\ mems \in Nat /\ n' = n /\ mems' = mems
        BY Constants DEF Typed
      <4>2. 0 \in Queues /\ 1 \in Queues
        BY DEF Queues
      <4>3. admin' = None /\ io' = None
        BY <3>1
      <4> QED
        BY <1>4, <4>1, <4>2, <4>3 DEF HandleOK, Slots
    <3>2. CASE UNCHANGED <<admin, io>>
      BY <3>2 DEF Typed, HandleOK
    <3> QED
      BY <3>1, <3>2
  <2> QED
    BY <1>1, <1>3, <2>1 DEF Typed
<1>6. admin'.on => admin' = admin /\ io' = io
  BY <1>4
<1>6a. io'.on => admin' = admin /\ io' = io
  BY <1>4
<1>7. Control' /\ Starting' /\ Creating'
  <2>1. Control'
    BY <1>1, <1>3, <1>6a DEF Control
  <2> QED
    BY <1>3, <2>1 DEF Starting, Creating
<1>8. Agree'
  BY <1>3, <1>6, <1>6a DEF Agree, Hd, Control
<1>9. Ctrl'
  BY DEF Ctrl, MemOK, Fresh
<1>10. SlotsOK'
  BY DEF SlotsOK, SlotOK
<1>11. CmdsOK'
  BY <1>2 DEF CmdsOK, CmdOK, MemOK, Fresh
<1>12. NoIoYet'
  BY <1>6 DEF NoIoYet, Fresh
<1>13. JoinedOK'
  <2>1. SUFFICES ASSUME NEW q \in Queues, Joined(q)'
                 PROVE  /\ dsq[q].on /\ dsq[q].tail = Hd(q)'.tail
                        /\ Phases(q)'
                        /\ \A c : (c \in busy /\ c.q = q) \/ InSlot(q, c) => CidOK(c, q)'
                        /\ \A i \in Slots(q) : cq[dcq[q].g][i].id <= n
                        /\ \A i \in Slots(q) : cq[dcq[q].g][i].ok => CidOK(cq[dcq[q].g][i], q)'
    BY <1>2 DEF JoinedOK
  <2>2. Hd(q)' = Hd(q) /\ Joined(q)
    <3>1. Hd(q)'.on /\ dcq[q].on /\ dcq[q].g = Hd(q)'.g
      BY <2>1 DEF Joined
    <3>2. Hd(q)' = Hd(q)
      BY <1>6, <1>6a, <3>1 DEF Hd
    <3> QED
      BY <3>1, <3>2 DEF Joined
  <2>3. Phases(q)'
    BY <2>2 DEF JoinedOK, Phases
  <2>4. \A x : CidOK(x, q) => CidOK(x, q)'
    BY <1>3, <2>2 DEF CidOK
  <2> QED
    BY <2>2, <2>3, <2>4 DEF JoinedOK
<1>14. Waits'
  BY <1>3 DEF Waits
<1> QED
  BY <1>5, <1>7, <1>8, <1>9, <1>10, <1>11, <1>12, <1>13, <1>14


(* New memory is empty, and what there was is as it was.                    *)
LEMMA MemTaken ==
    ASSUME Inv, NEW p \in Queues, TakeMem(p)
    PROVE  /\ mems' = mems + 1 /\ mems' \in 1 .. MaxMems /\ mems \in Nat
           /\ MemOK(p, mems)' /\ Fresh(p, mems)'
           /\ \A g \in 1 .. mems : sq'[g] = sq[g] /\ cq'[g] = cq[g]
           /\ \A r \in Queues : \A g : MemOK(r, g) => MemOK(r, g)' /\ (Fresh(r, g) => Fresh(r, g)')
           /\ sq' = [g \in 1 .. MaxMems |-> sq'[g]] /\ cq' = [g \in 1 .. MaxMems |-> cq'[g]]
<1> USE Constants DEF Inv
<1>1. mems' = mems + 1 /\ mems' \in 1 .. MaxMems /\ mems \in Nat
  BY DEF TakeMem, Typed
<1>2. /\ sq = [g \in 1 .. MaxMems |-> sq[g]] /\ cq = [g \in 1 .. MaxMems |-> cq[g]]
      /\ sq' = [sq EXCEPT ![mems + 1] = [i \in Slots(p) |-> NoCmd]]
      /\ cq' = [cq EXCEPT ![mems + 1] = [i \in Slots(p) |-> NoEntry]]
  BY DEF TakeMem, Typed, Slots
<1>3. /\ sq'[mems + 1] = [i \in Slots(p) |-> NoCmd]
      /\ cq'[mems + 1] = [i \in Slots(p) |-> NoEntry]
      /\ \A g \in 1 .. mems : sq'[g] = sq[g] /\ cq'[g] = cq[g]
      /\ sq' = [g \in 1 .. MaxMems |-> sq'[g]] /\ cq' = [g \in 1 .. MaxMems |-> cq'[g]]
  <2>1. \A g \in 1 .. mems : g \in 1 .. MaxMems /\ g # mems + 1
    BY <1>1
  <2>2. mems + 1 \in 1 .. MaxMems
    BY <1>1
  <2>3. /\ sq'[mems + 1] = [i \in Slots(p) |-> NoCmd]
        /\ cq'[mems + 1] = [i \in Slots(p) |-> NoEntry]
    BY <1>2, <2>2
  <2>4. \A g \in 1 .. mems : sq'[g] = sq[g] /\ cq'[g] = cq[g]
    BY <1>2, <2>1
  <2>5. sq' = [g \in 1 .. MaxMems |-> sq'[g]] /\ cq' = [g \in 1 .. MaxMems |-> cq'[g]]
    BY <1>2
  <2> QED
    BY <2>3, <2>4, <2>5
<1>4. NoEntry \in Entries
  BY DEF NoEntry, Entries
<1>5. MemOK(p, mems)' /\ Fresh(p, mems)'
  BY <1>1, <1>3, <1>4 DEF MemOK, Fresh
<1>6. \A r \in Queues : \A g : MemOK(r, g) => MemOK(r, g)' /\ (Fresh(r, g) => Fresh(r, g)')
  BY <1>1, <1>3 DEF MemOK, Fresh
<1> QED
  BY <1>1, <1>3, <1>5, <1>6

(* The live commands and slots do not depend on new memory.                 *)
LEMMA MemFrame ==
    ASSUME Inv, NEW p \in Queues, TakeMem(p), UNCHANGED <<dsq, busy>>
    PROVE  /\ \A q \in Queues : \A c : InSlot(q, c)' <=> InSlot(q, c)
           /\ \A c : Live(c)' <=> Live(c)
           /\ SlotsOK'
<1>1. \A q \in Queues : dsq[q].on => dsq[q].g \in 1 .. mems
  BY DEF Inv, Ctrl, MemOK
<1>2. \A q \in Queues : dsq[q].on => sq'[dsq[q].g] = sq[dsq[q].g]
  BY <1>1, MemTaken
<1>3. \A q \in Queues : \A c : InSlot(q, c)' <=> InSlot(q, c)
  BY <1>2 DEF InSlot
<1>4. SlotsOK'
  BY <1>2 DEF Inv, SlotsOK, SlotOK
<1> QED
  BY <1>3, <1>4 DEF Live

(* init_admin_queues begins: for a call that finds no admin queue, or for   *)
(* nvmeinittest.                                                            *)
LEMMA ResetInv ==
    ASSUME Inv, Reset, pc \in {"idle", "next"}, todo' \in Todos, todo' # << >>,
           \/ todo' = Inits
           \/ ~admin.on /\ Head(todo') \notin Create
    PROVE  Inv'
<1> USE DEF Inv
<1>1. /\ TakeMem(0) /\ en' = FALSE /\ pc' = "disable"
      /\ UNCHANGED <<admin, io, lba, n, ioMem, dma, ready, fatal, reg, dsq, dcq, busy, block>>
  BY DEF Reset
<1>2. 0 \in Queues /\ 1 \in Queues
  BY DEF Queues
<1>3. /\ mems' = mems + 1 /\ mems' \in 1 .. MaxMems /\ mems \in Nat
      /\ MemOK(0, mems)' /\ Fresh(0, mems)'
      /\ \A g \in 1 .. mems : sq'[g] = sq[g] /\ cq'[g] = cq[g]
      /\ \A r \in Queues : \A g : MemOK(r, g) => MemOK(r, g)' /\ (Fresh(r, g) => Fresh(r, g)')
      /\ sq' = [g \in 1 .. MaxMems |-> sq'[g]] /\ cq' = [g \in 1 .. MaxMems |-> cq'[g]]
  BY <1>1, <1>2, MemTaken
<1>4. /\ \A q \in Queues : \A c : InSlot(q, c)' <=> InSlot(q, c)
      /\ \A c : Live(c)' <=> Live(c)
      /\ SlotsOK'
  BY <1>1, <1>2, MemFrame
<1>5. Typed'
  <2>1. HandleOK(admin, 0)' /\ HandleOK(io, 1)'
    BY <1>1, <1>3 DEF Typed, HandleOK
  <2> QED
    BY <1>1, <1>3, <2>1 DEF Typed
<1>6. Control' /\ Creating'
  BY <1>1 DEF Control, Creating
<1>7. Starting'
  <2>1. admin.g <= mems /\ io.g <= mems
    BY DEF Typed, HandleOK
  <2>2. \A q \in Queues : dcq[q].on => dcq[q].g \in 1 .. mems
    BY DEF Ctrl, MemOK
  <2>3. \A c : Live(c) /\ c.kind \in Create => c.g \in 1 .. mems
    BY DEF CmdsOK, CmdOK, MemOK
  <2> QED
    BY <1>1, <1>3, <1>4, <2>1, <2>2, <2>3 DEF Starting, Typed, Handles
<1>8. Agree'
  BY <1>1 DEF Agree, Hd, Control
<1>9. Ctrl'
  BY <1>1, <1>2, <1>3 DEF Ctrl
<1>10. CmdsOK'
  BY <1>1, <1>2, <1>3, <1>4 DEF CmdsOK, CmdOK
<1>11. NoIoYet'
  BY <1>1, <1>2, <1>3 DEF NoIoYet, Ctrl
<1>12. JoinedOK'
  <2>1. \A q \in Queues : dcq[q].on => cq'[dcq[q].g] = cq[dcq[q].g]
    BY <1>3 DEF Ctrl, MemOK
  <2>2. \A q \in Queues : Joined(q)' <=> Joined(q)
    BY <1>1 DEF Joined, Hd
  <2>3. \A q \in Queues : Joined(q) => Phases(q)'
    BY <1>1, <2>1 DEF JoinedOK, Phases, Hd, Joined
  <2>4. \A q \in Queues : \A x : CidOK(x, q) => CidOK(x, q)'
    BY <1>1 DEF CidOK, Hd
  <2> QED
    BY <1>1, <1>4, <2>1, <2>2, <2>3, <2>4 DEF JoinedOK, Joined, Hd
<1>13. Waits'
  BY <1>1 DEF Waits
<1> QED
  BY <1>4, <1>5, <1>6, <1>7, <1>8, <1>9, <1>10, <1>11, <1>12, <1>13


(* ensure_io_queue begins.                                                  *)
LEMMA IoQueueInv ==
    ASSUME Inv, ensure_io_queue PROVE Inv'
<1> USE DEF Inv
<1>1. /\ TakeMem(1) /\ ioMem' = mems + 1 /\ todo' = <<"createCq", "createSq">> \o todo
      /\ UNCHANGED <<admin, io, pc, lba, n, dma, en, ready, fatal, reg, dsq, dcq, busy, block>>
      /\ pc = "next" /\ todo # << >> /\ Head(todo) \in Rw /\ ~io.on /\ admin.on
  BY DEF ensure_io_queue, NeedsIo, ctrl
<1>2. 0 \in Queues /\ 1 \in Queues
  BY DEF Queues
<1>3. /\ mems' = mems + 1 /\ mems' \in 1 .. MaxMems /\ mems \in Nat
      /\ MemOK(1, mems)' /\ Fresh(1, mems)'
      /\ \A g \in 1 .. mems : sq'[g] = sq[g] /\ cq'[g] = cq[g]
      /\ \A r \in Queues : \A g : MemOK(r, g) => MemOK(r, g)' /\ (Fresh(r, g) => Fresh(r, g)')
      /\ sq' = [g \in 1 .. MaxMems |-> sq'[g]] /\ cq' = [g \in 1 .. MaxMems |-> cq'[g]]
  BY <1>1, <1>2, MemTaken
<1>4. /\ \A q \in Queues : \A c : InSlot(q, c)' <=> InSlot(q, c)
      /\ \A c : Live(c)' <=> Live(c)
      /\ SlotsOK'
  BY <1>1, <1>2, MemFrame
<1>5. todo' \in Todos /\ todo' # Inits /\ todo' # << >> /\ Head(todo') = "createCq" /\ todo # Inits
  BY <1>1, TodoFacts DEF Typed, Control
<1>6. Typed'
  <2>1. admin.g \in 0 .. mems' /\ io.g \in 0 .. mems'
    BY <1>3 DEF Typed, HandleOK
  <2>2. HandleOK(admin, 0)' /\ HandleOK(io, 1)'
    BY <1>1, <2>1 DEF Typed, HandleOK
  <2> QED
    BY <1>1, <1>3, <1>5, <2>2 DEF Typed
<1>7. Control' /\ Starting'
  BY <1>1, <1>5 DEF Control, Starting
<1>8. Creating'
  <2>1. admin.g <= mems /\ admin.g \in Nat
    BY DEF Typed, HandleOK, Handles
  <2>2. ioMem' # admin.g /\ ioMem' = mems'
    BY <1>1, <1>3, <2>1
  <2>3. MemOK(1, ioMem)' /\ Fresh(1, ioMem)'
    BY <1>3, <2>2 DEF MemOK, Fresh
  <2> QED
    BY <1>1, <1>5, <2>2, <2>3 DEF Creating
<1>9. Agree'
  BY <1>1, <1>5 DEF Agree, Hd
<1>10. Ctrl'
  BY <1>1, <1>2, <1>3 DEF Ctrl
<1>11. CmdsOK'
  BY <1>1, <1>2, <1>3, <1>4 DEF CmdsOK, CmdOK
<1>12. NoIoYet'
  BY <1>1, <1>2, <1>3 DEF NoIoYet, Ctrl
<1>13. JoinedOK'
  <2>1. \A q \in Queues : dcq[q].on => cq'[dcq[q].g] = cq[dcq[q].g]
    BY <1>3 DEF Ctrl, MemOK
  <2>2. \A q \in Queues : Joined(q)' <=> Joined(q)
    BY <1>1 DEF Joined, Hd
  <2>3. \A q \in Queues : Joined(q) => Phases(q)'
    BY <1>1, <2>1 DEF JoinedOK, Phases, Hd, Joined
  <2>4. \A q \in Queues : \A x : CidOK(x, q) => CidOK(x, q)'
    BY <1>1 DEF CidOK, Hd
  <2> QED
    BY <1>1, <1>4, <2>1, <2>2, <2>3, <2>4 DEF JoinedOK, Joined, Hd
<1>14. Waits'
  BY <1>1 DEF Waits
<1> QED
  BY <1>4, <1>6, <1>7, <1>8, <1>9, <1>10, <1>11, <1>12, <1>13, <1>14

(* CC.EN goes up.                                                           *)
LEMMA EnableInv ==
    ASSUME Inv, Enable PROVE Inv'
<1> USE DEF Inv
<1>1. /\ pc = "disable" /\ ~ready /\ pc' = "enable" /\ en' = TRUE /\ reg' = mems
      /\ UNCHANGED <<admin, io, todo, lba, n, mems, ioMem, sq, cq, dma, ready, fatal, dsq, dcq,
                     busy, block>>
  BY DEF Enable
<1>2. /\ \A q \in Queues : \A c : InSlot(q, c)' <=> InSlot(q, c)
      /\ \A c : Live(c)' <=> Live(c)
  BY <1>1 DEF InSlot, Live
<1>3. \A r, g : MemOK(r, g)' <=> MemOK(r, g)
  BY <1>1 DEF MemOK
<1>4. \A r, g : Fresh(r, g)' <=> Fresh(r, g)
  BY <1>1 DEF Fresh
<1>5. Typed'
  BY <1>1 DEF Typed, HandleOK
<1>6. Control' /\ Creating' /\ Waits'
  BY <1>1 DEF Control, Creating, Waits
<1>7. Starting'
  <2>1. MemOK(0, mems)' /\ Fresh(0, mems)'
    BY <1>1 DEF Starting, MemOK, Fresh
  <2> QED
    BY <1>1, <2>1 DEF Starting
<1>8. Agree'
  BY <1>1 DEF Agree, Hd, Starting, Control
<1>9. Ctrl'
  <2>1. MemOK(0, reg)' /\ Fresh(0, reg)'
    BY <1>1 DEF Starting, MemOK, Fresh
  <2> QED
    BY <1>1, <1>3, <1>4, <2>1 DEF Ctrl
<1>10. SlotsOK'
  BY <1>1 DEF SlotsOK, SlotOK
<1>11. CmdsOK'
  BY <1>1, <1>2, <1>3, <1>4 DEF CmdsOK, CmdOK
<1>12. NoIoYet'
  BY <1>1, <1>4 DEF NoIoYet, Ctrl, Queues
<1>13. JoinedOK'
  BY <1>1 DEF JoinedOK, Joined, Ctrl
<1> QED
  BY <1>5, <1>6, <1>7, <1>8, <1>9, <1>10, <1>11, <1>12, <1>13

(* The controller resets: it forgets queues and commands.                   *)
LEMMA CtrlResetsInv ==
    ASSUME Inv, CtrlResets PROVE Inv'
<1> USE DEF Inv
<1>1. /\ ~en /\ ready' = FALSE /\ fatal' = FALSE
      /\ dsq' = [q \in Queues |-> Off] /\ dcq' = [q \in Queues |-> Off] /\ busy' = {}
      /\ UNCHANGED <<host, sq, cq, dma, en, reg, block>>
  BY DEF CtrlResets
<1>2. UNCHANGED <<admin, io, pc, todo, lba, n, mems, ioMem>>
  BY <1>1 DEF host
<1>3. \A q \in Queues : ~dsq'[q].on /\ ~dcq'[q].on
  BY <1>1 DEF Off
<1>4. /\ \A q \in Queues : \A c : ~InSlot(q, c)'
      /\ \A c : ~Live(c)'
  BY <1>1, <1>3 DEF InSlot, Live
<1>5. \A r, g : MemOK(r, g)' <=> MemOK(r, g)
  BY <1>1, <1>2 DEF MemOK
<1>6. \A r, g : Fresh(r, g)' <=> Fresh(r, g)
  BY <1>1 DEF Fresh
<1>7. 0 \in Queues /\ 1 \in Queues
  BY DEF Queues
<1>8. Typed'
  <2>1. dsq' \in [Queues -> Rings] /\ dcq' \in [Queues -> Rings]
    BY <1>1 DEF Off, Rings
  <2>2. HandleOK(admin, 0)' /\ HandleOK(io, 1)'
    BY <1>2 DEF Typed, HandleOK
  <2> QED
    BY <1>1, <1>2, <2>1, <2>2 DEF Typed
<1>9. Control'
  BY <1>2 DEF Control, Hd, Q, Queue
<1>10. pc \in {"next", "wait"} => ~admin.on
  BY <1>1, <1>7 DEF Agree, Control, Hd
<1>11. Starting'
  <2>1. pc \in {"disable", "enable"} => MemOK(0, mems)' /\ Fresh(0, mems)'
    BY <1>1, <1>2 DEF Starting, MemOK, Fresh
  <2> QED
    BY <1>1, <1>2, <1>3, <1>4, <2>1 DEF Starting
<1>12. Creating'
  BY <1>2, <1>10 DEF Creating
<1>13. Agree'
  BY <1>1, <1>2 DEF Agree, Hd
<1>14. Ctrl'
  BY <1>1, <1>3, <1>7 DEF Ctrl
<1>15. SlotsOK'
  BY <1>3 DEF SlotsOK
<1>16. CmdsOK'
  BY <1>4 DEF CmdsOK
<1>17. NoIoYet'
  BY <1>1, <1>3, <1>7 DEF NoIoYet
<1>18. JoinedOK'
  BY <1>3 DEF JoinedOK, Joined
<1>19. Waits'
  BY <1>2, <1>7, <1>10 DEF Waits, Control, Hd, Q, Queue
<1> QED
  BY <1>8, <1>9, <1>11, <1>12, <1>13, <1>14, <1>15, <1>16, <1>17, <1>18, <1>19


LEMMA StartedFacts ==
    ASSUME NEW g \in Nat
    PROVE  /\ Started(g) \in Rings /\ Started(g).on /\ Started(g).g = g
           /\ Started(g).tail = 0 /\ Started(g).head = 0 /\ Started(g).phase = TRUE
  BY DEF Started, Off, Rings

LEMMA Unmoved ==
    ASSUME Inv, UNCHANGED <<host, sq, cq, dma, en, ready, reg, dsq, dcq, busy, block>>
    PROVE  Inv'
<1> USE DEF Inv, host
<1>1. /\ \A q, c : InSlot(q, c)' <=> InSlot(q, c)
      /\ \A c : Live(c)' <=> Live(c)
      /\ \A r, g : MemOK(r, g)' <=> MemOK(r, g)
      /\ \A r, g : Fresh(r, g)' <=> Fresh(r, g)
  BY DEF InSlot, Live, MemOK, Fresh
<1>2. Typed' /\ Control'
  BY DEF Typed, HandleOK, Control, Hd, Q
<1>3. Starting' /\ Creating'
  BY <1>1 DEF Starting, Creating
<1>4. Agree' /\ Ctrl'
  BY <1>1 DEF Agree, Hd, Ctrl
<1>5. SlotsOK' /\ CmdsOK'
  BY <1>1 DEF SlotsOK, SlotOK, CmdsOK, CmdOK
<1>6. NoIoYet'
  BY <1>1 DEF NoIoYet
<1>7. JoinedOK'
  <2>1. \A q : Hd(q)' = Hd(q) /\ (Joined(q)' <=> Joined(q)) /\ (Phases(q)' <=> Phases(q))
    BY DEF Joined, Hd, Phases
  <2>2. \A q, x : CidOK(x, q)' <=> CidOK(x, q)
    BY DEF CidOK, Hd, Q
  <2> QED
    BY <1>1, <2>1, <2>2 DEF JoinedOK
<1>8. Waits'
  BY <1>1 DEF Waits, Done, H, Q
<1> QED
  BY <1>2, <1>3, <1>4, <1>5, <1>6, <1>7, <1>8

(* The controller is ready, with an empty admin queue where ASQ and ACQ     *)
(* say; or it has failed.                                                   *)
LEMMA CtrlStartsInv ==
    ASSUME Inv, CtrlStarts PROVE Inv'
<1> USE DEF Inv
<1>1. /\ en /\ ~ready /\ UNCHANGED <<host, sq, cq, dma, en, reg, busy, block>>
      /\ UNCHANGED <<admin, io, pc, todo, lba, n, mems, ioMem>>
  BY DEF CtrlStarts, host
<1>2. 0 \in Queues /\ 1 \in Queues /\ 0 # 1 /\ \A q \in Queues : q = 0 \/ q = 1
  BY DEF Queues
<1>3. busy = {} /\ \A q \in Queues : ~dsq[q].on /\ ~dcq[q].on
  BY <1>1 DEF Ctrl
<1>6. todo = Inits /\ en => pc = "enable"
  <2>1. Inits # << >>
    BY DEF Inits
  <2>2. pc \in {"idle", "next", "wait", "disable", "enable"}
    BY DEF Typed
  <2> QED
    BY <2>1, <2>2 DEF Control, Starting
<1>4. CASE UNCHANGED <<ready, dsq, dcq>>
  BY <1>1, <1>4, Unmoved
<1>5. CASE /\ ready' = TRUE
           /\ dsq' = [dsq EXCEPT ![0] = Started(reg)]
           /\ dcq' = [dcq EXCEPT ![0] = Started(reg)]
  <2>1. /\ dsq'[0] = Started(reg) /\ dcq'[0] = Started(reg)
        /\ dsq'[1] = dsq[1] /\ dcq'[1] = dcq[1]
    BY <1>2, <1>5 DEF Typed
  <2>2. /\ Started(reg) \in Rings /\ Started(reg).on /\ Started(reg).g = reg
        /\ Started(reg).tail = 0 /\ Started(reg).head = 0 /\ 0 \in Slots(0)
    <3>1. reg \in Nat /\ 0 \in Slots(0)
      BY Constants DEF Slots, Typed
    <3> QED
      BY <3>1, StartedFacts
  <2>3. \A r, g : MemOK(r, g)' <=> MemOK(r, g)
    BY <1>1 DEF MemOK
  <2>4. \A r, g : Fresh(r, g)' <=> Fresh(r, g)
    BY <1>1 DEF Fresh
  <2>5. MemOK(0, reg) /\ Fresh(0, reg)
    BY <1>1 DEF Ctrl
  <2>6. /\ \A q \in Queues : \A c : ~InSlot(q, c)'
        /\ \A c : ~Live(c)'
    BY <1>1, <1>2, <1>3, <2>1, <2>2, <2>5 DEF InSlot, Live, Fresh
  <2>7. Typed'
    <3>1. dsq' \in [Queues -> Rings] /\ dcq' \in [Queues -> Rings]
      BY <1>5, <2>2 DEF Typed
    <3> QED
      BY <1>1, <3>1 DEF Typed, HandleOK
  <2>8. Control' /\ Creating'
    <3>1. pc \in {"next", "wait"} => ~admin.on
      BY <1>1, <1>2 DEF Agree, Control, Hd
    <3>2. Control'
      BY <1>1 DEF Control, Hd, Q
    <3> QED
      BY <1>1, <3>1, <3>2 DEF Creating
  <2>9. Starting'
    <3>1. pc # "disable"
      BY <1>1 DEF Starting
    <3> QED
      BY <1>1, <1>2, <1>3, <2>1, <2>3, <2>4, <3>1 DEF Starting
  <2>10. Agree'
    <3>1. \A q \in Queues : Hd(q).on => todo = Inits
      BY <1>1 DEF Agree
    <3>2. \A q \in Queues : Hd(q).on => pc = "enable"
      BY <1>1, <1>6, <3>1
    <3> QED
      BY <1>1, <3>1, <3>2 DEF Agree, Hd
  <2>11. Ctrl'
    <3>1. ~dsq'[1].on /\ ~dcq'[1].on
      BY <1>2, <1>3, <2>1
    <3> QED
      BY <1>1, <1>2, <1>3, <1>5, <2>1, <2>2, <2>3, <2>5, <3>1 DEF Ctrl
  <2>12. SlotsOK'
    <3>1. \A i \in Slots(0) : SlotOK(0, i)'
      BY <1>1, <2>1, <2>2, <2>5, Constants DEF SlotOK, Fresh, Slots
    <3> QED
      BY <1>2, <1>3, <2>1, <3>1 DEF SlotsOK
  <2>13. CmdsOK'
    BY <2>6 DEF CmdsOK
  <2>14. NoIoYet'
    BY <1>1, <1>2, <1>3, <2>1 DEF NoIoYet
  <2>15. \A q \in Queues : ~Joined(q)'
    <3>1. ~Joined(1)'
      BY <1>2, <1>3, <2>1 DEF Joined
    <3>2. admin.on => pc = "enable" /\ reg # admin.g
      <4>1. admin.on => todo = Inits
        BY <1>1, <1>2 DEF Agree, Hd
      <4>2. admin.on => pc = "enable"
        BY <1>1, <1>6, <4>1
      <4> QED
        BY <4>2 DEF Starting, Typed, Handles
    <3>3. ~Joined(0)'
      BY <1>1, <2>1, <2>2, <3>2 DEF Joined, Hd
    <3> QED
      BY <1>2, <3>1, <3>3
  <2>16. JoinedOK'
    BY <2>15 DEF JoinedOK
  <2>17. Waits'
    BY <1>1, <1>2 DEF Waits, Control, Agree, Hd, Q, Queue
  <2> QED
    BY <1>1, <2>7, <2>8, <2>9, <2>10, <2>11, <2>12, <2>13, <2>14, <2>16, <2>17
<1> QED
  BY <1>4, <1>5 DEF CtrlStarts, Started


LEMMA HandleFacts ==
    ASSUME NEW g \in Nat
    PROVE  /\ Handle(g) \in Handles /\ Handle(g).on /\ Handle(g).g = g
           /\ Handle(g).tail = 0 /\ Handle(g).head = 0 /\ Handle(g).phase = TRUE /\ Handle(g).cid = 0
  BY DEF Handle, None, Handles

LEMMA NoEntryFacts == NoEntry.phase = FALSE /\ NoEntry.id = 0 /\ NoEntry.cid = 0 /\ ~NoEntry.ok
  BY DEF NoEntry

(* init_admin_queues returns Ok to ensure_admin_queue.                      *)
LEMMA InitOkInv ==
    ASSUME Inv, pc = "enable", ready, todo # Inits, pc' = "next", admin' = Handle(mems),
           UNCHANGED <<io, todo, lba, Memory, ioMem, ctrl>>
    PROVE  Inv'
<1> USE DEF Inv, Memory, ctrl
<1>1. /\ ~admin.on /\ ~io.on /\ Head(todo) \notin Create /\ todo # << >>
      /\ MemOK(0, mems) /\ Fresh(0, mems)
      /\ en /\ busy = {} /\ dsq[0] = Started(mems) /\ dcq[0] = Started(mems)
      /\ ~dsq[1].on /\ ~dcq[1].on
  BY DEF Starting, Control
<1>2. 0 \in Queues /\ 1 \in Queues /\ 0 # 1 /\ \A q \in Queues : q = 0 \/ q = 1
  BY DEF Queues
<1>3. mems \in 1 .. mems /\ mems \in Nat /\ mems # 0 /\ n \in Nat
  BY <1>1, Constants DEF MemOK, Typed
<1>4. /\ Started(mems) \in Rings /\ Started(mems).on /\ Started(mems).g = mems
      /\ Started(mems).tail = 0 /\ Started(mems).head = 0 /\ Started(mems).phase = TRUE
  BY <1>3, StartedFacts
<1>5. /\ Handle(mems) \in Handles /\ Handle(mems).on /\ Handle(mems).g = mems
      /\ Handle(mems).tail = 0 /\ Handle(mems).head = 0 /\ Handle(mems).phase = TRUE /\ Handle(mems).cid = 0
  BY <1>3, HandleFacts
<1>6. /\ \A q \in Queues : \A c : ~InSlot(q, c) /\ ~InSlot(q, c)'
      /\ \A c : ~Live(c) /\ ~Live(c)'
  BY <1>1, <1>2, <1>4 DEF InSlot, Live, Fresh
<1>7. Hd(0)' = Handle(mems) /\ Hd(1)' = io
  BY <1>2 DEF Hd
<1>8. Typed'
  <2>1. HandleOK(admin, 0)' /\ HandleOK(io, 1)'
    BY <1>3, <1>5, Constants DEF Typed, HandleOK
  <2> QED
    BY <1>5, <2>1 DEF Typed
<1>9. Control' /\ Starting' /\ Creating' /\ Waits'
  BY <1>1 DEF Control, Starting, Creating, Waits
<1>10. Agree'
  BY <1>1, <1>2, <1>4, <1>5, <1>7 DEF Agree
<1>11. Ctrl'
  BY DEF Ctrl, MemOK, Fresh
<1>12. SlotsOK'
  BY DEF SlotsOK, SlotOK
<1>13. CmdsOK' /\ NoIoYet'
  BY <1>1, <1>6 DEF CmdsOK, NoIoYet
<1>14. JoinedOK'
  <2>1. ~Joined(1)'
    BY <1>1 DEF Joined
  <2>2. \A i \in Slots(0) : cq[dcq[0].g][i] = NoEntry
    BY <1>1, <1>4 DEF Fresh
  <2>3. Phases(0)'
    <3> DEFINE h == Handle(mems)
               d == dcq[0]
    <3>1. h.head = 0 /\ h.phase = TRUE /\ d.head = 0 /\ d.tail = 0 /\ d.phase = TRUE
      BY <1>1, <1>4, <1>5, <1>7
    <3>2. \A i \in Slots(0) : cq[d.g][i].phase = FALSE /\ ~(i < 0)
      BY <2>2, NoEntryFacts, Constants DEF Slots
    <3>3. d' = d /\ cq' = cq
      OBVIOUS
    <3> SUFFICES /\ \A i \in Slots(0) : cq[d.g][i].phase = (IF i < d.tail THEN d.phase ELSE ~d.phase)
                 /\ h.head = d.head
                 /\ h.phase = (IF h.head <= d.tail THEN d.phase ELSE ~d.phase)
      BY <1>7, <3>3 DEF Phases
    <3> HIDE DEF h, d
    <3>4. \A i \in Slots(0) : cq[d.g][i].phase = (IF i < d.tail THEN d.phase ELSE ~d.phase)
      BY <3>1, <3>2
    <3>5. h.phase = (IF h.head <= d.tail THEN d.phase ELSE ~d.phase)
      <4>1. h.head <= d.tail
        BY <3>1
      <4>2. h.phase = d.phase
        BY <3>1, Zenon
      <4> QED
        BY <4>1, <4>2, Zenon
    <3> QED
      BY <3>1, <3>4, <3>5
  <2>4. \A i \in Slots(0) : cq[dcq[0].g][i].id <= n /\ ~cq[dcq[0].g][i].ok
    BY <1>3, <2>2, NoEntryFacts
  <2> QED
    BY <1>1, <1>2, <1>4, <1>5, <1>6, <1>7, <2>1, <2>3, <2>4 DEF JoinedOK
<1> QED
  BY <1>8, <1>9, <1>10, <1>11, <1>12, <1>13, <1>14

(* Every other way in which a call begins, goes on without a command or     *)
(* ends.                                                                    *)
LEMMA InitTodo == Inits # << >>
  BY DEF Inits

LEMMA InitReturnsInv ==
    ASSUME Inv, pc \in {"disable", "enable"}, NEW ok \in BOOLEAN, InitReturns(ok),
           ok => pc = "enable" /\ ready, UNCHANGED <<Memory, ioMem, ctrl>>
    PROVE  Inv'
<1>1. todo # << >> /\ (todo # Inits => ~admin.on /\ ~io.on)
  BY DEF Inv, Control, Starting
<1>2. lba \in Nat
  BY DEF Inv, Typed
<1>3. CASE todo = Inits
  <2>1. pc' = "idle" /\ todo' = << >> /\ lba' = 0 /\ admin' = None /\ io' = None
    BY <1>3 DEF InitReturns, Inits, Return, invalidate_persistent_state
  <2>2. ~admin'.on
    BY <2>1 DEF None
  <2> QED
    BY <1>2, <2>1, <2>2, ControlMoves
<1>4. CASE todo # Inits /\ ok
  <2>1. pc' = "next" /\ admin' = Handle(mems) /\ UNCHANGED <<io, todo, lba>> /\ pc = "enable" /\ ready
    BY <1>4 DEF InitReturns, Inits
  <2> QED
    BY <1>4, <2>1, InitOkInv DEF Memory
<1>5. CASE todo # Inits /\ ~ok
  <2>1. pc' = "idle" /\ todo' = << >> /\ lba' = 0 /\ UNCHANGED <<admin, io>>
    BY <1>5 DEF InitReturns, Inits, Return
  <2> QED
    BY <1>1, <1>5, <2>1, ControlMoves
<1> QED
  BY <1>3, <1>4, <1>5


(* One further around a queue.                                              *)
LEMMA Around ==
    ASSUME NEW q \in Queues, NEW i \in Slots(q)
    PROVE  /\ (i + 1) % Depth[q] \in Slots(q)
           /\ i + 1 < Depth[q] => (i + 1) % Depth[q] = i + 1
           /\ i + 1 = Depth[q] => (i + 1) % Depth[q] = 0
           /\ i \in Nat /\ i + 1 <= Depth[q] /\ Depth[q] \in Nat /\ Depth[q] >= 2
<1> DEFINE d == Depth[q]
<1>1. d \in Nat /\ d >= 2 /\ i \in 0 .. d - 1
  BY Constants DEF Queues, Slots
<1> SUFFICES /\ (i + 1) % d \in 0 .. d - 1
             /\ i + 1 < d => (i + 1) % d = i + 1
             /\ i + 1 = d => (i + 1) % d = 0
  BY <1>1 DEF Slots
<1> HIDE DEF d
<1> QED
  BY <1>1

(* A command is fetched.                                                    *)
LEMMA FetchInv ==
    ASSUME Inv, NEW q \in Queues, Fetch(q) PROVE Inv'
<1> DEFINE c == sq[dsq[q].g][dsq[q].head]
<1> USE DEF Inv
<1>1. /\ ready /\ dsq[q].on /\ dsq[q].head # dsq[q].tail
      /\ busy' = busy \cup {c}
      /\ dsq' = [dsq EXCEPT ![q].head = (@ + 1) % Depth[q]]
      /\ UNCHANGED <<host, sq, cq, dma, en, ready, fatal, reg, dcq, block>>
      /\ UNCHANGED <<admin, io, pc, todo, lba, n, mems, ioMem>>
  BY DEF Fetch, host
<1>2. 0 \in Queues /\ 1 \in Queues /\ 0 # 1 /\ \A p \in Queues : p = 0 \/ p = 1
  BY DEF Queues
<1>3. /\ dcq[q].on /\ MemOK(q, dsq[q].g)
      /\ dsq[q].tail \in Slots(q) /\ dsq[q].head \in Slots(q) /\ dsq[q] \in Rings
  BY <1>1 DEF Ctrl, Typed
<1>4. c # NoCmd /\ c.q = q
  BY <1>1, <1>3 DEF SlotsOK, SlotOK, Slots
<1>5. InSlot(q, c) /\ Live(c) /\ CmdOK(c) /\ c \in Commands
  BY <1>1, <1>3, <1>4 DEF InSlot, Live, CmdsOK, CmdOK
<1>6. /\ \A p \in Queues : p # q => dsq'[p] = dsq[p]
      /\ \A p \in Queues : dsq'[p].on = dsq[p].on /\ dsq'[p].g = dsq[p].g /\ dsq'[p].tail = dsq[p].tail
      /\ dsq'[q].head = (dsq[q].head + 1) % Depth[q] /\ dsq'[q].head \in Slots(q)
      /\ dsq' \in [Queues -> Rings]
  <2>1. (dsq[q].head + 1) % Depth[q] \in Slots(q)
    BY <1>3, Around
  <2>2. (dsq[q].head + 1) % Depth[q] \in Nat
    BY <2>1 DEF Slots
  <2> DEFINE x == (dsq[q].head + 1) % Depth[q]
  <2>3. dsq' = [dsq EXCEPT ![q].head = x] /\ x \in Nat /\ dsq \in [Queues -> Rings]
    BY <1>1, <2>2 DEF Typed
  <2>4. x \in Slots(q)
    BY <2>1
  <2> HIDE DEF x
  <2>5. /\ dsq'[q].head = x /\ dsq' \in [Queues -> Rings]
        /\ \A p \in Queues : p # q => dsq'[p] = dsq[p]
        /\ \A p \in Queues : dsq'[p].on = dsq[p].on /\ dsq'[p].g = dsq[p].g /\ dsq'[p].tail = dsq[p].tail
    BY <2>3 DEF Rings
  <2> QED
    BY <2>4, <2>5 DEF x
<1>7. /\ \A p \in Queues : \A d : InSlot(p, d)' <=> InSlot(p, d)
      /\ \A d : Live(d)' <=> Live(d)
  <2>1. \A p \in Queues : \A d : InSlot(p, d)' <=> InSlot(p, d)
    BY <1>1, <1>6 DEF InSlot
  <2> QED
    BY <1>1, <1>5, <2>1 DEF Live
<1>8. \A r, g : (MemOK(r, g)' <=> MemOK(r, g)) /\ (Fresh(r, g)' <=> Fresh(r, g))
  BY <1>1 DEF MemOK, Fresh
<1> HIDE DEF c
<1>9. Typed'
  BY <1>1, <1>5, <1>6 DEF Typed, HandleOK
<1>10. Control' /\ Creating'
  BY <1>1, <1>8 DEF Control, Creating, Hd, Q
<1>11. Starting'
  <2>1. pc # "enable"
    <3>1. mems \in Nat
      BY Constants DEF Typed
    <3>2. Started(mems).head = Started(mems).tail
      BY <3>1, StartedFacts
    <3> QED
      BY <1>1, <1>2, <3>2 DEF Starting
  <2> QED
    BY <1>1, <1>7, <1>8, <2>1 DEF Starting
<1>12. Agree'
  BY <1>1, <1>6 DEF Agree, Hd
<1>13. Ctrl'
  <2>1. dcq[1].on /\ ~dsq'[1].on => ~dsq[1].on
    BY <1>2, <1>6
  <2>2. \A d \in busy' : dsq'[d.q].on
    BY <1>1, <1>2, <1>4, <1>6 DEF Ctrl, Typed, Commands
  <2>3. ready'
    BY <1>1
  <2>4. \A p \in Queues : (dsq'[p].tail \in Slots(p) /\ dsq'[p].head \in Slots(p)) \/ ~dsq[p].on
    BY <1>1, <1>6 DEF Ctrl
  <2> QED
    BY <1>1, <1>2, <1>6, <1>8, <2>1, <2>2, <2>3, <2>4 DEF Ctrl
<1>14. SlotsOK'
  <2>1. \A i \in Slots(q) : SlotOK(q, i)'
    <3> SUFFICES ASSUME NEW i \in Slots(q), sq[dsq[q].g][i] = NoCmd
                 PROVE  dsq'[q].head <= dsq[q].tail
      BY <1>1, <1>6 DEF SlotsOK, SlotOK
    <3>1. dsq[q].head <= dsq[q].tail
      BY <1>1 DEF SlotsOK, SlotOK
    <3>2. dsq[q].head + 1 < Depth[q] /\ dsq[q].head + 1 <= dsq[q].tail
      BY <1>1, <1>3, <3>1, Constants DEF Slots, Queues
    <3> QED
      BY <1>3, <1>6, <3>2, Around
  <2>2. \A p \in Queues : p # q /\ dsq'[p].on => \A i \in Slots(p) : SlotOK(p, i)'
    BY <1>1, <1>6 DEF SlotsOK, SlotOK
  <2> QED
    BY <2>1, <2>2 DEF SlotsOK
<1>15. CmdsOK'
  BY <1>1, <1>2, <1>6, <1>7, <1>8 DEF CmdsOK, CmdOK
<1>16. NoIoYet'
  <2>1. CASE admin.on /\ ~io.on
    <3>1. dsq[1].on => dsq[1] = Started(dsq[1].g) /\ dsq[1].g \in Nat
      BY <1>2, <2>1 DEF NoIoYet, Typed, Rings
    <3>2. dsq[1].on => dsq[1].head = dsq[1].tail
      BY <3>1, StartedFacts
    <3>3. q = 0
      BY <1>1, <1>2, <3>2
    <3> QED
      BY <1>1, <1>2, <1>4, <1>6, <1>8, <2>1, <3>3 DEF NoIoYet
  <2> QED
    BY <1>1, <2>1 DEF NoIoYet
<1>17. JoinedOK'
  <2>1. \A p : Hd(p)' = Hd(p) /\ (Joined(p)' <=> Joined(p)) /\ (Phases(p)' <=> Phases(p))
    BY <1>1 DEF Joined, Hd, Phases
  <2>2. \A p, x : CidOK(x, p)' <=> CidOK(x, p)
    BY <1>1 DEF CidOK, Hd, Q
  <2>3. \A p \in Queues : \A d : d \in busy' /\ d.q = p => (d \in busy /\ d.q = p) \/ InSlot(p, d)
    BY <1>1, <1>4, <1>5
  <2> QED
    BY <1>1, <1>6, <1>7, <2>1, <2>2, <2>3 DEF JoinedOK
<1>18. Waits'
  BY <1>1, <1>6, <1>7 DEF Waits, Done, H, Q
<1> QED
  BY <1>9, <1>10, <1>11, <1>12, <1>13, <1>14, <1>15, <1>16, <1>17, <1>18


(* A command goes into its slot.                                            *)
LEMMA SubmitInv ==
    ASSUME Inv, Submit PROVE Inv'
<1> PICK k : k = Head(todo)
  OBVIOUS
<1> PICK q : q = Queue(k)
  OBVIOUS
<1> PICK h : h = Hd(q)
  OBVIOUS
<1> PICK c : c = Command(q, h, k)
  OBVIOUS
<1> PICK t : t = (h.tail + 1) % Depth[q]
  OBVIOUS
<1> USE DEF Inv
<1>1. /\ pc = "next" /\ todo # << >> /\ n < MaxCmds /\ h.on /\ n' = n + 1
      /\ sq' = [sq EXCEPT ![h.g][h.tail] = c]
      /\ dma' = IF k \in Rw THEN [dma EXCEPT ![n + 1] = Prepared(k)] ELSE dma
      /\ IF q = 1 THEN io' = Pushed(io, 1) /\ UNCHANGED admin
         ELSE admin' = Pushed(admin, 0) /\ UNCHANGED io
      /\ dsq' = [dsq EXCEPT ![q].tail = t]
      /\ pc' = "wait"
      /\ UNCHANGED <<todo, lba, mems, ioMem, cq, en, ready, fatal, reg, dcq, busy, block>>
  BY DEF Submit, Hd, Buffer
<1>2. 0 \in Queues /\ 1 \in Queues /\ 0 # 1 /\ \A p \in Queues : p = 0 \/ p = 1
  BY DEF Queues
<1>3. k \in Kinds /\ todo # Inits /\ q \in Queues /\ n \in Nat
  BY <1>1, <1>2, TodoFacts, Constants DEF Control, Typed, Queue
<1>4. /\ en /\ ready /\ dsq[q].on /\ dsq[q].g = h.g /\ dcq[q].on /\ dcq[q].g = h.g
      /\ MemOK(q, h.g) /\ dsq[q].tail = h.tail
  <2>1. en /\ ready /\ dsq[q].on /\ dsq[q].g = h.g
    BY <1>1, <1>3 DEF Agree
  <2>2. dcq[q].on /\ dcq[q].g = h.g /\ MemOK(q, h.g)
    BY <1>3, <2>1 DEF Ctrl
  <2>3. Joined(q)
    BY <1>1, <2>2 DEF Joined
  <2> QED
    BY <1>3, <2>1, <2>2, <2>3 DEF JoinedOK
<1>5. h \in Handles /\ HandleOK(h, q) /\ h.tail \in Slots(q) /\ h.cid \in 0 .. n /\ h.g \in Nat
  BY <1>3 DEF Typed, Hd, HandleOK, Slots, Queue, Handles
<1>6. /\ c \in Commands /\ c.q = q /\ c.id = n + 1 /\ c.cid = h.cid /\ c.kind = k /\ c.g = ioMem
      /\ c.lba = lba /\ c # NoCmd
  <2>1. ioMem \in Nat /\ lba \in Nat /\ n + 1 \in Nat /\ h.cid \in Nat
    BY <1>3, <1>5 DEF Typed
  <2>2. "none" \notin Kinds
    BY DEF Kinds
  <2> QED
    BY <1>3, <2>1, <2>2 DEF Command, Commands, NoCmd
<1>7. t \in Slots(q) /\ t \in Nat
  BY <1>3, <1>5, Around DEF Slots
<1>8. /\ Hd(q)' = [h EXCEPT !.tail = t, !.cid = h.cid + 1]
      /\ \A p \in Queues : p # q => Hd(p)' = Hd(p)
  BY <1>1, <1>2 DEF Hd, Pushed, Queue
<1>9. dma'[n + 1] = Prepared(k) \/ k \notin Rw
  <2>1. n + 1 \in 1 .. MaxCmds /\ dma \in [1 .. MaxCmds -> Int]
    BY <1>1, <1>3, Constants DEF Typed
  <2> QED
    BY <1>1, <2>1
<1>10. /\ \A i \in 1 .. n : dma'[i] = dma[i]
       /\ dma' \in [1 .. MaxCmds -> Int]
  <2>1. Prepared(k) \in Int
    BY DEF Prepared, Nothing, Typed
  <2>2. \A i \in 1 .. n : i # n + 1
    BY <1>3
  <2>3. dma \in [1 .. MaxCmds -> Int] /\ n \in 0 .. MaxCmds
    BY DEF Typed
  <2>4. \A i \in 1 .. n : i \in 1 .. MaxCmds
    BY <2>3, Constants
  <2> QED
    BY <1>1, <2>1, <2>2, <2>3, <2>4
<1>11. /\ Queue("write") = 1 /\ Queue("read") = 1
       /\ Queue("createCq") = 0 /\ Queue("createSq") = 0 /\ Queue("identify") = 0
  BY DEF Queue, Rw
<1>12. k \in Create => q = 0 /\ admin.g = h.g
  BY <1>2, <1>11 DEF Create, Hd
<1>13. /\ \A p \in Queues : dsq'[p].on = dsq[p].on /\ dsq'[p].g = dsq[p].g /\ dsq'[p].head = dsq[p].head
       /\ \A p \in Queues : p # q => dsq'[p] = dsq[p]
       /\ dsq'[q].tail = t /\ dsq' \in [Queues -> Rings]
  <2>1. dsq \in [Queues -> Rings] /\ dsq' = [dsq EXCEPT ![q].tail = t] /\ t \in Nat /\ q \in Queues
    BY <1>1, <1>3, <1>7 DEF Typed
  <2> QED
    BY ONLY <2>1 DEF Rings
<1>14. /\ sq'[h.g] = [sq[h.g] EXCEPT ![h.tail] = c]
       /\ \A g : g # h.g => sq'[g] = sq[g]
       /\ sq' = [g \in 1 .. MaxMems |-> sq'[g]]
       /\ h.g \in 1 .. mems
       /\ sq[h.g] \in [Slots(q) -> Commands \cup {NoCmd}]
  <2>1. sq = [g \in 1 .. MaxMems |-> sq[g]] /\ mems \in 0 .. MaxMems
    BY DEF Typed
  <2>2. h.g \in 1 .. mems /\ h.g \in 1 .. MaxMems /\ sq[h.g] \in [Slots(q) -> Commands \cup {NoCmd}]
    BY <1>4, <2>1, Constants DEF MemOK
  <2>3. sq'[h.g] = [sq[h.g] EXCEPT ![h.tail] = c]
    BY <1>1, <2>1, <2>2
  <2>4. \A g : g # h.g => sq'[g] = sq[g]
    BY <1>1, <2>1
  <2>5. sq' = [g \in 1 .. MaxMems |-> sq'[g]]
    BY <1>1, <2>1
  <2> QED
    BY <2>2, <2>3, <2>4, <2>5
<1>15. /\ sq'[h.g][h.tail] = c
       /\ \A i \in Slots(q) : i # h.tail => sq'[h.g][i] = sq[h.g][i]
  BY <1>5, <1>14
<1>16. \A p \in Queues : p # q /\ dsq[p].on => dsq[p].g # h.g /\ sq'[dsq[p].g] = sq[dsq[p].g]
  BY <1>2, <1>3, <1>4, <1>14 DEF Ctrl
<1>17. \A r \in Queues : \A g : /\ MemOK(r, g) => MemOK(r, g)'
                                /\ Fresh(r, g) /\ g # h.g => Fresh(r, g)'
  <2> SUFFICES ASSUME NEW r \in Queues, NEW g
               PROVE  /\ MemOK(r, g) => MemOK(r, g)'
                      /\ Fresh(r, g) /\ g # h.g => Fresh(r, g)'
    OBVIOUS
  <2>1. CASE g = h.g
    <3> SUFFICES ASSUME MemOK(r, g) PROVE MemOK(r, g)'
      BY <2>1
    <3> DEFINE S == Commands \cup {NoCmd}
    <3>1. sq[g] \in [Slots(r) -> S] /\ c \in S /\ g \in 1 .. mems
      BY <1>6 DEF MemOK
    <3>2. sq'[g] = [sq[g] EXCEPT ![h.tail] = c]
      BY <1>14, <2>1
    <3> HIDE DEF S
    <3>3. sq'[g] \in [Slots(r) -> S]
      BY <3>1, <3>2
    <3> QED
      BY <1>1, <3>1, <3>3 DEF MemOK, S
  <2>2. CASE g # h.g
    <3>1. sq'[g] = sq[g] /\ cq' = cq /\ mems' = mems
      BY <1>1, <1>14, <2>2
    <3> QED
      BY <3>1, <2>2 DEF MemOK, Fresh
  <2> QED
    BY <2>1, <2>2
<1>18. /\ \A d : InSlot(q, d)' => d = c \/ InSlot(q, d)
       /\ \A p \in Queues : \A d : p # q => (InSlot(p, d)' <=> InSlot(p, d))
  <2>1. ASSUME NEW d, InSlot(q, d)', d # c PROVE InSlot(q, d)
    <3>1. PICK i \in Slots(q) : d = sq'[h.g][i] /\ d # NoCmd
      BY <1>3, <1>4, <1>13, <2>1 DEF InSlot
    <3>2. i # h.tail
      BY <1>15, <2>1, <3>1
    <3> QED
      BY <1>4, <1>15, <3>1, <3>2 DEF InSlot
  <2>2. ASSUME NEW p \in Queues, NEW d, p # q PROVE InSlot(p, d)' <=> InSlot(p, d)
    BY <1>13, <1>16, <2>2 DEF InSlot
  <2> QED
    BY <2>1, <2>2
<1>19. \A d : Live(d)' => d = c \/ Live(d)
  BY <1>1, <1>2, <1>3, <1>18 DEF Live
<1>20. Q' = q /\ Q = q
  BY <1>1 DEF Q
<1>21. /\ Hd(q)'.on /\ Hd(q)'.g = h.g /\ Hd(q)'.head = h.head /\ Hd(q)'.phase = h.phase
       /\ Hd(q)'.tail = t /\ Hd(q)'.cid = h.cid + 1 /\ Hd(q)' \in Handles
  <2>1. h.cid + 1 \in Nat
    BY <1>5 DEF Handles
  <2> QED
    BY <1>1, <1>5, <1>7, <1>8, <2>1 DEF Handles
<1>22. Typed'
  <2>1. admin' \in Handles /\ io' \in Handles
    BY <1>1, <1>2, <1>21 DEF Typed, Hd
  <2>2. HandleOK(admin, 0)' /\ HandleOK(io, 1)'
    <3>1. HandleOK(Hd(q), q)'
      BY <1>1, <1>3, <1>5, <1>7, <1>21 DEF HandleOK, Slots
    <3>2. \A p \in Queues : p # q => HandleOK(Hd(p), p)'
      <4>1. \A p \in Queues : HandleOK(Hd(p), p)
        BY <1>2 DEF Typed, Hd
      <4>2. \A x : x \in 0 .. n => x \in 0 .. n + 1
        BY <1>3
      <4> QED
        BY <1>1, <1>8, <4>1, <4>2 DEF HandleOK
    <3>3. Hd(0)' = admin' /\ Hd(1)' = io'
      BY DEF Hd
    <3>4. HandleOK(Hd(0), 0)' /\ HandleOK(Hd(1), 1)'
      BY <1>2, <3>1, <3>2
    <3> QED
      BY <3>3, <3>4
  <2>3. n' \in 0 .. MaxCmds
    BY <1>1, <1>3, Constants DEF Typed
  <2> QED
    BY <1>1, <1>3, <1>10, <1>13, <1>14, <2>1, <2>2, <2>3 DEF Typed
<1>23. Control' /\ Starting'
  <2>1. io'.on => admin'.on
    BY <1>1, <1>2, <1>21 DEF Control, Hd
  <2> QED
    BY <1>1, <1>3, <1>20, <1>21, <2>1 DEF Control, Starting, Hd
<1>24. Creating'
  <2> SUFFICES ASSUME k \in Create PROVE Creating'
    BY <1>1 DEF Creating
  <2>1. q = 0 /\ admin.g = h.g /\ admin'.on /\ io' = io /\ admin'.g = admin.g
    BY <1>1, <1>2, <1>12, <1>21 DEF Hd
  <2> QED
    BY <1>1, <1>2, <1>17, <2>1 DEF Creating
<1>25. Agree'
  BY <1>1, <1>3, <1>4, <1>8, <1>13, <1>21 DEF Agree
<1>26. Ctrl'
  <2>1. \A p \in Queues : dsq[p].on => dsq'[p].tail \in Slots(p)
    BY <1>7, <1>13 DEF Ctrl
  <2>2. dcq[1].on /\ ~dsq[1].on => dcq[1].g # h.g
    BY <1>2, <1>3, <1>4 DEF Ctrl
  <2> QED
    BY <1>1, <1>2, <1>4, <1>13, <1>17, <2>1, <2>2 DEF Ctrl, Typed, Commands
<1>27. SlotsOK'
  <2>1. ASSUME NEW i \in Slots(q) PROVE SlotOK(q, i)'
    <3>1. CASE i = h.tail
      <4>1. sq'[dsq'[q].g][i] = c
        BY <1>3, <1>4, <1>13, <1>15, <3>1
      <4> QED
        BY <1>6, <4>1 DEF SlotOK
    <3>2. CASE i # h.tail
      <4>1. sq'[dsq'[q].g][i] = sq[dsq[q].g][i] /\ SlotOK(q, i)
        BY <1>3, <1>4, <1>13, <1>15, <3>2 DEF SlotsOK
      <4>2. sq[dsq[q].g][i] = NoCmd => t <= i /\ dsq[q].head <= t
        <5> SUFFICES ASSUME sq[dsq[q].g][i] = NoCmd PROVE t <= i /\ dsq[q].head <= t
          OBVIOUS
        <5>1. h.tail <= i /\ dsq[q].head <= h.tail
          BY <1>4, <4>1 DEF SlotOK
        <5>2. h.tail + 1 <= i /\ i <= Depth[q] - 1 /\ dsq[q].head \in Nat /\ h.tail \in Nat
          BY <1>3, <1>4, <1>5, <3>2, <5>1, Constants DEF Ctrl, Slots, Queues
        <5>3. t = h.tail + 1
          BY <1>3, <1>5, <5>2, Around DEF Slots
        <5> QED
          BY <5>1, <5>2, <5>3
      <4> QED
        BY <1>3, <1>13, <4>1, <4>2 DEF SlotOK
    <3> QED
      BY <3>1, <3>2
  <2>2. ASSUME NEW p \in Queues, p # q, dsq'[p].on, NEW i \in Slots(p) PROVE SlotOK(p, i)'
    BY <1>13, <1>16, <2>2 DEF SlotsOK, SlotOK
  <2> QED
    BY <2>1, <2>2 DEF SlotsOK
<1>28. CmdsOK'
  <2>1. CmdOK(c)'
    <3>1. c.kind = "write" => dma'[c.id] = c.lba
      BY <1>6, <1>9 DEF Rw, Prepared
    <3>2. c.kind \in Create => /\ MemOK(1, c.g)' /\ c.g # dsq'[0].g
                               /\ ~dsq'[1].on => Fresh(1, c.g)'
                               /\ c.kind = "createSq" => dcq[1].on /\ dcq[1].g = c.g
      <4> SUFFICES ASSUME k \in Create
                   PROVE  /\ MemOK(1, ioMem)' /\ ioMem # dsq[0].g
                          /\ ~dsq[1].on => Fresh(1, ioMem)'
                          /\ k = "createSq" => dcq[1].on /\ dcq[1].g = ioMem
        BY <1>1, <1>2, <1>6, <1>13
      <4>1. admin.g = h.g /\ q = 0
        BY <1>12
      <4> QED
        BY <1>1, <1>2, <1>4, <1>17, <4>1 DEF Creating
    <3> QED
      BY <1>1, <1>3, <1>6, <3>1, <3>2 DEF CmdOK, Create
  <2>2. ASSUME NEW d, Live(d) PROVE CmdOK(d)'
    <3>1. CmdOK(d)
      BY <2>2 DEF CmdsOK
    <3>2. ~dsq[1].on => q = 0
      BY <1>2, <1>3, <1>4
    <3>3. d.kind \in Create /\ ~dsq[1].on => d.g # h.g
      BY <1>4, <3>1, <3>2 DEF CmdOK
    <3> QED
      BY <1>1, <1>2, <1>3, <1>10, <1>13, <1>17, <3>1, <3>3 DEF CmdOK
  <2>3. \A d : Live(d) => d.id \in 1 .. n
    BY DEF CmdsOK, CmdOK
  <2> QED
    BY <1>3, <1>6, <1>19, <2>1, <2>2, <2>3 DEF CmdsOK
<1>29. NoIoYet'
  <2> SUFFICES ASSUME admin'.on, ~io'.on
               PROVE  /\ dcq[1].on => dcq[1] = Started(dcq[1].g) /\ Fresh(1, dcq[1].g)'
                      /\ dsq'[1].on => dsq'[1] = Started(dsq'[1].g)
                      /\ \A d \in busy : d.q = 0
    BY <1>1 DEF NoIoYet
  <2>1. q = 0 /\ admin.on /\ ~io.on
    BY <1>1, <1>2, <1>3, <1>8, <1>21 DEF Hd
  <2>2. dcq[1].on => dcq[1].g # h.g
    BY <1>4, <2>1 DEF Ctrl
  <2>3. dsq'[1] = dsq[1]
    BY <1>2, <1>13, <2>1
  <2>4. /\ dcq[1].on => dcq[1] = Started(dcq[1].g) /\ Fresh(1, dcq[1].g)
        /\ dsq[1].on => dsq[1] = Started(dsq[1].g)
        /\ \A d \in busy : d.q = 0
    BY <2>1 DEF NoIoYet
  <2>5. dcq[1].on => Fresh(1, dcq[1].g)'
    BY <1>1, <1>2, <1>17, <2>2, <2>4
  <2> QED
    BY <2>3, <2>4, <2>5
<1>30. JoinedOK'
  <2>1. \A p \in Queues : /\ Hd(p)'.on = Hd(p).on /\ Hd(p)'.g = Hd(p).g
                          /\ Hd(p)'.head = Hd(p).head /\ Hd(p)'.phase = Hd(p).phase
    <3> SUFFICES ASSUME NEW p \in Queues
                 PROVE  /\ Hd(p)'.on = Hd(p).on /\ Hd(p)'.g = Hd(p).g
                        /\ Hd(p)'.head = Hd(p).head /\ Hd(p)'.phase = Hd(p).phase
      OBVIOUS
    <3>1. h.on = Hd(q).on /\ Hd(q)'.on = h.on
      BY <1>5, <1>8 DEF Handles
    <3> QED
      BY <1>1, <1>8, <1>21, <3>1
  <2>2. \A p \in Queues : (Joined(p)' <=> Joined(p)) /\ (Joined(p) => Phases(p)')
    BY <1>1, <2>1 DEF Joined, JoinedOK, Phases
  <2>3. \A p \in Queues : Joined(p) => dsq'[p].on /\ dsq'[p].tail = Hd(p)'.tail
    BY <1>8, <1>13, <1>21 DEF JoinedOK
  <2>4. ASSUME NEW p \in Queues, NEW x, CidOK(x, p), x.cid \in Int, x.id \in Int PROVE CidOK(x, p)'
    <3>1. Hd(p)'.cid \in Nat /\ Hd(p).cid \in Nat
      BY <1>5, <1>8, <1>21, <1>22 DEF Typed, Hd, Handles
    <3>2. CASE p = q
      <4>1. x.cid < h.cid /\ x.id <= n
        BY <2>4, <3>2 DEF CidOK
      <4> QED
        BY <1>1, <1>3, <1>20, <1>21, <2>4, <3>1, <3>2, <4>1 DEF CidOK
    <3>3. CASE p # q
      BY <1>1, <1>3, <1>8, <1>20, <2>4, <3>1, <3>3 DEF CidOK
    <3> QED
      BY <3>2, <3>3
  <2>5. CidOK(c, q)'
    <3>1. h.cid \in Nat
      BY <1>5
    <3> QED
      BY <1>1, <1>3, <1>6, <1>20, <1>21, <3>1 DEF CidOK
  <2>6. ASSUME NEW p \in Queues, Joined(p), NEW d, (d \in busy /\ d.q = p) \/ InSlot(p, d)'
        PROVE  CidOK(d, p)'
    <3>1. CASE d = c
      <4>1. p = q
        <5>1. CASE d \in busy /\ d.q = p
          BY <1>6, <3>1, <5>1
        <5>2. CASE InSlot(p, d)' /\ p # q
          <6>1. InSlot(p, d)
            BY <1>18, <5>2
          <6> QED
            BY <1>6, <3>1, <5>2, <6>1 DEF SlotsOK, SlotOK, InSlot
        <5> QED
          BY <2>6, <5>1, <5>2
      <4> QED
        BY <2>5, <3>1, <4>1
    <3>2. CASE d # c
      <4>1. (d \in busy /\ d.q = p) \/ InSlot(p, d)
        BY <1>18, <2>6, <3>2
      <4>2. CidOK(d, p)
        BY <2>6, <4>1 DEF JoinedOK
      <4>3. d.cid \in Int /\ d.id \in Int
        BY <4>1 DEF Live, CmdsOK, CmdOK, Commands
      <4> QED
        BY <2>4, <4>2, <4>3
    <3> QED
      BY <3>1, <3>2
  <2>7. ASSUME NEW p \in Queues, Joined(p), NEW i \in Slots(p)
        PROVE  /\ cq[dcq[p].g][i].id <= n'
               /\ cq[dcq[p].g][i].ok => CidOK(cq[dcq[p].g][i], p)'
    <3>1. cq[dcq[p].g][i] \in Entries
      BY <2>7 DEF Ctrl, MemOK, Joined
    <3>2. cq[dcq[p].g][i].cid \in Int /\ cq[dcq[p].g][i].id \in Int
      BY <3>1 DEF Entries
    <3> QED
      BY <1>1, <1>3, <2>4, <2>7, <3>2 DEF JoinedOK
  <2> QED
    BY <1>1, <2>2, <2>3, <2>6, <2>7 DEF JoinedOK
<1>31. Waits'
  <2>1. H'.g = h.g /\ Q' = q /\ Joined(q) /\ dcq[q].g = h.g
    BY <1>1, <1>4, <1>20, <1>21 DEF H, Hd, Joined
  <2>2. \A i \in Slots(q) : cq[h.g][i].id <= n
    BY <1>3, <2>1 DEF JoinedOK
  <2>3. \A i \in Slots(q) : cq[h.g][i].id # n'
    BY <1>1, <1>3, <2>2
  <2>4. \A d : Live(d)' /\ d.id = n' => d = c
    <3>1. \A d : Live(d) => d.id \in 1 .. n
      BY DEF CmdsOK, CmdOK
    <3> QED
      BY <1>1, <1>3, <1>19, <3>1
  <2> QED
    BY <1>1, <1>6, <2>1, <2>3, <2>4 DEF Waits
<1> QED
  BY <1>22, <1>23, <1>24, <1>25, <1>26, <1>27, <1>28, <1>29, <1>30, <1>31


(* The call waits: for a command in a queue that both sides have.           *)
LEMMA WaitFacts ==
    ASSUME Inv, Waiting
    PROVE  /\ Q \in Queues /\ H = Hd(Q) /\ Head(todo) \in Kinds /\ todo # << >> /\ todo # Inits
           /\ n \in Nat /\ H.on /\ H \in Handles /\ HandleOK(H, Q) /\ H.head \in Slots(Q)
           /\ en /\ ready /\ dsq[Q].on /\ dsq[Q].g = H.g /\ dcq[Q].on /\ dcq[Q].g = H.g
           /\ Joined(Q) /\ Phases(Q) /\ MemOK(Q, H.g) /\ H.head = dcq[Q].head
           /\ dcq[Q].tail \in Slots(Q)
<1> USE DEF Inv
<1>1. pc = "wait" /\ todo # << >> /\ todo # Inits /\ Hd(Q).on
  BY DEF Waiting, Control
<1>2. H = Hd(Q) /\ Q \in Queues
  BY DEF H, Hd, Q, Queue, Queues
<1>3. Head(todo) \in Kinds /\ n \in Nat
  BY <1>1, TodoFacts, Constants DEF Typed
<1>4. H \in Handles /\ HandleOK(H, Q) /\ H.head \in Slots(Q)
  BY <1>2 DEF Typed, H, HandleOK, Queues, Slots
<1>5. en /\ ready /\ dsq[Q].on /\ dsq[Q].g = H.g
  BY <1>1, <1>2 DEF Agree
<1>6. dcq[Q].on /\ dcq[Q].g = H.g /\ MemOK(Q, H.g) /\ dcq[Q].tail \in Slots(Q)
  BY <1>2, <1>5 DEF Ctrl
<1>7. Joined(Q) /\ Phases(Q) /\ H.head = dcq[Q].head
  BY <1>1, <1>2, <1>6 DEF Joined, JoinedOK, Phases
<1> QED
  BY <1>1, <1>2, <1>3, <1>4, <1>5, <1>6, <1>7

(* The phase bit at the head tells whether there is a completion.           *)
LEMMA PhaseFacts ==
    ASSUME Inv, NEW q \in Queues, Joined(q)
    PROVE  Visible(Hd(q)) <=> Hd(q).head # dcq[q].tail
<1> PICK h, d, y, t : h = Hd(q).head /\ t = dcq[q].tail /\ d = dcq[q].phase /\ y = cq[dcq[q].g][h].phase
  OBVIOUS
<1>1. /\ Phases(q) /\ dcq[q].g = Hd(q).g /\ h \in Slots(q) /\ h = dcq[q].head
      /\ t \in Slots(q) /\ d \in BOOLEAN
  <2>1. Phases(q) /\ dcq[q].g = Hd(q).g /\ dcq[q].on /\ dcq[q] \in Rings
    BY DEF Inv, JoinedOK, Joined, Typed
  <2>2. h = dcq[q].head /\ dcq[q].head \in Slots(q) /\ t \in Slots(q)
    BY <2>1 DEF Phases, Inv, Ctrl
  <2> QED
    BY <2>1, <2>2 DEF Rings
<1>2. y = (IF h < t THEN d ELSE ~d) /\ Hd(q).phase = (IF h <= t THEN d ELSE ~d)
  BY <1>1 DEF Phases
<1>3. h \in Int /\ t \in Int
  BY <1>1 DEF Slots
<1>4. Visible(Hd(q)) <=> y = Hd(q).phase
  BY <1>1 DEF Visible
<1>5. CASE h < t
  BY <1>1, <1>2, <1>3, <1>4, <1>5
<1>6. CASE h = t
  <2>1. ~(h < t) /\ h <= t
    BY <1>3, <1>6
  <2>2. y = ~d /\ Hd(q).phase = d
    BY <1>2, <2>1, Zenon
  <2> QED
    BY <1>1, <1>4, <1>6, <2>2
<1>7. CASE t < h
  <2>1. ~(h < t) /\ ~(h <= t) /\ h # t
    BY <1>3, <1>7
  <2>2. y = ~d /\ Hd(q).phase = ~d
    BY <1>2, <2>1, Zenon
  <2> QED
    BY <1>1, <1>4, <2>1, <2>2
<1> QED
  BY <1>3, <1>5, <1>6, <1>7

(* An answer with the cid of the command that is waited for is its answer.  *)
LEMMA AnswerMine ==
    ASSUME Inv, Waiting, Mine(cq[H.g][H.head], H), cq[H.g][H.head].ok
    PROVE  cq[H.g][H.head].id = n /\ Done(Head(todo))
<1> DEFINE e == cq[H.g][H.head]
<1>1. /\ Q \in Queues /\ H = Hd(Q) /\ H.head \in Slots(Q) /\ Joined(Q) /\ dcq[Q].g = H.g
  BY WaitFacts
<1>2. CidOK(e, Q)
  BY <1>1 DEF Inv, JoinedOK
<1>3. e.id = n
  BY <1>1, <1>2 DEF CidOK, Mine, Waiting
<1> QED
  BY <1>1, <1>3 DEF Inv, Waits, Waiting


(* The head moves on, and its phase turns with it.                          *)
LEMMA HeadMoves ==
    ASSUME NEW D \in Nat, D >= 2, NEW h \in 0 .. D - 1, NEW t \in 0 .. D - 1, h # t,
           NEW d \in BOOLEAN, NEW p, p = (IF h <= t THEN d ELSE ~d),
           NEW h2, h2 = (h + 1) % D, NEW p2, p2 = (IF h + 1 = D THEN ~p ELSE p)
    PROVE  h2 \in 0 .. D - 1 /\ p2 = (IF h2 <= t THEN d ELSE ~d) /\ p2 \in BOOLEAN
<1>1. CASE h + 1 = D
  <2>1. h2 = 0 /\ t < h /\ ~(h <= t) /\ h2 <= t /\ h2 \in 0 .. D - 1
    BY <1>1
  <2>2. p = ~d /\ p2 = ~p
    BY <1>1, <2>1, Zenon
  <2>3. p2 = d
    BY <2>2
  <2> QED
    BY <2>1, <2>3, Zenon
<1>2. CASE h + 1 # D /\ h < t
  <2>1. h2 = h + 1 /\ h2 <= t /\ h <= t /\ h2 \in 0 .. D - 1
    BY <1>2
  <2>2. p2 = d
    BY <1>2, <2>1, Zenon
  <2> QED
    BY <2>1, <2>2, Zenon
<1>3. CASE h + 1 # D /\ t < h
  <2>1. h2 = h + 1 /\ ~(h2 <= t) /\ ~(h <= t) /\ h2 \in 0 .. D - 1
    BY <1>3
  <2>2. p2 = ~d
    BY <1>3, <2>1, Zenon
  <2>3. p2 \in BOOLEAN
    BY <2>2
  <2> QED
    BY <2>1, <2>2, <2>3, Zenon
<1> QED
  BY <1>1, <1>2, <1>3

(* A pair of queues that has not been used is in step with a new handle.    *)
LEMMA FreshInStep ==
    ASSUME NEW q \in Queues, NEW g \in Nat, NEW i \in Slots(q), NEW d, d = Started(g),
           NEW h, h = Handle(g), NEW e, e = NoEntry
    PROVE  /\ e.phase = (IF i < d.tail THEN d.phase ELSE ~d.phase)
           /\ h.head = d.head /\ h.phase = (IF h.head <= d.tail THEN d.phase ELSE ~d.phase)
<1>1. /\ h.head = 0 /\ h.phase = TRUE /\ d.head = 0 /\ d.tail = 0 /\ d.phase = TRUE
      /\ e.phase = FALSE /\ ~(i < 0)
  <2>1. ~(i < 0)
    BY Constants DEF Slots, Queues
  <2> QED
    BY <2>1, HandleFacts, StartedFacts, NoEntryFacts
<1>2. h.head <= d.tail /\ ~(i < d.tail)
  BY <1>1
<1>3. h.phase = d.phase /\ e.phase = ~d.phase
  BY <1>1, Zenon
<1> QED
  BY <1>1, <1>2, <1>3, Zenon


(* A completion is taken.                                                   *)
LEMMA ConsumeInv ==
    ASSUME Inv, Consume PROVE Inv'
<1> PICK k : k = Head(todo)
  OBVIOUS
<1> PICK q : q = Q
  OBVIOUS
<1> PICK h : h = H
  OBVIOUS
<1> PICK e : e = cq[h.g][h.head]
  OBVIOUS
<1> PICK ok \in BOOLEAN : ok <=> Mine(e, h) /\ e.ok
  OBVIOUS
<1> PICK t : t = (h.head + 1) % Depth[q]
  OBVIOUS
<1> USE DEF Inv
<1>1. /\ Waiting /\ pc = "wait" /\ Visible(h)
      /\ dcq' = [dcq EXCEPT ![q].head = t]
      /\ IF q = 1 THEN io' = Popped(io, 1) /\ UNCHANGED admin
         ELSE /\ admin' = Popped(admin, 0)
              /\ io' = IF ok /\ k = "createSq" THEN Handle(ioMem) ELSE io
      /\ IF ok /\ ~PastEnd THEN pc' = "next" /\ todo' = Tail(todo) /\ UNCHANGED lba ELSE Return
      /\ UNCHANGED <<n, mems, ioMem, sq, cq, dma, en, ready, fatal, reg, dsq, busy, block>>
  BY DEF Consume, Waiting
<1>2. 0 \in Queues /\ 1 \in Queues /\ 0 # 1 /\ \A p \in Queues : p = 0 \/ p = 1
  BY DEF Queues
<1>3. /\ q \in Queues /\ h = Hd(q) /\ k \in Kinds /\ todo # << >> /\ todo # Inits
      /\ n \in Nat /\ h.on /\ h \in Handles /\ HandleOK(h, q) /\ h.head \in Slots(q)
      /\ en /\ ready /\ dsq[q].on /\ dsq[q].g = h.g /\ dcq[q].on /\ dcq[q].g = h.g
      /\ Joined(q) /\ Phases(q) /\ MemOK(q, h.g) /\ h.head = dcq[q].head
      /\ dcq[q].tail \in Slots(q)
  BY <1>1, WaitFacts
<1>4. h.head # dcq[q].tail
  BY <1>1, <1>3, PhaseFacts
<1>5. ok => Done(k)
  BY <1>1, AnswerMine
<1>6. q = Queue(k)
  BY DEF Q
<1>7. Queue("write") = 1 /\ Queue("read") = 1 /\ Queue("createCq") = 0 /\ Queue("createSq") = 0
  BY DEF Queue, Rw
<1>8. t \in Slots(q) /\ t \in Nat
  BY <1>3, Around DEF Slots
<1>9. /\ \A p \in Queues : p # q => dcq'[p] = dcq[p]
      /\ \A p \in Queues : dcq'[p].on = dcq[p].on /\ dcq'[p].g = dcq[p].g /\ dcq'[p].tail = dcq[p].tail
                           /\ dcq'[p].phase = dcq[p].phase
      /\ dcq'[q].head = t /\ dcq' \in [Queues -> Rings]
  <2>1. dcq \in [Queues -> Rings] /\ dcq' = [dcq EXCEPT ![q].head = t] /\ t \in Nat /\ q \in Queues
    BY <1>1, <1>3, <1>8 DEF Typed
  <2> QED
    BY ONLY <2>1 DEF Rings
<1>10. PICK h2 : h2 = Hd(q)'
  OBVIOUS
<1>11. /\ h2 = [h EXCEPT !.head = t, !.phase = IF h.head + 1 = Depth[q] THEN ~h.phase ELSE h.phase]
       /\ h2.on /\ h2.g = h.g /\ h2.head = t /\ h2.tail = h.tail /\ h2.cid = h.cid
       /\ h2.phase = (IF h.head + 1 = Depth[q] THEN ~h.phase ELSE h.phase)
  <2>1. h2 = [h EXCEPT !.head = t, !.phase = IF h.head + 1 = Depth[q] THEN ~h.phase ELSE h.phase]
    BY <1>1, <1>2, <1>3, <1>10 DEF Hd, Popped
  <2> QED
    BY <1>3, <2>1 DEF Handles
<1>12. /\ h2.phase = (IF t <= dcq[q].tail THEN dcq[q].phase ELSE ~dcq[q].phase)
       /\ h2.phase \in BOOLEAN
  <2>1. Depth[q] \in Nat /\ Depth[q] >= 2 /\ h.head \in 0 .. Depth[q] - 1
        /\ dcq[q].tail \in 0 .. Depth[q] - 1 /\ dcq[q].phase \in BOOLEAN
    BY <1>3, Constants DEF Queues, Slots, Typed, Rings
  <2>2. h.phase = (IF h.head <= dcq[q].tail THEN dcq[q].phase ELSE ~dcq[q].phase)
    BY <1>3 DEF Phases
  <2> QED
    BY <1>4, <1>11, <2>1, <2>2, HeadMoves
<1>13. h2 \in Handles
  <2>1. \A x : x \in Handles => x = [on |-> x.on, g |-> x.g, tail |-> x.tail, head |-> x.head,
                                     phase |-> x.phase, cid |-> x.cid]
    BY DEF Handles
  <2> QED
    BY <1>3, <1>8, <1>11, <1>12 DEF Handles
<1>14. /\ pc' \in {"next", "idle"} /\ (pc' = "idle" => todo' = << >>) /\ todo' # Inits
       /\ (pc' = "next" => todo' = Tail(todo) /\ ok)
       /\ todo' \in Todos /\ lba' \in Nat
  <2>1. << >> \in Todos /\ << >> # Inits /\ Tail(todo) \in Todos /\ Tail(todo) # Inits /\ lba \in Nat
    BY <1>3, InitTodo, TodoFacts DEF Todos, Typed
  <2>2. CASE ok /\ ~PastEnd
    <3>1. pc' = "next" /\ todo' = Tail(todo) /\ lba' = lba
      BY <1>1, <2>2
    <3> QED
      BY <2>1, <2>2, <3>1
  <2>3. CASE ~(ok /\ ~PastEnd)
    <3>1. pc' = "idle" /\ todo' = << >> /\ lba' = 0
      BY <1>1, <2>3 DEF Return
    <3> QED
      BY <2>1, <3>1
  <2> QED
    BY <2>2, <2>3
<1>15. /\ \A p \in Queues : \A c : InSlot(p, c)' <=> InSlot(p, c)
       /\ \A c : Live(c)' <=> Live(c)
       /\ \A r, g : (MemOK(r, g)' <=> MemOK(r, g)) /\ (Fresh(r, g)' <=> Fresh(r, g))
  BY <1>1 DEF InSlot, Live, MemOK, Fresh
<1>16. ok /\ k = "createSq" =>
          /\ q = 0 /\ io' = Handle(ioMem) /\ admin.on /\ ~io.on
          /\ ioMem \in 1 .. mems /\ ioMem \in Nat
          /\ dcq[1] = Started(ioMem) /\ dsq[1] = Started(ioMem)
          /\ MemOK(1, ioMem) /\ Fresh(1, ioMem) /\ \A c \in busy : c.q = 0
  <2> SUFFICES ASSUME ok, k = "createSq"
               PROVE  /\ q = 0 /\ io' = Handle(ioMem) /\ admin.on /\ ~io.on
                      /\ ioMem \in 1 .. mems /\ ioMem \in Nat
                      /\ dcq[1] = Started(ioMem) /\ dsq[1] = Started(ioMem)
                      /\ MemOK(1, ioMem) /\ Fresh(1, ioMem) /\ \A c \in busy : c.q = 0
    OBVIOUS
  <2>1. q = 0 /\ io' = Handle(ioMem)
    BY <1>1, <1>6, <1>7
  <2>2. admin.on /\ ~io.on /\ MemOK(1, ioMem) /\ Fresh(1, ioMem) /\ dcq[1].on /\ dcq[1].g = ioMem
    BY <1>1, <1>3 DEF Creating, Create
  <2>3. dsq[1].on /\ dsq[1].g = ioMem
    BY <1>5 DEF Done
  <2>4. ioMem \in 1 .. mems /\ ioMem \in Nat
    BY <2>2, Constants DEF MemOK, Typed
  <2> QED
    BY <2>1, <2>2, <2>3, <2>4 DEF NoIoYet
<1>17. ASSUME NEW p \in Queues, p # q
       PROVE  \/ Hd(p)' = Hd(p)
              \/ ok /\ k = "createSq" /\ p = 1 /\ Hd(p)' = Handle(ioMem)
  <2>1. CASE p = 0
    <3>1. admin' = admin
      BY <1>1, <1>2, <1>3, <1>17, <2>1
    <3> QED
      BY <2>1, <3>1 DEF Hd
  <2>2. CASE p = 1
    <3>1. io' = IF ok /\ k = "createSq" THEN Handle(ioMem) ELSE io
      BY <1>1, <1>2, <1>3, <1>17, <2>2
    <3> QED
      BY <2>2, <3>1 DEF Hd
  <2> QED
    BY <1>2, <1>17, <2>1, <2>2
<1>18. ok /\ k = "createSq" =>
         /\ Handle(ioMem) \in Handles /\ Handle(ioMem).on /\ Handle(ioMem).g = ioMem
         /\ Handle(ioMem).tail = 0 /\ Handle(ioMem).head = 0 /\ Handle(ioMem).cid = 0
  BY <1>16, HandleFacts
<1>19. Typed'
  <2>1. ASSUME NEW p \in Queues PROVE Hd(p)' \in Handles /\ HandleOK(Hd(p), p)'
    <3>1. CASE p = q
      BY <1>1, <1>3, <1>8, <1>10, <1>11, <1>13, <3>1 DEF HandleOK, Slots
    <3>2. CASE p # q /\ Hd(p)' = Hd(p)
      BY <1>1, <1>2, <3>2 DEF Typed, Hd, HandleOK
    <3>3. CASE ok /\ k = "createSq" /\ p = 1 /\ Hd(p)' = Handle(ioMem)
      <4>1. 0 \in 0 .. Depth[1] - 1 /\ 0 \in 0 .. n /\ ioMem \in 0 .. mems /\ ioMem # 0
        BY <1>3, <1>16, <3>3, Constants
      <4> QED
        BY <1>1, <1>18, <3>3, <4>1 DEF HandleOK
    <3> QED
      BY <1>17, <3>1, <3>2, <3>3
  <2>2. Hd(0)' = admin' /\ Hd(1)' = io'
    BY DEF Hd
  <2>3. admin' \in Handles /\ io' \in Handles /\ HandleOK(admin, 0)' /\ HandleOK(io, 1)'
    BY <1>2, <2>1, <2>2
  <2>4. pc' \in {"idle", "next", "wait", "disable", "enable"}
    BY <1>14
  <2> QED
    BY <1>1, <1>9, <1>14, <2>3, <2>4 DEF Typed
<1>20. Control' /\ Starting' /\ Waits'
  <2>1. io'.on => admin'.on
    BY <1>1, <1>2, <1>3, <1>10, <1>11, <1>16 DEF Control, Hd
  <2> QED
    BY <1>14, <2>1 DEF Control, Starting, Waits
<1>21. Creating'
  <2> SUFFICES ASSUME pc' = "next", todo' # << >>, Head(todo') \in Create PROVE Creating'
    BY <1>14 DEF Creating
  <2>1. k = "createCq" /\ ok
    <3>1. "read" \notin Create /\ "write" \notin Create
      BY DEF Create
    <3> QED
      <4>1. todo \in Todos /\ todo' = Tail(todo) /\ ok
        BY <1>14 DEF Typed
      <4>2. k # "createCq" => Head(todo') \in Rw
        BY <1>3, <4>1, TodoFacts
      <4> QED
        BY <3>1, <4>1, <4>2 DEF Rw
  <2>2. q = 0 /\ io' = io /\ k # "createSq"
    BY <1>1, <1>6, <1>7, <2>1
  <2>3. admin'.on /\ admin'.g = admin.g
    BY <1>3, <1>10, <1>11, <2>2 DEF Hd
  <2>4. dcq[1].on /\ dcq[1].g = ioMem
    BY <1>5, <2>1 DEF Done
  <2>5. admin.on /\ ~io.on /\ ioMem # admin.g /\ MemOK(1, ioMem) /\ Fresh(1, ioMem)
    BY <1>1, <1>3, <2>1 DEF Creating, Create
  <2> QED
    BY <1>1, <1>2, <1>9, <1>15, <2>2, <2>3, <2>4, <2>5 DEF Creating
<1>22. Agree'
  <2> SUFFICES ASSUME NEW p \in Queues, Hd(p)'.on PROVE dsq[p].on /\ dsq[p].g = Hd(p)'.g
    BY <1>1, <1>3 DEF Agree
  <2>1. CASE p = q
    BY <1>3, <1>10, <1>11, <2>1
  <2>2. CASE p # q /\ Hd(p)' = Hd(p)
    BY <1>1, <1>3, <2>2 DEF Agree
  <2>3. CASE ok /\ k = "createSq" /\ p = 1 /\ Hd(p)' = Handle(ioMem)
    BY <1>16, <1>18, <2>3, StartedFacts
  <2> QED
    BY <1>17, <2>1, <2>2, <2>3
<1>23. Ctrl'
  <2>1. dcq[1].on /\ ~dsq[1].on => dcq'[1] = dcq[1]
    BY <1>2, <1>3, <1>9
  <2>2. \A p \in Queues : dcq[p].on => dcq'[p].head \in Slots(p)
    BY <1>8, <1>9 DEF Ctrl
  <2> QED
    BY <1>1, <1>2, <1>3, <1>9, <1>15, <2>1, <2>2 DEF Ctrl
<1>24. SlotsOK' /\ CmdsOK'
  BY <1>1, <1>2, <1>9, <1>15 DEF SlotsOK, SlotOK, CmdsOK, CmdOK
<1>25. NoIoYet'
  <2> SUFFICES ASSUME admin'.on, ~io'.on
               PROVE  /\ dcq'[1] = dcq[1]
                      /\ admin.on /\ ~io.on
    BY <1>1, <1>15 DEF NoIoYet
  <2>1. ~(ok /\ k = "createSq")
    BY <1>16, <1>18
  <2>2. q = 0
    BY <1>2, <1>3, <1>10, <1>11 DEF Hd
  <2> QED
    BY <1>1, <1>2, <1>3, <1>9, <2>1, <2>2 DEF Hd
<1>26. JoinedOK'
  <2>1. pc' # "wait"
    BY <1>14
  <2>2. ASSUME NEW p \in Queues, Joined(p)', Hd(p)' = Hd(p) \/ p = q
        PROVE  /\ Joined(p) /\ Hd(p)'.tail = Hd(p).tail /\ Hd(p)'.cid = Hd(p).cid
               /\ Phases(p)'
    <3>1. CASE p = q
      <4>1. Hd(p)'.tail = Hd(p).tail /\ Hd(p)'.cid = Hd(p).cid /\ Joined(p)
        BY <1>3, <1>10, <1>11, <3>1
      <4>2. \A i \in Slots(q) : cq[dcq[q].g][i].phase = (IF i < dcq[q].tail THEN dcq[q].phase
                                                        ELSE ~dcq[q].phase)
        BY <1>3 DEF Phases
      <4>3. /\ cq' = cq /\ h2.head = dcq'[q].head /\ h2.head = t
            /\ dcq'[q].g = dcq[q].g /\ dcq'[q].tail = dcq[q].tail /\ dcq'[q].phase = dcq[q].phase
        BY <1>1, <1>3, <1>9, <1>11
      <4>4. Phases(q)'
        BY <1>10, <1>12, <4>2, <4>3 DEF Phases
      <4> QED
        BY <3>1, <4>1, <4>4
    <3>2. CASE p # q
      BY <1>1, <1>9, <2>2, <3>2 DEF Joined, JoinedOK, Phases
    <3> QED
      BY <3>1, <3>2
  <2>3. ASSUME NEW p \in Queues, NEW x, CidOK(x, p), Hd(p)'.cid = Hd(p).cid PROVE CidOK(x, p)'
    BY <1>1, <2>1, <2>3 DEF CidOK
  <2>4. ASSUME NEW p \in Queues, Joined(p)', Hd(p)' = Hd(p) \/ p = q
        PROVE  /\ dsq[p].on /\ dsq[p].tail = Hd(p)'.tail
               /\ Phases(p)'
               /\ \A c : (c \in busy /\ c.q = p) \/ InSlot(p, c) => CidOK(c, p)'
               /\ \A i \in Slots(p) : cq[dcq[p].g][i].id <= n
               /\ \A i \in Slots(p) : cq[dcq[p].g][i].ok => CidOK(cq[dcq[p].g][i], p)'
    <3>1. Joined(p) /\ Hd(p)'.tail = Hd(p).tail /\ Hd(p)'.cid = Hd(p).cid /\ Phases(p)'
      BY <2>2, <2>4
    <3>2. /\ dsq[p].on /\ dsq[p].tail = Hd(p).tail
          /\ \A c : (c \in busy /\ c.q = p) \/ InSlot(p, c) => CidOK(c, p)
          /\ \A i \in Slots(p) : cq[dcq[p].g][i].id <= n
          /\ \A i \in Slots(p) : cq[dcq[p].g][i].ok => CidOK(cq[dcq[p].g][i], p)
      BY <3>1 DEF JoinedOK
    <3>3. \A x : CidOK(x, p) => CidOK(x, p)'
      BY <2>3, <3>1
    <3>4. \A i \in Slots(p) : cq[dcq[p].g][i].ok => CidOK(cq[dcq[p].g][i], p)'
      <4>1. cq'[dcq'[p].g] = cq[dcq[p].g]
        BY <1>1, <1>9
      <4> QED
        BY <3>2, <3>3, <4>1
    <3> QED
      BY <3>1, <3>2, <3>3, <3>4
  <2>5. ASSUME ok, k = "createSq"
        PROVE  /\ dsq[1].on /\ dsq[1].tail = Hd(1)'.tail
               /\ Phases(1)'
               /\ \A c : ~(c \in busy /\ c.q = 1) /\ ~InSlot(1, c)
               /\ \A i \in Slots(1) : cq[dcq[1].g][i].id <= n /\ ~cq[dcq[1].g][i].ok
    <3>1. Hd(1)' = Handle(ioMem) /\ q = 0 /\ dcq'[1] = Started(ioMem)
      BY <1>2, <1>9, <1>16, <2>5 DEF Hd
    <3>2. /\ dcq[1].g = ioMem /\ dsq[1].g = ioMem /\ dsq[1].on /\ dsq[1].tail = 0 /\ ioMem \in Nat
          /\ \A i \in Slots(1) : sq[ioMem][i] = NoCmd /\ cq[ioMem][i] = NoEntry
      BY <1>16, <2>5, StartedFacts DEF Fresh
    <3>3. Phases(1)'
      <4>1. dcq'[1].g = ioMem /\ cq' = cq /\ 0 \in Slots(1)
        BY <1>1, <1>2, <1>9, <3>2, Constants DEF Slots
      <4>2. ASSUME NEW i \in Slots(1)
            PROVE  /\ cq[ioMem][i].phase = (IF i < dcq'[1].tail THEN dcq'[1].phase ELSE ~dcq'[1].phase)
                   /\ Hd(1)'.head = dcq'[1].head
                   /\ Hd(1)'.phase = (IF Hd(1)'.head <= dcq'[1].tail THEN dcq'[1].phase ELSE ~dcq'[1].phase)
        BY <1>2, <3>1, <3>2, FreshInStep
      <4> QED
        BY <4>1, <4>2 DEF Phases
    <3> QED
      <4>1. dsq[1].on /\ dsq[1].tail = Hd(1)'.tail
        BY <1>18, <2>5, <3>1, <3>2
      <4>2. \A c : ~(c \in busy /\ c.q = 1) /\ ~InSlot(1, c)
        BY <1>16, <2>5, <3>2 DEF InSlot
      <4>3. \A i \in Slots(1) : cq[dcq[1].g][i].id <= n /\ ~cq[dcq[1].g][i].ok
        BY <1>3, <3>2, NoEntryFacts
      <4> QED
        BY <3>3, <4>1, <4>2, <4>3
  <2>6. \A p \in Queues : Hd(p)' = Hd(p) \/ p = q \/ (ok /\ k = "createSq" /\ p = 1)
    BY <1>17
  <2>7. ASSUME NEW p \in Queues, Joined(p)'
        PROVE  /\ dsq[p].on /\ dsq[p].tail = Hd(p)'.tail
               /\ Phases(p)'
               /\ \A c : (c \in busy /\ c.q = p) \/ InSlot(p, c) => CidOK(c, p)'
               /\ \A i \in Slots(p) : cq[dcq[p].g][i].id <= n
               /\ \A i \in Slots(p) : cq[dcq[p].g][i].ok => CidOK(cq[dcq[p].g][i], p)'
    <3>1. CASE Hd(p)' = Hd(p) \/ p = q
      BY <2>4, <2>7, <3>1
    <3>2. CASE ok /\ k = "createSq" /\ p = 1
      BY <2>5, <3>2
    <3> QED
      BY <2>6, <3>1, <3>2
  <2> QED
    BY <1>1, <1>9, <1>15, <2>7 DEF JoinedOK
<1> QED
  BY <1>19, <1>20, <1>21, <1>22, <1>23, <1>24, <1>25, <1>26


(* The tail moves on, with a completion of its turn behind it.              *)
LEMMA TailMoves ==
    ASSUME NEW D \in Nat, D >= 2, NEW h \in 0 .. D - 1, NEW t \in 0 .. D - 1,
           NEW d \in BOOLEAN, NEW p, p = (IF h <= t THEN d ELSE ~d),
           NEW t2, t2 = (t + 1) % D, t2 # h, NEW d2, d2 = (IF t + 1 = D THEN ~d ELSE d),
           NEW i \in 0 .. D - 1, NEW y, y = (IF i < t THEN d ELSE ~d),
           NEW y2, y2 = (IF i = t THEN d ELSE y)
    PROVE  /\ t2 \in 0 .. D - 1 /\ d2 \in BOOLEAN
           /\ p = (IF h <= t2 THEN d2 ELSE ~d2)
           /\ y2 = (IF i < t2 THEN d2 ELSE ~d2)
<1>1. CASE t + 1 = D
  <2>1. t2 = 0 /\ t2 \in 0 .. D - 1 /\ ~(i < t2) /\ h <= t /\ ~(h <= t2) /\ (i # t => i < t)
    BY <1>1
  <2>2. d2 = ~d
    BY <1>1
  <2>3. d2 \in BOOLEAN /\ (~d2) = d
    BY <2>2
  <2>4. y2 = d
    <3>1. CASE i = t
      BY <3>1, Zenon
    <3>2. CASE i # t
      <4>1. y2 = y /\ i < t
        BY <2>1, <3>2, Zenon
      <4> QED
        BY <4>1, Zenon
    <3> QED
      BY <3>1, <3>2
  <2>5. p = d
    BY <2>1, Zenon
  <2> QED
    BY <2>1, <2>3, <2>4, <2>5, Zenon
<1>2. CASE t + 1 # D
  <2>1. t2 = t + 1 /\ t2 \in 0 .. D - 1 /\ (h <= t <=> h <= t2) /\ (i < t2 <=> i < t \/ i = t)
    BY <1>2
  <2>2. d2 = d
    BY <1>2
  <2>3. p = (IF h <= t2 THEN d2 ELSE ~d2)
    <3>1. CASE h <= t
      <4>1. p = d /\ h <= t2
        BY <2>1, <3>1, Zenon
      <4> QED
        BY <2>2, <4>1, Zenon
    <3>2. CASE ~(h <= t)
      <4>1. p = ~d /\ ~(h <= t2)
        BY <2>1, <3>2, Zenon
      <4>2. p = ~d2
        BY <2>2, <4>1
      <4> QED
        BY <4>1, <4>2, Zenon
    <3> QED
      BY <3>1, <3>2
  <2>4. y2 = (IF i < t2 THEN d2 ELSE ~d2)
    <3>1. CASE i = t
      BY <2>1, <2>2, <3>1, Zenon
    <3>2. CASE i # t
      <4>1. CASE i < t
        <5>1. y2 = d /\ i < t2
          BY <2>1, <3>2, <4>1, Zenon
        <5> QED
          BY <2>2, <5>1, Zenon
      <4>2. CASE ~(i < t)
        <5>1. y2 = ~d /\ ~(i < t2)
          BY <2>1, <3>2, <4>2, Zenon
        <5>2. y2 = ~d2
          BY <2>2, <5>1
        <5> QED
          BY <5>1, <5>2, Zenon
      <4> QED
        BY <4>1, <4>2
    <3> QED
      BY <3>1, <3>2
  <2> QED
    BY <2>1, <2>2, <2>3, <2>4, Zenon
<1> QED
  BY <1>1, <1>2


(* What a command that is done leaves behind.                               *)
LEMMA EffectFacts ==
    ASSUME Inv, NEW c \in busy, NEW ok \in BOOLEAN, Complete(c, ok)
    PROVE  /\ UNCHANGED block
           /\ dma' \in [1 .. MaxCmds -> Int] /\ \A i \in 1 .. n : i # c.id => dma'[i] = dma[i]
           /\ IF ok /\ c.kind = "read" THEN dma'[c.id] = c.lba ELSE dma' = dma
           /\ IF ok /\ c.kind = "createSq"
              THEN dcq[1].on /\ ~dsq[1].on /\ dsq' = [dsq EXCEPT ![1] = Started(c.g)]
              ELSE dsq' = dsq
           /\ ok /\ c.kind = "createCq" => ~dcq[1].on
<1> USE DEF Inv
<1>1. Live(c) /\ CmdOK(c)
  BY DEF Live, CmdsOK
<1>2. /\ c.kind \in Kinds /\ c.id \in 1 .. n /\ c.id \in 1 .. MaxCmds /\ c.lba \in Nat
      /\ c.kind = "write" => dma[c.id] = c.lba
  <2>1. n \in 0 .. MaxCmds /\ c \in Commands /\ c.id \in 1 .. n
    BY <1>1 DEF CmdOK, Typed
  <2>2. c.id \in 1 .. MaxCmds
    BY <2>1, Constants
  <2>3. c.kind \in Kinds /\ c.lba \in Nat
    BY <2>1 DEF Commands
  <2> QED
    BY <1>1, <2>1, <2>2, <2>3 DEF CmdOK
<1>3. dma \in [1 .. MaxCmds -> Int] /\ block = [b \in 0 .. NBlocks - 1 |-> b]
  BY DEF Typed
<1>4. CASE ~ok
  BY <1>3, <1>4 DEF Complete
<1>5. CASE ok
  <2>0. /\ Possible(c)
        /\ dsq' = IF c.kind = "createSq" THEN [dsq EXCEPT ![1] = [Off EXCEPT !.on = TRUE, !.g = c.g]]
                  ELSE dsq
        /\ block' = IF c.kind = "write" THEN [block EXCEPT ![c.lba] = dma[c.id]] ELSE block
        /\ dma' = IF c.kind = "read" THEN [dma EXCEPT ![c.id] = block[c.lba]] ELSE dma
    BY <1>5 DEF Complete, Effect, Buffer
  <2>1. CASE c.kind = "createSq"
    <3>1. dcq[1].on /\ ~dsq[1].on
      BY <2>0, <2>1 DEF Possible, Rw
    <3> QED
      BY <1>3, <1>5, <2>0, <2>1, <3>1 DEF Started
  <2>2. CASE c.kind = "createCq"
    <3>1. ~dcq[1].on
      BY <2>0, <2>2 DEF Possible, Rw
    <3> QED
      BY <1>3, <1>5, <2>0, <2>2, <3>1
  <2>3. CASE c.kind = "write"
    <3>1. c.lba \in 0 .. NBlocks - 1
      BY <1>2, <2>0, <2>3, Constants DEF Possible, Rw
    <3>2. block[c.lba] = c.lba /\ dma[c.id] = c.lba
      BY <1>2, <1>3, <2>3, <3>1
    <3>3. block' = block
      BY <1>3, <2>0, <2>3, <3>2
    <3> QED
      BY <1>3, <1>5, <2>0, <2>3, <3>3
  <2>4. CASE c.kind = "read"
    <3>1. c.lba \in 0 .. NBlocks - 1
      BY <1>2, <2>0, <2>4, Constants DEF Possible, Rw
    <3>2. block[c.lba] = c.lba
      BY <1>3, <3>1
    <3>3. dma' = [dma EXCEPT ![c.id] = c.lba] /\ c.lba \in Int
      BY <1>2, <2>0, <2>4, <3>2
    <3>4. /\ dma'[c.id] = c.lba /\ dma' \in [1 .. MaxCmds -> Int]
          /\ \A i \in 1 .. n : i # c.id => dma'[i] = dma[i]
      BY <1>2, <1>3, <3>3
    <3> QED
      BY <1>5, <2>0, <2>4, <3>4
  <2>5. CASE c.kind = "identify"
    BY <1>3, <1>5, <2>0, <2>5
  <2> QED
    BY <1>2, <2>1, <2>2, <2>3, <2>4, <2>5 DEF Kinds
<1> QED
  BY <1>4, <1>5


(* A command is answered, done or not.                                      *)
LEMMA CompleteInv ==
    ASSUME Inv, NEW c \in busy, NEW ok \in BOOLEAN, Complete(c, ok)
    PROVE  Inv'
<1> PICK q : q = c.q
  OBVIOUS
<1> PICK r : r = dcq[q]
  OBVIOUS
<1> PICK e : e = [phase |-> r.phase, cid |-> c.cid, id |-> c.id, ok |-> ok]
  OBVIOUS
<1> PICK t : t = (r.tail + 1) % Depth[q]
  OBVIOUS
<1> USE DEF Inv
<1>1. /\ ready /\ t # r.head
      /\ busy' = busy \ {c}
      /\ cq' = [cq EXCEPT ![r.g][r.tail] = e]
      /\ dcq' = [p \in Queues |->
                    IF p = q THEN Posted(r, q)
                    ELSE IF ok /\ c.kind = "createCq" THEN Started(c.g)
                    ELSE dcq[p]]
      /\ UNCHANGED <<sq, en, ready, fatal, reg>>
      /\ UNCHANGED <<admin, io, pc, todo, lba, n, mems, ioMem>>
  BY DEF Complete, host, Started
<1>2. 0 \in Queues /\ 1 \in Queues /\ 0 # 1 /\ \A p \in Queues : p = 0 \/ p = 1
  BY DEF Queues
<1>3. /\ Live(c) /\ CmdOK(c) /\ c \in Commands /\ q \in Queues /\ c.id \in 1 .. n /\ q = Queue(c.kind)
      /\ c.g \in Nat /\ c.cid \in Nat /\ c.id \in Nat
  <2>1. Live(c) /\ CmdOK(c)
    BY DEF Live, CmdsOK
  <2>2. c \in Commands /\ c.id \in 1 .. n /\ c.q = Queue(c.kind)
    BY <2>1 DEF CmdOK
  <2>3. c.q \in Queues /\ c.g \in Nat /\ c.cid \in Nat /\ c.id \in Nat
    BY <2>2 DEF Commands
  <2> QED
    BY <2>1, <2>2, <2>3
<1>4. /\ dsq[q].on /\ r.on /\ r.g = dsq[q].g /\ MemOK(q, r.g) /\ r \in Rings /\ dsq[0].on
      /\ r.tail \in Slots(q) /\ r.head \in Slots(q) /\ dcq[0].on /\ dcq[0].g = dsq[0].g
      /\ \A p \in Queues : dcq[p].on /\ p # q => dcq[p].g # r.g
  BY <1>2, <1>3 DEF Ctrl, Typed
<1>5. /\ UNCHANGED block
      /\ dma' \in [1 .. MaxCmds -> Int] /\ \A i \in 1 .. n : i # c.id => dma'[i] = dma[i]
      /\ IF ok /\ c.kind = "read" THEN dma'[c.id] = c.lba ELSE dma' = dma
      /\ IF ok /\ c.kind = "createSq"
         THEN dcq[1].on /\ ~dsq[1].on /\ dsq' = [dsq EXCEPT ![1] = Started(c.g)]
         ELSE dsq' = dsq
      /\ ok /\ c.kind = "createCq" => ~dcq[1].on
  BY EffectFacts
<1>6. t \in Slots(q) /\ t \in Nat
  BY <1>3, <1>4, Around DEF Slots
<1>7. Queue("write") = 1 /\ Queue("read") = 1 /\ Queue("createCq") = 0 /\ Queue("createSq") = 0
  BY DEF Queue, Rw
<1>8. /\ Started(c.g) \in Rings /\ Started(c.g).on /\ Started(c.g).g = c.g
      /\ Started(c.g).tail = 0 /\ Started(c.g).head = 0
  BY <1>3, StartedFacts
(* The queues that Create makes.                                            *)
<1>9. c.kind \in Create => /\ q = 0 /\ r.g = dsq[0].g /\ MemOK(1, c.g) /\ c.g # r.g
                           /\ ~dsq[1].on => Fresh(1, c.g)
                           /\ c.kind = "createSq" => dcq[1].on /\ dcq[1].g = c.g
  BY <1>3, <1>4, <1>7 DEF CmdOK, Create
<1>10. PICK r2 : r2 = dcq'[q]
  OBVIOUS
<1>11. /\ r2 = [r EXCEPT !.tail = t, !.phase = IF r.tail + 1 = Depth[q] THEN ~r.phase ELSE r.phase]
       /\ r2.on /\ r2.g = r.g /\ r2.head = r.head /\ r2.tail = t
       /\ r2.phase = (IF r.tail + 1 = Depth[q] THEN ~r.phase ELSE r.phase)
       /\ r2 \in Rings
  <2>1. r2 = [r EXCEPT !.tail = t, !.phase = IF r.tail + 1 = Depth[q] THEN ~r.phase ELSE r.phase]
    BY <1>1, <1>3, <1>10 DEF Posted
  <2>2. (IF r.tail + 1 = Depth[q] THEN ~r.phase ELSE r.phase) \in BOOLEAN
    BY <1>4 DEF Rings
  <2> QED
    BY <1>4, <1>6, <2>1, <2>2 DEF Rings
<1>12. ASSUME NEW p \in Queues, p # q
       PROVE  \/ dcq'[p] = dcq[p] /\ ~(ok /\ c.kind = "createCq")
              \/ ok /\ c.kind = "createCq" /\ p = 1 /\ dcq'[p] = Started(c.g) /\ ~dcq[1].on
  <2>1. CASE ok /\ c.kind = "createCq"
    <3>1. q = 0 /\ ~dcq[1].on
      BY <1>5, <1>9, <2>1 DEF Create
    <3> QED
      BY <1>1, <1>2, <1>12, <2>1, <3>1
  <2>2. CASE ~(ok /\ c.kind = "createCq")
    BY <1>1, <1>12, <2>2
  <2> QED
    BY <2>1, <2>2
<1>13. ASSUME NEW p \in Queues
       PROVE  \/ dsq'[p] = dsq[p] /\ (p = 1 => ~(ok /\ c.kind = "createSq"))
              \/ /\ ok /\ c.kind = "createSq" /\ p = 1 /\ dsq'[p] = Started(c.g)
                 /\ dcq[1].on /\ ~dsq[1].on /\ q = 0
  <2>1. CASE ok /\ c.kind = "createSq"
    <3>1. dcq[1].on /\ ~dsq[1].on /\ dsq' = [dsq EXCEPT ![1] = Started(c.g)] /\ q = 0
      BY <1>5, <1>9, <2>1 DEF Create
    <3>2. dsq'[0] = dsq[0] /\ dsq'[1] = Started(c.g)
      BY <1>2, <3>1 DEF Typed
    <3> QED
      BY <1>2, <2>1, <3>1, <3>2
  <2>2. CASE ~(ok /\ c.kind = "createSq")
    <3>1. dsq' = dsq
      BY <1>5, <2>2
    <3> QED
      BY <2>2, <3>1
  <2> QED
    BY <2>1, <2>2
<1>14. dsq'[0] = dsq[0]
  BY <1>2, <1>13
<1>15. /\ cq'[r.g] = [cq[r.g] EXCEPT ![r.tail] = e]
       /\ \A g : g # r.g => cq'[g] = cq[g]
       /\ cq' = [g \in 1 .. MaxMems |-> cq'[g]]
       /\ cq[r.g] \in [Slots(q) -> Entries] /\ e \in Entries
  <2>1. cq = [g \in 1 .. MaxMems |-> cq[g]] /\ mems \in 0 .. MaxMems
    BY DEF Typed
  <2>2. r.g \in 1 .. MaxMems /\ cq[r.g] \in [Slots(q) -> Entries]
    BY <1>4, <2>1, Constants DEF MemOK
  <2>3. cq'[r.g] = [cq[r.g] EXCEPT ![r.tail] = e]
    BY <1>1, <2>1, <2>2
  <2>4. \A g : g # r.g => cq'[g] = cq[g]
    BY <1>1, <2>1
  <2>5. cq' = [g \in 1 .. MaxMems |-> cq'[g]]
    BY <1>1, <2>1
  <2>6. e \in Entries
    BY <1>3, <1>4 DEF Entries, Rings
  <2> QED
    BY <2>2, <2>3, <2>4, <2>5, <2>6
<1>16. /\ cq'[r.g][r.tail] = e
       /\ \A i \in Slots(q) : i # r.tail => cq'[r.g][i] = cq[r.g][i]
  BY <1>4, <1>15
<1>17. ASSUME NEW p \in Queues, NEW g
       PROVE  /\ MemOK(p, g) => MemOK(p, g)'
              /\ Fresh(p, g) /\ g # r.g => Fresh(p, g)'
  <2>1. CASE g = r.g
    <3>1. MemOK(p, g) => cq'[g] \in [Slots(p) -> Entries]
      <4> SUFFICES ASSUME MemOK(p, g) PROVE cq'[g] \in [Slots(p) -> Entries]
        OBVIOUS
      <4>1. cq'[g] = [cq[g] EXCEPT ![r.tail] = e] /\ cq[g] \in [Slots(p) -> Entries] /\ e \in Entries
        BY <1>15, <2>1 DEF MemOK
      <4> QED
        BY ONLY <4>1
    <3> QED
      BY <1>1, <2>1, <3>1 DEF MemOK
  <2>2. CASE g # r.g
    <3>1. cq'[g] = cq[g] /\ sq' = sq /\ mems' = mems
      BY <1>1, <1>15, <2>2
    <3> QED
      BY <2>2, <3>1 DEF MemOK, Fresh
  <2> QED
    BY <2>1, <2>2
<1>18. ASSUME NEW p \in Queues, NEW d, InSlot(p, d)' PROVE InSlot(p, d)
  <2>1. CASE dsq'[p] = dsq[p]
    BY <1>1, <1>18, <2>1 DEF InSlot
  <2>2. CASE ok /\ c.kind = "createSq" /\ p = 1 /\ dsq'[p] = Started(c.g) /\ ~dsq[1].on
    <3>1. Fresh(1, c.g)
      BY <1>9, <2>2 DEF Create
    <3> QED
      BY <1>1, <1>8, <1>18, <2>2, <3>1 DEF InSlot, Fresh
  <2> QED
    BY <1>13, <2>1, <2>2
<1>19. \A d : Live(d)' => Live(d)
  BY <1>1, <1>18 DEF Live
<1>20. Typed'
  <2>1. dcq' \in [Queues -> Rings]
    <3>1. \A p \in Queues : p # q => dcq'[p] \in Rings
      BY <1>8, <1>12 DEF Typed
    <3>2. \A p \in Queues : dcq'[p] \in Rings
      BY <1>10, <1>11, <3>1
    <3>3. dcq' = [p \in Queues |-> dcq'[p]]
      BY <1>1
    <3> QED
      BY <3>2, <3>3
  <2>2. dsq' \in [Queues -> Rings]
    BY <1>5, <1>8 DEF Typed
  <2> QED
    BY <1>1, <1>5, <1>15, <2>1, <2>2 DEF Typed, HandleOK
<1>21. Control'
  BY <1>1 DEF Control, Hd, Q
<1>22. pc # "enable"
  BY <1>1 DEF Starting
<1>23. Starting'
  <2> SUFFICES ASSUME pc = "disable" PROVE Starting'
    BY <1>1, <1>22 DEF Starting
  <2>1. /\ todo # Inits => ~admin.on /\ Head(todo) \notin Create
        /\ admin.g < mems /\ io.g < mems /\ MemOK(0, mems) /\ Fresh(0, mems) /\ ~en
        /\ \A p \in Queues : dcq[p].on => dcq[p].g < mems
        /\ \A d : Live(d) /\ d.kind \in Create => d.g < mems
    BY DEF Starting
  <2>2. mems \in Nat /\ r.g < mems /\ r.g \in Nat
    BY <1>3, <1>4, <2>1, Constants DEF Typed, Rings
  <2>3. r.g # mems
    BY <2>2
  <2>4. MemOK(0, mems)' /\ Fresh(0, mems)'
    <3>1. mems' = mems
      BY <1>1
    <3> QED
      BY <1>1, <1>2, <1>17, <2>1, <2>3 DEF MemOK, Fresh
  <2>5. ASSUME NEW p \in Queues, dcq'[p].on PROVE dcq'[p].g < mems
    <3>1. CASE p = q
      BY <1>10, <1>11, <2>2, <3>1
    <3>2. CASE p # q /\ dcq'[p] = dcq[p]
      BY <2>1, <2>5, <3>2
    <3>3. CASE c.kind = "createCq" /\ dcq'[p] = Started(c.g)
      BY <1>3, <1>8, <2>1, <3>3 DEF Create
    <3> QED
      BY <1>12, <3>1, <3>2, <3>3
  <2> QED
    BY <1>1, <1>19, <2>1, <2>4, <2>5 DEF Starting
<1>24. dcq[1].on => dcq'[1].on /\ dcq'[1].g = dcq[1].g
  BY <1>2, <1>10, <1>11, <1>12
<1>25. admin.on /\ ~io.on => q = 0
  BY <1>3 DEF NoIoYet, Typed
<1>26. Creating'
  <2> SUFFICES ASSUME pc \in {"next", "wait"}, todo # << >>, Head(todo) \in Create PROVE Creating'
    BY <1>1 DEF Creating
  <2>1. /\ admin.on /\ ~io.on /\ ioMem # admin.g /\ MemOK(1, ioMem) /\ Fresh(1, ioMem)
        /\ Head(todo) = "createSq" => dcq[1].on /\ dcq[1].g = ioMem
    BY DEF Creating
  <2>2. r.g = admin.g
    BY <1>1, <1>2, <1>4, <1>22, <1>25, <2>1 DEF Agree, Hd
  <2>3. MemOK(1, ioMem)' /\ Fresh(1, ioMem)'
    BY <1>1, <1>2, <1>17, <2>1, <2>2 DEF MemOK, Fresh
  <2> QED
    BY <1>1, <1>24, <2>1, <2>3 DEF Creating
<1>27. Agree'
  <2> SUFFICES ASSUME NEW p \in Queues, Hd(p).on PROVE dsq'[p].on /\ dsq'[p].g = Hd(p).g
    BY <1>1 DEF Agree, Hd
  <2>1. dsq[p].on /\ dsq[p].g = Hd(p).g
    BY <1>1, <1>22 DEF Agree
  <2> QED
    BY <1>13, <2>1
<1>28. Ctrl'
  <2>1. ASSUME NEW p \in Queues, dsq'[p].on
        PROVE  /\ dcq'[p].on /\ dsq'[p].g = dcq'[p].g
               /\ dsq'[p].tail \in Slots(p) /\ dsq'[p].head \in Slots(p)
    <3>1. CASE dsq'[p] = dsq[p]
      <4>1. /\ dcq[p].on /\ dsq[p].g = dcq[p].g
            /\ dsq[p].tail \in Slots(p) /\ dsq[p].head \in Slots(p)
        BY <2>1, <3>1 DEF Ctrl
      <4>2. dcq'[p].on /\ dcq'[p].g = dcq[p].g
        BY <1>10, <1>11, <1>12, <4>1
      <4> QED
        BY <3>1, <4>1, <4>2
    <3>2. CASE ok /\ c.kind = "createSq" /\ p = 1 /\ dsq'[p] = Started(c.g) /\ dcq[1].on
      <4>1. dcq[1].g = c.g /\ 0 \in Slots(1)
        BY <1>9, <3>2, Constants DEF Create, Slots
      <4> QED
        BY <1>8, <1>24, <3>2, <4>1
    <3> QED
      BY <1>13, <3>1, <3>2
  <2>2. ASSUME NEW p \in Queues, dcq'[p].on
        PROVE  MemOK(p, dcq[p].g)' /\ dcq'[p].tail \in Slots(p) /\ dcq'[p].head \in Slots(p)
    <3>1. PICK g : g = dcq'[p].g
      OBVIOUS
    <3>2. MemOK(p, g) /\ dcq'[p].tail \in Slots(p) /\ dcq'[p].head \in Slots(p)
      <4>1. CASE p = q
        BY <1>4, <1>6, <1>10, <1>11, <3>1, <4>1
      <4>2. CASE p # q /\ dcq'[p] = dcq[p]
        BY <2>2, <3>1, <4>2 DEF Ctrl
      <4>3. CASE ok /\ c.kind = "createCq" /\ p = 1 /\ dcq'[p] = Started(c.g)
        <5>1. MemOK(1, c.g) /\ 0 \in Slots(1)
          BY <1>9, <4>3, Constants DEF Create, Slots
        <5> QED
          BY <1>8, <3>1, <4>3, <5>1
      <4> QED
        BY <1>12, <4>1, <4>2, <4>3
    <3>3. MemOK(p, g)'
      BY <1>17, <3>2
    <3> QED
      BY <3>1, <3>2, <3>3 DEF MemOK
  <2>3. dcq'[1].on => dcq'[1].g # dsq'[0].g
    <3>1. dcq[1].on => dcq[1].g # dsq[0].g
      BY DEF Ctrl
    <3>2. CASE q = 1
      BY <1>4, <1>14, <1>24, <3>1, <3>2
    <3>3. CASE q # 1 /\ dcq'[1] = dcq[1]
      BY <1>14, <3>1, <3>3
    <3>4. CASE ok /\ c.kind = "createCq" /\ dcq'[1] = Started(c.g)
      BY <1>8, <1>9, <1>14, <3>4 DEF Create
    <3> QED
      BY <1>2, <1>12, <3>2, <3>3, <3>4
  <2>4. dcq'[1].on /\ ~dsq'[1].on => dcq'[1] = Started(dcq'[1].g) /\ Fresh(1, dcq[1].g)'
    <3> SUFFICES ASSUME dcq'[1].on, ~dsq'[1].on PROVE dcq'[1] = Started(dcq'[1].g) /\ Fresh(1, dcq[1].g)'
      OBVIOUS
    <3>1. ~dsq[1].on /\ q # 1
      BY <1>2, <1>4, <1>8, <1>13
    <3>2. PICK g : g = dcq'[1].g
      OBVIOUS
    <3>3. dcq'[1] = Started(g) /\ Fresh(1, g) /\ g # r.g
      <4>1. CASE dcq'[1] = dcq[1]
        BY <1>2, <1>4, <3>1, <3>2, <4>1 DEF Ctrl
      <4>2. CASE c.kind = "createCq" /\ dcq'[1] = Started(c.g)
        BY <1>8, <1>9, <3>1, <3>2, <4>2 DEF Create
      <4> QED
        BY <1>2, <1>12, <3>1, <4>1, <4>2
    <3>4. Fresh(1, g)'
      BY <1>2, <1>17, <3>3
    <3> QED
      BY <3>2, <3>3, <3>4 DEF Fresh
  <2>5. \A d \in busy' : dsq'[d.q].on
    <3> SUFFICES ASSUME NEW d \in busy PROVE dsq'[d.q].on
      BY <1>1
    <3>1. d.q \in Queues /\ dsq[d.q].on
      BY DEF Ctrl, Typed, Commands
    <3> QED
      BY <1>8, <1>13, <3>1
  <2> QED
    BY <1>1, <1>4, <1>14, <2>1, <2>2, <2>3, <2>4, <2>5 DEF Ctrl
<1>29. SlotsOK'
  <2> SUFFICES ASSUME NEW p \in Queues, dsq'[p].on, NEW i \in Slots(p) PROVE SlotOK(p, i)'
    BY DEF SlotsOK
  <2>1. CASE dsq'[p] = dsq[p]
    BY <1>1, <2>1 DEF SlotsOK, SlotOK
  <2>2. CASE ok /\ c.kind = "createSq" /\ p = 1 /\ dsq'[p] = Started(c.g) /\ ~dsq[1].on
    <3>1. sq[c.g][i] = NoCmd /\ 0 <= i
      BY <1>9, <2>2, Constants DEF Create, Fresh, Slots
    <3> QED
      BY <1>1, <1>8, <2>2, <3>1 DEF SlotOK
  <2> QED
    BY <1>13, <2>1, <2>2
<1>30. CmdsOK'
  <2>1. ASSUME NEW d, Live(d) PROVE CmdOK(d)'
    <3>1. CmdOK(d) /\ (d.id = c.id => d = c)
      BY <1>3, <2>1 DEF CmdsOK
    <3>2. d.kind = "write" => dma'[d.id] = d.lba
      <4> SUFFICES ASSUME d.kind = "write" PROVE dma'[d.id] = d.lba
        OBVIOUS
      <4>1. dma[d.id] = d.lba /\ d.id \in 1 .. n
        BY <3>1 DEF CmdOK
      <4>2. CASE d = c
        BY <1>5, <4>1, <4>2
      <4>3. CASE d # c
        BY <1>5, <3>1, <4>1, <4>3
      <4> QED
        BY <4>2, <4>3
    <3>3. d.kind \in Create => MemOK(1, d.g)' /\ d.g # dsq'[0].g /\ (~dsq'[1].on => Fresh(1, d.g)')
      <4> SUFFICES ASSUME d.kind \in Create
                   PROVE  MemOK(1, d.g)' /\ d.g # dsq'[0].g /\ (~dsq'[1].on => Fresh(1, d.g)')
        OBVIOUS
      <4>1. MemOK(1, d.g) /\ d.g # dsq[0].g /\ (~dsq[1].on => Fresh(1, d.g))
        BY <3>1 DEF CmdOK
      <4>2. ~dsq'[1].on => ~dsq[1].on
        BY <1>2, <1>8, <1>13
      <4>3. ~dsq[1].on => r.g = dsq[0].g
        BY <1>2, <1>3, <1>4
      <4> QED
        BY <1>2, <1>14, <1>17, <4>1, <4>2, <4>3
    <3>4. d.kind = "createSq" => dcq'[1].on /\ dcq'[1].g = d.g
      BY <1>24, <3>1 DEF CmdOK
    <3> QED
      BY <1>1, <3>1, <3>2, <3>3, <3>4 DEF CmdOK
  <2> QED
    BY <1>19, <2>1 DEF CmdsOK
<1>31. NoIoYet'
  <2> SUFFICES ASSUME admin.on, ~io.on
               PROVE  /\ dcq'[1].on => dcq'[1] = Started(dcq'[1].g) /\ Fresh(1, dcq[1].g)'
                      /\ dsq'[1].on => dsq'[1] = Started(dsq'[1].g)
                      /\ \A d \in busy' : d.q = 0
    BY <1>1 DEF NoIoYet
  <2>1. q = 0 /\ \A d \in busy : d.q = 0
    BY <1>25 DEF NoIoYet
  <2>2. dsq'[1].on => dsq'[1] = Started(dsq'[1].g)
    BY <1>2, <1>8, <1>13 DEF NoIoYet
  <2>3. dcq'[1].on => dcq'[1] = Started(dcq'[1].g) /\ Fresh(1, dcq[1].g)'
    <3> SUFFICES ASSUME dcq'[1].on PROVE dcq'[1] = Started(dcq'[1].g) /\ Fresh(1, dcq[1].g)'
      OBVIOUS
    <3>1. PICK g : g = dcq'[1].g
      OBVIOUS
    <3>2. dcq'[1] = Started(g) /\ Fresh(1, g) /\ g # r.g
      <4>1. CASE dcq'[1] = dcq[1]
        BY <1>2, <1>4, <2>1, <3>1, <4>1 DEF NoIoYet
      <4>2. CASE c.kind = "createCq" /\ dcq'[1] = Started(c.g) /\ ~dcq[1].on
        <5>1. ~dsq[1].on
          BY <1>2, <4>2 DEF Ctrl
        <5> QED
          BY <1>8, <1>9, <3>1, <4>2, <5>1 DEF Create
      <4> QED
        BY <1>2, <1>12, <2>1, <4>1, <4>2
    <3>3. Fresh(1, g)'
      BY <1>2, <1>17, <3>2
    <3> QED
      BY <3>1, <3>2, <3>3 DEF Fresh
  <2> QED
    BY <1>1, <2>1, <2>2, <2>3
<1>32. ASSUME NEW p \in Queues, Joined(p)'
       PROVE  Joined(p) /\ (p # q => dcq'[p] = dcq[p]) /\ dsq'[p] = dsq[p] /\ dsq[p].on
  <2>1. Hd(p).on /\ Hd(p)' = Hd(p)
    BY <1>1, <1>32 DEF Joined, Hd
  <2>2. dsq[p].on /\ dsq[p].g = Hd(p).g
    BY <1>1, <1>22, <2>1 DEF Agree
  <2>3. dcq[p].on /\ dcq[p].g = Hd(p).g
    BY <2>2 DEF Ctrl
  <2>4. dsq'[p] = dsq[p]
    BY <1>13, <2>2
  <2>5. p # q => dcq'[p] = dcq[p]
    BY <1>12, <2>3
  <2> QED
    BY <2>1, <2>2, <2>3, <2>4, <2>5 DEF Joined
<1>33. ASSUME NEW x, NEW p \in Queues, CidOK(x, p) PROVE CidOK(x, p)'
  BY <1>1, <1>33 DEF CidOK, Hd, Q
<1>34. ASSUME Joined(q) PROVE Phases(q)'
  <2>1. PICK h, pp : h = Hd(q).head /\ pp = Hd(q).phase /\ Hd(q)' = Hd(q)
    BY <1>1 DEF Hd
  <2>2. /\ h = r.head /\ pp = (IF h <= r.tail THEN r.phase ELSE ~r.phase)
        /\ \A i \in Slots(q) : cq[r.g][i].phase = (IF i < r.tail THEN r.phase ELSE ~r.phase)
    BY <1>3, <1>34, <2>1 DEF JoinedOK, Phases
  <2>3. /\ Depth[q] \in Nat /\ Depth[q] >= 2 /\ h \in 0 .. Depth[q] - 1
        /\ r.tail \in 0 .. Depth[q] - 1 /\ r.phase \in BOOLEAN
    BY <1>2, <1>3, <1>4, <2>2, Constants DEF Slots, Rings
  <2>4. ASSUME NEW i \in Slots(q)
        PROVE  /\ pp = (IF h <= t THEN r2.phase ELSE ~r2.phase)
               /\ cq'[r.g][i].phase = (IF i < t THEN r2.phase ELSE ~r2.phase)
    <3>1. PICK y : y = cq[r.g][i].phase
      OBVIOUS
    <3>2. PICK y2 : y2 = cq'[r.g][i].phase
      OBVIOUS
    <3>3. y2 = (IF i = r.tail THEN r.phase ELSE y)
      BY <1>16, <3>1, <3>2
    <3>4. y = (IF i < r.tail THEN r.phase ELSE ~r.phase)
      BY <2>2, <3>1
    <3>5. i \in 0 .. Depth[q] - 1
      BY DEF Slots
    <3>6. t # h
      BY <1>1, <2>2
    <3>7. /\ pp = (IF h <= t THEN r2.phase ELSE ~r2.phase)
          /\ y2 = (IF i < t THEN r2.phase ELSE ~r2.phase)
      BY <1>11, <2>2, <2>3, <3>3, <3>4, <3>5, <3>6, TailMoves
    <3> QED
      BY <3>2, <3>7
  <2>5. pp = (IF h <= t THEN r2.phase ELSE ~r2.phase)
    BY <1>4, <2>4
  <2> QED
    <3>1. /\ dcq'[q].g = r.g /\ dcq'[q].tail = t /\ dcq'[q].phase = r2.phase /\ dcq'[q].head = h
          /\ Hd(q)'.head = h /\ Hd(q)'.phase = pp
      BY <1>10, <1>11, <2>1, <2>2
    <3>2. \A i \in Slots(q) : cq'[dcq'[q].g][i].phase = (IF i < dcq'[q].tail THEN dcq'[q].phase
                                                        ELSE ~dcq'[q].phase)
      BY <2>4, <3>1
    <3>3. Hd(q)'.phase = (IF Hd(q)'.head <= dcq'[q].tail THEN dcq'[q].phase ELSE ~dcq'[q].phase)
      BY <2>5, <3>1
    <3> QED
      BY <3>1, <3>2, <3>3 DEF Phases
<1>35. JoinedOK'
  <2>1. ASSUME NEW p \in Queues, Joined(p)'
        PROVE  /\ dsq'[p].on /\ dsq'[p].tail = Hd(p)'.tail
               /\ Phases(p)'
               /\ \A d : (d \in busy' /\ d.q = p) \/ InSlot(p, d)' => CidOK(d, p)'
    <3>1. Joined(p) /\ (p # q => dcq'[p] = dcq[p]) /\ dsq'[p] = dsq[p] /\ dsq[p].on
      BY <1>32, <2>1
    <3>2. dsq[p].tail = Hd(p).tail /\ Hd(p)' = Hd(p)
      BY <1>1, <3>1 DEF JoinedOK, Hd
    <3>3. Phases(p)'
      <4>1. CASE p = q
        BY <1>34, <3>1, <4>1
      <4>2. CASE p # q
        <5>1. dcq'[p] = dcq[p] /\ cq'[dcq[p].g] = cq[dcq[p].g]
          BY <1>4, <1>15, <3>1, <4>2 DEF Joined
        <5> QED
          BY <3>1, <3>2, <5>1 DEF JoinedOK, Phases
      <4> QED
        BY <4>1, <4>2
    <3>4. ASSUME NEW d, (d \in busy' /\ d.q = p) \/ InSlot(p, d)' PROVE CidOK(d, p)'
      <4>1. (d \in busy /\ d.q = p) \/ InSlot(p, d)
        BY <1>1, <1>18, <3>4
      <4> QED
        BY <1>33, <3>1, <4>1 DEF JoinedOK
    <3> QED
      BY <3>1, <3>2, <3>3, <3>4
  <2>2. ASSUME NEW p \in Queues, Joined(p)', NEW i \in Slots(p)
        PROVE  /\ cq'[dcq'[p].g][i].id <= n
               /\ cq'[dcq'[p].g][i].ok => CidOK(cq[dcq[p].g][i], p)'
    <3>1. Joined(p) /\ (p # q => dcq'[p] = dcq[p])
      BY <1>32, <2>2
    <3>2. PICK x : x = cq'[dcq'[p].g][i]
      OBVIOUS
    <3>3. x.id <= n /\ (x.ok => CidOK(x, p))
      <4>1. CASE p = q /\ i = r.tail
        <5>1. x = e
          <6>1. dcq'[p].g = r.g
            BY <1>10, <1>11, <4>1
          <6> QED
            BY <1>16, <3>2, <4>1, <6>1
        <5>2. x.id = c.id /\ x.cid = c.cid
          BY <5>1
        <5>3. CidOK(c, p)
          BY <3>1, <4>1 DEF JoinedOK
        <5>4. c.id <= n
          BY <1>3
        <5> QED
          BY <5>2, <5>3, <5>4 DEF CidOK
      <4>2. CASE p = q /\ i # r.tail
        <5>1. x = cq[dcq[p].g][i]
          <6>1. dcq'[p].g = r.g /\ dcq[p].g = r.g
            BY <1>10, <1>11, <4>2
          <6> QED
            BY <1>16, <3>2, <4>2, <6>1
        <5> QED
          BY <3>1, <5>1 DEF JoinedOK
      <4>3. CASE p # q
        <5>1. x = cq[dcq[p].g][i]
          BY <1>4, <1>15, <3>1, <3>2, <4>3 DEF Joined
        <5> QED
          BY <3>1, <5>1 DEF JoinedOK
      <4> QED
        BY <4>1, <4>2, <4>3
    <3>4. x.ok => CidOK(x, p)'
      BY <1>33, <3>3
    <3> QED
      BY <3>2, <3>3, <3>4 DEF CidOK
  <2> QED
    <3> SUFFICES ASSUME NEW p \in Queues, Joined(p)'
                 PROVE  /\ dsq'[p].on /\ dsq'[p].tail = Hd(p)'.tail
                        /\ Phases(p)'
                        /\ \A d : (d \in busy' /\ d.q = p) \/ InSlot(p, d)' => CidOK(d, p)'
                        /\ \A i \in Slots(p) : cq'[dcq'[p].g][i].id <= n'
                        /\ \A i \in Slots(p) : cq'[dcq'[p].g][i].ok => CidOK(cq[dcq[p].g][i], p)'
      BY DEF JoinedOK
    <3> QED
      BY <1>1, <2>1, <2>2
<1>36. Waits'
  <2> SUFFICES ASSUME pc = "wait" PROVE Waits'
    BY <1>1 DEF Waits
  <2>1. PICK k : k = Head(todo) /\ k = Head(todo)'
    BY <1>1
  <2>2. /\ Q \in Queues /\ H = Hd(Q) /\ Joined(Q) /\ dcq[Q].g = H.g /\ dcq[Q].on /\ k \in Kinds
        /\ n \in Nat /\ n > 0
    BY <2>1, WaitFacts DEF Waiting, Control
  <2>3. Q' = Q /\ H' = H
    BY <1>1 DEF Q, H
  <2>4. /\ \A d : Live(d) /\ d.id = n => d.kind = k /\ d.lba = lba /\ d.g = ioMem
        /\ \A i \in Slots(Q) : cq[H.g][i].ok /\ cq[H.g][i].id = n => Done(k)
    BY <2>1 DEF Waits
  <2>5. Done(k) => Done(k)'
    <3> SUFFICES ASSUME Done(k) PROVE Done(k)'
      OBVIOUS
    <3>1. k = "read" => dma'[n] = lba
      <4> SUFFICES ASSUME k = "read" PROVE dma'[n] = lba
        OBVIOUS
      <4>1. dma[n] = lba /\ n \in 1 .. n
        BY <2>2 DEF Done, Buffer
      <4>2. CASE c.id = n
        BY <1>3, <1>5, <2>4, <4>1, <4>2
      <4>3. CASE c.id # n
        BY <1>5, <4>1, <4>3
      <4> QED
        BY <4>2, <4>3
    <3>2. k = "createCq" => dcq'[1].on /\ dcq'[1].g = ioMem
      BY <1>24 DEF Done
    <3>3. k = "createSq" => dsq'[1].on /\ dsq'[1].g = ioMem
      BY <1>2, <1>13 DEF Done
    <3> QED
      BY <1>1, <3>1, <3>2, <3>3 DEF Done, Buffer
  <2>6. ok /\ c.id = n => Done(k)'
    <3> SUFFICES ASSUME ok, c.id = n PROVE Done(k)'
      OBVIOUS
    <3>1. c.kind = k /\ c.lba = lba /\ c.g = ioMem
      BY <1>3, <2>4
    <3>2. k = "read" => dma'[n] = lba
      BY <1>5, <3>1
    <3>3. k = "createCq" => dcq'[1].on /\ dcq'[1].g = ioMem
      <4> SUFFICES ASSUME k = "createCq" PROVE dcq'[1].on /\ dcq'[1].g = ioMem
        OBVIOUS
      <4>1. q = 0
        BY <1>9, <3>1 DEF Create
      <4>2. dcq'[1] = Started(c.g)
        BY <1>2, <1>12, <3>1, <4>1
      <4> QED
        BY <1>8, <3>1, <4>2
    <3>4. k = "createSq" => dsq'[1].on /\ dsq'[1].g = ioMem
      BY <1>2, <1>8, <1>13, <3>1
    <3> QED
      BY <1>1, <3>2, <3>3, <3>4 DEF Done, Buffer
  <2>7. ASSUME NEW i \in Slots(Q), cq'[H.g][i].ok, cq'[H.g][i].id = n PROVE Done(k)'
    <3>1. CASE Q = q /\ i = r.tail
      <4>1. cq'[H.g][i] = e
        BY <1>16, <2>2, <3>1
      <4>2. ok /\ c.id = n
        BY <2>7, <4>1
      <4> QED
        BY <2>6, <4>2
    <3>2. CASE Q = q /\ i # r.tail
      <4>1. cq'[H.g][i] = cq[H.g][i]
        BY <1>16, <2>2, <3>2
      <4> QED
        BY <2>4, <2>5, <2>7, <4>1
    <3>3. CASE Q # q
      <4>1. cq'[H.g] = cq[H.g]
        BY <1>4, <1>15, <2>2, <3>3
      <4> QED
        BY <2>4, <2>5, <2>7, <4>1
    <3> QED
      BY <3>1, <3>2, <3>3
  <2>8. \A d : Live(d)' /\ d.id = n => d.kind = k /\ d.lba = lba /\ d.g = ioMem
    BY <1>19, <2>4
  <2> QED
    BY <1>1, <2>1, <2>3, <2>7, <2>8 DEF Waits
<1> QED
  BY <1>20, <1>21, <1>23, <1>26, <1>27, <1>28, <1>29, <1>30, <1>31, <1>35, <1>36


(* Every step keeps the invariant.                                          *)
LEMMA StepInv == Inv /\ [Next]_vars => Inv'
<1> SUFFICES ASSUME Inv, [Next]_vars PROVE Inv'
  OBVIOUS
<1>0. /\ pc = "idle" => todo = << >>
      /\ pc \in {"next", "wait"} => todo # Inits
      /\ lba \in Nat /\ todo \in Todos /\ << >> # Inits /\ Inits \in Todos
  BY InitTodo DEF Inv, Control, Typed, Todos
<1>1. ASSUME NEW a \in Asks, Call(a[1], a[2]) PROVE Inv'
  <2>1. /\ pc = "idle" /\ pc' = "next" /\ todo' = a[1] /\ lba' = a[2]
        /\ UNCHANGED <<admin, io>> /\ UNCHANGED <<Memory, ioMem, ctrl>>
    BY <1>1 DEF Call, Memory
  <2>2. a[1] \in Todos /\ a[1] # << >> /\ a[1] # Inits /\ Head(a[1]) \notin Create /\ a[2] \in Nat
    BY AskFacts
  <2> QED
    BY <1>0, <2>1, <2>2, ControlMoves
<1>2. CASE nvmeinittest
  <2>1. pc = "idle" /\ todo' = Inits /\ Reset
    BY <1>2 DEF nvmeinittest, Inits
  <2> QED
    BY <1>0, <2>1, InitTodo, ResetInv
<1>3. CASE ensure_admin_queue
  <2>1. Reset /\ todo' = todo /\ ~admin.on /\ pc = "next" /\ todo # << >>
    BY <1>3 DEF ensure_admin_queue, NeedsIo, OnAdmin
  <2>2. Head(todo) \notin Create
    BY <2>1 DEF Inv, Creating
  <2> QED
    BY <1>0, <2>1, <2>2, ResetInv
<1>4. CASE InitTimeout
  <2>1. pc \in {"disable", "enable"} /\ InitReturns(FALSE) /\ UNCHANGED <<Memory, ioMem, ctrl>>
    BY <1>4 DEF InitTimeout, Memory
  <2> QED
    BY <2>1, InitReturnsInv
<1>5. CASE InitDone
  <2>1. /\ pc = "enable" /\ UNCHANGED <<Memory, ioMem, ctrl>>
        /\ (fatal /\ InitReturns(FALSE)) \/ (~fatal /\ ready /\ InitReturns(TRUE))
    BY <1>5, Zenon DEF InitDone, Memory
  <2>2. CASE InitReturns(FALSE)
    BY <2>1, <2>2, InitReturnsInv
  <2>3. CASE ready /\ InitReturns(TRUE)
    BY <2>1, <2>3, InitReturnsInv
  <2> QED
    BY <2>1, <2>2, <2>3
<1>6. CASE Finish
  <2>1. /\ pc = "next" /\ pc' = "idle" /\ todo' = << >> /\ lba' = 0
        /\ UNCHANGED <<admin, io>> /\ UNCHANGED <<Memory, ioMem, ctrl>>
    BY <1>6 DEF Finish, Return, Memory
  <2> QED
    BY <1>0, <2>1, ControlMoves
<1>7. CASE CommandTimeout
  <2>1. /\ pc = "wait" /\ pc' = "idle" /\ todo' = << >> /\ lba' = 0
        /\ UNCHANGED <<admin, io>> /\ UNCHANGED <<Memory, ioMem, ctrl>>
    BY <1>7 DEF CommandTimeout, Waiting, Return, Memory
  <2> QED
    BY <1>0, <2>1, ControlMoves
<1>8. CASE UNCHANGED vars
  BY <1>8, Unmoved DEF vars, host, ctrl
<1> QED
  BY <1>1, <1>2, <1>3, <1>4, <1>5, <1>6, <1>7, <1>8, EnableInv, IoQueueInv, SubmitInv, ConsumeInv,
     CtrlResetsInv, CtrlStartsInv, FetchInv, CompleteInv DEF Next

THEOREM DriverInv == Spec => []Inv
<1> QED
  BY InitInv, StepInv, PTL DEF Spec

-----------------------------------------------------------------------------
(* nvme.rs:586-599, 413-427: whenever the driver remembers a queue, and is  *)
(* not in the middle of nvmeinittest, the controller has that very queue in *)
(* that very memory; the I/O queue is never remembered without the admin    *)
(* queue; and the phase bit at the head tells whether there is a completion *)
(* that has not been taken, past any number of turns of the ring.           *)
THEOREM RemembersRightly == Spec => []QueuesAgree
<1>1. Inv => QueuesAgree
  <2> SUFFICES ASSUME Inv PROVE QueuesAgree
    OBVIOUS
  <2>1. TypeOK
    <3>1. \A c \in busy : c.id \in 1 .. n
      BY DEF Inv, CmdsOK, CmdOK, Live
    <3>2. block \in [0 .. NBlocks - 1 -> -1 .. NBlocks]
      BY Constants DEF Inv, Typed
    <3> QED
      BY <3>1, <3>2 DEF TypeOK, Inv, Typed, Control
  <2>2. PhaseTells
    <3> SUFFICES ASSUME NEW q \in Queues, Hd(q).on, dcq[q].on, dcq[q].g = Hd(q).g
                 PROVE  Visible(Hd(q)) <=> Hd(q).head # dcq[q].tail
      BY DEF PhaseTells, Hd
    <3> QED
      BY PhaseFacts DEF Joined
  <2>3. todo # Inits => (io.on => admin.on)
    BY DEF Inv, Control
  <2>4. ASSUME todo # Inits, NEW q \in Queues, Hd(q).on
        PROVE  en /\ ready /\ dsq[q].on /\ dsq[q].g = Hd(q).g /\ dcq[q].on /\ dcq[q].g = Hd(q).g
    <3>1. en /\ ready
      BY <2>4 DEF Inv, Agree
    <3>2. pc # "enable"
      BY <2>3, <2>4 DEF Inv, Starting, Hd
    <3>3. dsq[q].on /\ dsq[q].g = Hd(q).g
      BY <2>4, <3>1, <3>2 DEF Inv, Agree
    <3> QED
      BY <3>1, <3>3 DEF Inv, Ctrl
  <2> QED
    BY <2>1, <2>2, <2>3, <2>4 DEF QueuesAgree, Hd, Inits
<1> QED
  BY <1>1, DriverInv, PTL

(* nvme.rs:814-819, 846-848: a block only ever holds what was written to    *)
(* it, however late a command that was given up on is carried out: its      *)
(* frame is not used again.                                                 *)
THEOREM BlocksSafe == Spec => []BlocksHoldWrites
<1>1. Inv => BlocksHoldWrites
  BY DEF Inv, Typed, BlocksHoldWrites
<1> QED
  BY <1>1, DriverInv, PTL

(* nvme.rs:432-438: a call only goes on when the controller has done the    *)
(* very command it waits for, whatever late answers lie before it in the    *)
(* queue; and a read then finds the block it asked for.                     *)
THEOREM OkIsDone == Spec => OkMeansDone
<1> DEFINE A == pc = "wait" /\ pc' = "next" =>
                  LET e == cq[H.g][H.head] IN
                  /\ e.id = n /\ e.ok
                  /\ Head(todo) = "read" => dma[Buffer(n)] = lba
<1>1. Inv /\ [Next]_vars => [A]_vars
  <2> SUFFICES ASSUME Inv, Next, pc = "wait", pc' = "next" PROVE A
    OBVIOUS
  <2>1. Consume
    BY DEF Next, Call, nvmeinittest, ensure_admin_queue, NeedsIo, OnAdmin, Enable, InitTimeout,
           InitDone, ensure_io_queue, Submit, CommandTimeout, Return, Finish, CtrlResets, CtrlStarts,
           Fetch, Complete, host
  <2>2. Waiting /\ Mine(cq[H.g][H.head], H) /\ cq[H.g][H.head].ok
    BY <2>1 DEF Consume, Return
  <2> QED
    BY <2>2, AnswerMine DEF Done
<1> HIDE DEF A
<1>2. Spec => [][A]_vars
  BY <1>1, DriverInv, PTL DEF Spec
<1> QED
  BY <1>2 DEF OkMeansDone, A
=============================================================================
