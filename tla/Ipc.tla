-------------------------------- MODULE Ipc ---------------------------------
(***************************************************************************)
(* The channels of the kernel (src/kernel/src/ipc/mod.rs): a registry that *)
(* lets in the owner of a channel and whom the owner granted it, and for   *)
(* each channel a ring of bytes, filled and emptied byte by byte under a   *)
(* read guard of the registry, so that a preempted sender and a preempted  *)
(* receiver are in it together.                                            *)
(*                                                                         *)
(* head and tail run on and wrap with the machine word; a slot is an index *)
(* modulo RING_SIZE.  One slot stays empty.                                *)
(***************************************************************************)
EXTENDS Integers, Sequences, FiniteSets

CONSTANTS
    Tasks, UidOf,           \* tasks, each with its uid (set when it starts)
    Senders, Receivers,     \* tasks that call send, tasks that call recv
    Grants,                 \* <<task, uid>> : calls of grant tasks make
    Byte, Messages,         \* what is sent
    BufLens,                \* sizes of receive buffers
    RING_SIZE, WORD,        \* 4096 and 2^64
    MaxId,                  \* a bound: channels ever created
    First                   \* any one channel, the one that IsFifo looks at

ASSUME IpcAssumption ==
    /\ RING_SIZE \in Nat \ {0} /\ WORD \in Nat \ {0}
    /\ WORD % RING_SIZE = 0
    /\ MaxId \in Nat /\ First \in 1 .. MaxId
    /\ \A t \in Tasks : UidOf[t] # "nobody"
    /\ Senders \subseteq Tasks /\ Receivers \subseteq Tasks
    /\ 0 \in Byte /\ Messages \subseteq Seq(Byte) /\ BufLens \subseteq Nat
    /\ Grants \subseteq Tasks \X { UidOf[t] : t \in Tasks }

Ids   == 1 .. MaxId
Slots == 0 .. RING_SIZE - 1
Index == 0 .. WORD - 1
NoUid == "nobody"           \* the owner of a channel that is not there yet

VARIABLES
    nextId, owner, allowed,     \* NEXT_ID; Channel.owner and .allowed
    head, tail, buf,            \* Channel.ring
    call,       \* what each task is doing inside a ring
    given, taken    \* what the last push and the last pop of each transferred

registry == <<nextId, owner, allowed>>
ring     == <<head, tail, buf>>
vars     == <<nextId, owner, allowed, head, tail, buf, call, given, taken>>

(* Locals of push and pop: from is the head or the tail read first, n the   *)
(* bytes to copy, data those to send or those received so far, i the next.  *)
Idle == [op |-> "idle", id |-> 0, from |-> 0, n |-> 0, i |-> 0, data |-> << >>]
Call(op, id, from, n, data) ==
    [op |-> op, id |-> id, from |-> from, n |-> n, i |-> 0, data |-> data]

Smaller(a, b) == IF a < b THEN a ELSE b

Init ==
    /\ nextId = 1
    /\ owner = [id \in Ids |-> NoUid] /\ allowed = [id \in Ids |-> {}]
    /\ head = [id \in Ids |-> 0] /\ tail = [id \in Ids |-> 0]
    /\ buf = [id \in Ids |-> [i \in Slots |-> 0]]
    /\ call = [t \in Tasks |-> Idle]
    /\ given = [id \in Ids |-> << >>] /\ taken = [id \in Ids |-> << >>]
-----------------------------------------------------------------------------
(* The registry.  Its write guard waits for every push and pop to end.      *)

NobodyInside == \A t \in Tasks : call[t] = Idle

create_channel(t) ==
    /\ NobodyInside /\ nextId \in Ids
    /\ nextId' = nextId + 1
    /\ owner' = [owner EXCEPT ![nextId] = UidOf[t]]
    /\ UNCHANGED <<allowed, ring, call, given, taken>>

\* mutant: whoever calls may grant
grant_Anyone(t, id, uid) ==
    /\ NobodyInside /\ owner[id] # NoUid
    /\ allowed' = [allowed EXCEPT ![id] = @ \cup {uid}]
    /\ UNCHANGED <<nextId, owner, ring, call, given, taken>>

(* Refused (no such channel, not the owner) changes nothing.                *)
grant(t, id, uid) ==
    /\ NobodyInside /\ owner[id] = UidOf[t]
    /\ allowed' = [allowed EXCEPT ![id] = @ \cup {uid}]
    /\ UNCHANGED <<nextId, owner, ring, call, given, taken>>

can_access(id, uid) == owner[id] # NoUid /\ (owner[id] = uid \/ uid \in allowed[id])
-----------------------------------------------------------------------------
(* The ring.                                                                *)

Fill(h, tl) == (h - tl) % RING_SIZE

\* mutant: every slot is used, full looks like empty
Free_All(h, tl) == RING_SIZE - Fill(h, tl)

Free(h, tl) == RING_SIZE - 1 - Fill(h, tl)

\* mutant: the new head is stored before the bytes are
send_HeadFirst(t, id, msg) ==
    /\ call[t] = Idle /\ can_access(id, UidOf[t])
    /\ LET n == Smaller(Len(msg), Free(head[id], tail[id])) IN
       /\ call' = [call EXCEPT ![t] = Call("push", id, head[id], n, SubSeq(msg, 1, n))]
       /\ head' = [head EXCEPT ![id] = (@ + n) % WORD]
    /\ UNCHANGED <<registry, tail, buf, given, taken>>

(* send(): access is checked and both indices are read; a denied caller     *)
(* leaves at once.                                                          *)
send(t, id, msg) ==
    /\ call[t] = Idle /\ can_access(id, UidOf[t])
    /\ LET n == Smaller(Len(msg), Free(head[id], tail[id])) IN
       call' = [call EXCEPT ![t] = Call("push", id, head[id], n, SubSeq(msg, 1, n))]
    /\ UNCHANGED <<registry, ring, given, taken>>

PushByte(t) ==
    LET c == call[t] IN
    /\ c.op = "push" /\ c.i < c.n
    /\ buf' = [buf EXCEPT ![c.id][(c.from + c.i) % RING_SIZE] = c.data[c.i + 1]]
    /\ call' = [call EXCEPT ![t].i = @ + 1]
    /\ UNCHANGED <<registry, head, tail, given, taken>>

PushEnd(t) ==
    LET c == call[t] IN
    /\ c.op = "push" /\ c.i = c.n
    /\ head' = [head EXCEPT ![c.id] = (c.from + c.n) % WORD]
    /\ given' = [given EXCEPT ![c.id] = c.data]
    /\ call' = [call EXCEPT ![t] = Idle]
    /\ UNCHANGED <<registry, tail, buf, taken>>

recv(t, id, len) ==
    /\ call[t] = Idle /\ can_access(id, UidOf[t])
    /\ LET n == Smaller(len, Fill(head[id], tail[id])) IN
       call' = [call EXCEPT ![t] = Call("pop", id, tail[id], n, << >>)]
    /\ UNCHANGED <<registry, ring, given, taken>>

PopByte(t) ==
    LET c == call[t] IN
    /\ c.op = "pop" /\ c.i < c.n
    /\ call' = [call EXCEPT ![t].i = @ + 1,
                   ![t].data = Append(@, buf[c.id][(c.from + c.i) % RING_SIZE])]
    /\ UNCHANGED <<registry, ring, given, taken>>

PopEnd(t) ==
    LET c == call[t] IN
    /\ c.op = "pop" /\ c.i = c.n
    /\ tail' = [tail EXCEPT ![c.id] = (c.from + c.n) % WORD]
    /\ taken' = [taken EXCEPT ![c.id] = c.data]
    /\ call' = [call EXCEPT ![t] = Idle]
    /\ UNCHANGED <<registry, head, buf, given>>

Next ==
    \/ \E t \in Tasks : create_channel(t)
    \/ \E g \in Grants, id \in Ids : grant(g[1], id, g[2])
    \/ \E t \in Senders, id \in Ids, msg \in Messages : send(t, id, msg)
    \/ \E t \in Receivers, id \in Ids, len \in BufLens : recv(t, id, len)
    \/ \E t \in Tasks : PushByte(t) \/ PushEnd(t) \/ PopByte(t) \/ PopEnd(t)

Spec == Init /\ [][Next]_vars
-----------------------------------------------------------------------------
(* Properties.                                                              *)

Calls == [op : {"idle", "push", "pop"}, id : 0 .. MaxId, from : Index,
          n : 0 .. RING_SIZE - 1, i : 0 .. RING_SIZE - 1, data : Seq(Byte)]

TypeOK ==
    /\ nextId \in 1 .. MaxId + 1
    /\ owner \in [Ids -> {UidOf[t] : t \in Tasks} \cup {NoUid}]
    /\ allowed \in [Ids -> SUBSET {UidOf[t] : t \in Tasks}]
    /\ head \in [Ids -> Index] /\ tail \in [Ids -> Index]
    /\ buf \in [Ids -> [Slots -> Byte]]
    /\ call \in [Tasks -> Calls]
    /\ given \in [Ids -> Seq(Byte)] /\ taken \in [Ids -> Seq(Byte)]

(* mod.rs:4-6 "no open bus any process can shout on": whoever is in a ring  *)
(* owns the channel, or holds a uid that the owner itself called grant for. *)
NoOpenBus ==
    \A t \in Tasks : call[t] # Idle =>
        LET id == call[t].id IN
        \/ owner[id] = UidOf[t]
        \/ \E g \in Grants : UidOf[g[1]] = owner[id] /\ g[2] = UidOf[t]

(* mod.rs:12 "Lock-free SPSC ring": nothing but the registry sees to it    *)
(* that no two tasks push into one ring at a time, or pop from it.         *)
OnePair == \A t, u \in Tasks :
              t # u /\ call[t].op = call[u].op /\ call[t].id = call[u].id =>
                 call[t].op = "idle"

(* The one that is sending only writes slots that the one that is          *)
(* receiving, or will be, does not read (mod.rs:35-60).                    *)
Unread(id) == { (tail[id] + k) % RING_SIZE : k \in 0 .. Fill(head[id], tail[id]) - 1 }

SlotsApart ==
    /\ TypeOK
    /\ \A t \in Tasks : call[t].op = "push" /\ call[t].i < call[t].n =>
          (call[t].from + call[t].i) % RING_SIZE \notin Unread(call[t].id)

(* Between one sender and one receiver a channel is a bounded FIFO of       *)
(* bytes, preempted anywhere and past the wrap of its indices (mod.rs:35).  *)
Fifo == INSTANCE ByteFifo WITH
    Capacity <- RING_SIZE - 1,
    waiting <- [k \in 1 .. Fill(head[First], tail[First]) |->
                   buf[First][(tail[First] + k - 1) % RING_SIZE]],
    given <- given[First], taken <- taken[First]

IsFifo == Fifo!Spec
=============================================================================
