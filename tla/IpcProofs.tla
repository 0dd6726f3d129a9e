----------------------------- MODULE IpcProofs -----------------------------
(***************************************************************************)
(* Theorems about channels, for any tasks, messages, ring size and word:   *)
(* nobody is in a ring who was not let in; and a ring between one sender   *)
(* and one receiver is a FIFO, wherever both are preempted and past every  *)
(* wrap of its indices.                                                    *)
(***************************************************************************)
EXTENDS Ipc, TLAPS, SequenceTheorems

-----------------------------------------------------------------------------
(* Arithmetic modulo the ring.                                             *)

LEMMA DivMod ==
    ASSUME NEW m \in Nat \ {0}, NEW x \in Int
    PROVE  x \div m \in Int /\ x % m \in 0 .. m - 1 /\ x = m * (x \div m) + (x % m)
BY Z3

(* The remainder is the one number of its range that fits.                 *)
LEMMA ModUnique ==
    ASSUME NEW m \in Nat \ {0}, NEW x \in Int, NEW q \in Int, NEW r \in 0 .. m - 1,
           x = m * q + r
    PROVE  x % m = r
<1> DEFINE q1 == x \div m
           r1 == x % m
<1>1. q1 \in Int /\ r1 \in 0 .. m - 1 /\ x = m * q1 + r1
  BY DivMod
<1> HIDE DEF q1, r1
<1>2. m * (q - q1) = r1 - r
  BY <1>1, Z3
<1>3. CASE q - q1 >= 1
  <2>1. m * (q - q1) >= m
    BY <1>1, <1>3, Z3
  <2> QED
    BY <1>1, <1>2, <2>1
<1>4. CASE q - q1 <= -1
  <2>1. m * (q - q1) <= -m
    BY <1>1, <1>4, Z3
  <2> QED
    BY <1>1, <1>2, <2>1
<1>5. CASE q = q1
  <2>1. m * q = m * q1
    BY <1>5
  <2> QED
    BY <1>1, <2>1 DEF r1
<1> QED
  BY <1>1, <1>3, <1>4, <1>5

(* Adding to a remainder is adding to the number.                          *)
LEMMA ModPlus ==
    ASSUME NEW m \in Nat \ {0}, NEW x \in Int, NEW k \in Int
    PROVE  ((x % m) + k) % m = (x + k) % m
<1> DEFINE q1 == x \div m
           r1 == x % m
           q2 == (r1 + k) \div m
           r2 == (r1 + k) % m
<1>1. q1 \in Int /\ r1 \in 0 .. m - 1 /\ x = m * q1 + r1
  BY DivMod
<1>2. q2 \in Int /\ r2 \in 0 .. m - 1 /\ r1 + k = m * q2 + r2
  <2>1. r1 + k \in Int
    BY <1>1
  <2> QED
    BY <2>1, DivMod
<1> HIDE DEF q1, r1, q2, r2
<1>3. x + k = m * (q1 + q2) + r2
  BY <1>1, <1>2, Z3
<1>4. (x + k) % m = r2
  <2>1. x + k \in Int /\ q1 + q2 \in Int
    BY <1>1, <1>2
  <2> DEFINE y == x + k
             q == q1 + q2
  <2>2. y \in Int /\ q \in Int /\ y = m * q + r2
    BY <1>3, <2>1
  <2> HIDE DEF y, q
  <2>3. y % m = r2
    BY <1>2, <2>2, ModUnique
  <2> QED
    BY <2>3 DEF y
<1> QED
  BY <1>4 DEF r1, r2

(* The wrap of the word does not move a slot: the ring divides the word.   *)
LEMMA WordWrap ==
    ASSUME NEW x \in Int
    PROVE  (x % WORD) % RING_SIZE = x % RING_SIZE
<1> DEFINE c  == WORD \div RING_SIZE
           q1 == x \div WORD
           r1 == x % WORD
           q2 == r1 \div RING_SIZE
           r2 == r1 % RING_SIZE
<1>1. /\ RING_SIZE \in Nat \ {0} /\ WORD \in Nat \ {0} /\ WORD % RING_SIZE = 0
  BY IpcAssumption
<1>2. c \in Int /\ WORD = RING_SIZE * c
  BY <1>1, DivMod
<1>3. q1 \in Int /\ r1 \in 0 .. WORD - 1 /\ x = WORD * q1 + r1
  BY <1>1, DivMod
<1>4. q2 \in Int /\ r2 \in 0 .. RING_SIZE - 1 /\ r1 = RING_SIZE * q2 + r2
  <2>1. r1 \in Int
    BY <1>1, <1>3
  <2> QED
    BY <1>1, <2>1, DivMod
<1> HIDE DEF c, q1, r1, q2, r2
<1>5. WORD * q1 = RING_SIZE * (c * q1)
  BY <1>1, <1>2, <1>3, Z3
<1>6. c * q1 \in Int
  BY <1>2, <1>3
<1>7. x = RING_SIZE * (c * q1) + RING_SIZE * q2 + r2
  BY <1>1, <1>3, <1>4, <1>5
<1>8. RING_SIZE * (c * q1) + RING_SIZE * q2 = RING_SIZE * (c * q1 + q2)
  BY <1>1, <1>4, <1>6, Z3
<1>9. x = RING_SIZE * (c * q1 + q2) + r2
  BY <1>1, <1>4, <1>6, <1>7, <1>8
<1>10. x % RING_SIZE = r2
  <2> DEFINE q == c * q1 + q2
  <2>1. q \in Int /\ x = RING_SIZE * q + r2
    BY <1>4, <1>6, <1>9
  <2> HIDE DEF q
  <2> QED
    BY <1>1, <1>4, <2>1, ModUnique
<1> QED
  BY <1>10 DEF r1, r2

(* Two numbers less than a ring apart have different slots.                *)
LEMMA ModApart ==
    ASSUME NEW m \in Nat \ {0}, NEW x \in Int, NEW j \in 0 .. m - 1, NEW k \in 0 .. m - 1,
           (x + j) % m = (x + k) % m
    PROVE  j = k
<1> DEFINE r  == (x + j) % m
           q1 == (x + j) \div m
           q2 == (x + k) \div m
<1>1. q1 \in Int /\ r \in 0 .. m - 1 /\ x + j = m * q1 + r
  <2>1. x + j \in Int
    OBVIOUS
  <2> QED
    BY <2>1, DivMod
<1>2. q2 \in Int /\ x + k = m * q2 + r
  <2>1. x + k \in Int
    OBVIOUS
  <2> QED
    BY <2>1, DivMod
<1> HIDE DEF r, q1, q2
<1>3. j - k = m * (q1 - q2)
  BY <1>1, <1>2, Z3
<1>4. CASE q1 - q2 >= 1
  <2>1. m * (q1 - q2) >= m
    BY <1>1, <1>2, <1>4, Z3
  <2> QED
    BY <1>3, <2>1
<1>5. CASE q1 - q2 <= -1
  <2>1. m * (q1 - q2) <= -m
    BY <1>1, <1>2, <1>5, Z3
  <2> QED
    BY <1>3, <2>1
<1>6. CASE q1 = q2
  BY <1>1, <1>2, <1>6
<1> QED
  BY <1>1, <1>2, <1>4, <1>5, <1>6

(* So is subtracting a remainder.                                          *)
LEMMA ModMinus ==
    ASSUME NEW m \in Nat \ {0}, NEW h \in Int, NEW x \in Int
    PROVE  (h - (x % m)) % m = (h - x) % m
<1> DEFINE q1 == x \div m
           r1 == x % m
           q2 == (h - r1) \div m
           r2 == (h - r1) % m
<1>1. q1 \in Int /\ r1 \in 0 .. m - 1 /\ x = m * q1 + r1
  BY DivMod
<1>2. q2 \in Int /\ r2 \in 0 .. m - 1 /\ h - r1 = m * q2 + r2
  <2>1. h - r1 \in Int
    BY <1>1
  <2> QED
    BY <2>1, DivMod
<1> HIDE DEF q1, r1, q2, r2
<1>3. (h - x) % m = r2
  <2> DEFINE y == h - x
             q == q2 - q1
  <2>1. y \in Int /\ q \in Int /\ y = m * q + r2
    BY <1>1, <1>2, Z3
  <2> HIDE DEF y, q
  <2>2. y % m = r2
    BY <1>2, <2>1, ModUnique
  <2> QED
    BY <2>2 DEF y
<1> QED
  BY <1>3 DEF r1, r2

LEMMA ModSmall == ASSUME NEW m \in Nat \ {0}, NEW r \in 0 .. m - 1 PROVE r % m = r
<1>1. r \in Int /\ 0 \in Int /\ r = m * 0 + r
  OBVIOUS
<1> QED
  BY <1>1, ModUnique

-----------------------------------------------------------------------------
(* The indices of a ring.                                                  *)

LEMMA FillRange ==
    ASSUME NEW h \in Int, NEW tl \in Int
    PROVE  Fill(h, tl) \in 0 .. RING_SIZE - 1
<1>1. h - tl \in Int /\ RING_SIZE \in Nat \ {0}
  BY IpcAssumption
<1> QED
  BY <1>1, DivMod DEF Fill

(* An index that has wrapped stands for the slots of one that has not.     *)
LEMMA SlotsOn ==
    ASSUME NEW x \in Int, NEW k \in Int
    PROVE  ((x % WORD) + k) % RING_SIZE = (x + k) % RING_SIZE
<1> DEFINE w == x % WORD
<1>1. RING_SIZE \in Nat \ {0} /\ WORD \in Nat \ {0} /\ w \in Int
  <2>1. RING_SIZE \in Nat \ {0} /\ WORD \in Nat \ {0}
    BY IpcAssumption
  <2>2. w \in 0 .. WORD - 1
    BY <2>1, DivMod
  <2> QED
    BY <2>1, <2>2
<1>2. w % RING_SIZE = x % RING_SIZE
  BY WordWrap
<1> HIDE DEF w
<1>3. /\ (w + k) % RING_SIZE = ((w % RING_SIZE) + k) % RING_SIZE
      /\ ((x % RING_SIZE) + k) % RING_SIZE = (x + k) % RING_SIZE
  BY <1>1, ModPlus
<1> QED
  BY <1>2, <1>3 DEF w

(* The slots from the head on come after those that are filled.            *)
LEMMA HeadSlots ==
    ASSUME NEW h \in Int, NEW tl \in Int, NEW k \in Int
    PROVE  (h + k) % RING_SIZE = (tl + (Fill(h, tl) + k)) % RING_SIZE
<1>1. RING_SIZE \in Nat \ {0} /\ h - tl \in Int /\ tl + k \in Int
  BY IpcAssumption
<1>2. (((h - tl) % RING_SIZE) + (tl + k)) % RING_SIZE = ((h - tl) + (tl + k)) % RING_SIZE
  BY <1>1, ModPlus
<1>3. (h - tl) + (tl + k) = h + k
  OBVIOUS
<1>4. Fill(h, tl) + (tl + k) = tl + (Fill(h, tl) + k)
  BY FillRange
<1> QED
  BY <1>2, <1>3, <1>4 DEF Fill

(* A push fills as many slots as it has bytes.                             *)
LEMMA FillPush ==
    ASSUME NEW h \in Int, NEW tl \in Int, NEW n \in 0 .. Free(h, tl)
    PROVE  Fill((h + n) % WORD, tl) = Fill(h, tl) + n
<1>1. RING_SIZE \in Nat \ {0} /\ Fill(h, tl) \in 0 .. RING_SIZE - 1
  BY IpcAssumption, FillRange
<1>2. n \in Nat /\ Fill(h, tl) + n \in 0 .. RING_SIZE - 1
  BY <1>1 DEF Free
<1>3. h + n \in Int /\ -tl \in Int /\ h - tl \in Int
  BY <1>2
<1>4. (((h + n) % WORD) + (-tl)) % RING_SIZE = ((h + n) + (-tl)) % RING_SIZE
  BY <1>3, SlotsOn
<1>5. (((h - tl) % RING_SIZE) + n) % RING_SIZE = ((h - tl) + n) % RING_SIZE
  <2>1. n \in Int /\ h - tl \in Int
    BY <1>2
  <2> QED
    BY <1>1, <2>1, ModPlus
<1>6. (h + n) % WORD \in Int
  BY <1>3, DivMod, IpcAssumption
<1>7. /\ ((h + n) % WORD) + (-tl) = ((h + n) % WORD) - tl
      /\ (h + n) + (-tl) = (h - tl) + n
  BY <1>2, <1>6
<1>8. Fill((h + n) % WORD, tl) = (Fill(h, tl) + n) % RING_SIZE
  BY <1>4, <1>5, <1>7 DEF Fill
<1> QED
  BY <1>1, <1>2, <1>8, ModSmall

(* A pop empties as many as it takes.                                      *)
LEMMA FillPop ==
    ASSUME NEW h \in Int, NEW tl \in Int, NEW n \in 0 .. Fill(h, tl)
    PROVE  Fill(h, (tl + n) % WORD) = Fill(h, tl) - n
<1>1. /\ RING_SIZE \in Nat \ {0} /\ Fill(h, tl) \in 0 .. RING_SIZE - 1 /\ WORD \in Nat \ {0}
  BY IpcAssumption, FillRange
<1>2. n \in Nat /\ Fill(h, tl) - n \in 0 .. RING_SIZE - 1
  BY <1>1
<1> DEFINE x == tl + n
           w == x % WORD
<1>3. x \in Int /\ w \in Int
  BY <1>1, <1>2, DivMod
<1>4. w % RING_SIZE = x % RING_SIZE
  BY <1>3, WordWrap
<1> HIDE DEF x, w
<1>5. /\ (h - (w % RING_SIZE)) % RING_SIZE = (h - w) % RING_SIZE
      /\ (h - (x % RING_SIZE)) % RING_SIZE = (h - x) % RING_SIZE
  BY <1>1, <1>3, ModMinus
<1>6. (h - w) % RING_SIZE = (h - x) % RING_SIZE
  BY <1>4, <1>5
<1>7. h - tl \in Int /\ -n \in Int
  BY <1>2
<1>8. (((h - tl) % RING_SIZE) + (-n)) % RING_SIZE = ((h - tl) + (-n)) % RING_SIZE
  BY <1>1, <1>7, ModPlus
<1>9. (h - tl) + (-n) = h - x /\ Fill(h, tl) + (-n) = Fill(h, tl) - n
  BY <1>1, <1>2 DEF x
<1>10. (h - w) % RING_SIZE = (Fill(h, tl) - n) % RING_SIZE
  BY <1>6, <1>8, <1>9 DEF Fill
<1> QED
  BY <1>1, <1>2, <1>10, ModSmall DEF Fill, w, x

(* What is being written is not what is, or will be, read.                 *)
LEMMA SlotFree ==
    ASSUME NEW h \in Int, NEW tl \in Int, NEW i \in 0 .. Free(h, tl) - 1,
           NEW k \in 0 .. Fill(h, tl) - 1
    PROVE  (h + i) % RING_SIZE # (tl + k) % RING_SIZE
<1>1. RING_SIZE \in Nat \ {0} /\ Fill(h, tl) \in 0 .. RING_SIZE - 1
  BY IpcAssumption, FillRange
<1>2. Fill(h, tl) + i \in 0 .. RING_SIZE - 1 /\ k \in 0 .. RING_SIZE - 1 /\ k # Fill(h, tl) + i
  BY <1>1 DEF Free
<1>3. (h + i) % RING_SIZE = (tl + (Fill(h, tl) + i)) % RING_SIZE
  BY <1>1, HeadSlots
<1> QED
  BY <1>1, <1>2, <1>3, ModApart
-----------------------------------------------------------------------------
(* The inductive invariants.                                               *)

(* A task inside a ring has a call with an end.                            *)
Inside(c) ==
    /\ c.op # "idle" /\ c.id \in Ids /\ c.i <= c.n
    /\ c.op = "push" => Len(c.data) = c.n

(* Nobody has a channel that is not there yet, an owner alone granted it,   *)
(* and who is inside is let in still: the registry waits for it to leave.  *)
Entered ==
    /\ TypeOK
    /\ \A id \in Ids : id >= nextId => owner[id] = NoUid
    /\ \A id \in Ids : \A uid \in allowed[id] :
          \E g \in Grants : UidOf[g[1]] = owner[id] /\ g[2] = uid
    /\ \A t \in Tasks : \/ call[t] = Idle
                        \/ Inside(call[t]) /\ can_access(call[t].id, UidOf[t])

(* A sender holds the head it read, the room it saw is there still, and    *)
(* what it has written lies in the slots from the head on.                 *)
Pushing(c) ==
    /\ c.from = head[c.id] /\ c.n <= Free(head[c.id], tail[c.id])
    /\ \A k \in 0 .. c.i - 1 : buf[c.id][(c.from + k) % RING_SIZE] = c.data[k + 1]

(* A receiver holds the tail it read, the bytes it saw are there still,    *)
(* and what it has read is what lies in the slots from the tail on.        *)
Popping(c) ==
    /\ c.from = tail[c.id] /\ c.n <= Fill(head[c.id], tail[c.id])
    /\ Len(c.data) = c.i
    /\ \A k \in 0 .. c.i - 1 : c.data[k + 1] = buf[c.id][(c.from + k) % RING_SIZE]

Between == \A t \in Tasks : /\ call[t].op = "push" => Pushing(call[t])
                            /\ call[t].op = "pop"  => Popping(call[t])
-----------------------------------------------------------------------------
(* Who is inside.                                                          *)

LEMMA EnteredInit == Init => Entered
<1> SUFFICES ASSUME Init PROVE Entered
  OBVIOUS
<1>1. /\ RING_SIZE \in Nat \ {0} /\ WORD \in Nat \ {0} /\ MaxId \in Nat /\ 0 \in Byte
      /\ 1 \in 1 .. MaxId + 1 /\ 0 \in Index /\ << >> \in Seq(Byte)
  BY IpcAssumption DEF Index
<1>2. Idle \in Calls
  BY <1>1 DEF Idle, Calls
<1>3. TypeOK
  BY <1>1, <1>2 DEF Init, TypeOK
<1> QED
  BY <1>3 DEF Init, Entered

(* Reading an index and the room or the bytes there are makes a call that  *)
(* ends.                                                                   *)
LEMMA CallMade ==
    ASSUME NEW op \in {"push", "pop"}, NEW id \in Ids, NEW from \in Index,
           NEW n \in 0 .. RING_SIZE - 1, NEW data \in Seq(Byte), op = "push" => Len(data) = n
    PROVE  Call(op, id, from, n, data) \in Calls /\ Inside(Call(op, id, from, n, data))
<1>1. RING_SIZE \in Nat \ {0} /\ id \in 0 .. MaxId /\ 0 \in 0 .. RING_SIZE - 1
  BY IpcAssumption DEF Ids
<1> QED
  BY <1>1 DEF Call, Calls, Inside

LEMMA PushMade ==
    ASSUME TypeOK, NEW id \in Ids, NEW msg \in Messages
    PROVE  LET n == Smaller(Len(msg), Free(head[id], tail[id]))
               c == Call("push", id, head[id], n, SubSeq(msg, 1, n))
           IN  /\ c \in Calls /\ Inside(c) /\ c.op = "push" /\ c.id = id /\ c.i = 0
               /\ c.from = head[id] /\ c.n = n /\ n <= Free(head[id], tail[id])
<1> DEFINE n == Smaller(Len(msg), Free(head[id], tail[id]))
           data == SubSeq(msg, 1, n)
<1>1. msg \in Seq(Byte) /\ RING_SIZE \in Nat \ {0} /\ WORD \in Nat \ {0}
  BY IpcAssumption
<1>2. head[id] \in Index /\ tail[id] \in Index /\ head[id] \in Int /\ tail[id] \in Int
  BY <1>1 DEF TypeOK, Index
<1>3. Free(head[id], tail[id]) \in 0 .. RING_SIZE - 1
  <2>1. Fill(head[id], tail[id]) \in 0 .. RING_SIZE - 1
    BY <1>2, FillRange
  <2> QED
    BY <1>1, <2>1 DEF Free
<1>4. n \in 0 .. RING_SIZE - 1 /\ n <= Len(msg) /\ n <= Free(head[id], tail[id])
  BY <1>1, <1>3 DEF Smaller
<1>5. data \in Seq(Byte) /\ Len(data) = n
  BY <1>1, <1>4
<1> HIDE DEF n, data
<1>6. Call("push", id, head[id], n, data) \in Calls /\ Inside(Call("push", id, head[id], n, data))
  BY <1>2, <1>4, <1>5, CallMade
<1> QED
  BY <1>4, <1>6 DEF n, data, Call

LEMMA PopMade ==
    ASSUME TypeOK, NEW id \in Ids, NEW len \in BufLens
    PROVE  LET n == Smaller(len, Fill(head[id], tail[id]))
               c == Call("pop", id, tail[id], n, << >>)
           IN  /\ c \in Calls /\ Inside(c) /\ c.op = "pop" /\ c.id = id /\ c.i = 0
               /\ c.from = tail[id] /\ c.n = n /\ n <= Fill(head[id], tail[id])
               /\ c.data = << >>
<1> DEFINE n == Smaller(len, Fill(head[id], tail[id]))
<1>1. len \in Nat /\ RING_SIZE \in Nat \ {0} /\ WORD \in Nat \ {0}
  BY IpcAssumption
<1>2. head[id] \in Index /\ tail[id] \in Index /\ head[id] \in Int /\ tail[id] \in Int
  BY <1>1 DEF TypeOK, Index
<1>3. n \in 0 .. RING_SIZE - 1 /\ n <= Fill(head[id], tail[id])
  <2>1. Fill(head[id], tail[id]) \in 0 .. RING_SIZE - 1
    BY <1>2, FillRange
  <2> QED
    BY <1>1, <2>1 DEF Smaller
<1> HIDE DEF n
<1>4. << >> \in Seq(Byte)
  OBVIOUS
<1>5. Call("pop", id, tail[id], n, << >>) \in Calls /\ Inside(Call("pop", id, tail[id], n, << >>))
  BY <1>2, <1>3, <1>4, CallMade
<1> QED
  BY <1>3, <1>5 DEF n, Call

(* A step inside a ring.                                                   *)
LEMMA SlotIn == ASSUME NEW x \in Int PROVE x % RING_SIZE \in Slots
<1>1. RING_SIZE \in Nat \ {0}
  BY IpcAssumption
<1> QED
  BY <1>1, DivMod DEF Slots

LEMMA IndexIn == ASSUME NEW x \in Int PROVE x % WORD \in Index
<1>1. WORD \in Nat \ {0}
  BY IpcAssumption
<1> QED
  BY <1>1, DivMod DEF Index

LEMMA CallTyped ==
    ASSUME Entered, NEW t \in Tasks
    PROVE  /\ call[t] \in Calls /\ call[t].from \in Nat /\ call[t].n \in 0 .. RING_SIZE - 1
           /\ call[t].i \in 0 .. RING_SIZE - 1 /\ call[t].data \in Seq(Byte)
           /\ call[t].n \in Nat /\ call[t].i \in Nat
           /\ call[t].op # "idle" =>
                 /\ call[t] # Idle /\ Inside(call[t]) /\ call[t].id \in Ids
                 /\ can_access(call[t].id, UidOf[t])
<1>1. RING_SIZE \in Nat \ {0} /\ WORD \in Nat \ {0}
  BY IpcAssumption
<1>2. call[t] \in Calls
  BY DEF Entered, TypeOK
<1>3. call[t].op # "idle" => call[t] # Idle
  BY DEF Idle
<1> QED
  BY <1>1, <1>2, <1>3 DEF Calls, Index, Entered, Inside

LEMMA EnteredStep == Entered /\ [Next]_vars => Entered'
<1> SUFFICES ASSUME Entered, [Next]_vars PROVE Entered'
  OBVIOUS
<1>0. /\ RING_SIZE \in Nat \ {0} /\ WORD \in Nat \ {0} /\ MaxId \in Nat /\ TypeOK
  BY IpcAssumption DEF Entered
<1>1. ASSUME NEW t \in Tasks, create_channel(t) PROVE Entered'
  <2>1. TypeOK'
    BY <1>0, <1>1 DEF TypeOK, create_channel, Ids, ring
  <2>2. \A id \in Ids : id >= nextId' => owner'[id] = NoUid
    BY <1>0, <1>1 DEF Entered, TypeOK, create_channel, Ids
  <2>3. ASSUME NEW id \in Ids, NEW uid \in allowed'[id]
        PROVE  \E g \in Grants : UidOf[g[1]] = owner'[id] /\ g[2] = uid
    <3>1. PICK g \in Grants : UidOf[g[1]] = owner[id] /\ g[2] = uid
      BY <1>1, <2>3 DEF Entered, create_channel
    <3>2. g[1] \in Tasks /\ UidOf[g[1]] # NoUid
      BY IpcAssumption DEF NoUid
    <3>3. id # nextId
      BY <1>0, <1>1, <3>1, <3>2 DEF Entered, TypeOK, create_channel, Ids
    <3> QED
      BY <1>0, <1>1, <3>1, <3>3 DEF TypeOK, create_channel
  <2>4. \A u \in Tasks : call'[u] = Idle
    BY <1>1 DEF create_channel, NobodyInside
  <2> QED
    BY <2>1, <2>2, <2>3, <2>4 DEF Entered
<1>2. ASSUME NEW g \in Grants, NEW id \in Ids, grant(g[1], id, g[2]) PROVE Entered'
  <2>0. g[1] \in Tasks /\ g[2] \in {UidOf[t] : t \in Tasks} /\ UidOf[g[1]] # NoUid
    BY IpcAssumption DEF NoUid
  <2>1. TypeOK'
    BY <1>0, <1>2, <2>0 DEF TypeOK, grant, ring
  <2>2. \A x \in Ids : x >= nextId' => owner'[x] = NoUid
    BY <1>2 DEF Entered, grant
  <2>3. ASSUME NEW x \in Ids, NEW uid \in allowed'[x]
        PROVE  \E d \in Grants : UidOf[d[1]] = owner'[x] /\ d[2] = uid
    BY <1>0, <1>2, <2>0, <2>3 DEF Entered, TypeOK, grant
  <2>4. \A u \in Tasks : call'[u] = Idle
    BY <1>2 DEF grant, NobodyInside
  <2> QED
    BY <2>1, <2>2, <2>3, <2>4 DEF Entered
\* From here on the registry does not move, and one task t makes a step.
<1>3. ASSUME UNCHANGED registry, NEW t \in Tasks, NEW c \in Calls,
             call' = [call EXCEPT ![t] = c],
             head' \in [Ids -> Index], tail' \in [Ids -> Index],
             buf' \in [Ids -> [Slots -> Byte]],
             given' \in [Ids -> Seq(Byte)], taken' \in [Ids -> Seq(Byte)],
             c = Idle \/ (Inside(c) /\ can_access(c.id, UidOf[t]))
      PROVE  Entered'
  <2>1. TypeOK'
    BY <1>0, <1>3 DEF TypeOK, registry
  <2>2. \A u \in Tasks : u # t => call'[u] = call[u]
    BY <1>0, <1>3 DEF TypeOK
  <2>3. call'[t] = c
    BY <1>0, <1>3 DEF TypeOK
  <2>4. owner' = owner /\ allowed' = allowed /\ nextId' = nextId
    BY <1>3 DEF registry
  <2>5. ASSUME NEW u \in Tasks
        PROVE  (\/ call[u] = Idle
                \/ Inside(call[u]) /\ can_access(call[u].id, UidOf[u]))'
    BY <1>3, <2>2, <2>3, <2>4 DEF Entered, can_access, Inside, Idle
  <2> QED
    BY <2>1, <2>4, <2>5 DEF Entered
<1>4. Idle \in Calls
  BY <1>0 DEF Idle, Calls, Index
<1>5. ASSUME NEW t \in Senders, NEW id \in Ids, NEW msg \in Messages, send(t, id, msg)
      PROVE  Entered'
  <2>1. t \in Tasks
    BY IpcAssumption
  <2> DEFINE n == Smaller(Len(msg), Free(head[id], tail[id]))
             c == Call("push", id, head[id], n, SubSeq(msg, 1, n))
  <2>2. c \in Calls /\ Inside(c) /\ c.id = id
    BY <1>0, PushMade
  <2>3. call' = [call EXCEPT ![t] = c] /\ UNCHANGED <<registry, ring, given, taken>>
    BY <1>5 DEF send
  <2>4. can_access(c.id, UidOf[t])
    BY <1>5, <2>2 DEF send
  <2> HIDE DEF n, c
  <2> QED
    BY <1>0, <1>3, <2>1, <2>2, <2>3, <2>4 DEF TypeOK, ring
<1>6. ASSUME NEW t \in Receivers, NEW id \in Ids, NEW len \in BufLens, recv(t, id, len)
      PROVE  Entered'
  <2>1. t \in Tasks
    BY IpcAssumption
  <2> DEFINE n == Smaller(len, Fill(head[id], tail[id]))
             c == Call("pop", id, tail[id], n, << >>)
  <2>2. c \in Calls /\ Inside(c) /\ c.id = id
    BY <1>0, PopMade
  <2>3. call' = [call EXCEPT ![t] = c] /\ UNCHANGED <<registry, ring, given, taken>>
    BY <1>6 DEF recv
  <2>4. can_access(c.id, UidOf[t])
    BY <1>6, <2>2 DEF recv
  <2> HIDE DEF n, c
  <2> QED
    BY <1>0, <1>3, <2>1, <2>2, <2>3, <2>4 DEF TypeOK, ring
<1>7. ASSUME NEW t \in Tasks, PushByte(t) PROVE Entered'
  <2> DEFINE c == [call[t] EXCEPT !.i = @ + 1]
             x == (call[t].from + call[t].i) % RING_SIZE
  <2>1. call[t].op = "push" /\ call[t].i < call[t].n /\ call[t].op # "idle"
    BY <1>7 DEF PushByte
  <2>2. /\ call[t] \in Calls /\ call[t].from + call[t].i \in Int /\ Inside(call[t])
        /\ call[t].i \in Nat /\ call[t].n \in 0 .. RING_SIZE - 1
        /\ call[t].id \in Ids /\ call[t].data \in Seq(Byte)
        /\ can_access(call[t].id, UidOf[t])
    BY <2>1, CallTyped
  <2>3. x \in Slots /\ call[t].data[call[t].i + 1] \in Byte
    BY <2>1, <2>2, SlotIn DEF Inside
  <2>4. c \in Calls /\ Inside(c) /\ c.id = call[t].id
    BY <1>0, <2>1, <2>2 DEF Calls, Inside
  <2>5. /\ call' = [call EXCEPT ![t] = c]
        /\ buf' = [buf EXCEPT ![call[t].id][x] = call[t].data[call[t].i + 1]]
        /\ UNCHANGED <<registry, head, tail, given, taken>>
    BY <1>0, <1>7 DEF PushByte, TypeOK
  <2> HIDE DEF c, x
  <2>6. buf' \in [Ids -> [Slots -> Byte]]
    BY <1>0, <2>2, <2>3, <2>5 DEF TypeOK
  <2> QED
    BY <1>0, <1>3, <2>2, <2>4, <2>5, <2>6 DEF TypeOK
<1>8. ASSUME NEW t \in Tasks, PushEnd(t) PROVE Entered'
  <2>1. call[t].op = "push" /\ call[t].op # "idle"
    BY <1>8 DEF PushEnd
  <2>2. /\ call[t].from + call[t].n \in Int /\ call[t].id \in Ids
        /\ call[t].data \in Seq(Byte)
    BY <2>1, CallTyped
  <2>3. (call[t].from + call[t].n) % WORD \in Index
    BY <2>2, IndexIn
  <2> QED
    BY <1>0, <1>3, <1>4, <1>8, <2>2, <2>3 DEF PushEnd, TypeOK
<1>9. ASSUME NEW t \in Tasks, PopByte(t) PROVE Entered'
  <2> DEFINE x == (call[t].from + call[t].i) % RING_SIZE
             b == buf[call[t].id][x]
             c == [call[t] EXCEPT !.i = @ + 1, !.data = Append(@, b)]
  <2>1. call[t].op = "pop" /\ call[t].i < call[t].n /\ call[t].op # "idle"
    BY <1>9 DEF PopByte
  <2>2. /\ call[t] \in Calls /\ call[t].from + call[t].i \in Int /\ Inside(call[t])
        /\ call[t].i \in Nat /\ call[t].n \in 0 .. RING_SIZE - 1
        /\ call[t].id \in Ids /\ call[t].data \in Seq(Byte)
        /\ can_access(call[t].id, UidOf[t])
    BY <2>1, CallTyped
  <2>3. x \in Slots
    BY <2>2, SlotIn
  <2>4. b \in Byte
    BY <1>0, <2>2, <2>3 DEF TypeOK
  <2>5. call' = [call EXCEPT ![t] = c] /\ UNCHANGED <<registry, ring, given, taken>>
    BY <1>0, <1>9 DEF PopByte, TypeOK
  <2> HIDE DEF x, b
  <2>6. c \in Calls /\ Inside(c) /\ c.id = call[t].id
    <3> DEFINE d == Append(call[t].data, b)
    <3>1. call[t].i + 1 \in 0 .. RING_SIZE - 1 /\ call[t].i + 1 <= call[t].n
      BY <1>0, <2>1, <2>2
    <3>2. d \in Seq(Byte)
      BY <2>2, <2>4
    <3>3. c = [call[t] EXCEPT !.i = call[t].i + 1, !.data = d]
      BY <2>2 DEF Calls
    <3> HIDE DEF c, d
    <3> QED
      BY <2>1, <2>2, <3>1, <3>2, <3>3 DEF Calls, Inside
  <2> HIDE DEF c
  <2> QED
    BY <1>0, <1>3, <2>2, <2>5, <2>6 DEF TypeOK, ring
<1>10. ASSUME NEW t \in Tasks, PopEnd(t) PROVE Entered'
  <2>1. call[t].op = "pop" /\ call[t].op # "idle"
    BY <1>10 DEF PopEnd
  <2>2. /\ call[t].from + call[t].n \in Int /\ call[t].id \in Ids
        /\ call[t].data \in Seq(Byte)
    BY <2>1, CallTyped
  <2>3. (call[t].from + call[t].n) % WORD \in Index
    BY <2>2, IndexIn
  <2> QED
    BY <1>0, <1>3, <1>4, <1>10, <2>2, <2>3 DEF PopEnd, TypeOK
<1>11. CASE UNCHANGED vars
  BY <1>11 DEF vars, Entered, TypeOK, can_access, Inside
<1> QED
  BY <1>1, <1>2, <1>5, <1>6, <1>7, <1>8, <1>9, <1>10, <1>11 DEF Next

(* The types of the channels, ring indices and calls (mod.rs:15-133).       *)
THEOREM ChannelsTyped == Spec => []TypeOK
<1>1. Entered => TypeOK
  BY DEF Entered
<1> QED
  BY <1>1, EnteredInit, EnteredStep, PTL DEF Spec

(* NoOpenBus, for any tasks, uids and grants: a task inside a ring owns the *)
(* channel, or its owner granted it (mod.rs:4-6, 100-133).                  *)
THEOREM NobodyUninvited == Spec => []NoOpenBus
<1>1. Entered => NoOpenBus
  <2> SUFFICES ASSUME Entered, NEW t \in Tasks, call[t] # Idle
               PROVE  \/ owner[call[t].id] = UidOf[t]
                      \/ \E g \in Grants : /\ UidOf[g[1]] = owner[call[t].id]
                                           /\ g[2] = UidOf[t]
    BY DEF NoOpenBus
  <2>1. call[t].id \in Ids /\ can_access(call[t].id, UidOf[t])
    BY DEF Entered, Inside
  <2> QED
    BY <2>1 DEF Entered, can_access
<1> QED
  BY <1>1, EnteredInit, EnteredStep, PTL DEF Spec
-----------------------------------------------------------------------------
(* A sender and a receiver in one ring.                                    *)

LEMMA BetweenInit == Init => Between
  BY DEF Init, Between, Idle

(* Who else is in the ring of one that pushes is not pushing, and so for    *)
(* pops.                                                                   *)
LEMMA OtherSide ==
    ASSUME OnePair, NEW t \in Tasks, NEW u \in Tasks, t # u, call[t].op # "idle",
           call[u].op = call[t].op
    PROVE  call[u].id # call[t].id
BY DEF OnePair

LEMMA IndexInt ==
    ASSUME TypeOK, NEW id \in Ids
    PROVE  /\ head[id] \in Index /\ tail[id] \in Index /\ head[id] \in Int /\ tail[id] \in Int
           /\ Fill(head[id], tail[id]) \in 0 .. RING_SIZE - 1
           /\ RING_SIZE \in Nat \ {0} /\ WORD \in Nat \ {0}
<1>1. RING_SIZE \in Nat \ {0} /\ WORD \in Nat \ {0}
  BY IpcAssumption
<1>2. head[id] \in Index /\ tail[id] \in Index /\ head[id] \in Int /\ tail[id] \in Int
  BY <1>1 DEF TypeOK, Index
<1>3. Fill(head[id], tail[id]) \in 0 .. RING_SIZE - 1
  BY <1>2, FillRange
<1> QED
  BY <1>1, <1>2, <1>3

(* A byte goes where nobody reads, and past what is written.               *)
LEMMA PushByteBetween ==
    ASSUME Entered, Between, OnePair, NEW t \in Tasks, PushByte(t)
    PROVE  Between'
<1> DEFINE id == call[t].id
           x  == (call[t].from + call[t].i) % RING_SIZE
           b  == call[t].data[call[t].i + 1]
<1>1. /\ TypeOK /\ call[t].op = "push" /\ call[t].op # "idle" /\ call[t].i < call[t].n
      /\ head' = head /\ tail' = tail
      /\ buf' = [buf EXCEPT ![id][x] = b]
      /\ call' = [call EXCEPT ![t].i = @ + 1]
  BY DEF PushByte, Entered
<1>2. /\ id \in Ids /\ call[t].i \in Nat /\ call[t].n \in 0 .. RING_SIZE - 1
      /\ call[t] \in Calls
  BY <1>1, CallTyped
<1>3. /\ call[t].from = head[id] /\ call[t].n <= Free(head[id], tail[id])
      /\ \A k \in 0 .. call[t].i - 1 : buf[id][(call[t].from + k) % RING_SIZE] = call[t].data[k + 1]
  BY <1>1 DEF Between, Pushing
<1>4. /\ head[id] \in Int /\ tail[id] \in Int /\ RING_SIZE \in Nat \ {0}
      /\ Fill(head[id], tail[id]) \in 0 .. RING_SIZE - 1
  BY <1>1, <1>2, IndexInt
<1>5. x \in Slots
  <2>1. call[t].from + call[t].i \in Int
    BY <1>2, <1>3, <1>4
  <2> QED
    BY <2>1, SlotIn
<1>6. x = (head[id] + call[t].i) % RING_SIZE
  BY <1>3
<1> HIDE DEF id, x, b
<1>7. /\ buf'[id][x] = b
      /\ \A y \in Slots : y # x => buf'[id][y] = buf[id][y]
      /\ \A j \in Ids : j # id => buf'[j] = buf[j]
  BY <1>1, <1>2, <1>5 DEF TypeOK
<1>8. /\ \A u \in Tasks : u # t => call'[u] = call[u]
      /\ call'[t] = [call[t] EXCEPT !.i = @ + 1]
  BY <1>1, <1>2 DEF TypeOK
<1>9. ASSUME NEW u \in Tasks
      PROVE  (/\ call[u].op = "push" => Pushing(call[u])
              /\ call[u].op = "pop" => Popping(call[u]))'
  <2>1. CASE u = t
    <3> DEFINE c == call'[t]
    <3>1. /\ c.op = "push" /\ c.id = id /\ c.from = call[t].from /\ c.n = call[t].n
          /\ c.i = call[t].i + 1 /\ c.data = call[t].data
      BY <1>1, <1>2, <1>8 DEF Calls, id
    <3>2. ASSUME NEW k \in 0 .. c.i - 1
          PROVE  buf'[id][(c.from + k) % RING_SIZE] = c.data[k + 1]
      <4>1. CASE k = call[t].i
        BY <1>3, <1>6, <1>7, <3>1, <4>1 DEF b
      <4>2. CASE k # call[t].i
        <5>1. k \in 0 .. call[t].i - 1 /\ k \in Int
          BY <1>2, <3>1, <4>2
        <5>2. (head[id] + k) % RING_SIZE \in Slots
          BY <1>4, <5>1, SlotIn
        <5>3. (head[id] + k) % RING_SIZE # x
          <6>1. call[t].i \in 0 .. RING_SIZE - 1 /\ k \in 0 .. RING_SIZE - 1
            BY <1>1, <1>2, <1>4, <5>1
          <6> QED
            BY <1>4, <1>6, <4>2, <6>1, ModApart
        <5> QED
          BY <1>3, <1>7, <3>1, <5>1, <5>2, <5>3
      <4> QED
        BY <4>1, <4>2
    <3>3. Pushing(call[t])'
      BY <1>1, <1>3, <3>1, <3>2 DEF Pushing
    <3> QED
      BY <2>1, <3>1, <3>3
  <2>2. CASE u # t /\ call[u].op = "push"
    <3>1. call'[u] = call[u] /\ call[u].id # id /\ call[u].id \in Ids
      BY <1>1, <1>8, <2>2, OtherSide, CallTyped DEF id
    <3>2. Pushing(call[u])
      BY <2>2 DEF Between
    <3> QED
      BY <1>1, <1>7, <2>2, <3>1, <3>2 DEF Pushing
  <2>3. CASE u # t /\ call[u].op = "pop"
    <3>1. /\ call'[u] = call[u] /\ call[u].id \in Ids /\ call[u].n \in Nat /\ call[u].i \in Nat
          /\ call[u].i <= call[u].n
      BY <1>8, <2>3, CallTyped DEF Inside
    <3>2. Popping(call[u])
      BY <2>3 DEF Between
    <3>3. ASSUME call[u].id = id, NEW k \in 0 .. call[u].i - 1
          PROVE  buf'[id][(call[u].from + k) % RING_SIZE] = buf[id][(call[u].from + k) % RING_SIZE]
      <4>1. k \in 0 .. Fill(head[id], tail[id]) - 1 /\ k \in Int
        BY <1>4, <3>1, <3>2, <3>3 DEF Popping
      <4>2. call[t].i \in 0 .. Free(head[id], tail[id]) - 1
        BY <1>1, <1>2, <1>3, <1>4 DEF Free
      <4>3. x # (tail[id] + k) % RING_SIZE
        BY <1>4, <1>6, <4>1, <4>2, SlotFree
      <4>4. (tail[id] + k) % RING_SIZE \in Slots
        BY <1>4, <4>1, SlotIn
      <4> QED
        BY <1>7, <3>2, <3>3, <4>3, <4>4 DEF Popping
    <3>4. \A k \in 0 .. call[u].i - 1 : buf'[call[u].id][(call[u].from + k) % RING_SIZE]
                                        = buf[call[u].id][(call[u].from + k) % RING_SIZE]
      BY <1>7, <3>1, <3>3
    <3> QED
      BY <1>1, <2>3, <3>1, <3>2, <3>4 DEF Popping
  <2> QED
    BY <1>8, <2>1, <2>2, <2>3
<1> QED
  BY <1>9 DEF Between

(* The head that is published leaves the bytes that are being read.        *)
LEMMA PushEndBetween ==
    ASSUME Entered, Between, OnePair, NEW t \in Tasks, PushEnd(t)
    PROVE  Between'
<1> DEFINE id == call[t].id
           h  == (call[t].from + call[t].n) % WORD
<1>1. /\ TypeOK /\ call[t].op = "push" /\ call[t].op # "idle"
      /\ tail' = tail /\ buf' = buf /\ head' = [head EXCEPT ![id] = h]
      /\ call' = [call EXCEPT ![t] = Idle]
  BY DEF PushEnd, Entered
<1>2. id \in Ids /\ call[t].n \in Nat
  BY <1>1, CallTyped
<1>3. call[t].from = head[id] /\ call[t].n <= Free(head[id], tail[id])
  BY <1>1 DEF Between, Pushing
<1>4. /\ head[id] \in Int /\ tail[id] \in Int
      /\ Fill(head[id], tail[id]) \in 0 .. RING_SIZE - 1 /\ RING_SIZE \in Nat \ {0}
  BY <1>1, <1>2, IndexInt
<1>5. Fill(h, tail[id]) = Fill(head[id], tail[id]) + call[t].n
  <2>1. call[t].n \in 0 .. Free(head[id], tail[id])
    BY <1>2, <1>3, <1>4 DEF Free
  <2> QED
    BY <1>3, <1>4, <2>1, FillPush
<1> HIDE DEF id, h
<1>6. head'[id] = h /\ \A j \in Ids : j # id => head'[j] = head[j]
  BY <1>1, <1>2 DEF TypeOK
<1>7. call'[t] = Idle /\ \A u \in Tasks : u # t => call'[u] = call[u]
  BY <1>1 DEF TypeOK
<1>8. ASSUME NEW u \in Tasks
      PROVE  (/\ call[u].op = "push" => Pushing(call[u])
              /\ call[u].op = "pop" => Popping(call[u]))'
  <2>1. CASE u = t
    BY <1>7, <2>1 DEF Idle
  <2>2. CASE u # t /\ call[u].op = "push"
    <3>1. call'[u] = call[u] /\ call[u].id # id /\ call[u].id \in Ids
      BY <1>1, <1>7, <2>2, OtherSide, CallTyped DEF id
    <3> QED
      BY <1>1, <1>6, <2>2, <3>1 DEF Between, Pushing
  <2>3. CASE u # t /\ call[u].op = "pop"
    <3>1. call'[u] = call[u] /\ call[u].id \in Ids /\ call[u].n \in Nat
      BY <1>7, <2>3, CallTyped
    <3>2. Popping(call[u])
      BY <2>3 DEF Between
    <3>3. call[u].n <= Fill(head'[call[u].id], tail[call[u].id])
      BY <1>2, <1>4, <1>5, <1>6, <3>1, <3>2 DEF Popping
    <3> QED
      BY <1>1, <2>3, <3>1, <3>2, <3>3 DEF Popping
  <2> QED
    BY <1>7, <2>1, <2>2, <2>3
<1> QED
  BY <1>8 DEF Between

(* One more byte read is the next one that lies there.                     *)
LEMMA PopByteBetween ==
    ASSUME Entered, Between, NEW t \in Tasks, PopByte(t)
    PROVE  Between'
<1> DEFINE id == call[t].id
           b  == buf[id][(call[t].from + call[t].i) % RING_SIZE]
           d  == Append(call[t].data, b)
           c  == [call[t] EXCEPT !.i = @ + 1, !.data = Append(@, b)]
<1>1. /\ TypeOK /\ call[t].op = "pop" /\ call[t].op # "idle"
      /\ tail' = tail /\ buf' = buf /\ head' = head
      /\ call' = [call EXCEPT ![t] = c]
  <2>1. TypeOK
    BY DEF Entered
  <2>2. call' = [call EXCEPT ![t] = c]
    BY <2>1 DEF PopByte, TypeOK
  <2> HIDE DEF c
  <2> QED
    BY <2>1, <2>2 DEF PopByte, ring
<1>2. /\ id \in Ids /\ call[t].i \in Nat /\ call[t] \in Calls /\ call[t].data \in Seq(Byte)
  BY <1>1, CallTyped
<1>3. Popping(call[t])
  BY <1>1 DEF Between
<1>4. /\ Len(d) = call[t].i + 1 /\ d[call[t].i + 1] = b
      /\ \A k \in 0 .. call[t].i - 1 : d[k + 1] = call[t].data[k + 1]
  BY <1>2, <1>3 DEF Popping
<1>5. /\ c.op = "pop" /\ c.id = id /\ c.from = call[t].from
      /\ c.n = call[t].n /\ c.i = call[t].i + 1 /\ c.data = d
  BY <1>1, <1>2 DEF Calls
<1> HIDE DEF c, d
<1>6. call'[t] = c /\ \A u \in Tasks : u # t => call'[u] = call[u]
  BY <1>1, <1>2 DEF TypeOK
<1>7. \A k \in 0 .. call[t].i : d[k + 1] = buf[id][(call[t].from + k) % RING_SIZE]
  <2> TAKE k \in 0 .. call[t].i
  <2>1. CASE k = call[t].i
    BY <1>4, <2>1
  <2>2. CASE k # call[t].i
    BY <1>2, <1>3, <1>4, <2>2 DEF Popping
  <2> QED
    BY <2>1, <2>2
<1>8. Popping(c)
  <2>1. c.from = tail[c.id] /\ c.n <= Fill(head[c.id], tail[c.id])
    BY <1>3, <1>5 DEF Popping
  <2>2. \A k \in 0 .. c.i - 1 : c.data[k + 1] = buf[c.id][(c.from + k) % RING_SIZE]
    BY <1>2, <1>5, <1>7
  <2> QED
    BY <1>4, <1>5, <2>1, <2>2 DEF Popping
<1>9. ASSUME NEW u \in Tasks
      PROVE  (/\ call[u].op = "push" => Pushing(call[u])
              /\ call[u].op = "pop" => Popping(call[u]))'
  <2>1. CASE u = t
    BY <1>1, <1>5, <1>6, <1>8, <2>1 DEF Popping
  <2>2. CASE u # t
    BY <1>1, <1>6, <2>2 DEF Between, Pushing, Popping
  <2> QED
    BY <2>1, <2>2
<1> QED
  BY <1>9 DEF Between

(* The tail that is published leaves the room that is being filled.        *)
LEMMA PopEndBetween ==
    ASSUME Entered, Between, OnePair, NEW t \in Tasks, PopEnd(t)
    PROVE  Between'
<1> DEFINE id == call[t].id
           tl == (call[t].from + call[t].n) % WORD
<1>1. /\ TypeOK /\ call[t].op = "pop" /\ call[t].op # "idle"
      /\ head' = head /\ buf' = buf /\ tail' = [tail EXCEPT ![id] = tl]
      /\ call' = [call EXCEPT ![t] = Idle]
  BY DEF PopEnd, Entered
<1>2. id \in Ids /\ call[t].n \in Nat
  BY <1>1, CallTyped
<1>3. call[t].from = tail[id] /\ call[t].n <= Fill(head[id], tail[id])
  BY <1>1 DEF Between, Popping
<1>4. /\ head[id] \in Int /\ tail[id] \in Int
      /\ Fill(head[id], tail[id]) \in 0 .. RING_SIZE - 1 /\ RING_SIZE \in Nat \ {0}
  BY <1>1, <1>2, IndexInt
<1>5. Fill(head[id], tl) = Fill(head[id], tail[id]) - call[t].n
  <2>1. call[t].n \in 0 .. Fill(head[id], tail[id])
    BY <1>2, <1>3, <1>4
  <2> QED
    BY <1>3, <1>4, <2>1, FillPop
<1> HIDE DEF id, tl
<1>6. tail'[id] = tl /\ \A j \in Ids : j # id => tail'[j] = tail[j]
  BY <1>1, <1>2 DEF TypeOK
<1>7. call'[t] = Idle /\ \A u \in Tasks : u # t => call'[u] = call[u]
  BY <1>1 DEF TypeOK
<1>8. ASSUME NEW u \in Tasks
      PROVE  (/\ call[u].op = "push" => Pushing(call[u])
              /\ call[u].op = "pop" => Popping(call[u]))'
  <2>1. CASE u = t
    BY <1>7, <2>1 DEF Idle
  <2>2. CASE u # t /\ call[u].op = "pop"
    <3>1. call'[u] = call[u] /\ call[u].id # id /\ call[u].id \in Ids
      BY <1>1, <1>7, <2>2, OtherSide, CallTyped DEF id
    <3> QED
      BY <1>1, <1>6, <2>2, <3>1 DEF Between, Popping
  <2>3. CASE u # t /\ call[u].op = "push"
    <3>1. call'[u] = call[u] /\ call[u].id \in Ids /\ call[u].n \in Nat
      BY <1>7, <2>3, CallTyped
    <3>2. Pushing(call[u])
      BY <2>3 DEF Between
    <3>3. call[u].n <= Free(head[call[u].id], tail'[call[u].id])
      BY <1>2, <1>4, <1>5, <1>6, <3>1, <3>2 DEF Pushing, Free
    <3> QED
      BY <1>1, <2>3, <3>1, <3>2, <3>3 DEF Pushing
  <2> QED
    BY <1>7, <2>1, <2>2, <2>3
<1> QED
  BY <1>8 DEF Between

LEMMA BetweenStep == Entered /\ Between /\ OnePair /\ [Next]_vars => Between'
<1> SUFFICES ASSUME Entered, Between, OnePair, [Next]_vars PROVE Between'
  OBVIOUS
<1>0. TypeOK
  BY DEF Entered
<1>1. ASSUME NEW t \in Tasks, create_channel(t) PROVE Between'
  BY <1>1 DEF create_channel, NobodyInside, Idle, Between
<1>2. ASSUME NEW g \in Grants, NEW id \in Ids, grant(g[1], id, g[2]) PROVE Between'
  BY <1>2 DEF grant, NobodyInside, Idle, Between
<1>3. ASSUME NEW t \in Tasks, NEW c \in Calls, call' = [call EXCEPT ![t] = c], UNCHANGED ring,
             c.op = "push" => Pushing(c), c.op = "pop" => Popping(c)
      PROVE  Between'
  <2>1. call'[t] = c /\ \A u \in Tasks : u # t => call'[u] = call[u]
    BY <1>0, <1>3 DEF TypeOK
  <2> QED
    BY <1>3, <2>1 DEF Between, Pushing, Popping, ring
<1>4. ASSUME NEW t \in Senders, NEW id \in Ids, NEW msg \in Messages, send(t, id, msg)
      PROVE  Between'
  <2> DEFINE n == Smaller(Len(msg), Free(head[id], tail[id]))
             c == Call("push", id, head[id], n, SubSeq(msg, 1, n))
  <2>1. c \in Calls /\ c.op = "push" /\ Pushing(c)
    <3>1. /\ c \in Calls /\ c.op = "push" /\ c.id = id /\ c.i = 0
          /\ c.from = head[id] /\ c.n = n /\ n <= Free(head[id], tail[id])
      BY <1>0, PushMade
    <3> HIDE DEF c
    <3> QED
      BY <3>1 DEF Pushing
  <2>2. call' = [call EXCEPT ![t] = c] /\ UNCHANGED ring /\ t \in Tasks
    BY <1>4, IpcAssumption DEF send
  <2> HIDE DEF c
  <2> QED
    BY <1>3, <2>1, <2>2
<1>5. ASSUME NEW t \in Receivers, NEW id \in Ids, NEW len \in BufLens, recv(t, id, len)
      PROVE  Between'
  <2> DEFINE n == Smaller(len, Fill(head[id], tail[id]))
             c == Call("pop", id, tail[id], n, << >>)
  <2>1. c \in Calls /\ c.op = "pop" /\ Popping(c)
    <3>1. /\ c \in Calls /\ c.op = "pop" /\ c.id = id /\ c.i = 0
          /\ c.from = tail[id] /\ c.n = n /\ n <= Fill(head[id], tail[id]) /\ c.data = << >>
      BY <1>0, PopMade
    <3> HIDE DEF c
    <3> QED
      BY <3>1 DEF Popping
  <2>2. call' = [call EXCEPT ![t] = c] /\ UNCHANGED ring /\ t \in Tasks
    BY <1>5, IpcAssumption DEF recv
  <2> HIDE DEF c
  <2> QED
    BY <1>3, <2>1, <2>2
<1>6. CASE UNCHANGED vars
  BY <1>6 DEF vars, Between, Pushing, Popping
<1> QED
  BY <1>1, <1>2, <1>4, <1>5, <1>6, PushByteBetween, PushEndBetween, PopByteBetween, PopEndBetween
     DEF Next

(* SlotsApart, for any ring and word: while one task sends and one receives *)
(* at a time, the slots written are never those to be read (mod.rs:35-60).  *)
THEOREM RingShared == Spec /\ []OnePair => []SlotsApart
<1>1. Entered /\ Between => SlotsApart
  <2> SUFFICES ASSUME Entered, Between, NEW t \in Tasks, call[t].op = "push",
                      call[t].i < call[t].n,
                      NEW k \in 0 .. Fill(head[call[t].id], tail[call[t].id]) - 1
               PROVE  (call[t].from + call[t].i) % RING_SIZE # (tail[call[t].id] + k) % RING_SIZE
    BY DEF SlotsApart, Unread, Entered
  <2> DEFINE id == call[t].id
  <2>1. TypeOK /\ id \in Ids /\ call[t].i \in Nat /\ call[t].n \in Nat
    BY CallTyped DEF Entered
  <2>2. call[t].from = head[id] /\ call[t].n <= Free(head[id], tail[id])
    BY DEF Between, Pushing
  <2>3. /\ head[id] \in Int /\ tail[id] \in Int
        /\ Fill(head[id], tail[id]) \in 0 .. RING_SIZE - 1 /\ RING_SIZE \in Nat \ {0}
    BY <2>1, IndexInt
  <2> HIDE DEF id
  <2>4. call[t].i \in 0 .. Free(head[id], tail[id]) - 1
    BY <2>1, <2>2, <2>3 DEF Free
  <2> QED
    BY <2>2, <2>3, <2>4, SlotFree DEF id
<1> QED
  BY <1>1, EnteredInit, EnteredStep, BetweenInit, BetweenStep, PTL DEF Spec

-----------------------------------------------------------------------------
(* The channel First as a FIFO.                                            *)

Size    == Fill(head[First], tail[First])
Slot(k) == (tail[First] + k - 1) % RING_SIZE        \* of the k-th byte that waits
Waiting == [k \in 1 .. Size |-> buf[First][Slot(k)]]

LEMMA FirstInts ==
    ASSUME TypeOK
    PROVE  /\ First \in Ids /\ head[First] \in Int /\ tail[First] \in Int
           /\ Size \in 0 .. RING_SIZE - 1 /\ RING_SIZE \in Nat \ {0} /\ WORD \in Nat \ {0}
<1>1. First \in Ids
  BY IpcAssumption DEF Ids
<1> QED
  BY <1>1, IndexInt DEF Size

LEMMA WaitingTyped ==
    ASSUME TypeOK
    PROVE  /\ Waiting \in Seq(Byte) /\ Len(Waiting) = Size
           /\ \A k \in 1 .. Size : Waiting[k] = buf[First][Slot(k)] /\ Slot(k) \in Slots
<1>1. Size \in Nat /\ First \in Ids /\ tail[First] \in Int
  BY FirstInts
<1>2. \A k \in 1 .. Size : Slot(k) \in Slots
  <2> TAKE k \in 1 .. Size
  <2>1. tail[First] + k - 1 \in Int
    BY <1>1
  <2> QED
    BY <2>1, SlotIn DEF Slot
<1>3. \A k \in 1 .. Size : buf[First][Slot(k)] \in Byte
  BY <1>1, <1>2 DEF TypeOK
<1>4. Waiting \in [1 .. Size -> Byte]
  BY <1>3 DEF Waiting
<1> QED
  BY <1>1, <1>2, <1>4 DEF Waiting

LEMMA FifoInit == Init => Fifo!Init
<1> SUFFICES ASSUME Init PROVE Fifo!Init
  OBVIOUS
<1>1. First \in Ids /\ RING_SIZE \in Nat \ {0}
  BY IpcAssumption DEF Ids
<1>2. head[First] = 0 /\ tail[First] = 0 /\ given[First] = << >> /\ taken[First] = << >>
  BY <1>1 DEF Init
<1>3. Size = 0
  <2>1. 0 \in 0 .. RING_SIZE - 1 /\ 0 - 0 = 0
    BY <1>1
  <2>2. 0 % RING_SIZE = 0
    BY <1>1, <2>1, ModSmall
  <2> QED
    BY <1>2, <2>1, <2>2 DEF Size, Fill
<1>4. Waiting = << >>
  <2>1. Waiting = [k \in 1 .. 0 |-> buf[First][Slot(k)]]
    BY <1>3 DEF Waiting
  <2>2. 1 .. 0 = {}
    OBVIOUS
  <2> QED
    BY <2>1, <2>2
<1> QED
  BY <1>2, <1>4 DEF Fifo!Init, Waiting, Size, Slot

(* What waits changes only as the indices and the slots between them do.   *)
LEMMA WaitingKept ==
    ASSUME UNCHANGED <<head[First], tail[First], given[First], taken[First]>>,
           \A k \in 1 .. Size : buf'[First][Slot(k)] = buf[First][Slot(k)]
    PROVE  UNCHANGED Fifo!vars
<1>1. Size' = Size /\ \A k : Slot(k)' = Slot(k)
  BY DEF Size, Slot
<1>2. Waiting' = Waiting
  BY <1>1 DEF Waiting
<1> QED
  BY <1>2 DEF Fifo!vars, Waiting, Size, Slot

LEMMA Joined ==
    ASSUME NEW S, NEW s \in Seq(S), NEW r \in Seq(S)
    PROVE  s \o r = [k \in 1 .. Len(s) + Len(r) |-> IF k <= Len(s) THEN s[k] ELSE r[k - Len(s)]]
<1> DEFINE j == s \o r
<1>1. /\ j \in Seq(S) /\ Len(j) = Len(s) + Len(r)
      /\ \A k \in 1 .. Len(s) + Len(r) : j[k] = IF k <= Len(s) THEN s[k] ELSE r[k - Len(s)]
  BY ConcatProperties
<1> HIDE DEF j
<1>2. j = [k \in 1 .. Len(s) + Len(r) |-> j[k]]
  BY <1>1
<1> QED
  BY <1>1, <1>2 DEF j

LEMMA FifoPush ==
    ASSUME Entered, Between, OnePair, NEW t \in Tasks, PushEnd(t), call[t].id = First
    PROVE  Fifo!Next
<1> DEFINE n == call[t].n
           d == call[t].data
           h == (call[t].from + n) % WORD
<1>1. /\ TypeOK /\ call[t].op = "push" /\ call[t].op # "idle" /\ call[t].i = n
      /\ tail' = tail /\ buf' = buf /\ taken' = taken
      /\ head' = [head EXCEPT ![First] = h]
      /\ given' = [given EXCEPT ![First] = d]
  BY DEF PushEnd, Entered
<1>2. /\ n \in Nat /\ d \in Seq(Byte) /\ Len(d) = n
  BY <1>1, CallTyped DEF Inside
<1>3. /\ call[t].from = head[First] /\ n <= Free(head[First], tail[First])
      /\ \A k \in 0 .. n - 1 : buf[First][(head[First] + k) % RING_SIZE] = d[k + 1]
  BY <1>1 DEF Between, Pushing
<1>4. /\ First \in Ids /\ head[First] \in Int /\ tail[First] \in Int
      /\ Size \in 0 .. RING_SIZE - 1 /\ RING_SIZE \in Nat \ {0}
  BY <1>1, FirstInts
<1>5. Fill(h, tail[First]) = Size + n
  <2>1. n \in 0 .. Free(head[First], tail[First])
    BY <1>2, <1>3, <1>4 DEF Free, Size
  <2> QED
    BY <1>3, <1>4, <2>1, FillPush DEF Size
<1>6. Size + n <= RING_SIZE - 1
  BY <1>2, <1>3, <1>4 DEF Free, Size
<1> HIDE DEF n, d, h
<1>7. head'[First] = h /\ given'[First] = d
  BY <1>1, <1>4 DEF TypeOK
<1>8. Size' = Size + n /\ \A k : Slot(k)' = Slot(k)
  BY <1>1, <1>5, <1>7 DEF Size, Slot
<1>9. \A k \in 1 .. n : buf[First][Slot(Size + k)] = d[k]
  <2> TAKE k \in 1 .. n
  <2>1. k - 1 \in 0 .. n - 1 /\ k - 1 \in Int /\ (k - 1) + 1 = k
    BY <1>2
  <2>2. (head[First] + (k - 1)) % RING_SIZE = (tail[First] + (Size + (k - 1))) % RING_SIZE
    BY <1>4, <2>1, HeadSlots DEF Size
  <2>3. tail[First] + (Size + k) - 1 = tail[First] + (Size + (k - 1))
    BY <1>4, <2>1
  <2>4. Slot(Size + k) = (head[First] + (k - 1)) % RING_SIZE
    BY <2>2, <2>3 DEF Slot
  <2>5. buf[First][(head[First] + (k - 1)) % RING_SIZE] = d[(k - 1) + 1]
    BY <1>3, <2>1
  <2> QED
    BY <2>1, <2>4, <2>5
<1>10. Waiting' = [k \in 1 .. Size + n |-> buf[First][Slot(k)]]
  BY <1>1, <1>8 DEF Waiting
<1>11. Waiting' = Waiting \o d
  <2>1. Waiting \in Seq(Byte) /\ Len(Waiting) = Size
    BY <1>1, WaitingTyped
  <2>2. Waiting \o d = [k \in 1 .. Size + n |-> IF k <= Size THEN Waiting[k] ELSE d[k - Size]]
    <3>1. Waiting \o d = [k \in 1 .. Len(Waiting) + Len(d) |->
                             IF k <= Len(Waiting) THEN Waiting[k] ELSE d[k - Len(Waiting)]]
      BY <1>2, <2>1, Joined
    <3> QED
      BY <1>2, <2>1, <3>1, Zenon
  <2>3. ASSUME NEW k \in 1 .. Size + n
        PROVE  buf[First][Slot(k)] = IF k <= Size THEN Waiting[k] ELSE d[k - Size]
    <3>1. CASE k <= Size
      BY <1>4, <3>1 DEF Waiting
    <3>2. CASE ~(k <= Size)
      <4>1. k - Size \in 1 .. n /\ Size + (k - Size) = k
        BY <1>2, <1>4, <3>2
      <4> QED
        BY <1>9, <3>2, <4>1
    <3> QED
      BY <3>1, <3>2
  <2> QED
    BY <1>10, <2>2, <2>3
<1>12. d \in Fifo!Strings
  <2>1. n \in 0 .. RING_SIZE - 1 /\ d \in [1 .. n -> Byte]
    BY <1>2, <1>4, <1>6
  <2> QED
    BY <2>1 DEF Fifo!Strings
<1>13. Len(Waiting) + Len(d) <= RING_SIZE - 1
  BY <1>1, <1>2, <1>6, WaitingTyped
<1>14. UNCHANGED taken[First]
  BY <1>1
<1> QED
  BY <1>7, <1>11, <1>12, <1>13, <1>14 DEF Fifo!Next, Fifo!Put, Waiting, Size, Slot

LEMMA FifoPop ==
    ASSUME Entered, Between, OnePair, NEW t \in Tasks, PopEnd(t), call[t].id = First
    PROVE  Fifo!Next
<1> DEFINE n  == call[t].n
           d  == call[t].data
           tl == (call[t].from + n) % WORD
<1>1. /\ TypeOK /\ call[t].op = "pop" /\ call[t].op # "idle" /\ call[t].i = n
      /\ head' = head /\ buf' = buf /\ given' = given
      /\ tail' = [tail EXCEPT ![First] = tl]
      /\ taken' = [taken EXCEPT ![First] = d]
  BY DEF PopEnd, Entered
<1>2. n \in Nat /\ d \in Seq(Byte)
  BY <1>1, CallTyped
<1>3. /\ call[t].from = tail[First] /\ n <= Size /\ Len(d) = n
      /\ \A k \in 0 .. n - 1 : d[k + 1] = buf[First][(tail[First] + k) % RING_SIZE]
  BY <1>1 DEF Between, Popping, Size
<1>4. /\ First \in Ids /\ head[First] \in Int /\ tail[First] \in Int
      /\ Size \in 0 .. RING_SIZE - 1 /\ RING_SIZE \in Nat \ {0}
  BY <1>1, FirstInts
<1>5. Fill(head[First], tl) = Size - n
  <2>1. n \in 0 .. Fill(head[First], tail[First])
    BY <1>2, <1>3, <1>4 DEF Size
  <2> QED
    BY <1>3, <1>4, <2>1, FillPop DEF Size
<1>6. \A k \in 1 .. Size - n : (tl + k - 1) % RING_SIZE = Slot(n + k)
  <2> TAKE k \in 1 .. Size - n
  <2>1. k - 1 \in Int /\ tail[First] + n \in Int
    BY <1>2, <1>4
  <2>2. (((tail[First] + n) % WORD) + (k - 1)) % RING_SIZE
        = ((tail[First] + n) + (k - 1)) % RING_SIZE
    BY <2>1, SlotsOn
  <2>3. /\ (tail[First] + n) + (k - 1) = tail[First] + (n + k) - 1
        /\ ((tail[First] + n) % WORD) + (k - 1) = ((tail[First] + n) % WORD) + k - 1
    <3>1. (tail[First] + n) % WORD \in Int
      <4>1. (tail[First] + n) % WORD \in 0 .. WORD - 1 /\ WORD \in Nat
        BY <1>1, <2>1, IndexIn, FirstInts DEF Index
      <4> QED
        BY <4>1
    <3> DEFINE w == (tail[First] + n) % WORD
    <3>2. w \in Int
      BY <3>1
    <3> HIDE DEF w
    <3>3. w + (k - 1) = w + k - 1
      BY <3>2
    <3>4. (tail[First] + n) + (k - 1) = tail[First] + (n + k) - 1
      BY <1>2, <1>4
    <3> QED
      BY <3>3, <3>4 DEF w
  <2> QED
    BY <1>3, <2>2, <2>3 DEF Slot
<1> HIDE DEF n, d, tl
<1>7. tail'[First] = tl /\ taken'[First] = d
  BY <1>1, <1>4 DEF TypeOK
<1>8. Size' = Size - n
  BY <1>1, <1>5, <1>7 DEF Size
<1>9. Waiting' = [k \in 1 .. Size - n |-> buf[First][Slot(n + k)]]
  <2>1. Waiting' = [k \in 1 .. Size - n |-> buf[First][(tl + k - 1) % RING_SIZE]]
    BY <1>1, <1>7, <1>8 DEF Waiting, Slot
  <2> QED
    BY <1>6, <2>1
<1>10. Waiting \in Seq(Byte) /\ Len(Waiting) = Size
  BY <1>1, WaitingTyped
<1>11. Waiting' = SubSeq(Waiting, n + 1, Len(Waiting))
  <2>1. SubSeq(Waiting, n + 1, Size) = [k \in 1 .. Size - n |-> Waiting[n + k]]
    BY <1>2, <1>3, <1>4, <1>10
  <2>2. \A k \in 1 .. Size - n : n + k \in 1 .. Size /\ Waiting[n + k] = buf[First][Slot(n + k)]
    BY <1>2, <1>4 DEF Waiting
  <2> QED
    BY <1>9, <1>10, <2>1, <2>2
<1>12. d = SubSeq(Waiting, 1, n)
  <2>1. \A k \in 1 .. n : d[k] = Waiting[k]
    <3> TAKE k \in 1 .. n
    <3>1. k - 1 \in 0 .. n - 1 /\ (k - 1) + 1 = k /\ k \in 1 .. Size
          /\ tail[First] + (k - 1) = tail[First] + k - 1
      BY <1>2, <1>3, <1>4
    <3>2. d[(k - 1) + 1] = buf[First][(tail[First] + (k - 1)) % RING_SIZE]
      BY <1>3, <3>1
    <3> QED
      BY <3>1, <3>2 DEF Waiting, Slot
  <2>2. SubSeq(Waiting, 1, n) = [k \in 1 .. n |-> Waiting[k]]
    BY <1>2, <1>3, <1>4, <1>10
  <2>3. d = [k \in 1 .. n |-> d[k]]
    BY <1>2, <1>3
  <2> QED
    BY <2>1, <2>2, <2>3
<1>13. n \in 0 .. Len(Waiting)
  BY <1>2, <1>3, <1>4, <1>10
<1>14. UNCHANGED given[First]
  BY <1>1
<1> QED
  BY <1>7, <1>11, <1>12, <1>13, <1>14 DEF Fifo!Next, Fifo!Get, Waiting, Size, Slot

LEMMA FifoStep ==
    Entered /\ Between /\ OnePair /\ [Next]_vars => [Fifo!Next]_(Fifo!vars)
<1> SUFFICES ASSUME Entered, Between, OnePair, [Next]_vars, ~UNCHANGED Fifo!vars
             PROVE  Fifo!Next
  OBVIOUS
<1>0. TypeOK /\ First \in Ids
  BY FirstInts DEF Entered
<1>1. ASSUME UNCHANGED <<ring, given, taken>> PROVE FALSE
  BY <1>1, WaitingKept DEF ring
<1>2. ASSUME NEW t \in Tasks, PushByte(t) PROVE FALSE
  <2> DEFINE id == call[t].id
             x  == (call[t].from + call[t].i) % RING_SIZE
  <2>1. /\ call[t].op = "push" /\ call[t].op # "idle" /\ call[t].i < call[t].n
        /\ UNCHANGED <<head, tail, given, taken>>
        /\ buf' = [buf EXCEPT ![id][x] = call[t].data[call[t].i + 1]]
    BY <1>2 DEF PushByte
  <2>2. id \in Ids /\ call[t].i \in Nat /\ call[t].n \in Nat
    BY <2>1, CallTyped
  <2>3. /\ call[t].from = head[id] /\ call[t].n <= Free(head[id], tail[id])
    BY <2>1 DEF Between, Pushing
  <2>4. /\ head[id] \in Int /\ tail[id] \in Int
        /\ Fill(head[id], tail[id]) \in 0 .. RING_SIZE - 1 /\ RING_SIZE \in Nat \ {0}
    BY <1>0, <2>2, IndexInt
  <2>5. call[t].i \in 0 .. Free(head[id], tail[id]) - 1
    BY <2>1, <2>2, <2>3, <2>4 DEF Free
  <2>6. x = (head[id] + call[t].i) % RING_SIZE
    BY <2>3
  <2> HIDE DEF id, x
  <2>7. ASSUME NEW k \in 1 .. Size PROVE buf'[First][Slot(k)] = buf[First][Slot(k)]
    <3>1. CASE id = First
      <4>1. k - 1 \in 0 .. Fill(head[id], tail[id]) - 1 /\ tail[id] + (k - 1) = tail[id] + k - 1
        BY <2>4, <3>1 DEF Size
      <4>2. x # (tail[id] + (k - 1)) % RING_SIZE
        BY <2>4, <2>5, <2>6, <4>1, SlotFree
      <4>3. x # Slot(k)
        BY <3>1, <4>1, <4>2 DEF Slot
      <4> QED
        BY <1>0, <2>1, <4>3 DEF TypeOK
    <3>2. CASE id # First
      BY <1>0, <2>1, <3>2 DEF TypeOK
    <3> QED
      BY <3>1, <3>2
  <2> QED
    BY <2>1, <2>7, WaitingKept
<1>3. ASSUME NEW t \in Tasks, PushEnd(t) PROVE Fifo!Next
  <2>1. CASE call[t].id = First
    BY <1>3, <2>1, FifoPush
  <2>2. CASE call[t].id # First
    <3>1. /\ UNCHANGED <<tail, buf, taken>>
          /\ head'[First] = head[First] /\ given'[First] = given[First]
      BY <1>0, <1>3, <2>2 DEF PushEnd, TypeOK
    <3> QED
      BY <3>1, WaitingKept
  <2> QED
    BY <2>1, <2>2
<1>4. ASSUME NEW t \in Tasks, PopEnd(t) PROVE Fifo!Next
  <2>1. CASE call[t].id = First
    BY <1>4, <2>1, FifoPop
  <2>2. CASE call[t].id # First
    <3>1. /\ UNCHANGED <<head, buf, given>>
          /\ tail'[First] = tail[First] /\ taken'[First] = taken[First]
      BY <1>0, <1>4, <2>2 DEF PopEnd, TypeOK
    <3> QED
      BY <3>1, WaitingKept
  <2> QED
    BY <2>1, <2>2
<1>5. ASSUME NEW t \in Tasks, create_channel(t) \/ PopByte(t) PROVE FALSE
  BY <1>1, <1>5 DEF create_channel, PopByte
<1>6. ASSUME NEW g \in Grants, NEW id \in Ids, grant(g[1], id, g[2]) PROVE FALSE
  BY <1>1, <1>6 DEF grant
<1>7. ASSUME NEW t \in Senders, NEW id \in Ids, NEW msg \in Messages, send(t, id, msg)
      PROVE  FALSE
  BY <1>1, <1>7 DEF send
<1>8. ASSUME NEW t \in Receivers, NEW id \in Ids, NEW len \in BufLens, recv(t, id, len)
      PROVE  FALSE
  BY <1>1, <1>8 DEF recv
<1>9. CASE UNCHANGED vars
  BY <1>1, <1>9 DEF vars, ring
<1> QED
  BY <1>2, <1>3, <1>4, <1>5, <1>6, <1>7, <1>8, <1>9 DEF Next

(* IsFifo, for any ring, word and channel: what a receiver gets is what its *)
(* sender gave, in order, once and unchanged, wherever both are preempted.  *)
(* The only thing asked is what nothing in the ring sees to: that no two    *)
(* tasks push into one ring at a time, or pop from it (mod.rs:12).          *)
THEOREM ChannelIsFifo == Spec /\ []OnePair => IsFifo
<1> QED
  BY EnteredInit, EnteredStep, BetweenInit, BetweenStep, FifoInit, FifoStep, PTL
     DEF Spec, IsFifo, Fifo!Spec
=============================================================================
