------------------------------ MODULE VfsProofs ------------------------------
(***************************************************************************)
(* Theorems about who owns and who changes a file, for any tasks, users,   *)
(* paths and contents.                                                     *)
(***************************************************************************)
EXTENDS Vfs, SequenceTheorems, WellFoundedInduction, TLAPS

(* What a write found out in its check is true until it acts: the file it   *)
(* saw is there, and the task has its owner's uid.                          *)
Granted(t, p) ==
    call[t].op = "put" /\ call[t].path = p /\ call[t].saw =>
        file[p].there /\ user[t].uid = file[p].owner.uid

Shape == /\ file = [p \in Paths |-> file[p]]
         /\ user = [t \in Tasks |-> user[t]]
         /\ call = [t \in Tasks |-> call[t]]

IInv == Shape /\ \A t \in Tasks, p \in Paths : Granted(t, p)

(* Only the owner's class has the write bit (tmpfs.rs:59, vfs.rs:146-151).  *)
LEMMA WriterIsOwner ==
    ASSUME NEW owner, NEW who, check_permission(owner, who, {"w"})
    PROVE  who.uid = owner.uid
  BY DEF check_permission, Class, Mode

(* A file that is there stays there and keeps its owner.                    *)
OwnersKept == \A p \in Paths : file[p].there =>
                  file'[p].there /\ file'[p].owner = file[p].owner

LEMMA WriteKeepsOwners ==
    ASSUME Shape, NEW path, NEW data, NEW who, write_owned(path, data, who)
    PROVE  OwnersKept /\ file' = [p \in Paths |-> file'[p]]
  BY DEF Shape, write_owned, File, OwnersKept

LEMMA InitShape == Init => IInv
<1> SUFFICES ASSUME Init PROVE IInv
  OBVIOUS
<1>1. Shape
  BY VfsAssumption DEF Init, Shape
<1>2. \A t \in Tasks, p \in Paths : Granted(t, p)
  BY DEF Init, Granted, Idle
<1> QED
  BY <1>1, <1>2 DEF IInv

(* No other call touches a file or makes a write ready to act.              *)
LEMMA StepKeeps == IInv /\ [Next]_vars => IInv' /\ OwnersKept
<1> SUFFICES ASSUME IInv, [Next]_vars PROVE IInv' /\ OwnersKept
  OBVIOUS
<1> USE DEF IInv
<1>1. ASSUME UNCHANGED <<user, file, call>> PROVE IInv' /\ OwnersKept
  BY <1>1 DEF Shape, Granted, OwnersKept
<1>2. ASSUME NEW t \in Tasks, NEW path, NEW data, NEW k, NEW off,
             Check(t, path, data, k, off), UNCHANGED <<user, file>>
      PROVE  IInv' /\ OwnersKept
  <2>1. call' = [s \in Tasks |-> call'[s]] /\ \A s \in Tasks : s # t => call'[s] = call[s]
    BY <1>2 DEF Check, Shape
  <2>2. ASSUME NEW p \in Paths PROVE Granted(t, p)'
    <3> SUFFICES ASSUME path = p, file[p].there
                 PROVE  user[t].uid = file[p].owner.uid
      BY <1>2 DEF Check, Shape, Granted
    <3> QED
      BY <1>2, WriterIsOwner DEF Check
  <2> QED
    BY <1>2, <2>1, <2>2 DEF Shape, Granted, OwnersKept
<1>3. ASSUME NEW t \in Tasks, call'[t].op # "put", UNCHANGED <<user, file>>,
             NEW c, call' = [call EXCEPT ![t] = c]
      PROVE  IInv' /\ OwnersKept
  BY <1>3 DEF Shape, Granted, OwnersKept
<1>4. ASSUME NEW t \in Tasks, Put(t) PROVE IInv' /\ OwnersKept
  <2>1. OwnersKept /\ file' = [p \in Paths |-> file'[p]]
    BY <1>4, WriteKeepsOwners DEF Put
  <2>2. /\ call' = [s \in Tasks |-> call'[s]] /\ user' = user
        /\ call'[t].op = "idle" /\ \A s \in Tasks : s # t => call'[s] = call[s]
    BY <1>4 DEF Put, Shape, Idle
  <2> QED
    BY <2>1, <2>2 DEF Shape, Granted, OwnersKept
<1>5. ASSUME NEW t \in Tasks, NEW u, set_identity(t, u) PROVE IInv' /\ OwnersKept
  BY <1>5 DEF set_identity, Idle, Shape, Granted, OwnersKept
<1>6. ASSUME NEW t \in Tasks, NEW p, NEW chunk, write(t, p, chunk)
      PROVE  IInv' /\ OwnersKept
  BY <1>2, <1>6 DEF write
<1>7. ASSUME NEW t \in Tasks, WriteMerged(t) PROVE IInv' /\ OwnersKept
  <2>1. CASE Check(t, call[t].path, call[t].data, call[t].k, call[t].end)
    BY <1>2, <1>7, <2>1 DEF WriteMerged
  <2>2. CASE call' = [call EXCEPT ![t] = Idle]
    BY <1>3, <1>7, <2>2 DEF WriteMerged, Shape, Idle
  <2> QED
    BY <1>7, <2>1, <2>2 DEF WriteMerged
<1>8. ASSUME NEW t \in Tasks, NEW k, NEW chunk, write_fd(t, k, chunk)
      PROVE  IInv' /\ OwnersKept
  BY <1>3, <1>8 DEF write_fd, Shape
<1>9. ASSUME NEW t \in Tasks, NEW p, NEW flags, open(t, p, flags)
      PROVE  UNCHANGED <<user, file, call>>
  BY <1>9 DEF open
<1>10. ASSUME NEW t \in Tasks, NEW k, NEW len, close_fd(t, k) \/ read_fd(t, k, len)
       PROVE  UNCHANGED <<user, file, call>>
  BY <1>10 DEF close_fd, read_fd
<1>11. CASE UNCHANGED vars
  BY <1>1, <1>11 DEF vars
<1>12. CASE Next
  <2>1. ASSUME NEW t \in Tasks, NEW p \in Paths, NEW chunk \in Chunks, write(t, p, chunk)
        PROVE  IInv' /\ OwnersKept
    BY <1>6, <2>1
  <2>2. ASSUME NEW t \in Tasks, WriteMerged(t) \/ Put(t) PROVE IInv' /\ OwnersKept
    BY <1>4, <1>7, <2>2
  <2>3. ASSUME NEW t \in Shells,
               \/ \E u \in Users : set_identity(t, u)
               \/ \E k \in 1 .. MaxFd, chunk \in Chunks : write_fd(t, k, chunk)
        PROVE  IInv' /\ OwnersKept
    BY <1>5, <1>8, <2>3, VfsAssumption DEF VfsAssumption
  <2>4. ASSUME NEW t \in Shells,
               \/ \E p \in Paths, flags \in Flags : open(t, p, flags)
               \/ \E k \in 1 .. MaxFd : close_fd(t, k)
               \/ \E k \in 1 .. MaxFd, len \in BufLens : read_fd(t, k, len)
        PROVE  UNCHANGED <<user, file, call>>
    BY <1>9, <1>10, <2>4, VfsAssumption DEF VfsAssumption
  <2> QED
    BY <1>1, <1>12, <2>1, <2>2, <2>3, <2>4 DEF Next
<1> QED
  BY <1>11, <1>12
-----------------------------------------------------------------------------
(* tmpfs.rs:54-56: overwriting a file never changes whose it is, whichever  *)
(* writers found it missing and in whatever order they act.                 *)
THEOREM OwnersStay == Spec => OwnerForGood
<1>1. IInv /\ [Next]_vars => [\A p \in Paths : file[p].there =>
                                file'[p].owner = file[p].owner]_vars
  BY StepKeeps DEF OwnersKept
<1> QED
  BY <1>1, InitShape, StepKeeps, PTL DEF Spec, OwnerForGood

(* vfs.rs:193-199: a file a writer saw when it was checked is changed under *)
(* its owner's uid, by path and by descriptor.                              *)
THEOREM OverwritesChecked == Spec => OverwriteChecked
<1>1. IInv => [\A t \in Tasks, p \in Paths :
         Writer(t, p) /\ call[t].saw => user[t].uid = file[p].owner.uid]_vars
  BY DEF IInv, Granted, Writer
<1> QED
  BY <1>1, InitShape, StepKeeps, PTL DEF Spec, OverwriteChecked

-----------------------------------------------------------------------------
(* Descriptors.  The types below are the type invariant made inductive: an  *)
(* open descriptor names a file that is there, and a task inside write_fd   *)
(* still has the descriptor it wrote through.                               *)
Flagsets == SUBSET {"r", "w"}
Files == {NoFile} \cup [there : {TRUE}, data : Seq(Byte), owner : Users]
Fds   == {Free} \cup [open : {TRUE}, path : Paths, offset : Nat, flags : Flagsets]
Calls == {Idle}
    \cup [op : {"merged"}, path : Paths, k : Nat, data : Seq(Byte), end : Nat]
    \cup [op : {"put"}, path : Paths, k : Nat, data : Seq(Byte), end : Nat, saw : BOOLEAN]

Live(t, k) == fds[t][k].open => file[fds[t][k].path].there
Through(t) == call[t].op # "idle" /\ call[t].k # 0 => IsOpen(t, call[t].k)

Typed ==
    /\ user \in [Tasks -> Users] /\ file \in [Paths -> Files]
    /\ fds \in [Tasks -> Seq(Fds)] /\ call \in [Tasks -> Calls]
    /\ got \in Seq(Byte)

FInv ==
    /\ Typed
    /\ \A t \in Tasks : /\ Len(fds[t]) <= MaxFd /\ Through(t)
                        /\ \A k \in 1 .. Len(fds[t]) : Live(t, k)

(* What was found open is open still, on the same file with the same rights, *)
(* unless the task has closed it.                                            *)
FdsKept ==
    \A t \in Tasks : \A k \in 1 .. Len(fds[t]) :
        fds[t][k].open /\ fds'[t][k].open =>
            fds'[t][k].path = fds[t][k].path /\ fds'[t][k].flags = fds[t][k].flags

(* The result of a read is the stretch of the file behind the offset.       *)
LEMMA ReadStretch ==
    ASSUME NEW data \in Seq(Byte), NEW off \in Nat, NEW len \in Nat
    PROVE  LET r == AtOffset(data, off, len) IN
           /\ r \in Seq(Byte) /\ off + Len(r) \in Nat
           /\ off + Len(r) # off => r = SubSeq(data, off + 1, off + Len(r))
<1> DEFINE n     == Smaller(len, Len(data))
           start == Smaller(off, n)
           front == SubSeq(data, 1, n)
           r     == SubSeq(front, start + 1, n)
<1>1. /\ Len(data) \in Nat /\ n \in Nat /\ start \in Nat
      /\ n <= Len(data) /\ start <= n /\ start <= off /\ (start < n => start = off)
  BY LenProperties DEF Smaller
<1>2. AtOffset(data, off, len) = r
  BY DEF AtOffset
<1> HIDE DEF n, start
<1>3. \A i \in 1 .. n : data[i] \in Byte
  BY <1>1, ElementOfSeq
<1>4. /\ front \in Seq(Byte) /\ Len(front) = n
      /\ \A i \in 1 .. n : front[i] = data[i]
  BY <1>1, <1>3, SubSeqProperties
<1> HIDE DEF front
<1>5. /\ r \in Seq(Byte) /\ Len(r) = n - start
      /\ \A i \in 1 .. n - start : r[i] = front[start + i]
  BY <1>1, <1>4, SubSeqProperties, ElementOfSeq
<1> HIDE DEF r
<1>6. ASSUME off + Len(r) # off PROVE r = SubSeq(data, off + 1, off + Len(r))
  <2>1. start = off /\ off + Len(r) = n
    BY <1>1, <1>5, <1>6
  <2> DEFINE s == SubSeq(data, off + 1, n)
  <2>2. /\ s \in Seq(Byte) /\ Len(s) = n - off
        /\ \A i \in 1 .. n - off : s[i] = data[off + i]
    BY <1>1, <1>3, <2>1, SubSeqProperties
  <2> HIDE DEF s
  <2>3. ASSUME NEW i \in 1 .. n - off PROVE r[i] = s[i]
    <3>1. off + i \in 1 .. n /\ i \in 1 .. n - start
      BY <1>1, <2>1
    <3> QED
      BY <1>4, <1>5, <2>1, <2>2, <3>1
  <2>4. r = s
    BY <1>5, <2>1, <2>2, <2>3, SeqEqual
  <2> QED
    BY <2>1, <2>4 DEF s
<1> QED
  BY <1>1, <1>2, <1>5, <1>6

(* What write_fd makes of a file is bytes.                                  *)
LEMMA MergedBytes ==
    ASSUME NEW data \in Seq(Byte), NEW off \in Nat, NEW chunk \in Seq(Byte)
    PROVE  Merged(data, off, chunk) \in Seq(Byte)
<1> DEFINE have == Smaller(Len(data), off + Len(chunk))
           m    == Smaller(have, off)
           head == SubSeq(data, 1, m)
           gap  == [i \in 1 .. off - Len(head) |-> 0]
<1>1. m \in Nat /\ m <= Len(data) /\ m <= off /\ Len(data) \in Nat
  BY LenProperties DEF Smaller
<1> HIDE DEF m
<1>2. head \in Seq(Byte) /\ Len(head) = m
  BY <1>1, SubSeqProperties, ElementOfSeq
<1> HIDE DEF head
<1>3. off - Len(head) \in Nat /\ 0 \in Byte
  BY <1>1, <1>2, VfsAssumption DEF VfsAssumption
<1>4. gap \in Seq(Byte)
  BY <1>3, IsASeq
<1> HIDE DEF gap
<1>5. Merged(data, off, chunk) = head \o gap \o chunk
  BY DEF Merged, head, gap, m
<1> QED
  BY <1>2, <1>4, <1>5, ConcatProperties

(* A set of numbers has a least one.                                        *)
LEMMA LeastNat ==
    ASSUME NEW T \in SUBSET Nat, T # {}
    PROVE  \E k \in T : \A j \in T : k <= j
<1> DEFINE Less == {ss \in Nat \X Nat : ss[1] < ss[2]}
<1>1. IsWellFoundedOn(Less, Nat)
  BY NatLessThanWellFounded DEF OpToRel
<1>2. \A j, k \in Nat : j < k => <<j, k>> \in Less
  OBVIOUS
<1> HIDE DEF Less
<1>3. PICK k \in T : \A j \in T : ~(<<j, k>> \in Less)
  BY <1>1, WFMin
<1>4. \A j \in T : ~(j < k)
  BY <1>2, <1>3
<1> QED
  BY <1>3, <1>4

(* A new descriptor takes a slot nobody has, and every other stays put.     *)
LEMMA SlotTaken ==
    ASSUME Typed, NEW t \in Tasks, NEW f \in Fds
    PROVE  LET a == alloc_fd(t, f) IN
           /\ a \in Seq(Fds) /\ Len(a) \in Nat /\ Len(fds[t]) <= Len(a)
           /\ \E j \in 1 .. Len(a) :
                /\ a[j] = f
                /\ j \in 1 .. Len(fds[t]) => ~fds[t][j].open
                /\ \A k \in 1 .. Len(a) : k # j => k \in 1 .. Len(fds[t]) /\ a[k] = fds[t][k]
<1> DEFINE q == fds[t]
           a == alloc_fd(t, f)
           free == {k \in 1 .. Len(q) : ~q[k].open}
<1>1. q \in Seq(Fds) /\ Len(q) \in Nat
  BY LenProperties DEF Typed
<1>2. CASE free = {}
  <2>1. a = Append(q, f)
    BY <1>2 DEF alloc_fd
  <2> HIDE DEF a, q
  <2> QED
    BY <1>1, <2>1, AppendProperties DEF q, a
<1>3. CASE free # {}
  <2>0. free \in SUBSET Nat
    BY <1>1
  <2>1. PICK k \in free : \A j \in free : k <= j
    <3> HIDE DEF free
    <3> QED
      BY <1>3, <2>0, LeastNat
  <2> DEFINE P(i) == ~q[i].open /\ \A j \in 1 .. i - 1 : q[j].open
             k0   == CHOOSE i \in 1 .. Len(q) : P(i)
  <2>2. k \in 1 .. Len(q) /\ ~q[k].open
    OBVIOUS
  <2>3. \A j \in 1 .. k - 1 : q[j].open
    BY <1>1, <2>1, <2>2
  <2>4. k0 \in 1 .. Len(q) /\ ~q[k0].open
    BY <2>2, <2>3
  <2>5. a = [q EXCEPT ![k0] = f]
    BY <1>3 DEF alloc_fd
  <2> HIDE DEF a, q, k0
  <2>6. a \in Seq(Fds) /\ Len(a) = Len(q)
        /\ \A i \in 1 .. Len(q) : a[i] = IF i = k0 THEN f ELSE q[i]
    BY <1>1, <2>4, <2>5, ExceptSeq
  <2> QED
    BY <1>1, <2>4, <2>6 DEF q, a
<1> QED
  BY <1>2, <1>3

LEMMA InitF == Init => FInv
<1> SUFFICES ASSUME Init PROVE FInv
  OBVIOUS
<1>1. << >> \in Seq(Fds) /\ << >> \in Seq(Byte) /\ Len(<< >>) = 0
  BY EmptySeq
<1>2. Typed
  BY <1>1, VfsAssumption DEF Init, Typed, VfsAssumption, Files, Calls
<1>3. \A t \in Tasks : Len(fds[t]) = 0 /\ call[t].op = "idle"
  BY <1>1 DEF Init, Idle
<1> QED
  BY <1>2, <1>3, VfsAssumption DEF FInv, Through, VfsAssumption

(* The call of a task moves on; nothing else does.                          *)
LEMMA CallMoves ==
    ASSUME FInv, NEW t \in Tasks, NEW c \in Calls, call' = [call EXCEPT ![t] = c],
           c.op # "idle" /\ c.k # 0 => IsOpen(t, c.k),
           UNCHANGED <<file, fds, got>>, user' \in [Tasks -> Users]
    PROVE  FInv' /\ FdsKept
  BY DEF FInv, Typed, Through, Live, IsOpen, FdsKept

(* One descriptor gets another offset; its task leaves its call, or is in none. *)
LEMMA OffsetMoves ==
    ASSUME FInv, NEW t \in Tasks, NEW k \in Nat, NEW off \in Nat, IsOpen(t, k),
           fds' = [fds EXCEPT ![t][k].offset = off],
           file' \in [Paths -> Files], \A p \in Paths : file[p].there => file'[p].there,
           call' = [call EXCEPT ![t] = Idle], got' \in Seq(Byte), user' = user
    PROVE  FInv' /\ FdsKept
<1> DEFINE q == fds[t]
           f == [q[k] EXCEPT !.offset = off]
<1>1. q \in Seq(Fds) /\ Len(q) \in Nat /\ k \in 1 .. Len(q) /\ q[k].open /\ q[k] \in Fds
  BY LenProperties, ElementOfSeq DEF FInv, Typed, IsOpen
<1>2. f \in Fds /\ f.open /\ f.path = q[k].path /\ f.flags = q[k].flags
  BY <1>1 DEF Fds, Free
<1> HIDE DEF f
<1>3. fds' = [fds EXCEPT ![t] = [q EXCEPT ![k] = f]]
  BY DEF f
<1>4. /\ [q EXCEPT ![k] = f] \in Seq(Fds) /\ Len([q EXCEPT ![k] = f]) = Len(q)
      /\ \A i \in 1 .. Len(q) : [q EXCEPT ![k] = f][i] = IF i = k THEN f ELSE q[i]
  BY <1>1, <1>2, ExceptSeq
<1>5. /\ fds' \in [Tasks -> Seq(Fds)] /\ fds'[t] = [q EXCEPT ![k] = f]
      /\ \A s \in Tasks : s # t => fds'[s] = fds[s]
  BY <1>3, <1>4 DEF FInv, Typed
<1>6. Typed'
  BY <1>5 DEF FInv, Typed, Calls
<1>7. \A s \in Tasks : /\ Len(fds'[s]) = Len(fds[s])
                       /\ \A i \in 1 .. Len(fds[s]) :
                            /\ fds'[s][i].open = fds[s][i].open
                            /\ fds[s][i].open => /\ fds'[s][i].path = fds[s][i].path
                                                 /\ fds'[s][i].flags = fds[s][i].flags
  BY <1>1, <1>2, <1>4, <1>5
<1>8. \A s \in Tasks : s # t => call'[s] = call[s]
  BY DEF FInv, Typed
<1>9. call'[t].op = "idle"
  BY DEF FInv, Typed, Idle
<1>10. \A s \in Tasks : \A i \in 1 .. Len(fds[s]) : fds[s][i].open => fds[s][i].path \in Paths
  <2> SUFFICES ASSUME NEW s \in Tasks, NEW i \in 1 .. Len(fds[s]), fds[s][i].open
               PROVE  fds[s][i].path \in Paths
    OBVIOUS
  <2>1. fds[s][i] \in Fds
    BY ElementOfSeq DEF FInv, Typed
  <2>2. fds[s][i] # Free
    BY DEF Free
  <2> QED
    BY <2>1, <2>2 DEF Fds
<1>11. \A s \in Tasks : Len(fds'[s]) <= MaxFd
  BY <1>7 DEF FInv
<1>12. \A s \in Tasks : Through(s)'
  BY <1>7, <1>8, <1>9 DEF FInv, Through, IsOpen
<1>13. ASSUME NEW s \in Tasks, NEW i \in 1 .. Len(fds'[s]) PROVE Live(s, i)'
  <2>1. i \in 1 .. Len(fds[s])
    BY <1>7
  <2>2. fds[s][i].open => file[fds[s][i].path].there /\ fds[s][i].path \in Paths
    BY <1>10, <2>1 DEF FInv, Live
  <2>3. /\ fds'[s][i].open = fds[s][i].open
        /\ fds[s][i].open => fds'[s][i].path = fds[s][i].path
    BY <1>7, <2>1
  <2> QED
    BY <2>2, <2>3 DEF Live
<1> QED
  BY <1>6, <1>7, <1>11, <1>12, <1>13 DEF FInv, FdsKept

(* One slot of a task that is in no call is taken or given back.            *)
LEMMA SlotMoves ==
    ASSUME FInv, NEW t \in Tasks, call[t] = Idle, NEW a \in Seq(Fds), NEW j \in 1 .. Len(a),
           fds' = [fds EXCEPT ![t] = a], Len(a) <= MaxFd,
           a[j].open => file[a[j].path].there,
           j \in 1 .. Len(fds[t]) => ~(fds[t][j].open /\ a[j].open),
           \A k \in 1 .. Len(a) : k # j => k \in 1 .. Len(fds[t]) /\ a[k] = fds[t][k],
           Len(fds[t]) <= Len(a),
           UNCHANGED <<user, file, call, got>>
    PROVE  FInv' /\ FdsKept
<1>1. fds' \in [Tasks -> Seq(Fds)] /\ fds'[t] = a
      /\ \A s \in Tasks : s # t => fds'[s] = fds[s]
  BY DEF FInv, Typed
<1>2. Typed'
  BY <1>1 DEF FInv, Typed
<1>3. Through(t)'
  BY DEF Through, Idle
<1>4. \A s \in Tasks : s # t => Through(s)'
  BY <1>1 DEF FInv, Through, IsOpen
<1>5. \A k \in 1 .. Len(a) : Live(t, k)'
  BY <1>1 DEF FInv, Live
<1>6. \A s \in Tasks : s # t => \A k \in 1 .. Len(fds'[s]) : Live(s, k)'
  BY <1>1 DEF FInv, Live
<1>7. FdsKept
  <2> SUFFICES ASSUME NEW s \in Tasks, NEW k \in 1 .. Len(fds[s]),
                      fds[s][k].open, fds'[s][k].open
               PROVE  fds'[s][k].path = fds[s][k].path /\ fds'[s][k].flags = fds[s][k].flags
    BY DEF FdsKept
  <2>1. CASE s # t
    BY <1>1, <2>1
  <2>2. CASE s = t
    <3>1. k \in 1 .. Len(a)
      BY <2>2, LenProperties DEF FInv, Typed
    <3> QED
      BY <1>1, <2>2, <3>1
  <2> QED
    BY <2>1, <2>2
<1> QED
  BY <1>1, <1>2, <1>3, <1>4, <1>5, <1>6, <1>7 DEF FInv


LEMMA FilesTyped ==
    ASSUME FInv, NEW p \in Paths, NEW data \in Seq(Byte), NEW who \in Users,
           write_owned(p, data, who)
    PROVE  /\ file' \in [Paths -> Files]
           /\ \A x \in Paths : file[x].there => file'[x].there
<1> DEFINE f == File(data, IF file[p].there THEN file[p].owner ELSE who)
<1>1. file \in [Paths -> Files] /\ file[p] \in Files
  BY DEF FInv, Typed
<1>2. file[p].there => file[p].owner \in Users
  <2>1. file[p].there => file[p] # NoFile
    BY DEF NoFile
  <2> QED
    BY <1>1, <2>1 DEF Files
<1>3. f \in Files /\ f.there
  BY <1>2 DEF Files, File
<1>4. file' = [file EXCEPT ![p] = f]
  BY DEF write_owned
<1> HIDE DEF f
<1> QED
  BY <1>1, <1>3, <1>4

(* What a task inside a call is about to do.                                *)
LEMMA CallTyped ==
    ASSUME FInv, NEW t \in Tasks, call[t].op # "idle"
    PROVE  /\ call[t].path \in Paths /\ call[t].data \in Seq(Byte)
           /\ call[t].k \in Nat /\ call[t].end \in Nat
           /\ call[t].k # 0 => IsOpen(t, call[t].k)
<1>1. call[t] \in Calls /\ call[t] # Idle
  BY DEF FInv, Typed, Idle
<1> QED
  BY <1>1 DEF Calls, FInv, Through

LEMMA FdTyped ==
    ASSUME FInv, NEW t \in Tasks, NEW k, IsOpen(t, k)
    PROVE  /\ k \in 1 .. Len(fds[t]) /\ k \in Nat
           /\ fds[t][k].path \in Paths /\ fds[t][k].offset \in Nat
           /\ file[fds[t][k].path].data \in Seq(Byte)
<1>1. k \in 1 .. Len(fds[t]) /\ fds[t][k] \in Fds /\ fds[t][k] # Free
  BY ElementOfSeq DEF FInv, Typed, IsOpen, Free
<1>2. fds[t][k].path \in Paths /\ fds[t][k].offset \in Nat
  BY <1>1 DEF Fds
<1>3. file[fds[t][k].path] \in Files /\ file[fds[t][k].path].there
  BY <1>1, <1>2 DEF FInv, Typed, Live, IsOpen
<1>4. file[fds[t][k].path] # NoFile
  BY <1>3 DEF NoFile
<1>5. file[fds[t][k].path].data \in Seq(Byte)
  BY <1>3, <1>4 DEF Files
<1>6. k \in Nat
  BY <1>1, LenProperties DEF FInv, Typed
<1> QED
  BY <1>1, <1>2, <1>5, <1>6

LEMMA CheckF ==
    ASSUME FInv, NEW t \in Tasks, NEW p \in Paths, NEW data \in Seq(Byte), NEW k \in Nat,
           NEW off \in Nat, Check(t, p, data, k, off), k # 0 => IsOpen(t, k),
           UNCHANGED <<user, file, fds, got>>
    PROVE  FInv' /\ FdsKept
<1> DEFINE c == [op |-> "put", path |-> p, data |-> data, k |-> k, end |-> off,
                 saw |-> file[p].there]
<1>1. file[p].there \in BOOLEAN
  <2>1. file[p] = NoFile \/ file[p] \in [there : {TRUE}, data : Seq(Byte), owner : Users]
    BY DEF FInv, Typed, Files
  <2>2. NoFile.there = FALSE
    BY DEF NoFile
  <2> QED
    BY <2>1, <2>2
<1>2. c \in Calls /\ c.k = k /\ call' = [call EXCEPT ![t] = c]
  BY <1>1 DEF Calls, Check
<1> HIDE DEF c
<1> QED
  BY <1>2, CallMoves DEF FInv, Typed

LEMMA PutF ==
    ASSUME FInv, NEW t \in Tasks, Put(t)
    PROVE  FInv' /\ FdsKept
<1>1. call[t].op = "put"
  BY DEF Put
<1>2. /\ file' \in [Paths -> Files] /\ call' = [call EXCEPT ![t] = Idle]
      /\ \A x \in Paths : file[x].there => file'[x].there
      /\ user' = user /\ got' \in Seq(Byte)
  BY <1>1, CallTyped, FilesTyped DEF Put, FInv, Typed
<1>3. CASE call[t].k # 0
  <2>1. fds' = [fds EXCEPT ![t][call[t].k].offset = call[t].end]
    BY <1>3 DEF Put
  <2> QED
    BY <1>1, <1>2, <1>3, <2>1, CallTyped, OffsetMoves
<1>4. CASE call[t].k = 0
  <2>1. fds' = fds
    BY <1>4 DEF Put
  <2>2. call'[t].op = "idle" /\ call' \in [Tasks -> Calls]
        /\ \A s \in Tasks : s # t => call'[s] = call[s]
    BY <1>2 DEF FInv, Typed, Calls, Idle
  <2>3. Typed'
    BY <1>2, <2>1, <2>2 DEF FInv, Typed
  <2>4. \A s \in Tasks : Through(s)'
    BY <2>1, <2>2 DEF FInv, Through, IsOpen
  <2>5. ASSUME NEW s \in Tasks, NEW i \in 1 .. Len(fds[s]) PROVE Live(s, i)'
    BY <1>2, <2>1, FdTyped DEF FInv, Live, IsOpen
  <2> QED
    BY <2>1, <2>3, <2>4, <2>5 DEF FInv, FdsKept
<1> QED
  BY <1>3, <1>4

LEMMA OpenF ==
    ASSUME FInv, NEW t \in Tasks, NEW p \in Paths, NEW flags \in Flags, open(t, p, flags)
    PROVE  FInv' /\ FdsKept
<1> DEFINE f == OpenFile(p, 0, flags)
           a == alloc_fd(t, f)
<1>1. f \in Fds /\ f.open /\ f.path = p
  BY VfsAssumption DEF Fds, Flagsets, OpenFile, VfsAssumption
<1>2. fds' = [fds EXCEPT ![t] = a]
  BY DEF open
<1>3. call[t] = Idle /\ file[p].there /\ Len(fds'[t]) <= MaxFd /\ UNCHANGED <<user, file, call, got>>
  BY DEF open
<1>4. fds'[t] = a
  BY <1>2 DEF FInv, Typed
<1>5. /\ a \in Seq(Fds) /\ Len(a) \in Nat /\ Len(fds[t]) <= Len(a)
      /\ \E j \in 1 .. Len(a) :
            /\ a[j] = f
            /\ j \in 1 .. Len(fds[t]) => ~fds[t][j].open
            /\ \A k \in 1 .. Len(a) : k # j => k \in 1 .. Len(fds[t]) /\ a[k] = fds[t][k]
  <2> HIDE DEF f
  <2> QED
    BY <1>1, SlotTaken DEF FInv
<1> HIDE DEF f, a
<1>6. PICK j \in 1 .. Len(a) :
          /\ a[j] = f
          /\ j \in 1 .. Len(fds[t]) => ~fds[t][j].open
          /\ \A k \in 1 .. Len(a) : k # j => k \in 1 .. Len(fds[t]) /\ a[k] = fds[t][k]
  BY <1>5
<1>7. Len(a) <= MaxFd /\ (a[j].open => file[a[j].path].there)
  BY <1>1, <1>3, <1>4, <1>6
<1>8. j \in 1 .. Len(fds[t]) => ~(fds[t][j].open /\ a[j].open)
  BY <1>6
<1> QED
  BY <1>2, <1>3, <1>5, <1>6, <1>7, <1>8, SlotMoves

LEMMA CloseF ==
    ASSUME FInv, NEW t \in Tasks, NEW k, close_fd(t, k)
    PROVE  FInv' /\ FdsKept
<1> DEFINE a == [fds[t] EXCEPT ![k] = Free]
<1>1. IsOpen(t, k) /\ call[t] = Idle /\ UNCHANGED <<user, file, call, got>>
  BY DEF close_fd
<1>2. fds' = [fds EXCEPT ![t] = a]
  BY DEF close_fd
<1>3. k \in 1 .. Len(fds[t]) /\ fds[t] \in Seq(Fds) /\ Free \in Fds /\ ~Free.open
  BY <1>1, FdTyped DEF FInv, Typed, Fds, Free
<1>4. /\ a \in Seq(Fds) /\ Len(a) = Len(fds[t]) /\ Len(a) \in Nat
      /\ \A i \in 1 .. Len(fds[t]) : a[i] = IF i = k THEN Free ELSE fds[t][i]
  BY <1>3, ExceptSeq, LenProperties
<1> HIDE DEF a
<1>5. Len(a) <= MaxFd
  BY <1>4 DEF FInv
<1>6. k \in 1 .. Len(a) /\ a[k] = Free /\ Len(fds[t]) <= Len(a)
  BY <1>3, <1>4
<1>7. \A i \in 1 .. Len(a) : i # k => i \in 1 .. Len(fds[t]) /\ a[i] = fds[t][i]
  BY <1>4
<1>8. ~a[k].open
  BY <1>3, <1>6
<1> QED
  BY <1>1, <1>2, <1>4, <1>5, <1>6, <1>7, <1>8, SlotMoves

(* A read moves its descriptor by what it returns.                          *)
LEMMA ReadF ==
    ASSUME FInv, NEW t \in Tasks, NEW k, NEW len \in BufLens, read_fd(t, k, len)
    PROVE  /\ FInv' /\ FdsKept /\ IsOpen(t, k)
           /\ got' = AtOffset(file[fds[t][k].path].data, fds[t][k].offset, len)
           /\ fds' = [fds EXCEPT ![t][k].offset = fds[t][k].offset + Len(got')]
           /\ fds'[t][k].offset = fds[t][k].offset + Len(got')
<1> DEFINE off == fds[t][k].offset + Len(got')
<1>1. /\ call[t] = Idle /\ IsOpen(t, k) /\ UNCHANGED <<user, file, call>>
      /\ got' = AtOffset(file[fds[t][k].path].data, fds[t][k].offset, len)
      /\ fds' = [fds EXCEPT ![t][k].offset = off]
  BY DEF read_fd
<1>2. /\ k \in 1 .. Len(fds[t]) /\ k \in Nat
      /\ fds[t][k].path \in Paths /\ fds[t][k].offset \in Nat
      /\ file[fds[t][k].path].data \in Seq(Byte)
  BY <1>1, FdTyped
<1>3. got' \in Seq(Byte) /\ off \in Nat
  BY <1>1, <1>2, ReadStretch, VfsAssumption DEF VfsAssumption
<1> HIDE DEF off
<1>4. call' = [call EXCEPT ![t] = Idle]
  BY <1>1 DEF FInv, Typed
<1>5. file' \in [Paths -> Files] /\ \A x \in Paths : file[x].there => file'[x].there
  BY <1>1 DEF FInv, Typed
<1>6. FInv' /\ FdsKept
  BY <1>1, <1>2, <1>3, <1>4, <1>5, OffsetMoves
<1>7. fds'[t][k].offset = off
  <2>1. fds[t] \in Seq(Fds) /\ fds[t][k] \in Fds /\ fds[t][k] # Free
    BY <1>1, <1>2, ElementOfSeq DEF FInv, Typed, Free, IsOpen
  <2> QED
    BY <1>1, <1>2, <2>1 DEF FInv, Typed, Fds
<1> QED
  BY <1>1, <1>6, <1>7 DEF off


LEMMA CallsF ==
    ASSUME FInv, NEW t \in Tasks,
           \/ \E p \in Paths, chunk \in Chunks : write(t, p, chunk)
           \/ WriteMerged(t)
           \/ \E u \in Users : set_identity(t, u)
           \/ \E k \in 1 .. MaxFd, chunk \in Chunks : write_fd(t, k, chunk)
    PROVE  FInv' /\ FdsKept
<1>1. Idle \in Calls /\ Idle.op = "idle"
  BY DEF Calls, Idle
<1>2. ASSUME NEW p \in Paths, NEW chunk \in Chunks, write(t, p, chunk)
      PROVE  FInv' /\ FdsKept
  <2>1. Check(t, p, chunk, 0, 0) /\ UNCHANGED <<user, file, fds, got>> /\ chunk \in Seq(Byte)
    BY <1>2, VfsAssumption DEF write, VfsAssumption
  <2> QED
    BY <2>1, CheckF
<1>3. ASSUME WriteMerged(t) PROVE FInv' /\ FdsKept
  <2>1. call[t].op = "merged" /\ UNCHANGED <<user, file, fds, got>>
    BY <1>3 DEF WriteMerged
  <2>2. CASE Check(t, call[t].path, call[t].data, call[t].k, call[t].end)
    BY <2>1, <2>2, CallTyped, CheckF
  <2>3. CASE call' = [call EXCEPT ![t] = Idle]
    BY <1>1, <2>1, <2>3, CallMoves DEF FInv, Typed
  <2> QED
    BY <1>3, <2>2, <2>3 DEF WriteMerged
<1>4. ASSUME NEW u \in Users, set_identity(t, u) PROVE FInv' /\ FdsKept
  <2>1. /\ call[t] = Idle /\ user' = [user EXCEPT ![t] = u]
        /\ UNCHANGED <<file, fds, call, got>>
    BY <1>4 DEF set_identity
  <2>2. call' = [call EXCEPT ![t] = Idle] /\ user' \in [Tasks -> Users]
    BY <2>1 DEF FInv, Typed
  <2> QED
    BY <1>1, <2>1, <2>2, CallMoves
<1>5. ASSUME NEW k \in 1 .. MaxFd, NEW chunk \in Chunks, write_fd(t, k, chunk)
      PROVE  FInv' /\ FdsKept
  <2> DEFINE f == fds[t][k]
             c == [op |-> "merged", path |-> f.path, k |-> k,
                   data |-> Merged(file[f.path].data, f.offset, chunk),
                   end |-> f.offset + Len(chunk)]
  <2>1. IsOpen(t, k) /\ call' = [call EXCEPT ![t] = c] /\ UNCHANGED <<user, file, fds, got>>
    BY <1>5 DEF write_fd
  <2>2. /\ k \in Nat /\ f.path \in Paths /\ f.offset \in Nat
        /\ file[f.path].data \in Seq(Byte)
    BY <2>1, FdTyped
  <2>3. chunk \in Seq(Byte) /\ Len(chunk) \in Nat
    BY LenProperties, VfsAssumption DEF VfsAssumption
  <2>4. Merged(file[f.path].data, f.offset, chunk) \in Seq(Byte)
    BY <2>2, <2>3, MergedBytes
  <2>5. c \in Calls /\ c.k = k
    BY <2>2, <2>3, <2>4 DEF Calls
  <2> HIDE DEF c
  <2> QED
    BY <2>1, <2>5, CallMoves DEF FInv, Typed
<1> QED
  BY <1>2, <1>3, <1>4, <1>5

LEMMA StepF == FInv /\ [Next]_vars => FInv' /\ FdsKept
<1> SUFFICES ASSUME FInv, [Next]_vars PROVE FInv' /\ FdsKept
  OBVIOUS
<1>1. CASE UNCHANGED vars
  BY <1>1 DEF vars, FInv, Typed, Through, Live, IsOpen, FdsKept
<1>2. ASSUME NEW t \in Tasks,
             \/ \E p \in Paths, chunk \in Chunks : write(t, p, chunk)
             \/ WriteMerged(t) \/ Put(t)
      PROVE  FInv' /\ FdsKept
  BY <1>2, CallsF, PutF
<1>3. ASSUME NEW t \in Shells,
             \/ \E u \in Users : set_identity(t, u)
             \/ \E p \in Paths, flags \in Flags : open(t, p, flags)
             \/ \E k \in 1 .. MaxFd : close_fd(t, k)
             \/ \E k \in 1 .. MaxFd, len \in BufLens : read_fd(t, k, len)
             \/ \E k \in 1 .. MaxFd, chunk \in Chunks : write_fd(t, k, chunk)
      PROVE  FInv' /\ FdsKept
  <2>1. t \in Tasks
    BY VfsAssumption DEF VfsAssumption
  <2> QED
    BY <1>3, <2>1, CallsF, OpenF, CloseF, ReadF
<1> QED
  BY <1>1, <1>2, <1>3 DEF Next

(* mod.rs:686-692, 725: whoever opens and closes what else, a descriptor    *)
(* keeps its file and its rights until its own task closes it, and the file *)
(* is there.                                                                *)
THEOREM DescriptorsStay == Spec => FdForGood
<1>1. FInv => TypeOK
  <2> SUFFICES ASSUME FInv PROVE TypeOK
    OBVIOUS
  <2>1. \A p \in Paths : file[p].there => file[p].data \in Seq(Byte) /\ file[p].owner \in Users
    <3> SUFFICES ASSUME NEW p \in Paths, file[p].there
                 PROVE  file[p].data \in Seq(Byte) /\ file[p].owner \in Users
      OBVIOUS
    <3>1. file[p] \in Files /\ file[p] # NoFile
      BY DEF FInv, Typed, NoFile
    <3> QED
      BY <3>1 DEF Files
  <2>2. \A t \in Tasks : call[t].op \in {"idle", "merged", "put"}
    BY DEF FInv, Typed, Calls, Idle
  <2> QED
    BY <2>1, <2>2 DEF FInv, Typed, Live, TypeOK
<1>2. FInv /\ [Next]_vars =>
        [\A t \in Tasks : \A k \in 1 .. Len(fds[t]) :
            fds[t][k].open /\ fds'[t][k].open =>
               /\ fds'[t][k].path = fds[t][k].path
               /\ fds'[t][k].flags = fds[t][k].flags]_vars
  BY StepF DEF FdsKept
<1> QED
  BY <1>1, <1>2, InitF, StepF, PTL DEF Spec, FdForGood

(* A step that moves an offset, and neither writes a file nor changes a     *)
(* call, is a read by that task through that descriptor.                    *)
LEMMA OnlyReadsMove ==
    ASSUME FInv, Next, NEW t \in Tasks, NEW k, IsOpen(t, k), fds'[t][k].open,
           file' = file, call' = call, fds'[t][k].offset # fds[t][k].offset
    PROVE  \E len \in BufLens : read_fd(t, k, len)
<1> USE DEF IsOpen
<1>1. ASSUME NEW s \in Tasks,
             \/ \E p \in Paths, chunk \in Chunks : write(s, p, chunk)
             \/ \E u \in Users : set_identity(s, u)
             \/ WriteMerged(s)
             \/ \E i \in 1 .. MaxFd, chunk \in Chunks : write_fd(s, i, chunk)
      PROVE  fds' = fds
  BY <1>1 DEF write, set_identity, WriteMerged, write_fd
<1>2. ASSUME NEW s \in Tasks, Put(s) PROVE FALSE
  <2>1. call[s].op = "put" /\ call' = [call EXCEPT ![s] = Idle]
    BY <1>2 DEF Put
  <2>2. call[s] = Idle
    BY <2>1 DEF FInv, Typed
  <2> QED
    BY <2>1, <2>2 DEF Idle
<1>3. ASSUME NEW s \in Tasks, NEW p \in Paths, NEW flags \in Flags, open(s, p, flags)
      PROVE  fds'[t][k] = fds[t][k]
  <2> DEFINE f == OpenFile(p, 0, flags)
  <2>1. f \in Fds
    BY VfsAssumption DEF Fds, Flagsets, OpenFile, VfsAssumption
  <2>2. fds' = [fds EXCEPT ![s] = alloc_fd(s, f)]
    BY <1>3 DEF open
  <2> HIDE DEF f
  <2>3. CASE s # t
    BY <2>2, <2>3 DEF FInv, Typed
  <2>4. CASE s = t
    <3>1. fds'[t] = alloc_fd(t, f)
      BY <2>2, <2>4 DEF FInv, Typed
    <3>2. Len(fds[t]) \in Nat
      BY LenProperties DEF FInv, Typed
    <3> DEFINE a == alloc_fd(t, f)
    <3>3. /\ Len(a) \in Nat /\ Len(fds[t]) <= Len(a)
          /\ \E j \in 1 .. Len(a) :
                /\ j \in 1 .. Len(fds[t]) => ~fds[t][j].open
                /\ \A i \in 1 .. Len(a) : i # j => a[i] = fds[t][i]
      BY <2>1, SlotTaken DEF FInv
    <3> HIDE DEF a
    <3>4. a[k] = fds[t][k]
      BY <3>2, <3>3
    <3> QED
      BY <3>1, <3>4 DEF a
  <2> QED
    BY <2>3, <2>4
<1>4. ASSUME NEW s \in Tasks, NEW i, close_fd(s, i) PROVE fds'[t][k] = fds[t][k]
  <2>1. fds' = [fds EXCEPT ![s][i] = Free] /\ i \in 1 .. Len(fds[s])
    BY <1>4 DEF close_fd
  <2>2. fds[t] \in Seq(Fds) /\ fds[s] \in Seq(Fds)
    BY DEF FInv, Typed
  <2>3. ~(s = t /\ i = k)
    BY <2>1, <2>2, FdTyped DEF FInv, Typed, Free
  <2> QED
    BY <2>1, <2>2, <2>3, FdTyped DEF FInv, Typed
<1>5. ASSUME NEW s \in Tasks, NEW i, NEW len \in BufLens, read_fd(s, i, len), ~(s = t /\ i = k)
      PROVE  fds'[t][k] = fds[t][k]
  <2>1. fds' = [fds EXCEPT ![s][i].offset = fds[s][i].offset + Len(got')]
    BY <1>5, ReadF
  <2> QED
    BY <1>5, <2>1 DEF FInv, Typed
<1> QED
  BY <1>1, <1>2, <1>3, <1>4, <1>5, VfsAssumption DEF Next, VfsAssumption

(* vfs.rs:262-273: what a read returns is what the file has behind the      *)
(* descriptor's offset, and the offset moves by as much, whatever others    *)
(* have cut off or rewritten since it was opened.                           *)
THEOREM ReadsWhereItIs == Spec => ReadsAtOffset
<1>1. FInv /\ [Next]_vars =>
        [\A t \in Tasks, k \in 1 .. MaxFd :
            IsOpen(t, k) /\ fds'[t][k].open /\ file' = file /\ call' = call
                /\ fds'[t][k].offset # fds[t][k].offset =>
              got' = SubSeq(file[fds[t][k].path].data,
                            fds[t][k].offset + 1, fds'[t][k].offset)]_vars
  <2> SUFFICES ASSUME FInv, Next, NEW t \in Tasks, NEW k \in 1 .. MaxFd,
                      IsOpen(t, k), fds'[t][k].open, file' = file, call' = call,
                      fds'[t][k].offset # fds[t][k].offset
               PROVE  got' = SubSeq(file[fds[t][k].path].data,
                                    fds[t][k].offset + 1, fds'[t][k].offset)
    OBVIOUS
  <2>1. PICK len \in BufLens : read_fd(t, k, len)
    BY OnlyReadsMove
  <2> DEFINE data == file[fds[t][k].path].data
             off  == fds[t][k].offset
  <2>2. data \in Seq(Byte) /\ off \in Nat /\ len \in Nat
    BY FdTyped, VfsAssumption DEF VfsAssumption
  <2>3. got' = AtOffset(data, off, len) /\ fds'[t][k].offset = off + Len(got')
    BY <2>1, ReadF
  <2> HIDE DEF data, off
  <2>4. off + Len(got') # off => got' = SubSeq(data, off + 1, off + Len(got'))
    BY <2>2, <2>3, ReadStretch
  <2> QED
    BY <2>3, <2>4 DEF data, off
<1> QED
  BY <1>1, InitF, StepF, PTL DEF Spec, ReadsAtOffset
=============================================================================
