-------------------------------- MODULE Vfs ---------------------------------
(***************************************************************************)
(* Files and descriptors: src/kernel/src/fs/vfs.rs over the one mounted    *)
(* file system, src/kernel/src/fs/tmpfs.rs, with the descriptor tables of  *)
(* the tasks (src/kernel/src/scheduler/mod.rs:672-732).                    *)
(*                                                                         *)
(* A call looks (stat), decides, and acts later under another lock; in     *)
(* between the timer may let other tasks in.  Files are never deleted and  *)
(* their mode is always that of creation, 0644, so a look at a file that   *)
(* is there stays true; a look that found nothing does not.                *)
(*                                                                         *)
(* Calls that fail leave everything as it was and are not steps.           *)
(***************************************************************************)
EXTENDS Integers, Sequences, FiniteSets

CONSTANTS
    Tasks,
    Shells,         \* those that change identity and use descriptors
    Users,          \* identities, [uid, gid]
    StartAs,        \* the identity each task starts with
    Paths,          \* absolute paths under /tmp
    Byte,
    Chunks,         \* what is written in one call
    BufLens,        \* sizes of read buffers
    Flags,          \* what files are opened for
    MaxFd, MaxSize  \* bounds: descriptors of a task, length of a file

ASSUME VfsAssumption ==
    /\ \A u \in Users : {"uid", "gid"} \subseteq DOMAIN u
    /\ StartAs \in [Tasks -> Users]
    /\ 0 \in Byte /\ Chunks \subseteq Seq(Byte)
    /\ Shells \subseteq Tasks /\ Flags \subseteq SUBSET {"r", "w"}
    /\ BufLens \subseteq Nat /\ MaxFd \in Nat /\ MaxSize \in Nat

NoFile == [there |-> FALSE]
File(data, owner) == [there |-> TRUE, data |-> data, owner |-> owner]

Free == [open |-> FALSE]
OpenFile(p, off, flags) == [open |-> TRUE, path |-> p, offset |-> off, flags |-> flags]

Idle == [op |-> "idle"]

VARIABLES
    user,       \* Tcb.uid and Tcb.gid
    file,       \* Tmpfs.nodes
    fds,        \* Tcb.open_files, descriptor k at position k + 1
    call,       \* a task inside write or write_fd
    got         \* what the last read_fd returned

vars == <<user, file, fds, call, got>>

Init ==
    /\ user = StartAs
    /\ file = [p \in Paths |-> NoFile]
    /\ fds = [t \in Tasks |-> << >>]
    /\ call = [t \in Tasks |-> Idle]
    /\ got = << >>

Smaller(a, b) == IF a < b THEN a ELSE b

(* set_identity: the tests of the shell change hands between calls.         *)
set_identity(t, u) ==
    /\ call[t] = Idle
    /\ user' = [user EXCEPT ![t] = u]
    /\ UNCHANGED <<file, fds, call, got>>
-----------------------------------------------------------------------------
(* Permission.                                                              *)

Mode == [owner |-> {"r", "w"}, group |-> {"r"}, other |-> {"r"}]

Class(owner, who) == IF who.uid = owner.uid THEN "owner"
                     ELSE IF who.gid = owner.gid THEN "group" ELSE "other"

check_permission(owner, who, want) == want \subseteq Mode[Class(owner, who)]
-----------------------------------------------------------------------------
(* write(): by path, or as the end of write_fd (k is then the descriptor's  *)
(* position, off its offset).                                               *)

\* mutant: an opened descriptor is not checked again
Check_Once(t, p, data, k, off) ==
    /\ file[p].there /\ k = 0 => check_permission(file[p].owner, user[t], {"w"})
    /\ call' = [call EXCEPT ![t] = [op |-> "put", path |-> p, data |-> data,
                                    k |-> k, end |-> off, saw |-> file[p].there]]

(* A missing file passes: creating one is free.                             *)
Check(t, p, data, k, off) ==
    /\ file[p].there => check_permission(file[p].owner, user[t], {"w"})
    /\ call' = [call EXCEPT ![t] = [op |-> "put", path |-> p, data |-> data,
                                    k |-> k, end |-> off, saw |-> file[p].there]]

write(t, p, chunk) ==
    /\ call[t] = Idle
    /\ Check(t, p, chunk, 0, 0)
    /\ UNCHANGED <<user, file, fds, got>>

\* mutant: overwriting a file makes it the writer's
write_owned_Takes(p, data, who) ==
    file' = [file EXCEPT ![p] = File(data, who)]

(* Tmpfs::write_owned: replace the contents, or create with the caller's    *)
(* identity.                                                                *)
write_owned(p, data, who) ==
    file' = [file EXCEPT ![p] = File(data, IF @.there THEN @.owner ELSE who)]

Put(t) ==
    LET c == call[t] IN
    /\ c.op = "put"
    /\ write_owned(c.path, c.data, user[t])
    /\ fds' = IF c.k = 0 THEN fds ELSE [fds EXCEPT ![t][c.k].offset = c.end]
    /\ call' = [call EXCEPT ![t] = Idle]
    /\ UNCHANGED <<user, got>>
-----------------------------------------------------------------------------
(* Descriptors.                                                             *)

IsOpen(t, k) == k \in 1 .. Len(fds[t]) /\ fds[t][k].open

\* mutant: the last slot is used, taken or not
alloc_fd_Last(t, f) ==
    IF fds[t] = << >> THEN Append(fds[t], f) ELSE [fds[t] EXCEPT ![Len(fds[t])] = f]

(* The lowest slot that is free, or a new one.                              *)
alloc_fd(t, f) ==
    IF \E k \in 1 .. Len(fds[t]) : ~fds[t][k].open
    THEN [fds[t] EXCEPT ![CHOOSE k \in 1 .. Len(fds[t]) :
              ~fds[t][k].open /\ \A j \in 1 .. k - 1 : fds[t][j].open] = f]
    ELSE Append(fds[t], f)

open(t, p, flags) ==
    /\ call[t] = Idle
    /\ file[p].there /\ check_permission(file[p].owner, user[t], flags)
    /\ fds' = [fds EXCEPT ![t] = alloc_fd(t, OpenFile(p, 0, flags))]
    /\ Len(fds'[t]) <= MaxFd
    /\ UNCHANGED <<user, file, call, got>>

close_fd(t, k) ==
    /\ call[t] = Idle /\ IsOpen(t, k)
    /\ fds' = [fds EXCEPT ![t][k] = Free]
    /\ UNCHANGED <<user, file, call, got>>

\* mutant: the bytes at the offset are not moved to the front of the buffer
AtOffset_Unmoved(data, off, len) ==
    LET n     == Smaller(len, Len(data))
        start == Smaller(off, n)
    IN  SubSeq(data, 1, n - start)

(* The buffer gets the beginning of the file; what of it lies behind the    *)
(* offset is moved to the front and is the result.                          *)
AtOffset(data, off, len) ==
    LET n     == Smaller(len, Len(data))
        start == Smaller(off, n)
    IN  SubSeq(SubSeq(data, 1, n), start + 1, n)

read_fd(t, k, len) ==
    /\ call[t] = Idle /\ IsOpen(t, k) /\ "r" \in fds[t][k].flags
    /\ LET f == fds[t][k] IN
       /\ check_permission(file[f.path].owner, user[t], {"r"})
       /\ got' = AtOffset(file[f.path].data, f.offset, len)
       /\ fds' = [fds EXCEPT ![t][k].offset = @ + Len(got')]
    /\ UNCHANGED <<user, file, call>>

(* What write_fd reads: no further than the end of what it will write.      *)
Merged(data, off, chunk) ==
    LET have == Smaller(Len(data), off + Len(chunk))
        head == SubSeq(data, 1, Smaller(have, off))
    IN  head \o [i \in 1 .. off - Len(head) |-> 0] \o chunk

write_fd(t, k, chunk) ==
    /\ call[t] = Idle /\ IsOpen(t, k) /\ "w" \in fds[t][k].flags
    /\ LET f == fds[t][k] IN
       /\ f.offset + Len(chunk) <= MaxSize
       /\ call' = [call EXCEPT ![t] = [op |-> "merged", path |-> f.path, k |-> k,
               data |-> Merged(file[f.path].data, f.offset, chunk),
               end |-> f.offset + Len(chunk)]]
    /\ UNCHANGED <<user, file, fds, got>>

(* It goes on as write(), which may refuse.                                 *)
WriteMerged(t) ==
    LET c == call[t] IN
    /\ c.op = "merged"
    /\ \/ Check(t, c.path, c.data, c.k, c.end)
       \/ /\ ~check_permission(file[c.path].owner, user[t], {"w"})
          /\ call' = [call EXCEPT ![t] = Idle]
    /\ UNCHANGED <<user, file, fds, got>>

Next ==
    \/ \E t \in Tasks, p \in Paths, chunk \in Chunks : write(t, p, chunk)
    \/ \E t \in Tasks : WriteMerged(t) \/ Put(t)
    \/ \E t \in Shells :
        \/ \E u \in Users : set_identity(t, u)
        \/ \E p \in Paths, flags \in Flags : open(t, p, flags)
        \/ \E k \in 1 .. MaxFd : close_fd(t, k)
        \/ \E k \in 1 .. MaxFd, len \in BufLens : read_fd(t, k, len)
        \/ \E k \in 1 .. MaxFd, chunk \in Chunks : write_fd(t, k, chunk)

Spec == Init /\ [][Next]_vars
-----------------------------------------------------------------------------
(* Properties.                                                              *)

TypeOK ==
    /\ user \in [Tasks -> Users]
    /\ \A p \in Paths : file[p].there =>
          file[p].data \in Seq(Byte) /\ file[p].owner \in Users
    /\ \A t \in Tasks : /\ Len(fds[t]) <= MaxFd
                        /\ \A k \in 1 .. Len(fds[t]) : fds[t][k].open =>
                              file[fds[t][k].path].there
                        /\ call[t].op \in {"idle", "merged", "put"}
    /\ got \in Seq(Byte)

(* tmpfs.rs:54-56 "an existing file's uid/gid must NOT change on overwrite":*)
(* two tasks may both have found nothing, and the second to act overwrites. *)
OwnerForGood ==
    [][\A p \in Paths : file[p].there => file'[p].owner = file[p].owner]_vars

(* An open descriptor keeps its file and its rights until its own task      *)
(* closes it, whoever opens and closes what else (mod.rs:686-692, 725), and *)
(* the file is there.                                                       *)
FdForGood ==
    /\ []TypeOK
    /\ [][\A t \in Tasks : \A k \in 1 .. Len(fds[t]) :
            fds[t][k].open /\ fds'[t][k].open =>
               /\ fds'[t][k].path = fds[t][k].path
               /\ fds'[t][k].flags = fds[t][k].flags]_vars

(* What read_fd returns is what the file has at the descriptor's offset,    *)
(* others truncating and rewriting it meanwhile (vfs.rs:262-273).           *)
ReadsAtOffset ==
    [][\A t \in Tasks, k \in 1 .. MaxFd :
         IsOpen(t, k) /\ fds'[t][k].open /\ file' = file /\ call' = call
             /\ fds'[t][k].offset # fds[t][k].offset =>
         got' = SubSeq(file[fds[t][k].path].data,
                       fds[t][k].offset + 1, fds'[t][k].offset)]_vars

(* A file its writer saw is changed only under its owner's uid, by path and *)
(* by descriptor, even when the descriptor was opened under another         *)
(* identity (vfs.rs:193-199, 298).                                          *)
Writer(t, p) == call[t].op = "put" /\ call[t].path = p /\ call'[t] = Idle

OverwriteChecked ==
    [][\A t \in Tasks, p \in Paths :
         Writer(t, p) /\ call[t].saw => user[t].uid = file[p].owner.uid]_vars

(* vfs.rs:278-280: write_fd "reads the whole existing file, splices buf in  *)
(* at the offset, and writes the whole result back": what lies behind the   *)
(* written bytes stays.  It reads no further than their end.                *)
SplicesWhole ==
    [][\A t \in Tasks : call[t] = Idle /\ call'[t].op = "merged" =>
         LET c   == call'[t]
             old == file[c.path].data
         IN  SubSeq(c.data, c.end + 1, Len(c.data)) = SubSeq(old, c.end + 1, Len(old))]_vars
=============================================================================
