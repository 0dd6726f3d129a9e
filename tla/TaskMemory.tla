----------------------------- MODULE TaskMemory -----------------------------
(***************************************************************************)
(* The memory of tasks from spawn to reap: the loader                      *)
(* (src/kernel/src/fs/elf.rs), the page tables of a task                   *)
(* (src/kernel/src/memory/paging.rs) and the frames its Tcb remembers      *)
(* (src/kernel/src/scheduler/mod.rs:199-498).                              *)
(*                                                                         *)
(* The frame allocator appears as what Pmm shows it to be over one region: *)
(* a stack of freed frames in front of frames never lent.  Pages, frames   *)
(* and table entries are numbers; a page of a task's table leads to a      *)
(* frame with two rights.  Page tables are as deep as Levels below the     *)
(* root, each table with Fan entries.                                      *)
(***************************************************************************)
EXTENDS Integers, Sequences, FiniteSets, SequencesExt

CONSTANTS
    Programs,
    MaxPid,             \* bound: pids are never used again, and run on in the code
    KStack,             \* frames of a kernel stack, 4 in the code
    PageSize, Levels, Fan,  \* 4096, 3 and 512 in the code
    FirstFrame, Limit,  \* frames the allocator has once the heap is made
    Hello               \* the program that the boot code loads in place

(* A program is a sequence of loadable segments.                            *)
Segment(vaddr, file, memsz, w, x) ==
    [vaddr |-> vaddr, file |-> file, memsz |-> memsz, w |-> w, x |-> x]

ASSUME TaskMemoryAssumption ==
    /\ \A n \in {KStack, PageSize, Levels, Fan} : n \in Nat \ {0}
    /\ FirstFrame \in Nat /\ Limit \in Nat /\ FirstFrame <= Limit
    /\ \A prog \in Programs \cup {Hello} :
          /\ prog \in Seq([vaddr : Nat, file : Seq(Nat), memsz : Nat,
                           w : BOOLEAN, x : BOOLEAN])
          /\ \A i \in 1 .. Len(prog) :
                /\ prog[i].vaddr + prog[i].memsz <= FirstFrame * PageSize
                /\ Len(prog[i].file) <= prog[i].memsz
                /\ ~(prog[i].w /\ prog[i].x)   \* flags 4 and 5 in initrd.rs

VARIABLES
    list, next,     \* freed frames, and the first never lent
    next_pid,
    mem,            \* what is in each frame
    proc,           \* the Tcb: what its tables map, and what reap is to free
    lost,           \* frames nobody will free
    halted          \* the panic the machine stopped with

vars == <<list, next, next_pid, mem, proc, lost, halted>>

Pids     == 1 .. MaxPid
Offsets  == 0 .. PageSize - 1
Frames   == 0 .. Limit - 1
Filled(b) == [o \in Offsets |-> b]
Zero     == Filled(0)
Junk     == Filled(99)      \* tables, kernel stacks, memory never lent
Gone     == [live |-> FALSE]
Elements(s) == { s[i] : i \in 1 .. Len(s) }
Smaller(a, b) == IF a < b THEN a ELSE b

(* The allocator (memory/pmm.rs:52-105): n frames one by one, the last      *)
(* freed first; contiguous ones never from the list.                        *)
Room(a) == Len(a.list) + Limit - a.next
Got(a, n) == [i \in 1 .. n |-> IF i <= Len(a.list) THEN a.list[Len(a.list) + 1 - i]
                               ELSE a.next + i - Len(a.list) - 1]
After(a, n) == LET k == Smaller(n, Len(a.list)) IN
    [list |-> SubSeq(a.list, 1, Len(a.list) - k), next |-> a.next + n - k]
Now == [list |-> list, next |-> next]
-----------------------------------------------------------------------------
(* elf.rs: the pages of a program, in the order in which segments touch     *)
(* them; the first to touch a page gives it its rights.                     *)

Pages(s) == s.vaddr \div PageSize .. (s.vaddr + s.memsz + PageSize - 1) \div PageSize - 1
Touched(prog) == UNION { Pages(prog[i]) : i \in 1 .. Len(prog) }
Toucher(prog, v) == CHOOSE i \in 1 .. Len(prog) :
    v \in Pages(prog[i]) /\ \A j \in 1 .. i - 1 : v \notin Pages(prog[j])
Rank(prog, v) == Cardinality({ u \in Touched(prog) :
    \/ Toucher(prog, u) < Toucher(prog, v)
    \/ Toucher(prog, u) = Toucher(prog, v) /\ u <= v })

\* mutant: every chunk goes to the start of its page
Copied_AtStart(page, s, v) ==
    LET from == IF s.vaddr > v * PageSize THEN s.vaddr ELSE v * PageSize
    IN  [o \in Offsets |-> IF from + o < s.vaddr + Len(s.file) /\ v \in Pages(s)
                           THEN s.file[from + o - s.vaddr + 1] ELSE page[o]]

(* What page v holds after the segment's bytes in the file are copied.      *)
Copied(page, s, v) ==
    [o \in Offsets |-> LET a == v * PageSize + o - s.vaddr IN
        IF a \in 0 .. Len(s.file) - 1 THEN s.file[a + 1] ELSE page[o]]

Loaded(prog, v) ==
    LET page[i \in 0 .. Len(prog)] ==
            IF i = 0 THEN Zero ELSE Copied(page[i - 1], prog[i], v)
    IN  page[Len(prog)]

(* load_fresh with the frames the allocator gave.                           *)
load_fresh(prog, got) ==
    [v \in Touched(prog) |-> LET s == prog[Toucher(prog, v)] IN
        [frame |-> got[Rank(prog, v)], w |-> s.w, x |-> s.x]]
-----------------------------------------------------------------------------
(* paging.rs: tables a set of pages needs, the root among them.             *)

Tables(vs) == 1 + Cardinality({ <<l, v \div Fan ^ l>> : l \in 1 .. Levels, v \in vs })

(* The stack is mapped at its frame's own number.                           *)
UserMap(pages, stack) ==
    [v \in DOMAIN pages \cup {stack} |->
        IF v = stack THEN [frame |-> stack, w |-> TRUE, x |-> FALSE] ELSE pages[v]]

(* isotest, captest: hello's frames as they are, for all.                   *)
InPlace == [v \in Touched(Hello) |-> [frame |-> v, w |-> FALSE, x |-> TRUE]]

Init ==
    /\ list = << >> /\ next = FirstFrame /\ next_pid = 1
    /\ mem = [f \in Frames |-> IF f \in Touched(Hello) THEN Loaded(Hello, f) ELSE Junk]
    /\ proc = [p \in Pids |-> Gone]
    /\ lost = {} /\ halted = "no"
-----------------------------------------------------------------------------
(* Spawning.                                                                *)

KFrames(base) == base .. base + KStack - 1

Tcb(prog, map, owned, stack, base) ==
    [live |-> TRUE, zombie |-> FALSE, prog |-> prog, map |-> map,
     table_frames |-> owned, stack |-> stack, kstack |-> base]

(* spawn: a kernel stack from frames in a row, then the Tcb.  image is what *)
(* has been written to frames so far, a the allocator then.                 *)
spawn(a, prog, map, owned, stack, image) ==
    /\ halted = "no" /\ next_pid \in Pids
    /\ next_pid' = next_pid + 1
    /\ list' = a.list
    /\ IF a.next + KStack <= Limit
       THEN /\ proc' = [proc EXCEPT ![next_pid] = Tcb(prog, map, owned, stack, a.next)]
            /\ next' = a.next + KStack
            /\ mem' = [f \in Frames |-> IF f \in DOMAIN image THEN image[f]
                                        ELSE IF f \in KFrames(a.next) THEN Junk ELSE mem[f]]
            /\ UNCHANGED <<lost, halted>>
       ELSE /\ halted' = "kernel stack"
            /\ next' = a.next
            /\ UNCHANGED <<mem, proc, lost>>

\* mutant: the frames of the program's pages are left out of what reap frees
spawn_program_Tables(prog) ==
    LET n     == Cardinality(Touched(prog))
        got   == Got(Now, n + 1)
        pages == load_fresh(prog, got)
        stack == got[n + 1]
        t     == Tables(Touched(prog) \cup {stack})
        tabs  == Got(After(Now, n + 1), t)
    IN  /\ Room(Now) >= n + 1 + t
        /\ spawn(After(Now, n + 1 + t), prog, UserMap(pages, stack), tabs, {stack},
                 [f \in Elements(got) \cup Elements(tabs) |->
                    IF f \in Elements(tabs) THEN Junk ELSE IF f = stack THEN Zero
                    ELSE Loaded(prog, CHOOSE v \in Touched(prog) : pages[v].frame = f)])

(* The frames in the order of the calls: pages, the user's stack, tables,   *)
(* the kernel's stack.                                                      *)
spawn_program(prog) ==
    LET n     == Cardinality(Touched(prog))
        got   == Got(Now, n + 1)
        pages == load_fresh(prog, got)
        stack == got[n + 1]
        t     == Tables(Touched(prog) \cup {stack})
        tabs  == Got(After(Now, n + 1), t)
    IN  /\ Room(Now) >= n + 1 + t
        /\ spawn(After(Now, n + 1 + t), prog, UserMap(pages, stack),
                 tabs \o SubSeq(got, 1, n), {stack},
                 [f \in Elements(got) \cup Elements(tabs) |->
                    IF f \in Elements(tabs) THEN Junk ELSE IF f = stack THEN Zero
                    ELSE Loaded(prog, CHOOSE v \in Touched(prog) : pages[v].frame = f)])

(* Out of frames in the loader, or for the stack after it: an error.  What  *)
(* was taken by then, which is all there was, stays taken.                  *)
TakenForGood ==
    /\ halted = "no"
    /\ list' = << >> /\ next' = Limit
    /\ lost' = lost \cup Elements(list) \cup next .. Limit - 1
    /\ UNCHANGED <<next_pid, mem, proc, halted>>

LoadFails(prog) == Room(Now) < Cardinality(Touched(prog)) /\ TakenForGood

StackFails(prog) == Room(Now) = Cardinality(Touched(prog)) /\ TakenForGood

(* Out of frames for the tables: a panic.                                   *)
TablesFail(prog) ==
    LET n == Cardinality(Touched(prog)) IN
    /\ halted = "no"
    /\ Room(Now) >= n + 1
    /\ Room(Now) < n + 1 + Tables(Touched(prog) \cup {Got(Now, n + 1)[n + 1]})
    /\ halted' = "tables"
    /\ UNCHANGED <<list, next, next_pid, mem, proc, lost>>

isotest ==
    LET stack == Got(Now, 1)[1]
        t     == Tables(Touched(Hello) \cup {stack})
        tabs  == Got(After(Now, 1), t)
    IN  /\ Room(Now) >= 1 + t
        /\ spawn(After(Now, 1 + t), Hello, UserMap(InPlace, stack), tabs, {stack},
                 [f \in {stack} \cup Elements(tabs) |-> IF f = stack THEN Zero ELSE Junk])

(* It expects a frame for the stack, then those for the tables.             *)
IsotestFails ==
    /\ halted = "no"
    /\ Room(Now) < 1 + Tables(Touched(Hello) \cup {Got(Now, 1)[1]})
    /\ halted' = "tables"
    /\ UNCHANGED <<list, next, next_pid, mem, proc, lost>>

(* multitest, conctest: a thread of the kernel.                             *)
SpawnThread == spawn(Now, << >>, << >>, << >>, {}, << >>)
-----------------------------------------------------------------------------
(* A task writes to its own memory, exits, and is reaped.                   *)

Mark(p) == 100 + p

Store(p, v) ==
    /\ halted = "no"
    /\ proc[p].live /\ ~proc[p].zombie
    /\ v \in DOMAIN proc[p].map /\ proc[p].map[v].w
    /\ mem' = [mem EXCEPT ![proc[p].map[v].frame][0] = Mark(p)]
    /\ UNCHANGED <<list, next, next_pid, proc, lost, halted>>

exit_current(p) ==
    /\ halted = "no"
    /\ proc[p].live /\ ~proc[p].zombie
    /\ proc' = [proc EXCEPT ![p].zombie = TRUE]
    /\ UNCHANGED <<list, next, next_pid, mem, lost, halted>>

(* Tables and pages, the user's stack, the kernel stack.                    *)
Freed(t) == t.table_frames \o SetToSeq(t.stack)
            \o [i \in 1 .. KStack |-> t.kstack + i - 1]

reap(p) ==
    /\ halted = "no"
    /\ proc[p].live /\ proc[p].zombie
    /\ list' = list \o Freed(proc[p])
    /\ mem' = [f \in Frames |-> IF f \in Elements(Freed(proc[p])) THEN Zero ELSE mem[f]]
    /\ proc' = [proc EXCEPT ![p] = Gone]
    /\ UNCHANGED <<next, next_pid, lost, halted>>

Next ==
    \/ \E prog \in Programs : \/ spawn_program(prog) \/ LoadFails(prog)
                              \/ StackFails(prog) \/ TablesFail(prog)
    \/ isotest \/ IsotestFails \/ SpawnThread
    \/ \E p \in Pids :
        \/ proc[p].live /\ (\E v \in DOMAIN proc[p].map : Store(p, v))
        \/ exit_current(p)
        \/ reap(p)

Spec == Init /\ [][Next]_vars
-----------------------------------------------------------------------------
(* Properties.                                                              *)

Live == { p \in Pids : proc[p].live }

TypeOK ==
    /\ list \in Seq(Frames) /\ next \in FirstFrame .. Limit /\ next_pid \in Nat
    /\ lost \subseteq Frames
    /\ DOMAIN mem = Frames
    /\ \A p \in Live : /\ proc[p].table_frames \in Seq(Frames)
                       /\ \A v \in DOMAIN proc[p].map : proc[p].map[v].frame \in Frames
    /\ halted \in {"no", "tables", "kernel stack"}

(* mod.rs:459-466, 484-497: reap frees everything its task owned and        *)
(* nothing else, each frame once: what has been lent and is not listed is   *)
(* in exactly one live task's keeping, or lost by a spawn that failed.      *)
Lent == FirstFrame .. next - 1

Accounted ==
    /\ TypeOK
    /\ halted = "no" =>
        /\ IsInjective(list)
        /\ \A p \in Live : IsInjective(Freed(proc[p]))
        /\ Lent = lost \cup Elements(list) \cup UNION { Elements(Freed(proc[p])) : p \in Live }
        /\ lost \cap Elements(list) = {}
        /\ \A p \in Live : /\ Elements(Freed(proc[p])) \cap (lost \cup Elements(list)) = {}
                           /\ \A q \in Live \ {p} :
                                Elements(Freed(proc[p])) \cap Elements(Freed(proc[q])) = {}

(* elf.rs:148-151, paging.rs:296-300, "closes the W^X gap": no page is both *)
(* writable and executable, and what a page allows one of the segments in   *)
(* it allows, except that pages mapped in place are executable throughout.  *)
RightsOfSegments ==
    \A p \in Live : \A v \in DOMAIN proc[p].map :
        LET pte  == proc[p].map[v]
            prog == proc[p].prog
            segs == { prog[i] : i \in { i \in 1 .. Len(prog) : v \in Pages(prog[i]) } }
        IN  /\ ~(pte.w /\ pte.x)
            /\ v < FirstFrame /\ pte.w => \E s \in segs : s.w
            /\ v < FirstFrame /\ pte.x /\ pte.frame # v => \E s \in segs : s.x

(* What a task sees is its program, at every address, with zeros behind a   *)
(* segment's bytes (elf.rs:119-188), and its own stores, whoever else is    *)
(* spawned, stores and is reaped (main.rs:1252-1258: "its own code          *)
(* genuinely runs"); and its pages have the rights of its segments.         *)
Image(prog, v, o) ==
    LET a   == v * PageSize + o
        src == { i \in 1 .. Len(prog) :
                   a >= prog[i].vaddr /\ a < prog[i].vaddr + Len(prog[i].file) }
    IN  IF src = {} THEN 0
        ELSE LET s == prog[CHOOSE i \in src : \A j \in src : j <= i]
             IN  s.file[a - s.vaddr + 1]

MemoryOwn ==
    /\ RightsOfSegments
    /\ halted = "no" => \A p \in Live :
        /\ Touched(proc[p].prog) \subseteq DOMAIN proc[p].map
        /\ \A v \in DOMAIN proc[p].map, o \in Offsets :
             LET pte == proc[p].map[v] IN
             \/ mem[pte.frame][o] = Image(proc[p].prog, v, o)
             \/ pte.w /\ o = 0 /\ mem[pte.frame][o] = Mark(p)

=============================================================================
