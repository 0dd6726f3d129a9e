-------------------------------- MODULE Pmm --------------------------------
(***************************************************************************)
(* The physical frame allocator of the kernel (src/kernel/src/memory/      *)
(* pmm.rs) and the part of the boot sequence that feeds it (main.rs).      *)
(*                                                                         *)
(* Addresses are counted in pages, except in the memory map, which the     *)
(* boot loader gives in bytes.  Region indices are 1-based, so the         *)
(* allocator is exhausted when  cur = Len(regions) + 1.                    *)
(*                                                                         *)
(* owned, dirty, zeroing and ret are not state of the allocator: owned is  *)
(* what its callers hold, dirty the frames whose contents are not zero,    *)
(* zeroing the frames some caller is in the middle of freeing, ret the     *)
(* frames the last call returned.  The callers keep to the ownership rule: *)
(* they free a frame they hold, and once.                                  *)
(***************************************************************************)
EXTENDS Integers, Sequences, FiniteSets

CONSTANTS
    PAGE_SIZE,      \* bytes in a page
    MAX_REGIONS,    \* capacity of the region table
    OneMiB,         \* 0x100000, as a page number
    KernelEnd,      \* 0x300000, as a page number
    HEAP_FRAMES,    \* frames the boot code takes for the kernel heap
    StackFrames,    \* sizes callers ask of alloc_contiguous_frames
    MemMaps         \* the memory maps the boot loader may hand over

(***************************************************************************)
(* The boot loader lists usable memory in ascending order, without         *)
(* overlap (a guarantee of its protocol).                                  *)
(***************************************************************************)
IsMemMap(mm) ==
    /\ mm \in Seq([base : Nat, len : Nat])
    /\ \A i, j \in 1 .. Len(mm) : i < j => mm[i].base + mm[i].len <= mm[j].base

ASSUME PmmAssumption ==
    /\ PAGE_SIZE \in Nat \ {0}
    /\ MAX_REGIONS \in Nat \ {0}
    /\ OneMiB \in Nat
    /\ KernelEnd \in Nat
    /\ HEAP_FRAMES \in Nat \ {0}
    /\ StackFrames \subseteq Nat \ {0}
    /\ \A mm \in MemMaps : IsMemMap(mm)

VARIABLES
    memmap,     \* what the boot loader handed over
    boot,       \* boot progress: next map entry, or "heap" / "run" / "panic"
    fed,        \* map entries already given to add_region
    regions,    \* Pmm.regions[..count]
    cur, next,  \* the bump pointer: region index and next page
    free,       \* Pmm.free
    freeList,   \* Pmm.free_list, last element on top
    heap,       \* frames obtained for the kernel heap, in call order
    owned, dirty, zeroing, ret

bump   == <<regions, cur, next>>
config == <<memmap, boot, fed, heap>>
vars   == <<memmap, boot, fed, regions, cur, next, free, freeList, heap,
            owned, dirty, zeroing, ret>>

OnFreeList == { freeList[i] : i \in 1 .. Len(freeList) }

Init ==
    /\ memmap \in MemMaps
    /\ boot = "map"
    /\ fed = 0
    /\ regions = << >>
    /\ cur = 1 /\ next = 0 /\ free = 0
    /\ freeList = << >> /\ heap = << >>
    /\ owned = {} /\ dirty = {} /\ zeroing = {} /\ ret = {}
-----------------------------------------------------------------------------
(* Boot: the memory map, then init(), then the kernel heap.                 *)

PageUp(addr)   == (addr + PAGE_SIZE - 1) \div PAGE_SIZE
PageDown(addr) == addr \div PAGE_SIZE

(* add_region(base, len): whole pages only; a full table drops the entry.   *)
AddRegion ==
    /\ boot = "map" /\ fed < Len(memmap)
    /\ LET e  == memmap[fed + 1]
           lo == PageUp(e.base)
           hi == PageDown(e.base + e.len)
       IN  IF Len(regions) < MAX_REGIONS /\ lo < hi
           THEN /\ regions' = Append(regions, [base |-> lo, end |-> hi])
                /\ free' = free + (hi - lo)
           ELSE UNCHANGED <<regions, free>>
    /\ fed' = fed + 1
    /\ UNCHANGED <<memmap, boot, cur, next, freeList, heap, owned, dirty,
                   zeroing, ret>>

(* The first region that reaches above 1 MiB, from the kernel's end on.     *)
FirstUsable(i) ==
    /\ i \in 1 .. Len(regions)
    /\ regions[i].end > OneMiB
    /\ \A j \in 1 .. i - 1 : regions[j].end <= OneMiB

InitPmm ==
    /\ boot = "map" /\ fed = Len(memmap)
    /\ IF \E i \in 1 .. Len(regions) : FirstUsable(i)
       THEN \E i \in 1 .. Len(regions) :
                /\ FirstUsable(i)
                /\ cur' = i
                /\ next' = IF regions[i].base < KernelEnd
                           THEN KernelEnd ELSE regions[i].base
       ELSE UNCHANGED <<cur, next>>
    /\ boot' = "heap"
    /\ UNCHANGED <<memmap, fed, regions, free, freeList, heap, owned, dirty,
                   zeroing, ret>>
-----------------------------------------------------------------------------
(* The bump pointer.                                                        *)

Start(i) == IF i = cur THEN next ELSE regions[i].base

\* mutant: a region lends its last page twice over
Fits_PastEnd(i, n) == /\ i \in cur .. Len(regions)
                      /\ Start(i) + n <= regions[i].end + 1

Fits(i, n) == /\ i \in cur .. Len(regions)
              /\ Start(i) + n <= regions[i].end

\* mutant: the pointer advances by one page too few
BumpTake_Short(n) ==
    \E i \in cur .. Len(regions) :
        /\ Fits(i, n)
        /\ \A j \in cur .. i - 1 : ~Fits(j, n)
        /\ cur' = i
        /\ next' = Start(i) + n - 1
        /\ ret' = Start(i) .. Start(i) + n - 1

(* n pages from the first region, from the current one on, that has room:   *)
(* the regions skipped on the way are never returned to.                    *)
BumpTake(n) ==
    \E i \in cur .. Len(regions) :
        /\ Fits(i, n)
        /\ \A j \in cur .. i - 1 : ~Fits(j, n)
        /\ cur' = i
        /\ next' = Start(i) + n
        /\ ret' = Start(i) .. Start(i) + n - 1

(* No region has room: the loop has moved past the last one.                *)
BumpExhausted(n) ==
    /\ \A i \in cur .. Len(regions) : ~Fits(i, n)
    /\ cur' = Len(regions) + 1
    /\ next' = IF cur < Len(regions) THEN regions[Len(regions)].base ELSE next
    /\ ret' = {}

\* mutant: the top is read but stays on the list
PopFreeList_Keeps ==
    /\ freeList # << >>
    /\ ret' = {freeList[Len(freeList)]}
    /\ free' = free - 1
    /\ UNCHANGED <<regions, cur, next, freeList>>

(* alloc_frame(): the top of the free list if there is one, else one page.  *)
PopFreeList ==
    /\ freeList # << >>
    /\ ret' = {freeList[Len(freeList)]}
    /\ freeList' = SubSeq(freeList, 1, Len(freeList) - 1)
    /\ free' = free - 1
    /\ UNCHANGED bump

BumpOne ==
    /\ freeList = << >>
    /\ \/ BumpTake(1) /\ free' = (IF free > 0 THEN free - 1 ELSE free)
       \/ BumpExhausted(1) /\ free' = free
    /\ UNCHANGED <<regions, freeList>>

alloc_frame == PopFreeList \/ BumpOne

\* mutant: n frames counted as one
alloc_contiguous_frames_CountsOne(n) ==
    /\ \/ BumpTake(n) /\ free' = free - 1
       \/ BumpExhausted(n) /\ free' = free
    /\ UNCHANGED <<regions, freeList>>

(* alloc_contiguous_frames(n): the bump pointer only.                       *)
alloc_contiguous_frames(n) ==
    /\ \/ BumpTake(n) /\ free' = (IF free >= n THEN free - n ELSE 0)
       \/ BumpExhausted(n) /\ free' = free
    /\ UNCHANGED <<regions, freeList>>
-----------------------------------------------------------------------------
(* The heap takes HEAP_FRAMES frames one by one; it is built on the first   *)
(* one's address.  expect() panics when a frame is missing.                 *)
BootHeap ==
    /\ boot = "heap"
    /\ alloc_frame
    /\ owned' = owned \cup ret'
    /\ heap' = IF ret' = {} THEN heap ELSE Append(heap, CHOOSE f \in ret' : TRUE)
    /\ boot' = IF ret' = {} THEN "panic"
               ELSE IF Len(heap) + 1 = HEAP_FRAMES THEN "run" ELSE "heap"
    /\ UNCHANGED <<memmap, fed, dirty, zeroing>>

Alloc ==
    /\ boot = "run"
    /\ alloc_frame
    /\ owned' = owned \cup ret'
    /\ UNCHANGED <<config, dirty, zeroing>>

AllocContiguous(n) ==
    /\ boot = "run"
    /\ alloc_contiguous_frames(n)
    /\ owned' = owned \cup ret'
    /\ UNCHANGED <<config, dirty, zeroing>>

(* The holder of a frame writes to it (the heap's frames are never freed).  *)
HeapFrames == { heap[i] : i \in 1 .. Len(heap) }

Write(f) ==
    /\ boot = "run"
    /\ f \in (owned \ zeroing) \ HeapFrames
    /\ dirty' = dirty \cup {f}
    /\ ret' = {}
    /\ UNCHANGED <<config, bump, free, freeList, owned, zeroing>>

\* mutant: the frame is not zeroed
ZeroFrame_Skips(f) ==
    /\ boot = "run"
    /\ f \in (owned \ zeroing) \ HeapFrames
    /\ zeroing' = zeroing \cup {f}
    /\ ret' = {}
    /\ UNCHANGED <<config, bump, free, freeList, owned, dirty>>

(* free_frame(f), first half: zero the frame, before the lock is taken.     *)
ZeroFrame(f) ==
    /\ boot = "run"
    /\ f \in (owned \ zeroing) \ HeapFrames
    /\ zeroing' = zeroing \cup {f}
    /\ dirty' = dirty \ {f}
    /\ ret' = {}
    /\ UNCHANGED <<config, bump, free, freeList, owned>>

(* free_frame(f), second half, under the lock: the double-free guard, then  *)
(* the push.                                                                *)
PushFrame(f) ==
    /\ boot = "run"
    /\ f \in zeroing
    /\ IF f \in OnFreeList
       THEN boot' = "panic" /\ UNCHANGED <<free, freeList, owned>>
       ELSE /\ freeList' = Append(freeList, f)
            /\ free' = free + 1
            /\ owned' = owned \ {f}
            /\ boot' = boot
    /\ zeroing' = zeroing \ {f}
    /\ ret' = {}
    /\ UNCHANGED <<memmap, fed, heap, bump, dirty>>

Next ==
    \/ AddRegion \/ InitPmm \/ BootHeap \/ Alloc
    \/ \E n \in StackFrames : AllocContiguous(n)
    \/ \E f \in owned : Write(f) \/ ZeroFrame(f)
    \/ \E f \in zeroing : PushFrame(f)

Spec == Init /\ [][Next]_vars
-----------------------------------------------------------------------------
(* Properties.                                                              *)

Frames(i) == regions[i].base .. regions[i].end - 1

TypeOK ==
    /\ memmap \in MemMaps
    /\ boot \in {"map", "heap", "run", "panic"}
    /\ fed \in 0 .. Len(memmap)
    /\ regions \in Seq([base : Nat, end : Nat])
    /\ cur \in 1 .. Len(regions) + 1
    /\ next \in Nat /\ free \in Int
    /\ freeList \in Seq(Nat) /\ heap \in Seq(Nat)
    /\ owned \subseteq Nat /\ dirty \subseteq Nat
    /\ zeroing \subseteq owned /\ ret \subseteq Nat

(* A call never returns a frame somebody holds: pmm.rs:114-121 calls two    *)
(* logical owners of one frame the corruption the guard is there to catch.  *)
HandoutFresh == [][ret' \cap owned = {}]_vars

(* What HandoutFresh rests on: a frame is held, or on the free list, once,  *)
(* or still ahead of the bump pointer, never two of these (pmm.rs:52-125).  *)
Bumpable(f) == \E i \in cur .. Len(regions) :
                   Start(i) <= f /\ f < regions[i].end

OneHome ==
    /\ owned \cap OnFreeList = {}
    /\ \A i, j \in 1 .. Len(freeList) : freeList[i] = freeList[j] => i = j
    /\ \A f \in owned \cup OnFreeList : ~Bumpable(f)

(* "A frame is never observably reusable with its previous owner's data     *)
(* still in it" (pmm.rs:74-76), the owner writing up to the call included.  *)
Scrubbed == OnFreeList \cap dirty = {}

(* Callers that free what they hold, once, never meet the double-free guard *)
(* (pmm.rs:122): the kernel panics for want of heap frames or not at all.   *)
GuardSilent == boot = "panic" => Len(heap) < HEAP_FRAMES

(* The counter behind free_frames() moves by exactly the frames that change *)
(* hands (pmm.rs:32, 55, 64, 97, 125), though two of its updates saturate.  *)
FreeCountConserved ==
    [][boot # "map" =>
         free' + Cardinality(owned') = free + Cardinality(owned)]_vars

(* Every frame handed out is usable memory, and the frames of one call lie  *)
(* in one region: a stack never spans a hole (pmm.rs:79-87).                *)
FramesUsable ==
    /\ TypeOK
    /\ \A f \in owned : \E i \in 1 .. Len(regions) : f \in Frames(i)
    /\ ret # {} => \E i \in 1 .. Len(regions) : ret \subseteq Frames(i)

=============================================================================
