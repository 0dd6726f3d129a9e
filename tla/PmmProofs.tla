----------------------------- MODULE PmmProofs -----------------------------
(***************************************************************************)
(* Theorems about the frame allocator, for every memory map, page size and *)
(* table size.                                                             *)
(***************************************************************************)
EXTENDS Pmm, TLAPS, SequenceTheorems, FiniteSetTheorems

(* Rounding an address up to a page does not lower it, rounding it down     *)
(* does not raise it (pmm.rs:29-30).                                        *)
LEMMA PageRounding ==
    ASSUME NEW a \in Nat
    PROVE  /\ PageUp(a) \in Nat /\ PageDown(a) \in Nat
           /\ a <= PAGE_SIZE * PageUp(a)
           /\ PAGE_SIZE * PageDown(a) <= a
<1>1. PAGE_SIZE \in Nat /\ PAGE_SIZE > 0
  BY PmmAssumption
<1>2. ASSUME NEW x \in Nat
      PROVE  /\ x \div PAGE_SIZE \in Int
             /\ x % PAGE_SIZE \in 0 .. PAGE_SIZE - 1
             /\ x = PAGE_SIZE * (x \div PAGE_SIZE) + (x % PAGE_SIZE)
  BY <1>1, Z3
<1>3. ASSUME NEW x \in Nat, NEW q \in Int, PAGE_SIZE * q > x - PAGE_SIZE
      PROVE  q \in Nat
  <2>1. CASE q < 0
    <3>1. PAGE_SIZE * (q + 1) <= 0
      BY <1>1, <2>1, Z3
    <3> QED
      BY <1>1, <1>3, <3>1, Z3
  <2> QED
    BY <2>1, Z3
<1> QED
  BY <1>1, <1>2, <1>3, Z3 DEF PageUp, PageDown

(* Multiplying by the page size preserves order, both ways.                 *)
LEMMA PageOrder ==
    ASSUME NEW p \in Nat, NEW q \in Nat, PAGE_SIZE * p <= PAGE_SIZE * q
    PROVE  p <= q
<1>1. PAGE_SIZE \in Nat /\ PAGE_SIZE > 0
  BY PmmAssumption
<1>2. CASE p > q
  <2>1. PAGE_SIZE * p >= PAGE_SIZE * (q + 1)
    BY <1>1, <1>2, Z3
  <2> QED
    BY <1>1, <2>1, Z3
<1> QED
  BY <1>2
-----------------------------------------------------------------------------
(* The inductive invariant: the type invariant and OneHome are not          *)
(* inductive alone.  OneHome needs that everything ever handed out lies     *)
(* behind the bump pointer (Behind), that the regions ahead do not go back  *)
(* (Ascending), which in turn is built up while the memory map is fed, in   *)
(* order, to add_region (Feeding).                                          *)

Ascending ==
    /\ \A i \in 1 .. Len(regions) : regions[i].base < regions[i].end
    /\ \A i, j \in 1 .. Len(regions) :
           i < j => regions[i].end <= regions[j].base

Feeding ==
    boot = "map" =>
        /\ cur = 1 /\ owned = {} /\ freeList = << >> /\ heap = << >>
        /\ \A i \in 1 .. Len(regions), k \in 1 .. Len(memmap) :
               fed < k => PAGE_SIZE * regions[i].end <= memmap[k].base

Held == owned \cup OnFreeList

Behind ==
    cur <= Len(regions) =>
        \A f \in Held : f < next /\ f < regions[cur].end

Listed ==
    /\ owned \cap OnFreeList = {}
    /\ \A i, j \in 1 .. Len(freeList) : freeList[i] = freeList[j] => i = j

Zeroed ==
    /\ OnFreeList \cap dirty = {}
    /\ zeroing \cap dirty = {}

HeapShort ==
    /\ boot \in {"map", "heap", "panic"} => Len(heap) < HEAP_FRAMES

IndInv == /\ TypeOK /\ Ascending /\ Feeding /\ Behind
          /\ Listed /\ Zeroed /\ HeapShort

(* A stack without its top.                                                 *)
LEMMA DropLast ==
    ASSUME NEW S, NEW s \in Seq(S), s # << >>
    PROVE  LET t == SubSeq(s, 1, Len(s) - 1)
           IN  /\ t \in Seq(S) /\ Len(t) = Len(s) - 1
               /\ \A i \in 1 .. Len(s) - 1 : t[i] = s[i]
<1>1. Len(s) \in Nat \ {0}
  BY EmptySeq, LenProperties
<1>2. \A i \in 1 .. Len(s) - 1 : s[i] \in S
  <2>1. \A i \in 1 .. Len(s) : s[i] \in S
    BY ElementOfSeq
  <2> QED
    BY <1>1, <2>1
<1>3. ASSUME NEW n \in Int, n = Len(s) - 1
      PROVE  /\ SubSeq(s, 1, n) \in Seq(S) /\ Len(SubSeq(s, 1, n)) = n
             /\ \A i \in 1 .. n : SubSeq(s, 1, n)[i] = s[i]
  <2>1. \A i \in 1 .. n : s[i] \in S
    BY <1>2, <1>3
  <2>2. /\ SubSeq(s, 1, n) \in Seq(S)
        /\ Len(SubSeq(s, 1, n)) = IF 1 <= n THEN n - 1 + 1 ELSE 0
        /\ \A i \in 1 .. n - 1 + 1 : SubSeq(s, 1, n)[i] = s[1 + i - 1]
    BY <2>1, SubSeqProperties
  <2>3. n \in Nat
    BY <1>1, <1>3
  <2> QED
    BY <2>2, <2>3
<1>4. Len(s) - 1 \in Int
  BY <1>1
<1> QED
  BY <1>3, <1>4

(* What TypeOK says of the single entries of the two tables.                *)
LEMMA Entries ==
    ASSUME TypeOK
    PROVE  /\ memmap \in Seq([base : Nat, len : Nat])
           /\ Len(memmap) \in Nat /\ Len(regions) \in Nat
           /\ \A k \in 1 .. Len(memmap) :
                  memmap[k].base \in Nat /\ memmap[k].len \in Nat
           /\ \A i, j \in 1 .. Len(memmap) :
                  i < j => memmap[i].base + memmap[i].len <= memmap[j].base
           /\ \A i \in 1 .. Len(regions) :
                  regions[i].base \in Nat /\ regions[i].end \in Nat
<1>1. IsMemMap(memmap)
  BY PmmAssumption DEF TypeOK
<1>2. memmap \in Seq([base : Nat, len : Nat])
  BY <1>1 DEF IsMemMap
<1>3. \A k \in 1 .. Len(memmap) : memmap[k] \in [base : Nat, len : Nat]
  BY <1>2, ElementOfSeq
<1>4. regions \in Seq([base : Nat, end : Nat])
  BY DEF TypeOK
<1>5. \A i \in 1 .. Len(regions) : regions[i] \in [base : Nat, end : Nat]
  BY <1>4, ElementOfSeq
<1>6. \A k \in 1 .. Len(memmap) :
          memmap[k].base \in Nat /\ memmap[k].len \in Nat
  BY <1>3
<1>7. \A i \in 1 .. Len(regions) :
          regions[i].base \in Nat /\ regions[i].end \in Nat
  BY <1>5
<1>8. Len(memmap) \in Nat /\ Len(regions) \in Nat
  BY <1>2, <1>4
<1> QED
  BY <1>1, <1>2, <1>6, <1>7, <1>8 DEF IsMemMap

LEMMA IndInvInit == Init => IndInv
<1> SUFFICES ASSUME Init PROVE IndInv
  OBVIOUS
<1>1. Len(regions) = 0 /\ Len(freeList) = 0 /\ Len(heap) = 0
  BY DEF Init
<1>2. memmap \in Seq([base : Nat, len : Nat])
  BY PmmAssumption DEF Init, IsMemMap
<1>3. TypeOK
  BY <1>1, <1>2 DEF Init, TypeOK
<1>4. Ascending /\ Feeding
  BY <1>1 DEF Init, Ascending, Feeding
<1>5. OnFreeList = {}
  BY <1>1 DEF OnFreeList
<1>6. Behind /\ Listed /\ Zeroed /\ HeapShort
  BY <1>1, <1>5, PmmAssumption
     DEF Init, Behind, Held, Listed, Zeroed, HeapShort
<1> QED
  BY <1>3, <1>4, <1>6 DEF IndInv

(* One entry of the memory map (pmm.rs:26-37).                              *)
LEMMA AddRegionInv == IndInv /\ AddRegion => IndInv'
<1> SUFFICES ASSUME IndInv, AddRegion PROVE IndInv'
  OBVIOUS
<1> DEFINE e  == memmap[fed + 1]
           lo == PageUp(e.base)
           hi == PageDown(e.base + e.len)
<1>1. /\ fed + 1 \in 1 .. Len(memmap) /\ Len(memmap) \in Nat /\ fed \in Nat
      /\ memmap \in MemMaps
  <2>1. fed \in 0 .. Len(memmap) /\ memmap \in MemMaps /\ Len(memmap) \in Nat
    BY Entries DEF IndInv, TypeOK
  <2>2. fed < Len(memmap)
    BY DEF AddRegion
  <2> QED
    BY <2>1, <2>2
<1>2. e.base \in Nat /\ e.len \in Nat /\ e.base + e.len \in Nat
  BY <1>1, Entries DEF IndInv
<1>10. \A i \in 1 .. Len(regions) :
          regions[i].base \in Nat /\ regions[i].end \in Nat
  BY Entries DEF IndInv
<1>3. /\ lo \in Nat /\ hi \in Nat
      /\ e.base <= PAGE_SIZE * lo /\ PAGE_SIZE * hi <= e.base + e.len
  BY <1>2, PageRounding
<1>4. /\ boot = "map" /\ boot' = "map" /\ fed' = fed + 1
      /\ UNCHANGED <<memmap, cur, next, freeList, heap, owned, dirty, zeroing, ret>>
      /\ regions \in Seq([base : Nat, end : Nat])
      /\ cur = 1 /\ owned = {} /\ freeList = << >>
  BY DEF AddRegion, IndInv, Feeding, TypeOK
<1>5. OnFreeList' = OnFreeList
  BY <1>4 DEF OnFreeList
<1>6. OnFreeList = {}
  BY <1>4 DEF OnFreeList
<1>7. Behind' /\ Listed' /\ Zeroed' /\ HeapShort'
  BY <1>4, <1>5, <1>6 DEF IndInv, Behind, Held, Listed, Zeroed, HeapShort
<1>8. CASE UNCHANGED <<regions, free>>
  <2>1. TypeOK'
    BY <1>1, <1>4, <1>8 DEF IndInv, TypeOK
  <2>2. Ascending' /\ Feeding'
    BY <1>1, <1>4, <1>8 DEF IndInv, Ascending, Feeding
  <2> QED
    BY <1>7, <2>1, <2>2 DEF IndInv
<1>9. CASE /\ lo < hi
           /\ regions' = Append(regions, [base |-> lo, end |-> hi])
           /\ free' = free + (hi - lo)
  <2>1. /\ regions' \in Seq([base : Nat, end : Nat])
        /\ Len(regions') = Len(regions) + 1
        /\ \A i \in 1 .. Len(regions) : regions'[i] = regions[i]
        /\ regions'[Len(regions) + 1] = [base |-> lo, end |-> hi]
        /\ Len(regions) \in Nat
    BY <1>3, <1>4, <1>9
  <2>2. TypeOK'
    BY <1>1, <1>3, <1>4, <1>9, <2>1 DEF IndInv, TypeOK
  <2>3. ASSUME NEW i \in 1 .. Len(regions)
        PROVE  regions[i].end <= lo
    <3>1. regions[i].end \in Nat /\ PAGE_SIZE * regions[i].end <= e.base
      BY <1>1, <1>4, <1>10 DEF IndInv, Feeding
    <3>2. /\ PAGE_SIZE * regions[i].end \in Nat /\ PAGE_SIZE * lo \in Nat
      BY <1>3, <3>1, PmmAssumption, Z3
    <3>3. PAGE_SIZE * regions[i].end <= PAGE_SIZE * lo
      BY <1>2, <1>3, <3>1, <3>2
    <3> QED
      BY <1>3, <3>1, <3>3, PageOrder
  <2>4. Ascending'
    <3>1. ASSUME NEW i \in 1 .. Len(regions') PROVE regions'[i].base < regions'[i].end
      BY <1>9, <2>1 DEF IndInv, Ascending
    <3>2. ASSUME NEW i \in 1 .. Len(regions'), NEW j \in 1 .. Len(regions'), i < j
          PROVE  regions'[i].end <= regions'[j].base
      <4>1. CASE j = Len(regions) + 1
        <5>1. i \in 1 .. Len(regions) /\ regions'[i] = regions[i]
          BY <2>1, <3>2, <4>1
        <5>2. regions'[j].base = lo
          BY <2>1, <4>1
        <5>3. regions[i].end <= lo
          BY <2>3, <5>1
        <5> QED
          BY <5>1, <5>2, <5>3, Zenon
      <4>2. CASE j # Len(regions) + 1
        <5>0. Len(regions') = Len(regions) + 1 /\ Len(regions) \in Nat
          BY <2>1, Zenon
        <5>1. i \in 1 .. Len(regions) /\ j \in 1 .. Len(regions)
          BY <3>2, <4>2, <5>0
        <5>2. regions'[i] = regions[i] /\ regions'[j] = regions[j]
          BY <2>1, <5>1, Zenon
        <5>3. regions[i].end <= regions[j].base
          BY <3>2, <5>1 DEF IndInv, Ascending
        <5> QED
          BY <5>2, <5>3, Zenon
      <4> QED
        BY <4>1, <4>2
    <3> QED
      BY <3>1, <3>2 DEF Ascending
  <2>5. ASSUME NEW k \in 1 .. Len(memmap), fed + 1 < k
        PROVE  /\ PAGE_SIZE * hi <= memmap[k].base
               /\ \A i \in 1 .. Len(regions) :
                      PAGE_SIZE * regions[i].end <= memmap[k].base
    <3>1. e.base + e.len <= memmap[k].base /\ memmap[k].base \in Nat
      BY <1>1, <2>5, Entries DEF IndInv
    <3>2. PAGE_SIZE * hi \in Nat
      BY <1>3, PmmAssumption, Z3
    <3>3. \A i \in 1 .. Len(regions) :
              PAGE_SIZE * regions[i].end <= memmap[k].base
      BY <1>1, <1>4, <2>5 DEF IndInv, Feeding
    <3> QED
      BY <1>2, <1>3, <3>1, <3>2, <3>3
  <2>6. Feeding'
    <3> SUFFICES ASSUME NEW i \in 1 .. Len(regions'), NEW k \in 1 .. Len(memmap),
                        fed + 1 < k
                 PROVE  PAGE_SIZE * regions'[i].end <= memmap[k].base
      BY <1>4 DEF IndInv, Feeding
    <3>1. CASE i \in 1 .. Len(regions)
      BY <2>1, <2>5, <3>1
    <3>2. CASE i = Len(regions) + 1
      BY <2>1, <2>5, <3>2
    <3> QED
      BY <2>1, <3>1, <3>2
  <2> QED
    BY <1>7, <2>2, <2>4, <2>6 DEF IndInv
<1> QED
  BY <1>8, <1>9 DEF AddRegion

(* init() (pmm.rs:38-47).                                                   *)
LEMMA InitPmmInv == IndInv /\ InitPmm => IndInv'
<1> SUFFICES ASSUME IndInv, InitPmm PROVE IndInv'
  OBVIOUS
<1>1. /\ boot = "map" /\ boot' = "heap"
      /\ UNCHANGED <<memmap, fed, regions, free, freeList, heap, owned, dirty,
                     zeroing, ret>>
      /\ TypeOK
  BY DEF InitPmm, IndInv
<1>6. cur' \in 1 .. Len(regions) + 1 /\ next' \in Nat
  <2>1. CASE UNCHANGED <<cur, next>>
    BY <1>1, <2>1 DEF TypeOK
  <2>2. ASSUME NEW i \in 1 .. Len(regions), cur' = i,
               next' = IF regions[i].base < KernelEnd
                       THEN KernelEnd ELSE regions[i].base
        PROVE  cur' \in 1 .. Len(regions) + 1 /\ next' \in Nat
    BY <1>1, <2>2, Entries, PmmAssumption
  <2> QED
    BY <2>1, <2>2 DEF InitPmm
<1>2. owned = {} /\ OnFreeList = {} /\ OnFreeList' = {}
  BY <1>1 DEF IndInv, Feeding, OnFreeList
<1>3. TypeOK'
  BY <1>1, <1>6 DEF TypeOK
<1>4. Ascending' /\ Feeding'
  BY <1>1 DEF IndInv, Ascending, Feeding
<1>5. Behind' /\ Listed' /\ Zeroed' /\ HeapShort'
  BY <1>1, <1>2 DEF IndInv, Behind, Held, Listed, Zeroed, HeapShort
<1> QED
  BY <1>3, <1>4, <1>5 DEF IndInv
-----------------------------------------------------------------------------
(* What one allocation does, whichever path it takes (pmm.rs:52-105).       *)

LEMMA BumpTakeFacts ==
    ASSUME TypeOK, Ascending, Behind, NEW n \in Nat \ {0}, BumpTake(n)
    PROVE  /\ cur' \in 1 .. Len(regions) /\ next' \in Nat /\ ret' \subseteq Nat
           /\ ret' \cap Held = {}
           /\ \A f \in Held \cup ret' : f < next' /\ f < regions[cur'].end
<1>1. PICK i \in cur .. Len(regions) :
          /\ Fits(i, n) /\ cur' = i /\ next' = Start(i) + n
          /\ ret' = Start(i) .. Start(i) + n - 1
  BY DEF BumpTake
<1>2. /\ cur \in Nat /\ Len(regions) \in Nat /\ next \in Nat
      /\ i \in 1 .. Len(regions) /\ cur \in 1 .. Len(regions) /\ cur <= i
      /\ Held \subseteq Nat
  <2>1. /\ cur \in 1 .. Len(regions) + 1 /\ next \in Nat
        /\ owned \subseteq Nat /\ freeList \in Seq(Nat)
    BY DEF TypeOK
  <2>2. Len(regions) \in Nat
    BY Entries
  <2>3. Held \subseteq Nat
    BY <2>1, ElementOfSeq DEF Held, OnFreeList
  <2> QED
    BY <1>1, <2>1, <2>2, <2>3
<1>3. /\ regions[i].base \in Nat /\ regions[i].end \in Nat
      /\ regions[cur].base \in Nat /\ regions[cur].end \in Nat
  BY <1>2, Entries
<1>4. Start(i) \in Nat /\ Start(i) + n <= regions[i].end
  BY <1>1, <1>2, <1>3 DEF Start, Fits
<1>5. \A f \in Held : f < next /\ f < regions[cur].end
  BY <1>2 DEF Behind
<1>6. \A f \in Held : f < Start(i)
  <2>1. CASE i = cur
    BY <1>5, <2>1 DEF Start
  <2>2. CASE i # cur
    <3>1. regions[cur].end <= regions[i].base
      BY <1>2, <2>2 DEF Ascending
    <3> QED
      BY <1>2, <1>3, <1>5, <2>2, <3>1 DEF Start
  <2> QED
    BY <2>1, <2>2
<1>7. cur' \in 1 .. Len(regions) /\ next' \in Nat /\ ret' \subseteq Nat
  BY <1>1, <1>2, <1>4
<1>8. ret' \cap Held = {}
  BY <1>1, <1>2, <1>4, <1>6
<1>9. \A f \in Held \cup ret' : f < next' /\ f < regions[cur'].end
  BY <1>1, <1>2, <1>3, <1>4, <1>6
<1> QED
  BY <1>7, <1>8, <1>9

AnyAlloc == \/ alloc_frame
            \/ \E n \in StackFrames : alloc_contiguous_frames(n)

LEMMA AllocFacts ==
    ASSUME TypeOK, Ascending, Behind, Listed, AnyAlloc
    PROVE  /\ regions' = regions
           /\ cur' \in 1 .. Len(regions) + 1 /\ next' \in Nat /\ free' \in Int
           /\ freeList' \in Seq(Nat) /\ ret' \subseteq Nat
           /\ ret' \cap owned = {} /\ ret' \cap OnFreeList' = {}
           /\ OnFreeList' \subseteq OnFreeList
           /\ \A i, j \in 1 .. Len(freeList') : freeList'[i] = freeList'[j] => i = j
           /\ cur' <= Len(regions) =>
                \A f \in Held \cup ret' : f < next' /\ f < regions[cur'].end
<1>1. /\ cur \in 1 .. Len(regions) + 1 /\ next \in Nat /\ free \in Int
      /\ freeList \in Seq(Nat) /\ Len(regions) \in Nat
      /\ Len(freeList) \in Nat /\ StackFrames \subseteq Nat \ {0}
  BY Entries, PmmAssumption DEF TypeOK
<1>2. \A i \in 1 .. Len(regions) : regions[i].base \in Nat /\ regions[i].end \in Nat
  BY Entries
<1>3. CASE PopFreeList
  <2> DEFINE k == Len(freeList)
  <2>1. /\ k \in Nat \ {0} /\ freeList[k] \in Nat
        /\ ret' = {freeList[k]} /\ freeList' = SubSeq(freeList, 1, k - 1)
        /\ free' = free - 1 /\ UNCHANGED bump
    BY <1>1, <1>3, ElementOfSeq DEF PopFreeList
  <2>2. /\ freeList' \in Seq(Nat) /\ Len(freeList') = k - 1
        /\ \A i \in 1 .. k - 1 : freeList'[i] = freeList[i]
    <3>1. freeList # << >>
      BY <1>3 DEF PopFreeList
    <3> QED
      BY <1>1, <2>1, <3>1, DropLast
  <2>3. OnFreeList' = { freeList[i] : i \in 1 .. k - 1 }
    BY <2>2 DEF OnFreeList
  <2>4. freeList[k] \in OnFreeList /\ freeList[k] \notin owned
    BY <2>1 DEF OnFreeList, Listed
  <2>5. freeList[k] \notin OnFreeList'
    BY <2>1, <2>3 DEF Listed
  <2>6. OnFreeList' \subseteq OnFreeList
    <3>1. \A i \in 1 .. k - 1 : i \in 1 .. k
      BY <2>1
    <3> QED
      BY <2>3, <3>1 DEF OnFreeList
  <2>7. \A i, j \in 1 .. Len(freeList') : freeList'[i] = freeList'[j] => i = j
    <3> SUFFICES ASSUME NEW i \in 1 .. Len(freeList'), NEW j \in 1 .. Len(freeList'),
                        freeList'[i] = freeList'[j]
                 PROVE  i = j
      OBVIOUS
    <3>1. i \in 1 .. k - 1 /\ j \in 1 .. k - 1
      BY <2>2
    <3>2. i \in 1 .. k /\ j \in 1 .. k
      BY <2>1, <3>1
    <3>3. freeList[i] = freeList[j]
      BY <2>2, <3>1
    <3> QED
      BY <3>2, <3>3 DEF Listed
  <2>8. cur' <= Len(regions) =>
            \A f \in Held \cup ret' : f < next' /\ f < regions[cur'].end
    BY <2>1, <2>4 DEF Behind, bump, Held
  <2> HIDE DEF k
  <2> QED
    BY <1>1, <2>1, <2>2, <2>4, <2>5, <2>6, <2>7, <2>8 DEF bump
<1>4. ASSUME NEW n \in Nat \ {0}, free' \in Int,
             UNCHANGED <<regions, freeList>>,
             BumpTake(n) \/ BumpExhausted(n)
      PROVE  /\ regions' = regions
             /\ cur' \in 1 .. Len(regions) + 1 /\ next' \in Nat
             /\ freeList' \in Seq(Nat) /\ ret' \subseteq Nat
             /\ ret' \cap owned = {} /\ ret' \cap OnFreeList' = {}
             /\ OnFreeList' \subseteq OnFreeList
             /\ \A i, j \in 1 .. Len(freeList') :
                    freeList'[i] = freeList'[j] => i = j
             /\ cur' <= Len(regions) =>
                  \A f \in Held \cup ret' : f < next' /\ f < regions[cur'].end
  <2>1. OnFreeList' = OnFreeList
    BY <1>4 DEF OnFreeList
  <2>2. CASE BumpTake(n)
    BY <1>1, <1>4, <2>1, <2>2, BumpTakeFacts DEF Listed, Held
  <2>3. CASE BumpExhausted(n)
    <3>1. /\ cur' = Len(regions) + 1 /\ next' \in Nat /\ ret' = {}
      BY <1>1, <1>2, <2>3 DEF BumpExhausted
    <3> QED
      BY <1>1, <1>4, <2>1, <3>1 DEF Listed
  <2> QED
    BY <1>4, <2>2, <2>3
<1>5. CASE BumpOne
  BY <1>1, <1>4, <1>5 DEF BumpOne
<1>6. ASSUME NEW n \in StackFrames, alloc_contiguous_frames(n)
      PROVE  /\ free' \in Int /\ UNCHANGED <<regions, freeList>>
             /\ BumpTake(n) \/ BumpExhausted(n)
             /\ n \in Nat \ {0}
  BY <1>1, <1>6 DEF alloc_contiguous_frames
<1> QED
  BY <1>3, <1>4, <1>5, <1>6, <1>1 DEF AnyAlloc, alloc_frame
-----------------------------------------------------------------------------
(* Every call that allocates, during boot and after.                        *)

LEMMA AllocInv ==
    ASSUME IndInv, AnyAlloc, boot \in {"heap", "run"},
           owned' = owned \cup ret', UNCHANGED <<memmap, fed, dirty, zeroing>>,
           boot' \in {"heap", "run", "panic"}, heap' \in Seq(Nat), HeapShort'
    PROVE  IndInv'
<1>1. /\ TypeOK /\ Ascending /\ Behind /\ Listed /\ Zeroed
  BY DEF IndInv
<1>2. /\ regions' = regions
      /\ cur' \in 1 .. Len(regions) + 1 /\ next' \in Nat /\ free' \in Int
      /\ freeList' \in Seq(Nat) /\ ret' \subseteq Nat
      /\ ret' \cap owned = {} /\ ret' \cap OnFreeList' = {}
      /\ OnFreeList' \subseteq OnFreeList
      /\ \A i, j \in 1 .. Len(freeList') : freeList'[i] = freeList'[j] => i = j
      /\ cur' <= Len(regions) =>
             \A f \in Held \cup ret' : f < next' /\ f < regions[cur'].end
  BY <1>1, AllocFacts
<1>3. TypeOK'
  BY <1>1, <1>2 DEF TypeOK
<1>4. Ascending' /\ Feeding'
  BY <1>1, <1>2 DEF Ascending, Feeding
<1>5. Held' \subseteq Held \cup ret'
  BY <1>2 DEF Held
<1>6. Behind'
  BY <1>2, <1>5 DEF Behind
<1>7. Listed'
  BY <1>1, <1>2 DEF Listed
<1>8. Zeroed'
  BY <1>1, <1>2 DEF Zeroed
<1> QED
  BY <1>3, <1>4, <1>6, <1>7, <1>8 DEF IndInv

(* A push adds the frame to the list.                                      *)
LEMMA OneMore ==
    ASSUME freeList \in Seq(Nat), NEW f \in Nat, freeList' = Append(freeList, f)
    PROVE  OnFreeList' = OnFreeList \cup {f}
<1> DEFINE n == Len(freeList)
<1>1. /\ n \in Nat /\ Len(freeList') = n + 1 /\ 1 .. n + 1 = (1 .. n) \cup {n + 1}
      /\ \A i \in 1 .. n : freeList'[i] = freeList[i]
      /\ freeList'[n + 1] = f
  OBVIOUS
<1>2. OnFreeList' = { freeList'[i] : i \in 1 .. n + 1 }
  BY <1>1 DEF OnFreeList
<1> HIDE DEF n
<1>3. { freeList'[i] : i \in 1 .. n + 1 } = { freeList[i] : i \in 1 .. n } \cup {f}
  BY <1>1
<1> QED
  BY <1>2, <1>3 DEF OnFreeList, n

(* free_frame(): zeroing, then the push (pmm.rs:107-126).                   *)
LEMMA FreeInv ==
    ASSUME IndInv, NEW f, Write(f) \/ ZeroFrame(f) \/ PushFrame(f)
    PROVE  IndInv'
<1>1. /\ TypeOK /\ Ascending /\ Feeding /\ Behind /\ Listed /\ Zeroed /\ HeapShort
  BY DEF IndInv
<1>2. CASE Write(f) \/ ZeroFrame(f)
  <2>1. /\ UNCHANGED <<memmap, boot, fed, regions, cur, next, free, freeList,
                       heap, owned>>
        /\ ret' = {} /\ f \in owned /\ f \notin zeroing
        /\ \/ dirty' = dirty \cup {f} /\ zeroing' = zeroing
           \/ dirty' = dirty \ {f} /\ zeroing' = zeroing \cup {f}
    BY <1>2 DEF Write, ZeroFrame, config, bump
  <2>2. OnFreeList' = OnFreeList
    BY <2>1 DEF OnFreeList
  <2>3. TypeOK'
    BY <1>1, <2>1 DEF TypeOK
  <2>4. Ascending' /\ Feeding' /\ HeapShort'
    BY <1>1, <2>1 DEF Ascending, Feeding, HeapShort
  <2>5. Behind' /\ Listed'
    BY <1>1, <2>1, <2>2 DEF Behind, Listed, Held
  <2>6. Zeroed'
    BY <1>1, <2>1, <2>2 DEF Zeroed, Listed
  <2> QED
    BY <2>3, <2>4, <2>5, <2>6 DEF IndInv
<1>3. CASE PushFrame(f)
  <2>1. f \in zeroing /\ f \in owned /\ f \in Nat /\ f \notin OnFreeList
    BY <1>1, <1>3 DEF PushFrame, TypeOK, Listed
  <2>2. /\ freeList' = Append(freeList, f) /\ free' = free + 1
        /\ owned' = owned \ {f} /\ zeroing' = zeroing \ {f} /\ ret' = {}
        /\ UNCHANGED <<memmap, boot, fed, regions, cur, next, heap, dirty>>
        /\ boot = "run"
    BY <1>3, <2>1 DEF PushFrame, bump
  <2>3. /\ freeList \in Seq(Nat) /\ Len(freeList) \in Nat
        /\ freeList' \in Seq(Nat) /\ Len(freeList') = Len(freeList) + 1
        /\ \A i \in 1 .. Len(freeList) : freeList'[i] = freeList[i]
        /\ freeList'[Len(freeList) + 1] = f
    BY <1>1, <2>1, <2>2 DEF TypeOK
  <2>4. OnFreeList' = OnFreeList \cup {f}
    BY <2>1, <2>2, <2>3, OneMore
  <2>5. TypeOK'
    BY <1>1, <2>1, <2>2, <2>3 DEF TypeOK
  <2>6. Ascending' /\ Feeding' /\ HeapShort'
    BY <1>1, <2>2 DEF Ascending, Feeding, HeapShort
  <2>7. Held' \subseteq Held
    BY <2>1, <2>2, <2>4 DEF Held
  <2>8. Behind'
    BY <1>1, <2>2, <2>7 DEF Behind
  <2>9. ASSUME NEW i \in 1 .. Len(freeList'), NEW j \in 1 .. Len(freeList'),
               freeList'[i] = freeList'[j]
        PROVE  i = j
    <3>1. CASE i \in 1 .. Len(freeList) /\ j \in 1 .. Len(freeList)
      BY <1>1, <2>3, <2>9, <3>1 DEF Listed
    <3>2. \A k \in 1 .. Len(freeList) : freeList[k] # f
      BY <2>1 DEF OnFreeList
    <3> QED
      BY <2>3, <2>9, <3>1, <3>2
  <2>10. Listed'
    BY <1>1, <2>2, <2>4, <2>9 DEF Listed
  <2>11. Zeroed'
    BY <1>1, <2>1, <2>2, <2>4 DEF Zeroed
  <2> QED
    BY <2>5, <2>6, <2>8, <2>10, <2>11 DEF IndInv
<1> QED
  BY <1>2, <1>3

LEMMA IndInvNext == IndInv /\ [Next]_vars => IndInv'
<1> SUFFICES ASSUME IndInv, [Next]_vars PROVE IndInv'
  OBVIOUS
<1>1. /\ TypeOK /\ HeapShort /\ StackFrames \subseteq Nat \ {0}
  BY PmmAssumption DEF IndInv
<1>2. CASE AddRegion
  BY <1>2, AddRegionInv
<1>3. CASE InitPmm
  BY <1>3, InitPmmInv
<1>4. CASE BootHeap
  <2>1. /\ AnyAlloc /\ boot = "heap" /\ owned' = owned \cup ret'
        /\ UNCHANGED <<memmap, fed, dirty, zeroing>>
        /\ boot' \in {"heap", "run", "panic"}
    BY <1>4 DEF BootHeap, AnyAlloc
  <2>2. /\ heap \in Seq(Nat) /\ Len(heap) \in Nat
        /\ HEAP_FRAMES \in Nat /\ Len(heap) < HEAP_FRAMES
    BY <1>1, <2>1, PmmAssumption DEF TypeOK, HeapShort
  <2>3. CASE ret' = {}
    <3>1. heap' = heap /\ boot' = "panic"
      BY <1>4, <2>3 DEF BootHeap
    <3> QED
      BY <2>1, <2>2, <3>1, AllocInv DEF HeapShort
  <2>4. CASE ret' # {}
    <3>1. ret' \subseteq Nat
      BY <2>1, AllocFacts DEF IndInv
    <3>2. heap' = Append(heap, CHOOSE f \in ret' : TRUE)
      BY <1>4, <2>4 DEF BootHeap
    <3>3. (CHOOSE f \in ret' : TRUE) \in Nat
      BY <2>4, <3>1
    <3>4. heap' \in Seq(Nat) /\ Len(heap') = Len(heap) + 1
      BY <2>2, <3>2, <3>3
    <3>5. boot' = IF Len(heap) + 1 = HEAP_FRAMES THEN "run" ELSE "heap"
      BY <1>4, <2>4 DEF BootHeap
    <3>6. HeapShort'
      BY <2>2, <3>4, <3>5 DEF HeapShort
    <3> QED
      BY <2>1, <3>4, <3>6, AllocInv
  <2> QED
    BY <2>3, <2>4
<1>5. CASE Alloc \/ \E n \in StackFrames : AllocContiguous(n)
  <2>1. /\ AnyAlloc /\ boot = "run" /\ boot' = "run" /\ heap' = heap
        /\ owned' = owned \cup ret'
        /\ UNCHANGED <<memmap, fed, dirty, zeroing>>
    BY <1>5 DEF Alloc, AllocContiguous, AnyAlloc, config
  <2>2. heap' \in Seq(Nat) /\ HeapShort'
    BY <1>1, <2>1 DEF TypeOK, HeapShort
  <2> QED
    BY <2>1, <2>2, AllocInv
<1>6. CASE \/ \E f \in owned : Write(f) \/ ZeroFrame(f)
           \/ \E f \in zeroing : PushFrame(f)
  BY <1>6, FreeInv
<1>7. CASE UNCHANGED vars
  BY <1>7 DEF vars, IndInv, TypeOK, Ascending, Feeding, Behind, Held, Listed,
              Zeroed, HeapShort, OnFreeList
<1> QED
  BY <1>2, <1>3, <1>4, <1>5, <1>6, <1>7 DEF Next

LEMMA Inductive == Spec => []IndInv
<1> QED
  BY IndInvInit, IndInvNext, PTL DEF Spec
-----------------------------------------------------------------------------
(* The allocator's variables keep their types (all of pmm.rs).              *)
THEOREM TypeCorrect == Spec => []TypeOK
<1>1. IndInv => TypeOK
  BY DEF IndInv
<1> QED
  BY <1>1, Inductive, PTL

(* Nothing held or listed is still ahead of the bump pointer.              *)
LEMMA OneHomeHolds == IndInv => OneHome
<1> SUFFICES ASSUME IndInv, NEW f \in Held, Bumpable(f) PROVE FALSE
  BY DEF IndInv, Listed, OneHome, Held
<1>1. PICK i \in cur .. Len(regions) : Start(i) <= f /\ f < regions[i].end
  BY DEF Bumpable
<1>2. /\ cur \in 1 .. Len(regions) + 1 /\ next \in Nat
      /\ owned \subseteq Nat /\ freeList \in Seq(Nat) /\ Len(regions) \in Nat
  BY Entries DEF IndInv, TypeOK
<1>3. f \in Nat
  BY <1>2, ElementOfSeq DEF Held, OnFreeList
<1>4. /\ i \in 1 .. Len(regions) /\ cur \in 1 .. Len(regions) /\ cur <= i
  BY <1>1, <1>2
<1>5. f < next /\ f < regions[cur].end
  BY <1>4 DEF IndInv, Behind
<1>6. /\ regions[i].base \in Nat /\ regions[cur].end \in Nat
  BY <1>4, Entries DEF IndInv
<1>7. CASE i = cur
  BY <1>1, <1>2, <1>3, <1>5, <1>7 DEF Start
<1>8. CASE i # cur
  <2>1. regions[cur].end <= regions[i].base
    BY <1>2, <1>4, <1>8 DEF IndInv, Ascending
  <2> QED
    BY <1>1, <1>3, <1>5, <1>6, <1>8, <2>1 DEF Start
<1> QED
  BY <1>7, <1>8

(* A frame is in one place at a time: held, listed once, or ahead of the    *)
(* bump pointer (pmm.rs:52-126), for every memory map and every order of    *)
(* calls.                                                                   *)
THEOREM FrameHasOneHome == Spec => []OneHome
BY OneHomeHolds, Inductive, PTL

(* No call returns a frame that somebody holds (pmm.rs:52-105).             *)
THEOREM HandoutIsFresh == Spec => HandoutFresh
<1>1. IndInv /\ [Next]_vars => [ret' \cap owned = {}]_vars
  <2> SUFFICES ASSUME IndInv, Next PROVE ret' \cap owned = {}
    OBVIOUS
  <2>1. CASE \/ BootHeap \/ Alloc
             \/ \E n \in StackFrames : AllocContiguous(n)
    <3>1. AnyAlloc
      BY <2>1 DEF BootHeap, Alloc, AllocContiguous, AnyAlloc
    <3> QED
      BY <3>1, AllocFacts DEF IndInv
  <2>2. CASE AddRegion \/ InitPmm
    BY <2>2 DEF AddRegion, InitPmm, IndInv, Feeding
  <2>3. CASE \/ \E f \in owned : Write(f) \/ ZeroFrame(f)
             \/ \E f \in zeroing : PushFrame(f)
    BY <2>3 DEF Write, ZeroFrame, PushFrame
  <2> QED
    BY <2>1, <2>2, <2>3 DEF Next
<1> QED
  BY <1>1, Inductive, PTL DEF Spec, HandoutFresh

(* What sits on the free list is zero (pmm.rs:74-76), whoever else writes   *)
(* in the meantime.                                                         *)
THEOREM FreeListScrubbed == Spec => []Scrubbed
<1>1. IndInv => Scrubbed
  BY DEF IndInv, Zeroed, Scrubbed
<1> QED
  BY <1>1, Inductive, PTL

(* The double-free guard (pmm.rs:122) stays silent for callers that keep to *)
(* the ownership rule.                                                      *)
THEOREM NoDoubleFreePanic == Spec => []GuardSilent
<1>1. IndInv => GuardSilent
  BY DEF IndInv, HeapShort, GuardSilent
<1> QED
  BY <1>1, Inductive, PTL
-----------------------------------------------------------------------------
(* Usable memory and the free counter.  Both rest on init() having found a *)
(* region (Ram): when none reaches above 1 MiB the bump pointer stays at   *)
(* page 0 of the first region, which may begin later (pmm.rs:38-47).  Then *)
(* the pointer is never before its region (Pointing), all that is or will  *)
(* be handed out is in a region, and the counter is at least the number of *)
(* frames that can still be handed out, which is what keeps its two        *)
(* saturating updates from saturating.                                     *)

Ram       == \E i \in 1 .. Len(regions) : FirstUsable(i)
AllFrames == { f \in Nat : \E i \in 1 .. Len(regions) : f \in Frames(i) }
Ahead     == { f \in Nat : Bumpable(f) }
Pointing  == cur <= Len(regions) => regions[cur].base <= next
OneRegion == ret # {} => \E i \in 1 .. Len(regions) : ret \subseteq Frames(i)
Counted   == free >= Cardinality(Ahead \cup OnFreeList)

Fed   == boot = "map" => ret = {} /\ free = Cardinality(AllFrames)
Sound == boot # "map" /\ Ram =>
            Pointing /\ Held \subseteq AllFrames /\ OneRegion /\ Counted

UsableInv == Fed /\ Sound /\ IsFiniteSet(owned)

LEMMA AllFinite ==
    ASSUME IndInv
    PROVE  IsFiniteSet(AllFrames) /\ Cardinality(AllFrames) \in Nat
<1>1. /\ Len(regions) \in Nat
      /\ \A i \in 1 .. Len(regions) : regions[i].base \in Nat /\ regions[i].end \in Nat
  BY Entries DEF IndInv
<1> DEFINE last == IF Len(regions) = 0 THEN 0 ELSE regions[Len(regions)].end
<1>2. last \in Nat
  BY <1>1
<1>3. \A i \in 1 .. Len(regions) : regions[i].end <= last
  <2> SUFFICES ASSUME NEW i \in 1 .. Len(regions) PROVE regions[i].end <= last
    OBVIOUS
  <2>1. CASE i = Len(regions)
    BY <1>1, <2>1
  <2>2. CASE i # Len(regions)
    <3>1. Len(regions) \in 1 .. Len(regions) /\ i < Len(regions)
      BY <1>1, <2>2
    <3>2. /\ regions[i].end <= regions[Len(regions)].base
          /\ regions[Len(regions)].base < regions[Len(regions)].end
      BY <3>1 DEF IndInv, Ascending
    <3> QED
      BY <1>1, <3>1, <3>2
  <2> QED
    BY <2>1, <2>2
<1> HIDE DEF last
<1>4. AllFrames \subseteq 0 .. last
  BY <1>1, <1>2, <1>3 DEF AllFrames, Frames
<1>5. IsFiniteSet(0 .. last)
  BY <1>2, FS_Interval
<1> QED
  BY <1>4, <1>5, FS_Subset, FS_CardinalityType

(* What lies ahead of the bump pointer lies in a region.                   *)
LEMMA AheadInside == IndInv /\ Pointing => Ahead \subseteq AllFrames
<1> SUFFICES ASSUME IndInv, Pointing, NEW f \in Nat, NEW i \in cur .. Len(regions),
                    Start(i) <= f, f < regions[i].end
             PROVE  f \in AllFrames
  BY DEF Ahead, Bumpable
<1>1. /\ cur \in 1 .. Len(regions) + 1 /\ Len(regions) \in Nat /\ next \in Nat
  BY Entries DEF IndInv, TypeOK
<1>2. i \in 1 .. Len(regions) /\ cur <= Len(regions)
  BY <1>1
<1>3. regions[i].base \in Nat /\ regions[i].end \in Nat
  BY <1>2, Entries DEF IndInv
<1>4. regions[i].base <= Start(i)
  BY <1>1, <1>2, <1>3 DEF Start, Pointing
<1>5. Start(i) \in Nat
  BY <1>1, <1>3 DEF Start
<1> QED
  BY <1>2, <1>3, <1>4, <1>5 DEF AllFrames, Frames

LEMMA AheadInsideNext == IndInv' /\ Pointing' => (Ahead \subseteq AllFrames)'
BY AheadInside, PTL

LEMMA FreeNotAhead == ASSUME IndInv, NEW f \in OnFreeList PROVE f \notin Ahead
BY OneHomeHolds DEF OneHome, Ahead

LEMMA UsableInit == Init => UsableInv
<1> SUFFICES ASSUME Init PROVE UsableInv
  OBVIOUS
<1>1. AllFrames = {}
  BY DEF Init, AllFrames
<1> QED
  BY <1>1, FS_EmptySet DEF Init, UsableInv, Fed, Sound

(* add_region() counts the pages it adds (pmm.rs:32).                      *)
LEMMA AddRegionCounts ==
    ASSUME IndInv, UsableInv, AddRegion
    PROVE  UsableInv'
<1> DEFINE e  == memmap[fed + 1]
           lo == PageUp(e.base)
           hi == PageDown(e.base + e.len)
<1>1. /\ boot = "map" /\ boot' = "map" /\ owned' = owned /\ ret' = ret
      /\ ret = {} /\ free = Cardinality(AllFrames) /\ IsFiniteSet(owned)
  BY DEF AddRegion, UsableInv, Fed
<1>2. IndInv' /\ Ascending'
  BY AddRegionInv DEF IndInv
<1>3. CASE UNCHANGED <<regions, free>>
  <2>1. AllFrames' = AllFrames
    BY <1>3 DEF AllFrames, Frames
  <2> QED
    BY <1>1, <1>3, <2>1 DEF UsableInv, Fed, Sound
<1>4. CASE /\ lo < hi
           /\ regions' = Append(regions, [base |-> lo, end |-> hi])
           /\ free' = free + (hi - lo)
  <2> DEFINE n == Len(regions)
  <2>1. lo \in Nat /\ hi \in Nat
    <3>1. fed + 1 \in 1 .. Len(memmap)
      BY Entries DEF AddRegion, IndInv, TypeOK
    <3>2. e.base \in Nat /\ e.len \in Nat /\ e.base + e.len \in Nat
      BY <3>1, Entries DEF IndInv
    <3> QED
      BY <3>2, PageRounding
  <2> HIDE DEF lo, hi
  <2>2. /\ regions \in Seq([base : Nat, end : Nat]) /\ n \in Nat
        /\ Len(regions') = n + 1
        /\ \A i \in 1 .. n : regions'[i] = regions[i]
        /\ regions'[n + 1] = [base |-> lo, end |-> hi]
    BY <1>4, <2>1 DEF IndInv, TypeOK
  <2>3. \A i \in 1 .. n : regions[i].base \in Nat /\ regions[i].end \in Nat
    BY Entries DEF IndInv
  <2>4. \A i \in 1 .. n : regions[i].end <= lo
    <3>1. \A i \in 1 .. n : regions'[i].end <= regions'[n + 1].base
      BY <1>2, <2>2 DEF Ascending
    <3> QED
      BY <2>2, <3>1
  <2>5. AllFrames' = AllFrames \cup (lo .. hi - 1)
    <3> DEFINE Page(f, i) == f \in regions'[i].base .. regions'[i].end - 1
    <3>1. \A f, i : i \in 1 .. n => (Page(f, i) <=> f \in Frames(i))
      BY <2>2 DEF Frames
    <3>2. \A f : Page(f, n + 1) <=> f \in lo .. hi - 1
      BY <2>2
    <3>3. 1 .. n + 1 = (1 .. n) \cup {n + 1}
      BY <2>2
    <3>4. AllFrames' = {f \in Nat : \E i \in 1 .. n + 1 : Page(f, i)}
      BY <2>2 DEF AllFrames, Frames
    <3>5. lo .. hi - 1 \subseteq Nat
      BY <2>1
    <3> HIDE DEF Page, n
    <3> QED
      BY <3>1, <3>2, <3>3, <3>4, <3>5 DEF AllFrames, n
  <2>6. AllFrames \cap (lo .. hi - 1) = {}
    <3> SUFFICES ASSUME NEW f \in AllFrames PROVE f < lo
      BY <2>1 DEF AllFrames
    <3>1. PICK i \in 1 .. n : f \in Frames(i)
      BY DEF AllFrames
    <3> QED
      BY <2>1, <2>3, <2>4, <3>1 DEF Frames
  <2>7. /\ IsFiniteSet(lo .. hi - 1) /\ Cardinality(lo .. hi - 1) = hi - lo
    <3>1. lo \in Int /\ hi - 1 \in Int /\ ~(lo > hi - 1)
      BY <1>4, <2>1
    <3>2. /\ IsFiniteSet(lo .. hi - 1)
          /\ Cardinality(lo .. hi - 1) =
                IF lo > hi - 1 THEN 0 ELSE (hi - 1) - lo + 1
      BY <3>1, FS_Interval
    <3> QED
      BY <2>1, <3>1, <3>2
  <2>8. Cardinality(AllFrames') = Cardinality(AllFrames) + (hi - lo)
    <3>1. IsFiniteSet(AllFrames) /\ Cardinality(AllFrames) \in Nat
      BY AllFinite
    <3> DEFINE S == lo .. hi - 1
    <3>2. /\ Cardinality(AllFrames \cup S) =
               Cardinality(AllFrames) + Cardinality(S) - Cardinality(AllFrames \cap S)
      BY <2>7, <3>1, FS_Union
    <3>3. Cardinality(AllFrames \cap S) = 0
      BY <2>6, FS_EmptySet
    <3> HIDE DEF S
    <3> QED
      BY <2>1, <2>5, <2>7, <3>1, <3>2, <3>3 DEF S
  <2> QED
    BY <1>1, <1>4, <2>8 DEF UsableInv, Fed, Sound
<1> QED
  BY <1>3, <1>4 DEF AddRegion

(* init() points into the first usable region, at or after its start.      *)
LEMMA InitPmmCounts ==
    ASSUME IndInv, UsableInv, InitPmm
    PROVE  UsableInv'
<1>1. /\ boot = "map" /\ boot' = "heap" /\ owned = {} /\ freeList = << >>
      /\ UNCHANGED <<regions, owned, ret, free, freeList>>
      /\ ret = {} /\ free = Cardinality(AllFrames) /\ IsFiniteSet(owned)
  BY DEF InitPmm, IndInv, Feeding, UsableInv, Fed
<1>2. IndInv'
  BY InitPmmInv
<1>3. Held' = {} /\ OnFreeList' = {}
  <2>1. Len(<< >>) = 0
    BY EmptySeq, Zenon
  <2> QED
    BY <1>1, <2>1 DEF Held, OnFreeList
<1>4. ASSUME Ram' PROVE Pointing' /\ Counted'
  <2>1. Ram
    BY <1>1, <1>4 DEF Ram, FirstUsable
  <2>2. PICK i \in 1 .. Len(regions) :
           cur' = i /\ next' = IF regions[i].base < KernelEnd
                               THEN KernelEnd ELSE regions[i].base
    BY <2>1 DEF InitPmm, Ram
  <2>3. regions[i].base \in Nat /\ KernelEnd \in Nat
    BY Entries, PmmAssumption DEF IndInv
  <2>4. Pointing'
    BY <1>1, <2>2, <2>3 DEF Pointing
  <2>5. Ahead' \subseteq AllFrames'
    BY <1>2, <2>4, AheadInsideNext
  <2>6. AllFrames' = AllFrames
    BY <1>1 DEF AllFrames, Frames
  <2>7. (Ahead \cup OnFreeList)' \subseteq AllFrames
    BY <1>3, <2>5, <2>6
  <2>8. Cardinality((Ahead \cup OnFreeList)') <= Cardinality(AllFrames)
    BY <2>7, AllFinite, FS_Subset
  <2> QED
    BY <1>1, <2>4, <2>8 DEF Counted
<1> QED
  BY <1>1, <1>3, <1>4 DEF UsableInv, Fed, Sound, OneRegion

(* What an allocation takes was ahead of the bump pointer or on top of the *)
(* list, and what is left is less by so much.                              *)
LEMMA BumpTakeLeaves ==
    ASSUME IndInv, Pointing, NEW n \in Nat \ {0}, BumpTake(n), UNCHANGED regions
    PROVE  /\ ret' \subseteq Ahead /\ Ahead' \subseteq Ahead \ ret' /\ Pointing'
           /\ IsFiniteSet(ret') /\ Cardinality(ret') = n
           /\ \E i \in 1 .. Len(regions) : ret' \subseteq Frames(i)
<1>1. PICK i \in cur .. Len(regions) :
          /\ Fits(i, n) /\ cur' = i /\ next' = Start(i) + n
          /\ ret' = Start(i) .. Start(i) + n - 1
  BY DEF BumpTake
<1>2. /\ cur \in 1 .. Len(regions) + 1 /\ next \in Nat /\ Len(regions) \in Nat
  BY Entries DEF IndInv, TypeOK
<1>3. /\ \A j \in 1 .. Len(regions) : regions[j].base \in Nat /\ regions[j].end \in Nat
      /\ \A j, k \in 1 .. Len(regions) : j < k => regions[j].end <= regions[k].base
  BY Entries DEF IndInv, Ascending
<1>4. /\ i \in 1 .. Len(regions) /\ cur \in 1 .. Len(regions)
      /\ Start(i) \in Nat /\ regions[i].base <= Start(i) /\ Start(i) + n <= regions[i].end
  BY <1>1, <1>2, <1>3 DEF Start, Fits, Pointing
<1>5. ret' \subseteq Ahead /\ ret' \subseteq Frames(i)
  <2> SUFFICES ASSUME NEW f \in ret' PROVE f \in Nat /\ Bumpable(f) /\ f \in Frames(i)
    BY DEF Ahead
  <2>1. f \in Nat /\ Start(i) <= f /\ f < regions[i].end /\ regions[i].base <= f
    BY <1>1, <1>3, <1>4
  <2> QED
    BY <1>1, <1>3, <1>4, <2>1 DEF Bumpable, Frames
<1>6. Ahead' \subseteq Ahead \ ret'
  <2> SUFFICES ASSUME NEW f \in Nat, NEW j \in cur' .. Len(regions),
                      (IF j = cur' THEN next' ELSE regions[j].base) <= f,
                      f < regions[j].end
               PROVE  Bumpable(f) /\ f \notin ret'
    BY DEF Ahead, Bumpable, Start
  <2>1. CASE j = i
    <3>1. Start(i) + n <= f
      BY <1>1, <2>1
    <3> QED
      BY <1>1, <1>4, <2>1, <3>1 DEF Bumpable
  <2>2. CASE j # i
    <3>1. j \in 1 .. Len(regions) /\ i < j /\ j \in cur .. Len(regions) /\ j # cur
      BY <1>1, <1>2, <2>2
    <3>2. Start(j) <= f /\ regions[i].end <= f
      BY <1>1, <1>3, <1>4, <2>2, <3>1 DEF Start
    <3>3. f \notin ret'
      BY <1>1, <1>3, <1>4, <3>2
    <3> QED
      BY <3>1, <3>2, <3>3 DEF Bumpable
  <2> QED
    BY <2>1, <2>2
<1>7. Pointing'
  BY <1>1, <1>3, <1>4 DEF Pointing
<1>8. IsFiniteSet(ret') /\ Cardinality(ret') = n
  <2>1. /\ Start(i) \in Int /\ Start(i) + n - 1 \in Int
        /\ ~(Start(i) > Start(i) + n - 1)
    BY <1>4
  <2>2. /\ IsFiniteSet(ret')
        /\ Cardinality(ret') = IF Start(i) > Start(i) + n - 1 THEN 0
                               ELSE (Start(i) + n - 1) - Start(i) + 1
    BY <1>1, <2>1, FS_Interval
  <2> QED
    BY <1>4, <2>1, <2>2
<1> QED
  BY <1>4, <1>5, <1>6, <1>7, <1>8

LEMMA AllocLeaves ==
    ASSUME IndInv, IsFiniteSet(owned), Sound, boot # "map", Ram, AnyAlloc
    PROVE  /\ ret' \subseteq AllFrames /\ Pointing' /\ OneRegion' /\ Counted'
           /\ IsFiniteSet(ret') /\ ret' \cap owned = {}
           /\ free' = free - Cardinality(ret')
<1>1. /\ TypeOK /\ Ascending /\ Behind /\ Listed /\ Pointing /\ Counted
      /\ Held \subseteq AllFrames
  BY DEF IndInv, Sound
<1>2. /\ regions' = regions /\ ret' \cap owned = {}
      /\ OnFreeList' \subseteq OnFreeList /\ ret' \cap OnFreeList' = {}
      /\ free \in Int /\ Len(regions) \in Nat
      /\ StackFrames \subseteq Nat \ {0}
  BY <1>1, AllocFacts, Entries, PmmAssumption DEF TypeOK
<1> DEFINE Left == Ahead \cup OnFreeList
<1>3. Ahead \subseteq AllFrames /\ OnFreeList \subseteq AllFrames
  BY <1>1, AheadInside DEF Held
<1>4. /\ IsFiniteSet(Left) /\ Cardinality(Left) \in Nat /\ free >= Cardinality(Left)
  BY <1>1, <1>3, AllFinite, FS_Subset, FS_CardinalityType DEF Counted
<1>5. ASSUME ret' \subseteq Left, Left' \subseteq Left \ ret', IsFiniteSet(ret')
      PROVE  /\ free >= Cardinality(ret') /\ Cardinality(ret') \in Nat
             /\ free - Cardinality(ret') >= Cardinality(Left')
             /\ ret' \subseteq AllFrames
  <2>1. /\ IsFiniteSet(Left \ ret')
        /\ Cardinality(Left \ ret') = Cardinality(Left) - Cardinality(Left \cap ret')
    BY <1>4, FS_Difference
  <2>2. Left \cap ret' = ret'
    BY <1>5
  <2>3. /\ Cardinality(Left') <= Cardinality(Left \ ret') /\ Cardinality(Left') \in Nat
    BY <1>5, <2>1, FS_Subset, FS_CardinalityType
  <2>4. Cardinality(ret') \in Nat /\ Cardinality(ret') <= Cardinality(Left)
    BY <1>4, <1>5, FS_Subset, FS_CardinalityType
  <2>5. ret' \subseteq AllFrames
    BY <1>3, <1>5
  <2>6. Cardinality(Left \ ret') = Cardinality(Left) - Cardinality(ret')
    BY <2>1, <2>2
  <2>7. \A a, b, c, d \in Nat : free >= a /\ c <= a /\ b <= d /\ d = a - c =>
            free >= c /\ free - c >= b
    BY <1>2
  <2>8. Cardinality(Left \ ret') \in Nat
    BY <2>1, FS_CardinalityType
  <2> HIDE DEF Left
  <2> QED
    BY <1>4, <2>3, <2>4, <2>5, <2>6, <2>7, <2>8
<1>6. CASE PopFreeList
  <2> DEFINE f == freeList[Len(freeList)]
  <2>1. /\ ret' = {f} /\ UNCHANGED bump /\ free' = free - 1 /\ f \in OnFreeList
    <3>1. freeList \in Seq(Nat) /\ freeList # << >>
      BY <1>1, <1>6 DEF PopFreeList, TypeOK
    <3>2. Len(freeList) \in 1 .. Len(freeList)
      BY <3>1, EmptySeq, LenProperties
    <3> QED
      BY <1>6, <3>2 DEF PopFreeList, OnFreeList
  <2>2. Ahead' = Ahead /\ Pointing'
    BY <1>1, <2>1 DEF Ahead, Bumpable, Start, Pointing, bump
  <2>3. f \notin Ahead
    BY <2>1, FreeNotAhead
  <2> HIDE DEF f
  <2>4. ret' \subseteq Left /\ Left' \subseteq Left \ ret'
    BY <1>2, <2>1, <2>2, <2>3
  <2>5. IsFiniteSet(ret') /\ Cardinality(ret') = 1
    BY <2>1, FS_Singleton
  <2>6. OneRegion'
    <3>1. f \in AllFrames
      BY <1>3, <2>1
    <3>2. \E i \in 1 .. Len(regions) : f \in Frames(i)
      BY <3>1 DEF AllFrames
    <3> QED
      BY <1>2, <2>1, <3>2 DEF OneRegion, Frames
  <2>7. Counted'
    BY <1>5, <2>1, <2>4, <2>5 DEF Counted
  <2> QED
    BY <1>2, <1>5, <2>1, <2>2, <2>4, <2>5, <2>6, <2>7
<1>7. ASSUME NEW n \in Nat \ {0}, BumpTake(n), UNCHANGED <<regions, freeList>>,
             free >= n => free' = free - n
      PROVE  /\ ret' \subseteq AllFrames /\ Pointing' /\ OneRegion' /\ Counted'
             /\ IsFiniteSet(ret') /\ free' = free - Cardinality(ret')
  <2>1. /\ ret' \subseteq Ahead /\ Ahead' \subseteq Ahead \ ret' /\ Pointing'
        /\ IsFiniteSet(ret') /\ Cardinality(ret') = n
        /\ \E i \in 1 .. Len(regions) : ret' \subseteq Frames(i)
    BY <1>1, <1>7, BumpTakeLeaves
  <2>2. ret' \subseteq Left /\ Left' \subseteq Left \ ret'
    BY <1>2, <2>1
  <2>3. OneRegion'
    BY <1>7, <2>1 DEF OneRegion, Frames
  <2>4. free' = free - n /\ Counted'
    BY <1>5, <1>7, <2>1, <2>2 DEF Counted
  <2> QED
    BY <1>5, <2>1, <2>2, <2>3, <2>4
<1>8. ASSUME NEW n, BumpExhausted(n), UNCHANGED <<regions, freeList, free>>
      PROVE  /\ ret' \subseteq AllFrames /\ Pointing' /\ OneRegion' /\ Counted'
             /\ IsFiniteSet(ret') /\ free' = free - Cardinality(ret')
  <2>1. ret' = {} /\ cur' = Len(regions) + 1
    BY <1>8 DEF BumpExhausted
  <2>2. Ahead' = {} /\ Pointing' /\ OneRegion'
    BY <1>2, <1>8, <2>1 DEF Ahead, Bumpable, Pointing, OneRegion
  <2>3. IsFiniteSet(ret') /\ Cardinality(ret') = 0
    BY <2>1, FS_EmptySet
  <2>4. ret' \subseteq Left /\ Left' \subseteq Left \ ret'
    BY <1>2, <2>1, <2>2
  <2>5. Counted'
    BY <1>2, <1>5, <1>8, <2>3, <2>4 DEF Counted
  <2> QED
    BY <1>2, <1>8, <2>1, <2>2, <2>3, <2>5
<1>9. CASE BumpOne
  <2>1. CASE BumpTake(1) /\ free' = (IF free > 0 THEN free - 1 ELSE free)
    BY <1>2, <1>7, <1>9, <2>1 DEF BumpOne
  <2>2. CASE BumpExhausted(1) /\ free' = free
    BY <1>2, <1>8, <1>9, <2>2 DEF BumpOne
  <2> QED
    BY <1>9, <2>1, <2>2 DEF BumpOne
<1>10. ASSUME NEW n \in StackFrames, alloc_contiguous_frames(n)
       PROVE  /\ ret' \subseteq AllFrames /\ Pointing' /\ OneRegion' /\ Counted'
              /\ IsFiniteSet(ret') /\ free' = free - Cardinality(ret')
  <2>1. n \in Nat \ {0}
    BY <1>2
  <2> QED
    BY <1>7, <1>8, <1>10, <2>1 DEF alloc_contiguous_frames
<1> QED
  BY <1>2, <1>6, <1>9, <1>10 DEF AnyAlloc, alloc_frame

(* A call takes finitely many frames.                                      *)
LEMMA TakenFinite == ASSUME IndInv, AnyAlloc PROVE IsFiniteSet(ret')
<1>1. CASE PopFreeList
  BY <1>1, FS_Singleton DEF PopFreeList
<1>2. ASSUME NEW n \in Nat \ {0}, BumpTake(n) PROVE IsFiniteSet(ret')
  <2>1. PICK i \in cur .. Len(regions) : ret' = Start(i) .. Start(i) + n - 1
    BY <1>2 DEF BumpTake
  <2>2. Start(i) \in Int
    <3>1. /\ cur \in 1 .. Len(regions) + 1 /\ next \in Nat /\ Len(regions) \in Nat
          /\ \A j \in 1 .. Len(regions) : regions[j].base \in Nat
      BY Entries DEF IndInv, TypeOK
    <3> QED
      BY <2>1, <3>1 DEF Start
  <2>3. Start(i) + n - 1 \in Int
    BY <2>2
  <2> QED
    BY <2>1, <2>2, <2>3, FS_Interval
<1>3. ASSUME NEW n, BumpExhausted(n) PROVE IsFiniteSet(ret')
  BY <1>3, FS_EmptySet DEF BumpExhausted
<1> QED
  BY <1>1, <1>2, <1>3, PmmAssumption
     DEF AnyAlloc, alloc_frame, BumpOne, alloc_contiguous_frames

LEMMA UsableNext == IndInv /\ UsableInv /\ [Next]_vars => UsableInv'
<1> SUFFICES ASSUME IndInv, UsableInv, [Next]_vars PROVE UsableInv'
  OBVIOUS
<1>1. CASE AddRegion
  BY <1>1, AddRegionCounts
<1>2. CASE InitPmm
  BY <1>2, InitPmmCounts
<1>3. CASE \/ BootHeap \/ Alloc
           \/ \E n \in StackFrames : AllocContiguous(n)
  <2>1. /\ AnyAlloc /\ boot # "map" /\ boot' # "map" /\ owned' = owned \cup ret'
    BY <1>3 DEF BootHeap, Alloc, AllocContiguous, AnyAlloc, config
  <2>2. Fed' /\ IsFiniteSet(owned) /\ Sound
    BY <2>1 DEF Fed, UsableInv
  <2>3. UNCHANGED regions /\ OnFreeList' \subseteq OnFreeList
    BY <2>1, AllocFacts DEF IndInv
  <2>4. AllFrames' = AllFrames /\ (Ram' <=> Ram)
    BY <2>3 DEF AllFrames, Frames, Ram, FirstUsable
  <2>5. Sound'
    <3>1. ASSUME Ram PROVE Pointing' /\ Held' \subseteq AllFrames /\ OneRegion' /\ Counted'
      BY <2>1, <2>2, <2>3, <3>1, AllocLeaves DEF Held, Sound
    <3> QED
      BY <2>4, <3>1 DEF Sound
  <2>6. IsFiniteSet(ret')
    BY <2>1, TakenFinite
  <2> QED
    BY <2>1, <2>2, <2>5, <2>6, FS_Union DEF UsableInv
<1>4. ASSUME NEW f \in owned, Write(f) \/ ZeroFrame(f) PROVE UsableInv'
  <2>1. /\ UNCHANGED <<boot, regions, cur, next, free, freeList, owned>>
        /\ ret' = {} /\ boot = "run"
    BY <1>4 DEF Write, ZeroFrame, config, bump
  <2>2. /\ AllFrames' = AllFrames /\ Held' = Held /\ (Ram' <=> Ram)
        /\ Ahead' = Ahead /\ OnFreeList' = OnFreeList
    BY <2>1 DEF AllFrames, Frames, Held, OnFreeList, Ahead, Bumpable, Start, Ram, FirstUsable
  <2> QED
    BY <2>1, <2>2 DEF UsableInv, Fed, Sound, Pointing, OneRegion, Counted
<1>5. ASSUME NEW f \in zeroing, PushFrame(f) PROVE UsableInv'
  <2>1. /\ f \in owned /\ f \notin OnFreeList
    BY <1>5 DEF IndInv, TypeOK, Listed
  <2>2. /\ freeList' = Append(freeList, f) /\ free' = free + 1
        /\ owned' = owned \ {f} /\ ret' = {} /\ boot = "run" /\ boot' = "run"
        /\ UNCHANGED <<regions, cur, next>>
    BY <1>5, <2>1 DEF PushFrame, bump
  <2>3. OnFreeList' = OnFreeList \cup {f}
    <3>1. freeList \in Seq(Nat) /\ f \in Nat
      BY <2>1 DEF IndInv, TypeOK
    <3> QED
      BY <2>2, <3>1, OneMore
  <2>4. /\ AllFrames' = AllFrames /\ Held' = Held /\ (Ram' <=> Ram) /\ Ahead' = Ahead
    BY <2>1, <2>2, <2>3
       DEF AllFrames, Frames, Held, Ahead, Bumpable, Start, Ram, FirstUsable
  <2>5. ASSUME Ram, Sound PROVE Counted'
    <3> DEFINE Left == Ahead \cup OnFreeList
    <3>1. /\ Pointing /\ Counted /\ Held \subseteq AllFrames
      BY <2>2, <2>5 DEF Sound
    <3>2. Ahead \subseteq AllFrames /\ OnFreeList \subseteq AllFrames
      BY <3>1, AheadInside DEF Held
    <3>3. IsFiniteSet(Left) /\ Cardinality(Left) \in Nat /\ free >= Cardinality(Left)
      BY <3>1, <3>2, AllFinite, FS_Subset, FS_CardinalityType DEF Counted
    <3>4. Left' = Left \cup {f}
      BY <2>3, <2>4
    <3>5. Cardinality(Left') = Cardinality(Left) \/ Cardinality(Left') = Cardinality(Left) + 1
      BY <3>3, <3>4, FS_AddElement
    <3>6. free \in Int
      BY DEF IndInv, TypeOK
    <3>7. free' >= Cardinality(Left')
      BY <2>2, <3>3, <3>5, <3>6
    <3> QED
      BY <3>7 DEF Counted
  <2>6. IsFiniteSet(owned')
    BY <2>2, FS_RemoveElement DEF UsableInv
  <2> QED
    BY <2>2, <2>4, <2>5, <2>6 DEF UsableInv, Fed, Sound, Pointing, OneRegion
<1>6. CASE UNCHANGED vars
  <2>1. /\ AllFrames' = AllFrames /\ Held' = Held /\ (Ram' <=> Ram)
        /\ Ahead' = Ahead /\ OnFreeList' = OnFreeList
    BY <1>6 DEF vars, AllFrames, Frames, Held, OnFreeList, Ahead, Bumpable, Start, Ram,
                FirstUsable
  <2> QED
    BY <1>6, <2>1 DEF vars, UsableInv, Fed, Sound, Pointing, OneRegion, Counted, Frames
<1> QED
  BY <1>1, <1>2, <1>3, <1>4, <1>5, <1>6 DEF Next

LEMMA UsableAlways == Spec => [](IndInv /\ UsableInv)
BY UsableInit, UsableNext, Inductive, PTL DEF Spec

-----------------------------------------------------------------------------
(* init() has found a region above 1 MiB, as it takes for granted          *)
(* (pmm.rs:38-47).  Below lie fewer than 256 frames, and a boot that has   *)
(* no others stops at the heap, which wants 512 (main.rs:171-176).         *)
RamFound == boot # "map" => Ram

(* Every frame that a caller holds is usable memory, and the frames of one *)
(* call lie in one region, so no stack spans a hole (pmm.rs:52-105).       *)
THEOREM OnlyRamHandedOut == Spec /\ []RamFound => []FramesUsable
<1>1. IndInv /\ UsableInv /\ RamFound => FramesUsable
  <2> SUFFICES ASSUME IndInv, UsableInv, RamFound PROVE FramesUsable
    OBVIOUS
  <2>1. CASE boot = "map"
    BY <2>1 DEF IndInv, Feeding, UsableInv, Fed, FramesUsable
  <2>2. CASE boot # "map"
    BY <2>2 DEF IndInv, UsableInv, Sound, RamFound, FramesUsable, OneRegion, Held, AllFrames
  <2> QED
    BY <2>1, <2>2
<1> QED
  BY <1>1, UsableAlways, PTL

(* The counter moves by exactly the frames that change hands, although two *)
(* of its updates saturate at zero (pmm.rs:55, 64, 97, 125): it never is   *)
(* less than what can still be handed out.                                 *)
THEOREM CounterExact == Spec /\ []RamFound => FreeCountConserved
<1>1. /\ IndInv /\ UsableInv /\ RamFound /\ [Next]_vars
      => [boot # "map" => free' + Cardinality(owned') = free + Cardinality(owned)]_vars
  <2> SUFFICES ASSUME IndInv, UsableInv, RamFound, Next, boot # "map"
               PROVE  free' + Cardinality(owned') = free + Cardinality(owned)
    OBVIOUS
  <2>1. /\ Ram /\ Sound /\ IsFiniteSet(owned) /\ Cardinality(owned) \in Nat /\ free \in Int
    BY FS_CardinalityType DEF RamFound, UsableInv, IndInv, TypeOK
  <2>2. CASE \/ BootHeap \/ Alloc
             \/ \E n \in StackFrames : AllocContiguous(n)
    <3>1. /\ AnyAlloc /\ owned' = owned \cup ret'
      BY <2>2 DEF BootHeap, Alloc, AllocContiguous, AnyAlloc
    <3>2. /\ IsFiniteSet(ret') /\ owned \cap ret' = {} /\ free' = free - Cardinality(ret')
      BY <2>1, <3>1, AllocLeaves
    <3>3. Cardinality(ret') \in Nat /\ Cardinality(owned \cap ret') = 0
      BY <3>2, FS_CardinalityType, FS_EmptySet
    <3>4. Cardinality(owned') = Cardinality(owned) + Cardinality(ret') - Cardinality(owned \cap ret')
      BY <2>1, <3>1, <3>2, FS_Union
    <3> QED
      BY <2>1, <3>2, <3>3, <3>4
  <2>3. CASE \E f \in owned : Write(f) \/ ZeroFrame(f)
    BY <2>3 DEF Write, ZeroFrame
  <2>4. ASSUME NEW f \in zeroing, PushFrame(f)
        PROVE  free' + Cardinality(owned') = free + Cardinality(owned)
    <3>1. f \in owned /\ f \notin OnFreeList
      BY <2>4 DEF IndInv, TypeOK, Listed
    <3>2. owned' = owned \ {f} /\ free' = free + 1
      BY <2>4, <3>1 DEF PushFrame
    <3>3. Cardinality(owned') = Cardinality(owned) - 1
      BY <2>1, <3>1, <3>2, FS_RemoveElement
    <3> QED
      BY <2>1, <3>2, <3>3
  <2> QED
    BY <2>2, <2>3, <2>4 DEF Next, AddRegion, InitPmm
<1> QED
  BY <1>1, UsableAlways, PTL DEF Spec, FreeCountConserved
=============================================================================
