-------------------------- MODULE TaskMemoryProofs --------------------------
(***************************************************************************)
(* Proofs about TaskMemory: every frame that was lent is on the list, in   *)
(* the keeping of one live task, or lost by a spawn that failed; and each  *)
(* task sees its program and its own stores, and nothing else.             *)
(***************************************************************************)
EXTENDS TaskMemory, FiniteSetTheorems, SequenceTheorems, WellFoundedInduction, TLAPS

-----------------------------------------------------------------------------
(* The allocator: a list without repetition of frames that were lent.       *)

Lendable(l, x) ==
    /\ l \in Seq(Frames) /\ x \in FirstFrame .. Limit
    /\ \A i, j \in 1 .. Len(l) : l[i] = l[j] => i = j
    /\ \A i \in 1 .. Len(l) : l[i] \in FirstFrame .. x - 1

AllocOK(a) == Lendable(a.list, a.next)

Enough(a, n) == n \in 0 .. Room(a)

(* The frames somebody has.                                                 *)
Out(a) == (FirstFrame .. a.next - 1) \ Elements(a.list)

LEMMA OutOf ==
    ASSUME NEW l, NEW x
    PROVE  Out([list |-> l, next |-> x]) = (FirstFrame .. x - 1) \ Elements(l)
BY DEF Out

LEMMA Sizes ==
    /\ KStack \in Nat \ {0} /\ PageSize \in Nat \ {0}
    /\ Levels \in Nat \ {0} /\ Fan \in Nat \ {0}
    /\ FirstFrame \in Nat /\ Limit \in Nat /\ FirstFrame <= Limit
BY TaskMemoryAssumption

(* Frames taken from the list one by one and then from those never lent are *)
(* different from each other and from those that were out.                  *)
LEMMA GotFacts ==
    ASSUME NEW a, AllocOK(a), NEW n, Enough(a, n)
    PROVE  /\ Got(a, n) \in Seq(Frames) /\ Len(Got(a, n)) = n
           /\ IsInjective(Got(a, n))
           /\ Elements(Got(a, n)) \cap Out(a) = {}
<1>0. PICK l, x, L, g : l = a.list /\ x = a.next /\ L = Len(l) /\ g = Got(a, n)
  OBVIOUS
<1>1. /\ L \in Nat /\ x \in Nat /\ n \in Nat /\ n <= L + Limit - x
      /\ x \in FirstFrame .. Limit /\ FirstFrame \in Nat /\ Limit \in Nat
      /\ DOMAIN l = 1 .. L
      /\ \A i \in 1 .. L : l[i] \in Frames /\ l[i] \in FirstFrame .. x - 1
      /\ \A i, j \in 1 .. L : l[i] = l[j] => i = j
  <2>1. Lendable(l, x) /\ n \in 0 .. L + Limit - x
    BY <1>0 DEF AllocOK, Room, Enough
  <2>2. L \in Nat /\ x \in Nat /\ x <= Limit
    BY <1>0, <2>1, Sizes DEF Lendable
  <2> QED
    BY <1>0, <2>1, <2>2, Sizes DEF Lendable
<1>2. g = [i \in 1 .. n |-> IF i <= L THEN l[L + 1 - i] ELSE x + i - L - 1]
  BY <1>0 DEF Got
<1>3. \A i \in 1 .. n : i <= L => g[i] = l[L + 1 - i] /\ L + 1 - i \in 1 .. L
  BY <1>1, <1>2
<1>4. \A i \in 1 .. n : i > L => g[i] = x + i - L - 1 /\ g[i] >= x /\ g[i] < Limit
  BY <1>1, <1>2
<1>5. \A i \in 1 .. n : g[i] \in Frames
  BY <1>1, <1>3, <1>4 DEF Frames
<1>6. g \in Seq(Frames) /\ Len(g) = n
  <2>1. g \in [1 .. n -> Frames]
    BY <1>2, <1>5
  <2> QED
    BY <1>1, <2>1
<1>7. IsInjective(g)
  <2> SUFFICES ASSUME NEW i \in 1 .. n, NEW j \in 1 .. n, g[i] = g[j] PROVE i = j
    BY <1>2 DEF IsInjective
  <2>1. CASE i <= L /\ j <= L
    BY <1>1, <1>3, <2>1
  <2>2. CASE i > L /\ j > L
    BY <1>1, <1>4, <2>2
  <2>3. CASE i <= L /\ j > L
    BY <1>1, <1>3, <1>4, <2>3
  <2>4. CASE i > L /\ j <= L
    BY <1>1, <1>3, <1>4, <2>4
  <2> QED
    BY <1>1, <2>1, <2>2, <2>3, <2>4
<1>8. \A i \in 1 .. n : g[i] \notin Out(a)
  <2>1. Out(a) = (FirstFrame .. x - 1) \ { l[i] : i \in 1 .. L }
    BY <1>0 DEF Out, Elements
  <2> QED
    BY <1>1, <1>3, <1>4, <2>1
<1> QED
  BY <1>0, <1>6, <1>7, <1>8 DEF Elements

(* They are what is out afterwards and was not before.                      *)
LEMMA AfterFacts ==
    ASSUME NEW a, AllocOK(a), NEW n, Enough(a, n)
    PROVE  /\ AllocOK(After(a, n))
           /\ Out(After(a, n)) = Out(a) \cup Elements(Got(a, n))
           /\ Room(After(a, n)) = Room(a) - n
<1>0. PICK l, x, L, g, m, y :
       /\ l = a.list /\ x = a.next /\ L = Len(l) /\ g = Got(a, n)
       /\ m = After(a, n).list /\ y = After(a, n).next
  OBVIOUS
<1>1. /\ L \in Nat /\ x \in Nat /\ n \in Nat /\ n <= L + Limit - x
      /\ x \in FirstFrame .. Limit /\ FirstFrame \in Nat /\ Limit \in Nat
      /\ DOMAIN l = 1 .. L
      /\ \A i \in 1 .. L : l[i] \in Frames /\ l[i] \in FirstFrame .. x - 1
      /\ \A i, j \in 1 .. L : l[i] = l[j] => i = j
  <2>1. Lendable(l, x) /\ n \in 0 .. L + Limit - x
    BY <1>0 DEF AllocOK, Room, Enough
  <2>2. L \in Nat /\ x \in Nat /\ x <= Limit
    BY <1>0, <2>1, Sizes DEF Lendable
  <2> QED
    BY <1>0, <2>1, <2>2, Sizes DEF Lendable
<1>2. /\ g = [i \in 1 .. n |-> IF i <= L THEN l[L + 1 - i] ELSE x + i - L - 1]
      /\ Elements(g) = { g[i] : i \in 1 .. n }
  BY <1>0, GotFacts DEF Got, Elements
<1>3. \A f : f \in Elements(g) <=> \E i \in 1 .. n : f = g[i]
  BY <1>2
<1>4. /\ Out(a) = (FirstFrame .. x - 1) \ { l[i] : i \in 1 .. L }
      /\ Out(After(a, n)) = (FirstFrame .. y - 1) \ { m[i] : i \in 1 .. Len(m) }
      /\ Room(a) = L + Limit - x /\ Room(After(a, n)) = Len(m) + Limit - y
  BY <1>0 DEF Out, Elements, Room
<1>5. ASSUME /\ m \in Seq(Frames) /\ y \in FirstFrame .. Limit
             /\ \A i, j \in 1 .. Len(m) : m[i] = m[j] => i = j
             /\ \A i \in 1 .. Len(m) : m[i] \in FirstFrame .. y - 1
      PROVE  AllocOK(After(a, n))
  BY <1>0, <1>5 DEF AllocOK, Lendable
<1>6. CASE n <= L
  <2>1. m = SubSeq(l, 1, L - n) /\ y = x
    <3>1. Smaller(n, L) = n /\ x + n - n = x
      BY <1>1, <1>6 DEF Smaller
    <3> QED
      BY <1>0, <3>1 DEF After
  <2>2. /\ m \in Seq(Frames) /\ Len(m) = L - n
        /\ \A i \in 1 .. L - n : m[i] = l[i] /\ i \in 1 .. L
    BY <1>1, <1>6, <2>1, SubSeqProperties
  <2>3. AllocOK(After(a, n))
    BY <1>1, <1>5, <2>1, <2>2
  <2>4. \A f : f \in Elements(g) <=> \E j \in L - n + 1 .. L : f = l[j]
    <3>1. \A j \in L - n + 1 .. L : L + 1 - j \in 1 .. n /\ g[L + 1 - j] = l[j]
      BY <1>1, <1>2, <1>6
    <3>2. \A i \in 1 .. n : L + 1 - i \in L - n + 1 .. L /\ g[i] = l[L + 1 - i]
      BY <1>1, <1>2, <1>6
    <3> QED
      BY <1>3, <3>1, <3>2
  <2>5. \A f : f \in Out(After(a, n)) <=> f \in Out(a) \cup Elements(g)
    <3> TAKE f
    <3>1. f \in Out(After(a, n)) <=>
             f \in FirstFrame .. x - 1 /\ \A i \in 1 .. L - n : f # l[i]
      BY <1>4, <2>1, <2>2
    <3>2. f \in Out(a) <=> f \in FirstFrame .. x - 1 /\ \A i \in 1 .. L : f # l[i]
      BY <1>4
    <3>3. \A i \in 1 .. L : i \in 1 .. L - n \/ i \in L - n + 1 .. L
      BY <1>1, <1>6
    <3>4. \A i \in L - n + 1 .. L : i \in 1 .. L /\ i \notin 1 .. L - n
      BY <1>1, <1>6
    <3> QED
      BY <1>1, <2>2, <2>4, <3>1, <3>2, <3>3, <3>4
  <2>6. Room(After(a, n)) = Room(a) - n
    BY <1>1, <1>4, <2>1, <2>2
  <2> QED
    BY <1>0, <2>3, <2>5, <2>6
<1>7. CASE n > L
  <2>1. m = SubSeq(l, 1, 0) /\ y = x + n - L
    <3>1. Smaller(n, L) = L /\ L - L = 0
      BY <1>1, <1>7 DEF Smaller
    <3> QED
      BY <1>0, <3>1 DEF After
  <2>2. m = << >> /\ Len(m) = 0 /\ m \in Seq(Frames)
    BY <2>1, SubSeqEmpty
  <2>3. AllocOK(After(a, n))
    BY <1>1, <1>5, <1>7, <2>1, <2>2
  <2>4. \A f : f \in Elements(g) <=> (\E i \in 1 .. L : f = l[i]) \/ f \in x .. y - 1
    <3>1. \A j \in 1 .. L : L + 1 - j \in 1 .. n /\ g[L + 1 - j] = l[j]
      <4> SUFFICES ASSUME NEW j \in 1 .. L
                   PROVE  L + 1 - j \in 1 .. n /\ g[L + 1 - j] = l[j]
        OBVIOUS
      <4>1. L + 1 - j \in 1 .. n /\ L + 1 - j <= L /\ L + 1 - (L + 1 - j) = j
        BY <1>1, <1>7
      <4> QED
        BY <1>2, <4>1
    <3>2. \A f \in x .. y - 1 : f - x + L + 1 \in 1 .. n /\ g[f - x + L + 1] = f
      BY <1>1, <1>2, <1>7, <2>1
    <3>3. \A i \in 1 .. n : \/ i <= L /\ L + 1 - i \in 1 .. L /\ g[i] = l[L + 1 - i]
                            \/ g[i] \in x .. y - 1
      BY <1>1, <1>2, <1>7, <2>1
    <3>4. \A i \in 1 .. n : (\E j \in 1 .. L : g[i] = l[j]) \/ g[i] \in x .. y - 1
      BY <3>3
    <3> QED
      BY <1>3, <3>1, <3>2, <3>4
  <2>5. \A f : f \in Out(After(a, n)) <=> f \in Out(a) \cup Elements(g)
    <3> TAKE f
    <3>1. f \in Out(After(a, n)) <=> f \in FirstFrame .. y - 1
      BY <1>4, <2>2
    <3>2. f \in FirstFrame .. y - 1 <=> f \in FirstFrame .. x - 1 \/ f \in x .. y - 1
      BY <1>1, <1>7, <2>1
    <3>3. f \in Out(a) <=> f \in FirstFrame .. x - 1 /\ \A i \in 1 .. L : f # l[i]
      BY <1>4
    <3> QED
      BY <1>1, <2>4, <3>1, <3>2, <3>3
  <2>6. Room(After(a, n)) = Room(a) - n
    BY <1>1, <1>4, <2>1, <2>2
  <2> QED
    BY <1>0, <2>3, <2>5, <2>6
<1> QED
  BY <1>1, <1>6, <1>7

(* Two takings are one.                                                     *)
LEMMA AfterAfter ==
    ASSUME NEW a, AllocOK(a), NEW m \in Nat, NEW n \in Nat
    PROVE  After(After(a, m), n) = After(a, m + n)
<1>0. PICK l, x, L : l = a.list /\ x = a.next /\ L = Len(l)
  OBVIOUS
<1>1. L \in Nat /\ x \in Nat /\ l \in Seq(Frames) /\ \A i \in 1 .. L : l[i] \in Frames
  BY <1>0, Sizes DEF AllocOK, Lendable
<1>2. CASE m > L
  <2>1. After(a, m) = [list |-> << >>, next |-> x + m - L]
    <3>1. Smaller(m, L) = L /\ L - L = 0 /\ SubSeq(l, 1, 0) = << >>
      BY <1>1, <1>2, SubSeqEmpty DEF Smaller
    <3> QED
      BY <1>0, <3>1 DEF After
  <2>2. After(After(a, m), n) = [list |-> SubSeq(<< >>, 1, 0), next |-> x + m - L + n - 0]
    <3>1. Smaller(n, 0) = 0 /\ 0 - 0 = 0 /\ Len(<< >>) = 0
      BY <1>1 DEF Smaller
    <3> QED
      BY <2>1, <3>1 DEF After
  <2>3. After(a, m + n) = [list |-> SubSeq(l, 1, 0), next |-> x + (m + n) - L]
    <3>1. Smaller(m + n, L) = L /\ L - L = 0
      BY <1>1, <1>2 DEF Smaller
    <3> QED
      BY <1>0, <3>1 DEF After
  <2>4. SubSeq(<< >>, 1, 0) = << >> /\ SubSeq(l, 1, 0) = << >>
    BY SubSeqEmpty
  <2> QED
    BY <1>1, <2>2, <2>3, <2>4
<1>3. CASE m <= L
  <2>0. PICK s, k : s = SubSeq(l, 1, L - m) /\ k = Smaller(n, L - m)
    OBVIOUS
  <2>1. /\ After(a, m) = [list |-> s, next |-> x]
        /\ s \in Seq(Frames) /\ Len(s) = L - m
        /\ \A i \in 1 .. L - m : s[i] = l[i]
    <3>1. After(a, m) = [list |-> s, next |-> x]
      <4>1. Smaller(m, L) = m /\ x + m - m = x
        BY <1>1, <1>3 DEF Smaller
      <4> QED
        BY <1>0, <2>0, <4>1 DEF After
    <3>2. \A i \in 1 .. L - m : l[i] \in Frames
      BY <1>0, <1>1, <1>3
    <3> QED
      BY <1>1, <1>3, <2>0, <3>1, <3>2, SubSeqProperties
  <2>2. k \in 0 .. L - m /\ Smaller(m + n, L) = m + k /\ x + n - k = x + (m + n) - (m + k)
    BY <1>1, <1>3, <2>0 DEF Smaller
  <2>3. SubSeq(s, 1, L - m - k) = SubSeq(l, 1, L - (m + k))
    <3>1. /\ SubSeq(s, 1, L - m - k) \in Seq(Frames)
          /\ Len(SubSeq(s, 1, L - m - k)) = L - m - k
          /\ \A i \in 1 .. L - m - k : SubSeq(s, 1, L - m - k)[i] = l[i]
      BY <1>1, <1>3, <2>1, <2>2, SubSeqProperties
    <3>2. /\ SubSeq(l, 1, L - (m + k)) \in Seq(Frames)
          /\ Len(SubSeq(l, 1, L - (m + k))) = L - m - k
          /\ \A i \in 1 .. L - m - k : SubSeq(l, 1, L - (m + k))[i] = l[i]
      <4>1. /\ \A i \in 1 .. L - (m + k) : l[i] \in Frames
            /\ L - (m + k) \in Int /\ L - (m + k) >= 0 /\ L - m - k = L - (m + k)
        BY <1>1, <1>3, <2>2
      <4> QED
        BY <4>1, SubSeqProperties
    <3> QED
      BY <3>1, <3>2, SeqEqual
  <2>4. After(After(a, m), n) = [list |-> SubSeq(s, 1, L - m - k), next |-> x + n - k]
    BY <2>0, <2>1 DEF After
  <2>5. After(a, m + n) = [list |-> SubSeq(l, 1, L - (m + k)), next |-> x + (m + n) - (m + k)]
    BY <1>0, <2>2 DEF After
  <2> QED
    BY <2>2, <2>3, <2>4, <2>5
<1> QED
  BY <1>1, <1>2, <1>3

-----------------------------------------------------------------------------
(* Sequences of frames without repetition.                                  *)

LEMMA Joining ==
    ASSUME NEW S, NEW s \in Seq(S), NEW t \in Seq(S)
    PROVE  /\ s \o t \in Seq(S)
           /\ Elements(s \o t) = Elements(s) \cup Elements(t)
           /\ IsInjective(s) /\ IsInjective(t) /\ Elements(s) \cap Elements(t) = {}
              => IsInjective(s \o t)
<1>0. PICK m, n, u : m = Len(s) /\ n = Len(t) /\ u = s \o t
  OBVIOUS
<1>1. /\ m \in Nat /\ n \in Nat /\ DOMAIN s = 1 .. m /\ DOMAIN t = 1 .. n
      /\ DOMAIN u = 1 .. m + n
      /\ u \in Seq(S) /\ Len(u) = m + n
      /\ \A i \in 1 .. m + n : u[i] = IF i <= m THEN s[i] ELSE t[i - m]
  BY <1>0, ConcatProperties, LenProperties
<1>2. /\ \A i \in 1 .. m : i \in 1 .. m + n /\ u[i] = s[i]
      /\ \A i \in 1 .. n : i + m \in 1 .. m + n /\ u[i + m] = t[i]
      /\ \A i \in 1 .. m + n : \/ i \in 1 .. m /\ u[i] = s[i]
                               \/ i - m \in 1 .. n /\ u[i] = t[i - m]
  BY <1>1
<1>3. Elements(u) = Elements(s) \cup Elements(t)
  BY <1>0, <1>1, <1>2 DEF Elements
<1>4. ASSUME IsInjective(s), IsInjective(t), Elements(s) \cap Elements(t) = {}
      PROVE  IsInjective(u)
  <2>1. \A i \in 1 .. m, j \in 1 .. n : s[i] # t[j]
    BY <1>0, <1>4 DEF Elements
  <2>2. /\ \A i, j \in 1 .. m : s[i] = s[j] => i = j
        /\ \A i, j \in 1 .. n : t[i] = t[j] => i = j
    BY <1>1, <1>4 DEF IsInjective
  <2> SUFFICES ASSUME NEW i \in 1 .. m + n, NEW j \in 1 .. m + n, u[i] = u[j]
               PROVE  i = j
    BY <1>1 DEF IsInjective
  <2>3. CASE i \in 1 .. m /\ j \in 1 .. m
    BY <1>2, <2>2, <2>3
  <2>4. CASE i - m \in 1 .. n /\ j - m \in 1 .. n
    <3>1. i - m = j - m
      BY <1>1, <2>2, <2>4
    <3> QED
      BY <1>1, <3>1
  <2>5. CASE i \in 1 .. m /\ j - m \in 1 .. n
    BY <1>1, <2>1, <2>5
  <2>6. CASE i - m \in 1 .. n /\ j \in 1 .. m
    BY <1>1, <2>1, <2>6
  <2> QED
    BY <1>2, <2>3, <2>4, <2>5, <2>6
<1> QED
  BY <1>0, <1>1, <1>3, <1>4

LEMMA Prefix ==
    ASSUME NEW S, NEW s \in Seq(S), NEW n \in Nat, n <= Len(s), IsInjective(s)
    PROVE  /\ SubSeq(s, 1, n) \in Seq(S) /\ IsInjective(SubSeq(s, 1, n))
           /\ Elements(SubSeq(s, 1, n)) = { s[i] : i \in 1 .. n }
<1>0. PICK u : u = SubSeq(s, 1, n)
  OBVIOUS
<1>1. /\ u \in Seq(S) /\ Len(u) = n /\ DOMAIN u = 1 .. n
      /\ \A i \in 1 .. n : u[i] = s[i] /\ i \in DOMAIN s
  <2>1. \A i \in 1 .. n : s[i] \in S /\ i \in DOMAIN s
    OBVIOUS
  <2>2. /\ u \in Seq(S) /\ Len(u) = n /\ \A i \in 1 .. n : u[i] = s[i]
    BY <1>0, <2>1, SubSeqProperties
  <2> QED
    BY <2>1, <2>2
<1>2. IsInjective(u)
  BY <1>1 DEF IsInjective
<1>3. Elements(u) = { s[i] : i \in 1 .. n }
  BY <1>1 DEF Elements
<1> QED
  BY <1>0, <1>1, <1>2, <1>3

(* A set of one or of none as a sequence.                                   *)
LEMMA AsSequence ==
    ASSUME NEW S, NEW V \in SUBSET S, \A x, y \in V : x = y
    PROVE  /\ SetToSeq(V) \in Seq(S) /\ IsInjective(SetToSeq(V))
           /\ Elements(SetToSeq(V)) = V
<1>1. IsFiniteSet(V) /\ Cardinality(V) \in {0, 1}
  <2>1. CASE V = {}
    BY <2>1, FS_EmptySet
  <2>2. CASE V # {}
    <3>1. PICK x \in V : TRUE
      BY <2>2
    <3>2. V = {x}
      BY <3>1
    <3> QED
      BY <3>2, FS_Singleton
  <2> QED
    BY <2>1, <2>2
<1>2. PICK n, f : n = Cardinality(V) /\ f = SetToSeq(V)
  OBVIOUS
<1>3. n \in {0, 1} /\ (n = 0 <=> V = {})
  BY <1>1, <1>2, FS_EmptySet
<1>4. \E g \in [1 .. n -> V] : IsInjective(g)
  <2>1. CASE n = 0
    <3>1. [i \in 1 .. n |-> i] \in [1 .. n -> V] /\ IsInjective([i \in 1 .. n |-> i])
      BY <2>1 DEF IsInjective
    <3> QED
      BY <3>1
  <2>2. CASE n = 1
    <3>1. PICK x \in V : TRUE
      BY <1>3, <2>2
    <3>2. [i \in 1 .. n |-> x] \in [1 .. n -> V] /\ IsInjective([i \in 1 .. n |-> x])
      BY <2>2 DEF IsInjective
    <3> QED
      BY <3>2
  <2> QED
    BY <1>3, <2>1, <2>2
<1>5. f \in [1 .. n -> V] /\ IsInjective(f)
  BY <1>2, <1>4 DEF SetToSeq
<1>6. Len(f) = n /\ f \in Seq(S)
  <2>1. f \in [1 .. n -> S] /\ n \in Nat
    BY <1>3, <1>5
  <2> QED
    BY <2>1
<1>7. Elements(f) = V
  <2>1. CASE n = 0
    BY <1>3, <1>5, <1>6, <2>1 DEF Elements
  <2>2. CASE n = 1
    <3>1. f[1] \in V
      BY <1>5, <2>2
    <3>2. Elements(f) = { f[1] }
      BY <1>6, <2>2 DEF Elements
    <3> QED
      BY <3>1, <3>2
  <2> QED
    BY <1>3, <2>1, <2>2
<1> QED
  BY <1>2, <1>5, <1>6, <1>7

-----------------------------------------------------------------------------
(* What a task keeps, and what reap puts on the list.                       *)

Keep(t) == Elements(t.table_frames) \cup t.stack \cup KFrames(t.kstack)

TaskOK(t) ==
    /\ t = [live |-> TRUE, zombie |-> t.zombie, prog |-> t.prog, map |-> t.map,
            table_frames |-> t.table_frames, stack |-> t.stack, kstack |-> t.kstack]
    /\ t.table_frames \in Seq(Frames) /\ IsInjective(t.table_frames)
    /\ t.stack \subseteq Frames /\ \A x, y \in t.stack : x = y
    /\ t.kstack \in Nat /\ KFrames(t.kstack) \subseteq Frames
    /\ Elements(t.table_frames) \cap t.stack = {}
    /\ Elements(t.table_frames) \cap KFrames(t.kstack) = {}
    /\ t.stack \cap KFrames(t.kstack) = {}
    /\ \A v \in DOMAIN t.map : t.map[v].frame \in Frames

LEMMA KernelStack ==
    ASSUME NEW base \in Nat, KFrames(base) \subseteq Frames
    PROVE  /\ [i \in 1 .. KStack |-> base + i - 1] \in Seq(Frames)
           /\ IsInjective([i \in 1 .. KStack |-> base + i - 1])
           /\ Elements([i \in 1 .. KStack |-> base + i - 1]) = KFrames(base)
<1>0. PICK u : u = [i \in 1 .. KStack |-> base + i - 1]
  OBVIOUS
<1>1. KStack \in Nat
  BY Sizes
<1>2. \A i \in 1 .. KStack : u[i] = base + i - 1 /\ u[i] \in KFrames(base)
  BY <1>0, <1>1 DEF KFrames
<1>3. u \in [1 .. KStack -> Frames]
  BY <1>0, <1>2
<1>4. u \in Seq(Frames) /\ Len(u) = KStack /\ DOMAIN u = 1 .. KStack
  BY <1>1, <1>3
<1>5. IsInjective(u)
  <2> SUFFICES ASSUME NEW i \in 1 .. KStack, NEW j \in 1 .. KStack, u[i] = u[j] PROVE i = j
    BY <1>4 DEF IsInjective
  <2> QED
    BY <1>1, <1>2
<1>6. \A f \in KFrames(base) : f - base + 1 \in 1 .. KStack /\ u[f - base + 1] = f
  BY <1>1, <1>2 DEF KFrames
<1>7. Elements(u) = KFrames(base)
  BY <1>2, <1>4, <1>6 DEF Elements
<1> QED
  BY <1>0, <1>4, <1>5, <1>7

LEMMA FreedFacts ==
    ASSUME NEW t, TaskOK(t)
    PROVE  /\ Freed(t) \in Seq(Frames) /\ IsInjective(Freed(t))
           /\ Elements(Freed(t)) = Keep(t)
<1>0. PICK a, b, c, V, base : /\ a = t.table_frames /\ V = t.stack /\ base = t.kstack
                              /\ b = SetToSeq(V) /\ c = [i \in 1 .. KStack |-> base + i - 1]
  OBVIOUS
<1>1. /\ a \in Seq(Frames) /\ IsInjective(a)
      /\ Elements(a) \cap V = {} /\ Elements(a) \cap KFrames(base) = {}
      /\ V \cap KFrames(base) = {}
  BY <1>0 DEF TaskOK
<1>2. b \in Seq(Frames) /\ IsInjective(b) /\ Elements(b) = V
  BY <1>0, AsSequence DEF TaskOK
<1>3. c \in Seq(Frames) /\ IsInjective(c) /\ Elements(c) = KFrames(base)
  BY <1>0, KernelStack DEF TaskOK
<1>4. a \o b \in Seq(Frames) /\ IsInjective(a \o b) /\ Elements(a \o b) = Elements(a) \cup V
  BY <1>1, <1>2, Joining
<1>5. /\ (a \o b) \o c \in Seq(Frames) /\ IsInjective((a \o b) \o c)
      /\ Elements((a \o b) \o c) = Elements(a) \cup V \cup KFrames(base)
  <2>1. Elements(a \o b) \cap Elements(c) = {}
    BY <1>1, <1>3, <1>4
  <2>2. /\ (a \o b) \o c \in Seq(Frames)
        /\ Elements((a \o b) \o c) = Elements(a \o b) \cup Elements(c)
        /\ IsInjective(a \o b) /\ IsInjective(c) /\ Elements(a \o b) \cap Elements(c) = {}
           => IsInjective((a \o b) \o c)
    BY <1>3, <1>4, Joining
  <2> QED
    BY <1>3, <1>4, <2>1, <2>2
<1>6. Freed(t) = (a \o b) \o c
  BY <1>0 DEF Freed
<1> QED
  BY <1>0, <1>5, <1>6 DEF Keep
-----------------------------------------------------------------------------
(* The invariant.  Frames are out exactly when a failed spawn lost them or  *)
(* one live task keeps them; nothing is known of them after a panic.        *)

Apart(holders, kept, gone, out) ==
    /\ \A p \in holders : kept[p] \cap gone = {}
    /\ \A p, q \in holders : p # q => kept[p] \cap kept[q] = {}
    /\ \A f : f \in out <=> f \in gone \/ \E p \in holders : f \in kept[p]

Kept == [p \in Pids |-> Keep(proc[p])]

OneKeeper == Apart(Live, Kept, lost, Out(Now))

Tasks ==
    /\ proc = [p \in Pids |-> proc[p]]
    /\ \A p \in Pids : IF proc[p].live THEN TaskOK(proc[p]) ELSE proc[p] = Gone
    /\ \A p \in Pids : p >= next_pid => proc[p] = Gone

Inv ==
    /\ AllocOK(Now) /\ next_pid \in Nat
    /\ mem = [f \in Frames |-> mem[f]] /\ lost \subseteq Frames
    /\ halted \in {"no", "tables", "kernel stack"}
    /\ Tasks
    /\ halted = "no" => OneKeeper

LEMMA OneMore ==
    ASSUME NEW L, NEW kept, NEW more, NEW gone, NEW out, NEW p, NEW X,
           Apart(L, kept, gone, out), p \notin L, X \cap out = {},
           more[p] = X, \A q \in L : more[q] = kept[q]
    PROVE  Apart(L \cup {p}, more, gone, out \cup X)
BY DEF Apart

LEMMA OneLess ==
    ASSUME NEW L, NEW kept, NEW less, NEW gone, NEW out, NEW p \in L,
           Apart(L, kept, gone, out), \A q \in L : q # p => less[q] = kept[q]
    PROVE  Apart(L \ {p}, less, gone, out \ kept[p])
BY DEF Apart

LEMMA MoreGone ==
    ASSUME NEW L, NEW kept, NEW gone, NEW out, NEW X, Apart(L, kept, gone, out),
           X \cap out = {}
    PROVE  Apart(L, kept, gone \cup X, out \cup X)
BY DEF Apart

LEMMA InvAccounted == Inv => Accounted
<1> SUFFICES ASSUME Inv PROVE Accounted
  OBVIOUS
<1>1. /\ list \in Seq(Frames) /\ next \in FirstFrame .. Limit
      /\ \A i, j \in 1 .. Len(list) : list[i] = list[j] => i = j
      /\ \A i \in 1 .. Len(list) : list[i] \in FirstFrame .. next - 1
  BY DEF Inv, AllocOK, Lendable, Now
<1>2. \A p \in Live : /\ TaskOK(proc[p])
                      /\ IsInjective(Freed(proc[p])) /\ Elements(Freed(proc[p])) = Keep(proc[p])
  BY FreedFacts DEF Inv, Tasks, Live
<1>3. TypeOK
  <2>1. \A p \in Live : /\ proc[p].table_frames \in Seq(Frames)
                        /\ \A v \in DOMAIN proc[p].map : proc[p].map[v].frame \in Frames
    BY <1>2 DEF TaskOK
  <2>2. DOMAIN mem = Frames
    BY DEF Inv
  <2> QED
    BY <1>1, <2>1, <2>2 DEF Inv, TypeOK
<1>4. ASSUME halted = "no"
      PROVE  /\ IsInjective(list) /\ lost \cap Elements(list) = {}
             /\ Lent = lost \cup Elements(list) \cup UNION { Elements(Freed(proc[p])) : p \in Live }
             /\ \A p \in Live :
                  /\ Elements(Freed(proc[p])) \cap (lost \cup Elements(list)) = {}
                  /\ \A q \in Live \ {p} :
                        Elements(Freed(proc[p])) \cap Elements(Freed(proc[q])) = {}
  <2>1. /\ \A p \in Live : Keep(proc[p]) \cap lost = {}
        /\ \A p, q \in Live : p # q => Keep(proc[p]) \cap Keep(proc[q]) = {}
        /\ \A f : f \in Out(Now) <=> f \in lost \/ \E p \in Live : f \in Keep(proc[p])
    <3>1. Apart(Live, Kept, lost, Out(Now)) /\ \A p \in Live : Kept[p] = Keep(proc[p])
      BY <1>4 DEF Inv, OneKeeper, Kept, Live
    <3> QED
      BY <3>1 DEF Apart
  <2>2. IsInjective(list)
    <3>1. DOMAIN list = 1 .. Len(list)
      BY <1>1
    <3> QED
      BY <1>1, <3>1 DEF IsInjective
  <2>3. Elements(list) \subseteq Lent
    BY <1>1 DEF Elements, Lent
  <2>4. Out(Now) = Lent \ Elements(list)
    BY DEF Out, Now, Lent
  <2>5. \A f : f \in Lent <=> f \in Elements(list) \/ f \in lost \/ \E p \in Live : f \in Keep(proc[p])
    BY <2>1, <2>3, <2>4
  <2>6. lost \cap Elements(list) = {}
    BY <2>1, <2>4
  <2>7. \A p \in Live : Keep(proc[p]) \cap Elements(list) = {}
    BY <2>1, <2>4
  <2>8. Lent = lost \cup Elements(list) \cup UNION { Keep(proc[p]) : p \in Live }
    BY <2>5
  <2>9. { Elements(Freed(proc[p])) : p \in Live } = { Keep(proc[p]) : p \in Live }
    BY <1>2
  <2> QED
    BY <1>2, <2>1, <2>2, <2>6, <2>7, <2>8, <2>9
<1> QED
  BY <1>2, <1>3, <1>4 DEF Accounted

-----------------------------------------------------------------------------
(* A task begins with frames nobody had, and the frames of a kernel stack,  *)
(* which are the first never lent.                                          *)

LEMMA Spawned ==
    ASSUME Inv, NEW a, AllocOK(a), NEW prog, NEW map, NEW owned, NEW V, NEW image,
           owned \in Seq(Frames), IsInjective(owned),
           V \subseteq Frames, \A x, y \in V : x = y,
           Elements(owned) \cap V = {}, (Elements(owned) \cup V) \cap Out(Now) = {},
           Out(a) = Out(Now) \cup Elements(owned) \cup V,
           \A v \in DOMAIN map : map[v].frame \in Frames,
           spawn(a, prog, map, owned, V, image)
    PROVE  Inv'
<1>0. PICK l, x : l = a.list /\ x = a.next
  OBVIOUS
<1>1. /\ Lendable(l, x) /\ halted = "no" /\ next_pid \in Pids
      /\ next_pid' = next_pid + 1 /\ list' = l
  BY <1>0 DEF AllocOK, spawn
<1>2. /\ l \in Seq(Frames) /\ x \in FirstFrame .. Limit /\ x \in Nat
      /\ \A i \in 1 .. Len(l) : l[i] \in FirstFrame .. x - 1
      /\ KStack \in Nat \ {0} /\ FirstFrame \in Nat /\ Limit \in Nat
      /\ next_pid \in Nat /\ Tasks /\ OneKeeper /\ lost \subseteq Frames
  BY <1>1, Sizes DEF Lendable, Inv
<1>3. /\ proc = [p \in Pids |-> proc[p]] /\ proc[next_pid] = Gone
      /\ \A p \in Pids : IF proc[p].live THEN TaskOK(proc[p]) ELSE proc[p] = Gone
      /\ \A p \in Pids : p >= next_pid => proc[p] = Gone
      /\ next_pid \notin Live
  BY <1>1, <1>2 DEF Tasks, Gone, Live
<1>4. CASE x + KStack > Limit
  <2>1. /\ halted' = "kernel stack" /\ next' = x
        /\ mem' = mem /\ proc' = proc /\ lost' = lost
    <3>1. ~(x + KStack <= Limit)
      BY <1>2, <1>4
    <3> QED
      BY <1>0, <3>1 DEF spawn
  <2>2. AllocOK(Now)'
    BY <1>1, <2>1 DEF AllocOK, Now
  <2>3. Tasks'
    <3>1. \A p \in Pids : p >= next_pid' => p >= next_pid
      BY <1>1, <1>2 DEF Pids
    <3> QED
      BY <1>3, <2>1, <3>1 DEF Tasks
  <2>4. next_pid' \in Nat
    BY <1>1, <1>2
  <2>5. /\ mem' = [f \in Frames |-> mem'[f]] /\ lost' \subseteq Frames
        /\ halted' \in {"no", "tables", "kernel stack"} /\ halted' # "no"
    BY <2>1 DEF Inv
  <2> QED
    BY <2>2, <2>3, <2>4, <2>5 DEF Inv
<1>5. CASE x + KStack <= Limit
  <2>0. PICK t : t = Tcb(prog, map, owned, V, x)
    OBVIOUS
  <2>1. /\ proc' = [proc EXCEPT ![next_pid] = t] /\ next' = x + KStack
        /\ lost' = lost /\ halted' = halted
        /\ mem' = [f \in Frames |-> mem'[f]]
    BY <1>0, <1>5, <2>0 DEF spawn
  <2>2. Lendable(l, x + KStack) /\ Lendable(l, x)
    BY <1>1, <1>2, <1>5 DEF Lendable
  <2>3. AllocOK(Now)'
    BY <1>1, <2>1, <2>2 DEF AllocOK, Now
  <2>4. Elements(l) \subseteq FirstFrame .. x - 1
    BY <1>2 DEF Elements
  <2>5. /\ Out(a) = (FirstFrame .. x - 1) \ Elements(l)
        /\ Out(Now)' = (FirstFrame .. x + KStack - 1) \ Elements(l)
    <3>1. Out(Now)' = (FirstFrame .. x + KStack - 1) \ Elements(l)
      <4>0. PICK y : y = x + KStack
        OBVIOUS
      <4>1. Now' = [list |-> l, next |-> y]
        BY <1>1, <2>1, <4>0 DEF Now
      <4>2. Out([list |-> l, next |-> y]) = (FirstFrame .. y - 1) \ Elements(l)
        BY OutOf
      <4>3. Out(Now)' = (FirstFrame .. y - 1) \ Elements(l)
        BY <4>1, <4>2 DEF Out, Elements
      <4>4. y - 1 = x + KStack - 1
        BY <1>2, <4>0
      <4> QED
        BY <4>3, <4>4
    <3>2. Out(a) = (FirstFrame .. x - 1) \ Elements(l)
      BY <1>0 DEF Out
    <3> QED
      BY <3>1, <3>2
  <2>6. /\ \A f : f \in FirstFrame .. x + KStack - 1 <=> f \in FirstFrame .. x - 1 \/ f \in KFrames(x)
        /\ \A f : ~(f \in FirstFrame .. x - 1 /\ f \in KFrames(x))
    BY <1>2 DEF KFrames
  <2>7. /\ KFrames(x) \cap Out(a) = {}
        /\ \A f : f \in Out(Now)' <=> f \in Out(a) \/ f \in KFrames(x)
    BY <2>4, <2>5, <2>6
  <2>8. KFrames(x) \subseteq Frames
    BY <1>2, <1>5 DEF KFrames, Frames
  <2>9. TaskOK(t) /\ t.live /\ Keep(t) = Elements(owned) \cup V \cup KFrames(x)
    BY <1>2, <2>0, <2>7, <2>8 DEF Tcb, TaskOK, Keep
  <2>10. /\ proc' = [p \in Pids |-> proc'[p]]
         /\ proc'[next_pid] = t
         /\ \A p \in Pids : p # next_pid => proc'[p] = proc[p]
    BY <1>1, <1>3, <2>1
  <2>11. Tasks'
    <3>1. \A p \in Pids : IF proc'[p].live THEN TaskOK(proc'[p]) ELSE proc'[p] = Gone
      BY <1>3, <2>9, <2>10
    <3>2. \A p \in Pids : p >= next_pid' => proc'[p] = Gone
      <4> SUFFICES ASSUME NEW p \in Pids, p >= next_pid' PROVE proc'[p] = Gone
        OBVIOUS
      <4>1. p >= next_pid /\ p # next_pid
        BY <1>1, <1>2 DEF Pids
      <4> QED
        BY <1>3, <2>10, <4>1
    <3> QED
      BY <2>10, <3>1, <3>2 DEF Tasks
  <2>12. Live' = Live \cup {next_pid}
    BY <1>1, <2>9, <2>10 DEF Live
  <2>13. Kept' = [p \in Pids |-> Keep(proc'[p])]
    BY DEF Kept, Keep
  <2>14. Kept'[next_pid] = Keep(t) /\ \A p \in Live : Kept'[p] = Kept[p]
    <3>1. \A p \in Live : p # next_pid /\ p \in Pids
      BY <1>3 DEF Live
    <3> QED
      BY <1>1, <2>10, <2>13, <3>1 DEF Kept
  <2>15. OneKeeper'
    <3>1. Keep(t) \cap Out(Now) = {} /\ Out(Now)' = Out(Now) \cup Keep(t)
      BY <2>7, <2>9
    <3>2. Apart(Live \cup {next_pid}, Kept', lost, Out(Now) \cup Keep(t))
      BY <1>2, <1>3, <2>14, <3>1, OneMore DEF OneKeeper
    <3> QED
      BY <2>1, <2>12, <3>1, <3>2 DEF OneKeeper
  <2> QED
    BY <1>1, <1>2, <2>1, <2>3, <2>11, <2>15 DEF Inv
<1> QED
  BY <1>2, <1>4, <1>5

-----------------------------------------------------------------------------
(* Pages, and the tables they need.                                         *)

LEMMA PagesBelow ==
    ASSUME NEW P \in Nat \ {0}, NEW F \in Nat, NEW e \in Nat, e <= F * P
    PROVE  (e + P - 1) \div P <= F
<1>1. PICK q, r : q = (e + P - 1) \div P /\ r = (e + P - 1) % P
  OBVIOUS
<1>2. q \in Int /\ r \in 0 .. P - 1 /\ e + P - 1 = P * q + r
  BY <1>1
<1>3. P * q <= F * P + P - 1
  BY <1>2, SMT
<1>4. ASSUME q >= F + 1 PROVE FALSE
  <2>1. P * q >= P * (F + 1)
    BY <1>2, <1>4, SMT
  <2>2. P * (F + 1) = F * P + P
    BY SMT
  <2> QED
    BY <1>2, <1>3, <2>1, <2>2, SMT
<1> QED
  BY <1>1, <1>2, <1>4

LEMMA TouchedBelow ==
    ASSUME NEW prog \in Programs \cup {Hello}
    PROVE  Touched(prog) \subseteq 0 .. FirstFrame - 1
<1> SUFFICES ASSUME NEW i \in 1 .. Len(prog) PROVE Pages(prog[i]) \subseteq 0 .. FirstFrame - 1
  BY DEF Touched
<1>1. PICK b, n : b = prog[i].vaddr /\ n = prog[i].memsz
  OBVIOUS
<1>2. prog[i] \in [vaddr : Nat, file : Seq(Nat), memsz : Nat, w : BOOLEAN, x : BOOLEAN]
  BY TaskMemoryAssumption, ElementOfSeq
<1>3. b \in Nat /\ n \in Nat /\ b + n <= FirstFrame * PageSize
  BY <1>1, <1>2, TaskMemoryAssumption
<1>4. Pages(prog[i]) = b \div PageSize .. (b + n + PageSize - 1) \div PageSize - 1
  BY <1>1 DEF Pages
<1>5. (b + n + PageSize - 1) \div PageSize <= FirstFrame
  BY <1>3, PagesBelow, Sizes
<1>6. /\ b \div PageSize >= 0 /\ b \div PageSize \in Int
      /\ (b + n + PageSize - 1) \div PageSize \in Int
  BY <1>3, Sizes
<1> QED
  <2>1. PICK lo, hi : lo = b \div PageSize /\ hi = (b + n + PageSize - 1) \div PageSize
    OBVIOUS
  <2>2. lo \in Int /\ lo >= 0 /\ hi \in Int /\ hi <= FirstFrame
    BY <1>5, <1>6, <2>1
  <2>3. lo .. hi - 1 \subseteq 0 .. FirstFrame - 1
    BY <2>2, Sizes
  <2> QED
    BY <1>4, <2>1, <2>3

LEMMA TouchedFinite ==
    ASSUME NEW prog \in Programs \cup {Hello}
    PROVE  IsFiniteSet(Touched(prog)) /\ Cardinality(Touched(prog)) \in Nat
<1>1. IsFiniteSet(0 .. FirstFrame - 1)
  <2>1. 0 \in Int /\ FirstFrame - 1 \in Int
    BY Sizes
  <2> QED
    BY <2>1, FS_Interval
<1>2. IsFiniteSet(Touched(prog))
  BY <1>1, TouchedBelow, FS_Subset
<1> QED
  BY <1>2, FS_CardinalityType

LEMMA RankWithin ==
    ASSUME NEW prog \in Programs \cup {Hello}, NEW v \in Touched(prog)
    PROVE  Rank(prog, v) \in 1 .. Cardinality(Touched(prog))
<1> DEFINE R == { u \in Touched(prog) : \/ Toucher(prog, u) < Toucher(prog, v)
                                        \/ Toucher(prog, u) = Toucher(prog, v) /\ u <= v }
<1>1. IsFiniteSet(Touched(prog)) /\ Cardinality(Touched(prog)) \in Nat
  BY TouchedFinite
<1>2. R \in SUBSET Touched(prog)
  OBVIOUS
<1>3. v \in R
  <2>1. v \in 0 .. FirstFrame - 1
    BY TouchedBelow
  <2>2. v <= v
    BY <2>1, Sizes
  <2> QED
    BY <2>2
<1>4. IsFiniteSet(R) /\ Cardinality(R) <= Cardinality(Touched(prog))
  BY <1>1, <1>2, FS_Subset
<1>5. Cardinality(R) \in Nat /\ Cardinality(R) # 0
  BY <1>3, <1>4, FS_CardinalityType, FS_EmptySet
<1>6. Rank(prog, v) = Cardinality(R)
  BY DEF Rank
<1> HIDE DEF R
<1> QED
  BY <1>1, <1>4, <1>5, <1>6

LEMMA SomeTables ==
    ASSUME NEW vs, IsFiniteSet(vs)
    PROVE  Tables(vs) \in Nat \ {0}
<1> DEFINE D == (1 .. Levels) \X vs
           T == { <<l, v \div Fan ^ l>> : l \in 1 .. Levels, v \in vs }
           f == [x \in D |-> <<x[1], x[2] \div Fan ^ x[1]>>]
<1>1. IsFiniteSet(1 .. Levels)
  BY Sizes, FS_Interval
<1>2. IsFiniteSet(D)
  BY <1>1, FS_Product
<1>3. f \in Surjection(D, T)
  <2>1. \A x \in D : f[x] \in T
    OBVIOUS
  <2>2. \A y \in T : \E x \in D : f[x] = y
    <3> SUFFICES ASSUME NEW y \in T PROVE \E x \in D : f[x] = y
      OBVIOUS
    <3>1. PICK l \in 1 .. Levels, v \in vs : y = <<l, v \div Fan ^ l>>
      OBVIOUS
    <3>2. <<l, v>> \in D /\ f[<<l, v>>] = <<l, v \div Fan ^ l>>
      OBVIOUS
    <3> QED
      BY <3>1, <3>2
  <2>3. f \in [D -> T]
    BY <2>1
  <2> HIDE DEF D, T, f
  <2> QED
    BY <2>2, <2>3 DEF Surjection
<1>4. IsFiniteSet(T)
  BY <1>2, <1>3, FS_Surjection
<1>5. Cardinality(T) \in Nat
  BY <1>4, FS_CardinalityType
<1>6. Tables(vs) = 1 + Cardinality(T)
  BY DEF Tables
<1> HIDE DEF T
<1> QED
  BY <1>5, <1>6

-----------------------------------------------------------------------------
(* The operations.                                                          *)

LEMMA TakenTwice ==
    ASSUME AllocOK(Now), NEW m \in Nat, NEW t \in Nat, Room(Now) >= m + t
    PROVE  /\ AllocOK(After(Now, m + t))
           /\ Got(Now, m) \in Seq(Frames) /\ Len(Got(Now, m)) = m
           /\ IsInjective(Got(Now, m))
           /\ Got(After(Now, m), t) \in Seq(Frames) /\ IsInjective(Got(After(Now, m), t))
           /\ Elements(Got(Now, m)) \cap Elements(Got(After(Now, m), t)) = {}
           /\ Elements(Got(Now, m)) \cap Out(Now) = {}
           /\ Elements(Got(After(Now, m), t)) \cap Out(Now) = {}
           /\ Out(After(Now, m + t)) =
                 Out(Now) \cup Elements(Got(Now, m)) \cup Elements(Got(After(Now, m), t))
<1>0. PICK r : r = Room(Now)
  OBVIOUS
<1>1. r \in Int
  <2>1. Lendable(list, next)
    BY DEF AllocOK, Now
  <2>2. Len(list) \in Nat /\ next \in Int /\ Limit \in Int
    BY <2>1, Sizes DEF Lendable
  <2>3. r = Len(list) + Limit - next
    BY <1>0 DEF Room, Now
  <2> QED
    BY <2>2, <2>3
<1>2. m \in 0 .. r /\ m + t \in 0 .. r /\ t \in 0 .. r - m
  BY <1>0, <1>1
<1>3. Enough(Now, m) /\ Enough(Now, m + t)
  BY <1>0, <1>2 DEF Enough
<1>4. /\ Got(Now, m) \in Seq(Frames) /\ Len(Got(Now, m)) = m
      /\ IsInjective(Got(Now, m)) /\ Elements(Got(Now, m)) \cap Out(Now) = {}
      /\ AllocOK(After(Now, m)) /\ Room(After(Now, m)) = r - m
      /\ Out(After(Now, m)) = Out(Now) \cup Elements(Got(Now, m))
      /\ AllocOK(After(Now, m + t))
  BY <1>0, <1>3, GotFacts, AfterFacts
<1>5. Enough(After(Now, m), t)
  BY <1>2, <1>4 DEF Enough
<1>6. /\ Got(After(Now, m), t) \in Seq(Frames) /\ IsInjective(Got(After(Now, m), t))
      /\ Elements(Got(After(Now, m), t)) \cap Out(After(Now, m)) = {}
      /\ Out(After(After(Now, m), t)) =
            Out(After(Now, m)) \cup Elements(Got(After(Now, m), t))
  BY <1>4, <1>5, GotFacts, AfterFacts
<1>7. After(After(Now, m), t) = After(Now, m + t)
  BY AfterAfter
<1> QED
  BY <1>4, <1>6, <1>7

LEMMA SpawnProgramInv == ASSUME Inv, NEW prog \in Programs, spawn_program(prog) PROVE Inv'
<1>0. PICK n, got, pages, stack, t, tabs, image :
         /\ n = Cardinality(Touched(prog)) /\ got = Got(Now, n + 1)
         /\ pages = load_fresh(prog, got) /\ stack = got[n + 1]
         /\ t = Tables(Touched(prog) \cup {stack}) /\ tabs = Got(After(Now, n + 1), t)
         /\ Room(Now) >= n + 1 + t
         /\ spawn(After(Now, n + 1 + t), prog, UserMap(pages, stack),
                  tabs \o SubSeq(got, 1, n), {stack}, image)
  BY DEF spawn_program
<1>1. IsFiniteSet(Touched(prog)) /\ n \in Nat /\ n + 1 \in Nat
  BY <1>0, TouchedFinite
<1>2. t \in Nat
  <2>1. IsFiniteSet(Touched(prog) \cup {stack})
    BY <1>1, FS_AddElement
  <2> QED
    BY <1>0, <2>1, SomeTables
<1>3. /\ AllocOK(After(Now, n + 1 + t))
      /\ got \in Seq(Frames) /\ Len(got) = n + 1 /\ IsInjective(got)
      /\ tabs \in Seq(Frames) /\ IsInjective(tabs)
      /\ Elements(got) \cap Elements(tabs) = {}
      /\ Elements(got) \cap Out(Now) = {} /\ Elements(tabs) \cap Out(Now) = {}
      /\ Out(After(Now, n + 1 + t)) = Out(Now) \cup Elements(got) \cup Elements(tabs)
  <2>1. PICK m : m = n + 1
    OBVIOUS
  <2>2. /\ AllocOK(Now) /\ m \in Nat /\ Room(Now) >= m + t
        /\ got = Got(Now, m) /\ tabs = Got(After(Now, m), t)
    BY <1>0, <1>1, <2>1 DEF Inv
  <2>3. /\ AllocOK(After(Now, m + t))
        /\ got \in Seq(Frames) /\ Len(got) = m /\ IsInjective(got)
        /\ tabs \in Seq(Frames) /\ IsInjective(tabs)
        /\ Elements(got) \cap Elements(tabs) = {}
        /\ Elements(got) \cap Out(Now) = {} /\ Elements(tabs) \cap Out(Now) = {}
        /\ Out(After(Now, m + t)) = Out(Now) \cup Elements(got) \cup Elements(tabs)
    BY <1>2, <2>2, TakenTwice
  <2> QED
    BY <2>1, <2>3
<1>4. PICK pre : pre = SubSeq(got, 1, n)
  OBVIOUS
<1>5. /\ pre \in Seq(Frames) /\ IsInjective(pre)
      /\ Elements(got) = Elements(pre) \cup {stack} /\ stack \notin Elements(pre)
      /\ stack \in Frames /\ \A i \in 1 .. n : got[i] \in Frames
  <2>1. /\ pre \in Seq(Frames) /\ IsInjective(pre)
        /\ Elements(pre) = { got[i] : i \in 1 .. n }
    BY <1>1, <1>3, <1>4, Prefix
  <2>2. /\ 1 .. n + 1 = 1 .. n \cup {n + 1} /\ n + 1 \notin 1 .. n
        /\ DOMAIN got = 1 .. n + 1
    BY <1>1, <1>3
  <2>3. \A i \in 1 .. n + 1 : got[i] \in Frames
    BY <1>3
  <2>4. Elements(got) = { got[i] : i \in 1 .. n + 1 }
    BY <1>3 DEF Elements
  <2>5. \A i \in 1 .. n : got[i] # got[n + 1]
    BY <1>3, <2>2 DEF IsInjective
  <2> QED
    BY <1>0, <2>1, <2>2, <2>3, <2>4, <2>5
<1>6. \A v \in DOMAIN UserMap(pages, stack) : UserMap(pages, stack)[v].frame \in Frames
  <2>1. \A v \in Touched(prog) : Rank(prog, v) \in 1 .. n
    BY <1>0, RankWithin
  <2>2. DOMAIN pages = Touched(prog) /\ \A v \in Touched(prog) : pages[v].frame \in Frames
    BY <1>0, <1>5, <2>1 DEF load_fresh
  <2>3. DOMAIN UserMap(pages, stack) = Touched(prog) \cup {stack}
    BY <2>2 DEF UserMap
  <2> SUFFICES ASSUME NEW v \in Touched(prog) \cup {stack}
               PROVE  UserMap(pages, stack)[v].frame \in Frames
    BY <2>3
  <2>4. CASE v = stack
    BY <1>5, <2>2, <2>4 DEF UserMap
  <2>5. CASE v # stack
    BY <2>2, <2>5 DEF UserMap
  <2> QED
    BY <2>4, <2>5
<1>7. /\ tabs \o pre \in Seq(Frames) /\ IsInjective(tabs \o pre)
      /\ Elements(tabs \o pre) = Elements(tabs) \cup Elements(pre)
  <2>1. Elements(tabs) \cap Elements(pre) = {}
    BY <1>3, <1>5
  <2> QED
    BY <1>3, <1>5, <2>1, Joining
<1>8. /\ {stack} \subseteq Frames /\ \A x, y \in {stack} : x = y
      /\ Elements(tabs \o pre) \cap {stack} = {}
      /\ (Elements(tabs \o pre) \cup {stack}) \cap Out(Now) = {}
      /\ Out(After(Now, n + 1 + t)) = Out(Now) \cup Elements(tabs \o pre) \cup {stack}
  BY <1>3, <1>5, <1>7
<1>9. spawn(After(Now, n + 1 + t), prog, UserMap(pages, stack), tabs \o pre, {stack}, image)
  BY <1>0, <1>4
<1> QED
  BY <1>3, <1>6, <1>7, <1>8, <1>9, Spawned

LEMMA IsotestInv == Inv /\ isotest => Inv'
<1> SUFFICES ASSUME Inv, isotest PROVE Inv'
  OBVIOUS
<1>0. PICK got, stack, t, tabs, image :
         /\ got = Got(Now, 1) /\ stack = got[1]
         /\ t = Tables(Touched(Hello) \cup {stack}) /\ tabs = Got(After(Now, 1), t)
         /\ Room(Now) >= 1 + t
         /\ spawn(After(Now, 1 + t), Hello, UserMap(InPlace, stack), tabs, {stack}, image)
  BY DEF isotest
<1>1. t \in Nat
  <2>1. IsFiniteSet(Touched(Hello) \cup {stack})
    BY TouchedFinite, FS_AddElement
  <2> QED
    BY <1>0, <2>1, SomeTables
<1>2. /\ AllocOK(After(Now, 1 + t))
      /\ got \in Seq(Frames) /\ Len(got) = 1
      /\ tabs \in Seq(Frames) /\ IsInjective(tabs)
      /\ Elements(got) \cap Elements(tabs) = {}
      /\ Elements(got) \cap Out(Now) = {} /\ Elements(tabs) \cap Out(Now) = {}
      /\ Out(After(Now, 1 + t)) = Out(Now) \cup Elements(got) \cup Elements(tabs)
  BY <1>0, <1>1, TakenTwice DEF Inv
<1>3. Elements(got) = {stack} /\ stack \in Frames
  BY <1>0, <1>2 DEF Elements
<1>4. \A v \in DOMAIN UserMap(InPlace, stack) : UserMap(InPlace, stack)[v].frame \in Frames
  <2>1. 0 .. FirstFrame - 1 \subseteq Frames
    BY Sizes DEF Frames
  <2>2. Touched(Hello) \subseteq Frames
    BY <2>1, TouchedBelow
  <2>3. DOMAIN InPlace = Touched(Hello) /\ \A v \in Touched(Hello) : InPlace[v].frame \in Frames
    BY <2>2 DEF InPlace
  <2> SUFFICES ASSUME NEW v \in Touched(Hello) \cup {stack}
               PROVE  UserMap(InPlace, stack)[v].frame \in Frames
    BY <2>3 DEF UserMap
  <2>4. CASE v = stack
    BY <1>3, <2>3, <2>4 DEF UserMap
  <2>5. CASE v # stack
    BY <2>3, <2>5 DEF UserMap
  <2> QED
    BY <2>4, <2>5
<1>5. /\ {stack} \subseteq Frames /\ \A x, y \in {stack} : x = y
      /\ Elements(tabs) \cap {stack} = {}
      /\ (Elements(tabs) \cup {stack}) \cap Out(Now) = {}
      /\ Out(After(Now, 1 + t)) = Out(Now) \cup Elements(tabs) \cup {stack}
  BY <1>2, <1>3
<1> QED
  BY <1>0, <1>2, <1>4, <1>5, Spawned

LEMMA SpawnThreadInv == Inv /\ SpawnThread => Inv'
<1> SUFFICES ASSUME Inv, SpawnThread PROVE Inv'
  OBVIOUS
<1>1. << >> \in Seq(Frames) /\ IsInjective(<< >>) /\ Elements(<< >>) = {}
  BY DEF IsInjective, Elements
<1>2. \A v \in DOMAIN << >> : << >>[v].frame \in Frames
  OBVIOUS
<1>3. AllocOK(Now) /\ spawn(Now, << >>, << >>, << >>, {}, << >>)
  BY DEF Inv, SpawnThread
<1>4. Out(Now) = Out(Now) \cup Elements(<< >>) \cup {}
  BY <1>1
<1> QED
  BY <1>1, <1>2, <1>3, <1>4, Spawned


(* What a spawn that failed had taken is everything that was not out.       *)
LEMMA TakenForGoodInv == Inv /\ TakenForGood => Inv'
<1> SUFFICES ASSUME Inv, TakenForGood PROVE Inv'
  OBVIOUS
<1>1. /\ halted = "no" /\ list' = << >> /\ next' = Limit
      /\ lost' = lost \cup Elements(list) \cup next .. Limit - 1
      /\ next_pid' = next_pid /\ mem' = mem /\ proc' = proc /\ halted' = halted
  BY DEF TakenForGood
<1>2. /\ list \in Seq(Frames) /\ next \in FirstFrame .. Limit
      /\ \A i \in 1 .. Len(list) : list[i] \in FirstFrame .. next - 1
      /\ FirstFrame \in Nat /\ Limit \in Nat /\ FirstFrame <= Limit
      /\ OneKeeper /\ lost \subseteq Frames
  BY <1>1, Sizes DEF Inv, AllocOK, Lendable, Now
<1>3. PICK X : X = Elements(list) \cup next .. Limit - 1
  OBVIOUS
<1>4. Out(Now) = (FirstFrame .. next - 1) \ Elements(list)
  BY OutOf DEF Now
<1>5. Elements(list) \subseteq FirstFrame .. next - 1 /\ Elements(list) \subseteq Frames
  <2>1. \A i \in 1 .. Len(list) : list[i] \in Frames
    BY <1>2
  <2> QED
    BY <1>2, <2>1 DEF Elements
<1>6. /\ FirstFrame .. Limit - 1 = FirstFrame .. next - 1 \cup next .. Limit - 1
      /\ (FirstFrame .. next - 1) \cap next .. Limit - 1 = {}
      /\ next .. Limit - 1 \subseteq Frames
  BY <1>2 DEF Frames
<1>7. X \cap Out(Now) = {} /\ Out(Now) \cup X = FirstFrame .. Limit - 1 /\ X \subseteq Frames
  BY <1>3, <1>4, <1>5, <1>6
<1>8. Out(Now)' = FirstFrame .. Limit - 1
  <2>1. Now' = [list |-> << >>, next |-> Limit]
    BY <1>1 DEF Now
  <2>2. Elements(<< >>) = {}
    BY DEF Elements
  <2>3. Out([list |-> << >>, next |-> Limit]) = FirstFrame .. Limit - 1
    BY <2>2, OutOf
  <2> QED
    BY <2>1, <2>3 DEF Out, Elements
<1>9. lost' = lost \cup X /\ lost' \subseteq Frames
  BY <1>1, <1>2, <1>3, <1>7
<1>10. OneKeeper'
  <2>1. Live' = Live /\ Kept' = Kept
    BY <1>1 DEF Live, Kept, Keep
  <2>2. Apart(Live, Kept, lost \cup X, Out(Now) \cup X)
    BY <1>2, <1>7, MoreGone DEF OneKeeper
  <2> QED
    BY <1>7, <1>8, <1>9, <2>1, <2>2 DEF OneKeeper
<1>11. AllocOK(Now)'
  <2>1. Lendable(<< >>, Limit)
    BY <1>2 DEF Lendable
  <2> QED
    BY <1>1, <2>1 DEF AllocOK, Now
<1>12. Tasks'
  BY <1>1 DEF Inv, Tasks
<1> QED
  BY <1>1, <1>9, <1>10, <1>11, <1>12 DEF Inv

(* A panic, a store and an exit leave who keeps what.                       *)
LEMMA PanicInv ==
    ASSUME Inv, halted = "no", halted' = "tables",
           UNCHANGED <<list, next, next_pid, mem, proc, lost>>
    PROVE  Inv'
<1>1. AllocOK(Now)'
  BY DEF Inv, AllocOK, Now
<1>2. Tasks'
  BY DEF Inv, Tasks
<1> QED
  BY <1>1, <1>2 DEF Inv

LEMMA StoreInv == ASSUME Inv, NEW p, NEW v, Store(p, v) PROVE Inv'
<1>1. /\ mem' = [mem EXCEPT ![proc[p].map[v].frame][0] = Mark(p)]
      /\ UNCHANGED <<list, next, next_pid, proc, lost, halted>>
  BY DEF Store
<1>2. mem' = [f \in Frames |-> mem'[f]]
  BY <1>1 DEF Inv
<1>3. AllocOK(Now)'
  BY <1>1 DEF Inv, AllocOK, Now
<1>4. Tasks'
  BY <1>1 DEF Inv, Tasks
<1>5. Live' = Live /\ Kept' = Kept /\ Out(Now)' = Out(Now)
  BY <1>1 DEF Live, Kept, Keep, Out, Now, Elements
<1>6. (halted = "no" => OneKeeper)'
  BY <1>1, <1>5 DEF Inv, OneKeeper
<1> QED
  BY <1>1, <1>2, <1>3, <1>4, <1>6 DEF Inv

LEMMA ExitInv == ASSUME Inv, NEW p \in Pids, exit_current(p) PROVE Inv'
<1>1. /\ halted = "no" /\ proc[p].live /\ proc' = [proc EXCEPT ![p].zombie = TRUE]
      /\ UNCHANGED <<list, next, next_pid, mem, lost, halted>>
  BY DEF exit_current
<1>2. PICK t : t = [proc[p] EXCEPT !.zombie = TRUE]
  OBVIOUS
<1>3. TaskOK(proc[p]) /\ proc[p] # Gone /\ proc = [q \in Pids |-> proc[q]]
  BY <1>1 DEF Inv, Tasks, Gone
<1>4. /\ t.live = proc[p].live /\ t.table_frames = proc[p].table_frames /\ t.map = proc[p].map
      /\ t.stack = proc[p].stack /\ t.kstack = proc[p].kstack /\ t.prog = proc[p].prog
      /\ t = [live |-> t.live, zombie |-> t.zombie, prog |-> t.prog, map |-> t.map,
              table_frames |-> t.table_frames, stack |-> t.stack, kstack |-> t.kstack]
  BY <1>2, <1>3 DEF TaskOK
<1>5. TaskOK(t) /\ Keep(t) = Keep(proc[p]) /\ t.live
  BY <1>1, <1>3, <1>4 DEF TaskOK, Keep
<1>6. /\ proc' = [q \in Pids |-> proc'[q]] /\ proc'[p] = t
      /\ \A q \in Pids : q # p => proc'[q] = proc[q]
  BY <1>1, <1>2, <1>3
<1>7. Tasks'
  BY <1>1, <1>3, <1>5, <1>6 DEF Inv, Tasks
<1>8. AllocOK(Now)'
  BY <1>1 DEF Inv, AllocOK, Now
<1>9. Live' = Live /\ Out(Now)' = Out(Now)
  BY <1>1, <1>5, <1>6 DEF Live, Out, Now, Elements
<1>10. Kept' = Kept
  <2>1. Kept' = [q \in Pids |-> Keep(proc'[q])]
    BY DEF Kept, Keep
  <2> QED
    BY <1>5, <1>6, <2>1 DEF Kept
<1>11. OneKeeper'
  BY <1>1, <1>9, <1>10 DEF Inv, OneKeeper
<1> QED
  BY <1>1, <1>7, <1>8, <1>11 DEF Inv

(* reap puts back what the task kept, and each of its frames once.          *)
LEMMA ReapInv == ASSUME Inv, NEW p \in Pids, reap(p) PROVE Inv'
<1>1. /\ halted = "no" /\ proc[p].live
      /\ list' = list \o Freed(proc[p])
      /\ mem' = [f \in Frames |-> mem'[f]]
      /\ proc' = [proc EXCEPT ![p] = Gone]
      /\ UNCHANGED <<next, next_pid, lost, halted>>
  BY DEF reap
<1>2. /\ TaskOK(proc[p]) /\ proc[p] # Gone /\ proc = [q \in Pids |-> proc[q]]
      /\ p \in Live /\ OneKeeper
  BY <1>1 DEF Inv, Tasks, Gone, Live
<1>3. PICK u, X : u = Freed(proc[p]) /\ X = Keep(proc[p])
  OBVIOUS
<1>4. u \in Seq(Frames) /\ IsInjective(u) /\ Elements(u) = X
  BY <1>2, <1>3, FreedFacts
<1>5. /\ list \in Seq(Frames) /\ next \in FirstFrame .. Limit
      /\ IsInjective(list) /\ Elements(list) \subseteq FirstFrame .. next - 1
  <2>1. Lendable(list, next)
    BY DEF Inv, AllocOK, Now
  <2>2. DOMAIN list = 1 .. Len(list)
    BY <2>1 DEF Lendable
  <2> QED
    BY <2>1, <2>2 DEF Lendable, IsInjective, Elements
<1>6. Out(Now) = (FirstFrame .. next - 1) \ Elements(list)
  BY OutOf DEF Now
<1>7. Kept[p] = X /\ X \subseteq Out(Now)
  <2>1. Kept[p] = X
    BY <1>3 DEF Kept
  <2> QED
    BY <1>2, <2>1 DEF OneKeeper, Apart
<1>8. /\ list \o u \in Seq(Frames) /\ IsInjective(list \o u)
      /\ Elements(list \o u) = Elements(list) \cup X
  <2>1. Elements(list) \cap Elements(u) = {}
    BY <1>4, <1>6, <1>7
  <2> QED
    BY <1>4, <1>5, <2>1, Joining
<1>9. list' = list \o u /\ next' = next
  BY <1>1, <1>3
<1>10. AllocOK(Now)'
  <2>1. PICK l : l = list \o u
    OBVIOUS
  <2>2. /\ l \in Seq(Frames) /\ IsInjective(l) /\ Elements(l) \subseteq FirstFrame .. next - 1
        /\ DOMAIN l = 1 .. Len(l)
    BY <1>5, <1>6, <1>7, <1>8, <2>1
  <2>3. Lendable(l, next)
    BY <1>5, <2>2 DEF Lendable, IsInjective, Elements
  <2> QED
    BY <1>9, <2>1, <2>3 DEF AllocOK, Now
<1>11. Out(Now)' = Out(Now) \ X
  <2>1. Now' = [list |-> list \o u, next |-> next]
    BY <1>9 DEF Now
  <2>2. Out([list |-> list \o u, next |-> next]) = (FirstFrame .. next - 1) \ (Elements(list) \cup X)
    BY <1>8, OutOf
  <2>3. Out(Now)' = (FirstFrame .. next - 1) \ (Elements(list) \cup X)
    BY <2>1, <2>2 DEF Out, Elements
  <2> QED
    BY <1>6, <2>3
<1>12. /\ proc' = [q \in Pids |-> proc'[q]] /\ proc'[p] = Gone
       /\ \A q \in Pids : q # p => proc'[q] = proc[q]
  BY <1>1, <1>2
<1>13. Tasks'
  BY <1>1, <1>12 DEF Inv, Tasks, Gone
<1>14. Live' = Live \ {p}
  BY <1>12 DEF Live, Gone
<1>15. OneKeeper'
  <2>1. Kept' = [q \in Pids |-> Keep(proc'[q])]
    BY DEF Kept, Keep
  <2>2. \A q \in Live : q # p => Kept'[q] = Kept[q]
    BY <1>12, <2>1 DEF Kept, Live
  <2>3. Apart(Live \ {p}, Kept', lost, Out(Now) \ Kept[p])
    BY <1>2, <2>2, OneLess DEF OneKeeper
  <2> QED
    BY <1>1, <1>7, <1>11, <1>14, <2>3 DEF OneKeeper
<1> QED
  BY <1>1, <1>10, <1>13, <1>15 DEF Inv
-----------------------------------------------------------------------------
LEMMA InvInit == Init => Inv
<1> SUFFICES ASSUME Init PROVE Inv
  OBVIOUS
<1>1. /\ list = << >> /\ next = FirstFrame /\ next_pid = 1 /\ lost = {} /\ halted = "no"
      /\ proc = [p \in Pids |-> Gone] /\ mem = [f \in Frames |-> mem[f]]
  BY DEF Init
<1>2. AllocOK(Now)
  <2>1. Lendable(<< >>, FirstFrame)
    BY Sizes DEF Lendable
  <2> QED
    BY <1>1, <2>1 DEF AllocOK, Now
<1>3. Tasks
  BY <1>1 DEF Tasks, Gone
<1>4. OneKeeper
  <2>1. Live = {}
    BY <1>1 DEF Live, Gone
  <2>2. Out(Now) = {}
    <3>1. FirstFrame .. FirstFrame - 1 = {}
      BY Sizes
    <3> QED
      BY <1>1, <3>1, OutOf DEF Now
  <2> QED
    BY <1>1, <2>1, <2>2 DEF OneKeeper, Apart
<1> QED
  BY <1>1, <1>2, <1>3, <1>4 DEF Inv

LEMMA InvNext == Inv /\ [Next]_vars => Inv'
<1> SUFFICES ASSUME Inv, [Next]_vars PROVE Inv'
  OBVIOUS
<1>1. ASSUME NEW prog \in Programs, spawn_program(prog) PROVE Inv'
  BY <1>1, SpawnProgramInv
<1>2. ASSUME NEW prog \in Programs, LoadFails(prog) \/ StackFails(prog) PROVE Inv'
  BY <1>2, TakenForGoodInv DEF LoadFails, StackFails
<1>3. ASSUME NEW prog \in Programs, TablesFail(prog) PROVE Inv'
  BY <1>3, PanicInv DEF TablesFail
<1>4. CASE isotest
  BY <1>4, IsotestInv
<1>5. CASE IsotestFails
  BY <1>5, PanicInv DEF IsotestFails
<1>6. CASE SpawnThread
  BY <1>6, SpawnThreadInv
<1>7. ASSUME NEW p \in Pids, NEW v \in DOMAIN proc[p].map, Store(p, v) PROVE Inv'
  BY <1>7, StoreInv
<1>8. ASSUME NEW p \in Pids, exit_current(p) PROVE Inv'
  BY <1>8, ExitInv
<1>9. ASSUME NEW p \in Pids, reap(p) PROVE Inv'
  BY <1>9, ReapInv
<1>10. CASE UNCHANGED vars
  <2>1. AllocOK(Now)'
    BY <1>10 DEF vars, Inv, AllocOK, Now
  <2>2. Tasks'
    BY <1>10 DEF vars, Inv, Tasks
  <2>3. Live' = Live /\ Kept' = Kept /\ Out(Now)' = Out(Now)
    BY <1>10 DEF vars, Live, Kept, Keep, Out, Now, Elements
  <2>4. (halted = "no" => OneKeeper)'
    BY <1>10, <2>3 DEF vars, Inv, OneKeeper
  <2> QED
    BY <1>10, <2>1, <2>2, <2>4 DEF vars, Inv
<1> QED
  BY <1>1, <1>2, <1>3, <1>4, <1>5, <1>6, <1>7, <1>8, <1>9, <1>10 DEF Next

(* mod.rs:459-466, 484-497: as long as nothing panicked, each frame that    *)
(* was lent is listed, lost by a spawn that failed, or kept by exactly one  *)
(* live task, which gives it back once.                                     *)
THEOREM EveryFrameAccounted == Spec => []Accounted
<1>1. Inv /\ [Next]_vars => Inv'
  BY InvNext
<1>2. Init => Inv
  BY InvInit
<1>3. Inv => Accounted
  BY InvAccounted
<1> QED
  BY <1>1, <1>2, <1>3, PTL DEF Spec

-----------------------------------------------------------------------------
(* What a task sees of its memory.                                          *)

(* Induction over the numbers, said of a set.                               *)
LEMMA NatInd ==
    ASSUME NEW S, 0 \in S, \A n \in Nat : n \in S => n + 1 \in S
    PROVE  Nat \subseteq S
<1> DEFINE Less == {ss \in Nat \X Nat : ss[1] < ss[2]}
           T    == Nat \ S
<1> SUFFICES ASSUME T # {} PROVE FALSE
  OBVIOUS
<1>1. IsWellFoundedOn(Less, Nat)
  BY NatLessThanWellFounded DEF OpToRel
<1>2. \A j, k \in Nat : j < k => <<j, k>> \in Less
  OBVIOUS
<1>3. T \subseteq Nat
  OBVIOUS
<1> HIDE DEF Less
<1>4. PICK k \in T : \A j \in T : ~(<<j, k>> \in Less)
  <2> HIDE DEF T
  <2> QED
    BY <1>1, <1>3, WFMin
<1>5. k \in Nat /\ k # 0 /\ k - 1 \in Nat /\ (k - 1) + 1 = k
  OBVIOUS
<1>6. k - 1 \in T
  BY <1>5
<1>7. <<k - 1, k>> \in Less
  BY <1>2, <1>5
<1> QED
  BY <1>4, <1>6, <1>7

(* The pages of a program as segment after segment is copied.               *)
PagesOf(f, prog, v, n) ==
    f = [i \in 0 .. n |-> IF i = 0 THEN Zero ELSE Copied(f[i - 1], prog[i], v)]

LEMMA PagesExist ==
    ASSUME NEW prog, NEW v, NEW n \in Nat
    PROVE  \E f : PagesOf(f, prog, v, n)
<1> DEFINE S == { k \in Nat : \E f : PagesOf(f, prog, v, k) }
<1>1. 0 \in S
  <2> DEFINE g == [i \in 0 .. 0 |-> Zero]
  <2>1. \A i \in 0 .. 0 : i = 0
    OBVIOUS
  <2>2. g = [i \in 0 .. 0 |-> IF i = 0 THEN Zero ELSE Copied(g[i - 1], prog[i], v)]
    BY <2>1
  <2>3. PagesOf(g, prog, v, 0)
    BY <2>2 DEF PagesOf
  <2> QED
    BY <2>3
<1>2. ASSUME NEW k \in Nat, k \in S PROVE k + 1 \in S
  <2>1. PICK f : PagesOf(f, prog, v, k)
    BY <1>2
  <2> DEFINE g    == [i \in 0 .. k + 1 |-> IF i \in 0 .. k THEN f[i]
                                           ELSE Copied(f[k], prog[k + 1], v)]
             F(i) == IF i = 0 THEN Zero ELSE Copied(f[i - 1], prog[i], v)
             G(i) == IF i = 0 THEN Zero ELSE Copied(g[i - 1], prog[i], v)
  <2>2. f = [i \in 0 .. k |-> F(i)]
    BY <2>1 DEF PagesOf
  <2>3. \A i \in 0 .. k : f[i] = F(i)
    <3> HIDE DEF F
    <3> QED
      BY <2>2
  <2>4. \A i \in 0 .. k : g[i] = f[i]
    OBVIOUS
  <2>5. g[k + 1] = Copied(f[k], prog[k + 1], v)
    OBVIOUS
  <2>6. \A i \in 0 .. k + 1 : g[i] = G(i)
    <3> SUFFICES ASSUME NEW i \in 0 .. k + 1 PROVE g[i] = G(i)
      OBVIOUS
    <3>1. CASE i = k + 1
      <4>1. k + 1 # 0 /\ (k + 1) - 1 = k /\ k \in 0 .. k
        OBVIOUS
      <4>2. g[(k + 1) - 1] = f[k]
        <5> HIDE DEF g
        <5> QED
          BY <2>4, <4>1
      <4> HIDE DEF g
      <4> QED
        BY <2>5, <3>1, <4>1, <4>2
    <3>2. CASE i \in 1 .. k
      <4>1. i # 0 /\ i \in 0 .. k /\ i - 1 \in 0 .. k
        BY <3>2
      <4>2. g[i] = f[i] /\ g[i - 1] = f[i - 1]
        <5> HIDE DEF g
        <5> QED
          BY <2>4, <4>1
      <4> HIDE DEF g
      <4> QED
        BY <2>3, <4>1, <4>2
    <3>3. CASE i = 0
      <4>1. 0 \in 0 .. k
        OBVIOUS
      <4> QED
        BY <2>3, <2>4, <3>3, <4>1
    <3> QED
      BY <3>1, <3>2, <3>3
  <2>7. g = [i \in 0 .. k + 1 |-> g[i]]
    OBVIOUS
  <2>8. PagesOf(g, prog, v, k + 1)
    <3>1. g = [i \in 0 .. k + 1 |-> G(i)]
      <4> HIDE DEF G
      <4> QED
        BY <2>6, <2>7
    <3> HIDE DEF g
    <3> QED
      BY <3>1 DEF PagesOf
  <2> QED
    BY <2>8
<1>3. Nat \subseteq S
  <2> HIDE DEF S
  <2> QED
    BY <1>1, <1>2, NatInd
<1> QED
  BY <1>3

Stages(f, prog, v, n) ==
    /\ Loaded(prog, v) = f[n] /\ f[0] = Zero
    /\ \A i \in 0 .. n - 1 : f[i + 1] = Copied(f[i], prog[i + 1], v)

LEMMA LoadedPages ==
    ASSUME NEW prog, NEW v, NEW n \in Nat, n = Len(prog)
    PROVE  \E f : Stages(f, prog, v, n)
<1> DEFINE f == CHOOSE f : PagesOf(f, prog, v, n)
<1>1. PagesOf(f, prog, v, n)
  BY PagesExist
<1>2. Loaded(prog, v) = f[n]
  BY DEF Loaded, PagesOf
<1> DEFINE F(i) == IF i = 0 THEN Zero ELSE Copied(f[i - 1], prog[i], v)
<1>3. f = [i \in 0 .. n |-> F(i)]
  <2> HIDE DEF f
  <2> QED
    BY <1>1 DEF PagesOf
<1>4. \A i \in 0 .. n : f[i] = F(i)
  <2> HIDE DEF F, f
  <2> QED
    BY <1>3
<1> HIDE DEF f
<1>5. f[0] = Zero
  <2>1. 0 \in 0 .. n
    OBVIOUS
  <2> QED
    BY <1>4, <2>1
<1>6. \A i \in 0 .. n - 1 : f[i + 1] = Copied(f[i], prog[i + 1], v)
  <2> SUFFICES ASSUME NEW i \in 0 .. n - 1 PROVE f[i + 1] = Copied(f[i], prog[i + 1], v)
    OBVIOUS
  <2>1. i + 1 \in 0 .. n /\ i + 1 # 0 /\ (i + 1) - 1 = i
    OBVIOUS
  <2> QED
    BY <1>4, <2>1
<1>7. Stages(f, prog, v, n)
  BY <1>2, <1>5, <1>6 DEF Stages
<1> QED
  BY <1>7


(* The last segment whose bytes cover an address is the one that is seen.   *)
Page(s) == s = [o \in Offsets |-> s[o]]

Address(v, o) == v * PageSize + o

Covers(prog, j, a) == a >= prog[j].vaddr /\ a < prog[j].vaddr + Len(prog[j].file)

Byte(prog, j, a) == prog[j].file[a - prog[j].vaddr + 1]

Takes(new, old, o, prog, j, a) ==
    /\ Page(new)
    /\ Covers(prog, j, a) => new[o] = Byte(prog, j, a)
    /\ ~Covers(prog, j, a) => new[o] = old[o]

LEMMA SegmentTyped ==
    ASSUME NEW prog \in Programs \cup {Hello}
    PROVE  /\ Len(prog) \in Nat
           /\ \A j \in 1 .. Len(prog) :
                /\ prog[j].vaddr \in Nat /\ prog[j].memsz \in Nat
                /\ Len(prog[j].file) \in Nat
                /\ prog[j].vaddr + prog[j].memsz <= FirstFrame * PageSize
                /\ Len(prog[j].file) <= prog[j].memsz
                /\ prog[j].w \in BOOLEAN /\ prog[j].x \in BOOLEAN
                /\ ~(prog[j].w /\ prog[j].x)
<1>1. /\ prog \in Seq([vaddr : Nat, file : Seq(Nat), memsz : Nat, w : BOOLEAN, x : BOOLEAN])
      /\ \A i \in 1 .. Len(prog) :
            /\ prog[i].vaddr + prog[i].memsz <= FirstFrame * PageSize
            /\ Len(prog[i].file) <= prog[i].memsz
            /\ ~(prog[i].w /\ prog[i].x)
  BY TaskMemoryAssumption
<1>2. Len(prog) \in Nat
  BY <1>1, LenProperties
<1>3. \A j \in 1 .. Len(prog) :
        prog[j] \in [vaddr : Nat, file : Seq(Nat), memsz : Nat, w : BOOLEAN, x : BOOLEAN]
  BY <1>1, ElementOfSeq
<1>4. \A j \in 1 .. Len(prog) : Len(prog[j].file) \in Nat
  <2> SUFFICES ASSUME NEW j \in 1 .. Len(prog) PROVE Len(prog[j].file) \in Nat
    OBVIOUS
  <2>1. prog[j].file \in Seq(Nat)
    BY <1>3
  <2> QED
    BY <2>1, LenProperties
<1> QED
  BY <1>1, <1>2, <1>3, <1>4

LEMMA CopiedFacts ==
    ASSUME NEW prog \in Programs \cup {Hello}, NEW v \in Nat, NEW o \in Offsets,
           NEW j \in 1 .. Len(prog), NEW page, NEW a, a = Address(v, o)
    PROVE  Takes(Copied(page, prog[j], v), page, o, prog, j, a)
<1>1. PICK b, n, P : b = prog[j].vaddr /\ n = Len(prog[j].file) /\ P = v * PageSize
  OBVIOUS
<1>2. b \in Nat /\ n \in Nat
  BY <1>1, SegmentTyped
<1>3. P \in Int /\ o \in Int
  BY <1>1, Sizes DEF Offsets
<1>4. P + o - b \in 0 .. n - 1 <=> P + o >= b /\ P + o < b + n
  BY <1>2, <1>3
<1>5. Covers(prog, j, P + o) <=> P + o - b \in 0 .. n - 1
  BY <1>1, <1>4 DEF Covers
<1>6. Copied(page, prog[j], v) =
        [x \in Offsets |-> IF P + x - b \in 0 .. n - 1
                           THEN prog[j].file[P + x - b + 1] ELSE page[x]]
  BY <1>1 DEF Copied
<1>7. Copied(page, prog[j], v)[o] =
        IF P + o - b \in 0 .. n - 1 THEN prog[j].file[P + o - b + 1] ELSE page[o]
  BY <1>6
<1>8. Page(Copied(page, prog[j], v))
  BY <1>6 DEF Page
<1>9. P + o = a
  BY <1>1 DEF Address
<1>10. Byte(prog, j, a) = prog[j].file[P + o - b + 1]
  <2>0. b = prog[j].vaddr
    BY <1>1
  <2>1. a - prog[j].vaddr + 1 = P + o - b + 1
    BY <1>2, <1>3, <1>9, <2>0
  <2> QED
    BY <2>1, Zenon DEF Byte
<1>11. /\ Covers(prog, j, a) => Copied(page, prog[j], v)[o] = Byte(prog, j, a)
       /\ ~Covers(prog, j, a) => Copied(page, prog[j], v)[o] = page[o]
  BY <1>5, <1>7, <1>9, <1>10, Zenon
<1> QED
  BY <1>8, <1>11, Zenon DEF Takes

LEMMA ZeroFacts ==
    ASSUME NEW o \in Offsets
    PROVE  Page(Zero) /\ Page(Junk) /\ Zero[o] = 0
BY DEF Page, Zero, Junk, Filled

(* elf.rs:119-188: copying segment after segment gives every page the bytes *)
(* the program has at its addresses, and zeros elsewhere.                   *)
LEMMA LoadedIsImage ==
    ASSUME NEW prog \in Programs \cup {Hello}, NEW v \in Nat, NEW o \in Offsets
    PROVE  /\ Page(Loaded(prog, v))
           /\ Loaded(prog, v)[o] = Image(prog, v, o)
<1>1. PICK n : n = Len(prog)
  OBVIOUS
<1>2. n \in Nat
  BY <1>1, SegmentTyped
<1>3. PICK g : Stages(g, prog, v, n)
  BY <1>1, <1>2, LoadedPages
<1>0. PICK a, f : a = Address(v, o) /\ f = g
  OBVIOUS
<1> DEFINE C(j) == Covers(prog, j, a)
           B(j) == Byte(prog, j, a)
           Q(k) == \/ (\A j \in 1 .. k : ~C(j)) /\ f[k][o] = 0
                   \/ \E j \in 1 .. k : /\ C(j) /\ f[k][o] = B(j)
                                        /\ \A i \in j + 1 .. k : ~C(i)
           T(k) == Page(f[k])
           S    == { k \in Nat : k <= n => T(k) /\ Q(k) }
<1>4. 0 \in S
  <2>0. f[0] = Zero
    BY <1>0, <1>3 DEF Stages
  <2>1. T(0) /\ f[0][o] = 0
    BY <2>0, ZeroFacts
  <2>2. \A j \in 1 .. 0 : ~C(j)
    OBVIOUS
  <2>3. T(0) /\ Q(0)
    <3> HIDE DEF C, B, T
    <3> QED
      BY <2>1, <2>2
  <2> HIDE DEF T, Q
  <2> QED
    BY <2>3
<1>5. ASSUME NEW k \in Nat, k \in S PROVE k + 1 \in S
  <2> SUFFICES ASSUME k + 1 <= n PROVE T(k + 1) /\ Q(k + 1)
    <3> HIDE DEF T, Q
    <3> QED
      OBVIOUS
  <2>1. Q(k)
    <3> HIDE DEF T, Q
    <3> QED
      BY <1>2, <1>5
  <2>2. k \in 0 .. n - 1 /\ k + 1 \in 1 .. Len(prog)
    BY <1>1, <1>2
  <2>3. f[k + 1] = Copied(f[k], prog[k + 1], v)
    <3>1. \A i \in 0 .. n - 1 : f[i + 1] = Copied(f[i], prog[i + 1], v)
      BY <1>0, <1>3 DEF Stages
    <3> QED
      BY <2>2, <3>1
  <2>4. /\ T(k + 1)
        /\ C(k + 1) => f[k + 1][o] = B(k + 1)
        /\ ~C(k + 1) => f[k + 1][o] = f[k][o]
    <3>0. PICK h, old : h = k + 1 /\ old = f[k] /\ h \in 1 .. Len(prog)
      BY <2>2
    <3>1. Takes(Copied(old, prog[h], v), old, o, prog, h, a)
      BY <1>0, <3>0, CopiedFacts
    <3>2. f[h] = Copied(old, prog[h], v)
      BY <2>3, <3>0
    <3>3. T(h) /\ (C(h) => f[h][o] = B(h)) /\ (~C(h) => f[h][o] = old[o])
      BY <3>1, <3>2, Zenon DEF Takes
    <3> HIDE DEF T, C, B
    <3> QED
      BY <3>0, <3>3
  <2>5. Q(k + 1)
    <3> HIDE DEF C, B, T
    <3>1. CASE C(k + 1)
      <4>1. k + 1 \in 1 .. k + 1 /\ \A i \in (k + 1) + 1 .. k + 1 : ~C(i)
        OBVIOUS
      <4>2. f[k + 1][o] = B(k + 1)
        BY <2>4, <3>1
      <4> QED
        BY <3>1, <4>1, <4>2, Zenon
    <3>2. CASE ~C(k + 1) /\ \A j \in 1 .. k : ~C(j)
      <4>1. \A j \in 1 .. k + 1 : j \in 1 .. k \/ j = k + 1
        OBVIOUS
      <4>2. f[k + 1][o] = 0
        <5>1. ~\E j \in 1 .. k : C(j)
          BY <3>2
        <5> QED
          BY <2>1, <2>4, <3>2, <5>1, Zenon
      <4> QED
        BY <3>2, <4>1, <4>2
    <3>3. CASE ~C(k + 1) /\ \E j \in 1 .. k : C(j)
      <4>1. PICK j \in 1 .. k : C(j) /\ f[k][o] = B(j) /\ \A i \in j + 1 .. k : ~C(i)
        BY <2>1, <3>3, Zenon
      <4>2. j \in 1 .. k + 1 /\ \A i \in j + 1 .. k + 1 : i \in j + 1 .. k \/ i = k + 1
        OBVIOUS
      <4>3. f[k + 1][o] = B(j)
        BY <2>4, <3>3, <4>1
      <4> QED
        BY <3>3, <4>1, <4>2, <4>3, Zenon
    <3> QED
      BY <3>1, <3>2, <3>3
  <2> QED
    BY <2>4, <2>5
<1>6. T(n) /\ Q(n)
  <2>1. Nat \subseteq S
    <3> HIDE DEF S
    <3> QED
      BY <1>4, <1>5, NatInd
  <2> HIDE DEF T, Q
  <2> QED
    BY <1>2, <2>1
<1> DEFINE src == { i \in 1 .. Len(prog) :
                      a >= prog[i].vaddr /\ a < prog[i].vaddr + Len(prog[i].file) }
<1>7. src = { i \in 1 .. n : C(i) }
  BY <1>1 DEF Covers
<1>8. Image(prog, v, o) = IF src = {} THEN 0
                          ELSE B(CHOOSE i \in src : \A j \in src : j <= i)
  BY <1>0 DEF Image, Byte, Address
<1>9. f[n][o] = Image(prog, v, o)
  <2> HIDE DEF src, C, B, T
  <2>1. CASE (\A j \in 1 .. n : ~C(j)) /\ f[n][o] = 0
    BY <1>7, <1>8, <2>1
  <2>2. ASSUME NEW j \in 1 .. n, C(j), f[n][o] = B(j), \A i \in j + 1 .. n : ~C(i)
        PROVE  f[n][o] = Image(prog, v, o)
    <3>1. j \in src /\ src # {}
      BY <1>7, <2>2
    <3>2. \A i \in src : i \in 1 .. n /\ i <= j
      <4> SUFFICES ASSUME NEW i \in src PROVE i <= j
        BY <1>7
      <4>1. i \in 1 .. n /\ C(i)
        BY <1>7
      <4>2. i \notin j + 1 .. n
        BY <2>2, <4>1
      <4> QED
        BY <1>2, <4>1, <4>2
    <3>3. (CHOOSE i \in src : \A h \in src : h <= i) = j
      <4> DEFINE c == CHOOSE i \in src : \A h \in src : h <= i
      <4>1. c \in src /\ \A h \in src : h <= c
        BY <3>1, <3>2
      <4> HIDE DEF c
      <4>2. c <= j /\ j <= c /\ c \in Int /\ j \in Int
        BY <3>1, <3>2, <4>1
      <4>3. c = j
        BY <4>2
      <4> QED
        BY <4>3 DEF c
    <3> QED
      BY <1>8, <2>2, <3>1, <3>3
  <2> QED
    BY <1>6, <2>1, <2>2, Zenon
<1> HIDE DEF C, B, Q, src
<1> QED
  BY <1>0, <1>3, <1>6, <1>9 DEF Stages

(* The first segment to touch a page, and no two pages have the same place  *)
(* in the order in which they are touched.                                  *)
LEMMA Least ==
    ASSUME NEW S \in SUBSET Nat, S # {}
    PROVE  \E m \in S : \A k \in S : m <= k
<1> DEFINE Less == {ss \in Nat \X Nat : ss[1] < ss[2]}
<1>1. IsWellFoundedOn(Less, Nat)
  BY NatLessThanWellFounded DEF OpToRel
<1>2. \A j, k \in Nat : j < k => <<j, k>> \in Less
  OBVIOUS
<1> HIDE DEF Less
<1>3. PICK m \in S : \A j \in S : ~(<<j, m>> \in Less)
  BY <1>1, WFMin
<1>4. \A k \in S : ~(k < m)
  BY <1>2, <1>3
<1>5. \A k \in S : k \in Nat /\ m \in Nat
  OBVIOUS
<1>6. \A k \in S : m <= k
  BY <1>4, <1>5
<1> QED
  BY <1>6

LEMMA ToucherFacts ==
    ASSUME NEW prog \in Programs \cup {Hello}, NEW v \in Touched(prog)
    PROVE  Toucher(prog, v) \in 1 .. Len(prog) /\ v \in Pages(prog[Toucher(prog, v)])
<1> DEFINE S == { i \in 1 .. Len(prog) : v \in Pages(prog[i]) }
<1>1. Len(prog) \in Nat
  BY SegmentTyped
<1>2. S \in SUBSET Nat /\ S # {}
  BY <1>1 DEF Touched
<1>3. PICK m \in S : \A k \in S : m <= k
  <2> HIDE DEF S
  <2> QED
    BY <1>2, Least
<1>4. m \in 1 .. Len(prog) /\ v \in Pages(prog[m])
  OBVIOUS
<1>5. \A j \in 1 .. m - 1 : v \notin Pages(prog[j])
  <2> SUFFICES ASSUME NEW j \in 1 .. m - 1, v \in Pages(prog[j]) PROVE FALSE
    OBVIOUS
  <2>1. j \in 1 .. Len(prog) /\ j < m
    BY <1>1, <1>4
  <2>2. j \in S
    BY <2>1
  <2>3. m <= j
    BY <1>3, <2>2
  <2> QED
    BY <1>1, <1>4, <2>1, <2>3
<1> QED
  BY <1>4, <1>5 DEF Toucher

LEMMA RankOne ==
    ASSUME NEW prog \in Programs \cup {Hello},
           NEW u \in Touched(prog), NEW v \in Touched(prog), Rank(prog, u) = Rank(prog, v)
    PROVE  u = v
<1> DEFINE E(x, y) == \/ Toucher(prog, x) < Toucher(prog, y)
                      \/ Toucher(prog, x) = Toucher(prog, y) /\ x <= y
           R(y)    == { x \in Touched(prog) : E(x, y) }
<1>1. \A x \in Touched(prog) : x \in Int /\ Toucher(prog, x) \in Int
  <2> SUFFICES ASSUME NEW x \in Touched(prog) PROVE x \in Int /\ Toucher(prog, x) \in Int
    OBVIOUS
  <2>1. x \in 0 .. FirstFrame - 1 /\ Toucher(prog, x) \in 1 .. Len(prog)
    BY TouchedBelow, ToucherFacts
  <2> QED
    BY <2>1
<1>2. \A x, y, z \in Touched(prog) : E(x, y) /\ E(y, z) => E(x, z)
  BY <1>1
<1>3. \A x, y \in Touched(prog) : (E(x, y) \/ E(y, x)) /\ (E(x, y) /\ E(y, x) => x = y)
  BY <1>1
<1>4. \A x \in Touched(prog) : E(x, x)
  BY <1>1
<1>5. \A y \in Touched(prog) : Rank(prog, y) = Cardinality(R(y)) /\ IsFiniteSet(R(y))
  <2> SUFFICES ASSUME NEW y \in Touched(prog)
               PROVE  Rank(prog, y) = Cardinality(R(y)) /\ IsFiniteSet(R(y))
    OBVIOUS
  <2>1. Rank(prog, y) = Cardinality(R(y))
    BY DEF Rank
  <2>2. R(y) \in SUBSET Touched(prog) /\ IsFiniteSet(Touched(prog))
    BY TouchedFinite
  <2> HIDE DEF R
  <2> QED
    BY <2>1, <2>2, FS_Subset
<1>6. ASSUME NEW x \in Touched(prog), NEW y \in Touched(prog), E(x, y),
             Rank(prog, x) = Rank(prog, y)
      PROVE  x = y
  <2> HIDE DEF E
  <2>1. R(x) \in SUBSET R(y)
    BY <1>2, <1>6
  <2>2. y \in R(y)
    BY <1>4
  <2>3. R(x) = R(y)
    <3>1. Cardinality(R(x)) = Cardinality(R(y)) /\ IsFiniteSet(R(y))
      BY <1>5, <1>6
    <3> HIDE DEF R
    <3> QED
      BY <2>1, <3>1, FS_Subset
  <2>4. E(y, x)
    BY <2>2, <2>3
  <2> QED
    BY <1>3, <1>6, <2>4
<1> QED
  <2> HIDE DEF E
  <2> QED
    BY <1>3, <1>6

LEMMA BeyondPrograms ==
    ASSUME NEW prog \in Programs \cup {Hello}, NEW v \in Nat, v >= FirstFrame, NEW o \in Offsets
    PROVE  Image(prog, v, o) = 0
<1>1. PICK a, F, P : a = v * PageSize + o /\ F = FirstFrame /\ P = PageSize
  OBVIOUS
<1>2. F \in Nat /\ P \in Nat /\ o \in Nat /\ v >= F
  BY <1>1, Sizes DEF Offsets
<1>3. a \in Int /\ a >= F * P
  <2>1. v * P >= F * P /\ v * P \in Int /\ F * P \in Int
    BY <1>2, SMT
  <2>2. a = v * P + o
    BY <1>1
  <2> QED
    BY <1>2, <2>1, <2>2
<1>4. \A i \in 1 .. Len(prog) : ~(a >= prog[i].vaddr /\ a < prog[i].vaddr + Len(prog[i].file))
  <2> SUFFICES ASSUME NEW i \in 1 .. Len(prog)
               PROVE  ~(a < prog[i].vaddr + Len(prog[i].file))
    OBVIOUS
  <2>1. PICK b, m, n, Q : b = prog[i].vaddr /\ m = prog[i].memsz /\ n = Len(prog[i].file) /\ Q = F * P
    OBVIOUS
  <2>2. b \in Nat /\ m \in Nat /\ n \in Nat /\ b + m <= Q /\ n <= m
    BY <1>1, <2>1, SegmentTyped
  <2>3. a >= Q
    BY <1>3, <2>1
  <2>4. Q \in Int
    BY <1>2, <2>1, SMT
  <2>5. ~(a < b + n)
    BY <1>3, <2>2, <2>3, <2>4
  <2> QED
    BY <2>1, <2>5
<1>5. { i \in 1 .. Len(prog) :
          a >= prog[i].vaddr /\ a < prog[i].vaddr + Len(prog[i].file) } = {}
  BY <1>4
<1> QED
  BY <1>1, <1>5 DEF Image

-----------------------------------------------------------------------------
(* The invariant of the memory.  A task's tables lead to frames it keeps,   *)
(* and to frames that were never the allocator's, which are not writable;   *)
(* each page has a frame of its own; what stands there is the program.      *)

Below == 0 .. FirstFrame - 1

Maps(map, prog, own) ==
    /\ Touched(prog) \subseteq DOMAIN map
    /\ \A v \in DOMAIN map :
         /\ map[v].frame \in own \/ (map[v].frame \in Below /\ ~map[v].w)
         /\ \A u \in DOMAIN map : map[u].frame = map[v].frame => u = v

Allows(map, prog) ==
    \A v \in DOMAIN map :
        LET pte  == map[v]
            segs == { prog[i] : i \in { i \in 1 .. Len(prog) : v \in Pages(prog[i]) } }
        IN  /\ ~(pte.w /\ pte.x)
            /\ v < FirstFrame /\ pte.w => \E s \in segs : s.w
            /\ v < FirstFrame /\ pte.x /\ pte.frame # v => \E s \in segs : s.x

Sees(map, prog, m, mark) ==
    \A v \in DOMAIN map, o \in Offsets :
        \/ m[map[v].frame][o] = Image(prog, v, o)
        \/ map[v].w /\ o = 0 /\ m[map[v].frame][o] = mark

Formed == \A f \in Frames : Page(mem[f])

Led == \A p \in Live : /\ Maps(proc[p].map, proc[p].prog, Keep(proc[p]))
                           /\ Allows(proc[p].map, proc[p].prog)

HelloThere == \A v \in Touched(Hello), o \in Offsets : mem[v][o] = Image(Hello, v, o)

View == \A p \in Live : Sees(proc[p].map, proc[p].prog, mem, Mark(p))

MemInv == Inv /\ Formed /\ Led /\ (halted = "no" => HelloThere /\ View)

LEMMA MemInvOwn == MemInv => MemoryOwn
<1> SUFFICES ASSUME MemInv PROVE MemoryOwn
  OBVIOUS
<1>1. RightsOfSegments
  <2>1. \A p \in Live : Allows(proc[p].map, proc[p].prog)
    BY DEF MemInv, Led
  <2> QED
    BY <2>1, Zenon DEF Allows, RightsOfSegments
<1>2. \A p \in Live : Touched(proc[p].prog) \subseteq DOMAIN proc[p].map
  BY DEF MemInv, Led, Maps
<1>3. ASSUME halted = "no"
      PROVE  \A p \in Live : \A v \in DOMAIN proc[p].map, o \in Offsets :
               \/ mem[proc[p].map[v].frame][o] = Image(proc[p].prog, v, o)
               \/ /\ proc[p].map[v].w /\ o = 0
                  /\ mem[proc[p].map[v].frame][o] = Mark(p)
  BY <1>3, Zenon DEF MemInv, View, Sees
<1> QED
  BY <1>1, <1>2, <1>3, Zenon DEF MemoryOwn

(* What live tasks keep is above, and apart.                                *)
LEMMA KeptApart ==
    ASSUME Inv, halted = "no"
    PROVE  /\ Out(Now) \cap Below = {} /\ Out(Now) \cup Below \subseteq Frames
           /\ \A p \in Live : Keep(proc[p]) \subseteq Out(Now) /\ p \in Pids
           /\ \A p, q \in Live : p # q => Keep(proc[p]) \cap Keep(proc[q]) = {}
<1>1. Apart(Live, Kept, lost, Out(Now)) /\ \A p \in Live : Kept[p] = Keep(proc[p]) /\ p \in Pids
  BY DEF Inv, OneKeeper, Kept, Live
<1>2. Out(Now) \subseteq FirstFrame .. next - 1 /\ next \in FirstFrame .. Limit
  BY DEF Out, Now, Inv, AllocOK, Lendable
<1>3. (FirstFrame .. next - 1) \cap Below = {}
  BY <1>2, Sizes DEF Below
<1>4. Out(Now) \cap Below = {}
  BY <1>2, <1>3
<1>5. Out(Now) \cup Below \subseteq Frames
  BY <1>2, Sizes DEF Below, Frames
<1> QED
  BY <1>1, <1>4, <1>5 DEF Apart

LEMMA SeesSame ==
    ASSUME NEW map, NEW prog, NEW own, NEW m, NEW l, NEW mark,
           Maps(map, prog, own), Sees(map, prog, m, mark),
           \A f \in own \cup Below : l[f] = m[f]
    PROVE  Sees(map, prog, l, mark)
<1>1. \A v \in DOMAIN map : l[map[v].frame] = m[map[v].frame]
  BY DEF Maps
<1> QED
  BY <1>1 DEF Sees

LEMMA HelloSame ==
    ASSUME HelloThere, \A f \in Below : mem'[f] = mem[f]
    PROVE  HelloThere'
<1>1. Touched(Hello) \subseteq Below
  BY TouchedBelow DEF Below
<1> QED
  BY <1>1 DEF HelloThere

(* Steps that leave the tasks and the memory alone.                         *)
LEMMA MemStays ==
    ASSUME MemInv, Inv', proc' = proc, mem' = mem, halted = "no"
    PROVE  MemInv'
<1>1. Live' = Live
  BY DEF Live
<1>2. Formed' /\ HelloThere' /\ Led'
  BY <1>1 DEF MemInv, Formed, HelloThere, Led, Keep
<1>3. View'
  BY <1>1 DEF MemInv, View
<1> QED
  BY <1>2, <1>3 DEF MemInv

LEMMA MemExit == ASSUME MemInv, NEW p \in Pids, exit_current(p) PROVE MemInv'
<1>1. /\ halted = "no" /\ proc[p].live /\ proc' = [proc EXCEPT ![p].zombie = TRUE]
      /\ mem' = mem
  BY DEF exit_current
<1>2. Inv
  BY DEF MemInv
<1>0. Inv'
  BY <1>2, ExitInv
<1>3. TaskOK(proc[p]) /\ proc = [q \in Pids |-> proc[q]]
  BY <1>1, <1>2 DEF Inv, Tasks
<1>4. PICK t : t = [proc[p] EXCEPT !.zombie = TRUE]
  OBVIOUS
<1>5. /\ t.live /\ t.prog = proc[p].prog /\ t.map = proc[p].map /\ Keep(t) = Keep(proc[p])
  BY <1>1, <1>3, <1>4 DEF TaskOK, Keep
<1>6. proc'[p] = t /\ \A q \in Pids : q # p => proc'[q] = proc[q]
  BY <1>1, <1>3, <1>4
<1>7. \A q \in Pids : /\ proc'[q].live = proc[q].live \/ (proc'[q].live /\ proc[q].live)
                      /\ q \in Live => /\ proc'[q].map = proc[q].map
                                       /\ proc'[q].prog = proc[q].prog
                                       /\ Keep(proc'[q]) = Keep(proc[q])
  BY <1>1, <1>5, <1>6
<1>8. Live' = Live /\ \A q \in Live : q \in Pids
  BY <1>7 DEF Live
<1>9. Led'
  <2>1. \A q \in Live : /\ Maps(proc'[q].map, proc'[q].prog, Keep(proc'[q]))
                        /\ Allows(proc'[q].map, proc'[q].prog)
    BY <1>7, <1>8 DEF MemInv, Led
  <2> QED
    BY <1>8, <2>1 DEF Led, Keep
<1>10. View'
  <2>1. \A q \in Live : Sees(proc'[q].map, proc'[q].prog, mem', Mark(q))
    BY <1>1, <1>7, <1>8 DEF MemInv, View
  <2> QED
    BY <1>8, <2>1 DEF View
<1>11. Formed' /\ HelloThere'
  BY <1>1 DEF MemInv, Formed, HelloThere
<1> QED
  BY <1>0, <1>9, <1>10, <1>11 DEF MemInv

LEMMA MemReap == ASSUME MemInv, NEW p \in Pids, reap(p) PROVE MemInv'
<1>1. /\ halted = "no" /\ proc[p].live /\ proc' = [proc EXCEPT ![p] = Gone]
      /\ mem' = [f \in Frames |-> IF f \in Elements(Freed(proc[p])) THEN Zero ELSE mem[f]]
  BY DEF reap
<1>2. Inv
  BY DEF MemInv
<1>0. Inv'
  BY <1>2, ReapInv
<1>3. TaskOK(proc[p]) /\ proc = [q \in Pids |-> proc[q]] /\ p \in Live
  BY <1>1, <1>2 DEF Inv, Tasks, Live
<1>4. PICK X : X = Keep(proc[p]) /\ X = Elements(Freed(proc[p]))
  BY <1>3, FreedFacts
<1>5. mem' = [f \in Frames |-> IF f \in X THEN Zero ELSE mem[f]]
  BY <1>1, <1>4
<1>6. Live' = Live \ {p} /\ \A q \in Live' : q \in Pids /\ proc'[q] = proc[q]
  BY <1>1, <1>3 DEF Live, Gone
<1>7. \A f \in Frames : f \notin X => mem'[f] = mem[f]
  BY <1>5
<1>8. /\ Below \cap X = {} /\ Below \subseteq Frames
      /\ \A q \in Live' : Keep(proc[q]) \cap X = {} /\ Keep(proc[q]) \subseteq Frames
  BY <1>1, <1>2, <1>3, <1>4, <1>6, KeptApart
<1>9. Formed'
  <2>1. \A f \in Frames : mem'[f] = Zero \/ mem'[f] = mem[f]
    BY <1>5
  <2>2. Page(Zero)
    BY DEF Page, Zero, Filled
  <2> QED
    BY <2>1, <2>2 DEF MemInv, Formed
<1>10. HelloThere'
  BY <1>1, <1>7, <1>8, HelloSame DEF MemInv
<1>11. Led'
  <2>1. \A q \in Live' : /\ Maps(proc'[q].map, proc'[q].prog, Keep(proc'[q]))
                         /\ Allows(proc'[q].map, proc'[q].prog)
    BY <1>6 DEF MemInv, Led
  <2> QED
    BY <2>1 DEF Led, Keep
<1>12. View'
  <2> SUFFICES ASSUME NEW q \in Live' PROVE Sees(proc'[q].map, proc'[q].prog, mem', Mark(q))
    BY DEF View
  <2>1. /\ Maps(proc[q].map, proc[q].prog, Keep(proc[q]))
        /\ Sees(proc[q].map, proc[q].prog, mem, Mark(q))
    BY <1>1, <1>6 DEF MemInv, Led, View
  <2>2. \A f \in Keep(proc[q]) \cup Below : mem'[f] = mem[f]
    BY <1>7, <1>8
  <2> QED
    BY <1>6, <2>1, <2>2, SeesSame
<1> QED
  BY <1>0, <1>9, <1>10, <1>11, <1>12 DEF MemInv


(* A store goes to a page of its own task, and of no other.                 *)
LEMMA MemStore ==
    ASSUME MemInv, NEW p \in Pids, NEW v \in DOMAIN proc[p].map, Store(p, v)
    PROVE  MemInv'
<1>0. PICK h : h = proc[p].map[v].frame
  OBVIOUS
<1>1. /\ halted = "no" /\ proc[p].live /\ proc[p].map[v].w
      /\ mem' = [mem EXCEPT ![h][0] = Mark(p)] /\ proc' = proc
  BY <1>0 DEF Store
<1>2. Inv
  BY DEF MemInv
<1>3. Inv'
  BY <1>2, StoreInv
<1>4. p \in Live /\ Live' = Live
  BY <1>1 DEF Live
<1>5. /\ Out(Now) \cap Below = {} /\ Out(Now) \cup Below \subseteq Frames
      /\ \A q \in Live : Keep(proc[q]) \subseteq Out(Now)
      /\ \A q, r \in Live : q # r => Keep(proc[q]) \cap Keep(proc[r]) = {}
  BY <1>1, <1>2, KeptApart
<1>6. h \in Keep(proc[p])
  BY <1>0, <1>1, <1>4 DEF MemInv, Led, Maps
<1>7. mem = [f \in Frames |-> mem[f]] /\ h \in Frames /\ Page(mem[h]) /\ 0 \in Offsets
  <2>1. h \in Frames
    BY <1>4, <1>5, <1>6
  <2>2. 0 \in Offsets
    BY Sizes DEF Offsets
  <2>3. mem = [f \in Frames |-> mem[f]]
    BY <1>2 DEF Inv
  <2>4. Page(mem[h])
    BY <2>1 DEF MemInv, Formed
  <2> QED
    BY <2>1, <2>2, <2>3, <2>4
<1>8. \A f \in Frames : f # h => mem'[f] = mem[f]
  BY <1>1, <1>7
<1>9. /\ Page(mem'[h])
      /\ \A o \in Offsets : mem'[h][o] = IF o = 0 THEN Mark(p) ELSE mem[h][o]
  <2>1. mem'[h] = [mem[h] EXCEPT ![0] = Mark(p)]
    BY <1>1, <1>7
  <2>2. PICK g : g = mem[h]
    OBVIOUS
  <2>3. g = [o \in Offsets |-> g[o]]
    BY <1>7, <2>2 DEF Page
  <2>4. /\ [g EXCEPT ![0] = Mark(p)] = [o \in Offsets |-> IF o = 0 THEN Mark(p) ELSE g[o]]
    BY <1>7, <2>3
  <2> QED
    BY <2>1, <2>2, <2>4 DEF Page
<1>10. Formed'
  BY <1>8, <1>9 DEF MemInv, Formed
<1>11. HelloThere'
  <2>1. \A f \in Below : f # h /\ f \in Frames
    BY <1>4, <1>5, <1>6
  <2> QED
    BY <1>1, <1>8, <2>1, HelloSame DEF MemInv
<1>12. Led'
  BY <1>1, <1>4 DEF MemInv, Led, Keep
<1>13. View'
  <2> SUFFICES ASSUME NEW q \in Live PROVE Sees(proc[q].map, proc[q].prog, mem', Mark(q))
    BY <1>1, <1>4 DEF View
  <2>1. /\ Maps(proc[q].map, proc[q].prog, Keep(proc[q]))
        /\ Sees(proc[q].map, proc[q].prog, mem, Mark(q))
    BY <1>1 DEF MemInv, Led, View
  <2>2. CASE q # p
    <3>1. \A f \in Keep(proc[q]) \cup Below : f # h /\ f \in Frames
      BY <1>4, <1>5, <1>6, <2>2
    <3>2. \A f \in Keep(proc[q]) \cup Below : mem'[f] = mem[f]
      BY <1>8, <3>1
    <3> QED
      BY <2>1, <3>2, SeesSame
  <2>3. CASE q = p
    <3> SUFFICES ASSUME NEW u \in DOMAIN proc[p].map, NEW o \in Offsets
                 PROVE  \/ mem'[proc[p].map[u].frame][o] = Image(proc[p].prog, u, o)
                        \/ /\ proc[p].map[u].w /\ o = 0
                           /\ mem'[proc[p].map[u].frame][o] = Mark(p)
      BY <2>3 DEF Sees
    <3>1. \/ mem[proc[p].map[u].frame][o] = Image(proc[p].prog, u, o)
          \/ /\ proc[p].map[u].w /\ o = 0
             /\ mem[proc[p].map[u].frame][o] = Mark(p)
      BY <2>1, <2>3 DEF Sees
    <3>2. proc[p].map[u].frame \in Frames
      BY <1>5, <2>1, <2>3 DEF Maps
    <3>3. CASE u = v
      BY <1>0, <1>1, <1>9, <3>1, <3>3
    <3>4. CASE u # v
      <4>1. proc[p].map[u].frame # h
        BY <1>0, <2>1, <2>3, <3>4 DEF Maps
      <4> QED
        BY <1>8, <3>1, <3>2, <4>1
    <3> QED
      BY <3>3, <3>4
  <2> QED
    BY <2>2, <2>3
<1> QED
  BY <1>3, <1>10, <1>11, <1>12, <1>13 DEF MemInv

(* A new task finds what the loader wrote, and the others what was there.   *)
Written(map, prog, own, image) ==
    /\ DOMAIN image = own /\ \A f \in own : Page(image[f])
    /\ \A v \in DOMAIN map, o \in Offsets :
          /\ map[v].frame \in own => image[map[v].frame][o] = Image(prog, v, o)
          /\ map[v].frame \in Below => mem[map[v].frame][o] = Image(prog, v, o)

LEMMA MemSpawned ==
    ASSUME MemInv, Inv', NEW a, AllocOK(a), NEW prog, NEW map, NEW owned, NEW V, NEW image,
           Out(a) = Out(Now) \cup Elements(owned) \cup V,
           (Elements(owned) \cup V) \cap Out(Now) = {},
           Maps(map, prog, Elements(owned) \cup V), Allows(map, prog),
           Written(map, prog, Elements(owned) \cup V, image),
           spawn(a, prog, map, owned, V, image)
    PROVE  MemInv'
<1>0. PICK x : x = a.next
  OBVIOUS
<1>1. halted = "no" /\ next_pid \in Pids /\ Inv
  BY DEF spawn, MemInv
<1>2. /\ Out(Now) \cap Below = {} /\ Out(Now) \cup Below \subseteq Frames
      /\ \A p \in Live : Keep(proc[p]) \subseteq Out(Now) /\ p \in Pids
  BY <1>1, KeptApart
<1>3. CASE x + KStack > Limit
  <2>1. x \in Nat /\ KStack \in Nat /\ Limit \in Nat
    BY <1>0, Sizes DEF AllocOK, Lendable
  <2>2. ~(x + KStack <= Limit)
    BY <1>3, <2>1
  <2>3. mem' = mem /\ proc' = proc /\ halted' = "kernel stack"
    BY <1>0, <2>2 DEF spawn
  <2>4. Live' = Live
    BY <2>3 DEF Live
  <2>5. Formed' /\ Led'
    BY <2>3, <2>4 DEF MemInv, Formed, Led, Keep
  <2> QED
    BY <2>3, <2>5 DEF MemInv
<1>4. CASE x + KStack <= Limit
  <2>0. PICK t, D : t = Tcb(prog, map, owned, V, x) /\ D = Elements(owned) \cup V
    OBVIOUS
  <2>1. /\ proc' = [proc EXCEPT ![next_pid] = t]
        /\ mem' = [f \in Frames |-> IF f \in D THEN image[f]
                                    ELSE IF f \in KFrames(x) THEN Junk ELSE mem[f]]
        /\ halted' = "no"
    BY <1>0, <1>1, <1>4, <2>0 DEF spawn, Written
  <2>2. /\ x \in Nat /\ x >= FirstFrame /\ KStack \in Nat /\ Limit \in Nat /\ FirstFrame \in Nat
        /\ Out(a) \subseteq FirstFrame .. x - 1
    BY <1>0, Sizes DEF AllocOK, Lendable, Out
  <2>3. KFrames(x) \cap Out(a) = {} /\ KFrames(x) \cap Below = {}
    <3>1. \A f \in KFrames(x) : f \in Int /\ f >= x
      BY <2>2 DEF KFrames
    <3>2. (\A f \in FirstFrame .. x - 1 : f < x) /\ (\A f \in Below : f < x)
      BY <2>2 DEF Below
    <3>3. \A f \in KFrames(x) : f \notin FirstFrame .. x - 1 /\ f \notin Below
      BY <2>2, <3>1, <3>2 DEF Below
    <3> QED
      BY <2>2, <3>3
  <2>4. D \cap Out(Now) = {} /\ D \cap Below = {} /\ D \cap KFrames(x) = {} /\ D \subseteq Frames
    <3>1. (FirstFrame .. x - 1) \cap Below = {} /\ FirstFrame .. x - 1 \subseteq Frames
      BY <1>4, <2>2 DEF Below, Frames
    <3> QED
      BY <2>0, <2>2, <2>3, <3>1
  <2>5. \A f \in Out(Now) \cup Below : mem'[f] = mem[f]
    <3>1. \A f \in Out(Now) \cup Below : f \in Frames /\ f \notin D /\ f \notin KFrames(x)
      BY <1>2, <2>3, <2>4
    <3> QED
      BY <2>1, <3>1
  <2>6. \A f \in D : mem'[f] = image[f]
    BY <2>1, <2>4
  <2>7. /\ t.live /\ t.map = map /\ t.prog = prog /\ D \subseteq Keep(t)
    BY <2>0 DEF Tcb, Keep
  <2>8. /\ proc = [p \in Pids |-> proc[p]] /\ next_pid \notin Live
    <3>1. next_pid \in Nat /\ Tasks
      BY <1>1 DEF Inv
    <3>2. proc[next_pid] = Gone
      BY <1>1, <3>1 DEF Tasks
    <3> QED
      BY <3>1, <3>2 DEF Tasks, Gone, Live
  <2>9. proc'[next_pid] = t /\ \A p \in Pids : p # next_pid => proc'[p] = proc[p]
    BY <1>1, <2>1, <2>8
  <2>10. Live' = Live \cup {next_pid} /\ \A p \in Live : p # next_pid /\ proc'[p] = proc[p]
    BY <1>1, <1>2, <2>7, <2>8, <2>9 DEF Live
  <2>11. Formed'
    <3>1. \A f \in Frames : \/ f \in D /\ mem'[f] = image[f]
                            \/ mem'[f] = Junk \/ mem'[f] = mem[f]
      BY <2>1
    <3>2. Page(Junk)
      BY DEF Page, Junk, Filled
    <3>3. \A f \in D : Page(image[f])
      BY <2>0 DEF Written
    <3> QED
      BY <3>1, <3>2, <3>3 DEF MemInv, Formed
  <2>12. HelloThere'
    BY <1>1, <2>5, HelloSame DEF MemInv
  <2>13. Maps(map, prog, Keep(t))
    BY <2>0, <2>7 DEF Maps
  <2>14. Led'
    <3>1. \A p \in Live' : /\ Maps(proc'[p].map, proc'[p].prog, Keep(proc'[p]))
                           /\ Allows(proc'[p].map, proc'[p].prog)
      <4> TAKE p \in Live'
      <4>1. CASE p \in Live
        BY <2>10, <4>1 DEF MemInv, Led
      <4>2. CASE p = next_pid
        BY <2>7, <2>9, <2>13, <4>2
      <4> QED
        BY <2>10, <4>1, <4>2
    <3> QED
      BY <3>1 DEF Led, Keep
  <2>15. View'
    <3> SUFFICES ASSUME NEW p \in Live' PROVE Sees(proc'[p].map, proc'[p].prog, mem', Mark(p))
      BY DEF View
    <3>1. CASE p \in Live
      <4>1. /\ Maps(proc[p].map, proc[p].prog, Keep(proc[p]))
            /\ Sees(proc[p].map, proc[p].prog, mem, Mark(p))
        BY <1>1, <3>1 DEF MemInv, Led, View
      <4>2. \A f \in Keep(proc[p]) \cup Below : mem'[f] = mem[f]
        BY <1>2, <2>5, <3>1
      <4> QED
        BY <2>10, <3>1, <4>1, <4>2, SeesSame
    <3>2. CASE p = next_pid
      <4>1. \A v \in DOMAIN map, o \in Offsets : mem'[map[v].frame][o] = Image(prog, v, o)
        <5> TAKE v \in DOMAIN map, o \in Offsets
        <5>1. CASE map[v].frame \in D
          BY <2>0, <2>6, <5>1 DEF Written
        <5>2. CASE map[v].frame \in Below
          BY <2>5, <5>2 DEF Written
        <5> QED
          BY <2>0, <5>1, <5>2 DEF Maps
      <4> QED
        BY <2>7, <2>9, <3>2, <4>1 DEF Sees
    <3> QED
      BY <2>10, <3>1, <3>2
  <2> QED
    BY <2>11, <2>12, <2>14, <2>15 DEF MemInv
<1>5. x \in Int /\ KStack \in Int /\ Limit \in Int
  BY <1>0, Sizes DEF AllocOK, Lendable
<1> QED
  BY <1>3, <1>4, <1>5


(* The three ways to begin.                                                 *)
LEMMA LoadedFormed ==
    ASSUME NEW prog \in Programs \cup {Hello}, NEW v
    PROVE  Page(Loaded(prog, v))
<1>1. PICK n : n = Len(prog) /\ n \in Nat
  BY SegmentTyped
<1>2. PICK f : Stages(f, prog, v, n)
  BY <1>1, LoadedPages
<1> DEFINE S == { k \in Nat : k <= n => Page(f[k]) }
<1>3. 0 \in S
  BY <1>2 DEF Stages, Page, Zero, Filled
<1>4. ASSUME NEW k \in Nat, k \in S PROVE k + 1 \in S
  <2> SUFFICES ASSUME k + 1 <= n PROVE Page(f[k + 1])
    OBVIOUS
  <2>1. k \in 0 .. n - 1
    BY <1>1
  <2>2. f[k + 1] = Copied(f[k], prog[k + 1], v)
    BY <1>2, <2>1 DEF Stages
  <2> QED
    BY <2>2 DEF Page, Copied
<1>5. Nat \subseteq S
  <2> HIDE DEF S
  <2> QED
    BY <1>3, <1>4, NatInd
<1>6. Page(f[n])
  BY <1>1, <1>5
<1> QED
  BY <1>2, <1>6 DEF Stages

LEMMA AboveBelow ==
    ASSUME AllocOK(Now), NEW a, AllocOK(a), NEW X, Out(a) = Out(Now) \cup X
    PROVE  X \subseteq Frames /\ \A f \in X : f \in Nat /\ f >= FirstFrame /\ f \notin Below
<1>1. X \subseteq FirstFrame .. a.next - 1 /\ a.next \in FirstFrame .. Limit
  BY DEF Out, AllocOK, Lendable
<1> QED
  BY <1>1, Sizes DEF Below, Frames

(* The frames of the loader's pages: one each, in the order of got.         *)
LEMMA LoadedPagesApart ==
    ASSUME NEW prog \in Programs, NEW got \in Seq(Frames), NEW n \in Nat, Len(got) = n + 1,
           IsInjective(got), n = Cardinality(Touched(prog)), NEW stack, stack = got[n + 1],
           NEW pages, pages = load_fresh(prog, got)
    PROVE  /\ DOMAIN pages = Touched(prog)
           /\ \A v \in Touched(prog) : /\ pages[v].frame \in Elements(got)
                                       /\ pages[v].frame # stack
                                       /\ pages[v].w = prog[Toucher(prog, v)].w
                                       /\ pages[v].x = prog[Toucher(prog, v)].x
           /\ \A u, v \in Touched(prog) : pages[u].frame = pages[v].frame => u = v
<1>1. /\ DOMAIN got = 1 .. n + 1 /\ Elements(got) = { got[i] : i \in 1 .. n + 1 }
      /\ \A i, j \in 1 .. n + 1 : got[i] = got[j] => i = j
  <2>1. DOMAIN got = 1 .. n + 1
    BY LenProperties
  <2> QED
    BY <2>1 DEF IsInjective, Elements
<1>2. /\ DOMAIN pages = Touched(prog)
      /\ \A v \in Touched(prog) : /\ pages[v].frame = got[Rank(prog, v)]
                                  /\ pages[v].w = prog[Toucher(prog, v)].w
                                  /\ pages[v].x = prog[Toucher(prog, v)].x
  BY DEF load_fresh
<1>3. \A v \in Touched(prog) : Rank(prog, v) \in 1 .. n
  BY RankWithin
<1>4. \A i \in 1 .. n : i \in 1 .. n + 1 /\ i # n + 1
  OBVIOUS
<1>5. n + 1 \in 1 .. n + 1
  OBVIOUS
<1>6. \A v \in Touched(prog) : pages[v].frame \in Elements(got) /\ pages[v].frame # stack
  BY <1>1, <1>2, <1>3, <1>4, <1>5
<1>7. \A u, v \in Touched(prog) : pages[u].frame = pages[v].frame => u = v
  <2>1. \A u, v \in Touched(prog) : Rank(prog, u) = Rank(prog, v) => u = v
    BY RankOne
  <2> QED
    BY <1>1, <1>2, <1>3, <1>4, <2>1
<1> QED
  BY <1>2, <1>6, <1>7

(* elf.rs:148-151: a page has the rights of the segment that touched it     *)
(* first, none of which is both writable and executable.                    *)
LEMMA LoadedAllows ==
    ASSUME NEW prog \in Programs, NEW pages, DOMAIN pages = Touched(prog),
           \A v \in Touched(prog) : /\ pages[v].w = prog[Toucher(prog, v)].w
                                    /\ pages[v].x = prog[Toucher(prog, v)].x,
           NEW stack, stack \in Nat, stack >= FirstFrame
    PROVE  Allows(UserMap(pages, stack), prog)
<1> DEFINE map == UserMap(pages, stack)
           Segs(v) == { prog[i] : i \in { i \in 1 .. Len(prog) : v \in Pages(prog[i]) } }
<1>1. /\ DOMAIN map = Touched(prog) \cup {stack}
      /\ map[stack] = [frame |-> stack, w |-> TRUE, x |-> FALSE]
      /\ \A v \in Touched(prog) : v # stack => map[v] = pages[v]
  BY DEF UserMap
<1>2. ~(stack < FirstFrame)
  BY Sizes
<1>3. \A v \in Touched(prog) : /\ v < FirstFrame /\ v # stack
  <2>1. \A v \in Touched(prog) : v \in 0 .. FirstFrame - 1
    BY TouchedBelow
  <2> QED
    BY <2>1, Sizes
<1>4. ASSUME NEW v \in Touched(prog)
      PROVE  /\ ~(map[v].w /\ map[v].x)
             /\ map[v].w => \E s \in Segs(v) : s.w
             /\ map[v].x => \E s \in Segs(v) : s.x
  <2>0. PICK i : i = Toucher(prog, v)
    OBVIOUS
  <2>1. i \in 1 .. Len(prog) /\ v \in Pages(prog[i])
    BY <2>0, ToucherFacts
  <2>2. ~(prog[i].w /\ prog[i].x)
    BY <2>1, SegmentTyped
  <2>3. map[v].w = prog[i].w /\ map[v].x = prog[i].x
    BY <1>1, <1>3, <2>0
  <2>4. prog[i] \in Segs(v)
    BY <2>1
  <2> HIDE DEF map, Segs
  <2> QED
    BY <2>2, <2>3, <2>4
<1>5. ~(map[stack].w /\ map[stack].x)
  BY <1>1
<1> QED
  <2> SUFFICES ASSUME NEW v \in DOMAIN map
               PROVE  /\ ~(map[v].w /\ map[v].x)
                      /\ v < FirstFrame /\ map[v].w => \E s \in Segs(v) : s.w
                      /\ v < FirstFrame /\ map[v].x /\ map[v].frame # v
                         => \E s \in Segs(v) : s.x
    BY DEF Allows
  <2> HIDE DEF map, Segs
  <2>1. CASE v = stack
    BY <1>2, <1>5, <2>1
  <2>2. CASE v \in Touched(prog)
    BY <1>4, <2>2
  <2> QED
    BY <1>1, <2>1, <2>2

LEMMA MemSpawnProgram ==
    ASSUME MemInv, NEW prog \in Programs, spawn_program(prog)
    PROVE  MemInv'
<1>0. PICK n, got, pages, stack, t, tabs, image :
         /\ n = Cardinality(Touched(prog)) /\ got = Got(Now, n + 1)
         /\ pages = load_fresh(prog, got) /\ stack = got[n + 1]
         /\ t = Tables(Touched(prog) \cup {stack}) /\ tabs = Got(After(Now, n + 1), t)
         /\ Room(Now) >= n + 1 + t
         /\ image = [f \in Elements(got) \cup Elements(tabs) |->
                       IF f \in Elements(tabs) THEN Junk ELSE IF f = stack THEN Zero
                       ELSE Loaded(prog, CHOOSE v \in Touched(prog) : pages[v].frame = f)]
         /\ spawn(After(Now, n + 1 + t), prog, UserMap(pages, stack),
                  tabs \o SubSeq(got, 1, n), {stack}, image)
  BY DEF spawn_program
<1>1. IsFiniteSet(Touched(prog)) /\ n \in Nat /\ n + 1 \in Nat
  BY <1>0, TouchedFinite
<1>2. t \in Nat
  <2>1. IsFiniteSet(Touched(prog) \cup {stack})
    BY <1>1, FS_AddElement
  <2> QED
    BY <1>0, <2>1, SomeTables
<1>3. Inv /\ AllocOK(Now)
  BY DEF MemInv, Inv
<1>4. Inv'
  BY <1>3, SpawnProgramInv
<1>5. PICK a, map, D, pre : /\ a = After(Now, n + 1 + t) /\ map = UserMap(pages, stack)
                            /\ D = Elements(got) \cup Elements(tabs)
                            /\ pre = SubSeq(got, 1, n)
  OBVIOUS
<1>6. /\ AllocOK(a)
      /\ got \in Seq(Frames) /\ Len(got) = n + 1 /\ IsInjective(got)
      /\ tabs \in Seq(Frames)
      /\ Elements(got) \cap Elements(tabs) = {}
      /\ Elements(got) \cap Out(Now) = {} /\ Elements(tabs) \cap Out(Now) = {}
      /\ Out(a) = Out(Now) \cup Elements(got) \cup Elements(tabs)
  <2>1. PICK m : m = n + 1
    OBVIOUS
  <2>2. m \in Nat /\ Room(Now) >= m + t /\ got = Got(Now, m) /\ tabs = Got(After(Now, m), t)
    BY <1>0, <1>1, <2>1
  <2>3. /\ AllocOK(After(Now, m + t))
        /\ got \in Seq(Frames) /\ Len(got) = m /\ IsInjective(got)
        /\ tabs \in Seq(Frames)
        /\ Elements(got) \cap Elements(tabs) = {}
        /\ Elements(got) \cap Out(Now) = {} /\ Elements(tabs) \cap Out(Now) = {}
        /\ Out(After(Now, m + t)) = Out(Now) \cup Elements(got) \cup Elements(tabs)
    BY <1>2, <1>3, <2>2, TakenTwice
  <2> QED
    BY <1>5, <2>1, <2>3
<1>7. Elements(tabs \o pre) \cup {stack} = D
  <2>1. pre \in Seq(Frames) /\ Elements(pre) = { got[i] : i \in 1 .. n }
    <3>1. n <= Len(got)
      BY <1>1, <1>6
    <3> QED
      BY <1>1, <1>5, <1>6, <3>1, Prefix
  <2>2. 1 .. n + 1 = 1 .. n \cup {n + 1}
    BY <1>1
  <2>3. Elements(got) = { got[i] : i \in 1 .. n + 1 }
    BY <1>6 DEF Elements
  <2>4. Elements(got) = Elements(pre) \cup {stack}
    BY <1>0, <2>1, <2>2, <2>3
  <2>5. Elements(tabs \o pre) = Elements(tabs) \cup Elements(pre)
    BY <1>6, <2>1, Joining
  <2> QED
    BY <1>5, <2>4, <2>5
<1>8. Out(a) = Out(Now) \cup D /\ D \cap Out(Now) = {}
  BY <1>5, <1>6
<1>9. \A f \in D : f \in Nat /\ f >= FirstFrame /\ f \notin Below
  BY <1>3, <1>6, <1>8, AboveBelow
<1>10. /\ DOMAIN pages = Touched(prog)
       /\ \A v \in Touched(prog) : /\ pages[v].frame \in Elements(got)
                                   /\ pages[v].frame # stack
                                   /\ pages[v].w = prog[Toucher(prog, v)].w
                                   /\ pages[v].x = prog[Toucher(prog, v)].x
       /\ \A u, v \in Touched(prog) : pages[u].frame = pages[v].frame => u = v
  BY <1>0, <1>1, <1>6, LoadedPagesApart
<1>11. stack \in D /\ stack \in Nat /\ stack >= FirstFrame /\ stack \notin Elements(tabs)
  <2>1. stack \in D
    BY <1>7
  <2>2. stack \in Elements(got)
    BY <1>0, <1>1, <1>6 DEF Elements
  <2> QED
    BY <1>6, <1>9, <2>1, <2>2
<1>12. Allows(map, prog)
  BY <1>5, <1>10, <1>11, LoadedAllows
<1>13. /\ DOMAIN map = Touched(prog) \cup {stack}
       /\ map[stack] = [frame |-> stack, w |-> TRUE, x |-> FALSE]
       /\ \A v \in Touched(prog) : v # stack => map[v] = pages[v]
  BY <1>5, <1>10 DEF UserMap
<1>14. \A v \in Touched(prog) : v # stack /\ v \in Nat
  <2>1. \A v \in Touched(prog) : v \in 0 .. FirstFrame - 1
    BY TouchedBelow
  <2> QED
    BY <1>11, <2>1, Sizes
<1>15. Maps(map, prog, D)
  <2>1. \A v \in DOMAIN map : map[v].frame \in D
    BY <1>5, <1>10, <1>11, <1>13, <1>14
  <2>2. \A u, v \in DOMAIN map : map[u].frame = map[v].frame => u = v
    BY <1>10, <1>13, <1>14
  <2> QED
    BY <1>13, <2>1, <2>2 DEF Maps
<1>16. Written(map, prog, D, image)
  <2>1. \A f \in D : image[f] = IF f \in Elements(tabs) THEN Junk ELSE IF f = stack THEN Zero
                     ELSE Loaded(prog, CHOOSE v \in Touched(prog) : pages[v].frame = f)
    BY <1>0, <1>5
  <2>2. DOMAIN image = D
    BY <1>0, <1>5
  <2>3. \A v \in Touched(prog) : image[pages[v].frame] = Loaded(prog, v)
    <3> TAKE v \in Touched(prog)
    <3>1. (CHOOSE u \in Touched(prog) : pages[u].frame = pages[v].frame) = v
      BY <1>10
    <3>2. pages[v].frame \in D /\ pages[v].frame \notin Elements(tabs) /\ pages[v].frame # stack
      BY <1>5, <1>6, <1>10
    <3> QED
      BY <2>1, <3>1, <3>2
  <2>4. \A o \in Offsets : Page(Junk) /\ Page(Zero) /\ Zero[o] = 0
    BY ZeroFacts
  <2>5. 0 \in Offsets
    BY Sizes DEF Offsets
  <2>6. \A f \in D : Page(image[f])
    <3> TAKE f \in D
    <3>1. CASE f \in Elements(tabs) \/ f = stack
      BY <2>1, <2>4, <2>5, <3>1
    <3>2. CASE f \notin Elements(tabs) /\ f # stack
      <4> DEFINE u == CHOOSE v \in Touched(prog) : pages[v].frame = f
      <4>1. image[f] = Loaded(prog, u)
        BY <2>1, <3>2
      <4> HIDE DEF u
      <4>2. Page(Loaded(prog, u))
        BY LoadedFormed
      <4> QED
        BY <4>1, <4>2
    <3> QED
      BY <3>1, <3>2
  <2>7. \A v \in DOMAIN map, o \in Offsets : image[map[v].frame][o] = Image(prog, v, o)
    <3> TAKE v \in DOMAIN map, o \in Offsets
    <3>1. CASE v \in Touched(prog)
      <4>1. Loaded(prog, v)[o] = Image(prog, v, o)
        BY <1>14, <3>1, LoadedIsImage
      <4> QED
        BY <1>13, <1>14, <2>3, <3>1, <4>1
    <3>2. CASE v = stack
      <4>1. image[stack] = Zero
        BY <1>11, <2>1
      <4>2. Image(prog, stack, o) = 0
        BY <1>11, BeyondPrograms
      <4> QED
        BY <1>13, <2>4, <3>2, <4>1, <4>2
    <3> QED
      BY <1>13, <3>1, <3>2
  <2>8. \A v \in DOMAIN map : map[v].frame \notin Below
    <3>1. map[stack].frame = stack /\ stack \notin Below
      BY <1>9, <1>11, <1>13
    <3>2. \A v \in Touched(prog) : map[v].frame = pages[v].frame /\ pages[v].frame \notin Below
      BY <1>5, <1>9, <1>10, <1>13, <1>14
    <3> QED
      BY <1>13, <3>1, <3>2
  <2> QED
    BY <2>2, <2>6, <2>7, <2>8 DEF Written
<1>17. spawn(a, prog, map, tabs \o pre, {stack}, image)
  BY <1>0, <1>5
<1> QED
  <2>1. PICK owned, V : owned = tabs \o pre /\ V = {stack}
    OBVIOUS
  <2>2. Elements(owned) \cup V = D
    BY <1>7, <2>1
  <2> QED
    BY <1>4, <1>6, <1>8, <1>12, <1>15, <1>16, <1>17, <2>1, <2>2, MemSpawned


LEMMA MemIsotest == ASSUME MemInv, isotest PROVE MemInv'
<1>0. PICK got, stack, t, tabs, image :
         /\ got = Got(Now, 1) /\ stack = got[1]
         /\ t = Tables(Touched(Hello) \cup {stack}) /\ tabs = Got(After(Now, 1), t)
         /\ Room(Now) >= 1 + t
         /\ image = [f \in {stack} \cup Elements(tabs) |-> IF f = stack THEN Zero ELSE Junk]
         /\ spawn(After(Now, 1 + t), Hello, UserMap(InPlace, stack), tabs, {stack}, image)
  BY DEF isotest
<1>1. t \in Nat
  <2>1. IsFiniteSet(Touched(Hello) \cup {stack})
    BY TouchedFinite, FS_AddElement
  <2> QED
    BY <1>0, <2>1, SomeTables
<1>2. Inv /\ AllocOK(Now) /\ halted = "no" /\ HelloThere
  BY <1>0 DEF MemInv, Inv, spawn
<1>3. Inv'
  BY <1>2, IsotestInv
<1>4. PICK a, map, D : /\ a = After(Now, 1 + t) /\ map = UserMap(InPlace, stack)
                       /\ D = Elements(tabs) \cup {stack}
  OBVIOUS
<1>5. /\ AllocOK(a) /\ got \in Seq(Frames) /\ Len(got) = 1
      /\ Elements(got) \cap Elements(tabs) = {}
      /\ Elements(got) \cap Out(Now) = {} /\ Elements(tabs) \cap Out(Now) = {}
      /\ Out(a) = Out(Now) \cup Elements(got) \cup Elements(tabs)
  BY <1>0, <1>1, <1>2, <1>4, TakenTwice
<1>6. Elements(got) = {stack}
  BY <1>0, <1>5 DEF Elements
<1>7. Out(a) = Out(Now) \cup D /\ D \cap Out(Now) = {} /\ stack \in D /\ stack \notin Elements(tabs)
  BY <1>4, <1>5, <1>6
<1>8. \A f \in D : f \in Nat /\ f >= FirstFrame /\ f \notin Below
  BY <1>2, <1>5, <1>7, AboveBelow
<1>9. \A v \in Touched(Hello) : v \in Below /\ v \in Nat /\ v # stack
  <2>1. \A v \in Touched(Hello) : v \in 0 .. FirstFrame - 1
    BY TouchedBelow
  <2> QED
    BY <1>7, <1>8, <2>1, Sizes DEF Below
<1>10. /\ DOMAIN map = Touched(Hello) \cup {stack}
       /\ map[stack] = [frame |-> stack, w |-> TRUE, x |-> FALSE]
       /\ \A v \in Touched(Hello) : map[v] = [frame |-> v, w |-> FALSE, x |-> TRUE]
  BY <1>4, <1>9 DEF UserMap, InPlace
<1>11. Maps(map, Hello, D)
  <2>1. /\ map[stack].frame = stack
        /\ \A v \in Touched(Hello) : map[v].frame = v /\ ~map[v].w
    BY <1>10
  <2>2. \A v \in DOMAIN map : map[v].frame = v
    BY <1>10, <2>1
  <2>3. \A v \in DOMAIN map : map[v].frame \in D \/ (map[v].frame \in Below /\ ~map[v].w)
    BY <1>7, <1>9, <1>10, <2>1
  <2> QED
    BY <1>10, <2>2, <2>3 DEF Maps
<1>12. Allows(map, Hello)
  <2>1. ~(stack < FirstFrame)
    BY <1>7, <1>8, Sizes
  <2>2. /\ map[stack].w /\ ~map[stack].x
        /\ \A v \in Touched(Hello) : map[v].frame = v /\ ~map[v].w
    BY <1>10
  <2> QED
    BY <1>10, <2>1, <2>2 DEF Allows
<1>13. Written(map, Hello, D, image)
  <2>1. DOMAIN image = D /\ \A f \in D : image[f] = IF f = stack THEN Zero ELSE Junk
    BY <1>0, <1>4
  <2>2. 0 \in Offsets
    BY Sizes DEF Offsets
  <2>3. Page(Junk) /\ Page(Zero) /\ \A o \in Offsets : Zero[o] = 0
    BY <2>2, ZeroFacts
  <2>4. \A f \in D : Page(image[f])
    BY <2>1, <2>3
  <2>5. \A o \in Offsets : image[map[stack].frame][o] = Image(Hello, stack, o)
    <3> TAKE o \in Offsets
    <3>1. Image(Hello, stack, o) = 0
      BY <1>7, <1>8, BeyondPrograms
    <3>2. image[map[stack].frame] = Zero
      BY <1>7, <1>10, <2>1
    <3> QED
      BY <2>3, <3>1, <3>2
  <2>6. \A v \in Touched(Hello), o \in Offsets :
           mem[map[v].frame][o] = Image(Hello, v, o) /\ map[v].frame \notin D
    BY <1>2, <1>8, <1>9, <1>10 DEF HelloThere
  <2>7. map[stack].frame \notin Below
    BY <1>7, <1>8, <1>10
  <2> QED
    BY <1>10, <2>1, <2>4, <2>5, <2>6, <2>7 DEF Written
<1> QED
  <2>1. PICK V : V = {stack}
    OBVIOUS
  <2>2. Elements(tabs) \cup V = D /\ spawn(a, Hello, map, tabs, V, image)
    BY <1>0, <1>4, <2>1
  <2> QED
    BY <1>3, <1>5, <1>7, <1>11, <1>12, <1>13, <2>2, MemSpawned

LEMMA MemThread == ASSUME MemInv, SpawnThread PROVE MemInv'
<1>1. Inv /\ AllocOK(Now)
  BY DEF MemInv, Inv
<1>2. Inv'
  BY <1>1, SpawnThreadInv
<1>3. PICK e : e = << >>
  OBVIOUS
<1>4. DOMAIN e = {} /\ Elements(e) = {} /\ Touched(e) = {}
  BY <1>3 DEF Elements, Touched
<1>5. PICK V : V = {}
  OBVIOUS
<1>6. /\ Elements(e) \cup V = {}
      /\ Out(Now) = Out(Now) \cup Elements(e) \cup V
      /\ (Elements(e) \cup V) \cap Out(Now) = {}
  BY <1>4, <1>5
<1>7. /\ Maps(e, e, Elements(e) \cup V) /\ Allows(e, e)
      /\ Written(e, e, Elements(e) \cup V, e)
  BY <1>4, <1>6 DEF Maps, Allows, Written
<1>8. spawn(Now, e, e, e, V, e)
  BY <1>3, <1>5 DEF SpawnThread
<1> QED
  BY <1>1, <1>2, <1>6, <1>7, <1>8, MemSpawned

LEMMA MemInit == Init => MemInv
<1> SUFFICES ASSUME Init PROVE MemInv
  OBVIOUS
<1>1. Inv
  BY InvInit
<1>2. /\ mem = [f \in Frames |-> IF f \in Touched(Hello) THEN Loaded(Hello, f) ELSE Junk]
      /\ proc = [p \in Pids |-> Gone]
  BY DEF Init
<1>3. Live = {}
  BY <1>2 DEF Live, Gone
<1>4. Page(Junk)
  BY DEF Page, Junk, Filled
<1>5. Formed
  <2>1. \A f \in Frames : mem[f] = Loaded(Hello, f) \/ mem[f] = Junk
    BY <1>2
  <2>2. \A f \in Frames : Page(Loaded(Hello, f))
    BY LoadedFormed
  <2> QED
    BY <1>4, <2>1, <2>2 DEF Formed
<1>6. HelloThere
  <2> SUFFICES ASSUME NEW v \in Touched(Hello), NEW o \in Offsets
               PROVE  mem[v][o] = Image(Hello, v, o)
    BY DEF HelloThere
  <2>1. v \in Nat /\ v \in Frames
    <3>1. v \in 0 .. FirstFrame - 1
      BY TouchedBelow
    <3> QED
      BY <3>1, Sizes DEF Frames
  <2>2. mem[v] = Loaded(Hello, v)
    BY <1>2, <2>1
  <2> QED
    BY <2>1, <2>2, LoadedIsImage
<1> QED
  BY <1>1, <1>3, <1>5, <1>6 DEF MemInv, Led, View

LEMMA MemNext == MemInv /\ [Next]_vars => MemInv'
<1> SUFFICES ASSUME MemInv, [Next]_vars PROVE MemInv'
  OBVIOUS
<1>0. Inv
  BY DEF MemInv
<1>1. Inv'
  BY <1>0, InvNext
<1>2. ASSUME NEW prog \in Programs, spawn_program(prog) PROVE MemInv'
  BY <1>2, MemSpawnProgram
<1>3. ASSUME NEW prog \in Programs, LoadFails(prog) \/ StackFails(prog) PROVE MemInv'
  <2>1. halted = "no" /\ proc' = proc /\ mem' = mem
    BY <1>3 DEF LoadFails, StackFails, TakenForGood
  <2> QED
    BY <1>1, <2>1, MemStays
<1>4. ASSUME NEW prog \in Programs, TablesFail(prog) PROVE MemInv'
  <2>1. halted = "no" /\ proc' = proc /\ mem' = mem
    BY <1>4 DEF TablesFail
  <2> QED
    BY <1>1, <2>1, MemStays
<1>5. CASE isotest
  BY <1>5, MemIsotest
<1>6. CASE IsotestFails
  <2>1. halted = "no" /\ proc' = proc /\ mem' = mem
    BY <1>6 DEF IsotestFails
  <2> QED
    BY <1>1, <2>1, MemStays
<1>7. CASE SpawnThread
  BY <1>7, MemThread
<1>8. ASSUME NEW p \in Pids, NEW v \in DOMAIN proc[p].map, Store(p, v) PROVE MemInv'
  BY <1>8, MemStore
<1>9. ASSUME NEW p \in Pids, exit_current(p) PROVE MemInv'
  BY <1>9, MemExit
<1>10. ASSUME NEW p \in Pids, reap(p) PROVE MemInv'
  BY <1>10, MemReap
<1>11. CASE UNCHANGED vars
  <2>1. proc' = proc /\ mem' = mem /\ halted' = halted
    BY <1>11 DEF vars
  <2>2. Live' = Live
    BY <2>1 DEF Live
  <2>3. Formed' /\ Led' /\ (HelloThere => HelloThere') /\ (View => View')
    BY <2>1, <2>2 DEF MemInv, Formed, Led, HelloThere, View, Keep
  <2> QED
    BY <1>1, <2>1, <2>3 DEF MemInv
<1> QED
  BY <1>2, <1>3, <1>4, <1>5, <1>6, <1>7, <1>8, <1>9, <1>10, <1>11 DEF Next

(* elf.rs:119-188, main.rs:1252-1258: as long as nothing panicked, a task   *)
(* sees its program at every address, zeros behind a segment's bytes, and   *)
(* its own stores, whoever else is spawned, stores and is reaped; and its   *)
(* pages have the rights of its segments, none both writable and            *)
(* executable.                                                              *)
THEOREM MemoryIsOwn == Spec => []MemoryOwn
<1>1. Init => MemInv
  BY MemInit
<1>2. MemInv /\ [Next]_vars => MemInv'
  BY MemNext
<1>3. MemInv => MemoryOwn
  BY MemInvOwn
<1> QED
  BY <1>1, <1>2, <1>3, PTL DEF Spec
=============================================================================
