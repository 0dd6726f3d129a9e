----------------------------- MODULE PartsProofs ------------------------------
(***************************************************************************)
(* Theorems about the parts of module Parts, for any characters, clients,  *)
(* windows, keys and processes: the scancode ring is a queue, a process    *)
(* stays inside its rights, tiles stay inside the screen and apart, the    *)
(* line editor stays inside its line and history gives the draft back, and *)
(* the engine's breakers open in time and lose no hit of its trie.         *)
(* Only one part moves in a behaviour, so each theorem rests on an         *)
(* inductive invariant of that part alone.                                 *)
(***************************************************************************)
EXTENDS Parts, Lists, FiniteSetTheorems, SequenceTheorems, WellFoundedInduction, TLAPS

-----------------------------------------------------------------------------
(* The scancode ring.  HEAD and TAIL are reduced by the size of the ring,   *)
(* so what is in it is a number of slots from TAIL on, taken modulo.       *)

LEMMA DivMod ==
    ASSUME NEW m \in Nat \ {0}, NEW x \in Int
    PROVE  x \div m \in Int /\ x % m \in 0 .. m - 1 /\ x = m * (x \div m) + (x % m)
BY Z3

(* A number below twice the ring is taken back by one turn at most.        *)
LEMMA ModTurn ==
    ASSUME NEW m \in Nat \ {0}, NEW x \in 0 .. 2 * m - 1
    PROVE  x % m = IF x < m THEN x ELSE x - m
<1> DEFINE q == x \div m
           r == x % m
<1>1. q \in Int /\ r \in 0 .. m - 1 /\ x = m * q + r
  BY DivMod
<1> HIDE DEF q, r
<1>2. ~(q >= 2)
  <2> SUFFICES ASSUME q >= 2 PROVE FALSE
    OBVIOUS
  <2>1. m * q >= m * 2
    BY <1>1, Z3
  <2> QED
    BY <1>1, <2>1
<1>3. ~(q <= -1)
  <2> SUFFICES ASSUME q <= -1 PROVE FALSE
    OBVIOUS
  <2>1. m * q <= -m
    BY <1>1, Z3
  <2> QED
    BY <1>1, <2>1
<1>4. CASE q = 0
  <2>1. m * q = 0
    BY <1>4
  <2> QED
    BY <1>1, <2>1 DEF r
<1>5. CASE q = 1
  <2>1. m * q = m
    BY <1>5
  <2> QED
    BY <1>1, <2>1 DEF r
<1> QED
  BY <1>1, <1>2, <1>3, <1>4, <1>5

KeyInv ==
    /\ HEAD \in Kb!Slot /\ TAIL \in Kb!Slot
    /\ KEYBUF \in [Kb!Slot -> Scancode]
    /\ \/ reader = Kb!Outside
       \/ reader = [at |-> "in", slot |-> TAIL, sc |-> << >>] /\ HEAD # TAIL
       \/ reader = [at |-> "byte", slot |-> TAIL, sc |-> <<KEYBUF[TAIL]>>] /\ HEAD # TAIL
       \/ \E s \in Kb!Slot : /\ reader = [at |-> "late", slot |-> s, sc |-> << >>]
                             /\ TAIL = Kb!Succ(s) /\ taken = <<KEYBUF[s]>>

LEMMA KeySucc ==
    ASSUME NEW i \in Kb!Slot
    PROVE  Kb!Succ(i) \in Kb!Slot /\ Kb!Succ(i) = IF i = Size - 1 THEN 0 ELSE i + 1
<1> DEFINE k == i + 1
<1>1. Size \in Nat \ {0} /\ k \in 0 .. 2 * Size - 1
  BY KeyboardAssumption DEF Kb!Slot
<1> HIDE DEF k
<1>2. k % Size = IF k < Size THEN k ELSE k - Size
  BY <1>1, ModTurn
<1>3. Kb!Succ(i) = IF k < Size THEN k ELSE k - Size
  BY <1>2, Zenon DEF Kb!Succ, k
<1> QED
  BY <1>3, KeyboardAssumption DEF Kb!Slot, k

(* The number of keys between two indices, and the slot of the i-th key.   *)
LEMMA KeyFill ==
    ASSUME NEW h \in Kb!Slot, NEW t \in Kb!Slot
    PROVE  (h - t + Size) % Size = IF h >= t THEN h - t ELSE h - t + Size
<1> DEFINE k == h - t + Size
<1>1. Size \in Nat \ {0} /\ h \in 0 .. Size - 1 /\ t \in 0 .. Size - 1
  BY KeyboardAssumption DEF Kb!Slot
<1>2. k \in 0 .. 2 * Size - 1
  BY <1>1
<1>3. k % Size = IF k < Size THEN k ELSE k - Size
  <2> HIDE DEF k
  <2> QED
    BY <1>1, <1>2, ModTurn
<1> QED
  BY <1>1, <1>3

LEMMA KeyIndex ==
    ASSUME NEW t \in Kb!Slot, NEW i \in 1 .. Size
    PROVE  (t + i - 1) % Size = IF t + i - 1 < Size THEN t + i - 1 ELSE t + i - 1 - Size
<1> DEFINE k == t + i - 1
<1>1. Size \in Nat \ {0} /\ t \in 0 .. Size - 1
  BY KeyboardAssumption DEF Kb!Slot
<1>2. k \in 0 .. 2 * Size - 1
  BY <1>1
<1>3. k % Size = IF k < Size THEN k ELSE k - Size
  <2> HIDE DEF k
  <2> QED
    BY <1>1, <1>2, ModTurn
<1> QED
  BY <1>1, <1>3

LEMMA KeyInit == Init => KeyInv /\ Kb!Queue!Init
<1> SUFFICES ASSUME Init PROVE KeyInv /\ Kb!Queue!Init
  OBVIOUS
<1>1. Kb!Init
  BY DEF Init
<1>2. KeyInv
  BY <1>1, KeyboardAssumption DEF Kb!Init, KeyInv, Kb!Slot
<1>3. Kb!Fill = 0
  BY <1>1, <1>2, KeyFill, KeyboardAssumption DEF Kb!Init, Kb!Fill, KeyInv
<1>4. Kb!Stored = << >>
  BY <1>3 DEF Kb!Stored
<1> QED
  BY <1>1, <1>2, <1>4 DEF Kb!Init, Kb!Queue!Init

(* The byte a call returns is the one its slot held when the call began.   *)
LEMMA KeyStep == KeyInv /\ Kb!Next => KeyInv'
<1> SUFFICES ASSUME KeyInv, Kb!Next PROVE KeyInv'
  OBVIOUS
<1> USE DEF Kb!Outside
<1>1. Size \in Nat /\ HEAD \in Kb!Slot /\ TAIL \in Kb!Slot /\ KEYBUF \in [Kb!Slot -> Scancode]
  BY KeyboardAssumption DEF KeyInv
<1>2. ASSUME NEW sc \in Scancode, Kb!handle_irq(sc) PROVE KeyInv'
  <2>1. CASE Kb!Succ(HEAD) = TAIL
    BY <1>2, <2>1 DEF KeyInv, Kb!handle_irq
  <2>2. CASE Kb!Succ(HEAD) # TAIL
    <3>1. /\ KEYBUF' = [KEYBUF EXCEPT ![HEAD] = sc] /\ HEAD' = Kb!Succ(HEAD)
          /\ TAIL' = TAIL /\ reader' = reader /\ taken' = taken
      BY <1>2, <2>2 DEF Kb!handle_irq
    <3>2. HEAD' \in Kb!Slot /\ TAIL' \in Kb!Slot /\ KEYBUF' \in [Kb!Slot -> Scancode]
      BY <1>1, <3>1, KeySucc
    <3>3. \A s \in Kb!Slot : s # HEAD => KEYBUF'[s] = KEYBUF[s]
      BY <1>1, <3>1
    <3>4. CASE reader = Kb!Outside
      BY <3>1, <3>2, <3>4 DEF KeyInv
    <3>5. CASE reader = [at |-> "in", slot |-> TAIL, sc |-> << >>] /\ HEAD # TAIL
      BY <2>2, <3>1, <3>2, <3>5 DEF KeyInv
    <3>6. CASE reader = [at |-> "byte", slot |-> TAIL, sc |-> <<KEYBUF[TAIL]>>] /\ HEAD # TAIL
      <4>1. KEYBUF'[TAIL] = KEYBUF[TAIL] /\ HEAD' # TAIL
        BY <1>1, <2>2, <3>1, <3>3, <3>6
      <4> QED
        BY <3>1, <3>2, <3>6, <4>1 DEF KeyInv
    <3>7. ASSUME NEW s \in Kb!Slot, reader = [at |-> "late", slot |-> s, sc |-> << >>],
                 TAIL = Kb!Succ(s), taken = <<KEYBUF[s]>>
          PROVE  KeyInv'
      <4>1. s # HEAD
        BY <2>2, <3>7
      <4>2. KEYBUF'[s] = KEYBUF[s]
        BY <3>3, <3>7, <4>1
      <4>3. Kb!Succ(s)' = Kb!Succ(s)
        BY DEF Kb!Succ
      <4> QED
        BY <3>1, <3>2, <3>7, <4>2 DEF KeyInv, Kb!Succ, Kb!Slot
    <3> QED
      BY <3>4, <3>5, <3>6, <3>7 DEF KeyInv
  <2> QED
    BY <2>1, <2>2
<1>3. CASE Kb!ReadNone
  BY <1>3 DEF KeyInv, Kb!ReadNone
<1>4. CASE Kb!ReadBegin
  BY <1>4 DEF KeyInv, Kb!ReadBegin
<1>5. CASE Kb!ReadByte
  <2>1. reader = [at |-> "in", slot |-> TAIL, sc |-> << >>] /\ HEAD # TAIL
    BY <1>5 DEF KeyInv, Kb!ReadByte
  <2>2. reader' = [at |-> "byte", slot |-> TAIL, sc |-> <<KEYBUF[TAIL]>>]
    BY <1>5, <2>1 DEF Kb!ReadByte
  <2> QED
    BY <1>1, <1>5, <2>1, <2>2 DEF KeyInv, Kb!ReadByte
<1>6. CASE Kb!ReadAdvance
  <2>1. reader.slot = TAIL
    BY <1>6 DEF KeyInv, Kb!ReadAdvance
  <2> QED
    BY <1>1, <1>6, <2>1, KeySucc DEF KeyInv, Kb!ReadAdvance
<1>7. CASE Kb!ReadAdvanceFirst
  <2>1. reader = [at |-> "in", slot |-> TAIL, sc |-> << >>]
    BY <1>7 DEF KeyInv, Kb!ReadAdvanceFirst
  <2>2. reader' = [at |-> "late", slot |-> TAIL, sc |-> << >>]
    BY <1>7, <2>1 DEF Kb!ReadAdvanceFirst
  <2>3. TAIL' = Kb!Succ(TAIL) /\ taken' = <<KEYBUF[TAIL]>> /\ KEYBUF' = KEYBUF /\ HEAD' = HEAD
    BY <1>7, <2>1 DEF Kb!ReadAdvanceFirst
  <2>4. TAIL' \in Kb!Slot
    BY <1>1, <2>3, KeySucc
  <2> QED
    BY <1>1, <2>2, <2>3, <2>4 DEF KeyInv, Kb!Succ, Kb!Slot
<1>8. CASE Kb!ReadByteLate
  <2>1. PICK s \in Kb!Slot : /\ reader = [at |-> "late", slot |-> s, sc |-> << >>]
                             /\ taken = <<KEYBUF[s]>>
    BY <1>8 DEF KeyInv, Kb!ReadByteLate
  <2> QED
    BY <1>1, <1>8, <2>1 DEF KeyInv, Kb!ReadByteLate
<1> QED
  BY <1>2, <1>3, <1>4, <1>5, <1>6, <1>7, <1>8 DEF Kb!Next

(* The queue: how many keys wait, and the slot of each.                    *)
Many(h, t)   == IF h >= t THEN h - t ELSE h - t + Size
Where(t, i)  == IF t + i - 1 < Size THEN t + i - 1 ELSE t + i - 1 - Size
Waits(w, b, h, t) ==
    w = [i \in 1 .. Many(h, t) |-> b[Where(t, i)]] /\ Many(h, t) \in 0 .. Size - 1

LEMMA KeyWaits ==
    ASSUME NEW w, NEW b, NEW h \in Kb!Slot, NEW t \in Kb!Slot,
           w = [i \in 1 .. ((h - t + Size) % Size) |-> b[(t + i - 1) % Size]]
    PROVE  Waits(w, b, h, t)
<1>1. Size \in Nat /\ Size >= 2 /\ h \in 0 .. Size - 1 /\ t \in 0 .. Size - 1
  BY KeyboardAssumption DEF Kb!Slot
<1>2. (h - t + Size) % Size = Many(h, t)
  BY KeyFill DEF Many
<1>3. Many(h, t) \in 0 .. Size - 1
  BY <1>1 DEF Many
<1>4. \A i \in 1 .. Many(h, t) : (t + i - 1) % Size = Where(t, i)
  <2> SUFFICES ASSUME NEW i \in 1 .. Many(h, t) PROVE (t + i - 1) % Size = Where(t, i)
    OBVIOUS
  <2>1. i \in 1 .. Size
    BY <1>1, <1>3
  <2> QED
    BY <2>1, KeyIndex DEF Where
<1> HIDE DEF Many, Where
<1>5. w = [i \in 1 .. Many(h, t) |-> b[Where(t, i)]]
  BY <1>2, <1>4
<1> QED
  BY <1>3, <1>5 DEF Waits

LEMMA KeyStored ==
    /\ KeyInv => Waits(Kb!Stored, KEYBUF, HEAD, TAIL)
    /\ KeyInv' => Waits(Kb!Stored', KEYBUF', HEAD', TAIL')
<1>1. ASSUME KeyInv PROVE Waits(Kb!Stored, KEYBUF, HEAD, TAIL)
  <2>1. HEAD \in Kb!Slot /\ TAIL \in Kb!Slot
    BY <1>1 DEF KeyInv
  <2> QED
    BY <2>1, KeyWaits DEF Kb!Stored, Kb!Fill
<1>2. ASSUME KeyInv' PROVE Waits(Kb!Stored', KEYBUF', HEAD', TAIL')
  <2>1. HEAD' \in Kb!Slot /\ TAIL' \in Kb!Slot
    BY <1>2 DEF KeyInv, Kb!Slot
  <2> QED
    BY <2>1, KeyWaits DEF Kb!Stored, Kb!Fill
<1> QED
  BY <1>1, <1>2

LEMMA KeyPut ==
    ASSUME KeyInv, KeyInv', NEW sc \in Scancode, Kb!handle_irq(sc), Kb!Succ(HEAD) # TAIL
    PROVE  Kb!Queue!Next
<1> DEFINE w == Kb!Stored
           n == Many(HEAD, TAIL)
<1>1. /\ Size \in Nat /\ Size >= 2
      /\ HEAD \in 0 .. Size - 1 /\ TAIL \in 0 .. Size - 1
      /\ KEYBUF \in [0 .. Size - 1 -> Scancode]
  BY KeyboardAssumption DEF KeyInv, Kb!Slot
<1>2. /\ KEYBUF' = [KEYBUF EXCEPT ![HEAD] = sc] /\ HEAD' = Kb!Succ(HEAD)
      /\ TAIL' = TAIL /\ taken' = taken /\ given' = <<sc>>
  BY DEF Kb!handle_irq
<1>3. HEAD' = (IF HEAD = Size - 1 THEN 0 ELSE HEAD + 1) /\ HEAD' # TAIL
  BY <1>2, KeySucc DEF KeyInv
<1>4. Waits(w, KEYBUF, HEAD, TAIL) /\ Waits(w', KEYBUF', HEAD', TAIL')
  BY KeyStored
<1>5. n \in 0 .. Size - 2 /\ Many(HEAD', TAIL') = n + 1
  BY <1>1, <1>2, <1>3 DEF Many
<1>6. \A i \in 1 .. n : Where(TAIL, i) \in 0 .. Size - 1 /\ Where(TAIL, i) # HEAD
  BY <1>1, <1>5 DEF Many, Where
<1>7. Where(TAIL, n + 1) = HEAD
  BY <1>1, <1>5 DEF Many, Where
<1> HIDE DEF w, n
<1>8. w = [i \in 1 .. n |-> KEYBUF[Where(TAIL, i)]]
  BY <1>4 DEF Waits, n
<1>9. w' = [i \in 1 .. n + 1 |-> KEYBUF'[Where(TAIL, i)]]
  BY <1>2, <1>4, <1>5 DEF Waits
<1>10. /\ KEYBUF'[HEAD] = sc
       /\ \A i \in 1 .. n : KEYBUF'[Where(TAIL, i)] = KEYBUF[Where(TAIL, i)]
  BY <1>1, <1>2, <1>6
<1>11. w \in Seq(Scancode) /\ Len(w) = n
  BY <1>1, <1>5, <1>6, <1>8
<1>12. w' = w \o <<sc>>
  BY <1>5, <1>7, <1>8, <1>9, <1>10, <1>11
<1>13. <<sc>> \in Kb!Queue!Strings
  <2>1. <<sc>> \in [1 .. 1 -> Scancode] /\ 1 \in 0 .. Size - 1
    BY <1>1
  <2> QED
    BY <2>1 DEF Kb!Queue!Strings
<1>14. Len(w) + Len(<<sc>>) <= Size - 1
  BY <1>1, <1>5, <1>11
<1>15. Kb!Queue!Put(<<sc>>)
  BY <1>2, <1>12, <1>14 DEF Kb!Queue!Put, w
<1> QED
  BY <1>13, <1>15 DEF Kb!Queue!Next

LEMMA KeyTake ==
    ASSUME KeyInv, KeyInv', HEAD # TAIL, TAIL' = Kb!Succ(TAIL), taken' = <<KEYBUF[TAIL]>>,
           UNCHANGED <<HEAD, KEYBUF, given>>
    PROVE  Kb!Queue!Next
<1> DEFINE w == Kb!Stored
           n == Many(HEAD, TAIL)
<1>1. /\ Size \in Nat /\ Size >= 2
      /\ HEAD \in 0 .. Size - 1 /\ TAIL \in 0 .. Size - 1
      /\ KEYBUF \in [0 .. Size - 1 -> Scancode]
  BY KeyboardAssumption DEF KeyInv, Kb!Slot
<1>2. TAIL' = IF TAIL = Size - 1 THEN 0 ELSE TAIL + 1
  BY KeySucc DEF KeyInv
<1>3. Waits(w, KEYBUF, HEAD, TAIL) /\ Waits(w', KEYBUF', HEAD', TAIL')
  BY KeyStored
<1>4. n \in 1 .. Size - 1 /\ Many(HEAD', TAIL') = n - 1
  BY <1>1, <1>2 DEF Many
<1>5. \A i \in 1 .. n : Where(TAIL, i) \in 0 .. Size - 1
  BY <1>1, <1>4 DEF Many, Where
<1>6. \A i \in 1 .. n - 1 : Where(TAIL', i) = Where(TAIL, i + 1)
  BY <1>1, <1>2, <1>4 DEF Many, Where
<1>7. Where(TAIL, 1) = TAIL
  BY <1>1 DEF Where
<1> HIDE DEF w, n
<1>8. w = [i \in 1 .. n |-> KEYBUF[Where(TAIL, i)]]
  BY <1>3 DEF Waits, n
<1>9. w' = [i \in 1 .. n - 1 |-> KEYBUF[Where(TAIL', i)]]
  BY <1>3, <1>4 DEF Waits
<1>10. w \in Seq(Scancode) /\ Len(w) = n
  BY <1>1, <1>4, <1>5, <1>8
<1>11. w' = SubSeq(w, 1 + 1, Len(w))
  BY <1>4, <1>6, <1>8, <1>9, <1>10
<1>12. taken' = SubSeq(w, 1, 1)
  BY <1>4, <1>7, <1>8, <1>10
<1>13. Kb!Queue!Get(1)
  BY <1>11, <1>12 DEF Kb!Queue!Get, w
<1>14. 1 \in 0 .. Len(w)
  BY <1>4, <1>10
<1> QED
  BY <1>13, <1>14 DEF Kb!Queue!Next, w

LEMMA KeyNone == ASSUME KeyInv, KeyInv', Kb!ReadNone PROVE Kb!Queue!Next
<1>1. Waits(Kb!Stored, KEYBUF, HEAD, TAIL) /\ Waits(Kb!Stored', KEYBUF', HEAD', TAIL')
  BY KeyStored
<1>2. /\ HEAD = TAIL /\ TAIL' = TAIL /\ HEAD' = HEAD /\ HEAD \in Int
      /\ taken' = << >> /\ given' = given
  BY KeyboardAssumption DEF Kb!ReadNone, KeyInv, Kb!Slot
<1>3. Kb!Stored = << >> /\ Kb!Stored' = << >>
  BY <1>1, <1>2 DEF Waits, Many
<1>4. taken' = SubSeq(Kb!Stored, 1, 0) /\ Kb!Stored' = SubSeq(Kb!Stored, 0 + 1, Len(Kb!Stored))
  BY <1>2, <1>3
<1>5. Kb!Queue!Get(0)
  BY <1>2, <1>4 DEF Kb!Queue!Get
<1> QED
  BY <1>3, <1>5 DEF Kb!Queue!Next

LEMMA KeyRefines ==
    ASSUME KeyInv, KeyInv', Kb!Next
    PROVE  [Kb!Queue!Next]_(Kb!Queue!vars)
<1> SUFFICES ASSUME ~UNCHANGED Kb!Queue!vars PROVE Kb!Queue!Next
  OBVIOUS
<1>1. (UNCHANGED <<KEYBUF, HEAD, TAIL>>) => Kb!Stored' = Kb!Stored
  BY DEF Kb!Stored, Kb!Fill
<1>2. ~UNCHANGED <<KEYBUF, HEAD, TAIL, given, taken>>
  BY <1>1 DEF Kb!Queue!vars
<1>3. ASSUME NEW sc \in Scancode, Kb!handle_irq(sc) PROVE Kb!Queue!Next
  <2>1. CASE Kb!Succ(HEAD) # TAIL
    BY <1>3, <2>1, KeyPut
  <2>2. CASE Kb!Succ(HEAD) = TAIL
    <3>1. given' = << >> /\ taken' = taken /\ Kb!Stored' = Kb!Stored
      BY <1>1, <1>3, <2>2 DEF Kb!handle_irq
    <3>2. Waits(Kb!Stored, KEYBUF, HEAD, TAIL)
      BY KeyStored
    <3>3. /\ Kb!Stored = [i \in 1 .. Len(Kb!Stored) |-> Kb!Stored[i]]
          /\ Len(Kb!Stored) \in 0 .. Size - 1 /\ Size \in Nat /\ Size >= 2
      BY <3>2, KeyboardAssumption DEF Waits
    <3>4. << >> \in Kb!Queue!Strings
      <4>1. << >> \in [1 .. 0 -> Scancode] /\ 0 \in 0 .. Size - 1
        BY <3>3
      <4> QED
        BY <4>1 DEF Kb!Queue!Strings
    <3>5. Kb!Stored \o << >> = Kb!Stored
      BY <3>3
    <3>6. Kb!Queue!Put(<< >>)
      BY <3>1, <3>3, <3>5 DEF Kb!Queue!Put
    <3> QED
      BY <3>4, <3>6 DEF Kb!Queue!Next
  <2> QED
    BY <2>1, <2>2
<1>4. CASE Kb!ReadNone
  BY <1>4, KeyNone
<1>5. CASE Kb!ReadBegin
  BY <1>2, <1>5 DEF Kb!ReadBegin
<1>6. CASE Kb!ReadByte
  BY <1>2, <1>6 DEF Kb!ReadByte
<1>7. CASE Kb!ReadAdvance
  <2>1. reader.slot = TAIL /\ reader.sc = <<KEYBUF[TAIL]>> /\ HEAD # TAIL
    BY <1>7 DEF KeyInv, Kb!ReadAdvance, Kb!Outside
  <2> QED
    BY <1>7, <2>1, KeyTake DEF Kb!ReadAdvance
<1>8. CASE Kb!ReadAdvanceFirst
  <2>1. reader.slot = TAIL /\ HEAD # TAIL
    BY <1>8 DEF KeyInv, Kb!ReadAdvanceFirst, Kb!Outside
  <2> QED
    BY <1>8, <2>1, KeyTake DEF Kb!ReadAdvanceFirst
<1>9. CASE Kb!ReadByteLate
  <2>1. PICK s \in Kb!Slot : reader.slot = s /\ taken = <<KEYBUF[s]>>
    BY <1>9 DEF KeyInv, Kb!ReadByteLate, Kb!Outside
  <2> QED
    BY <1>2, <1>9, <2>1 DEF Kb!ReadByteLate
<1> QED
  BY <1>3, <1>4, <1>5, <1>6, <1>7, <1>8, <1>9 DEF Kb!Next

LEMMA KeySpec == KeyInv /\ [Next]_vars => KeyInv'
<1> SUFFICES ASSUME KeyInv, [Next]_vars PROVE KeyInv'
  OBVIOUS
<1>1. CASE Kb!Next
  BY <1>1, KeyStep
<1>2. CASE UNCHANGED keyVars
  BY <1>2 DEF keyVars, KeyInv, Kb!Slot, Kb!Succ, Kb!Outside
<1> QED
  BY <1>1, <1>2 DEF Next, vars, Give, NshStep, AiStep, CompositorStep, KeyboardStep,
     FaultStep, SecurityStep, OnlyNsh, OnlyAi, OnlyCompositor, OnlyFault, OnlySecurity

LEMMA KeyRefinesSpec == KeyInv /\ KeyInv' /\ [Next]_vars => [Kb!Queue!Next]_(Kb!Queue!vars)
<1> SUFFICES ASSUME KeyInv, KeyInv', [Next]_vars PROVE [Kb!Queue!Next]_(Kb!Queue!vars)
  OBVIOUS
<1>1. CASE Kb!Next
  BY <1>1, KeyRefines
<1>2. CASE UNCHANGED keyVars
  BY <1>2 DEF keyVars, Kb!Queue!vars, Kb!Stored, Kb!Fill
<1> QED
  BY <1>1, <1>2 DEF Next, vars, Give, NshStep, AiStep, CompositorStep, KeyboardStep,
     FaultStep, SecurityStep, OnlyNsh, OnlyAi, OnlyCompositor, OnlyFault, OnlySecurity

(* The interrupt and the readers share a ring of scancodes: seen from      *)
(* outside it is a queue of Size - 1 places that drops what does not fit   *)
(* and gives every byte to one reader, in order (keyboard.rs).             *)
THEOREM RingIsQueue == Spec => KeysInOrder
<1>1. Spec => []KeyInv
  BY KeyInit, KeySpec, PTL DEF Spec
<1> QED
  BY <1>1, KeyInit, KeyRefinesSpec, PTL DEF Spec, KeysInOrder, Kb!KeysInOrder, Kb!Queue!Spec

-----------------------------------------------------------------------------
(* Lists and their filtering, and the security registries.                 *)

LEMMA NatInd ==
    ASSUME NEW S, 0 \in S, \A n \in Nat : n \in S => n + 1 \in S
    PROVE  Nat \subseteq S
<1> DEFINE Less == {ss \in Nat \X Nat : ss[1] < ss[2]}
           T    == Nat \ S
<1> SUFFICES ASSUME T # {} PROVE FALSE
  OBVIOUS
<1>1. IsWellFoundedOn(Less, Nat)
  BY NatLessThanWellFounded DEF OpToRel
<1>2. \A j, k \in Nat : j < k => <<j, k>> \in Less
  OBVIOUS
<1>3. T \subseteq Nat
  OBVIOUS
<1> HIDE DEF Less
<1>4. PICK k \in T : \A j \in T : ~(<<j, k>> \in Less)
  <2> HIDE DEF T
  <2> QED
    BY <1>1, <1>3, WFMin
<1>5. k \in Nat /\ k # 0 /\ k - 1 \in Nat /\ (k - 1) + 1 = k
  OBVIOUS
<1>6. k - 1 \in T
  BY <1>5
<1>7. <<k - 1, k>> \in Less
  BY <1>2, <1>5
<1> QED
  BY <1>4, <1>6, <1>7

(* Every set of numbers that is not empty has a least one.                 *)
LEMMA Least ==
    ASSUME NEW T, T \subseteq Nat, T # {}
    PROVE  \E n \in T : \A m \in T : n <= m
<1> SUFFICES ASSUME \A n \in T : \E m \in T : ~(n <= m) PROVE FALSE
  OBVIOUS
<1> DEFINE S == {n \in Nat : \A m \in 0 .. n : m \notin T}
<1>1. 0 \in S
  BY SMT
<1>2. \A n \in Nat : n \in S => n + 1 \in S
  <2> SUFFICES ASSUME NEW n \in Nat, n \in S PROVE n + 1 \in S
    OBVIOUS
  <2>1. \A m \in 0 .. n : m \notin T
    OBVIOUS
  <2>2. n + 1 \notin T
    BY <2>1
  <2> QED
    BY <2>1, <2>2
<1> HIDE DEF S
<1>3. Nat \subseteq S
  BY <1>1, <1>2, NatInd
<1>4. \A n \in Nat : n \notin T
  BY <1>3 DEF S
<1> QED
  BY <1>4

-----------------------------------------------------------------------------
(* Kept: the elements at some positions, in order.                         *)
Thinning(f, s, where, m) ==
    f = [n \in 0 .. m |->
            IF n = 0 THEN << >>
            ELSE IF n \in where THEN Append(f[n - 1], s[n]) ELSE f[n - 1]]

LEMMA ThinningExists ==
    ASSUME NEW s, NEW where, NEW m \in Nat
    PROVE  \E f : Thinning(f, s, where, m)
<1> DEFINE T == {n \in Nat : \E f : Thinning(f, s, where, n)}
<1>1. 0 \in T
  <2> DEFINE f == [n \in 0 .. 0 |-> << >>]
  <2>1. Thinning(f, s, where, 0)
    BY DEF Thinning
  <2> QED
    BY <2>1
<1>2. \A n \in Nat : n \in T => n + 1 \in T
  <2> SUFFICES ASSUME NEW n \in Nat, NEW f, Thinning(f, s, where, n)
               PROVE  \E g : Thinning(g, s, where, n + 1)
    OBVIOUS
  <2> DEFINE last == IF n + 1 \in where THEN Append(f[n], s[n + 1]) ELSE f[n]
             g == [i \in 0 .. n + 1 |-> IF i = n + 1 THEN last ELSE f[i]]
  <2> HIDE DEF last
  <2>1. \A i \in 0 .. n : g[i] = f[i] /\ g[n + 1] = last
    BY SMT
  <2>2. \A i \in 0 .. n + 1 :
          g[i] = IF i = 0 THEN << >>
                 ELSE IF i \in where THEN Append(g[i - 1], s[i]) ELSE g[i - 1]
    <3> SUFFICES ASSUME NEW i \in 0 .. n + 1
                 PROVE  g[i] = IF i = 0 THEN << >>
                               ELSE IF i \in where THEN Append(g[i - 1], s[i]) ELSE g[i - 1]
      OBVIOUS
    <3>1. CASE i = n + 1
      <4>1. g[i - 1] = f[n] /\ i # 0 /\ g[i] = last
        BY <2>1, <3>1
      <4> HIDE DEF g
      <4> QED
        BY <3>1, <4>1 DEF last
    <3>2. CASE i \in 0 .. n
      <4>1. f[i] = IF i = 0 THEN << >>
                   ELSE IF i \in where THEN Append(f[i - 1], s[i]) ELSE f[i - 1]
        BY <3>2 DEF Thinning
      <4>2. g[i] = f[i] /\ (i # 0 => g[i - 1] = f[i - 1])
        BY <2>1, <3>2
      <4> HIDE DEF g
      <4> QED
        BY <4>1, <4>2
    <3> QED
      BY <3>1, <3>2
  <2>3. g = [i \in 0 .. n + 1 |-> g[i]]
    OBVIOUS
  <2> HIDE DEF g
  <2>4. Thinning(g, s, where, n + 1)
    BY <2>2, <2>3 DEF Thinning
  <2> QED
    BY <2>4
<1> HIDE DEF T
<1>3. m \in T
  BY <1>1, <1>2, NatInd
<1> QED
  BY <1>3 DEF T

(* t is what of the first n elements of s is kept, by way of the positions *)
(* `at`.                                                                   *)
Thinned(t, at, s, where, n) ==
    /\ at \in [1 .. Len(t) -> 1 .. n]
    /\ \A i \in 1 .. Len(t) : at[i] \in where /\ t[i] = s[at[i]]
    /\ \A i, j \in 1 .. Len(t) : i < j => at[i] < at[j]
    /\ \A k \in 1 .. n : k \in where => \E i \in 1 .. Len(t) : at[i] = k

LEMMA KeptFacts ==
    ASSUME NEW S, NEW s \in Seq(S), NEW where
    PROVE  /\ Kept(s, where) \in Seq(S)
           /\ \E at : Thinned(Kept(s, where), at, s, where, Len(s))
<1> DEFINE f0 == CHOOSE f : Thinning(f, s, where, Len(s))
<1>1. Thinning(f0, s, where, Len(s))
  BY ThinningExists
<1>2. Kept(s, where) = f0[Len(s)]
  BY Zenon DEF Kept, Thinning
<1>3. PICK f : f = f0
  OBVIOUS
<1> HIDE DEF f0
<1> DEFINE T == {n \in Nat : n <= Len(s) =>
                     f[n] \in Seq(S) /\ \E at : Thinned(f[n], at, s, where, n)}
<1>4. \A n \in 0 .. Len(s) :
          f[n] = IF n = 0 THEN << >>
                 ELSE IF n \in where THEN Append(f[n - 1], s[n]) ELSE f[n - 1]
  BY <1>1, <1>3 DEF Thinning
<1>5. 0 \in T
  <2>1. 0 \in 0 .. Len(s) /\ << >> \in Seq(S)
    OBVIOUS
  <2>2. f[0] = << >>
    BY <1>4, <2>1
  <2>3. Thinned(<< >>, << >>, s, where, 0)
    BY DEF Thinned
  <2> HIDE DEF Thinned
  <2>4. f[0] \in Seq(S) /\ \E at : Thinned(f[0], at, s, where, 0)
    BY <2>1, <2>2, <2>3
  <2> QED
    BY <2>4
<1>6. \A n \in Nat : n \in T => n + 1 \in T
  <2> SUFFICES ASSUME NEW n \in Nat, n + 1 <= Len(s), f[n] \in Seq(S),
                      NEW at, Thinned(f[n], at, s, where, n)
               PROVE  f[n + 1] \in Seq(S) /\ \E b : Thinned(f[n + 1], b, s, where, n + 1)
    BY SMT
  <2>1. s[n + 1] \in S /\ n + 1 \in 0 .. Len(s) /\ n + 1 # 0 /\ (n + 1) - 1 = n
    OBVIOUS
  <2>2. f[n + 1] = IF n + 1 \in where THEN Append(f[n], s[n + 1]) ELSE f[n]
    BY <1>4, <2>1
  <2>3. CASE n + 1 \notin where
    <3>1. Thinned(f[n], at, s, where, n + 1)
      BY <2>3 DEF Thinned
    <3> QED
      BY <2>2, <2>3, <3>1
  <2>4. CASE n + 1 \in where
    <3> DEFINE t == f[n]
               u == Append(t, s[n + 1])
               b == [i \in 1 .. Len(t) + 1 |-> IF i = Len(t) + 1 THEN n + 1 ELSE at[i]]
    <3>1. f[n + 1] = u
      BY <2>2, <2>4
    <3>2. u \in Seq(S) /\ Len(u) = Len(t) + 1 /\ u[Len(t) + 1] = s[n + 1]
          /\ (\A i \in 1 .. Len(t) : u[i] = t[i]) /\ Len(t) \in Nat
      BY <2>1
    <3>3. b[Len(t) + 1] = n + 1 /\ \A i \in 1 .. Len(t) : b[i] = at[i]
      BY <3>2
    <3>4. b \in [1 .. Len(t) + 1 -> 1 .. n + 1]
      BY <3>2 DEF Thinned
    <3> HIDE DEF t, u, b
    <3>5. Thinned(t, at, s, where, n)
      BY DEF t
    <3>6. Thinned(u, b, s, where, n + 1)
      <4>1. \A i \in 1 .. Len(u) : b[i] \in where /\ u[i] = s[b[i]]
        BY <2>4, <3>2, <3>3, <3>5 DEF Thinned
      <4>2. \A i \in 1 .. Len(t) : at[i] \in 1 .. n
        BY <3>5 DEF Thinned
      <4>3. \A i, j \in 1 .. Len(u) : i < j => b[i] < b[j]
        <5> SUFFICES ASSUME NEW i \in 1 .. Len(u), NEW j \in 1 .. Len(u), i < j
                     PROVE  b[i] < b[j]
          OBVIOUS
        <5> DEFINE l == Len(t)
        <5>a. l \in Nat /\ i \in 1 .. l + 1 /\ j \in 1 .. l + 1
          BY <3>2
        <5> HIDE DEF l
        <5>b. i \in 1 .. l /\ (j \in 1 .. l \/ j = l + 1)
          BY <5>a
        <5>1. i \in 1 .. Len(t) /\ (j \in 1 .. Len(t) \/ j = Len(t) + 1)
          BY <5>b DEF l
        <5>2. CASE j \in 1 .. Len(t)
          BY <3>3, <3>5, <5>1, <5>2 DEF Thinned
        <5>3. CASE j = Len(t) + 1
          <6>1. at[i] \in 1 .. n /\ b[i] = at[i] /\ b[j] = n + 1
            BY <3>3, <4>2, <5>1, <5>3
          <6> QED
            BY <6>1
        <5> QED
          BY <5>1, <5>2, <5>3
      <4>4. \A k \in 1 .. n + 1 : k \in where => \E i \in 1 .. Len(u) : b[i] = k
        <5> SUFFICES ASSUME NEW k \in 1 .. n + 1, k \in where
                     PROVE  \E i \in 1 .. Len(u) : b[i] = k
          OBVIOUS
        <5>1. CASE k = n + 1
          <6>1. Len(t) + 1 \in 1 .. Len(u)
            BY <3>2
          <6> QED
            BY <3>3, <5>1, <6>1
        <5>2. CASE k \in 1 .. n
          <6>1. PICK i \in 1 .. Len(t) : at[i] = k
            BY <3>5, <5>2 DEF Thinned
          <6>2. i \in 1 .. Len(u)
            BY <3>2
          <6> QED
            BY <3>3, <6>1, <6>2
        <5> QED
          BY <5>1, <5>2
      <4> QED
        BY <3>2, <3>4, <4>1, <4>3, <4>4 DEF Thinned
    <3> QED
      BY <3>1, <3>2, <3>6
  <2> QED
    BY <2>3, <2>4
<1> HIDE DEF T
<1>7. Len(s) \in Nat /\ Len(s) \in T
  BY <1>5, <1>6, NatInd
<1> QED
  BY <1>2, <1>3, <1>7 DEF T

-----------------------------------------------------------------------------
(* The registries: lists of entries, of which the first of a key counts.   *)
Tables(K, V) == Seq([key : K, val : V])

LEMMA TableEntry ==
    ASSUME NEW K, NEW V, NEW tb \in Tables(K, V), NEW j \in DOMAIN tb
    PROVE  tb[j] \in [key : K, val : V]
<1> DEFINE R == [key : K, val : V]
<1>1. tb \in Seq(R)
  BY DEF Tables
<1> HIDE DEF R
<1>2. tb[j] \in R
  BY <1>1
<1> QED
  BY <1>2 DEF R

LEMMA TableFirst ==
    ASSUME NEW K, NEW V, NEW tb \in Tables(K, V), NEW k \in Se!Keys(tb)
    PROVE  /\ Se!First(tb, k) \in DOMAIN tb /\ tb[Se!First(tb, k)].key = k
           /\ \A j \in 1 .. Se!First(tb, k) - 1 : tb[j].key # k
           /\ Se!Get(tb, k) = tb[Se!First(tb, k)].val /\ Se!Get(tb, k) \in V
<1> DEFINE T == {i \in DOMAIN tb : tb[i].key = k}
<1>1. T \subseteq Nat /\ T # {}
  BY DEF Tables, Se!Keys
<1>2. PICK i \in T : \A m \in T : i <= m
  BY <1>1, Least
<1>3. \A j \in 1 .. i - 1 : tb[j].key # k
  BY <1>1, <1>2 DEF Tables
<1>4. i \in DOMAIN tb /\ tb[i].key = k
  BY <1>2
<1>5. /\ Se!First(tb, k) \in DOMAIN tb /\ tb[Se!First(tb, k)].key = k
      /\ \A j \in 1 .. Se!First(tb, k) - 1 : tb[j].key # k
  BY <1>3, <1>4, Zenon DEF Se!First
<1>6. Se!Get(tb, k) = tb[Se!First(tb, k)].val
  BY DEF Se!Get
<1> HIDE DEF Se!First
<1>7. \A j \in DOMAIN tb : tb[j].val \in V
  BY TableEntry
<1> QED
  BY <1>5, <1>6, <1>7

(* What the first entry of a key says is what the key has.                 *)
LEMMA TableGet ==
    ASSUME NEW K, NEW V, NEW tb \in Tables(K, V), NEW k, NEW i \in DOMAIN tb,
           tb[i].key = k, \A j \in 1 .. i - 1 : tb[j].key # k
    PROVE  k \in Se!Keys(tb) /\ Se!Get(tb, k) = tb[i].val
<1>1. k \in Se!Keys(tb)
  BY DEF Se!Keys
<1> DEFINE f == Se!First(tb, k)
<1>2. /\ f \in DOMAIN tb /\ tb[f].key = k
      /\ \A j \in 1 .. f - 1 : tb[j].key # k
      /\ Se!Get(tb, k) = tb[f].val
  BY <1>1, TableFirst
<1> HIDE DEF f
<1>3. i \in Nat \ {0} /\ f \in Nat \ {0}
  BY <1>2 DEF Tables
<1>4. ~(f < i) /\ ~(i < f)
  BY <1>2, <1>3
<1>5. f = i
  BY <1>3, <1>4
<1> QED
  BY <1>1, <1>2, <1>5

Has(tb, k, v) == k \in Se!Keys(tb) /\ Se!Get(tb, k) = v

LEMMA PutFacts ==
    ASSUME NEW K, NEW V, NEW tb \in Tables(K, V), NEW k \in K, NEW v \in V
    PROVE  /\ Se!Put(tb, k, v) \in Tables(K, V)
           /\ Se!Keys(Se!Put(tb, k, v)) = Se!Keys(tb) \cup {k}
           /\ Se!Get(Se!Put(tb, k, v), k) = v
           /\ \A j \in Se!Keys(tb) : j # k => Se!Get(Se!Put(tb, k, v), j) = Se!Get(tb, j)
<1> DEFINE e == [key |-> k, val |-> v]
           f == Se!First(tb, k)
           new == Se!Put(tb, k, v)
<1>1. e \in [key : K, val : V] /\ Len(tb) \in Nat
  BY DEF Tables
<1>2. CASE k \in Se!Keys(tb)
  <2>1. f \in DOMAIN tb /\ tb[f].key = k /\ \A j \in 1 .. f - 1 : tb[j].key # k
    BY <1>2, TableFirst
  <2>2. new = [tb EXCEPT ![f].val = v]
    BY <1>2 DEF Se!Put
  <2> HIDE DEF f, new
  <2>3. tb[f] \in [key : K, val : V]
    BY <2>1, TableEntry
  <2>4. [tb[f] EXCEPT !.val = v] = e
    BY <2>1, <2>3
  <2>5. new = [tb EXCEPT ![f] = e]
    BY <2>2, <2>4
  <2>6. new \in Tables(K, V) /\ DOMAIN new = DOMAIN tb /\ new[f] = e
        /\ \A j \in DOMAIN tb : j # f => new[j] = tb[j]
    BY <1>1, <2>1, <2>5 DEF Tables
  <2>7. \A j \in DOMAIN tb : new[j].key = tb[j].key
    BY <2>1, <2>6
  <2>8. Se!Keys(new) = Se!Keys(tb)
    BY <2>6, <2>7 DEF Se!Keys
  <2>9. Se!Get(new, k) = v
    <3>1. f \in Nat /\ \A j \in 1 .. f - 1 : j \in DOMAIN tb
      BY <2>1 DEF Tables
    <3>2. \A j \in 1 .. f - 1 : new[j].key # k
      BY <2>1, <2>7, <3>1
    <3> QED
      BY <2>1, <2>6, <3>2, TableGet
  <2>10. ASSUME NEW j \in Se!Keys(tb), j # k PROVE Se!Get(new, j) = Se!Get(tb, j)
    <3> DEFINE g == Se!First(tb, j)
    <3>1. /\ g \in DOMAIN tb /\ tb[g].key = j /\ \A i \in 1 .. g - 1 : tb[i].key # j
          /\ Se!Get(tb, j) = tb[g].val
      BY TableFirst
    <3> HIDE DEF g
    <3>2. g # f
      BY <2>1, <2>10, <3>1
    <3>3. \A i \in 1 .. g - 1 : i \in DOMAIN tb
      BY <3>1 DEF Tables
    <3>4. \A i \in 1 .. g - 1 : new[i].key # j
      BY <2>7, <3>1, <3>3
    <3>5. new[g] = tb[g] /\ g \in DOMAIN new
      BY <2>6, <3>1, <3>2
    <3>6. Se!Get(new, j) = new[g].val
      BY <2>6, <3>1, <3>4, <3>5, TableGet
    <3> QED
      BY <3>1, <3>5, <3>6
  <2> QED
    BY <1>2, <2>6, <2>8, <2>9, <2>10 DEF new
<1>3. CASE k \notin Se!Keys(tb)
  <2>1. new = Append(tb, e)
    BY <1>3 DEF Se!Put
  <2> HIDE DEF new
  <2>2. new \in Tables(K, V) /\ DOMAIN new = 1 .. Len(tb) + 1 /\ new[Len(tb) + 1] = e
        /\ DOMAIN tb = 1 .. Len(tb) /\ \A j \in 1 .. Len(tb) : new[j] = tb[j]
    BY <1>1, <2>1 DEF Tables
  <2>3. \A j \in 1 .. Len(tb) : tb[j].key # k
    BY <1>3, <2>2 DEF Se!Keys
  <2>4. Se!Keys(new) = Se!Keys(tb) \cup {k}
    <3>1. \A j \in DOMAIN new : j \in DOMAIN tb \/ j = Len(tb) + 1
      BY <1>1, <2>2
    <3>2. \A j \in DOMAIN tb : j \in DOMAIN new
      BY <1>1, <2>2
    <3>3. Len(tb) + 1 \in DOMAIN new
      BY <1>1, <2>2
    <3> QED
      BY <2>2, <3>1, <3>2, <3>3 DEF Se!Keys
  <2>5. Se!Get(new, k) = v
    <3>1. Len(tb) + 1 \in DOMAIN new /\ \A j \in 1 .. Len(tb) + 1 - 1 : new[j].key # k
      BY <1>1, <2>2, <2>3
    <3>2. new[Len(tb) + 1].key = k /\ new[Len(tb) + 1].val = v
      BY <2>2
    <3> QED
      BY <2>2, <3>1, <3>2, TableGet
  <2>6. ASSUME NEW j \in Se!Keys(tb), j # k PROVE Se!Get(new, j) = Se!Get(tb, j)
    <3> DEFINE g == Se!First(tb, j)
    <3>1. /\ g \in DOMAIN tb /\ tb[g].key = j /\ \A i \in 1 .. g - 1 : tb[i].key # j
          /\ Se!Get(tb, j) = tb[g].val
      BY TableFirst
    <3> HIDE DEF g
    <3>2. g \in DOMAIN new /\ new[g] = tb[g] /\ \A i \in 1 .. g - 1 : new[i] = tb[i]
      BY <1>1, <2>2, <3>1
    <3>3. Se!Get(new, j) = new[g].val
      BY <2>2, <3>1, <3>2, TableGet
    <3> QED
      BY <3>1, <3>2, <3>3
  <2> QED
    BY <2>2, <2>4, <2>5, <2>6 DEF new
<1> QED
  BY <1>2, <1>3

LEMMA WithoutFacts ==
    ASSUME NEW K, NEW V, NEW tb \in Tables(K, V), NEW k
    PROVE  /\ Se!Without(tb, k) \in Tables(K, V)
           /\ Se!Keys(Se!Without(tb, k)) = Se!Keys(tb) \ {k}
           /\ \A j \in Se!Keys(tb) : j # k => Se!Get(Se!Without(tb, k), j) = Se!Get(tb, j)
<1> DEFINE W == {i \in DOMAIN tb : tb[i].key # k}
           new == Se!Without(tb, k)
<1>1. new = Kept(tb, W)
  BY DEF Se!Without, Se!Kept, Kept
<1>2. new \in Tables(K, V) /\ \E at : Thinned(new, at, tb, W, Len(tb))
  BY <1>1, KeptFacts DEF Tables
<1>3. PICK at : Thinned(new, at, tb, W, Len(tb))
  BY <1>2
<1> HIDE DEF new
<1>4. DOMAIN tb = 1 .. Len(tb) /\ DOMAIN new = 1 .. Len(new) /\ Len(tb) \in Nat /\ Len(new) \in Nat
  BY <1>2 DEF Tables
<1>5. \A i \in DOMAIN new : at[i] \in DOMAIN tb /\ tb[at[i]].key # k /\ new[i] = tb[at[i]]
  BY <1>3, <1>4 DEF Thinned
<1>6. \A j \in DOMAIN tb : tb[j].key # k => \E i \in DOMAIN new : at[i] = j
  BY <1>3, <1>4 DEF Thinned
<1>7. \A i, j \in DOMAIN new : i < j => at[i] < at[j]
  BY <1>3, <1>4 DEF Thinned
<1> HIDE DEF W
<1>8. Se!Keys(new) = Se!Keys(tb) \ {k}
  BY <1>5, <1>6 DEF Se!Keys
<1>9. ASSUME NEW j \in Se!Keys(tb), j # k PROVE Se!Get(new, j) = Se!Get(tb, j)
  <2> DEFINE g == Se!First(tb, j)
  <2>1. /\ g \in DOMAIN tb /\ tb[g].key = j /\ \A i \in 1 .. g - 1 : tb[i].key # j
        /\ Se!Get(tb, j) = tb[g].val
    BY TableFirst
  <2> HIDE DEF g
  <2>2. PICK h \in DOMAIN new : at[h] = g
    BY <1>6, <1>9, <2>1
  <2>3. \A i \in 1 .. h - 1 : new[i].key # j
    <3> SUFFICES ASSUME NEW i \in 1 .. h - 1 PROVE new[i].key # j
      OBVIOUS
    <3>1. i \in DOMAIN new /\ i < h
      BY <1>4, <2>2
    <3>2. at[i] \in DOMAIN tb /\ at[i] < g /\ g \in Nat
      BY <1>4, <1>5, <1>7, <2>1, <2>2, <3>1
    <3>3. at[i] \in 1 .. g - 1
      BY <1>4, <3>2
    <3> QED
      BY <1>5, <2>1, <3>1, <3>3
  <2>4. new[h] = tb[g]
    BY <1>5, <2>2
  <2>5. Se!Get(new, j) = new[h].val
    BY <1>2, <2>1, <2>3, <2>4, TableGet
  <2> QED
    BY <2>1, <2>4, <2>5
<1> QED
  BY <1>2, <1>8, <1>9 DEF new

(* A list says the same of a process before and after.                     *)
Agree(old, new, q) ==
    /\ q \in Se!Keys(new) <=> q \in Se!Keys(old)
    /\ q \in Se!Keys(old) => Se!Get(new, q) = Se!Get(old, q)

LEMMA PutAgrees ==
    ASSUME NEW K, NEW V, NEW tb \in Tables(K, V), NEW k \in K, NEW v \in V, NEW q, q # k
    PROVE  Agree(tb, Se!Put(tb, k, v), q)
<1> HIDE DEF Se!Put, Se!Keys, Se!Get
<1> QED
  BY PutFacts DEF Agree

LEMMA WithoutAgrees ==
    ASSUME NEW K, NEW V, NEW tb \in Tables(K, V), NEW k, NEW q, q # k
    PROVE  Agree(tb, Se!Without(tb, k), q)
BY WithoutFacts DEF Agree

-----------------------------------------------------------------------------
(* The registries through the lives of the processes.                      *)
Owners  == Pids \cup {0}
CapSets == [permitted : SUBSET Caps, effective : SUBSET Caps,
            inheritable : SUBSET Caps, ambient : SUBSET Caps]
Stages  == {"free", "caps", "forking", "spaces", "profile", "live", "left caps",
            "left spaces", "left profiles"}
Lives   == [at : Stages] \cup [at : Stages, parent : Owners]
Tolds   == [profile : Profiles \cup {"none"}, label : ProcLabels \cup {"none"}]

(* Nothing that was dropped is left, and no more acts than is permitted.   *)
Within(pc, dropped) ==
    /\ pc.permitted \cap dropped = {} /\ pc.inheritable \cap dropped = {}
    /\ pc.ambient \cap dropped = {} /\ pc.effective \subseteq pc.permitted

(* What the lists say of a process at the point `a` of its life.           *)
Standing(a, C, S, P, L, dropped, t, p) ==
    /\ p \in Se!Keys(C) <=> a \in {"caps", "forking", "spaces", "profile", "live"}
    /\ p \in Se!Keys(S) => a \in {"spaces", "profile", "live", "left caps"}
    /\ p \in Se!Keys(P) => a \in {"profile", "live", "left caps", "left spaces"}
    /\ p \in Se!Keys(L) => a \in {"live", "left caps", "left spaces", "left profiles"}
    /\ t.profile # "none" => Has(P, p, t.profile)
    /\ t.label # "none" => Has(L, p, t.label)
    /\ p \in Se!Keys(C) => Within(Se!Get(C, p), dropped)

SecTyped ==
    /\ caps \in Tables(Owners, CapSets)
    /\ spaces \in Tables(Owners, {"init"})
    /\ profiles \in Tables(Owners, Profiles \cup {"Unconfined"})
    /\ labels \in Tables(Owners, ProcLabels \cup {"kernel_t"})
    /\ life \in [Pids -> Lives] /\ gone \in [Pids -> SUBSET Caps] /\ told \in [Pids -> Tolds]

SecInv ==
    /\ SecTyped
    /\ \A p \in Pids :
          Standing(life[p].at, caps, spaces, profiles, labels, gone[p], told[p], p)

(* The lists as they are before and after a step, but for one process.     *)
Others(p) ==
    \A q \in Pids : q # p =>
        /\ life'[q] = life[q] /\ gone'[q] = gone[q] /\ told'[q] = told[q]
        /\ Agree(caps, caps', q) /\ Agree(spaces, spaces', q)
        /\ Agree(profiles, profiles', q) /\ Agree(labels, labels', q)

LEMMA SecFrame ==
    ASSUME SecInv, NEW p \in Pids, SecTyped', Others(p),
           Standing(life'[p].at, caps', spaces', profiles', labels', gone'[p], told'[p], p)
    PROVE  SecInv'
<1> SUFFICES ASSUME NEW q \in Pids, q # p
             PROVE  Standing(life'[q].at, caps', spaces', profiles', labels', gone'[q],
                             told'[q], q)
  BY Zenon DEF SecInv
<1>1. Standing(life[q].at, caps, spaces, profiles, labels, gone[q], told[q], q)
  BY DEF SecInv
<1>2. /\ life'[q] = life[q] /\ gone'[q] = gone[q] /\ told'[q] = told[q]
      /\ Agree(caps, caps', q) /\ Agree(spaces, spaces', q)
      /\ Agree(profiles, profiles', q) /\ Agree(labels, labels', q)
  BY Zenon DEF Others
<1> HIDE DEF Se!Keys, Se!Get, Within
<1> QED
  BY <1>1, <1>2 DEF Standing, Agree, Has

LEMMA AgreeSame == \A tb, q : Agree(tb, tb, q)
BY DEF Agree

LEMMA OthersKept ==
    ASSUME SecInv, NEW p \in Pids,
           \A q \in Pids : q # p => life'[q] = life[q] /\ gone'[q] = gone[q] /\ told'[q] = told[q],
           \A q \in Pids : q # p =>
               /\ caps' = caps \/ Agree(caps, caps', q)
               /\ spaces' = spaces \/ Agree(spaces, spaces', q)
               /\ profiles' = profiles \/ Agree(profiles, profiles', q)
               /\ labels' = labels \/ Agree(labels, labels', q)
    PROVE  Others(p)
BY AgreeSame, Zenon DEF Others

LEMMA LivesHas ==
    ASSUME NEW a \in Stages
    PROVE  [at |-> a] \in Lives /\ \A q \in Owners : [at |-> a, parent |-> q] \in Lives
<1>1. [at |-> a] \in [at : Stages]
  OBVIOUS
<1>2. \A q \in Owners : [at |-> a, parent |-> q] \in [at : Stages, parent : Owners]
  OBVIOUS
<1> QED
  BY <1>1, <1>2, Zenon DEF Lives

LEMMA ListsOfOne ==
    ASSUME NEW v
    PROVE  /\ Se!Keys(<<[key |-> 0, val |-> v]>>) = {0}
           /\ \A K, V : (0 \in K /\ v \in V) => <<[key |-> 0, val |-> v]>> \in Tables(K, V)
<1> DEFINE e == [key |-> 0, val |-> v]
<1>1. DOMAIN <<e>> = {1} /\ <<e>>[1] = e
  OBVIOUS
<1>2. ASSUME NEW K, NEW V, 0 \in K, v \in V PROVE <<e>> \in Tables(K, V)
  <2>1. e \in [key : K, val : V]
    BY <1>2
  <2> QED
    BY <2>1 DEF Tables
<1> QED
  BY <1>1, <1>2 DEF Se!Keys

LEMMA SecInit == Init => SecInv
<1> SUFFICES ASSUME Init PROVE SecInv
  OBVIOUS
<1>1. Se!Init
  BY DEF Init
<1>2. Se!all_powerful \in CapSets
  BY DEF Se!all_powerful, Se!ProcCaps, CapSets
<1>3. 0 \in Owners /\ 0 \notin Pids
  BY SecurityAssumption DEF Owners
<1> HIDE DEF Se!all_powerful
<1>4. /\ caps \in Tables(Owners, CapSets)
      /\ spaces \in Tables(Owners, {"init"})
      /\ profiles \in Tables(Owners, Profiles \cup {"Unconfined"})
      /\ labels \in Tables(Owners, ProcLabels \cup {"kernel_t"})
  <2> HIDE DEF Owners, Tables, CapSets
  <2> QED
    BY <1>1, <1>2, <1>3, ListsOfOne DEF Se!Init
<1>5. Se!Keys(caps) = {0} /\ Se!Keys(spaces) = {0} /\ Se!Keys(profiles) = {0} /\ Se!Keys(labels) = {0}
  <2> HIDE DEF Se!Keys
  <2> QED
    BY <1>1, ListsOfOne DEF Se!Init
<1>6. /\ life \in [Pids -> Lives] /\ gone \in [Pids -> SUBSET Caps] /\ told \in [Pids -> Tolds]
      /\ \A p \in Pids : life[p].at = "free" /\ told[p].profile = "none" /\ told[p].label = "none"
  <2>1. /\ life = [p \in Pids |-> [at |-> "free"]] /\ gone = [p \in Pids |-> {}]
        /\ told = [p \in Pids |-> [profile |-> "none", label |-> "none"]]
    BY <1>1 DEF Se!Init, Se!Free, Se!Nothing
  <2>2. [at |-> "free"] \in Lives /\ [profile |-> "none", label |-> "none"] \in Tolds
    BY LivesHas DEF Tolds, Stages
  <2> HIDE DEF Lives
  <2> QED
    BY <2>1, <2>2
<1> QED
  BY <1>3, <1>4, <1>5, <1>6, Zenon DEF SecInv, SecTyped, Standing

LEMMA LifeGoes ==
    ASSUME SecTyped, NEW p \in Pids, NEW w \in Stages, Se!Goes(p, w)
    PROVE  /\ life' \in [Pids -> Lives] /\ life'[p].at = w
           /\ \A q \in Pids : q # p => life'[q] = life[q]
<1>1. life \in [Pids -> Lives] /\ life' = [life EXCEPT ![p].at = w]
  BY DEF Se!Goes, SecTyped
<1>2. [life[p] EXCEPT !.at = w] \in Lives /\ [life[p] EXCEPT !.at = w].at = w
  <2>1. CASE life[p] \in [at : Stages]
    BY <2>1 DEF Lives
  <2>2. CASE life[p] \in [at : Stages, parent : Owners]
    <3> HIDE DEF Owners
    <3> QED
      BY <2>2 DEF Lives
  <2> QED
    BY <1>1, <2>1, <2>2 DEF Lives
<1> HIDE DEF Lives
<1> QED
  BY <1>1, <1>2

LEMMA PutWithin ==
    ASSUME SecTyped, NEW p \in Pids, NEW pc \in CapSets
    PROVE  /\ Se!Put(caps, p, pc) \in Tables(Owners, CapSets)
           /\ p \in Se!Keys(Se!Put(caps, p, pc)) /\ Se!Get(Se!Put(caps, p, pc), p) = pc
           /\ \A q \in Pids : q # p => Agree(caps, Se!Put(caps, p, pc), q)
<1>1. p \in Owners /\ caps \in Tables(Owners, CapSets)
  BY DEF Owners, SecTyped
<1> HIDE DEF Tables, CapSets, Owners, Se!Keys, Se!Put, Se!Get, Agree
<1> QED
  BY <1>1, PutFacts, PutAgrees

(* What a capability operation leaves is within what it was.               *)
LEMMA ExecWithin ==
    ASSUME NEW pc \in CapSets, NEW file \in SUBSET Caps, NEW dropped, Within(pc, dropped)
    PROVE  Se!exec_child(pc, file) \in CapSets /\ Within(Se!exec_child(pc, file), dropped)
BY DEF Se!exec_child, Se!ProcCaps, CapSets, Within

LEMMA DropWithin ==
    ASSUME NEW pc \in CapSets, NEW c \in Caps, NEW dropped, Within(pc, dropped)
    PROVE  Se!drop(pc, c) \in CapSets /\ Within(Se!drop(pc, c), dropped \cup {c})
BY DEF Se!drop, CapSets, Within

LEMMA ChosenWithin ==
    ASSUME NEW pc \in Chosen \cup {Se!unprivileged, Se!daemon}
    PROVE  pc \in CapSets /\ Within(pc, {})
<1>1. CASE pc \in Chosen
  BY <1>1, SecurityAssumption DEF CapSets, Within
<1>2. CASE pc = Se!unprivileged
  BY <1>2 DEF Se!unprivileged, Se!ProcCaps, CapSets, Within
<1>3. CASE pc = Se!daemon
  BY <1>3 DEF Se!daemon, Se!ProcCaps, CapSets, Within
<1> QED
  BY <1>1, <1>2, <1>3

(* A process that has capabilities has some of the kind, within bounds.    *)
LEMMA CapsOf ==
    ASSUME SecInv, NEW p \in Pids, p \in Se!Keys(caps)
    PROVE  Se!Get(caps, p) \in CapSets /\ Within(Se!Get(caps, p), gone[p])
<1>1. caps \in Tables(Owners, CapSets)
  BY DEF SecInv, SecTyped
<1>2. Standing(life[p].at, caps, spaces, profiles, labels, gone[p], told[p], p)
  BY DEF SecInv
<1> HIDE DEF Tables, CapSets, Se!Keys, Se!Get, Within
<1> QED
  BY <1>1, <1>2, TableFirst DEF Standing

(* Capabilities change, and what was dropped with them.                    *)
LEMMA CapsStep ==
    ASSUME SecInv, NEW p \in Pids, NEW pc \in CapSets, NEW d \in SUBSET Caps, Within(pc, d),
           NEW w \in Lives,
           caps' = Se!Put(caps, p, pc), life' = [life EXCEPT ![p] = w],
           gone' = [gone EXCEPT ![p] = d],
           UNCHANGED <<spaces, profiles, labels, told>>,
           \/ life[p].at = "free" /\ w.at = "caps"
           \/ life[p].at = "live" /\ w.at = "live"
    PROVE  SecInv'
<1>1. SecTyped /\ Standing(life[p].at, caps, spaces, profiles, labels, gone[p], told[p], p)
  BY DEF SecInv
<1>2. life \in [Pids -> Lives] /\ gone \in [Pids -> SUBSET Caps]
  BY <1>1 DEF SecTyped
<1> HIDE DEF Lives, CapSets, Tables, Within, Se!Put, Se!Keys, Se!Get, Agree
<1>3. /\ life' \in [Pids -> Lives] /\ life'[p] = w /\ \A q \in Pids : q # p => life'[q] = life[q]
      /\ gone' \in [Pids -> SUBSET Caps] /\ gone'[p] = d
      /\ \A q \in Pids : q # p => gone'[q] = gone[q]
  BY <1>2
<1>4. /\ caps' \in Tables(Owners, CapSets) /\ p \in Se!Keys(caps') /\ Se!Get(caps', p) = pc
      /\ \A q \in Pids : q # p => Agree(caps, caps', q)
  BY <1>1, PutWithin
<1>5. Others(p)
  BY <1>3, <1>4, OthersKept
<1>6. SecTyped'
  BY <1>1, <1>3, <1>4 DEF SecTyped
<1>7. Standing(w.at, caps', spaces, profiles, labels, d, told[p], p)
  BY <1>1, <1>4 DEF Standing
<1>8. Standing(life'[p].at, caps', spaces', profiles', labels', gone'[p], told'[p], p)
  BY <1>3, <1>7
<1> QED
  BY <1>5, <1>6, <1>8, SecFrame

LEMMA SecStart == ASSUME SecInv, NEW p \in Pids, Se!Start(p) PROVE SecInv'
<1>1. life[p].at = "free" /\ UNCHANGED <<spaces, profiles, labels, told>>
  BY DEF Se!Start, Se!At
<1>2. ASSUME NEW pc \in Chosen \cup {Se!unprivileged, Se!daemon}, caps' = Se!Put(caps, p, pc),
             life' = [life EXCEPT ![p] = [at |-> "caps", parent |-> 0]],
             gone' = [gone EXCEPT ![p] = {}]
      PROVE  SecInv'
  <2>1. pc \in CapSets /\ Within(pc, {})
    BY <1>2, ChosenWithin
  <2>2. [at |-> "caps", parent |-> 0] \in Lives /\ {} \in SUBSET Caps
    BY LivesHas DEF Owners, Stages
  <2> HIDE DEF Within, CapSets, Lives
  <2> QED
    BY <1>1, <1>2, <2>1, <2>2, CapsStep
<1>3. ASSUME NEW q \in Pids \ {p}, NEW file \in {Caps, {}}, life[q].at = "live",
             caps' = Se!Put(caps, p, Se!exec_child(Se!Get(caps, q), file)),
             life' = [life EXCEPT ![p] = [at |-> "caps", parent |-> q]],
             gone' = [gone EXCEPT ![p] = gone[q]]
      PROVE  SecInv'
  <2>1. q \in Se!Keys(caps)
    BY <1>3 DEF SecInv, Standing
  <2>2. Se!Get(caps, q) \in CapSets /\ Within(Se!Get(caps, q), gone[q])
    BY <2>1, CapsOf
  <2>3. file \in SUBSET Caps
    OBVIOUS
  <2> DEFINE pc == Se!exec_child(Se!Get(caps, q), file)
  <2>4. pc \in CapSets /\ Within(pc, gone[q])
    BY <2>2, <2>3, ExecWithin
  <2>5. [at |-> "caps", parent |-> q] \in Lives /\ gone[q] \in SUBSET Caps
    <3>1. q \in Owners
      BY DEF Owners
    <3> QED
      BY <3>1, LivesHas DEF SecInv, SecTyped, Stages
  <2> HIDE DEF Within, CapSets, Lives, pc
  <2> QED
    BY <1>1, <1>3, <2>4, <2>5, CapsStep DEF pc
<1> QED
  BY <1>2, <1>3 DEF Se!Start, Se!At

LEMMA SecDrop == ASSUME SecInv, NEW p \in Pids, NEW c \in Caps, Se!Drop(p, c) PROVE SecInv'
<1>1. /\ life[p].at = "live" /\ caps' = Se!Put(caps, p, Se!drop(Se!Get(caps, p), c))
      /\ gone' = [gone EXCEPT ![p] = gone[p] \cup {c}]
      /\ UNCHANGED <<spaces, profiles, labels, life, told>>
  BY DEF Se!Drop, Se!At
<1>2. p \in Se!Keys(caps)
  BY <1>1 DEF SecInv, Standing
<1>3. Se!Get(caps, p) \in CapSets /\ Within(Se!Get(caps, p), gone[p])
  BY <1>2, CapsOf
<1> DEFINE pc == Se!drop(Se!Get(caps, p), c)
<1>4. pc \in CapSets /\ Within(pc, gone[p] \cup {c})
  BY <1>3, DropWithin
<1>5. life \in [Pids -> Lives] /\ gone[p] \cup {c} \in SUBSET Caps
  BY DEF SecInv, SecTyped
<1>6. caps' = Se!Put(caps, p, pc)
  BY <1>1
<1> HIDE DEF Within, CapSets, Lives, pc
<1>7. life[p] \in Lives /\ life' = [life EXCEPT ![p] = life[p]]
  BY <1>1, <1>5
<1> QED
  BY <1>1, <1>4, <1>5, <1>6, <1>7, CapsStep

LEMMA SecExec ==
    ASSUME SecInv, NEW p \in Pids, NEW file \in SUBSET Caps, Se!Exec(p, file) PROVE SecInv'
<1>1. /\ life[p].at = "live" /\ caps' = Se!Put(caps, p, Se!exec_child(Se!Get(caps, p), file))
      /\ UNCHANGED <<spaces, profiles, labels, life, gone, told>>
  BY DEF Se!Exec, Se!At
<1>2. p \in Se!Keys(caps)
  BY <1>1 DEF SecInv, Standing
<1>3. Se!Get(caps, p) \in CapSets /\ Within(Se!Get(caps, p), gone[p])
  BY <1>2, CapsOf
<1> DEFINE pc == Se!exec_child(Se!Get(caps, p), file)
<1>4. pc \in CapSets /\ Within(pc, gone[p])
  BY <1>3, ExecWithin
<1>5. life \in [Pids -> Lives] /\ gone \in [Pids -> SUBSET Caps]
  BY DEF SecInv, SecTyped
<1>6. caps' = Se!Put(caps, p, pc)
  BY <1>1
<1> HIDE DEF Within, CapSets, Lives, pc
<1>7. /\ life[p] \in Lives /\ life' = [life EXCEPT ![p] = life[p]]
      /\ gone[p] \in SUBSET Caps /\ gone' = [gone EXCEPT ![p] = gone[p]]
  BY <1>1, <1>5
<1>8. PICK w \in Lives, d \in SUBSET Caps : w = life[p] /\ d = gone[p]
  BY <1>7
<1>9. /\ caps' = Se!Put(caps, p, pc) /\ life' = [life EXCEPT ![p] = w]
      /\ gone' = [gone EXCEPT ![p] = d] /\ UNCHANGED <<spaces, profiles, labels, told>>
      /\ life[p].at = "live" /\ w.at = "live" /\ pc \in CapSets /\ Within(pc, d)
  BY <1>1, <1>4, <1>6, <1>7, <1>8
<1> QED
  BY <1>9, CapsStep

(* The other lists.  What the step leaves alone stays as it is for p.      *)
LEMMA SecForkReads == ASSUME SecInv, NEW p \in Pids, Se!ForkReads(p) PROVE SecInv'
<1> DEFINE w == IF life[p].parent \in Se!Keys(spaces) THEN "forking" ELSE "spaces"
<1>1. /\ life[p].at = "caps" /\ Se!Goes(p, w)
      /\ UNCHANGED <<caps, spaces, profiles, labels, gone, told>>
  BY DEF Se!ForkReads, Se!At
<1>2. w \in Stages /\ w \in {"forking", "spaces"}
  BY DEF Stages
<1>3. SecTyped /\ Standing(life[p].at, caps, spaces, profiles, labels, gone[p], told[p], p)
  BY DEF SecInv
<1> HIDE DEF w
<1>4. /\ life' \in [Pids -> Lives] /\ life'[p].at = w
      /\ \A q \in Pids : q # p => life'[q] = life[q]
  BY <1>1, <1>2, <1>3, LifeGoes
<1> HIDE DEF Lives, CapSets, Tables, Within, Se!Put, Se!Keys, Se!Get, Agree
<1>5. Others(p)
  BY <1>1, <1>4, OthersKept
<1>6. SecTyped'
  BY <1>1, <1>3, <1>4 DEF SecTyped
<1>7. Standing(w, caps, spaces, profiles, labels, gone[p], told[p], p)
  BY <1>1, <1>2, <1>3 DEF Standing
<1>8. Standing(life'[p].at, caps', spaces', profiles', labels', gone'[p], told'[p], p)
  BY <1>1, <1>4, <1>7
<1> QED
  BY <1>5, <1>6, <1>8, SecFrame

LEMMA AppendAgrees ==
    ASSUME NEW K, NEW V, NEW tb \in Tables(K, V), NEW k \in K, NEW v \in V, k \notin Se!Keys(tb)
    PROVE  /\ Append(tb, [key |-> k, val |-> v]) \in Tables(K, V)
           /\ \A q : q # k => Agree(tb, Append(tb, [key |-> k, val |-> v]), q)
<1>1. Se!Put(tb, k, v) = Append(tb, [key |-> k, val |-> v])
  BY DEF Se!Put
<1>2. Se!Put(tb, k, v) \in Tables(K, V)
  BY PutFacts
<1>3. ASSUME NEW q, q # k PROVE Agree(tb, Se!Put(tb, k, v), q)
  BY <1>3, PutAgrees
<1> HIDE DEF Se!Put
<1> QED
  BY <1>1, <1>2, <1>3

LEMMA SecForkPushes == ASSUME SecInv, NEW p \in Pids, Se!ForkPushes(p) PROVE SecInv'
<1>1. /\ life[p].at = "forking" /\ Se!Goes(p, "spaces")
      /\ spaces' = Append(spaces, [key |-> p, val |-> "init"])
      /\ UNCHANGED <<caps, profiles, labels, gone, told>>
  BY DEF Se!ForkPushes, Se!At
<1>3. SecTyped /\ Standing(life[p].at, caps, spaces, profiles, labels, gone[p], told[p], p)
  BY DEF SecInv
<1>4. /\ life' \in [Pids -> Lives] /\ life'[p].at = "spaces"
      /\ \A q \in Pids : q # p => life'[q] = life[q]
  BY <1>1, <1>3, LifeGoes DEF Stages
<1>5. p \in Owners /\ spaces \in Tables(Owners, {"init"}) /\ p \notin Se!Keys(spaces)
  BY <1>1, <1>3 DEF Owners, SecTyped, Standing
<1> HIDE DEF Lives, CapSets, Tables, Within, Se!Put, Se!Keys, Se!Get, Agree, Owners
<1>6. spaces' \in Tables(Owners, {"init"}) /\ \A q \in Pids : q # p => Agree(spaces, spaces', q)
  BY <1>1, <1>5, AppendAgrees
<1>7. Others(p)
  BY <1>1, <1>4, <1>6, OthersKept
<1>8. SecTyped'
  BY <1>1, <1>3, <1>4, <1>6 DEF SecTyped
<1>9. Standing("spaces", caps, spaces', profiles, labels, gone[p], told[p], p)
  BY <1>1, <1>3 DEF Standing
<1>10. Standing(life'[p].at, caps', spaces', profiles', labels', gone'[p], told'[p], p)
  BY <1>1, <1>4, <1>9
<1> QED
  BY <1>7, <1>8, <1>10, SecFrame

LEMMA SecSetProfile ==
    ASSUME SecInv, NEW p \in Pids, NEW profile \in Profiles, Se!SetProfile(p, profile)
    PROVE  SecInv'
<1>1. /\ life[p].at \in {"spaces", "live"} /\ profiles' = Se!Put(profiles, p, profile)
      /\ told' = [told EXCEPT ![p].profile = profile]
      /\ life[p].at = "spaces" => Se!Goes(p, "profile")
      /\ life[p].at = "live" => life' = life
      /\ UNCHANGED <<caps, spaces, labels, gone>>
  BY DEF Se!SetProfile, Se!At
<1>2. SecTyped /\ Standing(life[p].at, caps, spaces, profiles, labels, gone[p], told[p], p)
  BY DEF SecInv
<1>3. /\ life' \in [Pids -> Lives] /\ life'[p].at \in {"profile", "live"}
      /\ \A q \in Pids : q # p => life'[q] = life[q]
      /\ life'[p].at = "live" => life[p].at = "live"
  <2>1. CASE life[p].at = "spaces"
    BY <1>1, <1>2, <2>1, LifeGoes DEF Stages
  <2>2. CASE life[p].at = "live"
    BY <1>1, <1>2, <2>2 DEF SecTyped
  <2> QED
    BY <1>1, <2>1, <2>2
<1>4. p \in Owners /\ profiles \in Tables(Owners, Profiles \cup {"Unconfined"})
  BY <1>2 DEF Owners, SecTyped
<1>5. /\ told' \in [Pids -> Tolds] /\ \A q \in Pids : q # p => told'[q] = told[q]
      /\ told'[p].profile = profile /\ told'[p].label = told[p].label
  <2>1. told \in [Pids -> Tolds]
    BY <1>2 DEF SecTyped
  <2> QED
    BY <1>1, <2>1 DEF Tolds
<1> HIDE DEF Lives, Tolds, CapSets, Tables, Within, Se!Put, Se!Keys, Se!Get, Agree, Owners
<1>6. /\ profiles' \in Tables(Owners, Profiles \cup {"Unconfined"})
      /\ Has(profiles', p, profile)
      /\ \A q \in Pids : q # p => Agree(profiles, profiles', q)
  BY <1>1, <1>4, PutFacts, PutAgrees DEF Has
<1>7. Others(p)
  BY <1>1, <1>3, <1>5, <1>6, OthersKept
<1>8. SecTyped'
  BY <1>1, <1>2, <1>3, <1>5, <1>6 DEF SecTyped
<1>9. Standing(life'[p].at, caps, spaces, profiles', labels, gone[p], told'[p], p)
  BY <1>1, <1>2, <1>3, <1>5, <1>6 DEF Standing
<1>10. Standing(life'[p].at, caps', spaces', profiles', labels', gone'[p], told'[p], p)
  BY <1>1, <1>9
<1> QED
  BY <1>7, <1>8, <1>10, SecFrame

LEMMA SecLabelProcess ==
    ASSUME SecInv, NEW p \in Pids, NEW label \in ProcLabels, Se!LabelProcess(p, label)
    PROVE  SecInv'
<1>1. /\ life[p].at \in {"profile", "live"} /\ labels' = Se!Put(labels, p, label)
      /\ told' = [told EXCEPT ![p].label = label] /\ Se!Goes(p, "live")
      /\ UNCHANGED <<caps, spaces, profiles, gone>>
  BY DEF Se!LabelProcess, Se!At
<1>2. SecTyped /\ Standing(life[p].at, caps, spaces, profiles, labels, gone[p], told[p], p)
  BY DEF SecInv
<1>3. /\ life' \in [Pids -> Lives] /\ life'[p].at = "live"
      /\ \A q \in Pids : q # p => life'[q] = life[q]
  BY <1>1, <1>2, LifeGoes DEF Stages
<1>4. p \in Owners /\ labels \in Tables(Owners, ProcLabels \cup {"kernel_t"})
  BY <1>2 DEF Owners, SecTyped
<1>5. /\ told' \in [Pids -> Tolds] /\ \A q \in Pids : q # p => told'[q] = told[q]
      /\ told'[p].label = label /\ told'[p].profile = told[p].profile
  <2>1. told \in [Pids -> Tolds]
    BY <1>2 DEF SecTyped
  <2> QED
    BY <1>1, <2>1 DEF Tolds
<1> HIDE DEF Lives, Tolds, CapSets, Tables, Within, Se!Put, Se!Keys, Se!Get, Agree, Owners
<1>6. /\ labels' \in Tables(Owners, ProcLabels \cup {"kernel_t"})
      /\ Has(labels', p, label)
      /\ \A q \in Pids : q # p => Agree(labels, labels', q)
  BY <1>1, <1>4, PutFacts, PutAgrees DEF Has
<1>7. Others(p)
  BY <1>1, <1>3, <1>5, <1>6, OthersKept
<1>8. SecTyped'
  BY <1>1, <1>2, <1>3, <1>5, <1>6 DEF SecTyped
<1>9. Standing("live", caps, spaces, profiles, labels', gone[p], told'[p], p)
  BY <1>1, <1>2, <1>3, <1>5, <1>6 DEF Standing
<1>10. Standing(life'[p].at, caps', spaces', profiles', labels', gone'[p], told'[p], p)
  BY <1>1, <1>3, <1>9
<1> QED
  BY <1>7, <1>8, <1>10, SecFrame

LEMMA WithoutPid ==
    ASSUME NEW V, NEW tb \in Tables(Owners, V), NEW p \in Pids
    PROVE  /\ Se!Without(tb, p) \in Tables(Owners, V) /\ p \notin Se!Keys(Se!Without(tb, p))
           /\ \A q \in Pids : q # p => Agree(tb, Se!Without(tb, p), q)
<1>1. \A q \in Pids : q # p => Agree(tb, Se!Without(tb, p), q)
  BY WithoutAgrees
<1>2. Se!Without(tb, p) \in Tables(Owners, V)
  BY WithoutFacts
<1>3. Se!Keys(Se!Without(tb, p)) = Se!Keys(tb) \ {p}
  BY WithoutFacts
<1> QED
  BY <1>1, <1>2, <1>3

LEMMA SecLeaveCaps == ASSUME SecInv, NEW p \in Pids, Se!LeaveCaps(p) PROVE SecInv'
<1>1. /\ life[p].at = "live" /\ caps' = Se!Without(caps, p)
      /\ UNCHANGED <<spaces, profiles, labels, gone, told>>
  BY DEF Se!LeaveCaps, Se!At
<1>2. SecTyped /\ Standing(life[p].at, caps, spaces, profiles, labels, gone[p], told[p], p)
  BY DEF SecInv
<1>3. /\ life' \in [Pids -> Lives] /\ life'[p].at = "left caps"
      /\ \A q \in Pids : q # p => life'[q] = life[q]
  BY <1>2, LifeGoes DEF Se!LeaveCaps, Stages
<1>4. caps \in Tables(Owners, CapSets)
  BY <1>2 DEF SecTyped
<1>5. told' \in [Pids -> Tolds] /\ told' = told
  BY <1>1, <1>2 DEF SecTyped
<1>6. /\ caps' \in Tables(Owners, CapSets) /\ p \notin Se!Keys(caps')
      /\ \A q \in Pids : q # p => Agree(caps, caps', q)
  BY <1>1, <1>4, WithoutPid
<1>7. Others(p)
  BY <1>1, <1>3, <1>5, <1>6, OthersKept
<1>8. SecTyped'
  BY <1>1, <1>2, <1>3, <1>5, <1>6 DEF SecTyped
<1>9. Standing("left caps", caps', spaces, profiles, labels, gone[p], told'[p], p)
  BY <1>1, <1>2, <1>5, <1>6 DEF Standing
<1>10. Standing(life'[p].at, caps', spaces', profiles', labels', gone'[p], told'[p], p)
  BY <1>1, <1>3, <1>9
<1> QED
  BY <1>7, <1>8, <1>10, SecFrame

LEMMA SecLeaveSpaces == ASSUME SecInv, NEW p \in Pids, Se!LeaveSpaces(p) PROVE SecInv'
<1>1. /\ life[p].at = "left caps" /\ spaces' = Se!Without(spaces, p)
      /\ UNCHANGED <<caps, profiles, labels, gone, told>>
  BY DEF Se!LeaveSpaces, Se!At
<1>2. SecTyped /\ Standing(life[p].at, caps, spaces, profiles, labels, gone[p], told[p], p)
  BY DEF SecInv
<1>3. /\ life' \in [Pids -> Lives] /\ life'[p].at = "left spaces"
      /\ \A q \in Pids : q # p => life'[q] = life[q]
  BY <1>2, LifeGoes DEF Se!LeaveSpaces, Stages
<1>4. spaces \in Tables(Owners, {"init"})
  BY <1>2 DEF SecTyped
<1>5. told' \in [Pids -> Tolds] /\ told' = told
  BY <1>1, <1>2 DEF SecTyped
<1>6. /\ spaces' \in Tables(Owners, {"init"}) /\ p \notin Se!Keys(spaces')
      /\ \A q \in Pids : q # p => Agree(spaces, spaces', q)
  BY <1>1, <1>4, WithoutPid
<1>7. Others(p)
  BY <1>1, <1>3, <1>5, <1>6, OthersKept
<1>8. SecTyped'
  BY <1>1, <1>2, <1>3, <1>5, <1>6 DEF SecTyped
<1>9. Standing("left spaces", caps, spaces', profiles, labels, gone[p], told'[p], p)
  BY <1>1, <1>2, <1>5, <1>6 DEF Standing
<1>10. Standing(life'[p].at, caps', spaces', profiles', labels', gone'[p], told'[p], p)
  BY <1>1, <1>3, <1>9
<1> QED
  BY <1>7, <1>8, <1>10, SecFrame

LEMMA SecLeaveProfiles == ASSUME SecInv, NEW p \in Pids, Se!LeaveProfiles(p) PROVE SecInv'
<1>1. /\ life[p].at = "left spaces" /\ profiles' = Se!Without(profiles, p)
      /\ UNCHANGED <<caps, spaces, labels, gone>>
  BY DEF Se!LeaveProfiles, Se!At
<1>2. SecTyped /\ Standing(life[p].at, caps, spaces, profiles, labels, gone[p], told[p], p)
  BY DEF SecInv
<1>3. /\ life' \in [Pids -> Lives] /\ life'[p].at = "left profiles"
      /\ \A q \in Pids : q # p => life'[q] = life[q]
  BY <1>2, LifeGoes DEF Se!LeaveProfiles, Stages
<1>4. profiles \in Tables(Owners, Profiles \cup {"Unconfined"})
  BY <1>2 DEF SecTyped
<1>5. /\ told' \in [Pids -> Tolds] /\ \A q \in Pids : q # p => told'[q] = told[q]
      /\ told'[p].profile = "none" /\ told'[p].label = told[p].label
  <2>1. told \in [Pids -> Tolds] /\ told' = [told EXCEPT ![p].profile = "none"]
    BY <1>2 DEF SecTyped, Se!LeaveProfiles, Se!Nothing
  <2> QED
    BY <2>1 DEF Tolds
<1>6. /\ profiles' \in Tables(Owners, Profiles \cup {"Unconfined"}) /\ p \notin Se!Keys(profiles')
      /\ \A q \in Pids : q # p => Agree(profiles, profiles', q)
  BY <1>1, <1>4, WithoutPid
<1>7. Others(p)
  BY <1>1, <1>3, <1>5, <1>6, OthersKept
<1>8. SecTyped'
  BY <1>1, <1>2, <1>3, <1>5, <1>6 DEF SecTyped
<1>9. Standing("left profiles", caps, spaces, profiles', labels, gone[p], told'[p], p)
  BY <1>1, <1>2, <1>5, <1>6 DEF Standing
<1>10. Standing(life'[p].at, caps', spaces', profiles', labels', gone'[p], told'[p], p)
  BY <1>1, <1>3, <1>9
<1> QED
  BY <1>7, <1>8, <1>10, SecFrame

LEMMA SecLeaveLabels == ASSUME SecInv, NEW p \in Pids, Se!LeaveLabels(p) PROVE SecInv'
<1>1. /\ life[p].at = "left profiles" /\ labels' = Se!Without(labels, p)
      /\ UNCHANGED <<caps, spaces, profiles, gone>>
  BY DEF Se!LeaveLabels, Se!At
<1>2. SecTyped /\ Standing(life[p].at, caps, spaces, profiles, labels, gone[p], told[p], p)
  BY DEF SecInv
<1>3. /\ life' \in [Pids -> Lives] /\ life'[p].at = "free"
      /\ \A q \in Pids : q # p => life'[q] = life[q]
  <2>1. life \in [Pids -> Lives] /\ life' = [life EXCEPT ![p] = [at |-> "free"]]
    BY <1>2 DEF Se!LeaveLabels, Se!Free, SecTyped
  <2>2. [at |-> "free"] \in Lives
    BY LivesHas DEF Stages
  <2> HIDE DEF Lives
  <2> QED
    BY <2>1, <2>2
<1>4. labels \in Tables(Owners, ProcLabels \cup {"kernel_t"})
  BY <1>2 DEF SecTyped
<1>5. /\ told' \in [Pids -> Tolds] /\ \A q \in Pids : q # p => told'[q] = told[q]
      /\ told'[p].label = "none" /\ told'[p].profile = told[p].profile
  <2>1. told \in [Pids -> Tolds] /\ told' = [told EXCEPT ![p].label = "none"]
    BY <1>2 DEF SecTyped, Se!LeaveLabels, Se!Nothing
  <2> QED
    BY <2>1 DEF Tolds
<1>6. /\ labels' \in Tables(Owners, ProcLabels \cup {"kernel_t"}) /\ p \notin Se!Keys(labels')
      /\ \A q \in Pids : q # p => Agree(labels, labels', q)
  BY <1>1, <1>4, WithoutPid
<1>7. Others(p)
  BY <1>1, <1>3, <1>5, <1>6, OthersKept
<1>8. SecTyped'
  BY <1>1, <1>2, <1>3, <1>5, <1>6 DEF SecTyped
<1>9. Standing("free", caps, spaces, profiles, labels', gone[p], told'[p], p)
  BY <1>1, <1>2, <1>5, <1>6 DEF Standing
<1>10. Standing(life'[p].at, caps', spaces', profiles', labels', gone'[p], told'[p], p)
  BY <1>1, <1>3, <1>9
<1> QED
  BY <1>7, <1>8, <1>10, SecFrame

LEMMA SecSame ==
    ASSUME SecInv, UNCHANGED <<caps, spaces, profiles, labels, life, gone, told>>
    PROVE  SecInv'
BY DEF SecInv, SecTyped

LEMMA SecStep == SecInv /\ [Next]_vars => SecInv'
<1> SUFFICES ASSUME SecInv, [Next]_vars PROVE SecInv'
  OBVIOUS
<1>1. CASE Se!Next
  <2>1. ASSUME NEW l \in Labelled, Se!LabelResource(l[1], l[2]) PROVE SecInv'
    BY <2>1, SecSame DEF Se!LabelResource
  <2>2. ASSUME NEW p \in Pids, NEW file \in SUBSET Caps, Se!Exec(p, file) PROVE SecInv'
    BY <2>2, SecExec
  <2> QED
    BY <1>1, <2>1, <2>2, SecStart, SecForkReads, SecForkPushes, SecSetProfile, SecLabelProcess,
       SecDrop, SecLeaveCaps, SecLeaveSpaces, SecLeaveProfiles, SecLeaveLabels DEF Se!Next
<1>2. CASE UNCHANGED secVars
  BY <1>2, SecSame DEF secVars
<1> QED
  BY <1>1, <1>2 DEF Next, vars, Give, NshStep, AiStep, CompositorStep, KeyboardStep,
     FaultStep, SecurityStep, OnlyNsh, OnlyAi, OnlyCompositor, OnlyKeyboard, OnlyFault

LEMMA SecConfines == SecInv => Confined
<1> SUFFICES ASSUME SecInv PROVE Confined
  OBVIOUS
<1>1. ASSUME NEW p \in Pids
      PROVE  Standing(life[p].at, caps, spaces, profiles, labels, gone[p], told[p], p)
  BY DEF SecInv
<1>2. Se!DropIsForGood
  <2> SUFFICES ASSUME NEW p \in Pids \cap Se!Keys(caps)
               PROVE  LET pc == Se!Get(caps, p)
                      IN  /\ (pc.permitted \cup pc.inheritable \cup pc.ambient)
                                 \cap gone[p] = {}
                          /\ \A c \in Caps : Se!HasCap(p, c) => c \in pc.permitted \ gone[p]
    BY DEF Se!DropIsForGood
  <2>1. Within(Se!Get(caps, p), gone[p])
    BY CapsOf
  <2> HIDE DEF Se!Get
  <2> QED
    BY <2>1 DEF Within, Se!HasCap
<1>3. Se!StrangersRefused
  <2> SUFFICES ASSUME NEW p \in Pids, life[p].at = "free"
               PROVE  /\ \A c \in Caps : ~Se!HasCap(p, c)
                      /\ p \notin Se!Keys(spaces)
                      /\ Se!check_syscall(p, "read") = "Kill"
                      /\ \A r \in Se!Paths : ~Se!MayAccess(p, r, {"READ"})
    BY DEF Se!StrangersRefused, Se!At
  <2>1. /\ p \notin Se!Keys(caps) /\ p \notin Se!Keys(spaces)
        /\ p \notin Se!Keys(profiles) /\ p \notin Se!Keys(labels)
    BY <1>1 DEF Standing
  <2> QED
    BY <2>1, Zenon DEF Se!HasCap, Se!check_syscall, Se!MayAccess
<1>4. Se!LatestDecides
  <2>1. ASSUME NEW p \in Pids, told[p].profile = "Strict"
        PROVE  Se!check_syscall(p, "read") = "Log" /\ Se!check_syscall(p, "open") = "Kill"
    <3>1. p \in Se!Keys(profiles) /\ Se!Get(profiles, p) = "Strict"
      BY <1>1, <2>1 DEF Standing, Has
    <3>2. Se!allows("Strict") = Se!Strict
      BY DEF Se!allows
    <3>3. "read" \in Se!Strict /\ "open" \notin Se!Strict
      BY DEF Se!Strict
    <3> QED
      BY <3>1, <3>2, <3>3, Zenon DEF Se!check_syscall
  <2>2. ASSUME NEW p \in Pids, told[p].label = "untrusted_t", NEW r
        PROVE  /\ ~Se!MayAccess(p, r, {"WRITE"})
               /\ Se!MayAccess(p, r, {"READ"}) => Se!LabelOf(r) = "user_file_t"
    <3>1. Se!Get(labels, p) = "untrusted_t"
      BY <1>1, <2>2 DEF Standing, Has
    <3>2. \A rule \in Se!Rules : rule[1] = "untrusted_t" =>
              rule[2] = "user_file_t" /\ rule[3] = {"READ", "GETATTR"}
      BY DEF Se!Rules
    <3>3. ~({"WRITE"} \subseteq {"READ", "GETATTR"})
      OBVIOUS
    <3>4. ASSUME Se!MayAccess(p, r, {"WRITE"}) PROVE FALSE
      <4>1. PICK rule \in Se!Rules : /\ rule[1] = Se!Get(labels, p)
                                     /\ {"WRITE"} \subseteq rule[3]
        BY <3>4, Zenon DEF Se!MayAccess
      <4>2. rule[3] = {"READ", "GETATTR"}
        BY <3>1, <3>2, <4>1, Zenon
      <4> QED
        BY <3>3, <4>1, <4>2, Zenon
    <3>5. ASSUME Se!MayAccess(p, r, {"READ"}) PROVE Se!LabelOf(r) = "user_file_t"
      <4>1. PICK rule \in Se!Rules : rule[1] = Se!Get(labels, p) /\ rule[2] = Se!LabelOf(r)
        BY <3>5, Zenon DEF Se!MayAccess
      <4> QED
        BY <3>1, <3>2, <4>1, Zenon
    <3> QED
      BY <3>4, <3>5
  <2> QED
    BY <2>1, <2>2, Zenon DEF Se!LatestDecides
<1> QED
  BY <1>2, <1>3, <1>4 DEF Confined, Se!Confined

(* A dropped capability stays dropped, no new process meets what belonged  *)
(* to the one that had its pid, and the latest profile and label decide    *)
(* (kernel/src/security).                                                  *)
THEOREM NobodyEscapes == Spec => []Confined
<1>1. Spec => []SecInv
  BY SecInit, SecStep, PTL DEF Spec
<1> QED
  BY <1>1, SecConfines, PTL

-----------------------------------------------------------------------------
(* The compositor: the tiles that bsp_rects cuts.  Its recursion is a      *)
(* function over the number of windows; that the function has the value    *)
(* its definition gives it is proved by induction over a set of numbers.   *)

-----------------------------------------------------------------------------
(* Geometry: halves of halves.                                             *)

LEMMA AreaEq ==
    ASSUME NEW x \in Int, NEW y \in Int, NEW w \in Nat, NEW h \in Nat
    PROVE  [x |-> x, y |-> y, w |-> w, h |-> h] \in Co!Areas
BY DEF Co!Areas

LEMMA Halves ==
    ASSUME NEW a \in Co!Areas
    PROVE  /\ Co!Former(a) \in Co!Areas /\ Co!Inside(Co!Former(a), a)
           /\ Co!Latter(a) \in Co!Areas /\ Co!Inside(Co!Latter(a), a)
           /\ Co!Apart(Co!Former(a), Co!Latter(a))
<1>1. /\ a.x \in Int /\ a.y \in Int /\ a.w \in Nat /\ a.h \in Nat
      /\ a = [x |-> a.x, y |-> a.y, w |-> a.w, h |-> a.h]
  BY DEF Co!Areas
<1>2. CASE Co!Wide(a)
  <2> DEFINE m == a.w \div 2
  <2>1. m \in Nat /\ 2 * m <= a.w
    BY <1>1
  <2>2. Co!Mid(a) = m
    BY <1>2 DEF Co!Mid
  <2> HIDE DEF m
  <2>3. Co!Cut(a) \in Nat /\ Co!Cut(a) <= m
    BY <2>1, <2>2 DEF Co!Cut
  <2>4. Co!Former(a) = [x |-> a.x, y |-> a.y, w |-> Co!Cut(a), h |-> a.h]
    BY <1>1, <1>2 DEF Co!Former
  <2>5. Co!Latter(a) = [x |-> a.x + m, y |-> a.y, w |-> a.w - m, h |-> a.h]
    BY <1>1, <1>2, <2>2 DEF Co!Latter
  <2>6. a.x + m \in Int /\ a.w - m \in Nat
    BY <1>1, <2>1
  <2> HIDE DEF Co!Cut
  <2> QED
    BY <1>1, <2>1, <2>3, <2>4, <2>5, <2>6, AreaEq DEF Co!Inside, Co!Apart
<1>3. CASE ~Co!Wide(a)
  <2> DEFINE m == a.h \div 2
  <2>1. m \in Nat /\ 2 * m <= a.h
    BY <1>1
  <2>2. Co!Mid(a) = m
    BY <1>3 DEF Co!Mid
  <2> HIDE DEF m
  <2>3. Co!Cut(a) \in Nat /\ Co!Cut(a) <= m
    BY <2>1, <2>2 DEF Co!Cut
  <2>4. Co!Former(a) = [x |-> a.x, y |-> a.y, w |-> a.w, h |-> Co!Cut(a)]
    BY <1>1, <1>3 DEF Co!Former
  <2>5. Co!Latter(a) = [x |-> a.x, y |-> a.y + m, w |-> a.w, h |-> a.h - m]
    BY <1>1, <1>3, <2>2 DEF Co!Latter
  <2>6. a.y + m \in Int /\ a.h - m \in Nat
    BY <1>1, <2>1
  <2> HIDE DEF Co!Cut
  <2> QED
    BY <1>1, <2>1, <2>3, <2>4, <2>5, <2>6, AreaEq DEF Co!Inside, Co!Apart
<1> QED
  BY <1>2, <1>3

LEMMA Nested ==
    ASSUME NEW a \in Co!Areas, NEW b \in Co!Areas, NEW c \in Co!Areas, NEW d \in Co!Areas
    PROVE  /\ Co!Inside(a, b) /\ Co!Inside(b, c) => Co!Inside(a, c)
           /\ Co!Inside(a, b) /\ Co!Inside(c, d) /\ Co!Apart(b, d) => Co!Apart(a, c)
           /\ Co!Apart(a, b) => Co!Apart(b, a)
           /\ Co!Inside(a, a)
<1>1. \A r \in Co!Areas : r.x \in Int /\ r.y \in Int /\ r.w \in Nat /\ r.h \in Nat
  BY DEF Co!Areas
<1>2. /\ a.x \in Int /\ a.y \in Int /\ a.w \in Nat /\ a.h \in Nat
      /\ b.x \in Int /\ b.y \in Int /\ b.w \in Nat /\ b.h \in Nat
      /\ c.x \in Int /\ c.y \in Int /\ c.w \in Nat /\ c.h \in Nat
      /\ d.x \in Int /\ d.y \in Int /\ d.w \in Nat /\ d.h \in Nat
  BY <1>1
<1> QED
  BY <1>2 DEF Co!Inside, Co!Apart

(* k rectangles of the area a, inside it and apart from each other.        *)
Tiles(s, k, a) ==
    /\ s \in Seq(Co!Areas) /\ Len(s) = k
    /\ \A i \in 1 .. k : Co!Inside(s[i], a)
    /\ \A i, j \in 1 .. k : i # j => Co!Apart(s[i], s[j])

LEMMA TilesJoin ==
    ASSUME NEW a \in Co!Areas, NEW k \in Nat, NEW l \in Nat, NEW s, NEW t,
           Tiles(s, k, Co!Former(a)), Tiles(t, l, Co!Latter(a))
    PROVE  Tiles(s \o t, k + l, a)
<1> DEFINE b == Co!Former(a)
           c == Co!Latter(a)
           u == s \o t
<1>1. /\ b \in Co!Areas /\ Co!Inside(b, a) /\ c \in Co!Areas /\ Co!Inside(c, a) /\ Co!Apart(b, c)
  BY Halves
<1>2. Tiles(s, k, b) /\ Tiles(t, l, c)
  OBVIOUS
<1>3. s \in Seq(Co!Areas) /\ t \in Seq(Co!Areas) /\ Len(s) = k /\ Len(t) = l
  BY <1>2 DEF Tiles
<1> HIDE DEF b, c
<1>4. u \in Seq(Co!Areas) /\ Len(u) = k + l
  BY <1>3
<1>5. /\ \A i \in 1 .. k : u[i] = s[i]
      /\ \A i \in k + 1 .. k + l : u[i] = t[i - k] /\ i - k \in 1 .. l
  BY <1>3
<1>6. \A i \in 1 .. k + l : i \in 1 .. k \/ i \in k + 1 .. k + l
  OBVIOUS
<1>7. /\ \A i \in 1 .. k : s[i] \in Co!Areas /\ Co!Inside(s[i], b)
      /\ \A i \in 1 .. l : t[i] \in Co!Areas /\ Co!Inside(t[i], c)
      /\ \A i, j \in 1 .. k : i # j => Co!Apart(s[i], s[j])
      /\ \A i, j \in 1 .. l : i # j => Co!Apart(t[i], t[j])
  BY <1>2, <1>3 DEF Tiles
<1> HIDE DEF u
<1>8. \A i \in 1 .. k + l : Co!Inside(u[i], a)
  <2> SUFFICES ASSUME NEW i \in 1 .. k + l PROVE Co!Inside(u[i], a)
    OBVIOUS
  <2>1. CASE i \in 1 .. k
    <3>1. u[i] = s[i] /\ s[i] \in Co!Areas /\ Co!Inside(s[i], b)
      BY <1>5, <1>7, <2>1
    <3> QED
      BY <1>1, <3>1, Nested
  <2>2. CASE i \in k + 1 .. k + l
    <3>1. u[i] = t[i - k] /\ t[i - k] \in Co!Areas /\ Co!Inside(t[i - k], c)
      BY <1>5, <1>7, <2>2
    <3> QED
      BY <1>1, <3>1, Nested
  <2> QED
    BY <1>6, <2>1, <2>2
<1>9. \A i, j \in 1 .. k + l : i # j => Co!Apart(u[i], u[j])
  <2>1. ASSUME NEW i \in 1 .. k, NEW j \in k + 1 .. k + l
        PROVE  Co!Apart(u[i], u[j]) /\ Co!Apart(u[j], u[i])
    <3>1. /\ u[i] = s[i] /\ s[i] \in Co!Areas /\ Co!Inside(s[i], b)
          /\ u[j] = t[j - k] /\ t[j - k] \in Co!Areas /\ Co!Inside(t[j - k], c)
      BY <1>5, <1>7
    <3>2. Co!Apart(s[i], t[j - k])
      BY <1>1, <3>1, Nested
    <3>3. Co!Apart(t[j - k], s[i])
      BY <3>1, <3>2, Nested
    <3> QED
      BY <3>1, <3>2, <3>3
  <2>2. ASSUME NEW i \in 1 .. k, NEW j \in 1 .. k, i # j PROVE Co!Apart(u[i], u[j])
    BY <1>5, <1>7, <2>2, Zenon
  <2>3. ASSUME NEW i \in k + 1 .. k + l, NEW j \in k + 1 .. k + l, i # j
        PROVE  Co!Apart(u[i], u[j])
    <3>1. i - k \in 1 .. l /\ j - k \in 1 .. l /\ i - k # j - k
      BY <2>3
    <3>2. Co!Apart(t[i - k], t[j - k])
      BY <1>7, <3>1
    <3> QED
      BY <1>5, <3>2
  <2> QED
    BY <1>6, <2>1, <2>2, <2>3, Zenon
<1> QED
  BY <1>4, <1>8, <1>9 DEF Tiles, u

(* One entry of the table of slices, from smaller ones.                    *)
Slice(f, k, a) ==
    CASE k = 0 -> << >>
      [] k = 1 -> <<a>>
      [] OTHER -> f[k \div 2][Co!Former(a)] \o f[k - k \div 2][Co!Latter(a)]
Slicing(f, m) == f = [k \in 0 .. m |-> [a \in Co!Areas |-> Slice(f, k, a)]]

LEMMA Smaller ==
    ASSUME NEW n \in Nat, NEW k \in 0 .. n + 1, k # 0, k # 1
    PROVE  /\ k \div 2 \in 0 .. n /\ k - k \div 2 \in 0 .. n
           /\ k \div 2 \in 0 .. k - 1 /\ k - k \div 2 \in 0 .. k - 1
           /\ k \div 2 + (k - k \div 2) = k
<1> DEFINE m == k \div 2
<1>1. m \in Nat /\ 2 * m <= k /\ k <= 2 * m + 1 /\ k >= 2
  OBVIOUS
<1> HIDE DEF m
<1>2. /\ m \in 0 .. n /\ k - m \in 0 .. n
      /\ m \in 0 .. k - 1 /\ k - m \in 0 .. k - 1
      /\ m + (k - m) = k
  BY <1>1
<1> QED
  BY <1>2 DEF m

LEMMA SliceAgrees ==
    ASSUME NEW n \in Nat, NEW f, NEW g, \A j \in 0 .. n : f[j] = g[j],
           NEW k \in 0 .. n + 1, NEW a
    PROVE  Slice(f, k, a) = Slice(g, k, a)
<1>1. CASE k = 0 \/ k = 1
  BY <1>1 DEF Slice
<1>2. CASE k # 0 /\ k # 1
  <2> DEFINE b == Co!Former(a)
             c == Co!Latter(a)
             i == k \div 2
             j == k - k \div 2
  <2>1. i \in 0 .. n /\ j \in 0 .. n
    BY <1>2, Smaller
  <2>2. Slice(f, k, a) = f[i][b] \o f[j][c] /\ Slice(g, k, a) = g[i][b] \o g[j][c]
    BY <1>2, Zenon DEF Slice
  <2> HIDE DEF i, j, b, c
  <2>3. f[i] = g[i] /\ f[j] = g[j]
    BY <2>1
  <2> QED
    BY <2>2, <2>3, Zenon
<1> QED
  BY <1>1, <1>2

LEMMA SlicingExists ==
    ASSUME NEW m \in Nat
    PROVE  \E f : Slicing(f, m)
<1> DEFINE T == {n \in Nat : \E f : Slicing(f, n)}
<1>1. 0 \in T
  <2> DEFINE f == [k \in 0 .. 0 |-> [a \in Co!Areas |-> << >>]]
  <2>1. \A k \in 0 .. 0 : \A a : Slice(f, k, a) = << >>
    <3>1. \A k \in 0 .. 0 : k = 0
      OBVIOUS
    <3> QED
      BY <3>1 DEF Slice
  <2>2. f = [k \in 0 .. 0 |-> [a \in Co!Areas |-> Slice(f, k, a)]]
    BY <2>1, Zenon
  <2>3. Slicing(f, 0)
    BY <2>2, Zenon DEF Slicing
  <2> QED
    BY <2>3
<1>2. \A n \in Nat : n \in T => n + 1 \in T
  <2> SUFFICES ASSUME NEW n \in Nat, NEW f, Slicing(f, n)
               PROVE  \E g : Slicing(g, n + 1)
    OBVIOUS
  <2> DEFINE last == [a \in Co!Areas |-> Slice(f, n + 1, a)]
             g == [k \in 0 .. n + 1 |-> IF k = n + 1 THEN last ELSE f[k]]
  <2> HIDE DEF last
  <2>1. (\A k \in 0 .. n : f[k] = g[k]) /\ g[n + 1] = last
    BY SMT
  <2>2. \A k \in 0 .. n + 1 : g[k] = [a \in Co!Areas |-> Slice(f, k, a)]
    <3> SUFFICES ASSUME NEW k \in 0 .. n + 1
                 PROVE  g[k] = [a \in Co!Areas |-> Slice(f, k, a)]
      OBVIOUS
    <3>1. CASE k = n + 1
      BY <2>1, <3>1 DEF last
    <3>2. CASE k \in 0 .. n
      <4>1. f[k] = [a \in Co!Areas |-> Slice(f, k, a)]
        BY <3>2, Zenon DEF Slicing
      <4> HIDE DEF g
      <4> QED
        BY <2>1, <3>2, <4>1, Zenon
    <3> QED
      BY <3>1, <3>2
  <2>3. g = [k \in 0 .. n + 1 |-> g[k]]
    OBVIOUS
  <2> HIDE DEF g
  <2>4. \A k \in 0 .. n + 1 : g[k] = [a \in Co!Areas |-> Slice(g, k, a)]
    <3> SUFFICES ASSUME NEW k \in 0 .. n + 1
                 PROVE  g[k] = [a \in Co!Areas |-> Slice(g, k, a)]
      OBVIOUS
    <3>1. \A a \in Co!Areas : Slice(f, k, a) = Slice(g, k, a)
      BY <2>1, SliceAgrees
    <3> QED
      BY <2>2, <3>1, Zenon
  <2>5. Slicing(g, n + 1)
    BY <2>3, <2>4, Zenon DEF Slicing
  <2> QED
    BY <2>5
<1> HIDE DEF T
<1>3. m \in T
  BY <1>1, <1>2, NatInd
<1> QED
  BY <1>3 DEF T

LEMMA BspTiles ==
    ASSUME NEW n \in Nat, NEW area \in Co!Areas
    PROVE  Tiles(Co!BspRects(area, n), n, area)
<1> DEFINE f0 == CHOOSE f : Slicing(f, n)
<1>1. Slicing(f0, n)
  BY SlicingExists
<1>2. Co!BspRects(area, n) = f0[n][area]
  BY Zenon DEF Co!BspRects, Slicing, Slice
<1>3. PICK f : f = f0
  OBVIOUS
<1> HIDE DEF f0
<1>4. \A k \in 0 .. n : \A a \in Co!Areas : f[k][a] = Slice(f, k, a)
  <2>1. f = [k \in 0 .. n |-> [a \in Co!Areas |-> Slice(f, k, a)]]
    BY <1>1, <1>3, Zenon DEF Slicing
  <2>2. \A k \in 0 .. n : f[k] = [a \in Co!Areas |-> Slice(f, k, a)]
    BY <2>1, Zenon
  <2> QED
    BY <2>2, Zenon
<1> DEFINE T == {m \in Nat : m <= n => \A k \in 0 .. m : \A a \in Co!Areas : Tiles(f[k][a], k, a)}
<1>5. ASSUME NEW m \in Nat, m <= n,
             \A k \in 0 .. m - 1 : \A a \in Co!Areas : Tiles(f[k][a], k, a),
             NEW a \in Co!Areas
      PROVE  Tiles(f[m][a], m, a)
  <2>1. f[m][a] = Slice(f, m, a)
    <3>1. m \in 0 .. n
      BY <1>5
    <3> QED
      BY <1>4, <3>1
  <2>2. CASE m = 0
    <3>1. f[m][a] = << >>
      BY <2>1, <2>2 DEF Slice
    <3>2. Tiles(<< >>, 0, a)
      BY DEF Tiles
    <3> QED
      BY <2>2, <3>1, <3>2, Zenon
  <2>3. CASE m = 1
    <3>0. 1 # 0
      OBVIOUS
    <3>1. f[m][a] = <<a>>
      BY <2>1, <2>3, <3>0, Zenon DEF Slice
    <3>2. Co!Inside(a, a)
      BY Nested
    <3>3. Tiles(<<a>>, 1, a)
      BY <3>2 DEF Tiles
    <3> QED
      BY <2>3, <3>1, <3>3, Zenon
  <2>4. CASE m # 0 /\ m # 1
    <3> DEFINE i == m \div 2
               j == m - m \div 2
               b == Co!Former(a)
               c == Co!Latter(a)
    <3>1. f[m][a] = f[i][b] \o f[j][c]
      BY <2>1, <2>4, Zenon DEF Slice
    <3>2. i \in 0 .. m - 1 /\ j \in 0 .. m - 1 /\ i + j = m
      <4>1. m \in 0 .. m + 1
        OBVIOUS
      <4> QED
        BY <2>4, <4>1, Smaller
    <3>3. b \in Co!Areas /\ c \in Co!Areas
      BY Halves
    <3> HIDE DEF i, j
    <3>4. Tiles(f[i][b], i, b) /\ Tiles(f[j][c], j, c)
      BY <1>5, <3>2, <3>3
    <3>5. Tiles(f[i][b] \o f[j][c], i + j, a)
      BY <3>2, <3>4, TilesJoin
    <3> QED
      BY <3>1, <3>2, <3>5, Zenon
  <2> QED
    BY <2>2, <2>3, <2>4
<1>6. 0 \in T
  <2>1. \A k \in 0 .. 0 : k = 0 /\ k \in Nat
    OBVIOUS
  <2>2. \A a \in Co!Areas : Tiles(f[0][a], 0, a)
    BY <1>5
  <2> QED
    BY <2>1, <2>2
<1>7. \A m \in Nat : m \in T => m + 1 \in T
  <2> SUFFICES ASSUME NEW m \in Nat, m + 1 <= n,
                      \A k \in 0 .. m : \A a \in Co!Areas : Tiles(f[k][a], k, a)
               PROVE  \A k \in 0 .. m + 1 : \A a \in Co!Areas : Tiles(f[k][a], k, a)
    OBVIOUS
  <2>1. (m + 1) - 1 = m /\ m + 1 \in Nat
    OBVIOUS
  <2>2. \A a \in Co!Areas : Tiles(f[m + 1][a], m + 1, a)
    BY <1>5, <2>1
  <2>3. \A k \in 0 .. m + 1 : k \in 0 .. m \/ k = m + 1
    OBVIOUS
  <2> QED
    BY <2>2, <2>3
<1> HIDE DEF T
<1>8. n \in T
  BY <1>6, <1>7, NatInd
<1>9. n \in 0 .. n
  OBVIOUS
<1> QED
  BY <1>2, <1>3, <1>8, <1>9 DEF T

-----------------------------------------------------------------------------
(* The compositor: where retile puts the windows of a desktop, and its     *)
(* inductive invariant.                                                    *)

LEMMA SameCount == \A S : Co!Cardinality(S) = Cardinality(S)
BY Zenon DEF Co!Cardinality, Cardinality

(* The place of i among the numbers of a set.                              *)
LEMMA Places ==
    ASSUME NEW n \in Nat, NEW on, on \subseteq 1 .. n
    PROVE  /\ Cardinality(on) \in Nat
           /\ \A i \in on : Cardinality({j \in on : j <= i}) \in 1 .. Cardinality(on)
           /\ \A i, k \in on : i # k =>
                Cardinality({j \in on : j <= i}) # Cardinality({j \in on : j <= k})
<1> DEFINE upTo(i) == {j \in on : j <= i}
<1>1. IsFiniteSet(1 .. n)
  BY FS_Interval
<1>2. IsFiniteSet(on)
  BY <1>1, FS_Subset
<1>3. \A i : upTo(i) \subseteq on
  OBVIOUS
<1>4. \A i \in on : i \in upTo(i)
  OBVIOUS
<1>a. \A i \in on : i \in Int
  OBVIOUS
<1>5. \A i, k \in on : i < k => upTo(i) \subseteq upTo(k) /\ k \notin upTo(i)
  <2> SUFFICES ASSUME NEW i \in on, NEW k \in on, i < k
               PROVE  upTo(i) \subseteq upTo(k) /\ k \notin upTo(i)
    OBVIOUS
  <2>1. k \notin upTo(i)
    BY <1>a
  <2>2. \A j \in on : j <= i => j <= k
    BY <1>a
  <2>3. upTo(i) \subseteq upTo(k)
    BY <2>2
  <2> QED
    BY <2>1, <2>3
<1> HIDE DEF upTo
<1>6. Cardinality(on) \in Nat
  BY <1>2, FS_CardinalityType
<1>7. \A i \in on : /\ IsFiniteSet(upTo(i)) /\ Cardinality(upTo(i)) \in Nat
                    /\ Cardinality(upTo(i)) <= Cardinality(on)
  BY <1>2, <1>3, FS_Subset, FS_CardinalityType
<1>8. \A i \in on : Cardinality(upTo(i)) # 0
  BY <1>4, <1>7, FS_EmptySet
<1>9. \A i, k \in on : i < k => Cardinality(upTo(i)) # Cardinality(upTo(k))
  <2> SUFFICES ASSUME NEW i \in on, NEW k \in on, i < k
               PROVE  Cardinality(upTo(i)) # Cardinality(upTo(k))
    OBVIOUS
  <2>1. upTo(i) \in SUBSET upTo(k) /\ upTo(i) # upTo(k)
    BY <1>4, <1>5
  <2>2. IsFiniteSet(upTo(k))
    BY <1>7
  <2> QED
    BY <2>1, <2>2, FS_Subset
<1>10. \A i, k \in on : i # k => i < k \/ k < i
  OBVIOUS
<1>11. \A i, k \in on : i # k => Cardinality(upTo(i)) # Cardinality(upTo(k))
  BY <1>9, <1>10
<1>12. \A i \in on : Cardinality(upTo(i)) \in 1 .. Cardinality(on)
  <2> SUFFICES ASSUME NEW i \in on PROVE Cardinality(upTo(i)) \in 1 .. Cardinality(on)
    OBVIOUS
  <2>1. Cardinality(upTo(i)) \in Nat /\ Cardinality(upTo(i)) <= Cardinality(on)
        /\ Cardinality(upTo(i)) # 0
    BY <1>7, <1>8
  <2> QED
    BY <1>6, <2>1
<1> QED
  BY <1>6, <1>11, <1>12 DEF upTo

-----------------------------------------------------------------------------
ZoneNames == {"Left", "Right", "Top", "Bottom", "TopLeft", "TopRight", "BottomLeft",
              "BottomRight", "Center", "ThirdLeft", "ThirdMid", "ThirdRight"}
Wins == [id : Nat, rect : Co!Areas, desk : Nat, focused : BOOLEAN,
         snap : ZoneNames \cup {"none"}, to : SUBSET Co!Areas]

LEMMA WinEq ==
    ASSUME NEW w \in Wins
    PROVE  /\ w.id \in Nat /\ w.rect \in Co!Areas /\ w.desk \in Nat /\ w.focused \in BOOLEAN
           /\ w.snap \in ZoneNames \cup {"none"} /\ w.to \in SUBSET Co!Areas
           /\ w = [id |-> w.id, rect |-> w.rect, desk |-> w.desk, focused |-> w.focused,
                   snap |-> w.snap, to |-> w.to]
<1> DEFINE Z == ZoneNames \cup {"none"}
<1>1. w \in [id : Nat, rect : Co!Areas, desk : Nat, focused : BOOLEAN,
             snap : Z, to : SUBSET Co!Areas]
  BY DEF Wins
<1> HIDE DEF Z
<1> QED
  BY <1>1 DEF Z

LEMMA NewWin ==
    ASSUME NEW i \in Nat, NEW r \in Co!Areas, NEW d \in Nat, NEW f \in BOOLEAN,
           NEW s \in ZoneNames \cup {"none"}, NEW t \in SUBSET Co!Areas
    PROVE  [id |-> i, rect |-> r, desk |-> d, focused |-> f, snap |-> s, to |-> t] \in Wins
<1> DEFINE Z == ZoneNames \cup {"none"}
<1>1. s \in Z
  OBVIOUS
<1> HIDE DEF Z
<1>2. [id |-> i, rect |-> r, desk |-> d, focused |-> f, snap |-> s, to |-> t]
        \in [id : Nat, rect : Co!Areas, desk : Nat, focused : BOOLEAN,
             snap : Z, to : SUBSET Co!Areas]
  BY <1>1
<1> QED
  BY <1>2 DEF Z, Wins

(* Where a window is or, when an animation is under way, will be.          *)
OneOf(t) == CHOOSE r \in t : TRUE
Goal(w) == IF w.to = {} THEN w.rect ELSE OneOf(w.to)

LEMMA GoalSame ==
    ASSUME NEW v, NEW w, v.rect = w.rect, v.to = w.to
    PROVE  Goal(v) = Goal(w)
BY DEF Goal

LEMMA Twice ==
    ASSUME NEW w, NEW r, NEW t, NEW z
    PROVE  /\ [w EXCEPT !.rect = r, !.to = t] = [[w EXCEPT !.rect = r] EXCEPT !.to = t]
           /\ [w EXCEPT !.rect = r, !.snap = z] = [[w EXCEPT !.rect = r] EXCEPT !.snap = z]
OBVIOUS

(* What becomes of a window when one field of it is set.                   *)
LEMMA WinSet ==
    ASSUME NEW w \in Wins
    PROVE  /\ \A t \in SUBSET Co!Areas :
                [w EXCEPT !.to = t] =
                    [id |-> w.id, rect |-> w.rect, desk |-> w.desk, focused |-> w.focused,
                     snap |-> w.snap, to |-> t]
           /\ \A b \in BOOLEAN :
                [w EXCEPT !.focused = b] =
                    [id |-> w.id, rect |-> w.rect, desk |-> w.desk, focused |-> b,
                     snap |-> w.snap, to |-> w.to]
           /\ \A z \in ZoneNames \cup {"none"} :
                [w EXCEPT !.snap = z] =
                    [id |-> w.id, rect |-> w.rect, desk |-> w.desk, focused |-> w.focused,
                     snap |-> z, to |-> w.to]
           /\ \A r \in Co!Areas :
                [w EXCEPT !.rect = r] =
                    [id |-> w.id, rect |-> r, desk |-> w.desk, focused |-> w.focused,
                     snap |-> w.snap, to |-> w.to]
<1> DEFINE Z == ZoneNames \cup {"none"}
           T == SUBSET Co!Areas
           A == Co!Areas
<1>1. w \in [id : Nat, rect : A, desk : Nat, focused : BOOLEAN, snap : Z, to : T]
  BY DEF Wins
<1> HIDE DEF Z, T, A
<1>2. \A t \in T : [w EXCEPT !.to = t] =
        [id |-> w.id, rect |-> w.rect, desk |-> w.desk, focused |-> w.focused,
         snap |-> w.snap, to |-> t]
  BY <1>1
<1>3. \A b \in BOOLEAN : [w EXCEPT !.focused = b] =
        [id |-> w.id, rect |-> w.rect, desk |-> w.desk, focused |-> b,
         snap |-> w.snap, to |-> w.to]
  BY <1>1
<1>4. \A z \in Z : [w EXCEPT !.snap = z] =
        [id |-> w.id, rect |-> w.rect, desk |-> w.desk, focused |-> w.focused,
         snap |-> z, to |-> w.to]
  BY <1>1
<1>5. \A r \in A : [w EXCEPT !.rect = r] =
        [id |-> w.id, rect |-> r, desk |-> w.desk, focused |-> w.focused,
         snap |-> w.snap, to |-> w.to]
  BY <1>1
<1> QED
  BY <1>2, <1>3, <1>4, <1>5, Zenon DEF Z, T, A

(* What each operation does to a window: id and desktop stay.              *)
Like(v, w) == v \in Wins /\ v.id = w.id /\ v.desk = w.desk
With(w, r, f, s, t) ==
    [id |-> w.id, rect |-> r, desk |-> w.desk, focused |-> f, snap |-> s, to |-> t]

LEMMA WinWith ==
    ASSUME NEW w \in Wins, NEW r \in Co!Areas, NEW f \in BOOLEAN,
           NEW s \in ZoneNames \cup {"none"}, NEW t \in SUBSET Co!Areas
    PROVE  /\ Like(With(w, r, f, s, t), w) /\ With(w, r, f, s, t) \in Wins
           /\ With(w, r, f, s, t).focused = f /\ With(w, r, f, s, t).rect = r
           /\ With(w, r, f, s, t).snap = s /\ With(w, r, f, s, t).to = t
<1>1. w.id \in Nat /\ w.desk \in Nat
  BY WinEq
<1>2. With(w, r, f, s, t) \in Wins
  BY <1>1, NewWin DEF With
<1>3. /\ With(w, r, f, s, t).id = w.id /\ With(w, r, f, s, t).desk = w.desk
      /\ With(w, r, f, s, t).focused = f /\ With(w, r, f, s, t).rect = r
      /\ With(w, r, f, s, t).snap = s /\ With(w, r, f, s, t).to = t
  BY DEF With
<1> QED
  BY <1>2, <1>3, Zenon DEF Like

LEMMA WinAnimate ==
    ASSUME NEW w \in Wins, NEW r \in Co!Areas
    PROVE  /\ Like(Co!AnimateTo(w, r), w)
           /\ Co!AnimateTo(w, r).focused = w.focused /\ Goal(Co!AnimateTo(w, r)) = r
<1> DEFINE v == With(w, w.rect, w.focused, w.snap, {r})
<1>1. Co!AnimateTo(w, r) = v
  BY WinSet DEF Co!AnimateTo, With
<1>2. OneOf({r}) = r /\ {r} # {} /\ {r} \in SUBSET Co!Areas
  BY DEF OneOf
<1>3. Like(v, w) /\ v.focused = w.focused /\ v.to = {r}
  BY <1>2, WinEq, WinWith
<1> HIDE DEF v
<1> QED
  BY <1>1, <1>2, <1>3 DEF Goal

LEMMA WinFocus ==
    ASSUME NEW w \in Wins, NEW b \in BOOLEAN
    PROVE  /\ Like([w EXCEPT !.focused = b], w)
           /\ [w EXCEPT !.focused = b].focused = b
           /\ Goal([w EXCEPT !.focused = b]) = Goal(w)
<1> DEFINE v == With(w, w.rect, b, w.snap, w.to)
<1>1. [w EXCEPT !.focused = b] = v
  BY WinSet DEF With
<1>2. Like(v, w) /\ v.focused = b /\ v.rect = w.rect /\ v.to = w.to
  BY WinEq, WinWith
<1> HIDE DEF v
<1> QED
  BY <1>1, <1>2, GoalSame

LEMMA WinSnap ==
    ASSUME NEW w \in Wins, NEW z \in ZoneNames \cup {"none"}
    PROVE  Like([w EXCEPT !.snap = z], w) /\ [w EXCEPT !.snap = z].focused = w.focused
<1> DEFINE v == With(w, w.rect, w.focused, z, w.to)
<1>1. [w EXCEPT !.snap = z] = v
  BY WinSet DEF With
<1>2. Like(v, w) /\ v.focused = w.focused
  BY WinEq, WinWith
<1> HIDE DEF v
<1> QED
  BY <1>1, <1>2

LEMMA WinRect ==
    ASSUME NEW w \in Wins, NEW r \in Co!Areas
    PROVE  /\ Like([w EXCEPT !.rect = r], w) /\ [w EXCEPT !.rect = r].rect = r
           /\ [w EXCEPT !.rect = r].focused = w.focused /\ [w EXCEPT !.rect = r].snap = w.snap
<1> DEFINE v == With(w, r, w.focused, w.snap, w.to)
<1>1. [w EXCEPT !.rect = r] = v
  BY WinSet DEF With
<1>2. Like(v, w) /\ v.focused = w.focused /\ v.rect = r /\ v.snap = w.snap
  BY WinEq, WinWith
<1> HIDE DEF v
<1> QED
  BY <1>1, <1>2

LEMMA WinMoved ==
    ASSUME NEW w \in Wins, NEW r \in Co!Areas, NEW z \in ZoneNames \cup {"none"}
    PROVE  /\ Like([w EXCEPT !.rect = r, !.snap = z], w)
           /\ [w EXCEPT !.rect = r, !.snap = z].focused = w.focused
<1> DEFINE v == [w EXCEPT !.rect = r]
<1>1. [w EXCEPT !.rect = r, !.snap = z] = [v EXCEPT !.snap = z]
  BY Twice
<1>2. Like(v, w) /\ v.focused = w.focused
  BY WinRect
<1> HIDE DEF v
<1>3. Like([v EXCEPT !.snap = z], v) /\ [v EXCEPT !.snap = z].focused = v.focused
  BY <1>2, WinSnap DEF Like
<1> QED
  BY <1>1, <1>2, <1>3 DEF Like

LEMMA WinSettle ==
    ASSUME NEW w \in Wins, w.to # {}
    PROVE  /\ Like(Co!Settle(w), w) /\ Co!Settle(w).focused = w.focused
           /\ Goal(Co!Settle(w)) = Goal(w)
<1> DEFINE r == OneOf(w.to)
           v == [w EXCEPT !.rect = r]
           u == With(v, r, v.focused, v.snap, {})
<1>1. r \in Co!Areas
  BY WinEq DEF OneOf
<1>2. Goal(w) = r
  BY DEF Goal
<1>3. Co!Settle(w) = [w EXCEPT !.rect = r, !.to = {}]
  BY Zenon DEF Co!Settle, OneOf
<1> HIDE DEF r
<1>4. Co!Settle(w) = [v EXCEPT !.to = {}]
  BY <1>3, Twice
<1>5. Like(v, w) /\ v.focused = w.focused /\ v.rect = r
  BY <1>1, WinRect
<1> HIDE DEF v
<1>6. v \in Wins /\ {} \in SUBSET Co!Areas
  BY <1>5 DEF Like
<1>7. [v EXCEPT !.to = {}] = u
  BY <1>5, <1>6, WinSet DEF With
<1>8. Like(u, v) /\ u.focused = v.focused /\ u.rect = r /\ u.to = {}
  BY <1>1, <1>6, WinEq, WinWith
<1> HIDE DEF u
<1>9. Goal(u) = r
  BY <1>8 DEF Goal
<1> QED
  BY <1>2, <1>4, <1>5, <1>7, <1>8, <1>9 DEF Like

LEMMA SnapRectType ==
    ASSUME NEW z \in ZoneNames
    PROVE  Co!SnapRect(z) \in Co!Areas
<1> DEFINE x == Screen.x
           y == Screen.y
           w == Screen.w
           h == Screen.h
           hw == w \div 2
           hh == h \div 2
           tw == w \div 3
           w8 == w \div 8
           h8 == h \div 8
           w4 == (w * 3) \div 4
           h4 == (h * 3) \div 4
<1>1. x \in Int /\ y \in Int /\ w \in Nat /\ h \in Nat
  BY CompositorAssumption DEF Co!Areas
<1> HIDE DEF x, y, w, h
<1>2. hw \in Nat /\ hh \in Nat /\ tw \in Nat /\ w8 \in Nat /\ h8 \in Nat
      /\ w4 \in Nat /\ h4 \in Nat
  BY <1>1
<1> HIDE DEF hw, hh, tw, w8, h8, w4, h4
<1>3. Co!SnapRect(z) \in
        {Co!Rect(x, y, hw, h), Co!Rect(x + hw, y, hw, h), Co!Rect(x, y, w, hh),
         Co!Rect(x, y + hh, w, hh), Co!Rect(x, y, hw, hh), Co!Rect(x + hw, y, hw, hh),
         Co!Rect(x, y + hh, hw, hh), Co!Rect(x + hw, y + hh, hw, hh),
         Co!Rect(x + w8, y + h8, w4, h4), Co!Rect(x, y, tw, h), Co!Rect(x + tw, y, tw, h),
         Co!Rect(x + 2 * tw, y, tw, h)}
  BY SMTT(30) DEF ZoneNames, Co!SnapRect, x, y, w, h, hw, hh, tw, w8, h8, w4, h4
<1>4. \A a, b \in Int : \A c, d \in Nat : Co!Rect(a, b, c, d) \in Co!Areas
  BY AreaEq DEF Co!Rect
<1>5. x + hw \in Int /\ y + hh \in Int /\ x + w8 \in Int /\ y + h8 \in Int /\ x + tw \in Int
      /\ x + 2 * tw \in Int
  BY <1>1, <1>2
<1> QED
  BY <1>1, <1>2, <1>3, <1>4, <1>5

-----------------------------------------------------------------------------
(* The windows that are not strays go to places inside the screen, those   *)
(* of a desktop to places apart from each other.                           *)
Placed(ws, st) ==
    \A i \in DOMAIN ws : ws[i].id \notin st =>
        /\ Co!Inside(Goal(ws[i]), Screen)
        /\ \A j \in DOMAIN ws :
             (i # j /\ ws[j].id \notin st /\ ws[i].desk = ws[j].desk) =>
                 Co!Apart(Goal(ws[i]), Goal(ws[j]))

LEMMA PlacedSame ==
    ASSUME NEW ws, NEW vs, NEW st, NEW tt, Placed(ws, st), DOMAIN vs = DOMAIN ws,
           \A i \in DOMAIN ws : vs[i].id \notin tt =>
               /\ ws[i].id \notin st /\ ws[i].desk = vs[i].desk
               /\ Goal(vs[i]) = Goal(ws[i])
    PROVE  Placed(vs, tt)
BY Zenon DEF Placed

LEMMA RetileFacts ==
    ASSUME NEW ws \in Seq(Wins), NEW st, Placed(ws, st)
    PROVE  /\ Co!Retile(ws) \in Seq(Wins) /\ DOMAIN Co!Retile(ws) = DOMAIN ws
           /\ \A i \in DOMAIN ws : /\ Co!Retile(ws)[i].id = ws[i].id
                                   /\ Co!Retile(ws)[i].focused = ws[i].focused
           /\ Placed(Co!Retile(ws), Co!Tidy(st, ws, TRUE))
<1> DEFINE on == {i \in DOMAIN ws : ws[i].desk = activeDesk}
           k == Cardinality(on)
           nth(i) == Cardinality({j \in on : j <= i})
           slices == Co!BspRects(Screen, k)
           vs == Co!Retile(ws)
           tt == Co!Tidy(st, ws, TRUE)
<1>1. Len(ws) \in Nat /\ DOMAIN ws = 1 .. Len(ws)
  OBVIOUS
<1>2. \A i \in DOMAIN ws : ws[i] \in Wins
  OBVIOUS
<1>3. /\ k \in Nat
      /\ \A i \in on : nth(i) \in 1 .. k
      /\ \A i, j \in on : i # j => nth(i) # nth(j)
  BY <1>1, Places
<1>4. Tiles(slices, k, Screen)
  BY <1>3, BspTiles, CompositorAssumption
<1>5. vs = [i \in DOMAIN ws |-> IF i \in on THEN Co!AnimateTo(ws[i], slices[nth(i)])
                                ELSE ws[i]]
  BY SameCount, Zenon DEF Co!Retile
<1>6. tt = {i \in st : \E j \in DOMAIN ws : ws[j].id = i /\ ws[j].desk # activeDesk}
  BY DEF Co!Tidy
<1>7. \A i \in DOMAIN ws : i \in on \/ ws[i].desk # activeDesk
  OBVIOUS
<1> HIDE DEF nth, k, slices
<1>8. \A i \in on : /\ nth(i) \in DOMAIN slices /\ slices[nth(i)] \in Co!Areas
                    /\ Co!Inside(slices[nth(i)], Screen)
                    /\ \A j \in on : i # j => Co!Apart(slices[nth(i)], slices[nth(j)])
  BY <1>3, <1>4 DEF Tiles
<1>9. on \subseteq DOMAIN ws /\ \A i \in on : ws[i].desk = activeDesk
  OBVIOUS
<1> HIDE DEF on, vs, tt
<1>10. \A w \in Wins : \A r \in Co!Areas :
         /\ Co!AnimateTo(w, r) \in Wins /\ Co!AnimateTo(w, r).id = w.id
         /\ Co!AnimateTo(w, r).focused = w.focused /\ Co!AnimateTo(w, r).desk = w.desk
         /\ Goal(Co!AnimateTo(w, r)) = r
  <2> SUFFICES ASSUME NEW w \in Wins, NEW r \in Co!Areas
               PROVE  /\ Co!AnimateTo(w, r) \in Wins /\ Co!AnimateTo(w, r).id = w.id
                      /\ Co!AnimateTo(w, r).focused = w.focused
                      /\ Co!AnimateTo(w, r).desk = w.desk
                      /\ Goal(Co!AnimateTo(w, r)) = r
    OBVIOUS
  <2>1. /\ Like(Co!AnimateTo(w, r), w)
        /\ Co!AnimateTo(w, r).focused = w.focused /\ Goal(Co!AnimateTo(w, r)) = r
    BY WinAnimate
  <2> QED
    BY <2>1, Zenon DEF Like
<1>11. \A i \in on : /\ vs[i] \in Wins /\ vs[i].id = ws[i].id
                     /\ vs[i].focused = ws[i].focused /\ vs[i].desk = activeDesk
                     /\ Goal(vs[i]) = slices[nth(i)]
  <2> SUFFICES ASSUME NEW i \in on
               PROVE  /\ vs[i] \in Wins /\ vs[i].id = ws[i].id
                      /\ vs[i].focused = ws[i].focused /\ vs[i].desk = activeDesk
                      /\ Goal(vs[i]) = slices[nth(i)]
    OBVIOUS
  <2>1. vs[i] = Co!AnimateTo(ws[i], slices[nth(i)])
    BY <1>5, <1>9
  <2> QED
    BY <1>2, <1>8, <1>9, <1>10, <2>1
<1>12. \A i \in DOMAIN ws : i \notin on => vs[i] = ws[i]
  BY <1>5
<1>13. DOMAIN vs = DOMAIN ws /\ \A i \in DOMAIN ws : vs[i] \in Wins
  BY <1>2, <1>5, <1>11, <1>12
<1>14. vs \in Seq(Wins)
  <2>1. vs \in [1 .. Len(ws) -> Wins]
    BY <1>1, <1>5, <1>13
  <2> QED
    BY <1>1, <2>1, SeqDef
<1>15. \A i \in DOMAIN ws : vs[i].id = ws[i].id /\ vs[i].focused = ws[i].focused
                            /\ vs[i].desk = ws[i].desk
  BY <1>9, <1>11, <1>12
<1>16. \A i \in DOMAIN ws : i \notin on /\ ws[i].id \notin tt => ws[i].id \notin st
  BY <1>6, <1>7 DEF on
<1>17. Placed(vs, tt)
  <2>1. ASSUME NEW i \in DOMAIN ws, vs[i].id \notin tt, i \in on
        PROVE  /\ Co!Inside(Goal(vs[i]), Screen)
               /\ \A j \in DOMAIN ws : (i # j /\ vs[j].id \notin tt /\ vs[i].desk = vs[j].desk) =>
                     Co!Apart(Goal(vs[i]), Goal(vs[j]))
    <3>1. \A j \in DOMAIN ws : vs[i].desk = vs[j].desk => j \in on
      BY <1>7, <1>9, <1>15, <2>1
    <3> QED
      BY <1>8, <1>11, <2>1, <3>1
  <2>2. ASSUME NEW i \in DOMAIN ws, vs[i].id \notin tt, i \notin on
        PROVE  /\ Co!Inside(Goal(vs[i]), Screen)
               /\ \A j \in DOMAIN ws : (i # j /\ vs[j].id \notin tt /\ vs[i].desk = vs[j].desk) =>
                     Co!Apart(Goal(vs[i]), Goal(vs[j]))
    <3>1. \A j \in DOMAIN ws : vs[i].desk = vs[j].desk => j \notin on
      BY <1>7, <1>9, <1>15, <2>2
    <3>2. \A j \in DOMAIN ws : vs[i].desk = vs[j].desk /\ vs[j].id \notin tt =>
            vs[j] = ws[j] /\ ws[j].id \notin st
      BY <1>12, <1>16, <3>1
    <3>3. vs[i] = ws[i] /\ ws[i].id \notin st
      BY <1>12, <1>16, <2>2
    <3> QED
      BY <3>2, <3>3, Zenon DEF Placed
  <2> QED
    BY <1>13, <2>1, <2>2, Zenon DEF Placed
<1> QED
  BY <1>13, <1>14, <1>15, <1>17, Zenon DEF vs, tt

LEMMA ArrangeFacts ==
    ASSUME NEW ws \in Seq(Wins), NEW st, Placed(ws, st), NEW on \in BOOLEAN
    PROVE  /\ Co!Arrange(ws, on) \in Seq(Wins) /\ DOMAIN Co!Arrange(ws, on) = DOMAIN ws
           /\ \A i \in DOMAIN ws : /\ Co!Arrange(ws, on)[i].id = ws[i].id
                                   /\ Co!Arrange(ws, on)[i].focused = ws[i].focused
           /\ Placed(Co!Arrange(ws, on), Co!Tidy(st, ws, on))
<1>1. /\ Co!Arrange(ws, TRUE) \in Seq(Wins) /\ DOMAIN Co!Arrange(ws, TRUE) = DOMAIN ws
      /\ \A i \in DOMAIN ws : /\ Co!Arrange(ws, TRUE)[i].id = ws[i].id
                              /\ Co!Arrange(ws, TRUE)[i].focused = ws[i].focused
      /\ Placed(Co!Arrange(ws, TRUE), Co!Tidy(st, ws, TRUE))
  <2>1. Co!Arrange(ws, TRUE) = Co!Retile(ws)
    BY Zenon DEF Co!Arrange
  <2> QED
    BY <2>1, RetileFacts
<1>2. /\ Co!Arrange(ws, FALSE) \in Seq(Wins) /\ DOMAIN Co!Arrange(ws, FALSE) = DOMAIN ws
      /\ \A i \in DOMAIN ws : /\ Co!Arrange(ws, FALSE)[i].id = ws[i].id
                              /\ Co!Arrange(ws, FALSE)[i].focused = ws[i].focused
      /\ Placed(Co!Arrange(ws, FALSE), Co!Tidy(st, ws, FALSE))
  <2>1. Co!Arrange(ws, FALSE) = ws
    BY Zenon DEF Co!Arrange
  <2>2. Co!Tidy(st, ws, FALSE) = st
    BY Zenon DEF Co!Tidy
  <2> QED
    BY <2>1, <2>2, Zenon
<1>3. on = TRUE \/ on = FALSE
  OBVIOUS
<1> QED
  BY <1>1, <1>2, <1>3, Zenon

LEMMA Mapped ==
    ASSUME NEW ws \in Seq(Wins), NEW vs, vs = [i \in DOMAIN ws |-> vs[i]],
           \A i \in DOMAIN ws : Like(vs[i], ws[i])
    PROVE  vs \in Seq(Wins) /\ DOMAIN vs = DOMAIN ws
<1>1. Len(ws) \in Nat /\ DOMAIN ws = 1 .. Len(ws)
  OBVIOUS
<1>2. \A i \in DOMAIN ws : vs[i] \in Wins
  BY DEF Like
<1>3. vs \in [1 .. Len(ws) -> Wins]
  BY <1>1, <1>2
<1> QED
  BY <1>1, <1>3, SeqDef

LEMMA FocusedFacts ==
    ASSUME NEW ws \in Seq(Wins), NEW id
    PROVE  /\ Co!Focused(ws, id) \in Seq(Wins) /\ DOMAIN Co!Focused(ws, id) = DOMAIN ws
           /\ \A i \in DOMAIN ws :
                /\ Co!Focused(ws, id)[i].id = ws[i].id
                /\ Co!Focused(ws, id)[i].desk = ws[i].desk
                /\ Co!Focused(ws, id)[i].focused <=> ws[i].id = id
                /\ Goal(Co!Focused(ws, id)[i]) = Goal(ws[i])
<1> DEFINE vs == Co!Focused(ws, id)
<1>1. vs = [i \in DOMAIN ws |-> [ws[i] EXCEPT !.focused = ws[i].id = id]]
  BY Zenon DEF Co!Focused
<1>2. \A i \in DOMAIN ws : /\ Like(vs[i], ws[i]) /\ (vs[i].focused <=> ws[i].id = id)
                           /\ Goal(vs[i]) = Goal(ws[i])
  <2> SUFFICES ASSUME NEW i \in DOMAIN ws
               PROVE  /\ Like(vs[i], ws[i]) /\ (vs[i].focused <=> ws[i].id = id)
                      /\ Goal(vs[i]) = Goal(ws[i])
    OBVIOUS
  <2> DEFINE b == ws[i].id = id
  <2>1. ws[i] \in Wins
    OBVIOUS
  <2>2. vs[i] = [ws[i] EXCEPT !.focused = b]
    BY <1>1, Zenon
  <2>3. b \in BOOLEAN
    OBVIOUS
  <2> HIDE DEF b, vs
  <2>4. Like(vs[i], ws[i]) /\ vs[i].focused = b /\ Goal(vs[i]) = Goal(ws[i])
    BY <2>1, <2>2, <2>3, WinFocus
  <2> QED
    BY <2>4, Zenon DEF b
<1>3. vs = [i \in DOMAIN ws |-> vs[i]]
  BY <1>1
<1> HIDE DEF vs
<1>4. vs \in Seq(Wins) /\ DOMAIN vs = DOMAIN ws
  BY <1>2, <1>3, Mapped
<1>5. \A i \in DOMAIN ws : vs[i].id = ws[i].id /\ vs[i].desk = ws[i].desk
  BY <1>2, Zenon DEF Like
<1> QED
  BY <1>2, <1>4, <1>5, Zenon DEF vs

LEMMA DetectSnapType ==
    ASSUME NEW px, NEW py
    PROVE  Co!DetectSnap(px, py) \in ZoneNames \cup {"none"}
<1> DEFINE h == (IF px < Screen.x + 24 THEN {"Left"} ELSE {})
                    \cup (IF px > Screen.x + Screen.w - 24 THEN {"Right"} ELSE {})
           v == (IF py < Screen.y + 24 THEN {"Top"} ELSE {})
                    \cup (IF py > Screen.y + Screen.h - 24 THEN {"Bottom"} ELSE {})
<1>1. h \subseteq {"Left", "Right"} /\ v \subseteq {"Top", "Bottom"}
  BY Zenon
<1>2. Co!DetectSnap(px, py) =
        IF Co!Cardinality(h) > 1 \/ Co!Cardinality(v) > 1 \/ h \cup v = {} THEN "none"
        ELSE IF h = {} THEN CHOOSE e \in v : TRUE
        ELSE IF v = {} THEN CHOOSE e \in h : TRUE
        ELSE CASE h = {"Left"}  /\ v = {"Top"}    -> "TopLeft"
               [] h = {"Right"} /\ v = {"Top"}    -> "TopRight"
               [] h = {"Left"}  /\ v = {"Bottom"} -> "BottomLeft"
               [] OTHER                           -> "BottomRight"
  BY Zenon DEF Co!DetectSnap
<1> HIDE DEF h, v
<1>3. /\ h # {} => (CHOOSE e \in h : TRUE) \in ZoneNames
      /\ v # {} => (CHOOSE e \in v : TRUE) \in ZoneNames
  BY <1>1 DEF ZoneNames
<1>4. {"none", "TopLeft", "TopRight", "BottomLeft", "BottomRight"}
        \subseteq ZoneNames \cup {"none"}
  BY DEF ZoneNames
<1> DEFINE many == Co!Cardinality(h) > 1 \/ Co!Cardinality(v) > 1 \/ h \cup v = {}
           a == CHOOSE e \in h : TRUE
           b == CHOOSE e \in v : TRUE
<1>5. h = {} /\ ~many => v # {}
  OBVIOUS
<1> HIDE DEF many, a, b
<1> QED
  BY <1>2, <1>3, <1>4, <1>5 DEF many, a, b

-----------------------------------------------------------------------------
(* Ids are given out once.                                                 *)
Once(ws, nw) ==
    \A i \in DOMAIN ws : /\ ws[i].id < nw
                         /\ \A j \in DOMAIN ws : i # j => ws[i].id # ws[j].id

DeskInv ==
    /\ windows \in Seq(Wins) /\ nextWid \in Nat /\ activeDesk \in Nat /\ tiling \in BOOLEAN
    /\ Placed(windows, strays) /\ Once(windows, nextWid)
    /\ Co!FocusAgrees

(* What a step leaves behind, stated over the values it leaves.            *)
DeskOk(ws, nw, ad, ti, st, fo) ==
    /\ ws \in Seq(Wins) /\ nw \in Nat /\ ad \in Nat /\ ti \in BOOLEAN
    /\ Placed(ws, st) /\ Once(ws, nw)
    /\ \A i \in DOMAIN ws : ws[i].focused <=> ws[i].id = fo

LEMMA DeskNow == DeskInv <=> DeskOk(windows, nextWid, activeDesk, tiling, strays, focused)
BY Zenon DEF DeskInv, DeskOk, Co!FocusAgrees

LEMMA DeskNext ==
    DeskInv' <=> DeskOk(windows', nextWid', activeDesk', tiling', strays', focused')
BY Zenon DEF DeskInv, DeskOk, Co!FocusAgrees

LEMMA OnceSame ==
    ASSUME NEW ws, NEW vs, NEW n, Once(ws, n), DOMAIN vs = DOMAIN ws,
           \A i \in DOMAIN ws : vs[i].id = ws[i].id
    PROVE  Once(vs, n)
BY DEF Once

LEMMA CreateStep ==
    ASSUME DeskInv, NEW r \in Shapes, Co!CreateWindow(r)
    PROVE  DeskInv'
<1> DEFINE one == Co!Window(nextWid, r, activeDesk)
           ap == Append(windows, one)
           ws == Co!Focused(ap, nextWid)
           st == strays \cup {nextWid}
<1>1. /\ windows \in Seq(Wins) /\ nextWid \in Nat /\ activeDesk \in Nat /\ tiling \in BOOLEAN
      /\ Placed(windows, strays) /\ Once(windows, nextWid)
  BY DEF DeskInv
<1>2. /\ windows' = Co!Arrange(ws, tiling) /\ strays' = Co!Tidy(st, ws, tiling)
      /\ nextWid' = nextWid + 1 /\ focused' = nextWid /\ activeDesk' = activeDesk
      /\ tiling' = tiling
  BY DEF Co!CreateWindow
<1>3. one \in Wins /\ one.id = nextWid
  <2>1. r \in Co!Areas /\ {r} \in SUBSET Co!Areas
    BY CompositorAssumption
  <2> QED
    BY <1>1, <2>1, NewWin DEF Co!Window
<1> HIDE DEF one
<1>4. /\ ap \in Seq(Wins) /\ Len(windows) \in Nat /\ DOMAIN windows = 1 .. Len(windows)
      /\ DOMAIN ap = 1 .. Len(windows) + 1 /\ ap[Len(windows) + 1] = one
      /\ \A i \in DOMAIN windows : ap[i] = windows[i]
  BY <1>1, <1>3
<1> HIDE DEF ap
<1>5. Placed(ap, st)
  <2>1. \A i \in DOMAIN ap : ap[i].id \notin st =>
          i \in DOMAIN windows /\ ap[i] = windows[i] /\ windows[i].id \notin strays
    <3>1. \A i \in DOMAIN ap : i \in DOMAIN windows \/ i = Len(windows) + 1
      BY <1>4
    <3> QED
      BY <1>3, <1>4, <3>1
  <2> HIDE DEF st
  <2> QED
    BY <1>1, <2>1, Zenon DEF Placed
<1>6. /\ ws \in Seq(Wins) /\ DOMAIN ws = DOMAIN ap
      /\ \A i \in DOMAIN ap : /\ ws[i].id = ap[i].id /\ ws[i].desk = ap[i].desk
                              /\ ws[i].focused <=> ap[i].id = nextWid
                              /\ Goal(ws[i]) = Goal(ap[i])
  BY <1>4, FocusedFacts
<1> HIDE DEF ws, st
<1>7. Placed(ws, st)
  BY <1>5, <1>6, PlacedSame
<1> DEFINE vs == Co!Arrange(ws, tiling)
<1>8. /\ vs \in Seq(Wins) /\ DOMAIN vs = DOMAIN ws
      /\ \A i \in DOMAIN ws : vs[i].id = ws[i].id /\ vs[i].focused = ws[i].focused
      /\ Placed(vs, Co!Tidy(st, ws, tiling))
  BY <1>1, <1>6, <1>7, ArrangeFacts
<1> HIDE DEF vs
<1>9. \A i \in DOMAIN vs : vs[i].focused <=> vs[i].id = nextWid
  BY <1>6, <1>8
<1>10. nextWid + 1 \in Nat
  BY <1>1
<1>a. Once(ap, nextWid + 1)
  <2>1. \A i \in DOMAIN ap : /\ i \in DOMAIN windows \/ i = Len(windows) + 1
                            /\ ap[i] \in Wins /\ ap[i].id \in Nat
    BY <1>4, WinEq
  <2>2. \A i \in DOMAIN windows : /\ ap[i].id < nextWid
                                 /\ \A j \in DOMAIN windows : i # j => ap[i].id # ap[j].id
    BY <1>1, <1>4 DEF Once
  <2>3. \A i \in DOMAIN ap : i \notin DOMAIN windows => ap[i].id = nextWid
    BY <1>3, <1>4, <2>1
  <2>4. \A i \in DOMAIN ap : ap[i].id < nextWid + 1
    BY <1>1, <2>1, <2>2, <2>3
  <2>5. ASSUME NEW i \in DOMAIN ap, NEW j \in DOMAIN ap, i # j PROVE ap[i].id # ap[j].id
    <3>1. i \in DOMAIN windows \/ j \in DOMAIN windows
      BY <2>1, <2>5
    <3> QED
      BY <1>1, <2>1, <2>2, <2>3, <2>5, <3>1
  <2> QED
    BY <2>4, <2>5 DEF Once
<1>b. Once(vs, nextWid + 1)
  BY <1>a, <1>6, <1>8, OnceSame
<1>11. DeskOk(vs, nextWid + 1, activeDesk, tiling, Co!Tidy(st, ws, tiling), nextWid)
  BY <1>1, <1>8, <1>9, <1>10, <1>b, Zenon DEF DeskOk
<1> QED
  BY <1>2, <1>11, DeskNext, Zenon DEF vs

LEMMA CloseStep ==
    ASSUME DeskInv, NEW id, Co!CloseWindow(id)
    PROVE  DeskInv'
<1> DEFINE where == {i \in DOMAIN windows : windows[i].id # id}
           ws == Kept(windows, where)
           st == strays \ {id}
<1>1. /\ windows \in Seq(Wins) /\ nextWid \in Nat /\ activeDesk \in Nat /\ tiling \in BOOLEAN
      /\ Placed(windows, strays) /\ Once(windows, nextWid)
      /\ \A i \in DOMAIN windows : windows[i].focused <=> windows[i].id = focused
  BY DEF DeskInv, Co!FocusAgrees
<1>2. /\ windows' = Co!Arrange(ws, tiling) /\ strays' = Co!Tidy(st, ws, tiling)
      /\ nextWid' = nextWid /\ focused' = focused /\ activeDesk' = activeDesk
      /\ tiling' = tiling
  BY Zenon DEF Co!CloseWindow, Co!Kept, Kept
<1>3. \A i \in where : windows[i].id # id
  OBVIOUS
<1> HIDE DEF where
<1>4. ws \in Seq(Wins) /\ \E at : Thinned(ws, at, windows, where, Len(windows))
  BY <1>1, KeptFacts
<1>5. PICK at : Thinned(ws, at, windows, where, Len(windows))
  BY <1>4
<1>6. /\ DOMAIN windows = 1 .. Len(windows) /\ DOMAIN ws = 1 .. Len(ws)
      /\ Len(ws) \in Nat /\ Len(windows) \in Nat
  BY <1>1, <1>4
<1> HIDE DEF ws
<1>7. /\ \A i \in DOMAIN ws : /\ at[i] \in DOMAIN windows /\ at[i] \in Nat
                              /\ at[i] \in where /\ ws[i] = windows[at[i]]
      /\ \A i, j \in DOMAIN ws : i < j => at[i] < at[j]
  BY <1>5, <1>6 DEF Thinned
<1>8. \A i, j \in DOMAIN ws : i # j => at[i] # at[j]
  <2> SUFFICES ASSUME NEW i \in DOMAIN ws, NEW j \in DOMAIN ws, i # j
               PROVE  at[i] # at[j]
    OBVIOUS
  <2>1. i < j \/ j < i
    BY <1>6
  <2> QED
    BY <1>7, <2>1
<1>9. Placed(ws, st)
  <2>1. \A i \in DOMAIN ws : ws[i].id \notin st => windows[at[i]].id \notin strays
    BY <1>3, <1>7
  <2> HIDE DEF st
  <2>2. \A i \in DOMAIN ws : at[i] \in DOMAIN windows /\ ws[i] = windows[at[i]]
    BY <1>7
  <2> QED
    <3>1. ASSUME NEW i \in DOMAIN ws, ws[i].id \notin st,
                 NEW j \in DOMAIN ws, i # j, ws[j].id \notin st, ws[i].desk = ws[j].desk
          PROVE  Co!Apart(Goal(ws[i]), Goal(ws[j]))
      <4>1. at[i] \in DOMAIN windows /\ at[j] \in DOMAIN windows /\ at[i] # at[j]
        BY <1>8, <2>2, <3>1
      <4>2. ws[i] = windows[at[i]] /\ ws[j] = windows[at[j]]
        BY <2>2
      <4> QED
        BY <1>1, <2>1, <3>1, <4>1, <4>2, Zenon DEF Placed
    <3>2. ASSUME NEW i \in DOMAIN ws, ws[i].id \notin st
          PROVE  Co!Inside(Goal(ws[i]), Screen)
      BY <1>1, <2>1, <2>2, <3>2, Zenon DEF Placed
    <3> QED
      BY <3>1, <3>2, Zenon DEF Placed
<1> HIDE DEF st
<1> DEFINE vs == Co!Arrange(ws, tiling)
<1>10. /\ vs \in Seq(Wins) /\ DOMAIN vs = DOMAIN ws
       /\ \A i \in DOMAIN ws : vs[i].id = ws[i].id /\ vs[i].focused = ws[i].focused
       /\ Placed(vs, Co!Tidy(st, ws, tiling))
  BY <1>1, <1>4, <1>9, ArrangeFacts DEF ws
<1> HIDE DEF vs
<1>11. \A i \in DOMAIN vs : vs[i].focused <=> vs[i].id = focused
  <2>1. \A i \in DOMAIN ws : ws[i].focused <=> ws[i].id = focused
    BY <1>1, <1>7, Zenon
  <2> QED
    BY <1>10, <2>1, Zenon
<1>a. Once(ws, nextWid)
  BY <1>1, <1>7, <1>8 DEF Once
<1>b. Once(vs, nextWid)
  BY <1>a, <1>10, OnceSame
<1>12. DeskOk(vs, nextWid, activeDesk, tiling, Co!Tidy(st, ws, tiling), focused)
  BY <1>1, <1>10, <1>11, <1>b, Zenon DEF DeskOk
<1> QED
  BY <1>2, <1>12, DeskNext, Zenon DEF vs

LEMMA FocusStep ==
    ASSUME DeskInv, NEW id, Co!Focus(id)
    PROVE  DeskInv'
<1> DEFINE ws == Co!Focused(windows, id)
<1>1. /\ windows \in Seq(Wins) /\ nextWid \in Nat /\ activeDesk \in Nat /\ tiling \in BOOLEAN
      /\ Placed(windows, strays) /\ Once(windows, nextWid)
  BY DEF DeskInv
<1>2. /\ windows' = ws /\ strays' = strays /\ nextWid' = nextWid /\ focused' = id
      /\ activeDesk' = activeDesk /\ tiling' = tiling
  BY DEF Co!Focus
<1>3. /\ ws \in Seq(Wins) /\ DOMAIN ws = DOMAIN windows
      /\ \A i \in DOMAIN windows : /\ ws[i].id = windows[i].id /\ ws[i].desk = windows[i].desk
                                   /\ ws[i].focused <=> windows[i].id = id
                                   /\ Goal(ws[i]) = Goal(windows[i])
  BY <1>1, FocusedFacts
<1> HIDE DEF ws
<1>4. Placed(ws, strays)
  BY <1>1, <1>3, PlacedSame
<1>a. Once(ws, nextWid)
  BY <1>1, <1>3, OnceSame
<1>5. DeskOk(ws, nextWid, activeDesk, tiling, strays, id)
  <2>1. \A i \in DOMAIN ws : ws[i].focused <=> ws[i].id = id
    BY <1>3, Zenon
  <2> QED
    BY <1>1, <1>3, <1>4, <1>a, <2>1, Zenon DEF DeskOk
<1> QED
  BY <1>2, <1>5, DeskNext, Zenon

(* A step that changes the windows of one id, which are strays from then.  *)
LEMMA ChangeStep ==
    ASSUME DeskInv, NEW id, NEW ws \in Seq(Wins), DOMAIN ws = DOMAIN windows,
           \A i \in DOMAIN windows :
               /\ Like(ws[i], windows[i]) /\ ws[i].focused = windows[i].focused
               /\ windows[i].id # id => ws[i] = windows[i],
           windows' = ws, strays' = strays \cup {id},
           UNCHANGED <<nextWid, activeDesk, focused, tiling>>
    PROVE  DeskInv'
<1>1. /\ windows \in Seq(Wins) /\ nextWid \in Nat /\ activeDesk \in Nat /\ tiling \in BOOLEAN
      /\ Placed(windows, strays) /\ Once(windows, nextWid)
      /\ \A i \in DOMAIN windows : windows[i].focused <=> windows[i].id = focused
  BY DEF DeskInv, Co!FocusAgrees
<1>2. /\ nextWid' = nextWid /\ focused' = focused /\ activeDesk' = activeDesk
      /\ tiling' = tiling
  OBVIOUS
<1>3. ws \in Seq(Wins) /\ DOMAIN ws = DOMAIN windows
  OBVIOUS
<1>4. \A i \in DOMAIN windows : ws[i].id = windows[i].id /\ ws[i].desk = windows[i].desk
  BY Zenon DEF Like
<1> DEFINE st == strays \cup {id}
<1>5. \A i \in DOMAIN windows : ws[i].id \notin st =>
        windows[i].id \notin strays /\ ws[i] = windows[i]
  BY <1>4
<1> HIDE DEF st
<1>6. Placed(ws, st)
  BY <1>1, <1>3, <1>5, Zenon DEF Placed
<1>7. \A i \in DOMAIN ws : ws[i].focused <=> ws[i].id = focused
  BY <1>1, <1>3, <1>4
<1>a. Once(ws, nextWid)
  BY <1>1, <1>3, <1>4, OnceSame
<1>8. DeskOk(ws, nextWid, activeDesk, tiling, st, focused)
  BY <1>1, <1>3, <1>6, <1>7, <1>a, Zenon DEF DeskOk
<1> QED
  BY <1>2, <1>8, DeskNext, Zenon DEF st

LEMMA MoveStep ==
    ASSUME DeskInv, NEW id, NEW spot \in Spots, Co!MoveWindow(id, spot)
    PROVE  DeskInv'
<1> DEFINE moved(w) == [w EXCEPT !.rect = [w.rect EXCEPT !.x = spot.x, !.y = spot.y],
                                 !.snap = Co!DetectSnap(spot.x, spot.y)]
           ws == [i \in DOMAIN windows |->
                    IF windows[i].id = id THEN moved(windows[i]) ELSE windows[i]]
<1>1. windows \in Seq(Wins)
  BY DEF DeskInv
<1>2. windows' = ws /\ strays' = strays \cup {id}
      /\ UNCHANGED <<nextWid, activeDesk, focused, tiling>>
  BY DEF Co!MoveWindow, Co!Change
<1>3. spot.x \in Int /\ spot.y \in Int
  BY CompositorAssumption
<1>4. \A w \in Wins : Like(moved(w), w) /\ moved(w).focused = w.focused
  <2> SUFFICES ASSUME NEW w \in Wins
               PROVE  Like(moved(w), w) /\ moved(w).focused = w.focused
    OBVIOUS
  <2> DEFINE r == [w.rect EXCEPT !.x = spot.x, !.y = spot.y]
             z == Co!DetectSnap(spot.x, spot.y)
  <2>1. w.rect \in Co!Areas
    BY WinEq
  <2>2. r \in Co!Areas
    BY <1>3, <2>1 DEF Co!Areas
  <2>3. z \in ZoneNames \cup {"none"}
    BY DetectSnapType
  <2>4. moved(w) = [w EXCEPT !.rect = r, !.snap = z]
    OBVIOUS
  <2> HIDE DEF r, z, moved
  <2> QED
    <3>1. /\ Like([w EXCEPT !.rect = r, !.snap = z], w)
          /\ [w EXCEPT !.rect = r, !.snap = z].focused = w.focused
      BY <2>2, <2>3, WinMoved
    <3> QED
      BY <2>4, <3>1, Zenon
<1>5. \A w \in Wins : Like(w, w)
  BY DEF Like
<1> HIDE DEF moved
<1>6. \A i \in DOMAIN windows : windows[i] \in Wins
  BY <1>1
<1>7. \A i \in DOMAIN windows :
          /\ Like(ws[i], windows[i]) /\ ws[i].focused = windows[i].focused
          /\ windows[i].id # id => ws[i] = windows[i]
  BY <1>4, <1>5, <1>6
<1>8. ws = [i \in DOMAIN windows |-> ws[i]]
  OBVIOUS
<1> HIDE DEF ws
<1> QED
  <2>1. ws \in Seq(Wins) /\ DOMAIN ws = DOMAIN windows
    BY <1>1, <1>7, <1>8, Mapped
  <2> QED
    BY <1>2, <1>7, <2>1, ChangeStep, Zenon

LEMMA SnapStep ==
    ASSUME DeskInv, NEW id, NEW zone \in Zones, Co!Snap(id, zone)
    PROVE  DeskInv'
<1> DEFINE r == Co!SnapRect(zone)
           snapped(w) == [Co!AnimateTo(w, r) EXCEPT !.snap = zone]
           ws == [i \in DOMAIN windows |->
                    IF windows[i].id = id THEN snapped(windows[i]) ELSE windows[i]]
<1>1. windows \in Seq(Wins)
  BY DEF DeskInv
<1>2. windows' = ws /\ strays' = strays \cup {id}
      /\ UNCHANGED <<nextWid, activeDesk, focused, tiling>>
  BY DEF Co!Snap, Co!Change
<1>3. zone \in ZoneNames
  BY CompositorAssumption DEF ZoneNames
<1>4. r \in Co!Areas
  BY <1>3, SnapRectType
<1> HIDE DEF r
<1>5. \A w \in Wins : Like(snapped(w), w) /\ snapped(w).focused = w.focused
  <2> SUFFICES ASSUME NEW w \in Wins
               PROVE  Like(snapped(w), w) /\ snapped(w).focused = w.focused
    OBVIOUS
  <2> DEFINE v == Co!AnimateTo(w, r)
  <2>1. Like(v, w) /\ v.focused = w.focused
    BY <1>4, WinAnimate
  <2> HIDE DEF v
  <2>2. Like([v EXCEPT !.snap = zone], v) /\ [v EXCEPT !.snap = zone].focused = v.focused
    BY <1>3, <2>1, WinSnap DEF Like
  <2>3. snapped(w) = [v EXCEPT !.snap = zone]
    BY DEF v
  <2> QED
    BY <2>1, <2>2, <2>3 DEF Like
<1>6. \A w \in Wins : Like(w, w)
  BY DEF Like
<1> HIDE DEF snapped
<1>7. \A i \in DOMAIN windows : windows[i] \in Wins
  BY <1>1
<1>8. \A i \in DOMAIN windows :
          /\ Like(ws[i], windows[i]) /\ ws[i].focused = windows[i].focused
          /\ windows[i].id # id => ws[i] = windows[i]
  BY <1>5, <1>6, <1>7
<1>9. ws = [i \in DOMAIN windows |-> ws[i]]
  OBVIOUS
<1> HIDE DEF ws
<1> QED
  <2>1. ws \in Seq(Wins) /\ DOMAIN ws = DOMAIN windows
    BY <1>1, <1>8, <1>9, Mapped
  <2> QED
    BY <1>2, <1>8, <2>1, ChangeStep, Zenon

(* A window is released only when it has a zone to snap to.                *)
LEMMA ReleaseStep ==
    ASSUME DeskInv, NEW id, Co!ReleaseWindow(id)
    PROVE  DeskInv'
<1> DEFINE moved(w) == Co!AnimateTo(w, Co!SnapRect(w.snap))
           ws == [i \in DOMAIN windows |->
                    IF windows[i].id = id THEN moved(windows[i]) ELSE windows[i]]
<1>1. windows \in Seq(Wins) /\ Once(windows, nextWid)
  BY DEF DeskInv
<1>2. windows' = ws /\ strays' = strays \cup {id}
      /\ UNCHANGED <<nextWid, activeDesk, focused, tiling>>
  BY DEF Co!ReleaseWindow, Co!Change
<1>3. PICK k \in DOMAIN windows : windows[k].id = id /\ windows[k].snap # "none"
  BY DEF Co!ReleaseWindow
<1>4. \A i \in DOMAIN windows : windows[i].id = id => i = k
  BY <1>1, <1>3, Zenon DEF Once
<1>5. \A i \in DOMAIN windows : windows[i] \in Wins
  BY <1>1
<1>6. Like(moved(windows[k]), windows[k]) /\ moved(windows[k]).focused = windows[k].focused
  <2> DEFINE z == windows[k].snap
  <2>1. z \in ZoneNames \cup {"none"}
    BY <1>3, <1>5, WinEq
  <2>2. z \in ZoneNames
    BY <1>3, <2>1
  <2>3. Co!SnapRect(z) \in Co!Areas
    BY <2>2, SnapRectType
  <2> QED
    BY <1>3, <1>5, <2>3, WinAnimate
<1>7. \A w \in Wins : Like(w, w)
  BY DEF Like
<1> HIDE DEF moved
<1>8. \A i \in DOMAIN windows :
          /\ Like(ws[i], windows[i]) /\ ws[i].focused = windows[i].focused
          /\ windows[i].id # id => ws[i] = windows[i]
  <2> SUFFICES ASSUME NEW i \in DOMAIN windows
               PROVE  /\ Like(ws[i], windows[i]) /\ ws[i].focused = windows[i].focused
                      /\ windows[i].id # id => ws[i] = windows[i]
    OBVIOUS
  <2>1. CASE windows[i].id = id
    <3>1. i = k
      BY <1>4, <2>1
    <3>2. ws[i] = moved(windows[k])
      BY <2>1, <3>1
    <3> HIDE DEF ws
    <3> QED
      BY <1>6, <2>1, <3>1, <3>2
  <2>2. CASE windows[i].id # id
    <3>1. ws[i] = windows[i]
      BY <2>2
    <3> HIDE DEF ws
    <3> QED
      BY <1>5, <1>7, <2>2, <3>1
  <2> QED
    BY <2>1, <2>2
<1>9. ws = [i \in DOMAIN windows |-> ws[i]]
  OBVIOUS
<1> HIDE DEF ws
<1> QED
  <2>1. ws \in Seq(Wins) /\ DOMAIN ws = DOMAIN windows
    BY <1>1, <1>8, <1>9, Mapped
  <2> QED
    BY <1>2, <1>8, <2>1, ChangeStep, Zenon

LEMMA TilingStep ==
    ASSUME DeskInv, Co!ToggleTiling
    PROVE  DeskInv'
<1>1. /\ windows \in Seq(Wins) /\ nextWid \in Nat /\ activeDesk \in Nat /\ tiling \in BOOLEAN
      /\ Placed(windows, strays) /\ Once(windows, nextWid)
      /\ \A i \in DOMAIN windows : windows[i].focused <=> windows[i].id = focused
  BY DEF DeskInv, Co!FocusAgrees
<1>2. PICK on \in BOOLEAN : on = tiling'
  BY <1>1 DEF Co!ToggleTiling
<1> DEFINE vs == Co!Arrange(windows, on)
           st == Co!Tidy(strays, windows, on)
<1>3. /\ windows' = vs /\ strays' = st
      /\ nextWid' = nextWid /\ focused' = focused /\ activeDesk' = activeDesk
  BY <1>2, Zenon DEF Co!ToggleTiling
<1>4. /\ vs \in Seq(Wins) /\ DOMAIN vs = DOMAIN windows
      /\ \A i \in DOMAIN windows : /\ vs[i].id = windows[i].id
                                   /\ vs[i].focused = windows[i].focused
      /\ Placed(vs, st)
  BY <1>1, <1>2, ArrangeFacts
<1> HIDE DEF vs, st
<1>5. \A i \in DOMAIN vs : vs[i].focused <=> vs[i].id = focused
  BY <1>1, <1>4, Zenon
<1>6. Once(vs, nextWid)
  BY <1>1, <1>4, OnceSame
<1>7. DeskOk(vs, nextWid, activeDesk, on, st, focused)
  BY <1>1, <1>2, <1>4, <1>5, <1>6, Zenon DEF DeskOk
<1> QED
  BY <1>2, <1>3, <1>7, DeskNext, Zenon

LEMMA SwitchStep ==
    ASSUME DeskInv, NEW n \in 0 .. Desks, Co!SwitchDesktop(n)
    PROVE  DeskInv'
<1>1. n \in Nat
  BY CompositorAssumption
<1>2. DeskOk(windows, nextWid, n, tiling, strays, focused)
  BY <1>1, Zenon DEF DeskInv, DeskOk, Co!FocusAgrees
<1>3. /\ windows' = windows /\ strays' = strays /\ nextWid' = nextWid
      /\ focused' = focused /\ activeDesk' = n /\ tiling' = tiling
  BY DEF Co!SwitchDesktop
<1> QED
  BY <1>2, <1>3, DeskNext, Zenon

LEMMA TickStep ==
    ASSUME DeskInv, Co!Tick
    PROVE  DeskInv'
<1>1. /\ windows \in Seq(Wins) /\ nextWid \in Nat /\ activeDesk \in Nat /\ tiling \in BOOLEAN
      /\ Placed(windows, strays) /\ Once(windows, nextWid)
      /\ \A i \in DOMAIN windows : windows[i].focused <=> windows[i].id = focused
  BY DEF DeskInv, Co!FocusAgrees
<1>2. PICK through \in SUBSET {i \in DOMAIN windows : windows[i].to # {}} :
        windows' = [i \in DOMAIN windows |->
                      IF i \in through THEN Co!Settle(windows[i]) ELSE windows[i]]
  BY Zenon DEF Co!Tick
<1> DEFINE ws == [i \in DOMAIN windows |->
                    IF i \in through THEN Co!Settle(windows[i]) ELSE windows[i]]
<1>3. /\ windows' = ws /\ strays' = strays
      /\ nextWid' = nextWid /\ focused' = focused /\ activeDesk' = activeDesk
      /\ tiling' = tiling
  BY <1>2 DEF Co!Tick
<1>4. \A w \in Wins : Like(w, w)
  BY DEF Like
<1>5. \A i \in DOMAIN windows :
        Like(ws[i], windows[i]) /\ ws[i].focused = windows[i].focused
        /\ Goal(ws[i]) = Goal(windows[i])
  <2> SUFFICES ASSUME NEW i \in DOMAIN windows
               PROVE  Like(ws[i], windows[i]) /\ ws[i].focused = windows[i].focused
                      /\ Goal(ws[i]) = Goal(windows[i])
    OBVIOUS
  <2>1. windows[i] \in Wins
    BY <1>1
  <2>2. CASE i \in through
    <3>1. ws[i] = Co!Settle(windows[i]) /\ windows[i].to # {}
      BY <2>2
    <3> HIDE DEF ws
    <3> QED
      BY <2>1, <3>1, WinSettle
  <2>3. CASE i \notin through
    <3>1. ws[i] = windows[i]
      BY <2>3
    <3> HIDE DEF ws
    <3> QED
      BY <1>4, <2>1, <3>1
  <2> QED
    BY <2>2, <2>3
<1>6. ws = [i \in DOMAIN windows |-> ws[i]]
  OBVIOUS
<1> HIDE DEF ws
<1>7. ws \in Seq(Wins) /\ DOMAIN ws = DOMAIN windows
  BY <1>1, <1>5, <1>6, Mapped
<1>8. \A i \in DOMAIN windows : ws[i].id = windows[i].id /\ ws[i].desk = windows[i].desk
  BY <1>5, Zenon DEF Like
<1>9. Placed(ws, strays)
  BY <1>1, <1>5, <1>7, <1>8, PlacedSame
<1>10. Once(ws, nextWid)
  BY <1>1, <1>7, <1>8, OnceSame
<1>11. \A i \in DOMAIN ws : ws[i].focused <=> ws[i].id = focused
  BY <1>1, <1>5, <1>7, <1>8, Zenon
<1>12. DeskOk(ws, nextWid, activeDesk, tiling, strays, focused)
  BY <1>1, <1>7, <1>9, <1>10, <1>11, Zenon DEF DeskOk
<1> QED
  BY <1>3, <1>12, DeskNext, Zenon

-----------------------------------------------------------------------------
LEMMA DeskStart == ASSUME Co!Init PROVE DeskInv
<1>1. windows = << >> /\ nextWid = 1 /\ activeDesk = 0 /\ tiling = FALSE
  BY DEF Co!Init
<1>2. << >> \in Seq(Wins) /\ DOMAIN << >> = {}
  OBVIOUS
<1> QED
  BY <1>1, <1>2 DEF DeskInv, Placed, Once, Co!FocusAgrees

LEMMA DeskKept == ASSUME DeskInv, [Next]_vars PROVE DeskInv'
<1>1. ASSUME compVars' = compVars PROVE DeskInv'
  <2>1. /\ windows' = windows /\ strays' = strays /\ nextWid' = nextWid
        /\ focused' = focused /\ activeDesk' = activeDesk /\ tiling' = tiling
    BY <1>1 DEF compVars
  <2> QED
    BY <2>1, DeskNow, DeskNext, Zenon
<1>2. ASSUME Co!Next PROVE DeskInv'
  BY <1>2, CreateStep, CloseStep, FocusStep, MoveStep, SnapStep, ReleaseStep, TilingStep,
     SwitchStep, TickStep, Zenon DEF Co!Next
<1>3. Co!Next \/ compVars' = compVars
  BY Zenon DEF Next, vars, Give, NshStep, AiStep, CompositorStep, KeyboardStep, FaultStep, SecurityStep,
     OnlyNsh, OnlyAi, OnlyCompositor, OnlyKeyboard, OnlyFault, OnlySecurity
<1> QED
  BY <1>1, <1>2, <1>3

LEMMA DeskMeans == ASSUME DeskInv PROVE DesktopSound
<1>1. Placed(windows, strays) /\ Co!FocusAgrees
  BY DEF DeskInv
<1>2. \A w : w.to = {} => Goal(w) = w.rect
  BY DEF Goal
<1>3. Co!TilesApart
  BY <1>1, <1>2, Zenon DEF Placed, Co!TilesApart
<1> QED
  BY <1>1, <1>3 DEF DesktopSound

(* Tiled windows at rest lie inside the screen and do not overlap, and the *)
(* window drawn focused is the focused one (retile, focus, close_window of *)
(* the compositor's main.rs).                                              *)
THEOREM TilesInPlace == Spec => []DesktopSound
<1>1. Init => DeskInv
  BY DeskStart DEF Init
<1>2. DeskInv /\ [Next]_vars => DeskInv'
  BY DeskKept
<1>3. DeskInv => DesktopSound
  BY DeskMeans
<1> QED
  BY <1>1, <1>2, <1>3, PTL DEF Spec

-----------------------------------------------------------------------------
(* The shell's line editor.                                                *)

LEMMA CountSame == \A S : Sh!Cardinality(S) = Cardinality(S)
BY Zenon DEF Sh!Cardinality, Cardinality



(* The provers know nothing of STRING, so a blank is one more character.   *)
Char  == STRING \cup {" "}
Lines == Seq(Char)

LEMMA LinesOf ==
    /\ Typed \subseteq Char /\ " " \in Char
    /\ IsFiniteSet(Dictionary) /\ Dictionary \subseteq Lines /\ Remote \subseteq Lines
    /\ Files \subseteq Seq(Lines) /\ HistMax \in Nat
    /\ << >> \in Lines /\ \A ch \in Char : <<ch>> \in Lines
<1>1. STRING \subseteq Char /\ " " \in Char
  BY DEF Char
<1>2. \A S, T : S \subseteq T => Seq(S) \subseteq Seq(T)
  BY SeqMonotonic
<1>3. Seq(STRING) \subseteq Lines
  BY <1>1, <1>2, Zenon DEF Lines
<1>4. Seq(Seq(STRING)) \subseteq Seq(Lines)
  BY <1>2, <1>3, Zenon
<1>5. << >> \in Lines /\ \A ch \in Char : <<ch>> \in Lines
  BY DEF Lines
<1>6. /\ Typed \subseteq STRING /\ IsFiniteSet(Dictionary) /\ Dictionary \subseteq Seq(STRING)
      /\ Remote \subseteq Seq(STRING) /\ Files \subseteq Seq(Seq(STRING)) /\ HistMax \in Nat
  BY ShellAssumption, Zenon
<1>7. /\ Typed \subseteq Char /\ Dictionary \subseteq Lines /\ Remote \subseteq Lines
      /\ Files \subseteq Seq(Lines)
  BY <1>1, <1>3, <1>4, <1>6, Zenon
<1> QED
  BY <1>1, <1>5, <1>6, <1>7, Zenon

-----------------------------------------------------------------------------
(* Greatest and least positions of a set of them.                          *)
LEMMA Greatest ==
    ASSUME NEW n \in Nat, NEW T, T \subseteq 0 .. n, T # {}
    PROVE  \E m \in T : \A j \in T : j <= m
<1> DEFINE U == {n - j : j \in T}
<1>a. \A j \in T : n - j \in Nat
  OBVIOUS
<1>1. U \subseteq Nat /\ U # {}
  <2>1. U \subseteq Nat
    BY <1>a, Zenon
  <2>2. U # {}
    BY Zenon
  <2> QED
    BY <2>1, <2>2
<1>2. PICK k \in U : \A m \in U : k <= m
  BY <1>1, Least, Zenon
<1>3. PICK m \in T : k = n - m
  OBVIOUS
<1>4. \A j \in T : n - m <= n - j
  BY <1>2, <1>3
<1>5. \A j \in T : j <= m
  BY <1>4
<1> QED
  BY <1>5

(* The furthest position from which everything up to i is in a set.        *)
LEMMA BackTo ==
    ASSUME NEW i \in Nat, NEW P
    PROVE  \E j \in 0 .. i : (\A k \in j + 1 .. i : k \in P) /\ (j = 0 \/ j \notin P)
<1> DEFINE T == {j \in 0 .. i : j = 0 \/ j \notin P}
<1>1. T \subseteq 0 .. i /\ T # {}
  OBVIOUS
<1>2. PICK j \in T : \A k \in T : k <= j
  BY <1>1, Greatest
<1>3. \A k \in j + 1 .. i : k \notin T /\ k \in 0 .. i
  BY <1>2
<1> QED
  BY <1>3

LEMMA OnTo ==
    ASSUME NEW n \in Nat, NEW i \in 0 .. n, NEW P
    PROVE  \E j \in i .. n : (\A k \in i + 1 .. j : k \in P) /\ (j = n \/ j + 1 \notin P)
<1> DEFINE T == {j \in i .. n : j = n \/ j + 1 \notin P}
<1>1. T \subseteq Nat /\ T # {}
  OBVIOUS
<1>2. PICK j \in T : \A k \in T : j <= k
  BY <1>1, Least
<1>3. \A k \in i + 1 .. j : k - 1 \notin T /\ k - 1 \in i .. n /\ (k - 1) + 1 = k
  BY <1>2
<1>4. \A k \in i + 1 .. j : k \in P
  BY <1>3
<1> QED
  BY <1>4

-----------------------------------------------------------------------------
(* Cutting and joining lines.                                              *)
LEMMA Cutting ==
    ASSUME NEW S, NEW s \in Seq(S), NEW m \in Int, NEW n \in Int, m >= 1, n <= Len(s)
    PROVE  /\ SubSeq(s, m, n) \in Seq(S)
           /\ Len(SubSeq(s, m, n)) = IF m <= n THEN n - m + 1 ELSE 0
<1>1. \A i \in m .. n : s[i] \in S
  OBVIOUS
<1> QED
  BY <1>1, SubSeqProperties

LEMMA Inserting ==
    ASSUME buf \in Lines, cursor \in 0 .. Len(buf), NEW text \in Lines, Sh!Put(text)
    PROVE  /\ buf' \in Lines /\ cursor' \in 0 .. Len(buf')
           /\ Sh!Insert(text) \in Lines
<1> DEFINE a == SubSeq(buf, 1, cursor)
           b == SubSeq(buf, cursor + 1, Len(buf))
<1>1. Len(buf) \in Nat /\ cursor \in Int /\ cursor >= 0 /\ cursor <= Len(buf) /\ Len(text) \in Nat
  BY DEF Lines
<1>2. a \in Lines /\ b \in Lines /\ Len(a) = cursor /\ Len(b) \in Nat
  <2>1. a \in Lines /\ Len(a) = cursor
    BY <1>1, Cutting DEF Lines
  <2>2. b \in Lines
    BY <1>1, Cutting DEF Lines
  <2> QED
    BY <2>1, <2>2 DEF Lines
<1>3. Sh!Insert(text) = a \o text \o b
  BY DEF Sh!Insert
<1> HIDE DEF a, b
<1>4. a \o text \o b \in Lines /\ Len(a \o text \o b) = cursor + Len(text) + Len(b)
  <2>1. a \o text \in Lines /\ Len(a \o text) = cursor + Len(text)
    BY <1>2, ConcatProperties DEF Lines
  <2>2. (a \o text) \o b \in Lines /\ Len((a \o text) \o b) = Len(a \o text) + Len(b)
    BY <1>2, <2>1, ConcatProperties DEF Lines
  <2> QED
    BY <2>1, <2>2
<1>5. buf' = a \o text \o b /\ cursor' = cursor + Len(text)
  BY <1>3 DEF Sh!Put
<1> QED
  BY <1>1, <1>2, <1>3, <1>4, <1>5

LEMMA Trimmed ==
    ASSUME NEW s \in Lines
    PROVE  Sh!Trim(s) \in Lines
<1> DEFINE ink == {i \in DOMAIN s : ~Sh!Blank(s[i])}
           first == CHOOSE i \in ink : \A j \in ink : i <= j
           last  == CHOOSE i \in ink : \A j \in ink : j <= i
<1>1. Len(s) \in Nat /\ ink \subseteq 1 .. Len(s)
  BY DEF Lines
<1>2. Sh!Trim(s) = IF ink = {} THEN << >> ELSE SubSeq(s, first, last)
  BY Zenon DEF Sh!Trim
<1> HIDE DEF ink
<1>3. CASE ink = {}
  BY <1>2, <1>3 DEF Lines
<1>4. CASE ink # {}
  <2>1. \E i \in ink : \A j \in ink : i <= j
    <3>1. ink \subseteq Nat
      BY <1>1
    <3> QED
      BY <1>4, <3>1, Least, Zenon
  <2>2. \E i \in ink : \A j \in ink : j <= i
    <3>1. ink \subseteq 0 .. Len(s)
      BY <1>1
    <3> QED
      BY <1>1, <1>4, <3>1, Greatest
  <2>3. first \in ink /\ last \in ink
    BY <2>1, <2>2, Zenon
  <2> HIDE DEF first, last
  <2>4. first >= 1 /\ last <= Len(s) /\ first \in Int /\ last \in Int
    BY <1>1, <2>3
  <2> QED
    BY <1>2, <1>4, <2>4, Cutting DEF Lines
<1> QED
  BY <1>3, <1>4

(* What the shell cuts off is never longer than what the trie completes.   *)
LEMMA TokensFit ==
    ASSUME NEW line \in Lines
    PROVE  /\ Sh!TokenLen(line) \in Nat /\ Sh!Token(line) \in Lines
           /\ Sh!TokenLen(line) <= Len(Sh!Token(line))
<1> DEFINE n == Len(line)
           T == {i \in DOMAIN line : ~Sh!TrieChar(line[i])} \cup {0}
           U == {i \in DOMAIN line : ~Sh!ShellChar(line[i])}
           t == CHOOSE i \in T : \A j \in T : j <= i
           u == CHOOSE i \in U : \A j \in U : j <= i
<1>1. n \in Nat /\ T \subseteq 0 .. n /\ 0 \in T /\ U \subseteq 0 .. n /\ DOMAIN line = 1 .. n
  BY DEF Lines
<1>2. \A i \in T : i = 0 \/ i \in U
  BY DEF Sh!TrieChar, Sh!ShellChar
<1>3. Sh!Token(line) = SubSeq(line, t + 1, n)
  BY Zenon DEF Sh!Token
<1>4. Sh!TokenLen(line) = IF U = {} THEN 0 ELSE n - u
  BY Zenon DEF Sh!TokenLen
<1>5. t \in T /\ \A j \in T : j <= t
  <2>1. \E i \in T : \A j \in T : j <= i
    BY <1>1, Greatest
  <2> QED
    BY <2>1, Zenon
<1>6. U # {} => u \in U /\ \A j \in U : j <= u
  <2>1. U # {} => \E i \in U : \A j \in U : j <= i
    BY <1>1, Greatest
  <2> QED
    BY <2>1, Zenon
<1> HIDE DEF t, u, T, U
<1>7. t \in 0 .. n
  BY <1>1, <1>5
<1>8. SubSeq(line, t + 1, n) \in Lines /\ Len(SubSeq(line, t + 1, n)) = n - t
  <2>1. t + 1 \in Int /\ n \in Int /\ t + 1 >= 1 /\ n <= Len(line)
    BY <1>1, <1>7
  <2>2. SubSeq(line, t + 1, n) \in Lines
        /\ Len(SubSeq(line, t + 1, n)) = IF t + 1 <= n THEN n - (t + 1) + 1 ELSE 0
    BY <2>1, Cutting DEF Lines
  <2> HIDE DEF n
  <2> QED
    BY <1>1, <1>7, <2>2
<1> HIDE DEF n
<1>9. U # {} => u \in 0 .. n /\ t <= u
  <2> SUFFICES ASSUME U # {} PROVE u \in 0 .. n /\ t <= u
    OBVIOUS
  <2>1. u \in U /\ (\A j \in U : j <= u) /\ u \in 0 .. n
    BY <1>1, <1>6
  <2>2. CASE t = 0
    BY <2>1, <2>2
  <2>3. CASE t \in U
    BY <2>1, <2>3
  <2> QED
    BY <1>2, <1>5, <2>2, <2>3
<1> QED
  BY <1>1, <1>3, <1>4, <1>7, <1>8, <1>9

(* So a hit of the trie is at least as long as what is cut off.            *)
LEMMA HitsFit ==
    ASSUME NEW line \in Lines, NEW t \in Sh!Hits(line)
    PROVE  t \in Dictionary /\ t \in Lines /\ Sh!TokenLen(line) <= Len(t)
<1>1. t \in Dictionary /\ Sh!IsPrefix(Sh!Token(line), t)
  BY Zenon DEF Sh!Hits
<1>2. t \in Lines
  BY <1>1, LinesOf
<1>3. Len(Sh!Token(line)) <= Len(t)
  BY <1>1 DEF Sh!IsPrefix
<1>4. Len(t) \in Nat /\ Len(Sh!Token(line)) \in Nat
  BY <1>2, TokensFit DEF Lines
<1> QED
  BY <1>1, <1>2, <1>3, <1>4, TokensFit

(* The line and the history, stated over their values.                     *)
EditOk(b, c, g, h, s, e, sh) ==
    /\ b \in Lines /\ c \in 0 .. Len(b) /\ g \in Lines /\ s \in Lines
    /\ e \in Seq(Lines) /\ Len(e) <= HistMax /\ h \in 0 .. Len(e)
    /\ sh = "panicked" => \E r \in Remote : Len(r) < Sh!TokenLen(b) /\ Sh!Hits(b) = {}

EditInv == EditOk(buf, cursor, ghost, histIdx, saved, entries, shell)

LEMMA EditNext ==
    EditInv' <=> EditOk(buf', cursor', ghost', histIdx', saved', entries', shell')
BY Zenon DEF EditInv, EditOk

LEMMA EditNow ==
    ASSUME EditInv
    PROVE  /\ buf \in Lines /\ cursor \in 0 .. Len(buf) /\ ghost \in Lines /\ saved \in Lines
           /\ entries \in Seq(Lines) /\ Len(entries) <= HistMax /\ histIdx \in 0 .. Len(entries)
           /\ Len(buf) \in Nat /\ Len(entries) \in Nat /\ Len(ghost) \in Nat
           /\ histIdx \in Nat /\ cursor \in Nat /\ HistMax \in Nat
<1>1. /\ buf \in Lines /\ cursor \in 0 .. Len(buf) /\ ghost \in Lines /\ saved \in Lines
      /\ entries \in Seq(Lines) /\ Len(entries) <= HistMax /\ histIdx \in 0 .. Len(entries)
  BY Zenon DEF EditInv, EditOk
<1>2. Len(buf) \in Nat /\ Len(entries) \in Nat /\ Len(ghost) \in Nat
  BY <1>1 DEF Lines
<1>3. histIdx \in Nat /\ cursor \in Nat
  BY <1>1, <1>2
<1> QED
  BY <1>1, <1>2, <1>3, LinesOf, Zenon

(* A step that leaves the history alone and does not panic.                *)
LEMMA LineStep ==
    ASSUME EditInv, buf' \in Lines, cursor' \in 0 .. Len(buf'), ghost' \in Lines,
           histIdx' = histIdx, saved' = saved, entries' = entries, shell' # "panicked"
    PROVE  EditInv'
<1>1. /\ saved \in Lines /\ entries \in Seq(Lines) /\ Len(entries) <= HistMax
      /\ histIdx \in 0 .. Len(entries)
  BY EditNow
<1>2. EditOk(buf', cursor', ghost', histIdx, saved, entries, shell')
  BY <1>1, Zenon DEF EditOk
<1> QED
  BY <1>2, EditNext, Zenon

LEMMA MoveOnly ==
    ASSUME EditInv, shell = "running", cursor' \in 0 .. Len(buf), Sh!Moved
    PROVE  EditInv'
<1>1. /\ buf' = buf /\ ghost' = ghost /\ histIdx' = histIdx /\ saved' = saved
      /\ entries' = entries /\ shell' = shell
  BY DEF Sh!Moved
<1>2. buf \in Lines /\ ghost \in Lines
  BY EditNow
<1>3. shell' # "panicked"
  BY <1>1
<1> QED
  BY <1>1, <1>2, <1>3, LineStep

LEMMA EditOnly ==
    ASSUME EditInv, shell = "running", buf' \in Lines, cursor' \in 0 .. Len(buf'), Sh!Edited
    PROVE  EditInv'
<1>1. /\ ghost' = ghost /\ histIdx' = histIdx /\ saved' = saved
      /\ entries' = entries /\ shell' = shell
  BY DEF Sh!Edited
<1>2. ghost \in Lines
  BY EditNow
<1>3. shell' # "panicked"
  BY <1>1
<1> QED
  BY <1>1, <1>2, <1>3, LineStep

LEMMA GhostsType ==
    ASSUME NEW line \in Lines, NEW g \in Sh!Ghosts(line)
    PROVE  g \in Lines
<1>1. << >> \in Lines /\ \A h \in Dictionary : <<" ">> \o h \in Lines
  <2>1. << >> \in Lines /\ <<" ">> \in Lines
    BY LinesOf
  <2>2. \A h \in Dictionary : h \in Lines
    BY LinesOf
  <2> QED
    BY <2>1, <2>2, ConcatProperties DEF Lines
<1>2. \A h \in Sh!Hits(line) : h \in Dictionary
  BY Zenon DEF Sh!Hits
<1> QED
  BY <1>1, <1>2, Zenon DEF Sh!Ghosts

LEMMA TypeStep ==
    ASSUME EditInv, shell = "running", NEW ch \in Typed, Sh!Type(ch)
    PROVE  EditInv'
<1>1. <<ch>> \in Lines
  BY LinesOf
<1>2. Sh!Put(<<ch>>)
  BY DEF Sh!Type
<1>3. buf' \in Lines /\ cursor' \in 0 .. Len(buf') /\ Sh!Insert(<<ch>>) \in Lines
  BY <1>1, <1>2, EditNow, Inserting
<1>4. /\ histIdx' = histIdx /\ saved' = saved /\ entries' = entries /\ shell' = shell
      /\ (ghost # << >> /\ ghost' = Tail(ghost)) \/ ghost' \in Sh!Ghosts(Sh!Insert(<<ch>>))
  BY Zenon DEF Sh!Type
<1>5. ghost' \in Lines
  <2>1. ghost # << >> => Tail(ghost) \in Lines
    BY EditNow DEF Lines
  <2> QED
    BY <1>3, <1>4, <2>1, GhostsType
<1>6. shell' # "panicked"
  BY <1>4
<1> QED
  BY <1>3, <1>4, <1>5, <1>6, LineStep

LEMMA TabGhostStep ==
    ASSUME EditInv, shell = "running", Sh!TabGhost
    PROVE  EditInv'
<1>1. /\ Sh!Put(ghost) /\ ghost' = << >> /\ histIdx' = histIdx /\ saved' = saved
      /\ entries' = entries /\ shell' = shell
  BY DEF Sh!TabGhost
<1>2. buf' \in Lines /\ cursor' \in 0 .. Len(buf')
  BY <1>1, EditNow, Inserting
<1>3. << >> \in Lines /\ shell' # "panicked"
  BY <1>1 DEF Lines
<1> QED
  BY <1>1, <1>2, <1>3, LineStep

(* One answer that is too short to cut came from a remote provider, and    *)
(* the trie had none.                                                      *)
LEMMA TabCompleteStep ==
    ASSUME EditInv, shell = "running", Sh!TabComplete
    PROVE  EditInv'
<1>0. /\ buf \in Lines /\ cursor \in 0 .. Len(buf) /\ ghost \in Lines /\ saved \in Lines
      /\ entries \in Seq(Lines) /\ Len(entries) <= HistMax /\ histIdx \in 0 .. Len(entries)
  BY EditNow
<1>1. ghost' = ghost /\ histIdx' = histIdx /\ saved' = saved /\ entries' = entries
  BY DEF Sh!TabComplete
<1>2. PICK a \in Sh!Answers(buf) :
        IF Sh!Cardinality(a) = 1
        THEN \E t \in a :
               IF Len(t) < Sh!TokenLen(buf)
               THEN shell' = "panicked" /\ buf' = buf /\ cursor' = cursor
               ELSE /\ Sh!Put(SubSeq(t, Sh!TokenLen(buf) + 1, Len(t))) /\ shell' = shell
        ELSE buf' = buf /\ cursor' = cursor /\ shell' = shell
  BY Zenon DEF Sh!TabComplete
<1>3. a = Sh!Hits(buf) \/ (\E r \in Remote : a = Sh!Hits(buf) \cup {r}) \/ a = {}
  BY DEF Sh!Answers
<1>4. IsFiniteSet(Sh!Hits(buf)) /\ \A t \in Sh!Hits(buf) : /\ t \in Lines
                                                           /\ Sh!TokenLen(buf) <= Len(t)
  <2>1. \A t \in Sh!Hits(buf) : /\ t \in Dictionary /\ t \in Lines
                                /\ Sh!TokenLen(buf) <= Len(t)
    BY <1>0, HitsFit
  <2>2. Sh!Hits(buf) \in SUBSET Dictionary
    BY <2>1
  <2>3. IsFiniteSet(Sh!Hits(buf))
    BY <2>2, LinesOf, FS_Subset
  <2> QED
    BY <2>1, <2>3
<1>5. \A t \in a : t \in Lines
  BY <1>3, <1>4, LinesOf
<1>6. Sh!TokenLen(buf) \in Nat
  BY <1>0, TokensFit
<1>7. CASE Sh!Cardinality(a) # 1
  <2>1. buf' = buf /\ cursor' = cursor /\ shell' # "panicked"
    BY <1>2, <1>7
  <2> QED
    BY <1>0, <1>1, <2>1, LineStep
<1>8. CASE Sh!Cardinality(a) = 1
  <2>1. PICK t \in a :
               IF Len(t) < Sh!TokenLen(buf)
               THEN shell' = "panicked" /\ buf' = buf /\ cursor' = cursor
               ELSE /\ Sh!Put(SubSeq(t, Sh!TokenLen(buf) + 1, Len(t))) /\ shell' = shell
    BY <1>2, <1>8
  <2>2. t \in Lines /\ Len(t) \in Nat
    BY <1>5 DEF Lines
  <2>3. CASE Len(t) < Sh!TokenLen(buf)
    <3>1. t \notin Sh!Hits(buf)
      BY <1>4, <1>6, <2>2, <2>3
    <3>2. t \in Remote /\ a = Sh!Hits(buf) \cup {t}
      BY <1>3, <3>1
    <3>3. IsFiniteSet(a)
      BY <1>4, <3>2, FS_AddElement
    <3>4. Cardinality(a) = 1
      BY <1>8, CountSame
    <3>5. \E x : a = {x}
      BY <3>3, <3>4, FS_Singleton
    <3>6. Sh!Hits(buf) = {}
      BY <3>1, <3>2, <3>5
    <3>7. buf' = buf /\ cursor' = cursor /\ shell' = "panicked"
      BY <2>1, <2>3
    <3>8. EditOk(buf, cursor, ghost, histIdx, saved, entries, "panicked")
      BY <1>0, <2>3, <3>2, <3>6, Zenon DEF EditOk
    <3> QED
      BY <1>1, <3>7, <3>8, EditNext, Zenon
  <2>4. CASE ~(Len(t) < Sh!TokenLen(buf))
    <3> DEFINE n == Sh!TokenLen(buf)
               u == SubSeq(t, n + 1, Len(t))
    <3>1. Sh!Put(u) /\ shell' = shell
      BY <2>1, <2>4
    <3>2. u \in Lines
      <4>1. n + 1 \in Int /\ n + 1 >= 1
        BY <1>6
      <4> HIDE DEF n
      <4> QED
        BY <2>2, <4>1, Cutting DEF Lines
    <3> HIDE DEF u
    <3>3. buf' \in Lines /\ cursor' \in 0 .. Len(buf') /\ shell' # "panicked"
      BY <1>0, <3>1, <3>2, Inserting
    <3> QED
      BY <1>0, <1>1, <3>3, LineStep
  <2> QED
    BY <2>3, <2>4
<1> QED
  BY <1>7, <1>8

LEMMA RightStep ==
    ASSUME EditInv, shell = "running", Sh!Right
    PROVE  EditInv'
<1>0. /\ buf \in Lines /\ cursor \in 0 .. Len(buf) /\ ghost \in Lines
      /\ Len(buf) \in Nat /\ Len(ghost) \in Nat
  BY EditNow
<1>1. CASE cursor < Len(buf)
  <2>1. cursor' = cursor + 1 /\ Sh!Moved
    BY <1>1 DEF Sh!Right
  <2>2. cursor + 1 \in 0 .. Len(buf)
    BY <1>0, <1>1
  <2> QED
    BY <2>1, <2>2, MoveOnly
<1>2. CASE ~(cursor < Len(buf))
  <2> DEFINE blanks == {i \in DOMAIN ghost : Sh!Blank(ghost[i])}
             end == IF blanks = {} THEN Len(ghost)
                    ELSE CHOOSE i \in blanks : \A j \in blanks : i <= j
  <2>1. /\ Sh!Put(SubSeq(ghost, 1, end)) /\ ghost' = SubSeq(ghost, end + 1, Len(ghost))
        /\ histIdx' = histIdx /\ saved' = saved /\ entries' = entries /\ shell' = shell
    BY <1>2, Zenon DEF Sh!Right
  <2>2. blanks \subseteq 1 .. Len(ghost) /\ blanks \subseteq Nat
    BY <1>0 DEF Lines
  <2> HIDE DEF blanks
  <2>3. end \in 0 .. Len(ghost)
    <3>1. CASE blanks = {}
      BY <1>0, <3>1
    <3>2. CASE blanks # {}
      <4>1. \E i \in blanks : \A j \in blanks : i <= j
        BY <2>2, <3>2, Least
      <4>2. end \in blanks
        BY <3>2, <4>1, Zenon
      <4> HIDE DEF end
      <4> QED
        BY <1>0, <2>2, <4>2
    <3> QED
      BY <3>1, <3>2
  <2> HIDE DEF end
  <2>4. end \in Int /\ end + 1 \in Int /\ end + 1 >= 1 /\ end <= Len(ghost)
    BY <1>0, <2>3
  <2>5. SubSeq(ghost, 1, end) \in Lines /\ SubSeq(ghost, end + 1, Len(ghost)) \in Lines
    BY <1>0, <2>4, Cutting DEF Lines
  <2>6. buf' \in Lines /\ cursor' \in 0 .. Len(buf')
    BY <1>0, <2>1, <2>5, Inserting
  <2>7. shell' # "panicked"
    BY <2>1
  <2> QED
    BY <2>1, <2>5, <2>6, <2>7, LineStep
<1> QED
  BY <1>1, <1>2

(* The line without what is between two positions.                         *)
LEMMA Removing ==
    ASSUME buf \in Lines, NEW i \in 0 .. Len(buf), NEW j \in 0 .. Len(buf)
    PROVE  /\ SubSeq(buf, 1, i) \in Lines /\ Len(SubSeq(buf, 1, i)) = i
           /\ SubSeq(buf, j + 1, Len(buf)) \in Lines
           /\ SubSeq(buf, 1, i) \o SubSeq(buf, j + 1, Len(buf)) \in Lines
           /\ i \in 0 .. Len(SubSeq(buf, 1, i) \o SubSeq(buf, j + 1, Len(buf)))
<1> DEFINE a == SubSeq(buf, 1, i)
           b == SubSeq(buf, j + 1, Len(buf))
<1>1. Len(buf) \in Nat
  BY DEF Lines
<1>2. a \in Lines /\ Len(a) = i
  BY <1>1, Cutting DEF Lines
<1>3. b \in Lines
  BY <1>1, Cutting DEF Lines
<1> HIDE DEF a, b
<1>4. a \o b \in Lines /\ Len(a \o b) = Len(a) + Len(b)
  BY <1>2, <1>3, ConcatProperties DEF Lines
<1>6. Len(b) \in Nat
  BY <1>3, LenProperties DEF Lines
<1>5. i \in 0 .. Len(a \o b)
  BY <1>1, <1>2, <1>4, <1>6
<1> QED
  BY <1>2, <1>3, <1>4, <1>5 DEF a, b

LEMMA BackspaceStep ==
    ASSUME EditInv, shell = "running", Sh!Backspace
    PROVE  EditInv'
<1>0. buf \in Lines /\ cursor \in 0 .. Len(buf) /\ Len(buf) \in Nat /\ << >> \in Lines
  BY EditNow, LinesOf
<1>1. /\ ghost' = << >> /\ histIdx' = histIdx /\ saved' = saved /\ entries' = entries
      /\ shell' = shell
  BY DEF Sh!Backspace
<1>2. CASE cursor > 0
  <2> DEFINE a == SubSeq(buf, 1, cursor - 1)
             b == SubSeq(buf, cursor + 1, Len(buf))
  <2>1. buf' = a \o b /\ cursor' = cursor - 1
    BY <1>2 DEF Sh!Backspace, Sh!RemoveAt
  <2>2. a \o b \in Lines /\ cursor - 1 \in 0 .. Len(a \o b)
    <3>1. cursor - 1 \in 0 .. Len(buf)
      BY <1>0, <1>2
    <3> QED
      BY <1>0, <3>1, Removing
  <2> HIDE DEF a, b
  <2>5. buf' \in Lines /\ cursor' \in 0 .. Len(buf') /\ shell' # "panicked"
    BY <1>1, <2>1, <2>2
  <2> QED
    BY <1>0, <1>1, <2>5, LineStep
<1>3. CASE ~(cursor > 0)
  <2>1. buf' = buf /\ cursor' = cursor /\ shell' # "panicked"
    BY <1>1, <1>3 DEF Sh!Backspace
  <2> QED
    BY <1>0, <1>1, <2>1, LineStep
<1> QED
  BY <1>2, <1>3

LEMMA CutSteps ==
    ASSUME EditInv, shell = "running",
           Sh!Left \/ Sh!CtrlA \/ Sh!CtrlE \/ Sh!CtrlK \/ Sh!CtrlU
    PROVE  EditInv'
<1>0. buf \in Lines /\ cursor \in 0 .. Len(buf) /\ Len(buf) \in Nat
  BY EditNow
<1>1. CASE Sh!Left
  <2>1. cursor' \in 0 .. Len(buf) /\ Sh!Moved
    BY <1>0, <1>1 DEF Sh!Left
  <2> QED
    BY <2>1, MoveOnly
<1>2. CASE Sh!CtrlA
  <2>1. cursor' \in 0 .. Len(buf) /\ Sh!Moved
    BY <1>0, <1>2 DEF Sh!CtrlA
  <2> QED
    BY <2>1, MoveOnly
<1>3. CASE Sh!CtrlE
  <2>1. cursor' \in 0 .. Len(buf) /\ Sh!Moved
    BY <1>0, <1>3 DEF Sh!CtrlE
  <2> QED
    BY <2>1, MoveOnly
<1>4. CASE Sh!CtrlK
  <2>1. buf' = SubSeq(buf, 1, cursor) /\ cursor' = cursor /\ Sh!Edited
    BY <1>4 DEF Sh!CtrlK
  <2>2. SubSeq(buf, 1, cursor) \in Lines /\ Len(SubSeq(buf, 1, cursor)) = cursor
    BY <1>0, Removing
  <2>3. buf' \in Lines /\ cursor' \in 0 .. Len(buf')
    BY <1>0, <2>1, <2>2
  <2> QED
    BY <2>1, <2>3, EditOnly
<1>5. CASE Sh!CtrlU
  <2>1. buf' = SubSeq(buf, cursor + 1, Len(buf)) /\ cursor' = 0 /\ Sh!Edited
    BY <1>5 DEF Sh!CtrlU
  <2>2. SubSeq(buf, cursor + 1, Len(buf)) \in Lines
    BY <1>0, Removing
  <2>3. buf' \in Lines /\ cursor' \in 0 .. Len(buf')
    BY <2>1, <2>2 DEF Lines
  <2> QED
    BY <2>1, <2>3, EditOnly
<1> QED
  BY <1>1, <1>2, <1>3, <1>4, <1>5

LEMMA CtrlWStep ==
    ASSUME EditInv, shell = "running", Sh!CtrlW
    PROVE  EditInv'
<1>0. buf \in Lines /\ cursor \in 0 .. Len(buf) /\ Len(buf) \in Nat /\ cursor \in Nat
  BY EditNow
<1> DEFINE b == CHOOSE j \in 0 .. cursor :
                    /\ \A k \in (j + 1) .. cursor : Sh!Blank(buf[k])
                    /\ j = 0 \/ ~Sh!Blank(buf[j])
           to == CHOOSE j \in 0 .. b :
                    /\ \A k \in (j + 1) .. b : ~Sh!Blank(buf[k])
                    /\ j = 0 \/ ~~Sh!Blank(buf[j])
<1>1. /\ buf' = SubSeq(buf, 1, to) \o SubSeq(buf, cursor + 1, Len(buf))
      /\ cursor' = to /\ Sh!Edited
  BY Zenon DEF Sh!CtrlW, Sh!Back
<1>2. b \in 0 .. cursor
  <2> DEFINE P == {k \in 1 .. cursor : Sh!Blank(buf[k])}
  <2>1. PICK j \in 0 .. cursor : (\A k \in j + 1 .. cursor : k \in P) /\ (j = 0 \/ j \notin P)
    BY <1>0, BackTo
  <2>2. /\ \A k \in (j + 1) .. cursor : Sh!Blank(buf[k])
        /\ j = 0 \/ ~Sh!Blank(buf[j])
    BY <1>0, <2>1
  <2> QED
    BY <2>2, Zenon
<1> HIDE DEF b
<1>3. to \in 0 .. b
  <2> DEFINE P == {k \in 1 .. b : ~Sh!Blank(buf[k])}
  <2>0. b \in Nat
    BY <1>0, <1>2
  <2>1. PICK j \in 0 .. b : (\A k \in j + 1 .. b : k \in P) /\ (j = 0 \/ j \notin P)
    BY <2>0, BackTo
  <2>2. /\ \A k \in (j + 1) .. b : ~Sh!Blank(buf[k])
        /\ j = 0 \/ ~~Sh!Blank(buf[j])
    BY <2>0, <2>1
  <2> QED
    BY <2>2, Zenon
<1> HIDE DEF to
<1>4. to \in 0 .. Len(buf)
  BY <1>0, <1>2, <1>3
<1>5. buf' \in Lines /\ cursor' \in 0 .. Len(buf')
  BY <1>0, <1>1, <1>4, Removing
<1> QED
  BY <1>1, <1>5, EditOnly

LEMMA WordSteps ==
    ASSUME EditInv, shell = "running", Sh!AltF \/ Sh!AltB
    PROVE  EditInv'
<1>0. buf \in Lines /\ cursor \in 0 .. Len(buf) /\ Len(buf) \in Nat /\ cursor \in Nat
  BY EditNow
<1>1. CASE Sh!AltF
  <2> DEFINE n == Len(buf)
             a == CHOOSE j \in cursor .. n :
                      /\ \A k \in (cursor + 1) .. j : ~Sh!Alnum(buf[k])
                      /\ j = n \/ ~~Sh!Alnum(buf[j + 1])
             b == CHOOSE j \in a .. n :
                      /\ \A k \in (a + 1) .. j : Sh!Alnum(buf[k])
                      /\ j = n \/ ~Sh!Alnum(buf[j + 1])
  <2>1. cursor' = b /\ Sh!Moved
    BY <1>1, Zenon DEF Sh!AltF, Sh!On
  <2>2. a \in cursor .. n
    <3> DEFINE P == {k \in 1 .. n : ~Sh!Alnum(buf[k])}
    <3>1. PICK j \in cursor .. n : (\A k \in cursor + 1 .. j : k \in P) /\ (j = n \/ j + 1 \notin P)
      BY <1>0, OnTo, Zenon
    <3>2. /\ \A k \in (cursor + 1) .. j : ~Sh!Alnum(buf[k])
          /\ j = n \/ ~~Sh!Alnum(buf[j + 1])
      BY <1>0, <3>1
    <3> QED
      BY <3>2, Zenon
  <2> HIDE DEF a
  <2>3. b \in a .. n
    <3> DEFINE P == {k \in 1 .. n : Sh!Alnum(buf[k])}
    <3>0. a \in 0 .. n /\ n \in Nat
      BY <1>0, <2>2
    <3>1. PICK j \in a .. n : (\A k \in a + 1 .. j : k \in P) /\ (j = n \/ j + 1 \notin P)
      BY <3>0, OnTo
    <3>2. /\ \A k \in (a + 1) .. j : Sh!Alnum(buf[k])
          /\ j = n \/ ~Sh!Alnum(buf[j + 1])
      BY <3>0, <3>1
    <3> QED
      BY <3>2, Zenon
  <2> HIDE DEF b
  <2>4. cursor' \in 0 .. Len(buf)
    BY <1>0, <2>1, <2>2, <2>3
  <2> QED
    BY <2>1, <2>4, MoveOnly
<1>2. CASE Sh!AltB
  <2> DEFINE a == CHOOSE j \in 0 .. (cursor - 1) :
                      /\ \A k \in (j + 1) .. (cursor - 1) : ~Sh!Alnum(buf[k])
                      /\ j = 0 \/ ~~Sh!Alnum(buf[j])
             b == CHOOSE j \in 0 .. a :
                      /\ \A k \in (j + 1) .. a : Sh!Alnum(buf[k])
                      /\ j = 0 \/ ~Sh!Alnum(buf[j])
  <2>0. cursor > 0
    BY <1>2 DEF Sh!AltB
  <2>1. cursor' = b /\ Sh!Moved
    BY <1>2, Zenon DEF Sh!AltB, Sh!Back
  <2>2. a \in 0 .. (cursor - 1)
    <3> DEFINE m == cursor - 1
               P == {k \in 1 .. m : ~Sh!Alnum(buf[k])}
    <3>0. m \in Nat
      BY <1>0, <2>0
    <3> HIDE DEF m
    <3>1. PICK j \in 0 .. m : (\A k \in j + 1 .. m : k \in P) /\ (j = 0 \/ j \notin P)
      BY <3>0, BackTo
    <3>2. /\ \A k \in (j + 1) .. m : ~Sh!Alnum(buf[k])
          /\ j = 0 \/ ~~Sh!Alnum(buf[j])
      BY <3>0, <3>1
    <3> QED
      BY <3>2, Zenon DEF m
  <2> HIDE DEF a
  <2>3. a \in Nat
    BY <1>0, <2>0, <2>2
  <2>4. b \in 0 .. a
    <3> DEFINE P == {k \in 1 .. a : Sh!Alnum(buf[k])}
    <3>1. PICK j \in 0 .. a : (\A k \in j + 1 .. a : k \in P) /\ (j = 0 \/ j \notin P)
      BY <2>3, BackTo
    <3>2. /\ \A k \in (j + 1) .. a : Sh!Alnum(buf[k])
          /\ j = 0 \/ ~Sh!Alnum(buf[j])
      BY <2>3, <3>1
    <3> QED
      BY <3>2, Zenon
  <2> HIDE DEF b
  <2>5. cursor' \in 0 .. Len(buf)
    BY <1>0, <2>0, <2>1, <2>2, <2>4
  <2> QED
    BY <2>1, <2>5, MoveOnly
<1> QED
  BY <1>1, <1>2

(* A step to another entry, or back from them.                             *)
LEMMA LookStep ==
    ASSUME EditInv, shell = "running", NEW line \in Lines, Sh!SetLine(line),
           histIdx' \in 0 .. Len(entries), saved' \in Lines, ghost' \in Lines,
           entries' = entries, shell' # "panicked"
    PROVE  EditInv'
<1>1. buf' = line /\ cursor' = Len(line)
  BY DEF Sh!SetLine
<1>2. Len(line) \in Nat /\ Len(line) \in 0 .. Len(line)
  BY DEF Lines
<1>3. entries \in Seq(Lines) /\ Len(entries) <= HistMax
  BY EditNow
<1>4. EditOk(line, Len(line), ghost', histIdx', saved', entries, shell')
  BY <1>2, <1>3, Zenon DEF EditOk
<1> QED
  BY <1>1, <1>4, EditNext, Zenon

LEMMA EntryIs ==
    ASSUME EditInv, NEW i \in 1 .. Len(entries)
    PROVE  entries[i] \in Lines
BY EditNow

LEMMA UpStep ==
    ASSUME EditInv, shell = "running", Sh!Up
    PROVE  EditInv'
<1>0. /\ entries \in Seq(Lines) /\ histIdx \in 0 .. Len(entries) /\ Len(entries) \in Nat
      /\ buf \in Lines /\ saved \in Lines /\ ghost \in Lines /\ histIdx \in Nat
  BY EditNow
<1>1. /\ ghost' = ghost /\ entries' = entries /\ shell' = shell
      /\ saved' = (IF histIdx = 0 THEN buf ELSE saved) /\ entries # << >>
      /\ Sh!SetLine(entries[histIdx'])
  BY DEF Sh!Up
<1>2. histIdx' = CASE histIdx = 0 -> Len(entries)
                   [] histIdx > 1 -> histIdx - 1
                   [] OTHER       -> histIdx
  BY Zenon DEF Sh!Up
<1>3. Len(entries) > 0
  BY <1>0, <1>1
<1>4. histIdx' \in 1 .. Len(entries)
  BY <1>0, <1>2, <1>3
<1>5. entries[histIdx'] \in Lines
  BY <1>4, EntryIs
<1>6. saved' \in Lines
  BY <1>0, <1>1
<1>7. histIdx' \in 0 .. Len(entries) /\ ghost' \in Lines /\ shell' # "panicked"
  BY <1>0, <1>1, <1>4
<1> QED
  BY <1>1, <1>5, <1>6, <1>7, LookStep

LEMMA DownStep ==
    ASSUME EditInv, shell = "running", Sh!Down
    PROVE  EditInv'
<1>0. /\ entries \in Seq(Lines) /\ histIdx \in 0 .. Len(entries) /\ Len(entries) \in Nat
      /\ saved \in Lines /\ ghost \in Lines /\ histIdx \in Nat
  BY EditNow
<1>1. /\ ghost' = ghost /\ entries' = entries /\ shell' = shell /\ saved' = saved
      /\ histIdx' = (IF histIdx >= Len(entries) THEN 0 ELSE histIdx + 1)
      /\ Sh!SetLine(IF histIdx' = 0 THEN saved ELSE entries[histIdx'])
  BY DEF Sh!Down
<1>2. histIdx' \in 0 .. Len(entries)
  BY <1>0, <1>1
<1>3. histIdx' # 0 => entries[histIdx'] \in Lines
  <2>1. histIdx' # 0 => histIdx' \in 1 .. Len(entries)
    BY <1>0, <1>2
  <2> QED
    BY <2>1, EntryIs
<1> DEFINE line == IF histIdx' = 0 THEN saved ELSE entries[histIdx']
<1>4. line \in Lines
  BY <1>0, <1>3
<1>5. Sh!SetLine(line)
  BY <1>1
<1> HIDE DEF line
<1>6. ghost' \in Lines /\ saved' \in Lines /\ shell' # "panicked" /\ entries' = entries
  BY <1>0, <1>1
<1> QED
  BY <1>2, <1>4, <1>5, <1>6, LookStep

LEMMA CtrlRStep ==
    ASSUME EditInv, shell = "running", Sh!CtrlR
    PROVE  EditInv'
<1>0. /\ entries \in Seq(Lines) /\ histIdx \in 0 .. Len(entries)
      /\ saved \in Lines /\ ghost \in Lines
  BY EditNow
<1>1. /\ ghost' = ghost /\ entries' = entries /\ shell' = shell /\ saved' = saved
      /\ histIdx' = histIdx
  BY DEF Sh!CtrlR
<1>2. PICK i \in DOMAIN entries : Sh!SetLine(entries[i])
  BY Zenon DEF Sh!CtrlR
<1>3. entries[i] \in Lines
  BY <1>0
<1>4. /\ ghost' \in Lines /\ saved' \in Lines /\ shell' # "panicked"
      /\ histIdx' \in 0 .. Len(entries)
  BY <1>0, <1>1
<1> QED
  BY <1>1, <1>2, <1>3, <1>4, LookStep

LEMMA PushedFits ==
    ASSUME EditInv, NEW line \in Lines
    PROVE  /\ Sh!Pushed(line) \in Seq(Lines) /\ Len(Sh!Pushed(line)) <= HistMax
           /\ Len(Sh!Pushed(line)) \in Nat
<1>0. entries \in Seq(Lines) /\ Len(entries) <= HistMax /\ HistMax \in Nat
  BY EditNow
<1> DEFINE t == Sh!Trim(line)
           all == IF entries # << >> /\ Sh!Last(entries) = t THEN entries
                  ELSE Append(entries, t)
<1>1. Sh!Pushed(line) = IF Len(all) > HistMax THEN Tail(all) ELSE all
  BY Zenon DEF Sh!Pushed
<1>2. t \in Lines
  BY Trimmed
<1> HIDE DEF t
<1>3. all \in Seq(Lines) /\ Len(all) \in Nat /\ Len(all) <= HistMax + 1
  <2>1. Append(entries, t) \in Seq(Lines) /\ Len(Append(entries, t)) = Len(entries) + 1
        /\ Len(entries) \in Nat
    BY <1>0, <1>2
  <2> QED
    BY <1>0, <2>1
<1> HIDE DEF all
<1>4. CASE Len(all) > HistMax
  <2>1. all # << >>
    BY <1>0, <1>3, <1>4
  <2>2. Tail(all) \in Seq(Lines) /\ Len(Tail(all)) = Len(all) - 1
    BY <1>3, <2>1
  <2> QED
    BY <1>0, <1>1, <1>3, <1>4, <2>2
<1>5. CASE ~(Len(all) > HistMax)
  BY <1>0, <1>1, <1>3, <1>5
<1> QED
  BY <1>4, <1>5

(* A step that gives the line up.                                          *)
LEMMA ResetStep ==
    ASSUME EditInv, Sh!Reset, saved' = saved, NEW e \in Seq(Lines), Len(e) <= HistMax,
           Len(e) \in Nat, entries' = e, shell' # "panicked"
    PROVE  EditInv'
<1>1. buf' = << >> /\ cursor' = Len(<< >>) /\ ghost' = << >> /\ histIdx' = 0
  BY DEF Sh!Reset, Sh!SetLine
<1>2. << >> \in Lines /\ Len(<< >>) \in 0 .. Len(<< >>) /\ saved \in Lines /\ 0 \in 0 .. Len(e)
  <2>1. Len(<< >>) = 0 /\ 0 \in 0 .. 0 /\ 0 \in 0 .. Len(e)
    OBVIOUS
  <2> QED
    BY <2>1, EditNow, LinesOf, Zenon
<1>3. EditOk(<< >>, Len(<< >>), << >>, 0, saved, e, shell')
  BY <1>2, Zenon DEF EditOk
<1> QED
  BY <1>1, <1>3, EditNext, Zenon

LEMMA ReturnStep ==
    ASSUME EditInv, shell = "running", Sh!Return
    PROVE  EditInv'
<1>0. /\ entries \in Seq(Lines) /\ Len(entries) <= HistMax /\ Len(entries) \in Nat
      /\ buf \in Lines
  BY EditNow
<1>1. Sh!Reset /\ saved' = saved
  BY DEF Sh!Return
<1>2. \/ entries' = entries /\ shell' = shell
      \/ entries' = Sh!Pushed(buf) /\ (shell' = "exited" \/ shell' = shell)
  BY Zenon DEF Sh!Return
<1>3. shell' # "panicked"
  BY <1>2
<1>4. CASE entries' = entries
  BY <1>0, <1>1, <1>3, <1>4, ResetStep
<1>5. CASE entries' = Sh!Pushed(buf)
  <2>1. /\ Sh!Pushed(buf) \in Seq(Lines) /\ Len(Sh!Pushed(buf)) <= HistMax
        /\ Len(Sh!Pushed(buf)) \in Nat
    BY <1>0, PushedFits
  <2> QED
    BY <1>1, <1>3, <1>5, <2>1, ResetStep
<1> QED
  BY <1>2, <1>4, <1>5

LEMMA DropSteps ==
    ASSUME EditInv, shell = "running", Sh!CtrlC \/ Sh!CtrlD
    PROVE  EditInv'
<1>0. /\ entries \in Seq(Lines) /\ Len(entries) <= HistMax /\ Len(entries) \in Nat
      /\ buf \in Lines /\ ghost \in Lines /\ cursor \in 0 .. Len(buf)
  BY EditNow
<1>1. CASE Sh!CtrlC
  <2>1. Sh!Reset /\ saved' = saved /\ entries' = entries /\ shell' = shell
    BY <1>1 DEF Sh!CtrlC
  <2>2. shell' # "panicked"
    BY <2>1
  <2> QED
    BY <1>0, <2>1, <2>2, ResetStep
<1>2. CASE Sh!CtrlD
  <2>1. /\ saved' = saved /\ entries' = entries
        /\ \/ /\ shell' = "exited" /\ buf' = buf /\ cursor' = cursor /\ ghost' = ghost
              /\ histIdx' = histIdx
           \/ Sh!Reset /\ shell' = shell
    BY <1>2, Zenon DEF Sh!CtrlD
  <2>2. shell' # "panicked"
    BY <2>1
  <2>3. CASE Sh!Reset
    BY <1>0, <2>1, <2>2, <2>3, ResetStep
  <2>4. CASE buf' = buf /\ cursor' = cursor /\ ghost' = ghost /\ histIdx' = histIdx
    BY <1>0, <2>1, <2>2, <2>4, LineStep
  <2> QED
    BY <2>1, <2>3, <2>4
<1> QED
  BY <1>1, <1>2

-----------------------------------------------------------------------------
LEMMA LoadFits ==
    ASSUME NEW f \in Seq(Lines)
    PROVE  Sh!Load(f) \in Seq(Lines) /\ Len(Sh!Load(f)) <= HistMax /\ Len(Sh!Load(f)) \in Nat
<1> DEFINE where == {i \in DOMAIN f : f[i] # << >>}
           full == Kept(f, where)
           drop == IF Len(full) > HistMax THEN Len(full) - HistMax ELSE 0
<1>1. Sh!Load(f) = SubSeq(full, drop + 1, Len(full))
  BY Zenon DEF Sh!Load, Sh!Kept, Kept
<1> HIDE DEF where
<1>2. full \in Seq(Lines) /\ HistMax \in Nat
  BY KeptFacts, LinesOf
<1> HIDE DEF full
<1>3. Len(full) \in Nat
  BY <1>2
<1>4. drop \in Nat /\ drop <= Len(full) /\ Len(full) - drop <= HistMax
  BY <1>2, <1>3
<1> HIDE DEF drop
<1> DEFINE u == SubSeq(full, drop + 1, Len(full))
<1>5. /\ u \in Seq(Lines)
      /\ Len(u) = IF drop + 1 <= Len(full) THEN Len(full) - (drop + 1) + 1 ELSE 0
  <2>1. drop + 1 \in Int /\ drop + 1 >= 1 /\ Len(full) \in Int /\ Len(full) <= Len(full)
    BY <1>3, <1>4
  <2> QED
    BY <1>2, <2>1, Cutting
<1> HIDE DEF u
<1>6. Len(u) \in Nat /\ Len(u) <= HistMax
  BY <1>2, <1>3, <1>4, <1>5
<1> QED
  BY <1>1, <1>5, <1>6 DEF u

LEMMA EditStart == ASSUME Sh!Init PROVE EditInv
<1>1. /\ buf = << >> /\ cursor = 0 /\ ghost = << >> /\ histIdx = 0 /\ saved = << >>
      /\ shell = "running"
  BY DEF Sh!Init
<1>2. PICK f \in Files : entries = Sh!Load(f)
  BY DEF Sh!Init
<1>3. entries \in Seq(Lines) /\ Len(entries) <= HistMax /\ Len(entries) \in Nat
  BY <1>2, LoadFits, LinesOf
<1>4. << >> \in Lines /\ 0 \in 0 .. Len(<< >>) /\ 0 \in 0 .. Len(entries)
  <2>1. Len(<< >>) = 0 /\ 0 \in 0 .. 0 /\ 0 \in 0 .. Len(entries)
    BY <1>3
  <2> QED
    BY <2>1, LinesOf, Zenon
<1>5. "running" # "panicked"
  OBVIOUS
<1>6. EditOk(<< >>, 0, << >>, 0, << >>, entries, "running")
  BY <1>3, <1>4, <1>5, Zenon DEF EditOk
<1> QED
  BY <1>1, <1>6, Zenon DEF EditInv

LEMMA EditKept == ASSUME EditInv, [Next]_vars PROVE EditInv'
<1>1. ASSUME nshVars' = nshVars PROVE EditInv'
  <2>1. /\ buf' = buf /\ cursor' = cursor /\ ghost' = ghost /\ histIdx' = histIdx
        /\ saved' = saved /\ entries' = entries /\ shell' = shell
    BY <1>1 DEF nshVars
  <2> QED
    BY <2>1, EditNext, Zenon DEF EditInv
<1>2. ASSUME Sh!Next PROVE EditInv'
  <2>1. shell = "running" /\ (Sh!Key \/ Sh!Return)
    BY <1>2, Zenon DEF Sh!Next
  <2>2. CASE Sh!Key
    BY <2>1, <2>2, TypeStep, TabGhostStep, TabCompleteStep, RightStep, BackspaceStep, CutSteps,
       CtrlWStep, WordSteps, UpStep, DownStep, CtrlRStep, DropSteps, Zenon DEF Sh!Key
  <2>3. CASE Sh!Return
    BY <2>1, <2>3, ReturnStep
  <2> QED
    BY <2>1, <2>2, <2>3
<1>3. Sh!Next \/ nshVars' = nshVars
  BY Zenon DEF Next, vars, Give, NshStep, AiStep, CompositorStep, KeyboardStep, FaultStep,
     SecurityStep, OnlyNsh, OnlyAi, OnlyCompositor, OnlyKeyboard, OnlyFault, OnlySecurity
<1> QED
  BY <1>1, <1>2, <1>3

LEMMA EditMeans == ASSUME EditInv PROVE EditorSound
BY Zenon DEF EditInv, EditOk, EditorSound, Sh!EditorSound

(* Whatever is typed, cursor and history index stay in range, and the      *)
(* shell panics only at a remote completion shorter than the token it      *)
(* completes (line editor of the shell's main.rs).                         *)
THEOREM LineInRange == Spec => []EditorSound
<1>1. Init => EditInv
  BY EditStart DEF Init
<1>2. EditInv /\ [Next]_vars => EditInv'
  BY EditKept
<1>3. EditInv => EditorSound
  BY EditMeans
<1> QED
  BY <1>1, <1>2, <1>3, PTL DEF Spec

-----------------------------------------------------------------------------
LEMMA DraftStep ==
    ASSUME EditInv, Sh!Next
    PROVE  Sh!DraftComesBack
<1>0. histIdx \in Nat /\ Len(entries) \in Nat /\ entries \in Seq(Lines)
  BY EditNow
<1>1. Sh!Key \/ Sh!Return
  BY Zenon DEF Sh!Next
<1>2. CASE Sh!Up
  <2>1. /\ saved' = (IF histIdx = 0 THEN buf ELSE saved) /\ entries # << >>
        /\ histIdx' = CASE histIdx = 0 -> Len(entries)
                        [] histIdx > 1 -> histIdx - 1
                        [] OTHER       -> histIdx
    BY <1>2, Zenon DEF Sh!Up
  <2>2. Len(entries) > 0
    BY <1>0, <2>1
  <2>3. histIdx' # 0
    BY <1>0, <2>1, <2>2
  <2> QED
    BY <2>1, <2>3 DEF Sh!DraftComesBack
<1>3. CASE Sh!Down
  <2>1. histIdx # 0 /\ saved' = saved
        /\ Sh!SetLine(IF histIdx' = 0 THEN saved ELSE entries[histIdx'])
    BY <1>3 DEF Sh!Down
  <2> QED
    BY <2>1 DEF Sh!DraftComesBack, Sh!SetLine
<1>4. CASE histIdx' = histIdx /\ saved' = saved
  BY <1>4 DEF Sh!DraftComesBack
<1>5. CASE Sh!Reset /\ saved' = saved
  BY <1>5 DEF Sh!DraftComesBack, Sh!Reset, Sh!SetLine
<1>6. CASE Sh!Return
  BY <1>5, <1>6, Zenon DEF Sh!Return
<1>7. CASE Sh!Key
  <2>1. Sh!Up \/ Sh!Down \/ (histIdx' = histIdx /\ saved' = saved) \/ (Sh!Reset /\ saved' = saved)
    BY <1>7, Zenon DEF Sh!Key, Sh!Type, Sh!TabGhost, Sh!TabComplete, Sh!Right, Sh!Backspace,
       Sh!Left, Sh!CtrlA, Sh!CtrlE, Sh!CtrlK, Sh!CtrlU, Sh!CtrlW, Sh!AltF, Sh!AltB,
       Sh!CtrlR, Sh!CtrlC, Sh!CtrlD, Sh!Moved, Sh!Edited
  <2> QED
    BY <1>2, <1>3, <1>4, <1>5, <2>1
<1> QED
  BY <1>1, <1>6, <1>7

(* A line under way when the history is entered is the line found when it  *)
(* is left again (hist_prev, hist_next).                                   *)
THEOREM DraftKept == Spec => DraftComesBack
<1>1. Init => EditInv
  BY EditStart DEF Init
<1>2. EditInv /\ [Next]_vars => EditInv'
  BY EditKept
<1>3. EditInv /\ [Next]_vars => [Sh!DraftComesBack]_nshVars
  <2>1. ASSUME [Next]_vars PROVE Sh!Next \/ nshVars' = nshVars
    BY <2>1, Zenon DEF Next, vars, Give, NshStep, AiStep, CompositorStep, KeyboardStep, FaultStep,
       SecurityStep, OnlyNsh, OnlyAi, OnlyCompositor, OnlyKeyboard, OnlyFault, OnlySecurity
  <2> QED
    BY <2>1, DraftStep
<1> QED
  BY <1>1, <1>2, <1>3, PTL DEF Spec, DraftComesBack

-----------------------------------------------------------------------------
(* The completion engine: answers stay sorted and whole through sort and   *)
(* cut, and what is in its trie has a place in the order of texts.         *)

(* In a strict order of a finite set, an element's place is the number of  *)
(* those before it, and every place is taken.                              *)
LEMMA Ranks ==
    ASSUME NEW S, IsFiniteSet(S), NEW B \in [S -> SUBSET S],
           \A x \in S : x \notin B[x],
           \A x, y \in S : y \in B[x] => B[y] \subseteq B[x],
           \A x, y \in S : x # y => x \in B[y] \/ y \in B[x]
    PROVE  /\ Cardinality(S) \in Nat
           /\ \A x \in S : Cardinality(B[x]) \in 0 .. Cardinality(S) - 1
           /\ \A x, y \in S : Cardinality(B[x]) = Cardinality(B[y]) => x = y
           /\ \A x, y \in S : Cardinality(B[x]) < Cardinality(B[y]) => x \in B[y]
           /\ \A k \in 0 .. Cardinality(S) - 1 : \E x \in S : Cardinality(B[x]) = k
<1> DEFINE N == Cardinality(S)
           rank == [x \in S |-> Cardinality(B[x])]
<1>1. N \in Nat
  BY FS_CardinalityType
<1>2. \A x \in S : IsFiniteSet(B[x]) /\ Cardinality(B[x]) \in Nat
  BY FS_Subset, FS_CardinalityType
<1>3. \A x \in S : Cardinality(B[x]) < N
  <2> SUFFICES ASSUME NEW x \in S PROVE Cardinality(B[x]) < N
    OBVIOUS
  <2>1. B[x] \in SUBSET S /\ B[x] # S
    OBVIOUS
  <2>2. Cardinality(B[x]) <= N /\ (N = Cardinality(B[x]) => S = B[x])
    BY <2>1, FS_Subset
  <2> QED
    BY <1>1, <1>2, <2>1, <2>2
<1>4. \A x, y \in S : y \in B[x] => Cardinality(B[y]) < Cardinality(B[x])
  <2> SUFFICES ASSUME NEW x \in S, NEW y \in S, y \in B[x]
               PROVE  Cardinality(B[y]) < Cardinality(B[x])
    OBVIOUS
  <2>1. B[y] \in SUBSET B[x] /\ B[y] # B[x]
    OBVIOUS
  <2>2. IsFiniteSet(B[x])
    BY <1>2
  <2>3. Cardinality(B[y]) <= Cardinality(B[x]) /\ (Cardinality(B[x]) = Cardinality(B[y]) => B[x] = B[y])
    BY <2>1, <2>2, FS_Subset
  <2> QED
    BY <1>2, <2>1, <2>3
<1>5. \A x, y \in S : Cardinality(B[x]) = Cardinality(B[y]) => x = y
  BY <1>2, <1>4
<1>6. \A x, y \in S : Cardinality(B[x]) < Cardinality(B[y]) => x \in B[y]
  <2> SUFFICES ASSUME NEW x \in S, NEW y \in S, Cardinality(B[x]) < Cardinality(B[y])
               PROVE  x \in B[y]
    OBVIOUS
  <2>1. x # y /\ y \notin B[x]
    BY <1>2, <1>4
  <2> QED
    BY <2>1
<1>7. \A x \in S : Cardinality(B[x]) \in 0 .. N - 1
  BY <1>1, <1>2, <1>3
<1>8. rank \in Injection(S, 0 .. N - 1)
  BY <1>5, <1>7 DEF Injection, IsInjective
<1>9. IsFiniteSet(0 .. N - 1) /\ Cardinality(0 .. N - 1) = N
  <2>1. 0 \in Int /\ N - 1 \in Int
    BY <1>1
  <2>2. Cardinality(0 .. N - 1) = IF 0 > N - 1 THEN 0 ELSE (N - 1) - 0 + 1
    BY <2>1, FS_Interval
  <2> HIDE DEF N
  <2> QED
    BY <1>1, <2>1, <2>2, FS_Interval
<1>10. rank \in Surjection(S, 0 .. N - 1)
  BY <1>8, <1>9, FS_Injection
<1>11. \A k \in 0 .. N - 1 : \E x \in S : rank[x] = k
  BY <1>10 DEF Surjection
<1> QED
  BY <1>1, <1>5, <1>6, <1>7, <1>11

-----------------------------------------------------------------------------
(* Answers: in order of their scores.                                      *)
Down(s) == \A i, j \in DOMAIN s : i < j => s[i].score >= s[j].score
Hits    == Seq(Ai!Hit)

LEMMA CountsSame == \A S : Ai!Cardinality(S) = Cardinality(S)
BY Zenon DEF Ai!Cardinality, Cardinality

LEMMA HitScore == \A h \in Ai!Hit : h.score \in Nat
BY DEF Ai!Hit

(* Whoever comes first of two answers in the order of a list.              *)
LEMMA AheadOrder ==
    ASSUME NEW s \in Hits
    PROVE  /\ \A i \in DOMAIN s : Ai!Ahead(s, i) \subseteq DOMAIN s /\ i \notin Ai!Ahead(s, i)
           /\ \A i, j \in DOMAIN s : j \in Ai!Ahead(s, i) => Ai!Ahead(s, j) \subseteq Ai!Ahead(s, i)
           /\ \A i, j \in DOMAIN s : i # j => i \in Ai!Ahead(s, j) \/ j \in Ai!Ahead(s, i)
           /\ \A i, j \in DOMAIN s : j \in Ai!Ahead(s, i) => s[j].score >= s[i].score
<1>1. \A i \in DOMAIN s : i \in Nat /\ s[i].score \in Nat
  BY HitScore DEF Hits
<1>2. \A i, j \in DOMAIN s : j \in Ai!Ahead(s, i)
        <=> (s[j].score > s[i].score \/ (s[j].score = s[i].score /\ j < i))
  BY Zenon DEF Ai!Ahead
<1>3. \A i \in DOMAIN s : Ai!Ahead(s, i) \subseteq DOMAIN s
  BY DEF Ai!Ahead
<1>4. \A i, j, k \in DOMAIN s : j \in Ai!Ahead(s, i) /\ k \in Ai!Ahead(s, j) => k \in Ai!Ahead(s, i)
  BY <1>1, <1>2
<1>5. \A i, j \in DOMAIN s : i # j => i \in Ai!Ahead(s, j) \/ j \in Ai!Ahead(s, i)
  <2> SUFFICES ASSUME NEW i \in DOMAIN s, NEW j \in DOMAIN s, i # j
               PROVE  i \in Ai!Ahead(s, j) \/ j \in Ai!Ahead(s, i)
    OBVIOUS
  <2>1. i \in Nat /\ j \in Nat /\ s[i].score \in Nat /\ s[j].score \in Nat
    BY <1>1
  <2>2. \A a, b \in Nat : a > b \/ b > a \/ a = b
    OBVIOUS
  <2>3. i < j \/ j < i
    BY <2>1
  <2>4. s[j].score > s[i].score \/ s[i].score > s[j].score \/ s[j].score = s[i].score
    BY <2>1, <2>2, Zenon
  <2> QED
    BY <1>2, <2>3, <2>4, Zenon
<1>6. \A i \in DOMAIN s : i \notin Ai!Ahead(s, i)
  BY <1>1, <1>2
<1>7. \A i, j \in DOMAIN s : j \in Ai!Ahead(s, i) => s[j].score >= s[i].score
  BY <1>1, <1>2
<1> QED
  BY <1>3, <1>4, <1>5, <1>6, <1>7

(* Sorting keeps every answer and puts them in order.                      *)
LEMMA SortFacts ==
    ASSUME NEW s \in Hits
    PROVE  /\ Ai!Sorted[s] \in Hits /\ Len(Ai!Sorted[s]) = Len(s)
           /\ Down(Ai!Sorted[s])
           /\ \A i \in DOMAIN s : \E k \in DOMAIN Ai!Sorted[s] : Ai!Sorted[s][k] = s[i]
<1> DEFINE n == Len(s)
           B == [i \in 1 .. n |-> Ai!Ahead(s, i)]
           at(k) == CHOOSE i \in 1 .. n : Cardinality(B[i]) = k - 1
           r == [k \in 1 .. n |-> s[at(k)]]
<1>1. n \in Nat /\ DOMAIN s = 1 .. n /\ s \in Seq(Ai!Hit) /\ \A i \in 1 .. n : s[i] \in Ai!Hit
  BY DEF Hits
<1>2. Ai!Sorted[s] = [k \in 1 .. Len(s) |-> s[CHOOSE i \in DOMAIN s : Ai!Cardinality(Ai!Ahead(s, i)) = k - 1]]
  BY <1>1 DEF Ai!Sorted
<1>3. Ai!Sorted[s] = r
  BY <1>1, <1>2, CountsSame, Zenon
<1> HIDE DEF n
<1>4. IsFiniteSet(1 .. n) /\ Cardinality(1 .. n) = n
  BY <1>1, FS_Interval
<1>5. /\ B \in [1 .. n -> SUBSET (1 .. n)]
      /\ \A x \in 1 .. n : x \notin B[x]
      /\ \A x, y \in 1 .. n : y \in B[x] => B[y] \subseteq B[x]
      /\ \A x, y \in 1 .. n : x # y => x \in B[y] \/ y \in B[x]
      /\ \A x, y \in 1 .. n : y \in B[x] => s[y].score >= s[x].score
  BY <1>1, AheadOrder
<1> HIDE DEF B
<1>6. /\ \A x \in 1 .. n : Cardinality(B[x]) \in 0 .. n - 1
      /\ \A x, y \in 1 .. n : Cardinality(B[x]) = Cardinality(B[y]) => x = y
      /\ \A x, y \in 1 .. n : Cardinality(B[x]) < Cardinality(B[y]) => x \in B[y]
      /\ \A k \in 0 .. n - 1 : \E x \in 1 .. n : Cardinality(B[x]) = k
  BY <1>4, <1>5, Ranks
<1>7. \A k \in 1 .. n : at(k) \in 1 .. n /\ Cardinality(B[at(k)]) = k - 1
  <2> SUFFICES ASSUME NEW k \in 1 .. n
               PROVE  at(k) \in 1 .. n /\ Cardinality(B[at(k)]) = k - 1
    OBVIOUS
  <2>1. k - 1 \in 0 .. n - 1
    BY <1>1
  <2>2. \E x \in 1 .. n : Cardinality(B[x]) = k - 1
    BY <1>6, <2>1
  <2> QED
    BY <2>2, Zenon
<1> HIDE DEF at
<1>8. r \in Seq(Ai!Hit) /\ Len(r) = n /\ DOMAIN r = 1 .. n
  BY <1>1, <1>7
<1>9. \A i, j \in 1 .. n : i < j => r[i].score >= r[j].score
  <2> SUFFICES ASSUME NEW i \in 1 .. n, NEW j \in 1 .. n, i < j
               PROVE  r[i].score >= r[j].score
    OBVIOUS
  <2>1. Cardinality(B[at(i)]) = i - 1 /\ Cardinality(B[at(j)]) = j - 1
        /\ at(i) \in 1 .. n /\ at(j) \in 1 .. n
    BY <1>7
  <2>2. Cardinality(B[at(i)]) < Cardinality(B[at(j)])
    BY <2>1
  <2>3. at(i) \in B[at(j)]
    BY <1>6, <2>1, <2>2
  <2>4. s[at(i)].score >= s[at(j)].score
    BY <1>5, <2>1, <2>3
  <2> QED
    BY <2>4
<1>10. \A i \in 1 .. n : \E k \in 1 .. n : r[k] = s[i]
  <2> SUFFICES ASSUME NEW i \in 1 .. n PROVE \E k \in 1 .. n : r[k] = s[i]
    OBVIOUS
  <2> DEFINE k == Cardinality(B[i]) + 1
  <2>1. Cardinality(B[i]) \in 0 .. n - 1
    BY <1>6
  <2>2. k \in 1 .. n /\ k - 1 = Cardinality(B[i])
    BY <1>1, <2>1
  <2>3. Cardinality(B[at(k)]) = Cardinality(B[i]) /\ at(k) \in 1 .. n
    BY <1>7, <2>2
  <2>4. at(k) = i
    BY <1>6, <2>3
  <2> HIDE DEF k
  <2> QED
    BY <2>2, <2>4
<1> HIDE DEF r
<1>11. Len(r) = Len(s)
  BY <1>8 DEF n
<1>12. \A i \in DOMAIN s : \E k \in DOMAIN r : r[k] = s[i]
  BY <1>1, <1>8, <1>10
<1> QED
  BY <1>3, <1>8, <1>9, <1>11, <1>12 DEF Down, Hits

(* The first n of a list.                                                  *)
LEMMA TakeFacts ==
    ASSUME NEW s \in Hits, NEW n \in Nat
    PROVE  /\ Ai!Take(s, n) \in Hits /\ Len(Ai!Take(s, n)) <= n
           /\ Len(Ai!Take(s, n)) <= Len(s)
           /\ Down(s) => Down(Ai!Take(s, n))
           /\ Len(s) <= n => Ai!Take(s, n) = s
<1> DEFINE m == IF n < Len(s) THEN n ELSE Len(s)
           t == SubSeq(s, 1, m)
<1>1. s \in Seq(Ai!Hit) /\ Len(s) \in Nat /\ DOMAIN s = 1 .. Len(s)
  BY DEF Hits
<1>2. m \in 0 .. Len(s) /\ m <= n
  BY <1>1
<1>3. Ai!Take(s, n) = t
  BY DEF Ai!Take
<1> HIDE DEF m
<1>4. t \in Seq(Ai!Hit) /\ Len(t) = m /\ \A i \in 1 .. m : t[i] = s[i]
  BY <1>1, <1>2
<1>5. DOMAIN t = 1 .. m
  BY <1>4
<1> HIDE DEF t
<1>6. ASSUME Down(s) PROVE Down(t)
  BY <1>1, <1>2, <1>4, <1>5, <1>6 DEF Down
<1>7. ASSUME Len(s) <= n PROVE t = s
  <2>0. ~(n < Len(s))
    BY <1>1, <1>7
  <2>1. m = Len(s)
    BY <2>0 DEF m
  <2>2. Len(t) = Len(s) /\ \A i \in 1 .. Len(s) : t[i] = s[i]
    BY <1>4, <2>1
  <2> QED
    BY <1>1, <1>4, <2>2
<1> QED
  BY <1>1, <1>2, <1>3, <1>4, <1>6, <1>7 DEF Hits

-----------------------------------------------------------------------------
(* The trie: what it holds has a place in the order of texts.              *)
TrieOk(t) ==
    /\ IsFiniteSet(DOMAIN t)
    /\ \A x \in DOMAIN t : /\ [text |-> x, ord |-> t[x].ord] \in Named
                           /\ t[x].score \in Nat

LEMMA NamedTexts == \A e \in Named : e.text \in DOMAIN Ai!Builtins \cup {l.text : l \in Learnable}
BY DEF Named

LEMMA TrieOrder ==
    ASSUME NEW t, TrieOk(t)
    PROVE  /\ \A x \in DOMAIN t : t[x].ord \in Int /\ t[x].score \in Nat
                /\ [text |-> x, score |-> t[x].score, source |-> "Trie"] \in Ai!Hit
           /\ \A x, y \in DOMAIN t : t[x].ord = t[y].ord => x = y
<1>1. \A x \in DOMAIN t : t[x].score \in Nat /\ [text |-> x, ord |-> t[x].ord] \in Named
  BY DEF TrieOk
<1>2. \A x \in DOMAIN t : [text |-> x, ord |-> t[x].ord].text = x /\ [text |-> x, ord |-> t[x].ord].ord = t[x].ord
  OBVIOUS
<1>3. \A x \in DOMAIN t : t[x].ord \in Int
  BY <1>1, <1>2, EngineAssumption
<1>4. \A x \in DOMAIN t : x \in DOMAIN Ai!Builtins \cup {l.text : l \in Learnable}
  BY <1>1, <1>2, NamedTexts
<1>5. \A x, y \in DOMAIN t : t[x].ord = t[y].ord => x = y
  BY <1>1, <1>2, EngineAssumption
<1>6. \A x \in DOMAIN t : [text |-> x, score |-> t[x].score, source |-> "Trie"] \in Ai!Hit
  BY <1>1, <1>4 DEF Ai!Hit
<1> QED
  BY <1>1, <1>3, <1>5, <1>6

(* What the trie answers is in order and not too much.                     *)
Answer(t, S) ==
    [i \in 1 .. Cardinality(S) |->
        [text |-> Ai!Nth(t, S, i), score |-> t[Ai!Nth(t, S, i)].score, source |-> "Trie"]]

LEMMA AnswerDown ==
    ASSUME NEW t, TrieOk(t), NEW S, S \subseteq DOMAIN t
    PROVE  Answer(t, S) \in Hits /\ Down(Answer(t, S))
<1> DEFINE m == Cardinality(S)
           sc(x) == t[x].score
           od(x) == t[x].ord
           B == [x \in S |-> Ai!Better(t, S, x)]
           hit(x) == [text |-> x, score |-> t[x].score, source |-> "Trie"]
           at(i) == Ai!Nth(t, S, i)
           r == Answer(t, S)
<1>1. r = [i \in 1 .. m |-> hit(at(i))]
  BY Zenon DEF Answer
<1> HIDE DEF r
<1>2. IsFiniteSet(S) /\ m \in Nat
  BY FS_Subset, FS_CardinalityType DEF TrieOk
<1>3. \A x \in S : sc(x) \in Nat /\ od(x) \in Int /\ hit(x) \in Ai!Hit /\ hit(x).score = sc(x)
  BY TrieOrder
<1>4. \A x, y \in S : od(x) = od(y) => x = y
  BY TrieOrder
<1>5. B \in [S -> SUBSET S]
  BY DEF Ai!Better
<1>6. \A x, y \in S : y \in B[x] <=> (sc(y) > sc(x) \/ (sc(y) = sc(x) /\ od(y) < od(x)))
  BY DEF Ai!Better
<1>a. \A i : at(i) = CHOOSE x \in S : Ai!Cardinality(Ai!Better(t, S, x)) = i - 1
  BY Zenon DEF Ai!Nth
<1>b. \A x \in S : Ai!Cardinality(Ai!Better(t, S, x)) = Cardinality(B[x])
  BY CountsSame
<1> HIDE DEF sc, od, hit, B, at
<1>7. \A x \in S : x \notin B[x]
  BY <1>3, <1>6
<1>8. \A x, y \in S : y \in B[x] => B[y] \subseteq B[x]
  <2> SUFFICES ASSUME NEW x \in S, NEW y \in S, y \in B[x], NEW z \in B[y] PROVE z \in B[x]
    OBVIOUS
  <2>1. z \in S
    BY <1>5
  <2> QED
    BY <1>3, <1>6, <2>1
<1>9. \A x, y \in S : x # y => x \in B[y] \/ y \in B[x]
  <2> SUFFICES ASSUME NEW x \in S, NEW y \in S, x # y PROVE x \in B[y] \/ y \in B[x]
    OBVIOUS
  <2>1. od(x) # od(y) /\ od(x) \in Int /\ od(y) \in Int /\ sc(x) \in Nat /\ sc(y) \in Nat
    BY <1>3, <1>4
  <2> QED
    BY <1>6, <2>1
<1>10. /\ \A x, y \in S : Cardinality(B[x]) < Cardinality(B[y]) => x \in B[y]
       /\ \A k \in 0 .. m - 1 : \E x \in S : Cardinality(B[x]) = k
  BY <1>2, <1>5, <1>7, <1>8, <1>9, Ranks
<1> HIDE DEF m
<1>11. \A i \in 1 .. m : at(i) \in S /\ Cardinality(B[at(i)]) = i - 1
  <2> SUFFICES ASSUME NEW i \in 1 .. m PROVE at(i) \in S /\ Cardinality(B[at(i)]) = i - 1
    OBVIOUS
  <2>1. i - 1 \in 0 .. m - 1
    BY <1>2
  <2>2. \E x \in S : Cardinality(B[x]) = i - 1
    BY <1>10, <2>1
  <2>3. \E x \in S : Ai!Cardinality(Ai!Better(t, S, x)) = i - 1
    BY <1>b, <2>2
  <2>4. at(i) \in S /\ Ai!Cardinality(Ai!Better(t, S, at(i))) = i - 1
    BY <1>a, <2>3, Zenon
  <2> QED
    BY <1>b, <2>4
<1>12. \A i \in 1 .. m : r[i] = hit(at(i)) /\ r[i] \in Ai!Hit /\ r[i].score = sc(at(i))
  <2> SUFFICES ASSUME NEW i \in 1 .. m
               PROVE  r[i] = hit(at(i)) /\ r[i] \in Ai!Hit /\ r[i].score = sc(at(i))
    OBVIOUS
  <2>1. r[i] = hit(at(i))
    BY <1>1
  <2> QED
    BY <1>3, <1>11, <2>1
<1>13. r \in Seq(Ai!Hit) /\ DOMAIN r = 1 .. m
  <2>1. DOMAIN r = 1 .. m /\ r = [i \in 1 .. m |-> r[i]]
    BY <1>1
  <2>2. \A i \in 1 .. m : r[i] \in Ai!Hit
    BY <1>12
  <2>3. r \in [1 .. m -> Ai!Hit]
    BY <2>1, <2>2
  <2> QED
    BY <1>2, <2>3
<1>14. ASSUME NEW i \in 1 .. m, NEW j \in 1 .. m, i < j PROVE r[i].score >= r[j].score
  <2>1. Cardinality(B[at(i)]) < Cardinality(B[at(j)]) /\ at(i) \in S /\ at(j) \in S
    BY <1>2, <1>11, <1>14
  <2>2. at(i) \in B[at(j)]
    BY <1>10, <2>1
  <2>3. sc(at(i)) >= sc(at(j))
    BY <1>3, <1>6, <2>1, <2>2
  <2> QED
    BY <1>12, <2>3
<1>15. r \in Hits
  BY <1>13 DEF Hits
<1>16. Down(r)
  BY <1>13, <1>14 DEF Down
<1> QED
  BY <1>15, <1>16 DEF r

LEMMA TrieFacts ==
    ASSUME NEW t, TrieOk(t), NEW token, NEW n \in Nat
    PROVE  /\ Ai!TrieComplete(t, token, n) \in Hits
           /\ Len(Ai!TrieComplete(t, token, n)) <= n
           /\ Down(Ai!TrieComplete(t, token, n))
<1> DEFINE S == IF token = "" THEN {} ELSE Ai!Collected(t, token, n)
<1>1. Ai!Cardinality(S) = Cardinality(S)
  BY CountsSame
<1>2. Ai!TrieComplete(t, token, n) =
        Ai!Take([i \in 1 .. Ai!Cardinality(S) |->
           [text |-> Ai!Nth(t, S, i), score |-> t[Ai!Nth(t, S, i)].score, source |-> "Trie"]], n)
  BY Zenon DEF Ai!TrieComplete
<1>3. S \subseteq DOMAIN t
  BY DEF Ai!Collected
<1> HIDE DEF S
<1>4. Ai!TrieComplete(t, token, n) = Ai!Take(Answer(t, S), n)
  BY <1>1, <1>2, Zenon DEF Answer
<1>5. Answer(t, S) \in Hits /\ Down(Answer(t, S))
  BY <1>3, AnswerDown
<1> QED
  BY <1>4, <1>5, TakeFacts

(* Answers that are not looked for: rules and providers.                   *)
LEMMA FromFacts ==
    ASSUME NEW src \in {"Offline", "Online"}, NEW scores \in Seq(Nat), NEW n \in Nat
    PROVE  /\ Ai!From(src, scores, n) \in Hits /\ Len(Ai!From(src, scores, n)) <= n
           /\ Len(Ai!From(src, scores, n)) <= Len(scores)
           /\ (\A i, j \in DOMAIN scores : i < j => scores[i] >= scores[j])
                => Down(Ai!From(src, scores, n))
<1> DEFINE r == [i \in 1 .. Len(scores) |->
                    [text |-> src, score |-> scores[i], source |-> src]]
<1>1. Ai!From(src, scores, n) = Ai!Take(r, n)
  BY DEF Ai!From
<1>2. Len(scores) \in Nat /\ DOMAIN scores = 1 .. Len(scores)
      /\ \A i \in 1 .. Len(scores) : scores[i] \in Nat
  OBVIOUS
<1>3. \A i \in 1 .. Len(scores) : [text |-> src, score |-> scores[i], source |-> src] \in Ai!Hit
  BY <1>2 DEF Ai!Hit
<1>4. r \in [1 .. Len(scores) -> Ai!Hit] /\ \A i \in 1 .. Len(scores) : r[i].score = scores[i]
  BY <1>3
<1> HIDE DEF r
<1>5. r \in Seq(Ai!Hit) /\ Len(r) = Len(scores) /\ DOMAIN r = 1 .. Len(scores)
  BY <1>2, <1>4
<1>6. ASSUME \A i, j \in DOMAIN scores : i < j => scores[i] >= scores[j] PROVE Down(r)
  BY <1>2, <1>4, <1>5, <1>6 DEF Down
<1>7. r \in Hits
  BY <1>5 DEF Hits
<1> QED
  BY <1>1, <1>5, <1>6, <1>7, TakeFacts

LEMMA RuleFacts ==
    ASSUME NEW ends, NEW n \in Nat
    PROVE  /\ Ai!RuleComplete(ends, n) \in Hits /\ Len(Ai!RuleComplete(ends, n)) <= n
           /\ Ai!RuleNext(ends, n) \in Hits /\ Len(Ai!RuleNext(ends, n)) <= n
           /\ Down(Ai!RuleNext(ends, n))
<1> DEFINE c == CASE ends = "fn"  -> <<70, 65>>
                  [] ends = "Vec" -> <<90, 85, 70>>
                  [] ends = "for" -> <<72, 68>>
                  [] ends = "if"  -> <<75, 65>>
                  [] OTHER        -> <<>>
           x == CASE ends = "fn"  -> <<40, 35, 25>>
                  [] ends = "for" -> <<45, 40, 15>>
                  [] ends = "if"  -> <<50, 30, 20>>
                  [] OTHER        -> <<35, 25, 25, 15>>
<1>1. Ai!RuleComplete(ends, n) = Ai!From("Offline", c, n)
  BY DEF Ai!RuleComplete
<1>2. Ai!RuleNext(ends, n) = Ai!From("Offline", x, n)
  BY DEF Ai!RuleNext
<1>3. c \in Seq(Nat)
  <2>1. <<70, 65>> \in Seq(Nat) /\ <<90, 85, 70>> \in Seq(Nat) /\ <<72, 68>> \in Seq(Nat)
        /\ <<75, 65>> \in Seq(Nat) /\ << >> \in Seq(Nat)
    OBVIOUS
  <2> QED
    BY <2>1, Zenon
<1>4. \A i, j \in DOMAIN x : i < j => x[i] >= x[j]
  <2>1. \A s : s = <<40, 35, 25>> => \A i, j \in DOMAIN s : i < j => s[i] >= s[j]
    OBVIOUS
  <2>2. \A s : s = <<45, 40, 15>> => \A i, j \in DOMAIN s : i < j => s[i] >= s[j]
    OBVIOUS
  <2>3. \A s : s = <<50, 30, 20>> => \A i, j \in DOMAIN s : i < j => s[i] >= s[j]
    OBVIOUS
  <2>4. \A s : s = <<35, 25, 25, 15>> => \A i, j \in DOMAIN s : i < j => s[i] >= s[j]
    OBVIOUS
  <2>5. \/ x = <<40, 35, 25>> \/ x = <<45, 40, 15>> \/ x = <<50, 30, 20>>
        \/ x = <<35, 25, 25, 15>>
    BY Zenon
  <2> HIDE DEF x
  <2> QED
    BY <2>1, <2>2, <2>3, <2>4, <2>5, Zenon
<1>5. x \in Seq(Nat)
  <2>1. <<40, 35, 25>> \in Seq(Nat) /\ <<45, 40, 15>> \in Seq(Nat) /\ <<50, 30, 20>> \in Seq(Nat)
        /\ <<35, 25, 25, 15>> \in Seq(Nat)
    OBVIOUS
  <2> QED
    BY <2>1, Zenon
<1> HIDE DEF c, x
<1> QED
  BY <1>1, <1>2, <1>3, <1>4, <1>5, FromFacts

LEMMA RemoteFacts == Ai!RemoteAnswer \in Hits /\ Len(Ai!RemoteAnswer) <= 1
<1>1. <<92>> \in Seq(Nat)
  OBVIOUS
<1> QED
  BY <1>1, FromFacts DEF Ai!RemoteAnswer

(* What an answer must be, with the hits it started from.                  *)
Whole(res, hits, n) ==
    /\ Len(res) <= n /\ Down(res)
    /\ Range(hits) \subseteq Range(res)

LEMMA MergeFacts ==
    ASSUME NEW hits \in Hits, NEW more \in Hits, NEW n \in Nat,
           hits = <<>> \/ Len(hits) + Len(more) <= n
    PROVE  Whole(Ai!Take(Ai!Sorted[hits \o more], n), hits, n)
<1> DEFINE s == hits \o more
<1>1. /\ hits \in Seq(Ai!Hit) /\ more \in Seq(Ai!Hit) /\ Len(hits) \in Nat /\ Len(more) \in Nat
      /\ DOMAIN hits = 1 .. Len(hits)
  BY DEF Hits
<1>2. s \in Seq(Ai!Hit) /\ Len(s) = Len(hits) + Len(more) /\ DOMAIN s = 1 .. Len(s)
      /\ \A i \in 1 .. Len(hits) : s[i] = hits[i]
  BY <1>1
<1>3. s \in Hits
  BY <1>2 DEF Hits
<1> HIDE DEF s
<1> DEFINE d == Ai!Sorted[s]
<1>4. d \in Hits /\ Len(d) = Len(s) /\ Down(d)
      /\ \A i \in DOMAIN s : \E k \in DOMAIN d : d[k] = s[i]
  BY <1>3, SortFacts
<1> HIDE DEF d
<1>5. /\ Len(Ai!Take(d, n)) <= n /\ Down(Ai!Take(d, n))
      /\ Len(d) <= n => Ai!Take(d, n) = d
  BY <1>4, TakeFacts
<1>6. ASSUME hits # <<>> PROVE Range(hits) \subseteq Range(Ai!Take(d, n))
  <2>1. Ai!Take(d, n) = d
    BY <1>1, <1>2, <1>4, <1>5, <1>6
  <2>2. \A i \in DOMAIN hits : \E k \in DOMAIN d : d[k] = hits[i]
    <3> SUFFICES ASSUME NEW i \in DOMAIN hits PROVE \E k \in DOMAIN d : d[k] = hits[i]
      OBVIOUS
    <3>1. i \in DOMAIN s /\ s[i] = hits[i]
      BY <1>1, <1>2
    <3> QED
      BY <1>4, <3>1
  <2> QED
    BY <2>1, <2>2, Zenon DEF Range
<1>7. ASSUME hits = <<>> PROVE Range(hits) = {}
  BY <1>7 DEF Range
<1> QED
  BY <1>5, <1>6, <1>7, Zenon DEF Whole, d, s

-----------------------------------------------------------------------------
(* The completion engine: its inductive invariant.  A breaker may be       *)
(* charged by every call that was sent before it opened, so what it has    *)
(* counted is bounded together with what it is still owed.                 *)

-----------------------------------------------------------------------------
(* A call, while it is under way and when it is answered.                  *)
Answered(k, ld) ==
    k.req.op # "correct" =>
        /\ ~ld => k.ans.ok
        /\ k.ans.ok => Whole(k.ans.res, k.hits, k.req.n)

Underway(k, ld) ==
    /\ k.pc \in {"ask", "sent", "offline", "infer"}
    /\ k = [pc |-> k.pc, req |-> k.req, hits |-> k.hits, prov |-> k.prov]
    /\ k.req.op \in {"complete", "next", "correct"} /\ k.req.n \in Nat
    /\ k.hits \in Hits /\ Down(k.hits)
    /\ k.hits = <<>> \/ (k.req.op = "complete" /\ Len(k.hits) < k.req.n)
    /\ k.prov \in Nat \ {0}
    /\ k.pc = "sent" => k.prov <= Len(Providers)
    /\ k.pc \in {"ask", "sent"} => k.req.op # "next"
    /\ k.pc = "infer" => ld

CallOk(k, ld) == \/ k.pc = "idle"
                 \/ Underway(k, ld)
                 \/ k.pc = "done" /\ Answered(k, ld)

(* The calls a provider still owes an answer, and its breaker: what it has *)
(* counted and what it may still be charged with stay below the bound.     *)
Sent(cl, p) == {c \in Clients : cl[c].pc = "sent" /\ Providers[cl[c].prov] = p}
BreakerOk(b, owed) ==
    /\ b = [failures |-> b.failures, until |-> b.until]
    /\ b.failures \in Nat /\ b.until \in {"none", "ahead", "past"}
    /\ b.until = "none" => b.failures < Limit
    /\ b.failures + owed <= Limit - 1 + Cardinality(Clients)
BreakersOk(br, cl) ==
    /\ br = [p \in Range(Providers) |-> br[p]]
    /\ \A p \in Range(Providers) : BreakerOk(br[p], Cardinality(Sent(cl, p)))
CallsOk(cl, ld) ==
    /\ cl = [c \in Clients |-> cl[c]]
    /\ \A c \in Clients : CallOk(cl[c], ld)

AiInv == TrieOk(trie) /\ BreakersOk(breaker, call) /\ CallsOk(call, loaded)

LEMMA SentType ==
    ASSUME NEW cl, NEW p
    PROVE  /\ IsFiniteSet(Sent(cl, p)) /\ Cardinality(Sent(cl, p)) \in Nat
           /\ Cardinality(Clients) \in Nat
           /\ Cardinality(Sent(cl, p)) <= Cardinality(Clients)
           /\ \A c \in Clients : c \notin Sent(cl, p) =>
                 Cardinality(Sent(cl, p)) + 1 <= Cardinality(Clients)
<1>1. IsFiniteSet(Clients) /\ Sent(cl, p) \in SUBSET Clients
  BY EngineAssumption DEF Sent
<1> HIDE DEF Sent
<1>2. /\ IsFiniteSet(Sent(cl, p)) /\ Cardinality(Sent(cl, p)) \in Nat
      /\ Cardinality(Clients) \in Nat
      /\ Cardinality(Sent(cl, p)) <= Cardinality(Clients)
      /\ Cardinality(Clients) = Cardinality(Sent(cl, p)) => Clients = Sent(cl, p)
  BY <1>1, FS_Subset, FS_CardinalityType
<1> QED
  BY <1>2

(* A call that moves: who owes what afterwards.                            *)
LEMMA SentMoves ==
    ASSUME NEW cl, NEW c \in Clients, NEW k, cl = [d \in Clients |-> cl[d]],
           NEW cm, cm = [cl EXCEPT ![c] = k], NEW p
    PROVE  /\ cm = [d \in Clients |-> cm[d]] /\ cm[c] = k
           /\ \A d \in Clients : d # c => cm[d] = cl[d]
           /\ (k.pc # "sent" \/ Providers[k.prov] # p) => Sent(cm, p) = Sent(cl, p) \ {c}
           /\ (k.pc = "sent" /\ Providers[k.prov] = p) => Sent(cm, p) = Sent(cl, p) \cup {c}
<1>1. /\ cm = [d \in Clients |-> cm[d]] /\ cm[c] = k
      /\ \A d \in Clients : d # c => cm[d] = cl[d]
  OBVIOUS
<1> QED
  BY <1>1 DEF Sent

(* A call that was not sent and is not: nobody owes more or less.          *)
LEMMA SentStays ==
    ASSUME NEW cl, NEW c \in Clients, NEW k, cl = [d \in Clients |-> cl[d]],
           cl[c].pc # "sent", k.pc # "sent", NEW p
    PROVE  Sent([cl EXCEPT ![c] = k], p) = Sent(cl, p)
<1>1. c \notin Sent(cl, p)
  BY DEF Sent
<1> QED
  BY <1>1, SentMoves

LEMMA AiMove ==
    ASSUME AiInv, NEW c \in Clients, NEW k, CallOk(k, loaded), call' = [call EXCEPT ![c] = k],
           trie' = trie, loaded' = loaded, BreakersOk(breaker', call')
    PROVE  AiInv'
<1>1. call = [d \in Clients |-> call[d]] /\ \A d \in Clients : CallOk(call[d], loaded)
  BY Zenon DEF AiInv, CallsOk
<1>2. /\ call' = [d \in Clients |-> call'[d]] /\ call'[c] = k
      /\ \A d \in Clients : d # c => call'[d] = call[d]
  BY <1>1, SentMoves
<1>3. \A d \in Clients : CallOk(call'[d], loaded)
  BY <1>1, <1>2, Zenon
<1>4. CallsOk(call', loaded)
  BY <1>2, <1>3, Zenon DEF CallsOk
<1> QED
  BY <1>4, Zenon DEF AiInv

LEMMA AiQuiet ==
    ASSUME AiInv, NEW c \in Clients, NEW k, CallOk(k, loaded), call' = [call EXCEPT ![c] = k],
           trie' = trie, loaded' = loaded, breaker' = breaker,
           call[c].pc # "sent", k.pc # "sent"
    PROVE  AiInv'
<1>1. call = [d \in Clients |-> call[d]] /\ BreakersOk(breaker, call)
  BY Zenon DEF AiInv, CallsOk
<1>2. \A p : Sent(call', p) = Sent(call, p)
  BY <1>1, SentStays
<1>3. BreakersOk(breaker', call')
  BY <1>1, <1>2, Zenon DEF BreakersOk
<1> QED
  BY <1>3, AiMove

LEMMA BreakersPut ==
    ASSUME AiInv, NEW p \in Range(Providers), NEW b, NEW cm, BreakerOk(b, Cardinality(Sent(cm, p))),
           \A q \in Range(Providers) : q # p => Cardinality(Sent(cm, q)) <= Cardinality(Sent(call, q))
    PROVE  BreakersOk([breaker EXCEPT ![p] = b], cm)
<1> DEFINE bm == [breaker EXCEPT ![p] = b]
<1>1. /\ breaker = [q \in Range(Providers) |-> breaker[q]]
      /\ \A q \in Range(Providers) : BreakerOk(breaker[q], Cardinality(Sent(call, q)))
  BY Zenon DEF AiInv, BreakersOk
<1>2. /\ bm = [q \in Range(Providers) |-> bm[q]] /\ bm[p] = b
      /\ \A q \in Range(Providers) : q # p => bm[q] = breaker[q]
  BY <1>1
<1>3. ASSUME NEW q \in Range(Providers), q # p PROVE BreakerOk(breaker[q], Cardinality(Sent(cm, q)))
  <2> DEFINE x == breaker[q]
  <2>1. BreakerOk(x, Cardinality(Sent(call, q)))
    BY <1>1, <1>3
  <2>2. Cardinality(Sent(cm, q)) <= Cardinality(Sent(call, q))
        /\ Cardinality(Sent(cm, q)) \in Nat /\ Cardinality(Sent(call, q)) \in Nat
        /\ Cardinality(Clients) \in Nat /\ Limit \in Nat
    BY <1>3, SentType, EngineAssumption
  <2> HIDE DEF x
  <2>3. x.failures \in Nat
    BY <2>1 DEF BreakerOk
  <2>4. x.failures + Cardinality(Sent(cm, q)) <= Limit - 1 + Cardinality(Clients)
    BY <2>1, <2>2, <2>3 DEF BreakerOk
  <2> QED
    BY <2>1, <2>4, Zenon DEF BreakerOk, x
<1> HIDE DEF bm
<1>4. \A q \in Range(Providers) : BreakerOk(bm[q], Cardinality(Sent(cm, q)))
  BY <1>2, <1>3, Zenon
<1> QED
  BY <1>2, <1>4, Zenon DEF BreakersOk, bm

Moving(x, r, h, n) == [pc |-> x, req |-> r, hits |-> h, prov |-> n]

LEMMA Moved ==
    ASSUME NEW k, k = Moving(k.pc, k.req, k.hits, k.prov), NEW x
    PROVE  /\ [k EXCEPT !.pc = x] = Moving(x, k.req, k.hits, k.prov)
           /\ [k EXCEPT !.prov = @ + 1] = Moving(k.pc, k.req, k.hits, k.prov + 1)
           /\ [k EXCEPT !.pc = x, !.prov = @ + 1] = Moving(x, k.req, k.hits, k.prov + 1)
<1>1. /\ [k EXCEPT !.pc = x] = Moving(x, k.req, k.hits, k.prov)
      /\ [k EXCEPT !.prov = @ + 1] = Moving(k.pc, k.req, k.hits, k.prov + 1)
  BY DEF Moving
<1>2. [k EXCEPT !.pc = x, !.prov = @ + 1] = [[k EXCEPT !.pc = x] EXCEPT !.prov = @ + 1]
  BY DEF Moving
<1>3. [Moving(x, k.req, k.hits, k.prov) EXCEPT !.prov = @ + 1] = Moving(x, k.req, k.hits, k.prov + 1)
  BY DEF Moving
<1> QED
  BY <1>1, <1>2, <1>3

LEMMA MovingFields ==
    ASSUME NEW x, NEW r, NEW h, NEW n
    PROVE  /\ Moving(x, r, h, n).pc = x /\ Moving(x, r, h, n).req = r
           /\ Moving(x, r, h, n).hits = h /\ Moving(x, r, h, n).prov = n
BY DEF Moving

(* A call that goes on keeps what it is about.                             *)
LEMMA UnderwayStays ==
    ASSUME NEW k, NEW ld, Underway(k, ld), NEW x \in {"ask", "sent", "offline", "infer"},
           NEW n \in Nat \ {0},
           x = "sent" => n <= Len(Providers),
           x \in {"ask", "sent"} => k.req.op # "next",
           x = "infer" => ld
    PROVE  Underway(Moving(x, k.req, k.hits, n), ld)
BY MovingFields, Zenon DEF Underway, Moving

LEMMA CallKinds ==
    ASSUME AiInv, NEW c \in Clients, call[c].pc \in {"ask", "sent", "offline", "infer"}
    PROVE  /\ Underway(call[c], loaded)
           /\ call[c] = Moving(call[c].pc, call[c].req, call[c].hits, call[c].prov)
           /\ call = [d \in Clients |-> call[d]]
<1>1. call = [d \in Clients |-> call[d]] /\ CallOk(call[c], loaded)
  BY Zenon DEF AiInv, CallsOk
<1>2. call[c].pc # "idle" /\ call[c].pc # "done"
  OBVIOUS
<1>3. Underway(call[c], loaded)
  BY <1>1, <1>2, Zenon DEF CallOk
<1> QED
  BY <1>1, <1>3, Zenon DEF Underway, Moving

(* The client's call ends with an answer.                                  *)
Done(r, h, a) == [pc |-> "done", req |-> r, hits |-> h, ans |-> a]

LEMMA DoneOk ==
    ASSUME NEW r, NEW h, NEW a, NEW ld,
           r.op # "correct" => (~ld => a.ok) /\ (a.ok => Whole(a.res, h, r.n))
    PROVE  CallOk(Done(r, h, a), ld) /\ Done(r, h, a).pc = "done"
<1> DEFINE k == Done(r, h, a)
<1>1. k.pc = "done" /\ k.req = r /\ k.hits = h /\ k.ans = a
  BY DEF Done
<1> HIDE DEF k
<1>2. Answered(k, ld)
  BY <1>1, Zenon DEF Answered
<1> QED
  BY <1>1, <1>2, Zenon DEF CallOk, k

LEMMA OkFields == \A res : Ai!Ok(res).ok = TRUE /\ Ai!Ok(res).res = res
BY DEF Ai!Ok

LEMMA ErrFields == Ai!Err.ok = FALSE
BY DEF Ai!Err

(* Nothing is lost of hits that are the answer.                            *)
LEMMA HitsWhole ==
    ASSUME NEW k, NEW ld, Underway(k, ld)
    PROVE  Whole(k.hits, k.hits, k.req.n)
<1>1. /\ k.hits = <<>> \/ Len(k.hits) < k.req.n
      /\ k.req.n \in Nat /\ k.hits \in Hits /\ Down(k.hits)
  BY Zenon DEF Underway
<1>2. Len(k.hits) \in Nat /\ (k.hits = <<>> => Len(k.hits) = 0)
  BY <1>1 DEF Hits
<1>3. Len(k.hits) <= k.req.n
  BY <1>1, <1>2
<1> QED
  BY <1>1, <1>3, Zenon DEF Whole

LEMMA GiveUpStep == ASSUME AiInv, NEW c \in Clients, Ai!GiveUp(c) PROVE AiInv'
<1> DEFINE k == call[c]
<1>1. /\ k.pc = "ask" /\ UNCHANGED <<config, loaded, trie, onlineOk, breaker>>
      /\ IF k.req.op = "correct" \/ config.offline_fallback
         THEN Ai!QueueOffline(c, k) ELSE Ai!Finish(c, Ai!Ok(k.hits))
  BY Zenon DEF Ai!GiveUp
<1>2. Underway(k, loaded) /\ k = Moving(k.pc, k.req, k.hits, k.prov) /\ k.prov \in Nat \ {0}
  BY <1>1, CallKinds, Zenon DEF Underway
<1>3. CASE Ai!QueueOffline(c, k)
  <2> DEFINE m == Moving("offline", k.req, k.hits, k.prov)
  <2>1. call' = [call EXCEPT ![c] = [k EXCEPT !.pc = "offline"]]
    BY <1>3, Zenon DEF Ai!QueueOffline
  <2> HIDE DEF k
  <2>2. call' = [call EXCEPT ![c] = m]
    BY <1>2, <2>1, Moved, Zenon
  <2>3. Underway(m, loaded) /\ m.pc = "offline"
    BY <1>2, UnderwayStays, MovingFields
  <2>4. CallOk(m, loaded) /\ m.pc # "sent"
    BY <2>3 DEF CallOk
  <2>5. call[c].pc # "sent"
    BY <1>1 DEF k
  <2> HIDE DEF m
  <2> QED
    BY <1>1, <2>2, <2>4, <2>5, AiQuiet
<1>4. CASE k.req.op # "correct" /\ Ai!Finish(c, Ai!Ok(k.hits))
  <2> DEFINE m == Done(k.req, k.hits, Ai!Ok(k.hits))
  <2>1. call' = [call EXCEPT ![c] = m]
    BY <1>4, Zenon DEF Ai!Finish, Done
  <2> HIDE DEF k
  <2>a. Ai!Ok(k.hits).ok /\ Whole(Ai!Ok(k.hits).res, k.hits, k.req.n)
    BY <1>2, HitsWhole, OkFields, Zenon
  <2>2. CallOk(m, loaded) /\ m.pc = "done"
    BY <2>a, DoneOk, Zenon
  <2>3. call[c].pc # "sent" /\ m.pc # "sent"
    BY <1>1, <2>2 DEF k
  <2> HIDE DEF m
  <2> QED
    BY <1>1, <2>1, <2>2, <2>3, AiQuiet
<1> QED
  BY <1>1, <1>3, <1>4, Zenon

LEMMA InferStep == ASSUME AiInv, NEW c \in Clients, Ai!Infer(c) PROVE AiInv'
<1> DEFINE k == call[c]
           m == Moving("infer", k.req, k.hits, k.prov)
<1>1. /\ k.pc = "offline" /\ loaded /\ UNCHANGED <<config, loaded, trie, onlineOk, breaker, offq>>
      /\ call' = [call EXCEPT ![c] = [k EXCEPT !.pc = "infer"]]
  BY DEF Ai!Infer
<1>2. Underway(k, loaded) /\ k = Moving(k.pc, k.req, k.hits, k.prov) /\ k.prov \in Nat \ {0}
  BY <1>1, CallKinds, Zenon DEF Underway
<1>3. call[c].pc # "sent"
  BY <1>1
<1> HIDE DEF k
<1>4. call' = [call EXCEPT ![c] = m]
  BY <1>1, <1>2, Moved, Zenon
<1>5. Underway(m, loaded) /\ m.pc = "infer"
  <2>1. \A ld : ld /\ Underway(k, ld) => Underway(m, ld)
    BY MovingFields, Zenon DEF Underway, Moving
  <2>2. m.pc = "infer"
    BY MovingFields
  <2>3. loaded /\ Underway(k, loaded)
    BY <1>1, <1>2
  <2> HIDE DEF m
  <2> QED
    BY <2>1, <2>2, <2>3, Zenon
<1>6. CallOk(m, loaded) /\ m.pc # "sent"
  BY <1>5 DEF CallOk
<1> HIDE DEF m
<1> QED
  BY <1>1, <1>3, <1>4, <1>6, AiQuiet

(* The local model, or its rules, have the last word.                      *)
LEMMA InferredStep == ASSUME AiInv, NEW c \in Clients, Ai!Inferred(c) PROVE AiInv'
<1> DEFINE k == call[c]
           a == IF k.req.op = "next" THEN Ai!Ok(<<>>) ELSE Ai!Err
           m == Done(k.req, k.hits, a)
<1>1. /\ k.pc = "infer" /\ UNCHANGED <<config, loaded, trie, onlineOk, breaker>>
      /\ call' = [call EXCEPT ![c] = m]
  BY Zenon DEF Ai!Inferred, Ai!Leave, Done
<1>2. Underway(k, loaded)
  BY <1>1, CallKinds, Zenon
<1>3. call[c].pc # "sent"
  BY <1>1
<1>4. loaded /\ (k.req.op = "next" => k.hits = <<>>) /\ k.req.n \in Nat
  BY <1>1, <1>2 DEF Underway
<1>5. ASSUME k.req.op = "next" PROVE Whole(<<>>, k.hits, k.req.n)
  <2>1. k.hits = <<>> /\ k.req.n \in Nat
    BY <1>4, <1>5
  <2> HIDE DEF k
  <2>2. Len(<<>>) <= k.req.n /\ Down(<<>>)
    BY <2>1 DEF Down
  <2> QED
    BY <2>1, <2>2, Zenon DEF Whole
<1>6. a.ok => Whole(a.res, k.hits, k.req.n)
  <2>1. CASE k.req.op = "next"
    BY <1>5, <2>1, OkFields, Zenon
  <2>2. CASE k.req.op # "next"
    BY <2>2, ErrFields, Zenon
  <2> QED
    BY <2>1, <2>2
<1> HIDE DEF k, a
<1>7. CallOk(m, loaded) /\ m.pc = "done"
  BY <1>4, <1>6, DoneOk, Zenon
<1>8. m.pc # "sent"
  BY <1>7
<1> HIDE DEF m
<1> QED
  BY <1>1, <1>3, <1>7, <1>8, AiQuiet

LEMMA RulesStep == ASSUME AiInv, NEW c \in Clients, Ai!OfflineRules(c) PROVE AiInv'
<1> DEFINE k == call[c]
           a == Ai!OfflineAnswer(c)
           m == Done(k.req, k.hits, a)
<1>1. /\ k.pc = "offline" /\ UNCHANGED <<config, loaded, trie, onlineOk, breaker>>
      /\ call' = [call EXCEPT ![c] = m]
  BY Zenon DEF Ai!OfflineRules, Ai!Leave, Done
<1>2. Underway(k, loaded)
  BY <1>1, CallKinds, Zenon
<1>3. call[c].pc # "sent"
  BY <1>1
<1>4. /\ k.req.n \in Nat /\ k.hits \in Hits /\ k.req.op \in {"complete", "next", "correct"}
      /\ k.hits = <<>> \/ (k.req.op = "complete" /\ Len(k.hits) < k.req.n)
      /\ Len(k.hits) \in Nat
  BY <1>2 DEF Underway, Hits
<1>5. ASSUME k.req.op = "complete" PROVE a.ok /\ Whole(a.res, k.hits, k.req.n)
  <2> DEFINE rem == Ai!Remaining(c)
             more == Ai!RuleComplete(k.req.ends, rem)
             res == Ai!Take(Ai!Sorted[k.hits \o more], k.req.n)
  <2>1. a = Ai!Ok(res)
    BY <1>5, Zenon DEF Ai!OfflineAnswer
  <2>2. rem = k.req.n - Len(k.hits)
    BY DEF Ai!Remaining
  <2> HIDE DEF k, rem, a
  <2>3. rem \in Nat /\ rem + Len(k.hits) = k.req.n
    <3>1. Len(k.hits) <= k.req.n
      BY <1>4
    <3> QED
      BY <1>4, <2>2, <3>1
  <2>4. more \in Hits /\ Len(more) <= rem /\ Len(more) \in Nat
    BY <2>3, RuleFacts DEF Hits
  <2> HIDE DEF more
  <2>5. Len(k.hits) + Len(more) <= k.req.n
    BY <1>4, <2>3, <2>4
  <2>6. Whole(res, k.hits, k.req.n)
    BY <1>4, <2>4, <2>5, MergeFacts
  <2> HIDE DEF res
  <2> QED
    BY <2>1, <2>6, OkFields, Zenon
<1>6. ASSUME k.req.op = "next" PROVE a.ok /\ Whole(a.res, k.hits, k.req.n)
  <2> DEFINE res == Ai!RuleNext(k.req.ends, k.req.n)
  <2>1. a = Ai!Ok(res)
    BY <1>6, Zenon DEF Ai!OfflineAnswer
  <2>2. k.hits = <<>>
    BY <1>4, <1>6
  <2>3. res \in Hits /\ Len(res) <= k.req.n /\ Down(res)
    BY <1>4, RuleFacts
  <2> HIDE DEF k, a, res
  <2>4. Range(<<>>) \subseteq Range(res)
    BY DEF Range
  <2>5. Whole(res, k.hits, k.req.n)
    BY <2>2, <2>3, <2>4, Zenon DEF Whole
  <2> QED
    BY <2>1, <2>5, OkFields, Zenon
<1> HIDE DEF a
<1>7. k.req.op # "correct" => a.ok /\ Whole(a.res, k.hits, k.req.n)
  BY <1>4, <1>5, <1>6
<1> HIDE DEF k
<1>8. CallOk(m, loaded) /\ m.pc = "done"
  BY <1>7, DoneOk, Zenon
<1>9. m.pc # "sent"
  BY <1>8
<1> HIDE DEF m
<1> QED
  BY <1>1, <1>3, <1>8, <1>9, AiQuiet

(* Who is not asked any more, or not yet, owes no more than before.        *)
LEMMA OthersOwe ==
    ASSUME AiInv, NEW c \in Clients, NEW k, NEW cm, cm = [call EXCEPT ![c] = k], NEW q,
           k.pc # "sent" \/ Providers[k.prov] # q
    PROVE  /\ Cardinality(Sent(cm, q)) \in Nat
           /\ Cardinality(Sent(cm, q)) <= Cardinality(Sent(call, q))
<1>1. call = [d \in Clients |-> call[d]]
  BY Zenon DEF AiInv, CallsOk
<1>2. Sent(cm, q) = Sent(call, q) \ {c}
  BY <1>1, SentMoves
<1>3. IsFiniteSet(Sent(call, q)) /\ Cardinality(Sent(call, q)) \in Nat
  BY SentType
<1>4. Cardinality(Sent(cm, q)) = IF c \in Sent(call, q) THEN Cardinality(Sent(call, q)) - 1
                                 ELSE Cardinality(Sent(call, q))
  BY <1>2, <1>3, FS_RemoveElement
<1>5. Cardinality(Sent(cm, q)) \in Nat
  BY SentType
<1> QED
  BY <1>3, <1>4, <1>5

LEMMA OwesLess ==
    ASSUME AiInv, NEW c \in Clients, NEW k, k.pc # "sent", NEW cm, cm = [call EXCEPT ![c] = k],
           NEW q, c \in Sent(call, q)
    PROVE  Cardinality(Sent(cm, q)) = Cardinality(Sent(call, q)) - 1
<1>1. call = [d \in Clients |-> call[d]]
  BY Zenon DEF AiInv, CallsOk
<1>2. Sent(cm, q) = Sent(call, q) \ {c}
  BY <1>1, SentMoves
<1>3. IsFiniteSet(Sent(call, q))
  BY SentType
<1> QED
  BY <1>2, <1>3, FS_RemoveElement

LEMMA ProviderOf ==
    ASSUME NEW n \in Nat \ {0}, n <= Len(Providers)
    PROVE  Providers[n] \in Range(Providers)
<1>1. Providers \in Seq(Range(Providers))
  BY EngineAssumption
<1>2. n \in 1 .. Len(Providers)
  BY <1>1
<1> QED
  BY <1>1, <1>2

LEMMA BreakerOf ==
    ASSUME AiInv, NEW p \in Range(Providers)
    PROVE  /\ BreakerOk(breaker[p], Cardinality(Sent(call, p)))
           /\ breaker = [q \in Range(Providers) |-> breaker[q]]
           /\ Cardinality(Sent(call, p)) \in Nat
           /\ Cardinality(Clients) \in Nat /\ Limit \in Nat \ {0}
BY SentType, EngineAssumption, Zenon DEF AiInv, BreakersOk

(* What a breaker becomes, by what is still owed to it.                    *)
LEMMA ClosedOk ==
    ASSUME NEW o \in Nat, o <= Cardinality(Clients), Cardinality(Clients) \in Nat
    PROVE  BreakerOk(Ai!Closed, o)
BY EngineAssumption DEF BreakerOk, Ai!Closed

LEMMA FailedOk ==
    ASSUME NEW b, NEW o \in Nat, BreakerOk(b, o), NEW u \in Nat, u = o - 1,
           Cardinality(Clients) \in Nat
    PROVE  BreakerOk(Ai!Failed(b), u)
<1>1. b.failures \in Nat /\ b.until \in {"none", "ahead", "past"} /\ Limit \in Nat
      /\ b.failures + o <= Limit - 1 + Cardinality(Clients)
  BY EngineAssumption DEF BreakerOk
<1> DEFINE d == Ai!Failed(b)
<1>2. d = [failures |-> b.failures + 1,
           until |-> IF b.failures + 1 >= Limit THEN "ahead" ELSE b.until]
  BY DEF Ai!Failed
<1>3. d.failures = b.failures + 1
      /\ d.until = IF b.failures + 1 >= Limit THEN "ahead" ELSE b.until
  BY <1>2
<1>4. d = [failures |-> d.failures, until |-> d.until]
  BY <1>2
<1> HIDE DEF d
<1>5. d.failures \in Nat /\ d.failures + u <= Limit - 1 + Cardinality(Clients)
  BY <1>1, <1>3
<1>6. d.until \in {"none", "ahead", "past"}
  BY <1>1, <1>3
<1>7. d.until = "none" => d.failures < Limit
  BY <1>1, <1>3
<1> QED
  BY <1>4, <1>5, <1>6, <1>7, Zenon DEF BreakerOk, d

LEMMA ExpiredOk ==
    ASSUME NEW b, NEW o, BreakerOk(b, o)
    PROVE  BreakerOk([b EXCEPT !.until = "past"], o)
<1> DEFINE d == [b EXCEPT !.until = "past"]
<1>1. b = [failures |-> b.failures, until |-> b.until]
  BY Zenon DEF BreakerOk
<1>2. d.failures = b.failures /\ d.until = "past" /\ d = [failures |-> d.failures, until |-> d.until]
  BY <1>1
<1> HIDE DEF d
<1> QED
  BY <1>2 DEF BreakerOk, d

(* A breaker that lets a call through has failed less than the limit.      *)
LEMMA LookedOk ==
    ASSUME NEW b, NEW o, BreakerOk(b, o), ~Ai!IsOpen(b), Cardinality(Clients) \in Nat,
           NEW u \in Nat, u <= Cardinality(Clients)
    PROVE  BreakerOk(Ai!Looked(b), u)
<1>1. CASE b.until = "past"
  BY <1>1, ClosedOk DEF Ai!Looked
<1>2. CASE b.until # "past"
  <2>1. Ai!Looked(b) = b
    BY <1>2 DEF Ai!Looked
  <2>2. b.until = "none"
    BY <1>2 DEF Ai!IsOpen, BreakerOk
  <2>3. b.failures \in Nat /\ b.failures < Limit /\ Limit \in Nat
    BY <2>2, EngineAssumption DEF BreakerOk
  <2>4. b.failures + u <= Limit - 1 + Cardinality(Clients)
    BY <2>3
  <2> QED
    BY <2>1, <2>4, Zenon DEF BreakerOk
<1> QED
  BY <1>1, <1>2

LEMMA AskOpen ==
    ASSUME AiInv, NEW c \in Clients, call[c].pc = "ask", NEW p \in Range(Providers),
           Ai!IsOpen(breaker[p]), breaker' = [breaker EXCEPT ![p] = Ai!Looked(breaker[p])],
           call' = [call EXCEPT ![c] = [call[c] EXCEPT !.prov = @ + 1]],
           trie' = trie, loaded' = loaded
    PROVE  AiInv'
<1> DEFINE k == call[c]
           m == Moving("ask", k.req, k.hits, k.prov + 1)
<1>1. Underway(k, loaded) /\ k = Moving(k.pc, k.req, k.hits, k.prov)
  BY CallKinds
<1>2. k.prov \in Nat \ {0} /\ k.req.op # "next" /\ k.pc = "ask"
  BY <1>1 DEF Underway
<1>3. breaker' = breaker
  <2>1. Ai!Looked(breaker[p]) = breaker[p]
    BY DEF Ai!Looked, Ai!IsOpen
  <2>2. breaker = [q \in Range(Providers) |-> breaker[q]]
    BY BreakerOf
  <2> QED
    BY <2>1, <2>2
<1>4. call' = [call EXCEPT ![c] = [k EXCEPT !.prov = @ + 1]]
  OBVIOUS
<1> HIDE DEF k
<1>5. call' = [call EXCEPT ![c] = m]
  BY <1>1, <1>2, <1>4, Moved, Zenon
<1>6. k.prov + 1 \in Nat \ {0}
  BY <1>2
<1>7. Underway(m, loaded) /\ m.pc = "ask"
  BY <1>1, <1>2, <1>6, UnderwayStays, MovingFields
<1>8. CallOk(m, loaded) /\ m.pc # "sent"
  BY <1>7 DEF CallOk
<1>9. call[c].pc # "sent"
  OBVIOUS
<1> HIDE DEF m
<1> QED
  BY <1>3, <1>5, <1>8, <1>9, AiQuiet

LEMMA AskSends ==
    ASSUME AiInv, NEW c \in Clients, call[c].pc = "ask", call[c].prov <= Len(Providers),
           NEW p, p = Providers[call[c].prov],
           ~Ai!IsOpen(breaker[p]), breaker' = [breaker EXCEPT ![p] = Ai!Looked(breaker[p])],
           call' = [call EXCEPT ![c] = [call[c] EXCEPT !.pc = "sent"]],
           trie' = trie, loaded' = loaded
    PROVE  AiInv'
<1> DEFINE k == call[c]
           m == Moving("sent", k.req, k.hits, k.prov)
<1>1. Underway(k, loaded) /\ k = Moving(k.pc, k.req, k.hits, k.prov)
  BY CallKinds
<1>2. k.prov \in Nat \ {0} /\ k.req.op # "next" /\ k.prov <= Len(Providers)
  BY <1>1 DEF Underway
<1>3. p \in Range(Providers) /\ p = Providers[k.prov]
  BY <1>2, ProviderOf
<1>4. call' = [call EXCEPT ![c] = [k EXCEPT !.pc = "sent"]]
  OBVIOUS
<1> HIDE DEF k
<1>5. call' = [call EXCEPT ![c] = m]
  BY <1>1, <1>4, Moved, Zenon
<1>6. Underway(m, loaded) /\ m.pc = "sent" /\ m.prov = k.prov
  BY <1>1, <1>2, UnderwayStays, MovingFields
<1>7. CallOk(m, loaded)
  BY <1>6 DEF CallOk
<1> HIDE DEF m
<1>8. Cardinality(Sent(call', p)) \in Nat /\ Cardinality(Sent(call', p)) <= Cardinality(Clients)
      /\ Cardinality(Clients) \in Nat
  BY SentType
<1>9. BreakerOk(breaker[p], Cardinality(Sent(call, p)))
  BY <1>3, BreakerOf
<1>10. BreakerOk(Ai!Looked(breaker[p]), Cardinality(Sent(call', p)))
  BY <1>8, <1>9, LookedOk
<1>11. \A q \in Range(Providers) : q # p =>
          Cardinality(Sent(call', q)) <= Cardinality(Sent(call, q))
  <2> SUFFICES ASSUME NEW q \in Range(Providers), q # p
               PROVE  Cardinality(Sent(call', q)) <= Cardinality(Sent(call, q))
    OBVIOUS
  <2>1. Providers[m.prov] # q
    BY <1>3, <1>6
  <2> QED
    BY <1>5, <2>1, OthersOwe
<1>12. BreakersOk(breaker', call')
  BY <1>3, <1>10, <1>11, BreakersPut
<1> QED
  BY <1>5, <1>7, <1>12, AiMove

LEMMA AskStep == ASSUME AiInv, NEW c \in Clients, Ai!Ask(c) PROVE AiInv'
<1> DEFINE p == Providers[call[c].prov]
<1>1. /\ call[c].pc = "ask" /\ call[c].prov <= Ai!ChainLen(call[c].req.op)
      /\ breaker' = [breaker EXCEPT ![p] = Ai!Looked(breaker[p])]
      /\ call' = IF Ai!IsOpen(breaker[p])
                 THEN [call EXCEPT ![c] = [call[c] EXCEPT !.prov = @ + 1]]
                 ELSE [call EXCEPT ![c] = [call[c] EXCEPT !.pc = "sent"]]
      /\ trie' = trie /\ loaded' = loaded
  BY DEF Ai!Ask
<1>2. Underway(call[c], loaded)
  BY <1>1, CallKinds, Zenon
<1>3. call[c].prov \in Nat \ {0}
  BY <1>2, Zenon DEF Underway
<1>4. Len(Providers) \in Nat
  BY EngineAssumption
<1>5. call[c].prov <= Len(Providers)
  BY <1>1, <1>3, <1>4 DEF Ai!ChainLen
<1>6. p \in Range(Providers)
  BY <1>3, <1>5, ProviderOf
<1> HIDE DEF p
<1>7. CASE Ai!IsOpen(breaker[p])
  BY <1>1, <1>6, <1>7, AskOpen
<1>8. CASE ~Ai!IsOpen(breaker[p])
  <2>1. p = Providers[call[c].prov]
    BY DEF p
  <2> QED
    BY <1>1, <1>5, <1>8, <2>1, AskSends
<1> QED
  BY <1>7, <1>8

(* A call that was sent: its provider, and what the provider is owed when  *)
(* the call is over or goes on elsewhere.                                  *)
LEMMA SentTo ==
    ASSUME AiInv, NEW c \in Clients, call[c].pc = "sent", NEW p, p = Providers[call[c].prov]
    PROVE  p \in Range(Providers) /\ c \in Sent(call, p) /\ call[c].req.op # "next"
<1>1. Underway(call[c], loaded)
  BY CallKinds
<1>2. call[c].prov \in Nat \ {0} /\ call[c].prov <= Len(Providers) /\ call[c].req.op # "next"
  BY <1>1 DEF Underway
<1>3. p \in Range(Providers)
  BY <1>2, ProviderOf
<1> QED
  BY <1>2, <1>3 DEF Sent

LEMMA SentOwed ==
    ASSUME AiInv, NEW c \in Clients, NEW p \in Range(Providers), c \in Sent(call, p),
           NEW k, k.pc # "sent", NEW cm, cm = [call EXCEPT ![c] = k]
    PROVE  /\ BreakerOk(breaker[p], Cardinality(Sent(call, p)))
           /\ Cardinality(Sent(call, p)) \in Nat /\ Cardinality(Clients) \in Nat
           /\ Cardinality(Sent(cm, p)) = Cardinality(Sent(call, p)) - 1
           /\ Cardinality(Sent(cm, p)) \in Nat /\ Cardinality(Sent(cm, p)) <= Cardinality(Clients)
           /\ \A q \in Range(Providers) : q # p =>
                Cardinality(Sent(cm, q)) <= Cardinality(Sent(call, q))
<1>1. /\ BreakerOk(breaker[p], Cardinality(Sent(call, p)))
      /\ Cardinality(Sent(call, p)) \in Nat /\ Cardinality(Clients) \in Nat
  BY BreakerOf
<1>2. Cardinality(Sent(cm, p)) = Cardinality(Sent(call, p)) - 1
  BY OwesLess
<1>3. Cardinality(Sent(cm, p)) \in Nat /\ Cardinality(Sent(cm, p)) <= Cardinality(Clients)
  BY SentType
<1>4. \A q : Cardinality(Sent(cm, q)) <= Cardinality(Sent(call, q))
  BY OthersOwe
<1> QED
  BY <1>1, <1>2, <1>3, <1>4

LEMMA FailsStep == ASSUME AiInv, NEW c \in Clients, Ai!Fails(c) PROVE AiInv'
<1> DEFINE k == call[c]
           p == Providers[k.prov]
           m == Moving("ask", k.req, k.hits, k.prov + 1)
<1>1. /\ k.pc = "sent" /\ trie' = trie /\ loaded' = loaded
      /\ breaker' = [breaker EXCEPT ![p] = Ai!Failed(breaker[p])]
      /\ call' = [call EXCEPT ![c].pc = "ask", ![c].prov = @ + 1]
  BY DEF Ai!Fails
<1>2. Underway(k, loaded) /\ k = Moving(k.pc, k.req, k.hits, k.prov)
      /\ call = [d \in Clients |-> call[d]]
  BY <1>1, CallKinds
<1>3. [call EXCEPT ![c].pc = "ask", ![c].prov = @ + 1]
        = [call EXCEPT ![c] = [k EXCEPT !.pc = "ask", !.prov = @ + 1]]
  <2>1. [call EXCEPT ![c].pc = "ask", ![c].prov = @ + 1]
          = [[call EXCEPT ![c].pc = "ask"] EXCEPT ![c].prov = @ + 1]
    OBVIOUS
  <2>2. [call EXCEPT ![c].pc = "ask"] = [call EXCEPT ![c] = [k EXCEPT !.pc = "ask"]]
    OBVIOUS
  <2>3. [k EXCEPT !.pc = "ask", !.prov = @ + 1] = [[k EXCEPT !.pc = "ask"] EXCEPT !.prov = @ + 1]
    OBVIOUS
  <2> DEFINE a == [k EXCEPT !.pc = "ask"]
  <2> HIDE DEF a
  <2>4. [[call EXCEPT ![c] = a] EXCEPT ![c].prov = @ + 1]
          = [call EXCEPT ![c] = [a EXCEPT !.prov = @ + 1]]
    BY <1>2
  <2> QED
    BY <2>1, <2>2, <2>3, <2>4 DEF a
<1>4. /\ k.prov \in Nat \ {0} /\ k.req.op # "next"
  BY <1>1, <1>2 DEF Underway
<1>5. p \in Range(Providers) /\ c \in Sent(call, p)
  BY <1>1, SentTo
<1> HIDE DEF k, p
<1>6. call' = [call EXCEPT ![c] = m]
  BY <1>1, <1>2, <1>3, Moved, Zenon
<1>7. k.prov + 1 \in Nat \ {0}
  BY <1>4
<1>8. Underway(m, loaded) /\ m.pc = "ask"
  BY <1>2, <1>4, <1>7, UnderwayStays, MovingFields
<1>9. CallOk(m, loaded) /\ m.pc # "sent"
  BY <1>8 DEF CallOk
<1> HIDE DEF m
<1>10. /\ p \in Range(Providers)
       /\ BreakerOk(breaker[p], Cardinality(Sent(call, p)))
       /\ Cardinality(Sent(call, p)) \in Nat /\ Cardinality(Clients) \in Nat
       /\ Cardinality(Sent(call', p)) = Cardinality(Sent(call, p)) - 1
       /\ Cardinality(Sent(call', p)) \in Nat
       /\ \A q \in Range(Providers) : q # p =>
            Cardinality(Sent(call', q)) <= Cardinality(Sent(call, q))
  BY <1>5, <1>6, <1>9, SentOwed
<1>11. BreakerOk(Ai!Failed(breaker[p]), Cardinality(Sent(call', p)))
  BY <1>10, FailedOk
<1>12. BreakersOk(breaker', call')
  BY <1>1, <1>10, <1>11, BreakersPut
<1> QED
  BY <1>1, <1>6, <1>9, <1>12, AiMove

LEMMA ReplyStep == ASSUME AiInv, NEW c \in Clients, Ai!Reply(c) PROVE AiInv'
<1> DEFINE k == call[c]
           p == Providers[k.prov]
           res == Ai!Take(Ai!Sorted[k.hits \o Ai!RemoteAnswer], k.req.n)
           a == IF k.req.op = "correct" THEN Ai!Ok(<<>>) ELSE Ai!Ok(res)
           m == Done(k.req, k.hits, a)
<1>1. /\ k.pc = "sent" /\ UNCHANGED <<config, loaded, trie, onlineOk>>
      /\ breaker' = [breaker EXCEPT ![p] = Ai!Closed]
      /\ call' = [call EXCEPT ![c] = m]
  BY Zenon DEF Ai!Reply, Ai!Finish, Done
<1>2. Underway(k, loaded)
  BY <1>1, CallKinds, Zenon
<1>3. /\ k.hits = <<>> \/ Len(k.hits) < k.req.n
      /\ k.req.n \in Nat /\ k.hits \in Hits
  BY <1>2, Zenon DEF Underway
<1>4. p \in Range(Providers) /\ c \in Sent(call, p)
  BY <1>1, SentTo
<1> HIDE DEF k, p
<1>5. Whole(res, k.hits, k.req.n)
  <2> DEFINE more == Ai!RemoteAnswer
  <2>1. more \in Hits /\ Len(more) <= 1 /\ Len(more) \in Nat
    BY RemoteFacts DEF Hits
  <2> HIDE DEF more
  <2>2. Len(k.hits) \in Nat
    BY <1>3 DEF Hits
  <2>3. k.hits = <<>> \/ Len(k.hits) + Len(more) <= k.req.n
    BY <1>3, <2>1, <2>2
  <2>4. Whole(Ai!Take(Ai!Sorted[k.hits \o more], k.req.n), k.hits, k.req.n)
    BY <1>3, <2>1, <2>3, MergeFacts
  <2> QED
    BY <2>4, Zenon DEF more
<1> HIDE DEF res
<1>6. k.req.op # "correct" => a.ok /\ Whole(a.res, k.hits, k.req.n)
  BY <1>5, OkFields, Zenon
<1> HIDE DEF a
<1>7. CallOk(m, loaded) /\ m.pc = "done"
  BY <1>6, DoneOk, Zenon
<1>8. m.pc # "sent"
  BY <1>7
<1> HIDE DEF m
<1>9. call' = [call EXCEPT ![c] = m]
  BY <1>1
<1>10. /\ p \in Range(Providers) /\ Cardinality(Clients) \in Nat
       /\ Cardinality(Sent(call', p)) \in Nat
       /\ Cardinality(Sent(call', p)) <= Cardinality(Clients)
       /\ \A q \in Range(Providers) : q # p =>
            Cardinality(Sent(call', q)) <= Cardinality(Sent(call, q))
  BY <1>4, <1>8, <1>9, SentOwed
<1>11. BreakerOk(Ai!Closed, Cardinality(Sent(call', p)))
  BY <1>10, ClosedOk
<1>12. BreakersOk(breaker', call')
  BY <1>1, <1>10, <1>11, BreakersPut
<1> QED
  BY <1>1, <1>7, <1>9, <1>12, AiMove

LEMMA AnswerTakenStep == ASSUME AiInv, NEW c \in Clients, Ai!Return(c) PROVE AiInv'
<1>1. /\ call[c].pc # "sent" /\ call' = [call EXCEPT ![c] = Ai!Idle]
      /\ UNCHANGED <<config, loaded, trie, onlineOk, breaker, offq>>
  BY DEF Ai!Return
<1>2. CallOk(Ai!Idle, loaded) /\ Ai!Idle.pc # "sent"
  BY DEF CallOk, Ai!Idle
<1> QED
  BY <1>1, <1>2, AiQuiet

(* What a call has of the trie when it starts.                             *)
FirstHits(r) == IF r.op = "next" \/ (r.op = "complete" /\ config.trie_first)
                THEN Ai!TrieComplete(trie, r.token, r.n) ELSE <<>>

LEMMA StartKinds ==
    ASSUME NEW c \in Clients, NEW r, Ai!Start(c, r)
    PROVE  /\ call[c].pc = "idle" /\ UNCHANGED <<config, loaded, trie, onlineOk, breaker>>
           /\ \/ call' = [call EXCEPT ![c] = Done(r, FirstHits(r), Ai!Ok(FirstHits(r)))]
              \/ /\ ~(r.op = "complete" /\ config.trie_first /\ Len(FirstHits(r)) >= r.n)
                 /\ ~(r.op = "next" /\ FirstHits(r) # <<>>)
                 /\ \/ r.op # "next" /\ call' = [call EXCEPT ![c] = Moving("ask", r, FirstHits(r), 1)]
                    \/ call' = [call EXCEPT ![c] =
                                   [Moving("ask", r, FirstHits(r), 1) EXCEPT !.pc = "offline"]]
BY Zenon DEF Ai!Start, Ai!QueueOffline, Moving, Done, FirstHits

LEMMA HitsStart ==
    ASSUME AiInv, NEW c \in Clients, NEW r \in Requests[c], NEW hits, hits = FirstHits(r)
    PROVE  /\ r.op \in {"complete", "next", "correct"} /\ r.n \in Nat
           /\ hits \in Hits /\ Down(hits) /\ Len(hits) <= r.n /\ Len(hits) \in Nat
           /\ hits = <<>> \/ r.op = "next" \/ (r.op = "complete" /\ config.trie_first)
<1>1. r.op \in {"complete", "next", "correct"} /\ r.n \in Nat
  BY EngineAssumption
<1>a. hits = IF r.op = "next" \/ (r.op = "complete" /\ config.trie_first)
             THEN Ai!TrieComplete(trie, r.token, r.n) ELSE <<>>
  BY Zenon DEF FirstHits
<1>2. TrieOk(trie)
  BY DEF AiInv
<1>3. CASE hits = Ai!TrieComplete(trie, r.token, r.n)
  <2>1. hits \in Hits /\ Down(hits) /\ Len(hits) <= r.n
    BY <1>1, <1>2, <1>3, TrieFacts
  <2>2. Len(hits) \in Nat
    BY <2>1 DEF Hits
  <2>3. hits = <<>> \/ r.op = "next" \/ (r.op = "complete" /\ config.trie_first)
    BY <1>a, Zenon
  <2> QED
    BY <1>1, <2>1, <2>2, <2>3, Zenon
<1>4. CASE hits = <<>>
  <2>1. <<>> \in Seq(Ai!Hit) /\ Len(<<>>) = 0 /\ DOMAIN <<>> = {}
    OBVIOUS
  <2>2. hits \in Hits /\ Down(hits) /\ Len(hits) = 0
    BY <1>4, <2>1 DEF Hits, Down
  <2>3. Len(hits) <= r.n /\ Len(hits) \in Nat
    BY <1>1, <2>2
  <2> QED
    BY <1>1, <1>4, <2>2, <2>3, Zenon
<1> QED
  BY <1>1, <1>a, <1>3, <1>4, Zenon

LEMMA StartStep ==
    ASSUME AiInv, NEW c \in Clients, NEW r \in Requests[c], Ai!Start(c, r)
    PROVE  AiInv'
<1> DEFINE hits == FirstHits(r)
           next == Moving("ask", r, hits, 1)
<1>1. /\ r.op \in {"complete", "next", "correct"} /\ r.n \in Nat
      /\ hits \in Hits /\ Down(hits) /\ Len(hits) <= r.n /\ Len(hits) \in Nat
      /\ hits = <<>> \/ r.op = "next" \/ (r.op = "complete" /\ config.trie_first)
  BY HitsStart
<1>2. /\ call[c].pc = "idle" /\ UNCHANGED <<config, loaded, trie, onlineOk, breaker>>
      /\ \/ call' = [call EXCEPT ![c] = Done(r, hits, Ai!Ok(hits))]
         \/ /\ ~(r.op = "complete" /\ config.trie_first /\ Len(hits) >= r.n)
            /\ ~(r.op = "next" /\ hits # <<>>)
            /\ \/ r.op # "next" /\ call' = [call EXCEPT ![c] = next]
               \/ call' = [call EXCEPT ![c] = [next EXCEPT !.pc = "offline"]]
  BY StartKinds, Zenon
<1>3. call[c].pc # "sent"
  BY <1>2
<1>4. trie' = trie /\ loaded' = loaded /\ breaker' = breaker
  BY <1>2
<1> HIDE DEF hits
<1>5. CASE call' = [call EXCEPT ![c] = Done(r, hits, Ai!Ok(hits))]
  <2> DEFINE m == Done(r, hits, Ai!Ok(hits))
  <2>1. Whole(hits, hits, r.n)
    BY <1>1, Zenon DEF Whole
  <2>2. Ai!Ok(hits).ok /\ Whole(Ai!Ok(hits).res, hits, r.n)
    BY <2>1, OkFields, Zenon
  <2>3. CallOk(m, loaded) /\ m.pc = "done"
    BY <2>2, DoneOk, Zenon
  <2>4. call' = [call EXCEPT ![c] = m] /\ m.pc # "sent"
    BY <1>5, <2>3
  <2> HIDE DEF m
  <2> QED
    BY <1>3, <1>4, <2>3, <2>4, AiQuiet
<1>6. CASE /\ ~(r.op = "complete" /\ config.trie_first /\ Len(hits) >= r.n)
           /\ ~(r.op = "next" /\ hits # <<>>)
           /\ \/ r.op # "next" /\ call' = [call EXCEPT ![c] = next]
              \/ call' = [call EXCEPT ![c] = [next EXCEPT !.pc = "offline"]]
  <2>1. hits = <<>> \/ (r.op = "complete" /\ Len(hits) < r.n)
    BY <1>1, <1>6
  <2>2. /\ next.pc = "ask" /\ next.req = r /\ next.hits = hits /\ next.prov = 1
        /\ next = Moving(next.pc, next.req, next.hits, next.prov)
    BY MovingFields
  <2> HIDE DEF next
  <2>3. 1 \in Nat \ {0}
    OBVIOUS
  <2>4. CASE r.op # "next" /\ call' = [call EXCEPT ![c] = next]
    <3>1. Underway(next, loaded)
      BY <1>1, <2>1, <2>2, <2>3, <2>4, Zenon DEF Underway, Moving
    <3>2. CallOk(next, loaded) /\ next.pc # "sent"
      BY <2>2, <3>1 DEF CallOk
    <3> QED
      BY <1>3, <1>4, <2>4, <3>2, AiQuiet
  <2>5. CASE call' = [call EXCEPT ![c] = [next EXCEPT !.pc = "offline"]]
    <3> DEFINE m == Moving("offline", r, hits, 1)
    <3>1. [next EXCEPT !.pc = "offline"] = m
      <4>1. [next EXCEPT !.pc = "offline"] = Moving("offline", next.req, next.hits, next.prov)
        BY <2>2, Moved, Zenon
      <4> QED
        BY <2>2, <4>1
    <3>2. m.pc = "offline" /\ m.req = r /\ m.hits = hits /\ m.prov = 1
          /\ m = Moving(m.pc, m.req, m.hits, m.prov)
      BY MovingFields
    <3>3. call' = [call EXCEPT ![c] = m]
      BY <2>5, <3>1
    <3> HIDE DEF m
    <3>4. Underway(m, loaded)
      BY <1>1, <2>1, <2>3, <3>2, Zenon DEF Underway, Moving
    <3>5. CallOk(m, loaded) /\ m.pc # "sent"
      BY <3>2, <3>4 DEF CallOk
    <3> QED
      BY <1>3, <1>4, <3>3, <3>5, AiQuiet
  <2> QED
    BY <1>6, <2>4, <2>5
<1> HIDE DEF next
<1> QED
  BY <1>2, <1>5, <1>6, Zenon

(* What is learnt takes its place.                                         *)
LEMMA LearnStep == ASSUME AiInv, NEW l \in Learnable, Ai!Learn(l) PROVE AiInv'
<1> DEFINE e == Ai!Entry(65, l.len, l.ord, l.under)
           t == [x \in DOMAIN trie \cup {l.text} |-> IF x = l.text THEN e ELSE trie[x]]
<1>1. TrieOk(trie)
  BY DEF AiInv
<1>2. /\ trie' = trie \/ trie' = t
      /\ loaded' = loaded /\ breaker' = breaker /\ call' = call
  BY DEF Ai!Learn, Ai!Insert
<1>3. TrieOk(t)
  <2>1. DOMAIN t = DOMAIN trie \cup {l.text} /\ IsFiniteSet(DOMAIN trie \cup {l.text})
    BY <1>1, FS_AddElement DEF TrieOk
  <2>2. e.ord = l.ord /\ e.score = 65
    BY DEF Ai!Entry
  <2>3. [text |-> l.text, ord |-> l.ord] \in Named
    BY DEF Named
  <2>4. ASSUME NEW x \in DOMAIN t
        PROVE  [text |-> x, ord |-> t[x].ord] \in Named /\ t[x].score \in Nat
    <3>1. CASE x = l.text
      <4>1. t[x] = e
        BY <2>1, <3>1
      <4> QED
        BY <2>2, <2>3, <3>1, <4>1
    <3>2. CASE x # l.text
      <4>1. t[x] = trie[x] /\ x \in DOMAIN trie
        BY <2>1, <2>4, <3>2
      <4> QED
        BY <1>1, <4>1, Zenon DEF TrieOk
    <3> QED
      BY <3>1, <3>2
  <2> HIDE DEF t
  <2> QED
    BY <2>1, <2>4, Zenon DEF TrieOk
<1> HIDE DEF t
<1>4. TrieOk(trie')
  BY <1>1, <1>2, <1>3
<1> QED
  BY <1>2, <1>4, Zenon DEF AiInv

LEMMA ExpireStep == ASSUME AiInv, NEW p \in Range(Providers), Ai!Expire(p) PROVE AiInv'
<1>1. /\ breaker' = [breaker EXCEPT ![p] = [breaker[p] EXCEPT !.until = "past"]]
      /\ trie' = trie /\ loaded' = loaded /\ call' = call
  BY DEF Ai!Expire
<1>2. BreakerOk(breaker[p], Cardinality(Sent(call, p)))
  BY BreakerOf
<1>3. BreakerOk([breaker[p] EXCEPT !.until = "past"], Cardinality(Sent(call, p)))
  BY <1>2, ExpiredOk
<1>4. \A q : Cardinality(Sent(call, q)) <= Cardinality(Sent(call, q))
  BY SentType
<1>5. BreakersOk(breaker', call)
  BY <1>1, <1>3, <1>4, BreakersPut
<1> QED
  BY <1>1, <1>5, Zenon DEF AiInv

LEMMA RangesSame == \A s : Ai!Range(s) = Range(s)
BY Zenon DEF Ai!Range, Range

LEMMA TrieStart == TrieOk(Ai!Builtins)
<1>1. DOMAIN Ai!Builtins = {"Vec", "Vec::new()", "find", "fn", "fn main", "for", "from"}
  BY DEF Ai!Builtins
<1>2. \A a, b, c : IsFiniteSet({a, b}) /\ IsFiniteSet({a, b, c})
  <2> SUFFICES ASSUME NEW a, NEW b, NEW c PROVE IsFiniteSet({a, b}) /\ IsFiniteSet({a, b, c})
    OBVIOUS
  <2>1. IsFiniteSet({a} \cup {b}) /\ IsFiniteSet(({a} \cup {b}) \cup {c})
    BY FS_Singleton, FS_Union
  <2>2. {a, b} = {a} \cup {b}
    OBVIOUS
  <2>3. {a, b, c} = ({a} \cup {b}) \cup {c}
    OBVIOUS
  <2> QED
    BY <2>1, <2>2, <2>3
<1>3. IsFiniteSet(DOMAIN Ai!Builtins)
  <2>1. IsFiniteSet(({"Vec", "Vec::new()", "find"} \cup {"fn", "fn main"}) \cup {"for", "from"})
    BY <1>2, FS_Union
  <2>2. DOMAIN Ai!Builtins = ({"Vec", "Vec::new()", "find"} \cup {"fn", "fn main"}) \cup {"for", "from"}
    BY <1>1
  <2> QED
    BY <2>1, <2>2, Zenon
<1>4. \A x \in DOMAIN Ai!Builtins : Ai!Builtins[x].score \in Nat
  BY DEF Ai!Builtins, Ai!Entry
<1>5. \A x \in DOMAIN Ai!Builtins : [text |-> x, ord |-> Ai!Builtins[x].ord] \in Named
  BY DEF Named
<1> QED
  BY <1>3, <1>4, <1>5, Zenon DEF TrieOk

LEMMA AiStart == ASSUME Ai!Init PROVE AiInv
<1>1. /\ trie = Ai!Builtins /\ breaker = [p \in Range(Providers) |-> Ai!Closed]
      /\ call = [c \in Clients |-> Ai!Idle]
  BY RangesSame DEF Ai!Init
<1>2. Ai!Idle.pc = "idle"
  BY DEF Ai!Idle
<1>3. CallsOk(call, loaded)
  BY <1>1, <1>2 DEF CallsOk, CallOk
<1>4. \A p : Sent(call, p) = {}
  BY <1>1, <1>2 DEF Sent
<1>5. Cardinality({}) = 0 /\ Cardinality(Clients) \in Nat
  BY FS_EmptySet, SentType
<1>6. BreakerOk(Ai!Closed, 0)
  BY <1>5, ClosedOk
<1>7. BreakersOk(breaker, call)
  <2>1. \A p : Cardinality(Sent(call, p)) = 0
    BY <1>4, <1>5, Zenon
  <2>2. breaker = [p \in Range(Providers) |-> breaker[p]]
        /\ \A p \in Range(Providers) : breaker[p] = Ai!Closed
    BY <1>1
  <2>3. \A p \in Range(Providers) : BreakerOk(breaker[p], Cardinality(Sent(call, p)))
    BY <1>6, <2>1, <2>2, Zenon
  <2> QED
    BY <2>2, <2>3, Zenon DEF BreakersOk
<1>8. TrieOk(trie)
  BY <1>1, TrieStart
<1> QED
  BY <1>3, <1>7, <1>8, Zenon DEF AiInv

LEMMA AiKept == ASSUME AiInv, [Next]_vars PROVE AiInv'
<1>1. ASSUME trie' = trie, breaker' = breaker, call' = call, loaded' = loaded PROVE AiInv'
  BY <1>1, Zenon DEF AiInv
<1>2. ASSUME NEW c \in Clients, Ai!Proceed(c) PROVE AiInv'
  BY <1>2, AskStep, GiveUpStep, ReplyStep, FailsStep, RulesStep, InferStep, InferredStep, Zenon
     DEF Ai!Proceed
<1>3. ASSUME NEW b, Ai!Ping(b) PROVE AiInv'
  BY <1>1, <1>3, Zenon DEF Ai!Ping
<1>4. ASSUME Ai!Next PROVE AiInv'
  <2>1. \/ \E c \in Clients : \/ \E r \in Requests[c] : Ai!Start(c, r)
                              \/ Ai!Proceed(c)
                              \/ Ai!Return(c)
        \/ \E l \in Learnable : Ai!Learn(l)
        \/ \E b \in BOOLEAN : Ai!Ping(b)
        \/ \E p \in Range(Providers) : Ai!Expire(p)
    BY <1>4, RangesSame DEF Ai!Next
  <2> QED
    BY <2>1, <1>2, <1>3, StartStep, AnswerTakenStep, LearnStep, ExpireStep, Zenon
<1>5. Ai!Next \/ aiVars' = aiVars
  BY Zenon DEF Next, vars, Give, NshStep, AiStep, CompositorStep, KeyboardStep, FaultStep, SecurityStep,
     OnlyNsh, OnlyAi, OnlyCompositor, OnlyKeyboard, OnlyFault, OnlySecurity
<1>6. CASE aiVars' = aiVars
  <2>1. trie' = trie /\ breaker' = breaker /\ call' = call /\ loaded' = loaded
    BY <1>6 DEF aiVars
  <2> QED
    BY <2>1, <1>1
<1> QED
  BY <1>4, <1>5, <1>6

LEMMA AiMeans == ASSUME AiInv PROVE EngineSound
<1>1. Ai!Cardinality(Clients) = Cardinality(Clients)
  BY CountsSame
<1>2. ASSUME NEW p \in DOMAIN breaker
      PROVE  /\ breaker[p].until = "none" => breaker[p].failures < Limit
             /\ breaker[p].failures < Limit + Cardinality(Clients)
  <2> DEFINE b == breaker[p]
             o == Cardinality(Sent(call, p))
  <2>1. breaker = [q \in Range(Providers) |-> breaker[q]]
    BY Zenon DEF AiInv, BreakersOk
  <2>2. p \in Range(Providers)
    BY <1>2, <2>1
  <2>3. /\ BreakerOk(b, o) /\ o \in Nat /\ Cardinality(Clients) \in Nat /\ Limit \in Nat
    BY <2>2, BreakerOf
  <2> HIDE DEF b, o
  <2>4. b.failures \in Nat /\ (b.until = "none" => b.failures < Limit)
        /\ b.failures + o <= Limit - 1 + Cardinality(Clients)
    BY <2>3 DEF BreakerOk
  <2>5. b.failures < Limit + Cardinality(Clients)
    BY <2>3, <2>4
  <2> QED
    BY <2>4, <2>5 DEF b
<1>3. Ai!BreakersBounded
  BY <1>1, <1>2 DEF Ai!BreakersBounded
<1>4. ASSUME NEW c \in Clients, call[c].pc = "done", call[c].req.op # "correct"
      PROVE  Answered(call[c], loaded)
  <2>1. CallOk(call[c], loaded)
    BY Zenon DEF AiInv, CallsOk
  <2> QED
    BY <1>4, <2>1 DEF CallOk, Underway
<1>5. ASSUME NEW c \in Clients, call[c].pc = "done", call[c].req.op # "correct"
      PROVE  LET a == call[c].ans
             IN  /\ ~loaded => a.ok
                 /\ a.ok => /\ Len(a.res) <= call[c].req.n
                            /\ Ai!Range(call[c].hits) \subseteq Ai!Range(a.res)
                            /\ \A i, j \in DOMAIN a.res :
                                 i < j => a.res[i].score >= a.res[j].score
  <2> DEFINE k == call[c]
  <2>1. /\ ~loaded => k.ans.ok
        /\ k.ans.ok => Whole(k.ans.res, k.hits, k.req.n)
    BY <1>4, <1>5 DEF Answered
  <2>2. Ai!Range(k.hits) = Range(k.hits) /\ Ai!Range(k.ans.res) = Range(k.ans.res)
    BY RangesSame
  <2> HIDE DEF k
  <2>3. k.ans.ok => /\ Len(k.ans.res) <= k.req.n
                    /\ Ai!Range(k.hits) \subseteq Ai!Range(k.ans.res)
                    /\ \A i, j \in DOMAIN k.ans.res :
                         i < j => k.ans.res[i].score >= k.ans.res[j].score
    BY <2>1, <2>2, Zenon DEF Whole, Down
  <2> QED
    BY <2>1, <2>3, Zenon DEF k
<1>6. Ai!AnswersWhole
  BY <1>5, Zenon DEF Ai!AnswersWhole
<1> QED
  BY <1>3, <1>6, Zenon DEF EngineSound

(* A breaker without a deadline has failed less often than the limit, and  *)
(* one that opened counts at most one failure more for each client         *)
(* (CircuitBreaker of online.rs).  Without a model file a completion never *)
(* fails, and no answer loses a hit of the trie, exceeds what was asked    *)
(* for or is out of order (complete, next_word of lib.rs; complete of      *)
(* trie.rs).                                                               *)
THEOREM EngineHolds == Spec => []EngineSound
<1>1. Init => AiInv
  BY AiStart DEF Init
<1>2. AiInv /\ [Next]_vars => AiInv'
  BY AiKept
<1>3. AiInv => EngineSound
  BY AiMeans
<1> QED
  BY <1>1, <1>2, <1>3, PTL DEF Spec

=============================================================================
