----------------------------- MODULE FifoProofs -----------------------------
(***************************************************************************)
(* Proofs about the client's byte pipe, for every number of threads, every *)
(* ring size, every chunk size and every set of byte values.               *)
(***************************************************************************)
EXTENDS Fifo, SequenceTheorems, TLAPS

(* One lap at most: modulo() on the sums fifo.c forms.                     *)
Wrap(x) == IF x < MaxSize THEN x ELSE x - MaxSize

(* modulo() takes off the ring size at most once, since head, tail and the *)
(* amounts copied are each at most one lap.                                *)
LEMMA ModWrap ==
  ASSUME NEW n \in Nat, n < 2 * MaxSize
  PROVE  modulo(n, MaxSize) = Wrap(n)
<1>1. CASE n < MaxSize
  BY <1>1, SizeAssumption DEF modulo, Wrap
<1>2. CASE n >= MaxSize
  <2>1. n - MaxSize \in 0..(MaxSize - 1)
    BY <1>2, SizeAssumption
  <2>2. n % MaxSize = n - MaxSize
    BY <2>1, <1>2, SizeAssumption
  <2>3. QED BY <2>2, <1>2, SizeAssumption DEF modulo, Wrap
<1>3. QED BY <1>1, <1>2, SizeAssumption

(* Moving an index on by k and then by z - k is moving it on by z.         *)
LEMMA WrapMoves ==
  ASSUME NEW h \in Slots, NEW z \in 0..MaxSize, NEW k \in 0..MaxSize, k <= z
  PROVE  Wrap(Wrap(h + k) + (z - k)) = Wrap(h + z)
<1>1. CASE h + k < MaxSize
  BY <1>1, SizeAssumption DEF Wrap, Slots
<1>2. CASE h + k >= MaxSize
  BY <1>2, SizeAssumption DEF Wrap, Slots
<1>3. QED BY <1>1, <1>2, SizeAssumption DEF Slots

(* The empty buffer is a buffer.                                           *)
LEMMA EmptyIsSeq == <<>> \in Seq(Byte) /\ Len(<<>>) = 0
OBVIOUS

(* A new, zeroed ring holds bytes.                                         *)
LEMMA ZeroRing == [i \in Slots |-> 0] \in [Slots -> Byte] /\ 0 \in Slots
BY ByteAssumption, SizeAssumption DEF Slots

(* The ring slots written by fifo_push stay in the ring and hold bytes.    *)
LEMMA CopyInType ==
  ASSUME NEW r \in [Slots -> Byte], NEW at \in Slots, NEW s \in Seq(Byte),
         Len(s) <= MaxSize
  PROVE  CopyIn(r, at, s) \in [Slots -> Byte]
BY SizeAssumption DEF CopyIn, Slots

(* The bytes fifo_pop copies out are a sequence of n bytes.                *)
LEMMA CopyOutType ==
  ASSUME NEW r \in [Slots -> Byte], NEW at \in Slots, NEW n \in Nat, n <= MaxSize
  PROVE  /\ CopyOut(r, at, n) \in Seq(Byte)
         /\ Len(CopyOut(r, at, n)) = n
BY SizeAssumption DEF CopyOut, Slots
-----------------------------------------------------------------------------
(* The state every step keeps well typed.                                  *)
LEMMA TypeStep == TypeOK /\ [Next]_vars => TypeOK'
<1> SUFFICES ASSUME TypeOK, [Next]_vars PROVE TypeOK'
  OBVIOUS
<1> USE SizeAssumption, BoundAssumption, ByteAssumption
<1>1. ASSUME NEW t \in Pushers, NEW s \in Chunks, NEW entry \in {"space", "push"},
             CallPush(t, s, entry)
      PROVE  TypeOK'
  <2>1. s \in Seq(Byte)
    BY DEF Chunks
  <2>2. QED BY <1>1, <2>1 DEF CallPush, TypeOK, ring, hist, Threads
<1>2. ASSUME NEW t \in Pushers, GetSpace(t) PROVE TypeOK'
  BY <1>2, EmptyIsSeq DEF GetSpace, TypeOK, ring, hist, Threads
<1>3. ASSUME NEW t \in Pushers, PushSleep(t) PROVE TypeOK'
  BY <1>3 DEF PushSleep, Signalled, TypeOK, ring, hist, Threads
<1>4. ASSUME NEW t \in Pushers, Push(t) PROVE TypeOK'
  <2> DEFINE push_size == MinOf(Len(buf[t]), MaxSize - size)
  <2> DEFINE s == SubSeq(buf[t], 1, push_size)
  <2>1. buf[t] \in Seq(Byte) /\ Len(buf[t]) \in Nat /\ MaxSize - size \in Nat
    BY DEF TypeOK
  <2>2. push_size \in 0..Len(buf[t]) /\ push_size <= MaxSize - size
    BY <2>1 DEF MinOf
  <2>3. s \in Seq(Byte) /\ Len(s) = push_size
    BY <2>1, <2>2
  <2>4. SubSeq(buf[t], push_size + 1, Len(buf[t])) \in Seq(Byte)
    BY <2>1, <2>2
  <2>5. q_' \in [Slots -> Byte]
    <3>1. tail \in Slots /\ q_ \in [Slots -> Byte] /\ Len(s) <= MaxSize
      BY <2>2, <2>3 DEF TypeOK
    <3>2. CopyIn(q_, tail, s) \in [Slots -> Byte]
      BY <2>3, <3>1, CopyInType
    <3>3. QED BY <1>4, <3>2 DEF Push
  <2>6. tail' \in Slots
    <3>1. tail + push_size \in Nat /\ tail + push_size < 2 * MaxSize
      BY <2>2 DEF TypeOK, Slots
    <3>2. QED BY <1>4, <3>1, ModWrap DEF Push, Wrap, Slots
  <2>7. size' \in 0..MaxSize /\ pushed' \in Seq(Byte)
    BY <1>4, <2>2, <2>3 DEF Push, TypeOK
  <2>8. pushWait' \subseteq Pushers /\ popWait' \subseteq Poppers
    BY <1>4 DEF Push, Signalled, TypeOK
  <2>9. buf' \in [Pushers -> Seq(Byte)]
    BY <1>4, <2>4 DEF Push, TypeOK
  <2>10. pc' \in [Threads -> {"idle", "space", "fit", "push", "pop"}]
    BY <1>4 DEF Push, TypeOK, Threads
  <2>11. QED BY <1>4, <2>5, <2>6, <2>7, <2>8, <2>9, <2>10 DEF Push, TypeOK
<1>5. ASSUME NEW t \in Poppers, NEW n \in 1..MaxChunk, CallPop(t, n) PROVE TypeOK'
  BY <1>5 DEF CallPop, TypeOK, ring, hist, Threads
<1>6. ASSUME NEW t \in Poppers, PopSleep(t) PROVE TypeOK'
  BY <1>6 DEF PopSleep, Signalled, TypeOK, ring, hist, Threads
<1>7. ASSUME NEW t \in Poppers, Pop(t) PROVE TypeOK'
  <2> DEFINE pop_size == MinOf(want[t], size)
  <2>1. want[t] \in Nat /\ size \in Nat
    BY DEF TypeOK
  <2>2. pop_size \in Nat /\ pop_size <= size /\ pop_size <= MaxSize
    BY <2>1 DEF MinOf, TypeOK
  <2>3. CopyOut(q_, head, pop_size) \in Seq(Byte)
    BY <2>2, CopyOutType DEF TypeOK
  <2>4. head' \in Slots
    <3>1. head + pop_size \in Nat /\ head + pop_size < 2 * MaxSize
      BY <2>2 DEF TypeOK, Slots
    <3>2. QED BY <1>7, <3>1, ModWrap DEF Pop, Wrap, Slots
  <2>5. size' \in 0..MaxSize /\ popped' \in Seq(Byte)
    BY <1>7, <2>2, <2>3 DEF Pop, TypeOK
  <2>6. pushWait' \subseteq Pushers /\ popWait' \subseteq Poppers
    BY <1>7 DEF Pop, Signalled, TypeOK
  <2>7. QED BY <1>7, <2>4, <2>5, <2>6 DEF Pop, TypeOK, Threads
<1>8. ASSUME NEW t \in Threads, SpuriousWakeup(t) PROVE TypeOK'
  BY <1>8 DEF SpuriousWakeup, TypeOK, ring, hist
<1>9. CASE Release
  BY <1>9 DEF Release, Signalled, TypeOK, hist
<1>10. CASE Free
  <2>1. released' \in BOOLEAN
    BY <1>10, Zenon DEF Free
  <2>2. q_' \in [Slots -> Byte] /\ head' \in Slots /\ tail' \in Slots /\ size' \in 0..MaxSize
    BY <1>10, ZeroRing DEF Free
  <2>3. QED BY <1>10, <2>1, <2>2, EmptyIsSeq DEF Free, TypeOK
<1>11. CASE UNCHANGED vars
  BY <1>11 DEF vars, TypeOK
<1>12. QED
  BY <1>1, <1>2, <1>3, <1>4, <1>5, <1>6, <1>7, <1>8, <1>9, <1>10, <1>11
  DEF Next, FifoPush, FifoPop

(* Every field of fifo_t and every waiter set keeps its type: head and     *)
(* tail stay inside the ring and size never leaves 0..max_size, for all    *)
(* sizes and any number of threads.                                        *)
THEOREM TypeCorrect == Spec => []TypeOK
<1>1. Init => TypeOK
  <2> SUFFICES ASSUME Init PROVE TypeOK
    OBVIOUS
  <2>1. released \in BOOLEAN
    BY Zenon DEF Init
  <2>2. q_ \in [Slots -> Byte] /\ head \in Slots /\ tail \in Slots /\ size \in 0..MaxSize
    BY SizeAssumption, ZeroRing DEF Init
  <2>3. pc \in [Threads -> {"idle", "space", "fit", "push", "pop"}]
    BY DEF Init
  <2>4. buf \in [Pushers -> Seq(Byte)] /\ want \in [Poppers -> Nat]
    BY EmptyIsSeq DEF Init
  <2>5. QED BY <2>1, <2>2, <2>3, <2>4, EmptyIsSeq DEF Init, TypeOK
<1>2. QED BY <1>1, TypeStep, PTL DEF Spec
-----------------------------------------------------------------------------
(* The inductive form of stream integrity.  It is stated slot by slot and  *)
(* without modulo(), so that each step is linear arithmetic.               *)
RingInv ==
  /\ tail = Wrap(head + size)
  /\ Len(pushed) = Len(popped) + size
  /\ \A i \in 1..Len(popped) : popped[i] = pushed[i]
  /\ \A i \in 0..(size - 1) : q_[Wrap(head + i)] = pushed[Len(popped) + i + 1]

(* What fifo_push's memcpy()s leave in the ring: the old bytes where they  *)
(* were, the new ones right behind them, across the end if need be.        *)
LEMMA CopyInSlots ==
  ASSUME NEW r \in [Slots -> Byte], NEW h \in Slots, NEW z \in 0..MaxSize,
         NEW s \in Seq(Byte), z + Len(s) <= MaxSize,
         NEW i \in 0..(z + Len(s) - 1)
  PROVE  CopyIn(r, Wrap(h + z), s)[Wrap(h + i)]
           = IF i < z THEN r[Wrap(h + i)] ELSE s[i - z + 1]
<1> DEFINE at == Wrap(h + z)
           j  == Wrap(h + i)
           n  == Len(s)
<1>1. at \in Slots /\ j \in Slots /\ n \in Nat
  BY SizeAssumption DEF Wrap, Slots
<1>2. CASE n <= MaxSize - at
  <2>1. CopyIn(r, at, s)[j] = IF at <= j /\ j < at + n THEN s[j - at + 1] ELSE r[j]
    BY <1>1, <1>2 DEF CopyIn
  <2>2. (at <= j /\ j < at + n) <=> ~(i < z)
    BY <1>1, <1>2, SizeAssumption DEF Wrap, Slots
  <2>3. ~(i < z) => j - at + 1 = i - z + 1
    BY <1>1, <1>2, SizeAssumption DEF Wrap, Slots
  <2>4. QED BY <2>1, <2>2, <2>3
<1>3. CASE n > MaxSize - at
  <2>1. CopyIn(r, at, s)[j] = IF at <= j THEN s[j - at + 1]
                              ELSE IF j < n - (MaxSize - at) THEN s[(MaxSize - at) + j + 1]
                              ELSE r[j]
    BY <1>1, <1>3, SizeAssumption DEF CopyIn, Slots
  <2>2. i < z => ~(at <= j) /\ ~(j < n - (MaxSize - at))
    BY <1>1, <1>3, SizeAssumption DEF Wrap, Slots
  <2>3. ~(i < z) /\ at <= j => j - at + 1 = i - z + 1
    BY <1>1, <1>3, SizeAssumption DEF Wrap, Slots
  <2>4. ~(i < z) /\ ~(at <= j) => /\ j < n - (MaxSize - at)
                                  /\ (MaxSize - at) + j + 1 = i - z + 1
    BY <1>1, <1>3, SizeAssumption DEF Wrap, Slots
  <2>5. QED BY <2>1, <2>2, <2>3, <2>4
<1>4. QED BY <1>1, <1>2, <1>3, SizeAssumption DEF Slots

(* What fifo_pop's memcpy()s read: slot after slot from head on.           *)
LEMMA CopyOutSlots ==
  ASSUME NEW r \in [Slots -> Byte], NEW h \in Slots, NEW n \in 0..MaxSize,
         NEW i \in 1..n
  PROVE  CopyOut(r, h, n)[i] = r[Wrap(h + i - 1)]
<1>1. CASE n <= MaxSize - h
  BY <1>1, SizeAssumption DEF CopyOut, Wrap, Slots
<1>2. CASE n > MaxSize - h
  BY <1>2, SizeAssumption DEF CopyOut, Wrap, Slots
<1>3. QED BY <1>1, <1>2, SizeAssumption DEF Slots

(* fifo_push and fifo_pop keep the ring and the history in step; nothing   *)
(* else touches either, except fifo_free, which starts both over.          *)
LEMMA RingStep == TypeOK /\ RingInv /\ [Next]_vars => RingInv'
<1> SUFFICES ASSUME TypeOK, RingInv, [Next]_vars PROVE RingInv'
  OBVIOUS
<1> USE SizeAssumption
<1>0. /\ tail = Wrap(head + size) /\ Len(pushed) = Len(popped) + size
      /\ Len(pushed) \in Nat /\ Len(popped) \in Nat
  BY DEF RingInv, TypeOK
<1>1. ASSUME UNCHANGED <<q_, head, tail, size, pushed, popped>> PROVE RingInv'
  BY <1>1 DEF RingInv, Wrap
<1>2. ASSUME NEW t \in Pushers, Push(t) PROVE RingInv'
  <2> DEFINE k == MinOf(Len(buf[t]), MaxSize - size)
             s == SubSeq(buf[t], 1, k)
  <2>1. buf[t] \in Seq(Byte) /\ Len(buf[t]) \in Nat /\ MaxSize - size \in Nat
    BY DEF TypeOK
  <2>2. k \in 0..Len(buf[t]) /\ k <= MaxSize - size
    BY <2>1 DEF MinOf
  <2>3. s \in Seq(Byte) /\ Len(s) = k
    BY <2>1, <2>2
  <2>4. /\ q_ \in [Slots -> Byte] /\ head \in Slots /\ size \in 0..MaxSize
        /\ pushed \in Seq(Byte) /\ popped \in Seq(Byte)
    BY DEF TypeOK
  <2>5. /\ q_' = CopyIn(q_, tail, s) /\ tail' = modulo(tail + k, MaxSize)
        /\ size' = size + k /\ pushed' = pushed \o s
        /\ head' = head /\ popped' = popped
    BY <1>2 DEF Push
  <2> HIDE DEF s, k
  <2>6. /\ Len(pushed') = Len(pushed) + k
        /\ \A i \in 1..Len(pushed) : pushed'[i] = pushed[i]
        /\ \A i \in 1..k : pushed'[Len(pushed) + i] = s[i]
    <3>1. pushed' = pushed \o s /\ Len(pushed) \in Nat /\ k \in Nat
      BY <2>1, <2>2, <2>4, <2>5
    <3>2. /\ Len(pushed \o s) = Len(pushed) + k
          /\ \A i \in 1..(Len(pushed) + k) : (pushed \o s)[i] =
                 IF i <= Len(pushed) THEN pushed[i] ELSE s[i - Len(pushed)]
      BY <2>3, <2>4, ConcatProperties
    <3>3. QED BY <3>1, <3>2
  <2>7. tail' = Wrap(head' + size')
    <3>1. tail + k \in Nat /\ tail + k < 2 * MaxSize
      BY <2>1, <2>2, <2>4 DEF TypeOK, Slots
    <3>2. tail' = Wrap(tail + k)
      BY <2>5, <3>1, ModWrap
    <3>3. tail = Wrap(head + size) /\ head' = head /\ size' = size + k
      BY <2>5, <1>0
    <3>4. k \in Nat /\ size + k <= MaxSize
      BY <2>1, <2>2, <2>4
    <3>5. Wrap(Wrap(head + size) + k) = Wrap(head + (size + k))
      BY <3>4, <2>4 DEF Wrap, Slots
    <3>6. QED BY <3>2, <3>3, <3>5
  <2>8. \A i \in 0..(size' - 1) : q_'[Wrap(head' + i)] = pushed'[Len(popped') + i + 1]
    <3>0. /\ q_' = CopyIn(q_, tail, s) /\ size' = size + k
          /\ head' = head /\ popped' = popped
      BY <2>5
    <3> SUFFICES ASSUME NEW i \in 0..(size' - 1)
                 PROVE  q_'[Wrap(head' + i)] = pushed'[Len(popped') + i + 1]
      OBVIOUS
    <3> i \in 0..(size + k - 1)
      <4>1. size' = size + k
        BY <3>0
      <4>2. QED BY <4>1, <2>1, <2>2, <2>4
    <3>1. CopyIn(q_, tail, s)[Wrap(head + i)]
            = IF i < size THEN q_[Wrap(head + i)] ELSE s[i - size + 1]
      <4>1. size + Len(s) <= MaxSize /\ i \in 0..(size + Len(s) - 1)
        BY <2>1, <2>2, <2>3, <2>4
      <4>2. QED BY <4>1, <2>3, <2>4, CopyInSlots DEF RingInv
    <3>2. CASE i < size
      <4>1. /\ q_[Wrap(head + i)] = pushed[Len(popped) + i + 1]
            /\ Len(popped) + i + 1 \in 1..Len(pushed)
        <5>1. i \in 0..(size - 1)
          BY <3>2, <2>4, <2>2, <2>1
        <5>2. QED BY <5>1, <1>0, <2>4 DEF RingInv
      <4>2. pushed'[Len(popped) + i + 1] = pushed[Len(popped) + i + 1]
        BY <4>1, <2>6
      <4>3. QED BY <3>0, <3>1, <3>2, <4>1, <4>2
    <3>3. CASE ~(i < size)
      <4>1. i - size + 1 \in 1..k /\ Len(popped) + i + 1 = Len(pushed) + (i - size + 1)
        BY <3>3, <2>4, <2>1, <2>2, <1>0
      <4>2. pushed'[Len(pushed) + (i - size + 1)] = s[i - size + 1]
        BY <4>1, <2>6
      <4>3. QED BY <3>0, <3>1, <3>3, <4>1, <4>2
    <3>4. QED BY <3>2, <3>3
  <2>9. Len(pushed') = Len(popped') + size'
    BY <2>4, <2>5, <2>6, <2>2, <2>1, <1>0
  <2>10. \A i \in 1..Len(popped') : popped'[i] = pushed'[i]
    BY <2>4, <2>5, <2>6 DEF RingInv
  <2>11. QED BY <2>7, <2>8, <2>9, <2>10 DEF RingInv
<1>3. ASSUME NEW t \in Poppers, Pop(t) PROVE RingInv'
  <2> DEFINE k == MinOf(want[t], size)
             d == CopyOut(q_, head, k)
  <2>1. want[t] \in Nat /\ size \in 0..MaxSize
    BY DEF TypeOK
  <2>2. k \in 0..MaxSize /\ k <= size
    BY <2>1 DEF MinOf
  <2>3. d \in Seq(Byte) /\ Len(d) = k
    BY <2>2, CopyOutType DEF TypeOK
  <2>4. /\ q_ \in [Slots -> Byte] /\ head \in Slots
        /\ pushed \in Seq(Byte) /\ popped \in Seq(Byte)
    BY DEF TypeOK
  <2>5. /\ popped' = popped \o d /\ head' = modulo(head + k, MaxSize)
        /\ size' = size - k /\ q_' = q_ /\ tail' = tail /\ pushed' = pushed
    BY <1>3 DEF Pop
  <2>6. \A i \in 1..k : d[i] = q_[Wrap(head + i - 1)]
    BY <2>2, <2>4, CopyOutSlots
  <2> HIDE DEF d, k
  <2>7. head' = Wrap(head + k)
    <3>1. head + k \in Nat /\ head + k < 2 * MaxSize
      BY <2>2, <2>4 DEF Slots
    <3>2. QED BY <2>5, <3>1, ModWrap
  <2>8. /\ Len(popped') = Len(popped) + k
        /\ \A i \in 1..Len(popped) : popped'[i] = popped[i]
        /\ \A i \in 1..k : popped'[Len(popped) + i] = d[i]
    <3>1. popped' = popped \o d /\ Len(popped) \in Nat /\ k \in Nat
      BY <2>2, <2>4, <2>5
    <3>2. /\ Len(popped \o d) = Len(popped) + k
          /\ \A i \in 1..(Len(popped) + k) : (popped \o d)[i] =
                 IF i <= Len(popped) THEN popped[i] ELSE d[i - Len(popped)]
      BY <2>3, <2>4, ConcatProperties
    <3>3. QED BY <3>1, <3>2
  <2>9. tail' = Wrap(head' + size')
    <3>1. Wrap(Wrap(head + k) + (size - k)) = Wrap(head + size)
      BY <2>1, <2>2, <2>4, WrapMoves
    <3>2. QED BY <1>0, <3>1, <2>5, <2>7
  <2>10. Len(pushed') = Len(popped') + size'
    BY <2>1, <2>2, <2>4, <2>5, <2>8, <1>0
  <2>11. \A i \in 1..Len(popped') : popped'[i] = pushed'[i]
    <3> SUFFICES ASSUME NEW i \in 1..(Len(popped) + k) PROVE popped'[i] = pushed[i]
      BY <2>5, <2>8
    <3>1. CASE i <= Len(popped)
      BY <3>1, <2>4, <2>8 DEF RingInv
    <3>2. CASE i > Len(popped)
      <4>1. PICK j \in 1..k : i = Len(popped) + j
        <5>1. i - Len(popped) \in 1..k
          BY <3>2, <2>2, <2>4
        <5>2. QED BY <5>1, <2>4
      <4>2. j - 1 \in 0..(size - 1) /\ head + (j - 1) = head + j - 1
        BY <2>1, <2>2, <2>4 DEF Slots
      <4>3. popped'[i] = q_[Wrap(head + (j - 1))]
        BY <4>1, <4>2, <2>6, <2>8
      <4>4. q_[Wrap(head + (j - 1))] = pushed[Len(popped) + (j - 1) + 1]
        BY <4>2 DEF RingInv
      <4>5. Len(popped) + (j - 1) + 1 = i
        BY <4>1, <2>4
      <4>6. QED BY <4>3, <4>4, <4>5
    <3>3. QED BY <3>1, <3>2, <2>4
  <2>12. \A i \in 0..(size' - 1) : q_'[Wrap(head' + i)] = pushed'[Len(popped') + i + 1]
    <3> SUFFICES ASSUME NEW i \in 0..(size - k - 1)
                 PROVE  q_[Wrap(Wrap(head + k) + i)] = pushed[Len(popped) + k + i + 1]
      BY <2>5, <2>7, <2>8, <2>1, <2>2, <2>4
    <3>1. i + k \in 0..(size - 1)
      BY <2>1, <2>2
    <3>2. Wrap(Wrap(head + k) + i) = Wrap(head + (i + k))
      BY <3>1, <2>1, <2>2, <2>4 DEF Wrap, Slots
    <3>3. q_[Wrap(head + (i + k))] = pushed[Len(popped) + (i + k) + 1]
      BY <3>1 DEF RingInv
    <3>4. Len(popped) + (i + k) + 1 = Len(popped) + k + i + 1
      BY <2>2, <2>4
    <3>5. QED BY <3>2, <3>3, <3>4
  <2>13. QED BY <2>9, <2>10, <2>11, <2>12 DEF RingInv
<1>4. CASE Free
  BY <1>4, EmptyIsSeq DEF Free, RingInv, Wrap
<1>5. QED
  BY <1>1, <1>2, <1>3, <1>4
  DEF Next, FifoPush, FifoPop, CallPush, GetSpace, PushSleep, CallPop, PopSleep,
      SpuriousWakeup, Release, ring, hist, vars

(* The slot-by-slot form gives the statement about whole sequences.        *)
LEMMA RingGivesStream == TypeOK /\ RingInv => StreamIntegrity
<1> SUFFICES ASSUME TypeOK, RingInv PROVE StreamIntegrity
  OBVIOUS
<1> USE SizeAssumption
<1>1. /\ q_ \in [Slots -> Byte] /\ head \in Slots /\ size \in 0..MaxSize
      /\ pushed \in Seq(Byte) /\ popped \in Seq(Byte)
  BY DEF TypeOK
<1>2. \A i \in 1..size : modulo(head + i - 1, MaxSize) = Wrap(head + (i - 1))
  <2> TAKE i \in 1..size
  <2>1. head + i - 1 \in Nat /\ head + i - 1 < 2 * MaxSize
    BY <1>1 DEF Slots
  <2>2. head + i - 1 = head + (i - 1)
    BY <1>1 DEF Slots
  <2>3. QED BY <2>1, <2>2, ModWrap
<1>3. Contents \in Seq(Byte) /\ Len(Contents) = size
  <2>1. \A i \in 1..size : q_[modulo(head + i - 1, MaxSize)] \in Byte
    BY <1>1, <1>2 DEF Wrap, Slots
  <2>2. QED BY <2>1, <1>1 DEF Contents
<1>4. \A i \in 1..size : Contents[i] = pushed[Len(popped) + i]
  <2> TAKE i \in 1..size
  <2>1. Contents[i] = q_[Wrap(head + (i - 1))]
    BY <1>2 DEF Contents
  <2>2. i - 1 \in 0..(size - 1)
    BY <1>1
  <2>3. q_[Wrap(head + (i - 1))] = pushed[Len(popped) + (i - 1) + 1]
    BY <2>2 DEF RingInv
  <2>4. Len(popped) + (i - 1) + 1 = Len(popped) + i
    BY <1>1
  <2>5. QED BY <2>1, <2>3, <2>4
<1> HIDE DEF Contents
<1>5. /\ popped \o Contents \in Seq(Byte)
      /\ Len(popped \o Contents) = Len(pushed)
  BY <1>1, <1>3 DEF RingInv
<1>6. \A i \in 1..Len(pushed) : pushed[i] = (popped \o Contents)[i]
  <2> TAKE i \in 1..Len(pushed)
  <2>1. CASE i <= Len(popped)
    BY <2>1, <1>1, <1>3 DEF RingInv
  <2>2. CASE i > Len(popped)
    <3>1. i - Len(popped) \in 1..size /\ Len(popped) + (i - Len(popped)) = i
      BY <2>2, <1>1 DEF RingInv
    <3>2. (popped \o Contents)[i] = Contents[i - Len(popped)]
      BY <2>2, <3>1, <1>1, <1>3 DEF RingInv
    <3>3. QED BY <3>1, <3>2, <1>4
  <2>3. i \in Nat /\ Len(popped) \in Nat
    BY <1>1
  <2>4. i <= Len(popped) \/ i > Len(popped)
    BY <2>3
  <2>5. QED BY <2>1, <2>2, <2>4, Zenon
<1>7. QED BY <1>1, <1>5, <1>6, SeqEqual DEF StreamIntegrity

(* For every ring size, every number of threads and every way the callers  *)
(* cut the stream into calls, the bytes read are the bytes written, in     *)
(* order, with nothing lost or repeated.                                   *)
THEOREM StreamIntegrityHolds == Spec => []StreamIntegrity
<1>1. Init => RingInv
  BY EmptyIsSeq, SizeAssumption DEF Init, RingInv, Wrap
<1>2. QED
  BY <1>1, TypeCorrect, RingStep, RingGivesStream, PTL DEF Spec
-----------------------------------------------------------------------------
(* Sleepers are where they went to sleep; without this a signal could be   *)
(* spent on a thread that is not in the call.                              *)
SleepersInside ==
  /\ \A t \in popWait : pc[t] = "pop"
  /\ \A t \in pushWait : InPush(t)

WakeupInv == SleepersInside /\ NoLostWakeup

(* One signal wakes one sleeper, if there is one.                          *)
LEMMA SignalWakesOne ==
  ASSUME NEW w, NEW v \in Signalled(w)
  PROVE  /\ v \subseteq w
         /\ w # {} => \E t \in w : t \notin v
<1>1. CASE w = {}
  BY <1>1 DEF Signalled
<1>2. CASE w # {}
  BY <1>2 DEF Signalled
<1>3. QED BY <1>1, <1>2

(* Every step that creates a reason to wake, or that lets an awake thread  *)
(* leave, signals; a thread goes to sleep only when it has no reason to    *)
(* stay awake.                                                             *)
LEMMA WakeupStep == TypeOK /\ WakeupInv /\ [Next]_vars => WakeupInv'
<1> SUFFICES ASSUME TypeOK, WakeupInv, [Next]_vars PROVE WakeupInv'
  OBVIOUS
<1> USE ThreadAssumption DEF WakeupInv, SleepersInside, NoLostWakeup, InPush
<1>1. ASSUME NEW t \in Pushers, NEW s \in Chunks, NEW entry \in {"space", "push"},
             CallPush(t, s, entry)
      PROVE  WakeupInv'
  BY <1>1 DEF CallPush, TypeOK, ring, hist, Threads
<1>2. ASSUME NEW t \in Pushers, GetSpace(t) PROVE WakeupInv'
  BY <1>2 DEF GetSpace, TypeOK, ring, hist, Threads
<1>3. ASSUME NEW t \in Pushers, PushSleep(t) PROVE WakeupInv'
  <2>1. popWait' \subseteq popWait /\ (popWait # {} => \E u \in popWait : u \notin popWait')
    BY <1>3, SignalWakesOne DEF PushSleep
  <2>2. QED BY <1>3, <2>1, SizeAssumption DEF PushSleep, TypeOK, ring, hist, Threads
<1>4. ASSUME NEW t \in Pushers, Push(t) PROVE WakeupInv'
  <2>1. popWait' \subseteq popWait /\ (popWait # {} => \E u \in popWait : u \notin popWait')
    BY <1>4, SignalWakesOne DEF Push
  <2>2. pushWait' \subseteq pushWait /\ (pushWait # {} => \E u \in pushWait : u \notin pushWait')
    BY <1>4, SignalWakesOne DEF Push
  <2>3. t \notin pushWait /\ t \notin Poppers
    BY <1>4 DEF Push
  <2>4. \A u \in Threads : u # t => pc'[u] = pc[u]
    BY <1>4 DEF Push, TypeOK
  <2>5. SleepersInside'
    BY <2>1, <2>2, <2>3, <2>4 DEF TypeOK, Threads
  <2>6. popWait' # {} => \E u \in Poppers \ popWait' : pc'[u] = "pop"
    BY <2>1, <2>3, <2>4 DEF TypeOK, Threads
  <2>7. pushWait' # {} => \E u \in Pushers \ pushWait' : InPush(u)'
    BY <2>2, <2>3, <2>4 DEF TypeOK, Threads
  <2>8. QED BY <2>5, <2>6, <2>7
<1>5. ASSUME NEW t \in Poppers, NEW n \in 1..MaxChunk, CallPop(t, n) PROVE WakeupInv'
  BY <1>5 DEF CallPop, TypeOK, ring, hist, Threads
<1>6. ASSUME NEW t \in Poppers, PopSleep(t) PROVE WakeupInv'
  <2>1. pushWait' \subseteq pushWait /\ (pushWait # {} => \E u \in pushWait : u \notin pushWait')
    BY <1>6, SignalWakesOne DEF PopSleep
  <2>2. QED BY <1>6, <2>1, SizeAssumption DEF PopSleep, TypeOK, ring, hist, Threads
<1>7. ASSUME NEW t \in Poppers, Pop(t) PROVE WakeupInv'
  <2>1. popWait' \subseteq popWait /\ (popWait # {} => \E u \in popWait : u \notin popWait')
    BY <1>7, SignalWakesOne DEF Pop
  <2>2. pushWait' \subseteq pushWait /\ (pushWait # {} => \E u \in pushWait : u \notin pushWait')
    BY <1>7, SignalWakesOne DEF Pop
  <2>3. t \notin popWait /\ t \notin Pushers
    BY <1>7 DEF Pop
  <2>4. \A u \in Threads : u # t => pc'[u] = pc[u]
    BY <1>7 DEF Pop, TypeOK
  <2>5. SleepersInside'
    BY <2>1, <2>2, <2>3, <2>4 DEF TypeOK, Threads
  <2>6. popWait' # {} => \E u \in Poppers \ popWait' : pc'[u] = "pop"
    BY <2>1, <2>3, <2>4 DEF TypeOK, Threads
  <2>7. pushWait' # {} => \E u \in Pushers \ pushWait' : InPush(u)'
    BY <2>2, <2>3, <2>4 DEF TypeOK, Threads
  <2>8. QED BY <2>5, <2>6, <2>7
<1>8. ASSUME NEW t \in Threads, SpuriousWakeup(t) PROVE WakeupInv'
  BY <1>8 DEF SpuriousWakeup, TypeOK, ring, hist, Threads
<1>9. CASE Release
  <2>1. popWait' \subseteq popWait /\ (popWait # {} => \E u \in popWait : u \notin popWait')
    BY <1>9, SignalWakesOne DEF Release
  <2>2. pushWait' \subseteq pushWait /\ (pushWait # {} => \E u \in pushWait : u \notin pushWait')
    BY <1>9, SignalWakesOne DEF Release
  <2>3. QED BY <1>9, <2>1, <2>2 DEF Release, TypeOK, hist, Threads
<1>10. CASE Free
  BY <1>10 DEF Free, TypeOK, Threads
<1>11. CASE UNCHANGED vars
  BY <1>11 DEF vars
<1>12. QED
  BY <1>1, <1>2, <1>3, <1>4, <1>5, <1>6, <1>7, <1>8, <1>9, <1>10, <1>11
  DEF Next, FifoPush, FifoPop

(* For any number of pushers and poppers no wakeup of the fifo's two       *)
(* condition variables is ever lost, before or after fifo_release.         *)
THEOREM NoLostWakeupHolds == Spec => []NoLostWakeup
<1>1. Init => WakeupInv
  BY DEF Init, WakeupInv, SleepersInside, NoLostWakeup
<1>2. WakeupInv => NoLostWakeup
  BY DEF WakeupInv
<1>3. QED BY <1>1, <1>2, TypeCorrect, WakeupStep, PTL DEF Spec
-----------------------------------------------------------------------------
(* With one pusher the only steps between fifo_getspace and fifo_push are  *)
(* pops, which make room, and fifo_free, which waits for the pusher.       *)
LEMMA SpaceStep == TypeOK /\ SpaceStaysFree /\ [Next]_vars => SpaceStaysFree'
<1> SUFFICES ASSUME TypeOK, SpaceStaysFree, [Next]_vars,
                    \A t, u \in Pushers : t = u,
                    NEW p \in Pushers, (pc[p] = "fit")'
             PROVE  (size + Len(buf[p]) <= MaxSize)'
  BY DEF SpaceStaysFree
<1> USE SizeAssumption, ThreadAssumption
<1>0. pc[p] = "fit" => size + Len(buf[p]) <= MaxSize
  BY DEF SpaceStaysFree
<1>1. ASSUME UNCHANGED <<size, buf, pc>> PROVE (size + Len(buf[p]) <= MaxSize)'
  BY <1>0, <1>1
<1>2. ASSUME NEW t \in Pushers, NEW s \in Chunks, NEW entry \in {"space", "push"},
             CallPush(t, s, entry)
      PROVE  (size + Len(buf[p]) <= MaxSize)'
  BY <1>2 DEF CallPush, TypeOK, Threads
<1>3. ASSUME NEW t \in Pushers, GetSpace(t) PROVE (size + Len(buf[p]) <= MaxSize)'
  <2>1. t = p /\ buf[p] \in Seq(Byte) /\ Len(buf[p]) \in Nat /\ size \in 0..MaxSize
    BY DEF TypeOK
  <2>2. pc'[p] # "idle"
    OBVIOUS
  <2>3. MaxSize - size >= Len(buf[p]) /\ buf' = buf /\ size' = size
    BY <1>3, <2>1, <2>2 DEF GetSpace, fifo_getspace, TypeOK, ring, Threads
  <2>4. QED BY <2>1, <2>3
<1>4. ASSUME NEW t \in Pushers, Push(t) PROVE (size + Len(buf[p]) <= MaxSize)'
  <2> DEFINE k == MinOf(Len(buf[p]), MaxSize - size)
  <2>1. t = p /\ buf[p] \in Seq(Byte) /\ Len(buf[p]) \in Nat /\ size \in 0..MaxSize
    BY DEF TypeOK
  <2>2. pc'[p] = IF k = 0 \/ k = Len(buf[p]) THEN "idle" ELSE pc[p]
    BY <1>4, <2>1 DEF Push, TypeOK, Threads
  <2>3. pc[p] = "fit"
    BY <2>2
  <2>4. k = Len(buf[p])
    BY <2>1, <2>3, <1>0 DEF MinOf
  <2>5. QED BY <2>2, <2>4
<1>5. ASSUME NEW t \in Poppers, Pop(t) PROVE (size + Len(buf[p]) <= MaxSize)'
  <2>1. /\ buf[p] \in Seq(Byte) /\ Len(buf[p]) \in Nat /\ size \in 0..MaxSize
        /\ want[t] \in Nat
    BY DEF TypeOK
  <2>2. t # p /\ pc'[p] = pc[p] /\ buf' = buf /\ size' = size - MinOf(want[t], size)
    BY <1>5 DEF Pop, TypeOK, Threads
  <2>3. MinOf(want[t], size) \in 0..size
    BY <2>1 DEF MinOf
  <2>4. QED BY <1>0, <2>1, <2>2, <2>3
<1>6. ASSUME NEW t \in Poppers, NEW n \in 1..MaxChunk, CallPop(t, n)
      PROVE  (size + Len(buf[p]) <= MaxSize)'
  BY <1>0, <1>6 DEF CallPop, ring, TypeOK, Threads
<1>7. CASE Free
  BY <1>7 DEF Free, Threads
<1>8. QED
  BY <1>1, <1>2, <1>3, <1>4, <1>5, <1>6, <1>7
  DEF Next, FifoPush, FifoPop, PushSleep, PopSleep, SpuriousWakeup, Release, ring, hist, vars

(* With a single decoder thread, the space partial_write saw is still      *)
(* there when it pushes, whatever the readers do in between.               *)
THEOREM SpaceStaysFreeHolds == Spec => []SpaceStaysFree
<1>1. Init => SpaceStaysFree
  BY DEF Init, SpaceStaysFree, Threads
<1>2. QED BY <1>1, TypeCorrect, SpaceStep, PTL DEF Spec
-----------------------------------------------------------------------------
(* Each step of the ring is a step of the abstract pipe, or none.          *)
LEMMA RefinementStep ==
  TypeOK /\ RingInv /\ TypeOK' /\ RingInv' /\ [Next]_vars => [Pipe!Next]_(Pipe!vars)
<1> SUFFICES ASSUME TypeOK, RingInv, TypeOK', RingInv', [Next]_vars
             PROVE  [Pipe!Next]_(Pipe!vars)
  OBVIOUS
<1>0. /\ pushed \in Seq(Byte) /\ popped \in Seq(Byte)
      /\ pushed' \in Seq(Byte) /\ popped' \in Seq(Byte)
      /\ size \in 0..MaxSize /\ size' \in 0..MaxSize
      /\ Len(pushed) \in Nat /\ Len(popped) \in Nat
      /\ Len(pushed') \in Nat /\ Len(popped') \in Nat
  BY DEF TypeOK
<1>1. ASSUME UNCHANGED <<pushed, popped, released>> PROVE [Pipe!Next]_(Pipe!vars)
  BY <1>1 DEF Pipe!vars
<1>2. ASSUME NEW t \in Pushers, Push(t) PROVE Pipe!Put
  <2> DEFINE s == SubSeq(buf[t], 1, MinOf(Len(buf[t]), MaxSize - size))
  <2>1. s \in Seq(Byte)
    <3>1. buf[t] \in Seq(Byte) /\ Len(buf[t]) \in Nat /\ MaxSize - size \in Nat
      BY SizeAssumption DEF TypeOK
    <3>2. MinOf(Len(buf[t]), MaxSize - size) \in 0..Len(buf[t])
      BY <3>1 DEF MinOf
    <3>3. QED BY <3>1, <3>2
  <2>2. pushed' = pushed \o s /\ popped' = popped /\ released' = released
    BY <1>2 DEF Push
  <2> HIDE DEF s
  <2>3. Len(pushed') >= Len(pushed)
    BY <2>1, <2>2, <1>0
  <2>4. SubSeq(pushed', 1, Len(pushed)) = pushed
    BY <2>1, <2>2, <1>0, SubSeqOfConcat1, SubSeqFull
  <2>5. Len(pushed') - Len(popped) <= MaxSize
    BY <1>0, <2>2, SizeAssumption DEF RingInv
  <2>6. QED BY <1>0, <2>2, <2>3, <2>4, <2>5 DEF Pipe!Put
<1>3. ASSUME NEW t \in Poppers, Pop(t) PROVE Pipe!Get
  <2> DEFINE k == MinOf(want[t], size)
  <2>1. k \in Nat /\ k <= size
    BY <1>0, SizeAssumption DEF TypeOK, MinOf
  <2>2. pushed' = pushed /\ released' = released /\ size' = size - k
    BY <1>3 DEF Pop
  <2> HIDE DEF k
  <2>3. Len(popped') = Len(popped) + k /\ Len(popped) + k <= Len(pushed)
    BY <1>0, <2>1, <2>2 DEF RingInv
  <2>4. /\ SubSeq(pushed, 1, Len(popped) + k) \in Seq(Byte)
        /\ Len(SubSeq(pushed, 1, Len(popped) + k)) = Len(popped) + k
        /\ \A i \in 1..(Len(popped) + k) :
              SubSeq(pushed, 1, Len(popped) + k)[i] = pushed[i]
    BY <1>0, <2>1, <2>3
  <2>5. \A i \in 1..Len(popped') : popped'[i] = pushed[i]
    BY <2>2 DEF RingInv
  <2>6. popped' = SubSeq(pushed, 1, Len(popped) + k)
    BY <1>0, <2>3, <2>4, <2>5, SeqEqual
  <2>7. k \in 0..(Len(pushed) - Len(popped))
    BY <1>0, <2>1, <2>3
  <2>8. QED BY <2>2, <2>6, <2>7 DEF Pipe!Get
<1>4. CASE Release
  BY <1>4 DEF Release, hist, Pipe!Next, Pipe!Close
<1>5. CASE Free
  BY <1>5 DEF Free, Pipe!Next, Pipe!Reset
<1>6. QED
  BY <1>1, <1>2, <1>3, <1>4, <1>5
  DEF Next, FifoPush, FifoPop, CallPush, GetSpace, PushSleep, CallPop, PopSleep,
      SpuriousWakeup, ring, hist, vars, Pipe!Next

(* fifo.c implements the abstract pipe: whatever an application can see of *)
(* it is a behaviour of ByteStream, for every size and number of threads.  *)
THEOREM FifoImplementsPipe == Spec => PipeSpec
<1>1. Init => RingInv
  BY EmptyIsSeq, SizeAssumption DEF Init, RingInv, Wrap
<1>2. Init => Pipe!Init
  BY DEF Init, Pipe!Init
<1>3. QED
  BY <1>1, <1>2, TypeCorrect, RingStep, RefinementStep, PTL
  DEF Spec, PipeSpec, Pipe!Spec
=============================================================================
