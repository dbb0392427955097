--------------------------- MODULE ThrPoolProofs ---------------------------
(***************************************************************************)
(* Proofs about the blocking ring of qbuffer.c, for every size, every      *)
(* number of threads and every set of entries (of the constants they use   *)
(* only that the size is not 0), and then about the pool of coding threads *)
(* of thr_pool.c on it, for any number of workers, producers and jobs: no  *)
(* job is lost or run twice, and a pool that was killed has run every job  *)
(* it had.                                                                 *)
(***************************************************************************)
EXTENDS ThrPool, SequenceTheorems, FiniteSetTheorems, WellFoundedInduction, TLAPS

(* The index n lands on, n being at most one lap away.                     *)
Wrap(n) == IF n < 0 THEN n + MaxSize ELSE IF n < MaxSize THEN n ELSE n - MaxSize

(* modulo() on the sums and differences qbuffer.c forms.                   *)
LEMMA ModWrap ==
  ASSUME NEW n \in Int, -1 <= n, n < 2 * MaxSize
  PROVE  modulo(n, MaxSize) = Wrap(n) /\ modulo(n, MaxSize) \in Slots
<1> USE SizeAssumption
<1> DEFINE k == Wrap(n)
<1>1. k \in 0..(MaxSize - 1)
  BY DEF Wrap
<1>2. n = k \/ n = k + MaxSize \/ n = k - MaxSize
  BY DEF Wrap
<1>3. k % MaxSize = k /\ (k + MaxSize) % MaxSize = k /\ (k - MaxSize) % MaxSize = k
  <2> HIDE DEF k
  <2>1. k % MaxSize = k BY <1>1
  <2>2. (k + MaxSize) % MaxSize = k BY <1>1
  <2>3. (k - MaxSize) % MaxSize = k BY <1>1
  <2>4. QED BY <2>1, <2>2, <2>3
<1>4. n % MaxSize = k
  BY <1>2, <1>3
<1>5. QED BY <1>1, <1>3, <1>4 DEF modulo, Slots
-----------------------------------------------------------------------------
(* Types, and that a thread pushes an entry, never NULL.                   *)
PushesEntries == \A t \in Threads : op[t] \in {"back", "front"} => arg[t] \in Entry

TypeInv == QTypeOK /\ PushesEntries

(* A signal leaves a subset of the waiters, one fewer if there are any.    *)
LEMMA SignalWakesOne ==
  ASSUME NEW w, NEW v \in Signalled(w)
  PROVE  /\ v \subseteq w
         /\ w # {} => \E t \in w : t \notin v
<1>1. CASE w = {}
  BY <1>1 DEF Signalled
<1>2. CASE w # {}
  BY <1>2 DEF Signalled
<1>3. QED BY <1>1, <1>2

(* What a call that returns does to the waiters and to the threads.        *)
LEMMA LeaveFacts ==
  ASSUME TypeInv, NEW t \in Threads, Leave(t), t \notin pushWait, t \notin popWait
  PROVE  /\ op' \in [Threads -> {"none", "back", "front", "pop"}]
         /\ arg' \in [Threads -> Entry \cup {NULL}]
         /\ PushesEntries'
         /\ pushWait' \subseteq {u \in Threads : op'[u] \in {"back", "front"}}
         /\ popWait' \subseteq {u \in Threads : op'[u] = "pop"}
         /\ \A u \in Threads : u # t => op'[u] = op[u]
         /\ popWait' \subseteq popWait /\ (popWait # {} => \E u \in popWait : u \notin popWait')
         /\ pushWait' \subseteq pushWait /\ (pushWait # {} => \E u \in pushWait : u \notin pushWait')
<1>1. popWait' \subseteq popWait /\ (popWait # {} => \E u \in popWait : u \notin popWait')
  BY SignalWakesOne DEF Leave
<1>2. pushWait' \subseteq pushWait /\ (pushWait # {} => \E u \in pushWait : u \notin pushWait')
  BY SignalWakesOne DEF Leave
<1>3. /\ op' = [op EXCEPT ![t] = "none"] /\ op \in [Threads -> {"none", "back", "front", "pop"}]
      /\ arg' = [arg EXCEPT ![t] = NULL] /\ arg \in [Threads -> Entry \cup {NULL}]
      /\ pushWait \subseteq {u \in Threads : op[u] \in {"back", "front"}}
      /\ popWait \subseteq {u \in Threads : op[u] = "pop"}
  BY DEF Leave, TypeInv, QTypeOK
<1>4. op'[t] = "none" /\ \A u \in Threads : u # t => op'[u] = op[u] /\ arg'[u] = arg[u]
  BY <1>3
<1>5. PushesEntries'
  BY <1>4 DEF PushesEntries, TypeInv
<1>6. QED BY <1>1, <1>2, <1>3, <1>4, <1>5

LEMMA TypeStep == TypeInv /\ [QNext]_qvars => TypeInv'
<1> SUFFICES ASSUME TypeInv, [QNext]_qvars PROVE TypeInv'
  OBVIOUS
<1> USE SizeAssumption
<1>0. /\ tail \in Slots /\ head \in Slots /\ size \in 0..MaxSize /\ 0 \in Slots
      /\ modulo(tail + 1, MaxSize) \in Slots /\ modulo(tail - 1, MaxSize) \in Slots
      /\ modulo(head + 1, MaxSize) \in Slots
  <2>1. tail \in Slots /\ head \in Slots /\ size \in 0..MaxSize /\ 0 \in Slots
    BY DEF TypeInv, QTypeOK, Slots
  <2>2. QED BY <2>1, ModWrap DEF Slots
<1>1. ASSUME NEW t \in Threads, NEW e \in Entry, NEW where \in {"back", "front"},
             CallPush(t, e, where)
      PROVE  TypeInv'
  BY <1>1 DEF CallPush, TypeInv, QTypeOK, PushesEntries, ring
<1>2. ASSUME NEW t \in Threads, CallPop(t) PROVE TypeInv'
  BY <1>2 DEF CallPop, TypeInv, QTypeOK, PushesEntries, ring
<1>3. ASSUME NEW t \in Threads, PushSleep(t) PROVE TypeInv'
  <2>1. popWait' \subseteq popWait
    BY <1>3, SignalWakesOne DEF PushSleep
  <2>2. QED BY <1>3, <2>1 DEF PushSleep, Pushing, TypeInv, QTypeOK, PushesEntries, ring
<1>4. ASSUME NEW t \in Threads, PushBack(t) PROVE TypeInv'
  <2>1. t \notin pushWait /\ t \notin popWait
    BY <1>4 DEF PushBack, Pushing, TypeInv, QTypeOK
  <2>2. Leave(t) BY <1>4 DEF PushBack
  <2>3. q_' \in [Slots -> Entry \cup {NULL}] /\ size' \in 0..MaxSize /\ head' \in Slots /\ tail' \in Slots
    BY <1>4, <1>0 DEF PushBack, Pushing, TypeInv, QTypeOK, PushesEntries
  <2>4. QED BY <2>1, <2>2, <2>3, LeaveFacts DEF TypeInv, QTypeOK
<1>5. ASSUME NEW t \in Threads, PushFront(t) PROVE TypeInv'
  <2>1. t \notin pushWait /\ t \notin popWait
    BY <1>5 DEF PushFront, Pushing, TypeInv, QTypeOK
  <2>2. Leave(t) BY <1>5 DEF PushFront
  <2>3. q_' \in [Slots -> Entry \cup {NULL}] /\ size' \in 0..MaxSize /\ head' \in Slots /\ tail' \in Slots
    BY <1>5, <1>0 DEF PushFront, Pushing, TypeInv, QTypeOK, PushesEntries
  <2>4. QED BY <2>1, <2>2, <2>3, LeaveFacts DEF TypeInv, QTypeOK
<1>6. ASSUME NEW t \in Threads, PopSleep(t) PROVE TypeInv'
  <2>1. pushWait' \subseteq pushWait
    BY <1>6, SignalWakesOne DEF PopSleep
  <2>2. QED BY <1>6, <2>1 DEF PopSleep, Popping, TypeInv, QTypeOK, PushesEntries, ring
<1>7. ASSUME NEW t \in Threads, Pop(t) PROVE TypeInv'
  <2>1. t \notin pushWait /\ t \notin popWait
    BY <1>7 DEF Pop, Popping, TypeInv, QTypeOK
  <2>2. Leave(t) BY <1>7 DEF Pop
  <2>3. q_' \in [Slots -> Entry \cup {NULL}] /\ size' \in 0..MaxSize /\ head' \in Slots /\ tail' \in Slots
    BY <1>7, <1>0 DEF Pop, TypeInv, QTypeOK
  <2>4. QED BY <2>1, <2>2, <2>3, LeaveFacts DEF TypeInv, QTypeOK
<1>8. ASSUME NEW t \in Threads, SpuriousWakeup(t) PROVE TypeInv'
  BY <1>8 DEF SpuriousWakeup, TypeInv, QTypeOK, PushesEntries, ring
<1>9. CASE Free
  BY <1>9, <1>0 DEF Free, TypeInv, QTypeOK, PushesEntries
<1>10. CASE UNCHANGED qvars
  BY <1>10 DEF qvars, TypeInv, QTypeOK, PushesEntries
<1>11. QED
  BY <1>1, <1>2, <1>3, <1>4, <1>5, <1>6, <1>7, <1>8, <1>9, <1>10 DEF QNext, QPush

LEMMA TypeInvHolds == QSpec => []TypeInv
<1>1. QInit => TypeInv
  BY SizeAssumption DEF QInit, TypeInv, QTypeOK, PushesEntries, Slots
<1>2. QED BY <1>1, TypeStep, PTL DEF QSpec

(* The indices stay in the ring, the count between empty and full, and a   *)
(* thread sleeps only inside the call that put it to sleep.                *)
THEOREM TypeCorrect == QSpec => []QTypeOK
<1>1. TypeInv => QTypeOK
  BY DEF TypeInv
<1>2. QED BY <1>1, TypeInvHolds, PTL
-----------------------------------------------------------------------------
(* While somebody sleeps without a reason, somebody of its kind is awake.  *)
LEMMA WakeupStep == TypeInv /\ NoWakeupLost /\ [QNext]_qvars => NoWakeupLost'
<1> SUFFICES ASSUME TypeInv, NoWakeupLost, [QNext]_qvars PROVE NoWakeupLost'
  OBVIOUS
<1> USE SizeAssumption DEF Pushing, Popping
<1>0. /\ size \in 0..MaxSize
      /\ op \in [Threads -> {"none", "back", "front", "pop"}]
      /\ pushWait \subseteq {t \in Threads : op[t] \in {"back", "front"}}
      /\ popWait \subseteq {t \in Threads : op[t] = "pop"}
  BY DEF TypeInv, QTypeOK
<1>1. ASSUME NEW t \in Threads, NEW e \in Entry, NEW where \in {"back", "front"},
             CallPush(t, e, where)
      PROVE  NoWakeupLost'
  BY <1>0, <1>1 DEF CallPush, NoWakeupLost, ring
<1>2. ASSUME NEW t \in Threads, CallPop(t) PROVE NoWakeupLost'
  BY <1>0, <1>2 DEF CallPop, NoWakeupLost, ring
<1>3. ASSUME NEW t \in Threads, PushSleep(t) PROVE NoWakeupLost'
  <2>1. popWait' \subseteq popWait /\ (popWait # {} => \E u \in popWait : u \notin popWait')
    BY <1>3, SignalWakesOne DEF PushSleep
  <2>2. QED BY <1>0, <1>3, <2>1 DEF PushSleep, NoWakeupLost, ring
<1>4. ASSUME NEW t \in Threads, Leave(t), t \notin pushWait, t \notin popWait PROVE NoWakeupLost'
  <2>1. popWait' # {} => \E u \in Threads : Popping(u)'
    <3> SUFFICES ASSUME popWait' # {} PROVE \E u \in Threads : Popping(u)'
      OBVIOUS
    <3>1. PICK u \in popWait : u \notin popWait'
      BY <1>4, LeaveFacts
    <3>2. u \in Threads /\ u # t /\ op[u] = "pop"
      BY <1>0, <1>4, <3>1
    <3>3. op'[u] = "pop"
      BY <1>4, <3>2, LeaveFacts
    <3>4. QED BY <3>1, <3>2, <3>3
  <2>2. pushWait' # {} => \E u \in Threads : Pushing(u)'
    <3> SUFFICES ASSUME pushWait' # {} PROVE \E u \in Threads : Pushing(u)'
      OBVIOUS
    <3>1. PICK u \in pushWait : u \notin pushWait'
      BY <1>4, LeaveFacts
    <3>2. u \in Threads /\ u # t /\ op[u] \in {"back", "front"}
      BY <1>0, <1>4, <3>1
    <3>3. op'[u] = op[u]
      BY <1>4, <3>2, LeaveFacts
    <3>4. QED BY <3>1, <3>2, <3>3
  <2>3. QED BY <2>1, <2>2 DEF NoWakeupLost
<1>5. ASSUME NEW t \in Threads, PushBack(t) \/ PushFront(t) \/ Pop(t) PROVE NoWakeupLost'
  <2>1. Leave(t) /\ t \notin pushWait /\ t \notin popWait
    BY <1>0, <1>5 DEF PushBack, PushFront, Pop
  <2>2. QED BY <1>4, <2>1
<1>6. ASSUME NEW t \in Threads, PopSleep(t) PROVE NoWakeupLost'
  <2>1. pushWait' \subseteq pushWait /\ (pushWait # {} => \E u \in pushWait : u \notin pushWait')
    BY <1>6, SignalWakesOne DEF PopSleep
  <2>2. QED BY <1>0, <1>6, <2>1 DEF PopSleep, NoWakeupLost, ring
<1>7. ASSUME NEW t \in Threads, SpuriousWakeup(t) PROVE NoWakeupLost'
  BY <1>0, <1>7 DEF SpuriousWakeup, NoWakeupLost, ring
<1>8. CASE Free
  BY <1>0, <1>8 DEF Free, NoWakeupLost
<1>9. CASE UNCHANGED qvars
  BY <1>9 DEF qvars, NoWakeupLost
<1>10. QED
  BY <1>1, <1>2, <1>3, <1>5, <1>6, <1>7, <1>8, <1>9 DEF QNext, QPush

(* For any number of threads pushing at both ends and popping, no wakeup   *)
(* of the two condition variables is lost.                                 *)
THEOREM NoWakeupLostHolds == QSpec => []NoWakeupLost
<1>1. QInit => NoWakeupLost
  BY DEF QInit, NoWakeupLost
<1>2. QED BY <1>1, TypeInvHolds, WakeupStep, PTL DEF QSpec
-----------------------------------------------------------------------------
(* The ring's inductive invariant: the last entry is where head points,    *)
(* and every slot between the ends holds an entry.                         *)
RingInv ==
  /\ head = Wrap(tail + size)
  /\ \A i \in 1..size : q_[Wrap(tail + i)] \in Entry

(* Contents, with the indices worked out.                                  *)
LEMMA ContentsFacts ==
  ASSUME TypeInv
  PROVE  /\ Contents = [i \in 1..size |-> q_[Wrap(tail + i)]]
         /\ \A i \in 0..size : Wrap(tail + i) \in Slots
         /\ First = q_[Wrap(tail + 1)]
<1> USE SizeAssumption
<1>1. tail \in Slots /\ size \in 0..MaxSize
  BY DEF TypeInv, QTypeOK
<1>2. \A i \in 0..MaxSize : modulo(tail + i, MaxSize) = Wrap(tail + i) /\ Wrap(tail + i) \in Slots
  BY <1>1, ModWrap DEF Slots
<1>3. Contents = [i \in 1..size |-> q_[Wrap(tail + i)]]
  BY <1>1, <1>2 DEF Contents
<1>4. First = q_[Wrap(tail + 1)]
  BY <1>2 DEF First
<1>5. QED BY <1>1, <1>2, <1>3, <1>4

(* How each change of the ring changes the queue.                          *)
LEMMA BackStep ==
  ASSUME TypeInv, RingInv, NEW t \in Threads, PushBack(t)
  PROVE  /\ RingInv'
         /\ arg[t] \in Entry /\ size < MaxSize /\ size' = size + 1
         /\ \A i \in 1..size : q_'[Wrap(tail' + i)] = q_[Wrap(tail + i)]
         /\ q_'[Wrap(tail' + size')] = arg[t]
<1> USE SizeAssumption
<1>1. /\ tail \in Slots /\ head \in Slots /\ size \in 0..MaxSize /\ size # MaxSize
      /\ q_ \in [Slots -> Entry \cup {NULL}] /\ arg[t] \in Entry
  BY DEF TypeInv, QTypeOK, PushesEntries, PushBack, Pushing
<1>2. tail' = tail /\ size' = size + 1
  BY DEF PushBack
<1>3. head' = Wrap(head + 1)
  BY <1>1, ModWrap DEF PushBack, Slots
<1>4. head' = Wrap(tail + size + 1) /\ head' \in Slots
  BY <1>1, <1>3 DEF RingInv, Wrap, Slots
<1>5. q_' = [q_ EXCEPT ![head'] = arg[t]]
  BY DEF PushBack
<1>6. \A i \in 1..size : Wrap(tail + i) \in Slots /\ Wrap(tail + i) # head'
  BY <1>1, <1>4 DEF Wrap, Slots
<1>7. \A i \in 1..size : q_'[Wrap(tail + i)] = q_[Wrap(tail + i)]
  BY <1>1, <1>5, <1>6
<1>8. q_'[Wrap(tail + size + 1)] = arg[t]
  BY <1>1, <1>4, <1>5
<1>9. \A i \in 1..(size + 1) : q_'[Wrap(tail + i)] \in Entry
  <2> TAKE i \in 1..(size + 1)
  <2>1. i \in 1..size \/ i = size + 1
    BY <1>1
  <2>2. CASE i \in 1..size
    BY <2>2, <1>7 DEF RingInv
  <2>3. CASE i = size + 1
    <3>1. tail + i = tail + size + 1
      BY <2>3, <1>1 DEF Slots
    <3>2. QED BY <3>1, <1>8, <1>1
  <2>4. QED BY <2>1, <2>2, <2>3
<1>10. tail + (size + 1) = tail + size + 1
  BY <1>1 DEF Slots
<1>11. RingInv'
  BY <1>2, <1>4, <1>9, <1>10 DEF RingInv, Wrap
<1>12. QED
  BY <1>1, <1>2, <1>7, <1>8, <1>10, <1>11

LEMMA FrontStep ==
  ASSUME TypeInv, RingInv, NEW t \in Threads, PushFront(t)
  PROVE  /\ RingInv'
         /\ arg[t] \in Entry /\ size < MaxSize /\ size' = size + 1
         /\ \A i \in 1..size : q_'[Wrap(tail' + i + 1)] = q_[Wrap(tail + i)]
         /\ q_'[Wrap(tail' + 1)] = arg[t]
<1> USE SizeAssumption
<1>1. /\ tail \in Slots /\ head \in Slots /\ size \in 0..MaxSize /\ size # MaxSize
      /\ q_ \in [Slots -> Entry \cup {NULL}] /\ arg[t] \in Entry
  BY DEF TypeInv, QTypeOK, PushesEntries, PushFront, Pushing
<1>2. head' = head /\ size' = size + 1 /\ tail' = Wrap(tail - 1) /\ tail' \in Slots
  BY <1>1, ModWrap DEF PushFront, Slots
<1>3. \A i \in 0..size : Wrap(tail' + i + 1) = Wrap(tail + i)
  BY <1>1, <1>2 DEF Wrap, Slots
<1>4. Wrap(tail' + 1) = tail
  BY <1>1, <1>2 DEF Wrap, Slots
<1>5. q_' = [q_ EXCEPT ![tail] = arg[t]]
  BY DEF PushFront
<1>6. \A i \in 1..size : Wrap(tail + i) \in Slots /\ Wrap(tail + i) # tail
  BY <1>1 DEF Wrap, Slots
<1>7. \A i \in 1..size : q_'[Wrap(tail' + i + 1)] = q_[Wrap(tail + i)]
  BY <1>1, <1>3, <1>5, <1>6
<1>8. q_'[Wrap(tail' + 1)] = arg[t]
  BY <1>1, <1>4, <1>5
<1>9. \A i \in 1..(size + 1) : q_'[Wrap(tail' + i)] \in Entry
  <2> TAKE i \in 1..(size + 1)
  <2>1. i = 1 \/ (i - 1 \in 1..size /\ tail' + i = tail' + (i - 1) + 1)
    BY <1>1, <1>2 DEF Slots
  <2>2. QED BY <2>1, <1>1, <1>7, <1>8 DEF RingInv
<1>10. head' = Wrap(tail' + size')
  <2>1. tail' + size' = tail' + size + 1
    BY <1>1, <1>2 DEF Slots
  <2>2. QED BY <2>1, <1>1, <1>2, <1>3 DEF RingInv
<1>11. RingInv'
  BY <1>2, <1>9, <1>10 DEF RingInv, Wrap
<1>12. QED
  BY <1>1, <1>2, <1>7, <1>8, <1>11

LEMMA PopStep ==
  ASSUME TypeInv, RingInv, NEW t \in Threads, Pop(t)
  PROVE  /\ RingInv'
         /\ size > 0 /\ size' = size - 1
         /\ \A i \in 1..(size - 1) : q_'[Wrap(tail' + i)] = q_[Wrap(tail + i + 1)]
<1> USE SizeAssumption
<1>1. tail \in Slots /\ head \in Slots /\ size \in 0..MaxSize /\ size # 0
  BY DEF TypeInv, QTypeOK, Pop
<1>2. q_' = q_ /\ head' = head /\ size' = size - 1 /\ tail' = Wrap(tail + 1) /\ tail' \in Slots
  BY <1>1, ModWrap DEF Pop, Slots
<1>3. \A i \in 0..(size - 1) : Wrap(tail' + i) = Wrap(tail + i + 1)
  BY <1>1, <1>2 DEF Wrap, Slots
<1>4. \A i \in 1..(size - 1) : q_'[Wrap(tail' + i)] = q_[Wrap(tail + i + 1)]
  BY <1>1, <1>2, <1>3
<1>5. \A i \in 1..(size - 1) : q_'[Wrap(tail' + i)] \in Entry
  <2> TAKE i \in 1..(size - 1)
  <2>1. i + 1 \in 1..size /\ tail + (i + 1) = tail + i + 1
    BY <1>1 DEF Slots
  <2>2. QED BY <2>1, <1>4 DEF RingInv
<1>6. head' = Wrap(tail' + size')
  <2>1. tail + (size - 1) + 1 = tail + size /\ size - 1 \in 0..(size - 1)
    BY <1>1 DEF Slots
  <2>2. QED BY <2>1, <1>2, <1>3 DEF RingInv
<1>7. RingInv'
  BY <1>2, <1>5, <1>6 DEF RingInv, Wrap
<1>8. QED BY <1>1, <1>2, <1>4, <1>7

LEMMA RingStep == TypeInv /\ RingInv /\ [QNext]_qvars => RingInv'
<1> SUFFICES ASSUME TypeInv, RingInv, [QNext]_qvars PROVE RingInv'
  OBVIOUS
<1>1. ASSUME NEW t \in Threads, PushBack(t) \/ PushFront(t) \/ Pop(t) PROVE RingInv'
  BY <1>1, BackStep, FrontStep, PopStep
<1>2. CASE UNCHANGED ring
  BY <1>2 DEF ring, RingInv, Wrap
<1>3. CASE Free
  BY <1>3, SizeAssumption DEF Free, RingInv, Wrap
<1>4. QED
  BY <1>1, <1>2, <1>3
  DEF QNext, QPush, CallPush, CallPop, PushSleep, PopSleep, SpuriousWakeup, qvars, ring

LEMMA RingInvHolds == QSpec => []RingInv
<1>1. QInit => RingInv
  BY SizeAssumption DEF QInit, RingInv, Wrap
<1>2. QED BY <1>1, TypeInvHolds, RingStep, PTL DEF QSpec

(* q_pop returns a pointer somebody pushed, whatever wrapped, whoever      *)
(* pushed at which end, and also after q_free.                             *)
THEOREM PopNeverNullHolds == QSpec => []PopNeverNull
<1>1. TypeInv /\ RingInv => PopNeverNull
  <2> SUFFICES ASSUME TypeInv, RingInv, size # 0 PROVE First # NULL
    BY DEF PopNeverNull
  <2>1. 1 \in 1..size
    BY DEF TypeInv, QTypeOK
  <2>2. First \in Entry
    BY <2>1, ContentsFacts DEF RingInv
  <2>3. QED BY <2>2, NullAssumption
<1>2. QED BY <1>1, TypeInvHolds, RingInvHolds, PTL
-----------------------------------------------------------------------------
(* The queue is a sequence of entries, never longer than the ring.         *)
QueueFacts ==
  /\ Contents \in Seq(Entry) /\ Len(Contents) = size /\ size \in 0..MaxSize
  /\ \A i \in 1..size : Contents[i] = q_[Wrap(tail + i)]

LEMMA ContentsSeq == TypeInv /\ RingInv => QueueFacts
<1> SUFFICES ASSUME TypeInv, RingInv PROVE QueueFacts
  OBVIOUS
<1>1. size \in 0..MaxSize
  BY DEF TypeInv, QTypeOK
<1>2. Contents = [i \in 1..size |-> q_[Wrap(tail + i)]]
  BY ContentsFacts
<1>3. \A i \in 1..size : q_[Wrap(tail + i)] \in Entry
  BY DEF RingInv
<1>4. Contents \in [1..size -> Entry]
  BY <1>2, <1>3
<1>5. size \in Nat
  BY <1>1, SizeAssumption
<1>6. QED BY <1>1, <1>2, <1>4, <1>5 DEF QueueFacts

(* Every step of the ring is a step of the double-ended queue, or none.    *)
LEMMA RefinementStep ==
  TypeInv /\ TypeInv' /\ RingInv /\ RingInv' /\ [QNext]_qvars => [D!Next]_Contents
<1> SUFFICES ASSUME TypeInv, TypeInv', RingInv, RingInv', [QNext]_qvars
             PROVE  [D!Next]_Contents
  OBVIOUS
<1>0. /\ Contents \in Seq(Entry) /\ Len(Contents) = size /\ size \in 0..MaxSize
      /\ \A i \in 1..size : Contents[i] = q_[Wrap(tail + i)]
  BY ContentsSeq DEF QueueFacts
<1>1. /\ Contents' \in Seq(Entry) /\ Len(Contents') = size' /\ size' \in 0..MaxSize
      /\ \A i \in 1..size' : Contents'[i] = q_'[Wrap(tail' + i)]
  <2>1. QueueFacts'
    BY ContentsSeq, PTL
  <2>2. QED BY <2>1 DEF QueueFacts, Wrap
<1>2. ASSUME NEW t \in Threads, PushBack(t) PROVE D!Next
  <2>1. /\ arg[t] \in Entry /\ size < MaxSize /\ size' = size + 1
        /\ \A i \in 1..size : q_'[Wrap(tail' + i)] = q_[Wrap(tail + i)]
        /\ q_'[Wrap(tail' + size')] = arg[t]
    BY <1>2, BackStep
  <2>2. \A i \in 1..size' : Contents'[i] = Append(Contents, arg[t])[i]
    <3> TAKE i \in 1..size'
    <3>1. i \in 1..size \/ i = size'
      BY <1>0, <2>1
    <3>2. QED BY <3>1, <1>0, <1>1, <2>1
  <2>3. Append(Contents, arg[t]) \in Seq(Entry) /\ Len(Append(Contents, arg[t])) = size'
    BY <1>0, <2>1
  <2>4. Contents' = Append(Contents, arg[t])
    BY <1>1, <2>2, <2>3, SeqEqual
  <2>5. QED BY <1>0, <2>1, <2>4 DEF D!Next, D!PushBack
<1>3. ASSUME NEW t \in Threads, PushFront(t) PROVE D!Next
  <2>1. /\ arg[t] \in Entry /\ size < MaxSize /\ size' = size + 1
        /\ \A i \in 1..size : q_'[Wrap(tail' + i + 1)] = q_[Wrap(tail + i)]
        /\ q_'[Wrap(tail' + 1)] = arg[t]
    BY <1>3, FrontStep
  <2> DEFINE new == <<arg[t]>> \o Contents
  <2>2. /\ new \in Seq(Entry) /\ Len(new) = size'
        /\ new[1] = arg[t] /\ \A i \in 2..size' : new[i] = Contents[i - 1]
    BY <1>0, <2>1
  <2>3. \A i \in 1..size' : Contents'[i] = new[i]
    <3> TAKE i \in 1..size'
    <3>1. CASE i = 1
      BY <3>1, <1>1, <2>1, <2>2
    <3>2. CASE i # 1
      <4>1. i \in 2..size' /\ i - 1 \in 1..size
        BY <3>2, <1>0, <2>1
      <4>2. tail' + (i - 1) + 1 = tail' + i
        BY <4>1 DEF TypeInv, QTypeOK, Slots
      <4>3. Contents'[i] = Contents[i - 1]
        BY <4>1, <4>2, <1>0, <1>1, <2>1
      <4>4. QED BY <4>1, <4>3, <2>2
    <3>3. QED BY <3>1, <3>2
  <2>4. Contents' = new
    <3> HIDE DEF new
    <3> QED BY <1>1, <2>2, <2>3, SeqEqual
  <2>5. QED BY <1>0, <2>1, <2>4 DEF D!Next, D!PushFront
<1>4. ASSUME NEW t \in Threads, Pop(t) PROVE D!Next
  <2>1. /\ size > 0 /\ size' = size - 1
        /\ \A i \in 1..(size - 1) : q_'[Wrap(tail' + i)] = q_[Wrap(tail + i + 1)]
    BY <1>4, PopStep
  <2>2. /\ Contents # <<>> /\ Tail(Contents) \in Seq(Entry) /\ Len(Tail(Contents)) = size'
        /\ \A i \in 1..size' : Tail(Contents)[i] = Contents[i + 1]
    BY <1>0, <2>1
  <2>3. \A i \in 1..size' : Contents'[i] = Tail(Contents)[i]
    <3> TAKE i \in 1..size'
    <3>1. i + 1 \in 1..size /\ i \in 1..(size - 1) /\ tail + (i + 1) = tail + i + 1
      BY <1>0, <2>1 DEF TypeInv, QTypeOK, Slots
    <3>2. QED BY <3>1, <1>0, <1>1, <2>1, <2>2
  <2>4. Contents' = Tail(Contents)
    BY <1>1, <2>2, <2>3, SeqEqual
  <2>5. QED BY <2>2, <2>4 DEF D!Next, D!Pop
<1>5. CASE UNCHANGED ring
  BY <1>5 DEF ring, Contents, modulo
<1>6. CASE Free
  <2>1. Contents' = <<>>
    BY <1>6, <1>1 DEF Free
  <2>2. QED BY <2>1 DEF D!Next, D!Clear
<1>7. QED
  BY <1>2, <1>3, <1>4, <1>5, <1>6
  DEF QNext, QPush, CallPush, CallPop, PushSleep, PopSleep, SpuriousWakeup, qvars, ring

(* The ring of qbuffer.c, of any size and under any interleaving of its    *)
(* callers, is a bounded double-ended queue.                               *)
THEOREM QBufferImplementsDeque == QSpec => DequeSpec
<1>1. QInit => D!Init
  <2>1. QInit => TypeInv /\ RingInv
    BY SizeAssumption DEF QInit, TypeInv, QTypeOK, PushesEntries, Slots, RingInv, Wrap
  <2>2. ASSUME QInit PROVE Contents = <<>>
    BY <2>1, <2>2, ContentsSeq DEF QInit, QueueFacts
  <2>3. QED BY <2>2 DEF D!Init
<1>2. QED
  BY <1>1, TypeInvHolds, RingInvHolds, RefinementStep, PTL DEF QSpec, DequeSpec, D!Spec
-----------------------------------------------------------------------------
(* The numbers of the jobs not yet added have a least one.                 *)
LEMMA NextJobIsOne ==
  ASSUME todo \in SUBSET Jobs, todo # {}
  PROVE  NextJob \in todo
<1> DEFINE R == OpToRel(<, Nat)
<1>1. todo \in SUBSET Nat
  BY PoolAssumption
<1>2. \E x \in todo : \A y \in todo : ~(<<y, x>> \in R)
  BY <1>1, NatLessThanWellFounded, WFMin
<1>3. \A x \in Nat, y \in Nat : <<y, x>> \in R <=> y < x
  BY DEF OpToRel
<1> HIDE DEF R
<1>4. \E x \in todo : \A y \in todo : ~(y < x)
  BY <1>1, <1>2, <1>3, Zenon
<1>5. \E x \in todo : \A y \in todo : x <= y
  BY <1>1, <1>4
<1> QED
  BY <1>5 DEF NextJob

Parts ==
  /\ todo \in SUBSET Jobs /\ dead \in SUBSET Workers /\ early \in SUBSET Jobs
  /\ running \in [Workers -> Jobs \cup {NULL}]
  /\ done \in Seq(Jobs)

(* The pool uses its queue by q_push_back, q_push_front and q_pop only.    *)
LEMMA UsesQueue ==
  ASSUME Parts, [Next]_vars
  PROVE  [QNext]_qvars
<1> USE PoolAssumption DEF QNext
<1>1. ASSUME NEW t \in Producers, NEW p \in {"HIGH", "LOW"}, addJob(t, p) PROVE QNext
  <2>1. NextJob \in Entry /\ t \in Threads /\ CallPush(t, NextJob, IF p = "HIGH" THEN "front" ELSE "back")
    BY <1>1, NextJobIsOne DEF addJob, Producers, Parts
  <2> QED
    BY <2>1
<1>2. ASSUME NEW t \in Producers, Enqueue(t) PROVE QNext
  BY <1>2 DEF Enqueue, Producers
<1>3. ASSUME NEW w \in Workers, Work(w) PROVE [QNext]_qvars
  BY <1>3 DEF Work, Loop, Wait, takeJob, RunJob
<1>4. ASSUME NEW t \in Threads, Wakeup(t) PROVE QNext
  BY <1>4 DEF Wakeup
<1>5. CASE AddPill
  BY <1>5 DEF AddPill
<1>6. CASE BeginKill \/ BeginJoin \/ Joined \/ UNCHANGED vars
  BY <1>6 DEF BeginKill, BeginJoin, Joined, vars
<1> QED
  BY <1>1, <1>2, <1>3, <1>4, <1>5, <1>6 DEF Next, Killing

QueueInv == TypeInv /\ RingInv

LEMMA QueueStep ==
  ASSUME Parts, QueueInv, [Next]_vars
  PROVE  QueueInv' /\ QueueFacts /\ QueueFacts'
<1>1. QueueInv'
  BY UsesQueue, TypeStep, RingStep DEF QueueInv
<1>2. QueueFacts
  BY ContentsSeq DEF QueueInv
<1>3. QueueFacts'
  BY <1>1, ContentsSeq, PTL DEF QueueInv
<1> QED
  BY <1>1, <1>2, <1>3

(* What the queue's operations do to its contents.                         *)
Views == QueueInv /\ QueueFacts /\ QueueFacts'

LEMMA PushedBack ==
  ASSUME Views, NEW t \in Threads, PushBack(t)
  PROVE  /\ size \in Nat /\ size' = size + 1 /\ arg[t] \in Entry
         /\ \A i \in 1..size : Contents'[i] = Contents[i]
         /\ Contents'[size + 1] = arg[t]
<1>1. size \in Nat /\ \A i \in 1..size : Contents[i] = q_[Wrap(tail + i)]
  BY SizeAssumption DEF Views, QueueFacts
<1>2. \A i \in 1..size' : Contents'[i] = q_'[Wrap(tail' + i)]
  BY DEF Views, QueueFacts, Wrap
<1>3. /\ arg[t] \in Entry /\ size' = size + 1
      /\ \A i \in 1..size : q_'[Wrap(tail' + i)] = q_[Wrap(tail + i)]
      /\ q_'[Wrap(tail' + size')] = arg[t]
  BY BackStep DEF Views, QueueInv
<1> QED
  BY <1>1, <1>2, <1>3

LEMMA PushedFront ==
  ASSUME Views, NEW t \in Threads, PushFront(t)
  PROVE  /\ size \in Nat /\ size' = size + 1 /\ arg[t] \in Entry
         /\ \A i \in 1..size : Contents'[i + 1] = Contents[i]
         /\ Contents'[1] = arg[t]
<1>1. size \in Nat /\ \A i \in 1..size : Contents[i] = q_[Wrap(tail + i)]
  BY SizeAssumption DEF Views, QueueFacts
<1>2. \A i \in 1..size' : Contents'[i] = q_'[Wrap(tail' + i)]
  BY DEF Views, QueueFacts, Wrap
<1>3. /\ arg[t] \in Entry /\ size' = size + 1
      /\ \A i \in 1..size : q_'[Wrap(tail' + i + 1)] = q_[Wrap(tail + i)]
      /\ q_'[Wrap(tail' + 1)] = arg[t]
  BY FrontStep DEF Views, QueueInv
<1>4. tail' \in Int
  BY ModWrap, SizeAssumption DEF PushFront, Views, QueueInv, TypeInv, QTypeOK, Slots
<1>5. \A i \in 1..size : i + 1 \in 1..size' /\ tail' + i + 1 = tail' + (i + 1)
  BY <1>1, <1>3, <1>4
<1> QED
  BY <1>1, <1>2, <1>3, <1>5

LEMMA Popped ==
  ASSUME Views, NEW t \in Threads, Pop(t)
  PROVE  /\ size \in Nat \ {0} /\ size' = size - 1 /\ First = Contents[1] /\ First \in Entry
         /\ \A i \in 1..size' : Contents'[i] = Contents[i + 1]
<1>1. size \in Nat /\ \A i \in 1..size : Contents[i] = q_[Wrap(tail + i)] /\ Contents[i] \in Entry
  BY SizeAssumption DEF Views, QueueFacts
<1>2. \A i \in 1..size' : Contents'[i] = q_'[Wrap(tail' + i)]
  BY DEF Views, QueueFacts, Wrap
<1>3. /\ size > 0 /\ size' = size - 1
      /\ \A i \in 1..(size - 1) : q_'[Wrap(tail' + i)] = q_[Wrap(tail + i + 1)]
  BY PopStep DEF Views, QueueInv
<1>4. First = q_[Wrap(tail + 1)]
  BY ContentsFacts DEF Views, QueueInv
<1>5. \A i \in 1..size' : i + 1 \in 1..size /\ tail + i + 1 = tail + (i + 1)
  BY <1>1, <1>3 DEF Views, QueueInv, TypeInv, QTypeOK, Slots
<1> QED
  BY <1>1, <1>2, <1>3, <1>4, <1>5

LEMMA RingUnchanged ==
  ASSUME UNCHANGED ring
  PROVE  size' = size /\ Contents' = Contents
  BY DEF ring, Contents, modulo
-----------------------------------------------------------------------------
(* Where a job can be.  A job not yet added is nowhere, any other is in    *)
(* one place.                                                              *)
With(j)    == {t \in Producers : arg[t] = j}
Queued(j)  == {i \in 1..size : Contents[i] = j}
Run(j)     == {w \in Workers : running[w] = j}
Ended(j)   == {i \in DOMAIN done : done[i] = j}

Single(S)  == \E x : S = {x}
Nowhere(j) == With(j) = {} /\ Queued(j) = {} /\ Run(j) = {} /\ Ended(j) = {}
Placed(j)  ==
  \/ Single(With(j)) /\ Queued(j) = {} /\ Run(j) = {} /\ Ended(j) = {}
  \/ With(j) = {} /\ Single(Queued(j)) /\ Run(j) = {} /\ Ended(j) = {}
  \/ With(j) = {} /\ Queued(j) = {} /\ Single(Run(j)) /\ Ended(j) = {}
  \/ With(j) = {} /\ Queued(j) = {} /\ Run(j) = {} /\ Single(Ended(j))
PlaceOf(j) == IF j \in todo THEN Nowhere(j) ELSE Placed(j)
PlacesInv  == \A j \in Jobs : PlaceOf(j)

(* A thread that pushes nothing has no job, a worker in q_pop runs none,   *)
(* and a worker that has left its loop neither pops nor runs one.          *)
ThreadsInv ==
  /\ \A t \in Threads : op[t] \notin {"back", "front"} => arg[t] = NULL
  /\ \A w \in Workers : op[w] = "pop" => running[w] = NULL /\ w \notin dead
  /\ \A w \in dead : running[w] = NULL

PoolInv == Parts /\ QueueInv /\ ThreadsInv /\ PlacesInv

(* The steps, by what they do with the jobs: one of them gives a thread    *)
(* something to push, puts it in the queue, takes it out, or runs it.      *)
Given(t, e) ==
  /\ op[t] = "none" /\ arg' = [arg EXCEPT ![t] = e] /\ op'[t] \in {"back", "front"}
  /\ \A u \in Threads : u # t => op'[u] = op[u]
  /\ UNCHANGED <<size, Contents, running, done, dead>>
Pushed(t) ==
  /\ PushBack(t) \/ PushFront(t)
  /\ UNCHANGED pvars
Idle ==
  /\ UNCHANGED <<size, Contents, running, done, arg, dead, todo>>
  /\ \A t \in Threads : \/ op'[t] = op[t]
                        \/ /\ t \in Workers /\ op[t] = "none" /\ op'[t] = "pop"
                           /\ running[t] = NULL /\ t \notin dead

LEMMA StepKinds ==
  ASSUME Parts, QueueInv, [Next]_vars
  PROVE  \/ \E t \in Producers : /\ todo # {} /\ Given(t, NextJob) /\ todo' = todo \ {NextJob}
                                 /\ UNCHANGED <<kill, early>>
         \/ Given(Owner, Poison) /\ kill = "pills" /\ op'[Owner] = "back" /\ UNCHANGED <<kill, todo, early>>
         \/ \E t \in Producers : Pushed(t)
         \/ \E w \in Workers : takeJob(w)
         \/ \E w \in Workers : RunJob(w)
         \/ Idle /\ UNCHANGED <<kill, early>>
         \/ Idle /\ BeginKill
         \/ Idle /\ kill # "no" /\ kill' # "no" /\ UNCHANGED early /\ (kill' = "joined" => dead = Workers)
<1> USE PoolAssumption, RingUnchanged
<1>0. /\ op \in [Threads -> {"none", "back", "front", "pop"}] /\ arg \in [Threads -> Entry \cup {NULL}]
      /\ Producers \subseteq Threads /\ Workers \subseteq Threads /\ Owner \in Producers
  BY DEF QueueInv, TypeInv, QTypeOK, Producers
<1>1. ASSUME NEW t \in Producers, NEW p \in {"HIGH", "LOW"}, addJob(t, p)
      PROVE  /\ todo # {} /\ Given(t, NextJob) /\ todo' = todo \ {NextJob} /\ UNCHANGED <<kill, early>>
  BY <1>0, <1>1 DEF addJob, CallPush, Given
<1>2. ASSUME NEW t \in Producers, Enqueue(t)
      PROVE  Pushed(t) \/ (Idle /\ UNCHANGED <<kill, early>>)
  BY <1>0, <1>2 DEF Enqueue, QPush, PushSleep, Pushed, Idle, pvars
<1>3. ASSUME NEW w \in Workers, Work(w)
      PROVE  takeJob(w) \/ RunJob(w) \/ (Idle /\ UNCHANGED <<kill, early>>)
  BY <1>0, <1>3 DEF Work, Loop, Wait, PopSleep, CallPop, Idle, pvars
<1>4. ASSUME NEW t \in Threads, Wakeup(t) PROVE Idle /\ UNCHANGED <<kill, early>>
  BY <1>4 DEF Wakeup, SpuriousWakeup, Idle, pvars
<1>5. CASE AddPill
  BY <1>0, <1>5 DEF AddPill, CallPush, Given
<1>6. CASE BeginKill
  BY <1>6 DEF BeginKill, Idle, qvars, ring
<1>7. CASE BeginJoin \/ Joined
  BY <1>7 DEF BeginJoin, Joined, Idle, qvars, ring
<1>8. CASE UNCHANGED vars
  BY <1>8 DEF vars, Idle, qvars, pvars, ring
<1> QED
  BY <1>1, <1>2, <1>3, <1>4, <1>5, <1>6, <1>7, <1>8 DEF Next, Killing

(* Where the jobs are that a step does not move: those in the queue at     *)
(* most shift.                                                             *)
Shifted(A, B, d) == \A i \in Int : i \in A <=> i + d \in B

LEMMA ShiftedSingle ==
  ASSUME NEW A \in SUBSET Int, NEW B \in SUBSET Int, NEW d \in Int, Shifted(A, B, d)
  PROVE  (A = {} => B = {}) /\ (Single(A) => Single(B))
<1>1. ASSUME NEW k \in B PROVE k - d \in A
  BY <1>1 DEF Shifted
<1>2. ASSUME NEW x \in Int, A = {x} PROVE B = {x + d}
  <2>1. x + d \in B
    BY <1>2 DEF Shifted
  <2>2. ASSUME NEW k \in B PROVE k = x + d
    BY <1>1, <1>2
  <2> QED
    BY <2>1, <2>2
<1> QED
  BY <1>1, <1>2 DEF Single

LEMMA StaysPut ==
  ASSUME NEW j, NEW d \in Int, size \in Nat, size' \in Nat, j \in todo <=> j \in todo', PlaceOf(j),
         With(j)' = With(j), Run(j)' = Run(j), Ended(j)' = Ended(j),
         Shifted(Queued(j), Queued(j)', d)
  PROVE  PlaceOf(j)'
<1>1. Queued(j) \in SUBSET Int /\ Queued(j)' \in SUBSET Int
  BY DEF Queued
<1>2. (Queued(j) = {} => Queued(j)' = {}) /\ (Single(Queued(j)) => Single(Queued(j)'))
  BY <1>1, ShiftedSingle
<1> HIDE DEF With, Queued, Run, Ended
<1> QED
  BY <1>2 DEF PlaceOf, Nowhere, Placed, Single

LEMMA GivenPlaces ==
  ASSUME PoolInv, size \in Nat, NEW t \in Producers, NEW e, Given(t, e), e # NULL,
         NEW j \in Jobs
  PROVE  /\ Run(j)' = Run(j) /\ Ended(j)' = Ended(j) /\ Queued(j)' = Queued(j)
         /\ j # e => With(j)' = With(j)
         /\ j = e => With(j)' = With(j) \cup {t}
<1>1. Run(j)' = Run(j) /\ Ended(j)' = Ended(j) /\ Queued(j)' = Queued(j)
  BY DEF Given, Run, Ended, Queued
<1>2. t \in Threads /\ arg[t] = NULL /\ j # NULL
  BY PoolAssumption, NullAssumption DEF PoolInv, ThreadsInv, Given, Producers
<1>3. /\ arg'[t] = e
      /\ \A u \in Producers : u # t => arg'[u] = arg[u]
  BY <1>2 DEF Given, PoolInv, QueueInv, TypeInv, QTypeOK
<1> QED
  BY <1>1, <1>2, <1>3 DEF With

LEMMA JobAdded ==
  ASSUME PoolInv, size \in Nat, NEW t \in Producers, todo # {}, Given(t, NextJob),
         todo' = todo \ {NextJob}
  PROVE  PlacesInv'
<1>1. NextJob \in todo /\ NextJob \in Jobs /\ NextJob # NULL
  BY NextJobIsOne, PoolAssumption, NullAssumption DEF PoolInv, Parts
<1>2. SUFFICES ASSUME NEW j \in Jobs PROVE PlaceOf(j)'
  BY DEF PlacesInv
<1>3. PlaceOf(j)
  BY DEF PoolInv, PlacesInv
<1>4. CASE j = NextJob
  <2>1. Nowhere(j) /\ j \notin todo'
    BY <1>1, <1>3, <1>4 DEF PlaceOf
  <2>2. With(j)' = {t} /\ Run(j)' = {} /\ Ended(j)' = {} /\ Queued(j)' = {}
    BY <1>1, <1>4, <2>1, GivenPlaces DEF Nowhere
  <2> QED
    BY <2>1, <2>2 DEF PlaceOf, Placed, Single
<1>5. CASE j # NextJob
  <2>1. With(j)' = With(j) /\ Run(j)' = Run(j) /\ Ended(j)' = Ended(j) /\ Queued(j)' = Queued(j)
    BY <1>1, <1>5, GivenPlaces
  <2> QED
    BY <1>3, <1>5, <2>1 DEF PlaceOf, Placed, Nowhere
<1> QED
  BY <1>4, <1>5

LEMMA PillAdded ==
  ASSUME PoolInv, size \in Nat, Given(Owner, Poison), UNCHANGED todo
  PROVE  PlacesInv'
<1>1. SUFFICES ASSUME NEW j \in Jobs PROVE PlaceOf(j)'
  BY DEF PlacesInv
<1>2. PlaceOf(j) /\ j # Poison /\ Poison # NULL /\ Owner \in Producers
  BY PoolAssumption, NullAssumption DEF PoolInv, PlacesInv, Producers
<1>3. With(j)' = With(j) /\ Run(j)' = Run(j) /\ Ended(j)' = Ended(j) /\ Queued(j)' = Queued(j)
  BY <1>2, GivenPlaces
<1> QED
  BY <1>2, <1>3 DEF PlaceOf, Placed, Nowhere

LEMMA JobPushed ==
  ASSUME PoolInv, Views, NEW t \in Producers, Pushed(t)
  PROVE  PlacesInv'
<1> DEFINE e == arg[t]
<1>0. t \in Threads
  BY PoolAssumption DEF Producers
<1>1. SUFFICES ASSUME NEW j \in Jobs PROVE PlaceOf(j)'
  BY DEF PlacesInv
<1>2. /\ PlaceOf(j) /\ e \in Entry /\ j # NULL /\ e # NULL /\ size \in Nat /\ size' = size + 1
      /\ UNCHANGED <<todo, running, done>>
  BY <1>0, PushedBack, PushedFront, PoolAssumption, NullAssumption DEF PoolInv, PlacesInv, Pushed, pvars
<1>3. Run(j)' = Run(j) /\ Ended(j)' = Ended(j)
  BY <1>2 DEF Run, Ended
<1>4. With(j)' = With(j) \ {t}
  <2>1. arg' = [arg EXCEPT ![t] = NULL] /\ arg \in [Threads -> Entry \cup {NULL}]
    BY DEF Pushed, PushBack, PushFront, Leave, PoolInv, QueueInv, TypeInv, QTypeOK
  <2>2. arg'[t] = NULL /\ \A u \in Threads : u # t => arg'[u] = arg[u]
    BY <1>0, <2>1
  <2>3. Producers \subseteq Threads
    BY PoolAssumption DEF Producers
  <2> QED
    BY <1>2, <2>2, <2>3 DEF With
<1>5. \/ Queued(j)' = Queued(j) \cup (IF j = e THEN {size + 1} ELSE {})
      \/ /\ 1 \in Queued(j)' <=> j = e
         /\ \A i \in 1..size : i \in Queued(j) <=> i + 1 \in Queued(j)'
  <2>1. CASE PushBack(t)
    <3>1. (\A i \in 1..size : Contents'[i] = Contents[i]) /\ Contents'[size + 1] = e
      BY <1>0, <2>1, PushedBack
    <3>2. 1..size' = (1..size) \cup {size + 1} /\ size + 1 \notin 1..size
      BY <1>2
    <3> QED
      BY <3>1, <3>2 DEF Queued
  <2>2. CASE PushFront(t)
    <3>1. (\A i \in 1..size : Contents'[i + 1] = Contents[i]) /\ Contents'[1] = e
      BY <1>0, <2>2, PushedFront
    <3>2. 1 \in 1..size' /\ \A i \in 1..size : i + 1 \in 1..size'
      BY <1>2
    <3> QED
      BY <3>1, <3>2 DEF Queued
  <2> QED
    BY <2>1, <2>2 DEF Pushed
<1>6. CASE j = e
  <2>1. t \in With(j)
    BY <1>6 DEF With
  <2>2. With(j) = {t} /\ Queued(j) = {} /\ Run(j) = {} /\ Ended(j) = {} /\ j \notin todo
    BY <1>2, <2>1 DEF PlaceOf, Nowhere, Placed, Single
  <2>3. Queued(j)' = {1} \/ Queued(j)' = {size + 1}
    <3>1. CASE Queued(j)' = Queued(j) \cup {size + 1}
      BY <2>2, <3>1
    <3>2. CASE 1 \in Queued(j)' /\ \A i \in 1..size : i + 1 \notin Queued(j)'
      <4>1. \A k \in Queued(j)' : k = 1 \/ (k - 1 \in 1..size /\ k = (k - 1) + 1)
        BY <1>2 DEF Queued
      <4> QED
        BY <3>2, <4>1
    <3> QED
      BY <1>5, <1>6, <2>2, <3>1, <3>2
  <2> QED
    BY <1>2, <1>3, <1>4, <2>2, <2>3 DEF PlaceOf, Placed, Single
<1>7. CASE j # e
  <2>1. t \notin With(j)
    BY <1>7 DEF With
  <2>2. With(j)' = With(j)
    BY <1>4, <2>1
  <2>3. Shifted(Queued(j), Queued(j)', 0) \/ Shifted(Queued(j), Queued(j)', 1)
    <3>1. CASE Queued(j)' = Queued(j)
      BY <3>1 DEF Shifted, Queued
    <3>2. CASE 1 \notin Queued(j)' /\ \A i \in 1..size : i \in Queued(j) <=> i + 1 \in Queued(j)'
      <4>1. \A i \in Int : i \notin 1..size => (i + 1 = 1 \/ i + 1 \notin 1..size')
        BY <1>2
      <4>2. \A i \in Int : i \notin 1..size => (i \notin Queued(j) /\ i + 1 \notin Queued(j)')
        BY <3>2, <4>1 DEF Queued
      <4> QED
        BY <3>2, <4>2 DEF Shifted
    <3> QED
      BY <1>5, <1>7, <3>1, <3>2
  <2> QED
    BY <1>2, <1>3, <2>2, <2>3, StaysPut
<1> QED
  BY <1>6, <1>7

LEMMA JobTaken ==
  ASSUME PoolInv, Views, NEW w \in Workers, takeJob(w)
  PROVE  PlacesInv'
<1> DEFINE e == First
<1>0. w \in Threads /\ Pop(w) /\ op[w] = "pop" /\ running[w] = NULL /\ arg[w] = NULL
  BY PoolAssumption DEF takeJob, Pop, Popping, PoolInv, ThreadsInv
<1>1. SUFFICES ASSUME NEW j \in Jobs PROVE PlaceOf(j)'
  BY DEF PlacesInv
<1>2. PlaceOf(j) /\ j # NULL /\ j # Poison /\ UNCHANGED <<todo, done>>
  BY PoolAssumption, NullAssumption DEF PoolInv, PlacesInv, takeJob
<1>3. /\ size \in Nat \ {0} /\ size' = size - 1 /\ e = Contents[1] /\ e \in Entry
      /\ \A i \in 1..size' : Contents'[i] = Contents[i + 1]
  BY <1>0, Popped
<1>4. With(j)' = With(j) /\ Ended(j)' = Ended(j)
  <2>1. arg' = arg
    BY <1>0 DEF Pop, Leave, PoolInv, QueueInv, TypeInv, QTypeOK
  <2> QED
    BY <1>2, <2>1 DEF With, Ended
<1>5. Run(j)' = Run(j) \cup (IF j = e THEN {w} ELSE {}) /\ w \notin Run(j)
  <2>1. running' = [running EXCEPT ![w] = IF e = Poison THEN NULL ELSE e] /\ DOMAIN running = Workers
    BY DEF takeJob, PoolInv, Parts
  <2>2. running'[w] = (IF e = Poison THEN NULL ELSE e) /\ \A v \in Workers : v # w => running'[v] = running[v]
    BY <2>1
  <2> HIDE DEF e
  <2> QED
    BY <1>0, <1>2, <2>2 DEF Run
<1>6. /\ 1 \in Queued(j) <=> j = e
      /\ \A i \in 1..size' : i \in Queued(j)' <=> i + 1 \in Queued(j)
  <2>1. 1 \in 1..size /\ \A i \in 1..size' : i + 1 \in 1..size
    BY <1>3
  <2> QED
    BY <1>3, <2>1 DEF Queued
<1>7. CASE j = e
  <2>1. 1 \in Queued(j)
    BY <1>6, <1>7
  <2>2. Queued(j) = {1} /\ With(j) = {} /\ Run(j) = {} /\ Ended(j) = {} /\ j \notin todo
    BY <1>2, <2>1 DEF PlaceOf, Nowhere, Placed, Single
  <2>3. Queued(j)' = {}
    <3>1. \A i \in 1..size' : i + 1 # 1
      BY <1>3
    <3>2. Queued(j)' \subseteq 1..size'
      BY DEF Queued
    <3> QED
      BY <1>6, <2>2, <3>1, <3>2
  <2> QED
    BY <1>2, <1>4, <1>5, <1>7, <2>2, <2>3 DEF PlaceOf, Placed, Single
<1>8. CASE j # e
  <2>1. Run(j)' = Run(j)
    BY <1>5, <1>8
  <2>2. Shifted(Queued(j), Queued(j)', -1)
    <3>1. \A i \in Int : i = 1 \/ i \notin 1..size \/ (i + (-1) \in 1..size' /\ (i + (-1)) + 1 = i)
      BY <1>3
    <3>2. \A i \in Int : (i = 1 \/ i \notin 1..size) => (i \notin Queued(j) /\ i + (-1) \notin Queued(j)')
      BY <1>3, <1>6, <1>8 DEF Queued
    <3> QED
      BY <1>6, <3>1, <3>2 DEF Shifted
  <2> QED
    BY <1>2, <1>3, <1>4, <2>1, <2>2, StaysPut
<1> QED
  BY <1>7, <1>8

LEMMA JobRun ==
  ASSUME PoolInv, NEW w \in Workers, RunJob(w)
  PROVE  PlacesInv'
<1> DEFINE e == running[w]
           n == Len(done)
<1>1. SUFFICES ASSUME NEW j \in Jobs PROVE PlaceOf(j)'
  BY DEF PlacesInv
<1>2. /\ PlaceOf(j) /\ j # NULL /\ e \in Jobs /\ n \in Nat /\ DOMAIN done = 1..n
      /\ UNCHANGED <<todo, arg, size, Contents>>
  <2>1. UNCHANGED ring
    BY DEF RunJob, qvars, ring
  <2> QED
    BY <2>1, RingUnchanged, PoolAssumption, NullAssumption DEF PoolInv, PlacesInv, Parts, RunJob, qvars
<1>3. With(j)' = With(j) /\ Queued(j)' = Queued(j)
  BY <1>2 DEF With, Queued
<1>4. Run(j)' = Run(j) \ {w} /\ (w \in Run(j) <=> j = e)
  <2>1. running' = [running EXCEPT ![w] = NULL] /\ DOMAIN running = Workers
    BY DEF RunJob, PoolInv, Parts
  <2>2. running'[w] = NULL /\ \A v \in Workers : v # w => running'[v] = running[v]
    BY <2>1
  <2> QED
    BY <1>2, <2>2 DEF Run
<1>5. Ended(j)' = Ended(j) \cup (IF j = e THEN {n + 1} ELSE {})
  <2>1. done' = Append(done, e) /\ done \in Seq(Jobs)
    BY DEF RunJob, PoolInv, Parts
  <2>2. /\ DOMAIN done' = 1..(n + 1) /\ done'[n + 1] = e
        /\ \A i \in 1..n : done'[i] = done[i]
    BY <1>2, <2>1
  <2>3. 1..(n + 1) = (1..n) \cup {n + 1} /\ n + 1 \notin 1..n
    BY <1>2
  <2> HIDE DEF e, n
  <2> QED
    BY <1>2, <2>2, <2>3 DEF Ended
<1>6. CASE j = e
  <2>1. Run(j) = {w} /\ With(j) = {} /\ Queued(j) = {} /\ Ended(j) = {} /\ j \notin todo
    BY <1>2, <1>4, <1>6 DEF PlaceOf, Nowhere, Placed, Single
  <2>2. /\ Run(j)' = {} /\ With(j)' = {} /\ Queued(j)' = {} /\ Ended(j)' = {n + 1}
        /\ j \notin todo'
    BY <1>2, <1>3, <1>4, <1>5, <1>6, <2>1
  <2> HIDE DEF n
  <2> QED
    BY <2>2 DEF PlaceOf, Placed, Single
<1>7. CASE j # e
  BY <1>2, <1>3, <1>4, <1>5, <1>7 DEF PlaceOf, Placed, Nowhere
<1> QED
  BY <1>6, <1>7
-----------------------------------------------------------------------------
LEMMA PartsStep ==
  ASSUME PoolInv, Views, [Next]_vars
  PROVE  Parts'
<1> USE DEF PoolInv, Parts
<1>1. CASE UNCHANGED <<running, done, dead>> /\ todo' \in SUBSET todo /\ early' \in {early, {}}
  BY <1>1
<1>2. CASE UNCHANGED <<running, done, dead, todo>> /\ early' \in SUBSET Jobs
  BY <1>2
<1>3. ASSUME NEW w \in Workers, takeJob(w) PROVE Parts'
  <2>1. First \in Jobs \cup {Poison}
    BY <1>3, Popped, PoolAssumption DEF takeJob
  <2> QED
    BY <1>3, <2>1 DEF takeJob
<1>4. ASSUME NEW w \in Workers, RunJob(w) PROVE Parts'
  BY <1>4 DEF RunJob
<1>5. CASE BeginKill
  BY <1>2, <1>5 DEF BeginKill
<1> QED
  BY <1>1, <1>2, <1>3, <1>4, <1>5, StepKinds DEF Given, Pushed, Idle, pvars

LEMMA ThreadsStep ==
  ASSUME PoolInv, Views, [Next]_vars
  PROVE  ThreadsInv'
<1> USE PoolAssumption DEF PoolInv, ThreadsInv, Parts
<1>0. /\ op \in [Threads -> {"none", "back", "front", "pop"}] /\ arg \in [Threads -> Entry \cup {NULL}]
      /\ Producers \subseteq Threads /\ Workers \subseteq Threads /\ Owner \in Producers
  BY DEF QueueInv, TypeInv, QTypeOK, Producers
<1>1. ASSUME NEW t \in Producers, NEW e, Given(t, e) PROVE ThreadsInv'
  <2>1. \A u \in Threads : u # t => arg'[u] = arg[u] /\ op'[u] = op[u]
    BY <1>0, <1>1 DEF Given
  <2>2. op'[t] \in {"back", "front"} /\ UNCHANGED <<running, dead>>
    BY <1>1 DEF Given
  <2> QED
    BY <1>0, <2>1, <2>2
<1>2. ASSUME NEW t \in Producers, Pushed(t) PROVE ThreadsInv'
  <2>1. /\ op' = [op EXCEPT ![t] = "none"] /\ arg' = [arg EXCEPT ![t] = NULL]
        /\ UNCHANGED <<running, dead>>
    BY <1>2 DEF Pushed, PushBack, PushFront, Leave, pvars
  <2> QED
    BY <1>0, <2>1
<1>3. ASSUME NEW w \in Workers, takeJob(w) PROVE ThreadsInv'
  <2>1. /\ op' = [op EXCEPT ![w] = "none"] /\ arg' = [arg EXCEPT ![w] = NULL]
        /\ dead' = (IF First = Poison THEN dead \cup {w} ELSE dead)
        /\ running' = [running EXCEPT ![w] = IF First = Poison THEN NULL ELSE First]
        /\ op[w] = "pop"
    BY <1>3 DEF takeJob, Pop, Popping, Leave
  <2>2. w \notin dead
    BY <2>1
  <2> QED
    BY <1>0, <2>1, <2>2
<1>4. ASSUME NEW w \in Workers, RunJob(w) PROVE ThreadsInv'
  BY <1>0, <1>4 DEF RunJob, qvars
<1>5. CASE Idle
  BY <1>0, <1>5 DEF Idle
<1> QED
  BY <1>0, <1>1, <1>2, <1>3, <1>4, <1>5, StepKinds

LEMMA PlacesStep ==
  ASSUME PoolInv, Views, [Next]_vars
  PROVE  PlacesInv'
<1>0. size \in Nat
  BY SizeAssumption DEF Views, QueueFacts
<1>1. CASE Idle
  <2>1. SUFFICES ASSUME NEW j \in Jobs PROVE PlaceOf(j)'
    BY DEF PlacesInv
  <2>2. With(j)' = With(j) /\ Queued(j)' = Queued(j) /\ Run(j)' = Run(j) /\ Ended(j)' = Ended(j)
    BY <1>1 DEF Idle, With, Queued, Run, Ended
  <2>3. PlaceOf(j) /\ todo' = todo
    BY <1>1 DEF Idle, PoolInv, PlacesInv
  <2> QED
    BY <2>2, <2>3 DEF PlaceOf, Nowhere, Placed
<1> QED
  BY <1>0, <1>1, StepKinds, JobAdded, PillAdded, JobPushed, JobTaken, JobRun DEF PoolInv

LEMMA PoolStep == PoolInv /\ [Next]_vars => PoolInv'
<1> SUFFICES ASSUME PoolInv, [Next]_vars PROVE PoolInv'
  OBVIOUS
<1>1. Views /\ QueueInv'
  BY QueueStep DEF PoolInv, Views
<1> QED
  BY <1>1, PartsStep, ThreadsStep, PlacesStep DEF PoolInv

LEMMA PoolInit == Init => PoolInv
<1> SUFFICES ASSUME Init PROVE PoolInv
  OBVIOUS
<1>1. QueueInv
  BY SizeAssumption DEF Init, QInit, QueueInv, TypeInv, QTypeOK, PushesEntries, Slots, RingInv, Wrap
<1>2. Parts /\ ThreadsInv
  BY DEF Init, QInit, Parts, ThreadsInv
<1>3. ASSUME NEW j \in Jobs PROVE Nowhere(j)
  <2>1. j # NULL
    BY PoolAssumption, NullAssumption
  <2>2. With(j) = {} /\ Run(j) = {}
    BY <2>1, PoolAssumption DEF Init, QInit, With, Run, Producers
  <2>3. Queued(j) = {} /\ Ended(j) = {}
    BY DEF Init, QInit, Queued, Ended
  <2> QED
    BY <2>2, <2>3 DEF Nowhere
<1>4. PlacesInv
  BY <1>3 DEF Init, PlacesInv, PlaceOf
<1> QED
  BY <1>1, <1>2, <1>4 DEF PoolInv

LEMMA PoolInvHolds == Spec => []PoolInv
  BY PoolInit, PoolStep, PTL DEF Spec

(* The pool is a client of qbuffer.c that keeps to its calls: what is      *)
(* proved of the queue, no lost wakeup and no NULL job among it, holds of  *)
(* the pool's.                                                             *)
THEOREM PoolUsesQueue == Spec => QSpec
<1>1. Init => QInit
  BY DEF Init
<1>2. PoolInv /\ [Next]_vars => [QNext]_qvars
  BY UsesQueue DEF PoolInv
<1> QED
  BY <1>1, <1>2, PoolInvHolds, PTL DEF Spec, QSpec

(* Whoever adds jobs at which priority, however many workers take them and *)
(* whether or not the pool is being killed: addJob, the queue, takeJob and *)
(* do_worker lose no job and run none twice.                               *)
THEOREM JobsKept == Spec => []JobInOnePlace
<1>1. ASSUME PoolInv PROVE JobInOnePlace
  <2> SUFFICES ASSUME NEW j \in Jobs \ todo
               PROVE  Cardinality(With(j)) + Cardinality(Queued(j)) + Cardinality(Run(j))
                        + Cardinality(Ended(j)) = 1
    BY DEF JobInOnePlace, With, Queued, Run, Ended
  <2>1. Placed(j)
    BY <1>1 DEF PoolInv, PlacesInv, PlaceOf
  <2>2. Cardinality({}) = 0 /\ \A S : Single(S) => Cardinality(S) = 1
    BY FS_EmptySet, FS_Singleton DEF Single
  <2> HIDE DEF With, Queued, Run, Ended
  <2> QED
    BY <2>1, <2>2 DEF Placed
<1> QED
  BY <1>1, PoolInvHolds, PTL
-----------------------------------------------------------------------------
(* The inductive invariant behind KilledMeansDone.  A NULL job goes in at  *)
(* the back, and only once thrpool_kill has noted which jobs are in: as    *)
(* long as one of these is in the queue, no NULL job is before it, and so  *)
(* no worker has left.                                                     *)
Started(j) == (\E w \in Workers : running[w] = j) \/ \E i \in DOMAIN done : done[i] = j
Ahead(j)   == \E i \in 1..size : Contents[i] = j /\ \A k \in 1..i : Contents[k] # Poison
NoPills    == /\ \A t \in Threads : arg[t] # Poison
              /\ \A i \in 1..size : Contents[i] # Poison
KillInv ==
  /\ \A t \in Threads : arg[t] = Poison => op[t] = "back"
  /\ kill = "no" => NoPills /\ dead = {} /\ early = {}
  /\ kill = "joined" => dead = Workers
  /\ \A j \in early : Started(j) \/ (dead = {} /\ Ahead(j))

(* An early job that is ahead of the NULL jobs stays so while the queue    *)
(* grows: at the front by jobs, at the back by either.                     *)
LEMMA AheadPushed ==
  ASSUME PoolInv, KillInv, Views, NEW t \in Producers, Pushed(t), NEW j, Ahead(j)
  PROVE  Ahead(j)'
<1>0. t \in Threads
  BY PoolAssumption DEF Producers
<1>1. PICK i \in 1..size : Contents[i] = j /\ \A k \in 1..i : Contents[k] # Poison
  BY DEF Ahead
<1>2. CASE PushBack(t)
  <2>1. size \in Nat /\ size' = size + 1 /\ \A k \in 1..size : Contents'[k] = Contents[k]
    BY <1>0, <1>2, PushedBack
  <2>2. i \in 1..size' /\ \A k \in 1..i : k \in 1..size
    BY <2>1
  <2> QED
    BY <1>1, <2>1, <2>2 DEF Ahead
<1>3. CASE PushFront(t)
  <2>1. /\ size \in Nat /\ size' = size + 1 /\ Contents'[1] = arg[t]
        /\ \A k \in 1..size : Contents'[k + 1] = Contents[k]
    BY <1>0, <1>3, PushedFront
  <2>2. arg[t] # Poison
    BY <1>0, <1>3 DEF PushFront, KillInv
  <2>3. i + 1 \in 1..size' /\ \A k \in 1..(i + 1) : k = 1 \/ (k - 1 \in 1..i /\ k = (k - 1) + 1)
    BY <2>1
  <2>4. \A k \in 1..i : k \in 1..size
    BY <2>1
  <2>5. \A k \in 1..(i + 1) : Contents'[k] # Poison
    BY <1>1, <2>1, <2>2, <2>3, <2>4
  <2>6. Contents'[i + 1] = j
    BY <1>1, <2>1
  <2> QED
    BY <2>3, <2>5, <2>6 DEF Ahead
<1> QED
  BY <1>2, <1>3 DEF Pushed

LEMMA PushedKill ==
  ASSUME PoolInv, KillInv, Views, NEW t \in Producers, Pushed(t)
  PROVE  KillInv'
<1>0. t \in Threads
  BY PoolAssumption DEF Producers
<1>1. arg' = [arg EXCEPT ![t] = NULL] /\ op' = [op EXCEPT ![t] = "none"] /\ UNCHANGED pvars
  BY DEF Pushed, PushBack, PushFront, Leave
<1>2. Poison # NULL
  BY PoolAssumption, NullAssumption
<1>3. \A u \in Threads : (arg'[u] = Poison) => (u # t /\ arg[u] = Poison /\ op'[u] = op[u])
  BY <1>0, <1>1, <1>2 DEF PoolInv, QueueInv, TypeInv, QTypeOK
<1>4. NoPills => NoPills'
  <2> SUFFICES ASSUME NoPills PROVE NoPills'
    OBVIOUS
  <2>1. size \in Nat /\ size' = size + 1
    BY <1>0, PushedBack, PushedFront DEF Pushed
  <2>2. \A i \in 1..size' : Contents'[i] # Poison
    <3>1. CASE PushBack(t)
      <4>1. \A i \in 1..size' : i \in 1..size \/ i = size + 1
        BY <2>1
      <4> QED
        BY <1>0, <3>1, <4>1, PushedBack DEF NoPills
    <3>2. CASE PushFront(t)
      <4>1. \A i \in 1..size' : i = 1 \/ (i - 1 \in 1..size /\ i = (i - 1) + 1)
        BY <2>1
      <4>2. Contents'[1] = arg[t] /\ \A i \in 1..size : Contents'[i + 1] = Contents[i]
        BY <1>0, <3>2, PushedFront
      <4> QED
        BY <1>0, <4>1, <4>2 DEF NoPills
    <3> QED
      BY <3>1, <3>2 DEF Pushed
  <2> QED
    BY <1>3, <2>2 DEF NoPills
<1>5. \A j \in early : Started(j)' \/ (dead' = {} /\ Ahead(j)')
  BY <1>1, AheadPushed DEF KillInv, Started, pvars
<1> QED
  BY <1>1, <1>3, <1>4, <1>5 DEF KillInv, pvars

LEMMA TakenKill ==
  ASSUME PoolInv, KillInv, Views, NEW w \in Workers, takeJob(w)
  PROVE  KillInv'
<1>0. w \in Threads /\ Pop(w) /\ op[w] = "pop" /\ running[w] = NULL /\ arg[w] = NULL
  BY PoolAssumption DEF takeJob, Pop, Popping, PoolInv, ThreadsInv
<1>1. /\ size \in Nat \ {0} /\ size' = size - 1 /\ First = Contents[1]
      /\ \A i \in 1..size' : Contents'[i] = Contents[i + 1]
  BY <1>0, Popped
<1>2. arg' = arg /\ (\A t \in Threads : t # w => op'[t] = op[t]) /\ Poison # NULL
  BY <1>0, PoolAssumption, NullAssumption DEF Pop, Leave, PoolInv, QueueInv, TypeInv, QTypeOK
<1>3. \A i \in 1..size' : i + 1 \in 1..size
  BY <1>1
<1>4. kill = "no" => NoPills' /\ dead' = {}
  <2> SUFFICES ASSUME kill = "no" PROVE NoPills' /\ dead' = {}
    OBVIOUS
  <2>1. 1 \in 1..size
    BY <1>1
  <2> QED
    BY <1>1, <1>2, <1>3, <2>1 DEF KillInv, NoPills, takeJob
<1>5. ASSUME NEW j \in early PROVE Started(j)' \/ (dead' = {} /\ Ahead(j)')
  <2>0. j # NULL
    BY PoolAssumption, NullAssumption DEF PoolInv, Parts
  <2>1. /\ \A v \in Workers : v # w => running'[v] = running[v]
        /\ running'[w] = IF First = Poison THEN NULL ELSE First
        /\ done' = done /\ dead' = IF First = Poison THEN dead \cup {w} ELSE dead
    BY DEF takeJob, PoolInv, Parts
  <2>2. CASE Started(j)
    BY <1>0, <2>0, <2>1, <2>2 DEF Started
  <2>3. CASE dead = {} /\ Ahead(j)
    <3>1. PICK i \in 1..size : Contents[i] = j /\ \A k \in 1..i : Contents[k] # Poison
      BY <2>3 DEF Ahead
    <3>2. First # Poison
      BY <1>1, <3>1
    <3>3. CASE i = 1
      BY <1>1, <2>1, <3>1, <3>2, <3>3 DEF Started
    <3>4. CASE i # 1
      <4>1. i - 1 \in 1..size' /\ (i - 1) + 1 = i /\ \A k \in 1..(i - 1) : k \in 1..size' /\ k + 1 \in 1..i
        BY <1>1, <3>4
      <4>2. Contents'[i - 1] = j /\ \A k \in 1..(i - 1) : Contents'[k] # Poison
        BY <1>1, <3>1, <4>1
      <4> QED
        BY <2>1, <2>3, <3>2, <4>1, <4>2 DEF Ahead
    <3> QED
      BY <3>3, <3>4
  <2> QED
    BY <2>2, <2>3 DEF KillInv
<1>6. kill' = "joined" => dead' = Workers
  BY DEF takeJob, KillInv
<1> QED
  BY <1>0, <1>2, <1>4, <1>5, <1>6 DEF KillInv, takeJob

LEMMA GivenKill ==
  ASSUME PoolInv, KillInv, NEW t \in Producers, NEW e, Given(t, e), UNCHANGED <<kill, early>>,
         e = Poison => kill # "no" /\ op'[t] = "back"
  PROVE  KillInv'
<1>1. t \in Threads
  BY PoolAssumption DEF Producers
<1>2. /\ \A u \in Threads : u # t => arg'[u] = arg[u] /\ op'[u] = op[u]
      /\ arg'[t] = e /\ UNCHANGED <<size, Contents, running, done, dead>>
  BY <1>1 DEF Given, PoolInv, QueueInv, TypeInv, QTypeOK
<1>3. \A j : Started(j)' = Started(j) /\ Ahead(j)' = Ahead(j)
  BY <1>2 DEF Started, Ahead
<1>4. kill = "no" => NoPills'
  BY <1>1, <1>2 DEF KillInv, NoPills
<1> QED
  BY <1>1, <1>2, <1>3, <1>4 DEF KillInv

(* thrpool_kill is called: a job that no thread is about to push is in the *)
(* queue, run or done, and there is no NULL job yet.                       *)
LEMMA KillBegun ==
  ASSUME PoolInv, KillInv, size \in Nat, BeginKill, Idle
  PROVE  KillInv'
<1>1. /\ NoPills /\ dead = {} /\ kill' = "pills" /\ op' = op
      /\ early' = Jobs \ (todo \cup {arg[t] : t \in Threads})
      /\ UNCHANGED <<arg, size, Contents, running, done, dead>>
  BY DEF BeginKill, KillInv, Idle, qvars
<1>2. ASSUME NEW j \in early' PROVE Started(j)' \/ Ahead(j)'
  <2>1. j \in Jobs /\ j \notin todo /\ \A t \in Threads : arg[t] # j
    BY <1>1
  <2>2. Placed(j) /\ With(j) = {}
    BY <2>1, PoolAssumption DEF PoolInv, PlacesInv, PlaceOf, With, Producers
  <2>3. Queued(j) # {} \/ Run(j) # {} \/ Ended(j) # {}
    BY <2>2 DEF Placed, Single
  <2>4. CASE Queued(j) # {}
    <3>1. PICK i \in 1..size : Contents[i] = j
      BY <2>4 DEF Queued
    <3>2. \A k \in 1..i : k \in 1..size
      OBVIOUS
    <3> QED
      BY <1>1, <3>1, <3>2 DEF Ahead, NoPills
  <2>5. CASE Run(j) # {} \/ Ended(j) # {}
    BY <1>1, <2>5 DEF Run, Ended, Started
  <2> QED
    BY <2>3, <2>4, <2>5
<1> QED
  BY <1>1, <1>2 DEF KillInv

LEMMA KillStep ==
  ASSUME PoolInv, KillInv, [Next]_vars
  PROVE  KillInv'
<1>0. Views /\ size \in Nat
  BY QueueStep, SizeAssumption DEF PoolInv, Views, QueueFacts
<1>1. ASSUME NEW t \in Producers, todo # {}, Given(t, NextJob), UNCHANGED <<kill, early>> PROVE KillInv'
  <2>1. NextJob # Poison
    BY <1>1, NextJobIsOne, PoolAssumption DEF PoolInv, Parts
  <2> QED
    BY <1>1, <2>1, GivenKill
<1>2. CASE Given(Owner, Poison) /\ kill = "pills" /\ op'[Owner] = "back" /\ UNCHANGED <<kill, early>>
  BY <1>2, GivenKill DEF Producers
<1>3. ASSUME NEW w \in Workers, RunJob(w) PROVE KillInv'
  <2>1. UNCHANGED <<arg, op, kill, early, dead, size, Contents>>
    BY <1>3, RingUnchanged DEF RunJob, qvars, ring
  <2>2. ASSUME NEW j \in Jobs, Started(j) PROVE Started(j)'
    <3>1. /\ done' = Append(done, running[w]) /\ done \in Seq(Jobs) /\ running[w] \in Jobs
          /\ \A v \in Workers : v # w => running'[v] = running[v]
      BY <1>3 DEF RunJob, PoolInv, Parts
    <3>2. /\ DOMAIN done' = 1..(Len(done) + 1) /\ DOMAIN done = 1..Len(done) /\ Len(done) \in Nat
          /\ done'[Len(done) + 1] = running[w]
          /\ \A i \in DOMAIN done : done'[i] = done[i]
      BY <3>1
    <3>3. CASE running[w] = j
      BY <3>2, <3>3 DEF Started
    <3>4. CASE running[w] # j
      <4>1. CASE \E v \in Workers : running[v] = j
        BY <3>1, <3>4, <4>1 DEF Started
      <4>2. CASE \E i \in DOMAIN done : done[i] = j
        BY <3>2, <4>2 DEF Started
      <4> QED
        BY <2>2, <4>1, <4>2 DEF Started
    <3> QED
      BY <3>3, <3>4
  <2>3. \A j : Ahead(j)' = Ahead(j)
    BY <2>1 DEF Ahead
  <2>4. NoPills' = NoPills
    BY <2>1 DEF NoPills
  <2> QED
    BY <2>1, <2>2, <2>3, <2>4 DEF KillInv, PoolInv, Parts
<1>4. ASSUME Idle, UNCHANGED early, kill' = "no" => kill = "no",
             kill' = "joined" => kill = "joined" \/ dead = Workers
      PROVE  KillInv'
  <2>1. UNCHANGED <<size, Contents, running, done, arg, dead>>
    BY <1>4 DEF Idle
  <2>2. \A j : Ahead(j)' = Ahead(j) /\ Started(j)' = Started(j)
    BY <2>1 DEF Ahead, Started
  <2>3. NoPills' = NoPills
    BY <2>1 DEF NoPills
  <2>4. \A t \in Threads : op[t] = "back" => op'[t] = "back"
    BY <1>4 DEF Idle
  <2> QED
    BY <1>4, <2>1, <2>2, <2>3, <2>4 DEF KillInv
<1> QED
  BY <1>0, <1>1, <1>2, <1>3, <1>4, KillBegun, PushedKill, TakenKill, StepKinds DEF PoolInv

LEMMA KillInit == Init => KillInv
  BY PoolAssumption, NullAssumption DEF Init, QInit, KillInv, NoPills

(* However many workers there are and whatever is in the queue or pushed   *)
(* behind the NULL jobs: when thrpool_kill returns, the jobs that were in  *)
(* the pool when it was called have all been run to their end.             *)
THEOREM KilledPoolHasRun == Spec => []KilledMeansDone
<1>1. Init => KillInv
  BY KillInit
<1>2. PoolInv /\ KillInv /\ [Next]_vars => KillInv'
  BY KillStep
<1>3. ASSUME PoolInv, KillInv PROVE KilledMeansDone
  <2> SUFFICES ASSUME kill = "joined", NEW j \in early PROVE \E i \in DOMAIN done : done[i] = j
    BY DEF KilledMeansDone
  <2>1. Workers # {}
    BY PoolAssumption, SizeAssumption, FS_EmptySet
  <2>2. dead = Workers /\ \A w \in Workers : running[w] = NULL
    BY <1>3 DEF KillInv, PoolInv, ThreadsInv
  <2>3. j # NULL
    BY <1>3, PoolAssumption, NullAssumption DEF PoolInv, Parts
  <2> QED
    BY <1>3, <2>1, <2>2, <2>3 DEF KillInv, Started
<1> QED
  BY <1>1, <1>2, <1>3, PoolInvHolds, PTL DEF Spec
=============================================================================
