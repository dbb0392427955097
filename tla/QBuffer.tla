------------------------------ MODULE QBuffer ------------------------------
(***************************************************************************)
(* The blocking ring of pointers (qbuffer.c) behind the coding job queue   *)
(* (job_q of thr_pool.c) and the queues of packets ready to be sent        *)
(* (coded_q of srvctcp.c).  The entries are q_[tail+1], ... , q_[head]:    *)
(* q_pop takes the first of them, q_push_back adds after the last,         *)
(* q_push_front before the first.  One mutex, two condition variables; a   *)
(* critical section is one action.                                         *)
(***************************************************************************)
EXTENDS Integers, Sequences

CONSTANTS Threads,   \* the threads that use the buffer
          Entry,     \* the pointers stored
          NULL,
          MaxSize    \* qbuffer_t.max_size

ASSUME SizeAssumption == MaxSize \in Nat \ {0}
ASSUME NullAssumption == NULL \notin Entry

VARIABLES
  q_, head, tail, size,   \* the fields of qbuffer_t
  pushWait,   \* threads asleep on q_condv_push_
  popWait,    \* threads asleep on q_condv_pop_
  op,         \* the call a thread is in: "none", "back", "front" or "pop"
  arg         \* the entry it pushes

ring  == <<q_, head, tail, size>>
qvars == <<q_, head, tail, size, pushWait, popWait, op, arg>>

Slots == 0..(MaxSize - 1)

(* Bugs the properties must notice: a condition variable that is not       *)
(* signalled, an entry read before the index moves.                        *)
SignalOmitted(w) == {w}
FirstUnmoved == q_[tail]

(* modulo() of qbuffer.c: never negative.                                  *)
modulo(n, m) == ((n % m) + m) % m

(* pthread_cond_signal on a condition variable with the waiters w.         *)
Signalled(w) == IF w = {} THEN {w} ELSE {w \ {t} : t \in w}

(* q_pop's entry.                                                          *)
First == q_[modulo(tail + 1, MaxSize)]
-----------------------------------------------------------------------------
(* q_init                                                                  *)
QInit ==
  /\ q_ = [i \in Slots |-> NULL]
  /\ head = 0 /\ tail = 0 /\ size = 0
  /\ pushWait = {} /\ popWait = {}
  /\ op = [t \in Threads |-> "none"]
  /\ arg = [t \in Threads |-> NULL]

(* A thread calls q_push_back or q_push_front with e, or q_pop.            *)
CallPush(t, e, where) ==
  /\ op[t] = "none"
  /\ op' = [op EXCEPT ![t] = where]
  /\ arg' = [arg EXCEPT ![t] = e]
  /\ UNCHANGED <<ring, pushWait, popWait>>

CallPop(t) ==
  /\ op[t] = "none"
  /\ op' = [op EXCEPT ![t] = "pop"]
  /\ UNCHANGED <<ring, pushWait, popWait, arg>>

Pushing(t) == op[t] \in {"back", "front"} /\ t \notin pushWait
Popping(t) == op[t] = "pop" /\ t \notin popWait

(* A full buffer: signal a popper and sleep.                               *)
PushSleep(t) ==
  /\ Pushing(t) /\ size = MaxSize
  /\ popWait' \in Signalled(popWait)
  /\ pushWait' = pushWait \cup {t}
  /\ UNCHANGED <<ring, op, arg>>

(* The ends of the two pushes, and of q_pop: signal both sides, return.    *)
Leave(t) ==
  /\ popWait' \in Signalled(popWait)
  /\ pushWait' \in Signalled(pushWait)
  /\ op' = [op EXCEPT ![t] = "none"]
  /\ arg' = [arg EXCEPT ![t] = NULL]

PushBack(t) ==
  /\ Pushing(t) /\ op[t] = "back" /\ size # MaxSize
  /\ head' = modulo(head + 1, MaxSize)
  /\ q_' = [q_ EXCEPT ![head'] = arg[t]]
  /\ size' = size + 1
  /\ Leave(t)
  /\ UNCHANGED tail

(* A bug DequeSpec must notice: the entry stored after the index moves.    *)
PushFrontMoved(t) ==
  /\ Pushing(t) /\ op[t] = "front" /\ size # MaxSize
  /\ tail' = modulo(tail - 1, MaxSize)
  /\ q_' = [q_ EXCEPT ![tail'] = arg[t]]
  /\ size' = size + 1
  /\ Leave(t)
  /\ UNCHANGED head

PushFront(t) ==
  /\ Pushing(t) /\ op[t] = "front" /\ size # MaxSize
  /\ q_' = [q_ EXCEPT ![tail] = arg[t]]
  /\ tail' = modulo(tail - 1, MaxSize)
  /\ size' = size + 1
  /\ Leave(t)
  /\ UNCHANGED head

(* An empty buffer: signal a pusher and sleep.                             *)
PopSleep(t) ==
  /\ Popping(t) /\ size = 0
  /\ pushWait' \in Signalled(pushWait)
  /\ popWait' = popWait \cup {t}
  /\ UNCHANGED <<ring, op, arg>>

(* q_pop returns First.                                                    *)
Pop(t) ==
  /\ Popping(t) /\ size # 0
  /\ tail' = modulo(tail + 1, MaxSize)
  /\ size' = size - 1
  /\ Leave(t)
  /\ UNCHANGED <<q_, head>>

(* A thread wakes up without having been signalled.                        *)
SpuriousWakeup(t) ==
  /\ t \in pushWait \cup popWait
  /\ pushWait' = pushWait \ {t}
  /\ popWait' = popWait \ {t}
  /\ UNCHANGED <<ring, op, arg>>

(* q_free, which clears the slots its loop visits.  handle_ack calls it    *)
(* under the block_mutex that every pusher holds, in the one thread that   *)
(* pops.                                                                   *)
Free ==
  /\ \A t \in Threads : op[t] = "none"
  /\ q_' = [i \in Slots |-> IF tail < i /\ i <= head THEN NULL ELSE q_[i]]
  /\ head' = 0 /\ tail' = 0 /\ size' = 0
  /\ UNCHANGED <<pushWait, popWait, op, arg>>

QPush(t) == PushSleep(t) \/ PushBack(t) \/ PushFront(t)

QNext ==
  \/ \E t \in Threads :
       \/ \E e \in Entry, where \in {"back", "front"} : CallPush(t, e, where)
       \/ CallPop(t)
       \/ QPush(t)
       \/ PopSleep(t) \/ Pop(t)
       \/ SpuriousWakeup(t)
  \/ Free

QSpec == QInit /\ [][QNext]_qvars
-----------------------------------------------------------------------------
(* The indices of the ring stay in it, and size counts what lies between   *)
(* them.                                                                   *)
QTypeOK ==
  /\ q_ \in [Slots -> Entry \cup {NULL}]
  /\ head \in Slots /\ tail \in Slots /\ size \in 0..MaxSize
  /\ op \in [Threads -> {"none", "back", "front", "pop"}]
  /\ arg \in [Threads -> Entry \cup {NULL}]
  /\ pushWait \subseteq {t \in Threads : op[t] \in {"back", "front"}}
  /\ popWait \subseteq {t \in Threads : op[t] = "pop"}

(* The entries in the ring, the next to be popped first.                   *)
Contents == [i \in 1..size |-> q_[modulo(tail + i, MaxSize)]]

(* The ring, its two indices moving in both directions and wrapping, is a  *)
(* double-ended queue.                                                     *)
D == INSTANCE Deque WITH queue <- Contents, Capacity <- MaxSize
DequeSpec == D!Spec

(* q_pop never returns NULL or a slot that was never filled: takeJob and   *)
(* send_one use the pointer unchecked.                                     *)
PopNeverNull == size # 0 => First # NULL

(* No wakeup is lost although every call signals one sleeper of a kind:    *)
(* while a popper sleeps on a buffer with entries, another one is awake in *)
(* q_pop and will signal when it leaves; so for pushers and free slots.    *)
NoWakeupLost ==
  /\ popWait # {} /\ size > 0 => \E t \in Threads : Popping(t)
  /\ pushWait # {} /\ size < MaxSize => \E t \in Threads : Pushing(t)
=============================================================================
