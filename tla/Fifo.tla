-------------------------------- MODULE Fifo --------------------------------
(***************************************************************************)
(* The client's byte pipe (fifo.c): the thread that decodes packets pushes *)
(* the decoded bytes, the application pops them in read_ctcp().  A ring of *)
(* max_size bytes under one mutex with two condition variables.  Whatever  *)
(* happens between taking the mutex and releasing it (or sleeping on a     *)
(* condition variable) is one action.                                      *)
(***************************************************************************)
EXTENDS Integers, Sequences

CONSTANTS Pushers,    \* threads that call fifo_push (the decoder thread)
          Poppers,    \* threads that call fifo_pop (application threads)
          Byte,       \* the byte values
          MaxSize,    \* fifo_t.max_size
          MaxChunk,   \* bound: largest buffer a caller passes
          MaxPushed   \* bound: no new packet once so many bytes went in

ASSUME ByteAssumption   == 0 \in Byte
ASSUME SizeAssumption   == MaxSize \in Nat \ {0}
ASSUME BoundAssumption  == MaxChunk \in Nat \ {0} /\ MaxPushed \in Nat
ASSUME ThreadAssumption == Pushers \cap Poppers = {}

VARIABLES
  q_, head, tail, size, released,   \* the fields of fifo_t
  pushWait,   \* threads asleep on q_condv_push_
  popWait,    \* threads asleep on q_condv_pop_
  pc,         \* where a thread is: outside ("idle"), in partial_write before
              \* and after its look at the space ("space", "fit"), in a plain
              \* fifo_push ("push"), in fifo_pop ("pop")
  buf,        \* what a pusher has still to push
  want,       \* how many bytes a popper asked for
  pushed,     \* history: every byte copied into the ring
  popped      \* history: every byte copied out of it

ring == <<q_, head, tail, size, released>>
hist == <<pushed, popped>>
vars == <<q_, head, tail, size, released, pushWait, popWait, pc, buf, want,
          pushed, popped>>

Threads == Pushers \cup Poppers
Slots   == 0..(MaxSize - 1)
Chunks  == UNION {[1..k -> Byte] : k \in 1..MaxChunk}

MinOf(a, b) == IF a < b THEN a ELSE b

(* Broken variants of the next definitions, each a bug that a property     *)
(* below must notice: a condition variable that is not signalled, copies   *)
(* that ignore the end of the ring, a byte too many reported as free.      *)
SignalOmitted(w) == {w}
CopyInUnwrapped(r, at, s) ==
  [i \in Slots |-> IF at <= i /\ i < at + Len(s) THEN s[i - at + 1] ELSE r[i]]
CopyOutUnwrapped(r, at, n) == [i \in 1..n |-> r[MinOf(at + i - 1, MaxSize - 1)]]
GetSpaceOneMore == MaxSize - size + 1

(* fifo_getspace                                                           *)
fifo_getspace == MaxSize - size

(* modulo() of fifo.c: the remainder that is never negative.               *)
modulo(n, m) == n % m

(* pthread_cond_signal on a condition variable with the waiters w: one of  *)
(* them, any one, leaves; nobody waiting, nothing happens.                 *)
Signalled(w) == IF w = {} THEN {w} ELSE {w \ {t} : t \in w}

(* fifo_push's one or two memcpy()s of the sequence s to offset at.        *)
CopyIn(r, at, s) ==
  LET tail_to_end == MaxSize - at IN
  IF Len(s) <= tail_to_end
    THEN [i \in Slots |-> IF at <= i /\ i < at + Len(s) THEN s[i - at + 1] ELSE r[i]]
    ELSE [i \in Slots |-> IF at <= i THEN s[i - at + 1]
                          ELSE IF i < Len(s) - tail_to_end THEN s[tail_to_end + i + 1]
                          ELSE r[i]]

(* fifo_pop's one or two memcpy()s of n bytes from offset at.              *)
CopyOut(r, at, n) ==
  LET head_to_end == MaxSize - at IN
  IF n <= head_to_end
    THEN [i \in 1..n |-> r[at + i - 1]]
    ELSE [i \in 1..n |-> IF i <= head_to_end THEN r[at + i - 1]
                                             ELSE r[i - head_to_end - 1]]
-----------------------------------------------------------------------------
(* fifo_init                                                               *)
Init ==
  /\ q_ = [i \in Slots |-> 0]
  /\ head = 0 /\ tail = 0 /\ size = 0 /\ released = FALSE
  /\ pushWait = {} /\ popWait = {}
  /\ pc = [t \in Threads |-> "idle"]
  /\ buf = [t \in Pushers |-> <<>>]
  /\ want = [t \in Poppers |-> 0]
  /\ pushed = <<>> /\ popped = <<>>

(* writeAndFreeBlock has a decoded packet s to push, and calls fifo_push;  *)
(* partial_write has one too, and looks at fifo_getspace first.            *)
CallPush(t, s, entry) ==
  /\ pc[t] = "idle"
  /\ Len(pushed) <= MaxPushed
  /\ pc' = [pc EXCEPT ![t] = entry]
  /\ buf' = [buf EXCEPT ![t] = s]
  /\ UNCHANGED <<ring, pushWait, popWait, want, hist>>

(* fifo_getspace, and what partial_write does with the answer.             *)
GetSpace(t) ==
  /\ pc[t] = "space"
  /\ \/ /\ fifo_getspace >= Len(buf[t])
        /\ pc' = [pc EXCEPT ![t] = "fit"]
        /\ UNCHANGED buf
     \/ /\ fifo_getspace < Len(buf[t])
        /\ pc' = [pc EXCEPT ![t] = "idle"]
        /\ buf' = [buf EXCEPT ![t] = <<>>]
  /\ UNCHANGED <<ring, pushWait, popWait, want, hist>>

InPush(t) == pc[t] \in {"fit", "push"}

(* fifo_push finds the ring full: it signals a popper and sleeps.          *)
PushSleep(t) ==
  /\ InPush(t) /\ t \notin pushWait
  /\ size = MaxSize /\ ~released
  /\ popWait' \in Signalled(popWait)
  /\ pushWait' = pushWait \cup {t}
  /\ UNCHANGED <<ring, pc, buf, want, hist>>

(* fifo_push stores what fits.  Its caller loops until the packet is in,   *)
(* and gives the packet up when fifo_push returns 0.                       *)
Push(t) ==
  LET push_size == MinOf(Len(buf[t]), MaxSize - size)
      s         == SubSeq(buf[t], 1, push_size)
      rest      == SubSeq(buf[t], push_size + 1, Len(buf[t]))
      done      == push_size = 0 \/ push_size = Len(buf[t]) IN
  /\ InPush(t) /\ t \notin pushWait
  /\ size # MaxSize \/ released
  /\ q_' = CopyIn(q_, tail, s)
  /\ tail' = modulo(tail + push_size, MaxSize)
  /\ size' = size + push_size
  /\ pushed' = pushed \o s
  /\ popWait' \in Signalled(popWait)
  /\ pushWait' \in Signalled(pushWait)
  /\ buf' = [buf EXCEPT ![t] = IF done THEN <<>> ELSE rest]
  /\ pc' = [pc EXCEPT ![t] = IF done THEN "idle" ELSE @]
  /\ UNCHANGED <<head, released, want, popped>>

(* read_ctcp asks for n bytes.                                             *)
CallPop(t, n) ==
  /\ pc[t] = "idle"
  /\ pc' = [pc EXCEPT ![t] = "pop"]
  /\ want' = [want EXCEPT ![t] = n]
  /\ UNCHANGED <<ring, pushWait, popWait, buf, hist>>

(* fifo_pop finds the ring empty: it signals a pusher and sleeps.          *)
PopSleep(t) ==
  /\ pc[t] = "pop" /\ t \notin popWait
  /\ size = 0 /\ ~released
  /\ pushWait' \in Signalled(pushWait)
  /\ popWait' = popWait \cup {t}
  /\ UNCHANGED <<ring, pc, buf, want, hist>>

(* fifo_pop takes what there is and returns.                               *)
Pop(t) ==
  LET pop_size == MinOf(want[t], size) IN
  /\ pc[t] = "pop" /\ t \notin popWait
  /\ size # 0 \/ released
  /\ popped' = popped \o CopyOut(q_, head, pop_size)
  /\ head' = modulo(head + pop_size, MaxSize)
  /\ size' = size - pop_size
  /\ pushWait' \in Signalled(pushWait)
  /\ popWait' \in Signalled(popWait)
  /\ pc' = [pc EXCEPT ![t] = "idle"]
  /\ want' = [want EXCEPT ![t] = 0]
  /\ UNCHANGED <<q_, tail, released, buf, pushed>>

(* fifo_release: it signals one waiter of each kind, and only then sets    *)
(* the flag, all under the mutex.                                          *)
Release ==
  /\ pushWait' \in Signalled(pushWait)
  /\ popWait' \in Signalled(popWait)
  /\ released' = TRUE
  /\ UNCHANGED <<q_, head, tail, size, pc, buf, want, hist>>

(* A thread returns from pthread_cond_wait without having been signalled,  *)
(* which POSIX allows.                                                     *)
SpuriousWakeup(t) ==
  /\ t \in pushWait \cup popWait
  /\ pushWait' = pushWait \ {t}
  /\ popWait' = popWait \ {t}
  /\ UNCHANGED <<ring, pc, buf, want, hist>>

(* close_clictcp frees the fifo once its threads are gone; the next socket *)
(* starts with a new one.                                                  *)
Free ==
  /\ released
  /\ \A t \in Threads : pc[t] = "idle"
  /\ q_' = [i \in Slots |-> 0]
  /\ head' = 0 /\ tail' = 0 /\ size' = 0 /\ released' = FALSE
  /\ pushed' = <<>> /\ popped' = <<>>
  /\ UNCHANGED <<pushWait, popWait, pc, buf, want>>

FifoPush(t) == PushSleep(t) \/ Push(t)
FifoPop(t)  == PopSleep(t) \/ Pop(t)

Next ==
  \/ \E t \in Pushers :
       \/ \E s \in Chunks, entry \in {"space", "push"} : CallPush(t, s, entry)
       \/ GetSpace(t)
       \/ FifoPush(t)
  \/ \E t \in Poppers :
       \/ \E n \in 1..MaxChunk : CallPop(t, n)
       \/ FifoPop(t)
  \/ \E t \in Threads : SpuriousWakeup(t)
  \/ Release
  \/ Free

Spec == Init /\ [][Next]_vars

(* A thread that is inside a call and not asleep keeps running.  Nobody is *)
(* obliged to call, to release, or to wake up spuriously.                  *)
FairSpec ==
  /\ Spec
  /\ \A t \in Pushers : WF_vars(GetSpace(t)) /\ WF_vars(FifoPush(t))
  /\ \A t \in Poppers : WF_vars(FifoPop(t))
-----------------------------------------------------------------------------
(* The indices of the ring stay in it, and size counts what lies between   *)
(* them.                                                                   *)
TypeOK ==
  /\ q_ \in [Slots -> Byte]
  /\ head \in Slots /\ tail \in Slots /\ size \in 0..MaxSize
  /\ released \in BOOLEAN
  /\ pushWait \subseteq Pushers /\ popWait \subseteq Poppers
  /\ pc \in [Threads -> {"idle", "space", "fit", "push", "pop"}]
  /\ buf \in [Pushers -> Seq(Byte)]
  /\ want \in [Poppers -> Nat]
  /\ pushed \in Seq(Byte) /\ popped \in Seq(Byte)

(* The bytes now in the ring, oldest first.                                *)
Contents == [i \in 1..size |-> q_[modulo(head + i - 1, MaxSize)]]

(* Nothing is lost, repeated, reordered or read from a stale slot: the     *)
(* bytes fifo_pop has handed out, followed by those still in the ring, are *)
(* exactly the bytes fifo_push has taken in, wherever head and tail have   *)
(* wrapped and however calls were split.                                   *)
StreamIntegrity == pushed = popped \o Contents

(* No wakeup is lost.  fifo_push and fifo_pop signal one waiter only, and  *)
(* fifo_release too, so every thread that could go on needs somebody to    *)
(* pass the signal along: while a popper sleeps on a ring with bytes in it *)
(* (or a released one) another popper is awake inside fifo_pop, and will   *)
(* signal when it leaves; the same for pushers and free space.             *)
NoLostWakeup ==
  /\ popWait # {} /\ (size > 0 \/ released)
       => \E t \in Poppers \ popWait : pc[t] = "pop"
  /\ pushWait # {} /\ (size < MaxSize \/ released)
       => \E t \in Pushers \ pushWait : InPush(t)

(* partial_write reads fifo_getspace, lets the mutex go, and then relies   *)
(* on the answer: as long as there is one pusher the packet still fits     *)
(* when fifo_push runs, so the decoder thread does not sleep there.        *)
SpaceStaysFree ==
  (\A t, u \in Pushers : t = u)
     => \A t \in Pushers : pc[t] = "fit" => size + Len(buf[t]) <= MaxSize

(* After fifo_release every call comes back, although release signals only *)
(* one sleeper of each kind: each one that leaves wakes the next.          *)
ReleaseFreesAll ==
  \A t \in Threads : (released /\ pc[t] # "idle") ~> pc[t] = "idle"

(* The ring implements the abstract pipe.                                  *)
Pipe == INSTANCE ByteStream WITH in <- pushed, out <- popped, closed <- released,
                                 Capacity <- MaxSize
PipeSpec == Pipe!Spec
=============================================================================
