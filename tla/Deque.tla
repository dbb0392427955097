------------------------------- MODULE Deque -------------------------------
(***************************************************************************)
(* What a bounded queue promises: entries come out in the order of the     *)
(* queue, into which they went at the back, or at the front if urgent.     *)
(* qbuffer.c (module QBuffer) is shown to implement it.                    *)
(***************************************************************************)
EXTENDS Naturals, Sequences

CONSTANTS Entry,     \* what may be queued
          Capacity   \* how many entries fit

VARIABLE queue

Init == queue = <<>>

PushBack(e)  == Len(queue) < Capacity /\ queue' = Append(queue, e)
PushFront(e) == Len(queue) < Capacity /\ queue' = <<e>> \o queue
Pop          == queue # <<>> /\ queue' = Tail(queue)
Clear        == queue' = <<>>

Next == (\E e \in Entry : PushBack(e) \/ PushFront(e)) \/ Pop \/ Clear

Spec == Init /\ [][Next]_queue
=============================================================================
