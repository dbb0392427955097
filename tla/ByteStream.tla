----------------------------- MODULE ByteStream -----------------------------
(***************************************************************************)
(* What a bounded byte pipe promises its two ends, with no buffer in it:   *)
(* what has gone in, what has come out, and whether it has been released.  *)
(* fifo.c (module Fifo) is shown to implement it.                          *)
(***************************************************************************)
EXTENDS Naturals, Sequences

CONSTANTS Byte,      \* the byte values
          Capacity   \* how many bytes may be inside

VARIABLES in,        \* every byte accepted so far, in order
          out,       \* every byte handed out so far, in order
          closed     \* has the pipe been released

vars == <<in, out, closed>>

Init == in = <<>> /\ out = <<>> /\ closed = FALSE

(* Some bytes enter at the back; never more than fit.                      *)
Put == /\ in' \in Seq(Byte)
       /\ Len(in') >= Len(in)
       /\ SubSeq(in', 1, Len(in)) = in
       /\ Len(in') - Len(out) <= Capacity
       /\ UNCHANGED <<out, closed>>

(* The oldest bytes leave at the front.                                    *)
Get == /\ \E k \in 0..(Len(in) - Len(out)) : out' = SubSeq(in, 1, Len(out) + k)
       /\ UNCHANGED <<in, closed>>

Close == closed' = TRUE /\ UNCHANGED <<in, out>>

(* The pipe is thrown away and a new one takes its place.                  *)
Reset == in' = <<>> /\ out' = <<>> /\ closed' = FALSE

Next == Put \/ Get \/ Close \/ Reset

Spec == Init /\ [][Next]_vars
=============================================================================
