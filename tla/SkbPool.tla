------------------------------ MODULE SkbPool ------------------------------
(***************************************************************************)
(* The pool of packet buffers: alloc_skb and free_skb of util.c, with the  *)
(* threads of ServerLocks that call them.  readBlock takes a buffer for    *)
(* each packet of the application and freeBlock gives it back; coding_job  *)
(* queues these buffers as NORMAL packets, and new ones as CODED packets;  *)
(* send_one gives a CODED one back; q_free gives back what is queued.      *)
(*                                                                         *)
(* Buffers are numbered in the order malloc makes them.                    *)
(***************************************************************************)
EXTENDS ServerLocks, SequencesExt

VARIABLES
  pool,      \* first: the free buffers, in order; used: the buffers with used = TRUE; num
  skb,       \* per block, the buffers of its packets
  queue,     \* per block, the buffers in coded_q
  qtail,     \* per block, tail of coded_q
  row,       \* per worker, the next row to queue, 0 when it codes
  normal,    \* the buffers whose flag is NORMAL
  early,     \* buffers handed out while a queue that is being freed held them
  dropped    \* CODED buffers q_free did not reach

buffers == <<pool, skb, queue, qtail, row, normal, early, dropped>>
pvars   == <<vars, buffers>>

PInit ==
  /\ Init
  /\ pool = [first |-> <<>>, used |-> {}, num |-> 0]
  /\ skb = [b \in Blocks |-> <<>>] /\ queue = [b \in Blocks |-> <<>>]
  /\ qtail = [b \in Blocks |-> 0] /\ row = [w \in Workers |-> 0]
  /\ normal = {} /\ early = {} /\ dropped = {}
-----------------------------------------------------------------------------
(* The buffers n calls of alloc_skb return, and the pool after them.       *)
Recycled(n) == Min2(n, Len(pool.first))
alloc_skb(n) ==
  SubSeq(pool.first, 1, Recycled(n)) \o [j \in 1..n - Recycled(n) |-> pool.num + j]

Allocated(n) ==
  [first |-> SubSeq(pool.first, Recycled(n) + 1, Len(pool.first)),
   used  |-> pool.used \cup ToSet(alloc_skb(n)),
   num   |-> pool.num + (n - Recycled(n))]

(* A bug FreeListSound must notice: what is free already is freed again.   *)
free_skb_unchecked(p, s) == [p EXCEPT !.first = <<s>> \o @, !.used = @ \ {s}]
free_skb(p, s) ==
  IF s \in p.used THEN [p EXCEPT !.first = <<s>> \o @, !.used = @ \ {s}] ELSE p

(* Buffers freed one after the other: after[n] is the pool after n.        *)
FreeAll(p, seq) ==
  LET after[n \in 0..Len(seq)] == IF n = 0 THEN p ELSE free_skb(after[n - 1], seq[n])
  IN  after[Len(seq)]
-----------------------------------------------------------------------------
PSendAdd(dofs, next, return) ==
  /\ SendAdd(dofs, next, return)
  /\ pool' = Allocated(dofs)
  /\ skb' = [skb EXCEPT ![maxblockno] = @ \o alloc_skb(dofs)]
  /\ UNCHANGED <<queue, qtail, row, normal, early, dropped>>

PTakeJob(w) ==
  /\ TakeJob(w)
  /\ row' = [row EXCEPT ![w] = Head(job_q).start]
  /\ UNCHANGED <<pool, skb, queue, qtail, normal, early, dropped>>

Enqueue(b, s) == queue' = [queue EXCEPT ![b] = Append(@, s)]

(* A row of the block is queued itself.                                    *)
PushNormal(w) ==
  LET s == skb[at[w]][row[w]] IN
  /\ CodePush(w) /\ row[w] > 0
  /\ Enqueue(at[w], s) /\ normal' = normal \cup {s}
  /\ row' = [row EXCEPT ![w] = @ + 1]
  /\ UNCHANGED <<pool, skb, qtail, early, dropped>>

PushCoded(w) ==
  LET s == Head(alloc_skb(1)) IN
  /\ CodePush(w) /\ row[w] = 0
  /\ pool' = Allocated(1)
  /\ Enqueue(at[w], s) /\ normal' = normal \ {s}
  /\ early' = IF pc[Srv] = "ack_qfree" THEN early \cup ({s} \cap ToSet(queue[curr_block])) ELSE early
  /\ UNCHANGED <<skb, qtail, row, dropped>>

(* A bug BuffersAccounted must notice: send_one frees NORMAL packets too.  *)
SendOneFrees(s) == free_skb(pool, s)
SentOne(s) == IF s \in normal THEN pool ELSE free_skb(pool, s)

PSegsPop ==
  LET b == at[Srv] IN
  /\ SegsPop
  /\ pool' = SentOne(Head(queue[b]))
  /\ queue' = [queue EXCEPT ![b] = Tail(@)]
  /\ qtail' = [qtail EXCEPT ![b] = (@ + 1) % QCap]
  /\ UNCHANGED <<skb, row, normal, early, dropped>>

freeBlock ==
  /\ AckFree
  /\ pool' = FreeAll(pool, skb[curr_block])
  /\ skb' = [skb EXCEPT ![curr_block] = <<>>]
  /\ UNCHANGED <<queue, qtail, row, normal, early, dropped>>

(* q_free goes from head down to tail, which it does not reach when the    *)
(* entries wrap around the end of the ring or fill it.                     *)
Reached(b) == IF qtail[b] + Len(queue[b]) < QCap THEN Reverse(queue[b]) ELSE <<>>

q_free(again) ==
  /\ AckQFree(again)
  /\ pool' = FreeAll(pool, Reached(curr_block))
  /\ dropped' = dropped \cup (ToSet(queue[curr_block]) \ (ToSet(Reached(curr_block)) \cup normal))
  /\ queue' = [queue EXCEPT ![curr_block] = <<>>] /\ qtail' = [qtail EXCEPT ![curr_block] = 0]
  /\ UNCHANGED <<skb, row, normal, early>>

PSending   == \/ SendLock /\ UNCHANGED buffers
              \/ \E d \in 1..MaxDofs, next, return \in BOOLEAN : PSendAdd(d, next, return)
PCoding(w) == \/ (CodeCheck(w) \/ CodeLock(w) \/ CodeDone(w)) /\ UNCHANGED buffers
              \/ PTakeJob(w) \/ PushNormal(w) \/ PushCoded(w)
PAck       == \/ AckNote /\ UNCHANGED buffers
              \/ freeBlock \/ \E again \in BOOLEAN : q_free(again)
PSegs      == \/ (SegsLock \/ SegsAdd \/ SegsLoop \/ SegsRelock) /\ UNCHANGED buffers
              \/ PSegsPop
Calls      == \/ SendCtcp
              \/ \E b \in curr_block..maxblockno, n \in 1..MaxNeed : SendSegs(b, n)
              \/ \E advance \in BOOLEAN : AckLock(advance)

PNext == \/ Calls /\ UNCHANGED buffers
         \/ PSending \/ PSegs \/ PAck \/ \E w \in Workers : PCoding(w)

PSpec == PInit /\ [][PNext]_pvars

PoolFairSpec ==
  /\ PSpec
  /\ WF_pvars(PSending) /\ WF_pvars(PSegs) /\ WF_pvars(PAck)
  /\ \A w \in Workers : WF_pvars(PCoding(w))
-----------------------------------------------------------------------------
(* The list of free buffers is one: no buffer is on it twice, nor one in   *)
(* use, and none is missing, although freeBlock and q_free both give back  *)
(* what was queued but not sent.                                           *)
FreeListSound ==
  /\ Cardinality(ToSet(pool.first)) = Len(pool.first)
  /\ ToSet(pool.first) = (1..pool.num) \ pool.used

(* Where a buffer is held: as a packet of a block, or CODED in a queue.    *)
Positions(f, s) == UNION {{<<b, i>> : i \in {j \in DOMAIN f[b] : f[b][j] = s}} : b \in Blocks}
Holders(s) == ({"block"} \X Positions(skb, s))
              \cup (IF s \in normal THEN {} ELSE {"queue"} \X Positions(queue, s))

(* Every buffer in use has one holder, one that is free has none, and what *)
(* is queued is in use: as long as nobody was given a buffer between       *)
(* freeBlock and q_free (early) and q_free has not met a ring that wraps   *)
(* around (dropped).                                                       *)
BuffersAccounted ==
  early = {} /\ dropped = {} =>
    /\ \A s \in 1..pool.num : Cardinality(Holders(s)) = IF s \in pool.used THEN 1 ELSE 0
    /\ \A b \in Blocks : ~(pc[Srv] = "ack_qfree" /\ b = curr_block) =>
                         ToSet(queue[b]) \subseteq pool.used

(* No buffer has two holders.                                              *)
OneHolder == \A s \in 1..pool.num : Cardinality(Holders(s)) <= 1

(* Every buffer in use has a holder.                                       *)
NoneLost == \A s \in pool.used : Holders(s) # {}
=============================================================================
