---------------------------- MODULE ServerLocks ----------------------------
(***************************************************************************)
(* The server's threads and what they can wait for: curr_block_mutex, a    *)
(* block_mutex per block, room in the coding pool's job queue, room and    *)
(* packets in a block's coded_q.  Only what decides who waits for whom is  *)
(* kept: which lock is held across which blocking call.  An unlock never   *)
(* waits and is part of the step before it.                                *)
(*                                                                         *)
(* App is the application thread in send_ctcp(); Srv is server_worker() in *)
(* send_segs() and handle_ack(); Workers run coding_job().                 *)
(***************************************************************************)
EXTENDS Integers, Sequences, FiniteSets

CONSTANTS App, Srv, Workers,
          None,       \* nobody
          JobCap,     \* room in job_q (2*THREADS)
          QCap,       \* room in a coded_q (2*BLOCK_SIZE)
          LastBlock,  \* bound: blocks the application fills
          MaxDofs,    \* bound: packets of a block one send_ctcp call adds
          MaxNeed,    \* bound: packets of a block one send_segs wants to send
          MaxJobs     \* bound: coding jobs ever added

ASSUME ThreadAssumption ==
  /\ App # Srv /\ {App, Srv} \cap Workers = {} /\ None \notin Workers \cup {App, Srv}
  /\ IsFiniteSet(Workers) /\ Workers # {}     \* THREADS of them
ASSUME BoundAssumption  ==
  /\ {JobCap, QCap, LastBlock, MaxDofs, MaxNeed} \subseteq Nat \ {0} /\ MaxJobs \in Nat

VARIABLES
  curr_block_mutex, block_mutex,     \* holders
  curr_block, maxblockno,
  job_q,        \* jobs [blockno, start, dofs]; start is 0 for coded packets, else the first row
  coded_q,      \* per block, how many packets are ready
  dof_remain,   \* per block
  len,          \* per block, packets of the application in it
  sent,         \* per block, packets sent, up to len
  pc,           \* per thread, what it does next; "idle" outside the calls modelled
  at,           \* per thread, the block it works on
  left,         \* per thread, packets it has still to push or to send
  added         \* jobs added so far

vars == <<curr_block_mutex, block_mutex, curr_block, maxblockno, job_q, coded_q,
          dof_remain, len, sent, pc, at, left, added>>

locks  == <<curr_block_mutex, block_mutex>>
blocks == <<curr_block, maxblockno>>
queues == <<job_q, coded_q, dof_remain, len, sent, added>>
thread == <<pc, at, left>>

Threads == {App, Srv} \cup Workers
Blocks  == 1..LastBlock
Min2(a, b) == IF a < b THEN a ELSE b

Init ==
  /\ curr_block_mutex = None /\ block_mutex = [b \in Blocks |-> None]
  /\ curr_block = 1 /\ maxblockno = 1
  /\ job_q = <<>> /\ added = 0
  /\ coded_q = [b \in Blocks |-> 0] /\ dof_remain = [b \in Blocks |-> 0]
  /\ len = [b \in Blocks |-> 0] /\ sent = [b \in Blocks |-> 0]
  /\ pc = [t \in Threads |-> "idle"] /\ at = [t \in Threads |-> 1] /\ left = [t \in Threads |-> 0]

Go(t, to) == pc' = [pc EXCEPT ![t] = to]
LockBlock(t)   == block_mutex[at[t]] = None /\ block_mutex' = [block_mutex EXCEPT ![at[t]] = t]
UnlockBlock(t) == block_mutex' = [block_mutex EXCEPT ![at[t]] = None]
-----------------------------------------------------------------------------
(* send_ctcp: curr_block_mutex from beginning to end; per block, its mutex *)
(* around addJob.                                                          *)
SendCtcp ==
  /\ pc[App] = "idle" /\ added < MaxJobs
  /\ curr_block_mutex = None /\ curr_block_mutex' = App
  /\ Go(App, "send_lock")
  /\ UNCHANGED <<block_mutex, blocks, queues, at, left>>

SendLock ==
  /\ pc[App] = "send_lock"
  /\ at' = [at EXCEPT ![App] = maxblockno]
  /\ block_mutex[maxblockno] = None
  /\ block_mutex' = [block_mutex EXCEPT ![maxblockno] = App]
  /\ Go(App, "send_add")
  /\ UNCHANGED <<curr_block_mutex, blocks, queues, left>>

(* After a job either the call's data is used up, or the block is, and the *)
(* next block follows in this call or in the next.                         *)
SendAdd(dofs, next, return) ==
  /\ pc[App] = "send_add" /\ Len(job_q) < JobCap
  /\ job_q' = Append(job_q, [blockno |-> maxblockno, start |-> len[maxblockno] + 1, dofs |-> dofs])
  /\ added' = added + 1
  /\ dof_remain' = [dof_remain EXCEPT ![maxblockno] = @ + dofs]
  /\ len' = [len EXCEPT ![maxblockno] = @ + dofs]
  /\ UnlockBlock(App)
  /\ next => maxblockno < LastBlock
  /\ maxblockno' = IF next THEN maxblockno + 1 ELSE maxblockno
  /\ return \/ (next /\ added' < MaxJobs)
  /\ curr_block_mutex' = IF return THEN None ELSE App
  /\ Go(App, IF return THEN "idle" ELSE "send_lock")
  /\ UNCHANGED <<curr_block, coded_q, sent, at, left>>
-----------------------------------------------------------------------------
(* coding_job: a look at curr_block under its mutex, then the block's      *)
(* mutex from the first packet to the last.                                *)
TakeJob(w) ==
  /\ pc[w] = "idle" /\ job_q # <<>>
  /\ job_q' = Tail(job_q)
  /\ at' = [at EXCEPT ![w] = Head(job_q).blockno]
  /\ left' = [left EXCEPT ![w] = Head(job_q).dofs]
  /\ Go(w, "code_check")
  /\ UNCHANGED <<locks, blocks, coded_q, dof_remain, len, sent, added>>

CodeCheck(w) ==
  /\ pc[w] = "code_check" /\ curr_block_mutex = None
  /\ Go(w, IF at[w] < curr_block THEN "idle" ELSE "code_lock")
  /\ UNCHANGED <<locks, blocks, queues, at, left>>

(* The block may have been freed since: then it is empty, and the worker   *)
(* gives its mutex back.                                                   *)
CodeLock(w) ==
  /\ pc[w] = "code_lock"
  /\ \/ len[at[w]] > 0 /\ LockBlock(w) /\ Go(w, "code_push")
     \/ len[at[w]] = 0 /\ block_mutex[at[w]] = None /\ Go(w, "idle") /\ UNCHANGED block_mutex
  /\ UNCHANGED <<curr_block_mutex, blocks, queues, at, left>>

CodePush(w) ==
  /\ pc[w] = "code_push" /\ left[w] > 0 /\ coded_q[at[w]] < QCap
  /\ coded_q' = [coded_q EXCEPT ![at[w]] = @ + 1]
  /\ left' = [left EXCEPT ![w] = @ - 1]
  /\ UNCHANGED <<locks, blocks, job_q, dof_remain, len, sent, added, pc, at>>

(* A bug SendReturns must notice: the worker leaves with the mutex held.   *)
CodeDoneHeld(w) ==
  /\ pc[w] = "code_push" /\ left[w] = 0
  /\ Go(w, "idle")
  /\ UNCHANGED <<locks, blocks, queues, at, left>>

CodeDone(w) ==
  /\ pc[w] = "code_push" /\ left[w] = 0
  /\ UnlockBlock(w)
  /\ Go(w, "idle")
  /\ UNCHANGED <<curr_block_mutex, blocks, queues, at, left>>
-----------------------------------------------------------------------------
(* send_segs on a block of which it wants to send n packets.               *)
SendSegs(b, n) ==
  /\ pc[Srv] = "idle" /\ curr_block_mutex = None /\ added < MaxJobs
  /\ len[b] > 0
  /\ at' = [at EXCEPT ![Srv] = b] /\ left' = [left EXCEPT ![Srv] = n]
  /\ Go(Srv, "segs_lock")
  /\ UNCHANGED <<locks, blocks, queues>>

SegsLock ==
  /\ pc[Srv] = "segs_lock" /\ LockBlock(Srv)
  /\ Go(Srv, IF dof_remain[at[Srv]] < left[Srv] THEN "segs_add" ELSE "segs_loop")
  /\ UNCHANGED <<curr_block_mutex, blocks, queues, at, left>>

SegsAdd ==
  LET b   == at[Srv]
      job == [blockno |-> b, start |-> 0, dofs |-> left[Srv] - dof_remain[b]] IN
  /\ pc[Srv] = "segs_add" /\ Len(job_q) < JobCap
  /\ job_q' = IF b = curr_block THEN <<job>> \o job_q ELSE Append(job_q, job)
  /\ added' = added + 1
  /\ dof_remain' = [dof_remain EXCEPT ![b] = left[Srv]]
  /\ Go(Srv, "segs_loop")
  /\ UNCHANGED <<locks, blocks, coded_q, len, sent, at, left>>

(* A bug DeadlockFree must notice: block_mutex held across send_one.       *)
SegsLoopLocked ==
  /\ pc[Srv] = "segs_loop"
  /\ Go(Srv, IF left[Srv] >= 1 /\ dof_remain[at[Srv]] > 0 THEN "segs_pop" ELSE "idle")
  /\ IF left[Srv] >= 1 /\ dof_remain[at[Srv]] > 0 THEN UNCHANGED block_mutex ELSE UnlockBlock(Srv)
  /\ UNCHANGED <<curr_block_mutex, blocks, queues, at, left>>

(* The head of the inner loop lets the mutex go, for send_one or for good. *)
SegsLoop ==
  /\ pc[Srv] = "segs_loop"
  /\ UnlockBlock(Srv)
  /\ Go(Srv, IF left[Srv] >= 1 /\ dof_remain[at[Srv]] > 0 THEN "segs_pop" ELSE "idle")
  /\ UNCHANGED <<curr_block_mutex, blocks, queues, at, left>>

SegsPop ==
  LET b == at[Srv] IN
  /\ pc[Srv] = "segs_pop" /\ coded_q[b] > 0
  /\ coded_q' = [coded_q EXCEPT ![b] = @ - 1]
  /\ sent' = [sent EXCEPT ![b] = Min2(@ + 1, len[b])]
  /\ left' = [left EXCEPT ![Srv] = @ - 1]
  /\ Go(Srv, "segs_relock")
  /\ UNCHANGED <<locks, blocks, job_q, dof_remain, len, added, at>>

SegsRelock ==
  /\ pc[Srv] = "segs_relock" /\ LockBlock(Srv)
  /\ dof_remain' = [dof_remain EXCEPT ![at[Srv]] = @ - 1]
  /\ Go(Srv, "segs_loop")
  /\ UNCHANGED <<curr_block_mutex, blocks, job_q, coded_q, len, sent, added, at, left>>

(* handle_ack takes curr_block_mutex; an ack may move on over blocks of    *)
(* which everything was sent, each freed under its own mutex; then the     *)
(* dofs of the block reached are noted, again under its mutex.             *)
Acked(b) == b < maxblockno /\ sent[b] = len[b]

AckLock(advance) ==
  /\ pc[Srv] = "idle" /\ len[curr_block] > 0
  /\ advance => Acked(curr_block)
  /\ curr_block_mutex = None /\ curr_block_mutex' = Srv
  /\ at' = [at EXCEPT ![Srv] = curr_block]
  /\ Go(Srv, IF advance THEN "ack_free" ELSE "ack_note")
  /\ UNCHANGED <<block_mutex, blocks, queues, left>>

(* freeBlock, and then q_free, with both mutexes held.                     *)
AckFree ==
  /\ pc[Srv] = "ack_free" /\ LockBlock(Srv)
  /\ len' = [len EXCEPT ![curr_block] = 0]
  /\ Go(Srv, "ack_qfree")
  /\ UNCHANGED <<curr_block_mutex, blocks, job_q, coded_q, dof_remain, sent, added, at, left>>

AckQFree(again) ==
  /\ pc[Srv] = "ack_qfree"
  /\ coded_q' = [coded_q EXCEPT ![curr_block] = 0]
  /\ dof_remain' = [dof_remain EXCEPT ![curr_block] = 0]
  /\ UnlockBlock(Srv)
  /\ curr_block' = curr_block + 1
  /\ at' = [at EXCEPT ![Srv] = curr_block']
  /\ again => Acked(curr_block')
  /\ Go(Srv, IF again THEN "ack_free" ELSE "ack_note")
  /\ UNCHANGED <<curr_block_mutex, maxblockno, job_q, len, sent, added, left>>

AckNote ==
  /\ pc[Srv] = "ack_note" /\ block_mutex[curr_block] = None
  /\ curr_block_mutex' = None
  /\ Go(Srv, "idle")
  /\ UNCHANGED <<block_mutex, blocks, queues, at, left>>

Sending    == SendLock \/ \E d \in 1..MaxDofs, next, return \in BOOLEAN : SendAdd(d, next, return)
Coding(w)  == TakeJob(w) \/ CodeCheck(w) \/ CodeLock(w) \/ CodePush(w) \/ CodeDone(w)
Ack        == AckFree \/ (\E again \in BOOLEAN : AckQFree(again)) \/ AckNote
Segs       == SegsLock \/ SegsAdd \/ SegsLoop \/ SegsPop \/ SegsRelock

Next ==
  \/ SendCtcp \/ Sending
  \/ \E w \in Workers : Coding(w)
  \/ \E b \in curr_block..maxblockno, n \in 1..MaxNeed : SendSegs(b, n)
  \/ Segs
  \/ (\E advance \in BOOLEAN : AckLock(advance)) \/ Ack

Spec == Init /\ [][Next]_vars

FairSpec ==
  /\ Spec
  /\ WF_vars(Sending) /\ WF_vars(Segs) /\ WF_vars(Ack)
  /\ \A w \in Workers : WF_vars(Coding(w))
-----------------------------------------------------------------------------
(* What a thread waits for is there.                                       *)
CanStep(t) ==
  LET here == block_mutex[at[t]] = None IN
  CASE pc[t] = "idle"       -> t \in Workers /\ job_q # <<>>
    [] pc[t] = "send_lock"  -> block_mutex[maxblockno] = None
    [] pc[t] \in {"send_add", "segs_add"} -> Len(job_q) < JobCap
    [] pc[t] = "code_check" -> curr_block_mutex = None
    [] pc[t] \in {"code_lock", "segs_lock", "segs_relock", "ack_free", "ack_note"} -> here
    [] pc[t] = "code_push"  -> left[t] = 0 \/ coded_q[at[t]] < QCap
    [] pc[t] = "segs_pop"   -> coded_q[at[t]] > 0
    [] pc[t] \in {"segs_loop", "ack_qfree"} -> TRUE

(* The threads never all wait for each other: while one is inside a call,  *)
(* one can go on.  (srvctcp.c's rule on the order of the two mutexes is    *)
(* there "to avoid deadlocks".)                                            *)
DeadlockFree == (\E t \in Threads : pc[t] # "idle") => \E t \in Threads : CanStep(t)

(* send_ctcp gives the application its thread back.                        *)
SendReturns == pc[App] # "idle" ~> pc[App] = "idle"
=============================================================================
