--------------------------- MODULE SkbPoolProofs ---------------------------
(***************************************************************************)
(* The server's threads, for every number of them and every size of the    *)
(* queues: they never wait for each other unless one waits for room in a   *)
(* queue, and the buffers the blocks and the queues hold are the ones the  *)
(* pool has handed out, each once.                                         *)
(***************************************************************************)
EXTENDS SkbPool, FiniteSetTheorems, SequenceTheorems, WellFoundedInduction, TLAPS

Busy == {"code_check", "code_lock", "code_push"}
InAck == {"ack_free", "ack_qfree", "ack_note"}
InSegs == {"segs_lock", "segs_add", "segs_loop", "segs_pop", "segs_relock"}

(* The most packets one coding job makes.                                  *)
Most == MaxDofs + MaxNeed
Job  == [blockno : Blocks, start : Nat, dofs : 1..Most]

MutexTypes ==
  /\ curr_block_mutex \in {None, App, Srv}
  /\ block_mutex \in [Blocks -> Threads \cup {None}]
BlockTypes == curr_block \in Blocks /\ maxblockno \in Blocks /\ curr_block <= maxblockno
QueueTypes ==
  /\ job_q \in Seq(Job) /\ added \in Nat
  /\ coded_q \in [Blocks -> Nat] /\ dof_remain \in [Blocks -> Nat]
  /\ len \in [Blocks -> Nat] /\ sent \in [Blocks -> Nat]
ThreadTypes == pc = [t \in Threads |-> pc[t]] /\ at \in [Threads -> Blocks] /\ left \in [Threads -> 0..Most]
Stages ==
  /\ pc[App] \in {"idle", "send_lock", "send_add"}
  /\ pc[Srv] \in {"idle"} \cup InSegs \cup InAck
  /\ \A w \in Workers : pc[w] \in {"idle"} \cup Busy
TypeInv == MutexTypes /\ BlockTypes /\ QueueTypes /\ ThreadTypes /\ Stages

(* Who holds a mutex is where the code holds it, and the other way round.  *)
Holding == {"send_add", "code_push", "segs_add", "segs_loop", "ack_qfree"}
HolderInv ==
  \A b \in Blocks, t \in Threads : block_mutex[b] = t <=> pc[t] \in Holding /\ at[t] = b
LockInv ==
  /\ curr_block_mutex = App <=> pc[App] # "idle"
  /\ curr_block_mutex = Srv <=> pc[Srv] \in InAck
  /\ pc[App] = "send_add" => at[App] = maxblockno
  /\ HolderInv

(* Where the server worker is in its call, and on which block.             *)
SrvInv ==
  /\ pc[Srv] \in InAck => at[Srv] = curr_block
  /\ pc[Srv] \in {"ack_free", "ack_qfree"} => curr_block < maxblockno
  /\ pc[Srv] \in InSegs => at[Srv] >= curr_block /\ at[Srv] <= maxblockno /\ left[Srv] <= MaxNeed
  /\ pc[Srv] \in {"segs_pop", "segs_relock"} => dof_remain[at[Srv]] >= 1
  /\ pc[Srv] = "segs_pop" => left[Srv] >= 1
  /\ pc[Srv] = "segs_add" => dof_remain[at[Srv]] < left[Srv]

(* A block that is not being freed, nor was: the jobs for it find it full. *)
Alive(b) == b >= curr_block /\ ~(pc[Srv] = "ack_qfree" /\ b = curr_block)
Queued == {job_q[i] : i \in 1..Len(job_q)}
LenInv ==
  /\ \A b \in Blocks : ~Alive(b) => len[b] = 0
  /\ \A j \in Queued : Alive(j.blockno) => len[j.blockno] > 0
  /\ \A w \in Workers : pc[w] \in Busy /\ Alive(at[w]) => len[at[w]] > 0
  /\ pc[Srv] \in InSegs => len[at[Srv]] > 0

(* The packets that coding jobs have still to make for a block, one pair   *)
(* each: of the jobs queued, and of those a worker has taken.              *)
JobTokens(s, b) ==
  {x \in (1..Len(s)) \X (1..Most) : s[x[1]].blockno = b /\ x[2] <= s[x[1]].dofs}
WorkTokens(p, a, l, b) ==
  {x \in Workers \X (1..Most) : p[x[1]] \in Busy /\ a[x[1]] = b /\ x[2] <= l[x[1]]}
BeingCoded(b) == Cardinality(WorkTokens(pc, at, left, b))
Pending(b) == Cardinality(JobTokens(job_q, b)) + BeingCoded(b)

(* What dof_remain promises is in coded_q, or a job will put it there, or  *)
(* send_segs has just taken it out.                                        *)
InHand(b) == IF pc[Srv] = "segs_relock" /\ at[Srv] = b THEN 1 ELSE 0
DofInv == \A b \in Blocks : b >= curr_block => dof_remain[b] <= coded_q[b] + Pending(b) + InHand(b)

LocksInv == TypeInv /\ LockInv /\ SrvInv /\ LenInv /\ DofInv

(* A thread waits for room in a queue.                                     *)
WaitsForRoom(t) ==
  \/ pc[t] \in {"send_add", "segs_add"} /\ Len(job_q) >= JobCap
  \/ pc[t] = "code_push" /\ left[t] > 0 /\ coded_q[at[t]] >= QCap

(***************************************************************************)
(* The threads and the mutexes.                                            *)
(***************************************************************************)
LEMMA ThreadFacts ==
  /\ App \in Threads /\ Srv \in Threads /\ App # Srv
  /\ App \notin Workers /\ Srv \notin Workers /\ None \notin Threads
  /\ \A w \in Workers : w \in Threads /\ w # App /\ w # Srv /\ w # None
BY ThreadAssumption DEF Threads

LEMMA Numbers ==
  /\ MaxDofs \in Nat \ {0} /\ MaxNeed \in Nat \ {0} /\ MaxJobs \in Nat
  /\ Most \in Nat /\ Most = MaxDofs + MaxNeed
  /\ QCap \in Nat \ {0} /\ JobCap \in Nat \ {0} /\ LastBlock \in Nat \ {0}
BY BoundAssumption DEF Most

LEMMA BlockFacts == (\A b \in Blocks : b \in Nat /\ b >= 1 /\ b <= LastBlock) /\ 1 \in Blocks
BY Numbers DEF Blocks

(* What a thread reads of the block it works on.                           *)
LEMMA Reads ==
  ASSUME LocksInv, NEW t \in Threads
  PROVE  /\ at[t] \in Blocks /\ left[t] \in 0..Most /\ left[t] \in Nat
         /\ coded_q[at[t]] \in Nat /\ dof_remain[at[t]] \in Nat /\ len[at[t]] \in Nat /\ sent[at[t]] \in Nat
<1>1. at[t] \in Blocks /\ left[t] \in 0..Most
  BY DEF LocksInv, TypeInv, ThreadTypes
<1>2. QED BY <1>1, Numbers DEF LocksInv, TypeInv, QueueTypes

(* In the beginning nothing is held, queued or promised.                   *)
LEMMA LocksInit == Init => LocksInv
<1> SUFFICES ASSUME Init PROVE LocksInv
  OBVIOUS
<1>1. TypeInv
  <2>1. MutexTypes /\ BlockTypes /\ Stages
    BY ThreadFacts, BlockFacts DEF Init, MutexTypes, BlockTypes, Stages
  <2>2. QueueTypes /\ ThreadTypes
    BY Numbers, BlockFacts DEF Init, QueueTypes, ThreadTypes
  <2>3. QED BY <2>1, <2>2 DEF TypeInv
<1>2. LockInv /\ SrvInv /\ LenInv
  BY ThreadFacts, BlockFacts DEF Init, LockInv, SrvInv, LenInv, InAck, InSegs, Busy, Alive, HolderInv, Holding, Queued
<1>3. DofInv
  <2>1. \A b \in Blocks : JobTokens(job_q, b) = {} /\ WorkTokens(pc, at, left, b) = {}
    BY ThreadFacts DEF Init, JobTokens, WorkTokens, Busy
  <2>2. \A b \in Blocks : Pending(b) = 0
    BY <2>1, FS_EmptySet DEF Pending, BeingCoded
  <2>3. QED BY <2>2, BlockFacts DEF DofInv, Init, InHand
<1>4. QED BY <1>1, <1>2, <1>3 DEF LocksInv

(* Every step keeps the types.                                             *)
LEMMA MutexTypesStep == LocksInv /\ [Next]_vars => MutexTypes'
<1> SUFFICES ASSUME MutexTypes, ThreadTypes, [Next]_vars PROVE MutexTypes'
  BY DEF LocksInv, TypeInv
<1>1. UNCHANGED locks => MutexTypes'
  BY DEF MutexTypes, locks
<1>2. \A t \in Threads : LockBlock(t) \/ UnlockBlock(t) =>
         block_mutex' \in [Blocks -> Threads \cup {None}]
  BY DEF MutexTypes, LockBlock, UnlockBlock
<1>3. CASE SendCtcp \/ SendLock
  BY <1>3, ThreadFacts DEF SendCtcp, SendLock, MutexTypes
<1>4. ASSUME NEW d \in 1..MaxDofs, NEW n \in BOOLEAN, NEW r \in BOOLEAN, SendAdd(d, n, r) PROVE MutexTypes'
  BY <1>2, <1>4, ThreadFacts DEF SendAdd, MutexTypes
<1>5. ASSUME NEW w \in Workers, Coding(w) PROVE MutexTypes'
  <2>1. CASE TakeJob(w) \/ CodeCheck(w) \/ CodePush(w)
    BY <1>1, <2>1 DEF TakeJob, CodeCheck, CodePush
  <2>2. CASE CodeLock(w) \/ CodeDone(w)
    BY <1>2, <2>2, ThreadFacts DEF CodeLock, CodeDone, MutexTypes
  <2>3. QED BY <1>5, <2>1, <2>2 DEF Coding
<1>6. ASSUME NEW b \in curr_block..maxblockno, NEW n \in 1..MaxNeed, SendSegs(b, n) PROVE MutexTypes'
  BY <1>1, <1>6 DEF SendSegs
<1>7. CASE Segs
  <2>1. CASE SegsAdd \/ SegsPop
    BY <1>1, <2>1 DEF SegsAdd, SegsPop
  <2>2. CASE SegsLock \/ SegsLoop \/ SegsRelock
    BY <1>2, <2>2, ThreadFacts DEF SegsLock, SegsLoop, SegsRelock, MutexTypes
  <2>3. QED BY <1>7, <2>1, <2>2 DEF Segs
<1>8. ASSUME NEW a \in BOOLEAN, AckLock(a) PROVE MutexTypes'
  BY <1>8 DEF AckLock, MutexTypes
<1>9. CASE Ack
  BY <1>2, <1>9, ThreadFacts DEF Ack, AckFree, AckQFree, AckNote, MutexTypes
<1>10. CASE UNCHANGED vars
  BY <1>1, <1>10 DEF vars, locks
<1>11. QED BY <1>3, <1>4, <1>5, <1>6, <1>7, <1>8, <1>9, <1>10 DEF Next, Sending

LEMMA BlockTypesStep == LocksInv /\ [Next]_vars => BlockTypes'
<1> SUFFICES ASSUME BlockTypes, SrvInv, [Next]_vars PROVE BlockTypes'
  BY DEF LocksInv, TypeInv
<1>1. UNCHANGED blocks => BlockTypes'
  BY DEF BlockTypes, blocks
<1>2. CASE SendCtcp \/ SendLock
  BY <1>1, <1>2 DEF SendCtcp, SendLock
<1>3. ASSUME NEW d \in 1..MaxDofs, NEW n \in BOOLEAN, NEW r \in BOOLEAN, SendAdd(d, n, r) PROVE BlockTypes'
  BY <1>3, Numbers DEF SendAdd, BlockTypes, Blocks
<1>4. ASSUME NEW w \in Workers, Coding(w) PROVE BlockTypes'
  BY <1>1, <1>4 DEF Coding, TakeJob, CodeCheck, CodeLock, CodePush, CodeDone
<1>5. ASSUME NEW b \in curr_block..maxblockno, NEW n \in 1..MaxNeed, SendSegs(b, n) PROVE BlockTypes'
  BY <1>1, <1>5 DEF SendSegs
<1>6. CASE Segs
  BY <1>1, <1>6 DEF Segs, SegsLock, SegsAdd, SegsLoop, SegsPop, SegsRelock
<1>7. ASSUME NEW a \in BOOLEAN, AckLock(a) PROVE BlockTypes'
  BY <1>1, <1>7 DEF AckLock
<1>8. CASE Ack
  <2>1. CASE AckFree \/ AckNote
    BY <1>1, <2>1 DEF AckFree, AckNote
  <2>2. ASSUME NEW a \in BOOLEAN, AckQFree(a) PROVE BlockTypes'
    BY <2>2, Numbers DEF AckQFree, SrvInv, BlockTypes, Blocks, InAck
  <2>3. QED BY <1>8, <2>1, <2>2 DEF Ack
<1>9. CASE UNCHANGED vars
  BY <1>1, <1>9 DEF vars, blocks
<1>10. QED BY <1>2, <1>3, <1>4, <1>5, <1>6, <1>7, <1>8, <1>9 DEF Next, Sending

(* The job send_ctcp adds, the one send_segs adds, and the one a worker    *)
(* takes.                                                                  *)
LEMMA Jobs ==
  ASSUME LocksInv
  PROVE  /\ \A d \in 1..MaxDofs :
              [blockno |-> maxblockno, start |-> len[maxblockno] + 1, dofs |-> d] \in Job
         /\ pc[Srv] = "segs_add" =>
              [blockno |-> at[Srv], start |-> 0, dofs |-> left[Srv] - dof_remain[at[Srv]]] \in Job
         /\ job_q # <<>> => Head(job_q) \in Job /\ Tail(job_q) \in Seq(Job)
<1>1. \A d \in 1..MaxDofs : maxblockno \in Blocks /\ len[maxblockno] + 1 \in Nat /\ d \in 1..Most
  BY Numbers DEF LocksInv, TypeInv, BlockTypes, QueueTypes
<1>2. ASSUME pc[Srv] = "segs_add"
      PROVE  at[Srv] \in Blocks /\ left[Srv] - dof_remain[at[Srv]] \in 1..Most
  <2>1. at[Srv] \in Blocks /\ left[Srv] \in 0..Most
    BY Reads, ThreadFacts
  <2>2. dof_remain[at[Srv]] \in Nat /\ dof_remain[at[Srv]] < left[Srv]
    BY <1>2, <2>1 DEF LocksInv, TypeInv, QueueTypes, SrvInv
  <2>3. QED BY <2>1, <2>2, Numbers
<1>3. job_q # <<>> => Head(job_q) \in Job /\ Tail(job_q) \in Seq(Job)
  BY DEF LocksInv, TypeInv, QueueTypes
<1>4. QED BY <1>1, <1>2, <1>3 DEF Job

LEMMA QueueTypesStep == LocksInv /\ [Next]_vars => QueueTypes'
<1> SUFFICES ASSUME LocksInv, [Next]_vars PROVE QueueTypes'
  OBVIOUS
<1>0. QueueTypes /\ BlockTypes /\ ThreadTypes
  BY DEF LocksInv, TypeInv
<1>1. UNCHANGED queues => QueueTypes'
  BY <1>0 DEF QueueTypes, queues
<1>2. CASE SendCtcp \/ SendLock
  BY <1>1, <1>2 DEF SendCtcp, SendLock
<1>3. ASSUME NEW d \in 1..MaxDofs, NEW n \in BOOLEAN, NEW r \in BOOLEAN, SendAdd(d, n, r) PROVE QueueTypes'
  <2>1. job_q' \in Seq(Job)
    BY <1>0, <1>3, Jobs DEF SendAdd, QueueTypes
  <2>2. len[maxblockno] + d \in Nat /\ dof_remain[maxblockno] + d \in Nat /\ added + 1 \in Nat
    BY <1>0, Numbers, SMTT(30) DEF QueueTypes, BlockTypes
  <2>3. QED BY <1>0, <1>3, <2>1, <2>2 DEF SendAdd, QueueTypes
<1>4. ASSUME NEW w \in Workers, Coding(w) PROVE QueueTypes'
  <2>1. CASE TakeJob(w)
    BY <1>0, <2>1, Jobs DEF TakeJob, QueueTypes
  <2>2. CASE CodeCheck(w) \/ CodeLock(w) \/ CodeDone(w)
    BY <1>1, <2>2 DEF CodeCheck, CodeLock, CodeDone
  <2>3. CASE CodePush(w)
    BY <1>0, <2>3, Reads, ThreadFacts DEF CodePush, QueueTypes
  <2>4. QED BY <1>4, <2>1, <2>2, <2>3 DEF Coding
<1>5. ASSUME NEW b \in curr_block..maxblockno, NEW n \in 1..MaxNeed, SendSegs(b, n) PROVE QueueTypes'
  BY <1>1, <1>5 DEF SendSegs
<1>6. CASE SegsLock \/ SegsLoop
  BY <1>1, <1>6 DEF SegsLock, SegsLoop
<1>7. CASE SegsAdd
  <2>1. [blockno |-> at[Srv], start |-> 0, dofs |-> left[Srv] - dof_remain[at[Srv]]] \in Job
    BY <1>7, Jobs DEF SegsAdd
  <2>2. job_q' \in Seq(Job)
    BY <1>0, <1>7, <2>1 DEF SegsAdd, QueueTypes
  <2>3. left[Srv] \in Nat
    BY Reads, ThreadFacts
  <2>4. /\ dof_remain' = [dof_remain EXCEPT ![at[Srv]] = left[Srv]]
        /\ added' = added + 1 /\ UNCHANGED <<coded_q, len, sent>>
    BY <1>7 DEF SegsAdd
  <2>a. dof_remain \in [Blocks -> Nat] /\ added \in Nat /\ at[Srv] \in Blocks
    BY <1>0, Reads, ThreadFacts DEF QueueTypes
  <2>5. dof_remain' \in [Blocks -> Nat] /\ added' \in Nat
    BY <2>3, <2>4, <2>a
  <2>6. QED BY <1>0, <2>2, <2>4, <2>5 DEF QueueTypes
<1>8. CASE SegsPop
  <2>1. coded_q[at[Srv]] - 1 \in Nat /\ Min2(sent[at[Srv]] + 1, len[at[Srv]]) \in Nat
    BY <1>8, Reads, ThreadFacts DEF SegsPop, Min2
  <2>2. QED BY <1>0, <1>8, <2>1 DEF SegsPop, QueueTypes
<1>9. CASE SegsRelock
  <2>1. dof_remain[at[Srv]] - 1 \in Nat
    BY <1>9, Reads, ThreadFacts DEF SegsRelock, LocksInv, SrvInv
  <2>2. QED BY <1>0, <1>9, <2>1 DEF SegsRelock, QueueTypes
<1>10. ASSUME NEW a \in BOOLEAN, AckLock(a) PROVE QueueTypes'
  BY <1>1, <1>10 DEF AckLock
<1>11. CASE Ack
  BY <1>0, <1>11, SMTT(30) DEF Ack, AckFree, AckQFree, AckNote, queues, QueueTypes
<1>12. CASE UNCHANGED vars
  BY <1>1, <1>12 DEF vars, queues
<1>13. QED BY <1>2, <1>3, <1>4, <1>5, <1>6, <1>7, <1>8, <1>9, <1>10, <1>11, <1>12 DEF Next, Sending, Segs

LEMMA ThreadTypesStep == LocksInv /\ [Next]_vars => ThreadTypes'
<1> SUFFICES ASSUME LocksInv, [Next]_vars PROVE ThreadTypes'
  OBVIOUS
<1>0. BlockTypes /\ ThreadTypes /\ BlockTypes'
  BY BlockTypesStep DEF LocksInv, TypeInv
<1>1. \A t, to : Go(t, to) => pc' = [u \in Threads |-> pc'[u]]
  BY <1>0 DEF ThreadTypes, Go
<1>2. CASE SendCtcp \/ SendLock
  BY <1>0, <1>1, <1>2 DEF SendCtcp, SendLock, ThreadTypes, BlockTypes
<1>3. ASSUME NEW d \in 1..MaxDofs, NEW n \in BOOLEAN, NEW r \in BOOLEAN, SendAdd(d, n, r) PROVE ThreadTypes'
  BY <1>0, <1>1, <1>3, ThreadFacts DEF SendAdd, ThreadTypes
<1>4. ASSUME NEW w \in Workers, Coding(w) PROVE ThreadTypes'
  <2>1. CASE TakeJob(w)
    <3>1. Head(job_q) \in Job
      BY <2>1, Jobs DEF TakeJob
    <3>2. Head(job_q).blockno \in Blocks /\ Head(job_q).dofs \in 0..Most
      BY <3>1, Numbers DEF Job
    <3>3. QED BY <1>0, <1>1, <2>1, <3>2, ThreadFacts DEF TakeJob, ThreadTypes
  <2>2. CASE CodeCheck(w) \/ CodeLock(w) \/ CodeDone(w)
    BY <1>0, <1>1, <2>2, ThreadFacts DEF CodeCheck, CodeLock, CodeDone, ThreadTypes
  <2>3. CASE CodePush(w)
    <3>1. left[w] - 1 \in 0..Most
      BY <2>3, Reads, ThreadFacts, Numbers DEF CodePush
    <3>2. QED BY <1>0, <2>3, <3>1 DEF CodePush, ThreadTypes
  <2>4. QED BY <1>4, <2>1, <2>2, <2>3 DEF Coding
<1>5. ASSUME NEW b \in curr_block..maxblockno, NEW n \in 1..MaxNeed, SendSegs(b, n) PROVE ThreadTypes'
  <2>1. b \in Blocks /\ n \in 0..Most
    BY <1>0, Numbers DEF Blocks, BlockTypes
  <2>2. QED BY <1>0, <1>1, <1>5, <2>1, ThreadFacts DEF SendSegs, ThreadTypes
<1>6. CASE SegsLock \/ SegsAdd \/ SegsLoop \/ SegsRelock
  BY <1>0, <1>1, <1>6, ThreadFacts DEF SegsLock, SegsAdd, SegsLoop, SegsRelock, ThreadTypes
<1>7. CASE SegsPop
  <2>1. left[Srv] - 1 \in 0..Most
    BY <1>7, Reads, ThreadFacts, Numbers DEF SegsPop, LocksInv, SrvInv
  <2>2. QED BY <1>0, <1>1, <1>7, <2>1, ThreadFacts DEF SegsPop, ThreadTypes
<1>8. ASSUME NEW a \in BOOLEAN, AckLock(a) PROVE ThreadTypes'
  BY <1>0, <1>1, <1>8, ThreadFacts DEF AckLock, ThreadTypes, BlockTypes
<1>9. CASE Ack
  BY <1>0, <1>1, <1>9, ThreadFacts DEF Ack, AckFree, AckQFree, AckNote, ThreadTypes, BlockTypes
<1>10. CASE UNCHANGED vars
  BY <1>0, <1>10 DEF vars, ThreadTypes
<1>11. QED BY <1>2, <1>3, <1>4, <1>5, <1>6, <1>7, <1>8, <1>9, <1>10 DEF Next, Sending, Segs

(* Each thread stays in the calls that are its own.                        *)
LEMMA StagesStep == LocksInv /\ [Next]_vars => Stages'
<1> SUFFICES ASSUME ThreadTypes, Stages, [Next]_vars PROVE Stages'
  BY DEF LocksInv, TypeInv
<1>1. UNCHANGED pc => Stages'
  BY DEF Stages
<1>2. \A to \in {"idle", "send_lock", "send_add"} : Go(App, to) => Stages'
  BY ThreadFacts DEF Stages, Go, ThreadTypes
<1>3. \A to \in {"idle"} \cup InSegs \cup InAck : Go(Srv, to) => Stages'
  BY ThreadFacts DEF Stages, Go, ThreadTypes
<1>4. \A w \in Workers : \A to \in {"idle"} \cup Busy : Go(w, to) => Stages'
  BY ThreadFacts DEF Stages, Go, ThreadTypes
<1>5. CASE SendCtcp \/ Sending
  BY <1>2, <1>5 DEF SendCtcp, Sending, SendLock, SendAdd
<1>6. ASSUME NEW w \in Workers, Coding(w) PROVE Stages'
  BY <1>1, <1>4, <1>6 DEF Coding, TakeJob, CodeCheck, CodeLock, CodePush, CodeDone, Busy
<1>7. ASSUME NEW b \in curr_block..maxblockno, NEW n \in 1..MaxNeed, SendSegs(b, n) PROVE Stages'
  BY <1>3, <1>7 DEF SendSegs, InSegs
<1>8. CASE Segs
  BY <1>3, <1>8 DEF Segs, SegsLock, SegsAdd, SegsLoop, SegsPop, SegsRelock, InSegs
<1>9. ASSUME NEW a \in BOOLEAN, AckLock(a) PROVE Stages'
  BY <1>3, <1>9 DEF AckLock, InAck
<1>10. CASE Ack
  BY <1>3, <1>10 DEF Ack, AckFree, AckQFree, AckNote, InAck
<1>11. CASE UNCHANGED vars
  BY <1>1, <1>11 DEF vars
<1>12. QED BY <1>5, <1>6, <1>7, <1>8, <1>9, <1>10, <1>11 DEF Next

LEMMA TypeStep == LocksInv /\ [Next]_vars => TypeInv'
BY MutexTypesStep, BlockTypesStep, QueueTypesStep, ThreadTypesStep, StagesStep DEF TypeInv

(* A thread t takes a step, the others none: it leaves the block mutexes   *)
(* alone, takes the one of its block, or gives it back.                    *)
LEMMA HolderStep ==
  ASSUME MutexTypes, ThreadTypes, HolderInv, NEW t \in Threads, at'[t] \in Blocks,
         \A u \in Threads \ {t} : pc'[u] = pc[u] /\ at'[u] = at[u],
         \/ /\ block_mutex' = block_mutex
            /\ \/ pc[t] \notin Holding /\ pc'[t] \notin Holding
               \/ pc[t] \in Holding /\ pc'[t] \in Holding /\ at'[t] = at[t]
         \/ /\ block_mutex[at'[t]] = None /\ block_mutex' = [block_mutex EXCEPT ![at'[t]] = t]
            /\ pc[t] \notin Holding /\ pc'[t] \in Holding
         \/ /\ block_mutex' = [block_mutex EXCEPT ![at[t]] = None]
            /\ pc[t] \in Holding /\ pc'[t] \notin Holding
  PROVE  HolderInv'
<1> SUFFICES ASSUME NEW b \in Blocks, NEW u \in Threads
             PROVE  block_mutex'[b] = u <=> pc'[u] \in Holding /\ at'[u] = b
  BY DEF HolderInv
<1>1. block_mutex[b] = u <=> pc[u] \in Holding /\ at[u] = b
  BY DEF HolderInv
<1>2. block_mutex[b] = t <=> pc[t] \in Holding /\ at[t] = b
  BY DEF HolderInv
<1>3. at[t] \in Blocks /\ None # u /\ None # t
  BY ThreadFacts DEF ThreadTypes
<1>4. CASE /\ block_mutex' = block_mutex
           /\ \/ pc[t] \notin Holding /\ pc'[t] \notin Holding
              \/ pc[t] \in Holding /\ pc'[t] \in Holding /\ at'[t] = at[t]
  BY <1>1, <1>4
<1>5. CASE block_mutex[at'[t]] = None /\ block_mutex' = [block_mutex EXCEPT ![at'[t]] = t]
           /\ pc[t] \notin Holding /\ pc'[t] \in Holding
  BY <1>1, <1>2, <1>3, <1>5 DEF MutexTypes
<1>6. CASE block_mutex' = [block_mutex EXCEPT ![at[t]] = None] /\ pc[t] \in Holding /\ pc'[t] \notin Holding
  BY <1>1, <1>2, <1>3, <1>6 DEF MutexTypes
<1>7. QED BY <1>4, <1>5, <1>6

(* What a step of one thread does to the threads' places.                  *)
LEMMA Move ==
  ASSUME ThreadTypes, NEW t \in Threads, NEW to, Go(t, to)
  PROVE  pc'[t] = to /\ \A u \in Threads \ {t} : pc'[u] = pc[u]
BY DEF ThreadTypes, Go

(* A block's mutex is taken and given back where the code says.            *)
LEMMA HoldersStep == LocksInv /\ [Next]_vars => HolderInv'
<1> SUFFICES ASSUME LocksInv, [Next]_vars PROVE HolderInv'
  OBVIOUS
<1>0. MutexTypes /\ BlockTypes /\ ThreadTypes /\ Stages /\ LockInv /\ HolderInv /\ ThreadTypes' /\ SrvInv
  BY ThreadTypesStep DEF LocksInv, TypeInv, LockInv
<1>a. \A t \in Threads : at[t] \in Blocks /\ at'[t] \in Blocks
  BY <1>0 DEF ThreadTypes
<1>1. CASE SendCtcp
  <2>1. pc[App] = "idle" /\ Go(App, "send_lock") /\ UNCHANGED <<block_mutex, at>>
    BY <1>1 DEF SendCtcp
  <2>2. QED BY <1>0, <1>a, <2>1, HolderStep, Move, ThreadFacts DEF Holding
<1>2. CASE SendLock
  <2>1. /\ pc[App] = "send_lock" /\ Go(App, "send_add") /\ at' = [at EXCEPT ![App] = maxblockno]
        /\ block_mutex[maxblockno] = None /\ block_mutex' = [block_mutex EXCEPT ![maxblockno] = App]
    BY <1>2 DEF SendLock
  <2>2. at'[App] = maxblockno /\ \A u \in Threads \ {App} : at'[u] = at[u]
    BY <1>0, <2>1, ThreadFacts DEF ThreadTypes
  <2>3. pc'[App] = "send_add" /\ \A u \in Threads \ {App} : pc'[u] = pc[u]
    BY <1>0, <2>1, Move, ThreadFacts
  <2>4. QED BY <1>0, <1>a, <2>1, <2>2, <2>3, HolderStep, ThreadFacts, ZenonT(60) DEF Holding
<1>3. ASSUME NEW d \in 1..MaxDofs, NEW n \in BOOLEAN, NEW r \in BOOLEAN, SendAdd(d, n, r) PROVE HolderInv'
  <2>1. /\ pc[App] = "send_add" /\ Go(App, IF r THEN "idle" ELSE "send_lock") /\ at' = at
        /\ block_mutex' = [block_mutex EXCEPT ![at[App]] = None]
    BY <1>3 DEF SendAdd, UnlockBlock
  <2>2. pc'[App] = (IF r THEN "idle" ELSE "send_lock") /\ \A u \in Threads \ {App} : pc'[u] = pc[u]
    BY <1>0, <2>1, Move, ThreadFacts
  <2>3. QED BY <1>0, <1>a, <2>1, <2>2, HolderStep, ThreadFacts DEF Holding
<1>4. ASSUME NEW w \in Workers, Coding(w) PROVE HolderInv'
  <2>0. w \in Threads
    BY ThreadFacts
  <2>1. CASE TakeJob(w)
    <3>1. pc[w] = "idle" /\ Go(w, "code_check") /\ UNCHANGED block_mutex
          /\ \A u \in Threads \ {w} : at'[u] = at[u]
      BY <1>0, <2>1 DEF TakeJob, locks, ThreadTypes
    <3>2. QED BY <1>0, <1>a, <2>0, <3>1, HolderStep, Move DEF Holding
  <2>2. CASE CodeCheck(w)
    <3>1. /\ pc[w] = "code_check" /\ UNCHANGED <<block_mutex, at>>
          /\ Go(w, IF at[w] < curr_block THEN "idle" ELSE "code_lock")
      BY <2>2 DEF CodeCheck, locks
    <3>2. pc'[w] \in {"idle", "code_lock"} /\ \A u \in Threads \ {w} : pc'[u] = pc[u]
      BY <1>0, <2>0, <3>1, Move
    <3>3. QED BY <1>0, <1>a, <2>0, <3>1, <3>2, HolderStep DEF Holding
  <2>3. CASE CodeLock(w)
    <3>1. pc[w] = "code_lock" /\ at' = at
      BY <2>3 DEF CodeLock
    <3>2. \/ Go(w, "code_push") /\ block_mutex[at[w]] = None /\ block_mutex' = [block_mutex EXCEPT ![at[w]] = w]
          \/ Go(w, "idle") /\ block_mutex' = block_mutex
      BY <2>3 DEF CodeLock, LockBlock
    <3>3. /\ \A u \in Threads \ {w} : pc'[u] = pc[u]
          /\ \/ /\ pc'[w] = "code_push" /\ block_mutex[at[w]] = None
                /\ block_mutex' = [block_mutex EXCEPT ![at[w]] = w]
             \/ pc'[w] = "idle" /\ block_mutex' = block_mutex
      BY <1>0, <2>0, <3>2, Move
    <3>4. QED BY <1>0, <1>a, <2>0, <3>1, <3>3, HolderStep DEF Holding
  <2>4. CASE CodePush(w)
    BY <1>0, <2>4 DEF CodePush, locks, HolderInv
  <2>5. CASE CodeDone(w)
    <3>1. /\ pc[w] = "code_push" /\ Go(w, "idle") /\ at' = at
          /\ block_mutex' = [block_mutex EXCEPT ![at[w]] = None]
      BY <2>5 DEF CodeDone, UnlockBlock
    <3>2. pc'[w] = "idle" /\ \A u \in Threads \ {w} : pc'[u] = pc[u]
      BY <1>0, <2>0, <3>1, Move
    <3>3. QED BY <1>0, <1>a, <2>0, <3>1, <3>2, HolderStep DEF Holding
  <2>6. QED BY <1>4, <2>1, <2>2, <2>3, <2>4, <2>5 DEF Coding
<1>5. ASSUME NEW b \in curr_block..maxblockno, NEW n \in 1..MaxNeed, SendSegs(b, n) PROVE HolderInv'
  <2>1. pc[Srv] = "idle" /\ Go(Srv, "segs_lock") /\ UNCHANGED block_mutex
        /\ \A u \in Threads \ {Srv} : at'[u] = at[u]
    BY <1>0, <1>5 DEF SendSegs, locks, ThreadTypes
  <2>2. QED BY <1>0, <1>a, <2>1, HolderStep, Move, ThreadFacts DEF Holding
<1>6. CASE SegsLock \/ SegsRelock
  <2>1. /\ pc[Srv] \in {"segs_lock", "segs_relock"} /\ at' = at
        /\ block_mutex[at[Srv]] = None /\ block_mutex' = [block_mutex EXCEPT ![at[Srv]] = Srv]
        /\ Go(Srv, "segs_add") \/ Go(Srv, "segs_loop")
    BY <1>6 DEF SegsLock, SegsRelock, LockBlock
  <2>2. pc'[Srv] \in {"segs_add", "segs_loop"} /\ \A u \in Threads \ {Srv} : pc'[u] = pc[u]
    BY <1>0, <2>1, Move, ThreadFacts
  <2>3. QED BY <1>0, <1>a, <2>1, <2>2, HolderStep, ThreadFacts DEF Holding
<1>7. CASE SegsAdd
  <2>1. pc[Srv] = "segs_add" /\ Go(Srv, "segs_loop") /\ UNCHANGED <<block_mutex, at>>
    BY <1>7 DEF SegsAdd, locks
  <2>2. QED BY <1>0, <1>a, <2>1, HolderStep, Move, ThreadFacts DEF Holding
<1>8. CASE SegsLoop
  <2>1. /\ pc[Srv] = "segs_loop" /\ at' = at /\ block_mutex' = [block_mutex EXCEPT ![at[Srv]] = None]
        /\ Go(Srv, "segs_pop") \/ Go(Srv, "idle")
    BY <1>8 DEF SegsLoop, UnlockBlock
  <2>2. pc'[Srv] \in {"segs_pop", "idle"} /\ \A u \in Threads \ {Srv} : pc'[u] = pc[u]
    BY <1>0, <2>1, Move, ThreadFacts
  <2>3. QED BY <1>0, <1>a, <2>1, <2>2, HolderStep, ThreadFacts DEF Holding
<1>9. CASE SegsPop
  <2>1. pc[Srv] = "segs_pop" /\ Go(Srv, "segs_relock") /\ UNCHANGED <<block_mutex, at>>
    BY <1>9 DEF SegsPop, locks
  <2>2. QED BY <1>0, <1>a, <2>1, HolderStep, Move, ThreadFacts DEF Holding
<1>10. ASSUME NEW a \in BOOLEAN, AckLock(a) PROVE HolderInv'
  <2>1. /\ pc[Srv] = "idle" /\ UNCHANGED block_mutex /\ \A u \in Threads \ {Srv} : at'[u] = at[u]
        /\ Go(Srv, "ack_free") \/ Go(Srv, "ack_note")
    BY <1>0, <1>10 DEF AckLock, ThreadTypes
  <2>2. pc'[Srv] \in {"ack_free", "ack_note"} /\ \A u \in Threads \ {Srv} : pc'[u] = pc[u]
    BY <1>0, <2>1, Move, ThreadFacts
  <2>3. QED BY <1>0, <1>a, <2>1, <2>2, HolderStep, ThreadFacts DEF Holding
<1>11. CASE AckFree
  <2>1. /\ pc[Srv] = "ack_free" /\ at' = at /\ Go(Srv, "ack_qfree")
        /\ block_mutex[at[Srv]] = None /\ block_mutex' = [block_mutex EXCEPT ![at[Srv]] = Srv]
    BY <1>11 DEF AckFree, LockBlock
  <2>2. pc'[Srv] = "ack_qfree" /\ \A u \in Threads \ {Srv} : pc'[u] = pc[u]
    BY <1>0, <2>1, Move, ThreadFacts
  <2>3. QED BY <1>0, <1>a, <2>1, <2>2, HolderStep, ThreadFacts DEF Holding
<1>12. ASSUME NEW a \in BOOLEAN, AckQFree(a) PROVE HolderInv'
  <2>1. /\ pc[Srv] = "ack_qfree" /\ \A u \in Threads \ {Srv} : at'[u] = at[u]
        /\ block_mutex' = [block_mutex EXCEPT ![at[Srv]] = None]
        /\ Go(Srv, "ack_free") \/ Go(Srv, "ack_note")
    BY <1>0, <1>12 DEF AckQFree, UnlockBlock, ThreadTypes
  <2>2. pc'[Srv] \in {"ack_free", "ack_note"} /\ \A u \in Threads \ {Srv} : pc'[u] = pc[u]
    BY <1>0, <2>1, Move, ThreadFacts
  <2>3. QED BY <1>0, <1>a, <2>1, <2>2, HolderStep, ThreadFacts DEF Holding
<1>13. CASE AckNote
  <2>1. pc[Srv] = "ack_note" /\ Go(Srv, "idle") /\ UNCHANGED <<block_mutex, at>>
    BY <1>13 DEF AckNote
  <2>2. QED BY <1>0, <1>a, <2>1, HolderStep, Move, ThreadFacts DEF Holding
<1>14. CASE UNCHANGED vars
  BY <1>0, <1>14 DEF vars, HolderInv
<1>15. QED BY <1>1, <1>2, <1>3, <1>4, <1>5, <1>6, <1>7, <1>8, <1>9, <1>10, <1>11, <1>12, <1>13, <1>14
           DEF Next, Sending, Segs, Ack

(* So is curr_block_mutex.                                                 *)
LEMMA LockStep == LocksInv /\ [Next]_vars => LockInv'
<1> SUFFICES ASSUME LocksInv, [Next]_vars PROVE LockInv'
  OBVIOUS
<1>0. MutexTypes /\ BlockTypes /\ ThreadTypes /\ Stages /\ LockInv /\ HolderInv'
  BY HoldersStep DEF LocksInv, TypeInv
<1> DEFINE Curr == /\ curr_block_mutex = App <=> pc[App] # "idle"
                   /\ curr_block_mutex = Srv <=> pc[Srv] \in InAck
                   /\ pc[App] = "send_add" => at[App] = maxblockno
<1>c. Curr
  BY <1>0 DEF LockInv
<1>1. CASE SendCtcp \/ SendLock
  BY <1>0, <1>1, <1>c, ThreadFacts DEF SendCtcp, SendLock, Go, ThreadTypes, Stages, InSegs, InAck, LockInv, MutexTypes, blocks
<1>2. ASSUME NEW d \in 1..MaxDofs, NEW n \in BOOLEAN, NEW r \in BOOLEAN, SendAdd(d, n, r) PROVE LockInv'
  BY <1>0, <1>2, <1>c, ThreadFacts DEF SendAdd, Go, ThreadTypes, LockInv
<1>3. ASSUME NEW w \in Workers, Coding(w) PROVE LockInv'
  <2>1. /\ pc'[App] = pc[App] /\ pc'[Srv] = pc[Srv] /\ at'[App] = at[App]
        /\ UNCHANGED <<curr_block_mutex, maxblockno>>
    BY <1>0, <1>3, ThreadFacts
       DEF Coding, TakeJob, CodeCheck, CodeLock, CodePush, CodeDone, Go, ThreadTypes, locks, blocks
  <2>2. QED BY <1>0, <1>c, <2>1 DEF LockInv
<1>4. ASSUME NEW b \in curr_block..maxblockno, NEW n \in 1..MaxNeed, SendSegs(b, n) PROVE LockInv'
  BY <1>0, <1>4, <1>c, ThreadFacts DEF SendSegs, Go, ThreadTypes, LockInv, locks, blocks, InAck
<1>5. CASE Segs
  <2>1. /\ pc'[App] = pc[App] /\ at'[App] = at[App] /\ UNCHANGED <<curr_block_mutex, maxblockno>>
        /\ pc[Srv] \notin InAck /\ pc'[Srv] \notin InAck
    BY <1>0, <1>5, ThreadFacts
       DEF Segs, SegsLock, SegsAdd, SegsLoop, SegsPop, SegsRelock, Go, ThreadTypes, locks, blocks, InAck
  <2>2. QED BY <1>0, <1>c, <2>1 DEF LockInv
<1>6. CASE (\E a \in BOOLEAN : AckLock(a)) \/ AckNote
  BY <1>0, <1>6, <1>c, ThreadFacts DEF AckLock, AckNote, Go, ThreadTypes, LockInv, blocks, InAck
<1>7. CASE AckFree \/ \E a \in BOOLEAN : AckQFree(a)
  <2>1. /\ pc'[App] = pc[App] /\ at'[App] = at[App] /\ UNCHANGED <<curr_block_mutex, maxblockno>>
        /\ pc[Srv] \in InAck /\ pc'[Srv] \in InAck
    BY <1>0, <1>7, ThreadFacts DEF AckFree, AckQFree, Go, ThreadTypes, blocks, InAck
  <2>2. QED BY <1>0, <1>c, <2>1 DEF LockInv
<1>8. CASE UNCHANGED vars
  BY <1>0, <1>8, <1>c DEF vars, LockInv
<1>9. QED BY <1>1, <1>2, <1>3, <1>4, <1>5, <1>6, <1>7, <1>8 DEF Next, Sending, Ack

(* Where the server worker is tells what it found.                         *)
LEMMA SrvStep == LocksInv /\ [Next]_vars => SrvInv'
<1> SUFFICES ASSUME LocksInv, [Next]_vars PROVE SrvInv'
  OBVIOUS
<1>0. BlockTypes /\ ThreadTypes /\ Stages /\ SrvInv /\ LockInv
  BY DEF LocksInv, TypeInv
<1>r. at[Srv] \in Blocks /\ left[Srv] \in Nat /\ dof_remain[at[Srv]] \in Nat
  BY Reads, ThreadFacts
<1>1. ASSUME pc'[Srv] = pc[Srv], at'[Srv] = at[Srv], left'[Srv] = left[Srv], curr_block' = curr_block,
             maxblockno' = maxblockno, dof_remain' = dof_remain
      PROVE  SrvInv'
  BY <1>0, <1>1 DEF SrvInv
<1>2. CASE SendCtcp \/ SendLock
  BY <1>0, <1>1, <1>2, ThreadFacts DEF SendCtcp, SendLock, Go, blocks, queues, ThreadTypes
<1>3. ASSUME NEW d \in 1..MaxDofs, NEW n \in BOOLEAN, NEW r \in BOOLEAN, SendAdd(d, n, r) PROVE SrvInv'
  <2>1. pc'[Srv] = pc[Srv] /\ at' = at /\ left' = left /\ curr_block' = curr_block
    BY <1>0, <1>3, ThreadFacts DEF SendAdd, Go, ThreadTypes
  <2>2. maxblockno' >= maxblockno /\ maxblockno' \in Nat /\ curr_block \in Nat
    BY <1>0, <1>3, BlockFacts DEF SendAdd, BlockTypes
  <2>3. dof_remain'[at[Srv]] >= dof_remain[at[Srv]] /\ (at[Srv] # maxblockno => dof_remain'[at[Srv]] = dof_remain[at[Srv]])
    BY <1>0, <1>r, <1>3, Numbers, SMTT(30) DEF SendAdd, LocksInv, TypeInv, QueueTypes
  <2>4. pc[Srv] = "segs_add" => at[Srv] # maxblockno
    BY <1>0, <1>3, <1>r, ThreadFacts DEF SendAdd, LockInv, HolderInv, Holding
  <2>5. dof_remain'[at[Srv]] \in Nat
    BY <1>r, QueueTypesStep DEF QueueTypes
  <2>6. maxblockno \in Nat /\ at[Srv] \in Nat
    BY <1>0, <1>r, BlockFacts DEF BlockTypes
  <2>7. QED BY <1>0, <1>r, <2>1, <2>2, <2>3, <2>4, <2>5, <2>6 DEF SrvInv
<1>4. ASSUME NEW w \in Workers, Coding(w) PROVE SrvInv'
  BY <1>0, <1>1, <1>4, ThreadFacts DEF Coding, TakeJob, CodeCheck, CodeLock, CodePush, CodeDone, Go, blocks, queues, ThreadTypes
<1>5. ASSUME NEW b \in curr_block..maxblockno, NEW n \in 1..MaxNeed, SendSegs(b, n) PROVE SrvInv'
  <2>1. pc'[Srv] = "segs_lock" /\ at'[Srv] = b /\ left'[Srv] = n /\ UNCHANGED blocks
    BY <1>0, <1>5, ThreadFacts DEF SendSegs, Go, ThreadTypes
  <2>2. b >= curr_block /\ b <= maxblockno /\ n <= MaxNeed
    BY <1>0, Numbers DEF BlockTypes, Blocks
  <2>3. QED BY <2>1, <2>2 DEF SrvInv, InAck, InSegs, blocks
<1>6. CASE SegsLock \/ SegsAdd \/ SegsLoop
  <2>1. at' = at /\ left' = left /\ UNCHANGED blocks /\ pc[Srv] \in InSegs
    BY <1>6 DEF SegsLock, SegsAdd, SegsLoop, InSegs
  <2>2. /\ pc'[Srv] \in {"segs_add", "segs_loop", "segs_pop", "idle"}
        /\ pc'[Srv] = "segs_add" => dof_remain' = dof_remain /\ dof_remain[at[Srv]] < left[Srv]
        /\ pc'[Srv] = "segs_pop" => dof_remain' = dof_remain /\ dof_remain[at[Srv]] > 0 /\ left[Srv] >= 1
    BY <1>0, <1>6, ThreadFacts DEF SegsLock, SegsAdd, SegsLoop, Go, ThreadTypes, queues
  <2>3. QED BY <1>0, <1>r, <2>1, <2>2 DEF SrvInv, InAck, InSegs, blocks
<1>7. CASE SegsPop \/ SegsRelock
  <2>1. /\ at' = at /\ UNCHANGED blocks /\ pc[Srv] \in InSegs /\ left'[Srv] <= left[Srv] /\ left'[Srv] \in Int
        /\ \/ pc'[Srv] = "segs_loop"
           \/ pc'[Srv] = "segs_relock" /\ pc[Srv] = "segs_pop" /\ dof_remain' = dof_remain
    BY <1>0, <1>r, <1>7, ThreadFacts DEF SegsPop, SegsRelock, Go, ThreadTypes, InSegs
  <2>2. QED BY <1>0, <1>r, <2>1, Numbers DEF SrvInv, InAck, InSegs, blocks
<1>8. ASSUME NEW a \in BOOLEAN, AckLock(a) PROVE SrvInv'
  <2>1. pc'[Srv] \in {"ack_free", "ack_note"} /\ at'[Srv] = curr_block /\ UNCHANGED blocks
    BY <1>0, <1>8, ThreadFacts DEF AckLock, Go, ThreadTypes
  <2>2. pc'[Srv] = "ack_free" => curr_block < maxblockno
    BY <1>0, <1>8, ThreadFacts DEF AckLock, Go, ThreadTypes, Acked
  <2>3. QED BY <2>1, <2>2 DEF SrvInv, InAck, InSegs, blocks
<1>9. CASE AckFree
  <2>1. pc[Srv] = "ack_free" /\ pc'[Srv] = "ack_qfree" /\ at' = at /\ UNCHANGED blocks
    BY <1>0, <1>9, ThreadFacts DEF AckFree, Go, ThreadTypes
  <2>2. QED BY <1>0, <2>1 DEF SrvInv, InAck, InSegs, blocks
<1>10. ASSUME NEW a \in BOOLEAN, AckQFree(a) PROVE SrvInv'
  <2>1. pc'[Srv] \in {"ack_free", "ack_note"} /\ at'[Srv] = curr_block' /\ maxblockno' = maxblockno
    BY <1>0, <1>10, ThreadFacts DEF AckQFree, Go, ThreadTypes
  <2>2. pc'[Srv] = "ack_free" => curr_block' < maxblockno
    BY <1>0, <1>10, ThreadFacts DEF AckQFree, Go, ThreadTypes, Acked
  <2>3. QED BY <2>1, <2>2 DEF SrvInv, InAck, InSegs
<1>11. CASE AckNote
  <2>1. pc'[Srv] = "idle"
    BY <1>0, <1>11, ThreadFacts DEF AckNote, Go, ThreadTypes
  <2>2. QED BY <2>1 DEF SrvInv, InAck, InSegs
<1>12. CASE UNCHANGED vars
  BY <1>1, <1>12 DEF vars
<1>13. QED BY <1>2, <1>3, <1>4, <1>5, <1>6, <1>7, <1>8, <1>9, <1>10, <1>11, <1>12 DEF Next, Sending, Segs, Ack

(***************************************************************************)
(* Counting the packets that are still to be coded.                        *)
(***************************************************************************)
Column(a, n) == {a} \X (1..n)
Own(j, b) == IF j.blockno = b THEN j.dofs ELSE 0

LEMMA DisjointCard ==
  ASSUME NEW S, NEW T, IsFiniteSet(S), IsFiniteSet(T), S \cap T = {}
  PROVE  IsFiniteSet(S \cup T) /\ Cardinality(S \cup T) = Cardinality(S) + Cardinality(T)
<1>1. IsFiniteSet(S \cup T) /\ Cardinality(S \cup T) = Cardinality(S) + Cardinality(T) - Cardinality({})
  BY FS_Union
<1>2. Cardinality(S) \in Nat /\ Cardinality(T) \in Nat
  BY FS_CardinalityType
<1>3. QED BY <1>1, <1>2, FS_EmptySet

LEMMA ColumnCard ==
  ASSUME NEW a, NEW n \in Nat
  PROVE  IsFiniteSet(Column(a, n)) /\ Cardinality(Column(a, n)) = n
<1>1. IsFiniteSet({a}) /\ Cardinality({a}) = 1
  BY FS_Singleton
<1>2. IsFiniteSet(1..n) /\ Cardinality(1..n) = n
  BY FS_Interval
<1>3. IsFiniteSet({a} \X (1..n)) /\ Cardinality({a} \X (1..n)) = Cardinality({a}) * Cardinality(1..n)
  BY <1>1, <1>2, FS_Product
<1>4. Cardinality({a}) * Cardinality(1..n) = n
  BY <1>1, <1>2
<1>5. QED BY <1>3, <1>4 DEF Column

(* Seen one place further down a queue, the tokens are as many.            *)
Shift(X) == {<<x[1] + 1, x[2]>> : x \in X}
LEMMA ShiftCard ==
  ASSUME NEW X \in SUBSET (Nat \X Nat), IsFiniteSet(X)
  PROVE  IsFiniteSet(Shift(X)) /\ Cardinality(Shift(X)) = Cardinality(X)
<1> DEFINE f == [x \in X |-> <<x[1] + 1, x[2]>>]
<1>1. \A x, y \in X : f[x] = f[y] => x = y
  <2> SUFFICES ASSUME NEW x \in X, NEW y \in X, f[x] = f[y] PROVE x = y
    OBVIOUS
  <2>1. x[1] + 1 = y[1] + 1 /\ x[2] = y[2]
    OBVIOUS
  <2>2. x \in Nat \X Nat /\ y \in Nat \X Nat
    OBVIOUS
  <2>3. QED BY <2>1, <2>2
<1>2. f \in Injection(X, Shift(X))
  BY <1>1 DEF Injection, IsInjective, Shift
<1>3. f \in Surjection(X, Shift(X))
  BY DEF Surjection, Shift
<1>4. f \in Bijection(X, Shift(X))
  BY <1>2, <1>3 DEF Bijection
<1>5. ExistsBijection(X, Shift(X))
  BY <1>4 DEF ExistsBijection
<1>6. QED BY <1>5, FS_Bijection

LEMMA JobTokensFinite ==
  ASSUME NEW s \in Seq(Job), NEW b
  PROVE  /\ IsFiniteSet(JobTokens(s, b)) /\ Cardinality(JobTokens(s, b)) \in Nat
         /\ JobTokens(s, b) \in SUBSET (Nat \X Nat)
<1>1. IsFiniteSet(1..Len(s)) /\ IsFiniteSet(1..Most)
  BY FS_Interval, Numbers
<1>2. IsFiniteSet((1..Len(s)) \X (1..Most))
  BY <1>1, FS_Product
<1>3. JobTokens(s, b) \in SUBSET ((1..Len(s)) \X (1..Most))
  BY DEF JobTokens
<1>4. QED BY <1>2, <1>3, FS_Subset, FS_CardinalityType, Numbers

LEMMA TokensAppended ==
  ASSUME NEW s \in Seq(Job), NEW j \in Job, NEW b \in Blocks
  PROVE  Cardinality(JobTokens(Append(s, j), b)) = Cardinality(JobTokens(s, b)) + Own(j, b)
<1> DEFINE n == Own(j, b)
<1>1. n \in Nat /\ n <= Most /\ j.dofs \in 1..Most
  BY Numbers DEF Own, Job
<1>2. Append(s, j) \in Seq(Job) /\ Len(Append(s, j)) = Len(s) + 1 /\ Append(s, j)[Len(s) + 1] = j
      /\ \A i \in 1..Len(s) : Append(s, j)[i] = s[i]
  OBVIOUS
<1>3. JobTokens(Append(s, j), b) = JobTokens(s, b) \cup Column(Len(s) + 1, n)
  <2>1. ASSUME NEW i \in 1..Len(s) + 1, NEW k \in 1..Most
        PROVE  <<i, k>> \in JobTokens(Append(s, j), b) <=> <<i, k>> \in JobTokens(s, b) \cup Column(Len(s) + 1, n)
    <3>1. CASE i \in 1..Len(s)
      BY <1>2, <3>1 DEF JobTokens, Column
    <3>2. CASE i = Len(s) + 1
      BY <1>1, <1>2, <3>2 DEF JobTokens, Column, Own
    <3>3. QED BY <3>1, <3>2
  <2>2. JobTokens(Append(s, j), b) \subseteq (1..Len(s) + 1) \X (1..Most)
    BY <1>2 DEF JobTokens
  <2>3. JobTokens(s, b) \cup Column(Len(s) + 1, n) \subseteq (1..Len(s) + 1) \X (1..Most)
    BY <1>1, Numbers DEF JobTokens, Column
  <2>4. QED BY <2>1, <2>2, <2>3
<1>4. JobTokens(s, b) \cap Column(Len(s) + 1, n) = {}
  BY DEF JobTokens, Column
<1>5. IsFiniteSet(JobTokens(s, b))
  BY JobTokensFinite
<1>6. IsFiniteSet(Column(Len(s) + 1, n)) /\ Cardinality(Column(Len(s) + 1, n)) = n
  BY <1>1, ColumnCard
<1>7. Cardinality(JobTokens(s, b) \cup Column(Len(s) + 1, n))
        = Cardinality(JobTokens(s, b)) + Cardinality(Column(Len(s) + 1, n))
  BY <1>4, <1>5, <1>6, DisjointCard
<1>8. QED BY <1>3, <1>6, <1>7

LEMMA TokensPrepended ==
  ASSUME NEW s \in Seq(Job), NEW j \in Job, NEW b \in Blocks
  PROVE  Cardinality(JobTokens(<<j>> \o s, b)) = Cardinality(JobTokens(s, b)) + Own(j, b)
<1> DEFINE n == Own(j, b)
<1> DEFINE X == JobTokens(s, b)
<1>1. n \in Nat /\ n <= Most /\ j.dofs \in 1..Most
  BY Numbers DEF Own, Job
<1>2. Len(<<j>> \o s) = Len(s) + 1 /\ (<<j>> \o s)[1] = j
      /\ \A i \in 1..Len(s) : (<<j>> \o s)[i + 1] = s[i]
  OBVIOUS
<1>3. JobTokens(<<j>> \o s, b) = Shift(X) \cup Column(1, n)
  <2>1. ASSUME NEW i \in 1..Len(s) + 1, NEW k \in 1..Most
        PROVE  <<i, k>> \in JobTokens(<<j>> \o s, b) <=> <<i, k>> \in Shift(X) \cup Column(1, n)
    <3>0. <<i, k>> \in Shift(X) <=> i - 1 \in 1..Len(s) /\ <<i - 1, k>> \in X
      <4>1. ASSUME <<i, k>> \in Shift(X) PROVE i - 1 \in 1..Len(s) /\ <<i - 1, k>> \in X
        <5>1. PICK x \in X : <<i, k>> = <<x[1] + 1, x[2]>>
          BY <4>1 DEF Shift
        <5>2. x = <<x[1], x[2]>> /\ x[1] \in 1..Len(s)
          BY DEF JobTokens
        <5>3. QED BY <5>1, <5>2
      <4>2. ASSUME i - 1 \in 1..Len(s), <<i - 1, k>> \in X PROVE <<i, k>> \in Shift(X)
        BY <4>2 DEF Shift
      <4>3. QED BY <4>1, <4>2
    <3>1. CASE i = 1
      BY <1>1, <1>2, <3>0, <3>1 DEF JobTokens, Column, Own
    <3>2. CASE i - 1 \in 1..Len(s)
      <4>1. (<<j>> \o s)[i] = s[i - 1]
        BY <1>2, <3>2
      <4>2. QED BY <1>2, <3>0, <3>2, <4>1 DEF JobTokens, Column
    <3>3. QED BY <3>1, <3>2
  <2>2. JobTokens(<<j>> \o s, b) \subseteq (1..Len(s) + 1) \X (1..Most)
    BY <1>2 DEF JobTokens
  <2>3. Shift(X) \cup Column(1, n) \subseteq (1..Len(s) + 1) \X (1..Most)
    BY <1>1, Numbers DEF JobTokens, Column, Shift
  <2>4. QED BY <2>1, <2>2, <2>3
<1>4. Shift(X) \cap Column(1, n) = {}
  BY DEF JobTokens, Column, Shift
<1>5. IsFiniteSet(Shift(X)) /\ Cardinality(Shift(X)) = Cardinality(X)
  BY JobTokensFinite, ShiftCard
<1>6. IsFiniteSet(Column(1, n)) /\ Cardinality(Column(1, n)) = n
  BY <1>1, ColumnCard
<1>7. Cardinality(Shift(X) \cup Column(1, n)) = Cardinality(Shift(X)) + Cardinality(Column(1, n))
  BY <1>4, <1>5, <1>6, DisjointCard
<1>8. QED BY <1>3, <1>5, <1>6, <1>7

LEMMA TokensTaken ==
  ASSUME NEW s \in Seq(Job), s # <<>>, NEW b \in Blocks
  PROVE  Cardinality(JobTokens(s, b)) = Cardinality(JobTokens(Tail(s), b)) + Own(Head(s), b)
<1>1. Head(s) \in Job /\ Tail(s) \in Seq(Job)
  OBVIOUS
<1>2. s = <<Head(s)>> \o Tail(s)
  BY HeadTailProperties
<1>3. Cardinality(JobTokens(<<Head(s)>> \o Tail(s), b)) = Cardinality(JobTokens(Tail(s), b)) + Own(Head(s), b)
  BY <1>1, TokensPrepended
<1>4. QED BY <1>2, <1>3

LEMMA WorkTokensFinite ==
  ASSUME NEW p, NEW a, NEW l, NEW b
  PROVE  IsFiniteSet(WorkTokens(p, a, l, b)) /\ Cardinality(WorkTokens(p, a, l, b)) \in Nat
<1>1. IsFiniteSet(Workers) /\ IsFiniteSet(1..Most)
  BY FS_Interval, Numbers, ThreadAssumption
<1>2. IsFiniteSet(Workers \X (1..Most))
  BY <1>1, FS_Product
<1>3. WorkTokens(p, a, l, b) \in SUBSET (Workers \X (1..Most))
  BY DEF WorkTokens
<1>4. QED BY <1>2, <1>3, FS_Subset, FS_CardinalityType

(* The workers' tokens are those of w and those of the others.             *)
Mine(p, a, l, w, b) == IF p[w] \in Busy /\ a[w] = b THEN l[w] ELSE 0
LEMMA TokensOf ==
  ASSUME NEW p, NEW a, NEW l, NEW w \in Workers, NEW b, l[w] \in 0..Most
  PROVE  LET Others == {x \in WorkTokens(p, a, l, b) : x[1] # w}
         IN  IsFiniteSet(Others) /\ Cardinality(WorkTokens(p, a, l, b)) = Cardinality(Others) + Mine(p, a, l, w, b)
<1> DEFINE Others == {x \in WorkTokens(p, a, l, b) : x[1] # w}
<1> DEFINE n == Mine(p, a, l, w, b)
<1>1. n \in Nat /\ n <= Most
  BY Numbers DEF Mine
<1>2. WorkTokens(p, a, l, b) = Others \cup Column(w, n)
  <2>1. ASSUME NEW v \in Workers, NEW k \in 1..Most
        PROVE  <<v, k>> \in WorkTokens(p, a, l, b) <=> <<v, k>> \in Others \cup Column(w, n)
    <3>1. CASE v = w
      BY <1>1, <3>1, Numbers DEF WorkTokens, Column, Mine
    <3>2. CASE v # w
      BY <3>2 DEF Column
    <3>3. QED BY <3>1, <3>2
  <2>2. WorkTokens(p, a, l, b) \subseteq Workers \X (1..Most) /\ Others \cup Column(w, n) \subseteq Workers \X (1..Most)
    BY <1>1, Numbers DEF WorkTokens, Column
  <2>3. QED BY <2>1, <2>2
<1>3. Others \cap Column(w, n) = {}
  BY DEF Column
<1>4. IsFiniteSet(Others)
  BY WorkTokensFinite, FS_Subset
<1>5. IsFiniteSet(Column(w, n)) /\ Cardinality(Column(w, n)) = n
  BY <1>1, ColumnCard
<1>6. Cardinality(Others \cup Column(w, n)) = Cardinality(Others) + Cardinality(Column(w, n))
  BY <1>3, <1>4, <1>5, DisjointCard
<1>7. QED BY <1>2, <1>4, <1>5, <1>6

(* When only w takes a step, only its own tokens change.                   *)
LEMMA TokensMoved ==
  ASSUME NEW p, NEW a, NEW l, NEW q, NEW c, NEW m, NEW w \in Workers, NEW b,
         l[w] \in 0..Most, m[w] \in 0..Most,
         \A u \in Workers \ {w} : q[u] = p[u] /\ c[u] = a[u] /\ m[u] = l[u]
  PROVE  Cardinality(WorkTokens(q, c, m, b)) + Mine(p, a, l, w, b)
           = Cardinality(WorkTokens(p, a, l, b)) + Mine(q, c, m, w, b)
<1> DEFINE Old == {x \in WorkTokens(p, a, l, b) : x[1] # w}
<1> DEFINE New == {x \in WorkTokens(q, c, m, b) : x[1] # w}
<1>1. IsFiniteSet(Old) /\ Cardinality(WorkTokens(p, a, l, b)) = Cardinality(Old) + Mine(p, a, l, w, b)
  BY TokensOf
<1>2. Cardinality(WorkTokens(q, c, m, b)) = Cardinality(New) + Mine(q, c, m, w, b)
  BY TokensOf
<1>3. New = Old
  BY DEF WorkTokens
<1>4. Cardinality(Old) \in Nat /\ Mine(p, a, l, w, b) \in Nat /\ Mine(q, c, m, w, b) \in Nat
  BY <1>1, FS_CardinalityType, Numbers DEF Mine
<1> HIDE DEF Old, New
<1>5. QED BY <1>1, <1>2, <1>3, <1>4

LEMMA TokensSame ==
  ASSUME NEW b, \A u \in Workers : pc'[u] = pc[u] /\ at'[u] = at[u] /\ left'[u] = left[u]
  PROVE  BeingCoded(b)' = BeingCoded(b)
<1>1. WorkTokens(pc', at', left', b) = WorkTokens(pc, at, left, b)
  BY DEF WorkTokens
<1>2. QED BY <1>1 DEF BeingCoded

(* So for a step of the system.                                            *)
LEMMA TokensStep ==
  ASSUME ThreadTypes, ThreadTypes', NEW w \in Workers, NEW b,
         \A u \in Workers \ {w} : pc'[u] = pc[u] /\ at'[u] = at[u] /\ left'[u] = left[u]
  PROVE  BeingCoded(b)' + Mine(pc, at, left, w, b) = BeingCoded(b) + Mine(pc', at', left', w, b)
<1>1. left[w] \in 0..Most /\ left'[w] \in 0..Most
  BY ThreadFacts DEF ThreadTypes
<1>2. QED BY <1>1, TokensMoved, SMTT(30) DEF BeingCoded

(* The jobs queued, after one is added at either end or one is taken.      *)
LEMMA QueuedSteps ==
  ASSUME job_q \in Seq(Job), NEW j
  PROVE  /\ job_q' = Append(job_q, j) => Queued' = Queued \cup {j}
         /\ job_q' = <<j>> \o job_q => Queued' = Queued \cup {j}
         /\ job_q # <<>> => Head(job_q) \in Queued
         /\ job_q # <<>> /\ job_q' = Tail(job_q) => Queued' \subseteq Queued
         /\ job_q' = job_q => Queued' = Queued
<1>1. ASSUME job_q' = Append(job_q, j) PROVE Queued' = Queued \cup {j}
  <2>1. Len(job_q') = Len(job_q) + 1 /\ job_q'[Len(job_q) + 1] = j
        /\ \A i \in 1..Len(job_q) : job_q'[i] = job_q[i]
    BY <1>1
  <2>2. Queued' \subseteq Queued \cup {j}
    BY <2>1 DEF Queued
  <2>3. j \in Queued' /\ Queued \subseteq Queued'
    BY <2>1 DEF Queued
  <2>4. QED BY <2>2, <2>3
<1>2. ASSUME job_q' = <<j>> \o job_q PROVE Queued' = Queued \cup {j}
  <2>1. Len(job_q') = Len(job_q) + 1 /\ job_q'[1] = j
        /\ \A i \in 1..Len(job_q) : job_q'[i + 1] = job_q[i]
    BY <1>2
  <2>2. ASSUME NEW i \in 1..Len(job_q') PROVE job_q'[i] \in Queued \cup {j}
    <3>1. i = 1 \/ (i - 1 \in 1..Len(job_q) /\ job_q'[(i - 1) + 1] = job_q[i - 1] /\ (i - 1) + 1 = i)
      BY <2>1
    <3>2. QED BY <2>1, <3>1 DEF Queued
  <2>3. j \in Queued'
    BY <2>1 DEF Queued
  <2>4. ASSUME NEW i \in 1..Len(job_q) PROVE job_q[i] \in Queued'
    <3>1. i + 1 \in 1..Len(job_q') /\ job_q'[i + 1] = job_q[i]
      BY <2>1
    <3>2. QED BY <3>1 DEF Queued
  <2>5. QED BY <2>2, <2>3, <2>4 DEF Queued
<1>3. job_q # <<>> => Head(job_q) \in Queued
  BY DEF Queued
<1>4. ASSUME job_q # <<>>, job_q' = Tail(job_q) PROVE Queued' \subseteq Queued
  <2>1. Len(job_q') = Len(job_q) - 1 /\ \A i \in 1..Len(job_q') : job_q'[i] = job_q[i + 1] /\ i + 1 \in 1..Len(job_q)
    BY <1>4
  <2>2. QED BY <2>1 DEF Queued
<1>5. job_q' = job_q => Queued' = Queued
  BY DEF Queued
<1>6. QED BY <1>1, <1>2, <1>3, <1>4, <1>5

LEMMA QueuedJobs ==
  ASSUME job_q \in Seq(Job), NEW q \in Queued
  PROVE  q \in Job /\ q.blockno \in Blocks /\ q.start \in Nat /\ q.dofs \in 1..Most
<1>1. PICK i \in 1..Len(job_q) : q = job_q[i]
  BY DEF Queued
<1>2. q \in Job
  BY <1>1
<1>3. QED BY <1>2 DEF Job

(* A block that has a job, or that send_segs is on, is not empty unless it *)
(* was freed, and then it stays empty.                                     *)
LEMMA LenStep == LocksInv /\ [Next]_vars => LenInv'
<1> SUFFICES ASSUME LocksInv, [Next]_vars PROVE LenInv'
  OBVIOUS
<1>0. BlockTypes /\ QueueTypes /\ ThreadTypes /\ Stages /\ LockInv /\ SrvInv /\ LenInv
  BY DEF LocksInv, TypeInv
<1>r. at[Srv] \in Blocks /\ curr_block \in Nat /\ job_q \in Seq(Job) /\ (\A b \in Blocks : len[b] \in Nat /\ b \in Nat)
  BY <1>0, Reads, ThreadFacts, BlockFacts DEF BlockTypes, QueueTypes
<1>1. ASSUME curr_block' = curr_block, len' = len, job_q' = job_q,
             pc'[Srv] = "ack_qfree" <=> pc[Srv] = "ack_qfree",
             \A w \in Workers : at'[w] = at[w] /\ (pc'[w] \in Busy => pc[w] \in Busy),
             pc'[Srv] \in InSegs => len[at'[Srv]] > 0
      PROVE  LenInv'
  BY <1>0, <1>1 DEF LenInv, Alive, Queued
<1>2. CASE SendCtcp \/ SendLock
  <2>1. /\ curr_block' = curr_block /\ len' = len /\ job_q' = job_q /\ pc'[Srv] = pc[Srv] /\ at'[Srv] = at[Srv]
        /\ \A w \in Workers : at'[w] = at[w] /\ pc'[w] = pc[w]
    BY <1>0, <1>2, ThreadFacts DEF SendCtcp, SendLock, Go, ThreadTypes, blocks, queues
  <2>2. QED BY <1>0, <1>1, <2>1 DEF LenInv
<1>3. ASSUME NEW d \in 1..MaxDofs, NEW n \in BOOLEAN, NEW r \in BOOLEAN, SendAdd(d, n, r) PROVE LenInv'
  <2> DEFINE j == [blockno |-> maxblockno, start |-> len[maxblockno] + 1, dofs |-> d]
  <2>1. /\ curr_block' = curr_block /\ pc'[Srv] = pc[Srv] /\ at' = at /\ job_q' = Append(job_q, j)
        /\ len' = [len EXCEPT ![maxblockno] = @ + d] /\ \A w \in Workers : pc'[w] = pc[w]
    BY <1>0, <1>3, ThreadFacts DEF SendAdd, Go, ThreadTypes
  <2>2. pc[Srv] # "ack_qfree"
    BY <1>0, <1>3, ThreadFacts DEF SendAdd, LockInv, InAck
  <2>3. Alive(maxblockno) /\ maxblockno \in Blocks
    BY <1>0, <2>2 DEF Alive, BlockTypes
  <2>4. \A b \in Blocks : len'[b] >= len[b] /\ (b # maxblockno => len'[b] = len[b])
    BY <1>r, <2>1, <1>0, Numbers, SMTT(30) DEF QueueTypes
  <2>5. len'[maxblockno] > 0
    BY <1>r, <2>1, <2>3, <1>0, Numbers DEF QueueTypes
  <2>6. Queued' = Queued \cup {j} /\ j.blockno = maxblockno
    BY <1>r, <2>1, QueuedSteps
  <2>7. \A b \in Blocks : Alive(b)' = Alive(b) /\ len'[b] \in Nat
    BY <2>1, QueueTypesStep DEF Alive, QueueTypes
  <2>8. \A q \in Queued : q.blockno \in Blocks
    BY <1>r, QueuedJobs
  <2>9. \A w \in Workers : at[w] \in Blocks
    BY Reads, ThreadFacts
  <2>10. QED
    <3>1. \A b \in Blocks : ~Alive(b)' => len'[b] = 0
      BY <1>0, <2>3, <2>4, <2>7 DEF LenInv
    <3>2. \A q \in Queued' : Alive(q.blockno)' => len'[q.blockno] > 0
      BY <1>0, <1>r, <2>4, <2>5, <2>6, <2>7, <2>8 DEF LenInv
    <3>3. \A w \in Workers : pc'[w] \in Busy /\ Alive(at[w])' => len'[at[w]] > 0
      BY <1>0, <1>r, <2>1, <2>4, <2>7, <2>9 DEF LenInv
    <3>4. pc'[Srv] \in InSegs => len'[at'[Srv]] > 0
      BY <1>0, <1>r, <2>1, <2>4, <2>7 DEF LenInv
    <3>5. QED BY <2>1, <3>1, <3>2, <3>3, <3>4 DEF LenInv, Alive
<1>4. ASSUME NEW w \in Workers, TakeJob(w) PROVE LenInv'
  <2>1. /\ curr_block' = curr_block /\ len' = len /\ job_q # <<>> /\ job_q' = Tail(job_q)
        /\ pc'[Srv] = pc[Srv] /\ at'[Srv] = at[Srv] /\ at'[w] = Head(job_q).blockno
        /\ \A v \in Workers \ {w} : at'[v] = at[v] /\ pc'[v] = pc[v]
    BY <1>0, <1>4, ThreadFacts DEF TakeJob, Go, ThreadTypes, blocks
  <2>2. Head(job_q) \in Queued /\ Queued' \subseteq Queued
    BY <1>r, <2>1, QueuedSteps
  <2>3. QED BY <1>0, <2>1, <2>2 DEF LenInv, Alive
<1>5. ASSUME NEW w \in Workers, CodeCheck(w) \/ CodeLock(w) \/ CodePush(w) \/ CodeDone(w) PROVE LenInv'
  <2>1. /\ curr_block' = curr_block /\ len' = len /\ job_q' = job_q /\ pc'[Srv] = pc[Srv] /\ at' = at
        /\ \A v \in Workers : pc'[v] \in Busy => pc[v] \in Busy
    BY <1>0, <1>5, ThreadFacts DEF CodeCheck, CodeLock, CodePush, CodeDone, Go, ThreadTypes, blocks, queues, Busy
  <2>2. QED BY <1>0, <1>1, <2>1 DEF LenInv
<1>6. ASSUME NEW b \in curr_block..maxblockno, NEW n \in 1..MaxNeed, SendSegs(b, n) PROVE LenInv'
  <2>1. /\ curr_block' = curr_block /\ len' = len /\ job_q' = job_q /\ pc[Srv] = "idle" /\ pc'[Srv] = "segs_lock"
        /\ at'[Srv] = b /\ len[b] > 0 /\ \A v \in Workers : at'[v] = at[v] /\ pc'[v] = pc[v]
    BY <1>0, <1>6, ThreadFacts DEF SendSegs, Go, ThreadTypes, blocks, queues
  <2>2. QED BY <1>1, <2>1
<1>7. CASE SegsLock \/ SegsLoop \/ SegsPop \/ SegsRelock
  <2>1. /\ curr_block' = curr_block /\ len' = len /\ job_q' = job_q /\ at' = at
        /\ pc[Srv] \in InSegs /\ pc'[Srv] # "ack_qfree" /\ \A v \in Workers : pc'[v] = pc[v]
    BY <1>0, <1>7, ThreadFacts DEF SegsLock, SegsLoop, SegsPop, SegsRelock, Go, ThreadTypes, blocks, queues, InSegs
  <2>2. QED BY <1>0, <1>1, <2>1 DEF LenInv, InSegs
<1>8. CASE SegsAdd
  <2> DEFINE j == [blockno |-> at[Srv], start |-> 0, dofs |-> left[Srv] - dof_remain[at[Srv]]]
  <2>1. /\ curr_block' = curr_block /\ len' = len /\ at' = at /\ pc[Srv] = "segs_add" /\ pc'[Srv] = "segs_loop"
        /\ job_q' = Append(job_q, j) \/ job_q' = <<j>> \o job_q
        /\ \A v \in Workers : pc'[v] = pc[v]
    BY <1>0, <1>8, ThreadFacts DEF SegsAdd, Go, ThreadTypes, blocks
  <2>2. Queued' = Queued \cup {j} /\ j.blockno = at[Srv]
    BY <1>r, <2>1, QueuedSteps
  <2>3. len[at[Srv]] > 0
    BY <1>0, <2>1 DEF LenInv, InSegs
  <2>4. QED BY <1>0, <2>1, <2>2, <2>3 DEF LenInv, Alive
<1>9. CASE (\E a \in BOOLEAN : AckLock(a)) \/ AckNote
  <2>1. /\ curr_block' = curr_block /\ len' = len /\ job_q' = job_q /\ pc[Srv] # "ack_qfree"
        /\ pc'[Srv] \in {"idle", "ack_free", "ack_note"} /\ \A v \in Workers : at'[v] = at[v] /\ pc'[v] = pc[v]
    BY <1>0, <1>9, ThreadFacts DEF AckLock, AckNote, Go, ThreadTypes, blocks, queues
  <2>2. QED BY <1>1, <2>1 DEF InSegs
<1>10. CASE AckFree
  <2>1. /\ curr_block' = curr_block /\ len' = [len EXCEPT ![curr_block] = 0] /\ job_q' = job_q /\ at' = at
        /\ pc[Srv] = "ack_free" /\ pc'[Srv] = "ack_qfree" /\ \A v \in Workers : pc'[v] = pc[v]
    BY <1>0, <1>10, ThreadFacts DEF AckFree, Go, ThreadTypes, blocks
  <2>2. \A b \in Blocks : len'[b] = IF b = curr_block THEN 0 ELSE len[b]
    BY <1>0, <2>1 DEF QueueTypes
  <2>3. \A b \in Blocks : Alive(b)' <=> Alive(b) /\ b # curr_block
    BY <2>1 DEF Alive
  <2>4. \A q \in Queued : q.blockno \in Blocks
    BY <1>r, QueuedJobs
  <2>5. \A w \in Workers : at[w] \in Blocks
    BY Reads, ThreadFacts
  <2>6. Queued' = Queued
    BY <2>1 DEF Queued
  <2>7. QED
    <3>1. \A b \in Blocks : ~Alive(b)' => len'[b] = 0
      BY <1>0, <2>2, <2>3 DEF LenInv
    <3>2. \A q \in Queued' : Alive(q.blockno)' => len'[q.blockno] > 0
      BY <1>0, <2>2, <2>3, <2>4, <2>6 DEF LenInv
    <3>3. \A w \in Workers : pc'[w] \in Busy /\ Alive(at[w])' => len'[at[w]] > 0
      BY <1>0, <2>1, <2>2, <2>3, <2>5 DEF LenInv
    <3>4. QED BY <2>1, <3>1, <3>2, <3>3 DEF LenInv, Alive, InSegs
<1>11. ASSUME NEW a \in BOOLEAN, AckQFree(a) PROVE LenInv'
  <2>1. /\ curr_block' = curr_block + 1 /\ len' = len /\ job_q' = job_q /\ \A v \in Workers : at'[v] = at[v] /\ pc'[v] = pc[v]
        /\ pc[Srv] = "ack_qfree" /\ pc'[Srv] \in {"ack_free", "ack_note"}
    BY <1>0, <1>11, ThreadFacts DEF AckQFree, Go, ThreadTypes
  <2>2. \A b \in Blocks : Alive(b)' = Alive(b)
    BY <1>r, <2>1 DEF Alive
  <2>4. \A q \in Queued : q.blockno \in Blocks
    BY <1>r, QueuedJobs
  <2>5. \A w \in Workers : at[w] \in Blocks
    BY Reads, ThreadFacts
  <2>6. Queued' = Queued
    BY <2>1 DEF Queued
  <2>7. QED
    <3>1. \A b \in Blocks : ~Alive(b)' => len'[b] = 0
      BY <1>0, <2>1, <2>2 DEF LenInv
    <3>2. \A q \in Queued' : Alive(q.blockno)' => len'[q.blockno] > 0
      BY <1>0, <2>1, <2>2, <2>4, <2>6 DEF LenInv
    <3>3. \A w \in Workers : pc'[w] \in Busy /\ Alive(at[w])' => len'[at[w]] > 0
      BY <1>0, <2>1, <2>2, <2>5 DEF LenInv
    <3>4. QED BY <2>1, <3>1, <3>2, <3>3 DEF LenInv, Alive, InSegs
<1>12. CASE UNCHANGED vars
  BY <1>0, <1>1, <1>12 DEF vars, LenInv
<1>13. QED BY <1>2, <1>3, <1>4, <1>5, <1>6, <1>7, <1>8, <1>9, <1>10, <1>11, <1>12 DEF Next, Sending, Coding, Segs, Ack

(* A step that changes neither the queues nor what the workers have to do. *)
LEMMA DofKept ==
  ASSUME DofInv, UNCHANGED <<job_q, coded_q, dof_remain, curr_block>>,
         \A u \in Workers : pc'[u] = pc[u] /\ at'[u] = at[u] /\ left'[u] = left[u],
         \A b \in Blocks : InHand(b)' = InHand(b)
  PROVE  DofInv'
<1>1. \A b \in Blocks : BeingCoded(b)' = BeingCoded(b)
  BY TokensSame
<1>2. \A b \in Blocks : Pending(b)' = Pending(b)
  BY <1>1 DEF Pending
<1>3. QED BY <1>2 DEF DofInv

(* No step makes dof_remain promise more than there will be: this is what  *)
(* lets send_segs wait for a packet with nothing but dof_remain to go by.  *)
LEMMA DofStep == LocksInv /\ [Next]_vars => DofInv'
<1> SUFFICES ASSUME LocksInv, [Next]_vars PROVE DofInv'
  OBVIOUS
<1>0. BlockTypes /\ QueueTypes /\ ThreadTypes /\ ThreadTypes' /\ QueueTypes' /\ Stages /\ LockInv /\ SrvInv /\ LenInv /\ DofInv
  BY ThreadTypesStep, QueueTypesStep DEF LocksInv, TypeInv
<1>r. at[Srv] \in Blocks /\ left[Srv] \in Nat /\ curr_block \in Nat /\ job_q \in Seq(Job) /\ (\A b \in Blocks : b \in Nat)
  BY <1>0, Reads, ThreadFacts, BlockFacts DEF BlockTypes, QueueTypes
<1>n. ASSUME NEW b \in Blocks
      PROVE  /\ Cardinality(JobTokens(job_q, b)) \in Nat /\ BeingCoded(b) \in Nat
             /\ Cardinality(JobTokens(job_q', b)) \in Nat /\ BeingCoded(b)' \in Nat
             /\ dof_remain[b] \in Nat /\ coded_q[b] \in Nat /\ dof_remain'[b] \in Nat /\ coded_q'[b] \in Nat
             /\ InHand(b) \in {0, 1} /\ InHand(b)' \in {0, 1}
  <2>1. Cardinality(JobTokens(job_q, b)) \in Nat /\ Cardinality(JobTokens(job_q', b)) \in Nat
    BY <1>0, JobTokensFinite DEF QueueTypes
  <2>2. BeingCoded(b) \in Nat /\ BeingCoded(b)' \in Nat
    BY WorkTokensFinite DEF BeingCoded
  <2>3. QED BY <1>0, <2>1, <2>2 DEF QueueTypes, InHand
<1>d. ASSUME NEW b \in Blocks, b >= curr_block
      PROVE  dof_remain[b] <= coded_q[b] + (Cardinality(JobTokens(job_q, b)) + BeingCoded(b)) + InHand(b)
  BY <1>0, <1>d DEF DofInv, Pending
<1>s. SUFFICES ASSUME NEW b \in Blocks, b >= curr_block'
               PROVE  dof_remain'[b] <= coded_q'[b] + (Cardinality(JobTokens(job_q', b)) + BeingCoded(b)') + InHand(b)'
  BY DEF DofInv, Pending
<1> DEFINE J  == Cardinality(JobTokens(job_q, b))
           J1 == Cardinality(JobTokens(job_q', b))
<1>1. CASE SendCtcp \/ SendLock
  <2>1. /\ UNCHANGED <<job_q, coded_q, dof_remain, curr_block, left>> /\ pc'[Srv] = pc[Srv] /\ at'[Srv] = at[Srv]
        /\ \A u \in Workers : pc'[u] = pc[u] /\ at'[u] = at[u]
    BY <1>0, <1>1, ThreadFacts DEF SendCtcp, SendLock, Go, ThreadTypes, blocks, queues
  <2>2. QED BY <1>0, <1>s, <2>1, DofKept DEF InHand, DofInv, Pending
<1>2. ASSUME NEW d \in 1..MaxDofs, NEW n \in BOOLEAN, NEW r \in BOOLEAN, SendAdd(d, n, r) PROVE DofInv'
  <2> DEFINE j == [blockno |-> maxblockno, start |-> len[maxblockno] + 1, dofs |-> d]
  <2>1. /\ UNCHANGED <<coded_q, curr_block, left, at>> /\ pc'[Srv] = pc[Srv]
        /\ \A u \in Workers : pc'[u] = pc[u] /\ at'[u] = at[u] /\ left'[u] = left[u]
        /\ job_q' = Append(job_q, j)
        /\ dof_remain' = [dof_remain EXCEPT ![maxblockno] = @ + d]
    BY <1>0, <1>2, ThreadFacts DEF SendAdd, Go, ThreadTypes
  <2>2. j \in Job
    BY Jobs
  <2>3. ASSUME NEW c \in Blocks, c >= curr_block'
        PROVE  dof_remain'[c] <= coded_q'[c] + (Cardinality(JobTokens(job_q', c)) + BeingCoded(c)') + InHand(c)'
    <3>1. Cardinality(JobTokens(job_q', c)) = Cardinality(JobTokens(job_q, c)) + Own(j, c)
      BY <1>r, <2>1, <2>2, TokensAppended
    <3>2. BeingCoded(c)' = BeingCoded(c) /\ InHand(c)' = InHand(c)
      BY <2>1, TokensSame DEF InHand
    <3>3. Own(j, c) = IF c = maxblockno THEN d ELSE 0
      BY DEF Own
    <3>4. dof_remain'[c] = IF c = maxblockno THEN dof_remain[c] + d ELSE dof_remain[c]
      BY <1>0, <2>1 DEF QueueTypes
    <3>5. coded_q'[c] = coded_q[c] /\ c >= curr_block
      BY <2>1, <2>3
    <3> HIDE DEF j
    <3>6. QED BY <1>n, <1>d, <3>1, <3>2, <3>3, <3>4, <3>5, Numbers
  <2>4. QED BY <2>3 DEF DofInv, Pending
<1>3. ASSUME NEW w \in Workers, Coding(w), \A c \in Blocks : InHand(c)' = InHand(c) PROVE DofInv'
  <2>0. w \in Threads /\ left[w] \in Nat /\ at[w] \in Blocks
    BY Reads, ThreadFacts
  <2>1. CASE TakeJob(w)
    <3>1. /\ UNCHANGED <<coded_q, dof_remain, curr_block>> /\ job_q # <<>> /\ job_q' = Tail(job_q)
          /\ pc[w] = "idle" /\ pc'[w] = "code_check" /\ at'[w] = Head(job_q).blockno /\ left'[w] = Head(job_q).dofs
          /\ \A u \in Workers \ {w} : pc'[u] = pc[u] /\ at'[u] = at[u] /\ left'[u] = left[u]
      BY <1>0, <2>0, <2>1, ThreadFacts DEF TakeJob, Go, ThreadTypes, blocks
    <3>2. ASSUME NEW c \in Blocks, c >= curr_block'
          PROVE  dof_remain'[c] <= coded_q'[c] + (Cardinality(JobTokens(job_q', c)) + BeingCoded(c)') + InHand(c)'
      <4>1. Cardinality(JobTokens(job_q, c)) = Cardinality(JobTokens(job_q', c)) + Own(Head(job_q), c)
        BY <1>r, <3>1, TokensTaken
      <4>2. BeingCoded(c)' + Mine(pc, at, left, w, c) = BeingCoded(c) + Mine(pc', at', left', w, c)
        BY <1>0, <3>1, TokensStep
      <4>3. Mine(pc, at, left, w, c) = 0 /\ Mine(pc', at', left', w, c) = Own(Head(job_q), c)
        BY <3>1 DEF Mine, Own, Busy
      <4>4. Head(job_q) \in Job
        BY <1>r, <3>1
      <4>5. Own(Head(job_q), c) \in Nat
        BY <4>4, Numbers DEF Own, Job
      <4>6. QED BY <1>3, <1>n, <1>d, <3>1, <3>2, <4>1, <4>2, <4>3, <4>5
    <3>3. QED BY <3>2 DEF DofInv, Pending
  <2>2. CASE CodeCheck(w) \/ CodeLock(w) \/ CodeDone(w)
    <3>1. /\ UNCHANGED <<job_q, coded_q, dof_remain, curr_block, at, left>>
          /\ pc[w] \in Busy
          /\ \A u \in Workers \ {w} : pc'[u] = pc[u] /\ at'[u] = at[u] /\ left'[u] = left[u]
      BY <1>0, <2>0, <2>2, ThreadFacts DEF CodeCheck, CodeLock, CodeDone, Go, ThreadTypes, blocks, queues, Busy
    <3>2. at[w] < curr_block \/ left[w] = 0 \/ pc'[w] \in Busy
      <4>1. CASE CodeCheck(w)
        BY <1>0, <2>0, <4>1 DEF CodeCheck, Go, ThreadTypes, Busy
      <4>2. CASE CodeDone(w)
        BY <4>2 DEF CodeDone
      <4>3. CASE CodeLock(w) /\ len[at[w]] > 0
        BY <1>0, <2>0, <4>3 DEF CodeLock, Go, ThreadTypes, Busy
      <4>4. CASE CodeLock(w) /\ ~(len[at[w]] > 0)
        <5>1. ~Alive(at[w])
          BY <1>0, <3>1, <4>4 DEF LenInv
        <5>2. block_mutex[at[w]] = None
          BY <2>0, <4>4 DEF CodeLock, LockBlock
        <5>3. ~(pc[Srv] = "ack_qfree" /\ at[w] = at[Srv])
          BY <1>0, <1>r, <5>2, ThreadFacts DEF LockInv, HolderInv, Holding
        <5>4. pc[Srv] = "ack_qfree" => at[Srv] = curr_block
          BY <1>0 DEF SrvInv, InAck
        <5>5. QED BY <1>r, <2>0, <5>1, <5>3, <5>4 DEF Alive
      <4>5. QED BY <2>2, <4>1, <4>2, <4>3, <4>4
    <3>3. ASSUME NEW c \in Blocks, c >= curr_block'
          PROVE  dof_remain'[c] <= coded_q'[c] + (Cardinality(JobTokens(job_q', c)) + BeingCoded(c)') + InHand(c)'
      <4>1. BeingCoded(c)' + Mine(pc, at, left, w, c) = BeingCoded(c) + Mine(pc', at', left', w, c)
        BY <1>0, <3>1, TokensStep
      <4>2. Mine(pc, at, left, w, c) = Mine(pc', at', left', w, c) /\ Mine(pc, at, left, w, c) \in Nat
        BY <1>r, <2>0, <3>1, <3>2, <3>3 DEF Mine
      <4>3. QED BY <1>3, <1>n, <1>d, <3>1, <3>3, <4>1, <4>2
    <3>4. QED BY <3>3 DEF DofInv, Pending
  <2>3. CASE CodePush(w)
    <3>1. /\ UNCHANGED <<job_q, dof_remain, curr_block, at, pc>> /\ pc[w] \in Busy
          /\ coded_q' = [coded_q EXCEPT ![at[w]] = @ + 1] /\ left[w] > 0 /\ left'[w] = left[w] - 1
          /\ \A u \in Workers \ {w} : pc'[u] = pc[u] /\ at'[u] = at[u] /\ left'[u] = left[u]
      BY <1>0, <2>0, <2>3, ThreadFacts DEF CodePush, ThreadTypes, blocks, Busy
    <3>2. ASSUME NEW c \in Blocks, c >= curr_block'
          PROVE  dof_remain'[c] <= coded_q'[c] + (Cardinality(JobTokens(job_q', c)) + BeingCoded(c)') + InHand(c)'
      <4>1. BeingCoded(c)' + Mine(pc, at, left, w, c) = BeingCoded(c) + Mine(pc', at', left', w, c)
        BY <1>0, <3>1, TokensStep
      <4>2. coded_q'[c] = IF c = at[w] THEN coded_q[c] + 1 ELSE coded_q[c]
        BY <1>0, <3>1 DEF QueueTypes
      <4>3. /\ Mine(pc, at, left, w, c) = IF c = at[w] THEN left[w] ELSE 0
            /\ Mine(pc', at', left', w, c) = IF c = at[w] THEN left[w] - 1 ELSE 0
        BY <3>1 DEF Mine
      <4>4. QED BY <1>3, <1>n, <1>d, <2>0, <3>1, <3>2, <4>1, <4>2, <4>3
    <3>3. QED BY <3>2 DEF DofInv, Pending
  <2>4. QED BY <1>3, <2>1, <2>2, <2>3 DEF Coding
<1>4. ASSUME NEW c \in curr_block..maxblockno, NEW n \in 1..MaxNeed, SendSegs(c, n) PROVE DofInv'
  <2>1. /\ UNCHANGED <<job_q, coded_q, dof_remain, curr_block>> /\ pc[Srv] = "idle" /\ pc'[Srv] = "segs_lock"
        /\ \A u \in Workers : pc'[u] = pc[u] /\ at'[u] = at[u] /\ left'[u] = left[u]
    BY <1>0, <1>4, ThreadFacts DEF SendSegs, Go, ThreadTypes, blocks, queues
  <2>2. QED BY <1>0, <2>1, DofKept DEF InHand
<1>5. CASE SegsLock \/ SegsLoop
  <2>1. /\ UNCHANGED <<job_q, coded_q, dof_remain, curr_block, at, left>>
        /\ pc[Srv] # "segs_relock" /\ pc'[Srv] # "segs_relock"
        /\ \A u \in Workers : pc'[u] = pc[u]
    BY <1>0, <1>5, ThreadFacts DEF SegsLock, SegsLoop, Go, ThreadTypes, blocks, queues
  <2>2. DofInv'
    BY <1>0, <2>1, DofKept DEF InHand
  <2>3. QED BY <1>s, <2>2 DEF DofInv, Pending
<1>6. CASE SegsAdd
  <2> DEFINE j == [blockno |-> at[Srv], start |-> 0, dofs |-> left[Srv] - dof_remain[at[Srv]]]
  <2>1. /\ UNCHANGED <<coded_q, curr_block, left, at>> /\ pc[Srv] = "segs_add" /\ pc'[Srv] = "segs_loop"
        /\ \A u \in Workers : pc'[u] = pc[u] /\ at'[u] = at[u] /\ left'[u] = left[u]
        /\ job_q' = Append(job_q, j) \/ job_q' = <<j>> \o job_q
        /\ dof_remain' = [dof_remain EXCEPT ![at[Srv]] = left[Srv]]
    BY <1>0, <1>6, ThreadFacts DEF SegsAdd, Go, ThreadTypes, blocks
  <2>2. j \in Job
    BY <2>1, Jobs
  <2>3. J1 = J + Own(j, b)
    BY <1>r, <2>1, <2>2, TokensAppended, TokensPrepended, ZenonT(60)
  <2>4. BeingCoded(b)' = BeingCoded(b) /\ InHand(b)' = 0 /\ InHand(b) = 0
    BY <2>1, TokensSame DEF InHand
  <2>5. dof_remain[at[Srv]] \in Nat
    BY Reads, ThreadFacts
  <2>6. Own(j, b) = IF b = at[Srv] THEN left[Srv] - dof_remain[at[Srv]] ELSE 0
    BY DEF Own
  <2>7. dof_remain'[b] = IF b = at[Srv] THEN left[Srv] ELSE dof_remain[b]
    BY <1>0, <2>1 DEF QueueTypes
  <2>8. coded_q'[b] = coded_q[b] /\ b >= curr_block
    BY <1>s, <2>1
  <2> HIDE DEF j
  <2> HIDE DEF J, J1
  <2>9. dof_remain[b] <= coded_q[b] + (J + BeingCoded(b)) + InHand(b) /\ J \in Nat
    BY <1>d, <1>n, <2>8 DEF J
  <2>10. dof_remain'[b] <= coded_q'[b] + (J1 + BeingCoded(b)') + InHand(b)'
    <3>0. BeingCoded(b) \in Nat /\ dof_remain[b] \in Nat /\ coded_q[b] \in Nat /\ left[Srv] \in Nat
      BY <1>n, <1>r
    <3>1. CASE b = at[Srv]
      <4>1. J1 = J + (left[Srv] - dof_remain[b]) /\ dof_remain'[b] = left[Srv]
        BY <2>3, <2>6, <2>7, <3>1
      <4>2. dof_remain[b] <= coded_q[b] + (J + BeingCoded(b))
        BY <2>4, <2>9, <3>0
      <4>3. left[Srv] <= coded_q[b] + ((J + (left[Srv] - dof_remain[b])) + BeingCoded(b))
        BY <2>9, <3>0, <4>2
      <4>4. QED BY <2>4, <2>8, <2>9, <3>0, <4>1, <4>3
    <3>2. CASE b # at[Srv]
      <4>1. J1 = J + 0 /\ dof_remain'[b] = dof_remain[b]
        BY <2>3, <2>6, <2>7, <3>2
      <4>2. QED BY <2>4, <2>8, <2>9, <3>0, <4>1
    <3>3. QED BY <3>1, <3>2
  <2>11. QED BY <2>10 DEF J1
<1>7. CASE SegsPop
  <2>1. /\ UNCHANGED <<job_q, dof_remain, curr_block, at>> /\ pc[Srv] = "segs_pop" /\ pc'[Srv] = "segs_relock"
        /\ \A u \in Workers : pc'[u] = pc[u] /\ at'[u] = at[u] /\ left'[u] = left[u]
        /\ coded_q' = [coded_q EXCEPT ![at[Srv]] = @ - 1]
    BY <1>0, <1>7, ThreadFacts DEF SegsPop, Go, ThreadTypes, blocks
  <2>2. BeingCoded(b)' = BeingCoded(b) /\ InHand(b)' = (IF b = at[Srv] THEN 1 ELSE 0) /\ InHand(b) = 0
    BY <2>1, TokensSame DEF InHand
  <2>3. coded_q'[b] = IF b = at[Srv] THEN coded_q[b] - 1 ELSE coded_q[b]
    BY <1>0, <2>1 DEF QueueTypes
  <2>4. QED BY <1>n, <1>d, <1>s, <2>1, <2>2, <2>3
<1>8. CASE SegsRelock
  <2>1. /\ UNCHANGED <<job_q, coded_q, curr_block, at>> /\ pc[Srv] = "segs_relock" /\ pc'[Srv] = "segs_loop"
        /\ \A u \in Workers : pc'[u] = pc[u] /\ at'[u] = at[u] /\ left'[u] = left[u]
        /\ dof_remain' = [dof_remain EXCEPT ![at[Srv]] = @ - 1]
    BY <1>0, <1>8, ThreadFacts DEF SegsRelock, Go, ThreadTypes, blocks
  <2>2. BeingCoded(b)' = BeingCoded(b) /\ InHand(b) = (IF b = at[Srv] THEN 1 ELSE 0) /\ InHand(b)' = 0
    BY <2>1, TokensSame DEF InHand
  <2>3. dof_remain'[b] = IF b = at[Srv] THEN dof_remain[b] - 1 ELSE dof_remain[b]
    BY <1>0, <2>1 DEF QueueTypes
  <2>4. QED BY <1>n, <1>d, <1>s, <2>1, <2>2, <2>3
<1>9. CASE (\E a \in BOOLEAN : AckLock(a)) \/ AckNote \/ AckFree
  <2>1. /\ UNCHANGED <<job_q, coded_q, dof_remain, curr_block, left>>
        /\ pc[Srv] # "segs_relock" /\ pc'[Srv] # "segs_relock"
        /\ \A u \in Workers : pc'[u] = pc[u] /\ at'[u] = at[u]
    BY <1>0, <1>9, ThreadFacts DEF AckLock, AckNote, AckFree, Go, ThreadTypes, blocks, queues
  <2>2. DofInv'
    BY <1>0, <2>1, DofKept DEF InHand
  <2>3. QED BY <1>s, <2>2 DEF DofInv, Pending
<1>10. ASSUME NEW a \in BOOLEAN, AckQFree(a) PROVE DofInv'
  <2>1. /\ UNCHANGED <<job_q, left>> /\ curr_block' = curr_block + 1
        /\ pc[Srv] # "segs_relock" /\ pc'[Srv] # "segs_relock"
        /\ \A u \in Workers : pc'[u] = pc[u] /\ at'[u] = at[u] /\ left'[u] = left[u]
        /\ coded_q' = [coded_q EXCEPT ![curr_block] = 0] /\ dof_remain' = [dof_remain EXCEPT ![curr_block] = 0]
    BY <1>0, <1>10, ThreadFacts DEF AckQFree, Go, ThreadTypes
  <2>2. ASSUME NEW c \in Blocks, c >= curr_block'
        PROVE  dof_remain'[c] <= coded_q'[c] + (Cardinality(JobTokens(job_q', c)) + BeingCoded(c)') + InHand(c)'
    <3>1. BeingCoded(c)' = BeingCoded(c) /\ InHand(c)' = InHand(c)
      BY <2>1, TokensSame DEF InHand
    <3>2. c # curr_block /\ c >= curr_block
      BY <1>r, <2>1, <2>2
    <3>3. coded_q'[c] = coded_q[c] /\ dof_remain'[c] = dof_remain[c]
      BY <1>0, <2>1, <3>2 DEF QueueTypes
    <3>4. QED BY <1>d, <2>1, <3>1, <3>2, <3>3
  <2>3. QED BY <2>2 DEF DofInv, Pending
<1>11. CASE UNCHANGED vars
  <2>1. DofInv'
    BY <1>0, <1>11, DofKept DEF vars, InHand
  <2>2. QED BY <1>s, <2>1 DEF DofInv, Pending
<1>12. \A w \in Workers : Coding(w) => \A c \in Blocks : InHand(c)' = InHand(c)
  BY <1>0, ThreadFacts DEF Coding, TakeJob, CodeCheck, CodeLock, CodePush, CodeDone, Go, ThreadTypes, InHand
<1>13. CASE DofInv'
  BY <1>s, <1>13 DEF DofInv, Pending
<1>14. QED BY <1>1, <1>2, <1>3, <1>4, <1>5, <1>6, <1>7, <1>8, <1>9, <1>10, <1>11, <1>12, <1>13
           DEF Next, Sending, Segs, Ack

LEMMA LocksStep == LocksInv /\ [Next]_vars => LocksInv'
BY TypeStep, LockStep, SrvStep, LenStep, DofStep DEF LocksInv

(* In a state of LocksInv in which nobody can go on, somebody waits for    *)
(* room: no block mutex is held, so nobody waits for one or for            *)
(* curr_block_mutex; every worker is idle and has no job; then coded_q     *)
(* holds all that dof_remain promises to send_segs.                        *)
LEMMA WhoWaits ==
  LocksInv /\ (\A t \in Threads : ~WaitsForRoom(t)) => DeadlockFree
<1> SUFFICES ASSUME LocksInv, \A t \in Threads : ~WaitsForRoom(t), \A t \in Threads : ~CanStep(t)
             PROVE  \A t \in Threads : pc[t] = "idle"
  BY DEF DeadlockFree
<1>0. MutexTypes /\ BlockTypes /\ QueueTypes /\ ThreadTypes /\ Stages /\ LockInv /\ SrvInv /\ DofInv
  BY DEF LocksInv, TypeInv
<1>1. \A t \in Threads : pc[t] \notin Holding
  <2> SUFFICES ASSUME NEW t \in Threads, pc[t] \in Holding PROVE FALSE
    OBVIOUS
  <2>0. left[t] \in Nat /\ coded_q[at[t]] \in Nat /\ Len(job_q) \in Nat
    BY <1>0, Reads DEF QueueTypes
  <2>1. CASE pc[t] \in {"segs_loop", "ack_qfree"}
    BY <2>1 DEF CanStep
  <2>2. CASE pc[t] \in {"send_add", "segs_add"}
    <3>1. ~(Len(job_q) < JobCap)
      BY <2>2 DEF CanStep
    <3>2. ~(Len(job_q) >= JobCap)
      BY <2>2 DEF WaitsForRoom
    <3>3. QED BY <2>0, <3>1, <3>2, Numbers
  <2>3. CASE pc[t] = "code_push"
    <3>1. ~(left[t] = 0 \/ coded_q[at[t]] < QCap)
      BY <2>3 DEF CanStep
    <3>2. ~(left[t] > 0 /\ coded_q[at[t]] >= QCap)
      BY <2>3 DEF WaitsForRoom
    <3>3. QED BY <2>0, <3>1, <3>2, Numbers
  <2>4. QED BY <2>1, <2>2, <2>3 DEF Holding
<1>2. \A b \in Blocks : block_mutex[b] = None
  BY <1>0, <1>1 DEF LockInv, HolderInv, MutexTypes
<1>3. \A t \in Threads : pc[t] \notin {"code_lock", "segs_lock", "segs_relock", "ack_free", "ack_note"}
  <2> SUFFICES ASSUME NEW t \in Threads, pc[t] \in {"code_lock", "segs_lock", "segs_relock", "ack_free", "ack_note"}
               PROVE  FALSE
    OBVIOUS
  <2>1. block_mutex[at[t]] = None
    BY <1>2, Reads
  <2>2. QED BY <2>1 DEF CanStep
<1>4. pc[App] = "idle"
  <2>1. pc[App] # "send_lock"
    BY <1>0, <1>2, ThreadFacts DEF CanStep, BlockTypes
  <2>2. QED BY <1>0, <1>1, <2>1, ThreadFacts DEF Stages, Holding
<1>5. pc[Srv] \in {"idle", "segs_pop"}
  BY <1>0, <1>1, <1>3, ThreadFacts DEF Stages, InSegs, InAck, Holding
<1>6. curr_block_mutex = None
  BY <1>0, <1>4, <1>5 DEF LockInv, MutexTypes, InAck
<1>7. \A w \in Workers : pc[w] = "idle"
  <2> SUFFICES ASSUME NEW w \in Workers PROVE pc[w] = "idle"
    OBVIOUS
  <2>1. pc[w] # "code_check"
    BY <1>6, ThreadFacts DEF CanStep
  <2>2. QED BY <1>0, <1>1, <1>3, <2>1, ThreadFacts DEF Stages, Busy, Holding
<1>8. job_q = <<>>
  <2>1. PICK w \in Workers : TRUE
    BY ThreadAssumption
  <2>2. QED BY <1>7, <2>1, ThreadFacts DEF CanStep
<1>9. pc[Srv] # "segs_pop"
  <2> SUFFICES ASSUME pc[Srv] = "segs_pop" PROVE FALSE
    OBVIOUS
  <2> DEFINE b == at[Srv]
  <2>1. b \in Blocks /\ b >= curr_block /\ dof_remain[b] >= 1 /\ dof_remain[b] \in Nat /\ coded_q[b] \in Nat
    BY <1>0, Reads, ThreadFacts DEF SrvInv, InSegs
  <2>2. JobTokens(job_q, b) = {} /\ WorkTokens(pc, at, left, b) = {}
    BY <1>7, <1>8 DEF JobTokens, WorkTokens, Busy
  <2>3. Pending(b) = 0 /\ InHand(b) = 0
    BY <2>2, FS_EmptySet DEF Pending, BeingCoded, InHand
  <2>4. coded_q[b] > 0
    BY <1>0, <2>1, <2>3 DEF DofInv
  <2>5. QED BY <2>4, ThreadFacts DEF CanStep
<1>10. QED BY <1>4, <1>5, <1>7, <1>9 DEF Threads

(* The threads' invariant holds throughout.                                *)
THEOREM LocksInvariant == Spec => []LocksInv
BY LocksInit, LocksStep, PTL DEF Spec

(* The server's threads never all wait for each other unless one of them   *)
(* waits for room: addJob on a full job queue, or coding_job on a full     *)
(* coded_q.  The two mutexes alone cannot deadlock, and send_segs, which   *)
(* goes by dof_remain, never waits for a packet that nobody will code.     *)
THEOREM DeadlockNeedsFullQueue ==
  Spec => []((\A t \in Threads : ~WaitsForRoom(t)) => DeadlockFree)
BY LocksInvariant, WhoWaits, PTL

(***************************************************************************)
(* The pool.                                                               *)
(***************************************************************************)
(* The free list has no buffer twice and exactly those not in use.         *)
PoolOK(p) ==
  /\ p \in [first : Seq(Nat), used : SUBSET Nat, num : Nat]
  /\ p.used \subseteq 1..p.num
  /\ \A i, j \in 1..Len(p.first) : p.first[i] = p.first[j] => i = j
  /\ \A i \in 1..Len(p.first) : p.first[i] \in (1..p.num) \ p.used
  /\ \A s \in (1..p.num) \ p.used : \E i \in 1..Len(p.first) : p.first[i] = s

(* One buffer freed, whether it was in use or not.                         *)
LEMMA FreeOne ==
  ASSUME NEW p, PoolOK(p), NEW s
  PROVE  /\ PoolOK(free_skb(p, s)) /\ free_skb(p, s).num = p.num
         /\ free_skb(p, s).used = p.used \ {s}
<1>1. CASE s \notin p.used
  <2>1. free_skb(p, s) = p
    BY <1>1 DEF free_skb
  <2>2. QED BY <1>1, <2>1
<1>2. CASE s \in p.used
  <2> DEFINE q == free_skb(p, s)
  <2>0. p.first \in Seq(Nat) /\ p.num \in Nat /\ p.used \subseteq 1..p.num /\ p.used \in SUBSET Nat
    BY DEF PoolOK
  <2>1. q = [p EXCEPT !.first = <<s>> \o @, !.used = @ \ {s}]
    BY <1>2 DEF free_skb
  <2>2. q = [first |-> <<s>> \o p.first, used |-> p.used \ {s}, num |-> p.num]
    BY <2>1 DEF PoolOK
  <2>3. q.first = <<s>> \o p.first /\ q.used = p.used \ {s} /\ q.num = p.num
    BY <2>2
  <2>4. s \in Nat /\ s \in 1..p.num
    BY <1>2, <2>0
  <2>5. q \in [first : Seq(Nat), used : SUBSET Nat, num : Nat]
    BY <2>0, <2>2, <2>4
  <2>6. Len(q.first) = Len(p.first) + 1 /\ q.first[1] = s
        /\ \A i \in 1..Len(p.first) : q.first[i + 1] = p.first[i]
    <3>1. ASSUME NEW f \in Seq(Nat)
          PROVE  Len(<<s>> \o f) = Len(f) + 1 /\ (<<s>> \o f)[1] = s
                 /\ \A i \in 1..Len(f) : (<<s>> \o f)[i + 1] = f[i]
      BY <2>4, <3>1
    <3>2. p.first \in Seq(Nat) /\ q.first = <<s>> \o p.first
      BY <2>0, <2>3
    <3> HIDE DEF q
    <3>3. QED BY ONLY <3>1, <3>2
  <2>7. \A i \in 1..Len(q.first) : i = 1 \/ (i - 1 \in 1..Len(p.first) /\ q.first[i] = p.first[i - 1])
    <3> SUFFICES ASSUME NEW i \in 1..Len(q.first), i # 1
                 PROVE  i - 1 \in 1..Len(p.first) /\ q.first[i] = p.first[i - 1]
      OBVIOUS
    <3>1. Len(p.first) \in Nat
      BY <2>0
    <3>2. i - 1 \in 1..Len(p.first) /\ (i - 1) + 1 = i
      BY <2>6, <3>1
    <3>3. QED BY <2>6, <3>2
  <2>8. \A i \in 1..Len(p.first) : p.first[i] # s /\ p.first[i] \in (1..p.num) \ p.used
    BY <1>2 DEF PoolOK
  <2> HIDE DEF q
  <2>9. \A i, j \in 1..Len(q.first) : q.first[i] = q.first[j] => i = j
    <3> SUFFICES ASSUME NEW i \in 1..Len(q.first), NEW j \in 1..Len(q.first), q.first[i] = q.first[j] PROVE i = j
      OBVIOUS
    <3>1. CASE i = 1
      BY <2>6, <2>7, <2>8, <3>1
    <3>2. CASE j = 1
      BY <2>6, <2>7, <2>8, <3>2, SMTT(30)
    <3>3. CASE i # 1 /\ j # 1
      <4>1. i - 1 \in 1..Len(p.first) /\ j - 1 \in 1..Len(p.first) /\ p.first[i - 1] = p.first[j - 1]
        BY <2>7, <3>3
      <4>2. i - 1 = j - 1
        BY <4>1 DEF PoolOK
      <4>3. QED BY <4>2
    <3>4. QED BY <3>1, <3>2, <3>3
  <2>10. \A i \in 1..Len(q.first) : q.first[i] \in (1..q.num) \ q.used
    BY <2>3, <2>4, <2>6, <2>7, <2>8
  <2>11. \A t \in (1..q.num) \ q.used : \E i \in 1..Len(q.first) : q.first[i] = t
    <3> SUFFICES ASSUME NEW t \in (1..q.num) \ q.used PROVE \E i \in 1..Len(q.first) : q.first[i] = t
      OBVIOUS
    <3>1. CASE t = s
      <4>1. 1 \in 1..Len(q.first)
        BY <2>0, <2>6
      <4>2. QED BY <2>6, <3>1, <4>1
    <3>2. CASE t # s
      <4>1. t \in (1..p.num) \ p.used
        BY <2>3, <3>2
      <4>2. PICK i \in 1..Len(p.first) : p.first[i] = t
        BY <4>1 DEF PoolOK
      <4>3. i + 1 \in 1..Len(q.first) /\ q.first[i + 1] = t
        BY <2>0, <2>6, <4>2, SMTT(30)
      <4>4. QED BY <4>3
    <3>3. QED BY <3>1, <3>2
  <2>12. q.used \subseteq 1..q.num
    BY <2>0, <2>3
  <2>13. QED BY <2>3, <2>5, <2>9, <2>10, <2>11, <2>12 DEF PoolOK, q
<1>3. QED BY <1>1, <1>2

(* A set of numbers that is not empty has a least one.                     *)
LEMMA LeastOf ==
  ASSUME NEW S \in SUBSET Nat, S # {}
  PROVE  \E n \in S : \A m \in Nat : m < n => m \notin S
<1>1. PICK n \in S : \A m \in Nat : m \in S => <<m, n>> \notin OpToRel(<, Nat)
  BY NatLessThanWellFounded, WFMin
<1>2. QED BY <1>1 DEF OpToRel

(* The pools that FreeAll goes through exist: its recursion is well        *)
(* founded.                                                                *)
Chain(p, seq, n, g) ==
  g = [m \in 0..n |-> IF m = 0 THEN p ELSE free_skb(g[m - 1], seq[m])]

LEMMA ChainExists ==
  ASSUME NEW p, NEW seq, NEW n \in Nat PROVE \E g : Chain(p, seq, n, g)
<1> DEFINE Bad == {k \in Nat : ~ \E g : Chain(p, seq, k, g)}
<1>1. ASSUME Bad # {} PROVE FALSE
  <2>1. PICK k \in Bad : \A m \in Nat : m < k => m \notin Bad
    BY <1>1, LeastOf
  <2>2. CASE k = 0
    <3> DEFINE g == [m \in 0..0 |-> p]
    <3>1. g = [m \in 0..0 |-> IF m = 0 THEN p ELSE free_skb(g[m - 1], seq[m])]
      OBVIOUS
    <3>2. Chain(p, seq, 0, g)
      BY <3>1 DEF Chain
    <3>3. QED BY <2>2, <3>2
  <2>3. CASE k # 0
    <3>1. k - 1 \in Nat /\ k - 1 < k /\ k \in Nat
      BY <2>3
    <3>2. PICK h : Chain(p, seq, k - 1, h)
      BY <2>1, <3>1
    <3> DEFINE g == [m \in 0..k |-> IF m = k THEN free_skb(h[k - 1], seq[k]) ELSE h[m]]
    <3>3. \A m \in 0..k - 1 : h[m] = IF m = 0 THEN p ELSE free_skb(h[m - 1], seq[m])
      BY <3>2 DEF Chain
    <3>4. \A m \in 0..k : g[m] = IF m = 0 THEN p ELSE free_skb(g[m - 1], seq[m])
      <4> SUFFICES ASSUME NEW m \in 0..k PROVE g[m] = IF m = 0 THEN p ELSE free_skb(g[m - 1], seq[m])
        OBVIOUS
      <4>1. CASE m = k
        <5>1. g[m] = free_skb(h[k - 1], seq[k]) /\ g[k - 1] = h[k - 1]
          BY <3>1, <4>1
        <5>2. QED BY <2>3, <4>1, <5>1
      <4>2. CASE m = 0
        BY <2>3, <3>1, <3>3, <4>2
      <4>3. CASE m # k /\ m # 0
        <5>1. m \in 0..k - 1 /\ m - 1 \in 0..k /\ m - 1 # k
          BY <3>1, <4>3
        <5>2. g[m] = h[m] /\ g[m - 1] = h[m - 1]
          BY <4>3, <5>1
        <5>3. QED BY <3>3, <4>3, <5>1, <5>2
      <4>4. QED BY <4>1, <4>2, <4>3
    <3>5. g = [m \in 0..k |-> g[m]]
      OBVIOUS
    <3> HIDE DEF g
    <3>6. g = [m \in 0..k |-> IF m = 0 THEN p ELSE free_skb(g[m - 1], seq[m])]
      BY <3>4, <3>5
    <3>7. Chain(p, seq, k, g)
      BY <3>6 DEF Chain
    <3>8. QED BY <3>7
  <2>4. QED BY <2>2, <2>3
<1>2. QED BY <1>1

LEMMA FreeAllIs ==
  ASSUME NEW p, NEW seq, Len(seq) \in Nat
  PROVE  \E g : Chain(p, seq, Len(seq), g) /\ FreeAll(p, seq) = g[Len(seq)]
<1> DEFINE after == CHOOSE g : g = [m \in 0..Len(seq) |-> IF m = 0 THEN p ELSE free_skb(g[m - 1], seq[m])]
<1>1. \E g : g = [m \in 0..Len(seq) |-> IF m = 0 THEN p ELSE free_skb(g[m - 1], seq[m])]
  <2>1. PICK g : Chain(p, seq, Len(seq), g)
    BY ChainExists
  <2>2. g = [m \in 0..Len(seq) |-> IF m = 0 THEN p ELSE free_skb(g[m - 1], seq[m])]
    BY <2>1 DEF Chain
  <2>3. QED BY <2>2, Zenon
<1>2. after = [m \in 0..Len(seq) |-> IF m = 0 THEN p ELSE free_skb(after[m - 1], seq[m])]
  BY <1>1
<1>3. Chain(p, seq, Len(seq), after)
  BY <1>2 DEF Chain
<1>4. FreeAll(p, seq) = after[Len(seq)]
  BY DEF FreeAll
<1>5. QED BY <1>3, <1>4

(* Buffers freed one after the other: they are out of use.                 *)
LEMMA FreeMany ==
  ASSUME NEW p, PoolOK(p), NEW seq \in Seq(Nat)
  PROVE  /\ PoolOK(FreeAll(p, seq)) /\ FreeAll(p, seq).num = p.num
         /\ FreeAll(p, seq).used = p.used \ {seq[i] : i \in 1..Len(seq)}
<1>0. Len(seq) \in Nat
  OBVIOUS
<1>1. PICK g : Chain(p, seq, Len(seq), g) /\ FreeAll(p, seq) = g[Len(seq)]
  BY <1>0, FreeAllIs
<1>2. \A m \in 0..Len(seq) : g[m] = IF m = 0 THEN p ELSE free_skb(g[m - 1], seq[m])
  BY <1>1 DEF Chain
<1> DEFINE Good(m) == /\ PoolOK(g[m]) /\ g[m].num = p.num
                      /\ g[m].used = p.used \ {seq[i] : i \in 1..m}
<1> DEFINE Bad == {m \in 0..Len(seq) : ~Good(m)}
<1> HIDE DEF Good
<1>3. ASSUME Bad # {} PROVE FALSE
  <2>1. PICK k \in Bad : \A m \in Nat : m < k => m \notin Bad
    <3>1. Bad \in SUBSET Nat
      BY <1>0
    <3>2. QED BY <1>3, <3>1, LeastOf
  <2>2. k \in 0..Len(seq) /\ ~Good(k)
    BY <2>1
  <2>3. CASE k = 0
    <3>1. g[0] = p
      BY <1>0, <1>2
    <3>2. {seq[i] : i \in 1..0} = {}
      OBVIOUS
    <3>3. Good(0)
      BY <3>1, <3>2 DEF Good
    <3>4. QED BY <2>2, <2>3, <3>3
  <2>4. CASE k # 0
    <3>1. k - 1 \in 0..Len(seq) /\ k - 1 \in Nat /\ k - 1 < k
      BY <1>0, <2>2, <2>4
    <3>2. Good(k - 1)
      BY <2>1, <3>1
    <3>3. g[k] = free_skb(g[k - 1], seq[k])
      BY <1>2, <2>2, <2>4
    <3>4. /\ PoolOK(g[k]) /\ g[k].num = p.num
          /\ g[k].used = (p.used \ {seq[i] : i \in 1..(k - 1)}) \ {seq[k]}
      <4>1. /\ PoolOK(g[k - 1]) /\ g[k - 1].num = p.num
            /\ g[k - 1].used = p.used \ {seq[i] : i \in 1..(k - 1)}
        BY <3>2 DEF Good
      <4>2. LET f == free_skb(g[k - 1], seq[k])
            IN  PoolOK(f) /\ f.num = g[k - 1].num /\ f.used = g[k - 1].used \ {seq[k]}
        BY <4>1, FreeOne
      <4>3. QED BY <3>3, <4>1, <4>2
    <3>5. {seq[i] : i \in 1..(k - 1)} \cup {seq[k]} = {seq[i] : i \in 1..k}
      <4>1. \A i : i \in 1..k <=> i \in 1..(k - 1) \/ i = k
        BY <1>0, <2>2, <3>1
      <4>2. QED BY <4>1
    <3>6. Good(k)
      BY <3>4, <3>5 DEF Good
    <3>7. QED BY <2>2, <3>6
  <2>5. QED BY <2>3, <2>4
<1>4. Good(Len(seq))
  <2>1. Len(seq) \in 0..Len(seq)
    BY <1>0
  <2>2. QED BY <1>3, <2>1
<1>5. QED BY <1>1, <1>4 DEF Good

(* What alloc_skb returns: from the free list first, then new buffers.     *)
LEMMA AllocEntries ==
  ASSUME PoolOK(pool), NEW n \in Nat
  PROVE  /\ Recycled(n) \in Nat /\ Recycled(n) <= n /\ Recycled(n) <= Len(pool.first)
         /\ Recycled(n) < n => Recycled(n) = Len(pool.first)
         /\ alloc_skb(n) \in Seq(Nat) /\ Len(alloc_skb(n)) = n
         /\ \A i \in 1..n : alloc_skb(n)[i] = IF i <= Recycled(n) THEN pool.first[i]
                                                ELSE pool.num + (i - Recycled(n))
<1> DEFINE R == Recycled(n)
<1>0. pool.first \in Seq(Nat) /\ Len(pool.first) \in Nat /\ pool.num \in Nat
  BY DEF PoolOK
<1>1. R \in Nat /\ R <= n /\ R <= Len(pool.first) /\ (R < n => R = Len(pool.first))
  BY <1>0 DEF Recycled, Min2
<1> DEFINE S == SubSeq(pool.first, 1, R)
           N == [j \in 1..n - R |-> pool.num + j]
<1> HIDE DEF R
<1>2. S \in Seq(Nat) /\ Len(S) = R /\ \A i \in 1..R : S[i] = pool.first[i]
  <2>1. ASSUME NEW f \in Seq(Nat), NEW r \in Nat, r <= Len(f)
        PROVE  SubSeq(f, 1, r) \in Seq(Nat) /\ Len(SubSeq(f, 1, r)) = r
               /\ \A i \in 1..r : SubSeq(f, 1, r)[i] = f[i]
    BY <2>1
  <2>2. QED BY <1>0, <1>1, <2>1
<1>3. n - R \in Nat
  BY <1>1
<1>4. N \in Seq(Nat) /\ Len(N) = n - R /\ \A i \in 1..n - R : N[i] = pool.num + i
  <2>1. ASSUME NEW k \in Nat, NEW m \in Nat
        PROVE  [j \in 1..k |-> m + j] \in Seq(Nat) /\ Len([j \in 1..k |-> m + j]) = k
    BY <2>1
  <2>2. QED BY <1>0, <1>3, <2>1
<1>5. alloc_skb(n) = S \o N
  BY DEF alloc_skb, R
<1> HIDE DEF S, N
<1>6. S \o N \in Seq(Nat) /\ Len(S \o N) = R + (n - R)
      /\ \A i \in 1..R + (n - R) : (S \o N)[i] = IF i <= R THEN S[i] ELSE N[i - R]
  <2>1. ASSUME NEW s \in Seq(Nat), NEW m \in Seq(Nat)
        PROVE  s \o m \in Seq(Nat) /\ Len(s \o m) = Len(s) + Len(m)
               /\ \A i \in 1..Len(s) + Len(m) : (s \o m)[i] = IF i <= Len(s) THEN s[i] ELSE m[i - Len(s)]
    BY <2>1
  <2>2. S \o N \in Seq(Nat) /\ Len(S \o N) = Len(S) + Len(N)
        /\ \A i \in 1..Len(S) + Len(N) : (S \o N)[i] = IF i <= Len(S) THEN S[i] ELSE N[i - Len(S)]
    BY <1>2, <1>4, <2>1
  <2>3. Len(S) = R /\ Len(N) = n - R
    BY <1>2, <1>4
  <2>4. QED BY <2>2, <2>3
<1>7. R + (n - R) = n
  BY <1>1
<1>8. \A i \in 1..n : alloc_skb(n)[i] = IF i <= R THEN pool.first[i] ELSE pool.num + (i - R)
  <2> SUFFICES ASSUME NEW i \in 1..n
               PROVE  (S \o N)[i] = IF i <= R THEN pool.first[i] ELSE pool.num + (i - R)
    BY <1>5
  <2>1. CASE i <= R
    <3>1. i \in 1..R
      BY <2>1, <1>1
    <3>2. QED BY <1>2, <1>6, <1>7, <2>1, <3>1
  <2>2. CASE ~(i <= R)
    <3>1. i - R \in 1..n - R
      BY <2>2, <1>1
    <3>2. QED BY <1>4, <1>6, <1>7, <2>2, <3>1
  <2>3. QED BY <2>1, <2>2
<1>9. QED BY <1>1, <1>5, <1>6, <1>7, <1>8 DEF R

(* What is left of a sequence when its first elements are taken.           *)
LEMMA RestOf ==
  ASSUME NEW f \in Seq(Nat), NEW r \in Nat, r <= Len(f)
  PROVE  /\ SubSeq(f, r + 1, Len(f)) \in Seq(Nat) /\ Len(SubSeq(f, r + 1, Len(f))) = Len(f) - r
         /\ \A i \in 1..Len(f) - r : SubSeq(f, r + 1, Len(f))[i] = f[i + r]
<1>1. Len(f) \in Nat /\ Len(f) \in Int /\ r + 1 \in Int
  OBVIOUS
<1>2. \A i \in (r + 1)..Len(f) : f[i] \in Nat
  BY <1>1
<1>3. /\ SubSeq(f, r + 1, Len(f)) \in Seq(Nat)
      /\ Len(SubSeq(f, r + 1, Len(f))) = IF r + 1 <= Len(f) THEN Len(f) - (r + 1) + 1 ELSE 0
      /\ \A i \in 1..Len(f) - (r + 1) + 1 : SubSeq(f, r + 1, Len(f))[i] = f[(r + 1) + i - 1]
  BY <1>1, <1>2, SubSeqProperties
<1> DEFINE l == Len(f)
           g == SubSeq(f, r + 1, l)
<1>4. l \in Nat /\ r <= l /\ Len(g) = (IF r + 1 <= l THEN l - (r + 1) + 1 ELSE 0)
      /\ \A i \in 1..l - (r + 1) + 1 : g[i] = f[(r + 1) + i - 1]
  BY <1>1, <1>3
<1> HIDE DEF l, g
<1>5. Len(g) = l - r
  BY <1>4
<1>6. \A i \in 1..l - r : i \in 1..l - (r + 1) + 1 /\ (r + 1) + i - 1 = i + r
  BY <1>4
<1>7. \A i \in 1..l - r : g[i] = f[i + r]
  BY <1>4, <1>6
<1>8. QED BY <1>3, <1>5, <1>7 DEF g, l

(* The buffers returned are distinct and were not in use; now they are.    *)
LEMMA AllocMany ==
  ASSUME PoolOK(pool), NEW n \in Nat
  PROVE  /\ PoolOK(Allocated(n)) /\ Allocated(n).num >= pool.num
         /\ alloc_skb(n) \in Seq(Nat) /\ Len(alloc_skb(n)) = n
         /\ \A i, j \in 1..n : alloc_skb(n)[i] = alloc_skb(n)[j] => i = j
         /\ \A i \in 1..n : alloc_skb(n)[i] \in (1..Allocated(n).num) \ pool.used
         /\ Allocated(n).used = pool.used \cup {alloc_skb(n)[i] : i \in 1..n}
<1> DEFINE R == Recycled(n)
           A == alloc_skb(n)
           L == Len(pool.first)
           F == pool.first
           q == Allocated(n)
<1>0. F \in Seq(Nat) /\ L \in Nat /\ pool.num \in Nat /\ pool.used \in SUBSET Nat /\ pool.used \subseteq 1..pool.num
  BY DEF PoolOK
<1>1. R \in Nat /\ R <= n /\ R <= L /\ (R < n => R = L) /\ A \in Seq(Nat) /\ Len(A) = n
  BY AllocEntries
<1>2. \A i \in 1..n : A[i] = IF i <= R THEN F[i] ELSE pool.num + (i - R)
  BY AllocEntries
<1>3. /\ q.first = SubSeq(F, R + 1, L)
      /\ q.used = pool.used \cup ToSet(A) /\ q.num = pool.num + (n - R)
      /\ q = [first |-> q.first, used |-> q.used, num |-> q.num]
  BY DEF Allocated
<1>4. ToSet(A) = {A[i] : i \in 1..n}
  BY <1>1 DEF ToSet
<1>5. /\ \A i, j \in 1..L : F[i] = F[j] => i = j
      /\ \A i \in 1..L : F[i] \in (1..pool.num) \ pool.used
      /\ \A s \in (1..pool.num) \ pool.used : \E i \in 1..L : F[i] = s
  BY DEF PoolOK
<1> HIDE DEF R, A, L, q
<1>6. q.num \in Nat /\ q.num >= pool.num
  BY <1>0, <1>1, <1>3, SMTT(30)
<1>7. \A i \in 1..n : A[i] \in (1..q.num) \ pool.used
  <2> SUFFICES ASSUME NEW i \in 1..n PROVE A[i] \in (1..q.num) \ pool.used
    OBVIOUS
  <2>1. CASE i <= R
    <3>1. i \in 1..L /\ A[i] = F[i]
      BY <1>0, <1>1, <1>2, <2>1
    <3>2. F[i] \in (1..pool.num) \ pool.used
      BY <1>5, <3>1
    <3>3. QED BY <1>0, <1>6, <3>1, <3>2
  <2>2. CASE ~(i <= R)
    <3>1. A[i] = pool.num + (i - R)
      BY <1>2, <2>2
    <3>2. q.num = pool.num + (n - R)
      BY <1>3
    <3>3. i - R \in Nat /\ i - R > 0 /\ i - R <= n - R /\ n - R \in Nat
      BY <1>1, <2>2
    <3>4. A[i] \in Nat /\ A[i] > pool.num /\ A[i] <= q.num
      BY <1>0, <3>1, <3>2, <3>3
    <3>5. A[i] \in 1..q.num /\ A[i] \notin 1..pool.num
      BY <1>0, <1>6, <3>4
    <3>6. QED BY <1>0, <3>5
  <2>3. QED BY <2>1, <2>2
<1>8. \A i, j \in 1..n : A[i] = A[j] => i = j
  <2> SUFFICES ASSUME NEW i \in 1..n, NEW j \in 1..n, A[i] = A[j], i < j PROVE FALSE
    OBVIOUS
  <2>1. CASE j <= R
    <3>1. i \in 1..L /\ j \in 1..L /\ A[i] = F[i] /\ A[j] = F[j]
      BY <1>0, <1>1, <1>2, <2>1
    <3>2. F[i] = F[j]
      BY <3>1
    <3>3. i = j
      BY <1>5, <3>1, <3>2
    <3>4. QED BY <3>3
  <2>2. CASE i <= R /\ ~(j <= R)
    <3>1. i \in 1..L /\ A[i] = F[i] /\ A[j] = pool.num + (j - R)
      BY <1>0, <1>1, <1>2, <2>2
    <3>2. A[i] \in 1..pool.num
      BY <1>5, <3>1
    <3>3. A[j] > pool.num
      <4>1. j - R > 0 /\ j - R \in Nat
        BY <1>1, <2>2
      <4>2. pool.num + (j - R) > pool.num
        BY <1>0, <4>1
      <4>3. A[j] = pool.num + (j - R)
        BY <3>1
      <4>4. QED BY ONLY <4>2, <4>3
    <3>4. A[i] > pool.num
      BY <3>3
    <3>5. QED BY <1>0, <3>2, <3>4
  <2>3. CASE ~(i <= R) /\ ~(j <= R)
    <3>1. A[i] = pool.num + (i - R) /\ A[j] = pool.num + (j - R)
      BY <1>2, <2>3
    <3>2. pool.num + (i - R) = pool.num + (j - R)
      BY <3>1
    <3>3. i = j
      BY <1>0, <1>1, <3>2
    <3>4. QED BY <3>3
  <2>4. QED BY <1>1, <2>1, <2>2, <2>3
<1>9. q.used = pool.used \cup {A[i] : i \in 1..n}
  BY <1>3, <1>4
<1>10. q.first \in Seq(Nat) /\ Len(q.first) = L - R /\ \A i \in 1..L - R : q.first[i] = F[i + R]
  <2>2. L = Len(F)
    BY DEF L
  <2>3. R <= Len(F) /\ q.first = SubSeq(F, R + 1, Len(F))
    BY <1>1, <1>3, <2>2
  <2> HIDE DEF F
  <2>4. SubSeq(F, R + 1, Len(F)) \in Seq(Nat) /\ Len(SubSeq(F, R + 1, Len(F))) = Len(F) - R
        /\ \A i \in 1..Len(F) - R : SubSeq(F, R + 1, Len(F))[i] = F[i + R]
    BY <1>0, <1>1, <2>3, RestOf
  <2>5. QED BY <2>2, <2>3, <2>4
<1>11. \A i \in 1..L - R : i + R \in 1..L /\ i + R > R
  BY <1>0, <1>1
<1>12. q.used \subseteq 1..q.num /\ q.used \in SUBSET Nat
  <2>1. 1..pool.num \subseteq 1..q.num
    BY <1>0, <1>6
  <2>2. q.used \subseteq 1..q.num
    BY <1>0, <1>7, <1>9, <2>1
  <2>3. QED BY <2>2
<1>13. q \in [first : Seq(Nat), used : SUBSET Nat, num : Nat]
  BY <1>3, <1>6, <1>10, <1>12
<1>14. \A i, j \in 1..Len(q.first) : q.first[i] = q.first[j] => i = j
  <2> SUFFICES ASSUME NEW i \in 1..L - R, NEW j \in 1..L - R, q.first[i] = q.first[j] PROVE i = j
    BY <1>10
  <2>1. i + R \in 1..L /\ j + R \in 1..L
    BY <1>11
  <2>2. F[i + R] = F[j + R]
    BY <1>10
  <2>3. i + R = j + R
    BY <1>5, <2>1, <2>2
  <2>4. i \in Int /\ j \in Int /\ R \in Int
    BY <1>1
  <2>5. QED BY ONLY <2>3, <2>4
<1>15. \A i \in 1..Len(q.first) : q.first[i] \in (1..q.num) \ q.used
  <2> SUFFICES ASSUME NEW i \in 1..L - R PROVE q.first[i] \in (1..q.num) \ q.used
    BY <1>10
  <2>1. i + R \in 1..L /\ i + R > R /\ q.first[i] = F[i + R] /\ i + R \in Nat
    BY <1>0, <1>1, <1>10, <1>11
  <2>2. F[i + R] \in (1..pool.num) \ pool.used
    BY <1>5, <2>1
  <2>3. F[i + R] \in 1..q.num
    BY <1>0, <1>6, <2>2
  <2>4. ASSUME NEW k \in 1..n, A[k] = F[i + R] PROVE FALSE
    <3>1. CASE k <= R
      <4>1. k \in 1..L /\ F[k] = F[i + R]
        BY <1>0, <1>1, <1>2, <2>4, <3>1
      <4>2. k = i + R
        BY <1>5, <2>1, <4>1
      <4>3. QED BY <1>1, <2>1, <3>1, <4>2
    <3>2. CASE ~(k <= R)
      <4>1. A[k] = pool.num + (k - R)
        BY <1>2, <3>2
      <4>2. A[k] > pool.num
        BY <1>0, <1>1, <3>2, <4>1
      <4>3. QED BY <1>0, <2>2, <2>4, <4>2
    <3>3. QED BY <3>1, <3>2
  <2>5. QED BY <1>9, <2>1, <2>2, <2>3, <2>4
<1>16. \A s \in (1..q.num) \ q.used : \E i \in 1..Len(q.first) : q.first[i] = s
  <2> SUFFICES ASSUME NEW s \in (1..q.num) \ q.used PROVE \E i \in 1..L - R : q.first[i] = s
    BY <1>10
  <2>1. s \notin pool.used /\ \A k \in 1..n : A[k] # s
    BY <1>9
  <2>2. s \in 1..pool.num
    <3> SUFFICES ASSUME s \notin 1..pool.num PROVE FALSE
      OBVIOUS
    <3> DEFINE P == pool.num
               k == s - P + R
    <3>0. /\ P \in Nat /\ n \in Nat /\ R \in Nat /\ q.num = P + (n - R)
          /\ s \in 1..q.num /\ s \notin 1..P
      BY <1>0, <1>1, <1>3
    <3> HIDE DEF P
    <3>1. s \in Nat /\ s > P /\ s <= P + (n - R)
      BY ONLY <3>0
    <3>2. k \in 1..n /\ ~(k <= R) /\ P + (k - R) = s
      BY ONLY <3>0, <3>1
    <3> HIDE DEF k
    <3>3. QED BY <1>2, <2>1, <3>2 DEF P
  <2>3. PICK m \in 1..L : F[m] = s
    BY <1>5, <2>1, <2>2
  <2>4. ~(m <= R)
    <3> SUFFICES ASSUME m <= R PROVE FALSE
      OBVIOUS
    <3>1. m \in 1..n /\ A[m] = s
      BY <1>0, <1>1, <1>2, <2>3
    <3>2. QED BY <2>1, <3>1
  <2>5. m - R \in 1..L - R /\ (m - R) + R = m
    BY <1>0, <1>1, <2>4
  <2>6. q.first[m - R] = s
    BY <1>10, <2>3, <2>5
  <2>7. QED BY <2>5, <2>6
<1>17. PoolOK(q)
  BY <1>12, <1>13, <1>14, <1>15, <1>16 DEF PoolOK
<1>18. QED BY <1>1, <1>6, <1>7, <1>8, <1>9, <1>17 DEF q, A

-----------------------------------------------------------------------------
(***************************************************************************)
(* Every step of the pool's specification is a step of ServerLocks.        *)
(***************************************************************************)
LEMMA PoolStepIsLocksStep == ASSUME [PNext]_pvars PROVE [Next]_vars
<1>1. CASE UNCHANGED pvars
  BY <1>1 DEF pvars
<1>2. CASE PNext
  <2>1. CASE Calls
    BY <2>1 DEF Calls, Next
  <2>2. CASE PSending
    BY <2>2 DEF PSending, PSendAdd, Next, Sending
  <2>3. CASE PSegs
    BY <2>3 DEF PSegs, PSegsPop, Next, Segs
  <2>4. CASE PAck
    BY <2>4 DEF PAck, freeBlock, q_free, Next, Ack
  <2>5. ASSUME NEW w \in Workers, PCoding(w) PROVE Next
    BY <2>5 DEF PCoding, PTakeJob, PushNormal, PushCoded, Next, Coding
  <2>6. QED BY <1>2, <2>1, <2>2, <2>3, <2>4, <2>5 DEF PNext
<1>3. QED BY <1>1, <1>2

(* A coding job has a row of the block for each packet it has still to     *)
(* queue as it is; start is 0 for a job that codes.                        *)
Row(b, first, n) == Alive(b) /\ first > 0 => first + n <= len[b] + 1
Rows ==
  /\ row \in [Workers -> Nat]
  /\ \A j \in Queued : Row(j.blockno, j.start, j.dofs)
  /\ \A w \in Workers : pc[w] \in Busy => Row(at[w], row[w], left[w])
  /\ \A w \in Workers : pc[w] = "code_push" => Alive(at[w])
SeqTypes == skb \in [Blocks -> Seq(Nat)] /\ queue \in [Blocks -> Seq(Nat)]
Sizes    == \A b \in Blocks : Len(skb[b]) = len[b] /\ Len(queue[b]) = coded_q[b]
PoolInv  == LocksInv /\ PoolOK(pool) /\ SeqTypes /\ Sizes /\ Rows

LEMMA PoolInit == PInit => PoolInv
<1> SUFFICES ASSUME PInit PROVE PoolInv
  OBVIOUS
<1>1. LocksInv
  BY LocksInit DEF PInit
<1>2. PoolOK(pool)
  BY DEF PInit, PoolOK
<1>3. SeqTypes /\ Sizes
  BY DEF PInit, Init, SeqTypes, Sizes
<1>4. Rows
  BY ThreadFacts DEF PInit, Init, Rows, Queued, Busy
<1>5. QED BY <1>1, <1>2, <1>3, <1>4 DEF PoolInv

(* What the step does to the rows of one worker and one job.               *)
LEMMA RowsKept ==
  ASSUME LocksInv, Rows, QueueTypes', row' \in [Workers -> Nat],
         \A b \in Blocks : Alive(b)' => Alive(b) /\ len'[b] >= len[b],
         \A q \in Queued' : q \in Queued \/ Row(q.blockno, q.start, q.dofs)',
         \A w \in Workers : pc'[w] \in Busy =>
            \/ Row(at[w], row[w], left[w])'
            \/ pc[w] \in Busy /\ at'[w] = at[w] /\ left'[w] = left[w] /\ row'[w] = row[w],
         \A w \in Workers : pc'[w] = "code_push" => Alive(at[w])'
  PROVE  Rows'
<1>0. \A b \in Blocks : len[b] \in Nat /\ len'[b] \in Nat
  BY DEF LocksInv, TypeInv, QueueTypes
<1>1. \A b \in Blocks, f \in Nat, n \in Nat : Row(b, f, n) => Row(b, f, n)'
  BY <1>0 DEF Row
<1>2. \A q \in Queued' : Row(q.blockno, q.start, q.dofs)'
  <2> SUFFICES ASSUME NEW q \in Queued' PROVE Row(q.blockno, q.start, q.dofs)'
    OBVIOUS
  <2>1. CASE q \in Queued
    <3>1. q.blockno \in Blocks /\ q.start \in Nat /\ q.dofs \in Nat
      BY <2>1, QueuedJobs, Numbers DEF LocksInv, TypeInv, QueueTypes
    <3>2. Row(q.blockno, q.start, q.dofs)
      BY <2>1 DEF Rows
    <3>3. QED BY <1>1, <3>1, <3>2
  <2>2. QED BY <2>1
<1>3. \A w \in Workers : pc'[w] \in Busy => Row(at[w], row[w], left[w])'
  <2> SUFFICES ASSUME NEW w \in Workers, pc[w] \in Busy, at'[w] = at[w], left'[w] = left[w], row'[w] = row[w]
               PROVE  Row(at[w], row[w], left[w])'
    OBVIOUS
  <2>1. at[w] \in Blocks /\ row[w] \in Nat /\ left[w] \in Nat
    BY Reads, ThreadFacts DEF Rows
  <2>2. Row(at[w], row[w], left[w])
    BY DEF Rows
  <2>3. \A b \in Blocks, f \in Nat, n \in Nat : b = at[w] /\ f = row[w] /\ n = left[w] => Row(b, f, n)'
    BY <1>1, <2>2
  <2>4. QED BY <2>1, <2>3
<1>4. QED BY <1>2, <1>3 DEF Rows

LEMMA RowsStep == PoolInv /\ [PNext]_pvars => Rows'
<1> SUFFICES ASSUME PoolInv, [PNext]_pvars PROVE Rows'
  OBVIOUS
<1>0. LocksInv /\ BlockTypes /\ QueueTypes /\ ThreadTypes /\ Stages /\ LockInv /\ SrvInv /\ LenInv /\ Rows
  BY DEF PoolInv, LocksInv, TypeInv
<1>n. [Next]_vars
  BY PoolStepIsLocksStep
<1>q. QueueTypes'
  BY <1>0, <1>n, QueueTypesStep
<1>r. /\ curr_block \in Nat /\ job_q \in Seq(Job) /\ row \in [Workers -> Nat]
      /\ \A b \in Blocks : len[b] \in Nat /\ b \in Nat
  BY <1>0, BlockFacts DEF BlockTypes, QueueTypes, Rows
<1>1. ASSUME \A b \in Blocks : Alive(b)' => Alive(b) /\ len'[b] = len[b],
             Queued' \subseteq Queued, row' = row,
             \A w \in Workers : pc'[w] \in Busy => pc[w] \in Busy /\ at'[w] = at[w] /\ left'[w] = left[w],
             \A w \in Workers : pc'[w] = "code_push" => Alive(at[w])'
      PROVE  Rows'
  <2>1. \A b \in Blocks : Alive(b)' => Alive(b) /\ len'[b] >= len[b]
    BY <1>1, <1>r
  <2>2. QED BY <1>0, <1>1, <1>q, <1>r, <2>1, RowsKept
<1>a. ASSUME curr_block' = curr_block, len' = len, pc'[Srv] = "ack_qfree" <=> pc[Srv] = "ack_qfree"
      PROVE  \A b \in Blocks : (Alive(b)' <=> Alive(b)) /\ len'[b] = len[b]
  BY <1>a DEF Alive
<1>at. \A w \in Workers : at[w] \in Blocks
  BY <1>0, Reads, ThreadFacts
<1>2. ASSUME curr_block' = curr_block, len' = len, job_q' = job_q, row' = row,
             pc'[Srv] = "ack_qfree" <=> pc[Srv] = "ack_qfree",
             \A w \in Workers : at'[w] = at[w] /\ left'[w] = left[w] /\ pc'[w] = pc[w]
      PROVE  Rows'
  <2>1. \A b \in Blocks : (Alive(b)' <=> Alive(b)) /\ len'[b] = len[b]
    BY <1>2, <1>a
  <2>2. Queued' = Queued
    BY <1>2 DEF Queued
  <2>3. \A w \in Workers : pc'[w] = "code_push" => Alive(at[w])'
    BY <1>0, <1>2, <1>at, <2>1 DEF Rows, Alive
  <2>4. QED BY <1>1, <1>2, <2>1, <2>2, <2>3
<1>3. CASE (SendCtcp \/ SendLock) /\ UNCHANGED buffers
  <2>1. /\ curr_block' = curr_block /\ len' = len /\ job_q' = job_q /\ row' = row /\ pc'[Srv] = pc[Srv]
        /\ \A w \in Workers : at'[w] = at[w] /\ pc'[w] = pc[w] /\ left'[w] = left[w]
    BY <1>0, <1>3, ThreadFacts DEF SendCtcp, SendLock, Go, ThreadTypes, blocks, queues, buffers
  <2>2. QED BY <1>2, <2>1
<1>4. ASSUME NEW d \in 1..MaxDofs, NEW n \in BOOLEAN, NEW r \in BOOLEAN, PSendAdd(d, n, r) PROVE Rows'
  <2> DEFINE j == [blockno |-> maxblockno, start |-> len[maxblockno] + 1, dofs |-> d]
  <2>1. /\ curr_block' = curr_block /\ pc'[Srv] = pc[Srv] /\ at' = at /\ job_q' = Append(job_q, j)
        /\ len' = [len EXCEPT ![maxblockno] = @ + d] /\ row' = row
        /\ \A w \in Workers : pc'[w] = pc[w] /\ left'[w] = left[w]
    BY <1>0, <1>4, ThreadFacts DEF PSendAdd, SendAdd, Go, ThreadTypes
  <2>2. maxblockno \in Blocks /\ d \in Nat
    BY <1>0, Numbers DEF BlockTypes
  <2>3. \A b \in Blocks : (Alive(b)' <=> Alive(b)) /\ len'[b] >= len[b]
    BY <1>0, <1>r, <2>1, <2>2, SMTT(30) DEF Alive, QueueTypes
  <2>4. len'[maxblockno] = len[maxblockno] + d
    BY <1>0, <2>1, <2>2 DEF QueueTypes
  <2>5. Queued' = Queued \cup {j}
    BY <1>r, <2>1, QueuedSteps
  <2>6. ASSUME NEW q, q = j PROVE Row(q.blockno, q.start, q.dofs)'
    <3>1. q.blockno = maxblockno /\ q.start = len[maxblockno] + 1 /\ q.dofs = d
      BY <2>6
    <3>2. q.start + q.dofs <= len'[q.blockno] + 1
      BY <1>r, <2>2, <2>4, <3>1
    <3>3. QED BY <3>2 DEF Row
  <2>7. \A w \in Workers : pc'[w] = "code_push" => Alive(at[w])'
    BY <1>0, <1>at, <2>1, <2>3 DEF Rows, Alive
  <2> HIDE DEF j
  <2>8. \A q \in Queued' : q \in Queued \/ Row(q.blockno, q.start, q.dofs)'
    BY <2>5, <2>6
  <2>9. QED BY <1>0, <1>q, <1>r, <2>1, <2>3, <2>7, <2>8, RowsKept
<1>5. ASSUME NEW w \in Workers, PTakeJob(w) PROVE Rows'
  <2>1. /\ curr_block' = curr_block /\ len' = len /\ job_q # <<>> /\ job_q' = Tail(job_q)
        /\ pc'[Srv] = pc[Srv] /\ at'[w] = Head(job_q).blockno /\ left'[w] = Head(job_q).dofs
        /\ pc'[w] = "code_check"
        /\ \A v \in Workers \ {w} : at'[v] = at[v] /\ pc'[v] = pc[v] /\ left'[v] = left[v]
    BY <1>0, <1>5, ThreadFacts DEF PTakeJob, TakeJob, Go, ThreadTypes, blocks
  <2>2. Head(job_q) \in Queued /\ Queued' \subseteq Queued
    BY <1>r, <2>1, QueuedSteps
  <2>3. Head(job_q).start \in Nat
    BY <1>r, <2>2, QueuedJobs
  <2>4. row' = [row EXCEPT ![w] = Head(job_q).start]
    BY <1>5 DEF PTakeJob
  <2>5. row'[w] = Head(job_q).start /\ row' \in [Workers -> Nat] /\ \A v \in Workers \ {w} : row'[v] = row[v]
    BY <1>r, <2>3, <2>4
  <2>6. \A b \in Blocks : (Alive(b)' <=> Alive(b)) /\ len'[b] = len[b] /\ len'[b] >= len[b]
    BY <1>r, <2>1 DEF Alive
  <2>7. Row(at[w], row[w], left[w])'
    <3>1. Row(Head(job_q).blockno, Head(job_q).start, Head(job_q).dofs)
      BY <1>0, <2>2 DEF Rows
    <3>2. QED BY <2>1, <2>5, <3>1 DEF Row, Alive
  <2>8. \A v \in Workers : pc'[v] = "code_push" => Alive(at[v])'
    BY <1>0, <1>at, <2>1, <2>6 DEF Rows, Alive
  <2>9. QED BY <1>0, <1>q, <2>1, <2>2, <2>5, <2>6, <2>7, <2>8, RowsKept
<1>6. ASSUME NEW w \in Workers, (CodeCheck(w) \/ CodeDone(w)) /\ UNCHANGED buffers PROVE Rows'
  <2>1. /\ curr_block' = curr_block /\ len' = len /\ job_q' = job_q /\ row' = row /\ pc'[Srv] = pc[Srv] /\ at' = at /\ left' = left
        /\ \A v \in Workers : pc'[v] \in Busy => pc[v] \in Busy
        /\ \A v \in Workers : pc'[v] = "code_push" => pc[v] = "code_push"
    BY <1>0, <1>6, ThreadFacts DEF CodeCheck, CodeDone, Go, ThreadTypes, blocks, queues, Busy, buffers
  <2>2. \A b \in Blocks : (Alive(b)' <=> Alive(b)) /\ len'[b] = len[b]
    BY <1>a, <2>1
  <2>3. Queued' = Queued
    BY <2>1 DEF Queued
  <2>4. \A v \in Workers : pc'[v] = "code_push" => Alive(at[v])'
    BY <1>0, <1>at, <2>1, <2>2 DEF Rows, Alive
  <2>5. QED BY <1>1, <2>1, <2>2, <2>3, <2>4
<1>7. ASSUME NEW w \in Workers, CodeLock(w) /\ UNCHANGED buffers PROVE Rows'
  <2>1. /\ curr_block' = curr_block /\ len' = len /\ job_q' = job_q /\ row' = row /\ pc'[Srv] = pc[Srv] /\ at' = at /\ left' = left
        /\ \A v \in Workers : pc'[v] \in Busy => pc[v] \in Busy
        /\ \A v \in Workers \ {w} : pc'[v] = pc[v]
        /\ pc'[w] = "code_push" => len[at[w]] > 0
    BY <1>0, <1>7, ThreadFacts DEF CodeLock, Go, ThreadTypes, blocks, queues, Busy, buffers
  <2>2. \A b \in Blocks : (Alive(b)' <=> Alive(b)) /\ len'[b] = len[b]
    BY <1>a, <2>1
  <2>3. Queued' = Queued
    BY <2>1 DEF Queued
  <2>4. pc'[w] = "code_push" => Alive(at[w])
    BY <1>0, <1>at, <2>1 DEF LenInv
  <2>5. \A v \in Workers : pc'[v] = "code_push" => Alive(at[v])'
    BY <1>0, <1>at, <2>1, <2>2, <2>4 DEF Rows, Alive
  <2>6. QED BY <1>1, <2>1, <2>2, <2>3, <2>5
<1>8. ASSUME NEW w \in Workers, PushNormal(w) \/ PushCoded(w) PROVE Rows'
  <2>1. /\ curr_block' = curr_block /\ len' = len /\ job_q' = job_q /\ pc' = pc /\ at' = at /\ pc[w] = "code_push"
        /\ left' = [left EXCEPT ![w] = @ - 1] /\ left[w] > 0
        /\ ((row' = row /\ row[w] = 0) \/ row' = [row EXCEPT ![w] = @ + 1])
    BY <1>8 DEF PushNormal, PushCoded, CodePush, blocks
  <2>2. at[w] \in Blocks /\ left[w] \in Nat /\ row[w] \in Nat /\ w \in Threads
    BY <1>0, <1>r, Reads, ThreadFacts
  <2>3. left'[w] = left[w] - 1 /\ row' \in [Workers -> Nat] /\ (row'[w] = row[w] + 1 \/ row'[w] = 0)
        /\ \A v \in Workers \ {w} : left'[v] = left[v] /\ row'[v] = row[v]
    <3>1. left'[w] = left[w] - 1 /\ \A v \in Workers \ {w} : left'[v] = left[v]
      BY <1>0, <2>1, <2>2, ThreadFacts DEF ThreadTypes
    <3>2. CASE row' = row /\ row[w] = 0
      BY <1>r, <3>1, <3>2
    <3>3. CASE row' = [row EXCEPT ![w] = @ + 1]
      BY <1>r, <2>2, <3>1, <3>3
    <3>4. QED BY <2>1, <3>2, <3>3
  <2>4. \A b \in Blocks : (Alive(b)' <=> Alive(b)) /\ len'[b] = len[b] /\ len'[b] >= len[b]
    BY <1>r, <2>1 DEF Alive
  <2>5. Queued' = Queued
    BY <2>1 DEF Queued
  <2>6. Row(at[w], row[w], left[w])'
    <3>1. CASE row'[w] = 0
      BY <3>1 DEF Row
    <3>2. CASE row'[w] = row[w] + 1 /\ row[w] # 0
      <4>1. Alive(at[w]) => row[w] + left[w] <= len[at[w]] + 1
        BY <1>0, <2>1, <2>2, <3>2 DEF Rows, Row, Busy
      <4>2. row[w] + left[w] <= len[at[w]] + 1 => row'[w] + left'[w] <= len'[at'[w]] + 1
        BY <2>1, <2>2, <2>3, <3>2
      <4>3. QED BY <2>1, <4>1, <4>2 DEF Row, Alive
    <3>3. QED
      BY <1>8, <2>3, <3>1, <3>2 DEF PushNormal, PushCoded
  <2>7. \A v \in Workers : pc'[v] = "code_push" => Alive(at[v])'
    BY <1>0, <1>at, <2>1, <2>4 DEF Rows, Alive
  <2>8. QED BY <1>0, <1>q, <2>1, <2>3, <2>4, <2>5, <2>6, <2>7, RowsKept
<1>9. ASSUME NEW b \in curr_block..maxblockno, NEW n \in 1..MaxNeed, SendSegs(b, n), UNCHANGED buffers PROVE Rows'
  <2>1. /\ curr_block' = curr_block /\ len' = len /\ job_q' = job_q /\ row' = row /\ pc[Srv] = "idle" /\ pc'[Srv] = "segs_lock"
        /\ \A v \in Workers : at'[v] = at[v] /\ pc'[v] = pc[v] /\ left'[v] = left[v]
    BY <1>0, <1>9, ThreadFacts DEF SendSegs, Go, ThreadTypes, blocks, queues, buffers
  <2>2. QED BY <1>2, <2>1
<1>10. CASE PSegsPop \/ ((SegsLock \/ SegsLoop \/ SegsRelock) /\ UNCHANGED buffers)
  <2>1. /\ curr_block' = curr_block /\ len' = len /\ job_q' = job_q /\ at' = at /\ row' = row
        /\ pc[Srv] # "ack_qfree" /\ pc'[Srv] # "ack_qfree" /\ \A v \in Workers : pc'[v] = pc[v] /\ left'[v] = left[v]
    BY <1>0, <1>10, ThreadFacts DEF SegsLock, SegsLoop, PSegsPop, SegsPop, SegsRelock, Go, ThreadTypes, blocks, queues, buffers
  <2>2. QED BY <1>2, <2>1
<1>11. CASE SegsAdd /\ UNCHANGED buffers
  <2> DEFINE j == [blockno |-> at[Srv], start |-> 0, dofs |-> left[Srv] - dof_remain[at[Srv]]]
  <2>1. /\ curr_block' = curr_block /\ len' = len /\ at' = at /\ pc[Srv] = "segs_add" /\ pc'[Srv] = "segs_loop"
        /\ (job_q' = Append(job_q, j) \/ job_q' = <<j>> \o job_q)
        /\ row' = row /\ \A v \in Workers : pc'[v] = pc[v] /\ left'[v] = left[v]
    BY <1>0, <1>11, ThreadFacts DEF SegsAdd, Go, ThreadTypes, blocks, buffers
  <2>2. Queued' = Queued \cup {j} /\ j.start = 0
    BY <1>r, <2>1, QueuedSteps
  <2> HIDE DEF j
  <2>3. \A q \in Queued' : q \in Queued \/ Row(q.blockno, q.start, q.dofs)'
    BY <2>2 DEF Row
  <2>4. \A b \in Blocks : (Alive(b)' <=> Alive(b)) /\ len'[b] = len[b] /\ len'[b] >= len[b]
    BY <1>r, <2>1 DEF Alive
  <2>5. \A v \in Workers : pc'[v] = "code_push" => Alive(at[v])'
    BY <1>0, <1>at, <2>1, <2>4 DEF Rows, Alive
  <2>6. QED BY <1>0, <1>q, <1>r, <2>1, <2>3, <2>4, <2>5, RowsKept
<1>12. CASE ((\E a \in BOOLEAN : AckLock(a)) \/ AckNote) /\ UNCHANGED buffers
  <2>1. /\ curr_block' = curr_block /\ len' = len /\ job_q' = job_q /\ row' = row /\ pc[Srv] # "ack_qfree"
        /\ pc'[Srv] # "ack_qfree" /\ \A v \in Workers : at'[v] = at[v] /\ pc'[v] = pc[v] /\ left'[v] = left[v]
    BY <1>0, <1>12, ThreadFacts DEF AckLock, AckNote, Go, ThreadTypes, blocks, queues, buffers
  <2>2. QED BY <1>2, <2>1
<1>13. CASE freeBlock
  <2>1. /\ curr_block' = curr_block /\ len' = [len EXCEPT ![curr_block] = 0] /\ job_q' = job_q /\ at' = at /\ left' = left
        /\ pc[Srv] = "ack_free" /\ pc'[Srv] = "ack_qfree" /\ row' = row /\ \A v \in Workers : pc'[v] = pc[v]
        /\ block_mutex[at[Srv]] = None
    BY <1>0, <1>13, ThreadFacts DEF freeBlock, AckFree, LockBlock, Go, ThreadTypes, blocks
  <2>2. \A b \in Blocks : Alive(b)' <=> Alive(b) /\ b # curr_block
    BY <2>1 DEF Alive
  <2>3. \A b \in Blocks : Alive(b)' => Alive(b) /\ len'[b] = len[b]
    BY <1>0, <2>1, <2>2 DEF QueueTypes
  <2>4. Queued' = Queued
    BY <2>1 DEF Queued
  <2>5. \A v \in Workers : pc[v] = "code_push" => at[v] # curr_block
    <3>1. at[Srv] = curr_block
      BY <1>0, <2>1 DEF SrvInv, InAck
    <3>2. QED BY <1>0, <1>at, <2>1, <3>1, ThreadFacts DEF LockInv, HolderInv, Holding
  <2>6. \A v \in Workers : pc'[v] = "code_push" => Alive(at[v])'
    BY <1>0, <1>at, <2>1, <2>2, <2>5 DEF Rows, Alive
  <2>7. QED BY <1>1, <2>1, <2>3, <2>4, <2>6
<1>14. ASSUME NEW a \in BOOLEAN, q_free(a) PROVE Rows'
  <2>1. /\ curr_block' = curr_block + 1 /\ len' = len /\ job_q' = job_q /\ pc[Srv] = "ack_qfree" /\ pc'[Srv] # "ack_qfree"
        /\ row' = row /\ \A v \in Workers : at'[v] = at[v] /\ pc'[v] = pc[v] /\ left'[v] = left[v]
    BY <1>0, <1>14, ThreadFacts DEF q_free, AckQFree, Go, ThreadTypes
  <2>2. \A b \in Blocks : (Alive(b)' <=> Alive(b)) /\ len'[b] = len[b]
    BY <1>r, <2>1 DEF Alive
  <2>3. Queued' = Queued
    BY <2>1 DEF Queued
  <2>4. \A v \in Workers : pc'[v] = "code_push" => Alive(at[v])'
    BY <1>0, <1>at, <2>1, <2>2 DEF Rows, Alive
  <2>5. QED BY <1>1, <2>1, <2>2, <2>3, <2>4
<1>15. CASE UNCHANGED pvars
  BY <1>2, <1>15 DEF pvars, vars, buffers
<1>16. QED
  BY <1>3, <1>4, <1>5, <1>6, <1>7, <1>8, <1>9, <1>10, <1>11, <1>12, <1>13, <1>14, <1>15
  DEF PNext, Calls, PSending, PSegs, PAck, PCoding

(* What a block's buffers and a queue's are.                               *)
LEMMA PoolReads ==
  ASSUME PoolInv, NEW b \in Blocks
  PROVE  /\ skb[b] \in Seq(Nat) /\ Len(skb[b]) = len[b] /\ len[b] \in Nat
         /\ queue[b] \in Seq(Nat) /\ Len(queue[b]) = coded_q[b] /\ coded_q[b] \in Nat
BY DEF PoolInv, SeqTypes, Sizes, LocksInv, TypeInv, QueueTypes

(* A worker that queues a row finds it in the block.                       *)
LEMMA RowFound ==
  ASSUME PoolInv, NEW w \in Workers, PushNormal(w)
  PROVE  /\ at[w] \in Blocks /\ Alive(at[w])
         /\ row[w] \in 1..Len(skb[at[w]]) /\ skb[at[w]][row[w]] \in Nat
<1>1. pc[w] = "code_push" /\ left[w] > 0 /\ row[w] > 0
  BY DEF PushNormal, CodePush
<1>2. at[w] \in Blocks /\ left[w] \in Nat /\ row[w] \in Nat
  BY Reads, ThreadFacts DEF PoolInv, Rows
<1>3. Alive(at[w]) /\ row[w] + left[w] <= len[at[w]] + 1
  BY <1>1, <1>2 DEF PoolInv, Rows, Row, Busy
<1>4. row[w] \in 1..Len(skb[at[w]])
  BY <1>1, <1>2, <1>3, PoolReads
<1>5. QED BY <1>2, <1>3, <1>4, PoolReads, SMTT(30)

LEMMA ReverseIs ==
  ASSUME NEW s \in Seq(Nat)
  PROVE  /\ Reverse(s) \in Seq(Nat) /\ Len(Reverse(s)) = Len(s)
         /\ \A i \in 1..Len(s) : Reverse(s)[i] = s[Len(s) - i + 1] /\ Len(s) - i + 1 \in 1..Len(s)
<1>1. \A i \in 1..Len(s) : Len(s) - i + 1 \in 1..Len(s)
  OBVIOUS
<1>2. Reverse(s) = [i \in 1..Len(s) |-> s[Len(s) - i + 1]]
  BY DEF Reverse
<1>3. \A i \in 1..Len(s) : s[Len(s) - i + 1] \in Nat
  BY <1>1
<1>4. QED BY <1>1, <1>2, <1>3

(* The buffers q_free gives back.                                          *)
LEMMA ReachedIs ==
  ASSUME PoolInv, NEW b \in Blocks
  PROVE  /\ Reached(b) \in Seq(Nat)
         /\ Reached(b) = <<>> \/ Reached(b) = Reverse(queue[b])
         /\ {Reached(b)[i] : i \in 1..Len(Reached(b))} \subseteq {queue[b][i] : i \in 1..Len(queue[b])}
<1>0. queue[b] \in Seq(Nat) /\ <<>> \in Seq(Nat)
  BY PoolReads
<1>1. Reached(b) = <<>> \/ Reached(b) = Reverse(queue[b])
  BY DEF Reached
<1>2. CASE Reached(b) = <<>>
  <2>1. 1..Len(<<>>) = {}
    OBVIOUS
  <2>2. QED BY <1>0, <1>1, <1>2, <2>1
<1>3. CASE Reached(b) = Reverse(queue[b])
  <2>1. Reverse(queue[b]) \in Seq(Nat) /\ Len(Reverse(queue[b])) = Len(queue[b])
    BY <1>0, ReverseIs
  <2>2. \A i \in 1..Len(queue[b]) : \E k \in 1..Len(queue[b]) : Reverse(queue[b])[i] = queue[b][k]
    BY <1>0, ReverseIs
  <2>3. ASSUME NEW i \in 1..Len(Reached(b)) PROVE Reached(b)[i] \in {queue[b][k] : k \in 1..Len(queue[b])}
    <3>1. i \in 1..Len(queue[b]) /\ Reached(b)[i] = Reverse(queue[b])[i]
      BY <1>3, <2>1
    <3>2. QED BY <2>2, <3>1
  <2>4. Reached(b) \in Seq(Nat)
    BY <1>3, <2>1
  <2>5. QED BY <1>1, <2>3, <2>4
<1>4. QED BY <1>1, <1>2, <1>3

LEMMA BuffersStep == PoolInv /\ [PNext]_pvars => (PoolOK(pool) /\ SeqTypes /\ Sizes)'
<1> SUFFICES ASSUME PoolInv, [PNext]_pvars PROVE (PoolOK(pool) /\ SeqTypes /\ Sizes)'
  OBVIOUS
<1>0. LocksInv /\ PoolOK(pool) /\ SeqTypes /\ Sizes /\ BlockTypes /\ QueueTypes
  BY DEF PoolInv, LocksInv, TypeInv
<1>1. ASSUME pool' = pool, skb' = skb, queue' = queue, len' = len, coded_q' = coded_q
      PROVE  (PoolOK(pool) /\ SeqTypes /\ Sizes)'
  BY <1>0, <1>1 DEF SeqTypes, Sizes
<1>2. CASE Calls /\ UNCHANGED buffers
  BY <1>1, <1>2 DEF Calls, SendCtcp, SendSegs, AckLock, buffers, queues
<1>3. CASE (SendLock \/ AckNote \/ SegsLock \/ SegsAdd \/ SegsLoop \/ SegsRelock) /\ UNCHANGED buffers
  BY <1>1, <1>3 DEF SendLock, AckNote, SegsLock, SegsAdd, SegsLoop, SegsRelock, buffers, queues
<1>4. ASSUME NEW w \in Workers, PTakeJob(w) \/ ((CodeCheck(w) \/ CodeLock(w) \/ CodeDone(w)) /\ UNCHANGED buffers)
      PROVE  (PoolOK(pool) /\ SeqTypes /\ Sizes)'
  BY <1>1, <1>4 DEF PTakeJob, TakeJob, CodeCheck, CodeLock, CodeDone, buffers, queues
<1>5. ASSUME NEW d \in 1..MaxDofs, NEW n \in BOOLEAN, NEW r \in BOOLEAN, PSendAdd(d, n, r)
      PROVE  (PoolOK(pool) /\ SeqTypes /\ Sizes)'
  <2> DEFINE m == maxblockno
             A == alloc_skb(d)
  <2>1. /\ pool' = Allocated(d) /\ skb' = [skb EXCEPT ![m] = @ \o A] /\ queue' = queue
        /\ len' = [len EXCEPT ![m] = @ + d] /\ coded_q' = coded_q
    BY <1>5 DEF PSendAdd, SendAdd
  <2>2. d \in Nat /\ m \in Blocks
    BY <1>0, Numbers DEF BlockTypes
  <2>3. PoolOK(Allocated(d)) /\ A \in Seq(Nat) /\ Len(A) = d
    BY <1>0, <2>2, AllocMany
  <2> HIDE DEF A, m
  <2>4. skb[m] \o A \in Seq(Nat) /\ Len(skb[m] \o A) = len[m] + d
    <3>1. skb[m] \in Seq(Nat) /\ Len(skb[m]) = len[m]
      BY <2>2, PoolReads
    <3>2. ASSUME NEW s \in Seq(Nat), NEW u \in Seq(Nat)
          PROVE  s \o u \in Seq(Nat) /\ Len(s \o u) = Len(s) + Len(u)
      BY <3>2
    <3>3. QED BY ONLY <2>3, <3>1, <3>2
  <2>5. SeqTypes'
    BY <1>0, <2>1, <2>2, <2>4 DEF SeqTypes
  <2>6. Sizes'
    BY <1>0, <2>1, <2>2, <2>4 DEF SeqTypes, Sizes, QueueTypes
  <2>7. QED BY <2>1, <2>3, <2>5, <2>6
<1>6. ASSUME NEW b \in Blocks, NEW s \in Nat, Enqueue(b, s), skb' = skb, len' = len,
             coded_q' = [coded_q EXCEPT ![b] = @ + 1]
      PROVE  (SeqTypes /\ Sizes)'
  <2>1. Append(queue[b], s) \in Seq(Nat) /\ Len(Append(queue[b], s)) = coded_q[b] + 1
    <3>1. queue[b] \in Seq(Nat) /\ Len(queue[b]) = coded_q[b]
      BY PoolReads
    <3>2. QED BY <3>1
  <2>2. queue' = [queue EXCEPT ![b] = Append(@, s)]
    BY <1>6 DEF Enqueue
  <2>3. SeqTypes'
    BY <1>0, <1>6, <2>1, <2>2 DEF SeqTypes
  <2>4. Sizes'
    BY <1>0, <1>6, <2>1, <2>2 DEF SeqTypes, Sizes, QueueTypes
  <2>5. QED BY <2>3, <2>4
<1>7. ASSUME NEW w \in Workers, PushNormal(w) PROVE (PoolOK(pool) /\ SeqTypes /\ Sizes)'
  <2>1. at[w] \in Blocks /\ skb[at[w]][row[w]] \in Nat
    BY <1>7, RowFound
  <2>2. /\ Enqueue(at[w], skb[at[w]][row[w]]) /\ skb' = skb /\ len' = len /\ pool' = pool
        /\ coded_q' = [coded_q EXCEPT ![at[w]] = @ + 1]
    BY <1>7 DEF PushNormal, CodePush
  <2>3. QED BY <1>0, <1>6, <2>1, <2>2
<1>8. ASSUME NEW w \in Workers, PushCoded(w) PROVE (PoolOK(pool) /\ SeqTypes /\ Sizes)'
  <2>1. at[w] \in Blocks /\ 1 \in Nat
    BY <1>0, Reads, ThreadFacts
  <2>2. PoolOK(Allocated(1)) /\ alloc_skb(1) \in Seq(Nat) /\ Len(alloc_skb(1)) = 1
    BY <1>0, <2>1, AllocMany
  <2>3. Head(alloc_skb(1)) \in Nat
    BY <2>2
  <2>4. /\ Enqueue(at[w], Head(alloc_skb(1))) /\ skb' = skb /\ len' = len /\ pool' = Allocated(1)
        /\ coded_q' = [coded_q EXCEPT ![at[w]] = @ + 1]
    BY <1>8 DEF PushCoded, CodePush
  <2>5. QED BY <1>6, <2>1, <2>2, <2>3, <2>4
<1>9. CASE PSegsPop
  <2> DEFINE b == at[Srv]
  <2>1. /\ coded_q[b] > 0 /\ coded_q' = [coded_q EXCEPT ![b] = @ - 1] /\ len' = len /\ skb' = skb
        /\ queue' = [queue EXCEPT ![b] = Tail(@)] /\ pool' = SentOne(Head(queue[b]))
    BY <1>9 DEF PSegsPop, SegsPop
  <2>2. b \in Blocks
    BY <1>0, Reads, ThreadFacts
  <2>3. queue[b] \in Seq(Nat) /\ Len(queue[b]) = coded_q[b] /\ coded_q[b] \in Nat
    BY <2>2, PoolReads
  <2> HIDE DEF b
  <2>4. Tail(queue[b]) \in Seq(Nat) /\ Len(Tail(queue[b])) = coded_q[b] - 1
    BY <2>1, <2>3
  <2>5. PoolOK(pool')
    BY <1>0, <2>1, FreeOne DEF SentOne
  <2>6. SeqTypes'
    BY <1>0, <2>1, <2>2, <2>4 DEF SeqTypes
  <2>7. Sizes'
    BY <1>0, <2>1, <2>2, <2>4 DEF SeqTypes, Sizes, QueueTypes
  <2>8. QED BY <2>5, <2>6, <2>7
<1>10. CASE freeBlock
  <2>1. /\ pool' = FreeAll(pool, skb[curr_block]) /\ skb' = [skb EXCEPT ![curr_block] = <<>>] /\ queue' = queue
        /\ len' = [len EXCEPT ![curr_block] = 0] /\ coded_q' = coded_q
    BY <1>10 DEF freeBlock, AckFree
  <2>2. curr_block \in Blocks /\ skb[curr_block] \in Seq(Nat)
    BY <1>0, PoolReads DEF BlockTypes
  <2>3. PoolOK(pool')
    BY <1>0, <2>1, <2>2, FreeMany
  <2>4. SeqTypes' /\ Sizes'
    BY <1>0, <2>1, <2>2 DEF SeqTypes, Sizes, QueueTypes
  <2>5. QED BY <2>3, <2>4
<1>11. ASSUME NEW a \in BOOLEAN, q_free(a) PROVE (PoolOK(pool) /\ SeqTypes /\ Sizes)'
  <2>1. /\ pool' = FreeAll(pool, Reached(curr_block)) /\ queue' = [queue EXCEPT ![curr_block] = <<>>] /\ skb' = skb
        /\ coded_q' = [coded_q EXCEPT ![curr_block] = 0] /\ len' = len
    BY <1>11 DEF q_free, AckQFree
  <2>2. curr_block \in Blocks /\ Reached(curr_block) \in Seq(Nat)
    BY <1>0, ReachedIs DEF BlockTypes
  <2>3. PoolOK(pool')
    BY <1>0, <2>1, <2>2, FreeMany
  <2>4. SeqTypes' /\ Sizes'
    BY <1>0, <2>1, <2>2 DEF SeqTypes, Sizes, QueueTypes
  <2>5. QED BY <2>3, <2>4
<1>12. CASE UNCHANGED pvars
  BY <1>1, <1>12 DEF pvars, vars, buffers
<1>13. QED
  BY <1>2, <1>3, <1>4, <1>5, <1>7, <1>8, <1>9, <1>10, <1>11, <1>12
  DEF PNext, PSending, PSegs, PAck, PCoding

LEMMA PoolStep == PoolInv /\ [PNext]_pvars => PoolInv'
BY PoolStepIsLocksStep, LocksStep, BuffersStep, RowsStep DEF PoolInv

(* The list of free buffers, as FreeListSound states it.                   *)
LEMMA ListSound == PoolOK(pool) => FreeListSound
<1> SUFFICES ASSUME PoolOK(pool) PROVE FreeListSound
  OBVIOUS
<1> DEFINE F == pool.first
<1>1. F \in Seq(Nat) /\ Len(F) \in Nat /\ F = [i \in 1..Len(F) |-> F[i]] /\ ToSet(F) = {F[i] : i \in 1..Len(F)}
  BY DEF PoolOK, ToSet
<1>2. ToSet(F) = (1..pool.num) \ pool.used
  BY <1>1 DEF PoolOK
<1>3. Cardinality(ToSet(F)) = Len(F)
  <2>1. IsFiniteSet(1..Len(F)) /\ Cardinality(1..Len(F)) = Len(F)
    BY <1>1, FS_Interval
  <2>2. \A i, j \in 1..Len(F) : F[i] = F[j] => i = j
    BY DEF PoolOK
  <2> HIDE DEF F
  <2>3. F \in Bijection(1..Len(F), ToSet(F))
    <3>1. F \in [1..Len(F) -> ToSet(F)]
      BY <1>1
    <3>2. F \in Injection(1..Len(F), ToSet(F))
      BY <2>2, <3>1 DEF Injection, IsInjective
    <3>3. F \in Surjection(1..Len(F), ToSet(F))
      BY <1>1, <3>1 DEF Surjection
    <3>4. QED BY <3>2, <3>3 DEF Bijection
  <2>4. QED BY <2>1, <2>3, FS_Bijection DEF ExistsBijection
<1>4. QED BY <1>2, <1>3 DEF FreeListSound

(* The pool's invariant holds throughout.                                  *)
THEOREM PoolInvariant == PSpec => []PoolInv
BY PoolInit, PoolStep, PTL DEF PSpec

(* alloc_skb, free_skb, freeBlock and q_free keep one list of the free     *)
(* buffers, with every one of them on it once, however the application,    *)
(* the server worker and the coding threads interleave.                    *)
THEOREM FreeListAlwaysSound == PSpec => []FreeListSound
<1>1. PoolInv => FreeListSound
  BY ListSound DEF PoolInv
<1>2. QED BY <1>1, PoolInvariant, PTL

(***************************************************************************)
(* Who holds the buffers in use, as long as no buffer was handed out       *)
(* between freeBlock and q_free and q_free reached all it was to free.     *)
(***************************************************************************)
(* Between freeBlock and q_free a block's NORMAL buffers are free already. *)
Freed(b) == pc[Srv] = "ack_qfree" /\ b = curr_block

PacketsUsed == \A b \in Blocks : \A i \in 1..Len(skb[b]) : skb[b][i] \in pool.used
PacketsOnce ==
  \A b, c \in Blocks : \A i \in 1..Len(skb[b]), j \in 1..Len(skb[c]) : skb[b][i] = skb[c][j] => b = c /\ i = j
CodedUsed ==
  \A b \in Blocks : \A i \in 1..Len(queue[b]) : queue[b][i] \notin normal => queue[b][i] \in pool.used
CodedNoPacket ==
  \A b, c \in Blocks : \A i \in 1..Len(queue[b]), j \in 1..Len(skb[c]) :
    queue[b][i] \notin normal => queue[b][i] # skb[c][j]
CodedOnce ==
  \A b, c \in Blocks : \A i \in 1..Len(queue[b]), j \in 1..Len(queue[c]) :
    queue[b][i] \notin normal /\ queue[b][i] = queue[c][j] => b = c /\ i = j
IsPacket(s) == \E b \in Blocks : \E i \in 1..Len(skb[b]) : skb[b][i] = s
IsQueued(s) == \E b \in Blocks : \E i \in 1..Len(queue[b]) : queue[b][i] = s
UsedHeld   == \A s \in pool.used : IsPacket(s) \/ (s \notin normal /\ IsQueued(s))
FreedRows  ==
  \A b \in Blocks : \A i \in 1..Len(queue[b]) :
    Freed(b) /\ queue[b][i] \in normal => queue[b][i] \notin pool.used
QueuedRows ==
  \A b \in Blocks : \A i \in 1..Len(queue[b]) :
    ~Freed(b) /\ queue[b][i] \in normal => \E j \in 1..Len(skb[b]) : skb[b][j] = queue[b][i]
Held == /\ PacketsUsed /\ PacketsOnce /\ CodedUsed /\ CodedNoPacket /\ CodedOnce
        /\ UsedHeld /\ FreedRows /\ QueuedRows
HeldInv == early = {} /\ dropped = {} => Held

(* A step that leaves the buffers where they are.                          *)
LEMMA HeldQuiet ==
  ASSUME Held, pool' = pool, skb' = skb, queue' = queue, normal' = normal,
         \A b \in Blocks : Freed(b)' <=> Freed(b)
  PROVE  Held'
<1>1. PacketsUsed' /\ PacketsOnce' /\ CodedUsed' /\ CodedNoPacket' /\ CodedOnce'
  <2>1. PacketsUsed'
    BY DEF Held, PacketsUsed
  <2>2. PacketsOnce'
    BY DEF Held, PacketsOnce
  <2>3. CodedUsed'
    BY DEF Held, CodedUsed
  <2>4. CodedNoPacket'
    BY DEF Held, CodedNoPacket
  <2>5. CodedOnce'
    BY DEF Held, CodedOnce
  <2>6. QED BY <2>1, <2>2, <2>3, <2>4, <2>5
<1>2. UsedHeld'
  BY DEF Held, UsedHeld, IsPacket, IsQueued
<1>3. FreedRows' /\ QueuedRows'
  BY DEF Held, FreedRows, QueuedRows
<1>4. QED BY <1>1, <1>2, <1>3 DEF Held

LEMMA HeldSendAdd ==
  ASSUME PoolInv, Held, NEW d \in 1..MaxDofs, NEW n, NEW r, PSendAdd(d, n, r)
  PROVE  Held'
<1> DEFINE m == maxblockno
           A == alloc_skb(d)
<1>0. d \in Nat /\ m \in Blocks /\ SeqTypes /\ skb[m] \in Seq(Nat) /\ Len(skb[m]) \in Nat
  BY Numbers, PoolReads DEF PoolInv, LocksInv, TypeInv, BlockTypes
<1>1. skb' = [skb EXCEPT ![m] = @ \o A] /\ queue' = queue /\ normal' = normal /\ pool' = Allocated(d)
  BY DEF PSendAdd
<1>2. /\ A \in Seq(Nat) /\ Len(A) = d
      /\ \A i, j \in 1..d : A[i] = A[j] => i = j
      /\ \A i \in 1..d : A[i] \notin pool.used
      /\ pool'.used = pool.used \cup {A[i] : i \in 1..d}
  BY <1>0, <1>1, AllocMany DEF PoolInv
<1>3. \A b \in Blocks : ~Freed(b) /\ ~Freed(b)'
  <2>1. pc[App] = "send_add" /\ curr_block_mutex = App
    BY ThreadFacts DEF PSendAdd, SendAdd, PoolInv, LocksInv, LockInv
  <2>2. pc[Srv] # "ack_qfree"
    BY <2>1, ThreadFacts DEF PoolInv, LocksInv, LockInv, InAck
  <2>3. pc'[Srv] = pc[Srv]
    BY ThreadFacts DEF PSendAdd, SendAdd, Go, PoolInv, LocksInv, TypeInv, ThreadTypes
  <2>4. QED BY <2>2, <2>3 DEF Freed
<1> HIDE DEF m, A
<1>4. /\ Len(skb'[m]) = Len(skb[m]) + d
      /\ \A i \in 1..Len(skb[m]) : skb'[m][i] = skb[m][i]
      /\ \A i \in 1..d : skb'[m][Len(skb[m]) + i] = A[i]
  <2>1. skb'[m] = skb[m] \o A
    BY <1>0, <1>1 DEF SeqTypes
  <2>2. ASSUME NEW s \in Seq(Nat), NEW u \in Seq(Nat)
        PROVE  /\ Len(s \o u) = Len(s) + Len(u)
               /\ \A i \in 1..Len(s) : (s \o u)[i] = s[i]
               /\ \A i \in 1..Len(u) : (s \o u)[Len(s) + i] = u[i]
    BY <2>2
  <2>3. skb[m] \in Seq(Nat) /\ A \in Seq(Nat) /\ Len(A) = d
    BY <1>0, <1>2
  <2>4. /\ Len(skb[m] \o A) = Len(skb[m]) + Len(A)
        /\ \A i \in 1..Len(skb[m]) : (skb[m] \o A)[i] = skb[m][i]
        /\ \A i \in 1..Len(A) : (skb[m] \o A)[Len(skb[m]) + i] = A[i]
    BY ONLY <2>2, <2>3
  <2>5. QED BY ONLY <2>1, <2>3, <2>4
<1>5. \A c \in Blocks : c # m => skb'[c] = skb[c]
  BY <1>0, <1>1 DEF SeqTypes
<1>6. ASSUME NEW c \in Blocks, NEW i \in 1..Len(skb'[c])
      PROVE  \/ i \in 1..Len(skb[c]) /\ skb'[c][i] = skb[c][i]
             \/ c = m /\ i - Len(skb[c]) \in 1..d /\ skb'[c][i] = A[i - Len(skb[c])]
  <2>1. CASE c # m
    BY <1>5, <2>1
  <2>2. CASE c = m /\ i <= Len(skb[m])
    <3>1. i \in 1..Len(skb[m])
      BY <1>0, <2>2
    <3>2. QED BY <1>4, <2>2, <3>1
  <2>3. CASE c = m /\ ~(i <= Len(skb[m]))
    <3>1. i \in Int /\ i <= Len(skb[m]) + d
      BY <1>4, <2>3
    <3>2. i - Len(skb[m]) \in 1..d /\ Len(skb[m]) + (i - Len(skb[m])) = i
      BY <1>0, <2>3, <3>1
    <3>3. skb'[m][Len(skb[m]) + (i - Len(skb[m]))] = A[i - Len(skb[m])]
      BY <1>4, <3>2
    <3>4. QED BY <2>3, <3>2, <3>3
  <2>4. QED BY <2>1, <2>2, <2>3
<1>7. \A c \in Blocks : \A i \in 1..Len(skb[c]) : i \in 1..Len(skb'[c]) /\ skb'[c][i] = skb[c][i]
  <2>1. \A i \in 1..Len(skb[m]) : i \in 1..Len(skb'[m])
    BY <1>0, <1>4
  <2>2. QED BY <1>4, <1>5, <2>1
<1>8. PacketsUsed'
  <2> SUFFICES ASSUME NEW c \in Blocks, NEW i \in 1..Len(skb'[c]) PROVE skb'[c][i] \in pool'.used
    BY DEF PacketsUsed
  <2>1. \A k \in 1..Len(skb[c]) : skb[c][k] \in pool'.used
    BY <1>2 DEF Held, PacketsUsed
  <2>2. \A k \in 1..d : A[k] \in pool'.used
    BY <1>2
  <2>3. QED BY <1>6, <2>1, <2>2
<1>9. PacketsOnce'
  <2> SUFFICES ASSUME NEW b \in Blocks, NEW c \in Blocks, NEW i \in 1..Len(skb'[b]), NEW j \in 1..Len(skb'[c]),
                      skb'[b][i] = skb'[c][j]
               PROVE  b = c /\ i = j
    BY DEF PacketsOnce
  <2>1. CASE i \in 1..Len(skb[b]) /\ skb'[b][i] = skb[b][i]
    <3>1. j \in 1..Len(skb[c]) /\ skb'[c][j] = skb[c][j]
      <4>1. skb[b][i] \in pool.used
        BY <2>1 DEF Held, PacketsUsed
      <4>2. \A k \in 1..d : A[k] # skb[b][i]
        BY <1>2, <4>1
      <4>3. skb'[c][j] = skb[b][i]
        BY <2>1
      <4>4. QED BY <1>6, <4>2, <4>3
    <3>2. skb[b][i] = skb[c][j]
      BY <2>1, <3>1
    <3>3. QED BY <2>1, <3>1, <3>2 DEF Held, PacketsOnce
  <2>2. CASE b = m /\ i - Len(skb[b]) \in 1..d /\ skb'[b][i] = A[i - Len(skb[b])]
    <3>1. c = m /\ j - Len(skb[c]) \in 1..d /\ skb'[c][j] = A[j - Len(skb[c])]
      <4>1. ASSUME j \in 1..Len(skb[c]), skb'[c][j] = skb[c][j] PROVE FALSE
        <5>1. skb[c][j] \in pool.used
          BY <4>1 DEF Held, PacketsUsed
        <5>2. A[i - Len(skb[b])] \notin pool.used
          BY <1>2, <2>2
        <5>3. QED BY <2>2, <4>1, <5>1, <5>2
      <4>2. QED BY <1>6, <4>1
    <3>2. i - Len(skb[m]) = j - Len(skb[m])
      BY <1>2, <2>2, <3>1
    <3>3. i = j
      BY <1>0, <3>2
    <3>4. QED BY <2>2, <3>1, <3>3
  <2>3. QED BY <1>6, <2>1, <2>2
<1>10. CodedUsed' /\ CodedOnce'
  BY <1>1, <1>2 DEF Held, CodedUsed, CodedOnce
<1>11. CodedNoPacket'
  <2> SUFFICES ASSUME NEW b \in Blocks, NEW c \in Blocks, NEW i \in 1..Len(queue[b]), NEW j \in 1..Len(skb'[c]),
                      queue[b][i] \notin normal, queue[b][i] = skb'[c][j]
               PROVE  FALSE
    BY <1>1 DEF CodedNoPacket
  <2>1. queue[b][i] \in pool.used
    BY DEF Held, CodedUsed
  <2>2. j \in 1..Len(skb[c]) /\ skb'[c][j] = skb[c][j]
    BY <1>2, <1>6, <2>1
  <2>3. QED BY <2>2 DEF Held, CodedNoPacket
<1>12. UsedHeld'
  <2> SUFFICES ASSUME NEW s \in pool'.used PROVE IsPacket(s)' \/ (s \notin normal /\ IsQueued(s))
    BY <1>1 DEF UsedHeld, IsQueued
  <2>1. CASE s \in pool.used
    BY <1>7, <2>1 DEF Held, UsedHeld, IsPacket
  <2>2. ASSUME NEW i \in 1..d, s = A[i] PROVE IsPacket(s)'
    <3>1. Len(skb[m]) + i \in 1..Len(skb'[m]) /\ skb'[m][Len(skb[m]) + i] = s
      BY <1>0, <1>4, <2>2
    <3>2. QED BY <1>0, <3>1 DEF IsPacket
  <2>3. QED BY <1>2, <2>1, <2>2
<1>13. FreedRows'
  BY <1>3 DEF FreedRows
<1>14. QueuedRows'
  <2> SUFFICES ASSUME NEW b \in Blocks, NEW i \in 1..Len(queue[b]), queue[b][i] \in normal
               PROVE  \E j \in 1..Len(skb'[b]) : skb'[b][j] = queue[b][i]
    BY <1>1 DEF QueuedRows
  <2>1. PICK j \in 1..Len(skb[b]) : skb[b][j] = queue[b][i]
    BY <1>3 DEF Held, QueuedRows
  <2>2. QED BY <1>7, <2>1
<1>15. QED BY <1>8, <1>9, <1>10, <1>11, <1>12, <1>13, <1>14 DEF Held

(* What Enqueue does to the positions of a queue.                          *)
LEMMA Enqueued ==
  ASSUME PoolInv, NEW b \in Blocks, NEW s, Enqueue(b, s), s \in Nat
  PROVE  /\ \A c \in Blocks : \A i \in 1..Len(queue[c]) : i \in 1..Len(queue'[c]) /\ queue'[c][i] = queue[c][i]
         /\ \A c \in Blocks : \A i \in 1..Len(queue'[c]) :
               \/ i \in 1..Len(queue[c]) /\ queue'[c][i] = queue[c][i]
               \/ c = b /\ i = Len(queue[b]) + 1 /\ queue'[c][i] = s
         /\ Len(queue[b]) + 1 \in 1..Len(queue'[b]) /\ queue'[b][Len(queue[b]) + 1] = s
         /\ Len(queue[b]) \in Nat
<1>1. queue[b] \in Seq(Nat) /\ SeqTypes
  BY PoolReads DEF PoolInv
<1>2. queue'[b] = Append(queue[b], s) /\ \A c \in Blocks : c # b => queue'[c] = queue[c]
  BY <1>1 DEF Enqueue, SeqTypes
<1>3. /\ Len(queue'[b]) = Len(queue[b]) + 1 /\ queue'[b][Len(queue[b]) + 1] = s /\ Len(queue[b]) \in Nat
      /\ \A i \in 1..Len(queue[b]) : queue'[b][i] = queue[b][i]
  <2>1. ASSUME NEW q \in Seq(Nat)
        PROVE  /\ Len(Append(q, s)) = Len(q) + 1 /\ Append(q, s)[Len(q) + 1] = s /\ Len(q) \in Nat
               /\ \A i \in 1..Len(q) : Append(q, s)[i] = q[i]
    BY <2>1
  <2>2. QED BY ONLY <1>1, <1>2, <2>1
<1>4. \A i \in 1..Len(queue'[b]) : i \in 1..Len(queue[b]) \/ i = Len(queue[b]) + 1
  BY <1>3
<1>5. Len(queue[b]) + 1 \in 1..Len(queue'[b]) /\ \A i \in 1..Len(queue[b]) : i \in 1..Len(queue'[b])
  BY <1>3
<1>6. QED BY <1>2, <1>3, <1>4, <1>5

LEMMA HeldPushNormal ==
  ASSUME PoolInv, Held, NEW w \in Workers, PushNormal(w)
  PROVE  Held'
<1> DEFINE b == at[w]
           s == skb[b][row[w]]
<1>1. b \in Blocks /\ Alive(b) /\ row[w] \in 1..Len(skb[b]) /\ s \in Nat
  BY RowFound
<1>2. Enqueue(b, s) /\ normal' = normal \cup {s} /\ pool' = pool /\ skb' = skb /\ pc' = pc /\ curr_block' = curr_block
  BY DEF PushNormal, CodePush, blocks
<1>3. s \in pool.used
  BY <1>1 DEF Held, PacketsUsed
<1>f. \A c : Freed(c)' <=> Freed(c)
  BY <1>2 DEF Freed
<1>g. ~Freed(b)
  BY <1>1 DEF Freed, Alive
<1> HIDE DEF s, b
<1>4. /\ \A c \in Blocks : \A i \in 1..Len(queue[c]) : i \in 1..Len(queue'[c]) /\ queue'[c][i] = queue[c][i]
      /\ \A c \in Blocks : \A i \in 1..Len(queue'[c]) :
            \/ i \in 1..Len(queue[c]) /\ queue'[c][i] = queue[c][i]
            \/ c = b /\ i = Len(queue[b]) + 1 /\ queue'[c][i] = s
  BY <1>1, <1>2, Enqueued
<1>5. \A c \in Blocks : \A i \in 1..Len(queue[c]) : queue[c][i] = s => s \in normal
  BY <1>1 DEF Held, CodedNoPacket, s
<1>6. PacketsUsed' /\ PacketsOnce'
  BY <1>2 DEF Held, PacketsUsed, PacketsOnce
<1>7. ASSUME NEW c \in Blocks, NEW i \in 1..Len(queue'[c]), queue'[c][i] \notin normal'
      PROVE  i \in 1..Len(queue[c]) /\ queue'[c][i] = queue[c][i] /\ queue[c][i] \notin normal /\ queue[c][i] # s
  BY <1>2, <1>4, <1>7
<1>8. CodedUsed'
  BY <1>2, <1>7 DEF Held, CodedUsed
<1>9. CodedNoPacket'
  <2> SUFFICES ASSUME NEW c \in Blocks, NEW e \in Blocks, NEW i \in 1..Len(queue'[c]), NEW j \in 1..Len(skb[e]),
                      queue'[c][i] \notin normal'
               PROVE  queue'[c][i] # skb[e][j]
    BY <1>2 DEF CodedNoPacket
  <2>1. i \in 1..Len(queue[c]) /\ queue'[c][i] = queue[c][i] /\ queue[c][i] \notin normal
    BY <1>7
  <2>2. QED BY <2>1 DEF Held, CodedNoPacket
<1>10. CodedOnce'
  <2> SUFFICES ASSUME NEW c \in Blocks, NEW e \in Blocks, NEW i \in 1..Len(queue'[c]), NEW j \in 1..Len(queue'[e]),
                      queue'[c][i] \notin normal', queue'[c][i] = queue'[e][j]
               PROVE  c = e /\ i = j
    BY DEF CodedOnce
  <2>1. i \in 1..Len(queue[c]) /\ queue'[c][i] = queue[c][i] /\ queue[c][i] \notin normal
    BY <1>7
  <2>2. queue'[e][j] \notin normal'
    OBVIOUS
  <2>3. j \in 1..Len(queue[e]) /\ queue'[e][j] = queue[e][j]
    BY <1>7, <2>2
  <2>4. queue[c][i] = queue[e][j]
    BY <2>1, <2>3
  <2>5. QED BY <2>1, <2>3, <2>4 DEF Held, CodedOnce
<1>11. UsedHeld'
  <2> SUFFICES ASSUME NEW u \in pool.used PROVE IsPacket(u)' \/ (u \notin normal' /\ IsQueued(u)')
    BY <1>2 DEF UsedHeld
  <2>1. IsPacket(u)' <=> IsPacket(u)
    BY <1>2 DEF IsPacket
  <2>2. IsPacket(s)
    BY <1>1 DEF IsPacket, s
  <2>3. CASE u # s /\ ~IsPacket(u)
    <3>1. u \notin normal' /\ IsQueued(u)
      BY <1>2, <2>3 DEF Held, UsedHeld
    <3>2. PICK c \in Blocks : \E i \in 1..Len(queue[c]) : queue[c][i] = u
      BY <3>1 DEF IsQueued
    <3>3. \E i \in 1..Len(queue'[c]) : queue'[c][i] = u
      BY <1>4, <3>2
    <3>4. QED BY <3>1, <3>3 DEF IsQueued
  <2>4. QED BY <2>1, <2>2, <2>3
<1>12. FreedRows'
  <2> SUFFICES ASSUME NEW c \in Blocks, NEW i \in 1..Len(queue'[c]), Freed(c), queue'[c][i] \in normal'
               PROVE  queue'[c][i] \notin pool.used
    BY <1>2, <1>f DEF FreedRows
  <2>1. i \in 1..Len(queue[c]) /\ queue'[c][i] = queue[c][i]
    BY <1>4, <1>g
  <2>2. queue[c][i] \in normal
    BY <1>2, <1>5, <2>1
  <2>3. QED BY <2>1, <2>2 DEF Held, FreedRows
<1>13. QueuedRows'
  <2> SUFFICES ASSUME NEW c \in Blocks, NEW i \in 1..Len(queue'[c]), ~Freed(c), queue'[c][i] \in normal'
               PROVE  \E j \in 1..Len(skb[c]) : skb[c][j] = queue'[c][i]
    BY <1>2, <1>f DEF QueuedRows
  <2>1. CASE i \in 1..Len(queue[c]) /\ queue'[c][i] = queue[c][i]
    <3>1. queue[c][i] \in normal
      BY <1>2, <1>5, <2>1
    <3>2. \E j \in 1..Len(skb[c]) : skb[c][j] = queue[c][i]
      BY <2>1, <3>1 DEF Held, QueuedRows
    <3>3. QED BY <2>1, <3>2
  <2>2. CASE c = b /\ queue'[c][i] = s
    <3>1. row[w] \in 1..Len(skb[c]) /\ skb[c][row[w]] = queue'[c][i]
      BY <1>1, <2>2 DEF s
    <3>2. QED BY <3>1
  <2>3. QED BY <1>4, <2>1, <2>2
<1>14. QED BY <1>6, <1>8, <1>9, <1>10, <1>11, <1>12, <1>13 DEF Held

LEMMA HeldPushCoded ==
  ASSUME PoolInv, Held, NEW w \in Workers, PushCoded(w), early' = {}
  PROVE  Held'
<1> DEFINE b == at[w]
           s == Head(alloc_skb(1))
<1>0. b \in Blocks /\ 1 \in Nat /\ PoolOK(pool) /\ curr_block \in Blocks
  BY Reads, ThreadFacts DEF PoolInv, LocksInv, TypeInv, BlockTypes
<1>1. /\ Enqueue(b, s) /\ normal' = normal \ {s} /\ pool' = Allocated(1) /\ skb' = skb /\ pc' = pc /\ curr_block' = curr_block
  BY DEF PushCoded, CodePush, blocks
<1>2. s = alloc_skb(1)[1] /\ s \in Nat
  BY <1>0, AllocMany
<1>3. s \notin pool.used /\ pool'.used = pool.used \cup {s}
  <2>1. {alloc_skb(1)[i] : i \in 1..1} = {alloc_skb(1)[1]} /\ 1 \in 1..1
    OBVIOUS
  <2>2. alloc_skb(1)[1] \notin pool.used /\ Allocated(1).used = pool.used \cup {alloc_skb(1)[i] : i \in 1..1}
    BY <1>0, <2>1, AllocMany
  <2>3. QED BY <1>1, <1>2, <2>1, <2>2
<1>e. ASSUME NEW i \in 1..Len(queue[curr_block]), pc[Srv] = "ack_qfree", queue[curr_block][i] = s PROVE FALSE
  <2>1. early' = early \cup ({s} \cap ToSet(queue[curr_block]))
    BY <1>e DEF PushCoded
  <2>2. s \in ToSet(queue[curr_block])
    BY <1>e DEF ToSet
  <2>3. QED BY <2>1, <2>2
<1> HIDE DEF b, s
<1>f. \A c : Freed(c)' <=> Freed(c)
  BY <1>1 DEF Freed
<1>4. \A c \in Blocks : \A i \in 1..Len(queue[c]) : queue[c][i] # s
  <2> SUFFICES ASSUME NEW c \in Blocks, NEW i \in 1..Len(queue[c]), queue[c][i] = s PROVE FALSE
    OBVIOUS
  <2>1. CASE s \notin normal
    BY <1>3, <2>1 DEF Held, CodedUsed
  <2>2. CASE s \in normal /\ ~Freed(c)
    <3>1. PICK j \in 1..Len(skb[c]) : skb[c][j] = s
      BY <2>2 DEF Held, QueuedRows
    <3>2. QED BY <1>3, <3>1 DEF Held, PacketsUsed
  <2>3. CASE Freed(c)
    BY <1>e, <2>3 DEF Freed
  <2>4. QED BY <2>1, <2>2, <2>3
<1>5. /\ \A c \in Blocks : \A i \in 1..Len(queue[c]) : i \in 1..Len(queue'[c]) /\ queue'[c][i] = queue[c][i]
      /\ \A c \in Blocks : \A i \in 1..Len(queue'[c]) :
            \/ i \in 1..Len(queue[c]) /\ queue'[c][i] = queue[c][i]
            \/ c = b /\ i = Len(queue[b]) + 1 /\ queue'[c][i] = s
      /\ Len(queue[b]) + 1 \in 1..Len(queue'[b]) /\ queue'[b][Len(queue[b]) + 1] = s
  <2>1. b \in Blocks /\ s \in Nat /\ Enqueue(b, s)
    BY <1>0, <1>1, <1>2
  <2>2. QED BY ONLY PoolInv, <2>1, Enqueued
<1>6. PacketsUsed' /\ PacketsOnce'
  BY <1>1, <1>3 DEF Held, PacketsUsed, PacketsOnce
<1>7. ASSUME NEW c \in Blocks, NEW i \in 1..Len(queue'[c]), queue'[c][i] # s
      PROVE  i \in 1..Len(queue[c]) /\ queue'[c][i] = queue[c][i]
  BY <1>5, <1>7
<1>8. ASSUME NEW c \in Blocks, NEW i \in 1..Len(queue'[c]), queue'[c][i] = s
      PROVE  c = b /\ i = Len(queue[b]) + 1
  BY <1>4, <1>5, <1>8
<1>9. CodedUsed'
  <2> SUFFICES ASSUME NEW c \in Blocks, NEW i \in 1..Len(queue'[c]), queue'[c][i] \notin normal'
               PROVE  queue'[c][i] \in pool'.used
    BY DEF CodedUsed
  <2>1. CASE queue'[c][i] = s
    BY <1>3, <2>1
  <2>2. CASE queue'[c][i] # s
    <3>1. i \in 1..Len(queue[c]) /\ queue'[c][i] = queue[c][i] /\ queue[c][i] \notin normal
      BY <1>1, <1>7, <2>2
    <3>2. QED BY <1>3, <3>1 DEF Held, CodedUsed
  <2>3. QED BY <2>1, <2>2
<1>10. CodedNoPacket'
  <2> SUFFICES ASSUME NEW c \in Blocks, NEW e \in Blocks, NEW i \in 1..Len(queue'[c]), NEW j \in 1..Len(skb[e]),
                      queue'[c][i] \notin normal'
               PROVE  queue'[c][i] # skb[e][j]
    BY <1>1 DEF CodedNoPacket
  <2>1. CASE queue'[c][i] = s
    BY <1>3, <2>1 DEF Held, PacketsUsed
  <2>2. CASE queue'[c][i] # s
    <3>1. i \in 1..Len(queue[c]) /\ queue'[c][i] = queue[c][i] /\ queue[c][i] \notin normal
      BY <1>1, <1>7, <2>2
    <3>2. QED BY <3>1 DEF Held, CodedNoPacket
  <2>3. QED BY <2>1, <2>2
<1>11. CodedOnce'
  <2> SUFFICES ASSUME NEW c \in Blocks, NEW e \in Blocks, NEW i \in 1..Len(queue'[c]), NEW j \in 1..Len(queue'[e]),
                      queue'[c][i] \notin normal', queue'[c][i] = queue'[e][j]
               PROVE  c = e /\ i = j
    BY DEF CodedOnce
  <2>1. CASE queue'[c][i] = s
    <3>1. queue'[e][j] = s
      BY <2>1
    <3>2. QED BY <1>8, <2>1, <3>1
  <2>2. CASE queue'[c][i] # s
    <3>1. i \in 1..Len(queue[c]) /\ queue'[c][i] = queue[c][i] /\ queue[c][i] \notin normal
      BY <1>1, <1>7, <2>2
    <3>2. queue'[e][j] # s
      BY <2>2
    <3>3. j \in 1..Len(queue[e]) /\ queue'[e][j] = queue[e][j]
      BY <1>7, <3>2
    <3>4. queue[c][i] = queue[e][j]
      BY <3>1, <3>3
    <3>5. QED BY <3>1, <3>3, <3>4 DEF Held, CodedOnce
  <2>3. QED BY <2>1, <2>2
<1>12. UsedHeld'
  <2> SUFFICES ASSUME NEW u \in pool'.used PROVE IsPacket(u)' \/ (u \notin normal' /\ IsQueued(u)')
    BY DEF UsedHeld
  <2>1. IsPacket(u)' <=> IsPacket(u)
    BY <1>1 DEF IsPacket
  <2>2. CASE u = s
    <3>1. IsQueued(u)'
      BY <1>0, <1>5, <2>2 DEF IsQueued
    <3>2. QED BY <1>1, <2>2, <3>1
  <2>3. CASE u # s /\ ~IsPacket(u)
    <3>1. u \notin normal' /\ IsQueued(u)
      BY <1>1, <1>3, <2>3 DEF Held, UsedHeld
    <3>2. PICK c \in Blocks : \E i \in 1..Len(queue[c]) : queue[c][i] = u
      BY <3>1 DEF IsQueued
    <3>3. \E i \in 1..Len(queue'[c]) : queue'[c][i] = u
      BY <1>5, <3>2
    <3>4. QED BY <3>1, <3>3 DEF IsQueued
  <2>4. QED BY <2>1, <2>2, <2>3
<1>13. ASSUME NEW c \in Blocks, NEW i \in 1..Len(queue'[c]), queue'[c][i] \in normal'
       PROVE  i \in 1..Len(queue[c]) /\ queue'[c][i] = queue[c][i] /\ queue[c][i] \in normal /\ queue[c][i] # s
  BY <1>1, <1>7, <1>13
<1>14. FreedRows'
  <2> SUFFICES ASSUME NEW c \in Blocks, NEW i \in 1..Len(queue'[c]), Freed(c), queue'[c][i] \in normal'
               PROVE  queue'[c][i] \notin pool'.used
    BY <1>f DEF FreedRows
  <2>1. i \in 1..Len(queue[c]) /\ queue'[c][i] = queue[c][i] /\ queue[c][i] \in normal /\ queue[c][i] # s
    BY <1>13
  <2>2. QED BY <1>3, <2>1 DEF Held, FreedRows
<1>15. QueuedRows'
  <2> SUFFICES ASSUME NEW c \in Blocks, NEW i \in 1..Len(queue'[c]), ~Freed(c), queue'[c][i] \in normal'
               PROVE  \E j \in 1..Len(skb[c]) : skb[c][j] = queue'[c][i]
    BY <1>1, <1>f DEF QueuedRows
  <2>1. i \in 1..Len(queue[c]) /\ queue'[c][i] = queue[c][i] /\ queue[c][i] \in normal
    BY <1>13
  <2>2. \E j \in 1..Len(skb[c]) : skb[c][j] = queue[c][i]
    BY <2>1 DEF Held, QueuedRows
  <2>3. QED BY <2>1, <2>2
<1>16. QED BY <1>6, <1>9, <1>10, <1>11, <1>12, <1>14, <1>15 DEF Held

LEMMA HeldSegsPop ==
  ASSUME PoolInv, Held, PSegsPop
  PROVE  Held'
<1> DEFINE b == at[Srv]
           h == Head(queue[b])
<1>0. b \in Blocks /\ SeqTypes /\ PoolOK(pool)
  BY Reads, ThreadFacts DEF PoolInv
<1>1. /\ pool' = SentOne(h) /\ queue' = [queue EXCEPT ![b] = Tail(@)] /\ normal' = normal /\ skb' = skb
      /\ coded_q[b] > 0
  BY DEF PSegsPop, SegsPop
<1>s. normal' = normal /\ skb' = skb
  BY <1>1
<1>2. queue[b] \in Seq(Nat) /\ Len(queue[b]) > 0 /\ Len(queue[b]) \in Nat
  BY <1>0, <1>1, PoolReads
<1>f. \A c \in Blocks : ~Freed(c) /\ ~Freed(c)'
  BY ThreadFacts DEF PSegsPop, SegsPop, Go, Freed, PoolInv, LocksInv, TypeInv, ThreadTypes
<1>3. h = queue[b][1] /\ 1 \in 1..Len(queue[b])
  BY <1>2
<1> HIDE DEF b, h
<1>4. pool'.used \subseteq pool.used /\ \A u \in pool.used : u \notin pool'.used <=> u = h /\ h \notin normal
  BY <1>0, <1>1, FreeOne DEF SentOne
<1>5. queue'[b] = Tail(queue[b]) /\ \A c \in Blocks : c # b => queue'[c] = queue[c]
  BY <1>0, <1>1 DEF SeqTypes
<1>6. /\ Len(queue'[b]) = Len(queue[b]) - 1
      /\ \A i \in 1..Len(queue'[b]) : i + 1 \in 1..Len(queue[b]) /\ queue'[b][i] = queue[b][i + 1]
  <2>1. Len(Tail(queue[b])) = Len(queue[b]) - 1
        /\ \A i \in 1..Len(queue[b]) - 1 : Tail(queue[b])[i] = queue[b][i + 1]
    BY ONLY <1>2
  <2>2. \A i \in 1..Len(queue[b]) - 1 : i + 1 \in 1..Len(queue[b])
    BY ONLY <1>2
  <2>3. QED BY ONLY <1>5, <2>1, <2>2
<1> DEFINE Was(c, i) == IF c = b THEN i + 1 ELSE i
<1>7. \A c \in Blocks : \A i \in 1..Len(queue'[c]) :
        Was(c, i) \in 1..Len(queue[c]) /\ queue'[c][i] = queue[c][Was(c, i)]
  BY <1>5, <1>6
<1>8. \A c \in Blocks : \A k \in 1..Len(queue[c]) :
        (c = b /\ k = 1) \/ \E i \in 1..Len(queue'[c]) : queue'[c][i] = queue[c][k]
  <2> SUFFICES ASSUME NEW c \in Blocks, NEW k \in 1..Len(queue[c]), ~(c = b /\ k = 1)
               PROVE  \E i \in 1..Len(queue'[c]) : queue'[c][i] = queue[c][k]
    OBVIOUS
  <2>1. CASE c # b
    BY <1>5, <2>1
  <2>2. CASE c = b
    <3>1. k - 1 \in 1..Len(queue'[b]) /\ (k - 1) + 1 = k
      BY <1>2, <1>6, <2>2
    <3>2. queue'[b][k - 1] = queue[b][k]
      BY <1>6, <3>1
    <3>3. QED BY <2>2, <3>1, <3>2
  <2>3. QED BY <2>1, <2>2
<1>9. \A c \in Blocks : \A i \in 1..Len(queue'[c]) : ~(c = b /\ Was(c, i) = 1)
  <2> SUFFICES ASSUME NEW i \in 1..Len(queue'[b]) PROVE i + 1 # 1
    OBVIOUS
  <2>1. i >= 1 /\ i \in Int
    BY <1>2, <1>6
  <2>2. QED BY <2>1
<1>10. \A c \in Blocks : \A i, j \in 1..Len(queue'[c]) : Was(c, i) = Was(c, j) => i = j
  BY <1>2, <1>6
<1> HIDE DEF Was
<1>11. ASSUME NEW c \in Blocks, NEW i \in 1..Len(queue'[c]), queue'[c][i] \notin normal'
       PROVE  queue'[c][i] # h /\ queue'[c][i] \in pool'.used
  <2>1. queue[c][Was(c, i)] \notin normal /\ Was(c, i) \in 1..Len(queue[c]) /\ queue'[c][i] = queue[c][Was(c, i)]
    BY <1>1, <1>7, <1>11
  <2>2. queue[c][Was(c, i)] # h
    BY <1>0, <1>3, <1>9, <2>1 DEF Held, CodedOnce
  <2>3. queue[c][Was(c, i)] \in pool.used
    BY <2>1 DEF Held, CodedUsed
  <2>4. QED BY <1>4, <2>1, <2>2, <2>3
<1>12. PacketsUsed'
  <2> SUFFICES ASSUME NEW c \in Blocks, NEW i \in 1..Len(skb[c]) PROVE skb[c][i] \in pool'.used
    BY <1>1 DEF PacketsUsed
  <2>1. h \notin normal => skb[c][i] # h
    BY <1>0, <1>3 DEF Held, CodedNoPacket
  <2>2. skb[c][i] \in pool.used
    BY DEF Held, PacketsUsed
  <2>3. QED BY <1>4, <2>1, <2>2
<1>13. PacketsOnce'
  BY <1>1 DEF Held, PacketsOnce
<1>14. CodedUsed'
  BY <1>11 DEF CodedUsed
<1>15. CodedNoPacket'
  <2> SUFFICES ASSUME NEW c \in Blocks, NEW e \in Blocks, NEW i \in 1..Len(queue'[c]), NEW j \in 1..Len(skb[e]),
                      queue'[c][i] \notin normal
               PROVE  queue'[c][i] # skb[e][j]
    BY <1>s DEF CodedNoPacket
  <2>1. Was(c, i) \in 1..Len(queue[c]) /\ queue'[c][i] = queue[c][Was(c, i)]
    BY <1>7
  <2>2. QED BY <2>1 DEF Held, CodedNoPacket
<1>16. CodedOnce'
  <2> SUFFICES ASSUME NEW c \in Blocks, NEW e \in Blocks, NEW i \in 1..Len(queue'[c]), NEW j \in 1..Len(queue'[e]),
                      queue'[c][i] \notin normal, queue'[c][i] = queue'[e][j]
               PROVE  c = e /\ i = j
    BY <1>s DEF CodedOnce
  <2>1. Was(c, i) \in 1..Len(queue[c]) /\ queue'[c][i] = queue[c][Was(c, i)]
    BY <1>7
  <2>2. Was(e, j) \in 1..Len(queue[e]) /\ queue'[e][j] = queue[e][Was(e, j)]
    BY <1>7
  <2>3. c = e /\ Was(c, i) = Was(e, j)
    <3>1. queue[c][Was(c, i)] \notin normal /\ queue[c][Was(c, i)] = queue[e][Was(e, j)]
      BY <2>1, <2>2
    <3>2. \A x \in 1..Len(queue[c]), y \in 1..Len(queue[e]) :
             queue[c][x] \notin normal /\ queue[c][x] = queue[e][y] => c = e /\ x = y
      BY DEF Held, CodedOnce
    <3>3. QED BY <2>1, <2>2, <3>1, <3>2
  <2>4. QED BY <1>10, <2>3
<1>17. UsedHeld'
  <2> SUFFICES ASSUME NEW u \in pool'.used PROVE IsPacket(u)' \/ (u \notin normal /\ IsQueued(u)')
    BY <1>1 DEF UsedHeld
  <2>1. IsPacket(u)' <=> IsPacket(u)
    BY <1>1 DEF IsPacket
  <2>2. CASE ~IsPacket(u)
    <3>1. u \notin normal /\ IsQueued(u)
      BY <1>4, <2>2 DEF Held, UsedHeld
    <3>2. PICK c \in Blocks : \E k \in 1..Len(queue[c]) : queue[c][k] = u
      BY <3>1 DEF IsQueued
    <3>3. PICK k \in 1..Len(queue[c]) : queue[c][k] = u
      BY <3>2
    <3>4. u # h
      BY <1>4, <3>1
    <3>5. \E i \in 1..Len(queue'[c]) : queue'[c][i] = u
      BY <1>3, <1>8, <3>3, <3>4
    <3>6. QED BY <3>1, <3>5 DEF IsQueued
  <2>3. QED BY <2>1, <2>2
<1>18. FreedRows'
  BY <1>f DEF FreedRows
<1>19. QueuedRows'
  <2> SUFFICES ASSUME NEW c \in Blocks, NEW i \in 1..Len(queue'[c]), queue'[c][i] \in normal
               PROVE  \E j \in 1..Len(skb[c]) : skb[c][j] = queue'[c][i]
    BY <1>1 DEF QueuedRows
  <2>1. Was(c, i) \in 1..Len(queue[c]) /\ queue'[c][i] = queue[c][Was(c, i)]
    BY <1>7
  <2>2. \E j \in 1..Len(skb[c]) : skb[c][j] = queue[c][Was(c, i)]
    BY <1>f, <2>1 DEF Held, QueuedRows
  <2>3. QED BY <2>1, <2>2
<1>20. QED BY <1>12, <1>13, <1>14, <1>15, <1>16, <1>17, <1>18, <1>19 DEF Held

LEMMA HeldFreeBlock ==
  ASSUME PoolInv, Held, freeBlock
  PROVE  Held'
<1> DEFINE m == curr_block
<1>0. m \in Blocks /\ SeqTypes /\ PoolOK(pool) /\ skb[m] \in Seq(Nat)
  BY PoolReads DEF PoolInv, LocksInv, TypeInv, BlockTypes
<1>1. /\ pool' = FreeAll(pool, skb[m]) /\ skb' = [skb EXCEPT ![m] = <<>>] /\ queue' = queue /\ normal' = normal
      /\ pc[Srv] = "ack_free" /\ curr_block' = curr_block
  BY DEF freeBlock, AckFree, blocks
<1>2. pool'.used = pool.used \ {skb[m][i] : i \in 1..Len(skb[m])}
  BY <1>0, <1>1, FreeMany
<1>f. \A c \in Blocks : ~Freed(c) /\ (Freed(c)' => c = m)
  BY <1>1 DEF Freed
<1>g. \A c \in Blocks : ~Freed(c)' => c # m
  <2>1. pc'[Srv] = "ack_qfree"
    BY ThreadFacts DEF freeBlock, AckFree, Go, PoolInv, LocksInv, TypeInv, ThreadTypes
  <2>2. QED BY <1>1, <2>1 DEF Freed
<1> HIDE DEF m
<1>3. skb'[m] = <<>> /\ \A c \in Blocks : c # m => skb'[c] = skb[c]
  BY <1>0, <1>1 DEF SeqTypes
<1>4. \A c \in Blocks : \A i \in 1..Len(skb'[c]) : c # m /\ skb'[c] = skb[c]
  <2>1. 1..Len(<<>>) = {}
    OBVIOUS
  <2>2. QED BY <1>3, <2>1
<1>5. PacketsUsed'
  <2> SUFFICES ASSUME NEW c \in Blocks, NEW i \in 1..Len(skb[c]), c # m PROVE skb[c][i] \in pool'.used
    BY <1>4 DEF PacketsUsed
  <2>1. \A k \in 1..Len(skb[m]) : skb[m][k] # skb[c][i]
    BY <1>0 DEF Held, PacketsOnce
  <2>2. QED BY <1>2, <2>1 DEF Held, PacketsUsed
<1>6. PacketsOnce'
  BY <1>4 DEF Held, PacketsOnce
<1>7. CodedUsed'
  <2> SUFFICES ASSUME NEW c \in Blocks, NEW i \in 1..Len(queue[c]), queue[c][i] \notin normal
               PROVE  queue[c][i] \in pool'.used
    BY <1>1 DEF CodedUsed
  <2>1. \A k \in 1..Len(skb[m]) : skb[m][k] # queue[c][i]
    BY <1>0 DEF Held, CodedNoPacket
  <2>2. QED BY <1>2, <2>1 DEF Held, CodedUsed
<1>8. CodedNoPacket' /\ CodedOnce'
  BY <1>1, <1>4 DEF Held, CodedNoPacket, CodedOnce
<1>9. UsedHeld'
  <2> SUFFICES ASSUME NEW u \in pool'.used PROVE IsPacket(u)' \/ (u \notin normal /\ IsQueued(u))
    BY <1>1 DEF UsedHeld, IsQueued
  <2>1. CASE IsPacket(u)
    <3>1. PICK c \in Blocks : \E i \in 1..Len(skb[c]) : skb[c][i] = u
      BY <2>1 DEF IsPacket
    <3>2. c # m
      BY <1>2, <3>1
    <3>3. \E i \in 1..Len(skb'[c]) : skb'[c][i] = u
      BY <1>3, <3>1, <3>2
    <3>4. QED BY <3>3 DEF IsPacket
  <2>2. CASE ~IsPacket(u)
    BY <1>2, <2>2 DEF Held, UsedHeld
  <2>3. QED BY <2>1, <2>2
<1>10. FreedRows'
  <2> SUFFICES ASSUME NEW i \in 1..Len(queue[m]), queue[m][i] \in normal PROVE queue[m][i] \notin pool'.used
    BY <1>1, <1>f DEF FreedRows
  <2>1. \E j \in 1..Len(skb[m]) : skb[m][j] = queue[m][i]
    BY <1>0, <1>f DEF Held, QueuedRows
  <2>2. QED BY <1>2, <2>1
<1>11. QueuedRows'
  <2> SUFFICES ASSUME NEW c \in Blocks, NEW i \in 1..Len(queue[c]), c # m, queue[c][i] \in normal
               PROVE  \E j \in 1..Len(skb[c]) : skb[c][j] = queue[c][i]
    <3>1. queue' = queue /\ normal' = normal /\ \A c \in Blocks : ~Freed(c)' => skb'[c] = skb[c]
      BY <1>1, <1>3, <1>g
    <3>2. QED BY <1>g, <3>1 DEF QueuedRows
  <2>1. QED BY <1>f DEF Held, QueuedRows
<1>12. QED BY <1>5, <1>6, <1>7, <1>8, <1>9, <1>10, <1>11 DEF Held

LEMMA HeldQFree ==
  ASSUME PoolInv, Held, NEW a, q_free(a), dropped' = {}
  PROVE  Held'
<1> DEFINE m == curr_block
           Gone == {Reached(m)[i] : i \in 1..Len(Reached(m))}
<1>0. m \in Blocks /\ m \in Nat /\ SeqTypes /\ PoolOK(pool) /\ queue[m] \in Seq(Nat)
  BY PoolReads, BlockFacts DEF PoolInv, LocksInv, TypeInv, BlockTypes
<1>1. /\ pool' = FreeAll(pool, Reached(m)) /\ skb' = skb /\ queue' = [queue EXCEPT ![m] = <<>>] /\ normal' = normal
      /\ pc[Srv] = "ack_qfree" /\ curr_block' = m + 1
      /\ dropped' = dropped \cup (ToSet(queue[m]) \ (ToSet(Reached(m)) \cup normal))
  BY DEF q_free, AckQFree
<1>2. Reached(m) \in Seq(Nat) /\ Gone \subseteq {queue[m][i] : i \in 1..Len(queue[m])}
  BY <1>0, ReachedIs
<1>3. pool'.used = pool.used \ Gone
  BY <1>0, <1>1, <1>2, FreeMany
<1>4. \A i \in 1..Len(queue[m]) : queue[m][i] \in Gone \/ queue[m][i] \in normal
  <2>1. ToSet(Reached(m)) = Gone
    BY DEF ToSet
  <2>2. \A i \in 1..Len(queue[m]) : queue[m][i] \in ToSet(queue[m])
    BY DEF ToSet
  <2> HIDE DEF Gone
  <2>3. QED BY <1>1, <2>1, <2>2
<1>f. \A c \in Blocks : ~Freed(c)' /\ (Freed(c) <=> c = m)
  <2>1. pc'[Srv] # "ack_qfree"
    BY ThreadFacts DEF q_free, AckQFree, Go, PoolInv, LocksInv, TypeInv, ThreadTypes
  <2>2. QED BY <1>1, <2>1 DEF Freed
<1> HIDE DEF m, Gone
<1>5. queue'[m] = <<>> /\ \A c \in Blocks : c # m => queue'[c] = queue[c]
  BY <1>0, <1>1 DEF SeqTypes
<1>6. \A c \in Blocks : \A i \in 1..Len(queue'[c]) : c # m /\ queue'[c] = queue[c]
  <2>1. 1..Len(<<>>) = {}
    OBVIOUS
  <2>2. QED BY <1>5, <2>1
<1>7. PacketsUsed'
  <2> SUFFICES ASSUME NEW c \in Blocks, NEW i \in 1..Len(skb[c]) PROVE skb[c][i] \in pool'.used
    BY <1>1 DEF PacketsUsed
  <2>1. skb[c][i] \in pool.used
    BY DEF Held, PacketsUsed
  <2>2. \A k \in 1..Len(queue[m]) : queue[m][k] # skb[c][i]
    BY <1>0, <1>f, <2>1 DEF Held, CodedNoPacket, FreedRows
  <2>3. skb[c][i] \notin Gone
    BY <1>2, <2>2
  <2>4. QED BY <1>3, <2>1, <2>3
<1>8. PacketsOnce'
  BY <1>1 DEF Held, PacketsOnce
<1>9. CodedUsed'
  <2> SUFFICES ASSUME NEW c \in Blocks, c # m, NEW i \in 1..Len(queue[c]), queue[c][i] \notin normal
               PROVE  queue[c][i] \in pool'.used
    BY <1>1, <1>6 DEF CodedUsed
  <2>1. queue[c][i] \in pool.used
    BY DEF Held, CodedUsed
  <2>2. \A k \in 1..Len(queue[m]) : queue[m][k] # queue[c][i]
    BY <1>0 DEF Held, CodedOnce
  <2>3. queue[c][i] \notin Gone
    BY <1>2, <2>2
  <2>4. QED BY <1>3, <2>1, <2>3
<1>10. CodedNoPacket' /\ CodedOnce'
  BY <1>1, <1>6 DEF Held, CodedNoPacket, CodedOnce
<1>11. UsedHeld'
  <2> SUFFICES ASSUME NEW u \in pool'.used PROVE IsPacket(u) \/ (u \notin normal /\ IsQueued(u)')
    BY <1>1 DEF UsedHeld, IsPacket
  <2>1. CASE ~IsPacket(u)
    <3>1. u \notin normal /\ IsQueued(u) /\ u \notin Gone
      BY <1>3, <2>1 DEF Held, UsedHeld
    <3>2. PICK c \in Blocks : \E k \in 1..Len(queue[c]) : queue[c][k] = u
      BY <3>1 DEF IsQueued
    <3>3. c # m
      BY <1>4, <3>1, <3>2
    <3>4. \E i \in 1..Len(queue'[c]) : queue'[c][i] = u
      BY <1>5, <3>2, <3>3
    <3>5. QED BY <3>1, <3>4 DEF IsQueued
  <2>2. QED BY <2>1
<1>12. FreedRows'
  BY <1>f DEF FreedRows
<1>13. QueuedRows'
  <2> SUFFICES ASSUME NEW c \in Blocks, c # m, NEW i \in 1..Len(queue[c]), queue[c][i] \in normal
               PROVE  \E j \in 1..Len(skb[c]) : skb[c][j] = queue[c][i]
    BY <1>1, <1>6 DEF QueuedRows
  <2>1. QED BY <1>f DEF Held, QueuedRows
<1>14. QED BY <1>7, <1>8, <1>9, <1>10, <1>11, <1>12, <1>13 DEF Held

LEMMA HeldInit == PInit => HeldInv
<1> SUFFICES ASSUME PInit PROVE Held
  BY DEF HeldInv
<1>1. /\ \A b \in Blocks : skb[b] = <<>> /\ queue[b] = <<>>
      /\ pool.used = {} /\ 1..Len(<<>>) = {}
  BY DEF PInit
<1>2. QED BY <1>1 DEF Held, PacketsUsed, PacketsOnce, CodedUsed, CodedNoPacket, CodedOnce, UsedHeld,
                      FreedRows, QueuedRows

LEMMA HeldStep == PoolInv /\ HeldInv /\ [PNext]_pvars => HeldInv'
<1> SUFFICES ASSUME PoolInv, HeldInv, [PNext]_pvars, early' = {}, dropped' = {} PROVE Held'
  BY DEF HeldInv
<1>0. ThreadTypes /\ BlockTypes
  BY DEF PoolInv, LocksInv, TypeInv
<1>1. Held
  <2>1. early \subseteq early' /\ dropped \subseteq dropped'
    BY DEF PNext, Calls, PSending, PSegs, PAck, PCoding, PSendAdd, PTakeJob, PushNormal, PushCoded, PSegsPop,
           freeBlock, q_free, pvars, buffers
  <2>2. QED BY <2>1 DEF HeldInv
<1>2. ASSUME UNCHANGED <<pool, skb, queue, normal>>, curr_block' = curr_block,
             pc'[Srv] = "ack_qfree" <=> pc[Srv] = "ack_qfree"
      PROVE  Held'
  BY <1>1, <1>2, HeldQuiet DEF Freed
<1>3. CASE Calls /\ UNCHANGED buffers
  <2>1. UNCHANGED <<pool, skb, queue, normal>> /\ curr_block' = curr_block
    BY <1>3 DEF Calls, SendCtcp, SendSegs, AckLock, buffers, blocks
  <2>2. pc'[Srv] = "ack_qfree" <=> pc[Srv] = "ack_qfree"
    BY <1>0, <1>3, ThreadFacts DEF Calls, SendCtcp, SendSegs, AckLock, Go, ThreadTypes
  <2>3. QED BY <1>2, <2>1, <2>2
<1>4. CASE (SendLock \/ AckNote \/ SegsLock \/ SegsAdd \/ SegsLoop \/ SegsRelock) /\ UNCHANGED buffers
  <2>1. UNCHANGED <<pool, skb, queue, normal>> /\ curr_block' = curr_block
    BY <1>4 DEF SendLock, AckNote, SegsLock, SegsAdd, SegsLoop, SegsRelock, buffers, blocks
  <2>2. pc'[Srv] = "ack_qfree" <=> pc[Srv] = "ack_qfree"
    BY <1>0, <1>4, ThreadFacts DEF SendLock, AckNote, SegsLock, SegsAdd, SegsLoop, SegsRelock, Go, ThreadTypes
  <2>3. QED BY <1>2, <2>1, <2>2
<1>5. ASSUME NEW w \in Workers,
             PTakeJob(w) \/ ((CodeCheck(w) \/ CodeLock(w) \/ CodeDone(w)) /\ UNCHANGED buffers)
      PROVE  Held'
  <2>1. UNCHANGED <<pool, skb, queue, normal>> /\ curr_block' = curr_block
    BY <1>5 DEF PTakeJob, TakeJob, CodeCheck, CodeLock, CodeDone, buffers, blocks
  <2>2. pc'[Srv] = pc[Srv]
    BY <1>0, <1>5, ThreadFacts DEF PTakeJob, TakeJob, CodeCheck, CodeLock, CodeDone, Go, ThreadTypes
  <2>3. QED BY <1>2, <2>1, <2>2
<1>6. ASSUME NEW d \in 1..MaxDofs, NEW n \in BOOLEAN, NEW r \in BOOLEAN, PSendAdd(d, n, r) PROVE Held'
  BY <1>1, <1>6, HeldSendAdd
<1>7. ASSUME NEW w \in Workers, PushNormal(w) \/ PushCoded(w) PROVE Held'
  BY <1>1, <1>7, HeldPushNormal, HeldPushCoded
<1>8. CASE PSegsPop \/ freeBlock
  BY <1>1, <1>8, HeldSegsPop, HeldFreeBlock
<1>9. ASSUME NEW a \in BOOLEAN, q_free(a) PROVE Held'
  BY <1>1, <1>9, HeldQFree
<1>10. CASE UNCHANGED pvars
  BY <1>2, <1>10 DEF pvars, vars, buffers
<1>11. QED
  BY <1>3, <1>4, <1>5, <1>6, <1>7, <1>8, <1>9, <1>10 DEF PNext, PSending, PSegs, PAck, PCoding

(* The holders of a buffer, counted.                                       *)
LEMMA HoldersCounted ==
  ASSUME PoolInv, Held, NEW s \in 1..pool.num
  PROVE  Cardinality(Holders(s)) = IF s \in pool.used THEN 1 ELSE 0
<1>0. \A b \in Blocks : DOMAIN skb[b] = 1..Len(skb[b]) /\ DOMAIN queue[b] = 1..Len(queue[b])
  BY PoolReads
<1>1. \A h : h \in Holders(s) <=>
        \/ \E b \in Blocks : \E i \in 1..Len(skb[b]) : h = <<"block", <<b, i>>>> /\ skb[b][i] = s
        \/ s \notin normal /\ \E b \in Blocks : \E i \in 1..Len(queue[b]) : h = <<"queue", <<b, i>>>> /\ queue[b][i] = s
  <2>1. \A x : x \in Positions(skb, s) <=> \E b \in Blocks : \E i \in 1..Len(skb[b]) : x = <<b, i>> /\ skb[b][i] = s
    BY <1>0 DEF Positions
  <2>2. \A x : x \in Positions(queue, s) <=> \E b \in Blocks : \E i \in 1..Len(queue[b]) : x = <<b, i>> /\ queue[b][i] = s
    BY <1>0 DEF Positions
  <2>3. \A h : h \in Holders(s) <=>
          \/ \E x \in Positions(skb, s) : h = <<"block", x>>
          \/ s \notin normal /\ \E x \in Positions(queue, s) : h = <<"queue", x>>
    BY DEF Holders
  <2>4. QED BY <2>1, <2>2, <2>3
<1>2. CASE s \notin pool.used
  <2>1. Holders(s) = {}
    BY <1>1, <1>2 DEF Held, PacketsUsed, CodedUsed
  <2>2. QED BY <1>2, <2>1, FS_EmptySet
<1>3. CASE s \in pool.used /\ IsPacket(s)
  <2>1. PICK b \in Blocks : \E i \in 1..Len(skb[b]) : skb[b][i] = s
    BY <1>3 DEF IsPacket
  <2>2. PICK i \in 1..Len(skb[b]) : skb[b][i] = s
    BY <2>1
  <2>3. \A c \in Blocks : \A j \in 1..Len(skb[c]) : skb[c][j] = s => c = b /\ j = i
    BY <2>2 DEF Held, PacketsOnce
  <2>4. \A c \in Blocks : \A j \in 1..Len(queue[c]) : queue[c][j] = s => s \in normal
    BY <2>2 DEF Held, CodedNoPacket
  <2>5. Holders(s) = {<<"block", <<b, i>>>>}
    <3>1. \A h \in Holders(s) : h = <<"block", <<b, i>>>>
      BY <1>1, <2>3, <2>4
    <3>2. <<"block", <<b, i>>>> \in Holders(s)
      BY <1>1, <2>2
    <3>3. QED BY <3>1, <3>2
  <2>6. QED BY <1>3, <2>5, FS_Singleton
<1>4. CASE s \in pool.used /\ ~IsPacket(s)
  <2>1. s \notin normal /\ IsQueued(s)
    BY <1>4 DEF Held, UsedHeld
  <2>2. PICK b \in Blocks : \E i \in 1..Len(queue[b]) : queue[b][i] = s
    BY <2>1 DEF IsQueued
  <2>3. PICK i \in 1..Len(queue[b]) : queue[b][i] = s
    BY <2>2
  <2>4. \A c \in Blocks : \A j \in 1..Len(queue[c]) : queue[c][j] = s => c = b /\ j = i
    BY <2>1, <2>3 DEF Held, CodedOnce
  <2>5. \A c \in Blocks : \A j \in 1..Len(skb[c]) : skb[c][j] # s
    BY <1>4 DEF IsPacket
  <2>6. Holders(s) = {<<"queue", <<b, i>>>>}
    <3>1. \A h \in Holders(s) : h = <<"queue", <<b, i>>>>
      BY <1>1, <2>4, <2>5
    <3>2. <<"queue", <<b, i>>>> \in Holders(s)
      BY <1>1, <2>1, <2>3
    <3>3. QED BY <3>1, <3>2
  <2>7. QED BY <1>4, <2>6, FS_Singleton
<1>5. QED BY <1>2, <1>3, <1>4

LEMMA Accounted == PoolInv /\ HeldInv => BuffersAccounted
<1> SUFFICES ASSUME PoolInv, Held PROVE
      /\ \A s \in 1..pool.num : Cardinality(Holders(s)) = IF s \in pool.used THEN 1 ELSE 0
      /\ \A b \in Blocks : ~Freed(b) => ToSet(queue[b]) \subseteq pool.used
  BY DEF BuffersAccounted, HeldInv, Freed
<1>1. \A s \in 1..pool.num : Cardinality(Holders(s)) = IF s \in pool.used THEN 1 ELSE 0
  BY HoldersCounted
<1>2. ASSUME NEW b \in Blocks, ~Freed(b), NEW i \in 1..Len(queue[b]) PROVE queue[b][i] \in pool.used
  <2>1. CASE queue[b][i] \notin normal
    BY <2>1 DEF Held, CodedUsed
  <2>2. CASE queue[b][i] \in normal
    <3>1. PICK j \in 1..Len(skb[b]) : skb[b][j] = queue[b][i]
      BY <1>2, <2>2 DEF Held, QueuedRows
    <3>2. skb[b][j] \in pool.used
      BY DEF Held, PacketsUsed
    <3>3. QED BY <3>1, <3>2
  <2>3. QED BY <2>1, <2>2
<1>3. \A b \in Blocks : ToSet(queue[b]) = {queue[b][i] : i \in 1..Len(queue[b])}
  BY DEF ToSet
<1>4. QED BY <1>1, <1>2, <1>3

(* Every buffer in use is a packet of one block or waits CODED in one      *)
(* queue, in one place, a free one in none, and no queue holds a buffer    *)
(* that was given back: with any number of coding threads, blocks and      *)
(* sizes of the queues, as long as nobody was handed a buffer between      *)
(* freeBlock and q_free and q_free has reached every entry it was to free. *)
THEOREM BuffersAlwaysAccounted == PSpec => []BuffersAccounted
<1>1. PSpec => []HeldInv
  BY HeldInit, HeldStep, PoolInvariant, PTL DEF PSpec
<1>2. QED BY <1>1, Accounted, PoolInvariant, PTL

(* What is proved of ServerLocks holds of the threads with their buffers.  *)
THEOREM PoolKeepsLocks == PSpec => Spec
<1>1. PInit => Init
  BY DEF PInit
<1>2. QED BY <1>1, PoolStepIsLocksStep, PTL DEF PSpec, Spec
=============================================================================
