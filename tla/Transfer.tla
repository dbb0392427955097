------------------------------ MODULE Transfer ------------------------------
(***************************************************************************)
(* One CTCP connection moving data: the server's send_ctcp() (application  *)
(* thread), server_worker() with handle_ack() and send_segs() (its own     *)
(* thread), the coding workers, an unreliable network in both directions,  *)
(* and the client's bldack().                                              *)
(*                                                                         *)
(* The stream is cut into source packets, numbered 1, 2, 3, ... in the     *)
(* order the application hands them over; BLOCK_SIZE of them make a block. *)
(* A packet on the wire is one source packet (NORMAL) or a combination of  *)
(* the first num packets of a block (CODED).  The field arithmetic is left *)
(* to module Decoder: here a coded packet gives the client its first       *)
(* missing degree of freedom, or none.                                     *)
(*                                                                         *)
(* Each thread advances by critical sections: what the code does under     *)
(* curr_block_mutex or block_mutex is one step.                            *)
(***************************************************************************)
EXTENDS Integers, Sequences, FiniteSets, SequencesExt, FiniteSetsExt, TLC

CONSTANTS
  BLOCK_SIZE,    \* source packets per block
  NUM_BLOCKS,    \* blocks the two ends keep, a ring indexed by blockno % NUM_BLOCKS
  Workers,       \* coding threads (THREADS)
  Cwnds,         \* congestion windows the path may have (set by advance_cwnd, timeout)
  LossFactors,   \* 1/(1-p) for the loss estimates p the path may have
  DataReorder,   \* may data packets overtake each other
  AckReorder,    \* may acks overtake each other
  EarlyTimeout,  \* may the retransmission timer fire while packets are in flight
  CacheFills,    \* may usr_cache be too full for partial_write
  TotalPackets,  \* bound: source packets the application sends
  MaxCall,       \* bound: source packets in one send_ctcp() call
  MaxFaults,     \* bound: packets or acks lost, packets repeated or not innovative
  MaxTimeouts,   \* bound: timer expiries
  MaxSeqno       \* bound: packets sent

ASSUME BlockAssumption == BLOCK_SIZE \in Nat \ {0} /\ NUM_BLOCKS \in Nat \ {0}
ASSUME PathAssumption  == /\ Workers \in Nat \ {0}
                          /\ Cwnds \subseteq Nat \ {0} /\ LossFactors \subseteq Nat \ {0}
                          /\ {DataReorder, AckReorder, EarlyTimeout, CacheFills} \subseteq BOOLEAN
ASSUME BoundAssumption == {TotalPackets, MaxCall, MaxFaults, MaxTimeouts, MaxSeqno} \subseteq Nat

VARIABLES
  \* srvctcp_sock, shared by the server's threads
  curr_block, maxblockno, dof_req_latest,
  blocks,        \* per slot, the source packets in the block
  dof_remain,    \* per slot, packets asked of the coders and not yet sent
  coded_q,       \* per slot, packets ready to send
  jobs,          \* coding jobs, next first
  coding,        \* jobs whose worker is past the check of curr_block
  \* the application thread in send_ctcp()
  app,           \* "idle", "fill" (holding curr_block_mutex), "wait" (block_free_condv)
  bytes_left,    \* source packets of the call not yet in a block
  accepted,      \* history: source packets taken into blocks so far
  \* the server_worker thread
  srv,           \* "read", "segs" (entering send_segs), "wait" (block_ready_condv),
                 \* "begin", "block" (loop head), "job", "send" (inner loop)
  segs,          \* locals of send_segs
  path,          \* snd_una, packets_sent, and OnFly: the blocks of packets snd_una, ... , snd_nxt - 1
  timeouts,      \* timer expiries so far
  \* the network
  data, acks, faults,
  \* the client
  cli_curr,      \* clictcp_sock.curr_block
  cblk,          \* its blocks, per slot
  cli,           \* "idle" or "deliver" (in the decoding loop of bldack)
  delivered      \* history: source packets pushed to the application

shared  == <<curr_block, maxblockno, dof_req_latest, blocks, dof_remain, coded_q, jobs, coding>>
appvars == <<app, bytes_left, accepted>>
srvvars == <<srv, segs, path, timeouts>>
net     == <<data, acks, faults>>
client  == <<cli_curr, cblk, cli, delivered>>
vars    == <<shared, appvars, srvvars, net, client>>

Slots   == 0..(NUM_BLOCKS - 1)
Rows    == 0..(BLOCK_SIZE - 1)
Slot(b) == b % NUM_BLOCKS
MIN(x, y) == IF x < y THEN x ELSE y
MAX(x, y) == IF x > y THEN x ELSE y
snd_nxt == path.snd_una + Len(path.OnFly)
-----------------------------------------------------------------------------
(* create_srvctcp_sock, init_stream; connect_ctcp's initCodedBlock.        *)
NoSegs == [blockno |-> 0, win |-> 0, CurrWin |-> 0, onfly |-> 0, maxblockno |-> 0, loss |-> 1]

initCodedBlock == [rows   |-> [r \in Rows |-> "none"],  \* "none", "coded", "plain"
                   src    |-> [r \in Rows |-> 0],       \* what the row decodes to, 0 if spoilt
                   width  |-> [r \in Rows |-> 0],       \* row_len
                   dofs   |-> 0,
                   pushed |-> 0,                        \* dofs_pushed
                   max    |-> 0]                        \* max_packet_index

Init ==
  /\ curr_block = 1 /\ maxblockno = 1 /\ dof_req_latest = 0
  /\ blocks = [s \in Slots |-> <<>>]
  /\ dof_remain = [s \in Slots |-> 0]
  /\ coded_q = [s \in Slots |-> <<>>]
  /\ jobs = <<>> /\ coding = <<>>
  /\ app = "idle" /\ bytes_left = 0 /\ accepted = 0
  /\ srv = "segs" /\ segs = NoSegs
  /\ path = [snd_una |-> 1, OnFly |-> <<>>, packets_sent |-> [s \in Slots |-> 0]]
  /\ timeouts = 0
  /\ data = <<>> /\ acks = <<>> /\ faults = 0
  /\ cli_curr = 1 /\ cblk = [s \in Slots |-> initCodedBlock]
  /\ cli = "idle" /\ delivered = <<>>
-----------------------------------------------------------------------------
(* The application thread.                                                 *)

(* send_ctcp is called with n source packets and takes curr_block_mutex.   *)
send_ctcp(n) ==
  /\ app = "idle"
  /\ accepted + n <= TotalPackets
  /\ app' = "fill" /\ bytes_left' = n
  /\ UNCHANGED <<shared, accepted, srvvars, net, client>>

(* A bug EventuallyReceived must notice: the signal forgotten.             *)
SignalOmitted == srv' = srv

(* pthread_cond_signal on block_ready_condv: send_segs, if it waits, goes  *)
(* on.                                                                     *)
SignalBlockReady == srv' = IF srv = "wait" THEN "begin" ELSE srv

(* One pass of its loop: readBlock into the last block and a job for what  *)
(* was read; or on to the next block; or wait for a block to be freed.     *)
Fill ==
  LET i    == maxblockno
      s    == Slot(i)
      read == MIN(BLOCK_SIZE - Len(blocks[s]), bytes_left)
      job  == [blockno |-> i, start |-> Len(blocks[s]), dof_request |-> read, coding_wnd |-> 0] IN
  /\ app = "fill" /\ bytes_left > 0
  /\ \/ /\ read > 0
        /\ blocks' = [blocks EXCEPT ![s] = @ \o [k \in 1..read |-> accepted + k]]
        /\ jobs' = Append(jobs, job)
        /\ dof_remain' = [dof_remain EXCEPT ![s] = @ + read]
        /\ dof_req_latest' = IF i = curr_block THEN dof_req_latest + read ELSE dof_req_latest
        /\ accepted' = accepted + read
        /\ bytes_left' = bytes_left - read
        /\ UNCHANGED <<maxblockno, app>>
     \/ /\ read = 0 /\ maxblockno < curr_block + NUM_BLOCKS
        /\ maxblockno' = maxblockno + 1
        /\ UNCHANGED <<blocks, jobs, dof_remain, dof_req_latest, accepted, bytes_left, app>>
     \/ /\ read = 0 /\ maxblockno >= curr_block + NUM_BLOCKS
        /\ app' = "wait"
        /\ UNCHANGED <<maxblockno, blocks, jobs, dof_remain, dof_req_latest, accepted, bytes_left>>
  /\ UNCHANGED <<curr_block, coded_q, coding, srvvars, net, client>>

(* send_ctcp returns: everything is in, or the wait for a free block timed *)
(* out and the caller gets a short count.                                  *)
SendReturn ==
  /\ (app = "fill" /\ bytes_left = 0) \/ app = "wait"
  /\ app' = "idle" /\ bytes_left' = 0
  /\ SignalBlockReady
  /\ UNCHANGED <<shared, accepted, segs, path, timeouts, net, client>>
-----------------------------------------------------------------------------
(* A worker takes the next job and looks, under curr_block_mutex, whether  *)
(* its block is done with.                                                 *)
TakeJob ==
  /\ jobs # <<>> /\ Len(coding) < Workers /\ app # "fill"
  /\ jobs' = Tail(jobs)
  /\ coding' = IF Head(jobs).blockno < curr_block THEN coding ELSE Append(coding, Head(jobs))
  /\ UNCHANGED <<curr_block, maxblockno, dof_req_latest, blocks, dof_remain, coded_q,
                 appvars, srvvars, net, client>>

Normal(b, row) == [blockno |-> b, flag |-> "NORMAL", start |-> row, num |-> 1,
                   src |-> <<blocks[Slot(b)][row + 1]>>]
Coded(b) ==      [blockno |-> b, flag |-> "CODED", start |-> 0, num |-> Len(blocks[Slot(b)]),
                   src |-> blocks[Slot(b)]]

(* A bug QueueCoversDofRemain must notice: one coded packet too few.       *)
OneTooFew(b, n) == [k \in 1..(n - 1) |-> Coded(b)]

(* n combinations of the block's packets.                                  *)
CodedPackets(b, n) == [k \in 1..n |-> Coded(b)]

(* The rest of coding_job, under block_mutex: the slot may by now hold a   *)
(* later block than the job's.                                             *)
coding_job(i) ==
  LET job   == coding[i]
      s     == Slot(job.blockno)
      len   == Len(blocks[s])
      end   == MIN(job.start + job.dof_request, len)
      plain == [k \in 1..(end - job.start) |-> Normal(job.blockno, job.start + k - 1)]
      more  == MAX(0, job.dof_request - (len - job.start)) IN
  /\ coding' = RemoveAt(coding, i)
  /\ coded_q' = IF len = 0 THEN coded_q
                ELSE [coded_q EXCEPT ![s] = @ \o
                        IF job.coding_wnd = 0 THEN plain \o CodedPackets(job.blockno, more)
                        ELSE CodedPackets(job.blockno, job.dof_request)]
  /\ UNCHANGED <<curr_block, maxblockno, dof_req_latest, blocks, dof_remain, jobs,
                 appvars, srvvars, net, client>>
-----------------------------------------------------------------------------
(* The server_worker thread: acks and timeouts.                            *)

(* A bug NeedNeverUnderestimated must notice: a new current block starts   *)
(* with no need, although send_ctcp may already have filled it.            *)
DofReqCleared(advanced, len, dof_rec) ==
  IF advanced THEN 0 ELSE MIN(dof_req_latest, MAX(0, len - dof_rec))

(* dof_req_latest after an ack.  The difference in MIN is unsigned: it is  *)
(* huge, not negative, when dof_rec exceeds the block's length.            *)
DofReq(advanced, len, dof_rec) ==
  IF advanced THEN MAX(0, len - dof_rec)
  ELSE IF dof_rec > len THEN dof_req_latest ELSE MIN(dof_req_latest, len - dof_rec)

handle_ack(a) ==
  LET freed    == {Slot(b) : b \in curr_block..(a.blockno - 1)}
      advanced == a.blockno > curr_block
      curr     == MAX(a.blockno, curr_block)
      blks     == [s \in Slots |-> IF s \in freed THEN <<>> ELSE blocks[s]]
      len      == Len(blks[Slot(curr)]) IN
  /\ blocks' = blks
  /\ dof_remain' = [s \in Slots |-> IF s \in freed THEN 0 ELSE dof_remain[s]]
  /\ coded_q' = [s \in Slots |-> IF s \in freed THEN <<>> ELSE coded_q[s]]
  /\ curr_block' = curr
  /\ maxblockno' = MAX(curr, maxblockno)
  /\ dof_req_latest' = DofReq(advanced, len, a.dof_rec)
  /\ app' = IF advanced /\ app = "wait" THEN "fill" ELSE app        \* block_free_condv
  /\ path' = [snd_una |-> MAX(path.snd_una, a.ackno),
              OnFly   |-> SubSeq(path.OnFly, 1 + MAX(0, a.ackno - path.snd_una), Len(path.OnFly)),
              packets_sent |-> [s \in Slots |-> IF s \in freed THEN 0 ELSE path.packets_sent[s]]]
  /\ srv' = IF a.ackno > snd_nxt THEN "read" ELSE "segs"            \* bad ack: no send_segs
  /\ UNCHANGED <<jobs, coding, bytes_left, accepted, segs, timeouts, client>>

ReceiveAck(i) ==
  /\ srv = "read" /\ app # "fill"
  /\ AckReorder \/ i = 1
  /\ acks' = RemoveAt(acks, i)
  /\ handle_ack(acks[i])
  /\ UNCHANGED <<data, faults>>

(* A bug FullBlocksDelivered must notice: the window stays closed.         *)
WindowKept == path

(* What is in flight is given up.                                          *)
WindowReopened == [path EXCEPT !.snd_una = snd_nxt, !.OnFly = <<>>]

(* timeout(), after which send_segs runs again.                            *)
timeout ==
  /\ srv = "read"
  /\ EarlyTimeout \/ (data = <<>> /\ acks = <<>> /\ cli = "idle")
  /\ timeouts < MaxTimeouts
  /\ timeouts' = timeouts + 1
  /\ path' = WindowReopened
  /\ srv' = "segs"
  /\ UNCHANGED <<shared, appvars, segs, net, client>>
-----------------------------------------------------------------------------
(* The server_worker thread in send_segs().                                *)

(* With nothing needed for the current block it waits for send_ctcp.       *)
SegsEnter ==
  /\ srv = "segs" /\ app # "fill"
  /\ srv' = IF dof_req_latest = 0 THEN "wait" ELSE "begin"
  /\ UNCHANGED <<shared, appvars, segs, path, timeouts, net, client>>

(* The packets of the current block in flight, and not yet overdue by      *)
(* their tx_time, are not sent again.                                      *)
InFlight == {k \in DOMAIN path.OnFly : path.OnFly[k] = curr_block}

SegsBegin(cwnd, loss, onfly) ==
  LET win == cwnd - Len(path.OnFly) IN
  /\ srv = "begin" /\ app # "fill"
  /\ \/ /\ win < 1
        /\ srv' = "read" /\ UNCHANGED segs
     \/ /\ win >= 1
        /\ srv' = "block"
        /\ segs' = [blockno |-> curr_block, win |-> win, CurrWin |-> 0, onfly |-> onfly,
                    maxblockno |-> maxblockno, loss |-> loss]
  /\ UNCHANGED <<shared, appvars, path, timeouts, net, client>>

MoreBlocks == /\ segs.win > 0
              /\ segs.blockno <= curr_block + NUM_BLOCKS
              /\ segs.blockno <= segs.maxblockno

(* How many packets of this block to send.  The packets on the fly that    *)
(* count are those found on the previous pass of the loop.                 *)
SegsNeed ==
  LET b   == segs.blockno
      req == IF b = curr_block THEN dof_req_latest ELSE Len(blocks[Slot(b)]) IN
  /\ srv = "block" /\ MoreBlocks
  /\ b = curr_block => app # "fill"
  /\ srv' = "job"
  /\ segs' = [segs EXCEPT !.CurrWin = MIN(segs.win, MAX(0, segs.loss * req - segs.onfly)),
                          !.onfly = IF b = curr_block THEN @ ELSE path.packets_sent[Slot(b)]]
  /\ UNCHANGED <<shared, appvars, path, timeouts, net, client>>

(* A coding job if fewer are ready or asked for.                           *)
SegsJob ==
  LET b   == segs.blockno
      s   == Slot(b)
      job == [blockno |-> b, start |-> 0, dof_request |-> segs.CurrWin - dof_remain[s], coding_wnd |-> 1] IN
  /\ srv = "job"
  /\ srv' = "send"
  /\ IF dof_remain[s] < segs.CurrWin
       THEN /\ dof_remain' = [dof_remain EXCEPT ![s] = segs.CurrWin]
            /\ jobs' = IF b = curr_block THEN <<job>> \o jobs ELSE Append(jobs, job)
       ELSE UNCHANGED <<dof_remain, jobs>>
  /\ UNCHANGED <<curr_block, maxblockno, dof_req_latest, blocks, coded_q, coding,
                 appvars, segs, path, timeouts, net, client>>

SegsReturn ==
  /\ srv = "block" /\ ~MoreBlocks
  /\ srv' = "read" /\ segs' = NoSegs
  /\ UNCHANGED <<shared, appvars, path, timeouts, net, client>>

(* send_one: q_pop (blocking) and sendto.                                  *)
send_one ==
  LET s == Slot(segs.blockno) IN
  /\ srv = "send" /\ segs.CurrWin >= 1 /\ dof_remain[s] > 0
  /\ coded_q[s] # <<>>
  /\ snd_nxt <= MaxSeqno
  /\ data' = Append(data, [seqno |-> snd_nxt] @@ Head(coded_q[s]))
  /\ coded_q' = [coded_q EXCEPT ![s] = Tail(@)]
  /\ dof_remain' = [dof_remain EXCEPT ![s] = @ - 1]
  /\ segs' = [segs EXCEPT !.CurrWin = @ - 1, !.win = @ - 1]
  /\ path' = [path EXCEPT !.OnFly = Append(@, segs.blockno), !.packets_sent[s] = @ + 1]
  /\ UNCHANGED <<curr_block, maxblockno, dof_req_latest, blocks, jobs, coding,
                 appvars, srv, timeouts, acks, faults, client>>

NextBlock ==
  /\ srv = "send"
  /\ segs.CurrWin = 0 \/ dof_remain[Slot(segs.blockno)] = 0
  /\ srv' = "block"
  /\ segs' = [segs EXCEPT !.blockno = @ + 1]
  /\ UNCHANGED <<shared, appvars, path, timeouts, net, client>>
-----------------------------------------------------------------------------
(* The client.                                                             *)

(* The elimination loop of bldack.  A NORMAL packet fills its row or, the  *)
(* row being taken, is dropped; a CODED one lands in a free row among the  *)
(* num it covers.  A coded row may be wider than the packet reduced by it: *)
(* what lies beyond the packet's num is cut off, and its row is spoilt.    *)
Pivots(blk, p) ==
  {r \in Rows : /\ blk.rows[r] = "none"
                /\ IF p.flag = "NORMAL" THEN r = p.start ELSE r < p.num}

CutOff(blk, p, r) ==
  p.flag = "CODED" /\ \E q \in 0..(r - 1) : blk.rows[q] = "coded" /\ blk.width[q] > p.num

Eliminate(blk, p, r, spoilt) ==
  [blk EXCEPT !.rows[r]  = IF p.flag = "NORMAL" THEN "plain" ELSE "coded",
              !.width[r] = p.num,
              !.src[r]   = IF spoilt THEN 0 ELSE p.src[r - p.start + 1],
              !.dofs     = @ + 1]

(* What the client's block may become.                                     *)
Reduced(blk, p) ==
  {Eliminate(blk, p, r, FALSE) : r \in Pivots(blk, p)} \cup
  {Eliminate(blk, p, r, TRUE)  : r \in {q \in Pivots(blk, p) : CutOff(blk, p, q)}}

(* partial_write: decode if as many dofs are in as packets are known of,   *)
(* then push the decoded rows that follow those already pushed.            *)
unwrap(blk) == [blk EXCEPT !.rows = [r \in Rows |-> IF @[r] = "none" THEN "none" ELSE "plain"]]

(* A bug DeliveredInOrder must notice: the dofs counted, not their rows.   *)
PushableByCount(blk) == blk.dofs

(* The end of the rows that can be pushed.                                 *)
PushableTo(blk) == Max({n \in blk.pushed..BLOCK_SIZE :
                          \A r \in blk.pushed..(n - 1) : blk.rows[r] = "plain"})

(* The rows from..to-1 of a block, as source packets.                      *)
RowsOf(blk, from, to) == [k \in 1..(to - from) |-> blk.src[from + k - 1]]

(* A bug FreedOnlyWhenHeld must notice: a block taken for complete when it *)
(* has the packets known of so far.                                        *)
AckForKnown(seqno, blk) ==
  LET open == {b \in cli_curr..(cli_curr + NUM_BLOCKS - 1) : blk[Slot(b)].dofs # MAX(1, blk[Slot(b)].max)} IN
  IF open = {} THEN [ackno |-> seqno + 1, blockno |-> cli_curr + NUM_BLOCKS, dof_rec |-> 0]
  ELSE [ackno |-> seqno + 1, blockno |-> Min(open), dof_rec |-> blk[Slot(Min(open))].dofs]

(* The ack: the first block that is not complete, and its dofs.            *)
AckFor(seqno, blk) ==
  LET open == {b \in cli_curr..(cli_curr + NUM_BLOCKS - 1) : blk[Slot(b)].dofs # BLOCK_SIZE} IN
  IF open = {} THEN [ackno |-> seqno + 1, blockno |-> cli_curr + NUM_BLOCKS, dof_rec |-> 0]
  ELSE [ackno |-> seqno + 1, blockno |-> Min(open), dof_rec |-> blk[Slot(Min(open))].dofs]

(* unmarshallData: the packets known of in the slot of p.                  *)
unmarshallData(p) ==
  IF p.blockno < cli_curr THEN cblk
  ELSE [cblk EXCEPT ![Slot(p.blockno)].max = MAX(p.start + p.num, @)]

InWindow(p) == p.blockno \in cli_curr..(cli_curr + NUM_BLOCKS - 1)

(* A packet is useful if it is put in a row.                               *)
Useful(p) == InWindow(p) /\ Pivots(cblk[Slot(p.blockno)], p) # {}

(* The rest of bldack, once the client's blocks are blk.                   *)
AckAndWrite(p, blk) ==
  LET c   == Slot(cli_curr)
      cur == IF blk[c].dofs = blk[c].max THEN unwrap(blk[c]) ELSE blk[c] IN
  /\ acks' = Append(acks, AckFor(p.seqno, blk))
  /\ \/ /\ blk[c].dofs < BLOCK_SIZE
        /\ \E to \in cur.pushed..PushableTo(cur) :
             /\ CacheFills \/ to = PushableTo(cur)
             /\ cblk' = [blk EXCEPT ![c] = [cur EXCEPT !.pushed = to]]
             /\ delivered' = delivered \o RowsOf(cur, cur.pushed, to)
        /\ UNCHANGED cli
     \/ /\ blk[c].dofs = BLOCK_SIZE
        /\ cblk' = blk /\ cli' = "deliver"
        /\ UNCHANGED delivered
  /\ UNCHANGED cli_curr

(* A coded packet may be a combination of the rows already there.          *)
bldack(p) ==
  LET s     == Slot(p.blockno)
      known == unmarshallData(p) IN
  \/ /\ Useful(p)
     /\ \E b \in Reduced(known[s], p) : AckAndWrite(p, [known EXCEPT ![s] = b])
     /\ UNCHANGED faults
  \/ /\ ~Useful(p)
     /\ AckAndWrite(p, known)
     /\ UNCHANGED faults
  \/ /\ Useful(p) /\ p.flag = "CODED"
     /\ \E r \in Rows : r < p.num /\ known[s].rows[r] # "none"
     /\ faults < MaxFaults /\ faults' = faults + 1
     /\ AckAndWrite(p, known)

(* The loop at its end: unwrap, writeAndFreeBlock, initCodedBlock, on.     *)
DeliverBlock ==
  LET c == Slot(cli_curr) IN
  /\ cli = "deliver"
  /\ delivered' = delivered \o RowsOf(cblk[c], cblk[c].pushed, BLOCK_SIZE)
  /\ cblk' = [cblk EXCEPT ![c] = initCodedBlock]
  /\ cli_curr' = cli_curr + 1
  /\ cli' = IF cblk'[Slot(cli_curr + 1)].dofs = BLOCK_SIZE THEN "deliver" ELSE "idle"
  /\ UNCHANGED <<shared, appvars, srvvars, net>>

ReceiveData(i) ==
  /\ cli = "idle"
  /\ DataReorder \/ i = 1
  /\ data' = RemoveAt(data, i)
  /\ bldack(data[i])
  /\ UNCHANGED <<shared, appvars, srvvars>>
-----------------------------------------------------------------------------
(* The network loses a packet or an ack, or delivers a packet twice.       *)
LosePacket(i) ==
  /\ faults < MaxFaults /\ faults' = faults + 1
  /\ data' = RemoveAt(data, i)
  /\ UNCHANGED <<shared, appvars, srvvars, acks, client>>

RepeatPacket(i) ==
  /\ faults < MaxFaults /\ faults' = faults + 1
  /\ data' = Append(data, data[i])
  /\ UNCHANGED <<shared, appvars, srvvars, acks, client>>

LoseAck(i) ==
  /\ faults < MaxFaults /\ faults' = faults + 1
  /\ acks' = RemoveAt(acks, i)
  /\ UNCHANGED <<shared, appvars, srvvars, data, client>>

Application == (\E n \in 1..MaxCall : send_ctcp(n)) \/ Fill \/ SendReturn
Coding      == TakeJob \/ \E i \in DOMAIN coding : coding_job(i)
SendSegs    == \/ SegsEnter \/ SegsNeed \/ SegsJob \/ SegsReturn \/ send_one \/ NextBlock
               \/ \E cwnd \in Cwnds, loss \in LossFactors, n \in 0..Cardinality(InFlight) :
                     SegsBegin(cwnd, loss, n)
Network     == \/ \E i \in DOMAIN data : LosePacket(i) \/ RepeatPacket(i)
               \/ \E i \in DOMAIN acks : LoseAck(i)

Next ==
  \/ Application
  \/ Coding
  \/ \E i \in DOMAIN acks : ReceiveAck(i)
  \/ timeout
  \/ SendSegs
  \/ \E i \in DOMAIN data : ReceiveData(i)
  \/ DeliverBlock
  \/ Network

Spec == Init /\ [][Next]_vars

(* The threads keep running; the network delivers what it does not lose;   *)
(* the timer expires when nothing more is to come.                         *)
Fairness ==
  /\ WF_vars(Fill) /\ WF_vars(SendReturn)
  /\ WF_vars(Coding) /\ WF_vars(SendSegs) /\ WF_vars(timeout)
  /\ WF_vars(\E i \in DOMAIN acks : ReceiveAck(i))
  /\ WF_vars(\E i \in DOMAIN data : ReceiveData(i))
  /\ WF_vars(DeliverBlock)

FairSpec == Spec /\ Fairness
-----------------------------------------------------------------------------
(* Types.                                                                  *)
Blocks  == 1..(TotalPackets + NUM_BLOCKS + 1)
Packets == 1..TotalPackets

TypeOK ==
  /\ curr_block \in Blocks /\ maxblockno \in curr_block..(curr_block + NUM_BLOCKS)
  /\ dof_req_latest \in 0..BLOCK_SIZE
  /\ \A s \in Slots : /\ Len(blocks[s]) <= BLOCK_SIZE /\ Range(blocks[s]) \subseteq Packets
                      /\ dof_remain[s] \in Nat
                      /\ \A p \in Range(coded_q[s]) : p.blockno \in Blocks /\ Slot(p.blockno) = s
  /\ \A j \in Range(jobs \o coding) : j.blockno \in Blocks /\ j.dof_request \in Nat \ {0}
  /\ Len(coding) <= Workers
  /\ app \in {"idle", "fill", "wait"} /\ accepted + bytes_left <= TotalPackets
  /\ srv \in {"read", "segs", "wait", "begin", "block", "job", "send"}
  /\ segs.win \in Nat /\ segs.CurrWin \in 0..segs.win
  /\ cli_curr \in Blocks /\ cli \in {"idle", "deliver"}
  /\ \A s \in Slots : /\ cblk[s].dofs = Cardinality({r \in Rows : cblk[s].rows[r] # "none"})
                      /\ cblk[s].pushed \in 0..cblk[s].dofs

(* Whatever the network does, the client's application gets the packets    *)
(* send_ctcp accepted, in their order, none twice and none made up         *)
(* (partial_write and writeAndFreeBlock against readBlock).                *)
DeliveredInOrder ==
  /\ Len(delivered) <= accepted
  /\ \A i \in DOMAIN delivered : delivered[i] = i

(* handle_ack frees a block, and with it the only copy of its data, only   *)
(* when the client holds all of it.                                        *)
HeldByClient(b) == b < cli_curr \/ cblk[Slot(b)].dofs = BLOCK_SIZE
FreedOnlyWhenHeld == \A b \in 1..(curr_block - 1) : HeldByClient(b)

(* dof_req_latest, from which send_segs decides how much to send and       *)
(* whether to wait for new data, is never less than what the client lacks  *)
(* of the current block.                                                   *)
Lacking == IF curr_block < cli_curr THEN 0
           ELSE Len(blocks[Slot(curr_block)]) - cblk[Slot(curr_block)].dofs
NeedNeverUnderestimated == dof_req_latest >= Lacking

(* What send_segs counts on in dof_remain is in the queue or will be put   *)
(* there by a job: the blocking q_pop of send_one is never in vain.        *)
Requested(js, s) == LET ofSlot == SelectSeq(js, LAMBDA j : Slot(j.blockno) = s) IN
  FoldSeq(LAMBDA j, n : j.dof_request + n, 0, ofSlot)
QueueCoversDofRemain ==
  \A s \in Slots : dof_remain[s] <= Len(coded_q[s]) + Requested(jobs \o coding, s)

(* What send_ctcp accepted is delivered in the end: reliable transport.    *)
EventuallyDelivered == \A n \in Packets : accepted >= n ~> Len(delivered) >= n

(* Once all of a block is accepted, all of it is delivered.                *)
FullBlocksDelivered ==
  \A b \in 1..(TotalPackets \div BLOCK_SIZE) :
    accepted >= b * BLOCK_SIZE ~> Len(delivered) >= b * BLOCK_SIZE

(* Every packet accepted, of a full block or not, reaches the client: the  *)
(* rows of its block are filled as far as the packet.                      *)
HasRow(n) ==
  LET b == 1 + (n - 1) \div BLOCK_SIZE IN
  \/ b < cli_curr
  \/ b < cli_curr + NUM_BLOCKS /\ \A r \in 0..((n - 1) % BLOCK_SIZE) : cblk[Slot(b)].rows[r] # "none"
EventuallyReceived == \A n \in Packets : accepted >= n ~> HasRow(n)
=============================================================================
