------------------------------ MODULE Session ------------------------------
(***************************************************************************)
(* The life of one connection over one path: SYN, data, FIN.  At the       *)
(* server the application thread (listen_srvctcp, send_ctcp,               *)
(* close_srvctcp) and server_worker share the socket; at the client the    *)
(* thread that connects and closes, the daemon handle_connection, and the  *)
(* thread in read_ctcp.  Packets are lost, overtake each other, or find    *)
(* the receiver's buffer full.                                             *)
(*                                                                         *)
(* The transfer itself (module Transfer) is reduced to items that are sent *)
(* until they are acked.                                                   *)
(***************************************************************************)
EXTENDS Integers, Bags

CONSTANTS CONTROL_MAX_RETRIES,   \* the server's tries at closing
          POLL_MAX_TRIES,        \* the client's
          maxidle,               \* timeouts the server takes before it drops the path
          Items,                 \* bound: items the application sends
          ChanCap                \* bound: packets in flight in each direction

ASSUME RetryAssumption == {CONTROL_MAX_RETRIES, POLL_MAX_TRIES} \subseteq Nat \ {0} /\ maxidle \in Nat
ASSUME BoundAssumption == Items \in Nat /\ ChanCap \in Nat \ {0}

VARIABLES
  toSrv, toCli,      \* bags of packets in flight: [flag, n]
  \* the server's socket
  status,            \* ACTIVE, SK_CLOSING or CLOSED
  pathstate,         \* of active_paths[0]; "none" before listen_srvctcp, "removed" after removePath
  idle, accepted, acked,
  worker,            \* server_worker: "none", "loop", "read", "segs", "wait" (block_ready_condv),
                     \* "send", "fin" (in its loop on a FIN), "gone"
  wtries, wflag,     \* in "fin": tries, and the flag of the last packet
  sapp,              \* "listen", "open", "flush", "join", "send_fin", "read_fin", "done", "crashed"
  stries, success,
  \* the client's socket
  cstatus, cpathstate,
  daemon,            \* handle_connection: "none", "top", "poll", "fin", "gone"
  htries,
  capp,              \* "connect", "open", "kill", "join", "fin", "done"
  ctries,
  sock_status_old,   \* local of close_clictcp
  outcome,           \* of close_clictcp: "none", "NONE" or "CLOSE_ERR"
  answered,          \* history: close_clictcp has received a FIN_ACK
  released, cache, received,   \* usr_cache: is it released, items in it, items ever put in
  reader             \* the thread in read_ctcp: "out", "pop", "eof"

chans   == <<toSrv, toCli>>
socket  == <<status, pathstate, idle, accepted, acked>>
wvars   == <<worker, wtries, wflag>>
svars   == <<sapp, stries, success>>
csocket == <<cstatus, cpathstate, released, cache, received>>
dvars   == <<daemon, htries>>
cvars   == <<capp, ctries, sock_status_old, outcome, answered>>
server  == <<socket, wvars, svars>>
client  == <<csocket, dvars, cvars, reader>>
vars    == <<chans, server, client>>

Pkt(flag)  == [flag |-> flag, n |-> 0]
Ack(n)     == [flag |-> "NORMAL", n |-> n]
Data(n)    == [flag |-> "NORMAL", n |-> n]

(* send_flag and the sends of data and acks: what finds no room is lost.   *)
Put(ch, m) == IF BagCardinality(ch) < ChanCap THEN ch (+) SetToBag({m}) ELSE ch

(* A packet is received, in whatever order, or lost.                       *)
Take(ch, m) == ch (-) SetToBag({m})

(* connect_ctcp has sent its first SYN.                                    *)
Init ==
  /\ toSrv = SetToBag({Pkt("SYN")}) /\ toCli = EmptyBag
  /\ status = "ACTIVE" /\ pathstate = "none" /\ idle = 0 /\ accepted = 0 /\ acked = 0
  /\ worker = "none" /\ wtries = 0 /\ wflag = "NORMAL"
  /\ sapp = "listen" /\ stries = 0 /\ success = FALSE
  /\ cstatus = "ACTIVE" /\ cpathstate = "SYN_SENT"
  /\ released = FALSE /\ cache = 0 /\ received = 0
  /\ daemon = "none" /\ htries = 0
  /\ capp = "connect" /\ ctries = 0 /\ sock_status_old = "ACTIVE"
  /\ outcome = "none" /\ answered = FALSE
  /\ reader = "out"
-----------------------------------------------------------------------------
(* The server's application thread.                                        *)
listen_srvctcp(m) ==
  /\ sapp = "listen" /\ m.flag = "SYN"
  /\ toSrv' = Take(toSrv, m) /\ toCli' = Put(toCli, Pkt("SYN_ACK"))
  /\ pathstate' = "SYN_ACK_SENT" /\ worker' = "loop" /\ sapp' = "open"
  /\ UNCHANGED <<status, idle, accepted, acked, wtries, wflag, stries, success, client>>

(* pthread_cond_signal on block_ready_condv.                               *)
BlockReady == IF worker = "wait" THEN "send" ELSE worker

send_ctcp ==
  /\ sapp = "open" /\ status = "ACTIVE" /\ accepted < Items
  /\ accepted' = accepted + 1
  /\ worker' = BlockReady
  /\ UNCHANGED <<chans, status, pathstate, idle, acked, wtries, wflag, svars, client>>

(* close_srvctcp: with a path, wait for the acks, but not long.            *)
close_srvctcp ==
  /\ sapp = "open"
  /\ sapp' = IF pathstate = "removed" THEN "done" ELSE "flush"
  /\ UNCHANGED <<chans, socket, wvars, stries, success, client>>

(* A bug EofMeansClosed must notice: FIN is sent from an ACTIVE socket.    *)
CloseFlushedUnmarked ==
  /\ sapp = "flush"
  /\ worker' = BlockReady /\ sapp' = "join"
  /\ UNCHANGED <<chans, status, pathstate, idle, accepted, acked, wtries, wflag, stries, success, client>>

(* The wait is over, by an ack or by its timer.                            *)
CloseFlushed ==
  /\ sapp = "flush"
  /\ status' = "CLOSED" /\ worker' = BlockReady /\ sapp' = "join"
  /\ UNCHANGED <<chans, pathstate, idle, accepted, acked, wtries, wflag, stries, success, client>>

(* pthread_timedjoin_np, after which active_paths[0] is looked at, whether *)
(* the worker has ended or a second has passed.                            *)
CloseJoined ==
  /\ sapp = "join"
  /\ sapp' = CASE pathstate = "removed" -> "crashed"
               [] pathstate = "CLOSING" -> "done"
               [] OTHER -> "send_fin"
  /\ UNCHANGED <<chans, socket, wvars, stries, success, client>>

CloseSendFin ==
  /\ sapp = "send_fin" /\ sapp' = "read_fin"
  /\ toCli' = IF pathstate = "removed" THEN toCli ELSE Put(toCli, Pkt("FIN"))
  /\ pathstate' = IF pathstate = "removed" THEN pathstate ELSE "FIN_SENT"
  /\ UNCHANGED <<toSrv, status, idle, accepted, acked, wvars, stries, success, client>>

(* A bug AgreedClose must notice: any packet taken for the FIN_ACK.        *)
FinAnsweredByAny(m) == TRUE

(* The packet that ends the loop on a FIN of ours.                         *)
FinAnswered(m) == m.flag = "FIN_ACK" \/ (m.flag = "FIN" /\ pathstate = "FIN_ACK_SENT")

(* Its loop reads one packet.  Only FIN and FIN_ACK get an answer, for     *)
(* which active_paths[0] is looked at; any other has the FIN sent again,   *)
(* and is not counted as a try.                                            *)
CloseRead(m) ==
  LET fin == m.flag \in {"FIN", "FIN_ACK"}
      crash == fin /\ pathstate = "removed" IN
  /\ sapp = "read_fin"
  /\ toSrv' = Take(toSrv, m)
  /\ toCli' = IF fin /\ pathstate = "FIN_SENT" THEN Put(toCli, Pkt("FIN_ACK")) ELSE toCli
  /\ success' = (~crash /\ FinAnswered(m))
  /\ pathstate' = CASE success' -> "CLOSING"
                    [] m.flag = "FIN" /\ pathstate = "FIN_SENT" -> "FIN_ACK_SENT"
                    [] OTHER -> pathstate
  /\ sapp' = IF crash THEN "crashed" ELSE IF success' THEN "done" ELSE "send_fin"
  /\ UNCHANGED <<status, idle, accepted, acked, wvars, stries, client>>

(* A bug SrvCloseReturns must notice: the expiry of the timer not counted. *)
CloseExpiredUncounted ==
  /\ sapp = "read_fin"
  /\ sapp' = "send_fin"
  /\ UNCHANGED <<chans, socket, wvars, stries, success, client>>

(* The read of the loop expires: the only thing that is counted as a try.  *)
CloseExpired ==
  /\ sapp = "read_fin"
  /\ stries' = stries + 1
  /\ sapp' = IF stries' < CONTROL_MAX_RETRIES THEN "send_fin" ELSE "done"
  /\ UNCHANGED <<chans, socket, wvars, success, client>>
-----------------------------------------------------------------------------
(* server_worker, which ends with the process when close_srvctcp returns.  *)
Running == sapp \notin {"done", "crashed"}

WorkerLoop ==
  /\ Running /\ worker = "loop"
  /\ worker' = IF status = "CLOSED" THEN "gone" ELSE "read"
  /\ UNCHANGED <<chans, socket, wtries, wflag, svars, client>>

(* send_segs returns at once if the socket is closed.                      *)
EnterSegs == IF status = "CLOSED" THEN "loop" ELSE "segs"

WorkerSyn(m) ==
  /\ Running /\ worker = "read" /\ m.flag = "SYN"
  /\ toSrv' = Take(toSrv, m)
  /\ toCli' = IF pathstate = "SYN_ACK_SENT" THEN Put(toCli, Pkt("SYN_ACK")) ELSE toCli
  /\ worker' = "loop"
  /\ UNCHANGED <<socket, wtries, wflag, svars, client>>

(* An ack establishes the path, or counts, or comes too late.              *)
WorkerAck(m) ==
  /\ Running /\ worker = "read" /\ m.flag = "NORMAL"
  /\ toSrv' = Take(toSrv, m)
  /\ pathstate' = IF pathstate = "SYN_ACK_SENT" THEN "ESTABLISHED" ELSE pathstate
  /\ acked' = IF pathstate = "ESTABLISHED" /\ m.n > acked THEN m.n ELSE acked
  /\ idle' = IF pathstate = "ESTABLISHED" THEN 0 ELSE idle
  /\ worker' = IF pathstate \in {"SYN_ACK_SENT", "ESTABLISHED"} THEN EnterSegs ELSE "loop"
  /\ UNCHANGED <<toCli, status, accepted, wtries, wflag, svars, client>>

(* A FIN: FIN_ACK it, and wait for the FIN_ACK to that.                    *)
WorkerFin(m) ==
  /\ Running /\ worker = "read" /\ m.flag = "FIN"
  /\ toSrv' = Take(toSrv, m)
  /\ IF pathstate = "CLOSING"
       THEN worker' = "loop" /\ UNCHANGED <<toCli, pathstate, status, wtries, wflag>>
       ELSE /\ status' = "SK_CLOSING" /\ pathstate' = "FIN_ACK_SENT"
            /\ toCli' = Put(toCli, Pkt("FIN_ACK"))
            /\ worker' = "fin" /\ wtries' = 0 /\ wflag' = "FIN"
  /\ UNCHANGED <<idle, accepted, acked, svars, client>>

WorkerFinAck(m) ==
  /\ Running /\ worker = "read" /\ m.flag = "FIN_ACK"
  /\ toSrv' = Take(toSrv, m)
  /\ worker' = "loop"
  /\ UNCHANGED <<toCli, socket, wtries, wflag, svars, client>>

(* The end of a pass of that loop: leave it, or go round, sending FIN_ACK  *)
(* again if the last packet read was a FIN.                                *)
FinRound(closed) ==
  IF closed \/ status = "CLOSED" \/ wtries' >= CONTROL_MAX_RETRIES
    THEN pathstate' = "CLOSING" /\ status' = "CLOSED" /\ worker' = "loop" /\ UNCHANGED toCli
    ELSE /\ toCli' = IF wflag' = "FIN" THEN Put(toCli, Pkt("FIN_ACK")) ELSE toCli
         /\ pathstate' = IF wflag' = "FIN" THEN "FIN_ACK_SENT" ELSE pathstate
         /\ UNCHANGED <<status, worker>>

WorkerFinRead(m) ==
  /\ Running /\ worker = "fin"
  /\ toSrv' = Take(toSrv, m)
  /\ wflag' = m.flag
  /\ wtries' = IF wflag' = "FIN" THEN wtries + 1 ELSE wtries
  /\ FinRound(wflag' = "FIN_ACK")
  /\ UNCHANGED <<idle, accepted, acked, svars, client>>

WorkerFinExpired ==
  /\ Running /\ worker = "fin"
  /\ wtries' = wtries + 1 /\ UNCHANGED <<toSrv, wflag>>
  /\ FinRound(FALSE)
  /\ UNCHANGED <<idle, accepted, acked, svars, client>>

(* A bug EventuallyEstablished must notice: timeouts not counted.          *)
IdleKept == idle

(* timeout() counts the timeouts since the last ack.                       *)
Idled == idle + 1

(* The read expires: for a path overdue by its rto, timeout() and what     *)
(* follows it, or removePath; for any other, back to the loop.             *)
timeout ==
  /\ Running /\ worker = "read"
  /\ \/ /\ idle > maxidle
        /\ pathstate' = "removed" /\ status' = "CLOSED" /\ worker' = "loop"
        /\ UNCHANGED <<toCli, idle>>
     \/ /\ idle <= maxidle
        /\ idle' = Idled
        /\ worker' = IF pathstate = "ESTABLISHED" THEN EnterSegs ELSE "loop"
        /\ toCli' = IF pathstate = "SYN_ACK_SENT" THEN Put(toCli, Pkt("SYN_ACK")) ELSE toCli
        /\ UNCHANGED <<pathstate, status>>
     \/ /\ status = "CLOSED"
        /\ worker' = "loop" /\ UNCHANGED <<toCli, pathstate, status, idle>>
  /\ UNCHANGED <<toSrv, accepted, acked, wtries, wflag, svars, client>>

(* send_segs: with everything acked it waits for send_ctcp.                *)
send_segs ==
  /\ Running /\ worker = "segs"
  /\ worker' = IF acked = accepted THEN "wait" ELSE "send"
  /\ UNCHANGED <<chans, socket, wtries, wflag, svars, client>>

SegsSend ==
  /\ Running /\ worker = "send"
  /\ toCli' = IF status # "CLOSED" /\ acked < accepted THEN Put(toCli, Data(acked + 1)) ELSE toCli
  /\ worker' = "loop"
  /\ UNCHANGED <<toSrv, socket, wtries, wflag, svars, client>>
-----------------------------------------------------------------------------
(* The client's first thread: connect_ctcp, which sends SYN again as often *)
(* as it takes.                                                            *)
ConnectExpired ==
  /\ capp = "connect"
  /\ toSrv' = Put(toSrv, Pkt("SYN"))
  /\ UNCHANGED <<toCli, server, client>>

connect_ctcp(m) ==
  LET ok == m.flag = "SYN_ACK" IN
  /\ capp = "connect"
  /\ toCli' = Take(toCli, m)
  /\ toSrv' = IF ok THEN Put(toSrv, Ack(0)) ELSE toSrv
  /\ cpathstate' = IF ok THEN "ESTABLISHED" ELSE cpathstate
  /\ daemon' = IF ok THEN "top" ELSE daemon
  /\ capp' = IF ok THEN "open" ELSE capp
  /\ UNCHANGED <<server, cstatus, released, cache, received, htries, ctries,
                 sock_status_old, outcome, answered, reader>>

(* close_clictcp: close the socket, signal the daemon, join it.            *)
close_clictcp ==
  /\ capp = "open"
  /\ sock_status_old' = cstatus
  /\ cstatus' = "CLOSED" /\ released' = TRUE
  /\ capp' = "kill"
  /\ UNCHANGED <<chans, server, cpathstate, cache, received, dvars, ctries, outcome, answered, reader>>

(* The signal ends a poll; it is forgotten if the daemon is not in one.    *)
pthread_kill ==
  /\ capp = "kill"
  /\ daemon' = IF daemon = "poll" THEN "gone" ELSE daemon
  /\ capp' = "join"
  /\ UNCHANGED <<chans, server, csocket, htries, ctries, sock_status_old, outcome, answered, reader>>

CloseFin ==
  /\ capp = "join" /\ daemon = "gone"
  /\ IF sock_status_old = "CLOSED"
       THEN capp' = "done" /\ outcome' = "NONE" /\ UNCHANGED <<toSrv, cpathstate, ctries>>
       ELSE /\ toSrv' = Put(toSrv, Pkt("FIN")) /\ cpathstate' = "FIN_SENT"
            /\ ctries' = 1 /\ capp' = "fin" /\ UNCHANGED outcome
  /\ UNCHANGED <<toCli, server, cstatus, released, cache, received, dvars, sock_status_old, answered, reader>>

(* poll_flag reports a packet.  After the last try every answer comes too  *)
(* late, a FIN_ACK too.                                                    *)
ClosePoll(m) ==
  LET flag == m.flag
      last == ctries >= POLL_MAX_TRIES
      send == ~last /\ (flag = "FIN" \/ (flag = "FIN_ACK" /\ cpathstate # "CLOSING")) IN
  /\ capp = "fin"
  /\ toCli' = Take(toCli, m)
  /\ toSrv' = IF send THEN Put(toSrv, Pkt("FIN_ACK")) ELSE toSrv
  /\ cpathstate' = IF send THEN "CLOSING" ELSE cpathstate
  /\ capp' = IF last \/ flag = "FIN_ACK" THEN "done" ELSE "fin"
  /\ outcome' = IF last THEN "CLOSE_ERR" ELSE IF flag = "FIN_ACK" THEN "NONE" ELSE outcome
  /\ answered' = (flag = "FIN_ACK")
  /\ UNCHANGED <<server, cstatus, released, cache, received, dvars, ctries, sock_status_old, reader>>

ClosePollExpired ==
  LET last == ctries >= POLL_MAX_TRIES IN
  /\ capp = "fin"
  /\ ctries' = IF last THEN ctries ELSE ctries + 1
  /\ toSrv' = IF last THEN toSrv ELSE Put(toSrv, Pkt("FIN"))
  /\ cpathstate' = IF last THEN cpathstate ELSE "FIN_SENT"
  /\ capp' = IF last THEN "done" ELSE "fin"
  /\ outcome' = IF last THEN "CLOSE_ERR" ELSE outcome
  /\ UNCHANGED <<toCli, server, cstatus, released, cache, received, dvars, sock_status_old, answered, reader>>
-----------------------------------------------------------------------------
(* handle_connection, the client's daemon.                                 *)
DaemonPoll ==
  /\ daemon = "top" /\ daemon' = "poll"
  /\ UNCHANGED <<chans, server, csocket, htries, cvars, reader>>

DaemonNext == IF cstatus = "ACTIVE" THEN "top" ELSE "gone"

DaemonSynAck(m) ==
  /\ daemon = "poll" /\ m.flag = "SYN_ACK"
  /\ toCli' = Take(toCli, m) /\ toSrv' = Put(toSrv, Ack(0))
  /\ daemon' = DaemonNext
  /\ UNCHANGED <<server, csocket, htries, cvars, reader>>

(* bldack: the next item goes to usr_cache, and is acked in any case.      *)
DaemonData(m) ==
  LET new == m.n = received + 1 IN
  /\ daemon = "poll" /\ m.flag = "NORMAL"
  /\ toCli' = Take(toCli, m)
  /\ received' = IF new THEN received + 1 ELSE received
  /\ cache' = IF new THEN cache + 1 ELSE cache
  /\ toSrv' = Put(toSrv, Ack(received'))
  /\ daemon' = DaemonNext
  /\ UNCHANGED <<server, cstatus, cpathstate, released, htries, cvars, reader>>

DaemonFinAck(m) ==
  /\ daemon = "poll" /\ m.flag = "FIN_ACK"
  /\ toCli' = Take(toCli, m)
  /\ daemon' = DaemonNext
  /\ UNCHANGED <<toSrv, server, csocket, htries, cvars, reader>>

DaemonFin(m) ==
  /\ daemon = "poll" /\ m.flag = "FIN"
  /\ toCli' = Take(toCli, m) /\ toSrv' = Put(toSrv, Pkt("FIN_ACK"))
  /\ cpathstate' = "FIN_ACK_SENT" /\ htries' = 1 /\ daemon' = "fin"
  /\ UNCHANGED <<server, cstatus, released, cache, received, cvars, reader>>

(* The end of its loop on a FIN.                                           *)
DaemonClosed ==
  /\ cstatus' = "CLOSED" /\ released' = TRUE /\ daemon' = "gone"

DaemonFinPoll(m) ==
  LET flag == m.flag
      last == htries >= POLL_MAX_TRIES IN
  /\ daemon = "fin"
  /\ toCli' = Take(toCli, m)
  /\ cpathstate' = IF flag = "FIN_ACK" /\ ~last THEN "CLOSING" ELSE cpathstate
  /\ IF flag = "FIN_ACK" \/ last THEN DaemonClosed ELSE UNCHANGED <<cstatus, released, daemon>>
  /\ UNCHANGED <<toSrv, server, cache, received, htries, cvars, reader>>

DaemonFinExpired ==
  /\ daemon = "fin"
  /\ IF htries >= POLL_MAX_TRIES
       THEN DaemonClosed /\ UNCHANGED <<toSrv, htries>>
       ELSE /\ toSrv' = Put(toSrv, Pkt("FIN_ACK")) /\ htries' = htries + 1
            /\ UNCHANGED <<cstatus, released, daemon>>
  /\ UNCHANGED <<toCli, server, cpathstate, cache, received, cvars, reader>>
-----------------------------------------------------------------------------
(* read_ctcp: a look at the status, then fifo_pop.                         *)
read_ctcp ==
  /\ reader = "out" /\ daemon # "none" /\ capp # "done"
  /\ reader' = IF cstatus = "ACTIVE" THEN "pop" ELSE "eof"
  /\ UNCHANGED <<chans, server, csocket, dvars, cvars>>

ReadPop ==
  /\ reader = "pop" /\ capp # "done"
  /\ cache > 0 \/ released
  /\ cache' = IF cache > 0 THEN cache - 1 ELSE 0
  /\ reader' = IF cache > 0 THEN "out" ELSE "eof"
  /\ UNCHANGED <<chans, server, cstatus, cpathstate, released, received, dvars, cvars>>
-----------------------------------------------------------------------------
(* The network.                                                            *)
LoseToSrv(m) == toSrv' = Take(toSrv, m) /\ UNCHANGED <<toCli, server, client>>
LoseToCli(m) == toCli' = Take(toCli, m) /\ UNCHANGED <<toSrv, server, client>>

Closing    == \/ CloseFlushed \/ CloseJoined \/ CloseSendFin \/ CloseExpired
              \/ \E m \in BagToSet(toSrv) : CloseRead(m)
Worker     == \/ WorkerLoop \/ WorkerFinExpired \/ timeout \/ send_segs \/ SegsSend
              \/ \E m \in BagToSet(toSrv) : \/ WorkerSyn(m) \/ WorkerAck(m) \/ WorkerFin(m)
                                         \/ WorkerFinAck(m) \/ WorkerFinRead(m)
Connecting == ConnectExpired \/ \E m \in BagToSet(toCli) : connect_ctcp(m)
ClosingCli == pthread_kill \/ CloseFin \/ ClosePollExpired \/ \E m \in BagToSet(toCli) : ClosePoll(m)
Daemon     == \/ DaemonPoll \/ DaemonFinExpired
              \/ \E m \in BagToSet(toCli) : \/ DaemonSynAck(m) \/ DaemonData(m) \/ DaemonFinAck(m)
                                         \/ DaemonFin(m) \/ DaemonFinPoll(m)
Reading    == read_ctcp \/ ReadPop

Next ==
  \/ \E m \in BagToSet(toSrv) : listen_srvctcp(m)
  \/ send_ctcp \/ close_srvctcp \/ Closing
  \/ Worker
  \/ Connecting \/ close_clictcp \/ ClosingCli
  \/ Daemon
  \/ Reading
  \/ \E m \in BagToSet(toSrv) : LoseToSrv(m)
  \/ \E m \in BagToSet(toCli) : LoseToCli(m)

Spec == Init /\ [][Next]_vars

(* The threads keep running.  The application need not send, and need not  *)
(* close.                                                                  *)
FairSpec ==
  /\ Spec
  /\ WF_vars(Closing) /\ WF_vars(Worker)
  /\ WF_vars(Connecting) /\ WF_vars(ClosingCli) /\ WF_vars(Daemon) /\ WF_vars(Reading)

(* And no end reads in vain for ever while packets to it are in flight.    *)
DeliverySpec ==
  /\ FairSpec
  /\ SF_vars(\E m \in BagToSet(toCli) : connect_ctcp(m))
  /\ SF_vars(\E m \in BagToSet(toSrv) : CloseRead(m))
-----------------------------------------------------------------------------
(* The variables keep their types; acks are for items received, and data   *)
(* is what send_ctcp has accepted.                                         *)
TypeOK ==
  /\ \A m \in BagToSet(toSrv) : m.flag \in {"SYN", "NORMAL", "FIN", "FIN_ACK"} /\ m.n \in 0..received
  /\ \A m \in BagToSet(toCli) : m.flag \in {"SYN_ACK", "NORMAL", "FIN", "FIN_ACK"} /\ m.n \in 0..accepted
  /\ acked \in 0..received /\ received \in 0..accepted /\ cache \in 0..received
  /\ status \in {"ACTIVE", "SK_CLOSING", "CLOSED"} /\ cstatus \in {"ACTIVE", "CLOSED"}
  /\ idle \in 0..(maxidle + 1) /\ stries \in 0..CONTROL_MAX_RETRIES
  /\ htries \in 0..POLL_MAX_TRIES /\ ctries \in 0..POLL_MAX_TRIES

(* A close that ended well ended well for both: when close_srvctcp has its *)
(* FIN_ACK the client has left the ESTABLISHED state, and when             *)
(* close_clictcp has its own, or returns no error, so has the server.      *)
AgreedClose ==
  /\ success => cpathstate # "ESTABLISHED"
  /\ outcome = "NONE" => pathstate \notin {"SYN_ACK_SENT", "ESTABLISHED"}

(* With a client that is connected, close_srvctcp returns, whatever the    *)
(* network loses and whatever the worker is doing.                         *)
SrvCloseReturns == sapp = "flush" /\ capp # "connect" ~> sapp \in {"done", "crashed"}

(* close_srvctcp returns, with any client.                                 *)
SrvCloseBounded == sapp = "flush" ~> sapp \in {"done", "crashed"}

(* When connect_ctcp has returned, the server's path gets established too, *)
(* or its socket is closed.                                                *)
EventuallyEstablished == capp # "connect" ~> pathstate = "ESTABLISHED" \/ status # "ACTIVE"

(* read_ctcp reports the end, unless the client itself closes, only after  *)
(* the server's socket is CLOSED and takes no more from send_ctcp.         *)
EofMeansClosed == reader = "eof" /\ capp = "open" => status = "CLOSED"

(* read_ctcp reports the end only when everything received, and acked, has *)
(* been read, unless the client itself closes.                             *)
EofAfterData == reader = "eof" /\ capp = "open" => cache = 0

(* close_srvctcp does not look at a path that has been removed.            *)
PathStillThere == sapp # "crashed"

(* close_clictcp reports an error only if no FIN_ACK came.                 *)
ErrorOnlyUnanswered == outcome = "CLOSE_ERR" => ~answered

(* close_clictcp gets its daemon to end.                                   *)
CliCloseReturns == capp = "kill" ~> capp = "done"
=============================================================================
