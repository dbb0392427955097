---------------------------- MODULE SessionProofs ----------------------------
(***************************************************************************)
(* Proofs about the life of a connection (Session), for any number of      *)
(* tries, items and packets in flight, and any loss and overtaking.        *)
(***************************************************************************)
EXTENDS Session, TLAPS

(* What sending adds to the packets in flight, and receiving leaves.       *)
LEMMA PutPackets ==
  ASSUME NEW ch, NEW m
  PROVE  BagToSet(Put(ch, m)) \subseteq BagToSet(ch) \cup {m}
  BY DEF Put, BagToSet, SetToBag, (+)

LEMMA TakePackets ==
  ASSUME NEW ch, NEW m
  PROVE  BagToSet(Take(ch, m)) \subseteq BagToSet(ch)
  BY DEF Take, BagToSet, SetToBag, (-)

LEMMA FirstPacket ==
  /\ BagToSet(SetToBag({Pkt("SYN")})) = {Pkt("SYN")}
  /\ BagToSet(EmptyBag) = {}
  BY DEF BagToSet, SetToBag, EmptyBag
-----------------------------------------------------------------------------
(* The inductive invariant behind TypeOK: close_srvctcp goes round its     *)
(* loop on a FIN only with tries left.                                     *)
TypeInv ==
  /\ TypeOK /\ accepted \in 0..Items
  /\ sapp # "done" => stries < CONTROL_MAX_RETRIES

(* What agreement on closing rests on: a path that has left the            *)
(* ESTABLISHED state does not come back to it, and a FIN or FIN_ACK is     *)
(* sent only from a path that has left it.                                 *)
LeftBySrv == pathstate \in {"FIN_SENT", "FIN_ACK_SENT", "CLOSING", "removed"}
LeftByCli == capp # "connect" /\ cpathstate # "ESTABLISHED"
Ending(ch) == \E m \in BagToSet(ch) : m.flag \in {"FIN", "FIN_ACK"}

AgreedInv ==
  /\ sapp = "listen" => pathstate = "none" /\ worker = "none"
  /\ capp = "connect" => daemon = "none"
  /\ Ending(toSrv) \/ daemon = "fin" \/ success => LeftByCli
  /\ Ending(toCli) \/ daemon = "fin" \/ outcome = "NONE" => LeftBySrv
  /\ sock_status_old # "ACTIVE" \/ (capp = "open" /\ cstatus # "ACTIVE") => LeftBySrv
  /\ capp = "connect" => cstatus = "ACTIVE"

(* What the end of file rests on: until the client closes, it sends no     *)
(* FIN, so server_worker does not leave CLOSED for SK_CLOSING; and all     *)
(* that can come of close_srvctcp's FIN comes after CLOSED.                *)
CliOpen == capp \in {"connect", "open"}
FinSent == \E m \in BagToSet(toCli) : m.flag = "FIN"
EofInv ==
  /\ CliOpen => worker # "fin" /\ \A m \in BagToSet(toSrv) : m.flag # "FIN"
  /\ CliOpen /\ (\/ sapp \in {"join", "send_fin", "read_fin"}
                 \/ FinSent \/ daemon = "fin"
                 \/ cstatus # "ACTIVE" \/ released \/ reader = "eof") => status = "CLOSED"
-----------------------------------------------------------------------------
LEMMA TypeStep ==
  ASSUME TypeInv, [Next]_vars
  PROVE  TypeInv'
<1> USE PutPackets, TakePackets, RetryAssumption, BoundAssumption
    DEF chans, server, client, socket, wvars, svars, csocket, dvars, cvars,
        Pkt, Ack, Data, TypeInv, TypeOK
<1>1. ASSUME NEW m \in BagToSet(toSrv), listen_srvctcp(m) PROVE TypeInv'
  BY <1>1 DEF listen_srvctcp
<1>2. ASSUME NEW m \in BagToSet(toSrv), CloseRead(m) PROVE TypeInv'
  BY <1>2 DEF CloseRead, FinAnswered
<1>3. ASSUME NEW m \in BagToSet(toSrv), WorkerSyn(m) PROVE TypeInv'
  BY <1>3 DEF WorkerSyn
<1>4. ASSUME NEW m \in BagToSet(toSrv), WorkerAck(m) PROVE TypeInv'
  BY <1>4 DEF WorkerAck, EnterSegs
<1>5. ASSUME NEW m \in BagToSet(toSrv), WorkerFin(m) PROVE TypeInv'
  BY <1>5 DEF WorkerFin
<1>6. ASSUME NEW m \in BagToSet(toSrv), WorkerFinAck(m) PROVE TypeInv'
  BY <1>6 DEF WorkerFinAck
<1>7. ASSUME NEW m \in BagToSet(toSrv), WorkerFinRead(m) PROVE TypeInv'
  BY <1>7 DEF WorkerFinRead, FinRound
<1>8. ASSUME NEW m \in BagToSet(toSrv), LoseToSrv(m) PROVE TypeInv'
  BY <1>8 DEF LoseToSrv
<1>9. ASSUME NEW m \in BagToSet(toCli), connect_ctcp(m) PROVE TypeInv'
  BY <1>9 DEF connect_ctcp
<1>10. ASSUME NEW m \in BagToSet(toCli), ClosePoll(m) PROVE TypeInv'
  BY <1>10 DEF ClosePoll
<1>11. ASSUME NEW m \in BagToSet(toCli), DaemonSynAck(m) PROVE TypeInv'
  BY <1>11 DEF DaemonSynAck, DaemonNext
<1>12. ASSUME NEW m \in BagToSet(toCli), DaemonData(m) PROVE TypeInv'
  BY <1>12 DEF DaemonData, DaemonNext
<1>13. ASSUME NEW m \in BagToSet(toCli), DaemonFinAck(m) PROVE TypeInv'
  BY <1>13 DEF DaemonFinAck, DaemonNext
<1>14. ASSUME NEW m \in BagToSet(toCli), DaemonFin(m) PROVE TypeInv'
  BY <1>14 DEF DaemonFin
<1>15. ASSUME NEW m \in BagToSet(toCli), DaemonFinPoll(m) PROVE TypeInv'
  BY <1>15 DEF DaemonFinPoll, DaemonClosed
<1>16. ASSUME NEW m \in BagToSet(toCli), LoseToCli(m) PROVE TypeInv'
  BY <1>16 DEF LoseToCli
<1>17. CASE send_ctcp
  BY <1>17 DEF send_ctcp, BlockReady
<1>18. CASE close_srvctcp
  BY <1>18 DEF close_srvctcp
<1>19. CASE CloseFlushed
  BY <1>19 DEF CloseFlushed, BlockReady
<1>20. CASE CloseJoined
  BY <1>20 DEF CloseJoined
<1>21. CASE CloseSendFin
  BY <1>21 DEF CloseSendFin
<1>22. CASE CloseExpired
  BY <1>22 DEF CloseExpired
<1>23. CASE WorkerLoop
  BY <1>23 DEF WorkerLoop
<1>24. CASE WorkerFinExpired
  BY <1>24 DEF WorkerFinExpired, FinRound
<1>25. CASE timeout
  BY <1>25 DEF timeout, EnterSegs, Idled
<1>26. CASE send_segs
  BY <1>26 DEF send_segs
<1>27. CASE SegsSend
  BY <1>27 DEF SegsSend
<1>28. CASE ConnectExpired
  BY <1>28 DEF ConnectExpired
<1>29. CASE close_clictcp
  BY <1>29 DEF close_clictcp
<1>30. CASE pthread_kill
  BY <1>30 DEF pthread_kill
<1>31. CASE CloseFin
  BY <1>31 DEF CloseFin
<1>32. CASE ClosePollExpired
  BY <1>32 DEF ClosePollExpired
<1>33. CASE DaemonPoll
  BY <1>33 DEF DaemonPoll
<1>34. CASE DaemonFinExpired
  BY <1>34 DEF DaemonFinExpired, DaemonClosed
<1>35. CASE read_ctcp
  BY <1>35 DEF read_ctcp
<1>36. CASE ReadPop
  BY <1>36 DEF ReadPop
<1>37. CASE UNCHANGED vars
  BY <1>37 DEF vars
<1> QED
  BY <1>1, <1>2, <1>3, <1>4, <1>5, <1>6, <1>7, <1>8, <1>9, <1>10, <1>11, <1>12, <1>13, <1>14,
     <1>15, <1>16, <1>17, <1>18, <1>19, <1>20, <1>21, <1>22, <1>23, <1>24, <1>25, <1>26, <1>27,
     <1>28, <1>29, <1>30, <1>31, <1>32, <1>33, <1>34, <1>35, <1>36, <1>37 DEF Next, Closing,
     Worker, Connecting, ClosingCli, Daemon, Reading
-----------------------------------------------------------------------------
LEMMA AgreedStep ==
  ASSUME AgreedInv, [Next]_vars
  PROVE  AgreedInv'
<1> USE PutPackets, TakePackets
    DEF chans, server, client, socket, wvars, svars, csocket, dvars, cvars,
        Pkt, Ack, Data, AgreedInv, LeftBySrv, LeftByCli, Ending
<1>1. ASSUME NEW m \in BagToSet(toSrv), listen_srvctcp(m) PROVE AgreedInv'
  BY <1>1 DEF listen_srvctcp
<1>2. ASSUME NEW m \in BagToSet(toSrv), CloseRead(m) PROVE AgreedInv'
  BY <1>2 DEF CloseRead, FinAnswered
<1>3. ASSUME NEW m \in BagToSet(toSrv), WorkerSyn(m) PROVE AgreedInv'
  BY <1>3 DEF WorkerSyn
<1>4. ASSUME NEW m \in BagToSet(toSrv), WorkerAck(m) PROVE AgreedInv'
  BY <1>4 DEF WorkerAck, EnterSegs
<1>5. ASSUME NEW m \in BagToSet(toSrv), WorkerFin(m) PROVE AgreedInv'
  BY <1>5 DEF WorkerFin
<1>6. ASSUME NEW m \in BagToSet(toSrv), WorkerFinAck(m) PROVE AgreedInv'
  BY <1>6 DEF WorkerFinAck
<1>7. ASSUME NEW m \in BagToSet(toSrv), WorkerFinRead(m) PROVE AgreedInv'
  BY <1>7 DEF WorkerFinRead, FinRound
<1>8. ASSUME NEW m \in BagToSet(toSrv), LoseToSrv(m) PROVE AgreedInv'
  BY <1>8 DEF LoseToSrv
<1>9. ASSUME NEW m \in BagToSet(toCli), connect_ctcp(m) PROVE AgreedInv'
  BY <1>9 DEF connect_ctcp
<1>10. ASSUME NEW m \in BagToSet(toCli), ClosePoll(m) PROVE AgreedInv'
  BY <1>10 DEF ClosePoll
<1>11. ASSUME NEW m \in BagToSet(toCli), DaemonSynAck(m) PROVE AgreedInv'
  BY <1>11 DEF DaemonSynAck, DaemonNext
<1>12. ASSUME NEW m \in BagToSet(toCli), DaemonData(m) PROVE AgreedInv'
  BY <1>12 DEF DaemonData, DaemonNext
<1>13. ASSUME NEW m \in BagToSet(toCli), DaemonFinAck(m) PROVE AgreedInv'
  BY <1>13 DEF DaemonFinAck, DaemonNext
<1>14. ASSUME NEW m \in BagToSet(toCli), DaemonFin(m) PROVE AgreedInv'
  BY <1>14 DEF DaemonFin
<1>15. ASSUME NEW m \in BagToSet(toCli), DaemonFinPoll(m) PROVE AgreedInv'
  BY <1>15 DEF DaemonFinPoll, DaemonClosed
<1>16. ASSUME NEW m \in BagToSet(toCli), LoseToCli(m) PROVE AgreedInv'
  BY <1>16 DEF LoseToCli
<1>17. CASE send_ctcp
  BY <1>17 DEF send_ctcp, BlockReady
<1>18. CASE close_srvctcp
  BY <1>18 DEF close_srvctcp
<1>19. CASE CloseFlushed
  BY <1>19 DEF CloseFlushed, BlockReady
<1>20. CASE CloseJoined
  BY <1>20 DEF CloseJoined
<1>21. CASE CloseSendFin
  BY <1>21 DEF CloseSendFin
<1>22. CASE CloseExpired
  BY <1>22 DEF CloseExpired
<1>23. CASE WorkerLoop
  BY <1>23 DEF WorkerLoop
<1>24. CASE WorkerFinExpired
  BY <1>24 DEF WorkerFinExpired, FinRound
<1>25. CASE timeout
  BY <1>25 DEF timeout, EnterSegs, Idled
<1>26. CASE send_segs
  BY <1>26 DEF send_segs
<1>27. CASE SegsSend
  BY <1>27 DEF SegsSend
<1>28. CASE ConnectExpired
  BY <1>28 DEF ConnectExpired
<1>29. CASE close_clictcp
  BY <1>29 DEF close_clictcp
<1>30. CASE pthread_kill
  BY <1>30 DEF pthread_kill
<1>31. CASE CloseFin
  BY <1>31 DEF CloseFin
<1>32. CASE ClosePollExpired
  BY <1>32 DEF ClosePollExpired
<1>33. CASE DaemonPoll
  BY <1>33 DEF DaemonPoll
<1>34. CASE DaemonFinExpired
  BY <1>34 DEF DaemonFinExpired, DaemonClosed
<1>35. CASE read_ctcp
  BY <1>35 DEF read_ctcp
<1>36. CASE ReadPop
  BY <1>36 DEF ReadPop
<1>37. CASE UNCHANGED vars
  BY <1>37 DEF vars
<1> QED
  BY <1>1, <1>2, <1>3, <1>4, <1>5, <1>6, <1>7, <1>8, <1>9, <1>10, <1>11, <1>12, <1>13, <1>14,
     <1>15, <1>16, <1>17, <1>18, <1>19, <1>20, <1>21, <1>22, <1>23, <1>24, <1>25, <1>26, <1>27,
     <1>28, <1>29, <1>30, <1>31, <1>32, <1>33, <1>34, <1>35, <1>36, <1>37 DEF Next, Closing,
     Worker, Connecting, ClosingCli, Daemon, Reading
-----------------------------------------------------------------------------
LEMMA EofStep ==
  ASSUME EofInv, [Next]_vars
  PROVE  EofInv'
<1> USE PutPackets, TakePackets
    DEF chans, server, client, socket, wvars, svars, csocket, dvars, cvars,
        Pkt, Ack, Data, EofInv, CliOpen, FinSent
<1>1. ASSUME NEW m \in BagToSet(toSrv), listen_srvctcp(m) PROVE EofInv'
  BY <1>1 DEF listen_srvctcp
<1>2. ASSUME NEW m \in BagToSet(toSrv), CloseRead(m) PROVE EofInv'
  BY <1>2 DEF CloseRead, FinAnswered
<1>3. ASSUME NEW m \in BagToSet(toSrv), WorkerSyn(m) PROVE EofInv'
  BY <1>3 DEF WorkerSyn
<1>4. ASSUME NEW m \in BagToSet(toSrv), WorkerAck(m) PROVE EofInv'
  BY <1>4 DEF WorkerAck, EnterSegs
<1>5. ASSUME NEW m \in BagToSet(toSrv), WorkerFin(m) PROVE EofInv'
  BY <1>5 DEF WorkerFin
<1>6. ASSUME NEW m \in BagToSet(toSrv), WorkerFinAck(m) PROVE EofInv'
  BY <1>6 DEF WorkerFinAck
<1>7. ASSUME NEW m \in BagToSet(toSrv), WorkerFinRead(m) PROVE EofInv'
  BY <1>7 DEF WorkerFinRead, FinRound
<1>8. ASSUME NEW m \in BagToSet(toSrv), LoseToSrv(m) PROVE EofInv'
  BY <1>8 DEF LoseToSrv
<1>9. ASSUME NEW m \in BagToSet(toCli), connect_ctcp(m) PROVE EofInv'
  BY <1>9 DEF connect_ctcp
<1>10. ASSUME NEW m \in BagToSet(toCli), ClosePoll(m) PROVE EofInv'
  BY <1>10 DEF ClosePoll
<1>11. ASSUME NEW m \in BagToSet(toCli), DaemonSynAck(m) PROVE EofInv'
  BY <1>11 DEF DaemonSynAck, DaemonNext
<1>12. ASSUME NEW m \in BagToSet(toCli), DaemonData(m) PROVE EofInv'
  BY <1>12 DEF DaemonData, DaemonNext
<1>13. ASSUME NEW m \in BagToSet(toCli), DaemonFinAck(m) PROVE EofInv'
  BY <1>13 DEF DaemonFinAck, DaemonNext
<1>14. ASSUME NEW m \in BagToSet(toCli), DaemonFin(m) PROVE EofInv'
  BY <1>14 DEF DaemonFin
<1>15. ASSUME NEW m \in BagToSet(toCli), DaemonFinPoll(m) PROVE EofInv'
  BY <1>15 DEF DaemonFinPoll, DaemonClosed
<1>16. ASSUME NEW m \in BagToSet(toCli), LoseToCli(m) PROVE EofInv'
  BY <1>16 DEF LoseToCli
<1>17. CASE send_ctcp
  BY <1>17 DEF send_ctcp, BlockReady
<1>18. CASE close_srvctcp
  BY <1>18 DEF close_srvctcp
<1>19. CASE CloseFlushed
  BY <1>19 DEF CloseFlushed, BlockReady
<1>20. CASE CloseJoined
  BY <1>20 DEF CloseJoined
<1>21. CASE CloseSendFin
  BY <1>21 DEF CloseSendFin
<1>22. CASE CloseExpired
  BY <1>22 DEF CloseExpired
<1>23. CASE WorkerLoop
  BY <1>23 DEF WorkerLoop
<1>24. CASE WorkerFinExpired
  BY <1>24 DEF WorkerFinExpired, FinRound
<1>25. CASE timeout
  BY <1>25 DEF timeout, EnterSegs, Idled
<1>26. CASE send_segs
  BY <1>26 DEF send_segs
<1>27. CASE SegsSend
  BY <1>27 DEF SegsSend
<1>28. CASE ConnectExpired
  BY <1>28 DEF ConnectExpired
<1>29. CASE close_clictcp
  BY <1>29 DEF close_clictcp
<1>30. CASE pthread_kill
  BY <1>30 DEF pthread_kill
<1>31. CASE CloseFin
  BY <1>31 DEF CloseFin
<1>32. CASE ClosePollExpired
  BY <1>32 DEF ClosePollExpired
<1>33. CASE DaemonPoll
  BY <1>33 DEF DaemonPoll
<1>34. CASE DaemonFinExpired
  BY <1>34 DEF DaemonFinExpired, DaemonClosed
<1>35. CASE read_ctcp
  BY <1>35 DEF read_ctcp
<1>36. CASE ReadPop
  BY <1>36 DEF ReadPop
<1>37. CASE UNCHANGED vars
  BY <1>37 DEF vars
<1> QED
  BY <1>1, <1>2, <1>3, <1>4, <1>5, <1>6, <1>7, <1>8, <1>9, <1>10, <1>11, <1>12, <1>13, <1>14,
     <1>15, <1>16, <1>17, <1>18, <1>19, <1>20, <1>21, <1>22, <1>23, <1>24, <1>25, <1>26, <1>27,
     <1>28, <1>29, <1>30, <1>31, <1>32, <1>33, <1>34, <1>35, <1>36, <1>37 DEF Next, Closing,
     Worker, Connecting, ClosingCli, Daemon, Reading
-----------------------------------------------------------------------------
(* Whatever is lost, sent again or overtaken, an ack is for items received *)
(* by the client, which are items send_ctcp has accepted, and the retry     *)
(* counters of the loops on a FIN, of both ends, keep to their limits.     *)
THEOREM TypeCorrect == Spec => []TypeOK
<1>1. Init => TypeInv
  BY FirstPacket, RetryAssumption, BoundAssumption DEF Init, TypeInv, TypeOK, Pkt
<1>2. TypeInv /\ [Next]_vars => TypeInv'
  BY TypeStep
<1>3. TypeInv => TypeOK
  BY DEF TypeInv
<1> QED
  BY <1>1, <1>2, <1>3, PTL DEF Spec

(* A close that ended well for one end is known to the other: the loop of  *)
(* close_srvctcp takes no packet of an ESTABLISHED client for its FIN_ACK, *)
(* and close_clictcp returns no error only if the server's path has left   *)
(* the ESTABLISHED state.                                                  *)
THEOREM CloseIsAgreed == Spec => []AgreedClose
<1>1. Init => AgreedInv
  BY FirstPacket DEF Init, AgreedInv, LeftBySrv, LeftByCli, Ending, Pkt
<1>2. AgreedInv /\ [Next]_vars => AgreedInv'
  BY AgreedStep
<1>3. AgreedInv => AgreedClose
  BY DEF AgreedInv, AgreedClose, LeftBySrv, LeftByCli
<1> QED
  BY <1>1, <1>2, <1>3, PTL DEF Spec

(* read_ctcp tells an application that has not closed its socket of the    *)
(* end only when the server's socket is CLOSED: no late or resent packet  *)
(* makes the client's daemon end a connection that send_ctcp still writes  *)
(* to.                                                                     *)
THEOREM EofOnlyAfterClose == Spec => []EofMeansClosed
<1>1. Init => EofInv
  BY FirstPacket DEF Init, EofInv, CliOpen, FinSent, Pkt
<1>2. EofInv /\ [Next]_vars => EofInv'
  BY EofStep
<1>3. EofInv => EofMeansClosed
  BY DEF EofInv, EofMeansClosed, CliOpen
<1> QED
  BY <1>1, <1>2, <1>3, PTL DEF Spec
=============================================================================
