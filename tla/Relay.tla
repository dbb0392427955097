-------------------------------- MODULE Relay --------------------------------
(***************************************************************************)
(* One proxied connection: the application's TCP connection to a child of  *)
(* proxy_local, that child's TCP connection to a child of proxy_remote     *)
(* (which carries what the application sends) and their CTCP connection    *)
(* (which carries what the target sends), and the TCP connection to the    *)
(* target.  The local child is two threads, handle_traffic and             *)
(* handle_ctcp_traffic; the remote child is one, with one buffer for both  *)
(* directions.  Bytes are numbered: 1, 2, ... from the application, -1,    *)
(* -2, ... from the target.                                                *)
(***************************************************************************)
EXTENDS Integers, Sequences

CONSTANTS buf_size,
          Cap,      \* bytes a connection holds in one direction
          AppBytes, TargetBytes   \* bounds: bytes sent from either end

ASSUME RelayAssumption ==
  buf_size \in Nat \ {0} /\ Cap \in Nat \ {0} /\ AppBytes \in Nat /\ TargetBytes \in Nat

VARIABLES
  app,       \* the application's socket: "open", "shut" (for writing), "closed"
  target,    \* the target's: "none" (not connected yet), "open", "closed"
  appSent, appGot, targetSent, targetGot,   \* history, the two Gots sequences
  net,       \* the bytes under way in each connection and direction
  local,     \* the local child's main thread, see Init
  lbuf,      \* its buffer, from buf + bptr to buf + btop
  reader,    \* its other thread: "none", "read", "write", "exit"
  rbuf,
  csk,       \* the CTCP socket: "null", "live", "freed"
  remote,    \* the remote child, see Init
  mbuf, mown,   \* its buffer and bown
  cstatus, sstatus   \* of the two ends of the CTCP connection

ends   == <<app, target, appSent, appGot, targetSent, targetGot>>
lvars  == <<local, lbuf>>
rvars  == <<reader, rbuf>>
mvars  == <<remote, mbuf, mown>>
status == <<csk, cstatus, sstatus>>
vars   == <<ends, net, lvars, rvars, mvars, status>>

Conns == {"appUp", "midUp", "targetUp", "targetDown", "ctcp", "appDown"}
Gone(pc) == pc = "exit"

(* local: "socks" (negotiates with the application), "proxy" (waits for    *)
(* the remote proxy's answer), "syn" (in connect_ctcp), "relay", "join",   *)
(* "fin" and "freed" (in close_clictcp), "exit".                           *)
(* remote: "none" (not forked), "socks", "listen", "relay", "write" and    *)
(* "send" (inside the call), "fin" (in close_srvctcp), "exit".             *)
Init ==
  /\ app = "open" /\ target = "none"
  /\ appSent = 0 /\ targetSent = 0 /\ appGot = <<>> /\ targetGot = <<>>
  /\ net = [c \in Conns |-> <<>>]
  /\ local = "socks" /\ lbuf = <<>>
  /\ reader = "none" /\ rbuf = <<>>
  /\ csk = "null" /\ cstatus = "ACTIVE" /\ sstatus = "ACTIVE"
  /\ remote = "none" /\ mbuf = <<>> /\ mown = 0

Room(c)    == Cap - Len(net[c])
First(s, n) == SubSeq(s, 1, n)
After(s, n) == SubSeq(s, n + 1, Len(s))
MIN(a, b)  == IF a < b THEN a ELSE b
Put(c, s)  == net' = [net EXCEPT ![c] = @ \o s]
Take(c, n) == net' = [net EXCEPT ![c] = After(@, n)]
-----------------------------------------------------------------------------
(* The two ends, which are not part of this program.                       *)
AppSend ==
  /\ app = "open" /\ appSent < AppBytes /\ Room("appUp") > 0
  /\ local \in {"relay", "join"}
  /\ appSent' = appSent + 1
  /\ Put("appUp", <<appSent'>>)
  /\ UNCHANGED <<app, target, appGot, targetSent, targetGot, lvars, rvars, mvars, status>>

AppRead ==
  /\ app # "closed" /\ net["appDown"] # <<>>
  /\ appGot' = Append(appGot, Head(net["appDown"]))
  /\ Take("appDown", 1)
  /\ UNCHANGED <<app, target, appSent, targetSent, targetGot, lvars, rvars, mvars, status>>

AppStop ==
  /\ \/ app = "open" /\ local = "relay" /\ app' = "shut"
     \/ app # "closed" /\ app' = "closed"
  /\ UNCHANGED <<target, appSent, appGot, targetSent, targetGot, net, lvars, rvars, mvars, status>>

TargetSend ==
  /\ target = "open" /\ targetSent < TargetBytes /\ Room("targetDown") > 0
  /\ targetSent' = targetSent + 1
  /\ Put("targetDown", <<-targetSent'>>)
  /\ UNCHANGED <<app, target, appSent, appGot, targetGot, lvars, rvars, mvars, status>>

TargetRead ==
  /\ target = "open" /\ net["targetUp"] # <<>>
  /\ targetGot' = Append(targetGot, Head(net["targetUp"]))
  /\ Take("targetUp", 1)
  /\ UNCHANGED <<app, target, appSent, appGot, targetSent, lvars, rvars, mvars, status>>

TargetClose ==
  /\ target = "open" /\ target' = "closed"
  /\ UNCHANGED <<app, appSent, appGot, targetSent, targetGot, net, lvars, rvars, mvars, status>>
-----------------------------------------------------------------------------
(* Negotiation, each side under its alarm.                                 *)

(* The application's request is read: it is bad and gets an error reply,   *)
(* or it is a CONNECT and goes on to the remote proxy, whose daemon forks  *)
(* a child.                                                                *)
LocalRequest ==
  /\ local = "socks"
  /\ \/ local' = "exit" /\ UNCHANGED remote
     \/ local' = "proxy" /\ remote' = "socks"
  /\ UNCHANGED <<ends, net, lbuf, rvars, mbuf, mown, status>>

(* A BIND needs no remote proxy, and makes no CTCP connection either: csk  *)
(* is still NULL when the reader starts.                                   *)
LocalBind ==
  /\ local = "socks"
  /\ local' = "relay" /\ reader' = "read"
  /\ UNCHANGED <<ends, net, lbuf, rbuf, mvars, status>>

(* The remote child has bound its port and reads the request: a bad one,   *)
(* or a target that cannot be reached, is answered with an error; or       *)
(* SIGALRM comes first.                                                    *)
RemoteRefuse ==
  /\ remote = "socks"
  /\ remote' = "exit"
  /\ UNCHANGED <<ends, net, lvars, rvars, mbuf, mown, status>>

(* It connects to the target, answers, stops its alarm and waits for a     *)
(* SYN.                                                                    *)
RemoteConnect ==
  /\ remote = "socks"
  /\ remote' = "listen" /\ target' = "open"
  /\ UNCHANGED <<app, appSent, appGot, targetSent, targetGot, net, lvars, rvars, mbuf, mown, status>>

(* proxy_connect has its answer, or the connection is gone.                *)
LocalAnswer ==
  /\ local = "proxy"
  /\ \/ remote = "listen" /\ local' = "syn"
     \/ remote = "exit" /\ local' = "exit"
  /\ UNCHANGED <<ends, net, lbuf, rvars, mvars, status>>

(* The SYN reaches listen_srvctcp and its answer connect_ctcp; handle_con  *)
(* then replies to the application, stops the alarm and starts the reader, *)
(* or exits because the reply cannot be written.                           *)
Established ==
  /\ local = "syn" /\ remote = "listen"
  /\ remote' = "relay" /\ csk' = "live"
  /\ \/ local' = "relay" /\ reader' = "read"
     \/ app = "closed" /\ local' = "exit" /\ UNCHANGED reader
  /\ UNCHANGED <<ends, net, lbuf, rbuf, mbuf, mown, cstatus, sstatus>>

(* listen_srvctcp gives up if its first packet is not a SYN.               *)
NotSyn ==
  /\ remote = "listen"
  /\ remote' = "exit" /\ target' = "closed"
  /\ UNCHANGED <<app, appSent, appGot, targetSent, targetGot, net, lvars, rvars, mbuf, mown, status>>

(* SIGALRM ends the local child while it negotiates; a failed connect_ctcp *)
(* does too.                                                               *)
LocalAlarm ==
  /\ local \in {"socks", "proxy", "syn"}
  /\ local' = "exit"
  /\ UNCHANGED <<ends, net, lbuf, rvars, mvars, status>>
-----------------------------------------------------------------------------
(* handle_traffic of child_local.c.  Nothing but its end comes back on the *)
(* connection to the remote child.                                         *)
AppReadable == net["appUp"] # <<>> \/ app # "open"

LocalRead ==
  /\ local = "relay" /\ lbuf = <<>> /\ net["appUp"] # <<>>
  /\ LET n == MIN(buf_size, Len(net["appUp"])) IN
       lbuf' = First(net["appUp"], n) /\ Take("appUp", n)
  /\ UNCHANGED <<ends, local, rvars, mvars, status>>

(* A bug BytesAccounted must notice: bptr not advanced by a short write.   *)
RestRepeated(s, n) == IF n = Len(s) THEN <<>> ELSE s

(* What bptr += res leaves of a buffer.                                    *)
Rest(s, n) == After(s, n)

LocalWrite ==
  /\ local = "relay" /\ lbuf # <<>> /\ remote # "exit"
  /\ \E n \in 1..MIN(Len(lbuf), Room("midUp")) :
       Put("midUp", First(lbuf, n)) /\ lbuf' = Rest(lbuf, n)
  /\ UNCHANGED <<ends, local, rvars, mvars, status>>

(* It returns: read() is 0 at the end of either connection; poll() reports *)
(* an error or a hangup, possible once the peer is gone; or nothing        *)
(* happens for con_idle_timeo.                                             *)
LocalEof == lbuf = <<>> /\ \/ net["appUp"] = <<>> /\ app # "open"
                           \/ ~AppReadable /\ remote = "exit"
LocalHup == app = "closed" \/ remote = "exit"
LocalIdle == IF lbuf = <<>> THEN ~AppReadable /\ remote # "exit"
             ELSE Room("midUp") = 0 \/ csk = "null"

LocalDone ==
  /\ local = "relay" /\ (LocalEof \/ LocalHup \/ LocalIdle)
  /\ local' = "join" /\ lbuf' = <<>>
  /\ UNCHANGED <<ends, net, rvars, mvars, status>>

(* A bug BothEnd must notice: pthread_join without a limit.                *)
JoinUntimed == reader = "exit"

(* pthread_timedjoin_np: the reader is done, or 30 seconds have passed.    *)
JoinReturns == TRUE

(* handle_con goes on to close_clictcp: status, fifo_release, a FIN that   *)
(* may be lost (FinArrives), free; then the process exits.                 *)
LocalJoin ==
  /\ local = "join" /\ JoinReturns
  /\ IF csk = "null" THEN local' = "exit" /\ reader' = "exit" /\ UNCHANGED cstatus
     ELSE local' = "fin" /\ cstatus' = "CLOSED" /\ UNCHANGED reader
  /\ UNCHANGED <<ends, net, lbuf, rbuf, mvars, csk, sstatus>>

LocalFree ==
  /\ local = "fin"
  /\ local' = "freed" /\ csk' = "freed"
  /\ UNCHANGED <<ends, net, lbuf, rvars, mvars, cstatus, sstatus>>

LocalExit ==
  /\ local = "freed"
  /\ local' = "exit" /\ reader' = "exit"
  /\ UNCHANGED <<ends, net, lbuf, rbuf, mvars, status>>
-----------------------------------------------------------------------------
(* handle_ctcp_traffic.  read_ctcp: -1 if the connection is not ACTIVE.    *)
ReadCtcp ==
  /\ reader = "read" /\ csk # "null"
  /\ \/ /\ cstatus # "ACTIVE"
        /\ reader' = "exit"
        /\ UNCHANGED <<net, rbuf>>
     \/ /\ cstatus = "ACTIVE" /\ net["ctcp"] # <<>>
        /\ LET n == MIN(buf_size, Len(net["ctcp"])) IN
             rbuf' = First(net["ctcp"], n) /\ Take("ctcp", n)
        /\ reader' = "write"
  /\ UNCHANGED <<ends, lvars, mvars, status>>

(* csk is NULL: the process crashes.                                       *)
ReadNull ==
  /\ reader = "read" /\ csk = "null"
  /\ reader' = "exit" /\ local' = "exit"
  /\ UNCHANGED <<ends, net, lbuf, rbuf, mvars, status>>

ReaderWrite ==
  /\ reader = "write" /\ app # "closed"
  /\ \E n \in 1..MIN(Len(rbuf), Room("appDown")) :
       Put("appDown", First(rbuf, n)) /\ rbuf' = Rest(rbuf, n)
  /\ reader' = IF rbuf' = <<>> THEN "read" ELSE "write"
  /\ UNCHANGED <<ends, lvars, mvars, status>>

(* The application is gone: a hangup, or SIGPIPE, which ends the process;  *)
(* or it has not read for con_idle_timeo.                                  *)
ReaderStop ==
  /\ reader = "write" /\ (app = "closed" \/ Room("appDown") = 0)
  /\ reader' = "exit"
  /\ UNCHANGED <<ends, net, lvars, rbuf, mvars, status>>

ReaderSigpipe ==
  /\ reader = "write" /\ app = "closed"
  /\ reader' = "exit" /\ local' = "exit"
  /\ UNCHANGED <<ends, net, lbuf, rbuf, mvars, status>>
-----------------------------------------------------------------------------
(* handle_traffic of child_remote.c.                                       *)
MidReadable    == net["midUp"] # <<>> \/ Gone(local)
TargetReadable == net["targetDown"] # <<>> \/ target = "closed"

(* bown is 0 whenever the local child's connection is readable.            *)
Owners == IF MidReadable THEN {0} ELSE IF TargetReadable THEN {1} ELSE {}
Source(own) == IF own = 0 THEN "midUp" ELSE "targetDown"

RemoteRead ==
  /\ remote = "relay" /\ mbuf = <<>>
  /\ \E own \in Owners :
       LET in == net[Source(own)]
           n  == MIN(buf_size, Len(in)) IN
       /\ in # <<>>
       /\ mown' = own /\ mbuf' = First(in, n)
       /\ Take(Source(own), n)
  /\ UNCHANGED <<ends, lvars, rvars, remote, status>>

(* What is done with the buffer: write() to the target, or send_ctcp().    *)
Forward(own) == IF own = 0 THEN "write" ELSE "send"

RemoteForward ==
  /\ remote = "relay" /\ mbuf # <<>>
  /\ Forward(mown) = "write" => target = "closed" \/ Room("targetUp") > 0
  /\ remote' = Forward(mown)
  /\ UNCHANGED <<ends, net, lvars, rvars, mbuf, mown, status>>

(* write() blocks until all is written; it fails once the target is gone.  *)
RemoteWrite ==
  /\ remote = "write"
  /\ \/ /\ target = "open"
        /\ \E n \in 1..MIN(Len(mbuf), Room("targetUp")) :
             Put("targetUp", First(mbuf, n)) /\ mbuf' = Rest(mbuf, n)
        /\ remote' = IF mbuf' = <<>> THEN "relay" ELSE "write"
     \/ /\ target = "closed"
        /\ remote' = "fin" /\ mbuf' = <<>>
        /\ UNCHANGED net
  /\ UNCHANGED <<ends, lvars, rvars, mown, status>>

(* send_ctcp returns -1 when the connection is not ACTIVE.                 *)
SendFails == sstatus # "ACTIVE"

(* The loop around send_ctcp, which returns a short count if blocks stay   *)
(* full.                                                                   *)
RemoteSend ==
  /\ remote = "send"
  /\ \/ /\ ~SendFails
        /\ \E n \in 1..MIN(Len(mbuf), Room("ctcp")) :
             Put("ctcp", First(mbuf, n)) /\ mbuf' = Rest(mbuf, n)
        /\ remote' = IF mbuf' = <<>> THEN "relay" ELSE "send"
     \/ /\ SendFails
        /\ remote' = "fin" /\ mbuf' = <<>>
        /\ UNCHANGED net
  /\ UNCHANGED <<ends, lvars, rvars, mown, status>>

(* It returns: end of file, a hangup, or nothing for con_idle_timeo.       *)
RemoteEof  == mbuf = <<>> /\ \E own \in Owners : net[Source(own)] = <<>>
RemoteHup  == Gone(local) \/ target = "closed"
RemoteIdle == IF mbuf = <<>> THEN Owners = {} ELSE mown = 0 /\ Room("targetUp") = 0

RemoteDone ==
  /\ remote = "relay" /\ (RemoteEof \/ RemoteHup \/ RemoteIdle)
  /\ remote' = "fin" /\ mbuf' = <<>>
  /\ UNCHANGED <<ends, net, lvars, rvars, mown, status>>

(* close(sk_target), close_srvctcp, exit.                                  *)
RemoteExit ==
  /\ remote = "fin"
  /\ remote' = "exit" /\ sstatus' = "CLOSED"
  /\ target' = "closed"
  /\ UNCHANGED <<app, appSent, appGot, targetSent, targetGot, net, lvars, rvars, mbuf, mown,
                 csk, cstatus>>

(* A FIN arrives at the other side.                                        *)
FinArrives ==
  \/ /\ remote = "fin" /\ cstatus = "ACTIVE" /\ csk = "live"
     /\ cstatus' = "CLOSED"
     /\ UNCHANGED <<ends, net, lvars, rvars, mvars, csk, sstatus>>
  \/ /\ local = "fin" /\ sstatus = "ACTIVE"
     /\ sstatus' = "CLOSED"
     /\ UNCHANGED <<ends, net, lvars, rvars, mvars, csk, cstatus>>

(* server_worker gives its path up when nothing is acknowledged any more.  *)
ServerTimeout ==
  /\ remote = "send" /\ Gone(local) /\ sstatus = "ACTIVE"
  /\ sstatus' = "CLOSED"
  /\ UNCHANGED <<ends, net, lvars, rvars, mvars, csk, cstatus>>

Ends    == AppSend \/ AppRead \/ AppStop \/ TargetSend \/ TargetRead \/ TargetClose
Local   == \/ LocalRequest \/ LocalBind \/ LocalAnswer \/ LocalAlarm
           \/ LocalRead \/ LocalWrite \/ LocalDone \/ LocalJoin \/ LocalFree \/ LocalExit
Reader  == ReadCtcp \/ ReadNull \/ ReaderWrite \/ ReaderStop \/ ReaderSigpipe
Remote  == \/ RemoteConnect \/ RemoteRefuse \/ RemoteRead \/ RemoteForward \/ RemoteWrite \/ RemoteSend
           \/ RemoteDone \/ RemoteExit

Next == Ends \/ Local \/ Reader \/ Remote \/ Established \/ NotSyn \/ FinArrives \/ ServerTimeout

Spec == Init /\ [][Next]_vars

(* The children's threads run on, alarms and timeouts expire; a target     *)
(* reads what it is sent.  The application need not do anything, a SYN or  *)
(* a FIN need not arrive.                                                  *)
FairSpec ==
  /\ Spec
  /\ WF_vars(Local) /\ WF_vars(Reader) /\ WF_vars(Remote) /\ WF_vars(ServerTimeout)
  /\ WF_vars(TargetRead)
-----------------------------------------------------------------------------
UpBuf   == IF mown = 0 THEN mbuf ELSE <<>>
DownBuf == IF mown = 1 THEN mbuf ELSE <<>>

(* Upwards no byte is lost, repeated or overtaken in the two buffers and   *)
(* three connections, as long as both children relay.                      *)
UpAccounted ==
  local = "relay" /\ remote \in {"relay", "write", "send"} =>
    targetGot \o net["targetUp"] \o UpBuf \o net["midUp"] \o lbuf \o net["appUp"]
      = [i \in 1..appSent |-> i]

(* Whatever ends first, the application gets a prefix of what the target   *)
(* sent, and nothing of its own.                                           *)
DownInOrder == \A i \in DOMAIN appGot : appGot[i] = -i

(* While the reader and the remote child relay, nothing is lost downwards. *)
DownAccounted ==
  reader \in {"read", "write"} /\ remote \in {"relay", "write", "send"} =>
    appGot \o net["appDown"] \o rbuf \o net["ctcp"] \o DownBuf \o net["targetDown"]
      = [i \in 1..targetSent |-> -i]

(* The three together: no byte is lost, repeated, overtaken or sent back.  *)
BytesAccounted == UpAccounted /\ DownInOrder /\ DownAccounted

(* Once a connection is established and either end closes it, both         *)
(* children exit: neither a reader without data, nor a full CTCP window,   *)
(* nor a FIN that never arrives keeps one of them.                         *)
BothEnd ==
  (csk # "null" /\ (app = "closed" \/ target = "closed")) ~> (Gone(local) /\ Gone(remote))

(* A child of the remote proxy does not outlive the local one for good:    *)
(* the alarm is there to end negotiations that got nowhere.                *)
NoOrphan == Gone(local) /\ remote # "none" ~> Gone(remote)

(* The reader uses a CTCP socket that exists.                              *)
ReaderHasSocket == reader \in {"read", "write"} => csk = "live"
=============================================================================
