------------------------------- MODULE UpProxy -------------------------------
(***************************************************************************)
(* Connecting through an upstream proxy: proxy_connect() of up_proxy.c,    *)
(* which negotiates by one of three protocols, and the other side.  That   *)
(* is a child of proxy_remote, negotiate() of child_remote.c, or a proxy   *)
(* that is not part of this program.                                       *)
(*                                                                         *)
(* The two are joined by a TCP connection: a stream of bytes each way,     *)
(* which read() may return in pieces.  A host name is one byte long here,  *)
(* an HTTP version one byte.                                               *)
(***************************************************************************)
EXTENDS Integers, Sequences

CONSTANTS
  Types, Cmds,   \* proxy types and commands that are tried
  Creds,         \* the users with their passwords that are tried
  Peers,         \* "child" (of proxy_remote), "other"
  Pieces,        \* whether read() may return less than has been sent
  Unset          \* what poll() may be asked for if pfd.events was never set

(* What buf of PROXY_NEGBUFLEN bytes holds of credentials: two encodings   *)
(* in HcRequest, next to 89 bytes of text and a name of one byte twice.    *)
CredMax == 59

ASSUME UpProxyAssumption ==
  /\ Types \subseteq {"SOCKS5", "SOCKS4", "HTTPCONNECT", "HTTP"}
  /\ Cmds \subseteq {"CONNECT", "BIND", "UDP"} /\ Peers \subseteq {"child", "other"}
  /\ Creds \subseteq [user : Seq(1..127), pwd : Seq(1..127)] /\ Pieces \in BOOLEAN
  /\ \A c \in Creds : Len(c.user) + Len(c.pwd) <= CredMax
  /\ Unset # {} /\ Unset \subseteq {"in", "out", "none"}

VARIABLES
  pcon,      \* the t_proxy_connection and its proxy
  pc,        \* the client: "start", "poll", "step" (after poll), then "ok" or
             \* "null" (proxy_connect has returned), "crash", "killed"
  link,      \* the TCP connection: "none", "connecting", "up", "refused"
  up, down,  \* bytes under way to the server and to the client
  srv        \* the server, see UpInit

upvars == <<pcon, pc, link, up, down, srv>>

NoFlag    == "none"
CtcpPort  == <<49, 50, 51, 52, 53>>     \* sprintf("%d", ctcp_port)
Target    == 119                        \* the target's name
TargetPort == <<0, 80>>
HTTP11    == 256
HTTP10    == 257
Code(cmd) == CASE cmd = "CONNECT" -> 1 [] cmd = "BIND" -> 2 [] cmd = "UDP" -> 3

(* proxy_new: with PROXY_FL_AUTH both user and pwd are there.              *)
Proxies == [type : Types, peer : Peers, auth : BOOLEAN, cred : Creds]

(* srv.at: "none" (no connection yet), then of negotiate() "version",      *)
(* "methods", "request", "name", "port", "bind" (waits for the target to   *)
(* connect), "done" (granted), "gone"; "open" for another proxy.           *)
UpInit ==
  /\ \E p \in Proxies, cmd \in Cmds :
       /\ ~p.auth => p.cred = CHOOSE c \in Creds : TRUE
       /\ pcon = [proxy |-> p, cmd |-> cmd, status |-> "none", flags |-> NoFlag,
                  ctcp_port |-> <<>>, sock |-> "none"]
       /\ srv = [at |-> "none", n |-> 0, cmd |-> 0, name |-> <<>>,
                 granted |-> FALSE, cred |-> <<>>]
  /\ pc = "start" /\ link = "none" /\ up = <<>> /\ down = <<>>

ClientGone == pc \in {"null", "crash", "killed"}
SrvGone    == srv.at = "gone"
Unread(s, n) == SubSeq(s, n + 1, Len(s))
Least(a, b)  == IF a < b THEN a ELSE b
-----------------------------------------------------------------------------
(* proxy_connect_nb.                                                       *)
Supported(type, cmd) ==
  CASE cmd = "CONNECT" -> TRUE
    [] cmd = "BIND"    -> type \in {"SOCKS5", "SOCKS4"}
    [] cmd = "UDP"     -> type = "SOCKS5"

(* A parameter is bad, or memory, socket(), fcntl() or connect() fails.    *)
ConnectNbFails ==
  /\ pc = "start"
  /\ pc' = "null"
  /\ UNCHANGED <<pcon, link, up, down, srv>>

ConnectNb ==
  /\ pc = "start" /\ Supported(pcon.proxy.type, pcon.cmd)
  /\ pc' = "poll" /\ link' = "connecting"
  /\ pcon' = [pcon EXCEPT !.status = "CONNECTING", !.flags = "WAITWRITE", !.sock = "open"]
  /\ UNCHANGED <<up, down, srv>>

(* The other host accepts, and the daemon forks a child, or refuses.       *)
Connected ==
  /\ link = "connecting"
  /\ \/ link' = "refused" /\ UNCHANGED srv
     \/ /\ link' = "up"
        /\ srv' = [srv EXCEPT !.at = IF pcon.proxy.peer = "child" THEN "version" ELSE "open"]
  /\ UNCHANGED <<pcon, pc, up, down>>

(* poll() in proxy_poll_connect.  The flag is cleared before the call and  *)
(* is not set again when poll() times out; without it pfd.events holds     *)
(* whatever the stack does.                                                *)
Events == CASE pcon.flags = "WAITREAD"  -> {"in"}
            [] pcon.flags = "WAITWRITE" -> {"out"}
            [] OTHER                    -> Unset

Ready(ev) ==
  \/ link = "refused" \/ SrvGone
  \/ ev = "in" /\ down # <<>>
  \/ ev = "out" /\ link = "up"

Poll ==
  /\ pc = "poll"
  /\ pcon' = [pcon EXCEPT !.flags = NoFlag]
  /\ \E ev \in Events : pc' = IF Ready(ev) THEN "step" ELSE "poll"
  /\ UNCHANGED <<link, up, down, srv>>

(* A negative answer of proxy_poll_connect makes proxy_connect call        *)
(* proxy_end_connect.                                                      *)
Return(result) == pc' = result /\ UNCHANGED <<up, srv>>
Fail == /\ pcon' = [pcon EXCEPT !.status = "ERROR", !.sock = "closed"]
        /\ Return("null")

PollFails ==
  /\ pc = "poll" /\ Fail
  /\ UNCHANGED <<link, down>>

(* neg_timeo expires: SIGALRM ends the child that called proxy_connect.    *)
AlarmArmedInConnect == pcon.status = "CONNECTING"
AlarmArmed == TRUE

Alarm ==
  /\ pc \in {"poll", "step"} /\ AlarmArmed
  /\ pc' = "killed"
  /\ UNCHANGED <<pcon, link, up, down, srv>>
-----------------------------------------------------------------------------
(* The steps of proxy_poll_connect, by status.                             *)
At(status) == pc = "step" /\ pcon.status = status

Goto(status, flag) ==
  /\ pcon' = [pcon EXCEPT !.status = status, !.flags = flag]
  /\ pc' = "poll"

(* The status values are type * 100 and up; no case treats PROXY_HTTP's.   *)
FirstStatus == [SOCKS5 |-> "S5_SENDMET", SOCKS4 |-> "S4_SENDREQ",
                HTTPCONNECT |-> "HC_SENDREQ", HTTP |-> "400"]

PollConnecting ==
  /\ At("CONNECTING")
  /\ \/ link = "refused" /\ Fail
     \/ link = "up" /\ Goto(FirstStatus[pcon.proxy.type], NoFlag) /\ UNCHANGED <<up, srv>>
  /\ UNCHANGED <<link, down>>

(* write(): to a server that is gone it may seem to succeed, fail, or      *)
(* raise SIGPIPE.                                                          *)
Write(msg, status) ==
  /\ \/ /\ Goto(status, "WAITREAD")
        /\ up' = IF SrvGone THEN up ELSE up \o msg
        /\ UNCHANGED srv
     \/ SrvGone /\ Fail
     \/ SrvGone /\ Return("killed") /\ UNCHANGED pcon
  /\ UNCHANGED <<link, down>>

(* read() of at most k bytes, none at the end of the stream.  It blocks if *)
(* there is nothing to read.                                               *)
ReadAmounts(k) ==
  IF down = <<>> THEN (IF SrvGone THEN {0} ELSE {})
  ELSE LET most == Least(k, Len(down)) IN IF Pieces THEN 1..most ELSE {most}
Read(k, n) == n \in ReadAmounts(k) /\ down' = Unread(down, n) /\ UNCHANGED link
NEGBUFLEN == 256

(* SOCKS5.                                                                 *)
Methods == IF pcon.proxy.auth THEN <<5, 2, 0, 2>> ELSE <<5, 1, 0>>
SendMet == At("S5_SENDMET") /\ Write(Methods, "S5_WAITMET")

WaitMet ==
  /\ At("S5_WAITMET")
  /\ \E n \in 0..7 :
       /\ Read(7, n)
       /\ IF n < 7 \/ down[1] # 5 \/ down[2] \notin {0, 2} THEN Fail
          ELSE /\ pcon' = [pcon EXCEPT !.status = IF down[2] = 0 THEN "S5_SENDREQ" ELSE "S5_SENDAUTH",
                                       !.ctcp_port = SubSeq(down, 3, 7), !.flags = "WAITWRITE"]
               /\ pc' = "poll"
               /\ UNCHANGED <<up, srv>>

(* A server may choose a method that was not offered: there is no user.    *)
AuthMessage(cred) == <<1, Len(cred.user)>> \o cred.user \o <<Len(cred.pwd)>> \o cred.pwd
SendAuth ==
  /\ At("S5_SENDAUTH")
  /\ IF pcon.proxy.auth THEN Write(AuthMessage(pcon.proxy.cred), "S5_WAITAUTH")
     ELSE Return("crash") /\ UNCHANGED <<pcon, link, down>>

WaitAuth ==
  /\ At("S5_WAITAUTH")
  /\ \E n \in 0..2 :
       /\ Read(2, n)
       /\ IF n < 2 \/ down[2] # 0 THEN Fail
          ELSE Goto("S5_SENDREQ", "WAITWRITE") /\ UNCHANGED <<up, srv>>

Request == <<5, Code(pcon.cmd), 0, 3, 1, Target>> \o TargetPort
SendReq == At("S5_SENDREQ") /\ Write(Request, "S5_WAITREQ")

(* A bug Granted must notice: only the length of the reply is looked at.   *)
S5RefusedShort(n) == n < 2
S5Refused(n) == n < 2 \/ down[2] # 0

(* The address in the reply is used whether or not it has been read: from  *)
(* what is in the buffer instead it may take a length that is none.        *)
WaitReq ==
  /\ At("S5_WAITREQ")
  /\ \E n \in 0..NEGBUFLEN :
       /\ Read(NEGBUFLEN, n)
       /\ IF S5Refused(n) THEN Fail
          ELSE \/ /\ pcon.cmd # "BIND"
                  /\ pcon' = [pcon EXCEPT !.status = "CONNECTED"] /\ Return("ok")
               \/ /\ pcon.cmd = "BIND"
                  /\ Goto("S5_WAITREQ2", "WAITREAD") /\ UNCHANGED <<up, srv>>
               \/ n < 5 /\ Return("crash") /\ UNCHANGED pcon

WaitReq2 ==
  /\ At("S5_WAITREQ2")
  /\ \E n \in 0..NEGBUFLEN :
       /\ Read(NEGBUFLEN, n)
       /\ IF S5Refused(n) THEN Fail
          ELSE pcon' = [pcon EXCEPT !.status = "CONNECTED"] /\ Return("ok")

(* SOCKS4: the name is resolved here.  The user id is sent without the     *)
(* zero byte that ends it.                                                 *)
S4Request == <<4, Code(pcon.cmd)>> \o TargetPort \o <<10, 0, 0, 1, 48>>
S4SendReq ==
  /\ At("S4_SENDREQ")
  /\ \/ Fail /\ UNCHANGED <<link, down>>
     \/ Write(S4Request, "S4_WAITREQ")

S4Refused(n) == n < 2 \/ down[2] # 90

S4WaitReq ==
  /\ At("S4_WAITREQ")
  /\ \E n \in 0..NEGBUFLEN :
       /\ Read(NEGBUFLEN, n)
       /\ IF S4Refused(n) THEN Fail
          ELSE IF pcon.cmd = "CONNECT"
            THEN pcon' = [pcon EXCEPT !.status = "CONNECTED"] /\ Return("ok")
            ELSE Goto("S4_WAITREQ2", "WAITREAD") /\ UNCHANGED <<up, srv>>

(* The second reply does not make the status CONNECTED.                    *)
S4WaitReq2 ==
  /\ At("S4_WAITREQ2")
  /\ \E n \in 0..NEGBUFLEN :
       /\ Read(NEGBUFLEN, n)
       /\ IF S4Refused(n) THEN Fail ELSE Return("ok") /\ UNCHANGED pcon
-----------------------------------------------------------------------------
(* HTTP CONNECT.  proxy_encode_base64: three bytes, zeros after the last,  *)
(* make four numbers below 64; "=", here 64, replaces the last one or two  *)
(* if one or two zeros were added.                                         *)
Groups(src)  == (Len(src) + 2) \div 3
Byte(src, i) == IF i <= Len(src) THEN src[i] ELSE 0

Sextet(src, k) ==
  LET g == 3 * ((k - 1) \div 4)
      a == Byte(src, g + 1)
      b == Byte(src, g + 2)
      c == Byte(src, g + 3) IN
  CASE k % 4 = 1 -> a \div 4
    [] k % 4 = 2 -> (a % 4) * 16 + b \div 16
    [] k % 4 = 3 -> (b % 16) * 4 + c \div 64
    [] k % 4 = 0 -> c % 64

(* A bug CredentialsRead must notice: i > src_len + 1 for i >= src_len + 1.*)
PaddedLate(src, k) ==
  LET i == 3 * Groups(src)
      j == 4 * Groups(src) IN
  (k = j /\ i > Len(src) + 1) \/ (k = j - 1 /\ i > Len(src) + 2)

Padded(src, k) ==
  LET i == 3 * Groups(src)
      j == 4 * Groups(src) IN
  (k = j /\ i >= Len(src) + 1) \/ (k = j - 1 /\ i >= Len(src) + 2)

proxy_encode_base64(src) ==
  [k \in 1..4 * Groups(src) |-> IF Padded(src, k) THEN 64 ELSE Sextet(src, k)]

UserPwd(cred) == cred.user \o <<58>> \o cred.pwd
HcRequest ==
  <<67, Target>>
    \o (IF pcon.proxy.auth THEN proxy_encode_base64(UserPwd(pcon.proxy.cred)) ELSE <<>>)
    \o <<10>>
HcSendReq == At("HC_SENDREQ") /\ Write(HcRequest, "HC_WAITREQ")

(* adam / 100 after sscanf(buf, "HTTP/1.1 %d", &adam) on n bytes: without  *)
(* a number after that version adam is never set.                          *)
StatusClass(n) ==
  IF n < 2 \/ down[1] # HTTP11 THEN {0, 2, 4}
  ELSE IF n < 4 THEN {0} ELSE {down[2]}

HcWaitReq ==
  /\ At("HC_WAITREQ")
  /\ \E n \in 0..NEGBUFLEN :
       /\ Read(NEGBUFLEN, n)
       /\ \/ n = 0 /\ Fail
          \/ /\ n > 0
             /\ \E class \in StatusClass(n) :
                  IF class # 2 THEN Fail
                  ELSE pcon' = [pcon EXCEPT !.status = "CONNECTED"] /\ Return("ok")

(* default: the status is none of the above.                               *)
PollDefault ==
  /\ At("400")
  /\ pcon' = [pcon EXCEPT !.sock = "closed"] /\ Return("null")
  /\ UNCHANGED <<link, down>>

Client == \/ ConnectNb \/ ConnectNbFails \/ Poll \/ PollFails \/ PollConnecting
          \/ SendMet \/ WaitMet \/ SendAuth \/ WaitAuth \/ SendReq \/ WaitReq \/ WaitReq2
          \/ S4SendReq \/ S4WaitReq \/ S4WaitReq2 \/ HcSendReq \/ HcWaitReq \/ PollDefault
-----------------------------------------------------------------------------
(* negotiate() of child_remote.c.  readnb() returns when all k bytes are   *)
(* there, or fails; an error makes handle_con write four bytes and exit.   *)
Reply(code) == <<5, code, 0, 1>>
FullReply   == Reply(0) \o <<10, 0, 0, 1>> \o TargetPort
Say(msg)    == down' = IF ClientGone THEN down ELSE down \o msg
Refuse(code) == srv' = [srv EXCEPT !.at = "gone"] /\ Say(Reply(code))

Reading == [version |-> 2, methods |-> srv.n, request |-> 4, name |-> srv.n, port |-> 2]

Readnb(at) ==
  /\ srv.at = at /\ Len(up) >= Reading[at]
  /\ up' = Unread(up, Reading[at])
  /\ UNCHANGED <<pcon, pc, link>>

ReadnbFails ==
  /\ srv.at \in DOMAIN Reading /\ ClientGone /\ Len(up) < Reading[srv.at]
  /\ Refuse(1)
  /\ UNCHANGED <<pcon, pc, link, up>>

SrvVersion ==
  /\ Readnb("version")
  /\ IF up[1] # 5 THEN Refuse(1)
     ELSE srv' = [srv EXCEPT !.at = "methods", !.n = up[2]] /\ UNCHANGED down

SrvMethods ==
  /\ Readnb("methods")
  /\ IF \A i \in 1..srv.n : up[i] # 0 THEN Refuse(1)
     ELSE srv' = [srv EXCEPT !.at = "request"] /\ Say(<<5, 0>> \o CtcpPort)

SrvRequest ==
  /\ Readnb("request")
  /\ IF up[2] \notin {1, 2} THEN Refuse(7)
     ELSE srv' = [srv EXCEPT !.at = "name", !.n = 1, !.cmd = up[2]] /\ UNCHANGED down

(* A bug AskedFor must notice: the length byte counted as part of the name.*)
NameLessOne == SubSeq(up, 2, up[1])
NameRead == SubSeq(up, 2, up[1] + 1)

(* The length and then as many bytes; the name may not resolve.            *)
SrvName ==
  /\ srv.at = "name" /\ Len(up) >= 1 /\ Len(up) >= 1 + Len(NameRead)
  /\ up' = Unread(up, 1 + Len(NameRead))
  /\ \/ srv' = [srv EXCEPT !.at = "port", !.name = NameRead] /\ UNCHANGED down
     \/ Refuse(1)
  /\ UNCHANGED <<pcon, pc, link>>

(* The port; then connect_client, or bind_client, which forgets the        *)
(* address, with its first reply.                                          *)
SrvConnect ==
  /\ Readnb("port")
  /\ \/ \E code \in {1, 3, 5} : Refuse(code)
     \/ /\ srv.cmd = 1
        /\ srv' = [srv EXCEPT !.at = "done", !.granted = TRUE, !.name = @ \o SubSeq(up, 1, 2)]
        /\ Say(FullReply)
     \/ /\ srv.cmd = 2
        /\ srv' = [srv EXCEPT !.at = "bind", !.name = <<0>> \o SubSeq(up, 1, 2)]
        /\ Say(FullReply)

SrvBound ==
  /\ srv.at = "bind"
  /\ \/ srv' = [srv EXCEPT !.at = "done", !.granted = TRUE] /\ Say(FullReply)
     \/ Refuse(1)
  /\ UNCHANGED <<pcon, pc, link, up>>

(* neg_timeo or bind_timeo expires.                                        *)
SrvAlarm ==
  /\ srv.at \in DOMAIN Reading \cup {"bind"}
  /\ srv' = [srv EXCEPT !.at = "gone"]
  /\ UNCHANGED <<pcon, pc, link, up, down>>

Child == \/ SrvVersion \/ SrvMethods \/ SrvRequest \/ SrvName \/ SrvConnect \/ ReadnbFails
-----------------------------------------------------------------------------
(* Another proxy, which is not part of this program: it reads a message    *)
(* and answers, grants or refuses, or closes the connection.               *)
decode_base64(s) ==
  LET value(k) == IF k > Len(s) \/ s[k] = 64 THEN 0 ELSE s[k]
      size == 3 * (Len(s) \div 4) - (IF s = <<>> THEN 0 ELSE
                IF s[Len(s) - 1] = 64 THEN 2 ELSE IF s[Len(s)] = 64 THEN 1 ELSE 0) IN
  [i \in 1..size |->
     LET k == 4 * ((i - 1) \div 3) IN
     CASE i % 3 = 1 -> value(k + 1) * 4 + value(k + 2) \div 16
       [] i % 3 = 2 -> (value(k + 2) % 16) * 16 + value(k + 3) \div 4
       [] i % 3 = 0 -> (value(k + 3) % 4) * 64 + value(k + 4)]

Grants == {FullReply, <<0, 90, 0, 80, 10, 0, 0, 1>>, <<HTTP11, 2, 0, 0>>, <<HTTP10, 2, 0, 0>>}

Answers(msg) ==
  CASE msg[1] = 5 /\ Len(msg) < 5 -> {<<5, m>> \o CtcpPort : m \in {0, 2, 255}} \cup {<<5, 0>>}
    [] msg[1] = 1  -> {<<1, 0>>, <<1, 1>>}
    [] msg[1] = 5 /\ Len(msg) >= 5 -> {FullReply, Reply(2)}
    [] msg[1] = 4  -> {<<0, 90, 0, 80, 10, 0, 0, 1>>, <<0, 91, 0, 0, 0, 0, 0, 0>>}
    [] OTHER       -> {<<v, c, 0, 0>> : v \in {HTTP11, HTTP10}, c \in {2, 4}}

UserGiven(msg) == SubSeq(msg, 3, 2 + msg[2])
PwdGiven(msg)  == SubSeq(msg, 4 + msg[2], 3 + msg[2] + msg[3 + msg[2]])

Given(msg) == CASE msg[1] = 1  -> UserPwd([user |-> UserGiven(msg), pwd |-> PwdGiven(msg)])
                [] msg[1] = 67 -> decode_base64(SubSeq(msg, 3, Len(msg) - 1))
                [] OTHER       -> srv.cred

OtherAnswers ==
  /\ srv.at = "open" /\ up # <<>>
  /\ \E a \in Answers(up) :
       /\ Say(a)
       /\ srv' = [srv EXCEPT !.granted = a \in Grants, !.cred = Given(up)]
  /\ up' = <<>>
  /\ UNCHANGED <<pcon, pc, link>>

(* The second reply to BIND, or the first bytes of the target.             *)
OtherGoesOn ==
  /\ srv.at = "open" /\ srv.granted
  /\ srv' = [srv EXCEPT !.at = "done"]
  /\ Say(IF pcon.proxy.type = "SOCKS4" THEN <<0, 90>> ELSE FullReply)
  /\ UNCHANGED <<pcon, pc, link, up>>

OtherCloses ==
  /\ srv.at \in {"open", "done"} /\ pcon.proxy.peer = "other"
  /\ srv' = [srv EXCEPT !.at = "gone"]
  /\ UNCHANGED <<pcon, pc, link, up, down>>

UpNext == \/ Client \/ Alarm \/ Connected
        \/ Child \/ SrvBound \/ SrvAlarm
        \/ OtherAnswers \/ OtherGoesOn \/ OtherCloses

UpSpec == UpInit /\ [][UpNext]_upvars

(* The two processes run on and their alarms expire in the end.  Another   *)
(* proxy need not answer, nor the target of a BIND connect.                *)
UpFairSpec == UpSpec /\ WF_upvars(Client) /\ WF_upvars(Alarm) /\ WF_upvars(Child) /\ WF_upvars(SrvAlarm)
-----------------------------------------------------------------------------
Socks == pcon.proxy.type \in {"SOCKS5", "SOCKS4"}
Own   == pcon.proxy.type = "SOCKS5" /\ pcon.proxy.peer = "child"

(* However the answers are cut up and whatever poll() is asked for,        *)
(* proxy_connect returns a SOCKS connection for CONNECT only if the server *)
(* has granted it; from this program's own proxy it comes with the port on *)
(* which that child waits for CTCP.                                        *)
Granted ==
  pc = "ok" /\ Socks /\ pcon.cmd = "CONNECT" =>
    srv.granted /\ (Own => pcon.ctcp_port = CtcpPort)

(* The remote child connects only to the target the client named, or       *)
(* listens on its port: the two agree on where each part of the messages   *)
(* begins, credentials offered or not.                                     *)
AskedFor ==
  pcon.proxy.peer = "child" /\ srv.granted =>
    /\ srv.cmd = Code(pcon.cmd)
    /\ srv.name = (IF pcon.cmd = "BIND" THEN <<0>> ELSE <<Target>>) \o TargetPort

(* A proxy that is sent credentials reads the ones that were configured.   *)
CredentialsRead == srv.cred # <<>> => srv.cred = UserPwd(pcon.proxy.cred)

(* A negotiation ends on both sides, though a lost flag may have poll()    *)
(* wait for nothing or let read() block, and the server be silent.         *)
Settled ==
  /\ pc = "poll" ~> pc \in {"ok", "null", "crash", "killed"}
  /\ srv.at = "version" ~> srv.at \in {"done", "gone"}

(* What the comment in proxy_poll_connect means by the flag: a step that   *)
(* reads is taken when there is something to read.                         *)
ReadsWhenReadable ==
  pc = "step" /\ pcon.status \in {"S5_WAITMET", "S5_WAITREQ", "S4_WAITREQ", "HC_WAITREQ"} =>
    down # <<>> \/ SrvGone

(* proxy_connect leaves nothing of the answer for handle_traffic to relay  *)
(* to the application.                                                     *)
AnswerTaken == pc = "ok" /\ Own => down = <<>>

(* An HTTP proxy's refusal is seen.                                        *)
HttpGranted == pc = "ok" /\ pcon.proxy.type = "HTTPCONNECT" => srv.granted
=============================================================================
