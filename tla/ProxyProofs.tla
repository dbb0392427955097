----------------------------- MODULE ProxyProofs -----------------------------
(***************************************************************************)
(* Proofs about the proxies: one proxied connection (Relay), for buffers   *)
(* and connections of any size and any number of bytes; the daemon that    *)
(* forks a child for each (Daemon), for every maximum and every number of  *)
(* children forked, wherever the SIGCHLD handler interrupts the accept     *)
(* loop; and the negotiation with an upstream proxy (UpProxy), for any     *)
(* user and password that fit its buffer and however answers are cut up.   *)
(***************************************************************************)
EXTENDS Relay, Daemon, UpProxy, SequenceTheorems, FiniteSetTheorems, TLAPS


Bytes == Seq(Int)

(* A buffer splits into what a short write took and the rest.              *)
LEMMA Split ==
  ASSUME NEW s \in Bytes, NEW n \in 0..Len(s)
  PROVE  /\ First(s, n) \in Bytes /\ After(s, n) \in Bytes
         /\ First(s, n) \o After(s, n) = s
<1>1. First(s, n) \in Bytes /\ After(s, n) \in Bytes
  BY SubSeqProperties DEF First, After, Bytes
<1>2. First(s, n) \o After(s, n) = SubSeq(s, 1, Len(s))
  <2>1. s \in Seq(Int) /\ Len(s) \in Nat
    BY DEF Bytes
  <2>2. 1 \in 1..Len(s) + 1 /\ n \in (1 - 1)..Len(s) /\ Len(s) \in n..Len(s)
    BY <2>1
  <2> QED
    BY <2>1, <2>2, ConcatAdjacentSubSeq DEF First, After
<1>3. SubSeq(s, 1, Len(s)) = s
  BY SubSeqFull DEF Bytes
<1> QED
  BY <1>1, <1>2, <1>3

LEMMA Joined ==
  ASSUME NEW s \in Bytes, NEW t \in Bytes
  PROVE  s \o t \in Bytes
  BY ConcatProperties DEF Bytes

LEMMA EmptyBytes ==
  ASSUME NEW s \in Bytes
  PROVE  <<>> \in Bytes /\ s \o <<>> = s /\ <<>> \o s = s
  BY ConcatEmptySeq DEF Bytes

(* Equality by another name, under which the provers match a whole         *)
(* equation instead of rewriting with it.                                  *)
Same(s, t) == s = t

LEMMA Grouped ==
  ASSUME NEW s \in Bytes, NEW t \in Bytes, NEW u \in Bytes
  PROVE  Same(s \o (t \o u), s \o t \o u)
<1>1. PICK S : Bytes = Seq(S)
  BY DEF Bytes
<1>2. s \in Seq(S) /\ t \in Seq(S) /\ u \in Seq(S)
  BY <1>1
<1>3. (s \o t) \o u = s \o (t \o u)
  BY ONLY <1>2, ConcatAssociative, SMTT(30)
<1> QED
  BY <1>3 DEF Same

(* Bytes that move on from y to x, behind p.                               *)
LEMMA MoveOn ==
  ASSUME NEW p \in Bytes, NEW x \in Bytes, NEW y \in Bytes, NEW n \in 0..Len(y)
  PROVE  Same(p \o (x \o First(y, n)) \o After(y, n), p \o x \o y)
<1> DEFINE f == First(y, n)
           a == After(y, n)
<1>1. f \in Bytes /\ a \in Bytes /\ f \o a = y
  BY Split
<1> HIDE DEF f, a
<1>2. Same(p \o (x \o f), p \o x \o f)
  BY <1>1, Grouped, Zenon
<1>3. p \o x \in Bytes
  BY Joined
<1>4. Same((p \o x) \o (f \o a), (p \o x) \o f \o a)
  BY <1>1, <1>3, Grouped, Zenon
<1> QED
  BY <1>1, <1>2, <1>4 DEF f, a, Same

(* Bytes that are read into an empty buffer.                               *)
LEMMA MoveIn ==
  ASSUME NEW p \in Bytes, NEW y \in Bytes, NEW n \in 0..Len(y)
  PROVE  p \o First(y, n) \o After(y, n) = p \o <<>> \o y
<1>1. <<>> \in Bytes /\ <<>> \o First(y, n) = First(y, n)
  BY Split, EmptyBytes
<1>2. Same(p \o (<<>> \o First(y, n)) \o After(y, n), p \o <<>> \o y)
  BY <1>1, MoveOn, Zenon
<1> QED
  BY <1>1, <1>2 DEF Same

(* A byte that is read at an end.                                          *)
LEMMA MoveOut ==
  ASSUME NEW x \in Bytes, NEW y \in Bytes, y # <<>>
  PROVE  /\ Append(x, Head(y)) \in Bytes /\ After(y, 1) \in Bytes
         /\ Append(x, Head(y)) \o After(y, 1) = x \o y
<1>1. Head(y) \in Int /\ Len(y) \in Nat /\ Len(y) # 0
  BY DEF Bytes
<1>2. Append(x, Head(y)) = x \o <<Head(y)>> /\ Append(x, Head(y)) \in Bytes
  BY <1>1 DEF Bytes
<1>3. First(y, 1) = <<Head(y)>>
  <2>1. y \in Seq(Int) /\ 1 \in 1..Len(y) /\ y[1] = Head(y)
    BY <1>1 DEF Bytes
  <2>2. SubSeq(y, 1, 1) = <<y[1]>> \o SubSeq(y, 2, 1)
    BY <2>1, SubSeqRecursiveFirst
  <2>3. SubSeq(y, 2, 1) = <<>>
    BY SubSeqEmpty
  <2>4. <<y[1]>> \in Bytes
    BY <2>1 DEF Bytes
  <2> QED
    BY <2>1, <2>2, <2>3, <2>4, EmptyBytes DEF First
<1>4. 1 \in 0..Len(y)
  BY <1>1
<1>5. First(y, 1) \in Bytes /\ After(y, 1) \in Bytes /\ First(y, 1) \o After(y, 1) = y
  BY <1>4, Split
<1>6. Same(x \o (First(y, 1) \o After(y, 1)), x \o First(y, 1) \o After(y, 1))
  BY <1>5, Grouped, Zenon
<1> QED
  BY <1>2, <1>3, <1>5, <1>6 DEF Same

(* A byte that is sent by an end extends the count of those it sent.       *)
UpTo(n)   == [i \in 1..n |-> i]
DownTo(n) == [i \in 1..n |-> -i]

LEMMA SentUp ==
  ASSUME NEW n \in Nat
  PROVE  UpTo(n) \in Bytes /\ UpTo(n) \o <<n + 1>> = UpTo(n + 1)
  BY DEF UpTo, Bytes

LEMMA SentDown ==
  ASSUME NEW n \in Nat
  PROVE  DownTo(n) \in Bytes /\ DownTo(n) \o <<-(n + 1)>> = DownTo(n + 1)
  BY DEF DownTo, Bytes
-----------------------------------------------------------------------------
(* The inductive invariant.  Ended says which children no longer carry     *)
(* everything they were given.                                             *)
LocalEnded  == local \in {"join", "fin", "freed", "exit"}
RemoteEnded == remote \in {"fin", "exit"}
Relaying    == remote \in {"relay", "write", "send"}

TypeInv ==
  /\ appSent \in Nat /\ targetSent \in Nat
  /\ appGot \in Bytes /\ targetGot \in Bytes
  /\ net \in [Conns -> Bytes]
  /\ lbuf \in Bytes /\ rbuf \in Bytes /\ mbuf \in Bytes
  /\ mown \in {0, 1}

(* A child is forked once, and the shared buffer has the owner whose call  *)
(* is under way.                                                           *)
PhaseInv ==
  /\ local = "socks" => remote = "none"
  /\ local \in {"socks", "proxy", "syn"} => reader = "none"
  /\ rbuf # <<>> => reader \in {"write", "exit"}
  /\ mbuf # <<>> => Relaying
  /\ remote = "write" => mown = 0
  /\ remote = "send" => mown = 1

(* The bytes on their way up, and down, the oldest first; what is in the   *)
(* first four places downwards stays in order even after the children have *)
(* stopped relaying, while later bytes get lost.                           *)
UpFlow   == targetGot \o net["targetUp"] \o UpBuf \o net["midUp"] \o lbuf \o net["appUp"]
DownHead == appGot \o net["appDown"] \o rbuf \o net["ctcp"]
DownFlow == DownHead \o DownBuf \o net["targetDown"]

UpInv   == ~LocalEnded /\ ~RemoteEnded => UpFlow = UpTo(appSent)
DownInv == ~RemoteEnded => DownFlow = DownTo(targetSent)
HeadInv == \A i \in 1..Len(DownHead) : DownHead[i] = -i

Inv == TypeInv /\ PhaseInv /\ UpInv /\ DownInv /\ HeadInv

(* A write and a read change one connection.                               *)
LEMMA PutNet ==
  ASSUME TypeInv, NEW c \in Conns, NEW s \in Bytes, Put(c, s)
  PROVE  /\ net' \in [Conns -> Bytes] /\ net'[c] = net[c] \o s
         /\ \A d \in Conns \ {c} : net'[d] = net[d]
<1>1. net[c] \o s \in Bytes
  BY Joined DEF TypeInv
<1> QED
  BY <1>1 DEF TypeInv, Put

LEMMA TakeNet ==
  ASSUME TypeInv, NEW c \in Conns, NEW n \in 0..Len(net[c]), Take(c, n)
  PROVE  /\ net' \in [Conns -> Bytes] /\ net'[c] = After(net[c], n)
         /\ \A d \in Conns \ {c} : net'[d] = net[d]
<1>1. After(net[c], n) \in Bytes
  BY Split DEF TypeInv
<1> QED
  BY <1>1 DEF TypeInv, Take

(* The steps that move no bytes, and the ones that end a child's relaying. *)
NoBytes == UNCHANGED <<appSent, targetSent, appGot, targetGot, net, rbuf, mown>>
Control ==
  /\ NoBytes
  /\ lbuf' = lbuf \/ (LocalEnded' /\ lbuf' = <<>>)
  /\ mbuf' = mbuf \/ (RemoteEnded' /\ mbuf' = <<>>)
  /\ LocalEnded => LocalEnded'
  /\ RemoteEnded => RemoteEnded'

Moves ==
  \/ AppSend \/ AppRead \/ TargetSend \/ TargetRead
  \/ LocalRead \/ LocalWrite \/ ReadCtcp \/ ReaderWrite
  \/ RemoteRead \/ RemoteWrite \/ RemoteSend

LEMMA StepShape ==
  ASSUME Inv, [Next]_vars
  PROVE  Moves \/ (Control /\ PhaseInv')
<1> USE DEF ends, lvars, rvars, mvars, status, Control, NoBytes, LocalEnded, RemoteEnded,
            Inv, PhaseInv, Relaying
<1>1. CASE AppStop \/ TargetClose
  BY <1>1 DEF AppStop, TargetClose
<1>2. CASE LocalRequest \/ LocalBind \/ LocalAnswer \/ LocalAlarm
  BY <1>2 DEF LocalRequest, LocalBind, LocalAnswer, LocalAlarm
<1>3. CASE LocalDone \/ LocalJoin \/ LocalFree \/ LocalExit
  BY <1>3 DEF LocalDone, LocalJoin, LocalFree, LocalExit
<1>4. CASE ReadNull \/ ReaderStop \/ ReaderSigpipe
  BY <1>4 DEF ReadNull, ReaderStop, ReaderSigpipe
<1>5. CASE RemoteConnect \/ RemoteRefuse \/ RemoteForward \/ RemoteDone \/ RemoteExit
  BY <1>5 DEF RemoteConnect, RemoteRefuse, RemoteForward, Forward, RemoteDone, RemoteExit, TypeInv
<1>6. CASE Established \/ NotSyn
  BY <1>6 DEF Established, NotSyn
<1>7. CASE FinArrives \/ ServerTimeout
  BY <1>7 DEF FinArrives, ServerTimeout
<1>8. CASE UNCHANGED vars
  BY <1>8 DEF vars
<1> QED
  BY <1>1, <1>2, <1>3, <1>4, <1>5, <1>6, <1>7, <1>8 DEF Next, Ends, Local, Reader, Remote, Moves

(* The flows are sequences of bytes, and in order if all of them are.      *)
LEMMA FlowTypes ==
  ASSUME TypeInv
  PROVE  /\ UpBuf \in Bytes /\ DownBuf \in Bytes
         /\ \A c \in Conns : net[c] \in Bytes
         /\ DownHead \in Bytes /\ DownHead \o DownBuf \in Bytes /\ DownFlow \in Bytes
<1>1. UpBuf \in Bytes /\ DownBuf \in Bytes /\ \A c \in Conns : net[c] \in Bytes
  BY EmptyBytes DEF TypeInv, UpBuf, DownBuf
<1>2. appGot \o net["appDown"] \in Bytes
  BY <1>1, Joined DEF TypeInv, Conns
<1>3. appGot \o net["appDown"] \o rbuf \in Bytes
  BY <1>2, Joined DEF TypeInv
<1>4. DownHead \in Bytes
  BY <1>1, <1>3, Joined DEF DownHead, Conns
<1>5. DownHead \o DownBuf \in Bytes
  BY <1>1, <1>4, Joined
<1>6. DownFlow \in Bytes
  BY <1>1, <1>5, Joined DEF DownFlow, Conns
<1> QED
  BY <1>1, <1>4, <1>5, <1>6

LEMMA HeadOfFlow ==
  ASSUME NEW h \in Bytes, NEW b \in Bytes, NEW t \in Bytes, NEW n \in Nat, h \o b \o t = DownTo(n)
  PROVE  \A i \in 1..Len(h) : h[i] = -i
<1> DEFINE rest == b \o t
<1>0. rest \in Bytes
  BY Joined
<1>a. Same(h \o (b \o t), h \o b \o t)
  BY Grouped, Zenon
<1>1. h \o rest = DownTo(n)
  BY <1>a, Zenon DEF Same
<1> HIDE DEF rest
<1>2. SUFFICES ASSUME NEW i \in 1..Len(h) PROVE h[i] = -i
  OBVIOUS
<1>3. Len(h) \in Nat /\ Len(rest) \in Nat /\ Len(h \o rest) = Len(h) + Len(rest)
  BY <1>0, ConcatProperties DEF Bytes
<1>4. (h \o rest)[i] = h[i]
  BY <1>0, <1>3, ConcatProperties DEF Bytes
<1>5. Len(DownTo(n)) = n /\ \A j \in 1..n : DownTo(n)[j] = -j
  BY DEF DownTo
<1> QED
  BY <1>1, <1>3, <1>4, <1>5

(* A move within the flows keeps the invariant.                            *)
LEMMA FlowsKept ==
  ASSUME Inv, TypeInv', PhaseInv', UpFlow' = UpFlow, DownFlow' = DownFlow, HeadInv',
         UNCHANGED <<appSent, targetSent, local>>, RemoteEnded => RemoteEnded'
  PROVE  Inv'
  BY DEF Inv, UpInv, DownInv, LocalEnded
-----------------------------------------------------------------------------
(* One lemma for each step that moves bytes.                               *)
LEMMA AppSends == ASSUME Inv, AppSend PROVE Inv'
<1> USE DEF Inv
<1>1. appSent' = appSent + 1 /\ <<appSent'>> \in Bytes /\ Put("appUp", <<appSent'>>)
  BY DEF AppSend, TypeInv, Bytes
<1>2. UNCHANGED <<targetSent, appGot, targetGot, lvars, rvars, mvars>>
  BY DEF AppSend
<1>3. /\ net' \in [Conns -> Bytes] /\ net'["appUp"] = net["appUp"] \o <<appSent'>>
      /\ \A d \in Conns \ {"appUp"} : net'[d] = net[d]
  BY <1>1, PutNet DEF Conns
<1>4. TypeInv' /\ PhaseInv'
  BY <1>1, <1>2, <1>3 DEF TypeInv, PhaseInv, Relaying, lvars, rvars, mvars
<1>5. DownFlow' = DownFlow /\ DownHead' = DownHead
  BY <1>2, <1>3 DEF DownFlow, DownHead, DownBuf, Conns, rvars, mvars
<1>6. DownInv' /\ HeadInv'
  BY <1>2, <1>5 DEF DownInv, HeadInv, RemoteEnded, mvars
<1>7. UpInv'
  <2> DEFINE p == targetGot \o net["targetUp"] \o UpBuf \o net["midUp"] \o lbuf
  <2>1. p \in Bytes /\ net["appUp"] \in Bytes
    BY FlowTypes, Joined DEF TypeInv, Conns
  <2>2. UpFlow' = p \o (net["appUp"] \o <<appSent'>>)
    BY <1>2, <1>3 DEF UpFlow, UpBuf, Conns, lvars, mvars
  <2> HIDE DEF p
  <2>3. Same(p \o (net["appUp"] \o <<appSent'>>), p \o net["appUp"] \o <<appSent'>>)
    BY <1>1, <2>1, Grouped, Zenon
  <2>4. UpFlow' = UpFlow \o <<appSent + 1>>
    BY <1>1, <2>2, <2>3 DEF p, UpFlow, Same
  <2> QED
    BY <1>1, <1>2, <2>4, SentUp DEF UpInv, TypeInv, LocalEnded, RemoteEnded, lvars, mvars
<1> QED
  BY <1>4, <1>6, <1>7

LEMMA TargetSends == ASSUME Inv, TargetSend PROVE Inv'
<1> USE DEF Inv
<1>1. /\ targetSent' = targetSent + 1 /\ <<-targetSent'>> \in Bytes
      /\ Put("targetDown", <<-targetSent'>>)
  BY DEF TargetSend, TypeInv, Bytes
<1>2. UNCHANGED <<appSent, appGot, targetGot, lvars, rvars, mvars>>
  BY DEF TargetSend
<1>3. /\ net' \in [Conns -> Bytes] /\ net'["targetDown"] = net["targetDown"] \o <<-targetSent'>>
      /\ \A d \in Conns \ {"targetDown"} : net'[d] = net[d]
  BY <1>1, PutNet DEF Conns
<1>4. TypeInv' /\ PhaseInv'
  BY <1>1, <1>2, <1>3 DEF TypeInv, PhaseInv, Relaying, lvars, rvars, mvars
<1>5. UpFlow' = UpFlow /\ DownHead' = DownHead /\ DownBuf' = DownBuf
  BY <1>2, <1>3 DEF UpFlow, UpBuf, DownHead, DownBuf, Conns, lvars, rvars, mvars
<1>6. UpInv' /\ HeadInv'
  BY <1>2, <1>5 DEF UpInv, HeadInv, LocalEnded, RemoteEnded, lvars, mvars
<1>7. DownInv'
  <2> DEFINE p == DownHead \o DownBuf
  <2>1. p \in Bytes /\ net["targetDown"] \in Bytes
    BY FlowTypes DEF Conns
  <2>2. DownFlow' = p \o (net["targetDown"] \o <<-targetSent'>>)
    BY <1>3, <1>5 DEF DownFlow
  <2> HIDE DEF p
  <2>3. Same(p \o (net["targetDown"] \o <<-targetSent'>>), p \o net["targetDown"] \o <<-targetSent'>>)
    BY <1>1, <2>1, Grouped, Zenon
  <2>4. DownFlow' = DownFlow \o <<-(targetSent + 1)>>
    BY <1>1, <2>2, <2>3 DEF p, DownFlow, Same
  <2> QED
    BY <1>1, <1>2, <2>4, SentDown DEF DownInv, TypeInv, RemoteEnded, mvars
<1> QED
  BY <1>4, <1>6, <1>7

LEMMA AppReads == ASSUME Inv, AppRead PROVE Inv'
<1> USE DEF Inv
<1> DEFINE y == net["appDown"]
<1>1. y \in Bytes /\ y # <<>> /\ appGot \in Bytes /\ 1 \in 0..Len(y)
  BY DEF AppRead, TypeInv, Conns, Bytes
<1>2. UNCHANGED <<appSent, targetSent, targetGot, lvars, rvars, mvars>> /\ appGot' = Append(appGot, Head(y))
  BY DEF AppRead
<1>3. /\ net' \in [Conns -> Bytes] /\ net'["appDown"] = After(y, 1)
      /\ \A d \in Conns \ {"appDown"} : net'[d] = net[d]
  BY <1>1, TakeNet DEF AppRead, Conns
<1>4. appGot' \in Bytes /\ appGot' \o net'["appDown"] = appGot \o net["appDown"]
  BY <1>1, <1>2, <1>3, MoveOut
<1> HIDE DEF y
<1>5. TypeInv' /\ PhaseInv'
  BY <1>2, <1>3, <1>4 DEF TypeInv, PhaseInv, Relaying, lvars, rvars, mvars
<1>6. DownHead' = DownHead
  BY <1>2, <1>3, <1>4 DEF DownHead, Conns, rvars
<1>7. UpFlow' = UpFlow /\ DownFlow' = DownFlow
  BY <1>2, <1>3, <1>6 DEF UpFlow, UpBuf, DownFlow, DownBuf, Conns, lvars, mvars
<1> QED
  BY <1>2, <1>5, <1>6, <1>7, FlowsKept DEF HeadInv, RemoteEnded, lvars, mvars

LEMMA TargetReads == ASSUME Inv, TargetRead PROVE Inv'
<1> USE DEF Inv
<1> DEFINE y == net["targetUp"]
<1>1. y \in Bytes /\ y # <<>> /\ targetGot \in Bytes /\ 1 \in 0..Len(y)
  BY DEF TargetRead, TypeInv, Conns, Bytes
<1>2. UNCHANGED <<appSent, targetSent, appGot, lvars, rvars, mvars>> /\ targetGot' = Append(targetGot, Head(y))
  BY DEF TargetRead
<1>3. /\ net' \in [Conns -> Bytes] /\ net'["targetUp"] = After(y, 1)
      /\ \A d \in Conns \ {"targetUp"} : net'[d] = net[d]
  BY <1>1, TakeNet DEF TargetRead, Conns
<1>4. targetGot' \in Bytes /\ targetGot' \o net'["targetUp"] = targetGot \o net["targetUp"]
  BY <1>1, <1>2, <1>3, MoveOut
<1> HIDE DEF y
<1>5. TypeInv' /\ PhaseInv'
  BY <1>2, <1>3, <1>4 DEF TypeInv, PhaseInv, Relaying, lvars, rvars, mvars
<1>6. DownHead' = DownHead /\ DownFlow' = DownFlow
  BY <1>2, <1>3 DEF DownHead, DownFlow, DownBuf, Conns, rvars, mvars
<1>7. UpFlow' = UpFlow
  BY <1>2, <1>3, <1>4 DEF UpFlow, UpBuf, Conns, lvars, mvars
<1> QED
  BY <1>2, <1>5, <1>6, <1>7, FlowsKept DEF HeadInv, RemoteEnded, lvars, mvars

(* The amount of a read and of a short write.                              *)
LEMMA Amounts ==
  ASSUME NEW s \in Bytes, NEW room \in Int
  PROVE  /\ MIN(buf_size, Len(s)) \in 0..Len(s)
         /\ 1..MIN(Len(s), room) \subseteq 0..Len(s)
  BY RelayAssumption DEF MIN, Bytes

LEMMA RoomInt == ASSUME TypeInv, NEW c \in Conns PROVE Room(c) \in Int
  BY RelayAssumption DEF Room, TypeInv, Bytes

LEMMA LocalReads == ASSUME Inv, LocalRead PROVE Inv'
<1> USE DEF Inv
<1> DEFINE y == net["appUp"]
           n == MIN(buf_size, Len(y))
           p == targetGot \o net["targetUp"] \o UpBuf \o net["midUp"]
<1>1. y \in Bytes /\ n \in 0..Len(y) /\ lbuf = <<>>
  BY Amounts DEF LocalRead, TypeInv, Conns
<1>2. UNCHANGED <<appSent, targetSent, appGot, targetGot, local, rvars, mvars>> /\ lbuf' = First(y, n)
  BY DEF LocalRead, ends
<1>3. Take("appUp", n)
  BY DEF LocalRead
<1> HIDE DEF n
<1>4. /\ net' \in [Conns -> Bytes] /\ net'["appUp"] = After(y, n)
      /\ \A d \in Conns \ {"appUp"} : net'[d] = net[d]
  BY <1>1, <1>3, TakeNet DEF Conns
<1>5. TypeInv' /\ PhaseInv'
  BY <1>1, <1>2, <1>4, Split DEF TypeInv, PhaseInv, Relaying, rvars, mvars
<1>6. DownHead' = DownHead /\ DownFlow' = DownFlow
  BY <1>2, <1>4 DEF DownHead, DownFlow, DownBuf, Conns, rvars, mvars
<1>7. UpFlow' = UpFlow
  <2>1. p \in Bytes
    BY FlowTypes, Joined DEF TypeInv, Conns
  <2>2. UpFlow = p \o <<>> \o y
    BY <1>1 DEF UpFlow
  <2>3. UpFlow' = p \o First(y, n) \o After(y, n)
    BY <1>2, <1>4 DEF UpFlow, UpBuf, Conns, mvars
  <2> HIDE DEF p, y
  <2> QED
    BY <1>1, <2>1, <2>2, <2>3, MoveIn
<1> QED
  BY <1>2, <1>5, <1>6, <1>7, FlowsKept DEF HeadInv, RemoteEnded, mvars

LEMMA LocalWrites == ASSUME Inv, LocalWrite PROVE Inv'
<1> USE DEF Inv
<1> DEFINE p == targetGot \o net["targetUp"] \o UpBuf
<1>0. PICK n \in 1..MIN(Len(lbuf), Room("midUp")) :
             Put("midUp", First(lbuf, n)) /\ lbuf' = After(lbuf, n)
  BY DEF LocalWrite, Rest
<1>1. lbuf \in Bytes /\ n \in 0..Len(lbuf)
  BY <1>0, Amounts, RoomInt DEF TypeInv, Conns
<1>2. UNCHANGED <<appSent, targetSent, appGot, targetGot, local, rvars, mvars>>
  BY DEF LocalWrite, ends
<1>3. First(lbuf, n) \in Bytes /\ After(lbuf, n) \in Bytes
  BY <1>1, Split
<1>4. /\ net' \in [Conns -> Bytes] /\ net'["midUp"] = net["midUp"] \o First(lbuf, n)
      /\ \A d \in Conns \ {"midUp"} : net'[d] = net[d]
  BY <1>0, <1>3, PutNet DEF Conns
<1>5. TypeInv' /\ PhaseInv'
  BY <1>0, <1>2, <1>3, <1>4 DEF TypeInv, PhaseInv, Relaying, rvars, mvars
<1>6. DownHead' = DownHead /\ DownFlow' = DownFlow
  BY <1>2, <1>4 DEF DownHead, DownFlow, DownBuf, Conns, rvars, mvars
<1>7. UpFlow' = UpFlow
  <2>1. p \in Bytes /\ net["midUp"] \in Bytes
    BY FlowTypes, Joined DEF TypeInv, Conns
  <2>2. UpFlow' = p \o (net["midUp"] \o First(lbuf, n)) \o After(lbuf, n) \o net["appUp"]
    BY <1>0, <1>2, <1>4 DEF UpFlow, UpBuf, Conns, mvars
  <2>3. UpFlow = p \o net["midUp"] \o lbuf \o net["appUp"]
    BY DEF UpFlow
  <2> HIDE DEF p
  <2>4. Same(p \o (net["midUp"] \o First(lbuf, n)) \o After(lbuf, n), p \o net["midUp"] \o lbuf)
    BY <1>1, <2>1, MoveOn, Zenon
  <2> QED
    BY <2>2, <2>3, <2>4, Zenon DEF Same
<1> QED
  BY <1>2, <1>5, <1>6, <1>7, FlowsKept DEF HeadInv, RemoteEnded, mvars

LEMMA CtcpReads == ASSUME Inv, ReadCtcp PROVE Inv'
<1> USE DEF Inv
<1> DEFINE y == net["ctcp"]
           n == MIN(buf_size, Len(y))
           p == appGot \o net["appDown"]
<1>1. y \in Bytes /\ n \in 0..Len(y) /\ rbuf = <<>> /\ reader = "read"
  BY Amounts DEF ReadCtcp, TypeInv, PhaseInv, Conns
<1>2. UNCHANGED <<appSent, targetSent, appGot, targetGot, lvars, mvars>>
  BY DEF ReadCtcp, ends
<1>3. CASE UNCHANGED <<net, rbuf>> /\ reader' = "exit"
  <2>1. TypeInv' /\ PhaseInv'
    BY <1>1, <1>2, <1>3 DEF TypeInv, PhaseInv, Relaying, lvars, mvars
  <2>2. UpFlow' = UpFlow /\ DownHead' = DownHead /\ DownFlow' = DownFlow
    BY <1>2, <1>3 DEF UpFlow, UpBuf, DownHead, DownFlow, DownBuf, lvars, mvars
  <2> QED
    BY <1>2, <2>1, <2>2, FlowsKept DEF HeadInv, RemoteEnded, lvars, mvars
<1>4. CASE rbuf' = First(y, n) /\ Take("ctcp", n) /\ reader' = "write"
  <2> HIDE DEF n
  <2>1. /\ net' \in [Conns -> Bytes] /\ net'["ctcp"] = After(y, n)
        /\ \A d \in Conns \ {"ctcp"} : net'[d] = net[d]
    BY <1>1, <1>4, TakeNet DEF Conns
  <2>2. TypeInv' /\ PhaseInv'
    BY <1>1, <1>2, <1>4, <2>1, Split DEF TypeInv, PhaseInv, Relaying, lvars, mvars
  <2>3. p \in Bytes
    BY FlowTypes, Joined DEF TypeInv, Conns
  <2>4. DownHead = p \o <<>> \o y
    BY <1>1 DEF DownHead
  <2>5. DownHead' = p \o First(y, n) \o After(y, n)
    BY <1>2, <1>4, <2>1 DEF DownHead, Conns
  <2>6. DownHead' = DownHead
    <3> HIDE DEF p, y
    <3> QED
      BY <1>1, <2>3, <2>4, <2>5, MoveIn
  <2>7. UpFlow' = UpFlow /\ DownFlow' = DownFlow
    BY <1>2, <2>1, <2>6 DEF UpFlow, UpBuf, DownFlow, DownBuf, Conns, lvars, mvars
  <2> QED
    BY <1>2, <2>2, <2>6, <2>7, FlowsKept DEF HeadInv, RemoteEnded, lvars, mvars
<1> QED
  BY <1>3, <1>4 DEF ReadCtcp

LEMMA ReaderWrites == ASSUME Inv, ReaderWrite PROVE Inv'
<1> USE DEF Inv
<1>0. PICK n \in 1..MIN(Len(rbuf), Room("appDown")) :
             Put("appDown", First(rbuf, n)) /\ rbuf' = After(rbuf, n)
  BY DEF ReaderWrite, Rest
<1>1. rbuf \in Bytes /\ n \in 0..Len(rbuf)
  BY <1>0, Amounts, RoomInt DEF TypeInv, Conns
<1>2. /\ UNCHANGED <<appSent, targetSent, appGot, targetGot, lvars, mvars>>
      /\ reader = "write" /\ reader' = IF rbuf' = <<>> THEN "read" ELSE "write"
  BY DEF ReaderWrite, ends
<1>3. First(rbuf, n) \in Bytes /\ After(rbuf, n) \in Bytes
  BY <1>1, Split
<1>4. /\ net' \in [Conns -> Bytes] /\ net'["appDown"] = net["appDown"] \o First(rbuf, n)
      /\ \A d \in Conns \ {"appDown"} : net'[d] = net[d]
  BY <1>0, <1>3, PutNet DEF Conns
<1>5. TypeInv' /\ PhaseInv'
  BY <1>0, <1>2, <1>3, <1>4 DEF TypeInv, PhaseInv, Relaying, lvars, mvars
<1>6. DownHead' = DownHead
  <2>1. appGot \in Bytes /\ net["appDown"] \in Bytes
    BY DEF TypeInv, Conns
  <2>2. Same(appGot \o (net["appDown"] \o First(rbuf, n)) \o After(rbuf, n),
             appGot \o net["appDown"] \o rbuf)
    BY <1>1, <2>1, MoveOn, Zenon
  <2> QED
    BY <1>0, <1>2, <1>4, <2>2 DEF DownHead, Conns, Same
<1>7. UpFlow' = UpFlow /\ DownFlow' = DownFlow
  BY <1>2, <1>4, <1>6 DEF UpFlow, UpBuf, DownFlow, DownBuf, Conns, lvars, mvars
<1> QED
  BY <1>2, <1>5, <1>6, <1>7, FlowsKept DEF HeadInv, RemoteEnded, lvars, mvars

LEMMA RemoteReads == ASSUME Inv, RemoteRead PROVE Inv'
<1> USE DEF Inv
<1>0. PICK own \in Owners :
        LET in == net[Source(own)]
            n  == MIN(buf_size, Len(in)) IN
        mown' = own /\ mbuf' = First(in, n) /\ Take(Source(own), n)
  BY DEF RemoteRead
<1> DEFINE y == net[Source(own)]
           n == MIN(buf_size, Len(y))
           p == targetGot \o net["targetUp"]
<1>1. own \in {0, 1} /\ Source(own) \in Conns
  BY DEF Owners, Source, Conns
<1>2. y \in Bytes /\ n \in 0..Len(y) /\ mbuf = <<>> /\ remote = "relay"
  BY <1>1, Amounts DEF RemoteRead, TypeInv
<1>3. UNCHANGED <<appSent, targetSent, appGot, targetGot, lvars, rvars, remote>>
  BY DEF RemoteRead, ends
<1>4. mown' = own /\ mbuf' = First(y, n) /\ Take(Source(own), n)
  BY <1>0
<1> HIDE DEF n
<1>5. /\ net' \in [Conns -> Bytes] /\ net'[Source(own)] = After(y, n)
      /\ \A d \in Conns \ {Source(own)} : net'[d] = net[d]
  BY <1>1, <1>2, <1>4, TakeNet
<1>6. TypeInv' /\ PhaseInv'
  BY <1>1, <1>2, <1>3, <1>4, <1>5, Split DEF TypeInv, PhaseInv, Relaying, lvars, rvars
<1>7. UpBuf = <<>> /\ DownBuf = <<>> /\ DownHead' = DownHead
  BY <1>1, <1>2, <1>3, <1>5 DEF UpBuf, DownBuf, DownHead, Source, Conns, rvars
<1>8. CASE own = 0
  <2>0. DownBuf' = <<>>
    BY <1>4, <1>8 DEF DownBuf
  <2>1. DownFlow' = DownFlow
    BY <1>5, <1>7, <1>8, <2>0 DEF DownFlow, Source, Conns
  <2>2. p \in Bytes
    BY FlowTypes, Joined DEF TypeInv, Conns
  <2>3. UpFlow = p \o <<>> \o y \o lbuf \o net["appUp"]
    BY <1>7, <1>8 DEF UpFlow, Source
  <2>4. UpFlow' = p \o First(y, n) \o After(y, n) \o lbuf \o net["appUp"]
    BY <1>3, <1>4, <1>5, <1>8 DEF UpFlow, UpBuf, Source, Conns, lvars
  <2> HIDE DEF p, y
  <2>5. p \o First(y, n) \o After(y, n) = p \o <<>> \o y
    BY <1>2, <2>2, MoveIn
  <2> QED
    BY <1>3, <1>6, <1>7, <2>1, <2>3, <2>4, <2>5, FlowsKept DEF HeadInv, RemoteEnded, lvars
<1>9. CASE own = 1
  <2>0. UpBuf' = <<>>
    BY <1>4, <1>9 DEF UpBuf
  <2>a. /\ net'["targetUp"] = net["targetUp"] /\ net'["midUp"] = net["midUp"]
        /\ net'["appUp"] = net["appUp"] /\ lbuf' = lbuf
    BY <1>3, <1>5, <1>9 DEF Source, Conns, lvars
  <2>1. UpFlow' = UpFlow
    BY <1>3, <1>7, <2>0, <2>a DEF UpFlow
  <2>2. DownHead \in Bytes
    BY FlowTypes
  <2>3. DownFlow = DownHead \o <<>> \o y
    BY <1>7, <1>9 DEF DownFlow, Source
  <2>4. DownFlow' = DownHead \o First(y, n) \o After(y, n)
    BY <1>4, <1>5, <1>7, <1>9 DEF DownFlow, DownBuf, Source, Conns
  <2> HIDE DEF y
  <2>5. DownFlow' = DownFlow
    BY <1>2, <2>2, <2>3, <2>4, MoveIn
  <2> QED
    BY <1>3, <1>6, <1>7, <2>1, <2>5, FlowsKept DEF HeadInv, RemoteEnded, lvars
<1> QED
  BY <1>1, <1>8, <1>9

LEMMA RemoteWrites == ASSUME Inv, RemoteWrite PROVE Inv'
<1> USE DEF Inv
<1>1. /\ UNCHANGED <<appSent, targetSent, appGot, targetGot, lvars, rvars, mown>>
      /\ remote = "write" /\ mown = 0 /\ mbuf \in Bytes
  BY DEF RemoteWrite, ends, PhaseInv, TypeInv
<1>2. DownBuf = <<>> /\ DownBuf' = <<>>
  BY <1>1 DEF DownBuf
<1>3. CASE remote' = "fin" /\ mbuf' = <<>> /\ UNCHANGED net
  <2>1. TypeInv' /\ PhaseInv'
    BY <1>1, <1>3 DEF TypeInv, PhaseInv, Relaying, Bytes, lvars, rvars
  <2>2. DownHead' = DownHead /\ RemoteEnded'
    BY <1>1, <1>3 DEF DownHead, RemoteEnded, rvars
  <2> QED
    BY <2>1, <2>2 DEF UpInv, DownInv, HeadInv
<1>4. ASSUME NEW n \in 1..MIN(Len(mbuf), Room("targetUp")),
             Put("targetUp", First(mbuf, n)), mbuf' = After(mbuf, n),
             remote' = IF mbuf' = <<>> THEN "relay" ELSE "write"
      PROVE  Inv'
  <2>1. n \in 0..Len(mbuf)
    BY <1>1, Amounts, RoomInt DEF Conns
  <2>2. First(mbuf, n) \in Bytes /\ After(mbuf, n) \in Bytes
    BY <1>1, <2>1, Split
  <2>3. /\ net' \in [Conns -> Bytes] /\ net'["targetUp"] = net["targetUp"] \o First(mbuf, n)
        /\ \A d \in Conns \ {"targetUp"} : net'[d] = net[d]
    BY <1>4, <2>2, PutNet DEF Conns
  <2>4. TypeInv' /\ PhaseInv'
    BY <1>1, <1>4, <2>2, <2>3 DEF TypeInv, PhaseInv, Relaying, lvars, rvars
  <2>5. DownHead' = DownHead /\ DownFlow' = DownFlow
    BY <1>1, <1>2, <2>3 DEF DownHead, DownFlow, Conns, rvars
  <2>6. targetGot \in Bytes /\ net["targetUp"] \in Bytes
    BY DEF TypeInv, Conns
  <2>7. Same(targetGot \o (net["targetUp"] \o First(mbuf, n)) \o After(mbuf, n),
             targetGot \o net["targetUp"] \o mbuf)
    BY <1>1, <2>1, <2>6, MoveOn, Zenon
  <2>8. UpFlow' = UpFlow
    BY <1>1, <1>4, <2>3, <2>7 DEF UpFlow, UpBuf, Conns, lvars, Same
  <2> QED
    BY <1>1, <2>4, <2>5, <2>8, FlowsKept DEF HeadInv, RemoteEnded, lvars
<1> QED
  BY <1>3, <1>4 DEF RemoteWrite, Rest

LEMMA RemoteSends == ASSUME Inv, RemoteSend PROVE Inv'
<1> USE DEF Inv
<1>1. /\ UNCHANGED <<appSent, targetSent, appGot, targetGot, lvars, rvars, mown>>
      /\ remote = "send" /\ mown = 1 /\ mbuf \in Bytes
  BY DEF RemoteSend, ends, PhaseInv, TypeInv
<1>2. UpBuf = <<>> /\ UpBuf' = <<>>
  BY <1>1 DEF UpBuf
<1>3. CASE remote' = "fin" /\ mbuf' = <<>> /\ UNCHANGED net
  <2>1. TypeInv' /\ PhaseInv'
    BY <1>1, <1>3 DEF TypeInv, PhaseInv, Relaying, Bytes, lvars, rvars
  <2>2. DownHead' = DownHead /\ RemoteEnded'
    BY <1>1, <1>3 DEF DownHead, RemoteEnded, rvars
  <2> QED
    BY <2>1, <2>2 DEF UpInv, DownInv, HeadInv
<1>4. ASSUME NEW n \in 1..MIN(Len(mbuf), Room("ctcp")),
             Put("ctcp", First(mbuf, n)), mbuf' = After(mbuf, n),
             remote' = IF mbuf' = <<>> THEN "relay" ELSE "send"
      PROVE  Inv'
  <2> DEFINE p == appGot \o net["appDown"] \o rbuf
  <2>1. n \in 0..Len(mbuf)
    BY <1>1, Amounts, RoomInt DEF Conns
  <2>2. First(mbuf, n) \in Bytes /\ After(mbuf, n) \in Bytes
    BY <1>1, <2>1, Split
  <2>3. /\ net' \in [Conns -> Bytes] /\ net'["ctcp"] = net["ctcp"] \o First(mbuf, n)
        /\ \A d \in Conns \ {"ctcp"} : net'[d] = net[d]
    BY <1>4, <2>2, PutNet DEF Conns
  <2>4. TypeInv' /\ PhaseInv'
    BY <1>1, <1>4, <2>2, <2>3 DEF TypeInv, PhaseInv, Relaying, lvars, rvars
  <2>5. UpFlow' = UpFlow
    BY <1>1, <1>2, <2>3 DEF UpFlow, Conns, lvars
  <2>6. p \in Bytes /\ net["ctcp"] \in Bytes
    BY FlowTypes, Joined DEF TypeInv, Conns
  <2>7. DownHead = p \o net["ctcp"] /\ DownHead' = p \o (net["ctcp"] \o First(mbuf, n))
    BY <1>1, <2>3 DEF DownHead, Conns, rvars
  <2>8. DownBuf = mbuf /\ DownBuf' = After(mbuf, n) /\ net'["targetDown"] = net["targetDown"]
    BY <1>1, <1>4, <2>3 DEF DownBuf, Conns
  <2> HIDE DEF p
  <2>9. Same(p \o (net["ctcp"] \o First(mbuf, n)) \o After(mbuf, n), p \o net["ctcp"] \o mbuf)
    BY <1>1, <2>1, <2>6, MoveOn, Zenon
  <2>10. DownFlow' = DownFlow
    BY <2>7, <2>8, <2>9 DEF DownFlow, Same
  <2>11. DownFlow' = DownTo(targetSent) /\ targetSent \in Nat
    BY <1>1, <2>10 DEF DownInv, RemoteEnded, TypeInv
  <2>12. DownHead' \in Bytes
    BY <2>2, <2>6, <2>7, Joined
  <2>13. net["targetDown"] \in Bytes
    BY DEF TypeInv, Conns
  <2>14. DownHead' \o After(mbuf, n) \o net["targetDown"] = DownTo(targetSent)
    BY <2>8, <2>11 DEF DownFlow
  <2>15. HeadInv'
    BY <2>2, <2>11, <2>12, <2>13, <2>14, HeadOfFlow DEF HeadInv
  <2> QED
    BY <1>1, <2>4, <2>5, <2>10, <2>15, FlowsKept DEF RemoteEnded, lvars
<1> QED
  BY <1>3, <1>4 DEF RemoteSend, Rest

LEMMA ControlKeeps == ASSUME Inv, Control, PhaseInv' PROVE Inv'
<1> USE DEF Inv
<1>0. <<>> \in Bytes /\ lbuf \in Bytes /\ mbuf \in Bytes
  BY DEF TypeInv, Bytes
<1>1. TypeInv'
  BY <1>0 DEF Control, NoBytes, TypeInv
<1>2. DownHead' = DownHead
  BY DEF Control, NoBytes, DownHead
<1>3. ~RemoteEnded' => DownFlow' = DownFlow /\ ~RemoteEnded
  BY <1>2 DEF Control, NoBytes, DownFlow, DownBuf
<1>4. ~RemoteEnded' /\ ~LocalEnded' => UpFlow' = UpFlow /\ ~RemoteEnded /\ ~LocalEnded
  BY DEF Control, NoBytes, UpFlow, UpBuf
<1>5. appSent' = appSent /\ targetSent' = targetSent
  BY DEF Control, NoBytes
<1> QED
  BY <1>1, <1>2, <1>3, <1>4, <1>5 DEF UpInv, DownInv, HeadInv
-----------------------------------------------------------------------------
LEMMA InvInit == ASSUME Init PROVE Inv
<1>1. TypeInv /\ PhaseInv
  BY DEF Init, TypeInv, PhaseInv, Relaying, Bytes
<1>2. UpBuf = <<>> /\ DownBuf = <<>> /\ \A c \in Conns : net[c] = <<>>
  BY DEF Init, UpBuf, DownBuf
<1>3. UpTo(0) = <<>> /\ DownTo(0) = <<>>
  BY DEF UpTo, DownTo
<1>4. <<>> \o <<>> = <<>>
  BY EmptyBytes DEF Bytes
<1>5. UpFlow = <<>> /\ DownHead = <<>> /\ DownFlow = <<>>
  BY <1>2, <1>4 DEF Init, UpFlow, DownHead, DownFlow, Conns
<1>6. UpInv /\ DownInv
  BY <1>3, <1>5 DEF Init, UpInv, DownInv
<1>7. HeadInv
  BY <1>5 DEF HeadInv
<1> QED
  BY <1>1, <1>6, <1>7 DEF Inv

LEMMA InvStep == ASSUME Inv, [Next]_vars PROVE Inv'
  BY StepShape, ControlKeeps, AppSends, AppReads, TargetSends, TargetReads, LocalReads,
     LocalWrites, CtcpReads, ReaderWrites, RemoteReads, RemoteWrites, RemoteSends DEF Moves

LEMMA InvAccounts == ASSUME Inv PROVE BytesAccounted
<1> USE DEF Inv
<1>1. UpAccounted
  BY DEF UpAccounted, UpInv, UpFlow, UpTo, LocalEnded, RemoteEnded
<1>2. DownAccounted
  BY DEF DownAccounted, DownInv, DownFlow, DownHead, DownTo, RemoteEnded
<1>3. DownInOrder
  <2> DEFINE r == net["appDown"] \o rbuf \o net["ctcp"]
  <2>1. appGot \in Bytes /\ net["appDown"] \in Bytes /\ net["ctcp"] \in Bytes /\ rbuf \in Bytes
    BY DEF TypeInv, Conns
  <2>2. net["appDown"] \o rbuf \in Bytes
    BY <2>1, Joined
  <2>3. r \in Bytes
    BY <2>1, <2>2, Joined
  <2>4. DownHead = appGot \o r
    <3>1. Same(appGot \o (net["appDown"] \o rbuf), appGot \o net["appDown"] \o rbuf)
      BY <2>1, Grouped, Zenon
    <3>2. Same(appGot \o r, appGot \o (net["appDown"] \o rbuf) \o net["ctcp"])
      BY <2>1, <2>2, Grouped, Zenon
    <3> QED
      BY <3>1, <3>2, Zenon DEF DownHead, Same
  <2> HIDE DEF r
  <2>5. Len(appGot) \in Nat /\ Len(r) \in Nat /\ Len(DownHead) = Len(appGot) + Len(r)
    BY <2>1, <2>3, <2>4, ConcatProperties DEF Bytes
  <2>6. DOMAIN appGot = 1..Len(appGot) /\ \A i \in 1..Len(appGot) : DownHead[i] = appGot[i]
    BY <2>1, <2>3, <2>4, <2>5, ConcatProperties DEF Bytes
  <2> QED
    BY <2>5, <2>6 DEF DownInOrder, HeadInv
<1> QED
  BY <1>1, <1>2, <1>3 DEF BytesAccounted

(* For buffers and connections of any size, whatever writes come up short  *)
(* and whichever of the four processes stops first: what the application   *)
(* reads is a prefix of what the target sent, in order; and while the      *)
(* children relay, every byte sent by either end is in exactly one place   *)
(* on its way, the shared buffer of the remote child included.             *)
THEOREM NothingLostOrRepeated == Spec => []BytesAccounted
<1>1. Init => Inv
  BY InvInit
<1>2. Inv /\ [Next]_vars => Inv'
  BY InvStep
<1>3. Inv => BytesAccounted
  BY InvAccounts
<1> QED
  BY <1>1, <1>2, <1>3, PTL DEF Spec

-----------------------------------------------------------------------------
(***************************************************************************)
(* The daemon never has more children than max_con_cnt.                    *)
(***************************************************************************)
(* Children that waitpid has not returned yet.                             *)
Unreaped == In({"new", "neg", "listen", "serve", "zombie"})
Count    == Cardinality(Unreaped)

(* How con_cnt may differ from the children there are: the race between    *)
(* ++con_cnt and the handler's con_cnt-- can only leave it too large.      *)
CountInv ==
  /\ loop \in {"top", "accept", "fork"} => Count <= con_cnt
  /\ loop = "load" => Count <= con_cnt + 1
  /\ loop = "store" => Count <= reg
  /\ loop \in {"accept", "fork"} => Count < max_con_cnt
  /\ Count <= max_con_cnt

(* The children, and every set of them, are finitely many.                 *)
LEMMA FiniteChildren ==
  \A T \in SUBSET Children : IsFiniteSet(T) /\ Cardinality(T) \in Nat
<1>1. IsFiniteSet(Children)
  BY FS_Interval, DaemonAssumption DEF Children
<1>2. QED BY <1>1, FS_Subset, FS_CardinalityType

(* Initially there are no children.                                        *)
LEMMA InitInv == DaemonInit => TypeOK /\ CountInv
<1> SUFFICES ASSUME DaemonInit PROVE TypeOK /\ CountInv
  OBVIOUS
<1>1. TypeOK
  <2>1. sigchld \in BOOLEAN
    BY DEF DaemonInit
  <2>2. \A c \in Children : c > forked /\ stage[c] = "none"
    BY DaemonAssumption DEF DaemonInit, Children
  <2>3. QED BY <2>1, <2>2, DaemonAssumption DEF DaemonInit, TypeOK
<1>2. Unreaped = {}
  BY DEF DaemonInit, Unreaped, In
<1>3. Count = 0
  BY <1>2, FS_EmptySet DEF Count
<1>4. QED BY <1>1, <1>3, DaemonAssumption DEF CountInv, DaemonInit

(* Every step of the daemon, of a child or of the handler keeps the types. *)
LEMMA TypeStep == TypeOK /\ [DaemonNext]_dvars => TypeOK'
<1> SUFFICES ASSUME TypeOK, [DaemonNext]_dvars PROVE TypeOK'
  OBVIOUS
<1> USE DaemonAssumption DEF TypeOK, Children
<1>1. CASE Top \/ Accept \/ ForkFails \/ Load \/ Store \/ Terminate
  BY <1>1 DEF Top, Accept, ForkFails, Load, Store, Terminate
<1>2. CASE Fork
  BY <1>2 DEF Fork
<1>3. CASE handle_sig
  <2>1. In({"zombie"}) \in SUBSET Children
    BY DEF In
  <2>2. Cardinality(In({"zombie"})) \in Nat
    BY <2>1, FiniteChildren
  <2>3. /\ stage' = [c \in Children |-> IF c \in In({"zombie"}) THEN "reaped" ELSE stage[c]]
        /\ con_cnt' = con_cnt - Cardinality(In({"zombie"}))
    BY <1>3 DEF handle_sig, Waited
  <2>4. con_cnt' \in Int
    BY <2>2, <2>3
  <2>5. \A c \in Children : c \in In({"zombie"}) => stage[c] # "none"
    BY DEF In
  <2>6. QED BY <1>3, <2>3, <2>4, <2>5 DEF handle_sig
<1>4. ASSUME NEW c \in Children, Open(c) \/ Negotiate(c) \/ Listen(c) \/ Finish(c) PROVE TypeOK'
  <2>1. PICK from, to \in {"new", "neg", "listen", "serve", "zombie"} : Step(c, from, to)
    BY <1>4 DEF Open, Negotiate, Listen, Finish
  <2>2. QED BY <2>1 DEF Step, parent
<1>5. CASE UNCHANGED dvars
  BY <1>5 DEF dvars
<1>6. QED BY <1>1, <1>2, <1>3, <1>4, <1>5 DEF DaemonNext, AcceptLoop

(* Fork adds one child to those not reaped.                                *)
LEMMA ForkCounts == TypeOK /\ Fork => Count' = Count + 1
<1> SUFFICES ASSUME TypeOK, Fork PROVE Count' = Count + 1
  OBVIOUS
<1>1. forked' \in Children /\ forked' = forked + 1
  BY DaemonAssumption DEF Fork, TypeOK, Children
<1>2. stage[forked'] = "none"
  BY <1>1, DaemonAssumption DEF TypeOK, Children
<1>3. forked' \notin Unreaped
  BY <1>2 DEF Unreaped, In
<1>4. Unreaped' = Unreaped \cup {forked'}
  BY <1>1 DEF Fork, Unreaped, In, TypeOK
<1>5. IsFiniteSet(Unreaped)
  BY FiniteChildren DEF Unreaped, In
<1>6. QED BY <1>3, <1>4, <1>5, FS_AddElement DEF Count

(* The handler takes from con_cnt exactly what it reaps.                   *)
LEMMA HandlerCounts ==
  TypeOK /\ handle_sig => \E k \in Nat : Count' = Count - k /\ con_cnt' = con_cnt - k
<1> SUFFICES ASSUME TypeOK, handle_sig
             PROVE  \E k \in Nat : Count' = Count - k /\ con_cnt' = con_cnt - k
  OBVIOUS
<1> DEFINE Z == In({"zombie"})
<1>1. Z \in SUBSET Children /\ Unreaped' \in SUBSET Children
  BY DEF In, Unreaped, Children
<1>2. IsFiniteSet(Z) /\ IsFiniteSet(Unreaped') /\ Cardinality(Z) \in Nat /\ Count' \in Nat
  BY <1>1, FiniteChildren DEF Count
<1>3. /\ stage' = [c \in Children |-> IF c \in Z THEN "reaped" ELSE stage[c]]
      /\ con_cnt' = con_cnt - Cardinality(Z)
  BY DEF handle_sig, Waited
<1>4. Unreaped = Unreaped' \cup Z /\ Unreaped' \cap Z = {}
  BY <1>3 DEF Unreaped, In
<1>5. Cardinality(Unreaped) = Cardinality(Unreaped') + Cardinality(Z) - Cardinality({})
  BY <1>2, <1>4, FS_Union
<1>6. Count = Count' + Cardinality(Z)
  BY <1>2, <1>5, FS_EmptySet DEF Count
<1>7. Count' = Count - Cardinality(Z)
  BY <1>2, <1>6
<1>8. QED BY <1>2, <1>3, <1>7

(* No step breaks the bound on con_cnt's error.                            *)
LEMMA CountStep == TypeOK /\ CountInv /\ [DaemonNext]_dvars => CountInv'
<1> SUFFICES ASSUME TypeOK, CountInv, [DaemonNext]_dvars PROVE CountInv'
  OBVIOUS
<1>0. Count \in Nat /\ con_cnt \in Int /\ reg \in Int /\ max_con_cnt \in Nat
  BY FiniteChildren, DaemonAssumption DEF Count, Unreaped, In, TypeOK
<1>1. ASSUME stage' = stage PROVE Count' = Count
  BY <1>1 DEF Count, Unreaped, In
<1>2. CASE Top
  <2>1. Count' = Count
    BY <1>1, <1>2 DEF Top
  <2>2. QED BY <1>0, <1>2, <2>1 DEF Top, BelowMax, CountInv
<1>3. CASE Accept \/ ForkFails
  <2>1. Count' = Count
    BY <1>1, <1>3 DEF Accept, ForkFails
  <2>2. QED BY <1>0, <1>3, <2>1 DEF Accept, ForkFails, CountInv
<1>4. CASE Load \/ Store \/ Terminate
  <2>1. Count' = Count
    BY <1>1, <1>4 DEF Load, Store, Terminate
  <2>2. QED BY <1>0, <1>4, <2>1 DEF Load, Store, Terminate, CountInv
<1>5. CASE Fork
  <2>1. Count' = Count + 1
    BY <1>5, ForkCounts
  <2>2. QED BY <1>0, <1>5, <2>1 DEF Fork, CountInv
<1>6. CASE handle_sig
  <2>1. PICK k \in Nat : Count' = Count - k /\ con_cnt' = con_cnt - k
    BY <1>6, HandlerCounts
  <2>2. loop' \in {loop, "top"} /\ (loop' # loop => loop = "accept") /\ reg' = reg
    BY <1>6 DEF handle_sig
  <2>3. QED BY <1>0, <2>1, <2>2 DEF CountInv
<1>7. ASSUME NEW c \in Children, Open(c) \/ Negotiate(c) \/ Listen(c) \/ Finish(c) PROVE CountInv'
  <2>1. PICK from, to \in {"new", "neg", "listen", "serve", "zombie"} : Step(c, from, to)
    BY <1>7 DEF Open, Negotiate, Listen, Finish
  <2>2. Unreaped' = Unreaped
    BY <2>1 DEF Step, Unreaped, In, TypeOK
  <2>3. QED BY <2>1, <2>2 DEF Step, parent, CountInv, Count
<1>8. CASE UNCHANGED dvars
  <2>1. Count' = Count
    BY <1>1, <1>8 DEF dvars
  <2>2. QED BY <1>8, <2>1 DEF dvars, CountInv
<1>9. QED BY <1>2, <1>3, <1>4, <1>5, <1>6, <1>7, <1>8 DEF DaemonNext, AcceptLoop

(* The children that live are among those not reaped.                      *)
LEMMA CountBoundsLive == TypeOK /\ CountInv => MaxRespected
<1> SUFFICES ASSUME TypeOK, CountInv PROVE MaxRespected
  OBVIOUS
<1>1. Unreaped \in SUBSET Children /\ Live \in SUBSET Unreaped
  BY DEF Unreaped, Live, In
<1>2. IsFiniteSet(Unreaped) /\ Cardinality(Unreaped) \in Nat
  BY <1>1, FiniteChildren
<1>3. Cardinality(Live) <= Cardinality(Unreaped) /\ Live \in SUBSET Children
  BY <1>1, <1>2, FS_Subset
<1>4. Cardinality(Live) \in Nat
  BY <1>3, FiniteChildren
<1>5. QED BY <1>2, <1>3, <1>4, DaemonAssumption DEF CountInv, Count, MaxRespected

(* The variables of the daemon keep their types: no child is forked twice, *)
(* and con_cnt, which may be negative, stays an integer.                   *)
THEOREM TypeCorrect == DaemonSpec => []TypeOK
<1>1. DaemonInit => TypeOK
  BY InitInv
<1>2. QED BY <1>1, TypeStep, PTL DEF DaemonSpec

(* The accept loop of proxy_remote and proxy_local never has more live     *)
(* children than max_con_cnt, although the SIGCHLD handler changes con_cnt *)
(* between its instructions.                                               *)
THEOREM MaxRespectedHolds == DaemonSpec => []MaxRespected
<1>1. DaemonInit => CountInv
  BY InitInv
<1>2. QED BY <1>1, TypeCorrect, CountStep, CountBoundsLive, PTL DEF DaemonSpec
-----------------------------------------------------------------------------
(* The negotiation with an upstream proxy. First what the byte sequences   *)
(* of the two sides are made of.                                           *)
LEMMA SameSeq ==
  ASSUME NEW s, NEW t, s \in Seq(Nat), t \in Seq(Nat), Len(s) = Len(t), \A i \in 1..Len(s) : s[i] = t[i]
  PROVE  s = t
BY SeqEqual

LEMMA UnreadIs ==
  ASSUME NEW s \in Seq(Nat), NEW n \in 0..Len(s)
  PROVE  /\ Unread(s, n) \in Seq(Nat) /\ Len(Unread(s, n)) = Len(s) - n
         /\ \A i \in 1..Len(s) - n : Unread(s, n)[i] = s[n + i]
         /\ n = Len(s) => Unread(s, n) = <<>>
<1>1. Len(s) \in Nat /\ n \in Nat
  OBVIOUS
<1>2. \A i \in (n + 1)..Len(s) : s[i] \in Nat
  BY <1>1
<1>3. /\ SubSeq(s, n + 1, Len(s)) \in Seq(Nat)
      /\ Len(SubSeq(s, n + 1, Len(s))) = IF n + 1 <= Len(s) THEN Len(s) - (n + 1) + 1 ELSE 0
  BY <1>1, <1>2, SubSeqProperties
<1>4. Len(Unread(s, n)) = Len(s) - n
  BY <1>1, <1>3 DEF Unread
<1>5. n = Len(s) => Unread(s, n) = <<>>
  BY <1>1, SubSeqEmpty DEF Unread
<1>6. \A i \in 1..Len(s) - n : i \in 1..Len(s) - (n + 1) + 1 /\ (n + 1) + i - 1 = n + i
  BY <1>1
<1>7. QED BY <1>3, <1>4, <1>5, <1>6 DEF Unread

LEMMA JoinIs ==
  ASSUME NEW s \in Seq(Nat), NEW t \in Seq(Nat), NEW m \in Nat, NEW n \in Nat, m = Len(s), n = Len(t)
  PROVE  /\ s \o t \in Seq(Nat) /\ Len(s \o t) = m + n
         /\ \A i \in 1..m : (s \o t)[i] = s[i]
         /\ \A i \in 1..n : (s \o t)[m + i] = t[i]
<1>1. /\ s \o t \in Seq(Nat) /\ Len(s \o t) = Len(s) + Len(t)
      /\ \A i \in 1..Len(s) + Len(t) : (s \o t)[i] = IF i <= Len(s) THEN s[i] ELSE t[i - Len(s)]
  BY ConcatProperties
<1>2. \A i \in 1..m : i \in 1..m + n /\ i <= m
  OBVIOUS
<1>3. \A i \in 1..n : m + i \in 1..m + n /\ ~(m + i <= m) /\ (m + i) - m = i
  OBVIOUS
<1>4. QED BY <1>1, <1>2, <1>3

LEMMA AppendToNothing ==
  ASSUME NEW s \in Seq(Nat), NEW t \in Seq(Nat)
  PROVE  s \o t \in Seq(Nat) /\ Len(s \o t) = Len(s) + Len(t) /\ <<>> \o t = t
OBVIOUS

(* The child's answer to the methods; what its reading of the version,     *)
(* method count and command leaves of a request.                           *)
Choice  == <<5, 0>> \o CtcpPort
NamePart == <<1, Target>> \o TargetPort

LEMMA NamePartIs ==
  /\ NamePart \in Seq(Nat) /\ Len(NamePart) = 4
  /\ NamePart[1] = 1 /\ NamePart[2] = Target /\ NamePart[3] = 0 /\ NamePart[4] = 80
  /\ Target \in Nat
BY DEF NamePart, TargetPort, Target

(* Where each part of a message begins: the two sides agree on it.         *)
LEMMA MethodsFacts ==
  /\ Methods \in Seq(Nat) /\ Len(Methods) >= 2 /\ Len(Methods) < 5 /\ Methods[1] = 5 /\ Methods[2] \in {1, 2}
  /\ Unread(Methods, 2) \in Seq(Nat) /\ Len(Unread(Methods, 2)) = Methods[2] /\ Unread(Methods, 2)[1] = 0
BY DEF Methods, Unread

LEMMA RequestFacts ==
  ASSUME pcon.cmd \in {"CONNECT", "BIND", "UDP"}
  PROVE  /\ Request \in Seq(Nat) /\ Len(Request) = 8 /\ Request[1] = 5 /\ Request[2] = Code(pcon.cmd)
         /\ Unread(Request, 4) = NamePart
<1>1. Code(pcon.cmd) \in 1..3
  BY DEF Code
<1>2. ASSUME NEW c \in Nat
      PROVE  LET r == <<5, c, 0, 3, 1, Target>> \o TargetPort IN
             /\ r \in Seq(Nat) /\ Len(r) = 8 /\ r[1] = 5 /\ r[2] = c
             /\ r[5] = 1 /\ r[6] = Target /\ r[7] = 0 /\ r[8] = 80
  BY DEF TargetPort, Target
<1>5. /\ Request \in Seq(Nat) /\ Len(Request) = 8 /\ Request[1] = 5 /\ Request[2] = Code(pcon.cmd)
      /\ Request[5] = 1 /\ Request[6] = Target /\ Request[7] = 0 /\ Request[8] = 80
  BY <1>1, <1>2 DEF Request
<1>6. Unread(Request, 4) \in Seq(Nat) /\ Len(Unread(Request, 4)) = 4 /\ \A i \in 1..4 : Unread(Request, 4)[i] = Request[4 + i]
  <2>1. 4 \in 0..Len(Request) /\ 8 - 4 = 4
    BY <1>5
  <2>2. /\ Unread(Request, 4) \in Seq(Nat) /\ Len(Unread(Request, 4)) = Len(Request) - 4
        /\ \A i \in 1..Len(Request) - 4 : Unread(Request, 4)[i] = Request[4 + i]
    BY <1>5, <2>1, UnreadIs
  <2>3. QED BY <1>5, <2>1, <2>2
<1>7. \A i \in 1..4 : Unread(Request, 4)[i] = NamePart[i]
  <2>1. 4 + 1 = 5 /\ 4 + 2 = 6 /\ 4 + 3 = 7 /\ 4 + 4 = 8
    OBVIOUS
  <2>2. \A i \in 1..4 : i = 1 \/ i = 2 \/ i = 3 \/ i = 4
    OBVIOUS
  <2>3. Unread(Request, 4)[1] = 1 /\ Unread(Request, 4)[2] = Target /\ Unread(Request, 4)[3] = 0 /\ Unread(Request, 4)[4] = 80
    BY <1>5, <1>6, <2>1
  <2>4. QED BY <2>2, <2>3, NamePartIs, Zenon
<1>8. Unread(Request, 4) = NamePart
  <2>1. Unread(Request, 4) \in Seq(Nat) /\ NamePart \in Seq(Nat) /\ Len(Unread(Request, 4)) = Len(NamePart)
    BY <1>6, <1>7, NamePartIs, Zenon
  <2>2. \A i \in 1..Len(Unread(Request, 4)) : Unread(Request, 4)[i] = NamePart[i]
    BY <1>6, <1>7, NamePartIs, Zenon
  <2>3. QED BY <2>1, <2>2, SameSeq, Zenon
<1>9. QED BY <1>5, <1>8

LEMMA PortFacts ==
  /\ TargetPort \in Seq(Nat) /\ Len(TargetPort) = 2
  /\ SubSeq(TargetPort, 1, 2) = TargetPort
  /\ Unread(TargetPort, 2) = <<>>
<1>1. TargetPort \in Seq(Nat) /\ Len(TargetPort) = 2 /\ TargetPort[1] = 0 /\ TargetPort[2] = 80
  BY DEF TargetPort
<1>2. SubSeq(TargetPort, 1, 2) \in Seq(Nat) /\ Len(SubSeq(TargetPort, 1, 2)) = 2
      /\ \A i \in 1..2 : SubSeq(TargetPort, 1, 2)[i] = TargetPort[i]
  <2>1. \A i \in 1..2 : TargetPort[i] \in Nat
    BY <1>1
  <2>2. QED BY <2>1, SubSeqProperties
<1>3. SubSeq(TargetPort, 1, 2) = TargetPort
  BY <1>1, <1>2, SeqEqual
<1>4. 2 \in 0..Len(TargetPort) /\ 2 = Len(TargetPort)
  BY <1>1
<1>5. Unread(TargetPort, 2) = <<>>
  BY <1>1, <1>4, UnreadIs
<1>6. QED BY <1>1, <1>3, <1>5

LEMMA NamePartFacts ==
  /\ NamePart \in Seq(Nat) /\ Len(NamePart) = 4 /\ NamePart[1] = 1
  /\ SubSeq(NamePart, 2, 2) = <<Target>>
  /\ Unread(NamePart, 2) = TargetPort
<1>1. SubSeq(NamePart, 2, 2) = <<Target>>
  <2>1. /\ SubSeq(NamePart, 2, 2) \in Seq(Nat) /\ Len(SubSeq(NamePart, 2, 2)) = 1
        /\ SubSeq(NamePart, 2, 2)[1] = Target
    <3>1. \A i \in 2..2 : NamePart[i] \in Nat
      BY NamePartIs
    <3>2. /\ SubSeq(NamePart, 2, 2) \in Seq(Nat)
          /\ Len(SubSeq(NamePart, 2, 2)) = (IF 2 <= 2 THEN 2 - 2 + 1 ELSE 0)
          /\ \A i \in 1..(2 - 2 + 1) : SubSeq(NamePart, 2, 2)[i] = NamePart[2 + i - 1]
      BY <3>1, SubSeqProperties
    <3>3. QED BY <3>2, NamePartIs
  <2>2. <<Target>> \in Seq(Nat) /\ Len(<<Target>>) = 1 /\ <<Target>>[1] = Target
    BY DEF Target
  <2>3. \A i \in 1..1 : SubSeq(NamePart, 2, 2)[i] = <<Target>>[i]
    BY <2>1, <2>2
  <2>4. QED BY <2>1, <2>2, <2>3, SeqEqual
<1>2. Unread(NamePart, 2) = TargetPort
  <2>1. Unread(NamePart, 2) \in Seq(Nat) /\ Len(Unread(NamePart, 2)) = 2 /\ \A i \in 1..2 : Unread(NamePart, 2)[i] = NamePart[2 + i]
    <3>1. 2 \in 0..Len(NamePart) /\ 4 - 2 = 2
      BY NamePartIs
    <3>2. /\ Unread(NamePart, 2) \in Seq(Nat) /\ Len(Unread(NamePart, 2)) = Len(NamePart) - 2
          /\ \A i \in 1..Len(NamePart) - 2 : Unread(NamePart, 2)[i] = NamePart[2 + i]
      BY <3>1, NamePartIs, UnreadIs
    <3>3. QED BY <3>1, <3>2, NamePartIs
  <2>2. TargetPort \in Seq(Nat) /\ Len(TargetPort) = 2 /\ TargetPort[1] = 0 /\ TargetPort[2] = 80
    BY DEF TargetPort
  <2>3. \A i \in 1..2 : Unread(NamePart, 2)[i] = TargetPort[i]
    <3>1. 2 + 1 = 3 /\ 2 + 2 = 4 /\ 1 \in 1..2 /\ 2 \in 1..2 /\ \A i \in 1..2 : i = 1 \/ i = 2
      OBVIOUS
    <3>2. Unread(NamePart, 2)[1] = NamePart[3] /\ Unread(NamePart, 2)[2] = NamePart[4]
      BY <2>1, <3>1, Zenon
    <3>3. QED BY <2>2, <3>1, <3>2, NamePartIs, Zenon
  <2>4. QED
    <3>1. Unread(NamePart, 2) \in Seq(Nat) /\ TargetPort \in Seq(Nat) /\ Len(Unread(NamePart, 2)) = Len(TargetPort)
      BY <2>1, <2>2, <2>3, Zenon
    <3>2. \A i \in 1..Len(Unread(NamePart, 2)) : Unread(NamePart, 2)[i] = TargetPort[i]
      BY <2>1, <2>2, <2>3, Zenon
    <3>3. QED BY <3>1, <3>2, SameSeq, Zenon
<1>3. QED BY <1>1, <1>2, NamePartIs

LEMMA ChoiceFacts ==
  /\ Choice \in Seq(Nat) /\ Len(Choice) = 7 /\ Choice[1] = 5 /\ Choice[2] = 0
  /\ SubSeq(Choice, 3, 7) = CtcpPort
<1>1. /\ Choice \in Seq(Nat) /\ Len(Choice) = 7 /\ Choice[1] = 5 /\ Choice[2] = 0
      /\ Choice[3] = 49 /\ Choice[4] = 50 /\ Choice[5] = 51 /\ Choice[6] = 52 /\ Choice[7] = 53
  BY DEF Choice, CtcpPort
<1>2. /\ CtcpPort \in Seq(Nat) /\ Len(CtcpPort) = 5 /\ CtcpPort[1] = 49 /\ CtcpPort[2] = 50
      /\ CtcpPort[3] = 51 /\ CtcpPort[4] = 52 /\ CtcpPort[5] = 53
  BY DEF CtcpPort
<1> DEFINE p == SubSeq(Choice, 3, 7)
<1>3. p \in Seq(Nat) /\ Len(p) = 5 /\ \A i \in 1..5 : p[i] = Choice[3 + i - 1]
  <2>1. \A i \in 3..7 : Choice[i] \in Nat
    <3>1. \A i \in 3..7 : i \in 1..Len(Choice)
      BY <1>1
    <3>2. QED BY <1>1, <3>1, ElementOfSeq
  <2>2. /\ p \in Seq(Nat) /\ Len(p) = (IF 3 <= 7 THEN 7 - 3 + 1 ELSE 0)
        /\ \A i \in 1..(7 - 3 + 1) : p[i] = Choice[3 + i - 1]
    BY <2>1, SubSeqProperties
  <2>3. QED BY <2>2
<1> HIDE DEF p
<1>4. p[1] = Choice[3] /\ p[2] = Choice[4] /\ p[3] = Choice[5] /\ p[4] = Choice[6] /\ p[5] = Choice[7]
  <2>1. /\ 3 + 1 - 1 = 3 /\ 3 + 2 - 1 = 4 /\ 3 + 3 - 1 = 5 /\ 3 + 4 - 1 = 6 /\ 3 + 5 - 1 = 7
        /\ 1 \in 1..5 /\ 2 \in 1..5 /\ 3 \in 1..5 /\ 4 \in 1..5 /\ 5 \in 1..5
    OBVIOUS
  <2>2. QED BY <1>3, <2>1
<1>5. \A i \in 1..5 : p[i] = CtcpPort[i]
  <2>1. \A i \in 1..5 : i = 1 \/ i = 2 \/ i = 3 \/ i = 4 \/ i = 5
    OBVIOUS
  <2>2. /\ p[1] = CtcpPort[1] /\ p[2] = CtcpPort[2] /\ p[3] = CtcpPort[3]
        /\ p[4] = CtcpPort[4] /\ p[5] = CtcpPort[5]
    BY <1>1, <1>2, <1>4, Zenon
  <2>3. QED BY <2>1, <2>2, Zenon
<1>6. p = CtcpPort
  <2>1. p \in Seq(Nat) /\ CtcpPort \in Seq(Nat) /\ Len(p) = Len(CtcpPort)
    BY <1>2, <1>3, <1>5, Zenon
  <2>2. \A i \in 1..Len(p) : p[i] = CtcpPort[i]
    BY <1>2, <1>3, <1>5, Zenon
  <2>3. QED BY <2>1, <2>2, SameSeq, Zenon
<1>7. QED BY <1>1, <1>6 DEF p

LEMMA FirstStatusIs ==
 /\ FirstStatus["SOCKS5"] = "S5_SENDMET" /\ FirstStatus["SOCKS4"] = "S4_SENDREQ"
 /\ FirstStatus["HTTPCONNECT"] = "HC_SENDREQ" /\ FirstStatus["HTTP"] = "400"
BY DEF FirstStatus

LEMMA ReadingIs ==
  /\ Reading["version"] = 2 /\ Reading["methods"] = srv.n /\ Reading["request"] = 4
  /\ Reading["port"] = 2
BY DEF Reading

LEMMA ReplyFacts ==
  /\ \A c \in Nat : Reply(c) \in Seq(Nat) /\ Len(Reply(c)) = 4 /\ Reply(c)[2] = c
  /\ FullReply \in Seq(Nat) /\ Len(FullReply) = 10 /\ FullReply[2] = 0
BY DEF Reply, FullReply, TargetPort

-----------------------------------------------------------------------------
(* What has been joined is found again.                                    *)
LEMMA PartOf ==
  ASSUME NEW s \in Seq(Nat), NEW b \in Seq(Nat), NEW m \in Nat, NEW n \in Nat, n = Len(b), m + n <= Len(s),
         \A i \in 1..n : s[m + i] = b[i]
  PROVE  SubSeq(s, m + 1, m + n) = b
<1>1. Len(s) \in Nat
  OBVIOUS
<1>2. \A i \in (m + 1)..(m + n) : s[i] \in Nat
  BY <1>1
<1> DEFINE lo == m + 1
           hi == m + n
<1>3. /\ SubSeq(s, lo, hi) \in Seq(Nat)
      /\ Len(SubSeq(s, lo, hi)) = (IF lo <= hi THEN hi - lo + 1 ELSE 0)
      /\ \A i \in 1..(hi - lo + 1) : SubSeq(s, lo, hi)[i] = s[lo + i - 1]
  <2>1. lo \in Int /\ hi \in Int /\ \A i \in lo..hi : s[i] \in Nat
    BY <1>2
  <2> HIDE DEF lo, hi
  <2>2. QED BY <2>1, SubSeqProperties
<1>4. Len(SubSeq(s, m + 1, m + n)) = n
  BY <1>3
<1>5. \A i \in 1..n : i \in 1..(hi - lo + 1) /\ lo + i - 1 = m + i
  OBVIOUS
<1>6. \A i \in 1..n : SubSeq(s, m + 1, m + n)[i] = b[i]
  BY <1>3, <1>5
<1>7. QED BY <1>3, <1>4, <1>6, SeqEqual

LEMMA MiddleOf ==
  ASSUME NEW a \in Seq(Nat), NEW b \in Seq(Nat), NEW c \in Seq(Nat)
  PROVE  /\ (a \o b) \o c \in Seq(Nat) /\ Len((a \o b) \o c) = Len(a) + Len(b) + Len(c)
         /\ \A i \in 1..Len(a) : ((a \o b) \o c)[i] = a[i]
         /\ \A i \in 1..Len(b) : ((a \o b) \o c)[Len(a) + i] = b[i]
         /\ SubSeq((a \o b) \o c, Len(a) + 1, Len(a) + Len(b)) = b
         /\ \A i \in 1..Len(c) : ((a \o b) \o c)[(Len(a) + Len(b)) + i] = c[i]
<1> DEFINE k == Len(a)
           m == Len(b)
           n == Len(c)
<1>0. k \in Nat /\ m \in Nat /\ n \in Nat /\ k = Len(a) /\ m = Len(b) /\ n = Len(c)
  OBVIOUS
<1> HIDE DEF k, m, n
<1> DEFINE d == a \o b
<1>1. /\ d \in Seq(Nat) /\ Len(d) = k + m /\ \A i \in 1..k : d[i] = a[i]
      /\ \A i \in 1..m : d[k + i] = b[i]
  BY <1>0, JoinIs
<1> HIDE DEF d
<1> DEFINE l == k + m
<1>2. l \in Nat /\ l = Len(d)
  BY <1>0, <1>1
<1>3. /\ d \o c \in Seq(Nat) /\ Len(d \o c) = l + n
      /\ \A i \in 1..l : (d \o c)[i] = d[i]
      /\ \A i \in 1..n : (d \o c)[l + i] = c[i]
  <2> HIDE DEF l
  <2>1. d \in Seq(Nat) /\ c \in Seq(Nat) /\ l \in Nat /\ n \in Nat /\ l = Len(d) /\ n = Len(c)
    BY <1>0, <1>1, <1>2
  <2>2. QED BY <2>1, JoinIs
<1>4. \A i \in 1..k : i \in 1..l
  BY <1>0
<1>5. \A i \in 1..m : k + i \in 1..l
  BY <1>0
<1>6. \A i \in 1..m : (d \o c)[k + i] = b[i]
  BY <1>1, <1>3, <1>5
<1>7. SubSeq(d \o c, k + 1, k + m) = b
  <2>1. k + m <= Len(d \o c)
    BY <1>0, <1>3
  <2>2. QED BY <1>0, <1>3, <1>6, <2>1, PartOf
<1>8. QED BY <1>0, <1>1, <1>3, <1>4, <1>6, <1>7 DEF d

(* Four numbers below 64 hold three bytes.                                 *)
InFour(a, b, c) ==
  /\ a \div 4 \in 0..63 /\ (a % 4) * 16 + b \div 16 \in 0..63
  /\ (b % 16) * 4 + c \div 64 \in 0..63 /\ (c % 64) \in 0..63
  /\ (a \div 4) * 4 + ((a % 4) * 16 + b \div 16) \div 16 = a
  /\ (((a % 4) * 16 + b \div 16) % 16) * 16 + ((b % 16) * 4 + c \div 64) \div 4 = b
  /\ (((b % 16) * 4 + c \div 64) % 4) * 64 + (c % 64) = c

(* Three bytes come back out of four sextets.                              *)
LEMMA FourOfThree ==
  ASSUME NEW a \in 0..255, NEW b \in 0..255, NEW c \in 0..255
  PROVE  InFour(a, b, c)
<1>1. PICK p \in 0..63, q \in 0..3 : a = 4 * p + q /\ a \div 4 = p /\ a % 4 = q
  <2>1. a = 4 * (a \div 4) + (a % 4) /\ a \div 4 \in 0..63 /\ a % 4 \in 0..3
    OBVIOUS
  <2>2. QED BY <2>1
<1>2. PICK r \in 0..15, t \in 0..15 : b = 16 * r + t /\ b \div 16 = r /\ b % 16 = t
  <2>1. b = 16 * (b \div 16) + (b % 16) /\ b \div 16 \in 0..15 /\ b % 16 \in 0..15
    OBVIOUS
  <2>2. QED BY <2>1
<1>3. PICK u \in 0..3, v \in 0..63 : c = 64 * u + v /\ c \div 64 = u /\ c % 64 = v
  <2>1. c = 64 * (c \div 64) + (c % 64) /\ c \div 64 \in 0..3 /\ c % 64 \in 0..63
    OBVIOUS
  <2>2. QED BY <2>1
<1>4. (q * 16 + r) \div 16 = q /\ (q * 16 + r) % 16 = r /\ q * 16 + r \in 0..63
  OBVIOUS
<1>5. (t * 4 + u) \div 4 = t /\ (t * 4 + u) % 4 = u /\ t * 4 + u \in 0..63
  OBVIOUS
<1>6. QED BY <1>1, <1>2, <1>3, <1>4, <1>5 DEF InFour

ByteSeq == Seq(0..255)

(* The bytes of one group, and how many of them there are.                 *)
LEMMA GroupFacts ==
  ASSUME NEW s \in ByteSeq
  PROVE  /\ Len(s) \in Nat /\ Groups(s) \in Nat
         /\ Len(s) <= 3 * Groups(s) /\ 3 * Groups(s) <= Len(s) + 2
         /\ \A i \in Int : i >= 1 => Byte(s, i) \in 0..255
<1>0. s \in Seq(0..255)
  BY DEF ByteSeq
<1>1. Len(s) \in Nat /\ \A i \in 1..Len(s) : s[i] \in 0..255
  <2>1. ASSUME NEW S, NEW t \in Seq(S) PROVE Len(t) \in Nat /\ \A i \in 1..Len(t) : t[i] \in S
    BY <2>1
  <2>2. QED BY <1>0, <2>1, Zenon
<1>2. Groups(s) \in Nat /\ Len(s) <= 3 * Groups(s) /\ 3 * Groups(s) <= Len(s) + 2
  BY <1>1 DEF Groups
<1>3. QED BY <1>1, <1>2 DEF Byte

(* The four numbers of group g.                                            *)
LEMMA SextetFacts ==
  ASSUME NEW s \in ByteSeq, NEW g \in Nat
  PROVE  LET a == Byte(s, 3 * g + 1)
             b == Byte(s, 3 * g + 2)
             c == Byte(s, 3 * g + 3) IN
         /\ Sextet(s, 4 * g + 1) = a \div 4
         /\ Sextet(s, 4 * g + 2) = (a % 4) * 16 + b \div 16
         /\ Sextet(s, 4 * g + 3) = (b % 16) * 4 + c \div 64
         /\ Sextet(s, 4 * g + 4) = c % 64
<1>1. /\ ((4 * g + 1) - 1) \div 4 = g /\ ((4 * g + 2) - 1) \div 4 = g
      /\ ((4 * g + 3) - 1) \div 4 = g /\ ((4 * g + 4) - 1) \div 4 = g
  OBVIOUS
<1>2. (4 * g + 1) % 4 = 1 /\ (4 * g + 2) % 4 = 2 /\ (4 * g + 3) % 4 = 3 /\ (4 * g + 4) % 4 = 0
  OBVIOUS
<1>3. QED BY <1>1, <1>2 DEF Sextet

LEMMA SextetRange ==
  ASSUME NEW s \in ByteSeq, NEW k \in 1..4 * Groups(s)
  PROVE  Sextet(s, k) \in 0..63
<1> DEFINE g == (k - 1) \div 4
<1>0. Groups(s) \in Nat
  BY GroupFacts
<1>1. g \in Nat /\ (k = 4 * g + 1 \/ k = 4 * g + 2 \/ k = 4 * g + 3 \/ k = 4 * g + 4)
  BY <1>0
<1> HIDE DEF g
<1> DEFINE a == Byte(s, 3 * g + 1)
           b == Byte(s, 3 * g + 2)
           c == Byte(s, 3 * g + 3)
<1>a. /\ 3 * g + 1 \in Int /\ 3 * g + 1 >= 1 /\ 3 * g + 2 \in Int /\ 3 * g + 2 >= 1
      /\ 3 * g + 3 \in Int /\ 3 * g + 3 >= 1
  BY <1>1
<1>2. a \in 0..255 /\ b \in 0..255 /\ c \in 0..255
  BY <1>a, GroupFacts
<1>b. /\ Sextet(s, 4 * g + 1) = a \div 4 /\ Sextet(s, 4 * g + 2) = (a % 4) * 16 + b \div 16
      /\ Sextet(s, 4 * g + 3) = (b % 16) * 4 + c \div 64 /\ Sextet(s, 4 * g + 4) = c % 64
  BY <1>1, SextetFacts
<1> HIDE DEF a, b, c
<1>c. InFour(a, b, c)
  BY <1>2, FourOfThree
<1>d. Sextet(s, k) \in 0..63
  BY <1>1, <1>b, <1>c DEF InFour
<1>4. QED BY <1>d

(* proxy_encode_base64 loses nothing: a proxy that decodes the credentials *)
(* reads the bytes that were encoded, whatever their number.               *)
LEMMA Base64RoundTrip ==
  ASSUME NEW s \in ByteSeq
  PROVE  decode_base64(proxy_encode_base64(s)) = s
<1> DEFINE G == Groups(s)
           L == Len(s)
           e == proxy_encode_base64(s)
<1>1. L \in Nat /\ G \in Nat /\ L <= 3 * G /\ 3 * G <= L + 2
  BY GroupFacts
<1>2. e = [k \in 1..4 * G |-> IF Padded(s, k) THEN 64 ELSE Sextet(s, k)]
  BY DEF proxy_encode_base64
<1>3. \A k \in Int : Padded(s, k) <=> (k = 4 * G /\ 3 * G >= L + 1) \/ (k = 4 * G - 1 /\ 3 * G >= L + 2)
  BY DEF Padded
<1> HIDE DEF G, L, e
<1>4. Len(e) = 4 * G /\ \A k \in 1..4 * G : e[k] = IF Padded(s, k) THEN 64 ELSE Sextet(s, k)
  BY <1>1, <1>2
<1>5. ASSUME NEW g \in 0..G - 1
      PROVE  LET a == Byte(s, 3 * g + 1)
                 b == Byte(s, 3 * g + 2)
                 c == Byte(s, 3 * g + 3) IN
             /\ a \in 0..255 /\ b \in 0..255 /\ c \in 0..255
             /\ e[4 * g + 1] = a \div 4
             /\ e[4 * g + 2] = (a % 4) * 16 + b \div 16
             /\ 3 * g + 2 <= L => e[4 * g + 3] = (b % 16) * 4 + c \div 64
             /\ 3 * g + 3 <= L => e[4 * g + 4] = c % 64
  <2>1. g \in Nat /\ 4 * g + 1 \in 1..4 * G /\ 4 * g + 2 \in 1..4 * G /\ 4 * g + 3 \in 1..4 * G /\ 4 * g + 4 \in 1..4 * G
    BY <1>1
  <2>2. ~Padded(s, 4 * g + 1) /\ ~Padded(s, 4 * g + 2)
    BY <1>1, <1>3, <2>1
  <2>3. 3 * g + 2 <= L => ~Padded(s, 4 * g + 3)
    BY <1>1, <1>3, <2>1
  <2>4. 3 * g + 3 <= L => ~Padded(s, 4 * g + 4)
    BY <1>1, <1>3, <2>1
  <2>a. /\ 3 * g + 1 \in Int /\ 3 * g + 1 >= 1 /\ 3 * g + 2 \in Int /\ 3 * g + 2 >= 1
        /\ 3 * g + 3 \in Int /\ 3 * g + 3 >= 1
    BY <2>1
  <2>5. Byte(s, 3 * g + 1) \in 0..255 /\ Byte(s, 3 * g + 2) \in 0..255 /\ Byte(s, 3 * g + 3) \in 0..255
    BY <2>a, GroupFacts
  <2>6. QED BY <1>4, <2>1, <2>2, <2>3, <2>4, <2>5, SextetFacts
<1>6. \A k \in 1..4 * G : e[k] = 64 <=> Padded(s, k)
  <2> SUFFICES ASSUME NEW k \in 1..4 * G, ~Padded(s, k) PROVE Sextet(s, k) # 64
    BY <1>4
  <2>1. Sextet(s, k) \in 0..63
    BY SextetRange DEF G
  <2>2. QED BY <2>1
<1> DEFINE value(k) == IF k > Len(e) \/ e[k] = 64 THEN 0 ELSE e[k]
           size == 3 * (Len(e) \div 4) - (IF e = <<>> THEN 0 ELSE
                IF e[Len(e) - 1] = 64 THEN 2 ELSE IF e[Len(e)] = 64 THEN 1 ELSE 0)
<1>7. size = L
  <2>1. Len(e) \div 4 = G
    BY <1>1, <1>4
  <2>2. CASE G = 0
    <3>1. e = <<>>
      BY <1>2, <2>2
    <3>2. QED BY <1>1, <2>1, <2>2, <3>1
  <2>3. CASE G > 0
    <3>1. e # <<>> /\ 4 * G - 1 \in 1..4 * G /\ 4 * G \in 1..4 * G
      BY <1>1, <1>4, <2>3
    <3>2. e[4 * G - 1] = 64 <=> 3 * G >= L + 2
      BY <1>1, <1>3, <1>6, <3>1
    <3>3. e[4 * G] = 64 <=> 3 * G >= L + 1
      BY <1>1, <1>3, <1>6, <3>1
    <3>4. size = 3 * G - (IF 3 * G >= L + 2 THEN 2 ELSE IF 3 * G >= L + 1 THEN 1 ELSE 0)
      BY <1>4, <2>1, <3>1, <3>2, <3>3
    <3> HIDE DEF size
    <3>5. QED BY <1>1, <3>4
  <2>4. QED BY <1>1, <2>2, <2>3
<1> HIDE DEF size, value
<1>8. decode_base64(e) = [i \in 1..size |->
     CASE i % 3 = 1 -> value(4 * ((i - 1) \div 3) + 1) * 4 + value(4 * ((i - 1) \div 3) + 2) \div 16
       [] i % 3 = 2 -> (value(4 * ((i - 1) \div 3) + 2) % 16) * 16 + value(4 * ((i - 1) \div 3) + 3) \div 4
       [] i % 3 = 0 -> (value(4 * ((i - 1) \div 3) + 3) % 4) * 64 + value(4 * ((i - 1) \div 3) + 4)]
  BY DEF decode_base64, size, value
<1>9. ASSUME NEW i \in 1..L PROVE decode_base64(e)[i] = s[i]
  <2> DEFINE g == (i - 1) \div 3
  <2>1. g \in 0..G - 1 /\ g \in Nat /\ (i = 3 * g + 1 \/ i = 3 * g + 2 \/ i = 3 * g + 3)
    BY <1>1
  <2>2. (i = 3 * g + 1 => i % 3 = 1) /\ (i = 3 * g + 2 => i % 3 = 2) /\ (i = 3 * g + 3 => i % 3 = 0)
    BY <2>1
  <2>3. decode_base64(e)[i] =
     CASE i % 3 = 1 -> value(4 * g + 1) * 4 + value(4 * g + 2) \div 16
       [] i % 3 = 2 -> (value(4 * g + 2) % 16) * 16 + value(4 * g + 3) \div 4
       [] i % 3 = 0 -> (value(4 * g + 3) % 4) * 64 + value(4 * g + 4)
    BY <1>7, <1>8
  <2> HIDE DEF g
  <2> DEFINE a == Byte(s, 3 * g + 1)
             b == Byte(s, 3 * g + 2)
             c == Byte(s, 3 * g + 3)
  <2>4. /\ a \in 0..255 /\ b \in 0..255 /\ c \in 0..255
        /\ e[4 * g + 1] = a \div 4 /\ e[4 * g + 2] = (a % 4) * 16 + b \div 16
        /\ 3 * g + 2 <= L => e[4 * g + 3] = (b % 16) * 4 + c \div 64
        /\ 3 * g + 3 <= L => e[4 * g + 4] = c % 64
    BY <1>5, <2>1
  <2>5. Byte(s, i) = s[i]
    BY <1>9 DEF Byte, L
  <2> HIDE DEF a, b, c
  <2>d. a \in 0..255 /\ b \in 0..255 /\ c \in 0..255
    BY <2>4
  <2>x. InFour(a, b, c)
    BY <2>d, FourOfThree
  <2>6. /\ a \div 4 \in 0..63 /\ (a % 4) * 16 + b \div 16 \in 0..63
        /\ (b % 16) * 4 + c \div 64 \in 0..63 /\ (c % 64) \in 0..63
        /\ (a \div 4) * 4 + ((a % 4) * 16 + b \div 16) \div 16 = a
        /\ (((a % 4) * 16 + b \div 16) % 16) * 16 + ((b % 16) * 4 + c \div 64) \div 4 = b
        /\ (((b % 16) * 4 + c \div 64) % 4) * 64 + (c % 64) = c
    BY <2>x DEF InFour
  <2>7. 4 * g + 1 <= Len(e) /\ 4 * g + 2 <= Len(e) /\ 4 * g + 3 <= Len(e) /\ 4 * g + 4 <= Len(e)
    BY <1>1, <1>4, <2>1
  <2>8. /\ value(4 * g + 1) = a \div 4 /\ value(4 * g + 2) = (a % 4) * 16 + b \div 16
        /\ 3 * g + 2 <= L => value(4 * g + 3) = (b % 16) * 4 + c \div 64
        /\ 3 * g + 3 <= L => value(4 * g + 4) = c % 64
    <3>1. ASSUME NEW k \in Nat, k <= Len(e), e[k] \in 0..63 PROVE value(k) = e[k]
      <4>1. Len(e) \in Nat
        BY <1>1, <1>4
      <4>2. ~(k > Len(e))
        BY <3>1, <4>1
      <4>x. e[k] # 64
        <5>1. \A x \in 0..63 : x # 64
          OBVIOUS
        <5>2. QED BY <3>1, <5>1, Zenon
      <4>3. QED BY <4>2, <4>x DEF value
    <3>2. 4 * g + 1 \in Nat /\ 4 * g + 2 \in Nat /\ 4 * g + 3 \in Nat /\ 4 * g + 4 \in Nat
      BY <2>1
    <3>3. value(4 * g + 1) = a \div 4
      <4>1. e[4 * g + 1] \in 0..63
        <5>1. e[4 * g + 1] = a \div 4
          BY <2>4
        <5>2. a \div 4 \in 0..63
          BY <2>6
        <5>3. QED BY <5>1, <5>2, Zenon
      <4>2. QED BY <2>4, <2>7, <3>1, <3>2, <4>1, Zenon
    <3>4. value(4 * g + 2) = (a % 4) * 16 + b \div 16
      <4>1. e[4 * g + 2] \in 0..63
        <5>1. e[4 * g + 2] = (a % 4) * 16 + b \div 16
          BY <2>4
        <5>2. (a % 4) * 16 + b \div 16 \in 0..63
          BY <2>6
        <5>3. QED BY <5>1, <5>2, Zenon
      <4>2. QED BY <2>4, <2>7, <3>1, <3>2, <4>1, Zenon
    <3>5. 3 * g + 2 <= L => value(4 * g + 3) = (b % 16) * 4 + c \div 64
      <4>1. 3 * g + 2 <= L => e[4 * g + 3] \in 0..63
        BY <2>4, <2>6, Zenon
      <4>2. QED BY <2>4, <2>7, <3>1, <3>2, <4>1, Zenon
    <3>6. 3 * g + 3 <= L => value(4 * g + 4) = c % 64
      <4>1. 3 * g + 3 <= L => e[4 * g + 4] \in 0..63
        BY <2>4, <2>6, Zenon
      <4>2. QED BY <2>4, <2>7, <3>1, <3>2, <4>1, Zenon
    <3>7. QED BY <3>3, <3>4, <3>5, <3>6
  <2>9. CASE i = 3 * g + 1
    <3>1. decode_base64(e)[i] = a
      BY <2>2, <2>3, <2>6, <2>8, <2>9
    <3>2. QED BY <2>5, <2>9, <3>1 DEF a
  <2>10. CASE i = 3 * g + 2
    <3>1. decode_base64(e)[i] = b
      BY <2>2, <2>3, <2>6, <2>8, <2>10, <1>9
    <3>2. QED BY <2>5, <2>10, <3>1 DEF b
  <2>11. CASE i = 3 * g + 3
    <3>a. 3 * g + 2 <= L /\ 3 * g + 3 <= L
      BY <1>1, <1>9, <2>1, <2>11
    <3>b. decode_base64(e)[i] = (value(4 * g + 3) % 4) * 64 + value(4 * g + 4)
      BY <2>2, <2>3, <2>11
    <3>c. value(4 * g + 3) = (b % 16) * 4 + c \div 64 /\ value(4 * g + 4) = c % 64
      BY <2>8, <3>a
    <3>1. decode_base64(e)[i] = c
      BY <2>6, <3>b, <3>c
    <3>2. QED BY <2>5, <2>11, <3>1 DEF c
  <2>12. QED BY <2>1, <2>9, <2>10, <2>11
<1>10. DOMAIN decode_base64(e) = 1..L /\ decode_base64(e) = [i \in 1..L |-> decode_base64(e)[i]]
  BY <1>7, <1>8
<1>11. s = [i \in 1..L |-> s[i]]
  BY DEF ByteSeq, L
<1>12. QED BY <1>9, <1>10, <1>11 DEF e

LEMMA EncodedIs ==
  ASSUME NEW s \in ByteSeq
  PROVE  proxy_encode_base64(s) \in Seq(Nat)
<1>1. Groups(s) \in Nat /\ 4 * Groups(s) \in Nat
  BY GroupFacts
<1>2. \A k \in 1..4 * Groups(s) : (IF Padded(s, k) THEN 64 ELSE Sextet(s, k)) \in Nat
  BY SextetRange
<1> DEFINE n == 4 * Groups(s)
           f(k) == IF Padded(s, k) THEN 64 ELSE Sextet(s, k)
<1>3. proxy_encode_base64(s) = [k \in 1..n |-> f(k)]
  BY DEF proxy_encode_base64
<1>4. n \in Nat /\ \A k \in 1..n : f(k) \in Nat
  BY <1>1, <1>2
<1> HIDE DEF n, f
<1>5. QED BY <1>3, <1>4

(* Credentials are sequences of bytes.                                     *)
LEMMA CredIs ==
  ASSUME NEW c \in Creds
  PROVE  /\ c.user \in Seq(Nat) /\ c.pwd \in Seq(Nat) /\ Len(c.user) \in Nat /\ Len(c.pwd) \in Nat
         /\ UserPwd(c) \in ByteSeq /\ UserPwd(c) \in Seq(Nat)
<1> DEFINE A == 1..127
           B == 0..255
<1>1. c.user \in Seq(A) /\ c.pwd \in Seq(A)
  BY UpProxyAssumption
<1>2. A \subseteq B /\ A \subseteq Nat /\ B \subseteq Nat /\ 58 \in B
  OBVIOUS
<1>3. UserPwd(c) = c.user \o <<58>> \o c.pwd
  BY DEF UserPwd
<1>b. ByteSeq = Seq(B)
  BY DEF ByteSeq
<1> HIDE DEF A, B
<1>4. c.user \in Seq(B) /\ c.pwd \in Seq(B) /\ c.user \in Seq(Nat) /\ c.pwd \in Seq(Nat)
  BY <1>1, <1>2, SeqMonotonic
<1>5. ASSUME NEW S, NEW u \in Seq(S), NEW p \in Seq(S), NEW x \in S PROVE u \o <<x>> \o p \in Seq(S)
  BY <1>5
<1>6. UserPwd(c) \in Seq(B)
  BY <1>2, <1>3, <1>4, <1>5
<1>7. UserPwd(c) \in Seq(Nat)
  BY <1>2, <1>6, SeqMonotonic
<1>8. ASSUME NEW s \in Seq(Nat) PROVE Len(s) \in Nat
  BY <1>8
<1>9. QED BY <1>4, <1>6, <1>7, <1>8, <1>b

(* A proxy finds the credentials in the message of SOCKS5.                 *)
LEMMA AuthMessageFacts ==
  ASSUME NEW c \in Creds
  PROVE  /\ AuthMessage(c) \in Seq(Nat) /\ Len(AuthMessage(c)) >= 3 /\ AuthMessage(c)[1] = 1
         /\ UserGiven(AuthMessage(c)) = c.user /\ PwdGiven(AuthMessage(c)) = c.pwd
<1> DEFINE u == c.user
           p == c.pwd
           k == Len(u)
           n == Len(p)
           a == <<1, k>>
           x == <<n>>
           m == AuthMessage(c)
           two == 2
           one == 1
<1>1. u \in Seq(Nat) /\ p \in Seq(Nat) /\ k \in Nat /\ n \in Nat
  BY CredIs
<1>2. a \in Seq(Nat) /\ Len(a) = 2 /\ a[1] = 1 /\ a[2] = k
  BY <1>1
<1>3. x \in Seq(Nat) /\ Len(x) = 1 /\ x[1] = n
  BY <1>1
<1> DEFINE d == (a \o u) \o x
<1>4. m = d \o p
  BY DEF AuthMessage
<1>k. k = Len(u) /\ n = Len(p)
  OBVIOUS
<1>t. 2 = two /\ 1 = one /\ two \in Nat /\ one \in Nat /\ two = Len(a) /\ one = Len(x)
  BY <1>2, <1>3
<1> HIDE DEF u, p, k, n, a, x, m, two, one
<1>5. /\ d \in Seq(Nat) /\ Len(d) = two + k + one /\ \A i \in 1..two : d[i] = a[i]
      /\ \A i \in 1..k : d[two + i] = u[i]
      /\ \A i \in 1..one : d[(two + k) + i] = x[i]
  <2>1. a \in Seq(Nat) /\ u \in Seq(Nat) /\ x \in Seq(Nat) /\ k \in Nat /\ k = Len(u)
    BY <1>1, <1>2, <1>3, <1>k
  <2>2. /\ d \in Seq(Nat) /\ Len(d) = Len(a) + Len(u) + Len(x) /\ \A i \in 1..Len(a) : d[i] = a[i]
        /\ \A i \in 1..Len(u) : d[Len(a) + i] = u[i]
        /\ \A i \in 1..Len(x) : d[(Len(a) + Len(u)) + i] = x[i]
    BY <2>1, MiddleOf
  <2>3. QED BY <1>t, <2>1, <2>2
<1>l. Len(d) = two + k + one
  BY <1>5
<1> HIDE DEF d
<1> DEFINE l == 3 + k
<1>6. l \in Nat /\ l = Len(d)
  <2>1. k \in Nat /\ two = 2 /\ one = 1
    BY <1>1, <1>t
  <2>2. QED BY ONLY <1>l, <2>1
<1>7. /\ m \in Seq(Nat) /\ Len(m) = l + n /\ \A i \in 1..l : m[i] = d[i]
      /\ \A i \in 1..n : m[l + i] = p[i]
  <2> HIDE DEF l
  <2>1. d \in Seq(Nat) /\ p \in Seq(Nat) /\ l \in Nat /\ n \in Nat /\ l = Len(d) /\ n = Len(p)
    BY <1>1, <1>5, <1>6, <1>k
  <2>2. /\ d \o p \in Seq(Nat) /\ Len(d \o p) = l + n /\ \A i \in 1..l : (d \o p)[i] = d[i]
        /\ \A i \in 1..n : (d \o p)[l + i] = p[i]
    BY <2>1, JoinIs
  <2>3. QED BY <1>4, <2>2
<1>8. m[1] = 1 /\ m[2] = k /\ m[3 + k] = n
  <2>1. 1 \in 1..l /\ 2 \in 1..l /\ 3 + k \in 1..l /\ (two + k) + one = 3 + k
    <3>1. k \in Nat /\ two = 2 /\ one = 1
      BY <1>1, <1>t
    <3>2. QED BY ONLY <3>1
  <2>2. d[1] = 1 /\ d[2] = k
    BY <1>2, <1>5, <1>t
  <2>3. d[(two + k) + one] = n
    BY <1>3, <1>5, <1>t
  <2>4. QED BY <1>7, <2>1, <2>2, <2>3
<1>9. SubSeq(m, 3, 2 + k) = u
  <2>1. \A i \in 1..k : m[2 + i] = u[i]
    <3>1. \A i \in 1..k : d[2 + i] = u[i]
      BY <1>5, <1>t
    <3>2. \A i \in 1..k : 2 + i \in 1..l
      <4>1. k \in Nat
        BY <1>1
      <4>2. QED BY ONLY <4>1
    <3>3. QED BY <1>7, <3>1, <3>2, Zenon
  <2>2. 2 + k <= Len(m) /\ 2 \in Nat
    <3>1. k \in Nat /\ n \in Nat
      BY <1>1
    <3>2. Len(m) = 3 + k + n
      BY <1>7
    <3>3. QED BY ONLY <3>1, <3>2
  <2>3. SubSeq(m, 2 + 1, 2 + k) = u
    BY <1>1, <1>7, <1>k, <2>1, <2>2, PartOf
  <2>4. QED BY <2>3
<1>10. SubSeq(m, 4 + k, 3 + k + n) = p
  <2>1. l + n <= Len(m)
    BY <1>1, <1>7
  <2>2. SubSeq(m, l + 1, l + n) = p
    <3> HIDE DEF l
    <3>1. QED BY <1>1, <1>6, <1>7, <1>k, <2>1, PartOf
  <2>3. l + 1 = 4 + k /\ l + n = 3 + k + n
    BY <1>1
  <2>4. QED BY <2>2, <2>3
<1>11. UserGiven(m) = u /\ PwdGiven(m) = p
  BY <1>8, <1>9, <1>10 DEF UserGiven, PwdGiven
<1>12. Len(m) >= 3
  BY <1>1, <1>7
<1>13. QED BY <1>7, <1>8, <1>11, <1>12 DEF m, u, p

(* And in the request of HTTP CONNECT.                                     *)
HcWith(E) == (<<67, Target>> \o E) \o <<10>>

LEMMA HcWithFacts ==
  ASSUME NEW E \in Seq(Nat)
  PROVE  /\ HcWith(E) \in Seq(Nat) /\ Len(HcWith(E)) >= 3 /\ HcWith(E)[1] = 67
         /\ SubSeq(HcWith(E), 3, Len(HcWith(E)) - 1) = E
<1> DEFINE a == <<67, Target>>
           x == <<10>>
           m == Len(E)
           h == HcWith(E)
           two == 2
           one == 1
<1>1. a \in Seq(Nat) /\ 2 = Len(a) /\ a[1] = 67 /\ x \in Seq(Nat) /\ 1 = Len(x) /\ m \in Nat /\ m = Len(E)
  BY DEF Target
<1>2. h = (a \o E) \o x
  BY DEF HcWith
<1>t. two = 2 /\ one = 1 /\ two \in Nat /\ one \in Nat /\ two = Len(a) /\ one = Len(x)
  BY <1>1
<1> HIDE DEF a, x, m, h, two, one
<1>3. /\ h \in Seq(Nat) /\ Len(h) = two + m + one /\ \A i \in 1..two : h[i] = a[i]
      /\ SubSeq(h, two + 1, two + m) = E
  <2>1. /\ (a \o E) \o x \in Seq(Nat) /\ Len((a \o E) \o x) = two + m + one
        /\ \A i \in 1..two : ((a \o E) \o x)[i] = a[i]
        /\ SubSeq((a \o E) \o x, two + 1, two + m) = E
    <3>1. a \in Seq(Nat) /\ E \in Seq(Nat) /\ x \in Seq(Nat)
      BY <1>1
    <3>2. /\ (a \o E) \o x \in Seq(Nat) /\ Len((a \o E) \o x) = Len(a) + Len(E) + Len(x)
          /\ \A i \in 1..Len(a) : ((a \o E) \o x)[i] = a[i]
          /\ SubSeq((a \o E) \o x, Len(a) + 1, Len(a) + Len(E)) = E
      BY <3>1, MiddleOf
    <3>3. QED BY <1>1, <1>t, <3>2
  <2>2. QED BY <1>2, <2>1
<1>4. 1 \in 1..two /\ two + 1 = 3 /\ Len(h) - 1 = two + m /\ Len(h) >= 3
  BY <1>1, <1>3, <1>t
<1>5. QED BY <1>1, <1>3, <1>4 DEF h

-----------------------------------------------------------------------------
(* The message a client of each type sends first.                          *)
FirstMessage ==
  CASE pcon.proxy.type = "SOCKS5"      -> Methods
    [] pcon.proxy.type = "SOCKS4"      -> S4Request
    [] pcon.proxy.type = "HTTPCONNECT" -> HcRequest
    [] OTHER                           -> <<>>

Messages ==
  {<<>>, FirstMessage, Request} \cup (IF pcon.proxy.auth THEN {AuthMessage(pcon.proxy.cred)} ELSE {})

(* The two SOCKS4 answers.                                                 *)
S4Yes == <<0, 90, 0, 80, 10, 0, 0, 1>>
S4No  == <<0, 91, 0, 0, 0, 0, 0, 0>>

(* The statuses before the first message; the client is inside             *)
(* proxy_connect; nothing is under way; what a granted request names.      *)
FirstSends == {"S5_SENDMET", "S4_SENDREQ", "HC_SENDREQ", "400"}
Talking == pc \in {"start", "poll", "step"}
Quiet   == up = <<>> /\ down = <<>>
Whose   == IF pcon.cmd = "BIND" THEN <<0>> ELSE <<Target>>

Statuses == {"none", "CONNECTING", "S5_SENDMET", "S5_WAITMET", "S5_SENDAUTH", "S5_WAITAUTH", "S5_SENDREQ",
             "S5_WAITREQ", "S5_WAITREQ2", "S4_SENDREQ", "S4_WAITREQ", "S4_WAITREQ2", "HC_SENDREQ", "HC_WAITREQ",
             "400", "CONNECTED", "ERROR"}
Flags    == {"none", "WAITREAD", "WAITWRITE"}
Places   == {"none", "version", "methods", "request", "name", "port", "bind", "open", "done", "gone"}

PconValues == [proxy : Proxies, cmd : Cmds, status : Statuses, flags : Flags,
               ctcp_port : Seq(Nat), sock : {"none", "open", "closed"}]
SrvValues  == [at : Places, n : Nat, cmd : Nat, name : Seq(Nat), granted : BOOLEAN, cred : Seq(Nat)]

(* The type invariant.                                                     *)
UpTypes == pcon \in PconValues /\ srv \in SrvValues /\ up \in Seq(Nat) /\ down \in Seq(Nat)

(* Which statuses belong to which protocol.                                *)
ByType ==
  /\ pc = "start" => pcon.status = "none"
  /\ pcon.status \in {"S5_SENDMET", "S5_WAITMET", "S5_SENDAUTH", "S5_WAITAUTH",
                      "S5_SENDREQ", "S5_WAITREQ", "S5_WAITREQ2"} => pcon.proxy.type = "SOCKS5"
  /\ pcon.status \in {"S4_SENDREQ", "S4_WAITREQ", "S4_WAITREQ2"} => pcon.proxy.type = "SOCKS4"
  /\ pcon.status \in {"HC_SENDREQ", "HC_WAITREQ"} => pcon.proxy.type = "HTTPCONNECT"
  /\ pcon.status \in {"S5_WAITREQ2", "S4_WAITREQ2"} => pcon.cmd # "CONNECT"

(* The connection is up once the daemon has forked.                        *)
LinkInv == /\ link = "up" <=> srv.at # "none"
           /\ pcon.status = "none" => link = "none"

(* What the child has yet to read is the rest of the message it is in.     *)
ChildSide ==
  /\ srv.at \in {"none", "version", "methods", "request", "name", "port", "bind", "done", "gone"}
  /\ srv.granted <=> srv.at = "done"
  /\ srv.cred = <<>>
  /\ pcon.proxy.type # "SOCKS5" => srv.at \in {"none", "version", "gone"}
  /\ srv.at = "none"    => up = <<>>
  /\ srv.at = "version" => up \in {<<>>, FirstMessage}
  /\ srv.at = "methods" => srv.n = Methods[2] /\ up = Unread(Methods, 2)
  /\ srv.at = "request" => up \in {<<>>, Request}
  /\ srv.at = "name"    => up = NamePart
  /\ srv.at = "port"    => up = TargetPort /\ srv.name = <<Target>>
  /\ srv.at \in {"name", "port", "bind", "done"} => srv.cmd = Code(pcon.cmd)
  /\ srv.at = "bind"    => srv.cmd = 2
  /\ srv.at \in {"bind", "done"} => srv.name = Whose \o TargetPort

(* Where the child can be, and what it has answered, by the status of the  *)
(* client.                                                                 *)
ChildTalk ==
  /\ pcon.status = "none" => srv.at = "none" /\ Quiet
  /\ pcon.status = "CONNECTING" => srv.at \in {"none", "version", "gone"} /\ Quiet
  /\ pcon.status \in FirstSends => srv.at \in {"version", "gone"} /\ Quiet
  /\ pcon.status = "S5_WAITMET" =>
       \/ down = <<>> /\ srv.at \in {"version", "methods", "gone"}
       \/ down = Choice /\ srv.at \in {"request", "gone"} /\ (srv.at = "request" => up = <<>>)
  /\ pcon.status \notin {"S5_SENDAUTH", "S5_WAITAUTH"}
  /\ pcon.status = "S5_SENDREQ" =>
       down = <<>> /\ srv.at \in {"request", "gone"} /\ (srv.at = "request" => up = <<>>)
  /\ pcon.status \in {"S5_SENDREQ", "S5_WAITREQ"} => pcon.ctcp_port = CtcpPort
  /\ pcon.status = "S5_WAITREQ" /\ pcon.cmd = "CONNECT" =>
       \/ down = <<>> /\ srv.at \in {"request", "name", "port", "gone"}
       \/ srv.at = "gone" /\ \E code \in 1..7 : down = Reply(code)
       \/ srv.at = "done"
  /\ pcon.status = "S4_WAITREQ" =>
       \/ down = <<>> /\ srv.at \in {"version", "gone"}
       \/ srv.at = "gone" /\ down = Reply(1)

(* The same for another proxy, which reads a message at once.              *)
OtherSide ==
  /\ srv.at \in {"none", "open", "done", "gone"}
  /\ up \in Messages
  /\ srv.cred \in {<<>>, UserPwd(pcon.proxy.cred)}

Pending(sent, no) ==
  \/ up = sent /\ down = <<>> /\ ~srv.granted
  \/ up = <<>> /\ (srv.granted \/ down = <<>> \/ down = no)

OtherTalk ==
  /\ pcon.status \in {"none", "CONNECTING", "S5_SENDAUTH", "S5_SENDREQ"} \cup FirstSends => Quiet /\ ~srv.granted
  /\ pcon.status = "S5_WAITMET" =>
       ~srv.granted /\ ((up = Methods /\ down = <<>>) \/ (up = <<>> /\ Len(down) <= 7))
  /\ pcon.status = "S5_WAITAUTH" =>
       ~srv.granted /\ ((up = AuthMessage(pcon.proxy.cred) /\ down = <<>>) \/ (up = <<>> /\ Len(down) <= 2))
  /\ pcon.status = "S5_WAITREQ" => Pending(Request, Reply(2))
  /\ pcon.status = "S4_WAITREQ" => Pending(S4Request, S4No)

(* What a client that has returned has been told.                          *)
OkInv ==
  pc = "ok" /\ Socks /\ pcon.cmd = "CONNECT" =>
    /\ srv.granted /\ (Own => pcon.ctcp_port = CtcpPort)
    /\ pcon.proxy.peer = "other" => up = <<>>

(* The inductive invariant of the negotiation.                             *)
NegotiationInv ==
  /\ UpTypes /\ LinkInv /\ OkInv
  /\ pcon.proxy.peer = "child" => ChildSide /\ (Talking => ChildTalk)
  /\ pcon.proxy.peer = "other" => OtherSide /\ (Talking => OtherTalk)
  /\ Talking => ByType
-----------------------------------------------------------------------------
(* The messages do not change while the proxy and the command do not.      *)
LEMMA SameMessages ==
  ASSUME pcon'.proxy = pcon.proxy, pcon'.cmd = pcon.cmd
  PROVE  /\ Methods' = Methods /\ Request' = Request /\ S4Request' = S4Request /\ FirstMessage' = FirstMessage
         /\ Messages' = Messages /\ Whose' = Whose /\ Socks' = Socks /\ Own' = Own
<1>1. Methods' = Methods /\ Request' = Request /\ S4Request' = S4Request /\ HcRequest' = HcRequest
  BY DEF Methods, Request, S4Request, HcRequest
<1>2. FirstMessage' = FirstMessage
  BY <1>1 DEF FirstMessage
<1>3. QED BY <1>1, <1>2 DEF Messages, Whose, Socks, Own

LEMMA ProxyIs ==
  ASSUME UpTypes
  PROVE  /\ pcon.proxy.type \in {"SOCKS5", "SOCKS4", "HTTPCONNECT", "HTTP"}
         /\ pcon.proxy.peer \in {"child", "other"} /\ pcon.proxy.cred \in Creds
         /\ pcon.proxy.auth \in BOOLEAN /\ pcon.cmd \in {"CONNECT", "BIND", "UDP"}
BY UpProxyAssumption DEF UpTypes, PconValues, Proxies

(* Every message is a sequence of bytes, told by its first.                *)
LEMMA S4Facts ==
  ASSUME UpTypes
  PROVE  /\ S4Request \in Seq(Nat) /\ Len(S4Request) >= 2 /\ S4Request[1] = 4
         /\ S4Yes \in Seq(Nat) /\ Len(S4Yes) = 8 /\ S4Yes[2] = 90
         /\ S4No \in Seq(Nat) /\ Len(S4No) = 8 /\ S4No[2] = 91
<1>1. Code(pcon.cmd) \in 1..3
  BY ProxyIs DEF Code
<1>2. ASSUME NEW c \in Nat
      PROVE  LET r == <<4, c>> \o TargetPort \o <<10, 0, 0, 1, 48>> IN
             r \in Seq(Nat) /\ Len(r) >= 2 /\ r[1] = 4
  BY DEF TargetPort
<1>3. S4Request \in Seq(Nat) /\ Len(S4Request) >= 2 /\ S4Request[1] = 4
  BY <1>1, <1>2 DEF S4Request
<1>4. QED BY <1>3 DEF S4Yes, S4No

(* The encoding in an HTTP request decodes to the credentials in it.       *)
LEMMA HcFacts ==
  ASSUME UpTypes
  PROVE  /\ HcRequest \in Seq(Nat) /\ Len(HcRequest) >= 3 /\ HcRequest[1] = 67
         /\ decode_base64(SubSeq(HcRequest, 3, Len(HcRequest) - 1)) \in {<<>>, UserPwd(pcon.proxy.cred)}
<1> DEFINE c == pcon.proxy.cred
           E == IF pcon.proxy.auth THEN proxy_encode_base64(UserPwd(c)) ELSE <<>>
<1>1. UserPwd(c) \in ByteSeq /\ <<>> \in ByteSeq
  BY ProxyIs, CredIs DEF ByteSeq
<1>2. proxy_encode_base64(<<>>) = <<>>
  <2>1. Groups(<<>>) = 0
    BY DEF Groups
  <2>2. QED BY <2>1 DEF proxy_encode_base64
<1>3. E \in Seq(Nat) /\ HcRequest = HcWith(E)
  BY <1>1, EncodedIs DEF HcRequest, HcWith
<1>4. decode_base64(E) \in {<<>>, UserPwd(c)}
  BY <1>1, <1>2, Base64RoundTrip
<1> HIDE DEF E
<1>5. QED BY <1>3, <1>4, HcWithFacts

LEMMA FirstFacts ==
  ASSUME UpTypes
  PROVE  /\ FirstMessage \in Seq(Nat)
         /\ FirstMessage # <<>> => Len(FirstMessage) >= 2
         /\ FirstMessage # <<>> => (FirstMessage[1] = 5 <=> pcon.proxy.type = "SOCKS5")
         /\ pcon.proxy.type = "SOCKS5" => FirstMessage = Methods
         /\ pcon.proxy.type = "SOCKS4" => FirstMessage = S4Request
         /\ pcon.proxy.type = "HTTPCONNECT" => FirstMessage = HcRequest
<1>1. /\ pcon.proxy.type = "SOCKS5" => FirstMessage = Methods
      /\ pcon.proxy.type = "SOCKS4" => FirstMessage = S4Request
      /\ pcon.proxy.type = "HTTPCONNECT" => FirstMessage = HcRequest
      /\ pcon.proxy.type = "HTTP" => FirstMessage = <<>>
  BY DEF FirstMessage
<1>2. CASE pcon.proxy.type = "SOCKS5"
  BY <1>1, <1>2, MethodsFacts
<1>3. CASE pcon.proxy.type = "SOCKS4"
  <2>1. S4Request \in Seq(Nat) /\ Len(S4Request) >= 2 /\ S4Request[1] # 5
    BY S4Facts
  <2>2. QED BY <1>1, <1>3, <2>1
<1>4. CASE pcon.proxy.type = "HTTPCONNECT"
  BY <1>1, <1>4, HcFacts
<1>5. CASE pcon.proxy.type = "HTTP"
  BY <1>1, <1>5
<1>6. QED BY <1>2, <1>3, <1>4, <1>5, ProxyIs

(* What another proxy answers to each message.                             *)
LEMMA NoLength ==
  ASSUME NEW l, l \in {2, 7}
  PROVE  l # 10 /\ l # 8 /\ l # 4 /\ l <= 7
OBVIOUS

LEMMA GrantsAre ==
  /\ FullReply \in Grants /\ S4Yes \in Grants
  /\ \A a \in Seq(Nat) : Len(a) \in {2, 7} => a \notin Grants
<1>1. FullReply \in Grants /\ S4Yes \in Grants
  BY DEF Grants, S4Yes
<1>2. Len(FullReply) = 10 /\ Len(S4Yes) = 8 /\ Len(<<HTTP11, 2, 0, 0>>) = 4 /\ Len(<<HTTP10, 2, 0, 0>>) = 4
  BY ReplyFacts DEF S4Yes
<1>3. Grants = {FullReply, S4Yes, <<HTTP11, 2, 0, 0>>, <<HTTP10, 2, 0, 0>>}
  BY DEF Grants, S4Yes
<1>4. ASSUME NEW a \in Seq(Nat), Len(a) \in {2, 7} PROVE a \notin Grants
  <2>1. Len(a) # 10 /\ Len(a) # 8 /\ Len(a) # 4
    BY <1>4, NoLength, Zenon
  <2>2. a # FullReply /\ a # S4Yes /\ a # <<HTTP11, 2, 0, 0>> /\ a # <<HTTP10, 2, 0, 0>>
    BY <1>2, <2>1
  <2>3. QED BY <1>3, <2>2
<1>5. QED BY <1>1, <1>4

(* The answers to SOCKS5 messages, told apart by their length.             *)
LEMMA AnswersIs ==
  ASSUME NEW m
  PROVE  /\ m[1] = 5 /\ Len(m) < 5 => Answers(m) = {<<5, k>> \o CtcpPort : k \in {0, 2, 255}} \cup {<<5, 0>>}
         /\ m[1] = 5 /\ Len(m) >= 5 => Answers(m) = {FullReply, Reply(2)}
<1> DEFINE A == {<<5, k>> \o CtcpPort : k \in {0, 2, 255}} \cup {<<5, 0>>}
           B == {FullReply, Reply(2)}
           C == {<<1, 0>>, <<1, 1>>}
           D == {<<0, 90, 0, 80, 10, 0, 0, 1>>, <<0, 91, 0, 0, 0, 0, 0, 0>>}
           E == {<<v, c, 0, 0>> : v \in {HTTP11, HTTP10}, c \in {2, 4}}
           f == m[1]
           l == Len(m)
<1>1. Answers(m) = CASE f = 5 /\ l < 5  -> A
                     [] f = 1           -> C
                     [] f = 5 /\ l >= 5 -> B
                     [] f = 4           -> D
                     [] OTHER           -> E
  BY DEF Answers
<1> HIDE DEF A, B, C, D, E, f
<1>2. f = 5 /\ l < 5 => Answers(m) = A
  BY <1>1
<1>3. f = 5 /\ l >= 5 => Answers(m) = B
  BY <1>1
<1>4. QED BY <1>2, <1>3 DEF A, B, f

LEMMA MethodsAnswered ==
  ASSUME UpTypes, NEW a \in Answers(Methods)
  PROVE  a \in Seq(Nat) /\ Len(a) <= 7 /\ a \notin Grants
<1> DEFINE A == {<<5, m>> \o CtcpPort : m \in {0, 2, 255}} \cup {<<5, 0>>}
<1>1. Answers(Methods) = A
  BY MethodsFacts, AnswersIs
<1>2. ASSUME NEW m \in Nat PROVE <<5, m>> \o CtcpPort \in Seq(Nat) /\ Len(<<5, m>> \o CtcpPort) = 7
  BY DEF CtcpPort
<1>3. <<5, 0>> \in Seq(Nat) /\ Len(<<5, 0>>) = 2
  OBVIOUS
<1>4. a \in Seq(Nat) /\ (Len(a) = 7 \/ Len(a) = 2)
  <2>1. CASE a \in {<<5, m>> \o CtcpPort : m \in {0, 2, 255}}
    <3>1. PICK m \in {0, 2, 255} : a = <<5, m>> \o CtcpPort
      BY <2>1
    <3>2. m \in Nat
      OBVIOUS
    <3>3. <<5, m>> \o CtcpPort \in Seq(Nat) /\ Len(<<5, m>> \o CtcpPort) = 7
      BY <3>2 DEF CtcpPort
    <3>4. QED BY <3>1, <3>3, Zenon
  <2>2. CASE a = <<5, 0>>
    BY <1>3, <2>2
  <2>3. QED BY <1>1, <2>1, <2>2
<1>5. Len(a) \in {2, 7} /\ Len(a) <= 7
  <2>1. Len(a) \in {2, 7}
    BY <1>4, Zenon
  <2>2. QED BY <2>1, NoLength, Zenon
<1>6. QED BY <1>4, <1>5, GrantsAre

LEMMA AuthAnswered ==
  ASSUME UpTypes, NEW a \in Answers(AuthMessage(pcon.proxy.cred))
  PROVE  a \in Seq(Nat) /\ Len(a) <= 2 /\ a \notin Grants
<1>1. Answers(AuthMessage(pcon.proxy.cred)) = {<<1, 0>>, <<1, 1>>}
  BY ProxyIs, AuthMessageFacts DEF Answers
<1>2. <<1, 0>> \in Seq(Nat) /\ Len(<<1, 0>>) = 2 /\ <<1, 1>> \in Seq(Nat) /\ Len(<<1, 1>>) = 2
  OBVIOUS
<1>3. a = <<1, 0>> \/ a = <<1, 1>>
  BY <1>1
<1>4. a \in Seq(Nat) /\ Len(a) = 2
  BY <1>2, <1>3
<1>5. Len(a) \in {2, 7} /\ Len(a) <= 2
  BY <1>4
<1>6. QED BY <1>4, <1>5, GrantsAre

LEMMA RequestAnswered ==
  ASSUME UpTypes
  PROVE  Answers(Request) = {FullReply, Reply(2)}
<1>1. Request[1] = 5 /\ Len(Request) >= 5
  <2>1. Request[1] = 5 /\ Len(Request) = 8
    BY ProxyIs, RequestFacts, Zenon
  <2>2. QED BY <2>1
<1>2. QED BY <1>1, AnswersIs

LEMMA S4Answered ==
  ASSUME UpTypes
  PROVE  Answers(S4Request) = {S4Yes, S4No}
BY S4Facts DEF Answers, S4Yes, S4No

LEMMA HcAnswered ==
  ASSUME UpTypes, NEW a \in Answers(HcRequest)
  PROVE  a \in Seq(Nat)
<1>1. Answers(HcRequest) = {<<v, c, 0, 0>> : v \in {HTTP11, HTTP10}, c \in {2, 4}}
  BY HcFacts DEF Answers
<1>2. PICK v \in {HTTP11, HTTP10}, c \in {2, 4} : a = <<v, c, 0, 0>>
  BY <1>1
<1>3. v \in Nat /\ c \in Nat
  BY DEF HTTP11, HTTP10
<1>4. QED BY <1>2, <1>3

(* Whatever another proxy is sent, it reads the credentials it had, none,  *)
(* or the configured ones.                                                 *)
LEMMA MessageFacts ==
  ASSUME UpTypes, NEW m \in Messages, m # <<>>
  PROVE  /\ m \in Seq(Nat) /\ Given(m) \in {srv.cred, <<>>, UserPwd(pcon.proxy.cred)}
         /\ \A a \in Answers(m) : a \in Seq(Nat)
<1>1. CASE m = Methods
  <2>1. Given(m) = srv.cred
    BY <1>1, MethodsFacts DEF Given
  <2>2. QED BY <1>1, <2>1, MethodsFacts, MethodsAnswered
<1>2. CASE m = S4Request
  <2>1. Given(m) = srv.cred
    BY <1>2, S4Facts DEF Given
  <2>2. QED BY <1>2, <2>1, S4Facts, S4Answered
<1>3. CASE m = HcRequest
  <2>1. Given(m) = decode_base64(SubSeq(m, 3, Len(m) - 1))
    BY <1>3, HcFacts DEF Given
  <2>2. QED BY <1>3, <2>1, HcFacts, HcAnswered
<1>4. CASE m = Request
  <2>1. Given(m) = srv.cred
    BY <1>4, ProxyIs, RequestFacts DEF Given
  <2>2. \A a \in Answers(m) : a \in Seq(Nat)
    BY <1>4, RequestAnswered, ReplyFacts
  <2>3. QED BY <1>4, <2>1, <2>2, ProxyIs, RequestFacts
<1>5. CASE m = AuthMessage(pcon.proxy.cred)
  <2>1. Given(m) = UserPwd([user |-> UserGiven(m), pwd |-> PwdGiven(m)])
    BY <1>5, ProxyIs, AuthMessageFacts DEF Given
  <2>2. UserGiven(m) = pcon.proxy.cred.user /\ PwdGiven(m) = pcon.proxy.cred.pwd /\ m \in Seq(Nat)
    BY <1>5, ProxyIs, AuthMessageFacts
  <2>3. Given(m) = UserPwd(pcon.proxy.cred)
    BY <2>1, <2>2 DEF UserPwd
  <2>4. QED BY <1>5, <2>2, <2>3, AuthAnswered
<1>6. m = Methods \/ m = S4Request \/ m = HcRequest \/ m = Request \/ m = AuthMessage(pcon.proxy.cred)
  BY ProxyIs, FirstFacts DEF Messages, FirstMessage
<1>7. QED BY <1>1, <1>2, <1>3, <1>4, <1>5, <1>6

-----------------------------------------------------------------------------
(* The server's side does not depend on how far the client is.             *)
LEMMA SameSides ==
  ASSUME pcon'.proxy = pcon.proxy, pcon'.cmd = pcon.cmd, up' = up, srv' = srv
  PROVE  (ChildSide => ChildSide') /\ (OtherSide => OtherSide')
<1>1. /\ Methods' = Methods /\ Request' = Request /\ FirstMessage' = FirstMessage
      /\ Messages' = Messages /\ Whose' = Whose
  BY SameMessages
<1>2. ChildSide => ChildSide'
  BY <1>1 DEF ChildSide, Unread, NamePart
<1>3. OtherSide => OtherSide'
  BY <1>1 DEF OtherSide, UserPwd
<1>4. QED BY <1>2, <1>3

(* A client that has given up leaves the rest as it is.                    *)
LEMMA Stopped ==
  ASSUME NegotiationInv, UpTypes', pc' \in {"null", "crash", "killed"}, pcon'.proxy = pcon.proxy, pcon'.cmd = pcon.cmd,
         pcon'.status = "none" => pcon.status = "none", up' = up, srv' = srv, link' = link
  PROVE  NegotiationInv'
<1>1. ~Talking' /\ OkInv' /\ LinkInv'
  BY DEF NegotiationInv, Talking, OkInv, LinkInv
<1>2. /\ pcon.proxy.peer = "child" => ChildSide'
      /\ pcon.proxy.peer = "other" => OtherSide'
  BY SameSides DEF NegotiationInv
<1>3. QED BY <1>1, <1>2 DEF NegotiationInv

(* A client that returns the connection.                                   *)
LEMMA Returned ==
  ASSUME NegotiationInv, UpTypes', pc' = "ok", pcon'.proxy = pcon.proxy, pcon'.cmd = pcon.cmd,
         pcon'.status = "none" => pcon.status = "none", up' = up, srv' = srv, link' = link, OkInv'
  PROVE  NegotiationInv'
<1>1. ~Talking' /\ LinkInv'
  BY DEF NegotiationInv, Talking, LinkInv
<1>2. /\ pcon.proxy.peer = "child" => ChildSide'
      /\ pcon.proxy.peer = "other" => OtherSide'
  BY SameSides DEF NegotiationInv
<1>3. QED BY <1>1, <1>2 DEF NegotiationInv

(* A client that goes on to another step.                                  *)
LEMMA WentOn ==
  ASSUME NegotiationInv, UpTypes', pc' = "poll", pcon'.proxy = pcon.proxy, pcon'.cmd = pcon.cmd,
         pcon'.status # "none", srv' = srv, link' = link, ByType',
         pcon.proxy.peer = "child" => ChildSide' /\ ChildTalk',
         pcon.proxy.peer = "other" => OtherSide' /\ OtherTalk'
  PROVE  NegotiationInv'
<1>1. OkInv' /\ LinkInv'
  BY DEF NegotiationInv, OkInv, LinkInv
<1>2. QED BY <1>1 DEF NegotiationInv

(* A step of the child, and one of another proxy.                          *)
LEMMA ChildWentOn ==
  ASSUME NegotiationInv, UpTypes', pcon.proxy.peer = "child", UNCHANGED <<pcon, pc, link>>,
         srv.at # "none", srv'.at # "none", srv.granted => srv'.granted,
         ChildSide', Talking => ChildTalk'
  PROVE  NegotiationInv'
<1>1. /\ OkInv' /\ LinkInv' /\ Talking' = Talking /\ ByType' = ByType
  BY SameMessages DEF NegotiationInv, OkInv, LinkInv, Talking, ByType
<1>2. QED BY <1>1 DEF NegotiationInv

LEMMA OtherWentOn ==
  ASSUME NegotiationInv, UpTypes', pcon.proxy.peer = "other", UNCHANGED <<pcon, pc, link>>,
         srv.at # "none", srv'.at # "none", OkInv', OtherSide', Talking => OtherTalk'
  PROVE  NegotiationInv'
<1>1. /\ LinkInv' /\ Talking' = Talking /\ ByType' = ByType
  BY DEF NegotiationInv, LinkInv, Talking, ByType
<1>2. QED BY <1>1 DEF NegotiationInv

(* What read() takes.                                                      *)
LEMMA ReadIs ==
  ASSUME UpTypes, NEW k \in Nat, NEW n, Read(k, n)
  PROVE  /\ n \in Nat /\ n <= k /\ n <= Len(down) /\ down' \in Seq(Nat) /\ link' = link
         /\ n = Len(down) => down' = <<>>
         /\ n # 0 => down # <<>>
<1>1. down \in Seq(Nat) /\ Len(down) \in Nat /\ (down # <<>> => Len(down) >= 1) /\ (down = <<>> => Len(down) = 0)
  BY DEF UpTypes
<1> DEFINE l == Len(down)
           most == Least(k, l)
<1>2. most \in Nat /\ most <= k /\ most <= l
  BY <1>1 DEF Least
<1>3. n \in Nat /\ n <= k /\ n <= l /\ (n # 0 => down # <<>>)
  <2>1. CASE down = <<>>
    BY <1>1, <2>1 DEF Read, ReadAmounts
  <2>2. CASE down # <<>>
    <3>1. n \in (IF Pieces THEN 1..most ELSE {most})
      BY <2>2 DEF Read, ReadAmounts
    <3> HIDE DEF most
    <3>2. QED BY <1>1, <1>2, <2>2, <3>1, UpProxyAssumption
  <2>3. QED BY <2>1, <2>2
<1>4. n \in 0..Len(down)
  BY <1>1, <1>3
<1>5. Unread(down, n) \in Seq(Nat) /\ (n = Len(down) => Unread(down, n) = <<>>)
  BY <1>1, <1>4, UnreadIs
<1>6. QED BY <1>3, <1>5 DEF Read

-----------------------------------------------------------------------------
(* The steps of the client.  The types first: what each writes of pcon.    *)
LEMMA Values ==
  ASSUME NegotiationInv
  PROVE  pcon \in PconValues /\ srv \in SrvValues
BY DEF NegotiationInv, UpTypes

(* What the ends of a client step, and Goto, keep.                         *)
LEMMA FailKeeps ==
  ASSUME NegotiationInv, Fail, link' = link, down' \in Seq(Nat)
  PROVE  NegotiationInv'
<1>1. pcon' \in PconValues /\ pcon'.proxy = pcon.proxy /\ pcon'.cmd = pcon.cmd /\ pcon'.status = "ERROR"
  BY Values DEF PconValues, Statuses, Flags, Fail
<1>2. UpTypes'
  BY <1>1 DEF NegotiationInv, UpTypes, Fail, Return
<1>3. QED BY <1>1, <1>2, Stopped DEF Fail, Return

LEMMA ReturnKeeps ==
  ASSUME NegotiationInv, Return("null") \/ Return("crash") \/ Return("killed"), link' = link, down' \in Seq(Nat), pcon' = pcon
  PROVE  NegotiationInv'
<1>1. UpTypes' /\ pc' \in {"null", "crash", "killed"}
  BY DEF NegotiationInv, UpTypes, Return
<1>2. QED BY <1>1, Stopped DEF Return

LEMMA OkKeeps ==
  ASSUME NegotiationInv, pcon' = [pcon EXCEPT !.status = "CONNECTED"], Return("ok"), link' = link, down' \in Seq(Nat),
         Socks /\ pcon.cmd = "CONNECT" => /\ srv.granted /\ (Own => pcon.ctcp_port = CtcpPort)
                                          /\ pcon.proxy.peer = "other" => up = <<>>
  PROVE  NegotiationInv'
<1>1. /\ pcon' \in PconValues /\ pcon'.proxy = pcon.proxy /\ pcon'.cmd = pcon.cmd
      /\ pcon'.status = "CONNECTED" /\ pcon'.ctcp_port = pcon.ctcp_port
  BY Values DEF PconValues, Statuses, Flags
<1>2. UpTypes'
  BY <1>1 DEF NegotiationInv, UpTypes, Return
<1>3. OkInv'
  BY <1>1, SameMessages DEF OkInv, Return
<1>4. QED BY <1>1, <1>2, <1>3, Returned DEF Return

LEMMA GotoIs ==
  ASSUME NegotiationInv, NEW s \in Statuses, NEW f \in Flags, Goto(s, f)
  PROVE  /\ pcon' \in PconValues /\ pcon'.proxy = pcon.proxy /\ pcon'.cmd = pcon.cmd
         /\ pcon'.status = s /\ pcon'.ctcp_port = pcon.ctcp_port /\ pc' = "poll"
BY Values DEF PconValues, Statuses, Flags, Goto

(* One lemma for each action of the client, until it has sent its first    *)
(* message.                                                                *)
LEMMA ConnectNbKeeps ==
  ASSUME NegotiationInv, ConnectNb
  PROVE  NegotiationInv'
<1>0. pcon' \in PconValues /\ pcon'.proxy = pcon.proxy /\ pcon'.cmd = pcon.cmd /\ pcon'.status = "CONNECTING"
  BY Values DEF PconValues, Statuses, Flags, ConnectNb
<1>1. UpTypes'
  BY <1>0 DEF ConnectNb, NegotiationInv, UpTypes
<1>2. pcon.status = "none" /\ link = "none" /\ srv.at = "none" /\ Talking
  BY DEF ConnectNb, NegotiationInv, ByType, LinkInv, Talking
<1>3. OkInv' /\ LinkInv' /\ ByType'
  BY <1>0, <1>2 DEF ConnectNb, OkInv, LinkInv, ByType
<1>4. /\ pcon.proxy.peer = "child" => ChildSide'
      /\ pcon.proxy.peer = "other" => OtherSide'
  BY <1>0, SameSides DEF NegotiationInv, ConnectNb
<1>5. ASSUME pcon.proxy.peer = "child" PROVE ChildTalk'
  BY <1>0, <1>2, <1>5 DEF ConnectNb, NegotiationInv, ChildTalk, Quiet, FirstSends
<1>6. ASSUME pcon.proxy.peer = "other" PROVE OtherTalk'
  BY <1>0, <1>2, <1>6 DEF ConnectNb, NegotiationInv, OtherTalk, Quiet, FirstSends
<1>7. QED BY <1>0, <1>1, <1>3, <1>4, <1>5, <1>6 DEF NegotiationInv

LEMMA ConnectedKeeps ==
  ASSUME NegotiationInv, Connected
  PROVE  NegotiationInv'
<1>0. pcon' = pcon /\ pc' = pc /\ up' = up /\ down' = down /\ srv.at = "none" /\ pcon.status # "none"
  BY DEF Connected, NegotiationInv, LinkInv
<1>1. UpTypes' /\ LinkInv' /\ srv'.granted = srv.granted /\ srv'.cred = srv.cred
  <2>1. CASE srv' = srv /\ link' = "refused"
    BY <1>0, <2>1 DEF NegotiationInv, UpTypes, LinkInv
  <2>2. CASE link' = "up" /\ srv' = [srv EXCEPT !.at = IF pcon.proxy.peer = "child" THEN "version" ELSE "open"]
    <3>1. /\ srv' \in SrvValues /\ srv'.at \in {"version", "open"}
          /\ srv'.granted = srv.granted /\ srv'.cred = srv.cred
      BY <2>2, Values DEF SrvValues, Places
    <3>2. QED BY <1>0, <2>2, <3>1 DEF NegotiationInv, UpTypes, LinkInv
  <2>3. QED BY <2>1, <2>2 DEF Connected
<1>2. OkInv' /\ Talking' = Talking /\ ByType' = ByType
  BY <1>0, <1>1, SameMessages DEF NegotiationInv, OkInv, Talking, ByType
<1>3. CASE srv' = srv
  <2>1. /\ ChildSide => ChildSide'
        /\ OtherSide => OtherSide'
    BY <1>0, <1>3, SameSides
  <2>2. /\ ChildTalk => ChildTalk'
        /\ OtherTalk => OtherTalk'
    BY <1>0, <1>3, SameMessages DEF ChildTalk, OtherTalk, Quiet, Pending, AuthMessage, Reply, S4No, FirstSends
  <2>3. QED BY <1>0, <1>1, <1>2, <2>1, <2>2 DEF NegotiationInv
<1>4. ASSUME srv' # srv, pcon.proxy.peer = "child" PROVE ChildSide' /\ (Talking => ChildTalk')
  <2>1. srv'.at = "version"
    BY <1>4, Values DEF Connected, SrvValues
  <2>2. ChildSide'
    BY <1>0, <1>1, <1>4, <2>1 DEF NegotiationInv, ChildSide
  <2>3. Talking => ChildTalk'
    BY <1>0, <1>1, <1>4, <2>1 DEF NegotiationInv, ChildTalk, FirstSends, Quiet
  <2>4. QED BY <2>2, <2>3
<1>5. ASSUME srv' # srv, pcon.proxy.peer = "other" PROVE OtherSide' /\ (Talking => OtherTalk')
  <2>1. srv'.at = "open"
    BY <1>5, Values DEF Connected, SrvValues
  <2>2. OtherSide'
    BY <1>0, <1>1, <1>5, <2>1, SameMessages DEF NegotiationInv, OtherSide, UserPwd
  <2>3. Talking => OtherTalk'
    BY <1>0, <1>1, <1>5, <2>1, SameMessages DEF NegotiationInv, OtherTalk, FirstSends, Quiet, Pending, AuthMessage, Reply, S4No
  <2>4. QED BY <2>2, <2>3
<1>6. QED BY <1>0, <1>1, <1>2, <1>3, <1>4, <1>5 DEF NegotiationInv

LEMMA PollKeeps ==
  ASSUME NegotiationInv, Poll
  PROVE  NegotiationInv'
<1>0. /\ pcon' \in PconValues /\ pcon'.proxy = pcon.proxy /\ pcon'.cmd = pcon.cmd
      /\ pcon'.status = pcon.status /\ pcon'.ctcp_port = pcon.ctcp_port
  BY Values DEF PconValues, Statuses, Flags, Poll, NoFlag
<1>1. /\ UpTypes' /\ pcon'.proxy = pcon.proxy /\ pcon'.cmd = pcon.cmd /\ pcon'.status = pcon.status
      /\ pcon'.ctcp_port = pcon.ctcp_port /\ pc \in {"poll"} /\ pc' \in {"poll", "step"}
      /\ link' = link /\ up' = up /\ down' = down /\ srv' = srv
  BY <1>0 DEF Poll, NegotiationInv, UpTypes
<1>2. Talking /\ Talking' /\ OkInv' /\ LinkInv' /\ (ByType => ByType')
  BY <1>1 DEF NegotiationInv, Talking, OkInv, LinkInv, ByType
<1>3. /\ ChildSide => ChildSide'
      /\ OtherSide => OtherSide'
  BY <1>1, SameSides
<1>4. ChildTalk => ChildTalk'
  BY <1>1 DEF ChildTalk, Quiet, FirstSends
<1>5. OtherTalk => OtherTalk'
  BY <1>1, SameMessages DEF OtherTalk, Quiet, FirstSends, Pending, AuthMessage, Reply, S4No
<1>6. QED BY <1>1, <1>2, <1>3, <1>4, <1>5 DEF NegotiationInv

LEMMA PollConnectingKeeps ==
  ASSUME NegotiationInv, PollConnecting
  PROVE  NegotiationInv'
<1>0. pcon.status = "CONNECTING" /\ pc = "step" /\ Talking /\ link' = link /\ down' = down /\ down' \in Seq(Nat)
  BY DEF PollConnecting, At, Talking, NegotiationInv, UpTypes
<1>1. CASE Fail
  BY <1>0, <1>1, FailKeeps
<1>2. CASE link = "up" /\ Goto(FirstStatus[pcon.proxy.type], NoFlag) /\ up' = up /\ srv' = srv
  <2>1. FirstStatus[pcon.proxy.type] \in FirstSends
    BY ProxyIs, FirstStatusIs DEF FirstSends, NegotiationInv
  <2>2. FirstStatus[pcon.proxy.type] \in Statuses /\ NoFlag \in Flags
    BY <2>1 DEF FirstSends, Statuses, NoFlag, Flags
  <2>3. /\ UpTypes' /\ pcon'.proxy = pcon.proxy /\ pcon'.cmd = pcon.cmd
        /\ pcon'.status = FirstStatus[pcon.proxy.type] /\ pc' = "poll"
    BY <1>0, <1>2, <2>2, GotoIs DEF NegotiationInv, UpTypes
  <2>4. ByType'
    BY <2>3, ProxyIs, FirstStatusIs DEF NegotiationInv, ByType
  <2>5. /\ pcon.proxy.peer = "child" => ChildSide'
        /\ pcon.proxy.peer = "other" => OtherSide'
    BY <1>2, <2>3, SameSides DEF NegotiationInv
  <2>6. ASSUME pcon.proxy.peer = "child" PROVE ChildTalk'
    <3>1. srv.at \in {"version", "gone"} /\ Quiet
      BY <1>0, <1>2, <2>6 DEF NegotiationInv, ChildTalk, LinkInv
    <3>2. QED BY <1>0, <1>2, <2>1, <2>3, <3>1 DEF ChildTalk, FirstSends, Quiet
  <2>7. ASSUME pcon.proxy.peer = "other" PROVE OtherTalk'
    <3>1. Quiet /\ ~srv.granted
      BY <1>0, <2>7 DEF NegotiationInv, OtherTalk
    <3>2. QED BY <1>0, <1>2, <2>1, <2>3, <3>1 DEF OtherTalk, FirstSends, Quiet
  <2>8. pcon'.status # "none"
    BY <2>1, <2>3 DEF FirstSends
  <2>9. QED BY <1>0, <1>2, <2>3, <2>4, <2>5, <2>6, <2>7, <2>8, WentOn
<1>3. QED BY <1>1, <1>2 DEF PollConnecting

(* A write() that does not end the client adds the message, unless the     *)
(* server is gone.                                                         *)
LEMMA WriteIs ==
  ASSUME NegotiationInv, NEW msg \in Seq(Nat), NEW s \in Statuses, Write(msg, s)
  PROVE  \/ NegotiationInv'
         \/ /\ UpTypes' /\ pcon'.proxy = pcon.proxy /\ pcon'.cmd = pcon.cmd /\ pcon'.status = s
            /\ pcon'.ctcp_port = pcon.ctcp_port /\ pc' = "poll"
            /\ up' = (IF SrvGone THEN up ELSE up \o msg) /\ srv' = srv /\ link' = link /\ down' = down
<1>0. link' = link /\ down' = down /\ down' \in Seq(Nat) /\ up \in Seq(Nat)
  BY DEF Write, NegotiationInv, UpTypes
<1>1. CASE Goto(s, "WAITREAD") /\ up' = (IF SrvGone THEN up ELSE up \o msg) /\ srv' = srv
  <2>1. /\ pcon' \in PconValues /\ pcon'.proxy = pcon.proxy /\ pcon'.cmd = pcon.cmd
        /\ pcon'.status = s /\ pcon'.ctcp_port = pcon.ctcp_port /\ pc' = "poll"
    <3>1. "WAITREAD" \in Flags
      BY DEF Flags
    <3>2. QED BY <1>1, <3>1, GotoIs
  <2>2. up' \in Seq(Nat)
    BY <1>0, <1>1, AppendToNothing
  <2>3. UpTypes'
    BY <1>0, <1>1, <2>1, <2>2, Values DEF UpTypes
  <2>4. QED BY <1>0, <1>1, <2>1, <2>3
<1>2. CASE Fail
  BY <1>0, <1>2, FailKeeps
<1>3. CASE Return("killed") /\ pcon' = pcon
  BY <1>0, <1>3, ReturnKeeps
<1>4. QED BY <1>1, <1>2, <1>3 DEF Write

(* The first message of each type.                                         *)
LEMMA FirstKeeps ==
  ASSUME NegotiationInv, pc = "step",
         \/ pcon.status = "S5_SENDMET" /\ Write(Methods, "S5_WAITMET")
         \/ pcon.status = "S4_SENDREQ" /\ Write(S4Request, "S4_WAITREQ")
         \/ pcon.status = "HC_SENDREQ" /\ Write(HcRequest, "HC_WAITREQ")
  PROVE  NegotiationInv'
<1>0. Talking /\ UpTypes /\ ByType /\ pcon.status \in FirstSends
  BY DEF NegotiationInv, Talking, FirstSends
<1> DEFINE s == CASE pcon.status = "S5_SENDMET" -> "S5_WAITMET"
                  [] pcon.status = "S4_SENDREQ" -> "S4_WAITREQ"
                  [] pcon.status = "HC_SENDREQ" -> "HC_WAITREQ"
<1>1. s \in Statuses /\ Write(FirstMessage, s) /\ FirstMessage \in Seq(Nat)
  <2>1. CASE pcon.status = "S5_SENDMET"
    BY <1>0, <2>1, FirstFacts DEF ByType, Statuses
  <2>2. CASE pcon.status = "S4_SENDREQ"
    BY <1>0, <2>2, FirstFacts DEF ByType, Statuses
  <2>3. CASE pcon.status = "HC_SENDREQ"
    BY <1>0, <2>3, FirstFacts DEF ByType, Statuses
  <2>4. QED BY <2>1, <2>2, <2>3
<1>2. \/ pcon.proxy.type = "SOCKS5" /\ s = "S5_WAITMET" /\ FirstMessage = Methods
      \/ pcon.proxy.type = "SOCKS4" /\ s = "S4_WAITREQ" /\ FirstMessage = S4Request
      \/ pcon.proxy.type = "HTTPCONNECT" /\ s = "HC_WAITREQ" /\ FirstMessage = HcRequest
  BY <1>0, FirstFacts DEF ByType
<1> HIDE DEF s
<1>3. CASE NegotiationInv'
  BY <1>3
<1>4. CASE /\ UpTypes' /\ pcon'.proxy = pcon.proxy /\ pcon'.cmd = pcon.cmd /\ pcon'.status = s
           /\ pcon'.ctcp_port = pcon.ctcp_port /\ pc' = "poll"
           /\ up' = (IF SrvGone THEN up ELSE up \o FirstMessage) /\ srv' = srv /\ link' = link /\ down' = down
  <2>0. ByType' /\ pcon'.status # "none"
    BY <1>2, <1>4 DEF ByType
  <2>1. Quiet => up' = (IF SrvGone THEN <<>> ELSE FirstMessage)
    BY <1>1, <1>4, AppendToNothing DEF Quiet
  <2>2. /\ Methods' = Methods /\ Request' = Request /\ S4Request' = S4Request /\ FirstMessage' = FirstMessage
        /\ Messages' = Messages /\ Whose' = Whose
    BY <1>4, SameMessages
  <2>3. ASSUME pcon.proxy.peer = "child" PROVE ChildSide' /\ ChildTalk'
    <3>1. srv.at \in {"version", "gone"} /\ Quiet /\ ChildSide
      BY <1>0, <2>3 DEF NegotiationInv, ChildTalk
    <3>2. ChildSide'
      BY <1>4, <2>1, <2>2, <3>1 DEF ChildSide, SrvGone
    <3>3. ChildTalk'
      BY <1>2, <1>4, <3>1 DEF ChildTalk, Quiet, FirstSends
    <3>4. QED BY <3>2, <3>3
  <2>4. ASSUME pcon.proxy.peer = "other" PROVE OtherSide' /\ OtherTalk'
    <3>1. Quiet /\ ~srv.granted /\ OtherSide
      BY <1>0, <2>4 DEF NegotiationInv, OtherTalk
    <3>2. OtherSide'
      <4>1. up' \in Messages'
        BY <2>1, <2>2, <3>1 DEF Messages
      <4>2. QED BY <1>4, <3>1, <4>1 DEF OtherSide, UserPwd
    <3>3. down' = <<>> /\ (up' = FirstMessage \/ up' = <<>>)
      BY <1>4, <2>1, <3>1 DEF Quiet
    <3>4. OtherTalk'
      <4>1. Len(down') <= 7
        BY <3>3
      <4>2. QED BY <1>2, <1>4, <2>2, <3>1, <3>3, <4>1 DEF OtherTalk, FirstSends, Pending, S4No
    <3>5. QED BY <3>2, <3>4
  <2>5. QED BY <1>4, <2>0, <2>3, <2>4, WentOn
<1>5. QED BY <1>1, <1>3, <1>4, WriteIs

(* The actions that send.                                                  *)
LEMMA SendMetKeeps ==
  ASSUME NegotiationInv, SendMet
  PROVE  NegotiationInv'
BY FirstKeeps DEF SendMet, At

LEMMA S4SendReqKeeps ==
  ASSUME NegotiationInv, S4SendReq
  PROVE  NegotiationInv'
<1>1. CASE Fail /\ link' = link /\ down' = down
  BY <1>1, FailKeeps DEF NegotiationInv, UpTypes
<1>2. CASE Write(S4Request, "S4_WAITREQ")
  BY <1>2, FirstKeeps DEF S4SendReq, At
<1>3. QED BY <1>1, <1>2 DEF S4SendReq

LEMMA HcSendReqKeeps ==
  ASSUME NegotiationInv, HcSendReq
  PROVE  NegotiationInv'
BY FirstKeeps DEF HcSendReq, At

LEMMA SendAuthKeeps ==
  ASSUME NegotiationInv, SendAuth
  PROVE  NegotiationInv'
<1>0. Talking /\ UpTypes /\ ByType /\ pcon.status = "S5_SENDAUTH"
  BY DEF NegotiationInv, Talking, SendAuth, At
<1>1. pcon.proxy.peer = "other" /\ OtherSide /\ Quiet /\ ~srv.granted
  BY <1>0, ProxyIs DEF NegotiationInv, ChildTalk, OtherTalk
<1>2. CASE ~pcon.proxy.auth
  BY <1>2, ReturnKeeps DEF SendAuth, NegotiationInv, UpTypes
<1>3. CASE pcon.proxy.auth
  <2> DEFINE msg == AuthMessage(pcon.proxy.cred)
  <2>1. Write(msg, "S5_WAITAUTH") /\ msg \in Seq(Nat) /\ "S5_WAITAUTH" \in Statuses
    BY <1>0, <1>3, ProxyIs, AuthMessageFacts DEF SendAuth, Statuses
  <2>2. CASE NegotiationInv'
    BY <2>2
  <2>3. CASE /\ UpTypes' /\ pcon'.proxy = pcon.proxy /\ pcon'.cmd = pcon.cmd /\ pcon'.status = "S5_WAITAUTH"
             /\ pcon'.ctcp_port = pcon.ctcp_port /\ pc' = "poll"
             /\ up' = (IF SrvGone THEN up ELSE up \o msg) /\ srv' = srv /\ link' = link /\ down' = down
    <3>0. up' = <<>> \/ up' = msg
      BY <1>1, <2>1, <2>3, AppendToNothing DEF Quiet
    <3>1. down' = <<>> /\ Len(down') <= 2
      BY <1>1, <2>3 DEF Quiet
    <3>2. msg' = msg /\ Messages' = Messages
      BY <2>3, SameMessages DEF AuthMessage
    <3>3. msg \in Messages /\ <<>> \in Messages
      BY <1>3 DEF Messages
    <3> HIDE DEF msg
    <3>4. OtherSide'
      BY <1>1, <2>3, <3>0, <3>2, <3>3 DEF OtherSide, UserPwd
    <3>5. OtherTalk'
      BY <1>1, <2>3, <3>0, <3>1, <3>2 DEF OtherTalk, FirstSends, msg
    <3>6. ByType'
      BY <1>0, <2>3 DEF ByType
    <3>7. QED BY <1>1, <2>3, <3>4, <3>5, <3>6, WentOn
  <2>4. QED BY <2>1, <2>2, <2>3, WriteIs
<1>4. QED BY <1>2, <1>3

LEMMA SendReqKeeps ==
  ASSUME NegotiationInv, SendReq
  PROVE  NegotiationInv'
<1>0. Talking /\ UpTypes /\ ByType /\ pcon.status = "S5_SENDREQ"
  BY DEF NegotiationInv, Talking, SendReq, At
<1>1. Write(Request, "S5_WAITREQ") /\ Request \in Seq(Nat) /\ "S5_WAITREQ" \in Statuses
  BY <1>0, ProxyIs, RequestFacts DEF SendReq, Statuses
<1>2. CASE NegotiationInv'
  BY <1>2
<1>3. CASE /\ UpTypes' /\ pcon'.proxy = pcon.proxy /\ pcon'.cmd = pcon.cmd /\ pcon'.status = "S5_WAITREQ"
           /\ pcon'.ctcp_port = pcon.ctcp_port /\ pc' = "poll"
           /\ up' = (IF SrvGone THEN up ELSE up \o Request) /\ srv' = srv /\ link' = link /\ down' = down
  <2>1. up = <<>> => up' = (IF SrvGone THEN <<>> ELSE Request)
    BY <1>1, <1>3, AppendToNothing
  <2>2. /\ Methods' = Methods /\ Request' = Request /\ FirstMessage' = FirstMessage
        /\ Messages' = Messages /\ Whose' = Whose
    BY <1>3, SameMessages
  <2>3. ASSUME pcon.proxy.peer = "child" PROVE ChildSide' /\ ChildTalk'
    <3>1. /\ down = <<>> /\ srv.at \in {"request", "gone"} /\ (srv.at = "request" => up = <<>>)
          /\ pcon.ctcp_port = CtcpPort /\ ChildSide
      BY <1>0, <2>3 DEF NegotiationInv, ChildTalk
    <3>2. ChildSide'
      BY <1>3, <2>1, <2>2, <3>1 DEF ChildSide, SrvGone
    <3>3. ChildTalk'
      BY <1>3, <3>1 DEF ChildTalk, FirstSends
    <3>4. QED BY <3>2, <3>3
  <2>4. ASSUME pcon.proxy.peer = "other" PROVE OtherSide' /\ OtherTalk'
    <3>1. Quiet /\ ~srv.granted /\ OtherSide
      BY <1>0, <2>4 DEF NegotiationInv, OtherTalk
    <3>2. down' = <<>> /\ (up' = Request \/ up' = <<>>)
      BY <1>3, <2>1, <3>1 DEF Quiet
    <3>3. OtherSide'
      <4>1. up' \in Messages'
        BY <2>2, <3>2 DEF Messages
      <4>2. QED BY <1>3, <3>1, <4>1 DEF OtherSide, UserPwd
    <3>4. OtherTalk'
      BY <1>3, <2>2, <3>1, <3>2 DEF OtherTalk, FirstSends, Pending
    <3>5. QED BY <3>3, <3>4
  <2>5. ByType'
    BY <1>0, <1>3 DEF ByType
  <2>6. QED BY <1>3, <2>3, <2>4, <2>5, WentOn
<1>4. QED BY <1>1, <1>2, <1>3, WriteIs

(* A step that reads and goes on.                                          *)
LEMMA GoneOn ==
  ASSUME NegotiationInv, NEW s \in Statuses, NEW f \in Flags, Goto(s, f), up' = up, srv' = srv, link' = link, down' \in Seq(Nat)
  PROVE  /\ UpTypes' /\ pcon'.proxy = pcon.proxy /\ pcon'.cmd = pcon.cmd /\ pcon'.status = s
         /\ pcon'.ctcp_port = pcon.ctcp_port /\ pc' = "poll"
         /\ pcon.proxy.peer = "child" => ChildSide'
         /\ pcon.proxy.peer = "other" => OtherSide'
<1>1. /\ pcon' \in PconValues /\ pcon'.proxy = pcon.proxy /\ pcon'.cmd = pcon.cmd
      /\ pcon'.status = s /\ pcon'.ctcp_port = pcon.ctcp_port /\ pc' = "poll"
  BY GotoIs
<1>2. UpTypes'
  BY <1>1 DEF NegotiationInv, UpTypes
<1>3. QED BY <1>1, <1>2, SameSides DEF NegotiationInv

LEMMA Exactly ==
  ASSUME NEW l \in Nat, NEW n \in Nat, n <= l, l <= n
  PROVE  n = l
OBVIOUS

LEMMA PortPart ==
  ASSUME NEW s \in Seq(Nat), NEW n \in Nat, n = 7, n <= Len(s)
  PROVE  SubSeq(s, 3, 7) \in Seq(Nat)
<1>1. Len(s) \in Nat
  OBVIOUS
<1> DEFINE t == 3
<1>2. \A i \in t..n : s[i] \in Nat
  BY <1>1
<1>3. t \in Int /\ n \in Int
  OBVIOUS
<1> HIDE DEF t
<1>4. SubSeq(s, t, n) \in Seq(Nat)
  BY <1>2, <1>3, SubSeqProperties
<1>5. QED BY <1>4, Zenon DEF t

(* The actions that read.                                                  *)
LEMMA WaitMetKeeps ==
  ASSUME NegotiationInv, WaitMet
  PROVE  NegotiationInv'
<1>0. Talking /\ UpTypes /\ ByType /\ pcon.status = "S5_WAITMET"
  BY DEF NegotiationInv, Talking, WaitMet, At
<1>1. PICK n \in 0..7 :
        /\ Read(7, n)
        /\ IF n < 7 \/ down[1] # 5 \/ down[2] \notin {0, 2} THEN Fail
           ELSE /\ pcon' = [pcon EXCEPT !.status = IF down[2] = 0 THEN "S5_SENDREQ" ELSE "S5_SENDAUTH",
                                        !.ctcp_port = SubSeq(down, 3, 7), !.flags = "WAITWRITE"]
                /\ pc' = "poll"
                /\ UNCHANGED <<up, srv>>
  BY DEF WaitMet
<1>2. /\ n \in Nat /\ n <= 7 /\ n <= Len(down) /\ down' \in Seq(Nat) /\ link' = link
      /\ n = Len(down) => down' = <<>>
      /\ n # 0 => down # <<>>
  <2>1. 7 \in Nat
    OBVIOUS
  <2>2. QED BY <1>0, <1>1, <2>1, ReadIs
<1>3. CASE Fail
  BY <1>2, <1>3, FailKeeps
<1>4. CASE ~Fail
  <2>1. /\ n = 7 /\ down # <<>> /\ down \in Seq(Nat)
        /\ pcon' = [pcon EXCEPT !.status = IF down[2] = 0 THEN "S5_SENDREQ" ELSE "S5_SENDAUTH",
                                !.ctcp_port = SubSeq(down, 3, 7), !.flags = "WAITWRITE"]
        /\ pc' = "poll" /\ up' = up /\ srv' = srv
    BY <1>0, <1>1, <1>2, <1>4 DEF UpTypes
  <2>2. SubSeq(down, 3, 7) \in Seq(Nat)
    BY <1>2, <2>1, PortPart
  <2>3. /\ pcon' \in PconValues /\ pcon'.proxy = pcon.proxy /\ pcon'.cmd = pcon.cmd
        /\ pcon'.status = (IF down[2] = 0 THEN "S5_SENDREQ" ELSE "S5_SENDAUTH")
        /\ pcon'.ctcp_port = SubSeq(down, 3, 7)
    BY <2>1, <2>2, Values DEF PconValues, Statuses, Flags
  <2>4. UpTypes'
    BY <1>0, <1>2, <2>1, <2>3 DEF UpTypes
  <2>5. /\ pcon.proxy.peer = "child" => ChildSide'
        /\ pcon.proxy.peer = "other" => OtherSide'
    BY <2>1, <2>3, SameSides DEF NegotiationInv
  <2>6. ASSUME pcon.proxy.peer = "child" PROVE ChildTalk'
    <3>1. down = Choice /\ srv.at \in {"request", "gone"} /\ (srv.at = "request" => up = <<>>)
      BY <1>0, <2>1, <2>6 DEF NegotiationInv, ChildTalk
    <3>2. Len(down) = 7 /\ down[2] = 0 /\ SubSeq(down, 3, 7) = CtcpPort
      BY <3>1, ChoiceFacts
    <3>3. down' = <<>>
      BY <1>2, <2>1, <3>2
    <3>4. QED BY <2>1, <2>3, <3>1, <3>2, <3>3 DEF ChildTalk, FirstSends
  <2>7. ASSUME pcon.proxy.peer = "other" PROVE OtherTalk'
    <3>1. ~srv.granted /\ up = <<>> /\ Len(down) <= 7
      BY <1>0, <2>1, <2>7 DEF NegotiationInv, OtherTalk
    <3>2. down' = <<>>
      <4>1. Len(down) <= n
        BY <2>1, <3>1, Zenon
      <4>2. Len(down) \in Nat
        BY <2>1
      <4>3. n = Len(down)
        BY <1>2, <4>1, <4>2, Exactly, Zenon
      <4>4. QED BY <1>2, <4>3, Zenon
    <3>3. QED BY <2>1, <2>3, <3>1, <3>2 DEF OtherTalk, Quiet, FirstSends
  <2>8. ByType' /\ pcon'.status # "none"
    BY <1>0, <2>1, <2>3 DEF ByType
  <2>9. QED BY <1>2, <2>1, <2>3, <2>4, <2>5, <2>6, <2>7, <2>8, WentOn
<1>5. QED BY <1>3, <1>4

LEMMA WaitAuthKeeps ==
  ASSUME NegotiationInv, WaitAuth
  PROVE  NegotiationInv'
<1>0. Talking /\ UpTypes /\ ByType /\ pcon.status = "S5_WAITAUTH"
  BY DEF NegotiationInv, Talking, WaitAuth, At
<1>1. PICK n \in 0..2 :
        /\ Read(2, n)
        /\ IF n < 2 \/ down[2] # 0 THEN Fail
           ELSE Goto("S5_SENDREQ", "WAITWRITE") /\ UNCHANGED <<up, srv>>
  BY DEF WaitAuth
<1>2. /\ n \in Nat /\ n <= 2 /\ n <= Len(down) /\ down' \in Seq(Nat) /\ link' = link
      /\ n = Len(down) => down' = <<>>
      /\ n # 0 => down # <<>>
  <2>1. 2 \in Nat
    OBVIOUS
  <2>2. QED BY <1>0, <1>1, <2>1, ReadIs
<1>3. CASE Fail
  BY <1>2, <1>3, FailKeeps
<1>4. CASE ~Fail
  <2>1. n = 2 /\ down # <<>> /\ Goto("S5_SENDREQ", "WAITWRITE") /\ up' = up /\ srv' = srv
    BY <1>0, <1>1, <1>2, <1>4
  <2>2. /\ UpTypes' /\ pcon'.proxy = pcon.proxy /\ pcon'.cmd = pcon.cmd /\ pcon'.status = "S5_SENDREQ"
        /\ pc' = "poll" /\ (pcon.proxy.peer = "other" => OtherSide')
    <3>1. "S5_SENDREQ" \in Statuses /\ "WAITWRITE" \in Flags
      BY DEF Statuses, Flags
    <3>2. QED BY <1>2, <2>1, <3>1, GoneOn
  <2>3. pcon.proxy.peer = "other" /\ ~srv.granted /\ up = <<>> /\ Len(down) <= 2
    BY <1>0, <2>1, ProxyIs DEF NegotiationInv, ChildTalk, OtherTalk
  <2>4. down' = <<>>
    <3>1. Len(down) <= n
      BY <2>1, <2>3, Zenon
    <3>2. Len(down) \in Nat
      BY <1>0 DEF UpTypes
    <3>3. n = Len(down)
      BY <1>2, <3>1, <3>2, Exactly, Zenon
    <3>4. QED BY <1>2, <3>3, Zenon
  <2>5. OtherTalk'
    BY <2>1, <2>2, <2>3, <2>4 DEF OtherTalk, Quiet, FirstSends
  <2>6. ByType'
    BY <1>0, <2>2 DEF ByType
  <2>7. QED BY <1>2, <2>1, <2>2, <2>3, <2>5, <2>6, WentOn
<1>5. QED BY <1>3, <1>4

(* What has been granted when the reply says so.                           *)
LEMMA ReplyGrants ==
  ASSUME NegotiationInv, Talking, pcon.status = "S5_WAITREQ", pcon.cmd = "CONNECT", down # <<>>, down[2] = 0
  PROVE  /\ srv.granted /\ (Own => pcon.ctcp_port = CtcpPort)
         /\ pcon.proxy.peer = "other" => up = <<>>
<1>1. CASE pcon.proxy.peer = "child"
  <2>1. \A code \in 1..7 : down # Reply(code)
    <3>1. ASSUME NEW code \in 1..7, down = Reply(code) PROVE FALSE
      <4>1. code \in Nat /\ code # 0
        OBVIOUS
      <4>2. QED BY <3>1, <4>1, ReplyFacts
    <3>2. QED BY <3>1
  <2>2. srv.at = "done" /\ ChildSide /\ pcon.ctcp_port = CtcpPort
    BY <1>1, <2>1 DEF NegotiationInv, ChildTalk
  <2>3. QED BY <1>1, <2>2 DEF ChildSide
<1>2. CASE pcon.proxy.peer = "other"
  <2>1. down # Reply(2)
    <3>1. 2 \in Nat
      OBVIOUS
    <3>2. Reply(2)[2] = 2
      BY <3>1, ReplyFacts
    <3>3. QED BY <3>2
  <2>2. srv.granted /\ up = <<>>
    BY <1>2, <2>1 DEF NegotiationInv, OtherTalk, Pending
  <2>3. QED BY <1>2, <2>2 DEF Own
<1>3. QED BY <1>1, <1>2, ProxyIs DEF NegotiationInv

(* A SOCKS4 reply that grants can only come from another proxy.            *)
LEMMA S4Grants ==
  ASSUME NegotiationInv, Talking, pcon.status = "S4_WAITREQ", down # <<>>, down[2] = 90
  PROVE  srv.granted /\ up = <<>> /\ ~Own
<1>1. pcon.proxy.type = "SOCKS4"
  BY DEF NegotiationInv, ByType
<1>2. pcon.proxy.peer # "child"
  <2>1. down # Reply(1)
    <3>1. 1 \in Nat
      OBVIOUS
    <3>2. Reply(1)[2] = 1
      BY <3>1, ReplyFacts
    <3>3. QED BY <3>2
  <2>2. QED BY <2>1 DEF NegotiationInv, ChildTalk
<1>3. down # S4No
  BY DEF S4No
<1>4. pcon.proxy.peer = "other"
  BY <1>2, ProxyIs DEF NegotiationInv
<1>5. QED BY <1>1, <1>3, <1>4 DEF NegotiationInv, OtherTalk, Pending, Own

(* The actions that read the last reply.                                   *)
LEMMA WaitReqKeeps ==
  ASSUME NegotiationInv, WaitReq
  PROVE  NegotiationInv'
<1>0. Talking /\ UpTypes /\ ByType /\ pcon.status = "S5_WAITREQ"
  BY DEF NegotiationInv, Talking, WaitReq, At
<1>1. PICK n \in 0..NEGBUFLEN :
        /\ Read(NEGBUFLEN, n)
        /\ IF S5Refused(n) THEN Fail
           ELSE \/ /\ pcon.cmd # "BIND"
                   /\ pcon' = [pcon EXCEPT !.status = "CONNECTED"] /\ Return("ok")
                \/ /\ pcon.cmd = "BIND"
                   /\ Goto("S5_WAITREQ2", "WAITREAD") /\ UNCHANGED <<up, srv>>
                \/ n < 5 /\ Return("crash") /\ UNCHANGED pcon
  BY DEF WaitReq
<1>2. n \in Nat /\ down' \in Seq(Nat) /\ link' = link /\ (n # 0 => down # <<>>)
  <2>1. NEGBUFLEN \in Nat
    BY DEF NEGBUFLEN
  <2>2. QED BY <1>0, <1>1, <2>1, ReadIs
<1>3. CASE Fail
  BY <1>2, <1>3, FailKeeps
<1>4. CASE Return("crash") /\ pcon' = pcon
  BY <1>2, <1>4, ReturnKeeps
<1>5. CASE ~S5Refused(n) /\ pcon.cmd # "BIND" /\ pcon' = [pcon EXCEPT !.status = "CONNECTED"] /\ Return("ok")
  <2>1. down # <<>> /\ down[2] = 0
    BY <1>2, <1>5 DEF S5Refused
  <2>2. QED BY <1>0, <1>2, <1>5, <2>1, ReplyGrants, OkKeeps
<1>6. CASE pcon.cmd = "BIND" /\ Goto("S5_WAITREQ2", "WAITREAD") /\ up' = up /\ srv' = srv
  <2>1. /\ UpTypes' /\ pcon'.proxy = pcon.proxy /\ pcon'.cmd = pcon.cmd /\ pcon'.status = "S5_WAITREQ2"
        /\ pc' = "poll" /\ (pcon.proxy.peer = "child" => ChildSide') /\ (pcon.proxy.peer = "other" => OtherSide')
    <3>1. "S5_WAITREQ2" \in Statuses /\ "WAITREAD" \in Flags
      BY DEF Statuses, Flags
    <3>2. QED BY <1>2, <1>6, <3>1, GoneOn
  <2>2. ChildTalk' /\ OtherTalk'
    BY <2>1 DEF ChildTalk, OtherTalk, FirstSends
  <2>3. ByType'
    BY <1>0, <1>6, <2>1 DEF ByType
  <2>4. QED BY <1>2, <1>6, <2>1, <2>2, <2>3, WentOn
<1>7. QED BY <1>1, <1>3, <1>4, <1>5, <1>6

LEMMA WaitReq2Keeps ==
  ASSUME NegotiationInv, WaitReq2
  PROVE  NegotiationInv'
<1>0. Talking /\ UpTypes /\ pcon.cmd # "CONNECT"
  BY DEF NegotiationInv, Talking, WaitReq2, At, ByType
<1>1. PICK n \in 0..NEGBUFLEN :
        /\ Read(NEGBUFLEN, n)
        /\ Fail \/ (pcon' = [pcon EXCEPT !.status = "CONNECTED"] /\ Return("ok"))
  BY DEF WaitReq2
<1>2. down' \in Seq(Nat) /\ link' = link
  <2>1. NEGBUFLEN \in Nat
    BY DEF NEGBUFLEN
  <2>2. QED BY <1>0, <1>1, <2>1, ReadIs
<1>3. QED BY <1>0, <1>1, <1>2, FailKeeps, OkKeeps

LEMMA S4WaitReqKeeps ==
  ASSUME NegotiationInv, S4WaitReq
  PROVE  NegotiationInv'
<1>0. Talking /\ UpTypes /\ ByType /\ pcon.status = "S4_WAITREQ"
  BY DEF NegotiationInv, Talking, S4WaitReq, At
<1>1. PICK n \in 0..NEGBUFLEN :
        /\ Read(NEGBUFLEN, n)
        /\ IF S4Refused(n) THEN Fail
           ELSE IF pcon.cmd = "CONNECT"
             THEN pcon' = [pcon EXCEPT !.status = "CONNECTED"] /\ Return("ok")
             ELSE Goto("S4_WAITREQ2", "WAITREAD") /\ UNCHANGED <<up, srv>>
  BY DEF S4WaitReq
<1>2. n \in Nat /\ down' \in Seq(Nat) /\ link' = link /\ (n # 0 => down # <<>>)
  <2>1. NEGBUFLEN \in Nat
    BY DEF NEGBUFLEN
  <2>2. QED BY <1>0, <1>1, <2>1, ReadIs
<1>3. CASE Fail
  BY <1>2, <1>3, FailKeeps
<1>4. CASE ~S4Refused(n) /\ pcon' = [pcon EXCEPT !.status = "CONNECTED"] /\ Return("ok")
  <2>1. down # <<>> /\ down[2] = 90
    BY <1>2, <1>4 DEF S4Refused
  <2>2. QED BY <1>0, <1>2, <1>4, <2>1, S4Grants, OkKeeps
<1>5. CASE pcon.cmd # "CONNECT" /\ Goto("S4_WAITREQ2", "WAITREAD") /\ up' = up /\ srv' = srv
  <2>1. /\ UpTypes' /\ pcon'.proxy = pcon.proxy /\ pcon'.cmd = pcon.cmd /\ pcon'.status = "S4_WAITREQ2"
        /\ pc' = "poll" /\ (pcon.proxy.peer = "child" => ChildSide') /\ (pcon.proxy.peer = "other" => OtherSide')
    <3>1. "S4_WAITREQ2" \in Statuses /\ "WAITREAD" \in Flags
      BY DEF Statuses, Flags
    <3>2. QED BY <1>2, <1>5, <3>1, GoneOn
  <2>2. ChildTalk' /\ OtherTalk'
    BY <2>1 DEF ChildTalk, OtherTalk, FirstSends
  <2>3. ByType'
    BY <1>0, <1>5, <2>1 DEF ByType
  <2>4. QED BY <1>2, <1>5, <2>1, <2>2, <2>3, WentOn
<1>6. QED BY <1>1, <1>3, <1>4, <1>5

LEMMA S4WaitReq2Keeps ==
  ASSUME NegotiationInv, S4WaitReq2
  PROVE  NegotiationInv'
<1>0. Talking /\ UpTypes /\ pcon.cmd # "CONNECT"
  BY DEF NegotiationInv, Talking, S4WaitReq2, At, ByType
<1>1. PICK n \in 0..NEGBUFLEN : Read(NEGBUFLEN, n) /\ (Fail \/ (Return("ok") /\ pcon' = pcon))
  BY DEF S4WaitReq2
<1>2. down' \in Seq(Nat) /\ link' = link
  <2>1. NEGBUFLEN \in Nat
    BY DEF NEGBUFLEN
  <2>2. QED BY <1>0, <1>1, <2>1, ReadIs
<1>3. CASE Return("ok") /\ pcon' = pcon
  <2>1. UpTypes' /\ OkInv'
    BY <1>0, <1>2, <1>3 DEF UpTypes, OkInv, Return
  <2>2. QED BY <1>2, <1>3, <2>1, Returned DEF Return
<1>4. QED BY <1>1, <1>2, <1>3, FailKeeps

LEMMA HcWaitReqKeeps ==
  ASSUME NegotiationInv, HcWaitReq
  PROVE  NegotiationInv'
<1>0. Talking /\ UpTypes /\ ~Socks
  BY DEF NegotiationInv, Talking, HcWaitReq, At, ByType, Socks
<1>1. PICK n \in 0..NEGBUFLEN :
        /\ Read(NEGBUFLEN, n)
        /\ Fail \/ (pcon' = [pcon EXCEPT !.status = "CONNECTED"] /\ Return("ok"))
  BY DEF HcWaitReq
<1>2. down' \in Seq(Nat) /\ link' = link
  <2>1. NEGBUFLEN \in Nat
    BY DEF NEGBUFLEN
  <2>2. QED BY <1>0, <1>1, <2>1, ReadIs
<1>3. QED BY <1>0, <1>1, <1>2, FailKeeps, OkKeeps

-----------------------------------------------------------------------------
(* The steps of the child.                                                 *)
LEMMA SayIs ==
  ASSUME UpTypes, NEW msg \in Seq(Nat), Say(msg)
  PROVE  /\ down' \in Seq(Nat)
         /\ Talking /\ down = <<>> => down' = msg
<1>1. down \in Seq(Nat)
  BY DEF UpTypes
<1>2. down \o msg \in Seq(Nat) /\ <<>> \o msg = msg
  BY <1>1, AppendToNothing
<1>3. Talking => ~ClientGone
  BY DEF Talking, ClientGone
<1>4. QED BY <1>1, <1>2, <1>3 DEF Say

(* Only a child of proxy_remote is at one of these places.                 *)
LEMMA ChildHere ==
  ASSUME NegotiationInv, srv.at \in {"version", "methods", "request", "name", "port", "bind"}
  PROVE  /\ pcon.proxy.peer = "child" /\ ChildSide /\ (Talking => ChildTalk) /\ ~srv.granted
         /\ UpTypes /\ (Talking => ByType)
<1>1. pcon.proxy.peer # "other"
  BY DEF NegotiationInv, OtherSide
<1>2. QED BY <1>1, ProxyIs DEF NegotiationInv, ChildSide

(* A child that gives up, with or without a word: only a client that waits *)
(* for its answer hears of it.                                             *)
LEMMA ChildGone ==
  ASSUME NegotiationInv, srv.at \in {"version", "methods", "request", "name", "port", "bind"},
         UNCHANGED <<pcon, pc, link>>, srv' = [srv EXCEPT !.at = "gone"], up' \in Seq(Nat), down' \in Seq(Nat),
         Talking /\ down' # down =>
           \/ /\ pcon.status = "S5_WAITREQ" /\ pcon.cmd = "CONNECT" => \E code \in 1..7 : down' = Reply(code)
              /\ pcon.status # "S4_WAITREQ" /\ pcon.status \notin {"none", "CONNECTING", "S5_WAITMET", "S5_SENDREQ"} \cup FirstSends
           \/ pcon.status = "S4_WAITREQ" /\ down' = Reply(1),
         Talking /\ up' # up => pcon.status \notin {"none", "CONNECTING"} \cup FirstSends
  PROVE  NegotiationInv'
<1>1. /\ pcon.proxy.peer = "child" /\ ChildSide /\ (Talking => ChildTalk) /\ ~srv.granted
      /\ UpTypes /\ (Talking => ByType)
  BY ChildHere
<1>2. srv' \in SrvValues /\ srv'.at = "gone" /\ srv'.granted = srv.granted /\ srv'.cred = srv.cred
  BY Values DEF SrvValues, Places
<1>3. UpTypes'
  BY <1>1, <1>2 DEF UpTypes
<1>4. ChildSide'
  BY <1>1, <1>2 DEF ChildSide
<1>5. ASSUME Talking PROVE ChildTalk'
  <2>1. ChildTalk /\ srv.at # "done"
    BY <1>1, <1>5
  <2>2. CASE down' = down
    BY <1>2, <1>5, <2>1, <2>2 DEF ChildTalk, FirstSends, Quiet
  <2>3. CASE down' # down
    BY <1>2, <1>5, <2>1, <2>3 DEF ChildTalk, FirstSends, Quiet
  <2>4. QED BY <2>2, <2>3
<1>6. QED BY <1>1, <1>2, <1>3, <1>4, <1>5, ChildWentOn

(* The actions of the child, in the order of negotiate().                  *)
LEMMA SrvVersionKeeps ==
  ASSUME NegotiationInv, SrvVersion
  PROVE  NegotiationInv'
<1>0. /\ srv.at = "version" /\ UNCHANGED <<pcon, pc, link>> /\ up' = Unread(up, 2) /\ Len(up) >= 2
  BY ReadingIs DEF SrvVersion, Readnb
<1>1. /\ pcon.proxy.peer = "child" /\ ChildSide /\ (Talking => ChildTalk) /\ ~srv.granted
      /\ UpTypes /\ (Talking => ByType)
  BY <1>0, ChildHere
<1>2. up = FirstMessage /\ up # <<>>
  BY <1>0, <1>1 DEF ChildSide
<1>3. up[1] = 5 <=> pcon.proxy.type = "SOCKS5"
  BY <1>1, <1>2, FirstFacts
<1>4. up' \in Seq(Nat)
  <2>1. up \in Seq(Nat) /\ Len(up) \in Nat /\ 2 \in 0..Len(up)
    BY <1>0, <1>1 DEF UpTypes
  <2> DEFINE two == 2
  <2>2. two \in 0..Len(up)
    BY <2>1
  <2> HIDE DEF two
  <2>3. Unread(up, two) \in Seq(Nat)
    BY <2>1, <2>2, UnreadIs
  <2>4. QED BY <1>0, <2>3, Zenon DEF two
<1>5. CASE up[1] # 5
  <2>1. Refuse(1)
    BY <1>5 DEF SrvVersion
  <2>2. Reply(1) \in Seq(Nat)
    <3>1. 1 \in Nat
      OBVIOUS
    <3>2. QED BY <3>1, ReplyFacts
  <2>3. down' \in Seq(Nat) /\ (Talking /\ down = <<>> => down' = Reply(1))
    BY <1>1, <2>1, <2>2, SayIs DEF Refuse
  <2>4. ASSUME Talking
        PROVE  /\ pcon.status \notin {"none", "CONNECTING", "S5_WAITMET", "S5_SENDREQ"} \cup FirstSends
               /\ pcon.status = "S5_WAITREQ" => pcon.cmd # "CONNECT"
               /\ pcon.status = "S4_WAITREQ" => down' = Reply(1)
    BY <1>0, <1>1, <1>2, <1>3, <1>5, <2>3, <2>4 DEF ChildTalk, ByType, Quiet, FirstSends
  <2>5. QED BY <1>0, <1>4, <2>1, <2>3, <2>4, ChildGone DEF Refuse
<1>6. CASE up[1] = 5
  <2>1. srv' = [srv EXCEPT !.at = "methods", !.n = up[2]] /\ down' = down
    BY <1>6 DEF SrvVersion
  <2>2. pcon.proxy.type = "SOCKS5" /\ up = Methods
    BY <1>1, <1>2, <1>3, <1>6, FirstFacts
  <2>3. up[2] \in Nat
    BY <2>2, MethodsFacts
  <2>4. /\ srv' \in SrvValues /\ srv'.at = "methods" /\ srv'.n = Methods[2] /\ srv'.granted = srv.granted
        /\ srv'.cred = srv.cred
    BY <2>1, <2>2, <2>3, Values DEF SrvValues, Places
  <2>5. UpTypes'
    BY <1>0, <1>1, <1>4, <2>1, <2>4 DEF UpTypes
  <2>6. Methods' = Methods /\ up' = Unread(Methods, 2)
    BY <1>0, <2>2, SameMessages
  <2>7. ChildSide'
    BY <1>0, <1>1, <2>2, <2>4, <2>6 DEF ChildSide, Unread
  <2>8. Talking => ChildTalk'
    BY <1>0, <1>1, <1>2, <2>1, <2>2, <2>4 DEF ChildTalk, ByType, Quiet, FirstSends
  <2>9. QED BY <1>0, <1>1, <2>4, <2>5, <2>7, <2>8, ChildWentOn
<1>7. QED BY <1>5, <1>6

LEMMA SrvMethodsKeeps ==
  ASSUME NegotiationInv, SrvMethods
  PROVE  NegotiationInv'
<1>0. /\ srv.at = "methods" /\ UNCHANGED <<pcon, pc, link>> /\ up' = Unread(up, srv.n)
  BY ReadingIs DEF SrvMethods, Readnb
<1>1. /\ pcon.proxy.peer = "child" /\ ChildSide /\ (Talking => ChildTalk) /\ ~srv.granted
      /\ UpTypes /\ (Talking => ByType)
  BY <1>0, ChildHere
<1>2. up = Unread(Methods, 2) /\ srv.n = Methods[2]
  BY <1>0, <1>1 DEF ChildSide
<1>3. up \in Seq(Nat) /\ srv.n = Len(up) /\ srv.n \in 1..2 /\ up[1] = 0
  BY <1>2, MethodsFacts
<1>4. up' = <<>>
  <2>1. srv.n \in 0..Len(up)
    BY <1>3
  <2>2. QED BY <1>0, <1>3, <2>1, UnreadIs
<1>5. srv' = [srv EXCEPT !.at = "request"] /\ Say(Choice)
  <2>1. 1 \in 1..srv.n
    BY <1>3
  <2>2. QED BY <1>3, <2>1 DEF SrvMethods, Choice
<1>6. srv' \in SrvValues /\ srv'.at = "request" /\ srv'.granted = srv.granted /\ srv'.cred = srv.cred
  BY <1>5, Values DEF SrvValues, Places
<1>7. down' \in Seq(Nat) /\ (Talking /\ down = <<>> => down' = Choice)
  BY <1>1, <1>5, ChoiceFacts, SayIs
<1>8. UpTypes'
  BY <1>0, <1>1, <1>4, <1>6, <1>7 DEF UpTypes
<1>9. ChildSide'
  BY <1>0, <1>1, <1>4, <1>6 DEF ChildSide
<1>10. Talking => ChildTalk'
  BY <1>0, <1>1, <1>4, <1>6, <1>7 DEF ChildTalk, Quiet, FirstSends
<1>11. QED BY <1>0, <1>1, <1>6, <1>8, <1>9, <1>10, ChildWentOn

LEMMA SrvRequestKeeps ==
  ASSUME NegotiationInv, SrvRequest
  PROVE  NegotiationInv'
<1>0. /\ srv.at = "request" /\ UNCHANGED <<pcon, pc, link>> /\ up' = Unread(up, 4) /\ Len(up) >= 4
  BY ReadingIs DEF SrvRequest, Readnb
<1>1. /\ pcon.proxy.peer = "child" /\ ChildSide /\ (Talking => ChildTalk) /\ ~srv.granted
      /\ UpTypes /\ (Talking => ByType)
  BY <1>0, ChildHere
<1>2. up = Request /\ up # <<>>
  BY <1>0, <1>1 DEF ChildSide
<1>3. up' = NamePart /\ up[2] = Code(pcon.cmd)
  BY <1>0, <1>1, <1>2, ProxyIs, RequestFacts
<1>4. up' \in Seq(Nat)
  BY <1>3, NamePartIs
<1>5. pcon.proxy.type = "SOCKS5"
  BY <1>0, <1>1 DEF ChildSide
<1>6. Talking => pcon.status \notin {"none", "CONNECTING", "S5_WAITMET", "S5_SENDREQ", "S4_WAITREQ"} \cup FirstSends
  BY <1>0, <1>1, <1>2, <1>5 DEF ChildTalk, ByType, Quiet, FirstSends
<1>7. CASE up[2] \notin {1, 2}
  <2>1. Refuse(7)
    BY <1>7 DEF SrvRequest
  <2>2. Reply(7) \in Seq(Nat)
    <3>1. 7 \in Nat
      OBVIOUS
    <3>2. QED BY <3>1, ReplyFacts
  <2>3. down' \in Seq(Nat)
    BY <1>1, <2>1, <2>2, SayIs DEF Refuse
  <2>4. pcon.cmd # "CONNECT"
    BY <1>3, <1>7 DEF Code
  <2>5. QED BY <1>0, <1>4, <1>6, <2>1, <2>3, <2>4, ChildGone DEF Refuse
<1>8. CASE up[2] \in {1, 2}
  <2>1. srv' = [srv EXCEPT !.at = "name", !.n = 1, !.cmd = up[2]] /\ down' = down
    BY <1>8 DEF SrvRequest
  <2>2. /\ srv' \in SrvValues /\ srv'.at = "name" /\ srv'.cmd = Code(pcon.cmd) /\ srv'.granted = srv.granted
        /\ srv'.cred = srv.cred
    <3>1. up[2] \in Nat
      BY <1>8
    <3>2. QED BY <1>3, <2>1, <3>1, Values DEF SrvValues, Places
  <2>3. UpTypes'
    BY <1>1, <1>4, <2>1, <2>2, <1>0 DEF UpTypes
  <2>4. ChildSide'
    BY <1>0, <1>1, <1>3, <1>5, <2>2 DEF ChildSide, Code
  <2>5. Talking => ChildTalk'
    BY <1>0, <1>1, <1>6, <2>1, <2>2 DEF ChildTalk, Quiet, FirstSends
  <2>6. QED BY <1>0, <1>1, <2>2, <2>3, <2>4, <2>5, ChildWentOn
<1>9. QED BY <1>7, <1>8

LEMMA SrvNameKeeps ==
  ASSUME NegotiationInv, SrvName
  PROVE  NegotiationInv'
<1>0. srv.at = "name" /\ UNCHANGED <<pcon, pc, link>>
  BY DEF SrvName
<1>1. /\ pcon.proxy.peer = "child" /\ ChildSide /\ (Talking => ChildTalk) /\ ~srv.granted
      /\ UpTypes /\ (Talking => ByType)
  BY <1>0, ChildHere
<1>2. up = NamePart /\ up # <<>> /\ pcon.proxy.type = "SOCKS5" /\ srv.cmd = Code(pcon.cmd)
  <2>1. up = NamePart /\ pcon.proxy.type = "SOCKS5" /\ srv.cmd = Code(pcon.cmd)
    BY <1>0, <1>1 DEF ChildSide
  <2>2. Len(NamePart) = 4
    BY NamePartIs, Zenon
  <2>3. NamePart # <<>>
    BY <2>2
  <2>4. QED BY <2>1, <2>3
<1>3. NameRead = <<Target>> /\ up' = TargetPort
  <2>1. NameRead = <<Target>>
    <3>1. up[1] + 1 = 2
      BY <1>2, NamePartFacts
    <3>2. QED BY <1>2, <3>1, NamePartFacts DEF NameRead
  <2>2. 1 + Len(NameRead) = 2
    BY <2>1
  <2>3. QED BY <1>2, <2>1, <2>2, NamePartFacts DEF SrvName
<1>4. up' \in Seq(Nat) /\ NameRead \in Seq(Nat)
  BY <1>3, PortFacts, NamePartIs
<1>5. Talking => /\ pcon.status \notin {"none", "CONNECTING", "S5_WAITMET", "S5_SENDREQ", "S4_WAITREQ"} \cup FirstSends
                 /\ pcon.status = "S5_WAITREQ" /\ pcon.cmd = "CONNECT" => down = <<>>
  BY <1>0, <1>1, <1>2 DEF ChildTalk, ByType, Quiet, FirstSends
<1>6. CASE srv' = [srv EXCEPT !.at = "port", !.name = NameRead] /\ down' = down
  <2>2. /\ srv' \in SrvValues /\ srv'.at = "port" /\ srv'.cmd = srv.cmd /\ srv'.granted = srv.granted
        /\ srv'.cred = srv.cred /\ srv'.name = <<Target>>
    BY <1>3, <1>4, <1>6, Values DEF SrvValues, Places
  <2>3. UpTypes'
    BY <1>0, <1>1, <1>4, <1>6, <2>2 DEF UpTypes
  <2>4. ChildSide'
    BY <1>0, <1>1, <1>2, <1>3, <2>2 DEF ChildSide, Code
  <2>5. Talking => ChildTalk'
    BY <1>0, <1>1, <1>5, <1>6, <2>2 DEF ChildTalk, Quiet, FirstSends
  <2>6. QED BY <1>0, <1>1, <2>2, <2>3, <2>4, <2>5, ChildWentOn
<1>7. CASE Refuse(1)
  <2>1. Reply(1) \in Seq(Nat) /\ 1 \in 1..7
    <3>1. 1 \in Nat /\ 1 \in 1..7
      OBVIOUS
    <3>2. QED BY <3>1, ReplyFacts
  <2>2. down' \in Seq(Nat) /\ (Talking /\ down = <<>> => down' = Reply(1))
    BY <1>1, <1>7, <2>1, SayIs DEF Refuse
  <2>3. QED BY <1>0, <1>4, <1>5, <1>7, <2>1, <2>2, ChildGone DEF Refuse
<1>8. QED BY <1>6, <1>7 DEF SrvName

LEMMA SrvConnectKeeps ==
  ASSUME NegotiationInv, SrvConnect
  PROVE  NegotiationInv'
<1>0. srv.at = "port" /\ UNCHANGED <<pcon, pc, link>> /\ up' = Unread(up, 2)
  BY ReadingIs DEF SrvConnect, Readnb
<1>1. /\ pcon.proxy.peer = "child" /\ ChildSide /\ (Talking => ChildTalk) /\ ~srv.granted
      /\ UpTypes /\ (Talking => ByType)
  BY <1>0, ChildHere
<1>2. /\ up = TargetPort /\ srv.name = <<Target>> /\ pcon.proxy.type = "SOCKS5" /\ srv.cmd = Code(pcon.cmd)
  BY <1>0, <1>1 DEF ChildSide
<1>3. up # <<>> /\ up' = <<>> /\ SubSeq(up, 1, 2) = TargetPort
  <2>1. TargetPort # <<>>
    BY DEF TargetPort
  <2>2. QED BY <1>0, <1>2, <2>1, PortFacts
<1>4. up' \in Seq(Nat)
  BY <1>3
<1>5. Talking => /\ pcon.status \notin {"none", "CONNECTING", "S5_WAITMET", "S5_SENDREQ", "S4_WAITREQ"} \cup FirstSends
                 /\ pcon.status = "S5_WAITREQ" /\ pcon.cmd = "CONNECT" => down = <<>>
  BY <1>0, <1>1, <1>2, <1>3 DEF ChildTalk, ByType, Quiet, FirstSends
<1>6. ASSUME NEW code \in {1, 3, 5}, Refuse(code) PROVE NegotiationInv'
  <2>1. Reply(code) \in Seq(Nat) /\ code \in 1..7
    <3>1. code \in Nat /\ code \in 1..7
      OBVIOUS
    <3>2. QED BY <3>1, ReplyFacts
  <2>2. down' \in Seq(Nat) /\ (Talking /\ down = <<>> => down' = Reply(code))
    BY <1>1, <1>6, <2>1, SayIs DEF Refuse
  <2>3. QED BY <1>0, <1>4, <1>5, <1>6, <2>1, <2>2, ChildGone DEF Refuse
<1>7. CASE /\ srv.cmd = 1
           /\ srv' = [srv EXCEPT !.at = "done", !.granted = TRUE, !.name = @ \o SubSeq(up, 1, 2)]
           /\ Say(FullReply)
  <2>1. pcon.cmd = "CONNECT"
    BY <1>1, <1>2, <1>7, ProxyIs DEF Code
  <2>2. Whose = <<Target>> /\ Whose' = Whose
    BY <1>0, <2>1 DEF Whose
  <2>3. srv.name \o SubSeq(up, 1, 2) = Whose \o TargetPort
    BY <1>2, <1>3, <2>2
  <2>4. Whose \o TargetPort \in Seq(Nat)
    <3>1. Whose \in Seq(Nat)
      BY <2>2, NamePartIs
    <3>2. QED BY <3>1, PortFacts, AppendToNothing
  <2>5. /\ srv' \in SrvValues /\ srv'.at = "done" /\ srv'.granted /\ srv'.cmd = srv.cmd
        /\ srv'.name = Whose \o TargetPort /\ srv'.cred = srv.cred
    BY <1>7, <2>3, <2>4, Values DEF SrvValues, Places
  <2>6. down' \in Seq(Nat)
    BY <1>1, <1>7, ReplyFacts, SayIs
  <2>7. UpTypes'
    BY <1>0, <1>1, <1>4, <2>5, <2>6 DEF UpTypes
  <2>8. ChildSide'
    BY <1>0, <1>1, <1>2, <2>2, <2>5 DEF ChildSide, Code
  <2>9. Talking => ChildTalk'
    BY <1>0, <1>1, <1>5, <2>5 DEF ChildTalk, Quiet, FirstSends
  <2>10. QED BY <1>0, <1>1, <2>5, <2>7, <2>8, <2>9, ChildWentOn
<1>8. CASE /\ srv.cmd = 2
           /\ srv' = [srv EXCEPT !.at = "bind", !.name = <<0>> \o SubSeq(up, 1, 2)]
           /\ Say(FullReply)
  <2>1. pcon.cmd = "BIND"
    BY <1>1, <1>2, <1>8, ProxyIs DEF Code
  <2>2. Whose = <<0>> /\ Whose' = Whose
    BY <1>0, <2>1 DEF Whose
  <2>3. <<0>> \o SubSeq(up, 1, 2) = Whose \o TargetPort
    BY <1>3, <2>2
  <2>4. Whose \o TargetPort \in Seq(Nat)
    <3>1. Whose \in Seq(Nat)
      BY <2>2
    <3>2. QED BY <3>1, PortFacts, AppendToNothing
  <2>5. /\ srv' \in SrvValues /\ srv'.at = "bind" /\ srv'.granted = srv.granted /\ srv'.cmd = srv.cmd
        /\ srv'.name = Whose \o TargetPort /\ srv'.cred = srv.cred
    BY <1>8, <2>3, <2>4, Values DEF SrvValues, Places
  <2>6. down' \in Seq(Nat)
    BY <1>1, <1>8, ReplyFacts, SayIs
  <2>7. UpTypes'
    BY <1>0, <1>1, <1>4, <2>5, <2>6 DEF UpTypes
  <2>8. ChildSide'
    BY <1>0, <1>1, <1>2, <1>8, <2>2, <2>5 DEF ChildSide, Code
  <2>9. Talking => ChildTalk'
    BY <1>0, <1>1, <1>5, <2>1, <2>5 DEF ChildTalk, Quiet, FirstSends
  <2>10. QED BY <1>0, <1>1, <2>5, <2>7, <2>8, <2>9, ChildWentOn
<1>9. QED BY <1>6, <1>7, <1>8 DEF SrvConnect

LEMMA SrvBoundKeeps ==
  ASSUME NegotiationInv, SrvBound
  PROVE  NegotiationInv'
<1>0. srv.at = "bind" /\ UNCHANGED <<pcon, pc, link, up>>
  BY DEF SrvBound
<1>1. /\ pcon.proxy.peer = "child" /\ ChildSide /\ (Talking => ChildTalk) /\ ~srv.granted
      /\ UpTypes /\ (Talking => ByType)
  BY <1>0, ChildHere
<1>2. /\ srv.cmd = 2 /\ pcon.proxy.type = "SOCKS5" /\ srv.cmd = Code(pcon.cmd) /\ srv.name = Whose \o TargetPort
  BY <1>0, <1>1 DEF ChildSide
<1>3. pcon.cmd = "BIND" /\ up \in Seq(Nat)
  BY <1>1, <1>2, ProxyIs DEF Code, UpTypes
<1>4. Talking => pcon.status \notin {"none", "CONNECTING", "S5_WAITMET", "S5_SENDREQ", "S4_WAITREQ"} \cup FirstSends
  BY <1>0, <1>1 DEF ChildTalk, ByType, Quiet, FirstSends
<1>5. CASE Refuse(1)
  <2>1. Reply(1) \in Seq(Nat)
    <3>1. 1 \in Nat
      OBVIOUS
    <3>2. QED BY <3>1, ReplyFacts
  <2>2. down' \in Seq(Nat)
    BY <1>1, <1>5, <2>1, SayIs DEF Refuse
  <2>3. QED BY <1>0, <1>3, <1>4, <1>5, <2>2, ChildGone DEF Refuse
<1>6. CASE srv' = [srv EXCEPT !.at = "done", !.granted = TRUE] /\ Say(FullReply)
  <2>1. /\ srv' \in SrvValues /\ srv'.at = "done" /\ srv'.granted /\ srv'.cmd = srv.cmd
        /\ srv'.name = srv.name /\ srv'.cred = srv.cred
    BY <1>6, Values DEF SrvValues, Places
  <2>2. down' \in Seq(Nat)
    BY <1>1, <1>6, ReplyFacts, SayIs
  <2>3. UpTypes'
    BY <1>0, <1>1, <2>1, <2>2 DEF UpTypes
  <2>4. Whose' = Whose
    BY <1>0 DEF Whose
  <2>5. ChildSide'
    BY <1>0, <1>1, <1>2, <2>1, <2>4 DEF ChildSide, Code
  <2>6. Talking => ChildTalk'
    BY <1>0, <1>1, <1>3, <1>4, <2>1 DEF ChildTalk, Quiet, FirstSends
  <2>7. QED BY <1>0, <1>1, <2>1, <2>3, <2>5, <2>6, ChildWentOn
<1>7. QED BY <1>5, <1>6 DEF SrvBound

LEMMA SrvAlarmKeeps ==
  ASSUME NegotiationInv, SrvAlarm
  PROVE  NegotiationInv'
<1>1. srv.at \in {"version", "methods", "request", "name", "port", "bind"}
  BY DEF SrvAlarm, Reading
<1>2. QED BY <1>1, ChildGone DEF SrvAlarm, NegotiationInv, UpTypes

LEMMA ReadnbFailsKeeps ==
  ASSUME NegotiationInv, ReadnbFails
  PROVE  NegotiationInv'
<1>1. srv.at \in {"version", "methods", "request", "name", "port", "bind"}
  BY DEF ReadnbFails, Reading
<1>2. down' = down /\ up' = up /\ srv' = [srv EXCEPT !.at = "gone"] /\ UNCHANGED <<pcon, pc, link>>
  BY DEF ReadnbFails, Refuse, Say
<1>3. QED BY <1>1, <1>2, ChildGone DEF NegotiationInv, UpTypes
-----------------------------------------------------------------------------
(* The steps of another proxy.                                             *)
LEMMA OtherHere ==
  ASSUME NegotiationInv, srv.at = "open"
  PROVE  pcon.proxy.peer = "other" /\ OtherSide /\ (Talking => OtherTalk) /\ UpTypes
<1>1. pcon.proxy.peer # "child"
  BY DEF NegotiationInv, ChildSide
<1>2. QED BY <1>1, ProxyIs DEF NegotiationInv

LEMMA OtherAnswersKeeps ==
  ASSUME NegotiationInv, OtherAnswers
  PROVE  NegotiationInv'
<1>0. srv.at = "open" /\ up # <<>> /\ up' = <<>> /\ UNCHANGED <<pcon, pc, link>>
  BY DEF OtherAnswers
<1>1. pcon.proxy.peer = "other" /\ OtherSide /\ (Talking => OtherTalk) /\ UpTypes
  BY <1>0, OtherHere
<1>2. PICK a \in Answers(up) : Say(a) /\ srv' = [srv EXCEPT !.granted = a \in Grants, !.cred = Given(up)]
  BY DEF OtherAnswers
<1>3. /\ a \in Seq(Nat) /\ Given(up) \in {srv.cred, <<>>, UserPwd(pcon.proxy.cred)}
  BY <1>0, <1>1, MessageFacts DEF OtherSide
<1>4. Given(up) \in Seq(Nat) /\ Given(up) \in {<<>>, UserPwd(pcon.proxy.cred)}
  <2>1. UserPwd(pcon.proxy.cred) \in Seq(Nat)
    BY <1>1, ProxyIs, CredIs
  <2>2. Given(up) \in {<<>>, UserPwd(pcon.proxy.cred)}
    BY <1>1, <1>3 DEF OtherSide
  <2>3. <<>> \in Seq(Nat)
    OBVIOUS
  <2>4. QED BY <2>1, <2>2, <2>3, Zenon
<1>5. /\ srv' \in SrvValues /\ srv'.at = "open" /\ srv'.granted = (a \in Grants) /\ srv'.cred = Given(up)
  <2>1. (a \in Grants) \in BOOLEAN
    OBVIOUS
  <2>2. QED BY <1>0, <1>2, <1>4, <2>1, Values DEF SrvValues, Places
<1>6. down' \in Seq(Nat) /\ (Talking /\ down = <<>> => down' = a)
  BY <1>1, <1>2, <1>3, SayIs
<1>7. UpTypes'
  BY <1>0, <1>1, <1>5, <1>6 DEF UpTypes
<1>8. OkInv'
  BY <1>0, <1>1, SameMessages DEF NegotiationInv, OkInv
<1>9. OtherSide'
  <2>1. <<>> \in Messages /\ Messages' = Messages
    BY <1>0, SameMessages DEF Messages
  <2>2. QED BY <1>0, <1>4, <1>5, <2>1 DEF OtherSide, UserPwd
<1>10. ASSUME Talking PROVE OtherTalk'
  <2>1. OtherTalk
    BY <1>1, <1>10
  <2>2. CASE pcon.status = "S5_WAITMET"
    <3>1. up = Methods /\ down = <<>>
      BY <1>0, <2>1, <2>2 DEF OtherTalk
    <3>2. Len(a) <= 7 /\ a \notin Grants
      BY <1>1, <1>2, <3>1, MethodsAnswered
    <3>3. QED BY <1>0, <1>5, <1>6, <1>10, <2>2, <3>1, <3>2 DEF OtherTalk, FirstSends
  <2>3. CASE pcon.status = "S5_WAITAUTH"
    <3>1. up = AuthMessage(pcon.proxy.cred) /\ down = <<>>
      BY <1>0, <2>1, <2>3 DEF OtherTalk
    <3>2. Len(a) <= 2 /\ a \notin Grants
      BY <1>1, <1>2, <3>1, AuthAnswered
    <3>3. QED BY <1>0, <1>5, <1>6, <1>10, <2>3, <3>1, <3>2 DEF OtherTalk, FirstSends
  <2>4. CASE pcon.status = "S5_WAITREQ"
    <3>1. up = Request /\ down = <<>>
      BY <1>0, <2>1, <2>4 DEF OtherTalk, Pending
    <3>2. a \in Grants \/ a = Reply(2)
      BY <1>1, <1>2, <3>1, RequestAnswered, GrantsAre
    <3>3. QED BY <1>0, <1>5, <1>6, <1>10, <2>4, <3>1, <3>2 DEF OtherTalk, FirstSends, Pending, Reply
  <2>5. CASE pcon.status = "S4_WAITREQ"
    <3>1. up = S4Request /\ down = <<>>
      BY <1>0, <2>1, <2>5 DEF OtherTalk, Pending
    <3>2. a \in Grants \/ a = S4No
      BY <1>1, <1>2, <3>1, S4Answered, GrantsAre
    <3>3. QED BY <1>0, <1>5, <1>6, <1>10, <2>5, <3>1, <3>2 DEF OtherTalk, FirstSends, Pending, S4No
  <2>6. CASE pcon.status \notin {"S5_WAITMET", "S5_WAITAUTH", "S5_WAITREQ", "S4_WAITREQ"}
    <3>1. pcon.status \notin {"none", "CONNECTING", "S5_SENDAUTH", "S5_SENDREQ"} \cup FirstSends
      BY <1>0, <2>1 DEF OtherTalk, Quiet
    <3>2. QED BY <1>0, <2>6, <3>1 DEF OtherTalk
  <2>7. QED BY <2>2, <2>3, <2>4, <2>5, <2>6
<1>11. QED BY <1>0, <1>1, <1>5, <1>7, <1>8, <1>9, <1>10, OtherWentOn

LEMMA OtherGoesOnKeeps ==
  ASSUME NegotiationInv, OtherGoesOn
  PROVE  NegotiationInv'
<1>0. /\ srv.at = "open" /\ srv.granted /\ UNCHANGED <<pcon, pc, link, up>>
      /\ srv' = [srv EXCEPT !.at = "done"]
  BY DEF OtherGoesOn
<1>1. pcon.proxy.peer = "other" /\ OtherSide /\ (Talking => OtherTalk) /\ UpTypes
  BY <1>0, OtherHere
<1>2. srv' \in SrvValues /\ srv'.at = "done" /\ srv'.granted = srv.granted /\ srv'.cred = srv.cred
  BY <1>0, Values DEF SrvValues, Places
<1>3. down' \in Seq(Nat)
  <2>1. <<0, 90>> \in Seq(Nat) /\ FullReply \in Seq(Nat)
    BY ReplyFacts
  <2>2. PICK msg \in Seq(Nat) : Say(msg)
    BY <2>1 DEF OtherGoesOn
  <2>3. QED BY <1>1, <2>2, SayIs
<1>4. UpTypes'
  BY <1>0, <1>1, <1>2, <1>3 DEF UpTypes
<1>5. OkInv'
  BY <1>0, <1>2, SameMessages DEF NegotiationInv, OkInv
<1>6. OtherSide'
  BY <1>0, <1>1, <1>2, SameMessages DEF OtherSide, UserPwd
<1>7. Talking => OtherTalk'
  BY <1>0, <1>1, <1>2, SameMessages DEF OtherTalk, Quiet, FirstSends, Pending
<1>8. QED BY <1>0, <1>1, <1>2, <1>4, <1>5, <1>6, <1>7, OtherWentOn

LEMMA OtherClosesKeeps ==
  ASSUME NegotiationInv, OtherCloses
  PROVE  NegotiationInv'
<1>0. /\ srv.at \in {"open", "done"} /\ pcon.proxy.peer = "other" /\ UNCHANGED <<pcon, pc, link, up, down>>
      /\ srv' = [srv EXCEPT !.at = "gone"]
  BY DEF OtherCloses
<1>1. OtherSide /\ (Talking => OtherTalk) /\ UpTypes
  BY <1>0 DEF NegotiationInv
<1>2. srv' \in SrvValues /\ srv'.at = "gone" /\ srv'.granted = srv.granted /\ srv'.cred = srv.cred
  BY <1>0, Values DEF SrvValues, Places
<1>3. UpTypes'
  BY <1>0, <1>1, <1>2 DEF UpTypes
<1>4. OkInv'
  BY <1>0, <1>2, SameMessages DEF NegotiationInv, OkInv
<1>5. OtherSide'
  BY <1>0, <1>1, <1>2, SameMessages DEF OtherSide, UserPwd
<1>6. Talking => OtherTalk'
  BY <1>0, <1>1, <1>2, SameMessages DEF OtherTalk, Quiet, FirstSends, Pending, AuthMessage, Reply, S4No
<1>7. QED BY <1>0, <1>1, <1>2, <1>3, <1>4, <1>5, <1>6, OtherWentOn

(* The invariant holds at first, and every step keeps it.                  *)
LEMMA UpInitHolds ==
  ASSUME UpInit
  PROVE  NegotiationInv
<1>1. PICK p \in Proxies, cmd \in Cmds :
        /\ pcon = [proxy |-> p, cmd |-> cmd, status |-> "none", flags |-> NoFlag,
                   ctcp_port |-> <<>>, sock |-> "none"]
        /\ srv = [at |-> "none", n |-> 0, cmd |-> 0, name |-> <<>>, granted |-> FALSE, cred |-> <<>>]
  BY DEF UpInit
<1>2. pc = "start" /\ link = "none" /\ up = <<>> /\ down = <<>>
  BY DEF UpInit
<1>3. <<>> \in Seq(Nat)
  OBVIOUS
<1>4. pcon \in PconValues /\ pcon.status = "none" /\ pcon.proxy = p
  BY <1>1, <1>3 DEF PconValues, Statuses, Flags, NoFlag
<1>5. srv \in SrvValues /\ srv.at = "none" /\ ~srv.granted /\ srv.cred = <<>>
  BY <1>1, <1>3 DEF SrvValues, Places
<1>6. UpTypes /\ LinkInv /\ OkInv /\ ByType
  BY <1>2, <1>3, <1>4, <1>5 DEF UpTypes, LinkInv, OkInv, ByType
<1>7. ChildSide /\ ChildTalk
  BY <1>2, <1>4, <1>5 DEF ChildSide, ChildTalk, Quiet, FirstSends
<1>8. OtherSide /\ OtherTalk
  BY <1>2, <1>4, <1>5 DEF OtherSide, OtherTalk, Messages, Quiet, FirstSends
<1>9. QED BY <1>6, <1>7, <1>8 DEF NegotiationInv

LEMMA UpStutters ==
  ASSUME NegotiationInv, UNCHANGED upvars
  PROVE  NegotiationInv'
<1>1. UNCHANGED <<pcon, pc, link, up, down, srv>>
  BY DEF upvars
<1>2. UpTypes' /\ LinkInv' /\ OkInv' /\ ByType' = ByType /\ Talking' = Talking
  BY <1>1, SameMessages DEF NegotiationInv, UpTypes, LinkInv, OkInv, ByType, Talking
<1>3. (ChildSide => ChildSide') /\ (OtherSide => OtherSide')
  BY <1>1, SameSides
<1>4. ChildTalk => ChildTalk'
  BY <1>1 DEF ChildTalk, Quiet, FirstSends
<1>5. OtherTalk => OtherTalk'
  BY <1>1, SameMessages DEF OtherTalk, Quiet, FirstSends, Pending, AuthMessage, Reply, S4No
<1>6. QED BY <1>1, <1>2, <1>3, <1>4, <1>5 DEF NegotiationInv

LEMMA UpStopKeeps ==
  ASSUME NegotiationInv, ConnectNbFails \/ PollFails \/ Alarm \/ PollDefault
  PROVE  NegotiationInv'
<1>0. UpTypes /\ down \in Seq(Nat)
  BY DEF NegotiationInv, UpTypes
<1>1. CASE ConnectNbFails \/ Alarm
  <2>1. UpTypes' /\ pc' \in {"null", "killed"}
    BY <1>0, <1>1 DEF ConnectNbFails, Alarm, UpTypes
  <2>2. QED BY <1>1, <2>1, Stopped DEF ConnectNbFails, Alarm
<1>2. CASE PollFails
  BY <1>0, <1>2, FailKeeps DEF PollFails
<1>3. CASE PollDefault
  <2>1. pcon' \in PconValues /\ pcon'.proxy = pcon.proxy /\ pcon'.cmd = pcon.cmd /\ pcon'.status = pcon.status
    BY <1>3, Values DEF PconValues, PollDefault
  <2>2. UpTypes'
    BY <1>0, <1>3, <2>1 DEF UpTypes, PollDefault, Return
  <2>3. QED BY <1>3, <2>1, <2>2, Stopped DEF PollDefault, Return
<1>4. QED BY <1>1, <1>2, <1>3

LEMMA UpNextKeeps ==
  ASSUME NegotiationInv, UpNext
  PROVE  NegotiationInv'
<1>1. CASE Client
  BY <1>1, UpStopKeeps, ConnectNbKeeps, PollKeeps, PollConnectingKeeps, SendMetKeeps, WaitMetKeeps, SendAuthKeeps,
     WaitAuthKeeps, SendReqKeeps, WaitReqKeeps, WaitReq2Keeps, S4SendReqKeeps, S4WaitReqKeeps, S4WaitReq2Keeps,
     HcSendReqKeeps, HcWaitReqKeeps DEF Client
<1>2. CASE Alarm
  BY <1>2, UpStopKeeps
<1>3. CASE Connected
  BY <1>3, ConnectedKeeps
<1>4. CASE Child
  BY <1>4, SrvVersionKeeps, SrvMethodsKeeps, SrvRequestKeeps, SrvNameKeeps, SrvConnectKeeps, ReadnbFailsKeeps DEF Child
<1>5. CASE SrvBound \/ SrvAlarm
  BY <1>5, SrvBoundKeeps, SrvAlarmKeeps
<1>6. CASE OtherAnswers \/ OtherGoesOn \/ OtherCloses
  BY <1>6, OtherAnswersKeeps, OtherGoesOnKeeps, OtherClosesKeeps
<1>7. QED BY <1>1, <1>2, <1>3, <1>4, <1>5, <1>6 DEF UpNext

(* The client's status, the bytes under way in both directions and the     *)
(* server's place always fit each other: what each side has sent and the   *)
(* other not yet read is exactly a message the reader expects at that      *)
(* place.                                                                  *)
THEOREM NegotiationInvariant == UpSpec => []NegotiationInv
<1>1. UpInit => NegotiationInv
  BY UpInitHolds
<1>2. NegotiationInv /\ [UpNext]_upvars => NegotiationInv'
  BY UpNextKeeps, UpStutters
<1>3. QED BY <1>1, <1>2, PTL DEF UpSpec

(* However read() cuts the answers up, whatever poll() is asked for and    *)
(* whatever another proxy answers, proxy_connect returns a SOCKS           *)
(* connection for CONNECT only if the server granted it, and from a child  *)
(* of proxy_remote with the port that child announced.                     *)
THEOREM GrantedWhenReturned == UpSpec => []Granted
<1>1. NegotiationInv => Granted
  BY DEF NegotiationInv, OkInv, Granted
<1>2. QED BY <1>1, NegotiationInvariant, PTL

(* negotiate() connects only to the name and the port that                 *)
(* proxy_poll_connect was given, with or without credentials offered.      *)
THEOREM ConnectsAsAsked == UpSpec => []AskedFor
<1>1. NegotiationInv => AskedFor
  BY DEF NegotiationInv, ChildSide, AskedFor, Whose
<1>2. QED BY <1>1, NegotiationInvariant, PTL

(* A proxy that is sent credentials, by RFC 1929 or by                     *)
(* proxy_encode_base64, reads the configured user and password, for every  *)
(* user and password of up to CredMax bytes.                               *)
THEOREM CredentialsReadAsGiven == UpSpec => []CredentialsRead
<1>1. NegotiationInv => CredentialsRead
  BY ProxyIs DEF NegotiationInv, ChildSide, OtherSide, CredentialsRead
<1>2. QED BY <1>1, NegotiationInvariant, PTL
=============================================================================
