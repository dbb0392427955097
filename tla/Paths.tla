-------------------------------- MODULE Paths --------------------------------
(***************************************************************************)
(* The table of paths of the server: server_worker of srvctcp.c, which     *)
(* reads a packet or times out, finds the path it came from, and then      *)
(* looks for paths that have been silent for too long.  Each path has a    *)
(* congestion window (Cwnd).                                               *)
(*                                                                         *)
(* A packet is any that one of the client's addresses may send; what there *)
(* is to send is any number of packets.                                    *)
(***************************************************************************)
EXTENDS Cwnd, FiniteSets

CONSTANTS
  Addrs,           \* addresses of the client
  MAX_CONNECT,     \* the size of the table
  Setups,          \* the connections that are tried, see Setup
  NULL

(* The congestion control, the addresses the client uses, and a bound on   *)
(* the packets sent on a path.                                             *)
Setup == [cong_control : {"aimd", "vegas"}, addrs : SUBSET Addrs, packets : Nat]

ASSUME PathsAssumption ==
  /\ MAX_CONNECT \in Nat \ {0} /\ NULL \notin Addrs
  /\ Setups \subseteq Setup

VARIABLES
  sk,              \* the setup; it does not change
  active_paths, num_active,
  path_index, i,   \* of server_worker; i is the loop over the paths
  heard,           \* the address just heard from, or NULL
  pc,              \* "read", "scan", "done" (the status is CLOSED), "crash"
  seen, removed    \* the addresses looked at in this round; whether one was removed

vars == <<sk, active_paths, num_active, path_index, i, heard, pc, seen, removed>>

Slots  == 0..MAX_CONNECT - 1
Active == 0..num_active - 1
States == {"SYN_RECV", "SYN_ACK_SENT", "ESTABLISHED"}
Path   == [addr : Addrs, pathstate : States, sp : Stream]
NewPath(addr, state) == [addr |-> addr, pathstate |-> state, sp |-> init_stream]

(* listen_srvctcp has made the first path; its SYN_ACK may have failed.    *)
Init ==
  /\ sk \in Setups
  /\ \E addr \in sk.addrs, state \in {"SYN_RECV", "SYN_ACK_SENT"} :
       active_paths = [j \in Slots |-> IF j = 0 THEN NewPath(addr, state) ELSE NULL]
  /\ num_active = 1 /\ path_index = 0 /\ i = 0 /\ heard = NULL
  /\ pc = "read" /\ seen = {} /\ removed = FALSE
-----------------------------------------------------------------------------
(* timedread expires: path_index is what it was.                           *)
Scan(addr) ==
  pc' = "scan" /\ i' = 0 /\ heard' = addr /\ seen' = {} /\ removed' = FALSE

TimedOut ==
  /\ pc = "read" /\ Scan(NULL)
  /\ UNCHANGED <<sk, active_paths, num_active, path_index>>

(* n[j] packets are sent on path j.                                        *)
MaySend(sp, n) == n = 0 \/ (n <= Win(sp) /\ sp.snd_nxt + n <= sk.packets + 1)
SendOn(paths, n) ==
  /\ \A j \in DOMAIN n : MaySend(paths[j].sp, n[j])
  /\ active_paths' = [j \in Slots |-> IF j \in DOMAIN n
                                      THEN [paths[j] EXCEPT !.sp = Sent(@, n[j])] ELSE paths[j]]
Amounts == 0..sk.packets

Known(addr) == \E j \in Active : active_paths[j].addr = addr

(* A SYN from a new address adds a path; the worker goes on reading.       *)
AddPath(addr) ==
  /\ pc = "read" /\ ~Known(addr) /\ num_active < MAX_CONNECT
  /\ active_paths' = [active_paths EXCEPT ![num_active] = NewPath(addr, "SYN_ACK_SENT")]
  /\ num_active' = num_active + 1 /\ path_index' = num_active
  /\ UNCHANGED <<sk, i, heard, pc, seen, removed>>

(* Anything else from an unknown address, or a SYN when the table is full. *)
Unknown(addr) ==
  /\ pc = "read" /\ ~Known(addr)
  /\ path_index' = num_active /\ Scan(NULL)
  /\ UNCHANGED <<sk, active_paths, num_active>>

From(p) == pc = "read" /\ p \in Active /\ path_index' = p /\ Scan(active_paths[p].addr)

(* SYN, or a NORMAL packet on a path whose SYN_ACK was not sent.           *)
Answered(p) ==
  /\ From(p)
  /\ UNCHANGED <<sk, active_paths, num_active>>

Established(p) ==
  /\ From(p) /\ active_paths[p].pathstate = "SYN_ACK_SENT"
  /\ \E n \in Amounts :
       SendOn([active_paths EXCEPT ![p].pathstate = "ESTABLISHED"], [j \in {p} |-> n])
  /\ UNCHANGED <<sk, num_active>>

Acked(p, ackno) ==
  /\ From(p) /\ active_paths[p].pathstate = "ESTABLISHED"
  /\ \E s \in handle_ack(active_paths[p].sp, ackno, sk.cong_control) :
       LET paths == [active_paths EXCEPT ![p].sp = s] IN
       IF BadAck(active_paths[p].sp, ackno) THEN active_paths' = paths
       ELSE \E n \in [Active -> Amounts] : SendOn(paths, n)
  /\ UNCHANGED <<sk, num_active>>

(* FIN: answered on every path until it is settled (Session).              *)
Fin(p) ==
  /\ pc = "read" /\ p \in Active
  /\ pc' = "done" /\ path_index' = p
  /\ UNCHANGED <<sk, active_paths, num_active, i, heard, seen, removed>>

Packet == \/ \E addr \in sk.addrs : AddPath(addr) \/ Unknown(addr)
          \/ \E p \in Slots : \/ Answered(p) \/ Established(p) \/ Fin(p)
                              \/ \E ackno \in 2..sk.packets + 2 : Acked(p, ackno)
-----------------------------------------------------------------------------
(* The loop that looks for silent paths.  In C the remainder of -1 by more *)
(* than 1 is -1.  Before it a bug RoundLooksAtAll must notice: the index   *)
(* does not move on.                                                       *)
IndexRepeated == (path_index + num_active) % num_active

Index == LET n == path_index + i IN
         IF n = -1 /\ num_active > 1 THEN -1 ELSE (n + num_active) % num_active

Looking == pc = "scan" /\ i < num_active

Silent(addr) == Looking /\ Index >= 0 /\ active_paths[Index].addr = addr /\ heard # addr

(* The path at Index is not silent; at -1 there is no path.                *)
ScanQuiet ==
  /\ Looking
  /\ path_index' = Index /\ i' = i + 1
  /\ IF Index = -1 THEN pc' = "crash" /\ UNCHANGED seen
     ELSE pc' = pc /\ seen' = seen \cup {active_paths[Index].addr}
  /\ UNCHANGED <<sk, active_paths, num_active, heard, removed>>

(* timeout() returned TRUE: data or SYN_ACK is sent again.                 *)
ScanTimeout(addr) ==
  /\ Silent(addr) /\ ~Dead(active_paths[Index].sp)
  /\ LET paths == [active_paths EXCEPT ![Index].sp = timeout(@)] IN
     IF active_paths[Index].pathstate = "ESTABLISHED"
     THEN \E n \in Amounts : SendOn(paths, [j \in {Index} |-> n])
     ELSE active_paths' = paths
  /\ path_index' = Index /\ i' = i + 1 /\ seen' = seen \cup {addr}
  /\ UNCHANGED <<sk, num_active, heard, pc, removed>>

removePath(dead_index) ==
  /\ active_paths' = [j \in Slots |-> IF j < dead_index THEN active_paths[j]
                                      ELSE IF j < num_active - 1 THEN active_paths[j + 1] ELSE NULL]
  /\ num_active' = num_active - 1

(* timeout() returned FALSE.                                               *)
ScanRemove(addr) ==
  /\ Silent(addr) /\ Dead(active_paths[Index].sp)
  /\ removePath(Index)
  /\ path_index' = Index - 1 /\ i' = i + 1
  /\ seen' = seen \cup {addr} /\ removed' = TRUE
  /\ UNCHANGED <<sk, heard, pc>>

ScanEnd ==
  /\ pc = "scan" /\ i >= num_active
  /\ pc' = IF num_active = 0 THEN "done" ELSE "read"
  /\ i' = 0 /\ heard' = NULL /\ seen' = {} /\ removed' = FALSE
  /\ UNCHANGED <<sk, active_paths, num_active, path_index>>

GivenUp(addr) == ScanTimeout(addr) \/ ScanRemove(addr)
Step == TimedOut \/ ScanQuiet \/ ScanEnd
Next == Packet \/ Step \/ \E addr \in Addrs : GivenUp(addr)

Spec == Init /\ [][Next]_vars

(* The worker goes on, and a path that is looked at again and again after  *)
(* the last packet from it is found silent again and again: time passes,   *)
(* and its rto, doubled each time, is exceeded in the end.                 *)
FairSpec == Spec /\ WF_vars(Step \/ \E addr \in Addrs : GivenUp(addr))
                 /\ \A addr \in Addrs : SF_vars(GivenUp(addr))
-----------------------------------------------------------------------------
TypeOK ==
  /\ sk \in Setups
  /\ num_active \in 0..MAX_CONNECT
  /\ active_paths \in [Slots -> Path \cup {NULL}]
  /\ \A j \in Slots : active_paths[j] \in (IF j < num_active THEN Path ELSE {NULL})
  /\ path_index \in -1..MAX_CONNECT /\ i \in Nat
  /\ heard \in Addrs \cup {NULL} /\ seen \subseteq Addrs /\ removed \in BOOLEAN
  /\ pc \in {"read", "scan", "done", "crash"}

(* Of the packets between snd_una and snd_nxt, which send_segs looks up in *)
(* OnFly[] and tx_time[], no two share a slot, whatever acks come, late,   *)
(* repeated or meant for another path.                                     *)
WindowFits ==
  \A j \in Active : LET sp == active_paths[j].sp IN
    sp.snd_nxt - sp.snd_una <= MAX_CWND /\ sp.snd_cwnd \in 2..MAX_CWND

(* "no more backoffs within the next RTT": when the window is backed off   *)
(* again every packet that was under way at the last backoff has been      *)
(* acked or given up, although the window may have shrunk below what was   *)
(* under way.                                                              *)
BackoffOncePerWindow ==
  [][\A j \in Active :
       pc = "read" /\ active_paths'[j].sp.dec_snd_nxt # active_paths[j].sp.dec_snd_nxt =>
         active_paths'[j].sp.snd_una >= active_paths[j].sp.backed]_vars

(* "Check all the other paths": a round of the loop that removes nothing   *)
(* has looked at every path.                                               *)
RoundLooksAtAll ==
  pc = "scan" /\ i >= num_active /\ ~removed => seen = {active_paths[j].addr : j \in Active}

(* A client that is not heard from again is given up: the connection is    *)
(* closed, though paths are removed under the loop that looks at them.     *)
SilentCloses == <>[][~Packet]_vars => <>(pc \in {"done", "crash"})

(* The loop never looks at a path before the first.                        *)
IndexInRange == pc # "crash"
=============================================================================
