-------------------------------- MODULE Cwnd --------------------------------
(***************************************************************************)
(* The congestion window of one path of the server: init_stream, timeout,  *)
(* the second half of handle_ack, advance_cwnd and what it calls           *)
(* (srvctcp.c), as operators on the Substream_Path.                        *)
(*                                                                         *)
(* What follows from measured times is any value it may have: the target   *)
(* window of Vegas, the amount of a backoff, and whether a loss counts.    *)
(* Sequence numbers are natural numbers: fewer than 2^32 packets are sent. *)
(***************************************************************************)
EXTENDS Integers

CONSTANTS
  MAX_CWND,        \* the largest window, the size of OnFly[] and tx_time[]
  initsegs,        \* the window at the start and after a timeout
  maxidle,         \* timeouts in a row before a path is given up
  valpha, vbeta    \* of Vegas

ASSUME CwndAssumption ==
  /\ initsegs \in Nat /\ initsegs >= 2 /\ MAX_CWND \in Nat /\ MAX_CWND >= initsegs
  /\ maxidle \in Nat /\ valpha \in Nat /\ vbeta \in Nat

(* Beside the fields of Substream_Path: backed, the value of snd_nxt at    *)
(* the last backoff, is only there to state a property.  Of losscnt the    *)
(* code looks only at whether it is 0, of cntrtt up to 3.                  *)
Stream == [snd_nxt : Nat, snd_una : Nat, snd_cwnd : Nat, snd_ssthresh : Nat,
           beg_snd_nxt : Nat, dec_snd_nxt : Nat, losscnt : BOOLEAN, cntrtt : 0..3,
           idle : Nat, backed : Nat]

init_stream ==
  [snd_nxt |-> 1, snd_una |-> 1, snd_cwnd |-> initsegs, snd_ssthresh |-> (85 * MAX_CWND) \div 100,
   beg_snd_nxt |-> 0, dec_snd_nxt |-> 0, losscnt |-> FALSE, cntrtt |-> 0,
   idle |-> 0, backed |-> 0]

(* send_segs: win, and n packets sent.                                     *)
Win(sp)     == sp.snd_cwnd - (sp.snd_nxt - sp.snd_una)
Sent(sp, n) == [sp EXCEPT !.snd_nxt = @ + n]

(* timeout(): dead, or the stream after it.                                *)
Dead(sp) == sp.idle > maxidle

AtLeast(x, y) == IF x < y THEN y ELSE x
AtMost(x, y)  == IF x > y THEN y ELSE x

(* A bug SilentCloses must notice: only timeouts with something on the fly *)
(* are counted.                                                            *)
timeoutUncounted(sp) ==
  IF sp.snd_nxt = sp.snd_una THEN sp
  ELSE [sp EXCEPT !.idle = @ + 1, !.snd_cwnd = initsegs, !.snd_una = sp.snd_nxt]

timeout(sp) ==
  LET given == [sp EXCEPT !.idle = @ + 1] IN
  IF sp.snd_nxt = sp.snd_una THEN given
  ELSE [given EXCEPT !.snd_ssthresh = AtLeast((85 * sp.snd_cwnd) \div 100, initsegs),
                     !.snd_cwnd = initsegs,
                     !.snd_una = sp.snd_nxt]
-----------------------------------------------------------------------------
(* A bug WindowFits must notice: the window only has a lower bound.        *)
constrain_cwnd_low(sp) == [sp EXCEPT !.snd_cwnd = AtLeast(@, 2)]
constrain_cwnd(sp) == [sp EXCEPT !.snd_cwnd = AtLeast(AtMost(@, MAX_CWND), 2)]

(* diff > n: the difference is unsigned, so that a target above the window *)
(* makes it large.                                                         *)
DiffAbove(sp, target, n) == sp.snd_cwnd - target > n \/ target > sp.snd_cwnd

(* The stream with window c and a threshold below it.                      *)
Below(sp, c) == [sp EXCEPT !.snd_cwnd = c, !.snd_ssthresh = AtMost(@, c - 1)]

ExitSlowStart(sp, target) == Below(sp, AtMost(sp.snd_cwnd, target + 1))
SlowStart(sp)  == sp.snd_cwnd <= sp.snd_ssthresh
Increased(sp)  == [sp EXCEPT !.snd_cwnd = @ + 1]

ThreeQuarters(sp) ==
  IF 4 * sp.snd_ssthresh < 3 * sp.snd_cwnd
  THEN [sp EXCEPT !.snd_ssthresh = (3 * sp.snd_cwnd) \div 4] ELSE sp

(* decrease_cwnd with window c before the lower bound.                     *)
Backoff(sp, c) ==
  [sp EXCEPT !.dec_snd_nxt = sp.snd_una + sp.snd_cwnd,
             !.snd_cwnd = AtLeast(c, 2),
             !.snd_ssthresh = (3 * AtLeast(c, 2)) \div 4,
             !.backed = sp.snd_nxt]

decrease_cwnd(sp) ==
  LET undone == sp.snd_cwnd - 1 IN
  IF sp.dec_snd_nxt >= sp.snd_una THEN {sp}
  ELSE {Backoff(sp, c) : c \in IF sp.cntrtt > 2 THEN undone - undone \div 2 .. undone
                               ELSE {undone \div 2}}

(* The update at the end of a round trip by AIMD: with the target and,     *)
(* after losses that count, the backoff.                                   *)
AimdStep(sp, target) ==
  IF DiffAbove(sp, target, 1) /\ SlowStart(sp) THEN ExitSlowStart(sp, target)
  ELSE IF sp.dec_snd_nxt < sp.snd_una THEN Increased(sp) ELSE sp

Aimd(sp) ==
  UNION {LET stepped == AimdStep(sp, target) IN
         {ThreeQuarters(constrain_cwnd(s)) :
            s \in {stepped} \cup (IF sp.losscnt THEN decrease_cwnd(stepped) ELSE {})}
         : target \in 0..sp.snd_cwnd + 1}

(* By Vegas; srtt may be below basertt, minrtt may not.                    *)
VegasStep(sp, target) ==
  IF SlowStart(sp)
  THEN IF DiffAbove(sp, target, 1) THEN ExitSlowStart(sp, target) ELSE Increased(sp)
  ELSE IF DiffAbove(sp, target, vbeta) THEN Below(sp, sp.snd_cwnd - 1)
  ELSE IF DiffAbove(sp, target, valpha - 1) THEN sp
  ELSE Increased(sp)

Vegas(sp) ==
  IF sp.cntrtt <= 2 THEN {Increased(sp)}
  ELSE {ThreeQuarters(constrain_cwnd(VegasStep(sp, target))) :
          target \in 0 .. (IF SlowStart(sp) THEN sp.snd_cwnd + 1 ELSE sp.snd_cwnd)}

(* A bug BackoffOncePerWindow must notice: the end of the next round trip  *)
(* computed from the window after its update.                              *)
RoundBegunLate(sp, updated) ==
  [updated EXCEPT !.beg_snd_nxt = sp.snd_una + updated.snd_cwnd, !.cntrtt = 0, !.losscnt = FALSE]

RoundBegun(sp, updated) ==
  [updated EXCEPT !.beg_snd_nxt = sp.snd_una + sp.snd_cwnd, !.cntrtt = 0, !.losscnt = FALSE]

advance_cwnd(sp, cong_control) ==
  {constrain_cwnd(s) : s \in
     IF sp.beg_snd_nxt <= sp.snd_una
     THEN {RoundBegun(sp, u) : u \in IF cong_control = "aimd" THEN Aimd(sp) ELSE Vegas(sp)}
     ELSE IF SlowStart(sp) THEN {Increased(sp)} ELSE {sp}}

(* handle_ack from its RTT calculations on, the blocks left out (Transfer).*)
(* An ack of a path whose interface is gone is sent by send_over() of the  *)
(* client from the first one: its number may be one never sent here.       *)
BadAck(sp, ackno) == ackno > sp.snd_nxt
Counted(sp) == [sp EXCEPT !.cntrtt = AtMost(@ + 1, 3)]

handle_ack(sp, ackno, cong_control) ==
  LET s == Counted(sp) IN
  IF BadAck(sp, ackno) THEN {[s EXCEPT !.snd_una = AtLeast(@, ackno)]}
  ELSE LET acked == [s EXCEPT !.idle = 0,
                              !.losscnt = @ \/ ackno > sp.snd_una + 1,
                              !.snd_una = AtLeast(@, ackno)] IN
       advance_cwnd(acked, cong_control)
=============================================================================
