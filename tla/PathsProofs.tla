----------------------------- MODULE PathsProofs -----------------------------
(***************************************************************************)
(* Proofs about the congestion window of a path (Cwnd) and the table of    *)
(* paths (Paths), for every window size, table size and number of packets. *)
(***************************************************************************)
EXTENDS Paths, TLAPS

(* The inductive invariant of a stream.  That the packets under way fit    *)
(* the window alone does not last, as a backoff shrinks it below them; but *)
(* they stay below the larger of snd_una + snd_cwnd and the end of the     *)
(* round trip, which was computed from the window before the backoff.      *)
Fits(sp)  == sp.snd_cwnd \in 2..MAX_CWND /\ sp.snd_nxt <= sp.snd_una + MAX_CWND
Round(sp) == sp.snd_nxt <= sp.snd_una + sp.snd_cwnd \/ sp.snd_nxt <= sp.beg_snd_nxt
StreamInv(sp) ==
  sp \in Stream /\ Fits(sp) /\ Round(sp) /\ sp.backed <= sp.beg_snd_nxt

(* What an update of the window leaves alone; the window is not 0.         *)
Updated(sp, u) ==
  /\ u \in Stream /\ u.snd_cwnd >= 1
  /\ u.snd_nxt = sp.snd_nxt /\ u.snd_una = sp.snd_una /\ u.beg_snd_nxt = sp.beg_snd_nxt
  /\ \/ u.backed = sp.backed /\ u.dec_snd_nxt = sp.dec_snd_nxt
     \/ u.backed = sp.snd_nxt

(* Half and three quarters of a number.                                    *)
LEMMA Fractions ==
  ASSUME NEW n \in Nat
  PROVE  /\ n \div 2 \in 0..n /\ (3 * n) \div 4 \in Nat /\ (85 * n) \div 100 \in Nat
  OBVIOUS

LEMMA InitStream == StreamInv(init_stream)
  BY CwndAssumption, Fractions DEF StreamInv, init_stream, Stream, Fits, Round

LEMMA SentStream ==
  ASSUME NEW sp, StreamInv(sp), NEW n \in Nat, n = 0 \/ n <= Win(sp)
  PROVE  StreamInv(Sent(sp, n)) /\ Sent(sp, n).dec_snd_nxt = sp.dec_snd_nxt
  BY CwndAssumption DEF StreamInv, Sent, Win, Stream, Fits, Round

LEMMA TimeoutStream ==
  ASSUME NEW sp, StreamInv(sp)
  PROVE  StreamInv(timeout(sp))
<1>1. CASE sp.snd_nxt = sp.snd_una
  BY <1>1 DEF timeout, StreamInv, Stream, Fits, Round
<1>2. CASE sp.snd_nxt # sp.snd_una
  <2> DEFINE thresh == AtLeast((85 * sp.snd_cwnd) \div 100, initsegs)
  <2>1. thresh \in Nat
    BY CwndAssumption, Fractions DEF AtLeast, StreamInv, Stream
  <2>2. timeout(sp) = [sp EXCEPT !.idle = @ + 1, !.snd_ssthresh = thresh,
                                 !.snd_cwnd = initsegs, !.snd_una = sp.snd_nxt]
    BY <1>2 DEF timeout
  <2> HIDE DEF thresh
  <2> DEFINE t == timeout(sp)
  <2>3. t \in Stream /\ t.snd_cwnd = initsegs /\ t.snd_una = sp.snd_nxt /\ t.snd_nxt = sp.snd_nxt
    <3>1. sp.idle + 1 \in Nat /\ sp.snd_nxt \in Nat /\ sp \in Stream
      BY DEF StreamInv, Stream
    <3>2. t \in Stream
      BY <2>1, <2>2, <3>1, CwndAssumption DEF Stream
    <3>3. t.snd_cwnd = initsegs /\ t.snd_una = sp.snd_nxt /\ t.snd_nxt = sp.snd_nxt
      BY <2>2, <3>1 DEF Stream
    <3> QED
      BY <3>2, <3>3
  <2>4. t.beg_snd_nxt = sp.beg_snd_nxt /\ t.backed = sp.backed
    BY <2>2 DEF StreamInv, Stream
  <2> HIDE DEF t
  <2>5. Fits(t) /\ Round(t)
    BY <2>3, CwndAssumption DEF StreamInv, Stream, Fits, Round
  <2> QED
    BY <2>3, <2>4, <2>5 DEF StreamInv, t
<1> QED
  BY <1>1, <1>2

(* The helpers of advance_cwnd.                                            *)
LEMMA Constrained ==
  ASSUME NEW sp, NEW u, Updated(sp, u)
  PROVE  Updated(sp, constrain_cwnd(u)) /\ constrain_cwnd(u).snd_cwnd \in 2..MAX_CWND
  BY CwndAssumption DEF Updated, constrain_cwnd, AtLeast, AtMost, Stream

LEMMA ThreeQuartered ==
  ASSUME NEW sp, NEW u, Updated(sp, u)
  PROVE  Updated(sp, ThreeQuarters(u)) /\ ThreeQuarters(u).snd_cwnd = u.snd_cwnd
  BY Fractions DEF Updated, ThreeQuarters, Stream

LEMMA IncreasedOne ==
  ASSUME NEW sp, NEW u, Updated(sp, u)
  PROVE  Updated(sp, Increased(u))
  BY DEF Updated, Increased, Stream

LEMMA Lowered ==
  ASSUME NEW sp, NEW u, Updated(sp, u), NEW c \in Nat, c >= 1
  PROVE  Updated(sp, Below(u, c))
<1> DEFINE thresh == AtMost(u.snd_ssthresh, c - 1)
<1>1. thresh \in Nat
  BY DEF AtMost, Updated, Stream
<1>2. Below(u, c) = [u EXCEPT !.snd_cwnd = c, !.snd_ssthresh = thresh]
  BY DEF Below
<1> HIDE DEF thresh
<1> QED
  BY <1>1, <1>2 DEF Updated, Stream

LEMMA Exited ==
  ASSUME NEW sp, NEW u, Updated(sp, u), NEW target \in Nat
  PROVE  Updated(sp, ExitSlowStart(u, target))
<1>1. AtMost(u.snd_cwnd, target + 1) \in Nat /\ AtMost(u.snd_cwnd, target + 1) >= 1
  BY DEF AtMost, Updated, Stream
<1> QED
  BY <1>1, Lowered DEF ExitSlowStart

LEMMA BackedOff ==
  ASSUME NEW sp, NEW u, Updated(sp, u), NEW s \in decrease_cwnd(u)
  PROVE  Updated(sp, s)
<1>1. u \in Stream /\ u.snd_cwnd - 1 \in Nat
  BY DEF Updated, Stream
<1>2. CASE u.dec_snd_nxt >= u.snd_una
  BY <1>2 DEF decrease_cwnd
<1>3. CASE ~(u.dec_snd_nxt >= u.snd_una)
  <2>1. PICK c \in Nat : s = Backoff(u, c)
    <3>1. (u.snd_cwnd - 1) \div 2 \in 0..u.snd_cwnd - 1
      BY <1>1, Fractions
    <3> HIDE DEF Backoff
    <3> QED
      BY <1>1, <1>3, <3>1 DEF decrease_cwnd
  <2> DEFINE w == AtLeast(c, 2)
  <2>2. w \in Nat /\ w >= 1
    BY DEF AtLeast
  <2>3. s = [u EXCEPT !.dec_snd_nxt = u.snd_una + u.snd_cwnd, !.snd_cwnd = w,
                      !.snd_ssthresh = (3 * w) \div 4, !.backed = u.snd_nxt]
    BY <2>1 DEF Backoff
  <2> HIDE DEF w
  <2>4. (3 * w) \div 4 \in Nat
    BY <2>2, Fractions
  <2>5. s \in Stream /\ s.snd_cwnd = w /\ s.backed = u.snd_nxt
    <3>1. u.snd_una + u.snd_cwnd \in Nat /\ u.snd_nxt \in Nat
      BY <1>1 DEF Stream
    <3>2. s \in Stream
      BY <1>1, <2>2, <2>3, <2>4, <3>1 DEF Stream
    <3>3. s.snd_cwnd = w /\ s.backed = u.snd_nxt
      BY <1>1, <2>3 DEF Stream
    <3> QED
      BY <3>2, <3>3
  <2>6. s.snd_nxt = u.snd_nxt /\ s.snd_una = u.snd_una /\ s.beg_snd_nxt = u.beg_snd_nxt
    BY <1>1, <2>3 DEF Stream
  <2> QED
    BY <2>2, <2>5, <2>6 DEF Updated
<1> QED
  BY <1>2, <1>3

(* The update at the end of a round trip changes the window within its     *)
(* bounds, and nothing else that the invariant speaks of but the backoff.  *)
LEMMA AimdUpdates ==
  ASSUME NEW sp, StreamInv(sp), NEW u \in Aimd(sp)
  PROVE  Updated(sp, u)
<1>1. Updated(sp, sp)
  BY DEF StreamInv, Fits, Updated, Stream
<1>2. PICK target \in 0..sp.snd_cwnd + 1 :
        \E s \in {AimdStep(sp, target)} \cup decrease_cwnd(AimdStep(sp, target)) :
          u = ThreeQuarters(constrain_cwnd(s))
  BY DEF Aimd
<1>3. Updated(sp, AimdStep(sp, target))
  <2>1. target \in Nat
    BY DEF StreamInv, Stream
  <2> QED
    BY <1>1, <2>1, Exited, IncreasedOne DEF AimdStep
<1>4. PICK s \in {AimdStep(sp, target)} \cup decrease_cwnd(AimdStep(sp, target)) :
        u = ThreeQuarters(constrain_cwnd(s))
  BY <1>2
<1>5. Updated(sp, s)
  BY <1>3, <1>4, BackedOff
<1> QED
  BY <1>4, <1>5, Constrained, ThreeQuartered

LEMMA VegasUpdates ==
  ASSUME NEW sp, StreamInv(sp), NEW u \in Vegas(sp)
  PROVE  Updated(sp, u)
<1>1. Updated(sp, sp)
  BY DEF StreamInv, Fits, Updated, Stream
<1>2. ASSUME NEW target \in Nat
      PROVE  Updated(sp, VegasStep(sp, target))
  <2>1. sp.snd_cwnd - 1 \in Nat /\ sp.snd_cwnd - 1 >= 1
    BY CwndAssumption DEF StreamInv, Fits, Stream
  <2> QED
    BY <1>1, <2>1, Exited, IncreasedOne, Lowered DEF VegasStep
<1>3. CASE u = Increased(sp)
  BY <1>1, <1>3, IncreasedOne
<1>4. CASE \E target \in Nat : u = ThreeQuarters(constrain_cwnd(VegasStep(sp, target)))
  BY <1>2, <1>4, Constrained, ThreeQuartered
<1>5. \/ u = Increased(sp)
      \/ \E target \in Nat : u = ThreeQuarters(constrain_cwnd(VegasStep(sp, target)))
  <2>1. 0..sp.snd_cwnd + 1 \subseteq Nat /\ 0..sp.snd_cwnd \subseteq Nat
    BY DEF StreamInv, Stream
  <2> QED
    BY <2>1 DEF Vegas
<1> QED
  BY <1>3, <1>4, <1>5

LEMMA Advanced ==
  ASSUME NEW sp, StreamInv(sp), NEW cong_control, NEW s \in advance_cwnd(sp, cong_control)
  PROVE  /\ StreamInv(s)
         /\ s.dec_snd_nxt # sp.dec_snd_nxt => s.snd_una >= sp.backed
<1>1. CASE sp.beg_snd_nxt <= sp.snd_una
  <2>1. PICK u \in IF cong_control = "aimd" THEN Aimd(sp) ELSE Vegas(sp) :
          s = constrain_cwnd(RoundBegun(sp, u))
    BY <1>1 DEF advance_cwnd
  <2>2. Updated(sp, u)
    BY <2>1, AimdUpdates, VegasUpdates
  <2> DEFINE r == RoundBegun(sp, u)
  <2>3. /\ r \in Stream /\ r.snd_cwnd >= 1
        /\ r.snd_nxt = sp.snd_nxt /\ r.snd_una = sp.snd_una
        /\ r.beg_snd_nxt = sp.snd_una + sp.snd_cwnd
        /\ r.backed = u.backed
    <3>1. sp.snd_una + sp.snd_cwnd \in Nat
      BY DEF StreamInv, Stream
    <3>2. u \in Stream /\ u.snd_cwnd >= 1 /\ u.snd_nxt = sp.snd_nxt /\ u.snd_una = sp.snd_una
      BY <2>2 DEF Updated
    <3>3. r \in Stream /\ r.beg_snd_nxt = sp.snd_una + sp.snd_cwnd
      <4> DEFINE beg == sp.snd_una + sp.snd_cwnd
                 no == FALSE
                 zero == 0
      <4>1. r = [u EXCEPT !.beg_snd_nxt = beg, !.cntrtt = zero, !.losscnt = no]
        BY DEF RoundBegun
      <4>2. beg \in Nat /\ no \in BOOLEAN /\ zero \in 0..3
        BY <3>1
      <4> HIDE DEF beg, no, zero, r
      <4>3. r \in Stream
        BY <3>2, <4>1, <4>2 DEF Stream
      <4>4. r.beg_snd_nxt = beg
        BY <3>2, <4>1 DEF Stream
      <4> QED
        BY <4>3, <4>4 DEF beg
    <3>4. r.snd_cwnd = u.snd_cwnd /\ r.snd_nxt = u.snd_nxt /\ r.snd_una = u.snd_una /\ r.backed = u.backed
      BY <3>2 DEF RoundBegun, Stream
    <3> QED
      BY <3>2, <3>3, <3>4
  <2>4. Updated(r, r)
    BY <2>3 DEF Updated
  <2>5. Updated(r, s) /\ s.snd_cwnd \in 2..MAX_CWND /\ s.backed = r.backed
    BY <2>1, <2>4, Constrained DEF constrain_cwnd, Updated, Stream
  <2>6. u.backed <= sp.snd_una + sp.snd_cwnd
    BY <1>1, <2>2 DEF Updated, StreamInv, Fits, Round, Stream
  <2>7. sp.snd_nxt <= sp.snd_una + sp.snd_cwnd
    BY <1>1 DEF StreamInv, Round, Stream
  <2>8. s.snd_una >= sp.backed
    BY <1>1, <2>3, <2>5 DEF Updated, StreamInv, Stream
  <2> HIDE DEF r
  <2> QED
    BY <2>3, <2>5, <2>6, <2>7, <2>8 DEF Updated, StreamInv, Fits, Round, Stream
<1>2. CASE ~(sp.beg_snd_nxt <= sp.snd_una)
  <2>1. PICK w \in {sp.snd_cwnd, sp.snd_cwnd + 1} :
          s = [sp EXCEPT !.snd_cwnd = AtLeast(AtMost(w, MAX_CWND), 2)]
    BY <1>2 DEF advance_cwnd, constrain_cwnd, Increased, StreamInv, Stream
  <2> DEFINE c == AtLeast(AtMost(w, MAX_CWND), 2)
  <2>2. c \in 2..MAX_CWND /\ c >= sp.snd_cwnd
    BY <2>1, CwndAssumption DEF AtLeast, AtMost, StreamInv, Fits, Stream
  <2>3. s = [sp EXCEPT !.snd_cwnd = c]
    BY <2>1
  <2> HIDE DEF c
  <2>4. s \in Stream /\ s.snd_cwnd = c
    BY <2>2, <2>3, CwndAssumption DEF StreamInv, Stream
  <2>5. /\ s.snd_nxt = sp.snd_nxt /\ s.snd_una = sp.snd_una /\ s.beg_snd_nxt = sp.beg_snd_nxt
        /\ s.backed = sp.backed /\ s.dec_snd_nxt = sp.dec_snd_nxt
    BY <2>3 DEF StreamInv, Stream
  <2> QED
    BY <2>2, <2>4, <2>5, CwndAssumption DEF StreamInv, Fits, Round, Stream
<1> QED
  BY <1>1, <1>2

(* Raising snd_una, whatever becomes of the other fields, is harmless.     *)
LEMMA Raised ==
  ASSUME NEW sp, StreamInv(sp), NEW a \in Stream, a.snd_una >= sp.snd_una,
         a.snd_nxt = sp.snd_nxt, a.snd_cwnd = sp.snd_cwnd,
         a.beg_snd_nxt = sp.beg_snd_nxt, a.backed = sp.backed
  PROVE  StreamInv(a)
  BY CwndAssumption DEF StreamInv, Fits, Round, Stream

(* An ack, good or bad, keeps the invariant, and a backoff comes only when *)
(* all that was under way at the last one is below snd_una.                *)
LEMMA HandledAck ==
  ASSUME NEW sp, StreamInv(sp), NEW ackno \in Nat, NEW cong_control,
         NEW s \in handle_ack(sp, ackno, cong_control)
  PROVE  /\ StreamInv(s)
         /\ s.dec_snd_nxt # sp.dec_snd_nxt => s.snd_una >= sp.backed
<1> DEFINE c == Counted(sp)
           una == AtLeast(sp.snd_una, ackno)
<1>1. una \in Nat /\ una >= sp.snd_una
  BY DEF AtLeast, StreamInv, Stream
<1>2. /\ StreamInv(c) /\ c.snd_una = sp.snd_una /\ c.dec_snd_nxt = sp.dec_snd_nxt
      /\ c.backed = sp.backed
  BY DEF Counted, AtMost, StreamInv, Fits, Round, Stream
<1>3. CASE BadAck(sp, ackno)
  <2>1. s = [c EXCEPT !.snd_una = una]
    BY <1>2, <1>3 DEF handle_ack
  <2> HIDE DEF c, una
  <2>2. s \in Stream /\ s.snd_una = una /\ s.dec_snd_nxt = c.dec_snd_nxt
    BY <1>1, <1>2, <2>1 DEF StreamInv, Stream
  <2>3. /\ s.snd_nxt = c.snd_nxt /\ s.snd_cwnd = c.snd_cwnd
        /\ s.beg_snd_nxt = c.beg_snd_nxt /\ s.backed = c.backed
    BY <1>2, <2>1 DEF StreamInv, Stream
  <2> QED
    BY <1>1, <1>2, <2>2, <2>3, Raised
<1>4. CASE ~BadAck(sp, ackno)
  <2> DEFINE l == c.losscnt \/ ackno > sp.snd_una + 1
             a == [c EXCEPT !.idle = 0, !.losscnt = l, !.snd_una = una]
  <2>1. s \in advance_cwnd(a, cong_control)
    BY <1>2, <1>4 DEF handle_ack
  <2>2. l \in BOOLEAN
    OBVIOUS
  <2> HIDE DEF c, una, l
  <2>3. StreamInv(a) /\ a.dec_snd_nxt = sp.dec_snd_nxt /\ a.backed = sp.backed
    <3>1. a \in Stream /\ a.snd_una = una
      BY <1>1, <1>2, <2>2 DEF StreamInv, Stream
    <3>2. /\ a.snd_nxt = c.snd_nxt /\ a.snd_cwnd = c.snd_cwnd /\ a.beg_snd_nxt = c.beg_snd_nxt
          /\ a.backed = c.backed /\ a.dec_snd_nxt = c.dec_snd_nxt
      BY <1>2 DEF StreamInv, Stream
    <3> HIDE DEF a
    <3> QED
      BY <1>1, <1>2, <3>1, <3>2, Raised
  <2> HIDE DEF a
  <2> QED
    BY <2>1, <2>3, Advanced
<1> QED
  BY <1>3, <1>4
-----------------------------------------------------------------------------
(* The table of paths: the first num slots hold paths whose streams        *)
(* satisfy the invariant, the others nothing.                              *)
Good(paths, num) ==
  /\ paths \in [Slots -> Path \cup {NULL}]
  /\ \A j \in Slots : /\ j < num => paths[j] \in Path /\ StreamInv(paths[j].sp)
                      /\ ~(j < num) => paths[j] = NULL

Rest ==
  /\ sk \in Setups /\ num_active \in 0..MAX_CONNECT
  /\ path_index \in -1..MAX_CONNECT /\ i \in Nat
  /\ heard \in Addrs \cup {NULL} /\ seen \subseteq Addrs /\ removed \in BOOLEAN
  /\ pc \in {"read", "scan", "done", "crash"}

Inv == Good(active_paths, num_active) /\ Rest

LEMMA SetupTypes ==
  ASSUME Rest
  PROVE  /\ sk.addrs \subseteq Addrs /\ sk.packets \in Nat /\ Amounts \subseteq Nat
         /\ Active \subseteq Slots
  BY PathsAssumption DEF Rest, Setup, Amounts, Active, Slots

(* The stream of one path replaced.                                        *)
LEMMA Replaced ==
  ASSUME NEW paths, NEW num \in Nat, Good(paths, num), NEW p \in Slots, p < num,
         NEW s, StreamInv(s)
  PROVE  Good([paths EXCEPT ![p].sp = s], num)
<1>1. paths[p] \in Path
  BY DEF Good
<1>2. [paths[p] EXCEPT !.sp = s] \in Path /\ [paths[p] EXCEPT !.sp = s].sp = s
  BY <1>1 DEF Path, StreamInv
<1> QED
  BY <1>2 DEF Good

LEMMA SentOn ==
  ASSUME Rest, NEW paths, Good(paths, num_active),
         NEW D \in SUBSET Active, NEW n \in [D -> Nat], SendOn(paths, n)
  PROVE  /\ Good(active_paths', num_active)
         /\ \A j \in Active : /\ active_paths'[j].sp.dec_snd_nxt = paths[j].sp.dec_snd_nxt
                             /\ active_paths'[j].sp.snd_una = paths[j].sp.snd_una
<1>1. active_paths' = [j \in Slots |-> IF j \in D THEN [paths[j] EXCEPT !.sp = Sent(@, n[j])]
                                       ELSE paths[j]]
  BY DEF SendOn
<1>2. D \subseteq Slots /\ Active \subseteq Slots /\ \A j \in D : j < num_active
  BY SetupTypes DEF Active, Rest
<1>3. ASSUME NEW j \in D
      PROVE  /\ active_paths'[j] \in Path /\ StreamInv(active_paths'[j].sp)
             /\ active_paths'[j].sp.dec_snd_nxt = paths[j].sp.dec_snd_nxt
             /\ active_paths'[j].sp.snd_una = paths[j].sp.snd_una
  <2>1. paths[j] \in Path /\ StreamInv(paths[j].sp)
    BY <1>2 DEF Good
  <2>2. n[j] \in Nat /\ (n[j] = 0 \/ n[j] <= Win(paths[j].sp))
    BY DEF SendOn, MaySend
  <2> DEFINE s == Sent(paths[j].sp, n[j])
  <2>3. StreamInv(s) /\ s.dec_snd_nxt = paths[j].sp.dec_snd_nxt
    BY <2>1, <2>2, SentStream
  <2>4. s.snd_una = paths[j].sp.snd_una
    BY <2>1 DEF Sent, StreamInv, Stream
  <2>5. active_paths'[j] = [paths[j] EXCEPT !.sp = s]
    BY <1>1, <1>2
  <2> HIDE DEF s
  <2>6. active_paths'[j] \in Path /\ active_paths'[j].sp = s
    BY <2>1, <2>3, <2>5 DEF Path, StreamInv
  <2> QED
    BY <2>3, <2>4, <2>6
<1>4. ASSUME NEW j \in Slots, j \notin D
      PROVE  active_paths'[j] = paths[j]
  BY <1>1, <1>4
<1>5. active_paths' \in [Slots -> Path \cup {NULL}]
  <2>1. \A j \in Slots : active_paths'[j] \in Path \cup {NULL}
    BY <1>3, <1>4 DEF Good
  <2> QED
    BY <1>1, <2>1
<1>6. Good(active_paths', num_active)
  BY <1>2, <1>3, <1>4, <1>5 DEF Good
<1> QED
  BY <1>2, <1>3, <1>4, <1>6

LEMMA NewPathGood ==
  ASSUME NEW addr \in Addrs, NEW state \in States
  PROVE  NewPath(addr, state) \in Path /\ StreamInv(NewPath(addr, state).sp)
<1>1. init_stream \in Stream
  BY InitStream DEF StreamInv
<1> HIDE DEF init_stream
<1> QED
  BY <1>1, InitStream DEF NewPath, Path

LEMMA Initially == Init => Inv
<1> SUFFICES ASSUME Init PROVE Inv
  OBVIOUS
<1>1. PICK addr \in sk.addrs, state \in {"SYN_RECV", "SYN_ACK_SENT"} :
        active_paths = [j \in Slots |-> IF j = 0 THEN NewPath(addr, state) ELSE NULL]
  BY DEF Init
<1>2. Rest
  <2>1. /\ num_active \in 0..MAX_CONNECT /\ path_index \in -1..MAX_CONNECT /\ i \in Nat
        /\ sk \in Setups
    BY PathsAssumption DEF Init
  <2>2. /\ heard \in Addrs \cup {NULL} /\ seen \subseteq Addrs /\ removed \in BOOLEAN
        /\ pc \in {"read", "scan", "done", "crash"}
    BY Zenon DEF Init
  <2> QED
    BY <2>1, <2>2 DEF Rest
<1>3. addr \in Addrs /\ state \in States
  BY <1>1, <1>2, SetupTypes DEF States
<1>4. NewPath(addr, state) \in Path /\ StreamInv(NewPath(addr, state).sp)
  BY <1>3, NewPathGood
<1>5. num_active = 1
  BY DEF Init
<1> HIDE DEF NewPath
<1>6. Good(active_paths, num_active)
  BY <1>1, <1>4, <1>5, PathsAssumption DEF Good, Slots
<1> QED
  BY <1>2, <1>6 DEF Inv

(* The address heard from, when there is one, is one of the client's, and  *)
(* a new round of the loop begins.                                         *)
LEMMA Scanned ==
  ASSUME NEW addr \in Addrs \cup {NULL}, Scan(addr)
  PROVE  /\ heard' \in Addrs \cup {NULL} /\ seen' \subseteq Addrs /\ removed' \in BOOLEAN
         /\ i' \in Nat /\ pc' \in {"read", "scan", "done", "crash"}
<1>1. i' \in Nat
  BY DEF Scan
<1>2. /\ heard' \in Addrs \cup {NULL} /\ seen' \subseteq Addrs /\ removed' \in BOOLEAN
      /\ pc' \in {"read", "scan", "done", "crash"}
  BY Zenon DEF Scan
<1> QED
  BY <1>1, <1>2

LEMMA FromRest ==
  ASSUME Inv, NEW p \in Slots, From(p), UNCHANGED <<sk, num_active>>
  PROVE  Rest' /\ p < num_active
<1>1. p < num_active /\ path_index' = p /\ Scan(active_paths[p].addr)
  BY DEF From, Active, Slots, Inv, Rest
<1>2. active_paths[p].addr \in Addrs
  BY <1>1 DEF Inv, Good, Path
<1>3. path_index' \in -1..MAX_CONNECT
  BY <1>1, PathsAssumption DEF Slots
<1> QED
  BY <1>1, <1>2, <1>3, Scanned DEF Inv, Rest

LEMMA AckedStep ==
  ASSUME Inv, NEW p \in Slots, NEW ackno \in 2..sk.packets + 2, Acked(p, ackno)
  PROVE  /\ Inv'
         /\ \A j \in Active :
              active_paths'[j].sp.dec_snd_nxt # active_paths[j].sp.dec_snd_nxt =>
                active_paths'[j].sp.snd_una >= active_paths[j].sp.backed
<1>1. Rest' /\ p < num_active /\ UNCHANGED num_active
  BY FromRest DEF Acked
<1>2. StreamInv(active_paths[p].sp) /\ active_paths[p] \in Path
  BY <1>1 DEF Inv, Good
<1>3. ackno \in Nat
  BY SetupTypes DEF Inv
<1>4. PICK s \in handle_ack(active_paths[p].sp, ackno, sk.cong_control) :
        LET paths == [active_paths EXCEPT ![p].sp = s] IN
        IF BadAck(active_paths[p].sp, ackno) THEN active_paths' = paths
        ELSE \E n \in [Active -> Amounts] : SendOn(paths, n)
  BY DEF Acked
<1> DEFINE paths == [active_paths EXCEPT ![p].sp = s]
<1>5. /\ StreamInv(s)
      /\ s.dec_snd_nxt # active_paths[p].sp.dec_snd_nxt => s.snd_una >= active_paths[p].sp.backed
  BY <1>2, <1>3, <1>4, HandledAck
<1>6. num_active \in Nat
  BY DEF Inv, Rest
<1>7. Good(paths, num_active)
  BY <1>1, <1>5, <1>6, Replaced DEF Inv
<1>8. ASSUME NEW j \in Active
      PROVE  paths[j].sp = IF j = p THEN s ELSE active_paths[j].sp
  <2>1. j \in Slots
    BY SetupTypes DEF Inv
  <2> QED
    BY <1>2, <2>1 DEF Inv, Good, Path
<1> HIDE DEF paths
<1>9. /\ Good(active_paths', num_active)
      /\ \A j \in Active : /\ active_paths'[j].sp.dec_snd_nxt = paths[j].sp.dec_snd_nxt
                          /\ active_paths'[j].sp.snd_una = paths[j].sp.snd_una
  <2>1. CASE BadAck(active_paths[p].sp, ackno)
    BY <1>4, <1>7, <2>1 DEF paths
  <2>2. CASE ~BadAck(active_paths[p].sp, ackno)
    <3>1. PICK n \in [Active -> Amounts] : SendOn(paths, n)
      BY <1>4, <2>2 DEF paths
    <3>2. n \in [Active -> Nat]
      BY <3>1, SetupTypes DEF Inv
    <3> QED
      BY <1>7, <3>1, <3>2, SentOn DEF Inv
  <2> QED
    BY <2>1, <2>2
<1>10. Inv'
  BY <1>1, <1>9 DEF Inv
<1> QED
  BY <1>5, <1>8, <1>9, <1>10

(* The index the loop looks at is -1 or that of a path.                    *)
LEMMA IndexType ==
  ASSUME Inv, Looking
  PROVE  Index \in -1..num_active - 1
<1> DEFINE n == path_index + i + num_active
<1>1. n \in Nat /\ num_active \in Nat \ {0} /\ num_active >= 1
  BY DEF Inv, Rest, Looking
<1> HIDE DEF n
<1>2. n % num_active \in 0..num_active - 1
  BY <1>1
<1>3. Index \in {-1, n % num_active}
  BY DEF Index, n
<1> QED
  BY <1>1, <1>2, <1>3

LEMMA SilentFacts ==
  ASSUME Inv, NEW addr \in Addrs, Silent(addr)
  PROVE  /\ Index \in Slots /\ Index \in Active /\ Index < num_active
         /\ num_active \in 1..MAX_CONNECT
         /\ active_paths[Index] \in Path /\ StreamInv(active_paths[Index].sp)
<1>1. Index \in -1..num_active - 1 /\ Index >= 0 /\ num_active \in 0..MAX_CONNECT
  BY IndexType DEF Silent, Inv, Rest
<1> HIDE DEF Index
<1>2. Index \in Slots /\ Index \in Active /\ Index < num_active /\ num_active \in 1..MAX_CONNECT
  BY <1>1, PathsAssumption DEF Slots, Active
<1> QED
  BY <1>2 DEF Inv, Good

LEMMA EstablishedStep ==
  ASSUME Inv, NEW p \in Slots, Established(p)
  PROVE  /\ Inv'
         /\ \A j \in Active : active_paths'[j].sp.dec_snd_nxt = active_paths[j].sp.dec_snd_nxt
<1>1. Rest' /\ p < num_active /\ UNCHANGED num_active
  BY FromRest DEF Established
<1> DEFINE paths == [active_paths EXCEPT ![p].pathstate = "ESTABLISHED"]
<1>2. PICK n \in Amounts : SendOn(paths, [j \in {p} |-> n])
  BY DEF Established
<1>3. active_paths[p] \in Path
  BY <1>1 DEF Inv, Good
<1>4. /\ [active_paths[p] EXCEPT !.pathstate = "ESTABLISHED"] \in Path
      /\ [active_paths[p] EXCEPT !.pathstate = "ESTABLISHED"].sp = active_paths[p].sp
  BY <1>3 DEF Path, States
<1>5. Good(paths, num_active)
  <2>1. StreamInv(active_paths[p].sp)
    BY <1>1 DEF Inv, Good
  <2> DEFINE q == [active_paths[p] EXCEPT !.pathstate = "ESTABLISHED"]
  <2>2. paths = [active_paths EXCEPT ![p] = q] /\ q \in Path /\ StreamInv(q.sp)
    BY <1>4, <2>1
  <2> HIDE DEF q, paths
  <2> QED
    BY <1>1, <2>2 DEF Inv, Good
<1>6. ASSUME NEW j \in Active
      PROVE  paths[j].sp = active_paths[j].sp
  <2>1. j \in Slots
    BY SetupTypes DEF Inv
  <2> QED
    BY <1>4, <2>1 DEF Inv, Good
<1>7. {p} \in SUBSET Active /\ [j \in {p} |-> n] \in [{p} -> Nat]
  BY <1>1, <1>2, SetupTypes DEF Inv, Active, Slots, Rest
<1> HIDE DEF paths
<1> QED
  BY <1>1, <1>2, <1>5, <1>6, <1>7, SentOn DEF Inv

LEMMA AddPathStep ==
  ASSUME Inv, NEW addr \in sk.addrs, AddPath(addr)
  PROVE  /\ Inv'
         /\ \A j \in Active : active_paths'[j].sp.dec_snd_nxt = active_paths[j].sp.dec_snd_nxt
<1>1. /\ active_paths' = [active_paths EXCEPT ![num_active] = NewPath(addr, "SYN_ACK_SENT")]
      /\ num_active' = num_active + 1 /\ path_index' = num_active
      /\ UNCHANGED <<sk, i, heard, pc, seen, removed>>
  BY DEF AddPath
<1>2. num_active \in Slots /\ num_active \in Nat /\ num_active < MAX_CONNECT
  BY PathsAssumption DEF AddPath, Inv, Rest, Slots
<1>3. addr \in Addrs /\ "SYN_ACK_SENT" \in States
  BY SetupTypes DEF Inv, States
<1>4. NewPath(addr, "SYN_ACK_SENT") \in Path /\ StreamInv(NewPath(addr, "SYN_ACK_SENT").sp)
  BY <1>3, NewPathGood
<1> HIDE DEF NewPath
<1>5. Good(active_paths', num_active')
  BY <1>1, <1>2, <1>4 DEF Inv, Good, Slots
<1>6. Rest'
  BY <1>1, <1>2, PathsAssumption DEF Inv, Rest
<1>7. ASSUME NEW j \in Active
      PROVE  active_paths'[j] = active_paths[j]
  BY <1>1, <1>2 DEF Inv, Good, Active, Slots
<1> QED
  BY <1>5, <1>6, <1>7 DEF Inv

(* The steps that change nothing of the table.                             *)
LEMMA TableKept ==
  ASSUME Inv, UNCHANGED <<active_paths, num_active>>, Rest'
  PROVE  /\ Inv'
         /\ \A j \in Active : active_paths'[j].sp.dec_snd_nxt = active_paths[j].sp.dec_snd_nxt
  BY DEF Inv

LEMMA ReadStep ==
  ASSUME Inv, TimedOut \/ Packet
  PROVE  /\ Inv'
         /\ \A j \in Active :
              active_paths'[j].sp.dec_snd_nxt # active_paths[j].sp.dec_snd_nxt =>
                active_paths'[j].sp.snd_una >= active_paths[j].sp.backed
<1>1. CASE TimedOut
  BY <1>1, Scanned, TableKept DEF TimedOut, Inv, Rest
<1>2. ASSUME NEW addr \in sk.addrs, AddPath(addr)
      PROVE  /\ Inv'
             /\ \A j \in Active : active_paths'[j].sp.dec_snd_nxt = active_paths[j].sp.dec_snd_nxt
  BY <1>2, AddPathStep
<1>3. ASSUME NEW addr \in sk.addrs, Unknown(addr)
      PROVE  /\ Inv'
             /\ \A j \in Active : active_paths'[j].sp.dec_snd_nxt = active_paths[j].sp.dec_snd_nxt
  <2>1. path_index' \in -1..MAX_CONNECT
    BY <1>3, PathsAssumption DEF Unknown, Inv, Rest
  <2> QED
    BY <1>3, <2>1, Scanned, TableKept DEF Unknown, Inv, Rest
<1>4. ASSUME NEW p \in Slots, Answered(p)
      PROVE  /\ Inv'
             /\ \A j \in Active : active_paths'[j].sp.dec_snd_nxt = active_paths[j].sp.dec_snd_nxt
  BY <1>4, FromRest, TableKept DEF Answered
<1>5. ASSUME NEW p \in Slots, Fin(p)
      PROVE  /\ Inv'
             /\ \A j \in Active : active_paths'[j].sp.dec_snd_nxt = active_paths[j].sp.dec_snd_nxt
  <2>1. path_index' \in -1..MAX_CONNECT
    BY <1>5, PathsAssumption DEF Fin, Slots
  <2>2. Rest'
    BY <1>5, <2>1 DEF Fin, Inv, Rest
  <2> QED
    BY <1>5, <2>2, TableKept DEF Fin
<1> QED
  BY <1>1, <1>2, <1>3, <1>4, <1>5, EstablishedStep, AckedStep DEF Packet

LEMMA ScanStep ==
  ASSUME Inv, ScanQuiet \/ ScanEnd \/ \E addr \in Addrs : GivenUp(addr)
  PROVE  Inv' /\ pc = "scan"
<1>1. CASE ScanQuiet
  <2>1. Index \in -1..num_active - 1 /\ path_index' = Index /\ num_active \in 0..MAX_CONNECT
    BY <1>1, IndexType DEF ScanQuiet, Inv, Rest
  <2> HIDE DEF Index
  <2>2. path_index' \in -1..MAX_CONNECT /\ i' \in Nat
    BY <1>1, <2>1, PathsAssumption DEF ScanQuiet, Inv, Rest
  <2>3. seen' \subseteq Addrs /\ pc' \in {"read", "scan", "done", "crash"}
    <3>1. CASE Index = -1
      BY <1>1, <3>1 DEF ScanQuiet, Inv, Rest
    <3>2. CASE Index # -1
      <4>1. Index \in Slots /\ Index < num_active
        BY <2>1, <3>2, PathsAssumption DEF Slots
      <4>2. active_paths[Index].addr \in Addrs
        BY <4>1 DEF Inv, Good, Path
      <4> QED
        BY <1>1, <3>2, <4>2 DEF ScanQuiet, Inv, Rest
    <3> QED
      BY <3>1, <3>2
  <2>4. Rest'
    BY <1>1, <2>2, <2>3 DEF ScanQuiet, Inv, Rest
  <2> QED
    BY <1>1, <2>4, TableKept DEF ScanQuiet, Looking
<1>2. CASE ScanEnd
  <2>1. i' \in Nat
    BY <1>2 DEF ScanEnd
  <2>2. /\ heard' \in Addrs \cup {NULL} /\ seen' \subseteq Addrs /\ removed' \in BOOLEAN
        /\ pc' \in {"read", "scan", "done", "crash"}
    BY <1>2, Zenon DEF ScanEnd
  <2>3. Rest'
    BY <1>2, <2>1, <2>2 DEF ScanEnd, Inv, Rest
  <2> QED
    BY <1>2, <2>3, TableKept DEF ScanEnd
<1>3. ASSUME NEW addr \in Addrs, ScanTimeout(addr)
      PROVE  Inv' /\ pc = "scan"
  <2>1. Silent(addr) /\ pc = "scan" /\ UNCHANGED <<sk, num_active, heard, pc, removed>>
    BY <1>3 DEF ScanTimeout, Silent, Looking
  <2>2. /\ Index \in Slots /\ Index \in Active /\ Index < num_active
        /\ StreamInv(active_paths[Index].sp) /\ num_active \in Nat
    BY <2>1, SilentFacts
  <2> DEFINE paths == [active_paths EXCEPT ![Index].sp = timeout(@)]
             t == timeout(active_paths[Index].sp)
  <2>3. \/ active_paths' = paths
        \/ \E n \in Amounts : SendOn(paths, [j \in {Index} |-> n])
    BY <1>3 DEF ScanTimeout
  <2>4. path_index' = Index /\ i' = i + 1 /\ seen' = seen \cup {addr}
    BY <1>3 DEF ScanTimeout
  <2>5. paths = [active_paths EXCEPT ![Index].sp = t]
    OBVIOUS
  <2>6. StreamInv(t)
    BY <2>2, TimeoutStream
  <2> HIDE DEF Index, paths, t
  <2>7. Good(paths, num_active)
    BY <2>2, <2>5, <2>6, Replaced DEF Inv
  <2>8. Good(active_paths', num_active)
    <3>1. CASE active_paths' = paths
      BY <2>7, <3>1
    <3>2. ASSUME NEW n \in Amounts, SendOn(paths, [j \in {Index} |-> n])
          PROVE  Good(active_paths', num_active)
      <4>1. {Index} \in SUBSET Active /\ [j \in {Index} |-> n] \in [{Index} -> Nat]
        BY <2>2, SetupTypes DEF Inv
      <4> QED
        BY <2>7, <3>2, <4>1, SentOn DEF Inv
    <3> QED
      BY <2>3, <3>1, <3>2
  <2>9. Rest'
    BY <2>1, <2>2, <2>4, PathsAssumption DEF Inv, Rest, Slots
  <2> QED
    BY <2>1, <2>8, <2>9 DEF Inv
<1>4. ASSUME NEW addr \in Addrs, ScanRemove(addr)
      PROVE  Inv' /\ pc = "scan"
  <2>1. /\ Silent(addr) /\ pc = "scan" /\ removePath(Index) /\ path_index' = Index - 1
        /\ i' = i + 1 /\ seen' = seen \cup {addr} /\ removed' = TRUE /\ UNCHANGED <<sk, heard, pc>>
    BY <1>4 DEF ScanRemove, Silent, Looking
  <2>2. Index \in Slots /\ Index < num_active /\ num_active \in 1..MAX_CONNECT
    BY <2>1, SilentFacts
  <2> HIDE DEF Index
  <2>3. num_active' = num_active - 1 /\ num_active' \in 0..MAX_CONNECT
    BY <2>1, <2>2, PathsAssumption DEF removePath
  <2>4. path_index' \in -1..MAX_CONNECT /\ i' \in Nat
    BY <2>1, <2>2, PathsAssumption DEF Slots, Inv, Rest
  <2>5. removed' \in BOOLEAN
    BY <2>1, Zenon
  <2>6. Rest'
    BY <2>1, <2>3, <2>4, <2>5 DEF Inv, Rest
  <2>7. ASSUME NEW j \in Slots
        PROVE  active_paths'[j] = IF j < Index THEN active_paths[j]
                                  ELSE IF j < num_active - 1 THEN active_paths[j + 1] ELSE NULL
    BY <2>1 DEF removePath
  <2>8. ASSUME NEW j \in Slots, j < num_active - 1
        PROVE  active_paths'[j] \in Path /\ StreamInv(active_paths'[j].sp)
    <3>1. j + 1 \in Slots /\ j + 1 < num_active /\ j < num_active
      BY <2>2, <2>8, PathsAssumption DEF Slots
    <3> QED
      BY <2>7, <2>8, <3>1 DEF Inv, Good
  <2>9. ASSUME NEW j \in Slots, ~(j < num_active - 1)
        PROVE  active_paths'[j] = NULL
    BY <2>2, <2>7, <2>9, PathsAssumption DEF Slots
  <2>10. active_paths' \in [Slots -> Path \cup {NULL}]
    <3>1. \A j \in Slots : active_paths'[j] \in Path \cup {NULL}
      BY <2>8, <2>9
    <3> QED
      BY <2>1, <3>1 DEF removePath
  <2> QED
    BY <2>1, <2>3, <2>6, <2>8, <2>9, <2>10 DEF Inv, Good
<1> QED
  BY <1>1, <1>2, <1>3, <1>4 DEF GivenUp
-----------------------------------------------------------------------------
(* The table and the streams in it stay well formed, though packets come   *)
(* from known and unknown addresses, acks from the wrong path, and paths   *)
(* are removed while server_worker's loop walks over them.                 *)
THEOREM PathsInvariant == Spec => []Inv
<1>1. Inv /\ [Next]_vars => Inv'
  <2> SUFFICES ASSUME Inv, [Next]_vars PROVE Inv'
    OBVIOUS
  <2>1. CASE Next
    BY <2>1, ReadStep, ScanStep DEF Next, Step
  <2>2. CASE UNCHANGED vars
    BY <2>2 DEF vars, Inv, Good, Rest, Slots, Path, States
  <2> QED
    BY <2>1, <2>2
<1> QED
  BY <1>1, Initially, PTL DEF Spec

(* The variables of server_worker keep their types; path_index is never    *)
(* below -1 nor above the size of the table.                               *)
THEOREM PathsTypeCorrect == Spec => []TypeOK
<1>1. Inv => TypeOK
  BY DEF Inv, Good, Rest, TypeOK
<1> QED
  BY <1>1, PathsInvariant, PTL

(* No two packets on the fly share a slot of OnFly[] and tx_time[], for    *)
(* every window, every number of paths and every ack.                      *)
THEOREM WindowFitsHolds == Spec => []WindowFits
<1>1. Inv => WindowFits
  <2> SUFFICES ASSUME Inv, NEW j \in Active
               PROVE  LET sp == active_paths[j].sp IN
                      sp.snd_nxt - sp.snd_una <= MAX_CWND /\ sp.snd_cwnd \in 2..MAX_CWND
    BY DEF WindowFits
  <2>1. j \in Slots /\ j < num_active
    BY SetupTypes DEF Inv, Active, Rest
  <2>2. StreamInv(active_paths[j].sp)
    BY <2>1 DEF Inv, Good
  <2> QED
    BY <2>2, CwndAssumption DEF StreamInv, Fits, Stream
<1> QED
  BY <1>1, PathsInvariant, PTL

(* The window is backed off at most once for the packets under way: a      *)
(* second time only after all that was sent before the first is acked or   *)
(* given up.                                                               *)
THEOREM BackoffOnceHolds == Spec => BackoffOncePerWindow
<1> DEFINE A == \A j \in Active :
       pc = "read" /\ active_paths'[j].sp.dec_snd_nxt # active_paths[j].sp.dec_snd_nxt =>
         active_paths'[j].sp.snd_una >= active_paths[j].sp.backed
<1>1. Inv /\ [Next]_vars => [A]_vars
  <2> SUFFICES ASSUME Inv, Next PROVE A
    OBVIOUS
  <2>1. CASE TimedOut \/ Packet
    BY <2>1, ReadStep
  <2>2. CASE ScanQuiet \/ ScanEnd \/ \E addr \in Addrs : GivenUp(addr)
    <3>1. pc = "scan"
      BY <2>2, ScanStep
    <3> QED
      BY <3>1
  <2> QED
    BY <2>1, <2>2 DEF Next, Step
<1> QED
  BY <1>1, PathsInvariant, PTL DEF Spec, BackoffOncePerWindow
=============================================================================
