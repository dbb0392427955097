--------------------------- MODULE TransferProofs ---------------------------
(***************************************************************************)
(* Proofs about one connection moving data (Transfer), for blocks, rings,  *)
(* windows and transfers of any size, and any losses.                      *)
(***************************************************************************)
EXTENDS Transfer, FiniteSetTheorems, SequenceTheorems, TLAPS

(* Division with remainder.                                                *)
LEMMA Multiple ==
  ASSUME NEW n \in Nat \ {0}, NEW d \in Int, n * d < n, -n < n * d
  PROVE  d = 0
<1>1. d >= 1 => n * (d - 1) >= 0
  OBVIOUS
<1>2. d <= -1 => n * (-d - 1) >= 0
  OBVIOUS
<1>3. n * (d - 1) = n * d - n /\ n * (-d - 1) = -(n * d) - n
  OBVIOUS
<1> QED
  BY <1>1, <1>2, <1>3

LEMMA Division ==
  ASSUME NEW n \in Nat \ {0}, NEW x \in Int
  PROVE  x \div n \in Int /\ x % n \in 0..(n - 1) /\ x = n * (x \div n) + (x % n)
  OBVIOUS

LEMMA Remainder ==
  ASSUME NEW n \in Nat \ {0}, NEW q \in Int, NEW r \in 0..(n - 1)
  PROVE  (n * q + r) % n = r
<1> DEFINE a == n * q + r
           k == a \div n
<1>1. n * q \in Int /\ a \in Int
  OBVIOUS
<1>2. k \in Int /\ a % n \in 0..(n - 1) /\ a = n * k + (a % n)
  BY <1>1, Division
<1> HIDE DEF k
<1>3. n * (q - k) = n * q - n * k
  BY <1>2
<1>4. n * q - n * k = (a % n) - r
  BY <1>2
<1>5. q - k = 0
  BY <1>2, <1>3, <1>4, Multiple
<1> QED
  BY <1>2, <1>4, <1>5

(* Blocks a ring apart share a slot, different blocks less than that apart *)
(* do not.                                                                 *)
LEMMA SlotFacts ==
  ASSUME NEW x \in Nat
  PROVE  Slot(x) \in Slots /\ Slot(x + NUM_BLOCKS) = Slot(x)
<1> DEFINE q == x \div NUM_BLOCKS
           r == x % NUM_BLOCKS
<1>1. q \in Int /\ r \in 0..(NUM_BLOCKS - 1) /\ x = NUM_BLOCKS * q + r
  BY BlockAssumption, Division
<1>2. r = Slot(x)
  BY DEF Slot
<1> HIDE DEF q, r
<1>3. x + NUM_BLOCKS = NUM_BLOCKS * (q + 1) + r
  BY <1>1, BlockAssumption
<1>4. (NUM_BLOCKS * (q + 1) + r) % NUM_BLOCKS = r
  BY <1>1, BlockAssumption, Remainder
<1> QED
  BY <1>1, <1>2, <1>3, <1>4 DEF Slot, Slots

LEMMA SlotsDiffer ==
  ASSUME NEW x \in Nat, NEW y \in Nat, x < y, y < x + NUM_BLOCKS
  PROVE  Slot(x) # Slot(y)
<1> SUFFICES ASSUME Slot(x) = Slot(y) PROVE FALSE
  OBVIOUS
<1> DEFINE p == x \div NUM_BLOCKS
           q == y \div NUM_BLOCKS
<1>1. p \in Int /\ q \in Int /\ Slot(x) \in Int
  BY BlockAssumption, Division DEF Slot
<1>2. x = NUM_BLOCKS * p + Slot(x) /\ y = NUM_BLOCKS * q + Slot(x)
  BY BlockAssumption, Division DEF Slot
<1> HIDE DEF p, q
<1>3. NUM_BLOCKS * (q - p) = NUM_BLOCKS * q - NUM_BLOCKS * p
  BY <1>1, BlockAssumption
<1>4. NUM_BLOCKS * (q - p) = y - x
  BY <1>1, <1>2, <1>3, BlockAssumption
<1>5. q - p = 0
  BY <1>1, <1>4, BlockAssumption, Multiple
<1> QED
  BY <1>1, <1>4, <1>5, BlockAssumption

LEMMA MinFacts ==
  ASSUME NEW T \in SUBSET Nat, T # {}
  PROVE  Min(T) \in T /\ \A t \in T : Min(T) <= t
<1> DEFINE R == OpToRel(<, Nat)
<1>1. \E x \in T : \A y \in T : ~(<<y, x>> \in R)
  BY NatLessThanWellFounded, WFMin
<1>2. \A x \in Nat, y \in Nat : <<y, x>> \in R <=> y < x
  BY DEF OpToRel
<1> HIDE DEF R
<1>3. \E x \in T : \A y \in T : ~(y < x)
  BY <1>1, <1>2, Zenon
<1>4. \E x \in T : \A y \in T : x <= y
  BY <1>3
<1> QED
  BY <1>4 DEF Min

(* A sequence without its i-th element.                                    *)
LEMMA RemoveAtFacts ==
  ASSUME NEW S, NEW s \in Seq(S), NEW i \in DOMAIN s
  PROVE  /\ RemoveAt(s, i) \in Seq(S) /\ DOMAIN RemoveAt(s, i) = 1..(Len(s) - 1)
         /\ \A j \in 1..(Len(s) - 1) : RemoveAt(s, i)[j] = IF j < i THEN s[j] ELSE s[j + 1]
<1> DEFINE f == SubSeq(s, 1, i - 1)
           a == SubSeq(s, i + 1, Len(s))
<1>1. i \in 1..Len(s) /\ Len(s) \in Nat
  OBVIOUS
<1>2. f \in Seq(S) /\ Len(f) = i - 1 /\ \A j \in 1..(i - 1) : f[j] = s[j]
  BY <1>1, SubSeqProperties
<1>3. a \in Seq(S) /\ Len(a) = Len(s) - i /\ \A j \in 1..(Len(s) - i) : a[j] = s[i + j]
  BY <1>1, SubSeqProperties
<1> HIDE DEF f, a
<1>4. /\ f \o a \in Seq(S) /\ Len(f \o a) = Len(f) + Len(a)
      /\ \A j \in 1..(Len(f) + Len(a)) : (f \o a)[j] = IF j <= Len(f) THEN f[j] ELSE a[j - Len(f)]
  BY <1>2, <1>3, ConcatProperties
<1>5. Len(f) + Len(a) = Len(s) - 1
  BY <1>1, <1>2, <1>3
<1>6. \A j \in 1..(Len(s) - 1) : (f \o a)[j] = IF j < i THEN s[j] ELSE s[j + 1]
  <2> TAKE j \in 1..(Len(s) - 1)
  <2>1. CASE j < i
    BY <1>1, <1>2, <1>4, <1>5, <2>1
  <2>2. CASE ~(j < i)
    <3>1. j - (i - 1) \in 1..(Len(s) - i) /\ i + (j - (i - 1)) = j + 1
      BY <1>1, <2>2
    <3>2. a[j - (i - 1)] = s[j + 1]
      BY <1>3, <3>1
    <3>3. j \in 1..(Len(f) + Len(a)) /\ ~(j <= Len(f)) /\ j - Len(f) = j - (i - 1)
      BY <1>1, <1>2, <1>5, <2>2
    <3>4. (f \o a)[j] = a[j - Len(f)]
      BY <1>4, <3>3, Zenon
    <3> QED
      BY <2>2, <3>2, <3>3, <3>4
  <2> QED
    BY <2>1, <2>2
<1>7. RemoveAt(s, i) = f \o a
  BY DEF RemoveAt, f, a
<1>8. DOMAIN (f \o a) = 1..(Len(s) - 1)
  BY <1>4, <1>5
<1> QED
  BY <1>4, <1>6, <1>7, <1>8
-----------------------------------------------------------------------------
(* The client's blocks: dofs counts the rows that are filled.              *)
Fields == {"rows", "src", "width", "dofs", "pushed", "max"}
Filled(blk) == {r \in Rows : blk.rows[r] # "none"}
IsBlock(blk) ==
  /\ DOMAIN blk = Fields /\ blk.rows \in [Rows -> {"none", "coded", "plain"}]
  /\ blk.dofs = Cardinality(Filled(blk))
IsRing(ring) == DOMAIN ring = Slots /\ \A s \in Slots : IsBlock(ring[s])

LEMMA RowsFinite == IsFiniteSet(Rows) /\ Cardinality(Rows) = BLOCK_SIZE
  BY BlockAssumption, FS_Interval DEF Rows

LEMMA DofsBounded ==
  ASSUME NEW blk, IsBlock(blk)
  PROVE  blk.dofs \in 0..BLOCK_SIZE /\ IsFiniteSet(Filled(blk))
<1>1. Filled(blk) \in SUBSET Rows
  BY DEF Filled
<1>2. IsFiniteSet(Filled(blk)) /\ Cardinality(Filled(blk)) <= BLOCK_SIZE
  BY <1>1, RowsFinite, FS_Subset
<1>3. Cardinality(Filled(blk)) \in Nat
  BY <1>2, FS_CardinalityType
<1> QED
  BY <1>2, <1>3, BlockAssumption DEF IsBlock

LEMMA EmptyBlock == IsBlock(initCodedBlock) /\ initCodedBlock.dofs = 0
<1>1. Filled(initCodedBlock) = {}
  BY DEF Filled, initCodedBlock
<1> QED
  BY <1>1, FS_EmptySet DEF IsBlock, initCodedBlock, Fields

(* The elimination loop fills one row.                                     *)
LEMMA EliminatedBlock ==
  ASSUME NEW blk, IsBlock(blk),
         NEW p, NEW r \in Pivots(blk, p), NEW spoilt
  PROVE  /\ IsBlock(Eliminate(blk, p, r, spoilt))
         /\ Eliminate(blk, p, r, spoilt).dofs = blk.dofs + 1
<1> DEFINE e == Eliminate(blk, p, r, spoilt)
<1>1. r \in Rows /\ blk.rows[r] = "none"
  BY DEF Pivots
<1>2. /\ DOMAIN e = Fields /\ e.dofs = blk.dofs + 1
      /\ e.rows = [blk.rows EXCEPT ![r] = IF p.flag = "NORMAL" THEN "plain" ELSE "coded"]
  BY DEF Eliminate, IsBlock, Fields
<1>3. e.rows \in [Rows -> {"none", "coded", "plain"}]
  BY <1>1, <1>2 DEF IsBlock
<1>4. Filled(e) = Filled(blk) \cup {r} /\ r \notin Filled(blk)
  BY <1>1, <1>2 DEF Filled, IsBlock
<1> HIDE DEF e
<1>5. Cardinality(Filled(blk) \cup {r}) = Cardinality(Filled(blk)) + 1
  BY <1>4, DofsBounded, FS_AddElement
<1> QED
  BY <1>2, <1>3, <1>4, <1>5 DEF IsBlock, e

(* unwrap and partial_write fill none.                                     *)
LEMMA WrittenBlock ==
  ASSUME NEW blk, IsBlock(blk), NEW cur \in {blk, unwrap(blk)}, NEW to
  PROVE  IsBlock([cur EXCEPT !.pushed = to]) /\ [cur EXCEPT !.pushed = to].dofs = blk.dofs
<1> DEFINE w == [cur EXCEPT !.pushed = to]
<1>1. DOMAIN cur = Fields /\ cur.dofs = blk.dofs
  BY DEF unwrap, IsBlock, Fields
<1>2. /\ cur.rows \in [Rows -> {"none", "coded", "plain"}]
      /\ \A r \in Rows : cur.rows[r] = "none" <=> blk.rows[r] = "none"
  BY DEF unwrap, IsBlock, Fields
<1>3. DOMAIN w = Fields /\ w.dofs = blk.dofs /\ w.rows = cur.rows
  BY <1>1 DEF Fields
<1> HIDE DEF w
<1>4. Filled(w) = Filled(blk)
  BY <1>2, <1>3 DEF Filled
<1> QED
  BY <1>2, <1>3, <1>4 DEF IsBlock, w

(* unmarshallData notes the packets known of, and changes no row.          *)
LEMMA KnownRing ==
  ASSUME NEW p, IsRing(cblk)
  PROVE  IsRing(unmarshallData(p)) /\ \A s \in Slots : unmarshallData(p)[s].dofs = cblk[s].dofs
<1> DEFINE known == unmarshallData(p)
           x == Slot(p.blockno)
<1>1. CASE p.blockno < cli_curr
  BY <1>1 DEF unmarshallData
<1>2. CASE ~(p.blockno < cli_curr)
  <2>1. DOMAIN known = Slots
    BY <1>2 DEF unmarshallData, IsRing
  <2>2. SUFFICES ASSUME NEW s \in Slots PROVE IsBlock(known[s]) /\ known[s].dofs = cblk[s].dofs
    BY <2>1 DEF IsRing
  <2>3. CASE s # x
    BY <1>2, <2>3 DEF unmarshallData, IsRing
  <2>4. CASE s = x
    <3> DEFINE m == MAX(p.start + p.num, cblk[x].max)
    <3>1. known[s] = [cblk[s] EXCEPT !.max = m]
      BY <1>2, <2>4 DEF unmarshallData, IsRing
    <3> HIDE DEF m
    <3>2. IsBlock(cblk[s])
      BY DEF IsRing
    <3>3. DOMAIN known[s] = Fields /\ known[s].rows = cblk[s].rows /\ known[s].dofs = cblk[s].dofs
      BY <3>1, <3>2 DEF IsBlock, Fields
    <3>4. Filled(known[s]) = Filled(cblk[s])
      BY <3>3 DEF Filled
    <3> QED
      BY <3>2, <3>3, <3>4 DEF IsBlock
  <2> QED
    BY <2>3, <2>4
<1> QED
  BY <1>1, <1>2
-----------------------------------------------------------------------------
(* The inductive invariant behind FreedOnlyWhenHeld.  What is true of the  *)
(* server's current block has to be true of every ack under way, late ones *)
(* included: the client holds all blocks before the one it names, and has  *)
(* as many degrees of freedom of that one as the ack says.  A client that  *)
(* holds its whole window names the block after it, of which it has none.  *)
IsSequence(s) == \E S : s \in Seq(S)
DofsOf(b) == IF b < cli_curr + NUM_BLOCKS THEN cblk[Slot(b)].dofs ELSE 0
Held(n) == n \in 1..(cli_curr + NUM_BLOCKS) /\ \A b \in 1..(n - 1) : HeldByClient(b)
AckTrue(a) ==
  /\ Held(a.blockno) /\ a.dof_rec \in Nat
  /\ a.blockno >= cli_curr => a.dof_rec <= DofsOf(a.blockno)

ClientInv == IsRing(cblk) /\ cli_curr \in Nat \ {0}
AcksInv   == IsSequence(acks) /\ \A i \in DOMAIN acks : AckTrue(acks[i])
HeldInv   == ClientInv /\ AcksInv /\ Held(curr_block)

(* What the client does only adds to what it holds.                        *)
Progress ==
  /\ ClientInv' /\ cli_curr <= cli_curr'
  /\ \A n \in Nat : Held(n) => Held(n)'
  /\ \A b \in Nat : cli_curr' <= b /\ b <= cli_curr + NUM_BLOCKS => DofsOf(b) <= DofsOf(b)'

LEMMA AckStaysTrue ==
  ASSUME ClientInv, Progress, NEW a, AckTrue(a)
  PROVE  AckTrue(a)'
<1>1. a.blockno \in Nat /\ a.blockno <= cli_curr + NUM_BLOCKS /\ Held(a.blockno)'
  <2>1. a.blockno \in Nat /\ a.blockno <= cli_curr + NUM_BLOCKS
    BY BlockAssumption DEF ClientInv, AckTrue, Held
  <2> QED
    BY <2>1 DEF Progress, AckTrue
<1>2. CASE a.blockno < cli_curr'
  BY <1>1, <1>2 DEF AckTrue, Progress, ClientInv
<1>3. CASE a.blockno >= cli_curr'
  <2>1. DofsOf(a.blockno) <= DofsOf(a.blockno)' /\ a.dof_rec <= DofsOf(a.blockno)
    BY <1>1, <1>3 DEF AckTrue, Progress, ClientInv
  <2>2. DofsOf(a.blockno) \in Int /\ DofsOf(a.blockno)' \in Int
    <3>1. Slot(a.blockno) \in Slots
      BY <1>1, SlotFacts
    <3>2. cblk[Slot(a.blockno)].dofs \in 0..BLOCK_SIZE /\ cblk'[Slot(a.blockno)].dofs \in 0..BLOCK_SIZE
      BY <3>1, DofsBounded DEF ClientInv, Progress, IsRing
    <3> QED
      BY <3>2, BlockAssumption DEF DofsOf
  <2> QED
    BY <1>1, <1>3, <2>1, <2>2 DEF AckTrue
<1> QED
  BY <1>1, <1>2, <1>3 DEF Progress, ClientInv

(* The client with the blocks blk, before partial_write, sends its ack.    *)
Acked(seqno, blk) ==
  /\ IsRing(blk) /\ \A s \in Slots : cblk[s].dofs <= blk[s].dofs
  /\ IsRing(cblk') /\ \A s \in Slots : cblk'[s].dofs = blk[s].dofs
  /\ acks' = Append(acks, AckFor(seqno, blk)) /\ cli_curr' = cli_curr

LEMMA AckedAndWritten ==
  ASSUME ClientInv, NEW p, NEW blk, IsRing(blk), \A s \in Slots : cblk[s].dofs <= blk[s].dofs,
         AckAndWrite(p, blk)
  PROVE  Acked(p.seqno, blk)
<1> DEFINE c == Slot(cli_curr)
           cur == IF blk[c].dofs = blk[c].max THEN unwrap(blk[c]) ELSE blk[c]
<1>1. c \in Slots /\ IsBlock(blk[c])
  BY SlotFacts DEF ClientInv, IsRing
<1>2. acks' = Append(acks, AckFor(p.seqno, blk)) /\ cli_curr' = cli_curr
  BY DEF AckAndWrite
<1>3. CASE cblk' = blk
  BY <1>2, <1>3 DEF Acked
<1>4. ASSUME NEW to, cblk' = [blk EXCEPT ![c] = [cur EXCEPT !.pushed = to]]
      PROVE  Acked(p.seqno, blk)
  <2>1. cur \in {blk[c], unwrap(blk[c])}
    OBVIOUS
  <2> HIDE DEF cur
  <2>2. IsBlock([cur EXCEPT !.pushed = to]) /\ [cur EXCEPT !.pushed = to].dofs = blk[c].dofs
    BY <1>1, <2>1, WrittenBlock
  <2>3. /\ DOMAIN cblk' = Slots /\ cblk'[c] = [cur EXCEPT !.pushed = to]
        /\ \A s \in Slots \ {c} : cblk'[s] = blk[s]
    BY <1>1, <1>4 DEF IsRing
  <2>4. IsRing(cblk') /\ \A s \in Slots : cblk'[s].dofs = blk[s].dofs
    BY <2>2, <2>3 DEF IsRing
  <2> QED
    BY <1>2, <2>4 DEF Acked
<1> QED
  BY <1>3, <1>4 DEF AckAndWrite

LEMMA PacketReceived ==
  ASSUME ClientInv, NEW i \in DOMAIN data, ReceiveData(i)
  PROVE  \E blk : Acked(data[i].seqno, blk)
<1> DEFINE p == data[i]
           s == Slot(p.blockno)
           known == unmarshallData(p)
<1>1. IsRing(known) /\ \A t \in Slots : known[t].dofs = cblk[t].dofs
  BY KnownRing DEF ClientInv
<1>2. \A t \in Slots : cblk[t].dofs \in 0..BLOCK_SIZE
  BY DofsBounded DEF ClientInv, IsRing
<1>3. CASE AckAndWrite(p, known)
  BY <1>1, <1>2, <1>3, AckedAndWritten
<1>4. ASSUME Useful(p), NEW b \in Reduced(known[s], p), AckAndWrite(p, [known EXCEPT ![s] = b])
      PROVE  \E blk : Acked(p.seqno, blk)
  <2>1. s \in Slots
    <3>1. p.blockno \in Nat
      BY <1>4, BlockAssumption DEF Useful, InWindow, ClientInv
    <3> QED
      BY <3>1, SlotFacts
  <2>2. PICK r \in Pivots(known[s], p), spoilt \in BOOLEAN : b = Eliminate(known[s], p, r, spoilt)
    BY <1>4 DEF Reduced
  <2>3. IsBlock(b) /\ b.dofs = known[s].dofs + 1
    BY <1>1, <2>1, <2>2, EliminatedBlock DEF IsRing
  <2> DEFINE blk == [known EXCEPT ![s] = b]
  <2> HIDE DEF known
  <2>4. DOMAIN blk = Slots /\ blk[s] = b /\ \A t \in Slots \ {s} : blk[t] = known[t]
    BY <1>1, <2>1 DEF IsRing
  <2>5. IsRing(blk) /\ \A t \in Slots : cblk[t].dofs <= blk[t].dofs
    BY <1>1, <1>2, <2>1, <2>3, <2>4 DEF IsRing
  <2> HIDE DEF blk
  <2>6. Acked(p.seqno, blk)
    BY <1>4, <2>5, AckedAndWritten DEF blk
  <2> QED
    BY <2>6
<1> QED
  BY <1>3, <1>4 DEF ReceiveData, bldack

(* The ack names the first block that is not complete.                     *)
LEMMA AckNames ==
  ASSUME ClientInv, NEW seqno, NEW blk, IsRing(blk)
  PROVE  LET a == AckFor(seqno, blk) IN
         /\ a.blockno \in cli_curr..(cli_curr + NUM_BLOCKS) /\ a.dof_rec \in Nat
         /\ \A b \in cli_curr..(a.blockno - 1) : blk[Slot(b)].dofs = BLOCK_SIZE
         /\ a.blockno < cli_curr + NUM_BLOCKS => /\ a.dof_rec = blk[Slot(a.blockno)].dofs
                                                 /\ a.dof_rec # BLOCK_SIZE
         /\ a.blockno = cli_curr + NUM_BLOCKS => a.dof_rec = 0
<1> DEFINE window == cli_curr..(cli_curr + NUM_BLOCKS - 1)
           open == {b \in window : blk[Slot(b)].dofs # BLOCK_SIZE}
           a == AckFor(seqno, blk)
<1>1. window \subseteq Nat /\ cli_curr \in Nat /\ NUM_BLOCKS \in Nat \ {0}
  BY BlockAssumption DEF ClientInv
<1>2. CASE open = {}
  <2>1. a = [ackno |-> seqno + 1, blockno |-> cli_curr + NUM_BLOCKS, dof_rec |-> 0]
    BY <1>2 DEF AckFor
  <2> QED
    BY <1>1, <1>2, <2>1
<1>3. CASE open # {}
  <2> DEFINE m == Min(open)
  <2>1. a = [ackno |-> seqno + 1, blockno |-> m, dof_rec |-> blk[Slot(m)].dofs]
    BY <1>3 DEF AckFor
  <2>2. m \in open /\ \A b \in open : m <= b
    BY <1>1, <1>3, MinFacts
  <2> HIDE DEF m
  <2>3. m \in Nat /\ m \in window /\ blk[Slot(m)].dofs # BLOCK_SIZE
    BY <1>1, <2>2
  <2>4. blk[Slot(m)].dofs \in Nat
    BY <2>3, SlotFacts, DofsBounded DEF IsRing
  <2>5. \A b \in cli_curr..(m - 1) : blk[Slot(b)].dofs = BLOCK_SIZE
    BY <1>1, <2>2, <2>3
  <2> QED
    BY <1>1, <2>1, <2>3, <2>4, <2>5
<1> QED
  BY <1>2, <1>3

LEMMA AckedProgress ==
  ASSUME ClientInv, NEW seqno, NEW blk, Acked(seqno, blk)
  PROVE  Progress
<1>1. /\ ClientInv' /\ cli_curr' = cli_curr
      /\ \A s \in Slots : cblk[s].dofs <= cblk'[s].dofs
  BY DEF Acked, ClientInv
<1>2. /\ \A s \in Slots : cblk[s].dofs \in 0..BLOCK_SIZE
      /\ \A s \in Slots : cblk'[s].dofs \in 0..BLOCK_SIZE
  BY DofsBounded DEF Acked, ClientInv, IsRing
<1>3. \A b \in Nat : HeldByClient(b) => HeldByClient(b)'
  BY <1>1, <1>2, SlotFacts, BlockAssumption DEF HeldByClient
<1>4. \A n \in Nat : Held(n) => Held(n)'
  <2> SUFFICES ASSUME NEW n \in Nat, Held(n) PROVE Held(n)'
    OBVIOUS
  <2>1. n \in 1..(cli_curr' + NUM_BLOCKS)
    BY <1>1 DEF Held
  <2>2. \A b \in 1..(n - 1) : HeldByClient(b)'
    BY <1>3 DEF Held
  <2> QED
    BY <2>1, <2>2 DEF Held
<1>5. \A b \in Nat : DofsOf(b) <= DofsOf(b)'
  BY <1>1, <1>2, SlotFacts DEF DofsOf
<1> QED
  BY <1>1, <1>4, <1>5, BlockAssumption DEF Progress, ClientInv

LEMMA NewAckTrue ==
  ASSUME ClientInv, NEW seqno, NEW blk, Acked(seqno, blk), NEW a, a = AckFor(seqno, blk)
  PROVE  /\ AckTrue(a)'
         /\ \A n \in Nat : Held(n) => n <= a.blockno
<1>1. /\ a.blockno \in cli_curr..(cli_curr + NUM_BLOCKS) /\ a.dof_rec \in Nat
      /\ \A b \in cli_curr..(a.blockno - 1) : blk[Slot(b)].dofs = BLOCK_SIZE
      /\ a.blockno < cli_curr + NUM_BLOCKS => /\ a.dof_rec = blk[Slot(a.blockno)].dofs
                                              /\ a.dof_rec # BLOCK_SIZE
      /\ a.blockno = cli_curr + NUM_BLOCKS => a.dof_rec = 0
  BY AckNames DEF Acked
<1>2. cli_curr' = cli_curr /\ cli_curr \in Nat \ {0} /\ NUM_BLOCKS \in Nat \ {0}
  BY BlockAssumption DEF Acked, ClientInv
<1>3. \A b \in Nat : cblk'[Slot(b)].dofs = blk[Slot(b)].dofs
  BY SlotFacts DEF Acked
<1>4. Held(a.blockno)'
  <2>1. \A b \in 1..(a.blockno - 1) : b < cli_curr \/ b \in cli_curr..(a.blockno - 1)
    BY <1>1, <1>2
  <2>2. \A b \in 1..(a.blockno - 1) : HeldByClient(b)'
    BY <1>1, <1>2, <1>3, <2>1 DEF HeldByClient
  <2> QED
    BY <1>1, <1>2, <2>2 DEF Held
<1>5. a.dof_rec <= DofsOf(a.blockno)'
  BY <1>1, <1>2, <1>3 DEF DofsOf
<1>6. ASSUME NEW n \in Nat, Held(n) PROVE n <= a.blockno
  <2> SUFFICES ASSUME a.blockno < n PROVE FALSE
    BY <1>1, <1>2
  <2>1. HeldByClient(a.blockno) /\ a.blockno < cli_curr + NUM_BLOCKS /\ a.blockno \in Nat
    BY <1>1, <1>2, <1>6 DEF Held
  <2>2. cblk[Slot(a.blockno)].dofs = BLOCK_SIZE
    BY <1>1, <1>2, <2>1 DEF HeldByClient
  <2>3. blk[Slot(a.blockno)].dofs \in 0..BLOCK_SIZE /\ BLOCK_SIZE <= blk[Slot(a.blockno)].dofs
    BY <2>1, <2>2, SlotFacts, DofsBounded DEF Acked, IsRing
  <2> QED
    BY <1>1, <2>1, <2>3, BlockAssumption
<1> QED
  BY <1>1, <1>4, <1>5, <1>6 DEF AckTrue

LEMMA BlockDelivered ==
  ASSUME ClientInv, DeliverBlock
  PROVE  Progress
<1> DEFINE c == Slot(cli_curr)
<1>1. cli_curr' = cli_curr + 1 /\ cli_curr \in Nat \ {0} /\ NUM_BLOCKS \in Nat \ {0} /\ c \in Slots
  BY SlotFacts, BlockAssumption DEF DeliverBlock, ClientInv
<1>2. DOMAIN cblk' = Slots /\ cblk'[c] = initCodedBlock /\ \A s \in Slots \ {c} : cblk'[s] = cblk[s]
  BY <1>1 DEF DeliverBlock, ClientInv, IsRing
<1>3. ClientInv'
  BY <1>1, <1>2, EmptyBlock DEF ClientInv, IsRing
<1>4. \A b \in Nat : b > cli_curr /\ b < cli_curr + NUM_BLOCKS => cblk'[Slot(b)] = cblk[Slot(b)]
  BY <1>1, <1>2, SlotFacts, SlotsDiffer
<1>5. ASSUME NEW n \in Nat, Held(n) PROVE Held(n)'
  <2>1. n \in 1..(cli_curr' + NUM_BLOCKS)
    BY <1>1, <1>5 DEF Held
  <2>2. ASSUME NEW b \in 1..(n - 1) PROVE HeldByClient(b)'
    <3>1. HeldByClient(b) /\ b < cli_curr + NUM_BLOCKS /\ b \in Nat
      BY <1>1, <1>5 DEF Held
    <3> QED
      BY <1>1, <1>4, <3>1 DEF HeldByClient
  <2> QED
    BY <2>1, <2>2 DEF Held
<1>6. ASSUME NEW b \in Nat, cli_curr' <= b, b <= cli_curr + NUM_BLOCKS PROVE DofsOf(b) <= DofsOf(b)'
  <2>1. CASE b < cli_curr + NUM_BLOCKS
    <3>1. cblk[Slot(b)].dofs \in 0..BLOCK_SIZE
      BY SlotFacts, DofsBounded DEF ClientInv, IsRing
    <3> QED
      BY <1>1, <1>4, <1>6, <2>1, <3>1 DEF DofsOf
  <2>2. CASE b = cli_curr + NUM_BLOCKS
    <3>1. Slot(b) = c
      BY <1>1, <2>2, SlotFacts
    <3>2. DofsOf(b) = 0 /\ DofsOf(b)' = 0
      BY <1>1, <1>2, <2>2, <3>1, EmptyBlock DEF DofsOf
    <3> QED
      BY <3>2
  <2> QED
    BY <1>1, <1>6, <2>1, <2>2
<1> QED
  BY <1>1, <1>3, <1>5, <1>6 DEF Progress
-----------------------------------------------------------------------------
(* The acks under way, when one arrives, is lost, or is sent.              *)
LEMMA AckRemoved ==
  ASSUME AcksInv, NEW i \in DOMAIN acks, acks' = RemoveAt(acks, i)
  PROVE  /\ IsSequence(acks') /\ DOMAIN acks' = 1..(Len(acks) - 1) /\ DOMAIN acks = 1..Len(acks)
         /\ Len(acks) \in Nat
         /\ \A j \in DOMAIN acks' : acks'[j] = IF j < i THEN acks[j] ELSE acks[j + 1]
<1>1. PICK S : acks \in Seq(S)
  BY DEF AcksInv, IsSequence
<1>2. /\ acks' \in Seq(S) /\ DOMAIN acks' = 1..(Len(acks) - 1)
      /\ \A j \in DOMAIN acks' : acks'[j] = IF j < i THEN acks[j] ELSE acks[j + 1]
  BY <1>1, RemoveAtFacts
<1> QED
  BY <1>1, <1>2 DEF IsSequence

LEMMA AckAppended ==
  ASSUME AcksInv, NEW a, acks' = Append(acks, a)
  PROVE  /\ IsSequence(acks') /\ DOMAIN acks' = 1..(Len(acks) + 1) /\ DOMAIN acks = 1..Len(acks)
         /\ Len(acks) \in Nat /\ acks'[Len(acks) + 1] = a
         /\ \A j \in DOMAIN acks : acks'[j] = acks[j]
<1>1. PICK S : acks \in Seq(S)
  BY DEF AcksInv, IsSequence
<1> DEFINE T == S \cup {a}
<1>2. acks \in Seq(T) /\ a \in T
  BY <1>1, SeqMonotonic
<1> HIDE DEF T
<1>3. /\ acks' \in Seq(T) /\ Len(acks') = Len(acks) + 1 /\ acks'[Len(acks) + 1] = a
      /\ \A j \in 1..Len(acks) : acks'[j] = acks[j]
  BY <1>2, AppendProperties
<1> QED
  BY <1>2, <1>3 DEF IsSequence

(* No other step changes what the invariant is about.                      *)
Quiet == UNCHANGED <<curr_block, acks, cli_curr, cblk>>

LEMMA StepKinds ==
  ASSUME [Next]_vars
  PROVE  \/ \E i \in DOMAIN data : ReceiveData(i)
         \/ \E i \in DOMAIN acks : ReceiveAck(i) \/ LoseAck(i)
         \/ DeliverBlock
         \/ Quiet
<1> USE DEF Quiet, shared, client, net
<1>1. CASE Application
  BY <1>1 DEF Application, send_ctcp, Fill, SendReturn
<1>2. CASE Coding
  BY <1>2 DEF Coding, TakeJob, coding_job
<1>3. CASE timeout
  BY <1>3 DEF timeout
<1>4. CASE SendSegs
  BY <1>4 DEF SendSegs, SegsEnter, SegsNeed, SegsJob, SegsReturn, send_one, NextBlock, SegsBegin
<1>5. CASE Network
  BY <1>5 DEF Network, LosePacket, RepeatPacket
<1>6. CASE UNCHANGED vars
  BY <1>6 DEF vars
<1> QED
  BY <1>1, <1>2, <1>3, <1>4, <1>5, <1>6 DEF Next

LEMMA HeldUnchanged ==
  ASSUME UNCHANGED <<cli_curr, cblk>>
  PROVE  /\ ClientInv' <=> ClientInv
         /\ \A n : Held(n)' <=> Held(n)
         /\ \A b : DofsOf(b)' = DofsOf(b)
         /\ \A a : AckTrue(a)' <=> AckTrue(a)
  BY DEF ClientInv, Held, HeldByClient, DofsOf, AckTrue

LEMMA HeldStep ==
  ASSUME HeldInv, [Next]_vars
  PROVE  HeldInv'
<1> USE DEF HeldInv
<1>0. curr_block \in Nat /\ Held(curr_block)
  BY BlockAssumption DEF Held, ClientInv
<1>1. ASSUME NEW i \in DOMAIN data, ReceiveData(i) PROVE HeldInv'
  <2>1. PICK blk : Acked(data[i].seqno, blk)
    BY <1>1, PacketReceived
  <2>2. Progress
    BY <2>1, AckedProgress
  <2>3. PICK a : a = AckFor(data[i].seqno, blk)
    OBVIOUS
  <2>4. AckTrue(a)' /\ acks' = Append(acks, a)
    BY <2>1, <2>3, NewAckTrue DEF Acked
  <2>5. curr_block' = curr_block
    BY <1>1 DEF ReceiveData, shared
  <2>6. Held(curr_block)'
    BY <1>0, <2>2, <2>5 DEF Progress, Held, HeldByClient
  <2>7. AcksInv'
    <3>1. SUFFICES ASSUME NEW j \in DOMAIN acks' PROVE AckTrue(acks[j])'
      BY <2>4, AckAppended DEF AcksInv
    <3>2. CASE j = Len(acks) + 1
      BY <2>4, <3>2, AckAppended DEF AckTrue, Held, HeldByClient, DofsOf
    <3>3. CASE j # Len(acks) + 1
      <4>1. j \in DOMAIN acks
        BY <2>4, <3>3, AckAppended
      <4>2. PICK b : b = acks[j]
        OBVIOUS
      <4>3. acks'[j] = b /\ AckTrue(b)
        BY <2>4, <4>1, <4>2, AckAppended DEF AcksInv
      <4>4. AckTrue(b)'
        BY <2>2, <4>3, AckStaysTrue
      <4> QED
        BY <4>3, <4>4
    <3> QED
      BY <3>2, <3>3
  <2> QED
    BY <2>2, <2>6, <2>7 DEF Progress
<1>2. CASE DeliverBlock
  <2>1. Progress
    BY <1>2, BlockDelivered
  <2>2. UNCHANGED <<curr_block, acks>>
    BY <1>2 DEF DeliverBlock, shared, net
  <2>3. Held(curr_block)'
    BY <1>0, <2>1, <2>2 DEF Progress, Held, HeldByClient
  <2>4. ASSUME NEW j \in DOMAIN acks PROVE AckTrue(acks[j])'
    <3>1. PICK b : b = acks[j]
      OBVIOUS
    <3>2. AckTrue(b)'
      BY <2>1, <3>1, AckStaysTrue DEF AcksInv
    <3> QED
      BY <2>2, <3>1, <3>2
  <2> QED
    BY <2>1, <2>2, <2>3, <2>4 DEF Progress, AcksInv
<1>3. ASSUME NEW i \in DOMAIN acks, ReceiveAck(i) \/ LoseAck(i) PROVE HeldInv'
  <2>1. acks' = RemoveAt(acks, i) /\ UNCHANGED <<cli_curr, cblk>>
    BY <1>3 DEF ReceiveAck, LoseAck, handle_ack, client
  <2>2. ASSUME NEW j \in DOMAIN acks' PROVE AckTrue(acks[j])'
    <3>1. PICK k \in DOMAIN acks : acks'[j] = acks[k]
      BY <2>1, AckRemoved
    <3>2. PICK b : b = acks[k]
      OBVIOUS
    <3>3. AckTrue(b)'
      BY <2>1, <3>2, HeldUnchanged DEF AcksInv
    <3> QED
      BY <3>1, <3>2, <3>3
  <2>3. AcksInv' /\ ClientInv'
    BY <2>1, <2>2, AckRemoved, HeldUnchanged DEF AcksInv
  <2>4. curr_block' = curr_block \/ curr_block' = acks[i].blockno
    BY <1>3 DEF ReceiveAck, LoseAck, handle_ack, MAX, shared
  <2>5. Held(curr_block')
    BY <2>4 DEF AcksInv, AckTrue
  <2> QED
    BY <2>1, <2>3, <2>5, HeldUnchanged DEF Held, HeldByClient
<1>4. CASE Quiet
  <2>1. ClientInv' /\ Held(curr_block)'
    BY <1>4, HeldUnchanged DEF Quiet
  <2>2. AcksInv'
    BY <1>4, HeldUnchanged DEF Quiet, AcksInv
  <2> QED
    BY <2>1, <2>2
<1> QED
  BY <1>1, <1>2, <1>3, <1>4, StepKinds

LEMMA HeldInit ==
  ASSUME Init
  PROVE  HeldInv
<1>1. ClientInv
  BY EmptyBlock DEF Init, ClientInv, IsRing
<1>2. AcksInv
  <2>1. acks = <<>> /\ acks \in Seq({}) /\ DOMAIN acks = {}
    BY DEF Init
  <2> QED
    BY <2>1 DEF AcksInv, IsSequence
<1>3. Held(curr_block)
  BY BlockAssumption DEF Init, Held
<1> QED
  BY <1>1, <1>2, <1>3 DEF HeldInv

(* Whatever the network loses, repeats or delays, data and acks, and       *)
(* however the threads interleave: handle_ack advances curr_block, and     *)
(* frees the blocks before it, the only copies of their data, only when    *)
(* the client holds all of each of them.                                   *)
THEOREM NothingFreedTooEarly == Spec => []FreedOnlyWhenHeld
<1>1. Init => HeldInv
  BY HeldInit
<1>2. HeldInv /\ [Next]_vars => HeldInv'
  BY HeldStep
<1>3. HeldInv => FreedOnlyWhenHeld
  BY DEF HeldInv, Held, FreedOnlyWhenHeld
<1> QED
  BY <1>1, <1>2, <1>3, PTL DEF Spec
-----------------------------------------------------------------------------
(* The server's ring: all blocks before the last one are full, so the slot *)
(* that the last one shares with the current block is not written to while *)
(* they share it.  Nor is more of the current block asked for than there   *)
(* is of it.                                                               *)
ReqInBlock == dof_req_latest <= Len(blocks[Slot(curr_block)])
FullBlocks == \A b \in curr_block..(maxblockno - 1) : Len(blocks[Slot(b)]) = BLOCK_SIZE
RingInv ==
  /\ blocks \in [Slots -> Seq(Nat)] /\ \A s \in Slots : Len(blocks[s]) <= BLOCK_SIZE
  /\ accepted \in Nat /\ bytes_left \in Nat /\ dof_req_latest \in Nat
  /\ curr_block \in Nat \ {0} /\ maxblockno \in curr_block..(curr_block + NUM_BLOCKS)
  /\ FullBlocks /\ ReqInBlock

(* Acks that stay in order name later and later blocks, none of them       *)
(* before the server's current one.                                        *)
OrderInv ==
  /\ \A i \in DOMAIN acks : curr_block <= acks[i].blockno
  /\ \A i, j \in DOMAIN acks : i < j => acks[i].blockno <= acks[j].blockno

NeedInv ==
  cli_curr <= curr_block => dof_req_latest >= Len(blocks[Slot(curr_block)]) - DofsOf(curr_block)

(* readBlock into the last block.                                          *)
Read(s, read) ==
  /\ blocks' = [blocks EXCEPT ![s] = @ \o [k \in 1..read |-> accepted + k]]
  /\ dof_req_latest' = IF maxblockno = curr_block THEN dof_req_latest + read ELSE dof_req_latest
  /\ accepted' = accepted + read /\ bytes_left' = bytes_left - read
  /\ UNCHANGED maxblockno

LEMMA LastBlockRead ==
  ASSUME RingInv, NEW s, s = Slot(maxblockno),
         NEW read \in Nat, read > 0, read <= BLOCK_SIZE - Len(blocks[s]), read <= bytes_left,
         Read(s, read), curr_block' = curr_block
  PROVE  /\ RingInv' /\ s \in Slots /\ \A t \in Slots \ {s} : blocks'[t] = blocks[t]
         /\ Len(blocks'[s]) = Len(blocks[s]) + read
         /\ Slot(curr_block) = s => curr_block = maxblockno
<1> DEFINE new == [k \in 1..read |-> accepted + k]
<1>1. /\ maxblockno \in Nat /\ s \in Slots /\ blocks[s] \in Seq(Nat) /\ Len(blocks[s]) \in Nat
      /\ NUM_BLOCKS \in Nat \ {0} /\ BLOCK_SIZE \in Nat \ {0}
  BY SlotFacts, BlockAssumption DEF RingInv
<1>2. new \in Seq(Nat) /\ Len(new) = read
  BY DEF RingInv
<1> HIDE DEF new
<1>3. blocks[s] \o new \in Seq(Nat) /\ Len(blocks[s] \o new) = Len(blocks[s]) + read
  <2>1. blocks[s] \in Seq(Nat) /\ new \in Seq(Nat)
    BY <1>1, <1>2
  <2>2. blocks[s] \o new \in Seq(Nat) /\ Len(blocks[s] \o new) = Len(blocks[s]) + Len(new)
    BY ONLY <2>1, ConcatProperties, Zenon
  <2> QED
    BY <1>2, <2>2
<1>4. blocks' = [blocks EXCEPT ![s] = blocks[s] \o new]
  BY DEF Read, new
<1>5. /\ blocks' \in [Slots -> Seq(Nat)] /\ blocks'[s] = blocks[s] \o new
      /\ \A t \in Slots \ {s} : blocks'[t] = blocks[t]
  BY <1>1, <1>3, <1>4 DEF RingInv
<1>6. \A b \in curr_block..(maxblockno - 1) : Slot(b) \in Slots \ {s}
  <2>1. \A b \in curr_block..(maxblockno - 1) : b \in Nat /\ Len(blocks[Slot(b)]) = BLOCK_SIZE
    BY DEF RingInv, FullBlocks
  <2>2. Len(blocks[s]) # BLOCK_SIZE
    BY <1>1
  <2>3. \A b \in Nat : Slot(b) \in Slots
    BY SlotFacts, Zenon
  <2> QED
    BY <2>1, <2>2, <2>3, Zenon
<1>7. FullBlocks'
  <2>1. maxblockno' = maxblockno
    BY DEF Read
  <2> QED
    BY <1>5, <1>6, <2>1 DEF RingInv, FullBlocks
<1>8. Slot(curr_block) = s => curr_block = maxblockno
  BY <1>6 DEF RingInv
<1>9. accepted' \in Nat /\ bytes_left' \in Nat /\ dof_req_latest' \in Nat
  BY DEF Read, RingInv
<1>10. \A t \in Slots : Len(blocks'[t]) <= BLOCK_SIZE
  <2> TAKE t \in Slots
  <2>1. CASE t = s
    BY <1>1, <1>3, <1>5, <2>1
  <2>2. CASE t # s
    BY <1>5, <2>2 DEF RingInv
  <2> QED
    BY <2>1, <2>2
<1>11. ReqInBlock'
  <2> DEFINE len == Len(blocks[Slot(curr_block)])
  <2>1. Slot(curr_block) \in Slots /\ len \in Nat /\ dof_req_latest \in Nat /\ dof_req_latest <= len
    <3>1. curr_block \in Nat /\ Slot(curr_block) \in Slots
      BY SlotFacts DEF RingInv
    <3>2. blocks[Slot(curr_block)] \in Seq(Nat)
      BY <3>1 DEF RingInv
    <3> QED
      BY <3>1, <3>2 DEF RingInv, ReqInBlock
  <2>2. CASE Slot(curr_block) = s
    <3>1. Len(blocks'[s]) = len + read /\ dof_req_latest' = dof_req_latest + read
      BY <1>3, <1>5, <1>8, <2>2 DEF Read
    <3> HIDE DEF len
    <3> QED
      BY <2>1, <2>2, <3>1 DEF ReqInBlock
  <2>3. CASE Slot(curr_block) # s
    <3>1. blocks'[Slot(curr_block)] = blocks[Slot(curr_block)] /\ dof_req_latest' = dof_req_latest
      BY <1>5, <2>1, <2>3 DEF Read
    <3> QED
      BY <2>1, <3>1 DEF ReqInBlock
  <2> QED
    BY <2>2, <2>3
<1> QED
  BY <1>1, <1>3, <1>5, <1>7, <1>8, <1>9, <1>10, <1>11 DEF RingInv, Read

(* What handle_ack leaves of the ring.                                     *)
Freed(a) == {Slot(b) : b \in curr_block..(a.blockno - 1)}
AckHandled(a) ==
  /\ blocks' = [s \in Slots |-> IF s \in Freed(a) THEN <<>> ELSE blocks[s]]
  /\ curr_block' = MAX(a.blockno, curr_block) /\ maxblockno' = MAX(curr_block', maxblockno)
  /\ dof_req_latest' = DofReq(a.blockno > curr_block, Len(blocks'[Slot(curr_block')]), a.dof_rec)
  /\ UNCHANGED <<accepted, bytes_left>>

LEMMA RingAcked ==
  ASSUME RingInv, NEW a, a.blockno \in Nat, a.dof_rec \in Nat, AckHandled(a)
  PROVE  RingInv'
<1> USE BlockAssumption
<1>1. curr_block' \in Nat \ {0} /\ curr_block <= curr_block' /\ a.blockno <= curr_block'
  BY DEF RingInv, AckHandled, MAX
<1>2. maxblockno' \in curr_block'..(curr_block' + NUM_BLOCKS)
  BY <1>1 DEF RingInv, AckHandled, MAX
<1>3. \A s \in Slots : blocks'[s] \in Seq(Nat) /\ Len(blocks'[s]) \in 0..BLOCK_SIZE
  <2> TAKE s \in Slots
  <2>1. blocks'[s] \in {<<>>, blocks[s]}
    BY DEF AckHandled
  <2>2. blocks[s] \in Seq(Nat) /\ Len(blocks[s]) \in 0..BLOCK_SIZE
    BY DEF RingInv
  <2>3. CASE blocks'[s] = <<>>
    <3>1. <<>> \in Seq(Nat) /\ Len(<<>>) = 0 /\ 0 \in 0..BLOCK_SIZE
      OBVIOUS
    <3> QED
      BY <2>3, <3>1
  <2>4. CASE blocks'[s] = blocks[s]
    BY <2>2, <2>4
  <2> QED
    BY <2>1, <2>3, <2>4
<1>4. blocks' \in [Slots -> Seq(Nat)]
  BY <1>3 DEF AckHandled
<1>5. dof_req_latest' \in Nat /\ ReqInBlock'
  <2> DEFINE len == Len(blocks'[Slot(curr_block')])
  <2>1. len \in Nat
    <3>1. Slot(curr_block') \in Slots
      BY <1>1, SlotFacts
    <3> QED
      BY <1>3, <3>1
  <2>2. ~(a.blockno > curr_block) => dof_req_latest <= len
    <3> SUFFICES ASSUME ~(a.blockno > curr_block) PROVE dof_req_latest <= len
      OBVIOUS
    <3>1. curr_block \in Nat /\ Slot(curr_block) \in Slots
      BY SlotFacts DEF RingInv
    <3>2. curr_block' = curr_block
      BY DEF AckHandled, MAX
    <3>3. Freed(a) = {}
      <4>1. curr_block..(a.blockno - 1) = {}
        BY <3>1
      <4> QED
        BY <4>1 DEF Freed
    <3>4. blocks'[Slot(curr_block)] = blocks[Slot(curr_block)]
      BY <3>1, <3>3 DEF AckHandled
    <3> QED
      BY <3>2, <3>4 DEF RingInv, ReqInBlock
  <2>3. dof_req_latest' = DofReq(a.blockno > curr_block, len, a.dof_rec) /\ dof_req_latest \in Nat
    BY DEF AckHandled, RingInv
  <2> HIDE DEF len
  <2>4. dof_req_latest' \in Nat /\ dof_req_latest' <= len
    BY <2>1, <2>2, <2>3 DEF DofReq, MAX, MIN
  <2> QED
    BY <2>4 DEF ReqInBlock, len
<1>6. FullBlocks'
  <2> SUFFICES ASSUME NEW b \in curr_block'..(maxblockno' - 1)
               PROVE  Len(blocks'[Slot(b)]) = BLOCK_SIZE
    BY DEF FullBlocks
  <2>1. b \in Nat /\ b \in curr_block..(maxblockno - 1) /\ a.blockno <= b
    BY <1>1, <1>2 DEF AckHandled, RingInv, MAX
  <2>2. \A x \in curr_block..(a.blockno - 1) : x \in Nat /\ x < b /\ b < x + NUM_BLOCKS
    BY <2>1 DEF RingInv
  <2>3. Slot(b) \in Slots \ Freed(a)
    BY <2>1, <2>2, SlotFacts, SlotsDiffer DEF Freed
  <2>4. blocks'[Slot(b)] = blocks[Slot(b)]
    BY <2>3 DEF AckHandled
  <2> QED
    BY <2>1, <2>4 DEF RingInv, FullBlocks
<1>7. accepted' \in Nat /\ bytes_left' \in Nat
  BY DEF RingInv, AckHandled
<1>8. \A s \in Slots : Len(blocks'[s]) <= BLOCK_SIZE
  BY <1>3
<1> QED
  BY <1>1, <1>2, <1>4, <1>5, <1>6, <1>7, <1>8 DEF RingInv

LEMMA NeedAcked ==
  ASSUME RingInv, NeedInv, ClientInv, NEW a, AckTrue(a), curr_block <= a.blockno, AckHandled(a),
         UNCHANGED <<cli_curr, cblk>>
  PROVE  NeedInv'
<1>1. a.blockno \in Nat /\ a.dof_rec \in Nat /\ curr_block \in Nat /\ curr_block' = a.blockno
  BY BlockAssumption DEF AckTrue, Held, ClientInv, RingInv, AckHandled, MAX
<1> DEFINE len == Len(blocks'[Slot(curr_block')])
           dofs == DofsOf(a.blockno)
<1>2. DofsOf(curr_block)' = dofs /\ cli_curr' = cli_curr /\ cli_curr \in Nat
  BY <1>1 DEF DofsOf, ClientInv
<1>3. len \in Nat
  <2>1. RingInv'
    BY <1>1, RingAcked
  <2>2. Slot(curr_block') \in Slots
    BY <1>1, SlotFacts
  <2>3. blocks'[Slot(curr_block')] \in Seq(Nat)
    BY <2>1, <2>2 DEF RingInv
  <2> QED
    BY <2>3
<1>4. dofs \in Nat
  <2>1. cblk[Slot(a.blockno)].dofs \in 0..BLOCK_SIZE
    BY <1>1, SlotFacts, DofsBounded DEF ClientInv, IsRing
  <2> QED
    BY <2>1, BlockAssumption DEF DofsOf
<1>5. SUFFICES ASSUME cli_curr <= a.blockno PROVE dof_req_latest' >= len - dofs
  BY <1>1, <1>2 DEF NeedInv
<1>6. a.dof_rec <= dofs
  BY <1>1, <1>2, <1>5 DEF AckTrue
<1>7. dof_req_latest' = DofReq(a.blockno > curr_block, len, a.dof_rec) /\ dof_req_latest \in Nat
  BY DEF AckHandled, RingInv
<1>8. CASE a.blockno > curr_block
  <2> HIDE DEF len, dofs
  <2> QED
    BY <1>1, <1>3, <1>4, <1>6, <1>7, <1>8 DEF DofReq, MAX
<1>9. CASE a.blockno = curr_block
  <2>1. Freed(a) = {}
    BY <1>1, <1>9 DEF Freed
  <2>2. len = Len(blocks[Slot(curr_block)])
    BY <1>1, <1>9, <2>1, SlotFacts DEF AckHandled
  <2>3. dof_req_latest >= len - dofs
    BY <1>5, <1>9, <2>2 DEF NeedInv
  <2> HIDE DEF len, dofs
  <2> QED
    BY <1>1, <1>3, <1>4, <1>6, <1>7, <1>9, <2>3 DEF DofReq, MIN
<1> QED
  BY <1>1, <1>8, <1>9

(* The steps by what they do to the ring.                                  *)
Still == UNCHANGED <<blocks, accepted, dof_req_latest, curr_block, maxblockno>> /\ bytes_left' \in Nat

Filling == \E read \in Nat :
  LET s == Slot(maxblockno) IN
  /\ read > 0 /\ read <= BLOCK_SIZE - Len(blocks[s]) /\ read <= bytes_left
  /\ Read(s, read)

OnToNext ==
  /\ Len(blocks[Slot(maxblockno)]) = BLOCK_SIZE
  /\ maxblockno < curr_block + NUM_BLOCKS /\ maxblockno' = maxblockno + 1
  /\ UNCHANGED <<blocks, accepted, dof_req_latest, bytes_left>>

LEMMA FillKinds ==
  ASSUME RingInv, Fill
  PROVE  /\ UNCHANGED <<curr_block, acks, cli_curr, cblk>>
         /\ Still \/ Filling \/ OnToNext
<1> DEFINE s == Slot(maxblockno)
           read == MIN(BLOCK_SIZE - Len(blocks[s]), bytes_left)
<1>1. s \in Slots /\ Len(blocks[s]) \in 0..BLOCK_SIZE /\ bytes_left \in Nat /\ BLOCK_SIZE \in Nat
  <2>1. maxblockno \in Nat
    BY DEF RingInv
  <2>2. s \in Slots
    BY <2>1, SlotFacts
  <2>3. blocks[s] \in Seq(Nat) /\ Len(blocks[s]) <= BLOCK_SIZE
    BY <2>2 DEF RingInv
  <2> QED
    BY <2>2, <2>3, BlockAssumption DEF RingInv
<1>2. /\ read \in Nat /\ read <= BLOCK_SIZE - Len(blocks[s]) /\ read <= bytes_left
      /\ (bytes_left > 0 /\ read = 0) => Len(blocks[s]) = BLOCK_SIZE
  <2> DEFINE len == Len(blocks[s])
  <2>1. len \in 0..BLOCK_SIZE /\ read = MIN(BLOCK_SIZE - len, bytes_left)
    BY <1>1
  <2> HIDE DEF len, read
  <2>2. /\ read \in Nat /\ read <= BLOCK_SIZE - len /\ read <= bytes_left
        /\ (bytes_left > 0 /\ read = 0) => len = BLOCK_SIZE
    BY <1>1, <2>1 DEF MIN
  <2> QED
    BY <2>2 DEF len
<1>3. UNCHANGED <<curr_block, acks, cli_curr, cblk>> /\ bytes_left > 0
  BY DEF Fill, net, client
<1>4. \/ read > 0 /\ Read(s, read)
      \/ read = 0 /\ maxblockno < curr_block + NUM_BLOCKS /\ maxblockno' = maxblockno + 1
         /\ UNCHANGED <<blocks, accepted, dof_req_latest, bytes_left>>
      \/ UNCHANGED <<blocks, accepted, dof_req_latest, bytes_left, maxblockno>>
  BY DEF Fill, Read
<1> HIDE DEF read
<1> QED
  BY <1>1, <1>2, <1>3, <1>4 DEF Still, Filling, OnToNext

LEMMA AckHandling ==
  ASSUME NEW i \in DOMAIN acks, ReceiveAck(i), NEW a, a = acks[i]
  PROVE  AckHandled(a) /\ acks' = RemoveAt(acks, i) /\ UNCHANGED <<cli_curr, cblk>>
  BY DEF ReceiveAck, handle_ack, AckHandled, Freed, client

LEMMA RingKinds ==
  ASSUME RingInv, [Next]_vars
  PROVE  \/ \E i \in DOMAIN acks : ReceiveAck(i)
         \/ Fill
         \/ Still
<1>0. bytes_left \in Nat
  BY DEF RingInv
<1> USE DEF Still, shared, appvars
<1>1. CASE Application
  <2>1. ASSUME NEW n \in 1..MaxCall, send_ctcp(n) PROVE Still
    BY <2>1, BoundAssumption DEF send_ctcp
  <2>2. CASE SendReturn
    BY <2>2 DEF SendReturn
  <2> QED
    BY <1>1, <2>1, <2>2 DEF Application
<1>2. CASE Coding
  BY <1>0, <1>2 DEF Coding, TakeJob, coding_job
<1>3. CASE timeout
  BY <1>0, <1>3 DEF timeout
<1>4. CASE SendSegs
  BY <1>0, <1>4 DEF SendSegs, SegsEnter, SegsNeed, SegsJob, SegsReturn, send_one, NextBlock, SegsBegin
<1>5. CASE \E i \in DOMAIN data : ReceiveData(i)
  BY <1>0, <1>5 DEF ReceiveData
<1>6. CASE DeliverBlock
  BY <1>0, <1>6 DEF DeliverBlock
<1>7. CASE Network
  BY <1>0, <1>7 DEF Network, LosePacket, RepeatPacket, LoseAck
<1>8. CASE UNCHANGED vars
  BY <1>0, <1>8 DEF vars
<1> QED
  BY <1>1, <1>2, <1>3, <1>4, <1>5, <1>6, <1>7, <1>8 DEF Next

LEMMA RingStep ==
  ASSUME RingInv, AcksInv, ClientInv, [Next]_vars
  PROVE  RingInv'
<1>1. ASSUME NEW i \in DOMAIN acks, ReceiveAck(i) PROVE RingInv'
  <2>1. PICK a : a = acks[i]
    OBVIOUS
  <2>2. a.blockno \in Nat /\ a.dof_rec \in Nat
    BY <2>1, BlockAssumption DEF AcksInv, AckTrue, Held, ClientInv
  <2> QED
    BY <1>1, <2>1, <2>2, AckHandling, RingAcked
<1>2. CASE Fill
  <2>1. CASE Filling
    BY <1>2, <2>1, FillKinds, LastBlockRead DEF Filling
  <2>2. CASE OnToNext
    <3>1. curr_block' = curr_block
      BY <1>2, FillKinds
    <3>2. maxblockno' \in curr_block..(curr_block + NUM_BLOCKS)
      BY <2>2, BlockAssumption DEF OnToNext, RingInv
    <3>3. FullBlocks'
      BY <2>2, <3>1 DEF OnToNext, RingInv, FullBlocks
    <3> QED
      BY <2>2, <3>1, <3>2, <3>3 DEF OnToNext, RingInv, ReqInBlock
  <2>3. CASE Still
    BY <2>3 DEF Still, RingInv, FullBlocks, ReqInBlock
  <2> QED
    BY <1>2, <2>1, <2>2, <2>3, FillKinds
<1>3. CASE Still
  BY <1>3 DEF Still, RingInv, FullBlocks, ReqInBlock
<1> QED
  BY <1>1, <1>2, <1>3, RingKinds
-----------------------------------------------------------------------------
(* The network keeps the acks in order: none is handled before an earlier  *)
(* one.                                                                    *)
LEMMA OrderStep ==
  ASSUME ~AckReorder, OrderInv, HeldInv, RingInv, [Next]_vars
  PROVE  OrderInv'
<1> USE DEF HeldInv
<1>0. \A j \in DOMAIN acks : acks[j].blockno \in Nat /\ Held(acks[j].blockno)
  BY BlockAssumption DEF AcksInv, AckTrue, Held, ClientInv
<1>1. ASSUME NEW i \in DOMAIN data, ReceiveData(i) PROVE OrderInv'
  <2>1. PICK blk : Acked(data[i].seqno, blk)
    BY <1>1, PacketReceived
  <2>2. PICK a : a = AckFor(data[i].seqno, blk)
    OBVIOUS
  <2>3. acks' = Append(acks, a) /\ curr_block' = curr_block
    BY <1>1, <2>1, <2>2 DEF Acked, ReceiveData, shared
  <2>4. \A n \in Nat : Held(n) => n <= a.blockno
    BY <2>1, <2>2, NewAckTrue
  <2>5. curr_block <= a.blockno /\ \A j \in DOMAIN acks : acks[j].blockno <= a.blockno
    BY <1>0, <2>4 DEF RingInv
  <2> QED
    BY <2>3, <2>5, AckAppended DEF OrderInv
<1>2. ASSUME NEW i \in DOMAIN acks, ReceiveAck(i) PROVE OrderInv'
  <2>1. i = 1 /\ acks' = RemoveAt(acks, 1) /\ 1 \in DOMAIN acks
    BY <1>2 DEF ReceiveAck
  <2>2. curr_block' = acks[1].blockno
    BY <1>0, <1>2, <2>1 DEF ReceiveAck, handle_ack, MAX, OrderInv, RingInv
  <2>3. \A j \in DOMAIN acks' : j + 1 \in DOMAIN acks /\ 1 < j + 1 /\ acks'[j] = acks[j + 1]
    BY <2>1, AckRemoved
  <2>4. \A j, k \in DOMAIN acks' : j < k => j + 1 < k + 1
    BY <2>1, AckRemoved
  <2> QED
    BY <2>1, <2>2, <2>3, <2>4 DEF OrderInv
<1>3. ASSUME NEW i \in DOMAIN acks, LoseAck(i) PROVE OrderInv'
  <2>1. acks' = RemoveAt(acks, i) /\ curr_block' = curr_block
    BY <1>3 DEF LoseAck, shared
  <2> DEFINE at(j) == IF j < i THEN j ELSE j + 1
  <2>2. \A j \in DOMAIN acks' : at(j) \in DOMAIN acks /\ acks'[j] = acks[at(j)]
    BY <2>1, AckRemoved
  <2>3. \A j, k \in DOMAIN acks' : j < k => at(j) < at(k)
    BY <2>1, AckRemoved
  <2> HIDE DEF at
  <2> QED
    BY <2>1, <2>2, <2>3 DEF OrderInv
<1>4. CASE DeliverBlock \/ Quiet
  BY <1>4 DEF DeliverBlock, Quiet, OrderInv, shared, net
<1> QED
  BY <1>1, <1>2, <1>3, <1>4, StepKinds

LEMMA NeedNumbers ==
  ASSUME RingInv, ClientInv
  PROVE  /\ Slot(curr_block) \in Slots /\ Len(blocks[Slot(curr_block)]) \in Nat
         /\ DofsOf(curr_block) \in Nat
<1>1. curr_block \in Nat /\ Slot(curr_block) \in Slots
  BY SlotFacts DEF RingInv
<1>2. cblk[Slot(curr_block)].dofs \in 0..BLOCK_SIZE
  BY <1>1, DofsBounded DEF ClientInv, IsRing
<1>3. blocks[Slot(curr_block)] \in Seq(Nat)
  BY <1>1 DEF RingInv
<1> QED
  BY <1>1, <1>2, <1>3, BlockAssumption DEF DofsOf

(* The client's progress only lowers what it lacks.                        *)
LEMMA NeedProgress ==
  ASSUME NeedInv, RingInv, ClientInv, Held(curr_block), Progress, Still
  PROVE  NeedInv'
<1> SUFFICES ASSUME cli_curr' <= curr_block'
             PROVE  dof_req_latest' >= Len(blocks'[Slot(curr_block')]) - DofsOf(curr_block)'
  BY DEF NeedInv
<1>1. UNCHANGED <<blocks, dof_req_latest, curr_block>> /\ curr_block \in Nat
  BY DEF Still, RingInv
<1>2. curr_block <= cli_curr + NUM_BLOCKS /\ cli_curr <= curr_block
  BY <1>1, BlockAssumption DEF Held, Progress, ClientInv
<1>3. DofsOf(curr_block) <= DofsOf(curr_block)'
  BY <1>1, <1>2 DEF Progress, DofsOf
<1>4. dof_req_latest >= Len(blocks[Slot(curr_block)]) - DofsOf(curr_block)
  BY <1>2 DEF NeedInv
<1>5. /\ dof_req_latest \in Nat /\ Len(blocks[Slot(curr_block)]) \in Nat
      /\ DofsOf(curr_block) \in Nat /\ DofsOf(curr_block)' \in Nat
  <2>1. Slot(curr_block) \in Slots /\ ClientInv'
    BY <1>1, SlotFacts DEF Progress
  <2>2. cblk[Slot(curr_block)].dofs \in Nat /\ cblk'[Slot(curr_block)].dofs \in Nat
    BY <2>1, DofsBounded DEF ClientInv, IsRing
  <2> QED
    BY <1>1, <2>1, <2>2 DEF RingInv, DofsOf
<1> QED
  BY <1>1, <1>3, <1>4, <1>5

LEMMA NeedStep ==
  ASSUME NeedInv, OrderInv, HeldInv, RingInv, [Next]_vars
  PROVE  NeedInv'
<1> USE DEF HeldInv
<1>1. ASSUME NEW i \in DOMAIN acks, ReceiveAck(i) PROVE NeedInv'
  <2>1. PICK a : a = acks[i]
    OBVIOUS
  <2>2. AckTrue(a) /\ curr_block <= a.blockno
    BY <2>1 DEF AcksInv, OrderInv
  <2> QED
    BY <1>1, <2>1, <2>2, AckHandling, NeedAcked
<1>2. CASE Fill
  <2>1. UNCHANGED <<curr_block, cli_curr, cblk>> /\ (Still \/ Filling \/ OnToNext)
    BY <1>2, FillKinds
  <2>2. UNCHANGED <<curr_block, cli_curr>> /\ DofsOf(curr_block)' = DofsOf(curr_block)
    BY <2>1 DEF DofsOf
  <2>3. CASE Filling
    <3>1. PICK read \in Nat : LET s == Slot(maxblockno) IN
            /\ read > 0 /\ read <= BLOCK_SIZE - Len(blocks[s]) /\ read <= bytes_left
            /\ Read(s, read)
      BY <2>3 DEF Filling
    <3> DEFINE s == Slot(maxblockno)
    <3>2. /\ s \in Slots /\ \A t \in Slots \ {s} : blocks'[t] = blocks[t]
          /\ Len(blocks'[s]) = Len(blocks[s]) + read
          /\ Slot(curr_block) = s => curr_block = maxblockno
      BY <2>2, <3>1, LastBlockRead
    <3>3. CASE Slot(curr_block) = s
      <4>1. dof_req_latest' = dof_req_latest + read
        BY <3>1, <3>2, <3>3 DEF Read
      <4> QED
        BY <2>2, <3>2, <3>3, <4>1, NeedNumbers DEF NeedInv, RingInv
    <3>4. CASE Slot(curr_block) # s
      <4>1. blocks'[Slot(curr_block)] = blocks[Slot(curr_block)]
        BY <3>2, <3>4, SlotFacts DEF RingInv
      <4>2. dof_req_latest' = dof_req_latest
        BY <3>1, <3>4 DEF Read
      <4> QED
        BY <2>2, <4>1, <4>2 DEF NeedInv
    <3> QED
      BY <3>3, <3>4
  <2>4. CASE Still \/ OnToNext
    BY <2>2, <2>4 DEF Still, OnToNext, NeedInv
  <2> QED
    BY <2>1, <2>3, <2>4
<1>3. CASE Still
  <2>1. ASSUME NEW i \in DOMAIN data, ReceiveData(i) PROVE NeedInv'
    BY <1>3, <2>1, PacketReceived, AckedProgress, NeedProgress
  <2>2. CASE DeliverBlock
    BY <1>3, <2>2, BlockDelivered, NeedProgress
  <2>3. ASSUME NEW i \in DOMAIN acks, LoseAck(i) PROVE NeedInv'
    BY <1>3, <2>3 DEF LoseAck, client, Still, NeedInv, DofsOf
  <2>4. CASE Quiet
    BY <1>3, <2>4 DEF Quiet, Still, NeedInv, DofsOf
  <2> QED
    BY <1>1, <2>1, <2>2, <2>3, <2>4, StepKinds
<1> QED
  BY <1>1, <1>2, <1>3, RingKinds

LEMMA RingInit ==
  ASSUME Init
  PROVE  RingInv /\ OrderInv /\ NeedInv
<1> USE BlockAssumption
<1>1. <<>> \in Seq(Nat) /\ Len(<<>>) = 0 /\ DOMAIN acks = {}
  BY DEF Init
<1>2. \A s \in Slots : blocks[s] = <<>>
  BY DEF Init
<1>3. RingInv
  <2>1. ReqInBlock
    BY <1>1, <1>2, SlotFacts DEF Init, ReqInBlock
  <2> QED
    BY <1>1, <1>2, <2>1 DEF Init, RingInv, FullBlocks
<1>4. OrderInv
  BY <1>1 DEF OrderInv
<1>5. NeedInv
  <2>1. Slot(curr_block) \in Slots /\ DofsOf(curr_block) \in Nat
    BY <1>3, HeldInit, NeedNumbers DEF HeldInv
  <2>2. Len(blocks[Slot(curr_block)]) = 0 /\ dof_req_latest = 0
    BY <1>1, <1>2, <2>1 DEF Init
  <2> QED
    BY <2>1, <2>2 DEF NeedInv
<1> QED
  BY <1>3, <1>4, <1>5

(* The ring of the server, whatever the network does: send_ctcp never runs *)
(* more than NUM_BLOCKS ahead of the current block, leaves no block behind *)
(* it half full and overfills none; nor does handle_ack, freeing blocks;   *)
(* and dof_req_latest, whose difference with an ack's dofs is unsigned, is *)
(* never more than the current block holds.                                *)
THEOREM RingKept == Spec => []RingInv
<1>1. Init => HeldInv /\ RingInv
  BY HeldInit, RingInit
<1>2. HeldInv /\ RingInv /\ [Next]_vars => HeldInv' /\ RingInv'
  BY HeldStep, RingStep DEF HeldInv
<1> QED
  BY <1>1, <1>2, PTL DEF Spec

(* While the acks, lost or not, stay in order, and data packets come in    *)
(* any order: dof_req_latest, by which send_segs decides what to send and  *)
(* when to wait, is never less than what the client lacks of the current   *)
(* block.  (An ack that comes late makes it too small: TransferLateAck.)   *)
THEOREM NeedCovered ==
  ASSUME ~AckReorder
  PROVE  Spec => []NeedNeverUnderestimated
<1> DEFINE Inv == HeldInv /\ RingInv /\ OrderInv /\ NeedInv
<1>1. Init => Inv
  BY HeldInit, RingInit
<1>2. Inv /\ [Next]_vars => Inv'
  BY HeldStep, RingStep, OrderStep, NeedStep DEF HeldInv
<1>3. Inv => NeedNeverUnderestimated
  <2> SUFFICES ASSUME Inv PROVE dof_req_latest >= Lacking
    BY DEF NeedNeverUnderestimated
  <2> USE DEF HeldInv
  <2>1. curr_block \in Nat /\ cli_curr \in Nat /\ dof_req_latest \in Nat
    BY DEF RingInv, ClientInv
  <2>2. CASE curr_block < cli_curr
    BY <2>1, <2>2 DEF Lacking
  <2>3. CASE cli_curr <= curr_block
    <3> DEFINE len  == Len(blocks[Slot(curr_block)])
               dofs == cblk[Slot(curr_block)].dofs
    <3>1. len \in Nat /\ dofs \in Nat /\ DofsOf(curr_block) \in Nat /\ DofsOf(curr_block) <= dofs
      <4>1. Slot(curr_block) \in Slots /\ len \in Nat /\ DofsOf(curr_block) \in Nat
        BY NeedNumbers
      <4>2. dofs \in 0..BLOCK_SIZE
        BY <4>1, DofsBounded DEF ClientInv, IsRing
      <4> QED
        BY <4>1, <4>2, BlockAssumption DEF DofsOf
    <3>2. dof_req_latest >= len - DofsOf(curr_block)
      BY <2>3 DEF NeedInv
    <3>3. Lacking = len - dofs
      BY <2>1, <2>3 DEF Lacking
    <3> HIDE DEF len, dofs
    <3> QED
      BY <2>1, <3>1, <3>2, <3>3
  <2> QED
    BY <2>1, <2>2, <2>3
<1> QED
  BY <1>1, <1>2, <1>3, PTL DEF Spec
=============================================================================
