--------------------------- MODULE DecoderProofs ---------------------------
(***************************************************************************)
(* Proofs about the decoder of one block (bldack, unwrap, partial_write),  *)
(* for blocks of any size, any coefficients and any losses, while packets  *)
(* do not overtake each other.                                             *)
(***************************************************************************)
EXTENDS Decoder, FiniteSetTheorems, SequenceTheorems, WellFoundedInduction, TLAPS

LEMMA Least ==
  ASSUME NEW T \in SUBSET Nat, T # {}
  PROVE  \E x \in T : \A y \in T : x <= y
<1> DEFINE R == OpToRel(<, Nat)
<1>1. \E x \in T : \A y \in T : ~(<<y, x>> \in R)
  BY NatLessThanWellFounded, WFMin
<1>2. \A x \in Nat, y \in Nat : <<y, x>> \in R <=> y < x
  BY DEF OpToRel
<1> HIDE DEF R
<1>3. \E x \in T : \A y \in T : ~(y < x)
  BY <1>1, <1>2, Zenon
<1> QED
  BY <1>3
-----------------------------------------------------------------------------
(* The sum of the source rows that coefficients from row s on name.        *)
Sum(s, coeff) == {s + i : i \in coeff}

Packet == [coeff : SUBSET Nat, start : Nat, num_packets : Nat, payload : SUBSET Nat]

(* What is left of a row, and by how much it is shifted.                   *)
LEMMA ShiftFacts ==
  ASSUME NEW c \in SUBSET Nat, NEW n \in Nat \ {0}
  PROVE  /\ Shift(c, n) \in Nat
         /\ shift_row(c, n) \subseteq 0..(n - 1)
         /\ \A k \in Nat : k \in shift_row(c, n) <=> k + Shift(c, n) \in c /\ k + Shift(c, n) < n
         /\ isEmpty(c, n) => shift_row(c, n) = {}
         /\ ~isEmpty(c, n) => 0 \in shift_row(c, n) /\ \A j \in c : Shift(c, n) <= j
<1> DEFINE d == Shift(c, n)
<1>1. CASE isEmpty(c, n)
  <2>1. d = n /\ \A j \in c : ~(j < n)
    BY <1>1 DEF Shift, isEmpty
  <2>2. shift_row(c, n) = {}
    BY <2>1 DEF shift_row
  <2> QED
    BY <1>1, <2>1, <2>2
<1>2. CASE ~isEmpty(c, n)
  <2>1. PICK x \in c : x < n
    BY <1>2 DEF isEmpty
  <2>2. d \in c /\ \A j \in c : d <= j
    <3>1. d = CHOOSE i \in c : \A j \in c : i <= j
      BY <1>2 DEF Shift
    <3>2. \E i \in c : \A j \in c : i <= j
      BY <2>1, Least
    <3> HIDE DEF d
    <3> QED
      BY <3>1, <3>2
  <2> HIDE DEF d
  <2>3. d \in Nat /\ d < n
    BY <2>1, <2>2
  <2>4. shift_row(c, n) = {i - d : i \in {j \in c : d <= j /\ j < n}}
    BY DEF shift_row, d
  <2>5. \A k \in Nat : k \in shift_row(c, n) <=> k + d \in c /\ k + d < n
    <3> TAKE k \in Nat
    <3>1. k \in shift_row(c, n) => k + d \in c /\ k + d < n
      BY <2>3, <2>4
    <3>2. ASSUME k + d \in c, k + d < n PROVE k \in shift_row(c, n)
      <4>1. (k + d) - d = k /\ d <= k + d
        BY <2>3
      <4> QED
        BY <2>4, <3>2, <4>1
    <3> QED
      BY <3>1, <3>2
  <2>6. shift_row(c, n) \subseteq 0..(n - 1)
    BY <2>3, <2>4
  <2>7. 0 \in shift_row(c, n)
    BY <2>2, <2>3, <2>5
  <2> QED
    BY <1>2, <2>2, <2>3, <2>5, <2>6, <2>7 DEF d
<1> QED
  BY <1>1, <1>2

(* The packet in bldack: its coefficients begin with a 1, name only rows   *)
(* known of, and its payload is their sum.  It is a source packet or made  *)
(* when the block was as long as any packet before it knew.                *)
MsgOK(m, top) ==
  /\ m \in Packet /\ m.num_packets # 0 /\ m.coeff \subseteq 0..(m.num_packets - 1)
  /\ m.coeff # {} => /\ 0 \in m.coeff /\ m.payload = Sum(m.start, m.coeff)
                     /\ \A i \in m.coeff : m.start + i < top
  /\ m.num_packets = 1 \/ top <= m.num_packets

LEMMA ShiftedRecord ==
  ASSUME NEW p \in Packet, NEW a \in SUBSET Nat, NEW b \in Nat
  PROVE  [p EXCEPT !.coeff = a, !.start = @ + b]
           = [coeff |-> a, start |-> p.start + b, num_packets |-> p.num_packets, payload |-> p.payload]
<1> DEFINE q == [p EXCEPT !.coeff = a, !.start = @ + b]
<1>1. p = [coeff |-> p.coeff, start |-> p.start, num_packets |-> p.num_packets, payload |-> p.payload]
  BY DEF Packet
<1>2. DOMAIN p = {"coeff", "start", "num_packets", "payload"}
  BY DEF Packet
<1>3. /\ DOMAIN q = DOMAIN p /\ q = [f \in DOMAIN p |-> q[f]]
      /\ q["coeff"] = a /\ q["start"] = p.start + b
      /\ q["num_packets"] = p.num_packets /\ q["payload"] = p.payload
  BY <1>2
<1> HIDE DEF q
<1>4. q = [coeff |-> a, start |-> p.start + b, num_packets |-> p.num_packets, payload |-> p.payload]
  BY <1>2, <1>3
<1> QED
  BY <1>4 DEF q

LEMMA ShiftedOK ==
  ASSUME NEW p \in Packet, p.num_packets # 0, NEW top \in Nat,
         p.num_packets = 1 \/ top <= p.num_packets,
         \/ isEmpty(p.coeff, p.num_packets)
         \/ /\ p.payload = Sum(p.start, p.coeff) /\ p.coeff \subseteq 0..(p.num_packets - 1)
            /\ \A i \in p.coeff : p.start + i < top
  PROVE  MsgOK(Shifted(p), top)
<1> DEFINE c == p.coeff
           n == p.num_packets
           d == Shift(c, n)
           new == shift_row(c, n)
           m == Shifted(p)
<1>1. c \in SUBSET Nat /\ n \in Nat \ {0} /\ p.start \in Nat /\ p.payload \in SUBSET Nat
  BY DEF Packet
<1>2. /\ d \in Nat /\ new \subseteq 0..(n - 1)
      /\ \A k \in Nat : k \in new <=> k + d \in c /\ k + d < n
      /\ isEmpty(c, n) => new = {}
      /\ ~isEmpty(c, n) => 0 \in new /\ \A j \in c : d <= j
  BY <1>1, ShiftFacts
<1>a. new \in SUBSET Nat
  BY <1>1, <1>2
<1>b. m = [coeff |-> new, start |-> p.start + d, num_packets |-> n, payload |-> p.payload]
  BY <1>2, <1>a, ShiftedRecord DEF Shifted
<1> HIDE DEF c, n, d, new, m
<1>3. /\ m.coeff = new /\ m.start = p.start + d /\ m.num_packets = n /\ m.payload = p.payload
      /\ m = [coeff |-> new, start |-> p.start + d, num_packets |-> n, payload |-> p.payload]
  BY <1>b
<1>4. m \in Packet
  BY <1>1, <1>2, <1>3 DEF Packet
<1>5. ASSUME new # {} PROVE 0 \in new /\ m.payload = Sum(m.start, new) /\ \A i \in new : m.start + i < top
  <2>1. /\ ~isEmpty(c, n) /\ p.payload = Sum(p.start, c) /\ c \subseteq 0..(n - 1)
        /\ \A i \in c : p.start + i < top
    BY <1>2, <1>5 DEF c, n
  <2>2. \A i \in new : i \in Nat /\ i + d \in c /\ (p.start + d) + i = p.start + (i + d)
    BY <1>1, <1>2
  <2>3. \A j \in c : j - d \in new /\ (p.start + d) + (j - d) = p.start + j
    <3> TAKE j \in c
    <3>1. j \in Nat /\ d <= j /\ j < n
      BY <1>1, <1>2, <2>1
    <3>2. j - d \in Nat /\ (j - d) + d = j
      BY <1>2, <3>1
    <3> QED
      BY <1>1, <1>2, <3>1, <3>2
  <2>4. Sum(p.start, c) = Sum(p.start + d, new)
    BY <2>2, <2>3 DEF Sum
  <2> QED
    BY <1>2, <1>3, <2>1, <2>2, <2>4
<1>6. n = 1 \/ top <= n
  BY DEF n
<1> QED
  BY <1>1, <1>2, <1>3, <1>4, <1>5, <1>6 DEF MsgOK, m
-----------------------------------------------------------------------------
(* The inductive invariant.  The last rows known of when a packet is made. *)
Covers(p) == p.start + p.num_packets

TypeInv ==
  /\ len \in 0..BLOCK_SIZE /\ max_packet_index \in 0..len /\ dofs \in Nat /\ dofs_pushed \in Nat
  /\ net \in Seq(Packet)
  /\ rows \in [Rows -> SUBSET Nat] /\ row_len \in [Rows -> Nat] /\ content \in [Rows -> SUBSET Nat]
  /\ delivered \in Seq(SUBSET Nat)

(* A packet in the network is a true equation over rows the server has;    *)
(* and it is a source packet or covers all that was sent before it.        *)
PacketOK(p) ==
  /\ p.num_packets # 0 /\ p.coeff \subseteq 0..(p.num_packets - 1)
  /\ p.payload = Sum(p.start, p.coeff) /\ Covers(p) <= len

NetInv ==
  \A i \in DOMAIN net :
    /\ PacketOK(net[i])
    /\ \/ net[i].num_packets = 1
       \/ /\ max_packet_index <= net[i].num_packets /\ net[i].start = 0
          /\ \A j \in DOMAIN net : j < i => Covers(net[j]) <= net[i].num_packets

MsgInv == step = "reduce" => MsgOK(msg, max_packet_index)

(* The coefficients of a row that still count.                             *)
Eff(r) == {j \in rows[r] : j < row_len[r]}

RowOK(r) ==
  /\ 0 \in rows[r] /\ row_len[r] >= 1 /\ content[r] = Sum(r, Eff(r))
  /\ \A i \in Eff(r) : r + i < max_packet_index

MatrixInv ==
  /\ filled \subseteq 0..(max_packet_index - 1) /\ dofs = Cardinality(filled)
  /\ \A r \in filled : RowOK(r)

PushInv ==
  /\ Len(delivered) = dofs_pushed /\ 0..(dofs_pushed - 1) \subseteq filled
  /\ \A k \in DOMAIN delivered : delivered[k] = {k - 1}
  /\ step = "idle" /\ dofs = max_packet_index => dofs_pushed = dofs

Inv == TypeInv /\ NetInv /\ MsgInv /\ MatrixInv /\ PushInv
-----------------------------------------------------------------------------
(* The right hand side of unwrap's recursion.                              *)
Back(c, r) ==
  IF r \notin dofs_pushed..(max_packet_index - 2) THEN content[r]
  ELSE LET terms == {o \in rows[r] : 1 <= o /\ o < row_len[r]} IN
       {x \in Rows : (Cardinality({o \in terms : x \in c[r + o]})
                       + (IF x \in content[r] THEN 1 ELSE 0)) % 2 = 1}

LEMMA UnwrappedIs == Unwrapped = CHOOSE c : c = [r \in Rows |-> Back(c, r)]
  BY DEF Unwrapped, Back

LEMMA RowsBound ==
  ASSUME TypeInv
  PROVE  /\ 0..(max_packet_index - 1) \subseteq Rows /\ Rows \subseteq Nat
         /\ max_packet_index \in Nat /\ max_packet_index <= BLOCK_SIZE /\ BLOCK_SIZE \in Nat
  BY SizeAssumption DEF TypeInv, Rows

(* Once the rows after r are decoded, the back substitution decodes r.     *)
LEMMA BackStep ==
  ASSUME TypeInv, NEW f, NEW r \in dofs_pushed..(max_packet_index - 2), RowOK(r),
         \A q \in (r + 1)..(max_packet_index - 1) : f[q] = {q}
  PROVE  Back(f, r) = {r}
<1> DEFINE terms == {o \in rows[r] : 1 <= o /\ o < row_len[r]}
           S(x) == {o \in terms : x \in f[r + o]}
           one(x) == IF x \in content[r] THEN 1 ELSE 0
<1>1. /\ r \in Nat /\ r \in Rows /\ rows[r] \in SUBSET Nat /\ row_len[r] \in Nat /\ max_packet_index \in Nat
      /\ r < max_packet_index - 1
  BY RowsBound DEF TypeInv
<1>2. Back(f, r) = {x \in Rows : (Cardinality(S(x)) + one(x)) % 2 = 1}
  BY DEF Back
<1>3. \A o \in terms : o \in Nat /\ f[r + o] = {r + o}
  <2> TAKE o \in terms
  <2>1. o \in Eff(r) /\ o \in Nat /\ 1 <= o
    BY <1>1 DEF Eff
  <2>2. r + o < max_packet_index
    BY <2>1 DEF RowOK
  <2>3. r + o \in (r + 1)..(max_packet_index - 1)
    BY <1>1, <2>1, <2>2
  <2> QED
    BY <2>1, <2>3
<1>4. \A x \in Nat : x \in content[r] <=> x = r \/ \E o \in terms : x = r + o
  <2>1. content[r] = {r + i : i \in Eff(r)}
    BY DEF RowOK, Sum
  <2>2. \A i : i \in Eff(r) <=> i = 0 \/ i \in terms
    <3>1. 0 \in Eff(r)
      BY <1>1 DEF RowOK, Eff
    <3>2. \A i \in Eff(r) : i \in Nat /\ i \in rows[r] /\ i < row_len[r]
      BY <1>1 DEF Eff
    <3>3. \A i \in terms : i \in Eff(r)
      BY DEF Eff
    <3>4. \A i \in Eff(r) : i = 0 \/ i \in terms
      BY <3>2
    <3> QED
      BY <3>1, <3>3, <3>4
  <2> HIDE DEF terms
  <2>3. r + 0 = r
    BY <1>1
  <2> QED
    BY <2>1, <2>2, <2>3
<1> HIDE DEF terms
<1>5. \A x \in Rows : S(x) = {o \in terms : x = r + o}
  BY <1>3
<1>6. \A x \in Rows : (Cardinality(S(x)) + one(x)) % 2 = 1 <=> x = r
  <2> TAKE x \in Rows
  <2>0. x \in Nat
    BY RowsBound
  <2>1. CASE x = r
    <3>1. S(x) = {}
      BY <1>1, <1>3, <1>5, <2>1 DEF terms
    <3>2. Cardinality(S(x)) = 0
      BY <3>1, FS_EmptySet
    <3>3. one(x) = 1
      BY <1>4, <2>0, <2>1
    <3> HIDE DEF S, one
    <3> QED
      BY <2>1, <3>2, <3>3
  <2>2. CASE x # r /\ \E o \in terms : x = r + o
    <3>1. PICK o \in terms : x = r + o
      BY <2>2
    <3>2. S(x) = {o}
      BY <1>1, <1>3, <1>5, <3>1
    <3>3. Cardinality(S(x)) = 1
      BY <3>2, FS_Singleton
    <3>4. one(x) = 1
      BY <1>4, <2>0, <3>1
    <3> HIDE DEF S, one
    <3> QED
      BY <2>2, <3>3, <3>4
  <2>3. CASE x # r /\ ~\E o \in terms : x = r + o
    <3>1. S(x) = {}
      BY <1>5, <2>3
    <3>2. Cardinality(S(x)) = 0
      BY <3>1, FS_EmptySet
    <3>3. one(x) = 0
      BY <1>4, <2>0, <2>3
    <3> HIDE DEF S, one
    <3> QED
      BY <2>3, <3>2, <3>3
  <2> QED
    BY <2>1, <2>2, <2>3
<1> HIDE DEF S, one
<1> QED
  BY <1>1, <1>2, <1>6

(* The last row has nothing to subtract.                                   *)
LEMMA LastRow ==
  ASSUME TypeInv, max_packet_index # 0, RowOK(max_packet_index - 1)
  PROVE  content[max_packet_index - 1] = {max_packet_index - 1}
<1> DEFINE r == max_packet_index - 1
<1>1. r \in Nat /\ r \in Rows /\ rows[r] \in SUBSET Nat /\ row_len[r] \in Nat /\ r + 1 = max_packet_index
  BY RowsBound DEF TypeInv
<1> HIDE DEF r
<1>2. RowOK(r)
  BY DEF r
<1>3. Eff(r) = {0}
  BY <1>1, <1>2 DEF RowOK, Eff
<1>4. content[r] = {r + 0}
  BY <1>2, <1>3 DEF RowOK, Sum
<1>5. content[r] = {r}
  BY <1>1, <1>4
<1> QED
  BY <1>5 DEF r

(* unwrap decodes every row it works on and leaves the others alone.       *)
LEMMA UnwrapFacts ==
  ASSUME TypeInv, \A r \in 0..(max_packet_index - 1) : RowOK(r)
  PROVE  Unwrapped = [r \in Rows |-> IF r \in dofs_pushed..(max_packet_index - 2) THEN {r} ELSE content[r]]
<1> DEFINE Todo == dofs_pushed..(max_packet_index - 2)
           g == [r \in Rows |-> IF r \in Todo THEN {r} ELSE content[r]]
<1>1. max_packet_index \in Nat /\ dofs_pushed \in Nat /\ Todo \subseteq Rows
  BY RowsBound DEF TypeInv
<1>2. \A r \in Todo : /\ r \in Nat /\ RowOK(r)
                      /\ \A q \in (r + 1)..(max_packet_index - 1) : q \in Todo \/ q = max_packet_index - 1
  BY <1>1
<1>3. Todo # {} => content[max_packet_index - 1] = {max_packet_index - 1} /\ max_packet_index - 1 \in Rows
  BY <1>1, LastRow, RowsBound
<1>4. \A r \in Rows : Back(g, r) = g[r]
  <2> TAKE r \in Rows
  <2>1. CASE r \in Todo
    <3>1. \A q \in (r + 1)..(max_packet_index - 1) : g[q] = {q}
      BY <1>1, <1>2, <1>3, <2>1
    <3> HIDE DEF g
    <3>2. Back(g, r) = {r}
      BY <1>2, <2>1, <3>1, BackStep
    <3> QED
      BY <2>1, <3>2 DEF g
  <2>2. CASE r \notin Todo
    BY <2>2 DEF Back
  <2> QED
    BY <2>1, <2>2
<1>5. g = [r \in Rows |-> Back(g, r)]
  <2>1. g = [r \in Rows |-> g[r]]
    OBVIOUS
  <2> HIDE DEF g
  <2> QED
    BY <1>4, <2>1
<1>6. ASSUME NEW f, f = [r \in Rows |-> Back(f, r)]
      PROVE  f = g
  <2>1. \A r \in Rows : f[r] = Back(f, r)
    BY <1>6, Zenon
  <2>2. \A r \in Rows : r \notin Todo => f[r] = content[r]
    BY <2>1 DEF Back
  <2> DEFINE Bad == {k \in Nat : \E r \in Todo : r + k = max_packet_index /\ f[r] # {r}}
  <2>3. Bad = {}
    <3> SUFFICES ASSUME Bad # {} PROVE FALSE
      OBVIOUS
    <3>1. PICK k \in Bad : \A j \in Bad : k <= j
      <4>1. Bad \in SUBSET Nat
        OBVIOUS
      <4> HIDE DEF Bad
      <4> QED
        BY <4>1, Least
    <3>2. PICK r \in Todo : r + k = max_packet_index /\ f[r] # {r} /\ k \in Nat
      BY <3>1
    <3>3. \A q \in (r + 1)..(max_packet_index - 1) : f[q] = {q}
      <4> TAKE q \in (r + 1)..(max_packet_index - 1)
      <4>1. CASE q = max_packet_index - 1
        <5>1. q \notin Todo
          BY <1>1, <4>1
        <5> QED
          BY <1>3, <2>2, <3>2, <4>1, <5>1
      <4>2. CASE q \in Todo
        <5>1. max_packet_index - q \in Nat /\ max_packet_index - q < k /\ q + (max_packet_index - q) = max_packet_index
          BY <1>1, <1>2, <3>2
        <5>2. max_packet_index - q \notin Bad
          <6> HIDE DEF Bad
          <6>1. max_packet_index - q \in Bad => k <= max_packet_index - q
            BY <3>1
          <6> QED
            BY <3>2, <5>1, <6>1
        <5> QED
          BY <4>2, <5>1, <5>2
      <4> QED
        BY <1>2, <4>1, <4>2
    <3>4. Back(f, r) = {r}
      BY <1>2, <3>3, BackStep
    <3> QED
      BY <1>1, <2>1, <3>2, <3>4
  <2>4. \A r \in Todo : f[r] = {r}
    <3> TAKE r \in Todo
    <3>1. max_packet_index - r \in Nat /\ r + (max_packet_index - r) = max_packet_index
      BY <1>1, <1>2
    <3> QED
      BY <2>3, <3>1
  <2>5. \A r \in Rows : f[r] = IF r \in Todo THEN {r} ELSE content[r]
    BY <2>2, <2>4
  <2>6. f = [r \in Rows |-> f[r]]
    <3>1. [r \in Rows |-> f[r]] = [r \in Rows |-> Back(f, r)]
      BY <2>1
    <3> QED
      BY <1>6, <3>1
  <2> QED
    BY <2>5, <2>6
<1> HIDE DEF g
<1>7. Unwrapped = [r \in Rows |-> Back(Unwrapped, r)]
  <2>1. \E c : c = [r \in Rows |-> Back(c, r)]
    BY <1>5
  <2> DEFINE P(c) == c = [r \in Rows |-> Back(c, r)]
  <2>2. Unwrapped = CHOOSE c : P(c)
    BY UnwrappedIs
  <2>3. \E c : P(c)
    BY <2>1
  <2> HIDE DEF P
  <2>4. P(Unwrapped)
    BY <2>2, <2>3
  <2> QED
    BY <2>4 DEF P
<1> QED
  BY <1>6, <1>7 DEF g
-----------------------------------------------------------------------------
(* With as many equations as packets known of, every row is taken.         *)
LEMMA FilledAll ==
  ASSUME TypeInv, MatrixInv
  PROVE  /\ IsFiniteSet(filled) /\ dofs \in 0..max_packet_index
         /\ dofs = max_packet_index => filled = 0..(max_packet_index - 1)
         /\ dofs = BLOCK_SIZE => max_packet_index = BLOCK_SIZE
<1> DEFINE I == 0..(max_packet_index - 1)
<1>1. max_packet_index \in Nat /\ max_packet_index <= BLOCK_SIZE /\ BLOCK_SIZE \in Nat
  BY RowsBound
<1>2. IsFiniteSet(I) /\ Cardinality(I) = max_packet_index
  BY <1>1, FS_Interval
<1>3. filled \in SUBSET I
  BY DEF MatrixInv
<1> HIDE DEF I
<1>4. /\ IsFiniteSet(filled) /\ Cardinality(filled) <= max_packet_index
      /\ Cardinality(filled) = max_packet_index => filled = I
  BY <1>2, <1>3, FS_Subset
<1>5. Cardinality(filled) \in Nat
  BY <1>4, FS_CardinalityType
<1> QED
  BY <1>1, <1>4, <1>5 DEF MatrixInv, I

LEMMA PushedBound ==
  ASSUME TypeInv, MatrixInv, PushInv
  PROVE  dofs_pushed \in 0..max_packet_index
  BY RowsBound DEF TypeInv, MatrixInv, PushInv

(* The rows partial_write pushes are those up to the first not decoded.    *)
LEMMA ReadyFacts ==
  ASSUME TypeInv, dofs_pushed <= BLOCK_SIZE, NEW lens
  PROVE  \E m \in dofs_pushed..BLOCK_SIZE :
           /\ Cardinality(Ready(lens)) = m - dofs_pushed
           /\ \A q \in dofs_pushed..(m - 1) : Decoded(q, lens)
           /\ m < BLOCK_SIZE => ~Decoded(m, lens)
<1> DEFINE T == {q \in dofs_pushed..BLOCK_SIZE : q = BLOCK_SIZE \/ ~Decoded(q, lens)}
<1>1. dofs_pushed \in Nat /\ BLOCK_SIZE \in Nat
  BY SizeAssumption DEF TypeInv
<1>2. T \in SUBSET Nat /\ BLOCK_SIZE \in T
  BY <1>1
<1>3. PICK m \in T : \A y \in T : m <= y
  <2> HIDE DEF T
  <2> QED
    BY <1>2, Least
<1>4. m \in dofs_pushed..BLOCK_SIZE /\ (m < BLOCK_SIZE => ~Decoded(m, lens))
  BY <1>1, <1>3
<1>5. \A q \in dofs_pushed..(m - 1) : Decoded(q, lens)
  <2> TAKE q \in dofs_pushed..(m - 1)
  <2>1. q \in dofs_pushed..BLOCK_SIZE /\ q < m
    BY <1>1, <1>4
  <2>2. q \notin T
    <3> HIDE DEF T
    <3>1. q \in T => m <= q
      BY <1>3
    <3> QED
      BY <1>1, <1>4, <2>1, <3>1
  <2> QED
    BY <2>1, <2>2
<1> HIDE DEF T
<1>6. \A r \in dofs_pushed..(BLOCK_SIZE - 1) : (\A q \in dofs_pushed..r : Decoded(q, lens)) <=> r < m
  <2> TAKE r \in dofs_pushed..(BLOCK_SIZE - 1)
  <2>1. r < m => \A q \in dofs_pushed..r : Decoded(q, lens)
    BY <1>1, <1>4, <1>5
  <2>2. ~(r < m) => m \in dofs_pushed..r /\ m < BLOCK_SIZE
    BY <1>1, <1>4
  <2> QED
    BY <1>4, <2>1, <2>2
<1>7. Ready(lens) = dofs_pushed..(m - 1)
  BY <1>1, <1>4, <1>6 DEF Ready
<1>8. Cardinality(dofs_pushed..(m - 1)) = m - dofs_pushed
  <2>1. dofs_pushed \in Int /\ m - 1 \in Int
    BY <1>1, <1>4
  <2>2. Cardinality(dofs_pushed..(m - 1)) = IF dofs_pushed > m - 1 THEN 0 ELSE (m - 1) - dofs_pushed + 1
    BY <2>1, FS_Interval, Zenon
  <2> HIDE DEF T
  <2> QED
    BY <1>1, <1>4, <2>2
<1> QED
  BY <1>4, <1>5, <1>7, <1>8

LEMMA ConcatFacts ==
  ASSUME NEW S, NEW a \in Seq(S), NEW b \in Seq(S)
  PROVE  /\ a \o b \in Seq(S) /\ Len(a \o b) = Len(a) + Len(b)
         /\ \A k \in 1..(Len(a) + Len(b)) : (a \o b)[k] = IF k <= Len(a) THEN a[k] ELSE b[k - Len(a)]
  BY ConcatProperties

(* Pushing decoded rows hands the source on, row after row.                *)
InOrder(d) == d \in Seq(SUBSET Nat) /\ \A k \in DOMAIN d : d[k] = {k - 1}
DecodedIn(c, p, n) == \A q \in p..(p + n - 1) : c[q] = {q}
Pushed(c, p, n) == [k \in 1..n |-> c[p + k - 1]]

LEMMA PushFacts ==
  ASSUME NEW d, NEW n \in Nat, NEW c, NEW p \in Nat, Len(d) = p, InOrder(d), DecodedIn(c, p, n)
  PROVE  InOrder(d \o Pushed(c, p, n)) /\ Len(d \o Pushed(c, p, n)) = p + n
<1> DEFINE t == Pushed(c, p, n)
           e == d \o t
<1> USE DEF InOrder, DecodedIn
<1>1. \A k \in 1..n : p + k - 1 \in p..(p + n - 1) /\ p + k - 1 \in Nat
  OBVIOUS
<1>2. t = [k \in 1..n |-> t[k]] /\ \A k \in 1..n : t[k] = {p + k - 1} /\ t[k] \in SUBSET Nat
  BY <1>1 DEF Pushed
<1>3. t \in Seq(SUBSET Nat) /\ Len(t) = n
  <2>1. t \in [1..n -> SUBSET Nat]
    BY <1>2
  <2> HIDE DEF t
  <2> QED
    BY ONLY n \in Nat, <2>1, LenProperties
<1> HIDE DEF t
<1>4. /\ e \in Seq(SUBSET Nat) /\ Len(e) = Len(d) + Len(t)
      /\ \A k \in 1..(Len(d) + Len(t)) : e[k] = IF k <= Len(d) THEN d[k] ELSE t[k - Len(d)]
  <2>1. t \in Seq(SUBSET Nat) /\ d \in Seq(SUBSET Nat)
    BY <1>3
  <2>2. /\ d \o t \in Seq(SUBSET Nat) /\ Len(d \o t) = Len(d) + Len(t)
    BY ONLY <2>1, ConcatFacts
  <2>3. \A k \in 1..(Len(d) + Len(t)) : (d \o t)[k] = IF k <= Len(d) THEN d[k] ELSE t[k - Len(d)]
    BY ONLY <2>1, ConcatFacts
  <2> QED
    BY <2>2, <2>3
<1>5. \A k \in DOMAIN e : e[k] = {k - 1}
  <2> TAKE k \in DOMAIN e
  <2>1. k \in 1..(p + n)
    BY <1>3, <1>4
  <2>2. CASE k <= p
    <3>1. k \in DOMAIN d
      BY <2>1, <2>2
    <3> QED
      BY <1>3, <1>4, <2>1, <2>2, <3>1
  <2>3. CASE ~(k <= p)
    <3>1. k - p \in 1..n /\ p + (k - p) - 1 = k - 1
      BY <2>1, <2>3
    <3>2. e[k] = t[k - p]
      BY <1>3, <1>4, <2>1, <2>3
    <3> QED
      BY <1>2, <3>1, <3>2
  <2> QED
    BY <2>2, <2>3
<1> QED
  BY <1>3, <1>4, <1>5 DEF t
-----------------------------------------------------------------------------
(* RowOK for the payloads c and the lengths l that a write leaves.         *)
RowTrue(r, c, l) ==
  LET eff == {j \in rows[r] : j < l[r]} IN
  /\ 0 \in rows[r] /\ l[r] >= 1 /\ c[r] = Sum(r, eff)
  /\ \A i \in eff : r + i < max_packet_index

(* A row with one coefficient left is the source row.                      *)
LEMMA DecodedRow ==
  ASSUME TypeInv, NEW r \in Rows, NEW c, NEW l, l[r] \in Nat, RowTrue(r, c, l), Decoded(r, l)
  PROVE  c[r] = {r}
<1>1. r \in Nat /\ rows[r] \in SUBSET Nat
  BY RowsBound DEF TypeInv
<1>2. {j \in rows[r] : j < l[r]} = {0}
  BY <1>1 DEF RowTrue, Decoded
<1>3. c[r] = {r + 0}
  BY <1>2 DEF RowTrue, Sum
<1> QED
  BY <1>1, <1>3

(* A write that keeps the equations true and pushes decoded rows, all of   *)
(* them if the rows are complete.                                          *)
LEMMA Wrote ==
  ASSUME Inv, NEW n \in Nat,
         content' \in [Rows -> SUBSET Nat], row_len' \in [Rows -> Nat],
         \A r \in filled : RowTrue(r, content', row_len'),
         \A q \in dofs_pushed..(dofs_pushed + n - 1) : q \in filled /\ content'[q] = {q},
         delivered' = delivered \o [k \in 1..n |-> content'[dofs_pushed + k - 1]],
         dofs_pushed' = dofs_pushed + n, step' = "idle",
         dofs = max_packet_index => dofs_pushed + n = dofs,
         UNCHANGED <<server, net, filled, rows, dofs, max_packet_index, msg>>
  PROVE  Inv'
<1> USE DEF Inv, server
<1>1. delivered' \in Seq(SUBSET Nat) /\ Len(delivered') = dofs_pushed' /\ \A k \in DOMAIN delivered' : delivered'[k] = {k - 1}
  <2>1. DecodedIn(content', dofs_pushed, n)
    BY DEF DecodedIn
  <2>2. InOrder(delivered) /\ dofs_pushed \in Nat /\ Len(delivered) = dofs_pushed
    BY DEF TypeInv, PushInv, InOrder
  <2>3. delivered' = delivered \o Pushed(content', dofs_pushed, n) /\ dofs_pushed' = dofs_pushed + n
    BY DEF Pushed
  <2>4. /\ InOrder(delivered \o Pushed(content', dofs_pushed, n))
        /\ Len(delivered \o Pushed(content', dofs_pushed, n)) = dofs_pushed + n
    BY <2>1, <2>2, PushFacts
  <2> QED
    BY <2>3, <2>4 DEF InOrder
<1>2. TypeInv'
  BY <1>1 DEF TypeInv
<1>3. NetInv'
  BY DEF NetInv, PacketOK
<1>4. MsgInv'
  BY DEF MsgInv
<1>5. MatrixInv'
  <2>1. \A r \in filled' : RowOK(r)'
    BY DEF RowTrue, RowOK, Eff
  <2> QED
    BY <2>1 DEF MatrixInv
<1>6. PushInv'
  <2>1. dofs_pushed \in Nat /\ 0..(dofs_pushed - 1) \subseteq filled
    BY DEF TypeInv, PushInv
  <2>2. 0..(dofs_pushed' - 1) \subseteq filled'
    BY <2>1
  <2> QED
    BY <1>1, <2>2 DEF PushInv
<1> QED
  BY <1>2, <1>3, <1>4, <1>5, <1>6

(* unwrap on complete rows: every equation stays true, and every row not   *)
(* yet pushed is decoded.                                                  *)
LEMMA UnwrapRows ==
  ASSUME Inv, dofs = max_packet_index
  PROVE  /\ Unwrapped \in [Rows -> SUBSET Nat] /\ UnwrappedLen \in [Rows -> Nat]
         /\ \A r \in filled : RowTrue(r, Unwrapped, UnwrappedLen)
         /\ filled = 0..(max_packet_index - 1)
         /\ \A q \in dofs_pushed..(max_packet_index - 1) : Decoded(q, UnwrappedLen)
<1> DEFINE Todo == dofs_pushed..(max_packet_index - 2)
           c == Unwrapped
           l == UnwrappedLen
<1> USE DEF Inv
<1>1. filled = 0..(max_packet_index - 1) /\ filled \subseteq Rows
  BY FilledAll, RowsBound
<1>2. \A r \in filled : RowOK(r)
  BY DEF MatrixInv
<1>3. c = [r \in Rows |-> IF r \in Todo THEN {r} ELSE content[r]]
  BY <1>1, <1>2, UnwrapFacts
<1>4. l = [r \in Rows |-> IF r \in Todo THEN 1 ELSE row_len[r]]
  BY DEF UnwrappedLen
<1>5. /\ rows \in [Rows -> SUBSET Nat] /\ row_len \in [Rows -> Nat] /\ content \in [Rows -> SUBSET Nat]
      /\ max_packet_index \in Nat /\ dofs_pushed \in Nat /\ Rows \subseteq Nat
  BY RowsBound DEF TypeInv
<1> HIDE DEF c, l
<1>6. c \in [Rows -> SUBSET Nat] /\ l \in [Rows -> Nat]
  BY <1>3, <1>4, <1>5
<1>7. ASSUME NEW r \in filled PROVE RowTrue(r, c, l)
  <2>1. r \in Rows /\ r \in Nat /\ rows[r] \in SUBSET Nat
    BY <1>1, <1>5
  <2>2. CASE r \in Todo
    <3>1. l[r] = 1 /\ c[r] = {r} /\ 0 \in rows[r]
      BY <1>2, <1>3, <1>4, <2>1, <2>2 DEF RowOK
    <3>2. {j \in rows[r] : j < l[r]} = {0}
      BY <2>1, <3>1
    <3>3. r + 0 = r /\ r < max_packet_index
      BY <1>1, <1>5, <2>1
    <3>4. Sum(r, {0}) = {r}
      BY <3>3 DEF Sum
    <3> QED
      BY <3>1, <3>2, <3>3, <3>4 DEF RowTrue
  <2>3. CASE r \notin Todo
    <3>1. l[r] = row_len[r] /\ c[r] = content[r]
      BY <1>3, <1>4, <2>1, <2>3
    <3> QED
      BY <1>2, <3>1 DEF RowTrue, RowOK, Eff
  <2> QED
    BY <2>2, <2>3
<1>8. ASSUME NEW q \in dofs_pushed..(max_packet_index - 1) PROVE Decoded(q, l)
  <2>1. q \in filled /\ q \in Rows /\ q \in Nat /\ rows[q] \in SUBSET Nat /\ row_len[q] \in Nat
    BY <1>1, <1>5
  <2>2. CASE q \in Todo
    <3>1. l[q] = 1
      BY <1>4, <2>1, <2>2
    <3> QED
      BY <2>1, <3>1 DEF Decoded
  <2>3. CASE q \notin Todo
    <3>1. q = max_packet_index - 1 /\ l[q] = row_len[q]
      BY <1>4, <1>5, <2>1, <2>3
    <3>2. \A i \in Eff(q) : q + i < max_packet_index
      BY <1>2, <2>1 DEF RowOK
    <3>3. \A i \in rows[q] : 1 <= i => i >= l[q]
      BY <1>5, <2>1, <3>1, <3>2 DEF Eff
    <3> QED
      BY <2>1, <3>3 DEF Decoded
  <2> QED
    BY <2>2, <2>3
<1> QED
  BY <1>1, <1>6, <1>7, <1>8 DEF c, l
-----------------------------------------------------------------------------
LEMMA RemoveAtFacts ==
  ASSUME NEW S, NEW s \in Seq(S), NEW i \in DOMAIN s
  PROVE  /\ RemoveAt(s, i) \in Seq(S) /\ DOMAIN RemoveAt(s, i) = 1..(Len(s) - 1)
         /\ \A j \in 1..(Len(s) - 1) : RemoveAt(s, i)[j] = IF j < i THEN s[j] ELSE s[j + 1]
<1> DEFINE f == SubSeq(s, 1, i - 1)
           a == SubSeq(s, i + 1, Len(s))
<1>1. i \in 1..Len(s) /\ Len(s) \in Nat
  OBVIOUS
<1>2. f \in Seq(S) /\ Len(f) = i - 1 /\ \A j \in 1..(i - 1) : f[j] = s[j]
  BY <1>1, SubSeqProperties
<1>3. a \in Seq(S) /\ Len(a) = Len(s) - i /\ \A j \in 1..(Len(s) - i) : a[j] = s[i + j]
  BY <1>1, SubSeqProperties
<1> HIDE DEF f, a
<1>4. /\ f \o a \in Seq(S) /\ Len(f \o a) = Len(f) + Len(a)
      /\ \A j \in 1..(Len(f) + Len(a)) : (f \o a)[j] = IF j <= Len(f) THEN f[j] ELSE a[j - Len(f)]
  BY <1>2, <1>3, ConcatProperties
<1>5. Len(f) + Len(a) = Len(s) - 1
  BY <1>1, <1>2, <1>3
<1>6. \A j \in 1..(Len(s) - 1) : (f \o a)[j] = IF j < i THEN s[j] ELSE s[j + 1]
  <2> TAKE j \in 1..(Len(s) - 1)
  <2>1. CASE j < i
    BY <1>1, <1>2, <1>4, <1>5, <2>1
  <2>2. CASE ~(j < i)
    <3>1. j - (i - 1) \in 1..(Len(s) - i) /\ i + (j - (i - 1)) = j + 1
      BY <1>1, <2>2
    <3>2. a[j - (i - 1)] = s[j + 1]
      BY <1>3, <3>1
    <3>3. j \in 1..(Len(f) + Len(a)) /\ ~(j <= Len(f)) /\ j - Len(f) = j - (i - 1)
      BY <1>1, <1>2, <1>5, <2>2
    <3>4. (f \o a)[j] = a[j - Len(f)]
      BY <1>4, <3>3, Zenon
    <3> QED
      BY <2>2, <3>2, <3>3, <3>4
  <2> QED
    BY <2>1, <2>2
<1>7. RemoveAt(s, i) = f \o a
  BY DEF RemoveAt, f, a
<1>8. DOMAIN (f \o a) = 1..(Len(s) - 1)
  BY <1>4, <1>5
<1> QED
  BY <1>4, <1>6, <1>7, <1>8
-----------------------------------------------------------------------------
LEMMA InitInv == Init => Inv
<1> SUFFICES ASSUME Init PROVE Inv
  OBVIOUS
<1> USE DEF Init
<1>1. TypeInv
  BY SizeAssumption DEF TypeInv, Rows
<1>2. NetInv /\ MsgInv
  BY DEF NetInv, MsgInv
<1>3. MatrixInv
  BY FS_EmptySet DEF MatrixInv
<1>4. PushInv
  BY DEF PushInv
<1> QED
  BY <1>1, <1>2, <1>3, <1>4 DEF Inv

(* A packet that covers the whole block, or one row, may be sent.          *)
LEMMA SendInv ==
  ASSUME Inv, NEW p \in Packet, PacketOK(p), p.num_packets = 1 \/ (p.start = 0 /\ p.num_packets = len), Send(p)
  PROVE  Inv'
<1> USE DEF Inv, Send, matrix
<1>1. len \in Nat /\ max_packet_index \in Nat /\ max_packet_index <= len /\ net \in Seq(Packet)
  BY SizeAssumption DEF TypeInv
<1>2. /\ net' \in Seq(Packet) /\ DOMAIN net' = 1..(Len(net) + 1) /\ DOMAIN net = 1..Len(net) /\ Len(net) \in Nat
      /\ net'[Len(net) + 1] = p /\ \A j \in 1..Len(net) : net'[j] = net[j]
  BY <1>1, AppendProperties
<1>3. NetInv'
  <2> SUFFICES ASSUME NEW i \in DOMAIN net'
               PROVE  /\ PacketOK(net'[i])
                      /\ \/ net'[i].num_packets = 1
                         \/ /\ max_packet_index <= net'[i].num_packets /\ net'[i].start = 0
                            /\ \A j \in DOMAIN net' : j < i => Covers(net'[j]) <= net'[i].num_packets
    BY DEF NetInv, PacketOK
  <2>1. CASE i \in 1..Len(net)
    <3>1. \A j \in DOMAIN net' : j < i => j \in DOMAIN net /\ net'[j] = net[j]
      BY <1>2, <2>1
    <3> QED
      BY <1>2, <2>1, <3>1 DEF NetInv
  <2>2. CASE i = Len(net) + 1
    <3>1. \A j \in DOMAIN net' : j < i => Covers(net'[j]) <= len
      BY <1>2, <2>2 DEF NetInv, PacketOK
    <3> QED
      BY <1>1, <1>2, <2>2, <3>1
  <2> QED
    BY <1>2, <2>1, <2>2
<1>4. TypeInv'
  BY <1>2 DEF TypeInv
<1>5. MsgInv' /\ PushInv'
  BY DEF MsgInv, PushInv
<1>6. MatrixInv'
  BY DEF MatrixInv, RowOK, Eff
<1> QED
  BY <1>3, <1>4, <1>5, <1>6

LEMMA readBlockInv == Inv /\ readBlock => Inv'
<1> SUFFICES ASSUME Inv, readBlock PROVE Inv'
  OBVIOUS
<1> USE DEF Inv, readBlock, matrix
<1>1. TypeInv'
  BY SizeAssumption DEF TypeInv
<1>2. NetInv'
  <2>1. \A i \in DOMAIN net : net[i] \in Packet
    BY DEF TypeInv
  <2>2. \A i \in DOMAIN net : Covers(net[i]) \in Nat
    BY <2>1 DEF Covers, Packet
  <2>3. len \in Nat /\ len' = len + 1
    BY SizeAssumption DEF TypeInv
  <2>4. \A i \in DOMAIN net : Covers(net[i]) <= len'
    BY <2>2, <2>3 DEF NetInv, PacketOK
  <2> QED
    BY <2>4 DEF NetInv, PacketOK
<1>3. MsgInv' /\ PushInv'
  BY DEF MsgInv, PushInv
<1>4. MatrixInv'
  BY DEF MatrixInv, RowOK, Eff
<1> QED
  BY <1>1, <1>2, <1>3, <1>4

LEMMA SendNormalInv ==
  ASSUME Inv, NEW row \in 0..(len - 1), SendNormal(row)
  PROVE  Inv'
<1> DEFINE p == [coeff |-> {0}, start |-> row, num_packets |-> 1, payload |-> {row}]
<1>1. row \in Nat /\ row + 1 <= len /\ row + 0 = row
  BY SizeAssumption DEF Inv, TypeInv
<1>2. Sum(row, {0}) = {row}
  BY <1>1 DEF Sum
<1>3. p \in Packet
  BY <1>1 DEF Packet
<1>4. PacketOK(p)
  BY <1>1, <1>2 DEF PacketOK, Covers
<1>5. Send(p) /\ (p.num_packets = 1 \/ (p.start = 0 /\ p.num_packets = len))
  BY DEF SendNormal
<1> HIDE DEF p
<1> QED
  BY <1>3, <1>4, <1>5, SendInv

LEMMA SendCodedInv ==
  ASSUME Inv, NEW coeff \in SUBSET (0..(len - 1)), SendCoded(coeff)
  PROVE  Inv'
<1> DEFINE p == [coeff |-> coeff, start |-> 0, num_packets |-> len, payload |-> coeff]
<1>1. len \in Nat /\ len # 0 /\ coeff \in SUBSET Nat
  <2>1. len \in Nat /\ coeff # {} /\ coeff \in SUBSET (0..(len - 1))
    BY SizeAssumption DEF Inv, TypeInv, SendCoded
  <2>2. PICK x \in coeff : x \in 0..(len - 1)
    BY <2>1
  <2> QED
    BY <2>1, <2>2
<1>2. Sum(0, coeff) = coeff
  <2>1. \A i \in coeff : 0 + i = i
    BY <1>1
  <2> QED
    BY <2>1 DEF Sum
<1>3. p \in Packet
  BY <1>1 DEF Packet
<1>4. PacketOK(p)
  BY <1>1, <1>2 DEF PacketOK, Covers
<1>5. Send(p) /\ p.start = 0 /\ p.num_packets = len
  BY DEF SendCoded
<1> HIDE DEF p
<1> QED
  BY <1>3, <1>4, <1>5, SendInv

LEMMA LoseInv ==
  ASSUME Inv, NEW i \in DOMAIN net, Lose(i)
  PROVE  Inv'
<1> USE DEF Inv, Lose, matrix, server
<1>1. /\ net' \in Seq(Packet) /\ DOMAIN net' = 1..(Len(net) - 1) /\ DOMAIN net = 1..Len(net) /\ Len(net) \in Nat
      /\ \A j \in 1..(Len(net) - 1) : net'[j] = IF j < i THEN net[j] ELSE net[j + 1]
  BY RemoveAtFacts DEF TypeInv
<1>2. NetInv'
  <2> SUFFICES ASSUME NEW k \in DOMAIN net'
               PROVE  /\ PacketOK(net'[k])
                      /\ \/ net'[k].num_packets = 1
                         \/ /\ max_packet_index <= net'[k].num_packets /\ net'[k].start = 0
                            /\ \A j \in DOMAIN net' : j < k => Covers(net'[j]) <= net'[k].num_packets
    BY DEF NetInv, PacketOK
  <2> DEFINE old(j) == IF j < i THEN j ELSE j + 1
  <2>1. \A j \in DOMAIN net' : old(j) \in DOMAIN net /\ net'[j] = net[old(j)] /\ (j < k => old(j) < old(k))
    BY <1>1
  <2> HIDE DEF old
  <2> QED
    BY <2>1 DEF NetInv
<1>3. TypeInv'
  BY <1>1 DEF TypeInv
<1>4. MsgInv' /\ PushInv'
  BY DEF MsgInv, PushInv
<1>5. MatrixInv'
  BY DEF MatrixInv, RowOK, Eff
<1> QED
  BY <1>2, <1>3, <1>4, <1>5

(* While packets do not overtake each other, the one received covers all   *)
(* that came before it, or is a source packet.                             *)
LEMMA ReceiveInv ==
  ASSUME Inv, ~Reorder, NEW i \in DOMAIN net, Receive(i)
  PROVE  Inv'
<1> DEFINE p == net[1]
           top == max_packet_index'
<1> USE DEF Inv, server
<1>1. i = 1 /\ 1 \in DOMAIN net /\ net' = RemoveAt(net, 1) /\ step' = "reduce" /\ msg' = Shifted(p)
      /\ UNCHANGED <<len, sent, filled, rows, row_len, content, dofs, dofs_pushed, delivered>>
  BY DEF Receive
<1>2. /\ net' \in Seq(Packet) /\ DOMAIN net' = 1..(Len(net) - 1) /\ DOMAIN net = 1..Len(net) /\ Len(net) \in Nat
      /\ \A j \in 1..(Len(net) - 1) : net'[j] = net[j + 1]
  <2>1. net \in Seq(Packet)
    BY DEF TypeInv
  <2>2. /\ RemoveAt(net, 1) \in Seq(Packet) /\ DOMAIN RemoveAt(net, 1) = 1..(Len(net) - 1)
        /\ \A j \in 1..(Len(net) - 1) : RemoveAt(net, 1)[j] = IF j < 1 THEN net[j] ELSE net[j + 1]
    BY <1>1, <2>1, RemoveAtFacts
  <2>3. \A j \in 1..(Len(net) - 1) : ~(j < 1)
    BY <2>1
  <2>4. \A j \in 1..(Len(net) - 1) : RemoveAt(net, 1)[j] = net[j + 1]
    BY ONLY <2>2, <2>3
  <2>5. DOMAIN net = 1..Len(net) /\ Len(net) \in Nat
    BY <2>1
  <2> QED
    BY ONLY <1>1, <2>2, <2>4, <2>5
<1>3. /\ p \in Packet /\ PacketOK(p) /\ Covers(p) \in Nat /\ Covers(p) <= len
      /\ p.num_packets = 1 \/ (p.start = 0 /\ max_packet_index <= p.num_packets)
  <2>1. p \in Packet
    BY <1>1 DEF TypeInv
  <2>2. Covers(p) \in Nat
    BY <2>1 DEF Covers, Packet
  <2> QED
    BY <1>1, <2>1, <2>2 DEF NetInv, PacketOK
<1>4. /\ top \in 0..len /\ max_packet_index <= top /\ Covers(p) <= top /\ top \in Nat /\ max_packet_index \in Nat
      /\ top = Covers(p) \/ top = max_packet_index
  <2>1. top = MAX(Covers(p), max_packet_index)
    BY <1>1 DEF Receive, Covers
  <2>2. max_packet_index \in Nat /\ max_packet_index <= len /\ len \in Nat
    BY SizeAssumption DEF TypeInv
  <2> HIDE DEF top, p
  <2> QED
    BY <1>3, <2>1, <2>2 DEF MAX
<1>5. MsgInv'
  <2>1. p.num_packets \in Nat /\ p.start \in Nat /\ p.num_packets # 0 /\ p.coeff \subseteq 0..(p.num_packets - 1)
        /\ p.payload = Sum(p.start, p.coeff) /\ Covers(p) = p.start + p.num_packets
    BY <1>3 DEF PacketOK, Packet, Covers
  <2>2. \A k \in p.coeff : p.start + k < top
    BY <1>4, <2>1
  <2>3. p.num_packets = 1 \/ top <= p.num_packets
    BY <1>3, <1>4, <2>1
  <2> HIDE DEF p, top
  <2>4. MsgOK(Shifted(p), top)
    BY <1>3, <1>4, <2>1, <2>2, <2>3, ShiftedOK
  <2> QED
    BY <1>1, <2>4 DEF MsgInv, top
<1>6. NetInv'
  <2> SUFFICES ASSUME NEW k \in DOMAIN net'
               PROVE  /\ PacketOK(net'[k])
                      /\ \/ net'[k].num_packets = 1
                         \/ /\ top <= net'[k].num_packets /\ net'[k].start = 0
                            /\ \A j \in DOMAIN net' : j < k => Covers(net'[j]) <= net'[k].num_packets
    BY <1>1 DEF NetInv, PacketOK
  <2>1. \A j \in DOMAIN net' : j + 1 \in DOMAIN net /\ net'[j] = net[j + 1] /\ (j < k => j + 1 < k + 1)
    BY <1>2
  <2>2. 1 < k + 1
    BY <1>2
  <2>3. net'[k].num_packets # 1 => top <= net'[k].num_packets
    BY <1>1, <1>4, <2>1, <2>2 DEF NetInv
  <2> HIDE DEF top, p
  <2> QED
    BY <2>1, <2>3 DEF NetInv
<1>7. TypeInv'
  BY <1>1, <1>2, <1>4 DEF TypeInv
<1>8. MatrixInv'
  <2>1. \A r \in filled : RowOK(r)'
    <3> TAKE r \in filled
    <3>1. r \in Rows /\ r \in Nat /\ rows[r] \in SUBSET Nat /\ RowOK(r)
      BY RowsBound DEF TypeInv, MatrixInv
    <3>a. \A j \in Eff(r) : j \in Nat
      BY <3>1 DEF Eff
    <3>2. \A j \in Eff(r) : r + j \in Nat /\ r + j < max_packet_index
      BY <3>1, <3>a DEF RowOK
    <3>3. \A j \in Eff(r) : r + j < top
      BY <1>4, <3>2
    <3>4. Eff(r)' = Eff(r)
      BY <1>1 DEF Eff
    <3> HIDE DEF top
    <3> QED
      BY <1>1, <3>3, <3>4 DEF MatrixInv, RowOK, top
  <2> HIDE DEF top
  <2>2. filled \subseteq 0..(top - 1)
    <3>1. filled \subseteq 0..(max_packet_index - 1)
      BY DEF MatrixInv
    <3> QED
      BY <1>4, <3>1
  <2> QED
    BY <1>1, <2>1, <2>2 DEF MatrixInv, top
<1>9. PushInv'
  BY <1>1 DEF PushInv
<1> QED
  BY <1>5, <1>6, <1>7, <1>8, <1>9
-----------------------------------------------------------------------------
LEMMA ReducedRecord ==
  ASSUME NEW p \in Packet, NEW a \in SUBSET Nat, NEW b \in SUBSET Nat
  PROVE  [p EXCEPT !.coeff = a, !.payload = b]
           = [coeff |-> a, start |-> p.start, num_packets |-> p.num_packets, payload |-> b]
<1> DEFINE q == [p EXCEPT !.coeff = a, !.payload = b]
<1>1. DOMAIN p = {"coeff", "start", "num_packets", "payload"}
  BY DEF Packet
<1>2. /\ DOMAIN q = DOMAIN p /\ q = [f \in DOMAIN p |-> q[f]]
      /\ q["coeff"] = a /\ q["payload"] = b
      /\ q["num_packets"] = p.num_packets /\ q["start"] = p.start
  BY <1>1
<1> HIDE DEF q
<1>3. q = [coeff |-> a, start |-> p.start, num_packets |-> p.num_packets, payload |-> b]
  BY <1>1, <1>2
<1> QED
  BY <1>3 DEF q

(* Sums are linear.                                                        *)
LEMMA SumXor ==
  ASSUME NEW r \in Nat, NEW A \in SUBSET Nat, NEW B \in SUBSET Nat
  PROVE  Xor(Sum(r, A), Sum(r, B)) = Sum(r, Xor(A, B))
<1>1. \A i \in Nat, j \in Nat : r + i = r + j => i = j
  OBVIOUS
<1>2. \A X \in SUBSET Nat : \A i \in Nat : r + i \in Sum(r, X) <=> i \in X
  BY <1>1 DEF Sum
<1>3. \A X \in SUBSET Nat : \A y \in Sum(r, X) : \E i \in Nat : y = r + i
  BY DEF Sum
<1>4. Xor(A, B) \in SUBSET Nat
  BY DEF Xor
<1>5. \A y : y \in Xor(Sum(r, A), Sum(r, B)) => y \in Sum(r, Xor(A, B))
  <2> SUFFICES ASSUME NEW y \in Xor(Sum(r, A), Sum(r, B)) PROVE y \in Sum(r, Xor(A, B))
    OBVIOUS
  <2>1. PICK k \in Nat : y = r + k
    BY <1>3 DEF Xor
  <2>2. k \in Xor(A, B)
    BY <1>2, <2>1 DEF Xor
  <2> QED
    BY <1>2, <1>4, <2>1, <2>2
<1>6. \A y : y \in Sum(r, Xor(A, B)) => y \in Xor(Sum(r, A), Sum(r, B))
  <2> SUFFICES ASSUME NEW y \in Sum(r, Xor(A, B)) PROVE y \in Xor(Sum(r, A), Sum(r, B))
    OBVIOUS
  <2>1. PICK k \in Nat : y = r + k
    BY <1>3, <1>4
  <2>2. k \in Xor(A, B)
    BY <1>2, <1>4, <2>1
  <2> QED
    BY <1>2, <2>1, <2>2 DEF Xor
<1> QED
  BY <1>5, <1>6

(* Subtracting the row keeps the packet's equation true: a source packet   *)
(* vanishes, and a combination is long enough to hold the whole sum.       *)
LEMMA SubtractInv == Inv /\ Subtract => Inv'
<1> SUFFICES ASSUME Inv, Subtract PROVE Inv'
  OBVIOUS
<1> USE DEF Inv, server, matrix
<1> DEFINE r == msg.start
           c == msg.coeff
           n == msg.num_packets
           tail == {i \in rows[r] : 1 <= i /\ i < row_len[r]}
           sum == Xor(c \ {0}, tail)
           p == [msg EXCEPT !.coeff = sum, !.payload = PayloadReduced(msg)]
<1>1. /\ step = "reduce" /\ step' = "reduce" /\ r \in filled /\ ~isEmpty(c, n) /\ msg' = Shifted(p)
      /\ UNCHANGED <<len, sent, net, filled, rows, row_len, content, dofs, max_packet_index, dofs_pushed, delivered>>
  BY DEF Subtract
<1>2. /\ msg \in Packet /\ n # 0 /\ c \subseteq 0..(n - 1) /\ c # {}
      /\ 0 \in c /\ msg.payload = Sum(r, c) /\ (\A i \in c : r + i < max_packet_index)
      /\ n = 1 \/ max_packet_index <= n
  BY <1>1 DEF MsgInv, MsgOK, isEmpty
<1>3. /\ c \in SUBSET Nat /\ n \in Nat /\ r \in Nat /\ r \in Rows /\ rows[r] \in SUBSET Nat /\ row_len[r] \in Nat
      /\ max_packet_index \in Nat
  BY <1>1, <1>2, RowsBound DEF Packet, TypeInv, MatrixInv
<1>4. RowOK(r)
  BY <1>1 DEF MatrixInv
<1>5. Eff(r) \in SUBSET Nat /\ tail \in SUBSET Nat /\ 0 \in Eff(r) /\ tail = Eff(r) \ {0}
  BY <1>3, <1>4 DEF RowOK, Eff
<1>6. sum = Xor(c, Eff(r)) /\ sum \in SUBSET Nat /\ 0 \notin sum
  <2> HIDE DEF tail, c, r
  <2> QED
    BY <1>2, <1>3, <1>5 DEF Xor
<1>7. PayloadReduced(msg) = Sum(r, sum)
  <2>1. PayloadReduced(msg) = Xor(Sum(r, c), Sum(r, Eff(r)))
    BY <1>2, <1>4 DEF PayloadReduced, RowOK
  <2> HIDE DEF sum, c, r
  <2> QED
    BY <1>3, <1>5, <1>6, <2>1, SumXor
<1>8. Sum(r, sum) \in SUBSET Nat
  <2> HIDE DEF sum, r
  <2> QED
    BY <1>3, <1>6 DEF Sum
<1>9. p = [coeff |-> sum, start |-> r, num_packets |-> n, payload |-> Sum(r, sum)]
  <2> HIDE DEF sum
  <2>1. PayloadReduced(msg) \in SUBSET Nat
    BY <1>7, <1>8
  <2>2. p = [coeff |-> sum, start |-> r, num_packets |-> n, payload |-> PayloadReduced(msg)]
    BY <1>2, <1>6, <2>1, ReducedRecord
  <2> QED
    BY <1>7, <2>2, Zenon
<1>10. \A i \in sum : r + i < max_packet_index
  <2>1. \A i \in Eff(r) : r + i < max_packet_index
    BY <1>4 DEF RowOK
  <2>2. \A i \in sum : i \in c \/ i \in Eff(r)
    BY <1>6 DEF Xor
  <2> HIDE DEF sum, c, r
  <2> QED
    BY <1>2, <2>1, <2>2
<1>11. n = 1 => isEmpty(sum, n)
  <2> HIDE DEF sum
  <2> QED
    BY <1>6 DEF isEmpty
<1>12. n # 1 => sum \subseteq 0..(n - 1)
  <2> HIDE DEF sum, r, n
  <2> QED
    BY <1>2, <1>3, <1>6, <1>10
<1> HIDE DEF sum, p, r, n, c
<1>13. /\ p \in Packet /\ p.coeff = sum /\ p.start = r /\ p.num_packets = n /\ p.payload = Sum(r, sum)
  BY <1>3, <1>6, <1>8, <1>9 DEF Packet
<1>14. MsgOK(Shifted(p), max_packet_index)
  BY <1>2, <1>3, <1>10, <1>11, <1>12, <1>13, ShiftedOK
<1>15. MsgInv'
  BY <1>1, <1>14 DEF MsgInv
<1>16. TypeInv' /\ NetInv'
  BY <1>1 DEF TypeInv, NetInv, PacketOK
<1>17. MatrixInv'
  BY <1>1 DEF MatrixInv, RowOK, Eff
<1>18. PushInv'
  BY <1>1 DEF PushInv
<1> QED
  BY <1>15, <1>16, <1>17, <1>18

(* An innovative packet fits in its row.                                   *)
LEMMA InsertInv == Inv /\ Insert => Inv'
<1> SUFFICES ASSUME Inv, Insert PROVE Inv'
  OBVIOUS
<1> USE DEF Inv, server
<1>0. PICK r : r = msg.start
  OBVIOUS
<1> DEFINE c == msg.coeff
           n == MIN(msg.num_packets, BLOCK_SIZE - r)
<1>1. /\ step = "reduce" /\ r \notin filled /\ ~isEmpty(c, msg.num_packets) /\ step' = "write"
      /\ filled' = filled \cup {r} /\ rows' = [rows EXCEPT ![r] = c \cap 0..(n - 1)]
      /\ row_len' = [row_len EXCEPT ![r] = n] /\ content' = [content EXCEPT ![r] = msg.payload]
      /\ dofs' = dofs + 1
      /\ UNCHANGED <<len, sent, net, dofs_pushed, max_packet_index, delivered>>
  BY <1>0 DEF Insert
<1>2. /\ msg \in Packet /\ msg.num_packets # 0 /\ c \subseteq 0..(msg.num_packets - 1)
      /\ 0 \in c /\ msg.payload = Sum(r, c) /\ (\A i \in c : r + i < max_packet_index)
  BY <1>0, <1>1 DEF MsgInv, MsgOK, isEmpty
<1>3. /\ c \in SUBSET Nat /\ msg.num_packets \in Nat /\ r \in Nat /\ msg.payload \in SUBSET Nat
      /\ max_packet_index \in Nat /\ max_packet_index <= BLOCK_SIZE /\ BLOCK_SIZE \in Nat
  BY <1>0, <1>2, RowsBound DEF Packet
<1>4. r < max_packet_index
  <2>1. r + 0 < max_packet_index
    BY <1>2
  <2> QED
    BY <1>3, <2>1
<1>5. r \in Rows /\ r \in 0..(max_packet_index - 1)
  BY <1>3, <1>4, RowsBound
<1>6. n \in Nat /\ n >= 1 /\ c \subseteq 0..(n - 1)
  <2>1. CASE msg.num_packets < BLOCK_SIZE - r
    <3>1. n = msg.num_packets
      BY <2>1 DEF MIN
    <3> HIDE DEF n, c
    <3> QED
      BY <1>2, <1>3, <3>1
  <2>2. CASE ~(msg.num_packets < BLOCK_SIZE - r)
    <3>1. n = BLOCK_SIZE - r
      BY <2>2 DEF MIN
    <3> HIDE DEF n, c
    <3> QED
      BY <1>2, <1>3, <1>4, <3>1
  <2> QED
    BY <2>1, <2>2
<1> HIDE DEF c, n
<1>7. c \cap 0..(n - 1) = c
  BY <1>6
<1>8. /\ rows' \in [Rows -> SUBSET Nat] /\ row_len' \in [Rows -> Nat] /\ content' \in [Rows -> SUBSET Nat]
      /\ rows'[r] = c /\ row_len'[r] = n /\ content'[r] = Sum(r, c)
      /\ \A q \in Rows : q # r => rows'[q] = rows[q] /\ row_len'[q] = row_len[q] /\ content'[q] = content[q]
  <2>1. rows \in [Rows -> SUBSET Nat] /\ row_len \in [Rows -> Nat] /\ content \in [Rows -> SUBSET Nat]
    BY DEF TypeInv
  <2> QED
    BY <1>1, <1>2, <1>3, <1>5, <1>6, <1>7, <2>1
<1>9. TypeInv'
  BY <1>1, <1>8 DEF TypeInv
<1>10. NetInv' /\ MsgInv'
  BY <1>1 DEF NetInv, PacketOK, MsgInv
<1>11. RowOK(r)'
  <2>1. Eff(r)' = c
    <3>1. Eff(r)' = {j \in c : j < n}
      BY <1>8 DEF Eff
    <3>2. \A j \in c : j < n
      BY <1>6
    <3> QED
      BY <3>1, <3>2
  <2> QED
    BY <1>1, <1>2, <1>6, <1>8, <2>1 DEF RowOK
<1>12. \A q \in filled : RowOK(q)'
  <2> TAKE q \in filled
  <2>1. q # r /\ q \in Rows /\ RowOK(q)
    BY <1>1, RowsBound DEF MatrixInv
  <2>2. rows'[q] = rows[q] /\ row_len'[q] = row_len[q] /\ content'[q] = content[q]
    BY <1>8, <2>1
  <2> QED
    BY <1>1, <2>1, <2>2 DEF RowOK, Eff
<1>13. dofs' = Cardinality(filled')
  <2>1. IsFiniteSet(filled) /\ dofs = Cardinality(filled)
    BY FilledAll DEF MatrixInv
  <2>2. Cardinality(filled \cup {r}) = Cardinality(filled) + 1
    BY <1>1, <2>1, FS_AddElement
  <2> QED
    BY <1>1, <2>1, <2>2
<1>14. MatrixInv'
  <2>1. filled' \subseteq 0..(max_packet_index' - 1)
    BY <1>1, <1>5 DEF MatrixInv
  <2>2. \A q \in filled' : RowOK(q)'
    BY <1>1, <1>11, <1>12
  <2> QED
    BY <1>13, <2>1, <2>2 DEF MatrixInv
<1>15. PushInv'
  BY <1>1 DEF PushInv
<1> QED
  BY <1>9, <1>10, <1>14, <1>15

LEMMA DiscardInv == Inv /\ Discard => Inv'
<1> SUFFICES ASSUME Inv, Discard PROVE Inv'
  OBVIOUS
<1> USE DEF Inv, Discard, server, matrix
<1>1. TypeInv' /\ NetInv'
  BY DEF TypeInv, NetInv, PacketOK
<1>2. MsgInv' /\ PushInv'
  BY DEF MsgInv, PushInv
<1>3. MatrixInv'
  BY DEF MatrixInv, RowOK, Eff
<1> QED
  BY <1>1, <1>2, <1>3

LEMMA partial_writeInv == Inv /\ partial_write => Inv'
<1> SUFFICES ASSUME Inv, partial_write PROVE Inv'
  OBVIOUS
<1> DEFINE lens == IF dofs = max_packet_index THEN UnwrappedLen ELSE row_len
           cont == IF dofs = max_packet_index THEN Unwrapped ELSE content
           n == Cardinality(Ready(lens))
<1>1. /\ content' = cont /\ row_len' = lens
      /\ delivered' = delivered \o [k \in 1..n |-> cont[dofs_pushed + k - 1]]
      /\ dofs_pushed' = dofs_pushed + n /\ step' = "idle"
      /\ UNCHANGED <<server, net, filled, rows, dofs, max_packet_index, msg>>
  BY DEF partial_write
<1>2. TypeInv /\ MatrixInv /\ PushInv
  BY DEF Inv
<1>3. /\ dofs_pushed \in Nat /\ dofs_pushed <= max_packet_index /\ max_packet_index \in Nat
      /\ max_packet_index <= BLOCK_SIZE /\ BLOCK_SIZE \in Nat
  BY <1>2, RowsBound, PushedBound
<1>4. /\ cont \in [Rows -> SUBSET Nat] /\ lens \in [Rows -> Nat]
      /\ \A r \in filled : RowTrue(r, cont, lens)
  <2>1. CASE dofs = max_packet_index
    BY <2>1, UnwrapRows
  <2>2. CASE dofs # max_packet_index
    <3>1. \A r \in filled : RowTrue(r, content, row_len)
      BY <1>2 DEF MatrixInv, RowOK, RowTrue, Eff
    <3> QED
      BY <1>2, <2>2, <3>1 DEF TypeInv
  <2> QED
    BY <2>1, <2>2
<1>5. dofs = max_packet_index =>
        /\ \A q \in dofs_pushed..(max_packet_index - 1) : Decoded(q, lens)
        /\ filled = 0..(max_packet_index - 1) /\ dofs = max_packet_index
  BY UnwrapRows
<1> HIDE DEF lens, cont, n
<1>6. PICK m \in dofs_pushed..BLOCK_SIZE :
        /\ Cardinality(Ready(lens)) = m - dofs_pushed
        /\ \A q \in dofs_pushed..(m - 1) : Decoded(q, lens)
        /\ m < BLOCK_SIZE => ~Decoded(m, lens)
  BY <1>2, <1>3, ReadyFacts
<1>7. n \in Nat /\ dofs_pushed + n = m
  BY <1>3, <1>6 DEF n
<1>8. \A q \in dofs_pushed..(dofs_pushed + n - 1) : q \in filled /\ cont[q] = {q}
  <2> TAKE q \in dofs_pushed..(dofs_pushed + n - 1)
  <2>1. Decoded(q, lens)
    <3>1. dofs_pushed + n - 1 = m - 1
      BY <1>3, <1>6, <1>7
    <3>2. q \in dofs_pushed..(m - 1)
      BY <3>1, Zenon
    <3> QED
      BY <1>6, <3>2, Zenon
  <2>2. q \in filled /\ q \in Rows
    BY <1>2, <2>1, RowsBound DEF Decoded, MatrixInv
  <2>3. lens[q] \in Nat /\ RowTrue(q, cont, lens)
    BY <1>4, <2>2
  <2> QED
    BY <1>2, <2>1, <2>2, <2>3, DecodedRow
<1>9. ASSUME dofs = max_packet_index PROVE m = dofs
  <2>1. \A q \in dofs_pushed..(m - 1) : q \in 0..(max_packet_index - 1)
    BY <1>5, <1>6, <1>9 DEF Decoded
  <2>2. ~(max_packet_index < m)
    <3> SUFFICES ASSUME max_packet_index < m PROVE FALSE
      OBVIOUS
    <3>1. max_packet_index \in dofs_pushed..(m - 1)
      BY <1>3, <1>6
    <3> QED
      BY <1>3, <2>1, <3>1
  <2>3. ~(m < max_packet_index)
    <3> SUFFICES ASSUME m < max_packet_index PROVE FALSE
      OBVIOUS
    <3>1. m \in dofs_pushed..(max_packet_index - 1) /\ m < BLOCK_SIZE
      BY <1>3, <1>6
    <3> QED
      BY <1>5, <1>6, <1>9, <3>1
  <2> QED
    BY <1>3, <1>6, <1>9, <2>2, <2>3
<1>10. dofs = max_packet_index => dofs_pushed + n = dofs
  BY <1>7, <1>9
<1> QED
  BY <1>1, <1>4, <1>7, <1>8, <1>10, Wrote

LEMMA writeAndFreeBlockInv == Inv /\ writeAndFreeBlock => Inv'
<1> SUFFICES ASSUME Inv, writeAndFreeBlock PROVE Inv'
  OBVIOUS
<1> DEFINE n == BLOCK_SIZE - dofs_pushed
<1>1. /\ content' = Unwrapped /\ row_len' = UnwrappedLen
      /\ delivered' = delivered \o [k \in 1..n |-> content'[dofs_pushed + k - 1]]
      /\ dofs_pushed' = BLOCK_SIZE /\ step' = "idle" /\ dofs = BLOCK_SIZE
      /\ UNCHANGED <<server, net, filled, rows, dofs, max_packet_index, msg>>
  BY DEF writeAndFreeBlock
<1>2. TypeInv /\ MatrixInv /\ PushInv
  BY DEF Inv
<1>3. dofs = max_packet_index
  BY <1>1, <1>2, FilledAll
<1>4. /\ dofs_pushed \in Nat /\ dofs_pushed <= BLOCK_SIZE /\ BLOCK_SIZE \in Nat
  BY <1>2, RowsBound, PushedBound
<1>5. n \in Nat /\ dofs_pushed + n = BLOCK_SIZE
  BY <1>4
<1>6. /\ Unwrapped \in [Rows -> SUBSET Nat] /\ UnwrappedLen \in [Rows -> Nat]
      /\ \A r \in filled : RowTrue(r, Unwrapped, UnwrappedLen)
      /\ filled = 0..(max_packet_index - 1)
      /\ \A q \in dofs_pushed..(max_packet_index - 1) : Decoded(q, UnwrappedLen)
  BY <1>3, UnwrapRows
<1> HIDE DEF n
<1>7. \A q \in dofs_pushed..(dofs_pushed + n - 1) : q \in filled /\ content'[q] = {q}
  <2> TAKE q \in dofs_pushed..(dofs_pushed + n - 1)
  <2>1. q \in filled /\ q \in Rows /\ Decoded(q, UnwrappedLen)
    BY <1>1, <1>2, <1>3, <1>4, <1>5, <1>6, RowsBound
  <2>2. UnwrappedLen[q] \in Nat /\ RowTrue(q, Unwrapped, UnwrappedLen)
    BY <1>6, <2>1
  <2> QED
    BY <1>1, <1>2, <2>1, <2>2, DecodedRow
<1> QED
  BY <1>1, <1>5, <1>6, <1>7, Wrote

LEMMA InvInductive ==
  ASSUME ~Reorder
  PROVE  Inv /\ [Next]_vars => Inv'
<1> SUFFICES ASSUME Inv, [Next]_vars PROVE Inv'
  OBVIOUS
<1>1. CASE readBlock
  BY <1>1, readBlockInv
<1>2. CASE \E row \in 0..(len - 1) : SendNormal(row)
  BY <1>2, SendNormalInv
<1>3. CASE \E coeff \in SUBSET (0..(len - 1)) : SendCoded(coeff)
  BY <1>3, SendCodedInv
<1>4. CASE \E i \in DOMAIN net : Lose(i)
  BY <1>4, LoseInv
<1>5. CASE \E i \in DOMAIN net : Receive(i)
  BY <1>5, ReceiveInv
<1>6. CASE Subtract \/ Insert \/ Discard
  BY <1>6, SubtractInv, InsertInv, DiscardInv
<1>7. CASE partial_write \/ writeAndFreeBlock
  BY <1>7, partial_writeInv, writeAndFreeBlockInv
<1>8. CASE UNCHANGED vars
  <2> USE <1>8 DEF vars, server, matrix
  <2>1. TypeInv' /\ NetInv'
    BY DEF Inv, TypeInv, NetInv, PacketOK
  <2>2. MsgInv' /\ PushInv'
    BY DEF Inv, MsgInv, PushInv
  <2>3. MatrixInv'
    BY DEF Inv, MatrixInv, RowOK, Eff
  <2> QED
    BY <2>1, <2>2, <2>3 DEF Inv
<1> QED
  BY <1>1, <1>2, <1>3, <1>4, <1>5, <1>6, <1>7, <1>8 DEF Next

LEMMA InvHolds ==
  ASSUME ~Reorder
  PROVE  Spec => []Inv
  BY InitInv, InvInductive, PTL DEF Spec
-----------------------------------------------------------------------------
(* While packets do not overtake each other, every row bldack keeps stands *)
(* for a true equation: its payload is the sum its coefficients name,      *)
(* whatever was lost, whichever rows were coded and however much the block *)
(* grew between them.                                                      *)
THEOREM EquationsTrue ==
  ASSUME ~Reorder
  PROVE  Spec => []RowsTrue
<1>1. Inv => RowsTrue
  BY DEF Inv, MatrixInv, RowOK, Eff, Sum, RowsTrue
<1> QED
  BY <1>1, InvHolds, PTL

(* What unwrap and partial_write hand to the application is the source,    *)
(* row after row: the back substitution leaves no other row in a payload.  *)
THEOREM SourceDelivered ==
  ASSUME ~Reorder
  PROVE  Spec => []DeliveredTrue
<1>1. Inv => DeliveredTrue
  BY DEF Inv, PushInv, DeliveredTrue
<1> QED
  BY <1>1, InvHolds, PTL

(* With as many equations as packets known of, partial_write leaves        *)
(* nothing behind.                                                         *)
THEOREM NothingHeldBack ==
  ASSUME ~Reorder
  PROVE  Spec => []AllDelivered
<1>1. Inv => AllDelivered
  BY DEF Inv, PushInv, AllDelivered
<1> QED
  BY <1>1, InvHolds, PTL
=============================================================================
