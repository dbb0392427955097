------------------------------- MODULE Decoder -------------------------------
(***************************************************************************)
(* One block between the server's coder and the client's decoder: the      *)
(* packets coding_job makes while send_ctcp adds to the block, and the     *)
(* Gaussian elimination of bldack, unwrap and partial_write on the rows    *)
(* that arrive.  The field is GF(2), which util.h allows for GF; the code  *)
(* takes the same path with 256.                                           *)
(*                                                                         *)
(* A payload is the set of source rows it is the sum of, so a row is right *)
(* when its payload is the sum its coefficients say.  An array of          *)
(* coefficients is the set of the indices at which it is 1.                *)
(***************************************************************************)
EXTENDS Integers, Sequences, FiniteSets, SequencesExt

CONSTANTS BLOCK_SIZE,
          Reorder,     \* may packets overtake each other
          MaxFlight,   \* bound: packets in the network
          MaxSent      \* bound: packets sent

ASSUME SizeAssumption  == BLOCK_SIZE \in Nat \ {0}
ASSUME BoundAssumption == Reorder \in BOOLEAN /\ MaxFlight \in Nat /\ MaxSent \in Nat

VARIABLES
  len,         \* Block_t.len at the server: source rows in the block so far
  net,         \* packets in the network, oldest first
  sent,        \* packets sent so far
  \* Coded_Block_t at the client
  filled,      \* rows that hold an equation (rows[r][0] # -1)
  rows,        \* per row its coefficients, as indices from the row on
  row_len,
  content,     \* per row its payload
  dofs, dofs_pushed, max_packet_index,
  msg,         \* the packet in bldack: coeff, start, num_packets, payload
  step,        \* "idle", "reduce" (the elimination loop) or "write" (after it)
  delivered    \* history: payloads pushed to the application

server  == <<len, sent>>
matrix  == <<filled, rows, row_len, content, dofs, max_packet_index>>
vars    == <<server, net, matrix, dofs_pushed, msg, step, delivered>>

Rows == 0..(BLOCK_SIZE - 1)
MIN(a, b) == IF a < b THEN a ELSE b
MAX(a, b) == IF a > b THEN a ELSE b

(* The sum of two vectors over GF(2).                                      *)
Xor(A, B) == (A \ B) \cup (B \ A)

NoMsg == [coeff |-> {}, start |-> 0, num_packets |-> 0, payload |-> {}]

(* initCodedBlock; the block at the server is empty.                       *)
Init ==
  /\ len = 0 /\ sent = 0 /\ net = <<>>
  /\ filled = {} /\ dofs = 0 /\ dofs_pushed = 0 /\ max_packet_index = 0
  /\ rows = [r \in Rows |-> {}] /\ row_len = [r \in Rows |-> 0] /\ content = [r \in Rows |-> {}]
  /\ msg = NoMsg /\ step = "idle" /\ delivered = <<>>
-----------------------------------------------------------------------------
(* readBlock adds a source packet to the block.                            *)
readBlock ==
  /\ len < BLOCK_SIZE
  /\ len' = len + 1
  /\ UNCHANGED <<sent, net, matrix, dofs_pushed, msg, step, delivered>>

Send(p) ==
  /\ sent < MaxSent /\ Len(net) < MaxFlight
  /\ sent' = sent + 1
  /\ net' = Append(net, p)
  /\ UNCHANGED <<len, matrix, dofs_pushed, msg, step, delivered>>

(* coding_job: a source packet as it is, or a combination (with any        *)
(* coefficients, not all zero) of all the rows there are.                  *)
SendNormal(row) ==
  Send([coeff |-> {0}, start |-> row, num_packets |-> 1, payload |-> {row}])

SendCoded(coeff) ==
  /\ coeff # {}
  /\ Send([coeff |-> coeff, start |-> 0, num_packets |-> len, payload |-> coeff])

Lose(i) ==
  /\ net' = RemoveAt(net, i)
  /\ UNCHANGED <<server, matrix, dofs_pushed, msg, step, delivered>>
-----------------------------------------------------------------------------
isEmpty(coeff, n) == coeff \cap 0..(n - 1) = {}

(* shift_row: by how much, and what is left in the first n places.         *)
Shift(coeff, n) == IF isEmpty(coeff, n) THEN n
                   ELSE CHOOSE i \in coeff : \A j \in coeff : i <= j
shift_row(coeff, n) == {i - Shift(coeff, n) : i \in {j \in coeff : Shift(coeff, n) <= j /\ j < n}}

(* The packet after its row has been shifted.                              *)
Shifted(p) == [p EXCEPT !.coeff = shift_row(p.coeff, p.num_packets),
                        !.start = @ + Shift(p.coeff, p.num_packets)]

(* unmarshallData and the first part of bldack.                            *)
Receive(i) ==
  /\ step = "idle" /\ net # <<>> /\ (Reorder \/ i = 1)
  /\ net' = RemoveAt(net, i)
  /\ max_packet_index' = MAX(net[i].start + net[i].num_packets, max_packet_index)
  /\ dofs < BLOCK_SIZE
  /\ msg' = Shifted(net[i])
  /\ step' = "reduce"
  /\ UNCHANGED <<server, filled, rows, row_len, content, dofs, dofs_pushed, delivered>>

(* A bug RowsTrue must notice: the payload is not reduced with the row.    *)
PayloadKept(p) == p.payload

(* The payload after the row at p.start is subtracted.                     *)
PayloadReduced(p) == Xor(p.payload, content[p.start])

(* One turn of the elimination loop on a row that is taken: the row at     *)
(* start is subtracted, as far as it is long, and the result shifted; of   *)
(* the sum only the packet's first num_packets places are looked at again. *)
Subtract ==
  LET tail == {i \in rows[msg.start] : 1 <= i /\ i < row_len[msg.start]}
      sum  == Xor(msg.coeff \ {0}, tail) IN
  /\ step = "reduce" /\ ~isEmpty(msg.coeff, msg.num_packets) /\ msg.start \in filled
  /\ msg' = Shifted([msg EXCEPT !.coeff = sum, !.payload = PayloadReduced(msg)])
  /\ UNCHANGED <<server, net, matrix, dofs_pushed, step, delivered>>

(* An innovative packet becomes a row.                                     *)
Insert ==
  LET r == msg.start
      n == MIN(msg.num_packets, BLOCK_SIZE - r) IN
  /\ step = "reduce" /\ ~isEmpty(msg.coeff, msg.num_packets) /\ r \notin filled
  /\ filled' = filled \cup {r}
  /\ rows' = [rows EXCEPT ![r] = msg.coeff \cap 0..(n - 1)]
  /\ row_len' = [row_len EXCEPT ![r] = n]
  /\ content' = [content EXCEPT ![r] = msg.payload]
  /\ dofs' = dofs + 1
  /\ msg' = NoMsg /\ step' = "write"
  /\ UNCHANGED <<server, net, dofs_pushed, max_packet_index, delivered>>

Discard ==
  /\ step = "reduce" /\ isEmpty(msg.coeff, msg.num_packets)
  /\ msg' = NoMsg /\ step' = "write"
  /\ UNCHANGED <<server, net, matrix, dofs_pushed, delivered>>

(* A bug DeliveredTrue must notice: rows subtracted before they are        *)
(* themselves decoded.                                                     *)
UnwrappedUpward ==
  [r \in Rows |->
     IF r \notin dofs_pushed..(max_packet_index - 2) THEN content[r]
     ELSE LET terms == {o \in rows[r] : 1 <= o /\ o < row_len[r]} IN
          {x \in Rows : (Cardinality({o \in terms : x \in content[r + o]})
                          + (IF x \in content[r] THEN 1 ELSE 0)) % 2 = 1}]

(* unwrap: back substitution, from the last row up to the first not pushed.*)
Unwrapped ==
  LET c[r \in Rows] ==
        IF r \notin dofs_pushed..(max_packet_index - 2) THEN content[r]
        ELSE LET terms == {o \in rows[r] : 1 <= o /\ o < row_len[r]} IN
             {x \in Rows : (Cardinality({o \in terms : x \in c[r + o]})
                             + (IF x \in content[r] THEN 1 ELSE 0)) % 2 = 1}
  IN c

(* A bug AllDelivered must notice: unwrap leaves the coefficients it has   *)
(* just eliminated, so the rows still look coded.                          *)
UnwrappedLenKept == row_len

UnwrappedLen ==
  [r \in Rows |-> IF r \in dofs_pushed..(max_packet_index - 2) THEN 1 ELSE row_len[r]]

(* A row is decoded when only its first coefficient is left.               *)
Decoded(r, lens) == r \in filled /\ \A i \in rows[r] : 1 <= i => i >= lens[r]

(* The decoded rows from dofs_pushed on.                                   *)
Ready(lens) == {r \in dofs_pushed..(BLOCK_SIZE - 1) : \A q \in dofs_pushed..r : Decoded(q, lens)}

(* partial_write, while the block is not complete.                         *)
partial_write ==
  LET unwrap == dofs = max_packet_index
      cont   == IF unwrap THEN Unwrapped ELSE content
      lens   == IF unwrap THEN UnwrappedLen ELSE row_len
      n      == Cardinality(Ready(lens)) IN
  /\ step = "write" /\ dofs < BLOCK_SIZE
  /\ content' = cont /\ row_len' = lens
  /\ delivered' = delivered \o [k \in 1..n |-> cont[dofs_pushed + k - 1]]
  /\ dofs_pushed' = dofs_pushed + n
  /\ step' = "idle"
  /\ UNCHANGED <<server, net, filled, rows, dofs, max_packet_index, msg>>

(* unwrap and writeAndFreeBlock, when it is.                               *)
writeAndFreeBlock ==
  /\ step = "write" /\ dofs = BLOCK_SIZE
  /\ content' = Unwrapped /\ row_len' = UnwrappedLen
  /\ delivered' = delivered \o [k \in 1..(BLOCK_SIZE - dofs_pushed) |-> content'[dofs_pushed + k - 1]]
  /\ dofs_pushed' = BLOCK_SIZE
  /\ step' = "idle"
  /\ UNCHANGED <<server, net, filled, rows, dofs, max_packet_index, msg>>

Next ==
  \/ readBlock
  \/ \E row \in 0..(len - 1) : SendNormal(row)
  \/ \E coeff \in SUBSET (0..(len - 1)) : SendCoded(coeff)
  \/ \E i \in DOMAIN net : Lose(i) \/ Receive(i)
  \/ Subtract \/ Insert \/ Discard
  \/ partial_write \/ writeAndFreeBlock

Spec == Init /\ [][Next]_vars
-----------------------------------------------------------------------------
(* The matrix of bldack stays in echelon form: row r begins at place r,    *)
(* with a 1, and dofs counts the rows.                                     *)
TypeOK ==
  /\ len \in 0..BLOCK_SIZE
  /\ filled \subseteq Rows /\ dofs = Cardinality(filled)
  /\ \A r \in filled : 0 \in rows[r] /\ row_len[r] \in 1..(BLOCK_SIZE - r) /\ rows[r] \subseteq 0..(BLOCK_SIZE - r)
  /\ content \in [Rows -> SUBSET Rows]
  /\ max_packet_index \in 0..BLOCK_SIZE
  /\ dofs_pushed \in 0..dofs
  /\ step = "reduce" /\ ~isEmpty(msg.coeff, msg.num_packets) => msg.start \in Rows /\ 0 \in msg.coeff

(* The equation each row stands for is true: its payload is the sum of the *)
(* source rows its coefficients name.                                      *)
RowsTrue ==
  \A r \in filled : content[r] = {r + i : i \in {j \in rows[r] : j < row_len[r]}}

(* What is handed to the application is the source, row after row.         *)
DeliveredTrue == \A k \in DOMAIN delivered : delivered[k] = {k - 1}

(* When the client has as many equations as it knows packets, it has       *)
(* delivered them all: nothing decodable is held back.                     *)
AllDelivered == step = "idle" /\ dofs = max_packet_index => Len(delivered) = dofs
=============================================================================
