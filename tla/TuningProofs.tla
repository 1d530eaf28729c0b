---------------------------- MODULE TuningProofs ----------------------------
(***************************************************************************)
(* Proofs about SupervisedTuning: whatever the input and however the        *)
(* conversations are read, each is in one place, whole, and the rows         *)
(* trained on are made of them.                                            *)
(***************************************************************************)
EXTENDS SupervisedTuning, SeqSumsProofs

Parsed(lines) == {c \in DOMAIN lines : lines[c].length > 0}

\* The cell of a conversation's k-th token.
CellOf(lines, c, k, s) ==
  [token   |-> <<c, k>>,
   mask    |-> IF k \in lines[c].supervised THEN 1 ELSE 0,
   segment |-> s]

\* The first p cells are whole conversations, each in a segment of its own
\* below s.
Packed(lines, cells, p, s) ==
  /\ \A x \in 0..(p - 1) : \E c \in Parsed(lines) : \E f \in 0..x : \E g \in 0..(s - 1) :
       /\ x < f + lines[c].length /\ f + lines[c].length <= p
       /\ \A k \in 1..lines[c].length : cells[f + k - 1] = CellOf(lines, c, k, g)
  /\ \A x, y \in 0..(p - 1) :
       cells[x].segment = cells[y].segment <=> cells[x].token[1] = cells[y].token[1]

\* The conversations that begin in the first p cells, in a row, and in a batch.
Opened(lines, cells, p) ==
  {c \in DOMAIN lines : \E x \in 0..(p - 1) : cells[x].token = <<c, 1>>}

Inside(lines, r) == {c \in DOMAIN lines : \E x \in DOMAIN r.inputs : r.inputs[x] = <<c, 1>>}

Batched(lines, b) == UNION {Inside(lines, b[r]) : r \in DOMAIN b}

\* What the properties say of a row that was written.
RowWhole(lines, r) ==
  \A c \in Inside(lines, r) : \E first \in 0..(SequenceLength - 1) :
    /\ first + lines[c].length <= Capacity
    /\ \A k \in 1..lines[c].length :
         first + k - 1 < SequenceLength => r.inputs[first + k - 1] = <<c, k>>

Owner(r, z) == IF r.inputs[z] = Bos THEN 0 ELSE r.inputs[z][1]

RowSegments(r) ==
  \A x, y \in 0..(SequenceLength - 1) :
    r.segments[x] = r.segments[y] <=> Owner(r, x) = Owner(r, y)

Predicts(lines, token) ==
  \E c \in DOMAIN lines : \E k \in lines[c].supervised : token = <<c, k - 1>>

RowTargets(lines, r) ==
  \A x \in 0..(SequenceLength - 1) :
    IF Predicts(lines, r.inputs[x])
      THEN r.targets[x] = <<r.inputs[x][1], r.inputs[x][2] + 1>>
      ELSE r.targets[x] = Ignore

RowOK(lines, r) == RowWhole(lines, r) /\ RowSegments(r) /\ RowTargets(lines, r)

Counters ==
  /\ input \in Seq(Lines) /\ limit \in Limits
  /\ stage \in {"next", "row", "pack", "train", "ended"}
  /\ done \in BOOLEAN /\ step \in 0..MaxSteps
  /\ row \in 0..BatchSize
  /\ pos \in 0..Capacity /\ segment \in 0..pos

Lists ==
  /\ unread \in Seq(DOMAIN input) /\ IsInjective(unread)
  /\ buffer \in Seq(DOMAIN input) /\ IsInjective(buffer)
  /\ Len(buffer) < BufferSize + ReadSize
  /\ trained \in Seq(DOMAIN input) /\ IsInjective(trained)

Written ==
  /\ stage \in {"next", "ended"} => batch = << >>
  /\ stage \in {"row", "pack", "train"} => DOMAIN batch = 0..(BatchSize - 1)
  /\ stage = "pack" => row < BatchSize
  /\ DOMAIN scratch = 0..SequenceLength
  /\ stage = "pack" => Packed(input, scratch, pos, segment)
  /\ \A r \in DOMAIN batch :
       IF r < row THEN RowOK(input, batch[r]) ELSE batch[r] = Untouched
  /\ \A q, r \in DOMAIN batch :
       q # r => Inside(input, batch[q]) \cap Inside(input, batch[r]) = {}

\* No conversation is in two of the places, and one that parsed is in one.
Apart(lines, u, b, o, r, t) ==
  /\ u \cap (b \cup o \cup r \cup t) = {}
  /\ b \cap (o \cup r \cup t) = {}
  /\ o \cap (r \cup t) = {}
  /\ r \cap t = {}
  /\ b \cup o \cup r \cup t \subseteq Parsed(lines)
  /\ Parsed(lines) \subseteq u \cup b \cup o \cup r \cup t

Open == IF stage = "pack" THEN Opened(input, scratch, pos) ELSE {}

Places ==
  Apart(input, ToSet(unread), ToSet(buffer), Open, Batched(input, batch), ToSet(trained))

TuningInv == Counters /\ Lists /\ Written /\ Places

-----------------------------------------------------------------------------
(* Conversations and rows.                                                 *)

LEMMA SizesAre ==
  /\ SequenceLength \in Nat \ {0} /\ BatchSize \in Nat \ {0}
  /\ BufferSize \in Nat \ {0} /\ ReadSize \in Nat \ {0}
  /\ Capacity = SequenceLength + 1 /\ Capacity \in Nat
  /\ \A token \in Nat \X Nat : token # Bos /\ token # Zero
BY TuningConstants DEF Capacity

LEMMA LinesAre ==
  ASSUME NEW lines \in Seq(Lines)
  PROVE  /\ \A c \in DOMAIN lines : c \in Nat /\ c # 0
         /\ \A c \in DOMAIN lines : /\ lines[c].length \in Nat \ {1}
                                    /\ lines[c].supervised \subseteq 2..lines[c].length
         /\ \A c \in Parsed(lines) : c \in DOMAIN lines /\ lines[c].length \in Nat \ {0, 1}
<1>1. DOMAIN lines = 1..Len(lines) /\ Len(lines) \in Nat
      /\ \A c \in DOMAIN lines : lines[c] \in Lines
  OBVIOUS
<1>2. \A c \in DOMAIN lines : /\ lines[c].length \in Nat \ {1}
                              /\ lines[c].supervised \subseteq 2..lines[c].length
  BY <1>1, TuningConstants
<1> QED BY <1>1, <1>2 DEF Parsed

\* Cell x is the k-th of a conversation that lies in the first p cells.
Lies(lines, cells, p, x, c, k, g) ==
  /\ cells[x] = CellOf(lines, c, k, g)
  /\ x - k + 1 \in 0..x /\ x - k + lines[c].length < p
  /\ \A j \in 1..lines[c].length :
       x - k + j \in 0..(p - 1) /\ cells[x - k + j] = CellOf(lines, c, j, g)

(***************************************************************************)
(* Every cell of a packed row lies in a conversation.                      *)
(***************************************************************************)
LEMMA PackedCell ==
  ASSUME NEW lines \in Seq(Lines), NEW cells, NEW p \in Nat, NEW s \in Nat,
         Packed(lines, cells, p, s), NEW x \in 0..(p - 1)
  PROVE  \E c \in Parsed(lines) : \E k \in 1..lines[c].length : \E g \in 0..(s - 1) :
           Lies(lines, cells, p, x, c, k, g)
<1>1. PICK c \in Parsed(lines), f \in 0..x, g \in 0..(s - 1) :
        /\ x < f + lines[c].length /\ f + lines[c].length <= p
        /\ \A k \in 1..lines[c].length : cells[f + k - 1] = CellOf(lines, c, k, g)
  BY DEF Packed
<1>2. lines[c].length \in Nat
  BY LinesAre
<1> DEFINE k == x - f + 1
<1>3. k \in 1..lines[c].length /\ f + k - 1 = x /\ x - k + 1 = f
  BY <1>1, <1>2
<1>4. ASSUME NEW j \in 1..lines[c].length
      PROVE  x - k + j = f + j - 1 /\ x - k + j \in 0..(p - 1)
  BY <1>1, <1>2
<1>5. x - k + lines[c].length < p
  BY <1>1, <1>2
<1>6. \A j \in 1..lines[c].length :
        x - k + j \in 0..(p - 1) /\ cells[x - k + j] = CellOf(lines, c, j, g)
  BY <1>1, <1>4
<1>7. cells[x] = CellOf(lines, c, k, g) /\ x - k + 1 \in 0..x
  BY <1>1, <1>3
<1> HIDE DEF k
<1>8. Lies(lines, cells, p, x, c, k, g)
  BY <1>5, <1>6, <1>7 DEF Lies
<1> QED BY <1>3, <1>8

LEMMA CellIs ==
  ASSUME NEW lines, NEW c, NEW k, NEW g
  PROVE  LET e == CellOf(lines, c, k, g)
         IN  /\ e.token = <<c, k>> /\ e.token[1] = c /\ e.token[2] = k /\ e.segment = g
             /\ e.mask = 1 <=> k \in lines[c].supervised
BY DEF CellOf

(***************************************************************************)
(* Place puts a whole conversation after the others.                       *)
(***************************************************************************)
LEMMA PlacedIs ==
  ASSUME NEW lines \in Seq(Lines), NEW cells, NEW p \in Nat, NEW s \in Nat,
         Packed(lines, cells, p, s),
         NEW c \in Parsed(lines), c \notin Opened(lines, cells, p),
         NEW placed,
         \A x \in 0..((p + lines[c].length) - 1) :
           placed[x] = IF x < p THEN cells[x] ELSE CellOf(lines, c, x - p + 1, s)
  PROVE  /\ Packed(lines, placed, p + lines[c].length, s + 1)
         /\ Opened(lines, placed, p + lines[c].length) = Opened(lines, cells, p) \cup {c}
<1> DEFINE n == lines[c].length
           q == p + n
           old == Opened(lines, cells, p)
<1>1. n \in Nat \ {0, 1} /\ c \in DOMAIN lines /\ c \in Nat
  BY LinesAre
<1>9. \A x \in 0..(q - 1) :
        placed[x] = IF x < p THEN cells[x] ELSE CellOf(lines, c, x - p + 1, s)
  OBVIOUS
<1> HIDE DEF n
<1>2. /\ \A x \in 0..(p - 1) : x \in 0..(q - 1) /\ placed[x] = cells[x]
      /\ \A x \in 0..(q - 1) : x \in 0..(p - 1) \/ x \in p..(q - 1)
      /\ \A x \in p..(q - 1) : x - p + 1 \in 1..n /\ placed[x] = CellOf(lines, c, x - p + 1, s)
      /\ \A k \in 1..n : p + k - 1 \in p..(q - 1) /\ placed[p + k - 1] = CellOf(lines, c, k, s)
  <2>1. \A x \in 0..(p - 1) : x \in 0..(q - 1) /\ x < p
    BY <1>1
  <2>2. \A x \in 0..(q - 1) : x \in 0..(p - 1) \/ x \in p..(q - 1)
    BY <1>1
  <2>3. \A x \in p..(q - 1) : x \in 0..(q - 1) /\ ~(x < p) /\ x - p + 1 \in 1..n
    BY <1>1
  <2>4. \A k \in 1..n : p + k - 1 \in p..(q - 1) /\ (p + k - 1) - p + 1 = k
    BY <1>1
  <2> HIDE DEF q
  <2>6. \A x \in 0..(p - 1) : placed[x] = cells[x]
    BY <1>9, <2>1
  <2>7. \A x \in p..(q - 1) : placed[x] = CellOf(lines, c, x - p + 1, s)
    BY <1>9, <2>3
  <2>8. \A k \in 1..n : placed[p + k - 1] = CellOf(lines, c, k, s)
    <3> TAKE k \in 1..n
    <3>1. placed[p + k - 1] = CellOf(lines, c, (p + k - 1) - p + 1, s)
      BY <2>4, <2>7
    <3> QED BY <2>4, <3>1
  <2> QED BY <2>1, <2>2, <2>3, <2>4, <2>6, <2>7, <2>8
<1>3. ASSUME NEW x \in 0..(q - 1)
      PROVE  \E d \in Parsed(lines) : \E f \in 0..x : \E g \in 0..((s + 1) - 1) :
               /\ x < f + lines[d].length /\ f + lines[d].length <= q
               /\ \A k \in 1..lines[d].length : placed[f + k - 1] = CellOf(lines, d, k, g)
  <2>1. CASE x \in 0..(p - 1)
    <3>1. PICK d \in Parsed(lines), f \in 0..x, g \in 0..(s - 1) :
            /\ x < f + lines[d].length /\ f + lines[d].length <= p
            /\ \A k \in 1..lines[d].length : cells[f + k - 1] = CellOf(lines, d, k, g)
      BY <2>1 DEF Packed
    <3>2. lines[d].length \in Nat
      BY LinesAre
    <3>3. g \in 0..((s + 1) - 1) /\ f + lines[d].length <= q
      BY <1>1, <3>1, <3>2
    <3>4. ASSUME NEW k \in 1..lines[d].length
          PROVE  placed[f + k - 1] = CellOf(lines, d, k, g)
      <4>1. f + k - 1 \in 0..(p - 1)
        BY <2>1, <3>1, <3>2
      <4> QED BY <1>2, <3>1, <4>1
    <3> QED BY <3>1, <3>3, <3>4
  <2>2. CASE x \in p..(q - 1)
    <3>1. p \in 0..x /\ s \in 0..((s + 1) - 1) /\ x < p + n /\ p + n <= q
      BY <1>1, <2>2
    <3> QED BY <1>2, <3>1 DEF n
  <2> QED BY <1>2, <2>1, <2>2
<1>4. ASSUME NEW x \in 0..(p - 1)
      PROVE  /\ placed[x].segment = cells[x].segment /\ placed[x].token = cells[x].token
             /\ cells[x].segment \in 0..(s - 1) /\ cells[x].token[1] # c
  <2>1. PICK d \in Parsed(lines) : \E k \in 1..lines[d].length : \E g \in 0..(s - 1) :
          Lies(lines, cells, p, x, d, k, g)
    BY PackedCell
  <2>2. 1 \in 1..lines[d].length /\ d \in DOMAIN lines
    BY LinesAre
  <2>3. PICK k \in 1..lines[d].length, g \in 0..(s - 1) : Lies(lines, cells, p, x, d, k, g)
    BY <2>1
  <2>4. x - k + 1 \in 0..(p - 1) /\ cells[x - k + 1].token = <<d, 1>>
    BY <2>2, <2>3, CellIs DEF Lies
  <2>5. d \in old
    BY <2>2, <2>4 DEF Opened
  <2>6. cells[x].token[1] = d /\ cells[x].segment = g
    BY <2>3, CellIs DEF Lies
  <2> QED BY <1>2, <2>5, <2>6
<1>5. \A x \in p..(q - 1) : placed[x].segment = s /\ placed[x].token[1] = c
  BY <1>2, CellIs
<1>6. ASSUME NEW x \in 0..(q - 1), NEW y \in 0..(q - 1)
      PROVE  placed[x].segment = placed[y].segment <=> placed[x].token[1] = placed[y].token[1]
  <2>1. \A g \in 0..(s - 1) : g # s
    OBVIOUS
  <2>2. CASE x \in 0..(p - 1) /\ y \in 0..(p - 1)
    <3>1. cells[x].segment = cells[y].segment <=> cells[x].token[1] = cells[y].token[1]
      BY <2>2 DEF Packed
    <3> QED BY <1>4, <2>2, <3>1
  <2>3. CASE x \in 0..(p - 1) /\ y \in p..(q - 1)
    BY <1>4, <1>5, <2>1, <2>3
  <2>4. CASE x \in p..(q - 1) /\ y \in 0..(p - 1)
    BY <1>4, <1>5, <2>1, <2>4
  <2>5. CASE x \in p..(q - 1) /\ y \in p..(q - 1)
    BY <1>5, <2>5
  <2> QED BY <1>2, <2>2, <2>3, <2>4, <2>5
<1>7. Opened(lines, placed, q) = old \cup {c}
  <2>1. ASSUME NEW d \in DOMAIN lines, NEW x \in 0..(q - 1), placed[x].token = <<d, 1>>
        PROVE  d \in old \cup {c}
    <3>1. CASE x \in 0..(p - 1)
      BY <1>4, <2>1, <3>1 DEF Opened
    <3>2. CASE x \in p..(q - 1)
      BY <1>5, <2>1, <3>2
    <3> QED BY <1>2, <3>1, <3>2
  <2>2. ASSUME NEW d \in DOMAIN lines, NEW x \in 0..(p - 1), cells[x].token = <<d, 1>>
        PROVE  d \in Opened(lines, placed, q)
    BY <1>2, <1>4, <2>2 DEF Opened
  <2>3. c \in Opened(lines, placed, q)
    <3>1. 1 \in 1..n /\ p + 1 - 1 = p
      BY <1>1
    <3>2. p \in 0..(q - 1) /\ placed[p] = CellOf(lines, c, 1, s)
      BY <1>1, <1>2, <3>1
    <3> QED BY <1>1, <3>2, CellIs DEF Opened
  <2> QED BY <2>1, <2>2, <2>3 DEF Opened
<1> HIDE DEF q
<1>8. Packed(lines, placed, q, s + 1)
  BY <1>3, <1>6 DEF Packed
<1> QED BY <1>7, <1>8 DEF q, n

\* What CloseRow makes of the cells: the rest is padding.
PaddedTo(cells, p, s) ==
  [x \in 0..SequenceLength |->
     IF x < p THEN cells[x] ELSE [token |-> Bos, mask |-> 0, segment |-> s]]

(***************************************************************************)
(* A row is closed with the conversations that were opened in it, and what  *)
(* the properties say of it holds.                                         *)
(***************************************************************************)
LEMMA ClosedIs ==
  ASSUME NEW lines \in Seq(Lines), NEW cells, NEW p \in 0..Capacity, NEW s \in Nat,
         Packed(lines, cells, p, s)
  PROVE  LET r == CopiedRow(PaddedTo(cells, p, s))
         IN  RowOK(lines, r) /\ Inside(lines, r) = Opened(lines, cells, p)
<1> DEFINE full == PaddedTo(cells, p, s)
           r == CopiedRow(full)
           places == 0..(SequenceLength - 1)
<1>1. /\ SequenceLength \in Nat \ {0} /\ Capacity = SequenceLength + 1 /\ p \in Nat
      /\ p <= SequenceLength + 1 /\ \A token \in Nat \X Nat : token # Bos
  BY SizesAre
<1>2. /\ \A x \in places : x \in 0..SequenceLength /\ x + 1 \in 0..SequenceLength
      /\ \A x \in 0..(p - 1) : x \in 0..SequenceLength /\ x < p
      /\ \A x \in 0..SequenceLength : x < p => x \in 0..(p - 1)
  BY <1>1
<1>3. /\ \A x \in 0..(p - 1) : full[x] = cells[x]
      /\ \A x \in 0..SequenceLength : ~(x < p) =>
           full[x].token = Bos /\ full[x].mask = 0 /\ full[x].segment = s
  BY <1>2 DEF PaddedTo
<1> HIDE DEF full
<1>4. /\ DOMAIN r.inputs = places
      /\ \A x \in places :
           /\ r.inputs[x] = full[x].token /\ r.segments[x] = full[x].segment
           /\ r.targets[x] = IF full[x + 1].mask = 1 THEN full[x + 1].token ELSE Ignore
  BY DEF CopiedRow
<1> HIDE DEF r
<1>5. ASSUME NEW x \in 0..(p - 1)
      PROVE  \E c \in Parsed(lines) : \E k \in 1..lines[c].length : \E g \in 0..(s - 1) :
               Lies(lines, cells, p, x, c, k, g)
  BY <1>1, PackedCell
<1>6. \A c \in DOMAIN lines : c \in Nat /\ c # 0 /\ lines[c].supervised \subseteq 2..lines[c].length
  BY LinesAre
<1>7. \A c \in Parsed(lines) : c \in DOMAIN lines /\ lines[c].length \in Nat \ {0, 1}
  BY LinesAre
<1>8. ASSUME NEW x \in places, NEW c \in DOMAIN lines, NEW k \in Nat, r.inputs[x] = <<c, k>>
      PROVE  x \in 0..(p - 1) /\ cells[x].token = <<c, k>>
  <2>1. <<c, k>> \in Nat \X Nat
    BY <1>6
  <2>2. x < p
    <3>1. full[x].token = <<c, k>> /\ <<c, k>> # Bos
      BY <1>1, <1>4, <1>8, <2>1
    <3>2. x \in 0..SequenceLength
      BY <1>2
    <3> QED BY <1>3, <3>1, <3>2
  <2> QED BY <1>2, <1>3, <1>4, <1>8, <2>2
<1>9. ASSUME NEW x \in 0..(p - 1), NEW c \in DOMAIN lines, NEW k \in Nat,
             cells[x].token = <<c, k>>
      PROVE  \E g \in 0..(s - 1) : Lies(lines, cells, p, x, c, k, g)
                                   /\ c \in Parsed(lines) /\ k \in 1..lines[c].length
  <2>1. PICK d \in Parsed(lines) : \E j \in 1..lines[d].length : \E g \in 0..(s - 1) :
          Lies(lines, cells, p, x, d, j, g)
    BY <1>5
  <2>2. PICK j \in 1..lines[d].length, g \in 0..(s - 1) : Lies(lines, cells, p, x, d, j, g)
    BY <2>1
  <2>3. cells[x].token = <<d, j>>
    BY <2>2, CellIs DEF Lies
  <2>4. c = d /\ k = j
    BY <1>9, <2>3
  <2> QED BY <2>2, <2>4
<1>10. Inside(lines, r) = Opened(lines, cells, p)
  <2>1. ASSUME NEW c \in DOMAIN lines, NEW x \in places, r.inputs[x] = <<c, 1>>
        PROVE  c \in Opened(lines, cells, p)
    BY <1>8, <2>1 DEF Opened
  <2>2. ASSUME NEW c \in DOMAIN lines, NEW x \in 0..(p - 1), cells[x].token = <<c, 1>>
        PROVE  c \in Inside(lines, r)
    <3>1. PICK g \in 0..(s - 1) : /\ Lies(lines, cells, p, x, c, 1, g)
                                  /\ c \in Parsed(lines) /\ 1 \in 1..lines[c].length
      BY <1>9, <2>2
    <3>2. x - 1 + lines[c].length < p /\ lines[c].length \in Nat \ {0, 1}
      BY <1>7, <3>1 DEF Lies
    <3>3. x \in places
      BY <1>1, <3>2
    <3> QED BY <1>2, <1>3, <1>4, <2>2, <3>3 DEF Inside
  <2> QED BY <1>4, <2>1, <2>2 DEF Inside, Opened
<1>11. RowWhole(lines, r)
  <2> SUFFICES ASSUME NEW c \in DOMAIN lines, NEW x \in places, r.inputs[x] = <<c, 1>>
               PROVE  \E first \in 0..(SequenceLength - 1) :
                        /\ first + lines[c].length <= Capacity
                        /\ \A k \in 1..lines[c].length : first + k - 1 < SequenceLength =>
                             r.inputs[first + k - 1] = <<c, k>>
    BY <1>4 DEF RowWhole, Inside
  <2>1. x \in 0..(p - 1) /\ cells[x].token = <<c, 1>>
    BY <1>8
  <2>2. PICK g \in 0..(s - 1) : /\ Lies(lines, cells, p, x, c, 1, g)
                                /\ c \in Parsed(lines) /\ 1 \in 1..lines[c].length
    BY <1>9, <2>1
  <2>3. lines[c].length \in Nat
    BY <1>7, <2>2
  <2>4. x + lines[c].length <= Capacity
    BY <1>1, <2>2, <2>3 DEF Lies
  <2>5. ASSUME NEW k \in 1..lines[c].length, x + k - 1 < SequenceLength
        PROVE  r.inputs[x + k - 1] = <<c, k>>
    <3>1. x - 1 + k \in 0..(p - 1) /\ cells[x - 1 + k].token = <<c, k>>
      BY <2>2, CellIs DEF Lies
    <3>2. x + k - 1 \in places /\ x + k - 1 = x - 1 + k
      <4>1. x \in Nat /\ k \in Nat /\ k >= 1
        BY <2>3
      <4> QED BY <1>1, <2>5, <4>1
    <3> QED BY <1>3, <1>4, <3>1, <3>2
  <2> QED BY <2>4, <2>5
<1>12. RowSegments(r)
  <2>1. ASSUME NEW x \in places, x < p
        PROVE  /\ Owner(r, x) = cells[x].token[1] /\ Owner(r, x) # 0
               /\ r.segments[x] = cells[x].segment /\ r.segments[x] \in 0..(s - 1)
    <3>0. x \in 0..(p - 1)
      BY <1>2, <2>1
    <3>1. PICK d \in Parsed(lines) : \E j \in 1..lines[d].length : \E g \in 0..(s - 1) :
            Lies(lines, cells, p, x, d, j, g)
      BY <1>5, <3>0
    <3>2. PICK j \in 1..lines[d].length, g \in 0..(s - 1) : Lies(lines, cells, p, x, d, j, g)
      BY <3>1
    <3>3. cells[x].token = <<d, j>> /\ cells[x].token[1] = d /\ cells[x].segment = g
      BY <3>2, CellIs DEF Lies
    <3>4. d \in Nat /\ d # 0 /\ j \in Nat
      BY <1>6, <1>7, <3>2
    <3>5. r.inputs[x] = <<d, j>> /\ r.segments[x] = g
      BY <1>3, <1>4, <3>0, <3>3
    <3>6. r.inputs[x] # Bos
      BY <1>1, <3>4, <3>5
    <3> QED BY <3>3, <3>4, <3>5, <3>6 DEF Owner
  <2>2. ASSUME NEW x \in places, ~(x < p)
        PROVE  Owner(r, x) = 0 /\ r.segments[x] = s
    BY <1>2, <1>3, <1>4, <2>2 DEF Owner
  <2> SUFFICES ASSUME NEW x \in places, NEW y \in places
               PROVE  r.segments[x] = r.segments[y] <=> Owner(r, x) = Owner(r, y)
    BY DEF RowSegments
  <2>3. \A g \in 0..(s - 1) : g # s
    OBVIOUS
  <2>4. CASE x < p /\ y < p
    <3>1. cells[x].segment = cells[y].segment <=> cells[x].token[1] = cells[y].token[1]
      BY <1>2, <2>4 DEF Packed
    <3> QED BY <2>1, <2>4, <3>1
  <2>5. CASE x < p /\ ~(y < p)
    BY <2>1, <2>2, <2>3, <2>5
  <2>6. CASE ~(x < p) /\ y < p
    BY <2>1, <2>2, <2>3, <2>6
  <2>7. CASE ~(x < p) /\ ~(y < p)
    BY <2>2, <2>7
  <2> QED BY <2>4, <2>5, <2>6, <2>7
<1>13. RowTargets(lines, r)
  <2> SUFFICES ASSUME NEW x \in places
               PROVE  IF Predicts(lines, r.inputs[x])
                        THEN r.targets[x] = <<r.inputs[x][1], r.inputs[x][2] + 1>>
                        ELSE r.targets[x] = Ignore
    BY DEF RowTargets
  <2>1. ASSUME NEW c \in DOMAIN lines, NEW k \in lines[c].supervised, r.inputs[x] = <<c, k - 1>>
        PROVE  r.targets[x] = <<r.inputs[x][1], r.inputs[x][2] + 1>>
    <3>1. k \in 2..lines[c].length /\ lines[c].length \in Nat /\ k - 1 \in Nat
      <4>1. k \in 2..lines[c].length
        BY <1>6
      <4> QED BY <4>1, LinesAre
    <3>2. x \in 0..(p - 1) /\ cells[x].token = <<c, k - 1>>
      BY <1>8, <2>1, <3>1
    <3>3. PICK g \in 0..(s - 1) : Lies(lines, cells, p, x, c, k - 1, g)
      BY <1>9, <3>1, <3>2
    <3>4. x - (k - 1) + k = x + 1 /\ k \in 1..lines[c].length
      BY <3>1
    <3>5. x + 1 \in 0..(p - 1) /\ cells[x + 1] = CellOf(lines, c, k, g)
      BY <3>3, <3>4 DEF Lies
    <3>6. full[x + 1].mask = 1 /\ full[x + 1].token = <<c, k>>
      BY <1>3, <3>5, CellIs
    <3>7. r.targets[x] = <<c, k>> /\ (k - 1) + 1 = k
      BY <1>4, <3>1, <3>6
    <3> QED BY <2>1, <3>7
  <2>2. ASSUME ~Predicts(lines, r.inputs[x])
        PROVE  r.targets[x] = Ignore
    <3> SUFFICES ASSUME full[x + 1].mask = 1
                 PROVE  FALSE
      BY <1>4
    <3>1. x + 1 \in 0..(p - 1) /\ cells[x + 1].mask = 1
      <4>1. x + 1 < p
        BY <1>2, <1>3
      <4> QED BY <1>2, <1>3, <4>1
    <3>2. PICK d \in Parsed(lines) : \E j \in 1..lines[d].length : \E g \in 0..(s - 1) :
            Lies(lines, cells, p, x + 1, d, j, g)
      BY <1>5, <3>1
    <3>3. PICK j \in 1..lines[d].length, g \in 0..(s - 1) : Lies(lines, cells, p, x + 1, d, j, g)
      BY <3>2
    <3>4. j \in lines[d].supervised
      BY <3>1, <3>3, CellIs DEF Lies
    <3>5. j \in 2..lines[d].length /\ lines[d].length \in Nat /\ d \in DOMAIN lines
      BY <1>6, <1>7, <3>4
    <3>6. j - 1 \in 1..lines[d].length /\ (x + 1) - j + (j - 1) = x
      <4>1. x \in Int /\ j \in Int /\ j - 1 \in 1..lines[d].length
        BY <3>5
      <4> QED BY <4>1
    <3>7. x \in 0..(p - 1) /\ cells[x].token = <<d, j - 1>>
      BY <3>3, <3>6, CellIs DEF Lies
    <3>8. r.inputs[x] = <<d, j - 1>>
      BY <1>3, <1>4, <3>7
    <3> QED BY <2>2, <3>4, <3>5, <3>8 DEF Predicts
  <2> QED BY <2>1, <2>2 DEF Predicts
<1> QED BY <1>10, <1>11, <1>12, <1>13 DEF RowOK, r, full

\* A row that was not written holds no conversation.
LEMMA UntouchedIs ==
  ASSUME NEW lines \in Seq(Lines)
  PROVE  Inside(lines, Untouched) = {}
<1>1. \A x \in DOMAIN Untouched.inputs : Untouched.inputs[x] = Zero
  BY DEF Untouched
<1>2. \A c \in DOMAIN lines : <<c, 1>> \in Nat \X Nat
  BY LinesAre
<1>3. \A c \in DOMAIN lines : <<c, 1>> # Zero
  BY <1>2, SizesAre
<1> QED BY <1>1, <1>3 DEF Inside

-----------------------------------------------------------------------------
(* The provider.                                                           *)

(***************************************************************************)
(* A refill moves conversations from the input to the buffer, and drops    *)
(* nothing but the lines that hold none.                                   *)
(***************************************************************************)
LEMMA RefillIs ==
  ASSUME Counters, Lists, Refill, ToSet(unread) \cap ToSet(buffer) = {}
  PROVE  /\ unread' \in Seq(DOMAIN input) /\ IsInjective(unread')
         /\ buffer' \in Seq(DOMAIN input) /\ IsInjective(buffer')
         /\ Len(buffer') < BufferSize + ReadSize
         /\ done' \in BOOLEAN
         /\ ToSet(unread') \cap ToSet(buffer') = {}
         /\ ToSet(buffer) \subseteq ToSet(buffer')
         /\ ToSet(unread') \cup ToSet(buffer') =
              (ToSet(unread) \cap Parsed(input)) \cup ToSet(buffer)
<1> DEFINE good == Parsable(unread)
           n == Len(good)
           calls == (Missing + ReadSize - 1) \div ReadSize
           read == IF Missing > 0 THEN Smaller(calls * ReadSize, n) ELSE 0
           first == SubSeq(good, 1, read)
           rest == SubSeq(good, read + 1, n)
           D == DOMAIN input
<1>1. /\ unread \in Seq(D) /\ buffer \in Seq(D) /\ IsInjective(unread) /\ IsInjective(buffer)
      /\ Len(buffer) < BufferSize + ReadSize
  BY DEF Lists
<1>2. BufferSize \in Nat \ {0} /\ ReadSize \in Nat \ {0}
  BY SizesAre
<1>3. /\ buffer' = buffer \o first /\ unread' = rest /\ done' = (done \/ n < Missing)
  BY DEF Refill
<1>4. good = Only(unread, Parsed(input))
  BY DEF Parsable, Parsed, Length
<1>5. /\ good \in Seq(D) /\ n \in Nat /\ IsInjective(good)
      /\ ToSet(good) = ToSet(unread) \cap Parsed(input)
  <2>1. good \in Seq(D)
    BY <1>1, <1>4, OnlyType
  <2> DEFINE only == Only(unread, Parsed(input))
  <2>7. /\ \A i \in 1..Len(only) : only[i] \in Parsed(input) /\
                \E j \in 1..Len(unread) : unread[j] = only[i]
        /\ \A j \in 1..Len(unread) : unread[j] \in Parsed(input) =>
                \E i \in 1..Len(only) : only[i] = unread[j]
        /\ (\A i, j \in 1..Len(unread) : unread[i] = unread[j] => i = j) =>
             \A i, j \in 1..Len(only) : only[i] = only[j] => i = j
    BY <1>1, OnlyElements
  <2> HIDE DEF only
  <2>2. /\ \A i \in 1..Len(good) : good[i] \in Parsed(input) /\
                \E j \in 1..Len(unread) : unread[j] = good[i]
        /\ \A j \in 1..Len(unread) : unread[j] \in Parsed(input) =>
                \E i \in 1..Len(good) : good[i] = unread[j]
        /\ (\A i, j \in 1..Len(unread) : unread[i] = unread[j] => i = j) =>
             \A i, j \in 1..Len(good) : good[i] = good[j] => i = j
    BY <1>4, <2>7 DEF only
  <2>3. DOMAIN unread = 1..Len(unread)
    BY <1>1
  <2> HIDE DEF good
  <2>4. DOMAIN good = 1..Len(good) /\ Len(good) \in Nat
    BY <2>1
  <2>5. IsInjective(good)
    BY <1>1, <2>2, <2>3, <2>4 DEF IsInjective
  <2>6. ToSet(good) = ToSet(unread) \cap Parsed(input)
    <3>1. /\ \A x : x \in ToSet(good) <=> \E i \in 1..Len(good) : good[i] = x
          /\ \A x : x \in ToSet(unread) <=> \E j \in 1..Len(unread) : unread[j] = x
      BY <2>3, <2>4 DEF ToSet
    <3>2. \A x \in ToSet(good) : x \in ToSet(unread) \cap Parsed(input)
      BY <2>2, <3>1
    <3>3. \A x \in ToSet(unread) \cap Parsed(input) : x \in ToSet(good)
      BY <2>2, <3>1
    <3> QED BY <3>2, <3>3
  <2> QED BY <2>1, <2>4, <2>5, <2>6
<1> HIDE DEF good
<1>6. read \in 0..n /\ (Missing > 0 => read < Missing + ReadSize)
  <2>1. Missing \in Int
    BY <1>1, <1>2 DEF Missing
  <2>2. ASSUME Missing > 0
        PROVE  calls \in Nat /\ calls * ReadSize \in Nat /\ calls * ReadSize < Missing + ReadSize
    <3>1. ASSUME NEW m \in Nat \ {0}, NEW k \in Nat \ {0}
          PROVE  /\ (m + k - 1) \div k \in Nat
                 /\ ((m + k - 1) \div k) * k \in Nat /\ ((m + k - 1) \div k) * k < m + k
      OBVIOUS
    <3>2. Missing \in Nat \ {0}
      BY <2>1, <2>2
    <3> QED BY <1>2, <3>1, <3>2
  <2> HIDE DEF calls
  <2>3. CASE Missing > 0
    <3>1. \A a \in Nat : Smaller(a, n) \in 0..n /\ Smaller(a, n) <= a
      BY <1>5 DEF Smaller
    <3> DEFINE a == calls * ReadSize
    <3>2. a \in Nat /\ a < Missing + ReadSize
      BY <2>2, <2>3
    <3>3. read = Smaller(a, n)
      BY <2>3
    <3> HIDE DEF a
    <3>4. Smaller(a, n) \in 0..n /\ Smaller(a, n) <= a
      BY <3>1, <3>2
    <3> QED BY <1>2, <1>5, <2>1, <3>2, <3>3, <3>4
  <2>4. CASE ~(Missing > 0)
    BY <1>5, <2>4
  <2> QED BY <2>3, <2>4
<1> HIDE DEF read
<1>7. /\ first \in Seq(D) /\ rest \in Seq(D) /\ Len(first) = read /\ good = first \o rest
  <2>1. \A i \in 1..n : good[i] \in D
    BY <1>5
  <2>2. first \in Seq(D) /\ Len(first) = read
    <3>1. \A i \in 1..read : good[i] \in D
      BY <1>5, <1>6, <2>1
    <3> QED BY <1>6, <3>1, SubSeqProperties
  <2>3. rest \in Seq(D)
    <3>1. \A i \in (read + 1)..n : good[i] \in D
      BY <1>5, <1>6, <2>1
    <3> QED BY <1>5, <1>6, <3>1, SubSeqProperties
  <2>4. good = first \o rest
    <3>1. /\ 1 \in 1..(n + 1) /\ read \in (1 - 1)..n /\ n \in read..n
      BY <1>5, <1>6
    <3>2. SubSeq(good, 1, read) \o SubSeq(good, read + 1, n) = SubSeq(good, 1, n)
      BY <1>5, <3>1, ConcatAdjacentSubSeq
    <3> QED BY <1>5, <3>2, SubSeqFull
  <2> QED BY <2>2, <2>3, <2>4
<1> HIDE DEF first, rest, n
<1>8. /\ ToSet(good) = ToSet(first) \cup ToSet(rest)
      /\ IsInjective(first) /\ IsInjective(rest) /\ ToSet(first) \cap ToSet(rest) = {}
  BY <1>5, <1>7, ConcatHolds
<1>9. ToSet(buffer) \cap ToSet(first) = {}
  BY <1>5, <1>8
<1>10. /\ buffer \o first \in Seq(D) /\ Len(buffer \o first) = Len(buffer) + read
       /\ ToSet(buffer \o first) = ToSet(buffer) \cup ToSet(first)
       /\ IsInjective(buffer \o first)
  <2>1. buffer \o first \in Seq(D) /\ Len(buffer \o first) = Len(buffer) + Len(first)
    BY <1>1, <1>7, ConcatProperties
  <2>2. ToSet(buffer \o first) = ToSet(buffer) \cup ToSet(first)
    BY <1>1, <1>7, ConcatHolds
  <2>3. IsInjective(buffer \o first)
    BY <1>1, <1>7, <1>8, <1>9, ConcatHolds
  <2> QED BY <1>7, <2>1, <2>2, <2>3
<1>11. Len(buffer') < BufferSize + ReadSize
  <2>1. Len(buffer) \in Nat
    BY <1>1
  <2>2. Len(buffer) + read < BufferSize + ReadSize
    <3>1. CASE Missing > 0
      BY <1>2, <1>6, <2>1, <3>1 DEF Missing
    <3>2. CASE ~(Missing > 0)
      BY <1>1, <2>1, <3>2 DEF read
    <3> QED BY <3>1, <3>2
  <2> QED BY <1>3, <1>10, <2>2
<1>12. done' \in BOOLEAN
  BY <1>3 DEF Counters
<1>13. ToSet(rest) \cap (ToSet(buffer) \cup ToSet(first)) = {}
  BY <1>5, <1>8
<1> QED BY <1>3, <1>5, <1>7, <1>8, <1>10, <1>11, <1>12, <1>13

-----------------------------------------------------------------------------
(* Where the conversations are.                                            *)

LEMMA ApartRefilled ==
  ASSUME NEW lines, NEW u, NEW b, NEW o, NEW r, NEW t, Apart(lines, u, b, o, r, t),
         NEW unread2, NEW buffer2,
         unread2 \cap buffer2 = {}, b \subseteq buffer2,
         unread2 \cup buffer2 = (u \cap Parsed(lines)) \cup b
  PROVE  Apart(lines, unread2, buffer2, o, r, t)
<1>1. \A c \in unread2 \cup buffer2 : (c \in u /\ c \in Parsed(lines)) \/ c \in b
  OBVIOUS
<1>2. \A c \in b : c \in Parsed(lines)
  BY DEF Apart
<1>3. buffer2 \subseteq Parsed(lines)
  BY <1>1, <1>2
<1>4. unread2 \cap (buffer2 \cup o \cup r \cup t) = {} /\ buffer2 \cap (o \cup r \cup t) = {}
  BY <1>1 DEF Apart
<1>5. Parsed(lines) \subseteq unread2 \cup buffer2 \cup o \cup r \cup t
  BY DEF Apart
<1> QED BY <1>3, <1>4, <1>5 DEF Apart

\* The parts of the invariant that are about one action's variables.
LEMMA NothingWritten ==
  ASSUME Written
  PROVE  /\ stage \in {"next", "ended"} => Batched(input, batch) = {}
         /\ Trained(batch) = Batched(input, batch)
<1>1. stage \in {"next", "ended"} => DOMAIN batch = {}
  BY DEF Written
<1> QED BY <1>1 DEF Batched, Trained, Inside, ConversationsIn

LEMMA StartBatchKeeps ==
  ASSUME TuningInv, StartBatch
  PROVE  TuningInv'
<1>1. /\ UNCHANGED <<input, limit, unread, buffer, done, scratch, pos, segment, step, rate, trained>>
      /\ stage = "next" /\ stage' = "row" /\ row' = 0
      /\ batch' = [r \in 0..(BatchSize - 1) |-> Untouched]
  BY DEF StartBatch, loader, training
<1>2. BatchSize \in Nat \ {0} /\ input \in Seq(Lines)
  BY SizesAre DEF TuningInv, Counters
<1>3. DOMAIN batch' = 0..(BatchSize - 1) /\ \A r \in DOMAIN batch' : ~(r < 0) /\ batch'[r] = Untouched
  BY <1>1, <1>2
<1>4. \A r \in DOMAIN batch' : Inside(input, batch'[r]) = {}
  BY <1>2, <1>3, UntouchedIs
<1>5. Counters' /\ Lists'
  BY <1>1, <1>2 DEF TuningInv, Counters, Lists
<1>6. Written'
  BY <1>1, <1>3, <1>4 DEF TuningInv, Written
<1>7. Places'
  <2>1. Batched(input, batch') = {}
    BY <1>4 DEF Batched
  <2>2. Batched(input, batch) = {}
    BY <1>1, NothingWritten DEF TuningInv
  <2>3. Open = {} /\ Open' = {}
    BY <1>1 DEF Open
  <2>4. Apart(input, ToSet(unread), ToSet(buffer), {}, {}, ToSet(trained))
    BY <2>2, <2>3 DEF TuningInv, Places
  <2> QED BY <1>1, <2>1, <2>3, <2>4 DEF Places
<1> QED BY <1>5, <1>6, <1>7 DEF TuningInv

(***************************************************************************)
(* The loader keeps its lists when it refills.                             *)
(***************************************************************************)
LEMMA RefillKeeps ==
  ASSUME TuningInv, Refill, UNCHANGED <<input, trained>>
  PROVE  /\ Lists' /\ done' \in BOOLEAN
         /\ \A o, r : Apart(input, ToSet(unread), ToSet(buffer), o, r, ToSet(trained)) =>
                      Apart(input, ToSet(unread'), ToSet(buffer'), o, r, ToSet(trained))
<1>1. ToSet(unread) \cap ToSet(buffer) = {}
  BY DEF TuningInv, Places, Apart
<1>2. /\ unread' \in Seq(DOMAIN input) /\ IsInjective(unread')
      /\ buffer' \in Seq(DOMAIN input) /\ IsInjective(buffer')
      /\ Len(buffer') < BufferSize + ReadSize
      /\ done' \in BOOLEAN
      /\ ToSet(unread') \cap ToSet(buffer') = {}
      /\ ToSet(buffer) \subseteq ToSet(buffer')
      /\ ToSet(unread') \cup ToSet(buffer') =
           (ToSet(unread) \cap Parsed(input)) \cup ToSet(buffer)
  BY <1>1, RefillIs DEF TuningInv
<1>3. Lists'
  BY <1>2 DEF TuningInv, Lists
<1>4. ASSUME NEW o, NEW r, Apart(input, ToSet(unread), ToSet(buffer), o, r, ToSet(trained))
      PROVE  Apart(input, ToSet(unread'), ToSet(buffer'), o, r, ToSet(trained))
  BY <1>2, <1>4, ApartRefilled
<1> QED BY <1>2, <1>3, <1>4

LEMMA StartRowKeeps ==
  ASSUME TuningInv, StartRow
  PROVE  TuningInv'
<1>1. /\ UNCHANGED <<input, limit, scratch, batch, row, step, rate, trained>>
      /\ stage = "row" /\ stage' = "pack" /\ row < BatchSize /\ pos' = 0 /\ segment' = 0
      /\ Refill
  BY DEF StartRow, training
<1>2. /\ Lists' /\ done' \in BOOLEAN
      /\ \A o, r : Apart(input, ToSet(unread), ToSet(buffer), o, r, ToSet(trained)) =>
                   Apart(input, ToSet(unread'), ToSet(buffer'), o, r, ToSet(trained))
  BY <1>1, RefillKeeps
<1>3. 0 \in 0..Capacity /\ 0 \in 0..0 /\ \A x \in 0..(0 - 1) : FALSE
  BY SizesAre
<1>4. Counters'
  BY <1>1, <1>2, <1>3 DEF TuningInv, Counters
<1>5. Packed(input, scratch, 0, 0) /\ Opened(input, scratch, 0) = {}
  BY <1>3 DEF Packed, Opened
<1>6. Written'
  BY <1>1, <1>5 DEF TuningInv, Written
<1>7. Places'
  <2>1. Open = {} /\ Open' = {}
    BY <1>1, <1>5 DEF Open
  <2> QED BY <1>1, <1>2, <2>1 DEF TuningInv, Places
<1> QED BY <1>2, <1>4, <1>6, <1>7 DEF TuningInv

LEMMA RunDryKeeps ==
  ASSUME TuningInv, RunDry
  PROVE  TuningInv'
<1>1. /\ UNCHANGED <<input, limit, scratch, batch, row, pos, segment, step, rate, trained>>
      /\ stage = "row" /\ stage' = "train" /\ Refill
  BY DEF RunDry, training, packing
<1>2. /\ Lists' /\ done' \in BOOLEAN
      /\ \A o, r : Apart(input, ToSet(unread), ToSet(buffer), o, r, ToSet(trained)) =>
                   Apart(input, ToSet(unread'), ToSet(buffer'), o, r, ToSet(trained))
  BY <1>1, RefillKeeps
<1>3. Counters'
  BY <1>1, <1>2 DEF TuningInv, Counters
<1>4. Written'
  BY <1>1 DEF TuningInv, Written
<1>5. Places'
  <2>1. Open = {} /\ Open' = {}
    BY <1>1 DEF Open
  <2> QED BY <1>1, <1>2, <2>1 DEF TuningInv, Places
<1> QED BY <1>2, <1>3, <1>4, <1>5 DEF TuningInv

LEMMA RefillRowKeeps ==
  ASSUME TuningInv, RefillRow
  PROVE  TuningInv'
<1>1. /\ UNCHANGED <<input, limit, scratch, batch, row, pos, segment, step, rate, trained, stage>>
      /\ stage = "pack" /\ Refill
  BY DEF RefillRow, training, packing
<1>2. /\ Lists' /\ done' \in BOOLEAN
      /\ \A o, r : Apart(input, ToSet(unread), ToSet(buffer), o, r, ToSet(trained)) =>
                   Apart(input, ToSet(unread'), ToSet(buffer'), o, r, ToSet(trained))
  BY <1>1, RefillKeeps
<1>3. Counters'
  BY <1>1, <1>2 DEF TuningInv, Counters
<1>4. Written'
  BY <1>1 DEF TuningInv, Written
<1>5. Places'
  <2>1. Open' = Open
    BY <1>1 DEF Open
  <2> QED BY <1>1, <1>2, <2>1 DEF TuningInv, Places
<1> QED BY <1>2, <1>3, <1>4, <1>5 DEF TuningInv

LEMMA StagesKeep ==
  ASSUME TuningInv, BatchComplete \/ End
  PROVE  TuningInv'
<1>1. /\ UNCHANGED <<input, limit, unread, buffer, done, scratch, batch, row, pos, segment, step, rate, trained>>
      /\ stage # "pack" /\ stage' # "pack"
      /\ \/ stage = "row" /\ stage' = "train"
         \/ stage = "next" /\ stage' = "ended"
  BY DEF BatchComplete, End, training, packing, loader
<1>2. Counters' /\ Lists'
  BY <1>1 DEF TuningInv, Counters, Lists
<1>3. Written'
  BY <1>1 DEF TuningInv, Written
<1>4. Places'
  <2>1. Open = {} /\ Open' = {}
    BY <1>1 DEF Open
  <2> QED BY <1>1, <2>1 DEF TuningInv, Places
<1> QED BY <1>2, <1>3, <1>4 DEF TuningInv

(***************************************************************************)
(* The packer takes one that fits.                                         *)
(***************************************************************************)
LEMMA BestFitIs ==
  ASSUME Counters, Lists, ToSet(buffer) \subseteq Parsed(input), Fitting # {}
  PROVE  /\ BestFit \in 1..Len(buffer) /\ BestFit \in Fitting
         /\ buffer[BestFit] \in Parsed(input)
         /\ pos + Length(buffer[BestFit]) <= Capacity
<1>1. buffer \in Seq(DOMAIN input) /\ DOMAIN buffer = 1..Len(buffer) /\ Len(buffer) \in Nat
  BY DEF Lists
<1>2. pos \in Nat /\ Capacity \in Nat /\ input \in Seq(Lines)
  BY SizesAre DEF Counters
<1>3. \A i \in 1..Len(buffer) : buffer[i] \in Parsed(input) /\ Length(buffer[i]) \in Nat
  <2> TAKE i \in 1..Len(buffer)
  <2>1. buffer[i] \in Parsed(input)
    BY <1>1 DEF ToSet
  <2> QED BY <1>2, <2>1, LinesAre DEF Length
<1>4. Fitting \in SUBSET Nat /\ \A i \in Fitting :
        i \in 1..Len(buffer) /\ Length(buffer[i]) <= Capacity - pos
  BY <1>1 DEF Fitting
<1> DEFINE spare == [i \in Fitting |-> Capacity - pos - Length(buffer[i])]
<1>5. spare \in [Fitting -> Nat]
  <2> SUFFICES ASSUME NEW i \in Fitting
               PROVE  Capacity - pos - Length(buffer[i]) \in Nat
    OBVIOUS
  <2> QED BY <1>2, <1>3, <1>4
<1>6. \E i \in Fitting : \A j \in Fitting :
        spare[i] < spare[j] \/ (spare[i] = spare[j] /\ i <= j)
  <2> HIDE DEF spare
  <2> QED BY <1>4, <1>5, FirstLeast
<1>7. \E i \in Fitting : \A j \in Fitting :
        \/ Length(buffer[j]) < Length(buffer[i])
        \/ Length(buffer[j]) = Length(buffer[i]) /\ i <= j
  <2>1. PICK i \in Fitting : \A j \in Fitting :
          spare[i] < spare[j] \/ (spare[i] = spare[j] /\ i <= j)
    BY <1>6
  <2>2. ASSUME NEW j \in Fitting
        PROVE  \/ Length(buffer[j]) < Length(buffer[i])
               \/ Length(buffer[j]) = Length(buffer[i]) /\ i <= j
    <3>1. /\ spare[i] = Capacity - pos - Length(buffer[i])
          /\ spare[j] = Capacity - pos - Length(buffer[j])
      OBVIOUS
    <3>2. Length(buffer[i]) \in Nat /\ Length(buffer[j]) \in Nat
      BY <1>3, <1>4
    <3>3. spare[i] < spare[j] \/ (spare[i] = spare[j] /\ i <= j)
      BY <2>1
    <3> HIDE DEF spare
    <3> QED BY <1>2, <3>1, <3>2, <3>3
  <2> QED BY <2>2
<1>8. BestFit \in Fitting
  BY <1>7 DEF BestFit
<1> QED BY <1>2, <1>3, <1>4, <1>8

LEMMA RemoveAtShortens ==
  ASSUME NEW T, NEW s \in Seq(T), NEW i \in 1..Len(s)
  PROVE  Len(RemoveAt(s, i)) < Len(s)
<1> DEFINE a == SubSeq(s, 1, i - 1)
           b == SubSeq(s, i + 1, Len(s))
<1>1. Len(s) \in Nat /\ \A j \in 1..Len(s) : s[j] \in T
  OBVIOUS
<1>2. a \in Seq(T) /\ Len(a) = i - 1
  <2>1. /\ 1 \in Int /\ i - 1 \in Int /\ \A j \in 1..(i - 1) : s[j] \in T
    BY <1>1
  <2> QED BY <2>1, SubSeqProperties
<1>3. b \in Seq(T) /\ Len(b) = Len(s) - i
  <2>1. i + 1 \in Int /\ Len(s) \in Int /\ \A j \in (i + 1)..Len(s) : s[j] \in T
    BY <1>1
  <2>2. b \in Seq(T) /\ Len(b) = IF i + 1 <= Len(s) THEN Len(s) - (i + 1) + 1 ELSE 0
    BY <2>1, SubSeqProperties
  <2> HIDE DEF b
  <2> QED BY <1>1, <2>2
<1>4. Len(a \o b) = Len(a) + Len(b)
  BY <1>2, <1>3, ConcatProperties
<1> HIDE DEF a, b
<1>5. Len(a \o b) < Len(s)
  BY <1>1, <1>2, <1>3, <1>4
<1> QED BY <1>5 DEF RemoveAt, a, b

LEMMA PlaceKeeps ==
  ASSUME TuningInv, Place
  PROVE  TuningInv'
<1> DEFINE i == BestFit
           c == buffer[i]
           n == input[c].length
<1>1. /\ UNCHANGED <<input, limit, unread, done, batch, row, step, rate, trained, stage>>
      /\ stage = "pack" /\ Fitting # {}
      /\ scratch' = [x \in 0..SequenceLength |->
           IF x \in pos..(pos + n - 1)
             THEN [token   |-> <<c, x - pos + 1>>,
                   mask    |-> IF x - pos + 1 \in input[c].supervised THEN 1 ELSE 0,
                   segment |-> segment]
             ELSE scratch[x]]
      /\ pos' = pos + n /\ segment' = segment + 1 /\ buffer' = RemoveAt(buffer, i)
  BY DEF Place, NextSegment, Length, training
<1>2. /\ i \in 1..Len(buffer) /\ c \in Parsed(input) /\ pos + n <= Capacity
      /\ c \in ToSet(buffer)
  <2>1. Counters /\ Lists /\ ToSet(buffer) \subseteq Parsed(input)
    BY DEF TuningInv, Places, Apart
  <2>2. DOMAIN buffer = 1..Len(buffer)
    BY <2>1 DEF Lists
  <2>3. /\ i \in 1..Len(buffer) /\ c \in Parsed(input) /\ pos + n <= Capacity
    BY <1>1, <2>1, BestFitIs DEF Length
  <2> QED BY <2>2, <2>3 DEF ToSet
<1>3. /\ input \in Seq(Lines) /\ pos \in Nat /\ segment \in Nat /\ segment <= pos
      /\ Capacity = SequenceLength + 1 /\ SequenceLength \in Nat
      /\ Packed(input, scratch, pos, segment)
  BY <1>1, SizesAre DEF TuningInv, Counters, Written
<1>4. n \in Nat \ {0, 1}
  BY <1>2, <1>3, LinesAre
<1>5. /\ buffer \in Seq(DOMAIN input) /\ IsInjective(buffer)
      /\ Len(buffer) < BufferSize + ReadSize /\ Len(buffer) \in Nat
  BY DEF TuningInv, Lists
<1> HIDE DEF i, c, n
<1>6. /\ buffer' \in Seq(DOMAIN input) /\ IsInjective(buffer')
      /\ ToSet(buffer') = ToSet(buffer) \ {c}
      /\ Len(buffer') < BufferSize + ReadSize
  <2>1. /\ RemoveAt(buffer, i) \in Seq(DOMAIN input) /\ IsInjective(RemoveAt(buffer, i))
        /\ ToSet(RemoveAt(buffer, i)) = ToSet(buffer) \ {c}
    BY <1>2, <1>5, RemoveAtHolds DEF c
  <2>2. Len(RemoveAt(buffer, i)) < Len(buffer) /\ Len(RemoveAt(buffer, i)) \in Nat
    BY <1>2, <1>5, <2>1, RemoveAtShortens
  <2>3. Len(RemoveAt(buffer, i)) < BufferSize + ReadSize
    BY <1>5, <2>2, SizesAre
  <2> QED BY <1>1, <2>1, <2>3
<1>7. Open = Opened(input, scratch, pos) /\ c \notin Open
  <2>1. Open = Opened(input, scratch, pos)
    BY <1>1 DEF Open
  <2> QED BY <1>2, <2>1 DEF TuningInv, Places, Apart
<1>8. \A x \in 0..((pos + n) - 1) :
        scratch'[x] = IF x < pos THEN scratch[x] ELSE CellOf(input, c, x - pos + 1, segment)
  <2> TAKE x \in 0..((pos + n) - 1)
  <2>1. x \in 0..SequenceLength /\ (x \in pos..(pos + n - 1) <=> ~(x < pos))
    BY <1>2, <1>3, <1>4
  <2> QED BY <1>1, <2>1 DEF CellOf
<1>9. /\ Packed(input, scratch', pos + n, segment + 1)
      /\ Opened(input, scratch', pos + n) = Open \cup {c}
  BY <1>2, <1>3, <1>7, <1>8, PlacedIs DEF n
<1>10. Counters'
  <2>1. pos + n \in 0..Capacity /\ segment + 1 \in 0..(pos + n)
    BY <1>2, <1>3, <1>4
  <2> QED BY <1>1, <2>1 DEF TuningInv, Counters
<1>11. Lists'
  BY <1>1, <1>6 DEF TuningInv, Lists
<1>12. Written'
  <2>1. DOMAIN scratch' = 0..SequenceLength
    BY <1>1
  <2> QED BY <1>1, <1>9, <2>1 DEF TuningInv, Written
<1>13. Places'
  <2>1. Open' = Open \cup {c}
    BY <1>1, <1>9 DEF Open
  <2>2. Apart(input, ToSet(unread), ToSet(buffer), Open, Batched(input, batch), ToSet(trained))
    BY DEF TuningInv, Places
  <2>3. Apart(input, ToSet(unread), ToSet(buffer) \ {c}, Open \cup {c},
              Batched(input, batch), ToSet(trained))
    BY <1>2, <2>2 DEF Apart
  <2> QED BY <1>1, <1>6, <2>1, <2>3 DEF Places
<1> QED BY <1>10, <1>11, <1>12, <1>13 DEF TuningInv

LEMMA CloseRowKeeps ==
  ASSUME TuningInv, CloseRow
  PROVE  TuningInv'
<1> DEFINE closed == CopiedRow(PaddedTo(scratch, pos, segment))
<1>1. /\ UNCHANGED <<input, limit, pos, segment, step, rate, trained>>
      /\ stage = "pack" /\ stage' = "row" /\ row' = row + 1
      /\ scratch' = PaddedTo(scratch, pos, segment)
      /\ batch' = [batch EXCEPT ![row] = closed]
      /\ UNCHANGED <<unread, buffer, done>> \/ Refill
  BY DEF CloseRow, Padded, PaddedTo, training, loader
<1>2. /\ input \in Seq(Lines) /\ pos \in 0..Capacity /\ segment \in Nat
      /\ Packed(input, scratch, pos, segment)
      /\ DOMAIN batch = 0..(BatchSize - 1) /\ row \in 0..(BatchSize - 1) /\ BatchSize \in Nat
  <2>1. pos \in 0..Capacity /\ segment \in 0..pos /\ row \in 0..BatchSize /\ row < BatchSize
    BY <1>1 DEF TuningInv, Counters, Written
  <2>2. segment \in Nat /\ row \in 0..(BatchSize - 1)
    BY <2>1, SizesAre
  <2> QED BY <1>1, <2>1, <2>2, SizesAre DEF TuningInv, Counters, Written
<1>3. RowOK(input, closed) /\ Inside(input, closed) = Opened(input, scratch, pos)
  BY <1>2, ClosedIs
<1> HIDE DEF closed
<1>4. Open = Opened(input, scratch, pos) /\ Open' = {}
  BY <1>1 DEF Open
<1>5. /\ DOMAIN batch' = DOMAIN batch /\ batch'[row] = closed
      /\ \A r \in DOMAIN batch : r # row => batch'[r] = batch[r]
  BY <1>1, <1>2
<1>6. Inside(input, batch[row]) = {}
  <2>1. batch[row] = Untouched
    BY <1>2 DEF TuningInv, Written
  <2> QED BY <1>2, <2>1, UntouchedIs
<1>7. Batched(input, batch') = Batched(input, batch) \cup Open
  <2>1. \A d : d \in Batched(input, batch') <=>
               \E r \in DOMAIN batch : d \in Inside(input, batch'[r])
    BY <1>5 DEF Batched
  <2>2. \A d : d \in Batched(input, batch) <=>
               \E r \in DOMAIN batch : d \in Inside(input, batch[r])
    BY DEF Batched
  <2>3. \A d \in Batched(input, batch') : d \in Batched(input, batch) \cup Open
    BY <1>3, <1>4, <1>5, <2>1, <2>2
  <2>4. \A d \in Batched(input, batch) : d \in Batched(input, batch')
    BY <1>5, <1>6, <2>1, <2>2
  <2>5. \A d \in Open : d \in Batched(input, batch')
    BY <1>2, <1>3, <1>4, <1>5, <2>1
  <2> QED BY <2>3, <2>4, <2>5
<1>8. Lists' /\ done' \in BOOLEAN
      /\ \A o, r : Apart(input, ToSet(unread), ToSet(buffer), o, r, ToSet(trained)) =>
                   Apart(input, ToSet(unread'), ToSet(buffer'), o, r, ToSet(trained))
  <2>1. CASE UNCHANGED <<unread, buffer, done>>
    BY <1>1, <2>1 DEF TuningInv, Counters, Lists
  <2>2. CASE Refill
    BY <1>1, <2>2, RefillKeeps
  <2> QED BY <1>1, <2>1, <2>2
<1>9. Counters'
  <2>1. row + 1 \in 0..BatchSize
    BY <1>2
  <2> QED BY <1>1, <1>8, <2>1 DEF TuningInv, Counters
<1>10. Written'
  <2>1. DOMAIN scratch' = 0..SequenceLength
    BY <1>1 DEF PaddedTo
  <2>2. ASSUME NEW r \in DOMAIN batch
        PROVE  IF r < row + 1 THEN RowOK(input, batch'[r]) ELSE batch'[r] = Untouched
    <3>1. CASE r = row
      <4>1. r < row + 1
        BY <1>2, <3>1
      <4> QED BY <1>3, <1>5, <3>1, <4>1
    <3>2. CASE r # row
      <4>1. batch'[r] = batch[r] /\ (r < row + 1 <=> r < row)
        BY <1>2, <1>5, <3>2
      <4> QED BY <4>1 DEF TuningInv, Written
    <3> QED BY <3>1, <3>2
  <2>3. ASSUME NEW q \in DOMAIN batch, NEW r \in DOMAIN batch, q # r
        PROVE  Inside(input, batch'[q]) \cap Inside(input, batch'[r]) = {}
    <3>1. \A z \in DOMAIN batch : Inside(input, batch[z]) \cap Open = {}
      BY DEF TuningInv, Places, Apart, Batched
    <3>2. CASE q = row
      BY <1>3, <1>4, <1>5, <2>3, <3>1, <3>2
    <3>3. CASE r = row
      BY <1>3, <1>4, <1>5, <2>3, <3>1, <3>3
    <3>4. CASE q # row /\ r # row
      BY <1>5, <2>3, <3>4 DEF TuningInv, Written
    <3> QED BY <3>2, <3>3, <3>4
  <2>4. \A r \in DOMAIN batch' :
          IF r < row' THEN RowOK(input', batch'[r]) ELSE batch'[r] = Untouched
    BY <1>1, <1>5, <2>2
  <2>5. \A q, r \in DOMAIN batch' :
          q # r => Inside(input', batch'[q]) \cap Inside(input', batch'[r]) = {}
    BY <1>1, <1>5, <2>3
  <2>6. stage' = "row" /\ DOMAIN batch' = 0..(BatchSize - 1)
    BY <1>1, <1>2, <1>5
  <2> QED BY <2>1, <2>4, <2>5, <2>6 DEF Written
<1>11. Places'
  <2>1. Apart(input, ToSet(unread), ToSet(buffer), Open, Batched(input, batch), ToSet(trained))
    BY DEF TuningInv, Places
  <2>2. Apart(input, ToSet(unread), ToSet(buffer), {}, Batched(input, batch) \cup Open,
              ToSet(trained))
    BY <2>1 DEF Apart
  <2>3. Apart(input, ToSet(unread'), ToSet(buffer'), {}, Batched(input, batch) \cup Open,
              ToSet(trained))
    BY <1>8, <2>2
  <2> QED BY <1>1, <1>4, <1>7, <2>3 DEF Places
<1> QED BY <1>8, <1>9, <1>10, <1>11 DEF TuningInv

LEMMA TrainStepKeeps ==
  ASSUME TuningInv, TrainStep
  PROVE  TuningInv'
<1> DEFINE R == Batched(input, batch)
           more == SetToSeq(R)
<1>1. /\ UNCHANGED <<input, limit, unread, buffer, done, scratch, row, pos, segment>>
      /\ stage = "train" /\ stage' = "next" /\ batch' = << >>
      /\ step' = Smaller(step + 1, MaxSteps)
      /\ trained' = trained \o more
  BY NothingWritten DEF TrainStep, loader, TuningInv
<1>2. R \subseteq DOMAIN input /\ IsFiniteSet(R)
  <2>1. R \subseteq DOMAIN input
    BY DEF Batched, Inside
  <2>2. DOMAIN input = 1..Len(input) /\ Len(input) \in Nat
    BY DEF TuningInv, Counters
  <2>3. IsFiniteSet(DOMAIN input)
    BY <2>2, FS_Interval
  <2> QED BY <2>1, <2>3, FS_Subset
<1>3. more \in Seq(DOMAIN input) /\ IsInjective(more) /\ ToSet(more) = R
  <2> HIDE DEF R
  <2> DEFINE m == Cardinality(R)
  <2>1. /\ more \in [1..m -> R] /\ more \in Seq(R)
        /\ \A a, b \in 1..m : more[a] = more[b] => a = b
        /\ \A x \in R : \E a \in 1..m : more[a] = x
    BY <1>2, SetToSeqIs
  <2> HIDE DEF m, more
  <2>2. DOMAIN more = 1..m /\ \A a \in 1..m : more[a] \in R
    BY <2>1
  <2>3. IsInjective(more)
    BY <2>1, <2>2 DEF IsInjective
  <2>4. ToSet(more) = R
    <3>1. \A x : x \in ToSet(more) <=> \E a \in 1..m : more[a] = x
      BY <2>2 DEF ToSet
    <3>2. \A x \in ToSet(more) : x \in R
      BY <2>2, <3>1
    <3>3. \A x \in R : x \in ToSet(more)
      BY <2>1, <3>1
    <3> QED BY <3>2, <3>3
  <2>5. more \in Seq(DOMAIN input)
    BY <1>2, <2>1
  <2> QED BY <2>3, <2>4, <2>5
<1> HIDE DEF R, more
<1>4. Apart(input, ToSet(unread), ToSet(buffer), Open, R, ToSet(trained))
  BY DEF TuningInv, Places, R
<1>5. /\ trained' \in Seq(DOMAIN input) /\ IsInjective(trained')
      /\ ToSet(trained') = ToSet(trained) \cup R
  <2>1. trained \in Seq(DOMAIN input) /\ IsInjective(trained)
    BY DEF TuningInv, Lists
  <2>2. ToSet(trained) \cap ToSet(more) = {}
    BY <1>3, <1>4 DEF Apart
  <2>3. trained \o more \in Seq(DOMAIN input)
    BY <1>3, <2>1, ConcatProperties
  <2>4. ToSet(trained \o more) = ToSet(trained) \cup ToSet(more)
    BY <1>3, <2>1, ConcatHolds
  <2>5. IsInjective(trained \o more)
    BY <1>3, <2>1, <2>2, ConcatHolds
  <2> QED BY <1>1, <1>3, <2>3, <2>4, <2>5
<1>6. Counters'
  <2>1. step' \in 0..MaxSteps
    BY <1>1, TuningConstants DEF TuningInv, Counters, Smaller
  <2> QED BY <1>1, <2>1 DEF TuningInv, Counters
<1>7. Lists'
  BY <1>1, <1>5 DEF TuningInv, Lists
<1>8. DOMAIN batch' = {}
  BY <1>1
<1>9. Written'
  BY <1>1, <1>8 DEF TuningInv, Written
<1>10. Places'
  <2>1. Open = {} /\ Open' = {}
    BY <1>1 DEF Open
  <2>2. Batched(input, batch') = {}
    BY <1>8 DEF Batched
  <2>3. Apart(input, ToSet(unread), ToSet(buffer), {}, {}, ToSet(trained) \cup R)
    BY <1>4, <2>1 DEF Apart
  <2> QED BY <1>1, <1>5, <2>1, <2>2, <2>3 DEF Places
<1> QED BY <1>6, <1>7, <1>9, <1>10 DEF TuningInv

LEMMA TuningInit == Init => TuningInv
<1> SUFFICES ASSUME Init
             PROVE  TuningInv
  OBVIOUS
<1>1. /\ stage = "next" /\ row = 0 /\ pos = 0 /\ segment = 0 /\ step = 0 /\ done = FALSE
      /\ buffer = << >> /\ trained = << >> /\ batch = << >> /\ limit \in Limits
      /\ scratch = [x \in 0..SequenceLength |-> Blank]
      /\ unread = [i \in 1..Len(input) |-> i]
  BY DEF Init
<1>2. input \in Seq(Lines)
  <2>1. PICK m \in 0..MaxLines : input \in [1..m -> Lines]
    BY DEF Init, SeqOf
  <2>2. m \in Nat
    BY TuningConstants
  <2> QED BY <2>1, <2>2
<1>3. Counters
  <2>1. 0 \in 0..MaxSteps /\ 0 \in 0..BatchSize /\ 0 \in 0..Capacity /\ 0 \in 0..0
    BY TuningConstants, SizesAre
  <2> QED BY <1>1, <1>2, <2>1 DEF Counters
<1>4. /\ DOMAIN input = 1..Len(input) /\ Len(input) \in Nat
  BY <1>2
<1>5. unread \in Seq(DOMAIN input) /\ DOMAIN unread = DOMAIN input
      /\ \A i \in DOMAIN input : unread[i] = i
  BY <1>1, <1>4
<1>6. IsInjective(unread) /\ ToSet(unread) = DOMAIN input
  BY <1>5 DEF IsInjective, ToSet
<1>7. /\ << >> \in Seq(DOMAIN input) /\ IsInjective(<< >>) /\ ToSet(<< >>) = {}
      /\ Len(<< >>) = 0 /\ DOMAIN << >> = {}
  BY DEF IsInjective, ToSet
<1>8. Lists
  <2>1. 0 < BufferSize + ReadSize
    BY SizesAre
  <2> QED BY <1>1, <1>5, <1>6, <1>7, <2>1 DEF Lists
<1>9. Written
  BY <1>1, <1>7 DEF Written
<1>10. Places
  <2>1. Batched(input, batch) = {} /\ Open = {}
    BY <1>1, <1>7 DEF Batched, Open
  <2>2. Parsed(input) \subseteq DOMAIN input
    BY DEF Parsed
  <2> QED BY <1>1, <1>6, <1>7, <2>1, <2>2 DEF Places, Apart
<1> QED BY <1>3, <1>8, <1>9, <1>10 DEF TuningInv

LEMMA TuningStutters ==
  ASSUME TuningInv, UNCHANGED vars
  PROVE  TuningInv'
<1>1. UNCHANGED <<input, limit, unread, buffer, done, scratch, batch, row, pos, segment,
                  step, rate, trained, stage>>
  BY DEF vars, loader, packing, training
<1>2. Counters' /\ Lists'
  BY <1>1 DEF TuningInv, Counters, Lists
<1>3. Written'
  BY <1>1 DEF TuningInv, Written
<1>4. Places'
  <2>1. Open' = Open
    BY <1>1 DEF Open
  <2> QED BY <1>1, <2>1 DEF TuningInv, Places
<1> QED BY <1>2, <1>3, <1>4 DEF TuningInv

(***************************************************************************)
(* What the loader, its scratch row, the batch and the trainer hold, for   *)
(* every input and every sizes (SFTLoader.refill, SFTLoader.next,          *)
(* TrainSFT).                                                              *)
(***************************************************************************)
THEOREM TuningInvariance == Spec => []TuningInv
<1>1. TuningInv /\ [Next]_vars => TuningInv'
  <2> SUFFICES ASSUME TuningInv, [Next]_vars
               PROVE  TuningInv'
    OBVIOUS
  <2>1. CASE StartBatch
    BY <2>1, StartBatchKeeps
  <2>2. CASE StartRow
    BY <2>2, StartRowKeeps
  <2>3. CASE RunDry
    BY <2>3, RunDryKeeps
  <2>4. CASE BatchComplete \/ End
    BY <2>4, StagesKeep
  <2>5. CASE Place
    BY <2>5, PlaceKeeps
  <2>6. CASE RefillRow
    BY <2>6, RefillRowKeeps
  <2>7. CASE CloseRow
    BY <2>7, CloseRowKeeps
  <2>8. CASE TrainStep
    BY <2>8, TrainStepKeeps
  <2>9. CASE Terminated \/ UNCHANGED vars
    BY <2>9, TuningStutters DEF Terminated
  <2> QED BY <2>1, <2>2, <2>3, <2>4, <2>5, <2>6, <2>7, <2>8, <2>9 DEF Next
<1> QED BY <1>1, TuningInit, PTL DEF Spec

LEMMA WrittenRows ==
  ASSUME TuningInv
  PROVE  \A r \in TouchedRows : RowOK(input, r)
BY DEF TuningInv, Written, TouchedRows

(***************************************************************************)
(* The counters stay in their ranges, and the buffer holds less than the   *)
(* last call of the provider can add to one that lacked a conversation     *)
(* (SFTLoader.refill).                                                     *)
(***************************************************************************)
THEOREM TuningTypes == Spec => []TypeOK
<1>1. ASSUME TuningInv
      PROVE  TypeOK
  <2>1. segment \in 0..Capacity
    BY <1>1, SizesAre DEF TuningInv, Counters
  <2>2. DOMAIN batch = 0..(BatchSize - 1) \/ batch = << >>
    BY <1>1 DEF TuningInv, Counters, Written
  <2> QED BY <1>1, <2>1, <2>2 DEF TuningInv, Counters, Lists, TypeOK
<1> QED BY <1>1, TuningInvariance, PTL

(***************************************************************************)
(* In every row the loader wrote, a target is the token after its input in *)
(* the same conversation, and exactly the assistant's tokens are targets,  *)
(* although the scratch row is reused (SFTLoader.next).                    *)
(***************************************************************************)
THEOREM TuningTargets == Spec => []TargetsFollowInputs
<1>1. ASSUME TuningInv
      PROVE  TargetsFollowInputs
  <2>1. \A r \in TouchedRows : RowTargets(input, r)
    BY <1>1, WrittenRows DEF RowOK
  <2> QED BY <2>1 DEF TargetsFollowInputs, RowTargets, Predicts
<1> QED BY <1>1, TuningInvariance, PTL

-----------------------------------------------------------------------------
(* Counting places.                                                        *)

LEMMA CountOne ==
  ASSUME NEW S, NEW Q, \A a, b \in S : a \in Q /\ b \in Q => a = b
  PROVE  Cardinality({a \in S : a \in Q}) = IF \E a \in S : a \in Q THEN 1 ELSE 0
<1>1. CASE \E a \in S : a \in Q
  <2>1. PICK a \in S : a \in Q
    BY <1>1
  <2>2. {b \in S : b \in Q} = {a}
    BY <2>1
  <2> QED BY <1>1, <2>2, FS_Singleton
<1>2. CASE ~\E a \in S : a \in Q
  <2>1. {b \in S : b \in Q} = {}
    BY <1>2
  <2> QED BY <1>2, <2>1, FS_EmptySet
<1> QED BY <1>1, <1>2

LEMMA CountListed ==
  ASSUME NEW T, NEW s \in Seq(T), IsInjective(s), NEW c
  PROVE  Cardinality({i \in DOMAIN s : s[i] = c}) = IF c \in ToSet(s) THEN 1 ELSE 0
<1> DEFINE Q == {i \in DOMAIN s : s[i] = c}
<1>1. \A a, b \in DOMAIN s : a \in Q /\ b \in Q => a = b
  BY DEF IsInjective
<1>2. Cardinality({a \in DOMAIN s : a \in Q}) = IF \E a \in DOMAIN s : a \in Q THEN 1 ELSE 0
  <2> HIDE DEF Q
  <2> QED BY <1>1, CountOne
<1>3. {a \in DOMAIN s : a \in Q} = {i \in DOMAIN s : s[i] = c}
  OBVIOUS
<1>4. (\E a \in DOMAIN s : a \in Q) <=> c \in ToSet(s)
  BY DEF ToSet
<1> QED BY <1>2, <1>3, <1>4

(***************************************************************************)
(* A conversation that parsed is in exactly one place.                     *)
(***************************************************************************)
LEMMA CountedOnce ==
  ASSUME TuningInv, NEW c \in DOMAIN input, Length(c) > 0
  PROVE  Cardinality({i \in DOMAIN unread : unread[i] = c})
           + Cardinality({i \in DOMAIN buffer : buffer[i] = c})
           + Cardinality({i \in DOMAIN trained : trained[i] = c})
           + Cardinality({r \in DOMAIN batch : c \in ConversationsIn(batch[r])})
           + Cardinality(OpenRow \cap {c}) = 1
<1> DEFINE u == ToSet(unread)
           b == ToSet(buffer)
           o == Open
           r == Batched(input, batch)
           t == ToSet(trained)
           One(s) == IF c \in s THEN 1 ELSE 0
<1>1. /\ Cardinality({i \in DOMAIN unread : unread[i] = c}) = One(u)
      /\ Cardinality({i \in DOMAIN buffer : buffer[i] = c}) = One(b)
      /\ Cardinality({i \in DOMAIN trained : trained[i] = c}) = One(t)
  BY CountListed DEF TuningInv, Lists
<1>2. Cardinality({q \in DOMAIN batch : c \in ConversationsIn(batch[q])}) = One(r)
  <2> DEFINE Q == {q \in DOMAIN batch : c \in Inside(input, batch[q])}
  <2>1. \A x, y \in DOMAIN batch : x \in Q /\ y \in Q => x = y
    BY DEF TuningInv, Written
  <2>2. Cardinality({q \in DOMAIN batch : q \in Q}) = IF \E q \in DOMAIN batch : q \in Q THEN 1 ELSE 0
    <3> HIDE DEF Q
    <3> QED BY <2>1, CountOne
  <2>3. {q \in DOMAIN batch : q \in Q} = {q \in DOMAIN batch : c \in ConversationsIn(batch[q])}
    BY DEF Inside, ConversationsIn
  <2>4. (\E q \in DOMAIN batch : q \in Q) <=> c \in r
    BY DEF Batched
  <2> QED BY <2>2, <2>3, <2>4
<1>3. Cardinality(OpenRow \cap {c}) = One(o)
  <2>1. OpenRow = o
    <3>1. CASE stage = "pack"
      <4>1. DOMAIN scratch = 0..SequenceLength /\ pos \in 0..Capacity
            /\ Capacity = SequenceLength + 1 /\ SequenceLength \in Nat
        BY SizesAre DEF TuningInv, Written, Counters
      <4>2. \A x : x \in DOMAIN scratch /\ x < pos <=> x \in 0..(pos - 1)
        BY <4>1
      <4> QED BY <3>1, <4>2 DEF OpenRow, Open, Opened
    <3>2. CASE stage # "pack"
      BY <3>2 DEF OpenRow, Open
    <3> QED BY <3>1, <3>2
  <2> HIDE DEF o
  <2>2. CASE c \in o
    <3>1. o \cap {c} = {c}
      BY <2>2
    <3> QED BY <2>1, <2>2, <3>1, FS_Singleton
  <2>3. CASE c \notin o
    <3>1. o \cap {c} = {}
      BY <2>3
    <3> QED BY <2>1, <2>3, <3>1, FS_EmptySet
  <2> QED BY <2>2, <2>3
<1>4. Apart(input, u, b, o, r, t) /\ c \in Parsed(input)
  BY DEF TuningInv, Places, Parsed, Length
<1> HIDE DEF u, b, o, r, t
<1>5. One(u) + One(b) + One(t) + One(r) + One(o) = 1
  <2>1. c \in u \/ c \in b \/ c \in o \/ c \in r \/ c \in t
    BY <1>4 DEF Apart
  <2>2. /\ c \in u => c \notin b /\ c \notin o /\ c \notin r /\ c \notin t
        /\ c \in b => c \notin o /\ c \notin r /\ c \notin t
        /\ c \in o => c \notin r /\ c \notin t
        /\ c \in r => c \notin t
    BY <1>4 DEF Apart
  <2> QED BY <2>1, <2>2
<1> HIDE DEF One
<1> QED BY <1>1, <1>2, <1>3, <1>5

(***************************************************************************)
(* The loader never crops a conversation and loses none: each is at any    *)
(* time in one place, whole in its row and in a segment of its own         *)
(* (SFTLoader.refill, SFTLoader.next, TrainSFT).                           *)
(***************************************************************************)
THEOREM TuningWhole == Spec => []ConversationsWhole
<1>1. ASSUME TuningInv
      PROVE  ConversationsWhole
  <2>1. \A r \in TouchedRows : RowWhole(input, r) /\ RowSegments(r)
    BY <1>1, WrittenRows DEF RowOK
  <2>2. SegmentsSeparate
    BY <2>1 DEF SegmentsSeparate, RowSegments, Owner
  <2>3. ASSUME NEW r \in TouchedRows, NEW c \in ConversationsIn(r)
        PROVE  \E first \in 0..(SequenceLength - 1) :
                 /\ first + Length(c) <= Capacity
                 /\ \A k \in 1..Length(c) :
                      first + k - 1 < SequenceLength => r.inputs[first + k - 1] = <<c, k>>
    <3>1. c \in Inside(input, r) /\ RowWhole(input, r)
      BY <2>1, <2>3 DEF Inside, ConversationsIn
    <3> QED BY <3>1 DEF RowWhole, Length
  <2>4. \A c \in DOMAIN input : Length(c) > 0 =>
          Cardinality({i \in DOMAIN unread : unread[i] = c})
            + Cardinality({i \in DOMAIN buffer : buffer[i] = c})
            + Cardinality({i \in DOMAIN trained : trained[i] = c})
            + Cardinality({r \in DOMAIN batch : c \in ConversationsIn(batch[r])})
            + Cardinality(OpenRow \cap {c}) = 1
    BY <1>1, CountedOnce
  <2> QED BY <2>2, <2>3, <2>4 DEF ConversationsWhole
<1> QED BY <1>1, TuningInvariance, PTL

=============================================================================
