--------------------------- MODULE KVBufferProofs ---------------------------
(***************************************************************************)
(* Proofs about KVBuffer: whatever path a request takes, its blocks, tails,  *)
(* indexer keys and window rows are those of its own tokens.               *)
(***************************************************************************)
EXTENDS KVBuffer, SeqSumsProofs

Fields == {"batch", "room", "position", "raw", "tail", "tailLength",
           "block", "key", "count", "reKey", "reCount", "stripped"}

\* Everything is allocated for the slots of the batch.
Shaped(b) ==
  /\ DOMAIN b = Fields
  /\ b.batch \in Nat \ {0} /\ b.room \in Nat /\ b.position \in 0..b.room
  /\ DOMAIN b.raw = Slots(b.batch)
  /\ DOMAIN b.tail = Slots(b.batch)
  /\ DOMAIN b.block = Slots(b.batch)
  /\ DOMAIN b.key = Slots(b.batch)
  /\ DOMAIN b.reKey = Slots(b.batch)
  /\ \A i \in Slots(b.batch) :
       /\ DOMAIN b.raw[i] = 0..(b.room - 1)
       /\ b.tail[i] = [o \in 0..(Ratio - 1) |-> b.tail[i][o]]
       /\ DOMAIN b.block[i] = 0..(MaxBlocks(b.room) - 1)
       /\ DOMAIN b.key[i] = 0..(MaxBlocks(b.room) - 1)
       /\ DOMAIN b.reKey[i] = 0..(MaxBlocks(b.room) - 1)
  /\ DOMAIN b.tailLength = Rows(b) /\ DOMAIN b.count = Rows(b) /\ DOMAIN b.reCount = Rows(b)

\* The rows advance together, and have been given the first P tokens.
At(b, P) ==
  /\ \A r \in Rows(b) : /\ b.tailLength[r] = b.tailLength[0]
                        /\ b.count[r] = b.count[0]
                        /\ b.reCount[r] = b.reCount[0]
  /\ b.tailLength[0] \in 0..(Ratio - 1) /\ b.count[0] \in Nat
  /\ b.reCount[0] \in 0..b.count[0]
  /\ b.count[0] * Ratio + b.tailLength[0] = P

\* The indexer keys are those of the blocks.
Keyed(b) ==
  \A i \in Slots(b.batch) :
    /\ \A x \in 0..(b.count[0] - 1) : b.key[i][x] = b.block[i][x]
    /\ \A x \in 0..(b.reCount[0] - 1) : b.reKey[i][x] = b.block[i][x]

\* The blocks and the tail but for the blocks in S, of which the tail may be one.
Exact(b, prefilled, S) ==
  \A i \in Slots(b.batch) :
    /\ \A x \in 0..(b.count[0] - 1) : x \notin S => b.block[i][x] = RowsOf(i, x, prefilled)
    /\ b.count[0] \notin S =>
         \A o \in 0..(b.tailLength[0] - 1) :
           b.tail[i][o] = KeyValue(i, b.count[0] * Ratio + o, prefilled)

Global(b, P, prefilled, S) == Shaped(b) /\ At(b, P) /\ Keyed(b) /\ Exact(b, prefilled, S)

\* The raw rows that the window of the next token covers.
Windowed(b, prefilled) ==
  \A i \in Slots(b.batch) : \A p \in 0..(b.position - 1) :
    p >= b.position - Window => b.raw[i][p] = KeyValue(i, p, prefilled)

\* A buffer between two forward passes: nothing is left to reindex.
Whole(b, prefilled, S) == Global(b, b.position, prefilled, S) /\ b.reCount[0] = b.count[0]

Prompted(b) == b.batch = 1 /\ b.room = SequenceLen /\ Whole(b, b.position, {})

Splits == {x \in Nat : Split(x)}

KVInv ==
  /\ stage \in {"idle", "replay", "forward", "prefilled", "decode"}
  /\ prompt \in 0..SequenceLen
  /\ stage \in {"replay", "forward", "prefilled"} => Prompted(kv)
  /\ stage \in {"replay", "forward"} => kv.position < prompt
  /\ stage \in {"forward", "prefilled"} => Windowed(kv, kv.position)
  /\ stage = "prefilled" => kv.position = prompt
  /\ stage \notin {"replay", "forward", "prefilled"} => kv = None
  /\ kept = None \/ (Prompted(kept) /\ (~kept.stripped => Windowed(kept, kept.position)))
  /\ stage # "decode" => decode = None
  /\ stage = "decode" =>
       /\ decode.room = prompt + MaxTokens /\ decode.position \in prompt..decode.room
       /\ Whole(decode, prompt, Splits)
       /\ Windowed(decode, prompt)

-----------------------------------------------------------------------------
(* Slots, blocks and the rows they are made of.                            *)

LEMMA SlotsAre ==
  /\ \A batch \in Nat \ {0} : \A i \in Slots(batch) :
       /\ i \in Nat /\ RowOf(i) \in 0..(batch - 1)
       /\ HeadOf(i) \in Slots(1) /\ HeadOf(HeadOf(i)) = HeadOf(i)
  /\ \A i \in Slots(1) : RowOf(i) = 0 /\ HeadOf(i) = i
  /\ Heads = 1 => \A i \in Nat : RowOf(i) = i /\ HeadOf(i) = 0
  /\ 0 \in Slots(1)
<1>1. Heads \in Nat \ {0}
  BY KVConstants
<1>2. ASSUME NEW batch \in Nat \ {0}, NEW i \in 0..(batch * Heads - 1)
      PROVE  i \in Nat /\ i \div Heads \in 0..(batch - 1)
             /\ i % Heads \in 0..(Heads - 1) /\ (i % Heads) % Heads = i % Heads
  <2>1. i \in Nat /\ i % Heads \in 0..(Heads - 1)
    BY <1>1
  <2>2. i \div Heads \in 0..(batch - 1)
    BY <1>1
  <2>3. \A h \in 0..(Heads - 1) : h % Heads = h
    BY <1>1
  <2> QED BY <2>1, <2>2, <2>3
<1>3. Slots(1) = 0..(Heads - 1)
  BY <1>1 DEF Slots
<1>4. \A i \in 0..(Heads - 1) : i \div Heads = 0 /\ i % Heads = i
  BY <1>1
<1>5. \A i \in Nat : i \div 1 = i /\ i % 1 = 0
  OBVIOUS
<1>6. 0 \in 0..(Heads - 1)
  BY <1>1
<1>7. \A batch \in Nat \ {0} : \A i \in Slots(batch) :
        /\ i \in Nat /\ RowOf(i) \in 0..(batch - 1)
        /\ HeadOf(i) \in Slots(1) /\ HeadOf(HeadOf(i)) = HeadOf(i)
  BY <1>2, <1>3 DEF Slots, RowOf, HeadOf
<1>8. \A i \in Slots(1) : RowOf(i) = 0 /\ HeadOf(i) = i
  BY <1>3, <1>4 DEF RowOf, HeadOf
<1>9. Heads = 1 => \A i \in Nat : RowOf(i) = i /\ HeadOf(i) = 0
  BY <1>5 DEF RowOf, HeadOf
<1> QED BY <1>3, <1>6, <1>7, <1>8, <1>9

(***************************************************************************)
(* There is a block for every Ratio tokens that fit, and one more.         *)
(***************************************************************************)
LEMMA BlocksFit ==
  ASSUME NEW room \in Nat, NEW c \in Nat, NEW t \in 0..(Ratio - 1), c * Ratio + t <= room
  PROVE  c \in 0..(MaxBlocks(room) - 1)
<1>1. Ratio \in Nat \ {0}
  BY KVConstants
<1>2. c <= room \div Ratio /\ room \div Ratio \in Nat
  BY <1>1
<1> QED BY <1>2 DEF MaxBlocks

LEMMA MaxBlocksIs ==
  ASSUME NEW room \in Nat
  PROVE  MaxBlocks(room) \in Nat
<1>1. Ratio \in Nat \ {0}
  BY KVConstants
<1> QED BY <1>1 DEF MaxBlocks

LEMMA BlockOf ==
  /\ Ratio \in Nat \ {0} /\ Ratio > 1
  /\ \A c \in Nat : c * Ratio \in Nat /\ (c + 1) * Ratio = c * Ratio + Ratio
  /\ \A c \in Nat : \A t \in 0..(Ratio - 1) :
       (c * Ratio + t) \div Ratio = c /\ (c * Ratio + t) % Ratio = t
<1>1. Ratio \in Nat \ {0} /\ Ratio > 1
  BY KVConstants
<1>2. \A c \in Nat : c * Ratio \in Nat /\ (c + 1) * Ratio = c * Ratio + Ratio
  BY <1>1
<1>3. ASSUME NEW c \in Nat, NEW t \in 0..(Ratio - 1)
      PROVE  (c * Ratio + t) \div Ratio = c /\ (c * Ratio + t) % Ratio = t
  BY <1>1
<1> QED BY <1>1, <1>2, <1>3

(***************************************************************************)
(* The tokens below P lie in the blocks before the tail or in the tail.    *)
(***************************************************************************)
LEMMA BelowP ==
  ASSUME NEW c \in Nat, NEW t \in 0..(Ratio - 1), NEW P, P = c * Ratio + t
  PROVE  /\ P \in Nat
         /\ \A x \in 0..(c - 1) : \A o \in 0..(Ratio - 1) : x * Ratio + o \in 0..(P - 1)
         /\ \A o \in 0..(t - 1) : c * Ratio + o \in 0..(P - 1)
<1>1. Ratio \in Nat \ {0} /\ c * Ratio \in Nat
  BY BlockOf
<1>2. ASSUME NEW x \in 0..(c - 1), NEW o \in 0..(Ratio - 1)
      PROVE  x * Ratio + o \in 0..(P - 1)
  <2>1. x \in Nat /\ x * Ratio \in Nat /\ (x + 1) * Ratio = x * Ratio + Ratio
    BY BlockOf
  <2>2. (x + 1) * Ratio <= c * Ratio
    <3>1. x + 1 \in Nat /\ x + 1 <= c
      OBVIOUS
    <3> QED BY <1>1, <3>1
  <2> DEFINE low == x * Ratio
             high == c * Ratio
  <2>3. low \in Nat /\ high \in Nat /\ low + Ratio <= high /\ P = high + t
    BY <1>1, <2>1, <2>2
  <2> HIDE DEF low, high
  <2>4. low + o \in 0..(P - 1)
    BY <1>1, <2>3
  <2> QED BY <2>4 DEF low
<1>3. ASSUME NEW o \in 0..(t - 1)
      PROVE  c * Ratio + o \in 0..(P - 1)
  <2> DEFINE high == c * Ratio
  <2>1. high \in Nat /\ P = high + t
    BY <1>1
  <2> HIDE DEF high
  <2>2. high + o \in 0..(P - 1)
    BY <1>1, <2>1
  <2> QED BY <2>2 DEF high
<1>4. P \in Nat
  BY <1>1
<1> QED BY <1>2, <1>3, <1>4

(***************************************************************************)
(* Whether the prompt is longer makes no difference to the tokens in it.   *)
(***************************************************************************)
LEMMA Prefilled ==
  ASSUME NEW b, NEW P, NEW S, NEW m, NEW n, m \in Nat, n \in Nat, P <= m, P <= n,
         At(b, P), Exact(b, m, S)
  PROVE  Exact(b, n, S)
<1> DEFINE c == b.count[0]
           t == b.tailLength[0]
<1>1. c \in Nat /\ t \in 0..(Ratio - 1) /\ P = c * Ratio + t
  BY DEF At
<1>2. \A i : \A p \in 0..(P - 1) : KeyValue(i, p, m) = KeyValue(i, p, n)
  <2>1. P \in Nat
    BY <1>1, BelowP
  <2>2. \A p \in 0..(P - 1) : p < m /\ p < n
    BY <2>1
  <2> QED BY <2>2 DEF KeyValue
<1> HIDE DEF c, t
<1>3. \A i : \A x \in 0..(c - 1) : RowsOf(i, x, m) = RowsOf(i, x, n)
  <2> TAKE i
  <2> TAKE x \in 0..(c - 1)
  <2>1. \A o \in 0..(Ratio - 1) : KeyValue(i, x * Ratio + o, m) = KeyValue(i, x * Ratio + o, n)
    BY <1>1, <1>2, BelowP
  <2> QED BY <2>1 DEF RowsOf
<1>4. \A i : \A o \in 0..(t - 1) :
        KeyValue(i, c * Ratio + o, m) = KeyValue(i, c * Ratio + o, n)
  BY <1>1, <1>2, BelowP
<1>5. ASSUME NEW i \in Slots(b.batch)
      PROVE  /\ \A x \in 0..(c - 1) : x \notin S => b.block[i][x] = RowsOf(i, x, n)
             /\ c \notin S =>
                  \A o \in 0..(t - 1) : b.tail[i][o] = KeyValue(i, c * Ratio + o, n)
  <2>1. \A x \in 0..(c - 1) : x \notin S => b.block[i][x] = RowsOf(i, x, m)
    BY DEF Exact, c
  <2>2. c \notin S => \A o \in 0..(t - 1) : b.tail[i][o] = KeyValue(i, c * Ratio + o, m)
    BY DEF Exact, c, t
  <2> QED BY <1>3, <1>4, <2>1, <2>2
<1> QED BY <1>5 DEF Exact, c, t

-----------------------------------------------------------------------------
(* What a step leaves alone.                                               *)

SameGlobal(d, b) ==
  /\ d.batch = b.batch /\ d.room = b.room
  /\ d.tail = b.tail /\ d.tailLength = b.tailLength
  /\ d.block = b.block /\ d.key = b.key /\ d.count = b.count
  /\ d.reKey = b.reKey /\ d.reCount = b.reCount

SameLocal(d, b) ==
  /\ d.batch = b.batch /\ d.room = b.room /\ d.position = b.position
  /\ d.raw = b.raw /\ d.stripped = b.stripped

LocalShaped(d) ==
  /\ DOMAIN d = Fields
  /\ d.position \in 0..d.room
  /\ DOMAIN d.raw = Slots(d.batch)
  /\ \A i \in Slots(d.batch) : DOMAIN d.raw[i] = 0..(d.room - 1)

LEMMA GlobalKept ==
  ASSUME NEW b, NEW d, SameGlobal(d, b), LocalShaped(d)
  PROVE  /\ Rows(d) = Rows(b)
         /\ Shaped(b) => Shaped(d)
         /\ \A P : At(b, P) => At(d, P)
         /\ Keyed(b) => Keyed(d)
         /\ \A prefilled, S : Exact(b, prefilled, S) => Exact(d, prefilled, S)
         /\ \A P, prefilled, S : Global(b, P, prefilled, S) => Global(d, P, prefilled, S)
<1>1. Rows(d) = Rows(b)
  BY DEF SameGlobal, Rows
<1>2. Shaped(b) => Shaped(d)
  BY <1>1 DEF SameGlobal, LocalShaped, Shaped
<1>3. \A P : At(b, P) => At(d, P)
  BY <1>1 DEF SameGlobal, At
<1>4. Keyed(b) => Keyed(d)
  BY DEF SameGlobal, Keyed
<1>5. \A prefilled, S : Exact(b, prefilled, S) => Exact(d, prefilled, S)
  BY DEF SameGlobal, Exact
<1> QED BY <1>1, <1>2, <1>3, <1>4, <1>5 DEF Global

LEMMA WithRawIs ==
  ASSUME NEW b, Shaped(b), NEW n \in Nat, NEW prefilled
  PROVE  /\ SameGlobal(WithRaw(b, n, prefilled), b)
         /\ LocalShaped(WithRaw(b, n, prefilled))
         /\ WithRaw(b, n, prefilled).position = b.position
         /\ WithRaw(b, n, prefilled).stripped = b.stripped
         /\ \A i \in Slots(b.batch) : \A p \in 0..(b.room - 1) :
              WithRaw(b, n, prefilled).raw[i][p] =
                IF p \in b.position..(b.position + n - 1)
                THEN KeyValue(i, p, prefilled) ELSE b.raw[i][p]
<1> DEFINE raw == [i \in Slots(b.batch) |-> [p \in 0..(b.room - 1) |->
                     IF p \in b.position..(b.position + n - 1)
                     THEN KeyValue(i, p, prefilled) ELSE b.raw[i][p]]]
           w == WithRaw(b, n, prefilled)
<1>1. w = [b EXCEPT !.raw = raw]
  BY DEF WithRaw
<1>2. /\ DOMAIN raw = Slots(b.batch)
      /\ \A i \in Slots(b.batch) : /\ DOMAIN raw[i] = 0..(b.room - 1)
                                   /\ \A p \in 0..(b.room - 1) : raw[i][p] =
                                        IF p \in b.position..(b.position + n - 1)
                                        THEN KeyValue(i, p, prefilled) ELSE b.raw[i][p]
  OBVIOUS
<1> HIDE DEF raw, w
<1>3. DOMAIN b = Fields /\ b.position \in 0..b.room
  BY DEF Shaped
<1>4. /\ DOMAIN w = Fields /\ w.raw = raw /\ w.position = b.position /\ w.stripped = b.stripped
      /\ SameGlobal(w, b)
  BY <1>1, <1>3 DEF Fields, SameGlobal
<1>5. w.batch = b.batch /\ w.room = b.room
  BY <1>4 DEF SameGlobal
<1>6. LocalShaped(w)
  BY <1>2, <1>3, <1>4, <1>5 DEF LocalShaped
<1> QED BY <1>2, <1>4, <1>6 DEF w

-----------------------------------------------------------------------------
(* One more token in the tail, and the tail's block when it is complete.   *)

Appended(b, position, prefilled) ==
  [b EXCEPT !.tail = [i \in Slots(b.batch) |->
               [b.tail[i] EXCEPT ![b.tailLength[RowOf(i)]] = KeyValue(i, position, prefilled)]],
            !.tailLength = [r \in Rows(b) |-> @[r] + 1]]

LEMMA AppendedIs ==
  ASSUME NEW b, NEW P, NEW prefilled, NEW S, Global(b, P, prefilled, S)
  PROVE  LET a == Appended(b, P, prefilled)
             c == b.count[0]
             t == b.tailLength[0]
         IN  /\ DOMAIN a = Fields /\ SameLocal(a, b)
             /\ a.block = b.block /\ a.key = b.key /\ a.count = b.count
             /\ a.reKey = b.reKey /\ a.reCount = b.reCount
             /\ DOMAIN a.tailLength = Rows(b)
             /\ \A r \in Rows(b) : a.tailLength[r] = t + 1
             /\ DOMAIN a.tail = Slots(b.batch)
             /\ \A i \in Slots(b.batch) :
                  /\ a.tail[i] = [o \in 0..(Ratio - 1) |-> a.tail[i][o]]
                  /\ c \notin S => \A o \in 0..t :
                       a.tail[i][o] = KeyValue(i, c * Ratio + o, prefilled)
<1> DEFINE c == b.count[0]
           t == b.tailLength[0]
           tail == [i \in Slots(b.batch) |->
                      [b.tail[i] EXCEPT ![b.tailLength[RowOf(i)]] = KeyValue(i, P, prefilled)]]
           lengths == [r \in Rows(b) |-> b.tailLength[r] + 1]
           a == Appended(b, P, prefilled)
<1>1. /\ DOMAIN b = Fields /\ b.batch \in Nat \ {0}
      /\ \A i \in Slots(b.batch) : b.tail[i] = [o \in 0..(Ratio - 1) |-> b.tail[i][o]]
  BY DEF Global, Shaped
<1>2. /\ \A r \in Rows(b) : b.tailLength[r] = t
      /\ t \in 0..(Ratio - 1) /\ c \in Nat /\ c * Ratio + t = P
  BY DEF Global, At
<1>3. \A i \in Slots(b.batch) : c \notin S =>
        \A o \in 0..(t - 1) : b.tail[i][o] = KeyValue(i, c * Ratio + o, prefilled)
  BY DEF Global, Exact
<1>4. \A i \in Slots(b.batch) : b.tailLength[RowOf(i)] = t
  BY <1>1, <1>2, SlotsAre DEF Rows
<1>5. a = [b EXCEPT !.tail = tail, !.tailLength = lengths]
  BY DEF Appended
<1>6. DOMAIN tail = Slots(b.batch) /\ DOMAIN lengths = Rows(b)
  OBVIOUS
<1>7. \A r \in Rows(b) : lengths[r] = t + 1
  BY <1>2
<1>8. \A i \in Slots(b.batch) : tail[i] = [b.tail[i] EXCEPT ![t] = KeyValue(i, P, prefilled)]
  BY <1>4
<1> HIDE DEF tail, lengths, a, c, t
<1>9. /\ DOMAIN a = Fields /\ SameLocal(a, b)
      /\ a.block = b.block /\ a.key = b.key /\ a.count = b.count
      /\ a.reKey = b.reKey /\ a.reCount = b.reCount
      /\ a.tail = tail /\ a.tailLength = lengths
  BY <1>1, <1>5 DEF Fields, SameLocal
<1>10. ASSUME NEW i \in Slots(b.batch)
       PROVE  /\ tail[i] = [o \in 0..(Ratio - 1) |-> tail[i][o]]
              /\ c \notin S => \A o \in 0..t :
                   tail[i][o] = KeyValue(i, c * Ratio + o, prefilled)
  <2>1. DOMAIN b.tail[i] = 0..(Ratio - 1)
    BY <1>1
  <2>2. tail[i] = [o \in 0..(Ratio - 1) |->
                     IF o = t THEN KeyValue(i, P, prefilled) ELSE b.tail[i][o]]
    BY <1>8, <2>1
  <2>3. \A o \in 0..(Ratio - 1) :
          tail[i][o] = IF o = t THEN KeyValue(i, P, prefilled) ELSE b.tail[i][o]
    BY <2>2
  <2>4. \A o \in 0..t : o \in 0..(Ratio - 1) /\ (o = t \/ o \in 0..(t - 1))
    BY <1>2, BlockOf
  <2> QED BY <1>2, <1>3, <2>2, <2>3, <2>4
<1> QED BY <1>6, <1>7, <1>9, <1>10 DEF a, c, t

LEMMA CompressedIs ==
  ASSUME NEW a, NEW c \in Nat, DOMAIN a = Fields, a.batch \in Nat \ {0},
         DOMAIN a.block = Slots(a.batch), DOMAIN a.key = Slots(a.batch),
         \A i \in Slots(a.batch) : /\ DOMAIN a.block[i] = 0..(MaxBlocks(a.room) - 1)
                                   /\ DOMAIN a.key[i] = 0..(MaxBlocks(a.room) - 1),
         c \in 0..(MaxBlocks(a.room) - 1),
         \A r \in Rows(a) : a.count[r] = c
  PROVE  LET w == ResetTail(Compressed(a))
         IN  /\ DOMAIN w = Fields /\ SameLocal(w, a)
             /\ w.tail = a.tail /\ w.reKey = a.reKey /\ w.reCount = a.reCount
             /\ DOMAIN w.tailLength = Rows(a) /\ DOMAIN w.count = Rows(a)
             /\ \A r \in Rows(a) : w.tailLength[r] = 0 /\ w.count[r] = c + 1
             /\ DOMAIN w.block = Slots(a.batch) /\ DOMAIN w.key = Slots(a.batch)
             /\ \A i \in Slots(a.batch) :
                  /\ DOMAIN w.block[i] = 0..(MaxBlocks(a.room) - 1)
                  /\ DOMAIN w.key[i] = 0..(MaxBlocks(a.room) - 1)
                  /\ w.block[i][c] = a.tail[i] /\ w.key[i][c] = a.tail[i]
                  /\ \A x \in 0..(MaxBlocks(a.room) - 1) : x # c =>
                       w.block[i][x] = a.block[i][x] /\ w.key[i][x] = a.key[i][x]
<1> DEFINE block == [i \in Slots(a.batch) |-> [a.block[i] EXCEPT ![a.count[RowOf(i)]] = a.tail[i]]]
           key == [i \in Slots(a.batch) |-> [a.key[i] EXCEPT ![a.count[RowOf(i)]] = a.tail[i]]]
           count == [r \in Rows(a) |-> a.count[r] + 1]
           d == Compressed(a)
           w == ResetTail(d)
<1>1. \A i \in Slots(a.batch) : a.count[RowOf(i)] = c
  BY SlotsAre DEF Rows
<1>2. d = [a EXCEPT !.block = block, !.key = key, !.count = count]
  BY DEF Compressed
<1>3. /\ DOMAIN block = Slots(a.batch) /\ DOMAIN key = Slots(a.batch)
      /\ DOMAIN count = Rows(a) /\ \A r \in Rows(a) : count[r] = c + 1
  OBVIOUS
<1>4. \A i \in Slots(a.batch) : /\ block[i] = [a.block[i] EXCEPT ![c] = a.tail[i]]
                                /\ key[i] = [a.key[i] EXCEPT ![c] = a.tail[i]]
  BY <1>1
<1>5. w = [d EXCEPT !.tailLength = [r \in Rows(d) |-> 0]]
  BY DEF ResetTail
<1> HIDE DEF block, key, count, d, w
<1>6. /\ DOMAIN d = Fields /\ SameLocal(d, a)
      /\ d.block = block /\ d.key = key /\ d.count = count
      /\ d.tail = a.tail /\ d.reKey = a.reKey /\ d.reCount = a.reCount
  BY <1>2 DEF Fields, SameLocal
<1>7. Rows(d) = Rows(a)
  BY <1>6 DEF Rows, SameLocal
<1>8. /\ DOMAIN w = Fields /\ SameLocal(w, a)
      /\ w.block = block /\ w.key = key /\ w.count = count
      /\ w.tail = a.tail /\ w.reKey = a.reKey /\ w.reCount = a.reCount
      /\ w.tailLength = [r \in Rows(a) |-> 0]
  BY <1>5, <1>6, <1>7 DEF Fields, SameLocal
<1>9. \A i \in Slots(a.batch) :
        /\ DOMAIN block[i] = 0..(MaxBlocks(a.room) - 1)
        /\ DOMAIN key[i] = 0..(MaxBlocks(a.room) - 1)
        /\ block[i][c] = a.tail[i] /\ key[i][c] = a.tail[i]
        /\ \A x \in 0..(MaxBlocks(a.room) - 1) : x # c =>
             block[i][x] = a.block[i][x] /\ key[i][x] = a.key[i][x]
  <2> TAKE i \in Slots(a.batch)
  <2>1. /\ DOMAIN a.block[i] = 0..(MaxBlocks(a.room) - 1)
        /\ DOMAIN a.key[i] = 0..(MaxBlocks(a.room) - 1)
    OBVIOUS
  <2>2. block[i] = [a.block[i] EXCEPT ![c] = a.tail[i]]
    BY <1>4
  <2>3. key[i] = [a.key[i] EXCEPT ![c] = a.tail[i]]
    BY <1>4
  <2> QED BY <2>1, <2>2, <2>3
<1>10. DOMAIN w.tailLength = Rows(a) /\ \A r \in Rows(a) : w.tailLength[r] = 0
  BY <1>8
<1> QED BY <1>3, <1>8, <1>9, <1>10 DEF w, d

(***************************************************************************)
(* One token: the block in the tail, when complete, is the next one.       *)
(***************************************************************************)
LEMMA TailRowGlobal ==
  ASSUME NEW b, NEW P, NEW prefilled, NEW S, Global(b, P, prefilled, S), P < b.room
  PROVE  /\ Global(WithTailRow(b, P, prefilled), P + 1, prefilled, S)
         /\ SameLocal(WithTailRow(b, P, prefilled), b)
<1> DEFINE a == Appended(b, P, prefilled)
           w == ResetTail(Compressed(a))
           c == b.count[0]
           t == b.tailLength[0]
           slots == Slots(b.batch)
           places == 0..(MaxBlocks(b.room) - 1)
<1>1. /\ Shaped(b) /\ Keyed(b) /\ Exact(b, prefilled, S)
      /\ \A r \in Rows(b) : b.count[r] = c /\ b.reCount[r] = b.reCount[0]
      /\ t \in 0..(Ratio - 1) /\ c \in Nat /\ b.reCount[0] \in 0..c /\ c * Ratio + t = P
  BY DEF Global, At
<1>2. /\ DOMAIN b.block = slots /\ DOMAIN b.key = slots /\ DOMAIN b.reKey = slots
      /\ \A i \in slots : /\ DOMAIN b.block[i] = places /\ DOMAIN b.key[i] = places
                          /\ DOMAIN b.reKey[i] = places
      /\ DOMAIN b.count = Rows(b) /\ DOMAIN b.reCount = Rows(b)
      /\ b.batch \in Nat \ {0} /\ b.room \in Nat /\ LocalShaped(b)
  BY <1>1 DEF Shaped, LocalShaped
<1>3. /\ \A i \in slots : /\ \A x \in 0..(c - 1) : b.key[i][x] = b.block[i][x]
                          /\ \A x \in 0..(b.reCount[0] - 1) : b.reKey[i][x] = b.block[i][x]
      /\ \A i \in slots : \A x \in 0..(c - 1) :
           x \notin S => b.block[i][x] = RowsOf(i, x, prefilled)
  BY <1>1 DEF Keyed, Exact
<1>4. /\ DOMAIN a = Fields /\ SameLocal(a, b)
      /\ a.block = b.block /\ a.key = b.key /\ a.count = b.count
      /\ a.reKey = b.reKey /\ a.reCount = b.reCount
      /\ DOMAIN a.tailLength = Rows(b) /\ \A r \in Rows(b) : a.tailLength[r] = t + 1
      /\ DOMAIN a.tail = slots
      /\ \A i \in slots : /\ a.tail[i] = [o \in 0..(Ratio - 1) |-> a.tail[i][o]]
                          /\ c \notin S => \A o \in 0..t :
                               a.tail[i][o] = KeyValue(i, c * Ratio + o, prefilled)
  BY AppendedIs
<1>5. 0 \in Rows(b)
  BY <1>2 DEF Rows
<1>6. WithTailRow(b, P, prefilled) = IF t + 1 = Ratio THEN w ELSE a
  <2>1. a.tailLength[0] = t + 1
    BY <1>4, <1>5
  <2> HIDE DEF t
  <2> QED BY <2>1 DEF WithTailRow, Appended
<1>7. c \in places
  <2>1. P \in Nat
    BY <1>1, BelowP
  <2>2. c * Ratio + t <= b.room
    BY <1>1, <1>2, <2>1
  <2> HIDE DEF c, t
  <2> QED BY <1>1, <1>2, <2>2, BlocksFit
<1>8. MaxBlocks(b.room) \in Nat
  BY <1>2, MaxBlocksIs
<1> HIDE DEF a, w, c, t, slots, places
<1>9. a.batch = b.batch /\ a.room = b.room /\ Rows(a) = Rows(b) /\ Slots(a.batch) = slots
  BY <1>4 DEF SameLocal, Rows, slots
<1>10. LocalShaped(a)
  BY <1>2, <1>4 DEF LocalShaped, SameLocal
<1>11. CASE t + 1 # Ratio
  <2>1. Shaped(a)
    BY <1>2, <1>4, <1>9, <1>10 DEF Shaped, LocalShaped, slots, places
  <2>2. At(a, P + 1)
    <3>1. a.tailLength[0] = t + 1 /\ t + 1 \in 0..(Ratio - 1) /\ a.count[0] = c
          /\ a.reCount[0] = b.reCount[0]
      BY <1>1, <1>4, <1>5, <1>11, BlockOf DEF c
    <3>2. c * Ratio + (t + 1) = P + 1
      BY <1>1, BlockOf
    <3>3. \A r \in Rows(a) : /\ a.tailLength[r] = t + 1 /\ a.count[r] = c
                             /\ a.reCount[r] = b.reCount[0]
      BY <1>1, <1>4, <1>9
    <3> QED BY <1>1, <3>1, <3>2, <3>3 DEF At
  <2>3. Keyed(a)
    BY <1>1, <1>4, <1>9 DEF Keyed, slots
  <2>4. Exact(a, prefilled, S)
    <3>1. a.tailLength[0] = t + 1 /\ a.count[0] = c /\ a.block = b.block
      BY <1>4, <1>5 DEF c
    <3>2. \A o \in 0..((t + 1) - 1) : o \in 0..t
      BY <1>1
    <3>3. ASSUME NEW i \in Slots(a.batch)
          PROVE  /\ \A x \in 0..(c - 1) : x \notin S =>
                      a.block[i][x] = RowsOf(i, x, prefilled)
                 /\ c \notin S => \A o \in 0..((t + 1) - 1) :
                      a.tail[i][o] = KeyValue(i, c * Ratio + o, prefilled)
      <4>1. i \in slots
        BY <1>9
      <4>2. \A x \in 0..(c - 1) : x \notin S => a.block[i][x] = RowsOf(i, x, prefilled)
        BY <1>3, <3>1, <4>1
      <4>3. c \notin S => \A o \in 0..t :
              a.tail[i][o] = KeyValue(i, c * Ratio + o, prefilled)
        BY <1>4, <4>1
      <4> QED BY <3>2, <4>2, <4>3
    <3> QED BY <3>1, <3>3 DEF Exact
  <2>5. WithTailRow(b, P, prefilled) = a
    BY <1>6, <1>11
  <2> QED BY <1>4, <2>1, <2>2, <2>3, <2>4, <2>5 DEF Global
<1>12. CASE t + 1 = Ratio
  <2>1. /\ DOMAIN w = Fields /\ SameLocal(w, a)
        /\ w.tail = a.tail /\ w.reKey = a.reKey /\ w.reCount = a.reCount
        /\ DOMAIN w.tailLength = Rows(b) /\ DOMAIN w.count = Rows(b)
        /\ \A r \in Rows(b) : w.tailLength[r] = 0 /\ w.count[r] = c + 1
        /\ DOMAIN w.block = slots /\ DOMAIN w.key = slots
        /\ \A i \in slots :
             /\ DOMAIN w.block[i] = places /\ DOMAIN w.key[i] = places
             /\ w.block[i][c] = a.tail[i] /\ w.key[i][c] = a.tail[i]
             /\ \A x \in places : x # c =>
                  w.block[i][x] = a.block[i][x] /\ w.key[i][x] = a.key[i][x]
    <3>1. /\ a.batch \in Nat \ {0} /\ places = 0..(MaxBlocks(a.room) - 1)
          /\ DOMAIN a.block = Slots(a.batch) /\ DOMAIN a.key = Slots(a.batch)
          /\ \A i \in Slots(a.batch) : /\ DOMAIN a.block[i] = 0..(MaxBlocks(a.room) - 1)
                                       /\ DOMAIN a.key[i] = 0..(MaxBlocks(a.room) - 1)
          /\ \A r \in Rows(a) : a.count[r] = c
      BY <1>1, <1>2, <1>4, <1>9 DEF places
    <3> QED BY <1>1, <1>4, <1>7, <1>9, <3>1, CompressedIs DEF w
  <2>2. /\ w.batch = b.batch /\ w.room = b.room /\ Rows(w) = Rows(b) /\ Slots(w.batch) = slots
        /\ SameLocal(w, b)
    BY <1>4, <1>9, <2>1 DEF SameLocal, Rows
  <2>3. LocalShaped(w)
    BY <1>2, <2>1, <2>2 DEF LocalShaped, SameLocal
  <2>4. Shaped(w)
    BY <1>2, <1>4, <2>1, <2>2, <2>3 DEF Shaped, LocalShaped, slots, places
  <2>5. w.tailLength[0] = 0 /\ w.count[0] = c + 1 /\ w.reCount[0] = b.reCount[0]
    BY <1>4, <1>5, <2>1
  <2>6. At(w, P + 1)
    <3>1. (c + 1) * Ratio + 0 = P + 1
      BY <1>1, <1>12, BlockOf
    <3>2. c + 1 \in Nat /\ b.reCount[0] \in 0..(c + 1) /\ 0 \in 0..(Ratio - 1)
      BY <1>1, BlockOf
    <3>3. \A r \in Rows(w) : /\ w.tailLength[r] = 0 /\ w.count[r] = c + 1
                             /\ w.reCount[r] = b.reCount[0]
      BY <1>1, <1>4, <2>1, <2>2
    <3> QED BY <2>5, <3>1, <3>2, <3>3 DEF At
  <2>7. /\ \A x \in 0..((c + 1) - 1) : x = c \/ x \in 0..(c - 1)
        /\ \A x \in 0..(c - 1) : x \in places /\ x # c
        /\ \A x \in 0..(b.reCount[0] - 1) : x \in 0..(c - 1)
    BY <1>1, <1>7, <1>8 DEF places
  <2>8. Keyed(w)
    <3> SUFFICES ASSUME NEW i \in slots
                 PROVE  /\ \A x \in 0..((c + 1) - 1) : w.key[i][x] = w.block[i][x]
                        /\ \A x \in 0..(b.reCount[0] - 1) : w.reKey[i][x] = w.block[i][x]
      BY <2>2, <2>5 DEF Keyed
    <3>1. \A x \in 0..(c - 1) : /\ w.block[i][x] = b.block[i][x]
                                /\ w.key[i][x] = b.key[i][x]
      BY <1>4, <2>1, <2>7
    <3>2. w.key[i][c] = w.block[i][c]
      BY <2>1
    <3>3. \A x \in 0..(c - 1) : w.key[i][x] = w.block[i][x]
      BY <1>3, <3>1
    <3>4. \A x \in 0..(b.reCount[0] - 1) : w.reKey[i][x] = w.block[i][x]
      BY <1>3, <1>4, <2>1, <2>7, <3>1
    <3> QED BY <2>7, <3>2, <3>3, <3>4
  <2>9. Exact(w, prefilled, S)
    <3> SUFFICES ASSUME NEW i \in slots, NEW x \in 0..((c + 1) - 1), x \notin S
                 PROVE  w.block[i][x] = RowsOf(i, x, prefilled)
      <4>1. 0..(0 - 1) = {}
        OBVIOUS
      <4> QED BY <2>2, <2>5, <4>1 DEF Exact
    <3>1. CASE x = c
      <4>1. \A o \in 0..(Ratio - 1) : o \in 0..t
        BY <1>1, <1>12, BlockOf
      <4>2. \A o \in 0..(Ratio - 1) : a.tail[i][o] = KeyValue(i, c * Ratio + o, prefilled)
        BY <1>4, <3>1, <4>1
      <4>3. a.tail[i] = RowsOf(i, c, prefilled)
        BY <1>4, <4>2 DEF RowsOf
      <4> QED BY <2>1, <3>1, <4>3
    <3>2. CASE x \in 0..(c - 1)
      BY <1>3, <1>4, <2>1, <2>7, <3>2
    <3> QED BY <2>7, <3>1, <3>2
  <2>10. WithTailRow(b, P, prefilled) = w
    BY <1>6, <1>12
  <2> QED BY <2>2, <2>4, <2>6, <2>8, <2>9, <2>10 DEF Global
<1> QED BY <1>11, <1>12

(***************************************************************************)
(* The tokens of a pass, one after the other.                              *)
(***************************************************************************)
LEMMA TailRowsBuilt ==
  ASSUME NEW b, NEW n \in Nat, NEW prefilled
  PROVE  \E built : /\ built[0] = b
                    /\ \A i \in 1..n : built[i] =
                         WithTailRow(built[i - 1], b.position + i - 1, prefilled)
                    /\ WithTailRows(b, n, prefilled) = built[n]
<1> DEFINE Next1(d, i) == WithTailRow(d, b.position + i - 1, prefilled)
           Good(m, f) == f = [i \in 0..m |-> IF i = 0 THEN b ELSE Next1(f[i - 1], i)]
           N == {m \in Nat : \E f : Good(m, f)}
<1> HIDE DEF Next1
<1>1. 0 \in N
  <2> DEFINE f == [i \in 0..0 |-> b]
  <2>1. Good(0, f)
    OBVIOUS
  <2> QED BY <2>1
<1>2. ASSUME NEW m \in Nat, m \in N
      PROVE  m + 1 \in N
  <2>1. PICK f : Good(m, f)
    BY <1>2
  <2>2. \A i \in 0..m : f[i] = IF i = 0 THEN b ELSE Next1(f[i - 1], i)
    BY <2>1
  <2> DEFINE g == [i \in 0..(m + 1) |-> IF i = m + 1 THEN Next1(f[m], i) ELSE f[i]]
  <2>3. \A i \in 0..(m + 1) : g[i] = IF i = 0 THEN b ELSE Next1(g[i - 1], i)
    <3> TAKE i \in 0..(m + 1)
    <3>1. CASE i = m + 1
      <4>1. i # 0 /\ i - 1 = m /\ m \in 0..(m + 1) /\ m # m + 1
        BY <3>1
      <4>2. g[i - 1] = f[m]
        BY <4>1
      <4> QED BY <3>1, <4>1, <4>2
    <3>2. CASE i # m + 1
      <4>1. i \in 0..m
        BY <3>2
      <4>2. i # 0 => i - 1 \in 0..(m + 1) /\ i - 1 # m + 1
        BY <4>1
      <4>3. i # 0 => g[i - 1] = f[i - 1]
        BY <4>2
      <4> QED BY <2>2, <3>2, <4>1, <4>3
    <3> QED BY <3>1, <3>2
  <2>4. g = [i \in 0..(m + 1) |-> g[i]]
    OBVIOUS
  <2> HIDE DEF g
  <2>5. g = [i \in 0..(m + 1) |-> IF i = 0 THEN b ELSE Next1(g[i - 1], i)]
    BY <2>3, <2>4
  <2> QED BY <2>5
<1> HIDE DEF N
<1>3. n \in N
  BY <1>1, <1>2, SetInduction
<1> DEFINE built == CHOOSE f : Good(n, f)
<1>4. Good(n, built)
  <2> HIDE DEF Good
  <2> QED BY <1>3 DEF N
<1>5. WithTailRows(b, n, prefilled) = built[n]
  BY DEF WithTailRows, Next1
<1> HIDE DEF built
<1>6. \A i \in 0..n : built[i] = IF i = 0 THEN b ELSE Next1(built[i - 1], i)
  BY <1>4
<1>7. built[0] = b /\ \A i \in 1..n : built[i] = Next1(built[i - 1], i)
  BY <1>6
<1> QED BY <1>5, <1>7 DEF Next1

LEMMA TailRowsGlobal ==
  ASSUME NEW b, NEW prefilled, NEW S, NEW n \in Nat,
         Global(b, b.position, prefilled, S), b.position + n <= b.room
  PROVE  /\ Global(WithTailRows(b, n, prefilled), b.position + n, prefilled, S)
         /\ SameLocal(WithTailRows(b, n, prefilled), b)
<1> DEFINE P == b.position
<1>1. P \in Nat /\ b.room \in Nat
  BY DEF Global, Shaped
<1>2. PICK built : /\ built[0] = b
                   /\ \A i \in 1..n : built[i] = WithTailRow(built[i - 1], P + i - 1, prefilled)
                   /\ WithTailRows(b, n, prefilled) = built[n]
  BY TailRowsBuilt
<1> DEFINE Good(i) == Global(built[i], P + i, prefilled, S) /\ SameLocal(built[i], b)
           N == {i \in Nat : i <= n => Good(i)}
<1>3. 0 \in N
  <2>1. P + 0 = P
    BY <1>1
  <2> QED BY <1>2, <2>1 DEF SameLocal
<1> HIDE DEF P
<1>4. ASSUME NEW i \in Nat, i \in N, i + 1 <= n
      PROVE  Good(i + 1)
  <2>1. Good(i) /\ i + 1 \in 1..n /\ (i + 1) - 1 = i /\ P + (i + 1) - 1 = P + i
        /\ P + (i + 1) = (P + i) + 1 /\ P + i < b.room
    BY <1>1, <1>4 DEF P
  <2>2. built[i + 1] = WithTailRow(built[i], P + i, prefilled)
    BY <1>2, <2>1
  <2>3. P + i < built[i].room
    BY <2>1 DEF SameLocal
  <2>4. /\ Global(built[i + 1], (P + i) + 1, prefilled, S)
        /\ SameLocal(built[i + 1], built[i])
    BY <2>1, <2>2, <2>3, TailRowGlobal
  <2>5. SameLocal(built[i + 1], b)
    BY <2>1, <2>4 DEF SameLocal
  <2> QED BY <2>1, <2>4, <2>5
<1>5. \A i \in Nat : i \in N => i + 1 \in N
  BY <1>4
<1> HIDE DEF N
<1>6. n \in N
  BY <1>3, <1>5, SetInduction
<1>7. Good(n)
  BY <1>6 DEF N
<1> QED BY <1>2, <1>7 DEF P

(***************************************************************************)
(* The reindex layer gets the keys that it has none of.                    *)
(***************************************************************************)
LEMMA ReindexedGlobal ==
  ASSUME NEW b, NEW P, NEW prefilled, NEW S, Global(b, P, prefilled, S), P <= b.room
  PROVE  /\ Global(Reindexed(b), P, prefilled, S)
         /\ SameLocal(Reindexed(b), b)
         /\ Reindexed(b).reCount[0] = Reindexed(b).count[0]
<1> DEFINE c == b.count[0]
           k == b.reCount[0]
           slots == Slots(b.batch)
           places == 0..(MaxBlocks(b.room) - 1)
           reKey == [i \in slots |-> [x \in places |->
                       IF x \in k..(c - 1) THEN b.block[i][x] ELSE b.reKey[i][x]]]
           reCount == [r \in Rows(b) |-> b.reCount[r] + c - k]
           w == Reindexed(b)
<1>1. /\ Shaped(b) /\ Keyed(b) /\ Exact(b, prefilled, S) /\ At(b, P)
      /\ c \in Nat /\ k \in 0..c
      /\ \A r \in Rows(b) : b.reCount[r] = k
      /\ b.tailLength[0] \in 0..(Ratio - 1) /\ c * Ratio + b.tailLength[0] = P
  BY DEF Global, At
<1>2. DOMAIN b = Fields /\ b.room \in Nat /\ b.batch \in Nat \ {0} /\ LocalShaped(b)
  BY <1>1 DEF Shaped, LocalShaped
<1>3. 0 \in Rows(b)
  BY <1>2 DEF Rows
<1>4. c \in places
  <2> HIDE DEF c
  <2> QED BY <1>1, <1>2, BlocksFit
<1>5. w = [b EXCEPT !.reKey = reKey, !.reCount = reCount]
  BY DEF Reindexed, NotReindexed
<1>6. /\ DOMAIN reKey = slots /\ DOMAIN reCount = Rows(b)
      /\ \A i \in slots : /\ DOMAIN reKey[i] = places
                          /\ \A x \in places : reKey[i][x] =
                               IF x \in k..(c - 1) THEN b.block[i][x] ELSE b.reKey[i][x]
  OBVIOUS
<1>7. \A r \in Rows(b) : reCount[r] = c
  BY <1>1
<1> HIDE DEF reKey, reCount, w, slots, places, c, k
<1>8. /\ DOMAIN w = Fields /\ SameLocal(w, b)
      /\ w.tail = b.tail /\ w.tailLength = b.tailLength /\ w.block = b.block
      /\ w.key = b.key /\ w.count = b.count /\ w.reKey = reKey /\ w.reCount = reCount
  BY <1>2, <1>5 DEF Fields, SameLocal
<1>9. w.batch = b.batch /\ w.room = b.room /\ Rows(w) = Rows(b) /\ Slots(w.batch) = slots
  BY <1>8 DEF SameLocal, Rows, slots
<1>10. LocalShaped(w)
  BY <1>2, <1>8 DEF LocalShaped, SameLocal
<1>11. Shaped(w)
  BY <1>1, <1>6, <1>8, <1>9, <1>10 DEF Shaped, LocalShaped, slots, places
<1>12. w.count[0] = c /\ w.reCount[0] = c
  BY <1>3, <1>7, <1>8 DEF c
<1>13. At(w, P)
  BY <1>1, <1>7, <1>8, <1>9, <1>12 DEF At
<1>14. Keyed(w)
  <2> SUFFICES ASSUME NEW i \in slots, NEW x \in 0..(c - 1)
               PROVE  w.key[i][x] = w.block[i][x] /\ w.reKey[i][x] = w.block[i][x]
    BY <1>9, <1>12 DEF Keyed
  <2>1. w.key[i][x] = w.block[i][x]
    BY <1>1, <1>8 DEF Keyed, slots, c
  <2>2. x \in places /\ (x \in k..(c - 1) \/ x \in 0..(k - 1))
    <3>1. MaxBlocks(b.room) \in Nat
      BY <1>2, MaxBlocksIs
    <3> QED BY <1>1, <1>4, <3>1 DEF places
  <2>3. x \in k..(c - 1) => reKey[i][x] = b.block[i][x]
    BY <1>6, <2>2
  <2>4. x \in 0..(k - 1) => reKey[i][x] = b.block[i][x]
    <3>1. x \in 0..(k - 1) => b.reKey[i][x] = b.block[i][x]
      BY <1>1 DEF Keyed, slots, k
    <3> QED BY <1>6, <2>2, <2>3, <3>1
  <2> QED BY <1>8, <2>1, <2>2, <2>3, <2>4
<1>15. Exact(w, prefilled, S)
  BY <1>1, <1>8, <1>9 DEF Exact, slots
<1> QED BY <1>8, <1>11, <1>12, <1>13, <1>14, <1>15 DEF Global, w

-----------------------------------------------------------------------------
(* A forward pass.                                                         *)

\* The raw rows of n tokens from start are the pass's, the others what they were.
Rewritten(f, b, start, n, prefilled) ==
  /\ f.batch = b.batch /\ f.room = b.room /\ f.stripped = b.stripped
  /\ \A i \in Slots(b.batch) : \A p \in 0..(b.room - 1) :
       f.raw[i][p] = IF p \in start..(start + n - 1)
                     THEN KeyValue(i, p, prefilled) ELSE b.raw[i][p]

LEMMA ForwardIs ==
  ASSUME NEW b, NEW n \in Nat, NEW prefilled, NEW S,
         Global(b, b.position, prefilled, S), b.position + n <= b.room
  PROVE  /\ Forward(b, n, prefilled, FALSE).position = b.position + n
         /\ Whole(Forward(b, n, prefilled, FALSE), prefilled, S)
         /\ Rewritten(Forward(b, n, prefilled, FALSE), b, b.position, n, prefilled)
<1> DEFINE P == b.position
           written == WithRaw(b, n, prefilled)
           built == WithTailRows(written, n, prefilled)
           layered == Reindexed(built)
           f == Forward(b, n, prefilled, FALSE)
<1>1. Shaped(b) /\ P \in Nat /\ b.room \in Nat
  BY DEF Global, Shaped
<1>2. /\ SameGlobal(written, b) /\ LocalShaped(written)
      /\ written.position = P /\ written.stripped = b.stripped
      /\ Rewritten(written, b, P, n, prefilled)
  <2>1. /\ SameGlobal(written, b) /\ LocalShaped(written)
        /\ written.position = P /\ written.stripped = b.stripped
        /\ \A i \in Slots(b.batch) : \A p \in 0..(b.room - 1) :
             written.raw[i][p] = IF p \in P..(P + n - 1)
                                 THEN KeyValue(i, p, prefilled) ELSE b.raw[i][p]
    BY <1>1, WithRawIs
  <2> HIDE DEF written
  <2> QED BY <2>1 DEF Rewritten, SameGlobal
<1>3. f = [layered EXCEPT !.position = @ + n]
  BY DEF Forward, AppendsGlobal
<1> HIDE DEF written
<1>4. Global(written, written.position, prefilled, S) /\ written.room = b.room
  BY <1>2, GlobalKept DEF SameGlobal
<1>5. Global(built, P + n, prefilled, S) /\ SameLocal(built, written)
  BY <1>2, <1>4, TailRowsGlobal
<1>6. built.room = b.room
  BY <1>4, <1>5 DEF SameLocal
<1> HIDE DEF built
<1>7. /\ Global(layered, P + n, prefilled, S) /\ SameLocal(layered, built)
      /\ layered.reCount[0] = layered.count[0]
  BY <1>5, <1>6, ReindexedGlobal
<1>8. SameLocal(layered, written) /\ layered.position = P
  BY <1>2, <1>5, <1>7 DEF SameLocal
<1> HIDE DEF layered, f
<1>9. DOMAIN layered = Fields /\ layered.room = b.room /\ LocalShaped(layered)
  BY <1>6, <1>7 DEF Global, Shaped, LocalShaped, SameLocal
<1>10. /\ DOMAIN f = Fields /\ f.position = P + n /\ SameGlobal(f, layered)
       /\ f.raw = layered.raw /\ f.stripped = layered.stripped
  BY <1>3, <1>8, <1>9 DEF Fields, SameGlobal
<1>11. f.batch = layered.batch /\ f.room = layered.room /\ f.reCount[0] = f.count[0]
  BY <1>7, <1>10 DEF SameGlobal
<1>12. LocalShaped(f)
  <2>1. P + n \in 0..b.room
    BY <1>1
  <2> QED BY <1>9, <1>10, <1>11, <2>1 DEF LocalShaped
<1>13. Whole(f, prefilled, S)
  BY <1>7, <1>10, <1>11, <1>12, GlobalKept DEF Whole
<1>14. Rewritten(f, b, P, n, prefilled)
  BY <1>2, <1>8, <1>10, <1>11 DEF Rewritten, SameLocal
<1> QED BY <1>10, <1>13, <1>14 DEF f

(***************************************************************************)
(* A pass needs no raw row that it does not write or find.                 *)
(***************************************************************************)
LEMMA WindowMoves ==
  ASSUME NEW b, NEW f, NEW n \in Nat, NEW prefilled, Shaped(b), Windowed(b, prefilled),
         f.position = b.position + n, f.position <= b.room,
         Rewritten(f, b, b.position, n, prefilled)
  PROVE  Windowed(f, prefilled)
<1>1. b.position \in Nat /\ b.room \in Nat /\ f.batch = b.batch /\ Window \in Nat
  BY KVConstants DEF Shaped, Rewritten
<1> SUFFICES ASSUME NEW i \in Slots(b.batch), NEW p \in 0..(f.position - 1),
                    p >= f.position - Window
             PROVE  f.raw[i][p] = KeyValue(i, p, prefilled)
  BY <1>1 DEF Windowed
<1>2. p \in 0..(b.room - 1)
  BY <1>1
<1>3. f.raw[i][p] = IF p \in b.position..(b.position + n - 1)
                    THEN KeyValue(i, p, prefilled) ELSE b.raw[i][p]
  BY <1>2 DEF Rewritten
<1>4. CASE p \in b.position..(b.position + n - 1)
  BY <1>3, <1>4
<1>5. CASE p \notin b.position..(b.position + n - 1)
  <2>1. p \in 0..(b.position - 1) /\ p >= b.position - Window
    BY <1>1, <1>5
  <2> QED BY <1>3, <1>5, <2>1 DEF Windowed
<1> QED BY <1>4, <1>5

LEMMA WindowPrefilled ==
  ASSUME NEW b, NEW m \in Nat, NEW n \in Nat, b.position \in Nat,
         b.position <= m, b.position <= n, Windowed(b, m)
  PROVE  Windowed(b, n)
<1>1. \A i : \A p \in 0..(b.position - 1) : KeyValue(i, p, m) = KeyValue(i, p, n)
  <2>1. \A p \in 0..(b.position - 1) : p < m /\ p < n
    OBVIOUS
  <2> QED BY <2>1 DEF KeyValue
<1> QED BY <1>1 DEF Windowed

(***************************************************************************)
(* A replay writes the rows of the window anew and nothing else.           *)
(***************************************************************************)
LEMMA ReplayedIs ==
  ASSUME NEW b, Prompted(b)
  PROVE  /\ Prompted(Replayed(b)) /\ Replayed(b).position = b.position
         /\ Windowed(Replayed(b), b.position)
<1> DEFINE P == b.position
           start == ReplayStart(b)
           back == [b EXCEPT !.position = start]
           n == P - start
           written == WithRaw(back, n, P)
           f == Replayed(b)
<1>1. Shaped(b) /\ P \in Nat /\ b.room \in Nat /\ P <= b.room /\ DOMAIN b = Fields
      /\ LocalShaped(b) /\ Window \in Nat
  <2>1. Shaped(b)
    BY DEF Prompted, Whole, Global
  <2>2. P \in Nat /\ b.room \in Nat /\ P <= b.room /\ DOMAIN b = Fields
    BY <2>1 DEF Shaped
  <2>3. LocalShaped(b)
    BY <2>1 DEF Shaped, LocalShaped
  <2> QED BY <2>1, <2>2, <2>3, KVConstants
<1>2. start \in 0..P /\ n \in Nat /\ start + n = P /\ start <= b.room
      /\ \A p \in 0..(P - 1) : p >= P - Window => p >= start
  BY <1>1 DEF ReplayStart
<1>3. f = [written EXCEPT !.position = @ + n]
  BY DEF Replayed, Forward, AppendsGlobal
<1> HIDE DEF start, n
<1>4. /\ DOMAIN back = Fields /\ back.position = start /\ SameGlobal(back, b)
      /\ back.raw = b.raw /\ back.stripped = b.stripped
  BY <1>1 DEF Fields, SameGlobal
<1> HIDE DEF back
<1>5. back.batch = b.batch /\ back.room = b.room
  BY <1>4 DEF SameGlobal
<1>6. LocalShaped(back)
  <2>1. start \in 0..b.room
    BY <1>1, <1>2
  <2> QED BY <1>1, <1>4, <1>5, <2>1 DEF LocalShaped
<1>7. Shaped(back)
  BY <1>1, <1>4, <1>6, GlobalKept
<1>8. /\ SameGlobal(written, back) /\ LocalShaped(written) /\ written.position = start
      /\ \A i \in Slots(back.batch) : \A p \in 0..(back.room - 1) :
           written.raw[i][p] = IF p \in start..(start + n - 1)
                               THEN KeyValue(i, p, P) ELSE back.raw[i][p]
  BY <1>2, <1>4, <1>7, WithRawIs
<1> HIDE DEF written, f
<1>9. DOMAIN written = Fields
  BY <1>8 DEF LocalShaped
<1>10. /\ DOMAIN f = Fields /\ f.position = P /\ f.raw = written.raw
       /\ SameGlobal(f, written)
  BY <1>2, <1>3, <1>8, <1>9 DEF Fields, SameGlobal
<1>11. SameGlobal(f, b)
  BY <1>4, <1>8, <1>10 DEF SameGlobal
<1>12. f.batch = b.batch /\ f.room = b.room /\ f.count = b.count /\ f.reCount = b.reCount
  BY <1>11 DEF SameGlobal
<1>13. LocalShaped(f)
  <2>1. P \in 0..b.room
    BY <1>1
  <2>2. written.batch = b.batch /\ written.room = b.room
    BY <1>5, <1>8 DEF SameGlobal
  <2> QED BY <1>8, <1>10, <1>12, <2>1, <2>2 DEF LocalShaped
<1>14. Prompted(f)
  BY <1>10, <1>11, <1>12, <1>13, GlobalKept DEF Prompted, Whole
<1>15. Windowed(f, P)
  <2> SUFFICES ASSUME NEW i \in Slots(b.batch), NEW p \in 0..(P - 1), p >= P - Window
               PROVE  f.raw[i][p] = KeyValue(i, p, P)
    BY <1>10, <1>12 DEF Windowed
  <2>1. p \in 0..(b.room - 1) /\ p \in start..(start + n - 1)
    BY <1>1, <1>2
  <2> QED BY <1>5, <1>8, <1>10, <2>1
<1> QED BY <1>10, <1>14, <1>15 DEF f

-----------------------------------------------------------------------------
(* Buffers made of nothing, of a snapshot and of another buffer.           *)

LEMMA NewBufferIs ==
  ASSUME NEW batch \in Nat \ {0}, NEW room \in Nat
  PROVE  LET b == NewBuffer(batch, room)
         IN  /\ b.batch = batch /\ b.room = room /\ b.position = 0
             /\ \A prefilled, S : Whole(b, prefilled, S)
             /\ \A prefilled : Windowed(b, prefilled)
<1> DEFINE b == NewBuffer(batch, room)
           zeros == [r \in 0..(batch - 1) |-> 0]
<1>1. /\ DOMAIN b = Fields
      /\ b.batch = batch /\ b.room = room /\ b.position = 0
      /\ b.raw = Unwritten(batch, room) /\ b.tail = Unwritten(batch, Ratio)
      /\ b.block = Unwritten(batch, MaxBlocks(room)) /\ b.key = Unwritten(batch, MaxBlocks(room))
      /\ b.reKey = Unwritten(batch, MaxBlocks(room))
      /\ b.tailLength = zeros /\ b.count = zeros /\ b.reCount = zeros
  BY DEF NewBuffer, Fields
<1> HIDE DEF b
<1>2. \A count : /\ DOMAIN Unwritten(batch, count) = Slots(batch)
                 /\ \A i \in Slots(batch) :
                      /\ Unwritten(batch, count)[i] = [x \in 0..(count - 1) |-> Zero]
                      /\ DOMAIN Unwritten(batch, count)[i] = 0..(count - 1)
  BY DEF Unwritten
<1>3. \A i \in Slots(batch) : b.tail[i] = [o \in 0..(Ratio - 1) |-> b.tail[i][o]]
  <2> TAKE i \in Slots(batch)
  <2>1. b.tail[i] = [o \in 0..(Ratio - 1) |-> Zero]
    BY <1>1, <1>2
  <2> QED BY <2>1
<1>4. Rows(b) = 0..(batch - 1) /\ 0 \in Rows(b) /\ DOMAIN zeros = Rows(b)
      /\ \A r \in Rows(b) : zeros[r] = 0
  BY <1>1 DEF Rows
<1>5. \A i \in Slots(batch) : /\ DOMAIN b.raw[i] = 0..(room - 1)
                              /\ DOMAIN b.block[i] = 0..(MaxBlocks(room) - 1)
                              /\ DOMAIN b.key[i] = 0..(MaxBlocks(room) - 1)
                              /\ DOMAIN b.reKey[i] = 0..(MaxBlocks(room) - 1)
  <2>1. \A i \in Slots(batch) : DOMAIN b.raw[i] = 0..(room - 1)
    <3>1. \A i \in Slots(batch) : DOMAIN Unwritten(batch, room)[i] = 0..(room - 1)
      BY <1>2
    <3> QED BY <1>1, <3>1, Zenon
  <2>2. \A i \in Slots(batch) : DOMAIN b.block[i] = 0..(MaxBlocks(room) - 1)
    <3>1. \A i \in Slots(batch) :
            DOMAIN Unwritten(batch, MaxBlocks(room))[i] = 0..(MaxBlocks(room) - 1)
      BY <1>2
    <3> QED BY <1>1, <3>1, Zenon
  <2>3. b.key = b.block /\ b.reKey = b.block
    BY <1>1
  <2> QED BY <2>1, <2>2, <2>3
<1> HIDE DEF zeros
<1>6. Shaped(b)
  BY <1>1, <1>2, <1>3, <1>4, <1>5 DEF Shaped
<1>7. b.count[0] = 0 /\ b.tailLength[0] = 0 /\ b.reCount[0] = 0
  BY <1>1, <1>4
<1>8. At(b, 0)
  <2>1. 0 * Ratio + 0 = 0 /\ 0 \in 0..(Ratio - 1)
    BY BlockOf
  <2> QED BY <1>1, <1>4, <1>7, <2>1 DEF At
<1>9. 0..(0 - 1) = {}
  OBVIOUS
<1>10. Keyed(b) /\ \A prefilled, S : Exact(b, prefilled, S)
  BY <1>7, <1>9 DEF Keyed, Exact
<1>11. \A prefilled : Windowed(b, prefilled)
  BY <1>1, <1>9 DEF Windowed
<1>12. \A prefilled, S : Whole(b, prefilled, S)
  BY <1>1, <1>6, <1>7, <1>8, <1>10 DEF Whole, Global
<1> QED BY <1>1, <1>11, <1>12 DEF b

LEMMA StrippedIs ==
  ASSUME NEW b, Prompted(b)
  PROVE  /\ Prompted(StripRaw(b)) /\ StripRaw(b).position = b.position
         /\ StripRaw(b).stripped = TRUE
<1> DEFINE raw == Unwritten(b.batch, b.room)
           d == StripRaw(b)
<1>1. Shaped(b)
  BY DEF Prompted, Whole, Global
<1>2. DOMAIN b = Fields /\ b.position \in 0..b.room
  BY <1>1 DEF Shaped
<1>3. d = [b EXCEPT !.raw = raw, !.stripped = TRUE]
  BY DEF StripRaw
<1>4. DOMAIN raw = Slots(b.batch) /\ \A i \in Slots(b.batch) : DOMAIN raw[i] = 0..(b.room - 1)
  BY DEF Unwritten
<1> HIDE DEF raw, d
<1>5. /\ DOMAIN d = Fields /\ SameGlobal(d, b) /\ d.raw = raw
      /\ d.position = b.position /\ d.stripped = TRUE
  BY <1>2, <1>3 DEF Fields, SameGlobal
<1>6. d.batch = b.batch /\ d.room = b.room /\ d.count = b.count /\ d.reCount = b.reCount
  BY <1>5 DEF SameGlobal
<1>7. LocalShaped(d)
  BY <1>2, <1>4, <1>5, <1>6 DEF LocalShaped
<1>8. Prompted(d)
  BY <1>5, <1>6, <1>7, GlobalKept DEF Prompted, Whole
<1> QED BY <1>5, <1>8 DEF d

(***************************************************************************)
(* What is in use comes back from a file; the raw rows only if they were   *)
(* not stripped.                                                           *)
(***************************************************************************)
LEMMA UnmarshalledIs ==
  ASSUME NEW b, Prompted(b)
  PROVE  /\ Prompted(Unmarshalled(b)) /\ Unmarshalled(b).position = b.position
         /\ Unmarshalled(b).stripped = b.stripped
         /\ \A prefilled : ~b.stripped /\ Windowed(b, prefilled) =>
              Windowed(Unmarshalled(b), prefilled)
<1> DEFINE P == b.position
           c == b.count[0]
           t == b.tailLength[0]
           slots == Slots(b.batch)
           places == 0..(MaxBlocks(b.room) - 1)
           always == [r \in Rows(b) |-> IF b.stripped THEN 0 ELSE P]
           u == Unmarshalled(b)
<1>1. /\ b.batch = 1 /\ b.room = SequenceLen /\ Shaped(b) /\ At(b, P) /\ Keyed(b)
      /\ Exact(b, P, {}) /\ b.reCount[0] = c
  BY DEF Prompted, Whole, Global
<1>2. /\ DOMAIN b = Fields /\ P \in 0..b.room /\ b.room \in Nat
      /\ DOMAIN b.raw = slots /\ DOMAIN b.tail = slots /\ DOMAIN b.block = slots
      /\ DOMAIN b.key = slots /\ DOMAIN b.reKey = slots
      /\ DOMAIN b.tailLength = Rows(b) /\ DOMAIN b.count = Rows(b) /\ DOMAIN b.reCount = Rows(b)
      /\ \A i \in slots : /\ DOMAIN b.raw[i] = 0..(b.room - 1)
                          /\ DOMAIN b.tail[i] = 0..(Ratio - 1)
                          /\ DOMAIN b.block[i] = places /\ DOMAIN b.key[i] = places
                          /\ DOMAIN b.reKey[i] = places
  BY <1>1 DEF Shaped
<1>3. /\ c \in Nat /\ t \in 0..(Ratio - 1) /\ c * Ratio + t = P
  BY <1>1 DEF At
<1>4. c \in places
  <2> HIDE DEF c, t
  <2>1. c * Ratio + t <= b.room
    BY <1>2, <1>3
  <2> QED BY <1>2, <1>3, <2>1, BlocksFit
<1>5. Rows(b) = {0} /\ \A i \in slots : RowOf(i) = 0
  BY <1>1, SlotsAre DEF Rows
<1>6. always[0] = IF b.stripped THEN 0 ELSE P
  BY <1>5
<1>7. u = [b EXCEPT !.raw = InUse(@, always), !.tail = InUse(@, b.tailLength),
                    !.block = InUse(@, b.count), !.key = InUse(@, b.count),
                    !.reKey = InUse(@, b.reCount)]
  BY DEF Unmarshalled
<1> DEFINE Kept(data, used, back) ==
             /\ DOMAIN back = slots
             /\ \A i \in slots :
                  /\ back[i] = [x \in DOMAIN data[i] |->
                                  IF x < used THEN data[i][x] ELSE Zero]
                  /\ DOMAIN back[i] = DOMAIN data[i]
                  /\ \A x \in DOMAIN data[i] : x < used => back[i][x] = data[i][x]
<1>8. ASSUME NEW data, NEW used, DOMAIN data = slots
      PROVE  Kept(data, used[0], InUse(data, used))
  <2>1. InUse(data, used) = [i \in slots |-> [x \in DOMAIN data[i] |->
                               IF x < used[0] THEN data[i][x] ELSE Zero]]
    BY <1>5, <1>8 DEF InUse
  <2> QED BY <2>1
<1> HIDE DEF always, u, slots, places, c, t, Kept
<1>9. /\ DOMAIN u = Fields /\ u.batch = b.batch /\ u.room = b.room /\ u.position = P
      /\ u.stripped = b.stripped /\ u.tailLength = b.tailLength /\ u.count = b.count
      /\ u.reCount = b.reCount
      /\ u.raw = InUse(b.raw, always) /\ u.tail = InUse(b.tail, b.tailLength)
      /\ u.block = InUse(b.block, b.count) /\ u.key = InUse(b.key, b.count)
      /\ u.reKey = InUse(b.reKey, b.reCount)
  BY <1>2, <1>7 DEF Fields
<1>10. Rows(u) = Rows(b) /\ Slots(u.batch) = slots
  BY <1>9 DEF Rows, slots
<1>11. /\ DOMAIN u.raw = slots /\ \A i \in slots : DOMAIN u.raw[i] = 0..(b.room - 1)
       /\ \A i \in slots : \A x \in 0..(b.room - 1) : x < always[0] =>
            u.raw[i][x] = b.raw[i][x]
  <2>1. Kept(b.raw, always[0], u.raw)
    BY <1>2, <1>8, <1>9
  <2> QED BY <1>2, <2>1 DEF Kept
<1>12. /\ DOMAIN u.tail = slots
       /\ \A i \in slots : u.tail[i] = [o \in 0..(Ratio - 1) |-> u.tail[i][o]]
       /\ \A i \in slots : \A o \in 0..(Ratio - 1) : o < t => u.tail[i][o] = b.tail[i][o]
  <2>1. DOMAIN u.tail = slots /\ Kept(b.tail, t, u.tail)
    <3>1. Kept(b.tail, t, u.tail)
      BY <1>2, <1>8, <1>9 DEF t
    <3> QED BY <3>1 DEF Kept
  <2>2. ASSUME NEW i \in slots
        PROVE  u.tail[i] = [x \in 0..(Ratio - 1) |-> IF x < t THEN b.tail[i][x] ELSE Zero]
    BY <1>2, <2>1 DEF Kept
  <2>3. \A i \in slots : u.tail[i] = [o \in 0..(Ratio - 1) |-> u.tail[i][o]]
    <3> TAKE i \in slots
    <3> QED BY <2>2
  <2>4. \A i \in slots : \A o \in 0..(Ratio - 1) : o < t => u.tail[i][o] = b.tail[i][o]
    BY <2>2
  <2> QED BY <2>1, <2>3, <2>4
<1>13. /\ DOMAIN u.block = slots /\ DOMAIN u.key = slots /\ DOMAIN u.reKey = slots
       /\ \A i \in slots : /\ DOMAIN u.block[i] = places /\ DOMAIN u.key[i] = places
                           /\ DOMAIN u.reKey[i] = places
       /\ \A i \in slots : \A x \in places : x < c =>
            /\ u.block[i][x] = b.block[i][x] /\ u.key[i][x] = b.key[i][x]
            /\ u.reKey[i][x] = b.reKey[i][x]
  <2>1. Kept(b.block, c, u.block)
    BY <1>2, <1>8, <1>9 DEF c
  <2>2. Kept(b.key, c, u.key)
    BY <1>2, <1>8, <1>9 DEF c
  <2>3. Kept(b.reKey, c, u.reKey)
    BY <1>1, <1>2, <1>8, <1>9
  <2>4. /\ DOMAIN u.block = slots
        /\ \A i \in slots : DOMAIN u.block[i] = places
        /\ \A i \in slots : \A x \in places : x < c => u.block[i][x] = b.block[i][x]
    BY <1>2, <2>1 DEF Kept
  <2>5. /\ DOMAIN u.key = slots
        /\ \A i \in slots : DOMAIN u.key[i] = places
        /\ \A i \in slots : \A x \in places : x < c => u.key[i][x] = b.key[i][x]
    BY <1>2, <2>2 DEF Kept
  <2>6. /\ DOMAIN u.reKey = slots
        /\ \A i \in slots : DOMAIN u.reKey[i] = places
        /\ \A i \in slots : \A x \in places : x < c => u.reKey[i][x] = b.reKey[i][x]
    BY <1>2, <2>3 DEF Kept
  <2> QED BY <2>4, <2>5, <2>6
<1>14. Shaped(u)
  BY <1>1, <1>2, <1>9, <1>10, <1>11, <1>12, <1>13 DEF Shaped, places
<1>15. At(u, P)
  BY <1>1, <1>9, <1>10 DEF At
<1>16. /\ \A x \in 0..(c - 1) : x \in places /\ x < c
       /\ \A o \in 0..(t - 1) : o \in 0..(Ratio - 1) /\ o < t
  <2>1. MaxBlocks(b.room) \in Nat
    BY <1>2, MaxBlocksIs
  <2> QED BY <1>3, <1>4, <2>1, BlockOf DEF places
<1>17. u.count[0] = c /\ u.reCount[0] = c /\ u.tailLength[0] = t
  BY <1>1, <1>9 DEF c, t
<1>18. Keyed(u)
  <2> SUFFICES ASSUME NEW i \in slots, NEW x \in 0..(c - 1)
               PROVE  u.key[i][x] = u.block[i][x] /\ u.reKey[i][x] = u.block[i][x]
    BY <1>10, <1>17 DEF Keyed
  <2>1. b.key[i][x] = b.block[i][x] /\ b.reKey[i][x] = b.block[i][x]
    BY <1>1 DEF Keyed, slots, c
  <2> QED BY <1>13, <1>16, <2>1
<1>19. Exact(u, P, {})
  <2>1. ASSUME NEW i \in slots, NEW x \in 0..(c - 1)
        PROVE  u.block[i][x] = RowsOf(i, x, P)
    <3>1. b.block[i][x] = RowsOf(i, x, P)
      BY <1>1 DEF Exact, slots, c
    <3> QED BY <1>13, <1>16, <3>1
  <2>2. ASSUME NEW i \in slots, NEW o \in 0..(t - 1)
        PROVE  u.tail[i][o] = KeyValue(i, c * Ratio + o, P)
    <3>1. b.tail[i][o] = KeyValue(i, c * Ratio + o, P)
      BY <1>1 DEF Exact, slots, c, t
    <3> QED BY <1>12, <1>16, <3>1
  <2> QED BY <1>10, <1>17, <2>1, <2>2 DEF Exact
<1>20. Prompted(u)
  BY <1>1, <1>9, <1>14, <1>15, <1>17, <1>18, <1>19 DEF Prompted, Whole, Global
<1>21. ASSUME NEW prefilled, ~b.stripped, Windowed(b, prefilled)
       PROVE  Windowed(u, prefilled)
  <2> SUFFICES ASSUME NEW i \in slots, NEW p \in 0..(P - 1), p >= P - Window
               PROVE  u.raw[i][p] = KeyValue(i, p, prefilled)
    BY <1>9, <1>10 DEF Windowed
  <2>1. always[0] = P
    BY <1>6, <1>21
  <2>2. p \in 0..(b.room - 1) /\ p < P
    BY <1>2
  <2>3. b.raw[i][p] = KeyValue(i, p, prefilled)
    BY <1>21 DEF Windowed, slots
  <2> QED BY <1>11, <2>1, <2>2, <2>3
<1> QED BY <1>9, <1>20, <1>21 DEF u

LEMMA SnapshotIs ==
  ASSUME NEW b, Prompted(b), Windowed(b, b.position), NEW form \in Forms
  PROVE  /\ Prompted(Snapshot(b, form))
         /\ ~Snapshot(b, form).stripped =>
              Windowed(Snapshot(b, form), Snapshot(b, form).position)
<1>1. form \in {"clone", "stripped", "file", "strippedFile"}
  BY KVConstants
<1>2. CASE form = "clone"
  BY <1>2 DEF Snapshot
<1>3. CASE form = "stripped"
  <2>1. Snapshot(b, form) = StripRaw(b)
    BY <1>3 DEF Snapshot
  <2> QED BY <2>1, StrippedIs
<1>4. CASE form = "file"
  <2>1. Snapshot(b, form) = Unmarshalled(b)
    BY <1>4 DEF Snapshot
  <2> QED BY <2>1, UnmarshalledIs
<1>5. CASE form = "strippedFile"
  <2>1. Snapshot(b, form) = Unmarshalled(StripRaw(b))
    BY <1>5 DEF Snapshot
  <2>2. Prompted(StripRaw(b)) /\ StripRaw(b).stripped = TRUE
    BY StrippedIs
  <2> QED BY <2>1, <2>2, UnmarshalledIs
<1> QED BY <1>1, <1>2, <1>3, <1>4, <1>5

(***************************************************************************)
(* Every slot gets its own head's rows, but for the tails, which are those *)
(* of the first head: they are the slot's own when there is one head.      *)
(***************************************************************************)
LEMMA PrefillFromIs ==
  ASSUME NEW source, Prompted(source), source.position = prompt, Windowed(source, prompt),
         NEW batch \in Nat \ {0}, NEW room \in Nat, prompt \in Nat, prompt <= room
  PROVE  LET d == PrefillFrom(NewBuffer(batch, room), source)
         IN  /\ d.batch = batch /\ d.room = room /\ d.position = prompt
             /\ Whole(d, prompt, Splits) /\ Windowed(d, prompt)
<1> DEFINE target == NewBuffer(batch, room)
           c == source.count[0]
           t == source.tailLength[0]
           slots == Slots(batch)
           places == 0..(MaxBlocks(room) - 1)
           Replicated(from, into, used) ==
             [i \in slots |-> [x \in DOMAIN into[i] |->
                IF x < used THEN from[HeadOf(i)][x] ELSE into[i][x]]]
           tail == [i \in slots |-> IF i < batch THEN source.tail[0] ELSE target.tail[i]]
           lengths == [r \in Rows(target) |-> t]
           counts == [r \in Rows(target) |-> c]
           d == PrefillFrom(target, source)
<1>1. /\ source.batch = 1 /\ Shaped(source) /\ Keyed(source) /\ Exact(source, prompt, {})
      /\ source.reCount[0] = c /\ At(source, prompt)
  BY DEF Prompted, Whole, Global
<1>2. /\ c \in Nat /\ t \in 0..(Ratio - 1) /\ c * Ratio + t = prompt
  BY <1>1 DEF At
<1>3. /\ target.batch = batch /\ target.room = room /\ target.position = 0 /\ Shaped(target)
  BY NewBufferIs DEF Whole, Global
<1>4. /\ DOMAIN target = Fields /\ DOMAIN target.raw = slots /\ DOMAIN target.tail = slots
      /\ DOMAIN target.block = slots /\ DOMAIN target.key = slots /\ DOMAIN target.reKey = slots
      /\ \A i \in slots : /\ DOMAIN target.raw[i] = 0..(room - 1)
                          /\ target.tail[i] = [o \in 0..(Ratio - 1) |-> target.tail[i][o]]
                          /\ DOMAIN target.block[i] = places /\ DOMAIN target.key[i] = places
                          /\ DOMAIN target.reKey[i] = places
  BY <1>3 DEF Shaped
<1>5. \A i \in slots : /\ i \in Nat /\ RowOf(i) \in Rows(target)
                       /\ HeadOf(i) \in Slots(1) /\ HeadOf(HeadOf(i)) = HeadOf(i)
  BY <1>3, SlotsAre DEF Rows
<1>6. c \in places
  <2> HIDE DEF c, t
  <2> QED BY <1>2, BlocksFit
<1>7. d = [target EXCEPT
        !.position = prompt,
        !.raw = Replicated(source.raw, target.raw, prompt),
        !.tail = tail,
        !.tailLength = lengths,
        !.block = Replicated(source.block, target.block, c),
        !.key = Replicated(source.key, target.key, c),
        !.count = counts,
        !.reKey = Replicated(source.reKey, target.reKey, c),
        !.reCount = counts]
  <2> HIDE DEF target
  <2> QED BY <1>1, <1>3 DEF PrefillFrom
<1> DEFINE Kept(from, into, used, copy) ==
             /\ DOMAIN copy = slots
             /\ \A i \in slots :
                  /\ DOMAIN copy[i] = DOMAIN into[i]
                  /\ \A x \in DOMAIN into[i] : x < used => copy[i][x] = from[HeadOf(i)][x]
<1>8. \A from, into, used : Kept(from, into, used, Replicated(from, into, used))
  OBVIOUS
<1>9. /\ DOMAIN tail = slots /\ DOMAIN lengths = Rows(target) /\ DOMAIN counts = Rows(target)
      /\ \A r \in Rows(target) : lengths[r] = t /\ counts[r] = c
      /\ \A i \in slots : tail[i] = IF i < batch THEN source.tail[0] ELSE target.tail[i]
  OBVIOUS
<1> HIDE DEF target, c, t, slots, places, Replicated, tail, lengths, counts, d, Kept
<1>10. /\ DOMAIN d = Fields /\ d.batch = batch /\ d.room = room /\ d.position = prompt
       /\ d.tail = tail /\ d.tailLength = lengths /\ d.count = counts /\ d.reCount = counts
  BY <1>3, <1>4, <1>7 DEF Fields
<1>11. /\ d.raw = Replicated(source.raw, target.raw, prompt)
       /\ d.block = Replicated(source.block, target.block, c)
       /\ d.key = Replicated(source.key, target.key, c)
       /\ d.reKey = Replicated(source.reKey, target.reKey, c)
  BY <1>4, <1>7 DEF Fields
<1>12. /\ Kept(source.raw, target.raw, prompt, d.raw)
       /\ Kept(source.block, target.block, c, d.block)
       /\ Kept(source.key, target.key, c, d.key)
       /\ Kept(source.reKey, target.reKey, c, d.reKey)
  BY <1>8, <1>11
<1>13. Rows(d) = Rows(target) /\ Slots(d.batch) = slots /\ 0 \in Rows(d)
  BY <1>3, <1>10 DEF Rows, slots
<1>14. /\ DOMAIN d.raw = slots
       /\ \A i \in slots : DOMAIN d.raw[i] = 0..(room - 1)
       /\ \A i \in slots : \A x \in 0..(room - 1) : x < prompt =>
            d.raw[i][x] = source.raw[HeadOf(i)][x]
  <2>1. \A i \in slots : DOMAIN target.raw[i] = 0..(room - 1)
    BY <1>4
  <2>2. DOMAIN d.raw = slots /\ \A i \in slots : DOMAIN d.raw[i] = DOMAIN target.raw[i]
    BY <1>12 DEF Kept
  <2>3. \A i \in slots : \A x \in DOMAIN target.raw[i] : x < prompt =>
          d.raw[i][x] = source.raw[HeadOf(i)][x]
    BY <1>12 DEF Kept
  <2> QED BY <2>1, <2>2, <2>3
<1>15. /\ DOMAIN d.block = slots /\ \A i \in slots : DOMAIN d.block[i] = places
       /\ \A i \in slots : \A x \in places : x < c =>
            d.block[i][x] = source.block[HeadOf(i)][x]
  <2>1. \A i \in slots : DOMAIN target.block[i] = places
    BY <1>4
  <2>2. DOMAIN d.block = slots /\ \A i \in slots : DOMAIN d.block[i] = DOMAIN target.block[i]
    BY <1>12 DEF Kept
  <2>3. \A i \in slots : \A x \in DOMAIN target.block[i] : x < c =>
          d.block[i][x] = source.block[HeadOf(i)][x]
    BY <1>12 DEF Kept
  <2> QED BY <2>1, <2>2, <2>3
<1>16. /\ DOMAIN d.key = slots /\ \A i \in slots : DOMAIN d.key[i] = places
       /\ \A i \in slots : \A x \in places : x < c =>
            d.key[i][x] = source.key[HeadOf(i)][x]
  <2>1. \A i \in slots : DOMAIN target.key[i] = places
    BY <1>4
  <2>2. DOMAIN d.key = slots /\ \A i \in slots : DOMAIN d.key[i] = DOMAIN target.key[i]
    BY <1>12 DEF Kept
  <2>3. \A i \in slots : \A x \in DOMAIN target.key[i] : x < c =>
          d.key[i][x] = source.key[HeadOf(i)][x]
    BY <1>12 DEF Kept
  <2> QED BY <2>1, <2>2, <2>3
<1>17. /\ DOMAIN d.reKey = slots /\ \A i \in slots : DOMAIN d.reKey[i] = places
       /\ \A i \in slots : \A x \in places : x < c =>
            d.reKey[i][x] = source.reKey[HeadOf(i)][x]
  <2>1. \A i \in slots : DOMAIN target.reKey[i] = places
    BY <1>4
  <2>2. DOMAIN d.reKey = slots /\ \A i \in slots : DOMAIN d.reKey[i] = DOMAIN target.reKey[i]
    BY <1>12 DEF Kept
  <2>3. \A i \in slots : \A x \in DOMAIN target.reKey[i] : x < c =>
          d.reKey[i][x] = source.reKey[HeadOf(i)][x]
    BY <1>12 DEF Kept
  <2> QED BY <2>1, <2>2, <2>3
<1>18. \A i \in slots : d.tail[i] = [o \in 0..(Ratio - 1) |-> d.tail[i][o]]
  <2>1. source.tail[0] = [o \in 0..(Ratio - 1) |-> source.tail[0][o]]
    BY <1>1, SlotsAre DEF Shaped
  <2> TAKE i \in slots
  <2>2. CASE i < batch
    BY <1>9, <1>10, <2>1, <2>2
  <2>3. CASE ~(i < batch)
    BY <1>4, <1>9, <1>10, <2>3
  <2> QED BY <2>2, <2>3
<1>19. Shaped(d)
  BY <1>9, <1>10, <1>13, <1>14, <1>15, <1>16, <1>17, <1>18 DEF Shaped, places
<1>20. d.count[0] = c /\ d.reCount[0] = c /\ d.tailLength[0] = t
  BY <1>9, <1>10, <1>13
<1>21. At(d, prompt)
  BY <1>2, <1>9, <1>10, <1>13, <1>20 DEF At
<1>22. \A x \in 0..(c - 1) : x \in places /\ x < c
  <2>1. MaxBlocks(room) \in Nat
    BY MaxBlocksIs
  <2> QED BY <1>2, <1>6, <2>1 DEF places
<1>23. Keyed(d)
  <2> SUFFICES ASSUME NEW i \in slots, NEW x \in 0..(c - 1)
               PROVE  d.key[i][x] = d.block[i][x] /\ d.reKey[i][x] = d.block[i][x]
    BY <1>13, <1>20 DEF Keyed
  <2>1. HeadOf(i) \in Slots(source.batch)
    BY <1>1, <1>5
  <2>2. /\ source.key[HeadOf(i)][x] = source.block[HeadOf(i)][x]
        /\ source.reKey[HeadOf(i)][x] = source.block[HeadOf(i)][x]
    BY <1>1, <2>1 DEF Keyed, c
  <2> QED BY <1>15, <1>16, <1>17, <1>22, <2>2
<1>24. \A i \in slots : \A p \in 0..(prompt - 1) :
         KeyValue(HeadOf(i), p, prompt) = KeyValue(i, p, prompt)
  <2>1. \A p \in 0..(prompt - 1) : p < prompt
    OBVIOUS
  <2> QED BY <1>5, <2>1 DEF KeyValue
<1>25. \A i \in slots : \A x \in 0..(c - 1) : d.block[i][x] = RowsOf(i, x, prompt)
  <2> TAKE i \in slots
  <2> TAKE x \in 0..(c - 1)
  <2>1. source.block[HeadOf(i)][x] = RowsOf(HeadOf(i), x, prompt)
    BY <1>1, <1>5 DEF Exact, c
  <2>2. \A o \in 0..(Ratio - 1) :
          KeyValue(HeadOf(i), x * Ratio + o, prompt) = KeyValue(i, x * Ratio + o, prompt)
    BY <1>2, <1>24, BelowP
  <2>3. RowsOf(HeadOf(i), x, prompt) = RowsOf(i, x, prompt)
    BY <2>2 DEF RowsOf
  <2> QED BY <1>15, <1>22, <2>1, <2>3
<1>26. ASSUME c \notin Splits, NEW i \in slots, NEW o \in 0..(t - 1)
       PROVE  d.tail[i][o] = KeyValue(i, c * Ratio + o, prompt)
  <2>1. prompt \div Ratio = c /\ prompt % Ratio = t
    <3>1. c \in Nat /\ t \in 0..(Ratio - 1) /\ prompt = c * Ratio + t
      BY <1>2
    <3>2. (c * Ratio + t) \div Ratio = c /\ (c * Ratio + t) % Ratio = t
      BY <3>1, BlockOf
    <3> QED BY <3>1, <3>2
  <2>2. t # 0
    BY <1>2
  <2>3. ~Split(c)
    BY <1>2, <1>26 DEF Splits
  <2>4. Heads = 1
    BY <2>1, <2>2, <2>3, KVConstants DEF Split
  <2>5. i < batch /\ HeadOf(i) = 0 /\ HeadOf(0) = 0
    BY <1>5, <2>4, SlotsAre DEF slots, Slots
  <2>6. source.tail[0][o] = KeyValue(0, c * Ratio + o, prompt)
    BY <1>1, SlotsAre DEF Exact, c, t
  <2>7. c * Ratio + o \in 0..(prompt - 1)
    BY <1>2, BelowP
  <2>8. KeyValue(0, c * Ratio + o, prompt) = KeyValue(i, c * Ratio + o, prompt)
    BY <1>24, <2>5, <2>7
  <2> QED BY <1>9, <1>10, <2>5, <2>6, <2>8
<1>27. Exact(d, prompt, Splits)
  BY <1>13, <1>20, <1>25, <1>26 DEF Exact
<1>28. Windowed(d, prompt)
  <2> SUFFICES ASSUME NEW i \in slots, NEW p \in 0..(prompt - 1), p >= prompt - Window
               PROVE  d.raw[i][p] = KeyValue(i, p, prompt)
    BY <1>10, <1>13 DEF Windowed
  <2>1. p \in 0..(room - 1) /\ p < prompt
    OBVIOUS
  <2>2. source.raw[HeadOf(i)][p] = KeyValue(HeadOf(i), p, prompt)
    BY <1>1, <1>5 DEF Windowed
  <2> QED BY <1>14, <1>24, <2>1, <2>2
<1> QED BY <1>10, <1>19, <1>20, <1>21, <1>23, <1>27, <1>28 DEF Whole, Global, d, target

-----------------------------------------------------------------------------
(* The life of a request.                                                  *)

LEMMA SplitsSame ==
  ASSUME prompt' = prompt
  PROVE  Splits' = Splits
BY DEF Splits, Split

LEMMA RequestNext ==
  ASSUME KVInv, Request
  PROVE  KVInv'
<1>1. stage = "idle" /\ decode = None /\ decode' = None /\ kept' = kept
      /\ prompt' \in 1..SequenceLen /\ SequenceLen \in Nat \ {0}
  BY KVConstants DEF KVInv, Request
<1>2. kept' = None \/ (Prompted(kept') /\ (~kept'.stripped => Windowed(kept', kept'.position)))
  BY <1>1 DEF KVInv
<1>3. CASE kv' = NewBuffer(1, SequenceLen) /\ stage' = "forward"
  <2>1. 1 \in Nat \ {0} /\ SequenceLen \in Nat
    BY <1>1
  <2>2. /\ kv'.batch = 1 /\ kv'.room = SequenceLen /\ kv'.position = 0
        /\ Whole(kv', 0, {}) /\ Windowed(kv', 0)
    BY <1>3, <2>1, NewBufferIs
  <2>3. Prompted(kv')
    BY <2>2 DEF Prompted
  <2> QED BY <1>1, <1>2, <1>3, <2>2, <2>3 DEF KVInv
<1>4. CASE kept # None /\ kept.position < prompt' /\ kv' = kept
           /\ stage' = IF kept.stripped THEN "replay" ELSE "forward"
  BY <1>1, <1>2, <1>4 DEF KVInv
<1> QED BY <1>3, <1>4 DEF Request

LEMMA ReplayNext ==
  ASSUME KVInv, Replay
  PROVE  KVInv'
<1>1. stage = "replay" /\ stage' = "forward" /\ kv' = Replayed(kv)
      /\ UNCHANGED <<prompt, decode, kept>> /\ Prompted(kv) /\ kv.position < prompt
  BY DEF Replay, KVInv
<1>2. Prompted(kv') /\ kv'.position = kv.position /\ Windowed(kv', kv'.position)
  BY <1>1, ReplayedIs
<1> QED BY <1>1, <1>2 DEF KVInv

LEMMA PrefillNext ==
  ASSUME KVInv, Prefill
  PROVE  KVInv'
<1> DEFINE n == prompt - kv.position
<1>1. /\ stage = "forward" /\ stage' = "prefilled" /\ UNCHANGED <<prompt, decode>>
      /\ kv' = Forward(kv, n, prompt, FALSE)
      /\ Prompted(kv) /\ kv.position < prompt /\ Windowed(kv, kv.position)
      /\ prompt \in 0..SequenceLen /\ decode = None
  BY DEF Prefill, KVInv
<1>2. kv.batch = 1 /\ kv.room = SequenceLen /\ Global(kv, kv.position, kv.position, {})
  BY <1>1 DEF Prompted, Whole
<1>3. kv.position \in Nat /\ prompt \in Nat /\ SequenceLen \in Nat /\ Shaped(kv)
  BY <1>1, <1>2, KVConstants DEF Global, Shaped
<1>4. n \in Nat /\ kv.position + n = prompt /\ prompt <= kv.room
  BY <1>1, <1>2, <1>3
<1>5. Global(kv, kv.position, prompt, {})
  BY <1>1, <1>2, <1>3, Prefilled DEF Global
<1> HIDE DEF n
<1>6. /\ kv'.position = prompt /\ Whole(kv', prompt, {})
      /\ Rewritten(kv', kv, kv.position, n, prompt)
  BY <1>1, <1>4, <1>5, ForwardIs
<1>7. Windowed(kv, prompt)
  BY <1>1, <1>3, WindowPrefilled
<1>8. Windowed(kv', prompt)
  BY <1>3, <1>4, <1>6, <1>7, WindowMoves
<1>9. Prompted(kv')
  BY <1>2, <1>6 DEF Prompted, Rewritten
<1>10. kept' = None \/ (Prompted(kept') /\ (~kept'.stripped => Windowed(kept', kept'.position)))
  <2>1. CASE \E form \in Forms : kept' = Snapshot(kv', form)
    BY <1>6, <1>8, <1>9, <2>1, SnapshotIs
  <2>2. CASE kept' \in {kept, None}
    BY <2>2 DEF KVInv
  <2> QED BY <2>1, <2>2 DEF Prefill
<1> QED BY <1>1, <1>6, <1>8, <1>9, <1>10 DEF KVInv

LEMMA ReplicateNext ==
  ASSUME KVInv, Replicate
  PROVE  KVInv'
<1>1. /\ stage = "prefilled" /\ stage' = "decode" /\ kv' = None /\ UNCHANGED <<prompt, kept>>
      /\ Prompted(kv) /\ kv.position = prompt /\ Windowed(kv, prompt)
      /\ prompt \in 0..SequenceLen
  BY DEF Replicate, KVInv
<1>2. SequenceLen \in Nat /\ MaxTokens \in Nat \ {0} /\ Samples \subseteq Nat \ {0}
  BY KVConstants
<1>3. prompt \in Nat /\ prompt + MaxTokens \in Nat /\ prompt <= prompt + MaxTokens
  BY <1>1, <1>2
<1>4. PICK numSamples \in Samples :
        decode' = PrefillFrom(NewBuffer(numSamples, prompt + MaxTokens), kv)
  BY DEF Replicate
<1>5. /\ decode'.room = prompt + MaxTokens /\ decode'.position = prompt
      /\ Whole(decode', prompt, Splits) /\ Windowed(decode', prompt)
  BY <1>1, <1>2, <1>3, <1>4, PrefillFromIs
<1>6. prompt \in prompt..(prompt + MaxTokens)
  BY <1>3
<1>7. kept' = None \/ (Prompted(kept') /\ (~kept'.stripped => Windowed(kept', kept'.position)))
  BY <1>1 DEF KVInv
<1> QED BY <1>1, <1>5, <1>6, <1>7, SplitsSame DEF KVInv

LEMMA DecodeNext ==
  ASSUME KVInv, Decode
  PROVE  KVInv'
<1>1. /\ stage = "decode" /\ UNCHANGED <<stage, prompt, kv, kept>>
      /\ decode.room = prompt + MaxTokens /\ decode.position \in prompt..decode.room
      /\ decode.position < prompt + MaxTokens
      /\ Whole(decode, prompt, Splits) /\ Windowed(decode, prompt)
      /\ decode' = Forward(decode, 1, prompt, FALSE)
      /\ prompt \in 0..SequenceLen
  BY DEF Decode, KVInv
<1>2. prompt \in Nat /\ MaxTokens \in Nat /\ decode.position \in Nat
  BY <1>1, KVConstants
<1>3. decode.position + 1 \in prompt..(prompt + MaxTokens) /\ decode.position + 1 <= decode.room
  BY <1>1, <1>2
<1>4. Global(decode, decode.position, prompt, Splits) /\ Shaped(decode)
  BY <1>1 DEF Whole, Global
<1>5. /\ decode'.position = decode.position + 1 /\ Whole(decode', prompt, Splits)
      /\ Rewritten(decode', decode, decode.position, 1, prompt)
  BY <1>1, <1>3, <1>4, ForwardIs
<1>6. Windowed(decode', prompt)
  BY <1>1, <1>3, <1>4, <1>5, WindowMoves
<1>7. decode'.room = prompt + MaxTokens
  BY <1>1, <1>5 DEF Rewritten
<1>8. kept' = None \/ (Prompted(kept') /\ (~kept'.stripped => Windowed(kept', kept'.position)))
  BY <1>1 DEF KVInv
<1>9. kv = None
  BY <1>1 DEF KVInv
<1> QED BY <1>1, <1>3, <1>5, <1>6, <1>7, <1>8, <1>9, SplitsSame DEF KVInv

LEMMA KVNext ==
  ASSUME KVInv, [Next]_vars
  PROVE  KVInv'
<1>1. CASE Request
  BY <1>1, RequestNext
<1>2. CASE Replay
  BY <1>2, ReplayNext
<1>3. CASE Prefill
  BY <1>3, PrefillNext
<1>4. CASE Replicate
  BY <1>4, ReplicateNext
<1>5. CASE Decode
  BY <1>5, DecodeNext
<1>6. CASE Finish
  <2>1. 0 \in 0..SequenceLen
    BY KVConstants
  <2> QED BY <1>6, <2>1 DEF Finish, KVInv
<1>7. CASE UNCHANGED vars
  BY <1>7, SplitsSame DEF vars, KVInv
<1> QED BY <1>1, <1>2, <1>3, <1>4, <1>5, <1>6, <1>7 DEF Next

(***************************************************************************)
(* What every buffer of a request holds, on every path through the prefix  *)
(* cache (KVBuffer's methods, Engine.GenerateWith).                        *)
(***************************************************************************)
THEOREM KVInvariance == Spec => []KVInv
<1>1. Init => KVInv
  <2>1. 0 \in 0..SequenceLen
    BY KVConstants
  <2> QED BY <2>1 DEF Init, KVInv
<1> QED BY <1>1, KVNext, PTL DEF Spec

LEMMA WholeIs ==
  ASSUME NEW b, NEW prefilled, NEW S, Whole(b, prefilled, S)
  PROVE  /\ b.count[0] \in Nat
         /\ \A i \in Slots(b.batch) :
              /\ b.count[RowOf(i)] = b.count[0] /\ b.reCount[RowOf(i)] = b.count[0]
              /\ \A x \in 0..(b.count[0] - 1) :
                   /\ b.key[i][x] = b.block[i][x] /\ b.reKey[i][x] = b.block[i][x]
                   /\ x \notin S => BlockExact(b, i, x, prefilled)
              /\ b.count[0] \notin S => TailExact(b, i, prefilled)
<1> DEFINE c == b.count[0]
           t == b.tailLength[0]
<1>1. Shaped(b) /\ Keyed(b) /\ Exact(b, prefilled, S) /\ b.reCount[0] = c
  BY DEF Whole, Global
<1>2. /\ c \in Nat /\ t \in 0..(Ratio - 1)
      /\ \A r \in Rows(b) : /\ b.tailLength[r] = t /\ b.count[r] = c /\ b.reCount[r] = c
  BY DEF Whole, Global, At
<1>3. \A i \in Slots(b.batch) : RowOf(i) \in Rows(b)
  BY <1>1, SlotsAre DEF Shaped, Rows
<1> HIDE DEF c, t
<1>4. ASSUME NEW i \in Slots(b.batch)
      PROVE  \A x \in 0..(c - 1) :
               /\ b.key[i][x] = b.block[i][x] /\ b.reKey[i][x] = b.block[i][x]
               /\ x \notin S => BlockExact(b, i, x, prefilled)
  <2>1. \A x \in 0..(c - 1) : b.key[i][x] = b.block[i][x] /\ b.reKey[i][x] = b.block[i][x]
    BY <1>1 DEF Keyed, c
  <2>2. \A x \in 0..(c - 1) : x \notin S => BlockExact(b, i, x, prefilled)
    BY <1>1 DEF Exact, BlockExact, c
  <2> QED BY <2>1, <2>2
<1>5. ASSUME c \notin S, NEW i \in Slots(b.batch)
      PROVE  TailExact(b, i, prefilled)
  <2> SUFFICES ASSUME NEW o \in 0..(t - 1)
               PROVE  b.tail[i][o] = RowsOf(i, c, prefilled)[o]
    BY <1>2, <1>3 DEF TailExact
  <2>1. b.tail[i][o] = KeyValue(i, c * Ratio + o, prefilled)
    BY <1>1, <1>5 DEF Exact, c, t
  <2>2. o \in 0..(Ratio - 1)
    BY <1>2, BlockOf
  <2> QED BY <2>1, <2>2 DEF RowsOf
<1> QED BY <1>2, <1>3, <1>4, <1>5 DEF c

LEMMA BuffersAre ==
  ASSUME KVInv
  PROVE  /\ kv # None => Prompted(kv)
         /\ kept # None => Prompted(kept)
         /\ decode # None => Whole(decode, prompt, Splits)
BY DEF KVInv

(***************************************************************************)
(* No position, tail or block count ever runs past what was allocated for  *)
(* it, in any row, and all rows of a buffer advance together (KVBuffer,    *)
(* compressTail, PrefillFrom).                                             *)
(***************************************************************************)
THEOREM KVTypes == Spec => []TypeOK
<1>1. ASSUME NEW b, NEW prefilled, NEW S, Whole(b, prefilled, S)
      PROVE  WellFormed(b)
  <2> DEFINE c == b.count[0]
             t == b.tailLength[0]
  <2>1. Shaped(b) /\ At(b, b.position) /\ b.reCount[0] = c
    BY <1>1 DEF Whole, Global
  <2>2. /\ c \in Nat /\ t \in 0..(Ratio - 1) /\ c * Ratio + t = b.position
        /\ \A r \in Rows(b) : /\ b.tailLength[r] = t /\ b.count[r] = c /\ b.reCount[r] = c
    BY <2>1 DEF At
  <2>3. b.room \in Nat /\ b.position \in 0..b.room /\ DOMAIN b.raw = Slots(b.batch)
    BY <2>1 DEF Shaped
  <2> HIDE DEF c, t
  <2>4. c \in 0..(MaxBlocks(b.room) - 1) /\ MaxBlocks(b.room) \in Nat
    BY <2>2, <2>3, BlocksFit, MaxBlocksIs
  <2>5. c \in 0..MaxBlocks(b.room)
    BY <2>4
  <2> QED BY <2>2, <2>3, <2>5 DEF WellFormed
<1>2. ASSUME KVInv
      PROVE  TypeOK
  <2>1. \A b \in Buffers : WellFormed(b)
    BY <1>1, <1>2, BuffersAre DEF Buffers, Prompted
  <2> QED BY <1>2, <2>1 DEF KVInv, TypeOK
<1> QED BY <1>2, KVInvariance, PTL

(***************************************************************************)
(* Every block and tail of every row and head is made of that row's tokens *)
(* and that head's keys, in order, with none missing and none twice,       *)
(* however often the prefix was kept and reused, and the indexer keys are  *)
(* those of the blocks; all but the block whose tail PrefillFrom           *)
(* replicated (appendGlobalTail, compressTail, UnmarshalKVBuffer).         *)
(***************************************************************************)
THEOREM KVBlocks == Spec => []BlocksExact
<1>1. ASSUME KVInv
      PROVE  BlocksExact
  <2>1. \A b \in Buffers : \E prefilled, S : Whole(b, prefilled, S)
    BY <1>1, BuffersAre DEF Buffers, Prompted
  <2>2. IndexerKeysExact
    <3> SUFFICES ASSUME NEW b \in Buffers, NEW i \in Slots(b.batch)
                 PROVE  /\ \A x \in 0..(b.count[RowOf(i)] - 1) : b.key[i][x] = b.block[i][x]
                        /\ \A x \in 0..(b.reCount[RowOf(i)] - 1) : b.reKey[i][x] = b.block[i][x]
      BY DEF IndexerKeysExact
    <3>1. PICK prefilled, S : Whole(b, prefilled, S)
      BY <2>1
    <3>2. b.count[RowOf(i)] = b.count[0] /\ b.reCount[RowOf(i)] = b.count[0]
      BY <3>1, WholeIs
    <3>3. ASSUME NEW x \in 0..(b.count[0] - 1)
          PROVE  b.key[i][x] = b.block[i][x] /\ b.reKey[i][x] = b.block[i][x]
      BY <3>1, WholeIs
    <3> QED BY <3>2, <3>3
  <2>3. ASSUME NEW b \in {kv, kept} \ {None}, NEW i \in Slots(b.batch)
        PROVE  /\ \A x \in 0..(b.count[RowOf(i)] - 1) : BlockExact(b, i, x, b.position)
               /\ TailExact(b, i, b.position)
    <3>1. Whole(b, b.position, {})
      BY <1>1, BuffersAre DEF Prompted
    <3>2. b.count[RowOf(i)] = b.count[0]
      BY <3>1, WholeIs
    <3>3. ASSUME NEW x \in 0..(b.count[0] - 1)
          PROVE  BlockExact(b, i, x, b.position)
      <4>1. x \notin {}
        OBVIOUS
      <4> QED BY <3>1, <4>1, WholeIs
    <3>4. TailExact(b, i, b.position)
      <4>1. b.count[0] \notin {}
        OBVIOUS
      <4> QED BY <3>1, <4>1, WholeIs
    <3> QED BY <3>2, <3>3, <3>4
  <2>4. ASSUME decode # None, NEW i \in Slots(decode.batch)
        PROVE  /\ \A x \in 0..(decode.count[RowOf(i)] - 1) :
                    ~Split(x) => BlockExact(decode, i, x, prompt)
               /\ ~Split(decode.count[RowOf(i)]) => TailExact(decode, i, prompt)
    <3>1. Whole(decode, prompt, Splits)
      BY <1>1, <2>4, BuffersAre
    <3>2. /\ decode.count[0] \in Nat /\ decode.count[RowOf(i)] = decode.count[0]
          /\ \A x \in 0..(decode.count[0] - 1) :
               x \notin Splits => BlockExact(decode, i, x, prompt)
          /\ decode.count[0] \notin Splits => TailExact(decode, i, prompt)
      BY <3>1, WholeIs
    <3>3. \A x : x \in Splits => Split(x)
      BY DEF Splits
    <3> QED BY <3>2, <3>3
  <2> QED BY <2>2, <2>3, <2>4 DEF BlocksExact
<1> QED BY <1>1, KVInvariance, PTL

(***************************************************************************)
(* The rows the sliding window of the next token covers are present and    *)
(* are its own row's, on every path to a forward pass (replayLocalState,   *)
(* PrefillFrom, writeKeyValue).                                            *)
(***************************************************************************)
THEOREM KVWindow == Spec => []WindowExact
<1>1. ASSUME KVInv
      PROVE  WindowExact
  <2> SUFFICES ASSUME NEW b \in {kv, decode} \ {None}, stage # "replay"
               PROVE  Windowed(b, IF b = decode THEN prompt ELSE b.position)
    BY DEF WindowExact, Windowed
  <2>1. CASE stage = "decode"
    <3>1. b = decode
      BY <1>1, <2>1 DEF KVInv
    <3> QED BY <1>1, <2>1, <3>1 DEF KVInv
  <2>2. CASE stage # "decode"
    <3>1. decode = None /\ b = kv /\ b # decode
      BY <1>1, <2>2 DEF KVInv
    <3>2. stage \in {"forward", "prefilled"}
      BY <1>1, <3>1 DEF KVInv
    <3> QED BY <1>1, <3>1, <3>2 DEF KVInv
  <2> QED BY <2>1, <2>2
<1> QED BY <1>1, KVInvariance, PTL

=============================================================================
