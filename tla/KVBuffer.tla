------------------------------ MODULE KVBuffer ------------------------------
(***************************************************************************)
(* The key/value cache of a compressed model (model/kvcache.go) over the    *)
(* life of a request: filled by forward passes, kept and taken back by a   *)
(* prefix cache, replicated over the sample rows and decoded into.         *)
(*                                                                         *)
(* There are two layers: a full layer, which buffers rows in a tail and    *)
(* compresses each complete one, and a reindex layer, which keeps indexer  *)
(* keys of its own for the full layer's blocks.  A key/value row is known  *)
(* by its head and its token; a block by the rows it was made of; a        *)
(* projection by its block.  Buffers are indexed by slot, as in the code:  *)
(* slot row*Heads+head for what is per head.                               *)
(***************************************************************************)
EXTENDS Integers, Sequences

CONSTANTS
  Heads,        \* Config.NumKVHead
  Ratio,        \* Config.Compression
  Window,       \* Config.SWAWindowSize
  SequenceLen,  \* Config.SequenceLen, the longest prompt here
  Samples,      \* numSamples a request may ask for
  MaxTokens,    \* the tokens a request decodes
  Forms,        \* how the prefix cache keeps a buffer: "clone", "stripped",
                \* "file" or "strippedFile"
  None

ASSUME KVConstants ==
  /\ Heads \in Nat \ {0} /\ Ratio \in Nat /\ Ratio > 1 /\ Window \in Nat \ {0}
  /\ SequenceLen \in Nat \ {0} /\ MaxTokens \in Nat \ {0}
  /\ Samples \subseteq Nat \ {0}
  /\ Forms \subseteq {"clone", "stripped", "file", "strippedFile"}

VARIABLES
  stage,        \* where the request is
  prompt,       \* the length of its prompt, a prefix of one token sequence
  kv,           \* the batch-1 buffer of the request, or None
  decode,       \* the buffer of its sample rows, or None
  kept          \* the snapshot the prefix cache has for the next one, or None

vars == <<stage, prompt, kv, decode, kept>>

Zero == << >>
Rows(b) == 0..(b.batch - 1)
Slots(batch) == 0..(batch * Heads - 1)
RowOf(slot) == slot \div Heads
HeadOf(slot) == slot % Heads
MaxBlocks(room) == room \div Ratio + 1

\* The row of a token: one of the prompt's, or one sampled for a sample row.
KeyValue(slot, position, prefilled) ==
  <<HeadOf(slot), IF position < prefilled THEN 0 ELSE RowOf(slot) + 1, position>>

Unwritten(batch, count) == [i \in Slots(batch) |-> [x \in 0..(count - 1) |-> Zero]]

\* NewKVBuffer, EnableCompressionLayers and EnableIndexerKeysLayers.
NewBuffer(batch, room) ==
  [batch      |-> batch,
   room       |-> room,
   position   |-> 0,
   raw        |-> Unwritten(batch, room),
   tail       |-> Unwritten(batch, Ratio),
   tailLength |-> [r \in 0..(batch - 1) |-> 0],
   block      |-> Unwritten(batch, MaxBlocks(room)),
   key        |-> Unwritten(batch, MaxBlocks(room)),
   count      |-> [r \in 0..(batch - 1) |-> 0],
   reKey      |-> Unwritten(batch, MaxBlocks(room)),
   reCount    |-> [r \in 0..(batch - 1) |-> 0],
   stripped   |-> FALSE]

Init ==
  /\ stage = "idle"
  /\ prompt = 0
  /\ kv = None
  /\ decode = None
  /\ kept = None

-----------------------------------------------------------------------------
(* A forward pass over n tokens, by which every row advances.              *)

\* writeKeyValue
WithRaw(b, n, prefilled) ==
  [b EXCEPT !.raw = [i \in Slots(b.batch) |-> [p \in 0..(b.room - 1) |->
     IF p \in b.position..(b.position + n - 1)
       THEN KeyValue(i, p, prefilled) ELSE b.raw[i][p]]]]

CountedFirstBug(b) ==
  [b EXCEPT !.block = [i \in Slots(b.batch) |->
                         [b.block[i] EXCEPT ![b.count[RowOf(i)] + 1] = b.tail[i]]],
            !.key = [i \in Slots(b.batch) |->
                       [b.key[i] EXCEPT ![b.count[RowOf(i)] + 1] = b.tail[i]]],
            !.count = [r \in Rows(b) |-> @[r] + 1]]

\* compressTail: the entry goes to where the counts say, then they advance.
Compressed(b) ==
  [b EXCEPT !.block = [i \in Slots(b.batch) |->
                         [b.block[i] EXCEPT ![b.count[RowOf(i)]] = b.tail[i]]],
            !.key = [i \in Slots(b.batch) |->
                       [b.key[i] EXCEPT ![b.count[RowOf(i)]] = b.tail[i]]],
            !.count = [r \in Rows(b) |-> @[r] + 1]]

ResetTail(b) == [b EXCEPT !.tailLength = [r \in Rows(b) |-> 0]]

\* AppendTailRow for every row, and compressTail when row 0's tail is complete.
WithTailRow(b, position, prefilled) ==
  LET appended ==
        [b EXCEPT !.tail = [i \in Slots(b.batch) |->
                     [b.tail[i] EXCEPT ![b.tailLength[RowOf(i)]] =
                        KeyValue(i, position, prefilled)]],
                  !.tailLength = [r \in Rows(b) |-> @[r] + 1]]
  IN  IF appended.tailLength[0] = Ratio
        THEN ResetTail(Compressed(appended)) ELSE appended

\* appendGlobalTail
WithTailRows(b, n, prefilled) ==
  LET built[i \in 0..n] ==
        IF i = 0 THEN b ELSE WithTailRow(built[i - 1], b.position + i - 1, prefilled)
  IN  built[n]

\* The full layer's blocks that the reindex layer has no key for.
NotReindexed(b) == b.reCount[0]..(b.count[0] - 1)

\* cacheReusedIndexerKeys
Reindexed(b) ==
  LET new == NotReindexed(b)
  IN  [b EXCEPT !.reKey = [i \in Slots(b.batch) |-> [x \in 0..(MaxBlocks(b.room) - 1) |->
                             IF x \in new THEN b.block[i][x] ELSE b.reKey[i][x]]],
                !.reCount = [r \in Rows(b) |-> b.reCount[r] + b.count[0] - b.reCount[0]]]

\* A replay rewrites local rows only: the global state is already there.
AppendsGlobal(replay) == ~replay

Forward(b, n, prefilled, replay) ==
  LET written == WithRaw(b, n, prefilled)
      layered == IF AppendsGlobal(replay)
                   THEN Reindexed(WithTailRows(written, n, prefilled)) ELSE written
  IN  [layered EXCEPT !.position = @ + n]

-----------------------------------------------------------------------------
(* Snapshots.  Clone copies everything; StripRaw clears the raw rows;      *)
(* MarshalBinary and UnmarshalKVBuffer carry over what is in use.          *)

StripRaw(b) == [b EXCEPT !.raw = Unwritten(b.batch, b.room), !.stripped = TRUE]

InUse(data, used) ==
  [i \in DOMAIN data |-> [x \in DOMAIN data[i] |->
     IF x < used[RowOf(i)] THEN data[i][x] ELSE Zero]]

Unmarshalled(b) ==
  LET Always(n) == [r \in Rows(b) |-> n]
  IN  [b EXCEPT !.raw = InUse(@, Always(IF b.stripped THEN 0 ELSE b.position)),
                !.tail = InUse(@, b.tailLength),
                !.block = InUse(@, b.count),
                !.key = InUse(@, b.count),
                !.reKey = InUse(@, b.reCount)]

Snapshot(b, form) ==
  CASE form = "clone" -> b
    [] form = "stripped" -> StripRaw(b)
    [] form = "file" -> Unmarshalled(b)
    [] form = "strippedFile" -> Unmarshalled(StripRaw(b))

ShortReplayBug(b) == IF b.position - Window + 1 < 0 THEN 0 ELSE b.position - Window + 1

ReplayStart(b) == IF b.position - Window - 1 < 0 THEN 0 ELSE b.position - Window - 1

\* replayLocalState: SetPosition back, and ReplaySWA up to where it was.
Replayed(b) ==
  LET start == ReplayStart(b)
  IN  Forward([b EXCEPT !.position = start], b.position - start, b.position, TRUE)

\* PrefillFrom.  The tails of the source's first head are copied by row number;
\* everything else is copied to every row and head.
PrefillFrom(target, source) ==
  LET Replicated(from, into, used) ==
        [i \in Slots(target.batch) |-> [x \in DOMAIN into[i] |->
           IF x < used THEN from[HeadOf(i)][x] ELSE into[i][x]]]
  IN  [target EXCEPT
        !.position = source.position,
        !.raw = Replicated(source.raw, @, source.position),
        !.tail = [i \in Slots(target.batch) |->
                    IF i < target.batch THEN source.tail[0] ELSE @[i]],
        !.tailLength = [r \in Rows(target) |-> source.tailLength[0]],
        !.block = Replicated(source.block, @, source.count[0]),
        !.key = Replicated(source.key, @, source.count[0]),
        !.count = [r \in Rows(target) |-> source.count[0]],
        !.reKey = Replicated(source.reKey, @, source.reCount[0]),
        !.reCount = [r \in Rows(target) |-> source.reCount[0]]]

-----------------------------------------------------------------------------
(* A request, in the engine.                                               *)

Request ==
  /\ stage = "idle"
  /\ prompt' \in 1..SequenceLen
  /\ \/ /\ kv' = NewBuffer(1, SequenceLen)
        /\ stage' = "forward"
     \/ /\ kept # None
        /\ kept.position < prompt'
        /\ kv' = kept
        /\ stage' = IF kept.stripped THEN "replay" ELSE "forward"
  /\ UNCHANGED <<decode, kept>>

Replay ==
  /\ stage = "replay"
  /\ kv' = Replayed(kv)
  /\ stage' = "forward"
  /\ UNCHANGED <<prompt, decode, kept>>

Prefill ==
  /\ stage = "forward"
  /\ kv' = Forward(kv, prompt - kv.position, prompt, FALSE)
  /\ \/ \E form \in Forms : kept' = Snapshot(kv', form)
     \/ kept' \in {kept, None}
  /\ stage' = "prefilled"
  /\ UNCHANGED <<prompt, decode>>

Replicate ==
  /\ stage = "prefilled"
  /\ \E numSamples \in Samples :
       decode' = PrefillFrom(NewBuffer(numSamples, prompt + MaxTokens), kv)
  /\ kv' = None
  /\ stage' = "decode"
  /\ UNCHANGED <<prompt, kept>>

Decode ==
  /\ stage = "decode"
  /\ decode.position < prompt + MaxTokens
  /\ decode' = Forward(decode, 1, prompt, FALSE)
  /\ UNCHANGED <<stage, prompt, kv, kept>>

Finish ==
  /\ stage = "decode"
  /\ stage' = "idle"
  /\ decode' = None
  /\ prompt' = 0
  /\ UNCHANGED <<kv, kept>>

Next == Request \/ Replay \/ Prefill \/ Replicate \/ Decode \/ Finish

Spec == Init /\ [][Next]_vars

-----------------------------------------------------------------------------
(* Properties.                                                             *)

Buffers == {b \in {kv, decode, kept} : b # None}

WellFormed(b) ==
  /\ b.position \in 0..b.room
  /\ DOMAIN b.raw = Slots(b.batch)
  /\ \A r \in Rows(b) :
       /\ b.tailLength[r] \in 0..(Ratio - 1)
       /\ b.count[r] \in 0..MaxBlocks(b.room)
       /\ b.reCount[r] \in 0..MaxBlocks(b.room)

\* Every variable has its type: no position, tail or block count ever runs past
\* what was allocated for it, in any row.
TypeOK ==
  /\ stage \in {"idle", "replay", "forward", "prefilled", "decode"}
  /\ prompt \in 0..SequenceLen
  /\ \A b \in Buffers : WellFormed(b)

\* What a slot's block x, or the tail when it is the last, should be made of.
RowsOf(slot, x, prefilled) ==
  [o \in 0..(Ratio - 1) |-> KeyValue(slot, x * Ratio + o, prefilled)]

BlockExact(b, i, x, prefilled) == b.block[i][x] = RowsOf(i, x, prefilled)

TailExact(b, i, prefilled) ==
  \A o \in 0..(b.tailLength[RowOf(i)] - 1) :
    b.tail[i][o] = RowsOf(i, b.count[RowOf(i)], prefilled)[o]

\* The block the prompt ends in the middle of, if there is more than one head.
Split(x) == Heads > 1 /\ prompt % Ratio # 0 /\ x = prompt \div Ratio

\* Each layer's cached indexer keys are those of the blocks they select.
IndexerKeysExact ==
  \A b \in Buffers : \A i \in Slots(b.batch) :
    /\ \A x \in 0..(b.count[RowOf(i)] - 1) : b.key[i][x] = b.block[i][x]
    /\ \A x \in 0..(b.reCount[RowOf(i)] - 1) : b.reKey[i][x] = b.block[i][x]

\* Every block and tail of every row and head is made of that row's tokens and
\* that head's keys, in order, with none missing and none twice, however often
\* the prefix was kept and reused, and the indexer keys are those of the blocks.
\* The block that was in the tail when PrefillFrom replicated it is left out here.
BlocksExact ==
  /\ IndexerKeysExact
  /\ \A b \in {kv, kept} \ {None} : \A i \in Slots(b.batch) :
       /\ \A x \in 0..(b.count[RowOf(i)] - 1) : BlockExact(b, i, x, b.position)
       /\ TailExact(b, i, b.position)
  /\ decode # None =>
       \A i \in Slots(decode.batch) :
         /\ \A x \in 0..(decode.count[RowOf(i)] - 1) :
              ~Split(x) => BlockExact(decode, i, x, prompt)
         /\ ~Split(decode.count[RowOf(i)]) => TailExact(decode, i, prompt)

\* The rows the sliding window of the next token covers are present and are its
\* own row's, on every path to a forward pass.
WindowExact ==
  \A b \in {kv, decode} \ {None} : stage # "replay" =>
    \A i \in Slots(b.batch) : \A p \in 0..(b.position - 1) :
      p >= b.position - Window =>
        b.raw[i][p] = KeyValue(i, p, IF b = decode THEN prompt ELSE b.position)

\* kvcache.go: "PrefillFrom copies the cache contents [...] of source into
\* destination": the tail of a replicated buffer, and the block made of it, hold
\* each head's own keys.
TailReplicated ==
  decode # None =>
    \A i \in Slots(decode.batch) :
      /\ \A x \in 0..(decode.count[RowOf(i)] - 1) : BlockExact(decode, i, x, prompt)
      /\ TailExact(decode, i, prompt)
=============================================================================
