----------------------------- MODULE Transformer -----------------------------
(***************************************************************************)
(* The trunk of model/transformer.go and model/train_transformer.go: which   *)
(* rows every attention layer reads, in a training pass over one packed row  *)
(* of Length tokens, and in an inference pass that is cut into pieces, and   *)
(* where the gradients of the training reads arrive.                         *)
(*                                                                         *)
(* A training step walks the layers up (ForwardFull, ForwardBorrowed) and    *)
(* down again (BackwardFull, BackwardBorrowed).  When the row is not masked  *)
(* the same tokens are then served: Forward takes any number of them against *)
(* the cache, PrefillCED the first ones of an encoder-decoder model.         *)
(*                                                                         *)
(* The activation that enters layer l is named l.  A gradient is a tuple     *)
(* <<layer, query, row or block, via>>, with via in {"read", "index"}: the   *)
(* attention itself, or the distillation of that layer's indexer.            *)
(***************************************************************************)
EXTENDS Attention

CONSTANTS Length,         \* tokens of the packed row, and of the served prompt
          Configs,        \* the model configurations
          Segmentations,  \* the sample-level masks of a row
          Scorings        \* index scores: layer -> query -> block -> number

\* The fields a Config that passes Validate has, by their types and ranges.
Typed(c) ==
  /\ c.layers \in Nat \ {0} /\ c.window \in Nat /\ c.ced \in BOOLEAN
  /\ c.pattern \in Seq({"F", "R", "U"})
  /\ c.ratio \in Int /\ c.topK \in Int /\ c.pool \in Int /\ c.candidates \in Int

ASSUME LengthAssumption == Length \in Nat \ {0}
ASSUME ConfigsAssumption == \A c \in Configs : Typed(c) /\ Validate(c)
ASSUME ScoringsAssumption ==
  \A c \in Configs, s \in Scorings : Compression(c) > 1 =>
    \A l \in 0 .. c.layers - 1, t \in 0 .. Length - 1, b \in 0 .. CeilDiv(Length, Compression(c)) - 1 :
      s[l][t][b] \in Int

VARIABLES config, segments, scoring,
          phase,            \* "forward", "backward" or "serve"
          layer,            \* the next layer of the pass
          shares,           \* producer -> the compressionShare of its group
          reads,            \* layer -> query -> what the training pass read
          gradientEncoder,  \* what the decoder's global keys owe the encoder
          arrived,          \* layer -> gradients that reached activation l
          cache,            \* the KVBuffer
          served,           \* layer -> query -> what inference read
          replayed          \* the rows PrefillCED replayed in the decoder

model == <<config, segments, scoring>>
training == <<shares, reads, gradientEncoder, arrived>>
inference == <<cache, served, replayed>>
trunkVars == <<model, phase, layer, training, inference>>

Positions == 0 .. Length - 1
Layers == 0 .. config.layers - 1
Ratio == Compression(config)
Compressed == Ratio > 1
Mode(l) == ReuseModeAt(config, l)
HasLocal == config.window > 0

\* f with the entries of g over its own, and with one entry put into it.
With(f, g) == [x \in DOMAIN f \union DOMAIN g |-> IF x \in DOMAIN g THEN g[x] ELSE f[x]]
Put(f, x, value) == With(f, [y \in {x} |-> value])

NewShare == [selection |-> << >>, pool |-> << >>, gradient |-> {}]

TrunkInit ==
  /\ config \in Configs /\ segments \in Segmentations /\ scoring \in Scorings
  /\ phase = "forward" /\ layer = 0
  /\ shares = << >> /\ reads = << >> /\ gradientEncoder = {} /\ arrived = << >>
  /\ cache = [position |-> 0, previous |-> -1,
              rows |-> [l \in Layers |-> << >>], raw |-> [l \in Layers |-> {}]]
  /\ served = [l \in Layers |-> << >>] /\ replayed = {}

-----------------------------------------------------------------------------
(* The indexer's selection, shared by both passes.                          *)

\* A query sees the blocks that strictly precede its own.
Allowed(t, blocks) == Min({t \div Ratio, blocks})

Pool(l, t, blocks, budget) ==
  Candidates(scoring[l][t], blocks, Allowed(t, blocks), Max({1, config.pool}), budget)

\* Reuse takes the group's selection, Reindex selects in the group's pool.
Selected(l, t, blocks, budget, share) ==
  IF Mode(l) = "U" THEN share.selection[t]
  ELSE LET order == IF Mode(l) = "R" /\ config.pool > 1
                      THEN FineSelect(scoring[l][t], share.pool[t], config.topK, Allowed(t, blocks))
                      ELSE TopKFromScoreRow(scoring[l][t], Pool(l, t, blocks, budget), config.topK)
       IN  { order[i] : i \in DOMAIN order }

-----------------------------------------------------------------------------
(* Training, upwards.                                                      *)

Blocks == CeilDiv(Length, Ratio)

\* Reuse layers lose the mask with everything else of a borrowed compression.
UnmaskedBug(l) == Unmasked

\* Only compressForward stores the segments a layer's global branch masks with.
MaskOf(l) == IF Mode(l) = "F" THEN segments ELSE Unmasked

\* The blocks the attention of a layer reads: all allowed ones, or the selected.
GlobalReads(l, t, share) ==
  FilterBlocksBySegment(
    IF config.topK > 0 THEN Selected(l, t, Blocks, IndexerCandidateBudget(config), share)
    ELSE 0 .. Allowed(t, Blocks) - 1,
    MaskOf(l), Ratio, t)

\* The blocks whose index score the distillation loss trains.
Distilled(l, t, share) ==
  IF ~OwnsIndexer(config, l) THEN {}
  ELSE FilterBlocksBySegment(
         { b \in 0 .. Allowed(t, Blocks) - 1 :
             Mode(l) = "R" /\ config.pool > 1 => \E i \in DOMAIN share.pool[t] : share.pool[t][i] = b },
         MaskOf(l), Ratio, t)

\* Raw rows: the local branch, or all of an uncompressed layer's attention.
Local(l, t) ==
  IF ~Compressed THEN WindowRows(segments, WindowSize(config, l, Length), 0, t)
  ELSE IF HasLocal THEN WindowRows(segments, config.window, 0, t) ELSE {}

ContextOf(l, share) ==
  [t \in Positions |->
     [blocks |-> IF Compressed THEN GlobalReads(l, t, share) ELSE {},
      indexed |-> Distilled(l, t, share),
      local |-> Local(l, t)]]

\* What the layer leaves in the share: only a Full layer replaces the pool.
Published(l, share, context) ==
  [share EXCEPT
     !.selection = IF config.topK > 0 THEN [t \in Positions |-> context[t].blocks] ELSE @,
     !.pool = IF config.topK > 0 /\ config.pool > 1 /\ Mode(l) = "F"
              THEN [t \in Positions |-> Pool(l, t, Blocks, IndexerCandidateBudget(config))] ELSE @]

ToNextLayer ==
  IF layer + 1 < config.layers THEN layer' = layer + 1 /\ UNCHANGED phase
  ELSE phase' = "backward" /\ UNCHANGED layer

Trained(producer, share) ==
  LET context == ContextOf(layer, share)
  IN  /\ reads' = Put(reads, layer, context)
      /\ shares' = Put(shares, producer, Published(layer, share, context))

ForwardFull ==
  /\ phase = "forward" /\ Mode(layer) = "F"
  /\ Trained(layer, NewShare)
  /\ ToNextLayer
  /\ UNCHANGED <<model, gradientEncoder, arrived, inference>>

ForwardBorrowed ==
  /\ phase = "forward" /\ Mode(layer) # "F"
  /\ LET producer == ReuseProducer(config, layer) IN Trained(producer, shares[producer])
  /\ ToNextLayer
  /\ UNCHANGED <<model, gradientEncoder, arrived, inference>>

-----------------------------------------------------------------------------
(* Training, downwards.                                                    *)

\* What one layer adds to the gradient of its group's compressed keys.
OwnGradient(l) ==
  UNION { { <<l, t, b, "read">> : b \in reads[l][t].blocks }
          \union { <<l, t, b, "index">> : b \in reads[l][t].indexed } : t \in Positions }

LocalGradient(l) == UNION { { <<l, t, p, "read">> : p \in reads[l][t].local } : t \in Positions }

\* compressBackward: a block's gradient goes to the rows the block is made of.
ThroughCompressor(gradient) ==
  UNION { { <<g[1], g[2], p, g[4]>> : p \in BlockRows(segments, Ratio, Length, g[3]) } : g \in gradient }

\* The accumulator is injected one layer above the encoder's output.
InjectedEarlyBug(l) == config.ced /\ l = CEDSplit(config) + 1

InjectsEncoderGradient(l) == config.ced /\ l = CEDSplit(config)

\* What reaches the activation that enters the layer, the injection included.
Leave(direct, encoder) ==
  /\ gradientEncoder' = encoder
  /\ arrived' = Put(arrived, layer, direct \union (IF InjectsEncoderGradient(layer) THEN encoder ELSE {}))
  /\ IF layer > 0 THEN layer' = layer - 1 /\ UNCHANGED phase
     ELSE phase' = "serve" /\ UNCHANGED layer

BackwardFull ==
  /\ phase = "backward" /\ Mode(layer) = "F"
  /\ shares' = [shares EXCEPT ![layer].gradient = @ \union OwnGradient(layer)]
  /\ LET rows == ThroughCompressor(shares'[layer].gradient)
     IN  IF IsDecoderLayer(config, layer) THEN Leave(LocalGradient(layer), gradientEncoder \union rows)
         ELSE Leave(LocalGradient(layer) \union rows, gradientEncoder)
  /\ UNCHANGED <<model, reads, inference>>

BackwardBorrowed ==
  /\ phase = "backward" /\ Mode(layer) # "F"
  /\ shares' = [shares EXCEPT ![ReuseProducer(config, layer)].gradient = @ \union OwnGradient(layer)]
  /\ Leave(LocalGradient(layer), gradientEncoder)
  /\ UNCHANGED <<model, reads, inference>>

-----------------------------------------------------------------------------
(* Inference.  A pass is a record [cache, share, served] carried up the      *)
(* layers; a piece is [first, count, smear, replay].                         *)

Rows(piece) == piece.first .. piece.first + piece.count - 1

\* The row that is mixed into each embedding of a piece; -1 is none.
SmearRows(first, count, seed) == [t \in first .. first + count - 1 |-> IF t > first THEN t - 1 ELSE seed]

\* embedAndSmear does not seed the first of several rows.
EmbedAndSmear(first, count, previous) == SmearRows(first, count, IF count > 1 THEN -1 ELSE previous)

\* appendGlobalTail, by the rows that have been buffered or compressed so far.
Appended(rows, piece) == rows \o [i \in 1 .. piece.count |-> piece.first + i - 1]

\* The rows that made block b of a layer's compressed cache.
CompressedRows(rows, b) == { rows[i] : i \in b * Ratio + 1 .. (b + 1) * Ratio }

\* Flat selection scores every available block.
Budget(available) == IF config.pool <= 1 THEN available ELSE IndexerCandidateBudget(config)

\* What the queries of a piece read: rows is the producing layer's global
\* cache, raw the positions whose raw keys the layer has written.
Read(l, t, rows, raw, share, piece) ==
  LET available == Len(rows) \div Ratio
      blocks == IF ~Compressed THEN {}
                ELSE IF config.topK > 0 THEN Selected(l, t, available, Budget(available), share)
                ELSE 0 .. Allowed(t, available) - 1
      floor == IF piece.replay THEN piece.first ELSE 0
      local == IF ~Compressed THEN WindowRows(Unmasked, WindowSize(config, l, Length), 0, t)
               ELSE IF HasLocal THEN WindowRows(Unmasked, config.window, floor, t) ELSE {}
  IN  [global |-> { CompressedRows(rows, b) : b \in blocks }, blocks |-> blocks,
       local |-> local, missing |-> local \ raw, smear |-> piece.smear[t]]

\* One layer: write, compress completed blocks unless replaying, read, publish.
Serve(l, piece, before) ==
  LET share == IF Mode(l) = "F" THEN NewShare ELSE before.share
      rows == IF Mode(l) = "F" /\ Compressed /\ ~piece.replay
              THEN [before.cache.rows EXCEPT ![l] = Appended(@, piece)] ELSE before.cache.rows
      raw == IF HasLocal \/ ~Compressed
             THEN [before.cache.raw EXCEPT ![l] = @ \union Rows(piece)] ELSE before.cache.raw
      global == rows[ReuseProducer(config, l)]
      result == [t \in Rows(piece) |-> Read(l, t, global, raw[l], share, piece)]
      available == Len(global) \div Ratio
  IN  [cache |-> [before.cache EXCEPT !.rows = rows, !.raw = raw],
       share |-> [share EXCEPT
         !.selection = IF config.topK > 0 THEN [t \in Rows(piece) |-> result[t].blocks] ELSE @,
         !.pool = IF config.topK > 0 /\ config.pool > 1 /\ Mode(l) = "F"
                  THEN [t \in Rows(piece) |-> Pool(l, t, available, Budget(available))] ELSE @],
       served |-> [before.served EXCEPT ![l] = With(@, result)]]

Pass(piece, from, to, start) ==
  LET upTo[l \in from - 1 .. to] == IF l = from - 1 THEN start ELSE Serve(l, piece, upTo[l - 1])
  IN  upTo[to]

Settle(pass, position) ==
  /\ cache' = [pass.cache EXCEPT !.position = position, !.previous = position - 1]
  /\ served' = pass.served

Forward(count) ==
  /\ phase = "serve" /\ segments = Unmasked
  /\ cache.position + count <= Length
  /\ LET piece == [first |-> cache.position, count |-> count, replay |-> FALSE,
                   smear |-> SmearRows(cache.position, count, cache.previous)]
     IN  Settle(Pass(piece, 0, config.layers - 1, [cache |-> cache, share |-> NewShare, served |-> served]),
                cache.position + count)
  /\ UNCHANGED <<model, phase, layer, training, replayed>>

\* The encoder over the prompt, the decoder's global caches from the encoder's
\* output, the decoder over the last window of rows.
PrefillCED(count) ==
  /\ phase = "serve" /\ segments = Unmasked /\ config.ced /\ cache.position = 0
  /\ LET split == CEDSplit(config)
         length == Min({config.window, count})
         prompt == [first |-> 0, count |-> count, replay |-> FALSE,
                    smear |-> EmbedAndSmear(0, count, cache.previous)]
         replay == [first |-> count - length, count |-> length, replay |-> TRUE,
                    smear |-> EmbedAndSmear(count - length, length, count - 1)]
         encoded == Pass(prompt, 0, split - 1, [cache |-> cache, share |-> NewShare, served |-> served])
         filled == [encoded EXCEPT !.cache.rows =
                      [l \in Layers |-> IF l >= split /\ Mode(l) = "F" THEN Appended(@[l], prompt) ELSE @[l]]]
     IN  /\ Settle(Pass(replay, split, config.layers - 1, filled), count)
         /\ replayed' = Rows(replay)
  /\ UNCHANGED <<model, phase, layer, training>>

TrunkNext ==
  \/ ForwardFull
  \/ ForwardBorrowed
  \/ BackwardFull
  \/ BackwardBorrowed
  \/ \E count \in 1 .. Length : Forward(count) \/ PrefillCED(count)

TrunkSpec == TrunkInit /\ [][TrunkNext]_trunkVars

-----------------------------------------------------------------------------
(* Properties.                                                             *)

\* The activation the global keys of a layer are projected from.
SourceOf(l) == IF IsDecoderLayer(config, l) THEN CEDSplit(config) ELSE ReuseProducer(config, l)

\* Everything that read activation l, whichever accumulator its gradient took.
Owed(l) ==
  LocalGradient(l) \union ThroughCompressor(UNION { OwnGradient(r) : r \in { x \in Layers : SourceOf(x) = l } })

\* The backward pass leaves a layer only when every gradient of the activation
\* that enters it has arrived: those of the layers that borrowed its compressed
\* keys and, at the encoder's output, those of all decoder layers (train.go,
\* train_transformer.go).
GradientsReachTheirRows == \A l \in DOMAIN arrived : arrived[l] = Owed(l)

SameSegment(rows, t) == \A p \in rows : segments[p] = segments[t]

RowsRead(l, t) == UNION { BlockRows(segments, Ratio, Length, b) : b \in reads[l][t].blocks }

\* With sample-level masking a layer that owns its compression reads and
\* distils only blocks of the query's own document, and no layer's local window
\* leaves it, even where a block straddles two documents.
OwnBlocksStayInSegment ==
  segments # Unmasked =>
    \A l \in DOMAIN reads : \A t \in Positions :
      /\ SameSegment(reads[l][t].local, t)
      /\ Mode(l) = "F" =>
           \A b \in reads[l][t].blocks \union reads[l][t].indexed :
             SameSegment(BlockRows(segments, Ratio, Length, b), t)

\* "a token never attends across a packed-document boundary"
\* (train_transformer.go:49), said of every layer.
SegmentsIsolated ==
  segments # Unmasked =>
    \A l \in DOMAIN reads : \A t \in Positions : SameSegment(RowsRead(l, t), t)

\* However the tokens are cut into forward calls, a served query reads the rows
\* the same query read in training, from caches that hold them.  The rows that
\* PrefillCED replays in the decoder differ by design: their local window ends
\* at the start of the replay and the first one's smear is not seeded; what is
\* decoded after them does not.
InferenceReadsAsTrained ==
  segments = Unmasked =>
    \A l \in DOMAIN served :
      LET decoded == IF IsDecoderLayer(config, l) THEN replayed ELSE {}
      IN  /\ \A t \in 0 .. cache.position - 1 : t \in DOMAIN served[l] \/ (decoded # {} /\ t < Min(decoded))
          /\ \A t \in DOMAIN served[l] :
               LET read == served[l][t]
               IN  /\ read.missing = {}
                   /\ read.global = { BlockRows(Unmasked, Ratio, Length, b) : b \in reads[l][t].blocks }
                   /\ read.local = IF t \in decoded THEN reads[l][t].local \intersect decoded
                                   ELSE reads[l][t].local
                   /\ read.smear = t - 1 \/ (t \in decoded /\ t = Min(decoded))
=============================================================================
