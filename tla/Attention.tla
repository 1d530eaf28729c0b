------------------------------ MODULE Attention ------------------------------
(***************************************************************************)
(* What one query may read in one attention layer: the cross-layer reuse     *)
(* roles of model/config.go, the indexer's selection of model/indexer.go,    *)
(* the segments of model/compress.go and the local window.                   *)
(*                                                                         *)
(* Positions, layers and compressed blocks count from 0, as in the code.    *)
(* Every tensor is abstracted to who wrote which of its rows; a score is a   *)
(* number that only ranks.  There is one batch row and one key/value head:   *)
(* the code repeats the same steps for each of them.                         *)
(***************************************************************************)
EXTENDS SeqSums, FiniteSets

\* A configuration: [layers, pattern, ced, ratio, window, topK, pool, candidates,
\* windows, short].  pattern is a sequence over {"F", "R", "U"}, windows one over
\* {"L", "S"}; 0 stands for an unset field.

CeilDiv(a, b) == (a + b - 1) \div b

-----------------------------------------------------------------------------
(* Roles of the layers.                                                    *)

Compression(c) == IF c.ratio <= 1 THEN 1 ELSE c.ratio

CEDSplit(c) == IF c.ced THEN c.layers \div 2 ELSE 0

IsDecoderLayer(c, layer) == CEDSplit(c) > 0 /\ layer >= CEDSplit(c)

ReuseHalfStart(c, layer) == IF IsDecoderLayer(c, layer) THEN CEDSplit(c) ELSE 0

ReuseModeAt(c, layer) ==
  IF c.pattern = << >> THEN "F"
  ELSE c.pattern[((layer - ReuseHalfStart(c, layer)) % Len(c.pattern)) + 1]

ReuseProducer(c, layer) ==
  LET full == { i \in ReuseHalfStart(c, layer) .. layer : ReuseModeAt(c, i) = "F" }
  IN  IF full = {} THEN layer ELSE Max(full)

OwnsIndexer(c, layer) == c.topK > 0 /\ ReuseModeAt(c, layer) # "U"

IndexerCandidateBudget(c) ==
  IF c.candidates > 0 THEN c.candidates ELSE Max({8 * c.topK, 64})

\* WindowSizes: the last layer is always long; c.short is what S stands for.
WindowSize(c, layer, length) ==
  IF layer = c.layers - 1 \/ c.windows[(layer % Len(c.windows)) + 1] = "L" THEN length ELSE c.short

Validate(c) ==
  /\ c.topK > 0 => Compression(c) > 1
  /\ c.pattern # << >> => Compression(c) > 1 /\ ReuseModeAt(c, 0) = "F"
  /\ c.ced => /\ Compression(c) > 1
              /\ c.window > 0
              /\ c.layers >= 2
              /\ c.pattern # << >> => ReuseModeAt(c, CEDSplit(c)) = "F"

-----------------------------------------------------------------------------
(* The indexer's choice for one query.  A row of scores is a function on the *)
(* blocks; candidates are listed in the order they were collected.           *)

\* topKIndices: descending score, ties to the earlier index.
TopKIndices(values, k) ==
  LET before(i, j) == values[i] > values[j] \/ (values[i] = values[j] /\ i < j)
      rank(i) == Cardinality({ j \in DOMAIN values : before(j, i) })
  IN  [r \in 1 .. Min({k, Len(values)}) |-> CHOOSE i \in DOMAIN values : rank(i) = r - 1]

TopKFromScoreRow(row, candidates, topK) ==
  LET order == TopKIndices([i \in DOMAIN candidates |-> row[candidates[i]]], topK)
  IN  [i \in DOMAIN order |-> candidates[order[i]]]

\* The trailing super-block keeps the maximum over blocks the query cannot see.
FutureMaxBug(row, blocks, allowed, pool, group) ==
  Max({ row[b] : b \in group * pool .. Min({(group + 1) * pool, blocks}) - 1 })

\* The maximum of every super-block over all its blocks, as IndexerBlockMax
\* leaves it, and then with the partial trailing one taken over allowed blocks.
GroupMax(row, blocks, allowed, pool, group) ==
  LET last == IF allowed % pool # 0 /\ group = allowed \div pool THEN allowed ELSE blocks
  IN  Max({ row[b] : b \in group * pool .. Min({(group + 1) * pool, last}) - 1 })

\* selectRowBlockMax: the pool of candidates and the selection made from it.
Candidates(row, blocks, allowed, pool, budget) ==
  LET groups == CeilDiv(allowed, pool)
      maxima == [g \in 1 .. groups |-> GroupMax(row, blocks, allowed, pool, g - 1)]
      chosen == TopKIndices(maxima, Max({1, CeilDiv(budget, pool)}))
      entries(g) == [i \in 1 .. Min({pool, allowed - (g - 1) * pool}) |-> (g - 1) * pool + i - 1]
  IN  FlattenSeq([i \in DOMAIN chosen |-> entries(chosen[i])])

\* fineSelect: the selection of a Reindex layer inside a published pool.
FineSelect(row, candidates, topK, allowed) ==
  TopKFromScoreRow(row, Only(candidates, 0 .. allowed - 1), topK)

-----------------------------------------------------------------------------
(* Sample-level segments: a function on positions, or Unmasked.             *)

Unmasked == << >>

BlockSegment(segments, ratio, block) == segments[block * ratio]

\* The rows a block is made of: those of its first row's segment.
BlockRows(segments, ratio, length, block) ==
  { p \in block * ratio .. Min({(block + 1) * ratio, length}) - 1 :
      segments = Unmasked \/ segments[p] = BlockSegment(segments, ratio, block) }

\* The raw keys of the local branch and of uncompressed attention; -1 is no window.
WindowRows(segments, window, first, position) ==
  { p \in first .. position :
      /\ window < 0 \/ position - p <= window
      /\ segments = Unmasked \/ segments[p] = segments[position] }

FilterBlocksBySegment(selected, segments, ratio, position) ==
  IF segments = Unmasked THEN selected
  ELSE { b \in selected : BlockSegment(segments, ratio, b) = segments[position] }
=============================================================================
