---------------------------- MODULE MCAlgorithms ----------------------------
(***************************************************************************)
(* The pure algorithms of the program, each checked against what it should   *)
(* compute: a step gives one of them one of its inputs, the next returns.   *)
(***************************************************************************)
EXTENDS Integers, Sequences, FiniteSets, TLC

PQ == INSTANCE ParquetFiles
CALC == INSTANCE Calculator
REND == INSTANCE Rendering
PARAM == INSTANCE Parameters
MOE == INSTANCE MixtureOfExperts
POOL == INSTANCE WorkerPool
BPE == INSTANCE BytePairs WITH
  NumBytes <- 9, CharOf <- [b \in 0 .. 8 |-> <<"a", "s", "l", "1", "'", ".", " ", "t", "n">>[b + 1]],
  Specials <- << <<"bos">>, <<"user_start">> >>
SPARK == INSTANCE Drafting WITH SequenceLen <- 4, Mask <- -2, Ignored <- -1

VARIABLES kind, arg

vars == <<kind, arg>>

-----------------------------------------------------------------------------
(* Inputs.                                                                 *)

Numerals == { CALC!Leaf(<<"0">>, <<0, 1>>), CALC!Leaf(<<"1", ".", "5">>, <<3, 2>>), CALC!Leaf(<<"1", "2">>, <<12, 1>>) }

Simple ==
  Numerals \cup { CALC!Neg(n) : n \in Numerals }
  \cup { CALC!Binary(op, x, y) : op \in {"+", "-", "*", "/"}, x \in Numerals, y \in Numerals }

Expressions ==
  Simple \cup { CALC!Binary(op, x, y) : op \in {"-", "/"}, x \in Simple, y \in Simple }
  \cup { CALC!Binary(op, x, CALC!Neg(y)) : op \in {"+", "*"}, x \in Simple, y \in Simple }

Texts(n) == UNION { [1 .. k -> {"a", "b"}] : k \in 0 .. n }

Messages ==
  { REND!Message(role, <<role>>) : role \in {"user", "assistant", "system"} }
  \cup { [REND!Message("assistant", <<"text">>) EXCEPT !.reasoning = <<"trace">>, !.calls = calls] :
           calls \in { << >>, << <<"call">>, <<"again">> >> } }

Conversations == UNION { [1 .. n -> Messages] : n \in 1 .. 3 }

Options == [effort : BOOLEAN, thinking : {"on", "off", "unset"}, style : BOOLEAN]

\* Every combination of the options that Validate accepts, around one small model.
Explicit ==
  LET base == [PARAM!ConfigForDepth(2, 70, 12, 6, 600, <<"S", "L">>) EXCEPT !.heads = 4, !.kvHeads = 2]
  IN  { c \in { [base EXCEPT !.layers = layers, !.headWise = headWise, !.pattern = pattern, !.ratio = ratio,
                   !.topK = topK, !.window = window, !.ced = ced, !.qRank = ranks[1], !.kvRank = ranks[2],
                   !.latent = latent, !.experts = moe[1], !.expertHidden = moe[2],
                   !.indexerDim = topK, !.indexerHeads = 2 * topK] :
                 layers \in {2, 3}, headWise \in BOOLEAN, pattern \in { << >>, <<"F", "R", "U">> },
                 ratio \in {0, 2}, topK \in {0, 3}, window \in {0, 4}, ced \in BOOLEAN,
                 ranks \in { <<0, 0>>, <<5, 7>> }, latent \in {0, 8}, moe \in { <<0, 0>>, <<3, 5>> } } :
          PARAM!Buildable(c) }

Presets ==
  { PARAM!ConfigForPreset(preset, depth, 70, aspect, 6, 600, <<"S", "S", "L">>) :
      preset \in {"flash", "latent", "dense"}, depth \in 1 .. 4, aspect \in {6, 12} }

\* Three experts; a step of two rows and one row.
Rows == [1 .. 3 -> 0 .. 1]
Routings ==
  [batches : { <<pair, <<last>> >> : pair \in [1 .. 2 -> Rows], last \in { <<0, 1, 1>>, <<1, 0, 0>> } },
   bias : { <<0, 0, 0>>, <<0, 1, 0>>, <<0, 0, 2>> }, k : 1 .. 2, length : 1 .. 2]

Words(alphabet, lengths) == UNION { [1 .. k -> alphabet] : k \in lengths }

\* Two documents of letters, in which runs, repeats and ties occur.
Corpora == [corpus : { <<x, y>> : x \in Words({"a", "s"}, {6}), y \in { <<"a", "a", "s">>, <<"s", "a", "s">> } },
            merges : {2, 4}, texts : { Words({"a", "s"}, 0 .. 5) }]

\* One corpus, and texts of every class of character.
Scans == [corpus : { << <<"a", "l", "'", "l", "l", " ", " ", "a", "l">>, <<"1", "1", "1", " ", "a", "l">> >> },
          merges : {3}, texts : { { t } : t \in Words({"a", "s", "l", "1", "'", ".", " ", "t", "n"}, 0 .. 3)
                                            \cup Words({"a", "l", "'", ".", " ", "n"}, {4}) }]

\* Two training windows of five tokens, a target of the second ignored or not.
Windows == [windows : { <<x, [y EXCEPT ![5] = last]>> :
                          x \in [1 .. 5 -> 1 .. 2], y \in { <<1, 2, 2, 1, 1>>, <<2, 1, 3, 1, 2>> }, last \in {-1, 2} },
            count : 0 .. 5, before : { << >>, <<3>>, <<3, 3, 1>> }]

Pools == [workers : 0 .. 5, minChunk : {0, 4}]
Partitions == [pool : Pools, start : {0, 3}, size : 0 .. 11]
Processors == 3

-----------------------------------------------------------------------------
Init == kind = "none" /\ arg = 0

Give(k) == kind = "none" /\ kind' = k

ReadFile  == Give("file") /\ \E file \in PQ!Files : arg' = file
Calculate == Give("expression") /\ \E t \in Expressions : arg' = t
Count     == Give("count") /\ \E literal \in Texts(5), sub \in Texts(2) : arg' = <<literal, sub>>
Render    == Give("conversation") /\ \E m \in Conversations, o \in Options : arg' = <<m, o>>
Configure == Give("configuration") /\ \E c \in Explicit : arg' = c
Preset    == Give("configuration") /\ \E c \in Presets : arg' = c
Route     == Give("routing") /\ \E r \in Routings : arg' = r
Partition == Give("partition") /\ \E p \in Partitions : arg' = p
Train     == Give("corpus") /\ \E c \in Corpora : arg' = c
Scan      == Give("corpus") /\ \E c \in Scans : arg' = c
Draft     == Give("windows") /\ \E w \in Windows : arg' = w
Return    == kind # "none" /\ kind' = "none" /\ arg' = 0

Next == ReadFile \/ Calculate \/ Count \/ Render \/ Configure \/ Preset \/ Route \/ Partition \/ Train \/ Scan \/ Draft \/ Return

Spec == Init /\ [][Next]_vars

-----------------------------------------------------------------------------
(* Properties, on whatever input was given.                                *)

\* Every column of a Parquet file is read back value for value, but for an INT64
\* dictionary entry beyond 32 bits (parquet/reader.go, compact.go, encoding.go,
\* snappy.go).
ColumnsReadBack == kind = "file" => PQ!ColumnsReadBack(arg)

\* The calculator tool evaluates as the expression is read, and counts as Python
\* does (inference/tooluse.go).
CalculatorEvaluates ==
  /\ kind = "expression" => CALC!CalculatorEvaluates(arg)
  /\ kind = "count" => CALC!CountsDisjoint(arg[1], arg[2])

\* A conversation is rendered for serving as it was for training (server/server.go
\* against tokenizer/render.go), instructions and traces included.
ServedAsTrained ==
  kind = "conversation" => REND!ServedAsTrained(arg[1], arg[2])

\* Every configuration that can be built, the presets at every depth among them, has
\* its parameters shared out among the optimizer's groups (model/optimizer.go).
OptimizerPartitions ==
  kind = "configuration" => /\ PARAM!Buildable(arg)
                            /\ PARAM!OptimizerPartitions(PARAM!ApplyMoEDefaults(arg))

\* The sizes and the work planned from a configuration are those of the model, up to
\* the stated deviations, and the prefill estimate is the sum of the decode estimates
\* (model/flops.go, model/memory.go).
EstimatesTrackModel ==
  kind = "configuration" => PARAM!PlannedSizesTrackModel(arg) /\ PARAM!PrefillSumsDecode(arg)

\* Tokens reach their experts and come back, forward and backward (model/moe.go).
ExpertsSeeTheirTokens ==
  kind = "routing" => MOE!ExpertsSeeTheirTokens(arg.batches, arg.bias, arg.k, arg.length)

\* Texts are encoded as the merges learned from the corpus would segment them, and
\* decoded to themselves (package tokenizer).
EncodesAsTrained == kind = "corpus" => BPE!EncodesAsTrained(arg.corpus, arg.merges, arg.texts)

\* The drafter drafts under the conditions it was trained under (model/dspark.go).
DraftsAsTrained == kind = "windows" => SPARK!DraftsAsTrained(arg.windows, arg.count, arg.before)

\* The workers' ranges cover the range once (internal/parallel/pool.go).
PartitionCovers ==
  kind = "partition" => POOL!PartitionCovers(arg.pool, Processors, arg.start, arg.start + arg.size)
=============================================================================
