----------------------------- MODULE Parameters -----------------------------
(***************************************************************************)
(* The parameters of a model and what is said of them: model/config.go and  *)
(* model/preset.go (how a configuration is derived and refused), the        *)
(* constructors of model/transformer.go, attention.go, mla.go, mlp.go and   *)
(* moe.go (which tensors it allocates), model/params.go, model/optimizer.go *)
(* (which group updates which storage), model/flops.go and model/memory.go  *)
(* (the sizes and the work planned from the configuration alone).           *)
(*                                                                         *)
(* A configuration is the record of module Attention with the further fields *)
(*   heads, kvHeads, embed, vocab, seq, rotary, indexerDim, indexerHeads,   *)
(*   headWise, qRank, kvRank, latent, ropeDims, experts, active,            *)
(*   expertHidden, sharedHidden.                                           *)
(* A tensor is [name, layer, shape]; layer is -1 for those of the model.     *)
(* Learning rates and the other hyperparameters of a group are left out.    *)
(***************************************************************************)
EXTENDS Attention, SequencesExt

Numel(shape) == FoldSeq(LAMBDA a, b : a * b, 1, shape)

\* The sum of Term over a set.
SumOver(S, Term(_)) == FoldSet(LAMBDA x, acc : Term(x) + acc, 0, S)

\* A set as a list, in some order.
ListOf(S) == FoldSet(LAMBDA x, acc : Append(acc, x), << >>, S)

Layers(c) == 0 .. c.layers - 1

-----------------------------------------------------------------------------
(* Derived configuration values and their defaults.                        *)

HeadDim(c) == c.embed \div c.heads

KVWidth(c) == c.kvHeads * HeadDim(c)

MoEEnabled(c) == c.experts > 0

MLAEnabled(c) == c.latent > 0

MoEActiveExperts(c) == Min({c.active, c.experts})

MoEExpertHidden(c) == IF c.expertHidden > 0 THEN c.expertHidden ELSE c.embed

MoESharedHidden(c) == IF c.sharedHidden > 0 THEN c.sharedHidden ELSE MoEExpertHidden(c)

ApplyMoEDefaults(c) ==
  IF ~MoEEnabled(c) THEN c
  ELSE [c EXCEPT !.expertHidden = MoEExpertHidden(c),
                 !.sharedHidden = MoESharedHidden(c),
                 !.active = Min({IF c.active = 0 THEN 2 ELSE c.active, c.experts})]

IndexerDefaults(c) ==
  [dim   |-> IF c.indexerDim = 0 THEN 64 ELSE c.indexerDim,
   heads |-> IF c.indexerHeads = 0 THEN 1 ELSE c.indexerHeads]

\* defaultRotaryDims
DefaultRotaryDims == 64

Even(n) == n - (n % 2)

MLARotaryDimension(c) ==
  IF c.ropeDims = 0 THEN Even(Min({HeadDim(c) \div 2, DefaultRotaryDims})) ELSE c.ropeDims

PaddedVocab(c) == CeilDiv(c.vocab, 64) * 64

\* WindowSizes: what an S layer of a model for sequences of this length sees.
ShortWindow(length) == ((length \div 4) \div 128) * 128

\* The rules of Validate and RotaryDimension that module Attention leaves out.
ValidateSizes(c) ==
  /\ c.embed % c.heads = 0
  /\ c.kvHeads <= c.heads
  /\ c.heads % c.kvHeads = 0
  /\ MLAEnabled(c) => /\ Compression(c) = 1
                      /\ ~c.ced
                      /\ c.pattern = << >>
                      /\ c.qRank = 0 /\ c.kvRank = 0
                      /\ ~c.headWise
                      /\ c.ropeDims < HeadDim(c) /\ c.ropeDims % 2 = 0
  /\ ~MLAEnabled(c) => c.rotary <= HeadDim(c) /\ c.rotary % 2 = 0
  /\ IF MoEEnabled(c) THEN c.active <= c.experts
     ELSE c.active = 0 /\ c.expertHidden = 0 /\ c.sharedHidden = 0

\* NewTransformer builds a model of this configuration instead of panicking.
Buildable(c) == Validate(ApplyMoEDefaults(c)) /\ ValidateSizes(ApplyMoEDefaults(c))

-----------------------------------------------------------------------------
(* Configurations from the depth dial.                                     *)

\* ConfigForDepth: full attention, every option off.
ConfigForDepth(depth, vocab, aspect, headDim, length, windows) ==
  LET embed == CeilDiv(depth * aspect, headDim) * headDim
      heads == embed \div headDim
  IN  [layers |-> depth, pattern |-> << >>, ced |-> FALSE, ratio |-> 0, window |-> 0, topK |-> 0,
       pool |-> 0, candidates |-> 0, windows |-> windows, short |-> ShortWindow(length),
       heads |-> heads, kvHeads |-> heads, embed |-> embed, vocab |-> vocab, seq |-> length,
       rotary |-> Even(Min({DefaultRotaryDims, headDim})), indexerDim |-> 0, indexerHeads |-> 0,
       headWise |-> FALSE, qRank |-> 0, kvRank |-> 0, latent |-> 0, ropeDims |-> 0,
       experts |-> 0, active |-> 0, expertHidden |-> 0, sharedHidden |-> 0]

MoEExpertsForDepth(depth) == Max({2 * depth, 8})

EnableMoE(c) ==
  ApplyMoEDefaults(
    [c EXCEPT !.experts = IF c.experts = 0 THEN MoEExpertsForDepth(c.layers) ELSE c.experts,
              !.active = IF c.active = 0 THEN 2 ELSE c.active])

ApplyDefaultGroupedQuery(c) ==
  IF c.kvHeads = c.heads /\ c.heads % 2 = 0 THEN [c EXCEPT !.kvHeads = c.heads \div 2] ELSE c

Unset(value, default) == IF value = 0 THEN default ELSE value

ApplyFlashPreset(c) ==
  EnableMoE([ApplyDefaultGroupedQuery(c) EXCEPT
    !.headWise = TRUE,
    !.ratio   = IF Compression(c) = 1 THEN 4 ELSE c.ratio,
    !.topK    = Unset(c.topK, 8),
    !.pool    = IF c.pool <= 1 THEN 8 ELSE c.pool,
    !.pattern = IF c.pattern = << >> THEN <<"F", "R", "U">> ELSE c.pattern,
    !.window  = Unset(c.window, 128),
    !.ced     = c.ced \/ c.layers >= 2])

ApplyLatentPreset(c) ==
  EnableMoE([ApplyDefaultGroupedQuery(c) EXCEPT
    !.headWise = FALSE,
    !.latent = Unset(c.latent, c.embed \div 2)])

ApplyPreset(c, preset) ==
  CASE preset = "dense"  -> c
    [] preset = "latent" -> ApplyLatentPreset(c)
    [] OTHER             -> ApplyFlashPreset(c)

ConfigForPreset(preset, depth, vocab, aspect, headDim, length, windows) ==
  ApplyPreset(ConfigForDepth(depth, vocab, aspect, headDim, length, windows), preset)

-----------------------------------------------------------------------------
(* The tensors a model allocates.                                          *)

Tensor(name, layer, shape) == [name |-> name, layer |-> layer, shape |-> shape]

\* layers.NewLinear: rows are outputs.
Linear(name, layer, in, out) == Tensor(name, layer, <<out, in>>)

HasValueEmbedding(c, layer) == ~MLAEnabled(c) /\ layer % 2 = (c.layers - 1) % 2

MLATensors(c, layer) ==
  LET rope == MLARotaryDimension(c)
      content == HeadDim(c) - rope
  IN  { Linear("mla_q_down",  layer, c.embed,  c.latent),
        Linear("mla_q_up",    layer, c.latent, c.heads * content),
        Linear("mla_q_rope",  layer, c.embed,  c.heads * rope),
        Linear("mla_kv_down", layer, c.embed,  c.latent),
        Linear("mla_k_up",    layer, c.latent, c.kvHeads * content),
        Linear("mla_v_up",    layer, c.latent, KVWidth(c)),
        Linear("mla_k_rope",  layer, c.embed,  c.kvHeads * rope) }

ProjectionTensors(c, layer) ==
  { Linear("c_q", layer, Unset(c.qRank, c.embed), c.heads * HeadDim(c)),
    Linear("c_k", layer, Unset(c.kvRank, c.embed), KVWidth(c)),
    Linear("c_v", layer, Unset(c.kvRank, c.embed), KVWidth(c)) }
  \cup (IF c.qRank > 0 THEN { Linear("q_down", layer, c.embed, c.qRank) } ELSE {})
  \cup (IF c.kvRank > 0 THEN { Linear("kv_down", layer, c.embed, c.kvRank) } ELSE {})

CompressorTensors(c, layer) ==
  { Linear("compress_logits", layer, c.embed, HeadDim(c)),
    Tensor("compress_bias", layer, <<c.ratio, HeadDim(c)>>) }

IndexerTensors(c, layer) ==
  LET dim == IndexerDefaults(c).dim
      heads == IndexerDefaults(c).heads
  IN  { Linear("indexer_query", layer, c.embed, dim * heads),
        Linear("indexer_key", layer, HeadDim(c), dim * heads),
        Tensor("indexer_heads", layer, <<heads>>) }

\* NewCausalSelfAttention
AttentionTensors(c, layer) ==
  { Linear("c_proj", layer, c.embed, c.embed) }
  \cup (IF HasValueEmbedding(c, layer) THEN { Linear("ve_gate", layer, 12, c.kvHeads) } ELSE {})
  \cup (IF MLAEnabled(c) THEN MLATensors(c, layer)
        ELSE ProjectionTensors(c, layer)
             \cup (IF Compression(c) > 1 /\ ReuseModeAt(c, layer) = "F"
                   THEN CompressorTensors(c, layer) ELSE {})
             \cup (IF Compression(c) > 1 /\ OwnsIndexer(c, layer)
                   THEN IndexerTensors(c, layer) ELSE {}))

\* NewMoE: the experts' weights are packed.
MoETensors(c, layer) ==
  LET hidden == MoEExpertHidden(c)
  IN  { Linear("router", layer, c.embed, c.experts),
        Tensor("router_bias", layer, <<c.experts>>),
        Tensor("experts.gate", layer, <<c.experts, hidden, c.embed>>),
        Tensor("experts.up",   layer, <<c.experts, hidden, c.embed>>),
        Tensor("experts.down", layer, <<c.experts, c.embed, hidden>>) }

\* NewBlock: the shared expert with the routed ones, or the dense MLP.
FeedForwardTensors(c, layer) ==
  LET hidden == IF MoEEnabled(c) THEN MoESharedHidden(c) ELSE 4 * c.embed
  IN  { Linear("mlp.c_fc", layer, c.embed, hidden), Linear("mlp.c_proj", layer, hidden, c.embed) }
      \cup (IF MoEEnabled(c) THEN { Linear("mlp.c_gate", layer, c.embed, hidden) } ELSE {})
      \cup (IF MoEEnabled(c) THEN MoETensors(c, layer) ELSE {})

ValueEmbeds(c) ==
  { Tensor("value_embeds", layer, <<PaddedVocab(c), KVWidth(c)>>) :
      layer \in { i \in Layers(c) : HasValueEmbedding(c, i) } }

\* NewTransformer, as NamedParameters lists it.
NamedParameters(c) ==
  { Tensor("wte", -1, <<PaddedVocab(c), c.embed>>),
    Linear("lm_head", -1, c.embed, PaddedVocab(c)),
    Tensor("resid_lambdas", -1, <<c.layers>>),
    Tensor("x0_lambdas", -1, <<c.layers>>),
    Linear("smear_gate", -1, 24, 1),
    Tensor("smear_lambda", -1, <<1>>),
    Tensor("backout_lambda", -1, <<1>>) }
  \cup ValueEmbeds(c)
  \cup UNION { AttentionTensors(c, layer) \cup FeedForwardTensors(c, layer) : layer \in Layers(c) }

SizeOf(tensors) == SumOver(tensors, LAMBDA t : Numel(t.shape))

TotalParams(c) == SizeOf(NamedParameters(c))

-----------------------------------------------------------------------------
(* Optimizer groups.  A view is a tensor of its own shape on the storage of a *)
(* named parameter, from an offset on.                                      *)

Whole(t) == [name |-> t.name, layer |-> t.layer, shape |-> t.shape, from |-> 0]

\* The rows are forgotten in the stride of the packed experts.
UnstridedBug(t, index, rows, columns) ==
  [name |-> t.name, layer |-> t.layer, shape |-> <<rows, columns>>, from |-> index * rows]

\* packedView, and one view of headWiseViews
PackedView(t, index, rows, columns) ==
  [name |-> t.name, layer |-> t.layer, shape |-> <<rows, columns>>, from |-> index * rows * columns]

ExpertViews(t) ==
  [i \in 1 .. t.shape[1] |-> PackedView(t, i - 1, t.shape[2], t.shape[3])]

HeadWiseViews(t, heads, headDim) ==
  [i \in 1 .. heads |-> PackedView(t, i - 1, headDim, t.shape[2])]

\* Which tensors of a layer go to Muon, and as which views.
Views(c, t) ==
  CASE t.name = "c_q" /\ c.headWise -> HeadWiseViews(t, c.heads, HeadDim(c))
    [] t.name = "c_k" /\ c.headWise -> HeadWiseViews(t, c.kvHeads, HeadDim(c))
    [] t.name \in {"experts.gate", "experts.up", "experts.down"} -> ExpertViews(t)
    [] OTHER -> <<Whole(t)>>

AdamWNames == {"compress_bias", "indexer_heads", "router_bias"}

MatrixParameters(c) ==
  LET tensors == UNION { AttentionTensors(c, layer) \cup FeedForwardTensors(c, layer) : layer \in Layers(c) }
      chosen == ListOf({ t \in tensors : t.name \notin AdamWNames })
  IN  FlattenSeq([i \in DOMAIN chosen |-> Views(c, chosen[i])])

\* The scalars of the smear, and the small tensors of the compressed layers.
SmearParameters(c) ==
  { t \in NamedParameters(c) :
      t.name \in {"smear_gate", "smear_lambda", "backout_lambda", "compress_bias", "indexer_heads"} }

Named(c, name) == { t \in NamedParameters(c) : t.name = name }

Group(kind, tensors) ==
  [kind |-> kind, views |-> LET s == ListOf(tensors) IN [i \in DOMAIN s |-> Whole(s[i])]]

\* One Muon group for every shape.
GroupedByShape(matrices, shapes) ==
  [i \in DOMAIN shapes |->
     [kind |-> "muon", views |-> SelectSeq(matrices, LAMBDA v : v.shape = shapes[i])]]

SortedShapes(matrices) ==
  SortSeq(ListOf({ matrices[i].shape : i \in DOMAIN matrices }),
          LAMBDA a, b : a[1] < b[1] \/ (a[1] = b[1] /\ a[2] < b[2]))

MuonGroupsOf(matrices) == GroupedByShape(matrices, SortedShapes(matrices))

MuonGroups(c) == MuonGroupsOf(MatrixParameters(c))

SetupOptimizer(c, sinkhorn) ==
  LET embeddings == IF sinkhorn THEN "sinkhorn" ELSE "adamw"
  IN  << Group(embeddings, Named(c, "lm_head")),
         Group(embeddings, Named(c, "wte")),
         Group(embeddings, ValueEmbeds(c)),
         Group("adamw", Named(c, "resid_lambdas")),
         Group("adamw", Named(c, "x0_lambdas")),
         Group("adamw", SmearParameters(c)) >> \o MuonGroups(c)

End(v) == v.from + Numel(v.shape)

\* The views cover a tensor by blocks of whole rows, once.
CoveredBy(t, views) ==
  IF t.name = "router_bias" THEN views = {}
  ELSE /\ SumOver(views, LAMBDA v : Numel(v.shape)) = Numel(t.shape)
       /\ \A v \in views : /\ End(v) <= Numel(t.shape)
                           /\ Last(v.shape) = Last(t.shape)
                           /\ v.from % Last(t.shape) = 0
       /\ \A v, w \in views : v = w \/ End(v) <= w.from \/ End(w) <= v.from

MuonGroupsUniform(muon) ==
  \A g \in DOMAIN muon : LET shape == muon[g].views[1].shape
                          IN  /\ Len(shape) = 2
                              /\ \A i \in DOMAIN muon[g].views : muon[g].views[i].shape = shape
                              /\ \A h \in DOMAIN muon \ {g} : muon[h].views[1].shape # shape

GroupsPartition(tensors, groups, views) ==
  /\ Cardinality({ views[i] : i \in DOMAIN views }) = Len(views)
  /\ \A t \in tensors :
       CoveredBy(t, { views[i] : i \in { i \in DOMAIN views : views[i].name = t.name /\ views[i].layer = t.layer } })
  /\ \A i \in DOMAIN views : \E t \in tensors : views[i].name = t.name /\ views[i].layer = t.layer
  /\ MuonGroupsUniform(SelectSeq(groups, LAMBDA g : g.kind = "muon"))

(* OptimizerPartitions: SetupOptimizer's groups share the model out.  Every   *)
(* element of every named parameter lies in exactly one view of exactly one  *)
(* group, except the router's correction bias, which no group updates; a     *)
(* view is a block of whole rows of its parameter; a Muon group holds        *)
(* matrices of one shape, and no other group holds that shape.  A forgotten  *)
(* projection would never be trained, an overlapping view trained twice.     *)
OptimizerPartitions(c) ==
  \A sinkhorn \in BOOLEAN : \A groups \in { SetupOptimizer(c, sinkhorn) } :
    GroupsPartition(NamedParameters(c), groups, FlattenSeq([g \in DOMAIN groups |-> groups[g].views]))

-----------------------------------------------------------------------------
(* Sizes of a built model.                                                 *)

MatrixNames ==
  {"c_q", "c_k", "c_v", "q_down", "kv_down", "mla_q_down", "mla_q_up", "mla_q_rope", "mla_kv_down",
   "mla_k_up", "mla_v_up", "mla_k_rope", "c_proj", "ve_gate", "mlp.c_fc", "mlp.c_gate", "mlp.c_proj",
   "router", "experts.gate", "experts.up", "experts.down"}

TransformerMatrices(c) == { t \in NamedParameters(c) : t.name \in MatrixNames }

MatmulParams(c) ==
  SizeOf(TransformerMatrices(c) \cup Named(c, "lm_head") \cup Named(c, "smear_gate"))

ExpertParams(c) == SizeOf({ t \in NamedParameters(c) : t.name \in {"experts.gate", "experts.up", "experts.down"} })

ActiveMatmulParams(c) ==
  IF ~MoEEnabled(c) THEN MatmulParams(c)
  ELSE (MatmulParams(c) - ExpertParams(c)) + MoEActiveExperts(c) * (ExpertParams(c) \div c.experts)

NumScalingParams(c) ==
  SizeOf(Named(c, "wte") \cup ValueEmbeds(c) \cup Named(c, "lm_head") \cup TransformerMatrices(c)
         \cup { t \in NamedParameters(c) : t.name \in
                  {"resid_lambdas", "x0_lambdas", "smear_gate", "smear_lambda", "backout_lambda"} })

AttentionLengths(c, layer, context) ==
  IF Compression(c) > 1
  THEN [global |-> Max({1, CeilDiv(context, c.ratio)}), local |-> Min({c.window, context})]
  ELSE [global |-> Min({context, WindowSize(c, layer, c.seq)}), local |-> 0]

AttentionWork(c, factor, pairs) ==
  factor * c.heads * HeadDim(c) * SumOver(Layers(c), LAMBDA layer : pairs[layer])

Attended(c, layer, context) ==
  AttentionLengths(c, layer, context).global + AttentionLengths(c, layer, context).local

EstimateFlopsPerToken(c) ==
  6 * ActiveMatmulParams(c) + AttentionWork(c, 12, [layer \in Layers(c) |-> Attended(c, layer, c.seq)])

EstimateDecodeFlops(c, context) ==
  2 * ActiveMatmulParams(c) + AttentionWork(c, 4, [layer \in Layers(c) |-> Attended(c, layer, context)])

\* Query-key pairs of a causal window over a prompt.
WindowPairs(tokens, width) == ((width * (width + 1)) \div 2) + (tokens - width) * width

\* Each block holds ratio queries that read the strictly preceding blocks.
BlockPairs(ratio, blocks) == (ratio * blocks * (blocks - 1)) \div 2

PrefillPairs(c, layer, tokens) ==
  LET lengths == AttentionLengths(c, layer, tokens)
  IN  (IF Compression(c) > 1 THEN BlockPairs(c.ratio, lengths.global)
       ELSE WindowPairs(tokens, lengths.global)) + WindowPairs(tokens, lengths.local)

\* EstimatePrefillFlops without the encoder-decoder split
PlainPrefillFlops(c, tokens) ==
  2 * ActiveMatmulParams(c) * tokens + AttentionWork(c, 4, [layer \in Layers(c) |-> PrefillPairs(c, layer, tokens)])

\* The parameters of one block that a token of the replay touches; the keys and
\* values are counted apart.
BlockParams(c, layer) ==
  SizeOf({ t \in TransformerMatrices(c) : t.layer = layer /\ t.name \notin
             {"c_k", "c_v", "experts.gate", "experts.up", "experts.down"} })
  + (IF MoEEnabled(c) THEN MoEActiveExperts(c) * 3 * MoEExpertHidden(c) * c.embed ELSE 0)

KVParams(c, layer) == SizeOf({ t \in TransformerMatrices(c) : t.layer = layer /\ t.name \in {"c_k", "c_v"} })

EstimatePrefillFlopsCED(c, tokens) ==
  LET replay == Min({tokens, c.window})
      run(layer) == IF IsDecoderLayer(c, layer) THEN replay ELSE tokens
      projected(layer) == IF IsDecoderLayer(c, layer) THEN tokens + replay ELSE tokens
      pairs == [layer \in Layers(c) |-> IF IsDecoderLayer(c, layer) THEN replay * Attended(c, layer, tokens)
                                        ELSE PrefillPairs(c, layer, tokens)]
  IN  2 * SumOver(Layers(c), LAMBDA layer : BlockParams(c, layer) * run(layer)
                                            + KVParams(c, layer) * projected(layer))
      + 2 * c.embed * PaddedVocab(c) * replay + 2 * 24 * tokens
      + AttentionWork(c, 4, pairs)

EstimatePrefillFlops(c, tokens) ==
  IF c.ced THEN EstimatePrefillFlopsCED(c, tokens) ELSE PlainPrefillFlops(c, tokens)

-----------------------------------------------------------------------------
(* Sizes planned from a configuration, without a model.                    *)

\* The value of the heads is counted once for every query head.
UngroupedValuesBug(c) ==
  LET rope == MLARotaryDimension(c)
      content == HeadDim(c) - rope
  IN  2 * c.latent * c.embed + (c.heads + c.kvHeads) * (content * c.latent + rope * c.embed)
      + c.heads * HeadDim(c) * c.latent

MlaParamsForConfig(c) ==
  LET rope == MLARotaryDimension(c)
      content == HeadDim(c) - rope
  IN  2 * c.latent * c.embed + (c.heads + c.kvHeads) * (content * c.latent + rope * c.embed)
      + c.kvHeads * HeadDim(c) * c.latent

MoeFFNParamsForConfig(c, experts) ==
  IF ~MoEEnabled(c) THEN 8 * c.embed * c.embed
  ELSE 3 * c.embed * MoESharedHidden(c) + experts * 3 * c.embed * MoEExpertHidden(c) + c.embed * c.experts

\* The matrices of all blocks, with this many routed experts in each.
PlannedMatrices(c, experts) ==
  LET query == IF c.qRank > 0 THEN 2 * c.embed * c.qRank ELSE c.embed * c.embed
      keyValue == IF c.kvRank > 0 THEN 3 * c.embed * c.kvRank ELSE 2 * c.embed * c.embed
      block == (IF MLAEnabled(c) THEN MlaParamsForConfig(c) ELSE query + keyValue)
               + c.embed * c.embed + MoeFFNParamsForConfig(c, experts)
  IN  c.layers * block + ((c.layers + 1) \div 2) * 12 * c.kvHeads

ScalingParamsForConfig(c) == PlannedMatrices(c, c.experts) + c.embed * PaddedVocab(c)

TotalParamsForConfig(c) ==
  ScalingParamsForConfig(c) + PaddedVocab(c) * c.embed
  + ((c.layers + 1) \div 2) * PaddedVocab(c) * KVWidth(c) + 2 * c.layers + 24 + 1 + 1

EstimateFlopsPerTokenForConfig(c) ==
  6 * (PlannedMatrices(c, MoEActiveExperts(c)) + c.embed * PaddedVocab(c) + 24)
  + AttentionWork(c, 12, [layer \in Layers(c) |-> Min({c.seq, WindowSize(c, layer, c.seq)})])

-----------------------------------------------------------------------------
(* Properties of the planning formulas.                                    *)

\* What the plan counts too much of a grouped-query model: it prices keys and
\* values as if they were as wide as the queries.
UngroupedKeys(c) ==
  IF MLAEnabled(c) THEN 0 ELSE c.layers * 2 * Unset(c.kvRank, c.embed) * (c.embed - KVWidth(c))

\* The gates of value embeddings a latent model does not have.
MissingGates(c) == IF MLAEnabled(c) THEN ((c.layers + 1) \div 2) * 12 * c.kvHeads ELSE 0

MissingEmbeddings(c) ==
  IF MLAEnabled(c) THEN ((c.layers + 1) \div 2) * PaddedVocab(c) * KVWidth(c) ELSE 0

\* What neither the plan nor NumScalingParams counts.
Uncounted(c) ==
  { t \in NamedParameters(c) : t.name \in
      {"compress_logits", "compress_bias", "indexer_query", "indexer_key", "indexer_heads", "router_bias"} }

(* PlannedSizesTrackModel: the formulas that size a training run before any   *)
(* model exists agree with the model NewTransformer then builds, up to       *)
(* deviations that are spelled out: TotalParamsForConfig prices the keys and *)
(* values of a grouped-query model at full width and gives a latent model    *)
(* value embeddings it does not have, and it leaves out the compressor, the  *)
(* indexer and the router biases; the planned work of an uncompressed model  *)
(* is off by six times the same matrices.  The comment of memory.go:17-22    *)
(* ("accurate to within a couple of percent", for the last of these only)   *)
(* does not hold of latent and of grouped-query configurations.             *)
PlannedSizesTrackModel(given) ==
  LET c == ApplyMoEDefaults(given)
      excess == UngroupedKeys(c) + MissingGates(c)
  IN  /\ TotalParamsForConfig(c) + SizeOf(Uncounted(c)) = TotalParams(c) + excess + MissingEmbeddings(c)
      /\ NumScalingParams(c) + SizeOf(Uncounted(c)) = TotalParams(c)
      /\ Compression(c) = 1 =>
           EstimateFlopsPerTokenForConfig(c) = EstimateFlopsPerToken(c) + 6 * excess

\* The longest prompt the two work estimates are compared on.
LongestPrompt == 12

(* PrefillSumsDecode: the two work estimates of flops.go tell one story.     *)
(* Prefilling a prompt is estimated at what decoding it token by token is,   *)
(* save that in compressed layers, for whole blocks, every query reads one   *)
(* block less.  With the encoder-decoder split, a further block of tokens    *)
(* past the window never costs more than it would without the split.         *)
PrefillSumsDecode(given) ==
  LET c == ApplyMoEDefaults(given)
      decoded(n) == SumOver(1 .. n, LAMBDA t : EstimateDecodeFlops(c, t))
      unread(n) == IF Compression(c) = 1 THEN 0 ELSE 4 * c.heads * HeadDim(c) * c.layers * n
      step(Prefill(_, _), n) == Prefill(c, n + Compression(c)) - Prefill(c, n)
  IN  \A n \in 1 .. LongestPrompt :
        /\ ~c.ced /\ n % Compression(c) = 0 => EstimatePrefillFlops(c, n) + unread(n) = decoded(n)
        /\ c.ced /\ n >= c.window => step(EstimatePrefillFlopsCED, n) <= step(PlainPrefillFlops, n)
=============================================================================
