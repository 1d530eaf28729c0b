# gonano in TLA+

gonano is a language-model stack in Go: tensors and kernels, a decoder-only
transformer with grouped-query, multi-head-latent and compressed sparse
attention, training, an inference engine with prefix caches, tool calls,
thinking traces and speculative decoding, domain models behind a router, and an
HTTP server. This directory holds TLA+ models of the parts whose correctness is
a matter of *control*: which state each request sees, in which order, under
which limits, and which row of which buffer an index points at. Numbers
(weights, logits, key/value rows) appear only as names.

Run a check with `tlc -config X.cfg M` and a proof with `tlapm M.tla`.
`PROJECT.json` lists every run, the definitions with the source lines they
translate, the deliberate mutations each property detects, and the hazards.

## Inventory

| component | state it keeps | operations | what is hard |
|---|---|---|---|
| Bank (`bank/bank.go`) | loaded models by domain, LRU list, byte count, clock | `Acquire`, `AcquireMany`, eviction | concurrent handlers between two `Acquire`s of one blend; two budgets; failing loads |
| Routing and serving (`server/*.go`, `router/router.go`, `cmd/server`) | request-local selection, default engine | start, rendering, `selectGenerator`, `ensembleForScores`, the answer | a selection of which only a part loads; text classified after rendering has changed it |
| Prefix cache (`inference/cache.go`) | snapshots by token sequence, LRU list, byte count, files | `Lookup`, `Store`, `Invalidate`, expiry, eviction | aliasing of mutable buffers, disk tier, unreadable files, restarts |
| Single-entry cache (`inference/prefix.go`) | one snapshot | `Lookup`, `Store`, `Invalidate` | the same aliasing |
| Engine prefill (`inference/engine.go`, `cache.go`) | per request: prompt, buffer | pool lookup, main lookup, bounded replay, forward, two stores | concurrent requests over two shared stores, stripped snapshots |
| Engine decode loop (`engine.go`), blended loop (`ensemble.go`) | per row: forced tokens, tool call, thinking trace | one column per iteration | budget, tool output and delimiters interleaving; two copies of one machine |
| Consumers of the loop (`server/server.go`, `server/handler.go`, `GenerateBatchWith`) | per row: content, reasoning, tool calls | one callback per column | must stay in step with machines they cannot see |
| KV buffer (`model/kvcache*.go`, `compress_attention.go`) | raw rows, tails, compressed blocks, indexer keys, counters | `PrefillFrom`, `Clone`, `StripRaw`, codec, append, compress, reindex | counters of several layers and rows, partial blocks, indexing by slot or by row |
| Speculative decoding (`inference/speculative.go`), its drafter (`model/dspark.go`) | cache position, smear state, pending candidate | draft, verify, accept, rewind, emit; training windows | rewinding off by one; the end of the context; drafting under the conditions of training |
| Transformer trunk and attention (`model/transformer.go`, `train*.go`, `indexer.go`, `compress.go`) | activations, shares between layers, gradient accumulators, caches | training forward and backward, `Forward`, `PrefillCED`, block selection | layers that borrow one another's blocks; masks; inference cut into pieces |
| Configuration and sizing (`model/config.go`, `preset.go`, `params.go`, `optimizer.go`, `flops.go`, `memory.go`) | none | validation, presets, parameter groups, estimates | the same shapes computed in four places |
| Mixture of experts (`model/moe.go`) | router bias, per-step load | selection, gather, scatter, backward, bias update | positions computed from counts |
| Supervised tuning (`data/conversations.go`, `data/dataloader.go`, `trainer/sft.go`) | cursor over JSONL files, conversation buffer, scratch rows, step | `Next`, `refill`, `NextSegments`, `TrainSFT` | best-fit packing into reused buffers; the input ending inside a batch |
| Pretraining (`data/dataset.go`, `markdown.go`, `dataloader.go`, `trainer/trainer.go`, `cmd/base_train`, `cmd/trainer`) | cursor over files and row groups, document buffer, step, weights | source, packer, loop, save | cycling over empty files; a cut document; crashes |
| Checkpoints (`model/checkpoint`) | files | `Save`, `Load` | a save interrupted or written over an older one |
| Parquet reader (`data/parquet`) | none | footer, pages, encodings, Snappy | nested framing |
| Tokenizer (`tokenizer`) | ranks | split, train, encode, decode, save, load, render | a heap with stale entries; two renderings |
| Calculator (`inference/tooluse.go`), worker pool (`internal/parallel`) | none | evaluate, count; partition | association, boundaries |
| Router models, other training, optimizers, tensors, kernels, downloads, evaluators, executor, commands | numeric, stateless or plumbing | | see "Not modelled" |

How they interact: a handler renders its messages, classifies the last turn and
selects a generator (the default engine, or bank models through the router); the
engine looks a prompt up in the pool, then in the main store, completes a stripped
snapshot by replaying a window, forwards the rest, stores the result in both,
replicates the buffer over the sample rows and decodes column by column; each
column is a *callback* into the server's parser or the stream, whose return value
ends the loop. The bank and the stores are shared by all handlers behind a mutex
each; everything else belongs to one request. Training packs documents or
conversations into rows, walks the layers up and down, and leaves checkpoints
that later runs and the bank load.

What makes each correct: the bank and the stores keep map, list and counters in
agreement and respect their limits; a store hands out private copies only, of
the longest live strict prefix; a request decodes from a buffer that covers its
own prompt, with the models its own route chose; counters, tails and blocks of a
buffer follow its position; every consumer's view of a row is the engine's;
speculative output is the greedy output; no document or conversation is lost,
repeated or predicted from another; gradients arrive where the activation was
read; what is served reads what training read; what loads is what one save wrote.

## Modules

| module | models | composed with |
|---|---|---|
| `Bank` | `bank.Bank` under concurrent `AcquireMany` | implements `LRUPolicy` |
| `LRUPolicy` | abstract bounded least-recently-used store | |
| `Router`, `Rendering` | the router's decisions; the two renderings of a conversation | |
| `Serving` | requests of the server in bank mode | EXTENDS `Bank`, `Rendering`, `Router` |
| `CacheManager` | `inference.CacheManager` | implements `PrefixStore` |
| `PrefixStore` | what the engine expects of `prefixCacheStore` | |
| `PrefixReuse` | prefill of `GenerateWith` over two managers | EXTENDS `CacheManager` |
| `Generation` | the decode loop, its three consumers and the blended loop's machine | |
| `Speculative` | `speculativeGenerate` | implements `GreedyDecode` |
| `GreedyDecode` | abstract greedy decoding of a row | |
| `KVBuffer`, `KVBufferProofs` | `model.KVBuffer` over the life of requests; theorems about it | |
| `Attention` | reuse roles, windows, segments and block selection of a layer | used by `Transformer`, `Parameters` |
| `Transformer` | a training step and the serving of the same tokens, layer by layer (`TrunkSpec`) | EXTENDS `Attention` |
| `SupervisedTuning`, `TuningProofs` | `ConversationSource`, `SFTLoader` and `TrainSFT`; theorems about them | |
| `Pretraining`, `PretrainingProofs` | sources, `PretrainLoader`, the training commands and checkpoints; theorems about them and `MixtureOfExperts` | |
| `Parameters` | configurations, tensors, optimizer groups, estimates | EXTENDS `Attention` |
| `MixtureOfExperts`, `Drafting`, `WorkerPool`, `Calculator`, `BytePairs` | pure algorithms | |
| `Parquet`, `ParquetFiles` | the reader; a writer of what it reads | |
| `SeqSums`, `SeqSumsProofs` | totals and selections of a sequence, and lemmas about them | used by `Bank`, `CacheManager`, `Generation`, `MixtureOfExperts`, `Pretraining`, `SupervisedTuning` |
| `ServingProofs` | theorems about `Bank`, `Serving` and `Rendering` | |
| `CacheProofs` | theorems about `CacheManager` and `PrefixReuse` | |
| `InferenceProofs` | theorems about `Speculative`, `Transformer` and `WorkerPool` | |
| `GenerationProofs` | theorems about `Generation` and `Drafting` | |
| `MC*` | small instances for TLC; `MCAlgorithms` joins the pure algorithms | |

A name ending in `Bug` is a plausible wrong version of the definition after it;
no specification uses one. They show that each property can fail: with the wrong
version in place, TLC reports the property violated in the same run.

**Bank.** Every exported method of the bank holds its mutex from entry to
return, so an `Acquire` is one action; `AcquireMany` calls it once per id, and
other handlers run between two of its calls. `entries`, `order`, `bytes` and
`clock` are the fields of the same name. The eviction loop is one operator,
`Victims`: the least number of entries, oldest first, whose removal meets both
budgets. A loaded model is named by the clock value of its load, so "the same
pointer" can be said; a checkpoint may have another size each time it is read.
An unknown id, a failed load and a vocabulary mismatch are `AcquireFail`.

**Serving.** `Start` is `serveBank`: the first domain must load or the process
exits. `Receive` is all a handler does before it touches the bank (rendering,
merging the system message into the request's own slice, pinning or classifying,
`TopDomains`); `AcquireRouted` is one iteration of `ensembleForScores`, so that
another handler or an `Embedder` (any caller of `AcquireMany`) runs in between;
`Answer` is the rest. Probabilities are whole percents and free.

**CacheManager.** Buffers are mutable objects, so they live in `cell`s and
entries and callers hold references: a missing `Clone` in `Lookup` or `Store` is a
behaviour of the model, not an impossibility. The SHA-256 key is the sequence
itself. A file is a function from prompts to marshalled buffers; reading may fail
at any time, and so may saving: `Unsaved` is the directory a failed `saveKVFile`
leaves, with or without its temporary file, after which the entry is kept in memory.
`Restart` and `CrashInStore` (at any point of the save) empty the memory and leave
the files, which no entry then owns. A
buffer carries the flags the code carries (`raw` rows present, `stripped`) and
one it does not: `exact`, whether its contents are those of a full prefill. The
cell of a garbage buffer is reset so that the state space stays finite.

**PrefixReuse** splits the prefill where other requests can run: after each call
of a store. `Replayed` translates `replayLocalState`: from `len - Window - 1`, or
from the beginning if that is negative.

**Generation.** Tokens are classes (the delimiters, text, tool result). One
`Step` is one column: for each row the engine machine takes a forced or a sampled
token, and the response parser and the stream take the yielded token and mask;
the batch consumer is a function of what was yielded. What is sampled, whether a
tool answers and with how many tokens is nondeterministic. The machine of
`Ensemble.GenerateWith` is written out a second time, as it is in the code.

**Speculative.** The target model is known by the tokens it prefers along its own
greedy path; off that path, *or when the cache or the smear state is not that of
the path*, it may prefer anything, so a wrong rewind shows as wrong output. The
drafter may propose anything and the consumer may stop at any token.

**KVBuffer.** A full compressed layer and a reindex layer that reuses its
blocks. A row is named by head, sample row and position, a block by the rows it
was made of; positions, tails, blocks and counters are indexed as in the Go code.
A request is a prefill, possibly from a kept snapshot (`Clone`, stripped, through
the codec, or both), a replay if needed, a replication and decoding.

**Attention and Transformer.** A layer is Full, Reindex or reUse within its half of
the model; its reads are a set of raw rows (the local window) and a set of
compressed blocks (all visible ones, or those the indexer selects, flat or by
block maxima and a candidate pool). Training takes one layer per step, up and
down; the accumulators of a `compressionShare` are variables, and a gradient
names the query and the row it belongs to. The same tokens are then served in
pieces of any size: `Forward` appends rows and blocks to the caches and its reads
must be those of training; `PrefillCED` runs the encoder over the prompt and
replays a window in the decoder. Scores only rank.

**SupervisedTuning.** A conversation is its position in the input, a token a
conversation and an index, so that a target says where it comes from. A row is
filled by `Place`, one conversation at a time, and written to the batch by
`CloseRow`, which pads it. `scratch` is the loader's, kept from row to row: what
is not overwritten is still there. A batch starts as tensors of zeros
(`Untouched`), and `RunDry` leaves the rest of them so. `Refill` is all the
provider calls of one `refill`; a line may hold nothing that parses. `TrainStep`
is one optimizer step: what it keeps of it is the learning-rate multiplier, as a
numerator and a denominator. `step` stops counting at `MaxSteps`.

**Pretraining.** A document is the epoch it was read in, its file, row group and
place; a token a document and an offset. Source, packer and training loop are
one goroutine, one action per loop iteration of each. `Save` writes a checkpoint
section by section into the truncated file; the process may crash between any
two actions; the next run is fresh or continues from a file its operator names, which may
be any that `Load` accepts.

**Pure algorithms.** `MCAlgorithms` gives one of them one input and returns; the
properties compare the result with a definition of what it should be: columns
with the values written, arithmetic with the tree it was printed from, a served
prompt with the training rendering, optimizer groups with a partition of the
parameters' storage, estimates with the tensors, dispatched tokens with the
experts chosen, encodings with merges applied in the order they were learned,
drafts with the training windows, worker ranges with the whole range. What the
result must be is defined apart from how the code gets it.

## Runs

All configurations are small; the reason they suffice is given with each. TLC
finds about 212,000 distinct states in `serving`, 379,000 in `cache_manager`, 825,000
in `prefix_reuse`, 188,000 in `generation`, 54,000 in `speculative`, 6,000
in `kv_buffer`, 239,000 in `supervised_tuning`, 80,000 in `pretraining`, 2,000 in
`transformer` and 16,000 in `algorithms`.

| run | question | instance and why it is enough |
|---|---|---|
| `serving` | Is the bank a budgeted LRU store under concurrency, and is each request answered by the models its own route chose? | 2 handlers and another user of the bank, 3 domains and one without a model, sizes 1, 2, 4 against 3 bytes and 2 models: either budget can bind, two victims may be needed, one model exceeds the budget alone. `MaxClock` = 4 acquisitions: fill, evict, reload. Distributions with a tie, a clear winner and a winner that cannot load; requests with and without a system message, an instruction, a history, a pinned domain. |
| `cache_manager` | Do map, list, counter and directory stay consistent, and is it a `PrefixStore`? | prompts `1`, `1 1`, `2`: one extends another, one does not. Two entries fit by count, sizes 2 and 5 against 4 bytes: two fit, or none. TTL 1, time up to 2: an entry can expire or be just at its age. Any save may fail, with or without a temporary file left. |
| `prefix_reuse` | Do two interleaved requests decode from buffers that cover their own prompts with window rows? | prompts of 1 to 3 tokens, each a prefix of the next; stripped main store of one entry, on disk or in memory, pool of one entry that expires; window 1, so that prompts fall below, at and above the replay boundary. |
| `generation` | Do the consumers follow the engine, does the blended loop, and does the loop end, whatever is sampled? | one row that may sample anything next to one that stops at once; up to 7 columns, budget 4, tool answers of 0 or 1 tokens, a primed trace: a whole call with its forced output fits inside a trace and overruns the budget, and columns follow. |
| `speculative` | Is the output the greedy one, for every drafter, and does it end? | two words and a terminal, every greedy path; blocks of 3, at most 3 tokens out, context room 0, 2 or 4: no block, a shortened one, a full one. |
| `kv_buffer` | Do blocks, tails, window rows and indexer keys follow the tokens through reuse, replay and replication? | 2 heads, 1 or 2 samples, ratio 3, window 2, prompts up to 8 and 4 decoded tokens: partial tails of each length, several blocks appended in one pass, a replay that starts in the middle or at 0. |
| `supervised_tuning` | Are conversations packed whole, once, with the right targets and segments, and all trained on before the loop ends? | every input of up to 5 lines: no conversation, 2, 3, 5 or 6 tokens against rows of 5 cells, so that two conversations share a row, one fills it, one never fits; 2 rows, a buffer of 2 filled by reads of 2: the input ends between batches, between rows and inside a row, and a row may empty the buffer. `Limits` 0 (none) and 2. |
| `pretraining` | Are documents packed once each, are loaded checkpoints whole, and does every run end? | three corpora: empty groups, files without groups or unreadable, documents that fill a row and that exceed it; rows of 4 and the next token, 2 rows, a buffer of 3 filled by reads of 2, so that several epochs are read in one run; 1 or 2 steps, 3 runs: fresh, continued, and over an older file; a crash anywhere. |
| `transformer` | Do gradients arrive, do masked layers stay in their document, does serving read what training read? | 8 tokens and 8 configurations: uncompressed with short windows, dense and sparse compression, all three roles, flat and pooled selection, encoder-decoder with each; documents that start at a block boundary, inside a block, in the last block; scores that tie, rise, or differ per layer; every cut of the prompt. |
| `algorithms` | Do the pure algorithms compute what they should? | inputs per algorithm, see `MCAlgorithms`: small enough to enumerate, large enough for a nested struct, a sign before a factor, a tie in the heap, an expert without tokens, more workers than items. |
| `sample_masking`, `tail_replication` | see Findings | the instances of `transformer` and `kv_buffer`, the latter smaller |

`serving` and `transformer` switch the deadlock check off: the bounded clock, and
the end of the step and of the prompt, are where they stop. `prefix_reuse` uses
symmetry in the two handlers; they are interchangeable in every definition and the
run checks invariants only. All other runs check for deadlock; loops that end have
an explicit terminated state.

The bounds are constants: `MaxClock` in `Bank` and `CacheManager`, `MaxTokens` in
`Generation`, `Speculative` and `KVBuffer`, `MaxLines` and `MaxSteps` in
`SupervisedTuning`, `MaxRuns` in `Pretraining`, `Length` in `Transformer`, `Horizon`
in `Speculative` (the path is never read beyond it), and the finite sets of sizes,
prompts, requests, configurations and results.

**Fairness.** `Generation`, `Speculative` and `SupervisedTuning` assume weak
fairness of the whole next-state relation and nothing else: each is the loop of
one goroutine that waits for no other, so it goes on as long as it can.
`Pretraining` assumes it of `Process`, the steps of a started process: nobody has
to start a run, and a crash is never due. No fairness is assumed of what is
sampled, of the tools, or of the consumer. `Serving`, `CacheManager`, `PrefixReuse`,
`KVBuffer` and `Transformer` assume none and state only safety: their steps are
requests, which nobody has to make, or a computation that ends by construction.

## Properties

- `AccountingExact`, `WithinBudget` (bank), `WithinLimits` (cache): list and map
  agree, counters are the sums they stand for, and the limits hold between calls,
  after every history of loads, evictions, replacements, expiry and unreadable
  files. The limits differ: the bank keeps a model larger than its budget
  (`evictLocked` spares the id just loaded), the cache does not keep such a
  snapshot.
- `ResidentModelStable`, `ImplementsLRU`: a handler that gets a model gets the
  resident one, and what is dropped is never newer than what is kept, nor dropped
  needlessly.
- `BlendFollowsRoute`, `ClassifiesLastTurn`: although other handlers load and evict
  in between, the members of a blend are exactly the places of the route whose
  `Acquire` brought a model, in their order, each with that model and the probability
  of its own place, and a request that loaded anything is answered by its blend. Each
  job keeps what its `Acquire`s brought (`answers`), so a domain that loaded and
  was dropped would show. What is classified is the last turn as it was sent, with one exception
  (see Observations).
- `FilesAccounted`, `ImplementsPrefixStore`: nothing a caller does to its buffer
  reaches a stored one; no snapshot's file is lost, or left behind by a running
  process. The temporary file of a failed save is left behind, and stays until the
  same prompt is saved again; a prompt that is kept as a file has none.
- `BufferCoversPrompt`, `ShortPromptsExact`: what a request decodes from, in any
  interleaving, window rows included. Longer prompts completed by replay are
  approximate by design (the replayed window's first rows lack theirs).
- `ParserFollowsEngine`, `ReasoningWithinBudget`, `ConsumersAgree`,
  `EnsembleMatchesEngine`, `LoopTerminates`: the machines rebuilt by the parser, the
  stream and the batch consumer agree with the engine's and with one another, the
  second copy of the engine's machine is the first, and the loop ends. The budget is
  one per opening of a trace, since every `<|think_start|>` starts the count anew:
  `ReasoningWithinBudget` counts, over the tokens a row has emitted, those sampled between
  an opening and the next delimiter, and bounds the trace reported (see Observations).
- `CacheFollowsOutput`, `ImplementsGreedy`, `Terminates`.
- `BlocksExact`, `WindowExact`. `BlocksExact` leaves out the one block that was in
  the tail when a buffer with several heads was replicated: that case is the run
  `tail_replication`.
- `GradientsReachTheirRows`, `OwnBlocksStayInSegment`, `InferenceReadsAsTrained`.
  The second speaks of the layers that own their blocks; the others are the run
  `sample_masking`. The third leaves out the rows `PrefillCED` replays, which see a
  shorter window by design, and not what is decoded after them.
- `ConversationsWhole`: each conversation is at any time in one place (unread,
  buffered, in the open row, in the batch, trained on), none cropped or lost, and
  conversations of a row have segments of their own. `TargetsFollowInputs`: although
  scratch rows are reused, what a row predicts is the next token of the same
  conversation, at the assistant's positions only. Both speak of the rows the loader
  writes. `EveryConversationTrained` assumes that each conversation fits a row: one
  that does not stays in the buffer, and batches of padding never end.
- `RowsPacked`, `DocumentsAccounted`, `LoadedModelsWhole`, `RunsEnd`. The last assumes,
  as does the program, a corpus with at least one document.
- `ColumnsReadBack`, `CalculatorEvaluates`, `ServedAsTrained`, `OptimizerPartitions`,
  `EstimatesTrackModel`, `ExpertsSeeTheirTokens`, `EncodesAsTrained`,
  `DraftsAsTrained`, `PartitionCovers`: the pure algorithms. `ColumnsReadBack` has two
  exceptions, columns that repeat an index of the upper half of their dictionary, which
  are refused, and 64-bit dictionary entries beyond 32 bits, which come back as the number
  their low 32 bits make. The run writes both kinds.

## Findings

Each is shown by a run in which TLC finds the quoted statement violated.

1. `sample_masking`: a Reindex or Reuse layer builds its `compressedContext` from the
   producer's blocks without the segments (`model/train.go:121`), so its global
   branch attends across packed documents although
   `model/train_transformer.go:49` says a token never does. The flash preset has
   such layers, and sample masking is on by default.
2. `tail_replication`: `PrefillFrom` copies the uncompressed tails by row number
   although they are allocated per row and head (`model/kvcache.go:411`). With more
   than one key/value head a prompt that ends inside a block is decoded with the
   wrong rows for the other heads.

## Observations

Met while modelling; the models follow the code, and no run is about them.

Decoding and caches: `types.go:65` says that `ThinkingBudget` "caps the number of reasoning
tokens", but a `<|think_start|>` sets the count to 0 also inside an open trace
(`inference/engine.go:302`), so a row may sample, and a stream show in one trace, more
than the budget. A save that fails midway or at its rename leaves `<key>.kv.tmp` in the
directory (`cache.go:270`); nothing removes it, `Invalidate` neither. Past an exhausted budget a closing token is queued for every
counted token, so several may be forced, the later ones into text after the trace
(`inference/engine.go:309`). Speculative decoding ends a row without yielding its
terminal token, so the server reports `length` where greedy decoding reports `stop`
(`speculative.go:75`). The stream derives its finish reason from a count over all rows
(`server/handler.go:192`). Tool calls are executed by the engine and again by the
parser, and a blend has its own calculator-only registry. A buffer completed by
replay still carries `rawStripped`, so a pool with a `DiskDir` would write it without
its window rows (`cache.go:310`), and a stripped snapshot of exactly `Window + 1` tokens
is replayed with a stale previous embedding (`cache.go:302`); no command sets these.

Serving: a pinned domain that cannot be loaded leaves no generator
(`server.go:131`). `mergeSystemMessage` writes into the request's slice, so the text
classified holds the system message too when the user's first message is the last one
(`server.go:384`). When an instruction is put before a client's own system message,
both are lost to the rendering. `X-Gonano-Domains` lists domains that did not load.
Tool messages are rendered differently in training and serving. Evicted models in
use are outside the byte budget, and the server command sets no budget.

Training and data: when conversations run out before a batch is full, the rows left
are trained on with token 0 as every target (`dataloader.go:243`). `TrainSFT` without
a limit divides by an empty warmdown from step 2 on (`sft.go:28`). `base_train`
computes the accumulation steps but steps the optimizer on every micro-batch.
`Trainer.WeightDecay` is never set (`trainer.go:91`), and `distill.go:36` divides by
`GradAccumSteps` unguarded. A crash in `Save` destroys an older file of the same step;
a continued run starts its data, schedule and step at 0 and saves under its own number
of iterations, so the last step is not the most trained; the loader's `State` is never
saved. Long documents may wait in the best-fit buffer for ever. A corpus without
documents is cycled for ever (`dataset.go:52`).

Trunk: the smear reads across document boundaries; blocks are selected before the
segment filter, so a packed document can lose its own blocks, and the rows of a block
another document started are in no block; with pooling, ties go to the earlier
candidate; in CED prefill `W` rows are replayed for a window of `W + 1` keys and the first
one's smear is not seeded; the short window is rounded down, to 0 at 256 tokens
(`config.go:632`, whose comment says up). With the hierarchical indexer disabled
(`IndexerPool` 0 or 1) a training pass still cuts a selection to `IndexerCandidates`
blocks (`compress_attention.go:93`), which inference does not
(`compress_attention.go:1080`): with an explicit number below `CompressTopK`, which
`Validate` accepts, the two read different blocks.

Formats and sizes: the Parquet reader takes lengths of plain byte arrays as varints,
ignores definition levels, does not know `PLAIN_DICTIONARY`, refuses a repeated index
with its top bit set, truncates 64-bit dictionary entries to 32 bits
(`data/parquet/reader.go:189`) and does not verify the leading magic; `ParquetFiles` writes
what it does read. `memory.go:17` calls the parameter estimate "accurate to within a couple of
percent" but for some small tensors; it is not for latent and grouped configurations, nor the
compressed ones. Estimates price grouped keys and values at full width, count value
embeddings for latent models that have none, omit the compressor and indexer matrices,
and ignore compression per token: `EstimatesTrackModel` states these deviations.
The zero `Pool` fans out although `pool.go:16` says it runs inline. The splitter takes a
whole run of spaces where the documented pattern leaves one; `Save` writes the package's
special tokens. An ignored target followed by a supervised one is looked up as the
previous token in DSpark training.

## Proofs

`PROJECT.json` lists the theorems. Every one is proved for all values of the
constants that satisfy the named assumption of its module, and each assumption is
evaluated by TLC on the runs. Each proof has the same shape: an inductive
invariant, one lemma per action that keeps it, and the properties as its parts or
consequences.

### The bank (`ServingProofs`, first part, assumption `BankConstants`)

Sizes are positive integers, budgets natural numbers, requests sequences of ids.
`BankInv` is `TypeOK`, `OrderTracksEntries`, `RecencyOrdered`, `AccountingExact` and
`WithinBudget`, and none of the parts is inductive alone. That `bytes` stays a
sum over the order needs the order to list each resident id once, else removing
an entry would take its bytes away twice or not at all; that the bytes never go
negative (`TypeOK`) needs the accounting, because an eviction subtracts; the order
stays free of repetitions because a hit removes an id before it appends it and a
miss appends one that is not resident. `HitKeepsBank` says the new list is the
old one with one element moved to its end, whose total is the same
(`MoveToEndTotal`); `MissKeepsBank` that it is a suffix of the old one and a new
element, so the total loses exactly what `Freed` counts, and `VictimsSpec` where
the eviction loop stops. From it: the four properties, `ResidentModelStable`, and
`BankRefines`, the refinement of `LRUPolicy`. The abstract store weighs a *set* of
models and drops the *fewest* of the least recently used; that the loop's count of
victims is that fewest, measured as a sum over a set and not along the list, is
`WeightIsSum` and `SumsTotal`.

### The server (`ServingProofs`, second part, assumption `ServingConstants`)

`ServingInv` adds to `BankInv` that every job's route is sorted and above the
minimum score but for its first element (`RouteOK`), and that its members are the
places of that route that loaded, in its order (`BlendOK`: an increasing map from the members
onto the places whose recorded `Acquire` brought a model, each member with that
model and the weight of its place). `AnswerKeepsJob` is what one iteration adds to it. The route is computed by counting which classes are likelier;
that this gives out every place once is `RankOnto`. The router may name a domain
twice (nothing in `cmd/router_train` forbids it), so the members are tied to
places and not to names. `ServingBlend` and `ServingClassifies` follow, and the
bank's properties and refinement carry over to the composed specification.

### The prefix cache (`CacheProofs`, assumption `CacheConstants`)

Prompts are non-empty sequences, sizes positive; a limit of 0 means none; the
model values that name buffers are distinct from each other. `CacheInv` says of each
manager that the list orders the map's keys, the byte count is the total of the
sizes along the list, and every file belongs to a file-backed entry under its own
prompt or to an earlier process, and a temporary file to no prompt that has one
(`Sound`), that both limits hold (`Within`), and
that every entry's buffer is the manager's own (`Snapshots`, `Holding`): without
the last, a caller that forwards into its copy could change what an entry stores.
A Store is a sequence of steps in one action (remove the old entry, write the
file, append, prune), so each helper has its own lemma about what it keeps, and
`ShrinksKeeps`, `KeepsKeeps` and `Stores` put them together. Expiry and eviction remove
a set of entries at once; `OnlySplits` says that the bytes fall by what they weigh.

`CacheRefines` states that a manager, over expiry, eviction, the disk, restarts
and a crash inside Store, is the `PrefixStore`. It needs one more invariant,
`Unbuilt`: no snapshot has rebuilt window rows. Marshalling drops the raw rows of a
stripped buffer (`kvcache.go`), so a file written from a rebuilt one would not return
what was stored. No caller of `CacheManager` alone rebuilds; `PrefixReuse` does, and
there the engine stores what it rebuilt on purpose. Its own invariant `ReuseInv`
(assumption `ReuseConstants`) says what a request holds at each stage of
`GenerateWith` and the quality of every snapshot of the two stores: what main
returns may lack the window, what the pool returns never does. `ReuseBuffer` and
`ReuseShort` are its values at the last stage.

### Rendering (`ServingProofs`, third part, no assumption)

`RenderedAsTrained` is about any messages and options, of any length, whose
conversation follows the convention of the training data (`Conventional`): the prompt the
server builds is the one `RenderForCompletion` builds of the same conversation. The
server merges a system message into the first turn and puts an instruction before it, then
appends one turn after another; the tokenizer inserts and folds in another order, renders
pairs of token and mask, truncates and drops the masks. `MergedAsTrained` says that
both fold the same text into the same turn, and the rest is that two flattenings of
equal pieces are equal. One hypothesis restricts it: the prompt has fewer than 2^30
tokens, which is the `maxTokens` that `RenderForCompletion` passes on (`render.go:273`) and the server
does not have.

### Speculative decoding (`InferenceProofs`, first part, assumption `SpeculativeConstants`)

`SpeculativeInv` is `TypeOK`, `CacheFollowsOutput` and `OnGreedyPath`. A round verifies a
block, keeps the longest prefix the model agrees with, rewinds the cache and
queues the rest for emission; that the rows up to the rewound position are the
output and the queue, *and* that the pending candidate is the greedy one, each need
the other. `SpeculativeRefines` shows that emissions are those of `GreedyDecode`.

### The trunk (`InferenceProofs`, second part, assumptions `ConfigsAssumption`, `ScoringsAssumption`)

A configuration is any that `Validate` accepts: any number of layers, any reuse
pattern, ratio, window, pool and half for the encoder, over any length, packing and
index scores. `GradientInv` says what each phase has recorded so far (`TrainingTypes`), that every
read is the one its configuration, share and mask give, and that each accumulator holds
what the layers already left owe to it. The last is not inductive without the first two: a
layer that borrows blocks adds to the accumulator of its producer and not to its own,
and that all of them have done so when the backward pass reaches the producer needs
that a group of layers is consecutive and that the same holds of the encoder's output
across all decoder layers. `ThroughJoins` and `OwedByJoins` make the total independent of the order.
`GradientsArrive` is its value at the layer just left; `MaskedReadsIsolated` follows from the
reads alone.

`InferenceAgrees` compares two computations that share no state. `ReadsInv` says of an unmasked step what each
layer read, in terms of the scores only (`Indexed`); `ServingInv` that the caches of every
layer are at the buffer's position and that what was served was read `AsTrained`. One
forward call is a pass over all layers inside one action, so its effect is proved by
induction over the layers (`PassHolds`, `ServeStep`, `PassRuns`, from `SetInduction`), once
for the whole model and, in `PrefillCED`, once per half; `DecoderServes` is the replay of
the end of the prompt by the decoder over the encoder's blocks. That a selection does not depend
on how many blocks are already there is `PoolAgrees`, and that the selection through candidates is the direct one
`FlatSelection` and `PoolHolds`, over a ranking of the scores in which ties go to the earlier block (`Ranks`). The theorem
has one hypothesis, `Budgets`: an explicit `IndexerCandidates` of a flat configuration is
not below `CompressTopK`. It is necessary, since training cuts a flat selection short and
inference does not (see Observations). The default budget is never below, so every preset
satisfies it.

`PartitionsCover` (third part) is about `For`, `Chunks` and `Reduce` of the worker pool, for every
range, threshold and number of workers: the step is rounded up, so the last chunks could be
empty or pass the end, and the proof is that the bounds rise to the end and stay there.

### The decode loop (`GenerationProofs`, assumption `GenerationConstants`)

`RowOK` ties the machines that read one row to each other and to the row the engine
has emitted. The parser sees tokens and masks only. That it knows the row's tool
call (`Agree`) needs `CallOK`: while a call is open, nothing is forced but the end of a
trace, so no forced answer is mistaken for an argument. That a reported trace is
within the budget (`Bounded`) needs that a trace which has used its budget up has its
end among the forced tokens, and that the engine has counted all the parser keeps.
`WithinBudget` says the same of every opening in the row emitted so far: of the last one
by the engine's count (`OpenSince`), of earlier ones because a delimiter has ended them
for good; `WithinBudgetStep` adds one token.
`Streams` says that what the stream has shown is the parser's content and ends in its
trace, `Trains` what `GenerateBatchWith` keeps of the row. `AdvancedIs`,
`EnsembleAdvancedIs`, `ParsedIs` and `StreamedIs` say what one token does to each
machine, and `RowStep` puts them together.

### Drafting (`GenerationProofs`, second part)

`DraftingAgrees` is `DraftsAsTrained` for every positive context length, number of drafts (zero and negative
ones included, which the code raises to one), windows of one length, place of ignored targets, and
tokens before a window. Training indexes flat arrays of `batch * length` entries, so
the first half shows what the entries are: `FlatIs` and `WindowsAre` locate a window's tokens in
the flat arrays (`Cell`, `Uncell`: the quotient and remainder of an entry are its row and place),
and `SupervisedIs` that row `batch * n + index` is the lesson of that window and draft (`Lesson`):
it sees the window up to its masked end and masks behind it, the token before, and its own target.
`LearnedIs` makes of this what consistent heads answer to a lesson. `ChainIs` is the second half, an
induction along the drafts: draft i is read from a row that sees what lesson i saw, and the token
before it is the draft before, which by induction is the target of the lesson before. It needs that `Draft` keeps
exactly the unmasked part of the window, which is where the number of drafts asked for, the
context and what came before the window meet (`FitsAll`, `FitsFewer`, `ContextIs`).
`GradsAre` is the last conjunct: an entry of the flat gradient is a supervised row's if and only if
it lies behind the prefix, and one row's only.

### Pretraining (`PretrainingProofs`, assumption `PretrainingConstants`)

A document has at least its BOS, some file of the corpus holds one, and a Markdown
file is one document or none. `FilesInv` says of the disk that every file is a prefix
of the sections of one save, and, while section i is about to be written, that the file
of this run holds exactly the sections before it, with the weights the trainer still
has. `Accepted` asks for all the sections, so an accepted file is whole
(`PretrainingLoads`): the truncation by `os.Create` is what makes a save over an older
checkpoint safe, and its mutant loses the theorem.

`PretrainInv` is about the loader. `SourceInv`: the documents the cursor has passed are
those up to the position it reports, since what lies between the two is only empty
files and groups. The two disagree on the place (a position names the last group read,
the cursor the next one), so each turn of the loop, a rewind into a new epoch
included, has to show that it passes exactly what it makes pending (`Turns`).
`HeldInv`: those documents are each packed, buffered or pending. A packed document
leaves the buffer by `RemoveAt` while the rest keeps its order, so the proof carries
the injectivity of the buffer followed by what is pending (`ConcatHolds`,
`RemoveAtHolds`). `RowsInv`: the pieces of a row are documents of their own, whole unless
they fill the row. That the cut one is the last needs the packer's choice: a
document is cut only when none fits (`ChoiceIs`), and then to what remains.
`PretrainingDocuments` follows from the first two, and `PretrainingRows` from
the last with `RowTokensAre`, which locates every token of a row in its piece.

### Mixture of experts (`PretrainingProofs`, second part, no assumption)

`ExpertsServed` is `ExpertsSeeTheirTokens` for every number of experts, choices per row, batches,
rows, logits, biases and length of a sequence. The heart is `Placement`: the position a visit
writes, its expert's offset and the visits of that expert so far, is the visit's rank when
visits are sorted by expert, so no position is written twice and none is left out, and the
positions of an expert are those its offset and count claim. `GatherIs` turns that into what the
rest needs (`Serves`, `Sorted`): the gathered positions are a sequence of row and expert in which
each pair that chose each other occurs once, the experts in order. From it follow, one lemma each,
what the grouped product computes at a position (`GroupedIs`), what a row is given (`OutputIs`),
what is saved (`SavedIs`), where gradients go (`BackwardIs`) and what the balance loss counts
(`SequenceIs`). `GateIs` shows that the places the gate lists are those of the best set, which
also exists; and `ColumnsTotal` that the loads of a step add up to its choices, so that the
mean load is the mean of what the experts were chosen.

### Supervised tuning (`TuningProofs`, assumption `TuningConstants`)

Sizes are positive, a conversation that parses has at least two tokens, of which the
first is never supervised, and padding is no conversation's token. `TuningInv` has four
parts. `Places`: the conversations unread, buffered, in the open row, in the batch and
trained on are apart, and those that parsed are in one of them (`Apart`). `Lists`: each list
names a conversation once. `Written`: `Packed` says of the cells before
`pos` that they are whole conversations, each in a segment below `segment`, and
`RowOK` of every row already written what the properties ask of it; the rows after it
are untouched. `Counters`: the ranges.

None of them holds alone. That two conversations of a row differ in their segments
needs them to be different conversations, which is `Places` and `Lists`: the one being
placed was in the buffer and so not in the row. That the open row is found again in the
batch when it is closed needs `Packed`: a conversation has two tokens at least, so the one that
is cut off by the shift of the targets never takes a beginning with it. That a target follows its
input is proved both ways in `ClosedIs`: a supervised token is never the first of its
conversation, so the cell before it is its predecessor, whatever lay in the scratch row before;
and padding resets the masks. `RefillIs` is one call of `refill`, `PlacedIs` one placement,
`BestFitIs` that the packer's choice is among those that fit. The counts in
`ConversationsWhole` follow from `Apart` by `CountOne`.

### The KV buffer (`KVBufferProofs`, assumption `KVConstants`)

Heads, window, lengths and samples are positive, the ratio more than 1. `Global`
says of a buffer that its rows are all at one place, the blocks counted and the tail
being exactly the tokens given (`At`), that the indexer keys are those of the blocks
(`Keyed`) and that blocks and tail are made of the row's own tokens (`Exact`); `Windowed`
that the raw rows the next token sees are there. `KVInv` asks them of each buffer at
each stage: of a kept one the window only if it was not stripped, of the one being
replayed not yet. None of them is inductive alone: where a block goes is read from its
row's count but *when* it is made from row 0's tail, so the rows have to advance
together for `Exact`, and `Exact` of the next block needs the tail to be exact.
`ForwardIs` says what a forward pass over any number of tokens does,
by way of `TailRowGlobal` for one of them; `ReplayedIs` that going back
`Window + 1` tokens leaves the window of the next token complete, though the first of the
replayed rows lack theirs; `StrippedIs`, `UnmarshalledIs` and `SnapshotIs` that every form in which
a buffer is kept loses only what no later step reads.

`PrefillFromIs` is where the exception of `BlocksExact` comes from. The tails of the
source's *first* head are copied to the first `batch` slots, the blocks to each head: with
one head, or an empty tail, that is the same, and otherwise the block the prompt
ends in (`Splits`) is not exact and stays so. The proof has to carry it along, since the
block is completed while decoding. It is the only block the theorem leaves out; that
the code goes wrong on it is the finding `tail_replication`. `KVBlocks`, `KVWindow` and
`KVTypes` follow; the last needs that `room div Ratio + 1` blocks are enough (`BlocksFit`).

### Lemmas (`SeqSumsProofs`)

Totals of an appended element, a concatenation, a split, a moved element, a part;
sums over a finite set; what selecting from a sequence returns; what flattening a
sequence of sequences returns; how sequences are equal; what concatenating two lists
without repetitions and removing a place from one leave in them (`ConcatHolds`,
`RemoveAtHolds`); the first of the places of least key (`FirstLeast`); the ranks of a row of
values (`Ranks`); quotients (`Quotient`); a way to conclude for every natural number from a set that contains 0 and is
closed under successor (`SetInduction`), since the induction theorems of the library
take an operator as parameter. `Total`, `Only` and the eviction loop are recursive
functions or folds with such a lemma each.

### Only model-checked

- Liveness (`LoopTerminates`, `Terminates`, `EveryConversationTrained`, `RunsEnd`): the
  prover does no fairness and no ENABLED.
- `ColumnsReadBack`, `CalculatorEvaluates`, `EncodesAsTrained`: their modules use
  recursive operators, as the parsers they translate recurse, and what those compute for every input is an induction over
  data that the prover cannot state.
- `OptimizerPartitions`, `EstimatesTrackModel`: sums of products of symbolic
  dimensions over all tensors of a model; the solver does not do that arithmetic.

## Not modelled

Within modelled components: the numeric contents of buffers (a row is a name, so
"exact" in `PrefixReuse` is a claim about which rows exist, not about floats); MLA
latents; hidden-state tails, which the code copies by row, as they are indexed;
`maxPrefix` of the single-entry cache; residual weights, backout and value embeddings
of the trunk; the normalised mixture of a blend; logging, JSON and HTTP framing. In
`KVBuffer` every prompt is a prefix of one token sequence: hits by another sequence are
the business of `CacheManager`. In `Speculative`, `rows` keeps of the rejected rows only
those of the last block, since later blocks overwrite them. Text is classes of
one-byte characters in `BytePairs`, so characters of several bytes, and the U+FFFD that
`[]rune(text)` (`tokenizer/splitter.go:11`) puts in the place of invalid ones, do not occur; in
`Rendering` it is pieces. Removing a file, whose error the cache ignores, always succeeds; the calculator's floats are exact
fractions.

Whole components, with the reason, are in `PROJECT.json`: tensors, kernels,
optimizers, latent attention and the router's classifiers are floating-point
arithmetic; reinforcement learning, distillation and scaling laws are arithmetic around
the same step; the evaluators score text; GGUF and merging convert one file into
another; the executor is one subprocess with a deadline; commands and device support
are plumbing.

## Plan

Still to model: `Downloads`, the lock file, temporary file and retries of `data/hub.go`, with
processes that die holding the lock.
