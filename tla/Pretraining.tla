---------------------------- MODULE Pretraining ----------------------------
(***************************************************************************)
(* Pretraining runs: documents read from Parquet or Markdown files          *)
(* (data/dataset.go, data/markdown.go), packed into rows by PretrainLoader  *)
(* (data/dataloader.go), the training loop (cmd/base_train, cmd/trainer,    *)
(* trainer/trainer.go) and the checkpoint it writes, which a later run may  *)
(* continue from (model/checkpoint).                                       *)
(*                                                                         *)
(* A document is the epoch it was read in, its file, its row group and its  *)
(* place there; a token is a document and an offset, offset 0 being the     *)
(* BOS that refill puts first.  A Markdown file is a file of one group of   *)
(* one document, or of none when it cannot be read.  A checkpoint is its    *)
(* sections in the order Save writes them.  A process may crash anywhere,   *)
(* and each run is a new process.                                          *)
(***************************************************************************)
EXTENDS SeqSums

CONSTANTS
  Corpora,        \* [format, files], files: file -> group -> document -> tokens
  ReadSize,       \* batchSize of the source
  BatchSize,      \* B
  SequenceLength, \* T
  BufferSize,     \* bufferSize
  TotalBatch,     \* --total-batch-size
  Commands,       \* the commands that pretrain
  RunLengths,     \* --num-iterations
  MaxRuns,        \* bound on the runs
  None

ASSUME PretrainingConstants ==
  /\ {ReadSize, BatchSize, SequenceLength, BufferSize, MaxRuns} \subseteq Nat \ {0}
  /\ RunLengths \subseteq Nat \ {0} /\ TotalBatch \in Nat
  /\ Commands \subseteq {"base_train", "trainer"}
  /\ None \notin RunLengths
  /\ \A c \in Corpora :
       /\ c.files \in Seq(Seq(Seq(Nat \ {0})))
       /\ c.format = "markdown" => \A f \in DOMAIN c.files : Len(c.files[f]) <= 1
       /\ \E f \in DOMAIN c.files : \E g \in DOMAIN c.files[f] : c.files[f][g] # << >>

VARIABLES
  corpus,
  source,   \* [file, group, epoch, pending, last]; group 0 is no open reader
  buffer,   \* docBuffer
  state,    \* the dataset position of the last batch pulled
  rows,     \* the rows of the batch, the one being packed last
  used,     \* documents packed since the run started
  trainer,  \* [step, micro, accum, weights]; micro: micro-batches in the gradient
  run,      \* [number, init, length]
  disk,     \* run length -> the sections of that checkpoint file
  stage

loader == <<source, buffer, state, rows, used>>
vars == <<corpus, loader, trainer, run, disk, stage>>

Capacity == SequenceLength + 1
Length(d) == corpus.files[d.file][d.group][d.index]
Larger(a, b) == IF a >= b THEN a ELSE b

NoPosition == [epoch |-> 0, file |-> 0, group |-> 0]
NewSource == [file |-> 1, group |-> 0, epoch |-> 1, pending |-> << >>, last |-> NoPosition]

\* A checkpoint's sections; those of one Save carry its run and the weights.
Sections == <<"magic", "length", "metadata", "embedding", "blocks">>
Section(i) == [part |-> Sections[i], by |-> run.number, weights |-> trainer.weights]

IdleTrainer == [step |-> 0, micro |-> 0, accum |-> 1, weights |-> 0]

Init ==
  /\ corpus \in Corpora
  /\ source = NewSource
  /\ buffer = << >>
  /\ state = NoPosition
  /\ rows = << >>
  /\ used = {}
  /\ trainer = IdleTrainer
  /\ run = [number |-> 0, init |-> None, length |-> 0]
  /\ disk = [n \in RunLengths |-> << >>]
  /\ stage = "idle"

\* A process that ends takes its memory with it.
Gone ==
  /\ source' = NewSource
  /\ buffer' = << >>
  /\ state' = NoPosition
  /\ rows' = << >>
  /\ used' = {}
  /\ trainer' = IdleTrainer
  /\ run' = [run EXCEPT !.init = None, !.length = 0]
  /\ stage' = "idle"

-----------------------------------------------------------------------------
(* Starting a run, from new weights or from a checkpoint that Load accepts. *)
(* The loader, the schedules and the step counter start over either way.   *)

\* Load: the magic, then as many bytes as each length that follows announces.
Accepted(file) == Len(file) >= Len(Sections)

\* The metadata of the file's last section says how many weights there are.
WeightsIn(file) == file[Len(Sections)].weights

GradAccum(command) ==
  IF command = "base_train" THEN Larger(1, TotalBatch \div (BatchSize * SequenceLength)) ELSE 1

StartFrom(command, init, length) ==
  /\ stage = "idle"
  /\ run.number < MaxRuns
  /\ init # None => Accepted(disk[init])
  /\ run' = [number |-> run.number + 1, init |-> init, length |-> length]
  /\ trainer' = [step |-> 0, micro |-> 0, accum |-> GradAccum(command),
                 weights |-> IF init = None THEN 0 ELSE WeightsIn(disk[init])]
  /\ rows' = << << >> >>
  /\ stage' = "pack"
  /\ UNCHANGED <<corpus, source, buffer, state, used, disk>>

Start ==
  \E command \in Commands, init \in RunLengths \cup {None}, length \in RunLengths :
    StartFrom(command, init, length)

-----------------------------------------------------------------------------
(* The source's Next, one turn of its loop at a time, called by refill     *)
(* until the buffer holds BufferSize documents.                            *)

RowWanted == stage = "pack" /\ Len(buffer) < BufferSize

\* A batch of what is pending.
Pull ==
  /\ RowWanted
  /\ source.pending # << >>
  /\ LET count == IF ReadSize < Len(source.pending) THEN ReadSize ELSE Len(source.pending)
     IN  /\ buffer' = buffer \o SubSeq(source.pending, 1, count)
         /\ source' = [source EXCEPT !.pending = SubSeq(@, count + 1, Len(@))]
  /\ state' = source.last
  /\ UNCHANGED <<corpus, rows, used, trainer, run, disk, stage>>

Wrapped == source.file > Len(corpus.files)

SameEpochBug == [source EXCEPT !.file = 1]

\* Past the last file, the first one again in a new epoch.
Rewound ==
  IF Wrapped THEN [source EXCEPT !.file = 1, !.epoch = @ + 1] ELSE source

Documents(epoch, file, group) ==
  [i \in DOMAIN corpus.files[file][group] |->
     [epoch |-> epoch, file |-> file, group |-> group, index |-> i]]

OpenFile ==
  /\ RowWanted
  /\ corpus.format = "parquet"
  /\ source.pending = << >>
  /\ source.group = 0
  /\ source' = [Rewound EXCEPT !.group = 1]
  /\ UNCHANGED <<corpus, buffer, state, rows, used, trainer, run, disk, stage>>

ReopenBug ==
  /\ RowWanted
  /\ source.pending = << >>
  /\ source.group > 0
  /\ source.group > Len(corpus.files[source.file])
  /\ source' = [source EXCEPT !.group = 0]
  /\ UNCHANGED <<corpus, buffer, state, rows, used, trainer, run, disk, stage>>

CloseFile ==
  /\ RowWanted
  /\ source.pending = << >>
  /\ source.group > 0
  /\ source.group > Len(corpus.files[source.file])
  /\ source' = [source EXCEPT !.group = 0, !.file = @ + 1]
  /\ UNCHANGED <<corpus, buffer, state, rows, used, trainer, run, disk, stage>>

ReadGroup ==
  /\ RowWanted
  /\ source.pending = << >>
  /\ source.group > 0
  /\ source.group \in 1..Len(corpus.files[source.file])
  /\ source' = [source EXCEPT
       !.group = @ + 1,
       !.last = [epoch |-> source.epoch, file |-> source.file, group |-> source.group],
       !.pending = Documents(source.epoch, source.file, source.group)]
  /\ UNCHANGED <<corpus, buffer, state, rows, used, trainer, run, disk, stage>>

\* MarkdownSource: one file is one document, and none if it cannot be read.
ReadMarkdown ==
  /\ RowWanted
  /\ corpus.format = "markdown"
  /\ source.pending = << >>
  /\ LET at == Rewound
     IN  source' = [at EXCEPT
           !.file = @ + 1,
           !.last = [epoch |-> at.epoch, file |-> at.file, group |-> 1],
           !.pending = IF corpus.files[at.file] = << >> THEN << >>
                       ELSE Documents(at.epoch, at.file, 1)]
  /\ UNCHANGED <<corpus, buffer, state, rows, used, trainer, run, disk, stage>>

-----------------------------------------------------------------------------
(* next: the longest document that fits, or a shortest one cut to fit.      *)

Row == rows[Len(rows)]
Packed(row) == Total([p \in DOMAIN row |-> row[p].taken])
Remaining == Capacity - Packed(Row)

Fitting == {i \in DOMAIN buffer : Length(buffer[i]) <= Remaining}

\* The first of the longest that fit; the first of the shortest if none fits.
BestFit ==
  CHOOSE i \in Fitting : \A j \in Fitting :
    Length(buffer[j]) < Length(buffer[i]) \/ (Length(buffer[j]) = Length(buffer[i]) /\ i <= j)

Shortest ==
  CHOOSE i \in DOMAIN buffer : \A j \in DOMAIN buffer :
    Length(buffer[i]) < Length(buffer[j]) \/ (Length(buffer[i]) = Length(buffer[j]) /\ i <= j)

PackAt(i, taken) ==
  /\ rows' = [rows EXCEPT ![Len(rows)] = Append(@, [doc |-> buffer[i], taken |-> taken])]
  /\ buffer' = RemoveAt(buffer, i)
  /\ used' = used \cup {buffer[i]}

PackDocument ==
  IF Fitting # {} THEN LET i == BestFit IN PackAt(i, Length(buffer[i]))
  ELSE PackAt(Shortest, Remaining)

Pack ==
  /\ stage = "pack"
  /\ Len(buffer) >= BufferSize
  /\ Remaining > 0
  /\ PackDocument
  /\ UNCHANGED <<corpus, source, state, trainer, run, disk, stage>>

NextRow ==
  /\ stage = "pack"
  /\ Remaining = 0
  /\ Len(rows) < BatchSize
  /\ rows' = Append(rows, << >>)
  /\ UNCHANGED <<corpus, source, buffer, state, used, trainer, run, disk, stage>>

CutSharesBug(row) ==
  FlattenSeq([p \in DOMAIN row |->
    [t \in 1..row[p].taken |->
       [doc |-> row[p].doc, offset |-> t - 1,
        segment |-> IF row[p].taken < Length(row[p].doc) /\ p > 1 THEN p - 2 ELSE p - 1]]])

\* What the row holds: its tokens and the segment of each.
RowTokens(row) ==
  FlattenSeq([p \in DOMAIN row |->
    [t \in 1..row[p].taken |-> [doc |-> row[p].doc, offset |-> t - 1, segment |-> p - 1]]])

Inputs(row) == SubSeq(RowTokens(row), 1, SequenceLength)
Targets(row) == SubSeq(RowTokens(row), 2, Capacity)

-----------------------------------------------------------------------------
(* One micro-batch, then StepOptimizer, and Save after the last step.       *)

TrainStep ==
  /\ stage = "pack"
  /\ Remaining = 0
  /\ Len(rows) = BatchSize
  /\ trainer' = [trainer EXCEPT !.micro = @ + 1]
  /\ stage' = "optimize"
  /\ UNCHANGED <<corpus, loader, run, disk>>

Target == run.length

StepOptimizer ==
  /\ stage = "optimize"
  /\ trainer' = [trainer EXCEPT !.step = @ + 1, !.weights = @ + 1, !.micro = 0]
  /\ rows' = << << >> >>
  /\ stage' = IF trainer.step + 1 < run.length THEN "pack" ELSE "save"
  /\ UNCHANGED <<corpus, source, buffer, state, used, run, disk>>

OverwriteBug == disk[Target]

\* os.Create truncates what is there.
Truncated == << >>

Create ==
  /\ stage = "save"
  /\ disk' = [disk EXCEPT ![Target] = Truncated]
  /\ stage' = Sections[1]
  /\ UNCHANGED <<corpus, loader, trainer, run>>

WriteSection(i) ==
  /\ stage = Sections[i]
  /\ disk' = [disk EXCEPT ![Target] =
       [j \in 1..Larger(Len(@), i) |-> IF j = i THEN Section(i) ELSE @[j]]]
  /\ IF i = Len(Sections) THEN Gone
     ELSE stage' = Sections[i + 1] /\ UNCHANGED <<loader, trainer, run>>
  /\ UNCHANGED corpus

Write == \E i \in DOMAIN Sections : WriteSection(i)

\* The process dies: what was written stays.
Crash ==
  /\ stage # "idle"
  /\ Gone
  /\ UNCHANGED <<corpus, disk>>

Process ==
  \/ Pull \/ OpenFile \/ CloseFile \/ ReadGroup \/ ReadMarkdown
  \/ Pack \/ NextRow \/ TrainStep \/ StepOptimizer \/ Create \/ Write

Terminated == stage = "idle" /\ run.number = MaxRuns /\ UNCHANGED vars

Next == Start \/ Process \/ Crash \/ Terminated

Spec == Init /\ [][Next]_vars /\ WF_vars(Process)

-----------------------------------------------------------------------------
(* What must hold.                                                         *)

AllDocuments(epochs) ==
  {[epoch |-> e, file |-> f, group |-> g, index |-> i] :
     e \in epochs, f \in DOMAIN corpus.files,
     g \in UNION {DOMAIN corpus.files[f] : f \in DOMAIN corpus.files},
     i \in UNION {UNION {DOMAIN corpus.files[f][g] : g \in DOMAIN corpus.files[f]} :
                    f \in DOMAIN corpus.files}}

Exists(d) ==
  d.group \in DOMAIN corpus.files[d.file] /\ d.index \in DOMAIN corpus.files[d.file][d.group]

\* The position a document has been read at is not after position p.
NotAfter(d, p) ==
  \/ d.epoch < p.epoch
  \/ d.epoch = p.epoch /\ d.file < p.file
  \/ d.epoch = p.epoch /\ d.file = p.file /\ d.group <= p.group

\* Every row a batch delivers is full, begins with a document's BOS, and runs
\* through whole documents with only its last one cut, each under a segment
\* of its own; each target is the token after its input
\* (PretrainLoader.next).
RowsPacked ==
  stage = "optimize" =>
    \A r \in DOMAIN rows :
      LET tokens == RowTokens(rows[r])
          inputs == Inputs(rows[r])
          targets == Targets(rows[r])
      IN  /\ Len(tokens) = Capacity
          /\ tokens[1].offset = 0
          /\ \A i \in 1..SequenceLength :
               IF targets[i].segment = inputs[i].segment
               THEN targets[i] = [inputs[i] EXCEPT !.offset = @ + 1]
               ELSE /\ targets[i].offset = 0
                    /\ inputs[i].offset + 1 = Length(inputs[i].doc)
          /\ \A i, j \in 1..SequenceLength :
               inputs[i].segment = inputs[j].segment <=> inputs[i].doc = inputs[j].doc

\* In a run, every document of the groups read so far is in exactly one
\* place: packed, buffered or pending; none is read twice in an epoch, and the
\* position the loader reports covers all it has been given
\* (ParquetSource.Next, MarkdownSource.Next, PretrainLoader.refill).
DocumentsAccounted ==
  LET read == {d \in AllDocuments(1..source.epoch) : Exists(d) /\ NotAfter(d, source.last)}
      held == buffer \o source.pending
  IN  /\ IsInjective(held)
      /\ used \cap ToSet(held) = {}
      /\ used \cup ToSet(held) = read
      /\ \A d \in used \cup ToSet(buffer) : NotAfter(d, state)

\* Whatever Load accepts was written by one Save, all of it: no crash, and no
\* save over an older file, leaves a mixture that a run would continue from
\* (checkpoint.Save, checkpoint.Load).
LoadedModelsWhole ==
  \A n \in RunLengths : Accepted(disk[n]) =>
    \A i \in DOMAIN disk[n] : /\ disk[n][i].part = Sections[i]
                              /\ disk[n][i].by = disk[n][1].by
                              /\ disk[n][i].weights = disk[n][1].weights

\* A run that starts ends, whatever empty files and groups the corpus holds
\* and however long its documents are: no loop of the source, the loader or
\* the trainer goes on for ever (the command's main).
RunsEnd == [](stage # "idle" => <>(stage = "idle"))

=============================================================================
