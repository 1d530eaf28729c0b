------------------------- MODULE PretrainingProofs -------------------------
(***************************************************************************)
(* Proofs about what a run is trained on and what its rows pass through:    *)
(*   Pretraining       whatever a run loads was written by one save, every *)
(*                     document read is in one place, and every row is     *)
(*                     full and runs through whole documents;              *)
(*   MixtureOfExperts  every row reaches its experts and comes back, and   *)
(*                     the router's bias moves towards the mean load.      *)
(***************************************************************************)
EXTENDS Pretraining, MixtureOfExperts, SeqSumsProofs

Trainers == [step : Nat, micro : Nat, accum : Nat, weights : Nat]
Runs == [number : Nat, init : RunLengths \cup {None}, length : Nat]
SectionNames == {"magic", "length", "metadata", "embedding", "blocks"}
Stages == {"idle", "pack", "optimize", "save"} \cup SectionNames
Files == Seq([part : SectionNames, by : Nat, weights : Nat])

\* The sections of a file, as far as they go, are those of one save.
Whole(file) ==
  /\ Len(file) <= Len(Sections)
  /\ \A i \in 1..Len(file) : /\ file[i].part = Sections[i]
                             /\ file[i].by = file[1].by
                             /\ file[i].weights = file[1].weights

\* The processes and the disk: while section i is about to be written, the file
\* holds the sections before it, all of this run and these weights.
FilesInv ==
  /\ trainer \in Trainers
  /\ run \in Runs
  /\ disk \in [RunLengths -> Files]
  /\ stage \in Stages
  /\ stage # "idle" => run.length \in RunLengths
  /\ \A n \in RunLengths : Whole(disk[n])
  /\ \A i \in 1..5 : stage = Sections[i] =>
       /\ Len(disk[Target]) = i - 1
       /\ \A j \in 1..(i - 1) : disk[Target][j] = Section(j)

Positions == [epoch : Nat, file : Nat, group : Nat]
Docs == [epoch : Nat, file : Nat, group : Nat, index : Nat]
Existing == {d \in Docs : d.epoch >= 1 /\ d.file \in DOMAIN corpus.files /\ Exists(d)}
Sources == [file : Nat, group : Nat, epoch : Nat, pending : Seq(Existing), last : Positions]
Pieces == [doc : Existing, taken : Nat]

\* The source has read past d.
Before(d) ==
  \/ d.epoch < source.epoch
  \/ d.epoch = source.epoch /\ d.file < source.file
  \/ d.epoch = source.epoch /\ d.file = source.file /\ d.group < source.group

\* The documents behind the source are those up to the position it reports:
\* between the two lie only empty files and groups.
SourceInv ==
  /\ corpus \in Corpora
  /\ source \in Sources
  /\ source.epoch >= 1 /\ source.file \in 1..(Len(corpus.files) + 1)
  /\ source.group > 0 => corpus.format = "parquet" /\ source.file <= Len(corpus.files)
  /\ \A d \in Existing : Before(d) <=> NotAfter(d, source.last)

Held == buffer \o source.pending

\* Those documents are each packed, buffered or pending, once.
HeldInv ==
  /\ buffer \in Seq(Existing) /\ used \subseteq Existing /\ state \in Positions
  /\ IsInjective(Held)
  /\ used \cap ToSet(Held) = {}
  /\ \A d \in Existing : d \in used \cup ToSet(Held) <=> Before(d)
  /\ \A d \in used \cup ToSet(buffer) : NotAfter(d, state)

Size(files, d) == files[d.file][d.group][d.index]

\* The pieces of a row are documents of their own among those used, whole but
\* for one that fills the row.
RowOK(files, docs, row) ==
  /\ Packed(row) <= Capacity
  /\ \A p \in 1..Len(row) :
       /\ row[p].doc \in docs
       /\ row[p].taken >= 1 /\ row[p].taken <= Size(files, row[p].doc)
       /\ p < Len(row) \/ Packed(row) < Capacity => row[p].taken = Size(files, row[p].doc)
  /\ \A p, q \in 1..Len(row) : row[p].doc = row[q].doc => p = q

RowsInv ==
  /\ rows \in Seq(Seq(Pieces))
  /\ \A r \in 1..Len(rows) : RowOK(corpus.files, used, rows[r])
  /\ \A r \in 1..(Len(rows) - 1) : Packed(rows[r]) = Capacity
  /\ stage \in {"pack", "optimize"} => rows # << >>
  /\ stage = "optimize" => Packed(Row) = Capacity

-----------------------------------------------------------------------------
(* The checkpoint files.                                                   *)

LEMMA SectionsAre ==
  /\ Len(Sections) = 5 /\ DOMAIN Sections = 1..5
  /\ \A i \in 1..5 : Sections[i] \in SectionNames
  /\ \A i, j \in 1..5 : Sections[i] = Sections[j] => i = j
  /\ \A name \in SectionNames : \E i \in 1..5 : name = Sections[i]
<1>1. /\ Sections[1] = "magic" /\ Sections[2] = "length" /\ Sections[3] = "metadata"
      /\ Sections[4] = "embedding" /\ Sections[5] = "blocks"
  BY DEF Sections
<1>2. Len(Sections) = 5 /\ DOMAIN Sections = 1..5
  BY DEF Sections
<1>3. \A i \in 1..5 : i = 1 \/ i = 2 \/ i = 3 \/ i = 4 \/ i = 5
  OBVIOUS
<1>4. \A i \in 1..5 : Sections[i] \in SectionNames
  BY <1>1, <1>3 DEF SectionNames
<1>5. \A i, j \in 1..5 : Sections[i] = Sections[j] => i = j
  BY <1>1, <1>3
<1>6. \A name \in SectionNames : \E i \in 1..5 : name = Sections[i]
  BY <1>1 DEF SectionNames
<1> QED BY <1>2, <1>4, <1>5, <1>6

LEMMA FilesStart ==
  ASSUME Init
  PROVE  FilesInv
<1>1. /\ trainer = [step |-> 0, micro |-> 0, accum |-> 1, weights |-> 0]
      /\ run = [number |-> 0, init |-> None, length |-> 0]
      /\ disk = [n \in RunLengths |-> << >>]
      /\ stage = "idle"
  BY DEF Init, IdleTrainer
<1>2. \A n \in RunLengths : Whole(disk[n])
  BY <1>1, SectionsAre DEF Whole
<1>3. \A i \in 1..5 : stage # Sections[i]
  BY <1>1, SectionsAre DEF SectionNames
<1>4. disk \in [RunLengths -> Files]
  BY <1>1 DEF Files
<1> QED BY <1>1, <1>2, <1>3, <1>4 DEF FilesInv, Trainers, Runs, Stages

(***************************************************************************)
(* Only the stages between two sections have anything to say of the disk.  *)
(***************************************************************************)
LEMMA FilesElsewhere ==
  ASSUME FilesInv, disk' = disk, trainer' \in Trainers, run' \in Runs,
         stage' \in {"idle", "pack", "optimize", "save"},
         stage' # "idle" => run'.length \in RunLengths
  PROVE  FilesInv'
<1>1. \A i \in 1..5 : stage' # Sections[i]
  <2>1. stage' \notin SectionNames
    BY DEF SectionNames
  <2> QED BY <2>1, SectionsAre
<1>2. stage' \in Stages
  BY DEF Stages
<1>3. \A n \in RunLengths : Whole(disk'[n])
  BY DEF FilesInv
<1>4. Sections' = Sections
  BY DEF Sections
<1> QED BY <1>1, <1>2, <1>3, <1>4 DEF FilesInv, Whole

LEMMA GoneIdle ==
  ASSUME FilesInv, Gone
  PROVE  trainer' \in Trainers /\ run' \in Runs /\ stage' = "idle"
BY DEF FilesInv, Gone, Trainers, Runs, IdleTrainer

(***************************************************************************)
(* One more section of this run's save.                                    *)
(***************************************************************************)
LEMMA FilesWrite ==
  ASSUME FilesInv, NEW i \in 1..5, WriteSection(i)
  PROVE  FilesInv'
<1> DEFINE file == disk[Target]
           next == [j \in 1..Larger(Len(file), i) |-> IF j = i THEN Section(i) ELSE file[j]]
<1>1. /\ stage = Sections[i] /\ Target \in RunLengths
      /\ disk' = [disk EXCEPT ![Target] = next]
      /\ run \in Runs /\ trainer \in Trainers
  <2>1. stage = Sections[i]
    BY DEF WriteSection
  <2>2. stage # "idle"
    BY <2>1, SectionsAre DEF SectionNames
  <2> QED BY <2>1, <2>2 DEF WriteSection, FilesInv, Target
<1>2. Len(file) = i - 1 /\ \A j \in 1..(i - 1) : file[j] = Section(j)
  BY <1>1 DEF FilesInv
<1>3. Larger(Len(file), i) = i
  BY <1>2 DEF Larger
<1>4. next = [j \in 1..i |-> Section(j)]
  <2>1. \A j \in 1..i : (IF j = i THEN Section(i) ELSE file[j]) = Section(j)
    BY <1>2
  <2> HIDE DEF file
  <2> QED BY <1>3, <2>1
<1>5. \A j \in 1..5 : /\ Section(j) \in [part : SectionNames, by : Nat, weights : Nat]
                      /\ Section(j).part = Sections[j]
                      /\ Section(j).by = run.number
                      /\ Section(j).weights = trainer.weights
  BY <1>1, SectionsAre DEF Section, Runs, Trainers
<1> HIDE DEF next, file
<1>6. next \in Files /\ Len(next) = i /\ \A j \in 1..i : next[j] = Section(j)
  BY <1>4, <1>5 DEF Files
<1>7. Whole(next)
  BY <1>5, <1>6, SectionsAre DEF Whole
<1>8. disk' \in [RunLengths -> Files] /\ \A n \in RunLengths : Whole(disk'[n])
  BY <1>1, <1>6, <1>7 DEF FilesInv
<1>9. Sections' = Sections
  BY DEF Sections
<1>10. CASE i = 5
  <2>1. Gone
    BY <1>10, SectionsAre DEF WriteSection
  <2>2. trainer' \in Trainers /\ run' \in Runs /\ stage' = "idle"
    BY <2>1, GoneIdle
  <2>3. \A j \in 1..5 : stage' # Sections[j]
    BY <2>2, SectionsAre DEF SectionNames
  <2> QED BY <1>8, <1>9, <2>2, <2>3 DEF FilesInv, Stages, Whole
<1>11. CASE i # 5
  <2>1. /\ stage' = Sections[i + 1] /\ trainer' = trainer /\ run' = run
        /\ i + 1 \in 1..5
    BY <1>11, SectionsAre DEF WriteSection, loader
  <2>2. stage' \in Stages
    BY <2>1, SectionsAre DEF Stages
  <2>3. Target' = Target /\ \A j : Section(j)' = Section(j)
    BY <1>9, <2>1 DEF Target, Section
  <2>4. disk'[Target'] = next
    BY <1>1, <2>3 DEF FilesInv
  <2>5. ASSUME NEW k \in 1..5, stage' = Sections[k]
        PROVE  /\ Len(disk'[Target']) = k - 1
               /\ \A j \in 1..(k - 1) : disk'[Target'][j] = Section(j)'
    <3>1. k = i + 1
      BY <2>1, <2>5, SectionsAre
    <3> QED BY <1>6, <2>3, <2>4, <3>1
  <2>6. Target' \in RunLengths
    BY <1>1, <2>3
  <2> QED BY <1>1, <1>8, <1>9, <2>1, <2>2, <2>5, <2>6 DEF FilesInv, Whole, Target
<1> QED BY <1>10, <1>11

LEMMA FilesNext ==
  ASSUME FilesInv, Next
  PROVE  FilesInv'
<1>1. CASE Start
  <2>1. PICK command \in Commands, init \in RunLengths \cup {None}, length \in RunLengths :
          StartFrom(command, init, length)
    BY <1>1 DEF Start
  <2>2. length \in Nat /\ run.number \in Nat
    BY PretrainingConstants DEF FilesInv, Runs
  <2>3. run' \in Runs /\ run'.length \in RunLengths
    BY <2>1, <2>2 DEF StartFrom, Runs
  <2>4. GradAccum(command) \in Nat
    <3>1. SequenceLength \in Nat \ {0} /\ BatchSize \in Nat \ {0} /\ TotalBatch \in Nat
      BY PretrainingConstants
    <3>2. BatchSize * SequenceLength \in Nat /\ BatchSize * SequenceLength > 0
      BY <3>1
    <3>3. TotalBatch \div (BatchSize * SequenceLength) \in Nat
      BY <3>1, <3>2
    <3> QED BY <3>3 DEF GradAccum, Larger
  <2>5. init # None => WeightsIn(disk[init]) \in Nat
    <3> SUFFICES ASSUME init # None PROVE WeightsIn(disk[init]) \in Nat
      OBVIOUS
    <3>1. disk[init] \in Files /\ Len(disk[init]) >= 5
      BY <2>1, SectionsAre DEF StartFrom, Accepted, FilesInv
    <3>2. disk[init][5] \in [part : SectionNames, by : Nat, weights : Nat]
      <4> DEFINE file == disk[init]
                 R == [part : SectionNames, by : Nat, weights : Nat]
      <4>1. file \in Seq(R) /\ Len(file) >= 5
        BY <3>1 DEF Files
      <4> HIDE DEF file, R
      <4>2. file[5] \in R
        BY <4>1
      <4> QED BY <4>2 DEF file, R
    <3> QED BY <3>2, SectionsAre DEF WeightsIn
  <2>6. trainer' \in Trainers
    BY <2>1, <2>4, <2>5 DEF StartFrom, Trainers
  <2>7. disk' = disk /\ stage' = "pack"
    BY <2>1 DEF StartFrom
  <2> QED BY <2>3, <2>6, <2>7, FilesElsewhere
<1>2. CASE Pull \/ OpenFile \/ CloseFile \/ ReadGroup \/ ReadMarkdown \/ Pack \/ NextRow
  <2>1. /\ trainer' = trainer /\ run' = run /\ disk' = disk /\ stage' = stage
        /\ stage = "pack"
    <3>1. CASE Pull \/ OpenFile \/ CloseFile \/ ReadGroup \/ ReadMarkdown
      BY <3>1 DEF Pull, OpenFile, CloseFile, ReadGroup, ReadMarkdown, RowWanted
    <3>2. CASE Pack \/ NextRow
      BY <3>2 DEF Pack, NextRow
    <3> QED BY <1>2, <3>1, <3>2
  <2> QED BY <2>1, FilesElsewhere DEF FilesInv
<1>3. CASE TrainStep
  <2>1. /\ trainer' \in Trainers /\ run' = run /\ disk' = disk /\ stage' = "optimize"
        /\ run.length \in RunLengths
    BY <1>3 DEF TrainStep, FilesInv, Trainers
  <2> QED BY <2>1, FilesElsewhere DEF FilesInv
<1>4. CASE StepOptimizer
  <2>1. /\ trainer' \in Trainers /\ run' = run /\ disk' = disk /\ stage' \in {"pack", "save"}
        /\ run.length \in RunLengths
    <3>1. stage = "optimize" /\ trainer \in Trainers
      BY <1>4 DEF StepOptimizer, FilesInv
    <3>2. trainer' = [trainer EXCEPT !.step = @ + 1, !.weights = @ + 1, !.micro = 0]
      BY <1>4 DEF StepOptimizer
    <3>3. trainer' \in Trainers
      <4>1. /\ trainer.step + 1 \in Nat /\ trainer.weights + 1 \in Nat
            /\ trainer.accum \in Nat
        BY <3>1 DEF Trainers
      <4>2. trainer' = [step |-> trainer.step + 1, micro |-> 0, accum |-> trainer.accum,
                        weights |-> trainer.weights + 1]
        BY <3>1, <3>2 DEF Trainers
      <4> QED BY <4>1, <4>2 DEF Trainers
    <3>4. run' = run /\ disk' = disk /\ stage' \in {"pack", "save"}
      BY <1>4 DEF StepOptimizer
    <3> QED BY <3>1, <3>3, <3>4 DEF FilesInv
  <2> QED BY <2>1, FilesElsewhere DEF FilesInv
<1>5. CASE Create
  <2>1. /\ disk' = [disk EXCEPT ![Target] = << >>] /\ stage' = Sections[1]
        /\ trainer' = trainer /\ run' = run /\ Target \in RunLengths
        /\ Target' = Target
    BY <1>5 DEF Create, Truncated, FilesInv, Target
  <2>2. disk'[Target'] = << >> /\ disk' \in [RunLengths -> Files]
    <3>1. << >> \in Files /\ disk \in [RunLengths -> Files]
      <4>1. << >> \in Files
        BY DEF Files
      <4> QED BY <4>1 DEF FilesInv
    <3> QED BY <2>1, <3>1
  <2>3. \A n \in RunLengths : Whole(disk'[n])
    <3>1. Whole(<< >>)
      BY SectionsAre DEF Whole
    <3> QED BY <2>1, <3>1 DEF FilesInv
  <2>4. \A i \in 1..5 : stage' = Sections[i] => i = 1
    <3>1. 1 \in 1..5
      OBVIOUS
    <3> QED BY <2>1, <3>1, SectionsAre
  <2>5. Sections' = Sections
    BY DEF Sections
  <2>6. stage' \in Stages
    BY <2>1, SectionsAre DEF Stages
  <2>7. \A i \in 1..5 : stage' = Sections[i] =>
          /\ Len(disk'[Target']) = i - 1
          /\ \A j \in 1..(i - 1) : disk'[Target'][j] = Section(j)'
    BY <2>2, <2>4
  <2> QED BY <2>1, <2>2, <2>3, <2>5, <2>6, <2>7 DEF FilesInv, Whole, Target
<1>6. CASE Write
  BY <1>6, FilesWrite, SectionsAre DEF Write
<1>7. CASE Crash
  BY <1>7, GoneIdle, FilesElsewhere DEF Crash
<1>8. CASE Terminated
  <2>1. UNCHANGED <<trainer, run, disk, stage>>
    BY <1>8 DEF Terminated, vars
  <2> QED BY <2>1 DEF FilesInv, Whole, Sections, Target, Section
<1> QED BY <1>1, <1>2, <1>3, <1>4, <1>5, <1>6, <1>7, <1>8 DEF Next, Process

(***************************************************************************)
(* Whatever Load accepts was written by one Save, all of it, whichever     *)
(* runs crashed and whatever was saved over (checkpoint.Save,              *)
(* checkpoint.Load).                                                       *)
(***************************************************************************)
THEOREM PretrainingLoads == Spec => []LoadedModelsWhole
<1>1. Init => FilesInv
  BY FilesStart
<1>2. FilesInv /\ [Next]_vars => FilesInv'
  <2>1. CASE UNCHANGED vars
    BY <2>1 DEF vars, FilesInv, Whole, Sections, Target, Section
  <2> QED BY <2>1, FilesNext
<1>3. FilesInv => LoadedModelsWhole
  <2> SUFFICES ASSUME FilesInv, NEW n \in RunLengths
               PROVE  \A i \in DOMAIN disk[n] : /\ disk[n][i].part = Sections[i]
                                                /\ disk[n][i].by = disk[n][1].by
                                                /\ disk[n][i].weights = disk[n][1].weights
    BY DEF LoadedModelsWhole
  <2>1. Whole(disk[n]) /\ DOMAIN disk[n] = 1..Len(disk[n])
    BY DEF FilesInv, Files
  <2> QED BY <2>1 DEF Whole
<1> QED BY <1>1, <1>2, <1>3, PTL DEF Spec

-----------------------------------------------------------------------------
(* The source.                                                             *)

LEMMA CorpusIs ==
  ASSUME corpus \in Corpora
  PROVE  /\ Len(corpus.files) \in Nat /\ Len(corpus.files) >= 1
         /\ DOMAIN corpus.files = 1..Len(corpus.files)
         /\ \A f \in 1..Len(corpus.files) :
              /\ Len(corpus.files[f]) \in Nat
              /\ DOMAIN corpus.files[f] = 1..Len(corpus.files[f])
              /\ corpus.format = "markdown" => Len(corpus.files[f]) <= 1
              /\ \A g \in 1..Len(corpus.files[f]) :
                   /\ Len(corpus.files[f][g]) \in Nat
                   /\ DOMAIN corpus.files[f][g] = 1..Len(corpus.files[f][g])
                   /\ \A i \in 1..Len(corpus.files[f][g]) : corpus.files[f][g][i] \in Nat \ {0}
<1> DEFINE files == corpus.files
           Group == Seq(Nat \ {0})
           File == Seq(Group)
<1>1. /\ files \in Seq(File)
      /\ corpus.format = "markdown" => \A f \in DOMAIN files : Len(files[f]) <= 1
      /\ \E f \in DOMAIN files : \E g \in DOMAIN files[f] : files[f][g] # << >>
  BY PretrainingConstants
<1> HIDE DEF files, File, Group
<1>2. /\ Len(files) \in Nat /\ DOMAIN files = 1..Len(files)
      /\ \A f \in 1..Len(files) : files[f] \in File
  BY <1>1
<1>3. Len(files) >= 1
  BY <1>1, <1>2
<1>4. ASSUME NEW file \in File
      PROVE  /\ Len(file) \in Nat /\ DOMAIN file = 1..Len(file)
             /\ \A g \in 1..Len(file) : file[g] \in Group
  BY DEF File
<1>5. ASSUME NEW group \in Group
      PROVE  /\ Len(group) \in Nat /\ DOMAIN group = 1..Len(group)
             /\ \A i \in 1..Len(group) : group[i] \in Nat \ {0}
  BY DEF Group
<1>6. \A f \in 1..Len(files) :
        /\ Len(files[f]) \in Nat /\ DOMAIN files[f] = 1..Len(files[f])
        /\ \A g \in 1..Len(files[f]) : files[f][g] \in Group
  BY <1>2, <1>4
<1>7. \A f \in 1..Len(files) : \A g \in 1..Len(files[f]) :
        /\ Len(files[f][g]) \in Nat /\ DOMAIN files[f][g] = 1..Len(files[f][g])
        /\ \A i \in 1..Len(files[f][g]) : files[f][g][i] \in Nat \ {0}
  BY <1>5, <1>6
<1>8. corpus.format = "markdown" => \A f \in 1..Len(files) : Len(files[f]) <= 1
  BY <1>1, <1>2
<1> QED BY <1>2, <1>3, <1>6, <1>7, <1>8 DEF files

LEMMA ExistingIs ==
  ASSUME corpus \in Corpora, NEW d \in Existing
  PROVE  /\ d \in Docs /\ d.epoch \in Nat /\ d.file \in Nat /\ d.group \in Nat /\ d.index \in Nat
         /\ d.epoch >= 1 /\ d.file \in 1..Len(corpus.files)
         /\ d.group \in 1..Len(corpus.files[d.file])
         /\ d.index \in 1..Len(corpus.files[d.file][d.group])
         /\ Length(d) \in Nat /\ Length(d) >= 1
<1>1. /\ d \in Docs /\ d.epoch >= 1 /\ d.file \in 1..Len(corpus.files)
      /\ d.group \in DOMAIN corpus.files[d.file]
      /\ d.index \in DOMAIN corpus.files[d.file][d.group]
  BY CorpusIs DEF Existing, Exists
<1>2. d.group \in 1..Len(corpus.files[d.file])
  BY <1>1, CorpusIs
<1>3. d.index \in 1..Len(corpus.files[d.file][d.group])
  BY <1>1, <1>2, CorpusIs
<1>4. Length(d) \in Nat \ {0}
  BY <1>1, <1>2, <1>3, CorpusIs DEF Length
<1>5. d.epoch \in Nat /\ d.file \in Nat /\ d.group \in Nat /\ d.index \in Nat
  BY <1>1 DEF Docs
<1> QED BY <1>1, <1>2, <1>3, <1>4, <1>5

LEMMA SameCorpus ==
  ASSUME corpus' = corpus
  PROVE  /\ Existing' = Existing /\ Sources' = Sources /\ Pieces' = Pieces
         /\ \A d : Length(d)' = Length(d)
BY DEF Existing, Exists, Sources, Pieces, Length

(***************************************************************************)
(* A group's documents, each once, and no others.                          *)
(***************************************************************************)
LEMMA GroupHolds ==
  ASSUME corpus \in Corpora, NEW epoch \in Nat, epoch >= 1,
         NEW file \in 1..Len(corpus.files), NEW group \in 1..Len(corpus.files[file])
  PROVE  /\ Documents(epoch, file, group) \in Seq(Existing)
         /\ IsInjective(Documents(epoch, file, group))
         /\ \A d \in Existing :
              d \in ToSet(Documents(epoch, file, group)) <=>
                d.epoch = epoch /\ d.file = file /\ d.group = group
<1> DEFINE docs == Documents(epoch, file, group)
           n == Len(corpus.files[file][group])
           doc(i) == [epoch |-> epoch, file |-> file, group |-> group, index |-> i]
<1>1. n \in Nat /\ DOMAIN corpus.files[file][group] = 1..n
  BY CorpusIs
<1>2. docs = [i \in 1..n |-> doc(i)]
  BY <1>1 DEF Documents
<1>3. \A i \in 1..n : doc(i) \in Existing
  <2> TAKE i \in 1..n
  <2>1. doc(i) \in Docs
    BY <1>1, CorpusIs DEF Docs
  <2>2. Exists(doc(i))
    BY <1>1, CorpusIs DEF Exists
  <2> QED BY <2>1, <2>2, CorpusIs DEF Existing
<1> HIDE DEF n, docs
<1>4. docs \in Seq(Existing) /\ DOMAIN docs = 1..n /\ \A i \in 1..n : docs[i] = doc(i)
  BY <1>1, <1>2, <1>3
<1>5. IsInjective(docs)
  <2>1. \A i, j \in 1..n : doc(i) = doc(j) => i = j
    OBVIOUS
  <2> HIDE DEF doc
  <2> QED BY <1>4, <2>1 DEF IsInjective
<1>6. ASSUME NEW d \in Existing
      PROVE  d \in ToSet(docs) <=> d.epoch = epoch /\ d.file = file /\ d.group = group
  <2>1. d \in ToSet(docs) <=> \E i \in 1..n : d = doc(i)
    <3> HIDE DEF doc
    <3> QED BY <1>4 DEF ToSet
  <2>2. ASSUME d.epoch = epoch, d.file = file, d.group = group
        PROVE  \E i \in 1..n : d = doc(i)
    <3>1. d.index \in 1..n /\ d \in Docs
      BY <2>2, ExistingIs DEF n
    <3>2. d = doc(d.index)
      BY <2>2, <3>1 DEF Docs
    <3> QED BY <3>1, <3>2
  <2> QED BY <2>1, <2>2
<1> QED BY <1>4, <1>5, <1>6 DEF docs

\* A source that stands at this position has read past d.
Passed(d, epoch, file, group) ==
  \/ d.epoch < epoch
  \/ d.epoch = epoch /\ d.file < file
  \/ d.epoch = epoch /\ d.file = file /\ d.group < group

\* One turn of the source's loop: what becomes pending is what it has now read
\* past.
Turns ==
  /\ source'.pending \in Seq(Existing) /\ IsInjective(source'.pending)
  /\ \A d \in Existing : /\ Before(d)' <=> Before(d) \/ d \in ToSet(source'.pending)
                         /\ d \in ToSet(source'.pending) => ~Before(d)

LEMMA NothingPending ==
  /\ << >> \in Seq(Existing) /\ IsInjective(<< >>) /\ ToSet(<< >>) = {}
BY DEF IsInjective, ToSet

LEMMA RewoundIs ==
  ASSUME SourceInv
  PROVE  /\ Rewound \in Sources /\ Rewound.pending = source.pending
         /\ Rewound.last = source.last /\ Rewound.group = source.group
         /\ Rewound.epoch >= 1 /\ Rewound.file \in 1..Len(corpus.files)
         /\ source.group = 0 => \A d \in Existing :
              Before(d) <=> d.epoch < Rewound.epoch
                            \/ (d.epoch = Rewound.epoch /\ d.file < Rewound.file)
<1>1. /\ source \in Sources /\ source.epoch >= 1 /\ source.epoch \in Nat
      /\ source.file \in 1..(Len(corpus.files) + 1)
      /\ Len(corpus.files) \in Nat /\ Len(corpus.files) >= 1
  BY CorpusIs DEF SourceInv, Sources
<1>2. \A d \in Existing : /\ d.epoch \in Nat /\ d.file \in 1..Len(corpus.files)
                          /\ d.group \in Nat /\ d.group >= 1
  BY ExistingIs DEF SourceInv
<1>3. CASE Wrapped
  <2>1. Rewound = [source EXCEPT !.file = 1, !.epoch = @ + 1]
    BY <1>3 DEF Rewound
  <2>2. /\ Rewound = [file |-> 1, group |-> source.group, epoch |-> source.epoch + 1,
                      pending |-> source.pending, last |-> source.last]
    BY <1>1, <2>1 DEF Sources
  <2>3. source.file = Len(corpus.files) + 1
    BY <1>1, <1>3 DEF Wrapped
  <2>4. Rewound \in Sources
    BY <1>1, <2>2 DEF Sources
  <2>5. ASSUME source.group = 0, NEW d \in Existing
        PROVE  Before(d) <=> d.epoch < Rewound.epoch
                             \/ (d.epoch = Rewound.epoch /\ d.file < Rewound.file)
    <3>1. d.epoch \in Nat /\ d.file < source.file /\ d.file >= 1 /\ d.file \in Nat
      BY <1>1, <1>2, <2>3
    <3>2. Rewound.epoch = source.epoch + 1 /\ Rewound.file = 1
      BY <2>2
    <3>3. Before(d) <=> d.epoch < source.epoch \/ d.epoch = source.epoch
      BY <1>1, <3>1 DEF Before
    <3> QED BY <1>1, <3>1, <3>2, <3>3
  <2> QED BY <1>1, <2>2, <2>4, <2>5
<1>4. CASE ~Wrapped
  <2>1. Rewound = source
    BY <1>4 DEF Rewound
  <2>2. source.file \in 1..Len(corpus.files)
    BY <1>1, <1>4 DEF Wrapped
  <2>3. ASSUME source.group = 0, NEW d \in Existing
        PROVE  ~(d.group < source.group)
    BY <1>2, <2>3
  <2>4. ASSUME source.group = 0, NEW d \in Existing
        PROVE  Before(d) <=> d.epoch < source.epoch
                             \/ (d.epoch = source.epoch /\ d.file < source.file)
    BY <2>3, <2>4 DEF Before
  <2> QED BY <1>1, <2>1, <2>2, <2>4
<1> QED BY <1>3, <1>4

(***************************************************************************)
(* Where the source is after a turn, told by its fields.                   *)
(***************************************************************************)
LEMMA TurnTaken ==
  ASSUME SourceInv, corpus' = corpus, NEW pending \in Seq(Existing), NEW last \in Positions,
         NEW epoch \in Nat, NEW file \in Nat, NEW group \in Nat,
         source' = [file |-> file, group |-> group, epoch |-> epoch,
                    pending |-> pending, last |-> last],
         epoch >= 1, file \in 1..(Len(corpus.files) + 1),
         group > 0 => corpus.format = "parquet" /\ file <= Len(corpus.files),
         IsInjective(pending),
         \A d \in Existing :
           /\ Passed(d, epoch, file, group) <=> NotAfter(d, last)
           /\ Passed(d, epoch, file, group) <=> Before(d) \/ d \in ToSet(pending)
           /\ d \in ToSet(pending) => ~Before(d)
  PROVE  SourceInv' /\ Turns
<1>1. /\ source'.file = file /\ source'.group = group /\ source'.epoch = epoch
      /\ source'.pending = pending /\ source'.last = last /\ source' \in Sources
  BY DEF Sources
<1>2. Existing' = Existing /\ Sources' = Sources
  BY SameCorpus
<1>3. \A d \in Existing : /\ Before(d)' <=> NotAfter(d, last)
                          /\ Before(d)' <=> Before(d) \/ d \in ToSet(pending)
  <2> TAKE d \in Existing
  <2>1. Before(d)' <=> Passed(d, epoch, file, group)
    BY <1>1 DEF Before, Passed
  <2> QED BY <2>1
<1>4. \A d : NotAfter(d, source.last)' = NotAfter(d, last)
  BY <1>1 DEF NotAfter
<1>5. SourceInv'
  BY <1>1, <1>2, <1>3, <1>4 DEF SourceInv
<1>6. Turns
  BY <1>1, <1>3 DEF Turns
<1> QED BY <1>5, <1>6

LEMMA SourceIs ==
  ASSUME SourceInv
  PROVE  /\ corpus \in Corpora /\ Len(corpus.files) \in Nat
         /\ source = [file |-> source.file, group |-> source.group, epoch |-> source.epoch,
                      pending |-> source.pending, last |-> source.last]
         /\ source.file \in Nat /\ source.group \in Nat /\ source.epoch \in Nat
         /\ source.pending \in Seq(Existing) /\ source.last \in Positions
         /\ source.epoch >= 1 /\ source.file \in 1..(Len(corpus.files) + 1)
         /\ \A d \in Existing :
              /\ d.epoch \in Nat /\ d.file \in 1..Len(corpus.files)
              /\ d.group \in 1..Len(corpus.files[d.file])
              /\ Len(corpus.files[d.file]) \in Nat
              /\ d.group \in Nat /\ d.group >= 1
<1>1. corpus \in Corpora /\ source \in Sources
  BY DEF SourceInv
<1>2. \A d \in Existing :
        /\ d.epoch \in Nat /\ d.file \in 1..Len(corpus.files)
        /\ d.group \in 1..Len(corpus.files[d.file])
        /\ Len(corpus.files[d.file]) \in Nat
        /\ d.group \in Nat /\ d.group >= 1
  BY <1>1, ExistingIs, CorpusIs
<1>3. Len(corpus.files) \in Nat
  BY <1>1, CorpusIs
<1> QED BY <1>1, <1>2, <1>3 DEF SourceInv, Sources

LEMMA OpenFileTurns ==
  ASSUME SourceInv, OpenFile
  PROVE  SourceInv' /\ Turns
<1> DEFINE at == Rewound
<1>1. /\ source.pending = << >> /\ source.group = 0 /\ corpus.format = "parquet"
      /\ source' = [at EXCEPT !.group = 1] /\ corpus' = corpus
  BY DEF OpenFile
<1>2. /\ at \in Sources /\ at.pending = << >> /\ at.last = source.last
      /\ at.epoch >= 1 /\ at.file \in 1..Len(corpus.files)
      /\ \A d \in Existing : Before(d) <=> d.epoch < at.epoch
                                           \/ (d.epoch = at.epoch /\ d.file < at.file)
  BY <1>1, RewoundIs
<1> HIDE DEF at
<1>3. /\ source' = [file |-> at.file, group |-> 1, epoch |-> at.epoch,
                    pending |-> << >>, last |-> source.last]
      /\ at.epoch \in Nat /\ at.file \in Nat
  BY <1>1, <1>2 DEF Sources
<1>4. ASSUME NEW d \in Existing
      PROVE  /\ Passed(d, at.epoch, at.file, 1) <=> NotAfter(d, source.last)
             /\ Passed(d, at.epoch, at.file, 1) <=> Before(d) \/ d \in ToSet(<< >>)
             /\ d \in ToSet(<< >>) => ~Before(d)
  <2>1. ~(d.group < 1)
    BY SourceIs
  <2>2. d \notin ToSet(<< >>)
    BY NothingPending
  <2>3. Before(d) <=> NotAfter(d, source.last)
    BY DEF SourceInv
  <2> QED BY <1>2, <2>1, <2>2, <2>3 DEF Passed
<1>5. /\ source.last \in Positions /\ << >> \in Seq(Existing) /\ IsInjective(<< >>)
      /\ at.file \in 1..(Len(corpus.files) + 1) /\ at.file <= Len(corpus.files)
  BY <1>2, SourceIs, NothingPending
<1> QED BY <1>1, <1>2, <1>3, <1>4, <1>5, TurnTaken

LEMMA CloseFileTurns ==
  ASSUME SourceInv, CloseFile
  PROVE  SourceInv' /\ Turns
<1>1. /\ source.pending = << >> /\ source.group > 0
      /\ source.group > Len(corpus.files[source.file])
      /\ source' = [source EXCEPT !.group = 0, !.file = @ + 1] /\ corpus' = corpus
  BY DEF CloseFile
<1>2. /\ source' = [file |-> source.file + 1, group |-> 0, epoch |-> source.epoch,
                    pending |-> << >>, last |-> source.last]
      /\ source.file <= Len(corpus.files)
  BY <1>1, SourceIs DEF SourceInv
<1>3. ASSUME NEW d \in Existing
      PROVE  /\ Passed(d, source.epoch, source.file + 1, 0) <=> NotAfter(d, source.last)
             /\ Passed(d, source.epoch, source.file + 1, 0) <=> Before(d) \/ d \in ToSet(<< >>)
             /\ d \in ToSet(<< >>) => ~Before(d)
  <2>1. ~(d.group < 0) /\ d.file \in Nat /\ d.group \in Nat /\ source.file \in Nat
        /\ source.group \in Nat
    BY SourceIs
  <2>2. d \notin ToSet(<< >>)
    BY NothingPending
  <2>3. Before(d) <=> NotAfter(d, source.last)
    BY DEF SourceInv
  <2>4. d.file = source.file => d.group < source.group
    <3>1. /\ d.group \in 1..Len(corpus.files[d.file]) /\ Len(corpus.files[d.file]) \in Nat
      BY SourceIs
    <3> QED BY <1>1, <2>1, <3>1
  <2>5. d.file < source.file + 1 <=> d.file < source.file \/ d.file = source.file
    BY <2>1
  <2>6. Before(d) <=> d.epoch < source.epoch
                      \/ (d.epoch = source.epoch /\ d.file < source.file + 1)
    BY <2>4, <2>5 DEF Before
  <2> QED BY <2>1, <2>2, <2>3, <2>6 DEF Passed
<1>4. /\ source.file + 1 \in Nat /\ source.epoch \in Nat /\ source.epoch >= 1
      /\ source.last \in Positions /\ << >> \in Seq(Existing) /\ IsInjective(<< >>)
      /\ source.file + 1 \in 1..(Len(corpus.files) + 1)
  BY <1>2, SourceIs, NothingPending
<1>5. 0 \in Nat /\ ~(0 > 0)
  OBVIOUS
<1> DEFINE next == source.file + 1
<1> HIDE DEF next
<1>6. /\ next \in Nat /\ next \in 1..(Len(corpus.files) + 1) /\ corpus' = corpus
      /\ source' = [file |-> next, group |-> 0, epoch |-> source.epoch,
                    pending |-> << >>, last |-> source.last]
      /\ \A d \in Existing :
           /\ Passed(d, source.epoch, next, 0) <=> NotAfter(d, source.last)
           /\ Passed(d, source.epoch, next, 0) <=> Before(d) \/ d \in ToSet(<< >>)
           /\ d \in ToSet(<< >>) => ~Before(d)
  BY <1>1, <1>2, <1>3, <1>4 DEF next
<1> QED BY <1>4, <1>5, <1>6, TurnTaken

LEMMA ReadGroupTurns ==
  ASSUME SourceInv, ReadGroup
  PROVE  SourceInv' /\ Turns
<1> DEFINE last == [epoch |-> source.epoch, file |-> source.file, group |-> source.group]
           docs == Documents(source.epoch, source.file, source.group)
<1>1. /\ source.pending = << >> /\ source.group > 0
      /\ source.group \in 1..Len(corpus.files[source.file])
      /\ source' = [source EXCEPT !.group = @ + 1, !.last = last, !.pending = docs]
      /\ corpus' = corpus
  BY DEF ReadGroup
<1>2. corpus.format = "parquet" /\ source.file \in 1..Len(corpus.files)
  BY <1>1, SourceIs DEF SourceInv
<1>3. /\ docs \in Seq(Existing) /\ IsInjective(docs)
      /\ \A d \in Existing :
           d \in ToSet(docs) <=>
             d.epoch = source.epoch /\ d.file = source.file /\ d.group = source.group
  BY <1>1, <1>2, SourceIs, GroupHolds
<1> HIDE DEF docs
<1>4. last \in Positions
  BY SourceIs DEF Positions
<1>5. source' = [file |-> source.file, group |-> source.group + 1, epoch |-> source.epoch,
                 pending |-> docs, last |-> last]
  <2> HIDE DEF last
  <2> QED BY <1>1, SourceIs
<1>6. ASSUME NEW d \in Existing
      PROVE  /\ Passed(d, source.epoch, source.file, source.group + 1) <=> NotAfter(d, last)
             /\ Passed(d, source.epoch, source.file, source.group + 1) <=> Before(d) \/ d \in ToSet(docs)
             /\ d \in ToSet(docs) => ~Before(d)
  <2>1. /\ d.group \in Nat /\ source.group \in Nat /\ d.file \in Nat /\ source.file \in Nat
        /\ d.epoch \in Nat /\ source.epoch \in Nat
    BY SourceIs
  <2>2. NotAfter(d, last) <=> \/ d.epoch < source.epoch
                              \/ d.epoch = source.epoch /\ d.file < source.file
                              \/ /\ d.epoch = source.epoch /\ d.file = source.file
                                 /\ d.group <= source.group
    BY DEF NotAfter
  <2>3. /\ d.group < source.group + 1 <=> d.group < source.group \/ d.group = source.group
        /\ d.group < source.group + 1 <=> d.group <= source.group
    BY <2>1
  <2>4. d \in ToSet(docs) <=>
          d.epoch = source.epoch /\ d.file = source.file /\ d.group = source.group
    BY <1>3
  <2>5. d \in ToSet(docs) => ~Before(d)
    BY <2>1, <2>4 DEF Before
  <2> QED BY <2>2, <2>3, <2>4, <2>5 DEF Before, Passed
<1> HIDE DEF last
<1>7. /\ source.group + 1 \in Nat /\ source.epoch \in Nat /\ source.epoch >= 1
      /\ source.file \in Nat /\ source.file \in 1..(Len(corpus.files) + 1)
      /\ source.file <= Len(corpus.files)
  BY <1>2, SourceIs
<1> QED BY <1>1, <1>2, <1>3, <1>4, <1>5, <1>6, <1>7, TurnTaken

LEMMA ReadMarkdownTurns ==
  ASSUME SourceInv, ReadMarkdown
  PROVE  SourceInv' /\ Turns
<1> DEFINE at == Rewound
           last == [epoch |-> at.epoch, file |-> at.file, group |-> 1]
           docs == IF corpus.files[at.file] = << >> THEN << >>
                   ELSE Documents(at.epoch, at.file, 1)
<1>1. /\ source.pending = << >> /\ corpus.format = "markdown"
      /\ source' = [at EXCEPT !.file = @ + 1, !.last = last, !.pending = docs]
      /\ corpus' = corpus
  BY DEF ReadMarkdown
<1>2. source.group = 0
  BY <1>1, SourceIs DEF SourceInv
<1>3. /\ at \in Sources /\ at.group = 0 /\ at.epoch >= 1 /\ at.file \in 1..Len(corpus.files)
      /\ \A d \in Existing : Before(d) <=> d.epoch < at.epoch
                                           \/ (d.epoch = at.epoch /\ d.file < at.file)
  BY <1>2, RewoundIs
<1>4. at.epoch \in Nat /\ at.file \in Nat
  BY <1>3 DEF Sources
<1> HIDE DEF at
<1>5. /\ Len(corpus.files[at.file]) \in Nat /\ Len(corpus.files[at.file]) <= 1
      /\ corpus.files[at.file] # << >> => 1 \in 1..Len(corpus.files[at.file])
  <2>1. /\ Len(corpus.files[at.file]) \in Nat /\ Len(corpus.files[at.file]) <= 1
        /\ DOMAIN corpus.files[at.file] = 1..Len(corpus.files[at.file])
    BY <1>1, <1>3, SourceIs, CorpusIs
  <2>2. corpus.files[at.file] \in Seq(Seq(Nat \ {0}))
    <3>1. corpus.files \in Seq(Seq(Seq(Nat \ {0})))
      BY SourceIs, PretrainingConstants
    <3> DEFINE File == Seq(Seq(Nat \ {0}))
    <3> HIDE DEF File
    <3>2. corpus.files \in Seq(File)
      BY <3>1 DEF File
    <3>3. corpus.files[at.file] \in File
      BY <1>3, <3>2
    <3> QED BY <3>3 DEF File
  <2>3. corpus.files[at.file] # << >> => Len(corpus.files[at.file]) >= 1
    <3> DEFINE G == Seq(Nat \ {0})
    <3> HIDE DEF G
    <3>1. corpus.files[at.file] \in Seq(G)
      BY <2>2 DEF G
    <3> QED BY <3>1
  <2> QED BY <2>1, <2>3
<1>6. \A d \in Existing :
        d.file = at.file => d.group = 1 /\ corpus.files[at.file] # << >>
  <2> SUFFICES ASSUME NEW d \in Existing, d.file = at.file
               PROVE  d.group = 1 /\ corpus.files[at.file] # << >>
    OBVIOUS
  <2>1. d.group \in 1..Len(corpus.files[at.file])
    BY SourceIs
  <2> QED BY <1>5, <2>1
<1>7. /\ docs \in Seq(Existing) /\ IsInjective(docs)
      /\ \A d \in Existing :
           d \in ToSet(docs) <=> d.epoch = at.epoch /\ d.file = at.file
  <2>1. CASE corpus.files[at.file] = << >>
    <3>1. docs = << >>
      BY <2>1
    <3> HIDE DEF docs
    <3> QED BY <1>6, <2>1, <3>1, NothingPending
  <2>2. CASE corpus.files[at.file] # << >>
    <3>1. docs = Documents(at.epoch, at.file, 1)
      BY <2>2
    <3>2. /\ docs \in Seq(Existing) /\ IsInjective(docs)
          /\ \A d \in Existing :
               d \in ToSet(docs) <=> d.epoch = at.epoch /\ d.file = at.file /\ d.group = 1
      <4> HIDE DEF docs
      <4>1. corpus \in Corpora /\ 1 \in 1..Len(corpus.files[at.file])
        BY <1>5, <2>2, SourceIs
      <4> QED BY <1>3, <1>4, <3>1, <4>1, GroupHolds
    <3> HIDE DEF docs
    <3> QED BY <1>6, <3>2
  <2> QED BY <2>1, <2>2
<1> HIDE DEF docs
<1>8. last \in Positions
  BY <1>4 DEF Positions
<1>9. source' = [file |-> at.file + 1, group |-> 0, epoch |-> at.epoch,
                 pending |-> docs, last |-> last]
  <2> HIDE DEF last
  <2> QED BY <1>1, <1>3 DEF Sources
<1>10. ASSUME NEW d \in Existing
      PROVE  /\ Passed(d, at.epoch, at.file + 1, 0) <=> NotAfter(d, last)
             /\ Passed(d, at.epoch, at.file + 1, 0) <=> Before(d) \/ d \in ToSet(docs)
             /\ d \in ToSet(docs) => ~Before(d)
  <2>1. /\ ~(d.group < 0) /\ d.file \in Nat /\ d.epoch \in Nat
        /\ d.file = at.file => d.group <= 1
    BY <1>6, SourceIs
  <2>2. NotAfter(d, last) <=> \/ d.epoch < at.epoch
                              \/ d.epoch = at.epoch /\ d.file < at.file
                              \/ d.epoch = at.epoch /\ d.file = at.file
    BY <2>1 DEF NotAfter
  <2>3. d.file < at.file + 1 <=> d.file < at.file \/ d.file = at.file
    BY <1>4, <2>1
  <2>4. d \in ToSet(docs) <=> d.epoch = at.epoch /\ d.file = at.file
    BY <1>7
  <2>5. Before(d) <=> d.epoch < at.epoch \/ (d.epoch = at.epoch /\ d.file < at.file)
    BY <1>3
  <2>6. d \in ToSet(docs) => ~Before(d)
    BY <1>4, <2>1, <2>4, <2>5
  <2> QED BY <2>1, <2>2, <2>3, <2>4, <2>5, <2>6 DEF Passed
<1> HIDE DEF last
<1>11. at.file + 1 \in Nat /\ at.file + 1 \in 1..(Len(corpus.files) + 1)
  BY <1>3, <1>4, SourceIs
<1>12. 0 \in Nat /\ ~(0 > 0)
  OBVIOUS
<1> DEFINE next == at.file + 1
<1> HIDE DEF next
<1>13. /\ next \in Nat /\ next \in 1..(Len(corpus.files) + 1)
       /\ source' = [file |-> next, group |-> 0, epoch |-> at.epoch,
                     pending |-> docs, last |-> last]
       /\ \A d \in Existing :
            /\ Passed(d, at.epoch, next, 0) <=> NotAfter(d, last)
            /\ Passed(d, at.epoch, next, 0) <=> Before(d) \/ d \in ToSet(docs)
            /\ d \in ToSet(docs) => ~Before(d)
  BY <1>9, <1>10, <1>11 DEF next
<1> QED BY <1>1, <1>3, <1>4, <1>7, <1>8, <1>12, <1>13, TurnTaken

-----------------------------------------------------------------------------
(* The documents read.                                                     *)

LEMMA SourceSame ==
  ASSUME SourceInv, corpus' = corpus, source' = source
  PROVE  SourceInv'
<1>1. Existing' = Existing /\ Sources' = Sources
  BY SameCorpus
<1>2. \A d : /\ Before(d)' <=> Before(d)
             /\ NotAfter(d, source.last)' <=> NotAfter(d, source.last)
  BY DEF Before, NotAfter
<1> QED BY <1>1, <1>2 DEF SourceInv

LEMMA HeldSame ==
  ASSUME HeldInv, UNCHANGED <<corpus, source, buffer, used, state>>
  PROVE  HeldInv'
<1>1. Existing' = Existing
  BY SameCorpus
<1>2. Held' = Held
  BY DEF Held
<1>3. \A d : Before(d)' <=> Before(d)
  BY DEF Before
<1>4. \A d : NotAfter(d, state)' <=> NotAfter(d, state)
  BY DEF NotAfter
<1> QED BY <1>1, <1>2, <1>3, <1>4 DEF HeldInv

(***************************************************************************)
(* What a turn reads becomes pending, and only that.                       *)
(***************************************************************************)
LEMMA HeldTurns ==
  ASSUME HeldInv, Turns, source.pending = << >>, UNCHANGED <<corpus, buffer, used, state>>
  PROVE  HeldInv'
<1> DEFINE next == source'.pending
<1>1. /\ buffer \in Seq(Existing) /\ used \subseteq Existing /\ state \in Positions
      /\ IsInjective(Held) /\ used \cap ToSet(Held) = {}
      /\ \A d \in Existing : d \in used \cup ToSet(Held) <=> Before(d)
      /\ \A d \in used \cup ToSet(buffer) : NotAfter(d, state)
  BY DEF HeldInv
<1>2. Held = buffer
  BY <1>1, ConcatEmptySeq DEF Held
<1>3. /\ next \in Seq(Existing) /\ IsInjective(next)
      /\ \A d \in Existing : /\ Before(d)' <=> Before(d) \/ d \in ToSet(next)
                             /\ d \in ToSet(next) => ~Before(d)
  BY DEF Turns
<1>4. Held' = buffer \o next
  BY DEF Held
<1> HIDE DEF next
<1>5. ToSet(next) \subseteq Existing
  <2>1. \A i \in DOMAIN next : next[i] \in Existing
    BY <1>3
  <2> QED BY <2>1 DEF ToSet
<1>6. ToSet(next) \cap (used \cup ToSet(buffer)) = {}
  BY <1>1, <1>2, <1>3, <1>5
<1>7. /\ ToSet(Held') = ToSet(buffer) \cup ToSet(next)
      /\ IsInjective(Held')
  <2>1. IsInjective(buffer) /\ ToSet(buffer) \cap ToSet(next) = {}
    BY <1>1, <1>2, <1>6
  <2> QED BY <1>1, <1>3, <1>4, <2>1, ConcatHolds
<1>8. used \cap ToSet(Held') = {}
  BY <1>1, <1>2, <1>6, <1>7
<1>9. \A d \in Existing : d \in used \cup ToSet(Held') <=> Before(d)'
  BY <1>1, <1>2, <1>3, <1>7
<1>10. \A d : NotAfter(d, state)' <=> NotAfter(d, state)
  BY DEF NotAfter
<1>11. Existing' = Existing
  BY SameCorpus
<1> QED BY <1>1, <1>7, <1>8, <1>9, <1>10, <1>11 DEF HeldInv

(***************************************************************************)
(* A batch moves from what is pending to the buffer.                       *)
(***************************************************************************)
LEMMA HeldPull ==
  ASSUME SourceInv, HeldInv, Pull
  PROVE  SourceInv' /\ HeldInv'
<1> DEFINE pending == source.pending
           count == IF ReadSize < Len(pending) THEN ReadSize ELSE Len(pending)
           batch == SubSeq(pending, 1, count)
           rest == SubSeq(pending, count + 1, Len(pending))
<1>1. /\ buffer' = buffer \o batch /\ source' = [source EXCEPT !.pending = rest]
      /\ state' = source.last /\ corpus' = corpus /\ used' = used
  BY DEF Pull
<1>2. /\ pending \in Seq(Existing) /\ Len(pending) \in Nat /\ count \in 0..Len(pending)
  <2>1. pending \in Seq(Existing)
    BY SourceIs
  <2> HIDE DEF pending
  <2> QED BY <2>1, PretrainingConstants
<1> HIDE DEF count, pending
<1>3. /\ batch \in Seq(Existing) /\ rest \in Seq(Existing) /\ batch \o rest = pending
  <2>1. \A i \in 1..Len(pending) : pending[i] \in Existing
    BY <1>2
  <2>2. batch \in Seq(Existing)
    <3>1. 1 \in Int /\ count \in Int /\ \A i \in 1..count : pending[i] \in Existing
      BY <1>2, <2>1
    <3> QED BY <3>1, SubSeqProperties
  <2>3. rest \in Seq(Existing)
    <3>1. /\ count + 1 \in Int /\ Len(pending) \in Int
          /\ \A i \in (count + 1)..Len(pending) : pending[i] \in Existing
      BY <1>2, <2>1
    <3> QED BY <3>1, SubSeqProperties
  <2>4. batch \o rest = SubSeq(pending, 1, Len(pending))
    <3>1. /\ 1 \in 1..(Len(pending) + 1) /\ count \in (1 - 1)..Len(pending)
          /\ Len(pending) \in count..Len(pending)
      BY <1>2
    <3> QED BY <1>2, <3>1, ConcatAdjacentSubSeq
  <2>5. SubSeq(pending, 1, Len(pending)) = pending
    BY <1>2, SubSeqFull
  <2> QED BY <2>2, <2>3, <2>4, <2>5
<1> HIDE DEF batch, rest
<1>4. /\ buffer \in Seq(Existing) /\ used \subseteq Existing
      /\ IsInjective(Held) /\ used \cap ToSet(Held) = {}
      /\ \A d \in Existing : d \in used \cup ToSet(Held) <=> Before(d)
  BY DEF HeldInv
<1>5. /\ source'.pending = rest /\ source'.last = source.last
      /\ source'.file = source.file /\ source'.group = source.group
      /\ source'.epoch = source.epoch /\ source' \in Sources /\ source.last \in Positions
  BY <1>1, <1>3, SourceIs DEF Sources
<1>6. Existing' = Existing /\ Sources' = Sources
  BY <1>1, SameCorpus
<1>7. \A d : /\ Before(d)' <=> Before(d)
             /\ NotAfter(d, source.last)' <=> NotAfter(d, source.last)
             /\ NotAfter(d, state)' <=> NotAfter(d, source.last)
  BY <1>1, <1>5 DEF Before, NotAfter
<1>8. SourceInv'
  BY <1>1, <1>5, <1>6, <1>7 DEF SourceInv
<1>9. Held' = Held
  <2>1. (buffer \o batch) \o rest = buffer \o (batch \o rest)
    <3> DEFINE E == Existing
    <3>1. buffer \in Seq(E) /\ batch \in Seq(E) /\ rest \in Seq(E)
      BY <1>3, <1>4
    <3> HIDE DEF E
    <3> QED BY <3>1, ConcatAssociative
  <2> QED BY <1>1, <1>3, <1>5, <2>1 DEF Held, pending
<1>10. /\ buffer' \in Seq(Existing) /\ ToSet(buffer') \subseteq ToSet(Held)
  <2>1. buffer' \in Seq(Existing)
    BY <1>1, <1>3, <1>4
  <2>2. ToSet(buffer' \o rest) = ToSet(buffer') \cup ToSet(rest)
    BY <1>3, <2>1, ConcatHolds
  <2>3. Held' = buffer' \o rest
    BY <1>5 DEF Held
  <2> QED BY <1>9, <2>1, <2>2, <2>3
<1>11. ToSet(Held) \subseteq Existing
  <2>1. Held \in Seq(Existing)
    <3>1. buffer \o pending \in Seq(Existing)
      BY <1>2, <1>4, ConcatProperties
    <3> QED BY <3>1 DEF Held, pending
  <2>2. \A i \in DOMAIN Held : Held[i] \in Existing
    BY <2>1
  <2> QED BY <2>2 DEF ToSet
<1>12. \A d \in used' \cup ToSet(buffer') : NotAfter(d, state)'
  <2> SUFFICES ASSUME NEW d \in used' \cup ToSet(buffer') PROVE NotAfter(d, state)'
    OBVIOUS
  <2>1. d \in Existing /\ Before(d)
    BY <1>1, <1>4, <1>10, <1>11
  <2>2. NotAfter(d, source.last)
    BY <2>1 DEF SourceInv
  <2> QED BY <1>7, <2>2
<1>13. HeldInv'
  BY <1>1, <1>4, <1>5, <1>6, <1>7, <1>9, <1>10, <1>12 DEF HeldInv
<1> QED BY <1>8, <1>13

(***************************************************************************)
(* A buffered document becomes a used one.                                 *)
(***************************************************************************)
LEMMA HeldPack ==
  ASSUME SourceInv, HeldInv, NEW i \in 1..Len(buffer), UNCHANGED <<corpus, source, state>>,
         buffer' = RemoveAt(buffer, i), used' = used \cup {buffer[i]}
  PROVE  HeldInv'
<1> DEFINE pending == source.pending
           d0 == buffer[i]
<1>1. /\ buffer \in Seq(Existing) /\ used \subseteq Existing /\ state \in Positions
      /\ IsInjective(Held) /\ used \cap ToSet(Held) = {}
      /\ \A d \in Existing : d \in used \cup ToSet(Held) <=> Before(d)
      /\ \A d \in used \cup ToSet(buffer) : NotAfter(d, state)
  BY DEF HeldInv
<1>2. pending \in Seq(Existing)
  BY SourceIs
<1>3. d0 \in Existing /\ d0 \in ToSet(buffer)
  BY <1>1 DEF ToSet
<1> HIDE DEF pending
<1>4. /\ ToSet(Held) = ToSet(buffer) \cup ToSet(pending)
      /\ IsInjective(buffer) /\ IsInjective(pending) /\ ToSet(buffer) \cap ToSet(pending) = {}
  <2>1. Held = buffer \o pending
    BY DEF Held, pending
  <2> QED BY <1>1, <1>2, <2>1, ConcatHolds
<1>5. /\ buffer' \in Seq(Existing) /\ IsInjective(buffer')
      /\ ToSet(buffer') = ToSet(buffer) \ {d0}
  BY <1>1, <1>4, RemoveAtHolds
<1> HIDE DEF d0
<1>6. ToSet(Held') = ToSet(Held) \ {d0} /\ IsInjective(Held')
  <2>1. Held' = buffer' \o pending
    BY DEF Held, pending
  <2>2. ToSet(buffer') \cap ToSet(pending) = {}
    BY <1>4, <1>5
  <2>3. IsInjective(Held') /\ ToSet(Held') = ToSet(buffer') \cup ToSet(pending)
    BY <1>2, <1>4, <1>5, <2>1, <2>2, ConcatHolds
  <2> QED BY <1>3, <1>4, <1>5, <2>3
<1>7. used' = used \cup {d0}
  BY DEF d0
<1>8. /\ used' \cap ToSet(Held') = {} /\ used' \subseteq Existing
      /\ used' \cup ToSet(Held') = used \cup ToSet(Held)
      /\ used' \cup ToSet(buffer') \subseteq used \cup ToSet(buffer)
  BY <1>1, <1>3, <1>4, <1>5, <1>6, <1>7
<1>9. Existing' = Existing
  BY SameCorpus
<1>10. \A d : /\ Before(d)' <=> Before(d)
              /\ NotAfter(d, state)' <=> NotAfter(d, state)
  BY DEF Before, NotAfter
<1> QED BY <1>1, <1>5, <1>6, <1>8, <1>9, <1>10 DEF HeldInv

LEMMA FreshLoader ==
  ASSUME corpus \in Corpora, corpus' = corpus,
         source' = NewSource, buffer' = << >>, used' = {}, state' = NoPosition
  PROVE  SourceInv' /\ HeldInv'
<1>1. /\ source' = [file |-> 1, group |-> 0, epoch |-> 1, pending |-> << >>, last |-> NoPosition]
      /\ source'.pending = << >>
      /\ NoPosition \in Positions
      /\ NoPosition.epoch = 0 /\ NoPosition.file = 0 /\ NoPosition.group = 0
  BY DEF NewSource, NoPosition, Positions
<1>2. Existing' = Existing /\ Sources' = Sources
  BY SameCorpus
<1>3. source' \in Sources
  BY <1>1, NothingPending DEF Sources
<1>4. \A d \in Existing : ~Before(d)' /\ ~NotAfter(d, source.last)'
  <2> TAKE d \in Existing
  <2>1. d.epoch \in Nat /\ d.epoch >= 1 /\ d.file \in 1..Len(corpus.files) /\ d.group \in Nat
    BY ExistingIs
  <2>2. ~(d.epoch < 1) /\ ~(d.file < 1) /\ ~(d.group < 0) /\ ~(d.epoch < 0) /\ d.epoch # 0
    BY <2>1, CorpusIs
  <2> QED BY <1>1, <2>2 DEF Before, NotAfter
<1>5. 1 \in 1..(Len(corpus.files) + 1)
  BY CorpusIs
<1>6. SourceInv'
  BY <1>1, <1>2, <1>3, <1>4, <1>5 DEF SourceInv
<1>7. Held' = << >>
  BY <1>1 DEF Held
<1>8. HeldInv'
  BY <1>1, <1>2, <1>4, <1>7, NothingPending DEF HeldInv
<1> QED BY <1>6, <1>8

-----------------------------------------------------------------------------
(* The rows.                                                               *)

LEMMA PackedIs ==
  ASSUME NEW D, NEW row \in Seq([doc : D, taken : Nat])
  PROVE  /\ [p \in DOMAIN row |-> row[p].taken] \in Seq(Nat)
         /\ [p \in DOMAIN row |-> row[p].taken] \in Seq(Int)
         /\ Len([p \in DOMAIN row |-> row[p].taken]) = Len(row)
         /\ Packed(row) \in Nat
         /\ Packed(<< >>) = 0
         /\ \A d \in D, taken \in Nat :
              Packed(Append(row, [doc |-> d, taken |-> taken])) = Packed(row) + taken
<1> DEFINE n == Len(row)
           T == [p \in DOMAIN row |-> row[p].taken]
<1>1. n \in Nat /\ DOMAIN row = 1..n /\ \A p \in 1..n : row[p] \in [doc : D, taken : Nat]
  <2> DEFINE R == [doc : D, taken : Nat]
  <2>1. row \in Seq(R)
    OBVIOUS
  <2> HIDE DEF R
  <2>2. n \in Nat /\ DOMAIN row = 1..n /\ \A p \in 1..n : row[p] \in R
    BY <2>1
  <2> QED BY <2>2 DEF R
<1>2. T = [p \in 1..n |-> row[p].taken] /\ \A p \in 1..n : row[p].taken \in Nat
  BY <1>1
<1> HIDE DEF n
<1>3. T \in Seq(Nat) /\ T \in Seq(Int) /\ Len(T) = n
  <2> HIDE DEF T
  <2> QED BY <1>1, <1>2
<1>4. Packed(row) = Total(T)
  BY DEF Packed
<1>5. Total(T) \in Nat
  <2> HIDE DEF T
  <2> QED BY <1>3, TotalNat
<1>6. Packed(<< >>) = 0
  <2>1. [p \in DOMAIN << >> |-> << >>[p].taken] = << >>
    OBVIOUS
  <2> QED BY <2>1, TotalEmpty DEF Packed
<1>7. ASSUME NEW d \in D, NEW taken \in Nat
      PROVE  Packed(Append(row, [doc |-> d, taken |-> taken])) = Packed(row) + taken
  <2> DEFINE piece == [doc |-> d, taken |-> taken]
             longer == Append(row, piece)
             U == [p \in DOMAIN longer |-> longer[p].taken]
             V == Append(T, taken)
  <2>1. piece \in [doc : D, taken : Nat] /\ piece.taken = taken
    OBVIOUS
  <2>2. /\ DOMAIN longer = 1..(n + 1) /\ longer[n + 1] = piece
        /\ \A p \in 1..n : longer[p] = row[p]
    <3> HIDE DEF piece
    <3> QED BY <1>1, <2>1, AppendProperties DEF n
  <2> HIDE DEF piece, longer
  <2>3. U = [p \in 1..(n + 1) |-> longer[p].taken]
    BY <2>2
  <2>4. \A p \in 1..(n + 1) : longer[p].taken = IF p = n + 1 THEN taken ELSE T[p]
    <3> TAKE p \in 1..(n + 1)
    <3>1. CASE p = n + 1
      BY <2>1, <2>2, <3>1
    <3>2. CASE p # n + 1
      <4>1. p \in 1..n
        BY <1>1, <3>2
      <4> QED BY <1>2, <2>2, <3>2, <4>1
    <3> QED BY <3>1, <3>2
  <2> HIDE DEF T
  <2>5. V \in Seq(Int) /\ Len(V) = n + 1 /\ V[n + 1] = taken /\ \A p \in 1..n : V[p] = T[p]
    BY <1>3, AppendProperties
  <2> HIDE DEF U, V
  <2>6. U \in Seq(Int) /\ Len(U) = n + 1 /\ \A p \in 1..(n + 1) : U[p] = longer[p].taken
    <3>1. \A p \in 1..(n + 1) : longer[p].taken \in Int
      <4> TAKE p \in 1..(n + 1)
      <4>1. p # n + 1 => p \in 1..n
        BY <1>1
      <4>2. p # n + 1 => T[p] \in Int
        BY <1>1, <1>3, <4>1
      <4> QED BY <2>4, <4>2
    <3> QED BY <1>1, <2>3, <3>1
  <2>7. \A p \in 1..(n + 1) : U[p] = V[p]
    <3> TAKE p \in 1..(n + 1)
    <3>1. p = n + 1 \/ p \in 1..n
      BY <1>1
    <3>2. p \in 1..n => p # n + 1
      BY <1>1
    <3> QED BY <2>4, <2>5, <2>6, <3>1, <3>2
  <2>8. U = V
    BY <1>1, <2>5, <2>6, <2>7, SeqEqual
  <2>9. Total(V) = Total(T) + taken
    BY <1>3, TotalAppend DEF V
  <2>10. Packed(longer) = Total(U)
    BY DEF Packed, U
  <2> QED BY <1>4, <2>8, <2>9, <2>10 DEF longer, piece
<1> QED BY <1>3, <1>4, <1>5, <1>6, <1>7 DEF n, T

(***************************************************************************)
(* One more piece of a row.                                                *)
(***************************************************************************)
LEMMA RowGrows ==
  ASSUME NEW D, NEW row \in Seq([doc : D, taken : Nat]), NEW files, NEW docs,
         NEW d \in D, NEW taken \in Nat,
         RowOK(files, docs, row), Packed(row) < Capacity, d \notin docs,
         taken >= 1, taken <= Size(files, d), Packed(row) + taken <= Capacity,
         Packed(row) + taken < Capacity => taken = Size(files, d)
  PROVE  RowOK(files, docs \cup {d}, Append(row, [doc |-> d, taken |-> taken]))
<1> DEFINE n == Len(row)
           piece == [doc |-> d, taken |-> taken]
           longer == Append(row, piece)
<1>1. n \in Nat
  OBVIOUS
<1>2. piece \in [doc : D, taken : Nat] /\ piece.doc = d /\ piece.taken = taken
  OBVIOUS
<1>3. Packed(longer) = Packed(row) + taken
  BY PackedIs
<1> HIDE DEF piece
<1>4. /\ Len(longer) = n + 1 /\ longer[n + 1] = piece
      /\ \A p \in 1..n : longer[p] = row[p]
  BY <1>2, AppendProperties
<1> HIDE DEF longer, n
<1>5. /\ \A p \in 1..n : /\ row[p].doc \in docs
                         /\ row[p].taken >= 1 /\ row[p].taken = Size(files, row[p].doc)
      /\ \A p, q \in 1..n : row[p].doc = row[q].doc => p = q
  BY DEF RowOK, n
<1>6. \A p \in 1..n : row[p].taken <= Size(files, row[p].doc)
  BY DEF RowOK, n
<1>7. \A p \in 1..(n + 1) : p = n + 1 \/ p \in 1..n
  BY <1>1
<1>8. ASSUME NEW p \in 1..(n + 1)
      PROVE  /\ longer[p].doc \in docs \cup {d}
             /\ longer[p].taken >= 1 /\ longer[p].taken <= Size(files, longer[p].doc)
             /\ p < n + 1 \/ Packed(longer) < Capacity =>
                  longer[p].taken = Size(files, longer[p].doc)
  <2>1. CASE p = n + 1
    <3>1. ~(p < n + 1)
      BY <1>1, <2>1
    <3> QED BY <1>2, <1>3, <1>4, <2>1, <3>1
  <2>2. CASE p \in 1..n
    BY <1>4, <1>5, <1>6, <2>2
  <2> QED BY <1>7, <2>1, <2>2
<1>9. ASSUME NEW p \in 1..(n + 1), NEW q \in 1..(n + 1), longer[p].doc = longer[q].doc
      PROVE  p = q
  <2>1. CASE p \in 1..n /\ q \in 1..n
    BY <1>4, <1>5, <1>9, <2>1
  <2>2. CASE p = n + 1 /\ q \in 1..n
    BY <1>2, <1>4, <1>5, <1>9, <2>2
  <2>3. CASE p \in 1..n /\ q = n + 1
    BY <1>2, <1>4, <1>5, <1>9, <2>3
  <2> QED BY <1>7, <2>1, <2>2, <2>3
<1>10. RowOK(files, docs \cup {d}, longer)
  BY <1>3, <1>4, <1>8, <1>9 DEF RowOK
<1> QED BY <1>10 DEF longer, piece

LEMMA RowKeeps ==
  ASSUME NEW files, NEW docs, NEW more, docs \subseteq more, NEW row, RowOK(files, docs, row)
  PROVE  RowOK(files, more, row)
BY DEF RowOK

LEMMA EmptyRow ==
  ASSUME NEW files, NEW docs
  PROVE  RowOK(files, docs, << >>) /\ Packed(<< >>) = 0
<1>1. << >> \in Seq([doc : docs, taken : Nat])
  OBVIOUS
<1>2. Packed(<< >>) = 0
  BY <1>1, PackedIs
<1>3. Len(<< >>) = 0 /\ Capacity >= 0
  BY PretrainingConstants DEF Capacity
<1> QED BY <1>2, <1>3 DEF RowOK

(***************************************************************************)
(* There is a document to choose: the first of the longest that fit, or of *)
(* the shortest.                                                           *)
(***************************************************************************)
LEMMA ChoiceIs ==
  ASSUME corpus \in Corpora, buffer \in Seq(Existing), buffer # << >>, Remaining \in Int
  PROVE  /\ Fitting \subseteq 1..Len(buffer)
         /\ Fitting # {} => BestFit \in Fitting
         /\ Shortest \in 1..Len(buffer)
<1> DEFINE n == Len(buffer)
<1>1. /\ n \in Nat /\ n >= 1 /\ DOMAIN buffer = 1..n
      /\ \A i \in 1..n : buffer[i] \in Existing
  OBVIOUS
<1>2. \A i \in 1..n : Length(buffer[i]) \in Nat
  BY <1>1, ExistingIs
<1> HIDE DEF n
<1>3. Fitting \subseteq 1..n /\ \A i \in Fitting : Length(buffer[i]) <= Remaining
  BY <1>1 DEF Fitting
<1>4. ASSUME Fitting # {}
      PROVE  BestFit \in Fitting
  <2> DEFINE key == [i \in Fitting |-> Remaining - Length(buffer[i])]
  <2>1. Fitting \in SUBSET Nat /\ key \in [Fitting -> Nat]
    <3>1. \A i \in Fitting : Remaining - Length(buffer[i]) \in Nat
      BY <1>2, <1>3
    <3> QED BY <1>1, <1>3, <3>1
  <2>2. \A i \in Fitting : key[i] = Remaining - Length(buffer[i])
    OBVIOUS
  <2> HIDE DEF key
  <2>3. PICK i \in Fitting : \A j \in Fitting : key[i] < key[j] \/ (key[i] = key[j] /\ i <= j)
    BY <1>4, <2>1, FirstLeast
  <2>4. \A j \in Fitting :
          Length(buffer[j]) < Length(buffer[i]) \/ (Length(buffer[j]) = Length(buffer[i]) /\ i <= j)
    <3> TAKE j \in Fitting
    <3>1. Length(buffer[j]) \in Nat /\ Length(buffer[i]) \in Nat
      BY <1>2, <1>3
    <3>2. /\ key[i] = Remaining - Length(buffer[i]) /\ key[j] = Remaining - Length(buffer[j])
          /\ key[i] < key[j] \/ (key[i] = key[j] /\ i <= j)
      BY <2>2, <2>3
    <3> QED BY <3>1, <3>2
  <2> QED BY <2>4 DEF BestFit
<1>5. Shortest \in 1..n
  <2> DEFINE key == [i \in 1..n |-> Length(buffer[i])]
  <2>1. 1..n \in SUBSET Nat /\ 1..n # {} /\ key \in [1..n -> Nat]
    BY <1>1, <1>2, SMTT(30)
  <2>2. \A i \in 1..n : key[i] = Length(buffer[i])
    OBVIOUS
  <2> HIDE DEF key
  <2>3. PICK i \in 1..n : \A j \in 1..n : key[i] < key[j] \/ (key[i] = key[j] /\ i <= j)
    BY <2>1, FirstLeast
  <2>4. \A j \in 1..n :
          Length(buffer[i]) < Length(buffer[j]) \/ (Length(buffer[i]) = Length(buffer[j]) /\ i <= j)
    BY <2>2, <2>3
  <2> QED BY <1>1, <2>4 DEF Shortest
<1> QED BY <1>3, <1>4, <1>5 DEF n

LEMMA RowsElsewhere ==
  ASSUME RowsInv, UNCHANGED <<corpus, rows, used>>,
         stage' = stage \/ stage' \notin {"pack", "optimize"}
  PROVE  RowsInv'
<1>1. Pieces' = Pieces
  BY SameCorpus
<1>2. Row' = Row
  BY DEF Row
<1> QED BY <1>1, <1>2 DEF RowsInv

LEMMA FreshRows ==
  ASSUME corpus' = corpus, rows' = << << >> >>, stage' # "optimize"
  PROVE  RowsInv'
<1>1. /\ << << >> >> \in Seq(Seq(Pieces)) /\ Len(<< << >> >>) = 1 /\ << << >> >>[1] = << >>
      /\ << << >> >> # << >>
  OBVIOUS
<1>2. Pieces' = Pieces
  BY SameCorpus
<1>3. RowOK(corpus.files, used', << >>)
  BY EmptyRow
<1>4. \A r \in 1..Len(rows') : r = 1
  BY <1>1
<1>5. \A r \in 1..(Len(rows') - 1) : FALSE
  BY <1>1
<1>6. \A r \in 1..Len(rows') : RowOK(corpus'.files, used', rows'[r])
  BY <1>1, <1>3, <1>4
<1> QED BY <1>1, <1>2, <1>5, <1>6 DEF RowsInv

LEMMA NoRows ==
  ASSUME corpus' = corpus, rows' = << >>, stage' = "idle"
  PROVE  RowsInv'
<1>1. << >> \in Seq(Seq(Pieces)) /\ Len(<< >>) = 0
  OBVIOUS
<1>2. Pieces' = Pieces
  BY SameCorpus
<1> QED BY <1>1, <1>2 DEF RowsInv

\* What a run has read, and the rows it makes of it.
PretrainInv == SourceInv /\ HeldInv /\ RowsInv

LEMMA RowIs ==
  ASSUME RowsInv, stage \in {"pack", "optimize"}
  PROVE  /\ Len(rows) \in Nat /\ Len(rows) >= 1 /\ DOMAIN rows = 1..Len(rows)
         /\ Row \in Seq(Pieces) /\ Packed(Row) \in Nat /\ Packed(Row) <= Capacity
         /\ RowOK(corpus.files, used, Row)
         /\ Capacity \in Nat /\ Remaining \in Nat /\ Remaining = Capacity - Packed(Row)
<1> DEFINE R == Seq(Pieces)
<1>1. rows \in Seq(R) /\ rows # << >>
  BY DEF RowsInv
<1> HIDE DEF R
<1>2. Len(rows) \in Nat /\ Len(rows) >= 1 /\ DOMAIN rows = 1..Len(rows) /\ Row \in R
  BY <1>1 DEF Row
<1>3. RowOK(corpus.files, used, Row)
  BY <1>2 DEF RowsInv, Row
<1>4. Packed(Row) \in Nat
  BY <1>2, PackedIs DEF R, Pieces
<1>5. Packed(Row) <= Capacity
  BY <1>3 DEF RowOK
<1>6. Capacity \in Nat
  BY PretrainingConstants DEF Capacity
<1>7. Remaining = Capacity - Packed(Row)
  BY DEF Remaining
<1> QED BY <1>2, <1>3, <1>4, <1>5, <1>6, <1>7 DEF R

(***************************************************************************)
(* The chosen document goes from the buffer into the row, whole or, when   *)
(* none fits, cut to fill it.                                              *)
(***************************************************************************)
LEMMA PackNext ==
  ASSUME PretrainInv, Pack
  PROVE  PretrainInv'
<1> DEFINE n == Len(rows)
<1>1. /\ SourceInv /\ HeldInv /\ RowsInv /\ stage = "pack" /\ Remaining > 0
      /\ Len(buffer) >= BufferSize /\ PackDocument
      /\ UNCHANGED <<corpus, source, state, stage>>
  BY DEF Pack, PretrainInv
<1>2. /\ n \in Nat /\ n >= 1 /\ DOMAIN rows = 1..n /\ rows \in Seq(Seq(Pieces))
      /\ Row = rows[n] /\ Row \in Seq(Pieces) /\ RowOK(corpus.files, used, Row)
      /\ Packed(Row) \in Nat /\ Capacity \in Nat /\ Remaining = Capacity - Packed(Row)
      /\ Remaining \in Nat
  BY <1>1, RowIs DEF RowsInv, Row
<1>3. /\ buffer \in Seq(Existing) /\ buffer # << >> /\ corpus \in Corpora
  <2>1. buffer \in Seq(Existing) /\ corpus \in Corpora
    BY <1>1 DEF HeldInv, SourceInv
  <2> DEFINE E == Existing
  <2>2. buffer \in Seq(E)
    BY <2>1
  <2> HIDE DEF E
  <2>3. Len(buffer) >= 1
    BY <1>1, <2>2, PretrainingConstants
  <2> QED BY <2>1, <2>3
<1>4. PICK i \in 1..Len(buffer), taken \in Nat :
        /\ PackAt(i, taken)
        /\ taken >= 1 /\ taken <= Remaining /\ taken <= Length(buffer[i])
        /\ taken < Remaining => taken = Length(buffer[i])
  <2>1. /\ Fitting \subseteq 1..Len(buffer) /\ Fitting # {} => BestFit \in Fitting
        /\ Shortest \in 1..Len(buffer)
    BY <1>2, <1>3, ChoiceIs
  <2>2. \A i \in 1..Len(buffer) : Length(buffer[i]) \in Nat /\ Length(buffer[i]) >= 1
    <3>1. \A i \in 1..Len(buffer) : buffer[i] \in Existing
      BY <1>3
    <3> QED BY <1>3, <3>1, ExistingIs
  <2>3. CASE Fitting # {}
    <3>1. BestFit \in 1..Len(buffer) /\ Length(buffer[BestFit]) <= Remaining
      BY <2>1, <2>3 DEF Fitting
    <3>2. PackAt(BestFit, Length(buffer[BestFit]))
      BY <1>1, <2>3 DEF PackDocument
    <3> QED BY <2>2, <3>1, <3>2
  <2>4. CASE Fitting = {}
    <3>1. PackAt(Shortest, Remaining)
      BY <1>1, <2>4 DEF PackDocument
    <3>2. Shortest \in DOMAIN buffer
      BY <1>3, <2>1
    <3>3. ~(Length(buffer[Shortest]) <= Remaining)
      BY <2>4, <3>2 DEF Fitting
    <3>4. Remaining <= Length(buffer[Shortest]) /\ Remaining >= 1 /\ ~(Remaining < Remaining)
      BY <1>1, <1>2, <2>1, <2>2, <3>3
    <3> QED BY <1>2, <2>1, <3>1, <3>4
  <2> QED BY <2>3, <2>4
<1> DEFINE d == buffer[i]
           piece == [doc |-> d, taken |-> taken]
           longer == Append(Row, piece)
<1>5. /\ rows' = [rows EXCEPT ![n] = Append(@, piece)]
      /\ buffer' = RemoveAt(buffer, i) /\ used' = used \cup {d}
  BY <1>4 DEF PackAt
<1>6. SourceInv' /\ HeldInv'
  BY <1>1, <1>5, SourceSame, HeldPack
<1>7. d \in Existing /\ d \notin used /\ Length(d) = Size(corpus.files, d)
  <2>1. d \in Existing /\ d \in ToSet(buffer)
    BY <1>3 DEF ToSet
  <2>2. ToSet(Held) = ToSet(buffer) \cup ToSet(source.pending) /\ used \cap ToSet(Held) = {}
    <3>1. source.pending \in Seq(Existing)
      BY <1>1, SourceIs
    <3> QED BY <1>1, <1>3, <3>1, ConcatHolds DEF Held, HeldInv
  <2> QED BY <2>1, <2>2 DEF Length, Size
<1>8. piece \in Pieces
  BY <1>7 DEF Pieces
<1> HIDE DEF d
<1>9. RowOK(corpus.files, used \cup {d}, longer)
  <2>1. Row \in Seq([doc : Existing, taken : Nat])
    BY <1>2 DEF Pieces
  <2>2. /\ taken >= 1 /\ taken <= Size(corpus.files, d)
        /\ Packed(Row) < Capacity /\ Packed(Row) + taken <= Capacity
        /\ Packed(Row) + taken < Capacity => taken = Size(corpus.files, d)
    BY <1>1, <1>2, <1>4, <1>7 DEF d
  <2> QED BY <1>2, <1>7, <2>1, <2>2, RowGrows
<1>10. longer \in Seq(Pieces)
  <2> HIDE DEF piece
  <2> QED BY <1>2, <1>8, AppendProperties
<1> HIDE DEF piece, longer
<1>11. rows' = [rows EXCEPT ![n] = longer]
  BY <1>2, <1>5 DEF longer
<1>12. rows' \in Seq(Seq(Pieces)) /\ Len(rows') = n /\ \A r \in 1..n :
         rows'[r] = IF r = n THEN longer ELSE rows[r]
  <2> DEFINE R == Seq(Pieces)
  <2>1. rows \in Seq(R) /\ longer \in R
    BY <1>2, <1>10
  <2> HIDE DEF R
  <2>2. rows' \in Seq(R) /\ Len(rows') = Len(rows) /\ \A r \in 1..Len(rows) :
          rows'[r] = IF r = Len(rows) THEN longer ELSE rows[r]
    BY <1>2, <1>11, <2>1
  <2> QED BY <2>2 DEF R
<1>13. \A r \in 1..n : RowOK(corpus.files, used', rows'[r])
  <2> TAKE r \in 1..n
  <2>1. CASE r = n
    BY <1>5, <1>9, <1>12, <2>1
  <2>2. CASE r # n
    <3>1. rows'[r] = rows[r] /\ used \subseteq used'
      BY <1>5, <1>12, <2>2
    <3>2. RowOK(corpus.files, used, rows[r])
      BY <1>1 DEF RowsInv
    <3> QED BY <3>1, <3>2, RowKeeps
  <2> QED BY <2>1, <2>2
<1>14. \A r \in 1..(n - 1) : Packed(rows'[r]) = Capacity
  <2> TAKE r \in 1..(n - 1)
  <2>1. r \in 1..n /\ r # n
    <3>1. n \in Nat
      BY <1>2
    <3> HIDE DEF n
    <3> QED BY <3>1
  <2> QED BY <1>1, <1>12, <2>1 DEF RowsInv
<1>15. Pieces' = Pieces /\ rows' # << >>
  <2>1. Pieces' = Pieces
    BY <1>1, SameCorpus
  <2>2. rows' # << >>
    <3>1. Len(rows') >= 1
      BY <1>2, <1>12
    <3> QED BY <3>1
  <2> QED BY <2>1, <2>2
<1>16. RowsInv'
  BY <1>1, <1>12, <1>13, <1>14, <1>15 DEF RowsInv
<1> QED BY <1>6, <1>16 DEF PretrainInv

LEMMA NextRowNext ==
  ASSUME PretrainInv, NextRow
  PROVE  PretrainInv'
<1> DEFINE n == Len(rows)
           R == Seq(Pieces)
<1>1. /\ SourceInv /\ HeldInv /\ RowsInv /\ stage = "pack" /\ Remaining = 0
      /\ rows' = Append(rows, << >>)
      /\ UNCHANGED <<corpus, source, buffer, state, used, stage>>
  BY DEF NextRow, PretrainInv
<1>2. /\ n \in Nat /\ n >= 1 /\ rows \in Seq(R) /\ << >> \in R
      /\ Packed(Row) \in Nat /\ Capacity \in Nat /\ Remaining = Capacity - Packed(Row)
  BY <1>1, RowIs DEF RowsInv
<1>3. Packed(rows[n]) = Capacity
  <2>1. Packed(Row) = Capacity
    BY <1>1, <1>2
  <2> QED BY <2>1 DEF Row
<1> HIDE DEF R
<1>4. /\ rows' \in Seq(R) /\ Len(rows') = n + 1 /\ rows'[n + 1] = << >>
      /\ \A r \in 1..n : rows'[r] = rows[r]
  BY <1>1, <1>2, AppendProperties
<1> HIDE DEF n
<1>5. \A r \in 1..(n + 1) : RowOK(corpus.files, used, rows'[r])
  <2> TAKE r \in 1..(n + 1)
  <2>1. CASE r = n + 1
    BY <1>4, <2>1, EmptyRow
  <2>2. CASE r \in 1..n
    BY <1>1, <1>4, <2>2 DEF RowsInv, n
  <2>3. r = n + 1 \/ r \in 1..n
    BY <1>2
  <2> QED BY <2>1, <2>2, <2>3
<1>6. \A r \in 1..n : Packed(rows'[r]) = Capacity
  <2> TAKE r \in 1..n
  <2>1. CASE r = n
    BY <1>2, <1>3, <1>4, <2>1
  <2>2. CASE r # n
    <3>1. r \in 1..(n - 1)
      BY <1>2, <2>2
    <3> QED BY <1>1, <1>4, <3>1 DEF RowsInv, n
  <2> QED BY <2>1, <2>2
<1>7. Pieces' = Pieces
  BY <1>1, SameCorpus
<1>8. rows' # << >> /\ (n + 1) - 1 = n
  BY <1>2, <1>4
<1>9. RowsInv'
  BY <1>1, <1>4, <1>5, <1>6, <1>7, <1>8 DEF RowsInv, R
<1> QED BY <1>1, <1>9, SourceSame, HeldSame DEF PretrainInv

LEMMA PretrainStart ==
  ASSUME Init
  PROVE  PretrainInv
<1>1. /\ corpus \in Corpora /\ source = NewSource /\ buffer = << >> /\ state = NoPosition
      /\ rows = << >> /\ used = {} /\ stage = "idle"
  BY DEF Init
<1>2. /\ source = [file |-> 1, group |-> 0, epoch |-> 1, pending |-> << >>, last |-> NoPosition]
      /\ NoPosition \in Positions
      /\ NoPosition.epoch = 0 /\ NoPosition.file = 0 /\ NoPosition.group = 0
  BY <1>1 DEF NewSource, NoPosition, Positions
<1>3. \A d \in Existing : ~Before(d) /\ ~NotAfter(d, source.last)
  <2> TAKE d \in Existing
  <2>1. d.epoch \in Nat /\ d.epoch >= 1 /\ d.file \in 1..Len(corpus.files) /\ d.group \in Nat
    BY <1>1, ExistingIs
  <2>2. ~(d.epoch < 1) /\ ~(d.file < 1) /\ ~(d.group < 0) /\ ~(d.epoch < 0) /\ d.epoch # 0
    BY <1>1, <2>1, CorpusIs
  <2> QED BY <1>2, <2>2 DEF Before, NotAfter
<1>4. 1 \in 1..(Len(corpus.files) + 1)
  BY <1>1, CorpusIs
<1>5. source \in Sources
  BY <1>2, NothingPending DEF Sources
<1>6. SourceInv
  BY <1>1, <1>2, <1>3, <1>4, <1>5 DEF SourceInv
<1>7. Held = << >>
  BY <1>1, <1>2 DEF Held
<1>8. HeldInv
  BY <1>1, <1>2, <1>3, <1>7, NothingPending DEF HeldInv
<1>9. RowsInv
  BY <1>1 DEF RowsInv
<1> QED BY <1>6, <1>8, <1>9 DEF PretrainInv

LEMMA PretrainGone ==
  ASSUME PretrainInv, Gone, corpus' = corpus
  PROVE  PretrainInv'
<1>1. /\ corpus \in Corpora /\ source' = NewSource /\ buffer' = << >> /\ used' = {}
      /\ state' = NoPosition /\ rows' = << >> /\ stage' = "idle"
  BY DEF Gone, PretrainInv, SourceInv
<1> QED BY <1>1, FreshLoader, NoRows DEF PretrainInv

LEMMA PretrainNext ==
  ASSUME PretrainInv, Next
  PROVE  PretrainInv'
<1>1. SourceInv /\ HeldInv /\ RowsInv
  BY DEF PretrainInv
<1>2. CASE Start
  <2>1. /\ rows' = << << >> >> /\ stage' = "pack"
        /\ UNCHANGED <<corpus, source, buffer, state, used>>
    BY <1>2 DEF Start, StartFrom
  <2> QED BY <1>1, <2>1, SourceSame, HeldSame, FreshRows DEF PretrainInv
<1>3. CASE Pull
  <2>1. UNCHANGED <<corpus, rows, used, stage>>
    BY <1>3 DEF Pull
  <2> QED BY <1>1, <1>3, <2>1, HeldPull, RowsElsewhere DEF PretrainInv
<1>4. CASE OpenFile \/ CloseFile \/ ReadGroup \/ ReadMarkdown
  <2>1. SourceInv' /\ Turns
    BY <1>1, <1>4, OpenFileTurns, CloseFileTurns, ReadGroupTurns, ReadMarkdownTurns
  <2>2. source.pending = << >> /\ UNCHANGED <<corpus, buffer, state, rows, used, stage>>
    BY <1>4 DEF OpenFile, CloseFile, ReadGroup, ReadMarkdown
  <2> QED BY <1>1, <2>1, <2>2, HeldTurns, RowsElsewhere DEF PretrainInv
<1>5. CASE Pack
  BY <1>5, PackNext
<1>6. CASE NextRow
  BY <1>6, NextRowNext
<1>7. CASE TrainStep
  <2>1. /\ stage = "pack" /\ Remaining = 0 /\ stage' = "optimize"
        /\ UNCHANGED <<corpus, source, buffer, state, rows, used>>
    BY <1>7 DEF TrainStep, loader
  <2>2. Packed(Row) = Capacity
    <3>1. Packed(Row) \in Nat /\ Capacity \in Nat /\ Remaining = Capacity - Packed(Row)
      BY <1>1, <2>1, RowIs
    <3> QED BY <2>1, <3>1
  <2>3. Row' = Row /\ Pieces' = Pieces
    BY <2>1, SameCorpus DEF Row
  <2>4. RowsInv'
    BY <1>1, <2>1, <2>2, <2>3 DEF RowsInv
  <2> QED BY <1>1, <2>1, <2>4, SourceSame, HeldSame DEF PretrainInv
<1>8. CASE StepOptimizer
  <2>1. /\ rows' = << << >> >> /\ stage' # "optimize"
        /\ UNCHANGED <<corpus, source, buffer, state, used>>
    BY <1>8 DEF StepOptimizer
  <2> QED BY <1>1, <2>1, SourceSame, HeldSame, FreshRows DEF PretrainInv
<1>9. CASE Create
  <2>1. /\ stage' \notin {"pack", "optimize"}
        /\ UNCHANGED <<corpus, source, buffer, state, rows, used>>
    <3>1. Sections[1] \notin {"pack", "optimize"}
      BY SectionsAre DEF SectionNames
    <3> QED BY <1>9, <3>1 DEF Create, loader
  <2> QED BY <1>1, <2>1, SourceSame, HeldSame, RowsElsewhere DEF PretrainInv
<1>10. CASE Write
  <2>1. PICK i \in 1..5 : WriteSection(i)
    BY <1>10, SectionsAre DEF Write
  <2>2. corpus' = corpus /\ (i = 5 => Gone)
    BY <2>1, SectionsAre DEF WriteSection
  <2>3. CASE i = 5
    BY <2>2, <2>3, PretrainGone
  <2>4. CASE i # 5
    <3>1. i + 1 \in 1..5
      BY <2>4
    <3>2. Sections[i + 1] \notin {"pack", "optimize"}
      BY <3>1, SectionsAre DEF SectionNames
    <3>3. stage' = Sections[i + 1] /\ UNCHANGED <<source, buffer, state, rows, used>>
      BY <2>1, <2>4, SectionsAre DEF WriteSection, loader
    <3> QED BY <1>1, <2>2, <3>2, <3>3, SourceSame, HeldSame, RowsElsewhere DEF PretrainInv
  <2> QED BY <2>3, <2>4
<1>11. CASE Crash
  BY <1>11, PretrainGone DEF Crash
<1>12. CASE Terminated
  <2>1. UNCHANGED <<corpus, source, buffer, state, rows, used, stage>>
    BY <1>12 DEF Terminated, vars, loader
  <2> QED BY <1>1, <2>1, SourceSame, HeldSame, RowsElsewhere DEF PretrainInv
<1> QED BY <1>2, <1>3, <1>4, <1>5, <1>6, <1>7, <1>8, <1>9, <1>10, <1>11, <1>12
       DEF Next, Process

(***************************************************************************)
(* What a run has read and what its rows hold, after any number of         *)
(* epochs, crashes and continued runs (ParquetSource.Next,                 *)
(* MarkdownSource.Next, PretrainLoader.next).                              *)
(***************************************************************************)
THEOREM PretrainingInvariance == Spec => []PretrainInv
<1>1. Init => PretrainInv
  BY PretrainStart
<1>2. PretrainInv /\ [Next]_vars => PretrainInv'
  <2>1. CASE UNCHANGED vars
    <3>1. UNCHANGED <<corpus, source, buffer, state, rows, used, stage>>
      BY <2>1 DEF vars, loader
    <3> QED BY <3>1, SourceSame, HeldSame, RowsElsewhere DEF PretrainInv
  <2> QED BY <2>1, PretrainNext
<1> QED BY <1>1, <1>2, PTL DEF Spec

-----------------------------------------------------------------------------
(* Every document is in one place.                                         *)

LEMMA ReadIs ==
  ASSUME SourceInv
  PROVE  {d \in AllDocuments(1..source.epoch) : Exists(d) /\ NotAfter(d, source.last)}
           = {d \in Existing : Before(d)}
<1> DEFINE groups == UNION {DOMAIN corpus.files[f] : f \in DOMAIN corpus.files}
           indices == UNION {UNION {DOMAIN corpus.files[f][g] : g \in DOMAIN corpus.files[f]} :
                               f \in DOMAIN corpus.files}
           all == AllDocuments(1..source.epoch)
<1>1. corpus \in Corpora /\ source.epoch \in Nat
  BY DEF SourceInv, Sources
<1>2. \A f \in DOMAIN corpus.files : \A g \in DOMAIN corpus.files[f] :
        /\ f \in Nat /\ g \in Nat /\ g \in groups
        /\ \A i \in DOMAIN corpus.files[f][g] : i \in Nat /\ i \in indices
  <2> TAKE f \in DOMAIN corpus.files
  <2> TAKE g \in DOMAIN corpus.files[f]
  <2>1. /\ f \in Nat /\ g \in Nat
        /\ \A i \in DOMAIN corpus.files[f][g] : i \in Nat
    <3>1. f \in 1..Len(corpus.files) /\ f \in Nat
      BY <1>1, CorpusIs
    <3>2. g \in 1..Len(corpus.files[f]) /\ g \in Nat
      BY <1>1, <3>1, CorpusIs
    <3>3. DOMAIN corpus.files[f][g] = 1..Len(corpus.files[f][g])
      BY <1>1, <3>1, <3>2, CorpusIs
    <3> QED BY <3>1, <3>2, <3>3
  <2>2. g \in groups
    OBVIOUS
  <2>3. ASSUME NEW i \in DOMAIN corpus.files[f][g]
        PROVE  i \in indices
    <3>1. i \in UNION {DOMAIN corpus.files[f][h] : h \in DOMAIN corpus.files[f]}
      OBVIOUS
    <3> QED BY <3>1
  <2> QED BY <2>1, <2>2, <2>3
<1>3. all = {[epoch |-> e, file |-> f, group |-> g, index |-> i] :
               e \in 1..source.epoch, f \in DOMAIN corpus.files, g \in groups, i \in indices}
  BY DEF AllDocuments
<1> HIDE DEF groups, indices, all
<1>4. ASSUME NEW d \in all, Exists(d)
      PROVE  d \in Existing
  <2>1. PICK e \in 1..source.epoch, f \in DOMAIN corpus.files, g \in groups, i \in indices :
          d = [epoch |-> e, file |-> f, group |-> g, index |-> i]
    BY <1>3
  <2>2. g \in DOMAIN corpus.files[f] /\ i \in DOMAIN corpus.files[f][g]
    BY <1>4, <2>1 DEF Exists
  <2>3. e \in Nat /\ e >= 1 /\ f \in Nat /\ g \in Nat /\ i \in Nat
    BY <1>1, <1>2, <2>2
  <2>4. d \in Docs
    BY <2>1, <2>3 DEF Docs
  <2> QED BY <1>4, <2>1, <2>3, <2>4 DEF Existing
<1>5. ASSUME NEW d \in Existing, Before(d)
      PROVE  d \in all /\ Exists(d)
  <2>1. /\ d \in Docs /\ d.epoch \in Nat /\ d.epoch >= 1 /\ d.file \in DOMAIN corpus.files
        /\ Exists(d)
    BY <1>1, ExistingIs DEF Existing
  <2>2. d.group \in DOMAIN corpus.files[d.file]
        /\ d.index \in DOMAIN corpus.files[d.file][d.group]
    BY <2>1 DEF Exists
  <2>3. d.epoch <= source.epoch
    BY <1>1, <1>5, <2>1 DEF Before
  <2>4. d.epoch \in 1..source.epoch
    BY <1>1, <2>1, <2>3
  <2>5. d.group \in groups /\ d.index \in indices
    BY <1>2, <2>1, <2>2
  <2>6. d = [epoch |-> d.epoch, file |-> d.file, group |-> d.group, index |-> d.index]
    BY <2>1 DEF Docs
  <2> QED BY <1>3, <2>1, <2>4, <2>5, <2>6
<1>6. \A d \in Existing : Before(d) <=> NotAfter(d, source.last)
  BY DEF SourceInv
<1>7. {d \in all : Exists(d) /\ NotAfter(d, source.last)} = {d \in Existing : Before(d)}
  BY <1>4, <1>5, <1>6
<1> QED BY <1>7 DEF all

LEMMA HeldExists ==
  ASSUME SourceInv, HeldInv
  PROVE  ToSet(Held) \subseteq Existing
<1>1. buffer \in Seq(Existing) /\ source.pending \in Seq(Existing)
  BY DEF SourceInv, HeldInv, Sources
<1>2. Held \in Seq(Existing)
  BY <1>1 DEF Held
<1> QED BY <1>2 DEF ToSet

(***************************************************************************)
(* In a run, every document of the groups read so far is in exactly one    *)
(* place: packed, buffered or pending; none is read twice in an epoch, and  *)
(* the position the loader reports covers all it has been given            *)
(* (ParquetSource.Next, MarkdownSource.Next, PretrainLoader.refill).       *)
(***************************************************************************)
THEOREM PretrainingDocuments == Spec => []DocumentsAccounted
<1>1. PretrainInv => DocumentsAccounted
  <2> SUFFICES ASSUME PretrainInv
               PROVE  DocumentsAccounted
    OBVIOUS
  <2> DEFINE read == {d \in AllDocuments(1..source.epoch) :
                        Exists(d) /\ NotAfter(d, source.last)}
  <2>1. SourceInv /\ HeldInv
    BY DEF PretrainInv
  <2>2. read = {d \in Existing : Before(d)}
    BY <2>1, ReadIs
  <2>3. used \cup ToSet(Held) \subseteq Existing
    BY <2>1, HeldExists DEF HeldInv
  <2>4. \A d \in Existing : d \in used \cup ToSet(Held) <=> Before(d)
    BY <2>1 DEF HeldInv
  <2> HIDE DEF read
  <2>5. used \cup ToSet(Held) = read
    BY <2>2, <2>3, <2>4
  <2>6. /\ IsInjective(Held) /\ used \cap ToSet(Held) = {}
        /\ \A d \in used \cup ToSet(buffer) : NotAfter(d, state)
    BY <2>1 DEF HeldInv
  <2> QED BY <2>5, <2>6 DEF DocumentsAccounted, Held, read
<1> QED BY <1>1, PretrainingInvariance, PTL

-----------------------------------------------------------------------------
(* The tokens of a row.                                                    *)

Takens(row) == [p \in DOMAIN row |-> row[p].taken]
Ends(row) == PrefixSums(Takens(row))
Token(row, p, t) == [doc |-> row[p].doc, offset |-> t - 1, segment |-> p - 1]
PieceTokens(row) == [p \in DOMAIN row |-> [t \in 1..row[p].taken |-> Token(row, p, t)]]

LEMMA PiecesAre ==
  ASSUME NEW D, NEW row \in Seq([doc : D, taken : Nat])
  PROVE  /\ Len(row) \in Nat /\ DOMAIN row = 1..Len(row)
         /\ \A p \in 1..Len(row) : row[p].doc \in D /\ row[p].taken \in Nat
<1> DEFINE R == [doc : D, taken : Nat]
<1>1. row \in Seq(R) /\ \A piece \in R : piece.doc \in D /\ piece.taken \in Nat
  OBVIOUS
<1> HIDE DEF R
<1>2. Len(row) \in Nat /\ DOMAIN row = 1..Len(row) /\ \A p \in 1..Len(row) : row[p] \in R
  BY <1>1
<1> QED BY <1>1, <1>2

LEMMA EndsAre ==
  ASSUME NEW D, NEW row \in Seq([doc : D, taken : Nat])
  PROVE  /\ Ends(row)[0] = 0 /\ Ends(row)[Len(row)] = Packed(row)
         /\ \A k \in 0..Len(row) : Ends(row)[k] \in Int
         /\ \A k \in 1..Len(row) : Ends(row)[k] = Ends(row)[k - 1] + row[k].taken
<1> DEFINE T == Takens(row)
<1>1. T \in Seq(Int) /\ Len(T) = Len(row)
  BY PackedIs DEF Takens
<1>2. \A k \in 1..Len(row) : T[k] = row[k].taken
  BY PiecesAre DEF Takens
<1>3. Packed(row) = Total(T)
  BY DEF Packed, Takens
<1> HIDE DEF T
<1>4. /\ PrefixSums(T) \in [0..Len(row) -> Int] /\ PrefixSums(T)[0] = 0
      /\ \A k \in 1..Len(row) : PrefixSums(T)[k] = PrefixSums(T)[k - 1] + T[k]
  BY <1>1, PrefixSumsDef
<1>5. Packed(row) = PrefixSums(T)[Len(row)]
  BY <1>1, <1>3 DEF Total
<1>6. Ends(row) = PrefixSums(T)
  BY DEF Ends, T
<1> QED BY <1>2, <1>4, <1>5, <1>6

(***************************************************************************)
(* A row holds its pieces' tokens one piece after the other.               *)
(***************************************************************************)
LEMMA RowTokensAre ==
  ASSUME NEW D, NEW row \in Seq([doc : D, taken : Nat])
  PROVE  /\ RowTokens(row) \in Seq([doc : D, offset : Nat, segment : Nat])
         /\ Len(RowTokens(row)) = Packed(row)
         /\ \A p \in 1..Len(row) : \A t \in 1..row[p].taken :
              /\ Ends(row)[p - 1] + t \in 1..Packed(row)
              /\ RowTokens(row)[Ends(row)[p - 1] + t] = Token(row, p, t)
         /\ \A i \in 1..Packed(row) :
              \E p \in 1..Len(row) : \E t \in 1..row[p].taken : i = Ends(row)[p - 1] + t
         /\ \A p \in 1..Len(row) : Ends(row)[p - 1] \in Nat
<1> DEFINE n == Len(row)
           E == Ends(row)
           Tokens == [doc : D, offset : Nat, segment : Nat]
           V == Seq(Tokens)
           s == PieceTokens(row)
           taken(p) == row[p].taken
<1>1. n \in Nat /\ DOMAIN row = 1..n /\ \A p \in 1..n : row[p].doc \in D /\ taken(p) \in Nat
  BY PiecesAre
<1>2. /\ E[0] = 0 /\ E[n] = Packed(row) /\ \A k \in 0..n : E[k] \in Int
      /\ \A k \in 1..n : E[k] = E[k - 1] + taken(k)
  BY EndsAre
<1> HIDE DEF E, n, taken
<1>3. \A p \in 1..n : \A t \in 1..taken(p) : Token(row, p, t) \in Tokens
  BY <1>1 DEF Token
<1>4. /\ DOMAIN s = 1..n
      /\ \A p \in 1..n : s[p] = [t \in 1..taken(p) |-> Token(row, p, t)]
  BY <1>1 DEF PieceTokens, taken
<1> HIDE DEF s, Tokens
<1>5. \A p \in 1..n : /\ s[p] \in V /\ Len(s[p]) = taken(p)
                      /\ \A t \in 1..taken(p) : s[p][t] = Token(row, p, t)
  <2> TAKE p \in 1..n
  <2>1. taken(p) \in Nat /\ s[p] = [t \in 1..taken(p) |-> Token(row, p, t)]
        /\ \A t \in 1..taken(p) : Token(row, p, t) \in Tokens
    BY <1>1, <1>3, <1>4
  <2> QED BY <2>1
<1>6. s \in Seq(V) /\ Len(s) = n
  <2> HIDE DEF V
  <2>1. s = [p \in 1..n |-> s[p]]
    BY <1>4 DEF s, PieceTokens
  <2>2. n \in Nat /\ \A p \in 1..n : s[p] \in V
    BY <1>1, <1>5
  <2> QED BY <2>1, <2>2
<1>7. RowTokens(row) = FlattenSeq(s)
  BY DEF RowTokens, s, PieceTokens, Token
<1>8. PICK G \in [0..n -> V] :
        /\ G[0] = << >>
        /\ \A k \in 1..n : G[k] = G[k - 1] \o s[k]
        /\ RowTokens(row) = G[n]
  BY <1>6, <1>7, FlattenDef
<1> DEFINE At(k) ==
      /\ Len(G[k]) = E[k] /\ E[k] \in Nat
      /\ \A p \in 1..k : /\ E[p - 1] \in Nat
                         /\ \A t \in 1..taken(p) : /\ E[p - 1] + t \in 1..E[k]
                                                   /\ G[k][E[p - 1] + t] = Token(row, p, t)
      /\ \A i \in 1..E[k] : \E p \in 1..k : \E t \in 1..taken(p) : i = E[p - 1] + t
<1>9. At(0)
  BY <1>2, <1>8
<1>10. ASSUME NEW k \in Nat, k + 1 \in 1..n, At(k)
       PROVE  At(k + 1)
  <2> DEFINE next == k + 1
             m == taken(next)
  <2>1. /\ next \in 1..n /\ next - 1 = k /\ k \in 0..n /\ next \in 0..n /\ m \in Nat
        /\ \A p \in 1..next : p = next \/ p \in 1..k
        /\ \A p \in 1..k : p \in 1..next
    BY <1>1, <1>10
  <2>2. E[next] = E[k] + m /\ G[next] = G[k] \o s[next]
    BY <1>2, <1>8, <2>1
  <2>3. G[k] \in V /\ s[next] \in V /\ Len(G[k]) = E[k] /\ E[k] \in Nat /\ Len(s[next]) = m
    BY <1>5, <1>8, <1>10, <2>1
  <2>4. /\ Len(G[k] \o s[next]) = E[k] + m
        /\ \A i \in 1..E[k] : (G[k] \o s[next])[i] = G[k][i]
        /\ \A t \in 1..m : (G[k] \o s[next])[E[k] + t] = s[next][t]
    <3> DEFINE u == G[k]
               v == s[next]
    <3>1. u \in Seq(Tokens) /\ v \in Seq(Tokens) /\ Len(u) = E[k] /\ Len(v) = m
      BY <2>3 DEF V
    <3> HIDE DEF u, v
    <3>2. /\ Len(u \o v) = Len(u) + Len(v)
          /\ \A i \in 1..(Len(u) + Len(v)) :
               (u \o v)[i] = IF i <= Len(u) THEN u[i] ELSE v[i - Len(u)]
      BY <3>1, ConcatProperties
    <3>3. \A i \in 1..E[k] : i \in 1..(Len(u) + Len(v)) /\ i <= Len(u)
      BY <2>1, <2>3, <3>1
    <3>4. \A t \in 1..m : /\ E[k] + t \in 1..(Len(u) + Len(v))
                           /\ ~(E[k] + t <= Len(u)) /\ (E[k] + t) - Len(u) = t
      BY <2>1, <2>3, <3>1
    <3> QED BY <3>1, <3>2, <3>3, <3>4 DEF u, v
  <2>5. /\ Len(G[next]) = E[next] /\ E[next] \in Nat
        /\ \A i \in 1..E[k] : i \in 1..E[next] /\ G[next][i] = G[k][i]
        /\ \A t \in 1..m : E[k] + t \in 1..E[next] /\ G[next][E[k] + t] = s[next][t]
    BY <2>1, <2>2, <2>3, <2>4, SMTT(30)
  <2> HIDE DEF next, m
  <2>6. ASSUME NEW p \in 1..next
        PROVE  /\ E[p - 1] \in Nat
               /\ \A t \in 1..taken(p) : /\ E[p - 1] + t \in 1..E[next]
                                         /\ G[next][E[p - 1] + t] = Token(row, p, t)
    <3>1. CASE p = next
      BY <1>5, <2>1, <2>3, <2>5, <3>1 DEF m
    <3>2. CASE p \in 1..k
      BY <1>10, <2>5, <3>2
    <3> QED BY <2>1, <3>1, <3>2
  <2>7. ASSUME NEW i \in 1..E[next]
        PROVE  \E p \in 1..next : \E t \in 1..taken(p) : i = E[p - 1] + t
    <3>1. CASE i \in 1..E[k]
      BY <1>10, <2>1, <3>1
    <3>2. CASE i \notin 1..E[k]
      <4>1. i - E[k] \in 1..m /\ i = E[k] + (i - E[k])
        BY <2>1, <2>2, <2>3, <3>2
      <4>2. next \in 1..next
        BY <2>1
      <4> QED BY <2>1, <4>1, <4>2 DEF m
    <3> QED BY <3>1, <3>2
  <2> QED BY <2>5, <2>6, <2>7 DEF next
<1> DEFINE S == {k \in Nat : k \in 0..n => At(k)}
<1> HIDE DEF At
<1>11. 0 \in S /\ \A k \in Nat : k \in S => k + 1 \in S
  <2>1. \A k \in Nat : k + 1 \in 0..n => k \in 0..n /\ k + 1 \in 1..n
    BY <1>1
  <2> QED BY <1>9, <1>10, <2>1
<1> HIDE DEF S
<1>12. n \in S
  BY <1>1, <1>11, SetInduction
<1>13. At(n)
  BY <1>1, <1>12 DEF S
<1>14. RowTokens(row) \in V
  BY <1>1, <1>8
<1> QED BY <1>2, <1>8, <1>13, <1>14 DEF At, E, n, taken, Tokens

(***************************************************************************)
(* A full row reads on within a piece and from a piece's end into the next. *)
(***************************************************************************)
LEMMA RowReadsOn ==
  ASSUME corpus \in Corpora, NEW docs, NEW row \in Seq(Pieces),
         RowOK(corpus.files, docs, row), Packed(row) = Capacity
  PROVE  /\ Len(RowTokens(row)) = Capacity
         /\ RowTokens(row)[1].offset = 0
         /\ \A i \in 1..SequenceLength :
              IF Targets(row)[i].segment = Inputs(row)[i].segment
              THEN Targets(row)[i] = [Inputs(row)[i] EXCEPT !.offset = @ + 1]
              ELSE /\ Targets(row)[i].offset = 0
                   /\ Inputs(row)[i].offset + 1 = Length(Inputs(row)[i].doc)
         /\ \A i, j \in 1..SequenceLength :
              Inputs(row)[i].segment = Inputs(row)[j].segment <=>
                Inputs(row)[i].doc = Inputs(row)[j].doc
<1> DEFINE n == Len(row)
           tokens == RowTokens(row)
           start(p) == Ends(row)[p - 1]
           taken(p) == row[p].taken
<1>1. /\ n \in Nat /\ DOMAIN row = 1..n
      /\ \A p \in 1..n : row[p].doc \in Existing /\ taken(p) \in Nat
  BY PiecesAre DEF Pieces
<1>2. /\ \A p \in 1..n : /\ taken(p) >= 1
                         /\ p < n => taken(p) = Length(row[p].doc)
      /\ \A p, q \in 1..n : row[p].doc = row[q].doc => p = q
  BY DEF RowOK, Size, Length
<1>3. /\ tokens \in Seq([doc : Existing, offset : Nat, segment : Nat])
      /\ Len(tokens) = Capacity
      /\ \A p \in 1..n : \A t \in 1..taken(p) : /\ start(p) + t \in 1..Capacity
                                                /\ tokens[start(p) + t] = Token(row, p, t)
      /\ \A i \in 1..Capacity : \E p \in 1..n : \E t \in 1..taken(p) : i = start(p) + t
      /\ \A p \in 1..n : start(p) \in Nat
  BY RowTokensAre DEF Pieces
<1>4. /\ \A p \in 1..n : start(p) + taken(p) = Ends(row)[p]
      /\ Ends(row)[n] = Capacity
  <2>1. \A p \in 1..n : Ends(row)[p] = start(p) + taken(p)
    BY EndsAre DEF Pieces
  <2>2. Ends(row)[n] = Capacity
    BY EndsAre DEF Pieces
  <2> QED BY <2>1, <2>2
<1>5. SequenceLength \in Nat \ {0} /\ Capacity = SequenceLength + 1
  BY PretrainingConstants DEF Capacity
<1>6. /\ \A i \in 1..SequenceLength : Inputs(row)[i] = tokens[i]
      /\ \A i \in 1..SequenceLength : Targets(row)[i] = tokens[i + 1]
  <2> DEFINE R == [doc : Existing, offset : Nat, segment : Nat]
  <2>1. tokens \in Seq(R) /\ Len(tokens) = Capacity
    BY <1>3
  <2> HIDE DEF R, tokens
  <2>2. \A i \in 1..SequenceLength : SubSeq(tokens, 1, SequenceLength)[i] = tokens[i]
    BY <1>5, <2>1
  <2>3. \A i \in 1..SequenceLength : SubSeq(tokens, 2, Capacity)[i] = tokens[i + 1]
    BY <1>5, <2>1
  <2> QED BY <2>2, <2>3 DEF Inputs, Targets, tokens
<1> HIDE DEF n, tokens, start, taken
<1>7. tokens[1].offset = 0
  <2>1. 1 \in 1..Capacity
    BY <1>5
  <2>2. PICK p \in 1..n : \E t \in 1..taken(p) : 1 = start(p) + t
    BY <1>3, <2>1
  <2>3. PICK t \in 1..taken(p) : 1 = start(p) + t
    BY <2>2
  <2>4. t = 1
    BY <1>1, <1>3, <2>3
  <2>5. tokens[1] = Token(row, p, 1)
    BY <1>3, <2>3, <2>4
  <2> QED BY <2>5 DEF Token
<1>8. ASSUME NEW i \in 1..SequenceLength
      PROVE  IF tokens[i + 1].segment = tokens[i].segment
             THEN tokens[i + 1] = [tokens[i] EXCEPT !.offset = @ + 1]
             ELSE /\ tokens[i + 1].offset = 0
                  /\ tokens[i].offset + 1 = Length(tokens[i].doc)
  <2>1. i \in 1..Capacity /\ i \in Nat
    BY <1>5
  <2>2. PICK p \in 1..n : \E t \in 1..taken(p) : i = start(p) + t
    BY <1>3, <2>1
  <2>3. PICK t \in 1..taken(p) : i = start(p) + t
    BY <2>2
  <2>4. /\ tokens[i] = Token(row, p, t) /\ start(p) \in Nat /\ taken(p) \in Nat
        /\ t \in Nat /\ p \in Nat
    BY <1>1, <1>3, <2>3
  <2>5. CASE t # taken(p)
    <3>1. t + 1 \in 1..taken(p) /\ i + 1 = start(p) + (t + 1)
      BY <2>3, <2>4, <2>5
    <3>2. tokens[i + 1] = Token(row, p, t + 1)
      BY <1>3, <3>1
    <3>3. (t + 1) - 1 = (t - 1) + 1
      BY <2>4
    <3> QED BY <2>4, <3>2, <3>3 DEF Token
  <2>6. CASE t = taken(p)
    <3>1. i = Ends(row)[p] /\ p # n
      <4>1. i = Ends(row)[p]
        BY <1>4, <2>3, <2>6
      <4>2. i # Capacity
        BY <1>5
      <4> QED BY <1>4, <4>1, <4>2
    <3>2. p + 1 \in 1..n /\ p < n /\ (p + 1) - 1 = p /\ p # p - 1
      BY <1>1, <2>3, <3>1
    <3>3. 1 \in 1..taken(p + 1)
      BY <1>1, <1>2, <3>2
    <3>4. start(p + 1) = i
      BY <3>1, <3>2 DEF start
    <3>5. tokens[i + 1] = Token(row, p + 1, 1)
      BY <1>3, <3>2, <3>3, <3>4
    <3>6. tokens[i + 1].segment = p /\ tokens[i + 1].offset = 0
      BY <3>2, <3>5 DEF Token
    <3>7. /\ tokens[i].segment = p - 1 /\ tokens[i].offset = t - 1
          /\ tokens[i].doc = row[p].doc
      BY <2>4 DEF Token
    <3>8. (t - 1) + 1 = Length(row[p].doc)
      BY <1>2, <2>4, <2>6, <3>2
    <3> QED BY <3>2, <3>6, <3>7, <3>8
  <2> QED BY <2>5, <2>6
<1>9. ASSUME NEW i \in 1..SequenceLength, NEW j \in 1..SequenceLength
      PROVE  tokens[i].segment = tokens[j].segment <=> tokens[i].doc = tokens[j].doc
  <2>1. i \in 1..Capacity /\ j \in 1..Capacity
    BY <1>5
  <2>2. PICK p \in 1..n : \E t \in 1..taken(p) : i = start(p) + t
    BY <1>3, <2>1
  <2>3. PICK t \in 1..taken(p) : i = start(p) + t
    BY <2>2
  <2>4. PICK q \in 1..n : \E u \in 1..taken(q) : j = start(q) + u
    BY <1>3, <2>1
  <2>5. PICK u \in 1..taken(q) : j = start(q) + u
    BY <2>4
  <2>6. tokens[i] = Token(row, p, t) /\ tokens[j] = Token(row, q, u)
    BY <1>3, <2>3, <2>5
  <2>7. /\ tokens[i].segment = p - 1 /\ tokens[i].doc = row[p].doc
        /\ tokens[j].segment = q - 1 /\ tokens[j].doc = row[q].doc
    BY <2>6 DEF Token
  <2>8. p - 1 = q - 1 <=> p = q
    BY <1>1
  <2> QED BY <1>2, <2>7, <2>8
<1>10. \A i \in 1..SequenceLength :
         IF Targets(row)[i].segment = Inputs(row)[i].segment
         THEN Targets(row)[i] = [Inputs(row)[i] EXCEPT !.offset = @ + 1]
         ELSE /\ Targets(row)[i].offset = 0
              /\ Inputs(row)[i].offset + 1 = Length(Inputs(row)[i].doc)
  BY <1>6, <1>8
<1>11. \A i, j \in 1..SequenceLength :
         Inputs(row)[i].segment = Inputs(row)[j].segment <=>
           Inputs(row)[i].doc = Inputs(row)[j].doc
  BY <1>6, <1>9
<1> QED BY <1>3, <1>7, <1>10, <1>11 DEF tokens

(***************************************************************************)
(* Every row a batch delivers is full, begins with a document's BOS, and   *)
(* runs through whole documents with only its last one cut, each under a   *)
(* segment of its own; each target is the token after its input            *)
(* (PretrainLoader.next).                                                  *)
(***************************************************************************)
THEOREM PretrainingRows == Spec => []RowsPacked
<1>1. PretrainInv => RowsPacked
  <2> SUFFICES ASSUME PretrainInv, stage = "optimize"
               PROVE  \A r \in DOMAIN rows :
                        /\ rows[r] \in Seq(Pieces) /\ RowOK(corpus.files, used, rows[r])
                        /\ Packed(rows[r]) = Capacity
    BY RowReadsOn DEF RowsPacked, PretrainInv, SourceInv
  <2>1. RowsInv
    BY DEF PretrainInv
  <2>2. Len(rows) \in Nat /\ DOMAIN rows = 1..Len(rows)
    BY <2>1, RowIs
  <2> DEFINE R == Seq(Pieces)
  <2>3. rows \in Seq(R)
    BY <2>1 DEF RowsInv
  <2> HIDE DEF R
  <2> TAKE r \in DOMAIN rows
  <2>4. r \in 1..Len(rows) /\ rows[r] \in R
    BY <2>2, <2>3
  <2>5. RowOK(corpus.files, used, rows[r])
    BY <2>1, <2>4 DEF RowsInv
  <2>6. Packed(rows[r]) = Capacity
    <3>1. CASE r = Len(rows)
      BY <2>1, <3>1 DEF RowsInv, Row
    <3>2. CASE r # Len(rows)
      <4>1. r \in 1..(Len(rows) - 1)
        BY <2>2, <2>4, <3>2
      <4> QED BY <2>1, <4>1 DEF RowsInv
    <3> QED BY <3>1, <3>2
  <2> QED BY <2>4, <2>5, <2>6 DEF R
<1> QED BY <1>1, PretrainingInvariance, PTL

-----------------------------------------------------------------------------
(* The mixture of experts.                                                 *)

(***************************************************************************)
(* Sets that are in a correspondence are of the same size.                 *)
(***************************************************************************)
LEMMA SameSize ==
  ASSUME NEW S, IsFiniteSet(S), NEW T, NEW f \in [S -> T],
         \A y \in T : \E x \in S : f[x] = y,
         \A x, y \in S : f[x] = f[y] => x = y
  PROVE  IsFiniteSet(T) /\ Cardinality(T) = Cardinality(S)
<1>1. f \in Surjection(S, T)
  BY DEF Surjection
<1>2. f \in Injection(S, T)
  BY DEF Injection, IsInjective
<1> QED BY <1>1, <1>2, FS_Surjection

\* A list of n visits: every pair of a row and a slot, once.
Enumerates(visits, n, R, k) ==
  /\ DOMAIN visits = 1 .. n
  /\ \A i \in 1 .. n : visits[i] \in (1 .. R) \X (1 .. k)
  /\ \A i, j \in 1 .. n : visits[i] = visits[j] => i = j
  /\ \A r \in 1 .. R, s \in 1 .. k : \E i \in 1 .. n : visits[i] = <<r, s>>

(***************************************************************************)
(* The visits of the loops are the pairs of a row and a slot, once each.   *)
(***************************************************************************)
LEMMA VisitsAre ==
  ASSUME NEW R \in Nat, NEW k \in Nat \ {0}
  PROVE  R * k \in Nat /\ Enumerates(Visits(R, k), R * k, R, k)
<1> DEFINE n == R * k
           visits == Visits(R, k)
<1>1. n \in Nat
  OBVIOUS
<1>2. DOMAIN visits = 1 .. n /\ \A i \in 1 .. n : visits[i] = <<((i - 1) \div k) + 1, ((i - 1) % k) + 1>>
  BY DEF Visits
<1>3. ASSUME NEW i \in 1 .. n
      PROVE  \E row \in 1 .. R, slot \in 1 .. k : visits[i] = <<row, slot>> /\ i = (row - 1) * k + slot
  <2>1. PICK q \in Int, r \in 0 .. (k - 1) : q = (i - 1) \div k /\ r = (i - 1) % k /\ i - 1 = q * k + r
    BY <1>1
  <2>2. q \in 0 .. R - 1
    <3>1. ~(q >= R)
      <4> SUFFICES ASSUME q >= R PROVE FALSE
        OBVIOUS
      <4>1. q * k >= R * k
        OBVIOUS
      <4> QED BY <1>1, <2>1, <4>1
    <3>2. ~(q < 0)
      <4> SUFFICES ASSUME q < 0 PROVE FALSE
        OBVIOUS
      <4>1. q * k <= (-1) * k
        OBVIOUS
      <4> QED BY <1>1, <2>1, <4>1
    <3> QED BY <3>1, <3>2
  <2>3. q + 1 \in 1 .. R /\ r + 1 \in 1 .. k /\ i = ((q + 1) - 1) * k + (r + 1)
    BY <1>1, <2>1, <2>2
  <2>4. visits[i] = <<q + 1, r + 1>>
    BY <1>2, <2>1
  <2> QED BY <2>3, <2>4
<1>4. ASSUME NEW row \in 1 .. R, NEW slot \in 1 .. k
      PROVE  \E i \in 1 .. n : visits[i] = <<row, slot>>
  <2>1. PICK a \in Nat : a = (row - 1) * k
    OBVIOUS
  <2>2. a + k <= R * k
    <3>1. row * k <= R * k
      OBVIOUS
    <3>2. a + k = row * k
      BY <2>1
    <3> QED BY <3>1, <3>2, <2>1
  <2>3. a + slot \in 1 .. n
    BY <1>1, <2>1, <2>2
  <2>4. ((a + slot) - 1) \div k = row - 1 /\ ((a + slot) - 1) % k = slot - 1
    BY <2>1
  <2>5. visits[a + slot] = <<row, slot>>
    <3>1. visits[a + slot] = <<(((a + slot) - 1) \div k) + 1, (((a + slot) - 1) % k) + 1>>
      BY <1>2, <2>3
    <3>2. (row - 1) + 1 = row /\ (slot - 1) + 1 = slot
      OBVIOUS
    <3> QED BY <3>1, <3>2, <2>4
  <2> HIDE DEF visits
  <2> QED BY <2>3, <2>5
<1> HIDE DEF visits, n
<1>5. ASSUME NEW i \in 1 .. n, NEW j \in 1 .. n, visits[i] = visits[j]
      PROVE  i = j
  <2>1. PICK row \in 1 .. R, slot \in 1 .. k : visits[i] = <<row, slot>> /\ i = (row - 1) * k + slot
    BY <1>3
  <2>2. PICK row2 \in 1 .. R, slot2 \in 1 .. k : visits[j] = <<row2, slot2>> /\ j = (row2 - 1) * k + slot2
    BY <1>3
  <2>3. <<row, slot>> = <<row2, slot2>>
    BY <1>5, <2>1, <2>2
  <2>4. row = row2 /\ slot = slot2
    BY <2>3
  <2> QED BY <2>1, <2>2, <2>4
<1>6. \A i \in 1 .. n : visits[i] \in (1 .. R) \X (1 .. k)
  <2> TAKE i \in 1 .. n
  <2>1. PICK row \in 1 .. R, slot \in 1 .. k : visits[i] = <<row, slot>>
    BY <1>3
  <2>2. <<row, slot>> \in (1 .. R) \X (1 .. k)
    OBVIOUS
  <2> QED BY <2>1, <2>2
<1>7. Enumerates(visits, n, R, k)
  BY <1>2, <1>4, <1>5, <1>6 DEF Enumerates
<1> QED BY <1>1, <1>7 DEF visits, n

\* The visits that chose an expert, and those that chose one before it.
Choosing(c, e) == { i \in DOMAIN c : c[i] = e }
Under(c, e) == { i \in DOMAIN c : c[i] < e }

\* The counts of n visits and the offsets they give.
Counted(counts, c, n, E) ==
  /\ counts \in Seq(Nat) /\ Len(counts) = E
  /\ \A e \in 1 .. E : Offsets(counts)[e] = Cardinality(Under(c, e))
  /\ \A e \in 1 .. E : Cardinality(Under(c, e + 1)) = Cardinality(Under(c, e)) + counts[e]
  /\ \A e \in 1 .. E + 1 : Cardinality(Under(c, e)) \in Nat
  /\ Total(counts) = n

(***************************************************************************)
(* Where the rows of an expert begin: after all the visits of those before *)
(* it.                                                                     *)
(***************************************************************************)
LEMMA OffsetsAre ==
  ASSUME NEW n \in Nat, NEW E \in Nat, NEW c \in [1 .. n -> 1 .. E],
         NEW counts, counts = [e \in 1 .. E |-> Cardinality(Choosing(c, e))]
  PROVE  Counted(counts, c, n, E)
<1>1. IsFiniteSet(1 .. n) /\ Cardinality(1 .. n) = n
  BY FS_Interval
<1>2. ASSUME NEW e \in Int
      PROVE  /\ IsFiniteSet(Under(c, e)) /\ IsFiniteSet(Choosing(c, e))
             /\ Cardinality(Under(c, e)) \in Nat /\ Cardinality(Choosing(c, e)) \in Nat
             /\ Cardinality(Under(c, e + 1)) = Cardinality(Under(c, e)) + Cardinality(Choosing(c, e))
  <2>1. Under(c, e) \in SUBSET (1 .. n) /\ Choosing(c, e) \in SUBSET (1 .. n)
    BY DEF Under, Choosing
  <2>2. IsFiniteSet(Under(c, e)) /\ IsFiniteSet(Choosing(c, e))
    BY <1>1, <2>1, FS_Subset
  <2>3. Cardinality(Under(c, e)) \in Nat /\ Cardinality(Choosing(c, e)) \in Nat
    BY <2>2, FS_CardinalityType
  <2>4. Under(c, e) \cap Choosing(c, e) = {}
    BY DEF Under, Choosing
  <2>5. Under(c, e + 1) = Under(c, e) \cup Choosing(c, e)
    BY DEF Under, Choosing
  <2>6. Cardinality(Under(c, e) \cup Choosing(c, e))
          = Cardinality(Under(c, e)) + Cardinality(Choosing(c, e)) - Cardinality(Under(c, e) \cap Choosing(c, e))
    BY <2>2, FS_Union
  <2>7. Cardinality(Under(c, e) \cap Choosing(c, e)) = 0
    BY <2>4, FS_EmptySet
  <2>8. Cardinality(Under(c, e + 1)) = Cardinality(Under(c, e)) + Cardinality(Choosing(c, e)) - 0
    BY <2>5, <2>6, <2>7
  <2> QED BY <2>2, <2>3, <2>8
<1>3. counts \in Seq(Nat) /\ Len(counts) = E /\ DOMAIN counts = 1 .. E
  <2>1. \A e \in 1 .. E : Cardinality(Choosing(c, e)) \in Nat
    <3> TAKE e \in 1 .. E
    <3>1. e \in Int
      OBVIOUS
    <3> QED BY <1>2, <3>1
  <2>2. counts \in [1 .. E -> Nat]
    BY <2>1
  <2> QED BY <2>2
<1>4. \A e \in 1 .. E : Cardinality(Under(c, e + 1)) = Cardinality(Under(c, e)) + counts[e]
  BY <1>2
<1> DEFINE P == PrefixSums(counts)
           Begins(e) == P[e] = Cardinality(Under(c, e + 1))
           S == { e \in Nat : e <= E => Begins(e) }
<1>5. /\ P \in [0 .. E -> Int] /\ P[0] = 0
      /\ \A e \in 1 .. E : P[e] = P[e - 1] + counts[e]
  <2>1. counts \in Seq(Int)
    BY <1>3
  <2> QED BY <1>3, <2>1, PrefixSumsDef
<1> HIDE DEF P
<1>6. 0 \in S
  <2>1. Under(c, 0 + 1) = {}
    BY DEF Under
  <2> QED BY <1>5, <2>1, FS_EmptySet
<1>7. ASSUME NEW e \in Nat, e \in S PROVE e + 1 \in S
  <2> SUFFICES ASSUME e + 1 <= E PROVE Begins(e + 1)
    OBVIOUS
  <2>1. Begins(e) /\ e + 1 \in 1 .. E /\ (e + 1) - 1 = e
    BY <1>7
  <2>2. P[e + 1] = P[e] + counts[e + 1]
    BY <1>5, <2>1
  <2>3. Cardinality(Under(c, (e + 1) + 1)) = Cardinality(Under(c, e + 1)) + counts[e + 1]
    BY <1>4, <2>1
  <2> QED BY <2>1, <2>2, <2>3
<1>8. \A e \in 0 .. E : Begins(e)
  <2> HIDE DEF Begins
  <2>1. \A e \in Nat : e \in S
    <3> HIDE DEF S
    <3>1. S \subseteq Nat
      BY DEF S
    <3> QED BY <1>6, <1>7, <3>1, SetInduction
  <2> QED BY <2>1
<1>9. \A e \in 1 .. E : Offsets(counts)[e] = Cardinality(Under(c, e))
  <2> TAKE e \in 1 .. E
  <2>1. Offsets(counts)[e] = P[e - 1]
    BY <1>3 DEF Offsets, P
  <2>2. Begins(e - 1) /\ (e - 1) + 1 = e
    BY <1>8
  <2> QED BY <2>1, <2>2
<1>10. Total(counts) = n
  <2>1. Total(counts) = P[E]
    BY <1>3 DEF Total, P
  <2>2. Under(c, E + 1) = 1 .. n
    BY DEF Under
  <2>3. Begins(E)
    BY <1>8
  <2> QED BY <1>1, <2>1, <2>2, <2>3
<1>11. \A e \in 1 .. E + 1 : Cardinality(Under(c, e)) \in Nat
  <2> TAKE e \in 1 .. E + 1
  <2>1. e \in Int
    OBVIOUS
  <2> QED BY <1>2, <2>1
<1> QED BY <1>3, <1>4, <1>9, <1>10, <1>11 DEF Counted

\* A list of k experts, none of them twice, is the set of those picked.
Gates(list, picked, E, k) ==
  /\ list \in [1 .. k -> 1 .. E]
  /\ \A s, t \in 1 .. k : list[s] = list[t] => s = t
  /\ picked = { list[slot] : slot \in 1 .. k }
  /\ Cardinality(picked) = k

(***************************************************************************)
(* The gate lists the experts that no other one beats, each once.          *)
(***************************************************************************)
LEMMA GateIs ==
  ASSUME NEW E \in Nat \ {0}, NEW v \in [1 .. E -> Int], NEW k \in 1 .. E
  PROVE  Gates(TopKIndices(v, k), Best(v, k), E, k)
<1> DEFINE order == TopKIndices(v, k)
           C == { order[slot] : slot \in 1 .. k }
           P(S) == Cardinality(S) = k /\ \A e \in S, f \in (1 .. E) \ S : Ahead(v, e, f)
<1>1. DOMAIN v = 1 .. E /\ Len(v) = E /\ \A e \in 1 .. E : v[e] \in Int
  OBVIOUS
<1>2. Min({k, Len(v)}) = k
  BY <1>1 DEF Min
<1>3. order = [slot \in 1 .. k |-> CHOOSE e \in 1 .. E : Rank(v, e) = slot - 1]
  BY <1>1, <1>2 DEF TopKIndices, Rank, Ahead
<1>4. ASSUME NEW slot \in 1 .. k
      PROVE  order[slot] \in 1 .. E /\ Rank(v, order[slot]) = slot - 1
  <2>1. \E e \in 1 .. E : Rank(v, e) = slot - 1
    BY Ranks
  <2>2. order[slot] = CHOOSE e \in 1 .. E : Rank(v, e) = slot - 1
    BY <1>3
  <2> QED BY <2>1, <2>2
<1>5. DOMAIN order = 1 .. k
  BY <1>3
<1> HIDE DEF order
<1>6. \A s, t \in 1 .. k : order[s] = order[t] => s = t
  <2> TAKE s, t \in 1 .. k
  <2>1. Rank(v, order[s]) = s - 1 /\ Rank(v, order[t]) = t - 1
    BY <1>4
  <2> QED BY <2>1
<1>7. IsFiniteSet(C) /\ Cardinality(C) = k
  <2>1. order \in [1 .. k -> C]
    <3> DEFINE D == 1 .. k
    <3>1. order = [slot \in D |-> order[slot]]
      BY <1>3 DEF order
    <3> QED BY <3>1
  <2>2. IsFiniteSet(1 .. k) /\ Cardinality(1 .. k) = k
    BY FS_Interval
  <2>3. \A y \in C : \E slot \in 1 .. k : order[slot] = y
    OBVIOUS
  <2> HIDE DEF C
  <2> QED BY <1>6, <2>1, <2>2, <2>3, SameSize
<1>8. C \in SUBSET (1 .. E)
  BY <1>4
<1>9. P(C)
  <2> SUFFICES ASSUME NEW e \in C, NEW f \in (1 .. E) \ C PROVE Ahead(v, e, f)
    BY <1>7
  <2>1. PICK s \in 1 .. k : e = order[s]
    OBVIOUS
  <2>2. e \in 1 .. E /\ Rank(v, e) = s - 1
    BY <1>4, <2>1
  <2>3. Rank(v, f) \in 0 .. E - 1
    BY Ranks
  <2>4. Rank(v, f) >= k
    <3> SUFFICES ASSUME Rank(v, f) < k PROVE FALSE
      BY <2>3
    <3>1. Rank(v, f) + 1 \in 1 .. k
      BY <2>3
    <3>2. PICK t \in 1 .. k : t - 1 = Rank(v, f)
      BY <2>3, <3>1
    <3>3. order[t] \in 1 .. E /\ Rank(v, order[t]) = Rank(v, f)
      BY <1>4, <3>2
    <3>4. order[t] = f
      <4>1. f \in 1 .. E
        OBVIOUS
      <4>2. \A x, y \in 1 .. E : Rank(v, x) = Rank(v, y) => x = y
        BY Ranks
      <4> HIDE DEF C
      <4> QED BY <3>3, <4>1, <4>2
    <3> QED BY <3>4
  <2>5. ~ (Rank(v, f) < Rank(v, e))
    BY <2>2, <2>3, <2>4
  <2>6. ~ Ahead(v, f, e)
    <3> HIDE DEF C
    <3> QED BY <2>2, <2>5, Ranks
  <2>7. v[e] \in Int /\ v[f] \in Int /\ e # f
    BY <1>1, <2>2
  <2> QED BY <2>2, <2>6, <2>7 DEF Ahead
<1>10. ASSUME NEW S \in SUBSET (1 .. E), P(S)
       PROVE  S = C
  <2>1. IsFiniteSet(1 .. E)
    BY FS_Interval
  <2>2. IsFiniteSet(S)
    BY <2>1, FS_Subset
  <2> HIDE DEF C
  <2>3. CASE C \subseteq S
    BY <1>7, <1>10, <2>2, <2>3, FS_Subset
  <2>4. CASE S \subseteq C
    BY <1>7, <1>10, <2>4, FS_Subset
  <2>5. CASE ~(C \subseteq S) /\ ~(S \subseteq C)
    <3>1. PICK e \in C : e \notin S
      BY <2>5
    <3>2. PICK f \in S : f \notin C
      BY <2>5
    <3>3. e \in 1 .. E /\ f \in 1 .. E
      BY <1>8, <3>1, <3>2
    <3>4. Ahead(v, e, f) /\ Ahead(v, f, e)
      BY <1>9, <1>10, <3>1, <3>2, <3>3
    <3>5. v[e] \in Int /\ v[f] \in Int
      BY <1>1, <3>3
    <3> QED BY <3>3, <3>4, <3>5 DEF Ahead
  <2> QED BY <2>3, <2>4, <2>5
<1>11. Best(v, k) = C
  <2>1. Best(v, k) = CHOOSE S \in SUBSET (1 .. E) : P(S)
    BY <1>1 DEF Best, Ahead
  <2> HIDE DEF C, P
  <2>2. \E S \in SUBSET (1 .. E) : P(S)
    BY <1>8, <1>9
  <2>3. Best(v, k) \in SUBSET (1 .. E) /\ P(Best(v, k))
    BY <2>1, <2>2
  <2> QED BY <1>10, <2>3
<1>12. order \in [1 .. k -> 1 .. E]
  <2>1. order = [slot \in 1 .. k |-> order[slot]]
    BY <1>3 DEF order
  <2> QED BY <1>4, <2>1
<1> QED BY <1>6, <1>7, <1>11, <1>12 DEF Gates, order

\* The position of a visit: after the visits of the experts before its own, and
\* after those of its own before it.
Place(c, i) == Cardinality(Under(c, c[i])) + Cardinality({ j \in 1 .. i : c[j] = c[i] })

(***************************************************************************)
(* Every position is that of one visit, and the positions of an expert's   *)
(* visits are those between its offset and the next.                       *)
(***************************************************************************)
LEMMA Placement ==
  ASSUME NEW n \in Nat, NEW E \in Nat, NEW c \in [1 .. n -> 1 .. E]
  PROVE  /\ \A i \in 1 .. n : Place(c, i) \in 1 .. n
         /\ \A i, j \in 1 .. n : Place(c, i) = Place(c, j) => i = j
         /\ \A p \in 1 .. n : \E i \in 1 .. n : Place(c, i) = p
         /\ \A i \in 1 .. n, e \in 1 .. E :
              Cardinality(Under(c, e)) < Place(c, i) /\ Place(c, i) <= Cardinality(Under(c, e + 1)) <=> e = c[i]
<1> DEFINE v == [i \in 1 .. n |-> - c[i]]
           Sooner(i) == { j \in 1 .. i : c[j] = c[i] }
<1>1. IsFiniteSet(1 .. n) /\ \A i \in 1 .. n : c[i] \in 1 .. E
  BY FS_Interval
<1>2. ASSUME NEW e \in Int
      PROVE  IsFiniteSet(Under(c, e)) /\ Cardinality(Under(c, e)) \in Nat
  <2>1. Under(c, e) \in SUBSET (1 .. n)
    BY DEF Under
  <2>2. IsFiniteSet(Under(c, e))
    BY <1>1, <2>1, FS_Subset
  <2> QED BY <2>2, FS_CardinalityType
<1>3. ASSUME NEW e \in Int, NEW f \in Int, e <= f
      PROVE  Cardinality(Under(c, e)) <= Cardinality(Under(c, f))
  <2>1. Under(c, e) \in SUBSET Under(c, f)
    BY <1>1, <1>3 DEF Under
  <2> QED BY <1>2, <2>1, FS_Subset
<1>4. ASSUME NEW i \in 1 .. n
      PROVE  /\ IsFiniteSet(Sooner(i)) /\ Cardinality(Sooner(i)) \in Nat \ {0}
             /\ Place(c, i) <= Cardinality(Under(c, c[i] + 1))
             /\ Place(c, i) = Rank(v, i) + 1
  <2>1. Sooner(i) \in SUBSET (1 .. n)
    OBVIOUS
  <2>2. IsFiniteSet(Sooner(i)) /\ Cardinality(Sooner(i)) \in Nat
    BY <1>1, <2>1, FS_Subset, FS_CardinalityType
  <2>3. Sooner(i) # {}
    <3>1. i \in Sooner(i)
      OBVIOUS
    <3> QED BY <3>1
  <2>4. Cardinality(Sooner(i)) # 0
    BY <2>2, <2>3, FS_EmptySet
  <2>5. Cardinality(Under(c, c[i]) \cup Sooner(i)) = Cardinality(Under(c, c[i])) + Cardinality(Sooner(i))
    <3>1. Under(c, c[i]) \cap Sooner(i) = {}
      BY <1>1 DEF Under
    <3>2. Cardinality(Under(c, c[i]) \cap Sooner(i)) = 0
      BY <3>1, FS_EmptySet
    <3>3. c[i] \in Int
      BY <1>1
    <3>4. IsFiniteSet(Under(c, c[i])) /\ Cardinality(Under(c, c[i])) \in Nat
      BY <1>2, <3>3
    <3> HIDE DEF Sooner
    <3>5. Cardinality(Under(c, c[i]) \cup Sooner(i))
            = Cardinality(Under(c, c[i])) + Cardinality(Sooner(i)) - Cardinality(Under(c, c[i]) \cap Sooner(i))
      BY <2>2, <3>4, FS_Union
    <3>6. Cardinality(Under(c, c[i]) \cup Sooner(i))
            = Cardinality(Under(c, c[i])) + Cardinality(Sooner(i)) - 0
      BY <3>2, <3>5
    <3> QED BY <2>2, <3>4, <3>6
  <2>6. Place(c, i) = Cardinality(Under(c, c[i]) \cup Sooner(i))
    BY <2>5 DEF Place
  <2>7. Place(c, i) <= Cardinality(Under(c, c[i] + 1))
    <3>1. Under(c, c[i]) \cup Sooner(i) \in SUBSET Under(c, c[i] + 1)
      BY <1>1 DEF Under
    <3>2. c[i] + 1 \in Int
      BY <1>1
    <3>3. IsFiniteSet(Under(c, c[i] + 1))
      BY <1>2, <3>2
    <3> HIDE DEF Sooner
    <3> QED BY <2>6, <3>1, <3>3, FS_Subset
  <2>8. Place(c, i) = Rank(v, i) + 1
    <3> DEFINE before == { j \in 1 .. n : Ahead(v, j, i) }
    <3>1. DOMAIN v = 1 .. n /\ \A j \in 1 .. n : v[j] = - c[j]
      OBVIOUS
    <3> HIDE DEF v
    <3>2. before \cup {i} = Under(c, c[i]) \cup Sooner(i) /\ i \notin before
      <4>1. ASSUME NEW j \in 1 .. n
            PROVE  j \in before \cup {i} <=> j \in Under(c, c[i]) \cup Sooner(i)
        <5>1. v[j] = - c[j] /\ v[i] = - c[i] /\ c[j] \in Int /\ c[i] \in Int /\ DOMAIN c = 1 .. n
          BY <1>1, <3>1
        <5>2. j \in before <=> c[j] < c[i] \/ (c[j] = c[i] /\ j < i)
          BY <5>1 DEF Ahead
        <5>3. j \in Under(c, c[i]) <=> c[j] < c[i]
          BY <5>1 DEF Under
        <5>4. j \in Sooner(i) <=> c[j] = c[i] /\ j <= i
          OBVIOUS
        <5> QED BY <5>1, <5>2, <5>3, <5>4
      <4>2. before \cup {i} \subseteq 1 .. n /\ Under(c, c[i]) \cup Sooner(i) \subseteq 1 .. n
        BY DEF Under
      <4>3. i \notin before
        <5>1. ~ Ahead(v, i, i)
          BY <1>1, <3>1 DEF Ahead
        <5> QED BY <5>1
      <4> HIDE DEF before, Sooner
      <4> QED BY <4>1, <4>2, <4>3
    <3>3. before \in SUBSET (1 .. n)
      OBVIOUS
    <3>4. IsFiniteSet(before) /\ Cardinality(before) \in Nat
      BY <1>1, <3>3, FS_Subset, FS_CardinalityType
    <3>5. Rank(v, i) = Cardinality(before)
      BY <3>1 DEF Rank
    <3> HIDE DEF before, Sooner
    <3>6. Cardinality(before \cup {i}) = Cardinality(before) + 1
      BY <3>2, <3>4, FS_AddElement
    <3> QED BY <2>6, <3>2, <3>5, <3>6
  <2> QED BY <2>2, <2>4, <2>7, <2>8
<1>5. v \in [1 .. n -> Int]
  BY <1>1
<1> HIDE DEF v
<1>6. \A i \in 1 .. n : Place(c, i) \in 1 .. n
  <2> TAKE i \in 1 .. n
  <2>1. Rank(v, i) \in 0 .. n - 1
    BY <1>5, Ranks
  <2>2. Place(c, i) = Rank(v, i) + 1
    BY <1>4
  <2> QED BY <2>1, <2>2
<1>7. \A i, j \in 1 .. n : Place(c, i) = Place(c, j) => i = j
  <2> TAKE i, j \in 1 .. n
  <2> HAVE Place(c, i) = Place(c, j)
  <2>1. Rank(v, i) \in 0 .. n - 1 /\ Rank(v, j) \in 0 .. n - 1
    BY <1>5, Ranks
  <2>2. Rank(v, i) + 1 = Rank(v, j) + 1
    BY <1>4
  <2>3. Rank(v, i) = Rank(v, j)
    BY <2>1, <2>2
  <2> QED BY <1>5, <2>3, Ranks
<1>8. \A p \in 1 .. n : \E i \in 1 .. n : Place(c, i) = p
  <2> TAKE p \in 1 .. n
  <2>1. PICK i \in 1 .. n : Rank(v, i) = p - 1
    BY <1>5, Ranks
  <2>2. Place(c, i) = (p - 1) + 1
    BY <1>4, <2>1
  <2> QED BY <2>2
<1>9. ASSUME NEW i \in 1 .. n, NEW e \in 1 .. E
      PROVE  Cardinality(Under(c, e)) < Place(c, i) /\ Place(c, i) <= Cardinality(Under(c, e + 1)) <=> e = c[i]
  <2>1. /\ c[i] \in Int /\ e \in Int /\ e + 1 \in Int /\ c[i] + 1 \in Int
        /\ Place(c, i) \in Int
    BY <1>1, <1>6
  <2>2. /\ Cardinality(Under(c, c[i])) \in Nat /\ Cardinality(Under(c, c[i] + 1)) \in Nat
        /\ Cardinality(Under(c, e)) \in Nat /\ Cardinality(Under(c, e + 1)) \in Nat
    BY <1>2, <2>1
  <2>3. Cardinality(Under(c, c[i])) < Place(c, i) /\ Place(c, i) <= Cardinality(Under(c, c[i] + 1))
    <3>1. PICK m \in Nat \ {0} : Cardinality(Sooner(i)) = m
      BY <1>4
    <3>2. Place(c, i) = Cardinality(Under(c, c[i])) + m
      BY <3>1 DEF Place
    <3>3. Place(c, i) <= Cardinality(Under(c, c[i] + 1))
      BY <1>4
    <3> QED BY <2>2, <3>2, <3>3
  <2>4. CASE e = c[i]
    BY <2>3, <2>4
  <2>5. CASE e < c[i]
    <3>1. Cardinality(Under(c, e + 1)) <= Cardinality(Under(c, c[i]))
      BY <1>3, <2>1, <2>5
    <3> QED BY <2>1, <2>2, <2>3, <2>5, <3>1
  <2>6. CASE e > c[i]
    <3>1. Cardinality(Under(c, c[i] + 1)) <= Cardinality(Under(c, e))
      BY <1>3, <2>1, <2>6
    <3> QED BY <2>1, <2>2, <2>3, <2>6, <3>1
  <2> QED BY <2>1, <2>4, <2>5, <2>6
<1> QED BY <1>6, <1>7, <1>8, <1>9

\* Every position holds a row for one expert chosen for it, and every choice of
\* an expert for a row has one position.
Serves(row, exp, n, R, picks) ==
  /\ \A p \in 1 .. n : row[p] \in 1 .. R /\ exp[p] \in picks[row[p]]
  /\ \A p, q \in 1 .. n : row[p] = row[q] /\ exp[p] = exp[q] => p = q
  /\ \A r \in 1 .. R : \A e \in picks[r] : \E p \in 1 .. n : row[p] = r /\ exp[p] = e

\* The positions of an expert are as many as it counts, from its offset on.
Sorted(exp, counts, n, E) ==
  /\ \A p \in 1 .. n : exp[p] \in 1 .. E
  /\ \A e \in 1 .. E : Offsets(counts)[e] \in Nat /\ counts[e] \in Nat
  /\ \A p \in 1 .. n, e \in 1 .. E :
       Offsets(counts)[e] < p /\ p <= Offsets(counts)[e] + counts[e] <=> e = exp[p]
  /\ \A e \in 1 .. E : Offsets(counts)[e] + counts[e] <= n

\* What the gate selects: for every row k of the experts, those picked, each once.
Selects(selected, picks, R, E, k) ==
  /\ selected \in [1 .. R -> [1 .. k -> 1 .. E]]
  /\ \A r \in 1 .. R : \A s, t \in 1 .. k : selected[r][s] = selected[r][t] => s = t
  /\ \A r \in 1 .. R : picks[r] = { selected[r][s] : s \in 1 .. k }

\* The gathered rows with the weights they are given.
Rows(row, exp, n) == [p \in 1 .. n |-> [row |-> row[p], weight |-> <<row[p], exp[p]>>]]

(***************************************************************************)
(* Gathering sorts the choices by expert.                                  *)
(***************************************************************************)
LEMMA GatherIs ==
  ASSUME NEW R \in Nat, NEW E \in Nat \ {0}, NEW k \in Nat \ {0}, NEW selected, NEW picks,
         Selects(selected, picks, R, E, k),
         NEW counts, counts = TokenCounts(selected, E, k)
  PROVE  /\ R * k \in Nat /\ counts \in Seq(Nat) /\ DOMAIN counts = 1 .. E /\ Len(counts) = E
         /\ Total(counts) = R * k
         /\ \E row, exp : /\ Serves(row, exp, R * k, R, picks)
                          /\ Sorted(exp, counts, R * k, E)
                          /\ Gather(selected, Offsets(counts), k) = Rows(row, exp, R * k)
<1> DEFINE visits == Visits(R, k)
<1>1. PICK n \in Nat : n = R * k
  BY VisitsAre
<1>2. /\ DOMAIN visits = 1 .. n
      /\ \A i \in 1 .. n : visits[i] \in (1 .. R) \X (1 .. k)
      /\ \A i, j \in 1 .. n : visits[i] = visits[j] => i = j
      /\ \A r \in 1 .. R, s \in 1 .. k : \E i \in 1 .. n : visits[i] = <<r, s>>
  <2>1. Enumerates(visits, R * k, R, k)
    BY VisitsAre
  <2>2. Enumerates(visits, n, R, k)
    BY <1>1, <2>1
  <2> HIDE DEF visits
  <2> QED BY <2>2 DEF Enumerates
<1>3. /\ DOMAIN selected = 1 .. R /\ Len(selected) = R
      /\ \A r \in 1 .. R, s \in 1 .. k : selected[r][s] \in 1 .. E
  BY DEF Selects
<1> HIDE DEF visits
<1> DEFINE c == [i \in 1 .. n |-> ExpertAt(selected, visits[i])]
<1>4. \A i \in 1 .. n : c[i] = selected[visits[i][1]][visits[i][2]] /\ c[i] = ExpertAt(selected, visits[i])
  BY DEF ExpertAt
<1>5. \A i \in 1 .. n : visits[i][1] \in 1 .. R /\ visits[i][2] \in 1 .. k /\ visits[i] = <<visits[i][1], visits[i][2]>>
  <2> TAKE i \in 1 .. n
  <2>1. visits[i] \in (1 .. R) \X (1 .. k)
    BY <1>2
  <2> QED BY <2>1
<1>6. c \in [1 .. n -> 1 .. E]
  <2>1. \A i \in 1 .. n : ExpertAt(selected, visits[i]) \in 1 .. E
    BY <1>3, <1>5 DEF ExpertAt
  <2> QED BY <2>1
<1> HIDE DEF c
<1>7. counts = [e \in 1 .. E |-> Cardinality(Choosing(c, e))]
  <2>1. ASSUME NEW e \in 1 .. E
        PROVE  Cardinality({ v \in (DOMAIN selected) \X (1 .. k) : selected[v[1]][v[2]] = e })
                 = Cardinality(Choosing(c, e))
    <3> DEFINE S == Choosing(c, e)
               T == { v \in (DOMAIN selected) \X (1 .. k) : selected[v[1]][v[2]] = e }
               f == [i \in S |-> visits[i]]
    <3>1. S \in SUBSET (1 .. n) /\ \A i \in 1 .. n : i \in S <=> c[i] = e
      BY <1>6 DEF Choosing
    <3>2. IsFiniteSet(S)
      <4>1. IsFiniteSet(1 .. n)
        BY FS_Interval
      <4> HIDE DEF S
      <4> QED BY <3>1, <4>1, FS_Subset
    <3> HIDE DEF S
    <3>3. f \in [S -> T]
      <4>1. \A i \in S : visits[i] \in T
        <5> TAKE i \in S
        <5>1. i \in 1 .. n /\ c[i] = e
          BY <3>1
        <5>2. visits[i] \in (1 .. R) \X (1 .. k) /\ selected[visits[i][1]][visits[i][2]] = e
          BY <1>2, <1>4, <5>1
        <5> QED BY <1>3, <5>2
      <4> HIDE DEF T
      <4> QED BY <4>1
    <3>4. \A y \in T : \E i \in S : f[i] = y
      <4> TAKE y \in T
      <4>1. y[1] \in 1 .. R /\ y[2] \in 1 .. k /\ y = <<y[1], y[2]>> /\ selected[y[1]][y[2]] = e
        BY <1>3
      <4>2. PICK a \in 1 .. R, b \in 1 .. k : a = y[1] /\ b = y[2]
        BY <4>1
      <4>3. PICK i \in 1 .. n : visits[i] = <<a, b>>
        BY <1>2
      <4>4. visits[i] = y
        BY <4>1, <4>2, <4>3
      <4>5. c[i] = e
        <5>1. c[i] = selected[visits[i][1]][visits[i][2]]
          BY <1>4
        <5> QED BY <5>1, <4>1, <4>4
      <4>6. i \in S
        BY <3>1, <4>5
      <4> QED BY <4>4, <4>6
    <3>5. \A i, j \in S : f[i] = f[j] => i = j
      BY <1>2, <3>1
    <3> HIDE DEF f, T
    <3>6. Cardinality(T) = Cardinality(S)
      BY <3>2, <3>3, <3>4, <3>5, SameSize
    <3> QED BY <3>6 DEF T, S
  <2>2. TokenCounts(selected, E, k)
          = [e \in 1 .. E |-> Cardinality({ v \in (DOMAIN selected) \X (1 .. k) : selected[v[1]][v[2]] = e })]
    BY DEF TokenCounts
  <2> QED BY <2>1, <2>2
<1>8. /\ counts \in Seq(Nat) /\ Len(counts) = E
      /\ \A e \in 1 .. E : Offsets(counts)[e] = Cardinality(Under(c, e))
      /\ \A e \in 1 .. E : Cardinality(Under(c, e + 1)) = Cardinality(Under(c, e)) + counts[e]
      /\ \A e \in 1 .. E + 1 : Cardinality(Under(c, e)) \in Nat
      /\ Total(counts) = n
  <2>1. E \in Nat
    OBVIOUS
  <2>2. Counted(counts, c, n, E)
    BY <1>6, <1>7, <2>1, OffsetsAre
  <2> QED BY <2>2 DEF Counted
<1>9. DOMAIN counts = 1 .. E
  BY <1>7
<1> DEFINE offsets == Offsets(counts)
           at == [p \in 1 .. n |-> CHOOSE i \in DOMAIN visits : Position(selected, offsets, visits, i) = p]
<1>10. \A i \in 1 .. n : Position(selected, offsets, visits, i) = Place(c, i)
  <2> TAKE i \in 1 .. n
  <2>1. \A j \in 1 .. i : j \in 1 .. n /\ ExpertAt(selected, visits[j]) = c[j]
    BY <1>4
  <2>2. { j \in 1 .. i : ExpertAt(selected, visits[j]) = c[i] } = { j \in 1 .. i : c[j] = c[i] }
    BY <2>1
  <2>3. ExpertAt(selected, visits[i]) = c[i] /\ c[i] \in 1 .. E
    BY <1>4, <1>6
  <2>4. offsets[c[i]] = Cardinality(Under(c, c[i]))
    BY <1>8, <2>3
  <2> QED BY <2>2, <2>3, <2>4 DEF Position, Place
<1> HIDE DEF offsets
<1>11. /\ \A i \in 1 .. n : Place(c, i) \in 1 .. n
       /\ \A i, j \in 1 .. n : Place(c, i) = Place(c, j) => i = j
       /\ \A p \in 1 .. n : \E i \in 1 .. n : Place(c, i) = p
       /\ \A i \in 1 .. n, e \in 1 .. E :
            Cardinality(Under(c, e)) < Place(c, i) /\ Place(c, i) <= Cardinality(Under(c, e + 1)) <=> e = c[i]
  BY <1>6, Placement
<1>12. \A p \in 1 .. n : at[p] \in 1 .. n /\ Place(c, at[p]) = p
  <2> TAKE p \in 1 .. n
  <2>1. \E i \in DOMAIN visits : Position(selected, offsets, visits, i) = p
    BY <1>2, <1>10, <1>11
  <2>2. at[p] \in DOMAIN visits /\ Position(selected, offsets, visits, at[p]) = p
    BY <2>1
  <2> HIDE DEF at
  <2> QED BY <1>2, <1>10, <2>2
<1>13. \A p \in 1 .. n : Writer(selected, offsets, visits, p) = visits[at[p]]
  BY DEF Writer
<1>14. Written(selected, offsets, visits) = 1 .. n
  <2>1. Written(selected, offsets, visits) = { Place(c, i) : i \in 1 .. n }
    <3>1. Written(selected, offsets, visits) = { Position(selected, offsets, visits, i) : i \in 1 .. n }
      BY <1>2 DEF Written
    <3> QED BY <1>10, <3>1
  <2> QED BY <1>11, <2>1
<1> HIDE DEF at
<1> DEFINE row == [p \in 1 .. n |-> visits[at[p]][1]]
           exp == [p \in 1 .. n |-> c[at[p]]]
<1>15. \A p \in 1 .. n : row[p] = visits[at[p]][1] /\ exp[p] = c[at[p]]
  OBVIOUS
<1>16. Gather(selected, offsets, k) = Rows(row, exp, n)
  <2>1. Gather(selected, offsets, k)
          = [p \in 1 .. n |-> [row |-> visits[at[p]][1], weight |-> <<visits[at[p]][1], ExpertAt(selected, visits[at[p]])>>]]
    BY <1>3, <1>13, <1>14 DEF Gather, visits
  <2>2. \A p \in 1 .. n : ExpertAt(selected, visits[at[p]]) = exp[p] /\ visits[at[p]][1] = row[p]
    BY <1>4, <1>12, <1>15
  <2> HIDE DEF row, exp
  <2> QED BY <2>1, <2>2 DEF Rows
<1> HIDE DEF row, exp
<1>17. Serves(row, exp, n, R, picks)
  <2>1. ASSUME NEW p \in 1 .. n PROVE row[p] \in 1 .. R /\ exp[p] \in picks[row[p]]
    <3>1. at[p] \in 1 .. n
      BY <1>12
    <3>2. visits[at[p]][1] \in 1 .. R /\ visits[at[p]][2] \in 1 .. k
      BY <1>5, <3>1
    <3>3. exp[p] = selected[row[p]][visits[at[p]][2]] /\ row[p] \in 1 .. R
      BY <1>4, <1>15, <3>1, <3>2
    <3>4. picks[row[p]] = { selected[row[p]][s] : s \in 1 .. k }
      BY <3>3 DEF Selects
    <3> QED BY <3>2, <3>3, <3>4
  <2>2. ASSUME NEW p \in 1 .. n, NEW q \in 1 .. n, row[p] = row[q], exp[p] = exp[q] PROVE p = q
    <3>1. at[p] \in 1 .. n /\ at[q] \in 1 .. n
      BY <1>12
    <3>2. PICK s \in 1 .. k : visits[at[p]] = <<row[p], s>> /\ exp[p] = selected[row[p]][s]
      BY <1>4, <1>5, <1>15, <3>1
    <3>3. PICK t \in 1 .. k : visits[at[q]] = <<row[p], t>> /\ exp[p] = selected[row[p]][t]
      BY <1>4, <1>5, <1>15, <2>2, <3>1
    <3>4. s = t
      <4>1. row[p] \in 1 .. R /\ selected[row[p]][s] = selected[row[p]][t]
        BY <2>1, <3>2, <3>3
      <4>2. \A a, b \in 1 .. k : selected[row[p]][a] = selected[row[p]][b] => a = b
        BY <4>1 DEF Selects
      <4> QED BY <4>1, <4>2
    <3>5. at[p] = at[q]
      BY <1>2, <3>1, <3>2, <3>3, <3>4
    <3> QED BY <1>12, <3>5
  <2>3. ASSUME NEW r \in 1 .. R, NEW e \in picks[r] PROVE \E p \in 1 .. n : row[p] = r /\ exp[p] = e
    <3>1. PICK s \in 1 .. k : e = selected[r][s]
      <4>1. picks[r] = { selected[r][s] : s \in 1 .. k }
        BY DEF Selects
      <4> QED BY <2>3, <4>1
    <3>2. PICK i \in 1 .. n : visits[i] = <<r, s>>
      BY <1>2
    <3>3. PICK p \in 1 .. n : p = Place(c, i)
      BY <1>11
    <3>4. at[p] = i
      BY <1>11, <1>12, <3>3
    <3>5. row[p] = r /\ exp[p] = e
      BY <1>4, <1>15, <3>1, <3>2, <3>4
    <3> QED BY <3>5
  <2> QED BY <2>1, <2>2, <2>3 DEF Serves
<1>18. Sorted(exp, counts, n, E)
  <2>1. \A p \in 1 .. n : exp[p] \in 1 .. E
    BY <1>6, <1>12, <1>15
  <2>2. \A e \in 1 .. E : offsets[e] \in Nat /\ counts[e] \in Nat
    <3> TAKE e \in 1 .. E
    <3>1. Cardinality(Under(c, e)) \in Nat
      BY <1>8
    <3>2. offsets[e] = Cardinality(Under(c, e))
      BY <1>8 DEF offsets
    <3>3. counts[e] \in Nat
      BY <1>8, <1>9, SMTT(30)
    <3> QED BY <3>1, <3>2, <3>3
  <2>3. \A p \in 1 .. n, e \in 1 .. E : offsets[e] < p /\ p <= offsets[e] + counts[e] <=> e = exp[p]
    <3> TAKE p \in 1 .. n, e \in 1 .. E
    <3>1. at[p] \in 1 .. n /\ Place(c, at[p]) = p /\ exp[p] = c[at[p]]
      BY <1>12, <1>15
    <3>2. Cardinality(Under(c, e)) < p /\ p <= Cardinality(Under(c, e + 1)) <=> e = exp[p]
      BY <1>11, <3>1
    <3>3. offsets[e] = Cardinality(Under(c, e)) /\ Cardinality(Under(c, e + 1)) = Cardinality(Under(c, e)) + counts[e]
      BY <1>8 DEF offsets
    <3> QED BY <3>2, <3>3
  <2>4. \A e \in 1 .. E : offsets[e] + counts[e] <= n
    <3> TAKE e \in 1 .. E
    <3>1. Under(c, e + 1) \in SUBSET (1 .. n)
      BY <1>6 DEF Under
    <3>2. Cardinality(Under(c, e + 1)) <= n
      <4>1. IsFiniteSet(1 .. n) /\ Cardinality(1 .. n) = n
        BY FS_Interval
      <4> QED BY <3>1, <4>1, FS_Subset
    <3>3. offsets[e] = Cardinality(Under(c, e)) /\ Cardinality(Under(c, e + 1)) = Cardinality(Under(c, e)) + counts[e]
      BY <1>8 DEF offsets
    <3> QED BY <3>2, <3>3
  <2> QED BY <2>1, <2>2, <2>3, <2>4 DEF Sorted, offsets
<1> QED BY <1>1, <1>8, <1>9, <1>16, <1>17, <1>18 DEF offsets

\* What the grouped product makes of the gathered rows.
Products(row, exp, n) == [p \in 1 .. n |-> [expert |-> exp[p], input |-> row[p]]]

(***************************************************************************)
(* The grouped product applies to each gathered row the expert it was      *)
(* gathered for.                                                           *)
(***************************************************************************)
LEMMA GroupedIs ==
  ASSUME NEW n \in Nat, NEW E \in Nat, NEW row, NEW exp, NEW counts, DOMAIN counts = 1 .. E,
         Sorted(exp, counts, n, E)
  PROVE  GroupedMatMul(Rows(row, exp, n), counts) = Products(row, exp, n)
<1> DEFINE owner(p) == CHOOSE e \in 1 .. E : Offsets(counts)[e] < p /\ p <= Offsets(counts)[e] + counts[e]
<1>1. ASSUME NEW p \in 1 .. n PROVE owner(p) = exp[p]
  <2>1. /\ exp[p] \in 1 .. E
        /\ \A e \in 1 .. E : Offsets(counts)[e] < p /\ p <= Offsets(counts)[e] + counts[e] <=> e = exp[p]
    BY DEF Sorted
  <2> QED BY <2>1
<1>2. DOMAIN Rows(row, exp, n) = 1 .. n /\ \A p \in 1 .. n : Rows(row, exp, n)[p].row = row[p]
  BY DEF Rows
<1>3. GroupedMatMul(Rows(row, exp, n), counts) = [p \in 1 .. n |-> [expert |-> owner(p), input |-> row[p]]]
  BY <1>2 DEF GroupedMatMul
<1> HIDE DEF owner
<1> QED BY <1>1, <1>3 DEF Products

\* What row r is given when it goes to some experts.
Given(out, r, experts) ==
  /\ Len(out) = Cardinality(experts)
  /\ { out[i] : i \in DOMAIN out }
       = { [weight |-> <<r, e>>, output |-> [expert |-> e, input |-> r]] : e \in experts }

(***************************************************************************)
(* A row is given the products of its experts, each once, under its own    *)
(* weights.                                                                *)
(***************************************************************************)
LEMMA OutputIs ==
  ASSUME NEW n \in Nat, NEW R \in Nat, NEW row, NEW exp, NEW picks, Serves(row, exp, n, R, picks),
         NEW r \in 1 .. R,
         NEW out, out = Combined(Rows(row, exp, n), Products(row, exp, n), R)[r]
  PROVE  Given(out, r, picks[r])
<1> DEFINE numbers == [p \in 1 .. n |-> p]
           K == { p \in 1 .. n : row[p] = r }
           mine == Only(numbers, K)
           m == Len(mine)
<1>1. numbers \in Seq(Int) /\ Len(numbers) = n /\ \A p \in 1 .. n : numbers[p] = p
  OBVIOUS
<1>2. out = [i \in DOMAIN mine |-> [weight |-> Rows(row, exp, n)[mine[i]].weight, output |-> Products(row, exp, n)[mine[i]]]]
  <2>1. Cardinality(1 .. n) = n
    BY FS_Interval
  <2>2. DOMAIN Rows(row, exp, n) = 1 .. n
    BY DEF Rows
  <2>3. { p \in DOMAIN Rows(row, exp, n) : Rows(row, exp, n)[p].row = r } = K
    BY DEF Rows
  <2>4. [p \in 1 .. Cardinality(DOMAIN Rows(row, exp, n)) |-> p] = numbers
    BY <2>1, <2>2
  <2> QED BY <2>3, <2>4 DEF Combined
<1> HIDE DEF numbers
<1>3. mine \in Seq(Int) /\ m \in Nat /\ DOMAIN mine = 1 .. m
  <2>1. mine \in Seq(Int)
    BY <1>1, OnlyType
  <2> HIDE DEF mine
  <2> QED BY <2>1
<1>4. /\ \A i \in 1 .. m : mine[i] \in K
      /\ \A p \in K : \E i \in 1 .. m : mine[i] = p
      /\ \A i, j \in 1 .. m : mine[i] = mine[j] => i = j
  <2>1. /\ \A i \in 1 .. m : mine[i] \in K
        /\ \A j \in 1 .. n : numbers[j] \in K => \E i \in 1 .. m : mine[i] = numbers[j]
        /\ (\A i, j \in 1 .. n : numbers[i] = numbers[j] => i = j) =>
             \A i, j \in 1 .. m : mine[i] = mine[j] => i = j
    <3>1. /\ \A i \in 1 .. Len(Only(numbers, K)) : Only(numbers, K)[i] \in K /\
                  \E j \in 1 .. Len(numbers) : numbers[j] = Only(numbers, K)[i]
          /\ \A j \in 1 .. Len(numbers) : numbers[j] \in K =>
                  \E i \in 1 .. Len(Only(numbers, K)) : Only(numbers, K)[i] = numbers[j]
          /\ (\A i, j \in 1 .. Len(numbers) : numbers[i] = numbers[j] => i = j) =>
                  \A i, j \in 1 .. Len(Only(numbers, K)) : Only(numbers, K)[i] = Only(numbers, K)[j] => i = j
      <4> HIDE DEF K, mine, m
      <4> QED BY <1>1, OnlyElements
    <3>2. Len(numbers) = n
      BY <1>1
    <3> HIDE DEF K
    <3> QED BY <3>1, <3>2
  <2> HIDE DEF mine, m
  <2> QED BY <1>1, <2>1
<1> HIDE DEF mine, m
<1>5. IsFiniteSet(K) /\ Cardinality(K) = m
  <2>1. IsFiniteSet(1 .. m) /\ Cardinality(1 .. m) = m
    BY <1>3, FS_Interval
  <2>2. mine \in [1 .. m -> K]
    <3> HIDE DEF K
    <3>1. mine = [i \in 1 .. m |-> mine[i]]
      BY <1>3
    <3> QED BY <1>4, <3>1
  <2> HIDE DEF K
  <2> QED BY <1>4, <2>1, <2>2, SameSize
<1>6. /\ \A p \in K : row[p] = r /\ exp[p] \in picks[r]
      /\ \A p, q \in K : exp[p] = exp[q] => p = q
      /\ \A e \in picks[r] : \E p \in K : exp[p] = e
  BY DEF Serves
<1> HIDE DEF K
<1>7. Cardinality(picks[r]) = m
  <2> DEFINE f == [p \in K |-> exp[p]]
  <2>1. f \in [K -> picks[r]] /\ \A p \in K : f[p] = exp[p]
    BY <1>6
  <2> HIDE DEF f
  <2>2. \A e \in picks[r] : \E p \in K : f[p] = e
    BY <1>6, <2>1
  <2>3. \A p, q \in K : f[p] = f[q] => p = q
    BY <1>6, <2>1
  <2> QED BY <1>5, <2>1, <2>2, <2>3, SameSize
<1>8. DOMAIN out = 1 .. m /\ Len(out) = m
  BY <1>2, <1>3
<1>9. \A i \in 1 .. m : out[i] = [weight |-> <<r, exp[mine[i]]>>, output |-> [expert |-> exp[mine[i]], input |-> r]]
  <2> TAKE i \in 1 .. m
  <2>1. mine[i] \in K /\ mine[i] \in 1 .. n
    BY <1>4 DEF K
  <2>2. Rows(row, exp, n)[mine[i]].weight = <<row[mine[i]], exp[mine[i]]>>
    BY <2>1 DEF Rows
  <2>3. Products(row, exp, n)[mine[i]] = [expert |-> exp[mine[i]], input |-> row[mine[i]]]
    BY <2>1 DEF Products
  <2>4. row[mine[i]] = r
    BY <1>6, <2>1
  <2> QED BY <1>2, <1>3, <2>2, <2>3, <2>4
<1>10. ASSUME NEW x
       PROVE  x \in { out[i] : i \in DOMAIN out }
                <=> x \in { [weight |-> <<r, e>>, output |-> [expert |-> e, input |-> r]] : e \in picks[r] }
  <2>1. ASSUME NEW i \in 1 .. m, x = out[i]
        PROVE  \E e \in picks[r] : x = [weight |-> <<r, e>>, output |-> [expert |-> e, input |-> r]]
    <3>1. exp[mine[i]] \in picks[r]
      BY <1>4, <1>6
    <3> QED BY <1>9, <2>1, <3>1
  <2>2. ASSUME NEW e \in picks[r], x = [weight |-> <<r, e>>, output |-> [expert |-> e, input |-> r]]
        PROVE  \E i \in 1 .. m : x = out[i]
    <3>1. PICK p \in K : exp[p] = e
      BY <1>6
    <3>2. PICK i \in 1 .. m : mine[i] = p
      BY <1>4
    <3>3. out[i] = x
      BY <1>9, <2>2, <3>1, <3>2
    <3> QED BY <3>3
  <2> QED BY <1>8, <2>1, <2>2
<1> QED BY <1>7, <1>8, <1>10 DEF Given

\* The state saved for expert e: one entry for each of its positions.
Saved(saved, row, exp, counts, n, E) ==
  /\ DOMAIN saved = { e \in 1 .. E : counts[e] > 0 }
  /\ \A e \in 1 .. E : \A i \in 1 .. counts[e] :
       /\ Offsets(counts)[e] + i \in 1 .. n
       /\ exp[Offsets(counts)[e] + i] = e
  /\ \A e \in DOMAIN saved :
       /\ DOMAIN saved[e] = 1 .. counts[e]
       /\ \A i \in 1 .. counts[e] :
            saved[e][i] = [row |-> row[Offsets(counts)[e] + i],
                           weight |-> <<row[Offsets(counts)[e] + i], e>>,
                           output |-> [expert |-> e, input |-> row[Offsets(counts)[e] + i]]]

(***************************************************************************)
(* The state saved for an expert is the rows of its positions.             *)
(***************************************************************************)
LEMMA SavedIs ==
  ASSUME NEW n \in Nat, NEW E \in Nat, NEW row, NEW exp, NEW counts, DOMAIN counts = 1 .. E,
         Sorted(exp, counts, n, E),
         NEW saved, saved = SavedSlices(Rows(row, exp, n), Products(row, exp, n), counts, Offsets(counts))
  PROVE  Saved(saved, row, exp, counts, n, E)
<1> DEFINE at(e, i) == Offsets(counts)[e] + i
<1>1. ASSUME NEW e \in 1 .. E, NEW i \in 1 .. counts[e]
      PROVE  at(e, i) \in 1 .. n /\ exp[at(e, i)] = e
  <2>1. PICK o \in Nat, m \in Nat : o = Offsets(counts)[e] /\ m = counts[e] /\ o + m <= n
    BY DEF Sorted
  <2>2. o + i \in 1 .. n /\ o < o + i /\ o + i <= o + m
    BY <2>1
  <2>3. o + i \in 1 .. n => (o < o + i /\ o + i <= o + m <=> e = exp[o + i])
    BY <2>1 DEF Sorted
  <2> QED BY <2>1, <2>2, <2>3
<1>2. DOMAIN saved = { e \in 1 .. E : counts[e] > 0 }
  BY DEF SavedSlices
<1>3. ASSUME NEW e \in DOMAIN saved
      PROVE  saved[e] = [i \in 1 .. counts[e] |-> [row |-> Rows(row, exp, n)[at(e, i)].row,
                           weight |-> Rows(row, exp, n)[at(e, i)].weight, output |-> Products(row, exp, n)[at(e, i)]]]
  BY <1>2 DEF SavedSlices
<1> HIDE DEF at
<1>4. ASSUME NEW e \in DOMAIN saved, NEW i \in 1 .. counts[e]
      PROVE  saved[e][i] = [row |-> row[at(e, i)], weight |-> <<row[at(e, i)], e>>,
                            output |-> [expert |-> e, input |-> row[at(e, i)]]]
  <2>1. at(e, i) \in 1 .. n /\ exp[at(e, i)] = e
    BY <1>1, <1>2
  <2>2. Rows(row, exp, n)[at(e, i)] = [row |-> row[at(e, i)], weight |-> <<row[at(e, i)], e>>]
    BY <2>1 DEF Rows
  <2>3. Products(row, exp, n)[at(e, i)] = [expert |-> e, input |-> row[at(e, i)]]
    BY <2>1 DEF Products
  <2>4. saved[e][i] = [row |-> Rows(row, exp, n)[at(e, i)].row,
                       weight |-> Rows(row, exp, n)[at(e, i)].weight, output |-> Products(row, exp, n)[at(e, i)]]
    <3> DEFINE part(j) == [row |-> Rows(row, exp, n)[at(e, j)].row,
                           weight |-> Rows(row, exp, n)[at(e, j)].weight, output |-> Products(row, exp, n)[at(e, j)]]
    <3>1. PICK parts : parts = [j \in 1 .. counts[e] |-> part(j)]
      OBVIOUS
    <3>2. saved[e] = parts
      BY <1>3, <3>1
    <3> HIDE DEF part
    <3>3. saved[e][i] = part(i)
      BY <3>1, <3>2
    <3> QED BY <3>3 DEF part
  <2> QED BY <2>2, <2>3, <2>4
<1>5. ASSUME NEW e \in DOMAIN saved PROVE DOMAIN saved[e] = 1 .. counts[e]
  BY <1>3
<1> QED BY <1>1, <1>2, <1>4, <1>5 DEF at, Saved

\* The gradients of one gathered row, by its position p.
Returned(row, exp, counts, p) ==
  [slot |-> <<exp[p], p - Offsets(counts)[exp[p]]>>, probability |-> <<row[p], exp[p]>>,
   output |-> [expert |-> exp[p], input |-> row[p]], weight |-> <<row[p], exp[p]>>,
   weights |-> exp[p], input |-> row[p]]

\* One gradient for every choice, n in all.
Returns(back, picks, n, R) ==
  /\ Cardinality(back) = n
  /\ { [x EXCEPT !.slot = 0] : x \in back }
       = UNION { { [slot |-> 0, probability |-> <<r, e>>, output |-> [expert |-> e, input |-> r],
                    weight |-> <<r, e>>, weights |-> e, input |-> r] : e \in picks[r] } : r \in 1 .. R }

(***************************************************************************)
(* The backward pass returns one gradient for every choice of an expert    *)
(* for a row, to that row and that expert.                                 *)
(***************************************************************************)
LEMMA BackwardIs ==
  ASSUME NEW n \in Nat, NEW R \in Nat, NEW E \in Nat, NEW row, NEW exp, NEW counts, NEW picks,
         DOMAIN counts = 1 .. E, Serves(row, exp, n, R, picks), Sorted(exp, counts, n, E),
         NEW context,
         context.experts = SavedSlices(Rows(row, exp, n), Products(row, exp, n), counts, Offsets(counts)),
         NEW back, back = Backward(context)
  PROVE  Returns(back, picks, n, R)
<1> DEFINE saved == context.experts
           offsets == Offsets(counts)
           from(e, i) == [slot |-> <<e, i>>, probability |-> <<saved[e][i].row, e>>,
                          output |-> saved[e][i].output, weight |-> saved[e][i].weight,
                          weights |-> e, input |-> saved[e][i].row]
           rec(p) == Returned(row, exp, counts, p)
           bare(r, e) == [slot |-> 0, probability |-> <<r, e>>, output |-> [expert |-> e, input |-> r],
                          weight |-> <<r, e>>, weights |-> e, input |-> r]
<1>1. /\ DOMAIN saved = { e \in 1 .. E : counts[e] > 0 }
      /\ \A e \in 1 .. E : \A i \in 1 .. counts[e] : offsets[e] + i \in 1 .. n /\ exp[offsets[e] + i] = e
      /\ \A e \in DOMAIN saved :
           /\ DOMAIN saved[e] = 1 .. counts[e]
           /\ \A i \in 1 .. counts[e] :
                saved[e][i] = [row |-> row[offsets[e] + i], weight |-> <<row[offsets[e] + i], e>>,
                               output |-> [expert |-> e, input |-> row[offsets[e] + i]]]
  <2>1. saved = SavedSlices(Rows(row, exp, n), Products(row, exp, n), counts, Offsets(counts))
    OBVIOUS
  <2> HIDE DEF saved
  <2>2. Saved(saved, row, exp, counts, n, E)
    BY <2>1, SavedIs
  <2> QED BY <2>2 DEF Saved
<1>2. back = UNION { { from(e, i) : i \in DOMAIN saved[e] } : e \in DOMAIN saved }
  BY DEF Backward
<1>3. \A e \in 1 .. E : offsets[e] \in Nat /\ counts[e] \in Nat
  BY DEF Sorted
<1>4. ASSUME NEW e \in DOMAIN saved, NEW i \in DOMAIN saved[e]
      PROVE  offsets[e] + i \in 1 .. n /\ from(e, i) = rec(offsets[e] + i)
  <2>1. e \in 1 .. E /\ i \in 1 .. counts[e]
    BY <1>1
  <2>2. PICK p \in 1 .. n : p = offsets[e] + i /\ exp[p] = e
    BY <1>1, <2>1
  <2>3. saved[e][i] = [row |-> row[p], weight |-> <<row[p], e>>, output |-> [expert |-> e, input |-> row[p]]]
    BY <1>1, <2>1, <2>2
  <2>4. p - offsets[e] = i
    BY <1>3, <2>1, <2>2
  <2>5. from(e, i) = [slot |-> <<e, i>>, probability |-> <<row[p], e>>, output |-> [expert |-> e, input |-> row[p]],
                      weight |-> <<row[p], e>>, weights |-> e, input |-> row[p]]
    BY <2>3
  <2>6. rec(p) = [slot |-> <<e, i>>, probability |-> <<row[p], e>>, output |-> [expert |-> e, input |-> row[p]],
                  weight |-> <<row[p], e>>, weights |-> e, input |-> row[p]]
    BY <2>2, <2>4 DEF Returned
  <2> QED BY <2>2, <2>5, <2>6
<1>5. ASSUME NEW p \in 1 .. n
      PROVE  \E e \in DOMAIN saved : \E i \in DOMAIN saved[e] : p = offsets[e] + i
  <2>1. PICK e \in 1 .. E : e = exp[p] /\ offsets[e] < p /\ p <= offsets[e] + counts[e]
    BY DEF Sorted
  <2>2. PICK i \in Int : i = p - offsets[e]
    BY <1>3
  <2>3. i \in 1 .. counts[e] /\ p = offsets[e] + i /\ counts[e] > 0
    BY <1>3, <2>1, <2>2
  <2>4. e \in DOMAIN saved
    BY <1>1, <2>3
  <2>5. DOMAIN saved[e] = 1 .. counts[e]
    BY <1>1, <2>4
  <2> QED BY <2>3, <2>4, <2>5
<1> HIDE DEF from, rec, saved, offsets
<1>6. back = { rec(p) : p \in 1 .. n }
  <2>1. ASSUME NEW x \in back PROVE \E p \in 1 .. n : x = rec(p)
    <3>1. PICK e \in DOMAIN saved : \E i \in DOMAIN saved[e] : x = from(e, i)
      BY <1>2
    <3>2. PICK i \in DOMAIN saved[e] : x = from(e, i)
      BY <3>1
    <3> QED BY <1>4, <3>2
  <2>2. ASSUME NEW p \in 1 .. n PROVE rec(p) \in back
    <3>1. PICK e \in DOMAIN saved : \E i \in DOMAIN saved[e] : p = offsets[e] + i
      BY <1>5
    <3>2. PICK i \in DOMAIN saved[e] : p = offsets[e] + i
      BY <3>1
    <3>3. rec(p) = from(e, i)
      BY <1>4, <3>2
    <3>4. from(e, i) \in { from(e, j) : j \in DOMAIN saved[e] }
      OBVIOUS
    <3> QED BY <1>2, <3>3, <3>4
  <2> QED BY <2>1, <2>2
<1>7. Cardinality(back) = n
  <2> DEFINE f == [p \in 1 .. n |-> rec(p)]
  <2>1. f \in [1 .. n -> back] /\ \A p \in 1 .. n : f[p] = rec(p)
    BY <1>6
  <2> HIDE DEF f
  <2>2. \A y \in back : \E p \in 1 .. n : f[p] = y
    BY <1>6, <2>1
  <2>3. ASSUME NEW p \in 1 .. n, NEW q \in 1 .. n, f[p] = f[q] PROVE p = q
    <3>1. rec(p) = rec(q)
      BY <2>1, <2>3
    <3>2. rec(p).weights = exp[p] /\ rec(p).input = row[p] /\ rec(q).weights = exp[q] /\ rec(q).input = row[q]
      BY DEF rec, Returned
    <3>3. exp[p] = exp[q] /\ row[p] = row[q]
      BY <3>1, <3>2
    <3> QED BY <3>3 DEF Serves
  <2>4. IsFiniteSet(1 .. n) /\ Cardinality(1 .. n) = n
    BY FS_Interval
  <2>5. \A p, q \in 1 .. n : f[p] = f[q] => p = q
    BY <2>3
  <2>6. PICK places : places = 1 .. n
    OBVIOUS
  <2>7. /\ IsFiniteSet(places) /\ Cardinality(places) = n /\ f \in [places -> back]
        /\ \A y \in back : \E x \in places : f[x] = y
        /\ \A x, y \in places : f[x] = f[y] => x = y
    BY <2>1, <2>2, <2>4, <2>5, <2>6
  <2>8. Cardinality(back) = Cardinality(places)
    BY <2>7, SameSize
  <2> QED BY <2>7, <2>8
<1>8. \A p \in 1 .. n : [rec(p) EXCEPT !.slot = 0] = bare(row[p], exp[p])
  BY DEF rec, Returned
<1>9. { [x EXCEPT !.slot = 0] : x \in back } = { bare(row[p], exp[p]) : p \in 1 .. n }
  <2> DEFINE zero(x) == [x EXCEPT !.slot = 0]
  <2>1. \A p \in 1 .. n : zero(rec(p)) = bare(row[p], exp[p])
    BY <1>8
  <2> HIDE DEF bare, zero
  <2>2. { zero(x) : x \in back } = { zero(rec(p)) : p \in 1 .. n }
    BY <1>6
  <2>3. { zero(rec(p)) : p \in 1 .. n } = { bare(row[p], exp[p]) : p \in 1 .. n }
    BY <2>1
  <2> QED BY <2>2, <2>3 DEF zero
<1> HIDE DEF bare
<1>10. { bare(row[p], exp[p]) : p \in 1 .. n } = UNION { { bare(r, e) : e \in picks[r] } : r \in 1 .. R }
  <2>1. ASSUME NEW p \in 1 .. n
        PROVE  \E r \in 1 .. R : bare(row[p], exp[p]) \in { bare(r, e) : e \in picks[r] }
    <3>1. row[p] \in 1 .. R /\ exp[p] \in picks[row[p]]
      BY DEF Serves
    <3> QED BY <3>1
  <2>2. ASSUME NEW r \in 1 .. R, NEW e \in picks[r]
        PROVE  \E p \in 1 .. n : bare(r, e) = bare(row[p], exp[p])
    <3>1. PICK p \in 1 .. n : row[p] = r /\ exp[p] = e
      BY DEF Serves
    <3> QED BY <3>1
  <2> QED BY <2>1, <2>2
<1> QED BY <1>7, <1>9, <1>10 DEF bare, Returns

\* The rows among A that chose an expert, and the entries of that expert that hold
\* a row of A.
Choosers(picks, A, e) == { r \in A : e \in picks[r] }
Seats(row, counts, A, e) == { i \in 1 .. counts[e] : row[Offsets(counts)[e] + i] \in A }

(***************************************************************************)
(* Among some rows, those that chose an expert are as many as the rows     *)
(* of its positions.                                                       *)
(***************************************************************************)
LEMMA ChoosersAre ==
  ASSUME NEW n \in Nat, NEW R \in Nat, NEW E \in Nat, NEW row, NEW exp, NEW counts, NEW picks,
         DOMAIN counts = 1 .. E, Serves(row, exp, n, R, picks), Sorted(exp, counts, n, E),
         NEW e \in 1 .. E, NEW A \in SUBSET (1 .. R)
  PROVE  Cardinality(Choosers(picks, A, e)) = Cardinality(Seats(row, counts, A, e))
<1> DEFINE S == { i \in 1 .. counts[e] : row[Offsets(counts)[e] + i] \in A }
           T == { r \in A : e \in picks[r] }
           f == [i \in S |-> row[Offsets(counts)[e] + i]]
<1>1. PICK o \in Nat, m \in Nat : o = Offsets(counts)[e] /\ m = counts[e]
  BY DEF Sorted
<1>2. \A i \in 1 .. m : o + i \in 1 .. n /\ exp[o + i] = e
  <2>1. PICK saved : saved = SavedSlices(Rows(row, exp, n), Products(row, exp, n), counts, Offsets(counts))
    OBVIOUS
  <2> HIDE DEF S, T, f
  <2>2. Saved(saved, row, exp, counts, n, E)
    BY <2>1, SavedIs
  <2> QED BY <1>1, <2>2 DEF Saved
<1>3. IsFiniteSet(S)
  <2>1. IsFiniteSet(1 .. m)
    BY FS_Interval
  <2>2. S \in SUBSET (1 .. m)
    BY <1>1
  <2> HIDE DEF S
  <2> QED BY <2>1, <2>2, FS_Subset
<1>4. \A i \in S : i \in 1 .. m /\ row[o + i] \in A /\ f[i] = row[o + i]
  BY <1>1
<1>5. \A i \in 1 .. m : row[o + i] \in A => i \in S
  BY <1>1
<1>6. f \in [S -> T]
  <2>1. \A i \in S : row[o + i] \in T
    <3> TAKE i \in S
    <3>1. o + i \in 1 .. n /\ exp[o + i] = e /\ row[o + i] \in A
      BY <1>2, <1>4
    <3>2. e \in picks[row[o + i]]
      BY <3>1 DEF Serves
    <3> QED BY <3>1, <3>2
  <2> HIDE DEF S, T
  <2> QED BY <1>1, <2>1
<1> HIDE DEF S, f
<1>7. \A r \in T : \E i \in S : f[i] = r
  <2> TAKE r \in T
  <2>1. r \in 1 .. R /\ r \in A /\ e \in picks[r]
    OBVIOUS
  <2>2. PICK p \in 1 .. n : row[p] = r /\ exp[p] = e
    BY <2>1 DEF Serves
  <2>3. o < p /\ p <= o + m
    BY <1>1, <2>2 DEF Sorted
  <2>4. PICK i \in 1 .. m : p = o + i
    <3>1. p - o \in 1 .. m /\ p = o + (p - o)
      BY <2>3
    <3> QED BY <3>1
  <2>5. i \in S
    BY <1>5, <2>1, <2>2, <2>4
  <2> QED BY <1>4, <2>2, <2>4, <2>5
<1>8. ASSUME NEW i \in S, NEW j \in S, f[i] = f[j] PROVE i = j
  <2>1. /\ i \in 1 .. m /\ j \in 1 .. m /\ o + i \in 1 .. n /\ o + j \in 1 .. n
        /\ exp[o + i] = e /\ exp[o + j] = e
    BY <1>2, <1>4
  <2>2. row[o + i] = row[o + j]
    BY <1>4, <1>8
  <2>3. o + i = o + j
    BY <2>1, <2>2 DEF Serves
  <2> QED BY <2>1, <2>3
<1> HIDE DEF T
<1>9. Cardinality(T) = Cardinality(S)
  BY <1>3, <1>6, <1>7, <1>8, SameSize
<1> QED BY <1>9 DEF S, T, Choosers, Seats

(***************************************************************************)
(* The rows of a sequence: those whose number, divided by its length, is   *)
(* the sequence's.                                                         *)
(***************************************************************************)
LEMMA SequenceRows ==
  ASSUME NEW length \in Nat \ {0}, NEW R \in Nat, NEW s \in 1 .. R \div length
  PROVE  /\ (s - 1) * length + 1 .. s * length \in SUBSET (1 .. R)
         /\ \A x \in 1 .. R : (x - 1) \div length = s - 1 <=> x \in (s - 1) * length + 1 .. s * length
<1>1. PICK q \in Nat : q = R \div length /\ q * length <= R
  BY Quotient
<1>2. s \in 1 .. q
  BY <1>1
<1>3. PICK low \in Nat, high \in Nat : low = (s - 1) * length /\ high = s * length
  <2>1. s - 1 \in Nat /\ s \in Nat
    BY <1>2
  <2>2. (s - 1) * length \in Nat /\ s * length \in Nat
    BY <2>1
  <2> QED BY <2>2
<1>4. high <= R
  <2>1. s * length <= q * length
    BY <1>2
  <2>2. PICK top \in Nat : top = q * length
    BY <1>1
  <2> QED BY <1>1, <1>3, <2>1, <2>2
<1>5. ASSUME NEW x \in 1 .. R
      PROVE  (x - 1) \div length = s - 1 <=> x \in low + 1 .. high
  <2>1. PICK d \in Int : /\ d = (x - 1) \div length
                         /\ d * length <= x - 1 /\ x - 1 < (d + 1) * length
                         /\ \A g \in Int : g * length <= x - 1 => g <= d
                         /\ \A g \in Int : x - 1 < g * length => d < g
    <3>1. x - 1 \in Int
      OBVIOUS
    <3> QED BY <3>1, Quotient
  <2>2. ASSUME d = s - 1 PROVE x \in low + 1 .. high
    <3>1. (d + 1) * length = high /\ d * length = low
      BY <1>2, <1>3, <2>2
    <3> QED BY <1>3, <2>1, <3>1
  <2>3. ASSUME x \in low + 1 .. high PROVE d = s - 1
    <3>1. s - 1 \in Int /\ s \in Int /\ (s - 1) * length <= x - 1 /\ x - 1 < s * length
      BY <1>2, <1>3, <2>3
    <3>2. s - 1 <= d /\ d < s
      BY <2>1, <3>1
    <3> QED BY <3>1, <3>2
  <2> QED BY <2>1, <2>2, <2>3
<1>6. low + 1 .. high \in SUBSET (1 .. R)
  BY <1>3, <1>4
<1> QED BY <1>3, <1>5, <1>6

(***************************************************************************)
(* The counts of the balance loss are those of the sequences.              *)
(***************************************************************************)
LEMMA SequenceIs ==
  ASSUME NEW n \in Nat, NEW R \in Nat, NEW E \in Nat, NEW row, NEW exp, NEW counts, NEW picks,
         DOMAIN counts = 1 .. E, Serves(row, exp, n, R, picks), Sorted(exp, counts, n, E),
         NEW context,
         context.experts = SavedSlices(Rows(row, exp, n), Products(row, exp, n), counts, Offsets(counts)),
         NEW length \in Int
  PROVE  CountsMatch(SequenceCounts(context, R, E, length), picks, length)
<1>1. CASE length <= 0 \/ R % length # 0
  BY <1>1 DEF CountsMatch, SequenceCounts
<1>2. CASE ~(length <= 0 \/ R % length # 0)
  <2> DEFINE held == SequenceCounts(context, R, E, length)
  <2>1. PICK saved : saved = context.experts /\ Saved(saved, row, exp, counts, n, E)
    BY SavedIs
  <2>2. held = [s \in 1 .. R \div length |-> [e \in 1 .. E |->
                  IF e \notin DOMAIN saved THEN 0
                  ELSE Cardinality({ i \in DOMAIN saved[e] : (saved[e][i].row - 1) \div length = s - 1 })]]
    BY <1>2, <2>1 DEF SequenceCounts
  <2> HIDE DEF held
  <2>3. ASSUME NEW s \in 1 .. R \div length, NEW e \in 1 .. E
        PROVE  held[s][e] = Cardinality({ r \in (s - 1) * length + 1 .. s * length : e \in picks[r] })
    <3>1. PICK A \in SUBSET (1 .. R) :
            /\ A = (s - 1) * length + 1 .. s * length
            /\ \A x \in 1 .. R : (x - 1) \div length = s - 1 <=> x \in A
      <4>1. length \in Nat \ {0}
        BY <1>2
      <4>2. /\ (s - 1) * length + 1 .. s * length \in SUBSET (1 .. R)
            /\ \A x \in 1 .. R : (x - 1) \div length = s - 1 <=> x \in (s - 1) * length + 1 .. s * length
        BY <4>1, SequenceRows
      <4>3. PICK A : A = (s - 1) * length + 1 .. s * length
        OBVIOUS
      <4> QED BY <4>2, <4>3
    <3>2. Cardinality({ r \in A : e \in picks[r] })
            = Cardinality({ i \in 1 .. counts[e] : row[Offsets(counts)[e] + i] \in A })
      <4>1. Cardinality(Choosers(picks, A, e)) = Cardinality(Seats(row, counts, A, e))
        BY ChoosersAre
      <4> QED BY <4>1 DEF Choosers, Seats
    <3>3. \A i \in 1 .. counts[e] : row[Offsets(counts)[e] + i] \in 1 .. R
      <4> TAKE i \in 1 .. counts[e]
      <4>1. Offsets(counts)[e] + i \in 1 .. n
        BY <2>1 DEF Saved
      <4> QED BY <4>1 DEF Serves
    <3>4. CASE e \notin DOMAIN saved
      <4>1. counts[e] \in Nat /\ ~(counts[e] > 0)
        BY <2>1, <3>4 DEF Saved, Sorted
      <4>2. { i \in 1 .. counts[e] : row[Offsets(counts)[e] + i] \in A } = {}
        BY <4>1
      <4>3. held[s][e] = 0
        BY <2>2, <3>4
      <4> QED BY <3>1, <3>2, <4>2, <4>3, FS_EmptySet
    <3>5. CASE e \in DOMAIN saved
      <4>1. /\ DOMAIN saved[e] = 1 .. counts[e]
            /\ \A i \in 1 .. counts[e] : saved[e][i].row = row[Offsets(counts)[e] + i]
        <5>1. /\ DOMAIN saved[e] = 1 .. counts[e]
              /\ \A i \in 1 .. counts[e] :
                   saved[e][i] = [row |-> row[Offsets(counts)[e] + i],
                                  weight |-> <<row[Offsets(counts)[e] + i], e>>,
                                  output |-> [expert |-> e, input |-> row[Offsets(counts)[e] + i]]]
          BY <2>1, <3>5 DEF Saved
        <5>2. ASSUME NEW i \in 1 .. counts[e]
              PROVE  saved[e][i].row = row[Offsets(counts)[e] + i]
          <6>1. saved[e][i] = [row |-> row[Offsets(counts)[e] + i],
                               weight |-> <<row[Offsets(counts)[e] + i], e>>,
                               output |-> [expert |-> e, input |-> row[Offsets(counts)[e] + i]]]
            BY <5>1
          <6> QED BY <6>1
        <5>3. DOMAIN saved[e] = 1 .. counts[e]
          BY <5>1
        <5> QED BY <5>2, <5>3
      <4>2. { i \in DOMAIN saved[e] : (saved[e][i].row - 1) \div length = s - 1 }
              = { i \in 1 .. counts[e] : row[Offsets(counts)[e] + i] \in A }
        BY <3>1, <3>3, <4>1
      <4>3. held[s][e] = Cardinality({ i \in DOMAIN saved[e] : (saved[e][i].row - 1) \div length = s - 1 })
        BY <2>2, <3>5
      <4> QED BY <3>1, <3>2, <4>2, <4>3
    <3> QED BY <3>4, <3>5
  <2>4. DOMAIN held = 1 .. R \div length /\ \A s \in DOMAIN held : DOMAIN held[s] = 1 .. E
    BY <2>2
  <2> QED BY <2>3, <2>4 DEF CountsMatch, held
<1> QED BY <1>1, <1>2

\* What one forward pass and its backward pass do for a batch of R rows.
Delivers(pass, chosen, R, E, k, length) ==
  /\ DOMAIN chosen = 1 .. R /\ Len(chosen) = R
  /\ PassReaches(pass, chosen, k)
  /\ CountsMatch(SequenceCounts(pass, R, E, length), chosen, length)
  /\ pass.counts \in Seq(Nat) /\ DOMAIN pass.counts = 1 .. E /\ Len(pass.counts) = E
  /\ Total(pass.counts) = k * R
  /\ \A e \in 1 .. E : pass.counts[e] = Cardinality({ r \in 1 .. R : e \in chosen[r] })

(***************************************************************************)
(* One batch: each of its rows reaches its experts and comes back.         *)
(***************************************************************************)
LEMMA PassIs ==
  ASSUME NEW E \in Nat \ {0}, NEW bias \in [1 .. E -> Int], NEW k \in 1 .. E,
         NEW batch \in Seq([1 .. E -> Int]), NEW length \in Int
  PROVE  Delivers(Forward(batch, bias, k), Chosen(batch, bias, k), Len(batch), E, k, length)
<1> DEFINE R == Len(batch)
           scores(r) == [e \in DOMAIN bias |-> batch[r][e] + bias[e]]
           selected == Gate(batch, bias, k)
           picks == Chosen(batch, bias, k)
           pass == Forward(batch, bias, k)
<1>1. R \in Nat /\ DOMAIN batch = 1 .. R /\ DOMAIN bias = 1 .. E /\ Len(bias) = E /\ k \in Nat \ {0}
  OBVIOUS
<1>2. \A r \in 1 .. R : scores(r) \in [1 .. E -> Int]
  <2> TAKE r \in 1 .. R
  <2>1. batch[r] \in [1 .. E -> Int]
    OBVIOUS
  <2>2. \A e \in 1 .. E : batch[r][e] + bias[e] \in Int
    BY <2>1, SMTT(30)
  <2> QED BY <1>1, <2>2
<1>3. selected = [r \in 1 .. R |-> TopKIndices(scores(r), k)] /\ picks = [r \in 1 .. R |-> Best(scores(r), k)]
  BY <1>1 DEF Gate, Chosen
<1> HIDE DEF R, scores, selected, picks
<1>4. ASSUME NEW r \in 1 .. R
      PROVE  /\ selected[r] \in [1 .. k -> 1 .. E]
             /\ \A s, t \in 1 .. k : selected[r][s] = selected[r][t] => s = t
             /\ picks[r] = { selected[r][s] : s \in 1 .. k }
             /\ Cardinality(picks[r]) = k
  <2>1. PICK v \in [1 .. E -> Int] : v = scores(r)
    BY <1>2
  <2>2. selected[r] = TopKIndices(v, k) /\ picks[r] = Best(v, k)
    BY <1>3, <2>1
  <2>3. Gates(selected[r], picks[r], E, k)
    BY <2>2, GateIs
  <2> QED BY <2>3 DEF Gates
<1>5. Selects(selected, picks, R, E, k)
  <2>1. selected \in [1 .. R -> [1 .. k -> 1 .. E]]
    <3>1. selected = [r \in 1 .. R |-> selected[r]]
      BY <1>3
    <3> QED BY <1>4, <3>1
  <2> QED BY <1>4, <2>1 DEF Selects
<1>6. Len(selected) = R /\ DOMAIN picks = 1 .. R /\ Len(picks) = R
  BY <1>1, <1>3
<1>7. PICK counts : counts = TokenCounts(selected, E, k)
  OBVIOUS
<1>8. PICK n \in Nat : n = R * k
  BY <1>1, VisitsAre
<1>9. /\ counts \in Seq(Nat) /\ DOMAIN counts = 1 .. E /\ Len(counts) = E /\ Total(counts) = n
      /\ \E row, exp : /\ Serves(row, exp, n, R, picks)
                       /\ Sorted(exp, counts, n, E)
                       /\ Gather(selected, Offsets(counts), k) = Rows(row, exp, n)
  BY <1>1, <1>5, <1>7, <1>8, GatherIs
<1>10. PICK row, exp : /\ Serves(row, exp, n, R, picks)
                       /\ Sorted(exp, counts, n, E)
                       /\ Gather(selected, Offsets(counts), k) = Rows(row, exp, n)
  BY <1>9
<1>11. GroupedMatMul(Rows(row, exp, n), counts) = Products(row, exp, n)
  BY <1>9, <1>10, GroupedIs
<1>12. /\ pass.output = Combined(Rows(row, exp, n), Products(row, exp, n), R)
       /\ pass.counts = counts
       /\ pass.experts = SavedSlices(Rows(row, exp, n), Products(row, exp, n), counts, Offsets(counts))
  <2>1. pass = Grouped(Rows(row, exp, n), R, counts, Offsets(counts))
    BY <1>1, <1>6, <1>7, <1>10 DEF Forward, Selected, Routed, Dispatched, selected
  <2> HIDE DEF pass
  <2> QED BY <1>11, <2>1 DEF Grouped
<1> HIDE DEF pass
<1>13. k * R = n
  BY <1>1, <1>8
<1>14. PassReaches(pass, picks, k)
  <2>1. ASSUME NEW r \in 1 .. R
        PROVE  /\ Len(pass.output[r]) = k
               /\ { pass.output[r][i] : i \in DOMAIN pass.output[r] }
                    = { [weight |-> <<r, e>>, output |-> [expert |-> e, input |-> r]] : e \in picks[r] }
    <3>1. PICK out : out = Combined(Rows(row, exp, n), Products(row, exp, n), R)[r] /\ out = pass.output[r]
      BY <1>12
    <3>2. Given(out, r, picks[r])
      BY <1>1, <1>10, <3>1, OutputIs
    <3> QED BY <1>4, <3>1, <3>2 DEF Given
  <2>2. PICK back : back = Backward(pass)
    OBVIOUS
  <2>3. Returns(back, picks, n, R)
    BY <1>1, <1>9, <1>10, <1>12, <2>2, BackwardIs
  <2> QED BY <1>6, <1>13, <2>1, <2>2, <2>3 DEF PassReaches, Returns
<1>15. CountsMatch(SequenceCounts(pass, R, E, length), picks, length)
  BY <1>1, <1>9, <1>10, <1>12, SequenceIs
<1>16. ASSUME NEW e \in 1 .. E
       PROVE  pass.counts[e] = Cardinality({ r \in 1 .. R : e \in picks[r] })
  <2>1. PICK m \in Nat : m = counts[e]
    <3>1. counts \in Seq(Nat) /\ DOMAIN counts = 1 .. E
      BY <1>9
    <3>2. counts[e] \in Nat
      BY <3>1
    <3> QED BY <3>2
  <2>2. Cardinality({ r \in 1 .. R : e \in picks[r] })
          = Cardinality({ i \in 1 .. m : row[Offsets(counts)[e] + i] \in 1 .. R })
    <3>1. PICK A \in SUBSET (1 .. R) : A = 1 .. R
      OBVIOUS
    <3>2. DOMAIN counts = 1 .. E
      BY <1>9
    <3>3. Cardinality(Choosers(picks, A, e)) = Cardinality(Seats(row, counts, A, e))
      BY <1>1, <1>10, <3>2, ChoosersAre
    <3> QED BY <2>1, <3>1, <3>3 DEF Choosers, Seats
  <2>3. { i \in 1 .. m : row[Offsets(counts)[e] + i] \in 1 .. R } = 1 .. m
    <3> SUFFICES ASSUME NEW i \in 1 .. m PROVE row[Offsets(counts)[e] + i] \in 1 .. R
      OBVIOUS
    <3>1. Saved(pass.experts, row, exp, counts, n, E)
      BY <1>9, <1>10, <1>12, SavedIs
    <3>2. Offsets(counts)[e] + i \in 1 .. n
      BY <2>1, <3>1 DEF Saved
    <3> QED BY <1>10, <3>2 DEF Serves
  <2>4. Cardinality(1 .. m) = m
    BY FS_Interval
  <2> QED BY <1>12, <2>1, <2>2, <2>3, <2>4
<1> QED BY <1>6, <1>9, <1>12, <1>13, <1>14, <1>15, <1>16 DEF Delivers, R, picks, pass

\* A table of B rows of E numbers, what its rows add up to, and what its columns do.
Table(m, w, load, B, E) ==
  /\ m \in [1 .. B -> Seq(Int)] /\ \A b \in 1 .. B : Len(m[b]) = E
  /\ w \in Seq(Int) /\ Len(w) = B /\ \A b \in 1 .. B : w[b] = Total(m[b])
  /\ load \in Seq(Int) /\ Len(load) = E
  /\ \A e \in 1 .. E : load[e] = Total([b \in 1 .. B |-> m[b][e]])

(***************************************************************************)
(* The sums of the columns of a table add up to the sums of its rows.      *)
(***************************************************************************)
LEMMA ColumnsTotal ==
  ASSUME NEW B \in Nat, NEW E \in Nat, NEW m, NEW w, NEW load, Table(m, w, load, B, E)
  PROVE  Total(load) = Total(w)
<1> DEFINE column(e) == [b \in 1 .. B |-> m[b][e]]
           first(j) == [e \in 1 .. E |-> PrefixSums(column(e))[j]]
           W == PrefixSums(w)
           N == { j \in Nat : j \in 0 .. B => Total(first(j)) = W[j] }
<1>0. /\ m \in [1 .. B -> Seq(Int)] /\ \A b \in 1 .. B : Len(m[b]) = E
      /\ w \in Seq(Int) /\ Len(w) = B /\ \A b \in 1 .. B : w[b] = Total(m[b])
      /\ load \in Seq(Int) /\ Len(load) = E
      /\ \A e \in 1 .. E : load[e] = Total(column(e))
  BY DEF Table
<1> HIDE DEF column
<1>1. ASSUME NEW b \in 1 .. B PROVE m[b] \in Seq(Int) /\ DOMAIN m[b] = 1 .. E /\ Len(m[b]) = E /\ Total(m[b]) \in Int
  <2>1. m[b] \in Seq(Int) /\ Len(m[b]) = E
    BY <1>0
  <2> QED BY <2>1, TotalType
<1>2. ASSUME NEW e \in 1 .. E
      PROVE  /\ Total(column(e)) = PrefixSums(column(e))[B]
             /\ PrefixSums(column(e)) \in [0 .. B -> Int]
             /\ PrefixSums(column(e))[0] = 0
             /\ \A j \in 1 .. B : PrefixSums(column(e))[j] = PrefixSums(column(e))[j - 1] + m[j][e]
  <2>1. \A b \in 1 .. B : m[b][e] \in Int
    BY <1>1
  <2>2. PICK c : c = column(e)
    OBVIOUS
  <2>3. c \in Seq(Int) /\ Len(c) = B /\ \A j \in 1 .. B : c[j] = m[j][e]
    BY <2>1, <2>2 DEF column
  <2>4. /\ PrefixSums(c) \in [0 .. B -> Int]
        /\ PrefixSums(c)[0] = 0
        /\ \A j \in 1 .. B : PrefixSums(c)[j] = PrefixSums(c)[j - 1] + c[j]
    BY <2>3, PrefixSumsDef
  <2>5. Total(c) = PrefixSums(c)[B]
    BY <2>3 DEF Total
  <2> QED BY <2>2, <2>3, <2>4, <2>5
<1>3. ASSUME NEW e \in 1 .. E PROVE load[e] = Total(column(e))
  BY <1>0
<1>4. W \in [0 .. B -> Int] /\ W[0] = 0 /\ (\A j \in 1 .. B : W[j] = W[j - 1] + w[j]) /\ Total(w) = W[B]
  BY <1>0, PrefixSumsDef DEF Total
<1> HIDE DEF W
<1>5. ASSUME NEW j \in 0 .. B
      PROVE  first(j) \in Seq(Int) /\ Len(first(j)) = E /\ \A e \in 1 .. E : first(j)[e] = PrefixSums(column(e))[j]
  <2>1. \A e \in 1 .. E : PrefixSums(column(e))[j] \in Int
    BY <1>2
  <2> QED BY <2>1
<1> HIDE DEF first
<1>6. Total(first(0)) = W[0]
  <2>1. PICK z : z = first(0)
    OBVIOUS
  <2>2. 0 \in 0 .. B
    OBVIOUS
  <2>3. z \in Seq(Int) /\ Len(z) = E
    BY <1>5, <2>1, <2>2
  <2>4. ASSUME NEW e \in 1 .. E PROVE z[e] = z[e] + z[e]
    <3>1. z[e] = PrefixSums(column(e))[0]
      BY <1>5, <2>1, <2>2
    <3>2. z[e] = 0
      BY <1>2, <3>1
    <3> QED BY <3>2
  <2>5. Total(z) = Total(z) + Total(z)
    <3>1. \A i \in 1 .. Len(z) : z[i] = z[i] + z[i]
      BY <2>3, <2>4
    <3> QED BY <2>3, <3>1, TotalAdds
  <2>6. Total(z) \in Int
    BY <2>3, TotalType
  <2> QED BY <1>4, <2>1, <2>5, <2>6
<1>7. ASSUME NEW j \in Nat, j + 1 \in 0 .. B, Total(first(j)) = W[j]
      PROVE  Total(first(j + 1)) = W[j + 1]
  <2>1. j \in 0 .. B /\ j + 1 \in 1 .. B
    BY <1>7
  <2>2. PICK a : a = first(j)
    OBVIOUS
  <2>3. PICK c : c = first(j + 1)
    OBVIOUS
  <2>4. PICK row : row = m[j + 1]
    OBVIOUS
  <2>5. a \in Seq(Int) /\ Len(a) = E
    BY <1>5, <2>1, <2>2
  <2>6. c \in Seq(Int) /\ Len(c) = E
    BY <1>5, <1>7, <2>3
  <2>7. row \in Seq(Int) /\ Len(row) = E
    BY <1>1, <2>1, <2>4
  <2>8. ASSUME NEW e \in 1 .. E PROVE c[e] = a[e] + row[e]
    <3>1. a[e] = PrefixSums(column(e))[j]
      BY <1>5, <2>1, <2>2
    <3>2. c[e] = PrefixSums(column(e))[j + 1]
      BY <1>5, <1>7, <2>3
    <3>3. PrefixSums(column(e))[j + 1] = PrefixSums(column(e))[(j + 1) - 1] + m[j + 1][e]
      BY <1>2, <2>1
    <3>4. (j + 1) - 1 = j
      OBVIOUS
    <3> QED BY <2>4, <3>1, <3>2, <3>3, <3>4
  <2>9. Total(c) = Total(a) + Total(row)
    <3>1. \A i \in 1 .. Len(c) : c[i] = a[i] + row[i]
      BY <2>6, <2>8
    <3>2. Len(a) = Len(c) /\ Len(row) = Len(c)
      BY <2>5, <2>6, <2>7
    <3> QED BY <2>5, <2>6, <2>7, <3>1, <3>2, TotalAdds
  <2>10. w[j + 1] = Total(row)
    BY <1>0, <2>1, <2>4
  <2>11. W[j + 1] = W[(j + 1) - 1] + w[j + 1]
    BY <1>4, <2>1
  <2>12. (j + 1) - 1 = j
    OBVIOUS
  <2> QED BY <1>7, <2>2, <2>3, <2>9, <2>10, <2>11, <2>12
<1>8. \A j \in Nat : j \in N
  <2>1. 0 \in N
    BY <1>6
  <2>2. ASSUME NEW j \in Nat, j \in N PROVE j + 1 \in N
    <3>1. SUFFICES ASSUME j + 1 \in 0 .. B PROVE Total(first(j + 1)) = W[j + 1]
      OBVIOUS
    <3>2. j \in 0 .. B
      BY <3>1
    <3>3. Total(first(j)) = W[j]
      BY <2>2, <3>2
    <3> QED BY <1>7, <3>1, <3>3
  <2> HIDE DEF N
  <2> QED BY <2>1, <2>2, SetInduction
<1>9. Total(first(B)) = W[B]
  <2>1. B \in N /\ B \in 0 .. B
    BY <1>8
  <2> QED BY <2>1
<1>10. first(B) = load
  <2>1. PICK a : a = first(B)
    OBVIOUS
  <2>2. B \in 0 .. B
    OBVIOUS
  <2>3. a \in Seq(Int) /\ Len(a) = E
    BY <1>5, <2>1, <2>2
  <2>4. ASSUME NEW e \in 1 .. E PROVE a[e] = load[e]
    BY <1>2, <1>3, <1>5, <2>1, <2>2
  <2> QED BY <1>0, <2>1, <2>3, <2>4
<1> QED BY <1>4, <1>9, <1>10

\* A correction moves against the excess it corrects.
Follows(new, old, excess) ==
  /\ (new > old) = (excess < 0)
  /\ (new < old) = (excess > 0)

(***************************************************************************)
(* The correction of one expert follows the sign of its excess.            *)
(***************************************************************************)
LEMMA CorrectionSign ==
  ASSUME NEW old \in Int, NEW share \in Int, NEW all \in Int, NEW E \in Nat
  PROVE  Follows(old + Sign(all - share * E), old, share * E - all)
<1>1. PICK product \in Int : product = share * E
  OBVIOUS
<1>2. CASE all - product > 0
  <2>1. Sign(all - product) = 1
    BY <1>2 DEF Sign
  <2> QED BY <1>1, <1>2, <2>1 DEF Follows
<1>3. CASE all - product < 0
  <2>1. Sign(all - product) = -1
    BY <1>3 DEF Sign
  <2> QED BY <1>1, <1>3, <2>1 DEF Follows
<1>4. CASE all - product = 0
  <2>1. Sign(all - product) = 0
    BY <1>4 DEF Sign
  <2> QED BY <1>1, <1>4, <2>1 DEF Follows
<1> QED BY <1>1, <1>2, <1>3, <1>4

(***************************************************************************)
(* Every row reaches its experts and comes back, and the router's bias     *)
(* moves towards the mean load: for any number of experts, biases, logits, *)
(* batches, choices per row and length of a sequence.                      *)
(***************************************************************************)
THEOREM ExpertsServed ==
  ASSUME NEW E \in Nat \ {0}, NEW bias \in [1 .. E -> Int], NEW k \in 1 .. E,
         NEW batches \in Seq(Seq([1 .. E -> Int])), NEW length \in Int
  PROVE  ExpertsSeeTheirTokens(batches, bias, k, length)
<1> DEFINE B == Len(batches)
           pass(b) == Forward(batches[b], bias, k)
           picks(b) == Chosen(batches[b], bias, k)
<1>1. B \in Nat /\ DOMAIN batches = 1 .. B /\ DOMAIN bias = 1 .. E /\ Len(bias) = E /\ k \in Nat
  OBVIOUS
<1>2. ASSUME NEW b \in 1 .. B
      PROVE  /\ Delivers(pass(b), picks(b), Len(batches[b]), E, k, length)
             /\ DOMAIN batches[b] = 1 .. Len(batches[b]) /\ Len(batches[b]) \in Nat
  <2>1. PICK batch \in Seq([1 .. E -> Int]) : batch = batches[b]
    OBVIOUS
  <2>2. Delivers(Forward(batch, bias, k), Chosen(batch, bias, k), Len(batch), E, k, length)
    BY <2>1, PassIs
  <2> QED BY <2>1, <2>2
<1> HIDE DEF B
<1>3. ASSUME NEW b \in 1 .. B
      PROVE  /\ PassReaches(pass(b), picks(b), k)
             /\ CountsMatch(SequenceCounts(pass(b), Len(picks(b)), Len(bias), length), picks(b), length)
  <2>1. Delivers(pass(b), picks(b), Len(batches[b]), E, k, length)
    BY <1>2
  <2> HIDE DEF pass, picks
  <2> QED BY <1>1, <2>1 DEF Delivers
<1> DEFINE counts(b) == pass(b).counts
           w == [b \in 1 .. B |-> k * Len(batches[b])]
           load == Load(batches, bias, k)
<1>4. ASSUME NEW b \in 1 .. B
      PROVE  /\ counts(b) \in Seq(Int) /\ Len(counts(b)) = E /\ Total(counts(b)) = k * Len(batches[b])
             /\ k * Len(batches[b]) \in Int
             /\ \A e \in 1 .. E :
                  /\ counts(b)[e] \in Int
                  /\ counts(b)[e] = Cardinality({ row \in DOMAIN batches[b] : e \in picks(b)[row] })
  <2>1. Delivers(pass(b), picks(b), Len(batches[b]), E, k, length) /\ Len(batches[b]) \in Nat /\ DOMAIN batches[b] = 1 .. Len(batches[b])
    BY <1>2
  <2> HIDE DEF pass, picks
  <2>2. /\ counts(b) \in Seq(Nat) /\ DOMAIN counts(b) = 1 .. E /\ Len(counts(b)) = E /\ Total(counts(b)) = k * Len(batches[b])
        /\ \A e \in 1 .. E : counts(b)[e] = Cardinality({ r \in 1 .. Len(batches[b]) : e \in picks(b)[r] })
    BY <2>1 DEF Delivers
  <2>3. counts(b) \in Seq(Int) /\ \A e \in 1 .. E : counts(b)[e] \in Int
    BY <2>2
  <2>4. k * Len(batches[b]) \in Int
    BY <1>1, <2>1
  <2> QED BY <2>1, <2>2, <2>3, <2>4
<1>5. load = [e \in 1 .. E |-> Total([b \in 1 .. B |-> counts(b)[e]])]
  BY <1>1 DEF Load
<1>6. AllChoices(batches, k) = Total(w)
  BY <1>1 DEF AllChoices
<1>7. ASSUME NEW e \in 1 .. E
      PROVE  Used(batches, bias, k, e) = Total([b \in 1 .. B |-> counts(b)[e]])
  <2>1. Used(batches, bias, k, e)
          = Total([b \in 1 .. B |-> Cardinality({ row \in DOMAIN batches[b] : e \in picks(b)[row] })])
    BY <1>1 DEF Used
  <2> HIDE DEF pass, picks, counts
  <2>2. [b \in 1 .. B |-> Cardinality({ row \in DOMAIN batches[b] : e \in picks(b)[row] })]
          = [b \in 1 .. B |-> counts(b)[e]]
    BY <1>4
  <2> QED BY <2>1, <2>2
<1> HIDE DEF pass, picks, counts, load
<1>8. w \in Seq(Int) /\ Len(w) = B /\ \A b \in 1 .. B : w[b] = Total(counts(b))
  <2>1. \A b \in 1 .. B : k * Len(batches[b]) \in Int
    BY <1>4
  <2>2. w \in Seq(Int) /\ Len(w) = B /\ \A b \in 1 .. B : w[b] = k * Len(batches[b])
    BY <1>1, <2>1
  <2> HIDE DEF w
  <2> QED BY <1>4, <2>2
<1> HIDE DEF w
<1>9. ASSUME NEW e \in 1 .. E PROVE load[e] = Total([b \in 1 .. B |-> counts(b)[e]]) /\ load[e] \in Int
  <2>1. [b \in 1 .. B |-> counts(b)[e]] \in Seq(Int)
    BY <1>1, <1>4
  <2>2. load[e] = Total([b \in 1 .. B |-> counts(b)[e]])
    BY <1>5
  <2> QED BY <2>1, <2>2, TotalType
<1>10. load \in Seq(Int) /\ Len(load) = E
  <2>1. load = [e \in 1 .. E |-> load[e]]
    BY <1>5
  <2>2. \A e \in 1 .. E : load[e] \in Int
    BY <1>9
  <2>3. load \in [1 .. E -> Int]
    BY <2>1, <2>2
  <2> QED BY <2>3
<1>11. Total(load) = Total(w) /\ Total(w) \in Int
  <2>1. PICK m : m = [b \in 1 .. B |-> counts(b)]
    OBVIOUS
  <2>2. m \in [1 .. B -> Seq(Int)]
    BY <1>4, <2>1
  <2>3. \A b \in 1 .. B : Len(m[b]) = E /\ w[b] = Total(m[b])
    BY <1>4, <1>8, <2>1
  <2>4. ASSUME NEW e \in 1 .. E PROVE load[e] = Total([b \in 1 .. B |-> m[b][e]])
    <3>1. [b \in 1 .. B |-> m[b][e]] = [b \in 1 .. B |-> counts(b)[e]]
      BY <2>1
    <3> QED BY <1>9, <3>1
  <2>5. Total(load) = Total(w)
    <3>1. (\A b \in 1 .. B : Len(m[b]) = E) /\ (\A b \in 1 .. B : w[b] = Total(m[b]))
      BY <2>3
    <3>2. \A e \in 1 .. E : load[e] = Total([b \in 1 .. B |-> m[b][e]])
      BY <2>4
    <3>3. E \in Nat /\ B \in Nat /\ w \in Seq(Int) /\ Len(w) = B
      BY <1>1, <1>8
    <3>4. Table(m, w, load, B, E)
      BY <1>10, <2>2, <3>1, <3>2, <3>3 DEF Table
    <3> QED BY <3>3, <3>4, ColumnsTotal
  <2> QED BY <1>8, <2>5, TotalType
<1>12. ASSUME NEW e \in 1 .. E
       PROVE  Follows(UpdateRouterBias(bias, load)[e], bias[e],
                      Used(batches, bias, k, e) * Len(bias) - AllChoices(batches, k))
  <2>1. PICK share \in Int, all \in Int, old \in Int :
          /\ share = load[e] /\ share = Used(batches, bias, k, e)
          /\ all = Total(load) /\ all = AllChoices(batches, k)
          /\ old = bias[e]
    BY <1>6, <1>7, <1>9, <1>11
  <2>2. UpdateRouterBias(bias, load)[e] = old + Sign(all - share * E)
    BY <1>1, <2>1 DEF UpdateRouterBias
  <2>3. Follows(old + Sign(all - share * E), old, share * E - all)
    <3>1. E \in Nat
      OBVIOUS
    <3> QED BY <2>1, <3>1, CorrectionSign
  <2> QED BY <1>1, <2>1, <2>2, <2>3
<1> QED BY <1>1, <1>3, <1>12 DEF ExpertsSeeTheirTokens, Follows, pass, picks, load

=============================================================================
