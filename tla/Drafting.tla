------------------------------ MODULE Drafting ------------------------------
(***************************************************************************)
(* The DSpark drafter (model/dspark.go): which rows, tokens and previous    *)
(* tokens its heads see while they are trained and while they draft.        *)
(*                                                                         *)
(* A trunk row is known by what a causal forward lets it see: the tokens up *)
(* to it, the mask embedding standing for every draft position.  The heads  *)
(* choose a token from that and from the previous token.                    *)
(***************************************************************************)
EXTENDS Integers, Sequences, SequencesExt

CONSTANTS
  SequenceLen,  \* the drafter's context
  Mask,         \* draftMaskEmbedding
  Ignored       \* a target of -1

Least(x, y) == IF x < y THEN x ELSE y
Largest(x, y) == IF x > y THEN x ELSE y

-----------------------------------------------------------------------------
(* Training: flat arrays of batch * length entries, counted from 0 as in    *)
(* the code.                                                               *)

Flat(rows) == FlattenSeq(rows)
At(array, i) == array[i + 1]

DraftPositions(count, length) == Least(Largest(count, 1), length)

PrefixLength(count, length) == Largest(length - (DraftPositions(count, length) - 1), 1)

\* maskedInputs, one flat entry for each position.
MaskedInputs(inputs, length, prefix) ==
  [j \in 1 .. Len(inputs) |-> IF (j - 1) % length >= prefix THEN Mask ELSE inputs[j]]

\* What ForwardHiddenSuffix and TrainForwardSuffix let the row at a flat position see.
Seen(masked, length, source) ==
  SubSeq(masked, (source \div length) * length + 1, source + 1)

OwnTargetBug(inputs, targets, length, prefix, batch, index) ==
  IF index > 0 THEN At(targets, batch * length + prefix - 1 + index)
               ELSE At(inputs, batch * length + prefix - 1)

\* The token whose embedding biases a supervised row.
PreviousOf(inputs, targets, length, prefix, batch, index) ==
  IF index > 0 THEN At(targets, batch * length + prefix - 1 + index - 1)
               ELSE At(inputs, batch * length + prefix - 1)

\* The supervised rows of TrainStep and TrainHeadsStep, in order.
Supervised(inputRows, targetRows, count) ==
  LET length  == Len(inputRows[1])
      n       == DraftPositions(count, length)
      prefix  == PrefixLength(count, length)
      inputs  == Flat(inputRows)
      targets == Flat(targetRows)
      masked  == MaskedInputs(inputs, length, prefix)
  IN  [r \in 1 .. Len(inputRows) * n |->
         LET batch  == (r - 1) \div n
             index  == (r - 1) % n
             source == batch * length + prefix - 1 + index
         IN  [source   |-> source,
              seen     |-> Seen(masked, length, source),
              previous |-> PreviousOf(inputs, targets, length, prefix, batch, index),
              target   |-> At(targets, source)]]

\* gradLogits: the row whose gradient reaches each flat position, 0 where none does.
GradLogits(supervised, size) ==
  [j \in 0 .. size - 1 |->
     LET from == { r \in DOMAIN supervised : supervised[r].source = j /\ supervised[r].target # Ignored }
     IN  IF from = {} THEN 0 ELSE CHOOSE r \in from : TRUE]

-----------------------------------------------------------------------------
(* Drafting.                                                               *)

\* The row the first draft is read from: the last one of the context.
FirstBase(length, count) == length - count

\* The end of the context that leaves room for the placeholders.
DraftContext(context, count) ==
  LET keep == Least(Len(context), Largest(SequenceLen - (count - 1), 1))
  IN  SubSeq(context, Len(context) - keep + 1, Len(context))

Condition(row) == <<row.seen, row.previous>>

\* The token chosen by heads that learned rows: under a condition among them its
\* target, elsewhere no token of the windows.
Learned(rows, condition) ==
  LET known == { rows[r] : r \in { s \in DOMAIN rows : Condition(rows[s]) = condition } }
  IN  IF known = {} THEN Mask ELSE (CHOOSE row \in known : TRUE).target

\* Draft, with heads that learned rows.
Draft(context, wanted, rows) ==
  IF wanted <= 0 \/ context = << >> THEN << >>
  ELSE LET count  == Least(wanted, SequenceLen)
           prefix == DraftContext(context, count)
           input  == prefix \o [i \in 1 .. count - 1 |-> Mask]
           token[i \in 1 .. count] ==
             Learned(rows, <<SubSeq(input, 1, FirstBase(Len(input), count) + i),
                             IF i = 1 THEN prefix[Len(prefix)] ELSE token[i - 1]>>)
       IN  [i \in 1 .. count |-> token[i]]

\* DraftTokens: the trunk alone, one forward for each token, which is known by the
\* tokens it was chosen after.
DraftTokens(context, count) ==
  IF count <= 0 \/ context = << >> THEN << >>
  ELSE LET keep   == Least(Len(context), SequenceLen)
           window == SubSeq(context, Len(context) - keep + 1, Len(context))
           said[i \in 0 .. count] == IF i = 0 THEN window ELSE Append(said[i - 1], said[i - 1])
       IN  SubSeq(said[count], keep + 1, keep + count)

-----------------------------------------------------------------------------
(* Properties.                                                             *)

\* The windows of a stream that a loader cuts for training: inputs and targets one
\* token apart.
InputsOf(windows) == [b \in DOMAIN windows |-> Front(windows[b])]
TargetsOf(windows) == [b \in DOMAIN windows |-> Tail(windows[b])]

\* Heads can learn every supervised row when no two rows contradict each other.
Consistent(rows) ==
  \A r, s \in DOMAIN rows : Condition(rows[r]) = Condition(rows[s]) => rows[r].target = rows[s].target

\* A drafter that learned its training rows drafts what follows: after the part of a
\* training window that was not masked, Draft reads the rows and chains the previous
\* tokens that training supervised, however few drafts are asked for, with whatever
\* came before the window cut off; every position is trained by its own target only;
\* and a single token is drafted from the context the trunk alone would draft it from.
DraftsAsTrained(windows, count, before) ==
  LET inputs  == InputsOf(windows)
      targets == TargetsOf(windows)
      length  == Len(inputs[1])
      prefix  == PrefixLength(count, length)
      n       == DraftPositions(count, length)
      rows    == Supervised(inputs, targets, count)
      grads   == GradLogits(rows, Len(windows) * length)
  IN  /\ length = SequenceLen /\ Consistent(rows) =>
           \A b \in { d \in DOMAIN windows : Ignored \notin Range(windows[d]) } :
             LET context == SubSeq(windows[b], 1, prefix)
             IN  /\ Draft(before \o context, Largest(count, 1), rows) = SubSeq(windows[b], prefix + 1, prefix + n)
                 /\ \A wanted \in 0 .. n :
                      Draft(context, wanted, rows) = SubSeq(windows[b], prefix + 1, prefix + wanted)
                 /\ DraftTokens(before \o context, 1) = <<DraftContext(before \o context, 1)>>
      /\ \A j \in DOMAIN grads :
           IF j % length >= prefix - 1 /\ At(Flat(targets), j) # Ignored
             THEN rows[grads[j]].target = At(Flat(targets), j)
             ELSE grads[j] = 0
=============================================================================
