-------------------------- MODULE SupervisedTuning --------------------------
(***************************************************************************)
(* Supervised fine-tuning: conversations read from JSONL files              *)
(* (data/conversations.go), packed into rows by SFTLoader                   *)
(* (data/dataloader.go), and the loop that trains on the batches            *)
(* (trainer/sft.go).                                                       *)
(*                                                                         *)
(* A conversation is its position in the input; a token is the conversation *)
(* and its index there.  The scratch buffers outlive the row, as in the     *)
(* code.  An input file that cannot be read ends the input there, which is  *)
(* a shorter input.                                                        *)
(***************************************************************************)
EXTENDS SeqSums, FiniteSets

CONSTANTS
  Lines,          \* what a line may hold: [length, supervised], length 0 if nothing
  MaxLines,       \* bound on the input
  BatchSize,      \* B
  SequenceLength, \* T
  BufferSize,     \* bufferSize
  ReadSize,       \* conversations a provider call returns at most
  Limits,         \* numIterations, 0 is until the loader is exhausted
  MaxSteps,       \* where the step counter stops counting
  Bos, Zero, Ignore

ASSUME TuningConstants ==
  /\ \A l \in Lines : l.length \in Nat \ {1} /\ l.supervised \subseteq 2..l.length
  /\ MaxLines \in Nat /\ MaxSteps \in Nat
  /\ {BatchSize, SequenceLength, BufferSize, ReadSize} \subseteq Nat \ {0}
  /\ Limits \subseteq 0..MaxSteps
  /\ Bos \notin Nat \X Nat /\ Zero \notin Nat \X Nat

VARIABLES
  input,      \* the lines of the files
  limit,      \* numIterations
  unread,     \* lines not yet read
  buffer,     \* convBuffer
  done,       \* the provider has said that there is no more
  scratch,    \* scratch, maskScratch and segmentScratch, by index
  batch,      \* row -> [inputs, targets, segments]
  row, pos, segment,
  step,
  rate,       \* the learning-rate multiplier last applied, <<numerator, denominator>>
  trained,    \* conversations trained on, in order
  stage

loader == <<unread, buffer, done>>
packing == <<scratch, batch, row, pos, segment>>
training == <<step, rate, trained>>
vars == <<input, limit, loader, packing, training, stage>>

Smaller(a, b) == IF a <= b THEN a ELSE b

Capacity == SequenceLength + 1
Length(c) == input[c].length

Blank == [token |-> Zero, mask |-> 0, segment |-> 0]

\* Freshly allocated tensors are all zeros.
Untouched == [inputs   |-> [x \in 0..(SequenceLength - 1) |-> Zero],
              targets  |-> [x \in 0..(SequenceLength - 1) |-> Zero],
              segments |-> [x \in 0..(SequenceLength - 1) |-> 0]]

Init ==
  /\ input \in SeqOf(Lines, MaxLines)
  /\ limit \in Limits
  /\ unread = [i \in 1..Len(input) |-> i]
  /\ buffer = << >>
  /\ done = FALSE
  /\ scratch = [x \in 0..SequenceLength |-> Blank]
  /\ batch = << >>
  /\ row = 0 /\ pos = 0 /\ segment = 0
  /\ step = 0
  /\ rate = <<1, 1>>
  /\ trained = << >>
  /\ stage = "next"

-----------------------------------------------------------------------------
(* refill: provider calls until the buffer holds BufferSize conversations or *)
(* a call finds none.  Lines that do not parse are skipped.                *)

Parsable(s) == Only(s, {c \in DOMAIN input : Length(c) > 0})

Missing == BufferSize - Len(buffer)

Refill ==
  LET good == Parsable(unread)
      calls == (Missing + ReadSize - 1) \div ReadSize
      read == IF Missing > 0 THEN Smaller(calls * ReadSize, Len(good)) ELSE 0
  IN  /\ buffer' = buffer \o SubSeq(good, 1, read)
      /\ unread' = SubSeq(good, read + 1, Len(good))
      /\ done' = (done \/ Len(good) < Missing)

-----------------------------------------------------------------------------
(* next: B rows, each packed best fit.                                     *)

ExhaustedEarlyBug == done

Exhausted == done /\ buffer = << >>

Finished == limit > 0 /\ step >= limit

StartBatch ==
  /\ stage = "next"
  /\ ~Finished
  /\ ~Exhausted
  /\ batch' = [r \in 0..(BatchSize - 1) |-> Untouched]
  /\ row' = 0
  /\ stage' = "row"
  /\ UNCHANGED <<input, limit, loader, scratch, pos, segment, training>>

StartRow ==
  /\ stage = "row"
  /\ row < BatchSize
  /\ Refill
  /\ buffer' # << >>
  /\ pos' = 0
  /\ segment' = 0
  /\ stage' = "pack"
  /\ UNCHANGED <<input, limit, scratch, batch, row, training>>

\* The rows left over stay as they were allocated.
RunDry ==
  /\ stage = "row"
  /\ row < BatchSize
  /\ Refill
  /\ buffer' = << >>
  /\ stage' = "train"
  /\ UNCHANGED <<input, limit, packing, training>>

BatchComplete ==
  /\ stage = "row"
  /\ row = BatchSize
  /\ stage' = "train"
  /\ UNCHANGED <<input, limit, loader, packing, training>>

FitsTooLongBug == {i \in DOMAIN buffer : Length(buffer[i]) <= Capacity - pos + 1}

Fitting == {i \in DOMAIN buffer : Length(buffer[i]) <= Capacity - pos}

\* The longest that fits, the first of them.
BestFit ==
  CHOOSE i \in Fitting : \A j \in Fitting :
    \/ Length(buffer[j]) < Length(buffer[i])
    \/ Length(buffer[j]) = Length(buffer[i]) /\ i <= j

NextSegment == segment + 1

Place ==
  /\ stage = "pack"
  /\ pos < Capacity
  /\ Fitting # {}
  /\ LET c == buffer[BestFit]
     IN  /\ scratch' = [x \in 0..SequenceLength |->
              IF x \in pos..(pos + Length(c) - 1)
                THEN [token   |-> <<c, x - pos + 1>>,
                      mask    |-> IF x - pos + 1 \in input[c].supervised THEN 1 ELSE 0,
                      segment |-> segment]
                ELSE scratch[x]]
         /\ pos' = pos + Length(c)
  /\ segment' = NextSegment
  /\ buffer' = RemoveAt(buffer, BestFit)
  /\ UNCHANGED <<input, limit, unread, done, batch, row, training, stage>>

RefillRow ==
  /\ stage = "pack"
  /\ pos < Capacity
  /\ buffer = << >>
  /\ Refill
  /\ buffer' # << >>
  /\ UNCHANGED <<input, limit, packing, training, stage>>

StaleMaskBug ==
  [x \in 0..SequenceLength |->
     IF x < pos THEN scratch[x]
     ELSE [scratch[x] EXCEPT !.token = Bos, !.segment = segment]]

Padded ==
  [x \in 0..SequenceLength |->
     IF x < pos THEN scratch[x] ELSE [token |-> Bos, mask |-> 0, segment |-> segment]]

\* The row of the tensors, with the targets shifted by one.
CopiedRow(cells) ==
  [inputs   |-> [x \in 0..(SequenceLength - 1) |-> cells[x].token],
   targets  |-> [x \in 0..(SequenceLength - 1) |->
                   IF cells[x + 1].mask = 1 THEN cells[x + 1].token ELSE Ignore],
   segments |-> [x \in 0..(SequenceLength - 1) |-> cells[x].segment]]

CloseRow ==
  /\ stage = "pack"
  /\ \/ pos >= Capacity /\ UNCHANGED loader
     \/ pos < Capacity /\ buffer # << >> /\ Fitting = {} /\ UNCHANGED loader
     \/ pos < Capacity /\ buffer = << >> /\ Refill /\ buffer' = << >>
  /\ scratch' = Padded
  /\ batch' = [batch EXCEPT ![row] = CopiedRow(Padded)]
  /\ row' = row + 1
  /\ stage' = "row"
  /\ UNCHANGED <<input, limit, pos, segment, training>>

-----------------------------------------------------------------------------
(* TrainSFT: one optimizer step for every batch.                           *)

\* LRMultiplier without warmup, down to 0 over the last half of the iterations.
LRMultiplier(iterations) ==
  LET warmdownIterations == iterations \div 2
  IN  IF step <= iterations - warmdownIterations
        THEN <<1, 1>> ELSE <<iterations - step, warmdownIterations>>

ConversationsIn(r) ==
  {c \in DOMAIN input : \E x \in DOMAIN r.inputs : r.inputs[x] = <<c, 1>>}

Trained(b) == UNION {ConversationsIn(b[r]) : r \in DOMAIN b}

TrainStep ==
  /\ stage = "train"
  /\ rate' = LRMultiplier(IF limit > 1 THEN limit ELSE 1)
  /\ step' = Smaller(step + 1, MaxSteps)
  /\ trained' = trained \o SetToSeq(Trained(batch))
  /\ batch' = << >>
  /\ stage' = "next"
  /\ UNCHANGED <<input, limit, loader, scratch, row, pos, segment>>

End ==
  /\ stage = "next"
  /\ Finished \/ Exhausted
  /\ stage' = "ended"
  /\ UNCHANGED <<input, limit, loader, packing, training>>

Terminated == stage = "ended" /\ UNCHANGED vars

Next ==
  \/ StartBatch \/ StartRow \/ RunDry \/ BatchComplete
  \/ Place \/ RefillRow \/ CloseRow
  \/ TrainStep \/ End \/ Terminated

\* One goroutine, which waits for nothing.
Spec == Init /\ [][Next]_vars /\ WF_vars(Next)

-----------------------------------------------------------------------------
(* Properties.                                                             *)

TouchedRows == {batch[r] : r \in {q \in DOMAIN batch : q < row}}

\* Every variable has its type; the buffer never holds more than the last call
\* of the provider can add to one that lacked a conversation.
TypeOK ==
  /\ unread \in Seq(DOMAIN input)
  /\ buffer \in Seq(DOMAIN input) /\ Len(buffer) < BufferSize + ReadSize
  /\ done \in BOOLEAN
  /\ DOMAIN batch = 0..(BatchSize - 1) \/ batch = << >>
  /\ row \in 0..BatchSize /\ pos \in 0..Capacity /\ segment \in 0..Capacity
  /\ step \in 0..MaxSteps
  /\ trained \in Seq(DOMAIN input)
  /\ stage \in {"next", "row", "pack", "train", "ended"}

OpenRow == IF stage = "pack"
             THEN {c \in DOMAIN input : \E x \in DOMAIN scratch :
                             x < pos /\ scratch[x].token = <<c, 1>>}
             ELSE {}

\* Two positions of a row share a segment exactly when they belong to the same
\* conversation, padding being one of its own: nothing attends across.
SegmentsSeparate ==
  \A r \in TouchedRows : \A x, y \in 0..(SequenceLength - 1) :
    LET owner(z) == IF r.inputs[z] = Bos THEN 0 ELSE r.inputs[z][1]
    IN  r.segments[x] = r.segments[y] <=> owner(x) = owner(y)

\* SFTLoader "never crops conversations" and loses none: each one is at any time
\* in exactly one place, and whole, as a segment of its own, in the row it is
\* packed into.
ConversationsWhole ==
  /\ \A c \in DOMAIN input : Length(c) > 0 =>
       Cardinality({i \in DOMAIN unread : unread[i] = c})
         + Cardinality({i \in DOMAIN buffer : buffer[i] = c})
         + Cardinality({i \in DOMAIN trained : trained[i] = c})
         + Cardinality({r \in DOMAIN batch : c \in ConversationsIn(batch[r])})
         + Cardinality(OpenRow \cap {c}) = 1
  /\ \A r \in TouchedRows : \A c \in ConversationsIn(r) :
       \E first \in 0..(SequenceLength - 1) :
         /\ first + Length(c) <= Capacity
         /\ \A k \in 1..Length(c) :
              first + k - 1 < SequenceLength => r.inputs[first + k - 1] = <<c, k>>
  /\ SegmentsSeparate

\* In every row the loader wrote, a target is the token after its input in the
\* same conversation, and exactly the assistant's tokens are targets.
TargetsFollowInputs ==
  \A r \in TouchedRows : \A x \in 0..(SequenceLength - 1) :
    IF \E c \in DOMAIN input : \E k \in input[c].supervised : r.inputs[x] = <<c, k - 1>>
      THEN r.targets[x] = <<r.inputs[x][1], r.inputs[x][2] + 1>>
      ELSE r.targets[x] = Ignore

AllFit == \A c \in DOMAIN input : Length(c) <= Capacity

\* "Until the loader is exhausted": without a limit and without a conversation
\* that is too long for a row, every one is trained on and the loop ends.
EveryConversationTrained ==
  limit = 0 /\ AllFit =>
    <>(stage = "ended" /\ {trained[i] : i \in DOMAIN trained} =
         {c \in DOMAIN input : Length(c) > 0})

=============================================================================
