-------------------------- MODULE MixtureOfExperts --------------------------
(***************************************************************************)
(* The routed feed-forward of model/moe.go with the gate and the grouped    *)
(* product of kernels/scalar/moe.go: which tokens reach which expert, which *)
(* outputs and gradients come back to which token, and how the load moves   *)
(* the router's correction bias.                                           *)
(*                                                                         *)
(* A batch is a sequence of rows, a row the sequence of its logits; rows,   *)
(* experts and positions count from 1.  Activations are abstracted to where *)
(* they come from: a row of the input is its number, an expert's output is  *)
(* [expert, input], and a gate weight, the softmax probability of one       *)
(* expert for one row, is the pair <<row, expert>>.                         *)
(***************************************************************************)
EXTENDS SeqSums, FiniteSets

\* TopKIndices: the places of the k best scores in order, the smaller one among equals.
TopKIndices(scores, k) ==
  LET better(e, f) == scores[e] > scores[f] \/ (scores[e] = scores[f] /\ e < f)
      rank(e) == Cardinality({ f \in DOMAIN scores : better(f, e) })
  IN  [slot \in 1 .. Min({k, Len(scores)}) |-> CHOOSE e \in DOMAIN scores : rank(e) = slot - 1]

\* MoEGateTopK: the bias takes part in the selection, not in the weight.
Gate(batch, bias, k) ==
  [row \in DOMAIN batch |-> TopKIndices([e \in DOMAIN bias |-> batch[row][e] + bias[e]], k)]

\* The (row, slot) pairs in the order the loops visit them.
Visits(rows, k) == [i \in 1 .. rows * k |-> <<((i - 1) \div k) + 1, ((i - 1) % k) + 1>>]

TokenCounts(selected, experts, k) ==
  [e \in 1 .. experts |->
     Cardinality({ v \in (DOMAIN selected) \X (1 .. k) : selected[v[1]][v[2]] = e })]

\* Where the rows of an expert begin.
Offsets(counts) == [e \in DOMAIN counts |-> PrefixSums(counts)[e - 1]]

\* The expert a visit is about.
ExpertAt(selected, visit) == selected[visit[1]][visit[2]]

\* The position a visit writes: the next free one of its expert, after those of the
\* visits before it.
Position(selected, offsets, visits, i) ==
  LET e == ExpertAt(selected, visits[i])
  IN  offsets[e] + Cardinality({ j \in 1 .. i : ExpertAt(selected, visits[j]) = e })

\* The visit that wrote a position.
Writer(selected, offsets, visits, p) ==
  visits[CHOOSE i \in DOMAIN visits : Position(selected, offsets, visits, i) = p]

Written(selected, offsets, visits) == { Position(selected, offsets, visits, i) : i \in DOMAIN visits }

\* The gate weight is looked up at the gathered position, not at the visit's.
WeightByPositionBug(selected, offsets, k) ==
  LET visits == Visits(Len(selected), k)
  IN  [p \in Written(selected, offsets, visits) |->
         [row |-> Writer(selected, offsets, visits, p)[1],
          weight |-> <<visits[p][1], ExpertAt(selected, visits[p])>>]]

\* The rows in expert-major order: position -> [row, weight].
Gather(selected, offsets, k) ==
  LET visits == Visits(Len(selected), k)
  IN  [p \in Written(selected, offsets, visits) |->
         LET visit == Writer(selected, offsets, visits, p)
         IN  [row |-> visit[1], weight |-> <<visit[1], ExpertAt(selected, visit)>>]]

\* GroupedMatMulTransposed: the weights of one expert after the other, each for
\* as many rows as it counts.
GroupedMatMul(gathered, counts) ==
  LET rowOffset == Offsets(counts)
      owner(p) == CHOOSE e \in DOMAIN counts : rowOffset[e] < p /\ p <= rowOffset[e] + counts[e]
  IN  [p \in DOMAIN gathered |-> [expert |-> owner(p), input |-> gathered[p].row]]

\* What every row was given, in the order of the gathered positions.
Combined(gathered, grouped, rows) ==
  [row \in 1 .. rows |->
     LET mine == Only([p \in 1 .. Cardinality(DOMAIN gathered) |-> p],
                      { p \in DOMAIN gathered : gathered[p].row = row })
     IN  [i \in DOMAIN mine |-> [weight |-> gathered[mine[i]].weight, output |-> grouped[mine[i]]]]]

SavedSlices(gathered, grouped, counts, offsets) ==
  [e \in { x \in DOMAIN counts : counts[x] > 0 } |->
     [i \in 1 .. counts[e] |-> [row |-> gathered[offsets[e] + i].row, weight |-> gathered[offsets[e] + i].weight,
                                output |-> grouped[offsets[e] + i]]]]

\* forward: the output of every row as the list of what was added to it, and the
\* state saved for the backward pass.
Grouped(gathered, rows, counts, offsets) ==
  LET grouped == GroupedMatMul(gathered, counts)
  IN  [output  |-> Combined(gathered, grouped, rows),
       counts  |-> counts,
       experts |-> SavedSlices(gathered, grouped, counts, offsets)]

Dispatched(selected, counts, offsets, k) ==
  Grouped(Gather(selected, offsets, k), Len(selected), counts, offsets)

Routed(selected, counts, k) == Dispatched(selected, counts, Offsets(counts), k)

Selected(selected, experts, k) == Routed(selected, TokenCounts(selected, experts, k), k)

Forward(batch, bias, k) == Selected(Gate(batch, bias, k), Len(bias), k)

\* backwardTraining: for every saved token of every expert, where the gradient of
\* its row goes: to the probability of (row, expert), to the expert's weights
\* and, through them, to a row of the input.
Backward(context) ==
  UNION { { [slot |-> <<e, i>>,
             probability |-> <<context.experts[e][i].row, e>>,
             output |-> context.experts[e][i].output,
             weight |-> context.experts[e][i].weight,
             weights |-> e,
             input |-> context.experts[e][i].row] : i \in DOMAIN context.experts[e] } :
          e \in DOMAIN context.experts }

\* sequenceBalance: how many tokens of each sequence chose each expert; no counts
\* when the rows are no whole number of sequences.
SequenceCounts(context, rows, experts, length) ==
  IF length <= 0 \/ rows % length # 0 THEN << >>
  ELSE [s \in 1 .. rows \div length |-> [e \in 1 .. experts |->
          IF e \notin DOMAIN context.experts THEN 0
          ELSE Cardinality({ i \in DOMAIN context.experts[e] :
                               (context.experts[e][i].row - 1) \div length = s - 1 })]]

\* loadCounts after the micro-batches of one optimizer step
Load(batches, bias, k) ==
  [e \in DOMAIN bias |-> Total([b \in DOMAIN batches |-> Forward(batches[b], bias, k).counts[e]])]

Sign(n) == IF n > 0 THEN 1 ELSE IF n < 0 THEN -1 ELSE 0

\* updateRouterBias: by the sign of the mean load less the expert's load.
UpdateRouterBias(bias, load) ==
  [e \in DOMAIN bias |-> bias[e] + Sign(Total(load) - load[e] * Len(bias))]

-----------------------------------------------------------------------------
(* Properties.                                                             *)

\* The experts a row should reach: no expert left out beats one that is chosen.
Best(scores, k) ==
  CHOOSE S \in SUBSET DOMAIN scores :
    /\ Cardinality(S) = k
    /\ \A e \in S, f \in DOMAIN scores \ S : scores[e] > scores[f] \/ (scores[e] = scores[f] /\ e < f)

Chosen(batch, bias, k) ==
  [row \in DOMAIN batch |-> Best([e \in DOMAIN bias |-> batch[row][e] + bias[e]], k)]

PassReaches(pass, chosen, k) ==
  /\ \A row \in DOMAIN chosen :
       /\ Len(pass.output[row]) = k
       /\ { pass.output[row][i] : i \in DOMAIN pass.output[row] }
            = { [weight |-> <<row, e>>, output |-> [expert |-> e, input |-> row]] : e \in chosen[row] }
  /\ \A back \in { Backward(pass) } :
       /\ Cardinality(back) = k * Len(chosen)
       /\ { [r EXCEPT !.slot = 0] : r \in back }
            = UNION { { [slot |-> 0, probability |-> <<row, e>>, output |-> [expert |-> e, input |-> row],
                         weight |-> <<row, e>>, weights |-> e, input |-> row] : e \in chosen[row] } :
                      row \in DOMAIN chosen }

CountsMatch(counts, chosen, length) ==
  \A s \in DOMAIN counts : \A e \in DOMAIN counts[s] :
    counts[s][e] = Cardinality({ row \in (s - 1) * length + 1 .. s * length : e \in chosen[row] })

\* The tokens over a step that choose an expert, and all choices.
Used(batches, bias, k, e) ==
  Total([b \in DOMAIN batches |->
           Cardinality({ row \in DOMAIN batches[b] : e \in Chosen(batches[b], bias, k)[row] })])

AllChoices(batches, k) == Total([b \in DOMAIN batches |-> k * Len(batches[b])])

(* ExpertsSeeTheirTokens: regrouping the rows by expert and back loses none.  *)
(* Every row receives, exactly once, the output of each of its best experts  *)
(* for that very row, weighted by that row's probability of that expert; the *)
(* backward pass returns the row's gradient through the same experts, to the *)
(* same probabilities; the counts of the balance loss are those of the       *)
(* sequence; and after the micro-batches of a step the correction bias has   *)
(* risen exactly for the experts chosen less often than the mean.            *)
ExpertsSeeTheirTokens(batches, bias, k, length) ==
  /\ \A b \in DOMAIN batches :
     \A pass \in { Forward(batches[b], bias, k) }, chosen \in { Chosen(batches[b], bias, k) } :
       /\ PassReaches(pass, chosen, k)
       /\ CountsMatch(SequenceCounts(pass, Len(chosen), Len(bias), length), chosen, length)
  /\ \A after \in { UpdateRouterBias(bias, Load(batches, bias, k)) }, e \in DOMAIN bias :
       \A excess \in { Used(batches, bias, k, e) * Len(bias) - AllChoices(batches, k) } :
         /\ (after[e] > bias[e]) = (excess < 0)
         /\ (after[e] < bias[e]) = (excess > 0)
=============================================================================
