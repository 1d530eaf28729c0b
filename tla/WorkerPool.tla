----------------------------- MODULE WorkerPool -----------------------------
(***************************************************************************)
(* The static partition of internal/parallel/pool.go, which every parallel  *)
(* kernel, reduction and loader of the program runs on: For, Chunks and     *)
(* Reduce give the workers contiguous ranges [lo, hi) of [start, end).      *)
(***************************************************************************)
EXTENDS Integers, Sequences, FiniteSets, SequencesExt

\* Workers: a pool without a count takes all processors.
Workers(pool, processors) == IF pool.workers <= 0 THEN processors ELSE pool.workers

\* The step of every worker is rounded before it is multiplied.
RoundedStepBug(start, end, workers, worker) == start + ((end - start) \div workers) * worker

\* Where the range of a worker, counted from 0, begins; the next one's begin is its end.
Boundary(start, end, workers, worker) == start + (((end - start) * worker) \div workers)

Ranges(start, end, workers) ==
  [i \in 1 .. workers |-> [lo |-> Boundary(start, end, workers, i - 1),
                           hi |-> Boundary(start, end, workers, i)]]

\* Chunks: nothing for an empty range, one inline call for a short one.
Chunks(pool, processors, start, end) ==
  IF end <= start THEN << >>
  ELSE IF end - start < pool.minChunk THEN <<[lo |-> start, hi |-> end]>>
  ELSE LET workers == Workers(pool, processors)
       IN  Ranges(start, end, IF workers > end - start THEN end - start ELSE workers)

\* For: each worker calls fn for the indices of its range.
For(pool, processors, start, end) ==
  LET chunks == Chunks(pool, processors, start, end)
  IN  [i \in DOMAIN chunks |-> [j \in 1 .. chunks[i].hi - chunks[i].lo |-> chunks[i].lo + j - 1]]

\* Reduce: the partial results, combined in the order of the workers; a result is
\* the list of indices that went into it.
Reduce(pool, processors, start, end) == FlattenSeq(For(pool, processors, start, end))

(* PartitionCovers: whatever the length of the range, the number of workers  *)
(* and the threshold, every index is handed to exactly one worker, no worker *)
(* gets an empty range, and a reduction combines the indices in their order, *)
(* as a single worker would have: the rounding leaves neither gaps nor       *)
(* overlaps, and a result does not depend on how many processors there are.  *)
PartitionCovers(pool, processors, start, end) ==
  LET chunks == Chunks(pool, processors, start, end)
  IN  /\ Reduce(pool, processors, start, end) = [i \in 1 .. end - start |-> start + i - 1]
      /\ \A i \in DOMAIN chunks : chunks[i].lo < chunks[i].hi
      /\ Len(chunks) <= Workers(pool, processors)
=============================================================================
