----------------------------- MODULE LRUPolicy -----------------------------
(***************************************************************************)
(* What a bounded least-recently-used store promises, without lists,       *)
(* counters or loops: a set of resident items with a size and a time of    *)
(* last use.  bank.Bank is shown to implement it.                          *)
(***************************************************************************)
EXTENDS Integers, FiniteSets, FiniteSetsExt

CONSTANTS Items, Sizes, MaxBytes, MaxCount   \* a budget of 0 is no budget

VARIABLE held        \* resident item -> [size, time]

Weight(S, h) == MapThenSumSet(LAMBDA i : h[i].size, S)

Fits(S, h) ==
  /\ MaxCount = 0 \/ Cardinality(S) <= MaxCount
  /\ MaxBytes = 0 \/ Weight(S, h) <= MaxBytes

Newest(t) == \A i \in DOMAIN held : held[i].time < t

LInit == held = << >>

\* Using a resident item makes it the most recent one and changes nothing else.
Use(i) ==
  /\ i \in DOMAIN held
  /\ DOMAIN held' = DOMAIN held
  /\ Newest(held'[i].time)
  /\ held' = [held EXCEPT ![i].time = held'[i].time]

\* Bringing in an item keeps a set of survivors: nothing older than a dropped
\* item survives, the result fits unless only the new item is left, and no
\* dropped item could have been kept along with the survivors.
BringIn(i) ==
  /\ i \in Items \ DOMAIN held
  /\ \E kept \in SUBSET DOMAIN held :
       LET dropped == DOMAIN held \ kept
       IN  /\ DOMAIN held' = kept \cup {i}
           /\ \A j \in kept : held'[j] = held[j]
           /\ held'[i].size \in Sizes
           /\ Newest(held'[i].time)
           /\ \A d \in dropped, j \in kept : held[d].time < held[j].time
           /\ kept = {} \/ Fits(kept \cup {i}, held')
           /\ \A d \in dropped :
                (\A e \in dropped : held[e].time <= held[d].time) =>
                  ~Fits(kept \cup {i, d},
                        [j \in kept \cup {i, d} |-> IF j = d THEN held[d] ELSE held'[j]])

LNext == \E i \in Items : Use(i) \/ BringIn(i)

LSpec == LInit /\ [][LNext]_held
=============================================================================
