------------------------------ MODULE SeqSums ------------------------------
(***************************************************************************)
(* Running totals of a sequence of integers, and the part of a sequence     *)
(* that lies in a set, written as recursive functions so that the lemmas   *)
(* of SeqSumsProofs can be proved about them.                              *)
(***************************************************************************)
EXTENDS Integers, SequencesExt

\* PrefixSums(s)[k] is the sum of the first k elements of s.
PrefixSums(s) ==
  LET P[k \in 0..Len(s)] == IF k = 0 THEN 0 ELSE P[k - 1] + s[k]
  IN  P

Total(s) == PrefixSums(s)[Len(s)]

\* Filtering(s, K)[k] is what the first k elements of s have of K, in order.
Filtering(s, K) ==
  LET F[k \in 0..Len(s)] ==
        IF k = 0 THEN << >>
        ELSE IF s[k] \in K THEN Append(F[k - 1], s[k]) ELSE F[k - 1]
  IN  F

Only(s, K) == Filtering(s, K)[Len(s)]
=============================================================================
