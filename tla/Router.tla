------------------------------- MODULE Router -------------------------------
(***************************************************************************)
(* The domain router's decisions (router/router.go).  What its two          *)
(* classifiers answer is given: a probability, in percent, per domain.       *)
(***************************************************************************)
EXTENDS Integers, Sequences, FiniteSets

\* topTwo over probabilities; a single class is infinitely far ahead, which any
\* margin above the largest threshold stands for.
Margin(probabilities) ==
  LET first == CHOOSE i \in DOMAIN probabilities :
                 \A j \in DOMAIN probabilities : probabilities[j] <= probabilities[i]
      others == {probabilities[j] : j \in DOMAIN probabilities \ {first}}
  IN  IF others = {} THEN 101
      ELSE probabilities[first] - (CHOOSE v \in others : \A w \in others : w <= v)

\* Zero never escalates, a negative threshold always does.
ShouldEscalate(threshold, probabilities) ==
  \/ threshold < 0
  \/ threshold > 0 /\ Margin(probabilities) < threshold

\* transformer is << >> when the router has none.
Predict(threshold, ngram, transformer) ==
  IF /\ transformer # << >>
     /\ ShouldEscalate(threshold, ngram)
     /\ Len(transformer) = Len(ngram)
  THEN transformer ELSE ngram

\* A stable sort: equal probabilities stay in the order of the domains.
Route(domains, probabilities) ==
  LET place(i) == 1 + Cardinality({j \in DOMAIN probabilities :
                        \/ probabilities[j] > probabilities[i]
                        \/ probabilities[j] = probabilities[i] /\ j < i})
  IN  [k \in DOMAIN probabilities |->
         LET i == CHOOSE i \in DOMAIN probabilities : place(i) = k
         IN  [domain |-> domains[i], value |-> probabilities[i]]]

AtLeastOne(count) == IF count < 1 THEN 1 ELSE count

\* The best domain whatever its score, then those that reach minScore.
TopDomains(scores, count, minScore) ==
  LET reaching == {k \in DOMAIN scores :
                     \A j \in 2..k : scores[j].value >= minScore}
      kept == {k \in reaching : k <= AtLeastOne(count)}
  IN  [k \in kept |-> scores[k]]
=============================================================================
