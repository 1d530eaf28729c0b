---------------------------- MODULE MCTransformer ----------------------------
EXTENDS Transformer

MCLength == 8

Config(layers, pattern, ced, ratio, window, topK, pool, candidates) ==
  [layers |-> layers, pattern |-> pattern, ced |-> ced, ratio |-> ratio, window |-> window,
   topK |-> topK, pool |-> pool, candidates |-> candidates,
   windows |-> <<"S", "S", "L">>, short |-> 2]

MCConfigs == {
  Config(3, << >>, FALSE, 1, 0, 0, 0, 0),
  Config(2, << >>, FALSE, 2, 0, 0, 0, 0),
  Config(3, <<"F", "R", "U">>, FALSE, 2, 2, 0, 0, 0),
  Config(3, <<"F", "R", "U">>, FALSE, 2, 2, 1, 1, 0),
  Config(4, <<"F", "U", "R">>, FALSE, 2, 1, 1, 2, 2),
  Config(4, <<"F", "R", "U">>, TRUE, 2, 2, 1, 2, 2),
  Config(4, <<"F", "U">>, TRUE, 3, 1, 2, 0, 0),
  Config(4, << >>, TRUE, 2, 3, 1, 2, 1)}

Starting(starts) == [p \in 0 .. MCLength - 1 |-> Cardinality({ s \in starts : s <= p })]

MCSegmentations == {Unmasked} \union { Starting(starts) : starts \in (SUBSET {3, 4, 7}) \ {{}} }

MCScorings ==
  { [l \in 0 .. 3 |-> [p \in 0 .. MCLength - 1 |-> [b \in 0 .. 3 |-> (f[1] * l + f[2] * p + f[3] * b) % 4]]]
      : f \in {<<0, 0, 0>>, <<1, 0, 1>>, <<1, 1, 3>>} }
=============================================================================
