--------------------------- MODULE MCCacheManager ---------------------------
(***************************************************************************)
(* One manager on disk with every limit set, a prompt that extends another *)
(* and one that does not, a buffer size of which two fit and one of which  *)
(* none does.                                                              *)
(***************************************************************************)
EXTENDS CacheManager

CONSTANT m

MCPrompts == {<<1>>, <<1, 1>>, <<2>>}
MCManagers == {m}
Two == [x \in {m} |-> 2]
Four == [x \in {m} |-> 4]
One == [x \in {m} |-> 1]
=============================================================================
