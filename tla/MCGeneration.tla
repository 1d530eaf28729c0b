---------------------------- MODULE MCGeneration ----------------------------
(***************************************************************************)
(* One row that may sample anything beside one that stops at once.          *)
(***************************************************************************)
EXTENDS Generation

CONSTANTS r1, r2

Both == {r1, r2}
Everything == Delimiters \cup {"text"}
MCSampled == [i \in Both |-> IF i = r1 THEN Everything ELSE {"end"}]
MCResults == {<< >>, <<"result">>}

=============================================================================
