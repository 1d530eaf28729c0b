---------------------------- MODULE MCPrefixReuse ----------------------------
(***************************************************************************)
(* Two requests at a time over prompts of one to three tokens, a stripped  *)
(* main store of one entry and a pool of one entry that expires.           *)
(***************************************************************************)
EXTENDS PrefixReuse

MCPrompts == {<<1>>, <<1, 1>>, <<1, 1, 1>>}
MCManagers == {Main, Pool}
MCEntries == [x \in {Main, Pool} |-> 1]
MCAges == [x \in {Main, Pool} |-> IF x = Main THEN 0 ELSE 1]
Unlimited == [x \in {Main, Pool} |-> 0]
Handlers == Permutations(Callers)
JustMain == {Main}
=============================================================================
