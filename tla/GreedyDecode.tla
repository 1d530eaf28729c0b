---------------------------- MODULE GreedyDecode ----------------------------
(***************************************************************************)
(* Greedy decoding of one row: the tokens the target model prefers, one    *)
(* after the other, until a terminal token, the token limit or the end of  *)
(* the context, or until the consumer has enough.                          *)
(***************************************************************************)
EXTENDS Integers, Sequences

CONSTANT End

VARIABLES
  path,      \* the model's greedy continuation of the prompt
  limit,     \* the tokens there may be
  out,       \* the tokens the consumer was given
  status     \* "running", "done", or "quit" by the consumer

GInit == out = << >> /\ status = "running"

Complete(said) == Len(said) = limit \/ path[Len(said) + 1] = End

Say ==
  /\ status = "running"
  /\ ~Complete(out)
  /\ out' = Append(out, path[Len(out) + 1])
  /\ \/ status' = "quit"
     \/ status' = "running"
     \/ status' = "done" /\ Complete(out')
  /\ UNCHANGED <<path, limit>>

Stop ==
  /\ status = "running"
  /\ Complete(out)
  /\ status' = "done"
  /\ UNCHANGED <<path, limit, out>>

GSpec == GInit /\ [][Say \/ Stop]_<<path, limit, out, status>>
=============================================================================
