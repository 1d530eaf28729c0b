----------------------------- MODULE MCServing ------------------------------
(***************************************************************************)
(* A bank of three domains, a router that knows two of them and another,   *)
(* two handlers, and another user of the bank.                             *)
(***************************************************************************)
EXTENDS Serving

CONSTANTS a, b, c, x

MCIds == {a, b, c, x}
MCDomains == {a, b, c}
MCRequests == {<<b, c>>}
MCRouterDomains == <<a, b, x>>
\* A tie, a clear winner, and one led by the domain without a model.
MCDistributions == {<<45, 45, 10>>, <<80, 15, 5>>, <<10, 20, 70>>}

Plain == [effort |-> FALSE, thinking |-> "unset", style |-> FALSE]
System == Message("system", <<"rules">>)
User == Message("user", <<"question">>)
Chat == <<System, User>>
Long == <<System, User, Message("assistant", <<"reply">>), Message("user", <<"more">>)>>

Ask(messages, options, tools, model) ==
  [messages |-> messages, options |-> options, tools |-> tools, model |-> model]

\* A system message with and without an instruction, a longer conversation with
\* tools, and the domain without a model, pinned.
MCChatRequests ==
  { Ask(Chat, Plain, FALSE, None), Ask(Chat, [Plain EXCEPT !.thinking = "on"], FALSE, None),
    Ask(Long, Plain, TRUE, None), Ask(Chat, Plain, FALSE, x) }
=============================================================================
