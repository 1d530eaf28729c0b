------------------------------ MODULE Rendering ------------------------------
(***************************************************************************)
(* The two ways a conversation becomes tokens: RenderConversation and       *)
(* RenderForCompletion of tokenizer/render.go, which training uses, and     *)
(* renderMessages of server/server.go, which serving uses.                  *)
(*                                                                         *)
(* A text is the sequence of the pieces it was joined from; what Encode     *)
(* makes of a piece is one token, and the delimiters are tokens too.        *)
(***************************************************************************)
EXTENDS Naturals, Sequences, SequencesExt

(* A message: its role, text, reasoning trace and tool calls.  A training    *)
(* conversation holds the same four in Content, Thinking and Parts.          *)

Message(role, content) ==
  [role |-> role, content |-> content, reasoning |-> << >>, calls |-> << >>]

Marked(tokens, mask) == [i \in DOMAIN tokens |-> <<tokens[i], mask>>]

-----------------------------------------------------------------------------
(* The instructions a request or a conversation's metadata selects.         *)

\* options: effort and style are present or not, thinking is "on", "off" or "unset".
Instructions(options) ==
  (IF options.effort THEN <<"effort">> ELSE << >>)
  \o (IF options.thinking # "unset" THEN <<options.thinking>> ELSE << >>)
  \o (IF options.thinking = "on" /\ options.style THEN <<"style">> ELSE << >>)

Primes(options) == options.thinking = "on"

-----------------------------------------------------------------------------
(* renderMessages.                                                         *)

LeadingSystemOnly(messages) ==
  Len(messages) >= 2 /\ messages[1].role = "system" /\ messages[2].role = "user"

MergeSystemMessage(messages) ==
  IF LeadingSystemOnly(messages)
  THEN <<[messages[2] EXCEPT !.content = messages[1].content \o @]>>
         \o SubSeq(messages, 3, Len(messages))
  ELSE messages

WithInstructions(messages, options) ==
  IF Instructions(options) = << >> THEN messages
  ELSE <<Message("system", Instructions(options))>> \o messages

WithTools(messages) ==
  MergeSystemMessage(<<Message("system", <<"tools">>)>> \o messages)

Prepared(messages, options, tools) ==
  LET merged == MergeSystemMessage(WithInstructions(messages, options))
  IN  IF tools THEN WithTools(merged) ELSE merged

Trace(text) == IF text = << >> THEN << >> ELSE <<"thinkStart">> \o text \o <<"thinkEnd">>

ToolCalls(calls) ==
  FlattenSeq([i \in DOMAIN calls |-> <<"toolStart">> \o calls[i] \o <<"toolEnd">>])

TraceLostBug(message) ==
  CASE message.role = "user" -> <<"userStart">> \o message.content \o <<"userEnd">>
    [] OTHER -> <<"assistantStart">> \o message.content \o <<"assistantEnd">>

\* A system message that is left by now has no rendering.
Turn(message) ==
  CASE message.role = "user" -> <<"userStart">> \o message.content \o <<"userEnd">>
    [] message.role = "assistant" ->
         <<"assistantStart">> \o Trace(message.reasoning) \o message.content
           \o ToolCalls(message.calls) \o <<"assistantEnd">>
    [] message.role = "tool" -> <<"outputStart">> \o message.content \o <<"outputEnd">>
    [] OTHER -> << >>

Priming(options) ==
  <<"assistantStart">> \o (IF Primes(options) THEN <<"thinkStart">> ELSE << >>)

RenderMessages(messages, options, tools) ==
  LET prepared == Prepared(messages, options, tools)
  IN  <<"bos">> \o FlattenSeq([i \in DOMAIN prepared |-> Turn(prepared[i])])
        \o Priming(options)

\* The request's own slice afterwards: merging writes into its second message,
\* unless an instruction was prepended, which copied the slice.
RequestMessages(messages, options) ==
  IF Instructions(options) = << >> /\ LeadingSystemOnly(messages)
  THEN [messages EXCEPT ![2].content = messages[1].content \o @]
  ELSE messages

\* lastUserContent; an empty text when the user says nothing.
LastUserContent(messages) ==
  LET users == {i \in DOMAIN messages : messages[i].role = "user"}
      last == CHOOSE i \in users : \A j \in users : j <= i
  IN  IF users = {} THEN << >> ELSE messages[last].content

-----------------------------------------------------------------------------
(* RenderConversation: tokens with their loss mask, and the form that is     *)
(* completed by the model.                                                  *)

InsertInstructions(messages, options) ==
  LET text == Instructions(options)
      leading == messages # << >> /\ messages[1].role = "system"
  IN  CASE text = << >> -> messages
        [] text # << >> /\ leading -> [messages EXCEPT ![1].content = text \o @]
        [] OTHER -> <<Message("system", text)>> \o messages

\* Whatever the role of the message after it.
FoldSystem(messages) ==
  IF Len(messages) >= 2 /\ messages[1].role = "system"
  THEN <<[messages[2] EXCEPT !.content = messages[1].content \o @]>>
         \o SubSeq(messages, 3, Len(messages))
  ELSE messages

\* Any role but the user's is rendered as the assistant's.  With calls, the text
\* and the calls are the message's Parts.
TrainingTurn(message) ==
  IF message.role = "user"
  THEN Marked(<<"userStart">> \o message.content \o <<"userEnd">>, 0)
  ELSE <<<<"assistantStart", 0>>>>
         \o Marked(Trace(message.reasoning) \o message.content
                     \o ToolCalls(message.calls) \o <<"assistantEnd">>, 1)

RenderConversation(messages, options, maxTokens) ==
  LET folded == FoldSystem(InsertInstructions(messages, options))
      all == <<<<"bos", 0>>>>
               \o FlattenSeq([i \in DOMAIN folded |-> TrainingTurn(folded[i])])
  IN  IF folded = << >> THEN << >> ELSE SubSeq(all, 1, IF Len(all) < maxTokens THEN Len(all) ELSE maxTokens)

Unmasked(pairs) == [i \in DOMAIN pairs |-> pairs[i][1]]

\* The last message, the assistant's, is what the model is asked for; 2^30 bounds
\* nothing.
RenderForCompletion(messages, options) ==
  LET asked == SubSeq(messages, 1, Len(messages) - 1)
  IN  Unmasked(RenderConversation(asked, options, 2^30)) \o Priming(options)

-----------------------------------------------------------------------------
(* Properties of a conversation that ends before the assistant's turn.      *)

Completed(messages) == Append(messages, Message("assistant", <<"answer">>))

\* What a model is served is what it was trained to complete: server.go's
\* rendering of a request is the tokenizer's of the same conversation.
RenderingAgrees(messages, options) ==
  RenderMessages(messages, options, FALSE) = RenderForCompletion(Completed(messages), options)

\* Conversations both renderings are made for: a user's turn first, but for a
\* system message, no tool outputs in messages of their own, and not a system
\* message together with instructions.
Conventional(messages, options) ==
  /\ messages # << >>
  /\ \A i \in DOMAIN messages :
       messages[i].role \in {"user", "assistant"} \cup (IF i = 1 THEN {"system"} ELSE {})
  /\ \/ messages[1].role = "user"
     \/ LeadingSystemOnly(messages) /\ Instructions(options) = << >>

\* A conversation both renderings are made for is served as it was trained on.
ServedAsTrained(messages, options) == Conventional(messages, options) => RenderingAgrees(messages, options)
=============================================================================
