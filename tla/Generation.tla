----------------------------- MODULE Generation -----------------------------
(***************************************************************************)
(* The decode loop of Engine.GenerateWith (inference/engine.go) driving the *)
(* response parser of Server.generate (server/server.go): for every row the *)
(* engine keeps a tool-call and a thinking machine that force tokens, and  *)
(* the parser, which sees only the yielded columns, keeps machines of its  *)
(* own.  Which token the model samples, and what a tool answers, is free.  *)
(*                                                                         *)
(* Tokens are classes: the delimiters, "end" for <|assistant_end|> and BOS, *)
(* "text" for the rest, and "result" for a token of a tool's output.       *)
(***************************************************************************)
EXTENDS SeqSums, FiniteSets

CONSTANTS
  Rows,         \* sample indexes
  Sampled,      \* row -> the token classes its model may sample
  Results,      \* encodings of the results tools may give, over "result"
  MaxTokens,    \* maxTokens, positive after resolveOptions
  Thinking,     \* options.Thinking || options.ThinkingBudget > 0
  Budget,       \* options.ThinkingBudget, 0 is none
  Primed        \* the prompt ends in <|think_start|>

Delimiters == {"toolStart", "toolEnd", "thinkStart", "thinkEnd", "end"}
Forceable == {"outputStart", "result", "outputEnd", "thinkEnd"}
Tokens == Delimiters \cup Forceable \cup {"text"}

ASSUME GenerationConstants ==
  /\ IsFiniteSet(Rows)
  /\ Sampled \in [Rows -> SUBSET (Delimiters \cup {"text"})]
  /\ \A i \in Rows : Sampled[i] # {}
  /\ Results \subseteq Seq({"result"})
  /\ MaxTokens \in Nat \ {0}
  /\ Thinking \in BOOLEAN /\ Budget \in Nat /\ Primed \in BOOLEAN
  /\ Budget > 0 => Thinking

VARIABLES
  state,        \* row -> the engine's RowState
  parse,        \* row -> the server's view of it
  stream,       \* row -> what streamCompletion keeps of it and has written
  emitted,      \* row -> the yielded <<token, mask>> pairs
  done          \* the generation loop has returned

vars == <<state, parse, stream, emitted, done>>

NoCall == << >>

RowState == [forced : Seq(Forceable), inToolCall : BOOLEAN,
             toolCallTokens : Seq(Tokens), inThinking : BOOLEAN,
             thinkingTokens : Nat, completed : BOOLEAN]

RowParse == [inToolCall : BOOLEAN, callArgs : Seq(Tokens), inThinking : BOOLEAN,
             reasoning : Seq(Tokens), sampled : Seq(Tokens),
             toolCalls : Seq(Seq(Tokens)), finished : BOOLEAN]

RowStream == [inToolCall : BOOLEAN, inThinking : BOOLEAN, finished : BOOLEAN,
              content : Seq(Tokens), trace : Seq(Tokens)]

Init ==
  /\ state = [i \in Rows |->
       [forced |-> << >>, inToolCall |-> FALSE, toolCallTokens |-> NoCall,
        inThinking |-> Thinking /\ Primed, thinkingTokens |-> 0, completed |-> FALSE]]
  /\ parse = [i \in Rows |->
       [inToolCall |-> FALSE, callArgs |-> NoCall, inThinking |-> Primed,
        reasoning |-> << >>, sampled |-> << >>, toolCalls |-> << >>,
        finished |-> FALSE]]
  /\ stream = [i \in Rows |->
       [inToolCall |-> FALSE, inThinking |-> Primed, finished |-> FALSE,
        content |-> << >>, trace |-> << >>]]
  /\ emitted = [i \in Rows |-> << >>]
  /\ done = FALSE

-----------------------------------------------------------------------------
(* One token of one row, in the engine.                                    *)

IsForced(s) == s.forced # << >>

Taken(s, token) ==
  [s EXCEPT !.forced = IF @ = << >> THEN @ ELSE Tail(@),
            !.completed = @ \/ token = "end"]

\* The call a token closes is handed to the tools, unless it is empty.
Executes(s, token) == token = "toolEnd" /\ s.inToolCall /\ s.toolCallTokens # NoCall

Answers == {<< >>} \cup {<<"outputStart">> \o r \o <<"outputEnd">> : r \in Results}

AfterTool(s, token, answer) ==
  CASE token = "toolStart" ->
         [s EXCEPT !.inToolCall = TRUE, !.toolCallTokens = NoCall]
    [] token = "toolEnd" /\ s.inToolCall ->
         [s EXCEPT !.inToolCall = FALSE, !.toolCallTokens = NoCall,
                   !.forced = @ \o answer]
    [] s.inToolCall /\ token \notin {"toolStart", "toolEnd"} ->
         [s EXCEPT !.toolCallTokens = Append(@, token)]
    [] OTHER -> s

Counted(s) == [s EXCEPT !.thinkingTokens = @ + 1]

OverBudgetBug(s) == Budget > 0 /\ s.thinkingTokens > Budget

OverBudget(s) == Budget > 0 /\ s.thinkingTokens >= Budget

CloseTrace(s) == [s EXCEPT !.forced = Append(@, "thinkEnd")]

AfterThinking(s, token) ==
  CASE ~Thinking -> s
    [] Thinking /\ token = "thinkStart" ->
         [s EXCEPT !.inThinking = TRUE, !.thinkingTokens = 0]
    [] Thinking /\ token = "thinkEnd" -> [s EXCEPT !.inThinking = FALSE]
    [] Thinking /\ token \notin {"thinkStart", "thinkEnd"} /\ s.inThinking ->
         IF OverBudget(Counted(s)) THEN CloseTrace(Counted(s)) ELSE Counted(s)
    [] OTHER -> s

Advanced(s, token, answer) == AfterThinking(AfterTool(Taken(s, token), token, answer), token)

(* The ladder of Ensemble.GenerateWith (inference/ensemble.go), over whole    *)
(* domain models whose logits are blended: which token is sampled is as free *)
(* as before, and answers come from the ensemble's own registry.            *)

EnsembleTool(s, token, answer) ==
  CASE token = "toolStart" -> [s EXCEPT !.inToolCall = TRUE, !.toolCallTokens = NoCall]
    [] token = "toolEnd" /\ s.inToolCall ->
         [s EXCEPT !.inToolCall = FALSE, !.toolCallTokens = NoCall,
                   !.forced = @ \o (IF s.toolCallTokens = NoCall THEN << >> ELSE answer)]
    [] token \notin {"toolStart", "toolEnd"} /\ s.inToolCall ->
         [s EXCEPT !.toolCallTokens = Append(@, token)]
    [] OTHER -> s

EnsembleThinking(s, token) ==
  LET used == s.thinkingTokens + 1
      spent == Budget > 0 /\ used >= Budget
  IN  CASE token = "thinkStart" -> [s EXCEPT !.inThinking = TRUE, !.thinkingTokens = 0]
        [] token = "thinkEnd" /\ s.inThinking -> [s EXCEPT !.inThinking = FALSE]
        [] token \notin {"thinkStart", "thinkEnd"} /\ s.inThinking ->
             [s EXCEPT !.thinkingTokens = used,
                       !.forced = @ \o (IF spent THEN <<"thinkEnd">> ELSE << >>)]
        [] OTHER -> s

ThinkingFirstBug(s, token, answer) ==
  LET taken == [s EXCEPT !.forced = IF @ = << >> THEN @ ELSE Tail(@),
                         !.completed = @ \/ token = "end"]
      thought == IF Thinking THEN EnsembleThinking(taken, token) ELSE taken
  IN  EnsembleTool(thought, token, answer)

EnsembleAdvanced(s, token, answer) ==
  LET taken == [s EXCEPT !.forced = IF @ = << >> THEN @ ELSE Tail(@),
                         !.completed = @ \/ token = "end"]
      called == EnsembleTool(taken, token, answer)
  IN  IF Thinking THEN EnsembleThinking(called, token) ELSE called

-----------------------------------------------------------------------------
(* The same token in the server's callback.  A finished row is skipped, the *)
(* thinking delimiters count even when forced, other forced tokens do not. *)

ParsedSample(p, token) ==
  CASE token = "toolStart" -> [p EXCEPT !.inToolCall = TRUE, !.callArgs = NoCall]
    [] token = "toolEnd" /\ p.inToolCall ->
         [p EXCEPT !.inToolCall = FALSE, !.callArgs = NoCall,
                   !.toolCalls = Append(@, p.callArgs)]
    [] token = "end" -> [p EXCEPT !.finished = TRUE]
    [] token \notin Delimiters /\ p.inToolCall -> [p EXCEPT !.callArgs = Append(@, token)]
    [] token \notin Delimiters /\ ~p.inToolCall /\ p.inThinking ->
         [p EXCEPT !.reasoning = Append(@, token)]
    [] token \notin Delimiters /\ ~p.inToolCall /\ ~p.inThinking ->
         [p EXCEPT !.sampled = Append(@, token)]
    [] OTHER -> p

MaskFirstBug(p, token, mask) ==
  CASE p.finished \/ mask = 0 -> p
    [] ~p.finished /\ mask = 1 /\ token = "thinkStart" ->
         [p EXCEPT !.inThinking = TRUE, !.reasoning = << >>]
    [] ~p.finished /\ mask = 1 /\ token = "thinkEnd" -> [p EXCEPT !.inThinking = FALSE]
    [] OTHER -> ParsedSample(p, token)

Parsed(p, token, mask) ==
  CASE p.finished -> p
    [] ~p.finished /\ token = "thinkStart" ->
         [p EXCEPT !.inThinking = TRUE, !.reasoning = << >>]
    [] ~p.finished /\ token = "thinkEnd" -> [p EXCEPT !.inThinking = FALSE]
    [] ~p.finished /\ token \notin {"thinkStart", "thinkEnd"} /\ mask = 0 -> p
    [] OTHER -> ParsedSample(p, token)

-----------------------------------------------------------------------------
(* The other consumers of the same yields: the callback of streamCompletion  *)
(* (server/handler.go), which writes a delta as soon as a token is shown, and *)
(* that of GenerateBatchWith.                                                   *)

StreamUnmaskedBug(p, token, mask) ==
  CASE p.finished -> p
    [] ~p.finished /\ token = "thinkStart" -> [p EXCEPT !.inThinking = TRUE]
    [] ~p.finished /\ token = "thinkEnd" -> [p EXCEPT !.inThinking = FALSE]
    [] ~p.finished /\ token = "end" -> [p EXCEPT !.finished = TRUE]
    [] OTHER -> [p EXCEPT !.content = Append(@, token)]

Streamed(p, token, mask) ==
  CASE p.finished -> p
    [] ~p.finished /\ token = "thinkStart" -> [p EXCEPT !.inThinking = TRUE]
    [] ~p.finished /\ token = "thinkEnd" -> [p EXCEPT !.inThinking = FALSE]
    [] ~p.finished /\ token \notin {"thinkStart", "thinkEnd"} /\ mask = 0 -> p
    [] ~p.finished /\ mask = 1 /\ token = "toolStart" -> [p EXCEPT !.inToolCall = TRUE]
    [] ~p.finished /\ mask = 1 /\ token = "toolEnd" -> [p EXCEPT !.inToolCall = FALSE]
    [] ~p.finished /\ mask = 1 /\ token = "end" -> [p EXCEPT !.finished = TRUE]
    [] ~p.finished /\ mask = 1 /\ token \notin Delimiters /\ ~p.inToolCall /\ p.inThinking ->
         [p EXCEPT !.trace = Append(@, token)]
    [] ~p.finished /\ mask = 1 /\ token \notin Delimiters /\ ~p.inToolCall /\ ~p.inThinking ->
         [p EXCEPT !.content = Append(@, token)]
    [] OTHER -> p

\* Rows end at their first terminal token, which is left out.
Batched(yields) ==
  LET ends == {k \in DOMAIN yields : yields[k][1] = "end"}
      first == CHOOSE k \in ends : \A l \in ends : k <= l
  IN  IF ends = {} THEN yields ELSE SubSeq(yields, 1, first - 1)

-----------------------------------------------------------------------------
(* One iteration of the loop.  A completed row goes on taking tokens until *)
(* the loop ends; the callback ends it when the server has every row.      *)

generated == Len(emitted[CHOOSE i \in Rows : TRUE])

Exhausted == generated >= MaxTokens

LoopEnds == Exhausted \/ \A i \in Rows : state[i].completed

WaitsForAllBug(i) ==
  IF state[i].completed THEN {}
  ELSE IF IsForced(state[i]) THEN {Head(state[i].forced)} ELSE Sampled[i]

NextTokens(i) == IF IsForced(state[i]) THEN {Head(state[i].forced)} ELSE Sampled[i]

Outcomes(i, token) == IF Executes(Taken(state[i], token), token) THEN Answers ELSE {<< >>}

Step ==
  /\ ~done
  /\ ~LoopEnds
  /\ \E column \in [Rows -> Tokens] :
       /\ \A i \in Rows : column[i] \in NextTokens(i)
       /\ \E answers \in [Rows -> Answers] :
            /\ \A i \in Rows : answers[i] \in Outcomes(i, column[i])
            /\ LET mask == [i \in Rows |-> IF IsForced(state[i]) THEN 0 ELSE 1]
               IN  /\ state' = [i \in Rows |-> Advanced(state[i], column[i], answers[i])]
                   /\ parse' = [i \in Rows |-> Parsed(parse[i], column[i], mask[i])]
                   /\ stream' = [i \in Rows |-> Streamed(stream[i], column[i], mask[i])]
                   /\ emitted' = [i \in Rows |->
                                    Append(emitted[i], <<column[i], mask[i]>>)]
  /\ done' = \A i \in Rows : parse'[i].finished

Return ==
  /\ ~done
  /\ LoopEnds
  /\ done' = TRUE
  /\ UNCHANGED <<state, parse, stream, emitted>>

Terminated == done /\ UNCHANGED vars

Next == Step \/ Return \/ Terminated

\* The loop runs in the handler's goroutine and waits for nothing.
Spec == Init /\ [][Next]_vars /\ WF_vars(Next)

-----------------------------------------------------------------------------
(* Properties.                                                             *)

\* Every variable has its type; no more than MaxTokens columns are yielded.
TypeOK ==
  /\ state \in [Rows -> RowState]
  /\ parse \in [Rows -> RowParse]
  /\ stream \in [Rows -> RowStream]
  /\ emitted \in [Rows -> Seq(Tokens \X {0, 1})]
  /\ \A i \in Rows : Len(emitted[i]) <= MaxTokens
  /\ done \in BOOLEAN

WithoutThinking(tokens) == Only(tokens, Tokens \ {"thinkStart", "thinkEnd"})

\* The server keeps its own machines and never sees the engine's: at every
\* yield the two agree on whether a row is over, in a call and in a trace, and
\* on the call's expression but for thinking delimiters within it.
ParserFollowsEngine ==
  \A i \in Rows :
    /\ parse[i].finished = state[i].completed
    /\ ~parse[i].finished =>
         /\ parse[i].inToolCall = state[i].inToolCall
         /\ Thinking => parse[i].inThinking = state[i].inThinking
         /\ parse[i].callArgs = WithoutThinking(state[i].toolCallTokens)

\* The tokens sampled after an opening of a trace, up to the next delimiter.
TraceMarks == {"thinkStart", "thinkEnd"}

Openings(yields) ==
  {k \in DOMAIN yields : yields[k][1] = "thinkStart"} \cup (IF Primed THEN {0} ELSE {})

SampledAfter(yields, opening) ==
  {k \in DOMAIN yields : /\ k > opening /\ yields[k][2] = 1
                         /\ \A d \in (opening + 1)..k : yields[d][1] \notin TraceMarks}

\* types.go: "ThinkingBudget caps the number of reasoning tokens" - per opening, not
\* per row nor per trace: a <|think_start|> sampled inside a trace starts the count
\* anew (engine.go:302-304), and a row may open as many as it likes.  After each
\* opening the model samples no more than the budget before the trace is closed or
\* opened again, with tool calls, their outputs and the forced tokens of earlier
\* overruns in between, and the trace a row reports, which is its last opening's,
\* is within it.
ReasoningWithinBudget ==
  Budget > 0 => \A i \in Rows :
    /\ \A opening \in Openings(emitted[i]) :
         Cardinality(SampledAfter(emitted[i], opening)) <= Budget
    /\ Len(parse[i].reasoning) <= Budget

Shown(i) == Len(stream[i].content) + Len(stream[i].trace)

ShownInAll ==
  LET rows == SetToSeq(Rows)
  IN  Total([k \in 1..Len(rows) |-> Shown(rows[k])])

AllShown(i) ==
  \A k \in DOMAIN emitted[i] : emitted[i][k] \in {<<"text", 1>>, <<"end", 1>>}

\* The three consumers keep machines of their own over the same yields.  A row's
\* stream carries the content the whole answer has and a trace that ends in its
\* trace (the answer keeps the last one only), what rollouts are trained on is
\* what was sampled, tool outputs appear nowhere ("must not appear in the
\* response"), and a stream is said to have stopped with a row cut off only if
\* some token was hidden (the stream counts over all rows what it has shown).
ConsumersAgree ==
  /\ \A i \in Rows :
       LET trained == Only(Batched(emitted[i]), {<<"text", 1>>})
           called == FlattenSeq(parse[i].toolCalls) \o parse[i].callArgs
           shown == stream[i].content \o stream[i].trace \o called
       IN  /\ stream[i].content = parse[i].sampled
           /\ IsSuffix(parse[i].reasoning, stream[i].trace)
           /\ \A k \in DOMAIN shown : shown[k] = "text"
           /\ stream[i].finished = parse[i].finished
           /\ Shown(i) <= Len(trained)
  /\ done /\ (\A i \in Rows : AllShown(i)) /\ (\E i \in Rows : ~parse[i].finished) =>
       ShownInAll >= MaxTokens

\* ensemble.go: blended generation yields "exactly like Engine.GenerateWith.
\* Thinking-budget handling matches the single-model engine": its ladder, written
\* out again, takes every row to the state the engine's does.
EnsembleMatchesEngine ==
  \A i \in Rows : \A token \in NextTokens(i) : \A answer \in Outcomes(i, token) :
    EnsembleAdvanced(state[i], token, answer) = Advanced(state[i], token, answer)

\* guides/00: "The loop ends when every row emits <|assistant_end|> or the token
\* budget is exhausted", whatever is forced meanwhile.
LoopTerminates == <>done

=============================================================================
