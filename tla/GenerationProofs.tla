-------------------------- MODULE GenerationProofs --------------------------
(***************************************************************************)
(* Proofs about Generation: the server's parser follows the engine, no      *)
(* opening of a trace exceeds its budget, the consumers of the yields agree, *)
(* and the ensemble's ladder is the engine's; and about Drafting: a drafter *)
(* drafts what it was trained to.                                          *)
(***************************************************************************)
EXTENDS Generation, Drafting, SeqSumsProofs

\* Within a call nothing is forced but the end of a trace.
CallOK(s) == s.inToolCall => \A k \in DOMAIN s.forced : s.forced[k] = "thinkEnd"

\* What the parser knows of the engine's row.
Agree(s, p) ==
  /\ p.finished = s.completed
  /\ ~p.finished =>
       /\ p.inToolCall = s.inToolCall
       /\ Thinking => p.inThinking = s.inThinking
       /\ p.callArgs = WithoutThinking(s.toolCallTokens)

\* A trace that has used up its budget is about to be closed, and what the
\* parser keeps of an open one the engine has counted.
Bounded(s, p) ==
  Budget > 0 =>
    /\ Len(p.reasoning) <= Budget
    /\ s.inThinking /\ s.thinkingTokens >= Budget =>
         \E k \in DOMAIN s.forced : s.forced[k] = "thinkEnd"
    /\ ~p.finished /\ s.inThinking => Len(p.reasoning) <= s.thinkingTokens

\* A row whose last delimiter opened a trace is in one, and has sampled there no
\* more than the engine has counted; no opening, old or open, went over the budget.
OpenSince(e, o) == \A d \in DOMAIN e : d > o => e[d][1] \notin TraceMarks

WithinBudget(s, e) ==
  Budget > 0 => \A o \in Openings(e) :
    /\ IsFiniteSet(SampledAfter(e, o)) /\ Cardinality(SampledAfter(e, o)) <= Budget
    /\ OpenSince(e, o) => s.inThinking /\ Cardinality(SampledAfter(e, o)) <= s.thinkingTokens

\* The end of t reads like r.
EndsIn(t, r) ==
  /\ Len(r) <= Len(t)
  /\ \A k \in 1..Len(r) : t[Len(t) - Len(r) + k] = r[k]

\* What the stream has shown of a row is what the parser has.
Streams(p, q) ==
  /\ q.content = p.sampled
  /\ EndsIn(q.trace, p.reasoning)
  /\ q.finished = p.finished
  /\ ~p.finished => q.inToolCall = p.inToolCall /\ q.inThinking = p.inThinking
  /\ q.content \in Seq({"text"}) /\ q.trace \in Seq({"text"})
  /\ p.callArgs \in Seq({"text"}) /\ p.toolCalls \in Seq(Seq({"text"}))

\* A row is over once its terminal token is out, and its rollout has at least
\* what its stream has shown; with nothing hidden, all of it is shown.
Trains(p, q, e) ==
  /\ p.finished <=> \E k \in DOMAIN e : e[k][1] = "end"
  /\ Len(q.content) + Len(q.trace) <= Len(Only(Batched(e), {<<"text", 1>>}))
  /\ ~p.finished /\ (\A k \in DOMAIN e : e[k] \in {<<"text", 1>>, <<"end", 1>>}) =>
       /\ Len(q.content) + Len(q.trace) = Len(e)
       /\ ~p.inToolCall

RowOK(s, p, q, e) ==
  /\ CallOK(s) /\ Agree(s, p) /\ Bounded(s, p) /\ WithinBudget(s, e)
  /\ Streams(p, q) /\ Trains(p, q, e)

\* The inductive invariant: every row for itself, all rows as long as another,
\* and the loop done only when every row is or the tokens are used up.
GenerationInv ==
  /\ TypeOK
  /\ \A i \in Rows : RowOK(state[i], parse[i], stream[i], emitted[i])
  /\ \A i, j \in Rows : Len(emitted[i]) = Len(emitted[j])
  /\ done => (\A i \in Rows : parse[i].finished) \/ \A i \in Rows : Len(emitted[i]) >= MaxTokens

-----------------------------------------------------------------------------
(* One token in the engine, field by field.                                *)

Left(s) == IF s.forced = << >> THEN << >> ELSE Tail(s.forced)

Closing(s, token) == token = "toolEnd" /\ s.inToolCall

Counts(s, token) == Thinking /\ token \notin {"thinkStart", "thinkEnd"} /\ s.inThinking

Spent(s, token) == Counts(s, token) /\ Budget > 0 /\ s.thinkingTokens + 1 >= Budget

Forcing(s, token, answer) ==
  LET called == IF Closing(s, token) THEN Left(s) \o answer ELSE Left(s)
  IN  IF Spent(s, token) THEN Append(called, "thinkEnd") ELSE called

Outcome(s, token, answer) ==
  [forced         |-> Forcing(s, token, answer),
   inToolCall     |-> token = "toolStart" \/ (s.inToolCall /\ token # "toolEnd"),
   toolCallTokens |-> IF token = "toolStart" \/ Closing(s, token) THEN NoCall
                      ELSE IF s.inToolCall THEN Append(s.toolCallTokens, token)
                      ELSE s.toolCallTokens,
   inThinking     |-> IF Thinking
                        THEN token = "thinkStart" \/ (s.inThinking /\ token # "thinkEnd")
                        ELSE s.inThinking,
   thinkingTokens |-> IF Thinking /\ token = "thinkStart" THEN 0
                      ELSE IF Counts(s, token) THEN s.thinkingTokens + 1
                      ELSE s.thinkingTokens,
   completed      |-> s.completed \/ token = "end"]

Row(forced, call, tokens, thinking, count, over) ==
  [forced |-> forced, inToolCall |-> call, toolCallTokens |-> tokens,
   inThinking |-> thinking, thinkingTokens |-> count, completed |-> over]

(***************************************************************************)
(* The bookkeeping both ladders begin with.                                *)
(***************************************************************************)
LEMMA TakenIs ==
  ASSUME NEW s \in RowState, NEW token \in Tokens
  PROVE  Taken(s, token) = Row(Left(s), s.inToolCall, s.toolCallTokens, s.inThinking,
                               s.thinkingTokens, s.completed \/ token = "end")
<1> DEFINE over == s.completed \/ token = "end"
           r == Row(s.forced, s.inToolCall, s.toolCallTokens, s.inThinking,
                    s.thinkingTokens, s.completed)
           q == Row(Left(s), s.inToolCall, s.toolCallTokens, s.inThinking,
                    s.thinkingTokens, s.completed)
<1>1. s = r
  BY DEF RowState, Row
<1>2. r.forced = s.forced /\ r.completed = s.completed
  BY DEF Row
<1>3. [r EXCEPT !.forced = Left(s)] = q
  BY DEF Row
<1>4. [q EXCEPT !.completed = over]
        = Row(Left(s), s.inToolCall, s.toolCallTokens, s.inThinking, s.thinkingTokens, over)
  <2> HIDE DEF over
  <2> QED BY DEF Row
<1>5. Taken(r, token) = [r EXCEPT !.forced = Left(s), !.completed = over]
  <2> HIDE DEF r
  <2> QED BY <1>2 DEF Taken, Left
<1> HIDE DEF r, q
<1>6. [r EXCEPT !.forced = Left(s), !.completed = over] = [q EXCEPT !.completed = over]
  <2> HIDE DEF over
  <2> QED BY <1>3
<1> QED BY <1>1, <1>4, <1>5, <1>6

(***************************************************************************)
(* The tool-call machine, then the thinking machine, as one record.        *)
(***************************************************************************)
LEMMA AdvancedIs ==
  ASSUME NEW s \in RowState, NEW token \in Tokens, NEW answer \in Seq(Forceable)
  PROVE  Advanced(s, token, answer) = Outcome(s, token, answer)
<1> DEFINE over == s.completed \/ token = "end"
           taken == Row(Left(s), s.inToolCall, s.toolCallTokens, s.inThinking,
                        s.thinkingTokens, over)
           called == IF Closing(s, token) THEN Left(s) \o answer ELSE Left(s)
           call == token = "toolStart" \/ (s.inToolCall /\ token # "toolEnd")
           tokens == IF token = "toolStart" \/ Closing(s, token) THEN NoCall
                     ELSE IF s.inToolCall THEN Append(s.toolCallTokens, token)
                     ELSE s.toolCallTokens
           tooled == Row(called, call, tokens, s.inThinking, s.thinkingTokens, over)
<1>1. s.inToolCall \in BOOLEAN /\ s.inThinking \in BOOLEAN /\ s.completed \in BOOLEAN
      /\ s.thinkingTokens \in Nat
  BY DEF RowState
<1>2. Taken(s, token) = taken
  BY TakenIs
<1>3. AfterTool(taken, token, answer) = tooled
  <2>1. CASE token = "toolStart"
    BY <2>1, <1>1 DEF AfterTool, Row, Closing
  <2>2. CASE Closing(s, token)
    BY <2>2, <1>1 DEF AfterTool, Row, Closing
  <2>3. CASE token \notin {"toolStart", "toolEnd"} /\ s.inToolCall
    BY <2>3, <1>1 DEF AfterTool, Row, Closing
  <2>4. CASE token # "toolStart" /\ ~s.inToolCall
    BY <2>4, <1>1 DEF AfterTool, Row, Closing
  <2> QED BY <2>1, <2>2, <2>3, <2>4 DEF Closing
<1>4. AfterThinking(tooled, token) = Outcome(s, token, answer)
  <2> HIDE DEF over, called, call, tokens
  <2> DEFINE f == IF Spent(s, token) THEN Append(called, "thinkEnd") ELSE called
             t == IF Thinking
                    THEN token = "thinkStart" \/ (s.inThinking /\ token # "thinkEnd")
                    ELSE s.inThinking
             c == IF Thinking /\ token = "thinkStart" THEN 0
                  ELSE IF Counts(s, token) THEN s.thinkingTokens + 1
                  ELSE s.thinkingTokens
  <2>1. AfterThinking(tooled, token) = Row(f, call, tokens, t, c, over)
    <3>1. CASE ~Thinking
      BY <3>1 DEF AfterThinking, Row, Counts, Spent
    <3>2. CASE Thinking /\ token = "thinkStart"
      BY <3>2 DEF AfterThinking, Row, Counts, Spent
    <3>3. CASE Thinking /\ token = "thinkEnd"
      BY <3>3 DEF AfterThinking, Row, Counts, Spent
    <3>4. CASE Thinking /\ token \notin {"thinkStart", "thinkEnd"} /\ ~s.inThinking
      BY <3>4, <1>1 DEF AfterThinking, Row, Counts, Spent
    <3>5. CASE Thinking /\ token \notin {"thinkStart", "thinkEnd"} /\ s.inThinking
      BY <3>5 DEF AfterThinking, Row, Counts, Spent, OverBudget, Counted, CloseTrace
    <3> QED BY <3>1, <3>2, <3>3, <3>4, <3>5
  <2> QED BY <2>1 DEF Outcome, Forcing, Row, over, called, call, tokens
<1> QED BY <1>2, <1>3, <1>4 DEF Advanced

(***************************************************************************)
(* The ensemble's ladder, written out again, is the same record.           *)
(***************************************************************************)
LEMMA EnsembleAdvancedIs ==
  ASSUME NEW s \in RowState, NEW token \in Tokens, NEW answer \in Seq(Forceable),
         s.toolCallTokens = NoCall => answer = << >>
  PROVE  EnsembleAdvanced(s, token, answer) = Outcome(s, token, answer)
<1> DEFINE over == s.completed \/ token = "end"
           taken == Row(Left(s), s.inToolCall, s.toolCallTokens, s.inThinking,
                        s.thinkingTokens, over)
           called == IF Closing(s, token) THEN Left(s) \o answer ELSE Left(s)
           call == token = "toolStart" \/ (s.inToolCall /\ token # "toolEnd")
           tokens == IF token = "toolStart" \/ Closing(s, token) THEN NoCall
                     ELSE IF s.inToolCall THEN Append(s.toolCallTokens, token)
                     ELSE s.toolCallTokens
           tooled == Row(called, call, tokens, s.inThinking, s.thinkingTokens, over)
<1>1. s.inToolCall \in BOOLEAN /\ s.inThinking \in BOOLEAN /\ s.completed \in BOOLEAN
      /\ s.thinkingTokens \in Nat
  BY DEF RowState
<1>2. [s EXCEPT !.forced = IF @ = << >> THEN @ ELSE Tail(@),
                !.completed = @ \/ token = "end"] = taken
  <2>1. Taken(s, token) = taken
    BY TakenIs
  <2> QED BY <2>1 DEF Taken
<1>3. EnsembleTool(taken, token, answer) = tooled
  <2>1. CASE token = "toolStart"
    BY <2>1, <1>1 DEF EnsembleTool, Row, Closing
  <2>2. CASE Closing(s, token)
    <3>1. (IF s.toolCallTokens = NoCall THEN << >> ELSE answer) = answer
      OBVIOUS
    <3> QED BY <2>2, <3>1, <1>1 DEF EnsembleTool, Row, Closing
  <2>3. CASE token \notin {"toolStart", "toolEnd"} /\ s.inToolCall
    BY <2>3, <1>1 DEF EnsembleTool, Row, Closing
  <2>4. CASE token # "toolStart" /\ ~s.inToolCall
    BY <2>4, <1>1 DEF EnsembleTool, Row, Closing
  <2> QED BY <2>1, <2>2, <2>3, <2>4 DEF Closing
<1>N. called \in Seq(Forceable)
  <2>1. Left(s) \in Seq(Forceable)
    BY DEF Left, RowState
  <2> QED BY <2>1
<1>4. (IF Thinking THEN EnsembleThinking(tooled, token) ELSE tooled)
        = Outcome(s, token, answer)
  <2> HIDE DEF over, called, call, tokens
  <2> DEFINE f == IF Spent(s, token) THEN Append(called, "thinkEnd") ELSE called
             t == IF Thinking
                    THEN token = "thinkStart" \/ (s.inThinking /\ token # "thinkEnd")
                    ELSE s.inThinking
             c == IF Thinking /\ token = "thinkStart" THEN 0
                  ELSE IF Counts(s, token) THEN s.thinkingTokens + 1
                  ELSE s.thinkingTokens
  <2>1. (IF Thinking THEN EnsembleThinking(tooled, token) ELSE tooled)
          = Row(f, call, tokens, t, c, over)
    <3>1. CASE ~Thinking
      BY <3>1 DEF Row, Counts, Spent
    <3>2. CASE Thinking /\ token = "thinkStart"
      BY <3>2 DEF EnsembleThinking, Row, Counts, Spent
    <3>3. CASE Thinking /\ token = "thinkEnd"
      BY <3>3, <1>1 DEF EnsembleThinking, Row, Counts, Spent
    <3>4. CASE Thinking /\ token \notin {"thinkStart", "thinkEnd"} /\ ~s.inThinking
      BY <3>4, <1>1 DEF EnsembleThinking, Row, Counts, Spent
    <3>5. CASE Thinking /\ token \notin {"thinkStart", "thinkEnd"} /\ s.inThinking
      <4>1. called \o (IF Spent(s, token) THEN <<"thinkEnd">> ELSE << >>) = f
        <5>1. called \o << >> = called /\ called \o <<"thinkEnd">> = Append(called, "thinkEnd")
          BY <1>N, AppendIsConcat, ConcatEmptySeq
        <5> QED BY <5>1
      <4>2. Spent(s, token) <=> Budget > 0 /\ s.thinkingTokens + 1 >= Budget
        BY <3>5 DEF Spent, Counts
      <4> QED BY <3>5, <4>1, <4>2 DEF EnsembleThinking, Row, Counts
    <3> QED BY <3>1, <3>2, <3>3, <3>4, <3>5
  <2> QED BY <2>1 DEF Outcome, Forcing, Row, over, called, call, tokens
<1> QED BY <1>2, <1>3, <1>4 DEF EnsembleAdvanced

-----------------------------------------------------------------------------
(* The same token in the parser and in the stream, field by field.         *)

\* A token a live row is shown: one that was sampled.
Hears(p, token, mask, what) == ~p.finished /\ mask = 1 /\ token = what

Turns(p, token, what) == ~p.finished /\ token = what

Heard(p, token, mask) ==
  [inToolCall |-> Hears(p, token, mask, "toolStart")
                    \/ (p.inToolCall /\ ~Hears(p, token, mask, "toolEnd")),
   callArgs   |-> IF \/ Hears(p, token, mask, "toolStart")
                     \/ Hears(p, token, mask, "toolEnd") /\ p.inToolCall THEN NoCall
                  ELSE IF Hears(p, token, mask, "text") /\ p.inToolCall
                    THEN Append(p.callArgs, token)
                  ELSE p.callArgs,
   inThinking |-> Turns(p, token, "thinkStart") \/ (p.inThinking /\ ~Turns(p, token, "thinkEnd")),
   reasoning  |-> IF Turns(p, token, "thinkStart") THEN << >>
                  ELSE IF Hears(p, token, mask, "text") /\ ~p.inToolCall /\ p.inThinking
                    THEN Append(p.reasoning, token)
                  ELSE p.reasoning,
   sampled    |-> IF Hears(p, token, mask, "text") /\ ~p.inToolCall /\ ~p.inThinking
                    THEN Append(p.sampled, token) ELSE p.sampled,
   toolCalls  |-> IF Hears(p, token, mask, "toolEnd") /\ p.inToolCall
                    THEN Append(p.toolCalls, p.callArgs) ELSE p.toolCalls,
   finished   |-> p.finished \/ Hears(p, token, mask, "end")]

Written(q, token, mask) ==
  [inToolCall |-> Hears(q, token, mask, "toolStart")
                    \/ (q.inToolCall /\ ~Hears(q, token, mask, "toolEnd")),
   inThinking |-> Turns(q, token, "thinkStart") \/ (q.inThinking /\ ~Turns(q, token, "thinkEnd")),
   finished   |-> q.finished \/ Hears(q, token, mask, "end"),
   content    |-> IF Hears(q, token, mask, "text") /\ ~q.inToolCall /\ ~q.inThinking
                    THEN Append(q.content, token) ELSE q.content,
   trace      |-> IF Hears(q, token, mask, "text") /\ ~q.inToolCall /\ q.inThinking
                    THEN Append(q.trace, token) ELSE q.trace]

SameRow(a, b) ==
  /\ a.inToolCall = b.inToolCall /\ a.callArgs = b.callArgs
  /\ a.inThinking = b.inThinking /\ a.reasoning = b.reasoning
  /\ a.sampled = b.sampled /\ a.toolCalls = b.toolCalls /\ a.finished = b.finished

(***************************************************************************)
(* The parser's ladder as one record.                                      *)
(***************************************************************************)
LEMMA ParsedIs ==
  ASSUME NEW p \in RowParse, NEW token \in Tokens, NEW mask \in {0, 1},
         mask = 1 => token \in Delimiters \cup {"text"}
  PROVE  /\ SameRow(Parsed(p, token, mask), Heard(p, token, mask))
         /\ Parsed(p, token, mask) \in RowParse
<1>0. /\ NoCall \in Seq(Tokens) /\ << >> \in Seq(Tokens)
      /\ Append(p.callArgs, token) \in Seq(Tokens)
      /\ Append(p.reasoning, token) \in Seq(Tokens)
      /\ Append(p.sampled, token) \in Seq(Tokens)
      /\ Append(p.toolCalls, p.callArgs) \in Seq(Seq(Tokens))
  <2>1. /\ p.callArgs \in Seq(Tokens) /\ p.reasoning \in Seq(Tokens)
        /\ p.sampled \in Seq(Tokens) /\ p.toolCalls \in Seq(Seq(Tokens))
    BY DEF RowParse
  <2> QED BY <2>1 DEF NoCall
<1>1. p.inToolCall \in BOOLEAN /\ p.inThinking \in BOOLEAN /\ p.finished \in BOOLEAN
  BY DEF RowParse
<1>2. CASE p.finished
  <2>1. Parsed(p, token, mask) = p
    BY <1>2 DEF Parsed
  <2>2. SameRow(p, Heard(p, token, mask))
    BY <1>1, <1>2 DEF SameRow, Heard, Hears, Turns
  <2> QED BY <2>1, <2>2
<1>3. CASE ~p.finished /\ token = "thinkStart"
  <2>1. Parsed(p, token, mask)
          = [p EXCEPT !.inThinking = TRUE, !.reasoning = << >>]
    BY <1>3 DEF Parsed
  <2>2. SameRow([p EXCEPT !.inThinking = TRUE, !.reasoning = << >>],
                Heard(p, token, mask))
    BY <1>1, <1>3 DEF RowParse, SameRow, Heard, Hears, Turns
  <2>3. [p EXCEPT !.inThinking = TRUE, !.reasoning = << >>]
          \in RowParse
    BY <1>0 DEF RowParse
  <2> QED BY <2>1, <2>2, <2>3
<1>4. CASE ~p.finished /\ token = "thinkEnd"
  <2>1. Parsed(p, token, mask)
          = [p EXCEPT !.inThinking = FALSE]
    BY <1>4 DEF Parsed
  <2>2. SameRow([p EXCEPT !.inThinking = FALSE],
                Heard(p, token, mask))
    BY <1>1, <1>4 DEF RowParse, SameRow, Heard, Hears, Turns
  <2>3. [p EXCEPT !.inThinking = FALSE]
          \in RowParse
    BY <1>0 DEF RowParse
  <2> QED BY <2>1, <2>2, <2>3
<1>5. CASE ~p.finished /\ token \notin {"thinkStart", "thinkEnd"} /\ mask = 0
  <2>1. Parsed(p, token, mask) = p
    BY <1>5 DEF Parsed
  <2>2. SameRow(p, Heard(p, token, mask))
    BY <1>1, <1>5 DEF SameRow, Heard, Hears, Turns
  <2> QED BY <2>1, <2>2
<1>6. CASE ~p.finished /\ mask = 1 /\ token = "toolStart"
  <2>1. Parsed(p, token, mask)
          = [p EXCEPT !.inToolCall = TRUE, !.callArgs = NoCall]
    BY <1>6 DEF Parsed, ParsedSample, Delimiters
  <2>2. SameRow([p EXCEPT !.inToolCall = TRUE, !.callArgs = NoCall],
                Heard(p, token, mask))
    BY <1>1, <1>6 DEF RowParse, SameRow, Heard, Hears, Turns
  <2>3. [p EXCEPT !.inToolCall = TRUE, !.callArgs = NoCall]
          \in RowParse
    BY <1>0 DEF RowParse
  <2> QED BY <2>1, <2>2, <2>3
<1>7. CASE ~p.finished /\ mask = 1 /\ token = "toolEnd" /\ p.inToolCall
  <2>1. Parsed(p, token, mask)
          = [p EXCEPT !.inToolCall = FALSE, !.callArgs = NoCall,
                      !.toolCalls = Append(@, p.callArgs)]
    BY <1>7 DEF Parsed, ParsedSample, Delimiters
  <2>2. SameRow([p EXCEPT !.inToolCall = FALSE, !.callArgs = NoCall,
                      !.toolCalls = Append(@, p.callArgs)],
                Heard(p, token, mask))
    BY <1>1, <1>7 DEF RowParse, SameRow, Heard, Hears, Turns
  <2>3. [p EXCEPT !.inToolCall = FALSE, !.callArgs = NoCall,
                      !.toolCalls = Append(@, p.callArgs)]
          \in RowParse
    BY <1>0 DEF RowParse
  <2> QED BY <2>1, <2>2, <2>3
<1>8. CASE ~p.finished /\ mask = 1 /\ token = "toolEnd" /\ ~p.inToolCall
  <2>1. Parsed(p, token, mask) = p
    BY <1>8 DEF Parsed, ParsedSample, Delimiters
  <2>2. SameRow(p, Heard(p, token, mask))
    BY <1>1, <1>8 DEF SameRow, Heard, Hears, Turns
  <2> QED BY <2>1, <2>2
<1>9. CASE ~p.finished /\ mask = 1 /\ token = "end"
  <2>1. Parsed(p, token, mask)
          = [p EXCEPT !.finished = TRUE]
    BY <1>9 DEF Parsed, ParsedSample, Delimiters
  <2>2. SameRow([p EXCEPT !.finished = TRUE],
                Heard(p, token, mask))
    BY <1>1, <1>9 DEF RowParse, SameRow, Heard, Hears, Turns
  <2>3. [p EXCEPT !.finished = TRUE]
          \in RowParse
    BY <1>0 DEF RowParse
  <2> QED BY <2>1, <2>2, <2>3
<1>10. CASE ~p.finished /\ mask = 1 /\ token = "text" /\ p.inToolCall
  <2>1. Parsed(p, token, mask)
          = [p EXCEPT !.callArgs = Append(@, token)]
    BY <1>10 DEF Parsed, ParsedSample, Delimiters
  <2>2. SameRow([p EXCEPT !.callArgs = Append(@, token)],
                Heard(p, token, mask))
    BY <1>1, <1>10 DEF RowParse, SameRow, Heard, Hears, Turns
  <2>3. [p EXCEPT !.callArgs = Append(@, token)]
          \in RowParse
    BY <1>0 DEF RowParse
  <2> QED BY <2>1, <2>2, <2>3
<1>11. CASE ~p.finished /\ mask = 1 /\ token = "text" /\ ~p.inToolCall /\ p.inThinking
  <2>1. Parsed(p, token, mask)
          = [p EXCEPT !.reasoning = Append(@, token)]
    BY <1>11 DEF Parsed, ParsedSample, Delimiters
  <2>2. SameRow([p EXCEPT !.reasoning = Append(@, token)],
                Heard(p, token, mask))
    BY <1>1, <1>11 DEF RowParse, SameRow, Heard, Hears, Turns
  <2>3. [p EXCEPT !.reasoning = Append(@, token)]
          \in RowParse
    BY <1>0 DEF RowParse
  <2> QED BY <2>1, <2>2, <2>3
<1>12. CASE ~p.finished /\ mask = 1 /\ token = "text" /\ ~p.inToolCall /\ ~p.inThinking
  <2>1. Parsed(p, token, mask)
          = [p EXCEPT !.sampled = Append(@, token)]
    BY <1>12 DEF Parsed, ParsedSample, Delimiters
  <2>2. SameRow([p EXCEPT !.sampled = Append(@, token)],
                Heard(p, token, mask))
    BY <1>1, <1>12 DEF RowParse, SameRow, Heard, Hears, Turns
  <2>3. [p EXCEPT !.sampled = Append(@, token)]
          \in RowParse
    BY <1>0 DEF RowParse
  <2> QED BY <2>1, <2>2, <2>3
<1> QED BY <1>2, <1>3, <1>4, <1>5, <1>6, <1>7, <1>8, <1>9, <1>10, <1>11, <1>12 DEF Delimiters

SameStream(a, b) ==
  /\ a.inToolCall = b.inToolCall /\ a.inThinking = b.inThinking /\ a.finished = b.finished
  /\ a.content = b.content /\ a.trace = b.trace

(***************************************************************************)
(* The stream's ladder as one record.                                      *)
(***************************************************************************)
LEMMA StreamedIs ==
  ASSUME NEW q \in RowStream, NEW token \in Tokens, NEW mask \in {0, 1},
         mask = 1 => token \in Delimiters \cup {"text"}
  PROVE  /\ SameStream(Streamed(q, token, mask), Written(q, token, mask))
         /\ Streamed(q, token, mask) \in RowStream
<1>0. Append(q.content, token) \in Seq(Tokens) /\ Append(q.trace, token) \in Seq(Tokens)
  BY DEF RowStream
<1>1. q.inToolCall \in BOOLEAN /\ q.inThinking \in BOOLEAN /\ q.finished \in BOOLEAN
  BY DEF RowStream
<1>2. CASE q.finished
  <2>1. Streamed(q, token, mask) = q
    BY <1>2 DEF Streamed, Delimiters
  <2>2. SameStream(q, Written(q, token, mask))
    BY <1>1, <1>2 DEF SameStream, Written, Hears, Turns
  <2> QED BY <2>1, <2>2
<1>3. CASE ~q.finished /\ token = "thinkStart"
  <2>1. Streamed(q, token, mask)
          = [q EXCEPT !.inThinking = TRUE]
    BY <1>3 DEF Streamed, Delimiters
  <2>2. SameStream([q EXCEPT !.inThinking = TRUE],
                Written(q, token, mask))
    BY <1>1, <1>3 DEF RowStream, SameStream, Written, Hears, Turns
  <2>3. [q EXCEPT !.inThinking = TRUE]
          \in RowStream
    BY <1>0 DEF RowStream
  <2> QED BY <2>1, <2>2, <2>3
<1>4. CASE ~q.finished /\ token = "thinkEnd"
  <2>1. Streamed(q, token, mask)
          = [q EXCEPT !.inThinking = FALSE]
    BY <1>4 DEF Streamed, Delimiters
  <2>2. SameStream([q EXCEPT !.inThinking = FALSE],
                Written(q, token, mask))
    BY <1>1, <1>4 DEF RowStream, SameStream, Written, Hears, Turns
  <2>3. [q EXCEPT !.inThinking = FALSE]
          \in RowStream
    BY <1>0 DEF RowStream
  <2> QED BY <2>1, <2>2, <2>3
<1>5. CASE ~q.finished /\ token \notin {"thinkStart", "thinkEnd"} /\ mask = 0
  <2>1. Streamed(q, token, mask) = q
    BY <1>5 DEF Streamed, Delimiters
  <2>2. SameStream(q, Written(q, token, mask))
    BY <1>1, <1>5 DEF SameStream, Written, Hears, Turns
  <2> QED BY <2>1, <2>2
<1>6. CASE ~q.finished /\ mask = 1 /\ token = "toolStart"
  <2>1. Streamed(q, token, mask)
          = [q EXCEPT !.inToolCall = TRUE]
    BY <1>6 DEF Streamed, Delimiters
  <2>2. SameStream([q EXCEPT !.inToolCall = TRUE],
                Written(q, token, mask))
    BY <1>1, <1>6 DEF RowStream, SameStream, Written, Hears, Turns
  <2>3. [q EXCEPT !.inToolCall = TRUE]
          \in RowStream
    BY <1>0 DEF RowStream
  <2> QED BY <2>1, <2>2, <2>3
<1>7. CASE ~q.finished /\ mask = 1 /\ token = "toolEnd"
  <2>1. Streamed(q, token, mask)
          = [q EXCEPT !.inToolCall = FALSE]
    BY <1>7 DEF Streamed, Delimiters
  <2>2. SameStream([q EXCEPT !.inToolCall = FALSE],
                Written(q, token, mask))
    BY <1>1, <1>7 DEF RowStream, SameStream, Written, Hears, Turns
  <2>3. [q EXCEPT !.inToolCall = FALSE]
          \in RowStream
    BY <1>0 DEF RowStream
  <2> QED BY <2>1, <2>2, <2>3
<1>8. CASE ~q.finished /\ mask = 1 /\ token = "end"
  <2>1. Streamed(q, token, mask)
          = [q EXCEPT !.finished = TRUE]
    BY <1>8 DEF Streamed, Delimiters
  <2>2. SameStream([q EXCEPT !.finished = TRUE],
                Written(q, token, mask))
    BY <1>1, <1>8 DEF RowStream, SameStream, Written, Hears, Turns
  <2>3. [q EXCEPT !.finished = TRUE]
          \in RowStream
    BY <1>0 DEF RowStream
  <2> QED BY <2>1, <2>2, <2>3
<1>9. CASE ~q.finished /\ mask = 1 /\ token = "text" /\ q.inToolCall
  <2>1. Streamed(q, token, mask) = q
    BY <1>9 DEF Streamed, Delimiters
  <2>2. SameStream(q, Written(q, token, mask))
    BY <1>1, <1>9 DEF SameStream, Written, Hears, Turns
  <2> QED BY <2>1, <2>2
<1>10. CASE ~q.finished /\ mask = 1 /\ token = "text" /\ ~q.inToolCall /\ q.inThinking
  <2>1. Streamed(q, token, mask)
          = [q EXCEPT !.trace = Append(@, token)]
    BY <1>10 DEF Streamed, Delimiters
  <2>2. SameStream([q EXCEPT !.trace = Append(@, token)],
                Written(q, token, mask))
    BY <1>1, <1>10 DEF RowStream, SameStream, Written, Hears, Turns
  <2>3. [q EXCEPT !.trace = Append(@, token)]
          \in RowStream
    BY <1>0 DEF RowStream
  <2> QED BY <2>1, <2>2, <2>3
<1>11. CASE ~q.finished /\ mask = 1 /\ token = "text" /\ ~q.inToolCall /\ ~q.inThinking
  <2>1. Streamed(q, token, mask)
          = [q EXCEPT !.content = Append(@, token)]
    BY <1>11 DEF Streamed, Delimiters
  <2>2. SameStream([q EXCEPT !.content = Append(@, token)],
                Written(q, token, mask))
    BY <1>1, <1>11 DEF RowStream, SameStream, Written, Hears, Turns
  <2>3. [q EXCEPT !.content = Append(@, token)]
          \in RowStream
    BY <1>0 DEF RowStream
  <2> QED BY <2>1, <2>2, <2>3
<1> QED BY <1>2, <1>3, <1>4, <1>5, <1>6, <1>7, <1>8, <1>9, <1>10, <1>11 DEF Delimiters

-----------------------------------------------------------------------------
(* The sequences the consumers build.                                      *)

(***************************************************************************)
(* A stream that ends in the trace still does with one more token in both, *)
(* and when the trace starts over.                                         *)
(***************************************************************************)
LEMMA EndsInAppend ==
  ASSUME NEW T, NEW t \in Seq(T), NEW r \in Seq(T), NEW x \in T, EndsIn(t, r)
  PROVE  EndsIn(Append(t, x), Append(r, x))
<1> DEFINE u == Append(t, x)
           v == Append(r, x)
           m == Len(t)
           n == Len(r)
<1>1. /\ m \in Nat /\ n \in Nat /\ n <= m
      /\ Len(u) = m + 1 /\ u[m + 1] = x /\ \A i \in 1..m : u[i] = t[i]
      /\ Len(v) = n + 1 /\ v[n + 1] = x /\ \A i \in 1..n : v[i] = r[i]
      /\ \A i \in 1..n : t[m - n + i] = r[i]
  BY AppendProperties DEF EndsIn
<1> HIDE DEF u, v, m, n
<1>2. ASSUME NEW i \in 1..(n + 1) PROVE u[(m + 1) - (n + 1) + i] = v[i]
  <2>1. CASE i = n + 1
    <3>1. (m + 1) - (n + 1) + i = m + 1
      BY <1>1, <2>1
    <3> QED BY <1>1, <2>1, <3>1
  <2>2. CASE i \in 1..n
    <3>1. (m + 1) - (n + 1) + i = m - n + i /\ m - n + i \in 1..m
      BY <1>1, <2>2
    <3> QED BY <1>1, <2>2, <3>1
  <2> QED BY <1>1, <2>1, <2>2
<1>3. n + 1 <= m + 1
  BY <1>1
<1> QED BY <1>1, <1>2, <1>3 DEF EndsIn, u, v

LEMMA EndsInEmpty ==
  ASSUME NEW T, NEW t \in Seq(T)
  PROVE  EndsIn(t, << >>)
<1>1. Len(t) \in Nat /\ Len(<< >>) = 0
  OBVIOUS
<1> QED BY <1>1 DEF EndsIn

(***************************************************************************)
(* EndsIn is the library's IsSuffix.                                       *)
(***************************************************************************)
LEMMA EndsInIsSuffix ==
  ASSUME NEW T, NEW t \in Seq(T), NEW r \in Seq(T), EndsIn(t, r)
  PROVE  IsSuffix(r, t)
<1> DEFINE u == Reverse(t)
           v == Reverse(r)
           m == Len(t)
           n == Len(r)
<1>1. /\ m \in Nat /\ n \in Nat /\ n <= m
      /\ \A i \in 1..n : t[m - n + i] = r[i]
      /\ \A i \in 1..m : t[i] \in T
      /\ \A i \in 1..n : r[i] \in T
  BY DEF EndsIn
<1>2. u = [i \in 1..m |-> t[m - i + 1]] /\ v = [i \in 1..n |-> r[n - i + 1]]
  BY DEF Reverse
<1> HIDE DEF u, v, m, n
<1>3. u \in Seq(T) /\ Len(u) = m /\ \A i \in 1..m : u[i] = t[m - i + 1]
  <2>1. \A i \in 1..m : m - i + 1 \in 1..m
    BY <1>1
  <2>2. \A i \in 1..m : t[m - i + 1] \in T
    BY <1>1, <2>1
  <2> QED BY <1>1, <1>2, <2>2
<1>4. v \in Seq(T) /\ Len(v) = n /\ \A i \in 1..n : v[i] = r[n - i + 1]
  <2>1. \A i \in 1..n : n - i + 1 \in 1..n
    BY <1>1
  <2>2. \A i \in 1..n : r[n - i + 1] \in T
    BY <1>1, <2>1
  <2>3. n \in Nat /\ v = [i \in 1..n |-> r[n - i + 1]]
    BY <1>1, <1>2
  <2> QED BY <2>2, <2>3
<1>5. \A i \in 1..n : v[i] = u[i]
  <2> TAKE i \in 1..n
  <2>1. n - i + 1 \in 1..n /\ m - n + (n - i + 1) = m - i + 1 /\ i \in 1..m
    BY <1>1
  <2>2. t[m - n + (n - i + 1)] = r[n - i + 1]
    BY <2>1, <1>1
  <2>3. v[i] = r[n - i + 1] /\ u[i] = t[m - i + 1]
    BY <2>1, <1>3, <1>4
  <2> QED BY <2>1, <2>2, <2>3
<1>6. SubSeq(v, 1, n) = SubSeq(u, 1, n)
  <2>1. SubSeq(v, 1, n) \in Seq(T) /\ Len(SubSeq(v, 1, n)) = n
        /\ \A i \in 1..n : SubSeq(v, 1, n)[i] = v[i]
    BY <1>1, <1>4
  <2>2. SubSeq(u, 1, n) \in Seq(T) /\ Len(SubSeq(u, 1, n)) = n
        /\ \A i \in 1..n : SubSeq(u, 1, n)[i] = u[i]
    BY <1>1, <1>3
  <2> QED BY <2>1, <2>2, <1>5, SeqEqual
<1> QED BY <1>1, <1>3, <1>4, <1>6 DEF IsSuffix, IsPrefix, u, v

Pairs == Tokens \X {0, 1}

Ends(e) == {k \in DOMAIN e : e[k][1] = "end"}

(***************************************************************************)
(* What a rollout keeps of a row with one more yield.                      *)
(***************************************************************************)
LEMMA BatchedAppend ==
  ASSUME NEW e \in Seq(Pairs), NEW y \in Pairs
  PROVE  /\ Ends(e) = {} /\ y[1] # "end" => Batched(Append(e, y)) = Append(e, y)
         /\ Ends(e) = {} => Batched(e) = e
         /\ Ends(e) = {} /\ y[1] = "end" => Batched(Append(e, y)) = e
         /\ Ends(e) # {} => Batched(Append(e, y)) = Batched(e)
         /\ Ends(Append(e, y)) = {} <=> Ends(e) = {} /\ y[1] # "end"
         /\ Batched(e) \in Seq(Pairs)
<1> DEFINE f == Append(e, y)
           n == Len(e)
<1>1. /\ n \in Nat /\ f \in Seq(Pairs) /\ Len(f) = n + 1 /\ f[n + 1] = y
      /\ \A i \in 1..n : f[i] = e[i]
      /\ DOMAIN e = 1..n /\ DOMAIN f = 1..(n + 1)
  BY AppendProperties
<1>2. Batched(e) = IF Ends(e) = {} THEN e
                   ELSE SubSeq(e, 1, (CHOOSE k \in Ends(e) : \A l \in Ends(e) : k <= l) - 1)
  BY DEF Batched, Ends
<1>3. Batched(f) = IF Ends(f) = {} THEN f
                   ELSE SubSeq(f, 1, (CHOOSE k \in Ends(f) : \A l \in Ends(f) : k <= l) - 1)
  BY DEF Batched, Ends
<1> HIDE DEF f, n
<1>4. /\ Ends(e) \in SUBSET (1..n)
      /\ Ends(f) = Ends(e) \cup (IF y[1] = "end" THEN {n + 1} ELSE {})
  <2>1. \A k \in 1..(n + 1) : k \in 1..n \/ k = n + 1
    BY <1>1
  <2>2. \A k \in 1..n : k \in 1..(n + 1) /\ k # n + 1
    BY <1>1
  <2>3. n + 1 \in 1..(n + 1)
    BY <1>1
  <2> QED BY <1>1, <2>1, <2>2, <2>3 DEF Ends
<1>5. CASE Ends(e) = {} /\ y[1] # "end"
  BY <1>2, <1>3, <1>4, <1>5 DEF f
<1>6. CASE Ends(e) = {} /\ y[1] = "end"
  <2>1. Ends(f) = {n + 1}
    BY <1>4, <1>6
  <2>2. (CHOOSE k \in Ends(f) : \A l \in Ends(f) : k <= l) = n + 1
    BY <2>1, <1>1
  <2>3. Batched(f) = SubSeq(f, 1, n)
    BY <1>1, <1>3, <2>1, <2>2
  <2>4. SubSeq(f, 1, n) = e
    <3>1. SubSeq(f, 1, n) \in Seq(Pairs) /\ Len(SubSeq(f, 1, n)) = n
          /\ \A i \in 1..n : SubSeq(f, 1, n)[i] = f[i]
      BY <1>1
    <3> QED BY <3>1, <1>1, SeqEqual DEF n
  <2>5. Batched(e) = e /\ Ends(f) # {} /\ Batched(f) = e /\ e \in Seq(Pairs)
    BY <1>2, <1>6, <2>1, <2>3, <2>4
  <2> QED BY <1>6, <2>5, Zenon DEF f
<1>7. CASE Ends(e) # {}
  <2>1. PICK x \in Ends(e) : \A l \in Ends(e) : x <= l
    <3>1. Ends(e) \in SUBSET Nat
      BY <1>4
    <3> QED BY <3>1, <1>7, LeastElement
  <2>2. x \in 1..n
    BY <1>4
  <2>3. (CHOOSE k \in Ends(e) : \A l \in Ends(e) : k <= l) = x
    <3>1. \A k \in Ends(e) : (\A l \in Ends(e) : k <= l) => k = x
      <4> SUFFICES ASSUME NEW k \in Ends(e), \A l \in Ends(e) : k <= l PROVE k = x
        OBVIOUS
      <4>1. k <= x /\ x <= k /\ k \in Int /\ x \in Int
        BY <2>1, <1>4
      <4> QED BY <4>1
    <3> QED BY <2>1, <3>1
  <2>4. x \in Ends(f) /\ \A l \in Ends(f) : x <= l
    BY <2>1, <2>2, <1>1, <1>4
  <2>5. (CHOOSE k \in Ends(f) : \A l \in Ends(f) : k <= l) = x
    <3>1. \A k \in Ends(f) : (\A l \in Ends(f) : k <= l) => k = x
      <4> SUFFICES ASSUME NEW k \in Ends(f), \A l \in Ends(f) : k <= l PROVE k = x
        OBVIOUS
      <4>1. k \in Int
        BY <1>1, <1>4
      <4>2. k <= x /\ x <= k /\ x \in Int
        BY <2>2, <2>4
      <4> QED BY <4>1, <4>2
    <3> QED BY <2>4, <3>1
  <2>6. Batched(e) = SubSeq(e, 1, x - 1) /\ Batched(f) = SubSeq(f, 1, x - 1)
    BY <1>2, <1>3, <1>7, <2>3, <2>4, <2>5
  <2>7. /\ SubSeq(e, 1, x - 1) \in Seq(Pairs) /\ Len(SubSeq(e, 1, x - 1)) = x - 1
        /\ \A i \in 1..(x - 1) : SubSeq(e, 1, x - 1)[i] = e[i]
        /\ SubSeq(f, 1, x - 1) \in Seq(Pairs) /\ Len(SubSeq(f, 1, x - 1)) = x - 1
        /\ \A i \in 1..(x - 1) : SubSeq(f, 1, x - 1)[i] = f[i]
        /\ \A i \in 1..(x - 1) : i \in 1..n
    BY <1>1, <2>2 DEF n
  <2>8. SubSeq(e, 1, x - 1) = SubSeq(f, 1, x - 1)
    BY <1>1, <2>7, SeqEqual
  <2> QED BY <1>4, <1>7, <2>4, <2>6, <2>7, <2>8 DEF f
<1> QED BY <1>5, <1>6, <1>7

-----------------------------------------------------------------------------
(* One column, one row.                                                    *)

\* What the loop may give a row: a sampled token when nothing is forced, the
\* first forced one otherwise.
Given(s, token, mask) ==
  /\ mask = 1 => s.forced = << >> /\ token \in Delimiters \cup {"text"}
  /\ mask = 0 => s.forced # << >> /\ token = Head(s.forced)

(***************************************************************************)
(* What is left to force, and that a forced token opens, ends and closes   *)
(* nothing but a trace.                                                    *)
(***************************************************************************)
LEMMA LeftFacts ==
  ASSUME NEW s \in RowState, NEW token \in Tokens, NEW mask \in {0, 1}, Given(s, token, mask)
  PROVE  /\ Left(s) \in Seq(Forceable)
         /\ mask = 1 => Left(s) = << >> /\ s.forced = << >>
         /\ mask = 0 => /\ token \in Forceable
                        /\ 1 \in DOMAIN s.forced /\ token = s.forced[1]
         /\ \A k \in DOMAIN Left(s) : k + 1 \in DOMAIN s.forced /\ Left(s)[k] = s.forced[k + 1]
<1> DEFINE f == s.forced
<1>1. f \in Seq(Forceable)
  BY DEF RowState
<1> HIDE DEF f
<1>2. CASE f = << >>
  BY <1>2 DEF Left, Given, f
<1>3. CASE f # << >>
  <2>1. /\ Left(s) = Tail(f) /\ mask = 0 /\ token = Head(f)
    BY <1>3 DEF Left, Given, f
  <2>2. /\ Tail(f) \in Seq(Forceable) /\ Head(f) = f[1] /\ Head(f) \in Forceable
        /\ Len(f) \in Nat \ {0} /\ Len(Tail(f)) = Len(f) - 1
        /\ \A k \in 1..(Len(f) - 1) : Tail(f)[k] = f[k + 1]
    BY <1>1, <1>3, HeadTailProperties, EmptySeq
  <2>3. /\ 1 \in 1..Len(f) /\ \A k \in 1..(Len(f) - 1) : k + 1 \in 1..Len(f)
    BY <2>2
  <2>4. DOMAIN f = 1..Len(f) /\ DOMAIN Tail(f) = 1..(Len(f) - 1)
    BY <1>1, <2>2
  <2> QED BY <2>1, <2>2, <2>3, <2>4 DEF f
<1> QED BY <1>2, <1>3

(***************************************************************************)
(* The engine's row stays a row, and in a call only the end of a trace is  *)
(* forced.                                                                 *)
(***************************************************************************)
LEMMA OutcomeKeepsCall ==
  ASSUME NEW s \in RowState, NEW token \in Tokens, NEW mask \in {0, 1}, Given(s, token, mask),
         NEW answer \in Seq(Forceable), CallOK(s)
  PROVE  Outcome(s, token, answer) \in RowState /\ CallOK(Outcome(s, token, answer))
<1> DEFINE S == Outcome(s, token, answer)
           called == IF Closing(s, token) THEN Left(s) \o answer ELSE Left(s)
<1>1. /\ Left(s) \in Seq(Forceable)
      /\ mask = 1 => Left(s) = << >>
      /\ mask = 0 => token \in Forceable
      /\ \A k \in DOMAIN Left(s) : k + 1 \in DOMAIN s.forced /\ Left(s)[k] = s.forced[k + 1]
  BY LeftFacts
<1>2. called \in Seq(Forceable)
  BY <1>1
<1>3. S.forced = IF Spent(s, token) THEN Append(called, "thinkEnd") ELSE called
  BY DEF Outcome, Forcing
<1>4. S.inToolCall = (token = "toolStart" \/ (s.inToolCall /\ token # "toolEnd"))
  BY DEF Outcome
<1> HIDE DEF called
<1>5. S.forced \in Seq(Forceable)
  <2>1. "thinkEnd" \in Forceable
    BY DEF Forceable
  <2> QED BY <1>2, <1>3, <2>1
<1>6. S \in RowState
  <2>1. /\ s.inToolCall \in BOOLEAN /\ s.toolCallTokens \in Seq(Tokens) /\ s.inThinking \in BOOLEAN
        /\ s.thinkingTokens \in Nat /\ s.completed \in BOOLEAN
        /\ Append(s.toolCallTokens, token) \in Seq(Tokens) /\ NoCall \in Seq(Tokens)
    BY DEF RowState, NoCall
  <2>2. /\ S.forced \in Seq(Forceable) /\ S.inToolCall \in BOOLEAN
        /\ S.toolCallTokens \in Seq(Tokens) /\ S.inThinking \in BOOLEAN
        /\ S.thinkingTokens \in Nat /\ S.completed \in BOOLEAN
    <3>1. S.inToolCall \in BOOLEAN
      BY <1>4
    <3>2. S.toolCallTokens \in Seq(Tokens)
      <4>1. S.toolCallTokens = IF token = "toolStart" \/ Closing(s, token) THEN NoCall
                               ELSE IF s.inToolCall THEN Append(s.toolCallTokens, token)
                               ELSE s.toolCallTokens
        BY DEF Outcome
      <4> HIDE DEF S
      <4> QED BY <4>1, <2>1
    <3>3. S.inThinking \in BOOLEAN
      <4>1. S.inThinking = IF Thinking
                             THEN token = "thinkStart" \/ (s.inThinking /\ token # "thinkEnd")
                             ELSE s.inThinking
        BY DEF Outcome
      <4> HIDE DEF S
      <4> QED BY <4>1, <2>1
    <3>4. S.thinkingTokens \in Nat
      <4>1. S.thinkingTokens = IF Thinking /\ token = "thinkStart" THEN 0
                               ELSE IF Counts(s, token) THEN s.thinkingTokens + 1
                               ELSE s.thinkingTokens
        BY DEF Outcome
      <4> HIDE DEF S
      <4> QED BY <4>1, <2>1
    <3>5. S.completed \in BOOLEAN
      <4>1. S.completed = (s.completed \/ token = "end")
        BY DEF Outcome
      <4> HIDE DEF S
      <4> QED BY <4>1
    <3> HIDE DEF S
    <3> QED BY <1>5, <3>1, <3>2, <3>3, <3>4, <3>5
  <2>3. S = [forced |-> S.forced, inToolCall |-> S.inToolCall,
             toolCallTokens |-> S.toolCallTokens, inThinking |-> S.inThinking,
             thinkingTokens |-> S.thinkingTokens, completed |-> S.completed]
    BY DEF Outcome
  <2> HIDE DEF S
  <2> QED BY <2>2, <2>3 DEF RowState
<1>7. ASSUME S.inToolCall PROVE \A k \in DOMAIN S.forced : S.forced[k] = "thinkEnd"
  <2>1. ~Closing(s, token)
    BY <1>4, <1>7 DEF Closing
  <2>2. called = Left(s)
    BY <2>1 DEF called
  <2>3. \A k \in DOMAIN Left(s) : Left(s)[k] = "thinkEnd"
    <3>1. CASE token = "toolStart"
      <4>1. mask = 1
        BY <3>1, <1>1 DEF Forceable
      <4> QED BY <4>1, <1>1
    <3>2. CASE s.inToolCall
      BY <3>2, <1>1 DEF CallOK
    <3> QED BY <3>1, <3>2, <1>4, <1>7
  <2>4. \A k \in DOMAIN Append(Left(s), "thinkEnd") : Append(Left(s), "thinkEnd")[k] = "thinkEnd"
    <3> DEFINE l == Left(s)
               g == Append(l, "thinkEnd")
    <3>1. /\ Len(l) \in Nat /\ DOMAIN l = 1..Len(l)
          /\ Len(g) = Len(l) + 1 /\ DOMAIN g = 1..(Len(l) + 1)
          /\ \A i \in 1..Len(l) : g[i] = l[i]
          /\ g[Len(l) + 1] = "thinkEnd"
      <4>1. l \in Seq(Forceable) /\ "thinkEnd" \in Forceable
        BY <1>1 DEF Forceable
      <4> HIDE DEF l
      <4> QED BY <4>1, AppendProperties
    <3>2. \A i \in 1..(Len(l) + 1) : i \in 1..Len(l) \/ i = Len(l) + 1
      BY <3>1
    <3> HIDE DEF g
    <3> QED BY <3>1, <3>2, <2>3 DEF g
  <2> QED BY <1>3, <2>2, <2>3, <2>4
<1> QED BY <1>6, <1>7 DEF CallOK

(***************************************************************************)
(* The parser still agrees with the engine.                                *)
(***************************************************************************)
LEMMA AgreeStep ==
  ASSUME NEW s \in RowState, NEW p \in RowParse, NEW token \in Tokens, NEW mask \in {0, 1},
         Given(s, token, mask), NEW answer \in Seq(Forceable), CallOK(s), Agree(s, p)
  PROVE  Agree(Outcome(s, token, answer), Parsed(p, token, mask))
<1> DEFINE S == Outcome(s, token, answer)
           P == Parsed(p, token, mask)
<1>1. /\ mask = 1 => token \in Delimiters \cup {"text"}
      /\ mask = 0 => token \in Forceable /\ 1 \in DOMAIN s.forced /\ token = s.forced[1]
  BY LeftFacts DEF Given
<1>2. SameRow(P, Heard(p, token, mask))
  BY <1>1, ParsedIs
<1>3. /\ p.finished = s.completed
      /\ ~p.finished => /\ p.inToolCall = s.inToolCall
                        /\ Thinking => p.inThinking = s.inThinking
                        /\ p.callArgs = WithoutThinking(s.toolCallTokens)
      /\ s.inToolCall \in BOOLEAN /\ s.inThinking \in BOOLEAN /\ s.completed \in BOOLEAN
      /\ p.finished \in BOOLEAN /\ s.toolCallTokens \in Seq(Tokens)
  BY DEF Agree, RowState, RowParse
<1>4. P.finished = S.completed
  <2>1. P.finished = (p.finished \/ Hears(p, token, mask, "end"))
    BY <1>2 DEF SameRow, Heard
  <2>2. S.completed = (s.completed \/ token = "end")
    BY DEF Outcome
  <2>3. token = "end" => mask = 1
    BY <1>1 DEF Forceable
  <2> QED BY <2>1, <2>2, <2>3, <1>3 DEF Hears
<1>5. ASSUME ~P.finished
      PROVE  /\ P.inToolCall = S.inToolCall
             /\ Thinking => P.inThinking = S.inThinking
             /\ P.callArgs = WithoutThinking(S.toolCallTokens)
  <2>1. ~p.finished /\ ~s.completed /\ token # "end"
    <3>1. ~p.finished /\ ~Hears(p, token, mask, "end")
      BY <1>2, <1>5 DEF SameRow, Heard
    <3>2. token = "end" => mask = 1
      BY <1>1 DEF Forceable
    <3> QED BY <3>1, <3>2, <1>3 DEF Hears
  <2>2. P.inToolCall = S.inToolCall
    <3>1. P.inToolCall = (Hears(p, token, mask, "toolStart")
                            \/ (p.inToolCall /\ ~Hears(p, token, mask, "toolEnd")))
      BY <1>2 DEF SameRow, Heard
    <3>2. S.inToolCall = (token = "toolStart" \/ (s.inToolCall /\ token # "toolEnd"))
      BY DEF Outcome
    <3>3. token \in {"toolStart", "toolEnd"} => mask = 1
      BY <1>1 DEF Forceable
    <3> QED BY <3>1, <3>2, <3>3, <2>1, <1>3 DEF Hears
  <2>3. Thinking => P.inThinking = S.inThinking
    <3>1. P.inThinking = (Turns(p, token, "thinkStart")
                            \/ (p.inThinking /\ ~Turns(p, token, "thinkEnd")))
      BY <1>2 DEF SameRow, Heard
    <3>2. Thinking => S.inThinking =
            (token = "thinkStart" \/ (s.inThinking /\ token # "thinkEnd"))
      BY DEF Outcome
    <3> QED BY <3>1, <3>2, <2>1, <1>3 DEF Turns
  <2>4. P.callArgs = WithoutThinking(S.toolCallTokens)
    <3>1. P.callArgs = IF \/ Hears(p, token, mask, "toolStart")
                          \/ Hears(p, token, mask, "toolEnd") /\ p.inToolCall THEN NoCall
                       ELSE IF Hears(p, token, mask, "text") /\ p.inToolCall
                         THEN Append(p.callArgs, token)
                       ELSE p.callArgs
      BY <1>2 DEF SameRow, Heard
    <3>2. S.toolCallTokens = IF token = "toolStart" \/ Closing(s, token) THEN NoCall
                             ELSE IF s.inToolCall THEN Append(s.toolCallTokens, token)
                             ELSE s.toolCallTokens
      BY DEF Outcome
    <3>3. token \in {"toolStart", "toolEnd"} => mask = 1
      BY <1>1 DEF Forceable
    <3>4. CASE token = "toolStart" \/ Closing(s, token)
      <4>1. P.callArgs = NoCall /\ S.toolCallTokens = NoCall
        BY <3>1, <3>2, <3>3, <3>4, <2>1, <1>3 DEF Hears, Closing
      <4>2. WithoutThinking(NoCall) = NoCall
        BY OnlyEmpty DEF WithoutThinking, NoCall
      <4> QED BY <4>1, <4>2
    <3>5. CASE token # "toolStart" /\ ~s.inToolCall
      <4>1. P.callArgs = p.callArgs /\ S.toolCallTokens = s.toolCallTokens
        BY <3>1, <3>2, <3>5, <2>1, <1>3 DEF Hears, Closing
      <4> QED BY <4>1, <2>1, <1>3
    <3>6. CASE token \notin {"toolStart", "toolEnd"} /\ s.inToolCall
      <4>1. S.toolCallTokens = Append(s.toolCallTokens, token)
        BY <3>2, <3>6 DEF Closing
      <4>2. WithoutThinking(S.toolCallTokens) =
              IF token \in Tokens \ {"thinkStart", "thinkEnd"}
                THEN Append(WithoutThinking(s.toolCallTokens), token)
                ELSE WithoutThinking(s.toolCallTokens)
        <5> DEFINE K == Tokens \ {"thinkStart", "thinkEnd"}
                   c == s.toolCallTokens
        <5>1. \A L : Only(Append(c, token), L)
                       = IF token \in L THEN Append(Only(c, L), token) ELSE Only(c, L)
          <6>1. c \in Seq(Tokens) /\ token \in Tokens
            BY <1>3
          <6> HIDE DEF c
          <6> QED BY <6>1, OnlyAppend
        <5>2. Only(Append(c, token), K)
                = IF token \in K THEN Append(Only(c, K), token) ELSE Only(c, K)
          <6> HIDE DEF K
          <6> QED BY <5>1
        <5> QED BY <4>1, <5>2, Zenon DEF WithoutThinking
      <4>3. CASE token = "text"
        <5>1. mask = 1
          BY <4>3, <1>1 DEF Forceable
        <5>2. P.callArgs = Append(p.callArgs, token)
          BY <3>1, <3>6, <4>3, <5>1, <2>1, <1>3 DEF Hears
        <5> QED BY <5>2, <4>2, <4>3, <2>1, <1>3
      <4>4. CASE token \in {"thinkStart", "thinkEnd"}
        <5>1. P.callArgs = p.callArgs
          BY <3>1, <4>4 DEF Hears
        <5> QED BY <5>1, <4>2, <4>4, <2>1, <1>3
      <4>5. token = "text" \/ token \in {"thinkStart", "thinkEnd"}
        <5>1. mask = 0 => token = "thinkEnd"
          BY <3>6, <1>1 DEF CallOK
        <5> QED BY <5>1, <3>6, <2>1, <1>1 DEF Delimiters
      <4> QED BY <4>3, <4>4, <4>5
    <3> QED BY <3>4, <3>5, <3>6 DEF Closing
  <2> QED BY <2>2, <2>3, <2>4
<1> QED BY <1>4, <1>5 DEF Agree

(***************************************************************************)
(* The budget still closes the trace in time.                              *)
(***************************************************************************)
LEMMA BoundedStep ==
  ASSUME NEW s \in RowState, NEW p \in RowParse, NEW token \in Tokens, NEW mask \in {0, 1},
         Given(s, token, mask), NEW answer \in Seq(Forceable), Agree(s, p), Bounded(s, p)
  PROVE  Bounded(Outcome(s, token, answer), Parsed(p, token, mask))
<1> DEFINE S == Outcome(s, token, answer)
           P == Parsed(p, token, mask)
           called == IF Closing(s, token) THEN Left(s) \o answer ELSE Left(s)
           told == Hears(p, token, mask, "text") /\ ~p.inToolCall /\ p.inThinking
<1> SUFFICES ASSUME Budget > 0
             PROVE  /\ Len(P.reasoning) <= Budget
                    /\ S.inThinking /\ S.thinkingTokens >= Budget =>
                         \E k \in DOMAIN S.forced : S.forced[k] = "thinkEnd"
                    /\ ~P.finished /\ S.inThinking => Len(P.reasoning) <= S.thinkingTokens
  BY DEF Bounded
<1>1. Thinking /\ Budget \in Nat
  BY GenerationConstants
<1>2. /\ Left(s) \in Seq(Forceable)
      /\ mask = 1 => s.forced = << >> /\ token \in Delimiters \cup {"text"}
      /\ s.inThinking \in BOOLEAN /\ s.thinkingTokens \in Nat /\ p.finished \in BOOLEAN
      /\ p.reasoning \in Seq(Tokens)
  BY LeftFacts DEF Given, RowState, RowParse
<1>3. /\ P.finished = (p.finished \/ Hears(p, token, mask, "end"))
      /\ P.reasoning = IF Turns(p, token, "thinkStart") THEN << >>
                       ELSE IF told THEN Append(p.reasoning, token) ELSE p.reasoning
  <2>1. SameRow(P, Heard(p, token, mask))
    BY <1>2, ParsedIs
  <2> QED BY <2>1 DEF SameRow, Heard
<1>4. /\ S.forced = IF Spent(s, token) THEN Append(called, "thinkEnd") ELSE called
      /\ S.inThinking = (token = "thinkStart" \/ (s.inThinking /\ token # "thinkEnd"))
      /\ S.thinkingTokens = IF token = "thinkStart" THEN 0
                            ELSE IF Counts(s, token) THEN s.thinkingTokens + 1
                            ELSE s.thinkingTokens
  <2>1. S.thinkingTokens = IF Thinking /\ token = "thinkStart" THEN 0
                           ELSE IF Counts(s, token) THEN s.thinkingTokens + 1
                           ELSE s.thinkingTokens
    BY DEF Outcome
  <2>2. S.inThinking = IF Thinking
                         THEN token = "thinkStart" \/ (s.inThinking /\ token # "thinkEnd")
                         ELSE s.inThinking
    BY DEF Outcome
  <2>3. S.forced = IF Spent(s, token) THEN Append(called, "thinkEnd") ELSE called
    BY DEF Outcome, Forcing
  <2> HIDE DEF S, called
  <2> QED BY <1>1, <2>1, <2>2, <2>3
<1>5. /\ Len(p.reasoning) \in Nat /\ Len(p.reasoning) <= Budget
      /\ Len(P.reasoning) = IF Turns(p, token, "thinkStart") THEN 0
                            ELSE IF told THEN Len(p.reasoning) + 1 ELSE Len(p.reasoning)
  <2>1. Len(p.reasoning) \in Nat /\ Len(Append(p.reasoning, token)) = Len(p.reasoning) + 1
        /\ Len(<< >>) = 0
    BY <1>2
  <2> HIDE DEF P, told
  <2> QED BY <1>3, <2>1 DEF Bounded
<1>6. told => Len(p.reasoning) < Budget
  <2> SUFFICES ASSUME told PROVE Len(p.reasoning) < Budget
    OBVIOUS
  <2>1. s.inThinking /\ Len(p.reasoning) <= s.thinkingTokens /\ s.forced = << >>
    BY <1>1, <1>2 DEF Hears, Agree, Bounded
  <2>2. ~\E k \in DOMAIN s.forced : s.forced[k] = "thinkEnd"
    BY <2>1
  <2>3. ~(s.thinkingTokens >= Budget)
    BY <2>1, <2>2 DEF Bounded
  <2> QED BY <1>1, <1>2, <1>5, <2>1, <2>3
<1>7. Len(P.reasoning) <= Budget
  <2> HIDE DEF P, told
  <2> QED BY <1>1, <1>5, <1>6
<1>8. ASSUME S.inThinking, token # "thinkStart"
      PROVE  s.inThinking /\ Counts(s, token) /\ S.thinkingTokens = s.thinkingTokens + 1
  <2>1. s.inThinking /\ token # "thinkEnd"
    BY <1>4, <1>8
  <2>2. Counts(s, token)
    BY <1>1, <1>8, <2>1 DEF Counts
  <2> HIDE DEF S
  <2> QED BY <1>4, <1>8, <2>1, <2>2
<1>9. ASSUME S.inThinking, S.thinkingTokens >= Budget
      PROVE  \E k \in DOMAIN S.forced : S.forced[k] = "thinkEnd"
  <2>1. token # "thinkStart"
    <3> HIDE DEF S
    <3> QED BY <1>1, <1>4, <1>9
  <2>2. Spent(s, token)
    <3>1. Counts(s, token) /\ S.thinkingTokens = s.thinkingTokens + 1
      BY <1>8, <1>9, <2>1
    <3> HIDE DEF S
    <3> QED BY <1>9, <3>1 DEF Spent
  <2>3. called \in Seq(Forceable) /\ "thinkEnd" \in Forceable
    BY <1>2 DEF Forceable
  <2>4. S.forced = Append(called, "thinkEnd")
    BY <1>4, <2>2
  <2> DEFINE n == Len(called) + 1
             f == Append(called, "thinkEnd")
  <2>5. n \in DOMAIN f /\ f[n] = "thinkEnd"
    <3> HIDE DEF called
    <3>1. Len(called) \in Nat /\ DOMAIN f = 1..n /\ f[n] = "thinkEnd"
      BY <2>3, AppendProperties
    <3> QED BY <3>1
  <2> HIDE DEF S, called, n, f
  <2> QED BY <2>4, <2>5 DEF f
<1>10. ASSUME ~P.finished, S.inThinking PROVE Len(P.reasoning) <= S.thinkingTokens
  <2>1. ~p.finished
    BY <1>3, <1>10
  <2>2. CASE token = "thinkStart"
    <3>1. Turns(p, token, "thinkStart")
      BY <2>1, <2>2 DEF Turns
    <3> HIDE DEF S, P, told
    <3> QED BY <1>4, <1>5, <2>2, <3>1
  <2>3. CASE token # "thinkStart"
    <3>1. s.inThinking /\ S.thinkingTokens = s.thinkingTokens + 1
      BY <1>8, <1>10, <2>3
    <3>2. Len(p.reasoning) <= s.thinkingTokens
      BY <2>1, <3>1 DEF Bounded
    <3>3. ~Turns(p, token, "thinkStart")
      BY <2>3 DEF Turns
    <3> HIDE DEF S, P, told
    <3> QED BY <1>2, <1>5, <3>1, <3>2, <3>3
  <2> QED BY <2>2, <2>3
<1> QED BY <1>7, <1>9, <1>10

\* What is sampled after an opening grows by the tokens of an open trace.
Grows(e, token, mask, o) ==
  LET f == Append(e, <<token, mask>>)
      open == OpenSince(e, o) /\ token \notin TraceMarks
  IN  /\ OpenSince(f, o) <=> open
      /\ open /\ mask = 1 => SampledAfter(f, o) = SampledAfter(e, o) \cup {Len(e) + 1}
      /\ ~(open /\ mask = 1) => SampledAfter(f, o) = SampledAfter(e, o)

(***************************************************************************)
(* A row's next token, seen from any opening before it.                    *)
(***************************************************************************)
LEMMA SampledAppend ==
  ASSUME NEW e \in Seq(Pairs), NEW token \in Tokens, NEW mask \in {0, 1}, NEW o \in 0..Len(e)
  PROVE  Grows(e, token, mask, o)
<1> DEFINE y == <<token, mask>>
           f == Append(e, y)
           n == Len(e) + 1
           marked == token \in TraceMarks
<1>1. y \in Pairs /\ y[1] = token /\ y[2] = mask
  BY DEF Pairs
<1>2. /\ Len(e) \in Nat /\ DOMAIN e = 1..Len(e) /\ n \in Nat /\ DOMAIN f = 1..n
      /\ \A k \in 1..Len(e) : f[k] = e[k]
      /\ f[n] = y
  <2> HIDE DEF y
  <2> QED BY <1>1, AppendProperties
<1> HIDE DEF y, f, n
<1>3. /\ n = Len(e) + 1 /\ n > o
      /\ \A k : k \in 1..n <=> k \in 1..Len(e) \/ k = n
  BY <1>2 DEF n
<1>4. OpenSince(f, o) <=> OpenSince(e, o) /\ ~marked
  BY <1>1, <1>2, <1>3 DEF OpenSince
<1>5. ASSUME NEW k \in 1..Len(e)
      PROVE  k \in SampledAfter(f, o) <=> k \in SampledAfter(e, o)
  <2>1. \A d \in (o + 1)..k : d \in 1..Len(e)
    BY <1>2
  <2>2. k \in DOMAIN f /\ k \in DOMAIN e /\ f[k] = e[k]
    BY <1>2, <1>3
  <2> QED BY <2>1, <2>2, <1>2 DEF SampledAfter
<1>6. n \in SampledAfter(f, o) <=> OpenSince(e, o) /\ ~marked /\ mask = 1
  <2>1. (\A d \in (o + 1)..n : f[d][1] \notin TraceMarks) <=> OpenSince(f, o)
    <3>1. \A d : d \in (o + 1)..n <=> d \in 1..n /\ d > o
      BY <1>2
    <3> QED BY <1>2, <3>1 DEF OpenSince
  <2> QED BY <2>1, <1>1, <1>2, <1>3, <1>4 DEF SampledAfter
<1>7. /\ \A k \in SampledAfter(f, o) : k \in 1..n
      /\ \A k \in SampledAfter(e, o) : k \in 1..Len(e)
  BY <1>2 DEF SampledAfter
<1>8. n \notin 1..Len(e)
  BY <1>2 DEF n
<1> HIDE DEF marked
<1>9. ASSUME OpenSince(e, o) /\ ~marked /\ mask = 1
      PROVE  SampledAfter(f, o) = SampledAfter(e, o) \cup {n}
  <2>1. \A k : k \in SampledAfter(f, o) <=> k \in SampledAfter(e, o) \/ k = n
    BY <1>3, <1>5, <1>6, <1>7, <1>9, Zenon
  <2> QED BY <2>1
<1>10. ASSUME ~(OpenSince(e, o) /\ ~marked /\ mask = 1)
       PROVE  SampledAfter(f, o) = SampledAfter(e, o)
  <2>1. \A k : k \in SampledAfter(f, o) <=> k \in SampledAfter(e, o)
    BY <1>3, <1>5, <1>6, <1>7, <1>10, Zenon
  <2> QED BY <2>1
<1> QED BY <1>4, <1>9, <1>10, Zenon DEF Grows, f, y, n, marked

(***************************************************************************)
(* Every opening still keeps to the budget: the token that would exceed it *)
(* is not sampled, since the end of the trace is forced by then.           *)
(***************************************************************************)
LEMMA WithinBudgetStep ==
  ASSUME NEW s \in RowState, NEW p, NEW e \in Seq(Pairs), NEW token \in Tokens,
         NEW mask \in {0, 1}, Given(s, token, mask), NEW answer \in Seq(Forceable),
         Bounded(s, p), WithinBudget(s, e)
  PROVE  WithinBudget(Outcome(s, token, answer), Append(e, <<token, mask>>))
<1> DEFINE S == Outcome(s, token, answer)
           f == Append(e, <<token, mask>>)
           n == Len(e) + 1
           marked == token \in TraceMarks
<1> SUFFICES ASSUME Budget > 0, NEW o \in Openings(f)
             PROVE  /\ IsFiniteSet(SampledAfter(f, o)) /\ Cardinality(SampledAfter(f, o)) <= Budget
                    /\ OpenSince(f, o) => S.inThinking /\ Cardinality(SampledAfter(f, o)) <= S.thinkingTokens
  BY DEF WithinBudget
<1>1. Thinking /\ Budget \in Nat
  BY GenerationConstants
<1>2. /\ mask = 1 => s.forced = << >>
      /\ s.inThinking \in BOOLEAN /\ s.thinkingTokens \in Nat
  BY DEF Given, RowState
<1>3. /\ S.inThinking = (token = "thinkStart" \/ (s.inThinking /\ token # "thinkEnd"))
      /\ S.thinkingTokens = IF token = "thinkStart" THEN 0
                            ELSE IF Counts(s, token) THEN s.thinkingTokens + 1
                            ELSE s.thinkingTokens
  <2>1. S.thinkingTokens = IF Thinking /\ token = "thinkStart" THEN 0
                           ELSE IF Counts(s, token) THEN s.thinkingTokens + 1
                           ELSE s.thinkingTokens
    BY DEF Outcome
  <2>2. S.inThinking = IF Thinking
                         THEN token = "thinkStart" \/ (s.inThinking /\ token # "thinkEnd")
                         ELSE s.inThinking
    BY DEF Outcome
  <2> HIDE DEF S
  <2> QED BY <1>1, <2>1, <2>2
<1>4. /\ Len(e) \in Nat /\ DOMAIN e = 1..Len(e) /\ DOMAIN f = 1..n /\ n \in Nat
      /\ \A k \in 1..Len(e) : f[k] = e[k]
      /\ f[n] = <<token, mask>>
  <2> DEFINE y == <<token, mask>>
  <2>1. y \in Pairs
    BY DEF Pairs
  <2> HIDE DEF y
  <2>2. /\ Len(e) \in Nat /\ DOMAIN e = 1..Len(e) /\ DOMAIN Append(e, y) = 1..n /\ n \in Nat
        /\ \A k \in 1..Len(e) : Append(e, y)[k] = e[k]
        /\ Append(e, y)[n] = y
    BY <2>1, AppendProperties
  <2> QED BY <2>2 DEF y
<1>5. CASE o = n
  <2>1. token = "thinkStart"
    <3>1. n # 0
      BY <1>4
    <3>2. f[n][1] = "thinkStart"
      BY <1>5, <3>1 DEF Openings
    <3> HIDE DEF f
    <3> QED BY <1>4, <3>2
  <2>2. SampledAfter(f, o) = {}
    <3>1. \A k \in 1..n : ~(k > n)
      BY <1>4
    <3> HIDE DEF f, n
    <3> QED BY <1>4, <1>5, <3>1 DEF SampledAfter
  <2>3. S.inThinking /\ S.thinkingTokens = 0
    <3> HIDE DEF S
    <3> QED BY <1>3, <2>1
  <2>4. IsFiniteSet({}) /\ Cardinality({}) = 0
    BY FS_EmptySet
  <2> HIDE DEF S, f
  <2> QED BY <1>1, <2>2, <2>3, <2>4
<1>6. CASE o # n
  <2>1. o \in Openings(e) /\ o \in 0..Len(e)
    <3>1. CASE o \in DOMAIN f /\ f[o][1] = "thinkStart"
      <4>1. o \in 1..Len(e)
        BY <1>4, <1>6, <3>1
      <4>2. e[o][1] = "thinkStart"
        BY <1>4, <3>1, <4>1
      <4> QED BY <1>4, <4>1, <4>2 DEF Openings
    <3>2. CASE o = 0 /\ Primed
      BY <1>4, <3>2 DEF Openings
    <3>3. (o \in DOMAIN f /\ f[o][1] = "thinkStart") \/ (o = 0 /\ Primed)
      <4> HIDE DEF f
      <4> QED BY DEF Openings
    <3> QED BY <3>1, <3>2, <3>3
  <2> DEFINE had == SampledAfter(e, o)
  <2>2. /\ IsFiniteSet(had) /\ Cardinality(had) <= Budget
        /\ OpenSince(e, o) => s.inThinking /\ Cardinality(had) <= s.thinkingTokens
    BY <2>1 DEF WithinBudget
  <2>3. /\ OpenSince(f, o) <=> OpenSince(e, o) /\ ~marked
        /\ OpenSince(e, o) /\ ~marked /\ mask = 1 => SampledAfter(f, o) = had \cup {n}
        /\ ~(OpenSince(e, o) /\ ~marked /\ mask = 1) => SampledAfter(f, o) = had
    <3>1. Grows(e, token, mask, o)
      BY <2>1, SampledAppend
    <3> QED BY <3>1, Zenon DEF Grows
  <2>4. n \notin had /\ Cardinality(had) \in Nat
    <3>1. n \notin DOMAIN e
      BY <1>4
    <3> QED BY <2>2, <3>1, FS_CardinalityType DEF SampledAfter
  <2> HIDE DEF had, f, S
  <2>5. CASE ~(OpenSince(e, o) /\ ~marked)
    BY <2>2, <2>3, <2>5
  <2>6. CASE OpenSince(e, o) /\ ~marked
    <3>1. token # "thinkStart" /\ token # "thinkEnd"
      BY <2>6 DEF TraceMarks
    <3>2. Counts(s, token)
      BY <1>1, <2>2, <2>6, <3>1 DEF Counts
    <3>3. S.inThinking /\ S.thinkingTokens = s.thinkingTokens + 1
      BY <1>3, <2>2, <2>6, <3>1, <3>2
    <3>4. CASE mask = 0
      <4>1. SampledAfter(f, o) = had
        BY <2>3, <3>4
      <4> QED BY <4>1, <1>2, <2>2, <2>4, <2>6, <3>3
    <3>5. CASE mask = 1
      <4>1. SampledAfter(f, o) = had \cup {n}
        BY <2>3, <2>6, <3>5
      <4>2. IsFiniteSet(had \cup {n}) /\ Cardinality(had \cup {n}) = Cardinality(had) + 1
        <5> HIDE DEF n
        <5> QED BY <2>2, <2>4, FS_AddElement
      <4>3. ~(s.thinkingTokens >= Budget)
        <5>1. ~ \E k \in DOMAIN s.forced : s.forced[k] = "thinkEnd"
          BY <1>2, <3>5
        <5> QED BY <5>1, <2>2, <2>6 DEF Bounded
      <4>4. Cardinality(SampledAfter(f, o)) <= s.thinkingTokens + 1
        BY <4>1, <4>2, <1>2, <2>2, <2>4, <2>6
      <4>5. s.thinkingTokens + 1 <= Budget
        BY <4>3, <1>1, <1>2
      <4>6. Cardinality(SampledAfter(f, o)) \in Nat
        BY <4>1, <4>2, <2>4
      <4>7. Cardinality(SampledAfter(f, o)) <= Budget
        BY <4>4, <4>5, <4>6, <1>1, <1>2
      <4> QED BY <4>1, <4>2, <4>4, <4>7, <3>3
    <3> QED BY <3>4, <3>5
  <2> QED BY <2>5, <2>6
<1> QED BY <1>5, <1>6

(***************************************************************************)
(* The stream goes on showing what the parser keeps.                       *)
(***************************************************************************)
LEMMA StreamsStep ==
  ASSUME NEW p \in RowParse, NEW q \in RowStream, NEW token \in Tokens, NEW mask \in {0, 1},
         mask = 1 => token \in Delimiters \cup {"text"}, Streams(p, q)
  PROVE  Streams(Parsed(p, token, mask), Streamed(q, token, mask))
<1> DEFINE P == Parsed(p, token, mask)
           Q == Streamed(q, token, mask)
           X == {"text"}
<1>1. SameRow(P, Heard(p, token, mask)) /\ SameStream(Q, Written(q, token, mask))
  BY ParsedIs, StreamedIs
<1>2. /\ q.content = p.sampled /\ EndsIn(q.trace, p.reasoning) /\ q.finished = p.finished
      /\ ~p.finished => q.inToolCall = p.inToolCall /\ q.inThinking = p.inThinking
      /\ q.content \in Seq(X) /\ q.trace \in Seq(X)
      /\ p.callArgs \in Seq(X) /\ p.toolCalls \in Seq(Seq(X))
      /\ p.finished \in BOOLEAN /\ p.inToolCall \in BOOLEAN /\ p.inThinking \in BOOLEAN
  BY DEF Streams, RowParse
<1>3. \A what \in Tokens : /\ Hears(q, token, mask, what) = Hears(p, token, mask, what)
                           /\ Turns(q, token, what) = Turns(p, token, what)
  BY <1>2 DEF Hears, Turns
<1>T. "text" \in Tokens /\ "toolStart" \in Tokens /\ "toolEnd" \in Tokens /\ "end" \in Tokens
      /\ "thinkStart" \in Tokens /\ "thinkEnd" \in Tokens
  BY DEF Tokens, Delimiters
<1> DEFINE told == Hears(p, token, mask, "text")
<1>4. told => /\ ~p.finished /\ token = "text" /\ q.inToolCall = p.inToolCall
              /\ q.inThinking = p.inThinking
  BY <1>2 DEF Hears
<1>5. Q.content = P.sampled /\ Q.content \in Seq(X)
  <2>1. Q.content = IF Hears(q, token, mask, "text") /\ ~q.inToolCall /\ ~q.inThinking
                      THEN Append(q.content, token) ELSE q.content
    BY <1>1 DEF SameStream, Written
  <2>2. P.sampled = IF told /\ ~p.inToolCall /\ ~p.inThinking
                      THEN Append(p.sampled, token) ELSE p.sampled
    BY <1>1 DEF SameRow, Heard
  <2>3. Append(q.content, "text") \in Seq(X)
    BY <1>2
  <2> HIDE DEF P, Q, X, told
  <2>4. Hears(q, token, mask, "text") = told
    BY <1>3, <1>T DEF told
  <2> QED BY <1>2, <1>4, <2>1, <2>2, <2>3, <2>4
<1>6. EndsIn(Q.trace, P.reasoning) /\ Q.trace \in Seq(X)
  <2>1. Q.trace = IF Hears(q, token, mask, "text") /\ ~q.inToolCall /\ q.inThinking
                    THEN Append(q.trace, token) ELSE q.trace
    BY <1>1 DEF SameStream, Written
  <2>2. P.reasoning = IF Turns(p, token, "thinkStart") THEN << >>
                      ELSE IF told /\ ~p.inToolCall /\ p.inThinking
                        THEN Append(p.reasoning, token) ELSE p.reasoning
    BY <1>1 DEF SameRow, Heard
  <2>3. Append(q.trace, "text") \in Seq(X)
    BY <1>2
  <2>4. Hears(q, token, mask, "text") = told
    BY <1>3, <1>T
  <2>5. told => ~Turns(p, token, "thinkStart")
    BY DEF Hears, Turns
  <2>6. EndsIn(Append(q.trace, token), Append(p.reasoning, token))
    <3>1. q.trace \in Seq(Tokens) /\ p.reasoning \in Seq(Tokens)
      BY DEF RowStream, RowParse
    <3> QED BY <3>1, <1>2, EndsInAppend
  <2>7. EndsIn(q.trace, << >>)
    BY <1>2, EndsInEmpty
  <2> HIDE DEF P, Q, X, told
  <2>8. CASE told /\ ~p.inToolCall /\ p.inThinking
    <3>1. Q.trace = Append(q.trace, token) /\ P.reasoning = Append(p.reasoning, token)
      BY <1>4, <2>1, <2>2, <2>4, <2>5, <2>8
    <3> QED BY <1>4, <2>3, <2>6, <2>8, <3>1
  <2>9. CASE ~(told /\ ~p.inToolCall /\ p.inThinking)
    <3>1. Q.trace = q.trace /\ P.reasoning \in {<< >>, p.reasoning}
      BY <1>4, <2>1, <2>2, <2>4, <2>9
    <3> QED BY <1>2, <2>7, <3>1
  <2> QED BY <2>8, <2>9
<1>7. Q.finished = P.finished
  <2>1. P.finished = (p.finished \/ Hears(p, token, mask, "end"))
    BY <1>1 DEF SameRow, Heard
  <2>2. Q.finished = (q.finished \/ Hears(q, token, mask, "end"))
    BY <1>1 DEF SameStream, Written
  <2> QED BY <1>2, <1>3, <1>T, <2>1, <2>2
<1>8. ASSUME ~P.finished PROVE Q.inToolCall = P.inToolCall /\ Q.inThinking = P.inThinking
  <2>1. P.finished = (p.finished \/ Hears(p, token, mask, "end"))
    BY <1>1 DEF SameRow, Heard
  <2>2. /\ P.inToolCall = (Hears(p, token, mask, "toolStart")
                             \/ (p.inToolCall /\ ~Hears(p, token, mask, "toolEnd")))
        /\ P.inThinking = (Turns(p, token, "thinkStart")
                             \/ (p.inThinking /\ ~Turns(p, token, "thinkEnd")))
    BY <1>1 DEF SameRow, Heard
  <2>3. /\ Q.inToolCall = (Hears(q, token, mask, "toolStart")
                             \/ (q.inToolCall /\ ~Hears(q, token, mask, "toolEnd")))
        /\ Q.inThinking = (Turns(q, token, "thinkStart")
                             \/ (q.inThinking /\ ~Turns(q, token, "thinkEnd")))
    BY <1>1 DEF SameStream, Written
  <2> HIDE DEF P, Q, X, told
  <2> QED BY <1>2, <1>3, <1>T, <1>8, <2>1, <2>2, <2>3
<1>9. P.callArgs \in Seq(X) /\ P.toolCalls \in Seq(Seq(X))
  <2>1. P.callArgs = IF \/ Hears(p, token, mask, "toolStart")
                        \/ Hears(p, token, mask, "toolEnd") /\ p.inToolCall THEN NoCall
                     ELSE IF told /\ p.inToolCall THEN Append(p.callArgs, token)
                     ELSE p.callArgs
    BY <1>1 DEF SameRow, Heard
  <2>2. P.toolCalls = IF Hears(p, token, mask, "toolEnd") /\ p.inToolCall
                        THEN Append(p.toolCalls, p.callArgs) ELSE p.toolCalls
    BY <1>1 DEF SameRow, Heard
  <2>3. Append(p.callArgs, "text") \in Seq(X) /\ NoCall \in Seq(X)
    BY <1>2 DEF NoCall
  <2>4. Append(p.toolCalls, p.callArgs) \in Seq(Seq(X))
    <3> HIDE DEF X
    <3> QED BY <1>2
  <2> HIDE DEF P, Q, X, told
  <2> QED BY <1>2, <1>4, <2>1, <2>2, <2>3, <2>4
<1>10. /\ Q.content \in Seq({"text"}) /\ Q.trace \in Seq({"text"})
       /\ P.callArgs \in Seq({"text"}) /\ P.toolCalls \in Seq(Seq({"text"}))
  BY <1>5, <1>6, <1>9
<1> HIDE DEF P, Q
<1>11. Streams(P, Q)
  BY <1>5, <1>6, <1>7, <1>8, <1>10, Zenon DEF Streams
<1> QED BY <1>11 DEF P, Q

(***************************************************************************)
(* A rollout keeps at least what the stream shows.                         *)
(***************************************************************************)
LEMMA TrainsStep ==
  ASSUME NEW p \in RowParse, NEW q \in RowStream, NEW e \in Seq(Pairs),
         NEW token \in Tokens, NEW mask \in {0, 1},
         mask = 1 => token \in Delimiters \cup {"text"}, mask = 0 => token \in Forceable,
         Streams(p, q), Trains(p, q, e)
  PROVE  Trains(Parsed(p, token, mask), Streamed(q, token, mask),
                Append(e, <<token, mask>>))
<1> DEFINE P == Parsed(p, token, mask)
           Q == Streamed(q, token, mask)
           y == <<token, mask>>
           f == Append(e, y)
           K == {<<"text", 1>>}
           shown == Len(q.content) + Len(q.trace)
           Shows == Len(Q.content) + Len(Q.trace)
           told == ~p.finished /\ y = <<"text", 1>> /\ ~p.inToolCall
<1>1. SameRow(P, Heard(p, token, mask)) /\ SameStream(Q, Written(q, token, mask))
  BY ParsedIs, StreamedIs
<1>2. /\ q.finished = p.finished /\ p.finished \in BOOLEAN /\ q.finished \in BOOLEAN
      /\ ~p.finished => q.inToolCall = p.inToolCall
      /\ p.inToolCall \in BOOLEAN /\ q.inThinking \in BOOLEAN
      /\ q.content \in Seq(Tokens) /\ q.trace \in Seq(Tokens)
  BY DEF Streams, RowParse, RowStream
<1>3. /\ p.finished <=> Ends(e) # {}
      /\ shown <= Len(Only(Batched(e), K))
      /\ ~p.finished /\ (\A k \in DOMAIN e : e[k] \in {<<"text", 1>>, <<"end", 1>>}) =>
           shown = Len(e) /\ ~p.inToolCall
  BY DEF Trains, Ends
<1>4. token = "end" => mask = 1
  BY DEF Forceable
<1>5. y \in Pairs /\ y[1] = token /\ y[2] = mask
  BY DEF Pairs
<1>6. P.finished = (p.finished \/ token = "end")
  <2>1. P.finished = (p.finished \/ Hears(p, token, mask, "end"))
    BY <1>1 DEF SameRow, Heard
  <2> HIDE DEF P
  <2> QED BY <2>1, <1>2, <1>4 DEF Hears
<1>7. P.finished <=> Ends(f) # {}
  <2>1. Ends(f) = {} <=> Ends(e) = {} /\ token # "end"
    BY <1>5, BatchedAppend
  <2> HIDE DEF P, f
  <2> QED BY <1>2, <1>3, <1>6, <2>1
<1>8. Shows = shown + (IF told THEN 1 ELSE 0) /\ shown \in Nat
  <2>1. /\ Q.content = IF Hears(q, token, mask, "text") /\ ~q.inToolCall /\ ~q.inThinking
                         THEN Append(q.content, token) ELSE q.content
        /\ Q.trace = IF Hears(q, token, mask, "text") /\ ~q.inToolCall /\ q.inThinking
                       THEN Append(q.trace, token) ELSE q.trace
    BY <1>1 DEF SameStream, Written
  <2>2. /\ Len(q.content) \in Nat /\ Len(q.trace) \in Nat
        /\ Len(Append(q.content, token)) = Len(q.content) + 1
        /\ Len(Append(q.trace, token)) = Len(q.trace) + 1
    BY <1>2
  <2>3. told <=> Hears(q, token, mask, "text") /\ ~q.inToolCall
    BY <1>2, <1>5 DEF Hears
  <2> DEFINE a == Len(q.content)
             b == Len(q.trace)
             A == Len(Q.content)
             B == Len(Q.trace)
  <2>4. a \in Nat /\ b \in Nat /\ shown = a + b /\ Shows = A + B
    BY <2>2
  <2>5. told => (A = a + 1 /\ B = b) \/ (A = a /\ B = b + 1)
    <3> HIDE DEF told, Q
    <3> QED BY <1>2, <2>1, <2>2, <2>3
  <2>6. ~told => A = a /\ B = b
    <3> HIDE DEF told, Q
    <3> QED BY <2>1, <2>3
  <2> HIDE DEF a, b, A, B, shown, Shows, told
  <2> QED BY <2>4, <2>5, <2>6
<1>9. Shows <= Len(Only(Batched(f), K))
  <2> DEFINE b == Batched(e)
             c == Batched(f)
  <2>1. /\ Ends(e) = {} => b = e
        /\ Ends(e) = {} /\ token # "end" => c = f
        /\ Ends(e) = {} /\ token = "end" => c = e
        /\ Ends(e) # {} => c = b
        /\ b \in Seq(Pairs)
    BY <1>5, BatchedAppend
  <2>2. \A L : Only(f, L) = IF y \in L THEN Append(Only(e, L), y) ELSE Only(e, L)
    <3> HIDE DEF y
    <3> QED BY <1>5, OnlyAppend DEF y
  <2>3. Only(e, K) \in Seq(Pairs) /\ Only(b, K) \in Seq(Pairs)
    BY <2>1, OnlyType
  <2>4. /\ Len(Only(e, K)) \in Nat /\ Len(Only(b, K)) \in Nat
        /\ Len(Append(Only(e, K), y)) = Len(Only(e, K)) + 1
    <3> HIDE DEF K, y, b
    <3> QED BY <1>5, <2>3
  <2>5. y \in K <=> y = <<"text", 1>>
    OBVIOUS
  <2>6. y = <<"text", 1>> => token # "end"
    BY <1>5
  <2> DEFINE m == Len(Only(e, K))
  <2>7. Len(Only(f, K)) = IF y = <<"text", 1>> THEN m + 1 ELSE m
    <3>1. Only(f, K) = IF y \in K THEN Append(Only(e, K), y) ELSE Only(e, K)
      <4> HIDE DEF K
      <4> QED BY <2>2
    <3> HIDE DEF K, f, y
    <3> QED BY <2>4, <2>5, <3>1
  <2>8. CASE p.finished
    <3>1. ~told /\ c = b
      BY <1>3, <2>1, <2>8
    <3>2. shown <= Len(Only(c, K))
      BY <1>3, <3>1
    <3>3. Len(Only(c, K)) \in Nat
      BY <2>4, <3>1
    <3> HIDE DEF told, c, K, shown, Shows
    <3> QED BY <1>8, <3>1, <3>2, <3>3 DEF c
  <2>9. CASE ~p.finished
    <3>1. b = e /\ (IF token = "end" THEN c = e ELSE c = f)
      BY <1>3, <2>1, <2>9
    <3>2. told => y = <<"text", 1>>
      OBVIOUS
    <3>3. Len(Only(b, K)) = m /\ Len(Only(c, K)) = IF token = "end" THEN m ELSE Len(Only(f, K))
      <4> HIDE DEF b, c, f, K
      <4> QED BY <3>1
    <3>4. shown <= m
      <4> HIDE DEF b, shown
      <4> QED BY <1>3, <3>3 DEF b
    <3>5. Shows <= Len(Only(c, K))
      <4> HIDE DEF told, b, c, f, K, y, m, shown, Shows
      <4> QED BY <1>8, <2>4, <2>6, <2>7, <3>2, <3>3, <3>4 DEF m
    <3> QED BY <3>5
  <2> QED BY <2>8, <2>9, <1>2
<1>10. ASSUME ~P.finished, \A k \in DOMAIN f : f[k] \in {<<"text", 1>>, <<"end", 1>>}
       PROVE  Shows = Len(f) /\ ~P.inToolCall
  <2>1. /\ Len(e) \in Nat /\ DOMAIN e = 1..Len(e) /\ DOMAIN f = 1..(Len(e) + 1)
        /\ Len(f) = Len(e) + 1 /\ f[Len(e) + 1] = y
        /\ \A k \in 1..Len(e) : f[k] = e[k]
    <3> HIDE DEF y
    <3> QED BY <1>5, AppendProperties
  <2>2. ~p.finished /\ token # "end"
    BY <1>2, <1>6, <1>10
  <2>3. /\ \A k \in DOMAIN e : e[k] \in {<<"text", 1>>, <<"end", 1>>}
        /\ y \in {<<"text", 1>>, <<"end", 1>>}
    <3>1. \A k \in 1..Len(e) : k \in DOMAIN f
      BY <2>1
    <3>2. Len(e) + 1 \in DOMAIN f
      BY <2>1
    <3> HIDE DEF f, y
    <3> QED BY <1>10, <2>1, <3>1, <3>2
  <2>4. shown = Len(e) /\ ~p.inToolCall
    BY <1>3, <2>2, <2>3
  <2>5. y = <<"text", 1>> /\ token = "text"
    BY <1>5, <2>2, <2>3
  <2>6. Shows = Len(f)
    <3>1. told
      BY <2>2, <2>4, <2>5
    <3> HIDE DEF told, Shows, shown, f
    <3> QED BY <1>8, <2>1, <2>4, <3>1
  <2>7. ~P.inToolCall
    <3>1. P.inToolCall = (Hears(p, token, mask, "toolStart")
                            \/ (p.inToolCall /\ ~Hears(p, token, mask, "toolEnd")))
      BY <1>1 DEF SameRow, Heard
    <3>2. ~Hears(p, token, mask, "toolStart")
      BY <2>5 DEF Hears
    <3> QED BY <2>4, <3>1, <3>2
  <2> QED BY <2>6, <2>7
<1> HIDE DEF P, Q, f
<1>11. Trains(P, Q, f)
  BY <1>7, <1>9, <1>10, Zenon DEF Trains, Ends
<1> QED BY <1>11 DEF P, Q, f, y

\* Where a token takes the four records kept of a row.
Advances(s, p, q, e, token, mask, answer) ==
  /\ Advanced(s, token, answer) \in RowState /\ Parsed(p, token, mask) \in RowParse
  /\ Streamed(q, token, mask) \in RowStream
  /\ Append(e, <<token, mask>>) \in Seq(Pairs)
  /\ Len(Append(e, <<token, mask>>)) = Len(e) + 1
  /\ RowOK(Advanced(s, token, answer), Parsed(p, token, mask),
           Streamed(q, token, mask), Append(e, <<token, mask>>))

(***************************************************************************)
(* One token of one row keeps everything said of the row.                  *)
(***************************************************************************)
LEMMA RowStep ==
  ASSUME NEW s \in RowState, NEW p \in RowParse, NEW q \in RowStream, NEW e \in Seq(Pairs),
         NEW token \in Tokens, NEW mask \in {0, 1}, Given(s, token, mask),
         NEW answer \in Seq(Forceable), RowOK(s, p, q, e)
  PROVE  Advances(s, p, q, e, token, mask, answer)
<1> DEFINE S == Outcome(s, token, answer)
           P == Parsed(p, token, mask)
           Q == Streamed(q, token, mask)
           y == <<token, mask>>
           f == Append(e, y)
<1>1. Advanced(s, token, answer) = S
  BY AdvancedIs
<1>2. /\ CallOK(s) /\ Agree(s, p) /\ Bounded(s, p) /\ WithinBudget(s, e)
      /\ Streams(p, q) /\ Trains(p, q, e)
  BY DEF RowOK
<1>3. /\ mask = 1 => token \in Delimiters \cup {"text"}
      /\ mask = 0 => token \in Forceable
  BY LeftFacts DEF Given
<1>4. S \in RowState /\ CallOK(S)
  BY <1>2, OutcomeKeepsCall
<1>5. Agree(S, P)
  BY <1>2, AgreeStep
<1>6. Bounded(S, P)
  BY <1>2, BoundedStep
<1>N. WithinBudget(S, f)
  BY <1>2, WithinBudgetStep
<1>7. Streams(P, Q)
  BY <1>2, <1>3, StreamsStep
<1>8. Trains(P, Q, f)
  BY <1>2, <1>3, TrainsStep
<1>9. P \in RowParse /\ Q \in RowStream
  BY <1>3, ParsedIs, StreamedIs
<1>10. f \in Seq(Pairs) /\ Len(f) = Len(e) + 1
  <2>1. y \in Pairs
    BY DEF Pairs
  <2> HIDE DEF y
  <2> QED BY <2>1
<1> HIDE DEF S, P, Q, f
<1>11. RowOK(S, P, Q, f)
  BY <1>4, <1>5, <1>6, <1>7, <1>8, <1>N DEF RowOK
<1> QED BY <1>1, <1>4, <1>9, <1>10, <1>11, Zenon DEF Advances, P, Q, f, y

-----------------------------------------------------------------------------
(* The whole loop.                                                         *)

(***************************************************************************)
(* A tool's answer is forced token by token.                               *)
(***************************************************************************)
LEMMA AnswersType ==
  Answers \subseteq Seq(Forceable)
<1> SUFFICES ASSUME NEW a \in Answers PROVE a \in Seq(Forceable)
  OBVIOUS
<1>1. CASE a = << >>
  BY <1>1
<1>2. CASE \E r \in Results : a = <<"outputStart">> \o r \o <<"outputEnd">>
  <2>1. PICK r \in Results : a = <<"outputStart">> \o r \o <<"outputEnd">>
    BY <1>2
  <2>2. r \in Seq(Forceable)
    <3>1. r \in Seq({"result"})
      BY GenerationConstants
    <3> QED BY <3>1 DEF Forceable
  <2>3. <<"outputStart">> \in Seq(Forceable) /\ <<"outputEnd">> \in Seq(Forceable)
    BY DEF Forceable
  <2> HIDE DEF Forceable
  <2>4. <<"outputStart">> \o r \in Seq(Forceable)
    BY <2>2, <2>3, ConcatProperties
  <2> QED BY <2>1, <2>3, <2>4, ConcatProperties
<1> QED BY <1>1, <1>2 DEF Answers

(***************************************************************************)
(* What a step may give a row, and what its tools may answer.              *)
(***************************************************************************)
LEMMA StepGives ==
  ASSUME NEW i \in Rows, state[i] \in RowState, NEW token \in NextTokens(i),
         NEW answer \in Outcomes(i, token)
  PROVE  /\ token \in Tokens
         /\ Given(state[i], token, IF IsForced(state[i]) THEN 0 ELSE 1)
         /\ answer \in Seq(Forceable)
         /\ state[i].toolCallTokens = NoCall => answer = << >>
<1> DEFINE s == state[i]
<1>1. s.forced \in Seq(Forceable)
  BY DEF RowState
<1>2. /\ token \in Tokens /\ Given(s, token, IF IsForced(s) THEN 0 ELSE 1)
  <2>1. CASE s.forced # << >>
    <3>1. token = Head(s.forced) /\ IsForced(s)
      BY <2>1 DEF NextTokens, IsForced
    <3>2. Head(s.forced) \in Forceable
      <4> DEFINE f == s.forced
      <4>1. f \in Seq(Forceable) /\ f # << >>
        BY <1>1, <2>1
      <4> HIDE DEF f
      <4>2. Head(f) \in Forceable
        BY <4>1, HeadTailProperties
      <4> QED BY <4>2 DEF f
    <3> QED BY <2>1, <3>1, <3>2 DEF Given, Tokens
  <2>2. CASE s.forced = << >>
    <3>1. token \in Sampled[i] /\ ~IsForced(s)
      BY <2>2 DEF NextTokens, IsForced
    <3>2. token \in Delimiters \cup {"text"}
      BY <3>1, GenerationConstants
    <3> QED BY <2>2, <3>1, <3>2 DEF Given, Tokens
  <2> QED BY <2>1, <2>2
<1>3. answer \in Seq(Forceable)
  <2>1. << >> \in Seq(Forceable)
    OBVIOUS
  <2> QED BY <2>1, AnswersType DEF Outcomes
<1>4. s.toolCallTokens = NoCall => answer = << >>
  <2>1. Taken(s, token).toolCallTokens = s.toolCallTokens
    <3>1. Taken(s, token) = Row(Left(s), s.inToolCall, s.toolCallTokens, s.inThinking,
                                s.thinkingTokens, s.completed \/ token = "end")
      BY <1>2, TakenIs
    <3> QED BY <3>1 DEF Row
  <2> QED BY <2>1 DEF Outcomes, Executes
<1> QED BY <1>2, <1>3, <1>4

(***************************************************************************)
(* The invariant holds of a prompt just prefilled.                         *)
(***************************************************************************)
LEMMA GenerationInit ==
  Init => GenerationInv
<1> SUFFICES ASSUME Init PROVE GenerationInv
  OBVIOUS
<1>0. /\ MaxTokens \in Nat \ {0} /\ Thinking \in BOOLEAN /\ Primed \in BOOLEAN /\ Budget \in Nat
  BY GenerationConstants
<1>1. TypeOK
  <2>1. << >> \in Seq(Forceable) /\ << >> \in Seq(Tokens) /\ << >> \in Seq(Seq(Tokens))
        /\ << >> \in Seq(Tokens \X {0, 1}) /\ Len(<< >>) = 0
    OBVIOUS
  <2>2. state \in [Rows -> RowState]
    BY <1>0, <2>1 DEF Init, RowState, NoCall
  <2>3. parse \in [Rows -> RowParse]
    BY <1>0, <2>1 DEF Init, RowParse, NoCall
  <2>4. stream \in [Rows -> RowStream]
    BY <1>0, <2>1 DEF Init, RowStream
  <2>5. emitted \in [Rows -> Seq(Tokens \X {0, 1})]
    BY <2>1 DEF Init
  <2>6. \A i \in Rows : Len(emitted[i]) <= MaxTokens
    BY <1>0, <2>1 DEF Init
  <2> QED BY <2>2, <2>3, <2>4, <2>5, <2>6 DEF TypeOK, Init
<1>2. ASSUME NEW i \in Rows PROVE RowOK(state[i], parse[i], stream[i], emitted[i])
  <2> DEFINE s == state[i]
             p == parse[i]
             q == stream[i]
             e == emitted[i]
  <2>1. /\ s.forced = << >> /\ s.inToolCall = FALSE /\ s.toolCallTokens = << >>
        /\ s.inThinking = (Thinking /\ Primed) /\ s.thinkingTokens = 0 /\ s.completed = FALSE
    BY DEF Init, NoCall
  <2>2. /\ p.inToolCall = FALSE /\ p.callArgs = << >> /\ p.inThinking = Primed
        /\ p.reasoning = << >> /\ p.sampled = << >> /\ p.toolCalls = << >>
        /\ p.finished = FALSE
    BY DEF Init, NoCall
  <2>3. /\ q.inToolCall = FALSE /\ q.inThinking = Primed /\ q.finished = FALSE
        /\ q.content = << >> /\ q.trace = << >>
    BY DEF Init
  <2>4. e = << >>
    BY DEF Init
  <2> HIDE DEF s, p, q, e
  <2>5. CallOK(s)
    BY <2>1 DEF CallOK
  <2>6. Agree(s, p)
    <3>1. WithoutThinking(<< >>) = << >>
      BY OnlyEmpty DEF WithoutThinking
    <3> QED BY <1>0, <2>1, <2>2, <3>1 DEF Agree
  <2>7. Bounded(s, p)
    <3>1. Len(<< >>) = 0
      OBVIOUS
    <3> QED BY <1>0, <2>1, <2>2, <3>1 DEF Bounded
  <2>N. WithinBudget(s, e)
    <3>1. \A o : SampledAfter(e, o) = {}
      BY <2>4 DEF SampledAfter
    <3>2. IsFiniteSet({}) /\ Cardinality({}) = 0
      BY FS_EmptySet
    <3>3. \A o \in Openings(e) : Primed
      BY <2>4 DEF Openings
    <3>4. Budget > 0 /\ Primed => s.inThinking
      BY GenerationConstants, <2>1
    <3>5. 0 <= Budget /\ 0 <= s.thinkingTokens
      BY <1>0, <2>1
    <3> QED BY <3>1, <3>2, <3>3, <3>4, <3>5, Zenon DEF WithinBudget
  <2>8. Streams(p, q)
    <3>1. /\ << >> \in Seq({"text"}) /\ << >> \in Seq(Seq({"text"}))
      OBVIOUS
    <3>2. EndsIn(<< >>, << >>)
      BY <3>1, EndsInEmpty
    <3> QED BY <2>2, <2>3, <3>1, <3>2 DEF Streams
  <2>9. Trains(p, q, e)
    <3> DEFINE K == {<<"text", 1>>}
    <3>1. << >> \in Seq(Pairs) /\ <<"text", 1>> \in Pairs /\ Len(<< >>) = 0 /\ DOMAIN << >> = {}
      BY DEF Pairs, Tokens
    <3>2. Batched(<< >>) = << >>
      <4>1. Ends(<< >>) = {}
        BY <3>1 DEF Ends
      <4> QED BY <3>1, <4>1, BatchedAppend
    <3>3. Only(<< >>, K) = << >>
      BY OnlyEmpty
    <3>4. Len(Only(Batched(e), K)) = 0 /\ Len(q.content) + Len(q.trace) = 0 /\ Len(e) = 0
      BY <2>3, <2>4, <3>1, <3>2, <3>3
    <3>5. DOMAIN e = {}
      BY <2>4
    <3>6. p.finished <=> \E k \in DOMAIN e : e[k][1] = "end"
      BY <2>2, <3>5
    <3> HIDE DEF K
    <3>7. /\ Len(q.content) + Len(q.trace) <= Len(Only(Batched(e), K))
          /\ Len(q.content) + Len(q.trace) = Len(e) /\ ~p.inToolCall
      <4> DEFINE a == Len(q.content) + Len(q.trace)
                 b == Len(Only(Batched(e), K))
                 c == Len(e)
      <4>1. a = 0 /\ b = 0 /\ c = 0 /\ ~p.inToolCall
        BY <2>2, <3>4
      <4> HIDE DEF a, b, c
      <4>2. a <= b /\ a = c /\ ~p.inToolCall
        BY <4>1
      <4> QED BY <4>2 DEF a, b, c
    <3> QED BY <3>6, <3>7, Zenon DEF Trains, K
  <2>10. RowOK(s, p, q, e)
    BY <2>5, <2>6, <2>7, <2>8, <2>9, <2>N DEF RowOK
  <2> QED BY <2>10 DEF s, p, q, e
<1>3. \A i, j \in Rows : Len(emitted[i]) = Len(emitted[j])
  BY DEF Init
<1>4. ~done
  BY DEF Init
<1> QED BY <1>1, <1>2, <1>3, <1>4 DEF GenerationInv

(***************************************************************************)
(* A column keeps it.                                                      *)
(***************************************************************************)
LEMMA GenerationStep ==
  ASSUME GenerationInv, Step
  PROVE  GenerationInv'
<1> DEFINE mask == [i \in Rows |-> IF IsForced(state[i]) THEN 0 ELSE 1]
<1>1. PICK column \in [Rows -> Tokens], answers \in [Rows -> Answers] :
        /\ \A i \in Rows : column[i] \in NextTokens(i)
        /\ \A i \in Rows : answers[i] \in Outcomes(i, column[i])
        /\ state' = [i \in Rows |-> Advanced(state[i], column[i], answers[i])]
        /\ parse' = [i \in Rows |-> Parsed(parse[i], column[i], mask[i])]
        /\ stream' = [i \in Rows |-> Streamed(stream[i], column[i], mask[i])]
        /\ emitted' = [i \in Rows |-> Append(emitted[i], <<column[i], mask[i]>>)]
  BY DEF Step
<1>2. /\ ~done /\ ~LoopEnds
      /\ done' = \A i \in Rows : parse'[i].finished
  BY DEF Step
<1>3. \A i \in Rows : /\ state[i] \in RowState /\ parse[i] \in RowParse
                      /\ stream[i] \in RowStream /\ emitted[i] \in Seq(Pairs)
                      /\ RowOK(state[i], parse[i], stream[i], emitted[i])
  BY DEF GenerationInv, TypeOK, Pairs
<1>4. \A i \in Rows : mask[i] \in {0, 1} /\ mask[i] = IF IsForced(state[i]) THEN 0 ELSE 1
  OBVIOUS
<1> HIDE DEF mask
<1>5. \A i \in Rows : /\ column[i] \in Tokens /\ Given(state[i], column[i], mask[i])
                      /\ answers[i] \in Seq(Forceable)
  BY <1>1, <1>3, <1>4, StepGives
<1>6. \A i \in Rows : /\ state'[i] = Advanced(state[i], column[i], answers[i])
                      /\ parse'[i] = Parsed(parse[i], column[i], mask[i])
                      /\ stream'[i] = Streamed(stream[i], column[i], mask[i])
                      /\ emitted'[i] = Append(emitted[i], <<column[i], mask[i]>>)
  BY <1>1
<1>7. \A i \in Rows : /\ state'[i] \in RowState /\ parse'[i] \in RowParse
                      /\ stream'[i] \in RowStream /\ emitted'[i] \in Seq(Pairs)
                      /\ Len(emitted'[i]) = Len(emitted[i]) + 1
                      /\ RowOK(state'[i], parse'[i], stream'[i], emitted'[i])
  <2> TAKE i \in Rows
  <2> DEFINE s == state[i]
             p == parse[i]
             q == stream[i]
             e == emitted[i]
             token == column[i]
             m == mask[i]
             answer == answers[i]
  <2>1. /\ s \in RowState /\ p \in RowParse /\ q \in RowStream /\ e \in Seq(Pairs)
        /\ RowOK(s, p, q, e) /\ m \in {0, 1} /\ token \in Tokens /\ Given(s, token, m)
        /\ answer \in Seq(Forceable)
    BY <1>3, <1>4, <1>5
  <2>2. /\ state'[i] = Advanced(s, token, answer) /\ parse'[i] = Parsed(p, token, m)
        /\ stream'[i] = Streamed(q, token, m) /\ emitted'[i] = Append(e, <<token, m>>)
    BY <1>6
  <2> HIDE DEF s, p, q, e, token, m, answer
  <2>3. /\ Advanced(s, token, answer) \in RowState /\ Parsed(p, token, m) \in RowParse
        /\ Streamed(q, token, m) \in RowStream /\ Append(e, <<token, m>>) \in Seq(Pairs)
        /\ Len(Append(e, <<token, m>>)) = Len(e) + 1
        /\ RowOK(Advanced(s, token, answer), Parsed(p, token, m), Streamed(q, token, m),
                 Append(e, <<token, m>>))
    <3>1. Advances(s, p, q, e, token, m, answer)
      BY <2>1, RowStep
    <3> QED BY <3>1 DEF Advances
  <2> QED BY <2>2, <2>3 DEF e
<1>8. \A i, j \in Rows : Len(emitted[i]) = Len(emitted[j]) /\ Len(emitted[i]) \in Nat
  BY <1>3 DEF GenerationInv
<1>9. \A i \in Rows : Len(emitted[i]) < MaxTokens
  <2> TAKE i \in Rows
  <2> DEFINE c == CHOOSE j \in Rows : TRUE
  <2>1. c \in Rows
    OBVIOUS
  <2>2. ~(Len(emitted[c]) >= MaxTokens)
    BY <1>2 DEF LoopEnds, Exhausted, generated
  <2> HIDE DEF c
  <2>3. MaxTokens \in Nat
    BY GenerationConstants
  <2> QED BY <1>8, <2>1, <2>2, <2>3
<1>10. TypeOK'
  <2>1. /\ state' \in [Rows -> RowState] /\ parse' \in [Rows -> RowParse]
        /\ stream' \in [Rows -> RowStream] /\ emitted' \in [Rows -> Seq(Pairs)]
    BY <1>1, <1>6, <1>7
  <2>2. \A i \in Rows : Len(emitted'[i]) <= MaxTokens
    BY <1>7, <1>8, <1>9, GenerationConstants
  <2>3. done' \in BOOLEAN
    BY <1>2
  <2> QED BY <2>1, <2>2, <2>3 DEF TypeOK, Pairs
<1>11. \A i, j \in Rows : Len(emitted'[i]) = Len(emitted'[j])
  BY <1>7, <1>8
<1> QED BY <1>2, <1>7, <1>10, <1>11 DEF GenerationInv

(***************************************************************************)
(* So does every step.                                                     *)
(***************************************************************************)
LEMMA GenerationNext ==
  GenerationInv /\ [Next]_vars => GenerationInv'
<1> SUFFICES ASSUME GenerationInv, [Next]_vars PROVE GenerationInv'
  OBVIOUS
<1>1. CASE Step
  BY <1>1, GenerationStep
<1>2. CASE Return
  <2>1. /\ state' = state /\ parse' = parse /\ stream' = stream /\ emitted' = emitted
        /\ done' = TRUE /\ LoopEnds
    BY <1>2 DEF Return
  <2>2. (\A i \in Rows : parse[i].finished) \/ \A i \in Rows : Len(emitted[i]) >= MaxTokens
    <3>1. CASE Exhausted
      <4> SUFFICES ASSUME NEW i \in Rows PROVE Len(emitted[i]) >= MaxTokens
        OBVIOUS
      <4>1. (CHOOSE j \in Rows : TRUE) \in Rows
        OBVIOUS
      <4>2. Len(emitted[CHOOSE j \in Rows : TRUE]) >= MaxTokens
        BY <3>1 DEF Exhausted, generated
      <4>3. Len(emitted[i]) = Len(emitted[CHOOSE j \in Rows : TRUE])
        BY <4>1 DEF GenerationInv
      <4> QED BY <4>2, <4>3
    <3>2. CASE \A i \in Rows : state[i].completed
      BY <3>2 DEF GenerationInv, RowOK, Agree
    <3> QED BY <2>1, <3>1, <3>2 DEF LoopEnds
  <2>3. TypeOK'
    BY <2>1 DEF GenerationInv, TypeOK
  <2> QED BY <2>1, <2>2, <2>3 DEF GenerationInv
<1>3. CASE Terminated
  BY <1>3 DEF Terminated, vars, GenerationInv, TypeOK
<1>4. CASE UNCHANGED vars
  BY <1>4 DEF vars, GenerationInv, TypeOK
<1> QED BY <1>1, <1>2, <1>3, <1>4 DEF Next

(***************************************************************************)
(* The invariant, for any number of rows, any budget and any tools.        *)
(***************************************************************************)
THEOREM GenerationInvariance == Spec => []GenerationInv
BY GenerationInit, GenerationNext, PTL DEF Spec

(***************************************************************************)
(* Server.generate's parser never loses the engine: at every yield they     *)
(* agree on whether a row is over, in a call, in a trace, and on the call. *)
(***************************************************************************)
THEOREM ParserFollows == Spec => [](TypeOK /\ ParserFollowsEngine)
<1>1. GenerationInv => TypeOK /\ ParserFollowsEngine
  BY DEF GenerationInv, RowOK, Agree, ParserFollowsEngine
<1> QED BY <1>1, GenerationInvariance, PTL

(***************************************************************************)
(* After every opening of a trace, old or last, in the prompt or sampled,    *)
(* inside another trace or not, no more than options.ThinkingBudget tokens *)
(* are sampled before the next delimiter, whatever calls, outputs and      *)
(* forced tokens come in between, and no reported trace is longer.         *)
(***************************************************************************)
THEOREM ReasoningBounded == Spec => []ReasoningWithinBudget
<1>1. GenerationInv => ReasoningWithinBudget
  BY DEF GenerationInv, RowOK, Bounded, WithinBudget, ReasoningWithinBudget
<1> QED BY <1>1, GenerationInvariance, PTL

(***************************************************************************)
(* In every reachable state Ensemble.GenerateWith's ladder takes a row      *)
(* where Engine.GenerateWith's takes it.                                   *)
(***************************************************************************)
THEOREM EnsembleMatches == Spec => []EnsembleMatchesEngine
<1>1. GenerationInv => EnsembleMatchesEngine
  <2> SUFFICES ASSUME GenerationInv, NEW i \in Rows, NEW token \in NextTokens(i),
                      NEW answer \in Outcomes(i, token)
               PROVE  EnsembleAdvanced(state[i], token, answer) = Advanced(state[i], token, answer)
    BY DEF EnsembleMatchesEngine
  <2>1. state[i] \in RowState
    BY DEF GenerationInv, TypeOK
  <2>2. /\ token \in Tokens /\ answer \in Seq(Forceable)
        /\ state[i].toolCallTokens = NoCall => answer = << >>
    BY <2>1, StepGives
  <2> QED BY <2>1, <2>2, AdvancedIs, EnsembleAdvancedIs
<1> QED BY <1>1, GenerationInvariance, PTL

(***************************************************************************)
(* The content, the trace and the calls of a row hold text and nothing     *)
(* else.                                                                   *)
(***************************************************************************)
LEMMA OnlyText ==
  ASSUME NEW p, NEW q, Streams(p, q)
  PROVE  LET shown == q.content \o q.trace \o (FlattenSeq(p.toolCalls) \o p.callArgs)
         IN  \A k \in DOMAIN shown : shown[k] = "text"
<1> DEFINE X == {"text"}
           shown == q.content \o q.trace \o (FlattenSeq(p.toolCalls) \o p.callArgs)
<1>1. /\ q.content \in Seq(X) /\ q.trace \in Seq(X) /\ p.callArgs \in Seq(X)
      /\ p.toolCalls \in Seq(Seq(X))
  BY DEF Streams
<1> HIDE DEF X
<1>2. FlattenSeq(p.toolCalls) \in Seq(X)
  BY <1>1, FlattenType
<1>3. FlattenSeq(p.toolCalls) \o p.callArgs \in Seq(X) /\ q.content \o q.trace \in Seq(X)
  BY <1>1, <1>2, ConcatProperties
<1>4. shown \in Seq(X)
  BY <1>3, ConcatProperties
<1> HIDE DEF shown
<1>5. \A k \in DOMAIN shown : shown[k] \in X
  BY <1>4
<1> QED BY <1>5 DEF X, shown

(***************************************************************************)
(* Every row counts towards what the stream has shown.                     *)
(***************************************************************************)
LEMMA ShownCounts ==
  ASSUME GenerationInv, NEW i \in Rows
  PROVE  ShownInAll \in Nat /\ ShownInAll >= Shown(i)
<1> DEFINE rows == SetToSeq(Rows)
           sums == [k \in 1..Len(rows) |-> Shown(rows[k])]
<1>1. /\ rows \in [1..Cardinality(Rows) -> Rows]
      /\ Cardinality(Rows) \in Nat /\ Len(rows) = Cardinality(Rows)
      /\ \E k \in 1..Cardinality(Rows) : rows[k] = i
  BY GenerationConstants, SetToSeqIs
<1>2. \A j \in Rows : Shown(j) \in Nat
  <2> TAKE j \in Rows
  <2>1. stream[j] \in RowStream
    BY DEF GenerationInv, TypeOK
  <2>2. stream[j].content \in Seq(Tokens) /\ stream[j].trace \in Seq(Tokens)
    BY <2>1 DEF RowStream
  <2>3. Len(stream[j].content) \in Nat /\ Len(stream[j].trace) \in Nat
    BY <2>2
  <2> DEFINE a == Len(stream[j].content)
             b == Len(stream[j].trace)
  <2>4. Shown(j) = a + b /\ a \in Nat /\ b \in Nat
    BY <2>3 DEF Shown
  <2> HIDE DEF a, b
  <2> QED BY <2>4
<1> HIDE DEF rows
<1>3. sums \in Seq(Nat) /\ Len(sums) = Len(rows)
  BY <1>1, <1>2
<1>4. PICK k \in 1..Len(rows) : rows[k] = i
  BY <1>1
<1>5. sums[k] = Shown(i)
  BY <1>4
<1>6. ShownInAll = Total(sums)
  BY DEF ShownInAll, rows
<1> HIDE DEF sums
<1>7. sums[k] <= Total(sums) /\ Total(sums) \in Nat
  BY <1>3, <1>4, TotalElement, TotalNat
<1> QED BY <1>2, <1>5, <1>6, <1>7

(***************************************************************************)
(* The answer, the stream and the rollout of a row agree, and a stream cut *)
(* off with nothing hidden has shown all it was allowed.                   *)
(***************************************************************************)
THEOREM ConsumersFollow == Spec => []ConsumersAgree
<1>1. GenerationInv => ConsumersAgree
  <2> SUFFICES ASSUME GenerationInv PROVE ConsumersAgree
    OBVIOUS
  <2>1. ASSUME NEW i \in Rows
        PROVE  LET trained == Only(Batched(emitted[i]), {<<"text", 1>>})
                   called == FlattenSeq(parse[i].toolCalls) \o parse[i].callArgs
                   shown == stream[i].content \o stream[i].trace \o called
               IN  /\ stream[i].content = parse[i].sampled
                   /\ IsSuffix(parse[i].reasoning, stream[i].trace)
                   /\ \A k \in DOMAIN shown : shown[k] = "text"
                   /\ stream[i].finished = parse[i].finished
                   /\ Shown(i) <= Len(trained)
    <3>1. Streams(parse[i], stream[i]) /\ Trains(parse[i], stream[i], emitted[i])
      BY DEF GenerationInv, RowOK
    <3>2. /\ stream[i].content = parse[i].sampled
          /\ EndsIn(stream[i].trace, parse[i].reasoning)
          /\ stream[i].finished = parse[i].finished
      BY <3>1 DEF Streams
    <3>3. IsSuffix(parse[i].reasoning, stream[i].trace)
      <4>1. parse[i].reasoning \in Seq(Tokens) /\ stream[i].trace \in Seq(Tokens)
        BY DEF GenerationInv, TypeOK, RowParse, RowStream
      <4> QED BY <3>2, <4>1, EndsInIsSuffix
    <3>4. Shown(i) <= Len(Only(Batched(emitted[i]), {<<"text", 1>>}))
      BY <3>1 DEF Trains, Shown
    <3> QED BY <3>1, <3>2, <3>3, <3>4, OnlyText
  <2>2. ASSUME done, \A i \in Rows : AllShown(i), NEW i \in Rows, ~parse[i].finished
        PROVE  ShownInAll >= MaxTokens
    <3>1. Len(emitted[i]) >= MaxTokens
      BY <2>2 DEF GenerationInv
    <3>2. Shown(i) = Len(emitted[i])
      <4>1. Trains(parse[i], stream[i], emitted[i])
        BY DEF GenerationInv, RowOK
      <4> QED BY <2>2, <4>1 DEF Trains, AllShown, Shown
    <3>3. ShownInAll \in Nat /\ ShownInAll >= Shown(i)
      BY ShownCounts
    <3>4. MaxTokens \in Nat /\ Len(emitted[i]) \in Nat
      <4>1. emitted[i] \in Seq(Tokens \X {0, 1})
        BY DEF GenerationInv, TypeOK
      <4> QED BY <4>1, GenerationConstants
    <3> QED BY <3>1, <3>2, <3>3, <3>4
  <2> QED BY <2>1, <2>2 DEF ConsumersAgree
<1> QED BY <1>1, GenerationInvariance, PTL

-----------------------------------------------------------------------------
(* Draft block generation.                                                 *)

(***************************************************************************)
(* The row and the place of an entry of a flat array.                      *)
(***************************************************************************)
LEMMA Cell ==
  ASSUME NEW L \in Nat \ {0}, NEW q \in Nat, NEW r \in 0 .. L - 1
  PROVE  /\ q * L + r \in Nat
         /\ (q * L + r) \div L = q
         /\ (q * L + r) % L = r
<1>1. PICK a \in Nat : a = q * L + r
  OBVIOUS
<1>2. PICK d \in Int, m \in 0 .. (L - 1) : a = d * L + m /\ d = a \div L /\ m = a % L
  BY <1>1
<1>3. q * L <= a /\ a < (q + 1) * L
  BY <1>1
<1>4. q <= a \div L /\ a \div L < q + 1
  BY <1>3, Quotient
<1>5. d = q
  BY <1>2, <1>4
<1> QED BY <1>1, <1>2, <1>5

\* Entry j of B rows of the length L, and where it is.
Within(j, B, L) == j \in 0 .. B * L - 1

Spot(j, b, r, L) == j = (b - 1) * L + r /\ j % L = r /\ j \div L = b - 1

(***************************************************************************)
(* Every entry of a flat array is in one row, at one place of it.          *)
(***************************************************************************)
LEMMA Uncell ==
  ASSUME NEW L \in Nat \ {0}, NEW B \in Nat, NEW j, Within(j, B, L)
  PROVE  \E b \in 1 .. B, r \in 0 .. L - 1 : Spot(j, b, r, L)
<1>1. B * L \in Nat /\ j \in Nat /\ j < B * L
  BY DEF Within
<1>2. PICK d \in Int, m \in 0 .. (L - 1) : j = d * L + m /\ d = j \div L /\ m = j % L
  BY <1>1
<1>3. d \in Nat /\ d < B
  <2>1. j < B * L /\ j \in Int /\ j >= 0
    BY <1>1
  <2>2. j \div L < B /\ j \div L \in Nat
    BY <2>1, Quotient
  <2> QED BY <1>2, <2>2
<1>4. d + 1 \in 1 .. B /\ (d + 1) - 1 = d
  BY <1>3
<1>5. Spot(j, d + 1, m, L)
  BY <1>2, <1>4 DEF Spot
<1> QED BY <1>4, <1>5

\* B rows of the length L.
Level(rows, T, B, L) ==
  /\ rows \in Seq(Seq(T)) /\ Len(rows) = B
  /\ \A b \in 1 .. B : Len(rows[b]) = L

\* A flat array holds the rows one after the other.
Holds(flat, rows, B, L) ==
  /\ Len(flat) = B * L
  /\ \A b \in 1 .. B : \A i \in 1 .. L : flat[(b - 1) * L + i] = rows[b][i]

(***************************************************************************)
(* Rows of one length, one after the other.                                *)
(***************************************************************************)
LEMMA FlatIs ==
  ASSUME NEW T, NEW rows, NEW B \in Nat, NEW L \in Nat, Level(rows, T, B, L)
  PROVE  Flat(rows) \in Seq(T) /\ Holds(Flat(rows), rows, B, L)
<1>1. PICK G \in [0 .. B -> Seq(T)] :
        /\ G[0] = << >>
        /\ \A k \in 1 .. B : G[k] = G[k - 1] \o rows[k]
        /\ FlattenSeq(rows) = G[B]
  BY FlattenDef DEF Level
<1>2. \A b \in 1 .. B : rows[b] \in Seq(T) /\ Len(rows[b]) = L
  BY DEF Level
<1>3. \A b \in 0 .. B : b * L \in Nat /\ (b + 1) * L = b * L + L
  BY <1>2
<1> DEFINE Reads(k) == /\ Len(G[k]) = k * L
                       /\ \A b \in 1 .. k : \A i \in 1 .. L : G[k][(b - 1) * L + i] = rows[b][i]
           S == { k \in Nat : k \in 0 .. B => Reads(k) }
<1>4. 0 \in S
  <2>1. Len(G[0]) = 0 * L
    BY <1>1
  <2> QED BY <2>1
<1>5. ASSUME NEW k \in Nat, k + 1 \in 0 .. B, Reads(k) PROVE Reads(k + 1)
  <2>1. k \in 0 .. B /\ k + 1 \in 1 .. B /\ (k + 1) - 1 = k
    BY <1>2, <1>5
  <2>2. PICK before \in Seq(T) : before = G[k]
    BY <2>1
  <2>3. PICK last \in Seq(T) : last = rows[k + 1] /\ Len(last) = L
    BY <1>2, <2>1
  <2>4. G[k + 1] = before \o last
    BY <1>1, <2>1, <2>2, <2>3
  <2>5. PICK low \in Nat : low = k * L
    BY <1>3, <2>1
  <2>6. (k + 1) * L = low + L /\ Len(before) = low
    BY <1>3, <1>5, <2>1, <2>2, <2>5
  <2>8. /\ Len(before \o last) = Len(before) + Len(last)
        /\ \A i \in 1 .. Len(before) : (before \o last)[i] = before[i]
        /\ \A i \in 1 .. Len(last) : (before \o last)[Len(before) + i] = last[i]
    BY ConcatProperties
  <2>9. /\ Len(before \o last) = low + L
        /\ \A i \in 1 .. low : (before \o last)[i] = before[i]
        /\ \A i \in 1 .. L : (before \o last)[low + i] = last[i]
    BY <2>3, <2>6, <2>8
  <2>7. ASSUME NEW b \in 1 .. (k + 1), NEW i \in 1 .. L
        PROVE  G[k + 1][(b - 1) * L + i] = rows[b][i]
    <3>1. CASE b = k + 1
      <4>1. (b - 1) * L = low
        BY <2>5, <3>1
      <4>2. (before \o last)[low + i] = last[i]
        BY <2>9
      <4> QED BY <2>3, <2>4, <3>1, <4>1, <4>2
    <3>2. CASE b \in 1 .. k
      <4>1. PICK start \in Nat : start = (b - 1) * L /\ b * L = start + L
        <5>1. b - 1 \in 0 .. B /\ (b - 1) + 1 = b
          BY <2>1, <3>2
        <5>2. (b - 1) * L \in Nat /\ ((b - 1) + 1) * L = (b - 1) * L + L
          BY <1>3, <5>1
        <5> QED BY <5>1, <5>2
      <4>2. b * L <= k * L
        BY <3>2
      <4>3. start + i \in 1 .. low
        <5>1. start + L <= low
          BY <2>5, <4>1, <4>2
        <5> QED BY <5>1
      <4>4. G[k][start + i] = rows[b][i]
        BY <1>5, <3>2, <4>1
      <4>5. (before \o last)[start + i] = before[start + i]
        BY <2>9, <4>3
      <4> QED BY <2>2, <2>4, <4>1, <4>4, <4>5
    <3> QED BY <3>1, <3>2
  <2> QED BY <2>4, <2>6, <2>7, <2>9
<1>6. B \in S
  <2>1. ASSUME NEW k \in Nat, k \in S PROVE k + 1 \in S
    <3>1. SUFFICES ASSUME k + 1 \in 0 .. B PROVE Reads(k + 1)
      OBVIOUS
    <3>2. Reads(k)
      <4>1. k \in 0 .. B
        BY <3>1
      <4> HIDE DEF Reads
      <4> QED BY <2>1, <4>1
    <3> HIDE DEF Reads
    <3> QED BY <1>5, <3>1, <3>2
  <2> HIDE DEF S
  <2>2. \A k \in Nat : k \in S
    BY <1>4, <2>1, SetInduction
  <2> QED BY <1>2, <2>2
<1>7. B * L \in Nat
  OBVIOUS
<1>8. Reads(B)
  <2>1. B \in 0 .. B
    OBVIOUS
  <2> HIDE DEF Reads
  <2> QED BY <1>6, <2>1
<1>9. Flat(rows) = G[B] /\ G[B] \in Seq(T)
  BY <1>1 DEF Flat
<1> QED BY <1>7, <1>8, <1>9 DEF Holds

\* The flat inputs and targets of the windows.
Shifted(inputs, targets, windows, B, L) ==
  /\ Len(inputs) = B * L
  /\ \A b \in 1 .. B : \A i \in 1 .. L :
       /\ inputs[(b - 1) * L + i] = windows[b][i]
       /\ targets[(b - 1) * L + i] = windows[b][i + 1]

(***************************************************************************)
(* The flat inputs and the flat targets are the windows without their last *)
(* and without their first token.                                          *)
(***************************************************************************)
LEMMA WindowsAre ==
  ASSUME NEW T, NEW windows, NEW B \in Nat, NEW L \in Nat, Level(windows, T, B, L + 1)
  PROVE  /\ Len(InputsOf(windows)) = B /\ Len(TargetsOf(windows)) = B
         /\ Level(InputsOf(windows), T, B, L)
         /\ Shifted(Flat(InputsOf(windows)), Flat(TargetsOf(windows)), windows, B, L)
<1>1. DOMAIN windows = 1 .. B /\ \A b \in 1 .. B : windows[b] \in Seq(T) /\ Len(windows[b]) = L + 1
  BY DEF Level
<1>2. PICK ins : ins = InputsOf(windows)
  OBVIOUS
<1>3. PICK outs : outs = TargetsOf(windows)
  OBVIOUS
<1>4. ASSUME NEW b \in 1 .. B
      PROVE  /\ ins[b] \in Seq(T) /\ Len(ins[b]) = L /\ \A i \in 1 .. L : ins[b][i] = windows[b][i]
             /\ outs[b] \in Seq(T) /\ Len(outs[b]) = L /\ \A i \in 1 .. L : outs[b][i] = windows[b][i + 1]
  <2>1. PICK w \in Seq(T) : w = windows[b] /\ Len(w) = L + 1
    BY <1>1
  <2>2. ins[b] = Front(w) /\ outs[b] = Tail(w)
    BY <1>1, <1>2, <1>3, <2>1 DEF InputsOf, TargetsOf
  <2>3. Front(w) = SubSeq(w, 1, L)
    BY <2>1 DEF Front
  <2>4. SubSeq(w, 1, L) \in Seq(T) /\ Len(SubSeq(w, 1, L)) = L /\ \A i \in 1 .. L : SubSeq(w, 1, L)[i] = w[i]
    BY <2>1
  <2>5. Tail(w) \in Seq(T) /\ Len(Tail(w)) = L /\ \A i \in 1 .. L : Tail(w)[i] = w[i + 1]
    BY <2>1
  <2> QED BY <2>1, <2>2, <2>3, <2>4, <2>5
<1>5. ins \in Seq(Seq(T)) /\ Len(ins) = B /\ outs \in Seq(Seq(T)) /\ Len(outs) = B
  <2>1. ins = [b \in 1 .. B |-> ins[b]] /\ outs = [b \in 1 .. B |-> outs[b]]
    BY <1>1, <1>2, <1>3 DEF InputsOf, TargetsOf
  <2> DEFINE V == Seq(T)
  <2>2. \A b \in 1 .. B : ins[b] \in V /\ outs[b] \in V
    BY <1>4
  <2> HIDE DEF V
  <2>3. ins \in [1 .. B -> V] /\ outs \in [1 .. B -> V]
    BY <2>1, <2>2
  <2>4. ins \in Seq(V) /\ Len(ins) = B /\ outs \in Seq(V) /\ Len(outs) = B
    BY <2>3
  <2> QED BY <2>4 DEF V
<1>6. Level(ins, T, B, L) /\ Level(outs, T, B, L)
  BY <1>4, <1>5 DEF Level
<1>7. Holds(Flat(ins), ins, B, L)
  BY <1>6, FlatIs
<1>8. Holds(Flat(outs), outs, B, L)
  BY <1>6, FlatIs
<1>9. ASSUME NEW b \in 1 .. B, NEW i \in 1 .. L
      PROVE  /\ Flat(ins)[(b - 1) * L + i] = windows[b][i]
             /\ Flat(outs)[(b - 1) * L + i] = windows[b][i + 1]
  <2>1. Flat(ins)[(b - 1) * L + i] = ins[b][i]
    BY <1>7 DEF Holds
  <2>2. Flat(outs)[(b - 1) * L + i] = outs[b][i]
    BY <1>8 DEF Holds
  <2> QED BY <1>4, <2>1, <2>2
<1>11. Len(Flat(ins)) = B * L
  BY <1>7 DEF Holds
<1>10. Shifted(Flat(ins), Flat(outs), windows, B, L)
  BY <1>9, <1>11 DEF Shifted
<1> QED BY <1>2, <1>3, <1>5, <1>6, <1>10

\* What a trained row sees: the window up to its masked end, and masks.
Visible(window, prefix, index) == [i \in 1 .. prefix + index |-> IF i <= prefix THEN window[i] ELSE Mask]

\* The supervised row of a draft of a window.
Lesson(window, L, prefix, b, index) ==
  [source   |-> (b - 1) * L + prefix - 1 + index,
   seen     |-> Visible(window, prefix, index),
   previous |-> window[prefix + index],
   target   |-> window[prefix + index + 1]]

\* The supervised rows: n for each window.
Supervises(rows, windows, B, L, n, prefix) ==
  /\ DOMAIN rows = 1 .. B * n
  /\ \A b \in 1 .. B : \A index \in 0 .. n - 1 :
       /\ (b - 1) * n + index + 1 \in 1 .. B * n
       /\ rows[(b - 1) * n + index + 1] = Lesson(windows[b], L, prefix, b, index)
  /\ \A r \in 1 .. B * n : \E b \in 1 .. B, index \in 0 .. n - 1 :
       r = (b - 1) * n + index + 1

(***************************************************************************)
(* The masked positions of a row and the one before them are the drafts'.  *)
(***************************************************************************)
LEMMA Positions ==
  ASSUME NEW count \in Int, NEW L \in Nat \ {0}
  PROVE  /\ DraftPositions(count, L) \in 1 .. L
         /\ PrefixLength(count, L) \in 1 .. L
         /\ PrefixLength(count, L) + DraftPositions(count, L) - 1 = L
         /\ DraftPositions(count, L) = Least(Largest(count, 1), L)
BY DEF DraftPositions, PrefixLength, Least, Largest

\* The supervised rows of flat arrays.
Lessons(ins, outs, masked, B, L, n, prefix) ==
  [r \in 1 .. B * n |->
     [source   |-> ((r - 1) \div n) * L + prefix - 1 + ((r - 1) % n),
      seen     |-> Seen(masked, L, ((r - 1) \div n) * L + prefix - 1 + ((r - 1) % n)),
      previous |-> PreviousOf(ins, outs, L, prefix, (r - 1) \div n, (r - 1) % n),
      target   |-> At(outs, ((r - 1) \div n) * L + prefix - 1 + ((r - 1) % n))]]

(***************************************************************************)
(* Each supervised row sees the window up to the mask, is biased by the     *)
(* token before its target and has that target.                            *)
(***************************************************************************)
LEMMA SupervisedIs ==
  ASSUME NEW T, NEW windows, NEW B \in Nat \ {0}, NEW L \in Nat \ {0}, Level(windows, T, B, L + 1),
         NEW count \in Int
  PROVE  Supervises(Supervised(InputsOf(windows), TargetsOf(windows), count), windows, B, L,
                    DraftPositions(count, L), PrefixLength(count, L))
<1>1. PICK n \in 1 .. L, prefix \in 1 .. L :
        n = DraftPositions(count, L) /\ prefix = PrefixLength(count, L) /\ prefix + n - 1 = L
  BY Positions
<1>2. PICK ins : ins = Flat(InputsOf(windows))
  OBVIOUS
<1>3. PICK outs : outs = Flat(TargetsOf(windows))
  OBVIOUS
<1>4. PICK masked : masked = MaskedInputs(ins, L, prefix)
  OBVIOUS
<1>5. PICK rows : rows = Supervised(InputsOf(windows), TargetsOf(windows), count)
  OBVIOUS
<1>6. /\ Len(InputsOf(windows)) = B /\ Len(InputsOf(windows)[1]) = L
      /\ B * L \in Nat /\ Len(ins) = B * L /\ Shifted(ins, outs, windows, B, L)
  <2>1. 1 \in 1 .. B
    OBVIOUS
  <2>2. Level(InputsOf(windows), T, B, L)
    BY WindowsAre
  <2>3. Shifted(ins, outs, windows, B, L)
    BY <1>2, <1>3, WindowsAre
  <2>4. Len(ins) = B * L
    BY <2>3 DEF Shifted
  <2>5. B * L \in Nat
    OBVIOUS
  <2> QED BY <2>1, <2>2, <2>3, <2>4, <2>5 DEF Level
<1> DEFINE source(r) == ((r - 1) \div n) * L + prefix - 1 + ((r - 1) % n)
           lesson(r) == [source   |-> source(r),
                         seen     |-> Seen(masked, L, source(r)),
                         previous |-> PreviousOf(ins, outs, L, prefix, (r - 1) \div n, (r - 1) % n),
                         target   |-> At(outs, source(r))]
<1>7. rows = [r \in 1 .. B * n |-> lesson(r)]
  <2>1. rows = LET length == Len(InputsOf(windows)[1])
                   kept   == PrefixLength(count, length)
               IN  Lessons(ins, outs, MaskedInputs(ins, length, kept), Len(InputsOf(windows)), length,
                           DraftPositions(count, length), kept)
    BY <1>2, <1>3, <1>5 DEF Supervised, Lessons
  <2>2. rows = Lessons(ins, outs, masked, B, L, n, prefix)
    BY <1>1, <1>4, <1>6, <2>1
  <2> QED BY <2>2 DEF Lessons
<1>8. masked = [j \in 1 .. B * L |-> IF (j - 1) % L >= prefix THEN Mask ELSE ins[j]]
  BY <1>4, <1>6 DEF MaskedInputs
<1> HIDE DEF lesson
<1>9. ASSUME NEW b \in 1 .. B, NEW i \in 1 .. L
      PROVE  /\ (b - 1) * L + i \in 1 .. B * L
             /\ masked[(b - 1) * L + i] = IF i <= prefix THEN windows[b][i] ELSE Mask
  <2>1. PICK start \in Nat : start = (b - 1) * L
    OBVIOUS
  <2>2. start + L <= B * L
    <3>1. b * L <= B * L
      OBVIOUS
    <3>2. b * L = start + L
      BY <2>1
    <3> QED BY <1>6, <3>1, <3>2
  <2>3. start + i \in 1 .. B * L
    BY <1>6, <2>2
  <2>4. (start + i - 1) % L = i - 1
    <3>1. b - 1 \in Nat /\ i - 1 \in 0 .. L - 1
      OBVIOUS
    <3>2. ((b - 1) * L + (i - 1)) % L = i - 1
      BY <3>1, Cell
    <3>3. start + i - 1 = (b - 1) * L + (i - 1)
      BY <2>1
    <3> QED BY <3>2, <3>3
  <2>5. ins[start + i] = windows[b][i]
    BY <1>6, <2>1 DEF Shifted
  <2>6. masked[start + i] = IF i - 1 >= prefix THEN Mask ELSE windows[b][i]
    BY <1>8, <2>3, <2>4, <2>5
  <2> QED BY <2>1, <2>3, <2>6
<1>10. ASSUME NEW b \in 1 .. B, NEW index \in 0 .. n - 1
       PROVE  /\ (b - 1) * n + index + 1 \in 1 .. B * n
              /\ rows[(b - 1) * n + index + 1] = Lesson(windows[b], L, prefix, b, index)
  <2>1. PICK r \in Nat : r = (b - 1) * n + index + 1
    OBVIOUS
  <2>2. r \in 1 .. B * n
    <3>1. b * n <= B * n
      OBVIOUS
    <3>2. b * n = (b - 1) * n + n
      OBVIOUS
    <3>3. PICK low \in Nat, high \in Nat : low = (b - 1) * n /\ high = B * n
      OBVIOUS
    <3>4. low + n <= high /\ r = low + index + 1
      BY <2>1, <3>1, <3>2, <3>3
    <3>5. r <= high /\ r >= 1
      BY <3>4
    <3> QED BY <3>3, <3>5
  <2>3. (r - 1) \div n = b - 1 /\ (r - 1) % n = index
    <3>1. b - 1 \in Nat /\ n \in Nat \ {0}
      OBVIOUS
    <3>2. ((b - 1) * n + index) \div n = b - 1 /\ ((b - 1) * n + index) % n = index
      BY <3>1, Cell
    <3>3. r - 1 = (b - 1) * n + index
      BY <2>1
    <3> QED BY <3>2, <3>3
  <2>4. PICK start \in Nat : start = (b - 1) * L
    OBVIOUS
  <2>5. PICK here \in Nat : here = start + prefix - 1 + index /\ here = source(r)
    <3>1. source(r) = (b - 1) * L + prefix - 1 + index
      BY <2>3
    <3> HIDE DEF source
    <3>2. source(r) = start + prefix - 1 + index
      BY <2>4, <3>1
    <3>3. start + prefix - 1 + index \in Nat
      OBVIOUS
    <3> QED BY <3>2, <3>3
  <2> HIDE DEF source
  <2>6. (here \div L) * L = start
    <3>1. b - 1 \in Nat /\ prefix - 1 + index \in 0 .. L - 1
      BY <1>1
    <3>2. ((b - 1) * L + (prefix - 1 + index)) \div L = b - 1
      BY <3>1, Cell
    <3>3. here = (b - 1) * L + (prefix - 1 + index)
      BY <2>4, <2>5
    <3> QED BY <2>4, <3>2, <3>3
  <2>7. Seen(masked, L, here) = Visible(windows[b], prefix, index)
    <3>1. Seen(masked, L, here) = SubSeq(masked, start + 1, start + prefix + index)
      <4>1. here + 1 = start + prefix + index
        BY <2>5
      <4> QED BY <2>6, <4>1 DEF Seen
    <3>2. prefix + index \in 1 .. L
      BY <1>1
    <3>3. PICK size \in Nat : /\ size = prefix + index
                              /\ (start + prefix + index) - (start + 1) + 1 = size
                              /\ start + 1 <= start + prefix + index
      BY <3>2
    <3> DEFINE S == { masked[j] : j \in start + 1 .. start + prefix + index }
    <3>4. PICK part : part = SubSeq(masked, start + 1, start + prefix + index)
      OBVIOUS
    <3>6. part \in Seq(S) /\ Len(part) = size /\ \A i \in 1 .. size : part[i] = masked[(start + 1) + i - 1]
      <4>1. start + 1 \in Int /\ start + prefix + index \in Int
        OBVIOUS
      <4>2. \A j \in start + 1 .. start + prefix + index : masked[j] \in S
        OBVIOUS
      <4> HIDE DEF S
      <4> QED BY <3>3, <3>4, <4>1, <4>2, SubSeqProperties
    <3>5. \A i \in 1 .. prefix + index :
            masked[(start + 1) + i - 1] = IF i <= prefix THEN windows[b][i] ELSE Mask
      <4> TAKE i \in 1 .. prefix + index
      <4>1. i \in 1 .. L /\ (start + 1) + i - 1 = start + i
        BY <3>2
      <4> QED BY <1>9, <2>4, <4>1
    <3> HIDE DEF S
    <3>7. part = [i \in 1 .. size |-> part[i]]
      BY <3>6
    <3> QED BY <3>1, <3>3, <3>4, <3>5, <3>6, <3>7 DEF Visible
  <2>8. At(outs, here) = windows[b][prefix + index + 1]
    <3>1. prefix + index \in 1 .. L
      BY <1>1
    <3>2. outs[start + (prefix + index)] = windows[b][(prefix + index) + 1]
      BY <1>6, <2>4, <3>1 DEF Shifted
    <3>3. here + 1 = start + (prefix + index)
      BY <2>5
    <3> QED BY <3>2, <3>3 DEF At
  <2>9. PreviousOf(ins, outs, L, prefix, b - 1, index) = windows[b][prefix + index]
    <3>1. CASE index > 0
      <4>1. prefix + index - 1 \in 1 .. L
        BY <1>1, <3>1
      <4>2. outs[start + (prefix + index - 1)] = windows[b][(prefix + index - 1) + 1]
        BY <1>6, <2>4, <4>1 DEF Shifted
      <4>3. /\ start + prefix - 1 + index - 1 + 1 = start + (prefix + index - 1)
            /\ (prefix + index - 1) + 1 = prefix + index
        BY <3>1
      <4> QED BY <2>4, <3>1, <4>2, <4>3 DEF PreviousOf, At
    <3>2. CASE index = 0
      <4>1. ins[start + prefix] = windows[b][prefix]
        BY <1>6, <2>4 DEF Shifted
      <4>2. start + prefix - 1 + 1 = start + prefix
        OBVIOUS
      <4> QED BY <2>4, <3>2, <4>1, <4>2 DEF PreviousOf, At
    <3> QED BY <3>1, <3>2
  <2>10. rows[r] = [source |-> here, seen |-> Seen(masked, L, here),
                    previous |-> PreviousOf(ins, outs, L, prefix, b - 1, index), target |-> At(outs, here)]
    BY <1>7, <2>2, <2>3, <2>5 DEF lesson
  <2>11. rows[r] = Lesson(windows[b], L, prefix, b, index)
    BY <2>4, <2>5, <2>7, <2>8, <2>9, <2>10 DEF Lesson
  <2> QED BY <2>1, <2>2, <2>11
<1>11. ASSUME NEW r \in 1 .. B * n PROVE \E b \in 1 .. B, index \in 0 .. n - 1 : r = (b - 1) * n + index + 1
  <2>1. n \in Nat \ {0} /\ B \in Nat
    OBVIOUS
  <2>2. r - 1 \in 0 .. B * n - 1
    BY <2>1
  <2>3. PICK b \in 1 .. B, index \in 0 .. n - 1 : Spot(r - 1, b, index, n)
    <3>1. Within(r - 1, B, n)
      BY <2>2 DEF Within
    <3> QED BY <2>1, <3>1, Uncell
  <2>4. r = (b - 1) * n + index + 1
    BY <2>3 DEF Spot
  <2> QED BY <2>4
<1>12. DOMAIN rows = 1 .. B * n
  BY <1>7
<1>13. Supervises(rows, windows, B, L, n, prefix)
  BY <1>10, <1>11, <1>12 DEF Supervises
<1> QED BY <1>1, <1>5, <1>13

\* Under the condition of a lesson the heads say its target.
Teaches(rows, window, prefix, index) ==
  Learned(rows, <<Visible(window, prefix, index), window[prefix + index]>>) = window[prefix + index + 1]

(***************************************************************************)
(* Consistent heads say what the one lesson under a condition taught.      *)
(***************************************************************************)
LEMMA LearnedIs ==
  ASSUME NEW windows, NEW B \in Nat, NEW L, NEW n \in Nat, NEW prefix \in Nat, NEW rows,
         Supervises(rows, windows, B, L, n, prefix), Consistent(rows),
         NEW b \in 1 .. B, NEW index \in 0 .. n - 1
  PROVE  Teaches(rows, windows[b], prefix, index)
<1>1. PICK r \in DOMAIN rows : rows[r] = Lesson(windows[b], L, prefix, b, index)
  BY DEF Supervises
<1>2. PICK condition : condition = <<Visible(windows[b], prefix, index), windows[b][prefix + index]>>
  OBVIOUS
<1>3. Condition(rows[r]) = condition /\ rows[r].target = windows[b][prefix + index + 1]
  BY <1>1, <1>2 DEF Condition, Lesson
<1> DEFINE known == { rows[x] : x \in { y \in DOMAIN rows : Condition(rows[y]) = condition } }
<1>4. rows[r] \in known
  BY <1>3
<1>5. PICK row : row = CHOOSE x \in known : TRUE
  OBVIOUS
<1>6. row \in known
  BY <1>4, <1>5
<1>7. PICK y \in DOMAIN rows : row = rows[y] /\ Condition(rows[y]) = condition
  BY <1>6
<1>8. rows[y].target = rows[r].target
  BY <1>3, <1>7 DEF Consistent
<1>9. Learned(rows, condition) = row.target
  <2>1. known # {}
    BY <1>4
  <2> QED BY <1>5, <2>1 DEF Learned
<1> QED BY <1>2, <1>3, <1>7, <1>8, <1>9 DEF Teaches

(***************************************************************************)
(* A part of a sequence, entry by entry.                                   *)
(***************************************************************************)
LEMMA PartIs ==
  ASSUME NEW s, NEW low \in Int, NEW size \in Nat
  PROVE  SubSeq(s, low + 1, low + size) = [i \in 1 .. size |-> s[low + i]]
<1> DEFINE S == { s[j] : j \in low + 1 .. low + size }
<1>1. \A j \in low + 1 .. low + size : s[j] \in S
  OBVIOUS
<1>2. PICK part : part = SubSeq(s, low + 1, low + size)
  OBVIOUS
<1> HIDE DEF S
<1>3. low + 1 \in Int /\ low + size \in Int /\ (low + size) - (low + 1) + 1 = size
      /\ (IF low + 1 <= low + size THEN (low + size) - (low + 1) + 1 ELSE 0) = size
  OBVIOUS
<1>4. part \in Seq(S) /\ Len(part) = size /\ \A i \in 1 .. size : part[i] = s[(low + 1) + i - 1]
  BY <1>1, <1>2, <1>3, SubSeqProperties
<1>5. part = [i \in 1 .. size |-> part[i]]
  BY <1>4
<1>6. \A i \in 1 .. size : part[i] = s[low + i]
  <2> TAKE i \in 1 .. size
  <2>1. (low + 1) + i - 1 = low + i
    OBVIOUS
  <2> QED BY <1>4, <2>1
<1> QED BY <1>2, <1>5, <1>6

(***************************************************************************)
(* The first draft is read from the row of the last token known.           *)
(***************************************************************************)
LEMMA FirstBaseIs ==
  ASSUME NEW prefix \in Int, NEW count \in Int, NEW i \in Int
  PROVE  FirstBase(prefix + count - 1, count) + i = prefix + (i - 1)
BY DEF FirstBase

\* The drafts as the loop of Draft fills them in.
Said(rows, prefix, input, count) ==
  LET token[i \in 1 .. count] ==
        Learned(rows, <<SubSeq(input, 1, FirstBase(Len(input), count) + i),
                        IF i = 1 THEN prefix[Len(prefix)] ELSE token[i - 1]>>)
  IN  token

\* A draft of count tokens, of the wanted ones, starts from part.
Ready(context, wanted, count, part) ==
  /\ context # << >> /\ wanted \in Int /\ wanted > 0
  /\ count = Least(wanted, SequenceLen)
  /\ DraftContext(context, count) = part

\* The drafts are the count tokens of the window behind its unmasked part.
Continues(context, wanted, count, rows, window, prefix) ==
  Draft(context, wanted, rows) = SubSeq(window, prefix + 1, prefix + count)

\* The unmasked part of a window, behind low other tokens, is what a draft of count
\* tokens keeps.
Fits(low, prefix, L, count) == Least(low + prefix, Largest(L - (count - 1), 1)) = prefix

(***************************************************************************)
(* The part of a window that is left unmasked fits, with anything before   *)
(* it, a draft of as many tokens as were trained; and alone, one of fewer. *)
(***************************************************************************)
LEMMA FitsAll ==
  ASSUME NEW L \in Int, NEW n \in Int, NEW prefix \in Int, prefix >= 1, prefix + n - 1 = L, NEW low \in Nat
  PROVE  Fits(low, prefix, L, n)
<1>1. L - (n - 1) = prefix
  OBVIOUS
<1>2. Largest(prefix, 1) = prefix
  BY DEF Largest
<1>3. Least(low + prefix, prefix) = prefix
  BY DEF Least
<1> QED BY <1>1, <1>2, <1>3 DEF Fits

LEMMA FitsFewer ==
  ASSUME NEW L \in Int, NEW n \in Int, NEW prefix \in Int, prefix >= 1, prefix + n - 1 = L,
         NEW count \in Int, count <= n
  PROVE  Fits(0, prefix, L, count)
<1>1. PICK room \in Int : room = L - (count - 1)
  OBVIOUS
<1>2. room >= prefix /\ room >= 1
  BY <1>1
<1>3. Largest(room, 1) = room
  BY <1>2 DEF Largest
<1>4. Least(0 + prefix, room) = prefix
  BY <1>2 DEF Least
<1> QED BY <1>1, <1>3, <1>4 DEF Fits

(***************************************************************************)
(* Behind the unmasked part of a window, consistent heads draft the rest.  *)
(***************************************************************************)
LEMMA ChainIs ==
  ASSUME NEW T, NEW windows, NEW B \in Nat \ {0}, NEW L \in Nat \ {0}, Level(windows, T, B, L + 1),
         NEW n \in 1 .. L, NEW prefix \in 1 .. L, prefix + n - 1 = L, NEW rows,
         Supervises(rows, windows, B, L, n, prefix), Consistent(rows),
         NEW b \in 1 .. B, NEW context, NEW wanted, NEW count \in 1 .. n,
         Ready(context, wanted, count, SubSeq(windows[b], 1, prefix))
  PROVE  Continues(context, wanted, count, rows, windows[b], prefix)
<1>1. PICK w \in Seq(T) : w = windows[b] /\ Len(w) = L + 1
  BY DEF Level
<1>2. PICK pre : pre = SubSeq(w, 1, prefix)
  OBVIOUS
<1>3. pre \in Seq(T) /\ Len(pre) = prefix /\ \A i \in 1 .. prefix : pre[i] = w[i]
  BY <1>1, <1>2
<1>4. PICK masks : masks = [i \in 1 .. count - 1 |-> Mask]
  OBVIOUS
<1>5. PICK input : input = pre \o masks
  OBVIOUS
<1>6. Len(input) = prefix + count - 1 /\ \A i \in 1 .. prefix + count - 1 :
        input[i] = IF i <= prefix THEN w[i] ELSE Mask
  <2> DEFINE S == T \cup {Mask}
  <2>1. pre \in Seq(S)
    BY <1>3
  <2>2. masks \in Seq(S) /\ Len(masks) = count - 1
    BY <1>4
  <2> HIDE DEF S
  <2>3. /\ Len(input) = Len(pre) + Len(masks)
        /\ \A i \in 1 .. Len(pre) : input[i] = pre[i]
        /\ \A i \in 1 .. Len(masks) : input[Len(pre) + i] = masks[i]
    <3>1. PICK p \in Seq(S), m \in Seq(S) : p = pre /\ m = masks
      BY <2>1, <2>2
    <3>2. /\ Len(p \o m) = Len(p) + Len(m)
          /\ \A i \in 1 .. Len(p) : (p \o m)[i] = p[i]
          /\ \A i \in 1 .. Len(m) : (p \o m)[Len(p) + i] = m[i]
      BY ConcatProperties
    <3> QED BY <1>5, <3>1, <3>2
  <2>4. ASSUME NEW i \in 1 .. prefix + count - 1 PROVE input[i] = IF i <= prefix THEN w[i] ELSE Mask
    <3>1. CASE i <= prefix
      <4>1. i \in 1 .. prefix
        BY <3>1
      <4> QED BY <1>3, <2>3, <3>1, <4>1
    <3>2. CASE ~(i <= prefix)
      <4>1. PICK j \in 1 .. count - 1 : i = prefix + j
        <5>1. i - prefix \in 1 .. count - 1 /\ i = prefix + (i - prefix)
          BY <3>2
        <5> QED BY <5>1
      <4>2. masks[j] = Mask
        BY <1>4
      <4>3. input[prefix + j] = masks[j]
        BY <1>3, <2>2, <2>3
      <4> QED BY <3>2, <4>1, <4>2, <4>3
    <3> QED BY <3>1, <3>2
  <2>5. Len(input) = prefix + count - 1
    BY <1>3, <2>2, <2>3
  <2> QED BY <2>4, <2>5
<1> DEFINE base(i) == SubSeq(input, 1, FirstBase(Len(input), count) + i)
           Good(t) == t = [i \in 1 .. count |->
                             Learned(rows, <<base(i), IF i = 1 THEN pre[Len(pre)] ELSE t[i - 1]>>)]
           token == Said(rows, pre, input, count)
<1>7. Draft(context, wanted, rows) = [i \in 1 .. count |-> token[i]]
  <2>1. DraftContext(context, count) = pre
    BY <1>1, <1>2 DEF Ready
  <2>2. ~(wanted <= 0 \/ context = << >>) /\ count = Least(wanted, SequenceLen)
    BY DEF Ready
  <2>3. Draft(context, wanted, rows)
          = LET k == Least(wanted, SequenceLen)
                p == DraftContext(context, k)
            IN  [i \in 1 .. k |-> Said(rows, p, p \o [j \in 1 .. k - 1 |-> Mask], k)[i]]
    BY <2>2 DEF Draft, Said
  <2> HIDE DEF token
  <2>4. Draft(context, wanted, rows) = [i \in 1 .. count |-> Said(rows, pre, pre \o masks, count)[i]]
    BY <1>4, <2>1, <2>2, <2>3
  <2> QED BY <1>5, <2>4 DEF token
<1> HIDE DEF token
<1>8. ASSUME NEW i \in 1 .. count PROVE base(i) = Visible(w, prefix, i - 1)
  <2>1. PICK size \in Nat : size = prefix + (i - 1) /\ FirstBase(Len(input), count) + i = size
    <3>1. FirstBase(Len(input), count) + i = prefix + (i - 1)
      <4>1. Len(input) = prefix + count - 1
        BY <1>6
      <4>2. FirstBase(prefix + count - 1, count) + i = prefix + (i - 1)
        <5>1. count \in Int /\ prefix \in Int /\ i \in Int
          OBVIOUS
        <5> QED BY <5>1, FirstBaseIs
      <4> QED BY <4>1, <4>2
    <3>2. prefix + (i - 1) \in Nat
      OBVIOUS
    <3> QED BY <3>1, <3>2
  <2>2. SubSeq(input, 0 + 1, 0 + size) = [j \in 1 .. size |-> input[0 + j]]
    <3>1. 0 \in Int
      OBVIOUS
    <3> QED BY <3>1, PartIs
  <2>3. 0 + 1 = 1 /\ 0 + size = size
    OBVIOUS
  <2>4. \A j \in 1 .. size : input[0 + j] = IF j <= prefix THEN w[j] ELSE Mask
    BY <1>6, <2>1
  <2>5. base(i) = [j \in 1 .. size |-> input[0 + j]]
    BY <2>1, <2>2, <2>3
  <2> QED BY <2>1, <2>4, <2>5 DEF Visible
<1> HIDE DEF base
<1>9. ASSUME NEW i \in 1 .. count PROVE Learned(rows, <<base(i), w[prefix + i - 1]>>) = w[prefix + i]
  <2>1. i - 1 \in 0 .. n - 1
    OBVIOUS
  <2>2. prefix + (i - 1) = prefix + i - 1 /\ prefix + (i - 1) + 1 = prefix + i
    OBVIOUS
  <2>3. Learned(rows, <<Visible(w, prefix, i - 1), w[prefix + (i - 1)]>>) = w[prefix + (i - 1) + 1]
    <3>1. B \in Nat /\ n \in Nat /\ prefix \in Nat
      OBVIOUS
    <3>2. PICK index \in 0 .. n - 1 : index = i - 1
      BY <2>1
    <3>3. Teaches(rows, windows[b], prefix, index)
      BY <3>1, LearnedIs
    <3> QED BY <1>1, <3>2, <3>3 DEF Teaches
  <2> QED BY <1>8, <2>2, <2>3
<1>10. pre[Len(pre)] = w[prefix]
  BY <1>3
<1>11. \E t : Good(t)
  <2>1. PICK t : t = [i \in 1 .. count |-> w[prefix + i]]
    OBVIOUS
  <2>2. ASSUME NEW i \in 1 .. count
        PROVE  Learned(rows, <<base(i), IF i = 1 THEN pre[Len(pre)] ELSE t[i - 1]>>) = t[i]
    <3>1. (IF i = 1 THEN pre[Len(pre)] ELSE t[i - 1]) = w[prefix + i - 1]
      <4>1. CASE i = 1
        <5>1. prefix + i - 1 = prefix
          BY <4>1
        <5> QED BY <1>10, <4>1, <5>1
      <4>2. CASE i # 1
        <5>1. i - 1 \in 1 .. count /\ prefix + (i - 1) = prefix + i - 1
          BY <4>2
        <5> QED BY <2>1, <4>2, <5>1
      <4> QED BY <4>1, <4>2
    <3> QED BY <1>9, <2>1, <3>1
  <2>3. Good(t)
    BY <2>1, <2>2
  <2> QED BY <2>3
<1>12. Good(token)
  BY <1>11 DEF token, Said, base
<1>13. \A i \in 1 .. count : token[i] = w[prefix + i]
  <2> DEFINE N == { i \in Nat : i + 1 \in 1 .. count => token[i + 1] = w[prefix + i + 1] }
  <2>1. ASSUME NEW i \in 1 .. count
        PROVE  token[i] = Learned(rows, <<base(i), IF i = 1 THEN pre[Len(pre)] ELSE token[i - 1]>>)
    BY <1>12
  <2>2. 0 \in N
    <3>1. 1 \in 1 .. count
      OBVIOUS
    <3>2. token[1] = Learned(rows, <<base(1), w[prefix]>>)
      BY <1>10, <2>1, <3>1
    <3>3. prefix + 1 - 1 = prefix /\ 0 + 1 = 1 /\ prefix + 0 + 1 = prefix + 1
      OBVIOUS
    <3> QED BY <1>9, <3>1, <3>2, <3>3
  <2>3. ASSUME NEW i \in Nat, i \in N PROVE i + 1 \in N
    <3>1. SUFFICES ASSUME i + 2 \in 1 .. count PROVE token[i + 2] = w[prefix + i + 2]
      OBVIOUS
    <3>2. token[i + 1] = w[prefix + i + 1]
      <4>1. i + 1 \in 1 .. count
        BY <3>1
      <4> QED BY <2>3, <4>1
    <3>3. /\ (i + 2) - 1 = i + 1 /\ i + 2 # 1
          /\ prefix + (i + 2) - 1 = prefix + i + 1 /\ prefix + (i + 2) = prefix + i + 2
      OBVIOUS
    <3>4. token[i + 2] = Learned(rows, <<base(i + 2), token[i + 1]>>)
      BY <2>1, <3>1, <3>3
    <3>5. Learned(rows, <<base(i + 2), w[prefix + i + 1]>>) = w[prefix + i + 2]
      BY <1>9, <3>1, <3>3
    <3> QED BY <3>2, <3>4, <3>5
  <2>4. \A i \in Nat : i \in N
    <3> HIDE DEF N
    <3> QED BY <2>2, <2>3, SetInduction
  <2> TAKE i \in 1 .. count
  <2>5. i - 1 \in N /\ (i - 1) + 1 = i /\ prefix + (i - 1) + 1 = prefix + i
    <3>1. i - 1 \in Nat
      OBVIOUS
    <3> HIDE DEF N
    <3> QED BY <2>4, <3>1
  <2> QED BY <2>5
<1>14. SubSeq(w, prefix + 1, prefix + count) = [i \in 1 .. count |-> w[prefix + i]]
  BY PartIs
<1> QED BY <1>1, <1>7, <1>13, <1>14 DEF Continues

\* Whatever came before it, the context ends with the part that is kept.
Keeps(before, part, count) == DraftContext(before \o part, count) = part

(***************************************************************************)
(* What a draft of count tokens keeps of its context.                      *)
(***************************************************************************)
LEMMA ContextIs ==
  ASSUME NEW T, NEW before \in Seq(T), NEW part \in Seq(T), NEW count \in Int,
         Len(part) = Least(Len(before) + Len(part), Largest(SequenceLen - (count - 1), 1))
  PROVE  Keeps(before, part, count)
<1>1. PICK whole : whole = before \o part
  OBVIOUS
<1>2. PICK low \in Nat, size \in Nat : low = Len(before) /\ size = Len(part)
  OBVIOUS
<1>3. /\ Len(whole) = low + size
      /\ \A i \in 1 .. size : whole[low + i] = part[i]
  <2>1. /\ Len(before \o part) = Len(before) + Len(part)
        /\ \A i \in 1 .. Len(part) : (before \o part)[Len(before) + i] = part[i]
    BY ConcatProperties
  <2> QED BY <1>1, <1>2, <2>1
<1>4. DraftContext(whole, count) = SubSeq(whole, low + 1, low + size)
  <2>1. Least(Len(whole), Largest(SequenceLen - (count - 1), 1)) = size
    BY <1>2, <1>3
  <2>2. Len(whole) - size + 1 = low + 1
    BY <1>3
  <2> QED BY <1>3, <2>1, <2>2 DEF DraftContext
<1>5. SubSeq(whole, low + 1, low + size) = [i \in 1 .. size |-> whole[low + i]]
  BY PartIs
<1>6. part = [i \in 1 .. size |-> part[i]]
  BY <1>2
<1> QED BY <1>1, <1>3, <1>4, <1>5, <1>6 DEF Keeps

(***************************************************************************)
(* One token is drafted by the trunk alone from the same window.           *)
(***************************************************************************)
LEMMA DraftTokensIs ==
  ASSUME SequenceLen \in Nat \ {0}, NEW T, NEW context \in Seq(T), context # << >>
  PROVE  DraftTokens(context, 1) = <<DraftContext(context, 1)>>
<1>1. PICK keep \in Nat : keep = Least(Len(context), SequenceLen) /\ keep <= Len(context)
  BY DEF Least
<1>2. PICK window : window = SubSeq(context, Len(context) - keep + 1, Len(context))
  OBVIOUS
<1>3. DraftContext(context, 1) = window
  <2>1. Largest(SequenceLen - (1 - 1), 1) = SequenceLen
    BY DEF Largest
  <2> QED BY <1>1, <1>2, <2>1 DEF DraftContext
<1>4. window \in Seq(T) /\ Len(window) = keep
  <2>1. PICK low \in Nat : Len(context) = low + keep /\ Len(context) - keep + 1 = low + 1
    <3>1. Len(context) - keep \in Nat /\ Len(context) = (Len(context) - keep) + keep
      BY <1>1
    <3> QED BY <3>1
  <2>2. SubSeq(context, low + 1, low + keep) = [i \in 1 .. keep |-> context[low + i]]
    BY PartIs
  <2>3. window = [i \in 1 .. keep |-> context[low + i]]
    BY <1>2, <2>1, <2>2
  <2>4. \A i \in 1 .. keep : context[low + i] \in T
    BY <2>1
  <2> QED BY <2>3, <2>4
<1> DEFINE Good(t) == t = [i \in 0 .. 1 |-> IF i = 0 THEN window ELSE Append(t[i - 1], t[i - 1])]
           said == CHOOSE t : Good(t)
<1>5. DraftTokens(context, 1) = SubSeq(said[1], keep + 1, keep + 1)
  <2>1. ~(1 <= 0 \/ context = << >>)
    OBVIOUS
  <2> QED BY <1>1, <1>2, <2>1 DEF DraftTokens
<1>6. Good(said)
  <2>1. PICK t : t = [i \in 0 .. 1 |-> IF i = 0 THEN window ELSE Append(window, window)]
    OBVIOUS
  <2>2. t[0] = window
    BY <2>1
  <2>3. Good(t)
    BY <2>1, <2>2
  <2> QED BY <2>3
<1> HIDE DEF said
<1>7. said[1] = Append(window, window)
  <2>1. 0 \in 0 .. 1 /\ 1 \in 0 .. 1 /\ 1 - 1 = 0
    OBVIOUS
  <2>2. said[0] = window
    BY <1>6, <2>1
  <2> QED BY <1>6, <2>1, <2>2
<1>8. Append(window, window)[keep + 1] = window
  <2> DEFINE S == T \cup {window}
  <2>1. window \in Seq(S) /\ window \in S
    BY <1>4
  <2> HIDE DEF S
  <2>2. Append(window, window)[Len(window) + 1] = window
    BY <2>1, AppendProperties
  <2> QED BY <1>4, <2>2
<1>9. SubSeq(said[1], keep + 1, keep + 1) = [i \in 1 .. 1 |-> said[1][keep + i]]
  <2>1. 1 \in Nat
    OBVIOUS
  <2> QED BY <2>1, PartIs
<1>10. [i \in 1 .. 1 |-> said[1][keep + i]] = <<window>>
  <2>1. ASSUME NEW i \in 1 .. 1 PROVE said[1][keep + i] = window
    <3>1. i = 1
      OBVIOUS
    <3>2. said[1][keep + 1] = window
      BY <1>7, <1>8
    <3> QED BY <3>1, <3>2
  <2>2. [i \in 1 .. 1 |-> said[1][keep + i]] = [i \in 1 .. 1 |-> window]
    BY <2>1
  <2>3. [i \in 1 .. 1 |-> window] = <<window>>
    OBVIOUS
  <2> QED BY <2>2, <2>3
<1> QED BY <1>3, <1>5, <1>9, <1>10

\* The gradient of the row at entry j of the flat arrays.
Graded(grads, rows, targets, L, prefix, j) ==
  IF j % L >= prefix - 1 /\ At(targets, j) # Ignored
    THEN rows[grads[j]].target = At(targets, j)
    ELSE grads[j] = 0

(***************************************************************************)
(* Every drafted position has the gradient of its own target, and no other *)
(* has one.                                                                *)
(***************************************************************************)
LEMMA GradsAre ==
  ASSUME NEW windows, NEW B \in Nat, NEW L \in Nat \ {0}, NEW n \in 1 .. L, NEW prefix \in 1 .. L,
         prefix + n - 1 = L, NEW ins, NEW outs, Shifted(ins, outs, windows, B, L), NEW rows,
         Supervises(rows, windows, B, L, n, prefix), NEW size, size = B * L,
         NEW j, Within(j, B, L)
  PROVE  Graded(GradLogits(rows, size), rows, outs, L, prefix, j)
<1>1. PICK b \in 1 .. B, r \in 0 .. L - 1 : Spot(j, b, r, L)
  BY Uncell
<1>2. j = (b - 1) * L + r /\ j % L = r /\ j \div L = b - 1
  BY <1>1 DEF Spot
<1>3. At(outs, j) = windows[b][r + 2]
  <2>1. r + 1 \in 1 .. L /\ (r + 1) + 1 = r + 2
    OBVIOUS
  <2>2. outs[(b - 1) * L + (r + 1)] = windows[b][(r + 1) + 1]
    BY <2>1 DEF Shifted
  <2>3. PICK start \in Nat : start = (b - 1) * L
    OBVIOUS
  <2>4. j + 1 = start + (r + 1)
    BY <1>2, <2>3
  <2> QED BY <2>1, <2>2, <2>3, <2>4 DEF At
<1> DEFINE from == { s \in DOMAIN rows : rows[s].source = j /\ rows[s].target # Ignored }
<1>4. ASSUME NEW s \in DOMAIN rows, rows[s].source = j
      PROVE  r >= prefix - 1 /\ rows[s].target = At(outs, j)
  <2>1. PICK c \in 1 .. B, index \in 0 .. n - 1 : s = (c - 1) * n + index + 1
    BY DEF Supervises
  <2>2. rows[s] = Lesson(windows[c], L, prefix, c, index)
    BY <2>1 DEF Supervises
  <2>3. rows[s].source = (c - 1) * L + prefix - 1 + index /\ rows[s].target = windows[c][prefix + index + 1]
    BY <2>2 DEF Lesson
  <2>4. PICK place \in 0 .. L - 1 : place = prefix - 1 + index
    <3>1. prefix - 1 + index \in 0 .. L - 1
      OBVIOUS
    <3> QED BY <3>1
  <2>5. j = (c - 1) * L + place
    <3>1. PICK start \in Nat : start = (c - 1) * L
      OBVIOUS
    <3> QED BY <1>4, <2>3, <2>4, <3>1
  <2>6. j \div L = c - 1 /\ j % L = place
    <3>1. c - 1 \in Nat
      OBVIOUS
    <3>2. ((c - 1) * L + place) \div L = c - 1 /\ ((c - 1) * L + place) % L = place
      BY <3>1, Cell
    <3> QED BY <2>5, <3>2
  <2>7. c = b /\ place = r
    BY <1>2, <2>6
  <2>8. prefix + index + 1 = r + 2 /\ r >= prefix - 1
    BY <2>4, <2>7
  <2> QED BY <1>3, <2>3, <2>7, <2>8
<1>5. ASSUME r >= prefix - 1
      PROVE  \E s \in DOMAIN rows : rows[s].source = j
  <2>1. PICK index \in 0 .. n - 1 : prefix - 1 + index = r
    <3>1. r - (prefix - 1) \in 0 .. n - 1 /\ prefix - 1 + (r - (prefix - 1)) = r
      BY <1>5
    <3> QED BY <3>1
  <2>2. PICK s : s = (b - 1) * n + index + 1
    OBVIOUS
  <2>3. s \in DOMAIN rows /\ rows[s] = Lesson(windows[b], L, prefix, b, index)
    BY <2>2 DEF Supervises
  <2>4. rows[s].source = (b - 1) * L + prefix - 1 + index
    BY <2>3 DEF Lesson
  <2>5. PICK start \in Nat : start = (b - 1) * L
    OBVIOUS
  <2>6. rows[s].source = j
    <3>1. rows[s].source = start + prefix - 1 + index
      BY <2>4, <2>5
    <3>2. j = start + r
      BY <1>2, <2>5
    <3> QED BY <2>1, <3>1, <3>2
  <2> QED BY <2>3, <2>6
<1>6. PICK grads : grads = GradLogits(rows, size)
  OBVIOUS
<1>7. grads[j] = IF from = {} THEN 0 ELSE CHOOSE s \in from : TRUE
  <2>1. j \in 0 .. size - 1
    BY DEF Within
  <2> QED BY <1>6, <2>1 DEF GradLogits
<1>8. CASE r >= prefix - 1 /\ At(outs, j) # Ignored
  <2>1. PICK s \in DOMAIN rows : rows[s].source = j
    BY <1>5, <1>8
  <2>2. s \in from
    BY <1>4, <1>8, <2>1
  <2>3. grads[j] \in from
    BY <1>7, <2>2
  <2>4. rows[grads[j]].target = At(outs, j)
    BY <1>4, <2>3
  <2> QED BY <1>2, <1>6, <1>8, <2>4 DEF Graded
<1>9. CASE ~(r >= prefix - 1 /\ At(outs, j) # Ignored)
  <2>1. from = {}
    BY <1>4, <1>9
  <2>2. grads[j] = 0
    BY <1>7, <2>1
  <2> QED BY <1>2, <1>6, <1>9, <2>2 DEF Graded
<1> QED BY <1>8, <1>9

\* DraftsAsTrained, of the windows' targets, length, rows and gradients.
Agreed(windows, before, count, targets, length, n, prefix, rows, grads) ==
  /\ length = SequenceLen /\ Consistent(rows) =>
       \A b \in { d \in DOMAIN windows : Ignored \notin Range(windows[d]) } :
         LET context == SubSeq(windows[b], 1, prefix)
         IN  /\ Draft(before \o context, Largest(count, 1), rows) = SubSeq(windows[b], prefix + 1, prefix + n)
             /\ \A wanted \in 0 .. n :
                  Draft(context, wanted, rows) = SubSeq(windows[b], prefix + 1, prefix + wanted)
             /\ DraftTokens(before \o context, 1) = <<DraftContext(before \o context, 1)>>
  /\ \A j \in DOMAIN grads :
       IF j % length >= prefix - 1 /\ At(Flat(targets), j) # Ignored
         THEN rows[grads[j]].target = At(Flat(targets), j)
         ELSE grads[j] = 0

(***************************************************************************)
(* A drafter that learned the rows it was trained on drafts what follows a *)
(* training window, for any windows, number of drafts and context before   *)
(* the window (DSpark.TrainStep, DSpark.TrainHeadsStep, DSpark.Draft); and *)
(* every position is trained by its own target only.                       *)
(***************************************************************************)
THEOREM DraftingAgrees ==
  ASSUME SequenceLen \in Nat \ {0},
         NEW Token, NEW windows \in Seq(Seq(Token)), windows # << >>,
         NEW length \in Nat \ {0}, \A b \in DOMAIN windows : Len(windows[b]) = length + 1,
         NEW count \in Int, NEW before \in Seq(Token)
  PROVE  DraftsAsTrained(windows, count, before)
<1>1. PICK B \in Nat \ {0} : B = Len(windows) /\ DOMAIN windows = 1 .. B
  OBVIOUS
<1>2. Level(windows, Token, B, length + 1)
  BY <1>1 DEF Level
<1>3. PICK n \in 1 .. length, prefix \in 1 .. length :
        /\ n = DraftPositions(count, length) /\ prefix = PrefixLength(count, length)
        /\ prefix + n - 1 = length /\ n = Least(Largest(count, 1), length)
  BY Positions
<1>4. PICK inputs : inputs = InputsOf(windows)
  OBVIOUS
<1>5. PICK targets : targets = TargetsOf(windows)
  OBVIOUS
<1>6. PICK rows : rows = Supervised(inputs, targets, count)
  OBVIOUS
<1>7. Len(inputs[1]) = length
  <2>1. Level(inputs, Token, B, length)
    BY <1>2, <1>4, WindowsAre
  <2> QED BY <2>1 DEF Level
<1>8. Supervises(rows, windows, B, length, n, prefix)
  BY <1>2, <1>3, <1>4, <1>5, <1>6, SupervisedIs
<1>9. Shifted(Flat(inputs), Flat(targets), windows, B, length)
  BY <1>2, <1>4, <1>5, WindowsAre
<1>10. PICK size \in Nat : size = B * length
  OBVIOUS
<1>11. ASSUME length = SequenceLen, Consistent(rows), NEW b \in 1 .. B
       PROVE  LET context == SubSeq(windows[b], 1, prefix)
              IN  /\ Draft(before \o context, Largest(count, 1), rows) = SubSeq(windows[b], prefix + 1, prefix + n)
                  /\ \A wanted \in 0 .. n :
                       Draft(context, wanted, rows) = SubSeq(windows[b], prefix + 1, prefix + wanted)
                  /\ DraftTokens(before \o context, 1) = <<DraftContext(before \o context, 1)>>
  <2>1. PICK w \in Seq(Token) : w = windows[b] /\ Len(w) = length + 1
    BY <1>2 DEF Level
  <2>2. PICK context \in Seq(Token) : context = SubSeq(windows[b], 1, prefix) /\ Len(context) = prefix
    <3>1. prefix \in 1 .. Len(w)
      BY <2>1
    <3>2. SubSeq(w, 1, prefix) \in Seq(Token) /\ Len(SubSeq(w, 1, prefix)) = prefix
      BY <3>1
    <3> QED BY <2>1, <3>2
  <2>3. PICK whole \in Seq(Token) : whole = before \o context /\ whole # << >>
    <3>1. before \o context \in Seq(Token) /\ Len(before \o context) = Len(before) + Len(context)
      BY ConcatProperties
    <3>2. Len(before) \in Nat /\ Len(context) >= 1
      BY <2>2
    <3>3. before \o context # << >>
      BY <3>1, <3>2
    <3> QED BY <3>1, <3>3
  <2>4. Continues(whole, Largest(count, 1), n, rows, windows[b], prefix)
    <3>1. PICK all \in Int : all = Largest(count, 1) /\ all > 0
      BY DEF Largest
    <3>2. Len(context) = Least(Len(before) + Len(context), Largest(SequenceLen - (n - 1), 1))
      <4>1. PICK low \in Nat : low = Len(before)
        OBVIOUS
      <4>2. Fits(low, prefix, length, n)
        <5>1. length \in Int /\ n \in Int /\ prefix \in Int /\ prefix >= 1 /\ prefix + n - 1 = length
          BY <1>3
        <5> QED BY <5>1, FitsAll
      <4> QED BY <1>11, <2>2, <4>1, <4>2 DEF Fits
    <3>3. Keeps(before, context, n)
      BY <3>2, ContextIs
    <3>4. DraftContext(whole, n) = SubSeq(windows[b], 1, prefix)
      BY <2>2, <2>3, <3>3 DEF Keeps
    <3>5. Ready(whole, all, n, SubSeq(windows[b], 1, prefix))
      BY <1>3, <1>11, <2>3, <3>1, <3>4 DEF Ready
    <3>6. n \in 1 .. n
      OBVIOUS
    <3>7. Continues(whole, all, n, rows, windows[b], prefix)
      BY <1>2, <1>3, <1>8, <1>11, <3>5, <3>6, ChainIs
    <3> QED BY <3>1, <3>7
  <2>5. ASSUME NEW wanted \in 0 .. n
        PROVE  Continues(context, wanted, wanted, rows, windows[b], prefix)
    <3>1. CASE wanted = 0
      <4>1. Draft(context, wanted, rows) = << >>
        BY <3>1 DEF Draft
      <4>2. prefix + 1 \in Int /\ prefix + wanted \in Int /\ prefix + wanted < prefix + 1
        BY <3>1
      <4>3. SubSeq(windows[b], prefix + 1, prefix + wanted) = << >>
        BY <4>2, SubSeqEmpty
      <4> QED BY <4>1, <4>3 DEF Continues
    <3>2. CASE wanted # 0
      <4>1. PICK fewer \in 1 .. n : fewer = wanted
        BY <3>2
      <4>2. Fits(0, prefix, length, fewer) /\ Least(fewer, length) = fewer
        <5>1. Fits(0, prefix, length, fewer)
          BY <1>3, FitsFewer
        <5>2. fewer <= length
          OBVIOUS
        <5> QED BY <5>1, <5>2 DEF Least
      <4>3. Len(<< >>) = 0 /\ << >> \in Seq(Token) /\ << >> \o context = context
        OBVIOUS
      <4>4. Len(context) = Least(Len(<< >>) + Len(context), Largest(SequenceLen - (fewer - 1), 1))
        BY <1>11, <2>2, <4>2, <4>3 DEF Fits
      <4>5. Keeps(<< >>, context, fewer)
        <5>1. PICK none \in Seq(Token) : none = << >>
          BY <4>3
        <5>2. Len(context) = Least(Len(none) + Len(context), Largest(SequenceLen - (fewer - 1), 1))
          BY <4>4, <5>1
        <5>3. fewer \in Int
          OBVIOUS
        <5>4. Keeps(none, context, fewer)
          BY <5>2, <5>3, ContextIs
        <5> QED BY <5>1, <5>4
      <4>6. DraftContext(context, fewer) = SubSeq(windows[b], 1, prefix)
        BY <2>2, <4>3, <4>5 DEF Keeps
      <4>7. context # << >>
        <5>1. Len(context) >= 1
          BY <2>2
        <5> QED BY <5>1
      <4>8. fewer \in Int /\ fewer > 0
        OBVIOUS
      <4>9. Ready(context, fewer, fewer, SubSeq(windows[b], 1, prefix))
        BY <1>11, <4>2, <4>6, <4>7, <4>8 DEF Ready
      <4>10. Continues(context, fewer, fewer, rows, windows[b], prefix)
        BY <1>2, <1>3, <1>8, <1>11, <4>9, ChainIs
      <4> QED BY <4>1, <4>10
    <3> QED BY <3>1, <3>2
  <2>6. DraftTokens(whole, 1) = <<DraftContext(whole, 1)>>
    BY <2>3, DraftTokensIs
  <2> QED BY <2>2, <2>3, <2>4, <2>5, <2>6 DEF Continues
<1>12. PICK grads : grads = GradLogits(rows, size)
  OBVIOUS
<1>13. ASSUME NEW j \in DOMAIN grads
       PROVE  IF j % length >= prefix - 1 /\ At(Flat(targets), j) # Ignored
                THEN rows[grads[j]].target = At(Flat(targets), j)
                ELSE grads[j] = 0
  <2>1. Within(j, B, length)
    BY <1>10, <1>12 DEF GradLogits, Within
  <2>2. Graded(grads, rows, Flat(targets), length, prefix, j)
    BY <1>3, <1>8, <1>9, <1>10, <1>12, <2>1, GradsAre
  <2> QED BY <2>2 DEF Graded
<1>14. GradLogits(Supervised(InputsOf(windows), TargetsOf(windows), count), Len(windows) * length) = grads
  BY <1>1, <1>4, <1>5, <1>6, <1>10, <1>12
<1>15. \A b \in { d \in DOMAIN windows : Ignored \notin Range(windows[d]) } : b \in 1 .. B
  BY <1>1
<1>16. ASSUME length = SequenceLen, Consistent(rows),
              NEW b \in { d \in DOMAIN windows : Ignored \notin Range(windows[d]) }
       PROVE  LET context == SubSeq(windows[b], 1, prefix)
              IN  /\ Draft(before \o context, Largest(count, 1), rows) = SubSeq(windows[b], prefix + 1, prefix + n)
                  /\ \A wanted \in 0 .. n :
                       Draft(context, wanted, rows) = SubSeq(windows[b], prefix + 1, prefix + wanted)
                  /\ DraftTokens(before \o context, 1) = <<DraftContext(before \o context, 1)>>
  <2>1. b \in 1 .. B
    BY <1>15
  <2> QED BY <1>11, <1>16, <2>1
<1>17. Agreed(windows, before, count, targets, length, n, prefix, rows, grads)
  BY <1>13, <1>16 DEF Agreed
<1>18. DraftsAsTrained(windows, count, before)
         = LET first == Len(InputsOf(windows)[1])
               own   == Supervised(InputsOf(windows), TargetsOf(windows), count)
           IN  Agreed(windows, before, count, TargetsOf(windows), first, DraftPositions(count, first),
                      PrefixLength(count, first), own, GradLogits(own, Len(windows) * first))
  BY DEF DraftsAsTrained, Agreed
<1> QED
  <2>1. Len(InputsOf(windows)[1]) = length
    BY <1>4, <1>7
  <2>2. DraftPositions(count, length) = n /\ PrefixLength(count, length) = prefix
    BY <1>3
  <2> QED BY <1>4, <1>5, <1>6, <1>14, <1>17, <1>18, <2>1, <2>2

=============================================================================
