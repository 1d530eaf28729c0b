----------------------------- MODULE Calculator -----------------------------
(***************************************************************************)
(* The calculator tool (inference/tooluse.go): its recursive-descent         *)
(* evaluator of arithmetic, and its counting of substrings.                 *)
(*                                                                         *)
(* An expression is a sequence of characters.  Values are exact, pairs       *)
(* <<numerator, positive denominator>>, where the code computes in float64.  *)
(***************************************************************************)
EXTENDS Integers, Sequences, SequencesExt, FiniteSets, FiniteSetsExt, TLC

Digits == {"0", "1", "2", "3", "4", "5", "6", "7", "8", "9"}

DigitValue(c) == CHOOSE n \in 0..9 : ToString(n) = c

-----------------------------------------------------------------------------
(* Values.                                                                 *)

Plus(x, y) == <<x[1] * y[2] + y[1] * x[2], x[2] * y[2]>>
Negated(x) == <<0 - x[1], x[2]>>
Times(x, y) == <<x[1] * y[1], x[2] * y[2]>>
Over(x, y) == IF y[1] > 0 THEN <<x[1] * y[2], x[2] * y[1]>> ELSE <<0 - x[1] * y[2], 0 - x[2] * y[1]>>
SameValue(x, y) == x[1] * y[2] = y[1] * x[2]

-----------------------------------------------------------------------------
(* The parser: every method returns what it read, the position after it, and *)
(* whether it understood.                                                  *)

Read(value, at) == [ok |-> TRUE, value |-> value, at |-> at]
Fail == [ok |-> FALSE, value |-> <<0, 1>>, at |-> 0]

\* The first position from p on that holds no character of the set.
After(s, p, chars) ==
  Min({q \in p..(Len(s) + 1) : q = Len(s) + 1 \/ (q <= Len(s) /\ s[q] \notin chars)})

SkipSpace(s, p) == After(s, p, {" "})

At(s, p, c) == p <= Len(s) /\ s[p] = c

NumeralValue(whole, fraction) ==
  LET digits == whole \o fraction
      n == FoldLeft(LAMBDA v, c : 10 * v + DigitValue(c), 0, digits)
  IN  <<n, 10^Len(fraction)>>

Number(s, p) ==
  LET wholeEnd == After(s, p, Digits)
      dotted == At(s, wholeEnd, ".")
      end == IF dotted THEN After(s, wholeEnd + 1, Digits) ELSE wholeEnd
      whole == SubSeq(s, p, wholeEnd - 1)
      fraction == IF dotted THEN SubSeq(s, wholeEnd + 1, end - 1) ELSE << >>
  IN  IF whole \o fraction = << >> THEN Fail ELSE Read(NumeralValue(whole, fraction), end)

\* Read on after what was understood.
AndThen(read, Op(_)) == IF read.ok THEN Op(read) ELSE Fail

RECURSIVE Expr(_, _), MoreTerms(_, _, _), Term(_, _), MoreFactors(_, _, _), Factor(_, _)

Expr(s, p) == AndThen(Term(s, p), LAMBDA first : MoreTerms(s, first.value, first.at))

MoreTerms(s, value, p) ==
  LET at == SkipSpace(s, p)
  IN  IF ~At(s, at, "+") /\ ~At(s, at, "-") THEN Read(value, at)
      ELSE AndThen(Term(s, at + 1), LAMBDA right :
             MoreTerms(s, Plus(value, IF s[at] = "+" THEN right.value ELSE Negated(right.value)), right.at))

Term(s, p) == AndThen(Factor(s, p), LAMBDA first : MoreFactors(s, first.value, first.at))

\* Division by zero is not understood.
Product(op, value, right) ==
  CASE op = "*" -> Read(Times(value, right.value), right.at)
    [] op = "/" /\ right.value[1] # 0 -> Read(Over(value, right.value), right.at)
    [] OTHER -> Fail

RightAssociativeBug(s, value, p) ==
  LET at == SkipSpace(s, p)
  IN  IF ~At(s, at, "*") /\ ~At(s, at, "/") THEN Read(value, at)
      ELSE AndThen(Term(s, at + 1), LAMBDA right : Product(s[at], value, right))

MoreFactors(s, value, p) ==
  LET at == SkipSpace(s, p)
  IN  IF ~At(s, at, "*") /\ ~At(s, at, "/") THEN Read(value, at)
      ELSE AndThen(Factor(s, at + 1), LAMBDA right :
             AndThen(Product(s[at], value, right), LAMBDA product : MoreFactors(s, product.value, product.at)))

Factor(s, p) ==
  LET at == SkipSpace(s, p)
      closed(inner, close) == IF At(s, close, ")") THEN Read(inner.value, close + 1) ELSE Fail
  IN  CASE At(s, at, "-") ->
             AndThen(Factor(s, at + 1), LAMBDA x : Read(Negated(x.value), x.at))
        [] At(s, at, "(") ->
             AndThen(Expr(s, at + 1), LAMBDA inner : closed(inner, SkipSpace(s, inner.at)))
        [] OTHER -> IF at <= Len(s) THEN Number(s, at) ELSE Fail

\* parse: all of the source must have been read.
EvalArithmetic(s) ==
  AndThen(Expr(s, 1), LAMBDA read : IF SkipSpace(s, read.at) = Len(s) + 1 THEN read ELSE Fail)

-----------------------------------------------------------------------------
(* "literal".count("sub"), occurrences that do not overlap.                 *)

RECURSIVE CountFrom(_, _, _)
CountFrom(s, sub, p) ==
  LET matches == {q \in p..(Len(s) - Len(sub) + 1) : SubSeq(s, q, q + Len(sub) - 1) = sub}
  IN  IF matches = {} THEN 0 ELSE 1 + CountFrom(s, sub, Min(matches) + Len(sub))

\* The empty text is found before every character and at the end.
EvalCount(literal, sub) == IF sub = << >> THEN Len(literal) + 1 ELSE CountFrom(literal, sub, 1)

-----------------------------------------------------------------------------
(* Calculator.Call.                                                        *)

ArithmeticCharacters == Digits \cup {"*", "+", "-", "/", ".", "(", ")", " "}

IsArithmetic(s) == s # << >> /\ ToSet(s) \subseteq ArithmeticCharacters

HasPower(s) == \E i \in 1..(Len(s) - 1) : s[i] = "*" /\ s[i + 1] = "*"

\* Thousands separators are dropped before anything is looked at.
CallArithmetic(source) ==
  LET s == SelectSeq(source, LAMBDA c : c # ",")
  IN  IF IsArithmetic(s) /\ ~HasPower(s) THEN EvalArithmetic(s) ELSE Fail

-----------------------------------------------------------------------------
(* Expressions as trees, how they are written, and what they mean.          *)

Leaf(text, value) == [kind |-> "number", text |-> text, value |-> value]
Neg(x) == [kind |-> "-", args |-> <<x>>]
Binary(op, x, y) == [kind |-> op, args |-> <<x, y>>]

Priority(t) ==
  CASE t.kind = "number" -> 3
    [] t.kind = "-" /\ Len(t.args) = 1 -> 3
    [] t.kind \in {"*", "/"} -> 2
    [] OTHER -> 1

RECURSIVE Written(_)
\* Only the parentheses that precedence and left association need.
Written(t) ==
  LET within(x, level) ==
        IF Priority(x) >= level THEN Written(x) ELSE <<"(">> \o Written(x) \o <<")">>
  IN  CASE t.kind = "number" -> t.text
        [] t.kind = "-" /\ Len(t.args) = 1 -> <<"-">> \o within(t.args[1], 3)
        [] t.kind \in {"*", "/"} ->
             within(t.args[1], 2) \o <<t.kind>> \o within(t.args[2], 3)
        [] OTHER -> within(t.args[1], 1) \o <<" ", t.kind, " ">> \o within(t.args[2], 2)

RECURSIVE Meaning(_)
Meaning(t) ==
  LET x == Meaning(t.args[1])
      y == Meaning(t.args[2])
  IN  CASE t.kind = "number" -> Read(t.value, 0)
        [] t.kind = "-" /\ Len(t.args) = 1 -> IF x.ok THEN Read(Negated(x.value), 0) ELSE Fail
        [] t.kind = "/" -> IF x.ok /\ y.ok /\ y.value[1] # 0 THEN Read(Over(x.value, y.value), 0) ELSE Fail
        [] t.kind = "*" -> IF x.ok /\ y.ok THEN Read(Times(x.value, y.value), 0) ELSE Fail
        [] t.kind = "+" -> IF x.ok /\ y.ok THEN Read(Plus(x.value, y.value), 0) ELSE Fail
        [] OTHER -> IF x.ok /\ y.ok THEN Read(Plus(x.value, Negated(y.value)), 0) ELSE Fail

\* CalculatorEvaluates: the recursive descent gives every expression the value that
\* precedence, left association and exact arithmetic give it, thousands
\* separators or not, and refuses exactly those that divide by zero.
CalculatorEvaluates(t) ==
  LET agree(called, meant) ==
        called.ok = meant.ok /\ (called.ok => SameValue(called.value, meant.value))
  IN  \A text \in {Written(t), <<",">> \o Written(t)} : agree(CallArithmetic(text), Meaning(t))

\* CountsDisjoint: count finds as many occurrences as can be placed in the text
\* without overlapping, as Python's count does.
CountsDisjoint(literal, sub) ==
  LET starts == {q \in 1..(Len(literal) - Len(sub) + 1) : SubSeq(literal, q, q + Len(sub) - 1) = sub}
      disjoint == {S \in SUBSET starts : \A p, q \in S : p < q => p + Len(sub) <= q}
  IN  sub # << >> => EvalCount(literal, sub) = Max({Cardinality(S) : S \in disjoint})
=============================================================================
