------------------------------ MODULE BytePairs ------------------------------
(***************************************************************************)
(* The byte-level BPE tokenizer (package tokenizer): the scanner that       *)
(* splits a text into pieces (splitter.go), the trainer with its counts,     *)
(* inverted index and lazy heap (bpe.go), and the encoder and decoder that   *)
(* work from the ranks alone (tokenizer.go).                               *)
(*                                                                         *)
(* A character is known by the class the scanner tells apart and is one     *)
(* byte, as in ASCII text: characters of several bytes, and the U+FFFD that   *)
(* []rune(text) puts in the place of invalid bytes (splitter.go:11), are not   *)
(* modelled.  Symbols are token ids counted from 0; the first NumBytes of     *)
(* them are the single bytes (256 in the code).                             *)
(***************************************************************************)
EXTENDS Integers, Sequences, SequencesExt, FiniteSets, FiniteSetsExt

CONSTANTS
  NumBytes,   \* single-byte tokens
  CharOf,     \* the character of each byte, 0 .. NumBytes - 1
  Specials    \* SpecialTokens, in order

-----------------------------------------------------------------------------
(* splitter.go.  Characters are "a" (any letter), "s" (one that makes a     *)
(* contraction, like d, m and t), "l" (one that makes it doubled, like ve   *)
(* and re), "1", "'", ".", " ", "t" (another white space) and "n" (a line    *)
(* break).                                                                 *)

IsLetter(c) == c \in {"a", "s", "l"}
IsNumber(c) == c = "1"
IsSpace(c) == c \in {" ", "t", "n"}
IsNewline(c) == c = "n"
IsSymbol(c) == ~IsSpace(c) /\ ~IsLetter(c) /\ ~IsNumber(c)

\* The end of the longest run of characters from i on that satisfy a class.
RunEnd(text, i, class(_)) ==
  Min({ j \in i .. Len(text) + 1 : j = Len(text) + 1 \/ ~class(text[j]) })

\* The matchers return the first position behind the match, i itself for none.
MatchContraction(text, i) ==
  CASE text[i] # "'" -> i
    [] i + 2 <= Len(text) /\ text[i + 1] = "l" /\ text[i + 2] = "l" -> i + 3
    [] i + 1 <= Len(text) /\ text[i + 1] = "s" -> i + 2
    [] OTHER -> i

MatchLetter(text, i) ==
  LET start == IF ~IsNewline(text[i]) /\ ~IsLetter(text[i]) /\ ~IsNumber(text[i]) THEN i + 1 ELSE i
      end   == IF start > Len(text) THEN start ELSE RunEnd(text, start, IsLetter)
  IN  IF end = start THEN i ELSE end

MatchNumber(text, i) ==
  LET end == RunEnd(text, i, IsNumber) IN IF end > i + 2 THEN i + 2 ELSE end

MatchPunctuation(text, i) ==
  LET start == IF text[i] = " " THEN i + 1 ELSE i
      end   == RunEnd(text, start, IsSymbol)
  IN  IF end = start THEN i ELSE RunEnd(text, end, IsNewline)

MatchNewline(text, i) ==
  LET newlines == { j \in i .. RunEnd(text, i, IsSpace) - 1 : IsNewline(text[j]) }
  IN  IF newlines = {} THEN i ELSE Max(newlines) + 1

MatchWhitespace(text, i) == RunEnd(text, i, IsSpace)

\* The first alternative that matches; a single character when none does.
PieceEnd(text, i) ==
  FoldRight(LAMBDA end, later : IF end > i THEN end ELSE later,
            << MatchContraction(text, i), MatchLetter(text, i), MatchNumber(text, i),
               MatchPunctuation(text, i), MatchNewline(text, i), MatchWhitespace(text, i) >>, i + 1)

RECURSIVE PiecesFrom(_, _)
PiecesFrom(text, ends) ==
  IF Last(ends) > Len(text) THEN [k \in 1 .. Len(ends) - 1 |-> SubSeq(text, ends[k], ends[k + 1] - 1)]
  ELSE PiecesFrom(text, Append(ends, PieceEnd(text, Last(ends))))

SplitPieces(text) == PiecesFrom(text, <<1>>)

-----------------------------------------------------------------------------
(* bpe.go                                                                  *)

Bytes == 0 .. NumBytes - 1
ByteOf(c) == CHOOSE b \in Bytes : CharOf[b] = c
SymbolsOf(piece) == [i \in 1 .. Len(piece) |-> ByteOf(piece[i])]

\* A pair comes before another: the more frequent, then the smaller symbols.
Before(p, n, q, k) ==
  n > k \/ (n = k /\ (p[1] < q[1] \/ (p[1] = q[1] /\ p[2] < q[2])))

Less(x, y) == Before(x.pair, x.count, y.pair, y.count)

\* mergePairs: one pass from the left over occurrences that do not overlap.
MergePairs(symbols, left, right, merged) ==
  LET rest[i \in 1 .. Len(symbols) + 2] ==
        CASE i > Len(symbols) -> << >>
          [] i < Len(symbols) /\ symbols[i] = left /\ symbols[i + 1] = right -> <<merged>> \o rest[i + 2]
          [] OTHER -> <<symbols[i]>> \o rest[i + 1]
  IN  rest[1]

PairsIn(s) == { <<s[i], s[i + 1]>> : i \in 1 .. Len(s) - 1 }
Occurrences(s, p) == Cardinality({ i \in 1 .. Len(s) - 1 : s[i] = p[1] /\ s[i + 1] = p[2] })

\* The state of TrainBPE: the pieces' symbols, pairCount, pairMembers, the heap (a set:
\* an entry pushed again is stale as soon as its double was merged), and tokenBytes.
Trainer(pieces) ==
  LET symbols == [i \in DOMAIN pieces |-> SymbolsOf(pieces[i])]
      pairs   == UNION { PairsIn(symbols[i]) : i \in DOMAIN pieces }
      count   == [p \in pairs |-> MapThenSumSet(LAMBDA i : Occurrences(symbols[i], p), DOMAIN pieces)]
  IN  [symbols |-> symbols,
       count   |-> count,
       members |-> [p \in pairs |-> { i \in DOMAIN pieces : p \in PairsIn(symbols[i]) }],
       heap    |-> { [pair |-> p, count |-> count[p]] : p \in pairs },
       tokens  |-> [b \in 1 .. NumBytes |-> <<CharOf[b - 1]>>]]

\* removePiecePairs, mergePairs, addPiecePairs on one piece.
Repiece(t, piece, pair, merged) ==
  LET old   == t.symbols[piece]
      new   == MergePairs(old, pair[1], pair[2], merged)
      known == DOMAIN t.count \cup PairsIn(new)
  IN  [t EXCEPT
         !.symbols[piece] = new,
         !.count   = [p \in known |-> (IF p \in DOMAIN t.count THEN t.count[p] ELSE 0)
                                      - Occurrences(old, p) + Occurrences(new, p)],
         !.members = [p \in known |->
                        ((IF p \in DOMAIN t.members THEN t.members[p] ELSE {}) \ {piece})
                        \cup (IF p \in PairsIn(new) THEN {piece} ELSE {})]]

StaleBug(t) == { e \in t.heap : e.count > 0 /\ t.count[e.pair] > 0 }

\* The entries whose count is still the pair's: popping stops at the first of them.
Valid(t) == { e \in t.heap : t.count[e.pair] = e.count /\ e.count > 0 }

Top(t) == CHOOSE e \in Valid(t) : \A other \in Valid(t) \ {e} : Less(e, other)

\* One merge: everything in front of the chosen entry is popped, the pieces that hold
\* the pair are rewritten, and every pair they touched is pushed with its new count.
Merge(t, top, after) ==
  LET touched == UNION { PairsIn(t.symbols[i]) \cup PairsIn(after.symbols[i]) : i \in t.members[top.pair] }
  IN  [after EXCEPT
         !.heap   = { e \in t.heap : Less(top, e) }
                    \cup { [pair |-> p, count |-> after.count[p]] : p \in touched },
         !.tokens = Append(t.tokens, t.tokens[top.pair[1] + 1] \o t.tokens[top.pair[2] + 1])]

MergeTop(t, top) ==
  Merge(t, top, FoldSet(LAMBDA i, u : Repiece(u, i, top.pair, Len(t.tokens)), t, t.members[top.pair]))

Merged(t) == MergeTop(t, Top(t))

MergedTimes(t, n) == FoldLeft(LAMBDA u, i : IF Valid(u) = {} THEN u ELSE Merged(u), t, [i \in 1 .. n |-> i])

\* The ranks: each token's bytes with the last id they were given.
Ranked(tokens) ==
  [bytes \in { tokens[i] : i \in DOMAIN tokens } |-> Max({ i \in DOMAIN tokens : tokens[i] = bytes }) - 1]

TrainBPE(pieces, numMerges) == Ranked(MergedTimes(Trainer(pieces), numMerges).tokens)

-----------------------------------------------------------------------------
(* tokenizer.go                                                            *)

\* NewTokenizer: the special tokens follow the ranks; a special token decodes to its name.
NewTokenizer(ranks) ==
  LET n == Cardinality(DOMAIN ranks)
  IN  [ranks    |-> ranks,
       special  |-> [i \in DOMAIN Specials |-> n + i - 1],
       bytes    |-> [id \in 0 .. n + Len(Specials) - 1 |->
                       IF id >= n THEN Specials[id - n + 1]
                       ELSE LET having == { b \in DOMAIN ranks : ranks[b] = id }
                            IN  IF having = {} THEN << >> ELSE CHOOSE b \in having : TRUE]]

\* The leftmost adjacent parts whose bytes have the lowest rank, 0 when none have one.
BestIdx(ranks, parts) ==
  LET at       == { i \in 1 .. Len(parts) - 1 : parts[i] \o parts[i + 1] \in DOMAIN ranks }
      rank(i)  == ranks[parts[i] \o parts[i + 1]]
      best     == { i \in at : \A j \in at : rank(i) <= rank(j) }
  IN  IF at = {} THEN 0 ELSE Min(best)

JoinedAt(parts, i) ==
  SubSeq(parts, 1, i - 1) \o <<parts[i] \o parts[i + 1]>> \o SubSeq(parts, i + 2, Len(parts))

RECURSIVE MergeParts(_, _, _)
MergeParts(ranks, parts, i) ==
  IF i = 0 THEN parts ELSE MergeParts(ranks, JoinedAt(parts, i), BestIdx(ranks, JoinedAt(parts, i)))

BpeMergePiece(ranks, piece) ==
  LET parts == [i \in 1 .. Len(piece) |-> <<piece[i]>>] IN MergeParts(ranks, parts, BestIdx(ranks, parts))

RanksOf(ranks, parts) == [i \in 1 .. Len(parts) |-> ranks[parts[i]]]

EncodePieces(ranks, pieces) ==
  FlattenSeq([k \in 1 .. Len(pieces) |-> RanksOf(ranks, BpeMergePiece(ranks, pieces[k]))])

Encode(tokenizer, text) == EncodePieces(tokenizer.ranks, SplitPieces(text))

Decode(tokenizer, ids) ==
  FlattenSeq([i \in 1 .. Len(ids) |->
                IF ids[i] \in DOMAIN tokenizer.bytes THEN tokenizer.bytes[ids[i]] ELSE << >>])

ByteCount(tokenizer, id) ==
  IF id \in DOMAIN tokenizer.bytes /\ ~\E i \in DOMAIN Specials : tokenizer.special[i] = id
    THEN Len(tokenizer.bytes[id]) ELSE 0

\* Save and LoadTokenizer: the entries with their ranks; the specials are SpecialTokens.
Save(tokenizer) == { [rank |-> tokenizer.ranks[b], bytes |-> b] : b \in DOMAIN tokenizer.ranks }
LoadTokenizer(saved) ==
  NewTokenizer([b \in { e.bytes : e \in saved } |-> (CHOOSE e \in saved : e.bytes = b).rank])

-----------------------------------------------------------------------------
(* Textbook BPE: every merge recounts every pair and rewrites every piece.  *)

Recounted(symbols, p) == MapThenSumSet(LAMBDA i : Occurrences(symbols[i], p), DOMAIN symbols)

RECURSIVE Textbook(_, _, _)
Textbook(symbols, new, n) ==
  LET pairs == UNION { PairsIn(symbols[i]) : i \in DOMAIN symbols }
  IN  IF n = 0 \/ pairs = {} THEN << >>
      ELSE LET p == CHOOSE p \in pairs : \A q \in pairs \ {p} :
                      Before(p, Recounted(symbols, p), q, Recounted(symbols, q))
           IN  <<p>> \o Textbook([i \in DOMAIN symbols |-> MergePairs(symbols[i], p[1], p[2], new)], new + 1, n - 1)

\* A piece under the merges, in the order they were learned.
RECURSIVE Replayed(_, _, _)
Replayed(symbols, merges, new) ==
  IF merges = << >> THEN symbols
  ELSE Replayed(MergePairs(symbols, Head(merges)[1], Head(merges)[2], new), Tail(merges), new + 1)

Segmented(split, merges) ==
  FlattenSeq([k \in 1 .. Len(split) |-> Replayed(SymbolsOf(split[k]), merges, NumBytes)])

EncodesText(text, split, ids, tokenizers) ==
  /\ FlattenSeq(split) = text /\ \A k \in DOMAIN split : split[k] # << >>
  /\ \A tok \in tokenizers :
       /\ Encode(tok, text) = ids
       /\ Decode(tok, ids) = text
       /\ MapThenSumSet(LAMBDA i : ByteCount(tok, ids[i]), DOMAIN ids) = Len(text)

EncodesTexts(texts, merges, tokenizers) ==
  /\ \A text \in texts : \A split \in { SplitPieces(text) } :
       EncodesText(text, split, Segmented(split, merges), tokenizers)
  /\ \A tok \in tokenizers : \A i \in DOMAIN Specials : tok.special[i] \notin { tok.ranks[b] : b \in DOMAIN tok.ranks }

\* What training and encoding add up to: the ranks of TrainBPE alone make the encoder
\* segment any text, seen in training or not, as the merges, chosen by recounting and applied in order, would;
\* what is encoded decodes to itself, also after Save and LoadTokenizer; the ids count
\* the text's bytes; and no special id is a token's.
EncodesAsTrained(corpus, numMerges, texts) ==
  \A pieces \in { FlattenSeq([i \in 1 .. Len(corpus) |-> SplitPieces(corpus[i])]) } :
  \A tok \in { NewTokenizer(TrainBPE(pieces, numMerges)) } :
    EncodesTexts(texts, Textbook([i \in DOMAIN pieces |-> SymbolsOf(pieces[i])], NumBytes, numMerges),
                 { tok, LoadTokenizer(Save(tok)) })
=============================================================================
