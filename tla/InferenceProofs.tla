-------------------------- MODULE InferenceProofs --------------------------
(***************************************************************************)
(* Proofs about the computations under inference and training:             *)
(*   Speculative  the cache follows the words yielded through every        *)
(*                rejection, and they are those of greedy decoding;        *)
(*   Transformer  gradients arrive where they are owed, masked reads stay  *)
(*                in their document, inference reads what training read;   *)
(*   WorkerPool   the workers' ranges cover a range once.                  *)
(***************************************************************************)
EXTENDS Speculative, Transformer, WorkerPool, SeqSumsProofs

-----------------------------------------------------------------------------
(* Speculative decoding.                                                   *)

\* While a row runs, the words yielded and the candidates waiting are the
\* greedy path, one after the other, and no more of them wait than a block has.
OnGreedyPath ==
  status = "running" =>
    /\ Len(out) < MaxTokens
    /\ Len(queue) <= DraftLength
    /\ position = Len(out) + Len(queue)
    /\ \A i \in 1..Len(out) : out[i] = path[i]
    /\ \A i \in 1..Len(queue) : queue[i] = path[Len(out) + i]

\* CacheFollowsOutput alone is not inductive: that the candidates accepted are
\* the greedy ones needs the tokens in the cache to be on the path.
SpeculativeInv == TypeOK /\ CacheFollowsOutput /\ OnGreedyPath

-----------------------------------------------------------------------------
(* The operators of a round.                                               *)

(***************************************************************************)
(* A sequence that reads like a longer one is a strict prefix of it.       *)
(***************************************************************************)
LEMMA StrictPrefixIntro ==
  ASSUME NEW S, NEW n \in Nat, NEW p \in [1..n -> S], NEW s \in Seq(S),
         Len(s) < n, \A i \in 1..Len(s) : s[i] = p[i]
  PROVE  IsStrictPrefix(s, p)
<1>1. p \in Seq(S) /\ Len(p) = n
  OBVIOUS
<1>2. SubSeq(s, 1, Len(s)) = SubSeq(p, 1, Len(s))
  <2>1. /\ \A i \in 1..Len(s) : s[i] \in S /\ p[i] \in S
        /\ Len(s) \in Nat
    OBVIOUS
  <2>2. /\ SubSeq(s, 1, Len(s)) \in Seq(S)
        /\ Len(SubSeq(s, 1, Len(s))) = IF 1 <= Len(s) THEN Len(s) - 1 + 1 ELSE 0
        /\ \A i \in 1..(Len(s) - 1 + 1) : SubSeq(s, 1, Len(s))[i] = s[1 + i - 1]
    BY <2>1, SubSeqProperties
  <2>3. /\ SubSeq(p, 1, Len(s)) \in Seq(S)
        /\ Len(SubSeq(p, 1, Len(s))) = IF 1 <= Len(s) THEN Len(s) - 1 + 1 ELSE 0
        /\ \A i \in 1..(Len(s) - 1 + 1) : SubSeq(p, 1, Len(s))[i] = p[1 + i - 1]
    BY <2>1, SubSeqProperties
  <2>4. Len(SubSeq(s, 1, Len(s))) = Len(SubSeq(p, 1, Len(s)))
    BY <2>2, <2>3
  <2>5. \A i \in 1..Len(SubSeq(s, 1, Len(s))) :
          SubSeq(s, 1, Len(s))[i] = SubSeq(p, 1, Len(s))[i]
    BY <2>1, <2>2, <2>3
  <2> QED BY <2>2, <2>3, <2>4, <2>5, SeqEqual
<1> QED BY <1>1, <1>2 DEF IsStrictPrefix, IsPrefix

(***************************************************************************)
(* A round accepts its first candidate and every draft up to the first     *)
(* that differs from what the target preferred.                            *)
(***************************************************************************)
LEMMA AcceptedIsFirstMismatch ==
  ASSUME NEW block \in Seq(Vocabulary), NEW verified, Len(block) >= 1
  PROVE  LET k == Accepted(block, verified)
         IN  /\ k \in 1..Len(block)
             /\ \A j \in 1..(k - 1) : verified[j] = block[j + 1]
             /\ k = Len(block) \/ verified[k] # block[k + 1]
<1> DEFINE Ends == {k \in 1..Len(block) : k = Len(block) \/ verified[k] # block[k + 1]}
<1>1. PICK k \in Ends : \A j \in Ends : k <= j
  <2>1. Ends \in SUBSET Nat /\ Len(block) \in Ends
    OBVIOUS
  <2> QED BY <2>1, LeastElement
<1>2. /\ k \in 1..Len(block)
      /\ \A j \in 1..(k - 1) : verified[j] = block[j + 1]
      /\ k = Len(block) \/ verified[k] # block[k + 1]
  <2>1. k \in 1..Len(block) /\ (k = Len(block) \/ verified[k] # block[k + 1])
    BY <1>1
  <2>2. ASSUME NEW j \in 1..(k - 1), verified[j] # block[j + 1]
        PROVE  FALSE
    <3>1. j \in 1..Len(block) /\ ~(k <= j)
      BY <2>1
    <3> QED BY <3>1, <2>2, <1>1
  <2> QED BY <2>1, <2>2
<1> QED BY <1>2 DEF Accepted

(***************************************************************************)
(* The cache behind its position is a sequence of that length.             *)
(***************************************************************************)
LEMMA CachedType ==
  ASSUME TypeOK
  PROVE  Cached \in Seq(Vocabulary) /\ Len(Cached) = position
<1>1. /\ rows \in Seq(Vocabulary) /\ position \in 0..Len(rows)
      /\ Len(rows) \in Nat
  BY DEF TypeOK
<1>2. \A i \in 1..position : rows[i] \in Vocabulary
  BY <1>1
<1> QED BY <1>1, <1>2, SubSeqProperties DEF Cached

(***************************************************************************)
(* The target, run on the cache of a row between rounds, prefers the       *)
(* greedy path behind every candidate that is accepted.                    *)
(***************************************************************************)
LEMMA AcceptedFollowsPath ==
  ASSUME SpeculativeInv, status = "running", queue = << >>,
         NEW block \in Seq(Vocabulary),
         Len(block) \in 1..DraftLength, block[1] = pending,
         NEW verified \in [1..Len(block) -> Vocabulary],
         \A i \in 1..Len(block) :
           verified[i] \in Preferred(Cached \o SubSeq(block, 1, i))
  PROVE  \A i \in 1..Accepted(block, verified) :
           /\ block[i] = path[position + i]
           /\ verified[i] = path[position + i + 1]
<1> DEFINE k == Accepted(block, verified)
           Agrees(i) == block[i] = path[position + i]
<1>1. /\ k \in 1..Len(block)
      /\ \A j \in 1..(k - 1) : verified[j] = block[j + 1]
  BY AcceptedIsFirstMismatch
<1> HIDE DEF k
<1>2. /\ Len(block) \in Nat /\ DraftLength \in Nat /\ MaxTokens \in Nat
      /\ Cached \in Seq(Vocabulary) /\ Len(Cached) = position
      /\ position \in Nat /\ Horizon \in Nat
      /\ path \in [1..Horizon -> Vocabulary]
  BY CachedType, SpeculativeConstants DEF SpeculativeInv, TypeOK, Horizon
<1>3. /\ previous = LastOr(Cached)
      /\ pending = path[position + 1]
      /\ position = Len(out) /\ position < MaxTokens
      /\ \A j \in 1..position : Cached[j] = path[j]
  <2>1. /\ Cached = out \o queue /\ previous = LastOr(Cached) /\ PendingIsGreedy
        /\ Len(out) < MaxTokens /\ position = Len(out) + Len(queue)
        /\ \A i \in 1..Len(out) : out[i] = path[i]
        /\ out \in Seq(Words)
    BY DEF SpeculativeInv, CacheFollowsOutput, OnGreedyPath, TypeOK
  <2>2. out \o queue = out
    BY <2>1, ConcatEmptySeq
  <2> QED BY <2>1, <2>2 DEF PendingIsGreedy
<1>4. ASSUME NEW i \in 1..k, \A j \in 1..i : Agrees(j)
      PROVE  verified[i] = path[position + i + 1]
  <2> DEFINE part == SubSeq(block, 1, i)
             context == Cached \o part
  <2>1. /\ part \in Seq(Vocabulary) /\ Len(part) = i
        /\ \A j \in 1..i : part[j] = block[j]
    <3>1. /\ i \in Int /\ i >= 1 /\ i <= Len(block)
          /\ \A j \in 1..i : block[j] \in Vocabulary
      BY <1>1, <1>2
    <3>2. /\ SubSeq(block, 1, i) \in Seq(Vocabulary)
          /\ Len(SubSeq(block, 1, i)) = IF 1 <= i THEN i - 1 + 1 ELSE 0
          /\ \A j \in 1..(i - 1 + 1) : SubSeq(block, 1, i)[j] = block[1 + j - 1]
      BY <3>1, SubSeqProperties
    <3> QED BY <3>1, <3>2
  <2> HIDE DEF part
  <2>2. /\ context \in Seq(Vocabulary)
        /\ Len(context) = position + i
        /\ \A j \in 1..(position + i) :
             context[j] = IF j <= position THEN Cached[j] ELSE part[j - position]
    BY <2>1, <1>2, ConcatProperties
  <2>3. \A j \in 1..Len(context) : context[j] = path[j]
    <3> SUFFICES ASSUME NEW j \in 1..(position + i) PROVE context[j] = path[j]
      BY <2>2
    <3>1. CASE j <= position
      BY <3>1, <2>2, <1>2, <1>3
    <3>2. CASE j > position
      <4>1. j - position \in 1..i /\ position + (j - position) = j
        BY <3>2, <1>2
      <4>2. context[j] = part[j - position]
        BY <3>2, <2>2, <1>2
      <4>3. block[j - position] = path[position + (j - position)]
        BY <4>1, <1>4
      <4> QED BY <4>1, <4>2, <4>3, <2>1
    <3>3. i \in Int /\ j \in Int
      BY <1>1, <1>2
    <3> HIDE DEF context
    <3> QED BY <3>1, <3>2, <3>3, <1>2
  <2>4. Len(context) < Horizon
    BY <2>2, <1>1, <1>2, <1>3 DEF Horizon
  <2>5. IsStrictPrefix(context, path)
    BY <2>2, <2>3, <2>4, <1>2, StrictPrefixIntro
  <2>6. verified[i] \in Preferred(context)
    BY <1>1, <1>2 DEF part
  <2>7. verified[i] = path[Len(context) + 1]
    BY <2>5, <2>6, <1>3 DEF Preferred
  <2> QED BY <2>2, <2>7
<1>5. \A i \in 1..k : Agrees(i)
  <2> DEFINE S == {n \in Nat : \A i \in 1..n : i <= k => Agrees(i)}
  <2>1. 0 \in S
    OBVIOUS
  <2>2. \A n \in Nat : n \in S => n + 1 \in S
    <3> SUFFICES ASSUME NEW n \in Nat, n \in S PROVE n + 1 \in S
      OBVIOUS
    <3>0. \A i \in 1..n : i <= k => Agrees(i)
      OBVIOUS
    <3> SUFFICES ASSUME n + 1 <= k PROVE Agrees(n + 1)
      <4>1. \A i \in 1..(n + 1) : i = n + 1 \/ i \in 1..n
        OBVIOUS
      <4> HIDE DEF Agrees
      <4> QED BY <3>0, <4>1
    <3>1. CASE n = 0
      BY <3>1, <1>3, <1>2
    <3>2. CASE n # 0
      <4>1. n \in 1..k /\ n \in 1..(k - 1) /\ \A j \in 1..n : Agrees(j)
        BY <3>0, <3>2, <1>1, <1>2
      <4>2. verified[n] = path[position + n + 1]
        BY <4>1, <1>4
      <4>3. verified[n] = block[n + 1]
        BY <4>1, <1>1
      <4>4. position + n + 1 = position + (n + 1)
        BY <1>2
      <4> QED BY <4>2, <4>3, <4>4
    <3> QED BY <3>1, <3>2
  <2> HIDE DEF S
  <2>3. \A n \in Nat : n \in S
    BY <2>1, <2>2, SetInduction, Zenon
  <2>4. k \in S
    BY <2>3, <1>1, <1>2
  <2> QED BY <2>4, <1>1, <1>2 DEF S
<1>6. ASSUME NEW i \in 1..k
      PROVE  Agrees(i) /\ verified[i] = path[position + i + 1]
  <2>1. \A j \in 1..i : j \in 1..k
    BY <1>1, <1>2
  <2> QED BY <2>1, <1>4, <1>5
<1> QED BY <1>6 DEF k

-----------------------------------------------------------------------------
(* The invariant.                                                          *)

(***************************************************************************)
(* Nothing is cached, queued or said before the first round.               *)
(***************************************************************************)
LEMMA SpeculativeInvInit ==
  Init => SpeculativeInv
<1> SUFFICES ASSUME Init PROVE SpeculativeInv
  OBVIOUS
<1>1. /\ MaxTokens \in Nat /\ MaxTokens >= 1 /\ DraftLength \in Nat
      /\ Horizon \in Nat /\ 1 \in 1..Horizon
  BY SpeculativeConstants DEF Horizon
<1>2. path[1] \in Vocabulary /\ room \in Nat
  BY <1>1, SpeculativeConstants DEF Init
<1>3. TypeOK
  BY <1>1, <1>2 DEF Init, TypeOK
<1>4. Cached = << >>
  BY SubSeqEmpty DEF Init, Cached
<1>5. CacheFollowsOutput
  BY <1>4, <1>1, ConcatEmptySeq DEF Init, CacheFollowsOutput, PendingIsGreedy, LastOr
<1>6. OnGreedyPath
  BY <1>1 DEF Init, OnGreedyPath
<1> QED BY <1>3, <1>5, <1>6 DEF SpeculativeInv

(***************************************************************************)
(* A block that is scored fits into the context, and the cache is rewound  *)
(* to exactly the candidates that were accepted.                           *)
(***************************************************************************)
LEMMA RoundKeepsInv ==
  ASSUME SpeculativeInv, Round
  PROVE  SpeculativeInv'
<1>1. /\ DraftLength \in Nat /\ DraftLength >= 2 /\ MaxTokens \in Nat
      /\ Horizon \in Nat /\ Horizon = MaxTokens + DraftLength
      /\ path \in [1..Horizon -> Vocabulary]
      /\ room \in Nat /\ room \in Rooms /\ position \in Nat /\ position <= room
      /\ pending \in Vocabulary
      /\ out \in Seq(Words) /\ Len(out) \in Nat /\ Len(out) < MaxTokens
      /\ Len(out) <= MaxTokens
      /\ Cached \in Seq(Vocabulary) /\ Len(Cached) = position
  <2>1. room \in Nat
    BY SpeculativeConstants DEF SpeculativeInv, TypeOK
  <2>2. rows \in Seq(Vocabulary) /\ Len(rows) <= room /\ position \in 0..Len(rows)
    BY DEF SpeculativeInv, TypeOK
  <2>3. Len(rows) \in Nat /\ position \in Nat /\ position <= room
    BY <2>1, <2>2
  <2> QED BY <2>1, <2>3, SpeculativeConstants, CachedType
          DEF SpeculativeInv, TypeOK, Round, Horizon
<1>2. /\ status = "running" /\ queue = << >> /\ BlockSize >= 1
      /\ Cached = out /\ position = Len(out)
      /\ \A i \in 1..Len(out) : out[i] = path[i]
  <2>1. status = "running" /\ queue = << >> /\ BlockSize >= 1
    BY DEF Round
  <2>2. /\ Cached = out \o queue /\ position = Len(out) + Len(queue)
        /\ \A i \in 1..Len(out) : out[i] = path[i]
    BY <2>1 DEF SpeculativeInv, CacheFollowsOutput, OnGreedyPath
  <2>3. out \o queue = out /\ Len(queue) = 0
    BY <2>1, <1>1, ConcatEmptySeq
  <2> QED BY <2>1, <2>2, <2>3, <1>1
<1>3. PICK drafted \in SeqOf(Vocabulary, BlockSize - 1) :
        LET block == <<pending>> \o drafted
        IN  \E verified \in [1..Len(block) -> Vocabulary] :
              /\ \A i \in 1..Len(block) :
                   verified[i] \in Preferred(Cached \o SubSeq(block, 1, i))
              /\ LET k == Accepted(block, verified)
                 IN  /\ rows' = Cached \o block
                     /\ position' = Rewound(k, block)
                     /\ previous' = Smear(k, block)
                     /\ queue' = SubSeq(block, 1, k)
                     /\ pending' = verified[k]
  BY DEF Round
<1> DEFINE block == <<pending>> \o drafted
<1>3a. PICK verified \in [1..Len(block) -> Vocabulary] :
         /\ \A i \in 1..Len(block) :
              verified[i] \in Preferred(Cached \o SubSeq(block, 1, i))
         /\ rows' = Cached \o block
         /\ position' = Rewound(Accepted(block, verified), block)
         /\ previous' = Smear(Accepted(block, verified), block)
         /\ queue' = SubSeq(block, 1, Accepted(block, verified))
         /\ pending' = verified[Accepted(block, verified)]
  BY <1>3
<1> DEFINE k == Accepted(block, verified)
<1>4. /\ BlockSize \in Nat /\ BlockSize <= DraftLength /\ BlockSize <= room - position
  BY <1>1, <1>2 DEF BlockSize
<1>5. /\ block \in Seq(Vocabulary) /\ Len(block) \in 1..BlockSize
      /\ block[1] = pending
  <2>1. PICK m \in 0..(BlockSize - 1) : drafted \in [1..m -> Vocabulary]
    BY DEF SeqOf
  <2>2. drafted \in Seq(Vocabulary) /\ Len(drafted) = m /\ m \in Nat
    BY <2>1, <1>4
  <2>3. <<pending>> \in Seq(Vocabulary) /\ Len(<<pending>>) = 1 /\ <<pending>>[1] = pending
    BY <1>1
  <2>4. /\ block \in Seq(Vocabulary) /\ Len(block) = 1 + m
        /\ block[1] = pending
    BY <2>2, <2>3, ConcatProperties
  <2> QED BY <2>1, <2>4, <1>4
<1> HIDE DEF block
<1>6. /\ verified \in [1..Len(block) -> Vocabulary]
      /\ \A i \in 1..Len(block) :
           verified[i] \in Preferred(Cached \o SubSeq(block, 1, i))
      /\ rows' = Cached \o block
      /\ position' = position + k
      /\ previous' = block[k]
      /\ queue' = SubSeq(block, 1, k)
      /\ pending' = verified[k]
      /\ UNCHANGED <<path, room, out, status>>
  BY <1>3a DEF Rewound, Smear, Round
<1>7. k \in 1..Len(block)
  BY <1>5, <1>4, AcceptedIsFirstMismatch
<1>8. \A i \in 1..k : block[i] = path[position + i] /\ verified[i] = path[position + i + 1]
  <2>1. Len(block) \in 1..DraftLength
    BY <1>5, <1>4, <1>1
  <2> QED BY <2>1, <1>2, <1>5, <1>6, AcceptedFollowsPath
<1> HIDE DEF k
<1>9. /\ queue' \in Seq(Vocabulary) /\ Len(queue') = k
      /\ \A i \in 1..k : queue'[i] = block[i]
  <2>1. /\ k \in Int /\ k >= 1 /\ k <= Len(block)
        /\ \A j \in 1..k : block[j] \in Vocabulary
    BY <1>5, <1>7, <1>4
  <2>2. /\ SubSeq(block, 1, k) \in Seq(Vocabulary)
        /\ Len(SubSeq(block, 1, k)) = IF 1 <= k THEN k - 1 + 1 ELSE 0
        /\ \A j \in 1..(k - 1 + 1) : SubSeq(block, 1, k)[j] = block[1 + j - 1]
    BY <2>1, SubSeqProperties
  <2> QED BY <2>1, <2>2, <1>6
<1>10. /\ rows' \in Seq(Vocabulary) /\ Len(rows') = position + Len(block)
       /\ \A i \in 1..(position + Len(block)) :
            rows'[i] = IF i <= position THEN Cached[i] ELSE block[i - position]
  BY <1>1, <1>5, <1>6, ConcatProperties
<1>11. /\ k \in Nat /\ k >= 1 /\ k <= DraftLength /\ position + Len(block) <= room
       /\ Len(block) \in Nat /\ k <= Len(block)
  BY <1>1, <1>4, <1>5, <1>7
<1>12. TypeOK'
  <2>1. previous' \in Vocabulary /\ pending' \in Vocabulary
    BY <1>5, <1>6, <1>7
  <2>2. position' \in 0..Len(rows') /\ Len(rows') <= room
    <3>1. /\ position' = position + k /\ Len(rows') = position + Len(block)
          /\ position \in Nat /\ room \in Nat
      BY <1>1, <1>6, <1>10
    <3> QED BY <3>1, <1>11
  <2>3. status' = "running"
    BY <1>2, <1>6
  <2> QED BY <2>1, <2>2, <2>3, <1>1, <1>6, <1>9, <1>10 DEF TypeOK
<1>13. OnGreedyPath'
  <2>1. Len(queue') <= DraftLength /\ position' = Len(out') + Len(queue')
    BY <1>2, <1>6, <1>9, <1>11
  <2>2. \A i \in 1..Len(queue') : queue'[i] = path'[Len(out') + i]
    BY <1>2, <1>6, <1>8, <1>9
  <2> QED BY <2>1, <2>2, <1>1, <1>2, <1>6 DEF OnGreedyPath
<1>14. Cached' = out' \o queue'
  <2>1. out \in Seq(Vocabulary)
    BY <1>1, <1>2
  <2>2. /\ out \o queue' \in Seq(Vocabulary)
        /\ Len(out \o queue') = position + k
        /\ \A i \in 1..(position + k) :
             (out \o queue')[i] = IF i <= position THEN out[i] ELSE queue'[i - position]
    BY <2>1, <1>2, <1>9, ConcatProperties
  <2>3. /\ Cached' \in Seq(Vocabulary) /\ Len(Cached') = position + k
        /\ \A i \in 1..(position + k) : Cached'[i] = rows'[i]
    <3> DEFINE n == position + k
               r == rows'
    <3>1. Cached' = SubSeq(r, 1, n)
      BY <1>6 DEF Cached
    <3>2. /\ n \in Int /\ 1 <= n
          /\ \A i \in 1..n : r[i] \in Vocabulary
      BY <1>1, <1>10, <1>11
    <3> HIDE DEF n, r
    <3>3. /\ SubSeq(r, 1, n) \in Seq(Vocabulary)
          /\ Len(SubSeq(r, 1, n)) = IF 1 <= n THEN n - 1 + 1 ELSE 0
          /\ \A i \in 1..(n - 1 + 1) : SubSeq(r, 1, n)[i] = r[1 + i - 1]
      BY <3>2, SubSeqProperties
    <3>4. /\ Cached' \in Seq(Vocabulary) /\ Len(Cached') = n
          /\ \A i \in 1..n : Cached'[i] = r[i]
      BY <3>1, <3>2, <3>3
    <3> QED BY <3>4 DEF n, r
  <2>4. \A i \in 1..(position + k) : Cached'[i] = (out \o queue')[i]
    <3> TAKE i \in 1..(position + k)
    <3>1. i \in Nat /\ i \in 1..(position + Len(block))
      BY <1>1, <1>11
    <3>2. Cached'[i] = IF i <= position THEN Cached[i] ELSE block[i - position]
      BY <2>3, <3>1, <1>10
    <3>3. i > position => queue'[i - position] = block[i - position]
      BY <3>1, <1>9, <1>1, <1>11
    <3> QED BY <3>1, <3>2, <3>3, <2>2, <1>1, <1>2
  <2>5. Cached' = out \o queue'
    BY <2>2, <2>3, <2>4, SeqEqual
  <2> QED BY <2>5, <1>6
<1>15. previous' = LastOr(Cached')
  <2>1. out' \in Seq(Vocabulary) /\ Len(out') = position
    BY <1>1, <1>2, <1>6
  <2>2. /\ Len(Cached') = position + k
        /\ \A i \in 1..(position + k) :
             Cached'[i] = IF i <= position THEN out'[i] ELSE queue'[i - position]
    <3> DEFINE a == out'
               b == queue'
    <3>1. /\ a \in Seq(Vocabulary) /\ Len(a) = position
          /\ b \in Seq(Vocabulary) /\ Len(b) = k
      BY <2>1, <1>9
    <3>2. Cached' = a \o b
      BY <1>14 DEF CacheFollowsOutput
    <3> HIDE DEF a, b
    <3>3. /\ Len(a \o b) = Len(a) + Len(b)
          /\ \A i \in 1..(Len(a) + Len(b)) :
               (a \o b)[i] = IF i <= Len(a) THEN a[i] ELSE b[i - Len(a)]
      BY <3>1, ConcatProperties
    <3> QED BY <3>1, <3>2, <3>3 DEF a, b
  <2>3. position + k \in 1..(position + k) /\ ~(position + k <= position)
        /\ (position + k) - position = k
    BY <1>1, <1>11
  <2>4. Cached'[Len(Cached')] = block[k]
    BY <2>2, <2>3, <1>9, <1>11
  <2>5. Cached' # << >>
    BY <2>2, <2>3, <1>1, <1>11
  <2> QED BY <2>4, <2>5, <1>6 DEF LastOr
<1>16. PendingIsGreedy'
  <2>1. pending' = path[position + k + 1]
    BY <1>6, <1>8, <1>11
  <2> QED BY <2>1, <1>6 DEF PendingIsGreedy
<1> QED BY <1>12, <1>13, <1>14, <1>15, <1>16 DEF SpeculativeInv, CacheFollowsOutput

(***************************************************************************)
(* Moving the first element of t to the end of s leaves s \o t as it was.  *)
(***************************************************************************)
LEMMA MoveHead ==
  ASSUME NEW S, NEW s \in Seq(S), NEW t \in Seq(S), t # << >>
  PROVE  Append(s, Head(t)) \o Tail(t) = s \o t
<1> DEFINE a == Append(s, Head(t))
           b == Tail(t)
<1>1. /\ t[1] \in S /\ Len(t) >= 1 /\ Len(t) \in Nat /\ Len(s) \in Nat
      /\ Head(t) = t[1]
  OBVIOUS
<1>2. /\ a \in Seq(S) /\ Len(a) = Len(s) + 1
      /\ \A i \in 1..Len(s) : a[i] = s[i]
      /\ a[Len(s) + 1] = t[1]
  BY <1>1, AppendProperties
<1>3. /\ b \in Seq(S) /\ Len(b) = Len(t) - 1
      /\ \A i \in 1..(Len(t) - 1) : b[i] = t[i + 1]
  BY HeadTailProperties
<1> HIDE DEF a, b
<1>4. /\ a \o b \in Seq(S) /\ Len(a \o b) = Len(s) + Len(t)
      /\ \A i \in 1..(Len(s) + Len(t)) :
           (a \o b)[i] = IF i <= Len(s) + 1 THEN a[i] ELSE b[i - (Len(s) + 1)]
  <2>1. Len(a) + Len(b) = Len(s) + Len(t)
    BY <1>1, <1>2, <1>3
  <2>2. /\ a \o b \in Seq(S) /\ Len(a \o b) = Len(a) + Len(b)
        /\ \A i \in 1..(Len(a) + Len(b)) :
             (a \o b)[i] = IF i <= Len(a) THEN a[i] ELSE b[i - Len(a)]
    BY <1>2, <1>3, ConcatProperties
  <2> QED BY <2>1, <2>2, <1>2
<1>5. /\ s \o t \in Seq(S) /\ Len(s \o t) = Len(s) + Len(t)
      /\ \A i \in 1..(Len(s) + Len(t)) :
           (s \o t)[i] = IF i <= Len(s) THEN s[i] ELSE t[i - Len(s)]
  BY ConcatProperties
<1>6. \A i \in 1..(Len(s) + Len(t)) : (a \o b)[i] = (s \o t)[i]
  <2> TAKE i \in 1..(Len(s) + Len(t))
  <2>1. CASE i <= Len(s)
    BY <2>1, <1>1, <1>2, <1>4, <1>5
  <2>2. CASE i = Len(s) + 1
    BY <2>2, <1>1, <1>2, <1>4, <1>5
  <2>3. CASE i > Len(s) + 1
    <3>1. i - (Len(s) + 1) \in 1..(Len(t) - 1) /\ (i - (Len(s) + 1)) + 1 = i - Len(s)
      BY <2>3, <1>1
    <3>2. (a \o b)[i] = b[i - (Len(s) + 1)] /\ (s \o t)[i] = t[i - Len(s)]
      BY <2>3, <1>1, <1>4, <1>5
    <3> QED BY <3>1, <3>2, <1>3
  <2>4. i <= Len(s) \/ i = Len(s) + 1 \/ i > Len(s) + 1
    BY <1>1
  <2> QED BY <2>1, <2>2, <2>3, <2>4
<1>7. a \o b = s \o t
  BY <1>4, <1>5, <1>6, SeqEqual
<1> QED BY <1>7 DEF a, b

(***************************************************************************)
(* A word that is yielded leaves the queue and joins the output.           *)
(***************************************************************************)
LEMMA EmitWordKeepsInv ==
  ASSUME SpeculativeInv, EmitWord
  PROVE  SpeculativeInv'
<1>1. /\ TypeOK /\ status = "running" /\ queue # << >>
      /\ queue \in Seq(Vocabulary) /\ out \in Seq(Words)
      /\ out \in Seq(Vocabulary) /\ Head(queue) \in Words
      /\ MaxTokens \in Nat
  BY SpeculativeConstants, HeadTailProperties
     DEF SpeculativeInv, TypeOK, EmitWord, Vocabulary
<1>2. /\ out' = Append(out, Head(queue)) /\ queue' = Tail(queue)
      /\ UNCHANGED <<path, room, rows, position, previous, pending>>
      /\ status' \in {"quit", IF Len(out') < MaxTokens THEN "running" ELSE "done"}
  BY DEF EmitWord
<1>3. /\ Len(out) < MaxTokens /\ Len(queue) <= DraftLength
      /\ position = Len(out) + Len(queue)
      /\ \A i \in 1..Len(out) : out[i] = path[i]
      /\ \A i \in 1..Len(queue) : queue[i] = path[Len(out) + i]
      /\ Cached = out \o queue /\ previous = LastOr(Cached) /\ PendingIsGreedy
  BY <1>1 DEF SpeculativeInv, OnGreedyPath, CacheFollowsOutput
<1>4. /\ out' \in Seq(Words) /\ Len(out') = Len(out) + 1
      /\ \A i \in 1..Len(out) : out'[i] = out[i]
      /\ out'[Len(out) + 1] = Head(queue)
      /\ Len(out) \in Nat
  BY <1>1, <1>2, AppendProperties
<1>5. /\ queue' \in Seq(Vocabulary) /\ Len(queue') = Len(queue) - 1
      /\ \A i \in 1..Len(queue') : queue'[i] = queue[i + 1]
      /\ Len(queue) \in Nat /\ Len(queue) >= 1 /\ Head(queue) = queue[1]
  BY <1>1, <1>2, HeadTailProperties
<1>6. TypeOK'
  <2>1. Len(out') <= MaxTokens /\ status' \in {"running", "done", "quit"}
    BY <1>1, <1>2, <1>3, <1>4
  <2> QED BY <2>1, <1>1, <1>2, <1>4, <1>5 DEF TypeOK
<1>7. Cached' = out' \o queue' /\ previous' = LastOr(Cached') /\ PendingIsGreedy'
  <2>1. Cached' = Cached
    BY <1>2 DEF Cached
  <2>2. out' \o queue' = out \o queue
    BY <1>1, <1>2, MoveHead
  <2> QED BY <2>1, <2>2, <1>2, <1>3 DEF PendingIsGreedy
<1>8. OnGreedyPath'
  <2> SUFFICES ASSUME status' = "running" PROVE OnGreedyPath'
    BY DEF OnGreedyPath
  <2>1. Len(out') < MaxTokens
    BY <1>2
  <2>2. Len(queue') <= DraftLength /\ position' = Len(out') + Len(queue')
    BY <1>2, <1>3, <1>4, <1>5, SpeculativeConstants
  <2>3. \A i \in 1..Len(out') : out'[i] = path'[i]
    <3> TAKE i \in 1..Len(out')
    <3>1. CASE i \in 1..Len(out)
      BY <3>1, <1>2, <1>3, <1>4
    <3>2. CASE i = Len(out) + 1
      <4>1. queue[1] = path[Len(out) + 1]
        BY <1>3, <1>5
      <4> QED BY <4>1, <3>2, <1>2, <1>4, <1>5
    <3> QED BY <3>1, <3>2, <1>4
  <2>4. \A i \in 1..Len(queue') : queue'[i] = path'[Len(out') + i]
    <3> TAKE i \in 1..Len(queue')
    <3>1. i + 1 \in 1..Len(queue) /\ Len(out) + (i + 1) = Len(out') + i
      BY <1>4, <1>5
    <3> QED BY <3>1, <1>2, <1>3, <1>5
  <2> QED BY <2>1, <2>2, <2>3, <2>4 DEF OnGreedyPath
<1> QED BY <1>6, <1>7, <1>8 DEF SpeculativeInv, CacheFollowsOutput

(***************************************************************************)
(* Every step of the decoding loop keeps the invariant.                    *)
(***************************************************************************)
LEMMA SpeculativeInvStep ==
  SpeculativeInv /\ [Next]_vars => SpeculativeInv'
<1> SUFFICES ASSUME SpeculativeInv, [Next]_vars PROVE SpeculativeInv'
  OBVIOUS
<1>1. CASE Round
  BY <1>1, RoundKeepsInv
<1>2. CASE EmitWord
  BY <1>2, EmitWordKeepsInv
<1>3. CASE EmitEnd \/ NoRoom
  <2>1. /\ UNCHANGED <<path, room, rows, position, previous, pending, queue, out>>
        /\ status' = "done"
    BY <1>3 DEF EmitEnd, NoRoom
  <2> QED BY <2>1 DEF SpeculativeInv, TypeOK, CacheFollowsOutput, OnGreedyPath
<1>4. CASE Terminated \/ UNCHANGED vars
  <2>1. UNCHANGED vars
    BY <1>4 DEF Terminated
  <2> QED BY <2>1 DEF vars, SpeculativeInv, TypeOK, CacheFollowsOutput,
            OnGreedyPath, PendingIsGreedy, Cached
<1> QED BY <1>1, <1>2, <1>3, <1>4 DEF Next

(***************************************************************************)
(* speculativeGenerate keeps its cache, smear state and next candidate in  *)
(* step with the words it yields, whatever the drafter proposes and        *)
(* wherever the target disagrees with it.                                  *)
(***************************************************************************)
THEOREM SpeculativeCache == Spec => [](TypeOK /\ CacheFollowsOutput)
<1>1. SpeculativeInv => TypeOK /\ CacheFollowsOutput
  BY DEF SpeculativeInv
<1> QED BY <1>1, SpeculativeInvInit, SpeculativeInvStep, PTL DEF Spec

-----------------------------------------------------------------------------
(* Speculative decoding implements greedy decoding.                        *)

(***************************************************************************)
(* Every step of the loop yields the next greedy word, ends the row where  *)
(* greedy decoding ends it, or is invisible to the consumer.               *)
(***************************************************************************)
LEMMA SpeculativeStepIsGreedy ==
  SpeculativeInv /\ [Next]_vars =>
    [Greedy!Say \/ Greedy!Stop]_<<path, Smaller(MaxTokens, room), out, status>>
<1> SUFFICES ASSUME SpeculativeInv, [Next]_vars
             PROVE  [Greedy!Say \/ Greedy!Stop]_<<path, Smaller(MaxTokens, room), out, status>>
  OBVIOUS
<1>1. /\ MaxTokens \in Nat /\ room \in Nat
      /\ rows \in Seq(Vocabulary) /\ position \in Nat /\ position <= room
      /\ queue \in Seq(Vocabulary) /\ out \in Seq(Words)
      /\ Len(out) \in Nat /\ Len(queue) \in Nat
  <2>1. MaxTokens \in Nat /\ room \in Nat
    BY SpeculativeConstants DEF SpeculativeInv, TypeOK
  <2>2. rows \in Seq(Vocabulary) /\ Len(rows) <= room /\ position \in 0..Len(rows)
    BY DEF SpeculativeInv, TypeOK
  <2>3. Len(rows) \in Nat /\ position \in Nat /\ position <= room
    BY <2>1, <2>2
  <2> QED BY <2>1, <2>2, <2>3 DEF SpeculativeInv, TypeOK
<1>2. status = "running" =>
        /\ Len(out) < MaxTokens /\ position = Len(out) + Len(queue)
        /\ \A i \in 1..Len(queue) : queue[i] = path[Len(out) + i]
  BY DEF SpeculativeInv, OnGreedyPath
<1>3. queue # << >> => Len(queue) >= 1 /\ Head(queue) = queue[1]
  BY <1>1
<1>4. CASE EmitWord
  <2>1. /\ status = "running" /\ queue # << >> /\ Head(queue) # End
        /\ out' = Append(out, Head(queue))
        /\ status' \in {"quit", IF Len(out') < MaxTokens THEN "running" ELSE "done"}
        /\ UNCHANGED <<path, room>>
    BY <1>4 DEF EmitWord
  <2>2. Head(queue) = path[Len(out) + 1]
    BY <2>1, <1>1, <1>2, <1>3
  <2>3. Len(out) < Smaller(MaxTokens, room)
    BY <2>1, <1>1, <1>2, <1>3 DEF Smaller
  <2>4. ~Greedy!Complete(out)
    BY <2>1, <2>2, <2>3, <1>1 DEF Smaller, Greedy!Complete
  <2>5. Len(out') = Len(out) + 1
    BY <2>1, <1>1
  <2>6. status' = "done" => Greedy!Complete(out')
    <3>1. status' = "done" => Len(out') = Smaller(MaxTokens, room)
      BY <2>1, <2>3, <2>5, <1>1 DEF Smaller
    <3> QED BY <3>1 DEF Greedy!Complete
  <2>7. UNCHANGED <<path, Smaller(MaxTokens, room)>>
    BY <2>1
  <2>8. Greedy!Say
    BY <2>1, <2>2, <2>4, <2>6, <2>7 DEF Greedy!Say
  <2> QED BY <2>8
<1>5. CASE EmitEnd
  <2>1. /\ status = "running" /\ queue # << >> /\ Head(queue) = End
        /\ status' = "done" /\ UNCHANGED <<path, room, out>>
    BY <1>5 DEF EmitEnd
  <2>2. path[Len(out) + 1] = End
    BY <2>1, <1>1, <1>2, <1>3
  <2> QED BY <2>1, <2>2 DEF Greedy!Stop, Greedy!Complete
<1>6. CASE NoRoom
  <2>1. /\ status = "running" /\ queue = << >> /\ BlockSize < 1
        /\ status' = "done" /\ UNCHANGED <<path, room, out>>
    BY <1>6 DEF NoRoom
  <2>2. room = Len(out)
    BY <2>1, <1>1, <1>2, SpeculativeConstants DEF BlockSize
  <2>3. Len(out) = Smaller(MaxTokens, room)
    BY <2>1, <2>2, <1>1, <1>2 DEF Smaller
  <2> QED BY <2>1, <2>3 DEF Greedy!Stop, Greedy!Complete
<1>7. CASE Round \/ Terminated \/ UNCHANGED vars
  BY <1>7 DEF Round, Terminated, vars
<1> QED BY <1>4, <1>5, <1>6, <1>7 DEF Next

(***************************************************************************)
(* What speculativeGenerate yields, and when it ends, is what greedy       *)
(* decoding with the target model yields: the claim of its doc comment.    *)
(***************************************************************************)
THEOREM SpeculativeRefines == Spec => ImplementsGreedy
<1>1. Init => Greedy!GInit
  BY DEF Init, Greedy!GInit
<1> QED BY <1>1, SpeculativeInvInit, SpeculativeInvStep, SpeculativeStepIsGreedy, PTL
        DEF Spec, ImplementsGreedy, Greedy!GSpec

-----------------------------------------------------------------------------
(* Arithmetic.                                                             *)

(***************************************************************************)
(* The lesser of two.                                                      *)
(***************************************************************************)
LEMMA MinPair ==
  ASSUME NEW a \in Int, NEW b \in Int
  PROVE  Min({a, b}) = IF a <= b THEN a ELSE b
BY DEF Min

(***************************************************************************)
(* The greater of two.                                                     *)
(***************************************************************************)
LEMMA MaxPair ==
  ASSUME NEW a \in Int, NEW b \in Int
  PROVE  Max({a, b}) = IF a >= b THEN a ELSE b
BY DEF Max

(***************************************************************************)
(* CeilDiv is the least integer whose product with the divisor reaches the *)
(* dividend.                                                               *)
(***************************************************************************)
LEMMA CeilQuotient ==
  ASSUME NEW a \in Int, NEW d \in Nat \ {0}
  PROVE  /\ CeilDiv(a, d) \in Int
         /\ a >= 0 => CeilDiv(a, d) \in Nat
         /\ \A g \in Int : g <= CeilDiv(a, d) <=> (g - 1) * d < a
         /\ \A g \in Int : g * d < a => g < CeilDiv(a, d)
<1> DEFINE c == (a + d - 1) \div d
<1>1. /\ c \in Int /\ c * d <= a + d - 1 /\ a + d - 1 < (c + 1) * d
      /\ a >= 0 => c \in Nat
      /\ \A q \in Int : q * d <= a + d - 1 => q <= c
      /\ \A q \in Int : a + d - 1 < q * d => c < q
  BY Quotient, SMTT(30)
<1> HIDE DEF c
<1>2. ASSUME NEW g \in Int PROVE g <= c <=> (g - 1) * d < a
  <2>1. (g - 1) * d = g * d - d /\ g * d \in Int
    OBVIOUS
  <2>2. g * d <= a + d - 1 => g <= c
    BY <1>1
  <2>3. a + d - 1 < g * d => c < g
    BY <1>1
  <2> QED BY <1>1, <2>1, <2>2, <2>3
<1>3. ASSUME NEW g \in Int, g * d < a PROVE g < c
  <2>1. (g + 1) * d = g * d + d /\ g * d \in Int
    OBVIOUS
  <2>2. (g + 1) * d <= a + d - 1
    BY <2>1, <1>3
  <2>3. g + 1 \in Int /\ ((g + 1) * d <= a + d - 1 => g + 1 <= c)
    BY <1>1
  <2> QED BY <1>1, <2>2, <2>3
<1> QED BY <1>1, <1>2, <1>3 DEF CeilDiv, c

(***************************************************************************)
(* A nonempty interval's image has a greatest and a least element.         *)
(***************************************************************************)
LEMMA MaxHolds ==
  ASSUME NEW a \in Int, NEW b \in Int, NEW S \in SUBSET (a..b), S # {}
  PROVE  /\ Max(S) \in S
         /\ \A y \in S : y <= Max(S)
<1> DEFINE T == {n \in Nat : b - n \in S}
<1>1. T \in SUBSET Nat /\ T # {}
  <2>1. PICK s \in S : TRUE
    OBVIOUS
  <2>2. b - s \in Nat /\ b - (b - s) = s
    BY <2>1
  <2> QED BY <2>1, <2>2
<1>2. PICK n \in T : \A y \in T : n <= y
  BY <1>1, LeastElement
<1>3. \A y \in S : b - n >= y
  <2> SUFFICES ASSUME NEW y \in S PROVE b - n >= y
    OBVIOUS
  <2>1. y \in Int /\ b - y \in Nat /\ b - (b - y) = y
    OBVIOUS
  <2> QED BY <2>1, <1>2
<1>4. \E x \in S : \A y \in S : x >= y
  BY <1>2, <1>3
<1>5. Max(S) \in S /\ \A y \in S : Max(S) >= y
  BY <1>4 DEF Max
<1> QED BY <1>5

(***************************************************************************)
(* A non-empty set of natural numbers holds its least element.             *)
(***************************************************************************)
LEMMA MinHolds ==
  ASSUME NEW S \in SUBSET Nat, S # {}
  PROVE  /\ Min(S) \in S
         /\ \A y \in S : Min(S) <= y
<1>1. \E x \in S : \A y \in S : x <= y
  BY LeastElement
<1> QED BY <1>1 DEF Min

\* The values of a row between two of its places.
Span(f, a, b) == {f[i] : i \in a..b}

(***************************************************************************)
(* The greatest of finitely many integers.                                 *)
(***************************************************************************)
LEMMA MaxOfImage ==
  ASSUME NEW a \in Int, NEW b \in Int, a <= b, NEW f, \A i \in a..b : f[i] \in Int
  PROVE  Max(Span(f, a, b)) \in Int
<1> DEFINE Has(n) == \E x \in {f[i] : i \in a..(a + n)} : \A y \in {f[i] : i \in a..(a + n)} : x >= y
           S == {n \in Nat : a + n <= b => Has(n)}
<1>1. 0 \in S
  <2>1. a..(a + 0) = {a}
    OBVIOUS
  <2>2. f[a] \in Int
    OBVIOUS
  <2>3. Has(0)
    BY <2>1, <2>2
  <2> QED BY <2>3
<1>2. ASSUME NEW n \in Nat, n \in S PROVE n + 1 \in S
  <2> SUFFICES ASSUME a + (n + 1) <= b PROVE Has(n + 1)
    OBVIOUS
  <2>1. PICK x \in {f[i] : i \in a..(a + n)} : \A y \in {f[i] : i \in a..(a + n)} : x >= y
    BY <1>2
  <2>2. \A i \in a..(a + (n + 1)) : f[i] \in Int /\ (i \in a..(a + n) \/ i = a + (n + 1))
    OBVIOUS
  <2>3. x \in Int /\ f[a + (n + 1)] \in Int /\ a + (n + 1) \in a..(a + (n + 1))
    OBVIOUS
  <2>4. x \in {f[i] : i \in a..(a + (n + 1))}
    OBVIOUS
  <2>5. CASE x >= f[a + (n + 1)]
    <3>1. \A y \in {f[i] : i \in a..(a + (n + 1))} : x >= y
      BY <2>1, <2>2, <2>5
    <3> QED BY <3>1, <2>4
  <2>6. CASE ~(x >= f[a + (n + 1)])
    <3>1. \A y \in {f[i] : i \in a..(a + (n + 1))} : f[a + (n + 1)] >= y
      BY <2>1, <2>2, <2>3, <2>6
    <3> QED BY <3>1, <2>3
  <2> QED BY <2>5, <2>6
<1>3. b - a \in S
  <2> HIDE DEF S
  <2> QED BY <1>1, <1>2, SetInduction
<1>4. Has(b - a) /\ a + (b - a) = b
  BY <1>3
<1>5. \E x \in {f[i] : i \in a..b} : \A y \in {f[i] : i \in a..b} : x >= y
  BY <1>4
<1>6. Max({f[i] : i \in a..b}) \in {f[i] : i \in a..b}
  BY <1>5 DEF Max
<1> QED BY <1>6 DEF Span

-----------------------------------------------------------------------------
(* The roles of the layers.                                                *)

\* The layers of a configuration.
LayersOf(c) == 0 .. c.layers - 1

(***************************************************************************)
(* Where the two halves of the trunk begin.                                *)
(***************************************************************************)
LEMMA Halves ==
  ASSUME NEW c, Typed(c), Validate(c), NEW l \in LayersOf(c)
  PROVE  /\ CEDSplit(c) \in LayersOf(c)
         /\ c.ced <=> CEDSplit(c) > 0
         /\ c.ced => Compression(c) > 1 /\ c.window > 0
         /\ IsDecoderLayer(c, l) <=> c.ced /\ l >= CEDSplit(c)
         /\ ReuseHalfStart(c, l) \in 0..l
         /\ ReuseHalfStart(c, l) = IF IsDecoderLayer(c, l) THEN CEDSplit(c) ELSE 0
         /\ ReuseModeAt(c, l) \in {"F", "R", "U"}
         /\ ReuseModeAt(c, 0) = "F"
         /\ c.ced => ReuseModeAt(c, CEDSplit(c)) = "F"
         /\ Compression(c) \in Nat \ {0}
<1>1. /\ c.layers \in Nat \ {0} /\ c.ced \in BOOLEAN /\ c.ratio \in Int
      /\ c.pattern \in Seq({"F", "R", "U"})
      /\ l \in Nat /\ l < c.layers
  BY DEF Typed, LayersOf
<1>2. c.ced => c.layers >= 2 /\ Compression(c) > 1 /\ c.window > 0
  BY DEF Validate
<1>3. c.ced => c.layers \div 2 \in Nat /\ c.layers \div 2 > 0 /\ c.layers \div 2 < c.layers
  BY <1>1, <1>2
<1>4. CEDSplit(c) \in LayersOf(c) /\ (c.ced <=> CEDSplit(c) > 0)
  BY <1>1, <1>3 DEF CEDSplit, LayersOf
<1>5. IsDecoderLayer(c, l) <=> c.ced /\ l >= CEDSplit(c)
  BY <1>4 DEF IsDecoderLayer
<1>6. /\ ReuseHalfStart(c, l) = IF IsDecoderLayer(c, l) THEN CEDSplit(c) ELSE 0
      /\ ReuseHalfStart(c, l) \in 0..l
  BY <1>1, <1>4, <1>5 DEF ReuseHalfStart, LayersOf
<1>7. ReuseModeAt(c, l) \in {"F", "R", "U"}
  <2>1. CASE c.pattern = << >>
    BY <2>1 DEF ReuseModeAt
  <2>2. CASE c.pattern # << >>
    <3> DEFINE n == Len(c.pattern)
               i == ((l - ReuseHalfStart(c, l)) % n) + 1
    <3>1. n \in Nat \ {0} /\ \A j \in 1..n : c.pattern[j] \in {"F", "R", "U"}
      BY <1>1, <2>2
    <3>2. l - ReuseHalfStart(c, l) \in Nat
      BY <1>1, <1>6
    <3>3. i \in 1..n
      <4> HIDE DEF n
      <4> QED BY <3>1, <3>2
    <3>4. ReuseModeAt(c, l) = c.pattern[i]
      BY <2>2 DEF ReuseModeAt
    <3> QED BY <3>1, <3>3, <3>4
  <2> QED BY <2>1, <2>2
<1>8. ReuseModeAt(c, 0) = "F" /\ (c.ced => ReuseModeAt(c, CEDSplit(c)) = "F")
  <2>1. CASE c.pattern = << >>
    BY <2>1 DEF ReuseModeAt
  <2>2. CASE c.pattern # << >>
    BY <2>2 DEF Validate
  <2> QED BY <2>1, <2>2
<1>9. Compression(c) \in Nat \ {0}
  BY <1>1 DEF Compression
<1> QED BY <1>2, <1>4, <1>5, <1>6, <1>7, <1>8, <1>9

(***************************************************************************)
(* The producer of a layer is the last Full layer up to it in its half.    *)
(***************************************************************************)
LEMMA Producers ==
  ASSUME NEW c, Typed(c), Validate(c), NEW l \in LayersOf(c)
  PROVE  LET p == ReuseProducer(c, l)
         IN  /\ p \in LayersOf(c) /\ p <= l
             /\ ReuseModeAt(c, p) = "F"
             /\ IsDecoderLayer(c, p) <=> IsDecoderLayer(c, l)
             /\ ReuseModeAt(c, l) = "F" => p = l
             /\ ReuseModeAt(c, l) # "F" =>
                  /\ l - 1 \in LayersOf(c)
                  /\ ReuseProducer(c, l - 1) = p
                  /\ IsDecoderLayer(c, l - 1) <=> IsDecoderLayer(c, l)
<1> DEFINE h == ReuseHalfStart(c, l)
           full == {i \in h .. l : ReuseModeAt(c, i) = "F"}
           p == ReuseProducer(c, l)
<1>1. /\ c.layers \in Nat \ {0} /\ l \in Nat /\ l < c.layers
      /\ c.ced \in BOOLEAN
  BY DEF Typed, LayersOf
<1>2. /\ CEDSplit(c) \in LayersOf(c) /\ (c.ced <=> CEDSplit(c) > 0)
      /\ IsDecoderLayer(c, l) <=> c.ced /\ l >= CEDSplit(c)
      /\ h \in 0..l /\ h = IF IsDecoderLayer(c, l) THEN CEDSplit(c) ELSE 0
      /\ ReuseModeAt(c, 0) = "F" /\ (c.ced => ReuseModeAt(c, CEDSplit(c)) = "F")
  BY Halves
<1>3. ReuseModeAt(c, h) = "F" /\ h \in full
  BY <1>2
<1>4. full \in SUBSET (h .. l) /\ full # {} /\ h \in Int /\ l \in Int
  BY <1>1, <1>2, <1>3
<1>5. p = Max(full)
  BY <1>3 DEF ReuseProducer
<1>6. p \in full /\ \A i \in full : i <= p
  BY <1>4, <1>5, MaxHolds
<1>7. p \in LayersOf(c) /\ p <= l /\ p >= h /\ ReuseModeAt(c, p) = "F"
  BY <1>1, <1>2, <1>6 DEF LayersOf
<1>8. \A i \in LayersOf(c) : IsDecoderLayer(c, i) <=> c.ced /\ i >= CEDSplit(c)
  BY Halves
<1>9. IsDecoderLayer(c, p) <=> IsDecoderLayer(c, l)
  BY <1>1, <1>2, <1>7, <1>8 DEF LayersOf
<1>10. ReuseModeAt(c, l) = "F" => p = l
  <2> SUFFICES ASSUME ReuseModeAt(c, l) = "F" PROVE p = l
    OBVIOUS
  <2>1. l \in full
    BY <1>1, <1>2
  <2> QED BY <2>1, <1>6, <1>7, <1>1 DEF LayersOf
<1>11. ASSUME ReuseModeAt(c, l) # "F"
       PROVE  /\ l - 1 \in LayersOf(c)
              /\ ReuseProducer(c, l - 1) = p
              /\ IsDecoderLayer(c, l - 1) <=> IsDecoderLayer(c, l)
  <2>1. l # h
    BY <1>3, <1>11
  <2>2. l - 1 \in LayersOf(c) /\ h <= l - 1
    BY <1>1, <1>2, <2>1 DEF LayersOf
  <2>3. IsDecoderLayer(c, l - 1) <=> IsDecoderLayer(c, l)
    BY <1>1, <1>2, <1>8, <2>2 DEF LayersOf
  <2>4. ReuseHalfStart(c, l - 1) = h
    BY <2>3 DEF ReuseHalfStart
  <2>5. {i \in h .. l - 1 : ReuseModeAt(c, i) = "F"} = full
    <3>1. \A i \in h .. l : i \in h .. l - 1 \/ i = l
      BY <1>1, <1>2
    <3>2. \A i \in h .. l - 1 : i \in h .. l
      BY <1>1, <1>2
    <3> QED BY <3>1, <3>2, <1>11
  <2>6. ReuseProducer(c, l - 1) = Max(full)
    BY <2>4, <2>5, <1>3 DEF ReuseProducer
  <2> QED BY <2>2, <2>3, <2>6, <1>5
<1> QED BY <1>7, <1>9, <1>10, <1>11

-----------------------------------------------------------------------------
(* Gradients.                                                              *)

\* The layers the way down has left.
Done ==
  IF phase = "forward" THEN {}
  ELSE IF phase = "backward" THEN {x \in Layers : x > layer} ELSE Layers

\* What the given layers owe the compressed keys they read.
OwedBy(S) == UNION {OwnGradient(r) : r \in S}

\* The layers that use the blocks of producer p, p itself included.
Group(p) == {x \in Layers : ReuseProducer(config, x) = p}

\* What each phase has recorded so far: reads of the layers gone up, shares of
\* the producers among them, gradients of the layers gone down.
TrainingTypes ==
  /\ config \in Configs
  /\ phase \in {"forward", "backward", "serve"}
  /\ layer \in Layers
  /\ DOMAIN reads = IF phase = "forward" THEN {x \in Layers : x < layer} ELSE Layers
  /\ DOMAIN shares = {p \in DOMAIN reads : Mode(p) = "F"}
  /\ \A p \in DOMAIN shares : DOMAIN shares[p] = {"selection", "pool", "gradient"}
  /\ DOMAIN arrived = Done

\* GradientsReachTheirRows is inductive with what the accumulators hold: each
\* share what the layers passed owe its group, the encoder's what the groups
\* passed owe it.
GradientInv ==
  /\ TrainingTypes
  /\ \A p \in DOMAIN shares : shares[p].gradient = OwedBy(Group(p) \cap Done)
  /\ gradientEncoder =
       ThroughCompressor(OwedBy({x \in Layers : /\ IsDecoderLayer(config, x)
                                                /\ ReuseProducer(config, x) \in Done}))
  /\ GradientsReachTheirRows

(***************************************************************************)
(* What the gradients are made of does not change on the way down.         *)
(***************************************************************************)
LEMMA OwedKept ==
  ASSUME config' = config, segments' = segments, reads' = reads
  PROVE  /\ Layers' = Layers
         /\ \A r : OwnGradient(r)' = OwnGradient(r)
         /\ \A r : LocalGradient(r)' = LocalGradient(r)
         /\ \A S : OwedBy(S)' = OwedBy(S)
         /\ \A S : ThroughCompressor(S)' = ThroughCompressor(S)
         /\ \A r : Owed(r)' = Owed(r)
         /\ \A p : Group(p)' = Group(p)
<1>1. Layers' = Layers /\ Ratio' = Ratio
  BY DEF Layers, Ratio
<1>2. \A r : OwnGradient(r)' = OwnGradient(r)
  BY DEF OwnGradient
<1>3. \A r : LocalGradient(r)' = LocalGradient(r)
  BY DEF LocalGradient
<1>4. \A S : OwedBy(S)' = OwedBy(S)
  BY <1>2 DEF OwedBy
<1>5. \A S : ThroughCompressor(S)' = ThroughCompressor(S)
  BY <1>1 DEF ThroughCompressor
<1>6. \A l : SourceOf(l)' = SourceOf(l)
  BY DEF SourceOf
<1>7. \A r : Owed(r)' = Owed(r)
  BY <1>1, <1>2, <1>3, <1>5, <1>6 DEF Owed
<1>8. \A p : Group(p)' = Group(p)
  BY <1>1 DEF Group
<1> QED BY <1>1, <1>2, <1>3, <1>4, <1>5, <1>7, <1>8

(***************************************************************************)
(* What flows through a compressor distributes over unions.                *)
(***************************************************************************)
LEMMA ThroughJoins ==
  /\ ThroughCompressor({}) = {}
  /\ \A A, B : ThroughCompressor(A \cup B) = ThroughCompressor(A) \cup ThroughCompressor(B)
<1>1. ThroughCompressor({}) = {}
  BY DEF ThroughCompressor
<1>2. ASSUME NEW A, NEW B
      PROVE ThroughCompressor(A \cup B) = ThroughCompressor(A) \cup ThroughCompressor(B)
  <2> DEFINE Spread(g) == {<<g[1], g[2], p, g[4]>> : p \in BlockRows(segments, Ratio, Length, g[3])}
  <2>1. \A X : ThroughCompressor(X) = UNION {Spread(g) : g \in X}
    BY DEF ThroughCompressor
  <2> HIDE DEF Spread
  <2> QED BY <2>1
<1> QED BY <1>1, <1>2

(***************************************************************************)
(* What a set of reads owes is the union of what each of them owes.        *)
(***************************************************************************)
LEMMA OwedByJoins ==
  /\ OwedBy({}) = {}
  /\ \A S, R : OwedBy(S \cup R) = OwedBy(S) \cup OwedBy(R)
  /\ \A r : OwedBy({r}) = OwnGradient(r)
<1>1. \A S : OwedBy(S) = UNION {OwnGradient(r) : r \in S}
  BY DEF OwedBy
<1> QED BY <1>1

(***************************************************************************)
(* What every layer owes, by its role: the encoder's output is owed by all *)
(* decoder layers, an encoder's Full layer by its group.                   *)
(***************************************************************************)
LEMMA OwedParts ==
  ASSUME config \in Configs, NEW l \in Layers
  PROVE  /\ IsDecoderLayer(config, l) /\ l = CEDSplit(config) =>
              Owed(l) = LocalGradient(l) \cup ThroughCompressor(OwedBy({x \in Layers : IsDecoderLayer(config, x)}))
         /\ IsDecoderLayer(config, l) /\ l # CEDSplit(config) => Owed(l) = LocalGradient(l)
         /\ ~IsDecoderLayer(config, l) /\ Mode(l) = "F" =>
              Owed(l) = LocalGradient(l) \cup ThroughCompressor(OwedBy(Group(l)))
         /\ ~IsDecoderLayer(config, l) /\ Mode(l) # "F" => Owed(l) = LocalGradient(l)
         /\ InjectsEncoderGradient(l) <=> IsDecoderLayer(config, l) /\ l = CEDSplit(config)
<1> DEFINE From == {x \in Layers : SourceOf(x) = l}
<1>1. Typed(config) /\ Validate(config)
  BY ConfigsAssumption
<1>2. Layers = LayersOf(config)
  BY DEF Layers, LayersOf
<1>3. Owed(l) = LocalGradient(l) \cup ThroughCompressor(OwedBy(From))
  BY DEF Owed, OwedBy
<1>4. \A x \in Layers : /\ IsDecoderLayer(config, x) <=> config.ced /\ x >= CEDSplit(config)
                        /\ CEDSplit(config) \in Layers
                        /\ config.ced <=> CEDSplit(config) > 0
  BY <1>1, <1>2, Halves
<1>13. \A x \in Layers : IsDecoderLayer(config, x) => IsDecoderLayer(config, CEDSplit(config))
  <2>1. \A x \in Layers : x \in Int
    BY DEF Layers
  <2> QED BY <1>4, <2>1
<1>5. \A x \in Layers :
        /\ ReuseProducer(config, x) \in Layers /\ ReuseProducer(config, x) <= x
        /\ Mode(ReuseProducer(config, x)) = "F"
        /\ IsDecoderLayer(config, ReuseProducer(config, x)) <=> IsDecoderLayer(config, x)
  BY <1>1, <1>2, Producers DEF Mode
<1>6. \A x \in Layers : SourceOf(x) = IF IsDecoderLayer(config, x) THEN CEDSplit(config)
                                      ELSE ReuseProducer(config, x)
  BY DEF SourceOf
<1>7. IsDecoderLayer(config, l) /\ l = CEDSplit(config) => From = {x \in Layers : IsDecoderLayer(config, x)}
  BY <1>5, <1>6
<1>8. IsDecoderLayer(config, l) /\ l # CEDSplit(config) => From = {}
  BY <1>5, <1>6
<1>9. ~IsDecoderLayer(config, l) /\ Mode(l) = "F" => From = Group(l)
  <2> SUFFICES ASSUME ~IsDecoderLayer(config, l) PROVE From = Group(l)
    OBVIOUS
  <2>1. \A x \in Layers : IsDecoderLayer(config, x) => CEDSplit(config) # l
    BY <1>13
  <2> QED BY <2>1, <1>5, <1>6 DEF Group
<1>10. ~IsDecoderLayer(config, l) /\ Mode(l) # "F" => From = {}
  <2> SUFFICES ASSUME ~IsDecoderLayer(config, l), Mode(l) # "F" PROVE From = {}
    OBVIOUS
  <2>1. \A x \in Layers : IsDecoderLayer(config, x) => CEDSplit(config) # l
    BY <1>13
  <2> QED BY <2>1, <1>5, <1>6
<1>11. LocalGradient(l) \cup ThroughCompressor(OwedBy({})) = LocalGradient(l)
  BY ThroughJoins, OwedByJoins
<1>12. InjectsEncoderGradient(l) <=> IsDecoderLayer(config, l) /\ l = CEDSplit(config)
  BY <1>4 DEF InjectsEncoderGradient, Layers
<1> QED BY <1>3, <1>7, <1>8, <1>9, <1>10, <1>11, <1>12

(***************************************************************************)
(* A step begins with nothing read and nothing owed.                       *)
(***************************************************************************)
LEMMA GradientStart == TrunkInit => GradientInv
<1> SUFFICES ASSUME TrunkInit PROVE GradientInv
  OBVIOUS
<1>1. /\ config \in Configs /\ phase = "forward" /\ layer = 0
      /\ shares = << >> /\ reads = << >> /\ gradientEncoder = {} /\ arrived = << >>
  BY DEF TrunkInit
<1>2. Typed(config)
  BY <1>1, ConfigsAssumption
<1>3. layer \in Layers /\ {x \in Layers : x < layer} = {}
  BY <1>1, <1>2 DEF Layers, Typed
<1>4. Done = {}
  BY <1>1 DEF Done
<1>5. DOMAIN reads = {} /\ DOMAIN shares = {} /\ DOMAIN arrived = {}
  BY <1>1
<1>6. TrainingTypes
  BY <1>1, <1>3, <1>4, <1>5 DEF TrainingTypes
<1>7. {x \in Layers : IsDecoderLayer(config, x) /\ ReuseProducer(config, x) \in Done} = {}
  BY <1>4
<1>8. gradientEncoder = ThroughCompressor(OwedBy({}))
  BY <1>1, ThroughJoins, OwedByJoins
<1> QED BY <1>5, <1>6, <1>7, <1>8 DEF GradientInv, GradientsReachTheirRows

(***************************************************************************)
(* A layer of the way up: nothing is owed yet.                             *)
(***************************************************************************)
LEMMA GradientUp ==
  ASSUME GradientInv, phase = "forward",
         NEW share, DOMAIN share = {"selection", "pool", "gradient"}, share.gradient = {},
         Trained(ReuseProducer(config, layer), share),
         ToNextLayer, UNCHANGED <<model, gradientEncoder, arrived, inference>>
  PROVE  GradientInv'
<1> DEFINE p == ReuseProducer(config, layer)
           context == ContextOf(layer, share)
           left == Published(layer, share, context)
<1>1. /\ config \in Configs /\ layer \in Layers
      /\ DOMAIN reads = {x \in Layers : x < layer}
      /\ DOMAIN shares = {q \in DOMAIN reads : Mode(q) = "F"}
      /\ \A q \in DOMAIN shares : DOMAIN shares[q] = {"selection", "pool", "gradient"}
      /\ Done = {} /\ DOMAIN arrived = {}
  BY DEF GradientInv, TrainingTypes, Done
<1>2. \A q \in DOMAIN shares : shares[q].gradient = {}
  <2>1. \A q : Group(q) \cap Done = {}
    BY <1>1
  <2> QED BY <1>1, <2>1, OwedByJoins DEF GradientInv
<1>3. gradientEncoder = {}
  <2>1. {x \in Layers : IsDecoderLayer(config, x) /\ ReuseProducer(config, x) \in Done} = {}
    BY <1>1
  <2> QED BY <2>1, ThroughJoins, OwedByJoins DEF GradientInv
<1>4. Typed(config) /\ Validate(config) /\ Layers = LayersOf(config)
  BY <1>1, ConfigsAssumption DEF Layers, LayersOf
<1>5. /\ p \in Layers /\ p <= layer /\ Mode(p) = "F"
      /\ Mode(layer) = "F" => p = layer
  BY <1>1, <1>4, Producers DEF Mode
<1>6. config' = config /\ segments' = segments /\ gradientEncoder' = gradientEncoder /\ arrived' = arrived
  BY DEF model
<1>7. Layers' = Layers /\ \A x : Mode(x)' = Mode(x)
  BY <1>6 DEF Layers, Mode
<1>8. reads' = Put(reads, layer, context) /\ shares' = Put(shares, p, left)
  BY DEF Trained
<1>9. DOMAIN left = {"selection", "pool", "gradient"} /\ left.gradient = {}
  BY DEF Published
<1>10. layer \in Int /\ layer >= 0 /\ layer <= config.layers - 1 /\ config.layers \in Int
  BY <1>1, <1>4 DEF Layers, Typed
<1>11. DOMAIN reads' = {x \in Layers : x <= layer}
  <2>1. \A x \in Layers : x \in Int
    BY DEF Layers
  <2> HIDE DEF context
  <2>2. DOMAIN reads' = DOMAIN reads \cup {layer}
    BY <1>8 DEF Put, With
  <2>3. \A x \in Layers : x <= layer <=> x < layer \/ x = layer
    BY <2>1, <1>10
  <2> QED BY <2>2, <2>3, <1>1
<1>12. /\ layer' \in Layers /\ phase' \in {"forward", "backward"}
       /\ phase' = "forward" => {x \in Layers : x <= layer} = {x \in Layers : x < layer'}
       /\ phase' = "backward" => {x \in Layers : x <= layer} = Layers
       /\ phase' = "backward" => {x \in Layers : x > layer'} = {}
  <2>1. \A x \in Layers : x \in Int /\ x <= config.layers - 1
    BY <1>10 DEF Layers
  <2>2. CASE layer + 1 < config.layers
    <3>1. layer' = layer + 1 /\ phase' = phase
      BY <2>2 DEF ToNextLayer
    <3>2. layer + 1 \in Layers
      BY <2>2, <1>10 DEF Layers
    <3>3. {x \in Layers : x <= layer} = {x \in Layers : x < layer + 1}
      BY <2>1, <1>10
    <3> QED BY <3>1, <3>2, <3>3
  <2>3. CASE ~(layer + 1 < config.layers)
    <3>1. layer' = layer /\ phase' = "backward"
      BY <2>3 DEF ToNextLayer
    <3>2. \A x \in Layers : x <= layer /\ ~(x > layer)
      BY <2>1, <2>3, <1>10
    <3> QED BY <3>1, <3>2, <1>1
  <2> QED BY <2>2, <2>3
<1>13. Done' = {}
  BY <1>7, <1>12 DEF Done
<1>14. DOMAIN shares' = {q \in DOMAIN reads' : Mode(q)' = "F"}
  <2>1. DOMAIN shares' = DOMAIN shares \cup {p}
    BY <1>8 DEF Put, With
  <2>2. \A x \in Layers : x \in Int
    BY DEF Layers
  <2>3. \A q \in Layers : q <= layer <=> q < layer \/ q = layer
    BY <2>2, <1>10
  <2> QED BY <2>1, <2>3, <1>1, <1>5, <1>7, <1>11
<1>15. \A q \in DOMAIN shares' : /\ DOMAIN shares'[q] = {"selection", "pool", "gradient"}
                                 /\ shares'[q].gradient = {}
  <2>0. PICK k, new : k = p /\ new = left
    OBVIOUS
  <2>3. shares' = Put(shares, k, new)
    BY <1>8, <2>0
  <2>4. DOMAIN new = {"selection", "pool", "gradient"} /\ new.gradient = {}
    BY <1>9, <2>0
  <2>1. /\ DOMAIN shares' = DOMAIN shares \cup {k}
        /\ shares'[k] = new
        /\ \A q \in DOMAIN shares : q # k => shares'[q] = shares[q]
    BY <2>3 DEF Put, With
  <2>2. ASSUME NEW q \in DOMAIN shares'
        PROVE  DOMAIN shares'[q] = {"selection", "pool", "gradient"} /\ shares'[q].gradient = {}
    <3>1. CASE q = k
      BY <3>1, <2>1, <2>4
    <3>2. CASE q # k
      <4>1. q \in DOMAIN shares /\ shares'[q] = shares[q]
        BY <3>2, <2>1
      <4> QED BY <4>1, <1>1, <1>2
    <3> QED BY <3>1, <3>2
  <2> QED BY <2>2
<1>16. TrainingTypes'
  BY <1>1, <1>6, <1>7, <1>11, <1>12, <1>13, <1>14, <1>15 DEF TrainingTypes
<1>17. \A q \in DOMAIN shares' : shares'[q].gradient = OwedBy(Group(q) \cap Done)'
  <2>1. \A q : (Group(q) \cap Done)' = {}
    BY <1>13
  <2>2. OwedBy({})' = {}
    BY DEF OwedBy
  <2>3. \A q : OwedBy(Group(q) \cap Done)' = {}
    BY <2>1 DEF OwedBy
  <2> QED BY <2>3, <1>15
<1>18. gradientEncoder' =
         ThroughCompressor(OwedBy({x \in Layers : /\ IsDecoderLayer(config, x)
                                                  /\ ReuseProducer(config, x) \in Done}))'
  <2>1. {x \in Layers : IsDecoderLayer(config, x) /\ ReuseProducer(config, x) \in Done}' = {}
    BY <1>13
  <2>2. OwedBy({x \in Layers : IsDecoderLayer(config, x) /\ ReuseProducer(config, x) \in Done})' = {}
    BY <2>1 DEF OwedBy
  <2> QED BY <2>2, <1>3, <1>6 DEF ThroughCompressor
<1>19. GradientsReachTheirRows'
  BY <1>1, <1>6 DEF GradientsReachTheirRows
<1> QED BY <1>16, <1>17, <1>18, <1>19 DEF GradientInv

(***************************************************************************)
(* A layer of the way down: what its accumulators hold is what it owes.    *)
(***************************************************************************)
LEMMA LeaveLayer ==
  ASSUME TrainingTypes, phase = "backward", NEW direct, NEW encoder,
         Leave(direct, encoder), UNCHANGED <<model, reads>>
  PROVE  /\ config' = config /\ segments' = segments /\ reads' = reads
         /\ gradientEncoder' = encoder
         /\ phase' \in {"backward", "serve"} /\ layer' \in Layers'
         /\ layer \notin Done /\ Done' = Done \cup {layer}
         /\ DOMAIN arrived' = Done'
         /\ arrived'[layer] = direct \cup (IF InjectsEncoderGradient(layer) THEN encoder ELSE {})
         /\ \A l \in Done : arrived'[l] = arrived[l]
<1> DEFINE all == direct \cup (IF InjectsEncoderGradient(layer) THEN encoder ELSE {})
<1>1. /\ config \in Configs /\ layer \in Layers /\ DOMAIN arrived = Done
      /\ Done = {x \in Layers : x > layer}
  BY DEF TrainingTypes, Done
<1>2. Typed(config)
  BY <1>1, ConfigsAssumption
<1>3. config' = config /\ segments' = segments /\ reads' = reads
  BY DEF model
<1>4. Layers' = Layers
  BY <1>3 DEF Layers
<1>5. \A x \in Layers : x \in Int /\ x >= 0
  BY DEF Layers
<1>6. /\ layer' \in Layers
      /\ phase' \in {"backward", "serve"}
      /\ Done' = Done \cup {layer}
  <2>1. CASE layer > 0
    <3>1. layer' = layer - 1 /\ phase' = "backward"
      BY <2>1 DEF Leave
    <3>2. layer - 1 \in Layers
      BY <2>1, <1>1, <1>2 DEF Layers, Typed
    <3>3. Done' = {x \in Layers : x > layer - 1}
      BY <3>1, <1>4 DEF Done
    <3>4. \A x \in Layers : x > layer - 1 <=> x > layer \/ x = layer
      BY <1>1, <1>5
    <3> QED BY <3>1, <3>2, <3>3, <3>4, <1>1
  <2>2. CASE ~(layer > 0)
    <3>1. layer' = layer /\ phase' = "serve"
      BY <2>2 DEF Leave
    <3>2. Done' = Layers
      BY <3>1, <1>4 DEF Done
    <3>3. \A x \in Layers : x > layer \/ x = layer
      BY <2>2, <1>1, <1>5
    <3> QED BY <3>1, <3>2, <3>3, <1>1
  <2> QED BY <2>1, <2>2
<1>7. PICK l0, new : l0 = layer /\ new = all
  OBVIOUS
<1>8. arrived' = Put(arrived, l0, new) /\ gradientEncoder' = encoder
  BY <1>7 DEF Leave
<1>9. /\ DOMAIN arrived' = DOMAIN arrived \cup {l0}
      /\ arrived'[l0] = new
      /\ \A l \in DOMAIN arrived : l # l0 => arrived'[l] = arrived[l]
  BY <1>8 DEF Put, With
<1>10. layer \notin Done
  BY <1>1, <1>5
<1> QED BY <1>1, <1>3, <1>4, <1>6, <1>7, <1>8, <1>9, <1>10

(***************************************************************************)
(* One layer of the backward pass: the gradients that arrive are those     *)
(* owed.                                                                   *)
(***************************************************************************)
LEMMA GradientDown ==
  ASSUME GradientInv, BackwardFull \/ BackwardBorrowed
  PROVE  GradientInv'
<1> DEFINE p == ReuseProducer(config, layer)
           sent(S) == {x \in Layers : IsDecoderLayer(config, x) /\ ReuseProducer(config, x) \in S}
           rows2 == IF Mode(layer) = "F" THEN ThroughCompressor(OwedBy(Group(layer))) ELSE {}
<1>1. /\ TrainingTypes /\ GradientsReachTheirRows
      /\ config \in Configs /\ layer \in Layers /\ phase = "backward"
      /\ DOMAIN reads = Layers
      /\ DOMAIN shares = {q \in Layers : Mode(q) = "F"}
      /\ \A q \in DOMAIN shares : DOMAIN shares[q] = {"selection", "pool", "gradient"}
      /\ DOMAIN arrived = Done
      /\ Done = {x \in Layers : x > layer}
      /\ \A q \in DOMAIN shares : shares[q].gradient = OwedBy(Group(q) \cap Done)
      /\ gradientEncoder = ThroughCompressor(OwedBy(sent(Done)))
  BY DEF GradientInv, TrainingTypes, BackwardFull, BackwardBorrowed, Done
<1>2. Typed(config) /\ Validate(config) /\ Layers = LayersOf(config)
  BY <1>1, ConfigsAssumption DEF Layers, LayersOf
<1>3. /\ p \in Layers /\ p <= layer /\ Mode(p) = "F"
      /\ Mode(layer) = "F" => p = layer
      /\ IsDecoderLayer(config, p) <=> IsDecoderLayer(config, layer)
  BY <1>1, <1>2, Producers DEF Mode
<1>4. \A x \in Layers : /\ x \in Int
                        /\ ReuseProducer(config, x) \in Layers /\ ReuseProducer(config, x) <= x
                        /\ Mode(ReuseProducer(config, x)) = "F"
                        /\ IsDecoderLayer(config, ReuseProducer(config, x)) <=> IsDecoderLayer(config, x)
  <2>1. \A x \in Layers : x \in Int
    BY DEF Layers
  <2>2. \A x \in Layers :
          /\ ReuseProducer(config, x) \in Layers /\ ReuseProducer(config, x) <= x
          /\ Mode(ReuseProducer(config, x)) = "F"
          /\ IsDecoderLayer(config, ReuseProducer(config, x)) <=> IsDecoderLayer(config, x)
    BY <1>2, Producers DEF Mode
  <2> QED BY <2>1, <2>2
<1>5. /\ UNCHANGED <<model, reads>>
      /\ shares' = [shares EXCEPT ![p].gradient = @ \cup OwnGradient(layer)]
  BY <1>3 DEF BackwardFull, BackwardBorrowed
<1>6. /\ DOMAIN shares' = DOMAIN shares
      /\ \A q \in DOMAIN shares : DOMAIN shares'[q] = {"selection", "pool", "gradient"}
      /\ \A q \in DOMAIN shares : q # p => shares'[q].gradient = shares[q].gradient
      /\ shares'[p].gradient = shares[p].gradient \cup OwnGradient(layer)
  <2>1. p \in DOMAIN shares
    BY <1>1, <1>3
  <2>2. PICK k, more : k = p /\ more = OwnGradient(layer)
    OBVIOUS
  <2>3. shares' = [shares EXCEPT ![k].gradient = @ \cup more]
    BY <1>5, <2>2
  <2>4. k \in DOMAIN shares /\ "gradient" \in DOMAIN shares[k]
    BY <2>1, <2>2, <1>1
  <2>5. /\ DOMAIN shares' = DOMAIN shares
        /\ \A q \in DOMAIN shares : q # k => shares'[q] = shares[q]
        /\ shares'[k] = [shares[k] EXCEPT !.gradient = @ \cup more]
    BY <2>3, <2>4
  <2>6. /\ DOMAIN shares'[k] = {"selection", "pool", "gradient"}
        /\ shares'[k].gradient = shares[k].gradient \cup more
    BY <2>4, <2>5, <1>1
  <2> QED BY <2>2, <2>5, <2>6, <1>1
<1>7. Group(p) \cap (Done \cup {layer}) = (Group(p) \cap Done) \cup {layer}
  BY <1>1 DEF Group
<1>8. shares'[p].gradient = OwedBy(Group(p) \cap (Done \cup {layer}))
  <2>1. p \in DOMAIN shares
    BY <1>1, <1>3
  <2>2. OwedBy((Group(p) \cap Done) \cup {layer}) = OwedBy(Group(p) \cap Done) \cup OwnGradient(layer)
    BY DEF OwedBy
  <2> QED BY <2>1, <2>2, <1>1, <1>6, <1>7
<1>9. \A q \in DOMAIN shares : q # p => Group(q) \cap (Done \cup {layer}) = Group(q) \cap Done
  BY DEF Group
<1>10. Mode(layer) = "F" => shares'[layer].gradient = OwedBy(Group(layer))
  <2> SUFFICES ASSUME Mode(layer) = "F" PROVE shares'[layer].gradient = OwedBy(Group(layer))
    OBVIOUS
  <2>1. p = layer
    BY <1>3
  <2>2. Group(layer) \cap (Done \cup {layer}) = Group(layer)
    <3>1. \A x \in Group(layer) : x \in Layers /\ layer <= x
      BY <1>4 DEF Group
    <3>2. \A x \in Group(layer) : x \in Done \/ x = layer
      BY <3>1, <1>1, <1>4
    <3> QED BY <3>2
  <2> QED BY <2>1, <2>2, <1>8
<1>11. /\ IsDecoderLayer(config, layer) => Leave(LocalGradient(layer), gradientEncoder \cup rows2)
       /\ ~IsDecoderLayer(config, layer) => Leave(LocalGradient(layer) \cup rows2, gradientEncoder)
  <2>1. CASE Mode(layer) = "F"
    <3>1. BackwardFull
      BY <2>1 DEF BackwardBorrowed
    <3>2. ThroughCompressor(shares'[layer].gradient) = rows2
      BY <2>1, <1>10
    <3> QED BY <3>1, <3>2 DEF BackwardFull
  <2>2. CASE Mode(layer) # "F"
    <3>1. BackwardBorrowed
      BY <2>2 DEF BackwardFull
    <3>2. rows2 = {} /\ Leave(LocalGradient(layer), gradientEncoder)
      BY <2>2, <3>1 DEF BackwardBorrowed
    <3>3. gradientEncoder \cup {} = gradientEncoder /\ LocalGradient(layer) \cup {} = LocalGradient(layer)
      OBVIOUS
    <3> QED BY <3>2, <3>3
  <2> QED BY <2>1, <2>2
<1>12. PICK direct, encoder :
         /\ Leave(direct, encoder)
         /\ IsDecoderLayer(config, layer) =>
              direct = LocalGradient(layer) /\ encoder = gradientEncoder \cup rows2
         /\ ~IsDecoderLayer(config, layer) =>
              direct = LocalGradient(layer) \cup rows2 /\ encoder = gradientEncoder
  <2> HIDE DEF rows2
  <2> QED BY <1>11
<1>13. /\ config' = config /\ segments' = segments /\ reads' = reads
       /\ gradientEncoder' = encoder
       /\ phase' \in {"backward", "serve"} /\ layer' \in Layers'
       /\ layer \notin Done /\ Done' = Done \cup {layer}
       /\ DOMAIN arrived' = Done'
       /\ arrived'[layer] = direct \cup (IF InjectsEncoderGradient(layer) THEN encoder ELSE {})
       /\ \A l \in Done : arrived'[l] = arrived[l]
  BY <1>1, <1>5, <1>12, LeaveLayer
<1>14. /\ Layers' = Layers
       /\ \A S : OwedBy(S)' = OwedBy(S)
       /\ \A S : ThroughCompressor(S)' = ThroughCompressor(S)
       /\ \A r : Owed(r)' = Owed(r)
       /\ \A q : Group(q)' = Group(q)
  BY <1>13, OwedKept
<1>15. encoder = ThroughCompressor(OwedBy(sent(Done \cup {layer})))
  <2>1. sent(Done \cup {layer}) =
          sent(Done) \cup (IF IsDecoderLayer(config, layer) THEN Group(layer) ELSE {})
    <3>1. \A x \in Group(layer) : IsDecoderLayer(config, x) <=> IsDecoderLayer(config, layer)
      BY <1>4 DEF Group
    <3> QED BY <3>1 DEF Group
  <2>2. Mode(layer) # "F" => Group(layer) = {}
    BY <1>4 DEF Group
  <2>3. ThroughCompressor(OwedBy(sent(Done) \cup Group(layer)))
          = gradientEncoder \cup ThroughCompressor(OwedBy(Group(layer)))
    BY <1>1, ThroughJoins, OwedByJoins
  <2>4. ThroughCompressor(OwedBy({})) = {}
    BY ThroughJoins, OwedByJoins
  <2>5. rows2 = ThroughCompressor(OwedBy(Group(layer)))
    BY <2>2, <2>4
  <2>6. CASE IsDecoderLayer(config, layer)
    <3>1. encoder = gradientEncoder \cup rows2
      BY <1>12, <2>6
    <3> QED BY <3>1, <2>1, <2>3, <2>5, <2>6
  <2>7. CASE ~IsDecoderLayer(config, layer)
    <3>1. sent(Done \cup {layer}) = sent(Done)
      BY <2>1, <2>7
    <3> QED BY <3>1, <1>1, <1>12, <2>7
  <2> QED BY <2>6, <2>7
<1>16. arrived'[layer] = Owed(layer)
  <2> HIDE DEF rows2
  <2>1. /\ IsDecoderLayer(config, layer) /\ layer = CEDSplit(config) =>
             Owed(layer) = LocalGradient(layer) \cup ThroughCompressor(OwedBy({x \in Layers : IsDecoderLayer(config, x)}))
        /\ IsDecoderLayer(config, layer) /\ layer # CEDSplit(config) => Owed(layer) = LocalGradient(layer)
        /\ ~IsDecoderLayer(config, layer) /\ Mode(layer) = "F" =>
             Owed(layer) = LocalGradient(layer) \cup ThroughCompressor(OwedBy(Group(layer)))
        /\ ~IsDecoderLayer(config, layer) /\ Mode(layer) # "F" => Owed(layer) = LocalGradient(layer)
        /\ InjectsEncoderGradient(layer) <=> IsDecoderLayer(config, layer) /\ layer = CEDSplit(config)
    BY <1>1, OwedParts
  <2>2. CASE IsDecoderLayer(config, layer) /\ layer = CEDSplit(config)
    <3>1. sent(Done \cup {layer}) = {x \in Layers : IsDecoderLayer(config, x)}
      <4>1. \A x \in Layers : IsDecoderLayer(config, x) <=> config.ced /\ x >= layer
        BY <1>2, <2>2, Halves
      <4>2. ASSUME NEW x \in Layers, IsDecoderLayer(config, x)
            PROVE ReuseProducer(config, x) \in Done \cup {layer}
        <5>1. ReuseProducer(config, x) \in Layers /\ ReuseProducer(config, x) >= layer
          BY <4>1, <4>2, <1>4
        <5> QED BY <5>1, <1>1, <1>4
      <4> QED BY <4>2
    <3>2. arrived'[layer] = LocalGradient(layer) \cup encoder
      BY <1>12, <1>13, <2>1, <2>2
    <3> QED BY <3>1, <3>2, <2>1, <2>2, <1>15
  <2>3. CASE IsDecoderLayer(config, layer) /\ layer # CEDSplit(config)
    <3>1. arrived'[layer] = LocalGradient(layer) \cup {}
      BY <1>12, <1>13, <2>1, <2>3
    <3> QED BY <3>1, <2>1, <2>3
  <2>4. CASE ~IsDecoderLayer(config, layer)
    <3>1. arrived'[layer] = (LocalGradient(layer) \cup rows2) \cup {}
      BY <1>12, <1>13, <2>1, <2>4
    <3> QED BY <3>1, <2>1, <2>4 DEF rows2
  <2> QED BY <2>2, <2>3, <2>4
<1>17. GradientsReachTheirRows'
  <2>1. ASSUME NEW l \in DOMAIN arrived' PROVE arrived'[l] = Owed(l)'
    <3>1. CASE l = layer
      BY <3>1, <1>14, <1>16
    <3>2. CASE l # layer
      <4>1. l \in Done /\ arrived'[l] = arrived[l] /\ arrived[l] = Owed(l)
        BY <3>2, <2>1, <1>1, <1>13 DEF GradientsReachTheirRows
      <4> QED BY <4>1, <1>14
    <3> QED BY <3>1, <3>2
  <2> QED BY <2>1 DEF GradientsReachTheirRows
<1>18. \A x : Mode(x)' = Mode(x)
  BY <1>13 DEF Mode
<1>19. TrainingTypes'
  BY <1>1, <1>6, <1>13, <1>14, <1>18 DEF TrainingTypes
<1>20. \A q \in DOMAIN shares' : shares'[q].gradient = OwedBy(Group(q) \cap Done)'
  <2>1. ASSUME NEW q \in DOMAIN shares
        PROVE  shares'[q].gradient = OwedBy(Group(q) \cap (Done \cup {layer}))
    <3>1. CASE q = p
      BY <3>1, <1>8
    <3>2. CASE q # p
      BY <3>2, <1>1, <1>6, <1>9
    <3> QED BY <3>1, <3>2
  <2>2. \A q : (Group(q) \cap Done)' = Group(q) \cap (Done \cup {layer})
    BY <1>13, <1>14
  <2>3. ASSUME NEW q PROVE OwedBy(Group(q) \cap Done)' = OwedBy(Group(q) \cap (Done \cup {layer}))
    <3>2. \A r : OwnGradient(r)' = OwnGradient(r)
      BY <1>13, OwedKept
    <3> QED BY <2>2, <3>2 DEF OwedBy
  <2> QED BY <2>1, <2>3, <1>6
<1>21. gradientEncoder' =
         ThroughCompressor(OwedBy({x \in Layers : /\ IsDecoderLayer(config, x)
                                                  /\ ReuseProducer(config, x) \in Done}))'
  <2>1. {x \in Layers : IsDecoderLayer(config, x) /\ ReuseProducer(config, x) \in Done}' = sent(Done \cup {layer})
    BY <1>13, <1>14
  <2>2. \A r : OwnGradient(r)' = OwnGradient(r)
    BY <1>13, OwedKept
  <2>3. OwedBy({x \in Layers : IsDecoderLayer(config, x) /\ ReuseProducer(config, x) \in Done})'
          = OwedBy(sent(Done \cup {layer}))
    BY <2>1, <2>2 DEF OwedBy
  <2>4. PICK T : T = OwedBy(sent(Done \cup {layer}))
    OBVIOUS
  <2>6. ThroughCompressor(OwedBy({x \in Layers : IsDecoderLayer(config, x) /\ ReuseProducer(config, x) \in Done}))'
          = ThroughCompressor(T)'
    BY <2>3, <2>4 DEF ThroughCompressor
  <2>5. ThroughCompressor(OwedBy({x \in Layers : IsDecoderLayer(config, x) /\ ReuseProducer(config, x) \in Done}))'
          = ThroughCompressor(OwedBy(sent(Done \cup {layer})))
    BY <2>4, <2>6, <1>14
  <2> QED BY <2>5, <1>13, <1>15
<1> QED BY <1>17, <1>19, <1>20, <1>21 DEF GradientInv

(***************************************************************************)
(* Every step of the trunk keeps the invariant of the backward pass.       *)
(***************************************************************************)
LEMMA GradientStep ==
  ASSUME GradientInv, [TrunkNext]_trunkVars
  PROVE  GradientInv'
<1>1. CASE ForwardFull
  <2>1. phase = "forward" /\ Mode(layer) = "F" /\ layer \in Layers /\ config \in Configs
    BY <1>1 DEF ForwardFull, GradientInv, TrainingTypes
  <2>2. ReuseProducer(config, layer) = layer
    <3>1. Typed(config) /\ Validate(config) /\ layer \in LayersOf(config)
      BY <2>1, ConfigsAssumption DEF Layers, LayersOf
    <3> QED BY <2>1, <3>1, Producers DEF Mode
  <2>3. DOMAIN NewShare = {"selection", "pool", "gradient"} /\ NewShare.gradient = {}
    BY DEF NewShare
  <2>4. /\ Trained(ReuseProducer(config, layer), NewShare) /\ ToNextLayer
        /\ UNCHANGED <<model, gradientEncoder, arrived, inference>>
    BY <1>1, <2>2 DEF ForwardFull
  <2> QED BY <2>1, <2>3, <2>4, GradientUp
<1>2. CASE ForwardBorrowed
  <2> DEFINE p == ReuseProducer(config, layer)
  <2>1. /\ phase = "forward" /\ Mode(layer) # "F" /\ layer \in Layers /\ config \in Configs
        /\ DOMAIN shares = {q \in {x \in Layers : x < layer} : Mode(q) = "F"}
        /\ \A q \in DOMAIN shares : DOMAIN shares[q] = {"selection", "pool", "gradient"}
        /\ \A q \in DOMAIN shares : shares[q].gradient = OwedBy(Group(q) \cap Done)
        /\ Done = {}
    BY <1>2 DEF ForwardBorrowed, GradientInv, TrainingTypes, Done
  <2>2. p \in Layers /\ p < layer /\ Mode(p) = "F"
    <3>1. Typed(config) /\ Validate(config) /\ layer \in LayersOf(config) /\ Layers = LayersOf(config)
      BY <2>1, ConfigsAssumption DEF Layers, LayersOf
    <3>2. p \in Layers /\ p <= layer /\ Mode(p) = "F"
      BY <3>1, Producers DEF Mode
    <3>3. p # layer
      BY <2>1, <3>2
    <3> QED BY <2>1, <3>2, <3>3 DEF Layers
  <2>3. p \in DOMAIN shares
    BY <2>1, <2>2
  <2>4. OwedBy(Group(p) \cap Done) = {}
    BY <2>1 DEF OwedBy
  <2>5. PICK share : share = shares[p]
    OBVIOUS
  <2>6. DOMAIN share = {"selection", "pool", "gradient"} /\ share.gradient = {}
    BY <2>1, <2>3, <2>4, <2>5
  <2>7. /\ Trained(p, share) /\ ToNextLayer
        /\ UNCHANGED <<model, gradientEncoder, arrived, inference>>
    BY <1>2, <2>5 DEF ForwardBorrowed
  <2> QED BY <2>1, <2>6, <2>7, GradientUp
<1>3. CASE BackwardFull \/ BackwardBorrowed
  BY <1>3, GradientDown
<1>4. ASSUME NEW count \in 1 .. Length, Forward(count) \/ PrefillCED(count)
      PROVE  UNCHANGED <<model, phase, layer, training>>
  BY <1>4 DEF Forward, PrefillCED
<1>5. CASE UNCHANGED <<model, phase, layer, training>>
  <2>1. /\ config' = config /\ segments' = segments /\ phase' = phase /\ layer' = layer
        /\ shares' = shares /\ reads' = reads /\ gradientEncoder' = gradientEncoder /\ arrived' = arrived
    BY <1>5 DEF model, training
  <2>2. /\ Layers' = Layers /\ Ratio' = Ratio
        /\ \A x : Mode(x)' = Mode(x)
    BY <2>1 DEF Layers, Ratio, Mode
  <2>3. Done' = Done
    BY <2>1, <2>2 DEF Done
  <2>4. TrainingTypes'
    BY <2>1, <2>2, <2>3 DEF TrainingTypes, GradientInv
  <2>5. /\ \A r : OwnGradient(r)' = OwnGradient(r)
        /\ \A r : Owed(r)' = Owed(r)
        /\ \A S : ThroughCompressor(S)' = ThroughCompressor(S)
        /\ \A p : Group(p)' = Group(p)
    BY <2>1, OwedKept
  <2>6. \A p : OwedBy(Group(p) \cap Done)' = OwedBy(Group(p) \cap Done)
    BY <2>3, <2>5 DEF OwedBy
  <2>7. OwedBy({x \in Layers : IsDecoderLayer(config, x) /\ ReuseProducer(config, x) \in Done})'
          = OwedBy({x \in Layers : IsDecoderLayer(config, x) /\ ReuseProducer(config, x) \in Done})
    BY <2>1, <2>2, <2>3, <2>5 DEF OwedBy
  <2>8. PICK T : T = OwedBy({x \in Layers : IsDecoderLayer(config, x) /\ ReuseProducer(config, x) \in Done})
    OBVIOUS
  <2>9. ThroughCompressor(OwedBy({x \in Layers : IsDecoderLayer(config, x) /\ ReuseProducer(config, x) \in Done}))'
          = ThroughCompressor(T)'
    BY <2>7, <2>8 DEF ThroughCompressor
  <2>10. GradientsReachTheirRows'
    BY <2>1, <2>5 DEF GradientInv, GradientsReachTheirRows
  <2>11. \A p \in DOMAIN shares' : shares'[p].gradient = OwedBy(Group(p) \cap Done)'
    BY <2>1, <2>6 DEF GradientInv
  <2>12. gradientEncoder' =
           ThroughCompressor(OwedBy({x \in Layers : IsDecoderLayer(config, x) /\ ReuseProducer(config, x) \in Done}))'
    BY <2>1, <2>5, <2>8, <2>9 DEF GradientInv
  <2> QED BY <2>4, <2>10, <2>11, <2>12 DEF GradientInv
<1>6. CASE UNCHANGED trunkVars
  BY <1>5, <1>6 DEF trunkVars
<1> QED BY <1>1, <1>2, <1>3, <1>4, <1>5, <1>6 DEF TrunkNext

(***************************************************************************)
(* GradientInv is an invariant.                                            *)
(***************************************************************************)
LEMMA GradientInvariance == TrunkSpec => []GradientInv
<1>1. TrunkInit => GradientInv
  BY GradientStart
<1>2. GradientInv /\ [TrunkNext]_trunkVars => GradientInv'
  BY GradientStep
<1> QED BY <1>1, <1>2, PTL DEF TrunkSpec

(***************************************************************************)
(* Before the backward pass leaves a layer, every gradient of the          *)
(* activation that enters it has arrived (train_transformer.go): from the  *)
(* layers that borrowed its compressed keys and, at the encoder's output,  *)
(* from all decoder layers, whatever the reuse pattern.                    *)
(***************************************************************************)
THEOREM GradientsArrive == TrunkSpec => []GradientsReachTheirRows
<1>1. GradientInv => GradientsReachTheirRows
  BY DEF GradientInv
<1> QED BY <1>1, GradientInvariance, PTL

-----------------------------------------------------------------------------
(* Sample-level masks.                                                     *)

(***************************************************************************)
(* What a layer reads of a row that is masked.                             *)
(***************************************************************************)
LEMMA ReadsMasked ==
  ASSUME segments # Unmasked, NEW l, NEW share, NEW t \in Positions
  PROVE  LET read == ContextOf(l, share)[t]
         IN  /\ SameSegment(read.local, t)
             /\ Mode(l) = "F" =>
                  \A b \in read.blocks \union read.indexed :
                    SameSegment(BlockRows(segments, Ratio, Length, b), t)
<1> DEFINE read == ContextOf(l, share)[t]
<1>1. /\ read.blocks = IF Compressed THEN GlobalReads(l, t, share) ELSE {}
      /\ read.indexed = Distilled(l, t, share)
      /\ read.local = Local(l, t)
  BY DEF ContextOf
<1>2. \A window, first : SameSegment(WindowRows(segments, window, first, t), t)
  BY DEF SameSegment, WindowRows
<1>3. SameSegment({}, t)
  BY DEF SameSegment
<1>4. SameSegment(read.local, t)
  BY <1>1, <1>2, <1>3 DEF Local
<1>5. ASSUME NEW b, segments[b * Ratio] = segments[t]
      PROVE  SameSegment(BlockRows(segments, Ratio, Length, b), t)
  BY <1>5 DEF SameSegment, BlockRows, BlockSegment
<1>6. \A S : \A b \in FilterBlocksBySegment(S, segments, Ratio, t) : segments[b * Ratio] = segments[t]
  BY DEF FilterBlocksBySegment, BlockSegment
<1>7. ASSUME Mode(l) = "F"
      PROVE  \A b \in read.blocks \union read.indexed : segments[b * Ratio] = segments[t]
  <2>1. MaskOf(l) = segments
    BY <1>7 DEF MaskOf
  <2>2. \A b \in GlobalReads(l, t, share) : segments[b * Ratio] = segments[t]
    BY <2>1, <1>6 DEF GlobalReads
  <2>3. \A b \in Distilled(l, t, share) : segments[b * Ratio] = segments[t]
    BY <2>1, <1>6 DEF Distilled
  <2> QED BY <1>1, <2>2, <2>3
<1> QED BY <1>4, <1>5, <1>7

(***************************************************************************)
(* Reads recorded under the masks of their layer stay in the document.     *)
(***************************************************************************)
LEMMA MaskStep ==
  ASSUME GradientInv, OwnBlocksStayInSegment, [TrunkNext]_trunkVars
  PROVE  OwnBlocksStayInSegment'
<1> SUFFICES ASSUME segments' # Unmasked, NEW l \in DOMAIN reads', NEW t \in Positions
             PROVE  /\ SameSegment(reads[l][t].local, t)'
                    /\ Mode(l)' = "F" =>
                         \A b \in reads'[l][t].blocks \union reads'[l][t].indexed :
                           SameSegment(BlockRows(segments, Ratio, Length, b), t)'
  BY DEF OwnBlocksStayInSegment, Positions
<1>1. config' = config /\ segments' = segments
  BY DEF TrunkNext, ForwardFull, ForwardBorrowed, BackwardFull, BackwardBorrowed, Forward,
         PrefillCED, trunkVars, model
<1>2. /\ Mode(l)' = Mode(l) /\ Ratio' = Ratio
      /\ \A S : SameSegment(S, t)' = SameSegment(S, t)
      /\ \A b : SameSegment(BlockRows(segments, Ratio, Length, b), t)'
                  = SameSegment(BlockRows(segments, Ratio, Length, b), t)
  BY <1>1 DEF Mode, Ratio, SameSegment
<1>3. CASE reads' = reads
  <2>1. /\ SameSegment(reads[l][t].local, t)
        /\ Mode(l) = "F" =>
             \A b \in reads[l][t].blocks \union reads[l][t].indexed :
               SameSegment(BlockRows(segments, Ratio, Length, b), t)
    BY <1>1, <1>3 DEF OwnBlocksStayInSegment
  <2>2. SameSegment(reads[l][t].local, t)' = SameSegment(reads[l][t].local, t)
    BY <1>1, <1>3 DEF SameSegment
  <2> QED BY <2>1, <2>2, <1>2, <1>3
<1>4. ASSUME NEW producer, NEW share, Trained(producer, share)
      PROVE  /\ SameSegment(reads[l][t].local, t)'
             /\ Mode(l)' = "F" =>
                  \A b \in reads'[l][t].blocks \union reads'[l][t].indexed :
                    SameSegment(BlockRows(segments, Ratio, Length, b), t)'
  <2>1. PICK context, l0 : context = ContextOf(layer, share) /\ l0 = layer
    OBVIOUS
  <2>2. reads' = Put(reads, l0, context)
    BY <1>4, <2>1 DEF Trained
  <2>3. /\ DOMAIN reads' = DOMAIN reads \cup {l0}
        /\ reads'[l0] = context
        /\ \A x \in DOMAIN reads : x # l0 => reads'[x] = reads[x]
    BY <2>2 DEF Put, With
  <2>4. PICK read : read = reads'[l][t]
    OBVIOUS
  <2>5. /\ SameSegment(read.local, t)
        /\ Mode(l) = "F" =>
             \A b \in read.blocks \union read.indexed :
               SameSegment(BlockRows(segments, Ratio, Length, b), t)
    <3>1. CASE l = l0
      BY <1>1, <2>1, <2>3, <2>4, <3>1, ReadsMasked
    <3>2. CASE l # l0
      BY <1>1, <2>3, <2>4, <3>2 DEF OwnBlocksStayInSegment
    <3> QED BY <3>1, <3>2
  <2>6. SameSegment(reads[l][t].local, t)' = SameSegment(read.local, t)
    BY <1>1, <2>4 DEF SameSegment
  <2> QED BY <2>4, <2>5, <2>6, <1>2
<1>5. reads' = reads \/ \E producer, share : Trained(producer, share)
  BY DEF TrunkNext, ForwardFull, ForwardBorrowed, BackwardFull, BackwardBorrowed, Forward,
         PrefillCED, trunkVars, training
<1> QED BY <1>3, <1>4, <1>5

(***************************************************************************)
(* With sample-level masking a layer that owns its compression reads and   *)
(* distils only blocks of the query's own document, and no local window    *)
(* leaves it, for every packing of documents into a row and every reuse    *)
(* pattern (compress_attention.go).                                        *)
(***************************************************************************)
THEOREM MaskedReadsIsolated == TrunkSpec => []OwnBlocksStayInSegment
<1>1. TrunkInit => OwnBlocksStayInSegment
  BY DEF TrunkInit, OwnBlocksStayInSegment
<1>2. GradientInv /\ OwnBlocksStayInSegment /\ [TrunkNext]_trunkVars => OwnBlocksStayInSegment'
  BY MaskStep
<1> QED BY <1>1, <1>2, GradientInvariance, PTL DEF TrunkSpec

-----------------------------------------------------------------------------
(* The indexer's order.                                                    *)

\* The place that comes r-th.
Placed(v, n, r) == CHOOSE i \in 1..n : Rank(v, i) = r - 1

\* How many of n entries a selection of k takes.
Taken(k, n) == IF k <= n THEN k ELSE n

\* The row is sorted already.
Descending(v, n) == \A i, j \in 1..n : i < j => v[i] >= v[j]

(***************************************************************************)
(* The places TopKIndices lists, in descending order of their values; of a *)
(* row that is already in that order, the first ones.                      *)
(***************************************************************************)
LEMMA TopK ==
  ASSUME NEW n \in Nat, NEW v \in [1..n -> Int], NEW k \in Int
  PROVE  /\ Taken(k, n) \in Int
         /\ DOMAIN TopKIndices(v, k) = 1..Taken(k, n)
         /\ \A r \in 1..Taken(k, n) :
              /\ TopKIndices(v, k)[r] \in 1..n
              /\ TopKIndices(v, k)[r] = Placed(v, n, r)
              /\ Rank(v, TopKIndices(v, k)[r]) = r - 1
              /\ Descending(v, n) => TopKIndices(v, k)[r] = r
<1> DEFINE order == TopKIndices(v, k)
           taken == Taken(k, n)
<1>1. Len(v) = n /\ DOMAIN v = 1..n /\ taken \in Int
  BY DEF Taken
<1>2. Min({k, Len(v)}) = taken
  BY <1>1, MinPair DEF Taken
<1>3. order = [r \in 1..taken |-> Placed(v, n, r)]
  BY <1>1, <1>2 DEF TopKIndices, Placed, Rank, Ahead
<1>4. ASSUME NEW r \in 1..taken
      PROVE  r \in 1..n /\ order[r] \in 1..n /\ Rank(v, order[r]) = r - 1
  <2>1. r \in 1..n
    BY <1>1 DEF Taken
  <2>2. \E i \in 1..n : Rank(v, i) = r - 1
    BY <2>1, Ranks
  <2>3. order[r] = CHOOSE i \in 1..n : Rank(v, i) = r - 1
    BY <1>3 DEF Placed
  <2> QED BY <2>1, <2>2, <2>3
<1>6. ASSUME Descending(v, n), NEW r \in 1..taken
      PROVE  order[r] = r
  <2>1. r \in 1..n /\ order[r] \in 1..n /\ Rank(v, order[r]) = r - 1
    BY <1>4
  <2>2. {j \in 1..n : Ahead(v, j, r)} = 1..(r - 1)
    <3>1. ASSUME NEW j \in 1..n PROVE Ahead(v, j, r) <=> j < r
      <4>1. v[j] \in Int /\ v[r] \in Int
        BY <2>1
      <4>2. CASE j < r
        <5>1. v[j] >= v[r]
          BY <1>6, <2>1, <4>2 DEF Descending
        <5> QED BY <4>1, <4>2, <5>1 DEF Ahead
      <4>3. CASE j = r
        BY <4>1, <4>3 DEF Ahead
      <4>4. CASE j > r
        <5>1. v[r] >= v[j]
          BY <1>6, <2>1, <4>4 DEF Descending
        <5> QED BY <4>1, <4>4, <5>1 DEF Ahead
      <4> QED BY <2>1, <4>2, <4>3, <4>4
    <3> QED BY <3>1, <2>1
  <2>3. Rank(v, r) = r - 1
    <3>1. Rank(v, r) = Cardinality(1..(r - 1))
      BY <2>2, <1>1 DEF Rank
    <3> QED BY <3>1, <2>1, FS_Interval
  <2> QED BY <2>1, <2>3, Ranks
<1> QED BY <1>1, <1>3, <1>4, <1>6

(***************************************************************************)
(* The indices of topKIndices come by falling score.                       *)
(***************************************************************************)
LEMMA TopKDescends ==
  ASSUME NEW n \in Nat, NEW v \in [1..n -> Int], NEW k \in Int,
         NEW r \in 1..Taken(k, n), NEW s \in 1..Taken(k, n), r < s
  PROVE  v[TopKIndices(v, k)[r]] >= v[TopKIndices(v, k)[s]]
<1>0. Taken(k, n) \in Int
  BY TopK
<1>1. PICK i \in 1..n, j \in 1..n : i = TopKIndices(v, k)[r] /\ j = TopKIndices(v, k)[s]
  BY TopK
<1>2. Rank(v, i) = r - 1 /\ Rank(v, j) = s - 1
  BY <1>1, TopK
<1>3. ~Ahead(v, j, i)
  <2>1. ~(Rank(v, j) < Rank(v, i))
    BY <1>0, <1>2
  <2> QED BY <2>1, Ranks
<1>4. v[i] \in Int /\ v[j] \in Int
  OBVIOUS
<1> QED BY <1>1, <1>3, <1>4 DEF Ahead

\* The blocks of a super-block that the query sees.
GroupStart(pool, g) == (g - 1) * pool
GroupEnd(allowed, pool, g) == Min({g * pool, allowed}) - 1

(***************************************************************************)
(* The value of a super-block is the maximum of its blocks that the query  *)
(* sees, however many blocks there are beyond them.                        *)
(***************************************************************************)
LEMMA GroupMaxSees ==
  ASSUME NEW row, NEW blocks \in Nat, NEW allowed \in Nat, allowed <= blocks,
         NEW pool \in Nat \ {0}, NEW g \in 1..CeilDiv(allowed, pool)
  PROVE  /\ GroupMax(row, blocks, allowed, pool, g - 1)
              = Max(Span(row, GroupStart(pool, g), GroupEnd(allowed, pool, g)))
         /\ GroupStart(pool, g) \in Nat
         /\ GroupStart(pool, g) < allowed
         /\ GroupEnd(allowed, pool, g) \in Int
         /\ GroupStart(pool, g) <= GroupEnd(allowed, pool, g)
         /\ GroupEnd(allowed, pool, g) < allowed
<1>1. CeilDiv(allowed, pool) \in Nat /\ g \in Nat /\ g >= 1
  BY CeilQuotient
<1>2. (g - 1) * pool < allowed
  BY <1>1, CeilQuotient
<1>3. g * pool \in Nat /\ (g - 1) * pool = g * pool - pool /\ (g - 1) * pool \in Nat
      /\ (g - 1 + 1) * pool = g * pool
  BY <1>1
<1>4. PICK last : last = IF allowed % pool # 0 /\ g - 1 = allowed \div pool THEN allowed ELSE blocks
  OBVIOUS
<1>5. GroupMax(row, blocks, allowed, pool, g - 1)
        = Max(Span(row, (g - 1) * pool, Min({g * pool, last}) - 1))
  BY <1>3, <1>4 DEF GroupMax, Span
<1>6. Min({g * pool, last}) = Min({g * pool, allowed})
  <2>1. CASE g * pool <= allowed
    <3>1. g <= allowed \div pool /\ allowed \div pool \in Int
      BY <2>1, <1>1, <1>3, Quotient
    <3>2. last = blocks
      BY <3>1, <1>1, <1>4
    <3> QED BY <3>2, <2>1, <1>3, MinPair
  <2>2. CASE g * pool > allowed
    <3>1. PICK q \in Int, r \in 0..(pool - 1) : allowed = q * pool + r /\ q = allowed \div pool /\ r = allowed % pool
      OBVIOUS
    <3>2. q < g
      BY <3>1, <2>2, <1>1, Quotient
    <3>3. g - 1 <= q
      <4>1. \A u \in Int : u * pool <= allowed => u <= q
        <5>1. q = allowed \div pool
          BY <3>1
        <5> QED BY <5>1, Quotient
      <4>2. (g - 1) * pool <= allowed /\ g - 1 \in Int
        BY <1>1, <1>2, <1>3
      <4> QED BY <4>1, <4>2
    <3>4. q = g - 1
      <4>1. q \in Int
        BY <3>1
      <4> QED BY <3>2, <3>3, <1>1, <4>1
    <3>5. r # 0
      BY <3>1, <3>4, <1>2, <1>3
    <3>6. last = allowed
      BY <3>1, <3>4, <3>5, <1>4
    <3> QED BY <3>6
  <2> QED BY <2>1, <2>2, <1>3
<1>7. PICK whole \in Nat, start \in Nat : whole = g * pool /\ start = (g - 1) * pool
  BY <1>3
<1>8. start < allowed /\ start = whole - pool
  BY <1>2, <1>3, <1>7
<1>9. Min({whole, allowed}) = IF whole <= allowed THEN whole ELSE allowed
  BY MinPair
<1>10. /\ Min({whole, allowed}) - 1 \in Int
       /\ start <= Min({whole, allowed}) - 1
       /\ Min({whole, allowed}) - 1 < allowed
  BY <1>8, <1>9
<1> QED BY <1>2, <1>3, <1>5, <1>6, <1>7, <1>10 DEF GroupStart, GroupEnd

(***************************************************************************)
(* A pool depends on the blocks the query sees and on no others, and holds *)
(* no others.                                                              *)
(***************************************************************************)
LEMMA PoolSees ==
  ASSUME NEW row, NEW blocks \in Nat, NEW allowed \in Nat, allowed <= blocks,
         NEW pool \in Nat \ {0}, NEW budget
  PROVE  Candidates(row, blocks, allowed, pool, budget) = Candidates(row, allowed, allowed, pool, budget)
<1>1. [g \in 1 .. CeilDiv(allowed, pool) |-> GroupMax(row, blocks, allowed, pool, g - 1)]
        = [g \in 1 .. CeilDiv(allowed, pool) |-> GroupMax(row, allowed, allowed, pool, g - 1)]
  <2>1. ASSUME NEW g \in 1 .. CeilDiv(allowed, pool)
        PROVE  GroupMax(row, blocks, allowed, pool, g - 1) = GroupMax(row, allowed, allowed, pool, g - 1)
    <3>1. GroupMax(row, blocks, allowed, pool, g - 1)
            = Max(Span(row, GroupStart(pool, g), GroupEnd(allowed, pool, g)))
      BY GroupMaxSees
    <3>2. GroupMax(row, allowed, allowed, pool, g - 1)
            = Max(Span(row, GroupStart(pool, g), GroupEnd(allowed, pool, g)))
      <4>1. allowed <= allowed
        OBVIOUS
      <4> QED BY <4>1, GroupMaxSees
    <3> QED BY <3>1, <3>2
  <2> QED BY <2>1
<1> QED BY <1>1 DEF Candidates

(***************************************************************************)
(* Candidates are visible blocks.                                          *)
(***************************************************************************)
LEMMA PoolHolds ==
  ASSUME NEW row, NEW blocks \in Nat, NEW allowed \in Nat, allowed <= blocks,
         NEW pool \in Nat \ {0}, NEW budget \in Int,
         \A b \in 0..(allowed - 1) : row[b] \in Int
  PROVE  Candidates(row, blocks, allowed, pool, budget) \in Seq(0..(allowed - 1))
<1> DEFINE groups == CeilDiv(allowed, pool)
           maxima == [g \in 1 .. groups |-> GroupMax(row, blocks, allowed, pool, g - 1)]
           size == Max({1, CeilDiv(budget, pool)})
           chosen == TopKIndices(maxima, size)
           entries(g) == [i \in 1 .. Min({pool, allowed - (g - 1) * pool}) |-> (g - 1) * pool + i - 1]
<1>1. groups \in Nat /\ CeilDiv(budget, pool) \in Int
  BY CeilQuotient
<1>2. ASSUME NEW g \in 1..groups
      PROVE  GroupMax(row, blocks, allowed, pool, g - 1) \in Int
  <2>0. /\ GroupMax(row, blocks, allowed, pool, g - 1)
              = Max(Span(row, GroupStart(pool, g), GroupEnd(allowed, pool, g)))
        /\ GroupStart(pool, g) \in Nat
        /\ GroupEnd(allowed, pool, g) \in Int
        /\ GroupStart(pool, g) <= GroupEnd(allowed, pool, g)
        /\ GroupEnd(allowed, pool, g) < allowed
    BY GroupMaxSees
  <2>1. PICK a \in Nat, z \in Int : a = GroupStart(pool, g) /\ z = GroupEnd(allowed, pool, g)
    BY <2>0
  <2>2. a <= z /\ z < allowed /\ GroupMax(row, blocks, allowed, pool, g - 1) = Max(Span(row, a, z))
    BY <2>0, <2>1
  <2>3. \A b \in a..z : row[b] \in Int
    BY <2>2
  <2> QED BY <2>2, <2>3, MaxOfImage
<1>3. maxima \in [1..groups -> Int]
  BY <1>2
<1>4. size \in Int
  BY <1>1, MaxPair
<1>5. PICK taken \in Int : DOMAIN chosen = 1..taken /\ taken = Taken(size, groups)
  <2> HIDE DEF maxima, size, groups
  <2> QED BY <1>1, <1>3, <1>4, TopK
<1>6. \A r \in 1..taken : chosen[r] \in 1..groups
  <2> HIDE DEF maxima, size, groups
  <2> QED BY <1>1, <1>3, <1>4, <1>5, TopK
<1>7. ASSUME NEW g \in 1..groups
      PROVE  entries(g) \in Seq(0..(allowed - 1))
  <2>0. (g - 1) * pool \in Nat /\ (g - 1) * pool < allowed
    BY GroupMaxSees DEF GroupStart
  <2>1. PICK a \in Nat : a = (g - 1) * pool /\ a < allowed
    BY <2>0
  <2>2. Min({pool, allowed - a}) = IF pool <= allowed - a THEN pool ELSE allowed - a
    BY <2>1, MinPair
  <2>3. PICK m \in Nat : m = Min({pool, allowed - a}) /\ m <= allowed - a
    BY <2>1, <2>2
  <2>4. entries(g) = [i \in 1..m |-> a + i - 1]
    BY <2>1, <2>3
  <2>5. \A i \in 1..m : a + i - 1 \in 0..(allowed - 1)
    BY <2>1, <2>3
  <2>6. [i \in 1..m |-> a + i - 1] \in [1..m -> 0..(allowed - 1)]
    BY <2>5
  <2>7. [i \in 1..m |-> a + i - 1] \in Seq(0..(allowed - 1))
    BY <2>6
  <2> QED BY <2>4, <2>7
<1>8. PICK m \in Nat : 1..taken = 1..m
  BY <1>1, <1>4, <1>5 DEF Taken
<1>9. [i \in DOMAIN chosen |-> entries(chosen[i])] \in Seq(Seq(0..(allowed - 1)))
  <2> HIDE DEF entries, chosen, groups
  <2>1. \A i \in 1..m : entries(chosen[i]) \in Seq(0..(allowed - 1))
    BY <1>6, <1>7, <1>8
  <2>2. [i \in 1..m |-> entries(chosen[i])] \in [1..m -> Seq(0..(allowed - 1))]
    BY <2>1
  <2>3. [i \in 1..m |-> entries(chosen[i])] \in Seq(Seq(0..(allowed - 1)))
    BY <2>2
  <2>4. DOMAIN chosen = 1..m
    BY <1>5, <1>8
  <2> QED BY <2>3, <2>4
<1>10. Candidates(row, blocks, allowed, pool, budget) = FlattenSeq([i \in DOMAIN chosen |-> entries(chosen[i])])
  BY DEF Candidates
<1> QED BY <1>9, <1>10, FlattenType

(***************************************************************************)
(* What is selected from a list of blocks is in the list.                  *)
(***************************************************************************)
LEMMA TopKFrom ==
  ASSUME NEW row, NEW B, \A b \in B : row[b] \in Int,
         NEW list \in Seq(B), NEW k \in Int
  PROVE  LET order == TopKFromScoreRow(row, list, k)
         IN  \A r \in DOMAIN order : order[r] \in B
<1> DEFINE n == Len(list)
           v == [i \in DOMAIN list |-> row[list[i]]]
           order == TopKIndices(v, k)
<1>1. n \in Nat /\ DOMAIN list = 1..n /\ \A i \in 1..n : list[i] \in B
  OBVIOUS
<1>2. v \in [1..n -> Int]
  BY <1>1
<1>3. \A r \in DOMAIN order : order[r] \in 1..n
  <2> HIDE DEF v, n
  <2> QED BY <1>1, <1>2, TopK
<1>4. TopKFromScoreRow(row, list, k) = [i \in DOMAIN order |-> list[order[i]]]
  BY DEF TopKFromScoreRow
<1> QED BY <1>1, <1>3, <1>4

(***************************************************************************)
(* A pool of super-blocks of one block is the order of the blocks itself,  *)
(* so that any pool that is large enough has the same best ones.           *)
(***************************************************************************)
Lowered(s) == [i \in DOMAIN s |-> s[i] - 1]

\* The first k blocks a query sees, in the order of their scores.
Seen(row, allowed) == [h \in 1..allowed |-> row[h - 1]]

\* The blocks of the k best scores among the allowed ones, best first.
Best(row, allowed, k) ==
  [r \in 1..Taken(k, allowed) |-> Placed(Seen(row, allowed), allowed, r) - 1]

(***************************************************************************)
(* Appending a sequence of one element.                                    *)
(***************************************************************************)
LEMMA OneMore ==
  ASSUME NEW T, NEW g \in Seq(T), NEW x \in Seq(T), Len(x) = 1
  PROVE  /\ Len(g \o x) = Len(g) + 1
         /\ \A i \in 1..(Len(g) + 1) : (g \o x)[i] = IF i <= Len(g) THEN g[i] ELSE x[1]
<1> DEFINE m == Len(g)
           n == Len(x)
           c == g \o x
<1>1. /\ m \in Nat /\ n \in Nat /\ Len(c) = m + n
      /\ \A i \in 1..(m + n) : c[i] = IF i <= m THEN g[i] ELSE x[i - m]
  <2>1. /\ c \in Seq(T) /\ Len(c) = m + n
        /\ \A i \in 1..(m + n) : c[i] = IF i <= m THEN g[i] ELSE x[i - m]
    BY ConcatProperties
  <2>2. m \in Nat /\ n \in Nat
    OBVIOUS
  <2> QED BY <2>1, <2>2
<1>2. Len(c) = m + 1
  BY <1>1
<1>3. ASSUME NEW i \in 1..(Len(g) + 1)
      PROVE  (g \o x)[i] = IF i <= Len(g) THEN g[i] ELSE x[1]
  <2>1. i \in 1..(m + n) /\ (i <= m \/ i - m = 1)
    BY <1>1
  <2>2. c[i] = IF i <= m THEN g[i] ELSE x[i - m]
    BY <1>1, <2>1
  <2> HIDE DEF m, c
  <2>3. c[i] = IF i <= m THEN g[i] ELSE x[1]
    BY <2>1, <2>2
  <2> QED BY <2>3 DEF m, c
<1> QED BY <1>2, <1>3

(***************************************************************************)
(* A range of one number is a sequence of one element.                     *)
(***************************************************************************)
LEMMA CountedOnce ==
  ASSUME NEW a \in Int
  PROVE  LET e == [x \in 1..1 |-> a + x - 1] IN e \in Seq(Int) /\ Len(e) = 1 /\ e[1] = a
<1> DEFINE e == [x \in 1..1 |-> a + x - 1]
<1>1. e \in [1..1 -> Int]
  OBVIOUS
<1>2. e \in Seq(Int)
  BY <1>1
<1>3. Len(e) = 1
  BY <1>1
<1>4. e[1] = a
  OBVIOUS
<1> QED BY <1>2, <1>3, <1>4

(***************************************************************************)
(* Flattening sequences of one element each lists these elements.          *)
(***************************************************************************)
LEMMA SingletonsFlatten ==
  ASSUME NEW T, NEW s \in Seq(Seq(T)), NEW u \in Seq(T), Len(u) = Len(s),
         \A i \in 1..Len(s) : Len(s[i]) = 1 /\ s[i][1] = u[i]
  PROVE  FlattenSeq(s) = u
<1> DEFINE n == Len(s)
<1>1. PICK G \in [0..n -> Seq(T)] : /\ G[0] = << >>
                                    /\ \A k \in 1..n : G[k] = G[k - 1] \o s[k]
                                    /\ FlattenSeq(s) = G[n]
  BY FlattenDef
<1>2. n \in Nat /\ (\A k \in 0..n : G[k] \in Seq(T)) /\ \A k \in 1..n : s[k] \in Seq(T)
  OBVIOUS
<1> DEFINE Has(k) == Len(G[k]) = k /\ \A i \in 1..k : G[k][i] = u[i]
           S == {k \in Nat : k <= n => Has(k)}
<1>3. 0 \in S
  BY <1>1
<1>4. ASSUME NEW k \in Nat, k \in S PROVE k + 1 \in S
  <2> SUFFICES ASSUME k + 1 <= n PROVE Has(k + 1)
    OBVIOUS
  <2>1. Has(k) /\ k \in 0..n /\ k + 1 \in 1..n /\ (k + 1) - 1 = k
    BY <1>2, <1>4
  <2>2. G[k + 1] = G[k] \o s[k + 1]
    BY <1>1, <2>1
  <2>3. PICK g \in Seq(T), x \in Seq(T) : g = G[k] /\ x = s[k + 1]
    BY <1>2, <2>1
  <2>4. Len(g) = k /\ Len(x) = 1 /\ x[1] = u[k + 1] /\ \A i \in 1..k : g[i] = u[i]
    BY <2>1, <2>3
  <2>5. Len(g \o x) = k + 1 /\ \A i \in 1..(k + 1) : (g \o x)[i] = IF i <= k THEN g[i] ELSE x[1]
    BY <2>4, OneMore, SMTT(30)
  <2>6. ASSUME NEW i \in 1..(k + 1) PROVE (g \o x)[i] = u[i]
    <3>1. CASE i \in 1..k
      BY <2>4, <2>5, <3>1
    <3>2. CASE i = k + 1
      BY <2>4, <2>5, <3>2
    <3>3. i \in 1..k \/ i = k + 1
      OBVIOUS
    <3> QED BY <3>1, <3>2, <3>3
  <2> QED BY <2>2, <2>3, <2>5, <2>6
<1>5. n \in S
  <2> HIDE DEF S
  <2> QED BY <1>2, <1>3, <1>4, SetInduction
<1>6. Has(n)
  BY <1>2, <1>5
<1>7. G[n] \in Seq(T) /\ Len(G[n]) = Len(u) /\ \A i \in 1..n : G[n][i] = u[i]
  BY <1>2, <1>6
<1>8. G[n] = u
  <2> HIDE DEF Has, S
  <2>1. PICK g \in Seq(T) : g = G[n]
    BY <1>7
  <2>2. Len(g) = Len(u) /\ \A i \in 1..Len(u) : g[i] = u[i]
    BY <1>7, <2>1
  <2> QED BY <2>1, <2>2, SeqEqual
<1> QED BY <1>1, <1>8

(***************************************************************************)
(* Without pooling the candidates are the best of the visible blocks, as   *)
(* many as the budget has room for.                                        *)
(***************************************************************************)
LEMMA FlatPool ==
  ASSUME NEW row, NEW blocks \in Nat, NEW allowed \in Nat, allowed <= blocks, NEW budget \in Int,
         \A b \in 0..(allowed - 1) : row[b] \in Int
  PROVE  Candidates(row, blocks, allowed, 1, budget)
           = Lowered(TopKIndices(Seen(row, allowed), Max({1, budget})))
<1> DEFINE groups == CeilDiv(allowed, 1)
           maxima == [g \in 1 .. groups |-> GroupMax(row, blocks, allowed, 1, g - 1)]
           size == Max({1, CeilDiv(budget, 1)})
           chosen == TopKIndices(maxima, size)
           entries(g) == [i \in 1 .. Min({1, allowed - (g - 1) * 1}) |-> (g - 1) * 1 + i - 1]
           w == Seen(row, allowed)
<1>1. groups = allowed /\ CeilDiv(budget, 1) = budget
  BY DEF CeilDiv
<1>2. ASSUME NEW g \in 1..allowed
      PROVE  GroupMax(row, blocks, allowed, 1, g - 1) = row[g - 1]
  <2>1. GroupMax(row, blocks, allowed, 1, g - 1) = Max(Span(row, GroupStart(1, g), GroupEnd(allowed, 1, g)))
    BY <1>1, GroupMaxSees
  <2>2. GroupStart(1, g) = g - 1
    BY DEF GroupStart
  <2>3. GroupEnd(allowed, 1, g) = g - 1
    <3>1. Min({g, allowed}) = g
      BY MinPair
    <3>2. g * 1 = g
      OBVIOUS
    <3> QED BY <3>1, <3>2 DEF GroupEnd
  <2>4. PICK x \in Int : x = row[g - 1]
    OBVIOUS
  <2>5. Span(row, g - 1, g - 1) = {x}
    BY <2>4 DEF Span
  <2>6. Max({x}) = x
    BY DEF Max
  <2> QED BY <2>1, <2>2, <2>3, <2>4, <2>5, <2>6
<1>3. maxima = w
  BY <1>1, <1>2 DEF Seen
<1>4. w \in [1..allowed -> Int] /\ size \in Int /\ size = Max({1, budget}) /\ size >= 1
  <2>1. w \in [1..allowed -> Int]
    BY DEF Seen
  <2>2. Max({1, budget}) = IF 1 >= budget THEN 1 ELSE budget
    BY MaxPair
  <2>3. size = Max({1, budget})
    BY <1>1
  <2>4. Max({1, budget}) \in Int /\ Max({1, budget}) >= 1
    BY <2>2
  <2> QED BY <2>1, <2>3, <2>4
<1>5. PICK m \in Nat : DOMAIN chosen = 1..m /\ \A r \in 1..m : chosen[r] \in 1..allowed
  <2>0. chosen = TopKIndices(w, size)
    BY <1>3
  <2> HIDE DEF w, size, chosen
  <2>1. PICK taken \in Int : /\ taken = Taken(size, allowed)
                             /\ DOMAIN chosen = 1..taken
                             /\ \A r \in 1..taken : chosen[r] \in 1..allowed
    BY <1>4, <2>0, TopK
  <2>2. taken \in Nat
    BY <1>4, <2>1 DEF Taken
  <2> QED BY <2>1, <2>2
<1>6. PICK u : u = [i \in 1..m |-> chosen[i] - 1]
  OBVIOUS
<1>7. u \in Seq(Int) /\ Len(u) = m /\ \A i \in 1..m : u[i] = chosen[i] - 1
  <2> HIDE DEF chosen
  <2>1. u \in [1..m -> Int]
    BY <1>5, <1>6
  <2> QED BY <2>1, <1>6
<1>8. ASSUME NEW i \in 1..m
      PROVE  entries(chosen[i]) \in Seq(Int) /\ Len(entries(chosen[i])) = 1 /\ entries(chosen[i])[1] = u[i]
  <2> HIDE DEF chosen
  <2>1. PICK g \in 1..allowed : g = chosen[i]
    BY <1>5
  <2>2. Min({1, allowed - (g - 1) * 1}) = 1
    <3>1. allowed - (g - 1) * 1 \in Int /\ 1 <= allowed - (g - 1) * 1
      OBVIOUS
    <3> QED BY <3>1, MinPair
  <2>3. entries(g) = [x \in 1..1 |-> (g - 1) + x - 1]
    BY <2>2
  <2>4. [x \in 1..1 |-> (g - 1) + x - 1] \in Seq(Int) /\ Len([x \in 1..1 |-> (g - 1) + x - 1]) = 1
        /\ [x \in 1..1 |-> (g - 1) + x - 1][1] = g - 1
    <3>1. PICK a \in Int : a = g - 1
      OBVIOUS
    <3> QED BY <3>1, CountedOnce
  <2>5. entries(g) \in Seq(Int) /\ Len(entries(g)) = 1 /\ entries(g)[1] = g - 1
    BY <2>3, <2>4
  <2>6. g - 1 = u[i]
    BY <2>1, <1>7
  <2> QED BY <2>1, <2>5, <2>6
<1>9. PICK s : s = [i \in DOMAIN chosen |-> entries(chosen[i])]
  OBVIOUS
<1>10. s \in Seq(Seq(Int)) /\ Len(s) = m /\ \A i \in 1..m : Len(s[i]) = 1 /\ s[i][1] = u[i]
  <2> HIDE DEF chosen, entries
  <2>1. s \in [1..m -> Seq(Int)]
    BY <1>5, <1>8, <1>9
  <2>2. s \in Seq(Seq(Int)) /\ Len(s) = m
    BY <2>1
  <2> QED BY <2>2, <1>5, <1>8, <1>9
<1>11. FlattenSeq(s) = u
  BY <1>7, <1>10, SingletonsFlatten
<1>12. Candidates(row, blocks, allowed, 1, budget) = FlattenSeq(s)
  BY <1>9 DEF Candidates
<1> QED BY <1>3, <1>4, <1>5, <1>6, <1>11, <1>12 DEF Lowered

(***************************************************************************)
(* A flat selection takes the k best visible blocks, if the budget does    *)
(* not bind below k.                                                       *)
(***************************************************************************)
LEMMA FlatSelection ==
  ASSUME NEW row, NEW blocks \in Nat, NEW allowed \in Nat, allowed <= blocks,
         NEW budget \in Int, NEW k \in Int, budget >= k \/ budget >= allowed,
         \A b \in 0..(allowed - 1) : row[b] \in Int
  PROVE  TopKFromScoreRow(row, Candidates(row, blocks, allowed, 1, budget), k) = Best(row, allowed, k)
<1> DEFINE w == Seen(row, allowed)
           size == Max({1, budget})
           chosen == TopKIndices(w, size)
           m == Taken(size, allowed)
           list == [i \in DOMAIN chosen |-> chosen[i] - 1]
           v == [i \in DOMAIN list |-> row[list[i]]]
           order == TopKIndices(v, k)
           taken == Taken(k, m)
<1>1. w \in [1..allowed -> Int] /\ \A h \in 1..allowed : w[h] = row[h - 1]
  BY DEF Seen
<1>2. size \in Int /\ size = IF 1 >= budget THEN 1 ELSE budget
  BY MaxPair
<1>3. m \in Nat /\ taken \in Int /\ taken <= m
  BY <1>2 DEF Taken
<1>4. /\ DOMAIN chosen = 1..m
      /\ \A r \in 1..m : chosen[r] \in 1..allowed
      /\ \A r, s \in 1..m : r < s => w[chosen[r]] >= w[chosen[s]]
      /\ \A r \in 1..m : chosen[r] = Placed(w, allowed, r)
  <2> HIDE DEF w, size
  <2>1. DOMAIN chosen = 1..m /\ \A r \in 1..m : chosen[r] \in 1..allowed /\ chosen[r] = Placed(w, allowed, r)
    BY <1>1, <1>2, TopK, SMTT(30)
  <2>2. \A r, s \in 1..m : r < s => w[chosen[r]] >= w[chosen[s]]
    BY <1>1, <1>2, TopKDescends
  <2> QED BY <2>1, <2>2
<1>5. v \in [1..m -> Int] /\ \A i \in 1..m : v[i] = w[chosen[i]]
  <2> HIDE DEF w, chosen, m
  <2>1. ASSUME NEW i \in 1..m PROVE row[list[i]] = w[chosen[i]] /\ row[list[i]] \in Int
    <3>1. PICK h \in 1..allowed : h = chosen[i]
      BY <1>4
    <3>2. list[i] = h - 1 /\ w[h] = row[h - 1] /\ w[h] \in Int
      BY <1>1, <1>4, <3>1
    <3> QED BY <3>1, <3>2
  <2> QED BY <2>1, <1>4
<1>6. Descending(v, m)
  <2> HIDE DEF v, w, chosen, m
  <2> QED BY <1>4, <1>5 DEF Descending
<1>7. DOMAIN order = 1..taken /\ \A r \in 1..taken : order[r] = r
  <2> HIDE DEF v, m
  <2> QED BY <1>3, <1>5, <1>6, TopK
<1>8. TopKFromScoreRow(row, list, k) = [r \in 1..taken |-> chosen[r] - 1]
  <2>1. TopKFromScoreRow(row, list, k) = [i \in DOMAIN order |-> list[order[i]]]
    BY DEF TopKFromScoreRow
  <2> HIDE DEF order, chosen, m, taken
  <2>2. \A r \in 1..taken : list[order[r]] = chosen[r] - 1
    BY <1>3, <1>4, <1>7
  <2> QED BY <2>1, <2>2, <1>7
<1>9. 1..taken = 1..Taken(k, allowed)
  BY <1>2 DEF Taken
<1>10. [r \in 1..taken |-> chosen[r] - 1] = Best(row, allowed, k)
  <2> HIDE DEF chosen, w, m, taken
  <2>1. \A r \in 1..taken : chosen[r] - 1 = Placed(w, allowed, r) - 1
    BY <1>3, <1>4
  <2> QED BY <2>1, <1>9 DEF Best, w
<1>11. Candidates(row, blocks, allowed, 1, budget) = list
  <2>1. PICK u : u = Candidates(row, blocks, allowed, 1, budget)
    OBVIOUS
  <2>2. u = Lowered(chosen)
    BY <2>1, FlatPool
  <2> QED BY <2>1, <2>2 DEF Lowered
<1> QED BY <1>8, <1>10, <1>11

-----------------------------------------------------------------------------
(* What inference reads.                                                   *)

\* The pool a Full layer publishes, and the blocks an indexer chooses, in
\* training.
FullPool(l, t) == Pool(l, t, Blocks, IndexerCandidateBudget(config))

\* What the indexer of layer l selects for row t when every block is there: a
\* Reindex layer with pooling among its producer's candidates, the others by
\* their own.
Indexed(l, t) ==
  LET order == IF Mode(l) = "R" /\ config.pool > 1
                 THEN FineSelect(scoring[l][t], FullPool(ReuseProducer(config, l), t), config.topK, t \div Ratio)
                 ELSE TopKFromScoreRow(scoring[l][t], FullPool(l, t), config.topK)
  IN  {order[i] : i \in DOMAIN order}

\* What a training pass that is not masked has read, and left in the share.
TrainedRead(l, t) ==
  /\ reads[l][t].local = Local(l, t)
  /\ ~Compressed => reads[l][t].blocks = {}
  /\ Compressed =>
       /\ reads[l][t].blocks \in SUBSET (0 .. t \div Ratio - 1)
       /\ reads[l][t].blocks = IF config.topK <= 0 THEN 0 .. t \div Ratio - 1
                               ELSE IF Mode(l) = "U" THEN reads[l - 1][t].blocks ELSE Indexed(l, t)

\* The share that layer l leaves to the layer above it holds, for row t, what l
\* read and the candidates of its producer.
Carries(share, l, t) ==
  config.topK > 0 =>
    /\ share.selection[t] = reads[l][t].blocks
    /\ config.pool > 1 => share.pool[t] = FullPool(ReuseProducer(config, l), t)

\* Of an unmasked step: each layer below the current one read what TrainedRead
\* says, and the share passed on carries it.
ReadsInv ==
  /\ scoring \in Scorings
  /\ segments = Unmasked =>
       /\ \A l \in DOMAIN reads : \A t \in Positions : TrainedRead(l, t)
       /\ phase = "forward" /\ layer > 0 =>
            \A t \in Positions : Carries(shares[ReuseProducer(config, layer - 1)], layer - 1, t)

\* The global cache of a layer, after so many tokens.
Counting(n) == [i \in 1..n |-> i - 1]

\* The rows the compressed cache of layer l holds after n tokens.
GlobalRows(l, n) == IF Compressed /\ Mode(l) = "F" THEN Counting(n) ELSE << >>

\* The rows of a layer that PrefillCED replayed, and the first it kept.
Replayed(l) == IF IsDecoderLayer(config, l) THEN replayed ELSE {}

\* The first row that layer l has really served.
First(l) == IF Replayed(l) = {} THEN 0 ELSE Min(Replayed(l))

\* A served read is the one training recorded: nothing it needs is missing, the
\* same blocks, the same window but for rows a replay left out, the row before
\* for the smear.
AsTrained(l, t, read, again) ==
  /\ read.missing = {}
  /\ read.global = {BlockRows(Unmasked, Ratio, Length, b) : b \in reads[l][t].blocks}
  /\ read.local = IF t \in again THEN reads[l][t].local \cap again ELSE reads[l][t].local
  /\ read.smear = t - 1 \/ (t \in again /\ t = Min(again))

\* What PrefillCED replays is the end of its prompt, a whole window of it
\* unless the prompt is shorter.
Replays ==
  replayed = {} \/ \E s, e \in 0 .. cache.position :
    s < e /\ replayed = s .. e - 1 /\ config.ced /\ (s = 0 \/ s + config.window <= e)

\* The caches of every layer are at the position of the buffer, and what was
\* served so far was read as in training.
ServingInv ==
  /\ cache.position \in 0 .. Length /\ cache.previous = cache.position - 1
  /\ DOMAIN cache = {"position", "previous", "rows", "raw"}
  /\ DOMAIN cache.rows = Layers /\ \A l \in Layers : cache.rows[l] = GlobalRows(l, cache.position)
  /\ DOMAIN cache.raw = Layers
  /\ HasLocal \/ ~Compressed =>
       \A l \in Layers : First(l) .. cache.position - 1 \subseteq cache.raw[l]
  /\ DOMAIN served = Layers
  /\ \A l \in Layers : DOMAIN served[l] = First(l) .. cache.position - 1
  /\ \A l \in Layers : \A t \in DOMAIN served[l] : AsTrained(l, t, served[l][t], Replayed(l))
  /\ Replays
  /\ phase # "serve" => cache.position = 0

\* An explicit IndexerCandidates does not cut a flat selection short.
Budgets == \A c \in Configs : c.pool <= 1 => IndexerCandidateBudget(c) >= c.topK

(***************************************************************************)
(* The parameters of the indexer are integers.                             *)
(***************************************************************************)
LEMMA BudgetType ==
  ASSUME config \in Configs
  PROVE  /\ config.topK \in Int /\ config.pool \in Int
         /\ IndexerCandidateBudget(config) \in Int
         /\ Ratio \in Nat \ {0}
<1>1. config.topK \in Int /\ config.pool \in Int /\ config.candidates \in Int /\ config.ratio \in Int
  BY ConfigsAssumption DEF Typed
<1>2. Max({8 * config.topK, 64}) \in Int
  <2>1. 8 * config.topK \in Int
    BY <1>1
  <2> QED BY <2>1, MaxPair
<1>3. Ratio \in Nat \ {0}
  BY <1>1 DEF Ratio, Compression
<1> QED BY <1>1, <1>2, <1>3 DEF IndexerCandidateBudget

(***************************************************************************)
(* A query sees the same blocks in a training pass and from any cache that *)
(* holds the rows up to its own.                                           *)
(***************************************************************************)
LEMMA Sees ==
  ASSUME config \in Configs, NEW t \in Positions
  PROVE  /\ t \div Ratio \in Nat
         /\ Blocks \in Nat /\ t \div Ratio < Blocks
         /\ \A blocks \in Nat : t \div Ratio <= blocks => Allowed(t, blocks) = t \div Ratio
         /\ \A n \in Nat : t < n => n \div Ratio \in Nat /\ t \div Ratio <= n \div Ratio
<1>1. Ratio \in Nat \ {0} /\ t \in Nat /\ t < Length /\ Length \in Nat
  BY BudgetType, LengthAssumption DEF Positions
<1>2. PICK q \in Nat : q = t \div Ratio /\ q * Ratio <= t
  BY <1>1, Quotient
<1>3. Blocks \in Nat /\ q < Blocks
  <2>1. Blocks \in Nat /\ \A g \in Int : g * Ratio < Length => g < Blocks
    BY <1>1, CeilQuotient DEF Blocks
  <2>2. q * Ratio < Length
    BY <1>1, <1>2
  <2> QED BY <2>1, <2>2
<1>4. ASSUME NEW blocks \in Nat, t \div Ratio <= blocks
      PROVE  Allowed(t, blocks) = t \div Ratio
  <2>1. Min({q, blocks}) = q
    BY <1>2, <1>4, MinPair
  <2> QED BY <2>1, <1>2 DEF Allowed
<1>5. ASSUME NEW n \in Nat, t < n
      PROVE  n \div Ratio \in Nat /\ t \div Ratio <= n \div Ratio
  <2>1. n \div Ratio \in Nat /\ \A u \in Int : u * Ratio <= n => u <= n \div Ratio
    BY <1>1, Quotient
  <2>2. q * Ratio <= n
    BY <1>1, <1>2, <1>5
  <2> QED BY <2>1, <2>2, <1>2
<1> QED BY <1>2, <1>3, <1>4, <1>5

(***************************************************************************)
(* Candidates depend on the blocks a row sees, not on how many there are.  *)
(***************************************************************************)
LEMMA PoolAgrees ==
  ASSUME config \in Configs, NEW l, NEW t \in Positions, NEW blocks \in Nat, t \div Ratio <= blocks,
         NEW budget
  PROVE  Pool(l, t, blocks, budget)
           = Candidates(scoring[l][t], t \div Ratio, t \div Ratio, Max({1, config.pool}), budget)
<1>1. PICK a \in Nat : a = t \div Ratio /\ Allowed(t, blocks) = a /\ a <= blocks
  BY Sees
<1>2. PICK size \in Nat \ {0} : size = Max({1, config.pool})
  <2>1. config.pool \in Int
    BY BudgetType
  <2>2. Max({1, config.pool}) = IF 1 >= config.pool THEN 1 ELSE config.pool
    BY <2>1, MaxPair
  <2> QED BY <2>1, <2>2
<1>3. PICK row : row = scoring[l][t]
  OBVIOUS
<1>4. Candidates(row, blocks, a, size, budget) = Candidates(row, a, a, size, budget)
  BY <1>1, PoolSees
<1> QED BY <1>1, <1>2, <1>3, <1>4 DEF Pool

(***************************************************************************)
(* Every visible block has an index score.                                 *)
(***************************************************************************)
LEMMA Scores ==
  ASSUME config \in Configs, scoring \in Scorings, Compressed, NEW l \in Layers, NEW t \in Positions
  PROVE  \A b \in 0 .. t \div Ratio - 1 : scoring[l][t][b] \in Int
<1>1. t \div Ratio \in Nat /\ Blocks \in Nat /\ t \div Ratio < Blocks
  BY Sees
<1>2. \A b \in 0 .. Blocks - 1 : scoring[l][t][b] \in Int
  BY ScoringsAssumption DEF Compressed, Ratio, Layers, Positions, Blocks
<1> QED BY <1>1, <1>2

(***************************************************************************)
(* The selection of a query is the one training made, whatever the cache   *)
(* holds beyond it, when what it takes from the share is.                  *)
(***************************************************************************)
LEMMA SelectedAgrees ==
  ASSUME config \in Configs, scoring \in Scorings, Compressed, Budgets,
         NEW l \in Layers, NEW t \in Positions, NEW blocks \in Nat, t \div Ratio <= blocks,
         NEW budget \in Int,
         config.pool > 1 => budget = IndexerCandidateBudget(config),
         config.pool <= 1 => budget >= config.topK \/ budget >= t \div Ratio,
         NEW share,
         Mode(l) = "R" /\ config.pool > 1 => share.pool[t] = FullPool(ReuseProducer(config, l), t)
  PROVE  Selected(l, t, blocks, budget, share) = IF Mode(l) = "U" THEN share.selection[t] ELSE Indexed(l, t)
<1> DEFINE full == IndexerCandidateBudget(config)
<1>1. CASE Mode(l) = "U"
  BY <1>1 DEF Selected
<1>2. CASE Mode(l) # "U" /\ Mode(l) = "R" /\ config.pool > 1
  <2>1. Allowed(t, blocks) = t \div Ratio
    BY Sees
  <2>2. PICK list : list = share.pool[t] /\ list = FullPool(ReuseProducer(config, l), t)
    BY <1>2
  <2> QED BY <1>2, <2>1, <2>2 DEF Selected, Indexed
<1>3. CASE Mode(l) # "U" /\ ~(Mode(l) = "R" /\ config.pool > 1)
  <2>1. PICK order : order = TopKFromScoreRow(scoring[l][t], Pool(l, t, blocks, budget), config.topK)
    OBVIOUS
  <2>2. Selected(l, t, blocks, budget, share) = {order[i] : i \in DOMAIN order}
    BY <1>3, <2>1 DEF Selected
  <2>3. PICK a \in Nat : a = t \div Ratio /\ a <= Blocks /\ Blocks \in Nat
    BY Sees
  <2>4. PICK size : size = Max({1, config.pool})
    OBVIOUS
  <2>5. PICK row : row = scoring[l][t] /\ \A b \in 0..(a - 1) : row[b] \in Int
    BY <2>3, Scores
  <2>6. Pool(l, t, blocks, budget) = Candidates(row, a, a, size, budget)
    <3>1. Pool(l, t, blocks, budget)
            = Candidates(scoring[l][t], t \div Ratio, t \div Ratio, Max({1, config.pool}), budget)
      BY PoolAgrees
    <3>2. row = scoring[l][t]
      BY <2>5
    <3> QED BY <3>1, <3>2, <2>3, <2>4
  <2>7. FullPool(l, t) = Candidates(row, a, a, size, full)
    <3>1. Blocks \in Nat /\ t \div Ratio <= Blocks
      BY <2>3
    <3>2. Pool(l, t, Blocks, full)
            = Candidates(scoring[l][t], t \div Ratio, t \div Ratio, Max({1, config.pool}), full)
      BY <3>1, PoolAgrees
    <3>3. FullPool(l, t) = Pool(l, t, Blocks, full)
      BY DEF FullPool
    <3>4. row = scoring[l][t]
      BY <2>5
    <3> QED BY <3>2, <3>3, <3>4, <2>3, <2>4
  <2>8. TopKFromScoreRow(row, Candidates(row, a, a, size, budget), config.topK)
          = TopKFromScoreRow(row, Candidates(row, a, a, size, full), config.topK)
    <3>1. CASE config.pool > 1
      BY <3>1
    <3>2. CASE ~(config.pool > 1)
      <4>1. config.pool \in Int /\ config.topK \in Int /\ full \in Int
        BY BudgetType
      <4>2. size = 1
        <5>1. Max({1, config.pool}) = IF 1 >= config.pool THEN 1 ELSE config.pool
          BY <4>1, MaxPair
        <5> QED BY <5>1, <4>1, <3>2, <2>4
      <4>3. full >= config.topK /\ (budget >= config.topK \/ budget >= a)
        BY <4>1, <3>2, <2>3 DEF Budgets
      <4>4. PICK k \in Int : k = config.topK
        BY <4>1
      <4>5. a <= a
        OBVIOUS
      <4> HIDE DEF full
      <4>6. TopKFromScoreRow(row, Candidates(row, a, a, 1, budget), k) = Best(row, a, k)
        <5>1. budget >= k \/ budget >= a
          BY <4>3, <4>4
        <5> QED BY <5>1, <4>5, <2>5, FlatSelection
      <4>7. TopKFromScoreRow(row, Candidates(row, a, a, 1, full), k) = Best(row, a, k)
        <5>1. full \in Int /\ (full >= k \/ full >= a)
          BY <4>1, <4>3, <4>4
        <5> QED BY <5>1, <4>5, <2>5, FlatSelection
      <4> QED BY <4>2, <4>4, <4>6, <4>7
    <3> QED BY <3>1, <3>2
  <2>9. order = TopKFromScoreRow(scoring[l][t], FullPool(l, t), config.topK)
    BY <2>1, <2>5, <2>6, <2>7, <2>8
  <2>10. Indexed(l, t) = {order[i] : i \in DOMAIN order}
    BY <1>3, <2>9 DEF Indexed
  <2> QED BY <1>3, <2>2, <2>10
<1> QED BY <1>1, <1>2, <1>3

(***************************************************************************)
(* The indexer selects visible blocks.                                     *)
(***************************************************************************)
LEMMA IndexedSees ==
  ASSUME config \in Configs, scoring \in Scorings, Compressed, NEW l \in Layers, NEW t \in Positions
  PROVE  Indexed(l, t) \in SUBSET (0 .. t \div Ratio - 1)
<1>1. PICK a \in Nat : a = t \div Ratio /\ a <= Blocks /\ Blocks \in Nat /\ a <= a
  BY Sees
<1>2. PICK row : row = scoring[l][t] /\ \A b \in 0..(a - 1) : row[b] \in Int
  BY <1>1, Scores
<1>3. PICK k \in Int : k = config.topK
  BY BudgetType
<1>4. ASSUME NEW list \in Seq(0..(a - 1)), NEW order, order = TopKFromScoreRow(row, list, k)
      PROVE  {order[i] : i \in DOMAIN order} \in SUBSET (0..(a - 1))
  <2>1. \A r \in DOMAIN order : order[r] \in 0..(a - 1)
    BY <1>2, <1>4, TopKFrom
  <2> QED BY <2>1
<1>5. ASSUME NEW p \in Layers PROVE FullPool(p, t) \in Seq(0..(a - 1))
  <2>1. PICK size \in Nat \ {0} : size = Max({1, config.pool})
    <3>1. config.pool \in Int
      BY BudgetType
    <3>2. Max({1, config.pool}) = IF 1 >= config.pool THEN 1 ELSE config.pool
      BY <3>1, MaxPair
    <3> QED BY <3>1, <3>2
  <2>2. PICK own : own = scoring[p][t] /\ \A b \in 0..(a - 1) : own[b] \in Int
    BY <1>1, Scores
  <2>3. PICK budget \in Int : budget = IndexerCandidateBudget(config)
    BY BudgetType
  <2>4. FullPool(p, t) = Candidates(own, a, a, size, budget)
    BY <1>1, <2>1, <2>2, <2>3, PoolAgrees, ZenonT(30) DEF FullPool
  <2>5. Candidates(own, a, a, size, budget) \in Seq(0..(a - 1))
    BY <1>1, <2>2, PoolHolds
  <2> QED BY <2>4, <2>5
<1>6. CASE Mode(l) = "R" /\ config.pool > 1
  <2>1. ReuseProducer(config, l) \in Layers
    <3>1. Typed(config) /\ Validate(config) /\ l \in LayersOf(config) /\ Layers = LayersOf(config)
      BY ConfigsAssumption DEF Layers, LayersOf
    <3> QED BY <3>1, Producers
  <2>2. PICK list \in Seq(0..(a - 1)) : list = FullPool(ReuseProducer(config, l), t)
    BY <1>5, <2>1
  <2>3. PICK kept : kept = Only(list, 0..(a - 1))
    OBVIOUS
  <2>4. kept \in Seq(0..(a - 1))
    BY <2>3, OnlyType
  <2>5. PICK order : order = TopKFromScoreRow(row, kept, k)
    OBVIOUS
  <2>6. Indexed(l, t) = {order[i] : i \in DOMAIN order}
    BY <1>1, <1>2, <1>3, <1>6, <2>2, <2>3, <2>5 DEF Indexed, FineSelect
  <2> QED BY <2>4, <2>5, <2>6, <1>1, <1>4
<1>7. CASE ~(Mode(l) = "R" /\ config.pool > 1)
  <2>1. PICK list \in Seq(0..(a - 1)) : list = FullPool(l, t)
    BY <1>5
  <2>2. PICK order : order = TopKFromScoreRow(row, list, k)
    OBVIOUS
  <2>3. Indexed(l, t) = {order[i] : i \in DOMAIN order}
    BY <1>2, <1>3, <1>7, <2>1, <2>2 DEF Indexed
  <2> QED BY <2>2, <2>3, <1>1, <1>4
<1> QED BY <1>6, <1>7

(***************************************************************************)
(* What a pass reads is determined by the configuration and the scores.    *)
(***************************************************************************)
LEMMA ModelKept ==
  ASSUME config' = config, segments' = segments, scoring' = scoring
  PROVE  /\ Layers' = Layers /\ Ratio' = Ratio /\ (Compressed' <=> Compressed) /\ (HasLocal' <=> HasLocal)
         /\ \A l : Mode(l)' = Mode(l)
         /\ \A l, t : Local(l, t)' = Local(l, t)
         /\ \A l, t : FullPool(l, t)' = FullPool(l, t)
         /\ \A l, t : Indexed(l, t)' = Indexed(l, t)
<1>1. Layers' = Layers /\ Ratio' = Ratio /\ (Compressed' <=> Compressed) /\ (HasLocal' <=> HasLocal)
  BY DEF Layers, Ratio, Compressed, HasLocal
<1>2. \A l : Mode(l)' = Mode(l)
  BY DEF Mode
<1>3. \A l, t : Local(l, t)' = Local(l, t)
  BY <1>1 DEF Local
<1>4. \A l, t : FullPool(l, t)' = FullPool(l, t)
  BY <1>1 DEF FullPool, Pool, Allowed, Blocks
<1>5. \A l, t : Indexed(l, t)' = Indexed(l, t)
  BY <1>1, <1>2, <1>4 DEF Indexed
<1> QED BY <1>1, <1>2, <1>3, <1>4, <1>5

(***************************************************************************)
(* What a layer reads when the row is not masked, from what the layer      *)
(* before it left in the share.                                            *)
(***************************************************************************)
LEMMA LayerReads ==
  ASSUME config \in Configs, scoring \in Scorings, segments = Unmasked, Budgets, NEW l \in Layers, NEW share,
         NEW t \in Positions,
         Mode(l) # "F" => /\ TrainedRead(l - 1, t)
                          /\ Carries(share, l - 1, t)
  PROVE  LET read == ContextOf(l, share)[t]
         IN  /\ read.local = Local(l, t)
             /\ ~Compressed => read.blocks = {}
             /\ Compressed =>
                  /\ read.blocks \in SUBSET (0 .. t \div Ratio - 1)
                  /\ read.blocks = IF config.topK <= 0 THEN 0 .. t \div Ratio - 1
                                   ELSE IF Mode(l) = "U" THEN reads[l - 1][t].blocks ELSE Indexed(l, t)
<1> DEFINE read == ContextOf(l, share)[t]
           full == IndexerCandidateBudget(config)
<1>1. /\ read.local = Local(l, t)
      /\ read.blocks = IF Compressed THEN GlobalReads(l, t, share) ELSE {}
  BY DEF ContextOf
<1>2. ASSUME Compressed
      PROVE  /\ GlobalReads(l, t, share) \in SUBSET (0 .. t \div Ratio - 1)
             /\ GlobalReads(l, t, share)
                  = IF config.topK <= 0 THEN 0 .. t \div Ratio - 1
                    ELSE IF Mode(l) = "U" THEN reads[l - 1][t].blocks ELSE Indexed(l, t)
  <2>1. config.topK \in Int /\ config.pool \in Int /\ full \in Int
    BY BudgetType
  <2>2. Blocks \in Nat /\ t \div Ratio \in Nat /\ t \div Ratio <= Blocks /\ Allowed(t, Blocks) = t \div Ratio
    BY Sees
  <2>3. MaskOf(l) = Unmasked
    BY DEF MaskOf
  <2>4. GlobalReads(l, t, share) = IF config.topK > 0 THEN Selected(l, t, Blocks, full, share)
                                   ELSE 0 .. t \div Ratio - 1
    BY <2>2, <2>3 DEF GlobalReads, FilterBlocksBySegment
  <2>5. CASE ~(config.topK > 0)
    BY <2>1, <2>4, <2>5
  <2>6. CASE config.topK > 0
    <3>1. Mode(l) # "F" =>
            /\ share.selection[t] = reads[l - 1][t].blocks
            /\ config.pool > 1 => share.pool[t] = FullPool(ReuseProducer(config, l), t)
      <4>1. Mode(l) # "F" => ReuseProducer(config, l - 1) = ReuseProducer(config, l)
        <5>1. Typed(config) /\ Validate(config) /\ l \in LayersOf(config)
          BY ConfigsAssumption DEF Layers, LayersOf
        <5> QED BY <5>1, Producers DEF Mode
      <4> QED BY <4>1, <2>6 DEF Carries
    <3>2. config.pool <= 1 => full >= config.topK
      BY DEF Budgets
    <3> HIDE DEF full
    <3>3. Selected(l, t, Blocks, full, share) = IF Mode(l) = "U" THEN share.selection[t] ELSE Indexed(l, t)
      <4>1. config.pool > 1 => full = IndexerCandidateBudget(config)
        BY DEF full
      <4>2. Mode(l) = "R" /\ config.pool > 1 => share.pool[t] = FullPool(ReuseProducer(config, l), t)
        BY <3>1
      <4> QED BY <1>2, <2>1, <2>2, <3>2, <4>1, <4>2, SelectedAgrees
    <3>4. Mode(l) = "U" => reads[l - 1][t].blocks \in SUBSET (0 .. t \div Ratio - 1)
      BY <1>2 DEF TrainedRead
    <3>5. Indexed(l, t) \in SUBSET (0 .. t \div Ratio - 1)
      BY <1>2, IndexedSees
    <3>6. GlobalReads(l, t, share) = Selected(l, t, Blocks, full, share)
      BY <2>4, <2>6 DEF full
    <3>7. GlobalReads(l, t, share) = IF Mode(l) = "U" THEN reads[l - 1][t].blocks ELSE Indexed(l, t)
      BY <3>1, <3>3, <3>6
    <3>8. ~(config.topK <= 0)
      BY <2>1, <2>6
    <3> QED BY <3>4, <3>5, <3>7, <3>8
  <2> QED BY <2>5, <2>6
<1> QED BY <1>1, <1>2

(***************************************************************************)
(* What a layer leaves in the share is what the layer above expects to     *)
(* borrow.                                                                 *)
(***************************************************************************)
LEMMA LayerPublishes ==
  ASSUME config \in Configs, segments = Unmasked, NEW l \in Layers, NEW share, NEW t \in Positions,
         DOMAIN share = {"selection", "pool", "gradient"},
         Mode(l) # "F" => Carries(share, l - 1, t)
  PROVE  LET context == ContextOf(l, share)
             left == Published(l, share, context)
         IN  config.topK > 0 =>
               /\ left.selection[t] = context[t].blocks
               /\ config.pool > 1 => left.pool[t] = FullPool(ReuseProducer(config, l), t)
<1> DEFINE context == ContextOf(l, share)
           left == Published(l, share, context)
<1> SUFFICES ASSUME config.topK > 0
             PROVE  /\ left.selection[t] = context[t].blocks
                    /\ config.pool > 1 => left.pool[t] = FullPool(ReuseProducer(config, l), t)
  OBVIOUS
<1>0. Typed(config) /\ Validate(config) /\ l \in LayersOf(config)
  BY ConfigsAssumption DEF Layers, LayersOf
<1> HIDE DEF context
<1>1. left.selection = [x \in Positions |-> context[x].blocks]
  BY DEF Published
<1>2. left.pool = IF config.pool > 1 /\ Mode(l) = "F" THEN [x \in Positions |-> FullPool(l, x)] ELSE share.pool
  BY DEF Published, FullPool
<1>3. ASSUME config.pool > 1 PROVE left.pool[t] = FullPool(ReuseProducer(config, l), t)
  <2>1. CASE Mode(l) = "F"
    <3>1. ReuseProducer(config, l) = l
      BY <1>0, <2>1, Producers DEF Mode
    <3> QED BY <3>1, <1>2, <1>3, <2>1
  <2>2. CASE Mode(l) # "F"
    <3>1. ReuseProducer(config, l - 1) = ReuseProducer(config, l)
      BY <1>0, <2>2, Producers DEF Mode
    <3>2. share.pool[t] = FullPool(ReuseProducer(config, l), t)
      BY <3>1, <1>3, <2>2 DEF Carries
    <3> QED BY <3>2, <1>2, <2>2
  <2> QED BY <2>1, <2>2
<1> QED BY <1>1, <1>3

(***************************************************************************)
(* One layer of the forward pass: its reads are those of TrainedRead.      *)
(***************************************************************************)
LEMMA ReadsUp ==
  ASSUME GradientInv, ReadsInv, Budgets, phase = "forward", segments = Unmasked, UNCHANGED model,
         NEW producer, producer = ReuseProducer(config, layer), NEW share,
         DOMAIN share = {"selection", "pool", "gradient"},
         Mode(layer) # "F" => layer > 0 /\ share = shares[producer],
         Trained(producer, share), ToNextLayer
  PROVE  ReadsInv'
<1>0. /\ config' = config /\ segments' = segments /\ scoring' = scoring
      /\ config \in Configs /\ layer \in Layers /\ scoring \in Scorings
      /\ DOMAIN reads = {x \in Layers : x < layer}
  BY DEF model, GradientInv, TrainingTypes, ReadsInv
<1>1. PICK l0, context, left :
        l0 \in Layers /\ l0 = layer /\ context = ContextOf(layer, share) /\ left = Published(layer, share, context)
  BY <1>0
<1>2. /\ Layers' = Layers /\ Ratio' = Ratio /\ (Compressed' <=> Compressed)
      /\ \A l : Mode(l)' = Mode(l)
      /\ \A l, t : Local(l, t)' = Local(l, t)
      /\ \A l, t : FullPool(l, t)' = FullPool(l, t)
      /\ \A l, t : Indexed(l, t)' = Indexed(l, t)
  BY <1>0, ModelKept
<1>3. reads' = Put(reads, l0, context) /\ shares' = Put(shares, producer, left)
  BY <1>1 DEF Trained
<1>4. /\ reads'[l0] = context /\ shares'[producer] = left
      /\ DOMAIN reads' = DOMAIN reads \cup {l0}
      /\ \A x \in DOMAIN reads : x # l0 => reads'[x] = reads[x]
  BY <1>3 DEF Put, With
<1>5. l0 \in Int /\ Layers \subseteq Int /\ 0 \in Layers /\ Typed(config) /\ Validate(config) /\ l0 \in LayersOf(config)
  BY <1>0, <1>1, ConfigsAssumption DEF Layers, LayersOf, Typed
<1>6. Mode(l0) # "F" => /\ l0 > 0 /\ l0 - 1 \in DOMAIN reads /\ ReuseProducer(config, l0 - 1) = producer
                        /\ \A t \in Positions : TrainedRead(l0 - 1, t) /\ Carries(share, l0 - 1, t)
  <2> SUFFICES ASSUME Mode(l0) # "F"
               PROVE /\ l0 > 0 /\ l0 - 1 \in DOMAIN reads /\ ReuseProducer(config, l0 - 1) = producer
                     /\ \A t \in Positions : TrainedRead(l0 - 1, t) /\ Carries(share, l0 - 1, t)
    OBVIOUS
  <2>1. l0 - 1 \in LayersOf(config) /\ ReuseProducer(config, l0 - 1) = producer
    BY <1>1, <1>5, Producers DEF Mode
  <2>2. l0 > 0 /\ l0 - 1 \in DOMAIN reads /\ share = shares[producer]
    BY <1>0, <1>1, <1>5, <2>1 DEF Layers, LayersOf
  <2>3. \A t \in Positions : TrainedRead(l0 - 1, t)
    BY <2>2 DEF ReadsInv
  <2>4. \A t \in Positions : Carries(shares[ReuseProducer(config, layer - 1)], layer - 1, t)
    BY <1>1, <2>2 DEF ReadsInv
  <2> QED BY <1>1, <2>1, <2>2, <2>3, <2>4
<1>7. ASSUME NEW t \in Positions PROVE TrainedRead(l0, t)'
  <2>1. PICK read : read = context[t]
    OBVIOUS
  <2>2. /\ read.local = Local(l0, t)
        /\ ~Compressed => read.blocks = {}
        /\ Compressed =>
             /\ read.blocks \in SUBSET (0 .. t \div Ratio - 1)
             /\ read.blocks = IF config.topK <= 0 THEN 0 .. t \div Ratio - 1
                              ELSE IF Mode(l0) = "U" THEN reads[l0 - 1][t].blocks ELSE Indexed(l0, t)
    <3>1. Mode(l0) # "F" => TrainedRead(l0 - 1, t) /\ Carries(share, l0 - 1, t)
      BY <1>6
    <3> QED BY <1>0, <1>1, <2>1, <3>1, LayerReads
  <2>3. Mode(l0) = "U" => reads'[l0 - 1] = reads[l0 - 1]
    BY <1>4, <1>5, <1>6
  <2>4. reads'[l0][t] = read
    BY <1>4, <2>1
  <2> QED BY <1>0, <1>2, <2>2, <2>3, <2>4 DEF TrainedRead
<1>8. ASSUME NEW l \in DOMAIN reads, NEW t \in Positions PROVE TrainedRead(l, t)'
  <2>1. TrainedRead(l, t)
    BY DEF ReadsInv
  <2>2. l \in Layers /\ l < l0 /\ reads'[l] = reads[l]
    BY <1>0, <1>1, <1>4, <1>5
  <2>3. Mode(l) = "U" => reads'[l - 1] = reads[l - 1]
    <3> SUFFICES ASSUME Mode(l) = "U" PROVE reads'[l - 1] = reads[l - 1]
      OBVIOUS
    <3>1. l \in LayersOf(config) /\ Mode(l) # "F"
      BY <2>2 DEF Layers, LayersOf
    <3>2. l - 1 \in LayersOf(config)
      BY <1>5, <3>1, Producers DEF Mode
    <3>3. l - 1 \in DOMAIN reads /\ l - 1 # l0
      BY <1>0, <1>1, <1>5, <2>2, <3>2 DEF Layers, LayersOf
    <3> QED BY <1>4, <3>3
  <2> QED BY <1>0, <1>2, <2>1, <2>2, <2>3 DEF TrainedRead
<1>9. ASSUME NEW t \in Positions
      PROVE  Carries(left, l0, t)'
  <2>1. PICK read : read = context[t]
    OBVIOUS
  <2>2. config.topK > 0 =>
               /\ left.selection[t] = read.blocks
               /\ config.pool > 1 => left.pool[t] = FullPool(ReuseProducer(config, l0), t)
    <3>1. Mode(l0) # "F" => Carries(share, l0 - 1, t)
      BY <1>6
    <3> QED BY <1>0, <1>1, <2>1, <3>1, LayerPublishes
  <2>3. reads'[l0][t] = read
    BY <1>4, <2>1
  <2> QED BY <1>0, <1>2, <2>2, <2>3 DEF Carries
<1>10. phase' = "forward" => layer' = l0 + 1
  BY <1>1 DEF ToNextLayer
<1>11. ASSUME phase' = "forward", NEW t \in Positions
       PROVE  Carries(shares[ReuseProducer(config, layer - 1)], layer - 1, t)'
  <2>1. layer' - 1 = l0 /\ ReuseProducer(config', layer' - 1) = producer
    BY <1>0, <1>1, <1>5, <1>10, <1>11
  <2>2. shares'[ReuseProducer(config', layer' - 1)] = left
    BY <2>1, <1>4
  <2> QED BY <2>1, <2>2, <1>9 DEF Carries
<1>12. \A l \in DOMAIN reads' : \A t \in Positions : TrainedRead(l, t)'
  BY <1>4, <1>7, <1>8
<1> QED BY <1>0, <1>11, <1>12 DEF ReadsInv

(***************************************************************************)
(* Every step of the trunk keeps ReadsInv.                                 *)
(***************************************************************************)
LEMMA ReadsStep ==
  ASSUME GradientInv, ReadsInv, Budgets, [TrunkNext]_trunkVars
  PROVE  ReadsInv'
<1>1. CASE segments # Unmasked
  <2>1. segments' = segments /\ scoring' = scoring
    BY DEF TrunkNext, ForwardFull, ForwardBorrowed, BackwardFull, BackwardBorrowed, Forward,
           PrefillCED, trunkVars, model
  <2> QED BY <1>1, <2>1 DEF ReadsInv
<1>2. CASE segments = Unmasked /\ ForwardFull
  <2>1. DOMAIN NewShare = {"selection", "pool", "gradient"}
    BY DEF NewShare
  <2>2. ReuseProducer(config, layer) = layer
    <3>1. config \in Configs /\ layer \in Layers
      BY DEF GradientInv, TrainingTypes
    <3>2. Typed(config) /\ Validate(config) /\ layer \in LayersOf(config)
      BY <3>1, ConfigsAssumption DEF Layers, LayersOf
    <3> QED BY <1>2, <3>2, Producers DEF Mode, ForwardFull
  <2>3. phase = "forward" /\ Mode(layer) = "F" /\ UNCHANGED model /\ Trained(ReuseProducer(config, layer), NewShare) /\ ToNextLayer
    BY <1>2, <2>2 DEF ForwardFull
  <2> QED BY <1>2, <2>1, <2>3, ReadsUp
<1>3. CASE segments = Unmasked /\ ForwardBorrowed
  <2>1. PICK producer, share : producer = ReuseProducer(config, layer) /\ share = shares[producer]
    OBVIOUS
  <2>2. /\ phase = "forward" /\ Mode(layer) # "F" /\ UNCHANGED model
        /\ Trained(producer, share) /\ ToNextLayer
    BY <1>3, <2>1 DEF ForwardBorrowed
  <2>3. config \in Configs /\ layer \in Layers /\ DOMAIN reads = {x \in Layers : x < layer}
        /\ DOMAIN shares = {p \in DOMAIN reads : Mode(p) = "F"}
        /\ \A p \in DOMAIN shares : DOMAIN shares[p] = {"selection", "pool", "gradient"}
    BY <2>2 DEF GradientInv, TrainingTypes
  <2>4. Typed(config) /\ Validate(config) /\ layer \in LayersOf(config) /\ Layers = LayersOf(config)
    BY <2>3, ConfigsAssumption DEF Layers, LayersOf
  <2>5. producer \in Layers /\ producer <= layer /\ Mode(producer) = "F" /\ layer > 0
    <3>1. producer \in Layers /\ producer <= layer /\ Mode(producer) = "F" /\ layer - 1 \in LayersOf(config)
      BY <2>1, <2>2, <2>4, Producers DEF Mode
    <3> QED BY <3>1, <2>3 DEF Layers, LayersOf
  <2>6. producer \in DOMAIN shares
    <3>1. producer # layer
      BY <2>2, <2>5
    <3> QED BY <2>3, <2>5, <3>1 DEF Layers
  <2>7. DOMAIN share = {"selection", "pool", "gradient"}
    BY <2>1, <2>3, <2>6
  <2> QED BY <1>3, <2>1, <2>2, <2>5, <2>7, ReadsUp
<1>4. CASE /\ UNCHANGED <<model, reads>>
           /\ phase' = "forward" => phase = "forward" /\ layer' = layer /\ shares' = shares
  <2>1. config' = config /\ segments' = segments /\ scoring' = scoring /\ reads' = reads
    BY <1>4 DEF model
  <2>2. /\ Layers' = Layers /\ Ratio' = Ratio /\ (Compressed' <=> Compressed)
        /\ \A l : Mode(l)' = Mode(l)
        /\ \A l, t : Local(l, t)' = Local(l, t)
        /\ \A l, t : FullPool(l, t)' = FullPool(l, t)
        /\ \A l, t : Indexed(l, t)' = Indexed(l, t)
    BY <2>1, ModelKept
  <2>3. \A l, t : TrainedRead(l, t)' = TrainedRead(l, t)
    BY <2>1, <2>2 DEF TrainedRead
  <2>4. \A share, l, t : Carries(share, l, t)' = Carries(share, l, t)
    BY <2>1, <2>2 DEF Carries
  <2>5. ASSUME phase' = "forward", NEW t \in Positions, NEW share, share = shares[ReuseProducer(config, layer - 1)],
               Carries(share, layer - 1, t)
        PROVE  Carries(shares[ReuseProducer(config, layer - 1)], layer - 1, t)'
    <3>1. PICK l0 : l0 = layer - 1 /\ Carries(share, l0, t)
      BY <2>5
    <3>2. Carries(share, l0, t)'
      BY <3>1, <2>4
    <3>3. layer' - 1 = l0 /\ shares'[ReuseProducer(config', layer' - 1)] = share
      BY <1>4, <2>1, <2>5, <3>1
    <3> QED BY <3>2, <3>3 DEF Carries
  <2> QED BY <1>4, <2>1, <2>3, <2>5 DEF ReadsInv
<1>5. CASE BackwardFull \/ BackwardBorrowed
  <2>1. phase = "backward" /\ UNCHANGED <<model, reads>> /\ phase' # "forward"
    BY <1>5 DEF BackwardFull, BackwardBorrowed, Leave
  <2> QED BY <1>4, <2>1
<1>6. ASSUME NEW count \in 1 .. Length, Forward(count) \/ PrefillCED(count)
      PROVE  UNCHANGED <<model, phase, layer, training>>
  BY <1>6 DEF Forward, PrefillCED
<1>7. CASE UNCHANGED <<model, phase, layer, training>>
  BY <1>4, <1>7 DEF training
<1>8. CASE UNCHANGED trunkVars
  BY <1>7, <1>8 DEF trunkVars
<1> QED BY <1>1, <1>2, <1>3, <1>5, <1>6, <1>7, <1>8 DEF TrunkNext

-----------------------------------------------------------------------------
(* One layer of an inference pass.                                         *)

\* The rows a piece replays, and what its queries read locally.
Again(piece) == IF piece.replay THEN Rows(piece) ELSE {}

\* The raw rows that layer l reads for row t of a piece.
LocalRead(l, t, piece) ==
  LET floor == IF piece.replay THEN piece.first ELSE 0
  IN  IF ~Compressed THEN WindowRows(Unmasked, WindowSize(config, l, Length), 0, t)
      ELSE IF HasLocal THEN WindowRows(Unmasked, config.window, floor, t) ELSE {}

\* A piece is a range of tokens, each smeared with the one before it, but for
\* the first of a replay.
PieceHolds(piece) ==
  /\ piece.first \in Nat /\ piece.count \in Nat \ {0} /\ piece.first + piece.count <= Length
  /\ piece.replay \in BOOLEAN /\ (piece.replay => Compressed /\ HasLocal)
  /\ \A t \in Rows(piece) : piece.smear[t] = t - 1 \/ (piece.replay /\ t = piece.first)

(***************************************************************************)
(* A completed block of the global cache holds the rows of the training    *)
(* block.                                                                  *)
(***************************************************************************)
LEMMA BlocksAgree ==
  ASSUME config \in Configs, NEW t \in Positions, NEW n \in Nat, t < n, NEW b \in 0 .. t \div Ratio - 1
  PROVE  CompressedRows(Counting(n), b) = BlockRows(Unmasked, Ratio, Length, b)
<1>1. Ratio \in Nat \ {0} /\ t \in Nat /\ t < Length /\ Length \in Nat
  BY BudgetType, LengthAssumption DEF Positions
<1>2. PICK q \in Nat, low \in Nat : q = t \div Ratio /\ low = q * Ratio /\ low <= t
  BY <1>1, Quotient
<1>3. PICK start \in Nat, next \in Nat : start = b * Ratio /\ next = (b + 1) * Ratio
  BY <1>1
<1>4. next <= t
  <2>1. b \in Nat /\ b + 1 <= q
    BY <1>2
  <2>2. (b + 1) * Ratio <= q * Ratio
    BY <1>1, <1>2, <2>1
  <2>3. next <= low
    BY <1>2, <1>3, <2>2
  <2> QED BY <1>1, <1>2, <2>3
<1>5. BlockRows(Unmasked, Ratio, Length, b) = start .. next - 1
  <2>1. Min({next, Length}) = next
    BY <1>1, <1>3, <1>4, MinPair
  <2> QED BY <1>3, <2>1 DEF BlockRows
<1>6. CompressedRows(Counting(n), b) = {Counting(n)[i] : i \in start + 1 .. next}
  BY <1>3 DEF CompressedRows
<1>7. \A i \in start + 1 .. next : Counting(n)[i] = i - 1
  BY <1>1, <1>3, <1>4 DEF Counting
<1>8. {Counting(n)[i] : i \in start + 1 .. next} = {i - 1 : i \in start + 1 .. next}
  BY <1>7
<1>9. {i - 1 : i \in start + 1 .. next} = start .. next - 1
  <2>1. \A p \in start .. next - 1 : p + 1 \in start + 1 .. next /\ p = (p + 1) - 1
    OBVIOUS
  <2>2. \A i \in start + 1 .. next : i - 1 \in start .. next - 1
    OBVIOUS
  <2> QED BY <2>1, <2>2
<1> QED BY <1>5, <1>6, <1>8, <1>9

(***************************************************************************)
(* The local window of a query that is not replayed is the one of the      *)
(* training pass; a replayed one's ends at the start of the replay.        *)
(***************************************************************************)
LEMMA LocalAgrees ==
  ASSUME config \in Configs, segments = Unmasked, NEW l, NEW piece, PieceHolds(piece), NEW t \in Rows(piece)
  PROVE  LocalRead(l, t, piece)
           = IF t \in Again(piece) THEN Local(l, t) \cap Again(piece) ELSE Local(l, t)
<1>1. CASE ~piece.replay
  BY <1>1 DEF LocalRead, Local, Again
<1>2. CASE piece.replay
  <2>1. Compressed /\ HasLocal /\ Again(piece) = Rows(piece)
    BY <1>2 DEF PieceHolds, Again
  <2>2. PICK first \in Nat, count \in Nat : first = piece.first /\ count = piece.count
    BY DEF PieceHolds
  <2>3. Rows(piece) = first .. first + count - 1 /\ t \in Nat
    BY <2>2 DEF Rows
  <2>4. LocalRead(l, t, piece) = WindowRows(Unmasked, config.window, first, t)
    BY <1>2, <2>1, <2>2 DEF LocalRead
  <2>5. Local(l, t) = WindowRows(Unmasked, config.window, 0, t)
    BY <2>1 DEF Local
  <2>6. WindowRows(Unmasked, config.window, first, t)
          = WindowRows(Unmasked, config.window, 0, t) \cap (first .. first + count - 1)
    <3>1. \A p : p \in first .. t <=> p \in 0 .. t /\ p \in first .. first + count - 1
      BY <2>3
    <3> QED BY <3>1 DEF WindowRows
  <2> QED BY <2>1, <2>3, <2>4, <2>5, <2>6
<1> QED BY <1>1, <1>2 DEF PieceHolds

(***************************************************************************)
(* One query of a served piece reads what it read in training, when the    *)
(* caches hold what it needs.                                              *)
(***************************************************************************)
LEMMA ReadAgrees ==
  ASSUME config \in Configs, scoring \in Scorings, segments = Unmasked, Budgets,
         NEW l \in Layers, NEW piece, PieceHolds(piece), NEW t \in Rows(piece),
         TrainedRead(l, t),
         NEW global, Compressed => global = Counting(piece.first + piece.count),
         NEW raw, LocalRead(l, t, piece) \subseteq raw,
         NEW share, Mode(l) # "F" => Carries(share, l - 1, t)
  PROVE  /\ AsTrained(l, t, Read(l, t, global, raw, share, piece), Again(piece))
         /\ Read(l, t, global, raw, share, piece).blocks = reads[l][t].blocks
<1> DEFINE available == Len(global) \div Ratio
           blocks == IF ~Compressed THEN {}
                     ELSE IF config.topK > 0 THEN Selected(l, t, available, Budget(available), share)
                     ELSE 0 .. Allowed(t, available) - 1
           read == Read(l, t, global, raw, share, piece)
<1>1. PICK first \in Nat, count \in Nat \ {0}, n \in Nat :
        first = piece.first /\ count = piece.count /\ n = first + count /\ n <= Length
  BY LengthAssumption DEF PieceHolds
<1>2. t \in Nat /\ t < n /\ t >= first /\ t \in Positions /\ Rows(piece) = first .. first + count - 1
  BY <1>1, LengthAssumption DEF Rows, Positions
<1>3. /\ read.blocks = blocks
      /\ read.global = {CompressedRows(global, b) : b \in blocks}
      /\ read.local = LocalRead(l, t, piece)
      /\ read.missing = LocalRead(l, t, piece) \ raw
      /\ read.smear = piece.smear[t]
  BY DEF Read, LocalRead
<1>4. Compressed => blocks = reads[l][t].blocks
  <2> SUFFICES ASSUME Compressed PROVE blocks = reads[l][t].blocks
    OBVIOUS
  <2>1. Len(global) = n
    BY <1>1 DEF Counting
  <2>2. available \in Nat /\ t \div Ratio <= available /\ Allowed(t, available) = t \div Ratio
    BY <1>2, <2>1, Sees
  <2>3. config.topK \in Int /\ config.pool \in Int /\ IndexerCandidateBudget(config) \in Int
    BY BudgetType
  <2>4. CASE ~(config.topK > 0)
    <3>1. reads[l][t].blocks = 0 .. t \div Ratio - 1
      BY <2>3, <2>4 DEF TrainedRead
    <3> QED BY <2>2, <2>4, <3>1
  <2>5. CASE config.topK > 0
    <3>1. PICK k \in Nat : k = available
      BY <2>2
    <3>2. PICK budget \in Int : budget = Budget(k)
      BY <2>3 DEF Budget
    <3>3. /\ config.pool > 1 => budget = IndexerCandidateBudget(config)
          /\ config.pool <= 1 => budget >= config.topK \/ budget >= t \div Ratio
      BY <2>2, <2>3, <3>1, <3>2 DEF Budget
    <3>4. Mode(l) # "F" =>
            /\ share.selection[t] = reads[l - 1][t].blocks
            /\ config.pool > 1 => share.pool[t] = FullPool(ReuseProducer(config, l), t)
      <4>1. Mode(l) # "F" => ReuseProducer(config, l - 1) = ReuseProducer(config, l)
        <5>1. Typed(config) /\ Validate(config) /\ l \in LayersOf(config)
          BY ConfigsAssumption DEF Layers, LayersOf
        <5> QED BY <5>1, Producers DEF Mode
      <4> QED BY <4>1, <2>5 DEF Carries
    <3>5. Selected(l, t, k, budget, share) = IF Mode(l) = "U" THEN share.selection[t] ELSE Indexed(l, t)
      <4>1. Mode(l) = "R" /\ config.pool > 1 => share.pool[t] = FullPool(ReuseProducer(config, l), t)
        BY <3>4
      <4>2. t \div Ratio <= k
        BY <2>2, <3>1
      <4> HIDE DEF available
      <4> QED BY <1>2, <3>3, <4>1, <4>2, SelectedAgrees
    <3>6. reads[l][t].blocks = IF Mode(l) = "U" THEN reads[l - 1][t].blocks ELSE Indexed(l, t)
      BY <2>3, <2>5 DEF TrainedRead
    <3>7. Selected(l, t, k, budget, share) = reads[l][t].blocks
      BY <3>4, <3>5, <3>6
    <3> QED BY <2>5, <3>1, <3>2, <3>7
  <2> QED BY <2>4, <2>5
<1>5. blocks = reads[l][t].blocks
  <2>1. CASE Compressed
    BY <2>1, <1>4
  <2>2. CASE ~Compressed
    BY <2>2 DEF TrainedRead
  <2> QED BY <2>1, <2>2
<1> HIDE DEF blocks, read
<1>6. read.global = {BlockRows(Unmasked, Ratio, Length, b) : b \in reads[l][t].blocks}
  <2>1. CASE Compressed
    <3>1. \A b \in blocks : CompressedRows(global, b) = BlockRows(Unmasked, Ratio, Length, b)
      <4>1. global = Counting(n)
        BY <1>1, <2>1
      <4>2. \A b \in blocks : b \in 0 .. t \div Ratio - 1
        BY <1>5, <2>1 DEF TrainedRead
      <4> QED BY <1>2, <4>1, <4>2, BlocksAgree
    <3> QED BY <1>3, <1>5, <3>1
  <2>2. CASE ~Compressed
    <3>1. reads[l][t].blocks = {}
      BY <2>2 DEF TrainedRead
    <3> QED BY <1>3, <1>5, <3>1
  <2> QED BY <2>1, <2>2
<1>7. read.local = IF t \in Again(piece) THEN reads[l][t].local \cap Again(piece) ELSE reads[l][t].local
  <2>1. reads[l][t].local = Local(l, t)
    BY DEF TrainedRead
  <2> QED BY <1>3, <2>1, LocalAgrees
<1>8. read.smear = t - 1 \/ (t \in Again(piece) /\ t = Min(Again(piece)))
  <2>1. piece.smear[t] = t - 1 \/ (piece.replay /\ t = first)
    BY <1>1 DEF PieceHolds
  <2>2. ASSUME piece.replay PROVE Again(piece) = first .. first + count - 1 /\ Min(first .. first + count - 1) = first
    <3>1. first \in first .. first + count - 1 /\ \A y \in first .. first + count - 1 : first <= y
      BY <1>1
    <3>2. PICK S : S = first .. first + count - 1
      OBVIOUS
    <3>3. S \in SUBSET Nat /\ S # {}
      <4>1. \A y \in S : y \in Nat
        BY <1>1, <3>2
      <4> QED BY <4>1, <3>1, <3>2
    <3>4. Min(S) \in S /\ \A y \in S : Min(S) <= y
      BY <3>3, MinHolds
    <3>5. Min(S) = first
      BY <3>1, <3>2, <3>4
    <3> QED BY <1>2, <2>2, <3>2, <3>5 DEF Again
  <2> QED BY <1>2, <1>3, <2>1, <2>2
<1>9. read.missing = {}
  BY <1>3
<1> QED BY <1>3, <1>5, <1>6, <1>7, <1>8, <1>9 DEF AsTrained, read

\* What a pass has done when it leaves layer l: it began at layer from.
PassHolds(pass, start, piece, from, l) ==
  /\ DOMAIN pass = {"cache", "share", "served"}
  /\ DOMAIN pass.cache = {"position", "previous", "rows", "raw"}
  /\ DOMAIN pass.cache.rows = Layers
  /\ \A x \in Layers : pass.cache.rows[x] =
       GlobalRows(x, IF x <= l \/ piece.replay THEN piece.first + piece.count ELSE piece.first)
  /\ DOMAIN pass.cache.raw = Layers /\ DOMAIN pass.served = Layers
  /\ \A x \in Layers : start.cache.raw[x] \subseteq pass.cache.raw[x]
  /\ \A x \in Layers : x \in from .. l /\ (HasLocal \/ ~Compressed) => Rows(piece) \subseteq pass.cache.raw[x]
  /\ \A x \in Layers :
       IF x \in from .. l
       THEN /\ DOMAIN pass.served[x] = DOMAIN start.served[x] \cup Rows(piece)
            /\ \A t \in Rows(piece) : AsTrained(x, t, pass.served[x][t], Again(piece))
            /\ \A t \in DOMAIN start.served[x] \ Rows(piece) : pass.served[x][t] = start.served[x][t]
       ELSE pass.served[x] = start.served[x]
  /\ l >= from => /\ DOMAIN pass.share = {"selection", "pool", "gradient"}
                  /\ \A t \in Rows(piece) : Carries(pass.share, l, t)

\* What the queries of a piece read locally, the layer has or gets from it.
Reaches(start, piece, l) ==
  \A t \in Rows(piece) : LocalRead(l, t, piece) \subseteq start.cache.raw[l] \cup Rows(piece)

(***************************************************************************)
(* Appending a piece to the rows up to it gives the rows up to its end.    *)
(***************************************************************************)
LEMMA AppendedCounts ==
  ASSUME NEW piece, piece.first \in Nat, piece.count \in Nat
  PROVE  Appended(Counting(piece.first), piece) = Counting(piece.first + piece.count)
<1>1. PICK first \in Nat, count \in Nat : first = piece.first /\ count = piece.count
  OBVIOUS
<1>2. PICK a, b, c : a = Counting(first) /\ b = [i \in 1..count |-> first + i - 1] /\ c = Counting(first + count)
  OBVIOUS
<1>3. a \in Seq(Int) /\ Len(a) = first /\ \A i \in 1..first : a[i] = i - 1
  <2>1. a \in [1..first -> Int]
    BY <1>2 DEF Counting
  <2> QED BY <2>1, <1>2 DEF Counting
<1>4. b \in Seq(Int) /\ Len(b) = count /\ \A i \in 1..count : b[i] = first + i - 1
  <2>1. b \in [1..count -> Int]
    BY <1>2
  <2> QED BY <2>1, <1>2
<1>5. c \in Seq(Int) /\ Len(c) = first + count /\ \A i \in 1..(first + count) : c[i] = i - 1
  <2>1. first + count \in Nat /\ c \in [1..(first + count) -> Int]
    BY <1>2 DEF Counting
  <2> QED BY <2>1, <1>2 DEF Counting
<1>6. a \o b \in Seq(Int) /\ Len(a \o b) = first + count
      /\ \A i \in 1..(first + count) : (a \o b)[i] = IF i <= first THEN a[i] ELSE b[i - first]
  BY <1>3, <1>4, ConcatProperties
<1>7. ASSUME NEW i \in 1..(first + count) PROVE (a \o b)[i] = c[i]
  <2>1. CASE i <= first
    BY <1>3, <1>5, <1>6, <2>1
  <2>2. CASE i > first
    <3>1. i - first \in 1..count
      BY <2>2
    <3>2. b[i - first] = first + (i - first) - 1
      BY <1>4, <3>1
    <3>3. (a \o b)[i] = b[i - first]
      BY <1>6, <2>2
    <3>4. c[i] = i - 1
      BY <1>5
    <3> QED BY <3>2, <3>3, <3>4
  <2>3. i <= first \/ i > first
    OBVIOUS
  <2> QED BY <2>1, <2>2, <2>3
<1>8. a \o b = c
  BY <1>5, <1>6, <1>7, SeqEqual
<1> QED BY <1>1, <1>2, <1>8 DEF Appended

(***************************************************************************)
(* One layer of a served piece: caches, reads and share follow those of    *)
(* training.                                                               *)
(***************************************************************************)
LEMMA ServeStep ==
  ASSUME config \in Configs, scoring \in Scorings, segments = Unmasked, Budgets,
         \A x \in Layers : \A t \in Positions : TrainedRead(x, t),
         NEW piece, PieceHolds(piece), NEW start, NEW from \in Nat, NEW l \in Layers, from <= l,
         Mode(from) = "F", Reaches(start, piece, l),
         NEW before, PassHolds(before, start, piece, from, l - 1)
  PROVE  PassHolds(Serve(l, piece, before), start, piece, from, l)
<1>1. PICK n \in Nat, first \in Nat :
        /\ first = piece.first /\ n = piece.first + piece.count /\ n <= Length
        /\ piece.first \in Nat /\ piece.count \in Nat /\ piece.replay \in BOOLEAN
  BY LengthAssumption DEF PieceHolds
<1>2. Rows(piece) \subseteq Positions
  BY <1>1, LengthAssumption DEF Rows, Positions
<1>3. l \in Nat /\ Layers \subseteq Nat /\ l \in LayersOf(config) /\ Typed(config) /\ Validate(config)
  BY ConfigsAssumption DEF Layers, LayersOf, Typed
<1>4. PICK p \in Layers : p = ReuseProducer(config, l) /\ p <= l /\ Mode(p) = "F"
  <2>1. ReuseProducer(config, l) \in LayersOf(config) /\ ReuseProducer(config, l) <= l
        /\ ReuseModeAt(config, ReuseProducer(config, l)) = "F"
    BY <1>3, Producers
  <2> QED BY <2>1 DEF Layers, LayersOf, Mode
<1> DEFINE share == IF Mode(l) = "F" THEN NewShare ELSE before.share
           rows0 == IF Mode(l) = "F" /\ Compressed /\ ~piece.replay
                    THEN [before.cache.rows EXCEPT ![l] = Appended(@, piece)] ELSE before.cache.rows
           raw == IF HasLocal \/ ~Compressed
                  THEN [before.cache.raw EXCEPT ![l] = @ \union Rows(piece)] ELSE before.cache.raw
           global == rows0[ReuseProducer(config, l)]
           result == [t \in Rows(piece) |-> Read(l, t, global, raw[l], share, piece)]
           available == Len(global) \div Ratio
           left == [share EXCEPT
             !.selection = IF config.topK > 0 THEN [t \in Rows(piece) |-> result[t].blocks] ELSE @,
             !.pool = IF config.topK > 0 /\ config.pool > 1 /\ Mode(l) = "F"
                      THEN [t \in Rows(piece) |-> Pool(l, t, available, Budget(available))] ELSE @]
           after == [cache |-> [before.cache EXCEPT !.rows = rows0, !.raw = raw],
                     share |-> left,
                     served |-> [before.served EXCEPT ![l] = With(@, result)]]
<1>5. Serve(l, piece, before) = after
  BY DEF Serve
<1> HIDE DEF after
<1>6. /\ DOMAIN after = {"cache", "share", "served"} /\ after.share = left
      /\ after.cache = [before.cache EXCEPT !.rows = rows0, !.raw = raw]
      /\ after.served = [before.served EXCEPT ![l] = With(@, result)]
  BY DEF after
<1> HIDE DEF left
<1>7. DOMAIN share = {"selection", "pool", "gradient"} =>
        /\ DOMAIN left = {"selection", "pool", "gradient"}
        /\ config.topK > 0 => left.selection = [t \in Rows(piece) |-> result[t].blocks]
        /\ left.pool = IF config.topK > 0 /\ config.pool > 1 /\ Mode(l) = "F"
                       THEN [t \in Rows(piece) |-> Pool(l, t, available, Budget(available))] ELSE share.pool
  BY DEF left
<1> HIDE DEF available
<1>8. available = Len(global) \div Ratio
  BY DEF available
<1> HIDE DEF result
<1>9. DOMAIN result = Rows(piece) /\ \A t \in Rows(piece) : result[t] = Read(l, t, global, raw[l], share, piece)
  BY DEF result
<1>10. global = rows0[p]
  BY <1>4
<1> HIDE DEF global
<1>11. /\ DOMAIN before.cache = {"position", "previous", "rows", "raw"}
       /\ DOMAIN before.cache.raw = Layers /\ DOMAIN before.served = Layers
       /\ DOMAIN before.cache.rows = Layers
       /\ \A x \in Layers : before.cache.rows[x] = GlobalRows(x, IF x <= l - 1 \/ piece.replay THEN n ELSE first)
       /\ \A x \in Layers : start.cache.raw[x] \subseteq before.cache.raw[x]
  BY <1>1 DEF PassHolds
<1>12. /\ DOMAIN rows0 = Layers
       /\ \A x \in Layers : rows0[x] = GlobalRows(x, IF x <= l \/ piece.replay THEN n ELSE first)
  <2>1. DOMAIN rows0 = Layers
    BY <1>11
  <2>2. ASSUME NEW x \in Layers
        PROVE  rows0[x] = GlobalRows(x, IF x <= l \/ piece.replay THEN n ELSE first)
    <3>1. CASE x # l
      <4>1. rows0[x] = before.cache.rows[x]
        BY <1>11, <3>1
      <4>2. x <= l - 1 <=> x <= l
        BY <1>3, <3>1
      <4> QED BY <1>11, <4>1, <4>2
    <3>2. CASE x = l /\ Mode(l) = "F" /\ Compressed /\ ~piece.replay
      <4>1. before.cache.rows[l] = Counting(first)
        <5>1. ~(l <= l - 1)
          BY <1>3
        <5> QED BY <1>11, <3>2, <5>1 DEF GlobalRows
      <4>2. rows0[l] = Appended(Counting(first), piece)
        BY <1>11, <3>2, <4>1
      <4>3. rows0[l] = Counting(n)
        BY <1>1, <4>2, AppendedCounts
      <4>4. l <= l
        BY <1>3
      <4> QED BY <3>2, <4>3, <4>4 DEF GlobalRows
    <3>3. CASE x = l /\ ~(Mode(l) = "F" /\ Compressed /\ ~piece.replay)
      <4>1. rows0[l] = before.cache.rows[l]
        BY <3>3
      <4> QED BY <1>3, <1>11, <3>3, <4>1 DEF GlobalRows
    <3> QED BY <3>1, <3>2, <3>3
  <2> QED BY <2>1, <2>2
<1> HIDE DEF rows0
<1>13. Compressed => global = Counting(piece.first + piece.count)
  BY <1>1, <1>4, <1>10, <1>12 DEF GlobalRows
<1>14. /\ DOMAIN raw = Layers
       /\ \A x \in Layers : before.cache.raw[x] \subseteq raw[x]
       /\ \A x \in Layers : x # l => raw[x] = before.cache.raw[x]
       /\ HasLocal \/ ~Compressed => Rows(piece) \subseteq raw[l]
  BY <1>11
<1> HIDE DEF raw
<1>15. \A t \in Rows(piece) : LocalRead(l, t, piece) \subseteq raw[l]
  <2>1. CASE HasLocal \/ ~Compressed
    BY <2>1, <1>11, <1>14 DEF Reaches
  <2>2. CASE ~(HasLocal \/ ~Compressed)
    BY <2>2 DEF LocalRead
  <2> QED BY <2>1, <2>2
<1>16. /\ DOMAIN share = {"selection", "pool", "gradient"}
       /\ Mode(l) # "F" => \A t \in Rows(piece) : Carries(share, l - 1, t)
  <2>1. CASE Mode(l) = "F"
    BY <2>1 DEF NewShare
  <2>2. CASE Mode(l) # "F"
    <3>1. from # l
      BY <2>2
    <3>2. l - 1 >= from
      BY <3>1, <1>3
    <3> QED BY <2>2, <3>2 DEF PassHolds
  <2> QED BY <2>1, <2>2
<1> HIDE DEF share
<1>17. ASSUME NEW t \in Rows(piece)
       PROVE  AsTrained(l, t, result[t], Again(piece)) /\ result[t].blocks = reads[l][t].blocks
  <2>1. result[t] = Read(l, t, global, raw[l], share, piece)
    BY <1>9
  <2>2. PICK raw1 : raw1 = raw[l] /\ LocalRead(l, t, piece) \subseteq raw1
    BY <1>15
  <2>3. Mode(l) # "F" => Carries(share, l - 1, t)
    BY <1>16
  <2>4. TrainedRead(l, t)
    BY <1>2
  <2>5. /\ AsTrained(l, t, Read(l, t, global, raw1, share, piece), Again(piece))
        /\ Read(l, t, global, raw1, share, piece).blocks = reads[l][t].blocks
    BY <1>13, <2>2, <2>3, <2>4, ReadAgrees
  <2> QED BY <2>1, <2>2, <2>5
<1>18. DOMAIN left = {"selection", "pool", "gradient"} /\ \A t \in Rows(piece) : Carries(left, l, t)
  <2>1. DOMAIN left = {"selection", "pool", "gradient"}
    BY <1>7, <1>16
  <2>2. ASSUME NEW t \in Rows(piece), config.topK > 0
        PROVE  /\ left.selection[t] = reads[l][t].blocks
               /\ config.pool > 1 => left.pool[t] = FullPool(ReuseProducer(config, l), t)
    <3>1. left.selection = [x \in Rows(piece) |-> result[x].blocks]
      BY <1>7, <1>16, <2>2
    <3>2. left.selection[t] = reads[l][t].blocks
      BY <3>1, <1>17
    <3>3. ASSUME config.pool > 1, Mode(l) = "F" PROVE left.pool[t] = FullPool(ReuseProducer(config, l), t)
      <4>1. left.pool = [x \in Rows(piece) |-> Pool(l, x, available, Budget(available))]
        BY <1>7, <1>16, <2>2, <3>3
      <4>2. left.pool[t] = Pool(l, t, available, Budget(available))
        BY <4>1
      <4>3. Compressed
        <5>1. Validate(config) /\ config.topK > 0
          BY <1>3, <2>2
        <5> QED BY <5>1 DEF Validate, Compressed, Ratio
      <4>4. Len(global) = n
        BY <1>1, <1>13, <4>3 DEF Counting
      <4>5. PICK k \in Nat : k = available /\ t \div Ratio <= k
        <5>1. t < n /\ t \in Positions
          BY <1>1, <1>2 DEF Rows
        <5> QED BY <1>8, <4>4, <5>1, Sees
      <4>6. Budget(k) = IndexerCandidateBudget(config)
        <5>1. config.pool \in Int
          BY BudgetType
        <5> QED BY <5>1, <3>3 DEF Budget
      <4>7. Pool(l, t, k, IndexerCandidateBudget(config)) = FullPool(l, t)
        <5>1. t \in Positions /\ Blocks \in Nat /\ t \div Ratio <= Blocks
          <6>1. t \in Positions
            BY <1>2
          <6> QED BY <6>1, Sees
        <5>2. PICK budget : budget = IndexerCandidateBudget(config)
          OBVIOUS
        <5>3. Pool(l, t, k, budget)
                = Candidates(scoring[l][t], t \div Ratio, t \div Ratio, Max({1, config.pool}), budget)
          BY <4>5, <5>1, PoolAgrees, ZenonT(30)
        <5>4. Pool(l, t, Blocks, budget)
                = Candidates(scoring[l][t], t \div Ratio, t \div Ratio, Max({1, config.pool}), budget)
          BY <5>1, PoolAgrees
        <5> QED BY <5>2, <5>3, <5>4 DEF FullPool
      <4>8. ReuseProducer(config, l) = l
        BY <1>3, <3>3, Producers DEF Mode
      <4> QED BY <4>2, <4>5, <4>6, <4>7, <4>8
    <3>4. ASSUME config.pool > 1, Mode(l) # "F" PROVE left.pool[t] = FullPool(ReuseProducer(config, l), t)
      <4>1. left.pool = share.pool
        BY <1>7, <1>16, <3>4
      <4>2. ReuseProducer(config, l - 1) = ReuseProducer(config, l)
        BY <1>3, <3>4, Producers DEF Mode
      <4>3. Carries(share, l - 1, t)
        BY <1>16, <3>4
      <4> QED BY <2>2, <3>4, <4>1, <4>2, <4>3 DEF Carries
    <3> QED BY <3>2, <3>3, <3>4
  <2> QED BY <2>1, <2>2 DEF Carries
<1>19. /\ DOMAIN after = {"cache", "share", "served"}
       /\ DOMAIN after.cache = {"position", "previous", "rows", "raw"}
       /\ after.cache.rows = rows0 /\ after.cache.raw = raw /\ after.share = left
       /\ DOMAIN after.served = Layers
       /\ after.served[l] = With(before.served[l], result)
       /\ \A x \in Layers : x # l => after.served[x] = before.served[x]
  BY <1>6, <1>11
<1>20. before.served[l] = start.served[l]
  <2>1. l \notin from .. l - 1
    BY <1>3
  <2> QED BY <2>1 DEF PassHolds
<1>21. /\ DOMAIN after.served[l] = DOMAIN start.served[l] \cup Rows(piece)
       /\ \A t \in Rows(piece) : after.served[l][t] = result[t]
       /\ \A t \in DOMAIN start.served[l] \ Rows(piece) : after.served[l][t] = start.served[l][t]
  <2>1. DOMAIN result = Rows(piece)
    BY <1>9
  <2> QED BY <2>1, <1>19, <1>20 DEF With
<1>22. \A x \in Layers : x \in from .. l <=> x \in from .. l - 1 \/ x = l
  BY <1>3
<1>23. ASSUME NEW x \in Layers
       PROVE  /\ start.cache.raw[x] \subseteq raw[x]
              /\ x \in from .. l /\ (HasLocal \/ ~Compressed) => Rows(piece) \subseteq raw[x]
              /\ IF x \in from .. l
                 THEN /\ DOMAIN after.served[x] = DOMAIN start.served[x] \cup Rows(piece)
                      /\ \A t \in Rows(piece) : AsTrained(x, t, after.served[x][t], Again(piece))
                      /\ \A t \in DOMAIN start.served[x] \ Rows(piece) : after.served[x][t] = start.served[x][t]
                 ELSE after.served[x] = start.served[x]
  <2>1. start.cache.raw[x] \subseteq raw[x]
    BY <1>11, <1>14
  <2>2. CASE x = l
    BY <2>1, <2>2, <1>14, <1>17, <1>21, <1>22
  <2>3. CASE x # l
    <3>1. x \in from .. l <=> x \in from .. l - 1
      BY <1>22, <2>3
    <3>2. after.served[x] = before.served[x] /\ raw[x] = before.cache.raw[x]
      BY <1>14, <1>19, <2>3
    <3>3. x \in from .. l - 1 /\ (HasLocal \/ ~Compressed) => Rows(piece) \subseteq before.cache.raw[x]
      BY DEF PassHolds
    <3>4. IF x \in from .. l - 1
          THEN /\ DOMAIN before.served[x] = DOMAIN start.served[x] \cup Rows(piece)
               /\ \A t \in Rows(piece) : AsTrained(x, t, before.served[x][t], Again(piece))
               /\ \A t \in DOMAIN start.served[x] \ Rows(piece) : before.served[x][t] = start.served[x][t]
          ELSE before.served[x] = start.served[x]
      BY DEF PassHolds
    <3> QED BY <2>1, <3>1, <3>2, <3>3, <3>4
  <2> QED BY <2>2, <2>3
<1>24. PassHolds(after, start, piece, from, l)
  BY <1>1, <1>12, <1>14, <1>18, <1>19, <1>23 DEF PassHolds
<1> QED BY <1>5, <1>24

(***************************************************************************)
(* A pass serves its layers one after the other.                           *)
(***************************************************************************)
Unfolds(f, piece, from, to, start) ==
  /\ f[from - 1] = start
  /\ \A l \in from .. to : f[l] = Serve(l, piece, f[l - 1])
  /\ Pass(piece, from, to, start) = f[to]

(***************************************************************************)
(* A pass is the iteration of Serve over its layers, from the lowest.      *)
(***************************************************************************)
LEMMA PassUnfolds ==
  ASSUME NEW piece, NEW from \in Nat, NEW to \in Int, from - 1 <= to, NEW start
  PROVE  \E f : Unfolds(f, piece, from, to, start)
<1> DEFINE D(n) == from - 1 .. from - 1 + n
           Goes(f, n) == f = [l \in D(n) |-> IF l = from - 1 THEN start ELSE Serve(l, piece, f[l - 1])]
           S == {n \in Nat : \E f : Goes(f, n)}
<1>1. 0 \in S
  <2> DEFINE f == [l \in D(0) |-> start]
  <2>1. D(0) = {from - 1}
    OBVIOUS
  <2>2. Goes(f, 0)
    BY <2>1
  <2> QED BY <2>2
<1>2. ASSUME NEW n \in Nat, n \in S PROVE n + 1 \in S
  <2>1. PICK f : Goes(f, n)
    BY <1>2
  <2> DEFINE g == [l \in D(n + 1) |-> IF l = from + n THEN Serve(l, piece, f[l - 1]) ELSE f[l]]
  <2>2. \A l \in D(n) : f[l] = IF l = from - 1 THEN start ELSE Serve(l, piece, f[l - 1])
    BY <2>1
  <2>3. \A l \in D(n + 1) : l \in Int /\ (l \in D(n) \/ l = from + n) /\ (l = from - 1 \/ l - 1 \in D(n))
    OBVIOUS
  <2>4. \A l \in D(n) : l \in D(n + 1) /\ l # from + n
    OBVIOUS
  <2>5. from + n \in D(n + 1) /\ from + n # from - 1
    OBVIOUS
  <2> HIDE DEF D
  <2>6. \A l \in D(n) : g[l] = f[l]
    BY <2>4
  <2>7. g[from + n] = Serve(from + n, piece, f[from + n - 1])
    BY <2>5
  <2>8. ASSUME NEW l \in D(n + 1)
        PROVE  g[l] = IF l = from - 1 THEN start ELSE Serve(l, piece, g[l - 1])
    <3>1. l # from - 1 => g[l - 1] = f[l - 1]
      BY <2>3, <2>6
    <3>2. CASE l \in D(n)
      BY <2>2, <2>6, <3>1, <3>2
    <3>3. CASE l = from + n
      BY <2>5, <2>7, <3>1, <3>3
    <3> QED BY <2>3, <3>2, <3>3
  <2>9. Goes(g, n + 1)
    BY <2>8
  <2> HIDE DEF g, Goes
  <2> QED BY <2>9
<1>3. PICK n \in Nat : n = to - (from - 1) /\ from - 1 + n = to
  OBVIOUS
<1>4. n \in S
  <2> HIDE DEF S
  <2> QED BY <1>1, <1>2, SetInduction
<1>5. D(n) = from - 1 .. to
  BY <1>3
<1> DEFINE upTo == CHOOSE f : f = [l \in from - 1 .. to |-> IF l = from - 1 THEN start ELSE Serve(l, piece, f[l - 1])]
<1>6. Pass(piece, from, to, start) = upTo[to]
  BY DEF Pass
<1>7. upTo = [l \in from - 1 .. to |-> IF l = from - 1 THEN start ELSE Serve(l, piece, upTo[l - 1])]
  <2>1. \E f : f = [l \in from - 1 .. to |-> IF l = from - 1 THEN start ELSE Serve(l, piece, f[l - 1])]
    BY <1>4, <1>5
  <2> QED BY <2>1
<1> HIDE DEF upTo
<1>8. upTo[from - 1] = start
  BY <1>7
<1>9. \A l \in from .. to : l \in from - 1 .. to /\ l # from - 1
  OBVIOUS
<1>10. \A l \in from .. to : upTo[l] = Serve(l, piece, upTo[l - 1])
  BY <1>7, <1>9
<1> QED BY <1>6, <1>8, <1>10 DEF Unfolds

(***************************************************************************)
(* A pass over layers from..to serves each of them as trained, by          *)
(* induction over the layers.                                              *)
(***************************************************************************)
LEMMA PassRuns ==
  ASSUME config \in Configs, scoring \in Scorings, segments = Unmasked, Budgets,
         \A x \in Layers : \A t \in Positions : TrainedRead(x, t),
         NEW piece, PieceHolds(piece), NEW start, NEW from \in Nat, NEW to \in Layers, from <= to,
         Mode(from) = "F", \A l \in from .. to : Reaches(start, piece, l),
         PassHolds(start, start, piece, from, from - 1)
  PROVE  PassHolds(Pass(piece, from, to, start), start, piece, from, to)
<1>0. to \in Nat /\ \A l \in from .. to : l \in Layers
  <2>1. config.layers \in Nat
    BY ConfigsAssumption DEF Typed
  <2> QED BY <2>1 DEF Layers
<1>1. PICK f : /\ f[from - 1] = start
               /\ \A l \in from .. to : f[l] = Serve(l, piece, f[l - 1])
               /\ Pass(piece, from, to, start) = f[to]
  <2>1. to \in Int /\ from - 1 <= to
    BY <1>0
  <2>2. \E f : Unfolds(f, piece, from, to, start)
    BY <2>1, PassUnfolds
  <2> QED BY <2>2 DEF Unfolds
<1> DEFINE S == {n \in Nat : from - 1 + n <= to => PassHolds(f[from - 1 + n], start, piece, from, from - 1 + n)}
<1>2. 0 \in S
  <2>1. from - 1 + 0 = from - 1
    OBVIOUS
  <2> QED BY <2>1, <1>1
<1>3. ASSUME NEW n \in Nat, n \in S PROVE n + 1 \in S
  <2>1. PICK l : l = from - 1 + (n + 1)
    OBVIOUS
  <2>2. l \in Int /\ l - 1 = from - 1 + n /\ from <= l
    BY <2>1
  <2> SUFFICES ASSUME l <= to PROVE PassHolds(f[l], start, piece, from, l)
    BY <2>1
  <2>3. l \in from .. to /\ l \in Layers /\ from - 1 + n <= to
    BY <1>0, <2>2
  <2>4. PICK before : before = f[l - 1] /\ PassHolds(before, start, piece, from, l - 1)
    BY <1>3, <2>2, <2>3
  <2>5. PassHolds(Serve(l, piece, before), start, piece, from, l)
    <3>1. Reaches(start, piece, l)
      BY <2>3
    <3> QED BY <2>2, <2>3, <2>4, <3>1, ServeStep
  <2>6. f[l] = Serve(l, piece, before)
    BY <1>1, <2>3, <2>4
  <2> QED BY <2>5, <2>6
<1>4. PICK n \in Nat : from - 1 + n = to
  <2>1. to - (from - 1) \in Nat /\ from - 1 + (to - (from - 1)) = to
    BY <1>0
  <2> QED BY <2>1
<1>5. n \in S
  <2> HIDE DEF S
  <2> QED BY <1>2, <1>3, SetInduction
<1>6. PassHolds(f[to], start, piece, from, to)
  BY <1>0, <1>4, <1>5
<1> QED BY <1>1, <1>6

(***************************************************************************)
(* The least element of an interval.                                       *)
(***************************************************************************)
LEMMA IntervalMin ==
  ASSUME NEW a \in Nat, NEW b \in Int, a <= b
  PROVE  Min(a .. b) = a
<1>1. a .. b \in SUBSET Nat /\ a \in a .. b
  OBVIOUS
<1>2. Min(a .. b) \in a .. b /\ Min(a .. b) <= a
  BY <1>1, MinHolds
<1> QED BY <1>2

(***************************************************************************)
(* The first row a layer keeps, and what lies before the next one.         *)
(***************************************************************************)
LEMMA FirstKept ==
  ASSUME ServingInv, config \in Configs, NEW l \in Layers
  PROVE  /\ First(l) \in 0 .. cache.position
         /\ \A t \in Replayed(l) : t < cache.position
         /\ First(l) = 0 \/ (/\ Compressed /\ HasLocal
                             /\ config.window \in Nat
                             /\ First(l) + config.window <= cache.position)
<1>1. cache.position \in Nat
  BY DEF ServingInv
<1>2. CASE Replayed(l) = {}
  BY <1>1, <1>2 DEF First
<1>3. CASE Replayed(l) # {}
  <2>1. Replayed(l) = replayed /\ replayed # {}
    BY <1>3 DEF Replayed
  <2>2. PICK s \in Nat, e \in Nat :
          s < e /\ e <= cache.position /\ replayed = s .. e - 1 /\ config.ced /\ (s = 0 \/ s + config.window <= e)
    BY <1>1, <2>1 DEF ServingInv, Replays
  <2>3. Min(s .. e - 1) = s
    <3>1. s <= e - 1 /\ e - 1 \in Int
      BY <2>2
    <3> QED BY <3>1, IntervalMin
  <2>4. First(l) = s
    BY <1>3, <2>1, <2>2, <2>3 DEF First
  <2>5. Compressed /\ HasLocal /\ config.window \in Nat
    <3>1. Typed(config) /\ Validate(config)
      BY ConfigsAssumption
    <3> QED BY <2>2, <3>1 DEF Validate, Typed, Compressed, Ratio, HasLocal
  <2>6. \A t \in Replayed(l) : t < cache.position
    BY <1>1, <2>1, <2>2
  <2> QED BY <1>1, <2>2, <2>4, <2>5, <2>6
<1> QED BY <1>2, <1>3

(***************************************************************************)
(* What a served read is compared with stays as long as the configuration  *)
(* and the reads do.                                                       *)
(***************************************************************************)
LEMMA ServedKept ==
  ASSUME config' = config, reads' = reads
  PROVE  /\ Layers' = Layers /\ (Compressed' <=> Compressed) /\ (HasLocal' <=> HasLocal)
         /\ \A l, n : GlobalRows(l, n)' = GlobalRows(l, n)
         /\ \A l, t, read, again : AsTrained(l, t, read, again)' <=> AsTrained(l, t, read, again)
<1>1. Layers' = Layers /\ Ratio' = Ratio /\ (Compressed' <=> Compressed) /\ (HasLocal' <=> HasLocal)
  BY DEF Layers, Ratio, Compressed, HasLocal
<1>2. \A l, n : GlobalRows(l, n)' = GlobalRows(l, n)
  BY <1>1 DEF GlobalRows, Mode
<1>3. \A l, t, read, again : AsTrained(l, t, read, again)' <=> AsTrained(l, t, read, again)
  BY <1>1 DEF AsTrained
<1> QED BY <1>1, <1>2, <1>3

(***************************************************************************)
(* Nothing is served before the step has ended.                            *)
(***************************************************************************)
LEMMA ServingStart == TrunkInit => ServingInv
<1> SUFFICES ASSUME TrunkInit PROVE ServingInv
  OBVIOUS
<1>1. /\ cache = [position |-> 0, previous |-> -1, rows |-> [l \in Layers |-> << >>], raw |-> [l \in Layers |-> {}]]
      /\ served = [l \in Layers |-> << >>] /\ replayed = {} /\ phase = "forward"
  BY DEF TrunkInit
<1>2. /\ cache.position = 0 /\ cache.previous = -1
      /\ DOMAIN cache = {"position", "previous", "rows", "raw"}
      /\ cache.rows = [l \in Layers |-> << >>] /\ cache.raw = [l \in Layers |-> {}]
  BY <1>1
<1>3. \A l \in Layers : cache.rows[l] = GlobalRows(l, cache.position)
  <2>1. Counting(0) = << >>
    BY DEF Counting
  <2> QED BY <1>2, <2>1 DEF GlobalRows
<1>4. \A l \in Layers : First(l) = 0
  BY <1>1 DEF First, Replayed
<1>5. 0 .. cache.position - 1 = {}
  BY <1>2
<1>6. \A l \in Layers : DOMAIN served[l] = {}
  BY <1>1
<1>7. cache.position \in 0 .. Length /\ cache.previous = cache.position - 1
  BY <1>2, LengthAssumption
<1> QED BY <1>1, <1>2, <1>3, <1>4, <1>5, <1>6, <1>7 DEF ServingInv, Replays

(***************************************************************************)
(* A pass begins with what is in the cache, which reaches as far back as   *)
(* any window of the tokens that follow.                                   *)
(***************************************************************************)
LEMMA PassStarts ==
  ASSUME ServingInv, config \in Configs,
         NEW piece, PieceHolds(piece), ~piece.replay, piece.first = cache.position,
         NEW start, start = [cache |-> cache, share |-> NewShare, served |-> served]
  PROVE  /\ PassHolds(start, start, piece, 0, -1)
         /\ \A l \in Layers : Reaches(start, piece, l)
<1>0. Layers \subseteq Nat /\ start.cache = cache /\ start.served = served /\ DOMAIN start = {"cache", "share", "served"}
      /\ 0 - 1 = -1
  BY DEF Layers
<1>1. ASSUME NEW l \in Layers
      PROVE  /\ cache.rows[l] = GlobalRows(l, IF l <= -1 \/ piece.replay THEN piece.first + piece.count ELSE piece.first)
             /\ l \notin 0 .. -1
  <2>1. ~(l <= -1) /\ l \notin 0 .. -1
    BY <1>0
  <2> QED BY <2>1 DEF ServingInv
<1>2. PassHolds(start, start, piece, 0, -1)
  BY <1>0, <1>1 DEF PassHolds, ServingInv
<1>3. ASSUME NEW l \in Layers PROVE Reaches(start, piece, l)
  <2> SUFFICES ASSUME NEW t \in Rows(piece), NEW p \in LocalRead(l, t, piece)
               PROVE  p \in cache.raw[l] \cup Rows(piece)
    BY <1>0 DEF Reaches
  <2>1. PICK first \in Nat, count \in Nat \ {0} : first = piece.first /\ count = piece.count
    BY DEF PieceHolds
  <2>2. Rows(piece) = first .. first + count - 1 /\ t \in Nat /\ first <= t /\ t <= first + count - 1 /\ first = cache.position
    BY <2>1 DEF Rows
  <2>3. /\ p \in 0 .. t
        /\ Compressed => HasLocal /\ (config.window < 0 \/ t - p <= config.window)
    BY DEF LocalRead, WindowRows
  <2>4. CASE p >= first
    BY <2>2, <2>3, <2>4
  <2>5. CASE ~(p >= first)
    <3>1. PICK low \in Nat : /\ low = First(l) /\ low <= first
                             /\ low = 0 \/ (/\ Compressed /\ HasLocal /\ config.window \in Nat
                                            /\ low + config.window <= first)
      BY <2>2, FirstKept
    <3>2. low <= p
      BY <2>2, <2>3, <3>1
    <3>3. p \in First(l) .. cache.position - 1
      BY <2>2, <2>3, <2>5, <3>1, <3>2
    <3>4. HasLocal \/ ~Compressed
      BY <2>3
    <3> QED BY <3>3, <3>4 DEF ServingInv
  <2> QED BY <2>4, <2>5
<1> QED BY <1>2, <1>3

(***************************************************************************)
(* A decode step, or a prompt in any number of tokens.                     *)
(***************************************************************************)
LEMMA ForwardServes ==
  ASSUME GradientInv, ReadsInv, ServingInv, Budgets, NEW n0 \in 1 .. Length, Forward(n0)
  PROVE  ServingInv'
<1>1. /\ phase = "serve" /\ segments = Unmasked /\ cache.position + n0 <= Length
      /\ UNCHANGED <<model, phase, layer, training, replayed>>
  BY DEF Forward
<1>2. /\ config' = config /\ reads' = reads /\ replayed' = replayed /\ phase' = "serve"
      /\ config \in Configs /\ scoring \in Scorings /\ DOMAIN reads = Layers
  BY <1>1 DEF model, training, GradientInv, TrainingTypes, ReadsInv
<1>3. \A x \in Layers : \A t \in Positions : TrainedRead(x, t)
  BY <1>1, <1>2 DEF ReadsInv
<1>4. PICK first \in Nat, n \in Nat : first = cache.position /\ n = first + n0 /\ n <= Length
  BY <1>1, LengthAssumption DEF ServingInv
<1>5. PICK piece : piece = [first |-> cache.position, count |-> n0, replay |-> FALSE,
                            smear |-> SmearRows(cache.position, n0, cache.previous)]
  OBVIOUS
<1>6. /\ piece.first = first /\ piece.count = n0 /\ piece.replay = FALSE
      /\ piece.smear = SmearRows(first, n0, cache.previous)
      /\ Rows(piece) = first .. n - 1 /\ Again(piece) = {}
  BY <1>4, <1>5 DEF Rows, Again
<1>7. PieceHolds(piece)
  <2>1. cache.previous = first - 1
    BY <1>4 DEF ServingInv
  <2>2. \A t \in Rows(piece) : piece.smear[t] = t - 1
    BY <1>4, <1>6, <2>1, SMTT(30) DEF SmearRows
  <2>3. n0 \in Nat \ {0}
    BY LengthAssumption
  <2>4. /\ piece.first \in Nat /\ piece.count \in Nat \ {0} /\ piece.first + piece.count <= Length
        /\ piece.replay \in BOOLEAN /\ ~piece.replay
    BY <1>4, <1>6, <2>3
  <2> QED BY <2>2, <2>4 DEF PieceHolds
<1>8. PICK start : start = [cache |-> cache, share |-> NewShare, served |-> served]
  OBVIOUS
<1>9. /\ PassHolds(start, start, piece, 0, -1)
      /\ \A l \in Layers : Reaches(start, piece, l)
  BY <1>2, <1>4, <1>6, <1>7, <1>8, PassStarts
<1>10. PICK last \in Layers : last = config.layers - 1 /\ 0 <= last /\ \A l \in Layers : l \in 0 .. last /\ l <= last
  <2>1. config.layers \in Nat \ {0}
    BY <1>2, ConfigsAssumption DEF Typed
  <2> QED BY <2>1 DEF Layers
<1>11. Mode(0) = "F"
  <2>1. Typed(config) /\ Validate(config) /\ 0 \in LayersOf(config)
    BY <1>2, ConfigsAssumption DEF Typed, LayersOf
  <2> QED BY <2>1, Halves DEF Mode
<1>12. PICK pass : pass = Pass(piece, 0, last, start)
  OBVIOUS
<1>13. PassHolds(pass, start, piece, 0, last)
  <2>1. \A l \in 0 .. last : Reaches(start, piece, l)
    BY <1>9, <1>10 DEF Layers
  <2>2. 0 - 1 = -1
    OBVIOUS
  <2> QED BY <1>1, <1>2, <1>3, <1>7, <1>9, <1>10, <1>11, <1>12, <2>1, <2>2, PassRuns
<1>14. /\ cache' = [pass.cache EXCEPT !.position = n, !.previous = n - 1]
       /\ served' = pass.served
  BY <1>4, <1>5, <1>8, <1>10, <1>12 DEF Forward, Settle
<1>15. /\ DOMAIN cache' = {"position", "previous", "rows", "raw"}
       /\ cache'.position = n /\ cache'.previous = n - 1
       /\ cache'.rows = pass.cache.rows /\ cache'.raw = pass.cache.raw
  BY <1>13, <1>14 DEF PassHolds
<1>16. /\ Layers' = Layers /\ (Compressed' <=> Compressed) /\ (HasLocal' <=> HasLocal)
       /\ \A l, m : GlobalRows(l, m)' = GlobalRows(l, m)
       /\ \A l, t, read, again : AsTrained(l, t, read, again)' <=> AsTrained(l, t, read, again)
       /\ \A l : Replayed(l)' = Replayed(l) /\ First(l)' = First(l)
  <2>1. \A l : Replayed(l)' = Replayed(l)
    BY <1>2 DEF Replayed
  <2> QED BY <1>2, <2>1, ServedKept DEF First
<1>17. ASSUME NEW l \in Layers
       PROVE  /\ First(l) \in 0 .. first
              /\ \A t \in Replayed(l) : t < first
              /\ DOMAIN served[l] = First(l) .. first - 1
              /\ \A t \in DOMAIN served[l] : AsTrained(l, t, served[l][t], Replayed(l))
              /\ (HasLocal \/ ~Compressed) => First(l) .. first - 1 \subseteq cache.raw[l]
  <2>1. First(l) \in 0 .. first /\ \A t \in Replayed(l) : t < first
    BY <1>2, <1>4, FirstKept
  <2> QED BY <1>4, <2>1 DEF ServingInv
<1>18. ASSUME NEW l \in Layers
       PROVE  /\ cache'.rows[l] = GlobalRows(l, n)
              /\ (HasLocal \/ ~Compressed) => First(l) .. n - 1 \subseteq cache'.raw[l]
              /\ DOMAIN served'[l] = First(l) .. n - 1
              /\ \A t \in DOMAIN served'[l] : AsTrained(l, t, served'[l][t], Replayed(l))
  <2>1. l \in 0 .. last /\ l <= last
    BY <1>10
  <2>2. cache'.rows[l] = GlobalRows(l, n)
    BY <1>4, <1>6, <1>13, <1>15, <2>1 DEF PassHolds
  <2>3. /\ start.cache.raw[l] = cache.raw[l] /\ start.served[l] = served[l]
        /\ start.cache.raw[l] \subseteq pass.cache.raw[l]
        /\ (HasLocal \/ ~Compressed) => Rows(piece) \subseteq pass.cache.raw[l]
        /\ DOMAIN pass.served[l] = DOMAIN start.served[l] \cup Rows(piece)
        /\ \A t \in Rows(piece) : AsTrained(l, t, pass.served[l][t], Again(piece))
        /\ \A t \in DOMAIN start.served[l] \ Rows(piece) : pass.served[l][t] = start.served[l][t]
    BY <1>8, <1>13, <2>1 DEF PassHolds
  <2>4. First(l) .. n - 1 = (First(l) .. first - 1) \cup (first .. n - 1)
    BY <1>4, <1>17, SMTT(30)
  <2>5. (HasLocal \/ ~Compressed) => First(l) .. n - 1 \subseteq cache'.raw[l]
    BY <1>6, <1>15, <1>17, <2>3, <2>4
  <2>6. DOMAIN served'[l] = First(l) .. n - 1
    BY <1>6, <1>14, <1>17, <2>3, <2>4
  <2>7. ASSUME NEW t \in DOMAIN served'[l] PROVE AsTrained(l, t, served'[l][t], Replayed(l))
    <3>1. CASE t \in Rows(piece)
      <4>1. t \notin Replayed(l)
        BY <1>4, <1>6, <1>17, <3>1
      <4>2. AsTrained(l, t, served'[l][t], {})
        BY <1>6, <1>14, <2>3, <3>1
      <4> QED BY <4>1, <4>2 DEF AsTrained
    <3>2. CASE t \notin Rows(piece)
      <4>1. t \in DOMAIN served[l] /\ served'[l][t] = served[l][t]
        BY <1>14, <2>3, <3>2
      <4> QED BY <4>1, <1>17
    <3> QED BY <3>1, <3>2
  <2> QED BY <2>2, <2>5, <2>6, <2>7
<1>19. DOMAIN cache'.rows = Layers /\ DOMAIN cache'.raw = Layers /\ DOMAIN served' = Layers
  BY <1>13, <1>14, <1>15 DEF PassHolds
<1>20. Replays'
  <2>1. \A s \in 0 .. first : s \in 0 .. n
    BY <1>4
  <2> QED BY <1>2, <1>4, <1>15, <2>1 DEF ServingInv, Replays
<1>21. \A l, t : AsTrained(l, t, served'[l][t], Replayed(l)) => AsTrained(l, t, served[l][t], Replayed(l))'
  <2> TAKE l, t
  <2>1. PICK read, again : read = served'[l][t] /\ again = Replayed(l)
    OBVIOUS
  <2>2. AsTrained(l, t, read, again) => AsTrained(l, t, read, again)'
    BY <1>16
  <2>3. AsTrained(l, t, read, again)' => AsTrained(l, t, served[l][t], Replayed(l))'
    BY <1>16, <2>1 DEF AsTrained
  <2> QED BY <2>1, <2>2, <2>3
<1>22. cache'.position \in 0 .. Length /\ cache'.previous = cache'.position - 1
  BY <1>4, <1>15
<1>23. \A l \in Layers :
         /\ cache'.rows[l] = GlobalRows(l, cache.position)'
         /\ (HasLocal \/ ~Compressed)' => First(l)' .. cache'.position - 1 \subseteq cache'.raw[l]
         /\ DOMAIN served'[l] = First(l)' .. cache'.position - 1
         /\ \A t \in DOMAIN served'[l] : AsTrained(l, t, served[l][t], Replayed(l))'
  <2> TAKE l \in Layers
  <2>1. GlobalRows(l, cache.position)' = GlobalRows(l, n)
    <3>1. GlobalRows(l, cache.position)' = GlobalRows(l, n)'
      BY <1>15 DEF GlobalRows
    <3> QED BY <3>1, <1>16
  <2> QED BY <1>15, <1>16, <1>18, <1>21, <2>1
<1> QED BY <1>2, <1>15, <1>16, <1>19, <1>20, <1>22, <1>23 DEF ServingInv

(***************************************************************************)
(* PrefillCED: what the decoder's pass over the last rows begins with.     *)
(***************************************************************************)
LEMMA EncoderServes ==
  ASSUME config \in Configs, scoring \in Scorings, segments = Unmasked, Budgets, ServingInv,
         \A x \in Layers : \A t \in Positions : TrainedRead(x, t),
         config.ced, cache.position = 0, NEW n \in Nat \ {0}, n <= Length,
         NEW prompt, prompt.first = 0, prompt.count = n, prompt.replay = FALSE,
         prompt.smear = EmbedAndSmear(0, n, cache.previous),
         NEW start, start = [cache |-> cache, share |-> NewShare, served |-> served]
  PROVE  PassHolds(Pass(prompt, 0, CEDSplit(config) - 1, start), start, prompt, 0, CEDSplit(config) - 1)
<1>1. /\ Typed(config) /\ Validate(config) /\ 0 \in LayersOf(config) /\ Layers = LayersOf(config)
      /\ Layers \subseteq Nat
  BY ConfigsAssumption DEF Typed, LayersOf, Layers
<1>2. Mode(0) = "F" /\ CEDSplit(config) \in Layers /\ CEDSplit(config) > 0
  BY <1>1, Halves DEF Mode
<1>3. PICK to : to = CEDSplit(config) - 1
  OBVIOUS
<1>4. to \in Layers /\ 0 <= to /\ \A l \in 0 .. to : l \in Layers
  <2>1. PICK layers \in Nat, split \in Nat :
          /\ layers = config.layers /\ split = CEDSplit(config) /\ split > 0 /\ split <= layers - 1
          /\ Layers = 0 .. layers - 1
    BY <1>1, <1>2 DEF Typed, Layers
  <2> QED BY <1>3, <2>1
<1>5. PieceHolds(prompt)
  <2>1. cache.previous = -1
    BY DEF ServingInv
  <2>2. Rows(prompt) = 0 .. n - 1
    BY DEF Rows
  <2>3. \A t \in Rows(prompt) : prompt.smear[t] = t - 1
    BY <2>1, <2>2 DEF EmbedAndSmear, SmearRows
  <2>4. prompt.first \in Nat /\ prompt.count \in Nat \ {0} /\ prompt.first + prompt.count <= Length
    BY LengthAssumption
  <2>5. prompt.replay \in BOOLEAN /\ ~prompt.replay
    OBVIOUS
  <2> QED BY <2>3, <2>4, <2>5 DEF PieceHolds
<1>6. /\ PassHolds(start, start, prompt, 0, -1)
      /\ \A l \in Layers : Reaches(start, prompt, l)
  BY <1>5, PassStarts
<1>7. \A l \in 0 .. to : Reaches(start, prompt, l)
  BY <1>4, <1>6
<1>8. 0 - 1 = -1 /\ 0 \in Nat
  OBVIOUS
<1>9. PassHolds(Pass(prompt, 0, to, start), start, prompt, 0, to)
  BY <1>2, <1>4, <1>5, <1>6, <1>7, <1>8, PassRuns
<1> QED BY <1>3, <1>9

\* The caches after PrefillCED has appended the prompt to the compressed caches
\* of the decoder.
Filled(prompt, encoded) ==
  [encoded EXCEPT !.cache.rows =
     [l \in Layers |-> IF l >= CEDSplit(config) /\ Mode(l) = "F" THEN Appended(@[l], prompt) ELSE @[l]]]

(***************************************************************************)
(* The decoder finds its compressed caches filled before it replays.       *)
(***************************************************************************)
LEMMA DecoderStarts ==
  ASSUME config \in Configs, config.ced, NEW n \in Nat \ {0},
         NEW prompt, prompt.first = 0, prompt.count = n, prompt.replay = FALSE,
         NEW replay, replay.first + replay.count = n, replay.replay = TRUE,
         NEW start, NEW encoded, PassHolds(encoded, start, prompt, 0, CEDSplit(config) - 1),
         NEW filled, filled = Filled(prompt, encoded)
  PROVE  PassHolds(filled, filled, replay, CEDSplit(config), CEDSplit(config) - 1)
<1>1. /\ Typed(config) /\ Validate(config) /\ 0 \in LayersOf(config) /\ Layers = LayersOf(config)
      /\ Layers \subseteq Nat
  BY ConfigsAssumption DEF Typed, LayersOf, Layers
<1>2. PICK split \in Layers : split = CEDSplit(config) /\ Compressed
  BY <1>1, Halves DEF Compressed, Ratio
<1>3. split \in Nat /\ split .. split - 1 = {} /\ ~(split - 1 >= split)
  BY <1>1
<1>4. /\ DOMAIN encoded = {"cache", "share", "served"}
      /\ DOMAIN encoded.cache = {"position", "previous", "rows", "raw"}
      /\ DOMAIN encoded.cache.raw = Layers /\ DOMAIN encoded.served = Layers
      /\ \A x \in Layers : encoded.cache.rows[x] = GlobalRows(x, IF x <= split - 1 THEN n ELSE 0)
  BY <1>2 DEF PassHolds
<1>5. PICK rows0 : rows0 = [l \in Layers |-> IF l >= split /\ Mode(l) = "F" THEN Appended(encoded.cache.rows[l], prompt)
                                            ELSE encoded.cache.rows[l]]
  OBVIOUS
<1>6. /\ DOMAIN filled = {"cache", "share", "served"}
      /\ filled.served = encoded.served
      /\ DOMAIN filled.cache = {"position", "previous", "rows", "raw"}
      /\ filled.cache.rows = rows0 /\ filled.cache.raw = encoded.cache.raw
  BY <1>2, <1>4, <1>5 DEF Filled
<1>7. ASSUME NEW x \in Layers PROVE rows0[x] = GlobalRows(x, n)
  <2>1. CASE ~(x >= split)
    <3>1. x <= split - 1
      BY <1>1, <1>3, <2>1
    <3> QED BY <1>4, <1>5, <2>1, <3>1
  <2>2. CASE x >= split /\ Mode(x) = "F"
    <3>1. ~(x <= split - 1)
      BY <1>1, <1>3, <2>2
    <3>2. encoded.cache.rows[x] = Counting(0)
      BY <1>2, <1>4, <2>2, <3>1 DEF GlobalRows
    <3>3. Appended(Counting(0), prompt) = Counting(n)
      <4>1. prompt.first \in Nat /\ prompt.count \in Nat /\ prompt.first + prompt.count = n
        OBVIOUS
      <4> QED BY <4>1, AppendedCounts
    <3> QED BY <1>2, <1>5, <2>2, <3>2, <3>3 DEF GlobalRows
  <2>3. CASE x >= split /\ Mode(x) # "F"
    BY <1>4, <1>5, <2>3 DEF GlobalRows
  <2> QED BY <2>1, <2>2, <2>3
<1>8. PassHolds(filled, filled, replay, split, split - 1)
  <2>1. DOMAIN rows0 = Layers
    BY <1>5
  <2> QED BY <1>3, <1>4, <1>6, <1>7, <2>1 DEF PassHolds
<1> QED BY <1>2, <1>6, <1>8

(***************************************************************************)
(* The decoder serves the replayed rows as trained.                        *)
(***************************************************************************)
LEMMA DecoderServes ==
  ASSUME config \in Configs, scoring \in Scorings, segments = Unmasked, Budgets,
         \A x \in Layers : \A t \in Positions : TrainedRead(x, t),
         config.ced, NEW n \in Nat \ {0}, n <= Length,
         NEW replay, replay.first \in Nat, replay.count \in Nat \ {0}, replay.first + replay.count = n,
         replay.replay = TRUE, replay.smear = EmbedAndSmear(replay.first, replay.count, n - 1),
         NEW filled, PassHolds(filled, filled, replay, CEDSplit(config), CEDSplit(config) - 1)
  PROVE  PassHolds(Pass(replay, CEDSplit(config), config.layers - 1, filled), filled, replay,
                   CEDSplit(config), config.layers - 1)
<1>1. /\ Typed(config) /\ Validate(config) /\ 0 \in LayersOf(config) /\ Layers = LayersOf(config)
      /\ Layers \subseteq Nat /\ config.layers \in Nat \ {0}
  BY ConfigsAssumption DEF Typed, LayersOf, Layers
<1>2. /\ CEDSplit(config) \in Layers /\ Mode(CEDSplit(config)) = "F"
      /\ Compressed /\ HasLocal
  BY <1>1, Halves DEF Mode, Compressed, HasLocal, Ratio
<1>3. PICK to : to = config.layers - 1
  OBVIOUS
<1>4. /\ to \in Layers /\ CEDSplit(config) <= to /\ CEDSplit(config) \in Nat
      /\ \A l \in CEDSplit(config) .. to : l \in Layers
  BY <1>1, <1>2, <1>3 DEF Layers
<1>5. PICK first \in Nat, count \in Nat \ {0} : first = replay.first /\ count = replay.count
  OBVIOUS
<1>6. Rows(replay) = first .. first + count - 1
  BY <1>5 DEF Rows
<1>7. PieceHolds(replay)
  <2>1. \A t \in Rows(replay) : replay.smear[t] = t - 1 \/ t = first
    BY <1>5, <1>6 DEF EmbedAndSmear, SmearRows
  <2> QED BY <1>2, <1>5, <2>1 DEF PieceHolds
<1>8. ASSUME NEW l \in CEDSplit(config) .. to PROVE Reaches(filled, replay, l)
  <2> SUFFICES ASSUME NEW t \in Rows(replay), NEW p \in LocalRead(l, t, replay)
               PROVE  p \in Rows(replay)
    BY DEF Reaches
  <2>1. p \in first .. t
    BY <1>2, <1>5 DEF LocalRead, WindowRows
  <2> QED BY <1>6, <2>1
<1>9. PassHolds(Pass(replay, CEDSplit(config), to, filled), filled, replay, CEDSplit(config), to)
  BY <1>2, <1>4, <1>7, <1>8, PassRuns
<1> QED BY <1>3, <1>9

(***************************************************************************)
(* PrefillCED: the encoder serves the whole prompt, the decoder the end of *)
(* it.                                                                     *)
(***************************************************************************)
LEMMA PrefillServes ==
  ASSUME GradientInv, ReadsInv, ServingInv, Budgets, NEW n0 \in 1 .. Length, PrefillCED(n0)
  PROVE  ServingInv'
<1>1. /\ phase = "serve" /\ segments = Unmasked /\ config.ced /\ cache.position = 0
      /\ UNCHANGED <<model, phase, layer, training>>
  BY DEF PrefillCED
<1>2. /\ config' = config /\ reads' = reads /\ phase' = "serve"
      /\ config \in Configs /\ scoring \in Scorings /\ DOMAIN reads = Layers
  BY <1>1 DEF model, training, GradientInv, TrainingTypes, ReadsInv
<1>3. \A x \in Layers : \A t \in Positions : TrainedRead(x, t)
  BY <1>1, <1>2 DEF ReadsInv
<1>4. PICK n \in Nat \ {0} : n = n0 /\ n <= Length
  BY LengthAssumption
<1>5. /\ Typed(config) /\ Validate(config) /\ 0 \in LayersOf(config) /\ Layers = LayersOf(config)
      /\ Layers \subseteq Nat /\ config.layers \in Nat \ {0}
  BY <1>2, ConfigsAssumption DEF Typed, LayersOf, Layers
<1>6. /\ CEDSplit(config) \in Layers /\ CEDSplit(config) > 0
      /\ Compressed /\ HasLocal /\ config.window \in Nat \ {0}
      /\ \A l \in Layers : IsDecoderLayer(config, l) <=> l >= CEDSplit(config)
  <2>1. /\ CEDSplit(config) \in Layers /\ CEDSplit(config) > 0
        /\ Compression(config) > 1 /\ config.window > 0
        /\ \A l \in Layers : IsDecoderLayer(config, l) <=> l >= CEDSplit(config)
    BY <1>1, <1>5, Halves
  <2>2. config.window \in Nat
    BY <1>5 DEF Typed
  <2> QED BY <2>1, <2>2 DEF Compressed, HasLocal, Ratio
<1>7. PICK length \in Nat \ {0} : /\ length = Min({config.window, n}) /\ length <= n
                                  /\ length = n \/ length = config.window
  BY <1>6, MinPair
<1>8. PICK from \in Nat : from = n - length /\ from + length = n
  BY <1>7
<1>9. PICK prompt : prompt = [first |-> 0, count |-> n, replay |-> FALSE,
                              smear |-> EmbedAndSmear(0, n, cache.previous)]
  OBVIOUS
<1>10. PICK replay : replay = [first |-> from, count |-> length, replay |-> TRUE,
                               smear |-> EmbedAndSmear(from, length, n - 1)]
  OBVIOUS
<1>11. PICK start : start = [cache |-> cache, share |-> NewShare, served |-> served]
  OBVIOUS
<1>12. PICK encoded : encoded = Pass(prompt, 0, CEDSplit(config) - 1, start)
  OBVIOUS
<1>13. PICK filled : filled = Filled(prompt, encoded)
  OBVIOUS
<1>14. PICK pass : pass = Pass(replay, CEDSplit(config), config.layers - 1, filled)
  OBVIOUS
<1>15. /\ cache' = [pass.cache EXCEPT !.position = n, !.previous = n - 1]
       /\ served' = pass.served /\ replayed' = Rows(replay)
  BY <1>4, <1>7, <1>8, <1>9, <1>10, <1>11, <1>12, <1>13, <1>14, ZenonT(30) DEF PrefillCED, Settle, Filled
<1>16. /\ prompt.first = 0 /\ prompt.count = n /\ prompt.replay = FALSE
       /\ prompt.smear = EmbedAndSmear(0, n, cache.previous)
       /\ Rows(prompt) = 0 .. n - 1 /\ Again(prompt) = {}
  BY <1>9 DEF Rows, Again
<1>17. /\ replay.first = from /\ replay.count = length /\ replay.replay = TRUE
       /\ replay.smear = EmbedAndSmear(from, length, n - 1)
       /\ Rows(replay) = from .. n - 1 /\ Again(replay) = from .. n - 1
  BY <1>8, <1>10 DEF Rows, Again
<1>18. PassHolds(encoded, start, prompt, 0, CEDSplit(config) - 1)
  BY <1>1, <1>2, <1>3, <1>4, <1>11, <1>12, <1>16, EncoderServes
<1>19. /\ PassHolds(filled, filled, replay, CEDSplit(config), CEDSplit(config) - 1)
       /\ filled.served = encoded.served /\ filled.cache.raw = encoded.cache.raw
  <2>1. replay.first + replay.count = n /\ replay.replay = TRUE
    BY <1>8, <1>17
  <2>2. prompt.first = 0 /\ prompt.count = n /\ prompt.replay = FALSE
    BY <1>16
  <2>3. config \in Configs /\ config.ced /\ n \in Nat \ {0}
    BY <1>1, <1>2
  <2>4. PassHolds(filled, filled, replay, CEDSplit(config), CEDSplit(config) - 1)
    BY <1>13, <1>18, <2>1, <2>2, <2>3, DecoderStarts
  <2>5. DOMAIN encoded = {"cache", "share", "served"} /\ DOMAIN encoded.cache = {"position", "previous", "rows", "raw"}
    BY <1>18 DEF PassHolds
  <2>6. filled.served = encoded.served /\ filled.cache.raw = encoded.cache.raw
    BY <1>13, <2>5 DEF Filled
  <2> QED BY <2>4, <2>6
<1>20. PassHolds(pass, filled, replay, CEDSplit(config), config.layers - 1)
  BY <1>1, <1>2, <1>3, <1>4, <1>8, <1>14, <1>17, <1>19, DecoderServes
<1>21. /\ DOMAIN cache' = {"position", "previous", "rows", "raw"}
       /\ cache'.position = n /\ cache'.previous = n - 1
       /\ cache'.rows = pass.cache.rows /\ cache'.raw = pass.cache.raw
       /\ DOMAIN cache'.rows = Layers /\ DOMAIN cache'.raw = Layers /\ DOMAIN served' = Layers
  BY <1>15, <1>20 DEF PassHolds
<1>22. \A l \in Layers : /\ DOMAIN served[l] = {}
                         /\ cache'.rows[l] = GlobalRows(l, n)
  <2> SUFFICES ASSUME NEW l \in Layers PROVE DOMAIN served[l] = {} /\ cache'.rows[l] = GlobalRows(l, n)
    OBVIOUS
  <2>1. First(l) \in 0 .. 0
    BY <1>1, <1>2, FirstKept
  <2>2. DOMAIN served[l] = First(l) .. 0 - 1
    BY <1>1 DEF ServingInv
  <2>3. DOMAIN served[l] = {}
    BY <2>1, <2>2
  <2> QED BY <1>8, <1>17, <1>20, <1>21, <2>3 DEF PassHolds
<1>23. /\ Layers' = Layers /\ (Compressed' <=> Compressed) /\ (HasLocal' <=> HasLocal)
       /\ \A l, m : GlobalRows(l, m)' = GlobalRows(l, m)
       /\ \A l, t, read, again : AsTrained(l, t, read, again)' <=> AsTrained(l, t, read, again)
  BY <1>2, ServedKept
<1>24. ASSUME NEW l \in Layers
       PROVE  Replayed(l)' = IF l >= CEDSplit(config) THEN from .. n - 1 ELSE {}
  BY <1>2, <1>6, <1>15, <1>17 DEF Replayed
<1>25. ASSUME NEW l \in Layers
       PROVE  First(l)' = IF l >= CEDSplit(config) THEN from ELSE 0
  <2>1. from <= n - 1 /\ n - 1 \in Int
    BY <1>7, <1>8
  <2>2. from .. n - 1 # {} /\ Min(from .. n - 1) = from
    BY <2>1, IntervalMin
  <2> QED BY <1>24, <2>2 DEF First
<1>26. ASSUME NEW l \in Layers
       PROVE  /\ First(l)' .. n - 1 \subseteq cache'.raw[l]
              /\ DOMAIN served'[l] = First(l)' .. n - 1
              /\ \A t \in DOMAIN served'[l] : AsTrained(l, t, served'[l][t], Replayed(l)')
  <2>1. l \in Int /\ l <= config.layers - 1 /\ CEDSplit(config) \in Int /\ l >= 0
    BY <1>5, <1>6 DEF Layers
  <2>2. CASE l >= CEDSplit(config)
    <3>1. l \in CEDSplit(config) .. config.layers - 1 /\ l \notin 0 .. CEDSplit(config) - 1
      BY <1>5, <2>1, <2>2
    <3>2. filled.served[l] = start.served[l]
      BY <1>18, <1>19, <3>1 DEF PassHolds
    <3>3. DOMAIN filled.served[l] = {}
      BY <1>11, <1>22, <3>2
    <3>4. /\ DOMAIN pass.served[l] = Rows(replay)
          /\ \A t \in Rows(replay) : AsTrained(l, t, pass.served[l][t], Again(replay))
          /\ Rows(replay) \subseteq pass.cache.raw[l]
      BY <1>6, <1>20, <3>1, <3>3 DEF PassHolds
    <3> QED BY <1>15, <1>17, <1>21, <1>24, <1>25, <2>2, <3>4
  <2>3. CASE ~(l >= CEDSplit(config))
    <3>1. l \notin CEDSplit(config) .. config.layers - 1 /\ l \in 0 .. CEDSplit(config) - 1
      BY <1>5, <2>1, <2>3
    <3>2. pass.served[l] = encoded.served[l] /\ encoded.cache.raw[l] \subseteq pass.cache.raw[l]
      BY <1>19, <1>20, <3>1 DEF PassHolds
    <3>3. DOMAIN start.served[l] = {}
      BY <1>11, <1>22
    <3>4. /\ DOMAIN encoded.served[l] = Rows(prompt)
          /\ \A t \in Rows(prompt) : AsTrained(l, t, encoded.served[l][t], Again(prompt))
          /\ Rows(prompt) \subseteq encoded.cache.raw[l]
      BY <1>6, <1>18, <3>1, <3>3 DEF PassHolds
    <3> QED BY <1>15, <1>16, <1>21, <1>24, <1>25, <2>3, <3>2, <3>4
  <2> QED BY <2>2, <2>3
<1>27. \A l, t : AsTrained(l, t, served'[l][t], Replayed(l)') => AsTrained(l, t, served[l][t], Replayed(l))'
  <2> TAKE l, t
  <2>1. PICK read, again : read = served'[l][t] /\ again = Replayed(l)'
    OBVIOUS
  <2>2. AsTrained(l, t, read, again) => AsTrained(l, t, read, again)'
    BY <1>23
  <2>3. AsTrained(l, t, read, again)' => AsTrained(l, t, served[l][t], Replayed(l))'
    BY <2>1 DEF AsTrained
  <2> QED BY <2>1, <2>2, <2>3
<1>28. Replays'
  <2>1. from \in 0 .. n /\ n \in 0 .. n /\ from < n
    BY <1>8
  <2>2. from = 0 \/ from + config.window <= n
    <3>1. CASE length = n
      BY <1>8, <3>1
    <3>2. CASE length = config.window
      <4>1. from + config.window = n
        BY <1>8, <3>2
      <4> QED BY <4>1
    <3> QED BY <1>7, <3>1, <3>2
  <2>3. replayed' = from .. n - 1 /\ config'.ced /\ config'.window = config.window
    BY <1>1, <1>2, <1>15, <1>17
  <2> QED BY <1>21, <2>1, <2>2, <2>3 DEF Replays
<1>29. cache'.position \in 0 .. Length /\ cache'.previous = cache'.position - 1
  BY <1>4, <1>21
<1>30. \A l \in Layers :
         /\ cache'.rows[l] = GlobalRows(l, cache.position)'
         /\ First(l)' .. cache'.position - 1 \subseteq cache'.raw[l]
         /\ DOMAIN served'[l] = First(l)' .. cache'.position - 1
         /\ \A t \in DOMAIN served'[l] : AsTrained(l, t, served[l][t], Replayed(l))'
  <2> TAKE l \in Layers
  <2>1. GlobalRows(l, cache.position)' = GlobalRows(l, n)
    <3>1. GlobalRows(l, cache.position)' = GlobalRows(l, n)'
      BY <1>21 DEF GlobalRows
    <3> QED BY <3>1, <1>23
  <2> QED BY <1>21, <1>22, <1>26, <1>27, <2>1
<1> QED BY <1>2, <1>21, <1>23, <1>28, <1>29, <1>30 DEF ServingInv

(***************************************************************************)
(* A training step serves nothing, and nothing has been served.            *)
(***************************************************************************)
LEMMA TrainingServes ==
  ASSUME ServingInv, config \in Configs, config' = config, UNCHANGED inference, phase # "serve"
  PROVE  ServingInv'
<1>1. cache' = cache /\ served' = served /\ replayed' = replayed /\ cache.position = 0
  BY DEF inference, ServingInv
<1>2. Layers' = Layers /\ (Compressed' <=> Compressed) /\ (HasLocal' <=> HasLocal)
  BY DEF Layers, Ratio, Compressed, HasLocal
<1>3. ASSUME NEW l \in Layers
      PROVE  /\ First(l)' = First(l)
             /\ GlobalRows(l, cache.position)' = GlobalRows(l, cache.position)
             /\ DOMAIN served[l] = {}
  <2>1. First(l) \in 0 .. 0
    BY <1>1, FirstKept
  <2>2. DOMAIN served[l] = First(l) .. 0 - 1
    BY <1>1 DEF ServingInv
  <2>3. First(l)' = First(l)
    <3>1. Replayed(l)' = Replayed(l)
      BY <1>1 DEF Replayed
    <3> QED BY <3>1 DEF First
  <2>4. GlobalRows(l, cache.position)' = GlobalRows(l, cache.position)
    BY <1>1, <1>2 DEF GlobalRows, Mode
  <2> QED BY <2>1, <2>2, <2>3, <2>4
<1>4. \A l \in Layers : \A t \in DOMAIN served[l] : AsTrained(l, t, served[l][t], Replayed(l))'
  BY <1>3
<1>5. Replays'
  BY <1>1 DEF ServingInv, Replays
<1> QED BY <1>1, <1>2, <1>3, <1>4, <1>5 DEF ServingInv

(***************************************************************************)
(* Every step of the trunk keeps ServingInv.                               *)
(***************************************************************************)
LEMMA ServingStep ==
  ASSUME GradientInv, ReadsInv, ServingInv, Budgets, [TrunkNext]_trunkVars
  PROVE  ServingInv'
<1>1. config \in Configs
  BY DEF GradientInv, TrainingTypes
<1>2. CASE ForwardFull \/ ForwardBorrowed \/ BackwardFull \/ BackwardBorrowed
  <2>1. phase # "serve" /\ config' = config /\ UNCHANGED inference
    BY <1>2 DEF ForwardFull, ForwardBorrowed, BackwardFull, BackwardBorrowed, model
  <2> QED BY <1>1, <2>1, TrainingServes
<1>3. ASSUME NEW count \in 1 .. Length, Forward(count) PROVE ServingInv'
  BY <1>3, ForwardServes
<1>4. ASSUME NEW count \in 1 .. Length, PrefillCED(count) PROVE ServingInv'
  BY <1>4, PrefillServes
<1>5. CASE UNCHANGED trunkVars
  <2>1. /\ config' = config /\ reads' = reads /\ phase' = phase
        /\ cache' = cache /\ served' = served /\ replayed' = replayed
    BY <1>5 DEF trunkVars, model, training, inference
  <2>2. /\ Layers' = Layers /\ (Compressed' <=> Compressed) /\ (HasLocal' <=> HasLocal)
        /\ \A l, n : GlobalRows(l, n)' = GlobalRows(l, n)
        /\ \A l, t, read, again : AsTrained(l, t, read, again)' <=> AsTrained(l, t, read, again)
    BY <2>1, ServedKept
  <2>3. \A l : Replayed(l)' = Replayed(l)
    BY <2>1 DEF Replayed
  <2>4. \A l : First(l)' = First(l)
    BY <2>3 DEF First
  <2>5. \A l : GlobalRows(l, cache.position)' = GlobalRows(l, cache.position)
    <3> TAKE l
    <3>1. PICK n : n = cache.position
      OBVIOUS
    <3>2. GlobalRows(l, cache.position)' = GlobalRows(l, n)'
      BY <2>1, <3>1 DEF GlobalRows
    <3> QED BY <2>2, <3>1, <3>2
  <2>6. \A l, t : AsTrained(l, t, served[l][t], Replayed(l)) => AsTrained(l, t, served[l][t], Replayed(l))'
    <3> TAKE l, t
    <3>1. PICK read, again : read = served[l][t] /\ again = Replayed(l)
      OBVIOUS
    <3>2. AsTrained(l, t, read, again) => AsTrained(l, t, read, again)'
      BY <2>2
    <3>3. AsTrained(l, t, read, again)' => AsTrained(l, t, served[l][t], Replayed(l))'
      BY <2>1, <2>3, <3>1 DEF AsTrained
    <3> QED BY <3>1, <3>2, <3>3
  <2>7. Replays'
    BY <2>1 DEF ServingInv, Replays
  <2> QED BY <2>1, <2>2, <2>4, <2>5, <2>6, <2>7 DEF ServingInv
<1> QED BY <1>2, <1>3, <1>4, <1>5 DEF TrunkNext

(***************************************************************************)
(* What ServingInv says of the served reads is the property.               *)
(***************************************************************************)
LEMMA ServingShows ==
  ASSUME ServingInv, config \in Configs
  PROVE  InferenceReadsAsTrained
<1> SUFFICES ASSUME segments = Unmasked, NEW l \in Layers
             PROVE  /\ \A t \in 0 .. cache.position - 1 :
                         t \in DOMAIN served[l] \/ (Replayed(l) # {} /\ t < Min(Replayed(l)))
                    /\ \A t \in DOMAIN served[l] : AsTrained(l, t, served[l][t], Replayed(l))
  BY DEF ServingInv, InferenceReadsAsTrained, AsTrained, Replayed
<1>1. First(l) \in 0 .. cache.position /\ DOMAIN served[l] = First(l) .. cache.position - 1
      /\ cache.position \in Nat
  <2>1. cache.position \in Nat
    BY DEF ServingInv
  <2> QED BY <2>1, FirstKept DEF ServingInv
<1>2. ASSUME NEW t \in 0 .. cache.position - 1
      PROVE  t \in DOMAIN served[l] \/ (Replayed(l) # {} /\ t < Min(Replayed(l)))
  <2>1. CASE Replayed(l) = {}
    BY <1>1, <2>1 DEF First
  <2>2. CASE Replayed(l) # {}
    <3>1. PICK low : low = Min(Replayed(l)) /\ low = First(l)
      BY <2>2 DEF First
    <3>2. t \in low .. cache.position - 1 \/ t < low
      BY <1>1, <3>1
    <3> QED BY <1>1, <2>2, <3>1, <3>2
  <2> QED BY <2>1, <2>2
<1>3. \A t \in DOMAIN served[l] : AsTrained(l, t, served[l][t], Replayed(l))
  BY DEF ServingInv
<1> QED BY <1>2, <1>3

(***************************************************************************)
(* However the tokens are cut into forward calls, a served query reads the *)
(* blocks, the local rows and the smeared row the same query read in       *)
(* training, from caches that hold them (transformer.go,                   *)
(* compress_attention.go, kvcache.go): for every configuration that        *)
(* Validate accepts and in which an explicit IndexerCandidates does not    *)
(* cut a flat selection short, every index score and every length.         *)
(***************************************************************************)
THEOREM InferenceAgrees ==
  ASSUME Budgets
  PROVE  TrunkSpec => []InferenceReadsAsTrained
<1>1. TrunkInit => GradientInv /\ ReadsInv /\ ServingInv
  <2>1. TrunkInit => ReadsInv
    BY DEF TrunkInit, ReadsInv
  <2> QED BY <2>1, GradientStart, ServingStart
<1>2. GradientInv /\ ReadsInv /\ ServingInv /\ [TrunkNext]_trunkVars => ReadsInv' /\ ServingInv'
  BY ReadsStep, ServingStep
<1>3. GradientInv /\ ServingInv => InferenceReadsAsTrained
  BY ServingShows DEF GradientInv, TrainingTypes
<1> QED BY <1>1, <1>2, <1>3, GradientInvariance, PTL DEF TrunkSpec

-----------------------------------------------------------------------------
(* The worker pool.                                                        *)

\* The indices from lo to hi, hi excluded.
Indices(lo, hi) == [j \in 1 .. hi - lo |-> lo + j - 1]

(***************************************************************************)
(* Two adjoining ranges join to one.                                       *)
(***************************************************************************)
LEMMA IndicesJoin ==
  ASSUME NEW a \in Int, NEW b \in Int, NEW c \in Int, a <= b, b <= c
  PROVE  /\ Indices(a, b) \in Seq(Int)
         /\ Indices(a, b) \o Indices(b, c) = Indices(a, c)
<1>1. \A lo, hi \in Int : lo <= hi => /\ Indices(lo, hi) \in Seq(Int) /\ Len(Indices(lo, hi)) = hi - lo
                                     /\ \A i \in 1 .. hi - lo : Indices(lo, hi)[i] = lo + i - 1
  <2> TAKE lo, hi \in Int
  <2> HAVE lo <= hi
  <2>1. PICK n \in Nat : n = hi - lo
    OBVIOUS
  <2>2. Indices(lo, hi) = [j \in 1 .. n |-> lo + j - 1]
    BY <2>1 DEF Indices
  <2>3. [j \in 1 .. n |-> lo + j - 1] \in [1 .. n -> Int]
    OBVIOUS
  <2> QED BY <2>1, <2>2, <2>3
<1>2. PICK f \in Seq(Int), g \in Seq(Int), h \in Seq(Int), m \in Nat, n \in Nat :
        /\ f = Indices(a, b) /\ g = Indices(b, c) /\ h = Indices(a, c)
        /\ m = b - a /\ n = c - b
  <2>1. a <= c /\ b - a \in Nat /\ c - b \in Nat
    OBVIOUS
  <2> QED BY <1>1, <2>1
<1>3. Len(f) = m /\ \A i \in 1 .. m : f[i] = a + i - 1
  BY <1>1, <1>2
<1>4. Len(g) = n /\ \A i \in 1 .. n : g[i] = b + i - 1
  BY <1>1, <1>2
<1>5. Len(h) = m + n /\ \A i \in 1 .. m + n : h[i] = a + i - 1
  <2>1. c - a = m + n /\ a <= c
    BY <1>2
  <2> QED BY <1>1, <1>2, <2>1, ZenonT(30)
<1>6. f \o g \in Seq(Int) /\ Len(f \o g) = m + n
      /\ \A i \in 1 .. m + n : (f \o g)[i] = IF i <= m THEN f[i] ELSE g[i - m]
  BY <1>3, <1>4, ConcatProperties, ZenonT(30)
<1>7. ASSUME NEW i \in 1 .. m + n PROVE (f \o g)[i] = h[i]
  <2>1. CASE i <= m
    BY <1>3, <1>5, <1>6, <2>1
  <2>2. CASE i > m
    <3>1. i - m \in 1 .. n
      BY <2>2
    <3>2. g[i - m] = b + (i - m) - 1
      BY <1>4, <3>1
    <3>3. (f \o g)[i] = g[i - m]
      BY <1>6, <2>2
    <3>4. h[i] = a + i - 1
      BY <1>5
    <3> QED BY <1>2, <3>2, <3>3, <3>4
  <2>3. i <= m \/ i > m
    OBVIOUS
  <2> QED BY <2>1, <2>2, <2>3
<1>8. f \o g = h
  BY <1>5, <1>6, <1>7, SeqEqual
<1> QED BY <1>2, <1>8

\* The ranges s follow one another from bound to bound.
Follows(s, b) == \A i \in 1 .. Len(s) : b[i - 1] <= b[i] /\ s[i] = Indices(b[i - 1], b[i])

(***************************************************************************)
(* Ranges that follow one another combine to the indices from the first    *)
(* boundary to the last.                                                   *)
(***************************************************************************)
LEMMA RangesCombine ==
  ASSUME NEW s \in Seq(Seq(Int)), NEW b \in [0 .. Len(s) -> Int], Follows(s, b)
  PROVE  FlattenSeq(s) = Indices(b[0], b[Len(s)])
<1> DEFINE n == Len(s)
<1>1. PICK G \in [0 .. n -> Seq(Int)] : /\ G[0] = << >>
                                      /\ \A k \in 1 .. n : G[k] = G[k - 1] \o s[k]
                                      /\ FlattenSeq(s) = G[n]
  BY FlattenDef
<1>2. n \in Nat /\ \A k \in 0 .. n : b[k] \in Int
  OBVIOUS
<1> DEFINE Has(k) == b[0] <= b[k] /\ G[k] = Indices(b[0], b[k])
           S == {k \in Nat : k <= n => Has(k)}
<1>3. 0 \in S
  <2>1. PICK low \in Int : low = b[0]
    BY <1>2
  <2>2. Indices(low, low) = << >>
    BY DEF Indices
  <2> QED BY <1>1, <2>1, <2>2
<1>4. ASSUME NEW k \in Nat, k \in S PROVE k + 1 \in S
  <2> SUFFICES ASSUME k + 1 <= n PROVE Has(k + 1)
    OBVIOUS
  <2>1. Has(k) /\ k \in 0 .. n /\ k + 1 \in 1 .. n /\ (k + 1) - 1 = k
    BY <1>2, <1>4
  <2>2. G[k + 1] = G[k] \o s[k + 1] /\ b[k] <= b[k + 1] /\ s[k + 1] = Indices(b[k], b[k + 1])
    BY <1>1, <2>1 DEF Follows
  <2>3. PICK low \in Int, mid \in Int, high \in Int : low = b[0] /\ mid = b[k] /\ high = b[k + 1]
    BY <1>2, <2>1
  <2>4. Indices(low, mid) \o Indices(mid, high) = Indices(low, high) /\ low <= high
    <3>1. low <= mid /\ mid <= high
      BY <2>1, <2>2, <2>3
    <3>2. low <= high
      BY <3>1
    <3> QED BY <3>1, <3>2, IndicesJoin
  <2> QED BY <2>1, <2>2, <2>3, <2>4
<1>5. n \in S
  <2> HIDE DEF S
  <2> QED BY <1>2, <1>3, <1>4, SetInduction
<1>6. Has(n)
  BY <1>2, <1>5
<1> QED BY <1>1, <1>6

(***************************************************************************)
(* The boundaries of the ranges rise strictly from the start to the end,   *)
(* whatever the rounding, as long as every worker can have an index.       *)
(***************************************************************************)
LEMMA BoundariesRise ==
  ASSUME NEW start \in Int, NEW end \in Int, NEW w \in Nat \ {0}, w <= end - start
  PROVE  /\ Boundary(start, end, w, 0) = start /\ Boundary(start, end, w, w) = end
         /\ \A i \in 0 .. w : Boundary(start, end, w, i) \in Int
         /\ \A i \in 1 .. w : Boundary(start, end, w, i - 1) < Boundary(start, end, w, i)
<1>1. PICK size \in Nat \ {0} : size = end - start /\ w <= size
  OBVIOUS
<1>2. \A i : Boundary(start, end, w, i) = start + ((size * i) \div w)
  BY <1>1 DEF Boundary
<1>3. \A i \in Int : size * i \in Int /\ (size * i) \div w \in Int
  <2> TAKE i \in Int
  <2>1. PICK a \in Int : a = size * i
    OBVIOUS
  <2>2. a \div w \in Int
    BY Quotient
  <2> QED BY <2>1, <2>2
<1>4. (size * 0) \div w = 0
  <2>1. size * 0 = 0
    OBVIOUS
  <2>2. 0 \div w = 0
    <3>1. PICK q \in Int : q = 0 \div w /\ q \in Nat /\ q * w <= 0
      BY Quotient
    <3> QED BY <3>1
  <2> QED BY <2>1, <2>2
<1>5. (size * w) \div w = size
  <2>1. PICK a \in Int : a = size * w
    OBVIOUS
  <2>2. PICK q \in Int : q = a \div w
    BY Quotient
  <2>3. size <= q
    BY <2>1, <2>2, Quotient
  <2>4. a < (size + 1) * w
    <3>1. (size + 1) * w = a + w
      BY <2>1
    <3> QED BY <3>1
  <2>5. q < size + 1
    BY <2>2, <2>4, Quotient
  <2> QED BY <2>1, <2>2, <2>3, <2>5
<1>6. ASSUME NEW i \in 1 .. w
      PROVE  (size * (i - 1)) \div w < (size * i) \div w
  <2>1. PICK a \in Int, b \in Int : a = size * (i - 1) /\ b = size * i
    OBVIOUS
  <2>2. b = a + size
    BY <2>1
  <2>3. PICK q \in Int, r \in Int : q = a \div w /\ r = b \div w
    BY Quotient
  <2>4. PICK p \in Int : p = q * w /\ p <= a
    BY <2>3, Quotient
  <2>5. (q + 1) * w = p + w
    BY <2>4
  <2>6. (q + 1) * w <= b
    BY <1>1, <2>2, <2>4, <2>5
  <2>7. q + 1 <= r
    BY <2>3, <2>6, Quotient
  <2> QED BY <2>1, <2>3, <2>7
<1>7. \A i \in 1 .. w : i - 1 \in Int /\ i \in Int
  OBVIOUS
<1> QED BY <1>1, <1>2, <1>3, <1>4, <1>5, <1>6, <1>7

\* The chunks are n nonempty ranges from start to end, cut at the boundaries b.
Splits(chunks, n, b, workers, start, end) ==
  /\ DOMAIN chunks = 1 .. n /\ Len(chunks) = n /\ n <= workers
  /\ \A i \in 1 .. n : b[i - 1] < b[i] /\ chunks[i].lo = b[i - 1] /\ chunks[i].hi = b[i]
  /\ b[0] = start
  /\ b[n] = IF start <= end THEN end ELSE start

(***************************************************************************)
(* What a reduction over such ranges combines.                             *)
(***************************************************************************)
LEMMA ReduceCovers ==
  ASSUME NEW pool, NEW processors, NEW start \in Int, NEW end \in Int, NEW workers,
         NEW n \in Nat, NEW b \in [0 .. n -> Int],
         Splits(Chunks(pool, processors, start, end), n, b, workers, start, end)
  PROVE  Reduce(pool, processors, start, end) = Indices(b[0], b[n])
<1>0. PICK chunks : chunks = Chunks(pool, processors, start, end) /\ Splits(chunks, n, b, workers, start, end)
  OBVIOUS
<1> DEFINE f == [i \in DOMAIN chunks |-> [j \in 1 .. chunks[i].hi - chunks[i].lo |-> chunks[i].lo + j - 1]]
<1>1. Reduce(pool, processors, start, end) = FlattenSeq(f)
  BY <1>0 DEF Reduce, For
<1>2. DOMAIN f = 1 .. n /\ \A i \in 1 .. n : f[i] = Indices(b[i - 1], b[i])
  BY <1>0 DEF Indices, Splits
<1>3. ASSUME NEW i \in 1 .. n PROVE f[i] \in Seq(Int) /\ b[i - 1] <= b[i]
  <2>1. i - 1 \in 0 .. n /\ i \in 0 .. n
    OBVIOUS
  <2>2. PICK lo \in Int, hi \in Int : lo = b[i - 1] /\ hi = b[i] /\ lo < hi
    BY <1>0, <2>1 DEF Splits
  <2>3. lo <= hi /\ hi <= hi
    BY <2>2
  <2>4. Indices(lo, hi) \in Seq(Int)
    BY <2>3, IndicesJoin
  <2> QED BY <1>2, <2>2, <2>3, <2>4
<1>4. f \in [1 .. n -> Seq(Int)]
  BY <1>2, <1>3
<1> HIDE DEF f
<1>5. f \in Seq(Seq(Int)) /\ Len(f) = n
  BY <1>4
<1>6. Follows(f, b)
  BY <1>2, <1>3, <1>5 DEF Follows
<1>7. FlattenSeq(f) = Indices(b[0], b[n])
  BY <1>5, <1>6, RangesCombine
<1> QED BY <1>1, <1>7

(***************************************************************************)
(* For, Chunks and Reduce (internal/parallel/pool.go): whatever the length *)
(* of the range, the number of workers and the threshold, every index goes *)
(* to exactly one worker, no worker gets an empty range, and a reduction   *)
(* combines the indices in their order.                                    *)
(***************************************************************************)
THEOREM PartitionsCover ==
  ASSUME NEW pool, pool.workers \in Int, NEW processors \in Nat \ {0}, NEW start \in Int, NEW end \in Int
  PROVE  PartitionCovers(pool, processors, start, end)
<1>1. PICK chunks : chunks = Chunks(pool, processors, start, end)
  OBVIOUS
<1>2. PICK workers \in Nat \ {0} : workers = Workers(pool, processors)
  BY DEF Workers
<1> SUFFICES \E n \in Nat : \E b \in [0 .. n -> Int] : Splits(chunks, n, b, workers, start, end)
  <2>1. PICK n \in Nat : \E b \in [0 .. n -> Int] : Splits(chunks, n, b, workers, start, end)
    OBVIOUS
  <2>2. PICK b \in [0 .. n -> Int] : Splits(chunks, n, b, workers, start, end)
    BY <2>1
  <2>3. DOMAIN chunks = 1 .. n
    BY <2>2 DEF Splits
  <2>4. \A i \in 1 .. n : chunks[i].lo < chunks[i].hi
    <3> TAKE i \in 1 .. n
    <3>1. PICK lo \in Int, hi \in Int : lo = b[i - 1] /\ hi = b[i]
      OBVIOUS
    <3>2. lo < hi
      BY <2>2, <3>1 DEF Splits
    <3> QED BY <2>2, <3>1, <3>2 DEF Splits
  <2>5. Reduce(pool, processors, start, end) = Indices(b[0], b[n])
    BY <1>1, <2>2, ReduceCovers
  <2>6. Indices(b[0], b[n]) = [i \in 1 .. end - start |-> start + i - 1]
    <3>1. CASE start <= end
      BY <2>2, <3>1 DEF Indices, Splits
    <3>2. CASE ~(start <= end)
      <4>1. 1 .. end - start = {} /\ 1 .. start - start = {}
        BY <3>2
      <4> QED BY <2>2, <3>2, <4>1 DEF Indices, Splits
    <3> QED BY <3>1, <3>2
  <2> QED BY <1>1, <1>2, <2>2, <2>3, <2>4, <2>5, <2>6 DEF PartitionCovers, Splits
<1>3. CASE end <= start
  <2>1. chunks = << >>
    BY <1>1, <1>3 DEF Chunks
  <2> DEFINE b == [i \in 0 .. 0 |-> start]
  <2>2. b \in [0 .. 0 -> Int] /\ b[0] = start /\ (start <= end => start = end)
    BY <1>3
  <2>3. 0 \in Nat /\ 0 <= workers /\ 1 .. 0 = {}
    OBVIOUS
  <2> HIDE DEF b
  <2>4. Splits(chunks, 0, b, workers, start, end)
    BY <1>3, <2>1, <2>2, <2>3 DEF Splits
  <2> QED BY <2>2, <2>4
<1>4. CASE ~(end <= start) /\ end - start < pool.minChunk
  <2>1. chunks = <<[lo |-> start, hi |-> end]>>
    BY <1>1, <1>4 DEF Chunks
  <2> DEFINE b == [i \in 0 .. 1 |-> IF i = 0 THEN start ELSE end]
  <2>2. b \in [0 .. 1 -> Int] /\ b[0] = start /\ b[1] = end /\ start < end /\ start <= end
    BY <1>4
  <2>3. 1 \in Nat /\ 1 <= workers /\ \A i \in 1 .. 1 : i = 1 /\ i - 1 = 0
    OBVIOUS
  <2>4. Len(chunks) = 1 /\ chunks[1].lo = start /\ chunks[1].hi = end /\ DOMAIN chunks = 1 .. 1
    BY <2>1
  <2> HIDE DEF b
  <2>5. Splits(chunks, 1, b, workers, start, end)
    BY <2>2, <2>3, <2>4 DEF Splits
  <2> QED BY <2>2, <2>5
<1>5. CASE ~(end <= start) /\ ~(end - start < pool.minChunk)
  <2>1. PICK n \in Nat \ {0} : n = (IF workers > end - start THEN end - start ELSE workers) /\ n <= workers /\ n <= end - start
    BY <1>5
  <2>2. chunks = Ranges(start, end, n)
    BY <1>1, <1>2, <1>5, <2>1 DEF Chunks
  <2>3. /\ Boundary(start, end, n, 0) = start /\ Boundary(start, end, n, n) = end
        /\ \A i \in 0 .. n : Boundary(start, end, n, i) \in Int
        /\ \A i \in 1 .. n : Boundary(start, end, n, i - 1) < Boundary(start, end, n, i)
    BY <2>1, BoundariesRise
  <2>4. DOMAIN chunks = 1 .. n /\ \A i \in 1 .. n : /\ chunks[i].lo = Boundary(start, end, n, i - 1)
                                                   /\ chunks[i].hi = Boundary(start, end, n, i)
    BY <2>2 DEF Ranges
  <2>5. Len(chunks) = n
    BY <2>1, <2>4
  <2> DEFINE b == [i \in 0 .. n |-> Boundary(start, end, n, i)]
  <2>6. b \in [0 .. n -> Int] /\ \A i \in 0 .. n : b[i] = Boundary(start, end, n, i)
    BY <2>3
  <2>7. 0 \in 0 .. n /\ n \in 0 .. n /\ \A i \in 1 .. n : i \in 0 .. n /\ i - 1 \in 0 .. n
    OBVIOUS
  <2> HIDE DEF b
  <2>8. /\ \A i \in 1 .. n : b[i - 1] < b[i] /\ chunks[i].lo = b[i - 1] /\ chunks[i].hi = b[i]
        /\ b[0] = start /\ b[n] = end
    BY <2>3, <2>4, <2>6, <2>7
  <2>9. start <= end
    BY <1>5
  <2>10. Splits(chunks, n, b, workers, start, end)
    BY <2>1, <2>4, <2>5, <2>8, <2>9 DEF Splits
  <2> QED BY <2>6, <2>10
<1> QED BY <1>3, <1>4, <1>5
=============================================================================
