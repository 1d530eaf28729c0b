----------------------------- MODULE Speculative -----------------------------
(***************************************************************************)
(* Engine.speculativeGenerate (inference/speculative.go): a drafter        *)
(* proposes a block, the target model scores it in one forward pass over    *)
(* the KV cache, and the accepted prefix is emitted token by token while    *)
(* the cache is rewound behind the rejected rest.                          *)
(*                                                                         *)
(* The target is known by the tokens it prefers along its own greedy path; *)
(* off the path, or from a cache that does not match its smear state, it    *)
(* may prefer anything.  The drafter may propose anything.                 *)
(***************************************************************************)
EXTENDS Integers, Sequences, SequencesExt

CONSTANTS
  Words,         \* ordinary tokens
  End,           \* <|assistant_end|> or BOS
  DraftLength,   \* tokens per block, the first one included
  MaxTokens,     \* maxTokens, positive in the server
  Rooms          \* what the prompt leaves of Config.SequenceLen

ASSUME SpeculativeConstants ==
  /\ End \notin Words
  /\ DraftLength \in Nat /\ DraftLength >= 2
  /\ MaxTokens \in Nat \ {0}
  /\ Rooms \subseteq Nat

VARIABLES
  path,      \* the greedy continuation
  room,      \* Config.SequenceLen less the prompt's length
  rows,      \* tokens whose KV rows are in the cache, with the last block's rejected ones
  position,  \* the cache's position, counted from the end of the prompt
  previous,  \* the token of the smear embedding, or Prompt
  pending,   \* the first candidate of the next block
  queue,     \* accepted candidates not yet emitted
  out,       \* tokens yielded
  status

vars == <<path, room, rows, position, previous, pending, queue, out, status>>

Vocabulary == Words \cup {End}
Prompt == "prompt"
Horizon == MaxTokens + DraftLength

LastOr(s) == IF s = << >> THEN Prompt ELSE s[Len(s)]

Init ==
  /\ path \in [1..Horizon -> Vocabulary]
  /\ room \in Rooms
  /\ rows = << >>
  /\ position = 0
  /\ previous = Prompt
  /\ pending = path[1]
  /\ queue = << >>
  /\ out = << >>
  /\ status = "running"

Cached == SubSeq(rows, 1, position)

\* The tokens the target may prefer after context, given the cache it runs on.
Preferred(context) ==
  IF previous = LastOr(Cached) /\ IsStrictPrefix(context, path)
    THEN {path[Len(context) + 1]}
    ELSE Vocabulary

BlockSize == IF DraftLength <= room - position THEN DraftLength ELSE room - position

AcceptAllBug(block, verified) == Len(block)

\* The first candidate and the drafts that match what the target preferred.
Accepted(block, verified) ==
  CHOOSE k \in 1..Len(block) :
    /\ \A j \in 1..(k - 1) : verified[j] = block[j + 1]
    /\ k = Len(block) \/ verified[k] # block[k + 1]

KeepAllRowsBug(accepted, block) == position + Len(block)

\* cache.SetPosition(basePosition + accepted)
Rewound(accepted, block) == position + accepted

\* SetPreviousEmbeddingForToken(cache, candidates[accepted-1])
Smear(accepted, block) == block[accepted]

Round ==
  /\ status = "running"
  /\ queue = << >>
  /\ Len(out) < MaxTokens
  /\ BlockSize >= 1
  /\ \E drafted \in SeqOf(Vocabulary, BlockSize - 1) :
       LET block == <<pending>> \o drafted
       IN  \E verified \in [1..Len(block) -> Vocabulary] :
             /\ \A i \in 1..Len(block) :
                  verified[i] \in Preferred(Cached \o SubSeq(block, 1, i))
             /\ LET k == Accepted(block, verified)
                IN  /\ rows' = Cached \o block
                    /\ position' = Rewound(k, block)
                    /\ previous' = Smear(k, block)
                    /\ queue' = SubSeq(block, 1, k)
                    /\ pending' = verified[k]
  /\ UNCHANGED <<path, room, out, status>>

EmitWord ==
  /\ status = "running"
  /\ queue # << >>
  /\ Head(queue) # End
  /\ out' = Append(out, Head(queue))
  /\ queue' = Tail(queue)
  /\ status' \in {"quit", IF Len(out') < MaxTokens THEN "running" ELSE "done"}
  /\ UNCHANGED <<path, room, rows, position, previous, pending>>

\* A terminal token ends the row and is not yielded.
EmitEnd ==
  /\ status = "running"
  /\ queue # << >>
  /\ Head(queue) = End
  /\ status' = "done"
  /\ UNCHANGED <<path, room, rows, position, previous, pending, queue, out>>

SpinWithoutRoomBug ==
  /\ status = "running"
  /\ queue = << >>
  /\ BlockSize < 1
  /\ UNCHANGED vars

NoRoom ==
  /\ status = "running"
  /\ queue = << >>
  /\ BlockSize < 1
  /\ status' = "done"
  /\ UNCHANGED <<path, room, rows, position, previous, pending, queue, out>>

Terminated == status # "running" /\ UNCHANGED vars

Next == Round \/ EmitWord \/ EmitEnd \/ NoRoom \/ Terminated

\* One goroutine, which never waits.
Spec == Init /\ [][Next]_vars /\ WF_vars(Next)

-----------------------------------------------------------------------------
(* Properties.                                                             *)

\* Every variable has its type, and the cache never grows past the context.
TypeOK ==
  /\ path \in [1..Horizon -> Vocabulary]
  /\ room \in Rooms
  /\ rows \in Seq(Vocabulary) /\ Len(rows) <= room
  /\ position \in 0..Len(rows)
  /\ previous \in Vocabulary \cup {Prompt}
  /\ pending \in Vocabulary
  /\ queue \in Seq(Vocabulary)
  /\ out \in Seq(Words) /\ Len(out) <= MaxTokens
  /\ status \in {"running", "done", "quit"}

\* The candidate carried into the next round is the target's own choice.
PendingIsGreedy == pending = path[position + 1]

\* Behind its position the cache holds exactly the tokens emitted or about to
\* be, whatever was rejected, the smear state is that of the last of them, and
\* the candidate of the next round is the greedy one.
CacheFollowsOutput ==
  status = "running" =>
    /\ Cached = out \o queue
    /\ previous = LastOr(Cached)
    /\ PendingIsGreedy

Smaller(a, b) == IF a <= b THEN a ELSE b

Greedy == INSTANCE GreedyDecode WITH limit <- Smaller(MaxTokens, room)

\* "It produces exactly the same tokens as greedy decoding with the target
\* model": the words yielded, and when they end.
ImplementsGreedy == Greedy!GSpec

\* Generation ends on its own.
Terminates == <>(status # "running")

=============================================================================
