----------------------------- MODULE PrefixReuse -----------------------------
(***************************************************************************)
(* The prefill of Engine.GenerateWith (inference/engine.go) over two        *)
(* CacheManagers shared by concurrent requests: the pool of full snapshots *)
(* (SWACache) is asked first, then the main store, whose stripped snapshots *)
(* are completed by bounded replay (cache.go); the rest of the prompt is    *)
(* forwarded and the result stored in both.  Each manager call is atomic,  *)
(* the request is not.  A restart reads nothing back and is left to the    *)
(* CacheManager module.                                                    *)
(***************************************************************************)
EXTENDS CacheManager

CONSTANTS
  Main,      \* Engine.Cache
  Pool,      \* Engine.SWACache, full snapshots in host memory
  Window     \* Config.SWAWindowSize, 0 is none

ASSUME ReuseConstants ==
  /\ Main \in Managers /\ Pool \in Managers /\ Main # Pool
  /\ Pool \notin StripSWA \cup OnDisk
  /\ Window \in Nat

VARIABLES
  stage,     \* request handler -> where its GenerateWith is
  prompt     \* request handler -> the prompt tokens

reuseVars == <<mgr, cell, held, orphans, now, stage, prompt>>

Stages == {"idle", "pool", "main", "replay", "forward", "storeMain", "storePool",
           "decode"}

ReuseInit ==
  /\ Init
  /\ stage = [c \in Callers |-> "idle"]
  /\ prompt = [c \in Callers |-> << >>]

At(c, from) == stage[c] = from /\ UNCHANGED prompt
GoTo(c, to) == stage' = [stage EXCEPT ![c] = to]

-----------------------------------------------------------------------------
Request(c) ==
  /\ stage[c] = "idle"
  /\ \E p \in Prompts : prompt' = [prompt EXCEPT ![c] = p]
  /\ GoTo(c, "pool")
  /\ UNCHANGED vars

AskPool(c) ==
  /\ At(c, "pool")
  /\ Lookup(c, Pool, prompt[c])
  /\ GoTo(c, IF held'[c] = None THEN "main" ELSE "forward")

AskMain(c) ==
  /\ At(c, "main")
  /\ Lookup(c, Main, prompt[c])
  /\ GoTo(c, IF held'[c] = None THEN "forward" ELSE "replay")

SeedStaleBug(kv) == [kv EXCEPT !.raw = TRUE, !.exact = FALSE]

\* replayLocalState on a stripped snapshot of n tokens starts at n - Window - 1.
\* Below 0 it replays everything from an empty smear state, as a prefill does;
\* from 0 on, the first row smears from the snapshot's last embedding and the
\* rows before it are missing, so the result is approximate.
Replayed(kv) ==
  [kv EXCEPT !.raw = TRUE, !.exact = @ /\ Len(kv.tokens) - Window - 1 < 0]

Replay(c) ==
  /\ At(c, "replay")
  /\ LET kv == cell[held[c]]
     IN  cell' = [cell EXCEPT ![held[c]] =
                    IF kv.stripped /\ Window > 0 THEN Replayed(kv) ELSE kv]
  /\ GoTo(c, "forward")
  /\ UNCHANGED <<mgr, held, orphans, now>>

\* A new buffer for the whole prompt, or the rest of it into the reused one.
ForwardPrompt(c) ==
  /\ At(c, "forward")
  /\ LET p == prompt[c]
         Rest(kv) == SubSeq(p, Len(kv.tokens) + 1, Len(p))
     IN  IF held[c] = None
           THEN /\ held' = [held EXCEPT ![c] = c]
                /\ \E size \in Sizes :
                     cell' = [cell EXCEPT ![c] =
                       [tokens |-> p, size |-> size, raw |-> TRUE,
                        stripped |-> FALSE, exact |-> TRUE]]
           ELSE /\ cell' = [cell EXCEPT ![held[c]] = Forwarded(@, Rest(@))]
                /\ UNCHANGED held
  /\ GoTo(c, "storeMain")
  /\ UNCHANGED <<mgr, orphans, now>>

StoreMain(c) ==
  /\ At(c, "storeMain")
  /\ StoreMemory(c, Main, prompt[c]) \/ StoreFile(c, Main, prompt[c])
  /\ GoTo(c, "storePool")

StorePool(c) ==
  /\ At(c, "storePool")
  /\ StoreMemory(c, Pool, prompt[c]) \/ StoreFile(c, Pool, prompt[c])
  /\ GoTo(c, "decode")

\* Decoding works on a copy of the prefilled buffer (PrefillFrom).
Finish(c) ==
  /\ stage[c] = "decode"
  /\ held' = [held EXCEPT ![c] = None]
  /\ cell' = Collected(cell, mgr, held')
  /\ GoTo(c, "idle")
  /\ prompt' = [prompt EXCEPT ![c] = << >>]
  /\ UNCHANGED <<mgr, orphans, now>>

Age == Tick /\ UNCHANGED <<stage, prompt>>

ReuseNext ==
  \/ \E c \in Callers :
       \/ Request(c) \/ AskPool(c) \/ AskMain(c) \/ Replay(c) \/ ForwardPrompt(c)
       \/ StoreMain(c) \/ StorePool(c) \/ Finish(c)
  \/ Age

ReuseSpec == ReuseInit /\ [][ReuseNext]_reuseVars

-----------------------------------------------------------------------------
(* Properties.                                                             *)

Buffer(c) == cell[held[c]]

\* The window rows of a model that has a window are in the buffer before the
\* prompt's rest is forwarded: stripped snapshots are completed on every path
\* that reaches the forward.
WindowPresent ==
  Window > 0 =>
    \A c \in Callers :
      held[c] # None /\ stage[c] \in {"forward", "storeMain", "storePool", "decode"} =>
        Buffer(c).raw

\* engine.go: SWACache is "a small short-TTL cache of full KV snapshots
\* (including sliding-window state)".
PoolIsFull ==
  Window > 0 => \A p \in DOMAIN mgr[Pool].entries : Stored(Pool, p).raw

\* The buffer a request decodes from covers exactly its prompt, and the one it
\* found covers a strict prefix, so at least one token is left to forward: no
\* concurrent request ever writes into the buffer of another.  Its window rows
\* are there when they are read, whatever the two stores stripped.
BufferCoversPrompt ==
  /\ \A c \in Callers :
       /\ stage[c] \in {"storeMain", "storePool", "decode"} => Buffer(c).tokens = prompt[c]
       /\ stage[c] \in {"replay", "forward"} /\ held[c] # None =>
            IsStrictPrefix(Buffer(c).tokens, prompt[c])
  /\ WindowPresent
  /\ PoolIsFull

\* A prompt of at most Window + 1 tokens is always decoded from what a full
\* prefill would have computed, however many snapshots and replays led there.
ShortPromptsExact ==
  \A c \in Callers :
    stage[c] = "decode" /\ Len(prompt[c]) <= Window + 1 => Buffer(c).exact
=============================================================================
