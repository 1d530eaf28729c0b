----------------------------- MODULE PrefixStore -----------------------------
(***************************************************************************)
(* What the engine expects of a prefix cache (the prefixCacheStore         *)
(* interface of inference/engine.go): a map from prompts to snapshots of   *)
(* the state after them.  A lookup answers with a private copy of the      *)
(* longest live snapshot whose prompt is a strict prefix of the query.  A  *)
(* snapshot may be given up when another is stored, when it has expired or *)
(* when it cannot be read back, and by nothing else that keeps the others. *)
(***************************************************************************)
EXTENDS Integers, Sequences, SequencesExt

CONSTANTS
  Callers, Stores, Prompts,
  MaxAge,       \* store -> age from which a snapshot is dead, 0 is never
  Kept(_, _),   \* Kept(m, kv): the form in which store m keeps kv
  None

VARIABLES
  snaps,        \* store -> prompt -> [kv, at]
  copy,         \* caller -> the buffer it owns, or None
  now

Live(m) ==
  {p \in DOMAIN snaps[m] : MaxAge[m] = 0 \/ now - snaps[m][p].at <= MaxAge[m]}

Matching(m, query) == {p \in Live(m) : IsStrictPrefix(p, query)}

\* m goes from snapshots to fewer of them.
KeepsOnly(m, kept) == snaps' = [snaps EXCEPT ![m] = [p \in kept |-> @[p]]]

SInit ==
  /\ snaps = [m \in Stores |-> << >>]
  /\ copy = [c \in Callers |-> None]
  /\ now = 0

Hit(c, m, query) ==
  \E p \in Matching(m, query) :
    /\ \A other \in Matching(m, query) : Len(other) <= Len(p)
    /\ copy' = [copy EXCEPT ![c] = snaps[m][p].kv]
    /\ KeepsOnly(m, Live(m))

Miss(c, m, query) ==
  /\ copy' = [copy EXCEPT ![c] = None]
  /\ \/ Matching(m, query) = {} /\ KeepsOnly(m, Live(m))
     \/ \E unreadable \in Matching(m, query) : KeepsOnly(m, Live(m) \ {unreadable})

Put(c, m, prompt) ==
  LET known == DOMAIN snaps[m] \cup {prompt}
      new == [kv |-> Kept(m, copy[c]), at |-> now]
  IN  /\ copy[c] # None
      /\ UNCHANGED copy
      /\ \E kept \in SUBSET known :
           snaps' = [snaps EXCEPT ![m] =
                       [p \in kept |-> IF p = prompt THEN new ELSE @[p]]]

\* A caller's work on the buffer it owns is its own affair.
Work(c) ==
  /\ DOMAIN copy' = Callers
  /\ \A other \in Callers \ {c} : copy'[other] = copy[other]
  /\ UNCHANGED snaps

Clear(m) == UNCHANGED copy /\ KeepsOnly(m, {})

Restart ==
  /\ copy' = [c \in Callers |-> None]
  /\ snaps' = [m \in Stores |-> << >>]

SNext ==
  \/ /\ UNCHANGED now
     /\ \/ Restart
        \/ \E m \in Stores : Clear(m)
        \/ \E c \in Callers :
             \/ Work(c)
             \/ \E m \in Stores, p \in Prompts : Put(c, m, p) \/ Hit(c, m, p) \/ Miss(c, m, p)
  \/ now' = now + 1 /\ UNCHANGED <<snaps, copy>>

SSpec == SInit /\ [][SNext]_<<snaps, copy, now>>
=============================================================================
