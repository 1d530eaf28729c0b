---------------------------- MODULE CacheManager ----------------------------
(***************************************************************************)
(* The multi-entry KV prefix cache (inference/cache.go): snapshots of      *)
(* prefilled KV buffers keyed by their token sequence, evicted by LRU order *)
(* and byte budget, expired by age, kept in memory or as files.            *)
(*                                                                         *)
(* Every method holds cache.mutex, so each is one step.  Buffers are        *)
(* objects that callers go on writing to, so they live in cells and the    *)
(* managers and the callers hold references: whether a snapshot is a copy  *)
(* is part of the model.  The SHA-256 key of a sequence is the sequence.   *)
(* A save may fail at any point; removing a file, whose error the code      *)
(* ignores, succeeds.                                                      *)
(***************************************************************************)
EXTENDS SeqSums, FiniteSets, Functions

CONSTANTS
  Callers,      \* goroutines using the managers
  Managers,     \* the CacheManager instances
  Prompts,      \* token sequences callers store and look up, none empty
  Sizes,        \* BytesAllocated of the buffers callers make
  MaxEntries, MaxBytes, TTL,  \* CacheOptions by manager, 0 is no limit
  OnDisk,       \* managers with a DiskDir, each a directory of its own
  StripSWA,     \* managers with StripSWA
  MaxClock,     \* bound on time, for model checking
  None,         \* no buffer
  File          \* the reference of an entry kept as a file

\* A buffer: the tokens it covers, its size, whether the raw rows of the last
\* window are in it, the rawStripped flag, and whether all of it is what a full
\* prefill of the tokens computes.
KV == [tokens : Prompts \cup {<< >>}, size : Sizes, raw : BOOLEAN,
       stripped : BOOLEAN, exact : BOOLEAN]

ASSUME CacheConstants ==
  /\ Prompts \subseteq Seq(Nat) \ {<< >>}
  /\ Sizes \subseteq Nat \ {0}
  /\ MaxEntries \in [Managers -> Nat]
  /\ MaxBytes \in [Managers -> Nat]
  /\ TTL \in [Managers -> Nat]
  /\ OnDisk \subseteq Managers
  /\ StripSWA \subseteq Managers
  /\ MaxClock \in Nat
  /\ Callers \cap (Managers \X Prompts) = {}
  /\ {None, File} \cap (Callers \cup (Managers \X Prompts)) = {}
  /\ None # File /\ None \notin KV

VARIABLES
  mgr,          \* manager -> [entries, order, bytes, files]
  cell,         \* reference -> the KV buffer there, or None
  held,         \* caller -> reference to the buffer it works on, or None
  orphans,      \* manager -> prompts whose files an earlier process left and
                \* no entry has owned since
  now

vars == <<mgr, cell, held, orphans, now>>

\* A clone made by a manager lives in that manager's cell for the prompt, one
\* made for a caller in the caller's cell.
Cells == Callers \cup (Managers \X Prompts)
Entry == [ref : Cells \cup {File}, size : Sizes, storedAt : Nat]

\* The manager's map and files by prompt, its LRU list, its byte count, and the
\* prompts of which a temporary file is in the directory.
State == [entries : UNION {[D -> Entry] : D \in SUBSET Prompts},
          order : Seq(Prompts), bytes : Nat,
          files : UNION {[D -> KV] : D \in SUBSET Prompts},
          temps : SUBSET Prompts]

\* A manager with no entries, above what is in its directory.
Emptied(files, temps) ==
  [entries |-> << >>, order |-> << >>, bytes |-> 0, files |-> files, temps |-> temps]

Empty == Emptied(<< >>, {})

Init ==
  /\ mgr = [m \in Managers |-> Empty]
  /\ cell = [r \in Cells |-> None]
  /\ held = [c \in Callers |-> None]
  /\ orphans = [m \in Managers |-> {}]
  /\ now = 0

\* A buffer that neither a caller nor an entry refers to is garbage.
Collected(cells, mgrs, holders) ==
  LET used == {holders[c] : c \in Callers} \cup
              UNION {{mgrs[m].entries[p].ref : p \in DOMAIN mgrs[m].entries} :
                       m \in Managers}
  IN  [r \in Cells |-> IF r \in used THEN cells[r] ELSE None]

\* A file that an entry has taken over is no orphan any more.
Update(m, s, cells, holders) ==
  LET mgrs == [mgr EXCEPT ![m] = s]
  IN  /\ mgr' = mgrs
      /\ held' = holders
      /\ cell' = Collected(cells, mgrs, holders)
      /\ orphans' = [orphans EXCEPT ![m] =
                       @ \ {p \in DOMAIN s.entries : s.entries[p].ref = File}]
      /\ UNCHANGED now

-----------------------------------------------------------------------------
(* The locked helpers, on one manager's state s.                           *)

\* The map f with v at p.
With(f, p, v) == [x \in DOMAIN f \cup {p} |-> IF x = p THEN v ELSE f[x]]

\* removeEntryLocked, for each prompt of gone.
Removed(s, gone) ==
  LET deleted == {p \in gone : s.entries[p].ref = File}
  IN  [entries |-> Restrict(s.entries, DOMAIN s.entries \ gone),
       order   |-> Only(s.order, Prompts \ gone),
       bytes   |-> s.bytes - Total([i \in DOMAIN s.order |->
                     IF s.order[i] \in gone THEN s.entries[s.order[i]].size ELSE 0]),
       files   |-> Restrict(s.files, DOMAIN s.files \ deleted),
       temps   |-> s.temps]

RefreshBug(s, p) ==
  [s EXCEPT !.order = Append(Only(@, Prompts \ {p}), p),
            !.entries[p].storedAt = now]

\* touchLocked.
Touched(s, p) ==
  [s EXCEPT !.order = Append(Only(@, Prompts \ {p}), p)]

\* expireLocked: by the time of storing, however recently an entry was used.
Expired(m, s) ==
  Removed(s, {p \in DOMAIN s.entries :
                TTL[m] > 0 /\ now - s.entries[p].storedAt > TTL[m]})

OneLoopBug(m, s) ==
  LET excess == Len(s.order) - MaxEntries[m]
  IN  IF MaxEntries[m] > 0 /\ excess > 0
        THEN Removed(s, {s.order[i] : i \in 1..excess})
        ELSE s

\* evictLocked: the oldest entries go until both limits hold, the entry just
\* stored too when it is larger than MaxBytes on its own.
Evicted(m, s) ==
  LET Fits(k) ==
        /\ MaxEntries[m] = 0 \/ Len(s.order) - k <= MaxEntries[m]
        /\ MaxBytes[m] = 0 \/ Removed(s, {s.order[i] : i \in 1..k}).bytes <= MaxBytes[m]
      victims == CHOOSE k \in 0..Len(s.order) :
                   /\ Fits(k) \/ k = Len(s.order)
                   /\ \A j \in 0..(k - 1) : ~Fits(j)
  IN  Removed(s, {s.order[i] : i \in 1..victims})

-----------------------------------------------------------------------------
(* KV buffers.                                                             *)

\* StripRaw, for a compressed buffer.
Stripped(kv) == [kv EXCEPT !.raw = FALSE, !.stripped = TRUE]

\* MarshalBinary leaves the raw rows out when the flag is set, whether or not
\* they have been rebuilt since.
Marshalled(kv) == [kv EXCEPT !.raw = @ /\ ~kv.stripped]

\* A forward pass over more tokens; without the window rows its results differ
\* from a full prefill's.
Forwarded(kv, tokens) == [kv EXCEPT !.tokens = @ \o tokens, !.exact = @ /\ kv.raw]

SnapshotOf(m, kv) == IF m \in StripSWA THEN Stripped(kv) ELSE kv

-----------------------------------------------------------------------------
(* Lookup.  The longest stored strict prefix of the query, after expiry.   *)

Matching(s, query) == {p \in DOMAIN s.entries : IsStrictPrefix(p, query)}

Longest(S) == CHOOSE p \in S : \A q \in S : Len(q) <= Len(p)

LookupMiss(c, m, query) ==
  LET s == Expired(m, mgr[m])
  IN  /\ Matching(s, query) = {}
      /\ Update(m, s, cell, [held EXCEPT ![c] = None])

ShareStateBug(c, m, query) ==
  LET s == Expired(m, mgr[m])
      best == Longest(Matching(s, query))
  IN  /\ Matching(s, query) # {}
      /\ s.entries[best].ref # File
      /\ Update(m, Touched(s, best), cell, [held EXCEPT ![c] = s.entries[best].ref])

LookupMemory(c, m, query) ==
  LET s == Expired(m, mgr[m])
      best == Longest(Matching(s, query))
  IN  /\ Matching(s, query) # {}
      /\ s.entries[best].ref # File
      /\ Update(m, Touched(s, best),
                [cell EXCEPT ![c] = cell[s.entries[best].ref]],
                [held EXCEPT ![c] = c])

LookupFile(c, m, query) ==
  LET s == Expired(m, mgr[m])
      best == Longest(Matching(s, query))
  IN  /\ Matching(s, query) # {}
      /\ s.entries[best].ref = File
      /\ best \in DOMAIN s.files
      /\ Update(m, Touched(s, best),
                [cell EXCEPT ![c] = s.files[best]],
                [held EXCEPT ![c] = c])

\* The file cannot be read or decoded: the entry goes and the answer is a miss,
\* even if a shorter prefix is stored.
LookupUnreadable(c, m, query) ==
  LET s == Expired(m, mgr[m])
      best == Longest(Matching(s, query))
  IN  /\ Matching(s, query) # {}
      /\ s.entries[best].ref = File
      /\ Update(m, Removed(s, {best}), cell, [held EXCEPT ![c] = None])

Lookup(c, m, query) ==
  \/ LookupMiss(c, m, query)
  \/ LookupMemory(c, m, query)
  \/ LookupFile(c, m, query)
  \/ LookupUnreadable(c, m, query)

-----------------------------------------------------------------------------
(* Store.  An entry for the same tokens is removed first, with its file.   *)

Inserted(s, p, ref, size) ==
  [s EXCEPT !.entries = With(@, p, [ref |-> ref, size |-> size, storedAt |-> now]),
            !.order = Append(@, p),
            !.bytes = @ + size]

ForgetOld(s, p) == IF p \in DOMAIN s.entries THEN Removed(s, {p}) ELSE s

\* saveKVFile writes a temporary file and renames it over the snapshot's own.  It may
\* fail before the temporary is there, or leave it, whole or not.
Saved(s, p, kv) == [s EXCEPT !.files = With(@, p, kv), !.temps = @ \ {p}]

Unsaved(s, p) == {s, [s EXCEPT !.temps = @ \cup {p}]}

\* In memory: no DiskDir, or saveKVFile failed.
StoreMemory(c, m, p) ==
  LET old == ForgetOld(mgr[m], p)
      snapshot == SnapshotOf(m, cell[held[c]])
  IN  \E s \in (IF m \in OnDisk THEN Unsaved(old, p) ELSE {old}) :
        Update(m, Evicted(m, Inserted(s, p, <<m, p>>, snapshot.size)),
               [cell EXCEPT ![<<m, p>>] = snapshot], held)

DeleteAfterSaveBug(c, m, p) ==
  LET snapshot == SnapshotOf(m, cell[held[c]])
      s == ForgetOld(Saved(mgr[m], p, Marshalled(snapshot)), p)
  IN  /\ m \in OnDisk
      /\ Update(m, Evicted(m, Inserted(s, p, File, snapshot.size)), cell, held)

StoreFile(c, m, p) ==
  LET snapshot == SnapshotOf(m, cell[held[c]])
      saved == Saved(ForgetOld(mgr[m], p), p, Marshalled(snapshot))
  IN  /\ m \in OnDisk
      /\ Update(m, Evicted(m, Inserted(saved, p, File, snapshot.size)), cell, held)

Store(c, m) ==
  /\ held[c] # None
  /\ LET p == cell[held[c]].tokens
     IN  StoreMemory(c, m, p) \/ StoreFile(c, m, p)

\* Invalidate empties the manager directly, without removeEntryLocked.
Cleared(s) ==
  Emptied(Restrict(s.files, {p \in DOMAIN s.files :
                               ~(p \in DOMAIN s.entries /\ s.entries[p].ref = File)}),
          s.temps)

Invalidate(m) == Update(m, Cleared(mgr[m]), cell, held)

-----------------------------------------------------------------------------
(* The callers, time, and the end of the process.                          *)

\* NewKVBuffer and a prefill of a whole prompt.
Prefill(c) ==
  /\ \E p \in Prompts, size \in Sizes :
       cell' = [cell EXCEPT ![c] = [tokens |-> p, size |-> size, raw |-> TRUE,
                                    stripped |-> FALSE, exact |-> TRUE]]
  /\ held' = [held EXCEPT ![c] = c]
  /\ UNCHANGED <<mgr, orphans, now>>

\* A forward pass over further tokens, into the buffer the caller holds.
Forward(c) ==
  /\ held[c] # None
  /\ \E p \in Prompts :
       LET kv == cell[held[c]]
       IN  /\ IsStrictPrefix(kv.tokens, p)
           /\ cell' = [cell EXCEPT ![held[c]] =
                Forwarded(kv, SubSeq(p, Len(kv.tokens) + 1, Len(p)))]
  /\ UNCHANGED <<mgr, held, orphans, now>>

Tick ==
  /\ now < MaxClock
  /\ now' = now + 1
  /\ UNCHANGED <<mgr, cell, held, orphans>>

\* The process ends and another starts: memory is gone, files stay.  The
\* directory is never scanned, so no entry refers to them again.
RestartWith(left) ==
  /\ mgr' = [m \in Managers |-> Emptied(left[m].files, left[m].temps)]
  /\ cell' = [r \in Cells |-> None]
  /\ held' = [c \in Callers |-> None]
  /\ orphans' = [m \in Managers |-> DOMAIN left[m].files]
  /\ UNCHANGED now

Restart == RestartWith(mgr)

\* The process ends inside Store, after the old entry is removed and before the new
\* one is inserted, at any point of saveKVFile.
CrashInStore(c, m) ==
  /\ held[c] # None
  /\ m \in OnDisk
  /\ LET kv == cell[held[c]]
         old == ForgetOld(mgr[m], kv.tokens)
     IN  \E s \in Unsaved(old, kv.tokens)
                  \cup {Saved(old, kv.tokens, Marshalled(SnapshotOf(m, kv)))} :
           RestartWith([mgr EXCEPT ![m] = s])

Next ==
  \/ \E c \in Callers, m \in Managers :
       (\E p \in Prompts : Lookup(c, m, p)) \/ Store(c, m) \/ CrashInStore(c, m)
  \/ \E m \in Managers : Invalidate(m)
  \/ \E c \in Callers : Prefill(c) \/ Forward(c)
  \/ Tick
  \/ Restart

Spec == Init /\ [][Next]_vars

-----------------------------------------------------------------------------
(* Properties.                                                             *)

Stored(m, p) == LET ref == mgr[m].entries[p].ref
                IN  IF ref = File THEN mgr[m].files[p] ELSE cell[ref]

Filed(m) == {p \in DOMAIN mgr[m].entries : mgr[m].entries[p].ref = File}

\* Every variable has its type, and the byte counts never go negative.
TypeOK ==
  /\ mgr \in [Managers -> State]
  /\ cell \in [Cells -> KV \cup {None}]
  /\ held \in [Callers -> Cells \cup {None}]
  /\ orphans \in [Managers -> SUBSET Prompts]
  /\ now \in 0..MaxClock

\* The map and the LRU list hold the same prompts, each once, through every
\* order of storing again, using, expiring and dropping an unreadable entry.
OrderTracksEntries ==
  \A m \in Managers :
    LET order == mgr[m].order
    IN  /\ {order[i] : i \in DOMAIN order} = DOMAIN mgr[m].entries
        /\ \A i, j \in DOMAIN order : order[i] = order[j] => i = j

\* Between calls the entries a manager holds, in memory and on disk, keep to both
\* limits (a snapshot larger than MaxBytes is evicted by the Store that brought it),
\* and the running byte count the evictions go by is the sum of their sizes, whatever
\* replacing, expiring and unreadable files took out of it.
WithinLimits ==
  OrderTracksEntries /\ \A m \in Managers :
    LET entries == mgr[m].entries
        bytes == FoldFunction(+, 0, [p \in DOMAIN entries |-> entries[p].size])
    IN  /\ MaxEntries[m] = 0 \/ Cardinality(DOMAIN entries) <= MaxEntries[m]
        /\ MaxBytes[m] = 0 \/ bytes <= MaxBytes[m]
        /\ mgr[m].bytes = bytes

\* Every file-backed entry has its file, and a running process leaves no snapshot's
\* file behind in the directory: what no entry owns was left by an earlier process.
\* The temporary of a save that failed or died does stay, until a save of the same
\* prompt takes it up: a prompt that is kept as a file has none.
FilesAccounted ==
  \A m \in Managers :
    /\ Filed(m) \subseteq DOMAIN mgr[m].files
    /\ DOMAIN mgr[m].files \subseteq Filed(m) \cup orphans[m]
    /\ mgr[m].temps \cap Filed(m) = {}

\* What a prefixCacheStore has of this: each manager's snapshots with their
\* times, and the callers' buffers.
Snaps ==
  [m \in Managers |->
     [p \in DOMAIN mgr[m].entries |->
        [kv |-> Stored(m, p), at |-> mgr[m].entries[p].storedAt]]]

Copies == [c \in Callers |-> IF held[c] = None THEN None ELSE cell[held[c]]]

Interface == INSTANCE PrefixStore WITH
  Stores <- Managers,
  MaxAge <- TTL,
  Kept <- SnapshotOf,
  snaps <- Snaps,
  copy <- Copies

\* A CacheManager is a prefixCacheStore: hits are private copies of the longest
\* live snapshot, and nothing else changes or loses one.
ImplementsPrefixStore == Interface!SSpec
=============================================================================
