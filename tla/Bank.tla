-------------------------------- MODULE Bank --------------------------------
(***************************************************************************)
(* The bank of domain models (bank/bank.go): a mutex-protected LRU cache of *)
(* loaded transformers under a byte budget and a model budget, used by      *)
(* concurrent request handlers.                                            *)
(*                                                                         *)
(* Every exported method holds bank.mutex from entry to return, so each    *)
(* Acquire is one atomic step; an AcquireMany is a sequence of them between *)
(* which other handlers run.  Loading is nondeterministic: it may fail, and *)
(* a checkpoint may have any of Sizes bytes each time it is read.          *)
(***************************************************************************)
EXTENDS SeqSums

CONSTANTS
  Clients,     \* request handlers (goroutines) using the bank
  Ids,         \* domain ids a handler may name
  Domains,     \* the ids the manifest lists
  Requests,    \* id lists a handler may pass to AcquireMany
  Sizes,       \* byte counts a checkpoint may load to
  MaxBytes,    \* BankOptions.MaxBytes, 0 is unbounded
  MaxModels,   \* BankOptions.MaxModels, 0 is unbounded
  MaxClock,    \* bound on the number of Acquire calls, for model checking
  None         \* a handler outside AcquireMany

ASSUME BankConstants ==
  /\ Domains \subseteq Ids
  /\ Requests \subseteq Seq(Ids)
  /\ Sizes \subseteq Nat \ {0}
  /\ MaxBytes \in Nat
  /\ MaxModels \in Nat
  /\ MaxClock \in Nat

VARIABLES
  entries,     \* resident id -> [model, bytes, used]
  order,       \* resident ids, least recently used first
  bytes,       \* the bank's running byte count
  clock,       \* incremented by every Acquire
  call         \* handler -> None or the progress of its AcquireMany

bankVars == <<entries, order, bytes, clock>>
vars == <<entries, order, bytes, clock, call>>

\* Distinct loads return distinct pointers: the clock value of the loading
\* Acquire names the model it loaded.
Entry == [model : Nat, bytes : Sizes, used : Nat]

\* An AcquireMany in progress: the ids asked for and the models got so far.
Call == [ids : Requests, got : Seq(Nat), failed : BOOLEAN]

Resident == DOMAIN entries

Init ==
  /\ entries = << >>
  /\ order = << >>
  /\ bytes = 0
  /\ clock = 0
  /\ call = [c \in Clients |-> None]

-----------------------------------------------------------------------------
(* touchLocked: the id moves to the most recently used end of the order.   *)

Touch(id) ==
  LET at == CHOOSE i \in DOMAIN order : order[i] = id
  IN  Append(RemoveAt(order, at), id)

-----------------------------------------------------------------------------
(* evictLocked(keep) and removeLocked.  keep is the newest member of the    *)
(* order, so the loop's victims are the Victims(size) oldest of the others. *)

FreedNothingBug(k) == 0

\* Bytes that removing the k least recently used entries gives back.
Freed(k) == Total([i \in 1..k |-> entries[order[i]].bytes])

FitsBytesOnlyBug(k, size) ==
  MaxBytes = 0 \/ bytes + size - Freed(k) <= MaxBytes

\* Neither overCount nor overBytes, with k entries removed and one of size added.
FitsAfter(k, size) ==
  /\ MaxModels = 0 \/ Len(order) + 1 - k <= MaxModels
  /\ MaxBytes = 0 \/ bytes + size - Freed(k) <= MaxBytes

EvictAllBug(size) == Len(order)

Victims(size) ==
  CHOOSE k \in 0..Len(order) :
    /\ FitsAfter(k, size) \/ k = Len(order)
    /\ \A j \in 0..(k - 1) : ~FitsAfter(j, size)

-----------------------------------------------------------------------------
(* Acquire.  Every call advances the clock.  A hit refreshes the entry; a   *)
(* miss on a manifest id loads, inserts and evicts; an unknown id, a failed *)
(* load and a vocabulary mismatch leave the bank as it was.                *)

AcquireHit(id) ==
  /\ id \in Resident
  /\ clock' = clock + 1
  /\ entries' = [entries EXCEPT ![id].used = clock + 1]
  /\ order' = Touch(id)
  /\ UNCHANGED bytes

Insert(id, size) ==
  LET k == Victims(size)
      survivors == Resident \ {order[i] : i \in 1..k}
      loaded == [model |-> clock + 1, bytes |-> size, used |-> clock + 1]
  IN  /\ clock' = clock + 1
      /\ entries' = [d \in survivors \cup {id} |->
                       IF d = id THEN loaded ELSE entries[d]]
      /\ order' = Append(SubSeq(order, k + 1, Len(order)), id)
      /\ bytes' = bytes + size - Freed(k)

LoadTwiceBug(id, size) ==
  /\ id \in Domains
  /\ Insert(id, size)

AcquireMiss(id, size) ==
  /\ id \in Domains \ Resident
  /\ Insert(id, size)

AcquireFail(id) ==
  /\ id \notin Resident
  /\ clock' = clock + 1
  /\ UNCHANGED <<entries, order, bytes>>

-----------------------------------------------------------------------------
(* AcquireMany, one Acquire at a time; the first error ends it.            *)

Begin(c) ==
  /\ call[c] = None
  /\ \E ids \in Requests :
       call' = [call EXCEPT ![c] = [ids |-> ids, got |-> << >>, failed |-> FALSE]]
  /\ UNCHANGED bankVars

Running(c) ==
  /\ call[c] # None
  /\ ~call[c].failed
  /\ Len(call[c].got) < Len(call[c].ids)

Got(c, model) ==
  call' = [call EXCEPT ![c].got = Append(@, model)]

Acquire(c) ==
  /\ Running(c)
  /\ clock < MaxClock
  /\ LET id == call[c].ids[Len(call[c].got) + 1]
     IN  \/ AcquireHit(id) /\ Got(c, entries[id].model)
         \/ \E size \in Sizes : AcquireMiss(id, size) /\ Got(c, clock + 1)
         \/ AcquireFail(id) /\ call' = [call EXCEPT ![c].failed = TRUE]

Return(c) ==
  /\ call[c] # None
  /\ ~Running(c)
  /\ call' = [call EXCEPT ![c] = None]
  /\ UNCHANGED bankVars

Next == \E c \in Clients : Begin(c) \/ Acquire(c) \/ Return(c)

Spec == Init /\ [][Next]_vars

-----------------------------------------------------------------------------
(* Properties.                                                             *)

\* Every variable has its type: entries maps resident manifest ids to entries,
\* order lists ids, the counters never go negative.
TypeOK ==
  /\ Resident \subseteq Domains
  /\ entries \in [Resident -> Entry]
  /\ order \in Seq(Domains)
  /\ bytes \in Nat
  /\ clock \in 0..MaxClock
  /\ call \in [Clients -> Call \cup {None}]

\* The map and the LRU list of bank.go hold exactly the same ids, each once: no
\* entry can become invisible to evictLocked, and no listed id lacks an entry.
OrderTracksEntries ==
  /\ \A i \in DOMAIN order : order[i] \in Resident
  /\ \A d \in Resident : \E i \in DOMAIN order : order[i] = d
  /\ \A i, j \in DOMAIN order : order[i] = order[j] => i = j

\* The list agrees with the entries' use times, which is what makes "the first
\* id of order" (evictLocked) the least recently used one.
RecencyOrdered ==
  /\ \A i, j \in DOMAIN order :
       i < j => entries[order[i]].used < entries[order[j]].used
  /\ \A d \in Resident : entries[d].model <= entries[d].used /\ entries[d].used <= clock

\* bank.bytes, maintained by additions and subtractions, is the sum over the
\* resident entries: nothing leaks when a domain is evicted and loaded again at
\* another size.
AccountingExact ==
  bytes = Total([i \in DOMAIN order |-> entries[order[i]].bytes])

\* Between calls the bank keeps to both budgets; only a single model larger than
\* the byte budget on its own may exceed it.
WithinBudget ==
  \/ /\ MaxModels = 0 \/ Len(order) <= MaxModels
     /\ MaxBytes = 0 \/ bytes <= MaxBytes
  \/ Len(order) = 1 /\ MaxBytes # 0 /\ bytes > MaxBytes

KeepsResidentModels ==
  \A d \in Resident :
    d \in DOMAIN entries' =>
      entries'[d].model = entries[d].model /\ entries'[d].bytes = entries[d].bytes

\* A model that stays resident is never loaded again behind its users' back:
\* concurrent handlers that find a domain resident share one copy.
ResidentModelStable == [][KeepsResidentModels]_vars

\* The list, the map and the counters together implement the abstract store.
Policy == INSTANCE LRUPolicy WITH
  Items <- Domains,
  MaxCount <- MaxModels,
  held <- [d \in Resident |-> [size |-> entries[d].bytes, time |-> entries[d].used]]

\* bank.Bank implements a least-recently-used store under two budgets: what is
\* dropped is oldest, needed to be dropped, and never the model just acquired.
ImplementsLRU == Policy!LSpec
=============================================================================
