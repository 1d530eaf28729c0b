---------------------------- MODULE CacheProofs ----------------------------
(***************************************************************************)
(* Proofs about CacheManager and PrefixReuse: the limits and the accounting *)
(* of the snapshots, that a manager is a prefix store, and that a request   *)
(* decodes from a buffer of exactly its prompt.  What is proved of          *)
(* CacheManager!Spec uses the assumptions of that module only.             *)
(***************************************************************************)
EXTENDS PrefixReuse, SeqSumsProofs

-----------------------------------------------------------------------------
(* One manager's state.                                                    *)

Weights(s) == [p \in DOMAIN s.entries |-> s.entries[p].size]

\* The LRU list names every entry once and nothing else.
Orders(s) ==
  /\ \A i \in 1..Len(s.order) : s.order[i] \in DOMAIN s.entries
  /\ \A p \in DOMAIN s.entries : \E i \in 1..Len(s.order) : s.order[i] = p
  /\ \A i, j \in 1..Len(s.order) : s.order[i] = s.order[j] => i = j

\* What every locked helper keeps of manager m, of whose files left were there
\* when the process started.
Sound(m, s, left) ==
  /\ s \in State
  /\ Orders(s)
  /\ s.bytes = Total(Weighed(Weights(s), s.order))
  /\ \A p \in DOMAIN s.entries : s.entries[p].ref \in {File, <<m, p>>}
  /\ \A p \in DOMAIN s.entries : s.entries[p].ref = File => p \in DOMAIN s.files
  /\ \A p \in DOMAIN s.files : p \in left \/ (p \in DOMAIN s.entries /\ s.entries[p].ref = File)
  /\ \A p \in DOMAIN s.files : s.files[p].tokens = p
  /\ \A p \in s.temps : ~(p \in DOMAIN s.entries /\ s.entries[p].ref = File)

Within(m, s) ==
  /\ MaxEntries[m] = 0 \/ Cardinality(DOMAIN s.entries) <= MaxEntries[m]
  /\ MaxBytes[m] = 0 \/ s.bytes <= MaxBytes[m]

\* t is s without the entries of gone and the files they own.
Shrinks(s, t, gone) ==
  /\ DOMAIN t.entries = DOMAIN s.entries \ gone
  /\ \A p \in DOMAIN t.entries : t.entries[p] = s.entries[p]
  /\ DOMAIN t.files = {p \in DOMAIN s.files : ~(p \in gone /\ s.entries[p].ref = File)}
  /\ \A p \in DOMAIN t.files : t.files[p] = s.files[p]
  /\ t.temps = s.temps
  /\ t.bytes <= s.bytes

(***************************************************************************)
(* The parts of a manager's state, and how to put one together.            *)
(***************************************************************************)
LEMMA StateParts ==
  ASSUME NEW s \in State
  PROVE  /\ DOMAIN s.entries \in SUBSET Prompts
         /\ s.entries \in [DOMAIN s.entries -> Entry]
         /\ s.order \in Seq(Prompts) /\ s.bytes \in Nat
         /\ DOMAIN s.files \in SUBSET Prompts
         /\ s.files \in [DOMAIN s.files -> KV]
         /\ s.temps \in SUBSET Prompts
<1>1. /\ s.entries \in UNION {[D -> Entry] : D \in SUBSET Prompts}
      /\ s.files \in UNION {[D -> KV] : D \in SUBSET Prompts}
      /\ s.order \in Seq(Prompts) /\ s.bytes \in Nat /\ s.temps \in SUBSET Prompts
  BY DEF State
<1>2. PICK D \in SUBSET Prompts : s.entries \in [D -> Entry]
  BY <1>1
<1>3. PICK G \in SUBSET Prompts : s.files \in [G -> KV]
  BY <1>1
<1> QED BY <1>1, <1>2, <1>3

LEMMA MakeState ==
  ASSUME NEW D \in SUBSET Prompts, NEW e \in [D -> Entry], NEW o \in Seq(Prompts),
         NEW b \in Nat, NEW G \in SUBSET Prompts, NEW f \in [G -> KV],
         NEW x \in SUBSET Prompts
  PROVE  [entries |-> e, order |-> o, bytes |-> b, files |-> f, temps |-> x] \in State
<1>1. e \in UNION {[X -> Entry] : X \in SUBSET Prompts}
  OBVIOUS
<1>2. f \in UNION {[X -> KV] : X \in SUBSET Prompts}
  OBVIOUS
<1> QED BY <1>1, <1>2 DEF State

(***************************************************************************)
(* The sizes add up, and none is negative.                                 *)
(***************************************************************************)
LEMMA WeightsType ==
  ASSUME NEW s \in State, Orders(s)
  PROVE  /\ Weights(s) \in [DOMAIN s.entries -> Nat]
         /\ Weights(s) \in [DOMAIN s.entries -> Int]
         /\ s.order \in Seq(DOMAIN s.entries)
         /\ Len(s.order) \in Nat /\ DOMAIN s.order = 1..Len(s.order)
<1>1. /\ s.entries \in [DOMAIN s.entries -> Entry] /\ s.order \in Seq(Prompts)
  BY StateParts
<1>2. \A p \in DOMAIN s.entries : s.entries[p].size \in Nat
  <2>1. \A p \in DOMAIN s.entries : s.entries[p].size \in Sizes
    BY <1>1 DEF Entry
  <2> QED BY <2>1, CacheConstants
<1>3. s.order \in Seq(DOMAIN s.entries)
  <2> DEFINE o == s.order
             E == DOMAIN s.entries
  <2>1. o \in Seq(Prompts) /\ \A i \in 1..Len(o) : o[i] \in E
    BY <1>1 DEF Orders
  <2> HIDE DEF o, E
  <2> QED BY <2>1 DEF o, E
<1> QED BY <1>1, <1>2, <1>3 DEF Weights

(***************************************************************************)
(* removeEntryLocked, for any of the entries: map, list, byte count and    *)
(* files lose them together.                                               *)
(***************************************************************************)
LEMMA RemovedSound ==
  ASSUME NEW m \in Managers, NEW left, NEW s, Sound(m, s, left),
         NEW gone \in SUBSET DOMAIN s.entries
  PROVE  /\ Sound(m, Removed(s, gone), left)
         /\ Shrinks(s, Removed(s, gone), gone)
<1> DEFINE t == Removed(s, gone)
           E == DOMAIN s.entries
           D == E \ gone
           K == Prompts \ gone
           deleted == {p \in gone : s.entries[p].ref = File}
           G == DOMAIN s.files \ deleted
           o == Only(s.order, K)
           lost == [i \in DOMAIN s.order |->
                      IF s.order[i] \in gone THEN s.entries[s.order[i]].size ELSE 0]
           w == Weights(s)
           e == [p \in D |-> s.entries[p]]
           f == [p \in G |-> s.files[p]]
<1>0. s \in State /\ Orders(s)
  BY DEF Sound
<1>1. /\ E \in SUBSET Prompts /\ s.entries \in [E -> Entry]
      /\ s.order \in Seq(Prompts) /\ s.bytes \in Nat
      /\ DOMAIN s.files \in SUBSET Prompts /\ s.files \in [DOMAIN s.files -> KV]
      /\ s.temps \in SUBSET Prompts
  BY <1>0, StateParts
<1>2. t = [entries |-> e, order |-> o, bytes |-> s.bytes - Total(lost), files |-> f,
           temps |-> s.temps]
  BY DEF Removed, Restrict
<1>3. /\ w \in [E -> Nat] /\ w \in [E -> Int] /\ s.order \in Seq(E)
      /\ Len(s.order) \in Nat /\ DOMAIN s.order = 1..Len(s.order)
  BY <1>0, WeightsType
<1>4. s.bytes = Total(Weighed(w, s.order)) /\ s.bytes \in Nat
  BY <1>1 DEF Sound
<1>5. lost = [i \in DOMAIN s.order |-> IF s.order[i] \in gone THEN w[s.order[i]] ELSE 0]
  <2>1. \A i \in DOMAIN s.order : s.order[i] \in E
    BY <1>3
  <2>2. \A p \in E : w[p] = s.entries[p].size
    BY DEF Weights
  <2> HIDE DEF E, w
  <2> QED BY <2>1, <2>2
<1>6. Total(Weighed(w, s.order)) = Total(Weighed(w, o)) + Total(lost)
  <2> DEFINE q == s.order
  <2>1. \A x \in E : x \in K <=> x \notin gone
    BY <1>1
  <2>2. w \in [E -> Int] /\ q \in Seq(E)
    BY <1>3
  <2>3. lost = WeighedIn(w, q, gone)
    BY <1>5 DEF WeighedIn
  <2> HIDE DEF K, w, E, lost, q
  <2>4. Total(Weighed(w, q)) = Total(Weighed(w, Only(q, K))) + Total(WeighedIn(w, q, gone))
    BY <2>1, <2>2, OnlySplits
  <2> QED BY <2>3, <2>4 DEF q
<1>7. o \in Seq(E) /\ o \in Seq(Prompts)
  <2> HIDE DEF K, E
  <2> QED BY <1>1, <1>3, OnlyType
<1>8. /\ \A i \in 1..Len(o) : o[i] \in K /\ \E j \in 1..Len(s.order) : s.order[j] = o[i]
      /\ \A j \in 1..Len(s.order) : s.order[j] \in K => \E i \in 1..Len(o) : o[i] = s.order[j]
      /\ (\A i, j \in 1..Len(s.order) : s.order[i] = s.order[j] => i = j) =>
           \A i, j \in 1..Len(o) : o[i] = o[j] => i = j
  <2> HIDE DEF K
  <2> QED BY <1>1, OnlyElements
<1>9. /\ \A i \in 1..Len(o) : o[i] \in D
      /\ \A p \in D : \E i \in 1..Len(o) : o[i] = p
      /\ \A i, j \in 1..Len(o) : o[i] = o[j] => i = j
  <2>1. ASSUME NEW i \in 1..Len(o) PROVE o[i] \in D
    <3>1. o[i] \in K /\ \E j \in 1..Len(s.order) : s.order[j] = o[i]
      BY <1>8
    <3> HIDE DEF o
    <3> QED BY <1>0, <3>1 DEF Orders
  <2>2. ASSUME NEW p \in D PROVE \E i \in 1..Len(o) : o[i] = p
    <3>1. p \in K
      BY <1>1
    <3>2. PICK j \in 1..Len(s.order) : s.order[j] = p
      BY <1>0 DEF Orders
    <3> HIDE DEF K, o
    <3> QED BY <1>8, <3>1, <3>2
  <2>3. \A i, j \in 1..Len(o) : o[i] = o[j] => i = j
    <3> HIDE DEF K, o
    <3> QED BY <1>0, <1>8 DEF Orders
  <2> QED BY <2>1, <2>2, <2>3
<1> HIDE DEF o
<1>10. /\ e \in [D -> Entry] /\ D \in SUBSET Prompts
       /\ f \in [G -> KV] /\ G \in SUBSET Prompts
  BY <1>1
<1>11. Weighed(w, o) \in Seq(Nat) /\ Weighed(w, o) = Weighed([p \in D |-> s.entries[p].size], o)
  <2> DEFINE v == [p \in D |-> s.entries[p].size]
  <2>1. \A i \in DOMAIN o : o[i] \in D /\ w[o[i]] \in Nat /\ w[o[i]] = v[o[i]]
    <3>1. \A p \in D : w[p] \in Nat /\ w[p] = v[p]
      <4>1. \A p \in E : w[p] = s.entries[p].size
        BY DEF Weights
      <4>2. \A p \in D : p \in E /\ v[p] = s.entries[p].size
        OBVIOUS
      <4> HIDE DEF v, w, E, D
      <4> QED BY <1>3, <4>1, <4>2
    <3>2. DOMAIN o = 1..Len(o)
      BY <1>7
    <3> QED BY <1>9, <3>1, <3>2
  <2> HIDE DEF v, w, D
  <2>2. Weighed(w, o) = [i \in DOMAIN o |-> w[o[i]]] /\ Weighed(v, o) = [i \in DOMAIN o |-> v[o[i]]]
    BY DEF Weighed
  <2>3. [i \in DOMAIN o |-> w[o[i]]] = [i \in DOMAIN o |-> v[o[i]]]
    BY <2>1
  <2>4. Len(o) \in Nat /\ DOMAIN o = 1..Len(o)
    BY <1>7
  <2>5. [i \in 1..Len(o) |-> w[o[i]]] \in Seq(Nat)
    BY <2>1, <2>4
  <2> QED BY <2>2, <2>3, <2>4, <2>5 DEF v
<1>12. /\ s.bytes - Total(lost) = Total(Weighed(w, o)) /\ s.bytes - Total(lost) \in Nat
       /\ s.bytes - Total(lost) <= s.bytes
  <2>1. lost \in Seq(Nat)
    <3> DEFINE q == s.order
    <3>1. \A i \in 1..Len(q) : (IF q[i] \in gone THEN w[q[i]] ELSE 0) \in Nat
      <4>1. \A i \in 1..Len(q) : q[i] \in E
        BY <1>3
      <4> HIDE DEF w, E, q
      <4> QED BY <1>3, <4>1
    <3>2. lost = [i \in 1..Len(q) |-> IF q[i] \in gone THEN w[q[i]] ELSE 0] /\ Len(q) \in Nat
      BY <1>3, <1>5
    <3> HIDE DEF w, lost, q
    <3> QED BY <3>1, <3>2
  <2>2. Total(lost) \in Nat /\ Total(Weighed(w, o)) \in Nat
    <3> HIDE DEF w, lost
    <3> QED BY <1>11, <2>1, TotalNat
  <2> HIDE DEF w, lost
  <2> QED BY <1>4, <1>6, <2>2
<1>13. t \in State
  <2> HIDE DEF e, f, D, G, lost, t
  <2> QED BY <1>1, <1>2, <1>7, <1>10, <1>12, MakeState
<1>14. /\ t.entries = e /\ t.order = o /\ t.bytes = s.bytes - Total(lost) /\ t.files = f
       /\ t.temps = s.temps
       /\ DOMAIN t.entries = D /\ DOMAIN t.files = G
  BY <1>2
<1>15. Weights(t) = [p \in D |-> s.entries[p].size]
  BY <1>14 DEF Weights
<1>16. t.bytes = Total(Weighed(Weights(t), t.order))
  <2> HIDE DEF t, lost, w, D
  <2> QED BY <1>11, <1>12, <1>14, <1>15
<1> HIDE DEF t, lost, w, o
<1>17. Orders(t)
  <2> HIDE DEF e, f, D, G
  <2> QED BY <1>9, <1>14 DEF Orders
<1>18. /\ \A p \in D : t.entries[p] = s.entries[p] /\ p \in E
       /\ \A p \in G : t.files[p] = s.files[p] /\ p \in DOMAIN s.files
  BY <1>14
<1>19. /\ \A p \in D : t.entries[p].ref \in {File, <<m, p>>}
       /\ \A p \in D : t.entries[p].ref = File => p \in G
       /\ \A p \in G : p \in left \/ (p \in D /\ t.entries[p].ref = File)
       /\ \A p \in G : t.files[p].tokens = p
       /\ \A p \in s.temps : ~(p \in D /\ t.entries[p].ref = File)
  BY <1>18 DEF Sound
<1>20. Sound(m, t, left)
  <2> HIDE DEF e, f, D, G
  <2> QED BY <1>13, <1>14, <1>16, <1>17, <1>19 DEF Sound
<1>21. Shrinks(s, t, gone)
  <2>1. G = {p \in DOMAIN s.files : ~(p \in gone /\ s.entries[p].ref = File)}
    OBVIOUS
  <2> HIDE DEF e, f, D, G
  <2> QED BY <1>12, <1>14, <1>18, <2>1 DEF Shrinks, D
<1> QED BY <1>20, <1>21 DEF t

(***************************************************************************)
(* The byte count does not depend on the order of the list: it is the sum  *)
(* over the map.                                                           *)
(***************************************************************************)
Summed(s) == FoldFunction(+, 0, Weights(s))

LEMMA ListTotal ==
  ASSUME NEW s \in State, Orders(s)
  PROVE  /\ Total(Weighed(Weights(s), s.order)) = Summed(s)
         /\ IsFiniteSet(DOMAIN s.entries)
         /\ Cardinality(DOMAIN s.entries) = Len(s.order)
<1> DEFINE E == DOMAIN s.entries
           w == Weights(s)
           o == s.order
<1>1. w \in [E -> Int] /\ o \in Seq(E)
  BY WeightsType
<1>2. /\ \A x \in E : \E i \in 1..Len(o) : o[i] = x
      /\ \A i, j \in 1..Len(o) : o[i] = o[j] => i = j
  BY DEF Orders
<1> HIDE DEF E, w, o
<1>3. IsFiniteSet(E) /\ Cardinality(E) = Len(o) /\ FoldFunction(+, 0, w) = Total(Weighed(w, o))
  BY <1>1, <1>2, FoldTotal
<1> QED BY <1>3 DEF E, w, o, Summed

(***************************************************************************)
(* touchLocked: the used entry goes to the end of the list.                *)
(***************************************************************************)
LEMMA TouchedSound ==
  ASSUME NEW m \in Managers, NEW left, NEW s, Sound(m, s, left), NEW p \in DOMAIN s.entries
  PROVE  Sound(m, Touched(s, p), left) /\ Shrinks(s, Touched(s, p), {})
<1> DEFINE t == Touched(s, p)
           K == Prompts \ {p}
           o == Only(s.order, K)
           q == Append(o, p)
<1>1. s \in State /\ Orders(s) /\ s.bytes = Total(Weighed(Weights(s), s.order))
  BY DEF Sound
<1>2. p \in Prompts /\ DOMAIN s.entries \in SUBSET Prompts /\ s.order \in Seq(Prompts)
  BY <1>1, StateParts
<1>3. t = [s EXCEPT !.order = q]
  BY DEF Touched
<1>4. o \in Seq(Prompts)
  <2> HIDE DEF K
  <2> QED BY <1>2, OnlyType
<1>5. /\ \A i \in 1..Len(o) : o[i] \in K /\ \E j \in 1..Len(s.order) : s.order[j] = o[i]
      /\ \A j \in 1..Len(s.order) : s.order[j] \in K => \E i \in 1..Len(o) : o[i] = s.order[j]
      /\ (\A i, j \in 1..Len(s.order) : s.order[i] = s.order[j] => i = j) =>
           \A i, j \in 1..Len(o) : o[i] = o[j] => i = j
  <2> HIDE DEF K
  <2> QED BY <1>2, OnlyElements
<1> HIDE DEF o
<1>6. /\ q \in Seq(Prompts) /\ Len(o) \in Nat /\ Len(q) = Len(o) + 1
      /\ q[Len(o) + 1] = p /\ \A i \in 1..Len(o) : q[i] = o[i]
  BY <1>2, <1>4, AppendProperties
<1> HIDE DEF q
<1>7. /\ t \in State /\ t.order = q /\ t.entries = s.entries /\ t.bytes = s.bytes
      /\ t.files = s.files /\ t.temps = s.temps
  BY <1>1, <1>3, <1>6 DEF State
<1> HIDE DEF t
<1>8. Orders(t)
  <2>1. ASSUME NEW i \in 1..Len(q) PROVE q[i] \in DOMAIN s.entries
    <3>1. CASE i \in 1..Len(o)
      <4>1. PICK j \in 1..Len(s.order) : s.order[j] = o[i]
        BY <1>5, <3>1
      <4>2. s.order[j] \in DOMAIN s.entries
        BY <1>1 DEF Orders
      <4> QED BY <1>6, <3>1, <4>1, <4>2
    <3>2. CASE i = Len(o) + 1
      BY <1>6, <3>2
    <3> QED BY <1>6, <3>1, <3>2
  <2>2. ASSUME NEW x \in DOMAIN s.entries PROVE \E i \in 1..Len(q) : q[i] = x
    <3>1. CASE x = p
      BY <1>6, <3>1
    <3>2. CASE x # p
      <4>1. x \in K
        BY <1>2, <3>2
      <4>2. PICK j \in 1..Len(s.order) : s.order[j] = x
        BY <1>1 DEF Orders
      <4>3. PICK i \in 1..Len(o) : o[i] = x
        BY <1>5, <4>1, <4>2
      <4> QED BY <1>6, <4>3
    <3> QED BY <3>1, <3>2
  <2>3. \A i, j \in 1..Len(q) : q[i] = q[j] => i = j
    <3>1. \A i, j \in 1..Len(o) : o[i] = o[j] => i = j
      BY <1>1, <1>5 DEF Orders
    <3>2. \A i \in 1..Len(o) : o[i] # p
      BY <1>5
    <3>3. \A i \in 1..Len(q) : i \in 1..Len(o) \/ i = Len(o) + 1
      BY <1>6
    <3> QED BY <1>6, <3>1, <3>2, <3>3
  <2> QED BY <1>7, <2>1, <2>2, <2>3 DEF Orders
<1>9. t.bytes = Total(Weighed(Weights(t), t.order))
  <2>1. Weights(t) = Weights(s) /\ Summed(t) = Summed(s)
    <3>1. Weights(t) = Weights(s)
      BY <1>7 DEF Weights
    <3> QED BY <3>1 DEF Summed
  <2>2. Total(Weighed(Weights(t), t.order)) = Summed(t)
    BY <1>7, <1>8, ListTotal
  <2>3. Total(Weighed(Weights(s), s.order)) = Summed(s)
    BY <1>1, ListTotal
  <2> QED BY <1>1, <1>7, <2>1, <2>2, <2>3
<1>10. Sound(m, t, left)
  BY <1>7, <1>8, <1>9 DEF Sound
<1>11. t.bytes \in Nat
  BY <1>7, StateParts
<1>12. Shrinks(s, t, {})
  BY <1>7, <1>11 DEF Shrinks
<1> QED BY <1>10, <1>12 DEF t

(***************************************************************************)
(* expireLocked and the removal of an entry that is stored again are       *)
(* removals.                                                               *)
(***************************************************************************)
Old(m, s) == {p \in DOMAIN s.entries : TTL[m] > 0 /\ now - s.entries[p].storedAt > TTL[m]}

LEMMA ExpiredSound ==
  ASSUME NEW m \in Managers, NEW left, NEW s, Sound(m, s, left)
  PROVE  Sound(m, Expired(m, s), left) /\ Shrinks(s, Expired(m, s), Old(m, s))
<1>1. Expired(m, s) = Removed(s, Old(m, s)) /\ Old(m, s) \in SUBSET DOMAIN s.entries
  BY DEF Expired, Old
<1> QED BY <1>1, RemovedSound

LEMMA ForgetSound ==
  ASSUME NEW m \in Managers, NEW left, NEW s, Sound(m, s, left), NEW p
  PROVE  /\ Sound(m, ForgetOld(s, p), left)
         /\ Shrinks(s, ForgetOld(s, p), {p} \cap DOMAIN s.entries)
<1>1. CASE p \in DOMAIN s.entries
  <2>1. ForgetOld(s, p) = Removed(s, {p}) /\ {p} \in SUBSET DOMAIN s.entries
        /\ {p} \cap DOMAIN s.entries = {p}
    BY <1>1 DEF ForgetOld
  <2> QED BY <2>1, RemovedSound
<1>2. CASE p \notin DOMAIN s.entries
  <2>1. ForgetOld(s, p) = s /\ {p} \cap DOMAIN s.entries = {}
    BY <1>2 DEF ForgetOld
  <2>2. s.bytes \in Nat
    BY StateParts DEF Sound
  <2>3. Shrinks(s, s, {})
    BY <2>2 DEF Shrinks
  <2> QED BY <2>1, <2>3
<1> QED BY <1>1, <1>2

\* t is s with one more entry.
Inserts(s, t, p, ref, size) ==
  /\ DOMAIN t.entries = DOMAIN s.entries \cup {p}
  /\ \A x \in DOMAIN s.entries : t.entries[x] = s.entries[x]
  /\ t.entries[p] = [ref |-> ref, size |-> size, storedAt |-> now]
  /\ t.files = s.files /\ t.temps = s.temps

(***************************************************************************)
(* The insertion of Store: of a snapshot in memory, or of one whose file is *)
(* there.                                                                  *)
(***************************************************************************)
LEMMA InsertedSound ==
  ASSUME NEW m \in Managers, NEW left, NEW s, Sound(m, s, left),
         NEW p \in Prompts \ DOMAIN s.entries, NEW size \in Sizes,
         NEW ref \in {File, <<m, p>>},
         ref = File => p \in DOMAIN s.files /\ p \notin s.temps,
         now \in Nat
  PROVE  /\ Sound(m, Inserted(s, p, ref, size), left)
         /\ Inserts(s, Inserted(s, p, ref, size), p, ref, size)
<1> DEFINE t == Inserted(s, p, ref, size)
           E == DOMAIN s.entries
           new == [ref |-> ref, size |-> size, storedAt |-> now]
           e == With(s.entries, p, new)
           o == s.order
           q == Append(o, p)
           w == Weights(s)
           v == [x \in E \cup {p} |-> IF x \in E THEN w[x] ELSE size]
<1>1. s \in State /\ Orders(s) /\ s.bytes = Total(Weighed(w, o))
  BY DEF Sound
<1>2. /\ E \in SUBSET Prompts /\ o \in Seq(Prompts) /\ s.bytes \in Nat
      /\ s.entries \in [E -> Entry]
  BY <1>1, StateParts
<1>3. t = [s EXCEPT !.entries = e, !.order = q, !.bytes = s.bytes + size]
  <2> QED BY <1>1 DEF Inserted, State
<1>4. new \in Entry /\ size \in Nat
  <2>1. <<m, p>> \in Cells /\ size \in Nat
    BY CacheConstants DEF Cells
  <2> QED BY <2>1 DEF Entry
<1>5. e \in [E \cup {p} -> Entry] /\ E \cup {p} \in SUBSET Prompts
  <2>1. e = [x \in E \cup {p} |-> IF x = p THEN new ELSE s.entries[x]]
    BY DEF With
  <2> HIDE DEF new, e
  <2> QED BY <1>2, <1>4, <2>1
<1>6. /\ q \in Seq(Prompts) /\ Len(o) \in Nat /\ Len(q) = Len(o) + 1
      /\ q[Len(o) + 1] = p /\ \A i \in 1..Len(o) : q[i] = o[i]
  BY <1>2, AppendProperties
<1>7. /\ \A x \in E : e[x] = s.entries[x]
      /\ e[p] = new /\ DOMAIN e = E \cup {p}
  BY DEF With
<1> HIDE DEF e
<1>8. e \in UNION {[D -> Entry] : D \in SUBSET Prompts}
  BY <1>5
<1>9. /\ t \in State /\ t.order = q /\ t.entries = e /\ t.bytes = s.bytes + size
      /\ t.files = s.files /\ t.temps = s.temps
  <2> DEFINE b == s.bytes + size
  <2>1. b \in Nat
    BY <1>2, <1>4
  <2> HIDE DEF q, b
  <2> QED BY <1>1, <1>3, <1>6, <1>8, <2>1 DEF State, b
<1> HIDE DEF t
<1>10. Orders(t)
  <2>1. /\ \A i \in 1..Len(o) : o[i] \in E
        /\ \A x \in E : \E i \in 1..Len(o) : o[i] = x
        /\ \A i, j \in 1..Len(o) : o[i] = o[j] => i = j
    BY <1>1 DEF Orders
  <2> HIDE DEF q, E, o
  <2>2. \A i \in 1..Len(q) : i \in 1..Len(o) \/ i = Len(o) + 1
    BY <1>6
  <2>3. \A i \in 1..Len(q) : q[i] \in E \cup {p}
    BY <1>6, <2>1, <2>2
  <2>4. \A x \in E \cup {p} : \E i \in 1..Len(q) : q[i] = x
    <3>1. \A i \in 1..Len(o) : i \in 1..Len(q)
      BY <1>6
    <3>2. Len(o) + 1 \in 1..Len(q)
      BY <1>6
    <3> QED BY <1>6, <2>1, <3>1, <3>2
  <2>5. \A i, j \in 1..Len(q) : q[i] = q[j] => i = j
    <3>1. \A i \in 1..Len(o) : o[i] # p
      BY <2>1 DEF E
    <3> QED BY <1>6, <2>1, <2>2, <3>1
  <2> QED BY <1>7, <1>9, <2>3, <2>4, <2>5 DEF Orders
<1>11. t.bytes = Total(Weighed(Weights(t), t.order))
  <2>1. w \in [E -> Nat] /\ o \in Seq(E)
    BY <1>1, WeightsType
  <2>2. Weights(t) = v
    <3>1. \A x \in E \cup {p} : e[x].size = v[x]
      <4>1. \A x \in E : w[x] = s.entries[x].size
        BY DEF Weights
      <4> QED BY <1>7, <4>1
    <3>2. Weights(t) = [x \in E \cup {p} |-> e[x].size]
      BY <1>7, <1>9 DEF Weights
    <3> HIDE DEF E, w
    <3> QED BY <3>1, <3>2
  <2>3. v \in [E \cup {p} -> Int] /\ v[p] = size /\ \A x \in E : v[x] = w[x]
    <3> HIDE DEF w
    <3> QED BY <1>4, <2>1
  <2> HIDE DEF v, w, E, o
  <2>4. o \in Seq(E \cup {p})
    BY <2>1
  <2>5. Weighed(v, o) \in Seq(Int) /\ Weighed(v, q) = Append(Weighed(v, o), size)
    BY <2>3, <2>4, WeighedAppend
  <2>6. Weighed(v, o) = Weighed(w, o)
    <3>1. \A i \in DOMAIN o : v[o[i]] = w[o[i]]
      <4>1. \A i \in DOMAIN o : o[i] \in E
        BY <2>1
      <4> QED BY <2>3, <4>1
    <3> QED BY <3>1 DEF Weighed
  <2>7. Total(Weighed(v, q)) = Total(Weighed(w, o)) + size
    BY <1>4, <2>5, <2>6, TotalAppend
  <2> QED BY <1>1, <1>9, <2>2, <2>7
<1>12. /\ \A x \in E \cup {p} : e[x].ref \in {File, <<m, x>>}
       /\ \A x \in E \cup {p} : e[x].ref = File => x \in DOMAIN s.files
       /\ \A x \in DOMAIN s.files : x \in left \/ (x \in E \cup {p} /\ e[x].ref = File)
       /\ \A x \in DOMAIN s.files : s.files[x].tokens = x
       /\ \A x \in s.temps : ~(x \in E \cup {p} /\ e[x].ref = File)
  <2>1. /\ \A x \in E : s.entries[x].ref \in {File, <<m, x>>}
        /\ \A x \in E : s.entries[x].ref = File => x \in DOMAIN s.files
        /\ \A x \in DOMAIN s.files : x \in left \/ (x \in E /\ s.entries[x].ref = File)
        /\ \A x \in DOMAIN s.files : s.files[x].tokens = x
        /\ \A x \in s.temps : ~(x \in E /\ s.entries[x].ref = File)
    BY DEF Sound
  <2>2. new.ref = ref
    OBVIOUS
  <2> HIDE DEF E, new
  <2> QED BY <1>7, <2>1, <2>2
<1>13. Sound(m, t, left)
  <2> HIDE DEF E, q
  <2> QED BY <1>7, <1>9, <1>10, <1>11, <1>12 DEF Sound
<1> QED BY <1>7, <1>9, <1>13 DEF t, Inserts

(***************************************************************************)
(* evictLocked: the oldest entries go, and both limits hold.               *)
(***************************************************************************)
Oldest(s, k) == {s.order[i] : i \in 1..k}

Fitting(m, s, k) ==
  /\ MaxEntries[m] = 0 \/ Len(s.order) - k <= MaxEntries[m]
  /\ MaxBytes[m] = 0 \/ Removed(s, Oldest(s, k)).bytes <= MaxBytes[m]

LEMMA OldestLeft ==
  ASSUME NEW s \in State, Orders(s), NEW k \in 0..Len(s.order)
  PROVE  /\ Oldest(s, k) \in SUBSET DOMAIN s.entries
         /\ Cardinality(DOMAIN s.entries \ Oldest(s, k)) = Len(s.order) - k
<1> DEFINE E == DOMAIN s.entries
           o == s.order
           G == Oldest(s, k)
           f == [i \in 1..k |-> o[i]]
<1>1. IsFiniteSet(E) /\ Cardinality(E) = Len(o) /\ Len(o) \in Nat /\ k \in Nat
  <2>1. IsFiniteSet(E) /\ Cardinality(E) = Len(o)
    BY ListTotal
  <2>2. Len(o) \in Nat
    BY WeightsType
  <2> QED BY <2>1, <2>2
<1>2. \A i \in 1..k : i \in 1..Len(o)
  BY <1>1
<1>3. G \in SUBSET E
  BY <1>2 DEF Orders, Oldest
<1>4. f \in Injection(1..k, G) /\ f \in Surjection(1..k, G)
  <2>1. f \in [1..k -> G] /\ \A x \in G : \E i \in 1..k : f[i] = x
    BY DEF Oldest
  <2>2. \A i, j \in 1..k : f[i] = f[j] => i = j
    BY <1>2 DEF Orders
  <2> HIDE DEF f, G
  <2> QED BY <2>1, <2>2 DEF Injection, Surjection, IsInjective
<1>5. IsFiniteSet(1..k) /\ Cardinality(1..k) = k
  <2>1. k \in Int /\ 1 \in Int /\ (IF 1 > k THEN 0 ELSE k - 1 + 1) = k
    BY <1>1
  <2>2. IsFiniteSet(1..k) /\ Cardinality(1..k) = (IF 1 > k THEN 0 ELSE k - 1 + 1)
    BY <2>1, FS_Interval
  <2> QED BY <2>1, <2>2
<1>6. Cardinality(G) = k
  <2> HIDE DEF f, G
  <2> QED BY <1>4, <1>5, FS_Surjection
<1>7. E \cap G = G
  BY <1>3
<1> HIDE DEF E, G, o
<1>8. Cardinality(E \ G) = Cardinality(E) - Cardinality(E \cap G)
  BY <1>1, FS_Difference
<1> QED BY <1>1, <1>3, <1>6, <1>7, <1>8 DEF E, G, o

LEMMA EvictedSound ==
  ASSUME NEW m \in Managers, NEW left, NEW s, Sound(m, s, left)
  PROVE  /\ Sound(m, Evicted(m, s), left)
         /\ Within(m, Evicted(m, s))
         /\ \E gone \in SUBSET DOMAIN s.entries : Shrinks(s, Evicted(m, s), gone)
<1> DEFINE n == Len(s.order)
           Stops(k) == Fitting(m, s, k) \/ k = n
           First(k) == Stops(k) /\ \A j \in 0..(k - 1) : ~Fitting(m, s, j)
           v == CHOOSE k \in 0..n : First(k)
           t == Removed(s, Oldest(s, v))
<1>1. s \in State /\ Orders(s) /\ n \in Nat
  <2>1. s \in State /\ Orders(s)
    BY DEF Sound
  <2> QED BY <2>1, WeightsType
<1>2. Evicted(m, s) = t
  BY DEF Evicted, Fitting, Oldest
<1>3. \E k \in 0..n : First(k)
  <2> DEFINE T == {k \in 0..n : Stops(k)}
  <2> HIDE DEF n
  <2>1. T \in SUBSET Nat /\ T # {}
    <3>1. n \in T
      BY <1>1
    <3> QED BY <1>1, <3>1
  <2> HIDE DEF T
  <2>2. PICK k \in T : \A j \in T : k <= j
    BY <2>1, LeastElement
  <2>3. k \in 0..n /\ Stops(k) /\ k \in Nat
    BY <1>1, <2>2 DEF T
  <2>4. \A j \in 0..(k - 1) : ~Fitting(m, s, j)
    <3> SUFFICES ASSUME NEW j \in 0..(k - 1), Fitting(m, s, j) PROVE FALSE
      OBVIOUS
    <3>1. j \in T /\ j < k /\ j \in Nat
      BY <1>1, <2>3 DEF T
    <3> QED BY <2>2, <2>3, <3>1
  <2> QED BY <2>3, <2>4
<1>4. v \in 0..n /\ Stops(v)
  <2> HIDE DEF Stops, n
  <2> QED BY <1>3
<1> HIDE DEF v
<1>5. /\ Oldest(s, v) \in SUBSET DOMAIN s.entries
      /\ Cardinality(DOMAIN s.entries \ Oldest(s, v)) = n - v
  BY <1>1, <1>4, OldestLeft
<1>6. Sound(m, t, left) /\ Shrinks(s, t, Oldest(s, v))
  BY <1>5, RemovedSound
<1> HIDE DEF t
<1>7. Cardinality(DOMAIN t.entries) = n - v
  BY <1>5, <1>6 DEF Shrinks
<1>8. /\ MaxEntries[m] \in Nat /\ MaxBytes[m] \in Nat
  BY CacheConstants
<1>9. Within(m, t)
  <2>1. CASE Fitting(m, s, v)
    <3> HIDE DEF n
    <3>1. MaxEntries[m] = 0 \/ n - v <= MaxEntries[m]
      BY <2>1 DEF Fitting, n
    <3>2. MaxBytes[m] = 0 \/ t.bytes <= MaxBytes[m]
      BY <2>1 DEF Fitting, t
    <3> QED BY <1>7, <3>1, <3>2 DEF Within
  <2>2. CASE v = n
    <3>1. Cardinality(DOMAIN t.entries) = 0
      BY <1>1, <1>7, <2>2
    <3>2. t \in State /\ Orders(t) /\ t.bytes = Total(Weighed(Weights(t), t.order))
      BY <1>6 DEF Sound
    <3>3. Len(t.order) = 0
      BY <3>1, <3>2, ListTotal
    <3>4. t.order = << >>
      BY <3>2, <3>3, StateParts
    <3>5. Weighed(Weights(t), t.order) = << >>
      BY <3>4 DEF Weighed
    <3>6. t.bytes = 0
      BY <3>2, <3>5, TotalEmpty
    <3> QED BY <1>8, <3>1, <3>6 DEF Within
  <2> QED BY <1>4, <2>1, <2>2
<1> QED BY <1>2, <1>5, <1>6, <1>9

-----------------------------------------------------------------------------
(* All managers, the cells and the callers.                                *)

\* t has some of the entries and files of s, unchanged.
Keeps(s, t) ==
  /\ DOMAIN t.entries \subseteq DOMAIN s.entries
  /\ \A p \in DOMAIN t.entries : t.entries[p] = s.entries[p]
  /\ DOMAIN t.files \subseteq DOMAIN s.files
  /\ \A p \in DOMAIN t.files : t.files[p] = s.files[p]
  /\ t.bytes <= s.bytes

StoredIn(s, cells, p) ==
  IF s.entries[p].ref = File THEN s.files[p] ELSE cells[s.entries[p].ref]

\* A snapshot in memory is in the manager's own cell for its prompt.
Snapshots(m, s, cells) ==
  \A p \in DOMAIN s.entries :
    s.entries[p].ref # File => cells[<<m, p>>] \in KV /\ cells[<<m, p>>].tokens = p

\* What a caller holds is its own, and covers one of the prompts.
Holding(cells, holders) ==
  \A c \in Callers :
    /\ holders[c] \in {None, c}
    /\ holders[c] = c => cells[c] \in KV /\ cells[c].tokens \in Prompts

Owned(s) == {p \in DOMAIN s.entries : s.entries[p].ref = File}

Disowned == \A m \in Managers : orphans[m] \cap Owned(mgr[m]) = {}

CacheInv ==
  /\ TypeOK
  /\ \A m \in Managers : /\ Sound(m, mgr[m], orphans[m])
                         /\ Within(m, mgr[m])
                         /\ Snapshots(m, mgr[m], cell)
  /\ Disowned
  /\ Holding(cell, held)

(***************************************************************************)
(* Keeping less keeps the limits, and every snapshot kept is what it was.  *)
(***************************************************************************)
LEMMA ShrinksKeeps ==
  ASSUME NEW s, NEW t, NEW gone, Shrinks(s, t, gone)
  PROVE  Keeps(s, t)
BY DEF Shrinks, Keeps

LEMMA KeepsKeeps ==
  ASSUME NEW s, NEW t, NEW u, Keeps(s, t), Keeps(t, u),
         s.bytes \in Nat, t.bytes \in Nat, u.bytes \in Nat
  PROVE  Keeps(s, u)
<1>1. u.bytes <= s.bytes
  BY DEF Keeps
<1>2. /\ DOMAIN u.entries \subseteq DOMAIN s.entries
      /\ \A p \in DOMAIN u.entries : u.entries[p] = s.entries[p]
  BY DEF Keeps
<1>3. /\ DOMAIN u.files \subseteq DOMAIN s.files
      /\ \A p \in DOMAIN u.files : u.files[p] = s.files[p]
  BY DEF Keeps
<1> QED BY <1>1, <1>2, <1>3 DEF Keeps

LEMMA KeepsWithin ==
  ASSUME NEW m \in Managers, NEW left, NEW s, NEW t,
         Sound(m, s, left), Sound(m, t, left), Keeps(s, t), Within(m, s)
  PROVE  Within(m, t)
<1>1. s \in State /\ Orders(s) /\ t \in State /\ Orders(t)
  BY DEF Sound
<1>2. IsFiniteSet(DOMAIN s.entries) /\ Cardinality(DOMAIN s.entries) = Len(s.order)
  BY <1>1, ListTotal
<1>3. Cardinality(DOMAIN t.entries) = Len(t.order)
  BY <1>1, ListTotal
<1>4. Len(s.order) \in Nat
  BY <1>1, WeightsType
<1>5. Len(t.order) \in Nat
  BY <1>1, WeightsType
<1>6. Cardinality(DOMAIN t.entries) <= Cardinality(DOMAIN s.entries)
  BY <1>2, FS_Subset DEF Keeps
<1>7. s.bytes \in Nat
  BY <1>1, StateParts
<1>8. t.bytes \in Nat
  BY <1>1, StateParts
<1>9. t.bytes <= s.bytes
  BY DEF Keeps
<1>10. MaxEntries[m] \in Nat /\ MaxBytes[m] \in Nat
  BY CacheConstants
<1> QED BY <1>2, <1>3, <1>4, <1>5, <1>6, <1>7, <1>8, <1>9, <1>10 DEF Within

LEMMA KeepsSnapshots ==
  ASSUME NEW m \in Managers, NEW left, NEW s, NEW t, NEW cells, NEW after,
         Sound(m, s, left), Sound(m, t, left), Keeps(s, t), Snapshots(m, s, cells),
         \A p \in Prompts : after[<<m, p>>] = cells[<<m, p>>]
  PROVE  /\ Snapshots(m, t, after)
         /\ \A p \in DOMAIN t.entries : StoredIn(t, after, p) = StoredIn(s, cells, p)
<1> SUFFICES ASSUME NEW p \in DOMAIN t.entries
             PROVE  /\ t.entries[p].ref # File =>
                         after[<<m, p>>] \in KV /\ after[<<m, p>>].tokens = p
                    /\ StoredIn(t, after, p) = StoredIn(s, cells, p)
  BY DEF Snapshots
<1>1. p \in DOMAIN s.entries /\ t.entries[p] = s.entries[p]
  BY DEF Keeps
<1>2. p \in Prompts
  <2>1. s \in State
    BY DEF Sound
  <2> QED BY <1>1, <2>1, StateParts
<1>3. CASE t.entries[p].ref = File
  <2>1. p \in DOMAIN t.files
    BY <1>3 DEF Sound
  <2>2. t.files[p] = s.files[p]
    BY <2>1 DEF Keeps
  <2> QED BY <1>1, <1>3, <2>2 DEF StoredIn
<1>4. CASE t.entries[p].ref # File
  <2>1. s.entries[p].ref = <<m, p>>
    BY <1>1, <1>4 DEF Sound
  <2> QED BY <1>1, <1>2, <1>4, <2>1 DEF StoredIn, Snapshots
<1> QED BY <1>3, <1>4

(***************************************************************************)
(* A manager that holds nothing but files.                                 *)
(***************************************************************************)
LEMMA FilesSound ==
  ASSUME NEW m \in Managers, NEW left, NEW G \in SUBSET Prompts, NEW f \in [G -> KV],
         G \subseteq left, \A p \in G : f[p].tokens = p, NEW x \in SUBSET Prompts, NEW cells
  PROVE  /\ Sound(m, Emptied(f, x), left)
         /\ Within(m, Emptied(f, x))
         /\ Snapshots(m, Emptied(f, x), cells)
<1> DEFINE t == [entries |-> << >>, order |-> << >>, bytes |-> 0, files |-> f, temps |-> x]
<1>1. Emptied(f, x) = t
  BY DEF Emptied
<1>2. << >> \in [{} -> Entry] /\ << >> \in Seq(Prompts)
  OBVIOUS
<1>3. t \in State
  BY <1>2, MakeState
<1>4. /\ t.entries = << >> /\ DOMAIN t.entries = {} /\ t.order = << >> /\ Len(t.order) = 0
      /\ t.bytes = 0 /\ t.files = f /\ DOMAIN t.files = G
  OBVIOUS
<1> HIDE DEF t
<1>5. Orders(t)
  BY <1>4 DEF Orders
<1>6. t.bytes = Total(Weighed(Weights(t), t.order))
  <2>1. Weighed(Weights(t), << >>) = << >>
    BY DEF Weighed
  <2> QED BY <1>4, <2>1, TotalEmpty
<1>7. Sound(m, t, left)
  BY <1>3, <1>4, <1>5, <1>6 DEF Sound
<1>8. Within(m, t)
  <2>1. Cardinality({}) = 0
    BY FS_EmptySet
  <2>2. MaxEntries[m] \in Nat /\ MaxBytes[m] \in Nat
    BY CacheConstants
  <2> QED BY <1>4, <2>1, <2>2 DEF Within
<1>9. Snapshots(m, t, cells)
  BY <1>4 DEF Snapshots
<1> QED BY <1>1, <1>7, <1>8, <1>9

(***************************************************************************)
(* What an entry has taken over need not count as left by an earlier       *)
(* process.                                                                *)
(***************************************************************************)
LEMMA OwnedSound ==
  ASSUME NEW m \in Managers, NEW left, NEW s, Sound(m, s, left)
  PROVE  Sound(m, s, left \ Owned(s))
<1>1. \A p \in DOMAIN s.files :
        p \in left \ Owned(s) \/ (p \in DOMAIN s.entries /\ s.entries[p].ref = File)
  BY DEF Sound, Owned
<1> QED BY <1>1 DEF Sound

(***************************************************************************)
(* What Update does, the collection of unreferenced cells included, and    *)
(* that it keeps the invariant when what it is given is sound.             *)
(***************************************************************************)
Fresh(m, s, cells, holders) ==
  /\ s \in State
  /\ Sound(m, s, orphans[m]) /\ Within(m, s) /\ Snapshots(m, s, cells)
  /\ cells \in [Cells -> KV \cup {None}]
  /\ holders \in [Callers -> Cells \cup {None}]
  /\ Holding(cells, holders)
  /\ \A o \in Managers \ {m} : \A p \in Prompts : cells[<<o, p>>] = cell[<<o, p>>]

Effect(m, s, cells, holders) ==
  /\ mgr' = [mgr EXCEPT ![m] = s] /\ held' = holders
  /\ now' = now
  /\ cell' \in [Cells -> KV \cup {None}]
  /\ \A c \in Callers : holders[c] = c => cell'[c] = cells[c]
  /\ \A p \in DOMAIN s.entries : s.entries[p].ref # File => cell'[<<m, p>>] = cells[<<m, p>>]
  /\ \A o \in Managers \ {m} : \A p \in DOMAIN mgr[o].entries :
       mgr[o].entries[p].ref # File => cell'[<<o, p>>] = cell[<<o, p>>]

LEMMA UpdateEffect ==
  ASSUME CacheInv, NEW m \in Managers, NEW s, NEW cells, NEW holders,
         Fresh(m, s, cells, holders), Update(m, s, cells, holders)
  PROVE  Effect(m, s, cells, holders) /\ CacheInv'
<1> DEFINE mgrs == [mgr EXCEPT ![m] = s]
           refs(o) == {mgrs[o].entries[p].ref : p \in DOMAIN mgrs[o].entries}
           used == {holders[c] : c \in Callers} \cup UNION {refs(o) : o \in Managers}
<1>1. /\ mgr' = mgrs /\ held' = holders /\ now' = now
      /\ orphans' = [orphans EXCEPT ![m] = @ \ Owned(s)]
      /\ cell' = [r \in Cells |-> IF r \in used THEN cells[r] ELSE None]
  BY DEF Update, Collected, Owned
<1>2. /\ mgr \in [Managers -> State] /\ orphans \in [Managers -> SUBSET Prompts]
      /\ now \in 0..MaxClock
      /\ \A o \in Managers : Sound(o, mgr[o], orphans[o]) /\ Within(o, mgr[o])
                             /\ Snapshots(o, mgr[o], cell)
  BY DEF CacheInv, TypeOK
<1>3. /\ mgrs \in [Managers -> State] /\ mgrs[m] = s
      /\ \A o \in Managers \ {m} : mgrs[o] = mgr[o]
  BY <1>2 DEF Fresh
<1>4. cells \in [Cells -> KV \cup {None}] /\ cell' \in [Cells -> KV \cup {None}]
  <2> HIDE DEF used
  <2> QED BY <1>1 DEF Fresh
<1>5. \A r \in Cells : r \in used => cell'[r] = cells[r]
  <2> HIDE DEF used
  <2> QED BY <1>1
<1> HIDE DEF mgrs
<1>6. \A o \in Managers : \A p \in DOMAIN mgrs[o].entries :
        mgrs[o].entries[p].ref # File => <<o, p>> \in Cells /\ cell'[<<o, p>>] = cells[<<o, p>>]
  <2> SUFFICES ASSUME NEW o \in Managers, NEW p \in DOMAIN mgrs[o].entries,
                      mgrs[o].entries[p].ref # File
               PROVE  <<o, p>> \in Cells /\ cell'[<<o, p>>] = cells[<<o, p>>]
    OBVIOUS
  <2>1. Sound(o, mgrs[o], orphans[o])
    BY <1>2, <1>3 DEF Fresh
  <2>2. mgrs[o].entries[p].ref = <<o, p>>
    BY <2>1 DEF Sound
  <2>3. p \in Prompts
    <3>1. mgrs[o] \in State
      BY <1>3
    <3> QED BY <3>1, StateParts
  <2>4. <<o, p>> \in used
    BY <2>2
  <2> HIDE DEF used
  <2> QED BY <1>5, <2>3, <2>4 DEF Cells
<1>7. \A c \in Callers : holders[c] = c => cell'[c] = cells[c]
  <2> SUFFICES ASSUME NEW c \in Callers, holders[c] = c PROVE cell'[c] = cells[c]
    OBVIOUS
  <2>1. c \in used
    OBVIOUS
  <2> HIDE DEF used
  <2> QED BY <1>5, <2>1 DEF Cells
<1> HIDE DEF used
<1>8. \A o \in Managers \ {m} : \A p \in DOMAIN mgr[o].entries :
        mgr[o].entries[p].ref # File => cell'[<<o, p>>] = cell[<<o, p>>]
  <2> SUFFICES ASSUME NEW o \in Managers \ {m}, NEW p \in DOMAIN mgr[o].entries,
                      mgr[o].entries[p].ref # File
               PROVE  cell'[<<o, p>>] = cell[<<o, p>>]
    OBVIOUS
  <2>1. p \in Prompts
    <3>1. mgr[o] \in State
      BY <1>2
    <3> QED BY <3>1, StateParts
  <2>2. cell'[<<o, p>>] = cells[<<o, p>>]
    BY <1>3, <1>6
  <2> QED BY <2>1, <2>2 DEF Fresh
<1>9. Effect(m, s, cells, holders)
  <2>1. mgr' = [mgr EXCEPT ![m] = s]
    BY <1>1 DEF mgrs
  <2> QED BY <1>1, <1>3, <1>4, <1>6, <1>7, <1>8, <2>1 DEF Effect
<1>10. TypeOK'
  <2>1. holders \in [Callers -> Cells \cup {None}]
    BY DEF Fresh
  <2>2. orphans' \in [Managers -> SUBSET Prompts]
    BY <1>1, <1>2
  <2> QED BY <1>1, <1>2, <1>3, <1>4, <2>1, <2>2 DEF TypeOK
<1>11. \A o \in Managers : Sound(o, mgr'[o], orphans'[o]) /\ Within(o, mgr'[o])
                           /\ Snapshots(o, mgr'[o], cell')
  <2> SUFFICES ASSUME NEW o \in Managers
               PROVE  Sound(o, mgrs[o], orphans'[o]) /\ Within(o, mgrs[o])
                      /\ Snapshots(o, mgrs[o], cell')
    BY <1>1
  <2>1. CASE o = m
    <3>1. orphans'[m] = orphans[m] \ Owned(s)
      BY <1>1, <1>2
    <3>2. Sound(m, s, orphans[m] \ Owned(s))
      <4> DEFINE left == orphans[m]
      <4>1. Sound(m, s, left)
        BY DEF Fresh
      <4> HIDE DEF left
      <4>2. Sound(m, s, left \ Owned(s))
        BY <4>1, OwnedSound
      <4> QED BY <4>2 DEF left
    <3> QED BY <1>3, <1>6, <2>1, <3>1, <3>2 DEF Fresh, Snapshots
  <2>2. CASE o # m
    <3>1. mgrs[o] = mgr[o] /\ orphans'[o] = orphans[o]
      BY <1>1, <1>2, <1>3, <2>2
    <3> QED BY <1>2, <1>8, <2>2, <3>1 DEF Snapshots
  <2> QED BY <2>1, <2>2
<1>12. Holding(cell', held')
  BY <1>1, <1>7 DEF Fresh, Holding
<1>13. CacheInv'
  <2>1. \A o \in Managers : (Sound(o, mgr[o], orphans[o]) /\ Within(o, mgr[o])
                             /\ Snapshots(o, mgr[o], cell))'
    <3> SUFFICES ASSUME NEW o \in Managers
                 PROVE  (Sound(o, mgr[o], orphans[o]) /\ Within(o, mgr[o])
                         /\ Snapshots(o, mgr[o], cell))'
      OBVIOUS
    <3>1. Sound(o, mgr'[o], orphans'[o]) /\ Within(o, mgr'[o])
          /\ Snapshots(o, mgr'[o], cell')
      BY <1>11
    <3> QED BY <3>1 DEF Sound, Within, Snapshots, Orders, Weights
  <2>2. Holding(cell, held)'
    BY <1>12 DEF Holding
  <2>3. Disowned'
    <3>1. Disowned /\ \A o \in Managers \ {m} : mgr'[o] = mgr[o] /\ orphans'[o] = orphans[o]
      BY <1>1, <1>2, <1>3 DEF CacheInv
    <3>2. mgr'[m] = s /\ orphans'[m] = orphans[m] \ Owned(s)
      BY <1>1, <1>2, <1>3
    <3> QED BY <3>1, <3>2 DEF Disowned, Owned
  <2> QED BY <1>10, <2>1, <2>2, <2>3 DEF CacheInv
<1> QED BY <1>9, <1>13

-----------------------------------------------------------------------------
(* The refinement mapping.                                                 *)

SnapsIn(s, cells) ==
  [p \in DOMAIN s.entries |-> [kv |-> StoredIn(s, cells, p), at |-> s.entries[p].storedAt]]

(***************************************************************************)
(* The snapshots and the copies are those of the parts, before and after   *)
(* an update.                                                              *)
(***************************************************************************)
LEMMA Mapping ==
  ASSUME CacheInv
  PROVE  /\ Snaps = [o \in Managers |-> SnapsIn(mgr[o], cell)]
         /\ \A c \in Callers : /\ held[c] \in {None, c} /\ c # None
                               /\ Copies[c] = IF held[c] = None THEN None ELSE cell[c]
         /\ Copies = [c \in Callers |-> IF held[c] = None THEN None ELSE cell[c]]
<1>1. Snaps = [o \in Managers |-> SnapsIn(mgr[o], cell)]
  BY DEF Snaps, SnapsIn, Stored, StoredIn
<1>2. \A c \in Callers : held[c] \in {None, c} /\ c # None
  BY CacheConstants DEF CacheInv, Holding
<1> QED BY <1>1, <1>2 DEF Copies

LEMMA EffectMaps ==
  ASSUME CacheInv, CacheInv', NEW m \in Managers, NEW s, NEW cells, NEW holders,
         Fresh(m, s, cells, holders), Effect(m, s, cells, holders)
  PROVE  /\ Snaps' = [Snaps EXCEPT ![m] = SnapsIn(s, cells)]
         /\ Copies' = [c \in Callers |-> IF holders[c] = None THEN None ELSE cells[c]]
         /\ now' = now
<1>1. /\ mgr \in [Managers -> State]
      /\ \A o \in Managers : Sound(o, mgr[o], orphans[o])
  BY DEF CacheInv, TypeOK
<1>2. /\ mgr' = [mgr EXCEPT ![m] = s] /\ held' = holders
      /\ now' = now
      /\ \A c \in Callers : holders[c] = c => cell'[c] = cells[c]
      /\ \A p \in DOMAIN s.entries : s.entries[p].ref # File => cell'[<<m, p>>] = cells[<<m, p>>]
      /\ \A o \in Managers \ {m} : \A p \in DOMAIN mgr[o].entries :
           mgr[o].entries[p].ref # File => cell'[<<o, p>>] = cell[<<o, p>>]
  BY DEF Effect
<1>3. /\ Snaps = [o \in Managers |-> SnapsIn(mgr[o], cell)]
      /\ Copies = [c \in Callers |-> IF held[c] = None THEN None ELSE cell[c]]
  BY Mapping
<1>4. Snaps' = [o \in Managers |-> SnapsIn(mgr'[o], cell')]
  BY DEF Snaps, SnapsIn, Stored, StoredIn
<1>5. Copies' = [c \in Callers |-> IF held'[c] = None THEN None ELSE cell'[held'[c]]]
  BY DEF Copies
<1>6. mgr'[m] = s /\ \A o \in Managers \ {m} : mgr'[o] = mgr[o]
  BY <1>1, <1>2
<1>7. SnapsIn(mgr'[m], cell') = SnapsIn(s, cells)
  <2>1. \A p \in DOMAIN s.entries : StoredIn(s, cell', p) = StoredIn(s, cells, p)
    <3>1. \A p \in DOMAIN s.entries : s.entries[p].ref \in {File, <<m, p>>}
      BY DEF Fresh, Sound
    <3> QED BY <1>2, <3>1 DEF StoredIn
  <2> QED BY <1>6, <2>1 DEF SnapsIn
<1>8. ASSUME NEW o \in Managers \ {m} PROVE SnapsIn(mgr'[o], cell') = SnapsIn(mgr[o], cell)
  <2>1. \A p \in DOMAIN mgr[o].entries : StoredIn(mgr[o], cell', p) = StoredIn(mgr[o], cell, p)
    <3>1. \A p \in DOMAIN mgr[o].entries : mgr[o].entries[p].ref \in {File, <<o, p>>}
      BY <1>1 DEF Sound
    <3> QED BY <1>2, <3>1 DEF StoredIn
  <2> QED BY <1>6, <2>1 DEF SnapsIn
<1>9. Snaps' = [Snaps EXCEPT ![m] = SnapsIn(s, cells)]
  BY <1>3, <1>4, <1>7, <1>8
<1>10. Copies' = [c \in Callers |-> IF holders[c] = None THEN None ELSE cells[c]]
  <2>1. \A c \in Callers : holders[c] \in {None, c} /\ c # None
    BY CacheConstants DEF Fresh, Holding
  <2>2. \A c \in Callers : (IF held'[c] = None THEN None ELSE cell'[held'[c]])
                           = (IF holders[c] = None THEN None ELSE cells[c])
    BY <1>2, <2>1
  <2> QED BY <1>5, <2>2
<1> QED BY <1>2, <1>9, <1>10

(***************************************************************************)
(* A manager that only gives snapshots up, while a caller gets or drops a   *)
(* buffer.                                                                 *)
(***************************************************************************)
Callback(cells, holders) ==
  /\ cells \in [Cells -> KV \cup {None}]
  /\ holders \in [Callers -> Cells \cup {None}]
  /\ Holding(cells, holders)
  /\ \A o \in Managers : \A p \in Prompts : cells[<<o, p>>] = cell[<<o, p>>]

GivesUp(m, s, cells, holders) ==
  /\ Snaps' = [Snaps EXCEPT ![m] = [p \in DOMAIN s.entries |-> Snaps[m][p]]]
  /\ Copies' = [c \in Callers |-> IF holders[c] = None THEN None ELSE cells[c]]
  /\ now' = now

LEMMA KeepsStep ==
  ASSUME CacheInv, NEW m \in Managers, NEW s, Sound(m, s, orphans[m]), Keeps(mgr[m], s),
         NEW cells, NEW holders, Callback(cells, holders), Update(m, s, cells, holders)
  PROVE  CacheInv' /\ GivesUp(m, s, cells, holders)
<1>1. /\ mgr \in [Managers -> State] /\ mgr[m] \in State
      /\ Sound(m, mgr[m], orphans[m]) /\ Within(m, mgr[m]) /\ Snapshots(m, mgr[m], cell)
  BY DEF CacheInv, TypeOK
<1>2. \A p \in Prompts : cells[<<m, p>>] = cell[<<m, p>>]
  BY DEF Callback
<1>3. Within(m, s)
  BY <1>1, KeepsWithin
<1>4. /\ Snapshots(m, s, cells)
      /\ \A p \in DOMAIN s.entries : StoredIn(s, cells, p) = StoredIn(mgr[m], cell, p)
  <2> DEFINE u == mgr[m]
             left == orphans[m]
  <2>1. Sound(m, u, left) /\ Sound(m, s, left) /\ Keeps(u, s) /\ Snapshots(m, u, cell)
    BY <1>1
  <2> HIDE DEF u, left
  <2>2. /\ Snapshots(m, s, cells)
        /\ \A p \in DOMAIN s.entries : StoredIn(s, cells, p) = StoredIn(u, cell, p)
    BY <1>2, <2>1, KeepsSnapshots
  <2> QED BY <2>2 DEF u
<1>5. Fresh(m, s, cells, holders)
  BY <1>3, <1>4 DEF Fresh, Callback, Sound
<1>6. Effect(m, s, cells, holders) /\ CacheInv'
  BY <1>5, UpdateEffect
<1>7. /\ Snaps' = [Snaps EXCEPT ![m] = SnapsIn(s, cells)]
      /\ Copies' = [c \in Callers |-> IF holders[c] = None THEN None ELSE cells[c]]
      /\ now' = now
  BY <1>5, <1>6, EffectMaps
<1>8. SnapsIn(s, cells) = [p \in DOMAIN s.entries |-> Snaps[m][p]]
  <2>1. Snaps[m] = SnapsIn(mgr[m], cell)
    BY Mapping
  <2>2. \A p \in DOMAIN s.entries : p \in DOMAIN mgr[m].entries /\ s.entries[p] = mgr[m].entries[p]
    BY DEF Keeps
  <2> QED BY <1>4, <2>1, <2>2 DEF SnapsIn
<1> QED BY <1>6, <1>7, <1>8 DEF GivesUp

(***************************************************************************)
(* expireLocked leaves the live snapshots.                                 *)
(***************************************************************************)
LEMMA ExpiredLive ==
  ASSUME CacheInv, NEW m \in Managers
  PROVE  /\ Sound(m, Expired(m, mgr[m]), orphans[m])
         /\ Keeps(mgr[m], Expired(m, mgr[m]))
         /\ DOMAIN Expired(m, mgr[m]).entries = Interface!Live(m)
         /\ \A query : Matching(Expired(m, mgr[m]), query) = Interface!Matching(m, query)
<1> DEFINE t == Expired(m, mgr[m])
<1>1. /\ mgr[m] \in State /\ Sound(m, mgr[m], orphans[m])
      /\ now \in Nat /\ TTL[m] \in Nat
  BY CacheConstants DEF CacheInv, TypeOK
<1>2. Sound(m, t, orphans[m]) /\ Shrinks(mgr[m], t, Old(m, mgr[m]))
  BY <1>1, ExpiredSound
<1> HIDE DEF t
<1>3. Keeps(mgr[m], t)
  BY <1>2, ShrinksKeeps
<1>4. DOMAIN t.entries = Interface!Live(m)
  <2>1. /\ DOMAIN Snaps[m] = DOMAIN mgr[m].entries
        /\ \A p \in DOMAIN mgr[m].entries : Snaps[m][p].at = mgr[m].entries[p].storedAt
    BY DEF Snaps
  <2>2. \A p \in DOMAIN mgr[m].entries : mgr[m].entries[p].storedAt \in Nat
    <3>1. mgr[m].entries \in [DOMAIN mgr[m].entries -> Entry]
      BY <1>1, StateParts
    <3>2. \A e \in Entry : e.storedAt \in Nat
      BY DEF Entry
    <3> QED BY <3>1, <3>2
  <2>3. \A p \in DOMAIN mgr[m].entries :
          p \notin Old(m, mgr[m]) <=> (TTL[m] = 0 \/ now - Snaps[m][p].at <= TTL[m])
    BY <1>1, <2>1, <2>2 DEF Old
  <2>4. DOMAIN t.entries = DOMAIN mgr[m].entries \ Old(m, mgr[m])
    BY <1>2 DEF Shrinks
  <2>5. Interface!Live(m)
          = {p \in DOMAIN Snaps[m] : TTL[m] = 0 \/ now - Snaps[m][p].at <= TTL[m]}
    BY DEF Interface!Live
  <2> QED BY <2>1, <2>3, <2>4, <2>5
<1>5. \A query : Matching(t, query) = Interface!Matching(m, query)
  <2>1. \A p, query : Interface!IsStrictPrefix(p, query) = IsStrictPrefix(p, query)
    BY DEF Interface!IsStrictPrefix, Interface!IsPrefix, IsStrictPrefix, IsPrefix
  <2> QED BY <1>4, <2>1 DEF Matching, Interface!Matching
<1> QED BY <1>2, <1>3, <1>4, <1>5 DEF t

LEMMA LongestIs ==
  ASSUME NEW S \in SUBSET Prompts, NEW query \in Prompts, S # {},
         \A p \in S : IsStrictPrefix(p, query)
  PROVE  Longest(S) \in S /\ \A q \in S : Len(q) <= Len(Longest(S))
<1> DEFINE spare(p) == Len(query) - Len(p)
           T == {spare(p) : p \in S}
<1>1. \A p \in Prompts : Len(p) \in Nat
  BY CacheConstants
<1>2. \A p \in S : Len(p) <= Len(query)
  BY DEF IsStrictPrefix, IsPrefix
<1>3. T \in SUBSET Nat /\ T # {}
  BY <1>1, <1>2
<1>4. PICK x \in T : \A y \in T : x <= y
  <2> HIDE DEF T
  <2> QED BY <1>3, LeastElement
<1>5. PICK p \in S : x = spare(p)
  BY <1>4
<1>6. \A q \in S : Len(q) <= Len(p)
  <2> SUFFICES ASSUME NEW q \in S PROVE Len(q) <= Len(p)
    OBVIOUS
  <2>1. spare(p) <= spare(q)
    BY <1>4, <1>5
  <2>2. Len(p) \in Nat /\ Len(q) \in Nat /\ Len(query) \in Nat
    BY <1>1
  <2> QED BY <2>1, <2>2
<1> QED BY <1>6 DEF Longest

(***************************************************************************)
(* Giving a caller nothing, or a buffer that covers a prompt.              *)
(***************************************************************************)
LEMMA GivesNothing ==
  ASSUME CacheInv, NEW c \in Callers
  PROVE  /\ Callback(cell, [held EXCEPT ![c] = None])
         /\ [d \in Callers |-> IF [held EXCEPT ![c] = None][d] = None THEN None ELSE cell[d]]
              = [Copies EXCEPT ![c] = None]
<1>1. /\ held \in [Callers -> Cells \cup {None}] /\ cell \in [Cells -> KV \cup {None}]
      /\ Holding(cell, held)
  BY DEF CacheInv, TypeOK
<1> DEFINE h == [held EXCEPT ![c] = None]
<1>2. h \in [Callers -> Cells \cup {None}] /\ h[c] = None /\ \A d \in Callers \ {c} : h[d] = held[d]
  BY <1>1
<1> HIDE DEF h
<1>3. Holding(cell, h)
  BY <1>1, <1>2, CacheConstants DEF Holding
<1>4. Copies = [d \in Callers |-> IF held[d] = None THEN None ELSE cell[d]]
  BY Mapping
<1>5. [d \in Callers |-> IF h[d] = None THEN None ELSE cell[d]] = [Copies EXCEPT ![c] = None]
  BY <1>2, <1>4
<1> QED BY <1>1, <1>2, <1>3, <1>5 DEF Callback, h

LEMMA GivesBuffer ==
  ASSUME CacheInv, NEW c \in Callers, NEW kv \in KV, kv.tokens \in Prompts
  PROVE  /\ Callback([cell EXCEPT ![c] = kv], [held EXCEPT ![c] = c])
         /\ [d \in Callers |-> IF [held EXCEPT ![c] = c][d] = None THEN None
                               ELSE [cell EXCEPT ![c] = kv][d]]
              = [Copies EXCEPT ![c] = kv]
<1>1. /\ held \in [Callers -> Cells \cup {None}] /\ cell \in [Cells -> KV \cup {None}]
      /\ Holding(cell, held)
  BY DEF CacheInv, TypeOK
<1>2. c \in Cells /\ c # None /\ \A o \in Managers, p \in Prompts : <<o, p>> # c /\ <<o, p>> \in Cells
  BY CacheConstants DEF Cells
<1> DEFINE h == [held EXCEPT ![c] = c]
           x == [cell EXCEPT ![c] = kv]
<1>3. h \in [Callers -> Cells \cup {None}] /\ h[c] = c /\ \A d \in Callers \ {c} : h[d] = held[d]
  BY <1>1, <1>2
<1>4. x \in [Cells -> KV \cup {None}] /\ x[c] = kv /\ \A r \in Cells \ {c} : x[r] = cell[r]
  BY <1>1, <1>2
<1> HIDE DEF h, x
<1>5. Callers \subseteq Cells
  BY DEF Cells
<1>6. Holding(x, h)
  BY <1>1, <1>3, <1>4, <1>5 DEF Holding
<1>7. \A o \in Managers : \A p \in Prompts : x[<<o, p>>] = cell[<<o, p>>]
  BY <1>2, <1>4
<1>8. Copies = [d \in Callers |-> IF held[d] = None THEN None ELSE cell[d]]
  BY Mapping
<1>9. [d \in Callers |-> IF h[d] = None THEN None ELSE x[d]] = [Copies EXCEPT ![c] = kv]
  BY <1>2, <1>3, <1>4, <1>5, <1>8
<1> QED BY <1>3, <1>4, <1>6, <1>7, <1>9 DEF Callback, h, x

(***************************************************************************)
(* Every stored snapshot covers its prompt.                                *)
(***************************************************************************)
LEMMA StoredIs ==
  ASSUME CacheInv, NEW m \in Managers, NEW p \in DOMAIN Snaps[m]
  PROVE  /\ p \in Prompts /\ p \in DOMAIN mgr[m].entries
         /\ Snaps[m][p].kv = StoredIn(mgr[m], cell, p)
         /\ Snaps[m][p].kv \in KV /\ Snaps[m][p].kv.tokens = p
<1> DEFINE s == mgr[m]
<1>1. s \in State /\ Sound(m, s, orphans[m]) /\ Snapshots(m, s, cell)
  BY DEF CacheInv, TypeOK
<1>2. Snaps[m] = SnapsIn(s, cell)
  BY Mapping
<1> HIDE DEF s
<1>3. p \in DOMAIN s.entries /\ Snaps[m][p].kv = StoredIn(s, cell, p)
  BY <1>2 DEF SnapsIn
<1>4. p \in Prompts /\ s.files \in [DOMAIN s.files -> KV]
  BY <1>1, <1>3, StateParts
<1>5. CASE s.entries[p].ref = File
  <2>1. p \in DOMAIN s.files /\ s.files[p].tokens = p
    BY <1>1, <1>3, <1>5 DEF Sound
  <2>2. s.files[p] \in KV
    BY <1>4, <2>1
  <2> QED BY <1>3, <1>4, <1>5, <2>1, <2>2 DEF StoredIn, s
<1>6. CASE s.entries[p].ref # File
  <2>1. s.entries[p].ref = <<m, p>>
    BY <1>1, <1>3, <1>6 DEF Sound
  <2>2. cell[<<m, p>>] \in KV /\ cell[<<m, p>>].tokens = p
    BY <1>1, <1>3, <1>6 DEF Snapshots
  <2> QED BY <1>3, <1>4, <1>6, <2>1, <2>2 DEF StoredIn, s
<1> QED BY <1>5, <1>6

(***************************************************************************)
(* What is needed of expiry, then use, or expiry, then removal.            *)
(***************************************************************************)
LEMMA ExpiredThenTouched ==
  ASSUME CacheInv, NEW m \in Managers, NEW p \in Interface!Live(m)
  PROVE  /\ Sound(m, Touched(Expired(m, mgr[m]), p), orphans[m])
         /\ Keeps(mgr[m], Touched(Expired(m, mgr[m]), p))
         /\ DOMAIN Touched(Expired(m, mgr[m]), p).entries = Interface!Live(m)
<1> DEFINE s == Expired(m, mgr[m])
           t == Touched(s, p)
<1>1. Sound(m, mgr[m], orphans[m])
  BY DEF CacheInv
<1>2. Sound(m, s, orphans[m]) /\ Keeps(mgr[m], s) /\ DOMAIN s.entries = Interface!Live(m)
  BY ExpiredLive
<1> HIDE DEF s
<1>3. Sound(m, t, orphans[m]) /\ Shrinks(s, t, {})
  BY <1>2, TouchedSound
<1> HIDE DEF t
<1>4. mgr[m].bytes \in Nat /\ s.bytes \in Nat /\ t.bytes \in Nat
  BY <1>1, <1>2, <1>3, StateParts DEF Sound
<1>5. Keeps(s, t)
  BY <1>3, ShrinksKeeps
<1>6. Keeps(mgr[m], t)
  BY <1>2, <1>4, <1>5, KeepsKeeps
<1> QED BY <1>2, <1>3, <1>6 DEF Shrinks, s, t

LEMMA ExpiredThenRemoved ==
  ASSUME CacheInv, NEW m \in Managers, NEW p \in Interface!Live(m)
  PROVE  /\ Sound(m, Removed(Expired(m, mgr[m]), {p}), orphans[m])
         /\ Keeps(mgr[m], Removed(Expired(m, mgr[m]), {p}))
         /\ DOMAIN Removed(Expired(m, mgr[m]), {p}).entries = Interface!Live(m) \ {p}
<1> DEFINE s == Expired(m, mgr[m])
           t == Removed(s, {p})
<1>1. Sound(m, mgr[m], orphans[m])
  BY DEF CacheInv
<1>2. Sound(m, s, orphans[m]) /\ Keeps(mgr[m], s) /\ DOMAIN s.entries = Interface!Live(m)
  BY ExpiredLive
<1> HIDE DEF s
<1>3. Sound(m, t, orphans[m]) /\ Shrinks(s, t, {p})
  <2>1. {p} \in SUBSET DOMAIN s.entries
    BY <1>2
  <2> QED BY <1>2, <2>1, RemovedSound
<1> HIDE DEF t
<1>4. mgr[m].bytes \in Nat /\ s.bytes \in Nat /\ t.bytes \in Nat
  BY <1>1, <1>2, <1>3, StateParts DEF Sound
<1>5. Keeps(s, t)
  BY <1>3, ShrinksKeeps
<1>6. Keeps(mgr[m], t)
  BY <1>2, <1>4, <1>5, KeepsKeeps
<1> QED BY <1>2, <1>3, <1>6 DEF Shrinks, s, t

(***************************************************************************)
(* Lookup is a hit or a miss of the prefix store.                          *)
(***************************************************************************)
LEMMA LookupStep ==
  ASSUME CacheInv, NEW c \in Callers, NEW m \in Managers, NEW query \in Prompts,
         Lookup(c, m, query)
  PROVE  /\ CacheInv'
         /\ Interface!Hit(c, m, query) \/ Interface!Miss(c, m, query)
         /\ now' = now
<1> DEFINE s == Expired(m, mgr[m])
           found == Matching(s, query)
           best == Longest(found)
<1>1. /\ Sound(m, s, orphans[m]) /\ Keeps(mgr[m], s)
      /\ DOMAIN s.entries = Interface!Live(m) /\ found = Interface!Matching(m, query)
  BY ExpiredLive
<1>2. DOMAIN s.entries \in SUBSET Prompts /\ DOMAIN Snaps[m] = DOMAIN mgr[m].entries
  <2>1. s \in State
    BY <1>1 DEF Sound
  <2> HIDE DEF s
  <2> QED BY <2>1, StateParts DEF Snaps
<1>3. ASSUME found # {}
      PROVE  /\ best \in found /\ \A other \in found : Len(other) <= Len(best)
             /\ best \in DOMAIN s.entries /\ best \in Interface!Live(m)
             /\ best \in DOMAIN Snaps[m]
  <2>1. found \in SUBSET Prompts /\ \A p \in found : IsStrictPrefix(p, query) /\ p \in DOMAIN s.entries
    BY <1>2 DEF Matching
  <2> HIDE DEF found, s
  <2>2. best \in found /\ \A other \in found : Len(other) <= Len(best)
    BY <1>3, <2>1, LongestIs
  <2> QED BY <1>1, <1>2, <2>1, <2>2 DEF Keeps
<1>4. CASE LookupMiss(c, m, query)
  <2>1. found = {} /\ Update(m, s, cell, [held EXCEPT ![c] = None])
    BY <1>4 DEF LookupMiss
  <2> HIDE DEF s
  <2>2. /\ CacheInv' /\ now' = now
        /\ Snaps' = [Snaps EXCEPT ![m] = [p \in DOMAIN s.entries |-> Snaps[m][p]]]
        /\ Copies' = [d \in Callers |-> IF [held EXCEPT ![c] = None][d] = None THEN None ELSE cell[d]]
    <3>1. Callback(cell, [held EXCEPT ![c] = None])
      BY GivesNothing
    <3>2. CacheInv' /\ GivesUp(m, s, cell, [held EXCEPT ![c] = None])
      BY <1>1, <2>1, <3>1, KeepsStep
    <3> QED BY <3>2 DEF GivesUp
  <2>3. Copies' = [Copies EXCEPT ![c] = None]
    BY <2>2, GivesNothing
  <2> HIDE DEF found
  <2>4. Interface!Miss(c, m, query)
    BY <1>1, <2>1, <2>2, <2>3 DEF Interface!Miss, Interface!KeepsOnly
  <2> QED BY <2>2, <2>4
<1>5. ASSUME found # {}, NEW kv, kv = Snaps[m][best].kv,
             Update(m, Touched(s, best), [cell EXCEPT ![c] = kv], [held EXCEPT ![c] = c])
      PROVE  CacheInv' /\ Interface!Hit(c, m, query) /\ now' = now
  <2>1. /\ best \in found /\ \A other \in found : Len(other) <= Len(best)
        /\ best \in DOMAIN s.entries /\ best \in Interface!Live(m) /\ best \in DOMAIN Snaps[m]
    BY <1>3, <1>5
  <2>2. kv \in KV /\ kv.tokens \in Prompts
    <3> HIDE DEF best
    <3> QED BY <1>5, <2>1, StoredIs
  <2> DEFINE t == Touched(s, best)
  <2>3. Sound(m, t, orphans[m]) /\ Keeps(mgr[m], t) /\ DOMAIN t.entries = Interface!Live(m)
    <3> HIDE DEF best
    <3> QED BY <2>1, ExpiredThenTouched
  <2>4. Update(m, t, [cell EXCEPT ![c] = kv], [held EXCEPT ![c] = c])
    BY <1>5
  <2> HIDE DEF t, best, found, s
  <2>5. Callback([cell EXCEPT ![c] = kv], [held EXCEPT ![c] = c])
    BY <2>2, GivesBuffer
  <2>6. /\ CacheInv' /\ now' = now
        /\ Snaps' = [Snaps EXCEPT ![m] = [p \in DOMAIN t.entries |-> Snaps[m][p]]]
        /\ Copies' = [d \in Callers |-> IF [held EXCEPT ![c] = c][d] = None THEN None
                                        ELSE [cell EXCEPT ![c] = kv][d]]
    <3>1. CacheInv' /\ GivesUp(m, t, [cell EXCEPT ![c] = kv], [held EXCEPT ![c] = c])
      BY <2>3, <2>4, <2>5, KeepsStep
    <3> QED BY <3>1 DEF GivesUp
  <2>7. Copies' = [Copies EXCEPT ![c] = kv]
    BY <2>2, <2>6, GivesBuffer
  <2>8. Interface!Hit(c, m, query)
    BY <1>1, <1>5, <2>1, <2>3, <2>6, <2>7 DEF Interface!Hit, Interface!KeepsOnly
  <2> QED BY <2>6, <2>8
<1>6. ASSUME found # {} PROVE Snaps[m][best].kv = StoredIn(mgr[m], cell, best)
                              /\ s.entries[best] = mgr[m].entries[best]
                              /\ (best \in DOMAIN s.files => s.files[best] = mgr[m].files[best])
  <2>1. best \in DOMAIN s.entries /\ best \in DOMAIN Snaps[m]
    BY <1>3, <1>6
  <2> HIDE DEF best, s
  <2>2. Snaps[m][best].kv = StoredIn(mgr[m], cell, best)
    BY <2>1, StoredIs
  <2> QED BY <1>1, <2>1, <2>2 DEF Keeps
<1>7. CASE LookupMemory(c, m, query)
  <2>1. /\ found # {} /\ s.entries[best].ref # File
        /\ Update(m, Touched(s, best), [cell EXCEPT ![c] = cell[s.entries[best].ref]],
                  [held EXCEPT ![c] = c])
    BY <1>7 DEF LookupMemory
  <2>2. cell[s.entries[best].ref] = Snaps[m][best].kv
    <3>1. /\ Snaps[m][best].kv = StoredIn(mgr[m], cell, best)
          /\ s.entries[best] = mgr[m].entries[best]
      BY <1>6, <2>1
    <3> HIDE DEF best, s
    <3> QED BY <2>1, <3>1 DEF StoredIn
  <2> HIDE DEF s, best, found
  <2>3. CacheInv' /\ Interface!Hit(c, m, query) /\ now' = now
    BY <1>5, <2>1, <2>2
  <2> QED BY <2>3
<1>8. CASE LookupFile(c, m, query)
  <2>1. /\ found # {} /\ s.entries[best].ref = File /\ best \in DOMAIN s.files
        /\ Update(m, Touched(s, best), [cell EXCEPT ![c] = s.files[best]],
                  [held EXCEPT ![c] = c])
    BY <1>8 DEF LookupFile
  <2>2. s.files[best] = Snaps[m][best].kv
    <3>1. /\ Snaps[m][best].kv = StoredIn(mgr[m], cell, best)
          /\ s.entries[best] = mgr[m].entries[best]
          /\ s.files[best] = mgr[m].files[best]
      BY <1>6, <2>1
    <3> HIDE DEF best, s
    <3> QED BY <2>1, <3>1 DEF StoredIn
  <2> HIDE DEF s, best, found
  <2>3. CacheInv' /\ Interface!Hit(c, m, query) /\ now' = now
    BY <1>5, <2>1, <2>2
  <2> QED BY <2>3
<1>9. CASE LookupUnreadable(c, m, query)
  <2> DEFINE t == Removed(s, {best})
  <2>1. found # {} /\ Update(m, t, cell, [held EXCEPT ![c] = None])
    BY <1>9 DEF LookupUnreadable
  <2>2. best \in found /\ best \in Interface!Live(m)
    BY <1>3, <2>1
  <2>3. /\ Sound(m, t, orphans[m]) /\ Keeps(mgr[m], t)
        /\ DOMAIN t.entries = Interface!Live(m) \ {best}
    <3> HIDE DEF best
    <3> QED BY <2>2, ExpiredThenRemoved
  <2> HIDE DEF s, t, best
  <2>4. /\ CacheInv' /\ now' = now
        /\ Snaps' = [Snaps EXCEPT ![m] = [p \in DOMAIN t.entries |-> Snaps[m][p]]]
        /\ Copies' = [d \in Callers |-> IF [held EXCEPT ![c] = None][d] = None THEN None ELSE cell[d]]
    <3>1. Callback(cell, [held EXCEPT ![c] = None])
      BY GivesNothing
    <3>2. CacheInv' /\ GivesUp(m, t, cell, [held EXCEPT ![c] = None])
      BY <2>1, <2>3, <3>1, KeepsStep
    <3> QED BY <3>2 DEF GivesUp
  <2>5. Copies' = [Copies EXCEPT ![c] = None]
    BY <2>4, GivesNothing
  <2> HIDE DEF found
  <2>6. Interface!Miss(c, m, query)
    BY <1>1, <2>2, <2>3, <2>4, <2>5 DEF Interface!Miss, Interface!KeepsOnly
  <2> QED BY <2>4, <2>6
<1> QED BY <1>4, <1>7, <1>8, <1>9 DEF Lookup

(***************************************************************************)
(* Store: one snapshot is put, and any may be evicted.                     *)
(***************************************************************************)
Insertion(m, p, kv, t, cells) ==
  /\ Sound(m, t, orphans[m])
  /\ DOMAIN t.entries \subseteq DOMAIN mgr[m].entries \cup {p}
  /\ \A q \in DOMAIN t.entries \ {p} :
       /\ t.entries[q] = mgr[m].entries[q]
       /\ t.entries[q].ref = File => t.files[q] = mgr[m].files[q]
  /\ p \in DOMAIN t.entries => t.entries[p].storedAt = now /\ StoredIn(t, cells, p) = kv
  /\ cells \in [Cells -> KV \cup {None}]
  /\ \A r \in Cells \ {<<m, p>>} : cells[r] = cell[r]

Stores(m, p, kv) ==
  /\ \E kept \in SUBSET (DOMAIN Snaps[m] \cup {p}) :
       Snaps' = [Snaps EXCEPT ![m] =
                   [q \in kept |-> IF q = p THEN [kv |-> kv, at |-> now] ELSE Snaps[m][q]]]
  /\ Copies' = Copies
  /\ now' = now

LEMMA InsertionEvicted ==
  ASSUME NEW m \in Managers, NEW p, NEW kv, NEW t, NEW cells, Insertion(m, p, kv, t, cells)
  PROVE  Insertion(m, p, kv, Evicted(m, t), cells) /\ Within(m, Evicted(m, t))
<1> DEFINE u == Evicted(m, t)
<1>1. /\ Sound(m, t, orphans[m])
      /\ DOMAIN t.entries \subseteq DOMAIN mgr[m].entries \cup {p}
      /\ \A q \in DOMAIN t.entries \ {p} :
           /\ t.entries[q] = mgr[m].entries[q]
           /\ t.entries[q].ref = File => t.files[q] = mgr[m].files[q]
      /\ p \in DOMAIN t.entries => t.entries[p].storedAt = now /\ StoredIn(t, cells, p) = kv
  BY DEF Insertion
<1>2. Sound(m, u, orphans[m]) /\ Within(m, u)
  BY <1>1, EvictedSound
<1>3. \E gone \in SUBSET DOMAIN t.entries : Shrinks(t, u, gone)
  BY <1>1, EvictedSound
<1> HIDE DEF u
<1>4. Keeps(t, u)
  BY <1>3, ShrinksKeeps
<1>5. DOMAIN u.entries \subseteq DOMAIN mgr[m].entries \cup {p}
  BY <1>1, <1>4 DEF Keeps
<1>6. \A q \in DOMAIN u.entries :
        /\ q \in DOMAIN t.entries /\ u.entries[q] = t.entries[q]
        /\ u.entries[q].ref = File => u.files[q] = t.files[q]
  BY <1>2, <1>4 DEF Keeps, Sound
<1>7. \A q \in DOMAIN u.entries \ {p} :
        /\ u.entries[q] = mgr[m].entries[q]
        /\ u.entries[q].ref = File => u.files[q] = mgr[m].files[q]
  BY <1>1, <1>6
<1>8. p \in DOMAIN u.entries => u.entries[p].storedAt = now /\ StoredIn(u, cells, p) = kv
  BY <1>1, <1>6 DEF StoredIn
<1>9. /\ cells \in [Cells -> KV \cup {None}]
      /\ \A r \in Cells \ {<<m, p>>} : cells[r] = cell[r]
  BY DEF Insertion
<1> QED BY <1>2, <1>5, <1>7, <1>8, <1>9 DEF Insertion, u

LEMMA StoreStep ==
  ASSUME CacheInv, NEW m \in Managers, NEW p \in Prompts, NEW kv \in KV, kv.tokens = p,
         NEW t, NEW cells, Insertion(m, p, kv, t, cells), Within(m, t),
         Update(m, t, cells, held)
  PROVE  CacheInv' /\ Stores(m, p, kv)
<1>1. /\ mgr \in [Managers -> State] /\ held \in [Callers -> Cells \cup {None}]
      /\ Sound(m, mgr[m], orphans[m]) /\ Snapshots(m, mgr[m], cell)
      /\ Holding(cell, held)
  BY DEF CacheInv, TypeOK
<1>2. /\ Sound(m, t, orphans[m])
      /\ DOMAIN t.entries \subseteq DOMAIN mgr[m].entries \cup {p}
      /\ \A q \in DOMAIN t.entries \ {p} :
           /\ t.entries[q] = mgr[m].entries[q]
           /\ t.entries[q].ref = File => t.files[q] = mgr[m].files[q]
      /\ p \in DOMAIN t.entries => t.entries[p].storedAt = now /\ StoredIn(t, cells, p) = kv
      /\ cells \in [Cells -> KV \cup {None}]
      /\ \A r \in Cells \ {<<m, p>>} : cells[r] = cell[r]
  BY DEF Insertion
<1>3. /\ \A o \in Managers, q \in Prompts : <<o, q>> \in Cells
      /\ \A c \in Callers : c \in Cells /\ c # <<m, p>> /\ cells[c] = cell[c] /\ c # None
  BY <1>2, CacheConstants DEF Cells
<1>4. t \in State /\ \A q \in DOMAIN t.entries : q \in Prompts
  <2>1. t \in State
    BY <1>2 DEF Sound
  <2> QED BY <2>1, StateParts
<1>5. Snapshots(m, t, cells)
  <2> SUFFICES ASSUME NEW q \in DOMAIN t.entries, t.entries[q].ref # File
               PROVE  cells[<<m, q>>] \in KV /\ cells[<<m, q>>].tokens = q
    BY DEF Snapshots
  <2>1. t.entries[q].ref = <<m, q>>
    BY <1>2 DEF Sound
  <2>2. CASE q = p
    BY <1>2, <2>1, <2>2 DEF StoredIn
  <2>3. CASE q # p
    BY <1>1, <1>2, <1>3, <1>4, <2>3 DEF Snapshots
  <2> QED BY <2>2, <2>3
<1>6. Holding(cells, held)
  BY <1>1, <1>3 DEF Holding
<1>7. \A o \in Managers \ {m} : \A q \in Prompts : cells[<<o, q>>] = cell[<<o, q>>]
  BY <1>2, <1>3
<1>8. Fresh(m, t, cells, held)
  BY <1>1, <1>2, <1>4, <1>5, <1>6, <1>7 DEF Fresh
<1>9. Effect(m, t, cells, held) /\ CacheInv'
  BY <1>8, UpdateEffect
<1>10. /\ Snaps' = [Snaps EXCEPT ![m] = SnapsIn(t, cells)]
       /\ Copies' = [c \in Callers |-> IF held[c] = None THEN None ELSE cells[c]]
       /\ now' = now
  BY <1>8, <1>9, EffectMaps
<1>11. /\ Snaps[m] = SnapsIn(mgr[m], cell)
       /\ Copies = [c \in Callers |-> IF held[c] = None THEN None ELSE cell[c]]
  BY Mapping
<1>12. SnapsIn(t, cells) = [q \in DOMAIN t.entries |->
                              IF q = p THEN [kv |-> kv, at |-> now] ELSE Snaps[m][q]]
  <2>1. ASSUME NEW q \in DOMAIN t.entries, q # p
        PROVE  StoredIn(t, cells, q) = StoredIn(mgr[m], cell, q) /\ q \in DOMAIN mgr[m].entries
               /\ t.entries[q] = mgr[m].entries[q]
    <3>1. t.entries[q].ref \in {File, <<m, q>>} /\ t.entries[q] = mgr[m].entries[q]
          /\ q \in DOMAIN mgr[m].entries
      BY <1>2, <2>1 DEF Sound
    <3>2. cells[<<m, q>>] = cell[<<m, q>>]
      BY <1>2, <1>3, <1>4, <2>1
    <3> QED BY <1>2, <2>1, <3>1, <3>2 DEF StoredIn
  <2>2. \A q \in DOMAIN t.entries : q # p =>
          [kv |-> StoredIn(t, cells, q), at |-> t.entries[q].storedAt] = Snaps[m][q]
    BY <1>11, <2>1 DEF SnapsIn
  <2>3. p \in DOMAIN t.entries =>
          [kv |-> StoredIn(t, cells, p), at |-> t.entries[p].storedAt] = [kv |-> kv, at |-> now]
    BY <1>2
  <2> QED BY <2>2, <2>3 DEF SnapsIn
<1>13. Copies' = Copies
  BY <1>3, <1>10, <1>11
<1>14. DOMAIN t.entries \in SUBSET (DOMAIN Snaps[m] \cup {p})
  BY <1>2, <1>11 DEF SnapsIn
<1> QED BY <1>9, <1>10, <1>12, <1>13, <1>14 DEF Stores

(***************************************************************************)
(* Stripping and marshalling keep the tokens of a buffer.                  *)
(***************************************************************************)
LEMMA SnapshotType ==
  ASSUME NEW m, NEW kv \in KV
  PROVE  /\ SnapshotOf(m, kv) \in KV /\ SnapshotOf(m, kv).tokens = kv.tokens
         /\ Marshalled(kv) \in KV /\ Marshalled(kv).tokens = kv.tokens
<1>1. Stripped(kv) \in KV /\ Stripped(kv).tokens = kv.tokens
  BY DEF Stripped, KV
<1>2. Marshalled(kv) \in KV /\ Marshalled(kv).tokens = kv.tokens
  BY DEF Marshalled, KV
<1> QED BY <1>1, <1>2 DEF SnapshotOf

(***************************************************************************)
(* The state that Store inserts into, once an older entry for the same     *)
(* prompt is gone.                                                         *)
(***************************************************************************)
LEMMA Forgotten ==
  ASSUME CacheInv, NEW m \in Managers, NEW p \in Prompts
  PROVE  /\ Sound(m, ForgetOld(mgr[m], p), orphans[m])
         /\ Keeps(mgr[m], ForgetOld(mgr[m], p))
         /\ p \notin DOMAIN ForgetOld(mgr[m], p).entries
         /\ now \in Nat
<1> DEFINE s == mgr[m]
           t == ForgetOld(s, p)
<1>1. Sound(m, s, orphans[m]) /\ now \in Nat
  BY CacheConstants DEF CacheInv, TypeOK
<1> HIDE DEF s
<1>2. Sound(m, t, orphans[m]) /\ Shrinks(s, t, {p} \cap DOMAIN s.entries)
  BY <1>1, ForgetSound
<1> HIDE DEF t
<1>3. Keeps(s, t)
  BY <1>2, ShrinksKeeps
<1>4. p \notin DOMAIN t.entries
  BY <1>2 DEF Shrinks
<1> QED BY <1>1, <1>2, <1>3, <1>4 DEF s, t

(***************************************************************************)
(* What saveKVFile leaves in the directory, when it succeeds and when not. *)
(***************************************************************************)
LEMMA SavedIs ==
  ASSUME NEW m, NEW left, NEW s, Sound(m, s, left), NEW p \in Prompts, NEW kv \in KV
  PROVE  /\ Saved(s, p, kv) \in State
         /\ Saved(s, p, kv).entries = s.entries /\ Saved(s, p, kv).order = s.order
         /\ Saved(s, p, kv).bytes = s.bytes /\ Saved(s, p, kv).temps = s.temps \ {p}
         /\ DOMAIN Saved(s, p, kv).files = DOMAIN s.files \cup {p}
         /\ Saved(s, p, kv).files[p] = kv
         /\ \A x \in DOMAIN s.files \ {p} : Saved(s, p, kv).files[x] = s.files[x]
<1> DEFINE f == With(s.files, p, kv)
           t == Saved(s, p, kv)
<1>1. s \in State /\ DOMAIN s.files \in SUBSET Prompts /\ s.files \in [DOMAIN s.files -> KV]
      /\ s.temps \in SUBSET Prompts
  BY StateParts DEF Sound
<1>2. /\ f \in [DOMAIN s.files \cup {p} -> KV]
      /\ DOMAIN s.files \cup {p} \in SUBSET Prompts
      /\ f[p] = kv
      /\ \A x \in DOMAIN s.files \ {p} : f[x] = s.files[x]
  BY <1>1 DEF With
<1>3. f \in UNION {[D -> KV] : D \in SUBSET Prompts}
  BY <1>2
<1>4. t = [s EXCEPT !.files = f, !.temps = s.temps \ {p}]
  BY <1>1 DEF Saved, State
<1> HIDE DEF f
<1>5. t \in State /\ t.entries = s.entries /\ t.order = s.order
      /\ t.bytes = s.bytes /\ t.temps = s.temps \ {p} /\ t.files = f
  BY <1>1, <1>3, <1>4 DEF State
<1> HIDE DEF t
<1> QED BY <1>2, <1>5 DEF t

LEMMA UnsavedIs ==
  ASSUME NEW m, NEW left, NEW s, Sound(m, s, left), NEW p \in Prompts \ DOMAIN s.entries,
         NEW t \in Unsaved(s, p)
  PROVE  Sound(m, t, left) /\ Keeps(s, t) /\ t.entries = s.entries /\ t.files = s.files
<1>1. s \in State /\ s.temps \in SUBSET Prompts /\ s.bytes \in Nat
  BY StateParts DEF Sound
<1>2. CASE t = s
  <2>1. Keeps(s, s)
    BY <1>1 DEF Keeps
  <2> QED BY <1>2, <2>1
<1>3. CASE t # s
  <2>1. t = [s EXCEPT !.temps = s.temps \cup {p}]
    BY <1>1, <1>3 DEF Unsaved, State
  <2>2. /\ t \in State /\ t.entries = s.entries /\ t.order = s.order
        /\ t.bytes = s.bytes /\ t.files = s.files /\ t.temps = s.temps \cup {p}
    BY <1>1, <2>1 DEF State
  <2>3. Orders(t) /\ t.bytes = Total(Weighed(Weights(t), t.order))
    BY <2>2 DEF Sound, Orders, Weights
  <2>4. Sound(m, t, left)
    BY <2>2, <2>3 DEF Sound
  <2>5. Keeps(s, t)
    BY <1>1, <2>2 DEF Keeps
  <2> QED BY <2>2, <2>4, <2>5
<1> QED BY <1>2, <1>3

LEMMA MemoryStep ==
  ASSUME CacheInv, NEW c \in Callers, NEW m \in Managers, held[c] # None,
         StoreMemory(c, m, cell[held[c]].tokens)
  PROVE  CacheInv' /\ Stores(m, Copies[c].tokens, SnapshotOf(m, Copies[c]))
<1> DEFINE kv == cell[c]
           p == kv.tokens
           new == SnapshotOf(m, kv)
           old == ForgetOld(mgr[m], p)
           cells == [cell EXCEPT ![<<m, p>>] = new]
<1>1. held[c] = c /\ kv \in KV /\ p \in Prompts /\ Copies[c] = kv
      /\ cell \in [Cells -> KV \cup {None}]
  BY Mapping DEF CacheInv, Holding, TypeOK
<1>2. new \in KV /\ new.tokens = p
  BY <1>1, SnapshotType
<1>3. PICK s \in {old} \cup Unsaved(old, p) :
        Update(m, Evicted(m, Inserted(s, p, <<m, p>>, new.size)), cells, held)
  BY <1>1 DEF StoreMemory
<1> DEFINE t == Inserted(s, p, <<m, p>>, new.size)
<1>4. new.size \in Sizes
  BY <1>2 DEF KV
<1>5. <<m, p>> \in Cells /\ <<m, p>> # File
  BY <1>1, CacheConstants DEF Cells
<1>6. cells \in [Cells -> KV \cup {None}] /\ cells[<<m, p>>] = new
      /\ \A r \in Cells \ {<<m, p>>} : cells[r] = cell[r]
  <2> HIDE DEF new
  <2> QED BY <1>1, <1>2, <1>5
<1> HIDE DEF p, new, kv, cells
<1>7. Sound(m, s, orphans[m]) /\ Keeps(mgr[m], s) /\ p \notin DOMAIN s.entries /\ now \in Nat
  <2>1. Sound(m, old, orphans[m]) /\ Keeps(mgr[m], old) /\ p \notin DOMAIN old.entries /\ now \in Nat
    BY <1>1, Forgotten
  <2> HIDE DEF old
  <2>2. CASE s = old
    BY <2>1, <2>2
  <2>3. CASE s \in Unsaved(old, p)
    <3> DEFINE left == orphans[m]
    <3>1. Sound(m, old, left) /\ p \in Prompts \ DOMAIN old.entries
      BY <1>1, <2>1
    <3> HIDE DEF left
    <3>2. Sound(m, s, left) /\ Keeps(old, s) /\ s.entries = old.entries
      BY <2>3, <3>1, UnsavedIs
    <3>3. s.bytes \in Nat /\ old.bytes \in Nat /\ mgr[m].bytes \in Nat
      <4>1. s \in State /\ old \in State /\ mgr[m] \in State
        BY <3>1, <3>2 DEF Sound, CacheInv, TypeOK
      <4> QED BY <4>1, StateParts
    <3>4. Keeps(mgr[m], s)
      BY <2>1, <3>2, <3>3, KeepsKeeps
    <3> QED BY <2>1, <3>2, <3>4 DEF left
  <2> QED BY <2>2, <2>3
<1> HIDE DEF old
<1>8. /\ Sound(m, t, orphans[m])
      /\ DOMAIN t.entries = DOMAIN s.entries \cup {p}
      /\ \A x \in DOMAIN s.entries : t.entries[x] = s.entries[x]
      /\ t.entries[p] = [ref |-> <<m, p>>, size |-> new.size, storedAt |-> now]
      /\ t.files = s.files
  <2> DEFINE ref == <<m, p>>
             size == new.size
  <2>1. ref \in {File, <<m, p>>} /\ size \in Sizes /\ ref # File
    BY <1>4, <1>5
  <2> HIDE DEF ref, size
  <2>2. /\ Sound(m, Inserted(s, p, ref, size), orphans[m])
        /\ Inserts(s, Inserted(s, p, ref, size), p, ref, size)
    BY <1>1, <1>7, <2>1, InsertedSound
  <2> QED BY <2>2 DEF ref, size, Inserts
<1> HIDE DEF t
<1>9. Insertion(m, p, new, t, cells)
  <2>1. DOMAIN t.entries \subseteq DOMAIN mgr[m].entries \cup {p}
    BY <1>7, <1>8 DEF Keeps
  <2>2. \A q \in DOMAIN t.entries \ {p} :
          /\ t.entries[q] = mgr[m].entries[q]
          /\ t.entries[q].ref = File => t.files[q] = mgr[m].files[q]
    BY <1>7, <1>8 DEF Keeps, Sound
  <2>3. t.entries[p].storedAt = now /\ StoredIn(t, cells, p) = new
    BY <1>5, <1>6, <1>8 DEF StoredIn
  <2> QED BY <1>6, <1>8, <2>1, <2>2, <2>3 DEF Insertion
<1>10. Insertion(m, p, new, Evicted(m, t), cells) /\ Within(m, Evicted(m, t))
  BY <1>9, InsertionEvicted
<1>11. CacheInv' /\ Stores(m, p, new)
  <2> DEFINE u == Evicted(m, t)
  <2>1. Insertion(m, p, new, u, cells) /\ Within(m, u) /\ Update(m, u, cells, held)
    BY <1>3, <1>10 DEF t
  <2> HIDE DEF u
  <2> QED BY <1>1, <1>2, <2>1, StoreStep
<1> QED BY <1>1, <1>11 DEF p, new

LEMMA FileStep ==
  ASSUME CacheInv, NEW c \in Callers, NEW m \in Managers, held[c] # None,
         StoreFile(c, m, cell[held[c]].tokens)
  PROVE  CacheInv' /\ Stores(m, Copies[c].tokens, Marshalled(SnapshotOf(m, Copies[c])))
<1> DEFINE kv == cell[c]
           p == kv.tokens
           size == SnapshotOf(m, kv).size
           new == Marshalled(SnapshotOf(m, kv))
           s == ForgetOld(mgr[m], p)
           saved == Saved(s, p, new)
           t == Inserted(saved, p, File, size)
           left == orphans[m] \cup {p}
<1>1. held[c] = c /\ kv \in KV /\ p \in Prompts /\ Copies[c] = kv
      /\ cell \in [Cells -> KV \cup {None}]
  BY Mapping DEF CacheInv, Holding, TypeOK
<1>2. new \in KV /\ new.tokens = p /\ size \in Sizes
  <2>1. SnapshotOf(m, kv) \in KV /\ SnapshotOf(m, kv).tokens = p
    BY <1>1, SnapshotType
  <2>2. new \in KV /\ new.tokens = p
    <3> HIDE DEF p
    <3> QED BY <2>1, SnapshotType
  <2> QED BY <2>1, <2>2 DEF KV
<1> HIDE DEF p
<1>3. Sound(m, s, orphans[m]) /\ Keeps(mgr[m], s) /\ p \notin DOMAIN s.entries /\ now \in Nat
  BY <1>1, Forgotten
<1>4. Update(m, Evicted(m, t), cell, held)
  <2>1. p = cell[held[c]].tokens /\ kv = cell[held[c]]
    BY <1>1 DEF p
  <2> HIDE DEF p, kv
  <2>2. StoreFile(c, m, p)
    BY <2>1
  <2> QED BY <2>1, <2>2 DEF StoreFile
<1> HIDE DEF new, kv, s, size
<1>7. /\ saved \in State /\ saved.entries = s.entries /\ saved.order = s.order
      /\ saved.bytes = s.bytes /\ DOMAIN saved.files = DOMAIN s.files \cup {p}
      /\ saved.files[p] = new /\ saved.temps = s.temps \ {p}
      /\ \A x \in DOMAIN s.files \ {p} : saved.files[x] = s.files[x]
  <2> DEFINE rest == orphans[m]
  <2>1. Sound(m, s, rest)
    BY <1>3
  <2> HIDE DEF rest
  <2> QED BY <1>1, <1>2, <2>1, SavedIs
<1> HIDE DEF saved
<1>8. Sound(m, saved, left)
  <2>1. Orders(saved)
    BY <1>3, <1>7 DEF Sound, Orders
  <2>2. saved.bytes = Total(Weighed(Weights(saved), saved.order))
    <3>1. Weights(saved) = Weights(s)
      BY <1>7 DEF Weights
    <3> QED BY <1>3, <1>7, <3>1 DEF Sound
  <2>3. \A x \in DOMAIN saved.entries :
          /\ saved.entries[x].ref \in {File, <<m, x>>}
          /\ saved.entries[x].ref = File => x \in DOMAIN saved.files
    BY <1>3, <1>7 DEF Sound
  <2>4. \A x \in DOMAIN saved.files :
          /\ x \in left \/ (x \in DOMAIN saved.entries /\ saved.entries[x].ref = File)
          /\ saved.files[x].tokens = x
    BY <1>2, <1>3, <1>7 DEF Sound
  <2>5. \A x \in saved.temps : ~(x \in DOMAIN saved.entries /\ saved.entries[x].ref = File)
    BY <1>3, <1>7 DEF Sound
  <2> QED BY <1>7, <2>1, <2>2, <2>3, <2>4, <2>5 DEF Sound
<1>9. /\ Sound(m, t, left)
      /\ DOMAIN t.entries = DOMAIN s.entries \cup {p}
      /\ \A x \in DOMAIN s.entries : t.entries[x] = s.entries[x]
      /\ t.entries[p] = [ref |-> File, size |-> size, storedAt |-> now]
      /\ t.files = saved.files
  <2> DEFINE ref == File
  <2>1. ref \in {File, <<m, p>>} /\ p \in DOMAIN saved.files /\ p \notin saved.temps
        /\ p \in Prompts \ DOMAIN saved.entries
    BY <1>1, <1>3, <1>7
  <2> HIDE DEF ref, left
  <2>2. /\ Sound(m, Inserted(saved, p, ref, size), left)
        /\ Inserts(saved, Inserted(saved, p, ref, size), p, ref, size)
    BY <1>2, <1>3, <1>8, <2>1, InsertedSound
  <2> QED BY <1>7, <2>2 DEF ref, Inserts
<1> HIDE DEF t
<1>10. Sound(m, t, orphans[m])
  <2>1. p \in DOMAIN t.entries /\ t.entries[p].ref = File
    BY <1>9
  <2> QED BY <1>9, <2>1 DEF Sound
<1>11. Insertion(m, p, new, t, cell)
  <2>1. DOMAIN t.entries \subseteq DOMAIN mgr[m].entries \cup {p}
    BY <1>3, <1>9 DEF Keeps
  <2>2. \A q \in DOMAIN t.entries \ {p} :
          /\ t.entries[q] = mgr[m].entries[q]
          /\ t.entries[q].ref = File => t.files[q] = mgr[m].files[q]
    <3> SUFFICES ASSUME NEW q \in DOMAIN t.entries \ {p}
                 PROVE  /\ t.entries[q] = mgr[m].entries[q]
                        /\ t.entries[q].ref = File => t.files[q] = mgr[m].files[q]
      OBVIOUS
    <3>1. q \in DOMAIN s.entries /\ t.entries[q] = s.entries[q]
      BY <1>9
    <3>2. t.entries[q] = mgr[m].entries[q]
      BY <1>3, <3>1 DEF Keeps
    <3>3. ASSUME t.entries[q].ref = File PROVE t.files[q] = mgr[m].files[q]
      <4>1. q \in DOMAIN s.files
        BY <1>3, <3>1, <3>3 DEF Sound
      <4> QED BY <1>3, <1>7, <1>9, <4>1 DEF Keeps
    <3> QED BY <3>2, <3>3
  <2>3. t.entries[p].storedAt = now /\ StoredIn(t, cell, p) = new
    BY <1>7, <1>9 DEF StoredIn
  <2> QED BY <1>1, <1>10, <2>1, <2>2, <2>3 DEF Insertion
<1>12. Insertion(m, p, new, Evicted(m, t), cell) /\ Within(m, Evicted(m, t))
  BY <1>11, InsertionEvicted
<1>13. CacheInv' /\ Stores(m, p, new)
  <2> DEFINE u == Evicted(m, t)
  <2>1. Insertion(m, p, new, u, cell) /\ Within(m, u) /\ Update(m, u, cell, held)
    BY <1>4, <1>12
  <2> HIDE DEF u
  <2> QED BY <1>1, <1>2, <2>1, StoreStep
<1> QED BY <1>1, <1>13 DEF p, new

(***************************************************************************)
(* Invalidate leaves only the files of an earlier process.                 *)
(***************************************************************************)
LEMMA InvalidateStep ==
  ASSUME CacheInv, NEW m \in Managers, Invalidate(m)
  PROVE  CacheInv' /\ Interface!Clear(m) /\ now' = now
<1> DEFINE s == mgr[m]
           G == {p \in DOMAIN s.files : ~(p \in DOMAIN s.entries /\ s.entries[p].ref = File)}
           f == Restrict(s.files, G)
           x == s.temps
           t == Emptied(f, x)
<1>1. /\ s \in State /\ Sound(m, s, orphans[m])
      /\ held \in [Callers -> Cells \cup {None}] /\ cell \in [Cells -> KV \cup {None}]
      /\ Holding(cell, held)
  BY DEF CacheInv, TypeOK
<1>2. Update(m, t, cell, held)
  BY DEF Invalidate, Cleared
<1> HIDE DEF s
<1>3. /\ G \in SUBSET Prompts /\ f \in [G -> KV]
      /\ \A p \in G : p \in DOMAIN s.files /\ f[p] = s.files[p]
  <2>1. DOMAIN s.files \in SUBSET Prompts /\ s.files \in [DOMAIN s.files -> KV]
    BY <1>1, StateParts
  <2>2. G \subseteq DOMAIN s.files
    OBVIOUS
  <2>3. f = [p \in G |-> s.files[p]]
    BY DEF Restrict
  <2> HIDE DEF G, f
  <2> QED BY <2>1, <2>2, <2>3
<1>4. G \subseteq orphans[m] /\ \A p \in G : f[p].tokens = p
  BY <1>1, <1>3 DEF Sound
<1> HIDE DEF G, f
<1>5. Sound(m, t, orphans[m])
  <2>1. x \in SUBSET Prompts
    BY <1>1, StateParts
  <2> HIDE DEF x
  <2> QED BY <1>3, <1>4, <2>1, FilesSound
<1>6. t.entries = << >> /\ DOMAIN t.entries = {} /\ t.files = f /\ t.bytes = 0
  BY DEF Emptied
<1> HIDE DEF t
<1>7. Keeps(s, t)
  <2>1. s.bytes \in Nat
    BY <1>1, StateParts
  <2>2. DOMAIN t.files = G
    BY <1>3, <1>6
  <2> QED BY <1>3, <1>6, <2>1, <2>2 DEF Keeps
<1>8. Callback(cell, held)
  BY <1>1 DEF Callback
<1>9. CacheInv' /\ GivesUp(m, t, cell, held)
  BY <1>2, <1>5, <1>7, <1>8, KeepsStep DEF s
<1>10. Copies = [c \in Callers |-> IF held[c] = None THEN None ELSE cell[c]]
  BY Mapping
<1> QED BY <1>6, <1>9, <1>10 DEF GivesUp, Interface!Clear, Interface!KeepsOnly

(***************************************************************************)
(* Snapshots do not change with the callers' cells.                        *)
(***************************************************************************)
LEMMA SameSnapshots ==
  ASSUME CacheInv, NEW m \in Managers, NEW after,
         \A p \in Prompts : after[<<m, p>>] = cell[<<m, p>>]
  PROVE  /\ Snapshots(m, mgr[m], after)
         /\ \A p \in DOMAIN mgr[m].entries :
              StoredIn(mgr[m], after, p) = StoredIn(mgr[m], cell, p)
<1> DEFINE u == mgr[m]
<1>1. u \in State /\ Sound(m, u, orphans[m]) /\ Snapshots(m, u, cell)
  BY DEF CacheInv, TypeOK
<1> HIDE DEF u
<1>2. \A p \in DOMAIN u.entries : /\ after[<<m, p>>] = cell[<<m, p>>]
                                 /\ u.entries[p].ref \in {File, <<m, p>>}
  BY <1>1, StateParts DEF Sound
<1>3. Snapshots(m, u, after)
  BY <1>1, <1>2 DEF Snapshots
<1>4. \A p \in DOMAIN u.entries : StoredIn(u, after, p) = StoredIn(u, cell, p)
  BY <1>2 DEF StoredIn
<1> QED BY <1>3, <1>4 DEF u

(***************************************************************************)
(* A caller works on a buffer of its own.                                  *)
(***************************************************************************)
LEMMA WorkStep ==
  ASSUME CacheInv, NEW c \in Callers, NEW kv \in KV, kv.tokens \in Prompts,
         cell' = [cell EXCEPT ![c] = kv], held' = [held EXCEPT ![c] = c],
         UNCHANGED <<mgr, orphans, now>>
  PROVE  CacheInv' /\ Snaps' = Snaps /\ Copies' = [Copies EXCEPT ![c] = kv]
<1>1. /\ mgr \in [Managers -> State]
      /\ \A m \in Managers : Sound(m, mgr[m], orphans[m]) /\ Within(m, mgr[m])
                             /\ Snapshots(m, mgr[m], cell)
      /\ TypeOK
  BY DEF CacheInv, TypeOK
<1>2. Callback(cell', held')
  BY GivesBuffer
<1>3. Copies = [d \in Callers |-> IF held[d] = None THEN None ELSE cell[d]]
  BY Mapping
<1>4. /\ cell' \in [Cells -> KV \cup {None}]
      /\ held' \in [Callers -> Cells \cup {None}]
      /\ Holding(cell', held')
      /\ \A o \in Managers : \A p \in Prompts : cell'[<<o, p>>] = cell[<<o, p>>]
  BY <1>2 DEF Callback
<1>5. TypeOK'
  BY <1>1, <1>4 DEF TypeOK
<1>6. ASSUME NEW m \in Managers
      PROVE  /\ Snapshots(m, mgr[m], cell')
             /\ \A p \in DOMAIN mgr[m].entries :
                  StoredIn(mgr[m], cell', p) = StoredIn(mgr[m], cell, p)
  <2>1. \A p \in Prompts : cell'[<<m, p>>] = cell[<<m, p>>]
    BY <1>4
  <2> QED BY <2>1, SameSnapshots
<1>7. Holding(cell, held)'
  BY <1>4 DEF Holding
<1>8. CacheInv'
  <2>1. ASSUME NEW m \in Managers
        PROVE  (Sound(m, mgr[m], orphans[m]) /\ Within(m, mgr[m]) /\ Snapshots(m, mgr[m], cell))'
    <3>1. Sound(m, mgr[m], orphans[m]) /\ Within(m, mgr[m]) /\ Snapshots(m, mgr[m], cell')
      BY <1>1, <1>6
    <3>2. mgr' = mgr /\ orphans' = orphans
      OBVIOUS
    <3> QED BY <3>1, <3>2 DEF Sound, Orders, Weights, Within, Snapshots
  <2>2. Disowned'
    BY DEF CacheInv, Disowned, Owned
  <2> QED BY <1>5, <1>7, <2>1, <2>2 DEF CacheInv
<1>9. Snaps' = Snaps
  <2>1. Snaps' = [o \in Managers |-> SnapsIn(mgr[o], cell')]
    BY DEF Snaps, SnapsIn, Stored, StoredIn
  <2>2. Snaps = [o \in Managers |-> SnapsIn(mgr[o], cell)]
    BY Mapping
  <2>3. \A o \in Managers : SnapsIn(mgr[o], cell') = SnapsIn(mgr[o], cell)
    BY <1>6 DEF SnapsIn
  <2> QED BY <2>1, <2>2, <2>3
<1>10. Copies' = [Copies EXCEPT ![c] = kv]
  <2>1. Copies' = [d \in Callers |-> IF held'[d] = None THEN None ELSE cell'[held'[d]]]
    BY DEF Copies
  <2>2. [d \in Callers |-> IF held'[d] = None THEN None ELSE cell'[d]]
          = [Copies EXCEPT ![c] = kv]
    BY GivesBuffer
  <2>3. \A d \in Callers : held'[d] \in {None, d}
    BY <1>4 DEF Holding
  <2> QED BY <2>1, <2>2, <2>3
<1> QED BY <1>8, <1>9, <1>10

(***************************************************************************)
(* What is forwarded completes the prefix to the prompt.                   *)
(***************************************************************************)
LEMMA PrefixRest ==
  ASSUME NEW a \in Seq(Nat), NEW p \in Seq(Nat), IsStrictPrefix(a, p)
  PROVE  a \o SubSeq(p, Len(a) + 1, Len(p)) = p
<1> DEFINE n == Len(a)
           rest == SubSeq(p, n + 1, Len(p))
<1>1. /\ n \in Nat /\ Len(p) \in Nat /\ n <= Len(p)
      /\ SubSeq(a, 1, n) = SubSeq(p, 1, n)
  BY DEF IsStrictPrefix, IsPrefix
<1>2. \A i \in 1..n : a[i] = p[i]
  <2>1. \A i \in 1..n : SubSeq(a, 1, n)[i] = a[i]
    BY <1>1
  <2>2. \A i \in 1..n : SubSeq(p, 1, n)[i] = p[i]
    BY <1>1
  <2> HIDE DEF n
  <2>3. \A i : SubSeq(a, 1, n)[i] = SubSeq(p, 1, n)[i]
    BY <1>1
  <2> QED BY <2>1, <2>2, <2>3
<1>3. /\ rest \in Seq(Nat) /\ Len(rest) = Len(p) - n
      /\ \A i \in 1..(Len(p) - n) : rest[i] = p[n + i]
  BY <1>1, SubSeqProperties
<1> HIDE DEF rest
<1>4. /\ a \o rest \in Seq(Nat) /\ Len(a \o rest) = n + Len(rest)
      /\ \A i \in 1..(n + Len(rest)) : (a \o rest)[i] = IF i <= n THEN a[i] ELSE rest[i - n]
  BY <1>3, ConcatProperties
<1>5. Len(a \o rest) = Len(p)
  BY <1>1, <1>3, <1>4
<1>6. \A i \in 1..Len(p) : (a \o rest)[i] = p[i]
  <2> SUFFICES ASSUME NEW i \in 1..Len(p) PROVE (a \o rest)[i] = p[i]
    OBVIOUS
  <2> HIDE DEF n
  <2>1. CASE i <= n
    BY <1>1, <1>2, <1>3, <1>4, <2>1
  <2>2. CASE i > n
    <3>1. i - n \in 1..(Len(p) - n) /\ n + (i - n) = i
      BY <1>1, <2>2
    <3>2. rest[i - n] = p[i]
      BY <1>3, <3>1
    <3>3. i \in 1..(n + Len(rest)) /\ ~(i <= n)
      BY <1>1, <1>3, <2>2
    <3> QED BY <1>4, <3>2, <3>3
  <2>3. i <= n \/ i > n
    BY <1>1
  <2> QED BY <2>1, <2>2, <2>3
<1>7. a \o rest = p
  BY <1>4, <1>5, <1>6, SeqEqual
<1> QED BY <1>7 DEF rest, n

LEMMA ForwardedIs ==
  ASSUME NEW kv \in KV, kv.tokens \in Prompts, NEW p \in Prompts, IsStrictPrefix(kv.tokens, p)
  PROVE  LET new == Forwarded(kv, SubSeq(p, Len(kv.tokens) + 1, Len(p)))
         IN  /\ new \in KV /\ new.tokens = p
             /\ new.raw = kv.raw /\ new.stripped = kv.stripped
             /\ new.exact = (kv.exact /\ kv.raw)
<1> DEFINE a == kv.tokens
           rest == SubSeq(p, Len(a) + 1, Len(p))
           new == Forwarded(kv, rest)
<1>1. a \in Seq(Nat) /\ p \in Seq(Nat)
  BY CacheConstants
<1> HIDE DEF a
<1>2. a \o rest = p
  BY <1>1, PrefixRest DEF a
<1> HIDE DEF rest
<1>3. new = [kv EXCEPT !.tokens = p, !.exact = kv.exact /\ kv.raw]
  BY <1>2 DEF Forwarded, a
<1>4. kv.exact \in BOOLEAN /\ kv.raw \in BOOLEAN /\ (kv.exact /\ kv.raw) \in BOOLEAN
  BY DEF KV
<1>5. /\ new \in KV /\ new.tokens = p /\ new.raw = kv.raw /\ new.stripped = kv.stripped
      /\ new.exact = (kv.exact /\ kv.raw)
  BY <1>3, <1>4 DEF KV
<1> QED BY <1>5 DEF rest, a

(***************************************************************************)
(* Prefilling and forwarding are a caller's own work.                      *)
(***************************************************************************)
Works(c, kv) ==
  /\ kv \in KV /\ kv.tokens \in Prompts
  /\ cell' = [cell EXCEPT ![c] = kv]
  /\ held' = [held EXCEPT ![c] = c]
  /\ UNCHANGED <<mgr, orphans, now>>

LEMMA PrefillWorks ==
  ASSUME NEW c \in Callers, Prefill(c)
  PROVE  \E kv : Works(c, kv) /\ ~kv.stripped
<1>1. PICK p \in Prompts, size \in Sizes :
        cell' = [cell EXCEPT ![c] = [tokens |-> p, size |-> size, raw |-> TRUE,
                                     stripped |-> FALSE, exact |-> TRUE]]
  BY DEF Prefill
<1> DEFINE kv == [tokens |-> p, size |-> size, raw |-> TRUE, stripped |-> FALSE, exact |-> TRUE]
<1>2. kv \in KV /\ kv.tokens = p /\ ~kv.stripped /\ cell' = [cell EXCEPT ![c] = kv]
  BY <1>1 DEF KV
<1> HIDE DEF kv
<1> QED BY <1>2 DEF Prefill, Works

LEMMA ForwardWorks ==
  ASSUME CacheInv, NEW c \in Callers, Forward(c)
  PROVE  \E kv : Works(c, kv) /\ kv.raw = Copies[c].raw /\ kv.stripped = Copies[c].stripped
                 /\ Copies[c] # None
<1> DEFINE old == cell[c]
<1>1. held[c] = c /\ old \in KV /\ old.tokens \in Prompts /\ c # None /\ Copies[c] = old
      /\ held \in [Callers -> Cells \cup {None}]
  BY Mapping DEF Forward, CacheInv, Holding, TypeOK
<1> DEFINE New(p) == Forwarded(old, SubSeq(p, Len(old.tokens) + 1, Len(p)))
<1>2. PICK p \in Prompts : IsStrictPrefix(old.tokens, p) /\ cell' = [cell EXCEPT ![c] = New(p)]
  BY <1>1 DEF Forward
<1>3. /\ New(p) \in KV /\ New(p).tokens = p
      /\ New(p).raw = old.raw /\ New(p).stripped = old.stripped
  <2> HIDE DEF old
  <2> QED BY <1>1, <1>2, ForwardedIs
<1> HIDE DEF New
<1>4. held' = [held EXCEPT ![c] = c]
  BY <1>1 DEF Forward
<1>5. None \notin KV
  BY CacheConstants
<1>6. Works(c, New(p))
  BY <1>2, <1>3, <1>4 DEF Works, Forward
<1> QED BY <1>1, <1>3, <1>5, <1>6

LEMMA WorksStep ==
  ASSUME CacheInv, NEW c \in Callers, NEW kv, Works(c, kv)
  PROVE  /\ CacheInv' /\ Snaps' = Snaps /\ Copies' = [Copies EXCEPT ![c] = kv]
         /\ Interface!Work(c) /\ now' = now
<1>1. CacheInv' /\ Snaps' = Snaps /\ Copies' = [Copies EXCEPT ![c] = kv]
  BY WorkStep DEF Works
<1>2. DOMAIN Copies' = Callers /\ \A other \in Callers \ {c} : Copies'[other] = Copies[other]
  BY <1>1 DEF Copies
<1> QED BY <1>1, <1>2 DEF Works, Interface!Work

(***************************************************************************)
(* Time only makes snapshots older.                                        *)
(***************************************************************************)
LEMMA TickStep ==
  ASSUME CacheInv, Tick
  PROVE  CacheInv' /\ Snaps' = Snaps /\ Copies' = Copies /\ now' = now + 1
<1>1. /\ mgr' = mgr /\ cell' = cell /\ held' = held /\ orphans' = orphans
      /\ now' = now + 1 /\ now < MaxClock /\ now \in 0..MaxClock
  BY DEF Tick, CacheInv, TypeOK
<1>2. now' \in 0..MaxClock
  BY <1>1, CacheConstants
<1>3. CacheInv'
  <2>1. TypeOK'
    BY <1>1, <1>2 DEF CacheInv, TypeOK
  <2>2. \A m \in Managers : (Sound(m, mgr[m], orphans[m]) /\ Within(m, mgr[m])
                             /\ Snapshots(m, mgr[m], cell))'
    BY <1>1 DEF CacheInv, Sound, Orders, Weights, Within, Snapshots
  <2>3. Holding(cell, held)'
    BY <1>1 DEF CacheInv, Holding
  <2>4. Disowned'
    BY <1>1 DEF CacheInv, Disowned, Owned
  <2> QED BY <2>1, <2>2, <2>3, <2>4 DEF CacheInv
<1>4. Snaps' = Snaps /\ Copies' = Copies
  BY <1>1 DEF Snaps, Copies, Stored
<1> QED BY <1>1, <1>3, <1>4

\* What is in a manager's directory.
Left(s) ==
  /\ DOMAIN s.files \in SUBSET Prompts
  /\ s.files \in [DOMAIN s.files -> KV]
  /\ \A p \in DOMAIN s.files : s.files[p].tokens = p
  /\ s.temps \in SUBSET Prompts

(***************************************************************************)
(* A new process finds files that the managers wrote, and knows of none.   *)
(***************************************************************************)
LEMMA RestartStep ==
  ASSUME CacheInv, NEW was, \A m \in Managers : Left(was[m]), RestartWith(was)
  PROVE  CacheInv' /\ Interface!Restart /\ now' = now
<1>1. /\ mgr' = [m \in Managers |->
                   Emptied(was[m].files, was[m].temps)]
      /\ cell' = [r \in Cells |-> None]
      /\ held' = [c \in Callers |-> None]
      /\ orphans' = [m \in Managers |-> DOMAIN was[m].files]
      /\ now' = now
  BY DEF RestartWith
<1>2. ASSUME NEW m \in Managers
      PROVE  /\ mgr'[m].entries = << >>
             /\ mgr'[m] \in State /\ orphans'[m] \in SUBSET Prompts
             /\ Sound(m, mgr'[m], orphans'[m]) /\ Within(m, mgr'[m])
             /\ Snapshots(m, mgr'[m], cell')
  <2> DEFINE f == was[m].files
             left == DOMAIN f
             x == was[m].temps
             t == Emptied(f, x)
  <2>1. /\ left \in SUBSET Prompts /\ f \in [left -> KV] /\ \A p \in left : f[p].tokens = p
        /\ x \in SUBSET Prompts
    BY DEF Left
  <2>2. mgr'[m] = t /\ orphans'[m] = left
    BY <1>1
  <2>3. t.entries = << >>
    BY DEF Emptied
  <2> HIDE DEF left, f, x
  <2>4. Sound(m, t, left) /\ Within(m, t) /\ Snapshots(m, t, cell')
    BY <2>1, FilesSound
  <2> HIDE DEF t
  <2> QED BY <2>1, <2>2, <2>3, <2>4 DEF Sound
<1>3. CacheInv'
  <2>1. TypeOK'
    <3>1. mgr' \in [Managers -> State] /\ orphans' \in [Managers -> SUBSET Prompts]
      <4>1. DOMAIN mgr' = Managers /\ mgr' = [m \in Managers |-> mgr'[m]]
            /\ orphans' = [m \in Managers |-> orphans'[m]]
        BY <1>1
      <4> QED BY <1>2, <4>1
    <3> QED BY <1>1, <3>1 DEF CacheInv, TypeOK
  <2>2. ASSUME NEW m \in Managers
        PROVE  (Sound(m, mgr[m], orphans[m]) /\ Within(m, mgr[m]) /\ Snapshots(m, mgr[m], cell))'
    <3>1. Sound(m, mgr'[m], orphans'[m]) /\ Within(m, mgr'[m]) /\ Snapshots(m, mgr'[m], cell')
      BY <1>2
    <3> QED BY <3>1 DEF Sound, Orders, Weights, Within, Snapshots
  <2>3. Holding(cell, held)'
    BY <1>1, CacheConstants DEF Holding
  <2>4. Disowned'
    <3>1. \A m \in Managers : DOMAIN mgr'[m].entries = {}
      BY <1>2
    <3> QED BY <3>1 DEF Disowned, Owned
  <2> QED BY <2>1, <2>2, <2>3, <2>4 DEF CacheInv
<1>4. Interface!Restart
  <2>1. Snaps' = [m \in Managers |-> << >>]
    <3>1. \A m \in Managers : DOMAIN mgr'[m].entries = {}
      BY <1>2
    <3>2. Snaps' = [m \in Managers |-> SnapsIn(mgr'[m], cell')]
      BY DEF Snaps, SnapsIn, Stored, StoredIn
    <3>3. \A m \in Managers : SnapsIn(mgr'[m], cell') = << >>
      BY <3>1 DEF SnapsIn
    <3> QED BY <3>2, <3>3
  <2>2. Copies' = [c \in Callers |-> None]
    BY <1>1 DEF Copies
  <2> QED BY <2>1, <2>2 DEF Interface!Restart
<1> QED BY <1>1, <1>3, <1>4

LEMMA FilesOf ==
  ASSUME NEW m, NEW left, NEW s, Sound(m, s, left)
  PROVE  Left(s)
<1>1. s \in State
  BY DEF Sound
<1> QED BY <1>1, StateParts DEF Sound, Left

LEMMA CrashStep ==
  ASSUME CacheInv, NEW c \in Callers, NEW m \in Managers, CrashInStore(c, m)
  PROVE  CacheInv' /\ Interface!Restart /\ now' = now
<1> DEFINE kv == cell[held[c]]
           p == kv.tokens
           new == Marshalled(SnapshotOf(m, kv))
           old == ForgetOld(mgr[m], p)
<1>1. PICK s \in Unsaved(old, p) \cup {Saved(old, p, new)} :
        RestartWith([mgr EXCEPT ![m] = s])
  BY DEF CrashInStore
<1>2. held[c] = c /\ kv \in KV /\ p \in Prompts
  BY DEF CrashInStore, CacheInv, Holding
<1>3. new \in KV /\ new.tokens = p
  <2>1. SnapshotOf(m, kv) \in KV /\ SnapshotOf(m, kv).tokens = p
    BY <1>2, SnapshotType
  <2> HIDE DEF p
  <2> QED BY <2>1, SnapshotType
<1> HIDE DEF p, new, kv
<1>4. Sound(m, old, orphans[m]) /\ p \notin DOMAIN old.entries
  BY <1>2, Forgotten
<1> HIDE DEF old
<1>5. Left(s)
  <2> DEFINE left == orphans[m]
  <2>1. Sound(m, old, left)
    BY <1>4
  <2> HIDE DEF left
  <2>2. CASE s \in Unsaved(old, p)
    <3>1. Sound(m, s, left)
      BY <1>2, <1>4, <2>1, <2>2, UnsavedIs
    <3> QED BY <3>1, FilesOf
  <2>3. CASE s = Saved(old, p, new)
    <3>1. /\ s \in State /\ DOMAIN s.files = DOMAIN old.files \cup {p} /\ s.files[p] = new
          /\ \A x \in DOMAIN old.files \ {p} : s.files[x] = old.files[x]
      BY <1>2, <1>3, <2>1, <2>3, SavedIs
    <3>2. \A x \in DOMAIN old.files : old.files[x].tokens = x
      BY <2>1 DEF Sound
    <3>3. \A x \in DOMAIN s.files : s.files[x].tokens = x
      BY <1>3, <3>1, <3>2
    <3> QED BY <3>1, <3>3, StateParts DEF Left
  <2> QED BY <1>1, <2>2, <2>3
<1> DEFINE was == [mgr EXCEPT ![m] = s]
<1>6. \A o \in Managers : Left(was[o])
  <2> SUFFICES ASSUME NEW o \in Managers PROVE Left(was[o])
    OBVIOUS
  <2>1. mgr \in [Managers -> State] /\ Sound(o, mgr[o], orphans[o])
    BY DEF CacheInv, TypeOK
  <2>2. CASE o = m
    <3>1. was[o] = s
      BY <2>1, <2>2
    <3> QED BY <1>5, <3>1
  <2>3. CASE o # m
    <3>1. was[o] = mgr[o]
      BY <2>1, <2>3
    <3>2. Left(mgr[o])
      BY <2>1, FilesOf
    <3> QED BY <3>1, <3>2
  <2> QED BY <2>2, <2>3
<1>7. RestartWith(was)
  BY <1>1
<1> HIDE DEF was
<1> QED BY <1>6, <1>7, RestartStep

-----------------------------------------------------------------------------
(* What the snapshots are of stays so through lookups and stores.          *)

Stocked(Q) == \A m \in Managers : \A p \in DOMAIN Snaps[m] : Snaps[m][p].kv \in Q[m]

\* Caller c gets nothing, or the snapshot of a strict prefix of its query.
Served(c, m, query) ==
  /\ \/ Copies'[c] = None
     \/ \E p \in DOMAIN Snaps[m] : IsStrictPrefix(p, query) /\ Copies'[c] = Snaps[m][p].kv
  /\ \A d \in Callers \ {c} : Copies'[d] = Copies[d]

LEMMA KeepsOnlyStock ==
  ASSUME NEW CONSTANT Q, Stocked(Q), NEW m \in Managers, NEW kept \in SUBSET DOMAIN Snaps[m],
         Snaps' = [Snaps EXCEPT ![m] = [p \in kept |-> Snaps[m][p]]]
  PROVE  Stocked(Q)'
<1>1. DOMAIN Snaps = Managers
  BY DEF Snaps
<1> SUFFICES ASSUME NEW o \in Managers, NEW p \in DOMAIN Snaps'[o]
             PROVE  Snaps'[o][p].kv \in Q[o]
  BY DEF Stocked
<1>2. CASE o = m
  <2>1. Snaps'[o] = [q \in kept |-> Snaps[m][q]]
    BY <1>1, <1>2
  <2> QED BY <1>2, <2>1 DEF Stocked
<1>3. CASE o # m
  <2>1. Snaps'[o] = Snaps[o]
    BY <1>1, <1>3
  <2> QED BY <2>1 DEF Stocked
<1> QED BY <1>2, <1>3

LEMMA LookupStock ==
  ASSUME NEW CONSTANT Q, Stocked(Q), NEW c \in Callers, NEW m \in Managers, NEW query,
         Interface!Hit(c, m, query) \/ Interface!Miss(c, m, query)
  PROVE  Stocked(Q)' /\ Served(c, m, query)
<1>1. DOMAIN Copies = Callers
  BY DEF Copies
<1>2. Interface!Live(m) \in SUBSET DOMAIN Snaps[m]
  BY DEF Interface!Live
<1>3. CASE Interface!Hit(c, m, query)
  <2>1. PICK p \in Interface!Matching(m, query) :
          /\ Copies' = [Copies EXCEPT ![c] = Snaps[m][p].kv]
          /\ Snaps' = [Snaps EXCEPT ![m] = [q \in Interface!Live(m) |-> Snaps[m][q]]]
    BY <1>3 DEF Interface!Hit, Interface!KeepsOnly
  <2>2. p \in DOMAIN Snaps[m] /\ IsStrictPrefix(p, query)
    BY <1>2 DEF Interface!Matching, Interface!IsStrictPrefix, Interface!IsPrefix,
                IsStrictPrefix, IsPrefix
  <2>3. Stocked(Q)'
    BY <1>2, <2>1, KeepsOnlyStock
  <2> QED BY <1>1, <2>1, <2>2, <2>3 DEF Served
<1>4. CASE Interface!Miss(c, m, query)
  <2>1. Copies' = [Copies EXCEPT ![c] = None]
    BY <1>4 DEF Interface!Miss
  <2>2. \E kept \in SUBSET DOMAIN Snaps[m] :
          Snaps' = [Snaps EXCEPT ![m] = [q \in kept |-> Snaps[m][q]]]
    <3>1. \E kept \in SUBSET Interface!Live(m) :
            Snaps' = [Snaps EXCEPT ![m] = [q \in kept |-> Snaps[m][q]]]
      BY <1>4 DEF Interface!Miss, Interface!KeepsOnly
    <3> QED BY <1>2, <3>1
  <2>3. Stocked(Q)'
    BY <2>2, KeepsOnlyStock
  <2> QED BY <1>1, <2>1, <2>3 DEF Served
<1> QED BY <1>3, <1>4

LEMMA StoreStock ==
  ASSUME NEW CONSTANT Q, Stocked(Q), NEW m \in Managers, NEW p, NEW kv \in Q[m],
         Stores(m, p, kv)
  PROVE  Stocked(Q)'
<1>1. DOMAIN Snaps = Managers
  BY DEF Snaps
<1>2. PICK kept \in SUBSET (DOMAIN Snaps[m] \cup {p}) :
        Snaps' = [Snaps EXCEPT ![m] =
                    [q \in kept |-> IF q = p THEN [kv |-> kv, at |-> now] ELSE Snaps[m][q]]]
  BY DEF Stores
<1> SUFFICES ASSUME NEW o \in Managers, NEW q \in DOMAIN Snaps'[o]
             PROVE  Snaps'[o][q].kv \in Q[o]
  BY DEF Stocked
<1>3. CASE o = m
  <2>1. q \in kept /\ Snaps'[o][q] = IF q = p THEN [kv |-> kv, at |-> now] ELSE Snaps[m][q]
    BY <1>1, <1>2, <1>3
  <2> QED BY <1>3, <2>1 DEF Stocked
<1>4. CASE o # m
  <2>1. Snaps'[o] = Snaps[o]
    BY <1>1, <1>2, <1>4
  <2> QED BY <2>1 DEF Stocked
<1> QED BY <1>3, <1>4

-----------------------------------------------------------------------------
(* The invariant of CacheManager!Spec, and what it says.                   *)

\* No buffer is flagged as stripped and has its raw rows: without PrefixReuse
\* nothing rebuilds them.  MarshalBinary would drop them again.
PlainKV == {kv \in KV : ~(kv.stripped /\ kv.raw)}
Plain == [m \in Managers |-> PlainKV]

Unbuilt ==
  /\ Stocked(Plain)
  /\ \A c \in Callers : Copies[c] # None => Copies[c] \in PlainKV

LEMMA PlainSnapshot ==
  ASSUME NEW m, NEW kv \in PlainKV
  PROVE  /\ SnapshotOf(m, kv) \in PlainKV
         /\ Marshalled(SnapshotOf(m, kv)) = SnapshotOf(m, kv)
<1>1. ASSUME NEW x \in PlainKV PROVE Marshalled(x) = x
  <2>1. x \in KV /\ x.raw \in BOOLEAN /\ x.stripped \in BOOLEAN /\ ~(x.stripped /\ x.raw)
    BY DEF PlainKV, KV
  <2>2. (x.raw /\ ~x.stripped) = x.raw
    BY <2>1
  <2> QED BY <2>1, <2>2 DEF Marshalled, KV
<1>2. Stripped(kv) \in PlainKV
  BY DEF Stripped, PlainKV, KV
<1>3. SnapshotOf(m, kv) \in PlainKV
  BY <1>2 DEF SnapshotOf
<1> QED BY <1>1, <1>3

(***************************************************************************)
(* Each action keeps the invariant and is one of the prefix store's.       *)
(***************************************************************************)
LEMMA LookupNext ==
  ASSUME CacheInv, Unbuilt, NEW c \in Callers, NEW m \in Managers, NEW p \in Prompts,
         Lookup(c, m, p)
  PROVE  CacheInv' /\ Unbuilt' /\ Interface!SNext
<1>1. /\ CacheInv' /\ now' = now
      /\ Interface!Hit(c, m, p) \/ Interface!Miss(c, m, p)
  BY LookupStep
<1>2. Stocked(Plain)' /\ Served(c, m, p)
  BY <1>1, LookupStock DEF Unbuilt
<1>3. \A d \in Callers : Copies'[d] # None => Copies'[d] \in PlainKV
  <2>1. \A q \in DOMAIN Snaps[m] : Snaps[m][q].kv \in PlainKV
    BY DEF Unbuilt, Stocked, Plain
  <2> QED BY <1>2, <2>1 DEF Served, Unbuilt
<1>4. Unbuilt'
  BY <1>2, <1>3 DEF Unbuilt
<1> QED BY <1>1, <1>4 DEF Interface!SNext

LEMMA StoreNext ==
  ASSUME CacheInv, Unbuilt, NEW c \in Callers, NEW m \in Managers, Store(c, m)
  PROVE  CacheInv' /\ Unbuilt' /\ Interface!SNext
<1> DEFINE new == SnapshotOf(m, Copies[c])
           p == Copies[c].tokens
<1>1. held[c] # None /\ Copies[c] # None /\ Copies[c] \in PlainKV /\ p \in Prompts
  <2>1. held[c] = c /\ cell[c] \in KV /\ cell[c].tokens \in Prompts /\ Copies[c] = cell[c]
    BY Mapping DEF Store, CacheInv, Holding
  <2> QED BY <2>1, CacheConstants DEF Store, Unbuilt
<1>2. new \in PlainKV /\ Marshalled(new) = new
  BY <1>1, PlainSnapshot
<1>3. CacheInv' /\ Stores(m, p, new)
  <2>1. CASE StoreMemory(c, m, cell[held[c]].tokens)
    BY <1>1, <2>1, MemoryStep
  <2>2. CASE StoreFile(c, m, cell[held[c]].tokens)
    BY <1>1, <1>2, <2>2, FileStep
  <2> QED BY <2>1, <2>2 DEF Store
<1>4. new \in Plain[m]
  BY <1>2 DEF Plain
<1> HIDE DEF new, p
<1>5. Stocked(Plain)'
  BY <1>3, <1>4, StoreStock DEF Unbuilt
<1>6. Copies' = Copies /\ now' = now
  BY <1>3 DEF Stores
<1>7. Unbuilt'
  BY <1>5, <1>6 DEF Unbuilt
<1>8. Interface!Put(c, m, p)
  BY <1>1, <1>3 DEF Interface!Put, Stores, new
<1> QED BY <1>1, <1>3, <1>6, <1>7, <1>8 DEF Interface!SNext

LEMMA WorksNext ==
  ASSUME CacheInv, Unbuilt, NEW c \in Callers, NEW kv, Works(c, kv), kv \in PlainKV
  PROVE  CacheInv' /\ Unbuilt' /\ Interface!SNext
<1>1. /\ CacheInv' /\ Snaps' = Snaps /\ Copies' = [Copies EXCEPT ![c] = kv]
      /\ Interface!Work(c) /\ now' = now
  BY WorksStep
<1>2. Unbuilt'
  <2>1. Stocked(Plain)'
    BY <1>1 DEF Unbuilt, Stocked
  <2>2. DOMAIN Copies = Callers
    BY DEF Copies
  <2>3. \A d \in Callers : Copies'[d] # None => Copies'[d] \in PlainKV
    BY <1>1, <2>2 DEF Unbuilt
  <2> QED BY <2>1, <2>3 DEF Unbuilt
<1> QED BY <1>1, <1>2 DEF Interface!SNext

LEMMA InvalidateNext ==
  ASSUME CacheInv, Unbuilt, NEW m \in Managers, Invalidate(m)
  PROVE  CacheInv' /\ Unbuilt' /\ Interface!SNext
<1>1. CacheInv' /\ Interface!Clear(m) /\ now' = now
  BY InvalidateStep
<1>2. Snaps' = [Snaps EXCEPT ![m] = [p \in {} |-> Snaps[m][p]]] /\ Copies' = Copies
  BY <1>1 DEF Interface!Clear, Interface!KeepsOnly
<1>3. Stocked(Plain)'
  <2> DEFINE kept == {}
  <2>1. kept \in SUBSET DOMAIN Snaps[m] /\ Snaps' = [Snaps EXCEPT ![m] = [p \in kept |-> Snaps[m][p]]]
    BY <1>2
  <2> HIDE DEF kept
  <2> QED BY <2>1, KeepsOnlyStock DEF Unbuilt
<1>4. Unbuilt'
  BY <1>2, <1>3 DEF Unbuilt
<1> QED BY <1>1, <1>4 DEF Interface!SNext

LEMMA RestartNext ==
  ASSUME Interface!Restart, now' = now
  PROVE  Unbuilt' /\ Interface!SNext
<1>1. Snaps' = [m \in Managers |-> << >>] /\ Copies' = [c \in Callers |-> None]
  BY DEF Interface!Restart
<1>2. Unbuilt'
  <2>1. \A m \in Managers : DOMAIN Snaps'[m] = {}
    BY <1>1
  <2>2. \A c \in Callers : Copies'[c] = None
    BY <1>1
  <2> QED BY <2>1, <2>2 DEF Unbuilt, Stocked
<1> QED BY <1>2 DEF Interface!SNext

(***************************************************************************)
(* A step of the callers that leaves the managers and the buffers alone.   *)
(***************************************************************************)
LEMMA SameCache ==
  ASSUME CacheInv, UNCHANGED vars
  PROVE  CacheInv' /\ Snaps' = Snaps /\ Copies' = Copies /\ now' = now
<1>1. mgr' = mgr /\ cell' = cell /\ held' = held /\ orphans' = orphans /\ now' = now
  BY DEF vars
<1>2. Snaps' = Snaps /\ Copies' = Copies
  BY <1>1 DEF Snaps, Copies, Stored
<1>3. TypeOK'
  BY <1>1 DEF CacheInv, TypeOK
<1>4. \A m \in Managers : (Sound(m, mgr[m], orphans[m]) /\ Within(m, mgr[m])
                           /\ Snapshots(m, mgr[m], cell))'
  BY <1>1 DEF CacheInv, Sound, Orders, Weights, Within, Snapshots
<1>5. Holding(cell, held)'
  BY <1>1 DEF CacheInv, Holding
<1>6. Disowned'
  BY <1>1 DEF CacheInv, Disowned, Owned
<1> QED BY <1>1, <1>2, <1>3, <1>4, <1>5, <1>6 DEF CacheInv

LEMMA CacheNext ==
  ASSUME CacheInv, Unbuilt, [Next]_vars
  PROVE  CacheInv' /\ Unbuilt' /\ [Interface!SNext]_<<Snaps, Copies, now>>
<1>1. CASE UNCHANGED vars
  <2>1. CacheInv' /\ Snaps' = Snaps /\ Copies' = Copies /\ now' = now
    BY <1>1, SameCache
  <2>2. Unbuilt'
    BY <2>1 DEF Unbuilt, Stocked
  <2> QED BY <2>1, <2>2
<1>2. ASSUME NEW c \in Callers, NEW m \in Managers, NEW p \in Prompts, Lookup(c, m, p)
      PROVE  CacheInv' /\ Unbuilt' /\ Interface!SNext
  BY <1>2, LookupNext
<1>3. ASSUME NEW c \in Callers, NEW m \in Managers, Store(c, m)
      PROVE  CacheInv' /\ Unbuilt' /\ Interface!SNext
  BY <1>3, StoreNext
<1>4. ASSUME NEW c \in Callers, NEW m \in Managers, CrashInStore(c, m)
      PROVE  CacheInv' /\ Unbuilt' /\ Interface!SNext
  BY <1>4, CrashStep, RestartNext
<1>5. ASSUME NEW m \in Managers, Invalidate(m)
      PROVE  CacheInv' /\ Unbuilt' /\ Interface!SNext
  BY <1>5, InvalidateNext
<1>6. ASSUME NEW c \in Callers, Prefill(c)
      PROVE  CacheInv' /\ Unbuilt' /\ Interface!SNext
  <2>1. PICK kv : Works(c, kv) /\ ~kv.stripped
    BY <1>6, PrefillWorks
  <2>2. kv \in PlainKV
    BY <2>1 DEF Works, PlainKV
  <2> QED BY <2>1, <2>2, WorksNext
<1>7. ASSUME NEW c \in Callers, Forward(c)
      PROVE  CacheInv' /\ Unbuilt' /\ Interface!SNext
  <2>1. PICK kv : Works(c, kv) /\ kv.raw = Copies[c].raw /\ kv.stripped = Copies[c].stripped
                  /\ Copies[c] # None
    BY <1>7, ForwardWorks
  <2>2. kv \in PlainKV
    BY <2>1 DEF Works, Unbuilt, PlainKV
  <2> QED BY <2>1, <2>2, WorksNext
<1>8. CASE Tick
  <2>1. CacheInv' /\ Snaps' = Snaps /\ Copies' = Copies /\ now' = now + 1
    BY <1>8, TickStep
  <2>2. Unbuilt'
    BY <2>1 DEF Unbuilt, Stocked
  <2> QED BY <2>1, <2>2 DEF Interface!SNext
<1>9. CASE Restart
  <2>1. \A m \in Managers : Left(mgr[m])
    <3> SUFFICES ASSUME NEW m \in Managers PROVE Left(mgr[m])
      OBVIOUS
    <3>1. Sound(m, mgr[m], orphans[m])
      BY DEF CacheInv
    <3> QED BY <3>1, FilesOf
  <2>2. RestartWith(mgr)
    BY <1>9 DEF Restart
  <2>3. CacheInv' /\ Interface!Restart /\ now' = now
    BY <2>1, <2>2, RestartStep
  <2> QED BY <2>3, RestartNext
<1> QED BY <1>1, <1>2, <1>3, <1>4, <1>5, <1>6, <1>7, <1>8, <1>9 DEF Next

LEMMA CacheStart ==
  ASSUME Init
  PROVE  CacheInv /\ Unbuilt /\ Interface!SInit
<1>1. /\ mgr = [m \in Managers |-> Empty] /\ cell = [r \in Cells |-> None]
      /\ held = [c \in Callers |-> None] /\ orphans = [m \in Managers |-> {}] /\ now = 0
  BY DEF Init
<1>2. ASSUME NEW m \in Managers
      PROVE  /\ mgr[m] \in State /\ DOMAIN mgr[m].entries = {} /\ orphans[m] = {}
             /\ Sound(m, mgr[m], orphans[m]) /\ Within(m, mgr[m])
             /\ Snapshots(m, mgr[m], cell)
  <2> DEFINE f == << >>
             G == {}
             x == {}
             t == Emptied(f, x)
  <2>1. /\ G \in SUBSET Prompts /\ f \in [G -> KV] /\ G \subseteq {} /\ x \in SUBSET Prompts
        /\ \A p \in G : f[p].tokens = p
    OBVIOUS
  <2>2. t = Empty /\ mgr[m] = t /\ orphans[m] = {}
    BY <1>1 DEF Empty
  <2>3. DOMAIN t.entries = {}
    BY DEF Emptied
  <2> HIDE DEF f, G, x
  <2>4. Sound(m, t, {}) /\ Within(m, t) /\ Snapshots(m, t, cell)
    BY <2>1, FilesSound
  <2> HIDE DEF t
  <2> QED BY <2>2, <2>3, <2>4 DEF Sound
<1>3. TypeOK
  <2>1. mgr \in [Managers -> State]
    BY <1>1, <1>2
  <2>2. 0 \in 0..MaxClock
    BY CacheConstants
  <2> QED BY <1>1, <2>1, <2>2 DEF TypeOK
<1>4. Holding(cell, held)
  BY <1>1, CacheConstants DEF Holding
<1>5. CacheInv
  BY <1>2, <1>3, <1>4 DEF CacheInv, Disowned
<1>6. Snaps = [m \in Managers |-> << >>] /\ Copies = [c \in Callers |-> None]
  <2>1. Snaps = [m \in Managers |-> SnapsIn(mgr[m], cell)]
    BY <1>5, Mapping
  <2>2. \A m \in Managers : SnapsIn(mgr[m], cell) = << >>
    BY <1>2 DEF SnapsIn
  <2> QED BY <1>1, <2>1, <2>2 DEF Copies
<1>7. Unbuilt
  <2>1. \A m \in Managers : DOMAIN Snaps[m] = {}
    BY <1>6
  <2>2. \A c \in Callers : Copies[c] = None
    BY <1>6
  <2> QED BY <2>1, <2>2 DEF Unbuilt, Stocked
<1> QED BY <1>1, <1>5, <1>6, <1>7 DEF Interface!SInit

(***************************************************************************)
(* The invariant implies the properties that the runs check.               *)
(***************************************************************************)
LEMMA LimitsHold ==
  ASSUME CacheInv
  PROVE  WithinLimits
<1>1. ASSUME NEW m \in Managers
      PROVE  /\ mgr[m] \in State /\ Orders(mgr[m]) /\ Within(m, mgr[m])
             /\ mgr[m].bytes = Summed(mgr[m]) /\ DOMAIN mgr[m].order = 1..Len(mgr[m].order)
  <2> DEFINE s == mgr[m]
  <2>1. s \in State /\ Orders(s) /\ Within(m, s) /\ s.bytes = Total(Weighed(Weights(s), s.order))
    BY DEF CacheInv, Sound
  <2> HIDE DEF s
  <2>2. s.bytes = Summed(s)
    BY <2>1, ListTotal
  <2>3. DOMAIN s.order = 1..Len(s.order)
    BY <2>1, WeightsType
  <2> QED BY <2>1, <2>2, <2>3 DEF s
<1>2. OrderTracksEntries
  <2> SUFFICES ASSUME NEW m \in Managers
               PROVE  /\ {mgr[m].order[i] : i \in DOMAIN mgr[m].order} = DOMAIN mgr[m].entries
                      /\ \A i, j \in DOMAIN mgr[m].order :
                           mgr[m].order[i] = mgr[m].order[j] => i = j
    BY DEF OrderTracksEntries
  <2> DEFINE s == mgr[m]
  <2>1. Orders(s) /\ DOMAIN s.order = 1..Len(s.order)
    BY <1>1
  <2> HIDE DEF s
  <2>2. {s.order[i] : i \in DOMAIN s.order} = DOMAIN s.entries
    <3> DEFINE o == s.order
               E == DOMAIN s.entries
               I == DOMAIN s.order
    <3>1. (\A i \in I : o[i] \in E) /\ (\A p \in E : \E i \in I : o[i] = p)
      BY <2>1 DEF Orders
    <3> HIDE DEF o, E, I
    <3>2. {o[i] : i \in I} = E
      BY <3>1
    <3> QED BY <3>2 DEF o, E, I
  <2> QED BY <2>1, <2>2 DEF Orders, s
<1>3. ASSUME NEW m \in Managers
      PROVE  LET entries == mgr[m].entries
                 bytes == FoldFunction(+, 0, [p \in DOMAIN entries |-> entries[p].size])
             IN  /\ MaxEntries[m] = 0 \/ Cardinality(DOMAIN entries) <= MaxEntries[m]
                 /\ MaxBytes[m] = 0 \/ bytes <= MaxBytes[m]
                 /\ mgr[m].bytes = bytes
  <2> DEFINE bytes == FoldFunction(+, 0, [p \in DOMAIN mgr[m].entries |-> mgr[m].entries[p].size])
  <2>1. mgr[m].bytes = bytes
    BY <1>1 DEF Summed, Weights
  <2> HIDE DEF bytes
  <2>2. /\ MaxEntries[m] = 0 \/ Cardinality(DOMAIN mgr[m].entries) <= MaxEntries[m]
        /\ MaxBytes[m] = 0 \/ bytes <= MaxBytes[m]
    BY <1>1, <2>1 DEF Within
  <2> QED BY <2>1, <2>2 DEF bytes
<1> QED BY <1>2, <1>3, Zenon DEF WithinLimits

LEMMA FilesHold ==
  ASSUME CacheInv
  PROVE  FilesAccounted
<1> SUFFICES ASSUME NEW m \in Managers
             PROVE  /\ Filed(m) \subseteq DOMAIN mgr[m].files
                    /\ DOMAIN mgr[m].files \subseteq Filed(m) \cup orphans[m]
                    /\ mgr[m].temps \cap Filed(m) = {}
  BY DEF FilesAccounted
<1>1. Sound(m, mgr[m], orphans[m])
  BY DEF CacheInv
<1> QED BY <1>1 DEF Sound, Filed

(***************************************************************************)
(* The byte count, the map, the list and the files of every manager stay   *)
(* in step, and what the callers hold is theirs.                           *)
(***************************************************************************)
THEOREM CacheInvariance == Spec => [](CacheInv /\ Unbuilt)
<1>1. Init => CacheInv /\ Unbuilt
  BY CacheStart
<1>2. CacheInv /\ Unbuilt /\ [Next]_vars => (CacheInv /\ Unbuilt)'
  BY CacheNext
<1> QED BY <1>1, <1>2, PTL DEF Spec

(***************************************************************************)
(* Store, Lookup and Invalidate keep the entries within both limits, and   *)
(* the byte count that evictLocked goes by is the sum of the sizes.        *)
(***************************************************************************)
THEOREM CacheWithinLimits == Spec => [](TypeOK /\ WithinLimits)
<1>1. CacheInv /\ Unbuilt => TypeOK /\ WithinLimits
  BY LimitsHold DEF CacheInv
<1> QED BY <1>1, CacheInvariance, PTL

(***************************************************************************)
(* A file-backed entry has its file, and a snapshot's file without an entry *)
(* was there when the process started.  A prompt kept as a file has no     *)
(* temporary file: only saves that failed or died leave one.               *)
(***************************************************************************)
THEOREM CacheFiles == Spec => []FilesAccounted
<1>1. CacheInv /\ Unbuilt => FilesAccounted
  BY FilesHold
<1> QED BY <1>1, CacheInvariance, PTL

(***************************************************************************)
(* A CacheManager implements the prefixCacheStore of engine.go: a hit is a *)
(* private copy of the longest live snapshot of a strict prefix.           *)
(***************************************************************************)
THEOREM CacheRefines == Spec => ImplementsPrefixStore
<1>1. Init => CacheInv /\ Unbuilt /\ Interface!SInit
  BY CacheStart
<1>2. CacheInv /\ Unbuilt /\ [Next]_vars
        => (CacheInv /\ Unbuilt)' /\ [Interface!SNext]_<<Snaps, Copies, now>>
  BY CacheNext
<1> QED BY <1>1, <1>2, PTL DEF Spec, ImplementsPrefixStore, Interface!SSpec

-----------------------------------------------------------------------------
(* PrefixReuse: what a request has at each stage of its prefill.           *)

\* A snapshot has its window rows or is known to lack them, and is exact if it
\* is short; one of the pool has the rows.
Quality ==
  [m \in Managers |->
     {kv \in KV : /\ kv.tokens \in Prompts
                  /\ kv.raw \/ kv.stripped
                  /\ Len(kv.tokens) <= Window + 1 => kv.exact
                  /\ m = Pool /\ Window > 0 => kv.raw}]

\* What may be forwarded to the prompt p, and what that leaves.
Extensible(p) ==
  {kv \in KV : /\ kv.tokens \in Prompts /\ IsStrictPrefix(kv.tokens, p)
               /\ kv.raw \/ kv.stripped
               /\ Window > 0 => kv.raw
               /\ Len(kv.tokens) <= Window => kv.exact}

Complete(p) ==
  {kv \in KV : /\ kv.tokens = p
               /\ kv.raw \/ kv.stripped
               /\ Window > 0 => kv.raw
               /\ Len(kv.tokens) <= Window + 1 => kv.exact}

AtStage(st, p, kv) ==
  /\ st \in Stages
  /\ st # "idle" => p \in Prompts
  /\ st \in {"idle", "pool", "main"} => kv = None
  /\ st = "replay" => kv \in Quality[Main] /\ IsStrictPrefix(kv.tokens, p)
  /\ st = "forward" => kv = None \/ kv \in Extensible(p)
  /\ st \in {"storeMain", "storePool", "decode"} => kv \in Complete(p)

ReuseInv ==
  /\ CacheInv
  /\ Stocked(Quality)
  /\ stage \in [Callers -> Stages]
  /\ prompt \in [Callers -> Prompts \cup {<< >>}]
  /\ \A c \in Callers : AtStage(stage[c], prompt[c], Copies[c])

(***************************************************************************)
(* The parts of the quality of a snapshot.                                 *)
(***************************************************************************)
LEMMA LengthType ==
  ASSUME NEW kv \in KV
  PROVE  Len(kv.tokens) \in Nat /\ kv.raw \in BOOLEAN /\ kv.stripped \in BOOLEAN
         /\ kv.exact \in BOOLEAN
<1>1. kv.tokens \in Prompts \cup {<< >>} /\ kv.raw \in BOOLEAN /\ kv.stripped \in BOOLEAN
      /\ kv.exact \in BOOLEAN
  BY DEF KV
<1>2. kv.tokens \in Seq(Nat)
  <2>1. CASE kv.tokens \in Prompts
    BY <2>1, CacheConstants
  <2>2. CASE kv.tokens = << >>
    BY <2>2
  <2> QED BY <1>1, <2>1, <2>2
<1> QED BY <1>1, <1>2

LEMMA MainQuality ==
  ASSUME NEW p \in Prompts, NEW kv \in Complete(p)
  PROVE  /\ SnapshotOf(Main, kv) \in Quality[Main]
         /\ Marshalled(SnapshotOf(Main, kv)) \in Quality[Main]
<1>1. /\ kv \in KV /\ kv.tokens = p
      /\ kv.raw \/ kv.stripped
      /\ Len(p) <= Window + 1 => kv.exact
  BY DEF Complete
<1>2. Main \in Managers /\ Main # Pool
  BY ReuseConstants
<1>3. ASSUME NEW x \in KV, x.raw \/ x.stripped, x.tokens = p, x.exact = kv.exact
      PROVE  x \in Quality[Main]
  BY <1>1, <1>2, <1>3 DEF Quality
<1>4. SnapshotOf(Main, kv) \in KV /\ Marshalled(SnapshotOf(Main, kv)) \in KV
      /\ SnapshotOf(Main, kv).tokens = p /\ Marshalled(SnapshotOf(Main, kv)).tokens = p
  <2> DEFINE s == SnapshotOf(Main, kv)
  <2>1. s \in KV /\ s.tokens = p
    BY <1>1, SnapshotType
  <2> HIDE DEF s
  <2>2. Marshalled(s) \in KV /\ Marshalled(s).tokens = p
    BY <2>1, SnapshotType
  <2> QED BY <2>1, <2>2 DEF s
<1>5. /\ SnapshotOf(Main, kv).raw \/ SnapshotOf(Main, kv).stripped
      /\ SnapshotOf(Main, kv).exact = kv.exact
  BY <1>1 DEF SnapshotOf, Stripped, KV
<1>6. ASSUME NEW x \in KV, x.raw \/ x.stripped
      PROVE  /\ Marshalled(x).raw \/ Marshalled(x).stripped
             /\ Marshalled(x).exact = x.exact
  BY <1>6 DEF Marshalled, KV
<1> QED BY <1>3, <1>4, <1>5, <1>6

LEMMA PoolQuality ==
  ASSUME NEW p \in Prompts, NEW kv \in Complete(p)
  PROVE  SnapshotOf(Pool, kv) = kv /\ kv \in Quality[Pool]
<1>1. Pool \notin StripSWA /\ Pool \in Managers
  BY ReuseConstants
<1> QED BY <1>1 DEF SnapshotOf, Complete, Quality

(***************************************************************************)
(* Replay and the forward pass.                                            *)
(***************************************************************************)
LEMMA ReplayExtends ==
  ASSUME NEW p \in Prompts, NEW kv \in Quality[Main], IsStrictPrefix(kv.tokens, p)
  PROVE  (IF kv.stripped /\ Window > 0 THEN Replayed(kv) ELSE kv) \in Extensible(p)
<1>1. /\ kv \in KV /\ kv.tokens \in Prompts
      /\ kv.raw \/ kv.stripped
      /\ Len(kv.tokens) <= Window + 1 => kv.exact
      /\ Window \in Nat
  BY ReuseConstants DEF Quality
<1>2. Len(kv.tokens) \in Nat /\ kv.raw \in BOOLEAN /\ kv.exact \in BOOLEAN
  BY <1>1, LengthType
<1>3. CASE kv.stripped /\ Window > 0
  <2> DEFINE x == kv.exact /\ Len(kv.tokens) - Window - 1 < 0
             new == Replayed(kv)
  <2>1. new = [kv EXCEPT !.raw = TRUE, !.exact = x] /\ x \in BOOLEAN
    BY DEF Replayed
  <2>2. Len(kv.tokens) <= Window => x
    BY <1>1, <1>2
  <2> HIDE DEF x, new
  <2>3. new \in KV /\ new.raw = TRUE /\ new.exact = x /\ new.tokens = kv.tokens
    BY <1>1, <2>1 DEF KV
  <2>4. new \in Extensible(p)
    BY <1>1, <2>2, <2>3 DEF Extensible
  <2> QED BY <1>3, <2>4 DEF new
<1>4. CASE ~(kv.stripped /\ Window > 0)
  <2>1. Window > 0 => kv.raw
    BY <1>1, <1>4
  <2>2. Len(kv.tokens) <= Window => kv.exact
    BY <1>1, <1>2
  <2> QED BY <1>1, <1>4, <2>1, <2>2 DEF Extensible
<1> QED BY <1>3, <1>4

LEMMA ForwardCompletes ==
  ASSUME NEW p \in Prompts, NEW kv \in Extensible(p)
  PROVE  Forwarded(kv, SubSeq(p, Len(kv.tokens) + 1, Len(p))) \in Complete(p)
<1> DEFINE new == Forwarded(kv, SubSeq(p, Len(kv.tokens) + 1, Len(p)))
<1>1. /\ kv \in KV /\ IsStrictPrefix(kv.tokens, p) /\ kv.tokens \in Prompts
      /\ kv.raw \/ kv.stripped
      /\ Window > 0 => kv.raw
      /\ Len(kv.tokens) <= Window => kv.exact
      /\ Window \in Nat
  BY ReuseConstants DEF Extensible
<1>2. kv.tokens \in Seq(Nat) /\ p \in Seq(Nat) /\ p # << >>
  BY <1>1, CacheConstants DEF KV
<1>3. kv.tokens \o SubSeq(p, Len(kv.tokens) + 1, Len(p)) = p
  BY <1>1, <1>2, PrefixRest
<1>4. /\ new \in KV /\ new.tokens = p
      /\ new.raw = kv.raw /\ new.stripped = kv.stripped
      /\ new.exact = (kv.exact /\ kv.raw)
  <2>1. new = [kv EXCEPT !.tokens = p, !.exact = kv.exact /\ kv.raw]
    BY <1>3 DEF Forwarded
  <2>2. (kv.exact /\ kv.raw) \in BOOLEAN
    BY <1>1, LengthType
  <2> HIDE DEF new
  <2> QED BY <1>1, <2>1, <2>2 DEF KV
<1> HIDE DEF new
<1>5. Len(kv.tokens) < Len(p) /\ Len(kv.tokens) \in Nat /\ Len(p) \in Nat
  <2>1. Len(kv.tokens) <= Len(p) /\ kv.tokens # p
        /\ SubSeq(kv.tokens, 1, Len(kv.tokens)) = SubSeq(p, 1, Len(kv.tokens))
    BY <1>1 DEF IsStrictPrefix, IsPrefix
  <2> DEFINE a == kv.tokens
  <2>2. a \in Seq(Nat) /\ SubSeq(a, 1, Len(a)) = a /\ SubSeq(p, 1, Len(p)) = p
    BY <1>2, SubSeqFull
  <2>3. Len(a) \in Nat /\ Len(p) \in Nat
    BY <1>2
  <2>4. Len(a) # Len(p)
    BY <2>1, <2>2
  <2> QED BY <2>1, <2>3, <2>4
<1>6. Len(p) <= Window + 1 => kv.exact /\ kv.raw
  <2> SUFFICES ASSUME Len(p) <= Window + 1 PROVE kv.exact /\ kv.raw
    OBVIOUS
  <2>1. Len(kv.tokens) <= Window
    BY <1>1, <1>5
  <2>2. Len(kv.tokens) > 0
    <3>1. kv.tokens # << >>
      BY <1>1, CacheConstants
    <3> QED BY <1>2, <1>5, <3>1
  <2> QED BY <1>1, <1>5, <2>1, <2>2
<1>7. new \in Complete(p)
  BY <1>1, <1>4, <1>6 DEF Complete
<1> QED BY <1>7 DEF new

LEMMA PoolExtends ==
  ASSUME NEW p \in Prompts, NEW kv \in Quality[Pool], IsStrictPrefix(kv.tokens, p)
  PROVE  kv \in Extensible(p)
<1>1. Pool \in Managers /\ Window \in Nat
  BY ReuseConstants
<1>2. /\ kv \in KV /\ kv.tokens \in Prompts
      /\ kv.raw \/ kv.stripped
      /\ Len(kv.tokens) <= Window + 1 => kv.exact
      /\ Window > 0 => kv.raw
  BY <1>1 DEF Quality
<1>3. Len(kv.tokens) \in Nat
  BY <1>2, LengthType
<1> QED BY <1>1, <1>2, <1>3 DEF Extensible

(***************************************************************************)
(* A request that moves on keeps the invariant of every other request.     *)
(***************************************************************************)
LEMMA MovesOn ==
  ASSUME ReuseInv, CacheInv', Stocked(Quality)', NEW c \in Callers, NEW st \in Stages,
         NEW p \in Prompts \cup {<< >>},
         stage' = [stage EXCEPT ![c] = st], prompt' = [prompt EXCEPT ![c] = p],
         \A d \in Callers \ {c} : Copies'[d] = Copies[d],
         AtStage(st, p, Copies'[c])
  PROVE  ReuseInv'
<1>1. /\ stage \in [Callers -> Stages]
      /\ prompt \in [Callers -> Prompts \cup {<< >>}]
      /\ \A d \in Callers : AtStage(stage[d], prompt[d], Copies[d])
  BY DEF ReuseInv
<1>2. stage' \in [Callers -> Stages] /\ prompt' \in [Callers -> Prompts \cup {<< >>}]
  BY <1>1
<1>3. ASSUME NEW d \in Callers
      PROVE  AtStage(stage'[d], prompt'[d], Copies'[d])
  <2>1. CASE d = c
    <3>1. stage'[d] = st /\ prompt'[d] = p
      BY <1>1, <2>1
    <3> QED BY <2>1, <3>1
  <2>2. CASE d # c
    <3>1. stage'[d] = stage[d] /\ prompt'[d] = prompt[d] /\ Copies'[d] = Copies[d]
      BY <1>1, <2>2
    <3> QED BY <1>1, <3>1
  <2> QED BY <2>1, <2>2
<1> QED BY <1>2, <1>3 DEF ReuseInv

\* The same for an action that keeps the prompt.
LEMMA GoesOn ==
  ASSUME ReuseInv, CacheInv', Stocked(Quality)', NEW c \in Callers, NEW st \in Stages,
         GoTo(c, st), prompt' = prompt,
         \A d \in Callers \ {c} : Copies'[d] = Copies[d],
         AtStage(st, prompt[c], Copies'[c])
  PROVE  ReuseInv'
<1> DEFINE p == prompt[c]
<1>1. p \in Prompts \cup {<< >>} /\ prompt' = [prompt EXCEPT ![c] = p]
  BY DEF ReuseInv
<1>2. stage' = [stage EXCEPT ![c] = st] /\ AtStage(st, p, Copies'[c])
  BY DEF GoTo
<1> HIDE DEF p
<1> QED BY <1>1, <1>2, MovesOn

(***************************************************************************)
(* What a request holds is its own buffer.                                 *)
(***************************************************************************)
LEMMA HeldIs ==
  ASSUME CacheInv, NEW c \in Callers
  PROVE  /\ held[c] = None <=> Copies[c] = None
         /\ held[c] # None => held[c] = c /\ cell[c] = Copies[c] /\ Copies[c] \in KV
         /\ Copies[c] \in KV => held[c] # None
<1>1. None \notin KV /\ c # None
  BY CacheConstants
<1> QED BY <1>1 DEF CacheInv, Holding, Copies

LEMMA HeldNext ==
  ASSUME CacheInv', NEW c \in Callers
  PROVE  held'[c] = None <=> Copies'[c] = None
<1>1. None \notin KV /\ c # None
  BY CacheConstants
<1> QED BY <1>1 DEF CacheInv, Holding, Copies

\* What a lookup of a request's prompt in m leaves with the request.
LEMMA AskStep ==
  ASSUME ReuseInv, NEW c \in Callers, NEW m \in Managers, NEW p \in Prompts,
         Lookup(c, m, p)
  PROVE  /\ CacheInv' /\ Stocked(Quality)'
         /\ \A d \in Callers \ {c} : Copies'[d] = Copies[d]
         /\ \/ Copies'[c] = None
            \/ Copies'[c] \in Quality[m] /\ IsStrictPrefix(Copies'[c].tokens, p)
         /\ held'[c] = None <=> Copies'[c] = None
<1>1. CacheInv' /\ (Interface!Hit(c, m, p) \/ Interface!Miss(c, m, p))
  BY LookupStep DEF ReuseInv
<1>2. Stocked(Quality)' /\ Served(c, m, p)
  BY <1>1, LookupStock DEF ReuseInv
<1>3. held'[c] = None <=> Copies'[c] = None
  BY <1>1, HeldNext
<1>4. ASSUME NEW q \in DOMAIN Snaps[m]
      PROVE  Snaps[m][q].kv \in Quality[m] /\ Snaps[m][q].kv.tokens = q
  BY StoredIs DEF ReuseInv, Stocked
<1> QED BY <1>1, <1>2, <1>3, <1>4 DEF Served

(***************************************************************************)
(* The actions of a request.                                               *)
(***************************************************************************)
LEMMA RequestNext ==
  ASSUME ReuseInv, NEW c \in Callers, Request(c)
  PROVE  ReuseInv'
<1>1. PICK p \in Prompts : prompt' = [prompt EXCEPT ![c] = p]
  BY DEF Request
<1>2. stage[c] = "idle" /\ stage' = [stage EXCEPT ![c] = "pool"] /\ UNCHANGED vars
  BY DEF Request, GoTo
<1>3. CacheInv' /\ Snaps' = Snaps /\ Copies' = Copies
  BY <1>2, SameCache DEF ReuseInv
<1>4. Stocked(Quality)'
  BY <1>3 DEF ReuseInv, Stocked
<1>5. AtStage("pool", p, Copies'[c])
  BY <1>2, <1>3 DEF ReuseInv, AtStage, Stages
<1>6. "pool" \in Stages
  BY DEF Stages
<1> QED BY <1>1, <1>2, <1>3, <1>4, <1>5, <1>6, MovesOn

LEMMA AskPoolNext ==
  ASSUME ReuseInv, NEW c \in Callers, AskPool(c)
  PROVE  ReuseInv'
<1> DEFINE p == prompt[c]
           st == IF held'[c] = None THEN "main" ELSE "forward"
<1>1. stage[c] = "pool" /\ prompt' = prompt /\ Lookup(c, Pool, p) /\ GoTo(c, st)
  BY DEF AskPool, At
<1>2. p \in Prompts /\ Pool \in Managers
  BY <1>1, ReuseConstants DEF ReuseInv, AtStage
<1> HIDE DEF p
<1>3. /\ CacheInv' /\ Stocked(Quality)'
      /\ \A d \in Callers \ {c} : Copies'[d] = Copies[d]
      /\ \/ Copies'[c] = None
         \/ Copies'[c] \in Quality[Pool] /\ IsStrictPrefix(Copies'[c].tokens, p)
      /\ held'[c] = None <=> Copies'[c] = None
  BY <1>1, <1>2, AskStep
<1>4. AtStage(st, p, Copies'[c])
  <2>1. CASE Copies'[c] = None
    BY <1>2, <1>3, <2>1 DEF AtStage, Stages
  <2>2. CASE Copies'[c] # None
    <3>1. Copies'[c] \in Extensible(p)
      BY <1>2, <1>3, <2>2, PoolExtends
    <3> QED BY <1>2, <1>3, <2>2, <3>1 DEF AtStage, Stages
  <2> QED BY <2>1, <2>2
<1>5. st \in Stages
  BY DEF Stages
<1> HIDE DEF st
<1> QED BY <1>1, <1>3, <1>4, <1>5, GoesOn DEF p

LEMMA AskMainNext ==
  ASSUME ReuseInv, NEW c \in Callers, AskMain(c)
  PROVE  ReuseInv'
<1> DEFINE p == prompt[c]
           st == IF held'[c] = None THEN "forward" ELSE "replay"
<1>1. stage[c] = "main" /\ prompt' = prompt /\ Lookup(c, Main, p) /\ GoTo(c, st)
  BY DEF AskMain, At
<1>2. p \in Prompts /\ Main \in Managers
  BY <1>1, ReuseConstants DEF ReuseInv, AtStage
<1> HIDE DEF p
<1>3. /\ CacheInv' /\ Stocked(Quality)'
      /\ \A d \in Callers \ {c} : Copies'[d] = Copies[d]
      /\ \/ Copies'[c] = None
         \/ Copies'[c] \in Quality[Main] /\ IsStrictPrefix(Copies'[c].tokens, p)
      /\ held'[c] = None <=> Copies'[c] = None
  BY <1>1, <1>2, AskStep
<1>4. AtStage(st, p, Copies'[c])
  <2>1. CASE Copies'[c] = None
    BY <1>2, <1>3, <2>1 DEF AtStage, Stages
  <2>2. CASE Copies'[c] # None
    BY <1>2, <1>3, <2>2 DEF AtStage, Stages
  <2> QED BY <2>1, <2>2
<1>5. st \in Stages
  BY DEF Stages
<1> HIDE DEF st
<1> QED BY <1>1, <1>3, <1>4, <1>5, GoesOn DEF p

\* A request that works on its buffer alone.
LEMMA WorksOn ==
  ASSUME ReuseInv, NEW c \in Callers, NEW kv, Works(c, kv), NEW st \in Stages,
         GoTo(c, st), prompt' = prompt, AtStage(st, prompt[c], kv)
  PROVE  ReuseInv'
<1>1. CacheInv' /\ Snaps' = Snaps /\ Copies' = [Copies EXCEPT ![c] = kv]
  BY WorksStep DEF ReuseInv
<1>2. Stocked(Quality)'
  BY <1>1 DEF ReuseInv, Stocked
<1>3. DOMAIN Copies = Callers
  BY DEF Copies
<1>4. Copies'[c] = kv /\ \A d \in Callers \ {c} : Copies'[d] = Copies[d]
  BY <1>1, <1>3
<1> QED BY <1>1, <1>2, <1>4, GoesOn

LEMMA ReplayNext ==
  ASSUME ReuseInv, NEW c \in Callers, Replay(c)
  PROVE  ReuseInv'
<1> DEFINE old == cell[c]
           new == IF old.stripped /\ Window > 0 THEN Replayed(old) ELSE old
           p == prompt[c]
<1>1. stage[c] = "replay" /\ prompt' = prompt /\ GoTo(c, "forward")
  BY DEF Replay, At
<1>2. p \in Prompts /\ Copies[c] \in Quality[Main] /\ IsStrictPrefix(Copies[c].tokens, p)
  BY <1>1 DEF ReuseInv, AtStage
<1>3. Copies[c] \in KV
  BY <1>2, ReuseConstants DEF Quality
<1>4. held[c] = c /\ old = Copies[c]
  BY <1>3, HeldIs DEF ReuseInv
<1>5. cell' = [cell EXCEPT ![c] = new] /\ UNCHANGED <<mgr, held, orphans, now>>
  BY <1>4 DEF Replay
<1>6. new \in Extensible(p)
  BY <1>2, <1>4, ReplayExtends
<1> HIDE DEF new
<1>7. held' = [held EXCEPT ![c] = c]
  BY <1>4, <1>5 DEF ReuseInv, CacheInv, TypeOK
<1>8. Works(c, new)
  BY <1>5, <1>6, <1>7 DEF Works, Extensible
<1>9. AtStage("forward", p, new) /\ "forward" \in Stages
  BY <1>2, <1>6 DEF AtStage, Stages
<1> QED BY <1>1, <1>8, <1>9, WorksOn

LEMMA ForwardNext ==
  ASSUME ReuseInv, NEW c \in Callers, ForwardPrompt(c)
  PROVE  ReuseInv'
<1> DEFINE p == prompt[c]
<1>1. stage[c] = "forward" /\ prompt' = prompt /\ GoTo(c, "storeMain")
      /\ UNCHANGED <<mgr, orphans, now>>
  BY DEF ForwardPrompt, At
<1>2. p \in Prompts /\ (Copies[c] = None \/ Copies[c] \in Extensible(p))
  BY <1>1 DEF ReuseInv, AtStage
<1>3. ASSUME NEW kv \in Complete(p), cell' = [cell EXCEPT ![c] = kv],
             held' = [held EXCEPT ![c] = c]
      PROVE  ReuseInv'
  <2>1. Works(c, kv)
    BY <1>1, <1>2, <1>3 DEF Works, Complete
  <2>2. AtStage("storeMain", p, kv) /\ "storeMain" \in Stages
    BY <1>2 DEF AtStage, Stages
  <2> QED BY <1>1, <2>1, <2>2, WorksOn
<1>4. CASE held[c] = None
  <2>1. PICK size \in Sizes :
          cell' = [cell EXCEPT ![c] = [tokens |-> p, size |-> size, raw |-> TRUE,
                                       stripped |-> FALSE, exact |-> TRUE]]
    BY <1>4 DEF ForwardPrompt
  <2> DEFINE kv == [tokens |-> p, size |-> size, raw |-> TRUE, stripped |-> FALSE,
                    exact |-> TRUE]
  <2>2. held' = [held EXCEPT ![c] = c] /\ cell' = [cell EXCEPT ![c] = kv]
    BY <1>4, <2>1 DEF ForwardPrompt
  <2>3. kv \in Complete(p)
    BY <1>2 DEF Complete, KV
  <2> HIDE DEF kv
  <2> QED BY <1>3, <2>2, <2>3
<1>5. CASE held[c] # None
  <2> DEFINE old == cell[c]
             kv == Forwarded(old, SubSeq(p, Len(old.tokens) + 1, Len(p)))
  <2>1. held[c] = c /\ old = Copies[c] /\ old \in Extensible(p)
    BY <1>2, <1>5, HeldIs DEF ReuseInv
  <2>2. cell' = [cell EXCEPT ![c] = kv] /\ held' = held
    BY <1>5, <2>1 DEF ForwardPrompt, ReuseInv, CacheInv, TypeOK
  <2>3. held' = [held EXCEPT ![c] = c]
    BY <2>1, <2>2 DEF ReuseInv, CacheInv, TypeOK
  <2>4. kv \in Complete(p)
    BY <1>2, <2>1, ForwardCompletes
  <2> HIDE DEF kv
  <2> QED BY <1>3, <2>2, <2>3, <2>4
<1> QED BY <1>4, <1>5

LEMMA StoreMainNext ==
  ASSUME ReuseInv, NEW c \in Callers, StoreMain(c)
  PROVE  ReuseInv'
<1> DEFINE p == prompt[c]
           kv == Copies[c]
<1>1. /\ stage[c] = "storeMain" /\ prompt' = prompt /\ GoTo(c, "storePool")
      /\ StoreMemory(c, Main, p) \/ StoreFile(c, Main, p)
  BY DEF StoreMain, At
<1>2. p \in Prompts /\ kv \in Complete(p) /\ Main \in Managers
  BY <1>1, ReuseConstants DEF ReuseInv, AtStage
<1>3. kv \in KV /\ kv.tokens = p
  BY <1>2 DEF Complete
<1>4. held[c] # None /\ cell[held[c]].tokens = p
  BY <1>3, HeldIs DEF ReuseInv
<1>5. \E snapshot \in Quality[Main] : CacheInv' /\ Stores(Main, p, snapshot)
  <2>1. /\ SnapshotOf(Main, kv) \in Quality[Main]
        /\ Marshalled(SnapshotOf(Main, kv)) \in Quality[Main]
    BY <1>2, MainQuality
  <2>2. CASE StoreMemory(c, Main, p)
    <3>1. CacheInv' /\ Stores(Main, kv.tokens, SnapshotOf(Main, kv))
      BY <1>2, <1>4, <2>2, MemoryStep DEF ReuseInv
    <3> QED BY <1>3, <2>1, <3>1
  <2>3. CASE StoreFile(c, Main, p)
    <3>1. CacheInv' /\ Stores(Main, kv.tokens, Marshalled(SnapshotOf(Main, kv)))
      BY <1>2, <1>4, <2>3, FileStep DEF ReuseInv
    <3> QED BY <1>3, <2>1, <3>1
  <2> QED BY <1>1, <2>2, <2>3
<1>6. CacheInv' /\ Stocked(Quality)' /\ Copies' = Copies
  <2>1. PICK snapshot \in Quality[Main] : CacheInv' /\ Stores(Main, p, snapshot)
    BY <1>5
  <2>2. Stocked(Quality)
    BY DEF ReuseInv
  <2>3. Stocked(Quality)'
    BY <1>2, <2>1, <2>2, StoreStock
  <2> QED BY <2>1, <2>3 DEF Stores
<1>7. AtStage("storePool", p, Copies'[c]) /\ "storePool" \in Stages
  BY <1>2, <1>6 DEF AtStage, Stages
<1> QED BY <1>1, <1>6, <1>7, GoesOn

LEMMA StorePoolNext ==
  ASSUME ReuseInv, NEW c \in Callers, StorePool(c)
  PROVE  ReuseInv'
<1> DEFINE p == prompt[c]
           kv == Copies[c]
<1>1. /\ stage[c] = "storePool" /\ prompt' = prompt /\ GoTo(c, "decode")
      /\ StoreMemory(c, Pool, p) \/ StoreFile(c, Pool, p)
  BY DEF StorePool, At
<1>2. p \in Prompts /\ kv \in Complete(p) /\ Pool \in Managers /\ Pool \notin OnDisk
  BY <1>1, ReuseConstants DEF ReuseInv, AtStage
<1>3. kv \in KV /\ kv.tokens = p
  BY <1>2 DEF Complete
<1>4. held[c] # None /\ cell[held[c]].tokens = p
  BY <1>3, HeldIs DEF ReuseInv
<1>5. StoreMemory(c, Pool, p)
  BY <1>1, <1>2 DEF StoreFile
<1>6. CacheInv' /\ Stores(Pool, kv.tokens, SnapshotOf(Pool, kv))
  BY <1>2, <1>4, <1>5, MemoryStep DEF ReuseInv
<1>7. SnapshotOf(Pool, kv) = kv /\ kv \in Quality[Pool]
  BY <1>2, PoolQuality
<1>8. Stores(Pool, p, kv)
  BY <1>3, <1>6, <1>7
<1>9. Stocked(Quality)' /\ Copies' = Copies
  <2>1. Stocked(Quality)
    BY DEF ReuseInv
  <2>2. Stocked(Quality)'
    BY <1>2, <1>7, <1>8, <2>1, StoreStock
  <2> QED BY <1>8, <2>2 DEF Stores
<1>10. AtStage("decode", p, Copies'[c]) /\ "decode" \in Stages
  BY <1>2, <1>9 DEF AtStage, Stages
<1> QED BY <1>1, <1>6, <1>9, <1>10, GoesOn

LEMMA FinishNext ==
  ASSUME ReuseInv, NEW c \in Callers, Finish(c)
  PROVE  ReuseInv'
<1> DEFINE s == mgr[Main]
           holders == [held EXCEPT ![c] = None]
<1>1. /\ held' = holders /\ cell' = Collected(cell, mgr, holders)
      /\ stage' = [stage EXCEPT ![c] = "idle"] /\ prompt' = [prompt EXCEPT ![c] = << >>]
      /\ mgr' = mgr /\ orphans' = orphans /\ now' = now
  BY DEF Finish, GoTo
<1>2. /\ CacheInv /\ Main \in Managers /\ mgr \in [Managers -> State]
      /\ Sound(Main, s, orphans[Main]) /\ s \in State
  BY ReuseConstants DEF ReuseInv, CacheInv, TypeOK
<1>3. Update(Main, s, cell, holders)
  <2>1. mgr = [mgr EXCEPT ![Main] = s]
    BY <1>2
  <2>2. orphans[Main] \cap {p \in DOMAIN s.entries : s.entries[p].ref = File} = {}
        /\ orphans \in [Managers -> SUBSET Prompts]
    BY <1>2 DEF CacheInv, TypeOK, Disowned, Owned
  <2> HIDE DEF s, holders
  <2>3. orphans = [orphans EXCEPT ![Main] =
                     @ \ {p \in DOMAIN s.entries : s.entries[p].ref = File}]
    BY <1>2, <2>2
  <2> QED BY <1>1, <2>1, <2>3 DEF Update
<1>4. Callback(cell, holders)
  BY <1>2, GivesNothing
<1>5. [d \in Callers |-> IF holders[d] = None THEN None ELSE cell[d]]
        = [Copies EXCEPT ![c] = None]
  BY <1>2, GivesNothing
<1>6. Keeps(s, s)
  <2>1. s.bytes \in Nat
    BY <1>2, StateParts
  <2> QED BY <2>1 DEF Keeps
<1> HIDE DEF s, holders
<1>7. CacheInv' /\ GivesUp(Main, s, cell, holders)
  BY <1>2, <1>3, <1>4, <1>6, KeepsStep DEF s
<1>8. Copies' = [Copies EXCEPT ![c] = None] /\ DOMAIN Copies = Callers
  BY <1>5, <1>7 DEF GivesUp, Copies
<1>9. Stocked(Quality)'
  <2>1. DOMAIN Snaps[Main] = DOMAIN s.entries
    BY <1>2 DEF Snaps, s
  <2>2. Snaps' = [Snaps EXCEPT ![Main] = [p \in DOMAIN s.entries |-> Snaps[Main][p]]]
    BY <1>7 DEF GivesUp
  <2>3. DOMAIN s.entries \in SUBSET DOMAIN Snaps[Main]
    BY <2>1
  <2> QED BY <1>2, <2>2, <2>3, KeepsOnlyStock DEF ReuseInv
<1>10. AtStage("idle", << >>, Copies'[c]) /\ "idle" \in Stages
  BY <1>8 DEF AtStage, Stages
<1> QED BY <1>1, <1>7, <1>8, <1>9, <1>10, MovesOn

(***************************************************************************)
(* Every step keeps the invariant.                                         *)
(***************************************************************************)
LEMMA ReuseStays ==
  ASSUME ReuseInv, [ReuseNext]_reuseVars
  PROVE  ReuseInv'
<1>1. ASSUME NEW c \in Callers,
             \/ Request(c) \/ AskPool(c) \/ AskMain(c) \/ Replay(c) \/ ForwardPrompt(c)
             \/ StoreMain(c) \/ StorePool(c) \/ Finish(c)
      PROVE  ReuseInv'
  BY <1>1, RequestNext, AskPoolNext, AskMainNext, ReplayNext, ForwardNext, StoreMainNext,
     StorePoolNext, FinishNext
<1>2. ASSUME CacheInv', Snaps' = Snaps, Copies' = Copies, UNCHANGED <<stage, prompt>>
      PROVE  ReuseInv'
  BY <1>2 DEF ReuseInv, Stocked
<1>3. CASE Age
  <2>1. CacheInv' /\ Snaps' = Snaps /\ Copies' = Copies
    BY <1>3, TickStep DEF ReuseInv, Age
  <2> QED BY <1>2, <1>3, <2>1 DEF Age
<1>4. CASE UNCHANGED reuseVars
  <2>1. UNCHANGED vars /\ UNCHANGED <<stage, prompt>>
    BY <1>4 DEF reuseVars, vars
  <2>2. CacheInv' /\ Snaps' = Snaps /\ Copies' = Copies
    BY <2>1, SameCache DEF ReuseInv
  <2> QED BY <1>2, <2>1, <2>2
<1> QED BY <1>1, <1>3, <1>4 DEF ReuseNext

LEMMA ReuseStarts ==
  ASSUME ReuseInit
  PROVE  ReuseInv
<1>1. /\ Init /\ stage = [c \in Callers |-> "idle"] /\ prompt = [c \in Callers |-> << >>]
  BY DEF ReuseInit
<1>2. CacheInv /\ Interface!SInit
  BY <1>1, CacheStart
<1>3. Snaps = [m \in Managers |-> << >>] /\ Copies = [c \in Callers |-> None]
  BY <1>2 DEF Interface!SInit
<1>4. Stocked(Quality)
  <2>1. \A m \in Managers : DOMAIN Snaps[m] = {}
    BY <1>3
  <2> QED BY <2>1 DEF Stocked
<1>5. "idle" \in Stages /\ AtStage("idle", << >>, None)
  BY DEF AtStage, Stages
<1> QED BY <1>1, <1>2, <1>3, <1>4, <1>5 DEF ReuseInv

(***************************************************************************)
(* The invariant implies the properties that the run checks.               *)
(***************************************************************************)
LEMMA BufferHolds ==
  ASSUME ReuseInv
  PROVE  BufferCoversPrompt
<1>1. /\ CacheInv /\ Stocked(Quality)
      /\ \A c \in Callers : AtStage(stage[c], prompt[c], Copies[c])
  BY DEF ReuseInv
<1>2. ASSUME NEW c \in Callers, held[c] # None
      PROVE  Buffer(c) = Copies[c] /\ Copies[c] # None
  BY <1>1, <1>2, HeldIs DEF Buffer
<1>3. ASSUME NEW c \in Callers, stage[c] \in {"storeMain", "storePool", "decode"}
      PROVE  Copies[c] \in Complete(prompt[c]) /\ held[c] # None
  <2>1. Copies[c] \in Complete(prompt[c])
    BY <1>1, <1>3 DEF AtStage
  <2> QED BY <1>1, <2>1, HeldIs DEF Complete
<1>4. ASSUME NEW c \in Callers, stage[c] \in {"storeMain", "storePool", "decode"}
      PROVE  Buffer(c).tokens = prompt[c]
  BY <1>2, <1>3, <1>4 DEF Complete
<1>5. ASSUME NEW c \in Callers, stage[c] \in {"replay", "forward"}, held[c] # None
      PROVE  IsStrictPrefix(Buffer(c).tokens, prompt[c])
  BY <1>1, <1>2, <1>5 DEF AtStage, Extensible
<1>6. WindowPresent
  <2> SUFFICES ASSUME Window > 0, NEW c \in Callers, held[c] # None,
                      stage[c] \in {"forward", "storeMain", "storePool", "decode"}
               PROVE  Buffer(c).raw
    BY DEF WindowPresent
  <2>1. CASE stage[c] = "forward"
    BY <1>1, <1>2, <2>1 DEF AtStage, Extensible
  <2>2. CASE stage[c] # "forward"
    BY <1>2, <1>3, <2>2 DEF Complete
  <2> QED BY <2>1, <2>2
<1>7. PoolIsFull
  <2> SUFFICES ASSUME Window > 0, NEW p \in DOMAIN mgr[Pool].entries
               PROVE  Stored(Pool, p).raw
    BY DEF PoolIsFull
  <2>1. Pool \in Managers
    BY ReuseConstants
  <2>2. p \in DOMAIN Snaps[Pool] /\ Snaps[Pool][p].kv = Stored(Pool, p)
    BY <2>1 DEF Snaps
  <2> QED BY <1>1, <2>1, <2>2 DEF Stocked, Quality
<1> QED BY <1>4, <1>5, <1>6, <1>7 DEF BufferCoversPrompt

LEMMA ShortHolds ==
  ASSUME ReuseInv
  PROVE  ShortPromptsExact
<1> SUFFICES ASSUME NEW c \in Callers, stage[c] = "decode", Len(prompt[c]) <= Window + 1
             PROVE  Buffer(c).exact
  BY DEF ShortPromptsExact
<1>1. Copies[c] \in Complete(prompt[c])
  BY DEF ReuseInv, AtStage
<1>2. Buffer(c) = Copies[c]
  BY <1>1, HeldIs DEF ReuseInv, Complete, Buffer
<1> QED BY <1>1, <1>2 DEF Complete

(***************************************************************************)
(* What every request has at each stage, and what every snapshot of the    *)
(* two stores is, whichever way the requests interleave.                   *)
(***************************************************************************)
THEOREM ReuseInvariance == ReuseSpec => []ReuseInv
<1>1. ReuseInit => ReuseInv
  BY ReuseStarts
<1>2. ReuseInv /\ [ReuseNext]_reuseVars => ReuseInv'
  BY ReuseStays
<1> QED BY <1>1, <1>2, PTL DEF ReuseSpec

(***************************************************************************)
(* GenerateWith decodes from a buffer of exactly its prompt, found or made *)
(* by no other request, whose window rows are there when they are read.    *)
(***************************************************************************)
THEOREM ReuseBuffer == ReuseSpec => []BufferCoversPrompt
<1>1. ReuseInv => BufferCoversPrompt
  BY BufferHolds
<1> QED BY <1>1, ReuseInvariance, PTL

(***************************************************************************)
(* A prompt of at most Window + 1 tokens is decoded from what a full        *)
(* prefill would have computed: replayLocalState is exact for it.          *)
(***************************************************************************)
THEOREM ReuseShort == ReuseSpec => []ShortPromptsExact
<1>1. ReuseInv => ShortPromptsExact
  BY ShortHolds
<1> QED BY <1>1, ReuseInvariance, PTL
=============================================================================
