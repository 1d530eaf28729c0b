--------------------------- MODULE ServingProofs ---------------------------
(***************************************************************************)
(* Proofs about Bank and Serving.  First the bank: its invariant holds for *)
(* any manifest, any number of handlers, any checkpoint sizes and any      *)
(* budgets, and it implements the abstract store.  Then the server: the    *)
(* bank keeps its invariant under it, every blend follows its route, and   *)
(* the router classifies the client's last message.                        *)
(***************************************************************************)
EXTENDS Serving, SeqSumsProofs, FiniteSetTheorems

\* The inductive invariant.  The accounting needs the order to list exactly the
\* resident ids; the budget needs the accounting only through bytes itself.
BankInv ==
  /\ TypeOK
  /\ OrderTracksEntries
  /\ RecencyOrdered
  /\ AccountingExact
  /\ WithinBudget

\* Bytes of the resident entries in the order of the LRU list.
Weights == [i \in DOMAIN order |-> entries[order[i]].bytes]

-----------------------------------------------------------------------------
(***************************************************************************)
(* The LRU list as a list of weights.                                      *)
(***************************************************************************)
LEMMA WeightsType ==
  ASSUME TypeOK, OrderTracksEntries
  PROVE  /\ Weights \in Seq(Nat)
         /\ Weights \in Seq(Int)
         /\ Len(Weights) = Len(order)
         /\ \A i \in 1..Len(order) : Weights[i] = entries[order[i]].bytes
<1>1. Len(order) \in Nat /\ DOMAIN order = 1..Len(order)
  BY DEF TypeOK
<1>2. \A i \in 1..Len(order) : entries[order[i]].bytes \in Nat
  BY <1>1, BankConstants DEF TypeOK, OrderTracksEntries, Entry, Resident
<1>3. Weights \in [1..Len(order) -> Nat]
  BY <1>1, <1>2 DEF Weights
<1>4. Weights \in Seq(Nat) /\ Len(Weights) = Len(order)
  BY <1>1, <1>3
<1>5. Weights \in Seq(Int)
  BY <1>4
<1> QED BY <1>1, <1>4, <1>5 DEF Weights

LEMMA FreedIsPrefixTotal ==
  ASSUME TypeOK, OrderTracksEntries, NEW k \in 0..Len(order)
  PROVE  /\ Freed(k) = Total(SubSeq(Weights, 1, k))
         /\ Freed(k) \in Int
         /\ Total(Weights) = Freed(k) + Total(SubSeq(Weights, k + 1, Len(order)))
<1>1. /\ Len(order) \in Nat
      /\ Weights \in Seq(Int) /\ Len(Weights) = Len(order)
      /\ \A i \in 1..Len(order) : Weights[i] = entries[order[i]].bytes
      /\ \A i \in 1..Len(order) : Weights[i] \in Int
  BY WeightsType DEF TypeOK
<1>2. SubSeq(Weights, 1, k) = [i \in 1..k |-> entries[order[i]].bytes]
  <2>1. /\ SubSeq(Weights, 1, k) \in Seq(Int)
        /\ Len(SubSeq(Weights, 1, k)) = k
        /\ \A i \in 1..k : SubSeq(Weights, 1, k)[i] = Weights[i]
    BY <1>1
  <2>2. SubSeq(Weights, 1, k) = [i \in 1..k |-> SubSeq(Weights, 1, k)[i]]
    BY <2>1
  <2>3. \A i \in 1..k : SubSeq(Weights, 1, k)[i] = entries[order[i]].bytes
    BY <1>1, <2>1
  <2> QED BY <2>2, <2>3
<1>3. Freed(k) = Total(SubSeq(Weights, 1, k))
  BY <1>2 DEF Freed
<1>4. SubSeq(Weights, 1, k) \in Seq(Int)
  BY <1>1
<1>5. Freed(k) \in Int
  BY <1>3, <1>4, TotalType
<1>6. Total(Weights) = Total(SubSeq(Weights, 1, k)) + Total(SubSeq(Weights, k + 1, Len(order)))
  BY <1>1, TotalSplit
<1> QED BY <1>3, <1>5, <1>6

(***************************************************************************)
(* The eviction loop always finds where to stop, and stops at the first    *)
(* number of victims that meets the budget.                                *)
(***************************************************************************)
LEMMA VictimsSpec ==
  ASSUME TypeOK, NEW size \in Sizes
  PROVE  /\ Victims(size) \in 0..Len(order)
         /\ FitsAfter(Victims(size), size) \/ Victims(size) = Len(order)
         /\ \A j \in 0..(Victims(size) - 1) : ~FitsAfter(j, size)
<1>1. Len(order) \in Nat
  BY DEF TypeOK
<1> DEFINE T == {k \in 0..Len(order) : FitsAfter(k, size) \/ k = Len(order)}
<1>2. PICK k \in T : \A j \in T : k <= j
  <2>1. T \in SUBSET Nat /\ Len(order) \in T
    BY <1>1
  <2> HIDE DEF T
  <2> QED BY <2>1, LeastElement
<1>3. k \in 0..Len(order) /\ (FitsAfter(k, size) \/ k = Len(order))
  OBVIOUS
<1>4. \A j \in 0..(k - 1) : ~FitsAfter(j, size)
  <2> SUFFICES ASSUME NEW j \in 0..(k - 1), FitsAfter(j, size) PROVE FALSE
    OBVIOUS
  <2>1. j \in 0..Len(order) /\ j < k
    BY <1>1, <1>3
  <2> QED BY <1>2, <2>1
<1> HIDE DEF T
<1> QED BY <1>3, <1>4 DEF Victims

-----------------------------------------------------------------------------
(* The part of the invariant about the bank itself, without its callers.   *)
BankTyped ==
  /\ Resident \subseteq Domains
  /\ entries \in [Resident -> Entry]
  /\ order \in Seq(Domains)
  /\ bytes \in Nat
  /\ clock \in 0..MaxClock

BankOK ==
  /\ BankTyped
  /\ OrderTracksEntries
  /\ RecencyOrdered
  /\ AccountingExact
  /\ WithinBudget

(***************************************************************************)
(* A hit moves one id to the end of the list and touches nothing else.     *)
(***************************************************************************)
LEMMA HitKeepsBank ==
  ASSUME BankInv, clock < MaxClock, NEW id, AcquireHit(id)
  PROVE  BankOK'
<1> DEFINE n == Len(order)
           at == CHOOSE i \in DOMAIN order : order[i] = id
           t == Append(RemoveAt(order, at), order[at])
<1>1. /\ n \in Nat /\ DOMAIN order = 1..n
      /\ order \in Seq(Domains)
      /\ id \in Resident
      /\ clock \in Nat
  BY DEF BankInv, TypeOK, AcquireHit
<1>2. at \in 1..n /\ order[at] = id
  <2>1. \E i \in DOMAIN order : order[i] = id
    BY <1>1 DEF BankInv, OrderTracksEntries
  <2> QED BY <1>1, <2>1
<1>3. order' = t
  BY <1>2 DEF AcquireHit, Touch
<1> HIDE DEF at
<1>4. /\ order' \in Seq(Domains)
      /\ Len(order') = n
      /\ \A j \in 1..n :
           order'[j] = IF j < at THEN order[j] ELSE IF j < n THEN order[j + 1] ELSE id
  <2>1. /\ t \in Seq(Domains)
        /\ Len(t) = n
        /\ \A j \in 1..n :
             t[j] = IF j < at THEN order[j] ELSE IF j < n THEN order[j + 1] ELSE order[at]
    BY <1>1, <1>2, MoveToEnd
  <2> QED BY <1>2, <1>3, <2>1
<1> HIDE DEF t, n
<1>5. DOMAIN order' = 1..n
  BY <1>4
<1>6. /\ Resident' = Resident
      /\ entries' \in [Resident -> Entry]
      /\ \A d \in Resident : /\ entries'[d].bytes = entries[d].bytes
                             /\ entries'[d].model = entries[d].model
                             /\ d # id => entries'[d].used = entries[d].used
      /\ entries'[id].used = clock + 1
      /\ clock' = clock + 1
      /\ bytes' = bytes
  BY <1>1 DEF AcquireHit, BankInv, TypeOK, Resident, Entry
<1>7. BankTyped'
  <2>1. Resident \subseteq Domains /\ bytes \in Nat
    BY DEF BankInv, TypeOK
  <2>2. clock' \in 0..MaxClock
    BY <1>1, <1>6, BankConstants
  <2> QED BY <1>4, <1>6, <2>1, <2>2 DEF BankTyped
<1>8. OrderTracksEntries'
  <2>1. ASSUME NEW j \in DOMAIN order'
        PROVE  order'[j] \in Resident'
    <3>1. \A i \in 1..n : order[i] \in Resident
      BY <1>1 DEF BankInv, OrderTracksEntries
    <3>2. j \in 1..n
      BY <1>5
    <3>3. CASE j < at
      BY <1>4, <1>6, <3>1, <3>2, <3>3
    <3>4. CASE ~(j < at) /\ j < n
      <4>1. j + 1 \in 1..n
        BY <1>1, <3>2, <3>4
      <4>2. order'[j] = order[j + 1]
        BY <1>4, <3>2, <3>4
      <4> QED BY <1>6, <3>1, <4>1, <4>2
    <3>5. CASE ~(j < at) /\ ~(j < n)
      BY <1>1, <1>4, <1>6, <3>2, <3>5
    <3> QED BY <3>3, <3>4, <3>5
  <2>2. ASSUME NEW d \in Resident'
        PROVE  \E j \in DOMAIN order' : order'[j] = d
    <3>1. PICK i \in 1..n : order[i] = d
      BY <1>1, <1>6 DEF BankInv, OrderTracksEntries
    <3>2. CASE i < at
      BY <1>4, <1>5, <3>1, <3>2
    <3>3. CASE i = at
      <4>1. n \in 1..n /\ ~(n < at) /\ ~(n < n)
        BY <1>1, <1>2
      <4>2. order'[n] = id
        BY <1>4, <4>1
      <4> QED BY <1>2, <1>5, <3>1, <3>3, <4>1, <4>2
    <3>4. CASE i > at
      <4>1. i - 1 \in 1..n /\ ~(i - 1 < at) /\ i - 1 < n /\ (i - 1) + 1 = i
        BY <1>1, <1>2, <3>4
      <4>2. order'[i - 1] = d
        BY <1>4, <3>1, <4>1
      <4> QED BY <1>5, <4>1, <4>2
    <3> QED BY <1>1, <1>2, <3>2, <3>3, <3>4
  <2>3. ASSUME NEW i \in 1..n, NEW j \in 1..n, order'[i] = order'[j]
        PROVE  i = j
    <3>1. \A p, q \in 1..n : order[p] = order[q] => p = q
      BY <1>1 DEF BankInv, OrderTracksEntries
    <3> DEFINE src(m) == IF m < at THEN m ELSE IF m < n THEN m + 1 ELSE at
    <3>2. \A m \in 1..n : src(m) \in 1..n /\ order'[m] = order[src(m)]
      BY <1>1, <1>2, <1>4
    <3>3. src(i) = src(j)
      BY <2>3, <3>1, <3>2
    <3> QED BY <1>1, <1>2, <3>3
  <2> QED BY <1>5, <2>1, <2>2, <2>3 DEF OrderTracksEntries
<1>9. RecencyOrdered'
  <2>1. \A i, j \in 1..n : i < j => entries[order[i]].used < entries[order[j]].used
    BY <1>1 DEF BankInv, RecencyOrdered
  <2>2. \A d \in Resident :
          /\ entries[d].model \in Nat /\ entries[d].used \in Nat
          /\ entries[d].model <= entries[d].used /\ entries[d].used <= clock
    BY DEF BankInv, RecencyOrdered, TypeOK, Entry
  <2>3. \A i \in 1..n : order[i] \in Resident /\ (order[i] = id => i = at)
    BY <1>1, <1>2 DEF BankInv, OrderTracksEntries
  <2>4. ASSUME NEW i \in 1..n, NEW j \in 1..n, i < j
        PROVE  entries'[order'[i]].used < entries'[order'[j]].used
    <3> DEFINE p == IF i < at THEN i ELSE i + 1
    <3>1. i < n /\ p \in 1..n /\ p # at /\ order'[i] = order[p]
      BY <1>1, <1>2, <1>4, <2>4
    <3>2. order[p] \in Resident /\ order[p] # id
      BY <2>3, <3>1
    <3>3. entries'[order'[i]].used = entries[order[p]].used
      BY <1>6, <3>1, <3>2
    <3>4. CASE j = n
      <4>1. order'[j] = id
        <5>1. ~(j < at) /\ ~(j < n)
          BY <1>1, <1>2, <3>4
        <5> QED BY <1>4, <5>1
      <4> QED BY <1>1, <1>6, <2>2, <3>2, <3>3, <4>1
    <3>5. CASE j < n
      <4> DEFINE q == IF j < at THEN j ELSE j + 1
      <4>1. q \in 1..n /\ q # at /\ order'[j] = order[q] /\ p < q
        BY <1>1, <1>2, <1>4, <2>4, <3>5
      <4>2. order[q] \in Resident /\ order[q] # id
        BY <2>3, <4>1
      <4>3. entries'[order'[j]].used = entries[order[q]].used
        BY <1>6, <4>1, <4>2
      <4> HIDE DEF p, q
      <4> QED BY <2>1, <3>1, <3>3, <4>1, <4>3
    <3> QED BY <1>1, <3>4, <3>5
  <2>5. ASSUME NEW d \in Resident'
        PROVE  entries'[d].model <= entries'[d].used /\ entries'[d].used <= clock'
    <3>1. CASE d = id
      BY <1>1, <1>6, <2>2, <3>1
    <3>2. CASE d # id
      BY <1>1, <1>6, <2>2, <3>2
    <3> QED BY <3>1, <3>2
  <2> QED BY <1>5, <2>4, <2>5 DEF RecencyOrdered
<1>10. AccountingExact'
  <2> DEFINE w == Weights
             v == Append(RemoveAt(w, at), w[at])
  <2>1. /\ w \in Seq(Int) /\ Len(w) = n
        /\ \A i \in 1..n : w[i] = entries[order[i]].bytes
    BY WeightsType DEF n, BankInv
  <2> HIDE DEF w
  <2>2. /\ v \in Seq(Int) /\ Len(v) = n
        /\ \A j \in 1..n :
             v[j] = IF j < at THEN w[j] ELSE IF j < n THEN w[j + 1] ELSE w[at]
    <3>1. at \in 1..Len(w)
      BY <1>2, <2>1
    <3>2. /\ v \in Seq(Int) /\ Len(v) = Len(w)
          /\ \A j \in 1..Len(w) :
               v[j] = IF j < at THEN w[j] ELSE IF j < Len(w) THEN w[j + 1] ELSE w[at]
      BY <2>1, <3>1, MoveToEnd
    <3> QED BY <2>1, <3>2
  <2>3. Total(v) = Total(w)
    BY <1>2, <2>1, MoveToEndTotal
  <2> HIDE DEF v
  <2>4. ASSUME NEW j \in 1..n
        PROVE  v[j] = entries'[order'[j]].bytes
    <3> DEFINE p == IF j < at THEN j ELSE IF j < n THEN j + 1 ELSE at
    <3>1. p \in 1..n /\ v[j] = w[p] /\ order'[j] = order[p]
      BY <1>1, <1>2, <1>4, <2>2
    <3>2. order[p] \in Resident
      BY <1>1, <3>1 DEF BankInv, OrderTracksEntries
    <3> QED BY <1>6, <2>1, <3>1, <3>2
  <2>5. v = [j \in 1..n |-> v[j]]
    BY <1>1, <2>2
  <2>6. v = [j \in DOMAIN order' |-> entries'[order'[j]].bytes]
    BY <1>5, <2>4, <2>5
  <2>7. bytes = Total(w)
    BY DEF BankInv, AccountingExact, Weights, w
  <2> QED BY <1>6, <2>3, <2>6, <2>7 DEF AccountingExact
<1>11. WithinBudget'
  BY <1>4, <1>6 DEF BankInv, WithinBudget, n
<1> QED BY <1>7, <1>8, <1>9, <1>10, <1>11 DEF BankOK

(***************************************************************************)
(* A miss drops the k oldest ids and appends the new one.                  *)
(***************************************************************************)
LEMMA MissKeepsBank ==
  ASSUME BankInv, clock < MaxClock, NEW id, NEW size \in Sizes, AcquireMiss(id, size)
  PROVE  BankOK'
<1> DEFINE n == Len(order)
           k == Victims(size)
           m == n - k
           rest == SubSeq(order, k + 1, Len(order))
<1>1. /\ n \in Nat /\ DOMAIN order = 1..n
      /\ order \in Seq(Domains)
      /\ id \in Domains /\ id \notin Resident
      /\ clock \in Nat /\ bytes \in Nat
      /\ size \in Nat
  BY BankConstants DEF BankInv, TypeOK, AcquireMiss
<1>V. k \in 0..n /\ (FitsAfter(k, size) \/ k = n)
  BY VictimsSpec DEF BankInv
<1>2. k \in Nat /\ m \in Nat /\ k <= n /\ m = n - k /\ n = k + m
  BY <1>1, <1>V
<1>3. /\ clock' = clock + 1
      /\ order' = Append(rest, id)
      /\ bytes' = bytes + size - Freed(k)
  BY DEF AcquireMiss, Insert
<1> DEFINE gone == {order[i] : i \in 1..k}
           loaded == [model |-> clock + 1, bytes |-> size, used |-> clock + 1]
<1>4. entries' = [d \in (Resident \ gone) \cup {id} |-> IF d = id THEN loaded ELSE entries[d]]
  BY DEF AcquireMiss, Insert
<1> HIDE DEF k, m, n
<1>5. /\ rest \in Seq(Domains)
      /\ Len(rest) = m
      /\ \A j \in 1..m : rest[j] = order[k + j]
  <2>1. \A j \in (k + 1)..n : order[j] \in Domains
    BY <1>1, <1>2
  <2>2. /\ rest \in Seq(Domains)
        /\ Len(rest) = IF k + 1 <= n THEN n - (k + 1) + 1 ELSE 0
        /\ \A j \in 1..(n - (k + 1) + 1) : rest[j] = order[(k + 1) + j - 1]
    <3>1. k + 1 \in Int /\ n \in Int /\ rest = SubSeq(order, k + 1, n)
      BY <1>1, <1>2 DEF n
    <3> HIDE DEF rest
    <3> QED BY <2>1, <3>1, SubSeqProperties
  <2> HIDE DEF rest
  <2>3. \A j \in 1..m : j \in 1..(n - (k + 1) + 1) /\ (k + 1) + j - 1 = k + j
    BY <1>1, <1>2
  <2>4. Len(rest) = m
    BY <1>1, <1>2, <2>2
  <2> QED BY <2>2, <2>3, <2>4
<1> HIDE DEF rest
<1>6. /\ m \in Nat
      /\ order' \in Seq(Domains)
      /\ Len(order') = m + 1
      /\ DOMAIN order' = 1..(m + 1)
      /\ \A j \in 1..m : order'[j] = order[k + j]
      /\ order'[m + 1] = id
  <2>1. m \in Nat
    BY <1>2
  <2>2. /\ Append(rest, id) \in Seq(Domains)
        /\ Len(Append(rest, id)) = Len(rest) + 1
        /\ \A j \in 1..Len(rest) : Append(rest, id)[j] = rest[j]
        /\ Append(rest, id)[Len(rest) + 1] = id
    BY <1>1, <1>5, AppendProperties
  <2>3. DOMAIN order' = 1..Len(order')
    BY <1>3, <2>2
  <2> QED BY <1>3, <1>5, <2>1, <2>2, <2>3
<1>7. /\ \A i \in 1..n : order[i] \in Resident
      /\ \A d \in Resident : \E i \in 1..n : order[i] = d
      /\ \A i, j \in 1..n : order[i] = order[j] => i = j
  BY <1>1 DEF BankInv, OrderTracksEntries
<1>8. /\ Resident' = (Resident \ gone) \cup {id}
      /\ \A d \in Resident \ gone : entries'[d] = entries[d]
      /\ entries'[id] = loaded
  BY <1>1, <1>4 DEF Resident
<1>9. \A j \in 1..m : /\ k + j \in 1..n
                      /\ order[k + j] \in Resident \ gone
  <2> TAKE j \in 1..m
  <2>1. k + j \in 1..n
    BY <1>1, <1>2
  <2>2. order[k + j] \notin gone
    <3> SUFFICES ASSUME NEW i \in 1..k, order[i] = order[k + j] PROVE FALSE
      OBVIOUS
    <3>1. i \in 1..n /\ i # k + j
      BY <1>1, <1>2
    <3> QED BY <1>7, <2>1, <3>1
  <2> QED BY <1>7, <2>1, <2>2
<1>10. /\ entries' \in [Resident' -> Entry]
       /\ Resident' \subseteq Domains
  <2>1. loaded \in Entry
    BY <1>1 DEF Entry
  <2>2. \A d \in Resident : entries[d] \in Entry /\ d \in Domains
    BY DEF BankInv, TypeOK
  <2>3. \A d \in Resident' : entries'[d] \in Entry
    BY <1>8, <2>1, <2>2
  <2>4. entries' = [d \in Resident' |-> entries'[d]]
    BY <1>4 DEF Resident
  <2>5. Resident' \subseteq Domains
    BY <1>1, <1>8, <2>2
  <2> QED BY <2>3, <2>4, <2>5
<1>11. OrderTracksEntries'
  <2>1. \A j \in 1..(m + 1) : order'[j] \in Resident'
    <3> TAKE j \in 1..(m + 1)
    <3>1. CASE j \in 1..m
      BY <1>6, <1>8, <1>9, <3>1
    <3>2. CASE j = m + 1
      BY <1>6, <1>8, <3>2
    <3> QED BY <1>6, <3>1, <3>2
  <2>2. ASSUME NEW d \in Resident'
        PROVE  \E j \in 1..(m + 1) : order'[j] = d
    <3>1. CASE d = id
      <4>1. m + 1 \in 1..(m + 1)
        BY <1>6
      <4> QED BY <1>6, <3>1, <4>1
    <3>2. CASE d \in Resident \ gone
      <4>1. PICK i \in 1..n : order[i] = d
        BY <1>7, <3>2
      <4>2. i \notin 1..k
        BY <3>2, <4>1
      <4>3. i - k \in 1..m /\ k + (i - k) = i /\ i - k \in 1..(m + 1)
        BY <1>1, <1>2, <4>2
      <4>4. order'[i - k] = d
        BY <1>6, <4>1, <4>3
      <4> QED BY <4>3, <4>4
    <3> QED BY <1>8, <3>1, <3>2
  <2>3. ASSUME NEW i \in 1..(m + 1), NEW j \in 1..(m + 1), order'[i] = order'[j]
        PROVE  i = j
    <3>1. CASE i \in 1..m /\ j \in 1..m
      <4>1. order[k + i] = order[k + j]
        BY <1>6, <2>3, <3>1
      <4>2. k + i = k + j
        BY <1>7, <1>9, <3>1, <4>1
      <4> QED BY <1>1, <1>2, <4>2
    <3>2. CASE i = m + 1 /\ j \in 1..m
      BY <1>1, <1>6, <1>9, <2>3, <3>2
    <3>3. CASE i \in 1..m /\ j = m + 1
      BY <1>1, <1>6, <1>9, <2>3, <3>3
    <3>4. CASE i = m + 1 /\ j = m + 1
      BY <3>4
    <3>5. (i \in 1..m \/ i = m + 1) /\ (j \in 1..m \/ j = m + 1)
      BY <1>6
    <3> QED BY <3>1, <3>2, <3>3, <3>4, <3>5
  <2> QED BY <1>6, <2>1, <2>2, <2>3 DEF OrderTracksEntries
<1>12. RecencyOrdered'
  <2>1. \A i, j \in 1..n : i < j => entries[order[i]].used < entries[order[j]].used
    BY <1>1 DEF BankInv, RecencyOrdered
  <2>2. \A d \in Resident :
          /\ entries[d].model \in Nat /\ entries[d].used \in Nat
          /\ entries[d].model <= entries[d].used /\ entries[d].used <= clock
    BY DEF BankInv, RecencyOrdered, TypeOK, Entry
  <2>3. ASSUME NEW i \in 1..(m + 1), NEW j \in 1..(m + 1), i < j
        PROVE  entries'[order'[i]].used < entries'[order'[j]].used
    <3>1. i \in 1..m
      BY <1>6, <2>3
    <3>2. entries'[order'[i]] = entries[order[k + i]] /\ order[k + i] \in Resident
      BY <1>6, <1>8, <1>9, <3>1
    <3>3. CASE j \in 1..m
      <4>1. entries'[order'[j]] = entries[order[k + j]]
        BY <1>6, <1>8, <1>9, <3>3
      <4>2. k + i \in 1..n /\ k + j \in 1..n /\ k + i < k + j
        BY <1>1, <1>2, <1>9, <2>3, <3>1, <3>3
      <4> QED BY <2>1, <3>2, <4>1, <4>2
    <3>4. CASE j = m + 1
      <4>1. entries'[order'[j]].used = clock + 1
        BY <1>6, <1>8, <3>4
      <4> QED BY <1>1, <2>2, <3>2, <4>1
    <3> QED BY <1>6, <3>3, <3>4
  <2>4. ASSUME NEW d \in Resident'
        PROVE  entries'[d].model <= entries'[d].used /\ entries'[d].used <= clock'
    <3>1. CASE d = id
      BY <1>1, <1>3, <1>8, <3>1
    <3>2. CASE d \in Resident \ gone
      BY <1>1, <1>3, <1>8, <2>2, <3>2
    <3> QED BY <1>8, <3>1, <3>2
  <2> QED BY <1>6, <2>3, <2>4 DEF RecencyOrdered
<1>13. AccountingExact' /\ bytes' \in Nat
  <2> DEFINE w == SubSeq(Weights, k + 1, Len(order))
             v == [j \in DOMAIN order' |-> entries'[order'[j]].bytes]
  <2>1. /\ Weights \in Seq(Nat) /\ Len(Weights) = n
        /\ \A i \in 1..n : Weights[i] = entries[order[i]].bytes
    BY WeightsType DEF BankInv, n
  <2>2. /\ w \in Seq(Nat)
        /\ w \in Seq(Int)
        /\ Len(w) = m
        /\ \A j \in 1..m : w[j] = Weights[k + j]
    <3>1. \A j \in (k + 1)..n : Weights[j] \in Nat
      BY <1>1, <1>2, <2>1
    <3>2. /\ w \in Seq(Nat)
          /\ Len(w) = IF k + 1 <= n THEN n - (k + 1) + 1 ELSE 0
          /\ \A j \in 1..(n - (k + 1) + 1) : w[j] = Weights[(k + 1) + j - 1]
      BY <1>1, <1>2, <3>1, SubSeqProperties
    <3>3. w \in Seq(Int)
      BY <3>2
    <3>4. Len(w) = m /\ \A j \in 1..m : w[j] = Weights[k + j]
      BY <1>1, <1>2, <3>2
    <3> QED BY <3>2, <3>3, <3>4
  <2>3. bytes = Freed(k) + Total(w) /\ Freed(k) \in Int
    BY <1>V, FreedIsPrefixTotal DEF BankInv, AccountingExact, Weights, n
  <2> HIDE DEF w
  <2>4. v = Append(w, size)
    <3> DEFINE a == Append(w, size)
    <3>1. /\ a \in Seq(Nat)
          /\ Len(a) = m + 1
          /\ \A j \in 1..m : a[j] = w[j]
          /\ a[m + 1] = size
      BY <1>1, <2>2, AppendProperties
    <3> HIDE DEF a, v
    <3>2. \A j \in 1..(m + 1) : a[j] = entries'[order'[j]].bytes
      <4> TAKE j \in 1..(m + 1)
      <4>1. CASE j \in 1..m
        <5>1. entries'[order'[j]] = entries[order[k + j]] /\ k + j \in 1..n
          BY <1>6, <1>8, <1>9, <4>1
        <5> QED BY <2>1, <2>2, <3>1, <4>1, <5>1
      <4>2. CASE j = m + 1
        BY <1>6, <1>8, <3>1, <4>2
      <4>3. j \in 1..m \/ j = m + 1
        BY <1>2
      <4> QED BY <4>1, <4>2, <4>3
    <3>3. a = [j \in 1..(m + 1) |-> a[j]]
      BY <3>1
    <3> QED BY <1>6, <3>2, <3>3 DEF a, v
  <2> HIDE DEF v
  <2>5. Total(v) = Total(w) + size
    <3>1. size \in Int
      BY <1>1
    <3> QED BY <2>2, <2>4, <3>1, TotalAppend
  <2>6. Total(w) \in Nat
    BY <2>2, TotalNat
  <2>7. bytes' = Total(v) /\ bytes' \in Nat
    BY <1>1, <1>3, <2>3, <2>5, <2>6
  <2> QED BY <2>7 DEF AccountingExact, v
<1>14. WithinBudget'
  <2>1. /\ MaxBytes \in Nat /\ MaxModels \in Nat
        /\ bytes' \in Nat
        /\ Len(order') \in Nat /\ Len(order') >= 1
    BY <1>2, <1>6, <1>13, BankConstants
  <2>2. CASE FitsAfter(k, size)
    <3>1. Len(order) + 1 - k = Len(order')
      BY <1>1, <1>2, <1>6 DEF n
    <3>2. /\ MaxModels = 0 \/ Len(order') <= MaxModels
          /\ MaxBytes = 0 \/ bytes' <= MaxBytes
      BY <1>3, <2>2, <3>1 DEF FitsAfter
    <3> QED BY <3>2 DEF WithinBudget
  <2>3. CASE k = n
    <3>1. Len(order') = 1
      BY <1>1, <1>2, <1>6, <2>3
    <3>2. MaxModels = 0 \/ Len(order') <= MaxModels
      BY <2>1, <3>1
    <3>3. (MaxBytes = 0 \/ bytes' <= MaxBytes) \/ (MaxBytes # 0 /\ bytes' > MaxBytes)
      BY <2>1
    <3> QED BY <3>1, <3>2, <3>3 DEF WithinBudget
  <2> QED BY <1>V, <2>2, <2>3
<1>15. BankTyped'
  <2>1. clock' \in 0..MaxClock
    BY <1>1, <1>3, BankConstants
  <2> QED BY <1>6, <1>10, <1>13, <2>1 DEF BankTyped
<1> QED BY <1>11, <1>12, <1>13, <1>14, <1>15 DEF BankOK

-----------------------------------------------------------------------------
(***************************************************************************)
(* Main results.                                                           *)
(***************************************************************************)
LEMMA BankInvInit == Init => BankInv
<1> SUFFICES ASSUME Init PROVE BankInv
  OBVIOUS
<1>1. /\ entries = << >> /\ order = << >> /\ bytes = 0 /\ clock = 0
      /\ call = [c \in Clients |-> None]
      /\ DOMAIN entries = {} /\ DOMAIN order = {} /\ Len(order) = 0
  BY DEF Init
<1>2. TypeOK
  <2>1. entries \in [{} -> Entry]
    BY <1>1
  <2> QED BY <1>1, <2>1, BankConstants DEF TypeOK, Resident
<1>3. OrderTracksEntries /\ RecencyOrdered
  BY <1>1 DEF OrderTracksEntries, RecencyOrdered, Resident
<1>4. AccountingExact
  <2>1. [i \in DOMAIN order |-> entries[order[i]].bytes] = << >>
    BY <1>1
  <2> QED BY <1>1, <2>1, TotalEmpty DEF AccountingExact
<1>5. WithinBudget
  BY <1>1, BankConstants DEF WithinBudget
<1> QED BY <1>2, <1>3, <1>4, <1>5 DEF BankInv

LEMMA BankInvStep == BankInv /\ [Next]_vars => BankInv'
<1> SUFFICES ASSUME BankInv, [Next]_vars PROVE BankInv'
  OBVIOUS
<1> DEFINE CallTyped == call \in [Clients -> Call \cup {None}]
<1>1. BankOK' /\ CallTyped' => BankInv'
  BY DEF BankOK, BankTyped, BankInv, TypeOK
<1>2. (UNCHANGED bankVars) => BankOK'
  BY DEF bankVars, BankOK, BankTyped, BankInv, TypeOK, OrderTracksEntries,
         RecencyOrdered, AccountingExact, WithinBudget, Resident
<1>3. CallTyped
  BY DEF BankInv, TypeOK
<1>4. ASSUME NEW c \in Clients, Begin(c)
      PROVE  BankInv'
  <2>1. CallTyped'
    BY <1>3, <1>4, EmptySeq DEF Begin, Call
  <2> QED BY <1>1, <1>2, <1>4, <2>1 DEF Begin
<1>5. ASSUME NEW c \in Clients, Return(c)
      PROVE  BankInv'
  <2>1. CallTyped'
    BY <1>3, <1>5 DEF Return
  <2> QED BY <1>1, <1>2, <1>5, <2>1 DEF Return
<1>6. ASSUME NEW c \in Clients, Acquire(c)
      PROVE  BankInv'
  <2> DEFINE id == call[c].ids[Len(call[c].got) + 1]
  <2>1. call[c] \in Call /\ clock < MaxClock /\ clock \in Nat
    BY <1>3, <1>6 DEF Acquire, Running, BankInv, TypeOK
  <2>2. \A model \in Nat : Got(c, model) => CallTyped'
    <3> SUFFICES ASSUME NEW model \in Nat, Got(c, model) PROVE CallTyped'
      OBVIOUS
    <3>1. Append(call[c].got, model) \in Seq(Nat)
      BY <2>1, AppendProperties DEF Call
    <3>2. [call[c] EXCEPT !.got = Append(call[c].got, model)] \in Call
      BY <2>1, <3>1 DEF Call
    <3> QED BY <1>3, <3>2 DEF Got
  <2>3. CASE AcquireHit(id) /\ Got(c, entries[id].model)
    <3>1. entries[id].model \in Nat
      BY <2>3 DEF AcquireHit, BankInv, TypeOK, Entry
    <3>2. BankOK'
      BY <2>1, <2>3, HitKeepsBank
    <3> QED BY <1>1, <2>2, <2>3, <3>1, <3>2
  <2>4. CASE \E size \in Sizes : AcquireMiss(id, size) /\ Got(c, clock + 1)
    <3>1. PICK size \in Sizes : AcquireMiss(id, size) /\ Got(c, clock + 1)
      BY <2>4
    <3>2. BankOK'
      BY <2>1, <3>1, MissKeepsBank
    <3>3. clock + 1 \in Nat
      BY <2>1
    <3> QED BY <1>1, <2>2, <3>1, <3>2, <3>3
  <2>5. CASE AcquireFail(id) /\ call' = [call EXCEPT ![c].failed = TRUE]
    <3>1. CallTyped'
      <4>1. [call[c] EXCEPT !.failed = TRUE] \in Call
        BY <2>1 DEF Call
      <4> QED BY <1>3, <2>5, <4>1
    <3>2. /\ entries' = entries /\ order' = order /\ bytes' = bytes
          /\ clock' = clock + 1
      BY <2>5 DEF AcquireFail
    <3>3. clock' \in 0..MaxClock
      BY <2>1, <3>2, BankConstants
    <3>4. BankTyped' /\ OrderTracksEntries' /\ AccountingExact' /\ WithinBudget'
      BY <3>2, <3>3 DEF BankTyped, BankInv, TypeOK, OrderTracksEntries,
                        AccountingExact, WithinBudget, Resident
    <3>5. RecencyOrdered'
      <4>1. \A d \in Resident : entries[d].used \in Nat
        BY DEF BankInv, TypeOK, Entry
      <4> QED BY <2>1, <3>2, <4>1 DEF BankInv, RecencyOrdered, Resident
    <3> QED BY <1>1, <3>1, <3>4, <3>5 DEF BankOK
  <2> QED BY <1>6, <2>3, <2>4, <2>5 DEF Acquire
<1>7. CASE UNCHANGED vars
  BY <1>1, <1>2, <1>3, <1>7 DEF vars, bankVars
<1> QED BY <1>4, <1>5, <1>6, <1>7 DEF Next

(***************************************************************************)
(* The bank is always consistent: types, list against map, recency, exact  *)
(* byte accounting, budgets (bank.go, Acquire, touchLocked, evictLocked).  *)
(***************************************************************************)
THEOREM BankSafe == Spec => []BankInv
BY BankInvInit, BankInvStep, PTL DEF Spec

(***************************************************************************)
(* The map and the recency list hold the same domains, each once, in every *)
(* reachable state (Acquire, removeLocked).                                *)
(***************************************************************************)
THEOREM BankOrder == Spec => []OrderTracksEntries
<1>1. BankInv => OrderTracksEntries
  BY DEF BankInv
<1> QED BY <1>1, BankSafe, PTL

(***************************************************************************)
(* The recency list agrees with the use times in every reachable state, so *)
(* evictLocked always drops the least recently used domain.                *)
(***************************************************************************)
THEOREM BankRecency == Spec => []RecencyOrdered
<1>1. BankInv => RecencyOrdered
  BY DEF BankInv
<1> QED BY <1>1, BankSafe, PTL

(***************************************************************************)
(* The byte counter is exact in every reachable state.                     *)
(***************************************************************************)
THEOREM BankAccounting == Spec => []AccountingExact
<1>1. BankInv => AccountingExact
  BY DEF BankInv
<1> QED BY <1>1, BankSafe, PTL

(***************************************************************************)
(* The budgets hold in every reachable state.                              *)
(***************************************************************************)
THEOREM BankBudget == Spec => []WithinBudget
<1>1. BankInv => WithinBudget
  BY DEF BankInv
<1> QED BY <1>1, BankSafe, PTL

(***************************************************************************)
(* An Acquire, whoever calls it, leaves the models that stay as they were. *)
(***************************************************************************)
LEMMA AcquireKeepsModels ==
  ASSUME BankInv, NEW id,
         AcquireHit(id) \/ (\E size \in Sizes : AcquireMiss(id, size)) \/ AcquireFail(id)
  PROVE  KeepsResidentModels
<1>1. CASE AcquireHit(id)
  BY <1>1 DEF AcquireHit, BankInv, TypeOK, Entry, Resident, KeepsResidentModels
<1>2. ASSUME NEW size \in Sizes, AcquireMiss(id, size)
      PROVE  KeepsResidentModels
  BY <1>2 DEF AcquireMiss, Insert, Resident, KeepsResidentModels
<1>3. CASE AcquireFail(id)
  BY <1>3 DEF AcquireFail, KeepsResidentModels
<1> QED BY <1>1, <1>2, <1>3

(***************************************************************************)
(* A domain that stays resident keeps its model: no step loads it twice.   *)
(***************************************************************************)
THEOREM BankStable == Spec => ResidentModelStable
<1>1. BankInv /\ [Next]_vars => [KeepsResidentModels]_vars
  <2> SUFFICES ASSUME BankInv, Next PROVE KeepsResidentModels
    OBVIOUS
  <2>1. ASSUME NEW c \in Clients, Begin(c) \/ Return(c)
        PROVE  KeepsResidentModels
    BY <2>1 DEF Begin, Return, bankVars, KeepsResidentModels
  <2>2. ASSUME NEW c \in Clients, Acquire(c)
        PROVE  KeepsResidentModels
    BY <2>2, AcquireKeepsModels DEF Acquire
  <2> QED BY <2>1, <2>2 DEF Next
<1> QED BY <1>1, BankSafe, PTL DEF Spec, ResidentModelStable

-----------------------------------------------------------------------------
(* The bank implements the abstract least-recently-used store.             *)

(***************************************************************************)
(* The weight of a set of items is the sum of their sizes in any order.    *)
(***************************************************************************)
LEMMA WeightIsSum ==
  ASSUME NEW S, IsFiniteSet(S), NEW h, NEW w \in [S -> Int],
         \A x \in S : h[x].size = w[x]
  PROVE  \E F : SumsParts(F, w, S) /\ Policy!Weight(S, h) = F[S]
<1> DEFINE Body(F) == [s \in SUBSET S |->
                         IF s = {} THEN 0
                         ELSE LET x == CHOOSE x \in s : TRUE
                              IN  h[x].size + F[s \ {x}]]
           iter == CHOOSE F : F = Body(F)
<1>1. \E F : F = Body(F)
  <2>1. PICK F \in [SUBSET S -> Int] : SumsParts(F, w, S)
    BY SumsExist
  <2>2. ASSUME NEW s \in SUBSET S
        PROVE  F[s] = IF s = {} THEN 0 ELSE h[Some(s)].size + F[s \ {Some(s)}]
    <3>1. s # {} => Some(s) \in S
      BY SomeRemoved
    <3> QED BY <2>1, <3>1 DEF SumsParts
  <2>3. F = [s \in SUBSET S |-> IF s = {} THEN 0 ELSE h[Some(s)].size + F[s \ {Some(s)}]]
    BY <2>1, <2>2
  <2>4. F = Body(F)
    BY <2>3 DEF Some
  <2> QED BY <2>4
<1>2. iter = Body(iter)
  <2> HIDE DEF Body
  <2> QED BY <1>1
<1>3. Policy!Weight(S, h) = iter[S]
  BY DEF Policy!Weight, Policy!MapThenSumSet, Policy!MapThenFoldSet
<1> HIDE DEF iter
<1>4. SumsParts(iter, w, S)
  <2> SUFFICES ASSUME NEW s \in SUBSET S
               PROVE  iter[s] = IF s = {} THEN 0 ELSE w[Some(s)] + iter[s \ {Some(s)}]
    BY DEF SumsParts
  <2>1. iter[s] = Body(iter)[s]
    BY <1>2
  <2>2. iter[s] = IF s = {} THEN 0 ELSE h[Some(s)].size + iter[s \ {Some(s)}]
    BY <2>1 DEF Some
  <2>3. s # {} => Some(s) \in S
    BY SomeRemoved
  <2> QED BY <2>2, <2>3
<1> QED BY <1>3, <1>4

\* What is left when the k oldest entries are gone and id has come.
Left(k, id) == {order[i] : i \in (k + 1)..Len(order)} \cup {id}

(***************************************************************************)
(* Counting along the list agrees with counting the set: FitsAfter decides *)
(* what Fits says.                                                         *)
(***************************************************************************)
LEMMA LeftFits ==
  ASSUME BankInv, NEW id, id \notin Resident, NEW size \in Sizes,
         NEW k \in 0..Len(order), NEW h,
         h[id].size = size,
         \A i \in (k + 1)..Len(order) : h[order[i]].size = entries[order[i]].bytes
  PROVE  Policy!Fits(Left(k, id), h) <=> FitsAfter(k, size)
<1> DEFINE n == Len(order)
           K == Left(k, id)
           m == n - k + 1
           list == [i \in 1..m |-> IF i <= n - k THEN order[k + i] ELSE id]
           w == [x \in K |-> h[x].size]
<1>1. /\ n \in Nat /\ k \in Nat /\ k <= n /\ DOMAIN order = 1..n
      /\ \A i \in 1..n : order[i] \in Resident
      /\ \A i, j \in 1..n : order[i] = order[j] => i = j
      /\ size \in Nat /\ bytes \in Nat
      /\ m \in Nat /\ m = n + 1 - k
  BY BankConstants DEF BankInv, TypeOK, OrderTracksEntries
<1>2. Weights \in Seq(Int) /\ Len(Weights) = n
      /\ \A i \in 1..n : Weights[i] = entries[order[i]].bytes /\ Weights[i] \in Int
  BY <1>1, WeightsType DEF BankInv
<1> HIDE DEF n
<1>3. /\ \A i \in 1..m : list[i] \in K
      /\ \A i, j \in 1..m : list[i] = list[j] => i = j
      /\ \A x \in K : \E i \in 1..m : list[i] = x
      /\ list \in [1..m -> K]
  <2>1. \A i \in 1..m : i <= n - k \/ i = m
    BY <1>1
  <2>2. \A i \in 1..m : i <= n - k => k + i \in 1..n /\ k + i \in (k + 1)..n
    BY <1>1
  <2>3. \A i \in 1..m : list[i] \in K
    BY <1>1, <2>2 DEF Left, n
  <2>4. \A i, j \in 1..m : list[i] = list[j] => i = j
    <3> SUFFICES ASSUME NEW i \in 1..m, NEW j \in 1..m, list[i] = list[j] PROVE i = j
      OBVIOUS
    <3>1. CASE i <= n - k /\ j <= n - k
      <4>1. order[k + i] = order[k + j]
        BY <3>1
      <4>2. k + i = k + j
        BY <4>1, <3>1, <2>2, <1>1
      <4> QED BY <4>2, <1>1
    <3>2. CASE i <= n - k /\ j = m
      <4>1. order[k + i] = id
        BY <3>2, <1>1
      <4> QED BY <4>1, <3>2, <2>2, <1>1
    <3>3. CASE i = m /\ j <= n - k
      <4>1. order[k + j] = id
        BY <3>3, <1>1
      <4> QED BY <4>1, <3>3, <2>2, <1>1
    <3> QED BY <3>1, <3>2, <3>3, <2>1
  <2>5. \A x \in K : \E i \in 1..m : list[i] = x
    <3> TAKE x \in K
    <3>1. CASE x = id
      <4>1. m \in 1..m /\ list[m] = id
        BY <1>1
      <4> QED BY <4>1, <3>1
    <3>2. ASSUME NEW i \in (k + 1)..n, x = order[i]
          PROVE  \E l \in 1..m : list[l] = x
      <4>1. i - k \in 1..m /\ i - k <= n - k /\ k + (i - k) = i
        BY <1>1
      <4>2. list[i - k] = x
        BY <4>1, <3>2
      <4> QED BY <4>1, <4>2
    <3> QED BY <3>1, <3>2 DEF Left, n
  <2>6. list \in [1..m -> K]
    BY <2>3
  <2> QED BY <2>3, <2>4, <2>5, <2>6
<1>4. IsFiniteSet(K) /\ Cardinality(K) = m
  <2>1. list \in Bijection(1..m, K)
    BY <1>3 DEF Bijection, Injection, Surjection, IsInjective
  <2>2. IsFiniteSet(1..m) /\ Cardinality(1..m) = m
    <3> HIDE DEF m
    <3>1. IsFiniteSet(1..m) /\ Cardinality(1..m) = IF 1 > m THEN 0 ELSE m - 1 + 1
      BY <1>1, FS_Interval
    <3> QED BY <1>1, <3>1
  <2>3. ExistsBijection(1..m, K)
    BY <2>1 DEF ExistsBijection
  <2> HIDE DEF m, K
  <2> QED BY <2>2, <2>3, FS_Bijection
<1>5. /\ w \in [K -> Int] /\ \A x \in K : h[x].size = w[x]
      /\ w[id] = size
      /\ \A i \in (k + 1)..n : w[order[i]] = Weights[i]
  <2>1. id \in K /\ \A i \in (k + 1)..n : order[i] \in K /\ i \in 1..n
    BY <1>1 DEF Left, n
  <2>2. \A i \in (k + 1)..n : h[order[i]].size = Weights[i]
    BY <1>2, <2>1 DEF n
  <2>3. \A x \in K : x = id \/ \E i \in (k + 1)..n : x = order[i]
    BY DEF Left, n
  <2> HIDE DEF K
  <2>4. \A x \in K : h[x].size \in Int
    BY <1>1, <1>2, <2>1, <2>2, <2>3
  <2> QED BY <2>1, <2>2, <2>4
<1>6. PICK F : SumsParts(F, w, K) /\ Policy!Weight(K, h) = F[K]
  <2> HIDE DEF w, K
  <2> QED BY <1>4, <1>5, WeightIsSum
<1>7. F[K] = Total([i \in 1..m |-> w[list[i]]])
  <2>1. Named(list, m) = K
    BY <1>3 DEF Named
  <2>2. /\ IsFiniteSet(K) /\ w \in [K -> Int] /\ SumsParts(F, w, K)
        /\ m \in Nat /\ list \in [1..m -> K]
        /\ \A i, j \in 1..m : list[i] = list[j] => i = j
    BY <1>1, <1>3, <1>4, <1>5, <1>6
  <2> HIDE DEF w, K, list, m
  <2>3. F[Named(list, m)] = Total(WeightsOf(w, list, m))
    BY <2>2, SumsTotal, SMTT(30)
  <2> QED BY <2>1, <2>3 DEF WeightsOf
<1>8. Total([i \in 1..m |-> w[list[i]]]) = Total(SubSeq(Weights, k + 1, n)) + size
  <2> DEFINE rest == SubSeq(Weights, k + 1, n)
             all == [i \in 1..m |-> w[list[i]]]
  <2>1. /\ rest \in Seq(Int) /\ Len(rest) = n - k
        /\ \A i \in 1..(n - k) : rest[i] = Weights[k + i]
    <3>1. k + 1 \in Int /\ n \in Int /\ \A i \in (k + 1)..n : Weights[i] \in Int
      BY <1>1, <1>2
    <3>2. /\ SubSeq(Weights, k + 1, n) \in Seq(Int)
          /\ Len(SubSeq(Weights, k + 1, n)) = IF k + 1 <= n THEN n - (k + 1) + 1 ELSE 0
          /\ \A i \in 1..(n - (k + 1) + 1) : SubSeq(Weights, k + 1, n)[i] = Weights[(k + 1) + i - 1]
      BY <3>1, SubSeqProperties
    <3>3. \A i \in 1..(n - k) : (k + 1) + i - 1 = k + i /\ i \in 1..(n - (k + 1) + 1)
      BY <1>1
    <3>4. (IF k + 1 <= n THEN n - (k + 1) + 1 ELSE 0) = n - k
      BY <1>1
    <3> HIDE DEF n
    <3> QED BY <3>2, <3>3, <3>4
  <2>2. \A i \in 1..(n - k) : all[i] = rest[i]
    <3> TAKE i \in 1..(n - k)
    <3>1. i \in 1..m /\ i <= n - k /\ k + i \in (k + 1)..n
      BY <1>1
    <3>2. all[i] = w[order[k + i]]
      BY <3>1
    <3> HIDE DEF all, w
    <3> QED BY <3>1, <3>2, <1>5, <2>1
  <2>3. all[m] = size
    <3>1. m \in 1..m /\ ~(m <= n - k)
      BY <1>1
    <3>2. all[m] = w[id]
      BY <3>1
    <3> HIDE DEF all, w
    <3> QED BY <3>2, <1>5
  <2>4. all = Append(rest, size)
    <3>1. /\ Append(rest, size) \in Seq(Int) /\ Len(Append(rest, size)) = m
          /\ \A i \in 1..(n - k) : Append(rest, size)[i] = rest[i]
          /\ Append(rest, size)[m] = size
      <4> HIDE DEF rest
      <4>1. size \in Int
        BY <1>1
      <4>2. m = Len(rest) + 1
        BY <2>1, <1>1
      <4> HIDE DEF m
      <4> QED BY <2>1, <4>1, <4>2, AppendProperties
    <3>2. all \in Seq(Int) /\ Len(all) = m
      <4>1. \A i \in 1..m : w[list[i]] \in Int
        <5> HIDE DEF w, list
        <5> QED BY <1>3, <1>5
      <4>2. all \in [1..m -> Int]
        <5> HIDE DEF w, list
        <5> QED BY <4>1
      <4> HIDE DEF all, m
      <4> QED BY <4>2, <1>1
    <3>3. \A i \in 1..m : all[i] = Append(rest, size)[i]
      <4>1. \A i \in 1..m : i \in 1..(n - k) \/ i = m
        BY <1>1
      <4> HIDE DEF all, rest, m
      <4> QED BY <4>1, <2>2, <2>3, <3>1
    <3> HIDE DEF all, rest, m
    <3> QED BY <3>1, <3>2, <3>3, SeqEqual
  <2> HIDE DEF all, rest
  <2>5. Total(all) = Total(rest) + size
    BY <2>1, <2>4, <1>1, TotalAppend
  <2> QED BY <2>5 DEF all, rest
<1>9. /\ Total(Weights) = Freed(k) + Total(SubSeq(Weights, k + 1, n))
      /\ Freed(k) \in Int /\ bytes = Total(Weights)
      /\ Total(SubSeq(Weights, k + 1, n)) \in Int
  <2>1. Total(Weights) = Freed(k) + Total(SubSeq(Weights, k + 1, n)) /\ Freed(k) \in Int
    BY FreedIsPrefixTotal DEF BankInv, n
  <2>2. bytes = Total(Weights)
    BY DEF BankInv, AccountingExact, Weights
  <2>3. SubSeq(Weights, k + 1, n) \in Seq(Int)
    <3>1. k + 1 \in Int /\ n \in Int /\ \A i \in (k + 1)..n : Weights[i] \in Int
      BY <1>1, <1>2
    <3> QED BY <3>1, SubSeqProperties
  <2> QED BY <2>1, <2>2, <2>3, TotalType
<1> HIDE DEF w, K, list
<1>10. Policy!Weight(K, h) = bytes + size - Freed(k)
  BY <1>1, <1>6, <1>7, <1>8, <1>9
<1>11. Cardinality(K) = Len(order) + 1 - k
  BY <1>1, <1>4 DEF n
<1>12. Policy!Cardinality(K) = Cardinality(K)
  BY DEF Policy!Cardinality, Cardinality
<1> QED BY <1>10, <1>11, <1>12 DEF Policy!Fits, FitsAfter, K

\* The store the bank stands for: what it holds, without its list or counters.
Held == [d \in Resident |-> [size |-> entries[d].bytes, time |-> entries[d].used]]

(***************************************************************************)
(* A hit is a use of the abstract store.                                   *)
(***************************************************************************)
LEMMA HitIsUse ==
  ASSUME BankInv, NEW id, AcquireHit(id)
  PROVE  id \in Domains /\ Policy!Use(id)
<1>1. /\ id \in Resident /\ id \in Domains /\ clock \in Nat
      /\ clock' = clock + 1
      /\ entries' = [entries EXCEPT ![id].used = clock + 1]
      /\ entries \in [Resident -> Entry]
      /\ \A d \in Resident : entries[d].used \in Nat /\ entries[d].used <= clock
  BY DEF AcquireHit, BankInv, TypeOK, RecencyOrdered, Entry
<1>2. Resident' = Resident
  BY <1>1 DEF Resident
<1>3. /\ DOMAIN Held = Resident /\ DOMAIN Held' = Resident
      /\ \A d \in Resident : Held[d] = [size |-> entries[d].bytes, time |-> entries[d].used]
      /\ \A d \in Resident : Held'[d] = [size |-> entries'[d].bytes, time |-> entries'[d].used]
  BY <1>2 DEF Held
<1>F. ASSUME NEW d \in Resident
      PROVE  /\ Held[d].size = entries[d].bytes /\ Held[d].time = entries[d].used
             /\ Held'[d].size = entries'[d].bytes /\ Held'[d].time = entries'[d].used
  <2>1. Held[d] = [size |-> entries[d].bytes, time |-> entries[d].used]
    BY <1>3
  <2>2. Held'[d] = [size |-> entries'[d].bytes, time |-> entries'[d].used]
    BY <1>3
  <2> QED BY <2>1, <2>2
<1>4. \A d \in Resident : /\ entries'[d].bytes = entries[d].bytes
                          /\ d # id => entries'[d].used = entries[d].used
                          /\ d = id => entries'[d].used = clock + 1
  <2> TAKE d \in Resident
  <2>1. CASE d = id
    BY <2>1, <1>1 DEF Entry
  <2>2. CASE d # id
    BY <2>2, <1>1
  <2> QED BY <2>1, <2>2
<1>5. Held' = [Held EXCEPT ![id].time = Held'[id].time]
  <2>1. \A d \in Resident : Held'[d] = [Held EXCEPT ![id].time = Held'[id].time][d]
    <3> TAKE d \in Resident
    <3>1. CASE d = id
      <4>1. Held'[id] = [size |-> entries[id].bytes, time |-> Held'[id].time]
        <5>1. Held'[id] = [size |-> entries'[id].bytes, time |-> entries'[id].used]
          BY <1>1, <1>3
        <5>2. entries'[id].bytes = entries[id].bytes
          BY <1>1, <1>4
        <5>3. entries'[id].used = Held'[id].time
          BY <1>1, <1>F
        <5> QED BY <5>1, <5>2, <5>3
      <4>2. [Held EXCEPT ![id].time = Held'[id].time][id]
              = [Held[id] EXCEPT !.time = Held'[id].time]
        BY <1>1, <1>3
      <4>3. Held[id] = [size |-> entries[id].bytes, time |-> entries[id].used]
        BY <1>1, <1>3
      <4> QED BY <3>1, <4>1, <4>2, <4>3
    <3>2. CASE d # id
      <4>1. [Held EXCEPT ![id].time = Held'[id].time][d] = Held[d]
        BY <3>2, <1>3
      <4>2. Held'[d] = Held[d]
        BY <3>2, <1>3, <1>4
      <4> QED BY <4>1, <4>2
    <3> QED BY <3>1, <3>2
  <2>2. Held' = [d \in Resident |-> Held'[d]]
    BY <1>2 DEF Held
  <2>3. DOMAIN [Held EXCEPT ![id].time = Held'[id].time] = Resident
    BY <1>3
  <2>4. [Held EXCEPT ![id].time = Held'[id].time] =
          [d \in Resident |-> [Held EXCEPT ![id].time = Held'[id].time][d]]
    BY <1>3
  <2> QED BY <2>1, <2>2, <2>4
<1>6. \A d \in Resident : Held[d].time < Held'[id].time
  <2> TAKE d \in Resident
  <2>1. Held[d].time = entries[d].used /\ Held'[id].time = clock + 1
    <3>1. entries'[id].used = clock + 1
      BY <1>1, <1>4
    <3>2. Held'[id].time = entries'[id].used
      BY <1>1, <1>F
    <3> QED BY <3>1, <3>2, <1>F
  <2>2. entries[d].used \in Nat /\ entries[d].used <= clock
    BY <1>1
  <2> QED BY <2>1, <2>2, <1>1
<1> QED BY <1>1, <1>3, <1>5, <1>6 DEF Policy!Use, Policy!Newest, Held

(***************************************************************************)
(* A miss brings its item in: the survivors are the youngest entries, they *)
(* fit with the new one, and one more would not have.                      *)
(***************************************************************************)
LEMMA MissIsBringIn ==
  ASSUME BankInv, NEW id, NEW size \in Sizes, AcquireMiss(id, size)
  PROVE  id \in Domains /\ Policy!BringIn(id)
<1> DEFINE n == Len(order)
           k == Victims(size)
           kept == Resident \ {order[i] : i \in 1..k}
           dropped == Resident \ kept
<1>1. /\ id \in Domains /\ id \notin Resident
      /\ n \in Nat /\ DOMAIN order = 1..n /\ order \in Seq(Domains)
      /\ entries \in [Resident -> Entry] /\ clock \in Nat
      /\ \A d \in Resident : entries[d].used \in Nat /\ entries[d].used <= clock
      /\ \A i \in 1..n : order[i] \in Resident
      /\ \A d \in Resident : \E i \in 1..n : order[i] = d
      /\ \A i, j \in 1..n : order[i] = order[j] => i = j
      /\ \A i, j \in 1..n : i < j => entries[order[i]].used < entries[order[j]].used
  <2>1. id \in Domains /\ id \notin Resident
    BY DEF AcquireMiss
  <2>2. /\ n \in Nat /\ DOMAIN order = 1..n /\ order \in Seq(Domains)
        /\ entries \in [Resident -> Entry] /\ clock \in Nat
    BY BankConstants DEF BankInv, TypeOK
  <2>3. \A d \in Resident : entries[d].used \in Nat /\ entries[d].used <= clock
    BY <2>2 DEF BankInv, RecencyOrdered, Entry
  <2> HIDE DEF n
  <2>4. /\ \A i \in 1..n : order[i] \in Resident
        /\ \A d \in Resident : \E i \in 1..n : order[i] = d
        /\ \A i, j \in 1..n : order[i] = order[j] => i = j
    BY <2>2 DEF BankInv, OrderTracksEntries
  <2>5. \A i, j \in 1..n : i < j => entries[order[i]].used < entries[order[j]].used
    BY <2>2 DEF BankInv, RecencyOrdered
  <2> QED BY <2>1, <2>2, <2>3, <2>4, <2>5
<1>2. /\ k \in 0..n
      /\ FitsAfter(k, size) \/ k = n
      /\ \A j \in 0..(k - 1) : ~FitsAfter(j, size)
  BY VictimsSpec DEF BankInv
<1> HIDE DEF k, n
<1>N. k \in Int /\ n \in Int /\ k >= 0 /\ k <= n
  BY <1>1, <1>2
<1>3. /\ clock' = clock + 1
      /\ entries' = [d \in kept \cup {id} |->
                       IF d = id THEN [model |-> clock + 1, bytes |-> size, used |-> clock + 1]
                       ELSE entries[d]]
  BY DEF AcquireMiss, Insert, k
<1>4. /\ \A i \in 1..k : i \in 1..n /\ order[i] \in dropped
      /\ \A d \in dropped : \E i \in 1..k : order[i] = d
      /\ \A i \in (k + 1)..n : i \in 1..n /\ order[i] \in kept
      /\ \A d \in kept : \E i \in (k + 1)..n : order[i] = d
  <2>1. /\ \A i \in 1..k : i \in 1..n
        /\ \A i \in (k + 1)..n : i \in 1..n
        /\ \A i \in 1..n : i \in 1..k \/ i \in (k + 1)..n
        /\ \A i \in 1..k, j \in (k + 1)..n : i < j /\ i # j
    BY <1>N
  <2>2. \A i \in 1..k : order[i] \in dropped
    BY <1>1, <2>1
  <2>3. \A d \in dropped : \E i \in 1..k : order[i] = d
    OBVIOUS
  <2>4. \A i \in (k + 1)..n : order[i] \in kept
    BY <1>1, <2>1
  <2>5. \A d \in kept : \E i \in (k + 1)..n : order[i] = d
    BY <1>1, <2>1
  <2> QED BY <2>1, <2>2, <2>3, <2>4, <2>5
<1>5. kept \subseteq Resident /\ dropped = Resident \ kept /\ id \notin kept
  BY <1>1
<1> HIDE DEF kept, dropped
<1>6. /\ Resident' = kept \cup {id}
      /\ \A d \in kept : entries'[d] = entries[d]
      /\ entries'[id].bytes = size /\ entries'[id].used = clock + 1
  BY <1>3, <1>5 DEF Resident
<1>7. /\ DOMAIN Held = Resident /\ DOMAIN Held' = kept \cup {id}
      /\ \A d \in Resident : Held[d] = [size |-> entries[d].bytes, time |-> entries[d].used]
      /\ \A d \in kept \cup {id} :
           Held'[d] = [size |-> entries'[d].bytes, time |-> entries'[d].used]
  BY <1>6 DEF Held
<1>F. ASSUME NEW d \in Resident
      PROVE  Held[d].size = entries[d].bytes /\ Held[d].time = entries[d].used
  <2>1. Held[d] = [size |-> entries[d].bytes, time |-> entries[d].used]
    BY <1>7
  <2> QED BY <2>1
<1>G. Held'[id].size = size /\ Held'[id].time = clock + 1
  <2>1. Held'[id] = [size |-> entries'[id].bytes, time |-> entries'[id].used]
    BY <1>7
  <2>2. Held'[id].size = entries'[id].bytes /\ Held'[id].time = entries'[id].used
    BY <2>1
  <2> QED BY <2>2, <1>6
<1>8. \A d \in kept : Held'[d] = Held[d]
  BY <1>5, <1>6, <1>7
<1>9. /\ Held'[id].size = size
      /\ \A d \in Resident : Held[d].time < Held'[id].time
  <2>1. \A d \in Resident : /\ Held[d].time = entries[d].used
                            /\ entries[d].used \in Nat /\ entries[d].used <= clock
    BY <1>1, <1>F
  <2> QED BY <2>1, <1>G, <1>1
<1>10. ASSUME NEW d \in dropped, NEW j \in kept
       PROVE  Held[d].time < Held[j].time
  <2>1. PICK i \in 1..k : order[i] = d
    BY <1>4
  <2>2. PICK l \in (k + 1)..n : order[l] = j
    BY <1>4
  <2>3. i \in 1..n /\ l \in 1..n /\ i < l
    BY <1>N
  <2>4. entries[d].used < entries[j].used
    BY <1>1, <2>1, <2>2, <2>3
  <2> QED BY <2>4, <1>5, <1>F
<1>11. Left(k, id) = kept \cup {id}
  BY <1>4 DEF Left, n
<1>12. kept = {} \/ Policy!Fits(kept \cup {id}, Held')
  <2>1. CASE k = n
    <3>1. (k + 1)..n = {}
      BY <2>1, <1>1
    <3> QED BY <3>1, <1>4
  <2>2. CASE FitsAfter(k, size)
    <3> DEFINE h == Held'
    <3>1. /\ h[id].size = size
          /\ \A i \in (k + 1)..Len(order) : h[order[i]].size = entries[order[i]].bytes
      <4>1. ASSUME NEW i \in (k + 1)..n PROVE h[order[i]].size = entries[order[i]].bytes
        <5>1. order[i] \in kept /\ order[i] \in Resident
          BY <1>4, <1>5
        <5>2. h[order[i]] = Held[order[i]]
          BY <5>1, <1>8
        <5> HIDE DEF h
        <5> QED BY <5>1, <5>2, <1>F
      <4> QED BY <4>1, <1>G DEF n
    <3> HIDE DEF h
    <3>2. Policy!Fits(Left(k, id), h)
      BY <3>1, <2>2, <1>1, <1>2, LeftFits
    <3> QED BY <3>2, <1>11 DEF h
  <2> QED BY <2>1, <2>2, <1>2
<1>13. ASSUME NEW d \in dropped,
              \A e \in dropped : Held[e].time <= Held[d].time
       PROVE  ~Policy!Fits(kept \cup {id, d},
                 [j \in kept \cup {id, d} |-> IF j = d THEN Held[d] ELSE Held'[j]])
  <2>1. PICK i \in 1..k : order[i] = d
    BY <1>4
  <2>2. i = k
    <3>1. k \in 1..n /\ i \in 1..n /\ order[k] \in dropped
      BY <2>1, <1>N, <1>4
    <3>2. ~(i < k)
      <4>1. Held[order[k]].time <= Held[d].time
        BY <3>1, <1>13
      <4>2. entries[order[k]].used <= entries[d].used
        BY <4>1, <3>1, <1>5, <1>F
      <4>3. i < k => entries[d].used < entries[order[k]].used
        BY <3>1, <2>1, <1>1
      <4>4. entries[order[k]].used \in Nat /\ entries[d].used \in Nat
        BY <3>1, <1>1, <1>5
      <4> QED BY <4>2, <4>3, <4>4
    <3> QED BY <3>1, <3>2
  <2> DEFINE h == [j \in kept \cup {id, d} |-> IF j = d THEN Held[d] ELSE Held'[j]]
             K == Left(k - 1, id)
  <2>3. k - 1 \in 0..n /\ k - 1 \in 0..(k - 1) /\ k \in 1..n /\ (k - 1) + 1 = k
    BY <2>2, <1>N
  <2>4. \A l \in k..n : l = k \/ l \in (k + 1)..n
    BY <2>3, <1>1
  <2>5. k \in k..n /\ \A l \in (k + 1)..n : l \in k..n
    BY <2>3, <1>1
  <2>6. K = kept \cup {id, d}
    <3>1. K = {order[l] : l \in k..n} \cup {id}
      BY <2>3 DEF Left, n
    <3> HIDE DEF K
    <3> QED BY <3>1, <2>1, <2>2, <2>4, <2>5, <1>4
  <2>7. d \in Resident /\ d # id /\ d \notin kept
    BY <1>1, <1>5
  <2>8. h[id].size = size
    BY <2>7, <1>9
  <2>9. \A l \in k..n : h[order[l]].size = entries[order[l]].bytes
    <3> TAKE l \in k..n
    <3>1. CASE l = k
      <4>1. h[d] = Held[d]
        OBVIOUS
      <4> HIDE DEF h
      <4> QED BY <4>1, <3>1, <2>1, <2>2, <2>7, <1>F
    <3>2. CASE l \in (k + 1)..n
      <4>1. order[l] \in kept
        BY <3>2, <1>4
      <4>2. h[order[l]] = Held[order[l]]
        BY <4>1, <2>7, <1>8
      <4> HIDE DEF h
      <4> QED BY <4>1, <4>2, <1>5, <1>F
    <3> QED BY <3>1, <3>2, <2>4
  <2> HIDE DEF h
  <2>10. Policy!Fits(K, h) <=> FitsAfter(k - 1, size)
    <3>1. \A l \in ((k - 1) + 1)..Len(order) : h[order[l]].size = entries[order[l]].bytes
      BY <2>3, <2>9 DEF n
    <3>2. k - 1 \in 0..Len(order)
      BY <2>3 DEF n
    <3> HIDE DEF n
    <3> QED BY <3>1, <3>2, <2>8, <1>1, LeftFits
  <2>11. ~FitsAfter(k - 1, size)
    BY <2>3, <1>2
  <2>12. ~Policy!Fits(kept \cup {id, d}, h)
    BY <2>6, <2>10, <2>11
  <2> QED BY <2>12 DEF h
<1>14. Policy!BringIn(id)
  <2>1. id \in Domains \ DOMAIN Held /\ kept \in SUBSET DOMAIN Held
        /\ DOMAIN Held \ kept = dropped
    BY <1>1, <1>5, <1>7
  <2>2. Policy!Newest(Held'[id].time)
    BY <1>7, <1>9 DEF Policy!Newest, Held
  <2>3. Held'[id].size \in Sizes
    BY <1>9
  <2>4. \A d \in dropped :
          (\A e \in dropped : Held[e].time <= Held[d].time) =>
            ~Policy!Fits(kept \cup {id, d},
               [j \in kept \cup {id, d} |-> IF j = d THEN Held[d] ELSE Held'[j]])
    BY <1>13
  <2>5. /\ DOMAIN Held' = kept \cup {id}
        /\ \A j \in kept : Held'[j] = Held[j]
        /\ \A d \in dropped, j \in kept : Held[d].time < Held[j].time
    BY <1>7, <1>8, <1>10
  <2>6. \E K \in SUBSET DOMAIN Held :
          LET D == DOMAIN Held \ K
          IN  /\ DOMAIN Held' = K \cup {id}
              /\ \A j \in K : Held'[j] = Held[j]
              /\ Held'[id].size \in Sizes
              /\ Policy!Newest(Held'[id].time)
              /\ \A d \in D, j \in K : Held[d].time < Held[j].time
              /\ K = {} \/ Policy!Fits(K \cup {id}, Held')
              /\ \A d \in D :
                   (\A e \in D : Held[e].time <= Held[d].time) =>
                     ~Policy!Fits(K \cup {id, d},
                        [j \in K \cup {id, d} |-> IF j = d THEN Held[d] ELSE Held'[j]])
    <3>0. kept \in SUBSET DOMAIN Held
      BY <2>1
    <3>1. DOMAIN Held \ kept = dropped
      BY <2>1
    <3> QED BY <3>0, <3>1, <2>2, <2>3, <2>4, <2>5, <1>12
  <2> QED BY <2>1, <2>6, Zenon DEF Policy!BringIn, Held
<1> QED BY <1>1, <1>14

(***************************************************************************)
(* Every Acquire maps to a step of the abstract store or to none.          *)
(***************************************************************************)
LEMMA AcquireIsPolicy ==
  ASSUME BankInv, NEW id,
         AcquireHit(id) \/ (\E size \in Sizes : AcquireMiss(id, size)) \/ AcquireFail(id)
  PROVE  [Policy!LNext]_Held
<1>1. CASE AcquireHit(id)
  BY <1>1, HitIsUse DEF Policy!LNext
<1>2. CASE \E size \in Sizes : AcquireMiss(id, size)
  BY <1>2, MissIsBringIn DEF Policy!LNext
<1>3. CASE AcquireFail(id)
  BY <1>3 DEF AcquireFail, Held, Resident
<1> QED BY <1>1, <1>2, <1>3

LEMMA BankStepIsPolicy == BankInv /\ [Next]_vars => [Policy!LNext]_Held
<1> SUFFICES ASSUME BankInv, [Next]_vars PROVE [Policy!LNext]_Held
  OBVIOUS
<1>1. (UNCHANGED entries) => UNCHANGED Held
  BY DEF Held, Resident
<1>2. ASSUME NEW c \in Clients, Acquire(c) PROVE [Policy!LNext]_Held
  BY <1>2, AcquireIsPolicy DEF Acquire
<1>3. ASSUME NEW c \in Clients, Begin(c) \/ Return(c) PROVE [Policy!LNext]_Held
  BY <1>1, <1>3 DEF Begin, Return, bankVars
<1>4. CASE UNCHANGED vars
  BY <1>1, <1>4 DEF vars
<1> QED BY <1>2, <1>3, <1>4 DEF Next

LEMMA BankInitIsPolicy == Init => Policy!LInit
<1> SUFFICES ASSUME Init PROVE Policy!LInit
  OBVIOUS
<1>1. Resident = {}
  BY DEF Init, Resident
<1>2. [d \in Resident |-> [size |-> entries[d].bytes, time |-> entries[d].used]] = << >>
  BY <1>1
<1> QED BY <1>2 DEF Policy!LInit

(***************************************************************************)
(* The bank implements the least-recently-used store: what Acquire evicts  *)
(* is older than what it keeps, needed to go, and never the model it just  *)
(* loaded (touchLocked, evictLocked, removeLocked).                        *)
(***************************************************************************)
THEOREM BankRefines == Spec => ImplementsLRU
<1>1. BankInv /\ [Next]_vars => [Policy!LNext]_Held
  BY BankStepIsPolicy
<1> QED BY <1>1, BankInitIsPolicy, BankInvInit, BankInvStep, PTL
        DEF Spec, ImplementsLRU, Policy!LSpec, Held

-----------------------------------------------------------------------------
(* The server.                                                             *)

Scored == [domain : Ids, value : 0..100]
Member == [domain : Ids, model : Nat, weight : 0..100]

\* The texts the router may be given.
Texts == {<< >>} \cup {Classified(request) : request \in ChatRequests}

Job == [request : ChatRequests, pinned : BOOLEAN, classified : Texts,
        scores : Seq(Scored), answers : Seq(Nat \cup {None}), members : Seq(Member)]

\* A route lists the likeliest domain first, and all but the first reach the
\* minimum score.
RouteOK(scores) ==
  /\ scores # << >>
  /\ \A k \in DOMAIN scores :
       k > 1 => scores[k - 1].value >= scores[k].value /\ scores[k].value >= MinDomainScore

\* The places of the route whose Acquire brought a model.
Loaded(j) == {k \in DOMAIN j.answers : j.answers[k] # None}

\* The member a place of the route makes.
MemberOf(j, k) ==
  [domain |-> j.scores[k].domain, model |-> j.answers[k], weight |-> j.scores[k].value]

\* The members are the places that loaded, all of them and in the order of the route.
BlendOK(j) ==
  /\ Len(j.answers) <= Len(j.scores)
  /\ \E place \in [DOMAIN j.members -> Loaded(j)] :
       /\ \A k \in Loaded(j) : \E n \in DOMAIN j.members : place[n] = k
       /\ \A n \in DOMAIN j.members :
            /\ j.members[n] = MemberOf(j, place[n])
            /\ n > 1 => place[n - 1] < place[n]

\* A request that pinned no domain was classified by its text.
JobOK(j) ==
  /\ RouteOK(j.scores)
  /\ BlendOK(j)
  /\ ~j.pinned => j.classified = Classified(j.request)

JobsOK ==
  /\ job \in [Handlers -> Job \cup {None}]
  /\ \A h \in Handlers : job[h] # None => JobOK(job[h])

\* The bank's invariant does not depend on the requests, and a request only on
\* its own steps.
ServingInv == BankInv /\ JobsOK

-----------------------------------------------------------------------------
(* The router's operators.                                                 *)

(***************************************************************************)
(* An injective ranking of 1..n by 1..n gives out every rank.              *)
(***************************************************************************)
LEMMA RankOnto ==
  ASSUME NEW n \in Nat, NEW f \in [1..n -> 1..n],
         \A i, j \in 1..n : f[i] = f[j] => i = j
  PROVE  \A k \in 1..n : \E i \in 1..n : f[i] = k
<1>1. f \in Injection(1..n, 1..n)
  BY DEF Injection, IsInjective
<1>2. IsFiniteSet(1..n)
  BY FS_Interval
<1>3. f \in Surjection(1..n, 1..n)
  BY <1>1, <1>2, FS_Injection
<1> QED BY <1>3 DEF Surjection

\* The kth score is that of class at[k], each class once, by falling probability.
Sorts(at, n, domains, p) ==
  /\ Route(domains, p) = [k \in 1..n |-> [domain |-> domains[at[k]], value |-> p[at[k]]]]
  /\ \A k, l \in 1..n : at[k] = at[l] => k = l
  /\ \A k, l \in 1..n : k < l => p[at[k]] >= p[at[l]]

(***************************************************************************)
(* Route lists every class once, by falling probability.                   *)
(***************************************************************************)
LEMMA RouteSorts ==
  ASSUME NEW n \in Nat, NEW domains, NEW p \in [1..n -> Int]
  PROVE  \E at \in [1..n -> 1..n] : Sorts(at, n, domains, p)
<1> DEFINE Before(i) == {j \in DOMAIN p :
                        \/ p[j] > p[i]
                        \/ p[j] = p[i] /\ j < i}
           place(i) == 1 + Cardinality(Before(i))
           At(k) == CHOOSE i \in DOMAIN p : place(i) = k
           at == [k \in 1..n |-> At(k)]
<1>1. /\ DOMAIN p = 1..n /\ \A i \in 1..n : p[i] \in Int
      /\ IsFiniteSet(1..n) /\ Cardinality(1..n) = n
  <2>1. IsFiniteSet(1..n) /\ Cardinality(1..n) = IF 1 > n THEN 0 ELSE n - 1 + 1
    BY FS_Interval
  <2>2. Cardinality(1..n) = n
    BY <2>1
  <2>3. DOMAIN p = 1..n
    OBVIOUS
  <2> QED BY <2>1, <2>2, <2>3
<1>2. ASSUME NEW i \in 1..n
      PROVE  /\ IsFiniteSet(Before(i)) /\ Cardinality(Before(i)) \in Nat
             /\ place(i) \in 1..n
  <2>1. Before(i) \in SUBSET (1..n) /\ Before(i) # 1..n
    BY <1>1
  <2> HIDE DEF Before
  <2>2. /\ IsFiniteSet(Before(i)) /\ Cardinality(Before(i)) <= Cardinality(1..n)
        /\ Cardinality(1..n) = Cardinality(Before(i)) => 1..n = Before(i)
    BY <1>1, <2>1, FS_Subset
  <2>3. Cardinality(Before(i)) \in Nat
    BY <2>2, FS_CardinalityType
  <2> QED BY <1>1, <2>1, <2>2, <2>3
<1>3. ASSUME NEW i \in 1..n, NEW j \in 1..n, i \in Before(j)
      PROVE  place(i) < place(j)
  <2>1. Before(i) \in SUBSET Before(j) /\ i \in Before(j) /\ i \notin Before(i)
    BY <1>1, <1>3
  <2>2. Before(i) # Before(j)
    BY <2>1
  <2> HIDE DEF Before
  <2>3. /\ Cardinality(Before(i)) <= Cardinality(Before(j))
        /\ Cardinality(Before(j)) = Cardinality(Before(i)) => Before(j) = Before(i)
    BY <1>2, <2>1, FS_Subset
  <2> QED BY <1>2, <2>2, <2>3
<1>4. ASSUME NEW i \in 1..n, NEW j \in 1..n, i # j
      PROVE  i \in Before(j) \/ j \in Before(i)
  <2>1. p[i] \in Int /\ p[j] \in Int /\ i \in DOMAIN p /\ j \in DOMAIN p
    BY <1>1
  <2>2. \/ p[i] > p[j] \/ (p[i] = p[j] /\ i < j)
        \/ p[j] > p[i] \/ (p[j] = p[i] /\ j < i)
    BY <2>1, <1>4
  <2>3. CASE p[i] > p[j] \/ (p[i] = p[j] /\ i < j)
    BY <2>1, <2>3
  <2>4. CASE p[j] > p[i] \/ (p[j] = p[i] /\ j < i)
    BY <2>1, <2>4
  <2> QED BY <2>2, <2>3, <2>4
<1>5. \A k \in 1..n : \E i \in 1..n : place(i) = k
  <2> DEFINE f == [i \in 1..n |-> place(i)]
  <2> HIDE DEF Before
  <2>1. f \in [1..n -> 1..n]
    BY <1>2
  <2>2. \A i, j \in 1..n : f[i] = f[j] => i = j
    <3> TAKE i, j \in 1..n
    <3>1. i # j => place(i) < place(j) \/ place(j) < place(i)
      BY <1>3, <1>4
    <3>2. place(i) \in Int /\ place(j) \in Int
      BY <1>2
    <3> HIDE DEF place
    <3> QED BY <3>1, <3>2
  <2> HIDE DEF f
  <2>3. \A k \in 1..n : \E i \in 1..n : f[i] = k
    BY <2>1, <2>2, RankOnto
  <2> QED BY <2>3 DEF f
<1>6. \A k \in 1..n : at[k] \in 1..n /\ place(at[k]) = k
  <2> HIDE DEF place
  <2> QED BY <1>1, <1>5
<1>7. Route(domains, p) =
        [k \in 1..n |-> [domain |-> domains[at[k]], value |-> p[at[k]]]]
  <2>1. Route(domains, p) =
          [k \in DOMAIN p |-> [domain |-> domains[At(k)], value |-> p[At(k)]]]
    BY DEF Route
  <2> HIDE DEF At
  <2> QED BY <2>1, <1>1
<1> HIDE DEF at
<1>8. \A k, l \in 1..n : at[k] = at[l] => k = l
  BY <1>6
<1>9. \A k, l \in 1..n : k < l => p[at[k]] >= p[at[l]]
  <2> SUFFICES ASSUME NEW k \in 1..n, NEW l \in 1..n, k < l
               PROVE  p[at[k]] >= p[at[l]]
    OBVIOUS
  <2>1. place(at[k]) < place(at[l]) /\ at[k] \in 1..n /\ at[l] \in 1..n
    BY <1>6
  <2>2. at[k] # at[l] /\ at[l] \notin Before(at[k])
    <3>1. k \in Int /\ l \in Int /\ place(at[k]) = k /\ place(at[l]) = l
      BY <1>6
    <3>2. at[l] \in Before(at[k]) => place(at[l]) < place(at[k])
      BY <2>1, <1>3
    <3> HIDE DEF Before, place
    <3> QED BY <3>1, <3>2
  <2>3. at[k] \in Before(at[l])
    BY <2>1, <2>2, <1>4
  <2> QED BY <2>1, <2>3, <1>1
<1>10. at \in [1..n -> 1..n]
  BY <1>6 DEF at
<1> HIDE DEF Before
<1> QED BY <1>7, <1>8, <1>9, <1>10 DEF Sorts

(***************************************************************************)
(* TopDomains keeps the first scores of the list, the best one whatever    *)
(* its value, and then only such as reach the minimum.                     *)
(***************************************************************************)
LEMMA TopDomainsPrefix ==
  ASSUME NEW S, NEW scores \in Seq(S), scores # << >>,
         NEW count \in Int, NEW minScore
  PROVE  \E m \in 1..Len(scores) :
           /\ TopDomains(scores, count, minScore) = [k \in 1..m |-> scores[k]]
           /\ \A k \in 2..m : scores[k].value >= minScore
<1> DEFINE n == Len(scores)
           reaching == {k \in DOMAIN scores : \A j \in 2..k : scores[j].value >= minScore}
           kept == {k \in reaching : k <= AtLeastOne(count)}
           out == {k \in 1..(n + 1) : k \notin kept}
<1>1. n \in Nat /\ n >= 1 /\ DOMAIN scores = 1..n
  OBVIOUS
<1>2. AtLeastOne(count) \in Int /\ AtLeastOne(count) >= 1
  BY DEF AtLeastOne
<1>3. 1 \in kept /\ n + 1 \in out
  BY <1>1, <1>2
<1>4. PICK x \in out : \A y \in out : x <= y
  <2> HIDE DEF kept
  <2>1. out \in SUBSET Nat /\ out # {}
    BY <1>1, <1>3
  <2> HIDE DEF out
  <2> QED BY <2>1, LeastElement
<1>5. x \in 2..(n + 1)
  <2> HIDE DEF kept
  <2>1. x # 1 /\ x \in 1..(n + 1)
    BY <1>3
  <2> QED BY <1>1, <2>1
<1> DEFINE m == x - 1
<1>6. m \in 1..n
  BY <1>1, <1>5
<1>7. \A k \in 1..m : k \in kept
  <2> HIDE DEF kept
  <2> TAKE k \in 1..m
  <2>1. k \in 1..(n + 1) /\ ~(x <= k)
    BY <1>1, <1>5
  <2> QED BY <2>1, <1>4
<1>8. ASSUME NEW k \in kept PROVE k \in 1..m
  <2> SUFFICES ASSUME ~(k \in 1..m) PROVE FALSE
    OBVIOUS
  <2>1. k \in 1..n /\ x <= k
    BY <1>1, <1>5
  <2>2. x \in 1..n /\ (\A j \in 2..k : scores[j].value >= minScore) /\ k <= AtLeastOne(count)
    BY <1>1, <1>5, <2>1
  <2>3. \A j \in 2..x : j \in 2..k
    BY <1>1, <1>5, <2>1
  <2>4. x <= AtLeastOne(count)
    BY <1>1, <1>2, <1>5, <2>1, <2>2
  <2>5. x \in kept
    BY <1>1, <2>2, <2>3, <2>4
  <2>6. x \notin kept
    OBVIOUS
  <2> QED BY <2>5, <2>6
<1>9. kept = 1..m
  <2> HIDE DEF kept, m
  <2> QED BY <1>7, <1>8
<1>10. TopDomains(scores, count, minScore) = [k \in kept |-> scores[k]]
  BY DEF TopDomains
<1>11. \A k \in 2..m : scores[k].value >= minScore
  <2>1. \A j \in 2..m : scores[j].value >= minScore
    BY <1>6, <1>7
  <2> QED BY <2>1
<1> HIDE DEF kept, m
<1> QED BY <1>6, <1>9, <1>10, <1>11

(***************************************************************************)
(* What the router answers is a route, whichever classifier it asked.      *)
(***************************************************************************)
LEMMA ScoresAreRoute ==
  ASSUME NEW ngram \in Distributions,
         NEW transformer \in (IF HasTransformer THEN Distributions ELSE {<< >>})
  PROVE  /\ Scores(ngram, transformer) \in Seq(Scored)
         /\ RouteOK(Scores(ngram, transformer))
<1> DEFINE n == Len(RouterDomains)
           p == Predict(Threshold, ngram, transformer)
           r == Route(RouterDomains, p)
           Percent == 0..100
<1>1. /\ n \in Nat /\ n >= 1 /\ DOMAIN RouterDomains = 1..n
      /\ \A i \in 1..n : RouterDomains[i] \in Ids
      /\ Distributions \subseteq [1..n -> Percent]
      /\ MaxDomains \in Int /\ MinDomainScore \in Int
  <2>1. /\ RouterDomains \in Seq(Ids) /\ RouterDomains # << >>
        /\ Distributions \subseteq [DOMAIN RouterDomains -> Percent]
        /\ MaxDomains \in Int /\ MinDomainScore \in Int
    BY ServingConstants
  <2>2. /\ n \in Nat /\ n >= 1 /\ DOMAIN RouterDomains = 1..n
        /\ \A i \in 1..n : RouterDomains[i] \in Ids
    BY <2>1
  <2> HIDE DEF n, Percent
  <2> QED BY <2>1, <2>2
<1>2. p \in Distributions
  BY DEF Predict
<1>3. p \in [1..n -> Percent]
  BY <1>1, <1>2
<1>4. Percent \subseteq Int
  OBVIOUS
<1> HIDE DEF p, Percent
<1>5. p \in [1..n -> Int]
  BY <1>3, <1>4
<1>6. PICK at \in [1..n -> 1..n] :
        /\ r = [k \in 1..n |-> [domain |-> RouterDomains[at[k]], value |-> p[at[k]]]]
        /\ \A k, l \in 1..n : k < l => p[at[k]] >= p[at[l]]
  <2>1. n \in Nat
    BY <1>1
  <2> HIDE DEF n, r
  <2>2. \E at \in [1..n -> 1..n] : Sorts(at, n, RouterDomains, p)
    BY <2>1, <1>5, RouteSorts
  <2> QED BY <2>2 DEF r, Sorts
<1> HIDE DEF r
<1>7. \A k \in 1..n : /\ r[k] = [domain |-> RouterDomains[at[k]], value |-> p[at[k]]]
                      /\ at[k] \in 1..n
                      /\ r[k].domain = RouterDomains[at[k]]
                      /\ r[k].value = p[at[k]]
  BY <1>6
<1>8. r \in [1..n -> [domain : Ids, value : Percent]]
  BY <1>1, <1>3, <1>6
<1>9. /\ r \in Seq([domain : Ids, value : Percent]) /\ Len(r) = n /\ r # << >>
  <2> HIDE DEF n
  <2>1. r \in Seq([domain : Ids, value : Percent]) /\ Len(r) = n
    <3> DEFINE S == [domain : Ids, value : Percent]
    <3>1. n \in Nat /\ r \in [1..n -> S]
      BY <1>1, <1>8
    <3> HIDE DEF S
    <3>2. r \in Seq(S) /\ Len(r) = n
      BY <3>1
    <3> QED BY <3>2 DEF S
  <2> QED BY <2>1, <1>1
<1>10. AtLeastOne(MaxDomains) \in Int
  BY <1>1 DEF AtLeastOne
<1>11. PICK m \in 1..n :
         /\ TopDomains(r, AtLeastOne(MaxDomains), MinDomainScore) = [k \in 1..m |-> r[k]]
         /\ \A k \in 2..m : r[k].value >= MinDomainScore
  <2> HIDE DEF n
  <2> QED BY <1>9, <1>10, TopDomainsPrefix
<1> DEFINE s == Scores(ngram, transformer)
<1>12. s = [k \in 1..m |-> r[k]]
  BY <1>11 DEF Scores, r, p
<1> HIDE DEF s
<1>13. \A k \in 1..m : k \in 1..n /\ s[k] = r[k]
  BY <1>1, <1>12
<1>14. s \in Seq(Scored) /\ DOMAIN s = 1..m /\ s # << >>
  <2>1. s \in [1..m -> [domain : Ids, value : Percent]]
    BY <1>8, <1>12, <1>13
  <2>2. s \in [1..m -> Scored]
    BY <2>1 DEF Scored, Percent
  <2>3. m \in Nat /\ m >= 1
    BY <1>1
  <2> QED BY <2>2, <2>3
<1>16. ASSUME NEW k \in 1..m, k > 1
       PROVE  s[k - 1].value >= s[k].value /\ s[k].value >= MinDomainScore
  <2>1. k - 1 \in 1..m /\ k - 1 < k /\ k \in 2..m
    BY <1>1, <1>16
  <2>2. s[k].value = r[k].value /\ s[k].value = p[at[k]] /\ s[k - 1].value = p[at[k - 1]]
    BY <1>7, <1>13, <2>1
  <2>3. p[at[k - 1]] >= p[at[k]]
    <3>1. k - 1 \in 1..n /\ k \in 1..n
      BY <1>13, <2>1
    <3> HIDE DEF n
    <3> QED BY <3>1, <1>6, <2>1
  <2> QED BY <2>1, <2>2, <2>3, <1>11
<1>17. RouteOK(s)
  BY <1>14, <1>16 DEF RouteOK
<1> QED BY <1>14, <1>17 DEF s

(***************************************************************************)
(* Rendering changes the last message of the user only where it folds the  *)
(* system message into it: classification reads the client's own text.     *)
(***************************************************************************)
LEMMA LastUserContentKept ==
  ASSUME NEW messages \in Seq(Messages), NEW options,
         LET users == {i \in DOMAIN messages : messages[i].role = "user"}
         IN  ~ (/\ users = {2}
                /\ LeadingSystemOnly(messages)
                /\ Instructions(options) = << >>)
  PROVE  LastUserContent(RequestMessages(messages, options)) = LastUserContent(messages)
<1> DEFINE n == Len(messages)
           users == {i \in DOMAIN messages : messages[i].role = "user"}
           after == RequestMessages(messages, options)
<1>1. CASE ~(Instructions(options) = << >> /\ LeadingSystemOnly(messages))
  BY <1>1 DEF RequestMessages
<1>2. CASE Instructions(options) = << >> /\ LeadingSystemOnly(messages)
  <2>1. /\ n \in Nat /\ n >= 2 /\ DOMAIN messages = 1..n
        /\ messages[1].role = "system" /\ messages[2].role = "user"
        /\ messages[2] \in Messages
    BY <1>2 DEF LeadingSystemOnly
  <2>2. after = [messages EXCEPT ![2].content = messages[1].content \o @]
    BY <1>2 DEF RequestMessages
  <2>3. /\ DOMAIN after = DOMAIN messages
        /\ \A i \in DOMAIN messages : after[i].role = messages[i].role
        /\ \A i \in DOMAIN messages : i # 2 => after[i] = messages[i]
    <3> HIDE DEF after
    <3>1. DOMAIN after = DOMAIN messages
      BY <2>2
    <3>2. \A i \in DOMAIN messages : i # 2 => after[i] = messages[i]
      BY <2>2
    <3>3. after[2].role = messages[2].role
      BY <2>1, <2>2 DEF Messages
    <3> QED BY <3>1, <3>2, <3>3
  <2> HIDE DEF after
  <2>4. {i \in DOMAIN after : after[i].role = "user"} = users
    BY <2>3
  <2>5. 2 \in users /\ 1 \notin users /\ users \subseteq 1..n
    BY <2>1
  <2>6. PICK last \in users : \A j \in users : j <= last
    <3> DEFINE T == {k \in 0..n : n - k \in users}
    <3>1. T \in SUBSET Nat /\ n - 2 \in T
      BY <2>1, <2>5
    <3>2. PICK k \in T : \A j \in T : k <= j
      <4> HIDE DEF T
      <4> QED BY <3>1, LeastElement
    <3>3. n - k \in users
      OBVIOUS
    <3>4. ASSUME NEW j \in users PROVE j <= n - k
      <4>1. j \in 1..n /\ n - j \in 0..n /\ n - (n - j) = j
        BY <2>1
      <4>2. n - j \in T
        BY <4>1
      <4> QED BY <2>1, <3>2, <4>1, <4>2
    <3> QED BY <3>3, <3>4
  <2> DEFINE chosen == CHOOSE i \in users : \A j \in users : j <= i
  <2>7. chosen \in users /\ \A j \in users : j <= chosen
    BY <2>6
  <2>8. chosen # 2
    <3> SUFFICES ASSUME chosen = 2 PROVE FALSE
      OBVIOUS
    <3> HIDE DEF chosen
    <3>1. \A j \in users : j <= 2 /\ j \in 1..n
      BY <2>5, <2>7
    <3>2. \A j \in users : j = 2
      BY <3>1, <2>5
    <3>3. users = {2}
      BY <3>2, <2>5
    <3> QED BY <3>3, <1>2
  <2>9. LastUserContent(messages) = messages[chosen].content
    BY <2>5 DEF LastUserContent
  <2>10. LastUserContent(after) = after[chosen].content
    <3> DEFINE said == {i \in DOMAIN after : after[i].role = "user"}
    <3>1. LastUserContent(after) =
            IF said = {} THEN << >>
            ELSE after[CHOOSE i \in said : \A j \in said : j <= i].content
      BY DEF LastUserContent
    <3>2. said = users
      BY <2>4
    <3> HIDE DEF said, users
    <3> QED BY <3>1, <3>2, <2>5
  <2> HIDE DEF chosen
  <2>11. after[chosen] = messages[chosen]
    BY <2>3, <2>7, <2>8
  <2> QED BY <2>9, <2>10, <2>11 DEF after
<1> QED BY <1>1, <1>2

-----------------------------------------------------------------------------
(* The requests.                                                           *)

(***************************************************************************)
(* Another Acquire: its domain joins the blend, or does not load.          *)
(***************************************************************************)
LEMMA AnswerKeepsJob ==
  ASSUME NEW j \in Job, JobOK(j), Len(j.answers) < Len(j.scores),
         NEW model \in Nat, NEW next,
         \/ next = [j EXCEPT !.answers = Append(@, None)]
         \/ next = [j EXCEPT !.answers = Append(@, model),
                             !.members = Append(@, [domain |-> j.scores[Len(j.answers) + 1].domain,
                                                    model |-> model,
                                                    weight |-> WeightOf(j)])]
  PROVE  next \in Job /\ JobOK(next)
<1> DEFINE scores == j.scores
           had == j.answers
           i == Len(had) + 1
           new == [domain |-> scores[i].domain, model |-> model, weight |-> scores[i].value]
           old == j.members
<1>1. /\ scores \in Seq(Scored) /\ had \in Seq(Nat \cup {None}) /\ old \in Seq(Member)
      /\ RouteOK(scores) /\ BlendOK(j) /\ (~j.pinned => j.classified = Classified(j.request))
  BY DEF Job, JobOK
<1>2. /\ i \in 1..Len(scores) /\ Len(scores) \in Nat /\ DOMAIN scores = 1..Len(scores)
      /\ i \in Nat /\ Len(had) \in Nat /\ DOMAIN had = 1..Len(had)
  BY <1>1
<1>3. new \in Member
  <2>1. scores[i] \in Scored
    BY <1>1, <1>2
  <2> QED BY <2>1 DEF Scored, Member
<1>4. /\ Append(old, new) \in Seq(Member) /\ Len(Append(old, new)) = Len(old) + 1
      /\ \A n \in 1..Len(old) : Append(old, new)[n] = old[n]
      /\ Append(old, new)[Len(old) + 1] = new
      /\ Len(old) \in Nat /\ DOMAIN old = 1..Len(old)
      /\ DOMAIN Append(old, new) = 1..(Len(old) + 1)
  <2>1. old \in Seq(Member) /\ Len(old) \in Nat /\ DOMAIN old = 1..Len(old)
    BY <1>1
  <2> HIDE DEF old, new
  <2> QED BY <2>1, <1>3, AppendProperties
<1>5. ASSUME NEW answer \in Nat \cup {None}
      PROVE  /\ Append(had, answer) \in Seq(Nat \cup {None})
             /\ Len(Append(had, answer)) = i
             /\ DOMAIN Append(had, answer) = 1..i
             /\ \A k \in 1..Len(had) : Append(had, answer)[k] = had[k]
             /\ Append(had, answer)[i] = answer
  BY <1>1, <1>2, <1>5, AppendProperties
<1>6. \A k \in 1..i : k \in 1..Len(had) \/ k = i
  BY <1>2
<1>7. i \in 1..i /\ \A k \in 1..Len(had) : k \in 1..i /\ k # i /\ k < i
  BY <1>2
<1>8. PICK place \in [1..Len(old) -> Loaded(j)] :
        /\ \A k \in Loaded(j) : \E n \in 1..Len(old) : place[n] = k
        /\ \A n \in 1..Len(old) :
             /\ old[n] = MemberOf(j, place[n])
             /\ n > 1 => place[n - 1] < place[n]
  BY <1>1, <1>4 DEF BlendOK
<1>9. \A k \in Loaded(j) : k \in 1..Len(had) /\ had[k] # None
  BY <1>2 DEF Loaded
<1> HIDE DEF i, new, scores, old, had
<1>10. CASE next = [j EXCEPT !.answers = Append(@, None)]
  <2> DEFINE got == Append(had, None)
  <2>1. None \in Nat \cup {None}
    OBVIOUS
  <2>2. /\ got \in Seq(Nat \cup {None}) /\ Len(got) = i /\ DOMAIN got = 1..i /\ got[i] = None
        /\ \A k \in 1..Len(had) : got[k] = had[k]
    BY <2>1, <1>5
  <2>3. next = [j EXCEPT !.answers = got]
    BY <1>10 DEF had
  <2> HIDE DEF got
  <2>4. /\ next \in Job /\ next.scores = scores /\ next.answers = got /\ next.members = old
        /\ next.pinned = j.pinned /\ next.classified = j.classified /\ next.request = j.request
    BY <2>2, <2>3 DEF Job, scores, old
  <2>5. Loaded(next) = Loaded(j)
    <3>1. \A k : k \in Loaded(next) <=> k \in 1..i /\ got[k] # None
      BY <2>2, <2>4 DEF Loaded
    <3>2. \A k : k \in Loaded(j) <=> k \in 1..Len(had) /\ had[k] # None
      BY <1>2 DEF Loaded, had
    <3>3. \A k : k \in Loaded(next) <=> k \in Loaded(j)
      BY <3>1, <3>2, <2>2, <1>6, <1>7, Zenon
    <3> QED BY <3>3, Zenon
  <2>6. \A n \in 1..Len(old) : MemberOf(next, place[n]) = MemberOf(j, place[n])
    <3> TAKE n \in 1..Len(old)
    <3>1. place[n] \in 1..Len(had)
      BY <1>8, <1>9
    <3> QED BY <3>1, <2>2, <2>4 DEF MemberOf, scores, had
  <2>7. Len(next.answers) <= Len(next.scores)
    BY <1>2, <2>2, <2>4
  <2>8. DOMAIN next.members = 1..Len(old)
    BY <1>4, <2>4
  <2>9. /\ place \in [DOMAIN next.members -> Loaded(next)]
        /\ \A k \in Loaded(next) : \E n \in DOMAIN next.members : place[n] = k
    BY <1>8, <2>5, <2>8
  <2>10. \A n \in DOMAIN next.members :
           /\ next.members[n] = MemberOf(next, place[n])
           /\ n > 1 => place[n - 1] < place[n]
    BY <1>8, <2>4, <2>6, <2>8
  <2>11. BlendOK(next)
    BY <2>7, <2>9, <2>10 DEF BlendOK
  <2> QED BY <1>1, <2>4, <2>11 DEF JobOK
<1>11. CASE next = [j EXCEPT !.answers = Append(@, model),
                             !.members = Append(@, [domain |-> j.scores[Len(j.answers) + 1].domain,
                                                    model |-> model,
                                                    weight |-> WeightOf(j)])]
  <2> DEFINE got == Append(had, model)
             longer == Append(old, new)
             after == [n \in 1..(Len(old) + 1) |-> IF n = Len(old) + 1 THEN i ELSE place[n]]
  <2>1. model \in Nat \cup {None} /\ model # None
    BY ServingConstants
  <2>2. /\ got \in Seq(Nat \cup {None}) /\ Len(got) = i /\ DOMAIN got = 1..i /\ got[i] = model
        /\ \A k \in 1..Len(had) : got[k] = had[k]
    BY <2>1, <1>5
  <2>3. next = [j EXCEPT !.answers = got, !.members = longer]
    BY <1>11 DEF had, new, i, scores, old, WeightOf
  <2>4. /\ \A n \in 1..Len(old) : longer[n] = old[n]
        /\ longer[Len(old) + 1] = new
        /\ DOMAIN longer = 1..(Len(old) + 1)
        /\ longer \in Seq(Member)
    BY <1>4
  <2> HIDE DEF got, longer
  <2>5. /\ next \in Job /\ next.scores = scores /\ next.answers = got /\ next.members = longer
        /\ next.pinned = j.pinned /\ next.classified = j.classified /\ next.request = j.request
    BY <2>2, <2>3, <2>4 DEF Job, scores
  <2>6. \A k : k \in Loaded(next) <=> k \in Loaded(j) \/ k = i
    <3>1. \A k : k \in Loaded(next) <=> k \in 1..i /\ got[k] # None
      BY <2>2, <2>5 DEF Loaded
    <3>2. \A k : k \in Loaded(j) <=> k \in 1..Len(had) /\ had[k] # None
      BY <1>2 DEF Loaded, had
    <3> QED BY <3>1, <3>2, <2>1, <2>2, <1>6, <1>7, Zenon
  <2>7. \A n \in 1..(Len(old) + 1) : n \in 1..Len(old) \/ n = Len(old) + 1
    BY <1>4
  <2>8. /\ \A n \in 1..Len(old) : n # Len(old) + 1 /\ n \in 1..(Len(old) + 1)
        /\ Len(old) + 1 \in 1..(Len(old) + 1)
    BY <1>4
  <2>9. /\ \A n \in 1..Len(old) : after[n] = place[n]
        /\ after[Len(old) + 1] = i
        /\ after \in [1..(Len(old) + 1) -> Loaded(next)]
    BY <1>8, <2>6, <2>7, <2>8, Zenon
  <2> HIDE DEF after
  <2>10. \A k \in Loaded(next) : \E n \in 1..(Len(old) + 1) : after[n] = k
    BY <1>8, <2>6, <2>8, <2>9, Zenon
  <2>11. ASSUME NEW n \in 1..(Len(old) + 1)
         PROVE  /\ longer[n] = MemberOf(next, after[n])
                /\ n > 1 => after[n - 1] < after[n]
    <3>1. CASE n \in 1..Len(old)
      <4>1. place[n] \in 1..Len(had)
        BY <3>1, <1>8, <1>9
      <4>2. MemberOf(next, place[n]) = MemberOf(j, place[n])
        BY <4>1, <2>2, <2>5 DEF MemberOf, scores, had
      <4>3. n > 1 => n - 1 \in 1..Len(old)
        BY <3>1, <1>4
      <4> QED BY <3>1, <4>2, <4>3, <1>8, <2>4, <2>9
    <3>2. CASE n = Len(old) + 1
      <4>1. MemberOf(next, i) = new
        BY <2>2, <2>5 DEF MemberOf, new
      <4>2. n > 1 => n - 1 \in 1..Len(old) /\ n - 1 = Len(old)
        BY <3>2, <1>4
      <4>3. n > 1 => after[n - 1] < after[n]
        BY <3>2, <4>2, <2>9, <1>7, <1>8, <1>9
      <4> QED BY <3>2, <4>1, <4>3, <2>4, <2>9
    <3> QED BY <3>1, <3>2, <2>7
  <2>12. Len(next.answers) <= Len(next.scores)
    BY <1>2, <2>2, <2>5
  <2>13. DOMAIN next.members = 1..(Len(old) + 1)
    BY <2>4, <2>5
  <2>14. /\ after \in [DOMAIN next.members -> Loaded(next)]
         /\ \A k \in Loaded(next) : \E n \in DOMAIN next.members : after[n] = k
    BY <2>9, <2>10, <2>13
  <2>15. \A n \in DOMAIN next.members :
           /\ next.members[n] = MemberOf(next, after[n])
           /\ n > 1 => after[n - 1] < after[n]
    BY <2>5, <2>11, <2>13
  <2>16. BlendOK(next)
    BY <2>12, <2>14, <2>15 DEF BlendOK
  <2> QED BY <1>1, <2>5, <2>16 DEF JobOK
<1> QED BY <1>10, <1>11

(***************************************************************************)
(* A request that arrives has a route, and no answer yet.                  *)
(***************************************************************************)
LEMMA TakenIsJob ==
  ASSUME NEW request \in ChatRequests, NEW pinned \in BOOLEAN, NEW classified \in Texts,
         NEW scores \in Seq(Scored), RouteOK(scores),
         ~pinned => classified = Classified(request)
  PROVE  LET j == Taken(request, pinned, classified, scores)
         IN  j \in Job /\ JobOK(j)
<1> DEFINE j == Taken(request, pinned, classified, scores)
<1>1. /\ j = [request |-> request, pinned |-> pinned, classified |-> classified,
              scores |-> scores, answers |-> << >>, members |-> << >>]
  BY DEF Taken
<1>2. << >> \in Seq(Member) /\ << >> \in Seq(Nat \cup {None})
      /\ Len(scores) \in Nat /\ DOMAIN << >> = {} /\ Len(<< >>) = 0
  OBVIOUS
<1> HIDE DEF j
<1>3. j \in Job
  BY <1>1, <1>2 DEF Job
<1>4. BlendOK(j)
  <2>1. j.members = << >> /\ j.answers = << >> /\ j.scores = scores
    BY <1>1
  <2>2. Loaded(j) = {}
    BY <2>1, <1>2 DEF Loaded
  <2>3. << >> \in [DOMAIN j.members -> Loaded(j)]
    BY <2>1
  <2>4. Len(j.answers) <= Len(j.scores)
    BY <1>2, <2>1
  <2>5. DOMAIN j.members = {}
    BY <1>2, <2>1
  <2> QED BY <2>2, <2>3, <2>4, <2>5 DEF BlendOK
<1> QED BY <1>1, <1>3, <1>4 DEF JobOK, j

(***************************************************************************)
(* A handler that changes its own request leaves the others' alone.        *)
(***************************************************************************)
LEMMA OwnJobOnly ==
  ASSUME JobsOK, NEW h \in Handlers, NEW next \in Job \cup {None},
         job' = [job EXCEPT ![h] = next], next # None => JobOK(next)
  PROVE  JobsOK'
<1>1. job' \in [Handlers -> Job \cup {None}]
  BY DEF JobsOK
<1>2. \A g \in Handlers : job'[g] # None => JobOK(job'[g])
  <2> TAKE g \in Handlers
  <2>1. job'[g] = IF g = h THEN next ELSE job[g]
    BY DEF JobsOK
  <2> QED BY <2>1 DEF JobsOK
<1> QED BY <1>1, <1>2 DEF JobsOK

(***************************************************************************)
(* One Acquire of a routed domain.                                         *)
(***************************************************************************)
LEMMA AcquireRoutedKeepsJobs ==
  ASSUME ServingInv, NEW h \in Handlers, AcquireRouted(h)
  PROVE  JobsOK'
<1> DEFINE j == job[h]
           id == j.scores[Len(j.answers) + 1].domain
           joined(model) ==
             [j EXCEPT !.answers = Append(@, model),
                       !.members = Append(@, [domain |-> id, model |-> model,
                                              weight |-> WeightOf(j)])]
<1>1. /\ j \in Job /\ JobOK(j) /\ Len(j.answers) < Len(j.scores)
      /\ job \in [Handlers -> Job \cup {None}]
      /\ JobsOK /\ clock \in Nat
  BY DEF ServingInv, BankInv, TypeOK, JobsOK, AcquireRouted, Loading
<1>2. ASSUME NEW model \in Nat, Joined(h, id, model)
      PROVE  JobsOK'
  <2>1. job' = [job EXCEPT ![h] = joined(model)]
    BY <1>1, <1>2 DEF Joined
  <2>2. joined(model) \in Job /\ JobOK(joined(model))
    BY <1>1, AnswerKeepsJob
  <2> HIDE DEF joined
  <2> QED BY <2>1, <2>2, <1>1, OwnJobOnly
<1>3. CASE AcquireHit(id) /\ Joined(h, id, entries[id].model)
  <2>1. entries[id].model \in Nat
    BY <1>3 DEF ServingInv, BankInv, TypeOK, AcquireHit, Entry, Resident
  <2> QED BY <2>1, <1>2, <1>3
<1>4. CASE \E size \in Sizes : AcquireMiss(id, size) /\ Joined(h, id, clock + 1)
  BY <1>1, <1>2, <1>4
<1>5. CASE job' = [job EXCEPT ![h].answers = Append(@, None)]
  <2> DEFINE next == [j EXCEPT !.answers = Append(@, None)]
  <2>1. job' = [job EXCEPT ![h] = next]
    BY <1>1, <1>5
  <2>2. 0 \in Nat /\ next = [j EXCEPT !.answers = Append(@, None)]
    OBVIOUS
  <2> HIDE DEF next
  <2>3. next \in Job /\ JobOK(next)
    BY <1>1, <2>2, AnswerKeepsJob
  <2> QED BY <2>1, <2>3, <1>1, OwnJobOnly
<1> QED BY <1>3, <1>4, <1>5 DEF AcquireRouted

(***************************************************************************)
(* A request that is taken, with its domain pinned or routed.              *)
(***************************************************************************)
LEMMA ReceiveKeepsJobs ==
  ASSUME JobsOK, NEW h \in Handlers, Receive(h)
  PROVE  JobsOK'
<1>1. PICK request \in ChatRequests :
        \/ /\ Pinned(request)
           /\ job' = [job EXCEPT ![h] = Taken(request, TRUE, << >>,
                                              <<[domain |-> request.model, value |-> 100]>>)]
        \/ /\ ~Pinned(request)
           /\ \E ngram \in Distributions,
                 transformer \in (IF HasTransformer THEN Distributions ELSE {<< >>}) :
                job' = [job EXCEPT ![h] = Taken(request, FALSE, Classified(request),
                                                Scores(ngram, transformer))]
  BY DEF Receive
<1>2. CASE Pinned(request) /\ job' = [job EXCEPT ![h] = Taken(request, TRUE, << >>,
                                              <<[domain |-> request.model, value |-> 100]>>)]
  <2> DEFINE scores == <<[domain |-> request.model, value |-> 100]>>
             next == Taken(request, TRUE, << >>, scores)
  <2>1. request.model \in Ids
    BY <1>2, ServingConstants DEF Pinned
  <2>2. [domain |-> request.model, value |-> 100] \in Scored
    BY <2>1 DEF Scored
  <2>3. scores \in Seq(Scored) /\ DOMAIN scores = {1} /\ scores # << >>
    BY <2>2
  <2> HIDE DEF scores
  <2>4. RouteOK(scores)
    BY <2>3 DEF RouteOK
  <2>5. << >> \in Texts
    BY DEF Texts
  <2>6. next \in Job /\ JobOK(next)
    BY <2>3, <2>4, <2>5, TakenIsJob
  <2>7. job' = [job EXCEPT ![h] = next]
    BY <1>2 DEF scores
  <2> HIDE DEF next
  <2> QED BY <2>6, <2>7, OwnJobOnly
<1>3. ASSUME NEW ngram \in Distributions,
             NEW transformer \in (IF HasTransformer THEN Distributions ELSE {<< >>}),
             job' = [job EXCEPT ![h] = Taken(request, FALSE, Classified(request),
                                             Scores(ngram, transformer))]
      PROVE  JobsOK'
  <2> DEFINE scores == Scores(ngram, transformer)
             next == Taken(request, FALSE, Classified(request), scores)
  <2>1. scores \in Seq(Scored) /\ RouteOK(scores)
    BY ScoresAreRoute
  <2>2. Classified(request) \in Texts
    BY DEF Texts
  <2>3. job' = [job EXCEPT ![h] = next]
    BY <1>3
  <2> HIDE DEF scores
  <2>4. next \in Job /\ JobOK(next)
    BY <2>1, <2>2, TakenIsJob
  <2> HIDE DEF next
  <2> QED BY <2>3, <2>4, OwnJobOnly
<1> QED BY <1>1, <1>2, <1>3

-----------------------------------------------------------------------------
(* The invariant.                                                          *)

(***************************************************************************)
(* An empty bank and no request.                                           *)
(***************************************************************************)
LEMMA ServingInvInit == ServingInit => ServingInv
<1> SUFFICES ASSUME ServingInit PROVE ServingInv
  OBVIOUS
<1>1. BankInv
  BY BankInvInit DEF ServingInit
<1>2. JobsOK
  BY DEF ServingInit, JobsOK
<1> QED BY <1>1, <1>2 DEF ServingInv

(***************************************************************************)
(* An Acquire by the server keeps the bank's invariant: the handlers of    *)
(* AcquireMany are not part of it.                                         *)
(***************************************************************************)
LEMMA ServerAcquireKeepsBank ==
  ASSUME BankInv, clock < MaxClock, UNCHANGED call, NEW id,
         AcquireHit(id) \/ (\E size \in Sizes : AcquireMiss(id, size)) \/ AcquireFail(id)
  PROVE  BankInv'
<1>1. BankOK'
  <2>1. CASE AcquireHit(id)
    BY <2>1, HitKeepsBank
  <2>2. CASE \E size \in Sizes : AcquireMiss(id, size)
    BY <2>2, MissKeepsBank
  <2>3. CASE AcquireFail(id)
    <3>1. clock' = clock + 1 /\ UNCHANGED <<entries, order, bytes>>
      BY <2>3 DEF AcquireFail
    <3>2. clock' \in 0..MaxClock /\ clock' >= clock
      BY <3>1, BankConstants DEF BankInv, TypeOK
    <3>3. RecencyOrdered'
      <4>1. \A d \in Resident : entries[d].used <= clock'
        BY <3>1, BankConstants DEF BankInv, RecencyOrdered, TypeOK, Entry, Resident
      <4> QED BY <3>1, <4>1 DEF BankInv, RecencyOrdered, Resident
    <3> QED BY <3>1, <3>2, <3>3 DEF BankOK, BankTyped, BankInv, TypeOK,
               OrderTracksEntries, AccountingExact, WithinBudget, Resident
  <2> QED BY <2>1, <2>2, <2>3
<1>2. call' \in [Clients -> Call \cup {None}]
  BY DEF BankInv, TypeOK
<1> QED BY <1>1, <1>2 DEF BankOK, BankTyped, BankInv, TypeOK

(***************************************************************************)
(* Every step of the server, and of the bank's other users.                *)
(***************************************************************************)
LEMMA ServingInvStep == ServingInv /\ [ServingNext]_servingVars => ServingInv'
<1> SUFFICES ASSUME ServingInv, [ServingNext]_servingVars PROVE ServingInv'
  OBVIOUS
<1>0. BankInv /\ JobsOK
  BY DEF ServingInv
<1>1. (UNCHANGED vars) => BankInv'
  BY <1>0, BankInvStep
<1>2. (UNCHANGED job) => JobsOK'
  BY <1>0 DEF JobsOK
<1>3. CASE Start
  <2>1. BankInv'
    BY <1>0, <1>3, ServerAcquireKeepsBank DEF Start
  <2> QED BY <2>1, <1>2, <1>3 DEF Start, ServingInv
<1>4. ASSUME NEW h \in Handlers, Receive(h) PROVE ServingInv'
  BY <1>0, <1>1, <1>4, ReceiveKeepsJobs DEF Receive, ServingInv
<1>5. ASSUME NEW h \in Handlers, AcquireRouted(h) PROVE ServingInv'
  <2>1. BankInv'
    BY <1>0, <1>5, ServerAcquireKeepsBank DEF AcquireRouted
  <2>2. JobsOK'
    BY <1>5, AcquireRoutedKeepsJobs
  <2> QED BY <2>1, <2>2 DEF ServingInv
<1>6. ASSUME NEW h \in Handlers, Answer(h) PROVE ServingInv'
  <2>1. job' = [job EXCEPT ![h] = None] /\ UNCHANGED vars
    BY <1>6 DEF Answer
  <2>2. JobsOK'
    BY <2>1, <1>0, OwnJobOnly
  <2> QED BY <2>1, <2>2, <1>1 DEF ServingInv
<1>7. CASE Embedder
  <2>1. Next /\ UNCHANGED job
    BY <1>7 DEF Embedder, Next
  <2>2. BankInv'
    BY <2>1, <1>0, BankInvStep
  <2> QED BY <2>1, <2>2, <1>2 DEF ServingInv
<1>8. CASE UNCHANGED servingVars
  BY <1>1, <1>2, <1>8 DEF servingVars, ServingInv
<1> QED BY <1>3, <1>4, <1>5, <1>6, <1>7, <1>8 DEF ServingNext

-----------------------------------------------------------------------------
(* What the invariant says.                                                *)

(***************************************************************************)
(* What the invariant of a request says of its blend and its answer.       *)
(***************************************************************************)
LEMMA JobFollowsRoute ==
  ASSUME NEW j \in Job, JobOK(j)
  PROVE  /\ \E place \in [DOMAIN j.members -> Loaded(j)] :
              /\ \A k \in Loaded(j) : \E n \in DOMAIN j.members : place[n] = k
              /\ \A n \in DOMAIN j.members :
                   /\ j.members[n] = MemberOf(j, place[n])
                   /\ n > 1 => place[n - 1] < place[n]
         /\ Loaded(j) # {} => /\ Generator(j) = "ensemble"
                              /\ \A n \in DOMAIN j.members :
                                   \E k \in DOMAIN Header(j) : Header(j)[k] = j.members[n].domain
         /\ \A k \in DOMAIN j.scores :
              k > 1 => j.scores[k - 1].value >= j.scores[k].value
                         /\ j.scores[k].value >= MinDomainScore
<1>1. /\ j.scores \in Seq(Scored) /\ RouteOK(j.scores) /\ BlendOK(j)
      /\ j.answers \in Seq(Nat \cup {None})
  BY DEF Job, JobOK
<1>2. PICK place \in [DOMAIN j.members -> Loaded(j)] :
        /\ \A k \in Loaded(j) : \E n \in DOMAIN j.members : place[n] = k
        /\ \A n \in DOMAIN j.members :
             /\ j.members[n] = MemberOf(j, place[n])
             /\ n > 1 => place[n - 1] < place[n]
  BY <1>1 DEF BlendOK
<1>3. ASSUME Loaded(j) # {}
      PROVE  /\ Generator(j) = "ensemble"
             /\ \A n \in DOMAIN j.members :
                  \E k \in DOMAIN Header(j) : Header(j)[k] = j.members[n].domain
  <2>1. DOMAIN j.members # {}
    BY <1>2, <1>3
  <2>2. Generator(j) = "ensemble"
    BY <2>1 DEF Generator
  <2>3. Header(j) = [k \in DOMAIN j.scores |-> j.scores[k].domain]
    BY <2>2 DEF Header
  <2>4. ASSUME NEW n \in DOMAIN j.members
        PROVE  \E k \in DOMAIN Header(j) : Header(j)[k] = j.members[n].domain
    <3>1. place[n] \in DOMAIN j.answers
      BY <1>2 DEF Loaded
    <3>2. place[n] \in DOMAIN j.scores
      BY <3>1, <1>1 DEF BlendOK
    <3>3. j.members[n] = MemberOf(j, place[n])
      BY <1>2
    <3>4. MemberOf(j, place[n]).domain = j.scores[place[n]].domain
      BY DEF MemberOf
    <3> QED BY <2>3, <3>2, <3>3, <3>4
  <2> QED BY <2>2, <2>4
<1>4. \A k \in DOMAIN j.scores :
        k > 1 => j.scores[k - 1].value >= j.scores[k].value
                   /\ j.scores[k].value >= MinDomainScore
  BY <1>1 DEF RouteOK
<1>5. \E p \in [DOMAIN j.members -> Loaded(j)] :
        /\ \A k \in Loaded(j) : \E n \in DOMAIN j.members : p[n] = k
        /\ \A n \in DOMAIN j.members :
             /\ j.members[n] = MemberOf(j, p[n])
             /\ n > 1 => p[n - 1] < p[n]
  BY <1>2, Zenon
<1> QED BY <1>3, <1>4, <1>5

(***************************************************************************)
(* In every reachable state of the server the blend of every request is    *)
(* its route less the domains that would not load: no domain that did load *)
(* is lost, none comes twice, and each has its own model and probability   *)
(* (ensembleForScores).                                                    *)
(***************************************************************************)
THEOREM ServingBlend == ServingSpec => []BlendFollowsRoute
<1>1. ServingInv => BlendFollowsRoute
  <2> SUFFICES ASSUME ServingInv, NEW h \in Handlers, job[h] # None
               PROVE  job[h] \in Job /\ JobOK(job[h])
    BY JobFollowsRoute DEF BlendFollowsRoute, Loaded, MemberOf
  <2> QED BY DEF ServingInv, JobsOK
<1> QED BY <1>1, ServingInvInit, ServingInvStep, PTL DEF ServingSpec

(***************************************************************************)
(* With the last-turn scope the router reads what the client said last,    *)
(* but for the one shape whose system message is folded into it.           *)
(***************************************************************************)
THEOREM ServingClassifies == ServingSpec => []ClassifiesLastTurn
<1>1. ServingInv => ClassifiesLastTurn
  <2> SUFFICES ASSUME ServingInv, NEW h \in Handlers, job[h] # None, ~job[h].pinned,
                      RouteScope = "last-turn"
               PROVE  LET request == job[h].request
                          users == {i \in DOMAIN request.messages :
                                      request.messages[i].role = "user"}
                          merged == /\ users = {2}
                                    /\ LeadingSystemOnly(request.messages)
                                    /\ Instructions(request.options) = << >>
                          last == LastUserContent(request.messages)
                      IN  last # << >> /\ ~merged => job[h].classified = last
    BY DEF ClassifiesLastTurn
  <2> DEFINE request == job[h].request
             last == LastUserContent(request.messages)
  <2>1. request \in ChatRequests /\ job[h].classified = Classified(request)
    BY DEF ServingInv, JobsOK, JobOK, Job
  <2>2. request.messages \in Seq(Messages)
    BY <2>1, ServingConstants
  <2>3. ASSUME last # << >>,
               ~ (/\ {i \in DOMAIN request.messages :
                        request.messages[i].role = "user"} = {2}
                  /\ LeadingSystemOnly(request.messages)
                  /\ Instructions(request.options) = << >>)
        PROVE  job[h].classified = last
    <3>1. LastUserContent(RequestMessages(request.messages, request.options)) = last
      BY <2>2, <2>3, LastUserContentKept
    <3> HIDE DEF request, last
    <3> QED BY <3>1, <2>1, <2>3 DEF Classified
  <2> QED BY <2>3
<1> QED BY <1>1, ServingInvInit, ServingInvStep, PTL DEF ServingSpec

(***************************************************************************)
(* The server's requests leave the bank's byte count exact and its budgets *)
(* kept, whatever they route to and whatever loads or fails to.            *)
(***************************************************************************)
THEOREM ServingBank == ServingSpec => [](OrderTracksEntries /\ AccountingExact /\ WithinBudget)
<1>1. ServingInv => OrderTracksEntries /\ AccountingExact /\ WithinBudget
  BY DEF ServingInv, BankInv
<1> QED BY <1>1, ServingInvInit, ServingInvStep, PTL DEF ServingSpec

(***************************************************************************)
(* A step of the server that calls the bank is one Acquire, and any other  *)
(* leaves its entries alone or is a step of the bank's other users.        *)
(***************************************************************************)
LEMMA ServingStepIsAcquire ==
  ASSUME [ServingNext]_servingVars
  PROVE  \/ \E id : AcquireHit(id) \/ (\E size \in Sizes : AcquireMiss(id, size)) \/ AcquireFail(id)
         \/ UNCHANGED vars
         \/ Next
<1>1. CASE Start
  BY <1>1 DEF Start
<1>2. ASSUME NEW h \in Handlers, Receive(h) PROVE UNCHANGED vars
  BY <1>2 DEF Receive
<1>3. ASSUME NEW h \in Handlers, AcquireRouted(h)
      PROVE  \E id : \/ AcquireHit(id)
                     \/ \E size \in Sizes : AcquireMiss(id, size)
                     \/ AcquireFail(id)
  BY <1>3 DEF AcquireRouted
<1>4. ASSUME NEW h \in Handlers, Answer(h) PROVE UNCHANGED vars
  BY <1>4 DEF Answer
<1>5. CASE Embedder
  BY <1>5 DEF Embedder, Next
<1>6. CASE UNCHANGED servingVars
  BY <1>6 DEF servingVars
<1> QED BY <1>1, <1>2, <1>3, <1>4, <1>5, <1>6 DEF ServingNext

(***************************************************************************)
(* The bank the server uses is a least-recently-used store for all of its  *)
(* callers together: what a request evicts was the oldest model, whoever   *)
(* used it last, and had to go.                                            *)
(***************************************************************************)
THEOREM ServingRefines == ServingSpec => ImplementsLRU
<1>1. ServingInv /\ [ServingNext]_servingVars => [Policy!LNext]_Held
  <2> SUFFICES ASSUME BankInv, [ServingNext]_servingVars PROVE [Policy!LNext]_Held
    BY DEF ServingInv
  <2> QED BY ServingStepIsAcquire, AcquireIsPolicy, BankStepIsPolicy
<1>2. ServingInit => Policy!LInit
  BY BankInitIsPolicy DEF ServingInit
<1> QED BY <1>1, <1>2, ServingInvInit, ServingInvStep, PTL
        DEF ServingSpec, ImplementsLRU, Policy!LSpec, Held

(***************************************************************************)
(* No request swaps the model of a domain that stays resident under the    *)
(* handlers that already use it.                                           *)
(***************************************************************************)
THEOREM ServingStable == ServingSpec => ResidentModelStable
<1>1. ServingInv /\ [ServingNext]_servingVars => [KeepsResidentModels]_vars
  <2> SUFFICES ASSUME BankInv, [ServingNext]_servingVars PROVE [KeepsResidentModels]_vars
    BY DEF ServingInv
  <2>1. Next => KeepsResidentModels
    <3>1. ASSUME NEW c \in Clients, Begin(c) \/ Return(c)
          PROVE  KeepsResidentModels
      BY <3>1 DEF Begin, Return, bankVars, KeepsResidentModels
    <3>2. ASSUME NEW c \in Clients, Acquire(c)
          PROVE  KeepsResidentModels
      BY <3>2, AcquireKeepsModels DEF Acquire
    <3> QED BY <3>1, <3>2 DEF Next
  <2> QED BY <2>1, ServingStepIsAcquire, AcquireKeepsModels
<1> QED BY <1>1, ServingInvInit, ServingInvStep, PTL DEF ServingSpec, ResidentModelStable

-----------------------------------------------------------------------------
(***************************************************************************)
(* The rendering of a request, against that of the training conversations. *)
(***************************************************************************)

\* The tokens that rendering adds to what a conversation says.
Delimiters ==
  {"bos", "userStart", "userEnd", "assistantStart", "assistantEnd", "thinkStart", "thinkEnd", "toolStart", "toolEnd",
   "effort", "on", "off", "style"}

\* What a request may ask of its rendering.
RequestOptions == [effort : BOOLEAN, thinking : {"on", "off", "unset"}, style : BOOLEAN]

\* Messages whose texts are sequences of tokens of T.
MessagesOf(T) ==
  [role : {"user", "assistant", "system", "tool"}, content : Seq(T), reasoning : Seq(T), calls : Seq(Seq(T))]

\* The elements of P begin with a token of T.
Tokened(P, T) == \A p \in P : p[1] \in T

\* How sequences of tokens join.
LEMMA TokenTexts ==
  ASSUME NEW T, Delimiters \subseteq T, NEW t \in Delimiters
  PROVE  <<t>> \in Seq(T) /\ t \in T
OBVIOUS

LEMMA Join ==
  ASSUME NEW T, NEW a \in Seq(T), NEW b \in Seq(T), NEW c \in Seq(T)
  PROVE  a \o b \o c \in Seq(T)
<1>1. a \o b \in Seq(T)
  OBVIOUS
<1> QED BY <1>1

LEMMA JoinAt ==
  ASSUME NEW T, NEW a \in Seq(T), NEW b \in Seq(T)
  PROVE  /\ a \o b \in Seq(T)
         /\ Len(a \o b) = Len(a) + Len(b)
         /\ \A i \in 1 .. Len(a) : (a \o b)[i] = a[i]
         /\ \A i \in 1 .. Len(b) : (a \o b)[Len(a) + i] = b[i]
OBVIOUS

Rebrackets(a, b, c) == (a \o b) \o c = a \o (b \o c)

LEMMA Rebracket ==
  ASSUME NEW T, NEW a \in Seq(T), NEW b \in Seq(T), NEW c \in Seq(T)
  PROVE  Rebrackets(a, b, c)
BY DEF Rebrackets

\* The parts of a turn can be joined from either end.
RebracketsAll(a, b, c, d, e) == a \o b \o c \o d \o e = a \o (b \o c \o d \o e)

LEMMA Rebracketed ==
  ASSUME NEW T, NEW a \in Seq(T), NEW b \in Seq(T), NEW c \in Seq(T), NEW d \in Seq(T), NEW e \in Seq(T)
  PROVE  RebracketsAll(a, b, c, d, e)
<1>1. PICK x \in Seq(T) : x = b \o c
  BY JoinAt
<1>2. PICK y \in Seq(T) : y = x \o d
  BY JoinAt
<1>3. Rebrackets(a, b, c) /\ Rebrackets(a, x, d) /\ Rebrackets(a, y, e)
  BY Rebracket
<1>4. (a \o b) \o c = a \o x
  BY <1>1, <1>3, Zenon DEF Rebrackets
<1>5. (a \o x) \o d = a \o y
  BY <1>2, <1>3, Zenon DEF Rebrackets
<1>6. (a \o y) \o e = a \o (y \o e)
  BY <1>3, Zenon DEF Rebrackets
<1> QED BY <1>1, <1>2, <1>4, <1>5, <1>6, Zenon DEF RebracketsAll

LEMMA Headed ==
  ASSUME NEW M, NEW x \in M, NEW s \in Seq(M)
  PROVE  /\ <<x>> \o s \in Seq(M)
         /\ Len(<<x>> \o s) = Len(s) + 1
         /\ (<<x>> \o s)[1] = x
         /\ \A i \in 1 .. Len(s) : (<<x>> \o s)[i + 1] = s[i]
OBVIOUS

\* The messages from the third on.
FromThirdOn(M, s, n) ==
  \E rest \in Seq(M) : /\ rest = SubSeq(s, 3, Len(s)) /\ Len(rest) = n - 2
                              /\ \A i \in 1 .. n - 2 : rest[i] = s[i + 2]

LEMMA FromThird ==
  ASSUME NEW M, NEW s \in Seq(M), NEW n \in Nat, n = Len(s), n >= 2
  PROVE  FromThirdOn(M, s, n)
<1> DEFINE rest == SubSeq(s, 3, n)
<1>1. \A i \in 3 .. n : s[i] \in M
  OBVIOUS
<1>2. rest \in Seq(M)
  BY <1>1
<1>3. Len(rest) = n - 2
  BY <1>1
<1>4. \A i \in 1 .. n - 2 : rest[i] = s[i + 2]
  BY <1>1
<1> QED BY <1>2, <1>3, <1>4 DEF FromThirdOn

\* A place after the first n is a place of what follows.
LEMMA FromFirst ==
  ASSUME NEW n \in Nat, NEW m \in Nat, NEW i \in 1 .. n + m, ~(i \in 1 .. n)
  PROVE  \E j \in 1 .. m : i = n + j
<1> i - n \in 1 .. m /\ i = n + (i - n)
  OBVIOUS
<1> QED OBVIOUS

\* Taking the masks away keeps every token at its place.
LEMMA UnmaskedIs ==
  ASSUME NEW T, NEW P, Tokened(P, T), NEW s \in Seq(P)
  PROVE  /\ Unmasked(s) \in Seq(T)
         /\ Len(Unmasked(s)) = Len(s)
         /\ \A i \in 1 .. Len(s) : Unmasked(s)[i] = s[i][1]
<1>1. \A i \in 1 .. Len(s) : s[i][1] \in T
  BY DEF Tokened
<1>2. DOMAIN Unmasked(s) = 1 .. Len(s)
  BY DEF Unmasked
<1>3. Unmasked(s) \in Seq(T)
  BY <1>1 DEF Unmasked
<1>4. \A i \in 1 .. Len(s) : Unmasked(s)[i] = s[i][1]
  BY DEF Unmasked
<1>5. Len(Unmasked(s)) = Len(s)
  BY <1>2, <1>3
<1> QED BY <1>3, <1>4, <1>5

\* Taking the masks of a concatenation away is taking those of its parts away.
LEMMA UnmaskedConcat ==
  ASSUME NEW T, NEW P, Tokened(P, T), NEW a \in Seq(P), NEW b \in Seq(P)
  PROVE  Unmasked(a \o b) = Unmasked(a) \o Unmasked(b)
<1>1. a \o b \in Seq(P)
  OBVIOUS
<1>2. PICK c \in Seq(P) : c = a \o b
  BY <1>1
<1>3. PICK u \in Seq(T) : u = Unmasked(a) /\ Len(u) = Len(a) /\ \A i \in 1 .. Len(a) : u[i] = a[i][1]
  BY UnmaskedIs
<1>4. PICK v \in Seq(T) : v = Unmasked(b) /\ Len(v) = Len(b) /\ \A i \in 1 .. Len(b) : v[i] = b[i][1]
  BY UnmaskedIs
<1>5. PICK w \in Seq(T) : w = Unmasked(c) /\ Len(w) = Len(c) /\ \A i \in 1 .. Len(c) : w[i] = c[i][1]
  BY UnmaskedIs
<1>6. Len(c) = Len(a) + Len(b)
  BY <1>2, JoinAt
<1>7. u \o v \in Seq(T) /\ Len(u \o v) = Len(a) + Len(b)
  <2>1. u \o v \in Seq(T) /\ Len(u \o v) = Len(u) + Len(v)
    BY JoinAt
  <2> QED BY <1>3, <1>4, <2>1
<1>8. ASSUME NEW i \in 1 .. Len(a) + Len(b)
      PROVE  w[i] = (u \o v)[i]
  <2>1. w[i] = c[i][1]
    BY <1>5, <1>6
  <2>2. CASE i \in 1 .. Len(a)
    <3>1. c[i] = a[i]
      BY <1>2, <2>2, JoinAt
    <3>2. (u \o v)[i] = u[i]
      BY <1>3, <2>2, JoinAt
    <3> QED BY <1>3, <2>1, <2>2, <3>1, <3>2
  <2>3. CASE i \notin 1 .. Len(a)
    <3>1. PICK j \in 1 .. Len(b) : i = Len(a) + j
      <4>1. Len(a) \in Nat /\ Len(b) \in Nat
        OBVIOUS
      <4> QED BY <2>3, <4>1, FromFirst
    <3>2. c[i] = b[j]
      BY <1>2, <3>1, JoinAt
    <3>3. (u \o v)[i] = v[j]
      <4>1. j \in 1 .. Len(v) /\ i = Len(u) + j
        BY <1>3, <1>4, <3>1
      <4> QED BY <4>1, JoinAt
    <3> QED BY <1>4, <2>1, <3>1, <3>2, <3>3
  <2> QED BY <2>2, <2>3
<1>9. w = u \o v
  BY <1>5, <1>6, <1>7, <1>8
<1> QED BY <1>2, <1>3, <1>4, <1>5, <1>9

\* Taking the masks of a conversation away is taking those of its turns away.
LEMMA UnmaskedFlatten ==
  ASSUME NEW T, NEW P, Tokened(P, T), NEW f \in Seq(Seq(P))
  PROVE  Unmasked(FlattenSeq(f)) = FlattenSeq([i \in DOMAIN f |-> Unmasked(f[i])])
<1>0. \A a, b \in Seq(P) : Unmasked(a \o b) = Unmasked(a) \o Unmasked(b)
  BY UnmaskedConcat
<1>1. PICK n \in Nat : n = Len(f) /\ DOMAIN f = 1 .. n
  OBVIOUS
<1>2. PICK g : g = [i \in 1 .. n |-> Unmasked(f[i])]
  OBVIOUS
<1>3. \A i \in 1 .. n : f[i] \in Seq(P) /\ Unmasked(f[i]) \in Seq(T)
  BY <1>1, UnmaskedIs
<1>4. g \in Seq(Seq(T)) /\ Len(g) = n
  <2>1. g \in [1 .. n -> Seq(T)]
    BY <1>2, <1>3
  <2> QED BY <2>1
<1>5. PICK F \in [0 .. n -> Seq(P)] : /\ F[0] = << >>
                                      /\ \A i \in 1 .. n : F[i] = F[i - 1] \o f[i]
                                      /\ FlattenSeq(f) = F[n]
  <2>1. \E F \in [0 .. Len(f) -> Seq(P)] : /\ F[0] = << >>
                                           /\ \A i \in 1 .. Len(f) : F[i] = F[i - 1] \o f[i]
                                           /\ FlattenSeq(f) = F[Len(f)]
    BY FlattenDef
  <2> QED BY <1>1, <2>1
<1>6. PICK G \in [0 .. n -> Seq(T)] : /\ G[0] = << >>
                                      /\ \A i \in 1 .. n : G[i] = G[i - 1] \o g[i]
                                      /\ FlattenSeq(g) = G[n]
  <2>1. \E G \in [0 .. Len(g) -> Seq(T)] : /\ G[0] = << >>
                                           /\ \A i \in 1 .. Len(g) : G[i] = G[i - 1] \o g[i]
                                           /\ FlattenSeq(g) = G[Len(g)]
    BY <1>4, FlattenDef
  <2> QED BY <1>4, <2>1
<1> DEFINE Agree(i) == Unmasked(F[i]) = G[i]
           S == { i \in Nat : i <= n => Agree(i) }
<1>7. 0 \in S
  <2>1. Unmasked(<< >>) = << >>
    BY DEF Unmasked
  <2> QED BY <1>5, <1>6, <2>1
<1>8. ASSUME NEW i \in Nat, i \in S PROVE i + 1 \in S
  <2> SUFFICES ASSUME i + 1 <= n PROVE Agree(i + 1)
    OBVIOUS
  <2>1. Agree(i) /\ i \in 0 .. n /\ i + 1 \in 1 .. n /\ (i + 1) - 1 = i
    BY <1>8
  <2>2. F[i + 1] = F[i] \o f[i + 1]
    BY <1>5, <2>1
  <2>3. G[i + 1] = G[i] \o g[i + 1]
    BY <1>6, <2>1
  <2>4. PICK p \in Seq(P), q \in Seq(P) : p = F[i] /\ q = f[i + 1]
    BY <1>3, <2>1
  <2>5. Unmasked(p \o q) = Unmasked(p) \o Unmasked(q)
    BY <1>0
  <2>6. g[i + 1] = Unmasked(q)
    BY <1>2, <2>1, <2>4
  <2> QED BY <2>1, <2>2, <2>3, <2>4, <2>5, <2>6
<1>9. n \in S
  <2> HIDE DEF S
  <2> QED BY <1>7, <1>8, SetInduction
<1>10. Agree(n)
  BY <1>9
<1> QED BY <1>1, <1>2, <1>5, <1>6, <1>10

\* A marked text is the text with its masks.
LEMMA MarkedIs ==
  ASSUME NEW T, NEW P, T \X {0, 1} = P, NEW tokens \in Seq(T), NEW mask \in {0, 1}
  PROVE  /\ Marked(tokens, mask) \in Seq(P)
         /\ Unmasked(Marked(tokens, mask)) = tokens
BY DEF Marked, Unmasked

\* Tool calls are rendered to tokens.
LEMMA ToolCallsType ==
  ASSUME NEW T, Delimiters \subseteq T, NEW calls \in Seq(Seq(T))
  PROVE  ToolCalls(calls) \in Seq(T)
<1>1. PICK open \in Seq(T), close \in Seq(T) : open = <<"toolStart">> /\ close = <<"toolEnd">>
  <2>1. "toolStart" \in Delimiters /\ "toolEnd" \in Delimiters
    BY DEF Delimiters
  <2> QED BY <2>1, TokenTexts
<1>2. PICK n \in Nat : DOMAIN calls = 1 .. n
  OBVIOUS
<1>3. [i \in DOMAIN calls |-> open \o calls[i] \o close] \in Seq(Seq(T))
  <2>1. \A i \in 1 .. n : calls[i] \in Seq(T)
    BY <1>2
  <2>2. \A i \in 1 .. n : open \o calls[i] \o close \in Seq(T)
    BY <2>1, Join
  <2>3. [i \in 1 .. n |-> open \o calls[i] \o close] \in [1 .. n -> Seq(T)]
    BY <2>2
  <2> QED BY <1>2, <2>3
<1> QED BY <1>1, <1>3, FlattenType DEF ToolCalls

\* A turn of training without its mask is the turn that is served.
LEMMA TurnTrained ==
  ASSUME NEW T, Delimiters \subseteq T, NEW P, T \X {0, 1} = P,
         NEW m \in MessagesOf(T), m.role \in {"user", "assistant"}
  PROVE  /\ TrainingTurn(m) \in Seq(P)
         /\ Unmasked(TrainingTurn(m)) = Turn(m)
         /\ Turn(m) \in Seq(T)
<1>0. \A a, b \in Seq(P) : Unmasked(a \o b) = Unmasked(a) \o Unmasked(b)
  <2>1. Tokened(P, T)
    BY DEF Tokened
  <2> QED BY <2>1, UnmaskedConcat
<1>1. m.content \in Seq(T) /\ m.reasoning \in Seq(T) /\ m.calls \in Seq(Seq(T))
  BY DEF MessagesOf
<1>2. CASE m.role = "user"
  <2>1. PICK open \in Seq(T), close \in Seq(T) : open = <<"userStart">> /\ close = <<"userEnd">>
    <3>1. "userStart" \in Delimiters /\ "userEnd" \in Delimiters
      BY DEF Delimiters
    <3> QED BY <3>1, TokenTexts
  <2>2. PICK text \in Seq(T) : text = open \o m.content \o close
    BY <1>1, Join
  <2>3. TrainingTurn(m) = Marked(text, 0) /\ Turn(m) = text
    BY <1>2, <2>1, <2>2 DEF TrainingTurn, Turn
  <2>4. Marked(text, 0) \in Seq(P) /\ Unmasked(Marked(text, 0)) = text
    BY MarkedIs
  <2> QED BY <2>3, <2>4
<1>3. CASE m.role = "assistant"
  <2>1. PICK open \in Seq(T), close \in Seq(T) : open = <<"assistantStart">> /\ close = <<"assistantEnd">>
    <3>1. "assistantStart" \in Delimiters /\ "assistantEnd" \in Delimiters
      BY DEF Delimiters
    <3> QED BY <3>1, TokenTexts
  <2>2. PICK trace \in Seq(T) : trace = Trace(m.reasoning)
    <3>1. PICK start \in Seq(T), end \in Seq(T) : start = <<"thinkStart">> /\ end = <<"thinkEnd">>
      <4>1. "thinkStart" \in Delimiters /\ "thinkEnd" \in Delimiters
        BY DEF Delimiters
      <4> QED BY <4>1, TokenTexts
    <3>2. start \o m.reasoning \o end \in Seq(T)
      BY <1>1, Join
    <3>3. << >> \in Seq(T)
      OBVIOUS
    <3> QED BY <3>1, <3>2, <3>3 DEF Trace
  <2>3. PICK calls \in Seq(T) : calls = ToolCalls(m.calls)
    BY <1>1, ToolCallsType
  <2>4. PICK content \in Seq(T) : content = m.content
    BY <1>1
  <2>5. PICK body \in Seq(T) : body = trace \o content \o calls \o close
    <3>1. PICK head \in Seq(T) : head = trace \o content \o calls
      BY Join
    <3>2. head \o close \in Seq(T)
      BY JoinAt
    <3> QED BY <3>1, <3>2
  <2>6. TrainingTurn(m) = <<<<"assistantStart", 0>>>> \o Marked(body, 1)
    BY <1>3, <2>1, <2>2, <2>3, <2>4, <2>5 DEF TrainingTurn
  <2>7. Turn(m) = open \o body
    <3>1. Turn(m) = open \o trace \o content \o calls \o close
      BY <1>3, <2>1, <2>2, <2>3, <2>4 DEF Turn
    <3>2. open \o trace \o content \o calls \o close = open \o (trace \o content \o calls \o close)
      <4>1. RebracketsAll(open, trace, content, calls, close)
        BY Rebracketed
      <4> QED BY <4>1, Zenon DEF RebracketsAll
    <3> QED BY <2>5, <3>1, <3>2
  <2>8. PICK first \in Seq(P) : first = <<<<"assistantStart", 0>>>> /\ Unmasked(first) = open
    <3>1. "assistantStart" \in T
      BY DEF Delimiters
    <3>2. <<"assistantStart", 0>> \in P
      BY <3>1
    <3> DEFINE head == <<<<"assistantStart", 0>>>>
    <3>3. head \in Seq(P)
      BY <3>2
    <3>4. Unmasked(head) = <<"assistantStart">>
      BY DEF Unmasked
    <3> QED BY <2>1, <3>3, <3>4
  <2>9. PICK rest \in Seq(P) : rest = Marked(body, 1) /\ Unmasked(rest) = body
    BY MarkedIs
  <2>11. Unmasked(first \o rest) = open \o body
    <3>1. Unmasked(first \o rest) = Unmasked(first) \o Unmasked(rest)
      BY <1>0, Zenon
    <3> QED BY <2>8, <2>9, <3>1, Zenon
  <2>12. first \o rest \in Seq(P) /\ open \o body \in Seq(T)
    OBVIOUS
  <2> QED BY <2>6, <2>7, <2>8, <2>9, <2>11, <2>12
<1> QED BY <1>2, <1>3

\* Messages of the user and the assistant only, the first there is.
Alternates(messages) ==
  /\ messages # << >>
  /\ \A i \in DOMAIN messages : messages[i].role \in {"user", "assistant"}

\* Instructions and the priming of the assistant's turn are tokens.
LEMMA InstructionsType ==
  ASSUME NEW T, Delimiters \subseteq T, NEW options \in RequestOptions
  PROVE  Instructions(options) \in Seq(T)
<1>1. {"effort", "style"} \subseteq T /\ (options.thinking # "unset" => options.thinking \in T)
  BY DEF Delimiters, RequestOptions
<1>2. \A t \in T : <<t>> \in Seq(T)
  OBVIOUS
<1>3. << >> \in Seq(T)
  OBVIOUS
<1> DEFINE effort == IF options.effort THEN <<"effort">> ELSE << >>
           thinking == IF options.thinking # "unset" THEN <<options.thinking>> ELSE << >>
           style == IF options.thinking = "on" /\ options.style THEN <<"style">> ELSE << >>
<1>4. effort \in Seq(T) /\ thinking \in Seq(T) /\ style \in Seq(T)
  <2>1. effort \in Seq(T)
    BY <1>1, <1>2, <1>3, Zenon
  <2>2. thinking \in Seq(T)
    BY <1>1, <1>2, <1>3, Zenon
  <2>3. style \in Seq(T)
    BY <1>1, <1>2, <1>3, Zenon
  <2> QED BY <2>1, <2>2, <2>3
<1>5. Instructions(options) = effort \o thinking \o style
  BY DEF Instructions
<1> HIDE DEF effort, thinking, style
<1> QED BY <1>4, <1>5, Join

LEMMA PrimingType ==
  ASSUME NEW T, Delimiters \subseteq T, NEW options
  PROVE  Priming(options) \in Seq(T)
<1>1. "assistantStart" \in T /\ "thinkStart" \in T
  BY DEF Delimiters
<1>2. PICK a \in Seq(T), b \in Seq(T), c \in Seq(T) : a = <<"assistantStart">> /\ b = <<"thinkStart">> /\ c = << >>
  <2>1. \A t \in T : <<t>> \in Seq(T)
    OBVIOUS
  <2>2. << >> \in Seq(T)
    OBVIOUS
  <2> QED BY <1>1, <2>1, <2>2, Zenon
<1>3. a \o b \in Seq(T) /\ a \o c \in Seq(T)
  BY JoinAt
<1>4. Priming(options) = a \o b \/ Priming(options) = a \o c
  BY <1>2, Zenon DEF Priming
<1> QED BY <1>3, <1>4

\* After the first message only the user and the assistant speak.
Continues(messages) == \A i \in 2 .. Len(messages) : messages[i].role \in {"user", "assistant"}

\* Both renderings put a leading system message before the user's text, and what is
\* left are turns of the user and the assistant.
LEMMA Merged ==
  ASSUME NEW T, NEW messages \in Seq(MessagesOf(T)), LeadingSystemOnly(messages),
         Continues(messages)
  PROVE  /\ MergeSystemMessage(messages) = FoldSystem(messages)
         /\ MergeSystemMessage(messages) \in Seq(MessagesOf(T))
         /\ Alternates(MergeSystemMessage(messages))
<1> DEFINE M == MessagesOf(T)
<1>1. PICK n \in Nat : n = Len(messages) /\ n >= 2
  BY DEF LeadingSystemOnly
<1>2. messages[1] \in M /\ messages[2] \in M /\ messages[2].role = "user"
  BY <1>1 DEF LeadingSystemOnly
<1>3. PICK text \in Seq(T) : text = messages[1].content \o messages[2].content
  <2>1. messages[1].content \in Seq(T) /\ messages[2].content \in Seq(T)
    BY <1>2 DEF MessagesOf
  <2> QED BY <2>1, JoinAt
<1>4. PICK first \in M : first = [messages[2] EXCEPT !.content = messages[1].content \o @] /\ first.role = "user"
  <2>1. [messages[2] EXCEPT !.content = messages[1].content \o @] = [messages[2] EXCEPT !.content = text]
    BY <1>2, <1>3 DEF MessagesOf
  <2>2. [messages[2] EXCEPT !.content = text] \in M
    BY <1>2 DEF MessagesOf
  <2>3. [messages[2] EXCEPT !.content = text].role = "user"
    BY <1>2 DEF MessagesOf
  <2> QED BY <2>1, <2>2, <2>3
<1>5. PICK rest \in Seq(M) : /\ rest = SubSeq(messages, 3, Len(messages)) /\ Len(rest) = n - 2
                             /\ \A i \in 1 .. n - 2 : rest[i] = messages[i + 2]
  <2>1. n = Len(messages) /\ n >= 2 /\ n \in Nat /\ messages \in Seq(M)
    BY <1>1
  <2> HIDE DEF M
  <2>2. \A s \in Seq(M), k \in Nat : k = Len(s) /\ k >= 2 => FromThirdOn(M, s, k)
    BY FromThird
  <2>3. FromThirdOn(M, messages, n)
    BY <2>1, <2>2
  <2> QED BY <2>3 DEF FromThirdOn
<1>6. PICK merged \in Seq(M) : /\ merged = <<first>> \o rest /\ Len(merged) = n - 1 /\ merged[1] = first
                               /\ \A i \in 1 .. n - 2 : merged[i + 1] = rest[i]
  <2> HIDE DEF M
  <2>1. /\ <<first>> \o rest \in Seq(M) /\ Len(<<first>> \o rest) = Len(rest) + 1
        /\ (<<first>> \o rest)[1] = first /\ \A i \in 1 .. Len(rest) : (<<first>> \o rest)[i + 1] = rest[i]
    BY Headed
  <2>2. Len(rest) = n - 2 /\ Len(rest) + 1 = n - 1
    BY <1>1, <1>5
  <2> QED BY <2>1, <2>2
<1>8. MergeSystemMessage(messages) = merged
  BY <1>4, <1>5, <1>6 DEF MergeSystemMessage
<1>9. FoldSystem(messages) = merged
  BY <1>4, <1>5, <1>6 DEF FoldSystem, LeadingSystemOnly
<1>10. Alternates(merged)
  <2>1. ASSUME NEW i \in 1 .. n - 1 PROVE merged[i].role \in {"user", "assistant"}
    <3>1. CASE i = 1
      BY <1>4, <1>6, <3>1
    <3>2. CASE i # 1
      <4>1. PICK j \in 1 .. n - 2 : i = j + 1
        <5>1. n - 2 \in Nat /\ i \in 1 .. 1 + (n - 2) /\ i \notin 1 .. 1
          BY <1>1, <3>2
        <5>2. PICK j \in 1 .. n - 2 : i = 1 + j
          BY <5>1, FromFirst
        <5> QED BY <5>2
      <4>2. merged[i] = messages[j + 2]
        BY <1>5, <1>6, <4>1
      <4>3. j + 2 \in 2 .. Len(messages)
        BY <1>1
      <4> QED BY <4>2, <4>3 DEF Continues
    <3> QED BY <3>1, <3>2
  <2>2. merged # << >> /\ DOMAIN merged = 1 .. n - 1
    BY <1>1, <1>6
  <2> QED BY <2>1, <2>2 DEF Alternates
<1> QED BY <1>8, <1>9, <1>10

\* renderMessages prepares the messages as RenderConversation folds them.
LEMMA MergedAsTrained ==
  ASSUME NEW T, Delimiters \subseteq T, NEW messages \in Seq(MessagesOf(T)), NEW options \in RequestOptions,
         Conventional(messages, options)
  PROVE  /\ Prepared(messages, options, FALSE) = FoldSystem(InsertInstructions(messages, options))
         /\ Prepared(messages, options, FALSE) \in Seq(MessagesOf(T))
         /\ Alternates(Prepared(messages, options, FALSE))
<1> DEFINE M == MessagesOf(T)
<1>1. PICK text \in Seq(T) : text = Instructions(options)
  BY InstructionsType
<1>2. PICK n \in Nat \ {0} : n = Len(messages) /\ DOMAIN messages = 1 .. n
  BY DEF Conventional
<1>3. \A i \in 1 .. n : messages[i] \in M /\ (i # 1 => messages[i].role \in {"user", "assistant"})
  BY <1>2 DEF Conventional
<1>4. messages # << >>
  BY DEF Conventional
<1>5. CASE text = << >> /\ messages[1].role = "user"
  <2>1. ~LeadingSystemOnly(messages)
    BY <1>5 DEF LeadingSystemOnly
  <2>2. Prepared(messages, options, FALSE) = messages
    BY <1>1, <1>5, <2>1 DEF Prepared, WithInstructions, MergeSystemMessage
  <2>3. FoldSystem(InsertInstructions(messages, options)) = messages
    BY <1>1, <1>5 DEF FoldSystem, InsertInstructions
  <2>4. Alternates(messages)
    BY <1>2, <1>3, <1>4, <1>5 DEF Alternates
  <2> QED BY <2>2, <2>3, <2>4
<1>6. CASE text # << >> /\ messages[1].role = "user"
  <2>1. PICK system \in M : system = Message("system", text)
    <3>1. << >> \in Seq(T) /\ << >> \in Seq(Seq(T))
      OBVIOUS
    <3> QED BY <3>1 DEF Message, MessagesOf
  <2>2. system.role = "system" /\ system.content = text
    BY <2>1 DEF Message
  <2>3. PICK longer \in Seq(M) : /\ longer = <<system>> \o messages /\ Len(longer) = n + 1
                                 /\ longer[1] = system /\ \A i \in 1 .. n : longer[i + 1] = messages[i]
    <3> HIDE DEF M
    <3>1. /\ <<system>> \o messages \in Seq(M) /\ Len(<<system>> \o messages) = Len(messages) + 1
          /\ (<<system>> \o messages)[1] = system
          /\ \A i \in 1 .. Len(messages) : (<<system>> \o messages)[i + 1] = messages[i]
      BY Headed DEF M
    <3> QED BY <1>2, <3>1
  <2>5. LeadingSystemOnly(longer)
    <3>1. longer[2] = messages[1]
      <4>1. 1 \in 1 .. n /\ 1 + 1 = 2
        OBVIOUS
      <4> QED BY <2>3, <4>1
    <3> QED BY <1>6, <2>2, <2>3, <3>1 DEF LeadingSystemOnly
  <2>6. Prepared(messages, options, FALSE) = MergeSystemMessage(longer)
    BY <1>1, <1>6, <2>1, <2>3 DEF Prepared, WithInstructions
  <2>7. InsertInstructions(messages, options) = longer
    BY <1>1, <1>6, <2>1, <2>3 DEF InsertInstructions
  <2>8. Continues(longer)
    <3> SUFFICES ASSUME NEW i \in 2 .. n + 1 PROVE longer[i].role \in {"user", "assistant"}
      BY <2>3 DEF Continues
    <3>1. PICK j \in 1 .. n : i = j + 1
      <4>1. i \in 1 .. 1 + n /\ i \notin 1 .. 1
        OBVIOUS
      <4>2. PICK j \in 1 .. n : i = 1 + j
        BY <4>1, FromFirst
      <4> QED BY <4>2
    <3> QED BY <1>3, <1>6, <2>3, <3>1
  <2> HIDE DEF M
  <2> QED BY <2>5, <2>6, <2>7, <2>8, Merged DEF M
<1>7. CASE text = << >> /\ LeadingSystemOnly(messages)
  <2>1. Prepared(messages, options, FALSE) = MergeSystemMessage(messages)
    BY <1>1, <1>7 DEF Prepared, WithInstructions
  <2>2. InsertInstructions(messages, options) = messages
    BY <1>1, <1>7 DEF InsertInstructions
  <2>3. Continues(messages)
    BY <1>2, <1>3 DEF Continues
  <2> QED BY <1>7, <2>1, <2>2, <2>3, Merged
<1> QED BY <1>1, <1>5, <1>6, <1>7 DEF Conventional

(***************************************************************************)
(* renderMessages (server.go) against RenderForCompletion (render.go): a   *)
(* request is served the tokens that training would have asked the same    *)
(* conversation to be completed from, for every conversation both are made *)
(* for, every choice of instructions and texts of any length, as long as   *)
(* the rendering stays below the 2^30 tokens at which training cuts it.    *)
(***************************************************************************)
THEOREM RenderedAsTrained ==
  ASSUME NEW T, Delimiters \subseteq T, NEW messages \in Seq(MessagesOf(T)), NEW options \in RequestOptions,
         Len(RenderMessages(messages, options, FALSE)) < 2^30
  PROVE  ServedAsTrained(messages, options)
<1> SUFFICES ASSUME Conventional(messages, options)
             PROVE  RenderingAgrees(messages, options)
  BY DEF ServedAsTrained
<1>1. PICK prepared \in Seq(MessagesOf(T)) : /\ prepared = Prepared(messages, options, FALSE)
                                            /\ prepared = FoldSystem(InsertInstructions(messages, options))
                                            /\ Alternates(prepared)
  BY MergedAsTrained
<1>2. PICK P : T \X {0, 1} = P
  OBVIOUS
<1>3. PICK n \in Nat : n = Len(prepared) /\ DOMAIN prepared = 1 .. n
  OBVIOUS
<1> DEFINE turns == [i \in DOMAIN prepared |-> TrainingTurn(prepared[i])]
           served == [i \in DOMAIN prepared |-> Turn(prepared[i])]
<1>4. \A i \in 1 .. n : /\ TrainingTurn(prepared[i]) \in Seq(P)
                        /\ Unmasked(TrainingTurn(prepared[i])) = Turn(prepared[i])
                        /\ Turn(prepared[i]) \in Seq(T)
  <2> TAKE i \in 1 .. n
  <2>1. prepared[i] \in MessagesOf(T) /\ prepared[i].role \in {"user", "assistant"}
    <3>1. \A j \in DOMAIN prepared : prepared[j].role \in {"user", "assistant"}
      BY <1>1 DEF Alternates
    <3>2. i \in DOMAIN prepared /\ prepared[i] \in MessagesOf(T)
      BY <1>3
    <3> QED BY <3>1, <3>2
  <2> QED BY <1>2, <2>1, TurnTrained
<1>5. turns \in Seq(Seq(P)) /\ DOMAIN turns = 1 .. n
  <2>1. turns \in [1 .. n -> Seq(P)]
    BY <1>3, <1>4
  <2> QED BY <2>1
<1>6. Tokened(P, T)
  BY <1>2 DEF Tokened
<1>7. PICK said \in Seq(P) : said = FlattenSeq(turns)
  BY <1>5, FlattenType
<1>8. Unmasked(said) = FlattenSeq(served)
  <2>1. Unmasked(said) = FlattenSeq([i \in DOMAIN turns |-> Unmasked(turns[i])])
    BY <1>5, <1>6, <1>7, UnmaskedFlatten
  <2>2. [i \in DOMAIN turns |-> Unmasked(turns[i])] = served
    BY <1>3, <1>4, <1>5
  <2> QED BY <2>1, <2>2
<1>9. PICK first \in Seq(P) : first = <<<<"bos", 0>>>> /\ Unmasked(first) = <<"bos">>
  <2>1. <<"bos", 0>> \in P
    BY <1>2 DEF Delimiters
  <2> DEFINE head == <<<<"bos", 0>>>>
  <2>2. head \in Seq(P)
    BY <2>1
  <2>3. Unmasked(head) = <<"bos">>
    BY DEF Unmasked
  <2> QED BY <2>2, <2>3
<1>10. PICK all \in Seq(P) : all = first \o said
  BY JoinAt
<1>11. Unmasked(all) = <<"bos">> \o FlattenSeq(served)
  <2>1. Unmasked(first \o said) = Unmasked(first) \o Unmasked(said)
    BY <1>6, UnmaskedConcat
  <2> QED BY <1>8, <1>9, <1>10, <2>1
<1>12. PICK prime \in Seq(T) : prime = Priming(options)
  BY PrimingType
<1>13. RenderMessages(messages, options, FALSE) = Unmasked(all) \o prime
  BY <1>1, <1>11, <1>12 DEF RenderMessages
<1>14. Len(all) < 2^30
  <2>1. Unmasked(all) \in Seq(T) /\ Len(Unmasked(all)) = Len(all)
    BY <1>6, UnmaskedIs
  <2>2. Len(Unmasked(all) \o prime) = Len(all) + Len(prime)
    <3>1. PICK tokens \in Seq(T) : tokens = Unmasked(all)
      BY <2>1
    <3>2. Len(tokens \o prime) = Len(tokens) + Len(prime)
      BY JoinAt
    <3> QED BY <2>1, <3>1, <3>2
  <2>3. Len(all) \in Nat /\ Len(prime) \in Nat /\ 2^30 \in Nat
    OBVIOUS
  <2>4. Len(all) + Len(prime) < 2^30
    BY <1>13, <2>2
  <2> QED BY <2>3, <2>4
<1>15. RenderConversation(messages, options, 2^30) = all
  <2>1. prepared # << >>
    BY <1>1 DEF Alternates
  <2>2. SubSeq(all, 1, Len(all)) = all
    OBVIOUS
  <2> QED BY <1>1, <1>7, <1>9, <1>10, <1>14, <2>1, <2>2 DEF RenderConversation
<1>16. SubSeq(Completed(messages), 1, Len(Completed(messages)) - 1) = messages
  BY DEF Completed
<1> QED BY <1>12, <1>13, <1>15, <1>16 DEF RenderingAgrees, RenderForCompletion
=============================================================================
