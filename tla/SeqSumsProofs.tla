--------------------------- MODULE SeqSumsProofs ---------------------------
(***************************************************************************)
(* Facts about running totals.  Induction is over a SET of naturals, taken *)
(* from the library's well-founded minimum theorem, so that it needs no    *)
(* theorem with an operator parameter.                                     *)
(***************************************************************************)
EXTENDS SeqSums, WellFoundedInduction, SequenceTheorems, FiniteSetTheorems, TLAPS

(***************************************************************************)
(* Every nonempty set of naturals has a least element.                     *)
(***************************************************************************)
LEMMA LeastElement ==
  ASSUME NEW T \in SUBSET Nat, T # {}
  PROVE  \E x \in T : \A y \in T : x <= y
<1>1. IsWellFoundedOn(OpToRel(<, Nat), Nat)
  BY NatLessThanWellFounded
<1>2. PICK x \in T : \A y \in T : ~(<<y, x>> \in OpToRel(<, Nat))
  BY <1>1, WFMin
<1>3. \A y \in T : ~(y < x)
  <2> TAKE y \in T
  <2>1. <<y, x>> \in Nat \X Nat
    OBVIOUS
  <2> QED BY <2>1, <1>2 DEF OpToRel
<1>4. \A y \in T : x <= y
  BY <1>3
<1> QED BY <1>4

(***************************************************************************)
(* Induction: a set with 0 that is closed under successor holds all of Nat. *)
(***************************************************************************)
LEMMA SetInduction ==
  ASSUME NEW S, 0 \in S, \A n \in Nat : n \in S => n + 1 \in S
  PROVE  \A n \in Nat : n \in S
<1> SUFFICES ASSUME NEW m \in Nat, m \notin S PROVE FALSE
  OBVIOUS
<1> DEFINE T == {n \in Nat : n \notin S}
<1>1. PICK x \in T : \A y \in T : x <= y
  <2>1. T \in SUBSET Nat /\ T # {}
    OBVIOUS
  <2> QED BY <2>1, LeastElement
<1>2. x - 1 \in Nat /\ x - 1 \notin T
  BY <1>1
<1> QED BY <1>2

(***************************************************************************)
(* The running totals of a sequence of integers exist and satisfy their    *)
(* recursion equation.                                                     *)
(***************************************************************************)
LEMMA PrefixSumsDef ==
  ASSUME NEW s \in Seq(Int)
  PROVE  /\ PrefixSums(s) \in [0..Len(s) -> Int]
         /\ PrefixSums(s)[0] = 0
         /\ \A k \in 1..Len(s) : PrefixSums(s)[k] = PrefixSums(s)[k - 1] + s[k]
<1> DEFINE N == Len(s)
<1>0. N \in Nat /\ \A k \in 1..N : s[k] \in Int
  OBVIOUS
<1> HIDE DEF N
<1> DEFINE Good(n, P) ==
      P = [k \in 0..n |-> IF k = 0 THEN 0 ELSE P[k - 1] + s[k]]
<1> DEFINE S == {n \in Nat : n \in 0..N => \E P \in [0..n -> Int] : Good(n, P)}
<1>1. 0 \in S
  <2> DEFINE Z == [k \in 0..0 |-> 0]
  <2>1. Z \in [0..0 -> Int] /\ Good(0, Z)
    OBVIOUS
  <2> QED BY <2>1
<1>2. \A n \in Nat : n \in S => n + 1 \in S
  <2> SUFFICES ASSUME NEW n \in Nat, n \in S, n + 1 \in 0..N
               PROVE  \E P \in [0..(n + 1) -> Int] : Good(n + 1, P)
    OBVIOUS
  <2> HIDE DEF Good
  <2>0. n \in 0..N
    BY <1>0
  <2>1. PICK P \in [0..n -> Int] : Good(n, P)
    BY <2>0
  <2>2. \A k \in 0..n : P[k] = IF k = 0 THEN 0 ELSE P[k - 1] + s[k]
    BY <2>1 DEF Good
  <2> DEFINE Q == [k \in 0..(n + 1) |-> IF k = n + 1 THEN P[n] + s[n + 1] ELSE P[k]]
  <2>3. s[n + 1] \in Int
    BY <1>0
  <2>4. Q \in [0..(n + 1) -> Int]
    BY <2>3
  <2>5. \A k \in 0..(n + 1) : Q[k] = IF k = 0 THEN 0 ELSE Q[k - 1] + s[k]
    <3> TAKE k \in 0..(n + 1)
    <3>1. CASE k = n + 1
      BY <3>1
    <3>2. CASE k \in 0..n
      BY <3>2, <2>2
    <3> QED BY <3>1, <3>2
  <2>6. Good(n + 1, Q)
    <3> HIDE DEF Q
    <3>1. Q = [k \in 0..(n + 1) |-> Q[k]]
      BY <2>4
    <3> QED BY <3>1, <2>5 DEF Good
  <2> QED BY <2>4, <2>6
<1> HIDE DEF S
<1>3. N \in S
  BY <1>0, <1>1, <1>2, SetInduction
<1>4. \E P : Good(N, P)
  BY <1>0, <1>3 DEF S
<1>5. Good(N, PrefixSums(s))
  BY <1>4 DEF PrefixSums, N
<1>6. \A k \in 0..N : PrefixSums(s)[k] = IF k = 0 THEN 0 ELSE PrefixSums(s)[k - 1] + s[k]
  BY <1>5
<1>7. DOMAIN PrefixSums(s) = 0..N /\ PrefixSums(s) = [k \in 0..N |-> PrefixSums(s)[k]]
  BY <1>5
<1> HIDE DEF Good
<1>8. \A k \in 0..N : PrefixSums(s)[k] \in Int
  <2> DEFINE U == {n \in Nat : n \in 0..N => PrefixSums(s)[n] \in Int}
  <2>1. 0 \in U
    BY <1>0, <1>6
  <2>2. \A n \in Nat : n \in U => n + 1 \in U
    <3> SUFFICES ASSUME NEW n \in Nat, n \in U, n + 1 \in 0..N
                 PROVE  PrefixSums(s)[n + 1] \in Int
      OBVIOUS
    <3>1. PrefixSums(s)[n + 1] = PrefixSums(s)[n] + s[n + 1]
      BY <1>6, <1>0
    <3>2. PrefixSums(s)[n] \in Int /\ s[n + 1] \in Int
      BY <1>0
    <3> QED BY <3>1, <3>2
  <2> HIDE DEF U
  <2>3. \A n \in Nat : n \in U
    BY <2>1, <2>2, SetInduction
  <2> QED BY <2>3, <1>0 DEF U
<1>9. PrefixSums(s) \in [0..N -> Int]
  BY <1>7, <1>8
<1>10. PrefixSums(s)[0] = 0
  BY <1>0, <1>6
<1>11. \A k \in 1..N : PrefixSums(s)[k] = PrefixSums(s)[k - 1] + s[k]
  BY <1>0, <1>6
<1> QED BY <1>9, <1>10, <1>11 DEF N

(***************************************************************************)
(* A stretch of s that starts after position m and reads like t adds up to *)
(* what t adds up to.  The other facts about totals follow from this one.  *)
(***************************************************************************)
LEMMA PrefixSumsShift ==
  ASSUME NEW s \in Seq(Int), NEW t \in Seq(Int),
         NEW m \in 0..Len(s), NEW n \in 0..Len(t),
         m + n <= Len(s),
         \A i \in 1..n : s[m + i] = t[i]
  PROVE  PrefixSums(s)[m + n] = PrefixSums(s)[m] + PrefixSums(t)[n]
<1> DEFINE P == PrefixSums(s)
           R == PrefixSums(t)
           S == {k \in Nat : k \in 0..n => P[m + k] = P[m] + R[k]}
<1>1. /\ Len(s) \in Nat /\ Len(t) \in Nat
      /\ \A i \in 1..Len(s) : s[i] \in Int
      /\ \A i \in 1..Len(t) : t[i] \in Int
      /\ m \in Nat /\ n \in Nat
  OBVIOUS
<1>2. /\ \A k \in 0..Len(s) : P[k] \in Int
      /\ \A k \in 1..Len(s) : P[k] = P[k - 1] + s[k]
  BY PrefixSumsDef
<1>3. /\ \A k \in 0..Len(t) : R[k] \in Int
      /\ R[0] = 0
      /\ \A k \in 1..Len(t) : R[k] = R[k - 1] + t[k]
  BY PrefixSumsDef
<1> HIDE DEF P, R
<1>4. 0 \in S
  BY <1>1, <1>2, <1>3
<1>5. \A k \in Nat : k \in S => k + 1 \in S
  <2> SUFFICES ASSUME NEW k \in Nat, k \in S, k + 1 \in 0..n
               PROVE  P[m + (k + 1)] = P[m] + R[k + 1]
    BY <1>1
  <2>1. P[m + k] = P[m] + R[k]
    BY <1>1
  <2>2. m + k + 1 \in 1..Len(s) /\ k + 1 \in 1..Len(t) /\ k + 1 \in 1..n
    BY <1>1
  <2>3. P[m + k + 1] = P[m + k] + s[m + k + 1]
    BY <1>2, <2>2, <1>1
  <2>4. R[k + 1] = R[k] + t[k + 1]
    BY <1>3, <2>2
  <2>5. s[m + k + 1] = t[k + 1]
    <3>1. s[m + (k + 1)] = t[k + 1]
      BY <2>2
    <3>2. m + (k + 1) = m + k + 1
      BY <1>1
    <3> QED BY <3>1, <3>2
  <2>6. P[m] \in Int /\ R[k] \in Int /\ t[k + 1] \in Int
    BY <1>1, <1>2, <1>3, <2>2
  <2>7. m + (k + 1) = m + k + 1
    BY <1>1
  <2>8. P[m + k + 1] = P[m] + R[k + 1]
    <3>1. \A a, b, c \in Int : (a + b) + c = a + (b + c)
      OBVIOUS
    <3>2. P[m + k + 1] = (P[m] + R[k]) + t[k + 1]
      BY <2>1, <2>3, <2>5
    <3>3. (P[m] + R[k]) + t[k + 1] = P[m] + (R[k] + t[k + 1])
      BY <2>6, <3>1
    <3> QED BY <2>4, <3>2, <3>3
  <2> QED BY <2>7, <2>8
<1> HIDE DEF S
<1>6. n \in S
  BY <1>1, <1>4, <1>5, SetInduction
<1> QED BY <1>1, <1>6 DEF S, P, R
-----------------------------------------------------------------------------
(***************************************************************************)
(* Totals of the sequences the LRU lists are built from.                   *)
(***************************************************************************)
LEMMA TotalType ==
  ASSUME NEW s \in Seq(Int)
  PROVE  Total(s) \in Int
BY PrefixSumsDef DEF Total

LEMMA TotalEmpty ==
  Total(<< >>) = 0
<1>1. << >> \in Seq(Int) /\ Len(<< >>) = 0
  OBVIOUS
<1>2. PrefixSums(<< >>)[0] = 0
  BY <1>1, PrefixSumsDef
<1> QED BY <1>1, <1>2 DEF Total

LEMMA TotalConcat ==
  ASSUME NEW s \in Seq(Int), NEW t \in Seq(Int)
  PROVE  Total(s \o t) = Total(s) + Total(t)
<1> DEFINE u == s \o t
<1>1. /\ u \in Seq(Int)
      /\ Len(u) = Len(s) + Len(t)
      /\ \A i \in 1..Len(s) : u[0 + i] = s[i]
      /\ \A i \in 1..Len(t) : u[Len(s) + i] = t[i]
      /\ Len(s) \in Nat /\ Len(t) \in Nat
  BY ConcatProperties
<1> HIDE DEF u
<1>2. PrefixSums(u)[0 + Len(s)] = PrefixSums(u)[0] + PrefixSums(s)[Len(s)]
  <2>1. 0 \in 0..Len(u) /\ Len(s) \in 0..Len(s) /\ 0 + Len(s) <= Len(u)
    BY <1>1
  <2> QED BY <2>1, <1>1, PrefixSumsShift
<1>3. PrefixSums(u)[Len(s) + Len(t)] = PrefixSums(u)[Len(s)] + PrefixSums(t)[Len(t)]
  <2>1. Len(s) \in 0..Len(u) /\ Len(t) \in 0..Len(t) /\ Len(s) + Len(t) <= Len(u)
    BY <1>1
  <2> QED BY <2>1, <1>1, PrefixSumsShift
<1>4. /\ PrefixSums(u)[0] = 0
      /\ PrefixSums(s)[Len(s)] \in Int
      /\ PrefixSums(t)[Len(t)] \in Int
  <2>1. Len(s) \in 0..Len(s) /\ Len(t) \in 0..Len(t)
    BY <1>1
  <2>2. PrefixSums(u)[0] = 0
    BY <1>1, PrefixSumsDef
  <2>3. PrefixSums(s) \in [0..Len(s) -> Int] /\ PrefixSums(t) \in [0..Len(t) -> Int]
    BY PrefixSumsDef
  <2> QED BY <2>1, <2>2, <2>3
<1>5. 0 + Len(s) = Len(s)
  BY <1>1
<1>6. PrefixSums(u)[Len(u)] = PrefixSums(s)[Len(s)] + PrefixSums(t)[Len(t)]
  BY <1>1, <1>2, <1>3, <1>4, <1>5
<1> QED BY <1>6 DEF Total, u

LEMMA TotalAppend ==
  ASSUME NEW s \in Seq(Int), NEW e \in Int
  PROVE  Total(Append(s, e)) = Total(s) + e
<1>1. <<e>> \in Seq(Int) /\ Len(<<e>>) = 1 /\ <<e>>[1] = e
  OBVIOUS
<1>2. Total(<<e>>) = e
  <2>1. /\ PrefixSums(<<e>>)[0] = 0
        /\ \A k \in 1..Len(<<e>>) :
             PrefixSums(<<e>>)[k] = PrefixSums(<<e>>)[k - 1] + <<e>>[k]
    BY <1>1, PrefixSumsDef
  <2>2. PrefixSums(<<e>>)[1] = 0 + e
    BY <1>1, <2>1
  <2> QED BY <1>1, <2>2 DEF Total
<1>3. Append(s, e) = s \o <<e>>
  BY AppendIsConcat
<1> QED BY <1>1, <1>2, <1>3, TotalConcat

(***************************************************************************)
(* Cutting a sequence in two splits its total.                             *)
(***************************************************************************)
LEMMA TotalSplit ==
  ASSUME NEW s \in Seq(Int), NEW k \in 0..Len(s)
  PROVE  Total(s) = Total(SubSeq(s, 1, k)) + Total(SubSeq(s, k + 1, Len(s)))
<1>1. Len(s) \in Nat /\ \A i \in 1..Len(s) : s[i] \in Int
  OBVIOUS
<1>2. SubSeq(s, 1, k) \in Seq(Int) /\ SubSeq(s, k + 1, Len(s)) \in Seq(Int)
  BY <1>1
<1>3. SubSeq(s, 1, k) \o SubSeq(s, k + 1, Len(s)) = SubSeq(s, 1, Len(s))
  <2>1. 1 \in 1..(Len(s) + 1) /\ k \in (1 - 1)..Len(s) /\ Len(s) \in k..Len(s)
    BY <1>1
  <2> QED BY <2>1, ConcatAdjacentSubSeq
<1>4. SubSeq(s, 1, Len(s)) = s
  BY SubSeqFull
<1> DEFINE a == SubSeq(s, 1, k)
           b == SubSeq(s, k + 1, Len(s))
<1>5. a \in Seq(Int) /\ b \in Seq(Int) /\ a \o b = s
  BY <1>2, <1>3, <1>4
<1> HIDE DEF a, b
<1>6. Total(a \o b) = Total(a) + Total(b)
  BY <1>5, TotalConcat
<1> QED BY <1>5, <1>6 DEF a, b

(***************************************************************************)
(* Sequences of naturals have natural totals.                              *)
(***************************************************************************)
LEMMA TotalNat ==
  ASSUME NEW s \in Seq(Nat)
  PROVE  Total(s) \in Nat
<1>1. /\ s \in Seq(Int)
      /\ Len(s) \in Nat
      /\ \A k \in 1..Len(s) : s[k] \in Nat
  OBVIOUS
<1> DEFINE P == PrefixSums(s)
           S == {n \in Nat : n \in 0..Len(s) => P[n] \in Nat}
<1>2. P[0] = 0 /\ \A k \in 1..Len(s) : P[k] = P[k - 1] + s[k]
  BY <1>1, PrefixSumsDef
<1> HIDE DEF P
<1>3. 0 \in S
  BY <1>2
<1>4. \A n \in Nat : n \in S => n + 1 \in S
  <2> SUFFICES ASSUME NEW n \in Nat, n \in S, n + 1 \in 0..Len(s)
               PROVE  P[n + 1] \in Nat
    BY <1>1
  <2>1. P[n] \in Nat /\ n + 1 \in 1..Len(s)
    BY <1>1
  <2>2. P[n + 1] = P[n] + s[n + 1]
    BY <1>2, <2>1
  <2> QED BY <1>1, <2>1, <2>2
<1> HIDE DEF S
<1>5. Len(s) \in S
  BY <1>1, <1>3, <1>4, SetInduction
<1> QED BY <1>1, <1>5 DEF S, P, Total

(***************************************************************************)
(* Moving the element at a position to the end of a sequence.              *)
(***************************************************************************)
LEMMA MoveToEnd ==
  ASSUME NEW S, NEW s \in Seq(S), NEW i \in 1..Len(s)
  PROVE  LET t == Append(RemoveAt(s, i), s[i])
         IN  /\ t \in Seq(S)
             /\ Len(t) = Len(s)
             /\ \A j \in 1..Len(s) :
                  t[j] = IF j < i THEN s[j] ELSE IF j < Len(s) THEN s[j + 1] ELSE s[i]
<1> DEFINE front == SubSeq(s, 1, i - 1)
           back == SubSeq(s, i + 1, Len(s))
           r == RemoveAt(s, i)
<1>1. /\ Len(s) \in Nat /\ i \in Nat /\ i >= 1 /\ i <= Len(s)
      /\ \A j \in 1..Len(s) : s[j] \in S
  OBVIOUS
<1>2. /\ front \in Seq(S) /\ Len(front) = i - 1
      /\ \A j \in 1..(i - 1) : front[j] = s[j]
  <2>1. \A j \in 1..(i - 1) : s[j] \in S
    BY <1>1
  <2>2. /\ front \in Seq(S)
        /\ Len(front) = IF 1 <= i - 1 THEN (i - 1) - 1 + 1 ELSE 0
        /\ \A j \in 1..((i - 1) - 1 + 1) : front[j] = s[1 + j - 1]
    BY <1>1, <2>1, SubSeqProperties
  <2> QED BY <1>1, <2>2
<1>3. /\ back \in Seq(S) /\ Len(back) = Len(s) - i
      /\ \A j \in 1..(Len(s) - i) : back[j] = s[i + j]
  <2>1. \A j \in (i + 1)..Len(s) : s[j] \in S
    BY <1>1
  <2>2. /\ back \in Seq(S)
        /\ Len(back) = IF i + 1 <= Len(s) THEN Len(s) - (i + 1) + 1 ELSE 0
        /\ \A j \in 1..(Len(s) - (i + 1) + 1) : back[j] = s[(i + 1) + j - 1]
    BY <1>1, <2>1, SubSeqProperties
  <2> QED BY <1>1, <2>2
<1> HIDE DEF front, back
<1>4. r = front \o back
  BY DEF RemoveAt, front, back
<1> HIDE DEF r
<1>5. /\ r \in Seq(S)
      /\ Len(r) = Len(s) - 1
      /\ \A j \in 1..(Len(s) - 1) : r[j] = IF j < i THEN s[j] ELSE s[j + 1]
  <2>1. /\ r \in Seq(S)
        /\ Len(r) = Len(front) + Len(back)
        /\ \A j \in 1..(Len(front) + Len(back)) :
             r[j] = IF j <= Len(front) THEN front[j] ELSE back[j - Len(front)]
    BY <1>2, <1>3, <1>4, ConcatProperties
  <2>2. Len(front) + Len(back) = Len(s) - 1
    BY <1>1, <1>2, <1>3
  <2>3. ASSUME NEW j \in 1..(Len(s) - 1)
        PROVE  r[j] = IF j < i THEN s[j] ELSE s[j + 1]
    <3>1. CASE j < i
      <4>1. j <= Len(front) /\ j \in 1..(i - 1)
        BY <1>1, <1>2, <3>1
      <4> QED BY <1>2, <2>1, <2>2, <3>1, <4>1
    <3>2. CASE j >= i
      <4>1. ~(j <= Len(front)) /\ j - Len(front) \in 1..(Len(s) - i)
            /\ i + (j - Len(front)) = j + 1
        BY <1>1, <1>2, <3>2
      <4>2. back[j - Len(front)] = s[j + 1]
        BY <1>3, <4>1
      <4> QED BY <1>1, <2>1, <2>2, <3>2, <4>1, <4>2
    <3> QED BY <1>1, <3>1, <3>2
  <2> QED BY <2>1, <2>2, <2>3
<1>6. s[i] \in S
  BY <1>1
<1>7. /\ Append(r, s[i]) \in Seq(S)
      /\ Len(Append(r, s[i])) = Len(r) + 1
      /\ \A j \in 1..Len(r) : Append(r, s[i])[j] = r[j]
      /\ Append(r, s[i])[Len(r) + 1] = s[i]
  BY <1>5, <1>6, AppendProperties
<1>8. ASSUME NEW j \in 1..Len(s)
      PROVE  Append(r, s[i])[j] =
               IF j < i THEN s[j] ELSE IF j < Len(s) THEN s[j + 1] ELSE s[i]
  <2>1. CASE j < Len(s)
    <3>1. j \in 1..Len(r) /\ j \in 1..(Len(s) - 1)
      BY <1>1, <1>5, <2>1
    <3> QED BY <1>5, <1>7, <2>1, <3>1
  <2>2. CASE j = Len(s)
    <3>1. j = Len(r) + 1 /\ ~(j < i) /\ ~(j < Len(s))
      BY <1>1, <1>5, <2>2
    <3> QED BY <1>7, <3>1
  <2>3. j < Len(s) \/ j = Len(s)
    BY <1>1
  <2> QED BY <2>1, <2>2, <2>3, Zenon
<1>9. Len(Append(r, s[i])) = Len(s)
  BY <1>1, <1>5, <1>7
<1> QED BY <1>7, <1>8, <1>9 DEF r

(***************************************************************************)
(* It changes no total.                                                    *)
(***************************************************************************)
LEMMA MoveToEndTotal ==
  ASSUME NEW s \in Seq(Int), NEW i \in 1..Len(s)
  PROVE  Total(Append(RemoveAt(s, i), s[i])) = Total(s)
<1> DEFINE front == SubSeq(s, 1, i - 1)
           back == SubSeq(s, i + 1, Len(s))
<1>1. /\ Len(s) \in Nat /\ i \in Nat /\ i >= 1 /\ i <= Len(s)
      /\ \A j \in 1..Len(s) : s[j] \in Int
      /\ s[i] \in Int
  OBVIOUS
<1>2. front \in Seq(Int) /\ back \in Seq(Int)
  BY <1>1
<1>3. Total(Append(RemoveAt(s, i), s[i])) = (Total(front) + Total(back)) + s[i]
  <2>1. RemoveAt(s, i) = front \o back
    BY DEF RemoveAt
  <2>2. front \o back \in Seq(Int)
    BY <1>2, ConcatProperties
  <2> QED BY <1>1, <1>2, <2>1, <2>2, TotalConcat, TotalAppend
<1>4. Total(s) = Total(SubSeq(s, 1, i)) + Total(back)
  BY <1>1, TotalSplit
<1>5. SubSeq(s, 1, i) = Append(front, s[i])
  <2>1. 1 \in 1..Len(s) /\ i \in 1..Len(s)
    BY <1>1
  <2>2. SubSeq(s, 1, i) = SubSeq(s, 1, i - 1) \o <<s[i]>>
    BY <2>1, SubSeqRecursiveSecond
  <2> QED BY <1>1, <1>2, <2>2, AppendIsConcat
<1>6. Total(SubSeq(s, 1, i)) = Total(front) + s[i]
  BY <1>1, <1>2, <1>5, TotalAppend
<1>7. Total(front) \in Int /\ Total(back) \in Int
  BY <1>2, TotalType
<1> QED BY <1>1, <1>3, <1>4, <1>6, <1>7
-----------------------------------------------------------------------------
(* Sums over finite sets, as the folds of the community modules take them: *)
(* one chosen element at a time.                                           *)

Some(s) == CHOOSE x \in s : TRUE

\* F gives every part of S the sum of its weights.
SumsParts(F, w, S) ==
  \A s \in SUBSET S : F[s] = IF s = {} THEN 0 ELSE w[Some(s)] + F[s \ {Some(s)}]

(***************************************************************************)
(* What removing the chosen element does to a finite set.                  *)
(***************************************************************************)
LEMMA SomeRemoved ==
  ASSUME NEW S, IsFiniteSet(S), NEW s \in SUBSET S, s # {}
  PROVE  /\ Some(s) \in s
         /\ IsFiniteSet(s) /\ Cardinality(s) \in Nat /\ Cardinality(s) >= 1
         /\ \A x \in s : /\ s \ {x} \in SUBSET S
                         /\ IsFiniteSet(s \ {x})
                         /\ Cardinality(s \ {x}) = Cardinality(s) - 1
<1>1. Some(s) \in s
  BY DEF Some
<1>2. IsFiniteSet(s) /\ Cardinality(s) \in Nat
  BY FS_Subset, FS_CardinalityType
<1>3. Cardinality(s) # 0
  BY <1>2, FS_EmptySet
<1>4. \A x \in s : IsFiniteSet(s \ {x}) /\ Cardinality(s \ {x}) = Cardinality(s) - 1
  BY <1>2, FS_RemoveElement
<1> QED BY <1>1, <1>2, <1>3, <1>4

(***************************************************************************)
(* The sums of the parts of a finite set exist.                            *)
(***************************************************************************)
LEMMA SumsExist ==
  ASSUME NEW S, IsFiniteSet(S), NEW w \in [S -> Int]
  PROVE  \E F \in [SUBSET S -> Int] : SumsParts(F, w, S)
<1> DEFINE Small(n) == {s \in SUBSET S : Cardinality(s) <= n}
           Good(F, n) == \A s \in Small(n) :
             F[s] = IF s = {} THEN 0 ELSE w[Some(s)] + F[s \ {Some(s)}]
           N == {n \in Nat : \E F \in [Small(n) -> Int] : Good(F, n)}
<1>1. 0 \in N
  <2> DEFINE F == [s \in Small(0) |-> 0]
  <2>1. \A s \in Small(0) : s = {}
    <3> TAKE s \in Small(0)
    <3>1. s # {} => Cardinality(s) >= 1
      BY SomeRemoved
    <3>2. IsFiniteSet(s) /\ Cardinality(s) \in Nat
      BY FS_Subset, FS_CardinalityType
    <3> QED BY <3>1, <3>2
  <2> HIDE DEF Small
  <2>2. F \in [Small(0) -> Int] /\ Good(F, 0)
    BY <2>1
  <2> QED BY <2>2
<1>2. ASSUME NEW n \in Nat, n \in N PROVE n + 1 \in N
  <2>1. PICK F \in [Small(n) -> Int] : Good(F, n)
    BY <1>2
  <2> DEFINE G == [s \in Small(n + 1) |->
                     IF s \in Small(n) THEN F[s] ELSE w[Some(s)] + F[s \ {Some(s)}]]
  <2>2. ASSUME NEW s \in Small(n + 1), s # {}
        PROVE  /\ Some(s) \in S
               /\ s \ {Some(s)} \in Small(n) /\ s \ {Some(s)} \in Small(n + 1)
    <3>1. /\ Some(s) \in s /\ Cardinality(s) \in Nat /\ Cardinality(s) <= n + 1
          /\ s \ {Some(s)} \in SUBSET S
          /\ Cardinality(s \ {Some(s)}) = Cardinality(s) - 1
      BY <2>2, SomeRemoved
    <3> QED BY <3>1
  <2>3. {} \in Small(n)
    BY FS_EmptySet
  <2> HIDE DEF Small
  <2>4. G \in [Small(n + 1) -> Int]
    <3> SUFFICES ASSUME NEW s \in Small(n + 1)
                 PROVE  (IF s \in Small(n) THEN F[s] ELSE w[Some(s)] + F[s \ {Some(s)}]) \in Int
      OBVIOUS
    <3>1. CASE s \in Small(n)
      BY <2>1, <3>1
    <3>2. CASE s \notin Small(n)
      <4>1. w[Some(s)] \in Int /\ F[s \ {Some(s)}] \in Int
        BY <2>1, <2>2, <2>3, <3>2
      <4> QED BY <3>2, <4>1
    <3> QED BY <3>1, <3>2
  <2>5. ASSUME NEW s \in Small(n + 1)
        PROVE  G[s] = IF s = {} THEN 0 ELSE w[Some(s)] + G[s \ {Some(s)}]
    <3>1. CASE s = {}
      BY <2>1, <2>3, <3>1
    <3>2. CASE s # {}
      <4>1. G[s \ {Some(s)}] = F[s \ {Some(s)}]
        BY <2>2, <3>2
      <4>2. G[s] = w[Some(s)] + F[s \ {Some(s)}]
        BY <2>1, <3>2
      <4> HIDE DEF G
      <4> QED BY <3>2, <4>1, <4>2
    <3> QED BY <3>1, <3>2
  <2>6. Good(G, n + 1)
    <3> HIDE DEF G
    <3> QED BY <2>5
  <2> HIDE DEF G, Good
  <2> QED BY <2>4, <2>6
<1> HIDE DEF N
<1>3. Cardinality(S) \in N
  BY <1>1, <1>2, FS_CardinalityType, SetInduction
<1>4. Small(Cardinality(S)) = SUBSET S
  BY FS_Subset
<1>5. PICK F \in [SUBSET S -> Int] : Good(F, Cardinality(S))
  <2> HIDE DEF Good, Small
  <2> QED BY <1>3, <1>4 DEF N
<1>6. SumsParts(F, w, S)
  <2> HIDE DEF Small
  <2> QED BY <1>4, <1>5 DEF SumsParts
<1> QED BY <1>6

(***************************************************************************)
(* It does not matter which element is taken first.                        *)
(***************************************************************************)
LEMMA SumsRemove ==
  ASSUME NEW S, IsFiniteSet(S), NEW w \in [S -> Int],
         NEW F, SumsParts(F, w, S)
  PROVE  \A s \in SUBSET S : /\ F[s] \in Int
                             /\ \A x \in s : F[s] = w[x] + F[s \ {x}]
<1> DEFINE OK(s) == F[s] \in Int /\ \A x \in s : F[s] = w[x] + F[s \ {x}]
           N == {n \in Nat : \A s \in SUBSET S : Cardinality(s) <= n => OK(s)}
<1>0. F[{}] = 0
  BY DEF SumsParts
<1>1. 0 \in N
  <2> SUFFICES ASSUME NEW s \in SUBSET S, Cardinality(s) <= 0 PROVE OK(s)
    OBVIOUS
  <2>1. s = {}
    BY SomeRemoved
  <2> QED BY <2>1, <1>0
<1>2. ASSUME NEW n \in Nat, n \in N PROVE n + 1 \in N
  <2> SUFFICES ASSUME NEW s \in SUBSET S, Cardinality(s) <= n + 1 PROVE OK(s)
    OBVIOUS
  <2>1. CASE s = {}
    BY <2>1, <1>0
  <2>2. CASE s # {}
    <3> DEFINE y == Some(s)
    <3>1. /\ y \in s /\ Cardinality(s) \in Nat
          /\ \A x \in s : s \ {x} \in SUBSET S /\ Cardinality(s \ {x}) = Cardinality(s) - 1
      BY <2>2, SomeRemoved
    <3>2. F[s] = w[y] + F[s \ {y}]
      BY <2>2 DEF SumsParts
    <3> HIDE DEF y
    <3>3. \A x \in s : OK(s \ {x})
      <4> HIDE DEF OK
      <4> QED BY <3>1, <1>2
    <3>4. F[s] \in Int
      <4>1. F[s \ {y}] \in Int /\ w[y] \in Int
        BY <3>1, <3>3
      <4> QED BY <3>2, <4>1
    <3>5. ASSUME NEW x \in s PROVE F[s] = w[x] + F[s \ {x}]
      <4>1. CASE x = y
        BY <4>1, <3>2
      <4>2. CASE x # y
        <5>1. x \in s \ {y} /\ y \in s \ {x}
          BY <4>2, <3>1
        <5>2. F[s \ {y}] = w[x] + F[(s \ {y}) \ {x}]
          BY <3>1, <3>3, <5>1
        <5>3. F[s \ {x}] = w[y] + F[(s \ {x}) \ {y}]
          BY <3>1, <3>3, <5>1
        <5>4. (s \ {y}) \ {x} = (s \ {x}) \ {y}
          OBVIOUS
        <5>5. (s \ {y}) \ {x} \in SUBSET S /\ Cardinality((s \ {y}) \ {x}) <= n
          <6>1. /\ s \ {y} \in SUBSET S /\ s \ {y} # {}
                /\ Cardinality(s \ {y}) = Cardinality(s) - 1
            BY <3>1, <5>1
          <6> DEFINE t == s \ {y}
          <6>2. t \in SUBSET S /\ t # {} /\ x \in t
            BY <6>1, <5>1
          <6> HIDE DEF t
          <6>3. t \ {x} \in SUBSET S /\ Cardinality(t \ {x}) = Cardinality(t) - 1
            BY <6>2, SomeRemoved
          <6>4. Cardinality((s \ {y}) \ {x}) = Cardinality(s \ {y}) - 1
            BY <6>3 DEF t
          <6> QED BY <6>1, <6>4, <3>1
        <5>6. F[(s \ {y}) \ {x}] \in Int
          BY <5>5, <1>2
        <5>7. w[x] \in Int /\ w[y] \in Int
          BY <3>1
        <5>8. \A a, b, c \in Int : a + (b + c) = b + (a + c)
          OBVIOUS
        <5>9. F[s] = w[y] + (w[x] + F[(s \ {y}) \ {x}])
          BY <3>2, <5>2
        <5>10. F[s \ {x}] = w[y] + F[(s \ {y}) \ {x}]
          BY <5>3, <5>4
        <5> QED BY <5>6, <5>7, <5>8, <5>9, <5>10
      <4> QED BY <4>1, <4>2
    <3> QED BY <3>4, <3>5
  <2> QED BY <2>1, <2>2
<1> HIDE DEF N
<1>3. Cardinality(S) \in N
  BY <1>1, <1>2, FS_CardinalityType, SetInduction
<1>4. \A s \in SUBSET S : OK(s)
  <2> HIDE DEF OK
  <2> QED BY <1>3, FS_Subset DEF N
<1> QED BY <1>4

\* The elements a list names, and their weights in its order.
Named(list, n) == {list[i] : i \in 1..n}
WeightsOf(w, list, n) == [i \in 1..n |-> w[list[i]]]

(***************************************************************************)
(* A list that names every element of a part once has its total.           *)
(***************************************************************************)
LEMMA SumsTotal ==
  ASSUME NEW S, IsFiniteSet(S), NEW w \in [S -> Int],
         NEW F, SumsParts(F, w, S),
         NEW n \in Nat, NEW list \in [1..n -> S],
         \A i, j \in 1..n : list[i] = list[j] => i = j
  PROVE  F[Named(list, n)] = Total(WeightsOf(w, list, n))
<1> DEFINE weights == [i \in 1..n |-> w[list[i]]]
           P == PrefixSums(weights)
           part(k) == {list[i] : i \in 1..k}
           N == {k \in Nat : k <= n => F[part(k)] = P[k]}
<1>1. weights \in Seq(Int) /\ Len(weights) = n
  OBVIOUS
<1>2. /\ P[0] = 0
      /\ \A k \in 1..n : P[k] = P[k - 1] + weights[k]
      /\ \A k \in 0..n : P[k] \in Int
  <2> HIDE DEF weights
  <2>1. /\ P \in [0..Len(weights) -> Int] /\ P[0] = 0
        /\ \A k \in 1..Len(weights) : P[k] = P[k - 1] + weights[k]
    BY <1>1, PrefixSumsDef
  <2> HIDE DEF P
  <2>2. \A k \in 0..n : P[k] \in Int
    BY <1>1, <2>1, Zenon
  <2> QED BY <1>1, <2>1, <2>2, Zenon
<1>3. 0 \in N
  <2>1. part(0) = {}
    OBVIOUS
  <2>2. F[{}] = 0
    BY DEF SumsParts
  <2> HIDE DEF P
  <2> QED BY <1>2, <2>1, <2>2
<1>4. ASSUME NEW k \in Nat, k \in N PROVE k + 1 \in N
  <2> SUFFICES ASSUME k + 1 <= n PROVE F[part(k + 1)] = P[k + 1]
    <3> HIDE DEF P, part
    <3> QED OBVIOUS
  <2>1. /\ part(k + 1) \in SUBSET S /\ list[k + 1] \in part(k + 1)
        /\ part(k + 1) \ {list[k + 1]} = part(k)
    <3>1. /\ k + 1 \in 1..n /\ \A i \in 1..(k + 1) : i \in 1..n
          /\ \A i \in 1..(k + 1) : i = k + 1 \/ i \in 1..k
          /\ \A i \in 1..k : i \in 1..(k + 1) /\ i # k + 1
      OBVIOUS
    <3> QED BY <3>1
  <2>2. F[part(k + 1)] = w[list[k + 1]] + F[part(k)]
    <3> HIDE DEF part
    <3> QED BY <2>1, SumsRemove
  <2>3. F[part(k)] = P[k]
    <3> HIDE DEF P, part
    <3> QED BY <1>4
  <2>4. /\ P[k + 1] = P[k] + weights[k + 1] /\ weights[k + 1] = w[list[k + 1]]
        /\ P[k] \in Int /\ w[list[k + 1]] \in Int
    <3>1. k + 1 \in 1..n /\ (k + 1) - 1 = k /\ k \in 0..n
      OBVIOUS
    <3>2. weights[k + 1] = w[list[k + 1]] /\ w[list[k + 1]] \in Int
      BY <3>1
    <3> HIDE DEF P, weights
    <3> QED BY <3>1, <3>2, <1>2
  <2> HIDE DEF P, part, weights
  <2> QED BY <2>2, <2>3, <2>4
<1> HIDE DEF N
<1>5. n \in N
  BY <1>3, <1>4, SetInduction
<1>6. F[part(n)] = P[n]
  BY <1>5 DEF N
<1>7. Total(weights) = P[n]
  <2> HIDE DEF weights
  <2> QED BY <1>1 DEF Total
<1> HIDE DEF P
<1> QED BY <1>6, <1>7 DEF Named, WeightsOf

-----------------------------------------------------------------------------
(* Filtered sequences.                                                     *)

(***************************************************************************)
(* The filtered prefixes of a sequence exist and satisfy their recursion   *)
(* equation.                                                               *)
(***************************************************************************)
LEMMA FilteringDef ==
  ASSUME NEW T, NEW s \in Seq(T), NEW K
  PROVE  /\ Filtering(s, K) \in [0..Len(s) -> Seq(T)]
         /\ Filtering(s, K)[0] = << >>
         /\ \A k \in 1..Len(s) :
              Filtering(s, K)[k] = IF s[k] \in K THEN Append(Filtering(s, K)[k - 1], s[k])
                                   ELSE Filtering(s, K)[k - 1]
<1> DEFINE N == Len(s)
           V == Seq(T)
<1>0. /\ N \in Nat /\ \A k \in 1..N : s[k] \in T
      /\ << >> \in V /\ \A v \in V, e \in T : Append(v, e) \in V
  OBVIOUS
<1> HIDE DEF N, V
<1> DEFINE Next(v, k) == IF s[k] \in K THEN Append(v, s[k]) ELSE v
           Good(n, P) == P = [k \in 0..n |-> IF k = 0 THEN << >> ELSE Next(P[k - 1], k)]
           S == {n \in Nat : n \in 0..N => \E P \in [0..n -> V] : Good(n, P)}
<1>N. \A v \in V, k \in 1..N : Next(v, k) \in V
  BY <1>0
<1> HIDE DEF Next
<1>1. 0 \in S
  <2> DEFINE Z == [k \in 0..0 |-> << >>]
  <2>1. Z \in [0..0 -> V]
    BY <1>0
  <2>2. Z = [k \in 0..0 |-> IF k = 0 THEN << >> ELSE Next(Z[k - 1], k)]
    OBVIOUS
  <2> HIDE DEF Z
  <2> QED BY <2>1, <2>2
<1>2. \A n \in Nat : n \in S => n + 1 \in S
  <2> HIDE DEF Good
  <2> SUFFICES ASSUME NEW n \in Nat, n \in S, n + 1 \in 0..N
               PROVE  \E P \in [0..(n + 1) -> V] : Good(n + 1, P)
    OBVIOUS
  <2>0. n \in 0..N /\ n + 1 \in 1..N
    BY <1>0
  <2>1. PICK P \in [0..n -> V] : Good(n, P)
    BY <2>0
  <2>2. \A k \in 0..n : P[k] = IF k = 0 THEN << >> ELSE Next(P[k - 1], k)
    BY <2>1 DEF Good
  <2> DEFINE Q == [k \in 0..(n + 1) |-> IF k = n + 1 THEN Next(P[n], n + 1) ELSE P[k]]
  <2>3. Next(P[n], n + 1) \in V
    BY <1>N, <2>0
  <2>4. Q \in [0..(n + 1) -> V]
    BY <2>3
  <2>5. \A k \in 0..(n + 1) : Q[k] = IF k = 0 THEN << >> ELSE Next(Q[k - 1], k)
    <3> TAKE k \in 0..(n + 1)
    <3>1. CASE k = n + 1
      BY <3>1
    <3>2. CASE k \in 0..n
      BY <3>2, <2>2
    <3> QED BY <3>1, <3>2
  <2>6. Good(n + 1, Q)
    <3> HIDE DEF Q
    <3>1. Q = [k \in 0..(n + 1) |-> Q[k]]
      BY <2>4
    <3> QED BY <3>1, <2>5 DEF Good
  <2> QED BY <2>4, <2>6
<1> HIDE DEF S
<1>3. N \in S
  BY <1>0, <1>1, <1>2, SetInduction
<1>4. \E P : Good(N, P)
  BY <1>0, <1>3 DEF S
<1>5. Good(N, Filtering(s, K))
  BY <1>4 DEF Filtering, N, Next
<1>6. \A k \in 0..N : Filtering(s, K)[k] =
        IF k = 0 THEN << >> ELSE Next(Filtering(s, K)[k - 1], k)
  BY <1>5
<1>7. DOMAIN Filtering(s, K) = 0..N
      /\ Filtering(s, K) = [k \in 0..N |-> Filtering(s, K)[k]]
  BY <1>5
<1> HIDE DEF Good
<1>8. \A k \in 0..N : Filtering(s, K)[k] \in V
  <2> DEFINE U == {n \in Nat : n \in 0..N => Filtering(s, K)[n] \in V}
  <2>1. 0 \in U
    BY <1>0, <1>6
  <2>2. \A n \in Nat : n \in U => n + 1 \in U
    <3> SUFFICES ASSUME NEW n \in Nat, n \in U, n + 1 \in 0..N
                 PROVE  Filtering(s, K)[n + 1] \in V
      OBVIOUS
    <3>1. Filtering(s, K)[n + 1] = Next(Filtering(s, K)[n], n + 1)
      BY <1>6, <1>0
    <3>2. Filtering(s, K)[n] \in V /\ n + 1 \in 1..N
      BY <1>0
    <3> QED BY <3>1, <3>2, <1>N
  <2> HIDE DEF U
  <2>3. \A n \in Nat : n \in U
    BY <2>1, <2>2, SetInduction
  <2> QED BY <2>3, <1>0 DEF U
<1>9. Filtering(s, K) \in [0..N -> V]
  BY <1>7, <1>8
<1>10. Filtering(s, K)[0] = << >>
  BY <1>0, <1>6
<1>11. \A k \in 1..N : Filtering(s, K)[k] = Next(Filtering(s, K)[k - 1], k)
  BY <1>0, <1>6
<1> QED BY <1>9, <1>10, <1>11 DEF N, V, Next

(***************************************************************************)
(* Filtering what has nothing, and where the result lies.                  *)
(***************************************************************************)
LEMMA OnlyEmpty ==
  ASSUME NEW K
  PROVE  Only(<< >>, K) = << >>
<1>1. << >> \in Seq({}) /\ Len(<< >>) = 0
  OBVIOUS
<1>2. \A s \in Seq({}) : Filtering(s, K)[0] = << >>
  BY FilteringDef
<1>3. Filtering(<< >>, K)[0] = << >>
  BY <1>1, <1>2
<1> QED BY <1>1, <1>3 DEF Only

LEMMA OnlyType ==
  ASSUME NEW T, NEW s \in Seq(T), NEW K
  PROVE  Only(s, K) \in Seq(T)
<1>1. Filtering(s, K) \in [0..Len(s) -> Seq(T)] /\ Len(s) \in 0..Len(s)
  BY FilteringDef
<1> QED BY <1>1 DEF Only

(***************************************************************************)
(* One more element is kept or not.                                        *)
(***************************************************************************)
LEMMA OnlyAppend ==
  ASSUME NEW T, NEW s \in Seq(T), NEW e \in T, NEW K
  PROVE  Only(Append(s, e), K) = IF e \in K THEN Append(Only(s, K), e) ELSE Only(s, K)
<1> DEFINE t == Append(s, e)
           n == Len(s)
           F == Filtering(s, K)
           G == Filtering(t, K)
<1>1. /\ n \in Nat /\ t \in Seq(T) /\ Len(t) = n + 1 /\ t[n + 1] = e
      /\ \A k \in 1..n : t[k] = s[k]
  BY AppendProperties
<1>2. /\ F[0] = << >>
      /\ \A k \in 1..n : F[k] = IF s[k] \in K THEN Append(F[k - 1], s[k]) ELSE F[k - 1]
  BY FilteringDef
<1> HIDE DEF t, n
<1>3. /\ G[0] = << >>
      /\ \A k \in 1..(n + 1) : G[k] = IF t[k] \in K THEN Append(G[k - 1], t[k]) ELSE G[k - 1]
  <2>1. /\ G[0] = << >>
        /\ \A k \in 1..Len(t) : G[k] = IF t[k] \in K THEN Append(G[k - 1], t[k]) ELSE G[k - 1]
    BY <1>1, FilteringDef
  <2> QED BY <2>1, <1>1
<1> HIDE DEF F, G
<1> DEFINE S == {k \in Nat : k \in 0..n => G[k] = F[k]}
<1>4. 0 \in S
  BY <1>2, <1>3
<1>5. \A k \in Nat : k \in S => k + 1 \in S
  <2> SUFFICES ASSUME NEW k \in Nat, k \in S, k + 1 \in 0..n
               PROVE  G[k + 1] = F[k + 1]
    OBVIOUS
  <2>1. G[k] = F[k] /\ k + 1 \in 1..n /\ k + 1 \in 1..(n + 1) /\ (k + 1) - 1 = k
    BY <1>1
  <2> QED BY <2>1, <1>1, <1>2, <1>3
<1> HIDE DEF S
<1>6. n \in S
  BY <1>1, <1>4, <1>5, SetInduction
<1>7. G[n] = F[n]
  BY <1>1, <1>6 DEF S
<1>8. n + 1 \in 1..(n + 1) /\ (n + 1) - 1 = n
  BY <1>1
<1>9. G[n + 1] = IF e \in K THEN Append(F[n], e) ELSE F[n]
  BY <1>1, <1>3, <1>7, <1>8
<1> QED BY <1>9, <1>1 DEF Only, F, G, n, t

(***************************************************************************)
(* Filtering keeps exactly the elements that are in the set, and those of  *)
(* a list without repetitions once each.                                   *)
(***************************************************************************)
LEMMA OnlyElements ==
  ASSUME NEW T, NEW s \in Seq(T), NEW K
  PROVE  /\ \A i \in 1..Len(Only(s, K)) : Only(s, K)[i] \in K /\
                 \E j \in 1..Len(s) : s[j] = Only(s, K)[i]
         /\ \A j \in 1..Len(s) : s[j] \in K => \E i \in 1..Len(Only(s, K)) : Only(s, K)[i] = s[j]
         /\ (\A i, j \in 1..Len(s) : s[i] = s[j] => i = j) =>
              \A i, j \in 1..Len(Only(s, K)) : Only(s, K)[i] = Only(s, K)[j] => i = j
<1> DEFINE n == Len(s)
           F == Filtering(s, K)
           Has(k) == /\ \A i \in 1..Len(F[k]) : F[k][i] \in K /\ \E j \in 1..k : s[j] = F[k][i]
                     /\ \A j \in 1..k : s[j] \in K => \E i \in 1..Len(F[k]) : F[k][i] = s[j]
                     /\ (\A i, j \in 1..n : s[i] = s[j] => i = j) =>
                          \A i, j \in 1..Len(F[k]) : F[k][i] = F[k][j] => i = j
           S == {k \in Nat : k \in 0..n => Has(k)}
<1>1. /\ n \in Nat /\ F \in [0..n -> Seq(T)] /\ F[0] = << >> /\ \A k \in 1..n : s[k] \in T
      /\ \A k \in 1..n : F[k] = IF s[k] \in K THEN Append(F[k - 1], s[k]) ELSE F[k - 1]
  BY FilteringDef
<1> HIDE DEF n, F
<1>2. 0 \in S
  <2>1. Len(F[0]) = 0 /\ 1..0 = {}
    BY <1>1
  <2>2. Has(0)
    <3>1. 1..Len(F[0]) = {}
      BY <2>1
    <3> QED BY <2>1, <3>1
  <2> QED BY <2>2
<1>3. \A k \in Nat : k \in S => k + 1 \in S
  <2> HIDE DEF Has
  <2> SUFFICES ASSUME NEW k \in Nat, k \in S, k + 1 \in 0..n
               PROVE  Has(k + 1)
    OBVIOUS
  <2>0. Has(k) /\ k + 1 \in 1..n /\ (k + 1) - 1 = k /\ k \in 0..n
    BY <1>1
  <2>1. CASE s[k + 1] \in K
    <3> DEFINE f == F[k]
               g == Append(f, s[k + 1])
               m == Len(f)
    <3>0. F[k + 1] = g
      BY <2>0, <2>1, <1>1
    <3>1. /\ m \in Nat /\ Len(g) = m + 1 /\ g[m + 1] = s[k + 1]
          /\ \A i \in 1..m : g[i] = f[i]
      <4>1. f \in Seq(T) /\ s[k + 1] \in T
        BY <2>0, <1>1
      <4> HIDE DEF f
      <4> QED BY <4>1, AppendProperties
    <3>2. /\ \A i \in 1..m : f[i] \in K /\ \E j \in 1..k : s[j] = f[i]
          /\ \A j \in 1..k : s[j] \in K => \E i \in 1..m : f[i] = s[j]
          /\ (\A i, j \in 1..n : s[i] = s[j] => i = j) =>
               \A i, j \in 1..m : f[i] = f[j] => i = j
      BY <2>0 DEF Has
    <3> HIDE DEF f, g, m
    <3>3. /\ \A i \in 1..(m + 1) : i \in 1..m \/ i = m + 1
          /\ \A i \in 1..m : i \in 1..(m + 1)
          /\ m + 1 \in 1..(m + 1)
          /\ \A j \in 1..(k + 1) : j \in 1..k \/ j = k + 1
          /\ \A j \in 1..k : j \in 1..(k + 1) /\ j \in 1..n /\ j # k + 1
          /\ k + 1 \in 1..(k + 1)
      <4>1. m \in Nat /\ k \in Nat /\ n \in Nat /\ k + 1 <= n
        BY <3>1, <2>0, <1>1
      <4> QED BY <4>1
    <3>4. \A i \in 1..(m + 1) : g[i] \in K /\ \E j \in 1..(k + 1) : s[j] = g[i]
      <4>1. \A i \in 1..m : g[i] \in K
        BY <3>1, <3>2
      <4>2. \A i \in 1..m : \E j \in 1..(k + 1) : s[j] = g[i]
        <5> TAKE i \in 1..m
        <5>1. PICK j \in 1..k : s[j] = f[i]
          BY <3>2
        <5> QED BY <5>1, <3>1, <3>3
      <4>3. g[m + 1] \in K /\ \E j \in 1..(k + 1) : s[j] = g[m + 1]
        BY <3>1, <3>3, <2>1
      <4> QED BY <4>1, <4>2, <4>3, <3>3
    <3>5. \A j \in 1..(k + 1) : s[j] \in K => \E i \in 1..(m + 1) : g[i] = s[j]
      BY <3>1, <3>2, <3>3, <2>1
    <3>6. ASSUME \A i, j \in 1..n : s[i] = s[j] => i = j
          PROVE  \A i, j \in 1..(m + 1) : g[i] = g[j] => i = j
      <4>1. \A i \in 1..m : g[i] # s[k + 1]
        BY <3>6, <3>1, <3>2, <3>3, <2>0
      <4> QED BY <4>1, <3>6, <3>1, <3>2, <3>3
    <3> QED BY <3>0, <3>1, <3>4, <3>5, <3>6 DEF Has
  <2>2. CASE s[k + 1] \notin K
    <3>1. F[k + 1] = F[k]
      BY <2>0, <2>2, <1>1
    <3>2. /\ \A j \in 1..(k + 1) : j \in 1..k \/ j = k + 1
          /\ \A j \in 1..k : j \in 1..(k + 1)
      BY <2>0
    <3> QED BY <3>1, <3>2, <2>0, <2>2 DEF Has
  <2> QED BY <2>1, <2>2
<1> HIDE DEF S
<1>4. n \in S
  BY <1>1, <1>2, <1>3, SetInduction
<1>5. Has(n)
  BY <1>1, <1>4 DEF S
<1> QED BY <1>5 DEF Only, F, n

(***************************************************************************)
(* A sum of naturals is at least each of them.                             *)
(***************************************************************************)
LEMMA TotalElement ==
  ASSUME NEW s \in Seq(Nat), NEW k \in 1..Len(s)
  PROVE  s[k] <= Total(s)
<1> DEFINE before == SubSeq(s, 1, k - 1)
           upto == SubSeq(s, 1, k)
           after == SubSeq(s, k + 1, Len(s))
<1>1. /\ Len(s) \in Nat /\ s \in Seq(Int) /\ k \in 0..Len(s) /\ s[k] \in Nat
      /\ before \in Seq(Nat) /\ before \in Seq(Int) /\ after \in Seq(Nat)
      /\ \A i \in 1..Len(s) : s[i] \in Nat
  OBVIOUS
<1>2. upto = Append(before, s[k])
  <2>1. /\ upto \in Seq(Nat) /\ Len(upto) = k /\ \A i \in 1..k : upto[i] = s[i]
        /\ Len(before) = k - 1 /\ \A i \in 1..(k - 1) : before[i] = s[i]
    BY <1>1
  <2>2. /\ Append(before, s[k]) \in Seq(Nat) /\ Len(Append(before, s[k])) = k
        /\ \A i \in 1..(k - 1) : Append(before, s[k])[i] = s[i]
        /\ Append(before, s[k])[k] = s[k]
    <3> HIDE DEF before
    <3> QED BY <1>1, <2>1, AppendProperties
  <2>3. \A i \in 1..k : i \in 1..(k - 1) \/ i = k
    BY <1>1
  <2> HIDE DEF upto, before
  <2>4. \A i \in 1..k : upto[i] = Append(before, s[k])[i]
    BY <2>1, <2>2, <2>3
  <2> QED BY <2>1, <2>2, <2>4, SeqEqual
<1> HIDE DEF before, after
<1>3. Total(upto) = Total(before) + s[k]
  <2> HIDE DEF upto
  <2> QED BY <1>1, <1>2, TotalAppend
<1>4. Total(s) = Total(upto) + Total(after)
  BY <1>1, TotalSplit DEF after
<1>5. Total(before) \in Nat /\ Total(after) \in Nat
  BY <1>1, TotalNat
<1> HIDE DEF upto
<1> QED BY <1>1, <1>3, <1>4, <1>5

(***************************************************************************)
(* The sequence of a finite set has every element once.                    *)
(***************************************************************************)
LEMMA SetToSeqIs ==
  ASSUME NEW S, IsFiniteSet(S)
  PROVE  /\ SetToSeq(S) \in [1..Cardinality(S) -> S]
         /\ SetToSeq(S) \in Seq(S)
         /\ Cardinality(S) \in Nat /\ Len(SetToSeq(S)) = Cardinality(S)
         /\ \A i, j \in 1..Cardinality(S) : SetToSeq(S)[i] = SetToSeq(S)[j] => i = j
         /\ \A x \in S : \E i \in 1..Cardinality(S) : SetToSeq(S)[i] = x
<1> DEFINE n == Cardinality(S)
           f == SetToSeq(S)
<1>1. n \in Nat /\ ExistsBijection(1..n, S)
  BY FS_CardinalityType
<1>2. \E g \in [1..n -> S] : IsInjective(g)
  BY <1>1 DEF ExistsBijection, Bijection, Injection
<1>3. f \in [1..n -> S] /\ IsInjective(f)
  BY <1>2 DEF SetToSeq
<1> HIDE DEF f
<1>4. f \in Injection(1..n, S)
  BY <1>3 DEF Injection
<1>5. f \in Surjection(1..n, S)
  <2>1. Cardinality(1..n) = n
    BY <1>1, FS_Interval
  <2> QED BY <1>4, <2>1, FS_Injection
<1>6. f \in Seq(S) /\ Len(f) = n
  BY <1>1, <1>3
<1>7. \A i, j \in 1..n : f[i] = f[j] => i = j
  BY <1>3 DEF IsInjective
<1>8. \A x \in S : \E i \in 1..n : f[i] = x
  BY <1>5 DEF Surjection
<1> QED BY <1>1, <1>3, <1>6, <1>7, <1>8 DEF f

(***************************************************************************)
(* Sequences are flattened one at a time.                                  *)
(***************************************************************************)
LEMMA FlattenDef ==
  ASSUME NEW T, NEW s \in Seq(Seq(T))
  PROVE  \E G \in [0..Len(s) -> Seq(T)] :
           /\ G[0] = << >>
           /\ \A k \in 1..Len(s) : G[k] = G[k - 1] \o s[k]
           /\ FlattenSeq(s) = G[Len(s)]
<1> DEFINE N == Len(s)
           V == Seq(T)
<1>0. /\ N \in Nat /\ \A k \in 1..N : s[k] \in V
      /\ \A u, v \in V : u \o v \in V
  OBVIOUS
<1>1. CASE N = 0
  <2>1. FlattenSeq(s) = s
    BY <1>1 DEF FlattenSeq
  <2>2. s = << >> /\ << >> \in V
    BY <1>1
  <2> DEFINE G == [k \in 0..N |-> << >>]
  <2> HIDE DEF N, V
  <2>3. G \in [0..N -> V] /\ G[0] = << >> /\ G[N] = << >> /\ 1..N = {}
    BY <1>0, <1>1, <2>2
  <2> HIDE DEF G
  <2> QED BY <2>1, <2>2, <2>3 DEF N, V
<1>2. CASE N # 0
  <2> HIDE DEF N, V
  <2> DEFINE Join(P, i) == IF i = 1 THEN s[i] ELSE P[i - 1] \o s[i]
             Good(n, P) == P = [i \in 1..n |-> Join(P, i)]
             S == {n \in Nat : n \in 0..N => \E P \in [1..n -> V] : Good(n, P)}
  <2>1. 0 \in S
    <3>1. 1..0 = {}
      OBVIOUS
    <3> DEFINE Z == [i \in 1..0 |-> s]
    <3>2. Z \in [1..0 -> V] /\ Good(0, Z)
      BY <3>1
    <3> HIDE DEF Z, Good
    <3> QED BY <3>2
  <2>2. \A n \in Nat : n \in S => n + 1 \in S
    <3> HIDE DEF Good
    <3> SUFFICES ASSUME NEW n \in Nat, n \in S, n + 1 \in 0..N
                 PROVE  \E P \in [1..(n + 1) -> V] : Good(n + 1, P)
      OBVIOUS
    <3>0. n \in 0..N /\ n + 1 \in 1..N
      BY <1>0
    <3>1. PICK P \in [1..n -> V] : Good(n, P)
      BY <3>0
    <3>2. \A i \in 1..n : P[i] = Join(P, i)
      BY <3>1 DEF Good
    <3> DEFINE last == IF n = 0 THEN s[n + 1] ELSE P[n] \o s[n + 1]
               Q == [i \in 1..(n + 1) |-> IF i = n + 1 THEN last ELSE P[i]]
    <3>3. last \in V
      <4>1. n # 0 => P[n] \in V
        OBVIOUS
      <4> QED BY <1>0, <3>0, <4>1
    <3> HIDE DEF last
    <3>4. Q \in [1..(n + 1) -> V]
      BY <3>3
    <3>5. \A i \in 1..(n + 1) : Q[i] = Join(Q, i)
      <4> TAKE i \in 1..(n + 1)
      <4>1. CASE i = n + 1
        <5>1. Q[i] = last
          BY <4>1
        <5>2. n # 0 => Q[n] = P[n]
          OBVIOUS
        <5> HIDE DEF Q
        <5> QED BY <4>1, <5>1, <5>2 DEF last
      <4>2. CASE i # n + 1
        <5>1. i \in 1..n /\ Q[i] = P[i] /\ (i # 1 => Q[i - 1] = P[i - 1])
          BY <4>2
        <5> HIDE DEF Q
        <5> QED BY <5>1, <3>2
      <4> QED BY <4>1, <4>2
    <3>6. Good(n + 1, Q)
      <4> HIDE DEF Q
      <4>1. Q = [i \in 1..(n + 1) |-> Q[i]]
        BY <3>4
      <4> HIDE DEF Join
      <4> QED BY <4>1, <3>5 DEF Good
    <3> QED BY <3>4, <3>6
  <2>3. \E P : Good(N, P)
    <3> HIDE DEF S, Good
    <3>1. N \in S
      BY <1>0, <2>1, <2>2, SetInduction
    <3> QED BY <1>0, <3>1 DEF S
  <2> DEFINE F == CHOOSE P : Good(N, P)
  <2>4. Good(N, F)
    <3> HIDE DEF Good
    <3> QED BY <2>3
  <2>5. FlattenSeq(s) = F[N]
    BY <1>2 DEF FlattenSeq, N
  <2>6. \A i \in 1..N : F[i] = Join(F, i)
    <3> HIDE DEF F
    <3> QED BY <2>4
  <2>7. \A n \in Nat : n \in {m \in Nat : m + 1 \in 1..N => F[m + 1] \in V}
    <3> DEFINE U == {m \in Nat : m + 1 \in 1..N => F[m + 1] \in V}
    <3> HIDE DEF F
    <3>1. 0 \in U
      BY <1>0, <2>6
    <3>2. \A n \in Nat : n \in U => n + 1 \in U
      <4> SUFFICES ASSUME NEW n \in Nat, n \in U, n + 1 + 1 \in 1..N
                   PROVE  F[n + 1 + 1] \in V
        OBVIOUS
      <4>1. n + 1 \in 1..N /\ F[n + 1] \in V
        BY <1>0
      <4>2. F[n + 1 + 1] = F[n + 1] \o s[n + 1 + 1]
        <5>1. \A i, j \in 1..N : i = j + 1 => F[i] = F[j] \o s[i]
          <6> SUFFICES ASSUME NEW i \in 1..N, NEW j \in 1..N, i = j + 1
                       PROVE  F[i] = F[j] \o s[i]
            OBVIOUS
          <6>1. i # 1 /\ i - 1 = j
            BY <1>0
          <6>2. F[i] = IF i = 1 THEN s[i] ELSE F[i - 1] \o s[i]
            BY <2>6
          <6> QED BY <6>1, <6>2
        <5> QED BY <4>1, <5>1
      <4> QED BY <1>0, <4>1, <4>2
    <3> HIDE DEF U
    <3>3. \A n \in Nat : n \in U
      BY <3>1, <3>2, SetInduction
    <3> QED BY <3>3 DEF U
  <2>8. \A k \in 1..N : F[k] \in V
    <3> HIDE DEF F
    <3> TAKE k \in 1..N
    <3>1. k - 1 \in Nat /\ k - 1 + 1 = k
      BY <1>0
    <3> QED BY <2>7, <3>1
  <2> DEFINE G == [k \in 0..N |-> IF k = 0 THEN << >> ELSE F[k]]
  <2> HIDE DEF F
  <2>9. << >> \in V /\ \A v \in V : << >> \o v = v
    BY ConcatEmptySeq DEF V
  <2>10. /\ G \in [0..N -> V] /\ G[0] = << >>
         /\ \A k \in 1..N : G[k] = F[k]
    <3>1. \A k \in 0..N : k = 0 \/ k \in 1..N
      BY <1>0
    <3>2. \A k \in 1..N : k \in 0..N /\ k # 0
      BY <1>0
    <3> QED BY <1>0, <2>8, <2>9, <3>1, <3>2
  <2> HIDE DEF G
  <2>11. \A k \in 1..N : G[k] = G[k - 1] \o s[k]
    <3> TAKE k \in 1..N
    <3>1. CASE k = 1
      <4>1. F[k] = s[k] /\ s[k] \in V
        BY <1>0, <2>6, <3>1
      <4>2. G[k] = s[k]
        BY <2>10, <4>1
      <4>3. G[k - 1] = << >>
        <5>1. k - 1 = 0
          BY <3>1
        <5> QED BY <2>10, <5>1
      <4>4. << >> \o s[k] = s[k]
        BY <2>9, <4>1
      <4> QED BY <4>2, <4>3, <4>4
    <3>2. CASE k # 1
      <4>1. k - 1 \in 1..N
        BY <1>0, <3>2
      <4>2. F[k] = F[k - 1] \o s[k]
        BY <2>6, <3>2
      <4> QED BY <2>10, <4>1, <4>2
    <3> QED BY <3>1, <3>2
  <2>12. FlattenSeq(s) = G[N]
    <3>1. N \in 1..N
      BY <1>0, <1>2
    <3> QED BY <2>5, <2>10, <3>1
  <2> QED BY <2>10, <2>11, <2>12 DEF N, V
<1> QED BY <1>1, <1>2

(***************************************************************************)
(* Sequences over T flatten to a sequence over T.                          *)
(***************************************************************************)
LEMMA FlattenType ==
  ASSUME NEW T, NEW s \in Seq(Seq(T))
  PROVE  FlattenSeq(s) \in Seq(T)
<1>1. PICK G \in [0..Len(s) -> Seq(T)] : FlattenSeq(s) = G[Len(s)]
  BY FlattenDef
<1>2. Len(s) \in 0..Len(s)
  OBVIOUS
<1> QED BY <1>1, <1>2

-----------------------------------------------------------------------------
(* The weights of a sequence's elements.                                   *)

Weighed(w, s) == [i \in DOMAIN s |-> w[s[i]]]

(***************************************************************************)
(* Adding term by term adds the totals.                                    *)
(***************************************************************************)
LEMMA TotalAdds ==
  ASSUME NEW a \in Seq(Int), NEW b \in Seq(Int), NEW c \in Seq(Int),
         Len(a) = Len(c), Len(b) = Len(c),
         \A i \in 1..Len(c) : c[i] = a[i] + b[i]
  PROVE  Total(c) = Total(a) + Total(b)
<1> DEFINE n == Len(c)
           A == PrefixSums(a)
           B == PrefixSums(b)
           C == PrefixSums(c)
           N == {k \in Nat : k \in 0..n => C[k] = A[k] + B[k]}
<1>1. /\ n \in Nat
      /\ \A k \in 0..n : A[k] \in Int /\ B[k] \in Int /\ C[k] \in Int
      /\ A[0] = 0 /\ B[0] = 0 /\ C[0] = 0
  <2>1. A \in [0..n -> Int] /\ B \in [0..n -> Int] /\ C \in [0..n -> Int]
        /\ A[0] = 0 /\ B[0] = 0 /\ C[0] = 0
    BY PrefixSumsDef
  <2> HIDE DEF A, B, C
  <2>2. \A k \in 0..n : A[k] \in Int
    BY <2>1
  <2>3. \A k \in 0..n : B[k] \in Int
    BY <2>1
  <2>4. \A k \in 0..n : C[k] \in Int
    BY <2>1
  <2> QED BY <2>1, <2>2, <2>3, <2>4
<1>2. \A k \in 1..n : A[k] = A[k - 1] + a[k] /\ B[k] = B[k - 1] + b[k] /\ C[k] = C[k - 1] + c[k]
  BY PrefixSumsDef
<1>3. \A k \in 1..n : a[k] \in Int /\ b[k] \in Int /\ c[k] \in Int /\ c[k] = a[k] + b[k]
  OBVIOUS
<1> HIDE DEF n, A, B, C
<1>4. 0 \in N
  BY <1>1
<1>5. \A k \in Nat : k \in N => k + 1 \in N
  <2> SUFFICES ASSUME NEW k \in Nat, k \in N, k + 1 \in 0..n
               PROVE  C[k + 1] = A[k + 1] + B[k + 1]
    OBVIOUS
  <2>1. k \in 0..n /\ k + 1 \in 1..n /\ C[k] = A[k] + B[k] /\ k + 1 - 1 = k
    BY <1>1
  <2>2. /\ A[k + 1] = A[k] + a[k + 1]
        /\ B[k + 1] = B[k] + b[k + 1]
        /\ C[k + 1] = C[k] + c[k + 1]
    BY <1>2, <2>1
  <2>3. /\ A[k] \in Int /\ B[k] \in Int /\ a[k + 1] \in Int /\ b[k + 1] \in Int
        /\ c[k + 1] = a[k + 1] + b[k + 1]
    BY <1>1, <1>3, <2>1
  <2> DEFINE A0 == A[k]
             B0 == B[k]
             a1 == a[k + 1]
             b1 == b[k + 1]
  <2>4. /\ A0 \in Int /\ B0 \in Int /\ a1 \in Int /\ b1 \in Int
        /\ C[k + 1] = (A0 + B0) + (a1 + b1)
        /\ A[k + 1] = A0 + a1 /\ B[k + 1] = B0 + b1
    BY <2>1, <2>2, <2>3, Zenon
  <2> HIDE DEF A0, B0, a1, b1
  <2>5. (A0 + B0) + (a1 + b1) = (A0 + a1) + (B0 + b1)
    BY <2>4
  <2> QED BY <2>4, <2>5, Zenon
<1> HIDE DEF N
<1>6. n \in N
  BY <1>1, <1>4, <1>5, SetInduction
<1>7. C[n] = A[n] + B[n]
  BY <1>1, <1>6 DEF N
<1> QED BY <1>7 DEF Total, A, B, C, n

(***************************************************************************)
(* The weights of one more element.                                        *)
(***************************************************************************)
LEMMA WeighedAppend ==
  ASSUME NEW T, NEW w \in [T -> Int], NEW u \in Seq(T), NEW e \in T
  PROVE  /\ Weighed(w, u) \in Seq(Int) /\ Len(Weighed(w, u)) = Len(u)
         /\ Weighed(w, Append(u, e)) = Append(Weighed(w, u), w[e])
<1> DEFINE n == Len(u)
           v == Append(u, e)
           x == Weighed(w, u)
           y == Weighed(w, v)
           z == Append(x, w[e])
<1>1. /\ n \in Nat /\ DOMAIN u = 1..n /\ \A i \in 1..n : u[i] \in T
      /\ v \in Seq(T) /\ Len(v) = n + 1 /\ DOMAIN v = 1..(n + 1) /\ v[n + 1] = e
      /\ \A i \in 1..n : v[i] = u[i]
  BY AppendProperties
<1>2. w[e] \in Int /\ \A t \in T : w[t] \in Int
  OBVIOUS
<1> HIDE DEF n, v
<1>3. x \in Seq(Int) /\ Len(x) = n /\ \A i \in 1..n : x[i] = w[u[i]]
  <2>1. x = [i \in 1..n |-> w[u[i]]]
    BY <1>1 DEF Weighed
  <2>2. \A i \in 1..n : w[u[i]] \in Int
    BY <1>1, <1>2
  <2> QED BY <1>1, <2>1, <2>2
<1>4. y \in Seq(Int) /\ Len(y) = n + 1 /\ \A i \in 1..(n + 1) : y[i] = w[v[i]]
  <2>1. y = [i \in 1..(n + 1) |-> w[v[i]]]
    BY <1>1 DEF Weighed
  <2>2. \A i \in 1..(n + 1) : v[i] \in T
    BY <1>1
  <2>3. \A i \in 1..(n + 1) : w[v[i]] \in Int
    BY <1>2, <2>2
  <2> QED BY <1>1, <2>1, <2>3
<1> HIDE DEF x
<1>5. /\ z \in Seq(Int) /\ Len(z) = n + 1 /\ z[n + 1] = w[e]
      /\ \A i \in 1..n : z[i] = x[i]
  BY <1>2, <1>3, AppendProperties
<1> HIDE DEF y, z
<1>6. \A i \in 1..(n + 1) : y[i] = z[i]
  <2> TAKE i \in 1..(n + 1)
  <2>1. CASE i = n + 1
    BY <2>1, <1>1, <1>4, <1>5
  <2>2. CASE i \in 1..n
    BY <2>2, <1>1, <1>3, <1>4, <1>5
  <2> QED BY <2>1, <2>2, <1>1
<1>7. y = z
  BY <1>4, <1>5, <1>6, SeqEqual
<1> QED BY <1>3, <1>7 DEF n, v, x, y, z

\* The weights of the elements of K, and nothing for the others.
WeighedIn(w, s, K) == [i \in DOMAIN s |-> IF s[i] \in K THEN w[s[i]] ELSE 0]

(***************************************************************************)
(* The total of a part of a sequence is the total with the rest counted as *)
(* nothing.                                                                *)
(***************************************************************************)
LEMMA OnlyTotal ==
  ASSUME NEW T, NEW w \in [T -> Int], NEW s \in Seq(T), NEW K
  PROVE  /\ WeighedIn(w, s, K) \in Seq(Int)
         /\ Len(WeighedIn(w, s, K)) = Len(s)
         /\ Total(Weighed(w, Only(s, K))) = Total(WeighedIn(w, s, K))
<1> DEFINE n == Len(s)
           f == WeighedIn(w, s, K)
           P == PrefixSums(f)
           F == Filtering(s, K)
           N == {k \in Nat : k \in 0..n => Total(Weighed(w, F[k])) = P[k]}
<1>1. n \in Nat /\ DOMAIN s = 1..n /\ \A i \in 1..n : s[i] \in T /\ w[s[i]] \in Int
  OBVIOUS
<1> HIDE DEF n
<1>2. /\ f \in Seq(Int) /\ Len(f) = n
      /\ \A i \in 1..n : f[i] = IF s[i] \in K THEN w[s[i]] ELSE 0
  <2>1. f = [i \in 1..n |-> IF s[i] \in K THEN w[s[i]] ELSE 0]
    BY <1>1 DEF WeighedIn
  <2>2. \A i \in 1..n : (IF s[i] \in K THEN w[s[i]] ELSE 0) \in Int
    BY <1>1
  <2> QED BY <1>1, <2>1, <2>2
<1> HIDE DEF f
<1>3. P[0] = 0 /\ \A k \in 1..n : P[k] = P[k - 1] + f[k]
  BY <1>2, PrefixSumsDef
<1>4. \A k \in 0..n : P[k] \in Int
  <2>1. P \in [0..n -> Int]
    BY <1>2, PrefixSumsDef
  <2> HIDE DEF P
  <2> QED BY <2>1
<1>5. /\ F[0] = << >>
      /\ \A k \in 1..n : F[k] = IF s[k] \in K THEN Append(F[k - 1], s[k]) ELSE F[k - 1]
  BY FilteringDef DEF n
<1>6. \A k \in 0..n : F[k] \in Seq(T)
  <2>1. F \in [0..n -> Seq(T)]
    BY FilteringDef DEF n
  <2> HIDE DEF F
  <2> QED BY <2>1
<1> HIDE DEF P, F
<1>7. 0 \in N
  <2>1. Weighed(w, << >>) = << >>
    BY DEF Weighed
  <2> QED BY <1>3, <1>5, <2>1, TotalEmpty
<1>8. \A k \in Nat : k \in N => k + 1 \in N
  <2> SUFFICES ASSUME NEW k \in Nat, k \in N, k + 1 \in 0..n
               PROVE  Total(Weighed(w, F[k + 1])) = P[k + 1]
    OBVIOUS
  <2> DEFINE e == s[k + 1]
             u == F[k]
  <2>1. k \in 0..n /\ k + 1 \in 1..n /\ k + 1 - 1 = k
    BY <1>1
  <2>2. Total(Weighed(w, u)) = P[k] /\ u \in Seq(T) /\ P[k] \in Int /\ e \in T /\ w[e] \in Int
    BY <1>1, <1>4, <1>6, <2>1
  <2>3. F[k + 1] = IF e \in K THEN Append(u, e) ELSE u
    BY <1>5, <2>1
  <2>4. P[k + 1] = P[k] + (IF e \in K THEN w[e] ELSE 0)
    BY <1>2, <1>3, <2>1
  <2> HIDE DEF e, u
  <2>5. CASE e \in K
    <3>1. Weighed(w, F[k + 1]) = Append(Weighed(w, u), w[e]) /\ Weighed(w, u) \in Seq(Int)
      BY <2>2, <2>3, <2>5, WeighedAppend
    <3>2. Total(Append(Weighed(w, u), w[e])) = Total(Weighed(w, u)) + w[e]
      BY <2>2, <3>1, TotalAppend
    <3> QED BY <2>2, <2>4, <2>5, <3>1, <3>2
  <2>6. CASE e \notin K
    BY <2>2, <2>3, <2>4, <2>6
  <2> QED BY <2>5, <2>6
<1> HIDE DEF N
<1>9. n \in N
  BY <1>1, <1>7, <1>8, SetInduction
<1>10. Total(Weighed(w, F[n])) = P[n]
  BY <1>1, <1>9 DEF N
<1>11. Total(Weighed(w, Only(s, K))) = Total(f)
  BY <1>2, <1>10 DEF Only, Total, F, P, n
<1> QED BY <1>2, <1>11 DEF f, n

(***************************************************************************)
(* What is kept and what is dropped make up the whole.                     *)
(***************************************************************************)
LEMMA OnlySplits ==
  ASSUME NEW T, NEW w \in [T -> Int], NEW s \in Seq(T), NEW K, NEW L,
         \A x \in T : x \in L <=> x \notin K
  PROVE  Total(Weighed(w, s)) = Total(Weighed(w, Only(s, L))) + Total(WeighedIn(w, s, K))
<1> DEFINE n == Len(s)
           a == WeighedIn(w, s, L)
           b == WeighedIn(w, s, K)
           c == Weighed(w, s)
<1>1. /\ a \in Seq(Int) /\ Len(a) = n /\ b \in Seq(Int) /\ Len(b) = n
      /\ Total(Weighed(w, Only(s, L))) = Total(a)
  <2>1. /\ a \in Seq(Int) /\ Len(a) = n
        /\ Total(Weighed(w, Only(s, L))) = Total(a)
    BY OnlyTotal
  <2>2. b \in Seq(Int) /\ Len(b) = n
    BY OnlyTotal
  <2> QED BY <2>1, <2>2
<1>2. n \in Nat /\ DOMAIN s = 1..n /\ \A i \in 1..n : s[i] \in T /\ w[s[i]] \in Int
  OBVIOUS
<1>3. /\ \A i \in 1..n : a[i] = IF s[i] \in L THEN w[s[i]] ELSE 0
      /\ \A i \in 1..n : b[i] = IF s[i] \in K THEN w[s[i]] ELSE 0
  BY <1>2 DEF WeighedIn
<1>4. c \in Seq(Int) /\ Len(c) = n /\ \A i \in 1..n : c[i] = w[s[i]]
  <2>1. c = [i \in 1..n |-> w[s[i]]]
    BY <1>2 DEF Weighed
  <2> HIDE DEF n
  <2> QED BY <1>2, <2>1
<1> HIDE DEF a, b, c, n
<1>5. \A i \in 1..n : c[i] = a[i] + b[i]
  BY <1>2, <1>3, <1>4
<1>6. Total(c) = Total(a) + Total(b)
  <2>1. Len(a) = Len(c) /\ Len(b) = Len(c) /\ \A i \in 1..Len(c) : c[i] = a[i] + b[i]
    BY <1>1, <1>4, <1>5
  <2> QED BY <1>1, <1>4, <2>1, TotalAdds
<1> QED BY <1>1, <1>6 DEF b, c

(***************************************************************************)
(* The community modules' fold of a finite function by addition is a sum.  *)
(***************************************************************************)
LEMMA FoldSum ==
  ASSUME NEW S, IsFiniteSet(S), NEW w \in [S -> Int]
  PROVE  \E F : SumsParts(F, w, S) /\ FoldFunction(+, 0, w) = F[S]
<1> DEFINE Body(F) == [s \in SUBSET S |->
                         IF s = {} THEN 0
                         ELSE LET x == CHOOSE x \in s : TRUE
                              IN  w[x] + F[s \ {x}]]
           iter == CHOOSE F : F = Body(F)
<1>1. \E F : F = Body(F)
  <2>1. PICK F \in [SUBSET S -> Int] : SumsParts(F, w, S)
    BY SumsExist
  <2>2. F = [s \in SUBSET S |-> IF s = {} THEN 0 ELSE w[Some(s)] + F[s \ {Some(s)}]]
    BY <2>1 DEF SumsParts
  <2>3. F = Body(F)
    BY <2>2 DEF Some
  <2> QED BY <2>3
<1>2. iter = Body(iter)
  <2> HIDE DEF Body
  <2> QED BY <1>1
<1>3. FoldFunction(+, 0, w) = iter[S]
  <2>1. DOMAIN w = S
    OBVIOUS
  <2> QED BY <2>1 DEF FoldFunction, FoldFunctionOnSet, MapThenFoldSet
<1> HIDE DEF iter
<1>4. SumsParts(iter, w, S)
  <2> SUFFICES ASSUME NEW s \in SUBSET S
               PROVE  iter[s] = IF s = {} THEN 0 ELSE w[Some(s)] + iter[s \ {Some(s)}]
    BY DEF SumsParts
  <2>1. iter[s] = Body(iter)[s]
    BY <1>2
  <2> QED BY <2>1 DEF Some
<1> QED BY <1>3, <1>4

(***************************************************************************)
(* That sum is the total along any list that names every element once.     *)
(***************************************************************************)
LEMMA FoldTotal ==
  ASSUME NEW S, NEW w \in [S -> Int], NEW s \in Seq(S),
         \A x \in S : \E i \in 1..Len(s) : s[i] = x,
         \A i, j \in 1..Len(s) : s[i] = s[j] => i = j
  PROVE  /\ IsFiniteSet(S) /\ Cardinality(S) = Len(s)
         /\ FoldFunction(+, 0, w) = Total(Weighed(w, s))
<1> DEFINE n == Len(s)
<1>1. n \in Nat /\ s \in [1..n -> S] /\ DOMAIN s = 1..n
  OBVIOUS
<1>2. IsFiniteSet(S) /\ Cardinality(S) = n
  <2>1. s \in Injection(1..n, S) /\ s \in Surjection(1..n, S)
    BY <1>1 DEF Injection, Surjection, IsInjective
  <2>2. IsFiniteSet(1..n) /\ Cardinality(1..n) = n
    <3> HIDE DEF n
    <3> QED BY <1>1, FS_Interval
  <2>3. IsFiniteSet(S) /\ (Cardinality(S) = Cardinality(1..n) <=> s \in Injection(1..n, S))
    BY <2>1, <2>2, FS_Surjection
  <2> QED BY <2>1, <2>2, <2>3
<1>3. PICK F : SumsParts(F, w, S) /\ FoldFunction(+, 0, w) = F[S]
  BY <1>2, FoldSum
<1>4. F[Named(s, n)] = Total(WeightsOf(w, s, n))
  <2>1. \A i, j \in 1..n : s[i] = s[j] => i = j
    OBVIOUS
  <2>2. SumsParts(F, w, S)
    BY <1>3
  <2> HIDE DEF n
  <2> QED BY <1>1, <1>2, <2>1, <2>2, SumsTotal
<1>5. Named(s, n) = S
  BY <1>1 DEF Named
<1>6. WeightsOf(w, s, n) = Weighed(w, s)
  BY <1>1 DEF WeightsOf, Weighed
<1> QED BY <1>2, <1>3, <1>4, <1>5, <1>6

-----------------------------------------------------------------------------
(* Sequences that name each element once.                                  *)

(***************************************************************************)
(* A concatenation holds what its parts hold, once if they do and share    *)
(* nothing.                                                                *)
(***************************************************************************)
LEMMA ConcatHolds ==
  ASSUME NEW T, NEW a \in Seq(T), NEW b \in Seq(T)
  PROVE  /\ ToSet(a \o b) = ToSet(a) \cup ToSet(b)
         /\ IsInjective(a \o b) <=>
              IsInjective(a) /\ IsInjective(b) /\ ToSet(a) \cap ToSet(b) = {}
<1> DEFINE m == Len(a)
           n == Len(b)
           c == a \o b
<1>1. /\ m \in Nat /\ n \in Nat /\ DOMAIN a = 1..m /\ DOMAIN b = 1..n
      /\ DOMAIN c = 1..(m + n)
      /\ \A i \in 1..(m + n) : c[i] = IF i <= m THEN a[i] ELSE b[i - m]
  <2>1. /\ c \in Seq(T) /\ Len(c) = m + n
        /\ \A i \in 1..(m + n) : c[i] = IF i <= m THEN a[i] ELSE b[i - m]
    BY ConcatProperties
  <2> QED BY <2>1
<1> HIDE DEF m, n, c
<1>2. \A i \in 1..m : i \in 1..(m + n) /\ c[i] = a[i]
  BY <1>1
<1>3. \A i \in 1..n : m + i \in 1..(m + n) /\ c[m + i] = b[i]
  <2> TAKE i \in 1..n
  <2>1. m + i \in 1..(m + n) /\ ~(m + i <= m) /\ (m + i) - m = i
    BY <1>1
  <2> QED BY <1>1, <2>1
<1>4. \A i \in 1..(m + n) : i \in 1..m \/ \E j \in 1..n : i = m + j
  <2> TAKE i \in 1..(m + n)
  <2>1. CASE i > m
    <3>1. i - m \in 1..n /\ i = m + (i - m)
      BY <1>1, <2>1
    <3> QED BY <3>1
  <2>2. CASE i <= m
    BY <1>1, <2>2
  <2> QED BY <1>1, <2>1, <2>2
<1>5. /\ \A x : x \in ToSet(a) <=> \E i \in 1..m : a[i] = x
      /\ \A x : x \in ToSet(b) <=> \E i \in 1..n : b[i] = x
      /\ \A x : x \in ToSet(c) <=> \E i \in 1..(m + n) : c[i] = x
  BY <1>1 DEF ToSet
<1>6. ToSet(c) = ToSet(a) \cup ToSet(b)
  <2>1. \A x \in ToSet(c) : x \in ToSet(a) \cup ToSet(b)
    <3> SUFFICES ASSUME NEW i \in 1..(m + n) PROVE c[i] \in ToSet(a) \cup ToSet(b)
      BY <1>5
    <3> QED BY <1>2, <1>3, <1>4, <1>5
  <2>2. \A x \in ToSet(a) \cup ToSet(b) : x \in ToSet(c)
    BY <1>2, <1>3, <1>5
  <2> QED BY <2>1, <2>2
<1>7. ASSUME IsInjective(c)
      PROVE  IsInjective(a) /\ IsInjective(b) /\ ToSet(a) \cap ToSet(b) = {}
  <2>1. \A i, j \in 1..(m + n) : c[i] = c[j] => i = j
    BY <1>1, <1>7 DEF IsInjective
  <2>2. \A i, j \in 1..m : a[i] = a[j] => i = j
    BY <1>2, <2>1
  <2>3. \A i, j \in 1..n : b[i] = b[j] => i = j
    <3> TAKE i, j \in 1..n
    <3>1. b[i] = b[j] => m + i = m + j
      BY <1>3, <2>1
    <3> QED BY <1>1, <3>1
  <2>4. \A i \in 1..m, j \in 1..n : a[i] # b[j]
    <3> TAKE i \in 1..m, j \in 1..n
    <3>1. a[i] = b[j] => i = m + j
      BY <1>2, <1>3, <2>1
    <3> QED BY <1>1, <3>1
  <2> QED BY <1>1, <1>5, <2>2, <2>3, <2>4 DEF IsInjective
<1>8. ASSUME IsInjective(a), IsInjective(b), ToSet(a) \cap ToSet(b) = {}
      PROVE  IsInjective(c)
  <2>1. /\ \A i, j \in 1..m : a[i] = a[j] => i = j
        /\ \A i, j \in 1..n : b[i] = b[j] => i = j
        /\ \A i \in 1..m, j \in 1..n : a[i] # b[j]
    BY <1>1, <1>5, <1>8 DEF IsInjective
  <2> SUFFICES ASSUME NEW i \in 1..(m + n), NEW j \in 1..(m + n), c[i] = c[j]
               PROVE  i = j
    BY <1>1 DEF IsInjective
  <2>2. CASE i \in 1..m /\ j \in 1..m
    BY <1>2, <2>1, <2>2
  <2>3. CASE i \in 1..m /\ j \notin 1..m
    BY <1>2, <1>3, <1>4, <2>1, <2>3
  <2>4. CASE i \notin 1..m /\ j \in 1..m
    BY <1>2, <1>3, <1>4, <2>1, <2>4
  <2>5. CASE i \notin 1..m /\ j \notin 1..m
    <3>1. PICK k \in 1..n, l \in 1..n : i = m + k /\ j = m + l
      BY <1>4, <2>5
    <3> QED BY <1>3, <2>1, <3>1
  <2> QED BY <2>2, <2>3, <2>4, <2>5
<1> QED BY <1>6, <1>7, <1>8 DEF c

(***************************************************************************)
(* Removing a place of a sequence that names each element once removes     *)
(* that element.                                                           *)
(***************************************************************************)
LEMMA RemoveAtHolds ==
  ASSUME NEW T, NEW s \in Seq(T), NEW i \in 1..Len(s), IsInjective(s)
  PROVE  /\ RemoveAt(s, i) \in Seq(T)
         /\ IsInjective(RemoveAt(s, i))
         /\ ToSet(RemoveAt(s, i)) = ToSet(s) \ {s[i]}
<1> DEFINE n == Len(s)
           a == SubSeq(s, 1, i - 1)
           b == SubSeq(s, i + 1, n)
<1>1. n \in Nat /\ DOMAIN s = 1..n /\ \A j \in 1..n : s[j] \in T
  OBVIOUS
<1>2. \A j, k \in 1..n : s[j] = s[k] => j = k
  BY <1>1 DEF IsInjective
<1>3. a \in Seq(T) /\ Len(a) = i - 1 /\ \A j \in 1..(i - 1) : a[j] = s[j]
  <2>1. 1 \in Int /\ i - 1 \in Int /\ \A j \in 1..(i - 1) : s[j] \in T
    BY <1>1
  <2>2. /\ a \in Seq(T)
        /\ Len(a) = IF 1 <= i - 1 THEN (i - 1) - 1 + 1 ELSE 0
        /\ \A j \in 1..((i - 1) - 1 + 1) : a[j] = s[1 + j - 1]
    BY <2>1, SubSeqProperties
  <2> HIDE DEF a
  <2> QED BY <1>1, <2>2
<1>4. b \in Seq(T) /\ Len(b) = n - i /\ \A j \in 1..(n - i) : b[j] = s[i + j]
  <2>1. i + 1 \in Int /\ n \in Int /\ \A j \in (i + 1)..n : s[j] \in T
    BY <1>1
  <2>2. /\ b \in Seq(T)
        /\ Len(b) = IF i + 1 <= n THEN n - (i + 1) + 1 ELSE 0
        /\ \A j \in 1..(n - (i + 1) + 1) : b[j] = s[(i + 1) + j - 1]
    BY <2>1, SubSeqProperties
  <2>3. n - (i + 1) + 1 = n - i /\ \A j \in 1..(n - i) : (i + 1) + j - 1 = i + j
    BY <1>1
  <2>4. i \in 1..n
    OBVIOUS
  <2> HIDE DEF b, n
  <2>5. Len(b) = n - i
    BY <1>1, <2>2, <2>4
  <2> QED BY <2>2, <2>3, <2>5
<1>5. RemoveAt(s, i) = a \o b
  BY DEF RemoveAt
<1> HIDE DEF a, b, n
<1>6. /\ DOMAIN a = 1..(i - 1) /\ DOMAIN b = 1..(n - i)
      /\ \A x : x \in ToSet(a) <=> \E j \in 1..(i - 1) : s[j] = x
      /\ \A x : x \in ToSet(b) <=> \E j \in 1..(n - i) : s[i + j] = x
  <2>1. DOMAIN a = 1..(i - 1) /\ DOMAIN b = 1..(n - i)
    BY <1>3, <1>4
  <2>2. /\ \A x : x \in ToSet(a) <=> \E j \in 1..(i - 1) : a[j] = x
        /\ \A x : x \in ToSet(b) <=> \E j \in 1..(n - i) : b[j] = x
    BY <2>1 DEF ToSet
  <2>3. \A x : x \in ToSet(a) <=> \E j \in 1..(i - 1) : s[j] = x
    BY <1>3, <2>2
  <2>4. \A x : x \in ToSet(b) <=> \E j \in 1..(n - i) : s[i + j] = x
    BY <1>4, <2>2
  <2> QED BY <2>1, <2>3, <2>4
<1>7. \A j \in 1..(i - 1) : j \in 1..n /\ j # i
  BY <1>1 DEF n
<1>8. \A j \in 1..(n - i) : i + j \in 1..n /\ i + j # i
  BY <1>1 DEF n
<1>9. IsInjective(a) /\ IsInjective(b) /\ ToSet(a) \cap ToSet(b) = {}
  <2>1. \A j, k \in 1..(i - 1) : a[j] = a[k] => j = k
    BY <1>2, <1>3, <1>7
  <2>2. \A j, k \in 1..(n - i) : b[j] = b[k] => j = k
    <3> TAKE j, k \in 1..(n - i)
    <3>1. b[j] = b[k] => i + j = i + k
      BY <1>2, <1>4, <1>8
    <3> QED BY <3>1
  <2>3. \A j \in 1..(i - 1), k \in 1..(n - i) : s[j] # s[i + k]
    <3> TAKE j \in 1..(i - 1), k \in 1..(n - i)
    <3>1. s[j] = s[i + k] => j = i + k
      BY <1>2, <1>7, <1>8
    <3> QED BY <3>1
  <2>4. ToSet(a) \cap ToSet(b) = {}
    BY <1>6, <2>3
  <2> QED BY <1>6, <2>1, <2>2, <2>4 DEF IsInjective
<1>10. ToSet(a) \cup ToSet(b) = ToSet(s) \ {s[i]}
  <2>1. \A x : x \in ToSet(s) <=> \E j \in 1..n : s[j] = x
    BY <1>1 DEF ToSet
  <2>2. \A x \in ToSet(a) \cup ToSet(b) : x \in ToSet(s) \ {s[i]}
    BY <1>2, <1>6, <1>7, <1>8, <2>1, SMTT(30) DEF n
  <2>3. \A x \in ToSet(s) \ {s[i]} : x \in ToSet(a) \cup ToSet(b)
    <3> SUFFICES ASSUME NEW j \in 1..n, j # i PROVE s[j] \in ToSet(a) \cup ToSet(b)
      BY <2>1
    <3>1. CASE j < i
      <4>1. j \in 1..(i - 1)
        BY <3>1
      <4> QED BY <1>6, <4>1
    <3>2. CASE j > i
      <4>1. j - i \in 1..(n - i) /\ i + (j - i) = j
        BY <1>1, <3>2 DEF n
      <4> QED BY <1>6, <4>1
    <3> QED BY <3>1, <3>2
  <2> QED BY <2>2, <2>3
<1> QED BY <1>3, <1>4, <1>5, <1>9, <1>10, ConcatHolds

(***************************************************************************)
(* Among places with a key there is a first one of the least key.          *)
(***************************************************************************)
LEMMA FirstLeast ==
  ASSUME NEW K \in SUBSET Nat, K # {}, NEW key \in [K -> Nat]
  PROVE  \E i \in K : \A j \in K : key[i] < key[j] \/ (key[i] = key[j] /\ i <= j)
<1> DEFINE Keys == {key[i] : i \in K}
<1>1. PICK least \in Keys : \A x \in Keys : least <= x
  <2>1. Keys \in SUBSET Nat /\ Keys # {}
    OBVIOUS
  <2> QED BY <2>1, LeastElement
<1> DEFINE Places == {i \in K : key[i] = least}
<1>2. PICK i \in Places : \A j \in Places : i <= j
  <2>1. Places \in SUBSET Nat /\ Places # {}
    OBVIOUS
  <2> QED BY <2>1, LeastElement
<1>3. i \in K /\ key[i] = least
  OBVIOUS
<1>4. \A j \in K : least <= key[j] /\ key[j] \in Nat /\ least \in Nat
  BY <1>1
<1>5. \A j \in K : key[j] = least => i <= j
  BY <1>2
<1> QED BY <1>3, <1>4, <1>5

(***************************************************************************)
(* The quotient is the number of whole divisors, and it is monotone.       *)
(***************************************************************************)
LEMMA Quotient ==
  ASSUME NEW a \in Int, NEW d \in Nat \ {0}
  PROVE  /\ a \div d \in Int
         /\ (a \div d) * d <= a /\ a < (a \div d + 1) * d
         /\ a >= 0 => a \div d \in Nat
         /\ \A q \in Int : q * d <= a => q <= a \div d
         /\ \A q \in Int : a < q * d => a \div d < q
<1>1. PICK q \in Int, r \in 0..(d - 1) : a = q * d + r /\ q = a \div d
  OBVIOUS
<1> QED BY <1>1

\* A row of values is sorted by falling value, the smaller place first among equals.
Ahead(v, i, j) == v[i] > v[j] \/ (v[i] = v[j] /\ i < j)

\* How many places of the row come before place i when it is sorted.
Rank(v, i) == Cardinality({j \in DOMAIN v : Ahead(v, j, i)})

(***************************************************************************)
(* Ranks count the places ahead: no two places share one and none is left  *)
(* out.                                                                    *)
(***************************************************************************)
LEMMA Ranks ==
  ASSUME NEW n \in Nat, NEW v \in [1..n -> Int]
  PROVE  /\ \A i \in 1..n : Rank(v, i) \in 0..(n - 1)
         /\ \A i, j \in 1..n : Ahead(v, i, j) => Rank(v, i) < Rank(v, j)
         /\ \A i, j \in 1..n : Rank(v, i) = Rank(v, j) => i = j
         /\ \A r \in 1..n : \E i \in 1..n : Rank(v, i) = r - 1
<1> DEFINE Over(i) == {j \in 1..n : Ahead(v, j, i)}
<1>1. \A i \in 1..n : Rank(v, i) = Cardinality(Over(i))
  BY DEF Rank
<1>2. IsFiniteSet(1..n) /\ Cardinality(1..n) = n /\ IsFiniteSet(0..(n - 1)) /\ Cardinality(0..(n - 1)) = n
  BY FS_Interval
<1>3. \A i \in 1..n : v[i] \in Int
  OBVIOUS
<1>4. \A i \in 1..n : IsFiniteSet(Over(i)) /\ Rank(v, i) \in Nat
  <2> SUFFICES ASSUME NEW i \in 1..n PROVE IsFiniteSet(Over(i)) /\ Rank(v, i) \in Nat
    OBVIOUS
  <2>1. Over(i) \in SUBSET (1..n)
    OBVIOUS
  <2>2. IsFiniteSet(Over(i))
    BY <2>1, <1>2, FS_Subset
  <2> QED BY <2>2, <1>1, FS_CardinalityType
<1>5. ASSUME NEW i \in 1..n PROVE Rank(v, i) \in 0..(n - 1)
  <2>1. Over(i) \in SUBSET ((1..n) \ {i})
    BY <1>3 DEF Ahead
  <2>2. IsFiniteSet((1..n) \ {i}) /\ Cardinality((1..n) \ {i}) = n - 1
    BY <1>2, FS_RemoveElement
  <2>3. Cardinality(Over(i)) <= n - 1
    BY <2>1, <2>2, FS_Subset
  <2> QED BY <2>3, <1>1, <1>4
<1>6. ASSUME NEW i \in 1..n, NEW j \in 1..n, Ahead(v, i, j) PROVE Rank(v, i) < Rank(v, j)
  <2>1. Over(i) \cup {i} \in SUBSET Over(j)
    <3>1. v[i] \in Int /\ v[j] \in Int /\ i \in Over(j)
      BY <1>3, <1>6
    <3>2. ASSUME NEW x \in Over(i) PROVE x \in Over(j)
      <4>1. v[x] \in Int /\ x \in 1..n /\ Ahead(v, x, i)
        BY <1>3
      <4> QED BY <4>1, <3>1, <1>6 DEF Ahead
    <3> QED BY <3>1, <3>2
  <2>2. i \notin Over(i)
    BY <1>3 DEF Ahead
  <2>3. IsFiniteSet(Over(i) \cup {i}) /\ Cardinality(Over(i) \cup {i}) = Cardinality(Over(i)) + 1
    BY <1>4, <2>2, FS_AddElement
  <2>4. Cardinality(Over(i) \cup {i}) <= Cardinality(Over(j))
    <3> HIDE DEF Over
    <3> QED BY <2>1, <1>4, FS_Subset
  <2>5. /\ Rank(v, i) = Cardinality(Over(i)) /\ Rank(v, j) = Cardinality(Over(j))
        /\ Rank(v, i) \in Nat /\ Rank(v, j) \in Nat
    BY <1>1, <1>4
  <2> HIDE DEF Over
  <2> QED BY <2>3, <2>4, <2>5
<1>7. ASSUME NEW i \in 1..n, NEW j \in 1..n, Rank(v, i) = Rank(v, j) PROVE i = j
  <2>1. ~Ahead(v, i, j) /\ ~Ahead(v, j, i)
    <3> HIDE DEF Over
    <3>1. Rank(v, i) \in Nat /\ Rank(v, j) \in Nat
      BY <1>4
    <3>2. ~(Rank(v, i) < Rank(v, j)) /\ ~(Rank(v, j) < Rank(v, i))
      BY <3>1, <1>7
    <3> QED BY <3>2, <1>6
  <2> QED BY <2>1, <1>3 DEF Ahead
<1>8. \A r \in 1..n : \E i \in 1..n : Rank(v, i) = r - 1
  <2> DEFINE f == [i \in 1..n |-> Rank(v, i)]
  <2>1. f \in Injection(1..n, 0..(n - 1))
    BY <1>5, <1>7 DEF Injection, IsInjective
  <2>2. f \in Surjection(1..n, 0..(n - 1))
    <3> HIDE DEF f
    <3> QED BY <2>1, <1>2, FS_Injection
  <2>3. \A r \in 0..(n - 1) : \E i \in 1..n : f[i] = r
    <3> HIDE DEF f
    <3> QED BY <2>2 DEF Surjection
  <2> QED BY <2>3
<1> QED BY <1>5, <1>6, <1>7, <1>8

=============================================================================
