--------------------------- MODULE ResolverProofs ---------------------------
(***************************************************************************)
(* Proofs about Resolver, for any number of queries, servers, tries, ids   *)
(* and elements of the search list, whatever the servers answer: the       *)
(* active list stays sorted, the timer set, every verdict is earned, and   *)
(* the resolver implements ResolverService.                                *)
(*                                                                         *)
(* First the list, then what one query holds, then the steps.              *)
(***************************************************************************)
EXTENDS Resolver, SequenceTheorems, WellFoundedInduction, TLAPS

USE ResolverAssumption

-----------------------------------------------------------------------------
(* Numbers and lists                                                        *)

\* A set of numbers has a least member.
LEMMA MinExists ==
  ASSUME NEW T \in SUBSET Nat, T # {}
  PROVE  \E x \in T : \A y \in T : x <= y
<1> DEFINE R == OpToRel(<, Nat)
<1>1. IsWellFoundedOn(R, Nat)
  BY NatLessThanWellFounded
<1> HIDE DEF R
<1>2. PICK x \in T : \A y \in T : <<y, x>> \notin R
  BY <1>1, WFMin
<1>3. \A y \in T : ~(y < x)
  BY <1>2 DEF R, OpToRel
<1> QED
  BY <1>3

\* A bounded one has a greatest.
LEMMA MaxExists ==
  ASSUME NEW b \in Nat, NEW S \in SUBSET (0 .. b), S # {}
  PROVE  \E x \in S : \A y \in S : x >= y
<1> DEFINE T == {n \in Nat : b - n \in S}
<1>1. PICK x \in S : TRUE
  OBVIOUS
<1>2. b - x \in T
  <2>1. b - x \in Nat /\ b - (b - x) = x
    OBVIOUS
  <2> QED
    BY <2>1
<1>3. PICK m \in T : \A n \in T : m <= n
  BY <1>2, MinExists
<1>4. ASSUME NEW y \in S PROVE b - m >= y
  <2>1. b - y \in Nat /\ b - (b - y) = y
    OBVIOUS
  <2>2. b - y \in T
    BY <2>1
  <2>3. m \in Nat /\ m <= b - y /\ y \in 0 .. b
    BY <1>3, <2>2
  <2> QED
    BY <2>3
<1> QED
  BY <1>3, <1>4

\* The members of a list and the places they have.
LEMMA RangeOf ==
  ASSUME NEW qs \in Seq(Queries), NEW q
  PROVE  q \in Range(qs) <=> \E k \in 1 .. Len(qs) : qs[k] = q
BY DEF Range

\* qlist_remove() takes one element out and leaves the others as they are.
LEMMA UnlinkAt ==
  ASSUME NEW qs \in Seq(Queries), NEW q \in Range(qs)
  PROVE  \E k \in 1 .. Len(qs) :
           /\ qs[k] = q
           /\ Unlink(qs, q) \in Seq(Queries)
           /\ Len(Unlink(qs, q)) = Len(qs) - 1
           /\ \A j \in 1 .. Len(qs) - 1 :
                Unlink(qs, q)[j] = IF j < k THEN qs[j] ELSE qs[j + 1]
<1> DEFINE k == CHOOSE k \in DOMAIN qs : qs[k] = q
<1>1. k \in 1 .. Len(qs) /\ qs[k] = q
  BY RangeOf
<1> HIDE DEF k
<1> DEFINE front == SubSeq(qs, 1, k - 1)
           back == SubSeq(qs, k + 1, Len(qs))
<1>2. /\ front \in Seq(Queries) /\ Len(front) = k - 1
      /\ \A j \in 1 .. k - 1 : front[j] = qs[j]
  <2>1. \A i \in 1 .. k - 1 : qs[i] \in Queries
    BY <1>1
  <2> QED
    BY <1>1, <2>1, SubSeqProperties
<1>3. /\ back \in Seq(Queries) /\ Len(back) = Len(qs) - k
      /\ \A j \in 1 .. Len(qs) - k : back[j] = qs[k + j]
  <2>1. \A i \in k + 1 .. Len(qs) : qs[i] \in Queries
    BY <1>1
  <2> QED
    BY <1>1, <2>1, SubSeqProperties
<1>4. Unlink(qs, q) = front \o back
  BY DEF Unlink, RemoveAt, k
<1> HIDE DEF front, back
<1>5. /\ front \o back \in Seq(Queries)
      /\ Len(front \o back) = Len(front) + Len(back)
      /\ \A j \in 1 .. Len(front) + Len(back) :
           (front \o back)[j] = IF j <= Len(front) THEN front[j] ELSE back[j - Len(front)]
  BY <1>2, <1>3, ConcatProperties
<1>6. Len(front) + Len(back) = Len(qs) - 1
  BY <1>1, <1>2, <1>3
<1>7. ASSUME NEW j \in 1 .. Len(qs) - 1
      PROVE  (front \o back)[j] = IF j < k THEN qs[j] ELSE qs[j + 1]
  <2>1. (front \o back)[j] = IF j <= k - 1 THEN front[j] ELSE back[j - (k - 1)]
    BY <1>1, <1>2, <1>5, <1>6
  <2>2. CASE j < k
    BY <1>1, <1>2, <2>1, <2>2
  <2>3. CASE ~(j < k)
    <3>1. j - (k - 1) \in 1 .. Len(qs) - k /\ k + (j - (k - 1)) = j + 1
      BY <1>1, <2>3
    <3>2. back[j - (k - 1)] = qs[j + 1]
      BY <1>3, <3>1
    <3> QED
      BY <1>1, <2>1, <2>3, <3>2
  <2> QED
    BY <2>2, <2>3
<1> QED
  BY <1>1, <1>4, <1>5, <1>6, <1>7

\* The members of a list are due one after the other.
DueInOrder(qs, r) ==
  \A j, k \in DOMAIN qs : j < k => r[qs[j]].deadline <= r[qs[k]].deadline

\* The list without q holds every other query once.
LEMMA UnlinkKeeps ==
  ASSUME NEW qs \in Seq(Queries), NEW q \in Range(qs), IsInjective(qs)
  PROVE  /\ Unlink(qs, q) \in Seq(Queries)
         /\ Len(Unlink(qs, q)) = Len(qs) - 1
         /\ IsInjective(Unlink(qs, q))
         /\ Range(Unlink(qs, q)) = Range(qs) \ {q}
<1> DEFINE rest == Unlink(qs, q)
<1>1. PICK k \in 1 .. Len(qs) :
        /\ qs[k] = q
        /\ rest \in Seq(Queries)
        /\ Len(rest) = Len(qs) - 1
        /\ \A j \in 1 .. Len(qs) - 1 : rest[j] = IF j < k THEN qs[j] ELSE qs[j + 1]
  BY UnlinkAt
<1> HIDE DEF rest
<1>2. DOMAIN rest = 1 .. Len(qs) - 1 /\ DOMAIN qs = 1 .. Len(qs)
  BY <1>1
<1>3. \A a, b \in 1 .. Len(qs) : qs[a] = qs[b] => a = b
  BY <1>2 DEF IsInjective
<1>4. IsInjective(rest)
  <2>1. SUFFICES ASSUME NEW a \in 1 .. Len(qs) - 1, NEW b \in 1 .. Len(qs) - 1,
                        rest[a] = rest[b]
                 PROVE  a = b
    BY <1>2 DEF IsInjective
  <2>2. /\ rest[a] = qs[IF a < k THEN a ELSE a + 1]
        /\ rest[b] = qs[IF b < k THEN b ELSE b + 1]
    BY <1>1
  <2>3. (IF a < k THEN a ELSE a + 1) \in 1 .. Len(qs)
        /\ (IF b < k THEN b ELSE b + 1) \in 1 .. Len(qs)
    BY <1>1
  <2>4. (IF a < k THEN a ELSE a + 1) = (IF b < k THEN b ELSE b + 1)
    BY <1>3, <2>1, <2>2, <2>3
  <2> QED
    BY <2>4
<1>5. ASSUME NEW a \in 1 .. Len(qs) - 1 PROVE rest[a] \in Range(qs) \ {q}
  <2>1. /\ rest[a] = qs[IF a < k THEN a ELSE a + 1]
        /\ (IF a < k THEN a ELSE a + 1) \in 1 .. Len(qs)
        /\ (IF a < k THEN a ELSE a + 1) # k
    <3> DEFINE n == Len(qs)
    <3>1. /\ n \in Nat /\ k \in 1 .. n /\ a \in 1 .. n - 1
          /\ \A j \in 1 .. n - 1 : rest[j] = IF j < k THEN qs[j] ELSE qs[j + 1]
      BY <1>1
    <3> HIDE DEF n
    <3>2. rest[a] = IF a < k THEN qs[a] ELSE qs[a + 1]
      BY <3>1
    <3>3. (IF a < k THEN a ELSE a + 1) \in 1 .. n /\ (IF a < k THEN a ELSE a + 1) # k
      BY <3>1
    <3> QED
      BY <3>2, <3>3 DEF n
  <2> QED
    BY <1>1, <1>2, <1>3, <2>1 DEF Range
<1>6. ASSUME NEW p \in Range(qs) \ {q} PROVE p \in Range(rest)
  <2>1. PICK a \in 1 .. Len(qs) : qs[a] = p
    BY RangeOf
  <2>2. a # k
    BY <1>1, <2>1
  <2>3. CASE a < k
    <3>1. a \in 1 .. Len(qs) - 1 /\ rest[a] = p
      BY <1>1, <2>1, <2>3
    <3> QED
      BY <1>2, <3>1 DEF Range
  <2>4. CASE a > k
    <3>1. a - 1 \in 1 .. Len(qs) - 1 /\ ~(a - 1 < k) /\ a - 1 + 1 = a
      BY <2>4
    <3>2. rest[a - 1] = p
      BY <1>1, <2>1, <3>1
    <3> QED
      BY <1>2, <3>1, <3>2 DEF Range
  <2> QED
    BY <2>2, <2>3, <2>4
<1>7. Range(rest) = Range(qs) \ {q}
  BY <1>2, <1>5, <1>6 DEF Range
<1> QED
  BY <1>1, <1>4, <1>7 DEF rest

\* Nothing else moves, so the order stays.
LEMMA UnlinkInOrder ==
  ASSUME NEW qs \in Seq(Queries), NEW q \in Range(qs), NEW r, DueInOrder(qs, r)
  PROVE  DueInOrder(Unlink(qs, q), r)
<1>1. PICK k \in 1 .. Len(qs) :
        /\ Unlink(qs, q) \in Seq(Queries)
        /\ Len(Unlink(qs, q)) = Len(qs) - 1
        /\ \A j \in 1 .. Len(qs) - 1 :
             Unlink(qs, q)[j] = IF j < k THEN qs[j] ELSE qs[j + 1]
  BY UnlinkAt
<1>2. SUFFICES ASSUME NEW a \in 1 .. Len(qs) - 1, NEW b \in 1 .. Len(qs) - 1, a < b
               PROVE  r[Unlink(qs, q)[a]].deadline <= r[Unlink(qs, q)[b]].deadline
  BY <1>1 DEF DueInOrder
<1> DEFINE x == IF a < k THEN a ELSE a + 1
           y == IF b < k THEN b ELSE b + 1
<1>3. Unlink(qs, q)[a] = qs[x] /\ Unlink(qs, q)[b] = qs[y]
  BY <1>1
<1>4. x \in 1 .. Len(qs) /\ y \in 1 .. Len(qs) /\ x < y
  BY <1>2
<1>5. r[qs[x]].deadline <= r[qs[y]].deadline
  BY <1>4 DEF DueInOrder
<1> QED
  BY <1>3, <1>5

\* A query that is put back has its place by its deadline.
LEMMA RequeueKeeps ==
  ASSUME NEW qs \in Seq(Queries), NEW q \in Range(qs), IsInjective(qs),
         NEW r, \A p \in Queries : r[p].deadline \in Nat,
         DueInOrder(Unlink(qs, q), r)
  PROVE  /\ Requeue(q, qs, r) \in Seq(Queries)
         /\ Len(Requeue(q, qs, r)) = Len(qs)
         /\ IsInjective(Requeue(q, qs, r))
         /\ Range(Requeue(q, qs, r)) = Range(qs)
         /\ DueInOrder(Requeue(q, qs, r), r)
<1> DEFINE rest == Unlink(qs, q)
           n == Len(qs) - 1
           notLater == {k \in DOMAIN rest : r[rest[k]].deadline <= r[q].deadline}
           i == IF notLater = {} THEN 1 ELSE Max(notLater) + 1
           new == Requeue(q, qs, r)
<1>1. /\ rest \in Seq(Queries) /\ Len(rest) = n /\ IsInjective(rest)
      /\ Range(rest) = Range(qs) \ {q}
  BY UnlinkKeeps
<1>2. q \in Queries /\ r[q].deadline \in Nat /\ n \in Nat
  <2>1. Len(rest) \in Nat
    BY <1>1
  <2>2. q \in Queries
    BY RangeOf
  <2> QED
    BY <1>1, <2>1, <2>2
<1>3. new = InsertAt(rest, i, q)
  BY DEF Requeue
<1>4. DueInOrder(rest, r)
  OBVIOUS
<1> HIDE DEF rest, n, new
<1>5. DOMAIN rest = 1 .. n
  BY <1>1
<1>6. /\ i \in 1 .. n + 1
      /\ \A k \in 1 .. n : k < i => r[rest[k]].deadline <= r[q].deadline
      /\ \A k \in 1 .. n : k >= i => r[q].deadline <= r[rest[k]].deadline
  <2>0. \A k \in 1 .. n : rest[k] \in Queries /\ r[rest[k]].deadline \in Nat
    BY <1>1
  <2>1. CASE notLater = {}
    <3>1. i = 1
      BY <2>1
    <3>2. ASSUME NEW k \in 1 .. n PROVE r[q].deadline <= r[rest[k]].deadline
      <4>1. ~(r[rest[k]].deadline <= r[q].deadline)
        BY <1>5, <2>1
      <4>2. r[rest[k]].deadline \in Nat
        BY <2>0
      <4> QED
        BY <1>2, <4>1, <4>2
    <3> HIDE DEF i
    <3>3. i \in 1 .. n + 1 /\ \A k \in 1 .. n : ~(k < i)
      BY <1>2, <3>1
    <3> QED
      BY <3>2, <3>3
  <2>2. CASE notLater # {}
    <3>1. notLater \subseteq 0 .. n
      BY <1>5
    <3> DEFINE m == Max(notLater)
    <3>2. m \in notLater /\ \A y \in notLater : m >= y
      <4>1. \E x \in notLater : \A y \in notLater : x >= y
        <5> HIDE DEF notLater
        <5> QED
          BY <1>2, <2>2, <3>1, MaxExists
      <4> HIDE DEF notLater
      <4> QED
        BY <4>1 DEF Max
    <3>3. i = m + 1
      BY <2>2
    <3> HIDE DEF m, i
    <3>4. m \in 1 .. n /\ r[rest[m]].deadline <= r[q].deadline
      BY <1>5, <3>2
    <3>5. ASSUME NEW k \in 1 .. n, k < i PROVE r[rest[k]].deadline <= r[q].deadline
      <4>1. CASE k = m
        BY <3>4, <4>1
      <4>2. CASE k < m
        <5>1. r[rest[k]].deadline <= r[rest[m]].deadline
          BY <1>4, <1>5, <3>4, <4>2 DEF DueInOrder
        <5> QED
          BY <1>2, <2>0, <3>4, <5>1
      <4> QED
        BY <3>3, <3>4, <3>5, <4>1, <4>2
    <3>6. ASSUME NEW k \in 1 .. n, k >= i PROVE r[q].deadline <= r[rest[k]].deadline
      <4>1. k \notin notLater
        BY <3>2, <3>3, <3>4, <3>6
      <4>2. ~(r[rest[k]].deadline <= r[q].deadline)
        BY <1>5, <4>1
      <4> QED
        BY <1>2, <2>0, <4>2
    <3>7. i \in 1 .. n + 1
      BY <1>2, <3>3, <3>4
    <3> QED
      BY <3>5, <3>6, <3>7
  <2> QED
    BY <2>1, <2>2
<1> HIDE DEF i
<1>7. /\ new \in Seq(Queries) /\ Len(new) = n + 1
      /\ \A k \in 1 .. n + 1 :
           new[k] = IF k < i THEN rest[k] ELSE IF k = i THEN q ELSE rest[k - 1]
  <2> DEFINE front == SubSeq(rest, 1, i - 1)
             back == SubSeq(rest, i, n)
             one == <<q>>
             mid == front \o one
  <2>1. /\ front \in Seq(Queries) /\ Len(front) = i - 1
        /\ \A j \in 1 .. i - 1 : front[j] = rest[j]
    <3>1. \A j \in 1 .. i - 1 : rest[j] \in Queries
      BY <1>1, <1>6
    <3> QED
      BY <1>6, <3>1, SubSeqProperties
  <2>2. /\ back \in Seq(Queries) /\ Len(back) = n - i + 1
        /\ \A j \in 1 .. n - i + 1 : back[j] = rest[i + j - 1]
    <3>1. \A j \in i .. n : rest[j] \in Queries
      BY <1>1, <1>6
    <3>2. Len(back) = IF i <= n THEN n - i + 1 ELSE 0
      BY <1>2, <1>6, <3>1, SubSeqProperties
    <3> QED
      BY <1>2, <1>6, <3>1, <3>2, SubSeqProperties
  <2>3. new = mid \o back
    BY <1>1, <1>3 DEF InsertAt
  <2> HIDE DEF front, back
  <2>4. /\ mid \in Seq(Queries) /\ Len(mid) = i
        /\ \A k \in 1 .. i : mid[k] = IF k < i THEN rest[k] ELSE q
    <3>1. one \in Seq(Queries) /\ Len(one) = 1 /\ one[1] = q
      BY <1>2
    <3> HIDE DEF one
    <3>2. /\ mid \in Seq(Queries) /\ Len(mid) = Len(front) + Len(one)
          /\ \A k \in 1 .. Len(front) + Len(one) :
               mid[k] = IF k <= Len(front) THEN front[k] ELSE one[k - Len(front)]
      BY <2>1, <3>1, ConcatProperties
    <3> HIDE DEF mid
    <3>3. Len(mid) = i /\ \A k \in 1 .. i : mid[k] = IF k <= i - 1 THEN front[k]
                                                     ELSE one[k - (i - 1)]
      BY <1>6, <2>1, <3>1, <3>2
    <3>4. ASSUME NEW k \in 1 .. i PROVE mid[k] = IF k < i THEN rest[k] ELSE q
      <4>1. CASE k < i
        BY <1>6, <2>1, <3>3, <4>1
      <4>2. CASE k = i
        <5>1. k - (i - 1) = 1 /\ ~(k <= i - 1)
          BY <1>6, <4>2
        <5> QED
          BY <3>1, <3>3, <4>2, <5>1
      <4> QED
        BY <1>2, <1>6, <4>1, <4>2
    <3> QED
      BY <3>2, <3>3, <3>4
  <2> HIDE DEF mid
  <2>5. /\ new \in Seq(Queries) /\ Len(new) = Len(mid) + Len(back)
        /\ \A k \in 1 .. Len(mid) + Len(back) :
             new[k] = IF k <= Len(mid) THEN mid[k] ELSE back[k - Len(mid)]
    <3>1. mid \in Seq(Queries) /\ back \in Seq(Queries)
      BY <2>2, <2>4
    <3> QED
      BY <2>3, <3>1, ConcatProperties
  <2>6. Len(mid) + Len(back) = n + 1
    BY <1>2, <1>6, <2>2, <2>4
  <2>7. ASSUME NEW k \in 1 .. n + 1
        PROVE  new[k] = IF k < i THEN rest[k] ELSE IF k = i THEN q ELSE rest[k - 1]
    <3>1. new[k] = IF k <= i THEN mid[k] ELSE back[k - i]
      BY <2>4, <2>5, <2>6
    <3>2. CASE k <= i
      BY <1>6, <2>4, <3>1, <3>2
    <3>3. CASE k > i
      <4>1. k - i \in 1 .. n - i + 1 /\ i + (k - i) - 1 = k - 1
        BY <1>2, <1>6, <3>3
      <4>2. back[k - i] = rest[k - 1]
        BY <2>2, <4>1
      <4> QED
        BY <1>6, <3>1, <3>3, <4>2
    <3> QED
      BY <1>6, <3>2, <3>3
  <2> QED
    BY <2>5, <2>6, <2>7
<1>8. DOMAIN new = 1 .. n + 1
  BY <1>7
<1>9. \A k \in 1 .. n : rest[k] # q
  BY <1>1, <1>5 DEF Range
<1>10. IsInjective(new)
  <2>0. \A x, y \in 1 .. n : rest[x] = rest[y] => x = y
    BY <1>1, <1>5 DEF IsInjective
  <2>a. ASSUME NEW a \in 1 .. n + 1, a # i PROVE new[a] # q
    <3>1. (IF a < i THEN a ELSE a - 1) \in 1 .. n
      BY <1>2, <1>6, <2>a
    <3>2. new[a] = rest[IF a < i THEN a ELSE a - 1]
      BY <1>7, <2>a
    <3> QED
      BY <1>9, <3>1, <3>2
  <2>b. new[i] = q
    BY <1>2, <1>6, <1>7
  <2>1. SUFFICES ASSUME NEW a \in 1 .. n + 1, NEW b \in 1 .. n + 1, new[a] = new[b]
                 PROVE  a = b
    BY <1>8 DEF IsInjective
  <2>2. CASE a = i
    BY <2>a, <2>b, <2>1, <2>2
  <2>3. CASE b = i
    BY <2>a, <2>b, <2>1, <2>3
  <2>4. CASE a # i /\ b # i
    <3> DEFINE x == IF a < i THEN a ELSE a - 1
               y == IF b < i THEN b ELSE b - 1
    <3>1. x \in 1 .. n /\ y \in 1 .. n
      BY <1>2, <1>6, <2>4
    <3>2. new[a] = rest[x] /\ new[b] = rest[y]
      BY <1>7, <2>4
    <3>3. x = y
      BY <2>0, <2>1, <3>1, <3>2
    <3> QED
      BY <1>2, <1>6, <2>4, <3>3
  <2> QED
    BY <2>2, <2>3, <2>4
<1>11. Range(new) = Range(qs)
  <2>1. ASSUME NEW a \in 1 .. n + 1 PROVE new[a] \in Range(qs)
    <3>1. CASE a = i
      BY <1>6, <1>7, <3>1
    <3>2. CASE a # i
      <4>1. (IF a < i THEN a ELSE a - 1) \in 1 .. n
        BY <1>2, <1>6, <3>2
      <4>2. new[a] = rest[IF a < i THEN a ELSE a - 1]
        BY <1>7, <3>2
      <4> QED
        BY <1>1, <1>5, <4>1, <4>2 DEF Range
    <3> QED
      BY <3>1, <3>2
  <2>2. ASSUME NEW p \in Range(qs) PROVE p \in Range(new)
    <3>1. CASE p = q
      BY <1>6, <1>7, <1>8, <3>1 DEF Range
    <3>2. CASE p # q
      <4>1. PICK x \in 1 .. n : rest[x] = p
        BY <1>1, <1>5, <3>2 DEF Range
      <4> DEFINE a == IF x < i THEN x ELSE x + 1
      <4>2. a \in 1 .. n + 1 /\ a # i /\ (a < i => x = a) /\ (~(a < i) => x = a - 1)
        BY <1>2, <1>6
      <4>3. new[a] = p
        BY <1>7, <4>1, <4>2
      <4> QED
        BY <1>8, <4>2, <4>3 DEF Range
    <3> QED
      BY <3>1, <3>2
  <2> QED
    BY <1>8, <2>1, <2>2 DEF Range
<1>12. DueInOrder(new, r)
  <2>1. SUFFICES ASSUME NEW a \in 1 .. n + 1, NEW b \in 1 .. n + 1, a < b
                 PROVE  r[new[a]].deadline <= r[new[b]].deadline
    BY <1>8 DEF DueInOrder
  <2>2. CASE a = i
    <3>1. b - 1 \in 1 .. n /\ b - 1 >= i /\ new[b] = rest[b - 1] /\ new[a] = q
      BY <1>2, <1>6, <1>7, <2>1, <2>2
    <3> QED
      BY <1>6, <3>1
  <2>3. CASE b = i
    <3>1. a \in 1 .. n /\ a < i /\ new[a] = rest[a] /\ new[b] = q
      BY <1>2, <1>6, <1>7, <2>1, <2>3
    <3> QED
      BY <1>6, <3>1
  <2>4. CASE a # i /\ b # i
    <3> DEFINE x == IF a < i THEN a ELSE a - 1
               y == IF b < i THEN b ELSE b - 1
    <3>1. x \in 1 .. n /\ y \in 1 .. n /\ x < y
      BY <1>2, <1>6, <2>1, <2>4
    <3>2. new[a] = rest[x] /\ new[b] = rest[y]
      BY <1>7, <2>4
    <3>3. r[rest[x]].deadline <= r[rest[y]].deadline
      BY <1>4, <1>5, <3>1 DEF DueInOrder
    <3> QED
      BY <3>2, <3>3
  <2> QED
    BY <2>2, <2>3, <2>4
<1>13. Len(new) = Len(qs)
  BY <1>7 DEF n
<1> QED
  BY <1>7, <1>10, <1>11, <1>12, <1>13 DEF new

-----------------------------------------------------------------------------
(* One query                                                                *)

\* How often each server was sent the present name: bounded by the tries that have
\* begun, and one more without EDNS0.
Extra(r, s) == IF s \in r.noEdns THEN 1 ELSE 0
Reached(r, s) == IF s < r.servi THEN 1 ELSE 0

FewSends(r) ==
  \A s \in Servers : /\ r.sends[s] <= r.try + Reached(r, s) + Extra(r, s)
                     /\ r.sends[s] <= NTries + Extra(r, s)

\* And at least once in each try, unless the server refused.
EnoughSends(r) ==
  /\ r.try < NTries
  /\ \A s \in Servers : s \in r.servskip \/ r.sends[s] >= r.try + Reached(r, s)

SameName(n, r) ==
  /\ n.id = r.id /\ n.dn = r.dn /\ n.nxtsrch = r.nxtsrch /\ n.asisDone = r.asisDone
  /\ n.seenNodata = r.seenNodata /\ n.denied = r.denied

\* The time to wait is a number, also when doubling leaves the unsigned.
LEMMA DeadlineType == ASSUME NEW n \in Nat PROVE (BaseTimeout * 2 ^ n) % UintMod \in Nat
  OBVIOUS

\* dns_find_serv() moves servi on, past servers that are skipped only.
LEMMA FindServIs ==
  ASSUME NEW r \in QueryType
  PROVE  \E s \in r.servi .. NServ :
           /\ FindServ(r) = [r EXCEPT !.servi = s]
           /\ \A t \in Servers : r.servi <= t /\ t < s => t \in r.servskip
<1> DEFINE found == {s \in r.servi .. NServ - 1 : s \notin r.servskip}
           s == IF found = {} THEN NServ ELSE CHOOSE x \in found : \A t \in found : x <= t
<1>0. r.servi \in 0 .. NServ
  BY DEF QueryType
<1>1. FindServ(r) = [r EXCEPT !.servi = s]
  BY DEF FindServ
<1>2. CASE found = {}
  BY <1>0, <1>1, <1>2 DEF Servers
<1>3. CASE found # {}
  <2>1. found \in SUBSET Nat
    BY <1>0
  <2>2. \E x \in found : \A t \in found : x <= t
    <3> HIDE DEF found
    <3> QED
      BY <1>3, <2>1, MinExists
  <2>3. s \in found /\ \A t \in found : s <= t
    <3> HIDE DEF found
    <3> QED
      BY <1>3, <2>2
  <2> HIDE DEF s
  <2>4. ASSUME NEW t \in Servers, r.servi <= t, t < s PROVE t \in r.servskip
    BY <1>0, <2>3, <2>4 DEF Servers
  <2> QED
    BY <1>0, <1>1, <2>3, <2>4
<1> QED
  BY <1>2, <1>3

\* So it takes nothing from what is known of the sends.
LEMMA FindServKeeps ==
  ASSUME NEW r \in QueryType
  PROVE  /\ FindServ(r) \in QueryType
         /\ SameName(FindServ(r), r)
         /\ FewSends(r) => FewSends(FindServ(r))
         /\ EnoughSends(r) => EnoughSends(FindServ(r))
         /\ FindServ(r).try = r.try
         /\ FindServ(r).sends = r.sends
         /\ FindServ(r).servskip = r.servskip
         /\ FindServ(r).noEdns = r.noEdns
         /\ FindServ(r).servi >= r.servi
         /\ FindServ(r).deadline = r.deadline
<1>1. PICK s \in r.servi .. NServ :
        /\ FindServ(r) = [r EXCEPT !.servi = s]
        /\ \A t \in Servers : r.servi <= t /\ t < s => t \in r.servskip
  BY FindServIs
<1> DEFINE n == [r EXCEPT !.servi = s]
<1>2. r.servi \in 0 .. NServ /\ s \in 0 .. NServ /\ r.try \in Nat
      /\ \A t \in Servers : r.sends[t] \in Nat
  BY DEF QueryType
<1>3. n \in QueryType
  BY <1>2 DEF QueryType
<1>4. /\ SameName(n, r) /\ n.try = r.try /\ n.sends = r.sends /\ n.servskip = r.servskip
      /\ n.noEdns = r.noEdns /\ n.servi = s /\ n.deadline = r.deadline
  BY DEF QueryType, SameName
<1> HIDE DEF n
<1>5. ASSUME FewSends(r) PROVE FewSends(n)
  <2>1. ASSUME NEW t \in Servers
        PROVE  /\ n.sends[t] <= n.try + Reached(n, t) + Extra(n, t)
               /\ n.sends[t] <= NTries + Extra(n, t)
    <3>1. /\ r.sends[t] <= r.try + Reached(r, t) + Extra(r, t)
          /\ r.sends[t] <= NTries + Extra(r, t)
      BY <1>5 DEF FewSends
    <3>2. Reached(r, t) <= Reached(n, t) /\ Extra(n, t) = Extra(r, t)
      BY <1>2, <1>4 DEF Reached, Extra, Servers
    <3> QED
      BY <1>2, <1>4, <3>1, <3>2 DEF Reached, Extra
  <2> QED
    BY <2>1 DEF FewSends
<1>6. ASSUME EnoughSends(r) PROVE EnoughSends(n)
  <2>1. ASSUME NEW t \in Servers, t \notin n.servskip
        PROVE  n.sends[t] >= n.try + Reached(n, t)
    <3>1. r.sends[t] >= r.try + Reached(r, t)
      BY <1>4, <1>6, <2>1 DEF EnoughSends
    <3>2. ~(r.servi <= t /\ t < s)
      BY <1>1, <1>4, <2>1
    <3>3. Reached(n, t) = Reached(r, t)
      BY <1>2, <1>4, <3>2 DEF Reached, Servers
    <3> QED
      BY <1>4, <3>1, <3>3
  <2> QED
    BY <1>4, <1>6, <2>1 DEF EnoughSends
<1> QED
  BY <1>1, <1>2, <1>3, <1>4, <1>5, <1>6 DEF n

\* A packet is sent to server s, for the first time in this try or without EDNS0.
LEMMA SentKeeps ==
  ASSUME NEW r \in QueryType, NEW s \in Servers,
         r.try < NTries,
         \A t \in Servers \ {s} : /\ r.sends[t] <= r.try + Reached(r, t) + Extra(r, t)
                                  /\ r.sends[t] <= NTries + Extra(r, t)
                                  /\ t \in r.servskip \/ r.sends[t] >= r.try + Reached(r, t),
         r.sends[s] + 1 <= r.try + Reached(r, s) + Extra(r, s),
         r.sends[s] + 1 <= NTries + Extra(r, s),
         s \in r.servskip \/ r.sends[s] + 1 >= r.try + Reached(r, s)
  PROVE  /\ Sent(r, s) \in QueryType
         /\ SameName(Sent(r, s), r)
         /\ FewSends(Sent(r, s))
         /\ EnoughSends(Sent(r, s))
<1> DEFINE m == [r EXCEPT !.servwait = @ \cup {s}, !.sends[s] = @ + 1]
           asked == FindServ(m)
           d == IF asked.servi < NServ THEN 1 ELSE (BaseTimeout * 2 ^ r.try) % UintMod
           n == [asked EXCEPT !.deadline = d]
<1>1. Sent(r, s) = n
  BY DEF Sent
<1>2. r.try \in Nat /\ \A t \in Servers : r.sends[t] \in Nat
  BY DEF QueryType
<1>3. m \in QueryType
  <2>1. /\ [r.sends EXCEPT ![s] = @ + 1] \in [Servers -> Nat]
        /\ r.servwait \cup {s} \in SUBSET Servers
    BY <1>2 DEF QueryType
  <2>2. m = [r EXCEPT !.servwait = r.servwait \cup {s}, !.sends = [r.sends EXCEPT ![s] = @ + 1]]
    BY DEF QueryType
  <2> HIDE DEF m
  <2> QED
    BY <2>1, <2>2 DEF QueryType
<1>4. /\ m.sends = [r.sends EXCEPT ![s] = @ + 1] /\ m.try = r.try /\ m.servi = r.servi
      /\ m.servskip = r.servskip /\ m.noEdns = r.noEdns
      /\ SameName(m, r)
  BY DEF QueryType, SameName
<1>5. m.sends[s] = r.sends[s] + 1 /\ \A t \in Servers \ {s} : m.sends[t] = r.sends[t]
  BY <1>4 DEF QueryType
<1> HIDE DEF m
<1>6. \A t \in Servers : Reached(m, t) = Reached(r, t) /\ Extra(m, t) = Extra(r, t)
  BY <1>4 DEF Reached, Extra
<1>7. FewSends(m)
  BY <1>4, <1>5, <1>6 DEF FewSends
<1>8. EnoughSends(m)
  BY <1>4, <1>5, <1>6 DEF EnoughSends
<1>9. asked \in QueryType /\ FewSends(asked) /\ EnoughSends(asked) /\ SameName(asked, m)
  BY <1>3, <1>7, <1>8, FindServKeeps
<1> HIDE DEF asked
<1>10. d \in Nat
  BY <1>2, DeadlineType
<1> HIDE DEF d
<1>11. n \in QueryType
  BY <1>9, <1>10 DEF QueryType
<1>12. /\ n.sends = asked.sends /\ n.try = asked.try /\ n.servi = asked.servi
       /\ n.servskip = asked.servskip /\ n.noEdns = asked.noEdns /\ SameName(n, asked)
  BY <1>9 DEF QueryType, SameName
<1> HIDE DEF n
<1>13. \A t \in Servers : Reached(n, t) = Reached(asked, t) /\ Extra(n, t) = Extra(asked, t)
  BY <1>12 DEF Reached, Extra
<1>14. FewSends(n) /\ EnoughSends(n)
  BY <1>9, <1>12, <1>13 DEF FewSends, EnoughSends
<1>15. SameName(n, r)
  BY <1>4, <1>9, <1>12 DEF SameName
<1> QED
  BY <1>1, <1>11, <1>14, <1>15

-----------------------------------------------------------------------------
(* Steps that deal with one query                                           *)

\* It stays in the list and holds r from now on.
Continue(q, r) ==
  /\ query' = [query EXCEPT ![q] = r]
  /\ \/ queue' = Requeue(q, queue, query')
     \/ queue' = queue /\ r.deadline = query[q].deadline
  /\ UNCHANGED <<open, nactive, timerVars, loop, callVars, burst>>

\* The server is the next of this try, or the first of the one that begins.
LEMMA SendThisKeeps ==
  ASSUME NEW q \in Queries, NEW r \in QueryType, NEW s \in Servers, NEW ok \in BOOLEAN,
         r.try < NTries,
         \A t \in Servers \ {s} : /\ r.sends[t] <= r.try + Reached(r, t) + Extra(r, t)
                                  /\ r.sends[t] <= NTries + Extra(r, t)
                                  /\ t \in r.servskip \/ r.sends[t] >= r.try + Reached(r, t),
         r.sends[s] + 1 <= r.try + Reached(r, s) + Extra(r, s),
         r.sends[s] + 1 <= NTries + Extra(r, s),
         s \in r.servskip \/ r.sends[s] + 1 >= r.try + Reached(r, s),
         SendThis(q, r, s, ok)
  PROVE  \E n \in QueryType :
           /\ SameName(n, r) /\ FewSends(n)
           /\ \/ Continue(q, n) /\ EnoughSends(n)
              \/ EndQuery(q, n, "TEMPFAIL", FALSE)
<1>1. CASE ok
  <2>1. /\ Sent(r, s) \in QueryType /\ SameName(Sent(r, s), r)
        /\ FewSends(Sent(r, s)) /\ EnoughSends(Sent(r, s))
    BY SentKeeps
  <2>2. Continue(q, Sent(r, s))
    BY <1>1 DEF SendThis, Continue
  <2> QED
    BY <2>1, <2>2
<1>2. CASE ~ok
  <2>1. EndQuery(q, r, "TEMPFAIL", FALSE)
    BY <1>2 DEF SendThis
  <2>2. FewSends(r)
    <3>1. \A t \in Servers : r.sends[t] \in Nat
      BY DEF QueryType
    <3>2. Reached(r, s) \in {0, 1} /\ Extra(r, s) \in {0, 1} /\ r.try \in Nat
      BY DEF Reached, Extra, QueryType
    <3>3. /\ r.sends[s] <= r.try + Reached(r, s) + Extra(r, s)
          /\ r.sends[s] <= NTries + Extra(r, s)
      BY <3>1, <3>2
    <3> QED
      BY <3>3 DEF FewSends
  <2>3. SameName(r, r)
    BY DEF SameName
  <2> QED
    BY <2>1, <2>2, <2>3
<1> QED
  BY <1>1, <1>2

\* What EnoughSends leaves of a query that fails.
Earned(r) == \A s \in Servers : s \in r.servskip \/ r.sends[s] >= NTries

\* dns_send() leaves the sends within their bounds, or gives up rightly.
LEMMA SendKeeps ==
  ASSUME NEW q \in Queries, NEW r \in QueryType, NEW ok \in BOOLEAN,
         FewSends(r), EnoughSends(r), Send(q, r, ok)
  PROVE  \E n \in QueryType :
           /\ SameName(n, r) /\ FewSends(n)
           /\ \/ Continue(q, n) /\ EnoughSends(n)
              \/ EndQuery(q, n, "TEMPFAIL", FALSE)
              \/ EndQuery(q, n, "TEMPFAIL", TRUE) /\ Earned(n)
<1> DEFINE now == FindServ(r)
           reset == [r EXCEPT !.servi = 0, !.try = @ + 1]
           again == FindServ(reset)
           next == IF now.servi < NServ THEN now ELSE again
           goes == next.servi < NServ /\ next.try < NTries
           this == [next EXCEPT !.servi = @ + 1]
<1>1. /\ goes => SendThis(q, this, next.servi, ok)
      /\ ~goes => EndQuery(q, next, "TEMPFAIL", TRUE)
  BY DEF Send
<1>2. /\ now \in QueryType /\ SameName(now, r) /\ FewSends(now) /\ EnoughSends(now)
      /\ now.try = r.try /\ now.sends = r.sends /\ now.servskip = r.servskip
      /\ now.noEdns = r.noEdns
  BY FindServKeeps
<1>3. r.try \in Nat /\ r.try < NTries
  BY DEF QueryType, EnoughSends
<1>4. reset \in QueryType
  <2>1. 0 \in 0 .. NServ /\ r.try + 1 \in Nat
    BY <1>3
  <2> QED
    BY <2>1 DEF QueryType
<1>5. /\ SameName(reset, r) /\ reset.try = r.try + 1 /\ reset.servi = 0
      /\ reset.sends = r.sends /\ reset.servskip = r.servskip /\ reset.noEdns = r.noEdns
  BY DEF QueryType, SameName
<1> HIDE DEF now, reset
<1>6. PICK a \in 0 .. NServ :
        /\ again = [reset EXCEPT !.servi = a]
        /\ \A t \in Servers : t < a => t \in r.servskip
  <2>1. PICK a \in reset.servi .. NServ :
          /\ again = [reset EXCEPT !.servi = a]
          /\ \A t \in Servers : reset.servi <= t /\ t < a => t \in reset.servskip
    BY <1>4, FindServIs
  <2> QED
    BY <1>5, <2>1 DEF Servers
<1>7. /\ again \in QueryType /\ SameName(again, reset) /\ again.try = r.try + 1
      /\ again.sends = r.sends /\ again.servskip = r.servskip /\ again.noEdns = r.noEdns
  BY <1>4, <1>5, FindServKeeps
<1>8. again.servi = a
  BY <1>4, <1>6 DEF QueryType
<1> HIDE DEF again
<1>9. SameName(again, r)
  BY <1>5, <1>7 DEF SameName
<1>10. \A s \in Servers : r.sends[s] \in Nat
  BY DEF QueryType
\* When all have been reached, the sends count as those of the next try.
<1>11. ASSUME ~(now.servi < NServ), NEW s \in Servers
       PROVE  /\ r.sends[s] <= again.try + Extra(again, s)
              /\ r.sends[s] <= NTries + Extra(again, s)
              /\ s \in again.servskip \/ r.sends[s] >= again.try
              /\ s < again.servi => s \in again.servskip
              /\ Extra(again, s) = Extra(r, s)
  <2>1. Reached(now, s) = 1 /\ Extra(now, s) = Extra(r, s) /\ Extra(again, s) = Extra(r, s)
    BY <1>2, <1>7, <1>11 DEF Reached, Extra, Servers, QueryType
  <2>2. /\ now.sends[s] <= now.try + Reached(now, s) + Extra(now, s)
        /\ now.sends[s] <= NTries + Extra(now, s)
        /\ s \in now.servskip \/ now.sends[s] >= now.try + Reached(now, s)
    BY <1>2 DEF FewSends, EnoughSends
  <2>3. Extra(r, s) \in {0, 1}
    BY DEF Extra
  <2> QED
    BY <1>2, <1>3, <1>6, <1>7, <1>8, <1>10, <2>1, <2>2, <2>3
<1>12. CASE goes
  <2>1. next \in QueryType /\ SameName(next, r)
    BY <1>2, <1>7, <1>9
  <2>2. next.servi \in Servers
    BY <1>12, <2>1 DEF QueryType, Servers
  <2>3. /\ this \in QueryType /\ this.servi = next.servi + 1 /\ this.try = next.try
        /\ this.sends = next.sends /\ this.servskip = next.servskip
        /\ this.noEdns = next.noEdns /\ SameName(this, next)
    <3> HIDE DEF next
    <3>1. next.servi + 1 \in 0 .. NServ
      BY <2>2 DEF Servers
    <3>2. this \in QueryType
      BY <2>1, <3>1 DEF QueryType
    <3> QED
      BY <2>1, <3>2 DEF QueryType, SameName
  <2>4. ASSUME NEW t \in Servers
        PROVE  /\ next.sends[t] <= next.try + Reached(next, t) + Extra(next, t)
               /\ next.sends[t] <= NTries + Extra(next, t)
               /\ t \in next.servskip \/ next.sends[t] >= next.try + Reached(next, t)
    <3>1. CASE now.servi < NServ
      <4>1. next = now
        BY <3>1
      <4> QED
        BY <1>2, <4>1 DEF FewSends, EnoughSends
    <3>2. CASE ~(now.servi < NServ)
      <4>1. next = again
        BY <3>2
      <4>2. /\ r.sends[t] <= again.try + Extra(again, t)
            /\ r.sends[t] <= NTries + Extra(again, t)
            /\ t \in again.servskip \/ r.sends[t] >= again.try
            /\ t < again.servi => t \in again.servskip
        BY <1>11, <3>2
      <4>3. Extra(again, t) \in {0, 1} /\ Reached(again, t) \in {0, 1}
            /\ (~(t < again.servi) => Reached(again, t) = 0)
        BY DEF Extra, Reached
      <4> QED
        BY <1>3, <1>7, <1>10, <4>1, <4>2, <4>3
    <3> QED
      BY <3>1, <3>2
  <2>5. next.sends[next.servi] <= next.try + Extra(next, next.servi)
    <3>1. Reached(next, next.servi) = 0
      <4> HIDE DEF next
      <4> QED
        BY <2>2 DEF Reached, Servers
    <3>2. next.try \in Nat /\ Extra(next, next.servi) \in {0, 1}
      BY <2>1 DEF QueryType, Extra
    <3> HIDE DEF next
    <3> QED
      BY <2>2, <2>4, <3>1, <3>2
  <2> HIDE DEF next, this
  <2> DEFINE s == next.servi
  <2>6. /\ \A t \in Servers : Extra(this, t) = Extra(next, t) /\ Extra(next, t) \in {0, 1}
        /\ \A t \in Servers \ {s} : Reached(this, t) = Reached(next, t)
        /\ Reached(this, s) = 1 /\ Reached(next, s) = 0
    BY <2>2, <2>3 DEF Extra, Reached, Servers
  <2>7. next.try \in Nat /\ next.try < NTries /\ \A t \in Servers : next.sends[t] \in Nat
    BY <1>12, <2>1 DEF QueryType
  <2>8. /\ this.sends[s] + 1 <= this.try + Reached(this, s) + Extra(this, s)
        /\ this.sends[s] + 1 <= NTries + Extra(this, s)
        /\ s \in this.servskip \/ this.sends[s] + 1 >= this.try + Reached(this, s)
    BY <2>2, <2>3, <2>4, <2>5, <2>6, <2>7
  <2>9. \A t \in Servers \ {s} :
          /\ this.sends[t] <= this.try + Reached(this, t) + Extra(this, t)
          /\ this.sends[t] <= NTries + Extra(this, t)
          /\ t \in this.servskip \/ this.sends[t] >= this.try + Reached(this, t)
    BY <2>3, <2>4, <2>6
  <2>10. SendThis(q, this, s, ok)
    BY <1>1, <1>12
  <2> HIDE DEF s
  <2>11. s \in Servers /\ this.try < NTries
    BY <2>2, <2>3, <2>7 DEF s
  <2>12. PICK n \in QueryType :
           /\ SameName(n, this) /\ FewSends(n)
           /\ \/ Continue(q, n) /\ EnoughSends(n)
              \/ EndQuery(q, n, "TEMPFAIL", FALSE)
    BY <2>3, <2>8, <2>9, <2>10, <2>11, SendThisKeeps
  <2>13. SameName(n, r)
    BY <2>1, <2>3, <2>12 DEF SameName
  <2> QED
    BY <2>12, <2>13
<1>13. CASE ~goes
  <2>1. ~(now.servi < NServ)
    BY <1>2, <1>3, <1>13
  <2>2. next = again
    BY <2>1
  <2>3. FewSends(again)
    <3>1. ASSUME NEW s \in Servers
          PROVE  /\ again.sends[s] <= again.try + Reached(again, s) + Extra(again, s)
                 /\ again.sends[s] <= NTries + Extra(again, s)
      <4>1. /\ r.sends[s] <= again.try + Extra(again, s)
            /\ r.sends[s] <= NTries + Extra(again, s)
        BY <1>11, <2>1
      <4>2. Extra(again, s) \in {0, 1} /\ Reached(again, s) \in {0, 1}
        BY DEF Extra, Reached
      <4> QED
        BY <1>3, <1>7, <1>10, <4>1, <4>2
    <3> QED
      BY <3>1 DEF FewSends
  <2>4. Earned(again)
    <3>1. ASSUME NEW s \in Servers PROVE s \in again.servskip \/ again.sends[s] >= NTries
      <4>1. /\ s \in again.servskip \/ r.sends[s] >= again.try
            /\ s < again.servi => s \in again.servskip
        BY <1>11, <2>1
      <4>2. s < NServ
        BY DEF Servers
      <4>3. CASE ~(again.servi < NServ)
        BY <1>8, <4>1, <4>2, <4>3 DEF Servers
      <4>4. CASE again.servi < NServ
        BY <1>3, <1>7, <1>10, <1>13, <2>2, <4>1, <4>4
      <4> QED
        BY <4>3, <4>4
    <3> QED
      BY <3>1 DEF Earned
  <2>5. EndQuery(q, again, "TEMPFAIL", TRUE)
    BY <1>1, <1>13, <2>2
  <2> QED
    BY <1>7, <1>9, <2>3, <2>4, <2>5
<1> QED
  BY <1>12, <1>13

-----------------------------------------------------------------------------
(* The names a query is for                                                 *)

Names(q) == IF q \in NoSearch THEN {AsIs} ELSE Elements \ TooLong

\* Those the search list has come to, the present one included.
Tried(q, r) == {e \in Names(q) : e < r.nxtsrch \/ (e = AsIs /\ r.asisDone)}

\* Every name tried before the present one was denied, and no other.
NamesInTurn(q, r) ==
  /\ r.dn \in Tried(q, r)
  /\ \A e \in Elements : r.denied[e] # "no" <=> e \in Tried(q, r) \ {r.dn}
  /\ r.seenNodata <=> \E e \in Elements : r.denied[e] = "nodata"
  /\ q \in NoSearch => r.nxtsrch = NSrch /\ r.asisDone

\* What does not touch the name leaves the names in turn.
LEMMA NamesKept ==
  ASSUME NEW q, NEW r, NEW n, SameName(n, r), NamesInTurn(q, r)
  PROVE  NamesInTurn(q, n)
<1>1. Tried(q, n) = Tried(q, r)
  BY DEF SameName, Tried
<1> QED
  BY <1>1 DEF SameName, NamesInTurn

\* The name as it is is always among them.
LEMMA NamesAre == ASSUME NEW q PROVE AsIs \in Names(q) /\ Names(q) \subseteq Elements
BY DEF Names, AsIs, Elements

\* What the status says of the names, and of the tries.
Just(q, r, status, sent) ==
  /\ status \in {"found", "unparsed"} =>
       /\ r.denied[r.dn] = "no" /\ r.dn \in Names(q)
       /\ \A e \in Elements \ TooLong :
            ~(r.dn = AsIs /\ r.nxtsrch <= NSrch) /\ e < r.dn =>
              e \in Names(q) /\ r.denied[e] # "no"
  /\ status = "NXDOMAIN" => \A e \in Names(q) : r.denied[e] = "nxdomain"
  /\ status = "NODATA" => /\ \A e \in Names(q) : r.denied[e] # "no"
                          /\ \E e \in Names(q) : r.denied[e] = "nodata"
  /\ status = "TEMPFAIL" => r.denied[r.dn] = "no" /\ r.dn \in Names(q)
  /\ status = "TEMPFAIL" /\ sent => Earned(r)

\* The present name is not denied yet.
LEMMA PresentNotDenied ==
  ASSUME NEW q, NEW r, NamesInTurn(q, r)
  PROVE  r.dn \in Names(q) /\ r.dn \in Elements /\ r.denied[r.dn] = "no"
<1>1. r.dn \in Names(q) /\ r.dn \in Elements
  BY NamesAre DEF NamesInTurn, Tried
<1> QED
  BY <1>1 DEF NamesInTurn

\* An answer with data comes after denials of every name before.
LEMMA FoundIsJust ==
  ASSUME NEW q, NEW r \in QueryType, NEW status \in {"found", "unparsed"}, NamesInTurn(q, r)
  PROVE  Just(q, r, status, TRUE)
<1>1. r.denied[r.dn] = "no" /\ r.dn \in Names(q) /\ r.dn \in Elements
  BY PresentNotDenied
<1>2. ASSUME NEW e \in Elements \ TooLong, ~(r.dn = AsIs /\ r.nxtsrch <= NSrch), e < r.dn
      PROVE  e \in Names(q) /\ r.denied[e] # "no"
  <2>1. r.nxtsrch \in 0 .. NSrch + 1 /\ r.dn \in 0 .. NSrch /\ e \in 0 .. NSrch
    BY DEF QueryType, Elements
  <2>2. q \notin NoSearch
    <3>1. SUFFICES ASSUME q \in NoSearch PROVE FALSE
      OBVIOUS
    <3>2. r.dn = AsIs /\ r.nxtsrch = NSrch
      BY <1>1, <3>1 DEF Names, NamesInTurn
    <3> QED
      BY <1>2, <3>2
  <2>3. e \in Names(q)
    BY <2>2 DEF Names
  <2>4. e < r.nxtsrch
    <3>1. CASE r.dn = AsIs
      BY <1>2, <2>1, <3>1 DEF AsIs
    <3>2. CASE r.dn # AsIs
      <4>1. r.dn < r.nxtsrch
        BY <3>2 DEF NamesInTurn, Tried
      <4> QED
        BY <1>2, <2>1, <4>1
    <3> QED
      BY <3>1, <3>2
  <2>5. e \in Tried(q, r) \ {r.dn}
    BY <1>2, <2>1, <2>3, <2>4 DEF Tried
  <2> QED
    BY <2>3, <2>5 DEF NamesInTurn
<1> QED
  BY <1>1, <1>2 DEF Just

\* The query when its present name has been denied.
Told(r, what) == [r EXCEPT !.denied[r.dn] = what]

\* Nothing but that denial is new.
LEMMA ToldIs ==
  ASSUME NEW r \in QueryType, NEW what \in {"nodata", "nxdomain"}
  PROVE  /\ Told(r, what) \in QueryType
         /\ Told(r, what).denied = [r.denied EXCEPT ![r.dn] = what]
         /\ Told(r, what).denied[r.dn] = what
         /\ \A e \in Elements \ {r.dn} : Told(r, what).denied[e] = r.denied[e]
         /\ Told(r, what).nxtsrch = r.nxtsrch /\ Told(r, what).asisDone = r.asisDone
         /\ Told(r, what).seenNodata = r.seenNodata /\ Told(r, what).dn = r.dn
         /\ Told(r, what).sends = r.sends /\ Told(r, what).try = r.try
         /\ Told(r, what).servi = r.servi /\ Told(r, what).noEdns = r.noEdns
         /\ Left(Told(r, what)) = Left(r)
<1>1. r.dn \in Elements /\ r.denied \in [Elements -> {"no", "nxdomain", "nodata"}]
  BY DEF QueryType
<1>2. [r.denied EXCEPT ![r.dn] = what] \in [Elements -> {"no", "nxdomain", "nodata"}]
  BY <1>1
<1>3. Told(r, what) = [r EXCEPT !.denied = [r.denied EXCEPT ![r.dn] = what]]
  BY DEF Told, QueryType
<1>4. Told(r, what) \in QueryType
  BY <1>2, <1>3 DEF QueryType
<1>5. /\ Told(r, what).denied = [r.denied EXCEPT ![r.dn] = what]
      /\ Told(r, what).nxtsrch = r.nxtsrch /\ Told(r, what).asisDone = r.asisDone
      /\ Told(r, what).seenNodata = r.seenNodata /\ Told(r, what).dn = r.dn
      /\ Told(r, what).sends = r.sends /\ Told(r, what).try = r.try
      /\ Told(r, what).servi = r.servi /\ Told(r, what).noEdns = r.noEdns
  BY <1>3 DEF QueryType
<1>6. Left(Told(r, what)) = Left(r)
  BY <1>5 DEF Left
<1> QED
  BY <1>1, <1>4, <1>5, <1>6

\* When no element is left every name has been denied.
LEMMA AllDenied ==
  ASSUME NEW q, NEW r \in QueryType, NEW what \in {"nodata", "nxdomain"},
         NamesInTurn(q, r), Left(r) = {}
  PROVE  Just(q, Told(r, what),
              IF what = "nodata" \/ r.seenNodata THEN "NODATA" ELSE "NXDOMAIN", TRUE)
<1> DEFINE told == Told(r, what)
<1>1. /\ told.denied[r.dn] = what
      /\ \A e \in Elements \ {r.dn} : told.denied[e] = r.denied[e]
  BY ToldIs
<1> HIDE DEF told
<1>2. r.denied \in [Elements -> {"no", "nxdomain", "nodata"}] /\ r.dn \in Elements
      /\ r.nxtsrch \in 0 .. NSrch + 1
  BY DEF QueryType
<1>3. ASSUME NEW e \in Names(q) PROVE e \in Tried(q, r)
  <2>1. CASE q \in NoSearch
    BY <1>3, <2>1 DEF Names, Tried, NamesInTurn
  <2>2. CASE q \notin NoSearch
    <3>1. e \in 0 .. NSrch /\ e \notin TooLong
      BY <1>3, <2>2 DEF Names, Elements
    <3>2. e \notin Left(r)
      OBVIOUS
    <3>3. e < r.nxtsrch \/ (e = AsIs /\ r.asisDone)
      BY <1>2, <3>1, <3>2 DEF Left
    <3> QED
      BY <3>3 DEF Tried
  <2> QED
    BY <2>1, <2>2
<1>4. \A e \in Names(q) : e \in Elements /\ told.denied[e] # "no"
  BY <1>1, <1>3, NamesAre DEF NamesInTurn
<1>5. CASE what = "nodata" \/ r.seenNodata
  <2>1. \E e \in Names(q) : told.denied[e] = "nodata"
    <3>1. CASE what = "nodata"
      BY <1>1, <3>1, PresentNotDenied
    <3>2. CASE r.seenNodata
      <4>1. PICK e \in Elements : r.denied[e] = "nodata"
        BY <3>2 DEF NamesInTurn
      <4>2. e \in Tried(q, r) \ {r.dn}
        BY <4>1 DEF NamesInTurn
      <4> QED
        BY <1>1, <4>1, <4>2 DEF Tried
    <3> QED
      BY <1>5, <3>1, <3>2
  <2> QED
    BY <1>4, <1>5, <2>1 DEF Just, told
<1>6. CASE ~(what = "nodata" \/ r.seenNodata)
  <2>1. ASSUME NEW e \in Names(q) PROVE told.denied[e] = "nxdomain"
    <3>1. CASE e = r.dn
      BY <1>1, <1>6, <3>1
    <3>2. CASE e # r.dn
      <4>1. r.denied[e] # "nodata" /\ e \in Elements
        BY <1>4, <1>6 DEF NamesInTurn
      <4>2. told.denied[e] = r.denied[e]
        BY <1>1, <3>2, <4>1
      <4> QED
        BY <1>2, <1>4, <4>1, <4>2
    <3> QED
      BY <3>1, <3>2
  <2> QED
    BY <1>6, <2>1 DEF Just, told
<1> QED
  BY <1>5, <1>6

\* A new id, and the tries begin anew.
LEMMA NewIdIs ==
  ASSUME NEW r \in QueryType, NEW i \in Ids
  PROVE  /\ NewId(r, i) \in QueryType
         /\ FewSends(NewId(r, i)) /\ EnoughSends(NewId(r, i))
         /\ NewId(r, i).dn = r.dn /\ NewId(r, i).nxtsrch = r.nxtsrch
         /\ NewId(r, i).asisDone = r.asisDone /\ NewId(r, i).seenNodata = r.seenNodata
         /\ NewId(r, i).denied = r.denied /\ NewId(r, i).deadline = r.deadline
<1> DEFINE n == NewId(r, i)
           zero == [s \in Servers |-> 0]
<1>1. zero \in [Servers -> Nat] /\ \A s \in Servers : zero[s] = 0
  OBVIOUS
<1>2. n = [r EXCEPT !.id = i, !.try = 0, !.servi = 0, !.servwait = {}, !.servskip = {},
                    !.noEdns = {}, !.sends = zero]
  BY DEF NewId
<1> HIDE DEF n, zero
<1>3. n \in QueryType
  <2>1. 0 \in 0 .. NServ /\ 0 \in Nat
    OBVIOUS
  <2> QED
    BY <1>1, <1>2, <2>1 DEF QueryType
<1>4. /\ n.try = 0 /\ n.servi = 0 /\ n.servskip = {} /\ n.noEdns = {} /\ n.sends = zero
      /\ n.dn = r.dn /\ n.nxtsrch = r.nxtsrch /\ n.asisDone = r.asisDone
      /\ n.seenNodata = r.seenNodata /\ n.denied = r.denied /\ n.deadline = r.deadline
  BY <1>2 DEF QueryType
<1>5. \A s \in Servers : Reached(n, s) = 0 /\ Extra(n, s) = 0
  BY <1>4 DEF Reached, Extra, Servers
<1> QED
  BY <1>1, <1>3, <1>4, <1>5 DEF FewSends, EnoughSends, n

\* dns_next_srch() comes to the first element that is left.
LEMMA NextSrchIs ==
  ASSUME NEW r \in QueryType, NEW i \in Ids, Left(r) # {}
  PROVE  /\ NextSrch(r, i) \in QueryType
         /\ FewSends(NextSrch(r, i)) /\ EnoughSends(NextSrch(r, i))
         /\ NextSrch(r, i).seenNodata = r.seenNodata /\ NextSrch(r, i).denied = r.denied
         /\ NextSrch(r, i).deadline = r.deadline
         /\ \E e \in Left(r) : /\ \A x \in Left(r) : e <= x
                               /\ NextSrch(r, i).dn = e /\ NextSrch(r, i).nxtsrch = e + 1
                               /\ NextSrch(r, i).asisDone <=> r.asisDone \/ e = AsIs
<1> DEFINE e == CHOOSE x \in Left(r) : \A y \in Left(r) : x <= y
           m == [r EXCEPT !.dn = e, !.nxtsrch = e + 1, !.asisDone = @ \/ e = AsIs]
<1>1. NextSrch(r, i) = NewId(m, i)
  BY DEF NextSrch
<1>2. r.nxtsrch \in 0 .. NSrch + 1
  BY DEF QueryType
<1>3. Left(r) \subseteq 0 .. NSrch
  BY <1>2 DEF Left
<1>4. e \in Left(r) /\ \A x \in Left(r) : e <= x
  <2>1. \E x \in Left(r) : \A y \in Left(r) : x <= y
    BY <1>3, MinExists
  <2> QED
    BY <2>1
<1> HIDE DEF e
<1>5. e \in Elements /\ e + 1 \in 0 .. NSrch + 1
  BY <1>3, <1>4 DEF Elements
<1>6. m \in QueryType
  BY <1>5 DEF QueryType
<1>7. /\ m.dn = e /\ m.nxtsrch = e + 1 /\ (m.asisDone <=> r.asisDone \/ e = AsIs)
      /\ m.seenNodata = r.seenNodata /\ m.denied = r.denied /\ m.deadline = r.deadline
  BY DEF QueryType
<1> HIDE DEF m
<1> QED
  BY <1>1, <1>4, <1>6, <1>7, NewIdIs

\* After a denial the next element is the present name, and the others are denied.
LEMMA NextInTurn ==
  ASSUME NEW q, NEW r \in QueryType, NEW i \in Ids, NEW what \in {"nodata", "nxdomain"},
         NamesInTurn(q, r), Left(r) # {},
         NEW n, n = [NextSrch(Told(r, what), i) EXCEPT !.seenNodata = @ \/ what = "nodata"]
  PROVE  n \in QueryType /\ FewSends(n) /\ EnoughSends(n) /\ NamesInTurn(q, n)
<1> DEFINE told == Told(r, what)
           m == NextSrch(told, i)
<1>1. /\ told \in QueryType /\ Left(told) = Left(r)
      /\ told.denied[r.dn] = what
      /\ \A e \in Elements \ {r.dn} : told.denied[e] = r.denied[e]
      /\ told.asisDone = r.asisDone /\ told.seenNodata = r.seenNodata
  BY ToldIs
<1> HIDE DEF told
<1>2. /\ m \in QueryType /\ FewSends(m) /\ EnoughSends(m)
      /\ m.seenNodata = told.seenNodata /\ m.denied = told.denied
  BY <1>1, NextSrchIs
<1>3. PICK e \in Left(r) : /\ \A x \in Left(r) : e <= x
                           /\ m.dn = e /\ m.nxtsrch = e + 1
                           /\ m.asisDone <=> told.asisDone \/ e = AsIs
  BY <1>1, NextSrchIs
<1> HIDE DEF m
<1>4. n = [m EXCEPT !.seenNodata = @ \/ what = "nodata"]
  BY DEF m, told
<1>5. n \in QueryType
  BY <1>2, <1>4 DEF QueryType
<1>6. /\ n.dn = e /\ n.nxtsrch = e + 1 /\ (n.asisDone <=> r.asisDone \/ e = AsIs)
      /\ n.denied = told.denied /\ n.try = m.try /\ n.sends = m.sends
      /\ n.servi = m.servi /\ n.servskip = m.servskip /\ n.noEdns = m.noEdns
      /\ (n.seenNodata <=> r.seenNodata \/ what = "nodata")
  BY <1>1, <1>2, <1>3, <1>4 DEF QueryType
<1>7. \A s \in Servers : Reached(n, s) = Reached(m, s) /\ Extra(n, s) = Extra(m, s)
  BY <1>6 DEF Reached, Extra
<1>8. FewSends(n) /\ EnoughSends(n)
  BY <1>2, <1>6, <1>7 DEF FewSends, EnoughSends
<1>9. r.nxtsrch \in 0 .. NSrch + 1
  BY DEF QueryType
<1>10. e \in r.nxtsrch .. NSrch /\ e \notin TooLong /\ ~(e = AsIs /\ r.asisDone)
       /\ e \in Elements
  BY <1>9 DEF Left, Elements
<1>11. q \notin NoSearch
  BY <1>10 DEF NamesInTurn, AsIs
<1>12. Tried(q, n) = Tried(q, r) \cup {e} /\ e \notin Tried(q, r)
  <2>1. e \in Tried(q, n)
    BY <1>6, <1>10, <1>11 DEF Tried, Names
  <2>2. e \notin Tried(q, r)
    BY <1>9, <1>10 DEF Tried
  <2>3. ASSUME NEW x \in Tried(q, r) PROVE x \in Tried(q, n)
    <3>1. x \in 0 .. NSrch
      BY NamesAre DEF Tried, Elements
    <3> QED
      BY <1>6, <1>9, <1>10, <3>1 DEF Tried
  <2>4. ASSUME NEW x \in Tried(q, n), x # e PROVE x \in Tried(q, r)
    <3>1. x \in 0 .. NSrch /\ x \in Names(q) /\ x \notin TooLong
      BY <1>11 DEF Tried, Names, Elements
    <3>2. CASE x = AsIs
      <4>1. r.asisDone \/ x < r.nxtsrch \/ x < e
        BY <1>6, <1>10, <2>4, <3>1, <3>2 DEF Tried
      <4>2. ~(x < e)
        BY <1>10, <3>2 DEF AsIs
      <4> QED
        BY <3>1, <3>2, <4>1, <4>2 DEF Tried
    <3>3. CASE x # AsIs
      <4>1. x < e
        BY <1>6, <1>10, <2>4, <3>1, <3>3 DEF Tried
      <4>2. x \notin Left(r)
        BY <1>3, <1>10, <3>1, <4>1
      <4>3. x < r.nxtsrch
        BY <1>9, <3>1, <3>3, <4>2 DEF Left
      <4> QED
        BY <3>1, <4>3 DEF Tried
    <3> QED
      BY <3>2, <3>3
  <2> QED
    BY <2>1, <2>2, <2>3, <2>4
<1>13. r.dn \in Tried(q, r) /\ r.dn \in Elements
  BY NamesAre DEF NamesInTurn, Tried
<1>14. ASSUME NEW x \in Elements PROVE n.denied[x] # "no" <=> x \in Tried(q, n) \ {n.dn}
  <2>1. CASE x = r.dn
    BY <1>1, <1>6, <1>12, <1>13, <2>1
  <2>2. CASE x # r.dn
    <3>1. n.denied[x] = r.denied[x]
      BY <1>1, <1>6, <2>2
    <3>2. r.denied[x] # "no" <=> x \in Tried(q, r) \ {r.dn}
      BY DEF NamesInTurn
    <3>3. Tried(q, n) \ {n.dn} = Tried(q, r)
      BY <1>6, <1>12
    <3> QED
      BY <2>2, <3>1, <3>2, <3>3
  <2> QED
    BY <2>1, <2>2
<1>15. n.seenNodata <=> \E x \in Elements : n.denied[x] = "nodata"
  <2>1. r.seenNodata <=> \E x \in Elements : r.denied[x] = "nodata"
    BY DEF NamesInTurn
  <2>2. r.denied[r.dn] = "no"
    BY PresentNotDenied
  <2>3. CASE what = "nodata"
    BY <1>1, <1>6, <1>13, <2>3
  <2>4. CASE what # "nodata"
    BY <1>1, <1>6, <1>13, <2>1, <2>2, <2>4
  <2> QED
    BY <2>3, <2>4
<1> QED
  BY <1>5, <1>6, <1>8, <1>11, <1>12, <1>14, <1>15 DEF NamesInTurn

\* calloc() gives a query.
LEMMA NewQueryType == NewQuery \in QueryType
<1>1. /\ AsIs \in Elements /\ 0 \in 0 .. NSrch + 1 /\ 0 \in 0 .. NServ /\ 0 \in Nat
      /\ (CHOOSE i \in Ids : TRUE) \in Ids
  BY DEF AsIs, Elements
<1>2. [s \in Servers |-> 0] \in [Servers -> Nat]
  OBVIOUS
<1>3. [e \in Elements |-> "no"] \in [Elements -> {"no", "nxdomain", "nodata"}]
  OBVIOUS
<1> QED
  BY <1>1, <1>2, <1>3 DEF NewQuery, QueryType

\* The query dns_submit_dn() makes.
Submitted(way, i) ==
  LET first == [NewQuery EXCEPT !.asisDone = TRUE]
  IN  CASE way = "nosrch" -> NewId([first EXCEPT !.nxtsrch = NSrch], i)
        [] way = "asisfirst" -> NewId(first, i)
        [] way = "search" -> NextSrch(NewQuery, i)

\* It has come to its first name, with no server asked.
LEMMA SubmitStarts ==
  ASSUME NEW q, NEW way \in Ways, NEW i \in Ids, q \in NoSearch <=> way = "nosrch"
  PROVE  /\ Submitted(way, i) \in QueryType /\ Submitted(way, i).deadline = 0
         /\ FewSends(Submitted(way, i)) /\ EnoughSends(Submitted(way, i))
         /\ NamesInTurn(q, Submitted(way, i))
<1> DEFINE first == [NewQuery EXCEPT !.asisDone = TRUE]
           only == [first EXCEPT !.nxtsrch = NSrch]
<1>1. first \in QueryType /\ first.dn = AsIs /\ first.nxtsrch = 0 /\ first.asisDone = TRUE
      /\ first.seenNodata = FALSE /\ first.deadline = 0 /\ first.denied = [e \in Elements |-> "no"]
  <2>1. first \in QueryType
    BY NewQueryType DEF QueryType
  <2> QED
    BY <2>1 DEF NewQuery
<1>2. only \in QueryType /\ only.dn = AsIs /\ only.nxtsrch = NSrch /\ only.asisDone = TRUE
      /\ only.seenNodata = FALSE /\ only.deadline = 0 /\ only.denied = [e \in Elements |-> "no"]
  <2>1. NSrch \in 0 .. NSrch + 1
    OBVIOUS
  <2> HIDE DEF first
  <2> QED
    BY <1>1, <2>1 DEF QueryType
<1>d. /\ way = "nosrch" => Submitted(way, i) = NewId(only, i)
      /\ way = "asisfirst" => Submitted(way, i) = NewId(first, i)
      /\ way = "search" => Submitted(way, i) = NextSrch(NewQuery, i)
  BY DEF Submitted
<1> DEFINE n == Submitted(way, i)
<1> HIDE DEF first, only, n
<1>3. AsIs \in Names(q) /\ AsIs \in Elements
  BY NamesAre
<1>4. CASE way = "nosrch"
  <2>1. n = NewId(only, i)
    BY <1>d, <1>4 DEF n
  <2>2. /\ n \in QueryType /\ FewSends(n) /\ EnoughSends(n) /\ n.deadline = 0
        /\ n.dn = AsIs /\ n.nxtsrch = NSrch /\ n.asisDone = TRUE /\ n.seenNodata = FALSE
        /\ n.denied = [e \in Elements |-> "no"]
    BY <1>2, <2>1, NewIdIs
  <2>3. Tried(q, n) = {AsIs}
    BY <1>4, <2>2 DEF Tried, Names
  <2>4. NamesInTurn(q, n)
    BY <2>2, <2>3 DEF NamesInTurn
  <2> QED
    BY <2>2, <2>4 DEF n
<1>5. CASE way = "asisfirst"
  <2>1. n = NewId(first, i)
    BY <1>d, <1>5 DEF n
  <2>2. /\ n \in QueryType /\ FewSends(n) /\ EnoughSends(n) /\ n.deadline = 0
        /\ n.dn = AsIs /\ n.nxtsrch = 0 /\ n.asisDone = TRUE /\ n.seenNodata = FALSE
        /\ n.denied = [e \in Elements |-> "no"]
    BY <1>1, <2>1, NewIdIs
  <2>3. Tried(q, n) = {AsIs}
    <3>1. \A e \in Names(q) : ~(e < 0)
      BY NamesAre DEF Elements
    <3> QED
      BY <1>3, <2>2, <3>1 DEF Tried
  <2>4. NamesInTurn(q, n)
    BY <1>5, <2>2, <2>3 DEF NamesInTurn
  <2> QED
    BY <2>2, <2>4 DEF n
<1>6. CASE way = "search"
  <2>1. n = NextSrch(NewQuery, i)
    BY <1>d, <1>6 DEF n
  <2>2. /\ NewQuery.nxtsrch = 0 /\ NewQuery.asisDone = FALSE /\ NewQuery.seenNodata = FALSE
        /\ NewQuery.deadline = 0 /\ NewQuery.denied = [e \in Elements |-> "no"]
    BY DEF NewQuery
  <2>3. Left(NewQuery) = Elements \ TooLong
    BY <2>2 DEF Left, Elements
  <2>4. AsIs \in Left(NewQuery)
    BY <2>3 DEF AsIs, Elements
  <2>5. /\ n \in QueryType /\ FewSends(n) /\ EnoughSends(n) /\ n.deadline = 0
        /\ n.seenNodata = FALSE /\ n.denied = [e \in Elements |-> "no"]
    BY <2>1, <2>2, <2>4, NewQueryType, NextSrchIs
  <2>6. PICK e \in Left(NewQuery) : /\ \A x \in Left(NewQuery) : e <= x
                                    /\ n.dn = e /\ n.nxtsrch = e + 1
                                    /\ n.asisDone <=> e = AsIs
    BY <2>1, <2>2, <2>4, NewQueryType, NextSrchIs
  <2>7. q \notin NoSearch
    BY <1>6
  <2>8. Tried(q, n) = {e}
    <3>1. ASSUME NEW x \in Names(q) PROVE x < e + 1 <=> x = e
      BY <2>3, <2>6, <2>7, <3>1 DEF Names, Elements
    <3>2. e \in Names(q)
      BY <2>3, <2>7 DEF Names
    <3> QED
      BY <2>6, <3>1, <3>2 DEF Tried
  <2>9. NamesInTurn(q, n)
    BY <2>5, <2>6, <2>7, <2>8 DEF NamesInTurn
  <2> QED
    BY <2>5, <2>9 DEF n
<1> QED
  BY <1>4, <1>5, <1>6 DEF Ways, n

-----------------------------------------------------------------------------
(* Expire and Receive deal with one active query                            *)

\* What holds of the queries between the steps.
QueriesKept ==
  /\ \A q \in Queries : FewSends(query[q])
  /\ \A q \in Active : EnoughSends(query[q]) /\ NamesInTurn(q, query[q])

Statuses == {"found", "unparsed", "NODATA", "NXDOMAIN", "TEMPFAIL"}

\* It goes on, or comes to its end with a status that is just.
Ends(q, n) ==
  \E status \in Statuses, sent \in BOOLEAN :
    EndQuery(q, n, status, sent) /\ Just(q, n, status, sent)

Deals(q, n) ==
  /\ FewSends(n)
  /\ \/ Continue(q, n) /\ EnoughSends(n) /\ NamesInTurn(q, n)
     \/ Ends(q, n)

\* TEMPFAIL says nothing of the names.
LEMMA TempfailIsJust ==
  ASSUME NEW q, NEW r, NEW sent \in BOOLEAN, NamesInTurn(q, r), sent => Earned(r)
  PROVE  Just(q, r, "TEMPFAIL", sent)
BY PresentNotDenied DEF Just

\* dns_send() as one step of the query.
LEMMA SendDeals ==
  ASSUME NEW q \in Queries, NEW r \in QueryType, NEW ok \in BOOLEAN,
         FewSends(r), EnoughSends(r), NamesInTurn(q, r), Send(q, r, ok)
  PROVE  \E n \in QueryType : Deals(q, n)
<1>1. PICK n \in QueryType :
        /\ SameName(n, r) /\ FewSends(n)
        /\ \/ Continue(q, n) /\ EnoughSends(n)
           \/ EndQuery(q, n, "TEMPFAIL", FALSE)
           \/ EndQuery(q, n, "TEMPFAIL", TRUE) /\ Earned(n)
  BY SendKeeps
<1>2. NamesInTurn(q, n)
  BY <1>1, NamesKept
<1>3. CASE Continue(q, n) /\ EnoughSends(n)
  BY <1>1, <1>2, <1>3 DEF Deals
<1>4. CASE EndQuery(q, n, "TEMPFAIL", FALSE)
  <2>1. Just(q, n, "TEMPFAIL", FALSE)
    BY <1>2, TempfailIsJust
  <2>2. Ends(q, n)
    BY <1>4, <2>1 DEF Ends, Statuses
  <2> QED
    BY <1>1, <2>2 DEF Deals
<1>5. CASE EndQuery(q, n, "TEMPFAIL", TRUE) /\ Earned(n)
  <2>1. Just(q, n, "TEMPFAIL", TRUE)
    BY <1>2, <1>5, TempfailIsJust
  <2>2. Ends(q, n)
    BY <1>5, <2>1 DEF Ends, Statuses
  <2> QED
    BY <1>1, <2>2 DEF Deals
<1> QED
  BY <1>1, <1>3, <1>4, <1>5

\* dns_timeouts() takes the first query.
LEMMA ExpireDeals ==
  ASSUME TypeOK, QueriesKept, NEW ok \in BOOLEAN, Expire(ok)
  PROVE  \E q \in Active, n \in QueryType : Deals(q, n)
<1>1. PICK q \in Queries : q = Head(queue) /\ q \in Active
  <2>1. queue # <<>> /\ queue \in Seq(Queries)
    BY DEF Expire, TypeOK
  <2>2. 1 \in 1 .. Len(queue) /\ Head(queue) = queue[1]
    BY <2>1
  <2> QED
    BY <2>1, <2>2 DEF Active, Range
<1>2. PICK r \in QueryType : r = query[q]
  BY <1>1 DEF TypeOK
<1>3. FewSends(r) /\ EnoughSends(r) /\ NamesInTurn(q, r)
  BY <1>1, <1>2 DEF QueriesKept
<1>4. Send(q, r, ok)
  BY <1>1, <1>2 DEF Expire, Send, SendThis, EndQuery
<1> QED
  BY <1>1, <1>3, <1>4, SendDeals

\* dns_ioevent(), for every rcode.
LEMMA ReceiveDeals ==
  ASSUME TypeOK, QueriesKept, NEW m \in Replies, NEW q \in Queries, NEW i \in Ids,
         NEW ok \in BOOLEAN, Receive(m, q, i, ok)
  PROVE  q \in Active /\ \E n \in QueryType : Deals(q, n)
<1>1. q \in Active
  BY DEF Receive, Matches, Active, Range
<1> SUFFICES \E n \in QueryType : Deals(q, n)
  BY <1>1
<1> DEFINE old == query[q]
           f == m.from
<1>2. old \in QueryType /\ FewSends(old) /\ EnoughSends(old) /\ NamesInTurn(q, old)
  BY <1>1 DEF TypeOK, QueriesKept
<1>3. f \in Servers
  BY DEF Replies
<1>4. PICK r : r = [old EXCEPT !.servwait = @ \ {f}]
  OBVIOUS
<1>5. /\ r \in QueryType /\ SameName(r, old) /\ r.try = old.try /\ r.servi = old.servi
      /\ r.servskip = old.servskip /\ r.noEdns = old.noEdns /\ r.sends = old.sends
      /\ r.deadline = old.deadline
  BY <1>2, <1>4 DEF QueryType, SameName
<1>6. FewSends(r) /\ EnoughSends(r) /\ NamesInTurn(q, r)
  <2>1. \A s \in Servers : Reached(r, s) = Reached(old, s) /\ Extra(r, s) = Extra(old, s)
    BY <1>5 DEF Reached, Extra
  <2> QED
    BY <1>2, <1>5, <2>1, NamesKept DEF FewSends, EnoughSends
<1>7. CASE m.rcode = "data"
  <2>1. PICK status \in {"found", "unparsed"} : EndQuery(q, r, status, TRUE)
    <3>1. EndQuery(q, r, IF ok THEN "found" ELSE "unparsed", TRUE)
      BY <1>4, <1>7 DEF Receive, EndQuery
    <3> QED
      BY <3>1
  <2>2. Just(q, r, status, TRUE)
    BY <1>5, <1>6, FoundIsJust
  <2>3. Ends(q, r)
    BY <2>1, <2>2 DEF Ends, Statuses
  <2> QED
    BY <1>1, <1>5, <1>6, <2>3 DEF Deals
<1>8. ASSUME NEW what \in {"nodata", "nxdomain"}, m.rcode = what
      PROVE  \E n \in QueryType : Deals(q, n)
  <2> DEFINE told == Told(r, what)
             next == [NextSrch(told, i) EXCEPT !.seenNodata = @ \/ what = "nodata"]
             status == IF what = "nodata" \/ r.seenNodata THEN "NODATA" ELSE "NXDOMAIN"
  <2>1. IF Left(r) # {} THEN Send(q, next, ok) ELSE EndQuery(q, told, status, TRUE)
    <3>1. Denied(q, [query[q] EXCEPT !.servwait = @ \ {m.from}], what, i, ok)
      BY <1>8 DEF Receive
    <3>2. CASE Left(r) # {}
      <4> DEFINE now == [query[q] EXCEPT !.servwait = @ \ {m.from}]
                 then == [NextSrch(Told(now, what), i)
                           EXCEPT !.seenNodata = @ \/ what = "nodata"]
      <4>1. Left(now) # {} /\ next = then
        BY <1>4, <3>2
      <4>2. Send(q, then, ok)
        BY <3>1, <4>1 DEF Denied, Told
      <4> HIDE DEF next, then
      <4>3. Send(q, next, ok)
        BY <4>1, <4>2 DEF Send, SendThis, EndQuery
      <4> QED
        BY <3>2, <4>3
    <3>3. CASE Left(r) = {}
      <4>1. EndQuery(q, told, status, TRUE)
        BY <1>4, <3>1, <3>3 DEF Denied, Told, EndQuery
      <4> QED
        BY <3>3, <4>1
    <3> QED
      BY <3>2, <3>3
  <2>2. CASE Left(r) # {}
    <3>1. next \in QueryType /\ FewSends(next) /\ EnoughSends(next) /\ NamesInTurn(q, next)
      BY <1>5, <1>6, <2>2, NextInTurn
    <3>2. Send(q, next, ok)
      BY <2>1, <2>2
    <3> HIDE DEF next
    <3> QED
      BY <3>1, <3>2, SendDeals
  <2>3. CASE Left(r) = {}
    <3>1. told \in QueryType /\ FewSends(told)
      <4>1. /\ told \in QueryType /\ told.sends = r.sends /\ told.try = r.try
            /\ told.servi = r.servi /\ told.noEdns = r.noEdns
        BY <1>5, ToldIs
      <4> HIDE DEF told
      <4>2. \A s \in Servers : Reached(told, s) = Reached(r, s) /\ Extra(told, s) = Extra(r, s)
        BY <4>1 DEF Reached, Extra
      <4> QED
        BY <1>6, <4>1, <4>2 DEF FewSends
    <3>2. Just(q, told, status, TRUE)
      BY <1>5, <1>6, <2>3, AllDenied
    <3>3. EndQuery(q, told, status, TRUE) /\ status \in Statuses
      BY <2>1, <2>3 DEF Statuses
    <3> HIDE DEF told, status
    <3>4. Ends(q, told)
      BY <3>2, <3>3 DEF Ends
    <3> QED
      BY <3>1, <3>4 DEF Deals
  <2> QED
    BY <2>2, <2>3
<1>9. CASE m.rcode = "formerr" /\ Edns /\ f \notin r.noEdns
  <2> DEFINE plain == [r EXCEPT !.noEdns = @ \cup {f}]
  <2>1. SendThis(q, plain, f, ok)
    BY <1>4, <1>9 DEF Receive, WithoutEdns, SendThis, EndQuery
  <2>2. plain \in QueryType
    <3>1. r.noEdns \cup {f} \in SUBSET Servers
      BY <1>3, <1>5 DEF QueryType
    <3> QED
      BY <1>5, <3>1 DEF QueryType
  <2>3. /\ SameName(plain, r) /\ plain.try = r.try /\ plain.servi = r.servi
        /\ plain.servskip = r.servskip /\ plain.sends = r.sends
        /\ plain.noEdns = r.noEdns \cup {f}
    BY <1>5 DEF QueryType, SameName
  <2> HIDE DEF plain
  <2>4. /\ \A s \in Servers : Reached(plain, s) = Reached(r, s) /\ Reached(r, s) \in {0, 1}
        /\ \A s \in Servers \ {f} : Extra(plain, s) = Extra(r, s)
        /\ Extra(plain, f) = 1 /\ Extra(r, f) = 0
    BY <1>3, <1>9, <2>3 DEF Reached, Extra
  <2>5. r.try \in Nat /\ \A s \in Servers : r.sends[s] \in Nat
    BY <1>5 DEF QueryType
  <2>6. /\ plain.try < NTries
        /\ \A t \in Servers \ {f} :
             /\ plain.sends[t] <= plain.try + Reached(plain, t) + Extra(plain, t)
             /\ plain.sends[t] <= NTries + Extra(plain, t)
             /\ t \in plain.servskip \/ plain.sends[t] >= plain.try + Reached(plain, t)
    BY <1>6, <2>3, <2>4 DEF FewSends, EnoughSends
  <2>7. /\ plain.sends[f] + 1 <= plain.try + Reached(plain, f) + Extra(plain, f)
        /\ plain.sends[f] + 1 <= NTries + Extra(plain, f)
        /\ f \in plain.servskip \/ plain.sends[f] + 1 >= plain.try + Reached(plain, f)
    <3>1. /\ r.sends[f] <= r.try + Reached(r, f) + Extra(r, f)
          /\ r.sends[f] <= NTries + Extra(r, f)
          /\ f \in r.servskip \/ r.sends[f] >= r.try + Reached(r, f)
      BY <1>3, <1>6 DEF FewSends, EnoughSends
    <3> QED
      BY <1>3, <2>3, <2>4, <2>5, <3>1
  <2>8. PICK n \in QueryType :
          /\ SameName(n, plain) /\ FewSends(n)
          /\ \/ Continue(q, n) /\ EnoughSends(n)
             \/ EndQuery(q, n, "TEMPFAIL", FALSE)
    BY <1>3, <2>1, <2>2, <2>6, <2>7, SendThisKeeps
  <2>9. NamesInTurn(q, n)
    BY <1>6, <2>3, <2>8, NamesKept
  <2>10. Just(q, n, "TEMPFAIL", FALSE)
    BY <2>9, TempfailIsJust
  <2>11. CASE EndQuery(q, n, "TEMPFAIL", FALSE)
    <3>1. Ends(q, n)
      BY <2>10, <2>11 DEF Ends, Statuses
    <3>2. Deals(q, n)
      BY <2>8, <3>1 DEF Deals
    <3> QED
      BY <3>2
  <2>12. CASE Continue(q, n) /\ EnoughSends(n)
    <3>1. Deals(q, n)
      BY <2>8, <2>9, <2>12 DEF Deals
    <3> QED
      BY <3>1
  <2> QED
    BY <2>8, <2>11, <2>12
<1>10. CASE /\ m.rcode \notin {"data", "nodata", "nxdomain"}
            /\ ~(m.rcode = "formerr" /\ Edns /\ f \notin r.noEdns)
  <2> DEFINE skip == [r EXCEPT !.servskip = @ \cup {f}]
  <2>1. IF r.servwait = {} THEN Send(q, skip, ok)
        ELSE /\ query' = [query EXCEPT ![q] = skip]
             /\ UNCHANGED <<open, queue, nactive, timerVars, loop, callVars, burst>>
    <3>1. Refused(q, [query[q] EXCEPT !.servwait = @ \ {m.from}], m.from, ok)
      BY <1>4, <1>10 DEF Receive
    <3> QED
      BY <1>4, <3>1 DEF Refused, Send, SendThis, EndQuery
  <2>2. skip \in QueryType
    <3>1. r.servskip \cup {f} \in SUBSET Servers
      BY <1>3, <1>5 DEF QueryType
    <3> QED
      BY <1>5, <3>1 DEF QueryType
  <2>3. /\ SameName(skip, r) /\ skip.try = r.try /\ skip.servi = r.servi
        /\ skip.noEdns = r.noEdns /\ skip.sends = r.sends /\ skip.deadline = r.deadline
        /\ skip.servskip = r.servskip \cup {f}
    BY <1>5 DEF QueryType, SameName
  <2> HIDE DEF skip
  <2>4. \A s \in Servers : Reached(skip, s) = Reached(r, s) /\ Extra(skip, s) = Extra(r, s)
    BY <2>3 DEF Reached, Extra
  <2>5. FewSends(skip) /\ EnoughSends(skip) /\ NamesInTurn(q, skip)
    <3>1. FewSends(skip)
      BY <1>6, <2>3, <2>4 DEF FewSends
    <3>2. EnoughSends(skip)
      BY <1>6, <2>3, <2>4 DEF EnoughSends
    <3> QED
      BY <1>6, <2>3, <3>1, <3>2, NamesKept
  <2>6. CASE r.servwait = {}
    BY <2>1, <2>2, <2>5, <2>6, SendDeals
  <2>7. CASE r.servwait # {}
    <3>1. Continue(q, skip)
      BY <1>5, <2>1, <2>3, <2>7 DEF Continue
    <3>2. Deals(q, skip)
      BY <2>5, <3>1 DEF Deals
    <3> QED
      BY <2>2, <3>2
  <2> QED
    BY <2>6, <2>7
<1> QED
  BY <1>7, <1>8, <1>9, <1>10

-----------------------------------------------------------------------------
(* The invariant                                                            *)

\* Callbacks are called by the loops.
Calling == running # None => loop # "idle"

\* While the library remembers a time to come the timer is set for it; while it
\* remembers none the timer is not set; and unless dns_timeouts() runs, for which
\* the timer may have fired, "now" means that it is about to.
TimerKept ==
  utm = "set" =>
    /\ utmexp > 0 => timer = utmexp
    /\ utmexp = NoTime => timer = NoTime
    /\ utmexp = Asap /\ loop # "timeouts" => timer = 0

ResolverInv ==
  /\ TypeOK
  /\ QueueSorted
  /\ Calling
  /\ QueriesKept
  /\ TimerKept
  /\ TimerArmed

\* Expire and Receive, seen from outside.
Deal(q, n) ==
  /\ loop # "idle" /\ running = None
  /\ Deals(q, n)

\* The steps of the resolver.
LEMMA StepsOf ==
  ASSUME TypeOK, QueriesKept, [Next]_vars
  PROVE  \/ \E ok \in BOOLEAN : Open(ok)
         \/ Close \/ SetTmcbck
         \/ \E q \in Queries, way \in Ways, i \in Ids : Submit(q, way, i)
         \/ \E q \in Queries : Cancel(q)
         \/ \E q \in Active, n \in QueryType : Deal(q, n)
         \/ CallbackReturn
         \/ Timeouts \/ TimerFires \/ Ioevent
         \/ TimeoutsDone \/ IoeventDone
         \/ Tick
         \/ UNCHANGED vars
<1>1. ASSUME NEW ok \in BOOLEAN, Expire(ok)
      PROVE  \E q \in Active, n \in QueryType : Deal(q, n)
  <2>1. loop # "idle" /\ running = None
    BY <1>1 DEF Expire, Runs
  <2>2. PICK q \in Active, n \in QueryType : Deals(q, n)
    BY <1>1, ExpireDeals
  <2> QED
    BY <2>1, <2>2 DEF Deal
<1>2. ASSUME NEW m \in Replies, NEW q \in Queries, NEW i \in Ids, NEW ok \in BOOLEAN,
             Receive(m, q, i, ok)
      PROVE  \E p \in Active, n \in QueryType : Deal(p, n)
  <2>1. loop # "idle" /\ running = None
    BY <1>2 DEF Receive, Runs
  <2>2. q \in Active /\ \E n \in QueryType : Deals(q, n)
    BY <1>2, ReceiveDeals
  <2> QED
    BY <2>1, <2>2 DEF Deal
<1> QED
  BY <1>1, <1>2 DEF Next

\* The members of the list are queries.
LEMMA ActiveQueries == ASSUME TypeOK PROVE Active \subseteq Queries
BY DEF TypeOK, Active, Range

\* The list is empty when no query is active.
LEMMA EmptyQueue == ASSUME TypeOK PROVE queue = <<>> <=> Active = {}
<1>1. CASE queue = <<>>
  BY <1>1 DEF Active, Range
<1>2. CASE queue # <<>>
  <2>1. 1 \in DOMAIN queue
    BY <1>2 DEF TypeOK
  <2> QED
    BY <1>2, <2>1 DEF Active, Range
<1> QED
  BY <1>1, <1>2

\* QueueSorted in the terms of the lemmas on lists.
LEMMA ListKept ==
  ASSUME QueueSorted
  PROVE  nactive = Len(queue) /\ IsInjective(queue) /\ DueInOrder(queue, query)
BY DEF QueueSorted, DueInOrder

\* What Continue and EndQuery do to the list.
LEMMA ContinueList ==
  ASSUME TypeOK, QueueSorted, NEW q \in Active, NEW n \in QueryType, Continue(q, n)
  PROVE  /\ query' \in [Queries -> QueryType]
         /\ query'[q] = n /\ \A p \in Queries \ {q} : query'[p] = query[p]
         /\ queue' \in Seq(Queries) /\ Len(queue') = Len(queue)
         /\ IsInjective(queue') /\ Active' = Active /\ DueInOrder(queue', query')
<1>1. q \in Queries /\ queue \in Seq(Queries) /\ query \in [Queries -> QueryType]
  BY ActiveQueries DEF TypeOK
<1>2. query' = [query EXCEPT ![q] = n]
  BY DEF Continue
<1>3. /\ query' \in [Queries -> QueryType]
      /\ query'[q] = n /\ \A p \in Queries \ {q} : query'[p] = query[p]
  BY <1>1, <1>2
<1>4. IsInjective(queue) /\ DueInOrder(queue, query)
  BY ListKept
<1>5. CASE queue' = Requeue(q, queue, query')
  <2>1. q \in Range(queue)
    BY DEF Active
  <2>2. /\ Unlink(queue, q) \in Seq(Queries)
        /\ Range(Unlink(queue, q)) = Range(queue) \ {q}
    BY <1>1, <1>4, <2>1, UnlinkKeeps
  <2>3. DueInOrder(Unlink(queue, q), query)
    BY <1>1, <1>4, <2>1, UnlinkInOrder
  <2>4. \A k \in DOMAIN Unlink(queue, q) :
          query'[Unlink(queue, q)[k]] = query[Unlink(queue, q)[k]]
    BY <1>3, <2>2 DEF Range
  <2>5. DueInOrder(Unlink(queue, q), query')
    BY <2>3, <2>4 DEF DueInOrder
  <2>6. \A p \in Queries : query'[p].deadline \in Nat
    BY <1>3 DEF QueryType
  <2>7. /\ Requeue(q, queue, query') \in Seq(Queries)
        /\ Len(Requeue(q, queue, query')) = Len(queue)
        /\ IsInjective(Requeue(q, queue, query'))
        /\ Range(Requeue(q, queue, query')) = Range(queue)
        /\ DueInOrder(Requeue(q, queue, query'), query')
    BY <1>1, <1>4, <2>1, <2>5, <2>6, RequeueKeeps
  <2> QED
    BY <1>3, <1>5, <2>7 DEF Active
<1>6. CASE queue' = queue /\ n.deadline = query[q].deadline
  <2>1. \A p \in Queries : query'[p].deadline = query[p].deadline
    BY <1>3, <1>6
  <2>2. DueInOrder(queue', query')
    BY <1>1, <1>4, <1>6, <2>1 DEF DueInOrder
  <2> QED
    BY <1>1, <1>3, <1>4, <1>6, <2>2 DEF Active
<1> QED
  BY <1>5, <1>6 DEF Continue

\* The list without q, whatever q holds then.
LEMMA UnlinkedList ==
  ASSUME TypeOK, QueueSorted, NEW q \in Active, NEW n \in QueryType,
         queue' = Unlink(queue, q), query' = [query EXCEPT ![q] = n]
  PROVE  /\ query' \in [Queries -> QueryType]
         /\ query'[q] = n /\ \A p \in Queries \ {q} : query'[p] = query[p]
         /\ queue' \in Seq(Queries) /\ Len(queue') = Len(queue) - 1
         /\ Len(queue) - 1 \in Nat
         /\ IsInjective(queue') /\ Active' = Active \ {q} /\ DueInOrder(queue', query')
<1>1. q \in Queries /\ queue \in Seq(Queries) /\ query \in [Queries -> QueryType]
  BY ActiveQueries DEF TypeOK
<1>2. /\ query' \in [Queries -> QueryType]
      /\ query'[q] = n /\ \A p \in Queries \ {q} : query'[p] = query[p]
  BY <1>1
<1>3. IsInjective(queue) /\ DueInOrder(queue, query)
  BY ListKept
<1>4. q \in Range(queue)
  BY DEF Active
<1>5. /\ Unlink(queue, q) \in Seq(Queries) /\ Len(Unlink(queue, q)) = Len(queue) - 1
      /\ IsInjective(Unlink(queue, q)) /\ Range(Unlink(queue, q)) = Range(queue) \ {q}
  BY <1>1, <1>3, <1>4, UnlinkKeeps
<1>6. DueInOrder(queue', query)
  BY <1>1, <1>3, <1>4, UnlinkInOrder
<1>7. \A k \in DOMAIN queue' : query'[queue'[k]] = query[queue'[k]]
  BY <1>2, <1>5 DEF Range
<1>8. DueInOrder(queue', query')
  BY <1>6, <1>7 DEF DueInOrder
<1>9. Len(queue) - 1 \in Nat
  BY <1>5
<1> QED
  BY <1>2, <1>5, <1>8, <1>9 DEF Active

\* The list with the new query at its head.
LEMMA SubmittedList ==
  ASSUME TypeOK, QueueSorted, NEW q \in Queries \ Active, NEW n \in QueryType,
         n.deadline = 0, queue' = <<q>> \o queue, query' = [query EXCEPT ![q] = n]
  PROVE  /\ query' \in [Queries -> QueryType]
         /\ query'[q] = n /\ \A p \in Queries \ {q} : query'[p] = query[p]
         /\ queue' \in Seq(Queries) /\ Len(queue') = Len(queue) + 1
         /\ queue' # <<>> /\ Head(queue') = q
         /\ IsInjective(queue') /\ Active' = Active \cup {q} /\ DueInOrder(queue', query')
<1>1. queue \in Seq(Queries) /\ query \in [Queries -> QueryType] /\ Len(queue) \in Nat
  BY DEF TypeOK
<1>2. /\ query' \in [Queries -> QueryType]
      /\ query'[q] = n /\ \A p \in Queries \ {q} : query'[p] = query[p]
  BY <1>1
<1>3. IsInjective(queue) /\ DueInOrder(queue, query)
  BY ListKept
<1>4. /\ queue' \in Seq(Queries) /\ Len(queue') = Len(queue) + 1
      /\ queue'[1] = q /\ \A k \in 2 .. Len(queue) + 1 : queue'[k] = queue[k - 1]
  BY <1>1
<1>5. DOMAIN queue' = 1 .. Len(queue) + 1 /\ DOMAIN queue = 1 .. Len(queue)
  BY <1>1, <1>4
<1>6. \A k \in 1 .. Len(queue) : queue[k] # q /\ queue[k] \in Queries
  BY <1>1, <1>5 DEF Active, Range
<1>7. IsInjective(queue')
  <2>1. SUFFICES ASSUME NEW a \in 1 .. Len(queue) + 1, NEW b \in 1 .. Len(queue) + 1,
                        queue'[a] = queue'[b]
                 PROVE  a = b
    BY <1>5 DEF IsInjective
  <2>2. CASE a = 1 \/ b = 1
    <3>1. ASSUME NEW k \in 2 .. Len(queue) + 1 PROVE queue'[k] # q
      <4>1. k - 1 \in 1 .. Len(queue)
        BY <1>1
      <4> QED
        BY <1>4, <1>6, <4>1
    <3> QED
      BY <1>1, <1>4, <2>1, <2>2, <3>1
  <2>3. CASE a # 1 /\ b # 1
    <3>1. a - 1 \in 1 .. Len(queue) /\ b - 1 \in 1 .. Len(queue)
      BY <1>1, <2>3
    <3>2. queue[a - 1] = queue[b - 1]
      BY <1>1, <1>4, <2>1, <2>3
    <3>3. a - 1 = b - 1
      BY <1>3, <1>5, <3>1, <3>2 DEF IsInjective
    <3> QED
      BY <3>3
  <2> QED
    BY <2>2, <2>3
<1>8. DueInOrder(queue', query')
  <2>1. SUFFICES ASSUME NEW a \in 1 .. Len(queue) + 1, NEW b \in 1 .. Len(queue) + 1, a < b
                 PROVE  query'[queue'[a]].deadline <= query'[queue'[b]].deadline
    BY <1>5 DEF DueInOrder
  <2>2. b - 1 \in 1 .. Len(queue) /\ queue'[b] = queue[b - 1]
    BY <1>1, <1>4, <2>1
  <2>3. query'[queue'[b]] = query[queue[b - 1]]
    BY <1>2, <1>6, <2>2
  <2>4. CASE a = 1
    <3>1. query'[queue'[b]].deadline \in Nat
      BY <1>1, <1>6, <2>2, <2>3 DEF QueryType
    <3> QED
      BY <1>2, <1>4, <2>4, <3>1
  <2>5. CASE a # 1
    <3>1. a - 1 \in 1 .. Len(queue) /\ queue'[a] = queue[a - 1] /\ a - 1 < b - 1
      BY <1>1, <1>4, <2>1, <2>5
    <3>2. query'[queue'[a]] = query[queue[a - 1]]
      BY <1>2, <1>6, <3>1
    <3>3. query[queue[a - 1]].deadline <= query[queue[b - 1]].deadline
      BY <1>3, <1>5, <2>2, <3>1 DEF DueInOrder
    <3> QED
      BY <2>3, <3>2, <3>3
  <2> QED
    BY <2>4, <2>5
<1>9. Active' = Active \cup {q}
  <2>1. ASSUME NEW p \in Range(queue) PROVE p \in Range(queue')
    <3>1. PICK k \in 1 .. Len(queue) : queue[k] = p
      BY <1>1, RangeOf
    <3>2. k + 1 \in 1 .. Len(queue) + 1 /\ queue'[k + 1] = p
      BY <1>1, <1>4, <3>1
    <3> QED
      BY <1>5, <3>2 DEF Range
  <2>2. q \in Range(queue')
    BY <1>1, <1>4, <1>5 DEF Range
  <2>3. ASSUME NEW p \in Range(queue'), p # q PROVE p \in Range(queue)
    <3>1. PICK k \in 1 .. Len(queue) + 1 : queue'[k] = p
      BY <1>4, <1>5 DEF Range
    <3>2. k - 1 \in 1 .. Len(queue) /\ queue[k - 1] = p
      BY <1>1, <1>4, <2>3, <3>1
    <3> QED
      BY <1>5, <3>2 DEF Range
  <2> QED
    BY <2>1, <2>2, <2>3 DEF Active
<1>10. queue' # <<>> /\ Head(queue') = q
  BY <1>1, <1>4
<1> QED
  BY <1>2, <1>4, <1>7, <1>8, <1>9, <1>10

\* dns_request_utm() with deadline d
Asked(d) ==
  /\ IF utm = "unset" \/ utmexp = d
     THEN UNCHANGED <<utmexp, timer>>
     ELSE utmexp' = d /\ timer' = d
  /\ UNCHANGED utm

\* The head of a list is a query in it.
LEMMA HeadOf ==
  ASSUME NEW qs \in Seq(Queries), qs # <<>>
  PROVE  Head(qs) \in Queries /\ Head(qs) = qs[1] /\ 1 \in DOMAIN qs /\ Head(qs) \in Range(qs)
<1>1. Head(qs) \in Queries /\ Head(qs) = qs[1] /\ 1 \in DOMAIN qs
  OBVIOUS
<1> QED
  BY <1>1 DEF Range

\* After a call of the program the timer is asked for at once or not at all.
LEMMA AskedByCall ==
  ASSUME TypeOK, TimerKept, UNCHANGED loop,
         queue' \in Seq(Queries), query' \in [Queries -> QueryType],
         NEW d, d = IF queue' = <<>> THEN NoTime ELSE Asap, Asked(d)
  PROVE  /\ utm' = utm /\ utmexp' \in Int /\ timer' \in Nat \cup {NoTime}
         /\ TimerKept' /\ TimerArmed'
<1>1. utm' = utm /\ utmexp' \in Int /\ timer' \in Nat \cup {NoTime}
  BY DEF Asked, TypeOK, NoTime, Asap
<1>2. TimerKept'
  BY DEF Asked, TimerKept, NoTime, Asap, TypeOK
<1>3. TimerArmed'
  <2>1. SUFFICES ASSUME loop' = "idle", utm' = "set"
                 PROVE  IF queue' = <<>> THEN timer' = NoTime
                        ELSE timer' # NoTime /\ timer' <= query'[Head(queue')].deadline
    BY DEF TimerArmed
  <2>2. CASE queue' = <<>>
    BY <1>1, <2>1, <2>2 DEF Asked, TimerKept, NoTime, Asap
  <2>3. CASE queue' # <<>>
    <3>1. Head(queue') \in Queries
      BY <2>3, HeadOf
    <3>2. query'[Head(queue')].deadline \in Nat
      BY <3>1 DEF QueryType
    <3>3. timer' = 0
      BY <1>1, <2>1, <2>3 DEF Asked, TimerKept, NoTime, Asap
    <3> QED
      BY <2>3, <3>2, <3>3 DEF NoTime
  <2> QED
    BY <2>2, <2>3
<1> QED
  BY <1>1, <1>2, <1>3

\* A loop that ends asks for the time the first query is due.
LEMMA AskedByLoop ==
  ASSUME TypeOK, TimerKept, loop # "idle", loop' = "idle", UNCHANGED <<queue, query>>,
         NEW d, d = IF queue = <<>> THEN NoTime ELSE query[Head(queue)].deadline, Asked(d),
         loop = "timeouts" => d # 0
  PROVE  /\ utm' = utm /\ utmexp' \in Int /\ timer' \in Nat \cup {NoTime}
         /\ TimerKept' /\ TimerArmed'
<1>1. d \in Nat \cup {NoTime} /\ (d = NoTime <=> queue = <<>>)
  <2>1. CASE queue = <<>>
    BY <2>1
  <2>2. CASE queue # <<>>
    <3>1. Head(queue) \in Queries
      BY <2>2, HeadOf DEF TypeOK
    <3>2. query[Head(queue)].deadline \in Nat
      BY <3>1 DEF TypeOK, QueryType
    <3> QED
      BY <2>2, <3>2 DEF NoTime
  <2> QED
    BY <2>1, <2>2
<1>2. utm' = utm /\ utmexp' \in Int /\ timer' \in Nat \cup {NoTime}
  BY <1>1 DEF Asked, TypeOK, NoTime
<1>3. utm = "set" => timer' = d /\ utmexp' = d
  BY <1>1 DEF Asked, TimerKept, NoTime, Asap
<1>4. TimerKept'
  BY <1>2, <1>3 DEF TimerKept, NoTime, Asap
<1>5. TimerArmed'
  <2>1. SUFFICES ASSUME utm = "set"
                 PROVE  IF queue = <<>> THEN timer' = NoTime
                        ELSE timer' # NoTime /\ timer' <= query[Head(queue)].deadline
    BY <1>2 DEF TimerArmed
  <2> QED
    BY <1>1, <1>3, <2>1 DEF NoTime
<1> QED
  BY <1>2, <1>4, <1>5

\* dns_submit_dn() in those terms.
LEMMA SubmitIs ==
  ASSUME NEW q \in Queries, NEW way \in Ways, NEW i \in Ids, Submit(q, way, i)
  PROVE  \E n \in QueryType :
           /\ n.deadline = 0 /\ FewSends(n) /\ EnoughSends(n) /\ NamesInTurn(q, n)
           /\ query' = [query EXCEPT ![q] = n] /\ queue' = <<q>> \o queue
<1>1. q \in NoSearch <=> way = "nosrch"
  BY DEF Submit
<1>2. /\ Submitted(way, i) \in QueryType /\ Submitted(way, i).deadline = 0
      /\ FewSends(Submitted(way, i)) /\ EnoughSends(Submitted(way, i))
      /\ NamesInTurn(q, Submitted(way, i))
  BY <1>1, SubmitStarts
<1>3. query' = [query EXCEPT ![q] = Submitted(way, i)] /\ queue' = <<q>> \o queue
  BY DEF Submit, Submitted
<1> QED
  BY <1>2, <1>3

\* A query that is freed has been sent nowhere.
LEMMA FreedQuery == NewQuery \in QueryType /\ FewSends(NewQuery)
<1>1. NewQuery.try = 0 /\ NewQuery.servi = 0 /\ NewQuery.noEdns = {}
      /\ NewQuery.sends = [s \in Servers |-> 0]
  BY DEF NewQuery
<1>2. \A s \in Servers : Reached(NewQuery, s) = 0 /\ Extra(NewQuery, s) = 0
                        /\ NewQuery.sends[s] = 0
  BY <1>1 DEF Reached, Extra, Servers
<1> QED
  BY <1>1, <1>2, NewQueryType DEF FewSends

\* QueriesKept is a matter of the query that changes.
LEMMA OthersKept ==
  ASSUME TypeOK, QueriesKept, NEW q \in Queries,
         \A p \in Queries \ {q} : query'[p] = query[p],
         FewSends(query'[q]),
         q \in Active' => EnoughSends(query'[q]) /\ NamesInTurn(q, query'[q]),
         Active' \subseteq Active \cup {q}
  PROVE  QueriesKept'
<1>1. ASSUME NEW p \in Queries PROVE FewSends(query'[p])
  BY DEF QueriesKept
<1>2. ASSUME NEW p \in Active' PROVE EnoughSends(query'[p]) /\ NamesInTurn(p, query'[p])
  <2>1. CASE p = q
    BY <1>2, <2>1
  <2>2. CASE p # q
    <3>1. p \in Active /\ p \in Queries
      BY <1>2, <2>2, ActiveQueries
    <3>2. query'[p] = query[p]
      BY <2>2, <3>1
    <3> QED
      BY <3>1, <3>2 DEF QueriesKept
  <2> QED
    BY <2>1, <2>2
<1> QED
  BY <1>1, <1>2 DEF QueriesKept

\* Every step keeps the invariant, one lemma for each kind.
LEMMA InitInv == Init => ResolverInv
<1> SUFFICES ASSUME Init PROVE ResolverInv
  OBVIOUS
<1>1. Active = {}
  BY DEF Init, Active, Range
<1>2. TypeOK
  <2>1. queue \in Seq(Queries) /\ query \in [Queries -> QueryType]
    BY NewQueryType DEF Init
  <2>2. utmexp \in Int /\ timer \in Nat \cup {NoTime} /\ burst \in 0 .. MaxBurst
    BY DEF Init, NoTime
  <2> QED
    BY <2>1, <2>2 DEF Init, TypeOK, NoAnswer
<1>3. QueueSorted
  BY DEF Init, QueueSorted, IsInjective
<1>4. QueriesKept
  BY <1>1, FreedQuery DEF Init, QueriesKept
<1> QED
  BY <1>2, <1>3, <1>4 DEF Init, ResolverInv, Calling, TimerKept, TimerArmed

LEMMA OpenKeeps == ASSUME ResolverInv, NEW ok \in BOOLEAN, Open(ok) PROVE ResolverInv'
<1> USE DEF ResolverInv
<1>1. /\ open' \in BOOLEAN /\ UNCHANGED <<queue, nactive, query, loop, running, answer, burst>>
      /\ queue = <<>>
  BY DEF Open, QueueSorted, callVars
<1>2. /\ utm' = utm /\ utmexp' \in Int /\ timer' \in Nat \cup {NoTime}
      /\ TimerKept' /\ TimerArmed'
  <2>1. CASE ok
    <3>1. Asked(NoTime)
      BY <1>1, <2>1 DEF Open, RequestUtm, Asked
    <3> QED
      BY <1>1, <3>1, AskedByCall DEF TypeOK
  <2>2. CASE ~ok
    BY <1>1, <2>2 DEF Open, timerVars, TypeOK, TimerKept, TimerArmed
  <2> QED
    BY <2>1, <2>2
<1>3. TypeOK'
  BY <1>1, <1>2 DEF TypeOK
<1>4. QueueSorted'
  BY <1>1 DEF QueueSorted
<1>5. QueriesKept' /\ Calling'
  BY <1>1 DEF QueriesKept, Active, Calling
<1> QED
  BY <1>2, <1>3, <1>4, <1>5

LEMMA CloseKeeps == ASSUME ResolverInv, Close PROVE ResolverInv'
<1> USE DEF ResolverInv
<1>1. /\ open' = FALSE /\ queue' = <<>> /\ nactive' = 0
      /\ UNCHANGED <<loop, running, answer, burst>>
      /\ query' = [q \in Queries |-> IF q \in Active THEN NewQuery ELSE query[q]]
      /\ utm' \in {"unset", "nodata"} /\ utmexp' = NoTime /\ timer' \in Nat \cup {NoTime}
  BY DEF Close, DropUtm, callVars, TypeOK
<1>2. \A q \in Queries : query'[q] \in QueryType /\ FewSends(query'[q])
  BY <1>1, FreedQuery DEF TypeOK, QueriesKept
<1>3. query' \in [Queries -> QueryType]
  BY <1>1, <1>2
<1>4. Active' = {}
  BY <1>1 DEF Active, Range
<1>5. TypeOK'
  <2>1. queue' \in Seq(Queries) /\ utmexp' \in Int
    BY <1>1 DEF NoTime
  <2> QED
    BY <1>1, <1>3, <2>1 DEF TypeOK
<1>6. QueueSorted'
  BY <1>1 DEF QueueSorted, IsInjective
<1>7. QueriesKept' /\ Calling'
  BY <1>1, <1>2, <1>4 DEF QueriesKept, Calling
<1>8. TimerKept' /\ TimerArmed'
  BY <1>1 DEF TimerKept, TimerArmed
<1> QED
  BY <1>5, <1>6, <1>7, <1>8

LEMMA SetTmcbckKeeps == ASSUME ResolverInv, SetTmcbck PROVE ResolverInv'
<1> USE DEF ResolverInv
<1> DEFINE d == IF open /\ queue # <<>> THEN Asap ELSE NoTime
<1>1. /\ utm' = "set" /\ utmexp' = d /\ timer' = d
      /\ UNCHANGED <<open, queue, nactive, query, loop, running, answer, burst>>
  BY DEF SetTmcbck, callVars
<1>2. d = IF queue # <<>> THEN Asap ELSE NoTime
  BY DEF QueueSorted
<1>3. TypeOK'
  BY <1>1, <1>2 DEF TypeOK, Asap, NoTime
<1>4. QueueSorted'
  BY <1>1 DEF QueueSorted
<1>5. QueriesKept' /\ Calling'
  BY <1>1 DEF QueriesKept, Active, Calling
<1>6. TimerKept'
  BY <1>1, <1>2 DEF TimerKept, Asap, NoTime
<1>7. TimerArmed'
  <2>1. CASE queue = <<>>
    BY <1>1, <1>2, <2>1 DEF TimerArmed
  <2>2. CASE queue # <<>>
    <3>1. query[Head(queue)].deadline \in Nat
      BY <2>2, HeadOf DEF TypeOK, QueryType
    <3> QED
      BY <1>1, <1>2, <2>2, <3>1 DEF TimerArmed, Asap, NoTime
  <2> QED
    BY <2>1, <2>2
<1> QED
  BY <1>3, <1>4, <1>5, <1>6, <1>7

LEMMA SubmitKeeps ==
  ASSUME ResolverInv, NEW q \in Queries, NEW way \in Ways, NEW i \in Ids, Submit(q, way, i)
  PROVE  ResolverInv'
<1> USE DEF ResolverInv
<1>1. PICK n \in QueryType :
        /\ n.deadline = 0 /\ FewSends(n) /\ EnoughSends(n) /\ NamesInTurn(q, n)
        /\ query' = [query EXCEPT ![q] = n] /\ queue' = <<q>> \o queue
  BY SubmitIs
<1>2. /\ open /\ q \in Queries \ Active /\ nactive' = nactive + 1
      /\ RequestUtm(queue', FALSE) /\ UNCHANGED <<open, loop, running, answer>>
      /\ burst' = (IF loop = "idle" THEN 0 ELSE burst + 1) /\ (loop # "idle" => burst < MaxBurst)
  BY DEF Submit, callVars
<1>3. /\ query' \in [Queries -> QueryType]
      /\ query'[q] = n /\ \A p \in Queries \ {q} : query'[p] = query[p]
      /\ queue' \in Seq(Queries) /\ Len(queue') = Len(queue) + 1
      /\ queue' # <<>> /\ Head(queue') = q
      /\ IsInjective(queue') /\ Active' = Active \cup {q} /\ DueInOrder(queue', query')
  BY <1>1, <1>2, SubmittedList
<1>4. Asked(Asap)
  BY <1>2, <1>3 DEF RequestUtm, Asked
<1>5. /\ utm' = utm /\ utmexp' \in Int /\ timer' \in Nat \cup {NoTime}
      /\ TimerKept' /\ TimerArmed'
  BY <1>2, <1>3, <1>4, AskedByCall
<1>6. TypeOK'
  <2>1. burst' \in 0 .. MaxBurst /\ nactive' \in Nat
    BY <1>2 DEF TypeOK
  <2> QED
    BY <1>2, <1>3, <1>5, <2>1 DEF TypeOK
<1>7. QueueSorted'
  BY <1>2, <1>3, ListKept DEF QueueSorted, DueInOrder
<1>8. QueriesKept'
  BY <1>1, <1>3, OthersKept
<1> QED
  BY <1>2, <1>5, <1>6, <1>7, <1>8 DEF Calling

LEMMA CancelKeeps == ASSUME ResolverInv, NEW q \in Queries, Cancel(q) PROVE ResolverInv'
<1> USE DEF ResolverInv
<1>1. /\ q \in Active /\ queue' = Unlink(queue, q) /\ nactive' = nactive - 1
      /\ query' = [query EXCEPT ![q] = NewQuery]
      /\ RequestUtm(queue', FALSE) /\ UNCHANGED <<open, loop, running, answer, burst>>
  BY DEF Cancel, callVars
<1>2. /\ query' \in [Queries -> QueryType]
      /\ query'[q] = NewQuery /\ \A p \in Queries \ {q} : query'[p] = query[p]
      /\ queue' \in Seq(Queries) /\ Len(queue') = Len(queue) - 1
      /\ Len(queue) - 1 \in Nat
      /\ IsInjective(queue') /\ Active' = Active \ {q} /\ DueInOrder(queue', query')
  BY <1>1, FreedQuery, UnlinkedList
<1>3. Asked(IF queue' = <<>> THEN NoTime ELSE Asap)
  BY <1>1 DEF RequestUtm, Asked
<1>4. PICK d : d = IF queue' = <<>> THEN NoTime ELSE Asap
  OBVIOUS
<1>5. Asked(d)
  BY <1>3, <1>4 DEF Asked
<1>6. /\ utm' = utm /\ utmexp' \in Int /\ timer' \in Nat \cup {NoTime}
      /\ TimerKept' /\ TimerArmed'
  BY <1>1, <1>2, <1>4, <1>5, AskedByCall
<1>7. TypeOK'
  BY <1>1, <1>2, <1>6, ListKept DEF TypeOK
<1>8. QueueSorted'
  <2>1. open
    BY <1>1, EmptyQueue DEF QueueSorted
  <2> QED
    BY <1>1, <1>2, <2>1, ListKept DEF QueueSorted, DueInOrder
<1>9. QueriesKept'
  BY <1>2, FreedQuery, OthersKept, ActiveQueries
<1> QED
  BY <1>1, <1>6, <1>7, <1>8, <1>9 DEF Calling

LEMMA DealKeeps ==
  ASSUME ResolverInv, NEW q \in Active, NEW n \in QueryType, Deal(q, n)
  PROVE  ResolverInv'
<1> USE DEF ResolverInv
<1>1. q \in Queries /\ open /\ loop # "idle" /\ FewSends(n)
  BY ActiveQueries, EmptyQueue DEF QueueSorted, Deal, Deals
<1>2. CASE Continue(q, n) /\ EnoughSends(n) /\ NamesInTurn(q, n)
  <2>1. UNCHANGED <<open, nactive, utm, utmexp, timer, loop, running, answer, burst>>
    BY <1>2 DEF Continue, timerVars, callVars
  <2>2. /\ query' \in [Queries -> QueryType]
        /\ query'[q] = n /\ \A p \in Queries \ {q} : query'[p] = query[p]
        /\ queue' \in Seq(Queries) /\ Len(queue') = Len(queue)
        /\ IsInjective(queue') /\ Active' = Active /\ DueInOrder(queue', query')
    BY <1>2, ContinueList
  <2>3. TypeOK'
    BY <2>1, <2>2 DEF TypeOK
  <2>4. QueueSorted'
    BY <1>1, <2>1, <2>2, ListKept DEF QueueSorted, DueInOrder
  <2>5. QueriesKept'
    BY <1>1, <1>2, <2>2, OthersKept
  <2>6. Calling' /\ TimerKept' /\ TimerArmed'
    BY <1>1, <2>1 DEF Calling, TimerKept, TimerArmed
  <2> QED
    BY <2>3, <2>4, <2>5, <2>6
<1>3. CASE Ends(q, n)
  <2>1. PICK status \in Statuses, sent \in BOOLEAN : EndQuery(q, n, status, sent)
    BY <1>3 DEF Ends
  <2>2. /\ queue' = Unlink(queue, q) /\ nactive' = nactive - 1
        /\ query' = [query EXCEPT ![q] = n]
        /\ running' = q /\ answer' = [status |-> status, sent |-> sent]
        /\ UNCHANGED <<open, utm, utmexp, timer, loop, burst>>
    BY <2>1 DEF EndQuery, timerVars
  <2>3. /\ query' \in [Queries -> QueryType]
        /\ query'[q] = n /\ \A p \in Queries \ {q} : query'[p] = query[p]
        /\ queue' \in Seq(Queries) /\ Len(queue') = Len(queue) - 1
        /\ Len(queue) - 1 \in Nat
        /\ IsInjective(queue') /\ Active' = Active \ {q} /\ DueInOrder(queue', query')
    BY <2>2, UnlinkedList
  <2>4. TypeOK'
    BY <1>1, <2>2, <2>3, ListKept DEF TypeOK, Statuses
  <2>5. QueueSorted'
    BY <1>1, <2>2, <2>3, ListKept DEF QueueSorted, DueInOrder
  <2>6. QueriesKept'
    BY <1>1, <2>3, OthersKept
  <2>7. Calling' /\ TimerKept' /\ TimerArmed'
    BY <1>1, <2>2 DEF Calling, TimerKept, TimerArmed
  <2> QED
    BY <2>4, <2>5, <2>6, <2>7
<1> QED
  BY <1>2, <1>3 DEF Deal, Deals

LEMMA ReturnKeeps == ASSUME ResolverInv, CallbackReturn PROVE ResolverInv'
<1> USE DEF ResolverInv
<1>1. PICK q \in Queries : q = running
  BY DEF CallbackReturn, TypeOK
<1>2. PICK n : n = IF q \in Active THEN query[q] ELSE NewQuery
  OBVIOUS
<1>3. n \in QueryType /\ FewSends(n)
  BY <1>2, FreedQuery DEF TypeOK, QueriesKept
<1>4. /\ running' = None /\ answer' = NoAnswer /\ loop # "idle"
      /\ query' = [query EXCEPT ![q] = n]
      /\ UNCHANGED <<open, queue, nactive, utm, utmexp, timer, loop, burst>>
  BY <1>1, <1>2 DEF CallbackReturn, timerVars, Calling
<1>5. /\ query' \in [Queries -> QueryType]
      /\ query'[q] = n /\ \A p \in Queries \ {q} : query'[p] = query[p]
      /\ \A p \in Active : query'[p] = query[p]
  BY <1>2, <1>3, <1>4, ActiveQueries DEF TypeOK
<1>6. TypeOK'
  BY <1>4, <1>5 DEF TypeOK, NoAnswer
<1>7. QueueSorted'
  <2>1. \A k \in DOMAIN queue : query'[queue[k]] = query[queue[k]]
    BY <1>5 DEF Active, Range
  <2> QED
    BY <1>4, <2>1 DEF QueueSorted
<1>8. QueriesKept'
  <2>1. Active' = Active
    BY <1>4 DEF Active
  <2>2. q \in Active => EnoughSends(query'[q]) /\ NamesInTurn(q, query'[q])
    BY <1>5 DEF QueriesKept
  <2> QED
    BY <1>3, <1>5, <2>1, <2>2, OthersKept
<1>9. Calling' /\ TimerKept' /\ TimerArmed'
  BY <1>4 DEF Calling, TimerKept, TimerArmed
<1> QED
  BY <1>6, <1>7, <1>8, <1>9

LEMMA EnterKeeps == ASSUME ResolverInv, Timeouts \/ TimerFires \/ Ioevent PROVE ResolverInv'
<1> USE DEF ResolverInv
<1>1. /\ UNCHANGED <<open, queue, nactive, query, utm, utmexp, running, answer, burst>>
      /\ loop = "idle"
      /\ \/ loop' = "timeouts" /\ timer' = timer
         \/ loop' = "timeouts" /\ timer = 0 /\ timer' = NoTime
         \/ loop' = "ioevent" /\ timer' = timer
  BY DEF Timeouts, TimerFires, Ioevent, Enter, callVars
<1>2. TypeOK'
  BY <1>1 DEF TypeOK
<1>3. QueueSorted'
  BY <1>1 DEF QueueSorted
<1>4. QueriesKept'
  BY <1>1 DEF QueriesKept, Active
<1>5. Calling' /\ TimerArmed'
  BY <1>1 DEF Calling, TimerArmed
<1>6. TimerKept'
  BY <1>1 DEF TimerKept, NoTime, Asap, TypeOK
<1> QED
  BY <1>2, <1>3, <1>4, <1>5, <1>6

LEMMA LeaveKeeps == ASSUME ResolverInv, TimeoutsDone \/ IoeventDone PROVE ResolverInv'
<1> USE DEF ResolverInv
<1> DEFINE due == IF queue = <<>> THEN NoTime ELSE query[Head(queue)].deadline
<1>1. /\ UNCHANGED <<open, queue, nactive, query, running, answer>>
      /\ loop # "idle" /\ loop' = "idle" /\ running = None /\ burst' = 0
      /\ RequestUtm(queue, TRUE)
  BY DEF TimeoutsDone, IoeventDone, Leave, Runs, callVars
<1>2. loop = "timeouts" => due # 0
  <2>1. SUFFICES ASSUME loop = "timeouts" PROVE due # 0
    OBVIOUS
  <2>2. queue # <<>> => query[Head(queue)].deadline > 0
    BY <2>1 DEF TimeoutsDone, IoeventDone, Runs
  <2> QED
    BY <2>2 DEF NoTime
<1>3. PICK d : d = due
  OBVIOUS
<1>4. Asked(d)
  BY <1>1, <1>3 DEF RequestUtm, Asked
<1>5. /\ utm' = utm /\ utmexp' \in Int /\ timer' \in Nat \cup {NoTime}
      /\ TimerKept' /\ TimerArmed'
  BY <1>1, <1>2, <1>3, <1>4, AskedByLoop
<1>6. TypeOK'
  BY <1>1, <1>5 DEF TypeOK
<1>7. QueueSorted'
  BY <1>1 DEF QueueSorted
<1>8. QueriesKept' /\ Calling'
  BY <1>1 DEF QueriesKept, Active, Calling
<1> QED
  BY <1>5, <1>6, <1>7, <1>8

\* Time passes for all alike.
Less(t) == IF t > 0 THEN t - 1 ELSE t

LEMMA TickKeeps == ASSUME ResolverInv, Tick PROVE ResolverInv'
<1> USE DEF ResolverInv
<1>1. /\ loop = "idle"
      /\ query' = [q \in Queries |-> [query[q] EXCEPT !.deadline = Less(@)]]
      /\ timer' = Less(timer) /\ utmexp' = IF utmexp = 1 THEN Past ELSE Less(utmexp)
      /\ UNCHANGED <<open, queue, nactive, utm, loop, running, answer, burst>>
  BY DEF Tick, Less, callVars
<1>2. ASSUME NEW q \in Queries
      PROVE  /\ query'[q] \in QueryType /\ query'[q].deadline = Less(query[q].deadline)
             /\ query[q].deadline \in Nat
             /\ SameName(query'[q], query[q])
             /\ query'[q].sends = query[q].sends /\ query'[q].try = query[q].try
             /\ query'[q].servi = query[q].servi /\ query'[q].noEdns = query[q].noEdns
             /\ query'[q].servskip = query[q].servskip
  <2>1. query'[q] = [query[q] EXCEPT !.deadline = Less(@)] /\ query[q] \in QueryType
    BY <1>1 DEF TypeOK
  <2>2. query[q].deadline \in Nat /\ Less(query[q].deadline) \in Nat
    BY <2>1 DEF Less, QueryType
  <2> QED
    BY <2>1, <2>2 DEF QueryType, SameName
<1>3. query' \in [Queries -> QueryType]
  <2>1. DOMAIN query' = Queries /\ query' = [q \in Queries |-> query'[q]]
    BY <1>1
  <2> QED
    BY <1>2, <2>1
<1>4. TypeOK'
  BY <1>1, <1>3 DEF TypeOK, Less, Past, NoTime
<1>5. QueueSorted'
  <2>1. ASSUME NEW j \in DOMAIN queue, NEW k \in DOMAIN queue, j < k
        PROVE  query'[queue[j]].deadline <= query'[queue[k]].deadline
    <3>1. query[queue[j]].deadline <= query[queue[k]].deadline
      BY <2>1 DEF QueueSorted
    <3>2. queue[j] \in Queries /\ queue[k] \in Queries
      BY DEF TypeOK
    <3> QED
      BY <1>2, <3>1, <3>2 DEF Less
  <2> QED
    BY <1>1, <2>1 DEF QueueSorted
<1>6. QueriesKept'
  <2>1. ASSUME NEW q \in Queries
        PROVE  /\ FewSends(query'[q])
               /\ EnoughSends(query[q]) => EnoughSends(query'[q])
               /\ NamesInTurn(q, query[q]) => NamesInTurn(q, query'[q])
    <3>1. \A s \in Servers : /\ Reached(query'[q], s) = Reached(query[q], s)
                             /\ Extra(query'[q], s) = Extra(query[q], s)
      BY <1>2 DEF Reached, Extra
    <3>2. FewSends(query[q])
      BY DEF QueriesKept
    <3>3. FewSends(query'[q])
      BY <1>2, <3>1, <3>2 DEF FewSends
    <3>4. EnoughSends(query[q]) => EnoughSends(query'[q])
      BY <1>2, <3>1 DEF EnoughSends
    <3>5. NamesInTurn(q, query[q]) => NamesInTurn(q, query'[q])
      BY <1>2, NamesKept
    <3> QED
      BY <3>3, <3>4, <3>5
  <2>2. Active' = Active /\ Active \subseteq Queries
    BY <1>1, ActiveQueries DEF Active
  <2> QED
    BY <2>1, <2>2 DEF QueriesKept
<1>7. Calling' /\ TimerKept'
  BY <1>1 DEF Calling, TimerKept, TypeOK, Less, Past, NoTime, Asap
<1>8. TimerArmed'
  <2>1. SUFFICES ASSUME utm = "set"
                 PROVE  IF queue = <<>> THEN timer' = NoTime
                        ELSE timer' # NoTime /\ timer' <= query'[Head(queue)].deadline
    BY <1>1 DEF TimerArmed
  <2>2. CASE queue = <<>>
    BY <1>1, <2>1, <2>2 DEF TimerArmed, Less, NoTime
  <2>3. CASE queue # <<>>
    <3>1. Head(queue) \in Queries
      BY <2>3, HeadOf DEF TypeOK
    <3>2. timer \in Nat /\ timer <= query[Head(queue)].deadline
      BY <1>1, <2>1, <2>3 DEF TimerArmed, TypeOK
    <3> DEFINE h == query[Head(queue)].deadline
               hh == query'[Head(queue)].deadline
    <3>3. hh = Less(h) /\ h \in Nat /\ timer \in Nat /\ timer <= h
      BY <1>2, <3>1, <3>2
    <3>4. timer' = Less(timer)
      BY <1>1
    <3>5. timer' # NoTime /\ timer' <= hh
      <4> HIDE DEF h, hh
      <4> QED
        BY <3>3, <3>4 DEF Less, NoTime
    <3> QED
      BY <2>3, <3>5
  <2> QED
    BY <2>2, <2>3
<1> QED
  BY <1>4, <1>5, <1>6, <1>7, <1>8

LEMMA StutterKeeps == ASSUME ResolverInv, UNCHANGED vars PROVE ResolverInv'
BY DEF ResolverInv, vars, TypeOK, QueueSorted, Calling, QueriesKept, Active, TimerKept, TimerArmed

LEMMA InvNext == ResolverInv /\ [Next]_vars => ResolverInv'
<1> SUFFICES ASSUME ResolverInv, [Next]_vars PROVE ResolverInv'
  OBVIOUS
<1>1. TypeOK /\ QueriesKept
  BY DEF ResolverInv
<1> QED
  BY <1>1, StepsOf, OpenKeeps, CloseKeeps, SetTmcbckKeeps, SubmitKeeps, CancelKeeps, DealKeeps,
     ReturnKeeps, EnterKeeps, LeaveKeeps, TickKeeps, StutterKeeps

-----------------------------------------------------------------------------
(* The theorems                                                             *)

\* The invariant of udns_resolver.c: the list, the callbacks, each query and the timer.
THEOREM ResolverInvariant == Spec => []ResolverInv
BY InitInv, InvNext, PTL DEF Spec

\* dns_ctx and each dns_query hold values of their types.
THEOREM TypeCorrect == Spec => []TypeOK
BY ResolverInvariant, PTL DEF ResolverInv

\* qlist_remove(), qlist_add_head() and qlist_insert_after() keep dnsc_qactive sorted,
\* counted and free of duplicates.
THEOREM QueueIsSorted == Spec => []QueueSorted
BY ResolverInvariant, PTL DEF ResolverInv

\* dns_request_utm() never leaves the program without the timer it needs.
THEOREM TimerIsArmed == Spec => []TimerArmed
BY ResolverInvariant, PTL DEF ResolverInv

\* dns_send() and the retry without EDNS0 ask no server more often than they may.
THEOREM SendsAreBounded == Spec => []SendsBounded
<1>1. ResolverInv => SendsBounded
  <2>1. SUFFICES ASSUME ResolverInv, NEW q \in Queries, NEW s \in Servers
                 PROVE  query[q].sends[s] <= NTries + 1
    BY DEF SendsBounded
  <2>2. query[q].sends[s] <= NTries + Extra(query[q], s)
    BY <2>1 DEF ResolverInv, QueriesKept, FewSends
  <2>3. query[q].sends[s] \in Nat
    BY <2>1 DEF ResolverInv, TypeOK, QueryType
  <2> QED
    BY <2>2, <2>3 DEF Extra
<1> QED
  BY <1>1, ResolverInvariant, PTL

\* A callback begins only where a query comes to its end, with a status that is just.
LEMMA AnswersAreJust ==
  ASSUME ResolverInv, [Next]_vars, Answers
  PROVE  \E q \in Queries, status \in Statuses, sent \in BOOLEAN, n \in QueryType :
           /\ running' = q /\ query'[q] = n
           /\ answer' = [status |-> status, sent |-> sent]
           /\ Just(q, n, status, sent)
<1>0. TypeOK /\ QueriesKept
  BY DEF ResolverInv
<1>1. PICK q \in Active, n \in QueryType : Deal(q, n)
  <2>1. \/ running' = running \/ running' = None
        \/ \E q \in Active, n \in QueryType : Deal(q, n)
    BY <1>0, StepsOf
       DEF Open, Close, SetTmcbck, Submit, Cancel, CallbackReturn, Timeouts, TimerFires, Ioevent,
           Enter, TimeoutsDone, IoeventDone, Leave, Tick, vars, callVars
  <2> QED
    BY <2>1 DEF Answers
<1>2. Ends(q, n)
  BY <1>1 DEF Deal, Deals, Continue, callVars, Answers
<1>3. PICK status \in Statuses, sent \in BOOLEAN :
        EndQuery(q, n, status, sent) /\ Just(q, n, status, sent)
  BY <1>2 DEF Ends
<1>4. q \in Queries /\ query'[q] = n
  BY <1>0, <1>3, ActiveQueries DEF EndQuery, TypeOK
<1> QED
  BY <1>3, <1>4 DEF EndQuery

\* dns_next_srch() leaves no name out, and the status says what the servers said.
THEOREM VerdictIsEarned == Spec => Verdict
<1>1. ASSUME ResolverInv, [Next]_vars, Answers
      PROVE  LET r == query'[running']
                 names == IF running' \in NoSearch THEN {AsIs} ELSE Elements \ TooLong
                 before == IF r.dn = AsIs /\ r.nxtsrch <= NSrch THEN {}
                           ELSE (0 .. r.dn - 1) \ TooLong
                 Denials(what) == {e \in names : r.denied[e] = what}
             IN  CASE answer'.status \in {"found", "unparsed"} ->
                        before \subseteq names \ Denials("no") /\ r.dn \in Denials("no")
                   [] answer'.status = "NXDOMAIN" -> names = Denials("nxdomain")
                   [] answer'.status = "NODATA" -> Denials("no") = {} /\ Denials("nodata") # {}
                   [] answer'.status = "TEMPFAIL" -> r.dn \in Denials("no")
  <2>1. PICK q \in Queries, status \in Statuses, sent \in BOOLEAN, n \in QueryType :
          /\ running' = q /\ query'[q] = n
          /\ answer' = [status |-> status, sent |-> sent]
          /\ Just(q, n, status, sent)
    BY <1>1, AnswersAreJust
  <2> DEFINE names == Names(q)
             before == IF n.dn = AsIs /\ n.nxtsrch <= NSrch THEN {}
                       ELSE (0 .. n.dn - 1) \ TooLong
             Denials(what) == {e \in names : n.denied[e] = what}
  <2>2. status \in {"found", "unparsed"} =>
          before \subseteq names \ Denials("no") /\ n.dn \in Denials("no")
    <3>1. SUFFICES ASSUME status \in {"found", "unparsed"}
                   PROVE  before \subseteq names \ Denials("no") /\ n.dn \in Denials("no")
      OBVIOUS
    <3>2. n.dn \in Denials("no")
      BY <2>1, <3>1 DEF Just
    <3>3. ASSUME NEW e \in before PROVE e \in names \ Denials("no")
      <4>1. n.dn \in 0 .. NSrch
        BY DEF QueryType, Elements
      <4>2. e \in Elements \ TooLong /\ e < n.dn /\ ~(n.dn = AsIs /\ n.nxtsrch <= NSrch)
        BY <4>1, <3>3 DEF Elements
      <4> QED
        BY <2>1, <3>1, <4>2 DEF Just
    <3> QED
      BY <3>2, <3>3
  <2>3. status = "NXDOMAIN" => names = Denials("nxdomain")
    BY <2>1 DEF Just
  <2>4. status = "NODATA" => Denials("no") = {} /\ Denials("nodata") # {}
    BY <2>1 DEF Just
  <2>5. status = "TEMPFAIL" => n.dn \in Denials("no")
    BY <2>1 DEF Just
  <2>6. answer'.status = status /\ running' = q /\ query'[running'] = n
    BY <2>1
  <2> QED
    BY <2>2, <2>3, <2>4, <2>5, <2>6 DEF Statuses, Names
<1> QED
  BY <1>1, ResolverInvariant, PTL DEF Spec, Verdict

\* dns_send() gives up only when every server was asked in every try or refused.
THEOREM TempfailIsEarned == Spec => TempfailEarned
<1>1. ASSUME ResolverInv, [Next]_vars, Answers,
             answer' = [status |-> "TEMPFAIL", sent |-> TRUE]
      PROVE  \A s \in Servers : \/ s \in query'[running'].servskip
                                \/ query'[running'].sends[s] >= NTries
  <2>1. PICK q \in Queries, status \in Statuses, sent \in BOOLEAN, n \in QueryType :
          /\ running' = q /\ query'[q] = n
          /\ answer' = [status |-> status, sent |-> sent]
          /\ Just(q, n, status, sent)
    BY <1>1, AnswersAreJust
  <2>2. status = "TEMPFAIL" /\ sent = TRUE
    BY <1>1, <2>1
  <2>3. Earned(n)
    BY <2>1, <2>2 DEF Just
  <2> QED
    BY <2>1, <2>3 DEF Earned
<1> QED
  BY <1>1, ResolverInvariant, PTL DEF Spec, TempfailEarned

\* Each query is answered once, by one callback at a time: the resolver implements
\* ResolverService.
THEOREM AnsweredOnce == Spec => OneAnswer
<1>1. Init => Service!Init
  BY DEF Init, Service!Init, Active, Range
<1>2. ASSUME ResolverInv, [Next]_vars PROVE [Service!Next]_(Service!vars)
  <2>0. TypeOK /\ QueueSorted /\ QueriesKept /\ Calling
    BY <1>2 DEF ResolverInv
  <2>1. ASSUME NEW q \in Queries, NEW way \in Ways, NEW i \in Ids, Submit(q, way, i)
        PROVE  Service!Submit(q)
    <3>1. PICK n \in QueryType :
            n.deadline = 0 /\ query' = [query EXCEPT ![q] = n] /\ queue' = <<q>> \o queue
      BY <2>1, SubmitIs
    <3>2. q \notin Active /\ running' = running
      BY <2>1 DEF Submit, callVars
    <3>3. Active' = Active \cup {q}
      BY <2>0, <3>1, <3>2, SubmittedList
    <3> QED
      BY <3>2, <3>3 DEF Service!Submit
  <2>2. ASSUME NEW q \in Queries, Cancel(q) PROVE Service!Cancel(q)
    <3>1. q \in Active /\ queue' = Unlink(queue, q) /\ query' = [query EXCEPT ![q] = NewQuery]
          /\ running' = running
      BY <2>2 DEF Cancel, callVars
    <3>2. Active' = Active \ {q}
      BY <2>0, <3>1, FreedQuery, UnlinkedList
    <3> QED
      BY <3>1, <3>2 DEF Service!Cancel
  <2>3. ASSUME NEW q \in Active, NEW n \in QueryType, Deal(q, n)
        PROVE  Service!Answer(q) \/ UNCHANGED Service!vars
    <3>1. CASE Continue(q, n)
      <4>1. Active' = Active
        BY <2>0, <3>1, ContinueList
      <4> QED
        BY <3>1, <4>1 DEF Continue, callVars, Service!vars
    <3>2. CASE Ends(q, n)
      <4>1. queue' = Unlink(queue, q) /\ query' = [query EXCEPT ![q] = n] /\ running' = q
        BY <3>2 DEF Ends, EndQuery
      <4>2. Active' = Active \ {q}
        BY <2>0, <4>1, UnlinkedList
      <4> QED
        BY <2>3, <4>1, <4>2 DEF Deal, Service!Answer
    <3> QED
      BY <2>3, <3>1, <3>2 DEF Deal, Deals
  <2>4. CASE Close
    <3>1. queue' = <<>> /\ running = None /\ running' = running
      BY <2>0, <2>4 DEF Close, Calling, callVars
    <3> QED
      BY <3>1 DEF Service!Next, Service!Close, Active, Range
  <2>5. CASE CallbackReturn
    <3>1. running # None /\ running' = None /\ Active' = Active
      BY <2>5 DEF CallbackReturn, Active
    <3> QED
      BY <3>1 DEF Service!Next, Service!Return
  <2>6. CASE \/ \E ok \in BOOLEAN : Open(ok)
             \/ SetTmcbck \/ Timeouts \/ TimerFires \/ Ioevent \/ TimeoutsDone \/ IoeventDone
             \/ Tick \/ UNCHANGED vars
    <3>1. queue' = queue /\ running' = running
      BY <2>6 DEF Open, SetTmcbck, Timeouts, TimerFires, Ioevent, Enter, TimeoutsDone,
                  IoeventDone, Leave, Tick, vars, callVars
    <3> QED
      BY <3>1 DEF Service!vars, Active
  <2> QED
    BY <1>2, <2>0, <2>1, <2>2, <2>3, <2>4, <2>5, <2>6, StepsOf, ActiveQueries DEF Service!Next
<1> QED
  BY <1>1, <1>2, ResolverInvariant, PTL DEF Spec, OneAnswer, Service!Spec
=============================================================================
