----------------------------- MODULE HashProofs -----------------------------
(***************************************************************************)
(* Proofs about Hash, for every set of elements, every hash function and   *)
(* every size of tables and filters: HASH_FSCK never finds anything wrong, *)
(* HASH_FIND finds exactly what was added and not deleted, and each        *)
(* operation does to the order of the application what it is to do.        *)
(*                                                                         *)
(* A table is related to the sequence of its elements (HashIs), and each   *)
(* operation on the table to one on the sequence.  What ListProofs has on  *)
(* loops, on sequences and on the merge sort, which is that of utlist.h,   *)
(* is used here; nothing of it is about the lists themselves.              *)
(***************************************************************************)
EXTENDS Hash, ListProofs

-----------------------------------------------------------------------------
(* Lists                                                                    *)

Links == [Elts -> Elts \cup {Null}]

\* links with the one of e set to x.
With(links, e, x) == [links EXCEPT ![e] = x]

\* The elements of s, no two of them the same, are linked both ways in their order.
Listed(first, next, prev, s) ==
  /\ s \in Seq(Elts) /\ Distinct(s)
  /\ first = IF s = << >> THEN Null ELSE s[1]
  /\ \A i \in 1 .. Len(s) : /\ next[s[i]] = IF i < Len(s) THEN s[i + 1] ELSE Null
                            /\ prev[s[i]] = IF 1 < i THEN s[i - 1] ELSE Null

\* A list is read as it is linked.
LEMMA ListedFollow ==
  ASSUME NEW first, NEW next, NEW prev, NEW s, Listed(first, next, prev, s)
  PROVE  Follow(next, first, Null, Cardinality(Elts) + 1) = s
<1>1. s \in Seq(Elts) /\ Distinct(s)
  BY DEF Listed
<1>2. \A i \in 1 .. Len(s) : s[i] # Null /\ next[s[i]] = IF i < Len(s) THEN s[i + 1] ELSE Null
  BY <1>1, ElementOfSeq, HashAssumption DEF Listed
<1>3. Cardinality(Elts) + 1 \in Nat /\ Len(s) <= Cardinality(Elts) + 1
  BY <1>1, LengthBound, HashAssumption
<1>4. first = IF s = << >> THEN Null ELSE s[1]
  BY DEF Listed
<1>5. LinkedTo(next, first, Null, s)
  BY <1>2, <1>4 DEF LinkedTo
<1> QED
  BY <1>1, <1>3, <1>5, FollowIs

\* Other links of other elements change nothing.
LEMMA ListedFrame ==
  ASSUME NEW first, NEW next, NEW prev, NEW s, Listed(first, next, prev, s), NEW next2, NEW prev2,
         \A e \in ToSet(s) : next2[e] = next[e] /\ prev2[e] = prev[e]
  PROVE  Listed(first, next2, prev2, s)
<1>1. s \in Seq(Elts)
  BY DEF Listed
<1>2. \A i \in 1 .. Len(s) : s[i] \in ToSet(s)
  BY <1>1, ElementsOf
<1> QED
  BY <1>2 DEF Listed

\* The empty list.
LEMMA ListedEmpty ==
  ASSUME NEW next, NEW prev
  PROVE  Listed(Null, next, prev, << >>) /\ ToSet(<< >>) = {}
BY EmptySeq DEF Listed, Distinct, ToSet

\* An element comes first.
LEMMA ListedPush ==
  ASSUME NEW first, NEW next \in Links, NEW prev \in Links, NEW s, Listed(first, next, prev, s),
         NEW e \in Elts, e \notin ToSet(s)
  PROVE  /\ Listed(e, With(next, e, first), Link(With(prev, e, Null), first, e), <<e>> \o s)
         /\ Len(<<e>> \o s) = Len(s) + 1
         /\ ToSet(<<e>> \o s) = ToSet(s) \cup {e}
<1> DEFINE t == <<e>> \o s
           nx == [next EXCEPT ![e] = first]
           pv == Link([prev EXCEPT ![e] = Null], first, e)
<1>1. s \in Seq(Elts) /\ Len(s) \in Nat
  BY LenProperties DEF Listed
<1>2. <<e>> \in Seq(Elts) /\ Len(<<e>>) = 1 /\ <<e>>[1] = e
  OBVIOUS
<1>3. /\ t \in Seq(Elts) /\ Len(t) = Len(s) + 1 /\ t[1] = e
      /\ \A i \in 1 .. Len(s) : t[i + 1] = s[i]
  <2>1. /\ t \in Seq(Elts) /\ Len(t) = Len(<<e>>) + Len(s)
        /\ \A i \in 1 .. Len(<<e>>) + Len(s) : t[i] = IF i <= Len(<<e>>) THEN <<e>>[i] ELSE s[i - Len(<<e>>)]
    BY <1>1, <1>2, ConcatProperties
  <2> HIDE DEF t
  <2> QED
    BY <1>1, <1>2, <2>1
<1>4. \A i \in 1 .. Len(t) : i = 1 \/ (i - 1 \in 1 .. Len(s) /\ t[i] = s[i - 1])
  <2> HIDE DEF t
  <2> TAKE i \in 1 .. Len(t)
  <2>1. i # 1 => i - 1 \in 1 .. Len(s) /\ (i - 1) + 1 = i
    BY <1>1, <1>3
  <2> QED
    BY <1>3, <2>1
<1>5. \A i \in 1 .. Len(s) : s[i] \in Elts /\ s[i] # e
  BY <1>1, ElementsOf, ElementOfSeq
<1>6. ToSet(t) = ToSet(s) \cup {e}
  <2> HIDE DEF t
  <2>1. \A x : x \in ToSet(t) <=> \E i \in 1 .. Len(t) : t[i] = x
    BY <1>3, ElementsOf
  <2>2. \A x : x \in ToSet(s) <=> \E i \in 1 .. Len(s) : s[i] = x
    BY <1>1, ElementsOf
  <2>3. 1 \in 1 .. Len(t) /\ \A i \in 1 .. Len(s) : i + 1 \in 1 .. Len(t)
    BY <1>1, <1>3
  <2> QED
    BY <1>3, <1>4, <2>1, <2>2, <2>3
<1>7. Distinct(t)
  <2> HIDE DEF t
  <2>1. ASSUME NEW i \in 1 .. Len(t), NEW j \in 1 .. Len(t), t[i] = t[j] PROVE i = j
    <3>1. CASE i = 1 \/ j = 1
      BY <1>3, <1>4, <1>5, <2>1, <3>1
    <3>2. CASE i # 1 /\ j # 1
      <4>1. i - 1 \in 1 .. Len(s) /\ j - 1 \in 1 .. Len(s) /\ s[i - 1] = s[j - 1]
        BY <1>4, <2>1, <3>2
      <4>2. i - 1 = j - 1
        BY <4>1 DEF Listed, Distinct
      <4> QED
        BY <4>2
    <3> QED
      BY <3>1, <3>2
  <2> QED
    BY <2>1 DEF Distinct
<1>8. first # Null => 1 \in 1 .. Len(s) /\ first = s[1]
  BY <1>1, EmptySeq DEF Listed
<1>9. \A i \in 1 .. Len(t) : nx[t[i]] = IF i < Len(t) THEN t[i + 1] ELSE Null
  <2> HIDE DEF t
  <2> TAKE i \in 1 .. Len(t)
  <2>1. CASE i = 1
    <3>1. nx[e] = first
      BY DEF Links
    <3>2. s = << >> => Len(s) = 0
      BY EmptySeq
    <3>3. s # << >> => 1 \in 1 .. Len(s) /\ t[1 + 1] = s[1] /\ 1 < Len(t)
      BY <1>1, <1>3, EmptySeq
    <3> QED
      BY <1>3, <2>1, <3>1, <3>2, <3>3 DEF Listed
  <2>2. CASE i # 1
    <3>1. i - 1 \in 1 .. Len(s) /\ t[i] = s[i - 1]
      BY <1>4, <2>2
    <3>2. nx[s[i - 1]] = next[s[i - 1]]
      BY <3>1, <1>5 DEF Links
    <3>3. next[s[i - 1]] = IF i - 1 < Len(s) THEN s[(i - 1) + 1] ELSE Null
      BY <3>1 DEF Listed
    <3>4. i - 1 < Len(s) => i \in 1 .. Len(s) /\ t[i + 1] = s[(i - 1) + 1]
      BY <1>1, <1>3, <3>1
    <3> QED
      BY <1>1, <1>3, <3>1, <3>2, <3>3, <3>4
  <2> QED
    BY <2>1, <2>2
<1>10. \A i \in 1 .. Len(t) : pv[t[i]] = IF 1 < i THEN t[i - 1] ELSE Null
  <2> HIDE DEF t
  <2>1. \A x \in Elts : pv[x] = IF x = first THEN e ELSE IF x = e THEN Null ELSE prev[x]
    BY <1>8, <1>5, HashAssumption DEF Link, Links
  <2> HIDE DEF pv
  <2>2. first # e
    BY <1>5, <1>8, HashAssumption
  <2> TAKE i \in 1 .. Len(t)
  <2>3. CASE i = 1
    BY <1>3, <2>1, <2>2, <2>3
  <2>4. CASE i = 2
    <3>1. 1 \in 1 .. Len(s) /\ t[2] = s[1] /\ first = s[1]
      BY <1>1, <1>3, <2>4, EmptySeq DEF Listed
    <3> QED
      BY <1>3, <1>5, <2>1, <2>4, <3>1
  <2>5. CASE i > 2
    <3>1. i - 1 \in 1 .. Len(s) /\ i - 2 \in 1 .. Len(s) /\ (i - 2) + 1 = i - 1 /\ 1 \in 1 .. Len(s)
      BY <1>1, <1>3, <2>5
    <3>2. t[i] = s[i - 1] /\ t[i - 1] = s[i - 2]
      BY <1>3, <1>4, <2>5, <3>1
    <3>3. s[i - 1] # first
      BY <3>1, <2>5, <1>8, <1>5, HashAssumption DEF Listed, Distinct
    <3>4. prev[s[i - 1]] = s[(i - 1) - 1]
      BY <3>1, <2>5 DEF Listed
    <3>5. (i - 1) - 1 = i - 2
      OBVIOUS
    <3> QED
      BY <1>5, <2>1, <2>5, <3>1, <3>2, <3>3, <3>4, <3>5
  <2> QED
    BY <2>3, <2>4, <2>5
<1>11. t # << >>
  <2> HIDE DEF t
  <2> QED
    BY <1>1, <1>3, EmptySeq
<1> HIDE DEF t, nx, pv
<1>12. Listed(e, nx, pv, t)
  BY <1>3, <1>7, <1>9, <1>10, <1>11 DEF Listed
<1> QED
  BY <1>3, <1>6, <1>12 DEF t, nx, pv, With

\* An element comes last.
LEMMA ListedAppend ==
  ASSUME NEW first, NEW next \in Links, NEW prev \in Links, NEW s, Listed(first, next, prev, s),
         s # << >>, NEW e \in Elts, e \notin ToSet(s)
  PROVE  /\ Listed(first, Link(With(next, e, Null), s[Len(s)], e), With(prev, e, s[Len(s)]),
                   Append(s, e))
         /\ Len(Append(s, e)) = Len(s) + 1
         /\ ToSet(Append(s, e)) = ToSet(s) \cup {e}
<1> DEFINE t == Append(s, e)
           z == s[Len(s)]
           nx == Link([next EXCEPT ![e] = Null], z, e)
           pv == [prev EXCEPT ![e] = z]
<1>1. s \in Seq(Elts) /\ Len(s) \in Nat \ {0} /\ Len(s) \in 1 .. Len(s)
  BY EmptySeq, LenProperties DEF Listed
<1>2. /\ t \in Seq(Elts) /\ Len(t) = Len(s) + 1 /\ t # << >> /\ t[Len(s) + 1] = e
      /\ \A i \in 1 .. Len(s) : t[i] = s[i]
  BY <1>1, AppendProperties
<1>3. \A i \in 1 .. Len(s) : s[i] \in Elts /\ s[i] # e
  BY <1>1, ElementsOf, ElementOfSeq
<1>4. ToSet(t) = ToSet(s) \cup {e}
  <2> HIDE DEF t
  <2>1. \A x : x \in ToSet(t) <=> \E i \in 1 .. Len(t) : t[i] = x
    BY <1>2, ElementsOf
  <2>2. \A x : x \in ToSet(s) <=> \E i \in 1 .. Len(s) : s[i] = x
    BY <1>1, ElementsOf
  <2>3. \A i : i \in 1 .. Len(t) <=> i \in 1 .. Len(s) \/ i = Len(s) + 1
    BY <1>1, <1>2
  <2> QED
    BY <1>2, <2>1, <2>2, <2>3
<1> HIDE DEF t
<1>5. \A i \in 1 .. Len(t) : i \in 1 .. Len(s) \/ i = Len(s) + 1
  BY <1>1, <1>2
<1>6. Distinct(t)
  <2>1. ASSUME NEW i \in 1 .. Len(t), NEW j \in 1 .. Len(t), t[i] = t[j] PROVE i = j
    <3>1. CASE i = Len(s) + 1 \/ j = Len(s) + 1
      BY <1>2, <1>3, <1>5, <2>1, <3>1
    <3>2. CASE i \in 1 .. Len(s) /\ j \in 1 .. Len(s)
      BY <1>2, <2>1, <3>2 DEF Listed, Distinct
    <3> QED
      BY <1>5, <3>1, <3>2
  <2> QED
    BY <2>1 DEF Distinct
<1>7. z \in Elts /\ z # e /\ z # Null /\ e # Null
  BY <1>1, <1>3, HashAssumption
<1>8. \A x \in Elts : nx[x] = IF x = z THEN e ELSE IF x = e THEN Null ELSE next[x]
  BY <1>7 DEF Link, Links
<1>9. \A x \in Elts : pv[x] = IF x = e THEN z ELSE prev[x]
  BY DEF Links
<1>10. \A i \in 1 .. Len(t) : nx[t[i]] = IF i < Len(t) THEN t[i + 1] ELSE Null
  <2> HIDE DEF nx
  <2> TAKE i \in 1 .. Len(t)
  <2>1. CASE i = Len(s) + 1
    BY <1>1, <1>2, <1>7, <1>8, <2>1
  <2>2. CASE i = Len(s)
    BY <1>1, <1>2, <1>7, <1>8, <2>2
  <2>3. CASE i < Len(s)
    <3>1. i \in 1 .. Len(s) /\ i + 1 \in 1 .. Len(s)
      BY <1>1, <2>3
    <3>2. s[i] # z
      BY <1>1, <2>3, <3>1 DEF Listed, Distinct
    <3>3. next[s[i]] = s[i + 1]
      BY <2>3, <3>1 DEF Listed
    <3> QED
      BY <1>2, <1>3, <1>8, <2>3, <3>1, <3>2, <3>3
  <2> QED
    BY <1>1, <1>2, <2>1, <2>2, <2>3
<1>11. \A i \in 1 .. Len(t) : pv[t[i]] = IF 1 < i THEN t[i - 1] ELSE Null
  <2> HIDE DEF pv
  <2> TAKE i \in 1 .. Len(t)
  <2>1. CASE i = Len(s) + 1
    <3>1. i - 1 = Len(s) /\ 1 < i
      BY <1>1, <2>1
    <3> QED
      BY <1>1, <1>2, <1>9, <2>1, <3>1
  <2>2. CASE i \in 1 .. Len(s)
    <3>1. pv[t[i]] = prev[s[i]] /\ t[i] = s[i]
      BY <1>2, <1>3, <1>9, <2>2
    <3>2. prev[s[i]] = IF 1 < i THEN s[i - 1] ELSE Null
      BY <2>2 DEF Listed
    <3>3. 1 < i => i - 1 \in 1 .. Len(s)
      BY <1>1, <2>2
    <3>4. 1 < i => t[i - 1] = s[i - 1]
      BY <1>2, <1>3, <3>3
    <3> QED
      BY <3>1, <3>2, <3>4
  <2> QED
    BY <1>5, <2>1, <2>2
<1>12. first = t[1]
  BY <1>1, <1>2 DEF Listed
<1> HIDE DEF nx, pv
<1>13. Listed(first, nx, pv, t)
  BY <1>2, <1>6, <1>10, <1>11, <1>12 DEF Listed
<1> QED
  BY <1>2, <1>4, <1>13 DEF t, nx, pv, With

\* An element is taken out: its neighbours are linked with each other.
LEMMA ListedCut ==
  ASSUME NEW first, NEW next \in Links, NEW prev \in Links, NEW s, Listed(first, next, prev, s),
         NEW k \in 1 .. Len(s)
  PROVE  LET e == s[k] IN
         /\ Listed(IF prev[e] = Null THEN next[e] ELSE first,
                   Link(With(next, e, Null), prev[e], next[e]),
                   Link(With(prev, e, Null), next[e], prev[e]), Cut(s, k))
         /\ first = e <=> prev[e] = Null
<1> DEFINE e == s[k]
           t == Cut(s, k)
           f == IF prev[e] = Null THEN next[e] ELSE first
           nx == Link([next EXCEPT ![e] = Null], prev[e], next[e])
           pv == Link([prev EXCEPT ![e] = Null], next[e], prev[e])
<1>1. s \in Seq(Elts) /\ Len(s) \in Nat /\ Distinct(s)
  BY LenProperties DEF Listed
<1>2. \A i \in 1 .. Len(s) : s[i] \in Elts /\ s[i] # Null
  BY <1>1, ElementOfSeq, HashAssumption
<1>3. /\ t \in Seq(Elts) /\ Len(t) = Len(s) - 1 /\ Distinct(t)
      /\ \A i \in 1 .. Len(s) - 1 : t[i] = IF i < k THEN s[i] ELSE s[i + 1]
  BY <1>1, CutIs
<1> HIDE DEF t
<1>4. \A i, j \in 1 .. Len(s) : s[i] = s[j] => i = j
  BY <1>1 DEF Distinct
<1>5. k = 1 => prev[e] = Null /\ first = e
  BY <1>1, EmptySeq DEF Listed
<1>6. k # 1 => k - 1 \in 1 .. Len(s) /\ prev[e] = s[k - 1] /\ first = s[1] /\ 1 \in 1 .. Len(s)
  BY <1>1, EmptySeq DEF Listed
<1>7. k = Len(s) => next[e] = Null
  BY <1>1 DEF Listed
<1>8. k # Len(s) => k + 1 \in 1 .. Len(s) /\ next[e] = s[k + 1]
  BY <1>1 DEF Listed
<1>9. \A x \in Elts : nx[x] = IF x = prev[e] THEN next[e] ELSE IF x = e THEN Null ELSE next[x]
  BY <1>2, <1>5, <1>6, <1>4, HashAssumption DEF Link, Links
<1>10. \A x \in Elts : pv[x] = IF x = next[e] THEN prev[e] ELSE IF x = e THEN Null ELSE prev[x]
  BY <1>2, <1>7, <1>8, <1>4, HashAssumption DEF Link, Links
<1> HIDE DEF nx, pv
<1>11. first = e <=> prev[e] = Null
  BY <1>2, <1>4, <1>5, <1>6
<1>12. \A i \in 1 .. Len(t) : i \in 1 .. Len(s) /\ i + 1 \in 1 .. Len(s)
  BY <1>1, <1>3
<1>13. \A i \in 1 .. Len(t) : t[i] = IF i < k THEN s[i] ELSE s[i + 1]
  BY <1>3
<1>14. f = IF t = << >> THEN Null ELSE t[1]
  <2>1. t = << >> <=> Len(s) = 1
    BY <1>1, <1>3, EmptySeq
  <2>2. CASE Len(s) = 1
    BY <1>5, <1>7, <2>1, <2>2
  <2>3. CASE Len(s) # 1
    <3>1. 1 \in 1 .. Len(t) /\ 1 \in 1 .. Len(s)
      BY <1>1, <1>3, <2>3
    <3>2. CASE k = 1
      <4>1. k + 1 = 2 /\ k # Len(s) /\ t[1] = s[1 + 1]
        BY <1>13, <2>3, <3>1, <3>2
      <4> QED
        BY <1>5, <1>8, <2>1, <2>3, <3>2, <4>1
    <3>3. CASE k # 1
      <4>1. t[1] = s[1]
        BY <1>13, <3>1, <3>3
      <4> QED
        BY <1>2, <1>6, <2>1, <2>3, <3>3, <4>1
    <3> QED
      BY <3>2, <3>3
  <2> QED
    BY <2>2, <2>3
<1>15. \A i \in 1 .. Len(t) : nx[t[i]] = IF i < Len(t) THEN t[i + 1] ELSE Null
  <2> TAKE i \in 1 .. Len(t)
  <2>0. i \in 1 .. Len(s) /\ i + 1 \in 1 .. Len(s)
    BY <1>12
  <2>1. CASE i = k - 1
    <3>1. k # 1 /\ t[i] = s[k - 1] /\ nx[s[k - 1]] = next[e]
      BY <1>2, <1>6, <1>9, <1>13, <2>0, <2>1
    <3>2. i + 1 = k
      BY <2>1
    <3>3. i < Len(t) => t[i + 1] = s[k + 1] /\ k # Len(s)
      BY <1>1, <1>3, <3>2, <2>0
    <3>4. ~(i < Len(t)) => k = Len(s)
      BY <1>1, <1>3, <2>0, <2>1
    <3> QED
      BY <1>7, <1>8, <3>1, <3>3, <3>4
  <2>2. CASE i < k - 1
    <3>1. t[i] = s[i] /\ t[i + 1] = s[i + 1] /\ i < Len(t) /\ i < Len(s)
      BY <1>1, <1>3, <1>13, <2>0, <2>2
    <3>2. s[i] # prev[e] /\ s[i] # e
      BY <1>2, <1>4, <1>6, <2>0, <2>2
    <3>3. nx[s[i]] = next[s[i]]
      BY <1>2, <1>9, <2>0, <3>2
    <3> QED
      BY <2>0, <3>1, <3>3 DEF Listed
  <2>3. CASE i > k - 1
    <3>1. t[i] = s[i + 1] /\ (i < Len(t) => t[i + 1] = s[(i + 1) + 1])
      BY <1>1, <1>3, <1>13, <2>0, <2>3
    <3>2. s[i + 1] # prev[e] /\ s[i + 1] # e
      BY <1>2, <1>4, <1>5, <1>6, <2>0, <2>3
    <3>3. nx[s[i + 1]] = next[s[i + 1]]
      BY <1>2, <1>9, <2>0, <3>2
    <3>4. next[s[i + 1]] = IF i + 1 < Len(s) THEN s[(i + 1) + 1] ELSE Null
      BY <2>0 DEF Listed
    <3>5. i + 1 < Len(s) <=> i < Len(t)
      BY <1>1, <1>3
    <3> QED
      BY <3>1, <3>3, <3>4, <3>5
  <2> QED
    BY <2>1, <2>2, <2>3
<1>16. \A i \in 1 .. Len(t) : pv[t[i]] = IF 1 < i THEN t[i - 1] ELSE Null
  <2> TAKE i \in 1 .. Len(t)
  <2>0. i \in 1 .. Len(s) /\ i + 1 \in 1 .. Len(s) /\ (1 < i => i - 1 \in 1 .. Len(t))
    BY <1>12
  <2>1. CASE i = k
    <3>1. k # Len(s) /\ t[i] = s[k + 1] /\ pv[s[k + 1]] = prev[e]
      <4>1. k # Len(s) /\ t[i] = s[k + 1]
        BY <1>1, <1>3, <1>13, <2>1
      <4> QED
        BY <1>2, <1>8, <1>10, <4>1
    <3>2. 1 < i => t[i - 1] = s[k - 1]
      BY <1>13, <2>0, <2>1
    <3> QED
      BY <1>5, <1>6, <2>1, <3>1, <3>2
  <2>2. CASE i < k
    <3>1. t[i] = s[i] /\ (1 < i => t[i - 1] = s[i - 1])
      BY <1>13, <2>0, <2>2
    <3>2. s[i] # next[e] /\ s[i] # e
      BY <1>2, <1>4, <1>7, <1>8, <2>0, <2>2
    <3>3. pv[s[i]] = prev[s[i]]
      BY <1>2, <1>10, <2>0, <3>2
    <3> QED
      BY <2>0, <3>1, <3>3 DEF Listed
  <2>3. CASE i > k
    <3>1. t[i] = s[i + 1] /\ 1 < i /\ t[i - 1] = s[(i - 1) + 1] /\ (i - 1) + 1 = (i + 1) - 1
      BY <1>13, <2>0, <2>3
    <3>2. s[i + 1] # next[e] /\ s[i + 1] # e
      BY <1>2, <1>4, <1>7, <1>8, <2>0, <2>3
    <3>3. pv[s[i + 1]] = prev[s[i + 1]]
      BY <1>2, <1>10, <2>0, <3>2
    <3>4. prev[s[i + 1]] = s[(i + 1) - 1]
      BY <2>0, <3>1 DEF Listed
    <3> QED
      BY <3>1, <3>3, <3>4
  <2> QED
    BY <2>1, <2>2, <2>3
<1> HIDE DEF f
<1>17. Listed(f, nx, pv, t)
  BY <1>3, <1>14, <1>15, <1>16 DEF Listed
<1> QED
  BY <1>11, <1>17 DEF f, nx, pv, t, With


-----------------------------------------------------------------------------
(* Tables                                                                   *)

LEMMA Arithmetic ==
  ASSUME NEW a \in Nat, NEW b \in Nat \ {0}
  PROVE  a % b \in 0 .. b - 1 /\ a \div b \in Nat /\ CeilDiv(a, b) \in Nat
         /\ (a > 0 => CeilDiv(a, b) > 0) /\ (a + 1) * b >= b
<1>1. a % b \in 0 .. b - 1
  OBVIOUS
<1>2. a \div b \in Nat
  OBVIOUS
<1>3. CeilDiv(a, b) \in Nat
  BY <1>1, <1>2 DEF CeilDiv
<1>4. a > 0 => CeilDiv(a, b) > 0
  <2>1. a = b * (a \div b) + (a % b)
    OBVIOUS
  <2>2. a \div b = 0 => a = a % b
    BY <1>1, <2>1
  <2> QED
    BY <1>1, <1>2, <2>2 DEF CeilDiv
<1>5. (a + 1) * b >= b
  <2>1. (a + 1) * b = a * b + b /\ a * b \in Nat
    OBVIOUS
  <2> QED
    BY <2>1
<1> QED
  BY <1>1, <1>2, <1>3, <1>4, <1>5

Pointers == Elts \cup {Null}

Table(n) ==
  [head : Pointers, tail : Pointers, items : Nat, ineff : Nat, noexpand : BOOLEAN, filter : SUBSET Nat,
   buckets : [0 .. n - 1 -> [head : Pointers, count : Nat, mult : Nat]],
   next : Links, prev : Links, hnext : Links, hprev : Links]

\* The n chains ch of h have the elements of S, each in its bucket.
Chained(h, n, ch, S, hv) ==
  /\ n \in Nat \ {0} /\ h \in Table(n) /\ ch \in [0 .. n - 1 -> Seq(Elts)]
  /\ S \subseteq Elts /\ hv \in [Elts -> Nat]
  /\ \A b \in 0 .. n - 1 : /\ Listed(h.buckets[b].head, h.hnext, h.hprev, ch[b])
                           /\ h.buckets[b].count = Len(ch[b])
                           /\ \A e \in Elts : e \in ToSet(ch[b]) <=> e \in S /\ hv[e] % n = b

\* g and h have the same elements in the same order.
SameOrder(g, h) ==
  /\ g.head = h.head /\ g.tail = h.tail /\ g.items = h.items
  /\ g.next = h.next /\ g.prev = h.prev /\ g.filter = h.filter

LEMMA Buckets ==
  ASSUME NEW h, NEW n, NEW ch, NEW S, NEW hv, Chained(h, n, ch, S, hv)
  PROVE  NumBuckets(h) = n /\ DOMAIN h.buckets = 0 .. n - 1
<1>1. n \in Nat \ {0} /\ DOMAIN h.buckets = 0 .. n - 1
  BY DEF Chained, Table
<1>2. Cardinality(0 .. n - 1) = n
  BY <1>1, FS_Interval
<1> QED
  BY <1>1, <1>2 DEF NumBuckets

\* Every element has its bucket.
LEMMA BucketOf ==
  ASSUME NEW e \in Elts, NEW hv \in [Elts -> Nat], NEW n \in Nat \ {0}
  PROVE  hv[e] % n \in 0 .. n - 1
<1>1. hv[e] \in Nat
  OBVIOUS
<1> QED
  BY <1>1, Arithmetic

LEMMA ChainIs ==
  ASSUME NEW h, NEW n, NEW ch, NEW S, NEW hv, Chained(h, n, ch, S, hv), NEW b \in 0 .. n - 1
  PROVE  Chain(h, b) = ch[b]
<1>1. Listed(h.buckets[b].head, h.hnext, h.hprev, ch[b])
  BY DEF Chained
<1> QED
  BY <1>1, ListedFollow DEF Chain

LEMMA ConcatIs ==
  ASSUME NEW E, NEW s \in Seq(E), NEW t \in Seq(E)
  PROVE  /\ s \o t \in Seq(E)
         /\ Len(s \o t) = Len(s) + Len(t)
         /\ ToSet(s \o t) = ToSet(s) \cup ToSet(t)
         /\ Distinct(s) /\ Distinct(t) /\ ToSet(s) \cap ToSet(t) = {} => Distinct(s \o t)
<1> DEFINE u == s \o t
<1>1. Len(s) \in Nat /\ Len(t) \in Nat
  BY LenProperties
<1>2. /\ u \in Seq(E) /\ Len(u) = Len(s) + Len(t)
      /\ \A i \in 1 .. Len(s) + Len(t) : u[i] = IF i <= Len(s) THEN s[i] ELSE t[i - Len(s)]
  BY ConcatProperties
<1> HIDE DEF u
<1>3. \A i \in 1 .. Len(s) : i \in 1 .. Len(u) /\ u[i] = s[i]
  BY <1>1, <1>2
<1>4. ASSUME NEW i \in 1 .. Len(t) PROVE i + Len(s) \in 1 .. Len(u) /\ u[i + Len(s)] = t[i]
  <2>1. i + Len(s) \in 1 .. Len(s) + Len(t) /\ ~(i + Len(s) <= Len(s)) /\ (i + Len(s)) - Len(s) = i
    BY <1>1
  <2> QED
    BY <1>2, <2>1
<1>5. ASSUME NEW i \in 1 .. Len(u)
      PROVE  (i \in 1 .. Len(s) /\ u[i] = s[i]) \/ (i > Len(s) /\ i - Len(s) \in 1 .. Len(t) /\ u[i] = t[i - Len(s)])
  BY <1>1, <1>2
<1>6. \A x : x \in ToSet(u) <=> \E i \in 1 .. Len(u) : u[i] = x
  BY <1>2, ElementsOf
<1>7. (\A x : x \in ToSet(s) <=> \E i \in 1 .. Len(s) : s[i] = x)
      /\ (\A x : x \in ToSet(t) <=> \E i \in 1 .. Len(t) : t[i] = x)
  BY ElementsOf
<1>8. ToSet(u) = ToSet(s) \cup ToSet(t)
  <2>1. \A x : x \in ToSet(s) => x \in ToSet(u)
    BY <1>3, <1>6, <1>7
  <2>2. \A x : x \in ToSet(t) => x \in ToSet(u)
    BY <1>4, <1>6, <1>7
  <2>3. \A x : x \in ToSet(u) => x \in ToSet(s) \/ x \in ToSet(t)
    BY <1>5, <1>6, <1>7
  <2> QED
    BY <2>1, <2>2, <2>3
<1>9. ASSUME Distinct(s), Distinct(t), ToSet(s) \cap ToSet(t) = {} PROVE Distinct(u)
  <2>1. ASSUME NEW i \in 1 .. Len(u), NEW j \in 1 .. Len(u), u[i] = u[j] PROVE i = j
    <3>1. CASE i \in 1 .. Len(s) /\ j \in 1 .. Len(s)
      BY <1>3, <1>9, <2>1, <3>1 DEF Distinct
    <3>2. CASE i > Len(s) /\ j > Len(s)
      <4>1. i - Len(s) \in 1 .. Len(t) /\ j - Len(s) \in 1 .. Len(t) /\ t[i - Len(s)] = t[j - Len(s)]
        BY <1>5, <2>1, <3>2
      <4>2. i - Len(s) = j - Len(s)
        BY <1>9, <4>1 DEF Distinct
      <4> QED
        BY <1>1, <4>2
    <3>3. CASE (i \in 1 .. Len(s) /\ j > Len(s)) \/ (i > Len(s) /\ j \in 1 .. Len(s))
      <4>1. u[i] \in ToSet(s) /\ u[i] \in ToSet(t)
        <5>1. CASE i \in 1 .. Len(s) /\ j > Len(s)
          <6>1. u[i] = s[i] /\ j - Len(s) \in 1 .. Len(t) /\ u[j] = t[j - Len(s)]
            BY <1>1, <1>3, <1>5, <5>1
          <6> QED
            BY <1>7, <2>1, <5>1, <6>1
        <5>2. CASE i > Len(s) /\ j \in 1 .. Len(s)
          <6>1. u[j] = s[j] /\ i - Len(s) \in 1 .. Len(t) /\ u[i] = t[i - Len(s)]
            BY <1>1, <1>3, <1>5, <5>2
          <6> QED
            BY <1>7, <2>1, <5>2, <6>1
        <5> QED
          BY <3>3, <5>1, <5>2
      <4> QED
        BY <1>9, <4>1
    <3> QED
      BY <1>1, <3>1, <3>2, <3>3
  <2> QED
    BY <2>1 DEF Distinct
<1> QED
  BY <1>2, <1>8, <1>9 DEF u

\* The chains have every element once.
LEMMA ChainsAre ==
  ASSUME NEW h, NEW n, NEW ch, NEW S, NEW hv, Chained(h, n, ch, S, hv)
  PROVE  Chains(h) \in Seq(Elts) /\ Distinct(Chains(h)) /\ ToSet(Chains(h)) = S
<1> DEFINE Turned(c, k) == c \o Chain(h, k - 1)
           IsIn(c, k) == Distinct(c) /\ \A e \in Elts : e \in ToSet(c) <=> e \in S /\ hv[e] % n < k
           W == [k \in 0 .. n |-> {c \in Seq(Elts) : IsIn(c, k)}]
           D == [ck \in Seq(Elts) \X (1 .. n) |-> Turned(ck[1], ck[2])]
           IsChains(f) == f = [k \in 0 .. n |-> IF k = 0 THEN << >> ELSE Turned(f[k - 1], k)]
           chains == CHOOSE f : IsChains(f)
<1>1. n \in Nat /\ n > 0 /\ NumBuckets(h) = n /\ S \subseteq Elts /\ hv \in [Elts -> Nat]
  <2>1. NumBuckets(h) = n
    BY Buckets
  <2> QED
    BY <2>1 DEF Chained
<1>2. \A e \in Elts : hv[e] % n \in 0 .. n - 1
  BY <1>1, BucketOf
<1>3. << >> \in W[0]
  <2>1. << >> \in Seq(Elts) /\ ToSet(<< >>) = {} /\ Distinct(<< >>)
    BY EmptySeq DEF ToSet, Distinct
  <2>2. IsIn(<< >>, 0)
    BY <1>1, <1>2, <2>1
  <2> HIDE DEF IsIn
  <2> QED
    BY <1>1, <2>1, <2>2
<1>4. ASSUME NEW k \in 1 .. n, NEW c \in W[k - 1] PROVE c \in Seq(Elts) /\ Turned(c, k) \in W[k]
  <2>1. k - 1 \in 0 .. n - 1 /\ k \in 0 .. n /\ k - 1 \in 0 .. n
    BY <1>1
  <2>2. c \in Seq(Elts) /\ IsIn(c, k - 1)
    <3> HIDE DEF IsIn
    <3> QED
      BY <2>1
  <2>3. Chain(h, k - 1) = ch[k - 1]
    BY <2>1, ChainIs
  <2> DEFINE d == ch[k - 1]
  <2>4. d \in Seq(Elts) /\ Distinct(d) /\ \A e \in Elts : e \in ToSet(d) <=> e \in S /\ hv[e] % n = k - 1
    BY <2>1 DEF Chained, Listed
  <2> HIDE DEF d
  <2>5. ToSet(c) \subseteq Elts /\ ToSet(d) \subseteq Elts
    BY <2>2, <2>4, ElementsOf
  <2>6. ToSet(c) \cap ToSet(d) = {}
    BY <1>1, <1>2, <2>1, <2>2, <2>4, <2>5
  <2>7. c \o d \in Seq(Elts) /\ ToSet(c \o d) = ToSet(c) \cup ToSet(d) /\ Distinct(c \o d)
    BY <2>2, <2>4, <2>6, ConcatIs
  <2>8. \A e \in Elts : hv[e] % n < k <=> hv[e] % n < k - 1 \/ hv[e] % n = k - 1
    BY <1>1, <1>2, <2>1
  <2>9. IsIn(c \o d, k)
    BY <2>2, <2>4, <2>7, <2>8
  <2> HIDE DEF IsIn
  <2> QED
    BY <2>1, <2>2, <2>3, <2>7, <2>9 DEF d
<1> HIDE DEF Turned, IsIn
<1>5. Leads(n, W, << >>, D)
  <2>1. ASSUME NEW k \in 1 .. n, NEW c \in W[k - 1] PROVE D[<<c, k>>] \in W[k]
    <3>1. c \in Seq(Elts) /\ Turned(c, k) \in W[k]
      BY <1>4
    <3>2. D[<<c, k>>] = Turned(c, k)
      BY <3>1
    <3> QED
      BY <3>1, <3>2
  <2> HIDE DEF D, W
  <2> QED
    BY <1>3, <2>1 DEF Leads
<1> HIDE DEF W, D
<1>6. PICK f : IsLoop(f, n, << >>, D)
  BY <1>1, <1>5, LoopExists
<1>7. \A k \in 0 .. n : f[k] \in W[k]
  BY <1>1, <1>5, <1>6, LoopStates
<1>8. IsChains(f)
  <2>1. \A k \in 1 .. n : k - 1 \in 0 .. n
    BY <1>1
  <2>2. ASSUME NEW k \in 1 .. n PROVE D[<<f[k - 1], k>>] = Turned(f[k - 1], k)
    <3>1. f[k - 1] \in Seq(Elts)
      BY <1>4, <1>7, <2>1
    <3> QED
      BY <3>1 DEF D
  <2>3. \A k \in 0 .. n : (IF k = 0 THEN << >> ELSE D[<<f[k - 1], k>>])
                        = (IF k = 0 THEN << >> ELSE Turned(f[k - 1], k))
    BY <1>1, <2>2
  <2>4. f = [k \in 0 .. n |-> IF k = 0 THEN << >> ELSE D[<<f[k - 1], k>>]]
    BY <1>6 DEF IsLoop
  <2> QED
    BY <2>3, <2>4, Zenon
<1>9. IsChains(chains)
  <2> HIDE DEF IsChains
  <2> QED
    BY <1>8
<1>10. Chains(h) = chains[n]
  BY <1>1 DEF Chains, Turned
<1> HIDE DEF chains
<1>11. chains[0] = << >> /\ \A k \in 1 .. n : chains[k] = Turned(chains[k - 1], k)
  BY <1>1, <1>9
<1>12. chains[n] \in W[n]
  <2>1. \A k \in 1 .. n : chains[k - 1] \in W[k - 1] => chains[k] \in W[k]
    BY <1>4, <1>11
  <2>2. \A k \in 0 .. n : chains[k] \in W[k]
    BY <1>1, <1>3, <1>11, <2>1, LoopInvariant
  <2> QED
    BY <1>1, <2>2
<1>13. chains[n] \in Seq(Elts) /\ IsIn(chains[n], n)
  BY <1>1, <1>12 DEF W
<1>14. ToSet(chains[n]) \subseteq Elts
  BY <1>13, ElementsOf
<1>15. \A e \in Elts : e \in ToSet(chains[n]) <=> e \in S
  BY <1>1, <1>2, <1>13 DEF IsIn
<1> QED
  BY <1>1, <1>10, <1>13, <1>14, <1>15 DEF IsIn

LEMMA LinkIs ==
  ASSUME NEW links \in Links, NEW e \in Pointers, NEW x \in Pointers
  PROVE  /\ Link(links, e, x) \in Links
         /\ \A y \in Elts : Link(links, e, x)[y] = IF y = e THEN x ELSE links[y]
BY HashAssumption DEF Link, Links, Pointers

\* The fields of h that Push sets.
LEMMA PushSets ==
  ASSUME NEW n \in Nat \ {0}, NEW h \in Table(n), NEW b \in 0 .. n - 1, NEW e \in Elts
  PROVE  LET g == Push(h, b, e) IN
         /\ g \in Table(n) /\ SameOrder(g, h) /\ g.noexpand = h.noexpand /\ g.ineff = h.ineff
         /\ g.buckets[b].head = e /\ g.buckets[b].count = h.buckets[b].count + 1
         /\ \A c \in 0 .. n - 1 : g.buckets[c].mult = h.buckets[c].mult
         /\ \A c \in 0 .. n - 1 : c # b => g.buckets[c] = h.buckets[c]
         /\ g.hnext = With(h.hnext, e, h.buckets[b].head)
         /\ g.hprev = Link(With(h.hprev, e, Null), h.buckets[b].head, e)
<1> DEFINE g == Push(h, b, e)
           B == [h.buckets[b] EXCEPT !.count = @ + 1, !.head = e]
           X == [h.hnext EXCEPT ![e] = h.buckets[b].head]
           Y == Link([h.hprev EXCEPT ![e] = Null], h.buckets[b].head, e)
<1>1. /\ h.buckets \in [0 .. n - 1 -> [head : Pointers, count : Nat, mult : Nat]]
      /\ h.buckets[b] \in [head : Pointers, count : Nat, mult : Nat]
      /\ h.hnext \in Links /\ h.hprev \in Links
  BY DEF Table
<1>2. B \in [head : Pointers, count : Nat, mult : Nat] /\ B.head = e
      /\ B.count = h.buckets[b].count + 1 /\ B.mult = h.buckets[b].mult
  <2> DEFINE r == h.buckets[b]
  <2>1. B = [r EXCEPT !.count = @ + 1, !.head = e]
    OBVIOUS
  <2>2. r = [head |-> r.head, count |-> r.count, mult |-> r.mult] /\ r.count \in Nat /\ r.mult \in Nat
    BY <1>1
  <2> HIDE DEF r, B
  <2>3. B = [head |-> e, count |-> r.count + 1, mult |-> r.mult]
    BY <2>1, <2>2
  <2> QED
    BY <2>2, <2>3 DEF Pointers, r
<1>3. X \in Links
  BY <1>1 DEF Links, Pointers
<1>4. Y \in Links
  <2>1. [h.hprev EXCEPT ![e] = Null] \in Links /\ e \in Pointers
    BY <1>1 DEF Links, Pointers
  <2> QED
    BY <1>1, <2>1, LinkIs
<1>5. g = [h EXCEPT !.buckets = [h.buckets EXCEPT ![b] = B], !.hnext = X, !.hprev = Y]
  BY <1>1 DEF Push, Table
<1> HIDE DEF g, B, X, Y
<1> DEFINE C == [h.buckets EXCEPT ![b] = B]
<1>6. C \in [0 .. n - 1 -> [head : Pointers, count : Nat, mult : Nat]] /\ C[b] = B
      /\ \A c \in 0 .. n - 1 : c # b => C[c] = h.buckets[c]
  BY <1>1, <1>2
<1> HIDE DEF C
<1>7. g = [h EXCEPT !.buckets = C, !.hnext = X, !.hprev = Y]
  BY <1>5 DEF C
<1>8. g \in Table(n) /\ g.buckets = C /\ g.hnext = X /\ g.hprev = Y
      /\ SameOrder(g, h) /\ g.noexpand = h.noexpand /\ g.ineff = h.ineff
  BY <1>3, <1>4, <1>6, <1>7 DEF Table, SameOrder
<1>9. \A c \in 0 .. n - 1 : g.buckets[c].mult = h.buckets[c].mult
  BY <1>2, <1>6, <1>8
<1> QED
  BY <1>2, <1>6, <1>8, <1>9 DEF g, X, Y, With

\* An element more in its bucket.
LEMMA PushIs ==
  ASSUME NEW h, NEW n, NEW ch, NEW S, NEW hv, Chained(h, n, ch, S, hv), NEW e \in Elts, e \notin S
  PROVE  LET b == hv[e] % n IN
         Chained(Push(h, b, e), n, [ch EXCEPT ![b] = <<e>> \o @], S \cup {e}, hv)
<1> DEFINE b == hv[e] % n
           g == Push(h, b, e)
           d == <<e>> \o ch[b]
           dh == [ch EXCEPT ![b] = d]
<1>1. /\ n \in Nat \ {0} /\ h \in Table(n) /\ ch \in [0 .. n - 1 -> Seq(Elts)]
      /\ S \subseteq Elts /\ hv \in [Elts -> Nat]
  BY DEF Chained
<1>2. b \in 0 .. n - 1
  BY <1>1, BucketOf
<1>3. \A c \in 0 .. n - 1 : \A x \in Elts : x \in ToSet(ch[c]) <=> x \in S /\ hv[x] % n = c
  BY DEF Chained
<1>4. h.hnext \in Links /\ h.hprev \in Links
  BY <1>1 DEF Table
<1>5. ASSUME NEW c \in 0 .. n - 1
      PROVE Listed(h.buckets[c].head, h.hnext, h.hprev, ch[c]) /\ h.buckets[c].count = Len(ch[c])
  BY DEF Chained
<1> HIDE DEF b
<1>6. /\ Listed(e, With(h.hnext, e, h.buckets[b].head),
                Link(With(h.hprev, e, Null), h.buckets[b].head, e), d)
      /\ Len(d) = Len(ch[b]) + 1 /\ ToSet(d) = ToSet(ch[b]) \cup {e}
  <2>1. Listed(h.buckets[b].head, h.hnext, h.hprev, ch[b]) /\ e \notin ToSet(ch[b])
    BY <1>2, <1>3, <1>5
  <2> DEFINE first == h.buckets[b].head
             next == h.hnext
             prev == h.hprev
             s == ch[b]
  <2>2. next \in Links /\ prev \in Links /\ Listed(first, next, prev, s) /\ e \notin ToSet(s)
    BY <1>4, <2>1
  <2> HIDE DEF first, next, prev, s
  <2>3. /\ Listed(e, With(next, e, first), Link(With(prev, e, Null), first, e), <<e>> \o s)
        /\ Len(<<e>> \o s) = Len(s) + 1 /\ ToSet(<<e>> \o s) = ToSet(s) \cup {e}
    BY <2>2, ListedPush
  <2> QED
    BY <2>3 DEF first, next, prev, s
<1>7. /\ g \in Table(n)
      /\ g.buckets[b].head = e /\ g.buckets[b].count = h.buckets[b].count + 1
      /\ \A c \in 0 .. n - 1 : c # b => g.buckets[c] = h.buckets[c]
      /\ g.hnext = With(h.hnext, e, h.buckets[b].head)
      /\ g.hprev = Link(With(h.hprev, e, Null), h.buckets[b].head, e)
  BY <1>1, <1>2, PushSets
<1>8. h.buckets[b].head # Null => h.buckets[b].head \in ToSet(ch[b])
  <2>1. ch[b] \in Seq(Elts) /\ h.buckets[b].head = IF ch[b] = << >> THEN Null ELSE ch[b][1]
    BY <1>2, <1>5 DEF Listed
  <2>2. ch[b] # << >> => 1 \in 1 .. Len(ch[b])
    <3>1. Len(ch[b]) \in Nat
      BY <2>1, LenProperties
    <3> QED
      BY <2>1, <3>1, EmptySeq
  <2> QED
    BY <2>1, <2>2, ElementsOf
<1> HIDE DEF g, d
<1>9. dh \in [0 .. n - 1 -> Seq(Elts)] /\ dh[b] = d /\ \A c \in 0 .. n - 1 : c # b => dh[c] = ch[c]
  <2>1. d \in Seq(Elts)
    BY <1>6 DEF Listed
  <2> QED
    BY <1>1, <1>2, <2>1
<1> HIDE DEF dh
<1>10. ASSUME NEW c \in 0 .. n - 1
       PROVE  /\ Listed(g.buckets[c].head, g.hnext, g.hprev, dh[c])
              /\ g.buckets[c].count = Len(dh[c])
              /\ \A x \in Elts : x \in ToSet(dh[c]) <=> x \in S \cup {e} /\ hv[x] % n = c
  <2>1. CASE c = b
    <3>1. Listed(g.buckets[c].head, g.hnext, g.hprev, dh[c]) /\ g.buckets[c].count = Len(dh[c])
      BY <1>5, <1>6, <1>7, <1>9, <2>1
    <3>2. \A x \in Elts : x \in ToSet(dh[c]) <=> x \in S \cup {e} /\ hv[x] % n = c
      BY <1>2, <1>3, <1>6, <1>9, <2>1 DEF b
    <3> QED
      BY <3>1, <3>2
  <2>2. CASE c # b
    <3>1. dh[c] = ch[c] /\ g.buckets[c] = h.buckets[c]
      BY <1>7, <1>9, <2>2
    <3>2. ASSUME NEW x \in ToSet(ch[c]) PROVE g.hnext[x] = h.hnext[x] /\ g.hprev[x] = h.hprev[x]
      <4>1. x \in Elts /\ x \in S /\ hv[x] % n = c
        <5>1. x \in Elts
          BY <1>1, ElementsOf
        <5> QED
          BY <1>3, <5>1
      <4>2. x # e /\ x \notin ToSet(ch[b])
        BY <1>2, <1>3, <2>2, <4>1
      <4>3. x # h.buckets[b].head
        BY <1>8, <4>1, <4>2, HashAssumption
      <4>4. g.hnext[x] = h.hnext[x]
        BY <1>4, <1>7, <4>1, <4>2 DEF Links, With
      <4>5. g.hprev[x] = h.hprev[x]
        BY <1>4, <1>7, <4>1, <4>2, <4>3 DEF Link, Links, With
      <4> QED
        BY <4>4, <4>5
    <3>3. Listed(h.buckets[c].head, g.hnext, g.hprev, ch[c])
      <4>1. Listed(h.buckets[c].head, h.hnext, h.hprev, ch[c])
        BY <1>5
      <4> QED
        BY <3>2, <4>1, ListedFrame
    <3>4. \A x \in Elts : x \in ToSet(dh[c]) <=> x \in S \cup {e} /\ hv[x] % n = c
      BY <1>3, <2>2, <3>1 DEF b
    <3> QED
      BY <1>5, <3>1, <3>3, <3>4
  <2> QED
    BY <2>1, <2>2
<1>11. Chained(g, n, dh, S \cup {e}, hv)
  BY <1>1, <1>7, <1>9, <1>10 DEF Chained
<1>12. dh = [ch EXCEPT ![b] = <<e>> \o @]
  BY DEF dh, d
<1> QED
  BY <1>11, <1>12 DEF b, g

\* Chains are as they were where their links, heads and counts are.
LEMMA SameChains ==
  ASSUME NEW h, NEW n, NEW ch, NEW S, NEW hv, Chained(h, n, ch, S, hv), NEW g \in Table(n),
         g.hnext = h.hnext, g.hprev = h.hprev,
         \A b \in 0 .. n - 1 : g.buckets[b].head = h.buckets[b].head /\ g.buckets[b].count = h.buckets[b].count
  PROVE  Chained(g, n, ch, S, hv)
BY DEF Chained

Multiplied(h, b, m) == [h EXCEPT !.buckets[b].mult = m]

LEMMA MultipliedIs ==
  ASSUME NEW h, NEW n, NEW ch, NEW S, NEW hv, Chained(h, n, ch, S, hv), NEW b \in 0 .. n - 1, NEW m \in Nat
  PROVE  Chained(Multiplied(h, b, m), n, ch, S, hv) /\ SameOrder(Multiplied(h, b, m), h)
<1> DEFINE g == Multiplied(h, b, m)
           B == [h.buckets[b] EXCEPT !.mult = m]
           C == [h.buckets EXCEPT ![b] = B]
<1>1. n \in Nat \ {0} /\ h \in Table(n)
  BY DEF Chained
<1>2. /\ h.buckets \in [0 .. n - 1 -> [head : Pointers, count : Nat, mult : Nat]]
      /\ h.buckets[b] \in [head : Pointers, count : Nat, mult : Nat]
  BY <1>1 DEF Table
<1>3. /\ B \in [head : Pointers, count : Nat, mult : Nat]
      /\ B.head = h.buckets[b].head /\ B.count = h.buckets[b].count
  BY <1>2
<1>4. g = [h EXCEPT !.buckets = C]
  BY DEF Multiplied
<1> HIDE DEF B, g
<1>5. /\ C \in [0 .. n - 1 -> [head : Pointers, count : Nat, mult : Nat]]
      /\ \A c \in 0 .. n - 1 : C[c] = IF c = b THEN B ELSE h.buckets[c]
  BY <1>2, <1>3
<1> HIDE DEF C
<1>6. /\ g \in Table(n) /\ g.buckets = C /\ g.hnext = h.hnext /\ g.hprev = h.hprev
      /\ SameOrder(g, h)
  BY <1>1, <1>4, <1>5 DEF Table, SameOrder
<1>7. \A c \in 0 .. n - 1 : g.buckets[c].head = h.buckets[c].head /\ g.buckets[c].count = h.buckets[c].count
  BY <1>3, <1>5, <1>6
<1>8. Chained(g, n, ch, S, hv)
  BY <1>6, <1>7, SameChains
<1> QED
  BY <1>6, <1>8 DEF g

\* An element moves to its new bucket.
LEMMA MoveIs ==
  ASSUME NEW h, NEW n, NEW S, NEW g \in [tbl : Table(n), nonideal : Nat],
         \E ch : Chained(g.tbl, n, ch, S, hashv), SameOrder(g.tbl, h),
         NEW e \in Elts, e \notin S, NEW ideal \in Nat \ {0}
  PROVE  LET m == Move(g, e, n, ideal) IN
         /\ m \in [tbl : Table(n), nonideal : Nat] /\ SameOrder(m.tbl, h)
         /\ \E ch : Chained(m.tbl, n, ch, S \cup {e}, hashv)
<1> DEFINE b == Bkt(e, n)
           p == Push(g.tbl, b, e)
           k == p.buckets[b].count
           m == Move(g, e, n, ideal)
           q == Multiplied(p, b, k \div ideal)
<1>1. PICK ch : Chained(g.tbl, n, ch, S, hashv)
  OBVIOUS
<1>2. n \in Nat \ {0} /\ hashv \in [Elts -> Nat] /\ g.tbl \in Table(n) /\ g.nonideal \in Nat
  BY <1>1 DEF Chained
<1>3. b \in 0 .. n - 1
  BY <1>2, BucketOf DEF Bkt
<1>4. \E d : Chained(p, n, d, S \cup {e}, hashv)
  BY <1>1, PushIs DEF Bkt
<1> HIDE DEF b
<1>5. SameOrder(p, g.tbl) /\ p \in Table(n)
  BY <1>2, <1>3, PushSets
<1>6. m = IF k > ideal THEN [tbl |-> q, nonideal |-> g.nonideal + 1]
          ELSE [tbl |-> p, nonideal |-> g.nonideal]
  BY DEF Move, b, Multiplied
<1> HIDE DEF p, m
<1>7. k \in Nat /\ k \div ideal \in Nat
  <2>1. k \in Nat
    BY <1>2, <1>3, <1>5 DEF Table
  <2> HIDE DEF k
  <2> QED
    BY <2>1, Arithmetic
<1> HIDE DEF k
<1>8. (\E d : Chained(q, n, d, S \cup {e}, hashv)) /\ SameOrder(q, p) /\ q \in Table(n)
  <2>1. PICK d : Chained(p, n, d, S \cup {e}, hashv)
    BY <1>4
  <2>2. Chained(q, n, d, S \cup {e}, hashv) /\ SameOrder(q, p)
    BY <1>3, <1>7, <2>1, MultipliedIs
  <2> HIDE DEF q
  <2>3. q \in Table(n)
    BY <2>2 DEF Chained
  <2> QED
    BY <2>2, <2>3
<1> HIDE DEF q
<1>9. SameOrder(p, h) /\ SameOrder(q, h)
  BY <1>5, <1>8 DEF SameOrder
<1>10. m \in [tbl : Table(n), nonideal : Nat] /\ (m.tbl = p \/ m.tbl = q)
  BY <1>2, <1>5, <1>6, <1>8
<1> QED
  BY <1>4, <1>8, <1>9, <1>10 DEF m

\* Twice as many buckets.
LEMMA ExpandIs ==
  ASSUME NEW h, NEW n, NEW ch, NEW S, Chained(h, n, ch, S, hashv), h.items > 0
  PROVE  /\ \E d : Chained(ExpandBuckets(h), 2 * n, d, S, hashv)
         /\ SameOrder(ExpandBuckets(h), h)
<1> DEFINE num == 2 * n
           ideal == CeilDiv(h.items, num)
           thh == Chains(h)
           N == Len(thh)
           new == [h EXCEPT !.buckets = [b \in 0 .. num - 1 |-> EmptyBucket]]
           First == [tbl |-> new, nonideal |-> 0]
           States == [tbl : Table(num), nonideal : Nat]
           IsIn(g, k) == SameOrder(g.tbl, h) /\ \E d : Chained(g.tbl, num, d, Firsts(thh, k), hashv)
           W == [k \in 0 .. N |-> {g \in States : IsIn(g, k)}]
           Turned(g, k) == Move(g, thh[k], num, ideal)
           D == [gk \in States \X (1 .. N) |-> Turned(gk[1], gk[2])]
           IsMoved(f) == f = [k \in 0 .. N |-> IF k = 0 THEN First ELSE Turned(f[k - 1], k)]
           moved == CHOOSE f : IsMoved(f)
<1>1. n \in Nat \ {0} /\ h \in Table(n) /\ S \subseteq Elts /\ hashv \in [Elts -> Nat] /\ NumBuckets(h) = n
  <2>1. NumBuckets(h) = n
    BY Buckets
  <2> QED
    BY <2>1 DEF Chained
<1>2. num \in Nat \ {0} /\ h.items \in Nat
  BY <1>1 DEF Table
<1>3. ideal \in Nat \ {0}
  <2> HIDE DEF num
  <2> QED
    BY <1>2, Arithmetic
<1>4. thh \in Seq(Elts) /\ Distinct(thh) /\ ToSet(thh) = S
  BY ChainsAre
<1>5. N \in Nat
  BY <1>4, LenProperties
<1>6. /\ new \in Table(num) /\ SameOrder(new, h)
      /\ \A b \in 0 .. num - 1 : new.buckets[b] = EmptyBucket
  <2> DEFINE B == [b \in 0 .. num - 1 |-> EmptyBucket]
  <2>1. EmptyBucket \in [head : Pointers, count : Nat, mult : Nat]
    BY DEF EmptyBucket, Pointers
  <2>2. B \in [0 .. num - 1 -> [head : Pointers, count : Nat, mult : Nat]]
        /\ \A b \in 0 .. num - 1 : B[b] = EmptyBucket
    BY <2>1
  <2> HIDE DEF B, num
  <2> QED
    BY <1>1, <2>2 DEF Table, SameOrder
<1> HIDE DEF num, ideal, thh, new
<1>7. Chained(new, num, [b \in 0 .. num - 1 |-> << >>], {}, hashv)
  <2> DEFINE d == [b \in 0 .. num - 1 |-> << >>]
  <2>1. d \in [0 .. num - 1 -> Seq(Elts)] /\ \A b \in 0 .. num - 1 : d[b] = << >>
    BY EmptySeq
  <2>2. EmptyBucket.head = Null /\ EmptyBucket.count = 0 /\ Len(<< >>) = 0
    BY DEF EmptyBucket
  <2>3. Listed(Null, new.hnext, new.hprev, << >>) /\ ToSet(<< >>) = {}
    BY ListedEmpty
  <2> HIDE DEF d
  <2> QED
    BY <1>1, <1>2, <1>6, <2>1, <2>2, <2>3 DEF Chained
<1>8. First \in W[0]
  <2>1. Firsts(thh, 0) = {}
    BY DEF Firsts
  <2>2. First \in States /\ First.tbl = new
    BY <1>6
  <2>3. IsIn(First, 0)
    BY <1>6, <1>7, <2>1, <2>2
  <2> HIDE DEF IsIn, First, States
  <2> QED
    BY <1>5, <2>2, <2>3
<1>9. ASSUME NEW k \in 1 .. N, NEW g \in W[k - 1] PROVE g \in States /\ Turned(g, k) \in W[k]
  <2>1. k - 1 \in 0 .. N /\ k \in 0 .. N /\ thh[k] \in Elts
    BY <1>4, <1>5, ElementOfSeq
  <2>2. g \in States /\ IsIn(g, k - 1)
    <3> HIDE DEF IsIn, States
    <3> QED
      BY <2>1
  <2>3. thh[k] \notin Firsts(thh, k - 1)
    BY <1>4, <1>5 DEF Distinct, Firsts
  <2>4. Firsts(thh, k) = Firsts(thh, k - 1) \cup {thh[k]}
    <3>1. k - 1 \in Nat /\ (k - 1) + 1 = k
      OBVIOUS
    <3> QED
      BY <3>1, FirstsGrow
  <2>5. /\ Turned(g, k) \in States /\ SameOrder(Turned(g, k).tbl, h)
        /\ \E d : Chained(Turned(g, k).tbl, num, d, Firsts(thh, k - 1) \cup {thh[k]}, hashv)
    BY <1>3, <2>1, <2>2, <2>3, MoveIs
  <2>6. IsIn(Turned(g, k), k)
    BY <2>4, <2>5
  <2> HIDE DEF IsIn, States, Turned
  <2> QED
    BY <2>1, <2>2, <2>5, <2>6
<1> HIDE DEF Turned, First, IsIn, States
<1>10. Leads(N, W, First, D)
  <2>1. ASSUME NEW k \in 1 .. N, NEW g \in W[k - 1] PROVE D[<<g, k>>] \in W[k]
    <3>1. g \in States /\ Turned(g, k) \in W[k]
      BY <1>9
    <3>2. D[<<g, k>>] = Turned(g, k)
      BY <3>1
    <3> QED
      BY <3>1, <3>2
  <2> HIDE DEF D, W
  <2> QED
    BY <1>8, <2>1 DEF Leads
<1> HIDE DEF W, D, N
<1>11. PICK f : IsLoop(f, N, First, D)
  BY <1>5, <1>10, LoopExists
<1>12. \A k \in 0 .. N : f[k] \in W[k]
  BY <1>5, <1>10, <1>11, LoopStates
<1>13. IsMoved(f)
  <2>1. \A k \in 1 .. N : k - 1 \in 0 .. N
    BY <1>5
  <2>2. ASSUME NEW k \in 1 .. N PROVE D[<<f[k - 1], k>>] = Turned(f[k - 1], k)
    <3>1. f[k - 1] \in States
      BY <1>9, <1>12, <2>1
    <3> QED
      BY <3>1 DEF D
  <2>3. \A k \in 0 .. N : (IF k = 0 THEN First ELSE D[<<f[k - 1], k>>])
                        = (IF k = 0 THEN First ELSE Turned(f[k - 1], k))
    BY <1>5, <2>2
  <2>4. f = [k \in 0 .. N |-> IF k = 0 THEN First ELSE D[<<f[k - 1], k>>]]
    BY <1>11 DEF IsLoop
  <2> QED
    BY <2>3, <2>4, Zenon
<1>14. IsMoved(moved)
  <2> HIDE DEF IsMoved
  <2> QED
    BY <1>13
<1> DEFINE all == moved[N]
           ineff == IF all.nonideal > h.items \div 2 THEN h.ineff + 1 ELSE 0
           x == [all.tbl EXCEPT !.ineff = ineff, !.noexpand = @ \/ ineff > 1]
<1>15. ExpandBuckets(h) = x
  BY <1>1 DEF ExpandBuckets, Turned, First, N, num, thh, new, ideal
<1> HIDE DEF moved
<1>16. moved[0] = First /\ \A k \in 1 .. N : moved[k] = Turned(moved[k - 1], k)
  BY <1>5, <1>14
<1>17. moved[N] \in W[N]
  <2>1. \A k \in 1 .. N : moved[k - 1] \in W[k - 1] => moved[k] \in W[k]
    BY <1>9, <1>16
  <2>2. \A k \in 0 .. N : moved[k] \in W[k]
    BY <1>5, <1>8, <1>16, <2>1, LoopInvariant
  <2> QED
    BY <1>5, <2>2
<1>18. all \in States /\ IsIn(all, N)
  BY <1>5, <1>17 DEF W
<1> HIDE DEF all
<1>19. Firsts(thh, N) = S
  <2>1. ToSet(thh) = {thh[i] : i \in 1 .. Len(thh)}
    BY <1>4, ElementsOf
  <2> QED
    BY <1>4, <2>1 DEF Firsts, N
<1>20. PICK d : Chained(all.tbl, num, d, S, hashv)
  BY <1>18, <1>19 DEF IsIn
<1>21. SameOrder(all.tbl, h) /\ all.tbl \in Table(num)
  BY <1>18 DEF IsIn, States
<1>22. ineff \in Nat
  BY <1>1 DEF Table
<1> HIDE DEF ineff
<1>23. (all.tbl.noexpand \/ ineff > 1) \in BOOLEAN
  OBVIOUS
<1>24. /\ x \in Table(num) /\ x.hnext = all.tbl.hnext /\ x.hprev = all.tbl.hprev
       /\ x.buckets = all.tbl.buckets /\ SameOrder(x, all.tbl)
  <2> DEFINE y == all.tbl.noexpand \/ ineff > 1
  <2>1. y \in BOOLEAN
    BY <1>23
  <2>2. x = [all.tbl EXCEPT !.ineff = ineff, !.noexpand = y]
    OBVIOUS
  <2> HIDE DEF x, y
  <2> QED
    BY <1>21, <1>22, <2>1, <2>2 DEF Table, SameOrder
<1> HIDE DEF x
<1>25. Chained(x, num, d, S, hashv)
  BY <1>20, <1>24, SameChains
<1>26. SameOrder(x, h)
  BY <1>21, <1>24 DEF SameOrder
<1> QED
  BY <1>15, <1>25, <1>26 DEF num

\* An element comes into its bucket, and the buckets are expanded if it is full.
LEMMA AddToBktIs ==
  ASSUME NEW h, NEW n, NEW ch, NEW S, Chained(h, n, ch, S, hashv), NEW e \in Elts, e \notin S,
         S # {} => h.items > 0
  PROVE  /\ \E m, d : Chained(AddToBkt(h, e), m, d, S \cup {e}, hashv)
         /\ SameOrder(AddToBkt(h, e), h)
<1> DEFINE b == hashv[e] % n
           g == Push(h, b, e)
           full == g.buckets[b].count >= (g.buckets[b].mult + 1) * Thresh /\ ~g.noexpand
           d == [ch EXCEPT ![b] = <<e>> \o @]
<1>1. n \in Nat \ {0} /\ h \in Table(n) /\ hashv \in [Elts -> Nat] /\ NumBuckets(h) = n
  <2>1. NumBuckets(h) = n
    BY Buckets
  <2> QED
    BY <2>1 DEF Chained
<1>2. b \in 0 .. n - 1
  BY <1>1, BucketOf
<1>3. AddToBkt(h, e) = IF full THEN ExpandBuckets(g) ELSE g
  BY <1>1 DEF AddToBkt, Bkt
<1>4. Chained(g, n, d, S \cup {e}, hashv)
  BY PushIs
<1>5. SameOrder(g, h) /\ g \in Table(n) /\ g.buckets[b].count = h.buckets[b].count + 1
  <2> HIDE DEF b
  <2> QED
    BY <1>1, <1>2, PushSets
<1> HIDE DEF d
<1>6. ASSUME full PROVE g.items > 0
  <2>1. g.buckets[b].mult \in Nat /\ h.buckets[b].count \in Nat
    <3> HIDE DEF g, b
    <3> QED
      BY <1>1, <1>2, <1>5 DEF Table
  <2>2. (g.buckets[b].mult + 1) * Thresh >= Thresh /\ Thresh >= 2
    <3>1. Thresh \in Nat \ {0} /\ Thresh >= 2
      BY HashAssumption
    <3> QED
      BY <2>1, <3>1, Arithmetic
  <2>3. h.buckets[b].count > 0
    <3>1. (g.buckets[b].mult + 1) * Thresh \in Int
      BY <2>1, HashAssumption
    <3> HIDE DEF g, b
    <3> QED
      BY <1>5, <1>6, <2>1, <2>2, <3>1, HashAssumption
  <2> HIDE DEF g, b
  <2>4. ch[b] \in Seq(Elts) /\ h.buckets[b].count = Len(ch[b])
    BY <1>2 DEF Chained
  <2>5. ToSet(ch[b]) # {}
    BY <2>3, <2>4, ElementsOf, EmptySeq
  <2>6. S # {}
    <3>1. PICK x : x \in ToSet(ch[b])
      BY <2>5
    <3>2. x \in Elts
      BY <2>4, <3>1, ElementsOf
    <3>3. x \in S
      BY <1>2, <3>1, <3>2 DEF Chained
    <3> QED
      BY <3>3
  <2> QED
    BY <1>5, <2>6 DEF SameOrder
<1>7. CASE full
  <2>1. /\ \E c : Chained(ExpandBuckets(g), 2 * n, c, S \cup {e}, hashv)
        /\ SameOrder(ExpandBuckets(g), g)
    <3> HIDE DEF g, b
    <3> QED
      BY <1>4, <1>6, <1>7, ExpandIs
  <2> HIDE DEF g, full
  <2>2. SameOrder(ExpandBuckets(g), h)
    BY <1>5, <2>1 DEF SameOrder
  <2> QED
    BY <1>3, <1>7, <2>1, <2>2
<1>8. CASE ~full
  <2> HIDE DEF g, full
  <2> QED
    BY <1>3, <1>4, <1>5, <1>8
<1> QED
  BY <1>7, <1>8

\* h is a table of the elements of ord, whose order of the application that is.
HashIs(h, ord, hv) ==
  /\ \E n, ch : Chained(h, n, ch, ToSet(ord), hv)
  /\ Listed(h.head, h.next, h.prev, ord)
  /\ h.items = Len(ord)

\* The tail of a table is its last element.
Tailed(h, ord) == ord # << >> => h.tail = ord[Len(ord)]

LEMMA HashTypes ==
  ASSUME NEW h, NEW ord, NEW hv, HashIs(h, ord, hv)
  PROVE  /\ \E n \in Nat \ {0} : h \in Table(n)
         /\ hv \in [Elts -> Nat] /\ ord \in Seq(Elts) /\ Distinct(ord) /\ Len(ord) \in Nat
         /\ h.head \in Pointers /\ h.tail \in Pointers /\ h.filter \in SUBSET Nat
         /\ h.next \in Links /\ h.prev \in Links
         /\ h.head = Null <=> ord = << >>
<1>1. PICK n, ch : Chained(h, n, ch, ToSet(ord), hv)
  BY DEF HashIs
<1>2. n \in Nat \ {0} /\ h \in Table(n) /\ hv \in [Elts -> Nat]
  BY <1>1 DEF Chained
<1>3. ord \in Seq(Elts) /\ Distinct(ord) /\ h.head = IF ord = << >> THEN Null ELSE ord[1]
  BY DEF HashIs, Listed
<1>4. Len(ord) \in Nat
  BY <1>3, LenProperties
<1>5. ord # << >> => ord[1] # Null
  <2>1. ord # << >> => 1 \in 1 .. Len(ord)
    BY <1>3, <1>4, EmptySeq
  <2> QED
    BY <1>3, <2>1, ElementOfSeq, HashAssumption
<1>6. /\ h.head \in Pointers /\ h.tail \in Pointers /\ h.filter \in SUBSET Nat
      /\ h.next \in Links /\ h.prev \in Links
  BY <1>2 DEF Table
<1> QED
  BY <1>2, <1>3, <1>4, <1>5, <1>6

\* A new table has no elements; HASH_MAKE_TABLE leaves them to be added.
LEMMA MakeTableIs ==
  ASSUME NEW x \in Pointers, hashv \in [Elts -> Nat]
  PROVE  /\ MakeTable(x) \in Table(InitBuckets)
         /\ Chained(MakeTable(x), InitBuckets, [b \in 0 .. InitBuckets - 1 |-> << >>], {}, hashv)
         /\ MakeTable(x).head = x /\ MakeTable(x).tail = x /\ MakeTable(x).items = 0
         /\ MakeTable(x).next = Unlinked /\ MakeTable(x).prev = Unlinked /\ MakeTable(x).filter = {}
         /\ Unlinked \in Links /\ \A e \in Elts : Unlinked[e] = Null
<1> DEFINE h == MakeTable(x)
           n == InitBuckets
           B == [b \in 0 .. n - 1 |-> EmptyBucket]
           d == [b \in 0 .. n - 1 |-> << >>]
<1>1. n \in Nat \ {0}
  BY HashAssumption
<1>2. Unlinked \in Links /\ \A e \in Elts : Unlinked[e] = Null
  BY DEF Unlinked, Links
<1>3. EmptyBucket \in [head : Pointers, count : Nat, mult : Nat]
  BY DEF EmptyBucket, Pointers
<1>4. B \in [0 .. n - 1 -> [head : Pointers, count : Nat, mult : Nat]]
      /\ \A b \in 0 .. n - 1 : B[b] = EmptyBucket
  BY <1>3
<1> HIDE DEF B
<1>5. /\ h \in Table(n) /\ h.buckets = B
      /\ h.head = x /\ h.tail = x /\ h.items = 0 /\ h.next = Unlinked /\ h.prev = Unlinked
      /\ h.filter = {}
  BY <1>2, <1>4 DEF MakeTable, Table, B
<1>6. d \in [0 .. n - 1 -> Seq(Elts)] /\ \A b \in 0 .. n - 1 : d[b] = << >>
  BY EmptySeq
<1>7. EmptyBucket.head = Null /\ EmptyBucket.count = 0 /\ Len(<< >>) = 0
  BY DEF EmptyBucket
<1>8. Listed(Null, h.hnext, h.hprev, << >>) /\ ToSet(<< >>) = {}
  BY ListedEmpty
<1> HIDE DEF d, h
<1>9. Chained(h, n, d, {}, hashv)
  BY <1>1, <1>4, <1>5, <1>6, <1>7, <1>8 DEF Chained
<1> QED
  BY <1>2, <1>5, <1>9 DEF h, d

LEMMA NoTableIs ==
  ASSUME hashv \in [Elts -> Nat]
  PROVE  HashIs(NoTable, << >>, hashv) /\ NoTable.head = Null /\ NoTable.filter = {}
<1>1. Null \in Pointers
  BY DEF Pointers
<1>2. /\ Chained(NoTable, InitBuckets, [b \in 0 .. InitBuckets - 1 |-> << >>], {}, hashv)
      /\ NoTable.head = Null /\ NoTable.items = 0 /\ NoTable.filter = {}
  BY <1>1, MakeTableIs DEF NoTable
<1>3. Listed(Null, NoTable.next, NoTable.prev, << >>) /\ ToSet(<< >>) = {}
  BY ListedEmpty
<1>4. Len(<< >>) = 0
  BY EmptySeq
<1> HIDE DEF NoTable
<1> QED
  BY <1>2, <1>3, <1>4 DEF HashIs

\* The filter of h lets all elements of ord pass.
Filtered(h, ord, hv, bits) == bits # 0 => \A e \in ToSet(ord) : hv[e] % bits \in h.filter

LEMMA BloomAddIs ==
  ASSUME NEW h, NEW n, NEW ch, NEW S, Chained(h, n, ch, S, hashv), NEW e \in Elts, bloom \in Nat
  PROVE  LET g == BloomAdd(h, e) IN
         /\ Chained(g, n, ch, S, hashv)
         /\ g.head = h.head /\ g.tail = h.tail /\ g.items = h.items /\ g.next = h.next /\ g.prev = h.prev
         /\ h.filter \subseteq g.filter /\ (bloom # 0 => hashv[e] % bloom \in g.filter)
<1> DEFINE k == hashv[e] % bloom
           f == h.filter \cup {k}
           g == [h EXCEPT !.filter = f]
<1>1. n \in Nat \ {0} /\ h \in Table(n) /\ hashv \in [Elts -> Nat]
  BY DEF Chained
<1>2. CASE bloom = 0
  BY <1>2 DEF BloomAdd
<1>3. CASE bloom # 0
  <2>1. k \in Nat
    <3>1. hashv[e] \in Nat /\ bloom \in Nat \ {0}
      BY <1>1, <1>3
    <3> QED
      BY <3>1, Arithmetic
  <2>2. h.filter \in SUBSET Nat
    BY <1>1 DEF Table
  <2>3. f \in SUBSET Nat
    BY <2>1, <2>2
  <2>4. BloomAdd(h, e) = g
    BY <1>3 DEF BloomAdd
  <2>5. k \in f /\ h.filter \subseteq f
    OBVIOUS
  <2> HIDE DEF f
  <2>6. /\ g \in Table(n) /\ g.buckets = h.buckets /\ g.hnext = h.hnext /\ g.hprev = h.hprev
        /\ g.head = h.head /\ g.tail = h.tail /\ g.items = h.items /\ g.next = h.next /\ g.prev = h.prev
        /\ g.filter = f
    BY <1>1, <2>3 DEF Table
  <2> HIDE DEF g
  <2>7. Chained(g, n, ch, S, hashv)
    BY <2>6, SameChains
  <2> QED
    BY <2>4, <2>5, <2>6, <2>7
<1> QED
  BY <1>2, <1>3

\* HASH_ADD: the element comes last.
LEMMA AddIs ==
  ASSUME NEW h, NEW ord, HashIs(h, ord, hashv), Tailed(h, ord), bloom \in Nat,
         NEW e \in Elts, e \notin ToSet(ord)
  PROVE  /\ HashIs(Add(h, e), Append(ord, e), hashv)
         /\ Tailed(Add(h, e), Append(ord, e))
         /\ Filtered(h, ord, hashv, bloom) => Filtered(Add(h, e), Append(ord, e), hashv, bloom)
<1> DEFINE t == Append(ord, e)
           g == IF h.head = Null THEN MakeTable(e)
                ELSE [h EXCEPT !.next = Link([@ EXCEPT ![e] = Null], h.tail, e),
                               !.prev[e] = h.tail, !.tail = e]
           p == [g EXCEPT !.items = @ + 1]
           q == AddToBkt(p, e)
           r == BloomAdd(q, e)
<1>1. /\ hashv \in [Elts -> Nat] /\ ord \in Seq(Elts) /\ Distinct(ord) /\ Len(ord) \in Nat
      /\ h.next \in Links /\ h.prev \in Links /\ h.filter \in SUBSET Nat
      /\ h.head = Null <=> ord = << >>
  BY HashTypes
<1>2. /\ t \in Seq(Elts) /\ ToSet(t) = ToSet(ord) \cup {e} /\ Len(t) = Len(ord) + 1 /\ t[Len(t)] = e
      /\ t # << >>
  BY <1>1, AppendedIs, AppendProperties
<1>3. e \in Pointers /\ Null \in Pointers
  BY DEF Pointers
<1>4. /\ \E n, ch : Chained(g, n, ch, ToSet(ord), hashv)
      /\ Listed(g.head, g.next, g.prev, t) /\ g.tail = e /\ g.items = Len(ord)
      /\ ord # << >> => g.filter = h.filter
  <2>1. CASE h.head = Null
    <3>1. /\ Chained(g, InitBuckets, [b \in 0 .. InitBuckets - 1 |-> << >>], {}, hashv)
          /\ g.head = e /\ g.tail = e /\ g.items = 0
          /\ g.next = Unlinked /\ g.prev = Unlinked /\ Unlinked[e] = Null
      BY <1>1, <1>3, <2>1, MakeTableIs
    <3>2. ord = << >> /\ ToSet(ord) = {} /\ Len(ord) = 0
      BY <1>1, <2>1, ElementsOf, EmptySeq
    <3>3. Distinct(t) /\ Len(t) = 1 /\ t[1] = e
      BY <1>1, <1>2, <3>2 DEF Distinct
    <3>4. Listed(e, Unlinked, Unlinked, t)
      BY <1>2, <3>1, <3>3 DEF Listed
    <3> QED
      BY <1>1, <2>1, <3>1, <3>2, <3>4
  <2>2. CASE h.head # Null
    <3> DEFINE z == ord[Len(ord)]
               x == Link(With(h.next, e, Null), z, e)
               y == With(h.prev, e, z)
    <3>1. ord # << >> /\ h.tail = z
      BY <1>1, <2>2 DEF Tailed
    <3>2. /\ Listed(h.head, x, y, t)
      <4>1. Listed(h.head, h.next, h.prev, ord)
        BY DEF HashIs
      <4> QED
        BY <1>1, <3>1, <4>1, ListedAppend
    <3>3. z \in Pointers
      BY <3>1, HashTypes
    <3>4. x \in Links /\ y \in Links
      <4>1. With(h.next, e, Null) \in Links /\ y \in Links
        BY <1>1, <3>3 DEF Links, Pointers, With
      <4> QED
        BY <1>3, <3>3, <4>1, LinkIs
    <3>5. g = [h EXCEPT !.next = x, !.prev = y, !.tail = e]
      BY <2>2, <3>1 DEF With
    <3> HIDE DEF g, x, y, z
    <3>6. PICK n, ch : Chained(h, n, ch, ToSet(ord), hashv)
      BY DEF HashIs
    <3>7. h \in Table(n)
      BY <3>6 DEF Chained
    <3>8. /\ g \in Table(n) /\ g.buckets = h.buckets /\ g.hnext = h.hnext /\ g.hprev = h.hprev
          /\ g.head = h.head /\ g.tail = e /\ g.items = h.items /\ g.next = x /\ g.prev = y
          /\ g.filter = h.filter
      BY <1>3, <3>4, <3>5, <3>7 DEF Table
    <3>9. Chained(g, n, ch, ToSet(ord), hashv)
      BY <3>6, <3>8, SameChains
    <3>10. h.items = Len(ord)
      BY DEF HashIs
    <3> QED
      BY <3>2, <3>8, <3>9, <3>10
  <2> QED
    BY <2>1, <2>2
<1> HIDE DEF g
<1>5. PICK n, ch : Chained(g, n, ch, ToSet(ord), hashv)
  BY <1>4
<1>6. g \in Table(n)
  BY <1>5 DEF Chained
<1>7. /\ p \in Table(n) /\ p.items = Len(ord) + 1 /\ p.buckets = g.buckets /\ p.hnext = g.hnext
      /\ p.hprev = g.hprev /\ p.head = g.head /\ p.tail = g.tail /\ p.next = g.next /\ p.prev = g.prev
      /\ p.filter = g.filter
  BY <1>1, <1>4, <1>6 DEF Table
<1> HIDE DEF p
<1>8. Chained(p, n, ch, ToSet(ord), hashv)
  BY <1>5, <1>7, SameChains
<1>9. (\E m, d : Chained(q, m, d, ToSet(t), hashv)) /\ SameOrder(q, p)
  <2>1. p.items > 0
    BY <1>1, <1>7
  <2>2. /\ \E m, d : Chained(q, m, d, ToSet(ord) \cup {e}, hashv)
        /\ SameOrder(q, p)
    BY <1>8, <2>1, AddToBktIs
  <2> QED
    BY <1>2, <2>2
<1> HIDE DEF q
<1>10. PICK m, d : Chained(q, m, d, ToSet(t), hashv)
  BY <1>9
<1>11. /\ Chained(r, m, d, ToSet(t), hashv)
       /\ r.head = q.head /\ r.tail = q.tail /\ r.items = q.items /\ r.next = q.next /\ r.prev = q.prev
       /\ q.filter \subseteq r.filter /\ (bloom # 0 => hashv[e] % bloom \in r.filter)
  BY <1>10, BloomAddIs
<1> HIDE DEF r
<1>12. r.head = g.head /\ r.tail = e /\ r.items = Len(t) /\ r.next = g.next /\ r.prev = g.prev
       /\ q.filter = g.filter
  BY <1>2, <1>4, <1>7, <1>9, <1>11 DEF SameOrder
<1>13. HashIs(r, t, hashv) /\ Tailed(r, t)
  BY <1>2, <1>4, <1>11, <1>12 DEF HashIs, Tailed
<1>14. ASSUME Filtered(h, ord, hashv, bloom) PROVE Filtered(r, t, hashv, bloom)
  <2>1. ord = << >> => ToSet(ord) = {}
    BY <1>1, ElementsOf
  <2>2. ASSUME bloom # 0, NEW x \in ToSet(ord) PROVE hashv[x] % bloom \in r.filter
    BY <1>4, <1>11, <1>12, <1>14, <2>1, <2>2 DEF Filtered
  <2> QED
    BY <1>2, <1>11, <2>2 DEF Filtered
<1>15. Add(h, e) = r
  BY DEF Add, g, p, q, r
<1> QED
  BY <1>13, <1>14, <1>15

\* The same where the first element is told by a comparison.
LEMMA HeadCut ==
  ASSUME NEW first, NEW next \in Links, NEW prev \in Links, NEW s, Listed(first, next, prev, s),
         NEW k \in 1 .. Len(s), NEW e, s[k] = e
  PROVE  Listed(IF first = e THEN next[e] ELSE first, Link(With(next, e, Null), prev[e], next[e]),
                Link(With(prev, e, Null), next[e], prev[e]), Cut(s, k))
<1>1. /\ Listed(IF prev[s[k]] = Null THEN next[s[k]] ELSE first,
                Link(With(next, s[k], Null), prev[s[k]], next[s[k]]),
                Link(With(prev, s[k], Null), next[s[k]], prev[s[k]]), Cut(s, k))
      /\ first = s[k] <=> prev[s[k]] = Null
  BY ListedCut
<1>2. (IF prev[s[k]] = Null THEN next[s[k]] ELSE first) = (IF first = s[k] THEN next[s[k]] ELSE first)
  BY <1>1
<1> QED
  BY <1>1, <1>2

\* An element leaves its bucket.
LEMMA DelInBktIs ==
  ASSUME NEW h, NEW n, NEW ch, NEW S, Chained(h, n, ch, S, hashv), NEW e \in S
  PROVE  /\ \E d : Chained(DelInBkt(h, e), n, d, S \ {e}, hashv)
         /\ SameOrder(DelInBkt(h, e), h)
<1> DEFINE b == hashv[e] % n
           pre == h.hprev[e]
           post == h.hnext[e]
           f == IF h.buckets[b].head = e THEN post ELSE h.buckets[b].head
           B == [h.buckets[b] EXCEPT !.count = @ - 1, !.head = f]
           C == [h.buckets EXCEPT ![b] = B]
           X == Link(With(h.hnext, e, Null), pre, post)
           Y == Link(With(h.hprev, e, Null), post, pre)
           g == [h EXCEPT !.buckets = C, !.hnext = X, !.hprev = Y]
<1>1. /\ n \in Nat \ {0} /\ h \in Table(n) /\ hashv \in [Elts -> Nat] /\ NumBuckets(h) = n
      /\ ch \in [0 .. n - 1 -> Seq(Elts)] /\ S \subseteq Elts /\ e \in Elts
  <2>1. NumBuckets(h) = n
    BY Buckets
  <2> QED
    BY <2>1 DEF Chained
<1>2. b \in 0 .. n - 1
  BY <1>1, BucketOf
<1>3. /\ h.buckets \in [0 .. n - 1 -> [head : Pointers, count : Nat, mult : Nat]]
      /\ h.buckets[b] \in [head : Pointers, count : Nat, mult : Nat]
      /\ h.hnext \in Links /\ h.hprev \in Links
  BY <1>1, <1>2 DEF Table
<1>4. DelInBkt(h, e) = g
  <2>1. DelInBkt(h, e) = [h EXCEPT !.buckets[b].count = @ - 1,
                                   !.buckets[b].head = IF @ = e THEN post ELSE @,
                                   !.hnext = Link([@ EXCEPT ![e] = Null], pre, post),
                                   !.hprev = Link([@ EXCEPT ![e] = Null], post, pre)]
    BY <1>1 DEF DelInBkt, Bkt
  <2> HIDE DEF b, pre, post
  <2> QED
    BY <1>2, <1>3, <2>1, ZenonT(60) DEF With, Table
<1>5. \A c \in 0 .. n - 1 : \A x \in Elts : x \in ToSet(ch[c]) <=> x \in S /\ hashv[x] % n = c
  BY DEF Chained
<1>6. ASSUME NEW c \in 0 .. n - 1
      PROVE Listed(h.buckets[c].head, h.hnext, h.hprev, ch[c]) /\ h.buckets[c].count = Len(ch[c])
  BY DEF Chained
<1>7. ASSUME NEW c \in 0 .. n - 1, NEW x \in ToSet(ch[c]) PROVE x \in Elts /\ x \in S /\ hashv[x] % n = c
  <2>1. x \in Elts
    BY <1>1, <1>7, ElementsOf
  <2> QED
    BY <1>5, <2>1
<1>8. e \in ToSet(ch[b])
  BY <1>1, <1>2, <1>5
<1> HIDE DEF b
<1>9. PICK k \in 1 .. Len(ch[b]) : ch[b][k] = e
  BY <1>1, <1>2, <1>8, ElementsOf
<1> DEFINE u == Cut(ch[b], k)
           d == [ch EXCEPT ![b] = u]
<1>10. Listed(f, X, Y, u)
  <2> DEFINE first == h.buckets[b].head
             next == h.hnext
             prev == h.hprev
             s == ch[b]
  <2>1. next \in Links /\ prev \in Links /\ Listed(first, next, prev, s) /\ k \in 1 .. Len(s) /\ s[k] = e
    BY <1>2, <1>3, <1>6, <1>9
  <2> HIDE DEF first, next, prev, s
  <2>2. Listed(IF first = e THEN next[e] ELSE first, Link(With(next, e, Null), prev[e], next[e]),
               Link(With(prev, e, Null), next[e], prev[e]), Cut(s, k))
    BY <2>1, HeadCut
  <2> QED
    BY <2>2 DEF first, next, prev, s
<1>11. u \in Seq(Elts) /\ Len(u) = Len(ch[b]) - 1 /\ ToSet(u) = ToSet(ch[b]) \ {e} /\ Len(ch[b]) \in Nat
  <2>1. ch[b] \in Seq(Elts) /\ Distinct(ch[b])
    BY <1>2, <1>6 DEF Listed
  <2> QED
    BY <1>9, <2>1, CutIs, LenProperties
<1>12. (pre # Null => pre \in ToSet(ch[b])) /\ (post # Null => post \in ToSet(ch[b]))
  <2>1. Listed(h.buckets[b].head, h.hnext, h.hprev, ch[b])
    BY <1>2, <1>6
  <2>2. /\ post = IF k < Len(ch[b]) THEN ch[b][k + 1] ELSE Null
        /\ pre = IF 1 < k THEN ch[b][k - 1] ELSE Null
    BY <1>9, <2>1 DEF Listed
  <2>3. (k < Len(ch[b]) => k + 1 \in 1 .. Len(ch[b])) /\ (1 < k => k - 1 \in 1 .. Len(ch[b]))
    BY <1>11
  <2>4. ch[b] \in Seq(Elts)
    BY <1>1, <1>2
  <2> QED
    BY <2>2, <2>3, <2>4, ElementsOf
<1>13. pre \in Pointers /\ post \in Pointers
  BY <1>1, <1>3 DEF Links, Pointers
<1>14. f \in Pointers
  BY <1>3, <1>13
<1> HIDE DEF u, pre, post, f
<1>15. /\ X \in Links /\ Y \in Links
       /\ \A y \in Elts : X[y] = IF y = pre THEN post ELSE With(h.hnext, e, Null)[y]
       /\ \A y \in Elts : Y[y] = IF y = post THEN pre ELSE With(h.hprev, e, Null)[y]
  <2>1. With(h.hnext, e, Null) \in Links /\ With(h.hprev, e, Null) \in Links
    BY <1>3 DEF Links, With
  <2> QED
    BY <1>13, <2>1, LinkIs
<1>16. /\ B \in [head : Pointers, count : Nat, mult : Nat] /\ B.head = f
       /\ B.count = h.buckets[b].count - 1
  <2> DEFINE r == h.buckets[b]
  <2>1. B = [r EXCEPT !.count = @ - 1, !.head = f]
    OBVIOUS
  <2>2. r = [head |-> r.head, count |-> r.count, mult |-> r.mult] /\ r.count \in Nat /\ r.mult \in Nat
    BY <1>3
  <2>3. r.count - 1 \in Nat
    <3>1. r.count = Len(ch[b])
      BY <1>2, <1>6
    <3> QED
      BY <1>9, <1>11, <3>1
  <2> HIDE DEF r, B
  <2>4. B = [head |-> f, count |-> r.count - 1, mult |-> r.mult]
    BY <2>1, <2>2
  <2> QED
    BY <1>14, <2>2, <2>3, <2>4 DEF r
<1> HIDE DEF B, X, Y
<1>17. /\ C \in [0 .. n - 1 -> [head : Pointers, count : Nat, mult : Nat]]
       /\ C[b] = B /\ \A c \in 0 .. n - 1 : c # b => C[c] = h.buckets[c]
  BY <1>2, <1>3, <1>16
<1> HIDE DEF C
<1>18. /\ g \in Table(n) /\ g.buckets = C /\ g.hnext = X /\ g.hprev = Y /\ SameOrder(g, h)
  BY <1>1, <1>15, <1>17 DEF Table, SameOrder
<1> HIDE DEF g
<1>19. /\ d \in [0 .. n - 1 -> Seq(Elts)] /\ d[b] = u /\ \A c \in 0 .. n - 1 : c # b => d[c] = ch[c]
  BY <1>1, <1>2, <1>11
<1> HIDE DEF d
<1>20. ASSUME NEW c \in 0 .. n - 1
       PROVE  /\ Listed(g.buckets[c].head, g.hnext, g.hprev, d[c])
              /\ g.buckets[c].count = Len(d[c])
              /\ \A x \in Elts : x \in ToSet(d[c]) <=> x \in S \ {e} /\ hashv[x] % n = c
  <2>1. CASE c = b
    <3>1. Listed(g.buckets[c].head, g.hnext, g.hprev, d[c])
      BY <1>10, <1>16, <1>17, <1>18, <1>19, <2>1
    <3>2. g.buckets[c].count = Len(d[c])
      BY <1>2, <1>6, <1>11, <1>16, <1>17, <1>18, <1>19, <2>1
    <3>3. \A x \in Elts : x \in ToSet(d[c]) <=> x \in S \ {e} /\ hashv[x] % n = c
      BY <1>2, <1>5, <1>11, <1>19, <2>1
    <3> QED
      BY <3>1, <3>2, <3>3
  <2>2. CASE c # b
    <3>1. d[c] = ch[c] /\ g.buckets[c] = h.buckets[c]
      BY <1>17, <1>18, <1>19, <2>2
    <3>2. ASSUME NEW x \in ToSet(ch[c]) PROVE g.hnext[x] = h.hnext[x] /\ g.hprev[x] = h.hprev[x]
      <4>1. x \in Elts /\ x \in S /\ hashv[x] % n = c
        BY <1>7
      <4>2. x # e /\ x \notin ToSet(ch[b])
        BY <1>2, <1>8, <1>7, <2>2, <4>1
      <4>3. x # pre /\ x # post
        BY <1>12, <4>1, <4>2, HashAssumption
      <4> QED
        BY <1>3, <1>15, <1>18, <4>1, <4>2, <4>3 DEF Links, With
    <3>3. Listed(h.buckets[c].head, g.hnext, g.hprev, ch[c])
      <4>1. Listed(h.buckets[c].head, h.hnext, h.hprev, ch[c])
        BY <1>6
      <4> QED
        BY <3>2, <4>1, ListedFrame
    <3>4. \A x \in Elts : x \in ToSet(d[c]) <=> x \in S \ {e} /\ hashv[x] % n = c
      <4>1. e \notin ToSet(ch[c])
        BY <1>7, <1>2, <1>8, <2>2
      <4> QED
        BY <1>5, <3>1, <4>1
    <3> QED
      BY <1>6, <3>1, <3>3, <3>4
  <2> QED
    BY <2>1, <2>2
<1>21. Chained(g, n, d, S \ {e}, hashv)
  <2>1. S \ {e} \subseteq Elts
    BY <1>1
  <2> QED
    BY <1>1, <1>18, <1>19, <1>20, <2>1 DEF Chained
<1> QED
  BY <1>4, <1>18, <1>21

\* HASH_DELETE: an element is taken out.
LEMMA DeleteIs ==
  ASSUME NEW h, NEW ord, HashIs(h, ord, hashv), NEW k \in 1 .. Len(ord)
  PROVE  LET g == Delete(h, ord[k]) IN
         /\ HashIs(g, Cut(ord, k), hashv)
         /\ Tailed(h, ord) => Tailed(g, Cut(ord, k))
         /\ \A bits : Filtered(h, ord, hashv, bits) => Filtered(g, Cut(ord, k), hashv, bits)
<1> DEFINE e == ord[k]
           t == Cut(ord, k)
           pre == h.prev[e]
           post == h.next[e]
           g == Delete(h, e)
<1>1. /\ hashv \in [Elts -> Nat] /\ ord \in Seq(Elts) /\ Distinct(ord) /\ Len(ord) \in Nat
      /\ h.next \in Links /\ h.prev \in Links /\ h.filter \in SUBSET Nat /\ h.head \in Pointers
      /\ h.tail \in Pointers
  BY HashTypes
<1>2. e \in Elts /\ e # Null
  BY <1>1, ElementOfSeq, HashAssumption
<1>3. /\ t \in Seq(Elts) /\ Len(t) = Len(ord) - 1 /\ ToSet(t) = ToSet(ord) \ {e}
      /\ \A i \in 1 .. Len(ord) - 1 : t[i] = IF i < k THEN ord[i] ELSE ord[i + 1]
  BY <1>1, CutIs
<1>4. e \in ToSet(ord)
  BY <1>1, ElementsOf
<1>5. Listed(h.head, h.next, h.prev, ord) /\ h.items = Len(ord)
  BY DEF HashIs
<1>6. /\ post = IF k < Len(ord) THEN ord[k + 1] ELSE Null
      /\ pre = IF 1 < k THEN ord[k - 1] ELSE Null
  BY <1>5 DEF Listed
<1>7. (k < Len(ord) => k + 1 \in 1 .. Len(ord)) /\ (1 < k => k - 1 \in 1 .. Len(ord))
  BY <1>1
<1>8. /\ k < Len(ord) => post \in Elts /\ post # Null
      /\ 1 < k => pre \in Elts /\ pre # Null
  BY <1>1, <1>6, <1>7, ElementOfSeq, HashAssumption
<1>9. CASE pre = Null /\ post = Null
  <2>1. k = 1 /\ Len(ord) = 1
    <3> HIDE DEF pre, post, e
    <3>1. ~(k < Len(ord)) /\ ~(1 < k)
      BY <1>8, <1>9
    <3> DEFINE m == Len(ord)
    <3>2. k \in 1 .. m /\ m \in Nat /\ ~(k < m) /\ ~(1 < k)
      BY <1>1, <3>1
    <3> HIDE DEF m
    <3>3. k = 1 /\ m = 1
      BY <3>2
    <3> QED
      BY <3>3 DEF m
  <2>2. t = << >>
    BY <1>3, <2>1, EmptySeq
  <2>3. g = NoTable
    BY <1>9 DEF Delete
  <2>4. HashIs(NoTable, << >>, hashv)
    BY <1>1, NoTableIs
  <2>5. ToSet(<< >>) = {}
    BY <1>3, <2>2, ElementsOf
  <2> HIDE DEF t, g
  <2>6. HashIs(g, t, hashv)
    BY <2>2, <2>3, <2>4
  <2>7. Tailed(g, t) /\ \A bits : Filtered(g, t, hashv, bits)
    BY <2>2, <2>5 DEF Tailed, Filtered
  <2> QED
    BY <2>6, <2>7 DEF t, g
<1>10. CASE ~(pre = Null /\ post = Null)
  <2> DEFINE f == IF pre = Null THEN post ELSE h.head
             X == Link(With(h.next, e, Null), pre, post)
             Y == Link(With(h.prev, e, Null), post, pre)
             z == IF h.tail = e THEN pre ELSE h.tail
             q == [h EXCEPT !.tail = z, !.head = f, !.next = X, !.prev = Y, !.items = @ - 1]
  <2>1. g = DelInBkt(q, e)
    BY <1>10 DEF Delete, With
  <2>2. Listed(f, X, Y, t)
    <3> DEFINE first == h.head
               next == h.next
               prev == h.prev
    <3>1. Listed(first, next, prev, ord) /\ next \in Links /\ prev \in Links
      BY <1>1, <1>5
    <3> HIDE DEF first, next, prev
    <3>2. Listed(IF prev[e] = Null THEN next[e] ELSE first,
                  Link(With(next, e, Null), prev[e], next[e]),
                  Link(With(prev, e, Null), next[e], prev[e]), t)
      BY <3>1, ListedCut
    <3> QED
      BY <3>2 DEF first, next, prev
  <2> HIDE DEF t, g
  <2>3. pre \in Pointers /\ post \in Pointers
    BY <1>1, <1>2 DEF Links, Pointers
  <2>4. f \in Pointers /\ z \in Pointers
    BY <1>1, <2>3
  <2>5. X \in Links /\ Y \in Links
    <3>1. With(h.next, e, Null) \in Links /\ With(h.prev, e, Null) \in Links
      BY <1>1 DEF Links, With
    <3> QED
      BY <2>3, <3>1, LinkIs
  <2> HIDE DEF f, X, Y
  <2>6. PICK n, ch : Chained(h, n, ch, ToSet(ord), hashv)
    BY DEF HashIs
  <2>7. h \in Table(n) /\ h.items - 1 \in Nat /\ h.items - 1 = Len(t)
    BY <1>1, <1>3, <1>5, <2>6 DEF Chained
  <2>8. /\ q \in Table(n) /\ q.buckets = h.buckets /\ q.hnext = h.hnext /\ q.hprev = h.hprev
        /\ q.head = f /\ q.tail = z /\ q.items = Len(t) /\ q.next = X /\ q.prev = Y
        /\ q.filter = h.filter
    <3> HIDE DEF z
    <3> QED
      BY <2>4, <2>5, <2>7 DEF Table
  <2> HIDE DEF q
  <2>9. Chained(q, n, ch, ToSet(ord), hashv)
    BY <2>6, <2>8, SameChains
  <2>10. (\E d : Chained(g, n, d, ToSet(t), hashv)) /\ SameOrder(g, q)
    <3> HIDE DEF e
    <3>1. (\E d : Chained(DelInBkt(q, e), n, d, ToSet(ord) \ {e}, hashv)) /\ SameOrder(DelInBkt(q, e), q)
      BY <1>4, <2>9, DelInBktIs
    <3> QED
      BY <1>3, <2>1, <3>1
  <2>11. HashIs(g, t, hashv)
    BY <2>2, <2>8, <2>10 DEF HashIs, SameOrder
  <2>12. g.tail = z /\ g.filter = h.filter
    BY <2>8, <2>10 DEF SameOrder
  <2>13. ASSUME Tailed(h, ord), t # << >> PROVE g.tail = t[Len(t)]
    <3>1. ord # << >>
      BY <1>1, EmptySeq
    <3>2. h.tail = ord[Len(ord)] /\ Len(ord) > 1
      <4>1. Len(t) # 0 /\ Len(t) \in Nat
        BY <1>3, <2>13, EmptySeq, LenProperties
      <4> QED
        BY <1>1, <1>3, <2>13, <3>1, <4>1 DEF Tailed
    <3>3. CASE k = Len(ord)
      <4>1. Len(t) \in 1 .. Len(ord) - 1 /\ Len(t) < k /\ Len(t) = k - 1 /\ 1 < k
        BY <1>1, <1>3, <3>2, <3>3
      <4>2. t[Len(t)] = ord[k - 1]
        BY <1>3, <4>1
      <4> QED
        BY <1>6, <2>12, <3>2, <3>3, <4>1, <4>2
    <3>4. CASE k # Len(ord)
      <4>1. Len(t) \in 1 .. Len(ord) - 1 /\ ~(Len(t) < k) /\ Len(t) + 1 = Len(ord)
            /\ Len(ord) \in 1 .. Len(ord)
        BY <1>1, <1>3, <3>2, <3>4
      <4>2. t[Len(t)] = ord[Len(ord)]
        BY <1>3, <4>1
      <4>3. ord[Len(ord)] # e
        BY <1>1, <3>4, <4>1 DEF Distinct
      <4> QED
        BY <2>12, <3>2, <4>2, <4>3
    <3> QED
      BY <3>3, <3>4
  <2>14. Tailed(h, ord) => Tailed(g, t)
    BY <2>13 DEF Tailed
  <2>15. ASSUME NEW bits, Filtered(h, ord, hashv, bits) PROVE Filtered(g, t, hashv, bits)
    BY <1>3, <2>12, <2>15 DEF Filtered
  <2> QED
    BY <2>11, <2>14, <2>15 DEF t, g
<1> QED
  BY <1>9, <1>10

\* The order of a table is what is left when its links are followed.
LEMMA OrderIs ==
  ASSUME NEW h, NEW ord, NEW hv, HashIs(h, ord, hv)
  PROVE  Order(h) = ord
BY ListedFollow DEF HashIs, Order

\* HASH_SRT: the order is sorted, the chains stay.
LEMMA SortIs ==
  ASSUME NEW h, NEW ord, HashIs(h, ord, hashv)
  PROVE  LET g == Sort(h)
             s == MergeSorted(ord)
         IN  /\ HashIs(g, s, hashv) /\ Tailed(g, s) /\ StablySorted(ord, s)
             /\ \A bits : Filtered(h, ord, hashv, bits) => Filtered(g, s, hashv, bits)
<1> DEFINE s == MergeSorted(ord)
           g == Sort(h)
           At(e) == CHOOSE i \in DOMAIN s : s[i] = e
           Linked(links, d) == [e \in Elts |-> IF ~Contains(s, e) THEN links[e]
                                               ELSE IF At(e) + d \in DOMAIN s THEN s[At(e) + d]
                                               ELSE Null]
           X == Linked(h.next, 1)
           Y == Linked(h.prev, -1)
           q == [h EXCEPT !.next = X, !.prev = Y, !.head = Head(s), !.tail = Last(s)]
<1>1. /\ hashv \in [Elts -> Nat] /\ ord \in Seq(Elts) /\ Distinct(ord) /\ Len(ord) \in Nat
      /\ h.next \in Links /\ h.prev \in Links
  BY HashTypes
<1>2. s \in Seq(Elts) /\ Len(s) = Len(ord) /\ Distinct(s) /\ ToSet(s) = ToSet(ord) /\ StablySorted(ord, s)
  <2>1. Ranked(Elts)
    BY HashAssumption DEF Ranked
  <2> QED
    BY <1>1, <2>1, MergeSortedIs
<1>3. g = IF s = << >> THEN h ELSE q
  <2>1. Order(h) = ord
    BY OrderIs
  <2> QED
    BY <2>1 DEF Sort
<1> HIDE DEF s, g
<1>4. CASE s = << >>
  <2>1. ord = << >>
    BY <1>1, <1>2, <1>4, ElementsOf
  <2> QED
    BY <1>2, <1>3, <1>4, <2>1 DEF Tailed, s, g
<1>5. CASE s # << >>
  <2>1. Len(s) \in Nat /\ Len(s) >= 1 /\ DOMAIN s = 1 .. Len(s)
    BY <1>2, <1>5, EmptySeq, LenProperties
  <2>2. Head(s) = s[1] /\ Last(s) = s[Len(s)] /\ s[1] \in Elts /\ s[Len(s)] \in Elts
    <3>1. 1 \in 1 .. Len(s) /\ Len(s) \in 1 .. Len(s)
      BY <2>1
    <3>2. Head(s) = s[1]
      BY <1>2, <1>5, HeadTailProperties
    <3> QED
      BY <1>2, <3>1, <3>2, ElementOfSeq DEF Last
  <2>3. ASSUME NEW i \in 1 .. Len(s) PROVE At(s[i]) = i /\ Contains(s, s[i]) /\ s[i] \in Elts
    <3>1. \A j \in DOMAIN s : s[j] = s[i] <=> j = i
      BY <1>2, <2>1 DEF Distinct
    <3>2. At(s[i]) = i
      BY <2>1, <3>1
    <3>3. Contains(s, s[i])
      BY DEF Contains
    <3> QED
      BY <1>2, <3>2, <3>3, ElementOfSeq
  <2>4. ASSUME NEW e \in Elts, Contains(s, e) PROVE \E i \in 1 .. Len(s) : e = s[i]
    BY <2>4 DEF Contains
  <2> HIDE DEF At
  <2>5. ASSUME NEW d \in {-1, 1}, NEW links \in Links
        PROVE  /\ Linked(links, d) \in Links
               /\ \A i \in 1 .. Len(s) :
                    Linked(links, d)[s[i]] = IF i + d \in 1 .. Len(s) THEN s[i + d] ELSE Null
    <3>1. ASSUME NEW i \in 1 .. Len(s)
          PROVE  Linked(links, d)[s[i]] = IF i + d \in 1 .. Len(s) THEN s[i + d] ELSE Null
      BY <2>1, <2>3
    <3>2. ASSUME NEW e \in Elts PROVE Linked(links, d)[e] \in Pointers
      <4>1. CASE ~Contains(s, e)
        BY <4>1 DEF Links, Pointers
      <4>2. CASE Contains(s, e)
        <5>1. PICK i \in 1 .. Len(s) : e = s[i]
          BY <2>4, <4>2
        <5>2. Linked(links, d)[e] = IF i + d \in 1 .. Len(s) THEN s[i + d] ELSE Null
          BY <3>1, <5>1
        <5> HIDE DEF Linked
        <5> QED
          BY <1>2, <5>2, ElementOfSeq DEF Pointers
      <4> QED
        BY <4>1, <4>2
    <3>3. Linked(links, d) \in Links
      BY <3>2 DEF Links, Pointers
    <3> QED
      BY <3>1, <3>3
  <2> HIDE DEF Linked
  <2>6. /\ X \in Links /\ Y \in Links
        /\ \A i \in 1 .. Len(s) : X[s[i]] = IF i + 1 \in 1 .. Len(s) THEN s[i + 1] ELSE Null
        /\ \A i \in 1 .. Len(s) : Y[s[i]] = IF i + -1 \in 1 .. Len(s) THEN s[i + -1] ELSE Null
    BY <1>1, <2>5
  <2> HIDE DEF X, Y
  <2>7. \A i \in 1 .. Len(s) : /\ i + 1 \in 1 .. Len(s) <=> i < Len(s)
                               /\ i + -1 \in 1 .. Len(s) <=> 1 < i
                               /\ i + -1 = i - 1
    BY <2>1
  <2>8. ASSUME NEW i \in 1 .. Len(s)
        PROVE  /\ X[s[i]] = IF i < Len(s) THEN s[i + 1] ELSE Null
               /\ Y[s[i]] = IF 1 < i THEN s[i - 1] ELSE Null
    BY <2>6, <2>7
  <2>9. Listed(s[1], X, Y, s)
    BY <1>2, <1>5, <2>8 DEF Listed
  <2>10. PICK n, ch : Chained(h, n, ch, ToSet(ord), hashv)
    BY DEF HashIs
  <2>11. h \in Table(n)
    BY <2>10 DEF Chained
  <2>12. /\ q \in Table(n) /\ q.buckets = h.buckets /\ q.hnext = h.hnext /\ q.hprev = h.hprev
         /\ q.head = s[1] /\ q.tail = s[Len(s)] /\ q.items = h.items /\ q.next = X /\ q.prev = Y
         /\ q.filter = h.filter
    BY <2>2, <2>6, <2>11 DEF Table, Pointers
  <2> HIDE DEF q
  <2>13. Chained(q, n, ch, ToSet(s), hashv)
    BY <1>2, <2>10, <2>12, SameChains
  <2>14. HashIs(q, s, hashv) /\ Tailed(q, s)
    BY <1>2, <2>9, <2>12, <2>13 DEF HashIs, Tailed
  <2>15. ASSUME NEW bits, Filtered(h, ord, hashv, bits) PROVE Filtered(q, s, hashv, bits)
    BY <1>2, <2>12, <2>15 DEF Filtered
  <2>16. g = q
    BY <1>3, <1>5
  <2> QED
    BY <1>2, <2>14, <2>15, <2>16 DEF s, g
<1> QED
  BY <1>4, <1>5

TailIn(s) == IF s = << >> THEN Null ELSE s[Len(s)]

\* The body of HASH_SELECT: the element comes last, but tail is not told.
LEMMA EnterIs ==
  ASSUME NEW g, NEW ord, HashIs(g.dst, ord, hashv), g.last = TailIn(ord),
         NEW e \in Elts, e \notin ToSet(ord)
  PROVE  LET m == Enter(g, e) IN
         m = [dst |-> m.dst, last |-> e] /\ HashIs(m.dst, Append(ord, e), hashv)
<1> DEFINE d == g.dst
           t == Append(ord, e)
           h == IF d.head = Null THEN MakeTable(e) ELSE d
           X == Link(With(h.next, e, Null), g.last, e)
           Y == With(h.prev, e, g.last)
           p == [h EXCEPT !.prev = Y, !.next = X]
           q == AddToBkt(p, e)
           r == [q EXCEPT !.items = @ + 1]
<1>1. /\ hashv \in [Elts -> Nat] /\ ord \in Seq(Elts) /\ Distinct(ord) /\ Len(ord) \in Nat
      /\ d.next \in Links /\ d.prev \in Links
      /\ d.head = Null <=> ord = << >>
  BY HashTypes
<1>2. /\ t \in Seq(Elts) /\ ToSet(t) = ToSet(ord) \cup {e} /\ Len(t) = Len(ord) + 1 /\ t[Len(t)] = e
      /\ t # << >>
  BY <1>1, AppendedIs, AppendProperties
<1>3. e \in Pointers /\ Null \in Pointers
  BY DEF Pointers
<1>4. /\ \E n, ch : Chained(h, n, ch, ToSet(ord), hashv)
      /\ Listed(h.head, X, Y, t) /\ h.items = Len(ord) /\ g.last \in Pointers
      /\ h.next \in Links /\ h.prev \in Links
  <2>1. CASE d.head = Null
    <3>1. /\ Chained(h, InitBuckets, [b \in 0 .. InitBuckets - 1 |-> << >>], {}, hashv)
          /\ h.head = e /\ h.items = 0 /\ h.next = Unlinked /\ h.prev = Unlinked /\ Unlinked \in Links
      BY <1>1, <1>3, <2>1, MakeTableIs
    <3>2. ord = << >> /\ ToSet(ord) = {} /\ Len(ord) = 0 /\ g.last = Null
      BY <1>1, <2>1, ElementsOf, EmptySeq DEF TailIn
    <3>3. Distinct(t) /\ Len(t) = 1 /\ t[1] = e
      BY <1>1, <1>2, <3>2 DEF Distinct
    <3> HIDE DEF h
    <3>4. X[e] = Null /\ Y[e] = Null
      BY <3>1, <3>2 DEF With, Link, Links
    <3> HIDE DEF X, Y, t
    <3>5. Listed(e, X, Y, t)
      <4>1. \A i \in 1 .. Len(t) : t[i] = e /\ ~(i < Len(t)) /\ ~(1 < i)
        BY <3>3
      <4> QED
        BY <1>2, <3>3, <3>4, <4>1 DEF Listed
    <3> QED
      BY <1>3, <3>1, <3>2, <3>5
  <2>2. CASE d.head # Null
    <3>1. ord # << >> /\ g.last = ord[Len(ord)]
      BY <1>1, <2>2 DEF TailIn
    <3>2. h = d
      BY <2>2
    <3>3. Listed(d.head, d.next, d.prev, ord) /\ d.items = Len(ord)
      BY DEF HashIs
    <3>4. Listed(d.head, Link(With(d.next, e, Null), ord[Len(ord)], e), With(d.prev, e, ord[Len(ord)]),
                 Append(ord, e))
      <4> DEFINE first == d.head
                 next == d.next
                 prev == d.prev
      <4>1. Listed(first, next, prev, ord) /\ next \in Links /\ prev \in Links
        BY <1>1, <3>3
      <4> HIDE DEF first, next, prev
      <4>2. Listed(first, Link(With(next, e, Null), ord[Len(ord)], e), With(prev, e, ord[Len(ord)]),
                   Append(ord, e))
        BY <3>1, <4>1, ListedAppend
      <4> QED
        BY <4>2 DEF first, next, prev
    <3>5. g.last \in Pointers
      <4>1. Len(ord) \in 1 .. Len(ord)
        BY <1>1, <3>1, EmptySeq
      <4> QED
        BY <1>1, <3>1, <4>1, ElementOfSeq DEF Pointers
    <3>6. \E n, ch : Chained(d, n, ch, ToSet(ord), hashv)
      BY DEF HashIs
    <3> HIDE DEF d, h
    <3> QED
      BY <1>1, <3>1, <3>2, <3>3, <3>4, <3>5, <3>6
  <2> QED
    BY <2>1, <2>2
<1>5. X \in Links /\ Y \in Links
  <2> HIDE DEF h
  <2>1. With(h.next, e, Null) \in Links /\ Y \in Links
    BY <1>4 DEF Links, Pointers, With
  <2> QED
    BY <1>3, <1>4, <2>1, LinkIs
<1>6. Enter(g, e) = [dst |-> r, last |-> e]
  <2>1. Enter(g, e) = [dst |-> [AddToBkt([h EXCEPT !.prev[e] = g.last,
                                                   !.next = Link([@ EXCEPT ![e] = Null], g.last, e)], e)
                                EXCEPT !.items = @ + 1], last |-> e]
    BY DEF Enter
  <2>2. PICK n, ch : Chained(h, n, ch, ToSet(ord), hashv)
    BY <1>4
  <2>3. h \in Table(n)
    BY <2>2 DEF Chained
  <2> HIDE DEF h
  <2>4. [h EXCEPT !.prev[e] = g.last, !.next = Link([@ EXCEPT ![e] = Null], g.last, e)] = p
    BY <2>3 DEF With, Table
  <2> QED
    BY <2>1, <2>4
<1> HIDE DEF h
<1>7. PICK n, ch : Chained(h, n, ch, ToSet(ord), hashv)
  BY <1>4
<1>8. h \in Table(n)
  BY <1>7 DEF Chained
<1> HIDE DEF X, Y
<1>9. /\ p \in Table(n) /\ p.items = Len(ord) /\ p.buckets = h.buckets /\ p.hnext = h.hnext
      /\ p.hprev = h.hprev /\ p.head = h.head /\ p.next = X /\ p.prev = Y
  BY <1>4, <1>5, <1>8 DEF Table
<1> HIDE DEF p
<1>10. Chained(p, n, ch, ToSet(ord), hashv)
  BY <1>7, <1>9, SameChains
<1>11. (\E m, c : Chained(q, m, c, ToSet(t), hashv)) /\ SameOrder(q, p)
  <2>1. ToSet(ord) # {} => p.items > 0
    <3>1. ord # << >> => Len(ord) # 0
      BY <1>1, EmptySeq
    <3> QED
      BY <1>1, <1>9, <3>1, ElementsOf
  <2>2. /\ \E m, c : Chained(q, m, c, ToSet(ord) \cup {e}, hashv)
        /\ SameOrder(q, p)
    BY <1>10, <2>1, AddToBktIs
  <2> QED
    BY <1>2, <2>2
<1> HIDE DEF q
<1>12. PICK m, c : Chained(q, m, c, ToSet(t), hashv)
  BY <1>11
<1>13. q \in Table(m)
  BY <1>12 DEF Chained
<1>17. q.items = Len(ord) /\ q.head = h.head /\ q.next = X /\ q.prev = Y /\ q.items + 1 = Len(t)
  BY <1>2, <1>9, <1>11 DEF SameOrder
<1>14. /\ r \in Table(m) /\ r.items = Len(t) /\ r.buckets = q.buckets /\ r.hnext = q.hnext
       /\ r.hprev = q.hprev /\ r.head = h.head /\ r.next = X /\ r.prev = Y
  <2>1. Len(t) \in Nat
    BY <1>1, <1>2
  <2> HIDE DEF t
  <2> QED
    BY <1>13, <1>17, <2>1 DEF Table
<1> HIDE DEF r
<1>15. Chained(r, m, c, ToSet(t), hashv)
  BY <1>12, <1>14, SameChains
<1>16. HashIs(r, t, hashv)
  BY <1>4, <1>14, <1>15 DEF HashIs
<1> QED
  BY <1>6, <1>16

AllTables == UNION {Table(n) : n \in Nat \ {0}}

\* HASH_SELECT into an empty table: what cond asks for, in the order of the chains.
LEMMA SelectIs ==
  ASSUME NEW dst, HashIs(dst, << >>, hashv), NEW src, NEW ord, HashIs(src, ord, hashv), NEW cond
  PROVE  LET t == Picked(Chains(src), cond) IN
         HashIs(Select(dst, src, cond), t, hashv) /\ ToSet(t) = ToSet(ord) \cap cond
<1> DEFINE elts == Picked(Chains(src), cond)
           N == Len(elts)
           States == [dst : AllTables, last : Pointers]
           Start == [dst |-> dst, last |-> Null]
           IsIn(g, n) == HashIs(g.dst, SubSeq(elts, 1, n), hashv) /\ g.last = TailIn(SubSeq(elts, 1, n))
           W == [n \in 0 .. N |-> {g \in States : IsIn(g, n)}]
           Turned(g, n) == Enter(g, elts[n])
           D == [gn \in States \X (1 .. N) |-> Turned(gn[1], gn[2])]
           IsDone(f) == f = [n \in 0 .. N |-> IF n = 0 THEN Start ELSE Turned(f[n - 1], n)]
           done == CHOOSE f : IsDone(f)
<1>1. elts \in Seq(Elts) /\ Distinct(elts) /\ ToSet(elts) = ToSet(ord) \cap cond
  <2>1. PICK n, ch : Chained(src, n, ch, ToSet(ord), hashv)
    BY DEF HashIs
  <2>2. Chains(src) \in Seq(Elts) /\ Distinct(Chains(src)) /\ ToSet(Chains(src)) = ToSet(ord)
    BY <2>1, ChainsAre
  <2> QED
    BY <2>2, PickedIs
<1> HIDE DEF elts
<1>2. N \in Nat
  BY <1>1, LenProperties
<1>3. \A h, s : HashIs(h, s, hashv) => h \in AllTables
  BY HashTypes DEF AllTables
<1>4. Start \in W[0]
  <2>1. SubSeq(elts, 1, 0) = << >>
    BY <1>1, <1>2, PrefixOf, EmptySeq
  <2>2. Start \in States
    BY <1>3 DEF Pointers
  <2>3. IsIn(Start, 0)
    BY <2>1 DEF TailIn
  <2> HIDE DEF IsIn, Start, States
  <2> QED
    BY <1>2, <2>2, <2>3
<1>5. ASSUME NEW n \in 1 .. N, NEW g \in W[n - 1] PROVE g \in States /\ Turned(g, n) \in W[n]
  <2> DEFINE s == SubSeq(elts, 1, n - 1)
             t == SubSeq(elts, 1, n)
             m == Turned(g, n)
  <2>1. n - 1 \in 0 .. N /\ n \in 0 .. N /\ elts[n] \in Elts
    BY <1>1, <1>2, ElementOfSeq
  <2>2. g \in States /\ IsIn(g, n - 1)
    <3> HIDE DEF IsIn, States
    <3> QED
      BY <2>1
  <2>3. /\ s \in Seq(Elts) /\ Len(s) = n - 1 /\ \A i \in 1 .. n - 1 : s[i] = elts[i]
        /\ t \in Seq(Elts) /\ Len(t) = n /\ \A i \in 1 .. n : t[i] = elts[i]
    BY <1>1, <2>1, PrefixOf
  <2>4. elts[n] \notin ToSet(s)
    <3>1. ASSUME NEW i \in 1 .. Len(s) PROVE s[i] # elts[n]
      <4>1. i \in 1 .. Len(elts) /\ n \in 1 .. Len(elts) /\ i # n
        BY <1>2, <2>3
      <4> QED
        BY <1>1, <2>3, <4>1 DEF Distinct
    <3> HIDE DEF s
    <3> QED
      BY <2>3, <3>1, ElementsOf
  <2>5. Append(s, elts[n]) = t
    BY <1>1, PrefixGrows
  <2>6. HashIs(g.dst, s, hashv) /\ g.last = TailIn(s)
    BY <2>2
  <2> HIDE DEF s, t
  <2>7. m = [dst |-> m.dst, last |-> elts[n]] /\ HashIs(m.dst, t, hashv)
    BY <2>1, <2>4, <2>5, <2>6, EnterIs
  <2>8. TailIn(t) = elts[n]
    <3>1. n \in 1 .. n /\ t # << >>
      BY <2>3, EmptySeq
    <3> QED
      BY <2>3, <3>1 DEF TailIn
  <2> HIDE DEF m
  <2>9. m.dst \in AllTables
    BY <1>3, <2>7
  <2>10. m \in States /\ m.last = elts[n]
    BY <2>1, <2>7, <2>9 DEF Pointers
  <2>11. IsIn(m, n)
    BY <2>7, <2>8, <2>10 DEF t
  <2> HIDE DEF IsIn, States
  <2> QED
    BY <2>1, <2>2, <2>10, <2>11 DEF m
<1> HIDE DEF Turned, Start, IsIn, States
<1>6. Leads(N, W, Start, D)
  <2>1. ASSUME NEW n \in 1 .. N, NEW g \in W[n - 1] PROVE D[<<g, n>>] \in W[n]
    <3>1. g \in States /\ Turned(g, n) \in W[n]
      BY <1>5
    <3>2. D[<<g, n>>] = Turned(g, n)
      BY <3>1
    <3> QED
      BY <3>1, <3>2
  <2> HIDE DEF D, W
  <2> QED
    BY <1>4, <2>1 DEF Leads
<1> HIDE DEF W, D, N
<1>7. PICK f : IsLoop(f, N, Start, D)
  BY <1>2, <1>6, LoopExists
<1>8. \A n \in 0 .. N : f[n] \in W[n]
  BY <1>2, <1>6, <1>7, LoopStates
<1>9. IsDone(f)
  <2>1. \A n \in 1 .. N : n - 1 \in 0 .. N
    BY <1>2
  <2>2. ASSUME NEW n \in 1 .. N PROVE D[<<f[n - 1], n>>] = Turned(f[n - 1], n)
    <3>1. f[n - 1] \in States
      BY <1>5, <1>8, <2>1
    <3> QED
      BY <3>1 DEF D
  <2>3. \A n \in 0 .. N : (IF n = 0 THEN Start ELSE D[<<f[n - 1], n>>])
                        = (IF n = 0 THEN Start ELSE Turned(f[n - 1], n))
    BY <1>2, <2>2
  <2>4. f = [n \in 0 .. N |-> IF n = 0 THEN Start ELSE D[<<f[n - 1], n>>]]
    BY <1>7 DEF IsLoop
  <2> QED
    BY <2>3, <2>4, Zenon
<1>10. IsDone(done)
  <2> HIDE DEF IsDone
  <2> QED
    BY <1>9
<1>11. Select(dst, src, cond) = done[N].dst
  BY DEF Select, Turned, Start, N, elts
<1> HIDE DEF done
<1>12. done[0] = Start /\ \A n \in 1 .. N : done[n] = Turned(done[n - 1], n)
  BY <1>2, <1>10
<1>13. done[N] \in W[N]
  <2>1. \A n \in 1 .. N : done[n - 1] \in W[n - 1] => done[n] \in W[n]
    BY <1>5, <1>12
  <2>2. \A n \in 0 .. N : done[n] \in W[n]
    BY <1>2, <1>4, <1>12, <2>1, LoopInvariant
  <2> QED
    BY <1>2, <2>2
<1>14. HashIs(done[N].dst, SubSeq(elts, 1, N), hashv)
  BY <1>2, <1>13 DEF W, IsIn
<1>15. SubSeq(elts, 1, N) = elts
  <2>1. N \in 0 .. Len(elts)
    BY <1>2 DEF N
  <2>2. /\ SubSeq(elts, 1, N) \in Seq(Elts) /\ Len(SubSeq(elts, 1, N)) = N
        /\ \A i \in 1 .. N : SubSeq(elts, 1, N)[i] = elts[i]
    BY <1>1, <2>1, PrefixOf
  <2> QED
    BY <1>1, <2>2, SeqEqual DEF N
<1> QED
  BY <1>1, <1>11, <1>14, <1>15 DEF elts

\* What comes behind the next element to look at.
LEMMA LeftNext ==
  ASSUME NEW s \in Seq(Elts), NEW cond, NEW kept, Keeps(Elts, s, cond, kept), NEW n \in 0 .. Len(s), n < Len(s),
         NEW first, NEW next, NEW prev, Listed(first, next, prev, Left(s, kept, n))
  PROVE  next[s[n + 1]] = IF n + 1 < Len(s) THEN s[n + 2] ELSE Null
<1> DEFINE a == Left(s, kept, n)
           p == kept[n]
           i == Len(p) + 1
<1>1. Parted(Elts, p, s, n, a)
  BY LeftIs
<1> HIDE DEF a, p
<1>2. Len(s) \in Nat /\ Len(p) \in Nat /\ Len(a) = Len(p) + Len(s) - n
  BY <1>1, LenProperties DEF Parted
<1>3. i \in 1 .. Len(a) /\ i \in Len(p) + 1 .. Len(a) /\ i - Len(p) + n = n + 1
      /\ (i < Len(a) <=> n + 1 < Len(s))
  BY <1>2
<1>4. a[i] = s[n + 1]
  BY <1>1, <1>3 DEF Parted
<1>5. n + 1 < Len(s) => a[i + 1] = s[n + 2]
  <2> SUFFICES ASSUME n + 1 < Len(s) PROVE a[i + 1] = s[n + 2]
    OBVIOUS
  <2>1. i + 1 \in Len(p) + 1 .. Len(a) /\ (i + 1) - Len(p) + n = n + 2
    BY <1>2
  <2> HIDE DEF i
  <2> QED
    BY <1>1, <2>1 DEF Parted
<1> HIDE DEF i
<1>6. next[a[i]] = IF i < Len(a) THEN a[i + 1] ELSE Null
  BY <1>3 DEF Listed, a
<1> QED
  BY <1>3, <1>4, <1>5, <1>6

\* The state of an iteration after n turns: the elements kept so far and those not yet
\* looked at are left.
Iterates(h, ord, kept, n, g) ==
  /\ HashIs(g.tbl, Left(ord, kept, n), hashv)
  /\ Tailed(h, ord) => Tailed(g.tbl, Left(ord, kept, n))
  /\ \A bits : Filtered(h, ord, hashv, bits) => Filtered(g.tbl, Left(ord, kept, n), hashv, bits)
  /\ g.el = IF n < Len(ord) THEN ord[n + 1] ELSE Null
  /\ g.tmp = IF n + 1 < Len(ord) THEN ord[n + 2] ELSE Null
  /\ g.seen = SubSeq(ord, 1, n)

LEMMA TurnIs ==
  ASSUME NEW h, NEW ord \in Seq(Elts), NEW gone, NEW kept, Keeps(Elts, ord, Elts \ gone, kept),
         NEW n \in 1 .. Len(ord), NEW g, Iterates(h, ord, kept, n - 1, g)
  PROVE  Iterates(h, ord, kept, n, Turn(g, gone))
<1> DEFINE e == ord[n]
           a == Left(ord, kept, n - 1)
           b == Left(ord, kept, n)
           k == Len(kept[n - 1]) + 1
           d == IF e \in gone THEN Delete(g.tbl, e) ELSE g.tbl
           tmp == IF g.tmp = Null THEN Null ELSE d.next[g.tmp]
           m == Turn(g, gone)
<1>1. Len(ord) \in Nat /\ n - 1 < Len(ord) /\ (n - 1) + 1 = n /\ (n - 1) + 2 = n + 1 /\ n \in 0 .. Len(ord)
      /\ e \in Elts /\ e # Null
  BY LenProperties, ElementOfSeq, HashAssumption
<1>2. g.el = e /\ g.tmp = (IF n < Len(ord) THEN ord[n + 1] ELSE Null) /\ g.seen = SubSeq(ord, 1, n - 1)
  BY <1>1 DEF Iterates
<1>3. /\ k \in 1 .. Len(a) /\ a[k] = e
      /\ e \notin gone => b = a
      /\ e \in gone => b = Cut(a, k)
  <2>1. /\ k \in 1 .. Len(a) /\ a[k] = e
        /\ e \in Elts \ gone => b = a
        /\ e \notin Elts \ gone => b = Cut(a, k)
    BY LeftTurn
  <2> QED
    BY <1>1, <2>1
<1>4. /\ HashIs(g.tbl, a, hashv) /\ (Tailed(h, ord) => Tailed(g.tbl, a))
      /\ \A bits : Filtered(h, ord, hashv, bits) => Filtered(g.tbl, a, hashv, bits)
  BY DEF Iterates
<1> HIDE DEF a, b, k
<1>5. /\ HashIs(d, b, hashv) /\ (Tailed(h, ord) => Tailed(d, b))
      /\ \A bits : Filtered(h, ord, hashv, bits) => Filtered(d, b, hashv, bits)
  <2>1. CASE e \notin gone
    BY <1>3, <1>4, <2>1
  <2>2. CASE e \in gone
    <3> DEFINE q == Delete(g.tbl, a[k])
    <3>1. /\ HashIs(q, Cut(a, k), hashv)
          /\ Tailed(g.tbl, a) => Tailed(q, Cut(a, k))
          /\ \A bits : Filtered(g.tbl, a, hashv, bits) => Filtered(q, Cut(a, k), hashv, bits)
      BY <1>3, <1>4, DeleteIs
    <3>2. q = d
      BY <1>3, <2>2
    <3> HIDE DEF d, q, e
    <3> QED
      BY <1>3, <1>4, <2>2, <3>1, <3>2
  <2> QED
    BY <2>1, <2>2
<1>6. m = [tbl |-> d, el |-> g.tmp, tmp |-> tmp, seen |-> Append(g.seen, e)]
  BY <1>1, <1>2 DEF Turn
<1> HIDE DEF d
<1>7. tmp = IF n + 1 < Len(ord) THEN ord[n + 2] ELSE Null
  <2>1. CASE n < Len(ord)
    <3>1. n + 1 \in 1 .. Len(ord)
      BY <1>1, <2>1
    <3>2. g.tmp = ord[n + 1] /\ g.tmp # Null
      BY <1>2, <2>1, <3>1, ElementOfSeq, HashAssumption
    <3>3. Listed(d.head, d.next, d.prev, Left(ord, kept, n))
      BY <1>5 DEF HashIs, b
    <3> DEFINE first == d.head
               next == d.next
               prev == d.prev
    <3>4. Listed(first, next, prev, Left(ord, kept, n))
      BY <3>3
    <3> HIDE DEF first, next, prev
    <3>5. next[ord[n + 1]] = IF n + 1 < Len(ord) THEN ord[n + 2] ELSE Null
      BY <1>1, <2>1, <3>4, LeftNext
    <3> QED
      BY <3>2, <3>5 DEF next
  <2>2. CASE ~(n < Len(ord))
    <3>1. ~(n + 1 < Len(ord))
      BY <1>1, <2>2
    <3> QED
      BY <1>2, <2>2, <3>1
  <2> QED
    BY <2>1, <2>2
<1>8. Append(g.seen, e) = SubSeq(ord, 1, n)
  BY <1>2, PrefixGrows
<1> HIDE DEF m, tmp, e
<1>9. m.tbl = d /\ m.el = g.tmp /\ m.tmp = tmp /\ m.seen = SubSeq(ord, 1, n)
  BY <1>6, <1>8
<1> QED
  BY <1>2, <1>5, <1>7, <1>9 DEF Iterates, b, m

\* HASH_ITER: the body sees every element once, in the order of the table, and what it does
\* not delete stays.
LEMMA IteratedIs ==
  ASSUME NEW h, NEW ord, HashIs(h, ord, hashv), NEW gone
  PROVE  LET it == Iterated(h, gone)
             t == Picked(ord, Elts \ gone)
         IN  /\ HashIs(it.tbl, t, hashv) /\ (Tailed(h, ord) => Tailed(it.tbl, t))
             /\ \A bits : Filtered(h, ord, hashv, bits) => Filtered(it.tbl, t, hashv, bits)
             /\ it.seen = ord
<1>1. ord \in Seq(Elts) /\ Distinct(ord) /\ h.head \in Pointers /\ h.next \in Links
  BY HashTypes
<1>2. PICK kept : Keeps(Elts, ord, Elts \ gone, kept) /\ Picked(ord, Elts \ gone) = kept[Len(ord)]
  BY <1>1, PickedLoop
<1> DEFINE N == Cardinality(Elts) + 1
           Upto(n) == IF n < Len(ord) THEN n ELSE Len(ord)
           States == [tbl : AllTables, el : Pointers, tmp : Pointers, seen : Seq(Elts)]
           Start == [tbl |-> h, el |-> h.head, seen |-> << >>,
                     tmp |-> IF h.head = Null THEN Null ELSE h.next[h.head]]
           W == [n \in 0 .. N |-> {g \in States : Iterates(h, ord, kept, Upto(n), g)}]
           Turned(g) == Turn(g, gone)
           D == [gn \in States \X (1 .. N) |-> Turned(gn[1])]
           IsTurn(f) == f = [n \in 0 .. N |-> IF n = 0 THEN Start ELSE Turned(f[n - 1])]
           turn == CHOOSE f : IsTurn(f)
<1>3. N \in Nat /\ Len(ord) \in Nat /\ Len(ord) < N
  BY <1>1, LengthBound, HashAssumption
<1>4. ASSUME NEW n \in 0 .. Len(ord), NEW g, Iterates(h, ord, kept, n, g)
      PROVE  /\ g.tbl \in AllTables /\ g.el \in Pointers /\ g.tmp \in Pointers /\ g.seen \in Seq(Elts)
             /\ n = Len(ord) => g.el = Null
  <2>1. g.tbl \in AllTables
    BY <1>4, HashTypes DEF AllTables, Iterates
  <2>2. g.el \in Pointers
    <3>1. n < Len(ord) => n + 1 \in 1 .. Len(ord)
      BY <1>3
    <3> QED
      BY <1>1, <1>4, <3>1, ElementOfSeq DEF Iterates, Pointers
  <2>3. g.tmp \in Pointers
    <3>1. n + 1 < Len(ord) => n + 2 \in 1 .. Len(ord)
      BY <1>3
    <3> QED
      BY <1>1, <1>4, <3>1, ElementOfSeq DEF Iterates, Pointers
  <2>4. g.seen \in Seq(Elts)
    BY <1>1, <1>4, PrefixOf DEF Iterates
  <2>5. n = Len(ord) => g.el = Null
    BY <1>3, <1>4 DEF Iterates
  <2> QED
    BY <2>1, <2>2, <2>3, <2>4, <2>5
<1>5. Iterates(h, ord, kept, 0, Start)
  <2>1. Left(ord, kept, 0) = ord
    BY <1>1, <1>2, LeftEnds
  <2>2. SubSeq(ord, 1, 0) = << >>
    BY <1>1, <1>3, PrefixOf, EmptySeq
  <2>3. Listed(h.head, h.next, h.prev, ord)
    BY DEF HashIs
  <2>4. h.head = (IF 0 < Len(ord) THEN ord[1] ELSE Null) /\ (0 < Len(ord) => ord[1] \in Elts /\ ord[1] # Null)
    <3>1. ord = << >> <=> ~(0 < Len(ord))
      BY <1>1, <1>3, EmptySeq
    <3>2. 0 < Len(ord) => 1 \in 1 .. Len(ord)
      BY <1>3
    <3> QED
      BY <1>1, <2>3, <3>1, <3>2, ElementOfSeq, HashAssumption DEF Listed
  <2>5. (IF h.head = Null THEN Null ELSE h.next[h.head]) = IF 0 + 1 < Len(ord) THEN ord[0 + 2] ELSE Null
    <3>1. 0 < Len(ord) => 1 \in 1 .. Len(ord)
      BY <1>3
    <3>2. 0 < Len(ord) => h.next[ord[1]] = IF 1 < Len(ord) THEN ord[1 + 1] ELSE Null
      BY <2>3, <3>1 DEF Listed
    <3> QED
      BY <1>3, <2>4, <3>2
  <2>6. /\ Start.tbl = h /\ Start.el = h.head /\ Start.seen = << >>
        /\ Start.tmp = IF h.head = Null THEN Null ELSE h.next[h.head]
    OBVIOUS
  <2>7. h.head = IF 0 < Len(ord) THEN ord[0 + 1] ELSE Null
    BY <2>4
  <2> HIDE DEF Start
  <2> QED
    BY <2>1, <2>2, <2>5, <2>6, <2>7 DEF Iterates
<1>6. Start \in W[0]
  <2>1. 0 \in 0 .. Len(ord) /\ Upto(0) = 0
    BY <1>3
  <2> HIDE DEF Start
  <2>2. Start.tbl \in AllTables /\ Start.el \in Pointers /\ Start.tmp \in Pointers /\ Start.seen \in Seq(Elts)
    BY <1>4, <1>5, <2>1
  <2>3. Start \in States
    BY <2>2 DEF Start
  <2> HIDE DEF States, Upto
  <2> QED
    BY <1>3, <1>5, <2>1, <2>3
<1>7. ASSUME NEW n \in 1 .. N, NEW g \in W[n - 1] PROVE g \in States /\ Turned(g) \in W[n]
  <2>1. n - 1 \in 0 .. N /\ n \in 0 .. N
    BY <1>3
  <2>2. g \in States /\ Iterates(h, ord, kept, Upto(n - 1), g)
    <3> HIDE DEF States, Upto
    <3> QED
      BY <2>1
  <2>3. CASE n - 1 < Len(ord)
    <3> DEFINE m == Turned(g)
    <3>1. n \in 1 .. Len(ord) /\ n \in 0 .. Len(ord) /\ n - 1 \in 0 .. Len(ord)
          /\ Upto(n - 1) = n - 1 /\ Upto(n) = n
      BY <1>3, <2>3
    <3> HIDE DEF Upto
    <3>2. Iterates(h, ord, kept, n, m)
      BY <1>1, <1>2, <2>2, <3>1, TurnIs
    <3>3. m \in States
      <4>1. g.el # Null
        <5>1. g.el = ord[(n - 1) + 1] /\ (n - 1) + 1 = n
          BY <2>2, <2>3, <3>1 DEF Iterates
        <5> QED
          BY <1>1, <3>1, <5>1, ElementOfSeq, HashAssumption
      <4>2. m = [tbl |-> m.tbl, el |-> m.el, tmp |-> m.tmp, seen |-> m.seen]
        BY <4>1 DEF Turn
      <4>3. m.tbl \in AllTables /\ m.el \in Pointers /\ m.tmp \in Pointers /\ m.seen \in Seq(Elts)
        BY <1>4, <3>1, <3>2
      <4> HIDE DEF m
      <4> QED
        BY <4>2, <4>3
    <3> HIDE DEF States, Turned
    <3> QED
      BY <2>1, <2>2, <3>1, <3>2, <3>3
  <2>4. CASE ~(n - 1 < Len(ord))
    <3>1. Upto(n - 1) = Len(ord) /\ Upto(n) = Len(ord)
      BY <1>3, <2>1, <2>4
    <3> HIDE DEF Upto
    <3>2. g.el = Null
      BY <1>3, <1>4, <2>2, <3>1
    <3>3. Turned(g) = g
      BY <3>2 DEF Turn
    <3> HIDE DEF Turned, States
    <3> QED
      BY <2>1, <2>2, <3>1, <3>3
  <2> QED
    BY <2>2, <2>3, <2>4
<1>8. ASSUME NEW g \in W[N] PROVE Iterates(h, ord, kept, Len(ord), g)
  <2>1. Upto(N) = Len(ord)
    BY <1>3
  <2> HIDE DEF Upto, States
  <2> QED
    BY <1>3, <2>1
<1> HIDE DEF Turned, Start, States
<1>9. Leads(N, W, Start, D)
  <2>1. ASSUME NEW n \in 1 .. N, NEW g \in W[n - 1] PROVE D[<<g, n>>] \in W[n]
    <3>1. g \in States /\ Turned(g) \in W[n]
      BY <1>7
    <3>2. D[<<g, n>>] = Turned(g)
      BY <3>1
    <3> QED
      BY <3>1, <3>2
  <2> HIDE DEF D, W
  <2> QED
    BY <1>6, <2>1 DEF Leads
<1> HIDE DEF W, D, N
<1>10. PICK f : IsLoop(f, N, Start, D)
  BY <1>3, <1>9, LoopExists
<1>11. \A n \in 0 .. N : f[n] \in W[n]
  BY <1>3, <1>9, <1>10, LoopStates
<1>12. IsTurn(f)
  <2>1. \A n \in 1 .. N : n - 1 \in 0 .. N
    BY <1>3
  <2>2. ASSUME NEW n \in 1 .. N PROVE D[<<f[n - 1], n>>] = Turned(f[n - 1])
    <3>1. f[n - 1] \in States
      BY <1>7, <1>11, <2>1
    <3> QED
      BY <3>1 DEF D
  <2>3. \A n \in 0 .. N : (IF n = 0 THEN Start ELSE D[<<f[n - 1], n>>])
                        = (IF n = 0 THEN Start ELSE Turned(f[n - 1]))
    BY <1>3, <2>2
  <2>4. f = [n \in 0 .. N |-> IF n = 0 THEN Start ELSE D[<<f[n - 1], n>>]]
    BY <1>10 DEF IsLoop
  <2> QED
    BY <2>3, <2>4, Zenon
<1>13. IsTurn(turn)
  <2> HIDE DEF IsTurn
  <2> QED
    BY <1>12
<1>14. Iterated(h, gone) = turn[N]
  BY DEF Iterated, Turned, Start, N
<1> HIDE DEF turn
<1>15. turn[0] = Start /\ \A n \in 1 .. N : turn[n] = Turned(turn[n - 1])
  BY <1>3, <1>13
<1>16. turn[N] \in W[N]
  <2>1. \A n \in 1 .. N : turn[n - 1] \in W[n - 1] => turn[n] \in W[n]
    BY <1>7, <1>15
  <2>2. \A n \in 0 .. N : turn[n] \in W[n]
    BY <1>3, <1>6, <1>15, <2>1, LoopInvariant
  <2> QED
    BY <1>3, <2>2
<1>17. Iterates(h, ord, kept, Len(ord), turn[N])
  BY <1>8, <1>16
<1>18. Left(ord, kept, Len(ord)) = Picked(ord, Elts \ gone)
  BY <1>1, <1>2, LeftEnds
<1>19. SubSeq(ord, 1, Len(ord)) = ord
  <2>1. Len(ord) \in 0 .. Len(ord)
    BY <1>3
  <2>2. /\ SubSeq(ord, 1, Len(ord)) \in Seq(Elts) /\ Len(SubSeq(ord, 1, Len(ord))) = Len(ord)
        /\ \A i \in 1 .. Len(ord) : SubSeq(ord, 1, Len(ord))[i] = ord[i]
    BY <1>1, <2>1, PrefixOf
  <2> QED
    BY <1>1, <2>2, SeqEqual
<1> QED
  BY <1>14, <1>17, <1>18, <1>19 DEF Iterates


-----------------------------------------------------------------------------
(* What is read from a table                                                *)

\* HASH_FSCK finds nothing wrong.
LEMMA FsckIs ==
  ASSUME NEW h, NEW ord, HashIs(h, ord, hashv)
  PROVE  /\ \A b \in DOMAIN h.buckets : /\ LinkedBack(h.hprev, Chain(h, b))
                                        /\ h.buckets[b].count = Len(Chain(h, b))
         /\ Len(Chains(h)) = h.items
         /\ LinkedBack(h.prev, Order(h))
         /\ Len(Order(h)) = h.items
<1>1. PICK n, ch : Chained(h, n, ch, ToSet(ord), hashv)
  BY DEF HashIs
<1>2. ASSUME NEW first, NEW next, NEW prev, NEW s, Listed(first, next, prev, s) PROVE LinkedBack(prev, s)
  <2>1. s \in Seq(Elts) /\ Len(s) \in Nat /\ DOMAIN s = 1 .. Len(s)
    BY <1>2, LenProperties DEF Listed
  <2>2. ASSUME NEW i \in 1 .. Len(s) PROVE prev[s[i]] = IF i = 1 THEN Null ELSE s[i - 1]
    <3>1. 1 < i <=> i # 1
      BY <2>1
    <3> QED
      BY <1>2, <3>1 DEF Listed
  <2> QED
    BY <2>1, <2>2 DEF LinkedBack
<1>3. ASSUME NEW b \in DOMAIN h.buckets
      PROVE  LinkedBack(h.hprev, Chain(h, b)) /\ h.buckets[b].count = Len(Chain(h, b))
  <2>1. b \in 0 .. n - 1
    BY <1>1, Buckets
  <2>2. Chain(h, b) = ch[b]
    BY <1>1, <2>1, ChainIs
  <2>3. Listed(h.buckets[b].head, h.hnext, h.hprev, ch[b]) /\ h.buckets[b].count = Len(ch[b])
    BY <1>1, <2>1 DEF Chained
  <2> QED
    BY <1>2, <2>2, <2>3
<1>4. Order(h) = ord /\ h.items = Len(ord) /\ Listed(h.head, h.next, h.prev, ord)
  BY OrderIs DEF HashIs
<1>5. LinkedBack(h.prev, ord)
  BY <1>2, <1>4
<1>6. Len(Chains(h)) = Len(ord)
  <2>1. Chains(h) \in Seq(Elts) /\ Distinct(Chains(h)) /\ ToSet(Chains(h)) = ToSet(ord)
    BY <1>1, ChainsAre
  <2>2. ord \in Seq(Elts) /\ Distinct(ord)
    BY HashTypes
  <2>3. Cardinality(ToSet(ord)) = Len(ord) /\ Cardinality(ToSet(Chains(h))) = Len(Chains(h))
    BY <2>1, <2>2, LengthOf
  <2> QED
    BY <2>1, <2>3
<1> QED
  BY <1>3, <1>4, <1>5, <1>6

\* HASH_FIND finds what is there, if the filter lets it through.
LEMMA FindIs ==
  ASSUME NEW h, NEW ord, HashIs(h, ord, hashv), Filtered(h, ord, hashv, bloom), NEW e \in Elts
  PROVE  Find(h, e) = e <=> e \in ToSet(ord)
<1>1. PICK n, ch : Chained(h, n, ch, ToSet(ord), hashv)
  BY DEF HashIs
<1> DEFINE b == hashv[e] % n
<1>2. n \in Nat \ {0} /\ hashv \in [Elts -> Nat] /\ ch \in [0 .. n - 1 -> Seq(Elts)] /\ NumBuckets(h) = n
  <2>1. NumBuckets(h) = n
    BY <1>1, Buckets
  <2> QED
    BY <1>1, <2>1 DEF Chained
<1>3. b \in 0 .. n - 1
  BY <1>2, BucketOf
<1>4. Chain(h, Bkt(e, NumBuckets(h))) = ch[b]
  <2>1. Bkt(e, NumBuckets(h)) = b
    BY <1>2 DEF Bkt
  <2> HIDE DEF b
  <2> QED
    BY <1>1, <1>3, <2>1, ChainIs
<1>5. e \in ToSet(ch[b]) <=> e \in ToSet(ord)
  <2>1. \A c \in 0 .. n - 1 : \A x \in Elts : x \in ToSet(ch[c]) <=> x \in ToSet(ord) /\ hashv[x] % n = c
    BY <1>1 DEF Chained
  <2> QED
    BY <1>3, <2>1
<1> HIDE DEF b
<1>6. Contains(ch[b], e) <=> e \in ToSet(ch[b])
  <2>1. ch[b] \in Seq(Elts)
    BY <1>2, <1>3
  <2> QED
    BY <2>1, ElementsOf DEF Contains
<1>7. e \in ToSet(ord) => h.head # Null /\ BloomTest(h, e)
  <2>1. e \in ToSet(ord) => ord # << >>
    <3>1. ord \in Seq(Elts)
      BY HashTypes
    <3> QED
      BY <3>1, ElementsOf
  <2>2. e \in ToSet(ord) => h.head # Null
    BY <2>1, HashTypes
  <2> QED
    BY <2>2 DEF Filtered, BloomTest
<1>8. e # Null
  BY HashAssumption
<1> QED
  BY <1>4, <1>5, <1>6, <1>7, <1>8 DEF Find

\* What the next operation does to the order.
LEMMA AddOrders ==
  ASSUME NEW h, NEW ord, HashIs(h, ord, hashv), bloom \in Nat, Tailed(h, ord),
         NEW e \in Elts, e \notin ToSet(ord)
  PROVE  Order(Add(h, e)) = Append(ord, e)
<1>1. HashIs(Add(h, e), Append(ord, e), hashv)
  BY AddIs
<1> QED
  BY <1>1, OrderIs

LEMMA DeleteOrders ==
  ASSUME NEW h, NEW ord, HashIs(h, ord, hashv), NEW e \in ToSet(ord)
  PROVE  Order(Delete(h, e)) = Picked(ord, Elts \ {e})
<1>1. ord \in Seq(Elts) /\ Distinct(ord)
  BY HashTypes
<1>2. PICK k \in 1 .. Len(ord) : ord[k] = e
  BY <1>1, ElementsOf
<1>3. HashIs(Delete(h, ord[k]), Cut(ord, k), hashv)
  BY DeleteIs
<1>4. Order(Delete(h, ord[k])) = Cut(ord, k)
  BY <1>3, OrderIs
<1>5. Picked(ord, Elts \ {ord[k]}) = Cut(ord, k)
  BY <1>1, PickedCut
<1> QED
  BY <1>2, <1>4, <1>5

LEMMA SortOrders ==
  ASSUME NEW h, NEW ord, HashIs(h, ord, hashv)
  PROVE  StablySorted(ord, Order(Sort(h)))
<1>1. HashIs(Sort(h), MergeSorted(ord), hashv) /\ StablySorted(ord, MergeSorted(ord))
  BY SortIs
<1>2. Order(Sort(h)) = MergeSorted(ord)
  BY <1>1, OrderIs
<1> QED
  BY <1>1, <1>2

LEMMA IterOrders ==
  ASSUME NEW h, NEW ord, HashIs(h, ord, hashv), NEW gone
  PROVE  Iterated(h, gone).seen = ord /\ Order(Iterated(h, gone).tbl) = Picked(ord, Elts \ gone)
<1>1. HashIs(Iterated(h, gone).tbl, Picked(ord, Elts \ gone), hashv) /\ Iterated(h, gone).seen = ord
  BY IteratedIs
<1>2. Order(Iterated(h, gone).tbl) = Picked(ord, Elts \ gone)
  BY <1>1, OrderIs
<1> QED
  BY <1>1, <1>2

LEMMA SelectOrders ==
  ASSUME NEW h, NEW ord, HashIs(h, ord, hashv), NEW cond
  PROVE  LET selected == Order(Select(NoTable, h, cond)) IN
         Len(selected) = Cardinality(ToSet(selected)) /\ ToSet(selected) = cond \cap ToSet(ord)
<1> DEFINE t == Picked(Chains(h), cond)
<1>1. HashIs(Select(NoTable, h, cond), t, hashv) /\ ToSet(t) = ToSet(ord) \cap cond
  <2>1. hashv \in [Elts -> Nat]
    BY HashTypes
  <2>2. HashIs(NoTable, << >>, hashv)
    BY <2>1, NoTableIs
  <2> QED
    BY <2>2, SelectIs
<1> HIDE DEF t
<1>2. Order(Select(NoTable, h, cond)) = t
  BY <1>1, OrderIs
<1>3. Len(t) = Cardinality(ToSet(t))
  <2>1. t \in Seq(Elts) /\ Distinct(t)
    BY <1>1, HashTypes
  <2> QED
    BY <2>1, LengthOf
<1> QED
  BY <1>1, <1>2, <1>3

-----------------------------------------------------------------------------
(* The tables of a program                                                  *)

\* h can be the table t.  Only after a HASH_SELECT its tail may be out of date.
Upheld(h, t, hv, bits, pk) ==
  \E ord : /\ HashIs(h, ord, hv)
           /\ t = "users" \/ ~pk => Tailed(h, ord)
           /\ t = "users" => Filtered(h, ord, hv, bits)

\* The inductive invariant: some sequence of distinct elements is the order of a table, its
\* chains part that sequence's elements by their hash values, and tail and filter are right
\* where they are used.
HashInv ==
  /\ hashv \in [Elts -> Nat] /\ bloom \in Nat /\ picked \in BOOLEAN
  /\ table = [t \in Tables |-> table[t]]
  /\ \A t \in Tables : Upheld(table[t], t, hashv, bloom, picked)

LEMMA HoldsIs ==
  ASSUME NEW h, NEW t \in Tables, NEW pk, Upheld(h, t, hashv, bloom, pk)
  PROVE  \E ord : /\ HashIs(h, ord, hashv)
                  /\ t = "users" \/ ~pk => Tailed(h, ord)
                  /\ t = "users" => Filtered(h, ord, hashv, bloom)
BY DEF Upheld

\* An operation that keeps tail and filter right leaves a table, if "selected" counts as
\* picked until it is empty.
LEMMA HoldsOn ==
  ASSUME NEW h, NEW g, NEW t \in Tables, NEW ord, NEW s, NEW pk, NEW pk2,
         HashIs(g, s, hashv),
         t = "users" \/ ~pk => Tailed(h, ord),
         t = "users" => Filtered(h, ord, hashv, bloom),
         Tailed(h, ord) => Tailed(g, s),
         Filtered(h, ord, hashv, bloom) => Filtered(g, s, hashv, bloom),
         t = "selected" /\ pk /\ ~pk2 => g.head = Null
  PROVE  Upheld(g, t, hashv, bloom, pk2)
<1>1. ASSUME t = "users" \/ ~pk2 PROVE Tailed(g, s)
  <2>1. CASE t = "users" \/ ~pk
    BY <2>1
  <2>2. CASE ~(t = "users" \/ ~pk)
    <3>1. g.head = Null
      BY <1>1, <2>2 DEF Tables
    <3>2. s = << >>
      BY <3>1, HashTypes
    <3> QED
      BY <3>2 DEF Tailed
  <2> QED
    BY <2>1, <2>2
<1>2. t = "users" => Filtered(g, s, hashv, bloom)
  OBVIOUS
<1> QED
  BY <1>1, <1>2 DEF Upheld

\* A step that changes one table keeps the invariant, if what it leaves is a table.
LEMMA TableStep ==
  ASSUME HashInv, NEW t \in Tables, NEW g, table' = [table EXCEPT ![t] = g],
         UNCHANGED <<hashv, bloom>>, picked' \in BOOLEAN,
         Upheld(g, t, hashv, bloom, picked'),
         t # "selected" /\ picked /\ ~picked' => table'["selected"].head = Null
  PROVE  HashInv'
<1>1. /\ hashv' \in [Elts -> Nat] /\ bloom' \in Nat /\ hashv' = hashv /\ bloom' = bloom
      /\ table' = [u \in Tables |-> table'[u]]
      /\ table'[t] = g /\ \A u \in Tables : u # t => table'[u] = table[u]
  BY DEF HashInv
<1>2. ASSUME NEW u \in Tables PROVE Upheld(table'[u], u, hashv, bloom, picked')
  <2>1. CASE u = t
    BY <1>1, <2>1
  <2>2. CASE u # t
    <3>1. PICK ord : /\ HashIs(table[u], ord, hashv)
                     /\ u = "users" \/ ~picked => Tailed(table[u], ord)
                     /\ u = "users" => Filtered(table[u], ord, hashv, bloom)
      BY HoldsIs DEF HashInv
    <3>2. u = "selected" /\ picked /\ ~picked' => table[u].head = Null
      BY <1>1, <2>2
    <3>3. Upheld(table[u], u, hashv, bloom, picked')
      BY <3>1, <3>2, HoldsOn
    <3> QED
      BY <1>1, <2>2, <3>3
  <2> QED
    BY <2>1, <2>2
<1> QED
  BY <1>1, <1>2 DEF HashInv

\* A step that leaves the table t at g, which its operation made of it.
LEMMA StepOn ==
  ASSUME HashInv, NEW t \in Tables, NEW g, table' = [table EXCEPT ![t] = g],
         UNCHANGED <<hashv, bloom>>, picked' = (picked /\ table'["selected"].head # Null),
         NEW ord, NEW s, HashIs(g, s, hashv),
         t = "users" \/ ~picked => Tailed(table[t], ord),
         t = "users" => Filtered(table[t], ord, hashv, bloom),
         Tailed(table[t], ord) => Tailed(g, s),
         Filtered(table[t], ord, hashv, bloom) => Filtered(g, s, hashv, bloom)
  PROVE  HashInv'
<1>1. picked' \in BOOLEAN
  BY DEF HashInv
<1>2. t = "selected" => table'["selected"] = g
  BY DEF HashInv
<1>3. t = "selected" /\ picked /\ ~picked' => g.head = Null
  BY <1>2
<1>4. Upheld(g, t, hashv, bloom, picked')
  BY <1>3, HoldsOn
<1> QED
  BY <1>1, <1>4, TableStep

LEMMA HashInitHolds == HashInit => HashInv
<1> SUFFICES ASSUME HashInit PROVE HashInv
  OBVIOUS
<1>1. hashv \in [Elts -> Nat] /\ bloom \in Nat /\ picked = FALSE /\ table = [t \in Tables |-> NoTable]
  BY HashAssumption DEF HashInit
<1>2. HashIs(NoTable, << >>, hashv) /\ NoTable.filter = {}
  BY <1>1, NoTableIs
<1>3. ToSet(<< >>) = {}
  BY ListedEmpty
<1>4. ASSUME NEW t \in Tables PROVE Upheld(table[t], t, hashv, bloom, picked)
  <2>1. Tailed(NoTable, << >>) /\ Filtered(NoTable, << >>, hashv, bloom)
    BY <1>3 DEF Tailed, Filtered
  <2> QED
    BY <1>1, <1>2, <2>1 DEF Upheld
<1> QED
  BY <1>1, <1>4 DEF HashInv

\* Every step keeps the invariant, if nothing is added behind what was selected.
LEMMA HashStep ==
  ASSUME HashInv, ~AddToSelected, HashNext
  PROVE  HashInv'
<1>1. ASSUME NEW t \in Tables
      PROVE  \E ord : /\ HashIs(table[t], ord, hashv)
                      /\ t = "users" \/ ~picked => Tailed(table[t], ord)
                      /\ t = "users" => Filtered(table[t], ord, hashv, bloom)
                      /\ In(t) = ToSet(ord) /\ ord \in Seq(Elts)
  <2>1. PICK ord : /\ HashIs(table[t], ord, hashv)
                   /\ t = "users" \/ ~picked => Tailed(table[t], ord)
                   /\ t = "users" => Filtered(table[t], ord, hashv, bloom)
    BY HoldsIs DEF HashInv
  <2>2. In(t) = ToSet(ord)
    BY <2>1, OrderIs DEF In
  <2>3. ord \in Seq(Elts)
    BY <2>1, HashTypes
  <2> QED
    BY <2>1, <2>2, <2>3
<1>2. hashv \in [Elts -> Nat] /\ bloom \in Nat
  BY DEF HashInv
<1>3. ASSUME NEW t \in Tables, NEW e \in Elts, HashAdd(t, e) PROVE HashInv'
  <2>1. PICK ord : /\ HashIs(table[t], ord, hashv)
                   /\ t = "users" \/ ~picked => Tailed(table[t], ord)
                   /\ t = "users" => Filtered(table[t], ord, hashv, bloom)
                   /\ In(t) = ToSet(ord) /\ ord \in Seq(Elts)
    BY <1>1
  <2> DEFINE g == Add(table[t], e)
  <2>2. /\ e \notin ToSet(ord) /\ (t = "selected" => ~picked)
        /\ table' = [table EXCEPT ![t] = g] /\ UNCHANGED <<hashv, bloom>>
        /\ picked' = (picked /\ table'["selected"].head # Null)
    BY <1>3, <2>1 DEF HashAdd, MayAdd
  <2>3. Tailed(table[t], ord)
    BY <2>1, <2>2 DEF Tables
  <2>4. /\ HashIs(g, Append(ord, e), hashv) /\ Tailed(g, Append(ord, e))
        /\ Filtered(table[t], ord, hashv, bloom) => Filtered(g, Append(ord, e), hashv, bloom)
    BY <1>2, <2>1, <2>2, <2>3, AddIs
  <2> HIDE DEF g
  <2> QED
    BY <2>1, <2>2, <2>4, StepOn
<1>4. ASSUME NEW t \in Tables, NEW e \in Elts, HashDelete(t, e) PROVE HashInv'
  <2>1. PICK ord : /\ HashIs(table[t], ord, hashv)
                   /\ t = "users" \/ ~picked => Tailed(table[t], ord)
                   /\ t = "users" => Filtered(table[t], ord, hashv, bloom)
                   /\ In(t) = ToSet(ord) /\ ord \in Seq(Elts)
    BY <1>1
  <2> DEFINE g == Delete(table[t], e)
  <2>2. /\ e \in ToSet(ord)
        /\ table' = [table EXCEPT ![t] = g] /\ UNCHANGED <<hashv, bloom>>
        /\ picked' = (picked /\ table'["selected"].head # Null)
    BY <1>4, <2>1 DEF HashDelete
  <2>3. PICK k \in 1 .. Len(ord) : ord[k] = e
    BY <2>1, <2>2, ElementsOf
  <2>4. /\ HashIs(g, Cut(ord, k), hashv)
        /\ Tailed(table[t], ord) => Tailed(g, Cut(ord, k))
        /\ Filtered(table[t], ord, hashv, bloom) => Filtered(g, Cut(ord, k), hashv, bloom)
    <3> DEFINE q == Delete(table[t], ord[k])
    <3>1. /\ HashIs(q, Cut(ord, k), hashv)
          /\ Tailed(table[t], ord) => Tailed(q, Cut(ord, k))
          /\ Filtered(table[t], ord, hashv, bloom) => Filtered(q, Cut(ord, k), hashv, bloom)
      BY <2>1, DeleteIs
    <3>2. q = g
      BY <2>3
    <3> HIDE DEF q, g
    <3> QED
      BY <3>1, <3>2
  <2> HIDE DEF g
  <2> QED
    BY <2>1, <2>2, <2>4, StepOn
<1>5. ASSUME NEW t \in Tables, HashSort(t) PROVE HashInv'
  <2>1. PICK ord : /\ HashIs(table[t], ord, hashv)
                   /\ t = "users" \/ ~picked => Tailed(table[t], ord)
                   /\ t = "users" => Filtered(table[t], ord, hashv, bloom)
                   /\ In(t) = ToSet(ord) /\ ord \in Seq(Elts)
    BY <1>1
  <2> DEFINE g == Sort(table[t])
             s == MergeSorted(ord)
  <2>2. /\ table' = [table EXCEPT ![t] = g] /\ UNCHANGED <<hashv, bloom>>
        /\ picked' = (picked /\ t # "selected")
    BY <1>5 DEF HashSort
  <2>3. /\ HashIs(g, s, hashv) /\ Tailed(g, s)
        /\ \A bits : Filtered(table[t], ord, hashv, bits) => Filtered(g, s, hashv, bits)
    BY <2>1, SortIs
  <2> HIDE DEF g, s
  <2>4. Upheld(g, t, hashv, bloom, picked')
    BY <2>1, <2>3 DEF Upheld
  <2>5. picked' \in BOOLEAN /\ (t # "selected" /\ picked => picked')
    BY <2>2 DEF HashInv
  <2> QED
    BY <2>2, <2>4, <2>5, TableStep
<1>6. ASSUME NEW t \in Tables, HashClear(t) PROVE HashInv'
  <2>1. PICK ord : /\ HashIs(table[t], ord, hashv)
                   /\ t = "users" \/ ~picked => Tailed(table[t], ord)
                   /\ t = "users" => Filtered(table[t], ord, hashv, bloom)
                   /\ In(t) = ToSet(ord) /\ ord \in Seq(Elts)
    BY <1>1
  <2>2. /\ table' = [table EXCEPT ![t] = NoTable] /\ UNCHANGED <<hashv, bloom>>
        /\ picked' = (picked /\ table'["selected"].head # Null)
    BY <1>6 DEF HashClear
  <2>3. HashIs(NoTable, << >>, hashv)
    BY <1>2, NoTableIs
  <2>4. Tailed(NoTable, << >>) /\ Filtered(NoTable, << >>, hashv, bloom)
    BY ListedEmpty DEF Tailed, Filtered
  <2> QED
    BY <2>1, <2>2, <2>3, <2>4, StepOn
<1>7. ASSUME NEW t \in Tables, NEW gone, HashIter(t, gone) PROVE HashInv'
  <2>1. PICK ord : /\ HashIs(table[t], ord, hashv)
                   /\ t = "users" \/ ~picked => Tailed(table[t], ord)
                   /\ t = "users" => Filtered(table[t], ord, hashv, bloom)
                   /\ In(t) = ToSet(ord) /\ ord \in Seq(Elts)
    BY <1>1
  <2> DEFINE g == Iterated(table[t], gone).tbl
             s == Picked(ord, Elts \ gone)
  <2>2. /\ table' = [table EXCEPT ![t] = g] /\ UNCHANGED <<hashv, bloom>>
        /\ picked' = (picked /\ table'["selected"].head # Null)
    BY <1>7 DEF HashIter
  <2>3. /\ HashIs(g, s, hashv) /\ (Tailed(table[t], ord) => Tailed(g, s))
        /\ \A bits : Filtered(table[t], ord, hashv, bits) => Filtered(g, s, hashv, bits)
    BY <2>1, IteratedIs
  <2> HIDE DEF g, s
  <2> QED
    BY <2>1, <2>2, <2>3, StepOn
<1>8. ASSUME NEW cond, HashSelect(cond) PROVE HashInv'
  <2>1. "selected" \in Tables /\ "users" \in Tables
    BY DEF Tables
  <2>2. PICK ord : HashIs(table["users"], ord, hashv)
    BY <1>1, <2>1
  <2>3. PICK old : HashIs(table["selected"], old, hashv) /\ In("selected") = ToSet(old) /\ old \in Seq(Elts)
    BY <1>1, <2>1
  <2> DEFINE g == Select(table["selected"], table["users"], cond)
             s == Picked(Chains(table["users"]), cond)
  <2>4. /\ In("selected") = {} /\ UNCHANGED <<hashv, bloom>>
        /\ table' = [table EXCEPT !["selected"] = g]
        /\ picked' = (table'["selected"].head # Null)
    BY <1>8 DEF HashSelect
  <2>5. HashIs(table["selected"], << >>, hashv)
    BY <2>3, <2>4, ElementsOf
  <2>6. HashIs(g, s, hashv)
    BY <2>2, <2>5, SelectIs
  <2> HIDE DEF g, s
  <2>7. picked' = (g.head # Null) /\ picked' \in BOOLEAN
    BY <2>1, <2>4 DEF HashInv
  <2>8. g.head = Null => Tailed(g, s)
    BY <2>6, HashTypes DEF Tailed
  <2>9. Upheld(g, "selected", hashv, bloom, picked')
    BY <2>6, <2>7, <2>8 DEF Upheld
  <2> QED
    BY <2>1, <2>4, <2>7, <2>9, TableStep
<1> QED
  BY <1>3, <1>4, <1>5, <1>6, <1>7, <1>8 DEF HashNext


LEMMA HashInvariance == ASSUME ~AddToSelected PROVE HashSpec => []HashInv
<1>1. HashInv /\ UNCHANGED hashVars => HashInv'
  BY DEF HashInv, hashVars
<1>2. HashInv /\ [HashNext]_hashVars => HashInv'
  BY <1>1, HashStep
<1> QED
  BY <1>2, HashInitHolds, PTL DEF HashSpec

\* HASH_FSCK never finds anything wrong in a table, whatever was added, deleted, sorted,
\* selected and iterated over before, for every hash function: chains and order are linked
\* both ways and all counts are right.
THEOREM HashSound == ASSUME ~AddToSelected PROVE HashSpec => []Fsck
<1>1. HashInv => Fsck
  <2> SUFFICES ASSUME HashInv PROVE Fsck
    OBVIOUS
  <2>1. ASSUME NEW t \in Tables
        PROVE  /\ \A b \in DOMAIN table[t].buckets : /\ LinkedBack(table[t].hprev, Chain(table[t], b))
                                                     /\ table[t].buckets[b].count = Len(Chain(table[t], b))
               /\ Len(Chains(table[t])) = table[t].items
               /\ LinkedBack(table[t].prev, Order(table[t]))
               /\ Len(Order(table[t])) = table[t].items
    <3>1. PICK ord : HashIs(table[t], ord, hashv)
      BY HoldsIs DEF HashInv
    <3> QED
      BY <3>1, FsckIs
  <2> QED
    BY <2>1 DEF Fsck
<1> QED
  BY <1>1, HashInvariance, PTL

\* HASH_FIND finds exactly the elements that were added and not deleted since: no expansion,
\* deletion, sort or iteration loses one in a wrong bucket, and no Bloom filter hides one.
THEOREM HashFinds == ASSUME ~AddToSelected PROVE HashSpec => []FindsAll
<1>1. HashInv => FindsAll
  <2> SUFFICES ASSUME HashInv, NEW t \in Tables, NEW e \in Elts, t = "users" \/ bloom = 0
               PROVE  Find(table[t], e) = e <=> e \in In(t)
    BY DEF FindsAll
  <2>1. PICK ord : /\ HashIs(table[t], ord, hashv)
                   /\ t = "users" => Filtered(table[t], ord, hashv, bloom)
    BY HoldsIs DEF HashInv
  <2>2. Filtered(table[t], ord, hashv, bloom)
    BY <2>1 DEF Filtered
  <2>3. In(t) = ToSet(ord)
    BY <2>1, OrderIs DEF In
  <2> QED
    BY <2>1, <2>2, <2>3, FindIs
<1> QED
  BY <1>1, HashInvariance, PTL

\* The application's order is kept by whatever operation comes next: an addition goes to its
\* end, a deletion takes its element out, a sort is stable, a selection takes the elements
\* asked for, and an iteration that deletes as it goes visits every element once.
THEOREM HashOrdered == ASSUME ~AddToSelected PROVE HashSpec => []OrderKept
<1>1. HashInv => OrderKept
  <2> SUFFICES ASSUME HashInv, NEW t \in Tables
               PROVE  LET h == table[t]  old == Order(h) IN
                      /\ \A e \in Elts : /\ MayAdd(t, e) => Order(Add(h, e)) = Append(old, e)
                                         /\ e \in In(t) => Order(Delete(h, e)) = Picked(old, Elts \ {e})
                      /\ StablySorted(old, Order(Sort(h)))
                      /\ \A s \in Picks :
                           LET it == Iterated(h, s)
                               selected == Order(Select(NoTable, h, s))
                           IN  /\ it.seen = old /\ Order(it.tbl) = Picked(old, Elts \ s)
                               /\ Len(selected) = Cardinality(ToSet(selected))
                               /\ ToSet(selected) = s \cap In(t)
    BY DEF OrderKept
  <2> DEFINE h == table[t]
             old == Order(h)
  <2>1. PICK ord : HashIs(h, ord, hashv) /\ (t = "users" \/ ~picked => Tailed(h, ord))
    BY HoldsIs DEF HashInv
  <2>2. In(t) = ToSet(ord) /\ old = ord /\ bloom \in Nat
    BY <2>1, OrderIs DEF In, HashInv
  <2> HIDE DEF h, old
  <2>3. ASSUME NEW e \in Elts, MayAdd(t, e) PROVE Order(Add(h, e)) = Append(old, e)
    <3>1. Tailed(h, ord) /\ e \notin ToSet(ord)
      BY <2>1, <2>2, <2>3 DEF MayAdd, Tables
    <3> QED
      BY <2>1, <2>2, <3>1, AddOrders
  <2>4. ASSUME NEW e \in Elts, e \in In(t) PROVE Order(Delete(h, e)) = Picked(old, Elts \ {e})
    BY <2>1, <2>2, <2>4, DeleteOrders
  <2>5. StablySorted(old, Order(Sort(h)))
    BY <2>1, <2>2, SortOrders
  <2>6. ASSUME NEW s \in Picks
        PROVE  LET it == Iterated(h, s)
                   selected == Order(Select(NoTable, h, s))
               IN  /\ it.seen = old /\ Order(it.tbl) = Picked(old, Elts \ s)
                   /\ Len(selected) = Cardinality(ToSet(selected))
                   /\ ToSet(selected) = s \cap In(t)
    BY <2>1, <2>2, IterOrders, SelectOrders
  <2> QED
    BY <2>3, <2>4, <2>5, <2>6 DEF h, old
<1> QED
  BY <1>1, HashInvariance, PTL
=============================================================================
