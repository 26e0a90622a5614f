----------------------------- MODULE ListProofs -----------------------------
(***************************************************************************)
(* Proofs about List, for all elements, lists and orders, and any lengths: *)
(* every operation on a list of any of the four kinds does to it, read     *)
(* forwards or backwards, what it would do to a sequence.                  *)
(*                                                                         *)
(* The loops of the code are recursive functions of the number of their    *)
(* turns.  LoopInvariant gives what holds after every turn, and LoopExists *)
(* that there is such a function.  With them the merge sort is shown to be *)
(* stable.  The heads, tails and links of the lists are then related to    *)
(* the sequences they stand for (AreLists): they are read as these         *)
(* sequences, and each operation on the links is one on a sequence.  The   *)
(* lemmas about loops, sequences and the merge sort are cited by           *)
(* HashProofs, too.                                                        *)
(***************************************************************************)
EXTENDS List, SequenceTheorems, FiniteSetTheorems, TLAPS

-----------------------------------------------------------------------------
(* Loops                                                                    *)

\* A set of numbers has a least member.
LEMMA MinExists ==
  ASSUME NEW T \in SUBSET Nat, T # {}
  PROVE  \E x \in T : \A y \in T : x <= y
<1> DEFINE R == OpToRel(<, Nat)
<1>1. IsWellFoundedOn(R, Nat)
  BY NatLessThanWellFounded
<1> HIDE DEF R
<1>2. PICK x \in T : \A y \in T : <<y, x>> \notin R
  BY <1>1, WFMin
<1>3. \A y \in T : ~(y < x)
  BY <1>2 DEF R, OpToRel
<1> QED
  BY <1>3

\* What holds before a loop and is kept by every turn holds after each of them.
LEMMA LoopInvariant ==
  ASSUME NEW N \in Nat, NEW W, NEW f, f[0] \in W[0],
         \A n \in 1 .. N : f[n - 1] \in W[n - 1] => f[n] \in W[n]
  PROVE  \A n \in 0 .. N : f[n] \in W[n]
<1> DEFINE Bad == {n \in 0 .. N : f[n] \notin W[n]}
<1> SUFFICES ASSUME Bad # {} PROVE FALSE
  OBVIOUS
<1>1. PICK m \in Bad : \A n \in Bad : m <= n
  <2>1. Bad \in SUBSET Nat
    OBVIOUS
  <2> HIDE DEF Bad
  <2> QED
    BY <2>1, MinExists
<1>2. m \in 1 .. N /\ m - 1 \in 0 .. N
  OBVIOUS
<1>3. m - 1 \notin Bad
  BY <1>1, <1>2
<1> QED
  BY <1>2, <1>3

\* Each turn of D leads from one of the sets of states W to the next.
Leads(N, W, c, D) ==
  c \in W[0] /\ \A n \in 1 .. N : \A v \in W[n - 1] : D[<<v, n>>] \in W[n]

\* f has the states before and after the turns D of a loop.
IsLoop(f, N, c, D) == f = [n \in 0 .. N |-> IF n = 0 THEN c ELSE D[<<f[n - 1], n>>]]

\* A recursive function over the turns of a loop exists, if each turn leads from a set of
\* states to the next.
LEMMA LoopExists ==
  ASSUME NEW N \in Nat, NEW W, NEW D, NEW c, Leads(N, W, c, D)
  PROVE  \E f : IsLoop(f, N, c, D)
<1> USE DEF Leads
<1> DEFINE Upto(m) == {f \in [0 .. m -> UNION {W[n] : n \in 0 .. N}] :
                         f[0] = c /\ \A n \in 1 .. m : f[n] = D[<<f[n - 1], n>>] /\ f[n] \in W[n]}
           F == [m \in 0 .. N |-> m]
           G == [m \in 0 .. N |-> {x \in {m} : Upto(m) # {}}]
<1> DEFINE U == UNION {W[n] : n \in 0 .. N}
<1>1. ASSUME NEW m \in 1 .. N, NEW f \in Upto(m - 1) PROVE Upto(m) # {}
  <2> DEFINE g == [n \in 0 .. m |-> IF n = m THEN D[<<f[m - 1], m>>] ELSE f[n]]
  <2>1. m - 1 \in 0 .. N /\ f[m - 1] \in W[m - 1]
    <3>1. f[0] = c /\ \A n \in 1 .. m - 1 : f[n] \in W[n]
      OBVIOUS
    <3>2. m - 1 = 0 \/ m - 1 \in 1 .. m - 1
      OBVIOUS
    <3>3. m - 1 \in 0 .. N
      OBVIOUS
    <3> QED
      BY <3>1, <3>2, <3>3
  <2>2. D[<<f[m - 1], m>>] \in W[m] /\ W[m] \subseteq U
    BY <2>1
  <2>3. g \in [0 .. m -> U]
    <3>1. \A n \in 0 .. m : n # m => n \in 0 .. m - 1
      OBVIOUS
    <3> QED BY <2>2, <3>1
  <2>4. g[0] = c
    OBVIOUS
  <2>5. ASSUME NEW n \in 1 .. m PROVE g[n] = D[<<g[n - 1], n>>] /\ g[n] \in W[n]
    <3>1. n - 1 \in 0 .. m /\ n - 1 # m
      OBVIOUS
    <3>2. CASE n = m
      BY <3>1, <3>2, <2>2
    <3>3. CASE n # m
      <4>1. n \in 1 .. m - 1
        BY <3>3
      <4> QED BY <4>1, <3>1, <3>3
    <3> QED BY <3>2, <3>3
  <2> HIDE DEF g
  <2> QED
    BY <2>3, <2>4, <2>5
<1>2. Upto(0) # {}
  <2>1. [n \in 0 .. 0 |-> c] \in Upto(0)
    OBVIOUS
  <2> QED BY <2>1
<1>3. \A m \in 0 .. N : F[m] \in G[m]
  <2> HIDE DEF Upto
  <2>1. F[0] \in G[0]
    BY <1>2
  <2>2. \A m \in 1 .. N : F[m - 1] \in G[m - 1] => F[m] \in G[m]
    <3> TAKE m \in 1 .. N
    <3>1. m - 1 \in 0 .. N
      OBVIOUS
    <3>2. Upto(m - 1) # {} => Upto(m) # {}
      BY <1>1
    <3> QED BY <3>1, <3>2
  <2> HIDE DEF F, G
  <2> QED BY <2>1, <2>2, LoopInvariant
<1>4. PICK f \in Upto(N) : TRUE
  <2> HIDE DEF Upto
  <2>1. F[N] \in G[N]
    BY <1>3
  <2> QED BY <2>1
<1>5. f = [n \in 0 .. N |-> IF n = 0 THEN c ELSE D[<<f[n - 1], n>>]]
  <2>1. \A n \in 0 .. N : f[n] = IF n = 0 THEN c ELSE D[<<f[n - 1], n>>]
    <3> TAKE n \in 0 .. N
    <3>1. n = 0 \/ n \in 1 .. N
      OBVIOUS
    <3> QED
      BY <3>1, <1>4
  <2> QED BY <1>4, <2>1
<1> QED BY <1>5 DEF IsLoop

\* Its states are in those sets.
LEMMA LoopStates ==
  ASSUME NEW N \in Nat, NEW W, NEW D, NEW c, Leads(N, W, c, D), NEW f, IsLoop(f, N, c, D)
  PROVE  \A n \in 0 .. N : f[n] \in W[n]
<1>1. f[0] \in W[0]
  BY DEF Leads, IsLoop
<1>2. \A n \in 1 .. N : f[n - 1] \in W[n - 1] => f[n] \in W[n]
  BY DEF Leads, IsLoop
<1> QED
  BY <1>1, <1>2, LoopInvariant

-----------------------------------------------------------------------------
(* Sequences                                                                *)

\* The first k elements of a sequence.
LEMMA PrefixOf ==
  ASSUME NEW E, NEW s \in Seq(E), NEW k \in 0 .. Len(s)
  PROVE  /\ SubSeq(s, 1, k) \in Seq(E)
         /\ Len(SubSeq(s, 1, k)) = k
         /\ \A i \in 1 .. k : SubSeq(s, 1, k)[i] = s[i]
<1>1. \A i \in 1 .. k : s[i] \in E
  BY ElementOfSeq
<1>2. k \in Int /\ 1 \in Int
  OBVIOUS
<1> QED
  BY <1>1, <1>2, SubSeqProperties

\* One element more.
LEMMA PrefixGrows ==
  ASSUME NEW E, NEW s \in Seq(E), NEW k \in 1 .. Len(s)
  PROVE  Append(SubSeq(s, 1, k - 1), s[k]) = SubSeq(s, 1, k)
<1>1. k - 1 \in 0 .. Len(s) /\ k \in 0 .. Len(s) /\ s[k] \in E
  BY ElementOfSeq
<1> DEFINE p == SubSeq(s, 1, k - 1)
           q == SubSeq(s, 1, k)
<1>2. p \in Seq(E) /\ Len(p) = k - 1 /\ \A i \in 1 .. k - 1 : p[i] = s[i]
  BY <1>1, PrefixOf
<1>3. q \in Seq(E) /\ Len(q) = k /\ \A i \in 1 .. k : q[i] = s[i]
  BY <1>1, PrefixOf
<1> HIDE DEF p, q
<1>4. /\ Append(p, s[k]) \in Seq(E)
      /\ Len(Append(p, s[k])) = k
      /\ \A i \in 1 .. k - 1 : Append(p, s[k])[i] = p[i]
      /\ Append(p, s[k])[k] = s[k]
  BY <1>1, <1>2, AppendProperties
<1>5. \A i \in 1 .. k : Append(p, s[k])[i] = q[i]
  BY <1>2, <1>3, <1>4
<1> QED
  BY <1>3, <1>4, <1>5, SeqEqual DEF p, q

\* The links lead from first along s to null.
LinkedTo(links, first, null, s) ==
  /\ first = IF s = << >> THEN null ELSE s[1]
  /\ \A i \in 1 .. Len(s) : s[i] # null /\ links[s[i]] = IF i < Len(s) THEN s[i + 1] ELSE null

\* Following the links of a list gives its elements, in their order.
LEMMA FollowIs ==
  ASSUME NEW E, NEW s \in Seq(E), NEW null, NEW links, NEW first, LinkedTo(links, first, null, s),
         NEW m \in Nat, Len(s) <= m
  PROVE  Follow(links, first, null, m) = s
<1> USE DEF LinkedTo
<1> DEFINE Upto(k) == SubSeq(s, 1, IF k < Len(s) THEN k ELSE Len(s))
           W == [k \in 0 .. m |-> {Upto(k)}]
           Next(t) == LET x == IF t = << >> THEN first ELSE links[t[Len(t)]]
                      IN  IF x = null THEN t ELSE Append(t, x)
           D == [vk \in Seq(E) \X (1 .. m) |-> Next(vk[1])]
           IsWalk(w) == w = [k \in 0 .. m |-> IF k = 0 THEN << >> ELSE Next(w[k - 1])]
           walk == CHOOSE w : IsWalk(w)
<1>1. \A k \in 0 .. m : /\ Upto(k) \in Seq(E)
                        /\ Len(Upto(k)) = IF k < Len(s) THEN k ELSE Len(s)
                        /\ \A i \in 1 .. Len(Upto(k)) : Upto(k)[i] = s[i]
  BY PrefixOf, LenProperties
<1>2. Upto(0) = << >> /\ Upto(m) = s
  <2>1. Len(s) \in Nat
    BY LenProperties
  <2>2. SubSeq(s, 1, 0) = << >>
    BY SubSeqEmpty
  <2>3. SubSeq(s, 1, Len(s)) = s
    BY SubSeqFull
  <2>4. 0 < Len(s) \/ Len(s) = 0
    BY <2>1
  <2>5. (IF 0 < Len(s) THEN 0 ELSE Len(s)) = 0 /\ (IF m < Len(s) THEN m ELSE Len(s)) = Len(s)
    BY <2>1
  <2> QED
    BY <2>2, <2>3, <2>5
<1>3. ASSUME NEW k \in 1 .. m PROVE Next(Upto(k - 1)) = Upto(k)
  <2> DEFINE t == Upto(k - 1)
  <2>1. k - 1 \in 0 .. m /\ k \in 0 .. m /\ Len(s) \in Nat
    BY LenProperties
  <2>2. t \in Seq(E) /\ Len(t) = (IF k - 1 < Len(s) THEN k - 1 ELSE Len(s))
        /\ \A i \in 1 .. Len(t) : t[i] = s[i]
    BY <1>1, <2>1
  <2>3. CASE k <= Len(s)
    <3>1. Len(t) = k - 1 /\ t = SubSeq(s, 1, k - 1) /\ Upto(k) = SubSeq(s, 1, k)
      BY <2>1, <2>2, <2>3
    <3>2. k \in 1 .. Len(s) /\ s # << >>
      BY <2>1, <2>3, EmptySeq
    <3>3. (IF t = << >> THEN first ELSE links[t[Len(t)]]) = s[k]
      <4>1. CASE k = 1
        <5>1. t = << >>
          BY <4>1, <2>2, <3>1, EmptySeq
        <5> QED
          BY <4>1, <5>1, <3>2
      <4>2. CASE k # 1
        <5>1. k - 1 \in 1 .. Len(s) /\ k - 1 < Len(s) /\ t # << >> /\ t[Len(t)] = s[k - 1]
          BY <4>2, <2>1, <2>2, <3>1, <3>2, EmptySeq
        <5>2. links[s[k - 1]] = s[(k - 1) + 1]
          BY <5>1
        <5>3. (k - 1) + 1 = k
          OBVIOUS
        <5> QED
          BY <5>1, <5>2, <5>3
      <4> QED
        BY <4>1, <4>2
    <3>4. s[k] # null
      BY <3>2
    <3>5. Append(t, s[k]) = Upto(k)
      BY <3>1, <3>2, PrefixGrows
    <3> QED
      BY <3>3, <3>4, <3>5
  <2>4. CASE k > Len(s)
    <3>1. Len(t) = Len(s) /\ t = s /\ Upto(k) = s
      <4>1. SubSeq(s, 1, Len(s)) = s
        BY SubSeqFull
      <4>2. (IF k - 1 < Len(s) THEN k - 1 ELSE Len(s)) = Len(s)
            /\ (IF k < Len(s) THEN k ELSE Len(s)) = Len(s)
        BY <2>1, <2>4
      <4> QED
        BY <4>1, <4>2
    <3>2. (IF t = << >> THEN first ELSE links[t[Len(t)]]) = null
      BY <3>1, <2>1, EmptySeq
    <3> QED
      BY <3>1, <3>2
  <2> QED
    BY <2>1, <2>3, <2>4
<1> HIDE DEF Upto, Next
<1>4. IsWalk(walk)
  <2>1. Leads(m, W, << >>, D)
    <3>1. << >> \in W[0]
      BY <1>2
    <3>2. ASSUME NEW k \in 1 .. m, NEW v \in W[k - 1] PROVE D[<<v, k>>] \in W[k]
      <4>1. k - 1 \in 0 .. m
        OBVIOUS
      <4>2. v = Upto(k - 1) /\ v \in Seq(E)
        BY <4>1, <1>1
      <4> QED
        BY <4>2, <1>3
    <3> HIDE DEF D, W
    <3> QED
      BY <3>1, <3>2 DEF Leads
  <2>2. PICK f : IsLoop(f, m, << >>, D)
    <3> HIDE DEF D, W
    <3> QED
      BY <2>1, LoopExists
  <2>3. \A k \in 0 .. m : f[k] \in W[k]
    <3> HIDE DEF D, W
    <3> QED
      BY <2>1, <2>2, LoopStates
  <2>4. f = [k \in 0 .. m |-> IF k = 0 THEN << >> ELSE Next(f[k - 1])]
    <3>1. \A k \in 1 .. m : f[k - 1] \in Seq(E)
      BY <2>3, <1>1
    <3>2. \A k \in 1 .. m : D[<<f[k - 1], k>>] = Next(f[k - 1])
      BY <3>1
    <3> HIDE DEF D
    <3>3. \A k \in 0 .. m : (IF k = 0 THEN << >> ELSE D[<<f[k - 1], k>>])
                           = (IF k = 0 THEN << >> ELSE Next(f[k - 1]))
      BY <3>2
    <3>4. f = [k \in 0 .. m |-> IF k = 0 THEN << >> ELSE D[<<f[k - 1], k>>]]
      BY <2>2 DEF IsLoop
    <3> QED
      BY <3>3, <3>4, Zenon
  <2>5. IsWalk(f)
    BY <2>4
  <2> HIDE DEF IsWalk
  <2> QED
    BY <2>5
<1>5. \A k \in 0 .. m : walk[k] \in W[k]
  <2>1. walk[0] \in W[0]
    <3>1. walk[0] = << >>
      <4> HIDE DEF walk
      <4> QED
        BY <1>4
    <3> HIDE DEF walk
    <3> QED
      BY <1>2, <3>1
  <2>2. ASSUME NEW k \in 1 .. m, walk[k - 1] \in W[k - 1] PROVE walk[k] \in W[k]
    <3>1. walk[k] = Next(walk[k - 1])
      <4> HIDE DEF walk
      <4> QED
        BY <1>4
    <3> HIDE DEF walk
    <3> QED
      BY <2>2, <3>1, <1>3
  <2> HIDE DEF walk, W
  <2> QED
    BY <2>1, <2>2, LoopInvariant
<1>6. Follow(links, first, null, m) = walk[m]
  BY DEF Follow, Next
<1> QED
  <2> HIDE DEF walk
  <2> QED
    BY <1>2, <1>5, <1>6

\* No element twice.
Distinct(s) == \A i, j \in 1 .. Len(s) : s[i] = s[j] => i = j

\* The elements of a sequence.
LEMMA ElementsOf ==
  ASSUME NEW E, NEW s \in Seq(E)
  PROVE  /\ ToSet(s) = {s[i] : i \in 1 .. Len(s)}
         /\ ToSet(s) \subseteq E
         /\ \A e : e \in ToSet(s) <=> \E i \in 1 .. Len(s) : s[i] = e
         /\ s = << >> <=> ToSet(s) = {}
<1>1. DOMAIN s = 1 .. Len(s) /\ Len(s) \in Nat
  BY LenProperties
<1>2. \A i \in 1 .. Len(s) : s[i] \in E
  BY ElementOfSeq
<1>3. s # << >> => 1 \in 1 .. Len(s)
  BY EmptySeq
<1>4. s = << >> => Len(s) = 0
  BY EmptySeq
<1> QED
  <2>1. ToSet(s) = {s[i] : i \in 1 .. Len(s)}
    BY <1>1 DEF ToSet
  <2> QED
    BY <1>2, <1>3, <1>4, <2>1

\* Distinct elements are as many as there are.
LEMMA LengthOf ==
  ASSUME NEW E, NEW s \in Seq(E), Distinct(s)
  PROVE  IsFiniteSet(ToSet(s)) /\ Cardinality(ToSet(s)) = Len(s)
<1>1. Len(s) \in Nat /\ s \in [1 .. Len(s) -> ToSet(s)]
  BY LenProperties, ElementsOf
<1>2. s \in Bijection(1 .. Len(s), ToSet(s))
  BY <1>1, ElementsOf DEF Distinct, Bijection, Injection, Surjection, IsInjective
<1>3. ExistsBijection(1 .. Len(s), ToSet(s))
  BY <1>2 DEF ExistsBijection
<1> QED
  BY <1>1, <1>3, FS_CountingElements, FS_NatBijection

\* They are no more than there are elements.
LEMMA LengthBound ==
  ASSUME NEW E, IsFiniteSet(E), NEW s \in Seq(E), Distinct(s)
  PROVE  Cardinality(E) \in Nat /\ Len(s) \in Nat /\ Len(s) <= Cardinality(E)
<1>1. ToSet(s) \in SUBSET E
  BY ElementsOf
<1> QED
  BY <1>1, LengthOf, FS_Subset, FS_CardinalityType, LenProperties

\* s without its k-th element.
Cut(s, k) == [i \in 1 .. Len(s) - 1 |-> IF i < k THEN s[i] ELSE s[i + 1]]

LEMMA CutIs ==
  ASSUME NEW E, NEW s \in Seq(E), NEW k \in 1 .. Len(s)
  PROVE  /\ Cut(s, k) \in Seq(E) /\ Len(Cut(s, k)) = Len(s) - 1
         /\ \A i \in 1 .. Len(s) - 1 : Cut(s, k)[i] = IF i < k THEN s[i] ELSE s[i + 1]
         /\ Distinct(s) => Distinct(Cut(s, k)) /\ ToSet(Cut(s, k)) = ToSet(s) \ {s[k]}
<1> DEFINE t == Cut(s, k)
<1>1. Len(s) \in Nat /\ Len(s) - 1 \in Nat
  BY LenProperties
<1>2. \A i \in 1 .. Len(s) - 1 : i \in 1 .. Len(s) /\ i + 1 \in 1 .. Len(s)
  BY <1>1
<1>3. \A i \in 1 .. Len(s) - 1 : t[i] = IF i < k THEN s[i] ELSE s[i + 1]
  BY DEF Cut
<1>4. t \in [1 .. Len(s) - 1 -> E]
  BY <1>2, ElementOfSeq DEF Cut
<1>5. t \in Seq(E)
  BY <1>1, <1>4, SeqDef
<1>6. Len(t) = Len(s) - 1
  BY <1>1, <1>4, <1>5, LenProperties
<1> HIDE DEF t
<1>7. ASSUME Distinct(s) PROVE Distinct(t)
  BY <1>1, <1>2, <1>3, <1>6, <1>7 DEF Distinct
<1>8. ASSUME Distinct(s) PROVE ToSet(t) = ToSet(s) \ {s[k]}
  <2>1. \A x : x \in ToSet(t) <=> \E i \in 1 .. Len(t) : t[i] = x
    BY <1>5, ElementsOf
  <2>2. \A x : x \in ToSet(s) <=> \E i \in 1 .. Len(s) : s[i] = x
    BY ElementsOf
  <2>3. ASSUME NEW x \in ToSet(t) PROVE x \in ToSet(s) /\ x # s[k]
    BY <1>1, <1>2, <1>3, <1>6, <1>8, <2>1, <2>2 DEF Distinct
  <2>4. ASSUME NEW x \in ToSet(s), x # s[k] PROVE x \in ToSet(t)
    <3>1. PICK j \in 1 .. Len(s) : s[j] = x
      BY <2>2
    <3>2. j # k
      BY <2>4, <3>1
    <3>3. CASE j < k
      <4>1. j \in 1 .. Len(t) /\ t[j] = x
        BY <1>1, <1>3, <1>6, <3>1, <3>3
      <4> QED
        BY <2>1, <4>1
    <3>4. CASE j > k
      <4>1. j - 1 \in 1 .. Len(s) - 1 /\ ~(j - 1 < k) /\ (j - 1) + 1 = j
        BY <1>1, <3>4
      <4>2. t[j - 1] = x
        BY <1>3, <3>1, <4>1
      <4> QED
        BY <1>6, <2>1, <4>1, <4>2
    <3> QED
      BY <3>2, <3>3, <3>4
  <2> QED
    BY <2>3, <2>4
<1> QED
  BY <1>3, <1>5, <1>6, <1>7, <1>8 DEF t

-----------------------------------------------------------------------------
(* Choosing among the elements of a list                                    *)

\* kept[n] has those of the first n elements of s that cond holds for.
Keeps(E, s, cond, kept) ==
  /\ \A n \in 0 .. Len(s) : kept[n] \in Seq(E)
  /\ kept[0] = << >>
  /\ \A n \in 1 .. Len(s) : kept[n] = IF s[n] \in cond THEN Append(kept[n - 1], s[n]) ELSE kept[n - 1]

LEMMA PickedLoop ==
  ASSUME NEW E, NEW s \in Seq(E), NEW cond
  PROVE  \E kept : Keeps(E, s, cond, kept) /\ Picked(s, cond) = kept[Len(s)]
<1> DEFINE W == [n \in 0 .. Len(s) |-> Seq(E)]
           Turned(t, n) == IF s[n] \in cond THEN Append(t, s[n]) ELSE t
           D == [vn \in Seq(E) \X (1 .. Len(s)) |-> Turned(vn[1], vn[2])]
           IsKept(f) == f = [n \in 0 .. Len(s) |-> IF n = 0 THEN << >> ELSE Turned(f[n - 1], n)]
           kept == CHOOSE f : IsKept(f)
<1>1. Len(s) \in Nat
  BY LenProperties
<1>2. ASSUME NEW n \in 1 .. Len(s), NEW t \in Seq(E) PROVE Turned(t, n) \in Seq(E)
  <2>1. s[n] \in E
    BY ElementOfSeq
  <2> QED
    BY <2>1, AppendProperties
<1> HIDE DEF Turned
<1>3. Leads(Len(s), W, << >>, D)
  BY <1>1, <1>2 DEF Leads
<1> HIDE DEF W, D
<1>4. PICK f : IsLoop(f, Len(s), << >>, D)
  BY <1>1, <1>3, LoopExists
<1>5. \A n \in 0 .. Len(s) : f[n] \in W[n]
  BY <1>1, <1>3, <1>4, LoopStates
<1>6. IsKept(f)
  <2>1. \A n \in 1 .. Len(s) : f[n - 1] \in Seq(E)
    BY <1>1, <1>5 DEF W
  <2>2. \A n \in 1 .. Len(s) : D[<<f[n - 1], n>>] = Turned(f[n - 1], n)
    BY <2>1 DEF D
  <2>3. \A n \in 0 .. Len(s) : (IF n = 0 THEN << >> ELSE D[<<f[n - 1], n>>])
                              = (IF n = 0 THEN << >> ELSE Turned(f[n - 1], n))
    BY <1>1, <2>2
  <2>4. f = [n \in 0 .. Len(s) |-> IF n = 0 THEN << >> ELSE D[<<f[n - 1], n>>]]
    BY <1>4 DEF IsLoop
  <2> QED
    BY <2>3, <2>4, Zenon
<1>7. IsKept(kept)
  <2> HIDE DEF IsKept
  <2> QED
    BY <1>6
<1>8. Picked(s, cond) = kept[Len(s)]
  BY DEF Picked, Turned
<1> HIDE DEF kept
<1>9. kept[0] = << >> /\ \A n \in 1 .. Len(s) : kept[n] = Turned(kept[n - 1], n)
  BY <1>1, <1>7
<1>10. \A n \in 0 .. Len(s) : kept[n] \in Seq(E)
  <2>1. kept[0] \in W[0]
    BY <1>1, <1>9 DEF W
  <2>2. \A n \in 1 .. Len(s) : kept[n - 1] \in W[n - 1] => kept[n] \in W[n]
    BY <1>1, <1>2, <1>9 DEF W
  <2>3. \A n \in 0 .. Len(s) : kept[n] \in W[n]
    BY <1>1, <2>1, <2>2, LoopInvariant
  <2> QED
    BY <2>3 DEF W
<1>11. Keeps(E, s, cond, kept)
  BY <1>9, <1>10 DEF Keeps, Turned
<1> QED
  BY <1>8, <1>11

LEMMA AppendedIs ==
  ASSUME NEW E, NEW s \in Seq(E), NEW e \in E
  PROVE  /\ Append(s, e) \in Seq(E)
         /\ ToSet(Append(s, e)) = ToSet(s) \cup {e}
         /\ Distinct(s) /\ e \notin ToSet(s) => Distinct(Append(s, e))
<1> DEFINE t == Append(s, e)
<1>1. Len(s) \in Nat
  BY LenProperties
<1>2. t \in Seq(E) /\ Len(t) = Len(s) + 1 /\ t[Len(s) + 1] = e /\ \A i \in 1 .. Len(s) : t[i] = s[i]
  BY AppendProperties
<1> HIDE DEF t
<1>3. \A x : x \in ToSet(t) <=> \E i \in 1 .. Len(t) : t[i] = x
  BY <1>2, ElementsOf
<1>4. \A x : x \in ToSet(s) <=> \E i \in 1 .. Len(s) : s[i] = x
  BY ElementsOf
<1>5. \A i : i \in 1 .. Len(t) <=> i \in 1 .. Len(s) \/ i = Len(s) + 1
  BY <1>1, <1>2
<1>6. ToSet(t) = ToSet(s) \cup {e}
  BY <1>2, <1>3, <1>4, <1>5
<1>7. Distinct(s) /\ e \notin ToSet(s) => Distinct(t)
  BY <1>2, <1>4, <1>5 DEF Distinct
<1> QED
  BY <1>2, <1>6, <1>7 DEF t

\* The first n elements of s.
Firsts(s, n) == {s[i] : i \in 1 .. n}

\* They are those of the first n elements that are in cond.
LEMMA KeptIs ==
  ASSUME NEW E, NEW s \in Seq(E), Distinct(s), NEW cond, NEW kept, Keeps(E, s, cond, kept),
         NEW m \in 0 .. Len(s)
  PROVE  Distinct(kept[m]) /\ ToSet(kept[m]) = Firsts(s, m) \cap cond
<1> DEFINE W == [n \in 0 .. Len(s) |->
                   {t \in Seq(E) : Distinct(t) /\ ToSet(t) = Firsts(s, n) \cap cond}]
<1>1. Len(s) \in Nat
  BY LenProperties
<1>2. kept[0] \in W[0]
  <2>1. kept[0] = << >> /\ kept[0] \in Seq(E) /\ Firsts(s, 0) = {} /\ 0 \in 0 .. Len(s)
    BY <1>1 DEF Keeps, Firsts
  <2>2. Distinct(<< >>) /\ ToSet(<< >>) = {}
    BY EmptySeq DEF Distinct, ToSet
  <2> QED
    BY <2>1, <2>2
<1>3. ASSUME NEW n \in 1 .. Len(s), kept[n - 1] \in W[n - 1] PROVE kept[n] \in W[n]
  <2>1. /\ n - 1 \in 0 .. Len(s) /\ n \in 0 .. Len(s) /\ s[n] \in E
        /\ kept[n - 1] \in Seq(E) /\ kept[n] \in Seq(E)
    BY <1>1, ElementOfSeq DEF Keeps
  <2>2. Distinct(kept[n - 1]) /\ ToSet(kept[n - 1]) = Firsts(s, n - 1) \cap cond
    BY <1>3, <2>1
  <2>3. Firsts(s, n) = Firsts(s, n - 1) \cup {s[n]}
    <3>1. \A i : i \in 1 .. n <=> i \in 1 .. n - 1 \/ i = n
      OBVIOUS
    <3> QED
      BY <3>1 DEF Firsts
  <2>4. s[n] \notin Firsts(s, n - 1)
    BY <1>1 DEF Distinct, Firsts
  <2>5. Distinct(kept[n]) /\ ToSet(kept[n]) = Firsts(s, n) \cap cond
    <3>1. CASE s[n] \in cond
      <4>1. kept[n] = Append(kept[n - 1], s[n])
        BY <3>1 DEF Keeps
      <4>2. kept[n - 1] \in Seq(E) /\ s[n] \notin ToSet(kept[n - 1])
        BY <2>1, <2>2, <2>4
      <4>3. ToSet(kept[n]) = ToSet(kept[n - 1]) \cup {s[n]} /\ Distinct(kept[n])
        BY <2>1, <2>2, <4>1, <4>2, AppendedIs
      <4> QED
        BY <2>2, <2>3, <3>1, <4>3
    <3>2. CASE s[n] \notin cond
      <4>1. kept[n] = kept[n - 1]
        BY <3>2 DEF Keeps
      <4> QED
        BY <2>2, <2>3, <3>2, <4>1
    <3> QED
      BY <3>1, <3>2
  <2> QED
    BY <2>1, <2>5
<1>4. \A n \in 1 .. Len(s) : kept[n - 1] \in W[n - 1] => kept[n] \in W[n]
  BY <1>3
<1> HIDE DEF W
<1>5. \A n \in 0 .. Len(s) : kept[n] \in W[n]
  BY <1>1, <1>2, <1>4, LoopInvariant
<1> QED
  BY <1>5 DEF W

\* What is picked of a sequence of distinct elements.
LEMMA PickedIs ==
  ASSUME NEW E, NEW s \in Seq(E), Distinct(s), NEW cond
  PROVE  /\ Picked(s, cond) \in Seq(E)
         /\ Distinct(Picked(s, cond))
         /\ ToSet(Picked(s, cond)) = ToSet(s) \cap cond
<1>1. PICK kept : Keeps(E, s, cond, kept) /\ Picked(s, cond) = kept[Len(s)]
  BY PickedLoop
<1>2. Len(s) \in 0 .. Len(s)
  BY LenProperties
<1>3. ToSet(s) = Firsts(s, Len(s))
  BY ElementsOf DEF Firsts
<1>4. Distinct(kept[Len(s)]) /\ ToSet(kept[Len(s)]) = Firsts(s, Len(s)) \cap cond
  BY <1>1, <1>2, KeptIs
<1>5. kept[Len(s)] \in Seq(E)
  BY <1>1, <1>2 DEF Keeps
<1> QED
  BY <1>1, <1>3, <1>4, <1>5

\* All elements but one.
LEMMA PickedCut ==
  ASSUME NEW E, NEW s \in Seq(E), Distinct(s), NEW k \in 1 .. Len(s)
  PROVE  Picked(s, E \ {s[k]}) = Cut(s, k)
<1> DEFINE cond == E \ {s[k]}
           c == Cut(s, k)
           Upto(n) == IF n < k THEN n ELSE n - 1
           W == [n \in 0 .. Len(s) |-> {SubSeq(c, 1, Upto(n))}]
<1>1. Len(s) \in Nat /\ c \in Seq(E) /\ Len(c) = Len(s) - 1
      /\ \A i \in 1 .. Len(s) - 1 : c[i] = IF i < k THEN s[i] ELSE s[i + 1]
  BY LenProperties, CutIs
<1>2. PICK kept : Keeps(E, s, cond, kept) /\ Picked(s, cond) = kept[Len(s)]
  BY PickedLoop
<1> HIDE DEF c
<1>3. kept[0] \in W[0]
  <2>1. SubSeq(c, 1, 0) = << >>
    BY <1>1, SubSeqEmpty
  <2> QED
    BY <1>1, <1>2, <2>1 DEF Keeps
<1>4. ASSUME NEW n \in 1 .. Len(s), kept[n - 1] \in W[n - 1] PROVE kept[n] \in W[n]
  <2>1. n - 1 \in 0 .. Len(s) /\ n \in 0 .. Len(s) /\ s[n] \in E
    BY <1>1, ElementOfSeq
  <2>2. kept[n - 1] = SubSeq(c, 1, Upto(n - 1))
    BY <1>4, <2>1
  <2>3. CASE n = k
    <3>1. kept[n] = kept[n - 1]
      BY <2>3, <1>2 DEF Keeps
    <3>2. Upto(n - 1) = Upto(n)
      BY <2>3
    <3> QED
      BY <2>1, <2>2, <3>1, <3>2
  <2>4. CASE n # k
    <3>1. s[n] \in cond
      BY <2>1, <2>4 DEF Distinct
    <3>2. kept[n] = Append(kept[n - 1], s[n])
      BY <3>1, <1>2 DEF Keeps
    <3>3. Upto(n) \in 1 .. Len(c) /\ Upto(n - 1) = Upto(n) - 1 /\ c[Upto(n)] = s[n]
      <4>1. CASE n < k
        <5>1. n \in 1 .. Len(s) - 1
          BY <1>1, <4>1
        <5> QED
          BY <1>1, <4>1, <5>1
      <4>2. CASE n > k
        <5>1. n - 1 \in 1 .. Len(s) - 1 /\ ~(n - 1 < k) /\ (n - 1) + 1 = n
          BY <1>1, <4>2
        <5> QED
          BY <1>1, <4>2, <5>1
      <4> QED
        BY <2>4, <4>1, <4>2
    <3> HIDE DEF Upto
    <3>4. Append(SubSeq(c, 1, Upto(n) - 1), c[Upto(n)]) = SubSeq(c, 1, Upto(n))
      BY <1>1, <3>3, PrefixGrows
    <3> QED
      BY <2>1, <2>2, <3>2, <3>3, <3>4
  <2> QED
    BY <2>3, <2>4
<1>5. \A n \in 1 .. Len(s) : kept[n - 1] \in W[n - 1] => kept[n] \in W[n]
  BY <1>4
<1>6. Upto(Len(s)) = Len(c)
  BY <1>1
<1> HIDE DEF W, Upto
<1>7. \A n \in 0 .. Len(s) : kept[n] \in W[n]
  BY <1>1, <1>3, <1>5, LoopInvariant
<1>8. SubSeq(c, 1, Len(c)) = c
  BY <1>1, SubSeqFull
<1>9. kept[Len(s)] = SubSeq(c, 1, Upto(Len(s)))
  BY <1>1, <1>7 DEF W
<1> QED
  BY <1>2, <1>6, <1>8, <1>9 DEF c

\* What is left when the first n elements were looked at.
Left(s, kept, n) == kept[n] \o SubSeq(s, n + 1, Len(s))

\* a has the elements of p, and behind them those of s that follow its n-th.
Parted(E, p, s, n, a) ==
  /\ p \in Seq(E) /\ a \in Seq(E) /\ Len(a) = Len(p) + Len(s) - n
  /\ \A i \in 1 .. Len(p) : a[i] = p[i]
  /\ \A i \in Len(p) + 1 .. Len(a) : a[i] = s[i - Len(p) + n]

LEMMA LeftIs ==
  ASSUME NEW E, NEW s \in Seq(E), NEW cond, NEW kept, Keeps(E, s, cond, kept),
         NEW n \in 0 .. Len(s)
  PROVE  Parted(E, kept[n], s, n, Left(s, kept, n))
<1> DEFINE p == kept[n]
           q == SubSeq(s, n + 1, Len(s))
<1>1. Len(s) \in Nat /\ p \in Seq(E) /\ Len(p) \in Nat
  BY LenProperties DEF Keeps
<1>2. \A i \in n + 1 .. Len(s) : s[i] \in E
  BY <1>1, ElementOfSeq
<1>3. /\ q \in Seq(E) /\ Len(q) = Len(s) - n
      /\ \A i \in 1 .. Len(s) - n : q[i] = s[n + i]
  <2>1. n + 1 \in Int /\ Len(s) \in Int
    BY <1>1
  <2>2. /\ q \in Seq(E)
        /\ Len(q) = IF n + 1 <= Len(s) THEN Len(s) - (n + 1) + 1 ELSE 0
        /\ \A i \in 1 .. Len(s) - (n + 1) + 1 : q[i] = s[(n + 1) + i - 1]
    BY <1>2, <2>1, SubSeqProperties
  <2> HIDE DEF q
  <2>3. Len(q) = Len(s) - n
    BY <1>1, <2>2
  <2>4. ASSUME NEW i \in 1 .. Len(s) - n PROVE q[i] = s[n + i]
    <3>1. i \in 1 .. Len(s) - (n + 1) + 1 /\ (n + 1) + i - 1 = n + i
      BY <1>1
    <3> QED
      BY <2>2, <3>1
  <2> QED
    BY <2>2, <2>3, <2>4
<1> HIDE DEF p, q
<1>4. /\ p \o q \in Seq(E) /\ Len(p \o q) = Len(p) + Len(q)
      /\ \A i \in 1 .. Len(p) + Len(q) : (p \o q)[i] = IF i <= Len(p) THEN p[i] ELSE q[i - Len(p)]
  BY <1>1, <1>3, ConcatProperties
<1>5. Len(p \o q) = Len(p) + Len(s) - n
  BY <1>1, <1>3, <1>4
<1>6. \A i \in 1 .. Len(p) : (p \o q)[i] = p[i]
  BY <1>1, <1>3, <1>4
<1>7. ASSUME NEW i \in Len(p) + 1 .. Len(p \o q) PROVE (p \o q)[i] = s[i - Len(p) + n]
  <2>1. i \in 1 .. Len(p) + Len(q) /\ ~(i <= Len(p)) /\ i - Len(p) \in 1 .. Len(s) - n
        /\ n + (i - Len(p)) = i - Len(p) + n
    BY <1>1, <1>3, <1>5
  <2> QED
    BY <1>3, <1>4, <2>1
<1>8. Left(s, kept, n) = p \o q
  BY DEF Left, p, q
<1>9. Parted(E, p, s, n, p \o q)
  BY <1>1, <1>4, <1>5, <1>6, <1>7 DEF Parted
<1> QED
  BY <1>8, <1>9 DEF p

\* The n-th element stays, or is taken out.
LEMMA LeftTurn ==
  ASSUME NEW E, NEW s \in Seq(E), NEW cond, NEW kept, Keeps(E, s, cond, kept), NEW n \in 1 .. Len(s)
  PROVE  LET k == Len(kept[n - 1]) + 1 IN
         /\ k \in 1 .. Len(Left(s, kept, n - 1)) /\ Left(s, kept, n - 1)[k] = s[n]
         /\ s[n] \in cond => Left(s, kept, n) = Left(s, kept, n - 1)
         /\ s[n] \notin cond => Left(s, kept, n) = Cut(Left(s, kept, n - 1), k)
<1> DEFINE p == kept[n - 1]
           q == kept[n]
           l == Len(p)
           k == l + 1
           a == Left(s, kept, n - 1)
           b == Left(s, kept, n)
<1>1. Len(s) \in Nat /\ n - 1 \in 0 .. Len(s) /\ n \in 0 .. Len(s) /\ s[n] \in E
  BY LenProperties, ElementOfSeq
<1>2. Parted(E, p, s, n - 1, a)
  BY <1>1, LeftIs
<1>3. Parted(E, q, s, n, b)
  BY <1>1, LeftIs
<1>4. q = IF s[n] \in cond THEN Append(p, s[n]) ELSE p
  BY DEF Keeps
<1>5. p \in Seq(E) /\ q \in Seq(E) /\ l \in Nat
  BY <1>1, LenProperties DEF Keeps
<1>6. a \in Seq(E) /\ Len(a) = l + Len(s) - (n - 1) /\ \A i \in 1 .. l : a[i] = p[i]
  BY <1>2 DEF Parted
<1>7. ASSUME NEW i \in k .. Len(a) PROVE a[i] = s[i - l + (n - 1)]
  BY <1>2 DEF Parted
<1>8. b \in Seq(E) /\ Len(b) = Len(q) + Len(s) - n /\ \A i \in 1 .. Len(q) : b[i] = q[i]
  BY <1>3 DEF Parted
<1>9. ASSUME NEW i \in Len(q) + 1 .. Len(b) PROVE b[i] = s[i - Len(q) + n]
  BY <1>3 DEF Parted
<1>10. s[n] \in cond => Len(q) = k /\ (\A i \in 1 .. l : q[i] = p[i]) /\ q[k] = s[n]
  BY <1>1, <1>4, <1>5, AppendProperties
<1> HIDE DEF p, q, l, a, b
<1>11. k \in 1 .. Len(a) /\ k - l + (n - 1) = n
  BY <1>1, <1>5, <1>6
<1>12. a[k] = s[n]
  BY <1>7, <1>11
<1>13. ASSUME s[n] \in cond PROVE b = a
  <2>1. Len(q) = k /\ (\A i \in 1 .. l : q[i] = p[i]) /\ q[k] = s[n]
    BY <1>10, <1>13
  <2>2. Len(b) = Len(a)
    BY <1>1, <1>5, <1>6, <1>8, <2>1
  <2>3. ASSUME NEW j \in 1 .. Len(a) PROVE b[j] = a[j]
    <3>1. CASE j \in 1 .. l
      <4>1. j \in 1 .. Len(q)
        BY <1>5, <2>1, <3>1
      <4> QED
        BY <1>6, <1>8, <2>1, <3>1, <4>1
    <3>2. CASE j = k
      <4>1. j \in 1 .. Len(q)
        BY <1>5, <2>1, <3>2
      <4> QED
        BY <1>8, <1>12, <2>1, <3>2, <4>1
    <3>3. CASE j > k
      <4>1. j \in k .. Len(a) /\ j \in Len(q) + 1 .. Len(b)
        BY <1>5, <2>1, <2>2, <3>3
      <4>2. j - l + (n - 1) = j - Len(q) + n
        BY <1>5, <2>1
      <4> QED
        BY <1>7, <1>9, <4>1, <4>2
    <3> QED
      BY <1>5, <3>1, <3>2, <3>3
  <2> QED
    BY <1>6, <1>8, <2>2, <2>3, SeqEqual
<1>14. ASSUME s[n] \notin cond PROVE b = Cut(a, k)
  <2>1. q = p /\ Len(q) = l
    BY <1>4, <1>14 DEF l
  <2>2. /\ Cut(a, k) \in Seq(E) /\ Len(Cut(a, k)) = Len(a) - 1
        /\ \A i \in 1 .. Len(a) - 1 : Cut(a, k)[i] = IF i < k THEN a[i] ELSE a[i + 1]
    BY <1>6, <1>11, CutIs
  <2>3. Len(b) = Len(Cut(a, k))
    <3>1. l + Len(s) - n = (l + Len(s) - (n - 1)) - 1
      BY <1>1, <1>5
    <3>2. Len(b) = l + Len(s) - n /\ Len(Cut(a, k)) = (l + Len(s) - (n - 1)) - 1
      BY <1>6, <1>8, <2>1, <2>2
    <3> QED
      BY <3>1, <3>2
  <2>4. ASSUME NEW j \in 1 .. Len(b) PROVE b[j] = Cut(a, k)[j]
    <3>1. j \in 1 .. Len(a) - 1
      BY <2>2, <2>3
    <3>2. CASE j \in 1 .. l
      <4>1. j < k
        BY <1>5, <3>2
      <4> QED
        BY <1>6, <1>8, <2>1, <2>2, <3>1, <3>2, <4>1
    <3>3. CASE j > l
      <4>1. j + 1 \in k .. Len(a) /\ j \in Len(q) + 1 .. Len(b) /\ ~(j < k)
        BY <1>5, <1>6, <2>1, <3>1, <3>3
      <4>2. (j + 1) - l + (n - 1) = j - Len(q) + n
        BY <1>5, <2>1
      <4>3. a[j + 1] = b[j]
        BY <1>7, <1>9, <4>1, <4>2
      <4> QED
        BY <2>2, <3>1, <4>1, <4>3
    <3> QED
      BY <1>5, <3>2, <3>3
  <2> QED
    BY <1>8, <2>2, <2>3, <2>4, SeqEqual
<1> QED
  BY <1>11, <1>12, <1>13, <1>14 DEF a, b, l, p

LEMMA LeftEnds ==
  ASSUME NEW E, NEW s \in Seq(E), NEW cond, NEW kept, Keeps(E, s, cond, kept)
  PROVE  Left(s, kept, 0) = s /\ Left(s, kept, Len(s)) = kept[Len(s)]
<1>1. Len(s) \in Nat /\ 0 \in 0 .. Len(s) /\ Len(s) \in 0 .. Len(s)
  BY LenProperties
<1>2. kept[0] = << >> /\ kept[Len(s)] \in Seq(E)
  BY <1>1 DEF Keeps
<1>3. SubSeq(s, 0 + 1, Len(s)) = s
  BY SubSeqFull
<1>4. SubSeq(s, Len(s) + 1, Len(s)) = << >>
  BY <1>1, SubSeqEmpty
<1> QED
  BY <1>2, <1>3, <1>4, ConcatEmptySeq DEF Left

-----------------------------------------------------------------------------
(* Merge sort                                                               *)

Ranked(E) == \A e \in E : Rank(e) \in Int

\* The elements of t are ordered by R.
Sorts(R, t) == \A i, j \in 1 .. Len(t) : i < j => <<t[i], t[j]>> \in R

\* What has been merged of p and q, psize elements of p among them, is in its order and
\* before all that has not.
Merged(E, R, p, q, psize, qsize, t) ==
  /\ psize \in 0 .. Len(p) /\ qsize \in 0 .. Len(q)
  /\ t \in Seq(E) /\ Len(t) = psize + qsize /\ Sorts(R, t)
  /\ ToSet(t) = Firsts(p, psize) \cup Firsts(q, qsize)
  /\ \A x \in ToSet(t) : /\ \A a \in psize + 1 .. Len(p) : <<x, p[a]>> \in R
                         /\ \A b \in qsize + 1 .. Len(q) : <<x, q[b]>> \in R

\* R orders p and q and their elements with each other, as Merge compares them.
Mergeable(E, R, p, q) ==
  /\ p \in Seq(E) /\ q \in Seq(E) /\ Sorts(R, p) /\ Sorts(R, q)
  /\ \A x, y, z \in E : <<x, y>> \in R /\ <<y, z>> \in R => <<x, z>> \in R
  /\ \A i \in 1 .. Len(p), j \in 1 .. Len(q) :
       IF Rank(p[i]) <= Rank(q[j]) THEN <<p[i], q[j]>> \in R ELSE <<q[j], p[i]>> \in R

LEMMA SortsAppend ==
  ASSUME NEW E, NEW R, NEW t \in Seq(E), Sorts(R, t), NEW e \in E, \A x \in ToSet(t) : <<x, e>> \in R
  PROVE  Sorts(R, Append(t, e))
<1> DEFINE u == Append(t, e)
<1>1. Len(t) \in Nat /\ u \in Seq(E) /\ Len(u) = Len(t) + 1 /\ u[Len(t) + 1] = e
      /\ \A i \in 1 .. Len(t) : u[i] = t[i]
  BY LenProperties, AppendProperties
<1> HIDE DEF u
<1>2. \A i \in 1 .. Len(t) : t[i] \in ToSet(t)
  BY ElementsOf
<1>3. ASSUME NEW i \in 1 .. Len(u), NEW j \in 1 .. Len(u), i < j PROVE <<u[i], u[j]>> \in R
  <2>1. i \in 1 .. Len(t) /\ (j \in 1 .. Len(t) \/ j = Len(t) + 1)
    BY <1>1, <1>3
  <2>2. CASE j \in 1 .. Len(t)
    BY <1>1, <1>3, <2>1, <2>2 DEF Sorts
  <2>3. CASE j = Len(t) + 1
    BY <1>1, <1>2, <2>1, <2>3
  <2> QED
    BY <2>1, <2>2, <2>3
<1>4. Sorts(R, u)
  BY <1>3 DEF Sorts
<1> QED
  BY <1>4 DEF u

LEMMA FirstsGrow ==
  ASSUME NEW s, NEW n \in Nat
  PROVE  Firsts(s, n + 1) = Firsts(s, n) \cup {s[n + 1]}
<1>1. \A i : i \in 1 .. n + 1 <=> i \in 1 .. n \/ i = n + 1
  OBVIOUS
<1> QED
  BY <1>1 DEF Firsts

\* The next element comes from p or from q.
LEMMA MergeTurn ==
  ASSUME NEW E, NEW R, NEW p, NEW q, Mergeable(E, R, p, q), NEW i, NEW j, NEW t, Merged(E, R, p, q, i, j, t)
  PROVE  /\ i < Len(p) /\ (j >= Len(q) \/ Rank(p[i + 1]) <= Rank(q[j + 1]))
              => Merged(E, R, p, q, i + 1, j, Append(t, p[i + 1]))
         /\ j < Len(q) /\ (i >= Len(p) \/ ~(Rank(p[i + 1]) <= Rank(q[j + 1])))
              => Merged(E, R, p, q, i, j + 1, Append(t, q[j + 1]))
<1>1. p \in Seq(E) /\ q \in Seq(E) /\ Len(p) \in Nat /\ Len(q) \in Nat
  BY LenProperties DEF Mergeable
<1>2. i \in 0 .. Len(p) /\ j \in 0 .. Len(q) /\ t \in Seq(E) /\ Len(t) = i + j /\ Sorts(R, t)
  BY DEF Merged
<1>3. ASSUME NEW x, NEW y, NEW z, x \in E, y \in E, z \in E, <<x, y>> \in R, <<y, z>> \in R PROVE <<x, z>> \in R
  BY <1>3 DEF Mergeable
<1>4. (\A a \in 1 .. Len(p) : p[a] \in E) /\ (\A b \in 1 .. Len(q) : q[b] \in E)
  BY <1>1, ElementOfSeq
<1>5. ASSUME i < Len(p), j >= Len(q) \/ Rank(p[i + 1]) <= Rank(q[j + 1])
      PROVE  Merged(E, R, p, q, i + 1, j, Append(t, p[i + 1]))
  <2> DEFINE e == p[i + 1]
             u == Append(t, e)
  <2>1. i + 1 \in 1 .. Len(p) /\ i + 1 \in i + 1 .. Len(p) /\ e \in E
    BY <1>1, <1>2, <1>4, <1>5
  <2>2. \A x \in ToSet(t) : <<x, e>> \in R
    BY <2>1 DEF Merged
  <2>3. u \in Seq(E) /\ Len(u) = Len(t) + 1 /\ ToSet(u) = ToSet(t) \cup {e} /\ Sorts(R, u)
    BY <1>2, <2>1, <2>2, AppendProperties, AppendedIs, SortsAppend
  <2>4. Firsts(p, i + 1) = Firsts(p, i) \cup {e}
    BY <1>2, FirstsGrow
  <2> HIDE DEF u
  <2>5. ASSUME NEW a \in (i + 1) + 1 .. Len(p) PROVE <<e, p[a]>> \in R /\ \A x \in ToSet(t) : <<x, p[a]>> \in R
    <3>1. a \in 1 .. Len(p) /\ a \in i + 1 .. Len(p) /\ i + 1 < a
      BY <1>2
    <3> QED
      BY <2>1, <3>1 DEF Mergeable, Merged, Sorts
  <2>6. ASSUME NEW b \in j + 1 .. Len(q) PROVE <<e, q[b]>> \in R /\ \A x \in ToSet(t) : <<x, q[b]>> \in R
    <3>1. j + 1 \in 1 .. Len(q) /\ b \in 1 .. Len(q) /\ Rank(e) <= Rank(q[j + 1])
      BY <1>1, <1>2, <1>5
    <3>2. <<e, q[j + 1]>> \in R
      BY <2>1, <3>1 DEF Mergeable
    <3>3. b = j + 1 \/ <<q[j + 1], q[b]>> \in R
      BY <3>1 DEF Mergeable, Sorts
    <3>4. <<e, q[b]>> \in R
      BY <1>3, <1>4, <2>1, <3>1, <3>2, <3>3
    <3> QED
      BY <3>4 DEF Merged
  <2>7. i + 1 \in 0 .. Len(p) /\ Len(u) = (i + 1) + j
    BY <1>1, <1>2, <2>1, <2>3
  <2>8. ToSet(u) = Firsts(p, i + 1) \cup Firsts(q, j)
    BY <2>3, <2>4 DEF Merged
  <2> HIDE DEF e
  <2>9. Merged(E, R, p, q, i + 1, j, u)
    BY <1>2, <2>3, <2>5, <2>6, <2>7, <2>8 DEF Merged
  <2> QED
    BY <2>9 DEF u, e
<1>6. ASSUME j < Len(q), i >= Len(p) \/ ~(Rank(p[i + 1]) <= Rank(q[j + 1]))
      PROVE  Merged(E, R, p, q, i, j + 1, Append(t, q[j + 1]))
  <2> DEFINE e == q[j + 1]
             u == Append(t, e)
  <2>1. j + 1 \in 1 .. Len(q) /\ j + 1 \in j + 1 .. Len(q) /\ e \in E
    BY <1>1, <1>2, <1>4, <1>6
  <2>2. \A x \in ToSet(t) : <<x, e>> \in R
    BY <2>1 DEF Merged
  <2>3. u \in Seq(E) /\ Len(u) = Len(t) + 1 /\ ToSet(u) = ToSet(t) \cup {e} /\ Sorts(R, u)
    <3> HIDE DEF e
    <3>1. Sorts(R, u)
      BY <1>2, <2>1, <2>2, SortsAppend
    <3>2. u \in Seq(E) /\ Len(u) = Len(t) + 1 /\ ToSet(u) = ToSet(t) \cup {e}
      BY <1>2, <2>1, AppendProperties, AppendedIs
    <3> QED
      BY <3>1, <3>2
  <2>4. Firsts(q, j + 1) = Firsts(q, j) \cup {e}
    BY <1>2, FirstsGrow
  <2> HIDE DEF u
  <2>5. ASSUME NEW b \in (j + 1) + 1 .. Len(q) PROVE <<e, q[b]>> \in R /\ \A x \in ToSet(t) : <<x, q[b]>> \in R
    <3>1. b \in 1 .. Len(q) /\ b \in j + 1 .. Len(q) /\ j + 1 < b
      BY <1>2
    <3> QED
      BY <2>1, <3>1 DEF Mergeable, Merged, Sorts
  <2>6. ASSUME NEW a \in i + 1 .. Len(p) PROVE <<e, p[a]>> \in R /\ \A x \in ToSet(t) : <<x, p[a]>> \in R
    <3>1. i + 1 \in 1 .. Len(p) /\ a \in 1 .. Len(p) /\ ~(Rank(p[i + 1]) <= Rank(e))
      BY <1>1, <1>2, <1>6
    <3>2. <<e, p[i + 1]>> \in R
      BY <2>1, <3>1 DEF Mergeable
    <3>3. a = i + 1 \/ <<p[i + 1], p[a]>> \in R
      BY <3>1 DEF Mergeable, Sorts
    <3>4. <<e, p[a]>> \in R
      BY <1>3, <1>4, <2>1, <3>1, <3>2, <3>3
    <3> QED
      BY <3>4 DEF Merged
  <2>7. j + 1 \in 0 .. Len(q) /\ Len(u) = i + (j + 1)
    BY <1>1, <1>2, <2>1, <2>3
  <2>8. ToSet(u) = Firsts(p, i) \cup Firsts(q, j + 1)
    BY <2>3, <2>4 DEF Merged
  <2> HIDE DEF e
  <2>9. Merged(E, R, p, q, i, j + 1, u)
    BY <1>2, <2>3, <2>5, <2>6, <2>7, <2>8 DEF Merged
  <2> QED
    BY <2>9 DEF u, e
<1> QED
  BY <1>5, <1>6

LEMMA MergeIs ==
  ASSUME NEW E, NEW R, NEW p, NEW q, Mergeable(E, R, p, q)
  PROVE  /\ Merge(p, q) \in Seq(E) /\ Len(Merge(p, q)) = Len(p) + Len(q) /\ Sorts(R, Merge(p, q))
         /\ ToSet(Merge(p, q)) = ToSet(p) \cup ToSet(q)
<1> DEFINE N == Len(p) + Len(q)
           First == [psize |-> 0, elts |-> << >>]
           Turned(l, n) == LET i == l.psize + 1
                               j == n - l.psize
                           IN  IF i <= Len(p) /\ (j > Len(q) \/ Rank(p[i]) <= Rank(q[j]))
                               THEN [psize |-> i, elts |-> Append(l.elts, p[i])]
                               ELSE [psize |-> l.psize, elts |-> Append(l.elts, q[j])]
           States == [psize : Nat, elts : Seq(E)]
           W == [n \in 0 .. N |-> {v \in States : Merged(E, R, p, q, v.psize, n - v.psize, v.elts)}]
           D == [vn \in States \X (1 .. N) |-> Turned(vn[1], vn[2])]
           IsList(f) == f = [n \in 0 .. N |-> IF n = 0 THEN First ELSE Turned(f[n - 1], n)]
           list == CHOOSE f : IsList(f)
<1>1. p \in Seq(E) /\ q \in Seq(E) /\ Len(p) \in Nat /\ Len(q) \in Nat /\ N \in Nat
  BY LenProperties DEF Mergeable
<1>2. First \in W[0]
  <2>1. Merged(E, R, p, q, 0, 0, << >>)
    <3>1. << >> \in Seq(E) /\ Len(<< >>) = 0 /\ ToSet(<< >>) = {}
      BY EmptySeq DEF ToSet
    <3>2. Firsts(p, 0) = {} /\ Firsts(q, 0) = {}
      BY DEF Firsts
    <3>3. Sorts(R, << >>)
      BY <3>1 DEF Sorts
    <3> QED
      BY <1>1, <3>1, <3>2, <3>3 DEF Merged
  <2>2. First \in States /\ First.psize = 0 /\ 0 - First.psize = 0 /\ First.elts = << >>
    BY EmptySeq
  <2>3. First \in {v \in States : Merged(E, R, p, q, v.psize, 0 - v.psize, v.elts)}
    <3> HIDE DEF First, States
    <3> QED
      BY <2>1, <2>2
  <2> QED
    BY <1>1, <2>3
<1>3. ASSUME NEW n \in 1 .. N, NEW v \in W[n - 1] PROVE v \in States /\ Turned(v, n) \in W[n]
  <2> DEFINE i == v.psize
             j == (n - 1) - v.psize
             t == v.elts
  <2>1. n - 1 \in 0 .. N /\ n \in 0 .. N
    BY <1>1
  <2>2. v \in States /\ Merged(E, R, p, q, i, j, t)
    BY <2>1
  <2>3. i \in 0 .. Len(p) /\ j \in 0 .. Len(q) /\ t \in Seq(E) /\ i + j = n - 1
    BY <1>1, <2>2 DEF Merged
  <2>4. n - v.psize = j + 1 /\ v.psize + 1 = i + 1
    BY <1>1, <2>3
  <2>5. i < Len(p) \/ j < Len(q)
    BY <1>1, <2>3
  <2>6. (i + 1 <= Len(p) <=> i < Len(p)) /\ (j + 1 > Len(q) <=> j >= Len(q))
    BY <1>1, <2>3
  <2>7. Turned(v, n) = IF i < Len(p) /\ (j >= Len(q) \/ Rank(p[i + 1]) <= Rank(q[j + 1]))
                       THEN [psize |-> i + 1, elts |-> Append(t, p[i + 1])]
                       ELSE [psize |-> i, elts |-> Append(t, q[j + 1])]
    BY <2>4, <2>6, Zenon
  <2> HIDE DEF Turned, i, j, t
  <2>8. CASE i < Len(p) /\ (j >= Len(q) \/ Rank(p[i + 1]) <= Rank(q[j + 1]))
    <3> DEFINE u == Append(t, p[i + 1])
    <3>1. Merged(E, R, p, q, i + 1, j, u)
      BY <2>2, <2>8, MergeTurn
    <3>2. i + 1 \in Nat /\ u \in Seq(E) /\ n - (i + 1) = j
      BY <1>1, <2>3, <3>1 DEF Merged
    <3> HIDE DEF u
    <3>3. [psize |-> i + 1, elts |-> u] \in W[n]
      BY <2>1, <3>1, <3>2
    <3> HIDE DEF W
    <3> QED
      BY <2>2, <2>7, <2>8, <3>3 DEF u
  <2>9. CASE ~(i < Len(p) /\ (j >= Len(q) \/ Rank(p[i + 1]) <= Rank(q[j + 1])))
    <3> DEFINE u == Append(t, q[j + 1])
    <3>1. j < Len(q) /\ (i >= Len(p) \/ ~(Rank(p[i + 1]) <= Rank(q[j + 1])))
      BY <1>1, <2>3, <2>5, <2>9
    <3>2. Merged(E, R, p, q, i, j + 1, u)
      BY <2>2, <3>1, MergeTurn
    <3>3. i \in Nat /\ u \in Seq(E) /\ n - i = j + 1
      BY <1>1, <2>3, <3>2 DEF Merged
    <3> HIDE DEF u
    <3>4. [psize |-> i, elts |-> u] \in W[n]
      BY <2>1, <3>2, <3>3
    <3> HIDE DEF W
    <3> QED
      BY <2>2, <2>7, <2>9, <3>4 DEF u
  <2> QED
    BY <2>8, <2>9
<1> HIDE DEF Turned, First
<1>4. Leads(N, W, First, D)
  <2>1. ASSUME NEW n \in 1 .. N, NEW v \in W[n - 1] PROVE D[<<v, n>>] \in W[n]
    <3>1. v \in States /\ Turned(v, n) \in W[n]
      BY <1>3
    <3>2. D[<<v, n>>] = Turned(v, n)
      BY <3>1
    <3> QED
      BY <3>1, <3>2
  <2> HIDE DEF D, W
  <2> QED
    BY <1>2, <2>1 DEF Leads
<1> HIDE DEF W, D, N
<1>5. PICK f : IsLoop(f, N, First, D)
  BY <1>1, <1>4, LoopExists
<1>6. \A n \in 0 .. N : f[n] \in W[n]
  BY <1>1, <1>4, <1>5, LoopStates
<1>7. IsList(f)
  <2>1. \A n \in 1 .. N : n - 1 \in 0 .. N
    BY <1>1
  <2>2. ASSUME NEW n \in 1 .. N PROVE D[<<f[n - 1], n>>] = Turned(f[n - 1], n)
    <3>1. f[n - 1] \in States
      BY <1>3, <1>6, <2>1
    <3> QED
      BY <3>1 DEF D
  <2>3. \A n \in 0 .. N : (IF n = 0 THEN First ELSE D[<<f[n - 1], n>>])
                        = (IF n = 0 THEN First ELSE Turned(f[n - 1], n))
    BY <1>1, <2>2
  <2>4. f = [n \in 0 .. N |-> IF n = 0 THEN First ELSE D[<<f[n - 1], n>>]]
    BY <1>5 DEF IsLoop
  <2> QED
    BY <2>3, <2>4, Zenon
<1>8. IsList(list)
  <2> HIDE DEF IsList
  <2> QED
    BY <1>7
<1>9. Merge(p, q) = list[N].elts
  BY DEF Merge, Turned, First, N
<1> HIDE DEF list
<1>10. list[0] = First /\ \A n \in 1 .. N : list[n] = Turned(list[n - 1], n)
  BY <1>1, <1>8
<1>11. list[N] \in W[N]
  <2>1. \A n \in 1 .. N : list[n - 1] \in W[n - 1] => list[n] \in W[n]
    BY <1>3, <1>10
  <2>2. \A n \in 0 .. N : list[n] \in W[n]
    BY <1>1, <1>2, <1>10, <2>1, LoopInvariant
  <2> QED
    BY <1>1, <2>2
<1> DEFINE v == list[N]
<1>12. v \in States /\ Merged(E, R, p, q, v.psize, N - v.psize, v.elts)
  BY <1>1, <1>11 DEF W
<1> HIDE DEF v
<1>13. v.psize = Len(p) /\ N - v.psize = Len(q)
  BY <1>1, <1>12 DEF Merged, N
<1>14. Merged(E, R, p, q, Len(p), Len(q), v.elts)
  BY <1>12, <1>13
<1>15. Firsts(p, Len(p)) = ToSet(p) /\ Firsts(q, Len(q)) = ToSet(q)
  BY <1>1, ElementsOf DEF Firsts
<1> QED
  BY <1>9, <1>14, <1>15 DEF Merged, v

\* The multiples of w.
Marks(w) == {k * w : k \in Nat}

LEMMA MarksAre ==
  ASSUME NEW w \in Nat \ {0}
  PROVE  /\ 0 \in Marks(w)
         /\ \A a \in Marks(w) : a \in Nat /\ a + w \in Marks(w)
         /\ \A a, b \in Marks(w) : a < b => a + w <= b
         /\ \A a \in Marks(2 * w) : a \in Marks(w)
<1>1. 0 \in Marks(w)
  <2>1. 0 = 0 * w /\ 0 \in Nat
    OBVIOUS
  <2> QED
    BY <2>1, Zenon DEF Marks
<1>2. ASSUME NEW k \in Nat PROVE k * w \in Nat /\ (k + 1) * w = k * w + w
  OBVIOUS
<1>3. ASSUME NEW a \in Marks(w) PROVE a \in Nat /\ a + w \in Marks(w)
  <2>1. PICK k \in Nat : a = k * w
    BY DEF Marks
  <2>2. a \in Nat /\ a + w = (k + 1) * w /\ k + 1 \in Nat
    BY <1>2, <2>1
  <2> QED
    BY <2>2, Zenon DEF Marks
<1>4. ASSUME NEW a \in Marks(w), NEW b \in Marks(w), a < b PROVE a + w <= b
  <2>1. PICK k \in Nat : a = k * w
    BY DEF Marks
  <2>2. PICK l \in Nat : b = l * w
    BY DEF Marks
  <2>3. k < l
    <3>1. ASSUME l <= k PROVE FALSE
      <4>1. PICK d \in Nat : k = l + d
        <5>1. k - l \in Nat /\ k = l + (k - l)
          BY <3>1
        <5> QED
          BY <5>1
      <4>2. k * w = l * w + d * w /\ d * w \in Nat
        BY <4>1
      <4> QED
        BY <1>2, <1>4, <2>1, <2>2, <4>2
    <3> QED
      BY <3>1
  <2>4. PICK d \in Nat : l = k + 1 + d
    <3>1. l - (k + 1) \in Nat /\ l = k + 1 + (l - (k + 1))
      BY <2>3
    <3> QED
      BY <3>1
  <2>5. l * w = k * w + w + d * w /\ d * w \in Nat /\ k * w \in Nat
    BY <2>4
  <2> QED
    BY <2>1, <2>2, <2>5
<1>5. ASSUME NEW a \in Marks(2 * w) PROVE a \in Marks(w)
  <2>1. PICK k \in Nat : a = k * (2 * w)
    BY DEF Marks
  <2>2. k * (2 * w) = (2 * k) * w /\ 2 * k \in Nat
    OBVIOUS
  <2> QED
    BY <2>1, <2>2, Zenon DEF Marks
<1> QED
  BY <1>1, <1>3, <1>4, <1>5

\* x comes before y in a stable sort of s.
Before(E, s) ==
  {xy \in E \X E : \E i, j \in 1 .. Len(s) :
     /\ s[i] = xy[1] /\ s[j] = xy[2]
     /\ Rank(xy[1]) < Rank(xy[2]) \/ (Rank(xy[1]) = Rank(xy[2]) /\ i < j)}

LEMMA BeforeIs ==
  ASSUME NEW E, Ranked(E), NEW s \in Seq(E), Distinct(s)
  PROVE  /\ \A i, j \in 1 .. Len(s) : <<s[i], s[j]>> \in Before(E, s) <=>
              Rank(s[i]) < Rank(s[j]) \/ (Rank(s[i]) = Rank(s[j]) /\ i < j)
         /\ \A x, y, z \in E : <<x, y>> \in Before(E, s) /\ <<y, z>> \in Before(E, s)
              => <<x, z>> \in Before(E, s)
         /\ \A x : <<x, x>> \notin Before(E, s)
<1> DEFINE R == Before(E, s)
<1>1. \A i \in 1 .. Len(s) : s[i] \in E /\ Rank(s[i]) \in Int
  BY ElementOfSeq DEF Ranked
<1>2. Len(s) \in Nat
  BY LenProperties
<1>3. ASSUME NEW x, NEW y, <<x, y>> \in R
      PROVE  \E i, j \in 1 .. Len(s) : /\ s[i] = x /\ s[j] = y
                                       /\ Rank(x) < Rank(y) \/ (Rank(x) = Rank(y) /\ i < j)
  BY <1>3 DEF Before
<1>4. ASSUME NEW i \in 1 .. Len(s), NEW j \in 1 .. Len(s),
             Rank(s[i]) < Rank(s[j]) \/ (Rank(s[i]) = Rank(s[j]) /\ i < j)
      PROVE  <<s[i], s[j]>> \in R
  <2>1. <<s[i], s[j]>> \in E \X E /\ <<s[i], s[j]>>[1] = s[i] /\ <<s[i], s[j]>>[2] = s[j]
    BY <1>1
  <2> QED
    BY <1>4, <2>1 DEF Before
<1> HIDE DEF R
<1>5. ASSUME NEW i \in 1 .. Len(s), NEW j \in 1 .. Len(s), <<s[i], s[j]>> \in R
      PROVE  Rank(s[i]) < Rank(s[j]) \/ (Rank(s[i]) = Rank(s[j]) /\ i < j)
  <2>1. PICK k, l \in 1 .. Len(s) : /\ s[k] = s[i] /\ s[l] = s[j]
                                    /\ Rank(s[i]) < Rank(s[j]) \/ (Rank(s[i]) = Rank(s[j]) /\ k < l)
    BY <1>3, <1>5
  <2>2. k = i /\ l = j
    BY <2>1 DEF Distinct
  <2> QED
    BY <2>1, <2>2
<1>6. ASSUME NEW x, NEW y, NEW z, <<x, y>> \in R, <<y, z>> \in R PROVE <<x, z>> \in R
  <2>1. PICK i, j \in 1 .. Len(s) : /\ s[i] = x /\ s[j] = y
                                    /\ Rank(x) < Rank(y) \/ (Rank(x) = Rank(y) /\ i < j)
    BY <1>3, <1>6
  <2>2. PICK k, l \in 1 .. Len(s) : /\ s[k] = y /\ s[l] = z
                                    /\ Rank(y) < Rank(z) \/ (Rank(y) = Rank(z) /\ k < l)
    BY <1>3, <1>6
  <2>3. j = k
    BY <2>1, <2>2 DEF Distinct
  <2>4. Rank(x) \in Int /\ Rank(y) \in Int /\ Rank(z) \in Int
    BY <1>1, <2>1, <2>2
  <2>5. Rank(s[i]) < Rank(s[l]) \/ (Rank(s[i]) = Rank(s[l]) /\ i < l)
    BY <2>1, <2>2, <2>3, <2>4
  <2> QED
    BY <1>4, <2>1, <2>2, <2>5
<1>7. ASSUME NEW x, <<x, x>> \in R PROVE FALSE
  <2>1. PICK i, j \in 1 .. Len(s) : /\ s[i] = x /\ s[j] = x
                                    /\ Rank(x) < Rank(x) \/ (Rank(x) = Rank(x) /\ i < j)
    BY <1>3, <1>7
  <2>2. i = j /\ Rank(x) \in Int
    BY <1>1, <2>1 DEF Distinct
  <2> QED
    BY <2>1, <2>2
<1>8. \A i, j \in 1 .. Len(s) : <<s[i], s[j]>> \in R <=>
              Rank(s[i]) < Rank(s[j]) \/ (Rank(s[i]) = Rank(s[j]) /\ i < j)
  BY <1>4, <1>5
<1> QED
  BY <1>6, <1>7, <1>8 DEF R

\* Where a run of w elements behind the first from ends.
End(s, from, w) == IF from + w < Len(s) THEN from + w ELSE Len(s)

Slice(s, from, to) == {s[i] : i \in from + 1 .. to}

\* That run of l has the elements of the one of s, in their order.
SortedRun(R, s, l, from, w) ==
  /\ Slice(l, from, End(s, from, w)) = Slice(s, from, End(s, from, w))
  /\ \A i, j \in from + 1 .. End(s, from, w) : i < j => <<l[i], l[j]>> \in R

\* Every run is sorted.
SortedRuns(E, R, s, l, w) ==
  /\ l \in Seq(E) /\ Len(l) = Len(s)
  /\ \A m \in Marks(w) : m < Len(s) => SortedRun(R, s, l, m, w)

LEMMA RunIs ==
  ASSUME NEW E, NEW R, NEW s, NEW l \in Seq(E), Len(l) = Len(s), NEW from \in Nat, from < Len(s),
         NEW w \in Nat \ {0}, SortedRun(R, s, l, from, w)
  PROVE  LET p == Run(l, from, w) IN
         /\ p \in Seq(E) /\ Len(p) = End(s, from, w) - from /\ Sorts(R, p)
         /\ ToSet(p) = Slice(s, from, End(s, from, w))
<1> DEFINE n == End(s, from, w)
           p == Run(l, from, w)
<1>1. Len(s) \in Nat /\ n \in Nat /\ from < n /\ n <= Len(s)
  <2>1. Len(l) \in Nat
    BY LenProperties
  <2> QED
    BY <2>1 DEF End
<1>2. p = SubSeq(l, from + 1, n)
  BY DEF Run, End
<1> HIDE DEF n, p
<1>3. \A i \in from + 1 .. n : l[i] \in E
  BY <1>1, ElementOfSeq
<1>4. /\ p \in Seq(E)
      /\ Len(p) = IF from + 1 <= n THEN n - (from + 1) + 1 ELSE 0
      /\ \A i \in 1 .. n - (from + 1) + 1 : p[i] = l[(from + 1) + i - 1]
  BY <1>1, <1>2, <1>3, SubSeqProperties
<1>5. Len(p) = n - from
  BY <1>1, <1>4
<1>6. ASSUME NEW i \in 1 .. n - from PROVE p[i] = l[from + i] /\ from + i \in from + 1 .. n
  <2>1. i \in 1 .. n - (from + 1) + 1 /\ (from + 1) + i - 1 = from + i /\ from + i \in from + 1 .. n
    BY <1>1
  <2> QED
    BY <1>4, <2>1
<1>7. Sorts(R, p)
  <2>1. ASSUME NEW i \in 1 .. n - from, NEW j \in 1 .. n - from, i < j PROVE <<p[i], p[j]>> \in R
    <3>1. from + i < from + j
      BY <2>1
    <3> QED
      BY <1>6, <3>1 DEF SortedRun, n
  <2> QED
    BY <1>5, <2>1 DEF Sorts
<1>8. ToSet(p) = Slice(l, from, n)
  <2>1. \A x : x \in ToSet(p) <=> \E i \in 1 .. n - from : p[i] = x
    BY <1>4, <1>5, ElementsOf
  <2>2. ASSUME NEW i \in from + 1 .. n PROVE \E j \in 1 .. n - from : p[j] = l[i]
    <3>1. i - from \in 1 .. n - from /\ from + (i - from) = i
      BY <1>1
    <3> QED
      BY <1>6, <3>1
  <2>3. \A x : x \in ToSet(p) <=> \E i \in from + 1 .. n : l[i] = x
    BY <1>6, <2>1, <2>2
  <2> QED
    BY <2>3 DEF Slice
<1> QED
  BY <1>4, <1>5, <1>7, <1>8 DEF SortedRun, n, p

LEMMA NoRun ==
  ASSUME NEW E, NEW l \in Seq(E), NEW from \in Nat, from >= Len(l), NEW w \in Nat
  PROVE  Run(l, from, w) = << >>
<1>1. Len(l) \in Nat
  BY LenProperties
<1>2. ~(from + w < Len(l)) /\ from + 1 \in Int /\ Len(l) < from + 1
  BY <1>1
<1>3. SubSeq(l, from + 1, Len(l)) = << >>
  BY <1>1, <1>2, SubSeqEmpty
<1> QED
  BY <1>2, <1>3 DEF Run

LEMMA SliceUnion ==
  ASSUME NEW s, NEW a \in Nat, NEW b \in Nat, NEW c \in Nat, a <= b, b <= c
  PROVE  Slice(s, a, b) \cup Slice(s, b, c) = Slice(s, a, c)
<1>1. \A i : i \in a + 1 .. c <=> i \in a + 1 .. b \/ i \in b + 1 .. c
  OBVIOUS
<1> QED
  BY <1>1 DEF Slice

\* Two neighbouring runs are merged to one.
LEMMA RunsMerged ==
  ASSUME NEW E, Ranked(E), NEW s \in Seq(E), Distinct(s), NEW w \in Nat \ {0}, NEW l,
         SortedRuns(E, Before(E, s), s, l, w), NEW m \in Marks(2 * w), m < Len(s)
  PROVE  LET t == Merge(Run(l, m, w), Run(l, m + w, w))
             n == End(s, m, 2 * w)
         IN  t \in Seq(E) /\ Len(t) = n - m /\ Sorts(Before(E, s), t) /\ ToSet(t) = Slice(s, m, n)
<1> DEFINE R == Before(E, s)
           p == Run(l, m, w)
           q == Run(l, m + w, w)
           n == End(s, m, 2 * w)
           k == End(s, m, w)
<1>1. Len(s) \in Nat /\ l \in Seq(E) /\ Len(l) = Len(s)
  BY LenProperties DEF SortedRuns
<1>2. m \in Nat /\ m \in Marks(w) /\ m + w \in Marks(w)
  BY MarksAre
<1>3. SortedRun(R, s, l, m, w)
  BY <1>2 DEF SortedRuns
<1>4. /\ n \in Nat /\ k \in Nat /\ m < k /\ k <= n /\ n <= Len(s)
      /\ m + w < Len(s) => k = m + w /\ End(s, m + w, w) = n
      /\ ~(m + w < Len(s)) => k = n
      /\ k <= m + w
  BY <1>1, <1>2 DEF End
<1>5. p \in Seq(E) /\ Len(p) = k - m /\ Sorts(R, p) /\ ToSet(p) = Slice(s, m, k)
  <2> HIDE DEF R
  <2> QED
    BY <1>1, <1>2, <1>3, RunIs
<1>6. q \in Seq(E) /\ Len(q) = n - k /\ Sorts(R, q) /\ ToSet(q) = Slice(s, k, n)
  <2>1. CASE m + w < Len(s)
    <3>1. SortedRun(R, s, l, m + w, w)
      BY <1>2, <2>1 DEF SortedRuns
    <3>2. m + w \in Nat
      BY <1>2
    <3>3. k = m + w /\ End(s, m + w, w) = n
      BY <1>4, <2>1
    <3>4. /\ q \in Seq(E) /\ Len(q) = End(s, m + w, w) - (m + w) /\ Sorts(R, q)
          /\ ToSet(q) = Slice(s, m + w, End(s, m + w, w))
      <4> HIDE DEF R
      <4> QED
        BY <1>1, <2>1, <3>1, <3>2, RunIs
    <3> QED
      BY <3>3, <3>4
  <2>2. CASE ~(m + w < Len(s))
    <3>1. q = << >>
      <4>1. m + w \in Nat /\ m + w >= Len(l)
        BY <1>1, <1>2, <2>2
      <4> QED
        BY <1>1, <4>1, NoRun
    <3>2. << >> \in Seq(E) /\ Len(<< >>) = 0 /\ ToSet(<< >>) = {}
      BY EmptySeq DEF ToSet
    <3>3. k = n /\ n - k = 0
      BY <1>4, <2>2
    <3>4. Slice(s, k, n) = {}
      BY <1>4, <3>3 DEF Slice
    <3>5. Sorts(R, << >>)
      BY <3>2 DEF Sorts
    <3> QED
      BY <3>1, <3>2, <3>3, <3>4, <3>5
  <2> QED
    BY <2>1, <2>2
<1> HIDE DEF R, p, q, n, k
<1>7. ASSUME NEW i \in 1 .. Len(p), NEW j \in 1 .. Len(q)
      PROVE  IF Rank(p[i]) <= Rank(q[j]) THEN <<p[i], q[j]>> \in R ELSE <<q[j], p[i]>> \in R
  <2>1. p[i] \in Slice(s, m, k) /\ q[j] \in Slice(s, k, n)
    BY <1>5, <1>6, ElementsOf
  <2>2. PICK a \in m + 1 .. k : p[i] = s[a]
    BY <2>1 DEF Slice
  <2>3. PICK b \in k + 1 .. n : q[j] = s[b]
    BY <2>1 DEF Slice
  <2>4. a \in 1 .. Len(s) /\ b \in 1 .. Len(s) /\ a < b
    BY <1>1, <1>2, <1>4
  <2>5. Rank(s[a]) \in Int /\ Rank(s[b]) \in Int
    BY <2>4, ElementOfSeq DEF Ranked
  <2>6. \A x, y \in 1 .. Len(s) : <<s[x], s[y]>> \in R <=>
              Rank(s[x]) < Rank(s[y]) \/ (Rank(s[x]) = Rank(s[y]) /\ x < y)
    BY BeforeIs DEF R
  <2> QED
    BY <2>2, <2>3, <2>4, <2>5, <2>6
<1>8. Mergeable(E, R, p, q)
  <2>1. \A x, y, z \in E : <<x, y>> \in R /\ <<y, z>> \in R => <<x, z>> \in R
    BY BeforeIs DEF R
  <2> QED
    BY <1>5, <1>6, <1>7, <2>1 DEF Mergeable
<1>9. /\ Merge(p, q) \in Seq(E) /\ Len(Merge(p, q)) = Len(p) + Len(q) /\ Sorts(R, Merge(p, q))
      /\ ToSet(Merge(p, q)) = ToSet(p) \cup ToSet(q)
  BY <1>8, MergeIs
<1>10. Len(p) + Len(q) = n - m
  BY <1>2, <1>4, <1>5, <1>6
<1>11. ToSet(p) \cup ToSet(q) = Slice(s, m, n)
  <2>1. m <= k
    BY <1>2, <1>4
  <2>2. Slice(s, m, k) \cup Slice(s, k, n) = Slice(s, m, n)
    BY <1>2, <1>4, <2>1, SliceUnion
  <2> QED
    BY <1>5, <1>6, <2>2
<1> QED
  BY <1>9, <1>10, <1>11 DEF R, p, q, n

\* What one turn of the outer loop has merged: all runs of w elements behind o's are to come.
Passed(E, R, s, w, o) ==
  /\ o \in Seq(E) /\ Len(o) <= Len(s) /\ (Len(o) \in Marks(w) \/ Len(o) = Len(s))
  /\ \A m \in Marks(w) : m < Len(s) /\ (m + w <= Len(o) \/ Len(o) = Len(s)) => SortedRun(R, s, o, m, w)

LEMMA PassTurn ==
  ASSUME NEW E, Ranked(E), NEW s \in Seq(E), Distinct(s), NEW w \in Nat \ {0}, NEW l,
         SortedRuns(E, Before(E, s), s, l, w), NEW o, Passed(E, Before(E, s), s, 2 * w, o)
  PROVE  LET u == o \o Merge(Run(l, Len(o), w), Run(l, Len(o) + w, w)) IN
         Passed(E, Before(E, s), s, 2 * w, u) /\ (Len(u) = Len(s) \/ Len(u) > Len(o))
<1> DEFINE R == Before(E, s)
           W == 2 * w
           m == Len(o)
           n == End(s, m, W)
           t == Merge(Run(l, m, w), Run(l, m + w, w))
           u == o \o t
<1>1. Len(s) \in Nat /\ l \in Seq(E) /\ Len(l) = Len(s) /\ o \in Seq(E) /\ m \in Nat /\ m <= Len(s)
  BY LenProperties DEF SortedRuns, Passed
<1>2. W \in Nat \ {0}
  OBVIOUS
<1>3. CASE m = Len(s)
  <2>1. Run(l, m, w) = << >> /\ Run(l, m + w, w) = << >>
    <3>1. m + w \in Nat /\ m + w >= Len(l)
      BY <1>1, <1>3
    <3> QED
      BY <1>1, <1>3, <3>1, NoRun
  <2>2. Merge(<< >>, << >>) = << >>
    <3>1. << >> \in Seq(E) /\ Len(<< >>) = 0
      BY EmptySeq
    <3>2. Mergeable(E, R, << >>, << >>)
      <4>1. \A x, y, z \in E : <<x, y>> \in R /\ <<y, z>> \in R => <<x, z>> \in R
        BY BeforeIs
      <4>2. Sorts(R, << >>)
        BY <3>1 DEF Sorts
      <4> HIDE DEF R
      <4> QED
        BY <3>1, <4>1, <4>2 DEF Mergeable
    <3>3. Merge(<< >>, << >>) \in Seq(E) /\ Len(Merge(<< >>, << >>)) = 0 + 0
      <4> HIDE DEF R
      <4> QED
        BY <3>1, <3>2, MergeIs
    <3> QED
      BY <3>3, EmptySeq
  <2>3. u = o
    BY <1>1, <2>1, <2>2, ConcatEmptySeq
  <2> QED
    BY <1>3, <2>3
<1>4. CASE m < Len(s)
  <2>1. m \in Marks(W)
    BY <1>4, <1>1 DEF Passed
  <2>2. t \in Seq(E) /\ Len(t) = n - m /\ Sorts(R, t) /\ ToSet(t) = Slice(s, m, n)
    BY <1>4, <2>1, RunsMerged
  <2>3. n \in Nat /\ m < n /\ n <= Len(s) /\ (n = m + W \/ n = Len(s)) /\ n <= m + W
    BY <1>1, <1>2, <1>4 DEF End
  <2> HIDE DEF t, R, W, n
  <2>4. /\ u \in Seq(E) /\ Len(u) = m + (n - m)
        /\ \A i \in 1 .. m + (n - m) : u[i] = IF i <= m THEN o[i] ELSE t[i - m]
    BY <1>1, <2>2, ConcatProperties
  <2>5. Len(u) = n
    BY <1>1, <2>3, <2>4
  <2>6. \A i \in 1 .. m : u[i] = o[i]
    BY <1>1, <2>3, <2>4
  <2>7. ASSUME NEW i \in m + 1 .. n PROVE i - m \in 1 .. Len(t) /\ u[i] = t[i - m]
    <3>1. i \in 1 .. m + (n - m) /\ ~(i <= m) /\ i - m \in 1 .. n - m
      BY <1>1, <2>3
    <3> QED
      BY <2>2, <2>4, <3>1
  <2> HIDE DEF u, m
  <2>8. SortedRun(R, s, u, m, W)
    <3>1. Slice(u, m, n) = Slice(s, m, n)
      <4>1. \A x : x \in ToSet(t) <=> \E i \in 1 .. Len(t) : t[i] = x
        BY <2>2, ElementsOf
      <4>2. ASSUME NEW i \in 1 .. Len(t) PROVE i + m \in m + 1 .. n /\ u[i + m] = t[i]
        <5>1. i + m \in m + 1 .. n /\ (i + m) - m = i
          BY <1>1, <2>2, <2>3
        <5> QED
          BY <2>7, <5>1
      <4>3. \A x : x \in ToSet(t) <=> \E i \in m + 1 .. n : u[i] = x
        BY <2>7, <4>1, <4>2
      <4>4. ToSet(t) = Slice(u, m, n)
        BY <4>3 DEF Slice
      <4> QED
        BY <2>2, <4>4
    <3>2. ASSUME NEW i \in m + 1 .. n, NEW j \in m + 1 .. n, i < j PROVE <<u[i], u[j]>> \in R
      <4>1. i - m < j - m
        BY <1>1, <3>2
      <4> QED
        BY <2>2, <2>7, <4>1 DEF Sorts
    <3>3. \A i, j \in m + 1 .. n : i < j => <<u[i], u[j]>> \in R
      BY <3>2
    <3>4. SortedRun(R, s, u, m, W) <=>
             /\ Slice(u, m, n) = Slice(s, m, n)
             /\ \A i, j \in m + 1 .. n : i < j => <<u[i], u[j]>> \in R
      BY DEF SortedRun, n
    <3> QED
      BY <3>1, <3>3, <3>4
  <2>9. ASSUME NEW a \in Marks(W), a < Len(s), a + W <= Len(u) \/ Len(u) = Len(s)
        PROVE  SortedRun(R, s, u, a, W)
    <3>1. a \in Nat /\ (a < m => a + W <= m) /\ (m < a => m + W <= a)
      BY <1>2, <2>1, MarksAre
    <3>2. CASE a = m
      BY <2>8, <3>2
    <3>3. CASE a < m
      <4>1. SortedRun(R, s, o, a, W)
        BY <2>9, <3>1, <3>3 DEF Passed, R, W, m
      <4>2. End(s, a, W) = a + W /\ a + W <= m
        BY <1>1, <1>2, <1>4, <3>1, <3>3 DEF End
      <4>3. \A i \in a + 1 .. a + W : u[i] = o[i]
        BY <1>1, <1>2, <2>6, <3>1, <4>2
      <4>4. Slice(u, a, a + W) = Slice(o, a, a + W)
        BY <4>3 DEF Slice
      <4> QED
        BY <4>1, <4>2, <4>3, <4>4 DEF SortedRun
    <3>4. CASE m < a
      <4>1. m + W <= a
        BY <3>1, <3>4
      <4> QED
        BY <1>1, <1>2, <2>3, <2>5, <2>9, <3>1, <3>4, <4>1
    <3> QED
      BY <1>1, <3>1, <3>2, <3>3, <3>4
  <2>10. Len(u) \in Marks(W) \/ Len(u) = Len(s)
    <3>1. m + W \in Marks(W)
      BY <1>2, <2>1, MarksAre
    <3> QED
      BY <2>3, <2>5, <3>1
  <2>11. Passed(E, R, s, W, u) /\ Len(u) > m
    BY <1>1, <2>3, <2>4, <2>5, <2>9, <2>10 DEF Passed
  <2> QED
    BY <2>11 DEF R, W, u, t, m
<1> QED
  BY <1>1, <1>3, <1>4

\* A turn of the outer loop doubles the runs.
LEMMA PassIs ==
  ASSUME NEW E, Ranked(E), NEW s \in Seq(E), Distinct(s), NEW w \in Nat \ {0}, NEW l,
         SortedRuns(E, Before(E, s), s, l, w)
  PROVE  SortedRuns(E, Before(E, s), s, Pass(l, w), 2 * w)
<1> DEFINE N == Len(l)
           R == Before(E, s)
           Turned(o) == o \o Merge(Run(l, Len(o), w), Run(l, Len(o) + w, w))
           W == [n \in 0 .. N |-> {o \in Seq(E) : Passed(E, R, s, 2 * w, o) /\ Len(o) >= n}]
           D == [on \in Seq(E) \X (1 .. N) |-> Turned(on[1])]
           IsList(f) == f = [n \in 0 .. N |-> IF n = 0 THEN << >> ELSE Turned(f[n - 1])]
           list == CHOOSE f : IsList(f)
<1>1. N \in Nat /\ N = Len(s) /\ 2 * w \in Nat \ {0}
  BY LenProperties DEF SortedRuns
<1>2. << >> \in W[0]
  <2>1. << >> \in Seq(E) /\ Len(<< >>) = 0 /\ 0 \in Marks(2 * w)
    BY <1>1, EmptySeq, MarksAre
  <2>2. ASSUME NEW m \in Marks(2 * w), m < Len(s), m + 2 * w <= 0 \/ 0 = Len(s) PROVE FALSE
    <3>1. m \in Nat
      BY <1>1, MarksAre
    <3> QED
      BY <1>1, <2>2, <3>1
  <2>3. Passed(E, R, s, 2 * w, << >>)
    BY <1>1, <2>1, <2>2 DEF Passed
  <2> QED
    BY <1>1, <2>1, <2>3
<1>3. ASSUME NEW n \in 1 .. N, NEW o \in W[n - 1] PROVE o \in Seq(E) /\ Turned(o) \in W[n]
  <2>1. n - 1 \in 0 .. N /\ n \in 0 .. N
    BY <1>1
  <2>2. o \in Seq(E) /\ Passed(E, R, s, 2 * w, o) /\ Len(o) >= n - 1
    BY <2>1
  <2>3. Passed(E, R, s, 2 * w, Turned(o)) /\ (Len(Turned(o)) = Len(s) \/ Len(Turned(o)) > Len(o))
    BY <2>2, PassTurn
  <2> HIDE DEF Turned
  <2>4. Turned(o) \in Seq(E) /\ Len(Turned(o)) \in Nat /\ Len(o) \in Nat
    <3>1. Turned(o) \in Seq(E)
      BY <2>3 DEF Passed
    <3> QED
      BY <2>2, <3>1, LenProperties
  <2>5. Len(Turned(o)) >= n
    BY <1>1, <2>1, <2>2, <2>3, <2>4
  <2> QED
    BY <2>1, <2>2, <2>3, <2>4, <2>5
<1> HIDE DEF Turned, R
<1>4. Leads(N, W, << >>, D)
  <2>1. ASSUME NEW n \in 1 .. N, NEW o \in W[n - 1] PROVE D[<<o, n>>] \in W[n]
    <3>1. o \in Seq(E) /\ Turned(o) \in W[n]
      BY <1>3
    <3>2. D[<<o, n>>] = Turned(o)
      BY <3>1
    <3> QED
      BY <3>1, <3>2
  <2> HIDE DEF D, W
  <2> QED
    BY <1>2, <2>1 DEF Leads
<1> HIDE DEF W, D, N
<1>5. PICK f : IsLoop(f, N, << >>, D)
  BY <1>1, <1>4, LoopExists
<1>6. \A n \in 0 .. N : f[n] \in W[n]
  BY <1>1, <1>4, <1>5, LoopStates
<1>7. IsList(f)
  <2>1. \A n \in 1 .. N : n - 1 \in 0 .. N
    BY <1>1
  <2>2. ASSUME NEW n \in 1 .. N PROVE D[<<f[n - 1], n>>] = Turned(f[n - 1])
    <3>1. f[n - 1] \in Seq(E)
      BY <1>3, <1>6, <2>1
    <3> QED
      BY <3>1 DEF D
  <2>3. \A n \in 0 .. N : (IF n = 0 THEN << >> ELSE D[<<f[n - 1], n>>])
                        = (IF n = 0 THEN << >> ELSE Turned(f[n - 1]))
    BY <1>1, <2>2
  <2>4. f = [n \in 0 .. N |-> IF n = 0 THEN << >> ELSE D[<<f[n - 1], n>>]]
    BY <1>5 DEF IsLoop
  <2> QED
    BY <2>3, <2>4, Zenon
<1>8. IsList(list)
  <2> HIDE DEF IsList
  <2> QED
    BY <1>7
<1>9. Pass(l, w) = list[N]
  BY DEF Pass, Turned, N
<1> HIDE DEF list
<1>10. list[0] = << >> /\ \A n \in 1 .. N : list[n] = Turned(list[n - 1])
  BY <1>1, <1>8
<1>11. list[N] \in W[N]
  <2>1. \A n \in 1 .. N : list[n - 1] \in W[n - 1] => list[n] \in W[n]
    BY <1>3, <1>10
  <2>2. \A n \in 0 .. N : list[n] \in W[n]
    BY <1>1, <1>2, <1>10, <2>1, LoopInvariant
  <2> QED
    BY <1>1, <2>2
<1> DEFINE o == list[N]
<1>12. o \in Seq(E) /\ Passed(E, R, s, 2 * w, o) /\ Len(o) >= N
  BY <1>1, <1>11 DEF W
<1> HIDE DEF o
<1>13. Len(o) = Len(s)
  <2>1. Len(o) \in Nat /\ Len(o) <= Len(s)
    BY <1>12, LenProperties DEF Passed
  <2> QED
    BY <1>1, <1>12, <2>1
<1>14. SortedRuns(E, R, s, o, 2 * w)
  BY <1>12, <1>13 DEF SortedRuns, Passed
<1> QED
  BY <1>9, <1>14 DEF R, o

\* The sort is stable.
THEOREM MergeSortedIs ==
  ASSUME NEW E, Ranked(E), NEW s \in Seq(E), Distinct(s)
  PROVE  LET t == MergeSorted(s) IN
         t \in Seq(E) /\ Len(t) = Len(s) /\ Distinct(t) /\ ToSet(t) = ToSet(s) /\ StablySorted(s, t)
<1> DEFINE N == Len(s)
           R == Before(E, s)
           First == [list |-> s, insize |-> 1]
           Turned(t) == IF t.insize >= N THEN t
                        ELSE [list |-> Pass(t.list, t.insize), insize |-> 2 * t.insize]
           States == [list : Seq(E), insize : Nat \ {0}]
           W == [n \in 0 .. N |-> {t \in States : /\ SortedRuns(E, R, s, t.list, t.insize)
                                                  /\ t.insize >= N \/ t.insize > n}]
           D == [tn \in States \X (1 .. N) |-> Turned(tn[1])]
           IsTurn(f) == f = [n \in 0 .. N |-> IF n = 0 THEN First ELSE Turned(f[n - 1])]
           turn == CHOOSE f : IsTurn(f)
<1>1. N \in Nat
  BY LenProperties
<1>2. First \in W[0]
  <2>1. SortedRuns(E, R, s, s, 1)
    <3>1. ASSUME NEW m \in Marks(1), m < Len(s) PROVE SortedRun(R, s, s, m, 1)
      <4>1. m \in Nat /\ End(s, m, 1) = m + 1
        <5>1. m \in Nat
          BY MarksAre
        <5> QED
          BY <1>1, <3>1, <5>1 DEF End
      <4>2. \A i, j \in m + 1 .. m + 1 : ~(i < j)
        BY <4>1
      <4> QED
        BY <4>1, <4>2 DEF SortedRun
    <3> QED
      BY <3>1 DEF SortedRuns
  <2>2. First \in States /\ First.list = s /\ First.insize = 1
    OBVIOUS
  <2>3. First \in {t \in States : SortedRuns(E, R, s, t.list, t.insize) /\ (t.insize >= N \/ t.insize > 0)}
    <3> HIDE DEF First, States, R
    <3> QED
      BY <2>1, <2>2
  <2> HIDE DEF First, States, R
  <2> QED
    BY <1>1, <2>3
<1>3. ASSUME NEW n \in 1 .. N, NEW t \in W[n - 1] PROVE t \in States /\ Turned(t) \in W[n]
  <2>1. n - 1 \in 0 .. N /\ n \in 0 .. N
    BY <1>1
  <2>2. /\ t \in States /\ SortedRuns(E, R, s, t.list, t.insize)
        /\ t.insize >= N \/ t.insize > n - 1
    <3> HIDE DEF R, States
    <3> QED
      BY <2>1
  <2>3. CASE t.insize >= N
    <3>1. Turned(t) = t
      BY <2>3
    <3> HIDE DEF R, States, Turned
    <3> QED
      BY <2>1, <2>2, <2>3, <3>1
  <2>4. CASE ~(t.insize >= N)
    <3> DEFINE l == Pass(t.list, t.insize)
               k == 2 * t.insize
    <3>1. Turned(t) = [list |-> l, insize |-> k]
      BY <2>4
    <3>2. t.insize \in Nat \ {0}
      BY <2>2
    <3>3. SortedRuns(E, R, s, l, k)
      BY <2>2, <3>2, PassIs
    <3>4. l \in Seq(E)
      BY <3>3 DEF SortedRuns
    <3>5. k \in Nat \ {0} /\ k > n
      BY <2>1, <2>2, <2>4, <3>2, <1>1
    <3> HIDE DEF R, l, k, Turned
    <3>6. Turned(t) \in States /\ Turned(t).list = l /\ Turned(t).insize = k
      BY <3>1, <3>4, <3>5
    <3> HIDE DEF States
    <3> QED
      BY <2>1, <3>3, <3>5, <3>6
  <2> QED
    BY <2>2, <2>3, <2>4
<1> HIDE DEF Turned, R, States, First
<1>4. Leads(N, W, First, D)
  <2>1. ASSUME NEW n \in 1 .. N, NEW t \in W[n - 1] PROVE D[<<t, n>>] \in W[n]
    <3>1. t \in States /\ Turned(t) \in W[n]
      BY <1>3
    <3>2. D[<<t, n>>] = Turned(t)
      BY <3>1
    <3> QED
      BY <3>1, <3>2
  <2> HIDE DEF D, W
  <2> QED
    BY <1>2, <2>1 DEF Leads
<1> HIDE DEF W, D, N
<1>5. PICK f : IsLoop(f, N, First, D)
  BY <1>1, <1>4, LoopExists
<1>6. \A n \in 0 .. N : f[n] \in W[n]
  BY <1>1, <1>4, <1>5, LoopStates
<1>7. IsTurn(f)
  <2>1. \A n \in 1 .. N : n - 1 \in 0 .. N
    BY <1>1
  <2>2. ASSUME NEW n \in 1 .. N PROVE D[<<f[n - 1], n>>] = Turned(f[n - 1])
    <3>1. f[n - 1] \in States
      BY <1>3, <1>6, <2>1
    <3> QED
      BY <3>1 DEF D
  <2>3. \A n \in 0 .. N : (IF n = 0 THEN First ELSE D[<<f[n - 1], n>>])
                        = (IF n = 0 THEN First ELSE Turned(f[n - 1]))
    BY <1>1, <2>2
  <2>4. f = [n \in 0 .. N |-> IF n = 0 THEN First ELSE D[<<f[n - 1], n>>]]
    BY <1>5 DEF IsLoop
  <2> QED
    BY <2>3, <2>4, Zenon
<1>8. IsTurn(turn)
  <2> HIDE DEF IsTurn
  <2> QED
    BY <1>7
<1>9. MergeSorted(s) = turn[N].list
  BY DEF MergeSorted, Turned, First, N
<1> HIDE DEF turn
<1>10. turn[0] = First /\ \A n \in 1 .. N : turn[n] = Turned(turn[n - 1])
  BY <1>1, <1>8
<1>11. turn[N] \in W[N]
  <2>1. \A n \in 1 .. N : turn[n - 1] \in W[n - 1] => turn[n] \in W[n]
    BY <1>3, <1>10
  <2>2. \A n \in 0 .. N : turn[n] \in W[n]
    BY <1>1, <1>2, <1>10, <2>1, LoopInvariant
  <2> QED
    BY <1>1, <2>2
<1> DEFINE t == turn[N].list
           k == turn[N].insize
<1>12. SortedRuns(E, R, s, t, k) /\ k \in Nat \ {0} /\ k >= N
  BY <1>1, <1>11 DEF W, States
<1> HIDE DEF t, k
<1>13. t \in Seq(E) /\ Len(t) = Len(s)
  BY <1>12 DEF SortedRuns
<1>14. /\ Slice(t, 0, Len(s)) = Slice(s, 0, Len(s))
       /\ \A i, j \in 1 .. Len(s) : i < j => <<t[i], t[j]>> \in R
  <2>1. CASE N = 0
    <3>1. Slice(t, 0, Len(s)) = {} /\ Slice(s, 0, Len(s)) = {}
      BY <2>1 DEF Slice, N
    <3>2. 1 .. Len(s) = {}
      BY <2>1 DEF N
    <3> QED
      BY <3>1, <3>2
  <2>2. CASE N > 0
    <3>1. SortedRun(R, s, t, 0, k)
      BY <1>12, <2>2, MarksAre DEF SortedRuns, N
    <3>2. End(s, 0, k) = Len(s)
      BY <1>1, <1>12 DEF End, N
    <3> QED
      BY <3>1, <3>2 DEF SortedRun
  <2> QED
    BY <1>1, <2>1, <2>2
<1>15. /\ ToSet(t) = {t[i] : i \in 1 .. Len(t)} /\ ToSet(s) = {s[i] : i \in 1 .. Len(s)}
       /\ ToSet(t) = ToSet(s)
  <2>1. /\ ToSet(t) = {t[i] : i \in 1 .. Len(t)} /\ ToSet(s) = {s[i] : i \in 1 .. Len(s)}
    BY <1>13, ElementsOf
  <2>2. Slice(t, 0, Len(s)) = {t[i] : i \in 1 .. Len(t)} /\ Slice(s, 0, Len(s)) = {s[i] : i \in 1 .. Len(s)}
    BY <1>13 DEF Slice
  <2> QED
    BY <1>14, <2>1, <2>2
<1>16. Distinct(t)
  <2>1. \A x : <<x, x>> \notin R
    BY BeforeIs DEF R
  <2>2. ASSUME NEW i \in 1 .. Len(t), NEW j \in 1 .. Len(t), t[i] = t[j], i # j PROVE FALSE
    <3>1. i < j \/ j < i
      BY <2>2
    <3> QED
      BY <1>13, <1>14, <2>1, <2>2, <3>1
  <2> QED
    BY <2>2 DEF Distinct
<1>17. StablySorted(s, t)
  <2> DEFINE At(x) == CHOOSE i \in 1 .. Len(s) : s[i] = x
  <2>1. ASSUME NEW i \in 1 .. Len(t), NEW j \in 1 .. Len(t), i < j
        PROVE  Rank(t[i]) < Rank(t[j]) \/ (Rank(t[i]) = Rank(t[j]) /\ At(t[i]) < At(t[j]))
    <3>1. <<t[i], t[j]>> \in R
      BY <1>13, <1>14, <2>1
    <3>2. PICK a \in 1 .. Len(s) : s[a] = t[i]
      BY <1>13, <1>15, ElementsOf
    <3>3. PICK b \in 1 .. Len(s) : s[b] = t[j]
      BY <1>13, <1>15, ElementsOf
    <3>4. Rank(s[a]) < Rank(s[b]) \/ (Rank(s[a]) = Rank(s[b]) /\ a < b)
      <4>1. \A x, y \in 1 .. Len(s) : <<s[x], s[y]>> \in R <=>
              Rank(s[x]) < Rank(s[y]) \/ (Rank(s[x]) = Rank(s[y]) /\ x < y)
        BY BeforeIs DEF R
      <4> QED
        BY <3>1, <3>2, <3>3, <4>1
    <3>5. At(t[i]) = a /\ At(t[j]) = b
      BY <3>2, <3>3 DEF Distinct
    <3> HIDE DEF At
    <3> QED
      BY <3>2, <3>3, <3>4, <3>5
  <2>2. \A i, j \in 1 .. Len(t) : i < j =>
          Rank(t[i]) < Rank(t[j]) \/ (Rank(t[i]) = Rank(t[j]) /\ At(t[i]) < At(t[j]))
    BY <2>1
  <2>3. {s[i] : i \in 1 .. Len(s)} = {t[i] : i \in 1 .. Len(t)}
    BY <1>15
  <2> QED
    BY <1>13, <2>2, <2>3, Zenon DEF StablySorted
<1> QED
  BY <1>9, <1>13, <1>15, <1>16, <1>17 DEF t


-----------------------------------------------------------------------------
(* Sequences with an element more, and backwards                            *)

\* s with e before its k-th element, or behind the last one.
Insert(s, k, e) ==
  [i \in 1 .. Len(s) + 1 |-> IF i < k THEN s[i] ELSE IF i = k THEN e ELSE s[i - 1]]

LEMMA InsertIs ==
  ASSUME NEW E, NEW s \in Seq(E), NEW k \in 1 .. Len(s) + 1, NEW e \in E
  PROVE  /\ Insert(s, k, e) \in Seq(E) /\ Len(Insert(s, k, e)) = Len(s) + 1
         /\ \A i \in 1 .. Len(s) + 1 :
              Insert(s, k, e)[i] = IF i < k THEN s[i] ELSE IF i = k THEN e ELSE s[i - 1]
         /\ ToSet(Insert(s, k, e)) = ToSet(s) \cup {e}
         /\ Distinct(s) /\ e \notin ToSet(s) => Distinct(Insert(s, k, e))
<1> DEFINE t == Insert(s, k, e)
<1>1. Len(s) \in Nat /\ Len(s) + 1 \in Nat
  BY LenProperties
<1>2. ASSUME NEW i \in 1 .. Len(s) + 1
      PROVE  (i < k => i \in 1 .. Len(s)) /\ (i > k => i - 1 \in 1 .. Len(s) /\ i - 1 >= k)
  BY <1>1
<1>3. \A i \in 1 .. Len(s) + 1 : t[i] = IF i < k THEN s[i] ELSE IF i = k THEN e ELSE s[i - 1]
  BY DEF Insert
<1>4. \A i \in 1 .. Len(s) : s[i] \in E
  BY ElementOfSeq
<1>5. t \in Seq(E) /\ Len(t) = Len(s) + 1
  <2>1. ASSUME NEW i \in 1 .. Len(s) + 1
        PROVE  (IF i < k THEN s[i] ELSE IF i = k THEN e ELSE s[i - 1]) \in E
    BY <1>2, <1>4
  <2>2. t \in [1 .. Len(s) + 1 -> E]
    BY <2>1 DEF Insert
  <2> QED
    BY <1>1, <2>2, IsASeq
<1> HIDE DEF t
<1>6. \A x : x \in ToSet(t) <=> \E i \in 1 .. Len(t) : t[i] = x
  BY <1>5, ElementsOf
<1>7. \A x : x \in ToSet(s) <=> \E i \in 1 .. Len(s) : s[i] = x
  BY ElementsOf
<1>8. ToSet(t) = ToSet(s) \cup {e}
  <2>1. ASSUME NEW x \in ToSet(t) PROVE x \in ToSet(s) \cup {e}
    <3>1. PICK i \in 1 .. Len(s) + 1 : t[i] = x
      BY <1>5, <1>6
    <3>2. CASE i = k
      BY <1>3, <3>1, <3>2
    <3>3. CASE i < k
      BY <1>2, <1>3, <1>7, <3>1, <3>3
    <3>4. CASE i > k
      <4>1. i - 1 \in 1 .. Len(s)
        BY <1>2, <3>4
      <4>2. t[i] = s[i - 1]
        BY <1>3, <3>4
      <4> QED
        BY <1>7, <3>1, <4>1, <4>2
    <3> QED
      BY <1>1, <3>2, <3>3, <3>4
  <2>2. e \in ToSet(t)
    BY <1>3, <1>5, <1>6
  <2>3. ASSUME NEW x \in ToSet(s) PROVE x \in ToSet(t)
    <3>1. PICK i \in 1 .. Len(s) : s[i] = x
      BY <1>7
    <3>2. CASE i < k
      BY <1>1, <1>3, <1>5, <1>6, <3>1, <3>2
    <3>3. CASE i >= k
      <4>1. i + 1 \in 1 .. Len(s) + 1 /\ i + 1 > k /\ (i + 1) - 1 = i
        BY <1>1, <3>3
      <4>2. t[i + 1] = s[(i + 1) - 1]
        BY <1>3, <4>1
      <4> QED
        BY <1>5, <1>6, <3>1, <4>1, <4>2
    <3> QED
      BY <1>1, <3>2, <3>3
  <2> QED
    BY <2>1, <2>2, <2>3
<1>9. ASSUME Distinct(s), e \notin ToSet(s) PROVE Distinct(t)
  <2> SUFFICES ASSUME NEW i \in 1 .. Len(s) + 1, NEW j \in 1 .. Len(s) + 1, i < j PROVE t[i] # t[j]
    <3>1. \A i, j \in 1 .. Len(s) + 1 : t[i] = t[j] => ~(i < j) /\ ~(j < i)
      OBVIOUS
    <3>2. \A i, j \in 1 .. Len(s) + 1 : ~(i < j) /\ ~(j < i) => i = j
      OBVIOUS
    <3> QED
      BY <1>5, <3>1, <3>2 DEF Distinct
  <2>1. \A n \in 1 .. Len(s) : s[n] # e
    BY <1>7, <1>9
  <2>2. \A n, o \in 1 .. Len(s) : n < o => s[n] # s[o]
    BY <1>9 DEF Distinct
  <2>3. CASE j < k
    <3>1. t[i] = s[i] /\ t[j] = s[j] /\ i \in 1 .. Len(s) /\ j \in 1 .. Len(s)
      BY <1>2, <1>3, <2>3
    <3> QED
      BY <2>2, <3>1
  <2>4. CASE j = k
    <3>1. t[i] = s[i] /\ t[j] = e /\ i \in 1 .. Len(s)
      BY <1>2, <1>3, <2>4
    <3> QED
      BY <2>1, <3>1
  <2>5. CASE j > k
    <3>1. t[j] = s[j - 1] /\ j - 1 \in 1 .. Len(s)
      BY <1>2, <1>3, <2>5
    <3>2. CASE i = k
      <4>1. t[i] = e
        BY <1>3, <3>2
      <4> QED
        BY <2>1, <3>1, <4>1
    <3>3. CASE i < k
      <4>1. t[i] = s[i] /\ i \in 1 .. Len(s) /\ i < j - 1
        BY <1>2, <1>3, <2>5, <3>3
      <4> QED
        BY <2>2, <3>1, <4>1
    <3>4. CASE i > k
      <4>1. t[i] = s[i - 1] /\ i - 1 \in 1 .. Len(s) /\ i - 1 < j - 1
        BY <1>2, <1>3, <3>4
      <4> QED
        BY <2>2, <3>1, <4>1
    <3> QED
      BY <3>2, <3>3, <3>4
  <2> QED
    BY <2>3, <2>4, <2>5
<1> QED
  BY <1>3, <1>5, <1>8, <1>9 DEF t

\* First, last, or anywhere.
LEMMA InsertForms ==
  ASSUME NEW E, NEW s \in Seq(E), NEW e \in E
  PROVE  /\ <<e>> \o s = Insert(s, 1, e)
         /\ Append(s, e) = Insert(s, Len(s) + 1, e)
         /\ \A i \in 1 .. Len(s) : InsertAt(s, i + 1, e) = Insert(s, i + 1, e)
<1>1. Len(s) \in Nat /\ Len(s) + 1 \in Nat /\ 1 \in 1 .. Len(s) + 1 /\ Len(s) + 1 \in 1 .. Len(s) + 1
  BY LenProperties
<1>2. <<e>> \in Seq(E) /\ Len(<<e>>) = 1 /\ <<e>>[1] = e
  OBVIOUS
<1>3. <<e>> \o s = Insert(s, 1, e)
  <2>1. /\ <<e>> \o s \in Seq(E) /\ Len(<<e>> \o s) = 1 + Len(s)
        /\ \A i \in 1 .. 1 + Len(s) : (<<e>> \o s)[i] = IF i <= 1 THEN <<e>>[i] ELSE s[i - 1]
    BY <1>2, ConcatProperties
  <2>2. /\ Insert(s, 1, e) \in Seq(E) /\ Len(Insert(s, 1, e)) = Len(s) + 1
        /\ \A i \in 1 .. Len(s) + 1 :
             Insert(s, 1, e)[i] = IF i < 1 THEN s[i] ELSE IF i = 1 THEN e ELSE s[i - 1]
    BY <1>1, InsertIs
  <2>3. 1 + Len(s) = Len(s) + 1
    BY <1>1
  <2>4. \A i \in 1 .. Len(s) + 1 : (<<e>> \o s)[i] = Insert(s, 1, e)[i]
    BY <1>1, <1>2, <2>1, <2>2
  <2> DEFINE a == <<e>> \o s
             b == Insert(s, 1, e)
  <2>5. /\ a \in Seq(E) /\ b \in Seq(E) /\ Len(a) = Len(b)
        /\ \A i \in 1 .. Len(a) : a[i] = b[i]
    BY <2>1, <2>2, <2>3, <2>4
  <2> HIDE DEF a, b
  <2>6. a = b
    BY <2>5, SeqEqual
  <2> QED
    BY <2>6 DEF a, b
<1>4. Append(s, e) = Insert(s, Len(s) + 1, e)
  <2>1. /\ Append(s, e) \in Seq(E) /\ Len(Append(s, e)) = Len(s) + 1
        /\ \A i \in 1 .. Len(s) : Append(s, e)[i] = s[i]
        /\ Append(s, e)[Len(s) + 1] = e
    BY AppendProperties
  <2> DEFINE n == Len(s) + 1
             t == Insert(s, n, e)
  <2>2. /\ t \in Seq(E) /\ Len(t) = Len(s) + 1
        /\ \A i \in 1 .. Len(s) + 1 :
             t[i] = IF i < n THEN s[i] ELSE IF i = n THEN e ELSE s[i - 1]
    <3> HIDE DEF n
    <3>1. n \in 1 .. Len(s) + 1
      BY <1>1 DEF n
    <3> QED
      BY <3>1, InsertIs
  <2> HIDE DEF t
  <2>3. ASSUME NEW i \in 1 .. Len(s) + 1 PROVE Append(s, e)[i] = t[i]
    <3>1. CASE i = Len(s) + 1
      BY <2>1, <2>2, <3>1
    <3>2. CASE i # Len(s) + 1
      <4>1. i \in 1 .. Len(s) /\ i < Len(s) + 1
        BY <1>1, <3>2
      <4> QED
        BY <2>1, <2>2, <4>1
    <3> QED
      BY <3>1, <3>2
  <2> QED
    BY <2>1, <2>2, <2>3, SeqEqual DEF t
<1>5. ASSUME NEW i \in 1 .. Len(s) PROVE InsertAt(s, i + 1, e) = Insert(s, i + 1, e)
  <2> DEFINE p == SubSeq(s, 1, i)
             q == SubSeq(s, i + 1, Len(s))
             t == Insert(s, i + 1, e)
  <2>1. i \in 0 .. Len(s) /\ i + 1 \in 1 .. Len(s) + 1
    BY <1>1
  <2>2. p \in Seq(E) /\ Len(p) = i /\ \A j \in 1 .. i : p[j] = s[j]
    BY <2>1, PrefixOf
  <2>3. q \in Seq(E) /\ Len(q) = Len(s) - i /\ \A j \in 1 .. Len(s) - i : q[j] = s[i + j]
    <3>1. \A j \in i + 1 .. Len(s) : s[j] \in E
      BY <1>1, ElementOfSeq
    <3>2. i + 1 \in Int /\ Len(s) \in Int
      BY <1>1
    <3>3. /\ q \in Seq(E)
          /\ Len(q) = IF i + 1 <= Len(s) THEN Len(s) - (i + 1) + 1 ELSE 0
          /\ \A j \in 1 .. Len(s) - (i + 1) + 1 : q[j] = s[(i + 1) + j - 1]
      BY <3>1, <3>2, SubSeqProperties
    <3> HIDE DEF q
    <3>4. ASSUME NEW j \in 1 .. Len(s) - i PROVE q[j] = s[i + j]
      <4>1. j \in 1 .. Len(s) - (i + 1) + 1 /\ (i + 1) + j - 1 = i + j
        BY <1>1
      <4> QED
        BY <3>3, <4>1
    <3>5. Len(q) = Len(s) - i
      BY <1>1, <3>3
    <3> QED
      BY <3>3, <3>4, <3>5
  <2>4. InsertAt(s, i + 1, e) = (p \o <<e>>) \o q
    <3>1. (i + 1) - 1 = i
      OBVIOUS
    <3> QED
      BY <3>1 DEF InsertAt
  <2>5. /\ t \in Seq(E) /\ Len(t) = Len(s) + 1
        /\ \A j \in 1 .. Len(s) + 1 : t[j] = IF j < i + 1 THEN s[j] ELSE IF j = i + 1 THEN e ELSE s[j - 1]
    BY <2>1, InsertIs
  <2> HIDE DEF p, q, t
  <2>6. /\ p \o <<e>> \in Seq(E) /\ Len(p \o <<e>>) = i + 1
        /\ \A j \in 1 .. i + 1 : (p \o <<e>>)[j] = IF j <= i THEN p[j] ELSE <<e>>[j - i]
    BY <1>2, <2>2, ConcatProperties
  <2> DEFINE r == p \o <<e>>
  <2>7. ASSUME NEW j \in 1 .. i + 1 PROVE r[j] = IF j <= i THEN s[j] ELSE e
    <3>1. j <= i => j \in 1 .. i
      OBVIOUS
    <3>2. ~(j <= i) => j - i = 1
      OBVIOUS
    <3> QED
      BY <1>2, <2>2, <2>6, <3>1, <3>2
  <2>8. r \in Seq(E) /\ Len(r) = i + 1
    BY <2>6
  <2> HIDE DEF r
  <2> DEFINE u == r \o q
  <2>9. /\ u \in Seq(E) /\ Len(u) = Len(r) + Len(q)
        /\ \A j \in 1 .. Len(r) + Len(q) : u[j] = IF j <= Len(r) THEN r[j] ELSE q[j - Len(r)]
    BY <2>3, <2>8, ConcatProperties
  <2> HIDE DEF u
  <2>10. Len(r) + Len(q) = Len(s) + 1
    BY <1>1, <2>3, <2>8
  <2>11. ASSUME NEW j \in 1 .. Len(s) + 1 PROVE u[j] = t[j]
    <3>1. u[j] = IF j <= i + 1 THEN r[j] ELSE q[j - (i + 1)]
      BY <2>8, <2>9, <2>10
    <3>2. CASE j <= i + 1
      <4>1. j \in 1 .. i + 1
        BY <3>2
      <4>2. r[j] = IF j <= i THEN s[j] ELSE e
        BY <2>7, <4>1
      <4>3. t[j] = IF j < i + 1 THEN s[j] ELSE IF j = i + 1 THEN e ELSE s[j - 1]
        BY <2>5
      <4>4. u[j] = r[j]
        BY <3>1, <3>2
      <4>5. j <= i \/ j = i + 1
        BY <1>1, <3>2
      <4> QED
        BY <1>1, <4>2, <4>3, <4>4, <4>5
    <3>3. CASE j > i + 1
      <4>1. j - (i + 1) \in 1 .. Len(s) - i /\ i + (j - (i + 1)) = j - 1
        BY <1>1, <3>3
      <4>2. q[j - (i + 1)] = s[j - 1]
        BY <2>3, <4>1
      <4>3. t[j] = s[j - 1]
        BY <1>1, <2>5, <3>3
      <4>4. u[j] = q[j - (i + 1)]
        BY <1>1, <3>1, <3>3
      <4> QED
        BY <4>2, <4>3, <4>4
    <3> QED
      BY <1>1, <3>2, <3>3
  <2>12. u = t
    BY <2>5, <2>9, <2>10, <2>11, SeqEqual
  <2> QED
    BY <2>4, <2>12 DEF r, t, u
<1> QED
  BY <1>3, <1>4, <1>5

\* A sequence backwards.
LEMMA ReverseIs ==
  ASSUME NEW E, NEW s \in Seq(E)
  PROVE  /\ Reverse(s) \in Seq(E) /\ Len(Reverse(s)) = Len(s)
         /\ \A i \in 1 .. Len(s) : Reverse(s)[i] = s[Len(s) - i + 1]
         /\ Distinct(s) => Distinct(Reverse(s))
<1> DEFINE r == Reverse(s)
<1>1. Len(s) \in Nat
  BY LenProperties
<1>2. \A i \in 1 .. Len(s) : Len(s) - i + 1 \in 1 .. Len(s)
  BY <1>1
<1>3. \A i \in 1 .. Len(s) : r[i] = s[Len(s) - i + 1]
  BY DEF Reverse
<1>4. r \in [1 .. Len(s) -> E]
  <2>1. \A i \in 1 .. Len(s) : s[Len(s) - i + 1] \in E
    BY <1>2, ElementOfSeq
  <2> QED
    BY <2>1 DEF Reverse
<1>5. r \in Seq(E) /\ Len(r) = Len(s)
  BY <1>1, <1>4, IsASeq
<1> HIDE DEF r
<1>6. ASSUME Distinct(s) PROVE Distinct(r)
  <2> SUFFICES ASSUME NEW i \in 1 .. Len(s), NEW j \in 1 .. Len(s), r[i] = r[j] PROVE i = j
    BY <1>5 DEF Distinct
  <2>1. Len(s) - i + 1 = Len(s) - j + 1
    BY <1>2, <1>3, <1>6 DEF Distinct
  <2> QED
    BY <1>1, <2>1
<1> QED
  BY <1>3, <1>5, <1>6 DEF r


-----------------------------------------------------------------------------
(* Links                                                                    *)

\* The elements of s are linked to the next and the last one to z, and to the previous
\* and the first one to z.
Forwards(next, s, z) == \A i \in 1 .. Len(s) : next[s[i]] = IF i < Len(s) THEN s[i + 1] ELSE z
Backwards(prev, s, z) == \A i \in 1 .. Len(s) : prev[s[i]] = IF 1 < i THEN s[i - 1] ELSE z

LEMMA BackwardsIs ==
  ASSUME NEW E, NEW s \in Seq(E), NEW prev, NEW z, Backwards(prev, s, z)
  PROVE  Forwards(prev, Reverse(s), z)
<1> DEFINE r == Reverse(s)
<1>1. r \in Seq(E) /\ Len(r) = Len(s) /\ Len(s) \in Nat /\ \A i \in 1 .. Len(s) : r[i] = s[Len(s) - i + 1]
  BY ReverseIs, LenProperties
<1> HIDE DEF r
<1>2. ASSUME NEW i \in 1 .. Len(s) PROVE prev[r[i]] = IF i < Len(s) THEN r[i + 1] ELSE z
  <2>1. Len(s) - i + 1 \in 1 .. Len(s)
    BY <1>1
  <2>2. prev[r[i]] = IF 1 < Len(s) - i + 1 THEN s[(Len(s) - i + 1) - 1] ELSE z
    BY <1>1, <2>1 DEF Backwards
  <2>3. CASE i < Len(s)
    <3>1. 1 < Len(s) - i + 1 /\ i + 1 \in 1 .. Len(s) /\ Len(s) - (i + 1) + 1 = (Len(s) - i + 1) - 1
      BY <1>1, <2>3
    <3>2. r[i + 1] = s[(Len(s) - i + 1) - 1]
      BY <1>1, <3>1
    <3> QED
      BY <2>2, <2>3, <3>1, <3>2
  <2>4. CASE ~(i < Len(s))
    <3>1. ~(1 < Len(s) - i + 1)
      BY <1>1, <2>4
    <3> QED
      BY <2>2, <2>4, <3>1
  <2> QED
    BY <2>3, <2>4
<1> QED
  BY <1>1, <1>2 DEF Forwards, r

\* A list with a new element at k, its last element linked to w.
LEMMA ForwardsInsert ==
  ASSUME NEW E, NEW s \in Seq(E), NEW k \in 1 .. Len(s) + 1, NEW e \in E,
         NEW next, NEW z, Forwards(next, s, z), NEW next2, NEW w,
         next2[e] = IF k <= Len(s) THEN s[k] ELSE w,
         1 < k => next2[s[k - 1]] = e,
         \A i \in 1 .. Len(s) : i # k - 1 => next2[s[i]] = IF i = Len(s) THEN w ELSE next[s[i]]
  PROVE  Forwards(next2, Insert(s, k, e), w)
<1> DEFINE t == Insert(s, k, e)
<1>1. Len(s) \in Nat
  BY LenProperties
<1>2. /\ t \in Seq(E) /\ Len(t) = Len(s) + 1
      /\ \A i \in 1 .. Len(s) + 1 : t[i] = IF i < k THEN s[i] ELSE IF i = k THEN e ELSE s[i - 1]
  BY InsertIs
<1> HIDE DEF t
<1>3. ASSUME NEW i \in 1 .. Len(s) + 1
      PROVE  next2[t[i]] = IF i < Len(s) + 1 THEN t[i + 1] ELSE w
  <2>1. i < Len(s) + 1 => i + 1 \in 1 .. Len(s) + 1
    BY <1>1
  <2>2. CASE i = k
    <3>1. t[i] = e
      BY <1>2, <2>2
    <3>2. k <= Len(s) => t[i + 1] = s[k]
      <4> SUFFICES ASSUME k <= Len(s) PROVE t[i + 1] = s[k]
        OBVIOUS
      <4>1. i + 1 \in 1 .. Len(s) + 1 /\ ~(i + 1 < k) /\ i + 1 # k /\ (i + 1) - 1 = k
        BY <1>1, <2>2
      <4> QED
        BY <1>2, <4>1
    <3>3. i < Len(s) + 1 <=> k <= Len(s)
      BY <1>1, <2>2
    <3> QED
      BY <3>1, <3>2, <3>3
  <2>3. CASE i < k
    <3>1. i \in 1 .. Len(s) /\ i + 1 \in 1 .. Len(s) + 1 /\ i < Len(s) + 1
      BY <1>1, <2>3
    <3>2. t[i] = s[i]
      BY <1>2, <2>3
    <3>3. CASE i = k - 1
      <4>1. i + 1 = k /\ 1 < k
        BY <1>1, <3>3
      <4>2. t[i + 1] = e
        BY <1>2, <3>1, <4>1
      <4> QED
        BY <3>1, <3>2, <3>3, <4>1, <4>2
    <3>4. CASE i # k - 1
      <4>1. i + 1 < k /\ i # Len(s) /\ i < Len(s)
        BY <1>1, <2>3, <3>4
      <4>2. t[i + 1] = s[i + 1]
        BY <1>2, <3>1, <4>1
      <4>3. next[s[i]] = s[i + 1]
        BY <3>1, <4>1 DEF Forwards
      <4>4. next2[s[i]] = next[s[i]]
        BY <3>1, <3>4, <4>1
      <4> QED
        BY <3>1, <3>2, <4>2, <4>3, <4>4
    <3> QED
      BY <3>3, <3>4
  <2>4. CASE i > k
    <3>1. i - 1 \in 1 .. Len(s) /\ i - 1 # k - 1
      BY <1>1, <2>4
    <3>2. t[i] = s[i - 1]
      BY <1>1, <1>2, <2>4
    <3>3. next2[s[i - 1]] = IF i - 1 = Len(s) THEN w ELSE next[s[i - 1]]
      BY <3>1
    <3>4. CASE i = Len(s) + 1
      <4>1. i - 1 = Len(s) /\ ~(i < Len(s) + 1)
        BY <1>1, <3>4
      <4> QED
        BY <3>2, <3>3, <4>1
    <3>5. CASE i # Len(s) + 1
      <4>1. i < Len(s) + 1 /\ i - 1 # Len(s) /\ i - 1 < Len(s) /\ (i - 1) + 1 = i
        <5>1. i < Len(s) + 1
          BY <1>1, <3>5
        <5>2. i - 1 # Len(s)
          BY <1>1, <5>1
        <5> QED
          BY <1>1, <5>1, <5>2
      <4>2. next[s[i - 1]] = s[i]
        BY <3>1, <4>1 DEF Forwards
      <4>3. t[i + 1] = s[i]
        <5>1. i + 1 \in 1 .. Len(s) + 1 /\ ~(i + 1 < k) /\ i + 1 # k /\ (i + 1) - 1 = i
          BY <1>1, <2>4, <4>1
        <5> QED
          BY <1>2, <5>1
      <4> QED
        BY <3>2, <3>3, <4>1, <4>2, <4>3
    <3> QED
      BY <3>4, <3>5
  <2> QED
    BY <1>1, <2>2, <2>3, <2>4
<1> QED
  BY <1>2, <1>3 DEF Forwards, t

LEMMA BackwardsInsert ==
  ASSUME NEW E, NEW s \in Seq(E), NEW k \in 1 .. Len(s) + 1, NEW e \in E,
         NEW prev, NEW z, Backwards(prev, s, z), NEW prev2, NEW w,
         prev2[e] = IF 1 < k THEN s[k - 1] ELSE w,
         k <= Len(s) => prev2[s[k]] = e,
         \A i \in 1 .. Len(s) : i # k => prev2[s[i]] = IF i = 1 THEN w ELSE prev[s[i]]
  PROVE  Backwards(prev2, Insert(s, k, e), w)
<1> DEFINE t == Insert(s, k, e)
<1>1. Len(s) \in Nat
  BY LenProperties
<1>2. /\ t \in Seq(E) /\ Len(t) = Len(s) + 1
      /\ \A i \in 1 .. Len(s) + 1 : t[i] = IF i < k THEN s[i] ELSE IF i = k THEN e ELSE s[i - 1]
  BY InsertIs
<1> HIDE DEF t
<1>3. ASSUME NEW i \in 1 .. Len(s) + 1 PROVE prev2[t[i]] = IF 1 < i THEN t[i - 1] ELSE w
  <2>1. 1 < i => i - 1 \in 1 .. Len(s) + 1
    BY <1>1
  <2>2. CASE i = k
    <3>1. t[i] = e
      BY <1>2, <2>2
    <3>2. 1 < i => t[i - 1] = s[i - 1]
      BY <1>1, <1>2, <2>1, <2>2
    <3> QED
      BY <2>2, <3>1, <3>2
  <2>3. CASE i < k
    <3>1. i \in 1 .. Len(s) /\ i # k
      BY <1>1, <2>3
    <3>2. t[i] = s[i] /\ prev2[s[i]] = IF i = 1 THEN w ELSE prev[s[i]]
      BY <1>2, <2>3, <3>1
    <3>3. 1 < i => t[i - 1] = s[i - 1]
      BY <1>1, <1>2, <2>1, <2>3
    <3>4. 1 < i => prev[s[i]] = s[i - 1]
      BY <3>1 DEF Backwards
    <3> QED
      BY <3>2, <3>3, <3>4
  <2>4. CASE i > k
    <3>1. i - 1 \in 1 .. Len(s) /\ 1 < i
      BY <1>1, <2>4
    <3>2. t[i] = s[i - 1]
      BY <1>1, <1>2, <2>4
    <3>3. CASE i - 1 = k
      <4>1. k <= Len(s) /\ t[i - 1] = e
        BY <1>2, <2>1, <3>1, <3>3
      <4> QED
        BY <3>1, <3>2, <3>3, <4>1
    <3>4. CASE i - 1 # k
      <4>1. 1 < i - 1 /\ i - 1 # 1 /\ ~(i - 1 < k)
        BY <1>1, <2>4, <3>4
      <4>2. prev2[s[i - 1]] = prev[s[i - 1]]
        BY <3>1, <3>4, <4>1
      <4>3. prev[s[i - 1]] = s[(i - 1) - 1]
        BY <3>1, <4>1 DEF Backwards
      <4>4. t[i - 1] = s[(i - 1) - 1]
        BY <1>2, <2>1, <3>1, <3>4, <4>1
      <4> QED
        BY <3>1, <3>2, <4>2, <4>3, <4>4
    <3> QED
      BY <3>3, <3>4
  <2> QED
    BY <1>1, <2>2, <2>3, <2>4
<1> QED
  BY <1>2, <1>3 DEF Backwards, t

\* A list without its k-th element, the last one of the others linked to w.
LEMMA ForwardsCut ==
  ASSUME NEW E, NEW s \in Seq(E), NEW k \in 1 .. Len(s),
         NEW next, NEW z, Forwards(next, s, z), NEW next2, NEW w,
         1 < k => next2[s[k - 1]] = IF k < Len(s) THEN s[k + 1] ELSE w,
         \A i \in 1 .. Len(s) : i # k /\ i # k - 1 => next2[s[i]] = IF i = Len(s) THEN w ELSE next[s[i]]
  PROVE  Forwards(next2, Cut(s, k), w)
<1> DEFINE t == Cut(s, k)
<1>1. Len(s) \in Nat
  BY LenProperties
<1>2. /\ t \in Seq(E) /\ Len(t) = Len(s) - 1
      /\ \A i \in 1 .. Len(s) - 1 : t[i] = IF i < k THEN s[i] ELSE s[i + 1]
  BY CutIs
<1> HIDE DEF t
<1>3. ASSUME NEW i \in 1 .. Len(s) - 1
      PROVE  next2[t[i]] = IF i < Len(s) - 1 THEN t[i + 1] ELSE w
  <2>1. i < Len(s) - 1 => i + 1 \in 1 .. Len(s) - 1
    BY <1>1
  <2>2. i \in 1 .. Len(s) /\ i + 1 \in 1 .. Len(s) /\ i < Len(s)
    BY <1>1
  <2>3. CASE i = k - 1
    <3>1. 1 < k /\ i < k /\ t[i] = s[k - 1]
      BY <1>1, <1>2, <2>3
    <3>2. k < Len(s) <=> i < Len(s) - 1
      BY <1>1, <2>3
    <3>3. i < Len(s) - 1 => t[i + 1] = s[k + 1]
      <4>1. i + 1 = k
        BY <1>1, <2>3
      <4> QED
        BY <1>2, <2>1, <4>1
    <3> QED
      BY <3>1, <3>2, <3>3
  <2>4. CASE i < k /\ i # k - 1
    <3>1. i # k /\ i # Len(s) /\ i + 1 < k /\ i < Len(s) - 1
      BY <1>1, <2>2, <2>4
    <3>2. t[i] = s[i] /\ t[i + 1] = s[i + 1]
      BY <1>2, <2>1, <2>4, <3>1
    <3>3. next2[s[i]] = next[s[i]]
      BY <2>2, <2>4, <3>1
    <3>4. next[s[i]] = s[i + 1]
      BY <2>2 DEF Forwards
    <3> QED
      BY <3>1, <3>2, <3>3, <3>4
  <2>5. CASE i >= k
    <3>1. ~(i < k) /\ i + 1 # k /\ i + 1 # k - 1
      BY <1>1, <2>5
    <3>2. t[i] = s[i + 1]
      BY <1>2, <3>1
    <3>3. next2[s[i + 1]] = IF i + 1 = Len(s) THEN w ELSE next[s[i + 1]]
      BY <2>2, <3>1
    <3>4. CASE i + 1 = Len(s)
      <4>1. ~(i < Len(s) - 1)
        BY <1>1, <3>4
      <4> QED
        BY <3>2, <3>3, <3>4, <4>1
    <3>5. CASE i + 1 # Len(s)
      <4>1. i + 1 < Len(s) /\ i < Len(s) - 1 /\ ~(i + 1 < k)
        BY <1>1, <2>2, <2>5, <3>5
      <4>2. next[s[i + 1]] = s[(i + 1) + 1]
        BY <2>2, <4>1 DEF Forwards
      <4>3. t[i + 1] = s[(i + 1) + 1]
        BY <1>2, <2>1, <4>1
      <4> QED
        BY <3>2, <3>3, <3>5, <4>1, <4>2, <4>3
    <3> QED
      BY <3>4, <3>5
  <2> QED
    BY <1>1, <2>3, <2>4, <2>5
<1> QED
  BY <1>2, <1>3 DEF Forwards, t

LEMMA BackwardsCut ==
  ASSUME NEW E, NEW s \in Seq(E), NEW k \in 1 .. Len(s),
         NEW prev, NEW z, Backwards(prev, s, z), NEW prev2, NEW w,
         k < Len(s) => prev2[s[k + 1]] = IF 1 < k THEN s[k - 1] ELSE w,
         \A i \in 1 .. Len(s) : i # k /\ i # k + 1 => prev2[s[i]] = IF i = 1 THEN w ELSE prev[s[i]]
  PROVE  Backwards(prev2, Cut(s, k), w)
<1> DEFINE t == Cut(s, k)
<1>1. Len(s) \in Nat
  BY LenProperties
<1>2. /\ t \in Seq(E) /\ Len(t) = Len(s) - 1
      /\ \A i \in 1 .. Len(s) - 1 : t[i] = IF i < k THEN s[i] ELSE s[i + 1]
  BY CutIs
<1> HIDE DEF t
<1>3. ASSUME NEW i \in 1 .. Len(s) - 1 PROVE prev2[t[i]] = IF 1 < i THEN t[i - 1] ELSE w
  <2>1. 1 < i => i - 1 \in 1 .. Len(s) - 1
    BY <1>1
  <2>2. i \in 1 .. Len(s) /\ i + 1 \in 1 .. Len(s)
    BY <1>1
  <2>3. CASE i < k
    <3>1. t[i] = s[i] /\ i # k /\ i # k + 1
      BY <1>1, <1>2, <2>3
    <3>2. prev2[s[i]] = IF i = 1 THEN w ELSE prev[s[i]]
      BY <2>2, <3>1
    <3>3. 1 < i => prev[s[i]] = s[i - 1]
      BY <2>2 DEF Backwards
    <3>4. 1 < i => t[i - 1] = s[i - 1]
      BY <1>1, <1>2, <2>1, <2>3
    <3> QED
      BY <3>1, <3>2, <3>3, <3>4
  <2>4. CASE i = k
    <3>1. t[i] = s[k + 1] /\ k < Len(s)
      BY <1>1, <1>2, <2>4
    <3>2. 1 < i => t[i - 1] = s[k - 1]
      BY <1>1, <1>2, <2>1, <2>4
    <3> QED
      BY <2>4, <3>1, <3>2
  <2>5. CASE i > k
    <3>1. t[i] = s[i + 1] /\ 1 < i /\ i + 1 # k /\ i + 1 # k + 1 /\ i + 1 # 1 /\ 1 < i + 1 /\ (i + 1) - 1 = i
      BY <1>1, <1>2, <2>5
    <3>2. prev2[s[i + 1]] = prev[s[i + 1]]
      BY <2>2, <3>1
    <3>3. prev[s[i + 1]] = s[i]
      BY <2>2, <3>1 DEF Backwards
    <3>4. t[i - 1] = s[i]
      <4>1. ~(i - 1 < k) /\ (i - 1) + 1 = i
        BY <1>1, <2>5
      <4> QED
        BY <1>2, <2>1, <3>1, <4>1
    <3> QED
      BY <3>1, <3>2, <3>3, <3>4
  <2> QED
    BY <1>1, <2>3, <2>4, <2>5
<1> QED
  BY <1>2, <1>3 DEF Backwards, t


-----------------------------------------------------------------------------
(* The lists and the sequences they stand for                               *)

Refs == Nodes \cup {Nil}

ListMem == [head : [Lists -> Refs], tail : [Lists -> Refs], next : [Nodes -> Refs], prev : [Nodes -> Refs]]

HeadIn(s) == IF s = << >> THEN Nil ELSE s[1]
EndIn(s) == IF s = << >> THEN Nil ELSE s[Len(s)]

\* What the last element's next is, and the first one's prev.
Closing(s) == IF kind = "CDL" THEN HeadIn(s) ELSE Nil
Ahead(s) == IF kind = "Q" THEN Nil ELSE EndIn(s)

\* The list l in m is s.
IsList(m, l, s) ==
  /\ s \in Seq(Nodes) /\ Distinct(s)
  /\ m.head[l] = HeadIn(s)
  /\ kind = "Q" => m.tail[l] = EndIn(s)
  /\ Forwards(m.next, s, Closing(s))
  /\ kind # "LL" => Backwards(m.prev, s, Ahead(s))

\* All lists are as seqs says, and none has an element of another.
AreLists(m, seqs) ==
  /\ m \in ListMem /\ seqs \in [Lists -> Seq(Nodes)]
  /\ \A l \in Lists : IsList(m, l, seqs[l])
  /\ \A k, l \in Lists : k # l => ToSet(seqs[k]) \cap ToSet(seqs[l]) = {}

LEMMA ListFacts ==
  ASSUME NEW m, NEW seqs, AreLists(m, seqs), NEW l \in Lists
  PROVE  LET s == seqs[l] IN
         /\ s \in Seq(Nodes) /\ Distinct(s) /\ Len(s) \in Nat
         /\ \A i \in 1 .. Len(s) : s[i] \in Nodes /\ s[i] # Nil /\ s[i] \in ToSet(s)
         /\ (s = << >> <=> Len(s) = 0) /\ (m.head[l] = Nil <=> Len(s) = 0)
         /\ Len(s) # 0 => m.head[l] = s[1] /\ (kind = "Q" => m.tail[l] = s[Len(s)])
         /\ \A i \in 1 .. Len(s) : m.next[s[i]] = IF i < Len(s) THEN s[i + 1]
                                                  ELSE IF kind = "CDL" THEN s[1] ELSE Nil
         /\ kind # "LL" =>
              \A i \in 1 .. Len(s) : m.prev[s[i]] = IF 1 < i THEN s[i - 1]
                                                    ELSE IF kind = "Q" THEN Nil ELSE s[Len(s)]
<1> DEFINE s == seqs[l]
<1>1. s \in Seq(Nodes) /\ Distinct(s) /\ Len(s) \in Nat
  BY LenProperties DEF AreLists, IsList
<1>2. IsList(m, l, s)
  BY DEF AreLists
<1>3. s = << >> <=> Len(s) = 0
  BY <1>1, EmptySeq
<1>4. \A i \in 1 .. Len(s) : s[i] \in Nodes /\ s[i] # Nil /\ s[i] \in ToSet(s)
  BY <1>1, ElementOfSeq, ElementsOf, ListAssumption
<1> HIDE DEF s
<1>5. Len(s) # 0 => 1 \in 1 .. Len(s)
  BY <1>1
<1>6. (m.head[l] = Nil <=> Len(s) = 0) /\ (Len(s) # 0 => m.head[l] = s[1] /\ (kind = "Q" => m.tail[l] = s[Len(s)]))
  BY <1>2, <1>3, <1>4, <1>5 DEF IsList, HeadIn, EndIn
<1>7. \A i \in 1 .. Len(s) : Len(s) # 0
  BY <1>1
<1>8. \A i \in 1 .. Len(s) : m.next[s[i]] = IF i < Len(s) THEN s[i + 1]
                                            ELSE IF kind = "CDL" THEN s[1] ELSE Nil
  BY <1>2, <1>3, <1>7 DEF IsList, Forwards, Closing, HeadIn
<1>9. kind # "LL" =>
        \A i \in 1 .. Len(s) : m.prev[s[i]] = IF 1 < i THEN s[i - 1]
                                              ELSE IF kind = "Q" THEN Nil ELSE s[Len(s)]
  BY <1>2, <1>3, <1>7 DEF IsList, Backwards, Ahead, EndIn
<1> QED
  BY <1>1, <1>3, <1>4, <1>6, <1>8, <1>9 DEF s

\* A list that nothing was done to.
LEMMA ListFrame ==
  ASSUME NEW m, NEW l, NEW s, IsList(m, l, s), NEW g, g.head[l] = m.head[l], g.tail[l] = m.tail[l],
         \A x \in ToSet(s) : g.next[x] = m.next[x] /\ (kind # "LL" => g.prev[x] = m.prev[x])
  PROVE  IsList(g, l, s)
<1>1. s \in Seq(Nodes)
  BY DEF IsList
<1>2. \A i \in 1 .. Len(s) : s[i] \in ToSet(s)
  BY <1>1, ElementsOf
<1>3. Forwards(g.next, s, Closing(s))
  BY <1>2 DEF IsList, Forwards
<1>4. kind # "LL" => Backwards(g.prev, s, Ahead(s))
  BY <1>2 DEF IsList, Backwards
<1> QED
  BY <1>3, <1>4 DEF IsList

\* One list becomes t, nothing was done to the others.
LEMMA OneList ==
  ASSUME NEW m, NEW seqs, AreLists(m, seqs), NEW l \in Lists, NEW g \in ListMem, NEW t, IsList(g, l, t),
         \A k \in Lists \ {l} : /\ g.head[k] = m.head[k] /\ g.tail[k] = m.tail[k]
                                /\ ToSet(seqs[k]) \cap ToSet(t) = {},
         \A x \in Nodes : x \notin ToSet(seqs[l]) /\ x \notin ToSet(t)
                            => g.next[x] = m.next[x] /\ (kind # "LL" => g.prev[x] = m.prev[x])
  PROVE  AreLists(g, [seqs EXCEPT ![l] = t])
<1> DEFINE new == [seqs EXCEPT ![l] = t]
<1>1. t \in Seq(Nodes) /\ seqs \in [Lists -> Seq(Nodes)]
  BY DEF IsList, AreLists
<1>2. new \in [Lists -> Seq(Nodes)] /\ new[l] = t /\ \A k \in Lists \ {l} : new[k] = seqs[k]
  BY <1>1
<1> HIDE DEF new
<1>3. ASSUME NEW k \in Lists PROVE IsList(g, k, new[k])
  <2>1. CASE k = l
    BY <1>2, <2>1
  <2>2. CASE k # l
    <3>1. \A x \in ToSet(seqs[k]) : x \in Nodes /\ x \notin ToSet(seqs[l]) /\ x \notin ToSet(t)
      <4>1. ToSet(seqs[k]) \subseteq Nodes
        BY <1>1, ElementsOf
      <4> QED
        BY <2>2, <4>1 DEF AreLists
    <3>2. IsList(m, k, seqs[k])
      BY DEF AreLists
    <3>3. IsList(g, k, seqs[k])
      BY <2>2, <3>1, <3>2, ListFrame
    <3> QED
      BY <1>2, <2>2, <3>3
  <2> QED
    BY <2>1, <2>2
<1>4. ASSUME NEW j \in Lists, NEW k \in Lists, j # k PROVE ToSet(new[j]) \cap ToSet(new[k]) = {}
  <2>1. CASE j = l
    BY <1>2, <1>4, <2>1
  <2>2. CASE k = l
    BY <1>2, <1>4, <2>2
  <2>3. CASE j # l /\ k # l
    BY <1>2, <1>4, <2>3 DEF AreLists
  <2> QED
    BY <2>1, <2>2, <2>3
<1>5. AreLists(g, new)
  BY <1>2, <1>3, <1>4 DEF AreLists
<1> QED
  BY <1>5 DEF new

\* What an insertion of e at k has to do.
Inserted(m, g, l, s, k, e) ==
  LET n == Len(s) IN
  /\ g \in ListMem
  /\ \A j \in Lists \ {l} : g.head[j] = m.head[j] /\ g.tail[j] = m.tail[j]
  /\ g.head[l] = IF k = 1 THEN e ELSE m.head[l]
  /\ kind = "Q" => g.tail[l] = IF k = n + 1 THEN e ELSE m.tail[l]
  /\ g.next[e] = IF k <= n THEN s[k] ELSE IF kind # "CDL" THEN Nil ELSE IF k = 1 THEN e ELSE s[1]
  /\ 1 < k => g.next[s[k - 1]] = e
  /\ \A i \in 1 .. n : i # k - 1 => g.next[s[i]] = IF i = n /\ k = 1 /\ kind = "CDL" THEN e ELSE m.next[s[i]]
  /\ kind # "LL" =>
       /\ g.prev[e] = IF 1 < k THEN s[k - 1] ELSE IF kind = "Q" THEN Nil ELSE IF k = n + 1 THEN e ELSE s[n]
       /\ k <= n => g.prev[s[k]] = e
       /\ \A i \in 1 .. n : i # k => g.prev[s[i]] = IF i = 1 /\ k = n + 1 /\ kind # "Q" THEN e ELSE m.prev[s[i]]
  /\ \A x \in Nodes : x # e /\ x \notin ToSet(s) => g.next[x] = m.next[x] /\ (kind # "LL" => g.prev[x] = m.prev[x])

LEMMA InsertedIs ==
  ASSUME NEW m, NEW seqs, AreLists(m, seqs), NEW l \in Lists, NEW k \in 1 .. Len(seqs[l]) + 1,
         NEW e \in Nodes, \A j \in Lists : e \notin ToSet(seqs[j]), NEW g, Inserted(m, g, l, seqs[l], k, e)
  PROVE  AreLists(g, [seqs EXCEPT ![l] = Insert(seqs[l], k, e)])
<1> DEFINE s == seqs[l]
           t == Insert(s, k, e)
           n == Len(s)
<1>1. s \in Seq(Nodes) /\ Distinct(s) /\ n \in Nat
  BY ListFacts
<1>2. /\ t \in Seq(Nodes) /\ Len(t) = n + 1 /\ ToSet(t) = ToSet(s) \cup {e} /\ Distinct(t)
      /\ \A i \in 1 .. n + 1 : t[i] = IF i < k THEN s[i] ELSE IF i = k THEN e ELSE s[i - 1]
  <2>1. k \in 1 .. Len(s) + 1 /\ e \notin ToSet(s)
    OBVIOUS
  <2> HIDE DEF s
  <2> QED
    BY <1>1, <2>1, InsertIs
<1>3. /\ n = 0 <=> m.head[l] = Nil
      /\ n # 0 => m.head[l] = s[1] /\ (kind = "Q" => m.tail[l] = s[n])
      /\ \A i \in 1 .. n : m.next[s[i]] = IF i < n THEN s[i + 1] ELSE IF kind = "CDL" THEN s[1] ELSE Nil
      /\ kind # "LL" => \A i \in 1 .. n : m.prev[s[i]] = IF 1 < i THEN s[i - 1]
                                                          ELSE IF kind = "Q" THEN Nil ELSE s[n]
  BY ListFacts
<1>4. IsList(m, l, s)
  BY DEF AreLists
<1>5. Inserted(m, g, l, s, k, e) /\ k \in 1 .. n + 1 /\ e \notin ToSet(s)
  OBVIOUS
<1> HIDE DEF s, t
<1>6. t # << >>
  BY <1>1, <1>2, EmptySeq
<1>7. HeadIn(t) = IF k = 1 THEN e ELSE s[1]
  <2>1. HeadIn(t) = t[1]
    BY <1>6 DEF HeadIn
  <2>2. 1 \in 1 .. n + 1 /\ (k = 1 \/ 1 < k)
    BY <1>1, <1>5
  <2> QED
    BY <1>2, <2>1, <2>2
<1>8. EndIn(t) = IF k = n + 1 THEN e ELSE s[n]
  <2>1. EndIn(t) = t[n + 1]
    BY <1>2, <1>6 DEF EndIn
  <2>2. n + 1 \in 1 .. n + 1 /\ (k = n + 1 \/ ~(n + 1 < k)) /\ (n + 1) - 1 = n
    BY <1>1, <1>5
  <2> QED
    BY <1>2, <2>1, <2>2
<1>9. k = 1 \/ k = n + 1 \/ (1 < k /\ k <= n)
  BY <1>1, <1>5
<1>10. n = 0 => k = 1 /\ k = n + 1
  BY <1>1, <1>5
<1>11. Forwards(g.next, t, Closing(t))
  <2> DEFINE next == m.next
             next2 == g.next
             z == Closing(s)
             w == Closing(t)
  <2>1. Forwards(next, s, z)
    BY <1>4 DEF IsList
  <2>2. w = IF kind = "CDL" THEN IF k = 1 THEN e ELSE s[1] ELSE Nil
    BY <1>7 DEF Closing
  <2>3. next2[e] = IF k <= n THEN s[k] ELSE w
    BY <1>5, <2>2 DEF Inserted
  <2>4. 1 < k => next2[s[k - 1]] = e
    BY <1>5 DEF Inserted
  <2>5. ASSUME NEW i \in 1 .. n, i # k - 1 PROVE next2[s[i]] = IF i = n THEN w ELSE next[s[i]]
    <3>1. next2[s[i]] = IF i = n /\ k = 1 /\ kind = "CDL" THEN e ELSE next[s[i]]
      BY <1>5, <2>5 DEF Inserted
    <3>2. i = n => next[s[i]] = IF kind = "CDL" THEN s[1] ELSE Nil
      BY <1>1, <1>3
    <3> QED
      BY <2>2, <3>1, <3>2
  <2> HIDE DEF next, next2, z, w
  <2>6. Forwards(next2, t, w)
    BY <1>1, <1>5, <2>1, <2>3, <2>4, <2>5, ForwardsInsert DEF t
  <2> QED
    BY <2>6 DEF next2, w
<1>12. ASSUME kind # "LL" PROVE Backwards(g.prev, t, Ahead(t))
  <2> DEFINE prev == m.prev
             prev2 == g.prev
             z == Ahead(s)
             w == Ahead(t)
  <2>1. Backwards(prev, s, z)
    BY <1>4, <1>12 DEF IsList
  <2>2. w = IF kind = "Q" THEN Nil ELSE IF k = n + 1 THEN e ELSE s[n]
    BY <1>8 DEF Ahead
  <2>3. prev2[e] = IF 1 < k THEN s[k - 1] ELSE w
    BY <1>5, <1>12, <2>2 DEF Inserted
  <2>4. k <= n => prev2[s[k]] = e
    BY <1>5, <1>12 DEF Inserted
  <2>5. ASSUME NEW i \in 1 .. n, i # k PROVE prev2[s[i]] = IF i = 1 THEN w ELSE prev[s[i]]
    <3>1. prev2[s[i]] = IF i = 1 /\ k = n + 1 /\ kind # "Q" THEN e ELSE prev[s[i]]
      BY <1>5, <1>12, <2>5 DEF Inserted
    <3>2. i = 1 => prev[s[i]] = IF kind = "Q" THEN Nil ELSE s[n]
      BY <1>1, <1>3, <1>12
    <3> QED
      BY <2>2, <3>1, <3>2
  <2> HIDE DEF prev, prev2, z, w
  <2>6. Backwards(prev2, t, w)
    BY <1>1, <1>5, <2>1, <2>3, <2>4, <2>5, BackwardsInsert DEF t
  <2> QED
    BY <2>6 DEF prev2, w
<1>13. g.head[l] = HeadIn(t)
  BY <1>3, <1>5, <1>7, <1>10 DEF Inserted
<1>14. kind = "Q" => g.tail[l] = EndIn(t)
  BY <1>3, <1>5, <1>8, <1>10 DEF Inserted
<1>15. IsList(g, l, t)
  BY <1>2, <1>11, <1>12, <1>13, <1>14 DEF IsList
<1>16. \A j \in Lists \ {l} : /\ g.head[j] = m.head[j] /\ g.tail[j] = m.tail[j]
                             /\ ToSet(seqs[j]) \cap ToSet(t) = {}
  <2>1. \A j \in Lists \ {l} : ToSet(seqs[j]) \cap ToSet(s) = {}
    BY DEF AreLists, s
  <2> QED
    BY <1>2, <1>5, <2>1 DEF Inserted
<1>17. /\ g \in ListMem
       /\ \A x \in Nodes : x \notin ToSet(s) /\ x \notin ToSet(t)
            => g.next[x] = m.next[x] /\ (kind # "LL" => g.prev[x] = m.prev[x])
  BY <1>2, <1>5 DEF Inserted
<1>18. AreLists(g, [seqs EXCEPT ![l] = t])
  BY <1>15, <1>16, <1>17, OneList DEF s
<1> QED
  BY <1>18 DEF s, t


-----------------------------------------------------------------------------
(* Reading the lists                                                        *)

\* From the first element on, until the links come to z.
LEMMA ForwardsRead ==
  ASSUME NEW E, NEW s \in Seq(E), Distinct(s), s # << >>, NEW next, NEW z, Forwards(next, s, z),
         z = s[1] \/ z \notin ToSet(s), NEW N \in Nat, Len(s) <= N
  PROVE  <<s[1]>> \o Follow(next, next[s[1]], z, N) = s
<1> DEFINE t == Cut(s, 1)
<1>1. Len(s) \in Nat /\ Len(s) # 0 /\ 1 \in 1 .. Len(s) /\ s[1] \in E
  BY LenProperties, EmptySeq, ElementOfSeq
<1>2. t \in Seq(E) /\ Len(t) = Len(s) - 1 /\ \A i \in 1 .. Len(s) - 1 : t[i] = s[i + 1]
  <2>1. /\ t \in Seq(E) /\ Len(t) = Len(s) - 1
        /\ \A i \in 1 .. Len(s) - 1 : t[i] = IF i < 1 THEN s[i] ELSE s[i + 1]
    BY <1>1, CutIs
  <2> QED
    BY <1>1, <2>1
<1> HIDE DEF t
<1>3. t = << >> <=> Len(t) = 0
  BY <1>2, EmptySeq
<1>4. LinkedTo(next, next[s[1]], z, t)
  <2>1. next[s[1]] = IF t = << >> THEN z ELSE t[1]
    BY <1>1, <1>2, <1>3 DEF Forwards
  <2>2. ASSUME NEW i \in 1 .. Len(t) PROVE t[i] # z /\ next[t[i]] = IF i < Len(t) THEN t[i + 1] ELSE z
    <3>1. i + 1 \in 1 .. Len(s) /\ i + 1 # 1 /\ t[i] = s[i + 1]
      BY <1>1, <1>2
    <3>2. s[i + 1] # z
      BY <1>1, <3>1, ElementsOf DEF Distinct
    <3>3. next[s[i + 1]] = IF i + 1 < Len(s) THEN s[(i + 1) + 1] ELSE z
      BY <3>1 DEF Forwards
    <3>4. i < Len(t) => i + 1 < Len(s) /\ t[i + 1] = s[(i + 1) + 1]
      BY <1>1, <1>2
    <3>5. ~(i < Len(t)) => ~(i + 1 < Len(s))
      BY <1>1, <1>2
    <3> QED
      BY <3>1, <3>2, <3>3, <3>4, <3>5
  <2> QED
    BY <2>1, <2>2 DEF LinkedTo
<1>5. Follow(next, next[s[1]], z, N) = t
  <2>1. Len(t) <= N
    BY <1>1, <1>2
  <2> DEFINE first == next[s[1]]
  <2>2. LinkedTo(next, first, z, t)
    BY <1>4
  <2> HIDE DEF first
  <2>3. Follow(next, first, z, N) = t
    BY <1>2, <2>1, <2>2, FollowIs
  <2> QED
    BY <2>3 DEF first
<1>6. <<s[1]>> \o t = s
  <2> DEFINE o == <<s[1]>>
             u == o \o t
  <2>1. o \in Seq(E) /\ Len(o) = 1 /\ o[1] = s[1]
    BY <1>1
  <2> HIDE DEF o
  <2>2. /\ u \in Seq(E) /\ Len(u) = Len(o) + Len(t)
        /\ \A i \in 1 .. Len(o) + Len(t) : u[i] = IF i <= Len(o) THEN o[i] ELSE t[i - Len(o)]
    BY <1>2, <2>1, ConcatProperties
  <2> HIDE DEF u
  <2>3. ASSUME NEW i \in 1 .. Len(s) PROVE u[i] = s[i]
    <3>1. i \in 1 .. Len(o) + Len(t)
      BY <1>1, <1>2, <2>1
    <3>2. CASE i = 1
      BY <2>1, <2>2, <3>1, <3>2
    <3>3. CASE i # 1
      <4>1. i - 1 \in 1 .. Len(s) - 1 /\ ~(i <= 1) /\ (i - 1) + 1 = i
        BY <1>1, <3>3
      <4> QED
        BY <1>2, <2>1, <2>2, <3>1, <4>1
    <3> QED
      BY <3>2, <3>3
  <2>4. Len(u) = Len(s)
    BY <1>1, <1>2, <2>1, <2>2
  <2> QED
    BY <2>2, <2>3, <2>4, SeqEqual DEF u, o
<1> QED
  BY <1>5, <1>6

\* Until they come to the last element.
LEMMA ForwardsRound ==
  ASSUME NEW E, NEW s \in Seq(E), Distinct(s), s # << >>, NEW next, NEW z, Forwards(next, s, z),
         NEW N \in Nat, Len(s) <= N
  PROVE  Append(Follow(next, s[1], s[Len(s)], N), s[Len(s)]) = s
<1> DEFINE n == Len(s)
           t == SubSeq(s, 1, n - 1)
<1>1. n \in Nat /\ n # 0 /\ n \in 1 .. n /\ 1 \in 1 .. n /\ n - 1 \in 0 .. n /\ s[n] \in E
  BY LenProperties, EmptySeq, ElementOfSeq
<1>2. t \in Seq(E) /\ Len(t) = n - 1 /\ \A i \in 1 .. n - 1 : t[i] = s[i]
  BY <1>1, PrefixOf
<1>3. Append(t, s[n]) = s
  <2>1. Append(t, s[n]) = SubSeq(s, 1, n)
    BY <1>1, PrefixGrows
  <2> QED
    BY <2>1, SubSeqFull
<1> HIDE DEF t
<1>4. t = << >> <=> Len(t) = 0
  BY <1>2, EmptySeq
<1>5. LinkedTo(next, s[1], s[n], t)
  <2>1. s[1] = IF t = << >> THEN s[n] ELSE t[1]
    BY <1>1, <1>2, <1>4
  <2>2. ASSUME NEW i \in 1 .. Len(t) PROVE t[i] # s[n] /\ next[t[i]] = IF i < Len(t) THEN t[i + 1] ELSE s[n]
    <3>1. i \in 1 .. n /\ i # n /\ i < n /\ t[i] = s[i]
      BY <1>1, <1>2
    <3>2. next[s[i]] = s[i + 1]
      BY <3>1 DEF Forwards
    <3>3. i < Len(t) => t[i + 1] = s[i + 1]
      BY <1>1, <1>2
    <3>4. ~(i < Len(t)) => i + 1 = n
      BY <1>1, <1>2
    <3>5. s[i] # s[n]
      BY <1>1, <3>1 DEF Distinct
    <3> QED
      BY <3>1, <3>2, <3>3, <3>4, <3>5
  <2> QED
    BY <2>1, <2>2 DEF LinkedTo
<1>6. Len(t) <= N
  BY <1>1, <1>2
<1> HIDE DEF n
<1>7. Follow(next, s[1], s[n], N) = t
  <2> DEFINE first == s[1]
             last == s[n]
  <2>1. LinkedTo(next, first, last, t)
    BY <1>5
  <2> HIDE DEF first, last
  <2>2. Follow(next, first, last, N) = t
    BY <1>2, <1>6, <2>1, FollowIs
  <2> QED
    BY <2>2 DEF first, last
<1> QED
  BY <1>3, <1>7 DEF n

\* The lists are read as they are, in either direction.
LEMMA ListsRead ==
  ASSUME NEW m, NEW seqs, AreLists(m, seqs), NEW l \in Lists
  PROVE  Forward(m, l) = seqs[l] /\ Backward(m, l) = Reverse(seqs[l])
<1> DEFINE s == seqs[l]
           r == Reverse(s)
           N == Cardinality(Nodes)
<1>1. s \in Seq(Nodes) /\ Distinct(s) /\ Len(s) \in Nat
  BY ListFacts
<1>2. N \in Nat /\ Len(s) <= N
  BY <1>1, LengthBound, ListAssumption
<1>3. /\ \A i \in 1 .. Len(s) : s[i] \in Nodes /\ s[i] # Nil /\ s[i] \in ToSet(s)
      /\ (s = << >> <=> Len(s) = 0) /\ (m.head[l] = Nil <=> Len(s) = 0)
      /\ Len(s) # 0 => m.head[l] = s[1] /\ (kind = "Q" => m.tail[l] = s[Len(s)])
      /\ Len(s) # 0 => 1 \in 1 .. Len(s) /\ Len(s) \in 1 .. Len(s)
  BY <1>1, ListFacts
<1>4. IsList(m, l, s)
  BY DEF AreLists
<1>5. r \in Seq(Nodes) /\ Distinct(r) /\ Len(r) = Len(s) /\ \A i \in 1 .. Len(s) : r[i] = s[Len(s) - i + 1]
  BY <1>1, ReverseIs
<1>6. ASSUME kind # "LL" PROVE Forwards(m.prev, r, Ahead(s))
  <2> DEFINE prev == m.prev
             z == Ahead(s)
  <2>1. Backwards(prev, s, z)
    BY <1>4, <1>6 DEF IsList
  <2> HIDE DEF prev, z, s
  <2>2. Forwards(prev, r, z)
    BY <1>1, <2>1, BackwardsIs DEF r
  <2> QED
    BY <2>2 DEF prev, z, s
<1>7. r = << >> <=> Len(s) = 0
  BY <1>5, EmptySeq
<1>8. Len(s) # 0 => r[1] = s[Len(s)] /\ r[Len(r)] = s[1]
  <2> SUFFICES ASSUME Len(s) # 0 PROVE r[1] = s[Len(s)] /\ r[Len(r)] = s[1]
    OBVIOUS
  <2>1. Len(s) - 1 + 1 = Len(s) /\ Len(s) - Len(s) + 1 = 1
    BY <1>1
  <2> QED
    BY <1>3, <1>5, <2>1
<1> HIDE DEF s, r, N
<1>9. Forward(m, l) = s
  <2>1. CASE Len(s) = 0
    <3>1. Forward(m, l) = << >>
      BY <1>3, <2>1 DEF Forward
    <3> QED
      BY <1>3, <2>1, <3>1
  <2>2. CASE Len(s) # 0
    <3> DEFINE next == m.next
               z == IF kind = "CDL" THEN s[1] ELSE Nil
    <3>1. Forward(m, l) = <<s[1]>> \o Follow(next, next[s[1]], z, N)
      BY <1>3, <2>2 DEF Forward, N
    <3>2. Forwards(next, s, z)
      BY <1>3, <1>4, <2>2 DEF IsList, Closing, HeadIn
    <3>3. z = s[1] \/ z \notin ToSet(s)
      <4>1. Nil \notin ToSet(s)
        BY <1>1, <1>3, ElementsOf
      <4> QED
        BY <4>1
    <3> HIDE DEF next, z
    <3>4. <<s[1]>> \o Follow(next, next[s[1]], z, N) = s
      BY <1>1, <1>2, <1>3, <2>2, <3>2, <3>3, ForwardsRead
    <3> QED
      BY <3>1, <3>4
  <2> QED
    BY <2>1, <2>2
<1>10. Backward(m, l) = r
  <2>1. CASE kind = "LL"
    BY <1>9, <2>1 DEF Backward, r
  <2>2. CASE kind = "Q"
    <3> DEFINE prev == m.prev
               last == m.tail[l]
    <3>1. Backward(m, l) = Follow(prev, last, Nil, N + 1)
      BY <2>2 DEF Backward, N
    <3>2. Forwards(prev, r, Nil)
      BY <1>6, <2>2 DEF Ahead
    <3>3. last = IF r = << >> THEN Nil ELSE r[1]
      <4>1. last = EndIn(s)
        BY <1>4, <2>2 DEF IsList
      <4> QED
        BY <1>3, <1>7, <1>8, <4>1 DEF EndIn
    <3>4. \A i \in 1 .. Len(r) : r[i] # Nil
      BY <1>5, ElementOfSeq, ListAssumption
    <3> HIDE DEF prev, last
    <3>5. LinkedTo(prev, last, Nil, r)
      BY <3>2, <3>3, <3>4 DEF LinkedTo, Forwards
    <3>6. N + 1 \in Nat /\ Len(r) <= N + 1
      BY <1>1, <1>2, <1>5
    <3>7. Follow(prev, last, Nil, N + 1) = r
      BY <1>5, <3>5, <3>6, FollowIs
    <3> QED
      BY <3>1, <3>7
  <2>3. CASE kind \notin {"LL", "Q"} /\ Len(s) = 0
    <3>1. Backward(m, l) = << >>
      BY <1>3, <2>3 DEF Backward
    <3> QED
      BY <1>7, <2>3, <3>1
  <2>4. CASE kind \notin {"LL", "Q"} /\ Len(s) # 0
    <3> DEFINE prev == m.prev
               z == Ahead(s)
    <3>1. m.prev[m.head[l]] = r[1]
      <4>1. m.prev[s[1]] = s[Len(s)]
        BY <1>1, <1>3, <2>4, ListFacts DEF s
      <4> QED
        BY <1>3, <1>8, <2>4, <4>1
    <3>2. Backward(m, l) = Append(Follow(prev, r[1], r[Len(r)], N), r[Len(r)])
      BY <1>3, <1>8, <2>4, <3>1 DEF Backward, N
    <3>3. Forwards(prev, r, z)
      BY <1>6, <2>4
    <3> HIDE DEF prev, z
    <3>4. Append(Follow(prev, r[1], r[Len(r)], N), r[Len(r)]) = r
      BY <1>2, <1>5, <1>7, <2>4, <3>3, ForwardsRound
    <3> QED
      BY <3>2, <3>4
  <2> QED
    BY <2>1, <2>2, <2>3, <2>4
<1> QED
  BY <1>9, <1>10 DEF r, s

\* What an operation has to do is what the property says it does.
LEMMA ListsHold ==
  ASSUME NEW m, NEW seqs, AreLists(m, seqs)
  PROVE  Holds(m, seqs)
BY ListsRead DEF Holds


-----------------------------------------------------------------------------
(* Insertions                                                               *)

\* e is in no list.
Fresh(seqs, e) == \A l \in Lists : e \notin ToSet(seqs[l])

LEMMA FreshFacts ==
  ASSUME NEW m, NEW seqs, AreLists(m, seqs), NEW l \in Lists, NEW e \in Nodes, Fresh(seqs, e)
  PROVE  LET s == seqs[l] IN
         /\ m \in ListMem /\ s \in Seq(Nodes) /\ Len(s) \in Nat /\ e # Nil
         /\ \A i \in 1 .. Len(s) : s[i] \in Nodes /\ s[i] # Nil /\ s[i] # e
         /\ \A i, j \in 1 .. Len(s) : s[i] = s[j] => i = j
         /\ m.head[l] = Nil <=> Len(s) = 0
         /\ Len(s) # 0 => 1 \in 1 .. Len(s) /\ Len(s) \in 1 .. Len(s) /\ m.head[l] = s[1]
<1> DEFINE s == seqs[l]
<1>1. /\ s \in Seq(Nodes) /\ Distinct(s) /\ Len(s) \in Nat
      /\ \A i \in 1 .. Len(s) : s[i] \in Nodes /\ s[i] # Nil /\ s[i] \in ToSet(s)
      /\ m.head[l] = Nil <=> Len(s) = 0
      /\ Len(s) # 0 => m.head[l] = s[1]
  BY ListFacts
<1>2. m \in ListMem /\ e \notin ToSet(s)
  BY DEF AreLists, Fresh
<1>3. e # Nil
  BY ListAssumption
<1> HIDE DEF s
<1>4. Len(s) # 0 => 1 \in 1 .. Len(s) /\ Len(s) \in 1 .. Len(s)
  BY <1>1
<1> QED
  BY <1>1, <1>2, <1>3, <1>4 DEF s, Distinct

LEMMA LLPrependIs ==
  ASSUME kind = "LL", NEW m, NEW seqs, AreLists(m, seqs), NEW l \in Lists, NEW e \in Nodes, Fresh(seqs, e)
  PROVE  AreLists(LLPrepend(m, l, e), [seqs EXCEPT ![l] = Insert(seqs[l], 1, e)])
<1> DEFINE s == seqs[l]
           n == Len(s)
           g == LLPrepend(m, l, e)
<1>1. /\ m \in ListMem /\ n \in Nat /\ \A i \in 1 .. n : s[i] \in Nodes /\ s[i] # e
      /\ m.head[l] = Nil <=> n = 0
      /\ n # 0 => m.head[l] = s[1]
  BY FreshFacts
<1>2. /\ g \in ListMem /\ g.tail = m.tail
      /\ \A j \in Lists : g.head[j] = IF j = l THEN e ELSE m.head[j]
      /\ \A x \in Nodes : g.next[x] = IF x = e THEN m.head[l] ELSE m.next[x]
  BY <1>1 DEF LLPrepend, ListMem, Refs
<1> HIDE DEF g, s
<1>3. Inserted(m, g, l, s, 1, e)
  BY <1>1, <1>2 DEF Inserted
<1>4. 1 \in 1 .. n + 1
  BY <1>1
<1> QED
  BY <1>3, <1>4, InsertedIs DEF s, g, Fresh

LEMMA LLAppendIs ==
  ASSUME kind = "LL", NEW m, NEW seqs, AreLists(m, seqs), NEW l \in Lists, NEW e \in Nodes, Fresh(seqs, e)
  PROVE  AreLists(LLAppend(m, l, e), [seqs EXCEPT ![l] = Insert(seqs[l], Len(seqs[l]) + 1, e)])
<1> DEFINE s == seqs[l]
           n == Len(s)
           k == n + 1
           g == LLAppend(m, l, e)
<1>1. /\ m \in ListMem /\ n \in Nat /\ s \in Seq(Nodes)
      /\ \A i \in 1 .. n : s[i] \in Nodes /\ s[i] # e
      /\ \A i, j \in 1 .. n : s[i] = s[j] => i = j
      /\ m.head[l] = Nil <=> n = 0
      /\ n # 0 => n \in 1 .. n /\ m.head[l] = s[1]
  BY FreshFacts
<1>2. LastOf(m, l) = s[n]
  <2>1. Forward(m, l) = s
    BY ListsRead
  <2> HIDE DEF s
  <2> QED
    BY <2>1 DEF LastOf, Last
<1>3. /\ g \in ListMem /\ g.tail = m.tail
      /\ \A j \in Lists : g.head[j] = IF j = l /\ n = 0 THEN e ELSE m.head[j]
      /\ \A x \in Nodes : g.next[x] = IF x = e THEN Nil ELSE IF n # 0 /\ x = s[n] THEN e ELSE m.next[x]
  <2> HIDE DEF s
  <2>1. CASE n = 0
    BY <1>1, <2>1 DEF LLAppend, ListMem, Refs
  <2>2. CASE n # 0
    BY <1>1, <1>2, <2>2 DEF LLAppend, ListMem, Refs
  <2> QED
    BY <2>1, <2>2
<1> HIDE DEF g, s
<1>4. k \in 1 .. n + 1 /\ ~(k <= n) /\ (1 < k <=> n # 0) /\ (k = 1 <=> n = 0) /\ k - 1 = n
  BY <1>1
<1>5. \A x \in Nodes : x \notin ToSet(s) => \A i \in 1 .. n : x # s[i]
  BY <1>1, ElementsOf
<1>6. CASE n = 0
  <2>1. ~\E i : i \in 1 .. n
    BY <1>6
  <2>2. Inserted(m, g, l, s, k, e)
    BY <1>3, <1>4, <1>6, <2>1 DEF Inserted
  <2> QED
    BY <1>4, <2>2, InsertedIs DEF s, g, Fresh
<1>7. CASE n # 0
  <2>1. \A i \in 1 .. n : i # n => s[i] # s[n]
    BY <1>1, <1>7
  <2>2. g.next[e] = Nil /\ g.next[s[n]] = e /\ g.head[l] = m.head[l]
    BY <1>1, <1>3, <1>7
  <2>3. \A i \in 1 .. n : i # n => g.next[s[i]] = m.next[s[i]]
    BY <1>1, <1>3, <2>1
  <2>4. \A x \in Nodes : x # e /\ x \notin ToSet(s) => g.next[x] = m.next[x]
    BY <1>1, <1>3, <1>5, <1>7
  <2>5. \A j \in Lists \ {l} : g.head[j] = m.head[j] /\ g.tail[j] = m.tail[j]
    BY <1>3
  <2>6. Inserted(m, g, l, s, k, e)
    BY <1>3, <1>4, <1>7, <2>2, <2>3, <2>4, <2>5 DEF Inserted
  <2> QED
    BY <1>4, <2>6, InsertedIs DEF s, g, Fresh
<1> QED
  BY <1>6, <1>7

LEMMA DLPrependIs ==
  ASSUME kind = "DL", NEW m, NEW seqs, AreLists(m, seqs), NEW l \in Lists, NEW e \in Nodes, Fresh(seqs, e)
  PROVE  AreLists(DLPrepend(m, l, e), [seqs EXCEPT ![l] = Insert(seqs[l], 1, e)])
<1> DEFINE s == seqs[l]
           n == Len(s)
           g == DLPrepend(m, l, e)
<1>1. /\ m \in ListMem /\ n \in Nat /\ s \in Seq(Nodes)
      /\ \A i \in 1 .. n : s[i] \in Nodes /\ s[i] # e
      /\ \A i, j \in 1 .. n : s[i] = s[j] => i = j
      /\ m.head[l] = Nil <=> n = 0
      /\ n # 0 => 1 \in 1 .. n /\ n \in 1 .. n /\ m.head[l] = s[1]
  BY FreshFacts
<1>2. n # 0 => m.prev[s[1]] = s[n]
  BY <1>1, ListFacts
<1>3. /\ g \in ListMem /\ g.tail = m.tail
      /\ \A j \in Lists : g.head[j] = IF j = l THEN e ELSE m.head[j]
      /\ \A x \in Nodes : g.next[x] = IF x = e THEN m.head[l] ELSE m.next[x]
      /\ \A x \in Nodes : g.prev[x] = IF x = e THEN IF n = 0 THEN e ELSE s[n]
                                      ELSE IF n # 0 /\ x = s[1] THEN e ELSE m.prev[x]
  <2> HIDE DEF s
  <2>1. CASE n = 0
    BY <1>1, <2>1 DEF DLPrepend, ListMem, Refs
  <2>2. CASE n # 0
    BY <1>1, <1>2, <2>2 DEF DLPrepend, ListMem, Refs
  <2> QED
    BY <2>1, <2>2
<1> HIDE DEF g, s
<1>4. 1 \in 1 .. n + 1 /\ (1 <= n <=> n # 0) /\ (1 = n + 1 <=> n = 0)
  BY <1>1
<1>5. \A x \in Nodes : x \notin ToSet(s) => \A i \in 1 .. n : x # s[i]
  BY <1>1, ElementsOf
<1>6. Inserted(m, g, l, s, 1, e)
  BY <1>1, <1>3, <1>4, <1>5 DEF Inserted
<1> QED
  BY <1>4, <1>6, InsertedIs DEF s, g, Fresh

LEMMA DLAppendIs ==
  ASSUME kind = "DL", NEW m, NEW seqs, AreLists(m, seqs), NEW l \in Lists, NEW e \in Nodes, Fresh(seqs, e)
  PROVE  AreLists(DLAppend(m, l, e), [seqs EXCEPT ![l] = Insert(seqs[l], Len(seqs[l]) + 1, e)])
<1> DEFINE s == seqs[l]
           n == Len(s)
           k == n + 1
           g == DLAppend(m, l, e)
<1>1. /\ m \in ListMem /\ n \in Nat /\ s \in Seq(Nodes)
      /\ \A i \in 1 .. n : s[i] \in Nodes /\ s[i] # e
      /\ \A i, j \in 1 .. n : s[i] = s[j] => i = j
      /\ m.head[l] = Nil <=> n = 0
      /\ n # 0 => 1 \in 1 .. n /\ n \in 1 .. n /\ m.head[l] = s[1]
  BY FreshFacts
<1>2. n # 0 => m.prev[s[1]] = s[n]
  BY <1>1, ListFacts
<1>3. /\ g \in ListMem /\ g.tail = m.tail
      /\ \A j \in Lists : g.head[j] = IF j = l /\ n = 0 THEN e ELSE m.head[j]
      /\ \A x \in Nodes : g.next[x] = IF x = e THEN Nil ELSE IF n # 0 /\ x = s[n] THEN e ELSE m.next[x]
      /\ \A x \in Nodes : g.prev[x] = IF x = e THEN IF n = 0 THEN e ELSE s[n]
                                      ELSE IF n # 0 /\ x = s[1] THEN e ELSE m.prev[x]
  <2> HIDE DEF s
  <2>1. CASE n = 0
    BY <1>1, <2>1 DEF DLAppend, ListMem, Refs
  <2>2. CASE n # 0
    BY <1>1, <1>2, <2>2 DEF DLAppend, ListMem, Refs
  <2> QED
    BY <2>1, <2>2
<1> HIDE DEF g, s
<1>4. k \in 1 .. n + 1 /\ ~(k <= n) /\ (1 < k <=> n # 0) /\ (k = 1 <=> n = 0) /\ k - 1 = n
  BY <1>1
<1>5. \A x \in Nodes : x \notin ToSet(s) => \A i \in 1 .. n : x # s[i]
  BY <1>1, ElementsOf
<1>6. CASE n = 0
  <2>1. ~\E i : i \in 1 .. n
    BY <1>6
  <2>2. Inserted(m, g, l, s, k, e)
    BY <1>1, <1>3, <1>4, <1>6, <2>1 DEF Inserted
  <2> QED
    BY <1>4, <2>2, InsertedIs DEF s, g, Fresh
<1>7. CASE n # 0
  <2>1. /\ \A i \in 1 .. n : i # n => s[i] # s[n]
        /\ \A i \in 1 .. n : i # 1 => s[i] # s[1]
    BY <1>1, <1>7
  <2>2. /\ g.next[e] = Nil /\ g.next[s[n]] = e /\ g.head[l] = m.head[l]
        /\ g.prev[e] = s[n] /\ g.prev[s[1]] = e
    BY <1>1, <1>3, <1>7
  <2>3. /\ \A i \in 1 .. n : i # n => g.next[s[i]] = m.next[s[i]]
        /\ \A i \in 1 .. n : i # 1 => g.prev[s[i]] = m.prev[s[i]]
    BY <1>1, <1>3, <2>1
  <2>4. \A x \in Nodes : x # e /\ x \notin ToSet(s) => g.next[x] = m.next[x] /\ g.prev[x] = m.prev[x]
    BY <1>1, <1>3, <1>5, <1>7
  <2>5. \A j \in Lists \ {l} : g.head[j] = m.head[j] /\ g.tail[j] = m.tail[j]
    BY <1>3
  <2>6. Inserted(m, g, l, s, k, e)
    BY <1>3, <1>4, <1>7, <2>2, <2>3, <2>4, <2>5 DEF Inserted
  <2> QED
    BY <1>4, <2>6, InsertedIs DEF s, g, Fresh
<1> QED
  BY <1>6, <1>7

LEMMA CDLPrependIs ==
  ASSUME kind = "CDL", NEW m, NEW seqs, AreLists(m, seqs), NEW l \in Lists, NEW e \in Nodes, Fresh(seqs, e)
  PROVE  AreLists(CDLPrepend(m, l, e), [seqs EXCEPT ![l] = Insert(seqs[l], 1, e)])
<1> DEFINE s == seqs[l]
           n == Len(s)
           g == CDLPrepend(m, l, e)
<1>1. /\ m \in ListMem /\ n \in Nat /\ s \in Seq(Nodes)
      /\ \A i \in 1 .. n : s[i] \in Nodes /\ s[i] # e
      /\ \A i, j \in 1 .. n : s[i] = s[j] => i = j
      /\ m.head[l] = Nil <=> n = 0
      /\ n # 0 => 1 \in 1 .. n /\ n \in 1 .. n /\ m.head[l] = s[1]
  BY FreshFacts
<1>2. n # 0 => m.prev[s[1]] = s[n]
  BY <1>1, ListFacts
<1>3. /\ g \in ListMem /\ g.tail = m.tail
      /\ \A j \in Lists : g.head[j] = IF j = l THEN e ELSE m.head[j]
      /\ \A x \in Nodes : g.next[x] = IF x = e THEN IF n = 0 THEN e ELSE s[1]
                                      ELSE IF n # 0 /\ x = s[n] THEN e ELSE m.next[x]
      /\ \A x \in Nodes : g.prev[x] = IF x = e THEN IF n = 0 THEN e ELSE s[n]
                                      ELSE IF n # 0 /\ x = s[1] THEN e ELSE m.prev[x]
  <2> HIDE DEF s
  <2>1. CASE n = 0
    BY <1>1, <2>1 DEF CDLPrepend, ListMem, Refs
  <2>2. CASE n # 0
    BY <1>1, <1>2, <2>2 DEF CDLPrepend, ListMem, Refs
  <2> QED
    BY <2>1, <2>2
<1> HIDE DEF g, s
<1>4. 1 \in 1 .. n + 1 /\ (1 <= n <=> n # 0) /\ (1 = n + 1 <=> n = 0)
  BY <1>1
<1>5. \A x \in Nodes : x \notin ToSet(s) => \A i \in 1 .. n : x # s[i]
  BY <1>1, ElementsOf
<1>6. Inserted(m, g, l, s, 1, e)
  BY <1>1, <1>3, <1>4, <1>5 DEF Inserted
<1> QED
  BY <1>4, <1>6, InsertedIs DEF s, g, Fresh

LEMMA QAddHeadIs ==
  ASSUME kind = "Q", NEW m, NEW seqs, AreLists(m, seqs), NEW l \in Lists, NEW e \in Nodes, Fresh(seqs, e)
  PROVE  AreLists(QAddHead(m, l, e), [seqs EXCEPT ![l] = Insert(seqs[l], 1, e)])
<1> DEFINE s == seqs[l]
           n == Len(s)
           g == QAddHead(m, l, e)
<1>1. /\ m \in ListMem /\ n \in Nat /\ s \in Seq(Nodes)
      /\ \A i \in 1 .. n : s[i] \in Nodes /\ s[i] # e
      /\ \A i, j \in 1 .. n : s[i] = s[j] => i = j
      /\ m.head[l] = Nil <=> n = 0
      /\ n # 0 => 1 \in 1 .. n /\ n \in 1 .. n /\ m.head[l] = s[1]
  BY FreshFacts
<1>2. /\ g \in ListMem
      /\ \A j \in Lists : g.head[j] = IF j = l THEN e ELSE m.head[j]
      /\ \A j \in Lists : g.tail[j] = IF j = l /\ n = 0 THEN e ELSE m.tail[j]
      /\ \A x \in Nodes : g.next[x] = IF x = e THEN m.head[l] ELSE m.next[x]
      /\ \A x \in Nodes : g.prev[x] = IF x = e THEN Nil ELSE IF n # 0 /\ x = s[1] THEN e ELSE m.prev[x]
  <2> HIDE DEF s
  <2>1. CASE n = 0
    BY <1>1, <2>1 DEF QAddHead, ListMem, Refs
  <2>2. CASE n # 0
    BY <1>1, <2>2 DEF QAddHead, ListMem, Refs
  <2> QED
    BY <2>1, <2>2
<1> HIDE DEF g, s
<1>3. 1 \in 1 .. n + 1 /\ (1 <= n <=> n # 0) /\ (1 = n + 1 <=> n = 0)
  BY <1>1
<1>4. \A x \in Nodes : x \notin ToSet(s) => \A i \in 1 .. n : x # s[i]
  BY <1>1, ElementsOf
<1>5. Inserted(m, g, l, s, 1, e)
  BY <1>1, <1>2, <1>3, <1>4 DEF Inserted
<1> QED
  BY <1>3, <1>5, InsertedIs DEF s, g, Fresh

LEMMA QInsertAfterIs ==
  ASSUME kind = "Q", NEW m, NEW seqs, AreLists(m, seqs), NEW l \in Lists, NEW e \in Nodes, Fresh(seqs, e),
         NEW i \in 1 .. Len(seqs[l])
  PROVE  AreLists(QInsertAfter(m, l, e, seqs[l][i]), [seqs EXCEPT ![l] = Insert(seqs[l], i + 1, e)])
<1> DEFINE s == seqs[l]
           n == Len(s)
           p == s[i]
           k == i + 1
           g == QInsertAfter(m, l, e, p)
<1>1. /\ m \in ListMem /\ n \in Nat /\ s \in Seq(Nodes) /\ i \in 1 .. n
      /\ \A h \in 1 .. n : s[h] \in Nodes /\ s[h] # e /\ s[h] # Nil
      /\ \A h, j \in 1 .. n : s[h] = s[j] => h = j
  BY FreshFacts
<1>2. m.next[p] = IF i < n THEN s[k] ELSE Nil
  BY ListFacts
<1> HIDE DEF s
<1>3. /\ k \in 1 .. n + 1 /\ k # 1 /\ 1 < k /\ k - 1 = i /\ (k <= n <=> i < n) /\ (k = n + 1 <=> ~(i < n))
      /\ i < n => k \in 1 .. n
  BY <1>1
<1>4. /\ g \in ListMem /\ g.head = m.head
      /\ \A j \in Lists : g.tail[j] = IF j = l /\ ~(i < n) THEN e ELSE m.tail[j]
      /\ \A x \in Nodes : g.next[x] = IF x = p THEN e
                                      ELSE IF x = e THEN IF i < n THEN s[k] ELSE Nil ELSE m.next[x]
      /\ \A x \in Nodes : g.prev[x] = IF i < n /\ x = s[k] THEN e ELSE IF x = e THEN p ELSE m.prev[x]
  <2> HIDE DEF k
  <2>1. CASE i < n
    BY <1>1, <1>2, <1>3, <2>1 DEF QInsertAfter, ListMem, Refs
  <2>2. CASE ~(i < n)
    BY <1>1, <1>2, <1>3, <2>2 DEF QInsertAfter, ListMem, Refs
  <2> QED
    BY <2>1, <2>2
<1> HIDE DEF g
<1>5. \A x \in Nodes : x \notin ToSet(s) => \A j \in 1 .. n : x # s[j]
  BY <1>1, ElementsOf
<1>6. Inserted(m, g, l, s, k, e)
  BY <1>1, <1>3, <1>4, <1>5 DEF Inserted
<1> QED
  BY <1>3, <1>6, InsertedIs DEF s, g, Fresh


-----------------------------------------------------------------------------
(* Deletions                                                                *)

LEMMA Bounds ==
  ASSUME NEW n \in Nat, NEW k \in 1 .. n
  PROVE  /\ 1 < k <=> k # 1
         /\ k < n <=> k # n
         /\ n # 1 => 1 \in 1 .. n - 1 /\ n - 1 \in 1 .. n - 1 /\ (n - 1 < k <=> k = n) /\ (n - 1) + 1 = n
         /\ 1 < k => n # 1
         /\ k < n => n # 1
         /\ \A i \in 1 .. n : i # k => n # 1
         /\ n # 1 => 1 < n /\ 2 \in 1 .. n /\ 1 + 1 = 2
OBVIOUS

\* What a deletion of the k-th element has to do.
Removed(m, g, l, s, k) ==
  LET n == Len(s) IN
  /\ g \in ListMem
  /\ \A j \in Lists \ {l} : g.head[j] = m.head[j] /\ g.tail[j] = m.tail[j]
  /\ g.head[l] = IF k # 1 THEN m.head[l] ELSE IF n = 1 THEN Nil ELSE s[2]
  /\ kind = "Q" => g.tail[l] = IF k # n THEN m.tail[l] ELSE IF n = 1 THEN Nil ELSE s[n - 1]
  /\ 1 < k => g.next[s[k - 1]] = IF k < n THEN s[k + 1] ELSE IF kind = "CDL" THEN s[1] ELSE Nil
  /\ \A i \in 1 .. n : i # k /\ i # k - 1 =>
       g.next[s[i]] = IF i = n /\ k = 1 /\ kind = "CDL" THEN s[2] ELSE m.next[s[i]]
  /\ kind # "LL" =>
       /\ k < n => g.prev[s[k + 1]] = IF 1 < k THEN s[k - 1] ELSE IF kind = "Q" THEN Nil ELSE s[n]
       /\ \A i \in 1 .. n : i # k /\ i # k + 1 =>
            g.prev[s[i]] = IF i = 1 /\ k = n /\ kind # "Q" THEN s[n - 1] ELSE m.prev[s[i]]
  /\ \A x \in Nodes : x \notin ToSet(s) => g.next[x] = m.next[x] /\ (kind # "LL" => g.prev[x] = m.prev[x])

LEMMA RemovedIs ==
  ASSUME NEW m, NEW seqs, AreLists(m, seqs), NEW l \in Lists, NEW k \in 1 .. Len(seqs[l]),
         NEW g, Removed(m, g, l, seqs[l], k)
  PROVE  AreLists(g, [seqs EXCEPT ![l] = Cut(seqs[l], k)])
<1> DEFINE s == seqs[l]
           t == Cut(s, k)
           n == Len(s)
<1>1. s \in Seq(Nodes) /\ Distinct(s) /\ n \in Nat
  BY ListFacts
<1>2. /\ t \in Seq(Nodes) /\ Len(t) = n - 1 /\ ToSet(t) = ToSet(s) \ {s[k]} /\ Distinct(t)
      /\ \A i \in 1 .. n - 1 : t[i] = IF i < k THEN s[i] ELSE s[i + 1]
  <2>1. k \in 1 .. Len(s)
    OBVIOUS
  <2> HIDE DEF s
  <2> QED
    BY <1>1, <2>1, CutIs
<1>3. /\ n # 0 => m.head[l] = s[1] /\ (kind = "Q" => m.tail[l] = s[n])
      /\ \A i \in 1 .. n : m.next[s[i]] = IF i < n THEN s[i + 1] ELSE IF kind = "CDL" THEN s[1] ELSE Nil
      /\ kind # "LL" => \A i \in 1 .. n : m.prev[s[i]] = IF 1 < i THEN s[i - 1]
                                                          ELSE IF kind = "Q" THEN Nil ELSE s[n]
  BY ListFacts
<1>4. IsList(m, l, s)
  BY DEF AreLists
<1>5. Removed(m, g, l, s, k) /\ k \in 1 .. n /\ n # 0
  BY <1>1
<1> HIDE DEF s, t
<1>6. t = << >> <=> n = 1
  BY <1>1, <1>2, <1>5, EmptySeq
<1>7. HeadIn(t) = IF n = 1 THEN Nil ELSE IF k = 1 THEN s[2] ELSE s[1]
  <2>1. CASE n = 1
    BY <1>6, <2>1 DEF HeadIn
  <2>2. CASE n # 1
    <3>1. 1 \in 1 .. n - 1 /\ (1 < k <=> k # 1)
      BY <1>1, <1>5, <2>2, Bounds
    <3>2. t[1] = IF 1 < k THEN s[1] ELSE s[1 + 1]
      BY <1>2, <3>1
    <3>3. HeadIn(t) = t[1]
      BY <1>6, <2>2 DEF HeadIn
    <3> QED
      BY <2>2, <3>1, <3>2, <3>3
  <2> QED
    BY <2>1, <2>2
<1>8. EndIn(t) = IF n = 1 THEN Nil ELSE IF k = n THEN s[n - 1] ELSE s[n]
  <2>1. CASE n = 1
    BY <1>6, <2>1 DEF EndIn
  <2>2. CASE n # 1
    <3>1. n - 1 \in 1 .. n - 1 /\ (n - 1 < k <=> k = n) /\ (n - 1) + 1 = n
      BY <1>1, <1>5, <2>2, Bounds
    <3>2. t[n - 1] = IF n - 1 < k THEN s[n - 1] ELSE s[(n - 1) + 1]
      BY <1>2, <3>1
    <3>3. EndIn(t) = t[n - 1]
      BY <1>2, <1>6, <2>2 DEF EndIn
    <3> QED
      BY <2>2, <3>1, <3>2, <3>3
  <2> QED
    BY <2>1, <2>2
<1>9. (1 < k <=> k # 1) /\ (k < n <=> k # n) /\ (1 < k => n # 1) /\ (k < n => n # 1)
  BY <1>1, <1>5, Bounds
<1>10. Forwards(g.next, t, Closing(t))
  <2> DEFINE next == m.next
             next2 == g.next
             z == Closing(s)
             w == Closing(t)
  <2>1. Forwards(next, s, z)
    BY <1>4 DEF IsList
  <2>2. w = IF kind # "CDL" \/ n = 1 THEN Nil ELSE IF k = 1 THEN s[2] ELSE s[1]
    BY <1>7 DEF Closing
  <2>3. 1 < k => next2[s[k - 1]] = IF k < n THEN s[k + 1] ELSE w
    BY <1>5, <1>9, <2>2 DEF Removed
  <2>4. ASSUME NEW i \in 1 .. n, i # k, i # k - 1 PROVE next2[s[i]] = IF i = n THEN w ELSE next[s[i]]
    <3>1. next2[s[i]] = IF i = n /\ k = 1 /\ kind = "CDL" THEN s[2] ELSE next[s[i]]
      BY <1>5, <2>4 DEF Removed
    <3>2. i = n => next[s[i]] = IF kind = "CDL" THEN s[1] ELSE Nil
      BY <1>1, <1>3
    <3>3. n # 1
      BY <1>1, <1>5, <2>4, Bounds
    <3> QED
      BY <2>2, <3>1, <3>2, <3>3
  <2> HIDE DEF next, next2, z, w
  <2>5. Forwards(next2, t, w)
    BY <1>1, <1>5, <2>1, <2>3, <2>4, ForwardsCut DEF t
  <2> QED
    BY <2>5 DEF next2, w
<1>11. ASSUME kind # "LL" PROVE Backwards(g.prev, t, Ahead(t))
  <2> DEFINE prev == m.prev
             prev2 == g.prev
             z == Ahead(s)
             w == Ahead(t)
  <2>1. Backwards(prev, s, z)
    BY <1>4, <1>11 DEF IsList
  <2>2. w = IF kind = "Q" \/ n = 1 THEN Nil ELSE IF k = n THEN s[n - 1] ELSE s[n]
    BY <1>8 DEF Ahead
  <2>3. k < n => prev2[s[k + 1]] = IF 1 < k THEN s[k - 1] ELSE w
    BY <1>5, <1>9, <1>11, <2>2 DEF Removed
  <2>4. ASSUME NEW i \in 1 .. n, i # k, i # k + 1 PROVE prev2[s[i]] = IF i = 1 THEN w ELSE prev[s[i]]
    <3>1. prev2[s[i]] = IF i = 1 /\ k = n /\ kind # "Q" THEN s[n - 1] ELSE prev[s[i]]
      BY <1>5, <1>11, <2>4 DEF Removed
    <3>2. i = 1 => prev[s[i]] = IF kind = "Q" THEN Nil ELSE s[n]
      BY <1>1, <1>3, <1>11
    <3>3. n # 1
      BY <1>1, <1>5, <2>4, Bounds
    <3> QED
      BY <2>2, <3>1, <3>2, <3>3
  <2> HIDE DEF prev, prev2, z, w
  <2>5. Backwards(prev2, t, w)
    BY <1>1, <1>5, <2>1, <2>3, <2>4, BackwardsCut DEF t
  <2> QED
    BY <2>5 DEF prev2, w
<1>12. g.head[l] = HeadIn(t)
  BY <1>3, <1>5, <1>7, <1>9 DEF Removed
<1>13. kind = "Q" => g.tail[l] = EndIn(t)
  BY <1>3, <1>5, <1>8, <1>9 DEF Removed
<1>14. IsList(g, l, t)
  BY <1>2, <1>10, <1>11, <1>12, <1>13 DEF IsList
<1>15. \A j \in Lists \ {l} : /\ g.head[j] = m.head[j] /\ g.tail[j] = m.tail[j]
                             /\ ToSet(seqs[j]) \cap ToSet(t) = {}
  <2>1. \A j \in Lists \ {l} : ToSet(seqs[j]) \cap ToSet(s) = {}
    BY DEF AreLists, s
  <2> QED
    BY <1>2, <1>5, <2>1 DEF Removed
<1>16. /\ g \in ListMem
       /\ \A x \in Nodes : x \notin ToSet(s) /\ x \notin ToSet(t)
            => g.next[x] = m.next[x] /\ (kind # "LL" => g.prev[x] = m.prev[x])
  BY <1>5 DEF Removed
<1>17. AreLists(g, [seqs EXCEPT ![l] = t])
  BY <1>14, <1>15, <1>16, OneList DEF s
<1> QED
  BY <1>17 DEF s, t

\* What is known of a list with a k-th element.
LEMMA KthFacts ==
  ASSUME NEW m, NEW seqs, AreLists(m, seqs), NEW l \in Lists, NEW k \in 1 .. Len(seqs[l])
  PROVE  LET s == seqs[l]
             n == Len(s) IN
         /\ m \in ListMem /\ s \in Seq(Nodes) /\ n \in Nat
         /\ \A i \in 1 .. n : s[i] \in Nodes /\ s[i] # Nil
         /\ \A i, j \in 1 .. n : s[i] = s[j] => i = j
         /\ 1 \in 1 .. n /\ n \in 1 .. n /\ m.head[l] = s[1]
         /\ 1 < k => k - 1 \in 1 .. n
         /\ k < n => k + 1 \in 1 .. n
         /\ k = 1 \/ 1 < k
         /\ k = n \/ k < n
         /\ \A x \in Nodes : x \notin ToSet(s) => \A i \in 1 .. n : x # s[i]
<1> DEFINE s == seqs[l]
           n == Len(s)
<1>1. /\ s \in Seq(Nodes) /\ Distinct(s) /\ n \in Nat
      /\ \A i \in 1 .. n : s[i] \in Nodes /\ s[i] # Nil
      /\ n # 0 => m.head[l] = s[1]
  BY ListFacts
<1>2. m \in ListMem
  BY DEF AreLists
<1>3. \A x \in Nodes : x \notin ToSet(s) => \A i \in 1 .. n : x # s[i]
  BY <1>1, ElementsOf
<1>4. k \in 1 .. n
  OBVIOUS
<1> HIDE DEF s
<1>5. n # 0 /\ 1 \in 1 .. n /\ n \in 1 .. n /\ (1 < k => k - 1 \in 1 .. n) /\ (k < n => k + 1 \in 1 .. n)
      /\ (k = 1 \/ 1 < k) /\ (k = n \/ k < n)
  BY <1>1, <1>4
<1> QED
  BY <1>1, <1>2, <1>3, <1>5 DEF s, Distinct

LEMMA LLDeleteIs ==
  ASSUME kind = "LL", NEW m, NEW seqs, AreLists(m, seqs), NEW l \in Lists, NEW k \in 1 .. Len(seqs[l])
  PROVE  Removed(m, LLDelete(m, l, seqs[l][k]), l, seqs[l], k)
<1> DEFINE s == seqs[l]
           n == Len(s)
           e == s[k]
           g == LLDelete(m, l, e)
<1>1. /\ m \in ListMem /\ s \in Seq(Nodes) /\ n \in Nat /\ k \in 1 .. n
      /\ \A i \in 1 .. n : s[i] \in Nodes /\ s[i] # Nil
      /\ \A i, j \in 1 .. n : s[i] = s[j] => i = j
      /\ 1 \in 1 .. n /\ n \in 1 .. n /\ m.head[l] = s[1]
      /\ 1 < k => k - 1 \in 1 .. n
      /\ k < n => k + 1 \in 1 .. n
      /\ k = 1 \/ 1 < k
      /\ k = n \/ k < n
      /\ \A x \in Nodes : x \notin ToSet(s) => \A i \in 1 .. n : x # s[i]
  BY KthFacts
<1>2. \A i \in 1 .. n : m.next[s[i]] = IF i < n THEN s[i + 1] ELSE Nil
  BY ListFacts
<1>3. Forward(m, l) = s
  BY ListsRead
<1> HIDE DEF s
<1>4. CASE k = 1
  <2>1. /\ g \in ListMem /\ g.tail = m.tail /\ g.next = m.next
        /\ \A j \in Lists : g.head[j] = IF j = l THEN m.next[s[1]] ELSE m.head[j]
    BY <1>1, <1>4 DEF LLDelete, ListMem, Refs
  <2>2. m.next[s[1]] = IF n = 1 THEN Nil ELSE s[2]
    BY <1>1, <1>2, Bounds
  <2> HIDE DEF g, e
  <2>3. Removed(m, g, l, s, k)
    BY <1>1, <1>4, <2>1, <2>2 DEF Removed
  <2> QED
    BY <2>3 DEF s, g, e
<1>5. CASE 1 < k
  <2> DEFINE p == CHOOSE x \in ToSet(s) : m.next[x] = e
  <2>1. p = s[k - 1]
    <3>1. s[k - 1] \in ToSet(s) /\ m.next[s[k - 1]] = e
      <4>1. k - 1 < n /\ (k - 1) + 1 = k
        BY <1>1
      <4> QED
        BY <1>1, <1>2, <1>5, <4>1, ElementsOf
    <3>2. p \in ToSet(s) /\ m.next[p] = e
      BY <3>1
    <3> HIDE DEF p
    <3>3. PICK i \in 1 .. n : s[i] = p
      BY <1>1, <3>2, ElementsOf
    <3>4. i < n /\ s[i + 1] = s[k]
      BY <1>1, <1>2, <3>2, <3>3
    <3>5. i + 1 \in 1 .. n
      BY <1>1, <3>4
    <3>6. i + 1 = k
      BY <1>1, <3>4, <3>5
    <3>7. i = k - 1
      BY <1>1, <3>6
    <3> QED
      BY <3>3, <3>7
  <2>2. m.head[l] # e
    BY <1>1, <1>5
  <2>3. g = [m EXCEPT !.next[p] = m.next[e]]
    BY <1>3, <2>2 DEF LLDelete
  <2> HIDE DEF p
  <2>4. /\ g \in ListMem /\ g.tail = m.tail /\ g.head = m.head
        /\ \A x \in Nodes : g.next[x] = IF x = s[k - 1] THEN m.next[s[k]] ELSE m.next[x]
    <3>1. p \in Nodes /\ e \in Nodes
      BY <1>1, <1>5, <2>1
    <3>2. m.next[e] \in Refs
      BY <1>1, <3>1 DEF ListMem
    <3> DEFINE a == m.next[e]
    <3>3. g = [m EXCEPT !.next[p] = a]
      BY <2>3
    <3>4. a \in Refs
      BY <3>2
    <3> HIDE DEF a, g
    <3>5. /\ g \in ListMem /\ g.tail = m.tail /\ g.head = m.head
          /\ \A x \in Nodes : g.next[x] = IF x = p THEN a ELSE m.next[x]
      BY <1>1, <3>1, <3>3, <3>4 DEF ListMem
    <3> QED
      BY <2>1, <3>5 DEF a
  <2> HIDE DEF g, e
  <2>5. Removed(m, g, l, s, k)
    BY <1>1, <1>2, <1>5, <2>4 DEF Removed
  <2> QED
    BY <2>5 DEF s, g, e
<1> QED
  BY <1>1, <1>4, <1>5

LEMMA DLDeleteIs ==
  ASSUME kind = "DL", NEW m, NEW seqs, AreLists(m, seqs), NEW l \in Lists, NEW k \in 1 .. Len(seqs[l])
  PROVE  Removed(m, DLDelete(m, l, seqs[l][k]), l, seqs[l], k)
<1> DEFINE s == seqs[l]
           n == Len(s)
           e == s[k]
           g == DLDelete(m, l, e)
<1>1. /\ m \in ListMem /\ s \in Seq(Nodes) /\ n \in Nat /\ k \in 1 .. n
      /\ \A i \in 1 .. n : s[i] \in Nodes /\ s[i] # Nil
      /\ \A i, j \in 1 .. n : s[i] = s[j] => i = j
      /\ 1 \in 1 .. n /\ n \in 1 .. n /\ m.head[l] = s[1]
      /\ 1 < k => k - 1 \in 1 .. n
      /\ k < n => k + 1 \in 1 .. n
      /\ k = 1 \/ 1 < k
      /\ k = n \/ k < n
      /\ \A x \in Nodes : x \notin ToSet(s) => \A i \in 1 .. n : x # s[i]
  BY KthFacts
<1>2. \A i \in 1 .. n : m.next[s[i]] = IF i < n THEN s[i + 1] ELSE Nil
  BY ListFacts
<1>3. \A i \in 1 .. n : m.prev[s[i]] = IF 1 < i THEN s[i - 1] ELSE s[n]
  BY ListFacts
<1> HIDE DEF s
<1>4. CASE n = 1
  <2>1. k = 1 /\ m.prev[e] = e
    BY <1>1, <1>3, <1>4
  <2>2. /\ g \in ListMem /\ g.tail = m.tail /\ g.next = m.next /\ g.prev = m.prev
        /\ \A j \in Lists : g.head[j] = IF j = l THEN Nil ELSE m.head[j]
    BY <1>1, <2>1 DEF DLDelete, ListMem, Refs
  <2> HIDE DEF g, e
  <2>3. Removed(m, g, l, s, k)
    BY <1>1, <1>4, <2>1, <2>2 DEF Removed
  <2> QED
    BY <2>3 DEF s, g, e
<1>5. CASE n # 1 /\ k = 1
  <2>1. m.prev[e] = s[n] /\ s[n] # e /\ m.head[l] = e /\ m.next[e] = s[2] /\ 2 \in 1 .. n
    BY <1>1, <1>2, <1>3, <1>5
  <2>2. /\ g \in ListMem /\ g.tail = m.tail /\ g.next = m.next
        /\ \A j \in Lists : g.head[j] = IF j = l THEN s[2] ELSE m.head[j]
        /\ \A x \in Nodes : g.prev[x] = IF x = s[2] THEN s[n] ELSE m.prev[x]
    BY <1>1, <2>1 DEF DLDelete, ListMem, Refs
  <2> HIDE DEF g, e
  <2>3. Removed(m, g, l, s, k)
    BY <1>1, <1>5, <2>1, <2>2 DEF Removed
  <2> QED
    BY <2>3 DEF s, g, e
<1>6. CASE n # 1 /\ 1 < k
  <2>1. m.prev[e] = s[k - 1] /\ s[k - 1] # e /\ m.head[l] # e /\ m.next[e] = IF k < n THEN s[k + 1] ELSE Nil
    BY <1>1, <1>2, <1>3, <1>6
  <2>2. /\ g \in ListMem /\ g.tail = m.tail /\ g.head = m.head
        /\ \A x \in Nodes : g.next[x] = IF x = s[k - 1] THEN IF k < n THEN s[k + 1] ELSE Nil ELSE m.next[x]
        /\ \A x \in Nodes : g.prev[x] = IF x = (IF k < n THEN s[k + 1] ELSE s[1]) THEN s[k - 1] ELSE m.prev[x]
    <3> HIDE DEF e
    <3>1. CASE k < n
      BY <1>1, <1>6, <2>1, <3>1 DEF DLDelete, ListMem, Refs
    <3>2. CASE ~(k < n)
      BY <1>1, <1>6, <2>1, <3>2 DEF DLDelete, ListMem, Refs
    <3> QED
      BY <3>1, <3>2
  <2> HIDE DEF g, e
  <2>3. Removed(m, g, l, s, k)
    <3>1. \A i \in 1 .. n : i # k /\ i # k - 1 => g.next[s[i]] = m.next[s[i]]
      BY <1>1, <1>6, <2>2
    <3>2. g.next[s[k - 1]] = IF k < n THEN s[k + 1] ELSE Nil
      BY <1>1, <1>6, <2>2
    <3>3. k < n => g.prev[s[k + 1]] = s[k - 1]
      BY <1>1, <1>6, <2>2
    <3>4. ASSUME NEW i \in 1 .. n, i # k, i # k + 1
          PROVE  g.prev[s[i]] = IF i = 1 /\ k = n THEN s[n - 1] ELSE m.prev[s[i]]
      <4>1. CASE k < n
        BY <1>1, <1>6, <2>2, <3>4, <4>1
      <4>2. CASE k = n
        BY <1>1, <1>6, <2>2, <3>4, <4>2
      <4> QED
        BY <1>1, <4>1, <4>2
    <3>5. \A x \in Nodes : x \notin ToSet(s) => g.next[x] = m.next[x] /\ g.prev[x] = m.prev[x]
      BY <1>1, <1>6, <2>2
    <3>6. k # 1
      BY <1>1, <1>6
    <3> QED
      BY <1>6, <2>2, <3>1, <3>2, <3>3, <3>4, <3>5, <3>6 DEF Removed
  <2> QED
    BY <2>3 DEF s, g, e
<1> QED
  BY <1>1, <1>4, <1>5, <1>6

LEMMA CDLDeleteIs ==
  ASSUME kind = "CDL", NEW m, NEW seqs, AreLists(m, seqs), NEW l \in Lists, NEW k \in 1 .. Len(seqs[l])
  PROVE  Removed(m, CDLDelete(m, l, seqs[l][k]), l, seqs[l], k)
<1> DEFINE s == seqs[l]
           n == Len(s)
           e == s[k]
           g == CDLDelete(m, l, e)
<1>1. /\ m \in ListMem /\ s \in Seq(Nodes) /\ n \in Nat /\ k \in 1 .. n
      /\ \A i \in 1 .. n : s[i] \in Nodes /\ s[i] # Nil
      /\ \A i, j \in 1 .. n : s[i] = s[j] => i = j
      /\ 1 \in 1 .. n /\ n \in 1 .. n /\ m.head[l] = s[1]
      /\ 1 < k => k - 1 \in 1 .. n
      /\ k < n => k + 1 \in 1 .. n
      /\ k = 1 \/ 1 < k
      /\ k = n \/ k < n
      /\ \A x \in Nodes : x \notin ToSet(s) => \A i \in 1 .. n : x # s[i]
  BY KthFacts
<1>2. \A i \in 1 .. n : m.next[s[i]] = IF i < n THEN s[i + 1] ELSE s[1]
  BY ListFacts
<1>3. \A i \in 1 .. n : m.prev[s[i]] = IF 1 < i THEN s[i - 1] ELSE s[n]
  BY ListFacts
<1> HIDE DEF s
<1>4. CASE n = 1
  <2>1. k = 1 /\ m.next[e] = e /\ m.head[l] = e
    BY <1>1, <1>2, <1>4
  <2>2. /\ g \in ListMem /\ g.tail = m.tail /\ g.next = m.next /\ g.prev = m.prev
        /\ \A j \in Lists : g.head[j] = IF j = l THEN Nil ELSE m.head[j]
    BY <1>1, <2>1 DEF CDLDelete, ListMem, Refs
  <2> HIDE DEF g, e
  <2>3. Removed(m, g, l, s, k)
    BY <1>1, <1>4, <2>1, <2>2 DEF Removed
  <2> QED
    BY <2>3 DEF s, g, e
<1>5. CASE n # 1
  <2> DEFINE pre == IF 1 < k THEN s[k - 1] ELSE s[n]
             post == IF k < n THEN s[k + 1] ELSE s[1]
  <2>1. m.prev[e] = pre /\ m.next[e] = post /\ pre \in Nodes /\ post \in Nodes
    BY <1>1, <1>2, <1>3
  <2>2. ~(m.head[l] = e /\ m.next[e] = e)
    <3>1. CASE k = 1
      <4>1. 1 < n /\ 2 \in 1 .. n /\ 1 + 1 = 2
        BY <1>1, <1>5, Bounds
      <4>2. m.next[e] = s[2]
        BY <1>1, <1>2, <3>1, <4>1
      <4>3. s[2] # s[1]
        BY <1>1, <4>1
      <4> QED
        BY <3>1, <4>2, <4>3
    <3>2. CASE k # 1
      BY <1>1, <3>2
    <3> QED
      BY <3>1, <3>2
  <2> HIDE DEF pre, post
  <2>3. /\ g \in ListMem /\ g.tail = m.tail
        /\ \A j \in Lists : g.head[j] = IF j = l /\ k = 1 THEN post ELSE m.head[j]
        /\ \A x \in Nodes : g.next[x] = IF x = pre THEN post ELSE m.next[x]
        /\ \A x \in Nodes : g.prev[x] = IF x = post THEN pre ELSE m.prev[x]
    <3>1. m.head[l] = e <=> k = 1
      BY <1>1
    <3> HIDE DEF e
    <3> QED
      BY <1>1, <2>1, <2>2, <3>1 DEF CDLDelete, ListMem, Refs
  <2> HIDE DEF g, e
  <2>4. Removed(m, g, l, s, k)
    <3>1. (1 < k <=> k # 1) /\ (k < n <=> k # n) /\ 1 < n /\ 2 \in 1 .. n /\ 1 + 1 = 2
      BY <1>1, <1>5, Bounds
    <3>2. \A i \in 1 .. n : s[i] = pre <=> i = IF 1 < k THEN k - 1 ELSE n
      BY <1>1, <3>1 DEF pre
    <3>3. \A i \in 1 .. n : s[i] = post <=> i = IF k < n THEN k + 1 ELSE 1
      BY <1>1, <3>1 DEF post
    <3>4. 1 < k => g.next[s[k - 1]] = post
      BY <1>1, <2>3, <3>2
    <3>5. ASSUME NEW i \in 1 .. n, i # k, i # k - 1
          PROVE  g.next[s[i]] = IF i = n /\ k = 1 THEN s[2] ELSE m.next[s[i]]
      <4>1. k = 1 => k < n /\ post = s[2]
        BY <3>1 DEF post
      <4> QED
        BY <1>1, <2>3, <3>1, <3>2, <3>5, <4>1
    <3>6. k < n => g.prev[s[k + 1]] = pre
      BY <1>1, <2>3, <3>3
    <3>7. ASSUME NEW i \in 1 .. n, i # k, i # k + 1
          PROVE  g.prev[s[i]] = IF i = 1 /\ k = n THEN s[n - 1] ELSE m.prev[s[i]]
      <4>1. k = n => 1 < k /\ pre = s[n - 1]
        BY <3>1 DEF pre
      <4> QED
        BY <1>1, <2>3, <3>1, <3>3, <3>7, <4>1
    <3>8. \A x \in Nodes : x \notin ToSet(s) => g.next[x] = m.next[x] /\ g.prev[x] = m.prev[x]
      <4>1. \E i, j \in 1 .. n : s[i] = pre /\ s[j] = post
        BY <1>1 DEF pre, post
      <4> QED
        BY <1>1, <2>3, <4>1
    <3>9. g.head[l] = IF k # 1 THEN m.head[l] ELSE s[2]
      BY <2>3, <3>1 DEF post
    <3> QED
      BY <1>5, <2>3, <3>4, <3>5, <3>6, <3>7, <3>8, <3>9 DEF Removed, pre, post
  <2> QED
    BY <2>4 DEF s, g, e
<1> QED
  BY <1>4, <1>5

LEMMA QRemoveIs ==
  ASSUME kind = "Q", NEW m, NEW seqs, AreLists(m, seqs), NEW l \in Lists, NEW k \in 1 .. Len(seqs[l])
  PROVE  Removed(m, QRemove(m, l, seqs[l][k]), l, seqs[l], k)
<1> DEFINE s == seqs[l]
           n == Len(s)
           e == s[k]
           g == QRemove(m, l, e)
           pre == IF 1 < k THEN s[k - 1] ELSE Nil
           post == IF k < n THEN s[k + 1] ELSE Nil
<1>1. /\ m \in ListMem /\ s \in Seq(Nodes) /\ n \in Nat /\ k \in 1 .. n
      /\ \A i \in 1 .. n : s[i] \in Nodes /\ s[i] # Nil
      /\ \A i, j \in 1 .. n : s[i] = s[j] => i = j
      /\ 1 \in 1 .. n /\ n \in 1 .. n /\ m.head[l] = s[1]
      /\ 1 < k => k - 1 \in 1 .. n
      /\ k < n => k + 1 \in 1 .. n
      /\ k = 1 \/ 1 < k
      /\ k = n \/ k < n
      /\ \A x \in Nodes : x \notin ToSet(s) => \A i \in 1 .. n : x # s[i]
  BY KthFacts
<1>2. m.next[e] = post
  BY ListFacts
<1>3. m.prev[e] = pre
  BY ListFacts
<1> HIDE DEF s
<1>4. /\ pre \in Refs /\ post \in Refs /\ (pre = Nil <=> ~(1 < k)) /\ (post = Nil <=> ~(k < n))
      /\ pre # Nil => pre \in Nodes
      /\ post # Nil => post \in Nodes
  BY <1>1 DEF Refs
<1> HIDE DEF e, pre, post
<1>5. /\ g \in ListMem
      /\ \A j \in Lists : g.head[j] = IF j = l /\ ~(1 < k) THEN post ELSE m.head[j]
      /\ \A j \in Lists : g.tail[j] = IF j = l /\ ~(k < n) THEN pre ELSE m.tail[j]
      /\ \A x \in Nodes : g.next[x] = IF 1 < k /\ x = pre THEN post ELSE m.next[x]
      /\ \A x \in Nodes : g.prev[x] = IF k < n /\ x = post THEN pre ELSE m.prev[x]
  <2>1. CASE 1 < k /\ k < n
    BY <1>1, <1>2, <1>3, <1>4, <2>1 DEF QRemove, ListMem
  <2>2. CASE 1 < k /\ ~(k < n)
    BY <1>1, <1>2, <1>3, <1>4, <2>2 DEF QRemove, ListMem
  <2>3. CASE ~(1 < k) /\ k < n
    BY <1>1, <1>2, <1>3, <1>4, <2>3 DEF QRemove, ListMem
  <2>4. CASE ~(1 < k) /\ ~(k < n)
    BY <1>1, <1>2, <1>3, <1>4, <2>4 DEF QRemove, ListMem
  <2> QED
    BY <2>1, <2>2, <2>3, <2>4
<1> HIDE DEF g
<1>6. Removed(m, g, l, s, k)
  <2>1. (1 < k <=> k # 1) /\ (k < n <=> k # n) /\ (n # 1 => 1 + 1 = 2) /\ (n = 1 => k = 1 /\ k = n)
    BY <1>1, Bounds
  <2>2. 1 < k => g.next[s[k - 1]] = IF k < n THEN s[k + 1] ELSE Nil
    BY <1>1, <1>5 DEF pre, post
  <2>3. \A i \in 1 .. n : i # k /\ i # k - 1 => g.next[s[i]] = m.next[s[i]]
    BY <1>1, <1>5 DEF pre
  <2>4. k < n => g.prev[s[k + 1]] = IF 1 < k THEN s[k - 1] ELSE Nil
    BY <1>1, <1>5 DEF pre, post
  <2>5. \A i \in 1 .. n : i # k /\ i # k + 1 => g.prev[s[i]] = m.prev[s[i]]
    BY <1>1, <1>5 DEF post
  <2>6. \A x \in Nodes : x \notin ToSet(s) => g.next[x] = m.next[x] /\ g.prev[x] = m.prev[x]
    BY <1>1, <1>5 DEF pre, post
  <2>7. g.head[l] = IF k # 1 THEN m.head[l] ELSE IF n = 1 THEN Nil ELSE s[2]
    BY <1>5, <2>1 DEF post
  <2>8. g.tail[l] = IF k # n THEN m.tail[l] ELSE IF n = 1 THEN Nil ELSE s[n - 1]
    BY <1>5, <2>1 DEF pre
  <2>9. \A j \in Lists \ {l} : g.head[j] = m.head[j] /\ g.tail[j] = m.tail[j]
    BY <1>5
  <2> QED
    BY <1>5, <2>2, <2>3, <2>4, <2>5, <2>6, <2>7, <2>8, <2>9 DEF Removed
<1> QED
  BY <1>6 DEF s, g, e

\* Of any kind; the links of what is deleted are forgotten.
LEMMA DeletedIs ==
  ASSUME kind \in {"LL", "DL", "CDL", "Q"}, NEW m, NEW seqs, AreLists(m, seqs), NEW l \in Lists,
         NEW k \in 1 .. Len(seqs[l])
  PROVE  AreLists(Deleted(m, l, seqs[l][k]), [seqs EXCEPT ![l] = Cut(seqs[l], k)])
<1> DEFINE s == seqs[l]
           n == Len(s)
           e == s[k]
           g == CASE kind = "LL" -> LLDelete(m, l, e)   [] kind = "DL" -> DLDelete(m, l, e)
                  [] kind = "CDL" -> CDLDelete(m, l, e) [] kind = "Q" -> QRemove(m, l, e)
           d == Deleted(m, l, e)
<1>1. Removed(m, g, l, s, k)
  <2>1. CASE kind = "LL"
    BY <2>1, LLDeleteIs
  <2>2. CASE kind = "DL"
    BY <2>2, DLDeleteIs
  <2>3. CASE kind = "CDL"
    BY <2>3, CDLDeleteIs
  <2>4. CASE kind = "Q"
    BY <2>4, QRemoveIs
  <2> QED
    BY <2>1, <2>2, <2>3, <2>4
<1>2. d = Forget(g, e)
  BY DEF Deleted
<1>3. /\ s \in Seq(Nodes) /\ n \in Nat /\ k \in 1 .. n
      /\ \A i \in 1 .. n : s[i] \in Nodes
      /\ \A i, j \in 1 .. n : s[i] = s[j] => i = j
      /\ 1 < k => k - 1 \in 1 .. n
      /\ k < n => k + 1 \in 1 .. n
      /\ \A x \in Nodes : x \notin ToSet(s) => \A i \in 1 .. n : x # s[i]
  BY KthFacts
<1> HIDE DEF s, g, d
<1>4. g \in ListMem
  BY <1>1 DEF Removed
<1>5. /\ d \in ListMem /\ d.head = g.head /\ d.tail = g.tail
      /\ \A x \in Nodes : x # e => d.next[x] = g.next[x] /\ d.prev[x] = g.prev[x]
  BY <1>2, <1>3, <1>4 DEF Forget, ListMem, Refs
<1>6. \A i \in 1 .. n : i # k => s[i] # e
  BY <1>3
<1>7. Removed(m, d, l, s, k)
  BY <1>1, <1>3, <1>5, <1>6 DEF Removed
<1> QED
  BY <1>7, RemovedIs DEF d, s


-----------------------------------------------------------------------------
(* Concatenation                                                            *)

LEMMA ConcatDistinct ==
  ASSUME NEW E, NEW s \in Seq(E), NEW u \in Seq(E), Distinct(s), Distinct(u), ToSet(s) \cap ToSet(u) = {}
  PROVE  /\ s \o u \in Seq(E) /\ Len(s \o u) = Len(s) + Len(u)
         /\ \A i \in 1 .. Len(s) + Len(u) : (s \o u)[i] = IF i <= Len(s) THEN s[i] ELSE u[i - Len(s)]
         /\ Distinct(s \o u) /\ ToSet(s \o u) = ToSet(s) \cup ToSet(u)
<1> DEFINE t == s \o u
           n == Len(s)
           p == Len(u)
<1>1. n \in Nat /\ p \in Nat
  BY LenProperties
<1>2. t \in Seq(E) /\ Len(t) = n + p /\ \A i \in 1 .. n + p : t[i] = IF i <= n THEN s[i] ELSE u[i - n]
  BY ConcatProperties
<1>3. \A x : x \in ToSet(s) <=> \E i \in 1 .. n : s[i] = x
  BY ElementsOf
<1>4. \A x : x \in ToSet(u) <=> \E i \in 1 .. p : u[i] = x
  BY ElementsOf
<1> HIDE DEF t
<1>5. \A x : x \in ToSet(t) <=> \E i \in 1 .. n + p : t[i] = x
  BY <1>2, ElementsOf
<1> HIDE DEF n, p
<1>6. \A i \in 1 .. n + p : (i <= n => i \in 1 .. n) /\ (~(i <= n) => i - n \in 1 .. p)
  BY <1>1
<1>7. \A i \in 1 .. n : i \in 1 .. n + p /\ i <= n
  BY <1>1
<1>8. \A i \in 1 .. p : n + i \in 1 .. n + p /\ ~(n + i <= n) /\ (n + i) - n = i
  BY <1>1
<1>9. \A x : x \in ToSet(t) <=> x \in ToSet(s) \/ x \in ToSet(u)
  <2>1. ASSUME NEW x \in ToSet(t) PROVE x \in ToSet(s) \/ x \in ToSet(u)
    BY <1>2, <1>3, <1>4, <1>5, <1>6
  <2>2. ASSUME NEW x \in ToSet(s) PROVE x \in ToSet(t)
    BY <1>2, <1>3, <1>5, <1>7
  <2>3. ASSUME NEW x \in ToSet(u) PROVE x \in ToSet(t)
    <3>1. PICK i \in 1 .. p : u[i] = x
      BY <1>4
    <3>2. t[n + i] = u[i]
      BY <1>2, <1>8
    <3> QED
      BY <1>5, <1>8, <3>1, <3>2
  <2> QED
    BY <2>1, <2>2, <2>3
<1>10. Distinct(t)
  <2> SUFFICES ASSUME NEW i \in 1 .. n + p, NEW j \in 1 .. n + p, t[i] = t[j] PROVE i = j
    BY <1>2 DEF Distinct
  <2>1. CASE i <= n /\ j <= n
    BY <1>2, <1>6, <2>1 DEF Distinct, n
  <2>2. CASE ~(i <= n) /\ ~(j <= n)
    <3>1. i - n = j - n
      BY <1>2, <1>6, <2>2 DEF Distinct, p
    <3> QED
      BY <1>1, <3>1
  <2>3. CASE i <= n /\ ~(j <= n)
    BY <1>2, <1>3, <1>4, <1>6, <2>3
  <2>4. CASE ~(i <= n) /\ j <= n
    BY <1>2, <1>3, <1>4, <1>6, <2>4
  <2> QED
    BY <2>1, <2>2, <2>3, <2>4
<1>11. ToSet(t) = ToSet(s) \cup ToSet(u)
  BY <1>9
<1> QED
  BY <1>2, <1>10, <1>11 DEF t, n, p

\* What a concatenation of l, which is s, and k, which is u, has to do.
Joined(m, g, l, k, s, u) ==
  LET n == Len(s)
      p == Len(u) IN
  /\ g \in ListMem /\ g.tail = m.tail
  /\ \A j \in Lists : g.head[j] = IF j = k THEN Nil ELSE IF j = l /\ n = 0 THEN m.head[k] ELSE m.head[j]
  /\ \A x \in Nodes : g.next[x] = IF n # 0 /\ x = s[n] THEN HeadIn(u) ELSE m.next[x]
  /\ kind # "LL" =>
       \A x \in Nodes : g.prev[x] = IF n # 0 /\ p # 0 /\ x = u[1] THEN s[n]
                                    ELSE IF n # 0 /\ p # 0 /\ x = s[1] THEN u[p] ELSE m.prev[x]

LEMMA JoinedIs ==
  ASSUME kind \in {"LL", "DL"}, NEW m, NEW seqs, AreLists(m, seqs), NEW l \in Lists, NEW k \in Lists, l # k,
         NEW g, Joined(m, g, l, k, seqs[l], seqs[k])
  PROVE  AreLists(g, [seqs EXCEPT ![l] = seqs[l] \o seqs[k], ![k] = << >>])
<1> DEFINE s == seqs[l]
           u == seqs[k]
           n == Len(s)
           p == Len(u)
           t == s \o u
           new == [seqs EXCEPT ![l] = t, ![k] = << >>]
<1>1. /\ s \in Seq(Nodes) /\ Distinct(s) /\ n \in Nat
      /\ \A i \in 1 .. n : s[i] \in Nodes /\ s[i] \in ToSet(s)
      /\ (s = << >> <=> n = 0) /\ (n # 0 => m.head[l] = s[1])
      /\ \A i, j \in 1 .. n : s[i] = s[j] => i = j
  <2>1. /\ s \in Seq(Nodes) /\ Distinct(s) /\ n \in Nat
        /\ \A i \in 1 .. n : s[i] \in Nodes /\ s[i] \in ToSet(s)
        /\ (s = << >> <=> n = 0) /\ (n # 0 => m.head[l] = s[1])
    BY ListFacts
  <2> QED
    BY <2>1 DEF Distinct
<1>2. /\ u \in Seq(Nodes) /\ Distinct(u) /\ p \in Nat
      /\ \A i \in 1 .. p : u[i] \in Nodes /\ u[i] \in ToSet(u)
      /\ (u = << >> <=> p = 0) /\ (p # 0 => m.head[k] = u[1]) /\ (m.head[k] = Nil <=> p = 0)
      /\ \A i, j \in 1 .. p : u[i] = u[j] => i = j
  <2>1. /\ u \in Seq(Nodes) /\ Distinct(u) /\ p \in Nat
        /\ \A i \in 1 .. p : u[i] \in Nodes /\ u[i] \in ToSet(u)
        /\ (u = << >> <=> p = 0) /\ (p # 0 => m.head[k] = u[1]) /\ (m.head[k] = Nil <=> p = 0)
    BY ListFacts
  <2> QED
    BY <2>1 DEF Distinct
<1>3. ToSet(s) \cap ToSet(u) = {}
  BY DEF AreLists
<1>4. \A i \in 1 .. n : m.next[s[i]] = IF i < n THEN s[i + 1] ELSE Nil
  BY ListFacts
<1>5. \A i \in 1 .. p : m.next[u[i]] = IF i < p THEN u[i + 1] ELSE Nil
  BY ListFacts
<1>6. kind = "DL" => /\ \A i \in 1 .. n : m.prev[s[i]] = IF 1 < i THEN s[i - 1] ELSE s[n]
                     /\ \A i \in 1 .. p : m.prev[u[i]] = IF 1 < i THEN u[i - 1] ELSE u[p]
  BY ListFacts
<1>7. Joined(m, g, l, k, s, u) /\ seqs \in [Lists -> Seq(Nodes)]
  BY DEF AreLists
<1>8. new \in [Lists -> Seq(Nodes)] /\ new[l] = t /\ new[k] = << >>
      /\ \A j \in Lists : j # l /\ j # k => new[j] = seqs[j]
  <2>1. t \in Seq(Nodes)
    BY <1>1, <1>2, ConcatProperties
  <2> HIDE DEF t
  <2> QED
    BY <1>7, <2>1
<1> HIDE DEF s, u, new
<1>9. /\ t \in Seq(Nodes) /\ Len(t) = n + p /\ Distinct(t) /\ ToSet(t) = ToSet(s) \cup ToSet(u)
      /\ \A i \in 1 .. n + p : t[i] = IF i <= n THEN s[i] ELSE u[i - n]
  BY <1>1, <1>2, <1>3, ConcatDistinct
<1> HIDE DEF t
<1>10. t = << >> <=> n + p = 0
  BY <1>9, EmptySeq
<1>11. HeadIn(t) = IF n # 0 THEN s[1] ELSE HeadIn(u)
  <2>1. n # 0 => n + p # 0 /\ 1 \in 1 .. n + p /\ 1 <= n
    BY <1>1, <1>2
  <2>2. n = 0 /\ p # 0 => n + p # 0 /\ 1 \in 1 .. n + p /\ ~(1 <= n) /\ 1 - n = 1
    BY <1>1, <1>2
  <2>3. n = 0 /\ p = 0 => n + p = 0
    OBVIOUS
  <2> QED
    BY <1>2, <1>9, <1>10, <2>1, <2>2, <2>3 DEF HeadIn
<1>12. n + p # 0 => EndIn(t) = IF p # 0 THEN u[p] ELSE s[n]
  <2>1. p # 0 => n + p # 0 /\ n + p \in 1 .. n + p /\ ~(n + p <= n) /\ (n + p) - n = p
    BY <1>1, <1>2
  <2>2. p = 0 /\ n # 0 => n + p # 0 /\ n + p = n /\ n + p \in 1 .. n + p /\ n <= n
    BY <1>1, <1>2
  <2> QED
    BY <1>9, <1>10, <2>1, <2>2 DEF EndIn
<1>13. Forwards(g.next, t, Closing(t))
  <2>1. Closing(t) = Nil
    BY DEF Closing
  <2>2. ASSUME NEW i \in 1 .. n + p PROVE g.next[t[i]] = IF i < n + p THEN t[i + 1] ELSE Nil
    <3>1. CASE i < n
      <4>1. i \in 1 .. n /\ i <= n /\ i # n /\ n \in 1 .. n /\ n # 0 /\ i < n + p /\ i + 1 \in 1 .. n + p /\ i + 1 <= n
        BY <1>1, <1>2, <3>1
      <4>2. t[i] = s[i] /\ t[i + 1] = s[i + 1] /\ s[i] # s[n] /\ s[i] \in Nodes
        BY <1>1, <1>9, <4>1
      <4>3. g.next[s[i]] = m.next[s[i]]
        BY <1>7, <4>2 DEF Joined
      <4> QED
        BY <1>4, <3>1, <4>1, <4>2, <4>3
    <3>2. CASE i = n
      <4>1. n \in 1 .. n /\ n # 0 /\ i <= n
        BY <1>1, <3>2
      <4>2. t[i] = s[n] /\ s[n] \in Nodes
        BY <1>1, <1>9, <3>2, <4>1
      <4>3. g.next[s[n]] = HeadIn(u)
        BY <1>7, <4>1, <4>2 DEF Joined
      <4>4. CASE p = 0
        <5>1. ~(i < n + p)
          BY <1>1, <3>2, <4>4
        <5> QED
          BY <1>2, <4>2, <4>3, <4>4, <5>1 DEF HeadIn
      <4>5. CASE p # 0
        <5>1. i < n + p /\ i + 1 \in 1 .. n + p /\ ~(i + 1 <= n) /\ (i + 1) - n = 1
          BY <1>1, <1>2, <3>2, <4>5
        <5>2. t[i + 1] = u[1]
          BY <1>9, <5>1
        <5> QED
          BY <1>2, <4>2, <4>3, <4>5, <5>1, <5>2 DEF HeadIn
      <4> QED
        BY <4>4, <4>5
    <3>3. CASE i > n
      <4>1. i - n \in 1 .. p /\ ~(i <= n) /\ (i < n + p <=> i - n < p)
            /\ (i < n + p => i + 1 \in 1 .. n + p /\ ~(i + 1 <= n) /\ (i + 1) - n = (i - n) + 1)
        BY <1>1, <1>2, <3>3
      <4>2. t[i] = u[i - n] /\ (i < n + p => t[i + 1] = u[(i - n) + 1])
        BY <1>9, <4>1
      <4>3. n # 0 => s[n] \in ToSet(s)
        BY <1>1
      <4>4. u[i - n] \in Nodes /\ (n # 0 => u[i - n] # s[n])
        BY <1>2, <1>3, <4>1, <4>3
      <4>5. g.next[u[i - n]] = m.next[u[i - n]]
        BY <1>7, <4>4 DEF Joined
      <4> QED
        BY <1>5, <4>1, <4>2, <4>5
    <3> QED
      BY <1>1, <3>1, <3>2, <3>3
  <2> QED
    BY <1>9, <2>1, <2>2 DEF Forwards
<1>14. ASSUME kind # "LL" PROVE Backwards(g.prev, t, Ahead(t))
  <2>1. n + p # 0 => Ahead(t) = IF p # 0 THEN u[p] ELSE s[n]
    BY <1>12 DEF Ahead
  <2>2. ASSUME NEW i \in 1 .. n + p PROVE g.prev[t[i]] = IF 1 < i THEN t[i - 1] ELSE Ahead(t)
    <3>1. n + p # 0
      BY <1>1, <1>2
    <3>2. \A x \in Nodes : g.prev[x] = IF n # 0 /\ p # 0 /\ x = u[1] THEN s[n]
                                       ELSE IF n # 0 /\ p # 0 /\ x = s[1] THEN u[p] ELSE m.prev[x]
      BY <1>7, <1>14 DEF Joined
    <3>3. p # 0 => u[1] \in ToSet(u)
      BY <1>2
    <3>4. CASE i <= n
      <4>1. i \in 1 .. n /\ n # 0 /\ 1 \in 1 .. n /\ (i = 1 <=> ~(1 < i))
            /\ (1 < i => i - 1 \in 1 .. n + p /\ i - 1 <= n)
        BY <1>1, <1>2, <3>4
      <4>2. t[i] = s[i] /\ (1 < i => t[i - 1] = s[i - 1])
        BY <1>9, <3>4, <4>1
      <4>3. s[i] \in Nodes /\ (p # 0 => s[i] # u[1]) /\ (s[i] = s[1] <=> i = 1)
        BY <1>1, <1>3, <3>3, <4>1
      <4>4. g.prev[s[i]] = IF p # 0 /\ i = 1 THEN u[p] ELSE m.prev[s[i]]
        BY <3>2, <4>1, <4>3
      <4>5. m.prev[s[i]] = IF 1 < i THEN s[i - 1] ELSE s[n]
        BY <1>6, <1>14, <4>1
      <4> HIDE DEF n, p
      <4> QED
        BY <2>1, <3>1, <4>1, <4>2, <4>4, <4>5
    <3>5. CASE i > n
      <4>1. i - n \in 1 .. p /\ 1 \in 1 .. p /\ p # 0 /\ ~(i <= n)
        BY <1>1, <1>2, <3>5
      <4>2. t[i] = u[i - n] /\ u[i - n] \in Nodes
        BY <1>2, <1>9, <4>1
      <4>3. n # 0 => s[1] \in ToSet(s) /\ n \in 1 .. n + p /\ n <= n
        BY <1>1, <1>2
      <4>4. (n # 0 => u[i - n] # s[1]) /\ (u[i - n] = u[1] <=> i - n = 1)
        BY <1>2, <1>3, <4>1, <4>3
      <4>5. g.prev[u[i - n]] = IF n # 0 /\ i - n = 1 THEN s[n] ELSE m.prev[u[i - n]]
        BY <3>2, <4>1, <4>2, <4>4
      <4>6. m.prev[u[i - n]] = IF 1 < i - n THEN u[(i - n) - 1] ELSE u[p]
        BY <1>6, <1>14, <4>1
      <4>7. CASE i - n = 1 /\ n # 0
        <5>1. 1 < i /\ i - 1 = n
          BY <1>1, <4>7
        <5>2. t[n] = s[n]
          BY <1>9, <4>3, <4>7
        <5> QED
          BY <4>2, <4>5, <4>7, <5>1, <5>2
      <4>8. CASE i - n = 1 /\ n = 0
        <5>1. ~(1 < i) /\ ~(1 < i - n)
          BY <1>1, <4>8
        <5> QED
          BY <2>1, <3>1, <4>1, <4>2, <4>5, <4>6, <4>8, <5>1
      <4>9. CASE i - n # 1
        <5>1. 1 < i - n /\ 1 < i /\ i - 1 \in 1 .. n + p /\ ~(i - 1 <= n) /\ (i - 1) - n = (i - n) - 1
          BY <1>1, <4>1, <4>9
        <5>2. t[i - 1] = u[(i - n) - 1]
          BY <1>9, <5>1
        <5> QED
          BY <4>2, <4>5, <4>6, <4>9, <5>1, <5>2
      <4> QED
        BY <4>7, <4>8, <4>9
    <3> QED
      BY <1>1, <3>4, <3>5
  <2> QED
    BY <1>9, <2>2 DEF Backwards
<1>15. IsList(g, l, t)
  <2>1. g.head[l] = IF n = 0 THEN m.head[k] ELSE m.head[l]
    BY <1>7 DEF Joined
  <2>2. g.head[l] = HeadIn(t)
    BY <1>1, <1>2, <1>11, <2>1 DEF HeadIn
  <2> QED
    BY <1>9, <1>13, <1>14, <2>2 DEF IsList
<1>16. IsList(g, k, << >>)
  <2>1. << >> \in Seq(Nodes) /\ Len(<< >>) = 0
    BY EmptySeq
  <2>2. g.head[k] = Nil
    BY <1>7 DEF Joined
  <2> QED
    BY <2>1, <2>2 DEF IsList, Distinct, HeadIn, Forwards, Backwards
<1>17. \A x \in Nodes : x \notin ToSet(s) /\ x \notin ToSet(u)
         => g.next[x] = m.next[x] /\ (kind # "LL" => g.prev[x] = m.prev[x])
  <2> SUFFICES ASSUME NEW x \in Nodes, x \notin ToSet(s), x \notin ToSet(u)
               PROVE  g.next[x] = m.next[x] /\ (kind # "LL" => g.prev[x] = m.prev[x])
    OBVIOUS
  <2>1. n # 0 => x # s[n] /\ x # s[1]
    BY <1>1
  <2>2. p # 0 => x # u[1]
    BY <1>2
  <2> QED
    BY <1>7, <2>1, <2>2 DEF Joined
<1>18. ASSUME NEW j \in Lists PROVE IsList(g, j, new[j])
  <2>1. CASE j = l
    BY <1>8, <1>15, <2>1
  <2>2. CASE j = k
    BY <1>8, <1>16, <2>2
  <2>3. CASE j # l /\ j # k
    <3>1. IsList(m, j, seqs[j]) /\ seqs[j] \in Seq(Nodes)
      BY DEF AreLists
    <3>2. \A x \in ToSet(seqs[j]) : x \in Nodes /\ x \notin ToSet(s) /\ x \notin ToSet(u)
      <4>1. ToSet(seqs[j]) \subseteq Nodes
        BY <3>1, ElementsOf
      <4> QED
        BY <2>3, <4>1 DEF AreLists, s, u
    <3>3. g.head[j] = m.head[j] /\ g.tail[j] = m.tail[j]
      BY <1>7, <2>3 DEF Joined
    <3>4. IsList(g, j, seqs[j])
      BY <1>17, <3>1, <3>2, <3>3, ListFrame
    <3> QED
      BY <1>8, <2>3, <3>4
  <2> QED
    BY <2>1, <2>2, <2>3
<1>19. ASSUME NEW i \in Lists, NEW j \in Lists, i # j PROVE ToSet(new[i]) \cap ToSet(new[j]) = {}
  <2>1. ToSet(<< >>) = {}
    BY DEF ToSet
  <2>2. \A h \in Lists : h # l /\ h # k => ToSet(seqs[h]) \cap ToSet(t) = {}
    BY <1>9 DEF AreLists, s, u
  <2>3. CASE i = k \/ j = k
    BY <1>8, <2>1, <2>3
  <2>4. CASE i = l /\ j # k
    BY <1>8, <1>19, <2>2, <2>4
  <2>5. CASE j = l /\ i # k
    BY <1>8, <1>19, <2>2, <2>5
  <2>6. CASE i # l /\ j # l /\ i # k /\ j # k
    BY <1>8, <1>19, <2>6 DEF AreLists
  <2> QED
    BY <2>3, <2>4, <2>5, <2>6
<1>20. AreLists(g, new)
  BY <1>7, <1>8, <1>18, <1>19 DEF AreLists, Joined
<1> QED
  BY <1>20 DEF new, t, s, u

LEMMA ConcatenatedIs ==
  ASSUME kind \in {"LL", "DL"}, NEW m, NEW seqs, AreLists(m, seqs), NEW l \in Lists, NEW k \in Lists, l # k
  PROVE  AreLists(Concatenated(m, l, k), [seqs EXCEPT ![l] = seqs[l] \o seqs[k], ![k] = << >>])
<1> DEFINE s == seqs[l]
           u == seqs[k]
           n == Len(s)
           p == Len(u)
           g == Concatenated(m, l, k)
           hu == HeadIn(u)
<1>1. /\ s \in Seq(Nodes) /\ n \in Nat
      /\ \A i \in 1 .. n : s[i] \in Nodes /\ s[i] # Nil /\ s[i] \in ToSet(s)
      /\ m.head[l] = Nil <=> n = 0
      /\ n # 0 => m.head[l] = s[1]
  BY ListFacts
<1>2. /\ u \in Seq(Nodes) /\ p \in Nat
      /\ \A i \in 1 .. p : u[i] \in Nodes /\ u[i] # Nil /\ u[i] \in ToSet(u)
      /\ u = << >> <=> p = 0
      /\ m.head[k] = Nil <=> p = 0
      /\ p # 0 => m.head[k] = u[1]
  BY ListFacts
<1>3. m.head[k] = hu /\ hu \in Refs
  BY <1>2 DEF HeadIn, Refs
<1>4. kind = "DL" => (n # 0 => m.prev[s[1]] = s[n]) /\ (p # 0 => m.prev[u[1]] = u[p])
  <2>1. n # 0 => 1 \in 1 .. n /\ ~(1 < 1)
    BY <1>1
  <2>2. p # 0 => 1 \in 1 .. p /\ ~(1 < 1)
    BY <1>2
  <2> QED
    BY <2>1, <2>2, ListFacts
<1>5. LastOf(m, l) = s[n]
  <2>1. Forward(m, l) = s
    BY ListsRead
  <2> HIDE DEF s
  <2> QED
    BY <2>1 DEF LastOf, Last
<1>6. m \in ListMem
  BY DEF AreLists
<1>7. n # 0 => s[n] \in Nodes /\ s[1] \in Nodes
  BY <1>1
<1>8. p # 0 => u[p] \in Nodes /\ u[1] \in Nodes
  BY <1>2
<1>9. n # 0 /\ p # 0 => s[1] # u[1]
  <2>1. ToSet(s) \cap ToSet(u) = {}
    BY DEF AreLists
  <2>2. n # 0 => s[1] \in ToSet(s)
    BY <1>1
  <2>3. p # 0 => u[1] \in ToSet(u)
    BY <1>2
  <2> QED
    BY <2>1, <2>2, <2>3
<1>10. n # 0 /\ p = 0 => m.next[s[n]] = Nil
  <2>1. n # 0 => n \in 1 .. n /\ ~(n < n)
    BY <1>1
  <2> QED
    BY <2>1, ListFacts
<1>11. p = 0 => hu = Nil
  BY <1>2 DEF HeadIn
<1> HIDE DEF s, u, n, p, hu
<1>12. /\ g \in ListMem /\ g.tail = m.tail
       /\ \A j \in Lists : g.head[j] = IF j = k THEN Nil ELSE IF j = l /\ n = 0 THEN m.head[k] ELSE m.head[j]
       /\ \A x \in Nodes : g.next[x] = IF n # 0 /\ x = s[n] THEN hu ELSE m.next[x]
       /\ kind # "LL" =>
            \A x \in Nodes : g.prev[x] = IF n # 0 /\ p # 0 /\ x = u[1] THEN s[n]
                                         ELSE IF n # 0 /\ p # 0 /\ x = s[1] THEN u[p] ELSE m.prev[x]
  <2>1. CASE kind = "LL" /\ n = 0
    <3>1. g = [[m EXCEPT !.head[l] = hu] EXCEPT !.head[k] = Nil]
      BY <1>1, <1>3, <2>1 DEF Concatenated, LLConcat
    <3> HIDE DEF g
    <3> QED
      BY <1>3, <1>6, <2>1, <3>1 DEF ListMem, Refs
  <2>2. CASE kind = "LL" /\ n # 0
    <3>1. g = [[m EXCEPT !.next[s[n]] = hu] EXCEPT !.head[k] = Nil]
      BY <1>1, <1>3, <1>5, <2>2 DEF Concatenated, LLConcat
    <3> HIDE DEF g
    <3> QED
      BY <1>3, <1>6, <1>7, <2>2, <3>1 DEF ListMem, Refs
  <2>3. CASE kind = "DL" /\ p = 0
    <3>1. g = [m EXCEPT !.head[k] = Nil]
      BY <1>2, <1>3, <2>3 DEF Concatenated, DLConcat
    <3>2. m.head[k] = Nil
      BY <1>2, <2>3
    <3> HIDE DEF g
    <3> QED
      BY <1>1, <1>3, <1>6, <1>10, <1>11, <2>3, <3>1, <3>2 DEF ListMem, Refs
  <2>4. CASE kind = "DL" /\ p # 0 /\ n = 0
    <3>1. g = [[m EXCEPT !.head[l] = hu] EXCEPT !.head[k] = Nil]
      BY <1>1, <1>2, <1>3, <2>4 DEF Concatenated, DLConcat
    <3> HIDE DEF g
    <3> QED
      BY <1>3, <1>6, <2>4, <3>1 DEF ListMem, Refs
  <2>5. CASE kind = "DL" /\ p # 0 /\ n # 0
    <3>1. m.head[l] = s[1] /\ m.head[k] = u[1] /\ hu = u[1] /\ m.prev[s[1]] = s[n] /\ m.prev[u[1]] = u[p]
      BY <1>1, <1>2, <1>3, <1>4, <2>5
    <3>2. g = [[m EXCEPT !.next[s[n]] = u[1], !.prev = [@ EXCEPT ![u[1]] = s[n], ![s[1]] = u[p]]]
                 EXCEPT !.head[k] = Nil]
      BY <1>1, <1>2, <2>5, <3>1 DEF Concatenated, DLConcat
    <3> HIDE DEF g
    <3> QED
      BY <1>6, <1>7, <1>8, <1>9, <2>5, <3>1, <3>2 DEF ListMem, Refs
  <2> QED
    BY <2>1, <2>2, <2>3, <2>4, <2>5
<1> HIDE DEF g
<1>13. Joined(m, g, l, k, s, u)
  BY <1>12 DEF Joined, n, p, hu
<1> QED
  BY <1>13, JoinedIs DEF g, s, u


-----------------------------------------------------------------------------
(* Sorting                                                                  *)

LEMMA SortedIs ==
  ASSUME kind # "Q", NEW m, NEW seqs, AreLists(m, seqs), NEW l \in Lists
  PROVE  LET t == MergeSorted(seqs[l])
         IN  AreLists(Sorted(m, l), [seqs EXCEPT ![l] = t]) /\ StablySorted(seqs[l], t)
<1> DEFINE s == seqs[l]
           t == MergeSorted(s)
           n == Len(t)
           g == Sorted(m, l)
           At(e) == CHOOSE i \in DOMAIN t : t[i] = e
           Next(e) == IF At(e) < Len(t) THEN t[At(e) + 1] ELSE IF kind = "CDL" THEN Head(t) ELSE Nil
           Prev(e) == IF kind = "LL" THEN Nil ELSE t[IF At(e) > 1 THEN At(e) - 1 ELSE Len(t)]
           X == [e \in Nodes |-> IF Contains(t, e) THEN Next(e) ELSE m.next[e]]
           Y == [e \in Nodes |-> IF Contains(t, e) THEN Prev(e) ELSE m.prev[e]]
           q == [m EXCEPT !.head[l] = Head(t), !.next = X, !.prev = Y]
<1>1. s \in Seq(Nodes) /\ Distinct(s) /\ Len(s) \in Nat
  BY ListFacts
<1>2. t \in Seq(Nodes) /\ n = Len(s) /\ Distinct(t) /\ ToSet(t) = ToSet(s) /\ StablySorted(s, t)
  <2>1. Ranked(Nodes)
    BY ListAssumption DEF Ranked
  <2> HIDE DEF s
  <2> QED
    BY <1>1, <2>1, MergeSortedIs
<1>3. g = IF t = << >> THEN m ELSE q
  <2>1. Forward(m, l) = s
    BY ListsRead
  <2> QED
    BY <2>1 DEF Sorted
<1>4. m \in ListMem /\ seqs \in [Lists -> Seq(Nodes)] /\ \A k \in Lists \ {l} : ToSet(seqs[k]) \cap ToSet(s) = {}
  BY DEF AreLists
<1> HIDE DEF t, g
<1>5. CASE t = << >>
  <2>1. s = << >>
    <3> HIDE DEF s
    <3> QED
      BY <1>1, <1>2, <1>5, ElementsOf
  <2>2. [seqs EXCEPT ![l] = t] = seqs
    BY <1>4, <1>5, <2>1
  <2> QED
    BY <1>2, <1>3, <1>5, <2>2 DEF t, g
<1>6. CASE t # << >>
  <2> HIDE DEF s
  <2>1. n \in Nat /\ n # 0 /\ DOMAIN t = 1 .. n /\ 1 \in 1 .. n /\ n \in 1 .. n
    BY <1>2, <1>6, EmptySeq, LenProperties
  <2>2. Head(t) = t[1] /\ \A i \in 1 .. n : t[i] \in Nodes
    BY <1>2, <1>6, HeadTailProperties, ElementOfSeq
  <2>3. ASSUME NEW i \in 1 .. n PROVE At(t[i]) = i /\ Contains(t, t[i])
    <3>1. \A j \in DOMAIN t : t[j] = t[i] <=> j = i
      BY <1>2, <2>1 DEF Distinct
    <3>2. At(t[i]) = i
      BY <2>1, <3>1
    <3>3. Contains(t, t[i])
      BY DEF Contains
    <3> QED
      BY <3>2, <3>3
  <2>4. ASSUME NEW e \in Nodes PROVE Contains(t, e) <=> \E i \in 1 .. n : e = t[i]
    BY <2>1 DEF Contains
  <2>5. ASSUME NEW e \in Nodes PROVE Contains(t, e) <=> e \in ToSet(t)
    BY <1>2, <2>4, ElementsOf
  <2> HIDE DEF At, n
  <2>6. ASSUME NEW i \in 1 .. n
        PROVE  /\ Next(t[i]) = IF i < n THEN t[i + 1] ELSE IF kind = "CDL" THEN t[1] ELSE Nil
               /\ Prev(t[i]) = IF kind = "LL" THEN Nil ELSE IF 1 < i THEN t[i - 1] ELSE t[n]
    <3>1. At(t[i]) = i
      BY <2>3
    <3> QED
      BY <2>1, <2>2, <3>1 DEF n
  <2>7. \A i \in 1 .. n : (i < n => i + 1 \in 1 .. n) /\ (1 < i => i - 1 \in 1 .. n)
    BY <2>1
  <2> HIDE DEF Next, Prev
  <2>8. X \in [Nodes -> Refs] /\ Y \in [Nodes -> Refs]
    <3>1. \A i \in 1 .. n : Next(t[i]) \in Refs /\ Prev(t[i]) \in Refs
      BY <2>1, <2>2, <2>6, <2>7 DEF Refs
    <3>2. \A e \in Nodes : Contains(t, e) => Next(e) \in Refs /\ Prev(e) \in Refs
      BY <2>4, <3>1
    <3> QED
      BY <1>4, <3>2 DEF ListMem
  <2>9. \A i \in 1 .. n : X[t[i]] = Next(t[i]) /\ Y[t[i]] = Prev(t[i])
    BY <2>2, <2>3
  <2>10. \A e \in Nodes : e \notin ToSet(t) => X[e] = m.next[e] /\ Y[e] = m.prev[e]
    BY <2>5
  <2> HIDE DEF X, Y
  <2>11. /\ q \in ListMem /\ q.next = X /\ q.prev = Y /\ q.tail = m.tail /\ q.head[l] = t[1]
         /\ \A k \in Lists \ {l} : q.head[k] = m.head[k]
    BY <1>4, <2>1, <2>2, <2>8 DEF ListMem, Refs
  <2> HIDE DEF q
  <2>12. HeadIn(t) = t[1] /\ EndIn(t) = t[n]
    BY <1>6 DEF HeadIn, EndIn, n
  <2>13. Forwards(q.next, t, Closing(t))
    <3>1. \A i \in 1 .. n : X[t[i]] = IF i < n THEN t[i + 1] ELSE Closing(t)
      BY <2>6, <2>9, <2>12 DEF Closing
    <3> QED
      BY <2>11, <3>1 DEF Forwards, n
  <2>14. kind # "LL" => Backwards(q.prev, t, Ahead(t))
    <3>1. kind # "LL" => \A i \in 1 .. n : Y[t[i]] = IF 1 < i THEN t[i - 1] ELSE Ahead(t)
      BY <2>6, <2>9, <2>12 DEF Ahead
    <3> QED
      BY <2>11, <3>1 DEF Backwards, n
  <2>15. IsList(q, l, t)
    BY <1>2, <2>11, <2>12, <2>13, <2>14 DEF IsList
  <2>16. \A k \in Lists \ {l} : /\ q.head[k] = m.head[k] /\ q.tail[k] = m.tail[k]
                               /\ ToSet(seqs[k]) \cap ToSet(t) = {}
    BY <1>2, <1>4, <2>11
  <2>17. \A x \in Nodes : x \notin ToSet(seqs[l]) /\ x \notin ToSet(t)
           => q.next[x] = m.next[x] /\ (kind # "LL" => q.prev[x] = m.prev[x])
    BY <2>10, <2>11
  <2>18. AreLists(q, [seqs EXCEPT ![l] = t])
    BY <2>11, <2>15, <2>16, <2>17, OneList
  <2>19. g = q
    BY <1>3, <1>6
  <2> QED
    BY <1>2, <2>18, <2>19 DEF g, t, s
<1> QED
  BY <1>5, <1>6


-----------------------------------------------------------------------------
(* Iterating                                                                *)

\* Behind the next element to look at comes the one after it.
LEMMA NextLeft ==
  ASSUME NEW E, NEW s \in Seq(E), NEW cond, NEW kept, Keeps(E, s, cond, kept), NEW n \in 1 .. Len(s)
  PROVE  LET a == Left(s, kept, n - 1)
             k == Len(kept[n - 1]) + 1
         IN  (k < Len(a) <=> n < Len(s)) /\ (n < Len(s) => a[k + 1] = s[n + 1])
<1> DEFINE a == Left(s, kept, n - 1)
           p == kept[n - 1]
           k == Len(p) + 1
<1>1. Len(s) \in Nat /\ n - 1 \in 0 .. Len(s)
  BY LenProperties
<1>2. Parted(E, p, s, n - 1, a)
  BY <1>1, LeftIs
<1> HIDE DEF a, p
<1>3. Len(p) \in Nat /\ Len(a) = Len(p) + Len(s) - (n - 1)
  BY <1>2, LenProperties DEF Parted
<1>4. k < Len(a) <=> n < Len(s)
  BY <1>1, <1>3
<1>5. n < Len(s) => a[k + 1] = s[n + 1]
  <2> SUFFICES ASSUME n < Len(s) PROVE a[k + 1] = s[n + 1]
    OBVIOUS
  <2> DEFINE i == k + 1
  <2>1. i \in Len(p) + 1 .. Len(a) /\ i - Len(p) + (n - 1) = n + 1
    BY <1>1, <1>3
  <2> HIDE DEF i
  <2>2. a[i] = s[i - Len(p) + (n - 1)]
    BY <1>2, <2>1 DEF Parted
  <2> QED
    BY <2>1, <2>2 DEF i
<1> QED
  BY <1>4, <1>5 DEF a, p

\* The state of an iteration over l after n turns: the elements kept so far and those not
\* yet looked at are left.
Visits(seqs, l, kept, n, g) ==
  LET s == seqs[l] IN
  /\ AreLists(g.lists, [seqs EXCEPT ![l] = Left(s, kept, n)])
  /\ g.el = IF n < Len(s) THEN s[n + 1] ELSE Nil
  /\ g.seen = SubSeq(s, 1, n)

LEMMA VisitIs ==
  ASSUME kind \in {"LL", "DL", "CDL"}, NEW seqs \in [Lists -> Seq(Nodes)], NEW l \in Lists, NEW last,
         Distinct(seqs[l]), kind = "CDL" => last = seqs[l][Len(seqs[l])],
         NEW gone, NEW kept, Keeps(Nodes, seqs[l], Nodes \ gone, kept),
         NEW n \in 1 .. Len(seqs[l]), NEW g, Visits(seqs, l, kept, n - 1, g)
  PROVE  Visits(seqs, l, kept, n, Visit(g, l, last, gone)) /\ g.el # Nil
<1> DEFINE s == seqs[l]
           e == s[n]
           a == Left(s, kept, n - 1)
           b == Left(s, kept, n)
           k == Len(kept[n - 1]) + 1
           old == [seqs EXCEPT ![l] = a]
           new == [seqs EXCEPT ![l] = b]
           x == g.lists
           d == IF e \in gone THEN Deleted(x, l, e) ELSE x
           after == IF kind = "CDL" /\ e = last THEN Nil ELSE x.next[e]
           v == Visit(g, l, last, gone)
<1>1. s \in Seq(Nodes) /\ Distinct(s) /\ Len(s) \in Nat /\ n \in 1 .. Len(s) /\ n - 1 < Len(s) /\ (n - 1) + 1 = n /\ n \in 0 .. Len(s)
      /\ n - 1 \in 0 .. Len(s) /\ Len(s) \in 1 .. Len(s)
  BY LenProperties
<1>2. e \in Nodes /\ e # Nil
  BY <1>1, ElementOfSeq, ListAssumption
<1>3. g.el = e /\ g.seen = SubSeq(s, 1, n - 1) /\ AreLists(x, old)
  BY <1>1 DEF Visits
<1>4. /\ k \in 1 .. Len(a) /\ a[k] = e
      /\ e \notin gone => b = a
      /\ e \in gone => b = Cut(a, k)
  <2>1. /\ k \in 1 .. Len(a) /\ a[k] = e
        /\ e \in Nodes \ gone => b = a
        /\ e \notin Nodes \ gone => b = Cut(a, k)
    BY <1>1, LeftTurn
  <2> QED
    BY <1>2, <2>1
<1>5. (k < Len(a) <=> n < Len(s)) /\ (n < Len(s) => a[k + 1] = s[n + 1])
  BY <1>1, NextLeft
<1>0. kind = "CDL" => last = s[Len(s)]
  OBVIOUS
<1> HIDE DEF s, a, b, k
<1>6. old[l] = a
  OBVIOUS
<1>7. AreLists(d, new)
  <2>1. CASE e \notin gone
    BY <1>3, <1>4, <2>1
  <2>2. CASE e \in gone
    <3> DEFINE o == old
    <3>1. AreLists(x, o) /\ o[l] = a
      BY <1>3, <1>6
    <3>2. [o EXCEPT ![l] = Cut(a, k)] = new
      BY <1>4, <2>2
    <3> HIDE DEF o, x
    <3>3. AreLists(Deleted(x, l, o[l][k]), [o EXCEPT ![l] = Cut(o[l], k)])
      BY <1>4, <3>1, DeletedIs
    <3>4. AreLists(Deleted(x, l, e), new)
      BY <1>4, <3>1, <3>2, <3>3
    <3> QED
      BY <2>2, <3>4
  <2> QED
    BY <2>1, <2>2
<1>8. after = IF n < Len(s) THEN s[n + 1] ELSE Nil
  <2> DEFINE o == old
  <2>1. AreLists(x, o) /\ o[l] = a
    BY <1>3, <1>6
  <2> HIDE DEF o, x
  <2>2. \A i \in 1 .. Len(a) : x.next[a[i]] = IF i < Len(a) THEN a[i + 1] ELSE IF kind = "CDL" THEN a[1] ELSE Nil
    BY <2>1, ListFacts
  <2>3. x.next[e] = IF n < Len(s) THEN s[n + 1] ELSE IF kind = "CDL" THEN a[1] ELSE Nil
    BY <1>4, <1>5, <2>2
  <2>4. kind = "CDL" => (e = last <=> ~(n < Len(s)))
    <3>1. ASSUME kind = "CDL", e = last PROVE n = Len(s)
      BY <1>0, <1>1, <3>1 DEF Distinct
    <3>2. ~(n < Len(s)) => n = Len(s)
      BY <1>1
    <3> QED
      BY <1>0, <1>1, <3>1, <3>2
  <2> HIDE DEF e
  <2> QED
    BY <2>3, <2>4
<1>9. Append(g.seen, e) = SubSeq(s, 1, n)
  BY <1>1, <1>3, PrefixGrows
<1>10. v = [lists |-> d, el |-> after, seen |-> Append(g.seen, e)]
  BY <1>2, <1>3 DEF Visit
<1> HIDE DEF d, after, v
<1>11. v.lists = d /\ v.el = after /\ v.seen = SubSeq(s, 1, n)
  BY <1>9, <1>10
<1> QED
  BY <1>2, <1>3, <1>7, <1>8, <1>11 DEF Visits, v, b, s

\* An iteration sees every element once, in the list's order, and what its body does not
\* delete stays.
LEMMA TraversedIs ==
  ASSUME kind \in {"LL", "DL", "CDL"}, NEW m, NEW seqs, AreLists(m, seqs), NEW l \in Lists, NEW gone
  PROVE  LET it == Traversed(m, l, gone)
         IN  /\ AreLists(it.lists, [seqs EXCEPT ![l] = Picked(seqs[l], Nodes \ gone)])
             /\ it.seen = seqs[l]
<1> DEFINE s == seqs[l]
<1>1. /\ s \in Seq(Nodes) /\ Distinct(s) /\ Len(s) \in Nat /\ m \in ListMem /\ seqs \in [Lists -> Seq(Nodes)]
      /\ m.head[l] = HeadIn(s)
      /\ kind = "CDL" /\ Len(s) # 0 => m.head[l] # Nil /\ m.prev[m.head[l]] = s[Len(s)]
  <2>1. /\ s \in Seq(Nodes) /\ Distinct(s) /\ Len(s) \in Nat
        /\ Len(s) # 0 => m.head[l] = s[1]
        /\ m.head[l] = Nil <=> Len(s) = 0
        /\ kind # "LL" => \A i \in 1 .. Len(s) : m.prev[s[i]] = IF 1 < i THEN s[i - 1]
                                                 ELSE IF kind = "Q" THEN Nil ELSE s[Len(s)]
    BY ListFacts
  <2>2. m \in ListMem /\ seqs \in [Lists -> Seq(Nodes)] /\ m.head[l] = HeadIn(s)
    BY DEF AreLists, IsList
  <2> HIDE DEF s
  <2>3. Len(s) # 0 => 1 \in 1 .. Len(s) /\ ~(1 < 1)
    BY <2>1
  <2>4. ASSUME kind = "CDL", Len(s) # 0 PROVE m.head[l] # Nil /\ m.prev[m.head[l]] = s[Len(s)]
    BY <2>1, <2>3, <2>4
  <2> QED
    BY <2>1, <2>2, <2>4
<1>2. PICK kept : Keeps(Nodes, s, Nodes \ gone, kept) /\ Picked(s, Nodes \ gone) = kept[Len(s)]
  BY <1>1, PickedLoop
<1> DEFINE N == Cardinality(Nodes) + 1
           h == m.head[l]
           last == IF h = Nil THEN Nil ELSE m.prev[h]
           Upto(n) == IF n < Len(s) THEN n ELSE Len(s)
           States == [lists : ListMem, el : Refs, seen : Seq(Nodes)]
           Start == [lists |-> m, el |-> h, seen |-> << >>]
           W == [n \in 0 .. N |-> {g \in States : Visits(seqs, l, kept, Upto(n), g)}]
           Turned(g) == Visit(g, l, last, gone)
           D == [gn \in States \X (1 .. N) |-> Turned(gn[1])]
           IsTurn(f) == f = [n \in 0 .. N |-> IF n = 0 THEN Start ELSE Turned(f[n - 1])]
           turn == CHOOSE f : IsTurn(f)
<1>3. N \in Nat /\ Len(s) < N
  <2> HIDE DEF s
  <2> QED
    BY <1>1, LengthBound, ListAssumption
<1>4. kind = "CDL" /\ Len(s) # 0 => last = s[Len(s)]
  <2> HIDE DEF s
  <2> QED
    BY <1>1
<1>5. ASSUME NEW n \in 0 .. Len(s), NEW g, Visits(seqs, l, kept, n, g)
      PROVE  /\ g.lists \in ListMem /\ g.el \in Refs /\ g.seen \in Seq(Nodes)
             /\ n = Len(s) => g.el = Nil
  <2> HIDE DEF s
  <2>1. AreLists(g.lists, [seqs EXCEPT ![l] = Left(s, kept, n)])
        /\ g.el = (IF n < Len(s) THEN s[n + 1] ELSE Nil) /\ g.seen = SubSeq(s, 1, n)
    BY <1>5 DEF Visits, s
  <2>2. g.lists \in ListMem
    BY <2>1 DEF AreLists
  <2>3. n < Len(s) => n + 1 \in 1 .. Len(s)
    BY <1>1
  <2>4. g.el \in Refs
    BY <1>1, <2>1, <2>3, ElementOfSeq DEF Refs
  <2>5. g.seen \in Seq(Nodes)
    BY <1>1, <2>1, PrefixOf
  <2> QED
    BY <1>1, <2>1, <2>2, <2>4, <2>5
<1>6. Visits(seqs, l, kept, 0, Start)
  <2>1. Left(s, kept, 0) = s
    BY <1>1, <1>2, LeftEnds
  <2>2. SubSeq(s, 1, 0) = << >>
    BY <1>1, SubSeqEmpty
  <2>3. h = IF 0 < Len(s) THEN s[0 + 1] ELSE Nil
    <3>1. s = << >> <=> ~(0 < Len(s))
      BY <1>1, EmptySeq
    <3> HIDE DEF s
    <3> QED
      BY <1>1, <3>1 DEF HeadIn
  <2>4. [seqs EXCEPT ![l] = s] = seqs
    BY <1>1
  <2>5. Start.lists = m /\ Start.el = h /\ Start.seen = << >>
    OBVIOUS
  <2> HIDE DEF Start, h
  <2> QED
    BY <2>1, <2>2, <2>3, <2>4, <2>5 DEF Visits
<1> HIDE DEF s
<1>7. Start \in W[0]
  <2>1. 0 \in 0 .. Len(s) /\ Upto(0) = 0
    BY <1>1
  <2> HIDE DEF Start
  <2>2. Start.lists \in ListMem /\ Start.el \in Refs /\ Start.seen \in Seq(Nodes)
    BY <1>5, <1>6, <2>1
  <2>3. Start \in States
    BY <2>2 DEF Start
  <2> HIDE DEF States, Upto
  <2> QED
    BY <1>3, <1>6, <2>1, <2>3
<1> HIDE DEF last
<1>8. ASSUME NEW n \in 1 .. N, NEW g \in W[n - 1] PROVE g \in States /\ Turned(g) \in W[n]
  <2>1. n - 1 \in 0 .. N /\ n \in 0 .. N
    BY <1>3
  <2>2. g \in States /\ Visits(seqs, l, kept, Upto(n - 1), g)
    <3> HIDE DEF States, Upto
    <3> QED
      BY <2>1
  <2>3. CASE n - 1 < Len(s)
    <3> DEFINE v == Turned(g)
    <3>1. n \in 1 .. Len(s) /\ n \in 0 .. Len(s) /\ n - 1 \in 0 .. Len(s) /\ Len(s) # 0
          /\ Upto(n - 1) = n - 1 /\ Upto(n) = n
      BY <1>1, <1>3, <2>3
    <3> HIDE DEF Upto
    <3>2. Visits(seqs, l, kept, n, v) /\ g.el # Nil
      <4>1. (kind = "CDL" => last = seqs[l][Len(seqs[l])]) /\ Visits(seqs, l, kept, n - 1, g)
            /\ Distinct(seqs[l]) /\ Keeps(Nodes, seqs[l], Nodes \ gone, kept) /\ n \in 1 .. Len(seqs[l])
        BY <1>1, <1>2, <1>4, <2>2, <3>1 DEF s
      <4> QED
        BY <1>1, <4>1, VisitIs
    <3>3. v \in States
      <4>1. v = [lists |-> v.lists, el |-> v.el, seen |-> v.seen]
        BY <3>2 DEF Visit
      <4>2. v.lists \in ListMem /\ v.el \in Refs /\ v.seen \in Seq(Nodes)
        BY <1>5, <3>1, <3>2
      <4> HIDE DEF v
      <4> QED
        BY <4>1, <4>2
    <3> HIDE DEF States, Turned
    <3> QED
      BY <2>1, <2>2, <3>1, <3>2, <3>3
  <2>4. CASE ~(n - 1 < Len(s))
    <3>1. Upto(n - 1) = Len(s) /\ Upto(n) = Len(s) /\ Len(s) \in 0 .. Len(s)
      BY <1>1, <1>3, <2>1, <2>4
    <3> HIDE DEF Upto
    <3>2. g.el = Nil
      BY <1>5, <2>2, <3>1
    <3>3. Turned(g) = g
      BY <3>2 DEF Visit
    <3> HIDE DEF Turned, States
    <3> QED
      BY <2>1, <2>2, <3>1, <3>3
  <2> QED
    BY <2>2, <2>3, <2>4
<1>9. ASSUME NEW g \in W[N] PROVE Visits(seqs, l, kept, Len(s), g)
  <2>1. Upto(N) = Len(s)
    BY <1>1, <1>3
  <2> HIDE DEF Upto, States
  <2> QED
    BY <1>3, <2>1
<1>10. Traversed(m, l, gone) = turn[N]
  BY DEF Traversed, last
<1> HIDE DEF Turned, Start, States, W, N
<1>11. Leads(N, W, Start, D)
  <2>1. ASSUME NEW n \in 1 .. N, NEW g \in W[n - 1] PROVE D[<<g, n>>] \in W[n]
    <3>1. g \in States /\ Turned(g) \in W[n]
      BY <1>8
    <3>2. D[<<g, n>>] = Turned(g)
      BY <3>1
    <3> QED
      BY <3>1, <3>2
  <2> HIDE DEF D
  <2> QED
    BY <1>7, <2>1 DEF Leads
<1> HIDE DEF D
<1>12. PICK f : IsLoop(f, N, Start, D)
  BY <1>3, <1>11, LoopExists
<1>13. \A n \in 0 .. N : f[n] \in W[n]
  BY <1>3, <1>11, <1>12, LoopStates
<1>14. IsTurn(f)
  <2>1. \A n \in 1 .. N : n - 1 \in 0 .. N
    BY <1>3
  <2>2. ASSUME NEW n \in 1 .. N PROVE D[<<f[n - 1], n>>] = Turned(f[n - 1])
    <3>1. f[n - 1] \in States
      BY <1>8, <1>13, <2>1
    <3> QED
      BY <3>1 DEF D
  <2>3. \A n \in 0 .. N : (IF n = 0 THEN Start ELSE D[<<f[n - 1], n>>])
                        = (IF n = 0 THEN Start ELSE Turned(f[n - 1]))
    BY <1>3, <2>2
  <2>4. f = [n \in 0 .. N |-> IF n = 0 THEN Start ELSE D[<<f[n - 1], n>>]]
    BY <1>12 DEF IsLoop
  <2> QED
    BY <2>3, <2>4, Zenon
<1>15. IsTurn(turn)
  <2> HIDE DEF IsTurn
  <2> QED
    BY <1>14
<1> HIDE DEF turn
<1>16. turn[0] = Start /\ \A n \in 1 .. N : turn[n] = Turned(turn[n - 1])
  BY <1>3, <1>15
<1>17. turn[N] \in W[N]
  <2>1. \A n \in 1 .. N : turn[n - 1] \in W[n - 1] => turn[n] \in W[n]
    BY <1>8, <1>16
  <2>2. \A n \in 0 .. N : turn[n] \in W[n]
    BY <1>3, <1>7, <1>16, <2>1, LoopInvariant
  <2> QED
    BY <1>3, <2>2
<1>18. Visits(seqs, l, kept, Len(s), turn[N])
  BY <1>9, <1>17
<1>19. Left(s, kept, Len(s)) = Picked(s, Nodes \ gone)
  BY <1>1, <1>2, LeftEnds
<1>20. SubSeq(s, 1, Len(s)) = s
  BY <1>1, SubSeqFull
<1> QED
  BY <1>10, <1>18, <1>19, <1>20 DEF Visits, s


-----------------------------------------------------------------------------
(* The operations, whatever the kind                                        *)

LEMMA PrependedIs ==
  ASSUME kind \in {"LL", "DL", "CDL", "Q"}, NEW m, NEW seqs, AreLists(m, seqs), NEW l \in Lists,
         NEW e \in Nodes, Fresh(seqs, e)
  PROVE  AreLists(Prepended(m, l, e), [seqs EXCEPT ![l] = <<e>> \o seqs[l]])
<1>1. <<e>> \o seqs[l] = Insert(seqs[l], 1, e)
  BY ListFacts, InsertForms
<1>2. CASE kind = "LL"
  BY <1>1, <1>2, LLPrependIs DEF Prepended
<1>3. CASE kind = "DL"
  BY <1>1, <1>3, DLPrependIs DEF Prepended
<1>4. CASE kind = "CDL"
  BY <1>1, <1>4, CDLPrependIs DEF Prepended
<1>5. CASE kind = "Q"
  BY <1>1, <1>5, QAddHeadIs DEF Prepended
<1> QED
  BY <1>2, <1>3, <1>4, <1>5

LEMMA AppendedToIs ==
  ASSUME kind \in {"LL", "DL", "Q"}, NEW m, NEW seqs, AreLists(m, seqs), NEW l \in Lists,
         NEW e \in Nodes, Fresh(seqs, e)
  PROVE  AreLists(Appended(m, l, e), [seqs EXCEPT ![l] = Append(seqs[l], e)])
<1> DEFINE s == seqs[l]
           n == Len(s)
<1>1. /\ s \in Seq(Nodes) /\ n \in Nat
      /\ \A i \in 1 .. n : s[i] # Nil
      /\ s = << >> <=> n = 0
  BY ListFacts
<1>2. Append(s, e) = Insert(s, n + 1, e)
  BY <1>1, InsertForms
<1>3. CASE kind = "LL"
  BY <1>2, <1>3, LLAppendIs DEF Appended
<1>4. CASE kind = "DL"
  BY <1>2, <1>4, DLAppendIs DEF Appended
<1>5. CASE kind = "Q"
  <2>1. m.tail[l] = EndIn(s)
    BY <1>5 DEF AreLists, IsList
  <2>2. CASE n = 0
    <3>1. Appended(m, l, e) = QAddHead(m, l, e)
      BY <1>1, <1>5, <2>1, <2>2 DEF Appended, QInsertAfter, EndIn
    <3>2. n + 1 = 1
      BY <2>2
    <3> QED
      BY <1>2, <1>5, <3>1, <3>2, QAddHeadIs
  <2>3. CASE n # 0
    <3>1. n \in 1 .. n
      BY <1>1, <2>3
    <3>2. Appended(m, l, e) = QInsertAfter(m, l, e, s[n])
      BY <1>1, <1>5, <2>1, <2>3 DEF Appended, EndIn
    <3>3. n \in 1 .. Len(seqs[l])
      BY <3>1
    <3> HIDE DEF n
    <3>4. AreLists(QInsertAfter(m, l, e, s[n]), [seqs EXCEPT ![l] = Insert(s, n + 1, e)])
      BY <1>5, <3>3, QInsertAfterIs
    <3> QED
      BY <1>2, <3>2, <3>4
  <2> QED
    BY <2>2, <2>3
<1> QED
  BY <1>3, <1>4, <1>5

\* What the program knows of the lists.
LEMMA MembersAre ==
  ASSUME NEW seqs, AreLists(mem, seqs)
  PROVE  /\ \A l \in Lists : Members(l) = ToSet(seqs[l])
         /\ \A e \in Unlisted : e \in Nodes /\ Fresh(seqs, e)
         /\ \A l \in Lists : \A e \in Members(l) : \E k \in 1 .. Len(seqs[l]) : e = seqs[l][k]
<1>1. \A l \in Lists : Members(l) = ToSet(seqs[l])
  BY ListsRead DEF Members
<1>2. \A e \in Unlisted : e \in Nodes /\ Fresh(seqs, e)
  BY <1>1 DEF Unlisted, Fresh
<1>3. ASSUME NEW l \in Lists, NEW e \in Members(l) PROVE \E k \in 1 .. Len(seqs[l]) : e = seqs[l][k]
  <2> DEFINE s == seqs[l]
  <2>1. s \in Seq(Nodes)
    BY ListFacts
  <2>2. e \in ToSet(s)
    BY <1>1
  <2> HIDE DEF s
  <2>3. \E k \in 1 .. Len(s) : e = s[k]
    BY <2>1, <2>2, ElementsOf
  <2> QED
    BY <2>3 DEF s
<1> QED
  BY <1>1, <1>2, <1>3

\* An element of the list is taken out of it.
LEMMA DeletedFromIs ==
  ASSUME kind \in {"LL", "DL", "CDL", "Q"}, NEW m, NEW seqs, AreLists(m, seqs), NEW l \in Lists,
         NEW k \in 1 .. Len(seqs[l]), NEW e, e = seqs[l][k]
  PROVE  AreLists(Deleted(m, l, e), [seqs EXCEPT ![l] = Picked(seqs[l], Nodes \ {e})])
<1> DEFINE s == seqs[l]
<1>1. s \in Seq(Nodes) /\ Distinct(s)
  BY ListFacts
<1>2. k \in 1 .. Len(s) /\ e = s[k]
  OBVIOUS
<1>3. AreLists(Deleted(m, l, e), [seqs EXCEPT ![l] = Cut(s, k)])
  BY DeletedIs
<1> HIDE DEF s
<1>4. Picked(s, Nodes \ {e}) = Cut(s, k)
  BY <1>1, <1>2, PickedCut
<1> QED
  BY <1>3, <1>4 DEF s

-----------------------------------------------------------------------------
(* The invariant                                                            *)

\* The links are those of some sequences, one for every list, that share no element.
ListInv == kind \in {"LL", "DL", "CDL", "Q"} /\ \E seqs : AreLists(mem, seqs)

LEMMA ListInitInv ==
  ASSUME ListInit
  PROVE  ListInv
<1> DEFINE seqs == [l \in Lists |-> << >>]
<1>1. kind \in {"LL", "DL", "CDL", "Q"}
  BY ListAssumption DEF ListInit
<1>2. mem \in ListMem
  BY DEF ListInit, ListMem, Refs
<1>3. << >> \in Seq(Nodes) /\ Len(<< >>) = 0 /\ ToSet(<< >>) = {}
  BY EmptySeq DEF ToSet
<1>4. \A l \in Lists : IsList(mem, l, << >>)
  BY <1>3 DEF ListInit, IsList, Distinct, HeadIn, EndIn, Forwards, Backwards
<1>5. AreLists(mem, seqs)
  BY <1>2, <1>3, <1>4 DEF AreLists
<1> QED
  BY <1>1, <1>5 DEF ListInv

\* What holds of the new links holds in the new state.
LEMMA ListInvNext ==
  ASSUME kind \in {"LL", "DL", "CDL", "Q"}, UNCHANGED kind, NEW seqs, AreLists(mem', seqs)
  PROVE  ListInv'
<1>1. \A l \in Lists : IsList(mem, l, seqs[l])'
  <2>1. \A l \in Lists : IsList(mem', l, seqs[l])
    BY DEF AreLists
  <2> QED
    BY <2>1 DEF IsList, Closing, Ahead
<1>2. AreLists(mem, seqs)'
  BY <1>1 DEF AreLists
<1> QED
  BY <1>2 DEF ListInv

LEMMA ListNextInv ==
  ASSUME ListInv, [ListNext]_listVars
  PROVE  ListInv'
<1>1. kind \in {"LL", "DL", "CDL", "Q"}
  BY DEF ListInv
<1>2. PICK seqs : AreLists(mem, seqs)
  BY DEF ListInv
<1>3. ASSUME NEW l \in Lists, SortList(l) PROVE ListInv'
  BY <1>1, <1>2, <1>3, SortedIs, ListInvNext DEF SortList
<1>4. ASSUME NEW l \in Lists, NEW k \in Lists, Concat(l, k) PROVE ListInv'
  BY <1>1, <1>2, <1>4, ConcatenatedIs, ListInvNext DEF Concat
<1>5. ASSUME NEW l \in Lists, NEW e \in Nodes, PrependTo(l, e) PROVE ListInv'
  <2>1. Fresh(seqs, e)
    BY <1>2, <1>5, MembersAre DEF PrependTo
  <2>2. AreLists(Prepended(mem, l, e), [seqs EXCEPT ![l] = <<e>> \o seqs[l]])
    BY <1>1, <1>2, <2>1, PrependedIs
  <2> QED
    BY <1>1, <1>5, <2>2, ListInvNext DEF PrependTo
<1>6. ASSUME NEW l \in Lists, NEW e \in Nodes, AppendTo(l, e) PROVE ListInv'
  <2>1. Fresh(seqs, e)
    BY <1>2, <1>6, MembersAre DEF AppendTo
  <2>2. kind \in {"LL", "DL", "Q"}
    BY <1>1, <1>6 DEF AppendTo
  <2>3. AreLists(Appended(mem, l, e), [seqs EXCEPT ![l] = Append(seqs[l], e)])
    BY <1>2, <2>1, <2>2, AppendedToIs
  <2> QED
    BY <1>1, <1>6, <2>3, ListInvNext DEF AppendTo
<1>7. ASSUME NEW l \in Lists, NEW e \in Nodes, DeleteFrom(l, e) PROVE ListInv'
  <2>1. PICK k \in 1 .. Len(seqs[l]) : e = seqs[l][k]
    BY <1>2, <1>7, MembersAre DEF DeleteFrom
  <2>2. AreLists(Deleted(mem, l, e), [seqs EXCEPT ![l] = Picked(seqs[l], Nodes \ {e})])
    BY <1>1, <1>2, <2>1, DeletedFromIs
  <2> QED
    BY <1>1, <1>7, <2>2, ListInvNext DEF DeleteFrom
<1>8. ASSUME NEW l \in Lists, NEW e \in Nodes, NEW p \in Nodes, InsertAfter(l, e, p) PROVE ListInv'
  <2>1. Fresh(seqs, e)
    BY <1>2, <1>8, MembersAre DEF InsertAfter
  <2>2. PICK k \in 1 .. Len(seqs[l]) : p = seqs[l][k]
    BY <1>2, <1>8, MembersAre DEF InsertAfter
  <2>3. AreLists(QInsertAfter(mem, l, e, p), [seqs EXCEPT ![l] = Insert(seqs[l], k + 1, e)])
    BY <1>2, <1>8, <2>1, <2>2, QInsertAfterIs DEF InsertAfter
  <2> QED
    BY <1>1, <1>8, <2>3, ListInvNext DEF InsertAfter
<1>9. ASSUME NEW l \in Lists, NEW gone \in Deletions, Traverse(l, gone) PROVE ListInv'
  <2>1. AreLists(Traversed(mem, l, gone).lists, [seqs EXCEPT ![l] = Picked(seqs[l], Nodes \ gone)])
    BY <1>1, <1>2, <1>9, TraversedIs DEF Traverse
  <2> QED
    BY <1>1, <1>9, <2>1, ListInvNext DEF Traverse
<1>10. CASE UNCHANGED listVars
  <2>1. UNCHANGED kind /\ AreLists(mem', seqs)
    BY <1>2, <1>10 DEF listVars
  <2> QED
    BY <1>1, <2>1, ListInvNext
<1> QED
  BY <1>3, <1>4, <1>5, <1>6, <1>7, <1>8, <1>9, <1>10 DEF ListNext

\* Each operation does to a list what it would do to the sequence.
LEMMA ListInvRight ==
  ASSUME ListInv
  PROVE  ListRight
<1>1. kind \in {"LL", "DL", "CDL", "Q"}
  BY DEF ListInv
<1>2. PICK seqs : AreLists(mem, seqs)
  BY DEF ListInv
<1> DEFINE now == [l \in Lists |-> Forward(mem, l)]
<1>3. now = seqs
  <2>1. seqs = [l \in Lists |-> seqs[l]]
    BY <1>2 DEF AreLists
  <2>2. \A l \in Lists : Forward(mem, l) = seqs[l]
    BY <1>2, ListsRead
  <2> QED
    BY <2>1, <2>2
<1>4. \A m, t : AreLists(m, t) => Holds(m, t)
  BY ListsHold
<1>5. ASSUME NEW l \in Lists, NEW e \in Unlisted
      PROVE  /\ Holds(Prepended(mem, l, e), [now EXCEPT ![l] = <<e>> \o now[l]])
             /\ kind # "CDL" => Holds(Appended(mem, l, e), [now EXCEPT ![l] = Append(now[l], e)])
             /\ kind = "Q" => \A i \in DOMAIN now[l] :
                  Holds(QInsertAfter(mem, l, e, now[l][i]), [now EXCEPT ![l] = InsertAt(now[l], i + 1, e)])
  <2> HIDE DEF now
  <2>1. e \in Nodes /\ Fresh(seqs, e)
    BY <1>2, MembersAre
  <2>2. Holds(Prepended(mem, l, e), [now EXCEPT ![l] = <<e>> \o now[l]])
    BY <1>1, <1>2, <1>3, <1>4, <2>1, PrependedIs
  <2>3. kind # "CDL" => Holds(Appended(mem, l, e), [now EXCEPT ![l] = Append(now[l], e)])
    BY <1>1, <1>2, <1>3, <1>4, <2>1, AppendedToIs
  <2>4. ASSUME kind = "Q", NEW i \in DOMAIN now[l]
        PROVE  Holds(QInsertAfter(mem, l, e, now[l][i]), [now EXCEPT ![l] = InsertAt(now[l], i + 1, e)])
    <3> DEFINE s == seqs[l]
    <3>1. s \in Seq(Nodes)
      BY <1>2, ListFacts
    <3>2. i \in 1 .. Len(s)
      BY <1>3, <2>4, <3>1, LenProperties
    <3> HIDE DEF s
    <3>3. InsertAt(s, i + 1, e) = Insert(s, i + 1, e)
      BY <2>1, <3>1, <3>2, InsertForms
    <3>4. AreLists(QInsertAfter(mem, l, e, s[i]), [seqs EXCEPT ![l] = Insert(s, i + 1, e)])
      BY <1>2, <2>1, <2>4, <3>2, QInsertAfterIs DEF s
    <3> QED
      BY <1>3, <1>4, <3>3, <3>4 DEF s
  <2> QED
    BY <2>2, <2>3, <2>4
<1>6. ASSUME NEW l \in Lists, NEW e \in Members(l)
      PROVE  Holds(Deleted(mem, l, e), [now EXCEPT ![l] = Picked(now[l], Nodes \ {e})])
  <2> HIDE DEF now
  <2>1. PICK k \in 1 .. Len(seqs[l]) : e = seqs[l][k]
    BY <1>2, MembersAre
  <2>2. AreLists(Deleted(mem, l, e), [seqs EXCEPT ![l] = Picked(seqs[l], Nodes \ {e})])
    BY <1>1, <1>2, <2>1, DeletedFromIs
  <2> QED
    BY <1>3, <1>4, <2>2
<1>7. ASSUME NEW l \in Lists, kind \in {"LL", "DL"}, NEW k \in Lists \ {l}
      PROVE  Holds(Concatenated(mem, l, k), [now EXCEPT ![l] = now[l] \o now[k], ![k] = << >>])
  <2> HIDE DEF now
  <2>1. AreLists(Concatenated(mem, l, k), [seqs EXCEPT ![l] = seqs[l] \o seqs[k], ![k] = << >>])
    BY <1>2, <1>7, ConcatenatedIs
  <2> QED
    BY <1>3, <1>4, <2>1
<1>8. ASSUME NEW l \in Lists, kind # "Q"
      PROVE  LET t == Forward(Sorted(mem, l), l) IN
             StablySorted(now[l], t) /\ Holds(Sorted(mem, l), [now EXCEPT ![l] = t])
  <2> DEFINE t == Forward(Sorted(mem, l), l)
             u == MergeSorted(seqs[l])
             new == [seqs EXCEPT ![l] = u]
  <2> HIDE DEF now
  <2>1. AreLists(Sorted(mem, l), new) /\ StablySorted(seqs[l], u)
    BY <1>2, <1>8, SortedIs
  <2>2. new[l] = u
    BY <1>2 DEF AreLists
  <2>3. t = u
    <3> HIDE DEF new, u
    <3> QED
      BY <2>1, <2>2, ListsRead
  <2> QED
    BY <1>3, <1>4, <2>1, <2>3
<1>9. ASSUME NEW l \in Lists, kind # "Q", NEW gone \in Deletions
      PROVE  LET it == Traversed(mem, l, gone) IN
             it.seen = now[l] /\ Holds(it.lists, [now EXCEPT ![l] = Picked(now[l], Nodes \ gone)])
  <2> DEFINE it == Traversed(mem, l, gone)
             left == [seqs EXCEPT ![l] = Picked(seqs[l], Nodes \ gone)]
  <2> HIDE DEF now
  <2>1. AreLists(it.lists, left) /\ it.seen = seqs[l]
    BY <1>1, <1>2, <1>9, TraversedIs
  <2>2. left = [now EXCEPT ![l] = Picked(now[l], Nodes \ gone)]
    BY <1>3
  <2> HIDE DEF it, left
  <2>3. Holds(it.lists, left) /\ it.seen = now[l]
    BY <1>3, <1>4, <2>1
  <2> QED
    BY <2>2, <2>3 DEF it
<1> QED
  BY <1>5, <1>6, <1>7, <1>8, <1>9 DEF ListRight

\* ListRight holds of all lists that the operations lead to.
THEOREM ListSound == ListSpec => []ListRight
<1>1. ListInit => ListInv
  BY ListInitInv
<1>2. ListInv /\ [ListNext]_listVars => ListInv'
  BY ListNextInv
<1>3. ListInv => ListRight
  BY ListInvRight
<1> QED
  BY <1>1, <1>2, <1>3, PTL DEF ListSpec
=============================================================================
