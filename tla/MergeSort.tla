----------------------------- MODULE MergeSort -----------------------------
(***************************************************************************)
(* The bottom-up merge sort of linked lists that utlist.h and uthash.h     *)
(* have in four forms: LL_SORT, DL_SORT, CDL_SORT and HASH_SRT, and what   *)
(* else the two share.  A list is the sequence of its elements; the links  *)
(* are set by the caller's module.  Each loop is a recursive function of   *)
(* the number of its turns.                                                *)
(***************************************************************************)
EXTENDS Integers, Sequences

CONSTANT Rank(_)   \* the order that cmp() stands for

\* The elements from e on, along links; a ring ends after n of them.
Follow(links, e, null, n) ==
  LET walk[k \in 0 .. n] ==
        IF k = 0 THEN << >>
        ELSE LET s == walk[k - 1]
                 x == IF s = << >> THEN e ELSE links[s[Len(s)]]
             IN  IF x = null THEN s ELSE Append(s, x)
  IN  walk[n]

\* The elements of s that cond holds for, in their order.
Picked(s, cond) ==
  LET kept[n \in 0 .. Len(s)] ==
        IF n = 0 THEN << >>
        ELSE IF s[n] \in cond THEN Append(kept[n - 1], s[n]) ELSE kept[n - 1]
  IN  kept[Len(s)]

\* The inner loop: of the run p, psize elements are taken, and of the run q the others.
Merge(p, q) ==
  LET list[n \in 0 .. Len(p) + Len(q)] ==
        IF n = 0 THEN [psize |-> 0, elts |-> << >>]
        ELSE LET l == list[n - 1]
                 i == l.psize + 1
                 j == n - l.psize
             IN  IF i <= Len(p) /\ (j > Len(q) \/ Rank(p[i]) <= Rank(q[j]))
                 THEN [psize |-> i, elts |-> Append(l.elts, p[i])]
                 ELSE [psize |-> l.psize, elts |-> Append(l.elts, q[j])]
  IN  list[Len(p) + Len(q)].elts

\* The insize elements of s behind the first from, or what there is of them.
Run(s, from, insize) ==
  SubSeq(s, from + 1, IF from + insize < Len(s) THEN from + insize ELSE Len(s))

\* One turn of the outer loop: runs of insize elements are merged two by two.
Pass(s, insize) ==
  LET list[n \in 0 .. Len(s)] ==
        IF n = 0 THEN << >>
        ELSE LET l == list[n - 1]
             IN  l \o Merge(Run(s, Len(l), insize), Run(s, Len(l) + insize, insize))
  IN  list[Len(s)]

\* The outer loop, which ends after a turn with one merge.
MergeSorted(s) ==
  LET turn[n \in 0 .. Len(s)] ==
        IF n = 0 THEN [list |-> s, insize |-> 1]
        ELSE LET t == turn[n - 1]
             IN  IF t.insize >= Len(s) THEN t
                 ELSE [list |-> Pass(t.list, t.insize), insize |-> 2 * t.insize]
  IN  turn[Len(s)].list

\* What a sort is to do: the same elements, by rank, those of equal rank in their order.
StablySorted(s, t) ==
  LET At(x) == CHOOSE i \in 1 .. Len(s) : s[i] = x IN
    /\ Len(s) = Len(t) /\ {s[i] : i \in 1 .. Len(s)} = {t[i] : i \in 1 .. Len(t)}
    /\ \A i, j \in 1 .. Len(t) : i < j =>
         \/ Rank(t[i]) < Rank(t[j])
         \/ Rank(t[i]) = Rank(t[j]) /\ At(t[i]) < At(t[j])
=============================================================================
