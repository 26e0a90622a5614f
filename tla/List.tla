-------------------------------- MODULE List --------------------------------
(***************************************************************************)
(* The linked lists of the library: utlist.h's singly linked (LL), doubly  *)
(* linked (DL) and circular (CDL) ones, and the queue of queries in        *)
(* udns_resolver.c (Q), which has a tail.                                  *)
(*                                                                         *)
(* In a DL list the prev of the head is the last element, in a CDL list    *)
(* next and prev close the ring, in a Q list both end in null.             *)
(***************************************************************************)
EXTENDS MergeSort, SequencesExt

CONSTANTS
  Nodes,     \* elements, each in one list at most
  Nil,       \* the null pointer
  Lists,     \* the program's lists
  Kinds,     \* kinds of lists tried, of {"LL", "DL", "CDL", "Q"}
  Deletions  \* sets of elements an iteration is made to delete

ASSUME ListAssumption ==
  /\ Nil \notin Nodes /\ IsFiniteSet(Nodes)
  /\ \A e \in Nodes : Rank(e) \in Int
  /\ Kinds \subseteq {"LL", "DL", "CDL", "Q"}

VARIABLES
  kind,  \* the kind of all lists
  mem    \* heads, tails (Q only), and the links of the elements

listVars == <<kind, mem>>

ListInit ==
  /\ kind \in Kinds
  /\ mem = [head |-> [l \in Lists |-> Nil], tail |-> [l \in Lists |-> Nil],
            next |-> [e \in Nodes |-> Nil], prev |-> [e \in Nodes |-> Nil]]

\* The list read forwards from its head, and backwards from its end.
Forward(m, l) ==
  LET h == m.head[l] IN
  IF h = Nil THEN << >>
  ELSE <<h>> \o Follow(m.next, m.next[h], IF kind = "CDL" THEN h ELSE Nil, Cardinality(Nodes))

Backward(m, l) ==
  LET h == m.head[l] IN
  CASE kind = "LL" -> Reverse(Forward(m, l))
    [] kind = "Q" -> Follow(m.prev, m.tail[l], Nil, Cardinality(Nodes) + 1)
    [] OTHER -> IF h = Nil THEN << >>
                ELSE Append(Follow(m.prev, m.prev[h], h, Cardinality(Nodes)), h)

Members(l) == ToSet(Forward(mem, l))

\* Links of an element that is in no list are never read: kept null.
Forget(m, e) == [m EXCEPT !.next[e] = Nil, !.prev[e] = Nil]

-----------------------------------------------------------------------------
(* LL_APPEND's and LL_CONCAT's walk to the end.                             *)
LastOf(m, l) == Last(Forward(m, l))

LLPrepend(m, l, e) == [m EXCEPT !.next[e] = m.head[l], !.head[l] = e]

LLAppend(m, l, e) ==
  IF m.head[l] = Nil THEN [m EXCEPT !.head[l] = e, !.next[e] = Nil]
  ELSE [m EXCEPT !.next = [@ EXCEPT ![LastOf(m, l)] = e, ![e] = Nil]]

LLConcat(m, l, k) ==
  IF m.head[l] = Nil THEN [m EXCEPT !.head[l] = m.head[k]]
  ELSE [m EXCEPT !.next[LastOf(m, l)] = m.head[k]]

LLDelete(m, l, e) ==
  IF m.head[l] = e THEN [m EXCEPT !.head[l] = m.next[e]]
  ELSE [m EXCEPT !.next[CHOOSE p \in ToSet(Forward(m, l)) : m.next[p] = e] = m.next[e]]

-----------------------------------------------------------------------------
DLPrepend(m, l, e) ==
  LET h == m.head[l] IN
  IF h = Nil THEN [m EXCEPT !.next[e] = Nil, !.prev[e] = e, !.head[l] = e]
  ELSE [m EXCEPT !.next[e] = h, !.prev = [@ EXCEPT ![e] = m.prev[h], ![h] = e], !.head[l] = e]

DLAppend(m, l, e) ==
  LET h == m.head[l] IN
  IF h = Nil THEN [m EXCEPT !.next[e] = Nil, !.prev[e] = e, !.head[l] = e]
  ELSE [m EXCEPT !.next = [@ EXCEPT ![m.prev[h]] = e, ![e] = Nil],
                 !.prev = [@ EXCEPT ![e] = m.prev[h], ![h] = e]]

DLConcat(m, l, k) ==
  LET h == m.head[l]  i == m.head[k] IN
  IF i = Nil THEN m
  ELSE IF h = Nil THEN [m EXCEPT !.head[l] = i]
  ELSE [m EXCEPT !.next[m.prev[h]] = i, !.prev = [@ EXCEPT ![i] = m.prev[h], ![h] = m.prev[i]]]

DLDelete(m, l, e) ==
  LET pre == m.prev[e]  post == m.next[e] IN
  IF pre = e THEN [m EXCEPT !.head[l] = Nil]
  ELSE IF m.head[l] = e THEN [m EXCEPT !.prev[post] = pre, !.head[l] = post]
  ELSE [m EXCEPT !.next[pre] = post, !.prev[IF post = Nil THEN m.head[l] ELSE post] = pre]

-----------------------------------------------------------------------------
CDLPrepend(m, l, e) ==
  LET h == m.head[l] IN
  IF h = Nil THEN [m EXCEPT !.next[e] = e, !.prev[e] = e, !.head[l] = e]
  ELSE [m EXCEPT !.next = [@ EXCEPT ![e] = h, ![m.prev[h]] = e],
                 !.prev = [@ EXCEPT ![e] = m.prev[h], ![h] = e], !.head[l] = e]

CDLDelete(m, l, e) ==
  IF m.head[l] = e /\ m.next[e] = e THEN [m EXCEPT !.head[l] = Nil]
  ELSE [m EXCEPT !.prev[m.next[e]] = m.prev[e], !.next[m.prev[e]] = m.next[e],
                 !.head[l] = IF @ = e THEN m.next[e] ELSE @]

-----------------------------------------------------------------------------
(* qlist_add_head(), qlist_insert_after() and qlist_remove()                *)

QAddHead(m, l, e) ==
  LET h == m.head[l] IN
  [m EXCEPT !.next[e] = h, !.prev = IF h = Nil THEN [@ EXCEPT ![e] = Nil]
                                    ELSE [@ EXCEPT ![h] = e, ![e] = Nil],
            !.tail[l] = IF h = Nil THEN e ELSE @, !.head[l] = e]

\* Mutant of QInsertAfter: an element behind the last one does not become the tail.
QInsertAfterTailStays(m, l, e, p) ==
  IF p = Nil THEN QAddHead(m, l, e)
  ELSE LET post == m.next[p] IN
       [m EXCEPT !.next = [@ EXCEPT ![e] = post, ![p] = e],
                 !.prev = IF post = Nil THEN [@ EXCEPT ![e] = p]
                          ELSE [@ EXCEPT ![e] = p, ![post] = e]]

QInsertAfter(m, l, e, p) ==
  IF p = Nil THEN QAddHead(m, l, e)
  ELSE LET post == m.next[p] IN
       [m EXCEPT !.next = [@ EXCEPT ![e] = post, ![p] = e],
                 !.prev = IF post = Nil THEN [@ EXCEPT ![e] = p]
                          ELSE [@ EXCEPT ![e] = p, ![post] = e],
                 !.tail[l] = IF post = Nil THEN e ELSE @]

QRemove(m, l, e) ==
  LET pre == m.prev[e]  post == m.next[e] IN
  [m EXCEPT !.head[l] = IF pre = Nil THEN post ELSE @,
            !.tail[l] = IF post = Nil THEN pre ELSE @,
            !.next = IF pre = Nil THEN @ ELSE [@ EXCEPT ![pre] = post],
            !.prev = IF post = Nil THEN @ ELSE [@ EXCEPT ![post] = pre]]

-----------------------------------------------------------------------------
Prepended(m, l, e) ==
  CASE kind = "LL" -> LLPrepend(m, l, e)   [] kind = "DL" -> DLPrepend(m, l, e)
    [] kind = "CDL" -> CDLPrepend(m, l, e) [] kind = "Q" -> QAddHead(m, l, e)

Appended(m, l, e) ==
  CASE kind = "LL" -> LLAppend(m, l, e) [] kind = "DL" -> DLAppend(m, l, e)
    [] kind = "Q" -> QInsertAfter(m, l, e, m.tail[l])

Deleted(m, l, e) ==
  Forget(CASE kind = "LL" -> LLDelete(m, l, e)   [] kind = "DL" -> DLDelete(m, l, e)
           [] kind = "CDL" -> CDLDelete(m, l, e) [] kind = "Q" -> QRemove(m, l, e), e)

\* The program forgets the second list's head.
Concatenated(m, l, k) ==
  [IF kind = "LL" THEN LLConcat(m, l, k) ELSE DLConcat(m, l, k) EXCEPT !.head[k] = Nil]

\* LL_SORT, DL_SORT, CDL_SORT: every turn links the elements anew.
Sorted(m, l) ==
  LET s == MergeSorted(Forward(m, l))
      At(e) == CHOOSE i \in DOMAIN s : s[i] = e
      Next(e) == IF At(e) < Len(s) THEN s[At(e) + 1] ELSE IF kind = "CDL" THEN Head(s) ELSE Nil
      Prev(e) == IF kind = "LL" THEN Nil ELSE s[IF At(e) > 1 THEN At(e) - 1 ELSE Len(s)]
  IN  IF s = << >> THEN m
      ELSE [m EXCEPT !.head[l] = Head(s),
                     !.next = [e \in Nodes |-> IF Contains(s, e) THEN Next(e) ELSE @[e]],
                     !.prev = [e \in Nodes |-> IF Contains(s, e) THEN Prev(e) ELSE @[e]]]

\* A turn of LL_FOREACH_SAFE, DL_FOREACH_SAFE or CDL_FOREACH_SAFE, the element of which
\* the body deletes if it is in gone: g has the lists, the element and those seen before.
Visit(g, l, last, gone) ==
  IF g.el = Nil THEN g
  ELSE [lists |-> IF g.el \in gone THEN Deleted(g.lists, l, g.el) ELSE g.lists,
        el |-> IF kind = "CDL" /\ g.el = last THEN Nil ELSE g.lists.next[g.el],
        seen |-> Append(g.seen, g.el)]

Traversed(m, l, gone) ==
  LET h == m.head[l]
      last == IF h = Nil THEN Nil ELSE m.prev[h]
      turn[n \in 0 .. Cardinality(Nodes) + 1] ==
        IF n = 0 THEN [lists |-> m, el |-> h, seen |-> << >>] ELSE Visit(turn[n - 1], l, last, gone)
  IN  turn[Cardinality(Nodes) + 1]

-----------------------------------------------------------------------------
Unlisted == Nodes \ UNION {Members(l) : l \in Lists}

PrependTo(l, e) == e \in Unlisted /\ mem' = Prepended(mem, l, e) /\ UNCHANGED kind

AppendTo(l, e) == kind # "CDL" /\ e \in Unlisted /\ mem' = Appended(mem, l, e) /\ UNCHANGED kind

InsertAfter(l, e, p) ==
  kind = "Q" /\ e \in Unlisted /\ p \in Members(l) /\ mem' = QInsertAfter(mem, l, e, p) /\ UNCHANGED kind

DeleteFrom(l, e) == e \in Members(l) /\ mem' = Deleted(mem, l, e) /\ UNCHANGED kind

Concat(l, k) ==
  kind \in {"LL", "DL"} /\ l # k /\ mem' = Concatenated(mem, l, k) /\ UNCHANGED kind

SortList(l) == kind # "Q" /\ mem' = Sorted(mem, l) /\ UNCHANGED kind

Traverse(l, gone) == kind # "Q" /\ mem' = Traversed(mem, l, gone).lists /\ UNCHANGED kind

ListNext ==
  \E l \in Lists :
    \/ SortList(l) \/ \E k \in Lists : Concat(l, k)
    \/ \E e \in Nodes : PrependTo(l, e) \/ AppendTo(l, e) \/ DeleteFrom(l, e)
    \/ \E e, p \in Nodes : InsertAfter(l, e, p)
    \/ \E gone \in Deletions : Traverse(l, gone)

ListSpec == ListInit /\ [][ListNext]_listVars

-----------------------------------------------------------------------------
\* Forwards and backwards, and in every list, m has what the sequences say.
Holds(m, seqs) ==
  \A l \in Lists : Forward(m, l) = seqs[l] /\ Backward(m, l) = Reverse(seqs[l])

\* Whatever was done before, each operation does to the list it is given, read in either
\* direction, what it would do to a sequence, and nothing to the other list; sorting is
\* stable, and an iteration that deletes as it goes sees every element once.
ListRight ==
  LET now == [l \in Lists |-> Forward(mem, l)] IN
  \A l \in Lists :
    LET s == now[l] IN
    /\ \A e \in Unlisted :
         /\ Holds(Prepended(mem, l, e), [now EXCEPT ![l] = <<e>> \o s])
         /\ kind # "CDL" => Holds(Appended(mem, l, e), [now EXCEPT ![l] = Append(s, e)])
         /\ kind = "Q" => \A i \in DOMAIN s :
              Holds(QInsertAfter(mem, l, e, s[i]), [now EXCEPT ![l] = InsertAt(s, i + 1, e)])
    /\ \A e \in Members(l) : Holds(Deleted(mem, l, e), [now EXCEPT ![l] = Picked(s, Nodes \ {e})])
    /\ kind \in {"LL", "DL"} => \A k \in Lists \ {l} :
         Holds(Concatenated(mem, l, k), [now EXCEPT ![l] = s \o now[k], ![k] = << >>])
    /\ kind # "Q" =>
         LET t == Forward(Sorted(mem, l), l) IN
         StablySorted(s, t) /\ Holds(Sorted(mem, l), [now EXCEPT ![l] = t])
    /\ kind # "Q" => \A gone \in Deletions :
         LET it == Traversed(mem, l, gone) IN
         it.seen = s /\ Holds(it.lists, [now EXCEPT ![l] = Picked(s, Nodes \ gone)])
=============================================================================
