-------------------------------- MODULE Hash --------------------------------
(***************************************************************************)
(* uthash.h: hash tables whose links lie in the elements.  An element is   *)
(* in a bucket's chain (hh_next, hh_prev) and in the list of all elements  *)
(* in the order of their addition (next, prev, tail), and a table doubles  *)
(* its buckets when a chain grows long.                                    *)
(*                                                                         *)
(* A table is a record of its UT_hash_table and of the links its elements  *)
(* have through its hash handle.  Two tables over the same elements stand  *)
(* for two handles in one structure, as HASH_SELECT needs them.            *)
(***************************************************************************)
EXTENDS MergeSort, SequencesExt

CONSTANTS
  Elts,          \* elements, each with a key of its own
  Null,          \* the null pointer
  Hashes,        \* functions from the keys to their hash values, HASH_FCN
  Blooms,        \* bits of the Bloom filter; 0: compiled without HASH_BLOOM
  InitBuckets,   \* HASH_INITIAL_NUM_BUCKETS
  Thresh,        \* HASH_BKT_CAPACITY_THRESH
  MaxBuckets,    \* bound on the buckets of a table
  Picks,       \* sets of elements a HASH_SELECT or a HASH_ITER is tried with
  AddToSelected  \* BOOLEAN: whether elements are added behind those of a HASH_SELECT

\* Thresh is 10 in the code: with 1, HASH_SELECT would divide by an ideal of 0.
ASSUME HashAssumption ==
  /\ Null \notin Elts /\ IsFiniteSet(Elts) /\ Picks \subseteq SUBSET Elts
  /\ \A e \in Elts : Rank(e) \in Int
  /\ Hashes \subseteq [Elts -> Nat] /\ Blooms \subseteq Nat
  /\ InitBuckets \in Nat \ {0} /\ Thresh \in Nat \ {0, 1}
  /\ AddToSelected \in BOOLEAN

Tables == {"users", "selected"}

VARIABLES
  hashv,  \* the hash function in use
  bloom,  \* the bits of the Bloom filters
  table,  \* the two tables
  picked  \* the elements of "selected" came by HASH_SELECT and were not sorted since

hashVars == <<hashv, bloom, table, picked>>

EmptyBucket == [head |-> Null, count |-> 0, mult |-> 0]
Unlinked == [e \in Elts |-> Null]

\* HASH_MAKE_TABLE; a table without a head is not allocated.
MakeTable(head) ==
  [head |-> head, tail |-> head, items |-> 0, ineff |-> 0, noexpand |-> FALSE, filter |-> {},
   buckets |-> [b \in 0 .. InitBuckets - 1 |-> EmptyBucket],
   next |-> Unlinked, prev |-> Unlinked, hnext |-> Unlinked, hprev |-> Unlinked]

NoTable == MakeTable(Null)

HashInit ==
  /\ hashv \in Hashes
  /\ bloom \in Blooms
  /\ table = [t \in Tables |-> NoTable]
  /\ picked = FALSE

-----------------------------------------------------------------------------
(* Buckets.                                                                 *)

NumBuckets(h) == Cardinality(DOMAIN h.buckets)

\* HASH_TO_BKT
Bkt(e, buckets) == hashv[e] % buckets

Chain(h, b) == Follow(h.hnext, h.buckets[b].head, Null, Cardinality(Elts) + 1)

\* The elements chain by chain.
Chains(h) ==
  LET chains[n \in 0 .. NumBuckets(h)] == IF n = 0 THEN << >> ELSE chains[n - 1] \o Chain(h, n - 1)
  IN  chains[NumBuckets(h)]

\* links with the one of e, if there is such an element, set to x.
Link(links, e, x) == IF e = Null THEN links ELSE [links EXCEPT ![e] = x]

\* Mutant of Push: the element that was first is not told of the new one.
PushOneWay(h, b, e) ==
  [h EXCEPT !.buckets[b].count = @ + 1, !.buckets[b].head = e,
            !.hnext[e] = h.buckets[b].head, !.hprev[e] = Null]

\* An element comes first in a chain.
Push(h, b, e) ==
  [h EXCEPT !.buckets[b].count = @ + 1, !.buckets[b].head = e,
            !.hnext[e] = h.buckets[b].head,
            !.hprev = Link([@ EXCEPT ![e] = Null], h.buckets[b].head, e)]

CeilDiv(n, d) == n \div d + (IF n % d > 0 THEN 1 ELSE 0)

\* One element comes into a new bucket, g the table so far and its nonideal_items.
Move(g, e, num, ideal) ==
  LET b == Bkt(e, num)
      p == Push(g.tbl, b, e)
      count == p.buckets[b].count
  IN  IF count > ideal
      THEN [tbl |-> [p EXCEPT !.buckets[b].mult = count \div ideal], nonideal |-> g.nonideal + 1]
      ELSE [tbl |-> p, nonideal |-> g.nonideal]

\* HASH_EXPAND_BUCKETS: chain after chain is moved over.  A chain longer than the ideal
\* puts off its bucket's next expansion, and two expansions that leave most elements
\* too far down their chains are the last.
ExpandBuckets(h) ==
  LET num == 2 * NumBuckets(h)
      ideal == CeilDiv(h.items, num)
      thh == Chains(h)
      new == [h EXCEPT !.buckets = [b \in 0 .. num - 1 |-> EmptyBucket]]
      moved[n \in 0 .. Len(thh)] ==
        IF n = 0 THEN [tbl |-> new, nonideal |-> 0] ELSE Move(moved[n - 1], thh[n], num, ideal)
      all == moved[Len(thh)]
      ineff == IF all.nonideal > h.items \div 2 THEN h.ineff + 1 ELSE 0
  IN  [all.tbl EXCEPT !.ineff = ineff, !.noexpand = @ \/ ineff > 1]

\* HASH_ADD_TO_BKT
AddToBkt(h, e) ==
  LET b == Bkt(e, NumBuckets(h))
      g == Push(h, b, e)
  IN  IF g.buckets[b].count >= (g.buckets[b].mult + 1) * Thresh /\ ~g.noexpand
      THEN ExpandBuckets(g) ELSE g

\* Mutant of DelInBkt: the chain's head stays.
DelInBktNotFirst(h, e) ==
  LET b == Bkt(e, NumBuckets(h))
      pre == h.hprev[e]  post == h.hnext[e]
  IN  [h EXCEPT !.buckets[b].count = @ - 1,
                !.hnext = Link([@ EXCEPT ![e] = Null], pre, post),
                !.hprev = Link([@ EXCEPT ![e] = Null], post, pre)]

\* HASH_DEL_IN_BKT.  (Links of an element outside the table are never read: kept null.)
DelInBkt(h, e) ==
  LET b == Bkt(e, NumBuckets(h))
      pre == h.hprev[e]  post == h.hnext[e]
  IN  [h EXCEPT !.buckets[b].count = @ - 1,
                !.buckets[b].head = IF @ = e THEN post ELSE @,
                !.hnext = Link([@ EXCEPT ![e] = Null], pre, post),
                !.hprev = Link([@ EXCEPT ![e] = Null], post, pre)]

\* HASH_BLOOM_ADD, HASH_BLOOM_TEST
BloomAdd(h, e) == IF bloom = 0 THEN h ELSE [h EXCEPT !.filter = @ \cup {hashv[e] % bloom}]
BloomTest(h, e) == bloom = 0 \/ hashv[e] % bloom \in h.filter

-----------------------------------------------------------------------------
(* Tables.                                                                  *)

\* HASH_FIND of the key of e.
Find(h, e) ==
  IF h.head # Null /\ BloomTest(h, e) /\ Contains(Chain(h, Bkt(e, NumBuckets(h))), e)
  THEN e ELSE Null

\* HASH_ADD_KEYPTR
Add(h, e) ==
  LET g == IF h.head = Null THEN MakeTable(e)
           ELSE [h EXCEPT !.next = Link([@ EXCEPT ![e] = Null], h.tail, e),
                          !.prev[e] = h.tail, !.tail = e]
  IN  BloomAdd(AddToBkt([g EXCEPT !.items = @ + 1], e), e)

\* Mutant of Delete: tail is left at the deleted element.
DeleteKeepsTail(h, e) ==
  LET pre == h.prev[e]  post == h.next[e] IN
  IF pre = Null /\ post = Null THEN NoTable
  ELSE DelInBkt([h EXCEPT !.head = IF pre = Null THEN post ELSE @,
                          !.next = Link([@ EXCEPT ![e] = Null], pre, post),
                          !.prev = Link([@ EXCEPT ![e] = Null], post, pre),
                          !.items = @ - 1], e)

\* HASH_DELETE
Delete(h, e) ==
  LET pre == h.prev[e]  post == h.next[e] IN
  IF pre = Null /\ post = Null THEN NoTable
  ELSE DelInBkt([h EXCEPT !.tail = IF @ = e THEN pre ELSE @,
                          !.head = IF pre = Null THEN post ELSE @,
                          !.next = Link([@ EXCEPT ![e] = Null], pre, post),
                          !.prev = Link([@ EXCEPT ![e] = Null], post, pre),
                          !.items = @ - 1], e)

\* The elements of a table in the order of the application.
Order(h) == Follow(h.next, h.head, Null, Cardinality(Elts) + 1)

\* HASH_SRT
Sort(h) ==
  LET s == MergeSorted(Order(h))
      At(e) == CHOOSE i \in DOMAIN s : s[i] = e
      Linked(links, d) == [e \in Elts |-> IF ~Contains(s, e) THEN links[e]
                                          ELSE IF At(e) + d \in DOMAIN s THEN s[At(e) + d]
                                          ELSE Null]
  IN  IF s = << >> THEN h
      ELSE [h EXCEPT !.next = Linked(@, 1), !.prev = Linked(@, -1),
                     !.head = Head(s), !.tail = Last(s)]

\* The body of HASH_SELECT: e enters behind last.  tail stays.
Enter(g, e) ==
  LET h == IF g.dst.head = Null THEN MakeTable(e) ELSE g.dst
      linked == [h EXCEPT !.prev[e] = g.last, !.next = Link([@ EXCEPT ![e] = Null], g.last, e)]
  IN  [dst |-> [AddToBkt(linked, e) EXCEPT !.items = @ + 1], last |-> e]

\* HASH_SELECT: the elements of cond, in the order of src's chains, enter dst.
Select(dst, src, cond) ==
  LET elts == Picked(Chains(src), cond)
      done[n \in 0 .. Len(elts)] ==
        IF n = 0 THEN [dst |-> dst, last |-> Null] ELSE Enter(done[n - 1], elts[n])
  IN  done[Len(elts)].dst

\* One turn of a HASH_ITER whose body deletes the elements of gone.
Turn(g, gone) ==
  IF g.el = Null THEN g
  ELSE LET d == IF g.el \in gone THEN Delete(g.tbl, g.el) ELSE g.tbl IN
       [tbl |-> d, el |-> g.tmp, tmp |-> IF g.tmp = Null THEN Null ELSE d.next[g.tmp],
        seen |-> Append(g.seen, g.el)]

\* HASH_ITER over a table: the table, and the elements the body has seen.
Iterated(h, gone) ==
  LET turn[n \in 0 .. Cardinality(Elts) + 1] ==
        IF n = 0 THEN [tbl |-> h, el |-> h.head, seen |-> << >>,
                       tmp |-> IF h.head = Null THEN Null ELSE h.next[h.head]]
        ELSE Turn(turn[n - 1], gone)
  IN  turn[Cardinality(Elts) + 1]

-----------------------------------------------------------------------------
(* What a program does with the tables: keys stay unique, and, unless      *)
(* AddToSelected, nothing is added where HASH_SELECT left tail behind.     *)

In(t) == ToSet(Order(table[t]))

MayAdd(t, e) == e \notin In(t) /\ (t = "selected" /\ picked => AddToSelected)

HashAdd(t, e) ==
  /\ MayAdd(t, e)
  /\ table' = [table EXCEPT ![t] = Add(@, e)]
  /\ NumBuckets(table'[t]) <= MaxBuckets
  /\ picked' = (picked /\ table'["selected"].head # Null)
  /\ UNCHANGED <<hashv, bloom>>

HashDelete(t, e) ==
  /\ e \in In(t)
  /\ table' = [table EXCEPT ![t] = Delete(@, e)]
  /\ picked' = (picked /\ table'["selected"].head # Null)
  /\ UNCHANGED <<hashv, bloom>>

HashSort(t) ==
  /\ table' = [table EXCEPT ![t] = Sort(@)]
  /\ picked' = (picked /\ t # "selected")
  /\ UNCHANGED <<hashv, bloom>>

HashSelect(cond) ==
  /\ In("selected") = {}
  /\ table' = [table EXCEPT !["selected"] = Select(@, table["users"], cond)]
  /\ NumBuckets(table'["selected"]) <= MaxBuckets
  /\ picked' = (table'["selected"].head # Null)
  /\ UNCHANGED <<hashv, bloom>>

HashIter(t, gone) ==
  /\ table' = [table EXCEPT ![t] = Iterated(@, gone).tbl]
  /\ picked' = (picked /\ table'["selected"].head # Null)
  /\ UNCHANGED <<hashv, bloom>>

HashClear(t) ==
  /\ table' = [table EXCEPT ![t] = NoTable]
  /\ picked' = (picked /\ table'["selected"].head # Null)
  /\ UNCHANGED <<hashv, bloom>>

HashNext ==
  \/ \E t \in Tables, e \in Elts : HashAdd(t, e) \/ HashDelete(t, e)
  \/ \E t \in Tables : HashSort(t) \/ HashClear(t) \/ \E gone \in SUBSET Elts : HashIter(t, gone)
  \/ \E cond \in SUBSET Elts : HashSelect(cond)

HashSpec == HashInit /\ [][HashNext]_hashVars

-----------------------------------------------------------------------------
(* Properties                                                               *)

\* HASH_FSCK, the check of the code itself: chains and order are linked both ways, and
\* every count is right.
LinkedBack(links, s) ==
  \A i \in DOMAIN s : links[s[i]] = IF i = 1 THEN Null ELSE s[i - 1]

Fsck ==
  \A t \in Tables : LET h == table[t] IN
    /\ \A b \in DOMAIN h.buckets : /\ LinkedBack(h.hprev, Chain(h, b))
                                   /\ h.buckets[b].count = Len(Chain(h, b))
    /\ Len(Chains(h)) = h.items
    /\ LinkedBack(h.prev, Order(h))
    /\ Len(Order(h)) = h.items

\* HASH_FIND finds exactly the elements that are in the table, however many expansions,
\* deletions and selections there were; a Bloom filter never hides one that was added.
\* (HASH_SELECT leaves the filter alone, so that what it selected is hidden by one.)
FindsAll ==
  \A t \in Tables, e \in Elts :
    t = "users" \/ bloom = 0 => (Find(table[t], e) = e <=> e \in In(t))

\* Whatever was done before, the next operation leaves the order of the application as it
\* is to be: an addition goes to its end, a deletion takes its element out, a sort is
\* stable, a selection takes the elements asked for, and an iteration that deletes as it
\* goes visits every element once.
OrderKept ==
  \A t \in Tables :
    LET h == table[t]  old == Order(h) IN
    /\ \A e \in Elts : /\ MayAdd(t, e) => Order(Add(h, e)) = Append(old, e)
                       /\ e \in In(t) => Order(Delete(h, e)) = Picked(old, Elts \ {e})
    /\ StablySorted(old, Order(Sort(h)))
    /\ \A s \in Picks :
         LET it == Iterated(h, s)
             selected == Order(Select(NoTable, h, s))
         IN  /\ it.seen = old /\ Order(it.tbl) = Picked(old, Elts \ s)
             /\ Len(selected) = Cardinality(ToSet(selected)) /\ ToSet(selected) = s \cap In(t)
=============================================================================
