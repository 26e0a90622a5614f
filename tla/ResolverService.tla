-------------------------- MODULE ResolverService --------------------------
(***************************************************************************)
(* What udns promises of the queries submitted to it: each is answered     *)
(* once, by one callback at a time, unless it is cancelled or the resolver *)
(* is closed before.                                                       *)
(***************************************************************************)
CONSTANTS Queries, None

VARIABLES
  pending,  \* queries that may still be answered
  running   \* the query whose callback runs

vars == <<pending, running>>

Init == pending = {} /\ running = None

Submit(q) == q \notin pending /\ pending' = pending \cup {q} /\ UNCHANGED running

Cancel(q) == q \in pending /\ pending' = pending \ {q} /\ UNCHANGED running

Answer(q) == q \in pending /\ running = None /\ pending' = pending \ {q} /\ running' = q

Return == running # None /\ running' = None /\ UNCHANGED pending

Close == running = None /\ pending' = {} /\ UNCHANGED running

Next ==
  \/ \E q \in Queries : Submit(q) \/ Cancel(q) \/ Answer(q)
  \/ Return \/ Close

Spec == Init /\ [][Next]_vars
=============================================================================
