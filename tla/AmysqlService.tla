--------------------------- MODULE AmysqlService ---------------------------
(***************************************************************************)
(* What amysql.h promises for amysql_query(): one query is accepted at a   *)
(* time, and each accepted query is answered by one call of its callback.  *)
(* The next query may be accepted while that callback still runs.          *)
(***************************************************************************)
CONSTANTS Queries, NoQuery

VARIABLES
  waiting,  \* the accepted query whose callback has not been called, if any
  running   \* the query whose callback runs, if any

vars == <<waiting, running>>

Init == waiting = NoQuery /\ running = NoQuery

Ask(q) ==
  /\ waiting = NoQuery
  /\ waiting' = q
  /\ UNCHANGED running

Answer ==
  /\ running = NoQuery
  /\ waiting # NoQuery
  /\ running' = waiting
  /\ waiting' = NoQuery

Return ==
  /\ running # NoQuery
  /\ running' = NoQuery
  /\ UNCHANGED waiting

Next == Answer \/ Return \/ \E q \in Queries : Ask(q)

Spec == Init /\ [][Next]_vars
=============================================================================
