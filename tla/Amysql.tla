------------------------------- MODULE Amysql -------------------------------
(***************************************************************************)
(* amysql/amysql.c: queries to a MySQL server, asynchronous ones from a    *)
(* thread of their own.  The main thread leaves the query in querybuf and  *)
(* wakes the thread AMYSQL with an ev_async watcher; that thread runs      *)
(* query() and wakes the main thread the same way, which calls the         *)
(* callback.  amysql_sync_query() runs query() in the main thread.  All    *)
(* variables are shared, and there is no lock: the flag busy and the two   *)
(* ev_async watchers are all the synchronisation there is.                 *)
(*                                                                         *)
(* A query is a member of Queries, and stands for its text, its callback   *)
(* and its answer.                                                         *)
(***************************************************************************)
EXTENDS Integers

CONSTANTS
  Queries,       \* queries the program makes, any number of times
  NoQuery,       \* no query
  SyncWhenBusy   \* the program calls amysql_sync_query() while it waits for
                 \* the callback of an asynchronous query

ASSUME AmysqlAssumption == NoQuery \notin Queries /\ SyncWhenBusy \in BOOLEAN

Threads == {"main", "worker"}

\* Inside query(): before the buffers are reset, before mysql_query(), before
\* its result is there, and at the label done.
InQuery == {"reset", "send", "result", "done"}

VARIABLES
  started,      \* amysql_init(): not called, done, or thread creation failed
  pc,           \* what each thread does
  back,         \* where amysql_sync_query() was called from
  busy,
  querybuf,
  callback,
  fields,       \* fieldc, fieldv and fieldbuf: whose row they hold, cut or not
  errorNum,     \* error_num
  asyncThread,  \* evasync_thread is pending
  asyncMain,    \* evasync_main is pending
  sent,         \* the query each thread last gave to the server
  failed,       \* whether the last query() of each thread failed
  args,         \* the query whose callback runs, and what it was given
  asked         \* the callback that runs has made a query itself

shared == <<querybuf, fields, errorNum>>
asyncs == <<busy, callback, asyncThread, asyncMain>>
vars == <<started, pc, back, busy, querybuf, callback, fields, errorNum,
          asyncThread, asyncMain, sent, failed, args, asked>>

NoFields == [of |-> NoQuery, cut |-> FALSE]
NoArgs == [query |-> NoQuery, fields |-> NoFields, error |-> FALSE]

Init ==
  /\ started = "no"
  /\ pc = [t \in Threads |-> IF t = "main" THEN "user" ELSE "idle"]
  /\ back = "user"
  /\ busy = FALSE
  /\ querybuf = NoQuery
  /\ callback = NoQuery
  /\ fields = NoFields
  /\ errorNum = 0
  /\ asyncThread = FALSE
  /\ asyncMain = FALSE
  /\ sent = [t \in Threads |-> NoQuery]
  /\ failed = [t \in Threads |-> FALSE]
  /\ args = NoArgs
  /\ asked = FALSE

Goes(t, step) == pc' = [pc EXCEPT ![t] = step]

\* User code of the main thread runs, in a callback or not.
UserRuns == pc["main"] \in {"user", "callback"}

-----------------------------------------------------------------------------
(* query(), in either thread.                                               *)

\* The buffers are emptied.  error_num keeps its value.
Reset(t) ==
  /\ pc[t] = "reset"
  /\ fields' = NoFields
  /\ Goes(t, "send")
  /\ UNCHANGED <<started, back, asyncs, querybuf, errorNum, sent, failed, args, asked>>

Fails(t) ==
  /\ errorNum' = -1
  /\ failed' = [failed EXCEPT ![t] = TRUE]
  /\ Goes(t, "done")
  /\ UNCHANGED <<started, back, asyncs, querybuf, fields, args, asked>>

\* mysql_init(), mysql_real_connect() or mysql_set_character_set() fails.
ConnectFails(t) ==
  /\ pc[t] = "send"
  /\ Fails(t)
  /\ UNCHANGED sent

\* mysql_query() reads querybuf.
SendQuery(t) ==
  /\ pc[t] = "send"
  /\ sent' = [sent EXCEPT ![t] = querybuf]
  /\ Goes(t, "result")
  /\ UNCHANGED <<started, back, asyncs, shared, failed, args, asked>>

\* mysql_query() fails; its timeouts see to it that it ends.
QueryFails(t) ==
  /\ pc[t] = "result"
  /\ Fails(t)
  /\ UNCHANGED sent

\* No result (an INSERT) or no row.
NoRow(t) ==
  /\ pc[t] = "result"
  /\ errorNum' = 0
  /\ failed' = [failed EXCEPT ![t] = FALSE]
  /\ Goes(t, "done")
  /\ UNCHANGED <<started, back, asyncs, querybuf, fields, sent, args, asked>>

\* The row is saved; when the buffer is too small the rest is cut off, and only
\* then is error_num assigned.
SaveRow(t, cut) ==
  /\ pc[t] = "result"
  /\ fields' = [of |-> sent[t], cut |-> cut]
  /\ errorNum' = IF cut THEN 0 ELSE errorNum
  /\ failed' = [failed EXCEPT ![t] = FALSE]
  /\ Goes(t, "done")
  /\ UNCHANGED <<started, back, asyncs, querybuf, sent, args, asked>>

\* Mutant of Finish: the callback is not asked for when the query failed.
FinishQuietly(t) ==
  /\ pc[t] = "done"
  /\ IF t = "worker"
     THEN asyncMain' = (asyncMain \/ ~failed[t]) /\ Goes(t, "idle")
     ELSE Goes(t, back) /\ UNCHANGED asyncMain
  /\ UNCHANGED <<started, back, busy, callback, asyncThread, shared, sent, failed, args, asked>>

\* The end of query_and_evasync(), or of amysql_sync_query().
Finish(t) ==
  /\ pc[t] = "done"
  /\ IF t = "worker"
     THEN asyncMain' = TRUE /\ Goes(t, "idle")
     ELSE Goes(t, back) /\ UNCHANGED asyncMain
  /\ UNCHANGED <<started, back, busy, callback, asyncThread, shared, sent, failed, args, asked>>

QueryStep(t) ==
  \/ Reset(t) \/ ConnectFails(t) \/ SendQuery(t) \/ QueryFails(t) \/ NoRow(t)
  \/ \E cut \in BOOLEAN : SaveRow(t, cut)
  \/ Finish(t)

-----------------------------------------------------------------------------
(* The thread AMYSQL.                                                       *)

\* The loop of the thread takes the pending ev_async and calls
\* query_and_evasync().
Wake ==
  /\ started = "yes"
  /\ pc["worker"] = "idle"
  /\ asyncThread
  /\ asyncThread' = FALSE
  /\ Goes("worker", "reset")
  /\ UNCHANGED <<started, back, busy, callback, asyncMain, shared, sent, failed, args, asked>>

-----------------------------------------------------------------------------
(* The main thread.                                                         *)

\* amysql_init(); ok says whether pthread_create() made the thread.
AmysqlInit(ok) ==
  /\ started = "no"
  /\ UserRuns
  /\ started' = IF ok THEN "yes" ELSE "failed"
  /\ busy' = FALSE
  /\ UNCHANGED <<pc, back, callback, asyncThread, asyncMain, shared, sent, failed, args, asked>>

\* Mutant of Query: busy is not looked at.
QueryAnyway(q) ==
  /\ started # "no"
  /\ UserRuns
  /\ busy' = TRUE
  /\ querybuf' = q
  /\ callback' = q
  /\ asyncThread' = TRUE
  /\ asked' = (pc["main"] = "callback")
  /\ UNCHANGED <<started, pc, back, fields, errorNum, asyncMain, sent, failed, args>>

\* amysql_query(), accepted; while busy it changes nothing.
Query(q) ==
  /\ started # "no"
  /\ UserRuns
  /\ ~busy
  /\ busy' = TRUE
  /\ querybuf' = q
  /\ callback' = q
  /\ asyncThread' = TRUE
  /\ asked' = (pc["main"] = "callback")
  /\ UNCHANGED <<started, pc, back, fields, errorNum, asyncMain, sent, failed, args>>

\* amysql_sync_query(), which does not look at busy.
SyncQuery(q) ==
  /\ UserRuns
  /\ busy => SyncWhenBusy
  /\ querybuf' = q
  /\ back' = pc["main"]
  /\ asked' = (pc["main"] = "callback")
  /\ Goes("main", "reset")
  /\ UNCHANGED <<started, asyncs, fields, errorNum, sent, failed, args>>

\* Mutant of InvokeCallback: the ev_async stays pending.
InvokeCallbackPending ==
  /\ pc["main"] = "user"
  /\ asyncMain
  /\ busy' = FALSE
  /\ args' = [query |-> callback, fields |-> fields, error |-> errorNum # 0]
  /\ asked' = FALSE
  /\ Goes("main", "callback")
  /\ UNCHANGED <<started, back, callback, asyncThread, asyncMain, shared, sent, failed>>

\* invoke_callback(): the loop takes the pending ev_async, and the callback gets
\* pointers to the shared variables.
InvokeCallback ==
  /\ pc["main"] = "user"
  /\ asyncMain
  /\ asyncMain' = FALSE
  /\ busy' = FALSE
  /\ args' = [query |-> callback, fields |-> fields, error |-> errorNum # 0]
  /\ asked' = FALSE
  /\ Goes("main", "callback")
  /\ UNCHANGED <<started, back, callback, asyncThread, shared, sent, failed>>

CallbackReturn ==
  /\ pc["main"] = "callback"
  /\ args' = NoArgs
  /\ asked' = FALSE
  /\ Goes("main", "user")
  /\ UNCHANGED <<started, back, asyncs, shared, sent, failed>>

-----------------------------------------------------------------------------
Next ==
  \/ \E ok \in BOOLEAN : AmysqlInit(ok)
  \/ \E q \in Queries : Query(q) \/ SyncQuery(q)
  \/ InvokeCallback \/ CallbackReturn \/ Wake
  \/ \E t \in Threads : QueryStep(t)

Spec == Init /\ [][Next]_vars

\* Both loops go on, callbacks return, and the calls of the MySQL library end
\* (the connect, read and write timeouts of Config).
Fairness ==
  /\ WF_vars(Wake) /\ WF_vars(InvokeCallback) /\ WF_vars(CallbackReturn)
  /\ \A t \in Threads : WF_vars(QueryStep(t))

FairSpec == Spec /\ Fairness

-----------------------------------------------------------------------------
MaybeQuery == Queries \cup {NoQuery}
FieldsType == [of : MaybeQuery, cut : BOOLEAN]

TypeOK ==
  /\ started \in {"no", "yes", "failed"}
  /\ pc["main"] \in InQuery \cup {"user", "callback"}
  /\ pc["worker"] \in InQuery \cup {"idle"}
  /\ back \in {"user", "callback"}
  /\ busy \in BOOLEAN /\ asyncThread \in BOOLEAN /\ asyncMain \in BOOLEAN
  /\ querybuf \in MaybeQuery /\ callback \in MaybeQuery
  /\ fields \in FieldsType
  /\ errorNum \in {0, -1}
  /\ sent \in [Threads -> MaybeQuery]
  /\ failed \in [Threads -> BOOLEAN]
  /\ args \in [query : MaybeQuery, fields : FieldsType, error : BOOLEAN]
  /\ asked \in BOOLEAN

\* A callback gets the row of its own query, or no row, and what it was given
\* stays as it is until the callback makes a query itself (the comment in
\* invoke_callback()); the busy flag alone keeps the other thread away.
OwnResult ==
  pc["main"] = "callback" /\ ~asked =>
    /\ fields = args.fields
    /\ fields.of \in {args.query, NoQuery}
    /\ failed["worker"] => fields = NoFields

\* One accepted query at a time, and one callback for each: no query is lost,
\* answered twice or answered to the callback of another one.
Promise ==
  INSTANCE AmysqlService WITH
    waiting <- IF busy THEN callback ELSE NoQuery,
    running <- args.query

OneCallbackEach == Promise!Spec

\* An accepted query is answered in the end, also when the server cannot be
\* reached or the query fails.
Answered ==
  \A q \in Queries :
    started = "yes" /\ busy /\ callback = q ~> pc["main"] = "callback" /\ args.query = q
=============================================================================
