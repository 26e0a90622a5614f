---------------------------- MODULE AmysqlProofs ----------------------------
(***************************************************************************)
(* Proofs about Amysql, for any set of queries: how the two threads hand   *)
(* over to each other, that Amysql implements AmysqlService, and that a    *)
(* callback's results are its own; and proofs about AmysqlSave, for        *)
(* buffers of any size and rows of any shape.                              *)
(***************************************************************************)
EXTENDS Amysql, AmysqlSave, TLAPS

USE AmysqlAssumption, AmysqlSaveAssumption

\* pc is a function; TypeOK says only what it has for each thread.
PcType == pc \in [Threads -> InQuery \cup {"user", "callback", "idle"}]

Working == pc["worker"] # "idle"

\* A busy amysql is in one place: on its way to the thread, in the thread, or on
\* its way back.
HandOver ==
  /\ busy <=> asyncThread \/ Working \/ asyncMain
  /\ ~(asyncThread /\ Working) /\ ~(asyncThread /\ asyncMain) /\ ~(Working /\ asyncMain)
  /\ busy => callback \in Queries
  /\ started = "no" => ~busy

\* Whose callback runs.
Calling ==
  /\ pc["main"] = "user" => args.query = NoQuery
  /\ pc["main"] = "callback" => args.query \in Queries
  /\ pc["main"] \in InQuery =>
       IF back = "user" THEN args.query = NoQuery ELSE args.query \in Queries

IInv == TypeOK /\ PcType /\ HandOver /\ Calling

-----------------------------------------------------------------------------
\* TypeOK in two parts: where the threads are, and what they share.
ControlType ==
  /\ PcType
  /\ pc["main"] \in InQuery \cup {"user", "callback"}
  /\ pc["worker"] \in InQuery \cup {"idle"}
  /\ started \in {"no", "yes", "failed"}
  /\ back \in {"user", "callback"}

FlagType ==
  /\ busy \in BOOLEAN
  /\ asyncThread \in BOOLEAN
  /\ asyncMain \in BOOLEAN
  /\ asked \in BOOLEAN

BufferType ==
  /\ querybuf \in MaybeQuery
  /\ callback \in MaybeQuery
  /\ fields \in FieldsType
  /\ errorNum \in {0, -1}
  /\ sent \in [Threads -> MaybeQuery]

FailedType == failed \in [Threads -> BOOLEAN]

ArgsType == args \in [query : MaybeQuery, fields : FieldsType, error : BOOLEAN]

DataType == FlagType /\ BufferType /\ FailedType /\ ArgsType

LEMMA TypeParts == TypeOK /\ PcType <=> ControlType /\ DataType
  BY DEF TypeOK, ControlType, DataType, FlagType, BufferType, FailedType, ArgsType

LEMMA ControlStep == ControlType /\ [Next]_vars => ControlType'
<1> SUFFICES ASSUME ControlType, [Next]_vars
             PROVE  ControlType'
  OBVIOUS
<1> USE DEF ControlType, PcType, Threads, InQuery, Goes, UserRuns
<1>1. ASSUME NEW ok \in BOOLEAN, AmysqlInit(ok)
      PROVE  ControlType'
  BY <1>1 DEF AmysqlInit
<1>2. ASSUME NEW q \in Queries, Query(q) \/ SyncQuery(q)
      PROVE  ControlType'
  BY <1>2 DEF Query, SyncQuery
<1>3. CASE InvokeCallback \/ CallbackReturn \/ Wake
  BY <1>3 DEF InvokeCallback, CallbackReturn, Wake
<1>4. ASSUME NEW t \in Threads, QueryStep(t)
      PROVE  ControlType'
  <2>1. CASE Reset(t) \/ ConnectFails(t) \/ SendQuery(t) \/ QueryFails(t) \/ NoRow(t)
    BY <2>1 DEF Reset, ConnectFails, SendQuery, QueryFails, NoRow, Fails
  <2>2. ASSUME NEW cut \in BOOLEAN, SaveRow(t, cut)
        PROVE  ControlType'
    BY <2>2 DEF SaveRow
  <2>3. CASE Finish(t)
    BY <2>3 DEF Finish
  <2> QED
    BY <1>4, <2>1, <2>2, <2>3 DEF QueryStep
<1>5. CASE UNCHANGED vars
  BY <1>5 DEF vars
<1> QED
  BY <1>1, <1>2, <1>3, <1>4, <1>5 DEF Next

LEMMA FlagStep == FlagType /\ [Next]_vars => FlagType'
<1> SUFFICES ASSUME FlagType, [Next]_vars
             PROVE  FlagType'
  OBVIOUS
<1> USE DEF FlagType, asyncs
<1>1. ASSUME NEW ok \in BOOLEAN, AmysqlInit(ok)
      PROVE  FlagType'
  BY <1>1 DEF AmysqlInit
<1>2. ASSUME NEW q \in Queries, Query(q)
      PROVE  FlagType'
  BY <1>2 DEF Query
<1>3. ASSUME NEW q \in Queries, SyncQuery(q)
      PROVE  FlagType'
  BY <1>3 DEF SyncQuery
<1>4. CASE InvokeCallback
  BY <1>4 DEF InvokeCallback
<1>5. CASE CallbackReturn
  BY <1>5 DEF CallbackReturn
<1>6. CASE Wake
  BY <1>6 DEF Wake
<1>7. ASSUME NEW t \in Threads, QueryStep(t)
      PROVE  FlagType'
  BY <1>7 DEF QueryStep, Reset, ConnectFails, SendQuery, QueryFails, NoRow, Fails, SaveRow, Finish
<1>8. CASE UNCHANGED vars
  BY <1>8 DEF vars
<1> QED
  BY <1>1, <1>2, <1>3, <1>4, <1>5, <1>6, <1>7, <1>8 DEF Next

LEMMA BufferStep == BufferType /\ [Next]_vars => BufferType'
<1> SUFFICES ASSUME BufferType, [Next]_vars
             PROVE  BufferType'
  OBVIOUS
<1> USE DEF BufferType, MaybeQuery, FieldsType, shared, asyncs
<1>1. ASSUME NEW ok \in BOOLEAN, AmysqlInit(ok)
      PROVE  BufferType'
  BY <1>1 DEF AmysqlInit
<1>2. ASSUME NEW q \in Queries, Query(q) \/ SyncQuery(q)
      PROVE  BufferType'
  BY <1>2 DEF Query, SyncQuery
<1>3. CASE InvokeCallback \/ CallbackReturn \/ Wake
  BY <1>3 DEF InvokeCallback, CallbackReturn, Wake
<1>4. ASSUME NEW t \in Threads, QueryStep(t)
      PROVE  BufferType'
  <2>0. NoFields \in FieldsType
    BY DEF NoFields
  <2>1. CASE Reset(t)
    BY <2>0, <2>1 DEF Reset
  <2>2. CASE ConnectFails(t) \/ QueryFails(t) \/ NoRow(t)
    BY <2>2 DEF ConnectFails, QueryFails, Fails, NoRow
  <2>3. CASE SendQuery(t) \/ Finish(t)
    BY <2>3 DEF SendQuery, Finish
  <2>4. ASSUME NEW cut \in BOOLEAN, SaveRow(t, cut)
        PROVE  BufferType'
    BY <2>4 DEF SaveRow
  <2> QED
    BY <1>4, <2>1, <2>2, <2>3, <2>4 DEF QueryStep
<1>5. CASE UNCHANGED vars
  BY <1>5 DEF vars
<1> QED
  BY <1>1, <1>2, <1>3, <1>4, <1>5 DEF Next

LEMMA FailedStep == FailedType /\ [Next]_vars => FailedType'
<1> SUFFICES ASSUME FailedType, [Next]_vars
             PROVE  FailedType'
  OBVIOUS
<1>1. \/ UNCHANGED failed
      \/ \E t \in Threads, b \in BOOLEAN : failed' = [failed EXCEPT ![t] = b]
  BY DEF Next, vars, shared, asyncs, AmysqlInit, Query, SyncQuery, InvokeCallback, CallbackReturn, Wake,
         QueryStep, Reset, ConnectFails, SendQuery, QueryFails, NoRow, Fails, SaveRow, Finish
<1> QED
  BY <1>1 DEF FailedType

LEMMA ArgsStep == DataType /\ [Next]_vars => ArgsType'
<1> SUFFICES ASSUME DataType, [Next]_vars
             PROVE  ArgsType'
  OBVIOUS
<1>1. CASE InvokeCallback
  BY <1>1 DEF InvokeCallback, ArgsType, DataType, BufferType
<1>2. CASE CallbackReturn
  BY <1>2 DEF CallbackReturn, ArgsType, NoArgs, NoFields, MaybeQuery, FieldsType
<1>3. CASE ~InvokeCallback /\ ~CallbackReturn
  <2>1. UNCHANGED args
    BY <1>3 DEF Next, vars, AmysqlInit, Query, SyncQuery, Wake, QueryStep, Reset, ConnectFails,
                SendQuery, QueryFails, NoRow, Fails, SaveRow, Finish
  <2> QED
    BY <2>1 DEF DataType, ArgsType
<1> QED
  BY <1>1, <1>2, <1>3

LEMMA DataStep == DataType /\ [Next]_vars => DataType'
  BY FlagStep, BufferStep, FailedStep, ArgsStep DEF DataType

LEMMA TypeStep == TypeOK /\ PcType /\ [Next]_vars => TypeOK' /\ PcType'
<1>1. TypeOK' /\ PcType' <=> ControlType' /\ DataType'
  BY DEF TypeOK, ControlType, DataType, FlagType, BufferType, FailedType, ArgsType
<1> QED
  BY <1>1, TypeParts, ControlStep, DataStep

LEMMA TypeInit == Init => TypeOK /\ PcType
<1>1. Init => ControlType
  BY DEF Init, ControlType, PcType, Threads, InQuery
<1>2. Init => FlagType
  BY DEF Init, FlagType
<1>3. Init => BufferType
  BY DEF Init, BufferType, MaybeQuery, FieldsType, NoFields
<1>4. Init => FailedType
  BY DEF Init, FailedType
<1>5. Init => ArgsType
  BY DEF Init, ArgsType, MaybeQuery, FieldsType, NoFields, NoArgs
<1> QED
  BY <1>1, <1>2, <1>3, <1>4, <1>5, TypeParts DEF DataType

\* The variables keep their types: each thread stays in its own code.
THEOREM TypeCorrect == Spec => []TypeOK
<1>1. TypeOK /\ PcType /\ [Next]_vars => (TypeOK /\ PcType)'
  BY TypeStep
<1> QED
  BY <1>1, TypeInit, PTL DEF Spec

-----------------------------------------------------------------------------
\* Inside query() nothing is handed over, except by the thread at its end.
LEMMA QueryStepEffect ==
  ASSUME TypeOK, PcType, NEW t \in Threads, QueryStep(t)
  PROVE  /\ pc[t] \in InQuery
         /\ UNCHANGED <<started, back, busy, callback, asyncThread, args, asked>>
         /\ \A u \in Threads \ {t} : pc'[u] = pc[u] /\ failed'[u] = failed[u] /\ sent'[u] = sent[u]
         /\ \/ pc'[t] \in InQuery /\ asyncMain' = asyncMain
            \/ Finish(t)
<1> USE DEF TypeOK, PcType, Goes, InQuery
<1>1. CASE Finish(t)
  BY <1>1 DEF Finish, shared
<1>2. CASE Reset(t) \/ ConnectFails(t) \/ SendQuery(t) \/ QueryFails(t) \/ NoRow(t)
  BY <1>2 DEF Reset, ConnectFails, SendQuery, QueryFails, NoRow, Fails, asyncs
<1>3. ASSUME NEW cut \in BOOLEAN, SaveRow(t, cut)
      PROVE  /\ pc[t] \in InQuery
             /\ UNCHANGED <<started, back, busy, callback, asyncThread, args, asked>>
             /\ \A u \in Threads \ {t} : pc'[u] = pc[u] /\ failed'[u] = failed[u] /\ sent'[u] = sent[u]
             /\ pc'[t] \in InQuery /\ asyncMain' = asyncMain
  BY <1>3 DEF SaveRow, asyncs
<1> QED
  BY <1>1, <1>2, <1>3 DEF QueryStep

LEMMA HandOverStep == IInv /\ [Next]_vars => HandOver' /\ Calling'
<1> SUFFICES ASSUME IInv, [Next]_vars
             PROVE  HandOver' /\ Calling'
  OBVIOUS
<1> USE DEF IInv, HandOver, Calling, Working
<1>0. TypeOK /\ PcType
  OBVIOUS
<1>1. ASSUME NEW ok \in BOOLEAN, AmysqlInit(ok)
      PROVE  HandOver' /\ Calling'
  BY <1>1 DEF AmysqlInit, shared
<1>2. ASSUME NEW q \in Queries, Query(q)
      PROVE  HandOver' /\ Calling'
  BY <1>2 DEF Query
<1>3. ASSUME NEW q \in Queries, SyncQuery(q)
      PROVE  HandOver' /\ Calling'
  BY <1>3 DEF SyncQuery, asyncs, Goes, PcType, UserRuns, Threads
<1>4. CASE InvokeCallback
  BY <1>4 DEF InvokeCallback, Goes, PcType, Threads, InQuery
<1>5. CASE CallbackReturn
  BY <1>5 DEF CallbackReturn, asyncs, Goes, PcType, Threads, InQuery, NoArgs
<1>6. CASE Wake
  BY <1>6 DEF Wake, Goes, PcType, Threads
<1>7. ASSUME NEW t \in Threads, QueryStep(t)
      PROVE  HandOver' /\ Calling'
  <2>1. CASE t = "worker"
    BY <1>0, <1>7, <2>1, QueryStepEffect DEF Finish, Goes, PcType, Threads, InQuery
  <2>2. CASE t = "main"
    BY <1>0, <1>7, <2>2, QueryStepEffect DEF Finish, Goes, PcType, TypeOK, Threads, InQuery
  <2> QED
    BY <2>1, <2>2 DEF Threads
<1>8. CASE UNCHANGED vars
  BY <1>8 DEF vars
<1> QED
  BY <1>1, <1>2, <1>3, <1>4, <1>5, <1>6, <1>7, <1>8 DEF Next

LEMMA IInvInvariant == Spec => []IInv
<1>1. Init => IInv
  BY TypeInit DEF Init, IInv, HandOver, Calling, Working, Threads, InQuery, NoArgs
<1>2. IInv /\ [Next]_vars => IInv'
  BY TypeStep, HandOverStep DEF IInv
<1> QED
  BY <1>1, <1>2, PTL DEF Spec

-----------------------------------------------------------------------------
\* Every step of Amysql is one of AmysqlService or leaves its variables alone.
LEMMA PromiseStep == IInv /\ [Next]_vars => [Promise!Next]_(Promise!vars)
<1> SUFFICES ASSUME IInv, [Next]_vars
             PROVE  [Promise!Next]_(Promise!vars)
  OBVIOUS
<1> USE DEF Promise!Next, Promise!vars, Promise!Ask, Promise!Answer, Promise!Return
<1>1. ASSUME NEW ok \in BOOLEAN, AmysqlInit(ok)
      PROVE  UNCHANGED Promise!vars
  BY <1>1 DEF AmysqlInit, IInv, HandOver
<1>2. ASSUME NEW q \in Queries, Query(q)
      PROVE  Promise!Next
  BY <1>2 DEF Query
<1>3. ASSUME NEW q \in Queries, SyncQuery(q)
      PROVE  UNCHANGED Promise!vars
  BY <1>3 DEF SyncQuery, asyncs
<1>4. CASE InvokeCallback
  <2>1. busy /\ callback \in Queries /\ args.query = NoQuery
    BY <1>4 DEF InvokeCallback, IInv, HandOver, Calling
  <2>2. ~busy' /\ args'.query = callback
    BY <1>4 DEF InvokeCallback
  <2> QED
    BY <2>1, <2>2
<1>5. CASE CallbackReturn
  BY <1>5 DEF CallbackReturn, asyncs, NoArgs, IInv, Calling
<1>6. CASE Wake
  BY <1>6 DEF Wake
<1>7. ASSUME NEW t \in Threads, QueryStep(t)
      PROVE  UNCHANGED Promise!vars
  BY <1>7, QueryStepEffect DEF IInv
<1>8. CASE UNCHANGED vars
  BY <1>8 DEF vars
<1> QED
  BY <1>1, <1>2, <1>3, <1>4, <1>5, <1>6, <1>7, <1>8 DEF Next

\* Each accepted query is answered by one call of its own callback, and the next
\* one is accepted only then: busy and the two watchers are enough for that,
\* whatever the queries do and whichever thread runs when.
THEOREM Implements == Spec => OneCallbackEach
<1>1. Init => Promise!Init
  BY DEF Init, Promise!Init, NoArgs
<1> QED
  BY <1>1, PromiseStep, IInvInvariant, PTL DEF Spec, OneCallbackEach, Promise!Spec

-----------------------------------------------------------------------------
\* The program makes no synchronous query while it waits for a callback.  What
\* the worker has of the query it runs, and what it leaves for the callback.
NoOtherUser ==
  /\ pc["main"] \in InQuery => ~busy /\ (back = "callback" => asked)
  /\ pc["main"] = "callback" /\ ~asked => ~busy

QueryInPlace ==
  /\ asyncThread \/ pc["worker"] \in {"reset", "send"} => querybuf = callback
  /\ pc["worker"] \in {"send", "result"} => fields = NoFields
  /\ pc["worker"] = "result" => sent["worker"] = callback

ResultInPlace ==
  pc["worker"] = "done" \/ asyncMain =>
    /\ fields.of \in {callback, NoQuery}
    /\ failed["worker"] => fields = NoFields

Results == NoOtherUser /\ QueryInPlace /\ ResultInPlace /\ OwnResult

\* The synchronous query of a program like that meets no other query.
LEMMA MainQueryStep ==
  ASSUME IInv, Results, QueryStep("main")
  PROVE  Results'
<1>1. pc["main"] \in InQuery /\ ~busy /\ (back = "callback" => asked)
  BY DEF QueryStep, Reset, ConnectFails, SendQuery, QueryFails, NoRow, SaveRow, Finish, InQuery,
         Results, NoOtherUser
<1>2. ~asyncThread /\ pc["worker"] = "idle" /\ ~asyncMain
  BY <1>1 DEF IInv, HandOver, Working
<1>3. UNCHANGED <<back, busy, callback, asyncThread, args, asked>> /\ pc'["worker"] = "idle"
  BY <1>2, QueryStepEffect DEF IInv, Threads
<1>4. ~asyncMain' /\ (pc'["main"] \in InQuery \/ pc'["main"] = back)
  BY <1>1, <1>2, QueryStepEffect DEF IInv, Threads, Finish, Goes, PcType
<1>5. NoOtherUser'
  BY <1>1, <1>3, <1>4 DEF NoOtherUser, InQuery
<1>6. QueryInPlace' /\ ResultInPlace'
  BY <1>2, <1>3, <1>4 DEF QueryInPlace, ResultInPlace
<1>7. OwnResult'
  BY <1>1, <1>3, <1>4 DEF OwnResult, InQuery
<1> QED
  BY <1>5, <1>6, <1>7 DEF Results

\* The thread works on the accepted query, and no callback reads its results yet.
LEMMA WorkerQueryStep ==
  ASSUME IInv, Results, QueryStep("worker")
  PROVE  Results'
<1>1. pc["worker"] \in InQuery
  BY DEF QueryStep, Reset, ConnectFails, SendQuery, QueryFails, NoRow, SaveRow, Finish, InQuery
<1>2. busy /\ ~asyncThread /\ ~asyncMain
  BY <1>1 DEF IInv, HandOver, Working, InQuery
<1>3. pc["main"] \notin InQuery /\ (pc["main"] = "callback" => asked)
  BY <1>2 DEF Results, NoOtherUser
<1>4. /\ UNCHANGED <<back, busy, callback, asyncThread, args, asked>>
      /\ pc'["main"] = pc["main"]
  BY QueryStepEffect DEF IInv, Threads
<1>5. NoOtherUser' /\ OwnResult'
  BY <1>3, <1>4 DEF NoOtherUser, OwnResult
<1>6. QueryInPlace' /\ ResultInPlace'
  <2> USE <1>2, <1>4 DEF QueryInPlace, ResultInPlace, Goes, shared, asyncs, Threads
  <2>0. QueryInPlace /\ PcType /\ sent \in [Threads -> MaybeQuery] /\ failed \in [Threads -> BOOLEAN]
    BY DEF Results, IInv, TypeOK
  <2>1. CASE Reset("worker")
    BY <2>0, <2>1 DEF Reset, PcType
  <2>2. CASE ConnectFails("worker") \/ QueryFails("worker")
    BY <2>0, <2>2 DEF ConnectFails, QueryFails, Fails, PcType, NoFields
  <2>3. CASE SendQuery("worker")
    BY <2>0, <2>3 DEF SendQuery, PcType
  <2>4. CASE NoRow("worker")
    BY <2>0, <2>4 DEF NoRow, PcType, NoFields
  <2>5. ASSUME NEW cut \in BOOLEAN, SaveRow("worker", cut)
        PROVE  QueryInPlace' /\ ResultInPlace'
    BY <2>0, <2>5 DEF SaveRow, PcType
  <2>6. CASE Finish("worker")
    BY <2>0, <2>6 DEF Finish, PcType, Results
  <2> QED
    BY <2>1, <2>2, <2>3, <2>4, <2>5, <2>6 DEF QueryStep
<1> QED
  BY <1>5, <1>6 DEF Results

LEMMA ResultsStep ==
  ASSUME ~SyncWhenBusy
  PROVE  IInv /\ Results /\ [Next]_vars => Results'
<1> SUFFICES ASSUME IInv, Results, [Next]_vars
             PROVE  Results'
  OBVIOUS
<1> USE DEF Results, NoOtherUser, QueryInPlace, ResultInPlace, OwnResult
<1>1. ASSUME NEW ok \in BOOLEAN, AmysqlInit(ok)
      PROVE  Results'
  BY <1>1 DEF AmysqlInit, shared, IInv, HandOver
<1>2. ASSUME NEW q \in Queries, Query(q)
      PROVE  Results'
  BY <1>2 DEF Query, UserRuns, InQuery, IInv, HandOver, Working
<1>3. ASSUME NEW q \in Queries, SyncQuery(q)
      PROVE  Results'
  BY <1>3 DEF SyncQuery, asyncs, Goes, UserRuns, Threads, InQuery, IInv, HandOver, Working, PcType
<1>4. CASE InvokeCallback
  BY <1>4 DEF InvokeCallback, Goes, shared, Threads, InQuery, IInv, HandOver, Working, PcType
<1>5. CASE CallbackReturn
  BY <1>5 DEF CallbackReturn, asyncs, shared, Goes, Threads, InQuery, IInv, PcType
<1>6. CASE Wake
  BY <1>6 DEF Wake, shared, Goes, Threads, InQuery, IInv, HandOver, Working, PcType
<1>7. ASSUME NEW t \in Threads, QueryStep(t)
      PROVE  Results'
  <2>1. t = "main" \/ t = "worker"
    BY DEF Threads
  <2> QED
    BY <1>7, <2>1, MainQueryStep, WorkerQueryStep
<1>8. CASE UNCHANGED vars
  BY <1>8 DEF vars
<1> QED
  BY <1>1, <1>2, <1>3, <1>4, <1>5, <1>6, <1>7, <1>8 DEF Next

\* In a program that makes no synchronous query while it waits for a callback,
\* every callback gets the row of its own query or no row, and the row stays as
\* it is until the callback makes a query itself.
THEOREM ResultIsOwn ==
  ASSUME ~SyncWhenBusy
  PROVE  Spec => []OwnResult
<1>1. Init => Results
  BY DEF Init, Results, NoOtherUser, QueryInPlace, ResultInPlace, OwnResult, Threads, InQuery
<1>2. IInv /\ Results /\ [Next]_vars => Results'
  BY ResultsStep
<1>3. Results => OwnResult
  BY DEF Results
<1> QED
  BY <1>1, <1>2, <1>3, IInvInvariant, PTL DEF Spec

-----------------------------------------------------------------------------
\* Save: the fields of a row, copied into fieldbuf.

\* fieldbuf holds nothing yet from rpos on.
RestIsNul == \A o \in Offsets : o >= rpos => fieldbuf[o] = Nul

\* The field being copied: its first i bytes end at rpos.
Copied ==
  label = "byte" =>
    /\ fieldv[fieldc] # Null
    /\ fieldv[fieldc] + i = rpos
    /\ i <= row[fieldc]
    /\ \A j \in 0 .. i - 1 : fieldbuf[fieldv[fieldc] + j] = <<fieldc, j>>

\* Field k is saved, all of it, in the part of the buffer that is written.
Whole(k) == Holds(k, row[k]) /\ fieldv[k] + row[k] < rpos

\* Field k is the one the row was cut off in.
Cut(k) == label = "done" /\ k = fieldc - 1 /\ \E n \in 0 .. row[k] : Holds(k, n)

Saved ==
  \A k \in 0 .. fieldc - 1 :
    /\ row[k] = Null => fieldv[k] = Null
    /\ row[k] # Null => fieldv[k] # Null /\ (Whole(k) \/ Cut(k))

Complete == label = "done" /\ fieldc < numFields => fieldc = VSize \/ rpos = BufSize - 1

\* The inductive invariant.
SavedInv == SaveTypeOK /\ LastByteKept /\ RestIsNul /\ Copied /\ Saved /\ Complete

-----------------------------------------------------------------------------
\* The variables keep their types: rpos stays inside fieldbuf and fieldc inside
\* fieldv and the row (query(), the guards of the loops of Save).
LEMMA TypeAndRoomStep ==
  SaveTypeOK /\ LastByteKept /\ [SaveNext]_saveVars => SaveTypeOK' /\ LastByteKept'
<1> SUFFICES ASSUME SaveTypeOK, LastByteKept, [SaveNext]_saveVars
             PROVE  SaveTypeOK' /\ LastByteKept'
  OBVIOUS
<1> USE DEF SaveTypeOK, LastByteKept, Offsets, RowsOf, Null, Nul, Bytes
<1>1. CASE RowEnd
  BY <1>1 DEF RowEnd
<1>2. CASE NullField
  BY <1>2 DEF NullField, More
<1>3. CASE BeginField
  BY <1>3 DEF BeginField, More
<1>4. CASE CopyByte
  <2>1. fieldc \in Nat /\ i \in Nat /\ <<fieldc, i>> \in Bytes
    OBVIOUS
  <2>2. rpos \in 0 .. BufSize - 2 /\ rpos' = rpos + 1
    BY <1>4 DEF CopyByte
  <2>3. fieldbuf' \in [Offsets -> Bytes] /\ fieldbuf'[BufSize - 1] = Nul
    BY <1>4, <2>1, <2>2 DEF CopyByte
  <2>4. i + 1 \in 0 .. MaxLength
    BY <1>4 DEF CopyByte
  <2>5. CASE Full(rpos + 1)
    BY <1>4, <2>2, <2>3, <2>5 DEF CopyByte
  <2>6. CASE ~Full(rpos + 1)
    <3>1. rpos' < BufSize - 1
      BY <2>2, <2>6 DEF Full
    <3> QED
      BY <1>4, <2>2, <2>3, <2>4, <2>6, <3>1 DEF CopyByte
  <2> QED
    BY <2>5, <2>6
<1>5. CASE EndField
  <2>1. rpos \in 0 .. BufSize - 2 /\ rpos' = rpos + 1
    BY <1>5 DEF EndField
  <2>2. fieldbuf' \in [Offsets -> Bytes] /\ fieldbuf'[BufSize - 1] = Nul
    BY <1>5, <2>1 DEF EndField
  <2> QED
    BY <1>5, <2>1, <2>2 DEF EndField, Full
<1>6. CASE UNCHANGED saveVars
  BY <1>6 DEF saveVars
<1> QED
  BY <1>1, <1>2, <1>3, <1>4, <1>5, <1>6 DEF SaveNext

LEMMA TypeAndRoomInit == SaveInit => SaveTypeOK /\ LastByteKept
  BY DEF SaveInit, SaveTypeOK, LastByteKept, Offsets, RowsOf, Null, Nul, Bytes

\* The copying keeps to its buffers: no index ever leaves fieldbuf, fieldv or
\* the row.
THEOREM SaveTypeCorrect == SaveSpec => []SaveTypeOK
<1>1. SaveTypeOK /\ LastByteKept /\ [SaveNext]_saveVars => (SaveTypeOK /\ LastByteKept)'
  BY TypeAndRoomStep
<1> QED
  BY TypeAndRoomInit, <1>1, PTL DEF SaveSpec

\* The last byte of fieldbuf stays zero, so every string in it is ended.
THEOREM LastByteIsKept == SaveSpec => []LastByteKept
<1>1. SaveTypeOK /\ LastByteKept /\ [SaveNext]_saveVars => (SaveTypeOK /\ LastByteKept)'
  BY TypeAndRoomStep
<1> QED
  BY TypeAndRoomInit, <1>1, PTL DEF SaveSpec

-----------------------------------------------------------------------------
LEMMA InvInit == SaveInit => SavedInv
  BY TypeAndRoomInit
  DEF SaveInit, SavedInv, SaveTypeOK, RestIsNul, Copied, Saved, Complete, Offsets, Null, Nul

\* A write at rpos leaves the fields alone that are whole: they end before it.
LEMMA WholeStays ==
  ASSUME SavedInv, NEW k \in 0 .. fieldc - 1, Whole(k), row[k] # Null, fieldv[k] # Null,
         UNCHANGED row, fieldv'[k] = fieldv[k], rpos' \in Nat, rpos' >= rpos,
         \A o \in Offsets : o < rpos => fieldbuf'[o] = fieldbuf[o]
  PROVE  Whole(k)'
<1>1. row[k] \in Nat /\ fieldv[k] \in Nat /\ rpos \in Nat
  BY DEF SavedInv, SaveTypeOK, RowsOf, Offsets, Null
<1>2. fieldv[k] + row[k] < rpos /\ rpos < BufSize
  BY DEF Whole, SavedInv, SaveTypeOK, Offsets
<1>3. \A j \in 0 .. row[k] : fieldbuf'[fieldv[k] + j] = fieldbuf[fieldv[k] + j]
  BY <1>1, <1>2 DEF Offsets
<1>4. \A j \in 0 .. row[k] - 1 : fieldbuf'[fieldv[k] + j] = <<k, j>>
  <2> SUFFICES ASSUME NEW j \in 0 .. row[k] - 1
               PROVE  fieldbuf'[fieldv[k] + j] = <<k, j>>
    OBVIOUS
  <2>1. fieldbuf[fieldv[k] + j] = <<k, j>>
    BY DEF Whole, Holds
  <2>2. j \in 0 .. row[k]
    BY <1>1
  <2> QED
    BY <1>3, <2>1, <2>2
<1>5. fieldbuf'[fieldv[k] + row[k]] = Nul
  BY <1>1, <1>3 DEF Whole, Holds
<1>6. fieldv[k] + row[k] < BufSize /\ fieldv[k] + row[k] < rpos'
  BY <1>1, <1>2
<1>7. row'[k] = row[k]
  OBVIOUS
<1> QED
  BY <1>4, <1>5, <1>6, <1>7, Zenon DEF Whole, Holds

LEMMA InvStep == SavedInv /\ [SaveNext]_saveVars => SavedInv'
<1> SUFFICES ASSUME SavedInv, [SaveNext]_saveVars
             PROVE  SavedInv'
  OBVIOUS
<1>1. SaveTypeOK' /\ LastByteKept'
  BY TypeAndRoomStep DEF SavedInv
<1> USE DEF SavedInv
<1>2. CASE RowEnd
  <2>1. RestIsNul' /\ Copied'
    BY <1>2 DEF RowEnd, RestIsNul, Copied
  <2>2. Saved'
    <3> SUFFICES ASSUME NEW k \in 0 .. fieldc - 1, row[k] # Null
                 PROVE  Whole(k)'
      BY <1>2 DEF RowEnd, Saved
    <3>1. Whole(k) /\ fieldv[k] # Null
      BY <1>2 DEF RowEnd, Saved, Cut
    <3> QED
      BY <3>1, <1>2 DEF RowEnd, Whole, Holds
  <2>3. Complete'
    BY <1>2 DEF RowEnd, Complete, SaveTypeOK
  <2> QED
    BY <1>1, <2>1, <2>2, <2>3
<1>3. CASE NullField
  <2>1. RestIsNul' /\ Copied' /\ Complete'
    BY <1>3 DEF NullField, More, RestIsNul, Copied, Complete
  <2>2. Saved'
    <3> SUFFICES ASSUME NEW k \in 0 .. fieldc
                 PROVE  /\ row[k] = Null => fieldv'[k] = Null
                        /\ row[k] # Null => fieldv'[k] # Null /\ Whole(k)'
      BY <1>3 DEF NullField, Saved, SaveTypeOK
    <3>1. CASE k = fieldc
      BY <1>3, <3>1 DEF NullField, More, SaveTypeOK
    <3>2. CASE k < fieldc
      <4>1. k \in 0 .. fieldc - 1 /\ fieldv'[k] = fieldv[k] /\ UNCHANGED <<row, rpos, fieldbuf>>
        BY <1>3, <3>2 DEF NullField, More, SaveTypeOK
      <4>2. row[k] # Null => Whole(k) /\ fieldv[k] # Null
        BY <1>3, <4>1 DEF NullField, More, Saved, Cut
      <4>3. rpos' \in Nat /\ rpos' >= rpos
        BY <4>1 DEF SaveTypeOK, Offsets
      <4> QED
        BY <4>1, <4>2, <4>3, WholeStays DEF Saved
    <3> QED
      BY <3>1, <3>2 DEF SaveTypeOK
  <2> QED
    BY <1>1, <2>1, <2>2
<1>4. CASE BeginField
  <2>1. RestIsNul' /\ Complete'
    BY <1>4 DEF BeginField, RestIsNul, Complete
  <2>2. row[fieldc] \in Nat /\ rpos \in Nat /\ fieldc \in 0 .. VSize - 1
    BY <1>4 DEF BeginField, More, SaveTypeOK, RowsOf, Null, Offsets
  <2>3. Copied'
    BY <1>4, <2>2 DEF BeginField, Copied, SaveTypeOK, Null
  <2>4. Saved'
    <3> SUFFICES ASSUME NEW k \in 0 .. fieldc - 1
                 PROVE  /\ row[k] = Null => fieldv'[k] = Null
                        /\ row[k] # Null => fieldv'[k] # Null /\ Whole(k)'
      BY <1>4 DEF BeginField, Saved
    <3>1. fieldv'[k] = fieldv[k] /\ UNCHANGED <<row, rpos, fieldbuf>>
      BY <1>4, <2>2 DEF BeginField, SaveTypeOK
    <3>2. row[k] # Null => Whole(k) /\ fieldv[k] # Null
      BY <1>4 DEF BeginField, More, Saved, Cut
    <3>3. rpos' \in Nat /\ rpos' >= rpos
      BY <3>1, <2>2
    <3> QED
      BY <3>1, <3>2, <3>3, WholeStays DEF Saved
  <2> QED
    BY <1>1, <2>1, <2>3, <2>4
<1>5. CASE CopyByte
  <2>1. /\ rpos \in 0 .. BufSize - 2 /\ rpos' = rpos + 1
        /\ fieldbuf' = [fieldbuf EXCEPT ![rpos] = <<fieldc, i>>]
        /\ fieldbuf \in [Offsets -> Bytes]
        /\ UNCHANGED <<row, numFields, fieldv>>
    BY <1>5 DEF CopyByte, SaveTypeOK, LastByteKept, Offsets
  <2>2. /\ row[fieldc] \in Nat /\ i \in Nat /\ i < row[fieldc]
        /\ fieldc \in Nat /\ fieldc < numFields /\ fieldc < VSize
    BY <1>5 DEF CopyByte, SaveTypeOK, RowsOf, Null
  <2>3. /\ fieldv[fieldc] \in Nat /\ fieldv[fieldc] + i = rpos
        /\ \A j \in 0 .. i : fieldbuf'[fieldv[fieldc] + j] = <<fieldc, j>>
    <3>1. fieldv[fieldc] \in Nat /\ fieldv[fieldc] + i = rpos
      BY <1>5, <2>2 DEF CopyByte, Copied, SaveTypeOK, Offsets, Null
    <3>2. \A j \in 0 .. i - 1 : fieldbuf'[fieldv[fieldc] + j] = <<fieldc, j>>
      BY <1>5, <2>1, <2>2, <3>1 DEF CopyByte, Copied, Offsets
    <3>3. fieldbuf'[fieldv[fieldc] + i] = <<fieldc, i>>
      BY <2>1, <3>1 DEF Offsets
    <3> QED
      BY <3>1, <3>2, <3>3, <2>2
  <2>4. RestIsNul'
    BY <2>1 DEF RestIsNul, Offsets
  <2>5. \A k \in 0 .. fieldc - 1 :
          /\ row[k] = Null => fieldv[k] = Null
          /\ row[k] # Null => fieldv[k] # Null /\ Whole(k)'
    <3> SUFFICES ASSUME NEW k \in 0 .. fieldc - 1
                 PROVE  /\ row[k] = Null => fieldv[k] = Null
                        /\ row[k] # Null => fieldv[k] # Null /\ Whole(k)'
      OBVIOUS
    <3>1. row[k] # Null => Whole(k) /\ fieldv[k] # Null
      BY <1>5 DEF CopyByte, Saved, Cut
    <3>2. rpos' \in Nat /\ rpos' >= rpos /\ \A o \in Offsets : o < rpos => fieldbuf'[o] = fieldbuf[o]
      BY <2>1 DEF Offsets
    <3> QED
      BY <2>1, <3>1, <3>2, WholeStays DEF Saved
  <2>6. CASE Full(rpos + 1)
    <3>1. label' = "done" /\ fieldc' = fieldc + 1 /\ i' = i /\ rpos' = BufSize - 1
      BY <1>5, <2>1, <2>6 DEF CopyByte, Full
    <3>2. Copied' /\ Complete'
      BY <3>1 DEF Copied, Complete
    <3>3. fieldbuf'[fieldv[fieldc] + (i + 1)] = Nul
      <4>1. fieldv[fieldc] + (i + 1) = BufSize - 1
        BY <2>1, <2>2, <2>3, <3>1
      <4> QED
        BY <4>1, <1>1 DEF LastByteKept
    <3>4. ASSUME NEW k, k = fieldc, NEW n, n = i + 1
          PROVE  Holds(k, n)'
      BY <2>1, <2>2, <2>3, <3>1, <3>3, <3>4 DEF Holds
    <3>5. ASSUME NEW k, k = fieldc
          PROVE  Cut(k)'
      BY <2>1, <2>2, <3>1, <3>4, <3>5 DEF Cut
    <3>6. row[fieldc] # Null /\ fieldv[fieldc] # Null
      BY <2>2, <2>3 DEF Null
    <3>7. Saved'
      <4> SUFFICES ASSUME NEW k \in 0 .. fieldc
                   PROVE  /\ row[k] = Null => fieldv[k] = Null
                          /\ row[k] # Null => fieldv[k] # Null /\ (Whole(k)' \/ Cut(k)')
        BY <2>1, <2>2, <3>1 DEF Saved
      <4> QED
        BY <2>2, <2>5, <3>5, <3>6
    <3> QED
      BY <1>1, <2>4, <3>2, <3>7
  <2>7. CASE ~Full(rpos + 1)
    <3>1. label' = "byte" /\ fieldc' = fieldc /\ i' = i + 1
      BY <1>5, <2>7 DEF CopyByte
    <3>2. Copied'
      BY <2>1, <2>2, <2>3, <3>1 DEF Copied, Null
    <3>3. Saved' /\ Complete'
      BY <2>1, <2>5, <3>1 DEF Saved, Complete
    <3> QED
      BY <1>1, <2>4, <3>2, <3>3
  <2> QED
    BY <2>6, <2>7
<1>6. CASE EndField
  <2>1. /\ rpos \in 0 .. BufSize - 2 /\ rpos' = rpos + 1
        /\ fieldbuf' = [fieldbuf EXCEPT ![rpos] = Nul]
        /\ fieldbuf \in [Offsets -> Bytes]
        /\ fieldc' = fieldc + 1 /\ label' \in {"done", "field"}
        /\ UNCHANGED <<row, numFields, fieldv>>
    BY <1>6 DEF EndField, SaveTypeOK, LastByteKept, Offsets
  <2>2. row[fieldc] \in Nat /\ i = row[fieldc] /\ fieldc \in Nat /\ fieldc < VSize
    BY <1>6 DEF EndField, SaveTypeOK, RowsOf, Null
  <2>3. RestIsNul'
    BY <2>1 DEF RestIsNul, Offsets
  <2>4. Copied' /\ Complete'
    BY <1>6, <2>1 DEF EndField, Copied, Complete, Full
  <2>5. fieldv[fieldc] \in Nat /\ fieldv[fieldc] + row[fieldc] = rpos
    BY <1>6, <2>2 DEF EndField, Copied, SaveTypeOK, Offsets, Null
  <2>6. ASSUME NEW k, k = fieldc
        PROVE  Whole(k)'
    <3>1. \A j \in 0 .. row[fieldc] - 1 : fieldbuf'[fieldv[fieldc] + j] = <<fieldc, j>>
      <4> SUFFICES ASSUME NEW j \in 0 .. row[fieldc] - 1
                   PROVE  fieldbuf'[fieldv[fieldc] + j] = <<fieldc, j>>
        OBVIOUS
      <4>1. fieldbuf[fieldv[fieldc] + j] = <<fieldc, j>>
        BY <1>6, <2>2 DEF EndField, Copied
      <4>2. fieldv[fieldc] + j \in Offsets /\ fieldv[fieldc] + j # rpos
        BY <2>1, <2>2, <2>5 DEF Offsets
      <4> QED
        BY <2>1, <4>1, <4>2
    <3>2. fieldbuf'[fieldv[fieldc] + row[fieldc]] = Nul
      BY <2>1, <2>5 DEF Offsets
    <3> QED
      BY <2>1, <2>2, <2>5, <2>6, <3>1, <3>2 DEF Whole, Holds
  <2>7. ASSUME NEW k \in 0 .. fieldc - 1
        PROVE  /\ row[k] = Null => fieldv[k] = Null
               /\ row[k] # Null => fieldv[k] # Null /\ Whole(k)'
    <3>1. row[k] # Null => Whole(k) /\ fieldv[k] # Null
      BY <1>6 DEF EndField, Saved, Cut
    <3>2. rpos' \in Nat /\ rpos' >= rpos /\ \A o \in Offsets : o < rpos => fieldbuf'[o] = fieldbuf[o]
      BY <2>1 DEF Offsets
    <3> QED
      BY <2>1, <3>1, <3>2, WholeStays DEF Saved
  <2>8. Saved'
    <3>1. row[fieldc] # Null /\ fieldv[fieldc] # Null
      BY <2>2, <2>5 DEF Null
    <3> SUFFICES ASSUME NEW k \in 0 .. fieldc
                 PROVE  /\ row[k] = Null => fieldv[k] = Null
                        /\ row[k] # Null => fieldv[k] # Null /\ Whole(k)'
      BY <2>1, <2>2 DEF Saved
    <3> QED
      BY <2>2, <2>6, <2>7, <3>1
  <2> QED
    BY <1>1, <2>3, <2>4, <2>8
<1>7. CASE UNCHANGED saveVars
  BY <1>7 DEF saveVars, SaveTypeOK, LastByteKept, RestIsNul, Copied, Saved, Complete,
              Whole, Cut, Holds
<1> QED
  BY <1>2, <1>3, <1>4, <1>5, <1>6, <1>7 DEF SaveNext

LEMMA InvSaved == SavedInv => SavedRight
<1> SUFFICES ASSUME SavedInv, label = "done"
             PROVE  SavedRight
  BY DEF SavedRight
<1>1. ASSUME NEW k \in 0 .. fieldc - 1, row[k] # Null
      PROVE  /\ fieldv[k] # Null
             /\ \E n \in 0 .. row[k] : Holds(k, n) /\ (n < row[k] => k = fieldc - 1)
  <2>1. row[k] \in Nat
    BY <1>1 DEF SavedInv, SaveTypeOK, RowsOf, Null
  <2>2. fieldv[k] # Null /\ (Whole(k) \/ Cut(k))
    BY <1>1 DEF SavedInv, Saved
  <2> QED
    BY <2>1, <2>2 DEF Whole, Cut
<1>2. \A k \in 0 .. fieldc - 1 : row[k] = Null => fieldv[k] = Null
  BY DEF SavedInv, Saved
<1> QED
  BY <1>1, <1>2 DEF SavedInv, Complete, SavedRight

\* What the callback reads is the row: every field it gets is NULL or the
\* field's bytes ended by a zero, and only the last can be cut off.
THEOREM SavedIsRight == SaveSpec => []SavedRight
<1> QED
  BY InvInit, InvStep, InvSaved, PTL DEF SaveSpec
=============================================================================
