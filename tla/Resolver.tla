------------------------------ MODULE Resolver ------------------------------
(***************************************************************************)
(* udns/udns_resolver.c: an asynchronous stub resolver.  The program       *)
(* submits queries and calls dns_ioevent() and dns_timeouts(), from a      *)
(* timer that the library asks for or on its own account; callbacks report *)
(* the answers, and may use the library again.                             *)
(*                                                                         *)
(* All queries are for one name: nothing but their id and the element of   *)
(* the search list they have come to tells their answers apart.  Times are *)
(* relative to the present second: 0 is "now or earlier".                  *)
(***************************************************************************)
EXTENDS Integers, Sequences, SequencesExt, FiniteSets

CONSTANTS
  Queries,     \* names for dns_query structures
  None,        \* no query
  NServ,       \* dnsc_nserv
  NTries,      \* dnsc_ntries
  BaseTimeout, \* dnsc_timeout
  UintMod,     \* 2^32, one more than an unsigned holds
  NSrch,       \* elements of the search list
  TooLong,     \* those the name does not fit before
  Ids,         \* query ids
  Edns,        \* dnsc_udpbuf > DNS_MAXPACKET
  OldServers,  \* servers that may find EDNS0 a format error
  NoSearch,    \* queries submitted with DNS_NOSRCH
  MaxBurst     \* bound on the queries that callbacks submit during one event

ASSUME ResolverAssumption ==
  /\ None \notin Queries
  /\ NServ \in Nat \ {0} /\ NTries \in Nat \ {0}
  /\ BaseTimeout \in Nat \ {0} /\ UintMod \in Nat \ {0}
  /\ NSrch \in Nat /\ TooLong \subseteq 0 .. NSrch - 1
  /\ Ids # {} /\ Edns \in BOOLEAN /\ MaxBurst \in Nat
  /\ OldServers \subseteq 0 .. NServ - 1 /\ NoSearch \subseteq Queries

Servers == 0 .. NServ - 1

\* Elements of the search list; the last, the root, stands for the name as it is.
AsIs == NSrch
Elements == 0 .. NSrch

VARIABLES
  open,     \* dnsc_udpsock >= 0
  queue,    \* dnsc_qactive, a list of queries
  nactive,  \* dnsc_nactive
  query,    \* what each dns_query holds
  utm,      \* dnsc_utmfn: not set, set, or set and its dnsc_utmctx lost
  utmexp,   \* dnsc_utmexp: NoTime, Asap, a time to come, or one that is past
  timer,    \* the program's timer: NoTime, or when it fires
  loop,     \* the program is outside the library, or the loop that runs
  running,  \* the query whose callback runs
  answer,   \* and its status
  burst     \* submissions since the program entered the loop

vars == <<open, queue, nactive, query, utm, utmexp, timer, loop, running, answer, burst>>
timerVars == <<utm, utmexp, timer>>
callVars == <<running, answer>>

NoTime == -1
Asap == 0
Past == -2

\* calloc(); the last two fields are history: how often each server was sent the
\* present name, and what the servers said of earlier ones.
NewQuery == [id |-> CHOOSE i \in Ids : TRUE, dn |-> AsIs, nxtsrch |-> 0, asisDone |-> FALSE,
             seenNodata |-> FALSE, try |-> 0, servi |-> 0, servwait |-> {}, servskip |-> {},
             noEdns |-> {}, deadline |-> 0,
             sends |-> [s \in Servers |-> 0], denied |-> [e \in Elements |-> "no"]]

NoAnswer == [status |-> "none", sent |-> TRUE]

Init ==
  /\ open = FALSE
  /\ queue = <<>>
  /\ nactive = 0
  /\ query = [q \in Queries |-> NewQuery]
  /\ utm = "unset" /\ utmexp = NoTime /\ timer = NoTime
  /\ loop = "idle"
  /\ running = None /\ answer = NoAnswer
  /\ burst = 0

Active == Range(queue)

\* Code of the program runs: outside the library or in a callback.
UserRuns == loop = "idle" \/ running # None

\* A step of the loop runs.
Runs(name) == loop = name /\ running = None

-----------------------------------------------------------------------------
(* The timer.                                                               *)

\* dns_request_utm(): qs and query' are the new queue; the time is known to the
\* event loops only.
RequestUtm(qs, timeKnown) ==
  LET deadline == IF qs = <<>> THEN NoTime
                  ELSE IF timeKnown THEN query'[Head(qs)].deadline ELSE Asap
  IN  /\ IF utm = "unset" \/ utmexp = deadline
         THEN UNCHANGED <<utmexp, timer>>
         ELSE utmexp' = deadline /\ timer' = deadline
      /\ UNCHANGED utm

\* dns_drop_utm()
DropUtm ==
  /\ timer' = IF utm = "unset" THEN timer ELSE NoTime
  /\ utmexp' = NoTime

\* dns_set_tmcbck(), called with a timer function
SetTmcbck ==
  /\ UserRuns
  /\ utm' = "set"
  /\ LET deadline == IF open /\ queue # <<>> THEN Asap ELSE NoTime
     IN  utmexp' = deadline /\ timer' = deadline
  /\ UNCHANGED <<open, queue, nactive, query, loop, callVars, burst>>

-----------------------------------------------------------------------------
(* One query: functions from what it holds to what it holds next.           *)

\* dns_newid() with the number i
NewId(r, i) ==
  [r EXCEPT !.id = i, !.try = 0, !.servi = 0, !.servwait = {}, !.servskip = {}, !.noEdns = {},
            !.sends = [s \in Servers |-> 0]]

\* Elements dns_next_srch() can stop at.
Left(r) == {e \in r.nxtsrch .. NSrch : e \notin TooLong /\ ~(e = AsIs /\ r.asisDone)}

\* Mutant of NextSrch: the element is not stepped over.
NextSrchStuck(r, i) ==
  LET e == CHOOSE x \in Left(r) : \A y \in Left(r) : x <= y
  IN  NewId([r EXCEPT !.dn = e, !.asisDone = @ \/ e = AsIs], i)

\* Mutant of NextSrch: one too far.
NextSrchFar(r, i) ==
  LET e == CHOOSE x \in Left(r) : \A y \in Left(r) : x <= y
  IN  NewId([r EXCEPT !.dn = e, !.nxtsrch = e + 2, !.asisDone = @ \/ e = AsIs], i)

\* dns_next_srch(), when there is one
NextSrch(r, i) ==
  LET e == CHOOSE x \in Left(r) : \A y \in Left(r) : x <= y
  IN  NewId([r EXCEPT !.dn = e, !.nxtsrch = e + 1, !.asisDone = @ \/ e = AsIs], i)

\* dns_find_serv(): servi comes to the next server that is not skipped, or to NServ
FindServ(r) ==
  LET found == {s \in r.servi .. NServ - 1 : s \notin r.servskip}
  IN  [r EXCEPT !.servi = IF found = {} THEN NServ
                          ELSE CHOOSE s \in found : \A t \in found : s <= t]

\* A packet to server s, and how long to wait: a second before the next server,
\* a longer time, doubled with every try, after the last.
Sent(r, s) ==
  LET asked == FindServ([r EXCEPT !.servwait = @ \cup {s}, !.sends[s] = @ + 1])
  IN  [asked EXCEPT !.deadline = IF asked.servi < NServ THEN 1
                                 ELSE (BaseTimeout * 2 ^ r.try) % UintMod]

-----------------------------------------------------------------------------
(* The active list.                                                         *)

\* qlist_remove()
Unlink(qs, q) == RemoveAt(qs, CHOOSE k \in DOMAIN qs : qs[k] = q)

\* Mutant of Requeue: at the tail, wherever the deadline is.
RequeueLast(q, qs, deadlines) == Append(Unlink(qs, q), q)

\* The end of dns_send_this(): q goes behind the last query that is not due later.
Requeue(q, qs, deadlines) ==
  LET rest == Unlink(qs, q)
      notLater == {k \in DOMAIN rest : deadlines[rest[k]].deadline <= deadlines[q].deadline}
  IN  InsertAt(rest, IF notLater = {} THEN 1 ELSE Max(notLater) + 1, q)

\* Mutant of EndQuery: the query stays in the list.
EndQueryKept(q, r, status, sent) ==
  /\ nactive' = nactive - 1
  /\ query' = [query EXCEPT ![q] = r]
  /\ running' = q
  /\ answer' = [status |-> status, sent |-> sent]
  /\ UNCHANGED <<open, queue, timerVars, loop, burst>>

\* dns_end_query(): the query, which holds r, is freed and its callback called.
EndQuery(q, r, status, sent) ==
  /\ queue' = Unlink(queue, q)
  /\ nactive' = nactive - 1
  /\ query' = [query EXCEPT ![q] = r]
  /\ running' = q
  /\ answer' = [status |-> status, sent |-> sent]
  /\ UNCHANGED <<open, timerVars, loop, burst>>

\* dns_send_this(), of query q that holds r; sendto() may fail ten times.
SendThis(q, r, s, ok) ==
  IF ok
  THEN /\ query' = [query EXCEPT ![q] = Sent(r, s)]
       /\ queue' = Requeue(q, queue, query')
       /\ UNCHANGED <<open, nactive, timerVars, loop, callVars, burst>>
  ELSE EndQuery(q, r, "TEMPFAIL", FALSE)

\* Mutant of Send: one try less.
SendEarlyEnd(q, r, ok) ==
  LET now == FindServ(r)
      again == FindServ([r EXCEPT !.servi = 0, !.try = @ + 1])
      next == IF now.servi < NServ THEN now ELSE again
  IN  IF next.servi < NServ /\ next.try < NTries - 1
      THEN SendThis(q, [next EXCEPT !.servi = @ + 1], next.servi, ok)
      ELSE EndQuery(q, next, "TEMPFAIL", TRUE)

\* dns_send(): the next server of this try or the first of the next, or the end.
Send(q, r, ok) ==
  LET now == FindServ(r)
      again == FindServ([r EXCEPT !.servi = 0, !.try = @ + 1])
      next == IF now.servi < NServ THEN now ELSE again
  IN  IF next.servi < NServ /\ next.try < NTries
      THEN SendThis(q, [next EXCEPT !.servi = @ + 1], next.servi, ok)
      ELSE EndQuery(q, next, "TEMPFAIL", TRUE)

-----------------------------------------------------------------------------
(* The program.                                                             *)

\* dns_open(), without queries; ok says whether socket(), fcntl() and malloc() did.
Open(ok) ==
  /\ UserRuns
  /\ ~open
  /\ open' = ok
  /\ IF ok THEN RequestUtm(queue, FALSE) ELSE UNCHANGED timerVars
  /\ UNCHANGED <<queue, nactive, query, loop, callVars, burst>>

\* dns_close(): the active queries are freed and their callbacks not called.  Not
\* from a callback: the loops would go on without a socket.
Close ==
  /\ loop = "idle"
  /\ open
  /\ open' = FALSE
  /\ queue' = <<>>
  /\ nactive' = 0
  /\ query' = [q \in Queries |-> IF q \in Active THEN NewQuery ELSE query[q]]
  /\ DropUtm
  /\ utm' = IF utm = "unset" THEN "unset" ELSE "nodata"
  /\ UNCHANGED <<loop, callVars, burst>>

\* How a query uses the search list: not at all, after the name as it is, or at once.
\* dns_submit_p() asks for the first when the name is absolute.
Ways == {"nosrch", "asisfirst", "search"}

\* dns_submit_dn(): the new query is due at once, so it goes to the head.  The five
\* attempts at an id that is not in use may all fail, so any may come out.
Submit(q, way, i) ==
  /\ UserRuns
  /\ open
  /\ q \notin Active
  /\ loop # "idle" => burst < MaxBurst
  /\ (q \in NoSearch) = (way = "nosrch")
  /\ LET first == [NewQuery EXCEPT !.asisDone = TRUE]
     IN  query' = [query EXCEPT ![q] =
           CASE way = "nosrch" -> NewId([first EXCEPT !.nxtsrch = NSrch], i)
             [] way = "asisfirst" -> NewId(first, i)
             [] way = "search" -> NextSrch(NewQuery, i)]
  /\ queue' = <<q>> \o queue
  /\ nactive' = nactive + 1
  /\ RequestUtm(queue', FALSE)
  /\ burst' = IF loop = "idle" THEN 0 ELSE burst + 1
  /\ UNCHANGED <<open, loop, callVars>>

\* dns_cancel(), which does not free the query: its memory is lost
Cancel(q) ==
  /\ UserRuns
  /\ q \in Active
  /\ queue' = Unlink(queue, q)
  /\ nactive' = nactive - 1
  /\ query' = [query EXCEPT ![q] = NewQuery]
  /\ RequestUtm(queue', FALSE)
  /\ UNCHANGED <<open, loop, callVars, burst>>

\* The callback returns to the loop that ended its query.
CallbackReturn ==
  /\ running # None
  /\ running' = None /\ answer' = NoAnswer
  /\ query' = [query EXCEPT ![running] = IF running \in Active THEN @ ELSE NewQuery]
  /\ UNCHANGED <<open, queue, nactive, timerVars, loop, burst>>

-----------------------------------------------------------------------------
(* dns_timeouts()                                                           *)

Enter(name) ==
  /\ loop = "idle"
  /\ loop' = name
  /\ UNCHANGED <<open, queue, nactive, query, utm, utmexp, callVars, burst>>

\* Called by the program on its own account.
Timeouts == queue # <<>> /\ Enter("timeouts") /\ UNCHANGED timer

\* The loop of dns_resolve(), or of any program without a timer, comes to it again.
Poll == utm # "set" /\ Timeouts

\* Called for the timer, which fires once.
TimerFires == timer = 0 /\ queue # <<>> /\ Enter("timeouts") /\ timer' = NoTime

Expire(ok) ==
  /\ Runs("timeouts")
  /\ queue # <<>>
  /\ query[Head(queue)].deadline = 0
  /\ Send(Head(queue), query[Head(queue)], ok)

\* The loop ends: dns_request_utm() with the time.
Leave ==
  /\ loop' = "idle"
  /\ burst' = 0
  /\ UNCHANGED <<open, queue, nactive, query, callVars>>
  /\ RequestUtm(queue, TRUE)

\* Mutant of TimeoutsDone: the timer is not asked for again.
TimeoutsDoneSilent ==
  /\ Runs("timeouts")
  /\ queue # <<>> => query[Head(queue)].deadline > 0
  /\ loop' = "idle"
  /\ burst' = 0
  /\ UNCHANGED <<open, queue, nactive, query, callVars, timerVars>>

TimeoutsDone ==
  /\ Runs("timeouts")
  /\ queue # <<>> => query[Head(queue)].deadline > 0
  /\ Leave

-----------------------------------------------------------------------------
(* dns_ioevent()                                                            *)

NoDn == -1
Rcodes == {"data", "nodata", "truncated", "nxdomain", "formerr", "servfail"}

\* Datagrams that may arrive: of any age, any number of times, from anybody; dn is
\* NoDn when there is no question in it.
Replies == {m \in [id : Ids, dn : Elements \cup {NoDn}, from : Servers, rcode : Rcodes] :
              m.rcode = "formerr" => m.from \in OldServers}

Ioevent == open /\ Enter("ioevent") /\ UNCHANGED timer

\* The reply is for q: the first active query with its id, if the rest agrees and
\* the server was asked.  Every other datagram is dropped.
Matches(m, q) ==
  /\ query[q].id = m.id
  /\ \E k \in DOMAIN queue : queue[k] = q /\ \A j \in 1 .. k - 1 : query[queue[j]].id # m.id
  /\ IF m.dn = NoDn THEN m.rcode = "formerr" ELSE m.dn = query[q].dn
  /\ m.from \in query[q].servwait

\* The name does not exist, or has no data: the next element, or the end.
Denied(q, r, what, i, ok) ==
  LET told == [r EXCEPT !.denied[r.dn] = what]
      next == [NextSrch(told, i) EXCEPT !.seenNodata = @ \/ what = "nodata"]
      status == IF what = "nodata" \/ r.seenNodata THEN "NODATA" ELSE "NXDOMAIN"
  IN  IF Left(r) # {} THEN Send(q, next, ok) ELSE EndQuery(q, told, status, TRUE)

\* The server can't tell: it is not asked again, and the next one is as soon as
\* nobody is left to answer.
Refused(q, r, s, ok) ==
  LET skip == [r EXCEPT !.servskip = @ \cup {s}]
  IN  IF r.servwait = {} THEN Send(q, skip, ok)
      ELSE /\ query' = [query EXCEPT ![q] = skip]
           /\ UNCHANGED <<open, queue, nactive, timerVars, loop, callVars, burst>>

\* Mutant of WithoutEdns: it is not remembered.
WithoutEdnsForgotten(q, r, s, ok) == SendThis(q, r, s, ok)

\* The server does not know EDNS0: asked again without.
WithoutEdns(q, r, s, ok) == SendThis(q, [r EXCEPT !.noEdns = @ \cup {s}], s, ok)

Receive(m, q, i, ok) ==
  /\ Runs("ioevent")
  /\ Matches(m, q)
  /\ LET r == [query[q] EXCEPT !.servwait = @ \ {m.from}]
     IN  CASE m.rcode = "data" -> EndQuery(q, r, IF ok THEN "found" ELSE "unparsed", TRUE)
           [] m.rcode \in {"nodata", "nxdomain"} -> Denied(q, r, m.rcode, i, ok)
           [] m.rcode = "formerr" /\ Edns /\ m.from \notin r.noEdns -> WithoutEdns(q, r, m.from, ok)
           [] OTHER -> Refused(q, r, m.from, ok)

\* EAGAIN
IoeventDone == Runs("ioevent") /\ Leave

-----------------------------------------------------------------------------
\* A second passes; the loops work with the time they were entered at.
Tick ==
  LET Less(t) == IF t > 0 THEN t - 1 ELSE t
      ticked == [q \in Queries |-> [query[q] EXCEPT !.deadline = Less(@)]]
  IN  /\ loop = "idle"
      /\ query' = ticked
      /\ timer' = Less(timer)
      /\ utmexp' = IF utmexp = 1 THEN Past ELSE Less(utmexp)
      /\ UNCHANGED <<open, queue, nactive, utm, loop, callVars, burst>>

Next ==
  \/ \E ok \in BOOLEAN : Open(ok) \/ Expire(ok)
  \/ Close \/ SetTmcbck
  \/ \E q \in Queries :
       \/ \E way \in Ways, i \in Ids : Submit(q, way, i)
       \/ Cancel(q)
       \/ \E m \in Replies, i \in Ids, ok \in BOOLEAN : Receive(m, q, i, ok)
  \/ CallbackReturn
  \/ Timeouts \/ TimerFires \/ TimeoutsDone
  \/ Ioevent \/ IoeventDone
  \/ Tick

Spec == Init /\ [][Next]_vars

\* The loops come to their end, callbacks return, the program serves its timer
\* however many datagrams arrive, or calls dns_timeouts() again and again if it has
\* none, as dns_resolve() does, and time passes.
Fairness ==
  /\ WF_vars(CallbackReturn)
  /\ WF_vars(\E ok \in BOOLEAN : Expire(ok))
  /\ WF_vars(TimeoutsDone) /\ WF_vars(IoeventDone)
  /\ SF_vars(TimerFires)
  /\ SF_vars(Poll)
  /\ SF_vars(Tick)

FairSpec == Spec /\ Fairness

-----------------------------------------------------------------------------
(* Properties                                                               *)

QueryType ==
  [id : Ids, dn : Elements, nxtsrch : 0 .. NSrch + 1, asisDone : BOOLEAN, seenNodata : BOOLEAN,
   try : Nat, servi : 0 .. NServ, servwait : SUBSET Servers, servskip : SUBSET Servers,
   noEdns : SUBSET Servers, deadline : Nat, sends : [Servers -> Nat],
   denied : [Elements -> {"no", "nxdomain", "nodata"}]]

TypeOK ==
  /\ open \in BOOLEAN
  /\ queue \in Seq(Queries)
  /\ nactive \in Nat
  /\ query \in [Queries -> QueryType]
  /\ utm \in {"unset", "set", "nodata"}
  /\ utmexp \in Int /\ timer \in Nat \cup {NoTime}
  /\ loop \in {"idle", "timeouts", "ioevent"}
  /\ running \in Queries \cup {None}
  /\ answer.status \in {"none", "found", "unparsed", "NODATA", "NXDOMAIN", "TEMPFAIL"}
  /\ burst \in 0 .. MaxBurst

\* What dns_assert_ctx() asserts, and what the field's comment claims and
\* dns_timeouts(), which stops at the first query that is not due, relies on: the
\* list holds each active query once, they are counted, and sorted by deadline
\* through every resend, callback and cancellation.
QueueSorted ==
  /\ nactive = Len(queue)
  /\ IsInjective(queue)
  /\ \A j, k \in DOMAIN queue : j < k => query[queue[j]].deadline <= query[queue[k]].deadline
  /\ open \/ queue = <<>>

\* Whenever the program is outside the library its timer is set if there is an
\* active query, to fire when the first is due or earlier, and only then: the
\* library, which asks for a timer only when the time it remembers differs, never
\* takes a timer that has fired for one that is still to come.
TimerArmed ==
  loop = "idle" /\ utm = "set" =>
    IF queue = <<>> THEN timer = NoTime
    ELSE timer # NoTime /\ timer <= query[Head(queue)].deadline

Answers == running = None /\ running' # None

\* A query is answered with what the servers said of the names the search list
\* makes: a name is found only when those before it were denied, one by one;
\* NXDOMAIN says that every name, none left out, was denied and none for want of
\* data, NODATA that every name was denied and one of them for that.
Verdict ==
  [][Answers =>
       LET r == query'[running']
           names == IF running' \in NoSearch THEN {AsIs} ELSE Elements \ TooLong
           before == IF r.dn = AsIs /\ r.nxtsrch <= NSrch THEN {} ELSE (0 .. r.dn - 1) \ TooLong
           Denials(what) == {e \in names : r.denied[e] = what}
       IN  CASE answer'.status \in {"found", "unparsed"} ->
                  before \subseteq names \ Denials("no") /\ r.dn \in Denials("no")
             [] answer'.status = "NXDOMAIN" -> names = Denials("nxdomain")
             [] answer'.status = "NODATA" -> Denials("no") = {} /\ Denials("nodata") # {}
             [] answer'.status = "TEMPFAIL" -> r.dn \in Denials("no")
    ]_<<running, answer, query>>

\* A query fails for want of an answer only when every server was sent the name
\* in every try or has refused it, unless sending failed.
TempfailEarned ==
  [][Answers /\ answer' = [status |-> "TEMPFAIL", sent |-> TRUE] =>
       \A s \in Servers : \/ s \in query'[running'].servskip
                          \/ query'[running'].sends[s] >= NTries
    ]_<<running, answer, query>>

\* No server is sent one name more often than there are tries, and once more for
\* EDNS0, whatever answers come and in which order.
SendsBounded == \A q \in Queries, s \in Servers : query[q].sends[s] <= NTries + 1

\* Every query that is submitted is answered, unless it is cancelled or the resolver
\* is closed.
Resolves == \A q \in Queries : q \in Active ~> q \notin Active

\* The resolver keeps the contract of ResolverService.
Service == INSTANCE ResolverService WITH pending <- Active
OneAnswer == Service!Spec
=============================================================================
