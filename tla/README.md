# libc-jss: a verification project

TLA+ models of the C library libc-jss, checked with TLC on small instances and,
for the properties that matter most, proved with TLAPS for every value of the
constants. `PROJECT.json` lists components, runs, mutants, findings, hazards and
theorems; this file explains them.

## 1. The system

libc-jss is a set of small libraries for event-driven Unix programs. They are
linked into one program and share its libev loop, but hardly call each other.

| Part | State it keeps | Operations | What is hard |
|---|---|---|---|
| `netsocket.c` | objects (`sock`, `mode`, `connected`, `parent`, `in_callback`, `destroy_request`), each with three libev watchers | new, connect, listen, disconnect (with or without event), destroy, write; handlers `w_in_cb`, `w_out_cb`, `w_connect_timeout_cb` | user callbacks that call back into the library, for this object or another; events of one turn of the loop that overtake each other; descriptor numbers given out again |
| `pipe.c` | pairs of netsocket objects that point at each other | `scallback`, `ccallback` | each side may end first, both in one turn of the loop; the second socket may fail at once |
| `tracer/` | an object per user; on disk the sequence file `.seq` and the numbered trace files | new, set_start_id, open, printf, close, destroy | several processes and threads take numbers from one file; crashes; stdio buffers that reach the file late |
| `amysql/` | global variables shared by the threads MAIN and AMYSQL | init, query, sync_query, `query()`, `invoke_callback()` | two threads without a lock, results handed over by `ev_async`; failures half way through; a fixed result buffer |
| `udns/`, the resolver | a list of active queries sorted by deadline, one UDP socket, a timer of the program | open, close, submit, cancel, `dns_ioevent`, `dns_timeouts` | lost, late, repeated and foreign answers; retries over servers, tries, EDNS0 and a search list; callbacks that use the resolver again |
| `udns/`, names, records, addresses | none | text to name and back, compressed names, record parsers, textual addresses | bytes of a buffer counted by one function and written by another |
| `uthash.h`, `utlist.h` | buckets and chains, links in the elements | add, find, delete, sort, select, iterate | first, last and only elements; doubling in the middle of an addition |
| `htclient/url_parser.c`, `misc.c` | none | parse_url; fmtsub, split, trim, chomp, reading of lines | which delimiter ends what; ends of buffers |
| `htclient/htclient.c` | one object per request | url, request_set, perform, header_get, destroy | what is released on each way out |
| `logger.c`, `ini/` (inih) | a flag and two strings; a line buffer | con_*; ini_parse | nothing a model reaches |

How they interact: netsocket, amysql and the resolver are driven by the program's
loop (watchers and timers in, handlers out) and report by callbacks, in which
the program may call them again. amysql has a second loop in its own thread; the
two loops wake each other with `ev_async_send()`. Users of tracer interact
through files and `flock()` only. `pipe.c` is a program over netsocket. The
functions on texts, names, packets and lists are called and return.

What makes each part correct:

* netsocket: no callback or handler runs on an object that was freed or on a
  descriptor that was closed; descriptors are neither leaked nor closed twice;
  an object is told CONNECT once, before any READ, and DISCONNECT after; a read
  in the loop never blocks; a connect timeout only ends a connection that was
  not made; a deferred destroy is done, an opening connection settled, a
  connection its peer ended closed.
* pipe: the two sides of a connection point at each other as long as either
  callback may follow the pointer, and go together.
* tracer: no two users get one number; no trace file on disk is emptied by a
  later open; nobody waits for the lock forever.
* amysql: each accepted query gets one callback, with its own row and its own
  error, and nobody overwrites what the callback reads; the copy of a row stays
  inside its buffers and says the truth about what was saved.
* resolver: each query is answered once, with what the servers said of the names
  the search list makes, after every server had its tries and none had more; the
  list stays sorted and the timer set.
* the rest: what is read is what was written, in the smallest buffer too; a
  count made in advance is kept; a table or a list holds what was put into it,
  in its order, after every operation.

## 2. The modules

| Module | Models | Kind |
|---|---|---|
| `Netsocket` | `netsocket.c` with a user of its callbacks, the libev loop, the kernel and the peers | state machine |
| `NetsocketEvents` | what an object promises: phases and events | abstract specification |
| `NetsocketContract` | the phase of an object read off its memory; `Contract` | refinement |
| `MCNetsocket` | symmetry, and a smaller user for liveness | model checking |
| `NetsocketProofs` | sockets, watchers, counted callbacks; the flags; that Netsocket implements NetsocketEvents; that the proxy is a user of netsocket; its pairs | proofs |
| `Pipe` | `pipe.c`: the same library, its free user replaced by two callbacks | composition |
| `Tracer`, `TracerProofs` | `tracer.c`, several users, crashes | state machine, proofs |
| `Amysql` | the two threads of `amysql.c` | state machine |
| `AmysqlService` | what `amysql_query()` promises | abstract specification |
| `AmysqlSave` | the part "Save" of `query()` | loop over a buffer |
| `MCAmysql` | both side by side | model checking |
| `AmysqlProofs` | the hand-over of the threads, that Amysql implements AmysqlService; what Save leaves in its buffers | proofs |
| `Resolver` | `udns_resolver.c` with the program, the servers and time | state machine |
| `ResolverService` | what the resolver promises | abstract specification |
| `ResolverProofs` | the list, the timer, the verdicts; that Resolver implements ResolverService | proofs |
| `MergeSort`, `Hash`, `List` | `uthash.h`; the lists of `utlist.h` and the queue of `udns.h`; the sort both have | state machines |
| `ListProofs` | loops and sequences; the merge sort; the lists | proofs |
| `HashProofs` | the tables of `uthash.h`, with the lemmas of `ListProofs` on sequences | proofs |
| `Bytes`, `Dn`, `DomainName`, `PacketName`, `Records`, `Inet` | `udns_dn.c`, `udns_parse.c`, `udns_rr_*.c` with `udns_bl.c` and `udns_rr_srv.c`, `inet_XtoX.c` | functions and their inputs |
| `Text`, `Url` | `misc.c`, `url_parser.c` | functions and their inputs |
| `TextProofs` | parts of strings; URLs; the string functions of misc.c; the records of an answer; names in packets | proofs |
| `AddressProofs` | numbers and addresses, with the lemmas of `TextProofs` on strings | proofs |
| `MCLibraries` | the containers and the functions on small inputs | model checking |

### Netsocket

An element of `Obj` is the memory of one object; `live` are those allocated.
The variables are the fields of `netsocket_t` under their names (`sock`, `mode`,
`connected`, `parent`, `inCallback`, `destroyReq`), the loop's (`active`
watchers, `pending` ones, timers that are `due`), the kernel's (`conn`: what each
descriptor is, unread data or backlog, the peer's end), and `stack`, the
callbacks in progress. `tail` stands for the return address inside
`disconnect()`: the assignment after its callback is a step of its own, because
the callback may have freed the object.

Actions: `Poll` is one turn of libev's loop; `Accept`, `InBeforeConnect`,
`ReadData`, `ReadEnd` are the branches of `w_in_cb`, `ConnectError` and
`ConnectDone` those of `w_out_cb`, `ConnectTimeout` is `w_connect_timeout_cb`;
`CallbackReturn` is the end of `invoke_callback()` with the deferred destroy;
`New`, `ConnectInvalid/Starts/Fails/NoFd`, `ListenInvalid/Fails/NoFd/Starts`,
`Disconnect`, `DisconnectWithEvent`, `Destroy` are the calls of the user by the
way they take. A call is possible whenever user code runs: outside callbacks or
in the innermost one, for any object whose address the user has got (`known`).
`SockClose` is `sock_close()`; stopping a watcher also clears its pending event,
which is what `ev_io_stop()` and `ev_timer_stop()` do.

Assumed of the environment: the user connects or listens only with an object
that has no socket (the code would leak the old descriptor otherwise); malloc
does not fail; `gethostbyname()` and the like return. A received chunk and a
waiting connection are counted, not described.

`NetsocketEvents` knows only phases (absent, closed, opening, up, listening) and
callbacks in progress. `NetsocketContract` maps an object to a phase by its
socket, its mode and whether `w_out` is started, and `Contract` says that
Netsocket implements NetsocketEvents.

### Pipe

`Pipe` extends `Netsocket` and takes the library's actions as they are. In place
of its free user come `main()` and the callbacks, cut where they call the
library, since a call can run another callback: `at` says for every callback in
progress how far it has come. `userdata` is the field of that name. `Exit` is
the branch of `scallback()` that ends the program. `netsocket_write()` changes no
state of the proxy.

### Tracer

An element of `Procs` is one user of the directory. `tracer_open()` is split at
the system calls the others can see: `OpenSeq`, `LockSeq`, `ReadSeq`,
`UnlockSeq`, `CloseSeq`, `OpenTrace`. `seqBuf` is the number that `fprintf()`
left in the stream's buffer: the code unlocks (tracer.c:59) before `fclose()`
(tracer.c:60) writes it. `Crash` may happen anywhere: buffers are lost and the
kernel drops the lock. The buffer of a trace file is written at `CloseTrace`
only (a buffer that fills up earlier writes part of it earlier, which changes
how much a crash loses and nothing else). `raced` is history: a number was read
while another user was between the two calls. Whether the lock does its work is asked by what
it is for: `NoTraceLost` says that up to that moment every number taken is new, which an
`flock()` that did not exclude would break at once, and `DistinctOpenIds` what follows
after it.

### Amysql and AmysqlSave

`pc` says what each thread does; both run `query()`, the worker for
`amysql_query()`, the main thread for `amysql_sync_query()`. Its steps are the
points where the shared variables are touched: the buffer reset, `mysql_query()`
reading `querybuf`, the result, the end. Every access of the other thread can
come in between. `fields` stands for `fieldc`, `fieldv` and `fieldbuf` (whose
row they hold); `args` is what the running callback was given. The calls of the
MySQL library may fail at every place `query()` looks.

`AmysqlSave` is the copying loop itself, over field lengths: the bytes are
symbolic, the indices are real, so that an off-by-one at the end of `fieldbuf`
or `fieldv` shows. The two modules share no variable, since `fields` of Amysql says only
whose row it is and whether it is cut off; `MCAmysql` checks them in one run, in which the
threads run beside the row of no fields.

### Resolver

`queue` is the list `dnsc_qactive`, `query` what each `dns_query` holds, under the
names of the structure's fields (`servi`, `servwait`, `servskip`, `nxtsrch`,
`try`, `deadline`, ...); `sends` and `denied` are history, for the properties.
Times are relative to the present second, so that no clock grows: `Tick` counts
deadlines and the timer down. `utmexp` is the time the library remembers to have
asked for, which it compares before it asks again.

A program that submits (`Submit`, with every way to use the search list),
cancels, opens, closes and sets its timer function does so outside the library
or in a callback. `Ioevent` and `Timeouts` (or `TimerFires`, or `Poll` of
`dns_resolve()`) enter the loops; `Receive` takes one datagram, any datagram of
`Replies`, `Expire` one query that is due, and each can run a callback
(`running`) before the loop goes on. `SendThis`, `Send`, `NextSrch`, `FindServ`,
`EndQuery` and `Requeue` are the functions and the end of `dns_send_this()`.
All queries ask for the same name: only the id and the element of the search
list distinguish their answers, and that an answer is taken for the query whose name it carries
is outside the model. Not modelled: errors of the socket other than `sendto()`, and, from a
callback, `dns_close()`, `dns_ioevent()` and `dns_resolve()` (hazards with a note): that
there is one callback at a time, which `ResolverService` says too, holds because the loops
are not entered again. The conversion of the timeout to `int` (udns_resolver.c:366) is
left out: it changes only a wait of more than 68 years.

### The libraries without a schedule

`Hash` has two tables over the same elements (as two `hh` handles), with buckets,
chains, the list of additions, the Bloom filter and the doubling; the loops of a
macro (`Merge`, `Pass`, `Move`, `Enter`, `Turn`, `Visit` are their bodies) are recursive
functions of the number of their turns. `HashNext` lets a program call any of the
operations. `List` has the singly, doubly and circularly linked lists and the tailed
queue, with the heads, tails and links of all lists in one record; `ListNext` is a
program that calls any operation on any list. `DomainName`, `PacketName`, `Records`, `Inet`, `Text` and `Url` are
functions, one for each C function, that return what the C function leaves in
its buffer or returns. In `Text`, `Url`, `Records`, `PacketName` and `Inet` a loop is a recursive function of
its turns and what they are given, a string, an answer section, a packet or an address that
grows, is the state; `DomainName` has RECURSIVE operators. Their properties compare them with each other and with
reference definitions: written and read back (`PrintedAndRead`, `EveryFormRead`),
read as what a name in a packet is without buffers and counters (`ReadIfItEnds`), filled in as counted
(`FilledAsCounted`), put together again (`TakenApart`, `SplitRight`).
`MCLibraries` puts one of these subjects in each behaviour; an input grows by a
character in a step, so that every input up to the bound is a state.

## 3. The runs

| Run | Instance | Shows |
|---|---|---|
| `netsocket_safety` | 2 objects, 2 descriptors, callbacks two deep, one unread chunk | the seven invariants and the refinement `Contract` |
| `netsocket_live` | the same, one object listens and the other connects | `OpeningEnds`, `DestroyHappens`, `EndNoticed` |
| `pipe` | the listening object and two more | `Paired`, `PartnerLive`, `PairEnds` |
| `tracer` | 2 users, 3 opens, numbers below 5 | `NoTraceLost`, `OpenReturns` |
| `amysql` | 3 queries, any number of times; and a buffer of 6, 4 pointers, up to 5 fields of up to 5 bytes | `OwnResult`, the refinement `OneCallbackEach`, `Answered`; `LastByteKept`, `SavedRight`, `Ends` |
| `resolver` | 2 queries with one id, 2 servers, 2 tries, a search list, EDNS0 | `QueueSorted`, `TimerArmed`, `SendsBounded`, `Verdict`, `TempfailEarned` |
| `resolver_live` | 2 queries, 2 ids, 2 servers, a search list with an element that does not fit | the refinement `OneAnswer`, `Resolves` |
| `libraries` | hash tables of up to 5 elements, lists of 4 nodes, inputs up to the lengths below | ten invariants, one for each library |
| `netsocket_tail` | 1 object | violation: `disconnect()` writes to an object its callback freed (netsocket.c:84) |
| `tracer_race` | 2 users, 2 opens | violation: two users open the same file (tracer.c:59) |
| `address_text` | addresses of words 0, 1 and 65535 | violation: an IPv6 address is written as another one (inet_XtoX.c:120) |
| `packet_room` | packets of up to 6 bytes behind the header | violation: `dns_getdn()` accepts a name one byte longer than the buffer (udns_parse.c:58) |

Bounds, and why they are enough.

* Netsocket: two objects are the smallest number with a server and its
  connection, a callback that destroys another object, and a descriptor handed
  from one object to another. Two nested callbacks are the smallest depth at which
  an inner destroy must wait for an outer callback. One unread chunk distinguishes
  data from none. The proofs cover any number of each.
* Pipe: three objects are one pair beside the listening object. `EnoughObjects`
  keeps clients away that there would be no memory for. The pair invariant of
  the proof was checked with five objects, which is two pairs, and is proved for
  any number.
* Tracer: three opens let two users race and a third follow; `NoTraceLost` is
  asked until a user reads the sequence file between the LOCK_UN and the fclose()
  of another, since what follows is the race of `tracer_race`. `IdMod` is larger
  than the numbers reached, so that the wrap at 2^64 does not happen in these runs.
* Amysql: three queries are one running, one made in its callback, and one more.
  A row can fall short of each limit of the buffers, meet it and exceed it.
* Resolver: two queries are enough for an order, a shared id and a callback that
  uses the resolver during the other's event; two servers and two tries for every
  combination of "next server", "next try" and "refused". `resolver` is safety with
  two tries and one element of the search list, `resolver_live` liveness with one
  try and two elements, one of which does not fit. `NoSearch` says which queries use
  no search list, `OldServers` which servers may not know EDNS0. `MaxBurst` bounds
  what callbacks submit during one event: without it the loops could go on for ever
  (a hazard). The timeout
  doubles with each try modulo `UintMod`, which is 2^32 in the code and above what
  two tries reach here.
* Hash and List: three elements come and go in every way; a fourth and a fifth
  are added in turn, so that the buckets double more than once
  (`InitBuckets` 1, `Thresh` 2, `MaxBuckets` 16). Hash values collide for ever,
  never, or at first. `AddToSelected` is FALSE: see the hazard at uthash.h:812.
* Names: constants are scaled so that every limit is inside the bounds: `MaxDn` 7
  bytes, `MaxLabel` 4, `MaxName` 29 characters, a header of `HSize` 2 bytes and
  `MaxJumps` 1, so that a name may have one jump too many; texts of up to 5 characters of
  six kinds and each of them twice over, so that labels and names are too long too; the
  names of addresses in buffers of every size up to `MaxDn`, and behind domains given as text,
  where `dns_a4todn_()` may overrun the buffer by a byte and what is left of it, an
  unsigned number, is -1 (`RoomBehind`, udns_dn.c:199). Packets have up to 6 bytes of
  four kinds (0, 2, 5 and 192: the end of a name, a label, one too long, and jumps to two positions
  or into the header) behind the header, and are read at every position behind
  it into buffers of 1 to 8 bytes.
* Records: answers of up to 4 of thirteen records, which make chains and circles
  of aliases, wrong classes and broken data; the name asked for is the packet's own
  question or a name of the caller's, which `dns_stdrr_size()` and `dns_stdrr_finish()`
  tell apart by the pointer (`at`; udns_parse.c:156 and 163).
* Text and Url: 5 characters; `fmtsub()` with buffers of 1 to 7 bytes and an inner
  one of `BufSize` 6, lines of 1 to 6 bytes; URLs on their own and behind a scheme.
  Addresses have all eight words, of three values.

`MaxOpens`, `MaxLines`, `MaxDepth`, `MaxQueue`, `MaxFields`, `MaxLength`, `MaxBurst`,
`MaxBuckets`, `N`, `Few` and `EnoughObjects` are the only bounds that the code does
not have.

Fairness. Liveness of Netsocket assumes that the loop goes on whenever it has
control (`SF` of `Poll` and `Dispatch`: a user whose code runs now and then outside
callbacks does not keep the loop from turning), that callbacks return (`SF` per
depth, because an inner callback suspends an outer one), that the assignment in
`disconnect()` is reached and that time passes. Nothing is assumed of the user or
of the peers. Pipe assumes the same of the loop, and that the proxy's own code
goes on, which is straight-line code. Tracer assumes that a user inside
`tracer_open()` goes on or dies; Amysql that both loops turn, callbacks return and
the calls of the MySQL library end, for which `query()` sets its timeouts, and that the
loops of Save, which wait for nothing, go on. The
resolver assumes that its loops come to an end and callbacks return, that the
program serves the timer it was asked for or, without one, calls
`dns_timeouts()` again and again as `dns_resolve()` does, and that time passes
(`SF`, since datagrams may come at any rate). Nothing is assumed of the servers.
The liveness run of Netsocket leaves out the calls that fail at once
(`LiveSpec`): they open nothing. Amysql's liveness is asked only of a program
whose thread was made.

Deadlock is not checked where the program may really stop: an assertion of libev
ends it (`ConnectNoFd`), the thread of amysql may be missing, a copied row is
done, the proxy has called `exit()`, an input has its full length.

`TypeOK` of Netsocket, Pipe, Tracer, Amysql, AmysqlSave and Resolver is proved and no
property of a run.

Each property of a passing run has a mutant, a form of one mapped action with a
plausible bug, under which the run fails; the mutated operators stand before
the actions they replace, with comments "Mutant of".

## 4. What is proved

Every theorem holds for all values of the constants that satisfy the named
assumptions of the modules (types, disjointness and finite sets of elements), and those
named here.

**Netsocket** (`NetsocketProofs`), with the further
hypothesis that no socket is numbered 0 (netsocket.c:48 takes 0 for no socket,
and with 0 among `Fds` TLC breaks `WatchersSafe` and `DescriptorsOwned`):
`TypeCorrect`, `CallbacksAreCounted`, `CallbackObjIsLive`, `NoStaleWatcher`,
`NoDescriptorLost`. The inductive invariant `IInv` is the conjunction of
`SockPart` (types, `DescriptorsOwned`, and `Watched`: every started or pending
watcher is of an object with a socket) and `CallPart` (types, `CallbacksCounted`,
`CallbackObjLive`). The parts need each other: a handler may invoke a callback
because its object is live, which `Watched` and `DescriptorsOwned` say; a
destroy may free an object because `inCallback` counts its callbacks, so that
none is left on the stack; and freeing keeps `Watched` because `sock_close()`
took the watchers away. One lemma per effect on sockets (`CloseOwn`, `CloseNew`,
`OpenSock`, `KeepSocks`) and per effect on callbacks (`Invoke`, `ReturnCalls`,
`KeepCalls`) carries the step proofs; counting callbacks rests on
`OccursAppend` and `OccursFront` about sequences.

`FlagInv` adds for each object what its flags say: the kind of its socket by
`mode`, `connected` by the state of the connection but while its DISCONNECT is
being reported, timers and `w_out` only while it is being opened, and noted
events that are not out of date. From it follow `ReadsDoNotBlock`,
`TimersAreInTime` and `ConnectedIsTrue`, and, step by step, the refinement
`EventsAsPromised`: every behaviour of Netsocket is one of NetsocketEvents under
`Contract`'s mapping. The invariant speaks of one object at a time, so that most
steps are one lemma for the object they are about and `SameFlags` for the others.

**Pipe** (`NetsocketProofs`), under the same hypothesis: `ProxyIsUser`: `PipeSpec`
implies Netsocket's `Spec`, so that all of the above holds of the proxy;
`ProxyTypeCorrect`.
`PartnersLive` and `PairsStay` are `PartnerLive` and `Paired` for any number of
clients. `Paired` is about moments at which no callback runs; its inductive form
`PInv` says what holds in the middle of them. At most two callbacks are nested
(`StackRight`): one alone, or a CONNECT that runs the DISCONNECT of the partner
it is connecting. `ObjRight` gives every live object one of four roles: it
awaits its CONNECT, begins it, is one of a pair of an accepted and a made
connection, or ends, which only callbacks in progress can cause and only together
with the partner. `FreePairs` is the lemma the rest turns on: an object may be
freed if its partner ends with it.

**Tracer** (`TracerProofs`): `TypeCorrect`, and `LosesNothing`: for any number of users,
with start numbers of at least 1 and room before the wrap, `NoTraceLost` holds whatever
fails or crashes. Its invariant `Fresh` is asked until `raced`: only the holder
of the lock is between LOCK_EX and LOCK_UN, and at most one number is taken and not yet in
the file (`OneTaker`); every trace file has a number
that is in the sequence file or below it, and a number that is taken is above
(`TakenAbove`, `FilesNumbered`); and the opens still allowed are enough to stay below the wrap (`Room`,
by counting the users inside `tracer_open()`). After the race it is false, as
`tracer_race` shows.

**Amysql** (`AmysqlProofs`): `TypeCorrect`; `ResultIsOwn`: `OwnResult` for any
number of queries, if the program makes no synchronous query while it waits for
an asynchronous one; `Implements`: Amysql implements AmysqlService, without that
condition. The invariant `HandOver` says that a busy amysql is in exactly one of
three places: the wake-up of the thread, the thread, or the wake-up of the main
thread; it is what replaces a lock.

**AmysqlSave** (`AmysqlProofs`): `SaveTypeCorrect`, `LastByteIsKept` and
`SavedIsRight` for every buffer size and row. The invariant adds that the buffer
is still zero from `rpos` on, and that the fields before `fieldc` are saved whole.

**Hash** (`HashProofs`), for every set of elements and ranking, every hash function,
every size of tables and filters, and programs that add nothing behind the
elements of a `HASH_SELECT` before they are sorted or cleared (`~AddToSelected`;
with it `OrderKept` is false, uthash.h:812): `HashSound`, `HashFinds` and
`HashOrdered` are `Fsck`, `FindsAll` and `OrderKept` for `HashSpec`, of whose steps
`libraries` takes some. The invariant `HashInv` is about a ghost: each table has
some sequence `ord` of distinct elements that its order links one after the other in
both directions, that its chains part by the hash values modulo the buckets
(`Chained`), and whose length is the count (`HashIs`); `tail` is the last of them
unless the elements were selected (`Tailed`), and the filter has all their bits
(`Filtered`). Without the ghost nothing would say that two ways through the links
meet the same elements. Each operation has a lemma that says which sequence it
leaves: `AddIs` appends, `DeleteIs` cuts one out (`ListedCut`), `ExpandIs` keeps it,
`SortIs`, `SelectIs` and `IteratedIs`.

**Lists and the merge sort** (`ListProofs`), for every set of elements, ranking and
number of lists. `ListSound` is `ListRight` for `ListSpec`, of whose steps
`libraries` takes some: each operation on a list of any kind leaves links that are
read, from the head on and from the end back, as what the operation makes of the
sequence. The invariant `ListInv` is again about a ghost: there is a sequence of
distinct elements for each list, none shared, whose elements are linked one after
the other (`Forwards`), and back (`Backwards`; not in a singly linked list), with
the ends the kind asks for: null, the head of a ring, the last element as prev of
the head, the tail of a queue (`IsList`, `AreLists`). `ListsRead` says that
links like these are read as the sequence. `InsertedIs`, `RemovedIs` and `JoinedIs`
say what an insertion, a deletion and a concatenation have to do to the links, in
terms common to the kinds, and one lemma for each C macro or function that it does
that (`LLAppendIs` to `QRemoveIs`); `SortedIs` and `TraversedIs` are about the
loops. No further assumption is made: ties, empty lists, an element that is the
head and the last one are cases of these proofs.

The loops are handled without induction theorems: `LoopInvariant` follows from the
least-number principle, and `LoopExists` gives the recursive function of the turns
whenever each turn leads from one set of states to the next. `MergeSortedIs` is
the correctness of the bottom-up merge sort for lists of every length: after a turn
with runs of `w` elements each stretch from one multiple of `w` to the next holds
what it held, sorted (`SortedRuns`), and equal ranks keep their order because the
order that is proved is the strict one of rank and first position (`Before`).

**URLs** (`TextProofs`): `UrlSound` is `UrlParts` for every string over any characters,
of any length. `UntilIs` and `AfterIs` say what it means to stop at a delimiter and to
go on behind it, `PartIs` that a part and what is left make up the string again, and
`UserOnIs`, `HostOnIs`, `PathOnIs` say so of the three stretches of a URL. That the
password holds no "/" is not by construction, since its loop stops at "@" only: it
follows from the look ahead (`HasUserinfo`), which found the "@" first.

**Text** (`TextProofs`): `TextSound` is `TextRight` for every string, table and size.
A loop is a recursive function of its turns, so each is unrolled once
(`FmtBufLoop`, `SubstitutedLoop`, `SplitLoop`, `JoinedLoop`, `LinesLoop`,
`ReadLinesLoop`, `KeptLoop`) and then has an invariant that ties its state to spans
of the string it was given. `Alike`: the bounded buffer of `fmtsub()` is the start of
the unbounded one as long as there is room, and after that stays what it is (`SubstitutedIs`).
`Cuts`: the elements of `split()` are the spans between increasing places that hold
the delimiter, so the places count them (`CountIs`, by injection into the
delimiters), join them (`ElementsJoined`) and leave at most one delimiter at the
end (`SplitSound`). `Ends` and `ReadUpTo`: the lines are consecutive spans, and what is
read of them is the start of the text (`LinesPutTogether`). `CutRightAt`, `CutLeftAt`
make the places of `trim()` and `chomp()` unique, from which they commute with each
other and with `rot13()`, which leaves blanks alone and makes none (`EditsAre`).

**Resolver** (`ResolverProofs`), from `ResolverAssumption` only, for any number of
queries, servers, tries, ids and elements of the search list, any timeout and any
width of the unsigned it is computed in: `QueueIsSorted`, `TimerIsArmed`,
`SendsAreBounded`, `VerdictIsEarned`, `TempfailIsEarned`, and `AnsweredOnce`, the
refinement. Three parts of the invariant `ResolverInv` are not properties of a
run. `QueriesKept` says of each query how often each server was sent the present
name, from above (`FewSends`) and from below (`EnoughSends`) in terms of `try` and
`servi`, and that the names before the present one, and they alone, are denied
(`NamesInTurn`): the bounds hold because `servi` passes only servers that were
sent the name or refused, the verdicts because `nxtsrch` passes only elements
that were tried or do not fit. `TimerKept` relates the time the library remembers
to the timer: a time to come is the timer's, "none" means that it is not set, and
"now" that it is about to fire, except while `dns_timeouts()` runs, which may have
been called for it; that loop ends only when no query is due now, so that it never
takes the timer that has fired for the one it needs. `Calling` says that callbacks
run in the loops. The lemmas on lists (`UnlinkKeeps`, `RequeueKeeps`) say that the
list stays a list of the same queries in order; those on one query (`SendKeeps`,
`NextInTurn`) are about what it holds; `StepsOf` turns every step of the loops
into one query that continues or ends. `SequenceTheorems` and
`WellFoundedInduction` (for the least and the greatest number of a set) are used.

**Records** (`TextProofs`): `RecordsSound` is `RecordsFit` for answer sections of any
length and records. A turn of the loops skips a record, takes it or is led to another
name (`NextTurnIs`); after n turns there is a chain of aliases from the question to the
name looked for, none of whose names has an alias or an answer that was passed over,
and the records taken are those behind it that answer for that name (`ComeTo`,
`ComeFurther`). A second pass starts with what the first one started with
(`RewindIs`), so that it comes to the same records and, by the same way, to the same pointer:
the question's name is counted if and only if it is written as a text of its own, and where
it is not, the name found is the question (`ResultIs`).

**Names in packets** (`TextProofs`): `PacketNamesSound` is `PacketNamesRight` for packets of
any length and bytes: what ends, fits and has no more jumps than are allowed is read, and
what is read is a name that is there, its final zero behind the end of the buffer at
worst, which `packet_room` shows can happen. This includes that both loops come to an end: each turn of
`dns_getdn()` but the last takes some of the room or one of the jumps (`Counted`). The
name at a position is what labels and jumps make of it, without buffers or counters;
that as many rounds as there are positions settle every name that ends is a count
of the positions settled so far (`NamesSettle`), and from it follows how
the name at a position is made up from the one it goes on with (`NameAtIs`). While the loop
runs, what was read and the name at the present position make up the name asked for, and its
jumps are those taken and those to come (`GoesOn`), and `dns_skipdn()` goes the same way up
to the first jump (`Followed`); `TurnEnds`, `TurnJumps` and `TurnCopies` are the turns that keep this or
return what is right.

**Addresses** (`AddressProofs`): `AddressSound` is `AddressRight` for all IPv6 addresses; the
run has those of a few words. A turn of the loop of `mjt_pton6()` is a function, and
`ColonTurn`, `DoubleTurn` and `LastWord` are what it does (`WordTurn`) with a word and a ":", a word and
the "::", and the last word; from them, words that are spelled one after the
other are read, wherever the "::" is (`TextRead`). `PutIs`, `WrittenIs` and `ShortenedIs` show that what
`mjt_ntop6()` writes is spelled like this, and `FilledIs` that the zeros come back where the "::" stood, so
that each text of an address is read (`EveryFormIsRead`). If the zeros are all together, the first loop
of `mjt_ntop6()` finds them (`ZeroRunIs`, an invariant of its turns), and what it writes is one of these
texts, or ends in an IPv4 address, for which `MappedRead` goes through the bytes (`Pton4Reads`). That the
zeros are together is needed: without it the property is the one that `address_text` refutes.

Only model-checked: all liveness (`OpeningEnds`, `DestroyHappens`, `EndNoticed`,
`PairEnds`, `OpenReturns`, `Answered`, `Ends`, `Resolves`), which is out of the
prover's reach; and the functions on names as text (`NamesRight`), which are RECURSIVE operators
over data.

## 5. What the checks found

Four disagreements between the code and what it says of itself have a run each
(`findings` in `PROJECT.json`). Others were met while the code was modelled; they
are not run on their own, for want of a line that says otherwise or because
reading settles them:

* netsocket: `obj->parent` of an accepted connection dangles once the listening
  object is destroyed (netsocket.c:157); a connect that fails at once is not
  reported although netsocket.c:239-240 promises the event (284); a socket
  numbered 0 passes for none (48); watchers are started on descriptor -1 when
  `socket()` fails (265).
* pipe: a client that fails before its CONNECT ends the proxy (pipe.c:134); what
  arrives before the second connection is made is lost (151).
* tracer: `tracer_get_id()` returns the number of a file that could not be opened
  (tracer.c:131 against tracer.h:101-103).
* amysql: `error_num` of an earlier query is never reset (amysql.c:181);
  `amysql_sync_query()` overwrites the buffers of an asynchronous query under way
  (306).
* uthash: `HASH_SELECT` sets neither `tail` nor, for a destination that is not
  empty, the links of what was there (uthash.h:811-812 against
  userguide.txt:1127-1128).
* udns: `dns_cancel()` frees nothing (udns_resolver.c:1318); `dns_close()` forgets
  the data of the timer function (351 against udns.3:379-380); `build_srv_dn()`
  takes the 0 of a name that does not fit for success (udns_rr_srv.c:123);
  `dns_a4todn_()` is off by one (udns_dn.c:156-167) and
  `dns_a4ptodn()` returns the length of the tail only; `dns_skipdn()` refuses a
  jump that ends exactly where the packet does.
* url_parser: a host is not ended by `?` or `#`. misc: `split()` glues the
  delimiter of an empty element to the next one; `fmtsub()` may leave its result
  without a final zero.

## 6. What is not modelled

* The text of messages and errors, host names, setters, accessors; the program's
  memory running out, except where `PROJECT.json` names it as a hazard.
* `htclient.c` (a blocking sequence of calls in one function), `logger.c`, `ini/`,
  the macros, the test programs and the build: no state that two actors share and
  nothing a property could be about that a test does not show.
* `utarray.h`, `utstring.h` (growing buffers of bytes), the hash functions
  (any function stands for them), and the copy of uthash in `uthash-1.9.6/`.
* `udns_init.c`, `dns_set_opt()` and the tools `dnsget.c`, `rblcheck.c` with
  `getopt.c`, which read options and print; the tables of codes.
* Of misc: `die()`, `warn()`, `is_valid_ip()`.

What is left to do: liveness of Netsocket with calls that fail at once; the
resolver with two different names; `HASH_SELECT` into a table that is not empty;
and `htclient_perform()`, as a list of what is open on each way out.
