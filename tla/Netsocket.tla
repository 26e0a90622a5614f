----------------------------- MODULE Netsocket -----------------------------
(***************************************************************************)
(* netsocket.c: TCP connections and listening sockets as objects of a      *)
(* single-threaded libev loop.  The library starts three watchers for an   *)
(* object (w_in, w_out, w_connect_timeout), the loop collects the ready    *)
(* ones (Poll) and calls their handlers one after the other (the Dispatch  *)
(* actions), and a handler tells the user what happened through the        *)
(* object's callback.  A callback is user code: until it returns, the user *)
(* may call the library again, for this object or for another one, and     *)
(* such a call may run a callback in its turn.  stack holds the callbacks  *)
(* in progress; user code also runs between two dispatches (main(), or the *)
(* callbacks of the user's own watchers), when stack is empty.             *)
(*                                                                         *)
(* What a handler or a call does between two callbacks is one action.  The *)
(* assignment disconnect() makes after its callback is an action of its    *)
(* own (DisconnectTail), since the object may be gone by then.             *)
(***************************************************************************)
EXTENDS Integers, Sequences, FiniteSets

CONSTANTS
  Obj,       \* the memory of netsocket objects (bound: objects at one time)
  Fds,       \* the descriptors the kernel may hand out
  MaxDepth,  \* bound on callbacks running inside one another
  MaxQueue   \* bound on unread chunks of a connection and on a backlog

NoObj == "no object"  \* NULL
NoSock == 0           \* obj->sock of an object without a socket
BadFd == -1           \* what socket() and accept() return when they fail

ASSUME NetsocketAssumption ==
  /\ NoObj \notin Obj
  /\ Fds \subseteq Nat
  /\ MaxDepth \in Nat
  /\ MaxQueue \in Nat

Watchers == {"in", "out", "timer"}   \* w_in, w_out, w_connect_timeout
Events == {"CONNECT", "READ", "DISCONNECT"}

VARIABLES
  live,        \* objects allocated and not freed
  known,       \* objects whose address the user has got
  mode,        \* obj->mode
  sock,        \* obj->sock
  connected,   \* obj->connected
  parent,      \* obj->parent
  inCallback,  \* obj->in_callback
  destroyReq,  \* obj->destroy_request
  active,      \* started watchers
  pending,     \* watchers whose handler the loop has still to call
  due,         \* objects whose connect timeout has run out, unnoticed so far
  stack,       \* callbacks in progress, the innermost last
  tail,        \* the object disconnect() is to update after its callback
  conn,        \* kernel: what a descriptor is, unread data or backlog, peer's end
  aborted      \* an assertion of libev has stopped the program

objVars == <<live, known, mode, connected, parent, destroyReq>>
loopVars == <<active, pending, due>>
callVars == <<stack, inCallback, tail>>
vars == <<live, known, mode, sock, connected, parent, inCallback, destroyReq,
          active, pending, due, stack, tail, conn, aborted>>

\* A descriptor: closed, a connection being made, refused or made, a listening
\* socket, or a socket nothing was done with.
ConnState == {"free", "connecting", "refused", "up", "listening", "unused"}
Fresh(s) == [state |-> s, queue |-> 0, fin |-> "no"]
Closed(c, fd) == IF fd \in Fds THEN [c EXCEPT ![fd] = Fresh("free")] ELSE c
FreeFds == {fd \in Fds : conn[fd].state = "free"}

WatchersOf(o) == {o} \X Watchers
Frames == [obj : Obj, event : Events]

\* User code runs: between two dispatches or in the innermost callback.
UserRuns == ~aborted /\ tail = NoObj
\* The loop has control: no callback runs.
LoopRuns == UserRuns /\ stack = << >>

Init ==
  /\ live = {} /\ known = {}
  /\ mode = [o \in Obj |-> "none"]
  /\ sock = [o \in Obj |-> NoSock]
  /\ connected = [o \in Obj |-> FALSE]
  /\ parent = [o \in Obj |-> NoObj]
  /\ inCallback = [o \in Obj |-> 0]
  /\ destroyReq = [o \in Obj |-> FALSE]
  /\ active = {} /\ pending = {} /\ due = {}
  /\ stack = << >>
  /\ tail = NoObj
  /\ conn = [fd \in Fds |-> Fresh("free")]
  /\ aborted = FALSE

-----------------------------------------------------------------------------
(* What the handlers and the calls are built from.  The values a function   *)
(* has reached so far are parameters: s is the socket, act and pend are the *)
(* started and the pending watchers, c is the kernel's table.               *)

\* Mutant of SockClose: the connect timer is left running.
SockCloseLeavesTimer(o, s, act, pend, c) ==
  /\ s # NoSock
  /\ active' = act \ {<<o, "in">>, <<o, "out">>}
  /\ pending' = pend \ {<<o, "in">>, <<o, "out">>}
  /\ conn' = Closed(c, s)
  /\ sock' = [sock EXCEPT ![o] = NoSock]
  /\ UNCHANGED due

\* Mutant of SockClose: obj->sock keeps the number of the closed descriptor.
SockCloseKeepsSock(o, s, act, pend, c) ==
  /\ active' = act \ WatchersOf(o)
  /\ pending' = pend \ WatchersOf(o)
  /\ conn' = IF s = NoSock THEN c ELSE Closed(c, s)
  /\ sock' = [sock EXCEPT ![o] = s]
  /\ due' = due \ {o}

\* sock_close(): stopping a watcher also takes it out of the pending ones.
SockClose(o, s, act, pend, c) ==
  IF s = NoSock
  THEN /\ active' = act
       /\ pending' = pend
       /\ conn' = c
       /\ sock' = [sock EXCEPT ![o] = s]
       /\ UNCHANGED due
  ELSE /\ active' = act \ WatchersOf(o)
       /\ pending' = pend \ WatchersOf(o)
       /\ conn' = Closed(c, s)
       /\ sock' = [sock EXCEPT ![o] = NoSock]
       /\ due' = due \ {o}

\* Mutant of InvokeCallback: in_callback is a flag instead of a count.
InvokeCallbackFlag(o, event) ==
  /\ Len(stack) < MaxDepth
  /\ stack' = Append(stack, [obj |-> o, event |-> event])
  /\ inCallback' = [inCallback EXCEPT ![o] = 1]
  /\ known' = known \cup {o}

\* invoke_callback() up to the call of obj->callback.
InvokeCallback(o, event) ==
  /\ Len(stack) < MaxDepth
  /\ stack' = Append(stack, [obj |-> o, event |-> event])
  /\ inCallback' = [inCallback EXCEPT ![o] = @ + 1]
  /\ known' = known \cup {o}

\* disconnect() with a callback, up to the call of the callback.
DisconnectEvent(o, s, act, pend, c) ==
  /\ SockClose(o, s, act, pend, c)
  /\ InvokeCallback(o, "DISCONNECT")

\* free().  netsocket_new() zeroes the memory it gets; zeroing it here makes
\* no difference to an object that is not live.
Free(o) ==
  /\ live' = live \ {o}
  /\ known' = known \ {o}
  /\ mode' = [mode EXCEPT ![o] = "none"]
  /\ connected' = [connected EXCEPT ![o] = FALSE]
  /\ parent' = [parent EXCEPT ![o] = NoObj]
  /\ destroyReq' = [destroyReq EXCEPT ![o] = FALSE]

\* netsocket_destroy() of an object no callback of which runs.
DestroyNow(o) == SockClose(o, sock[o], active, pending, conn) /\ Free(o)

-----------------------------------------------------------------------------
(* The loop.                                                                *)

Readable(fd) ==
  \/ conn[fd].state = "refused"
  \/ conn[fd].state \in {"up", "listening"} /\ conn[fd].queue > 0
  \/ conn[fd].state = "up" /\ conn[fd].fin # "no"

Writable(fd) == conn[fd].state \in {"up", "refused"}

\* The I/O watchers that have an event.
ReadyIO ==
  {w \in active : \/ w[2] = "in" /\ Readable(sock[w[1]])
                  \/ w[2] = "out" /\ Writable(sock[w[1]])}
Expired == {w \in active : w[2] = "timer" /\ w[1] \in due}

\* One round of the loop: it notes every watcher that has an event, and stops
\* the expired timers, which do not repeat.
Poll ==
  /\ LoopRuns
  /\ pending = {}
  /\ ReadyIO \cup Expired # {}
  /\ pending' = ReadyIO \cup Expired
  /\ active' = active \ Expired
  /\ due' = {}
  /\ UNCHANGED <<objVars, callVars, sock, conn, aborted>>

\* connect_timeout milliseconds have passed since the connect.
TimerDue(o) ==
  /\ <<o, "timer">> \in active
  /\ o \notin due
  /\ due' = due \cup {o}
  /\ UNCHANGED <<objVars, callVars, sock, active, pending, conn, aborted>>

\* The loop takes a pending watcher of o, in any order.
Dispatches(o, w) == LoopRuns /\ <<o, w>> \in pending
Rest(o, w) == pending \ {<<o, w>>}

\* w_in_cb() of a server, sock_accept(): the new object is in the loop before
\* the user hears of it.  An aborted connection, or no descriptor left (and, as
\* a bound of the model, no object left), makes accept() fail.
Accept(o) ==
  /\ Dispatches(o, "in")
  /\ mode[o] = "server"
  /\ pending' = Rest(o, "in")
  /\ \/ \E q \in Obj \ live, fd \in FreeFds :
          /\ conn[sock[o]].queue > 0
          /\ live' = live \cup {q}
          /\ mode' = [mode EXCEPT ![q] = "client"]
          /\ sock' = [sock EXCEPT ![q] = fd]
          /\ parent' = [parent EXCEPT ![q] = o]
          /\ active' = active \cup {<<q, "in">>, <<q, "out">>}
          /\ conn' = [conn EXCEPT ![fd] = Fresh("up"), ![sock[o]].queue = @ - 1]
     \/ /\ conn[sock[o]].queue = 0 \/ FreeFds = {} \/ live = Obj
        /\ UNCHANGED <<live, mode, sock, parent, active, conn>>
  /\ UNCHANGED <<known, connected, destroyReq, callVars, due, aborted>>

\* w_in_cb() of a client before its CONNECT: data has to wait.
InBeforeConnect(o) ==
  /\ Dispatches(o, "in")
  /\ mode[o] # "server"
  /\ ~connected[o]
  /\ pending' = Rest(o, "in")
  /\ UNCHANGED <<objVars, callVars, sock, active, due, conn, aborted>>

\* Mutant of ReadData: w_in_cb() does not wait for the CONNECT.
ReadDataEarly(o) ==
  /\ Dispatches(o, "in")
  /\ mode[o] # "server"
  /\ conn[sock[o]].queue > 0
  /\ conn' = [conn EXCEPT ![sock[o]].queue = @ - 1]
  /\ pending' = Rest(o, "in")
  /\ InvokeCallback(o, "READ")
  /\ UNCHANGED <<live, mode, connected, parent, destroyReq, sock, active, due, tail, aborted>>

\* Mutant of ReadData: w_in_cb() goes on to read again.
ReadDataAgain(o) ==
  /\ Dispatches(o, "in")
  /\ mode[o] # "server"
  /\ connected[o]
  /\ conn[sock[o]].queue > 0
  /\ conn' = [conn EXCEPT ![sock[o]].queue = @ - 1]
  /\ InvokeCallback(o, "READ")
  /\ UNCHANGED <<live, mode, connected, parent, destroyReq, sock, active, pending,
                 due, tail, aborted>>

\* w_in_cb(), read() returned data.
ReadData(o) ==
  /\ Dispatches(o, "in")
  /\ mode[o] # "server"
  /\ connected[o]
  /\ conn[sock[o]].queue > 0
  /\ conn' = [conn EXCEPT ![sock[o]].queue = @ - 1]
  /\ pending' = Rest(o, "in")
  /\ InvokeCallback(o, "READ")
  /\ UNCHANGED <<live, mode, connected, parent, destroyReq, sock, active, due, tail, aborted>>

\* Mutant of ReadEnd: the end of the data is not taken for a disconnect.
ReadEndIgnored(o) ==
  /\ Dispatches(o, "in")
  /\ mode[o] # "server"
  /\ connected[o]
  /\ conn[sock[o]].queue = 0
  /\ pending' = Rest(o, "in")
  /\ UNCHANGED <<objVars, callVars, sock, active, due, conn, aborted>>

\* w_in_cb(), read() returned 0 or an error.
ReadEnd(o) ==
  /\ Dispatches(o, "in")
  /\ mode[o] # "server"
  /\ connected[o]
  /\ conn[sock[o]].queue = 0
  /\ conn[sock[o]].fin # "no"
  /\ DisconnectEvent(o, sock[o], active, Rest(o, "in"), conn)
  /\ UNCHANGED <<live, mode, connected, parent, destroyReq, tail, aborted>>

\* w_out_cb(), SO_ERROR is an error.
ConnectError(o) ==
  /\ Dispatches(o, "out")
  /\ conn[sock[o]].state = "refused" \/ conn[sock[o]].fin = "reset"
  /\ DisconnectEvent(o, sock[o], active \ {<<o, "out">>}, Rest(o, "out"), conn)
  /\ UNCHANGED <<live, mode, connected, parent, destroyReq, tail, aborted>>

\* Mutant of ConnectDone: the connect timer is not stopped.
ConnectDoneLeavesTimer(o) ==
  /\ Dispatches(o, "out")
  /\ conn[sock[o]].state = "up"
  /\ conn[sock[o]].fin # "reset"
  /\ connected' = [connected EXCEPT ![o] = TRUE]
  /\ active' = active \ {<<o, "out">>}
  /\ pending' = Rest(o, "out")
  /\ InvokeCallback(o, "CONNECT")
  /\ UNCHANGED <<live, mode, parent, destroyReq, sock, due, conn, tail, aborted>>

\* w_out_cb(), the connection is made.
ConnectDone(o) ==
  /\ Dispatches(o, "out")
  /\ conn[sock[o]].state = "up"
  /\ conn[sock[o]].fin # "reset"
  /\ connected' = [connected EXCEPT ![o] = TRUE]
  /\ active' = active \ {<<o, "out">>, <<o, "timer">>}
  /\ pending' = Rest(o, "out") \ {<<o, "timer">>}
  /\ due' = due \ {o}
  /\ InvokeCallback(o, "CONNECT")
  /\ UNCHANGED <<live, mode, parent, destroyReq, sock, conn, tail, aborted>>

\* w_connect_timeout_cb()
ConnectTimeout(o) ==
  /\ Dispatches(o, "timer")
  /\ DisconnectEvent(o, sock[o], active, Rest(o, "timer"), conn)
  /\ UNCHANGED <<live, mode, connected, parent, destroyReq, tail, aborted>>

-----------------------------------------------------------------------------
(* The callback returns.                                                    *)

\* Mutant of CallbackReturn: in_callback is looked at before it is counted down.
CallbackReturnEarlyTest ==
  /\ UserRuns
  /\ stack # << >>
  /\ LET o == stack[Len(stack)].obj IN
       /\ inCallback' = [inCallback EXCEPT ![o] = @ - 1]
       /\ IF destroyReq[o] /\ inCallback[o] = 0
          THEN DestroyNow(o)
          ELSE UNCHANGED <<objVars, sock, loopVars, conn>>
       /\ tail' = IF stack[Len(stack)].event = "DISCONNECT" THEN o ELSE NoObj
  /\ stack' = SubSeq(stack, 1, Len(stack) - 1)
  /\ UNCHANGED aborted

\* invoke_callback() after the call: a destroy that was asked for while
\* callbacks of the object ran is done when the last of them has returned.
CallbackReturn ==
  /\ UserRuns
  /\ stack # << >>
  /\ LET o == stack[Len(stack)].obj IN
       /\ inCallback' = [inCallback EXCEPT ![o] = @ - 1]
       /\ IF destroyReq[o] /\ inCallback[o] = 1
          THEN DestroyNow(o)
          ELSE UNCHANGED <<objVars, sock, loopVars, conn>>
       /\ tail' = IF stack[Len(stack)].event = "DISCONNECT" THEN o ELSE NoObj
  /\ stack' = SubSeq(stack, 1, Len(stack) - 1)
  /\ UNCHANGED aborted

\* The last line of disconnect(), obj->connected = 0.
DisconnectTail ==
  /\ tail # NoObj
  /\ connected' = [connected EXCEPT ![tail] = FALSE]
  /\ tail' = NoObj
  /\ UNCHANGED <<live, known, mode, parent, destroyReq, sock, loopVars,
                 stack, inCallback, conn, aborted>>

-----------------------------------------------------------------------------
(* The calls of the user.                                                   *)

\* netsocket_new()
New(o) ==
  /\ UserRuns
  /\ o \notin live
  /\ live' = live \cup {o}
  /\ known' = known \cup {o}
  /\ UNCHANGED <<mode, connected, parent, destroyReq, sock, callVars, loopVars, conn, aborted>>

\* The user may connect or listen with an object he knows that has no socket.
MayOpen(o) == UserRuns /\ o \in known /\ sock[o] = NoSock

\* netsocket_connect(): bad port, or the host is not found.
ConnectInvalid(o) ==
  /\ MayOpen(o)
  /\ mode' = [mode EXCEPT ![o] = "client"]
  /\ DisconnectEvent(o, sock[o], active, pending, conn)
  /\ UNCHANGED <<live, connected, parent, destroyReq, tail, aborted>>

\* Mutant of ConnectStarts: the connect timer is not started.
ConnectStartsNoTimer(o, fd) ==
  /\ MayOpen(o)
  /\ mode' = [mode EXCEPT ![o] = "client"]
  /\ sock' = [sock EXCEPT ![o] = fd]
  /\ active' = active \cup {<<o, "in">>, <<o, "out">>}
  /\ conn' = [conn EXCEPT ![fd] = Fresh("connecting")]
  /\ UNCHANGED <<live, known, connected, parent, destroyReq, callVars, pending, due, aborted>>

\* netsocket_connect(): connect() answers EINPROGRESS.
ConnectStarts(o, fd) ==
  /\ MayOpen(o)
  /\ mode' = [mode EXCEPT ![o] = "client"]
  /\ sock' = [sock EXCEPT ![o] = fd]
  /\ active' = active \cup WatchersOf(o)
  /\ conn' = [conn EXCEPT ![fd] = Fresh("connecting")]
  /\ UNCHANGED <<live, known, connected, parent, destroyReq, callVars, pending, due, aborted>>

\* netsocket_connect(): connect() leaves another errno; netsocket_disconnect()
\* runs no callback.
ConnectFails(o, fd) ==
  /\ MayOpen(o)
  /\ mode' = [mode EXCEPT ![o] = "client"]
  /\ SockClose(o, fd, active \cup WatchersOf(o), pending,
               [conn EXCEPT ![fd] = Fresh("unused")])
  /\ connected' = [connected EXCEPT ![o] = FALSE]
  /\ UNCHANGED <<live, known, parent, destroyReq, callVars, aborted>>

\* netsocket_connect(): socket() fails, and ev_io_start() asserts fd >= 0.
ConnectNoFd(o) ==
  /\ MayOpen(o)
  /\ mode' = [mode EXCEPT ![o] = "client"]
  /\ sock' = [sock EXCEPT ![o] = BadFd]
  /\ aborted' = TRUE
  /\ UNCHANGED <<live, known, connected, parent, destroyReq, callVars, loopVars, conn>>

\* netsocket_listen(): bad port, or the local host is not found.
ListenInvalid(o) ==
  /\ MayOpen(o)
  /\ mode' = [mode EXCEPT ![o] = "server"]
  /\ DisconnectEvent(o, sock[o], active, pending, conn)
  /\ UNCHANGED <<live, connected, parent, destroyReq, tail, aborted>>

\* netsocket_listen(): bind() or listen() fails.
ListenFails(o, fd) ==
  /\ MayOpen(o)
  /\ mode' = [mode EXCEPT ![o] = "server"]
  /\ DisconnectEvent(o, fd, active, pending, [conn EXCEPT ![fd] = Fresh("unused")])
  /\ UNCHANGED <<live, connected, parent, destroyReq, tail, aborted>>

\* netsocket_listen(): socket() fails, then setsockopt() does; -1 stays in
\* obj->sock.
ListenNoFd(o) ==
  /\ MayOpen(o)
  /\ mode' = [mode EXCEPT ![o] = "server"]
  /\ sock' = [sock EXCEPT ![o] = BadFd]
  /\ UNCHANGED <<live, known, connected, parent, destroyReq, callVars, loopVars, conn, aborted>>

ListenStarts(o, fd) ==
  /\ MayOpen(o)
  /\ mode' = [mode EXCEPT ![o] = "server"]
  /\ sock' = [sock EXCEPT ![o] = fd]
  /\ active' = active \cup {<<o, "in">>, <<o, "out">>}
  /\ conn' = [conn EXCEPT ![fd] = Fresh("listening")]
  /\ UNCHANGED <<live, known, connected, parent, destroyReq, callVars, pending, due, aborted>>

\* Mutant of Disconnect: obj->connected stays set.
DisconnectStaysConnected(o) ==
  /\ UserRuns
  /\ o \in known
  /\ SockClose(o, sock[o], active, pending, conn)
  /\ UNCHANGED <<live, known, mode, connected, parent, destroyReq, callVars, aborted>>

\* netsocket_disconnect()
Disconnect(o) ==
  /\ UserRuns
  /\ o \in known
  /\ SockClose(o, sock[o], active, pending, conn)
  /\ connected' = [connected EXCEPT ![o] = FALSE]
  /\ UNCHANGED <<live, known, mode, parent, destroyReq, callVars, aborted>>

\* netsocket_disconnect_withevent()
DisconnectWithEvent(o) ==
  /\ UserRuns
  /\ o \in known
  /\ DisconnectEvent(o, sock[o], active, pending, conn)
  /\ UNCHANGED <<live, mode, connected, parent, destroyReq, tail, aborted>>

\* netsocket_destroy()
Destroy(o) ==
  /\ UserRuns
  /\ o \in known
  /\ IF inCallback[o] > 0
     THEN /\ destroyReq' = [destroyReq EXCEPT ![o] = TRUE]
          /\ UNCHANGED <<live, known, mode, connected, parent, sock, loopVars, conn>>
     ELSE DestroyNow(o)
  /\ UNCHANGED <<callVars, aborted>>

-----------------------------------------------------------------------------
(* The kernel and the peers.                                                *)

PeerAnswers(fd, s) ==
  /\ conn[fd].state = "connecting"
  /\ conn' = [conn EXCEPT ![fd].state = s]
  /\ UNCHANGED <<objVars, callVars, loopVars, sock, aborted>>

PeerSends(fd) ==
  /\ conn[fd].state = "up"
  /\ conn[fd].fin = "no"
  /\ conn[fd].queue < MaxQueue
  /\ conn' = [conn EXCEPT ![fd].queue = @ + 1]
  /\ UNCHANGED <<objVars, callVars, loopVars, sock, aborted>>

PeerEnds(fd, how) ==
  /\ conn[fd].state = "up"
  /\ conn[fd].fin # "reset"
  /\ conn' = [conn EXCEPT ![fd].fin = how]
  /\ UNCHANGED <<objVars, callVars, loopVars, sock, aborted>>

\* A peer connects to a listening socket, or gives up before it is accepted.
BacklogChanges(fd) ==
  /\ conn[fd].state = "listening"
  /\ \E n \in 0 .. MaxQueue :
       /\ n = conn[fd].queue + 1 \/ n = conn[fd].queue - 1
       /\ conn' = [conn EXCEPT ![fd].queue = n]
  /\ UNCHANGED <<objVars, callVars, loopVars, sock, aborted>>

-----------------------------------------------------------------------------
Dispatch ==
  \E o \in Obj :
    \/ Accept(o) \/ InBeforeConnect(o) \/ ReadData(o) \/ ReadEnd(o)
    \/ ConnectError(o) \/ ConnectDone(o) \/ ConnectTimeout(o)

Open(o) ==
  \/ ConnectInvalid(o) \/ ConnectNoFd(o) \/ ListenInvalid(o) \/ ListenNoFd(o)
  \/ \E fd \in FreeFds :
       ConnectStarts(o, fd) \/ ConnectFails(o, fd) \/ ListenFails(o, fd) \/ ListenStarts(o, fd)

User ==
  \E o \in Obj :
    New(o) \/ Open(o) \/ Disconnect(o) \/ DisconnectWithEvent(o) \/ Destroy(o)

Peer ==
  \E fd \in Fds :
    \/ \E s \in {"up", "refused"} : PeerAnswers(fd, s)
    \/ \E how \in {"eof", "reset"} : PeerEnds(fd, how)
    \/ PeerSends(fd) \/ BacklogChanges(fd)

Next ==
  \/ Poll \/ Dispatch \/ CallbackReturn \/ DisconnectTail
  \/ User \/ Peer
  \/ \E o \in Obj : TimerDue(o)

Spec == Init /\ [][Next]_vars

\* What liveness needs.  The loop goes on whenever it has control again: user
\* code outside callbacks returns to it.  Every callback returns, which is said
\* for each depth, since the callbacks that run inside it suspend it.  Time
\* passes.  Nothing is asked of the user or of the peers.
Fairness ==
  /\ SF_vars(Poll) /\ SF_vars(Dispatch)
  /\ \A d \in 1 .. MaxDepth : SF_vars(Len(stack) = d /\ CallbackReturn)
  /\ WF_vars(DisconnectTail)
  /\ \A o \in Obj : WF_vars(TimerDue(o))

FairSpec == Spec /\ Fairness

-----------------------------------------------------------------------------
TypeOK ==
  /\ live \subseteq Obj /\ known \subseteq live
  /\ mode \in [Obj -> {"none", "client", "server"}]
  /\ sock \in [Obj -> Fds \cup {NoSock, BadFd}]
  /\ connected \in [Obj -> BOOLEAN]
  /\ parent \in [Obj -> Obj \cup {NoObj}]
  /\ inCallback \in [Obj -> Nat]
  /\ destroyReq \in [Obj -> BOOLEAN]
  /\ active \subseteq Obj \X Watchers
  /\ pending \subseteq Obj \X Watchers
  /\ due \subseteq Obj
  /\ stack \in Seq(Frames) /\ Len(stack) <= MaxDepth
  /\ tail \in Obj \cup {NoObj}
  /\ conn \in [Fds -> [state : ConnState, queue : 0 .. MaxQueue, fin : {"no", "eof", "reset"}]]
  /\ aborted \in BOOLEAN

\* obj->in_callback is the number of callbacks of the object that run, which the
\* deferred destroy relies on (invoke_callback() 58-64).
CallbacksCounted ==
  \A o \in Obj : inCallback[o] = Cardinality({i \in 1 .. Len(stack) : stack[i].obj = o})

\* An object is not freed while one of its callbacks runs, however the calls
\* the user makes in callbacks are nested (netsocket_destroy() 482-485,
\* invoke_callback() 62-67).
CallbackObjLive == \A i \in 1 .. Len(stack) : stack[i].obj \in live

\* The loop never calls a handler for an object that was freed or whose socket
\* was closed, and never watches such a descriptor, though the kernel hands the
\* same numbers out again (sock_close() 50-54).
WatchersSafe ==
  \A w \in active \cup pending :
    /\ w[1] \in live
    /\ sock[w[1]] \in Fds
    /\ conn[sock[w[1]]].state # "free"

\* Every open descriptor belongs to exactly one object that can close it:
\* nothing is leaked and nothing is closed twice.
DescriptorsOwned ==
  /\ \A fd \in Fds : conn[fd].state # "free" => \E o \in live : sock[o] = fd
  /\ \A o, q \in live : sock[o] = sock[q] /\ sock[o] \in Fds => o = q
  /\ \A o \in Obj : sock[o] \in Fds => o \in live /\ conn[sock[o]].state # "free"

\* When w_in_cb() gets to its read() there is something to read: the sockets
\* sock_accept() makes are blocking ones, and a read() with nothing to read
\* would stop the whole loop.
ReadNeverBlocks ==
  \A o \in Obj :
    <<o, "in">> \in pending /\ mode[o] = "client" /\ connected[o]
      => conn[sock[o]].queue > 0 \/ conn[sock[o]].fin # "no"

\* A client whose connection w_out_cb() has still to report, and one for which
\* it has reported it.
Opening(o) == mode[o] = "client" /\ sock[o] \in Fds /\ <<o, "out">> \in active
Up(o) == mode[o] = "client" /\ sock[o] \in Fds /\ <<o, "out">> \notin active

\* The connect timeout never ends a connection that was made: it runs, or waits
\* for its handler, only while the connection is being opened.
TimeoutOnlyOpening ==
  \A o \in Obj : <<o, "timer">> \in active \cup pending => Opening(o)

\* obj->connected tells the truth, whatever the callbacks do (a reconnect from
\* the DISCONNECT callback too), except for an object whose DISCONNECT is being
\* reported.
ConnectedAgrees ==
  \A o \in Obj :
    /\ Up(o) => connected[o]
    /\ connected[o] /\ ~Up(o) =>
         tail = o \/ \E i \in 1 .. Len(stack) :
                       stack[i] = [obj |-> o, event |-> "DISCONNECT"]

\* netsocket.c:16-18, what follows a callback in a function does not use the
\* object: disconnect() ends with an object that has not been freed.
TailObjLive == tail # NoObj => tail \in live

\* A connection that is being opened is settled: reported, failed, timed out or
\* given up by the user.
OpeningEnds == \A o \in Obj : Opening(o) ~> ~Opening(o) \/ aborted

\* An object whose destruction was put off is freed in the end.
DestroyHappens == \A o \in Obj : destroyReq[o] ~> o \notin live \/ aborted

\* When a peer has ended a connection the program comes to close it, and does
\* not keep the descriptor.
EndNoticed == \A fd \in Fds : conn[fd].fin # "no" ~> conn[fd].state = "free" \/ aborted
=============================================================================
