-------------------------- MODULE NetsocketProofs --------------------------
(***************************************************************************)
(* Proofs about Netsocket, for any number of objects, descriptors, nested  *)
(* callbacks and unread chunks, and any order of calls, events and         *)
(* handlers, under one assumption: no socket has the number 0.  First the  *)
(* invariant IInv, then that the flags of an object agree with its socket  *)
(* and watchers (FlagInv), and last that Netsocket implements              *)
(* NetsocketEvents.                                                        *)
(*                                                                         *)
(* Then about Pipe: the proxy uses netsocket as a user may, so that what   *)
(* is proved of the library holds of the proxy, and its objects are in     *)
(* pairs.                                                                  *)
(***************************************************************************)
EXTENDS NetsocketContract, Pipe, FiniteSetTheorems, SequenceTheorems, TLAPS

USE NetsocketAssumption

\* TypeOK in three parts: sockets and watchers, callbacks, and the rest.
ConnType == [state : ConnState, queue : 0 .. MaxQueue, fin : {"no", "eof", "reset"}]

SockType ==
  /\ live \subseteq Obj
  /\ sock \in [Obj -> Fds \cup {NoSock, BadFd}]
  /\ active \subseteq Obj \X Watchers
  /\ pending \subseteq Obj \X Watchers
  /\ conn \in [Fds -> ConnType]

CallType ==
  /\ stack \in Seq(Frames) /\ Len(stack) <= MaxDepth
  /\ inCallback \in [Obj -> Nat]

RestType ==
  /\ known \subseteq live
  /\ mode \in [Obj -> {"none", "client", "server"}]
  /\ connected \in [Obj -> BOOLEAN]
  /\ parent \in [Obj -> Obj \cup {NoObj}]
  /\ destroyReq \in [Obj -> BOOLEAN]
  /\ due \subseteq Obj
  /\ tail \in Obj \cup {NoObj}
  /\ aborted \in BOOLEAN

LEMMA TypeParts == TypeOK <=> SockType /\ CallType /\ RestType
  BY DEF TypeOK, SockType, CallType, RestType, ConnType

\* A started or pending watcher is of an object that has a socket.
Watched == \A w \in active \cup pending : sock[w[1]] \in Fds

\* The inductive invariant: its part about sockets, its part about callbacks.
SockPart == SockType /\ DescriptorsOwned /\ Watched
CallPart == CallType /\ CallbacksCounted /\ CallbackObjLive
IInv == SockPart /\ CallPart /\ RestType

LEMMA WatchersAreSafe == SockPart => WatchersSafe
  BY DEF SockPart, SockType, DescriptorsOwned, Watched, WatchersSafe

-----------------------------------------------------------------------------
(* Sockets and watchers.                                                    *)

\* sock_close() of the object's own socket.
LEMMA CloseOwn ==
  ASSUME NoSock \notin Fds, SockPart,
         NEW o \in live, NEW act \in SUBSET active, NEW pend \in SUBSET pending,
         SockClose(o, sock[o], act, pend, conn),
         live' = live \/ live' = live \ {o}
  PROVE  SockPart'
<1> USE DEF SockPart, SockType
<1>1. /\ sock' = [sock EXCEPT ![o] = NoSock] \/ (sock' = sock /\ sock[o] = NoSock)
      /\ active' \subseteq active /\ pending' \subseteq pending
      /\ \A w \in active' \cup pending' : w[1] # o
  BY DEF SockClose, Watched, WatchersOf, Watchers
<1>2. sock' \in [Obj -> Fds \cup {NoSock, BadFd}] /\ sock'[o] \notin Fds
      /\ \A q \in Obj \ {o} : sock'[q] = sock[q]
  BY <1>1
<1>3. /\ conn' \in [Fds -> ConnType]
      /\ \A fd \in Fds : conn'[fd].state # "free" <=> conn[fd].state # "free" /\ fd # sock[o]
  <2>1. Fresh("free") \in ConnType /\ Fresh("free").state = "free"
    BY DEF Fresh, ConnType, ConnState
  <2>2. conn' = Closed(conn, sock[o])
    BY DEF SockClose, Closed
  <2> QED
    BY <2>1, <2>2 DEF Closed
<1>4. Watched'
  BY <1>1, <1>2 DEF Watched
<1>5. DescriptorsOwned'
  BY <1>2, <1>3 DEF DescriptorsOwned
<1> QED
  BY <1>1, <1>2, <1>3, <1>4, <1>5

\* sock_close() of a socket just made for an object that had none.
LEMMA CloseNew ==
  ASSUME NoSock \notin Fds, SockPart,
         NEW o \in live, sock[o] = NoSock, NEW fd \in FreeFds,
         NEW act \in SUBSET (active \cup WatchersOf(o)),
         SockClose(o, fd, act, pending, [conn EXCEPT ![fd] = Fresh("unused")]),
         live' = live
  PROVE  SockPart'
<1> USE DEF SockPart, SockType
<1>0. fd \in Fds /\ fd # NoSock /\ conn[fd].state = "free"
  BY DEF FreeFds
<1>1. /\ sock' = sock
      /\ active' \subseteq active /\ pending' \subseteq pending
  BY <1>0 DEF SockClose, WatchersOf
<1>2. /\ conn' \in [Fds -> ConnType]
      /\ \A x \in Fds : conn'[x].state # "free" <=> conn[x].state # "free"
  <2>1. Fresh("free") \in ConnType /\ Fresh("free").state = "free"
    BY DEF Fresh, ConnType, ConnState
  <2>2. conn' = [conn EXCEPT ![fd] = Fresh("free")]
    BY <1>0 DEF SockClose, Closed
  <2> QED
    BY <1>0, <2>1, <2>2
<1>3. Watched'
  BY <1>1 DEF Watched
<1>4. DescriptorsOwned'
  BY <1>1, <1>2 DEF DescriptorsOwned
<1> QED
  BY <1>1, <1>2, <1>3, <1>4

\* An object without a socket gets a new descriptor.
LEMMA OpenSock ==
  ASSUME NoSock \notin Fds, SockPart, NEW o \in Obj, sock[o] \notin Fds,
         live' = live \cup {o}, NEW fd \in FreeFds,
         sock' = [sock EXCEPT ![o] = fd],
         active' \subseteq active \cup WatchersOf(o), pending' \subseteq pending,
         conn' \in [Fds -> ConnType], conn'[fd].state # "free",
         \A x \in Fds \ {fd} : conn'[x].state = conn[x].state
  PROVE  SockPart'
<1> USE DEF SockPart, SockType
<1>0. fd \in Fds /\ conn[fd].state = "free"
  BY DEF FreeFds
<1>1. /\ sock' \in [Obj -> Fds \cup {NoSock, BadFd}] /\ sock'[o] = fd
      /\ \A q \in Obj \ {o} : sock'[q] = sock[q]
  BY <1>0
<1>2. \A w \in active' \cup pending' : w \in active \cup pending \/ w[1] = o
  BY DEF WatchersOf
<1>3. Watched'
  BY <1>0, <1>1, <1>2 DEF Watched, WatchersOf
<1>4. DescriptorsOwned'
  <2>1. \A x \in Fds : conn'[x].state # "free" => \E q \in live' : sock'[q] = x
    <3>1. o \in live' /\ sock'[o] = fd
      BY <1>1
    <3>2. ASSUME NEW x \in Fds \ {fd}, conn'[x].state # "free"
          PROVE  \E q \in live' : sock'[q] = x
      <4>1. PICK q \in live : sock[q] = x
        BY <3>2 DEF DescriptorsOwned
      <4> QED
        BY <1>1, <4>1
    <3> QED
      BY <3>1, <3>2
  <2>2. \A q \in Obj \ {o} : sock'[q] # fd
    BY <1>0, <1>1 DEF DescriptorsOwned
  <2>3. ASSUME NEW q \in Obj, sock'[q] \in Fds
        PROVE  q \in live' /\ conn'[sock'[q]].state # "free"
    <3>1. CASE q = o
      BY <1>1, <3>1
    <3>2. CASE q # o
      <4>1. sock'[q] = sock[q] /\ sock[q] \in Fds \ {fd}
        BY <1>1, <2>2, <2>3, <3>2
      <4>2. q \in live /\ conn[sock[q]].state # "free"
        BY <4>1 DEF DescriptorsOwned
      <4> QED
        BY <4>1, <4>2
    <3> QED
      BY <3>1, <3>2
  <2>4. \A p, q \in live' : sock'[p] = sock'[q] /\ sock'[p] \in Fds => p = q
    BY <1>1, <2>2 DEF DescriptorsOwned
  <2> QED
    BY <2>1, <2>3, <2>4 DEF DescriptorsOwned
<1> QED
  BY <1>1, <1>3, <1>4 DEF WatchersOf

\* No object loses or gets a socket, no descriptor is opened or closed and no
\* watcher is started.
LEMMA KeepSocks ==
  ASSUME SockPart, live \subseteq live', live' \subseteq Obj, sock' = sock,
         active' \subseteq active, pending' \subseteq active \cup pending,
         conn' \in [Fds -> ConnType],
         \A fd \in Fds : conn'[fd].state = "free" <=> conn[fd].state = "free"
  PROVE  SockPart'
<1>1. Watched'
  BY DEF SockPart, Watched
<1>2. DescriptorsOwned'
  BY DEF SockPart, SockType, DescriptorsOwned
<1> QED
  BY <1>1, <1>2 DEF SockPart, SockType

-----------------------------------------------------------------------------
(* Callbacks.                                                               *)

\* Where a list of callbacks has those of object o.
Occurs(s, o) == {i \in 1 .. Len(s) : s[i].obj = o}

LEMMA OccursFinite ==
  ASSUME NEW s \in Seq(Frames), NEW o
  PROVE  IsFiniteSet(Occurs(s, o)) /\ Cardinality(Occurs(s, o)) \in Nat
<1>1. IsFiniteSet(1 .. Len(s))
  BY FS_Interval
<1>2. Occurs(s, o) \subseteq 1 .. Len(s)
  BY DEF Occurs
<1> QED
  BY <1>1, <1>2, FS_Subset, FS_CardinalityType

\* A callback more of object f.obj.
LEMMA OccursAppend ==
  ASSUME NEW s \in Seq(Frames), NEW f \in Frames, NEW o
  PROVE  Cardinality(Occurs(Append(s, f), o))
           = Cardinality(Occurs(s, o)) + (IF f.obj = o THEN 1 ELSE 0)
<1>1. Len(Append(s, f)) = Len(s) + 1 /\ Append(s, f)[Len(s) + 1] = f
      /\ \A i \in 1 .. Len(s) : Append(s, f)[i] = s[i]
  OBVIOUS
<1>2. CASE f.obj = o
  <2>1. Occurs(Append(s, f), o) = Occurs(s, o) \cup {Len(s) + 1}
    BY <1>1, <1>2 DEF Occurs
  <2>2. Len(s) + 1 \notin Occurs(s, o)
    BY DEF Occurs
  <2> QED
    BY <1>2, <2>1, <2>2, OccursFinite, FS_AddElement
<1>3. CASE f.obj # o
  <2>1. Occurs(Append(s, f), o) = Occurs(s, o)
    BY <1>1, <1>3 DEF Occurs
  <2> QED
    BY <1>3, <2>1, OccursFinite
<1> QED
  BY <1>2, <1>3

\* A list of callbacks without the innermost one.
LEMMA FrontOfStack ==
  ASSUME NEW s \in Seq(Frames), s # << >>
  PROVE  /\ SubSeq(s, 1, Len(s) - 1) \in Seq(Frames)
         /\ Len(SubSeq(s, 1, Len(s) - 1)) = Len(s) - 1
         /\ \A i \in 1 .. Len(s) - 1 : SubSeq(s, 1, Len(s) - 1)[i] = s[i]
         /\ s[Len(s)] \in Frames
<1>1. Len(s) \in Nat /\ Len(s) >= 1 /\ \A i \in 1 .. Len(s) : s[i] \in Frames
  OBVIOUS
<1> DEFINE n == Len(s) - 1
<1>2. n \in Int /\ n - 1 + 1 = n /\ \A i \in 1 .. n : s[i] \in Frames /\ 1 + i - 1 = i
  BY <1>1
<1>3. n \in Nat
  <2>1. Len(s) \in Nat /\ Len(s) # 0
    BY <1>1
  <2> QED
    BY <2>1
<1> HIDE DEF n
<1>4. /\ SubSeq(s, 1, n) \in Seq(Frames)
      /\ Len(SubSeq(s, 1, n)) = IF 1 <= n THEN n - 1 + 1 ELSE 0
      /\ \A i \in 1 .. n - 1 + 1 : SubSeq(s, 1, n)[i] = s[1 + i - 1]
  BY <1>2, SubSeqProperties
<1> QED
  BY <1>1, <1>2, <1>3, <1>4 DEF n

\* The innermost callback taken away.
LEMMA OccursFront ==
  ASSUME NEW s \in Seq(Frames), s # << >>, NEW o
  PROVE  Cardinality(Occurs(s, o))
           = Cardinality(Occurs(SubSeq(s, 1, Len(s) - 1), o))
               + (IF s[Len(s)].obj = o THEN 1 ELSE 0)
<1> DEFINE front == SubSeq(s, 1, Len(s) - 1)
<1>1. front \in Seq(Frames) /\ s[Len(s)] \in Frames /\ s = Append(front, s[Len(s)])
  OBVIOUS
<1> HIDE DEF front
<1>2. Cardinality(Occurs(Append(front, s[Len(s)]), o))
        = Cardinality(Occurs(front, o)) + (IF s[Len(s)].obj = o THEN 1 ELSE 0)
  BY <1>1, OccursAppend
<1> QED
  BY <1>1, <1>2 DEF front

\* in_callback is 0 exactly when no callback of the object runs.
LEMMA NoneRuns ==
  ASSUME NEW s \in Seq(Frames), NEW o, Cardinality(Occurs(s, o)) = 0
  PROVE  \A i \in 1 .. Len(s) : s[i].obj # o
<1>1. Occurs(s, o) = {}
  BY OccursFinite, FS_EmptySet
<1> QED
  BY <1>1 DEF Occurs

LEMMA CountedOccurs == CallbacksCounted <=> \A o \in Obj : inCallback[o] = Cardinality(Occurs(stack, o))
  BY DEF CallbacksCounted, Occurs

\* invoke_callback() up to the callback.
LEMMA Invoke ==
  ASSUME CallPart, live' = live, NEW o \in live, o \in Obj, NEW event \in Events,
         InvokeCallback(o, event)
  PROVE  CallPart'
<1> USE DEF CallPart, CallType
<1> DEFINE f == [obj |-> o, event |-> event]
<1>1. f \in Frames /\ stack' = Append(stack, f) /\ f.obj = o
  BY DEF Frames, InvokeCallback
<1>2. CallType'
  BY <1>1 DEF InvokeCallback
<1>3. \A q \in Obj : inCallback'[q] = inCallback[q] + (IF o = q THEN 1 ELSE 0)
  BY DEF InvokeCallback
<1> HIDE DEF f
<1>4. \A q \in Obj : Cardinality(Occurs(stack', q)) = Cardinality(Occurs(stack, q)) + (IF o = q THEN 1 ELSE 0)
  BY <1>1, OccursAppend
<1>5. CallbacksCounted'
  <2>1. \A q \in Obj : inCallback'[q] = Cardinality(Occurs(stack', q))
    BY <1>3, <1>4, CountedOccurs
  <2> QED
    BY <2>1 DEF CallbacksCounted, Occurs
<1>6. CallbackObjLive'
  BY <1>1 DEF CallbackObjLive
<1> QED
  BY <1>2, <1>5, <1>6

\* The innermost callback returns; nothing is freed but its object, and only if
\* no other callback of the object runs.
LEMMA ReturnCalls ==
  ASSUME CallPart, stack # << >>, NEW o, o = stack[Len(stack)].obj,
         stack' = SubSeq(stack, 1, Len(stack) - 1),
         inCallback' = [inCallback EXCEPT ![o] = @ - 1],
         live' = live \/ (inCallback[o] = 1 /\ live' = live \ {o})
  PROVE  CallPart'
<1> USE DEF CallPart, CallType
<1>1. /\ stack' \in Seq(Frames) /\ Len(stack') = Len(stack) - 1 /\ o \in Obj
      /\ \A i \in 1 .. Len(stack') : stack'[i] = stack[i] /\ i \in 1 .. Len(stack)
  <2>1. stack \in Seq(Frames) /\ stack[Len(stack)] \in Frames
    BY FrontOfStack
  <2>2. o \in Obj
    BY <2>1 DEF Frames
  <2>3. stack' \in Seq(Frames) /\ Len(stack') = Len(stack) - 1
    BY <2>1, FrontOfStack
  <2>4. \A i \in 1 .. Len(stack) - 1 : stack'[i] = stack[i]
    BY <2>1, FrontOfStack
  <2> QED
    BY <2>2, <2>3, <2>4
<1>2. \A q \in Obj : Cardinality(Occurs(stack, q)) = Cardinality(Occurs(stack', q)) + (IF o = q THEN 1 ELSE 0)
  BY OccursFront
<1>3. \A q \in Obj : Cardinality(Occurs(stack', q)) \in Nat
  BY <1>1, OccursFinite
<1>4. \A q \in Obj : inCallback'[q] = inCallback[q] - (IF o = q THEN 1 ELSE 0)
  BY <1>1
<1>5. \A q \in Obj : inCallback'[q] = Cardinality(Occurs(stack', q))
  BY <1>2, <1>3, <1>4, CountedOccurs
<1>6. CallbacksCounted'
  BY <1>5 DEF CallbacksCounted, Occurs
<1>7. CallType'
  BY <1>1, <1>3, <1>5
<1>8. CallbackObjLive'
  <2>1. CASE live' = live
    BY <1>1, <2>1 DEF CallbackObjLive
  <2>2. CASE inCallback[o] = 1 /\ live' = live \ {o}
    <3>1. Cardinality(Occurs(stack', o)) = 0
      BY <1>1, <1>4, <1>5, <2>2
    <3>2. \A i \in 1 .. Len(stack') : stack'[i].obj # o
      <4>1. stack' \in Seq(Frames)
        BY <1>1
      <4> HIDE DEF CallPart, CallType
      <4> QED
        BY ONLY <3>1, <4>1, NoneRuns
    <3> QED
      BY <1>1, <2>2, <3>2 DEF CallbackObjLive
  <2> QED
    BY <2>1, <2>2
<1> QED
  BY <1>6, <1>7, <1>8

\* No callback starts or returns; an object no callback of which runs may go.
LEMMA KeepCalls ==
  ASSUME CallPart, stack' = stack, inCallback' = inCallback,
         \/ live \subseteq live'
         \/ \E o \in Obj : inCallback[o] = 0 /\ live' = live \ {o}
  PROVE  CallPart'
<1> USE DEF CallPart, CallType
<1>1. CallType' /\ CallbacksCounted'
  BY DEF CallbacksCounted
<1>2. CASE live \subseteq live'
  BY <1>1, <1>2 DEF CallbackObjLive
<1>3. ASSUME NEW o \in Obj, inCallback[o] = 0, live' = live \ {o}
      PROVE  CallbackObjLive'
  <2>1. Cardinality(Occurs(stack, o)) = 0
    BY <1>3, CountedOccurs
  <2>2. \A i \in 1 .. Len(stack) : stack[i].obj # o
    BY <2>1, NoneRuns
  <2> QED
    BY <1>3, <2>2 DEF CallbackObjLive
<1> QED
  BY <1>1, <1>2, <1>3

-----------------------------------------------------------------------------
(* The steps.                                                               *)

LEMMA Reachable ==
  ASSUME IInv
  PROVE  /\ \A o \in known : o \in live /\ o \in Obj
         /\ \A o \in Obj, w \in Watchers : Dispatches(o, w) => o \in live /\ sock[o] \in Fds
         /\ \A o \in Obj, w \in Watchers : Rest(o, w) \subseteq pending
BY DEF IInv, SockPart, SockType, DescriptorsOwned, Watched, RestType, Dispatches, Rest

\* disconnect() with a callback, for an object's own socket.
LEMMA DisconnectEventKeeps ==
  ASSUME NoSock \notin Fds, IInv,
         NEW o \in live, NEW act \in SUBSET active, NEW pend \in SUBSET pending,
         DisconnectEvent(o, sock[o], act, pend, conn), live' = live,
         mode' \in [Obj -> {"none", "client", "server"}],
         UNCHANGED <<connected, parent, destroyReq, tail, aborted>>
  PROVE  IInv'
<1>1. SockPart'
  BY CloseOwn DEF IInv, DisconnectEvent
<1>2. CallPart'
  BY Invoke DEF IInv, DisconnectEvent, Events, SockPart, SockType
<1>3. due' \subseteq due
  BY DEF DisconnectEvent, SockClose
<1>4. RestType'
  BY <1>3 DEF IInv, RestType, DisconnectEvent, InvokeCallback
<1> QED
  BY <1>1, <1>2, <1>4 DEF IInv

\* sock_close() and free().
LEMMA FreeKeeps ==
  ASSUME NoSock \notin Fds, IInv, NEW o \in live, DestroyNow(o)
  PROVE  /\ SockPart'
         /\ live' = live \ {o} /\ known' \subseteq live'
         /\ mode' \in [Obj -> {"none", "client", "server"}]
         /\ connected' \in [Obj -> BOOLEAN]
         /\ parent' \in [Obj -> Obj \cup {NoObj}]
         /\ destroyReq' \in [Obj -> BOOLEAN]
         /\ due' \subseteq Obj
<1>1. SockPart'
  BY CloseOwn DEF IInv, DestroyNow, Free
<1>2. due' \subseteq due
  BY DEF DestroyNow, SockClose
<1> QED
  BY <1>1, <1>2 DEF IInv, RestType, DestroyNow, Free

\* A handler that reports an event without closing anything.
LEMMA ReportKeeps ==
  ASSUME IInv, NEW o \in live, NEW event \in Events, InvokeCallback(o, event),
         active' \subseteq active, pending' \subseteq pending, due' \subseteq due,
         connected' \in [Obj -> BOOLEAN],
         conn' \in [Fds -> ConnType],
         \A fd \in Fds : conn'[fd].state = conn[fd].state,
         UNCHANGED <<live, sock, mode, parent, destroyReq, tail, aborted>>
  PROVE  IInv'
<1>1. SockPart'
  BY KeepSocks DEF IInv, SockPart, SockType
<1>2. CallPart'
  BY Invoke DEF IInv, SockPart, SockType
<1>3. RestType'
  BY DEF IInv, RestType, InvokeCallback
<1> QED
  BY <1>1, <1>2, <1>3 DEF IInv

\* The handlers the loop calls.
LEMMA DispatchKeeps ==
  ASSUME NoSock \notin Fds, IInv, Dispatch
  PROVE  IInv'
<1> USE DEF Watchers
<1>1. ASSUME NEW o \in Obj, Accept(o)
      PROVE  IInv'
  <2>1. o \in live /\ sock[o] \in Fds /\ Rest(o, "in") \subseteq pending
    BY <1>1, Reachable DEF Accept
  <2>2. CallPart'
    BY <1>1, KeepCalls DEF Accept, callVars, IInv
  <2>3. CASE \E q \in Obj \ live, fd \in FreeFds :
               /\ conn[sock[o]].queue > 0
               /\ live' = live \cup {q}
               /\ mode' = [mode EXCEPT ![q] = "client"]
               /\ sock' = [sock EXCEPT ![q] = fd]
               /\ parent' = [parent EXCEPT ![q] = o]
               /\ active' = active \cup {<<q, "in">>, <<q, "out">>}
               /\ conn' = [conn EXCEPT ![fd] = Fresh("up"), ![sock[o]].queue = @ - 1]
    <3>1. PICK q \in Obj \ live, fd \in FreeFds :
               /\ conn[sock[o]].queue > 0
               /\ live' = live \cup {q}
               /\ mode' = [mode EXCEPT ![q] = "client"]
               /\ sock' = [sock EXCEPT ![q] = fd]
               /\ parent' = [parent EXCEPT ![q] = o]
               /\ active' = active \cup {<<q, "in">>, <<q, "out">>}
               /\ conn' = [conn EXCEPT ![fd] = Fresh("up"), ![sock[o]].queue = @ - 1]
      BY <2>3
    <3>2. conn \in [Fds -> ConnType] /\ conn[sock[o]].state # "free" /\ sock[q] \notin Fds
      BY <2>1 DEF IInv, SockPart, SockType, DescriptorsOwned
    <3>3. fd \in Fds /\ fd # sock[o]
      BY <3>2 DEF FreeFds
    <3>4. conn[sock[o]].queue - 1 \in 0 .. MaxQueue /\ Fresh("up") \in ConnType
      BY <2>1, <3>1, <3>2 DEF ConnType, Fresh, ConnState
    <3>5. /\ conn' \in [Fds -> ConnType] /\ conn'[fd].state # "free"
          /\ \A x \in Fds \ {fd} : conn'[x].state = conn[x].state
      BY <2>1, <3>1, <3>2, <3>3, <3>4 DEF ConnType, Fresh
    <3>6. active' \subseteq active \cup WatchersOf(q) /\ pending' \subseteq pending
      BY <1>1, <2>1, <3>1 DEF WatchersOf, Accept
    <3>7. SockPart'
      BY <3>1, <3>2, <3>5, <3>6, OpenSock DEF IInv
    <3>8. RestType'
      BY <1>1, <3>1 DEF IInv, RestType, Accept, callVars
    <3> QED
      BY <2>2, <3>7, <3>8 DEF IInv
  <2>4. CASE UNCHANGED <<live, mode, sock, parent, active, conn>>
    <3>1. SockPart'
      BY <1>1, <2>1, <2>4, KeepSocks DEF IInv, SockPart, SockType, Accept
    <3>2. RestType'
      BY <1>1, <2>4 DEF IInv, RestType, Accept, callVars
    <3> QED
      BY <2>2, <3>1, <3>2 DEF IInv
  <2> QED
    BY <1>1, <2>3, <2>4 DEF Accept
<1>2. ASSUME NEW o \in Obj, InBeforeConnect(o)
      PROVE  IInv'
  <2>1. Rest(o, "in") \subseteq pending
    BY Reachable
  <2>2. SockPart'
    BY <1>2, <2>1, KeepSocks DEF IInv, SockPart, SockType, InBeforeConnect, objVars
  <2>3. CallPart'
    BY <1>2, KeepCalls DEF IInv, InBeforeConnect, callVars, objVars
  <2>4. RestType'
    BY <1>2 DEF IInv, RestType, InBeforeConnect, callVars, objVars
  <2> QED
    BY <2>2, <2>3, <2>4 DEF IInv
<1>3. ASSUME NEW o \in Obj, ReadData(o)
      PROVE  IInv'
  <2>1. o \in live /\ sock[o] \in Fds /\ Rest(o, "in") \subseteq pending
    BY <1>3, Reachable DEF ReadData
  <2>2. conn' \in [Fds -> ConnType] /\ \A fd \in Fds : conn'[fd].state = conn[fd].state
    BY <1>3, <2>1 DEF ReadData, IInv, SockPart, SockType, ConnType
  <2> QED
    BY <1>3, <2>1, <2>2, ReportKeeps DEF ReadData, Events, IInv, RestType
<1>4. ASSUME NEW o \in Obj, ReadEnd(o)
      PROVE  IInv'
  <2>1. o \in live /\ Rest(o, "in") \subseteq pending
    BY <1>4, Reachable DEF ReadEnd
  <2> QED
    BY <1>4, <2>1, DisconnectEventKeeps DEF ReadEnd, IInv, RestType
<1>5. ASSUME NEW o \in Obj, ConnectError(o)
      PROVE  IInv'
  <2>1. o \in live /\ Rest(o, "out") \subseteq pending
    BY <1>5, Reachable DEF ConnectError
  <2>2. active \ {<<o, "out">>} \subseteq active
    OBVIOUS
  <2> QED
    BY <1>5, <2>1, <2>2, DisconnectEventKeeps DEF ConnectError, IInv, RestType
<1>6. ASSUME NEW o \in Obj, ConnectDone(o)
      PROVE  IInv'
  <2>1. o \in live /\ Rest(o, "out") \subseteq pending
    BY <1>6, Reachable DEF ConnectDone
  <2> QED
    BY <1>6, <2>1, ReportKeeps DEF ConnectDone, Events, IInv, SockPart, SockType, RestType
<1>7. ASSUME NEW o \in Obj, ConnectTimeout(o)
      PROVE  IInv'
  <2>1. o \in live /\ Rest(o, "timer") \subseteq pending
    BY <1>7, Reachable DEF ConnectTimeout
  <2> QED
    BY <1>7, <2>1, DisconnectEventKeeps DEF ConnectTimeout, IInv, RestType
<1> QED
  BY <1>1, <1>2, <1>3, <1>4, <1>5, <1>6, <1>7 DEF Dispatch

\* The callback returns, and a destroy that was put off is done.
LEMMA ReturnKeeps ==
  ASSUME NoSock \notin Fds, IInv, CallbackReturn
  PROVE  IInv'
<1> DEFINE o == stack[Len(stack)].obj
<1>1. stack \in Seq(Frames) /\ stack # << >> /\ Len(stack) \in Nat \ {0}
  BY DEF IInv, CallPart, CallType, CallbackReturn
<1>2. o \in live /\ o \in Obj
  BY <1>1 DEF IInv, CallPart, CallbackObjLive, SockPart, SockType
<1>3. tail' \in Obj \cup {NoObj} /\ aborted' = aborted
  BY <1>2 DEF CallbackReturn
<1>4. /\ stack' = SubSeq(stack, 1, Len(stack) - 1)
      /\ inCallback' = [inCallback EXCEPT ![o] = @ - 1]
  BY DEF CallbackReturn
<1>5. CASE destroyReq[o] /\ inCallback[o] = 1
  <2>1. DestroyNow(o)
    BY <1>5 DEF CallbackReturn
  <2>2. CallPart'
    BY <1>1, <1>4, <1>5, <2>1, ReturnCalls DEF IInv, DestroyNow, Free
  <2> QED
    BY <1>2, <1>3, <2>1, <2>2, FreeKeeps DEF IInv, RestType
<1>6. CASE ~(destroyReq[o] /\ inCallback[o] = 1)
  <2>1. UNCHANGED <<objVars, sock, loopVars, conn>>
    BY <1>6 DEF CallbackReturn
  <2>2. CallPart'
    BY <1>1, <1>4, <2>1, ReturnCalls DEF IInv, objVars
  <2>3. SockPart'
    BY <2>1, KeepSocks DEF IInv, SockPart, SockType, objVars, loopVars
  <2>4. RestType'
    BY <1>3, <2>1 DEF IInv, RestType, objVars, loopVars
  <2> QED
    BY <2>2, <2>3, <2>4 DEF IInv
<1> QED
  BY <1>5, <1>6

\* netsocket_connect() and netsocket_listen().
LEMMA OpenKeeps ==
  ASSUME NoSock \notin Fds, IInv, NEW o \in Obj, Open(o)
  PROVE  IInv'
<1>1. o \in live /\ sock[o] = NoSock
  BY Reachable DEF Open, MayOpen, ConnectInvalid, ConnectNoFd, ListenInvalid, ListenNoFd,
     ConnectStarts, ConnectFails, ListenFails, ListenStarts
<1>2. CASE ConnectInvalid(o) \/ ListenInvalid(o)
  <2>1. mode' \in [Obj -> {"none", "client", "server"}]
    BY <1>2 DEF ConnectInvalid, ListenInvalid, IInv, RestType
  <2> QED
    BY <1>1, <1>2, <2>1, DisconnectEventKeeps DEF ConnectInvalid, ListenInvalid
<1>3. CASE ConnectNoFd(o) \/ ListenNoFd(o)
  <2>1. BadFd \notin Fds
    BY DEF BadFd
  <2>2. /\ sock' = [sock EXCEPT ![o] = BadFd]
        /\ UNCHANGED <<live, active, pending, conn>>
    BY <1>3 DEF ConnectNoFd, ListenNoFd, loopVars
  <2>3. Watched'
    BY <1>1, <2>1, <2>2 DEF IInv, SockPart, SockType, Watched
  <2>4. DescriptorsOwned'
    BY <1>1, <2>1, <2>2 DEF IInv, SockPart, SockType, DescriptorsOwned
  <2>5. SockPart'
    BY <2>2, <2>3, <2>4 DEF IInv, SockPart, SockType
  <2>6. CallPart'
    BY <1>3, KeepCalls DEF IInv, ConnectNoFd, ListenNoFd, callVars
  <2>7. RestType'
    BY <1>3 DEF IInv, RestType, ConnectNoFd, ListenNoFd, callVars, loopVars
  <2> QED
    BY <2>5, <2>6, <2>7 DEF IInv
<1>4. ASSUME NEW fd \in FreeFds, ConnectStarts(o, fd) \/ ListenStarts(o, fd)
      PROVE  IInv'
  <2>1. Fresh("connecting") \in ConnType /\ Fresh("listening") \in ConnType /\ fd \in Fds
    BY DEF Fresh, ConnType, ConnState, FreeFds
  <2>2. /\ conn' \in [Fds -> ConnType] /\ conn'[fd].state # "free"
        /\ \A x \in Fds \ {fd} : conn'[x].state = conn[x].state
    BY <1>4, <2>1 DEF ConnectStarts, ListenStarts, IInv, SockPart, SockType, Fresh
  <2>3. active' \subseteq active \cup WatchersOf(o)
    BY <1>4 DEF ConnectStarts, ListenStarts, WatchersOf, Watchers
  <2>4. SockPart'
    BY <1>1, <1>4, <2>2, <2>3, OpenSock DEF ConnectStarts, ListenStarts, IInv
  <2>5. CallPart'
    BY <1>4, KeepCalls DEF IInv, ConnectStarts, ListenStarts, callVars
  <2>6. RestType'
    BY <1>4 DEF IInv, RestType, ConnectStarts, ListenStarts, callVars
  <2> QED
    BY <2>4, <2>5, <2>6 DEF IInv
<1>5. ASSUME NEW fd \in FreeFds, ConnectFails(o, fd)
      PROVE  IInv'
  <2>1. SockPart'
    BY <1>1, <1>5, CloseNew DEF IInv, ConnectFails
  <2>2. CallPart'
    BY <1>5, KeepCalls DEF IInv, ConnectFails, callVars
  <2>3. due' \subseteq due
    BY <1>5 DEF ConnectFails, SockClose
  <2>4. RestType'
    BY <1>5, <2>3 DEF IInv, RestType, ConnectFails, callVars
  <2> QED
    BY <2>1, <2>2, <2>4 DEF IInv
<1>6. ASSUME NEW fd \in FreeFds, ListenFails(o, fd)
      PROVE  IInv'
  <2>1. active \subseteq active \cup WatchersOf(o)
    OBVIOUS
  <2>2. SockPart'
    BY <1>1, <1>6, <2>1, CloseNew DEF IInv, ListenFails, DisconnectEvent
  <2>3. CallPart'
    BY <1>1, <1>6, Invoke DEF IInv, ListenFails, DisconnectEvent, Events
  <2>4. due' \subseteq due
    BY <1>6 DEF ListenFails, DisconnectEvent, SockClose
  <2>5. RestType'
    BY <1>1, <1>6, <2>4 DEF IInv, RestType, ListenFails, DisconnectEvent, InvokeCallback
  <2> QED
    BY <2>2, <2>3, <2>5 DEF IInv
<1> QED
  BY <1>2, <1>3, <1>4, <1>5, <1>6 DEF Open

\* The other calls of the user.
LEMMA UserKeeps ==
  ASSUME NoSock \notin Fds, IInv, User
  PROVE  IInv'
<1>1. ASSUME NEW o \in Obj, New(o)
      PROVE  IInv'
  <2>1. SockPart'
    BY <1>1, KeepSocks DEF IInv, SockPart, SockType, New, loopVars
  <2>2. CallPart'
    BY <1>1, KeepCalls DEF IInv, New, callVars
  <2>3. RestType'
    BY <1>1 DEF IInv, RestType, New, callVars, loopVars
  <2> QED
    BY <2>1, <2>2, <2>3 DEF IInv
<1>2. ASSUME NEW o \in Obj, Disconnect(o)
      PROVE  IInv'
  <2>1. o \in live
    BY <1>2, Reachable DEF Disconnect
  <2>2. SockPart'
    BY <1>2, <2>1, CloseOwn DEF IInv, Disconnect
  <2>3. CallPart'
    BY <1>2, KeepCalls DEF IInv, Disconnect, callVars
  <2>4. due' \subseteq due
    BY <1>2 DEF Disconnect, SockClose
  <2>5. RestType'
    BY <1>2, <2>4 DEF IInv, RestType, Disconnect, callVars
  <2> QED
    BY <2>2, <2>3, <2>5 DEF IInv
<1>3. ASSUME NEW o \in Obj, DisconnectWithEvent(o)
      PROVE  IInv'
  <2>1. o \in live
    BY <1>3, Reachable DEF DisconnectWithEvent
  <2> QED
    BY <1>3, <2>1, DisconnectEventKeeps DEF DisconnectWithEvent, IInv, RestType
<1>4. ASSUME NEW o \in Obj, Destroy(o)
      PROVE  IInv'
  <2>1. o \in live
    BY <1>4, Reachable DEF Destroy
  <2>2. UNCHANGED <<stack, inCallback, tail, aborted>> /\ inCallback[o] \in Nat
    BY <1>4 DEF Destroy, callVars, IInv, CallPart, CallType
  <2>3. CASE inCallback[o] > 0
    <3>1. /\ destroyReq' = [destroyReq EXCEPT ![o] = TRUE]
          /\ UNCHANGED <<live, known, mode, connected, parent, sock, active, pending, due, conn>>
      BY <1>4, <2>3 DEF Destroy, loopVars
    <3>2. SockPart'
      BY <3>1, KeepSocks DEF IInv, SockPart, SockType
    <3>3. CallPart'
      BY <2>2, <3>1, KeepCalls DEF IInv
    <3>4. RestType'
      BY <2>2, <3>1 DEF IInv, RestType
    <3> QED
      BY <3>2, <3>3, <3>4 DEF IInv
  <2>4. CASE ~(inCallback[o] > 0)
    <3>1. DestroyNow(o) /\ inCallback[o] = 0
      BY <1>4, <2>2, <2>4 DEF Destroy
    <3>2. CallPart'
      BY <2>1, <2>2, <3>1, KeepCalls DEF IInv, DestroyNow, Free
    <3> QED
      BY <2>1, <2>2, <3>1, <3>2, FreeKeeps DEF IInv, RestType
  <2> QED
    BY <2>3, <2>4
<1> QED
  BY <1>1, <1>2, <1>3, <1>4, OpenKeeps DEF User

\* A step of the kernel or of a peer changes nothing of the library's and
\* neither opens nor closes a descriptor.
LEMMA PeerKeeps ==
  ASSUME IInv, Peer
  PROVE  IInv'
<1>1. UNCHANGED <<objVars, callVars, loopVars, sock, aborted>>
  BY DEF Peer, PeerAnswers, PeerSends, PeerEnds, BacklogChanges
<1> DEFINE Alike == /\ conn' \in [Fds -> ConnType]
                    /\ \A fd \in Fds : conn'[fd].state = "free" <=> conn[fd].state = "free"
<1>2. Alike
  <2>0. conn \in [Fds -> ConnType]
    BY DEF IInv, SockPart, SockType
  <2> USE DEF ConnType, ConnState
  <2>1. ASSUME NEW fd \in Fds, NEW s \in {"up", "refused"}, PeerAnswers(fd, s)
        PROVE  Alike
    BY <2>0, <2>1 DEF PeerAnswers
  <2>2. ASSUME NEW fd \in Fds, NEW how \in {"eof", "reset"}, PeerEnds(fd, how)
        PROVE  Alike
    BY <2>0, <2>2 DEF PeerEnds
  <2>3. ASSUME NEW fd \in Fds, PeerSends(fd)
        PROVE  Alike
    <3>1. conn[fd].queue + 1 \in 0 .. MaxQueue
      BY <2>0, <2>3 DEF PeerSends
    <3> QED
      BY <2>0, <2>3, <3>1 DEF PeerSends
  <2>4. ASSUME NEW fd \in Fds, BacklogChanges(fd)
        PROVE  Alike
    BY <2>0, <2>4 DEF BacklogChanges
  <2> QED
    BY <2>1, <2>2, <2>3, <2>4 DEF Peer
<1>3. SockPart'
  BY <1>1, <1>2, KeepSocks DEF IInv, SockPart, SockType, objVars, loopVars
<1>4. CallPart'
  BY <1>1, KeepCalls DEF IInv, objVars, callVars
<1>5. RestType'
  BY <1>1 DEF IInv, RestType, objVars, callVars, loopVars
<1> QED
  BY <1>3, <1>4, <1>5 DEF IInv

\* The loop looks for events, time passes, or disconnect() makes its last
\* assignment.
LEMMA QuietKeeps ==
  ASSUME IInv, \/ Poll \/ DisconnectTail \/ UNCHANGED vars
               \/ \E o \in Obj : TimerDue(o)
  PROVE  IInv'
<1>1. /\ UNCHANGED <<live, known, mode, parent, destroyReq, sock, conn, stack, inCallback, aborted>>
      /\ active' \subseteq active /\ pending' \subseteq active \cup pending
  BY DEF Poll, DisconnectTail, TimerDue, vars, objVars, callVars, loopVars, ReadyIO, Expired
<1>2. connected' \in [Obj -> BOOLEAN] /\ due' \subseteq Obj /\ tail' \in Obj \cup {NoObj}
  BY DEF IInv, RestType, Poll, DisconnectTail, TimerDue, vars, objVars, callVars, loopVars
<1>3. SockPart'
  BY <1>1, KeepSocks DEF IInv, SockPart, SockType
<1>4. CallPart'
  BY <1>1, KeepCalls DEF IInv
<1>5. RestType'
  BY <1>1, <1>2 DEF IInv, RestType
<1> QED
  BY <1>3, <1>4, <1>5 DEF IInv

LEMMA IInvInit == ASSUME NoSock \notin Fds, Init PROVE IInv
<1>1. Fresh("free") \in ConnType
  BY DEF Fresh, ConnType, ConnState
<1>2. SockPart
  <2>1. SockType
    BY <1>1 DEF Init, SockType
  <2>2. DescriptorsOwned /\ Watched
    BY DEF Init, DescriptorsOwned, Watched, Fresh
  <2> QED
    BY <2>1, <2>2 DEF SockPart
<1>3. CallPart
  <2>1. stack = << >> /\ stack \in Seq(Frames) /\ Len(stack) = 0
    BY DEF Init
  <2>2. \A o : Occurs(stack, o) = {}
    BY <2>1 DEF Occurs
  <2>3. CallbacksCounted
    BY <2>2, FS_EmptySet, CountedOccurs DEF Init
  <2> QED
    BY <2>1, <2>3 DEF Init, CallPart, CallType, CallbackObjLive
<1>4. RestType
  BY DEF Init, RestType
<1> QED
  BY <1>2, <1>3, <1>4 DEF IInv

LEMMA Invariance == ASSUME NoSock \notin Fds PROVE Spec => []IInv
<1>1. IInv /\ [Next]_vars => IInv'
  BY DispatchKeeps, ReturnKeeps, UserKeeps, PeerKeeps, QuietKeeps DEF Next
<1> QED
  BY <1>1, IInvInit, PTL DEF Spec

\* The variables keep their types: in_callback never goes below 0, and a socket
\* number is a descriptor, none or the result of a failed socket().
THEOREM TypeCorrect == ASSUME NoSock \notin Fds PROVE Spec => []TypeOK
<1>1. IInv => TypeOK
  BY TypeParts DEF IInv, SockPart, CallPart
<1> QED
  BY <1>1, Invariance, PTL

\* However callbacks and calls are nested, in_callback counts the callbacks of
\* the object that run (invoke_callback()).
THEOREM CallbacksAreCounted == ASSUME NoSock \notin Fds PROVE Spec => []CallbacksCounted
<1>1. IInv => CallbacksCounted
  BY DEF IInv, CallPart
<1> QED
  BY <1>1, Invariance, PTL

\* No object is freed under one of its callbacks (netsocket_destroy() and the
\* deferred destroy of invoke_callback()).
THEOREM CallbackObjIsLive == ASSUME NoSock \notin Fds PROVE Spec => []CallbackObjLive
<1>1. IInv => CallbackObjLive
  BY DEF IInv, CallPart
<1> QED
  BY <1>1, Invariance, PTL

\* The loop holds no watcher of a freed object or of a closed descriptor.
THEOREM NoStaleWatcher == ASSUME NoSock \notin Fds PROVE Spec => []WatchersSafe
<1>1. IInv => WatchersSafe
  BY WatchersAreSafe DEF IInv
<1> QED
  BY <1>1, Invariance, PTL

\* No descriptor is leaked, closed twice or shared by two objects.
THEOREM NoDescriptorLost == ASSUME NoSock \notin Fds PROVE Spec => []DescriptorsOwned
<1>1. IInv => DescriptorsOwned
  BY DEF IInv, SockPart
<1> QED
  BY <1>1, Invariance, PTL

-----------------------------------------------------------------------------
(* The flags of an object agree with its socket and watchers.               *)

\* The end of a connection of o is being reported.
Reports(o) ==
  tail = o \/ \E i \in 1 .. Len(stack) : stack[i] = [obj |-> o, event |-> "DISCONNECT"]

\* What a socket is, by the mode of its object.
KindRight(o) ==
  sock[o] \in Fds =>
    \/ mode[o] = "server" /\ conn[sock[o]].state = "listening"
    \/ mode[o] = "client" /\ conn[sock[o]].state \in {"connecting", "refused", "up"}

\* obj->connected and the connection.
ConnectedRight(o) ==
  /\ Up(o) => connected[o] /\ conn[sock[o]].state = "up"
  /\ connected[o] /\ ~Up(o) => Reports(o)
  /\ Reports(o) => ~Up(o)

\* Timers, and the events the loop has noted: they are not out of date.
WatchersRight(o) ==
  /\ <<o, "timer">> \in active \cup pending => Opening(o)
  /\ <<o, "out">> \in pending => <<o, "out">> \in active
  /\ <<o, "in">> \in pending /\ mode[o] = "client" => Readable(sock[o])
  /\ <<o, "in">> \in pending /\ connected[o] => Up(o)

Flags(o) == KindRight(o) /\ ConnectedRight(o) /\ WatchersRight(o)
FlagInv == IInv /\ \A o \in Obj : Flags(o)

LEMMA FlagsSuffice == FlagInv => ReadNeverBlocks /\ TimeoutOnlyOpening /\ ConnectedAgrees
<1> SUFFICES ASSUME FlagInv PROVE ReadNeverBlocks /\ TimeoutOnlyOpening /\ ConnectedAgrees
  OBVIOUS
<1>1. ReadNeverBlocks
  <2> SUFFICES ASSUME NEW o \in Obj, <<o, "in">> \in pending, mode[o] = "client", connected[o]
               PROVE  conn[sock[o]].queue > 0 \/ conn[sock[o]].fin # "no"
    BY DEF ReadNeverBlocks
  <2> QED
    BY DEF FlagInv, Flags, ConnectedRight, WatchersRight, Readable
<1>2. TimeoutOnlyOpening
  BY DEF FlagInv, Flags, WatchersRight, TimeoutOnlyOpening
<1>3. ConnectedAgrees
  BY DEF FlagInv, Flags, ConnectedRight, ConnectedAgrees, Reports
<1> QED
  BY <1>1, <1>2, <1>3

-----------------------------------------------------------------------------
(* What a step does to one object.                                          *)

\* An object without a socket has no watcher.
LEMMA NoSockNoWatcher ==
  ASSUME IInv, NEW o \in Obj, sock[o] \notin Fds
  PROVE  \A w \in Watchers : <<o, w>> \notin active \cup pending
BY DEF IInv, SockPart, Watched

\* The step leaves an object and its socket alone, but for what a peer did; events of
\* it may have been dropped.
SameObject(o) ==
  /\ sock'[o] = sock[o] /\ mode'[o] = mode[o] /\ connected'[o] = connected[o]
  /\ <<o, "out">> \in active' <=> <<o, "out">> \in active
  /\ <<o, "timer">> \in active' \cup pending' => <<o, "timer">> \in active \cup pending
  /\ \A w \in {"in", "out"} : <<o, w>> \in pending' => <<o, w>> \in pending
  /\ sock[o] \in Fds =>
       \/ conn'[sock[o]].state = conn[sock[o]].state
       \/ conn[sock[o]].state = "connecting" /\ conn'[sock[o]].state \in {"up", "refused"}
  /\ <<o, "in">> \in pending' /\ mode[o] = "client" /\ Readable(sock[o]) => Readable(sock[o])'
  /\ Reports(o)' <=> Reports(o)

LEMMA SameFlags ==
  ASSUME NEW o \in Obj, Flags(o), SameObject(o)
  PROVE  Flags(o)'
<1> USE DEF SameObject
<1>1. (Up(o)' <=> Up(o)) /\ (Opening(o)' <=> Opening(o))
  BY DEF Up, Opening
<1>2. KindRight(o)'
  BY DEF Flags, KindRight
<1>3. ConnectedRight(o)'
  BY <1>1 DEF Flags, ConnectedRight, Up
<1>4. WatchersRight(o)'
  <2>1. <<o, "in">> \in pending' /\ mode'[o] = "client" => Readable(sock[o])'
    BY DEF Flags, WatchersRight
  <2> QED
    BY <1>1, <2>1 DEF Flags, WatchersRight
<1> QED
  BY <1>2, <1>3, <1>4 DEF Flags

\* The step leaves an object without a socket, and reports the end of what was there.
LEMMA ClosedFlags ==
  ASSUME NEW o \in Obj, sock'[o] \notin Fds,
         \A w \in Watchers : <<o, w>> \notin active' \cup pending',
         connected'[o] => Reports(o)'
  PROVE  Flags(o)'
BY DEF Watchers, Flags, KindRight, ConnectedRight, WatchersRight, Up, Opening

\* sock_close() of the object's own socket, of one just made for it, or of none.
LEMMA CloseEffect ==
  ASSUME NoSock \notin Fds, IInv, NEW o \in Obj,
         NEW act \in SUBSET (active \cup WatchersOf(o)), NEW pend \in SUBSET pending,
         NEW s, s = sock[o] \/ (sock[o] = NoSock /\ s \in FreeFds),
         NEW c, c = conn \/ (s \in FreeFds /\ c = [conn EXCEPT ![s] = Fresh("unused")]),
         s = NoSock => act = active,
         SockClose(o, s, act, pend, c)
  PROVE  /\ sock'[o] \notin Fds
         /\ \A w \in Watchers : <<o, w>> \notin active' \cup pending'
         /\ \A q \in Obj \ {o} :
              /\ sock'[q] = sock[q]
              /\ \A w \in Watchers : (<<q, w>> \in active' <=> <<q, w>> \in act)
                                     /\ (<<q, w>> \in pending' <=> <<q, w>> \in pend)
              /\ sock[q] \in Fds => conn'[sock[q]] = conn[sock[q]]
<1>0. sock \in [Obj -> Fds \cup {NoSock, BadFd}] /\ conn \in [Fds -> ConnType]
  BY DEF IInv, SockPart, SockType
<1>1. CASE s = NoSock
  <2>1. sock[o] = NoSock /\ c = conn /\ act = active
    BY <1>1 DEF FreeFds
  <2>2. active' = active /\ pending' = pend /\ conn' = conn /\ sock' = [sock EXCEPT ![o] = s]
    BY <1>1, <2>1 DEF SockClose
  <2> QED
    BY <1>0, <1>1, <2>1, <2>2, NoSockNoWatcher
<1>2. CASE s # NoSock
  <2>1. /\ active' = act \ WatchersOf(o) /\ pending' = pend \ WatchersOf(o)
        /\ conn' = Closed(c, s) /\ sock' = [sock EXCEPT ![o] = NoSock]
    BY <1>2 DEF SockClose
  <2>2. ASSUME NEW q \in Obj \ {o}, sock[q] \in Fds
        PROVE  conn'[sock[q]] = conn[sock[q]]
    <3>0. conn[sock[q]].state # "free" /\ (sock[o] = sock[q] => o = q)
      BY <2>2 DEF IInv, SockPart, DescriptorsOwned
    <3>1. sock[q] # s
      BY <3>0 DEF FreeFds
    <3> QED
      BY <1>0, <2>1, <2>2, <3>1 DEF Closed
  <2> QED
    BY <1>0, <2>1, <2>2 DEF WatchersOf
<1> QED
  BY <1>1, <1>2

\* A step that closes the socket of o and leaves the other objects alone.
LEMMA CloseFlags ==
  ASSUME NoSock \notin Fds, FlagInv, NEW o \in Obj,
         NEW act \in SUBSET (active \cup WatchersOf(o)), NEW pend \in SUBSET pending,
         \A q \in Obj \ {o} : <<q, "out">> \in active => <<q, "out">> \in act,
         NEW s, s = sock[o] \/ (sock[o] = NoSock /\ s \in FreeFds),
         NEW c, c = conn \/ (s \in FreeFds /\ c = [conn EXCEPT ![s] = Fresh("unused")]),
         s = NoSock => act = active,
         SockClose(o, s, act, pend, c),
         connected'[o] => Reports(o)',
         \A q \in Obj \ {o} : /\ mode'[q] = mode[q] /\ connected'[q] = connected[q]
                              /\ Reports(q)' <=> Reports(q)
  PROVE  \A q \in Obj : Flags(q)'
<1>1. /\ sock'[o] \notin Fds
      /\ \A w \in Watchers : <<o, w>> \notin active' \cup pending'
      /\ \A q \in Obj \ {o} :
           /\ sock'[q] = sock[q]
           /\ \A w \in Watchers : (<<q, w>> \in active' <=> <<q, w>> \in act)
                                  /\ (<<q, w>> \in pending' <=> <<q, w>> \in pend)
           /\ sock[q] \in Fds => conn'[sock[q]] = conn[sock[q]]
  BY CloseEffect DEF FlagInv
<1>2. Flags(o)'
  BY <1>1, ClosedFlags
<1>3. ASSUME NEW q \in Obj \ {o}
      PROVE  Flags(q)'
  <2>1. <<q, "in">> \in pending => sock[q] \in Fds
    BY NoSockNoWatcher DEF FlagInv, Watchers
  <2>2. \A w \in Watchers : <<q, w>> \in act => <<q, w>> \in active
    BY DEF WatchersOf
  <2>3. SameObject(q)
    BY <1>1, <2>1, <2>2 DEF SameObject, Watchers, Readable
  <2> QED
    BY <2>3, SameFlags DEF FlagInv
<1> QED
  BY <1>2, <1>3

-----------------------------------------------------------------------------
(* What is reported.                                                        *)

LEMMA ReportsPush ==
  ASSUME IInv, NEW o \in Obj, NEW event \in Events, tail' = tail,
         InvokeCallback(o, event), NEW q \in Obj
  PROVE  Reports(q)' <=> Reports(q) \/ (q = o /\ event = "DISCONNECT")
<1>1. stack \in Seq(Frames) /\ stack' = Append(stack, [obj |-> o, event |-> event])
  BY DEF IInv, CallPart, CallType, InvokeCallback
<1>2. /\ Len(stack') = Len(stack) + 1 /\ Len(stack) \in Nat
      /\ stack'[Len(stack) + 1] = [obj |-> o, event |-> event]
      /\ \A i \in 1 .. Len(stack) : stack'[i] = stack[i]
  BY <1>1
<1>3. (\E i \in 1 .. Len(stack') : stack'[i] = [obj |-> q, event |-> "DISCONNECT"])
        <=> \/ \E i \in 1 .. Len(stack) : stack[i] = [obj |-> q, event |-> "DISCONNECT"]
            \/ [obj |-> o, event |-> event] = [obj |-> q, event |-> "DISCONNECT"]
  BY <1>2
<1> QED
  BY <1>3 DEF Reports

\* After the callback its DISCONNECT is reported by the assignment still to come.
LEMMA ReportsPop ==
  ASSUME IInv, CallbackReturn, NEW q \in Obj
  PROVE  Reports(q)' <=> Reports(q)
<1> DEFINE n == Len(stack)
<1>1. stack \in Seq(Frames) /\ stack # << >> /\ n \in Nat \ {0} /\ stack' = SubSeq(stack, 1, n - 1)
  BY DEF IInv, CallPart, CallType, CallbackReturn
<1>2. Len(stack') = n - 1 /\ \A i \in 1 .. n - 1 : stack'[i] = stack[i]
  BY <1>1, FrontOfStack
<1>3. stack[n] \in Frames
  BY <1>1, FrontOfStack
<1>4. tail = NoObj /\ tail' = IF stack[n].event = "DISCONNECT" THEN stack[n].obj ELSE NoObj
  BY DEF CallbackReturn, UserRuns
<1>5. stack[n] = [obj |-> q, event |-> "DISCONNECT"] <=> tail' = q
  BY <1>3, <1>4 DEF Frames
<1>6. \A i \in 1 .. n : i \in 1 .. n - 1 \/ i = n
  BY <1>1
<1>7. n \in 1 .. n /\ \A i \in 1 .. n - 1 : i \in 1 .. n
  BY <1>1
<1> HIDE DEF n
<1>8. (\E i \in 1 .. n : stack[i] = [obj |-> q, event |-> "DISCONNECT"])
        <=> tail' = q \/ \E i \in 1 .. n - 1 : stack[i] = [obj |-> q, event |-> "DISCONNECT"]
  BY <1>5, <1>6, <1>7
<1>9. Reports(q) <=> \E i \in 1 .. n : stack[i] = [obj |-> q, event |-> "DISCONNECT"]
  BY <1>4 DEF Reports, n
<1>10. Reports(q)' <=> tail' = q \/ \E i \in 1 .. n - 1 : stack[i] = [obj |-> q, event |-> "DISCONNECT"]
  BY <1>2 DEF Reports
<1> QED
  BY <1>8, <1>9, <1>10

LEMMA LoopReports == ASSUME IInv, LoopRuns, NEW q \in Obj PROVE ~Reports(q)
BY DEF LoopRuns, UserRuns, Reports

-----------------------------------------------------------------------------
(* The steps.                                                               *)

\* disconnect() with a callback.
LEMMA DisconnectEventFlags ==
  ASSUME NoSock \notin Fds, FlagInv, NEW o \in Obj,
         NEW act \in SUBSET (active \cup WatchersOf(o)), NEW pend \in SUBSET pending,
         \A q \in Obj \ {o} : <<q, "out">> \in active => <<q, "out">> \in act,
         NEW s, s = sock[o] \/ (sock[o] = NoSock /\ s \in FreeFds),
         NEW c, c = conn \/ (s \in FreeFds /\ c = [conn EXCEPT ![s] = Fresh("unused")]),
         s = NoSock => act = active,
         DisconnectEvent(o, s, act, pend, c),
         \A q \in Obj \ {o} : mode'[q] = mode[q],
         connected' = connected, tail' = tail
  PROVE  \A q \in Obj : Flags(q)'
<1>1. \A q \in Obj : Reports(q)' <=> Reports(q) \/ q = o
  BY ReportsPush DEF FlagInv, DisconnectEvent, Events
<1> QED
  BY <1>1, CloseFlags DEF DisconnectEvent

\* A handler that reports CONNECT or READ.
LEMMA ReportsNothing ==
  ASSUME IInv, LoopRuns, tail' = tail, NEW o \in Obj, NEW event \in {"CONNECT", "READ"},
         InvokeCallback(o, event), NEW q \in Obj
  PROVE  ~Reports(q) /\ ~Reports(q)'
BY ReportsPush, LoopReports DEF Events

\* The descriptors of two objects differ.
LEMMA OtherSock ==
  ASSUME IInv, NEW o \in Obj, NEW q \in Obj \ {o}, sock[o] \in Fds
  PROVE  sock[q] # sock[o]
BY DEF IInv, SockPart, DescriptorsOwned

LEMMA AcceptFlags ==
  ASSUME NoSock \notin Fds, FlagInv, NEW o \in Obj, Accept(o)
  PROVE  \A q \in Obj : Flags(q)'
<1>1. /\ o \in live /\ sock[o] \in Fds /\ mode[o] = "server" /\ LoopRuns
      /\ pending' = Rest(o, "in") /\ UNCHANGED <<connected, stack, tail>>
  BY Reachable DEF Accept, Dispatches, FlagInv, Watchers, callVars
<1>2. \A q \in Obj : ~Reports(q) /\ ~Reports(q)'
  BY <1>1, LoopReports DEF FlagInv, Reports
<1>3. sock \in [Obj -> Fds \cup {NoSock, BadFd}] /\ conn \in [Fds -> ConnType]
      /\ mode \in [Obj -> {"none", "client", "server"}]
  BY DEF FlagInv, IInv, SockPart, SockType, RestType
<1>4. ASSUME NEW p \in Obj \ live, NEW fd \in FreeFds,
             mode' = [mode EXCEPT ![p] = "client"],
             sock' = [sock EXCEPT ![p] = fd],
             active' = active \cup {<<p, "in">>, <<p, "out">>},
             conn' = [conn EXCEPT ![fd] = Fresh("up"), ![sock[o]].queue = @ - 1]
      PROVE  \A q \in Obj : Flags(q)'
  <2>1. sock[p] \notin Fds /\ fd \in Fds /\ conn[fd].state = "free" /\ conn[sock[o]].state # "free"
    BY <1>1 DEF FlagInv, IInv, SockPart, DescriptorsOwned, FreeFds
  <2>2. \A w \in Watchers : <<p, w>> \notin active \cup pending
    BY <2>1, NoSockNoWatcher DEF FlagInv
  <2>3. ~connected[p]
    BY <1>2, <2>1 DEF FlagInv, Flags, ConnectedRight, Up
  <2>4. /\ conn'[fd].state = "up"
        /\ conn'[sock[o]].state = conn[sock[o]].state
        /\ \A x \in Fds \ {fd, sock[o]} : conn'[x] = conn[x]
    BY <1>1, <1>3, <1>4, <2>1 DEF Fresh, ConnType
  <2>5. /\ sock'[p] = fd /\ mode'[p] = "client" /\ p # o
        /\ \A w \in Watchers : <<p, w>> \notin pending'
        /\ <<p, "out">> \in active' /\ <<p, "timer">> \notin active'
    BY <1>1, <1>3, <1>4, <2>2 DEF Rest, Watchers
  <2>6. Flags(p)'
    BY <1>1, <1>2, <2>1, <2>3, <2>4, <2>5
       DEF Flags, KindRight, ConnectedRight, WatchersRight, Up, Opening, Watchers
  <2>7. ASSUME NEW q \in Obj \ {p}
        PROVE  Flags(q)'
    <3>1. sock[q] \in Fds => sock[q] # fd /\ (q = o \/ sock[q] # sock[o])
      <4>1. sock[q] \in Fds => conn[sock[q]].state # "free"
        BY DEF FlagInv, IInv, SockPart, DescriptorsOwned
      <4>2. q # o => sock[q] # sock[o]
        BY <1>1, OtherSock DEF FlagInv
      <4> QED
        BY <2>1, <4>1, <4>2
    <3>2. sock'[q] = sock[q] /\ mode'[q] = mode[q]
      BY <1>3, <1>4
    <3>3. /\ <<q, "out">> \in active' <=> <<q, "out">> \in active
          /\ <<q, "timer">> \in active' \cup pending' => <<q, "timer">> \in active \cup pending
          /\ \A w \in {"in", "out"} : <<q, w>> \in pending' => <<q, w>> \in pending
      BY <1>1, <1>4 DEF Rest
    <3>4. <<q, "in">> \in pending => sock[q] \in Fds
      BY NoSockNoWatcher DEF FlagInv, Watchers
    <3>5. <<q, "in">> \in pending' /\ mode[q] = "client" /\ Readable(sock[q]) => Readable(sock[q])'
      BY <1>1, <2>4, <3>1, <3>2, <3>3, <3>4 DEF Readable
    <3>6. sock[q] \in Fds => conn'[sock[q]].state = conn[sock[q]].state
      BY <2>4, <3>1
    <3>7. SameObject(q)
      BY <1>1, <1>2, <3>2, <3>3, <3>5, <3>6 DEF SameObject
    <3> QED
      BY <3>7, SameFlags DEF FlagInv
  <2> QED
    BY <2>6, <2>7
<1>5. ASSUME UNCHANGED <<live, mode, sock, parent, active, conn>>, NEW q \in Obj
      PROVE  Flags(q)'
  <2>1. SameObject(q)
    BY <1>1, <1>2, <1>5 DEF SameObject, Rest, Readable
  <2> QED
    BY <2>1, SameFlags DEF FlagInv
<1> QED
  BY <1>4, <1>5 DEF Accept

\* w_in_cb() of a client, and w_out_cb().
LEMMA ClientFlags ==
  ASSUME NoSock \notin Fds, FlagInv, NEW o \in Obj,
         InBeforeConnect(o) \/ ReadData(o) \/ ReadEnd(o) \/ ConnectError(o) \/ ConnectTimeout(o)
  PROVE  \A q \in Obj : Flags(q)'
<1>0. o \in live /\ sock[o] \in Fds /\ LoopRuns
  BY Reachable DEF Watchers, FlagInv, Dispatches, InBeforeConnect, ReadData, ReadEnd, ConnectError, ConnectTimeout
<1>1. ASSUME InBeforeConnect(o), NEW q \in Obj
      PROVE  Flags(q)'
  <2>1. Reports(q)' <=> Reports(q)
    BY <1>1 DEF Reports, InBeforeConnect, callVars
  <2>2. SameObject(q)
    BY <1>1, <2>1 DEF SameObject, Rest, Readable, InBeforeConnect, objVars
  <2> QED
    BY <2>2, SameFlags DEF FlagInv
<1>2. ASSUME ReadData(o), NEW q \in Obj
      PROVE  Flags(q)'
  <2>1. ~Reports(q) /\ ~Reports(q)'
    BY <1>0, <1>2, ReportsNothing DEF FlagInv, ReadData
  <2>2. /\ conn \in [Fds -> ConnType] /\ conn' = [conn EXCEPT ![sock[o]].queue = @ - 1]
        /\ pending' = Rest(o, "in")
    BY <1>2 DEF FlagInv, IInv, SockPart, SockType, ReadData
  <2>3. sock[q] \in Fds => conn'[sock[q]].state = conn[sock[q]].state
    BY <1>0, <2>2 DEF ConnType
  <2>4. <<q, "in">> \in pending' => q # o /\ sock[q] \in Fds /\ conn'[sock[q]] = conn[sock[q]]
    <3> SUFFICES ASSUME <<q, "in">> \in pending'
                 PROVE  q # o /\ sock[q] \in Fds /\ conn'[sock[q]] = conn[sock[q]]
      OBVIOUS
    <3>1. q # o /\ <<q, "in">> \in pending
      BY <2>2 DEF Rest
    <3>2. sock[q] \in Fds
      BY <3>1, NoSockNoWatcher DEF FlagInv, Watchers
    <3>3. sock[q] # sock[o]
      BY <1>0, <3>1, OtherSock DEF FlagInv
    <3> QED
      BY <1>0, <2>2, <3>1, <3>2, <3>3
  <2>5. SameObject(q)
    BY <1>2, <2>1, <2>2, <2>3, <2>4 DEF SameObject, Rest, Readable, ReadData
  <2> QED
    BY <2>5, SameFlags DEF FlagInv
<1>3. CASE ReadEnd(o)
  <2>1. Rest(o, "in") \subseteq pending
    BY DEF Rest
  <2> QED
    BY <1>0, <1>3, <2>1, DisconnectEventFlags DEF ReadEnd, FlagInv
<1>4. CASE ConnectError(o)
  <2>1. Rest(o, "out") \subseteq pending /\ active \ {<<o, "out">>} \subseteq active
    BY DEF Rest
  <2> QED
    BY <1>0, <1>4, <2>1, DisconnectEventFlags DEF ConnectError, FlagInv
<1>5. CASE ConnectTimeout(o)
  <2>1. Rest(o, "timer") \subseteq pending
    BY DEF Rest
  <2> QED
    BY <1>0, <1>5, <2>1, DisconnectEventFlags DEF ConnectTimeout, FlagInv
<1> QED
  BY <1>1, <1>2, <1>3, <1>4, <1>5

LEMMA ConnectDoneFlags ==
  ASSUME NoSock \notin Fds, FlagInv, NEW o \in Obj, ConnectDone(o)
  PROVE  \A q \in Obj : Flags(q)'
<1>1. o \in live /\ sock[o] \in Fds /\ LoopRuns /\ conn[sock[o]].state = "up"
  BY Reachable DEF Watchers, FlagInv, Dispatches, ConnectDone
<1>2. \A q \in Obj : ~Reports(q) /\ ~Reports(q)'
  BY <1>1, ReportsNothing DEF FlagInv, ConnectDone
<1>3. /\ active' = active \ {<<o, "out">>, <<o, "timer">>}
      /\ pending' = Rest(o, "out") \ {<<o, "timer">>}
      /\ connected' = [connected EXCEPT ![o] = TRUE]
      /\ UNCHANGED <<mode, sock, conn>>
      /\ connected \in [Obj -> BOOLEAN]
  BY DEF ConnectDone, FlagInv, IInv, RestType
<1>4. mode[o] = "client"
  BY <1>1 DEF FlagInv, Flags, KindRight
<1>5. Flags(o)'
  <2>1. Up(o)' /\ connected'[o] /\ ~Opening(o)'
    BY <1>1, <1>3, <1>4 DEF Up, Opening
  <2>2. <<o, "in">> \in pending' => Readable(sock[o])'
    BY <1>3, <1>4 DEF FlagInv, Flags, WatchersRight, Readable, Rest
  <2> QED
    BY <1>1, <1>2, <1>3, <1>4, <2>1, <2>2 DEF Flags, KindRight, ConnectedRight, WatchersRight, Rest
<1>6. ASSUME NEW q \in Obj \ {o}
      PROVE  Flags(q)'
  <2>1. SameObject(q)
    BY <1>2, <1>3 DEF SameObject, Rest, Readable
  <2> QED
    BY <2>1, SameFlags DEF FlagInv
<1> QED
  BY <1>5, <1>6

\* A step that neither reports nor changes a socket, a watcher or a flag, but may
\* create objects and change the modes of those without a socket.
LEMMA QuietFlags ==
  ASSUME FlagInv, UNCHANGED <<connected, active, pending, conn, stack, tail>>,
         \A q \in Obj : \/ sock'[q] = sock[q] /\ mode'[q] = mode[q]
                        \/ sock[q] \notin Fds /\ sock'[q] \notin Fds
  PROVE  \A q \in Obj : Flags(q)'
<1> SUFFICES ASSUME NEW q \in Obj PROVE Flags(q)'
  OBVIOUS
<1>1. Reports(q)' <=> Reports(q)
  BY DEF Reports
<1>2. CASE sock'[q] = sock[q] /\ mode'[q] = mode[q]
  <2>1. SameObject(q)
    BY <1>1, <1>2 DEF SameObject, Readable
  <2> QED
    BY <2>1, SameFlags DEF FlagInv
<1>3. CASE sock[q] \notin Fds /\ sock'[q] \notin Fds
  <2>1. \A w \in Watchers : <<q, w>> \notin active' \cup pending'
    BY <1>3, NoSockNoWatcher DEF FlagInv
  <2>2. connected'[q] => Reports(q)'
    BY <1>1, <1>3 DEF FlagInv, Flags, ConnectedRight, Up
  <2> QED
    BY <1>3, <2>1, <2>2, ClosedFlags
<1> QED
  BY <1>2, <1>3

\* A socket is made for an object that had none, without a callback.
LEMMA OpenFlags ==
  ASSUME NoSock \notin Fds, FlagInv, NEW o \in Obj, sock[o] = NoSock, NEW fd \in FreeFds,
         NEW m \in {"client", "server"}, mode' = [mode EXCEPT ![o] = m],
         sock' = [sock EXCEPT ![o] = fd],
         active' = active \cup (IF m = "client" THEN WatchersOf(o) ELSE {<<o, "in">>, <<o, "out">>}),
         conn' = [conn EXCEPT ![fd] = Fresh(IF m = "client" THEN "connecting" ELSE "listening")],
         UNCHANGED <<connected, pending, stack, tail>>
  PROVE  \A q \in Obj : Flags(q)'
<1>1. /\ sock \in [Obj -> Fds \cup {NoSock, BadFd}] /\ conn \in [Fds -> ConnType]
      /\ mode \in [Obj -> {"none", "client", "server"}]
  BY DEF FlagInv, IInv, SockPart, SockType, RestType
<1>2. \A q \in Obj : Reports(q)' <=> Reports(q)
  BY DEF Reports
<1>3. fd \in Fds /\ conn[fd].state = "free"
  BY DEF FreeFds
<1>4. \A w \in Watchers : <<o, w>> \notin active \cup pending
  BY NoSockNoWatcher DEF FlagInv
<1>5. Flags(o)'
  <2>1. /\ sock'[o] = fd /\ mode'[o] = m
        /\ conn'[fd].state = IF m = "client" THEN "connecting" ELSE "listening"
    BY <1>1, <1>3 DEF Fresh
  <2>2. <<o, "out">> \in active' /\ (<<o, "timer">> \in active' => m = "client")
        /\ \A w \in Watchers : <<o, w>> \notin pending'
    BY <1>4 DEF WatchersOf, Watchers
  <2>3. connected'[o] => Reports(o)'
    BY <1>2 DEF FlagInv, Flags, ConnectedRight, Up
  <2> QED
    BY <1>3, <2>1, <2>2, <2>3
       DEF Flags, KindRight, ConnectedRight, WatchersRight, Up, Opening, Watchers
<1>6. ASSUME NEW q \in Obj \ {o}
      PROVE  Flags(q)'
  <2>1. sock[q] # fd
    BY <1>3 DEF FlagInv, IInv, SockPart, DescriptorsOwned
  <2>2. sock'[q] = sock[q] /\ mode'[q] = mode[q] /\ (sock[q] \in Fds => conn'[sock[q]] = conn[sock[q]])
    BY <1>1, <1>3, <2>1
  <2>3. \A w \in Watchers : <<q, w>> \in active' <=> <<q, w>> \in active
    BY DEF WatchersOf
  <2>4. <<q, "in">> \in pending => sock[q] \in Fds
    BY NoSockNoWatcher DEF FlagInv, Watchers
  <2>5. SameObject(q)
    BY <1>2, <2>2, <2>3, <2>4 DEF SameObject, Watchers, Readable
  <2> QED
    BY <2>5, SameFlags DEF FlagInv
<1> QED
  BY <1>5, <1>6

\* netsocket_connect() and netsocket_listen().
LEMMA OpenCallFlags ==
  ASSUME NoSock \notin Fds, FlagInv, NEW o \in Obj, Open(o)
  PROVE  \A q \in Obj : Flags(q)'
<1>1. sock[o] = NoSock
  BY DEF Open, MayOpen, ConnectInvalid, ConnectNoFd, ListenInvalid, ListenNoFd,
     ConnectStarts, ConnectFails, ListenFails, ListenStarts
<1>2. /\ sock \in [Obj -> Fds \cup {NoSock, BadFd}] /\ connected \in [Obj -> BOOLEAN]
      /\ mode \in [Obj -> {"none", "client", "server"}]
  BY DEF FlagInv, IInv, SockPart, SockType, RestType
<1>3. active \subseteq active \cup WatchersOf(o) /\ pending \subseteq pending
  OBVIOUS
<1>4. CASE ConnectInvalid(o) \/ ListenInvalid(o)
  <2>1. connected' = connected /\ tail' = tail /\ \A q \in Obj \ {o} : mode'[q] = mode[q]
    BY <1>2, <1>4 DEF ConnectInvalid, ListenInvalid
  <2>2. DisconnectEvent(o, sock[o], active, pending, conn)
    BY <1>4 DEF ConnectInvalid, ListenInvalid
  <2> QED
    BY <1>3, <2>1, <2>2, DisconnectEventFlags
<1>5. CASE ConnectNoFd(o) \/ ListenNoFd(o)
  <2>1. sock[o] \notin Fds /\ BadFd \notin Fds
    BY <1>1 DEF BadFd
  <2>2. /\ sock' = [sock EXCEPT ![o] = BadFd] /\ \A q \in Obj \ {o} : mode'[q] = mode[q]
        /\ UNCHANGED <<connected, active, pending, conn, stack, tail>>
    BY <1>2, <1>5 DEF ConnectNoFd, ListenNoFd, loopVars, callVars
  <2>3. \A q \in Obj : \/ sock'[q] = sock[q] /\ mode'[q] = mode[q]
                       \/ sock[q] \notin Fds /\ sock'[q] \notin Fds
    BY <1>2, <2>1, <2>2
  <2> QED
    BY <2>2, <2>3, QuietFlags
<1>6. ASSUME NEW fd \in FreeFds, ConnectStarts(o, fd)
      PROVE  \A q \in Obj : Flags(q)'
  BY <1>1, <1>6, OpenFlags DEF ConnectStarts, callVars
<1>7. ASSUME NEW fd \in FreeFds, ListenStarts(o, fd)
      PROVE  \A q \in Obj : Flags(q)'
  BY <1>1, <1>7, OpenFlags DEF ListenStarts, callVars
<1>8. ASSUME NEW fd \in FreeFds, ConnectFails(o, fd)
      PROVE  \A q \in Obj : Flags(q)'
  <2>1. active \cup WatchersOf(o) \in SUBSET (active \cup WatchersOf(o)) /\ fd # NoSock
    BY DEF FreeFds
  <2>2. /\ SockClose(o, fd, active \cup WatchersOf(o), pending, [conn EXCEPT ![fd] = Fresh("unused")])
        /\ connected' = [connected EXCEPT ![o] = FALSE] /\ mode' = [mode EXCEPT ![o] = "client"]
        /\ UNCHANGED <<stack, tail>>
    BY <1>8 DEF ConnectFails, callVars
  <2>3. \A q \in Obj : Reports(q)' <=> Reports(q)
    BY <2>2 DEF Reports
  <2>4. ~connected'[o] /\ \A q \in Obj \ {o} : mode'[q] = mode[q] /\ connected'[q] = connected[q]
    BY <1>2, <2>2
  <2> QED
    BY <1>1, <2>1, <2>2, <2>3, <2>4, CloseFlags
<1>9. ASSUME NEW fd \in FreeFds, ListenFails(o, fd)
      PROVE  \A q \in Obj : Flags(q)'
  <2>1. fd # NoSock
    BY DEF FreeFds
  <2>2. connected' = connected /\ tail' = tail /\ \A q \in Obj \ {o} : mode'[q] = mode[q]
    BY <1>2, <1>9 DEF ListenFails
  <2>3. DisconnectEvent(o, fd, active, pending, [conn EXCEPT ![fd] = Fresh("unused")])
    BY <1>9 DEF ListenFails
  <2> QED
    BY <1>1, <1>3, <2>1, <2>2, <2>3, DisconnectEventFlags
<1> QED
  BY <1>4, <1>5, <1>6, <1>7, <1>8, <1>9 DEF Open

\* sock_close() and free().
LEMMA DestroyFlags ==
  ASSUME NoSock \notin Fds, FlagInv, NEW o \in Obj, DestroyNow(o),
         \A q \in Obj : Reports(q)' <=> Reports(q)
  PROVE  \A q \in Obj : Flags(q)'
<1>1. connected \in [Obj -> BOOLEAN] /\ mode \in [Obj -> {"none", "client", "server"}]
  BY DEF FlagInv, IInv, RestType
<1>2. ~connected'[o] /\ \A q \in Obj \ {o} : mode'[q] = mode[q] /\ connected'[q] = connected[q]
  BY <1>1 DEF DestroyNow, Free
<1>3. SockClose(o, sock[o], active, pending, conn)
      /\ active \in SUBSET (active \cup WatchersOf(o)) /\ pending \in SUBSET pending
  BY DEF DestroyNow
<1> QED
  BY <1>2, <1>3, CloseFlags

LEMMA UserFlags ==
  ASSUME NoSock \notin Fds, FlagInv, User
  PROVE  \A q \in Obj : Flags(q)'
<1>1. ASSUME NEW o \in Obj, New(o)
      PROVE  \A q \in Obj : Flags(q)'
  BY <1>1, QuietFlags DEF New, callVars, loopVars
<1>2. ASSUME NEW o \in Obj, Disconnect(o)
      PROVE  \A q \in Obj : Flags(q)'
  <2>1. /\ SockClose(o, sock[o], active, pending, conn)
        /\ active \in SUBSET (active \cup WatchersOf(o)) /\ pending \in SUBSET pending
        /\ connected \in [Obj -> BOOLEAN] /\ connected' = [connected EXCEPT ![o] = FALSE]
        /\ UNCHANGED <<mode, stack, tail>>
    BY <1>2 DEF Disconnect, callVars, FlagInv, IInv, RestType
  <2>2. \A q \in Obj : Reports(q)' <=> Reports(q)
    BY <2>1 DEF Reports
  <2> QED
    BY <2>1, <2>2, CloseFlags
<1>3. ASSUME NEW o \in Obj, DisconnectWithEvent(o)
      PROVE  \A q \in Obj : Flags(q)'
  <2>1. active \in SUBSET (active \cup WatchersOf(o)) /\ pending \in SUBSET pending
    OBVIOUS
  <2> QED
    BY <1>3, <2>1, DisconnectEventFlags DEF DisconnectWithEvent
<1>4. ASSUME NEW o \in Obj, Destroy(o)
      PROVE  \A q \in Obj : Flags(q)'
  <2>1. \A q \in Obj : Reports(q)' <=> Reports(q)
    BY <1>4 DEF Reports, Destroy, callVars
  <2>2. CASE DestroyNow(o)
    BY <2>1, <2>2, DestroyFlags
  <2>3. CASE UNCHANGED <<live, known, mode, connected, parent, sock, loopVars, conn>>
    BY <1>4, <2>3, QuietFlags DEF Destroy, callVars, loopVars
  <2> QED
    BY <1>4, <2>2, <2>3 DEF Destroy
<1> QED
  BY <1>1, <1>2, <1>3, <1>4, OpenCallFlags DEF User

\* A callback returns.
LEMMA ReturnFlags ==
  ASSUME NoSock \notin Fds, FlagInv, CallbackReturn
  PROVE  \A q \in Obj : Flags(q)'
<1> DEFINE o == stack[Len(stack)].obj
<1>1. \A q \in Obj : Reports(q)' <=> Reports(q)
  BY ReportsPop DEF FlagInv
<1>2. o \in Obj
  BY FrontOfStack DEF Frames, FlagInv, IInv, CallPart, CallType, CallbackReturn
<1>3. CASE DestroyNow(o)
  BY <1>1, <1>2, <1>3, DestroyFlags
<1>4. ASSUME UNCHANGED <<objVars, sock, loopVars, conn>>, NEW q \in Obj
      PROVE  Flags(q)'
  <2>1. SameObject(q)
    BY <1>1, <1>4 DEF SameObject, objVars, loopVars, Readable
  <2> QED
    BY <2>1, SameFlags DEF FlagInv
<1> QED
  BY <1>3, <1>4 DEF CallbackReturn

LEMMA PeerFlags ==
  ASSUME FlagInv, Peer
  PROVE  \A q \in Obj : Flags(q)'
<1>1. UNCHANGED <<objVars, callVars, loopVars, sock, aborted>>
  BY DEF Peer, PeerAnswers, PeerSends, PeerEnds, BacklogChanges
<1>2. conn \in [Fds -> ConnType]
  BY DEF FlagInv, IInv, SockPart, SockType
<1> DEFINE Moves(x) ==
      /\ \/ conn'[x].state = conn[x].state
         \/ conn[x].state = "connecting" /\ conn'[x].state \in {"up", "refused"}
      /\ Readable(x) /\ conn[x].state # "listening" => Readable(x)'
<1>3. \A x \in Fds : Moves(x)
  <2> USE <1>2 DEF ConnType, Readable
  <2>1. ASSUME NEW fd \in Fds, NEW s \in {"up", "refused"}, PeerAnswers(fd, s)
        PROVE  \A x \in Fds : Moves(x)
    BY <2>1 DEF PeerAnswers
  <2>2. ASSUME NEW fd \in Fds, NEW how \in {"eof", "reset"}, PeerEnds(fd, how)
        PROVE  \A x \in Fds : Moves(x)
    BY <2>2 DEF PeerEnds
  <2>3. ASSUME NEW fd \in Fds, PeerSends(fd)
        PROVE  \A x \in Fds : Moves(x)
    BY <2>3 DEF PeerSends
  <2>4. ASSUME NEW fd \in Fds, BacklogChanges(fd)
        PROVE  \A x \in Fds : Moves(x)
    BY <2>4 DEF BacklogChanges
  <2> QED
    BY <2>1, <2>2, <2>3, <2>4 DEF Peer
<1>4. ASSUME NEW q \in Obj
      PROVE  Flags(q)'
  <2>1. Reports(q)' <=> Reports(q)
    BY <1>1 DEF Reports, callVars
  <2>2. <<q, "in">> \in pending => sock[q] \in Fds
    BY NoSockNoWatcher DEF FlagInv, Watchers
  <2>3. mode[q] = "client" /\ sock[q] \in Fds => conn[sock[q]].state # "listening"
    BY DEF FlagInv, Flags, KindRight
  <2>4. UNCHANGED <<mode, connected, active, pending, sock>>
    BY <1>1 DEF objVars, loopVars
  <2>5. ASSUME NEW x \in Fds, x = sock[q]
        PROVE  /\ \/ conn'[x].state = conn[x].state
                  \/ conn[x].state = "connecting" /\ conn'[x].state \in {"up", "refused"}
               /\ mode[q] = "client" /\ Readable(x) => Readable(x)'
    BY <1>3, <2>3, <2>5
  <2>6. sock[q] \in Fds =>
          \/ conn'[sock[q]].state = conn[sock[q]].state
          \/ conn[sock[q]].state = "connecting" /\ conn'[sock[q]].state \in {"up", "refused"}
    BY <2>5
  <2>7. <<q, "in">> \in pending /\ mode[q] = "client" /\ Readable(sock[q]) => Readable(sock[q])'
    BY <2>2, <2>4, <2>5 DEF Readable
  <2>8. SameObject(q)
    BY <2>1, <2>4, <2>6, <2>7 DEF SameObject
  <2> QED
    BY <2>8, SameFlags DEF FlagInv
<1> QED
  BY <1>4

LEMMA LoopFlags ==
  ASSUME FlagInv, \/ Poll \/ DisconnectTail \/ UNCHANGED vars \/ \E o \in Obj : TimerDue(o)
  PROVE  \A q \in Obj : Flags(q)'
<1>1. CASE UNCHANGED vars \/ \E o \in Obj : TimerDue(o)
  BY <1>1, QuietFlags DEF TimerDue, objVars, callVars, loopVars, vars
<1>2. ASSUME Poll, NEW q \in Obj
      PROVE  Flags(q)'
  <2>1. /\ pending' = ReadyIO \cup Expired /\ active' = active \ Expired
        /\ UNCHANGED <<objVars, callVars, sock, conn>> /\ LoopRuns
    BY <1>2 DEF Poll
  <2>2. ~Reports(q) /\ ~Reports(q)'
    BY <2>1, LoopReports DEF FlagInv, Reports, callVars
  <2>3. (Up(q)' <=> Up(q)) /\ (Opening(q)' <=> Opening(q)) /\ (<<q, "out">> \in active' <=> <<q, "out">> \in active)
    BY <2>1 DEF Up, Opening, objVars, Expired
  <2>4. KindRight(q)' /\ ConnectedRight(q)'
    BY <2>1, <2>2, <2>3 DEF FlagInv, Flags, KindRight, ConnectedRight, objVars, Up
  <2>5. <<q, "timer">> \in active' \cup pending' => <<q, "timer">> \in active
    BY <2>1 DEF ReadyIO, Expired
  <2>6. <<q, "out">> \in pending' => <<q, "out">> \in active
    BY <2>1 DEF ReadyIO, Expired
  <2>7. <<q, "in">> \in pending' => Readable(sock[q])'
    BY <2>1 DEF ReadyIO, Expired, Readable
  <2>8. connected'[q] => Up(q)'
    BY <2>1, <2>2, <2>3 DEF FlagInv, Flags, ConnectedRight, objVars
  <2>9. WatchersRight(q)'
    BY <2>3, <2>5, <2>6, <2>7, <2>8 DEF FlagInv, Flags, WatchersRight
  <2> QED
    BY <2>4, <2>9 DEF Flags
<1>3. ASSUME DisconnectTail, NEW q \in Obj
      PROVE  Flags(q)'
  <2>1. /\ tail # NoObj /\ tail' = NoObj /\ connected' = [connected EXCEPT ![tail] = FALSE]
        /\ connected \in [Obj -> BOOLEAN]
        /\ UNCHANGED <<mode, sock, active, pending, stack, conn>>
    BY <1>3 DEF DisconnectTail, loopVars, FlagInv, IInv, RestType
  <2>2. (Up(q)' <=> Up(q)) /\ (Opening(q)' <=> Opening(q)) /\ (Readable(sock[q])' <=> Readable(sock[q]))
    BY <2>1 DEF Up, Opening, Readable
  <2>3. Reports(q)' => Reports(q)
    BY <2>1 DEF Reports
  <2>4. q # tail => (Reports(q) => Reports(q)') /\ connected'[q] = connected[q]
    BY <2>1 DEF Reports
  <2>5. q = tail => Reports(q) /\ ~connected'[q]
    BY <2>1 DEF Reports
  <2>6. ConnectedRight(q)'
    BY <2>1, <2>2, <2>3, <2>4, <2>5 DEF FlagInv, Flags, ConnectedRight
  <2>7. KindRight(q)' /\ WatchersRight(q)'
    BY <2>1, <2>2, <2>4, <2>5 DEF FlagInv, Flags, KindRight, WatchersRight
  <2> QED
    BY <2>6, <2>7 DEF Flags
<1> QED
  BY <1>1, <1>2, <1>3

LEMMA FlagInit == ASSUME NoSock \notin Fds, Init PROVE FlagInv
<1> SUFFICES ASSUME NEW q \in Obj PROVE Flags(q)
  BY IInvInit DEF FlagInv
<1> QED
  BY DEF Init, Flags, KindRight, ConnectedRight, WatchersRight, Up, Opening, Reports, NoSock

LEMMA FlagNext == ASSUME NoSock \notin Fds, FlagInv, [Next]_vars PROVE FlagInv'
<1>1. IInv'
  BY DispatchKeeps, ReturnKeeps, UserKeeps, PeerKeeps, QuietKeeps DEF Next, FlagInv
<1>2. \A q \in Obj : Flags(q)'
  <2>1. CASE Dispatch
    BY <2>1, AcceptFlags, ClientFlags, ConnectDoneFlags DEF Dispatch
  <2> QED
    BY <2>1, ReturnFlags, UserFlags, PeerFlags, LoopFlags DEF Next
<1> QED
  BY <1>1, <1>2 DEF FlagInv

LEMMA FlagInvariance == ASSUME NoSock \notin Fds PROVE Spec => []FlagInv
BY FlagInit, FlagNext, PTL DEF Spec

\* A read() in the loop never blocks: w_in_cb() of a connected client comes to it
\* only when there are data or the end of them.
THEOREM ReadsDoNotBlock == ASSUME NoSock \notin Fds PROVE Spec => []ReadNeverBlocks
BY FlagsSuffice, FlagInvariance, PTL

\* w_connect_timeout never outlives the opening of the connection it is for.
THEOREM TimersAreInTime == ASSUME NoSock \notin Fds PROVE Spec => []TimeoutOnlyOpening
BY FlagsSuffice, FlagInvariance, PTL

\* obj->connected tells whether w_out_cb() has reported the connection the object
\* has, but while a DISCONNECT is being reported.
THEOREM ConnectedIsTrue == ASSUME NoSock \notin Fds PROVE Spec => []ConnectedAgrees
BY FlagsSuffice, FlagInvariance, PTL

-----------------------------------------------------------------------------
(* The refinement.  A step of Netsocket is a step of NetsocketEvents on the *)
(* phases, or leaves the phases and the callbacks as they were.             *)

\* The step leaves what the phase of q is read off.
Same(q) ==
  /\ q \in live' <=> q \in live
  /\ \/ /\ sock'[q] = sock[q] /\ mode'[q] = mode[q]
        /\ <<q, "out">> \in active' <=> <<q, "out">> \in active
     \/ sock[q] \notin Fds /\ sock'[q] \notin Fds

LEMMA SamePhase == ASSUME NEW q \in Obj, Same(q) PROVE Phase(q)' = Phase(q)
BY DEF Same, Phase, Opening, Up

LEMMA Stutters ==
  ASSUME \A q \in Obj : Same(q), stack' = stack
  PROVE  UNCHANGED Promise!vars
BY SamePhase DEF phase, Promise!vars

LEMMA EntersPhase ==
  ASSUME NEW o \in Obj, NEW p, Phase(o)' = p, \A q \in Obj \ {o} : Same(q)
  PROVE  Promise!Enters(o, p)
<1>1. \A q \in Obj \ {o} : Phase(q)' = Phase(q)
  BY SamePhase
<1> QED
  BY <1>1 DEF phase, Promise!Enters

\* The phases as the actions of NetsocketEvents ask for them.
LEMMA PhaseIs ==
  ASSUME NEW o \in Obj, FlagInv
  PROVE  /\ phase[o] = "absent" <=> o \notin live
         /\ o \in live /\ sock[o] \notin Fds => phase[o] = "closed"
         /\ sock[o] \in Fds /\ mode[o] = "server" => phase[o] = "listening"
         /\ Opening(o) => phase[o] = "opening"
         /\ Up(o) => phase[o] = "up"
<1>0. phase[o] = Phase(o)
  BY DEF phase
<1>1. sock[o] \in Fds => o \in live
  BY DEF FlagInv, IInv, SockPart, DescriptorsOwned
<1>2. CASE o \notin live
  BY <1>0, <1>1, <1>2 DEF Phase, Opening, Up
<1>3. CASE o \in live /\ sock[o] \notin Fds
  BY <1>0, <1>3 DEF Phase, Opening, Up
<1>4. CASE o \in live /\ sock[o] \in Fds /\ mode[o] = "server"
  BY <1>0, <1>4 DEF Phase, Opening, Up
<1>5. CASE o \in live /\ sock[o] \in Fds /\ mode[o] = "client"
  BY <1>0, <1>5 DEF Phase, Opening, Up
<1>6. sock[o] \in Fds => mode[o] \in {"client", "server"}
  BY DEF FlagInv, Flags, KindRight
<1> QED
  BY <1>1, <1>2, <1>3, <1>4, <1>5, <1>6

\* What follows is about a step that closes the socket of o, as CloseFlags is.
LEMMA CloseEnters ==
  ASSUME NoSock \notin Fds, FlagInv, NEW o \in Obj, o \in live,
         NEW act \in SUBSET (active \cup WatchersOf(o)), NEW pend \in SUBSET pending,
         \A q \in Obj \ {o} : <<q, "out">> \in active => <<q, "out">> \in act,
         NEW s, s = sock[o] \/ (sock[o] = NoSock /\ s \in FreeFds),
         NEW c, c = conn \/ (s \in FreeFds /\ c = [conn EXCEPT ![s] = Fresh("unused")]),
         s = NoSock => act = active,
         SockClose(o, s, act, pend, c),
         live' = live \/ live' = live \ {o},
         \A q \in Obj \ {o} : mode'[q] = mode[q]
  PROVE  Promise!Enters(o, IF live' = live THEN "closed" ELSE "absent") /\ phase[o] # "absent"
<1>1. /\ sock'[o] \notin Fds
      /\ \A q \in Obj \ {o} :
           /\ sock'[q] = sock[q]
           /\ \A w \in Watchers : <<q, w>> \in active' <=> <<q, w>> \in act
  BY CloseEffect DEF FlagInv
<1>2. \A q \in Obj \ {o} : Same(q)
  BY <1>1 DEF Same, Watchers, WatchersOf
<1>3. Phase(o)' = IF live' = live THEN "closed" ELSE "absent"
  <2>1. CASE o \in live'
    BY <1>1, <2>1 DEF Phase, Opening, Up
  <2>2. CASE o \notin live'
    BY <1>1, <2>2 DEF Phase, Opening, Up
  <2> QED
    BY <2>1, <2>2
<1> QED
  BY <1>2, <1>3, EntersPhase, PhaseIs

LEMMA DisconnectEnters ==
  ASSUME NoSock \notin Fds, FlagInv, NEW o \in Obj, o \in live,
         NEW act \in SUBSET (active \cup WatchersOf(o)), NEW pend \in SUBSET pending,
         \A q \in Obj \ {o} : <<q, "out">> \in active => <<q, "out">> \in act,
         NEW s, s = sock[o] \/ (sock[o] = NoSock /\ s \in FreeFds),
         NEW c, c = conn \/ (s \in FreeFds /\ c = [conn EXCEPT ![s] = Fresh("unused")]),
         s = NoSock => act = active,
         DisconnectEvent(o, s, act, pend, c),
         live' = live, \A q \in Obj \ {o} : mode'[q] = mode[q]
  PROVE  Promise!Disconnected(o)
<1>1. Promise!Enters(o, "closed") /\ phase[o] # "absent"
  BY CloseEnters DEF DisconnectEvent
<1> QED
  BY <1>1 DEF Promise!Disconnected, Promise!Calls, DisconnectEvent, InvokeCallback

LEMMA AcceptMaps ==
  ASSUME NoSock \notin Fds, FlagInv, NEW o \in Obj, Accept(o)
  PROVE  [\E q \in Obj : Promise!Incoming(o, q)]_(Promise!vars)
<1>1. /\ o \in live /\ sock[o] \in Fds /\ mode[o] = "server" /\ stack = << >> /\ stack' = stack
  BY Reachable DEF Accept, Dispatches, LoopRuns, FlagInv, Watchers, callVars
<1>2. /\ sock \in [Obj -> Fds \cup {NoSock, BadFd}]
      /\ mode \in [Obj -> {"none", "client", "server"}]
  BY DEF FlagInv, IInv, SockPart, SockType, RestType
<1>3. ASSUME NEW p \in Obj \ live, NEW fd \in FreeFds, live' = live \cup {p},
             mode' = [mode EXCEPT ![p] = "client"],
             sock' = [sock EXCEPT ![p] = fd],
             active' = active \cup {<<p, "in">>, <<p, "out">>}
      PROVE  Promise!Incoming(o, p)
  <2>1. Phase(p)' = "opening"
    BY <1>2, <1>3 DEF Phase, Opening, Up, FreeFds
  <2>2. \A q \in Obj \ {p} : Same(q)
    BY <1>2, <1>3 DEF Same
  <2> QED
    BY <1>1, <2>1, <2>2, EntersPhase, PhaseIs DEF Promise!Incoming
<1>4. CASE UNCHANGED <<live, mode, sock, active>>
  BY <1>1, <1>4, Stutters DEF Same
<1> QED
  BY <1>3, <1>4 DEF Accept

LEMMA DispatchMaps ==
  ASSUME NoSock \notin Fds, FlagInv, Dispatch
  PROVE  [Promise!Next]_(Promise!vars)
<1>1. ASSUME NEW o \in Obj, Accept(o)
      PROVE  [Promise!Next]_(Promise!vars)
  BY <1>1, AcceptMaps DEF Promise!Next
<1>2. ASSUME NEW o \in Obj, InBeforeConnect(o)
      PROVE  UNCHANGED Promise!vars
  BY <1>2, Stutters DEF InBeforeConnect, Same, objVars, callVars
<1>3. ASSUME NEW o \in Obj, ReadData(o)
      PROVE  Promise!Read(o)
  <2>1. stack = << >> /\ stack' = Append(stack, [obj |-> o, event |-> "READ"])
    BY <1>3 DEF ReadData, Dispatches, LoopRuns, InvokeCallback
  <2>2. phase[o] = "up"
    BY <1>3, PhaseIs DEF FlagInv, Flags, WatchersRight, ReadData, Dispatches
  <2>3. phase' = phase
    BY <1>3, SamePhase DEF ReadData, Same, phase
  <2> QED
    BY <2>1, <2>2, <2>3 DEF Promise!Read, Promise!Calls
<1>4. ASSUME NEW o \in Obj, ReadEnd(o) \/ ConnectError(o) \/ ConnectTimeout(o)
      PROVE  Promise!Disconnected(o)
  <2>1. o \in live
    BY <1>4, Reachable DEF Watchers, FlagInv, Dispatches, ReadEnd, ConnectError, ConnectTimeout
  <2>2. \A w \in Watchers : Rest(o, w) \subseteq pending
    BY DEF Rest
  <2>3. CASE ReadEnd(o)
    BY <2>1, <2>2, <2>3, DisconnectEnters DEF ReadEnd, Watchers
  <2>4. CASE ConnectError(o)
    <3> DEFINE act == active \ {<<o, "out">>}
    <3>1. /\ act \in SUBSET (active \cup WatchersOf(o)) /\ Rest(o, "out") \in SUBSET pending
          /\ \A q \in Obj \ {o} : <<q, "out">> \in active => <<q, "out">> \in act
      BY <2>2 DEF Watchers
    <3>2. DisconnectEvent(o, sock[o], act, Rest(o, "out"), conn) /\ sock[o] # NoSock /\ UNCHANGED <<live, mode>>
      BY <2>4, Reachable DEF ConnectError, FlagInv, Dispatches, Watchers
    <3> HIDE DEF act
    <3> QED
      BY <2>1, <3>1, <3>2, DisconnectEnters
  <2>5. CASE ConnectTimeout(o)
    BY <2>1, <2>2, <2>5, DisconnectEnters DEF ConnectTimeout, Watchers
  <2> QED
    BY <1>4, <2>3, <2>4, <2>5
<1>5. ASSUME NEW o \in Obj, ConnectDone(o)
      PROVE  Promise!Connected(o)
  <2>1. stack = << >> /\ stack' = Append(stack, [obj |-> o, event |-> "CONNECT"])
    BY <1>5 DEF ConnectDone, Dispatches, LoopRuns, InvokeCallback
  <2>2. o \in live /\ sock[o] \in Fds /\ conn[sock[o]].state = "up"
    BY <1>5, Reachable DEF Watchers, FlagInv, Dispatches, ConnectDone
  <2>3. mode[o] = "client" /\ <<o, "out">> \in active
    BY <1>5, <2>2 DEF FlagInv, Flags, KindRight, WatchersRight, Dispatches, ConnectDone
  <2>4. phase[o] = "opening"
    BY <2>2, <2>3, PhaseIs DEF Opening
  <2>5. Phase(o)' = "up"
    BY <1>5, <2>2, <2>3 DEF ConnectDone, Phase, Opening, Up
  <2>6. \A q \in Obj \ {o} : Same(q)
    BY <1>5 DEF ConnectDone, Same
  <2> QED
    BY <2>1, <2>4, <2>5, <2>6, EntersPhase DEF Promise!Connected, Promise!Calls
<1> QED
  BY <1>1, <1>2, <1>3, <1>4, <1>5 DEF Dispatch, Promise!Next

\* netsocket_connect() and netsocket_listen().
LEMMA OpenMaps ==
  ASSUME NoSock \notin Fds, FlagInv, NEW o \in Obj, Open(o)
  PROVE  [Promise!Next]_(Promise!vars)
<1>1. sock[o] = NoSock /\ o \in live
  BY DEF Open, MayOpen, ConnectInvalid, ConnectNoFd, ListenInvalid, ListenNoFd,
     ConnectStarts, ConnectFails, ListenFails, ListenStarts, FlagInv, IInv, RestType
<1>2. /\ sock \in [Obj -> Fds \cup {NoSock, BadFd}]
      /\ mode \in [Obj -> {"none", "client", "server"}]
  BY DEF FlagInv, IInv, SockPart, SockType, RestType
<1>3. phase[o] = "closed" /\ active \subseteq active \cup WatchersOf(o) /\ pending \subseteq pending
  BY <1>1, PhaseIs
<1>4. CASE ConnectInvalid(o) \/ ListenInvalid(o)
  <2>1. live' = live /\ \A q \in Obj \ {o} : mode'[q] = mode[q]
    BY <1>2, <1>4 DEF ConnectInvalid, ListenInvalid
  <2>2. DisconnectEvent(o, sock[o], active, pending, conn)
    BY <1>4 DEF ConnectInvalid, ListenInvalid
  <2>3. Promise!Disconnected(o)
    BY <1>1, <1>3, <2>1, <2>2, DisconnectEnters
  <2> QED
    BY <2>3 DEF Promise!Next
<1>5. CASE ConnectNoFd(o) \/ ListenNoFd(o)
  <2>1. UNCHANGED <<live, active, stack>> /\ sock' = [sock EXCEPT ![o] = BadFd]
        /\ \A q \in Obj \ {o} : mode'[q] = mode[q]
    BY <1>2, <1>5 DEF ConnectNoFd, ListenNoFd, loopVars, callVars
  <2>2. \A q \in Obj : Same(q)
    BY <1>1, <1>2, <2>1 DEF Same, BadFd
  <2> QED
    BY <2>1, <2>2, Stutters
<1>6. ASSUME NEW fd \in FreeFds, ConnectStarts(o, fd)
      PROVE  Promise!Open(o)
  <2>1. Phase(o)' = "opening"
    BY <1>1, <1>2, <1>6 DEF ConnectStarts, Phase, Opening, Up, FreeFds, WatchersOf, Watchers
  <2>2. \A q \in Obj \ {o} : Same(q)
    BY <1>2, <1>6 DEF ConnectStarts, Same, WatchersOf
  <2> QED
    BY <1>3, <1>6, <2>1, <2>2, EntersPhase DEF Promise!Open, ConnectStarts, callVars
<1>7. ASSUME NEW fd \in FreeFds, ListenStarts(o, fd)
      PROVE  Promise!Listen(o)
  <2>1. Phase(o)' = "listening"
    BY <1>1, <1>2, <1>7 DEF ListenStarts, Phase, Opening, Up, FreeFds
  <2>2. \A q \in Obj \ {o} : Same(q)
    BY <1>2, <1>7 DEF ListenStarts, Same
  <2> QED
    BY <1>3, <1>7, <2>1, <2>2, EntersPhase DEF Promise!Listen, ListenStarts, callVars
<1>8. ASSUME NEW fd \in FreeFds, ConnectFails(o, fd)
      PROVE  Promise!Close(o)
  <2>1. fd # NoSock /\ active \cup WatchersOf(o) \in SUBSET (active \cup WatchersOf(o))
    BY DEF FreeFds
  <2>2. /\ SockClose(o, fd, active \cup WatchersOf(o), pending, [conn EXCEPT ![fd] = Fresh("unused")])
        /\ live' = live /\ stack' = stack /\ \A q \in Obj \ {o} : mode'[q] = mode[q]
    BY <1>2, <1>8 DEF ConnectFails, callVars
  <2>3. Promise!Enters(o, "closed") /\ phase[o] # "absent"
    BY <1>1, <1>3, <2>1, <2>2, CloseEnters
  <2> QED
    BY <2>2, <2>3 DEF Promise!Close
<1>9. ASSUME NEW fd \in FreeFds, ListenFails(o, fd)
      PROVE  Promise!Disconnected(o)
  <2>1. fd # NoSock
    BY DEF FreeFds
  <2>2. /\ DisconnectEvent(o, fd, active, pending, [conn EXCEPT ![fd] = Fresh("unused")])
        /\ live' = live /\ \A q \in Obj \ {o} : mode'[q] = mode[q]
    BY <1>2, <1>9 DEF ListenFails
  <2> QED
    BY <1>1, <1>3, <2>1, <2>2, DisconnectEnters
<1> QED
  BY <1>4, <1>5, <1>6, <1>7, <1>8, <1>9 DEF Open, Promise!Next

\* free() of an object none of whose callbacks runs, or is left to run.
LEMMA DestroyEnters ==
  ASSUME NoSock \notin Fds, FlagInv, NEW o \in Obj, o \in live, DestroyNow(o)
  PROVE  Promise!Enters(o, "absent") /\ phase[o] # "absent"
<1>1. /\ SockClose(o, sock[o], active, pending, conn) /\ live' = live \ {o}
      /\ \A q \in Obj \ {o} : mode'[q] = mode[q]
  BY DEF DestroyNow, Free, FlagInv, IInv, RestType
<1>2. live' # live /\ active \subseteq active \cup WatchersOf(o) /\ pending \subseteq pending
  BY <1>1
<1> QED
  BY <1>1, <1>2, CloseEnters

LEMMA UserMaps ==
  ASSUME NoSock \notin Fds, FlagInv, User
  PROVE  [Promise!Next]_(Promise!vars)
<1>0. known \subseteq live
  BY DEF FlagInv, IInv, RestType
<1>1. ASSUME NEW o \in Obj, New(o)
      PROVE  Promise!Create(o)
  <2>1. sock[o] \notin Fds
    BY <1>1 DEF New, FlagInv, IInv, SockPart, DescriptorsOwned
  <2>2. Phase(o)' = "closed"
    BY <1>1, <2>1 DEF New, Phase, Opening, Up
  <2>3. \A q \in Obj \ {o} : Same(q)
    BY <1>1 DEF New, Same, loopVars
  <2>4. phase[o] = "absent"
    BY <1>1, PhaseIs DEF New
  <2> QED
    BY <1>1, <2>2, <2>3, <2>4, EntersPhase DEF Promise!Create, New, callVars
<1>2. ASSUME NEW o \in Obj, Disconnect(o)
      PROVE  Promise!Close(o)
  <2>1. /\ SockClose(o, sock[o], active, pending, conn) /\ o \in live
        /\ active \subseteq active \cup WatchersOf(o) /\ pending \subseteq pending
        /\ UNCHANGED <<live, mode, stack>>
    BY <1>0, <1>2 DEF Disconnect, callVars
  <2>2. Promise!Enters(o, "closed") /\ phase[o] # "absent"
    BY <2>1, CloseEnters
  <2> QED
    BY <2>1, <2>2 DEF Promise!Close
<1>3. ASSUME NEW o \in Obj, DisconnectWithEvent(o)
      PROVE  Promise!Disconnected(o)
  <2>1. /\ DisconnectEvent(o, sock[o], active, pending, conn) /\ o \in live
        /\ active \subseteq active \cup WatchersOf(o) /\ pending \subseteq pending
        /\ UNCHANGED <<live, mode>>
    BY <1>0, <1>3 DEF DisconnectWithEvent
  <2> QED
    BY <2>1, DisconnectEnters
<1>4. ASSUME NEW o \in Obj, Destroy(o)
      PROVE  Promise!Destroy(o) \/ UNCHANGED Promise!vars
  <2>1. o \in live /\ stack' = stack
    BY <1>0, <1>4 DEF Destroy, callVars
  <2>2. CASE inCallback[o] > 0
    BY <1>4, <2>1, <2>2, Stutters DEF Destroy, Same, loopVars
  <2>3. CASE ~(inCallback[o] > 0)
    <3>1. DestroyNow(o)
      BY <1>4, <2>3 DEF Destroy
    <3>2. inCallback[o] = Cardinality(Occurs(stack, o)) /\ inCallback[o] \in Nat /\ stack \in Seq(Frames)
      BY CountedOccurs DEF FlagInv, IInv, CallPart, CallType
    <3>3. ~Promise!Runs(o)
      BY <2>3, <3>2, NoneRuns DEF Promise!Runs
    <3> QED
      BY <2>1, <3>1, <3>3, DestroyEnters DEF Promise!Destroy
  <2> QED
    BY <2>2, <2>3
<1> QED
  BY <1>1, <1>2, <1>3, <1>4, OpenMaps DEF User, Promise!Next

LEMMA ReturnMaps ==
  ASSUME NoSock \notin Fds, FlagInv, CallbackReturn
  PROVE  Promise!Return
<1> DEFINE o == stack[Len(stack)].obj
<1>1. stack \in Seq(Frames) /\ stack # << >> /\ stack' = SubSeq(stack, 1, Len(stack) - 1)
  BY DEF FlagInv, IInv, CallPart, CallType, CallbackReturn
<1>2. Len(stack) \in Nat \ {0} /\ stack[Len(stack)] \in Frames
  BY <1>1, FrontOfStack
<1>3. o \in Obj /\ o \in live
  BY <1>2 DEF Frames, FlagInv, IInv, CallPart, CallbackObjLive
<1>4. CASE destroyReq[o] /\ inCallback[o] = 1
  <2>1. DestroyNow(o)
    BY <1>4 DEF CallbackReturn
  <2>2. Cardinality(Occurs(stack, o)) = 1
    BY <1>3, <1>4, CountedOccurs DEF FlagInv, IInv, CallPart
  <2>3. Cardinality(Occurs(stack, o)) = Cardinality(Occurs(stack', o)) + 1
    BY <1>1, OccursFront
  <2>4. stack' \in Seq(Frames) /\ Len(stack') = Len(stack) - 1
        /\ \A i \in 1 .. Len(stack) - 1 : stack'[i] = stack[i]
    BY <1>1, FrontOfStack
  <2>5. Cardinality(Occurs(stack', o)) = 0
    BY <2>2, <2>3, <2>4, OccursFinite
  <2>6. \A i \in 1 .. Len(stack') : stack'[i].obj # o
    BY <2>4, <2>5, NoneRuns
  <2>7. \A i \in 1 .. Len(stack) - 1 : stack[i].obj # o
    BY <2>4, <2>6
  <2>8. Promise!Enters(o, "absent")
    BY <1>3, <2>1, DestroyEnters
  <2> QED
    BY <1>1, <2>7, <2>8 DEF Promise!Return
<1>5. CASE ~(destroyReq[o] /\ inCallback[o] = 1)
  <2>1. UNCHANGED <<objVars, sock, loopVars>>
    BY <1>5 DEF CallbackReturn
  <2>2. phase' = phase
    BY <2>1, SamePhase DEF Same, phase, objVars, loopVars
  <2> QED
    BY <1>1, <2>2 DEF Promise!Return
<1> QED
  BY <1>4, <1>5

\* The loop's own steps, and those of the peers.
LEMMA OthersStutter ==
  ASSUME FlagInv, \/ Poll \/ DisconnectTail \/ Peer \/ UNCHANGED vars
                  \/ \E o \in Obj : TimerDue(o)
  PROVE  UNCHANGED Promise!vars
<1>1. CASE DisconnectTail \/ UNCHANGED vars \/ \E o \in Obj : TimerDue(o)
  BY <1>1, Stutters DEF DisconnectTail, TimerDue, vars, objVars, callVars, loopVars, Same
<1>2. CASE Poll
  <2>1. \A q \in Obj : <<q, "out">> \in active' <=> <<q, "out">> \in active
    BY <1>2 DEF Poll, Expired
  <2> QED
    BY <1>2, <2>1, Stutters DEF Poll, objVars, callVars, Same
<1>3. CASE Peer
  <2>1. UNCHANGED <<objVars, callVars, loopVars, sock>>
    BY <1>3 DEF Peer, PeerAnswers, PeerSends, PeerEnds, BacklogChanges
  <2> QED
    BY <2>1, Stutters DEF objVars, callVars, loopVars, Same
<1> QED
  BY <1>1, <1>2, <1>3

\* The doc comments of the calls and the order w_in_cb() and w_out_cb() keep: the
\* user of an object gets its events as NetsocketEvents says, CONNECT first and
\* once, no READ but of a connection that was reported and has not been ended,
\* whatever he calls inside the callbacks and whatever the peers do.
THEOREM EventsAsPromised == ASSUME NoSock \notin Fds PROVE Spec => Contract
<1>1. Init => Promise!Init
  <2> SUFFICES ASSUME Init PROVE Promise!Init
    OBVIOUS
  <2>1. \A o \in Obj : Phase(o) = "absent"
    BY DEF Init, Phase, Opening, Up
  <2>2. phase = [o \in Obj |-> "absent"]
    BY <2>1 DEF phase
  <2> QED
    BY <2>2 DEF Init, Promise!Init
<1>2. FlagInv /\ [Next]_vars => [Promise!Next]_(Promise!vars)
  BY DispatchMaps, UserMaps, ReturnMaps, OthersStutter DEF Next, Promise!Next
<1> QED
  BY <1>1, <1>2, FlagInvariance, PTL DEF Spec, Contract, Promise!Spec

-----------------------------------------------------------------------------
(* The proxy of pipe.c.                                                     *)

USE PipeAssumption

pipeAll == <<vars, pipeVars>>

\* A step of the proxy is one of the library, its peers and some user of it.
LEMMA PipeUses ==
  ASSUME FlagInv, [PipeNext]_pipeAll
  PROVE  [Next]_vars
<1>0. known \subseteq live /\ live \subseteq Obj
  BY DEF FlagInv, IInv, SockPart, SockType, RestType
<1>1. CASE MainNew \/ MainListen
  BY <1>1 DEF MainNew, MainListen, Next, User, Open
<1>2. CASE NewPartner
  BY <1>2 DEF NewPartner, Next, User
<1>3. CASE ConnectPartner
  <2>1. Partner \in Obj
    BY <1>0, <1>3 DEF ConnectPartner, MayOpen, ConnectInvalid, ConnectNoFd, ConnectStarts,
                      ConnectFails
  <2>2. Open(Partner)
    BY <1>3 DEF ConnectPartner, Open
  <2> QED
    BY <2>1, <2>2 DEF Next, User
<1>4. CASE DestroyPartner
  BY <1>0, <1>4 DEF DestroyPartner, Destroy, Next, User
<1>5. CASE DestroySelf
  BY <1>0, <1>5 DEF DestroySelf, Destroy, Next, User
<1>6. CASE Exit \/ UNCHANGED pipeAll
  BY <1>6 DEF Exit, pipeAll
<1>7. CASE Return \/ (~exited /\ DisconnectTail /\ UNCHANGED pipeVars)
  BY <1>7 DEF Return, Next
<1>8. CASE PollStep \/ DispatchStep \/ PeerStep \/ \E o \in Obj : TimerDueStep(o)
  BY <1>8 DEF PollStep, DispatchStep, PeerStep, TimerDueStep, Next
<1> QED
  BY <1>1, <1>2, <1>3, <1>4, <1>5, <1>6, <1>7, <1>8 DEF PipeNext, Callback

LEMMA PipeFlags == ASSUME NoSock \notin Fds PROVE PipeSpec => []FlagInv
<1>1. PipeInit => FlagInv
  BY FlagInit DEF PipeInit
<1>2. FlagInv /\ [PipeNext]_pipeAll => FlagInv'
  BY PipeUses, FlagNext
<1> QED
  BY <1>1, <1>2, PTL DEF PipeSpec, pipeAll

\* pipe.c is a user of netsocket.c as Netsocket has them, so that every theorem about
\* Netsocket holds of the proxy: no handler or callback on a freed object, no
\* descriptor lost, no event out of order.
THEOREM ProxyIsUser == ASSUME NoSock \notin Fds PROVE PipeSpec => Spec
<1>1. PipeInit => Init
  BY DEF PipeInit
<1>2. FlagInv /\ [PipeNext]_pipeAll => [Next]_vars
  BY PipeUses
<1> QED
  BY <1>1, <1>2, PipeFlags, PTL DEF PipeSpec, Spec, pipeAll

-----------------------------------------------------------------------------
(* The pairs.                                                               *)

Places == {"begin", "connect", "self", "end"}

\* One callback runs, and has come to a place; or a callback of a, connecting b, has
\* run one of b.
One(e, o, place) ==
  /\ Len(stack) = 1 /\ stack[1] = [obj |-> o, event |-> e]
  /\ Len(at) = 1 /\ at[1] = place
Two(a, b, place) ==
  /\ Len(stack) = 2
  /\ stack[1] = [obj |-> a, event |-> "CONNECT"] /\ stack[2] = [obj |-> b, event |-> "DISCONNECT"]
  /\ Len(at) = 2 /\ at[1] = "end" /\ at[2] = place

OutOff(o) == <<o, "out">> \notin active

\* What a live object is: accepted and not reported yet, just reported, one of a pair
\* that was accepted or connected for the other one, or about to be destroyed.
Awaits(o) == parent[o] = Server /\ ~connected[o] /\ userdata[o] = NoObj
Begins(o) == One("CONNECT", o, "begin") /\ parent[o] = Server /\ userdata[o] = NoObj /\ OutOff(o)
Mates(o, p) == Pair(o, p) /\ (parent[o] = Server <=> parent[p] = NoObj)
Ends(o) ==
  \/ One("DISCONNECT", o, "self") \/ One("DISCONNECT", o, "end")
  \/ One("CONNECT", o, "end") /\ destroyReq[o]
  \/ \E q \in Obj, place \in {"self", "end"} : Two(o, q, place) \/ Two(q, o, place)

ObjRight(o) ==
  /\ o \in live \ {Server} => Awaits(o) \/ Begins(o) \/ Mates(o, userdata[o]) \/ Ends(o)
  /\ o \notin live => /\ ~connected[o] /\ ~destroyReq[o]
                      /\ parent[o] = NoObj /\ userdata[o] = NoObj
  /\ parent[o] \in {NoObj, Server}
  /\ mode[o] = "server" => o = Server
  /\ parent[o] = Server /\ userdata[o] # NoObj => OutOff(o)
  /\ destroyReq[o] => Ends(o)

\* The callbacks in progress.
OneRight(o) ==
  \/ One("CONNECT", o, "begin") /\ (parent[o] = Server => Begins(o))
  \/ One("CONNECT", o, "connect") /\ parent[o] = Server /\ Pair(o, userdata[o])
  \/ /\ One("CONNECT", o, "end") /\ parent[o] = Server
     /\ IF destroyReq[o] THEN userdata[o] \notin live ELSE Pair(o, userdata[o])
  \/ One("READ", o, "begin") /\ Pair(o, userdata[o])
  \/ One("DISCONNECT", o, "self") /\ userdata[o] \notin live
  \/ One("DISCONNECT", o, "end") /\ userdata[o] \notin live /\ destroyReq[o]
TwoRight(a, b) ==
  /\ a # b /\ parent[a] = Server /\ parent[b] = NoObj /\ Pair(b, a)
  /\ \/ Two(a, b, "begin")
     \/ Two(a, b, "self") /\ destroyReq[a]
     \/ Two(a, b, "end") /\ destroyReq[a] /\ destroyReq[b]
StackRight ==
  \/ Len(stack) = 0 /\ Len(at) = 0
  \/ \E o \in Obj \ {Server} : OneRight(o)
  \/ \E o \in Obj : One("DISCONNECT", o, "begin")
  \/ \E a, b \in Obj \ {Server} : TwoRight(a, b)

ServerRight ==
  /\ parent[Server] = NoObj /\ userdata[Server] = NoObj
  /\ ~connected[Server] /\ ~destroyReq[Server] /\ mode[Server] # "client"

MainRight ==
  /\ main \in {"new", "listen", "loop"}
  /\ main = "new" => live = {}
  /\ main = "listen" => live = {Server}
  /\ main = "loop" => Server \in live
  /\ main # "loop" => Len(stack) = 0 /\ tail = NoObj

PipeTypes == userdata \in [Obj -> Obj \cup {NoObj}] /\ at \in Seq(Places)

PInv == PipeTypes /\ StackRight /\ (\A o \in Obj : ObjRight(o)) /\ ServerRight /\ MainRight

\* The callbacks and the places they have come to go together.
LEMMA AtLen == ASSUME PInv PROVE Len(at) = Len(stack)
<1>1. \A e, o, place : One(e, o, place) => Len(at) = Len(stack)
  BY DEF One
<1>2. \A a, b, place : Two(a, b, place) => Len(at) = Len(stack)
  BY DEF Two
<1>3. \A o : OneRight(o) => \E e, place : One(e, o, place)
  BY DEF OneRight
<1>4. \A a, b : TwoRight(a, b) => \E place : Two(a, b, place)
  BY DEF TwoRight
<1> QED
  BY <1>1, <1>2, <1>3, <1>4 DEF PInv, StackRight

\* Where GoTo leads.
LEMMA Went ==
  ASSUME FlagInv, FlagInv', PInv, NEW place \in Places, GoTo(place)
  PROVE  /\ at' \in Seq(Places) /\ Len(at') = Len(stack')
         /\ \A k \in 1 .. Len(stack') :
              at'[k] = IF k < Len(stack) THEN at[k] ELSE IF k = Len(stack) THEN place ELSE "begin"
<1>1. stack \in Seq(Frames) /\ stack' \in Seq(Frames) /\ at \in Seq(Places) /\ Len(at) = Len(stack)
  BY AtLen DEF FlagInv, IInv, CallPart, CallType, PInv, PipeTypes
<1>2. Len(stack) \in Nat /\ Len(stack') \in Nat
  BY <1>1
<1>3. \A k \in 1 .. Len(stack') :
        (IF k < Len(stack) THEN at[k] ELSE IF k = Len(stack) THEN place ELSE "begin") \in Places
  BY <1>1, <1>2 DEF Places
<1> QED
  BY <1>2, <1>3 DEF GoTo

\* A callback of o has been called.
LEMMA Called ==
  ASSUME FlagInv, NEW o \in Obj, NEW event \in Events, InvokeCallback(o, event)
  PROVE  /\ Len(stack') = Len(stack) + 1 /\ Len(stack) \in Nat
         /\ stack'[Len(stack) + 1] = [obj |-> o, event |-> event]
         /\ \A k \in 1 .. Len(stack) : stack'[k] = stack[k]
<1>1. stack \in Seq(Frames) /\ stack' = Append(stack, [obj |-> o, event |-> event])
  BY DEF FlagInv, IInv, CallPart, CallType, InvokeCallback
<1> QED
  BY <1>1

\* What the innermost callback is.
LEMMA TopIs ==
  ASSUME FlagInv, PInv, NEW event \in Events, NEW place, In(event, place)
  PROVE  /\ Self \in Obj /\ Self \in live
         /\ \/ One(event, Self, place) /\ (OneRight(Self) /\ Self # Server)
            \/ One(event, Self, place) /\ event = "DISCONNECT" /\ place = "begin"
            \/ \E a \in Obj \ {Server} :
                 /\ event = "DISCONNECT" /\ Self # Server
                 /\ TwoRight(a, Self) /\ Two(a, Self, place)
<1>1. /\ stack \in Seq(Frames) /\ stack # << >> /\ Len(stack) \in Nat \ {0}
      /\ Len(at) = Len(stack) /\ at[Len(stack)] = place
      /\ stack[Len(stack)].event = event /\ Self = stack[Len(stack)].obj
  BY AtLen DEF FlagInv, IInv, CallPart, CallType, In, Top, Self
<1>2. Self \in Obj /\ Self \in live
  <2>1. stack[Len(stack)] \in Frames /\ Len(stack) \in 1 .. Len(stack)
    BY <1>1, FrontOfStack
  <2> QED
    BY <1>1, <2>1 DEF FlagInv, IInv, CallPart, CallbackObjLive, Frames
<1>3. ASSUME NEW e, NEW o, NEW pl, One(e, o, pl)
      PROVE  e = event /\ o = Self /\ pl = place
  BY <1>1, <1>3 DEF One
<1>4. ASSUME NEW o \in Obj \ {Server}, OneRight(o)
      PROVE  o = Self /\ One(event, Self, place)
  <2>1. \E e, pl : One(e, o, pl)
    BY <1>4 DEF OneRight
  <2> QED
    BY <1>3, <2>1
<1>5. ASSUME NEW o \in Obj, One("DISCONNECT", o, "begin")
      PROVE  o = Self /\ One(event, Self, place) /\ event = "DISCONNECT" /\ place = "begin"
  BY <1>1, <1>5 DEF One
<1>6. ASSUME NEW a \in Obj \ {Server}, NEW b \in Obj \ {Server}, TwoRight(a, b)
      PROVE  b = Self /\ Two(a, Self, place) /\ event = "DISCONNECT"
  BY <1>1, <1>6 DEF TwoRight, Two
<1> QED
  BY <1>1, <1>2, <1>4, <1>5, <1>6 DEF PInv, StackRight

\* in_callback of the objects.
LEMMA CountOne ==
  ASSUME FlagInv, NEW o \in Obj, Len(stack) = 1, stack[1].obj = o
  PROVE  inCallback[o] = 1 /\ \A q \in Obj \ {o} : inCallback[q] = 0
<1>1. Occurs(stack, o) = {1} /\ \A q \in Obj \ {o} : Occurs(stack, q) = {}
  BY DEF Occurs
<1>2. Cardinality({1}) = 1 /\ Cardinality({}) = 0
  BY FS_Singleton, FS_EmptySet
<1>3. \A q \in Obj : inCallback[q] = Cardinality(Occurs(stack, q))
  BY CountedOccurs DEF FlagInv, IInv, CallPart
<1> QED
  BY <1>1, <1>2, <1>3

LEMMA CountTwo ==
  ASSUME FlagInv, NEW a \in Obj, NEW b \in Obj, a # b,
         Len(stack) = 2, stack[1].obj = a, stack[2].obj = b
  PROVE  inCallback[a] = 1 /\ inCallback[b] = 1
<1>1. Occurs(stack, a) = {1} /\ Occurs(stack, b) = {2}
  BY DEF Occurs
<1>2. Cardinality({1}) = 1 /\ Cardinality({2}) = 1
  BY FS_Singleton
<1>3. \A q \in Obj : inCallback[q] = Cardinality(Occurs(stack, q))
  BY CountedOccurs DEF FlagInv, IInv, CallPart
<1> QED
  BY <1>1, <1>2, <1>3

\* What a step must leave of an object for it to stay right.
KeepsObj(o) ==
  /\ live' = live /\ parent' = parent /\ userdata' = userdata
  /\ connected'[o] => connected[o]
  /\ mode'[o] = "server" => mode[o] = "server"
  /\ destroyReq'[o] => destroyReq[o] \/ (o \in live /\ Ends(o)')
  /\ parent[o] = Server /\ OutOff(o) => OutOff(o)'
  /\ Begins(o) => Begins(o)'
  /\ Ends(o) => Ends(o)'

LEMMA KeptObj == ASSUME NEW o \in Obj, ObjRight(o), KeepsObj(o) PROVE ObjRight(o)'
<1>1. Awaits(o) => Awaits(o)'
  BY DEF KeepsObj, Awaits
<1>2. Mates(o, userdata[o]) => Mates(o, userdata[o])'
  BY DEF KeepsObj, Mates, Pair
<1> QED
  BY <1>1, <1>2 DEF ObjRight, KeepsObj

LEMMA KeptServer ==
  ASSUME ServerRight, UNCHANGED <<parent, userdata>>,
         connected'[Server] => connected[Server], destroyReq'[Server] => destroyReq[Server],
         mode'[Server] = "client" => mode[Server] = "client"
  PROVE  ServerRight'
BY DEF ServerRight

\* The server is not connected to anybody, so that its end is the program's.
LEMMA NotServer ==
  ASSUME PInv, NEW o \in Obj, Scallback(o) => connected[o]
  PROVE  o # Server /\ ~Awaits(o)
BY DEF PInv, ServerRight, Scallback, Awaits

\* A step that calls nobody, changes no pair and connects nothing.
LEMMA QuietPipe ==
  ASSUME PInv, UNCHANGED <<live, parent, mode, destroyReq, stack, userdata, at, main>>,
         \A o \in Obj : connected'[o] => connected[o],
         \A o \in Obj : OutOff(o) => OutOff(o)',
         tail' # NoObj => tail # NoObj
  PROVE  PInv'
<1>1. \A e, o, place : One(e, o, place)' <=> One(e, o, place)
  BY DEF One
<1>2. \A a, b, place : Two(a, b, place)' <=> Two(a, b, place)
  BY DEF Two
<1>3. ASSUME NEW o \in Obj
      PROVE  (Begins(o) => Begins(o)') /\ (Ends(o)' <=> Ends(o))
  BY <1>1, <1>2 DEF Begins, Ends
<1>4. StackRight'
  <2>1. \A o \in Obj : OneRight(o) => OneRight(o)'
    BY <1>1, <1>3 DEF OneRight, Pair
  <2>2. \A a, b \in Obj : TwoRight(a, b) => TwoRight(a, b)'
    BY <1>2 DEF TwoRight, Pair
  <2> QED
    BY <1>1, <2>1, <2>2 DEF PInv, StackRight
<1>5. \A o \in Obj : ObjRight(o)'
  BY <1>3, KeptObj DEF PInv, KeepsObj
<1>6. ServerRight'
  BY KeptServer DEF PInv
<1> QED
  BY <1>4, <1>5, <1>6 DEF PInv, PipeTypes, MainRight

LEMMA QuietSteps ==
  ASSUME FlagInv, PInv,
         \/ PollStep \/ PeerStep \/ Exit \/ UNCHANGED pipeAll
         \/ \E o \in Obj : TimerDueStep(o)
         \/ ~exited /\ DisconnectTail /\ UNCHANGED pipeVars
  PROVE  PInv'
<1>1. CASE PollStep
  BY <1>1, QuietPipe DEF PollStep, Poll, pipeVars, objVars, callVars, OutOff
<1>2. CASE PeerStep
  <2>1. UNCHANGED <<objVars, callVars, loopVars, pipeVars>>
    BY <1>2 DEF PeerStep, Peer, PeerAnswers, PeerSends, PeerEnds, BacklogChanges
  <2> QED
    BY <2>1, QuietPipe DEF pipeVars, objVars, callVars, loopVars, OutOff
<1>3. CASE Exit \/ UNCHANGED pipeAll
  BY <1>3, QuietPipe DEF Exit, pipeAll, pipeVars, vars, OutOff
<1>4. ASSUME NEW o \in Obj, TimerDueStep(o)
      PROVE  PInv'
  BY <1>4, QuietPipe DEF TimerDueStep, TimerDue, pipeVars, objVars, callVars, OutOff
<1>5. CASE DisconnectTail /\ UNCHANGED pipeVars
  BY <1>5, QuietPipe DEF DisconnectTail, pipeVars, loopVars, OutOff, FlagInv, IInv, RestType
<1> QED
  BY <1>1, <1>2, <1>3, <1>4, <1>5

\* A step from a state in which no callback runs, that calls one or none, or goes back
\* to the loop: no object ends.
LEMMA Idle == ASSUME Len(stack) = 0 PROVE \A o : ~Ends(o) /\ ~Begins(o)
BY DEF Ends, Begins, One, Two

LEMMA IdleObj ==
  ASSUME PInv, Len(stack) = 0, NEW o \in live \ {Server}, o \in Obj
  PROVE  Awaits(o) \/ Mates(o, userdata[o])
BY Idle DEF PInv, ObjRight

\* sock_close() stops watchers of one object and starts none.
LEMMA CloseStops ==
  ASSUME NEW o, NEW s, NEW act, NEW pend, NEW c, SockClose(o, s, act, pend, c)
  PROVE  active' \subseteq act
BY DEF SockClose

LEMMA MainSteps ==
  ASSUME FlagInv, FlagInv', PInv, MainNew \/ MainListen
  PROVE  PInv'
<1>1. Server # NoObj /\ Len(stack) = 0
  BY DEF MainNew, MainListen, PInv, MainRight
<1>2. CASE MainNew
  <2>1. live = {} /\ live' = {Server} /\ main' = "listen"
        /\ UNCHANGED <<parent, mode, connected, destroyReq, active, stack, tail, userdata, at>>
    BY <1>2 DEF MainNew, New, callVars, loopVars, PInv, MainRight
  <2>2. ASSUME NEW o \in Obj PROVE ObjRight(o)'
    BY <1>1, <2>1, Idle DEF ObjRight, PInv, OutOff, Ends, One, Two
  <2>3. StackRight'
    BY <1>1, <2>1, AtLen DEF StackRight
  <2> QED
    BY <1>1, <2>1, <2>2, <2>3 DEF PInv, PipeTypes, ServerRight, MainRight
<1>3. CASE MainListen
  <2>0. "begin" \in Places /\ GoTo("begin")
    BY <1>3 DEF Places, MainListen
  <2>1. /\ at' \in Seq(Places) /\ Len(at') = Len(stack')
        /\ \A k \in 1 .. Len(stack') : k > 0 => at'[k] = "begin"
    BY <1>1, <2>0, Went
  <2>2. /\ live = {Server} /\ main' = "loop" /\ userdata' = userdata
        /\ UNCHANGED <<live, parent, connected, destroyReq, tail>>
        /\ mode' = [mode EXCEPT ![Server] = "server"]
    BY <1>3 DEF MainListen, PInv, MainRight, ListenInvalid, ListenFails, ListenStarts,
                 ListenNoFd, callVars
  <2>3. StackRight' /\ \A o : ~Ends(o)'
    <3>1. CASE InvokeCallback(Server, "DISCONNECT")
      <4>0. "DISCONNECT" \in Events
        BY DEF Events
      <4>1. Len(stack') = 1 /\ stack'[1] = [obj |-> Server, event |-> "DISCONNECT"]
        BY <1>1, <3>1, <4>0, Called
      <4>2. One("DISCONNECT", Server, "begin")'
        BY <2>1, <4>1 DEF One
      <4> QED
        BY <4>2 DEF StackRight, Ends, One, Two
    <3>2. CASE stack' = stack
      BY <1>1, <2>1, <3>2 DEF StackRight, Ends, One, Two
    <3> QED
      BY <1>3, <3>1, <3>2 DEF MainListen, ListenInvalid, ListenFails, ListenStarts, ListenNoFd,
                              DisconnectEvent, callVars
  <2>4. mode \in [Obj -> {"none", "client", "server"}]
    BY DEF FlagInv, IInv, RestType
  <2>5. ASSUME NEW o \in Obj PROVE ObjRight(o)'
    BY <1>1, <2>2, <2>3, <2>4, Idle DEF ObjRight, PInv, ServerRight, OutOff
  <2>6. ServerRight'
    BY <2>2, <2>4 DEF ServerRight, PInv
  <2> QED
    BY <2>1, <2>2, <2>3, <2>5, <2>6 DEF PInv, PipeTypes, MainRight
<1> QED
  BY <1>2, <1>3

-----------------------------------------------------------------------------
(* The loop calls a handler.                                                *)

\* Dispatch leaves the pairs alone; what it makes is nobody's partner.
LEMMA DispatchKept ==
  ASSUME FlagInv, PInv, DispatchStep
  PROVE  /\ Len(stack) = 0 /\ userdata' = userdata /\ main' = "loop" /\ main = "loop"
         /\ tail' = tail /\ GoTo("end") /\ live \subseteq live' /\ destroyReq' = destroyReq
<1>1. LoopRuns /\ live \subseteq live' /\ destroyReq' = destroyReq /\ tail' = tail
  BY DEF DispatchStep, Dispatch, Accept, InBeforeConnect, ReadData, ReadEnd, ConnectError,
         ConnectDone, ConnectTimeout, Dispatches, objVars, callVars
<1>2. userdata' = Kept(userdata)
  BY DEF DispatchStep
<1>3. userdata' = userdata
  BY <1>1, <1>2 DEF Kept, PInv, PipeTypes, ObjRight
<1> QED
  BY <1>1, <1>3 DEF DispatchStep, LoopRuns

\* w_in_cb() of the listening object.
LEMMA AcceptPairs ==
  ASSUME FlagInv, PInv, Len(stack) = 0, NEW o \in Obj, Accept(o), userdata' = userdata
  PROVE  (\A q \in Obj : ObjRight(q)') /\ ServerRight'
<1>1. o = Server /\ o \in live /\ UNCHANGED <<connected, destroyReq, stack>>
  BY Reachable DEF Accept, PInv, ObjRight, FlagInv, Watchers, callVars
<1>2. /\ mode \in [Obj -> {"none", "client", "server"}] /\ parent \in [Obj -> Obj \cup {NoObj}]
      /\ live \subseteq Obj
  BY DEF FlagInv, IInv, SockPart, SockType, RestType
<1>3. \A q : ~Ends(q)' /\ ~Ends(q) /\ ~Begins(q)
  BY <1>1, Idle DEF Ends, Begins, One, Two
<1>4. ASSUME NEW p \in Obj \ live, live' = live \cup {p}, mode' = [mode EXCEPT ![p] = "client"],
             parent' = [parent EXCEPT ![p] = o], active' = active \cup {<<p, "in">>, <<p, "out">>}
      PROVE  (\A q \in Obj : ObjRight(q)') /\ ServerRight'
  <2>1. ObjRight(p)'
    BY <1>1, <1>2, <1>3, <1>4 DEF ObjRight, Awaits, PInv
  <2>2. ASSUME NEW q \in Obj \ {p} PROVE ObjRight(q)'
    <3>1. Mates(q, userdata[q]) => Mates(q, userdata[q])'
      BY <1>2, <1>4 DEF Mates, Pair
    <3> QED
      BY <1>1, <1>2, <1>3, <1>4, <3>1 DEF ObjRight, PInv, OutOff, Awaits
  <2>3. ServerRight'
    BY <1>1, <1>2, <1>4 DEF PInv, ServerRight
  <2> QED
    BY <2>1, <2>2, <2>3
<1>5. CASE UNCHANGED <<live, mode, sock, parent, active, conn>>
  <2>1. \A q \in Obj : KeepsObj(q)
    BY <1>1, <1>3, <1>5 DEF KeepsObj, OutOff
  <2> QED
    BY <1>1, <1>5, <2>1, KeptObj, KeptServer DEF PInv
<1> QED
  BY <1>4, <1>5 DEF Accept

LEMMA DispatchPairs ==
  ASSUME FlagInv, FlagInv', PInv, DispatchStep
  PROVE  PInv'
<1>0. /\ Len(stack) = 0 /\ userdata' = userdata /\ main' = "loop" /\ main = "loop" /\ tail' = tail
      /\ GoTo("end") /\ live \subseteq live' /\ destroyReq' = destroyReq
  BY DispatchKept
<1>1. "end" \in Places
  BY DEF Places
<1>2. /\ at' \in Seq(Places) /\ Len(at') = Len(stack')
      /\ \A k \in 1 .. Len(stack') : k > 0 => at'[k] = "begin"
  BY <1>0, <1>1, Went
<1>3. (stack' = stack => StackRight') /\ MainRight' /\ PipeTypes'
  BY <1>0, <1>2 DEF StackRight, MainRight, PInv, PipeTypes
<1>4. ASSUME NEW o \in Obj, NEW e \in Events, InvokeCallback(o, e)
      PROVE  One(e, o, "begin")' /\ \A q : ~Ends(q)'
  <2>1. Len(stack') = 1 /\ stack'[1] = [obj |-> o, event |-> e]
    BY <1>0, <1>4, Called
  <2>2. One(e, o, "begin")'
    BY <1>2, <2>1 DEF One
  <2> QED
    BY <2>2 DEF Ends, One, Two
<1>5. ASSUME NEW o \in Obj, Accept(o)
      PROVE  PInv'
  <2>1. stack' = stack
    BY <1>5 DEF Accept, callVars
  <2> QED
    BY <1>0, <1>3, <1>5, <2>1, AcceptPairs DEF PInv
<1>6. ASSUME NEW o \in Obj, InBeforeConnect(o)
      PROVE  PInv'
  <2>1. UNCHANGED <<objVars, callVars, active>>
    BY <1>6 DEF InBeforeConnect
  <2>2. \A q \in Obj : KeepsObj(q)
    BY <1>0, <1>2, <2>1, Idle DEF KeepsObj, objVars, callVars, OutOff, Ends, Begins, One, Two
  <2>3. (\A q \in Obj : ObjRight(q)') /\ ServerRight'
    BY <1>0, <2>1, <2>2, KeptObj, KeptServer DEF objVars, PInv
  <2> QED
    BY <1>3, <2>1, <2>3 DEF PInv, callVars
<1>7. ASSUME NEW o \in Obj, ReadData(o)
      PROVE  PInv'
  <2>1. UNCHANGED <<live, mode, connected, parent, destroyReq, active>> /\ connected[o]
        /\ InvokeCallback(o, "READ") /\ o \in live
    BY <1>7, Reachable DEF ReadData, FlagInv, Watchers
  <2>2. o # Server /\ Pair(o, userdata[o])
    BY <1>0, <2>1, NotServer, IdleObj DEF Mates
  <2>3. One("READ", o, "begin")' /\ \A q : ~Ends(q)'
    BY <1>4, <2>1 DEF Events
  <2>4. StackRight'
    BY <1>0, <2>1, <2>2, <2>3 DEF StackRight, OneRight, Pair
  <2>5. \A q \in Obj : KeepsObj(q)
    BY <1>0, <2>1, <2>3, Idle DEF KeepsObj, OutOff
  <2>6. (\A q \in Obj : ObjRight(q)') /\ ServerRight'
    BY <1>0, <2>1, <2>5, KeptObj, KeptServer DEF PInv
  <2> QED
    BY <1>3, <2>4, <2>6 DEF PInv
<1>8. ASSUME NEW o \in Obj, ReadEnd(o) \/ ConnectError(o) \/ ConnectTimeout(o)
      PROVE  PInv'
  <2>1. UNCHANGED <<live, mode, connected, parent, destroyReq>> /\ active' \subseteq active
        /\ InvokeCallback(o, "DISCONNECT")
    BY <1>8, CloseStops DEF ReadEnd, ConnectError, ConnectTimeout, DisconnectEvent
  <2>2. One("DISCONNECT", o, "begin")' /\ \A q : ~Ends(q)'
    BY <1>4, <2>1 DEF Events
  <2>3. StackRight'
    BY <2>2 DEF StackRight
  <2>4. \A q \in Obj : KeepsObj(q)
    BY <1>0, <2>1, <2>2, Idle DEF KeepsObj, OutOff
  <2>5. (\A q \in Obj : ObjRight(q)') /\ ServerRight'
    BY <1>0, <2>1, <2>4, KeptObj, KeptServer DEF PInv
  <2> QED
    BY <1>3, <2>3, <2>5 DEF PInv
<1>9. ASSUME NEW o \in Obj, ConnectDone(o)
      PROVE  PInv'
  <2>1. /\ UNCHANGED <<live, mode, parent, destroyReq>>
        /\ connected' = [connected EXCEPT ![o] = TRUE]
        /\ active' = active \ {<<o, "out">>, <<o, "timer">>}
        /\ InvokeCallback(o, "CONNECT")
        /\ o \in live /\ sock[o] \in Fds /\ conn[sock[o]].state = "up"
        /\ <<o, "out">> \in pending
    BY <1>9, Reachable DEF ConnectDone, FlagInv, Watchers, Dispatches
  <2>2. mode[o] = "client" /\ ~OutOff(o) /\ connected \in [Obj -> BOOLEAN]
    BY <2>1 DEF FlagInv, IInv, RestType, Flags, KindRight, WatchersRight, OutOff
  <2>3. o # Server
    BY <2>2 DEF PInv, ServerRight
  <2>4. parent[o] = Server => userdata[o] = NoObj
    BY <2>2 DEF PInv, ObjRight
  <2>5. One("CONNECT", o, "begin")' /\ \A q : ~Ends(q)'
    BY <1>4, <2>1 DEF Events
  <2>6. parent[o] = Server => Begins(o)'
    BY <1>0, <2>1, <2>4, <2>5 DEF Begins, OutOff
  <2>7. StackRight'
    BY <2>1, <2>3, <2>5, <2>6 DEF StackRight, OneRight
  <2>8. ASSUME NEW q \in Obj \ {o} PROVE ObjRight(q)'
    <3>1. KeepsObj(q)
      BY <1>0, <2>1, <2>2, <2>5, Idle DEF KeepsObj, OutOff
    <3> QED
      BY <3>1, KeptObj DEF PInv
  <2>9. ObjRight(o)'
    <3>1. parent[o] # Server => Mates(o, userdata[o])
      BY <1>0, <2>1, <2>3, IdleObj DEF Awaits
    <3>2. parent[o] # Server => Mates(o, userdata[o])'
      BY <1>0, <2>1, <3>1 DEF Mates, Pair
    <3> QED
      BY <1>0, <2>1, <2>5, <2>6, <3>2, Idle DEF ObjRight, PInv, OutOff
  <2>10. ServerRight'
    BY <1>0, <2>1, <2>2, <2>3, KeptServer DEF PInv
  <2> QED
    BY <1>3, <2>7, <2>8, <2>9, <2>10 DEF PInv
<1> QED
  BY <1>5, <1>6, <1>7, <1>8, <1>9 DEF DispatchStep, Dispatch

-----------------------------------------------------------------------------
(* The callbacks.                                                           *)

\* The same callbacks run, and the innermost has come to another place.
LEMMA Moved ==
  ASSUME FlagInv, FlagInv', PInv, stack' = stack, NEW place \in Places, GoTo(place)
  PROVE  /\ at' \in Seq(Places)
         /\ \A e, o, pl : One(e, o, pl)' <=> pl = place /\ \E pl0 : One(e, o, pl0)
         /\ \A a, b, pl : Two(a, b, pl)' <=> pl = place /\ \E pl0 : Two(a, b, pl0)
<1>1. /\ at' \in Seq(Places) /\ Len(at') = Len(stack) /\ Len(at) = Len(stack)
      /\ \A k \in 1 .. Len(stack) : at'[k] = IF k < Len(stack) THEN at[k] ELSE place
  <2>1. \A k \in 1 .. Len(stack) : k < Len(stack) \/ k = Len(stack)
    BY DEF FlagInv, IInv, CallPart, CallType
  <2> QED
    BY <2>1, Went, AtLen
<1>2. \A e, o, pl : One(e, o, pl)' <=> pl = place /\ \E pl0 : One(e, o, pl0)
  BY <1>1 DEF One
<1>3. \A a, b, pl : Two(a, b, pl)' <=> pl = place /\ \E pl0 : Two(a, b, pl0)
  BY <1>1 DEF Two
<1> QED
  BY <1>1, <1>2, <1>3

\* There is one list of callbacks.
LEMMA OnlyOne ==
  ASSUME NEW e, NEW o, NEW place, One(e, o, place)
  PROVE  /\ \A f, q, pl : One(f, q, pl) <=> f = e /\ q = o /\ pl = place
         /\ \A a, b, pl : ~Two(a, b, pl)
         /\ Len(stack) = 1 /\ stack[1].obj = o
BY DEF One, Two

LEMMA OnlyTwo ==
  ASSUME NEW a, NEW b, NEW place, Two(a, b, place)
  PROVE  /\ \A p, q, pl : Two(p, q, pl) <=> p = a /\ q = b /\ pl = place
         /\ \A e, o, pl : ~One(e, o, pl)
         /\ Len(stack) = 2 /\ stack[1].obj = a /\ stack[2].obj = b
BY DEF One, Two

\* scallback(), CONNECT: netsocket_new() ...
LEMMA NewPairs ==
  ASSUME FlagInv, FlagInv', PInv, NewPartner
  PROVE  PInv'
<1>0. PICK a : a = Self
  OBVIOUS
<1>1. In("CONNECT", "begin") /\ Scallback(a) /\ "CONNECT" \in Events /\ "connect" \in Places
  BY <1>0 DEF NewPartner, Events, Places
<1>2. One("CONNECT", a, "begin") /\ OneRight(a) /\ a # Server /\ a \in Obj /\ a \in live
  BY <1>0, <1>1, TopIs
<1>3. parent[a] = Server /\ Begins(a)
  BY <1>1, <1>2, OnlyOne DEF Scallback, OneRight, PInv, ObjRight
<1>4. PICK p \in Obj : New(p) /\ userdata' = [userdata EXCEPT ![p] = Self, ![Self] = p]
  BY DEF NewPartner
<1>5. /\ userdata' = [userdata EXCEPT ![p] = a, ![a] = p] /\ p \notin live /\ live' = live \cup {p}
      /\ UNCHANGED <<mode, connected, parent, destroyReq, active, stack, tail, main>>
      /\ GoTo("connect")
  BY <1>0, <1>4 DEF New, NewPartner, callVars, loopVars
<1>6. /\ at' \in Seq(Places) /\ One("CONNECT", a, "connect")'
  BY <1>1, <1>2, <1>5, Moved
<1>7. \A q : ~Ends(q)' /\ ~Ends(q) /\ (Begins(q) => q = a)
  BY <1>2, <1>6, OnlyOne DEF Ends, Begins, One, Two
<1>8. /\ main = "loop" /\ Server \in live /\ p # a /\ p # Server
      /\ parent[p] = NoObj /\ userdata[p] = NoObj
      /\ userdata \in [Obj -> Obj \cup {NoObj}]
  BY <1>2, <1>5 DEF PInv, MainRight, ObjRight, PipeTypes, One
<1>9. userdata'[a] = p /\ userdata'[p] = a /\ (\A q \in Obj \ {a, p} : userdata'[q] = userdata[q])
  BY <1>2, <1>5, <1>8
<1>10. ObjRight(a)' /\ ObjRight(p)'
  <2>1. Mates(a, p)' /\ Mates(p, a)'
    BY <1>2, <1>3, <1>5, <1>8, <1>9 DEF Mates, Pair
  <2> QED
    BY <1>2, <1>3, <1>5, <1>7, <1>8, <1>9, <2>1 DEF ObjRight, PInv, Begins, OutOff
<1>11. ASSUME NEW q \in Obj \ {a, p} PROVE ObjRight(q)'
  <2>1. ASSUME Mates(q, userdata[q]) PROVE Mates(q, userdata[q])'
    <3>1. PICK r : r = userdata[q]
      OBVIOUS
    <3>2. r \in Obj \ {a, p} /\ r \in live /\ userdata[r] = q
      BY <1>3, <1>5, <2>1, <3>1 DEF Mates, Pair, Begins, FlagInv, IInv, SockPart, SockType
    <3>3. userdata'[q] = r /\ userdata'[r] = q
      BY <1>9, <3>1, <3>2
    <3> QED
      BY <1>5, <2>1, <3>1, <3>2, <3>3 DEF Mates, Pair
  <2> QED
    BY <1>5, <1>7, <1>8, <1>9, <2>1 DEF ObjRight, PInv, OutOff, Awaits
<1>12. StackRight'
  BY <1>2, <1>3, <1>5, <1>6, <1>9 DEF StackRight, OneRight, Pair
<1>13. ServerRight' /\ MainRight' /\ PipeTypes'
  BY <1>2, <1>5, <1>6, <1>8, <1>9 DEF PInv, ServerRight, MainRight, PipeTypes
<1> QED
  BY <1>10, <1>11, <1>12, <1>13 DEF PInv

\* ... and netsocket_connect().
LEMMA ConnectPairs ==
  ASSUME FlagInv, FlagInv', PInv, ConnectPartner
  PROVE  PInv'
<1>0. PICK a, p : a = Self /\ p = userdata[a]
  OBVIOUS
<1>1. /\ In("CONNECT", "connect")
      /\ "CONNECT" \in Events /\ "DISCONNECT" \in Events /\ "end" \in Places
  BY DEF ConnectPartner, Events, Places
<1>2. One("CONNECT", a, "connect") /\ OneRight(a) /\ a # Server /\ a \in Obj /\ a \in live
  BY <1>0, <1>1, TopIs
<1>3. parent[a] = Server /\ Pair(a, p)
  BY <1>0, <1>2, OnlyOne DEF OneRight
<1>4. \A q : ~Ends(q) /\ ~Begins(q)
  BY <1>2, OnlyOne DEF Ends, Begins
<1>5. /\ p \in live /\ p \in Obj /\ p # a /\ p # Server
      /\ parent[p] = NoObj /\ userdata[p] = a /\ ~destroyReq[a]
  BY <1>0, <1>2, <1>3, <1>4 DEF PInv, ObjRight, Awaits, Mates, Pair, ServerRight, FlagInv, IInv,
                                SockPart, SockType
<1>6. Partner = p /\ UNCHANGED <<userdata, main>> /\ GoTo("end")
  BY <1>0 DEF ConnectPartner, Partner
<1> DEFINE Opened ==
      /\ UNCHANGED <<live, parent, destroyReq, tail>>
      /\ \A q \in Obj : connected'[q] => connected[q]
      /\ \A q \in Obj \ {p} : mode'[q] = mode[q] /\ (OutOff(q) => OutOff(q)')
      /\ mode'[p] = "client"
      /\ stack' = stack \/ InvokeCallback(p, "DISCONNECT")
<1>7. Opened
  <2>1. mode \in [Obj -> {"none", "client", "server"}] /\ connected \in [Obj -> BOOLEAN]
    BY DEF FlagInv, IInv, RestType
  <2>2. CASE ConnectInvalid(p)
    <3>1. active' \subseteq active
      BY <2>2, CloseStops DEF ConnectInvalid, DisconnectEvent
    <3> QED
      BY <1>5, <2>1, <2>2, <3>1 DEF ConnectInvalid, DisconnectEvent, OutOff
  <2>3. CASE ConnectNoFd(p)
    BY <1>5, <2>1, <2>3 DEF ConnectNoFd, callVars, loopVars, OutOff
  <2>4. ASSUME NEW fd \in FreeFds, ConnectStarts(p, fd)
        PROVE  Opened
    BY <1>5, <2>1, <2>4 DEF ConnectStarts, callVars, WatchersOf, OutOff
  <2>5. ASSUME NEW fd \in FreeFds, ConnectFails(p, fd)
        PROVE  Opened
    <3>1. active' \subseteq active \cup WatchersOf(p)
      BY <2>5, CloseStops DEF ConnectFails
    <3> QED
      BY <1>5, <2>1, <2>5, <3>1 DEF ConnectFails, callVars, WatchersOf, OutOff
  <2> QED
    BY <1>6, <2>2, <2>3, <2>4, <2>5 DEF ConnectPartner
<1>8. /\ at' \in Seq(Places) /\ \A q \in Obj : ~Ends(q)' \/ Two(a, p, "begin")'
      /\ StackRight'
  <2>1. CASE stack' = stack
    <3>1. at' \in Seq(Places) /\ One("CONNECT", a, "end")'
      BY <1>1, <1>2, <1>6, <2>1, Moved
    <3>2. \A q : ~Ends(q)'
      <4>1. ~destroyReq'[a]
        BY <1>5, <1>7
      <4> QED
        BY <3>1, <4>1 DEF Ends, One, Two
    <3>3. OneRight(a)'
      BY <1>3, <1>5, <1>6, <1>7, <3>1 DEF OneRight, Pair
    <3> QED
      BY <1>2, <3>1, <3>2, <3>3 DEF StackRight
  <2>2. CASE InvokeCallback(p, "DISCONNECT")
    <3>1. Len(stack) = 1 /\ stack[1] = [obj |-> a, event |-> "CONNECT"] /\ Len(stack') = 2
          /\ stack'[2] = [obj |-> p, event |-> "DISCONNECT"] /\ stack'[1] = stack[1]
      BY <1>1, <1>2, <1>5, <2>2, Called DEF One
    <3>2. at' \in Seq(Places) /\ Len(at') = 2 /\ at'[1] = "end" /\ at'[2] = "begin"
      BY <1>1, <1>6, <3>1, Went
    <3>3. Two(a, p, "begin")'
      BY <3>1, <3>2 DEF Two
    <3>4. TwoRight(a, p)'
      BY <1>3, <1>5, <1>6, <1>7, <3>3 DEF TwoRight, Pair
    <3> QED
      BY <1>2, <1>5, <3>2, <3>3, <3>4 DEF StackRight
  <2> QED
    BY <1>7, <2>1, <2>2
<1>9. \A q \in Obj : ObjRight(q)'
  <2>1. \A q \in Obj : KeepsObj(q)
    BY <1>4, <1>5, <1>6, <1>7 DEF KeepsObj
  <2> QED
    BY <2>1, KeptObj DEF PInv
<1>10. ServerRight'
  BY <1>5, <1>6, <1>7, KeptServer DEF PInv
<1>11. PipeTypes' /\ MainRight'
  BY <1>2, <1>6, <1>7, <1>8 DEF PInv, PipeTypes, MainRight, One
<1> QED
  BY <1>8, <1>9, <1>10, <1>11 DEF PInv

\* userdata of what stays live stays.
LEMMA KeptSame == ASSUME PInv, live' = live, userdata' = Kept(userdata) PROVE userdata' = userdata
BY DEF PInv, PipeTypes, Kept, ObjRight

\* An object is freed whose partner, if it still has one, ends too.
LEMMA FreePairs ==
  ASSUME FlagInv, PInv, NEW o \in Obj \ {Server}, o \in live, DestroyNow(o),
         userdata' = Kept(userdata),
         \A q : ~Begins(q),
         \A q \in Obj \ {o} : (Ends(q) => Ends(q)') /\ (Pair(q, o) => Ends(q)')
  PROVE  /\ \A q \in Obj : ObjRight(q)'
         /\ ServerRight' /\ live' = live \ {o} /\ userdata' \in [Obj -> Obj \cup {NoObj}]
         /\ \A q \in Obj \ {o} : /\ userdata'[q] = userdata[q] /\ parent'[q] = parent[q]
                                 /\ destroyReq'[q] = destroyReq[q]
<1>1. /\ live' = live \ {o}
      /\ mode' = [mode EXCEPT ![o] = "none"] /\ connected' = [connected EXCEPT ![o] = FALSE]
      /\ parent' = [parent EXCEPT ![o] = NoObj] /\ destroyReq' = [destroyReq EXCEPT ![o] = FALSE]
  BY DEF DestroyNow, Free
<1>2. active' \subseteq active
  BY CloseStops DEF DestroyNow
<1>3. /\ mode \in [Obj -> {"none", "client", "server"}] /\ connected \in [Obj -> BOOLEAN]
      /\ parent \in [Obj -> Obj \cup {NoObj}] /\ destroyReq \in [Obj -> BOOLEAN]
      /\ userdata \in [Obj -> Obj \cup {NoObj}] /\ live \subseteq Obj
  BY DEF FlagInv, IInv, RestType, SockPart, SockType, PInv, PipeTypes
<1>4. /\ userdata' \in [Obj -> Obj \cup {NoObj}] /\ userdata'[o] = NoObj
      /\ \A q \in Obj \ {o} : userdata'[q] = userdata[q]
  BY <1>1, <1>3 DEF Kept, PInv, ObjRight
<1>5. ObjRight(o)'
  BY <1>1, <1>3, <1>4 DEF ObjRight
<1>6. ASSUME NEW q \in Obj \ {o} PROVE ObjRight(q)'
  <2>1. ASSUME q \in live, Mates(q, userdata[q]) PROVE Mates(q, userdata[q])' \/ Ends(q)'
    <3>1. PICK r : r = userdata[q]
      OBVIOUS
    <3>2. r \in Obj /\ r \in live /\ userdata[r] = q /\ Pair(q, r)
      BY <1>3, <2>1, <3>1 DEF Mates, Pair
    <3>3. CASE r = o
      BY <3>2, <3>3
    <3>4. CASE r # o
      <4>1. userdata'[q] = r /\ userdata'[r] = q /\ parent'[r] = parent[r] /\ parent'[q] = parent[q]
        BY <1>1, <1>3, <1>4, <3>1, <3>2, <3>4
      <4> QED
        BY <1>1, <2>1, <3>1, <3>2, <3>4, <4>1 DEF Mates, Pair
    <3> QED
      BY <3>3, <3>4
  <2>2. /\ parent'[q] = parent[q] /\ mode'[q] = mode[q] /\ connected'[q] = connected[q]
        /\ destroyReq'[q] = destroyReq[q] /\ userdata'[q] = userdata[q]
        /\ q \in live' <=> q \in live
    BY <1>1, <1>3, <1>4
  <2>3. OutOff(q) => OutOff(q)'
    BY <1>2 DEF OutOff
  <2>4. Awaits(q) => Awaits(q)'
    BY <2>2 DEF Awaits
  <2> QED
    BY <2>1, <2>2, <2>3, <2>4 DEF ObjRight, PInv
<1>7. ServerRight'
  BY <1>1, <1>3, <1>4 DEF PInv, ServerRight
<1> QED
  BY <1>1, <1>3, <1>4, <1>5, <1>6, <1>7

\* netsocket_destroy() of an object that ends, put off.
LEMMA AskPairs ==
  ASSUME FlagInv, PInv, NEW o \in Obj \ {Server}, o \in live, Destroy(o), inCallback[o] = 1,
         userdata' = Kept(userdata),
         \A q : ~Begins(q),
         Ends(o)', \A q \in Obj : Ends(q) => Ends(q)'
  PROVE  /\ (\A q \in Obj : ObjRight(q)') /\ ServerRight'
         /\ UNCHANGED <<live, parent, userdata>> /\ destroyReq' = [destroyReq EXCEPT ![o] = TRUE]
<1>1. /\ UNCHANGED <<live, parent, mode, connected, active>>
      /\ destroyReq' = [destroyReq EXCEPT ![o] = TRUE]
  BY DEF Destroy, loopVars
<1>2. userdata' = userdata
  BY <1>1, KeptSame
<1>3. destroyReq \in [Obj -> BOOLEAN]
  BY DEF FlagInv, IInv, RestType
<1>4. \A q \in Obj : KeepsObj(q)
  BY <1>1, <1>2, <1>3 DEF KeepsObj, OutOff
<1>5. \A q \in Obj : ObjRight(q)'
  BY <1>4, KeptObj DEF PInv
<1>6. ServerRight'
  BY <1>1, <1>2, <1>3, KeptServer DEF PInv
<1> QED
  BY <1>1, <1>2, <1>5, <1>6

\* Either callback, DISCONNECT: netsocket_destroy() of the other side ...
LEMMA DestroyPartnerPairs ==
  ASSUME FlagInv, FlagInv', PInv, DestroyPartner
  PROVE  PInv'
<1>0. PICK b, p : b = Self /\ p = Partner /\ p = userdata[b]
  BY DEF Partner
<1>1. /\ In("DISCONNECT", "begin") /\ (Scallback(b) => connected[b]) /\ Destroy(p)
      /\ userdata' = Kept(userdata) /\ GoTo("self") /\ UNCHANGED <<main, stack>>
      /\ "DISCONNECT" \in Events /\ "self" \in Places
  BY <1>0 DEF DestroyPartner, Destroy, callVars, Events, Places
<1>2. /\ b \in Obj /\ b \in live /\ b # Server /\ ~Awaits(b)
      /\ p \in live /\ p \in Obj
  <2>1. b \in Obj /\ b \in live
    BY <1>0, <1>1, TopIs
  <2>2. b # Server /\ ~Awaits(b)
    BY <1>1, <2>1, NotServer
  <2>3. p \in live /\ p \in Obj
    BY <1>1 DEF Destroy, FlagInv, IInv, RestType, SockPart, SockType
  <2> QED
    BY <2>1, <2>2, <2>3
<1>3. main = "loop" /\ Server \in live
  BY <1>1, AtLen DEF In, PInv, MainRight
<1>4. CASE One("DISCONNECT", b, "begin")
  <2>1. \A q : ~Ends(q) /\ ~Begins(q)
    BY <1>4, OnlyOne DEF Ends, Begins
  <2>2. Mates(b, p)
    BY <1>0, <1>2, <2>1 DEF PInv, ObjRight
  <2>3. p # b /\ p # Server
    BY <1>2, <2>2 DEF Mates, Pair, PInv, ObjRight, ServerRight
  <2>4. DestroyNow(p)
    BY <1>1, <1>2, <1>4, <2>3, CountOne, OnlyOne DEF Destroy
  <2>5. at' \in Seq(Places) /\ One("DISCONNECT", b, "self")'
    BY <1>1, <1>4, Moved
  <2>6. \A q : Pair(q, p) => q = b
    BY <2>2 DEF Mates, Pair
  <2>7. Ends(b)'
    BY <2>5 DEF Ends
  <2>8. /\ (\A q \in Obj : ObjRight(q)') /\ ServerRight' /\ live' = live \ {p}
        /\ userdata' \in [Obj -> Obj \cup {NoObj}] /\ userdata'[b] = userdata[b]
    BY <1>1, <1>2, <2>1, <2>3, <2>4, <2>6, <2>7, FreePairs
  <2>9. StackRight'
    BY <1>0, <1>2, <2>5, <2>8 DEF StackRight, OneRight
  <2> QED
    BY <1>1, <1>3, <2>3, <2>5, <2>8, <2>9 DEF PInv, PipeTypes, MainRight
<1>5. ASSUME NEW a \in Obj \ {Server}, TwoRight(a, b), Two(a, b, "begin")
      PROVE  PInv'
  <2>1. p = a /\ a # b /\ parent[a] = Server /\ parent[b] = NoObj /\ Pair(b, a)
    BY <1>0, <1>5 DEF TwoRight, Pair
  <2>2. inCallback[p] = 1
    BY <1>2, <1>5, <2>1, CountTwo, OnlyTwo
  <2>3. at' \in Seq(Places) /\ Two(a, b, "self")'
    BY <1>1, <1>5, Moved
  <2>4. Ends(a)' /\ \A q : ~Ends(q) /\ ~Begins(q)
    BY <1>2, <1>5, <2>3, OnlyTwo DEF Ends, Begins
  <2>5. /\ (\A q \in Obj : ObjRight(q)') /\ ServerRight' /\ UNCHANGED <<live, parent, userdata>>
        /\ destroyReq' = [destroyReq EXCEPT ![a] = TRUE]
    BY <1>1, <1>2, <1>5, <2>1, <2>2, <2>4, AskPairs
  <2>6. destroyReq'[a]
    BY <2>5 DEF FlagInv, IInv, RestType
  <2>7. StackRight'
    BY <1>2, <1>5, <2>1, <2>3, <2>5, <2>6 DEF StackRight, TwoRight, Pair
  <2> QED
    BY <1>1, <1>3, <2>3, <2>5, <2>7 DEF PInv, PipeTypes, MainRight
<1> QED
  BY <1>0, <1>1, <1>4, <1>5, TopIs

\* ... and of this one.
LEMMA DestroySelfPairs ==
  ASSUME FlagInv, FlagInv', PInv, DestroySelf
  PROVE  PInv'
<1>0. PICK b : b = Self
  OBVIOUS
<1>1. /\ In("DISCONNECT", "self") /\ Destroy(b)
      /\ userdata' = Kept(userdata) /\ GoTo("end") /\ UNCHANGED <<main, stack>>
      /\ "DISCONNECT" \in Events /\ "end" \in Places
  BY <1>0 DEF DestroySelf, Destroy, callVars, Events, Places
<1>2. b \in Obj /\ b \in live
  BY <1>0, <1>1, TopIs
<1>3. main = "loop" /\ Server \in live
  BY <1>1, AtLen DEF In, PInv, MainRight
<1>4. destroyReq \in [Obj -> BOOLEAN]
  BY DEF FlagInv, IInv, RestType
<1>5. CASE b # Server /\ OneRight(b) /\ One("DISCONNECT", b, "self")
  <2>1. userdata[b] \notin live /\ inCallback[b] = 1
    BY <1>2, <1>5, CountOne, OnlyOne DEF OneRight
  <2>2. at' \in Seq(Places) /\ One("DISCONNECT", b, "end")'
    BY <1>1, <1>5, Moved
  <2>3. Ends(b)' /\ \A q : (Ends(q) => q = b) /\ ~Begins(q)
    BY <1>5, <2>2, OnlyOne DEF Ends, Begins
  <2>4. /\ (\A q \in Obj : ObjRight(q)') /\ ServerRight' /\ UNCHANGED <<live, parent, userdata>>
        /\ destroyReq' = [destroyReq EXCEPT ![b] = TRUE]
    BY <1>1, <1>2, <1>5, <2>1, <2>3, AskPairs
  <2>5. StackRight'
    BY <1>2, <1>4, <1>5, <2>1, <2>2, <2>4 DEF StackRight, OneRight
  <2> QED
    BY <1>1, <1>3, <2>2, <2>4, <2>5 DEF PInv, PipeTypes, MainRight
<1>6. ASSUME NEW a \in Obj \ {Server}, b # Server, TwoRight(a, b), Two(a, b, "self")
      PROVE  PInv'
  <2>1. a # b /\ parent[a] = Server /\ parent[b] = NoObj /\ Pair(b, a) /\ destroyReq[a]
    BY <1>6, OnlyTwo DEF TwoRight
  <2>2. inCallback[b] = 1
    BY <1>2, <1>6, <2>1, CountTwo, OnlyTwo
  <2>3. at' \in Seq(Places) /\ Two(a, b, "end")'
    BY <1>1, <1>6, Moved
  <2>4. Ends(b)' /\ Ends(a)' /\ \A q : (Ends(q) => q \in {a, b}) /\ ~Begins(q)
    BY <1>2, <1>6, <2>3, OnlyTwo DEF Ends, Begins
  <2>5. /\ (\A q \in Obj : ObjRight(q)') /\ ServerRight' /\ UNCHANGED <<live, parent, userdata>>
        /\ destroyReq' = [destroyReq EXCEPT ![b] = TRUE]
    BY <1>1, <1>2, <1>6, <2>2, <2>4, AskPairs
  <2>6. StackRight'
    BY <1>2, <1>4, <1>6, <2>1, <2>3, <2>5 DEF StackRight, TwoRight, Pair
  <2> QED
    BY <1>1, <1>3, <2>3, <2>5, <2>6 DEF PInv, PipeTypes, MainRight
<1> QED
  <2>1. "self" # "begin"
    OBVIOUS
  <2> QED
    BY <1>0, <1>1, <1>5, <1>6, <2>1, TopIs

\* The innermost callback returns.
LEMMA Popped ==
  ASSUME FlagInv, PInv, stack # << >>, stack' = SubSeq(stack, 1, Len(stack) - 1),
         at' = SubSeq(at, 1, Len(at) - 1)
  PROVE  /\ at' \in Seq(Places)
         /\ \A e, o, pl : One(e, o, pl) => Len(stack') = 0 /\ Len(at') = 0
         /\ \A a, b, pl : Two(a, b, pl) => One("CONNECT", a, "end")'
<1>1. /\ stack \in Seq(Frames) /\ at \in Seq(Places)
      /\ Len(at) = Len(stack) /\ Len(stack) \in Nat \ {0}
  BY AtLen DEF FlagInv, IInv, CallPart, CallType, PInv, PipeTypes
<1>2. /\ Len(stack') = Len(stack) - 1 /\ Len(at') = Len(at) - 1 /\ at' \in Seq(Places)
      /\ \A k \in 1 .. Len(stack) - 1 : stack'[k] = stack[k] /\ at'[k] = at[k]
  BY <1>1
<1>3. ASSUME NEW a, NEW b, NEW pl, Two(a, b, pl) PROVE One("CONNECT", a, "end")'
  BY <1>2, <1>3 DEF One, Two
<1>4. ASSUME NEW e, NEW o, NEW pl, One(e, o, pl) PROVE Len(stack') = 0 /\ Len(at') = 0
  BY <1>2, <1>4 DEF One
<1> QED
  BY <1>2, <1>3, <1>4

LEMMA ReturnPairs ==
  ASSUME FlagInv, FlagInv', PInv, Return
  PROVE  PInv'
<1>0. PICK o : o = Self
  OBVIOUS
<1>1. /\ CallbackReturn /\ stack # << >> /\ userdata' = Kept(userdata) /\ main' = main
      /\ IF destroyReq[o] /\ inCallback[o] = 1
         THEN DestroyNow(o) ELSE UNCHANGED <<objVars, sock, loopVars, conn>>
      /\ stack' = SubSeq(stack, 1, Len(stack) - 1) /\ at' = SubSeq(at, 1, Len(at) - 1)
  BY <1>0 DEF Return, CallbackReturn, Self, Top
<1>2. PICK event \in Events, place \in Places :
        /\ In(event, place)
        /\ \/ place = "end"
           \/ event = "READ" /\ place = "begin"
           \/ event = "CONNECT" /\ place = "begin" /\ ~Scallback(o)
  BY <1>0 DEF Return, Events, Places
<1>3. o \in Obj /\ o \in live
  BY <1>0, <1>2, TopIs
<1>4. at' \in Seq(Places)
  BY <1>1, Popped
<1>5. main = "loop" /\ Server \in live
  BY <1>1, AtLen DEF PInv, MainRight
<1>6. CASE o # Server /\ OneRight(o) /\ One(event, o, place)
  <2>1. StackRight' /\ \A q : ~Ends(q)' /\ ~Begins(q)'
    <3>1. Len(stack') = 0 /\ Len(at') = 0
      BY <1>1, <1>6, Popped
    <3> QED
      BY <3>1 DEF StackRight, Ends, Begins, One, Two
  <2>2. inCallback[o] = 1
    BY <1>3, <1>6, CountOne, OnlyOne
  <2>3. \A q : ~Begins(q)
    BY <1>2, <1>3, <1>6, OnlyOne DEF Begins, Scallback
  <2>4. CASE destroyReq[o]
    <3>1. DestroyNow(o)
      BY <1>1, <2>2, <2>4
    <3>2. userdata[o] \notin live
      <4>1. Ends(o)
        BY <1>3, <2>4 DEF PInv, ObjRight
      <4> QED
        BY <1>2, <1>6, <2>4, <4>1, OnlyOne DEF OneRight, Ends
    <3>3. \A q : (Ends(q) => q = o) /\ ~Pair(q, o)
      BY <1>6, <3>2, OnlyOne DEF Ends, Pair
    <3>4. /\ (\A q \in Obj : ObjRight(q)') /\ ServerRight' /\ live' = live \ {o}
          /\ userdata' \in [Obj -> Obj \cup {NoObj}]
      BY <1>1, <1>3, <1>6, <2>3, <3>1, <3>3, FreePairs
    <3> QED
      BY <1>1, <1>4, <1>5, <1>6, <2>1, <3>4 DEF PInv, PipeTypes, MainRight
  <2>5. CASE ~destroyReq[o]
    <3>1. UNCHANGED <<objVars, sock, loopVars, conn>>
      BY <1>1, <2>5
    <3>2. userdata' = userdata
      BY <1>1, <3>1, KeptSame DEF objVars
    <3>3. \A q : ~Ends(q)
      BY <1>2, <1>6, <2>5, OnlyOne DEF Ends, OneRight
    <3>4. \A q \in Obj : KeepsObj(q)
      BY <2>3, <3>1, <3>2, <3>3 DEF KeepsObj, objVars, loopVars, OutOff
    <3>5. (\A q \in Obj : ObjRight(q)') /\ ServerRight'
      BY <3>1, <3>2, <3>4, KeptObj, KeptServer DEF PInv, objVars
    <3> QED
      BY <1>1, <1>4, <1>5, <2>1, <3>1, <3>2, <3>5 DEF PInv, PipeTypes, MainRight, objVars
  <2> QED
    BY <2>4, <2>5
<1>7. ASSUME NEW a \in Obj \ {Server}, o # Server, TwoRight(a, o), Two(a, o, place),
             event = "DISCONNECT"
      PROVE  PInv'
  <2>1. /\ a # o /\ parent[a] = Server /\ parent[o] = NoObj /\ Pair(o, a)
        /\ destroyReq[a] /\ destroyReq[o] /\ place = "end"
    BY <1>2, <1>7, OnlyTwo DEF TwoRight
  <2>2. inCallback[o] = 1
    BY <1>3, <1>7, <2>1, CountTwo, OnlyTwo
  <2>3. DestroyNow(o)
    BY <1>1, <2>1, <2>2
  <2>4. One("CONNECT", a, "end")'
    BY <1>1, <1>7, Popped
  <2>5. destroyReq'[a]
    BY <2>1, <2>3 DEF DestroyNow, Free, FlagInv, IInv, RestType
  <2>6. Ends(a)' /\ \A q : (Ends(q) => q \in {a, o}) /\ ~Begins(q) /\ (Pair(q, o) => q = a)
    BY <1>7, <2>1, <2>4, <2>5, OnlyTwo DEF Ends, Begins, Pair
  <2>7. /\ (\A q \in Obj : ObjRight(q)') /\ ServerRight' /\ live' = live \ {o}
        /\ userdata' \in [Obj -> Obj \cup {NoObj}]
        /\ userdata'[a] = userdata[a] /\ parent'[a] = parent[a]
    BY <1>1, <1>3, <1>7, <2>1, <2>3, <2>6, FreePairs
  <2>8. StackRight'
    BY <2>1, <2>4, <2>5, <2>7 DEF StackRight, OneRight, Pair
  <2> QED
    BY <1>1, <1>4, <1>5, <1>7, <2>7, <2>8 DEF PInv, PipeTypes, MainRight
<1> QED
  BY <1>0, <1>2, <1>6, <1>7, TopIs

-----------------------------------------------------------------------------
(* The pairs stay.                                                          *)

LEMMA PairInit == PipeInit => PInv
<1> SUFFICES ASSUME PipeInit PROVE PInv
  OBVIOUS
<1>1. Len(stack) = 0 /\ Len(at) = 0 /\ live = {} /\ \A o : ~Ends(o)
  BY DEF PipeInit, Init, Ends, One, Two
<1> QED
  BY <1>1 DEF PipeInit, Init, PInv, PipeTypes, StackRight, ObjRight, ServerRight, MainRight

LEMMA PairNext ==
  ASSUME FlagInv, FlagInv', PInv, [PipeNext]_pipeAll
  PROVE  PInv'
<1>1. CASE MainNew \/ MainListen
  BY <1>1, MainSteps
<1>2. CASE NewPartner
  BY <1>2, NewPairs
<1>3. CASE ConnectPartner
  BY <1>3, ConnectPairs
<1>4. CASE DestroyPartner
  BY <1>4, DestroyPartnerPairs
<1>5. CASE DestroySelf
  BY <1>5, DestroySelfPairs
<1>6. CASE Return
  BY <1>6, ReturnPairs
<1>7. CASE DispatchStep
  BY <1>7, DispatchPairs
<1>8. CASE Exit \/ UNCHANGED pipeAll \/ (~exited /\ DisconnectTail /\ UNCHANGED pipeVars)
  BY <1>8, QuietSteps
<1>9. CASE PollStep \/ PeerStep \/ \E o \in Obj : TimerDueStep(o)
  BY <1>9, QuietSteps
<1> QED
  BY <1>1, <1>2, <1>3, <1>4, <1>5, <1>6, <1>7, <1>8, <1>9 DEF PipeNext, Callback

LEMMA PairInvariance == ASSUME NoSock \notin Fds PROVE PipeSpec => [](FlagInv /\ PInv)
<1>1. FlagInv /\ PInv /\ FlagInv' /\ [PipeNext]_pipeAll => PInv'
  BY PairNext
<1> QED
  BY <1>1, PairInit, PipeFlags, PTL DEF PipeSpec, pipeAll

-----------------------------------------------------------------------------
(* What is claimed.                                                         *)

\* exited is a flag.
LEMMA ExitedIsFlag == PipeSpec => [](exited \in BOOLEAN)
<1>1. PipeInit => exited \in BOOLEAN
  BY DEF PipeInit
<1>2. exited \in BOOLEAN /\ [PipeNext]_pipeAll => (exited \in BOOLEAN)'
  <2> SUFFICES ASSUME exited \in BOOLEAN, [PipeNext]_pipeAll PROVE exited' \in BOOLEAN
    OBVIOUS
  <2>1. CASE MainNew \/ MainListen
    BY <2>1 DEF MainNew, MainListen
  <2>2. CASE NewPartner \/ ConnectPartner \/ DestroyPartner \/ DestroySelf \/ Exit \/ Return
    BY <2>2 DEF NewPartner, ConnectPartner, DestroyPartner, DestroySelf, Exit, Return
  <2>3. CASE ~exited /\ DisconnectTail /\ UNCHANGED pipeVars
    BY <2>3 DEF pipeVars
  <2>4. CASE PollStep \/ DispatchStep \/ PeerStep \/ \E o \in Obj : TimerDueStep(o)
    BY <2>4 DEF PollStep, DispatchStep, PeerStep, TimerDueStep, pipeVars
  <2>5. CASE UNCHANGED pipeAll
    BY <2>5 DEF pipeAll, pipeVars
  <2> QED
    BY <2>1, <2>2, <2>3, <2>4, <2>5 DEF PipeNext, Callback
<1> QED
  BY <1>1, <1>2, PTL DEF PipeSpec, pipeAll

\* The variables of the proxy and of the library keep their types: each callback in
\* progress has one place it has come to, and userdata is an object or none.
THEOREM ProxyTypeCorrect == ASSUME NoSock \notin Fds PROVE PipeSpec => []PipeTypeOK
<1>1. FlagInv /\ PInv /\ exited \in BOOLEAN => PipeTypeOK
  <2> SUFFICES ASSUME FlagInv, PInv, exited \in BOOLEAN PROVE PipeTypeOK
    OBVIOUS
  <2>1. TypeOK
    BY TypeParts DEF FlagInv, IInv, SockPart, CallPart
  <2>2. Len(at) = Len(stack)
    BY AtLen
  <2> QED
    BY <2>1, <2>2 DEF PInv, PipeTypes, Places, MainRight, PipeTypeOK
<1> QED
  BY <1>1, PairInvariance, ExitedIsFlag, PTL

\* A callback about to use the other side, to write to it, to connect it or to destroy
\* it, uses a live object that points back: the pointers of pipe.c never dangle where
\* its callbacks follow them.
THEOREM PartnersLive == ASSUME NoSock \notin Fds PROVE PipeSpec => []PartnerLive
<1>1. FlagInv /\ PInv => PartnerLive
  <2> SUFFICES ASSUME FlagInv, PInv, NEW k \in 1 .. Len(stack), NEW o, o = stack[k].obj,
                      \/ stack[k].event = "READ"
                      \/ at[k] = "connect"
                      \/ /\ stack[k].event = "DISCONNECT" /\ at[k] = "begin"
                         /\ Scallback(o) => connected[o]
               PROVE  Pair(o, userdata[o])
    BY DEF PartnerLive
  <2>1. ASSUME NEW q \in Obj \ {Server}, OneRight(q)
        PROVE  Pair(o, userdata[o])
    BY <2>1 DEF OneRight, One
  <2>2. ASSUME NEW q \in Obj, One("DISCONNECT", q, "begin")
        PROVE  Pair(o, userdata[o])
    <3>1. o = q /\ k = 1 /\ (Scallback(o) => connected[o])
      BY <2>2 DEF One
    <3>2. o # Server /\ ~Awaits(o) /\ o \in live
      <4>1. o \in live
        BY DEF FlagInv, IInv, CallPart, CallbackObjLive
      <4> QED
        BY <3>1, <4>1, NotServer
    <3>3. ~Ends(o) /\ ~Begins(o)
      BY <2>2, <3>1, OnlyOne DEF Ends, Begins
    <3> QED
      BY <3>1, <3>2, <3>3 DEF PInv, ObjRight, Mates
  <2>3. ASSUME NEW a \in Obj \ {Server}, NEW b \in Obj \ {Server}, TwoRight(a, b)
        PROVE  Pair(o, userdata[o])
    <3>1. o = b
      BY <2>3 DEF TwoRight, Two
    <3> QED
      BY <2>3, <3>1 DEF TwoRight, Pair
  <2> QED
    BY <2>1, <2>2, <2>3 DEF PInv, StackRight
<1> QED
  BY <1>1, PairInvariance, PTL

\* Whenever the loop has control, every connection of the proxy is one of a pair or
\* was accepted and waits for its CONNECT, and the listening object is there.
THEOREM PairsStay == ASSUME NoSock \notin Fds PROVE PipeSpec => []Paired
<1>1. FlagInv /\ PInv => Paired
  <2> SUFFICES ASSUME FlagInv, PInv, stack = << >>, main = "loop"
               PROVE  /\ Server \in live
                      /\ \A o \in live \ {Server} : Awaits(o) \/ Mates(o, userdata[o])
    BY DEF Paired, Awaits, Mates
  <2>1. live \subseteq Obj
    BY DEF FlagInv, IInv, SockPart, SockType
  <2> QED
    BY <2>1, IdleObj DEF PInv, MainRight
<1> QED
  BY <1>1, PairInvariance, PTL
=============================================================================
