-------------------------------- MODULE Pipe --------------------------------
(***************************************************************************)
(* pipe.c: a TCP proxy, a program of two callbacks over netsocket.         *)
(* scallback() serves the listening object and the connections it accepts, *)
(* ccallback() the connections to the target that are made for them, and   *)
(* the two objects of a pair point at each other with userdata.            *)
(*                                                                         *)
(* The library's actions are taken as they are; what replaces its free     *)
(* user is the callbacks' code, call by call, since a call can run another *)
(* callback.  What netsocket_write() sends changes no state of the proxy.  *)
(***************************************************************************)
EXTENDS Netsocket

CONSTANT Server   \* snetsocket

ASSUME PipeAssumption == Server \in Obj

VARIABLES
  main,      \* what main() does next
  userdata,  \* obj->userdata, or NoObj where it is no object
  at,        \* where each callback of stack has come to
  exited     \* exit() was called

pipeVars == <<main, userdata, at, exited>>

PipeInit ==
  /\ Init
  /\ main = "new"
  /\ userdata = [o \in Obj |-> NoObj]
  /\ at = << >>
  /\ exited = FALSE

\* The innermost callback: its object, and whether it is at a place.
Top == stack[Len(stack)]
Self == Top.obj
Partner == userdata[Self]
In(event, place) ==
  ~exited /\ UserRuns /\ stack # << >> /\ Top.event = event /\ at[Len(at)] = place

\* Accepted objects inherit scallback() from the listening one.
Scallback(o) == o = Server \/ parent[o] # NoObj

\* The callback goes on to a place; a callback that a call runs is at its beginning.
GoTo(place) ==
  at' = [k \in 1 .. Len(stack') |-> IF k < Len(stack) THEN at[k]
                                    ELSE IF k = Len(stack) THEN place ELSE "begin"]

\* userdata of new memory is no object.
Kept(u) == [o \in Obj |-> IF o \in live /\ o \in live' THEN u[o] ELSE NoObj]

-----------------------------------------------------------------------------
(* main()                                                                   *)

MainNew ==
  /\ ~exited /\ main = "new"
  /\ New(Server)
  /\ main' = "listen"
  /\ UNCHANGED <<userdata, at, exited>>

MainListen ==
  /\ ~exited /\ main = "listen"
  /\ \/ ListenInvalid(Server) /\ UNCHANGED exited
     \/ /\ \E fd \in FreeFds : ListenFails(Server, fd) \/ ListenStarts(Server, fd)
        /\ UNCHANGED exited
     \/ ListenNoFd(Server) /\ exited' = TRUE
  /\ main' = "loop"
  /\ GoTo("begin")
  /\ UNCHANGED userdata

-----------------------------------------------------------------------------
(* The callbacks.                                                           *)

\* Mutant of NewPartner: netsocket_new() is not given the accepted object.
NewPartnerOneWay ==
  /\ In("CONNECT", "begin")
  /\ Scallback(Self)
  /\ \E o \in Obj :
       /\ New(o)
       /\ userdata' = [userdata EXCEPT ![Self] = o]
  /\ GoTo("connect")
  /\ UNCHANGED <<main, exited>>

\* scallback(), CONNECT: netsocket_new() for the connection to the target ...
NewPartner ==
  /\ In("CONNECT", "begin")
  /\ Scallback(Self)
  /\ \E o \in Obj :
       /\ New(o)
       /\ userdata' = [userdata EXCEPT ![o] = Self, ![Self] = o]
  /\ GoTo("connect")
  /\ UNCHANGED <<main, exited>>

\* ... and netsocket_connect().
ConnectPartner ==
  /\ In("CONNECT", "connect")
  /\ \/ ConnectInvalid(Partner) \/ ConnectNoFd(Partner)
     \/ \E fd \in FreeFds : ConnectStarts(Partner, fd) \/ ConnectFails(Partner, fd)
  /\ GoTo("end")
  /\ UNCHANGED <<main, userdata, exited>>

\* Mutant of DestroyPartner: the other side is forgotten.
DestroyPartnerForgotten ==
  /\ In("DISCONNECT", "begin")
  /\ Scallback(Self) => connected[Self]
  /\ UNCHANGED <<vars, main, userdata, exited>>
  /\ GoTo("self")

\* Either callback, DISCONNECT: netsocket_destroy() of the other side ...
DestroyPartner ==
  /\ In("DISCONNECT", "begin")
  /\ Scallback(Self) => connected[Self]
  /\ Destroy(Partner)
  /\ userdata' = Kept(userdata)
  /\ GoTo("self")
  /\ UNCHANGED <<main, exited>>

\* Mutant of DestroySelf: only the other side is destroyed.
DestroySelfForgotten ==
  /\ In("DISCONNECT", "self")
  /\ UNCHANGED <<vars, main, userdata, exited>>
  /\ GoTo("end")

\* ... and of this one, which the library puts off.
DestroySelf ==
  /\ In("DISCONNECT", "self")
  /\ Destroy(Self)
  /\ userdata' = Kept(userdata)
  /\ GoTo("end")
  /\ UNCHANGED <<main, exited>>

\* scallback(), DISCONNECT of an object that is not connected: exit().
Exit ==
  /\ In("DISCONNECT", "begin")
  /\ Scallback(Self) /\ ~connected[Self]
  /\ exited' = TRUE
  /\ UNCHANGED <<vars, main, userdata, at>>

\* The end of a callback, READ and ccallback()'s CONNECT included.
Return ==
  /\ \/ \E event \in Events : In(event, "end")
     \/ In("READ", "begin")
     \/ In("CONNECT", "begin") /\ ~Scallback(Self)
  /\ CallbackReturn
  /\ at' = SubSeq(at, 1, Len(at) - 1)
  /\ userdata' = Kept(userdata)
  /\ UNCHANGED <<main, exited>>

Callback ==
  \/ NewPartner \/ ConnectPartner \/ DestroyPartner \/ DestroySelf \/ Exit \/ Return
  \/ ~exited /\ DisconnectTail /\ UNCHANGED pipeVars

-----------------------------------------------------------------------------
(* ev_loop()                                                                *)

PollStep == ~exited /\ main = "loop" /\ Poll /\ UNCHANGED pipeVars

DispatchStep ==
  /\ ~exited /\ main = "loop"
  /\ Dispatch
  /\ GoTo("end")
  /\ userdata' = Kept(userdata)
  /\ UNCHANGED <<main, exited>>

TimerDueStep(o) == ~exited /\ TimerDue(o) /\ UNCHANGED pipeVars

\* Bound: clients come only as long as there are objects for them and their partners.
Waiting == {o \in live : parent[o] = Server /\ userdata[o] = NoObj}
Backlog == IF sock[Server] \in Fds THEN conn[sock[Server]].queue ELSE 0
EnoughObjects == 2 * Backlog + Cardinality(Waiting) <= Cardinality(Obj \ live)

PeerStep == ~exited /\ Peer /\ UNCHANGED pipeVars /\ EnoughObjects'

PipeNext ==
  \/ MainNew \/ MainListen
  \/ Callback
  \/ PollStep \/ DispatchStep \/ PeerStep
  \/ \E o \in Obj : TimerDueStep(o)

PipeSpec == PipeInit /\ [][PipeNext]_<<vars, pipeVars>>

\* The proxy's own code never waits; the rest as in Netsocket.
PipeFairness ==
  /\ WF_<<vars, pipeVars>>(Callback)
  /\ SF_<<vars, pipeVars>>(PollStep) /\ SF_<<vars, pipeVars>>(DispatchStep)
  /\ \A o \in Obj : WF_<<vars, pipeVars>>(TimerDueStep(o))

PipeFairSpec == PipeSpec /\ PipeFairness

-----------------------------------------------------------------------------
(* Properties                                                               *)

PipeTypeOK ==
  /\ TypeOK
  /\ main \in {"new", "listen", "loop"}
  /\ userdata \in [Obj -> Obj \cup {NoObj}]
  /\ at \in Seq({"begin", "connect", "self", "end"}) /\ Len(at) = Len(stack)
  /\ exited \in BOOLEAN

\* Two objects that point at each other.
Pair(o, p) == {o, p} \subseteq live /\ userdata[o] = p /\ userdata[p] = o

\* Whenever the loop has control, every connection is one of a pair, or was accepted
\* and waits for its CONNECT: none is left alone, and none points at an object that
\* was freed or that serves another pair.  The proxy's listening object is there.
Paired ==
  stack = << >> /\ tail = NoObj /\ main = "loop" =>
    /\ Server \in live
    /\ \A o \in live \ {Server} :
         \/ Pair(o, userdata[o])
         \/ parent[o] = Server /\ ~connected[o] /\ userdata[o] = NoObj

\* A callback that is about to use the other side, to write to it, to connect it
\* or to destroy it, uses a live object that points back.
PartnerLive ==
  \A k \in 1 .. Len(stack) :
    LET o == stack[k].obj IN
      \/ stack[k].event = "READ"
      \/ at[k] = "connect"
      \/ stack[k].event = "DISCONNECT" /\ at[k] = "begin" /\ (Scallback(o) => connected[o])
      => Pair(o, userdata[o])

\* When a peer has ended its side of a pair, both objects are freed.
PairEnds ==
  \A o, p \in Obj :
    Pair(o, p) /\ sock[o] \in Fds /\ conn[sock[o]].fin # "no"
      ~> {o, p} \cap live = {} \/ exited \/ aborted
=============================================================================
