-------------------------- MODULE NetsocketEvents --------------------------
(***************************************************************************)
(* What a netsocket object promises to the code that uses it: the events   *)
(* its callback gets, and when (the doc comments of netsocket_connect(),   *)
(* netsocket_listen(), netsocket_disconnect() and netsocket_destroy(), and *)
(* the order the comment in w_in_cb() insists on).  There are no watchers, *)
(* descriptors or flags here: an object is in a phase, and calls lists the *)
(* callbacks in progress, the innermost last.                              *)
(*                                                                         *)
(*   absent --> closed --> opening --> up       CONNECT leads to up        *)
(*                     --> listening            READ comes only when up    *)
(*                                              DISCONNECT leads to closed *)
(*                                                                         *)
(* The loop reports one event at a time: CONNECT and READ never come while *)
(* a callback runs, for whatever object.                                   *)
(***************************************************************************)
EXTENDS Naturals, Sequences

CONSTANT Obj

VARIABLES phase, calls

vars == <<phase, calls>>

Phases == {"absent", "closed", "opening", "up", "listening"}

Init == phase = [o \in Obj |-> "absent"] /\ calls = << >>

Enters(o, p) == phase' = [phase EXCEPT ![o] = p]
Calls(o, e) == calls' = Append(calls, [obj |-> o, event |-> e])
Runs(o) == \E i \in 1 .. Len(calls) : calls[i].obj = o

Create(o) == phase[o] = "absent" /\ Enters(o, "closed") /\ UNCHANGED calls

Open(o) == phase[o] = "closed" /\ Enters(o, "opening") /\ UNCHANGED calls

Listen(o) == phase[o] = "closed" /\ Enters(o, "listening") /\ UNCHANGED calls

\* A listening object makes an object for a connection it accepts.
Incoming(server, o) ==
  /\ phase[server] = "listening"
  /\ phase[o] = "absent"
  /\ calls = << >>
  /\ Enters(o, "opening")
  /\ UNCHANGED calls

\* The connection is made: reported once, before anything else about it.
Connected(o) ==
  /\ calls = << >>
  /\ phase[o] = "opening"
  /\ Enters(o, "up")
  /\ Calls(o, "CONNECT")

Read(o) ==
  /\ calls = << >>
  /\ phase[o] = "up"
  /\ Calls(o, "READ")
  /\ UNCHANGED phase

\* Something went wrong, the peer left, or the user asked for it with an event.
Disconnected(o) ==
  /\ phase[o] # "absent"
  /\ Enters(o, "closed")
  /\ Calls(o, "DISCONNECT")

\* The user closes the object, which makes no event.
Close(o) == phase[o] # "absent" /\ Enters(o, "closed") /\ UNCHANGED calls

\* The innermost callback returns; the object it was of may go away with it,
\* unless another callback of the object still runs.
Return ==
  /\ calls # << >>
  /\ calls' = SubSeq(calls, 1, Len(calls) - 1)
  /\ \/ UNCHANGED phase
     \/ LET o == calls[Len(calls)].obj IN
          /\ \A i \in 1 .. Len(calls) - 1 : calls[i].obj # o
          /\ Enters(o, "absent")

\* The user destroys an object none of whose callbacks runs.
Destroy(o) ==
  /\ phase[o] # "absent"
  /\ ~Runs(o)
  /\ Enters(o, "absent")
  /\ UNCHANGED calls

Next ==
  \/ Return
  \/ \E o \in Obj :
       \/ Create(o) \/ Open(o) \/ Listen(o) \/ Connected(o) \/ Read(o)
       \/ Disconnected(o) \/ Close(o) \/ Destroy(o)
       \/ \E server \in Obj : Incoming(server, o)

Spec == Init /\ [][Next]_vars
=============================================================================
