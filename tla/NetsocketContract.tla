------------------------- MODULE NetsocketContract -------------------------
(***************************************************************************)
(* The refinement: Netsocket implements NetsocketEvents.  The phase of an  *)
(* object is read off its memory, its mode, its socket and whether w_out   *)
(* is started, which is how the library itself knows that the connection   *)
(* is still to be reported; obj->connected is not used, since it keeps its *)
(* old value while a DISCONNECT is being reported.                         *)
(***************************************************************************)
EXTENDS Netsocket

Phase(o) ==
  CASE o \notin live -> "absent"
    [] o \in live /\ sock[o] \notin Fds -> "closed"
    [] o \in live /\ sock[o] \in Fds /\ mode[o] = "server" -> "listening"
    [] Opening(o) -> "opening"
    [] Up(o) -> "up"

phase == [o \in Obj |-> Phase(o)]

Promise == INSTANCE NetsocketEvents WITH calls <- stack

\* The user of an object sees the events NetsocketEvents allows and no others:
\* CONNECT once per connection and before any READ, no READ after DISCONNECT,
\* no CONNECT or READ inside a callback, no object freed under its callback.
Contract == Promise!Spec
=============================================================================
