---------------------------- MODULE MCNetsocket ----------------------------
(***************************************************************************)
(* Netsocket on small instances: objects are interchangeable model values. *)
(* In LiveSpec the user keeps one object for listening, the others for     *)
(* connections, and makes no call that fails.                              *)
(***************************************************************************)
EXTENDS NetsocketContract, TLC

CONSTANT Server   \* the object that listens, when one does

Symmetry == Permutations(Obj)

\* The calls of the user, the ones left out that fail and leave no socket.
LiveUser ==
  \/ \E fd \in FreeFds : ListenStarts(Server, fd)
  \/ \E o \in Obj \ {Server}, fd \in FreeFds : ConnectStarts(o, fd)
  \/ \E o \in Obj : New(o) \/ Disconnect(o) \/ DisconnectWithEvent(o) \/ Destroy(o)

LiveNext ==
  \/ Poll \/ Dispatch \/ CallbackReturn \/ DisconnectTail
  \/ LiveUser \/ Peer
  \/ \E o \in Obj : TimerDue(o)

LiveSpec == Init /\ [][LiveNext]_vars /\ Fairness
=============================================================================
