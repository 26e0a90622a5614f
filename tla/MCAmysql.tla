------------------------------ MODULE MCAmysql ------------------------------
(***************************************************************************)
(* For TLC: amysql/amysql.c's threads and its part Save, side by side.     *)
(* They share no variable (Amysql says of a row only whose it is and       *)
(* whether it is cut off), so that they are checked in one run: every row  *)
(* is saved, and the threads run beside the row of no fields.              *)
(***************************************************************************)
EXTENDS Amysql, AmysqlSave

MCInit == Init /\ SaveInit

MCNext ==
  \/ SaveNext /\ UNCHANGED vars
  \/ numFields = 0 /\ Next /\ UNCHANGED saveVars

MCSpec ==
  /\ MCInit /\ [][MCNext]_<<vars, saveVars>>
  /\ numFields = 0 => Fairness
  /\ SaveFairness
=============================================================================
