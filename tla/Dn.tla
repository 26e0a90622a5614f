--------------------------------- MODULE Dn ---------------------------------
(***************************************************************************)
(* Domain names in their binary form, as udns passes them around: the      *)
(* sequence of the bytes, labels after their lengths and a zero.  What     *)
(* returns a length in C returns the bytes in these modules, and Invalid   *)
(* for -1, NoRoom for 0.                                                   *)
(***************************************************************************)
EXTENDS Bytes

CONSTANTS
  MaxDn,      \* DNS_MAXDN
  MaxLabel    \* DNS_MAXLABEL

ASSUME DnAssumption == MaxDn \in Nat \ {0} /\ MaxLabel \in Nat

Invalid == <<-1>>
NoRoom == << >>
Refused(bytes) == bytes \in {Invalid, NoRoom}
=============================================================================
