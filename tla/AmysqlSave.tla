----------------------------- MODULE AmysqlSave -----------------------------
(***************************************************************************)
(* The part "Save" of query() in amysql/amysql.c: the fields of a row are  *)
(* copied one behind the other into fieldbuf, and fieldv gets where each   *)
(* of them begins.  A row that does not fit is cut off.                    *)
(*                                                                         *)
(* Only the lengths of the fields matter; byte j of field k is the pair    *)
(* <<k, j>>, and never the terminating zero.                               *)
(***************************************************************************)
EXTENDS Integers

CONSTANTS
  BufSize,    \* FIELDBUFSIZE
  VSize,      \* FIELDVSIZE
  MaxFields,  \* bound on the fields of a row
  MaxLength   \* bound on the length of a field

Null == -1        \* the length of a NULL field, and a NULL pointer of fieldv
Nul == <<>>       \* the byte 0

\* The rows of n fields, each given by its length.
RowsOf(n) == [0 .. n - 1 -> {Null} \cup 0 .. MaxLength]

ASSUME AmysqlSaveAssumption ==
  /\ BufSize \in Nat /\ BufSize >= 2
  /\ VSize \in Nat
  /\ MaxFields \in Nat
  /\ MaxLength \in Nat

VARIABLES
  row,        \* the row that is saved
  numFields,  \* num_fields
  label,         \* at the head of the loop over fields, over bytes, or at done
  fieldc,
  i,
  rpos,
  fieldv,     \* offsets into fieldbuf
  fieldbuf

saveVars == <<row, numFields, label, fieldc, i, rpos, fieldv, fieldbuf>>

Offsets == 0 .. BufSize - 1
Bytes == (Nat \X Nat) \cup {Nul}

SaveInit ==
  /\ numFields \in 0 .. MaxFields
  /\ row \in RowsOf(numFields)
  /\ label = "field"
  /\ fieldc = 0
  /\ i = 0
  /\ rpos = 0
  /\ fieldv = [k \in 0 .. VSize - 1 |-> Null]
  /\ fieldbuf = [o \in Offsets |-> Nul]

\* The buffer takes no more once its last byte is next.
Full(pos) == pos > BufSize - 2

-----------------------------------------------------------------------------
\* The loop over the fields ends.
RowEnd ==
  /\ label = "field"
  /\ fieldc = numFields \/ fieldc = VSize
  /\ label' = "done"
  /\ UNCHANGED <<row, numFields, fieldc, i, rpos, fieldv, fieldbuf>>

\* There is a field to save and a place in fieldv for it.
More == label = "field" /\ fieldc < numFields /\ fieldc < VSize

\* Mutant of NullField: the loop goes on without the next field.
NullFieldStuck ==
  /\ More
  /\ row[fieldc] = Null
  /\ fieldv' = [fieldv EXCEPT ![fieldc] = Null]
  /\ UNCHANGED <<row, numFields, label, fieldc, i, rpos, fieldbuf>>

\* A NULL field takes no room in the buffer.
NullField ==
  /\ More
  /\ row[fieldc] = Null
  /\ fieldv' = [fieldv EXCEPT ![fieldc] = Null]
  /\ fieldc' = fieldc + 1
  /\ UNCHANGED <<row, numFields, label, i, rpos, fieldbuf>>

\* A field begins where the copying has come to.
BeginField ==
  /\ More
  /\ row[fieldc] # Null
  /\ fieldv' = [fieldv EXCEPT ![fieldc] = rpos]
  /\ i' = 0
  /\ label' = "byte"
  /\ UNCHANGED <<row, numFields, fieldc, rpos, fieldbuf>>

\* One byte of the field; a full buffer cuts the row off in this field.
CopyByte ==
  /\ label = "byte"
  /\ i < row[fieldc]
  /\ fieldbuf' = [fieldbuf EXCEPT ![rpos] = <<fieldc, i>>]
  /\ rpos' = rpos + 1
  /\ IF Full(rpos + 1)
     THEN label' = "done" /\ fieldc' = fieldc + 1 /\ UNCHANGED i
     ELSE i' = i + 1 /\ UNCHANGED <<label, fieldc>>
  /\ UNCHANGED <<row, numFields, fieldv>>

\* Mutant of EndField: the zero is not put behind the field.
EndFieldOpen ==
  /\ label = "byte"
  /\ i = row[fieldc]
  /\ fieldc' = fieldc + 1
  /\ label' = "field"
  /\ UNCHANGED <<row, numFields, i, rpos, fieldv, fieldbuf>>

\* Mutant of EndField: the room for the next field is not looked at.
EndFieldUnchecked ==
  /\ label = "byte"
  /\ i = row[fieldc]
  /\ fieldbuf' = [fieldbuf EXCEPT ![rpos] = Nul]
  /\ rpos' = rpos + 1
  /\ fieldc' = fieldc + 1
  /\ label' = "field"
  /\ UNCHANGED <<row, numFields, i, fieldv>>

\* The zero behind the field; a full buffer cuts the row off behind it.
EndField ==
  /\ label = "byte"
  /\ i = row[fieldc]
  /\ fieldbuf' = [fieldbuf EXCEPT ![rpos] = Nul]
  /\ rpos' = rpos + 1
  /\ fieldc' = fieldc + 1
  /\ label' = IF Full(rpos + 1) THEN "done" ELSE "field"
  /\ UNCHANGED <<row, numFields, i, fieldv>>

SaveNext == RowEnd \/ NullField \/ BeginField \/ CopyByte \/ EndField

SaveSpec == SaveInit /\ [][SaveNext]_saveVars

\* The two loops of Save wait for nothing.
SaveFairness == WF_saveVars(SaveNext)

-----------------------------------------------------------------------------
SaveTypeOK ==
  /\ numFields \in 0 .. MaxFields
  /\ row \in RowsOf(numFields)
  /\ label \in {"field", "byte", "done"}
  /\ fieldc \in 0 .. numFields /\ fieldc <= VSize
  /\ label = "byte" => fieldc < numFields /\ fieldc < VSize /\ row[fieldc] # Null
  /\ i \in 0 .. MaxLength
  /\ rpos \in Offsets
  /\ fieldv \in [0 .. VSize - 1 -> Offsets \cup {Null}]
  /\ fieldbuf \in [Offsets -> Bytes]

\* Every write to fieldbuf leaves its last byte alone, so that whatever the row
\* is like, and wherever it is cut off, the last string is ended by a zero.
LastByteKept ==
  /\ label # "done" => rpos < BufSize - 1
  /\ fieldbuf[BufSize - 1] = Nul

\* The string that begins at fieldv[k] is the first n bytes of field k.
Holds(k, n) ==
  /\ fieldv[k] + n < BufSize
  /\ \A j \in 0 .. n - 1 : fieldbuf[fieldv[k] + j] = <<k, j>>
  /\ fieldbuf[fieldv[k] + n] = Nul

\* The comment above Save: fieldc fields can be read safely.  Each is NULL or
\* the very field of the row, only the last may be cut off, and fields are
\* missing only when a buffer is full.
SavedRight ==
  label = "done" =>
    /\ \A k \in 0 .. fieldc - 1 :
         IF row[k] = Null THEN fieldv[k] = Null
         ELSE /\ fieldv[k] # Null
              /\ \E n \in 0 .. row[k] : Holds(k, n) /\ (n < row[k] => k = fieldc - 1)
    /\ fieldc < numFields => fieldc = VSize \/ rpos = BufSize - 1

\* The copying ends.
Ends == <>(label = "done")
=============================================================================
