---------------------------- MODULE TracerProofs ----------------------------
(***************************************************************************)
(* Proofs about Tracer, for any number of users: types, and that no trace  *)
(* file is lost until a number is read before the last one is written.     *)
(***************************************************************************)
EXTENDS Tracer, FiniteSetTheorems, TLAPS

USE TracerAssumption, NobodyAssumption

-----------------------------------------------------------------------------
LEMMA CloseTraceType ==
  ASSUME TypeOK, NEW p \in Procs, CloseTrace(p)
  PROVE  /\ trace' \in [Ids -> 0 .. MaxLines \cup {NoFile}]
         /\ file' \in [Procs -> BOOLEAN]
         /\ lines' \in [Procs -> 0 .. MaxLines]
         /\ id' \in [Procs -> Ids]
<1>1. 0 \in Ids /\ 0 \in 0 .. MaxLines
  BY DEF Ids
<1> QED
  BY <1>1 DEF TypeOK, CloseTrace

LEMMA TypeStep == TypeOK /\ [Next]_vars => TypeOK'
<1> SUFFICES ASSUME TypeOK, [Next]_vars
             PROVE  TypeOK'
  OBVIOUS
<1>0. 0 \in Ids /\ 0 \in 0 .. MaxLines /\ StartIds \subseteq Ids /\ DefaultStartId \in Ids
  BY DEF Ids
<1>1. CASE UNCHANGED vars
  BY <1>1 DEF vars, TypeOK
<1>2. ASSUME NEW p \in Procs,
             \/ \E ok \in BOOLEAN : TracerNew(p, ok)
             \/ \E s \in StartIds : TracerSetStartId(p, s)
             \/ TracerPrintf(p)
             \/ Crash(p)
      PROVE  TypeOK'
  <2>1. CASE \E ok \in BOOLEAN : TracerNew(p, ok)
    BY <1>0, <2>1 DEF TracerNew, TypeOK, Steps
  <2>2. CASE \E s \in StartIds : TracerSetStartId(p, s)
    BY <1>0, <2>2 DEF TracerSetStartId, TypeOK
  <2>3. CASE TracerPrintf(p)
    BY <2>3 DEF TracerPrintf, TypeOK
  <2>4. CASE Crash(p)
    BY <1>0, <2>4 DEF Crash, TypeOK, Steps
  <2> QED
    BY <1>2, <2>1, <2>2, <2>3, <2>4
<1>3. ASSUME NEW p \in Procs, TracerOpen(p) \/ TracerClose(p) \/ TracerDestroy(p)
      PROVE  TypeOK'
  <2>1. CloseTrace(p)
    BY <1>3 DEF TracerOpen, TracerClose, TracerDestroy
  <2>2. pc' \in [Procs -> Steps] /\ opens' \in 0 .. MaxOpens
    BY <1>3 DEF TracerOpen, TracerClose, TracerDestroy, TypeOK, Steps
  <2> QED
    BY <1>3, <2>1, <2>2, CloseTraceType DEF TracerOpen, TracerClose, TracerDestroy, TypeOK
<1>4. ASSUME NEW p \in Procs, OpenStep(p)
      PROVE  TypeOK'
  <2> USE DEF TypeOK, Steps, procVars
  <2>1. ASSUME NEW ok \in BOOLEAN, OpenSeq(p, ok)
        PROVE  TypeOK'
    BY <1>0, <2>1 DEF OpenSeq
  <2>2. ASSUME NEW ok \in BOOLEAN, OpenTrace(p, ok)
        PROVE  TypeOK'
    BY <1>0, <2>2 DEF OpenTrace
  <2>3. CASE LockSeq(p)
    BY <2>3 DEF LockSeq
  <2>4. CASE ReadSeq(p)
    <3>1. NextId(seq, startId[p]) \in Ids
      BY <1>0 DEF Ids, NoFile, NextId
    <3> QED
      BY <2>4, <3>1 DEF ReadSeq
  <2>5. CASE UnlockSeq(p)
    BY <2>5 DEF UnlockSeq
  <2>6. CASE CloseSeq(p)
    BY <2>6 DEF CloseSeq
  <2> QED
    BY <1>4, <2>1, <2>2, <2>3, <2>4, <2>5, <2>6 DEF OpenStep
<1> QED
  BY <1>1, <1>2, <1>3, <1>4 DEF Next

LEMMA TypeInit == Init => TypeOK
<1> SUFFICES ASSUME Init
             PROVE  TypeOK
  OBVIOUS
<1>1. raced \in BOOLEAN
  BY DEF Init
<1>2. 0 \in Ids /\ DefaultStartId \in Ids /\ 0 \in 0 .. MaxLines /\ 0 \in 0 .. MaxOpens
  BY DEF Ids
<1> QED
  BY <1>1, <1>2 DEF Init, TypeOK, Steps

\* The variables keep their types, whoever crashes where.
THEOREM TypeCorrect == Spec => []TypeOK
  BY TypeInit, TypeStep, PTL DEF Spec

-----------------------------------------------------------------------------
(* Why no trace file is lost while no number was read before the last one was *)
(* written.  The numbers of maxStart and below are the ones a sequence may    *)
(* start with.                                                                *)

\* tracer_open() has been entered and its number is not in the file yet.
Numbering(p) == pc[p] \in {"openseq", "lock", "read", "unlock", "closeseq"}

\* A number has been taken and is not in the file yet.
Taken(p) == pc[p] \in {"unlock", "closeseq"}

Pending == {p \in Procs : Numbering(p)}

\* Each call of tracer_open() still to number its file has room for one number
\* before they wrap.
Room(maxStart) ==
  /\ \A p \in Procs : startId[p] \in 1 .. maxStart
  /\ IsFiniteSet(Pending)
  /\ Cardinality(Pending) <= opens
  /\ seq + Cardinality(Pending) <= maxStart + opens - 1

\* The users inside new_id(): only the holder of the lock is between LOCK_EX and
\* LOCK_UN, and one number at most is taken and unwritten.
OneTaker ==
  /\ \A p \in Procs : pc[p] \in {"read", "unlock"} => lock = p
  /\ \A p \in Procs : pc[p] \in {"lock", "read", "unlock", "closeseq", "opentrace"} => seq # NoFile
  /\ \A p, q \in Procs : Taken(p) /\ Taken(q) => p = q

\* That number is above all that were written.
TakenAbove(maxStart) ==
  \A p \in Procs :
    Taken(p) => seq < seqBuf[p] /\ seqBuf[p] + Cardinality(Pending) <= maxStart + opens

\* Every trace file has a number that is in the sequence file or below it; the
\* users about to make theirs have numbers of no file, each its own.
FilesNumbered ==
  /\ \A i \in Ids : trace[i] # NoFile => 1 <= i /\ i <= seq
  /\ \A p \in Procs : pc[p] = "opentrace" => 1 <= id[p] /\ id[p] <= seq /\ trace[id[p]] = NoFile
  /\ \A p, q \in Procs : pc[p] = "opentrace" /\ pc[q] = "opentrace" /\ p # q => id[p] # id[q]
  /\ \A p \in Procs : file[p] => pc[p] = "idle" /\ trace[id[p]] # NoFile

Fresh(maxStart) ==
  /\ Room(maxStart)
  /\ OneTaker
  /\ TakenAbove(maxStart)
  /\ FilesNumbered

\* What the proof uses of the types.
LEMMA Types ==
  ASSUME TypeOK
  PROVE  /\ opens \in 0 .. MaxOpens /\ seq \in Ids \cup {NoFile} /\ NoFile = -1
         /\ pc \in [Procs -> Steps] /\ id \in [Procs -> Ids] /\ seqBuf \in [Procs -> Ids]
         /\ startId \in [Procs -> Ids] /\ file \in [Procs -> BOOLEAN]
         /\ trace \in [Ids -> 0 .. MaxLines \cup {NoFile}] /\ Ids = 0 .. IdMod - 1
  BY DEF TypeOK, Ids, NoFile

\* A user that comes to new_id() is one more, one that leaves it one less.
LEMMA PendingCount ==
  ASSUME IsFiniteSet(Pending), NEW p \in Procs
  PROVE  /\ Cardinality(Pending) \in Nat
         /\ Pending' = Pending => Cardinality(Pending') = Cardinality(Pending)
         /\ Pending' = Pending \cup {p} /\ ~Numbering(p) =>
              IsFiniteSet(Pending') /\ Cardinality(Pending') = Cardinality(Pending) + 1
         /\ Pending' = Pending \ {p} =>
              IsFiniteSet(Pending') /\ Cardinality(Pending') <= Cardinality(Pending)
         /\ Pending' = Pending \ {p} /\ Numbering(p) =>
              Cardinality(Pending') = Cardinality(Pending) - 1
         /\ Numbering(p) => Cardinality(Pending) >= 1
<1>1. Cardinality(Pending) \in Nat
  BY FS_CardinalityType
<1>2. /\ IsFiniteSet(Pending \cup {p}) /\ IsFiniteSet(Pending \ {p})
      /\ p \notin Pending => Cardinality(Pending \cup {p}) = Cardinality(Pending) + 1
      /\ p \in Pending => Cardinality(Pending \ {p}) = Cardinality(Pending) - 1
  BY FS_AddElement, FS_RemoveElement
<1>3. p \in Pending <=> Numbering(p)
  BY DEF Pending
<1>4. p \notin Pending => Pending \ {p} = Pending
  OBVIOUS
<1>5. p \in Pending => Cardinality(Pending) >= 1
  BY <1>1, FS_EmptySet
<1>6. Pending' = Pending \ {p} =>
        IsFiniteSet(Pending') /\ Cardinality(Pending') <= Cardinality(Pending)
  BY <1>1, <1>2, <1>4
<1>7. Pending' = Pending \cup {p} /\ ~Numbering(p) =>
        IsFiniteSet(Pending') /\ Cardinality(Pending') = Cardinality(Pending) + 1
  BY <1>2, <1>3
<1> QED
  BY <1>1, <1>2, <1>3, <1>5, <1>6, <1>7

\* Who is in new_id() after a step of one user.
LEMMA PendingStep ==
  ASSUME NEW p \in Procs, NEW s, pc' = [pc EXCEPT ![p] = s], TypeOK
  PROVE  LET in == s \in {"openseq", "lock", "read", "unlock", "closeseq"}
         IN  /\ in /\ Numbering(p) => Pending' = Pending
             /\ in /\ ~Numbering(p) => Pending' = Pending \cup {p}
             /\ ~in => Pending' = Pending \ {p}
<1> DEFINE in == s \in {"openseq", "lock", "read", "unlock", "closeseq"}
<1>1. \A q \in Procs : Numbering(q)' <=> IF q = p THEN in ELSE Numbering(q)
  BY DEF TypeOK, Numbering
<1>2. Pending' = {q \in Procs : Numbering(q)'}
  BY DEF Pending
<1> QED
  BY <1>1, <1>2 DEF Pending

\* Closing a trace file makes no file and takes none away.
LEMMA CloseKeepsFiles ==
  ASSUME TypeOK, NEW u \in Procs, file[u] => trace[id[u]] # NoFile, CloseTrace(u)
  PROVE  \A i \in Ids : trace'[i] # NoFile <=> trace[i] # NoFile
<1>1. CASE file[u] /\ lines[u] > trace[id[u]]
  <2>1. trace' = [trace EXCEPT ![id[u]] = lines[u]] /\ id[u] \in Ids /\ lines[u] # NoFile
    BY <1>1 DEF CloseTrace, TypeOK, NoFile
  <2> QED
    BY <1>1, <2>1 DEF TypeOK
<1>2. CASE ~(file[u] /\ lines[u] > trace[id[u]])
  BY <1>2 DEF CloseTrace
<1> QED
  BY <1>1, <1>2

-----------------------------------------------------------------------------
\* The steps outside new_id(), which take no number: the entry of tracer_open()
\* is one call more and one number more to come.
LEMMA OutsideStep ==
  ASSUME NEW maxStart \in Nat, StartIds \cup {DefaultStartId} \subseteq 1 .. maxStart,
         TypeOK, Fresh(maxStart), NEW p \in Procs,
         \/ \E ok \in BOOLEAN : TracerNew(p, ok)
         \/ \E s \in StartIds : TracerSetStartId(p, s)
         \/ TracerPrintf(p) \/ TracerOpen(p) \/ TracerClose(p) \/ TracerDestroy(p)
         \/ Crash(p)
  PROVE  Fresh(maxStart)'
<1>0. /\ opens \in Nat /\ seq \in Int /\ DefaultStartId \in 1 .. maxStart
      /\ StartIds \subseteq 1 .. maxStart /\ IsFiniteSet(Pending)
      /\ pc \in [Procs -> Steps] /\ id \in [Procs -> Ids] /\ seqBuf \in [Procs -> Ids]
      /\ startId \in [Procs -> Ids] /\ file \in [Procs -> BOOLEAN]
      /\ trace \in [Ids -> 0 .. MaxLines \cup {NoFile}]
  <2>1. seq \in Int
    BY Types
  <2>2. DefaultStartId \in 1 .. maxStart /\ StartIds \subseteq 1 .. maxStart
    OBVIOUS
  <2>3. opens \in Nat
    BY Types
  <2>4. IsFiniteSet(Pending)
    BY DEF Fresh, Room
  <2> QED
    BY <2>1, <2>2, <2>3, <2>4 DEF TypeOK
<1>1. /\ seq' = seq /\ seqBuf' = seqBuf /\ (lock' = lock \/ (Crash(p) /\ lock = p))
      /\ \A q \in Procs : startId'[q] = startId[q] \/ startId'[q] \in 1 .. maxStart
      /\ \A q \in Procs : q # p => file'[q] = file[q] /\ id'[q] = id[q]
  <2>1. CASE (\E ok \in BOOLEAN : TracerNew(p, ok)) \/ TracerPrintf(p) \/ Crash(p)
    BY <1>0, <2>1 DEF TracerNew, TracerPrintf, Crash
  <2>2. CASE \E s \in StartIds : TracerSetStartId(p, s)
    BY <1>0, <2>2 DEF TracerSetStartId
  <2>3. CASE TracerOpen(p) \/ TracerClose(p) \/ TracerDestroy(p)
    BY <1>0, <2>3 DEF TracerOpen, TracerClose, TracerDestroy, CloseTrace
  <2> QED
    BY <2>1, <2>2, <2>3
<1>2. \E s \in {"none", "idle", "openseq"} :
        /\ pc' = [pc EXCEPT ![p] = s]
        /\ opens' = IF s = "openseq" THEN opens + 1 ELSE opens
        /\ s = "openseq" => pc[p] = "idle"
  BY <1>0 DEF TracerNew, TracerSetStartId, TracerPrintf, TracerOpen, TracerClose,
              TracerDestroy, Crash
<1>3. PICK s \in {"none", "idle", "openseq"} :
        /\ pc' = [pc EXCEPT ![p] = s]
        /\ opens' = IF s = "openseq" THEN opens + 1 ELSE opens
        /\ s = "openseq" => pc[p] = "idle"
  BY <1>2
<1>4. file'[p] => file[p] /\ id'[p] = id[p] /\ pc'[p] = "idle"
  BY <1>0, <1>3 DEF TracerNew, TracerSetStartId, TracerPrintf, TracerOpen, TracerClose,
              TracerDestroy, CloseTrace, Crash, Fresh, FilesNumbered
<1>5. \A i \in Ids : trace'[i] # NoFile <=> trace[i] # NoFile
  <2>1. CASE CloseTrace(p)
    BY <2>1, CloseKeepsFiles DEF Fresh, FilesNumbered
  <2>2. CASE trace' = trace
    BY <2>2
  <2> QED
    BY <2>1, <2>2 DEF TracerNew, TracerSetStartId, TracerPrintf, TracerOpen, TracerClose,
                      TracerDestroy, Crash
<1>6. /\ IsFiniteSet(Pending') /\ Cardinality(Pending) \in Nat /\ Cardinality(Pending') \in Nat
      /\ Cardinality(Pending') - Cardinality(Pending) <= opens' - opens
      /\ opens' \in Nat
  <2>1. s \in {"none", "idle"} => Pending' = Pending \ {p}
    BY <1>3, PendingStep
  <2>2. s = "openseq" => ~Numbering(p) /\ Pending' = Pending \cup {p}
    BY <1>3, PendingStep DEF Numbering
  <2>3. IsFiniteSet(Pending') => Cardinality(Pending') \in Nat
    BY FS_CardinalityType
  <2>4. CASE s = "openseq"
    BY <1>0, <1>3, <2>2, <2>3, <2>4, PendingCount
  <2>5. CASE s # "openseq"
    BY <1>0, <1>3, <2>1, <2>3, <2>5, PendingCount
  <2> QED
    BY <2>4, <2>5
<1>7. Room(maxStart)'
  BY <1>0, <1>1, <1>6 DEF Fresh, Room
<1>8. OneTaker'
  BY <1>0, <1>1, <1>3 DEF Fresh, OneTaker, Taken
<1>9. TakenAbove(maxStart)'
  <2> SUFFICES ASSUME NEW q \in Procs, Taken(q)'
               PROVE  seq' < seqBuf'[q] /\ seqBuf'[q] + Cardinality(Pending') <= maxStart + opens'
    BY DEF TakenAbove
  <2>1. Taken(q)
    BY <1>0, <1>3 DEF Taken
  <2>2. seqBuf[q] \in Nat /\ seq < seqBuf[q] /\ seqBuf[q] + Cardinality(Pending) <= maxStart + opens
    BY <1>0, <2>1 DEF Fresh, TakenAbove, Ids
  <2> QED
    BY <1>0, <1>1, <1>6, <2>2
<1>10. FilesNumbered'
  BY <1>0, <1>1, <1>3, <1>4, <1>5 DEF Fresh, FilesNumbered
<1> QED
  BY <1>7, <1>8, <1>9, <1>10 DEF Fresh

\* The steps that move one user through tracer_open() without a number taken,
\* written or used.
LEMMA QuietStep ==
  ASSUME NEW maxStart \in Nat, StartIds \cup {DefaultStartId} \subseteq 1 .. maxStart,
         TypeOK, Fresh(maxStart), NEW p \in Procs,
         (\E ok \in BOOLEAN : OpenSeq(p, ok)) \/ LockSeq(p) \/ UnlockSeq(p)
  PROVE  Fresh(maxStart)'
<1>0. /\ seq \in Int /\ seq' \in Int /\ NoFile = -1 /\ opens \in Nat /\ maxStart >= 1
      /\ pc \in [Procs -> Steps] /\ IsFiniteSet(Pending)
  <2>1. seq \in Int /\ NoFile = -1
    BY Types
  <2>2. seq' \in Int
    BY <2>1 DEF OpenSeq, LockSeq, UnlockSeq
  <2>3. opens \in Nat
    BY Types
  <2>4. DefaultStartId \in 1 .. maxStart
    OBVIOUS
  <2> QED
    BY <2>1, <2>2, <2>3, <2>4 DEF TypeOK, Fresh, Room
<1>1. /\ UNCHANGED <<procVars, seqBuf, trace, opens>>
      /\ seq' = seq \/ (seq = NoFile /\ seq' = 0)
  BY DEF OpenSeq, LockSeq, UnlockSeq
<1>2. PICK s \in {"idle", "lock", "read", "closeseq"} :
        /\ pc' = [pc EXCEPT ![p] = s]
        /\ Numbering(p)
        /\ s = "lock" => seq' # NoFile
        /\ s = "read" => lock = Nobody /\ lock' = p /\ pc[p] = "lock"
        /\ s = "closeseq" => pc[p] = "unlock" /\ lock' = Nobody
        /\ s \in {"idle", "lock"} => lock' = lock /\ pc[p] = "openseq"
        /\ s # "lock" => seq' = seq
  BY <1>0 DEF OpenSeq, LockSeq, UnlockSeq, Numbering
<1>3. /\ IsFiniteSet(Pending') /\ Cardinality(Pending) \in Nat /\ Cardinality(Pending') \in Nat
      /\ Cardinality(Pending') <= Cardinality(Pending)
  <2>1. Pending' = Pending \/ Pending' = Pending \ {p}
    BY <1>2, PendingStep
  <2>2. IsFiniteSet(Pending') /\ Cardinality(Pending') <= Cardinality(Pending)
    BY <1>0, <2>1, PendingCount
  <2> QED
    BY <1>0, <2>2, FS_CardinalityType
<1>4. Room(maxStart)'
  BY <1>0, <1>1, <1>3 DEF Fresh, Room, procVars
<1>5. OneTaker'
  <2>1. \A q \in Procs : Taken(q)' => Taken(q)
    BY <1>0, <1>2 DEF Taken
  <2>2. \A q \in Procs : pc'[q] \in {"read", "unlock"} => lock' = q
    BY <1>0, <1>2 DEF Fresh, OneTaker
  <2>3. \A q \in Procs :
          pc'[q] \in {"lock", "read", "unlock", "closeseq", "opentrace"} => seq' # NoFile
    BY <1>0, <1>1, <1>2 DEF Fresh, OneTaker
  <2> QED
    BY <2>1, <2>2, <2>3 DEF Fresh, OneTaker
<1>6. TakenAbove(maxStart)'
  <2> SUFFICES ASSUME NEW q \in Procs, Taken(q)'
               PROVE  seq' < seqBuf'[q] /\ seqBuf'[q] + Cardinality(Pending') <= maxStart + opens'
    BY DEF TakenAbove
  <2>1. Taken(q)
    BY <1>0, <1>2 DEF Taken
  <2>2. seq' = seq
    BY <1>0, <1>1, <2>1 DEF Fresh, OneTaker, Taken
  <2>3. seqBuf[q] \in Int
    BY Types
  <2> QED
    BY <1>0, <1>1, <1>3, <2>1, <2>2, <2>3 DEF Fresh, TakenAbove
<1>7. FilesNumbered'
  <2>1. \A q \in Procs : pc'[q] = "opentrace" => pc[q] = "opentrace"
    BY <1>0, <1>2
  <2>2. seq <= seq'
    BY <1>0, <1>1
  <2>3. Ids \subseteq Int /\ id \in [Procs -> Ids]
    BY Types
  <2>4. \A q \in Procs : file[q] => pc'[q] = "idle"
    BY <1>0, <1>2 DEF Fresh, FilesNumbered, Numbering
  <2>5. trace' = trace /\ id' = id /\ file' = file
    BY <1>1 DEF procVars
  <2>6. \A i \in Ids : trace[i] # NoFile => 1 <= i /\ i <= seq'
    BY <1>0, <2>2, <2>3 DEF Fresh, FilesNumbered
  <2>7. \A q \in Procs : pc[q] = "opentrace" => 1 <= id[q] /\ id[q] <= seq' /\ trace[id[q]] = NoFile
    <3> SUFFICES ASSUME NEW q \in Procs, pc[q] = "opentrace"
                 PROVE  1 <= id[q] /\ id[q] <= seq' /\ trace[id[q]] = NoFile
      OBVIOUS
    <3>1. id[q] \in Int
      BY <2>3
    <3> QED
      BY <1>0, <2>2, <3>1 DEF Fresh, FilesNumbered
  <2> QED
    BY <2>1, <2>4, <2>5, <2>6, <2>7 DEF Fresh, FilesNumbered
<1> QED
  BY <1>4, <1>5, <1>6, <1>7 DEF Fresh

\* The number a user takes is above the one in the file, and no other is taken.
LEMMA ReadStep ==
  ASSUME NEW maxStart \in Nat, StartIds \cup {DefaultStartId} \subseteq 1 .. maxStart,
         maxStart + MaxOpens <= IdMod,
         TypeOK, Fresh(maxStart), NEW p \in Procs, ReadSeq(p), ~raced'
  PROVE  Fresh(maxStart)'
<1>0. /\ seq \in Nat /\ opens \in 0 .. MaxOpens /\ startId[p] \in 1 .. maxStart
      /\ IsFiniteSet(Pending) /\ pc \in [Procs -> Steps] /\ seqBuf \in [Procs -> Ids]
  <2>1. seq \in Ids \cup {NoFile} /\ Ids = 0 .. IdMod - 1 /\ opens \in 0 .. MaxOpens
    BY Types
  <2>2. seq # NoFile
    BY DEF Fresh, OneTaker, ReadSeq
  <2> QED
    BY <2>1, <2>2 DEF Fresh, Room, TypeOK
<1>1. /\ pc' = [pc EXCEPT ![p] = "unlock"] /\ pc[p] = "read" /\ Unwritten = {}
      /\ seqBuf' = [seqBuf EXCEPT ![p] = NextId(seq, startId[p])]
      /\ UNCHANGED <<procVars, lock, seq, trace, opens>>
  BY DEF ReadSeq
<1>2. Pending' = Pending /\ Numbering(p)
  BY <1>1, PendingStep DEF Numbering
<1>3. /\ Cardinality(Pending) \in Nat /\ Cardinality(Pending) >= 1
      /\ Cardinality(Pending') = Cardinality(Pending)
      /\ Cardinality(Pending) <= opens
      /\ seq + Cardinality(Pending) <= maxStart + opens - 1
  BY <1>0, <1>2, PendingCount DEF Fresh, Room
<1>4. seq < NextId(seq, startId[p]) /\ NextId(seq, startId[p]) + Cardinality(Pending) <= maxStart + opens
  <2>1. CASE seq = 0
    BY <1>0, <1>3, <2>1 DEF NextId
  <2>2. CASE seq # 0
    <3>1. seq + 1 \in 0 .. IdMod - 1
      BY <1>0, <1>3
    <3>2. NextId(seq, startId[p]) = seq + 1
      BY <2>2, <3>1 DEF NextId
    <3> QED
      BY <1>0, <1>3, <3>2
  <2> QED
    BY <2>1, <2>2
<1>5. \A q \in Procs : q # p => ~Taken(q)
  BY <1>1 DEF Fresh, OneTaker, Taken, Unwritten
<1>6. \A q \in Procs : q # p => pc'[q] = pc[q] /\ seqBuf'[q] = seqBuf[q]
  BY <1>0, <1>1
<1>7. pc'[p] = "unlock" /\ seqBuf'[p] = NextId(seq, startId[p])
  BY <1>0, <1>1
<1>8. Room(maxStart)'
  BY <1>1, <1>2 DEF Fresh, Room, procVars
<1>9. OneTaker'
  BY <1>1, <1>5, <1>6, <1>7 DEF Fresh, OneTaker, Taken
<1>10. TakenAbove(maxStart)'
  BY <1>1, <1>3, <1>4, <1>5, <1>6, <1>7 DEF TakenAbove, Taken
<1>11. FilesNumbered'
  BY <1>1, <1>6, <1>7 DEF Fresh, FilesNumbered, procVars
<1> QED
  BY <1>8, <1>9, <1>10, <1>11 DEF Fresh

\* The number reaches the file: it is above those of all trace files and of all
\* users about to make theirs.
LEMMA WriteStep ==
  ASSUME NEW maxStart \in Nat, TypeOK, Fresh(maxStart), NEW p \in Procs, CloseSeq(p)
  PROVE  Fresh(maxStart)'
<1>0. /\ seq \in Int /\ opens \in Nat /\ IsFiniteSet(Pending) /\ Ids \subseteq Int /\ NoFile = -1
      /\ pc \in [Procs -> Steps] /\ seqBuf \in [Procs -> Ids] /\ id \in [Procs -> Ids]
  <2>1. seq \in Int /\ opens \in Nat
    BY Types
  <2> QED
    BY <2>1, Types DEF Fresh, Room
<1>1. /\ pc' = [pc EXCEPT ![p] = "opentrace"] /\ pc[p] = "closeseq"
      /\ id' = [id EXCEPT ![p] = seqBuf[p]] /\ seq' = seqBuf[p]
      /\ UNCHANGED <<startId, file, seqBuf, lock, trace, opens>>
  BY DEF CloseSeq
<1>2. Pending' = Pending \ {p} /\ Numbering(p)
  <2>1. Pending' = Pending \ {p}
    <3>1. "opentrace" \notin {"openseq", "lock", "read", "unlock", "closeseq"}
      OBVIOUS
    <3> QED
      BY ONLY <1>1, <3>1, PendingStep, TypeOK, p \in Procs
  <2>2. Numbering(p)
    BY <1>1 DEF Numbering
  <2> QED
    BY <2>1, <2>2
<1>3. /\ Cardinality(Pending) \in Nat /\ Cardinality(Pending) >= 1
      /\ Cardinality(Pending') = Cardinality(Pending) - 1 /\ IsFiniteSet(Pending')
      /\ Cardinality(Pending) <= opens
  BY <1>0, <1>2, PendingCount DEF Fresh, Room
<1>4. Taken(p) /\ \A q \in Procs : q # p => ~Taken(q)
  BY <1>1 DEF Fresh, OneTaker, Taken
<1>5. /\ seqBuf[p] \in Ids /\ seqBuf[p] \in Int /\ seq < seqBuf[p]
      /\ seqBuf[p] + Cardinality(Pending) <= maxStart + opens
  BY <1>0, <1>4 DEF Fresh, TakenAbove
<1>6. seqBuf[p] >= 1 /\ seqBuf[p] # NoFile
  <2>1. seq # NoFile
    BY <1>1 DEF Fresh, OneTaker
  <2>2. seq >= 0
    BY <2>1, Types
  <2> QED
    BY <1>0, <1>5, <2>2
<1>7. \A q \in Procs : q # p => pc'[q] = pc[q] /\ id'[q] = id[q]
  BY <1>0, <1>1
<1>8. pc'[p] = "opentrace" /\ id'[p] = seqBuf[p]
  BY <1>0, <1>1
<1>9. Room(maxStart)'
  BY <1>0, <1>1, <1>3, <1>5 DEF Fresh, Room
<1>10. OneTaker'
  BY <1>1, <1>4, <1>6, <1>7, <1>8 DEF Fresh, OneTaker, Taken
<1>11. TakenAbove(maxStart)'
  BY <1>4, <1>7, <1>8 DEF TakenAbove, Taken
<1>12. FilesNumbered'
  <2>1. \A i \in Ids : trace'[i] # NoFile => 1 <= i /\ i <= seq'
    <3> SUFFICES ASSUME NEW i \in Ids, trace[i] # NoFile
                 PROVE  1 <= i /\ i <= seqBuf[p]
      BY <1>1
    <3> QED
      BY <1>0, <1>5 DEF Fresh, FilesNumbered
  <2>2. \A q \in Procs : q # p /\ pc[q] = "opentrace" =>
                           /\ 1 <= id[q] /\ id[q] <= seqBuf[p] /\ id[q] # seqBuf[p]
                           /\ trace[id[q]] = NoFile
    <3> SUFFICES ASSUME NEW q \in Procs, pc[q] = "opentrace"
                 PROVE  /\ 1 <= id[q] /\ id[q] <= seqBuf[p] /\ id[q] # seqBuf[p]
                        /\ trace[id[q]] = NoFile
      OBVIOUS
    <3>1. id[q] \in Int
      BY <1>0
    <3> QED
      BY <1>0, <1>5, <3>1 DEF Fresh, FilesNumbered
  <2>3. trace[seqBuf[p]] = NoFile
    BY <1>0, <1>5 DEF Fresh, FilesNumbered
  <2>4. \A q \in Procs : pc'[q] = "opentrace" =>
          1 <= id'[q] /\ id'[q] <= seq' /\ trace'[id'[q]] = NoFile
    BY <1>1, <1>5, <1>6, <1>7, <1>8, <2>2, <2>3
  <2>5. \A q, r \in Procs :
          pc'[q] = "opentrace" /\ pc'[r] = "opentrace" /\ q # r => id'[q] # id'[r]
    BY <1>7, <1>8, <2>2 DEF Fresh, FilesNumbered
  <2>6. \A q \in Procs : file'[q] => pc'[q] = "idle" /\ trace'[id'[q]] # NoFile
    BY <1>1, <1>7, <1>8 DEF Fresh, FilesNumbered
  <2> QED
    BY <2>1, <2>4, <2>5, <2>6 DEF FilesNumbered
<1> QED
  BY <1>9, <1>10, <1>11, <1>12 DEF Fresh

\* The trace file that tracer_open() makes is new, and of nobody else.
LEMMA TraceStep ==
  ASSUME NEW maxStart \in Nat, TypeOK, Fresh(maxStart), NEW p \in Procs,
         NEW ok \in BOOLEAN, OpenTrace(p, ok)
  PROVE  Fresh(maxStart)'
<1>0. /\ pc \in [Procs -> Steps] /\ id \in [Procs -> Ids] /\ NoFile = -1
      /\ file \in [Procs -> BOOLEAN] /\ trace \in [Ids -> 0 .. MaxLines \cup {NoFile}]
  BY DEF TypeOK, NoFile
<1>1. /\ pc' = [pc EXCEPT ![p] = "idle"] /\ pc[p] = "opentrace"
      /\ file' = [file EXCEPT ![p] = ok]
      /\ trace' = IF ok THEN [trace EXCEPT ![id[p]] = 0] ELSE trace
      /\ UNCHANGED <<startId, id, seqBuf, lock, seq, opens>>
  BY DEF OpenTrace
<1>2. Pending' = Pending
  BY <1>1, PendingStep DEF Pending, Numbering
<1>3. \A q \in Procs : q # p => pc'[q] = pc[q] /\ file'[q] = file[q]
  BY <1>0, <1>1
<1>4. pc'[p] = "idle" /\ file'[p] = ok
  BY <1>0, <1>1
<1>5. \A i \in Ids : trace'[i] = IF ok /\ i = id[p] THEN 0 ELSE trace[i]
  BY <1>0, <1>1
<1>6. id[p] \in Ids /\ 1 <= id[p] /\ id[p] <= seq
  BY <1>0, <1>1 DEF Fresh, FilesNumbered
<1>7. \A q \in Procs : q # p /\ pc[q] = "opentrace" => id[q] # id[p]
  BY <1>1 DEF Fresh, FilesNumbered
<1>8. Room(maxStart)' /\ TakenAbove(maxStart)'
  BY <1>1, <1>2, <1>3, <1>4 DEF Fresh, Room, TakenAbove, Taken
<1>9. OneTaker'
  BY <1>1, <1>3, <1>4 DEF Fresh, OneTaker, Taken
<1>10. FilesNumbered'
  <2>1. \A i \in Ids : trace'[i] # NoFile => 1 <= i /\ i <= seq'
    BY <1>0, <1>1, <1>5, <1>6 DEF Fresh, FilesNumbered
  <2>2. \A q \in Procs : pc'[q] = "opentrace" =>
          1 <= id'[q] /\ id'[q] <= seq' /\ trace'[id'[q]] = NoFile
    BY <1>0, <1>1, <1>3, <1>4, <1>5, <1>7 DEF Fresh, FilesNumbered
  <2>3. \A q, r \in Procs :
          pc'[q] = "opentrace" /\ pc'[r] = "opentrace" /\ q # r => id'[q] # id'[r]
    BY <1>1, <1>3, <1>4 DEF Fresh, FilesNumbered
  <2>4. \A q \in Procs : file'[q] => pc'[q] = "idle" /\ trace'[id'[q]] # NoFile
    BY <1>0, <1>1, <1>3, <1>4, <1>5, <1>6 DEF Fresh, FilesNumbered
  <2> QED
    BY <2>1, <2>2, <2>3, <2>4 DEF FilesNumbered
<1> QED
  BY <1>8, <1>9, <1>10 DEF Fresh

-----------------------------------------------------------------------------
LEMMA FreshStep ==
  ASSUME NEW maxStart \in Nat, StartIds \cup {DefaultStartId} \subseteq 1 .. maxStart,
         maxStart + MaxOpens <= IdMod,
         TypeOK, ~raced => Fresh(maxStart), [Next]_vars
  PROVE  ~raced' => Fresh(maxStart)'
<1> SUFFICES ASSUME ~raced'
             PROVE  Fresh(maxStart)'
  OBVIOUS
<1>1. Fresh(maxStart)
  <2>1. \A p \in Procs : ReadSeq(p) => ~raced
    BY DEF ReadSeq
  <2>2. (\A p \in Procs : ~ReadSeq(p)) => raced' = raced
    BY DEF Next, OpenStep, vars, TracerNew, TracerSetStartId, TracerPrintf, TracerOpen,
           TracerClose, TracerDestroy, Crash, OpenSeq, LockSeq, UnlockSeq, CloseSeq, OpenTrace
  <2> QED
    BY <2>1, <2>2
<1>2. CASE UNCHANGED vars
  <2>1. Pending' = Pending
    BY <1>2 DEF Pending, Numbering, vars
  <2> QED
    BY <1>1, <1>2, <2>1 DEF vars, Fresh, Room, OneTaker, TakenAbove, Taken, FilesNumbered
<1>3. ASSUME NEW p \in Procs,
             \/ \E ok \in BOOLEAN : TracerNew(p, ok)
             \/ \E s \in StartIds : TracerSetStartId(p, s)
             \/ TracerPrintf(p) \/ TracerOpen(p) \/ TracerClose(p) \/ TracerDestroy(p)
             \/ Crash(p)
      PROVE  Fresh(maxStart)'
  BY <1>1, <1>3, OutsideStep
<1>4. ASSUME NEW p \in Procs, OpenStep(p)
      PROVE  Fresh(maxStart)'
  <2>1. CASE (\E ok \in BOOLEAN : OpenSeq(p, ok)) \/ LockSeq(p) \/ UnlockSeq(p)
    BY <1>1, <2>1, QuietStep
  <2>2. CASE ReadSeq(p)
    BY <1>1, <2>2, ReadStep
  <2>3. CASE CloseSeq(p)
    BY <1>1, <2>3, WriteStep
  <2>4. ASSUME NEW ok \in BOOLEAN, OpenTrace(p, ok)
        PROVE  Fresh(maxStart)'
    BY <1>1, <2>4, TraceStep
  <2> QED
    BY <1>4, <2>1, <2>2, <2>3, <2>4 DEF OpenStep
<1> QED
  BY <1>2, <1>3, <1>4 DEF Next

LEMMA FreshKeepsTraces ==
  ASSUME NEW maxStart, TypeOK, ~raced => Fresh(maxStart), [Next]_vars, ~raced'
  PROVE  \A i \in Ids : trace'[i] >= trace[i]
<1>0. NoFile = -1 /\ trace \in [Ids -> 0 .. MaxLines \cup {NoFile}]
      /\ id \in [Procs -> Ids] /\ lines \in [Procs -> 0 .. MaxLines]
  BY DEF TypeOK, NoFile
<1>1. ASSUME NEW p \in Procs, CloseTrace(p)
      PROVE  \A i \in Ids : trace'[i] >= trace[i]
  BY <1>0, <1>1 DEF CloseTrace
<1>2. ASSUME NEW p \in Procs, NEW ok \in BOOLEAN, OpenTrace(p, ok)
      PROVE  \A i \in Ids : trace'[i] >= trace[i]
  <2>1. trace[id[p]] = NoFile
    BY <1>2 DEF OpenTrace, Fresh, FilesNumbered
  <2> QED
    BY <1>0, <1>2, <2>1 DEF OpenTrace
<1>3. CASE UNCHANGED trace
  BY <1>0, <1>3
<1> QED
  BY <1>1, <1>2, <1>3 DEF Next, OpenStep, vars, procVars, TracerNew, TracerSetStartId, TracerOpen,
     TracerPrintf, TracerClose, TracerDestroy, OpenSeq, LockSeq, ReadSeq, UnlockSeq, CloseSeq, Crash

\* Any number of users, files, lines, failures and crashes: no trace file is
\* emptied or shortened before some user reads the sequence file between the
\* LOCK_UN and the fclose() of another, as long as the numbers start at 1 or more
\* and do not wrap (new_id() and the fopen("w") of tracer_open()).
THEOREM LosesNothing ==
  ASSUME NEW maxStart \in Nat,
         StartIds \cup {DefaultStartId} \subseteq 1 .. maxStart,
         maxStart + MaxOpens <= IdMod
  PROVE  Spec => NoTraceLost
<1>1. Init => (~raced => Fresh(maxStart))
  <2> SUFFICES ASSUME Init
               PROVE  Fresh(maxStart)
    OBVIOUS
  <2>1. Pending = {}
    BY DEF Init, Pending, Numbering
  <2>2. DefaultStartId \in 1 .. maxStart
    OBVIOUS
  <2>3. Room(maxStart)
    BY <2>1, <2>2, FS_EmptySet DEF Init, Room, NoFile
  <2>4. OneTaker /\ TakenAbove(maxStart) /\ FilesNumbered
    BY DEF Init, OneTaker, TakenAbove, Taken, FilesNumbered
  <2> QED
    BY <2>3, <2>4 DEF Fresh
<1>2. TypeOK /\ (~raced => Fresh(maxStart)) /\ [Next]_vars => (~raced => Fresh(maxStart))'
  BY FreshStep
<1>3. TypeOK /\ (~raced => Fresh(maxStart)) /\ [Next]_vars =>
        [~raced' => \A i \in Ids : trace'[i] >= trace[i]]_trace
  BY FreshKeepsTraces
<1> QED
  BY <1>1, <1>2, <1>3, TypeInit, TypeStep, PTL DEF Spec, NoTraceLost

=============================================================================
