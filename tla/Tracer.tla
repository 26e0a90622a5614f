------------------------------- MODULE Tracer -------------------------------
(***************************************************************************)
(* tracer/tracer.c: numbered trace files.  Every tracer object takes the   *)
(* number of its next file from the sequence file <directory>/.seq, which  *)
(* several processes and threads share, and writes its lines to            *)
(* <directory>/<number>.                                                   *)
(*                                                                         *)
(* One element of Procs is one user of the directory (a process, or a      *)
(* thread: every fopen() makes its own open file description, so flock()   *)
(* separates both alike) with at most one tracer object at a time.         *)
(*                                                                         *)
(* The sequence file and the trace files are stdio streams.  The number    *)
(* that fprintf() puts on the sequence stream stays in the stream's buffer *)
(* and reaches the file in fclose(); lines given to tracer_printf() reach  *)
(* their file in tracer_close().                                           *)
(***************************************************************************)
EXTENDS Integers

CONSTANTS
  Procs,          \* users of one trace directory
  StartIds,       \* arguments tracer_set_start_id() is called with
  DefaultStartId, \* TRACER_DEFAULT_START_ID
  IdMod,          \* modulus of the unsigned long long ids (2^64 in the build)
  MaxOpens,       \* bound on the calls of tracer_open()
  MaxLines        \* bound on the lines written to one trace file

ASSUME TracerAssumption ==
  /\ IdMod \in Nat \ {0}
  /\ MaxOpens \in Nat
  /\ MaxLines \in Nat
  /\ DefaultStartId \in 0 .. IdMod - 1
  /\ StartIds \subseteq 0 .. IdMod - 1

Ids == 0 .. IdMod - 1

NoFile == -1                        \* no such file on disk
Nobody == "nobody"                  \* the flock() lock is free

ASSUME NobodyAssumption == Nobody \notin Procs

\* Where a process stands inside tracer_open() and new_id().
Steps == {"none", "idle", "openseq", "lock", "read", "unlock", "closeseq", "opentrace"}

VARIABLES
  pc,       \* where each process is; "none": it has no tracer object
  pathOk,   \* tra->path is not empty
  startId,  \* tra->start_id
  id,       \* tra->id
  file,     \* tra->file # NULL
  lines,    \* lines tracer_printf() left in tra->file's buffer
  seqBuf,   \* the number in the buffer of new_id()'s stream
  lock,     \* who holds flock(LOCK_EX) on the sequence file
  seq,      \* the number in the sequence file, 0 if it is empty, or NoFile
  trace,    \* the lines in each trace file, or NoFile
  opens,    \* calls of tracer_open() so far
  raced     \* history: a number was read while another user's was unlocked but unwritten

procVars == <<pathOk, startId, id, file, lines>>
vars == <<pc, pathOk, startId, id, file, lines, seqBuf, lock, seq, trace, opens, raced>>

Init ==
  /\ pc = [p \in Procs |-> "none"]
  /\ pathOk = [p \in Procs |-> FALSE]
  /\ startId = [p \in Procs |-> DefaultStartId]
  /\ id = [p \in Procs |-> 0]
  /\ file = [p \in Procs |-> FALSE]
  /\ lines = [p \in Procs |-> 0]
  /\ seqBuf = [p \in Procs |-> 0]
  /\ lock = Nobody
  /\ seq = NoFile
  /\ trace = [i \in Ids |-> NoFile]
  /\ opens = 0
  /\ raced = FALSE

\* The arithmetic of new_id(): an empty or missing number starts the sequence.
NextId(old, start) == IF old = 0 THEN start ELSE (old + 1) % IdMod

-----------------------------------------------------------------------------
\* tracer_new(): ok says whether the directory could be made and opened.
TracerNew(p, ok) ==
  /\ pc[p] = "none"
  /\ pc' = [pc EXCEPT ![p] = "idle"]
  /\ pathOk' = [pathOk EXCEPT ![p] = ok]
  /\ startId' = [startId EXCEPT ![p] = DefaultStartId]
  /\ id' = [id EXCEPT ![p] = 0]
  /\ file' = [file EXCEPT ![p] = FALSE]
  /\ UNCHANGED <<lines, seqBuf, lock, seq, trace, opens, raced>>

TracerSetStartId(p, s) ==
  /\ pc[p] = "idle"
  /\ startId' = [startId EXCEPT ![p] = s]
  /\ UNCHANGED <<pc, pathOk, id, file, lines, seqBuf, lock, seq, trace, opens, raced>>

\* What tracer_close() does: fclose() writes the buffered lines from the start
\* of the file, and the object forgets the number.
CloseTrace(p) ==
  /\ trace' = IF file[p] /\ lines[p] > trace[id[p]]
              THEN [trace EXCEPT ![id[p]] = lines[p]]
              ELSE trace
  /\ file' = [file EXCEPT ![p] = FALSE]
  /\ lines' = [lines EXCEPT ![p] = 0]
  /\ id' = IF file[p] THEN [id EXCEPT ![p] = 0] ELSE id

TracerClose(p) ==
  /\ pc[p] = "idle"
  /\ file[p]
  /\ CloseTrace(p)
  /\ UNCHANGED <<pc, pathOk, startId, seqBuf, lock, seq, opens, raced>>

\* tracer_printf(): the line goes to the stream's buffer.
TracerPrintf(p) ==
  /\ pc[p] = "idle"
  /\ file[p]
  /\ lines[p] < MaxLines
  /\ lines' = [lines EXCEPT ![p] = @ + 1]
  /\ UNCHANGED <<pc, pathOk, startId, id, file, seqBuf, lock, seq, trace, opens, raced>>

TracerDestroy(p) ==
  /\ pc[p] = "idle"
  /\ CloseTrace(p)
  /\ pc' = [pc EXCEPT ![p] = "none"]
  /\ UNCHANGED <<pathOk, startId, seqBuf, lock, seq, opens, raced>>

-----------------------------------------------------------------------------
\* tracer_open(), one action per system call the other processes can see.

\* The entry: nothing happens without a directory; an open file is closed.
TracerOpen(p) ==
  /\ pc[p] = "idle"
  /\ pathOk[p]
  /\ opens < MaxOpens
  /\ opens' = opens + 1
  /\ CloseTrace(p)
  /\ pc' = [pc EXCEPT ![p] = "openseq"]
  /\ UNCHANGED <<pathOk, startId, seqBuf, lock, seq, raced>>

\* access(), open(O_CREAT) and fopen("r+"): an absent file is made, empty; a
\* failure ends tracer_open() with no file open.
OpenSeq(p, ok) ==
  /\ pc[p] = "openseq"
  /\ seq' = IF ok /\ seq = NoFile THEN 0 ELSE seq
  /\ pc' = [pc EXCEPT ![p] = IF ok THEN "lock" ELSE "idle"]
  /\ UNCHANGED <<procVars, seqBuf, lock, trace, opens, raced>>

\* Mutant of LockSeq: LOCK_NB, the result of flock() not looked at.
LockSeqNoWait(p) ==
  /\ pc[p] = "lock"
  /\ lock' = IF lock = Nobody THEN p ELSE lock
  /\ pc' = [pc EXCEPT ![p] = "read"]
  /\ UNCHANGED <<procVars, seqBuf, seq, trace, opens, raced>>

\* flock(LOCK_EX)
LockSeq(p) ==
  /\ pc[p] = "lock"
  /\ lock = Nobody
  /\ lock' = p
  /\ pc' = [pc EXCEPT ![p] = "read"]
  /\ UNCHANGED <<procVars, seqBuf, seq, trace, opens, raced>>

\* Users between LOCK_UN and fclose(): the lock is free and the number they took
\* is not in the file.
Unwritten == {q \in Procs : pc[q] = "closeseq"}

\* fscanf(), the new number, rewind() and fprintf() into the stream's buffer.
ReadSeq(p) ==
  /\ pc[p] = "read"
  /\ seqBuf' = [seqBuf EXCEPT ![p] = NextId(seq, startId[p])]
  /\ pc' = [pc EXCEPT ![p] = "unlock"]
  /\ raced' = (raced \/ Unwritten # {})
  /\ UNCHANGED <<procVars, lock, seq, trace, opens>>

\* flock(LOCK_UN)
UnlockSeq(p) ==
  /\ pc[p] = "unlock"
  /\ lock' = Nobody
  /\ pc' = [pc EXCEPT ![p] = "closeseq"]
  /\ UNCHANGED <<procVars, seqBuf, seq, trace, opens, raced>>

\* fclose() writes the buffered number; tra->id gets it.
CloseSeq(p) ==
  /\ pc[p] = "closeseq"
  /\ seq' = seqBuf[p]
  /\ id' = [id EXCEPT ![p] = seqBuf[p]]
  /\ pc' = [pc EXCEPT ![p] = "opentrace"]
  /\ UNCHANGED <<pathOk, startId, file, lines, seqBuf, lock, trace, opens, raced>>

\* fopen(filepath, "w") makes the trace file or empties the one that is there;
\* a failure leaves tra->file NULL and tra->id set.
OpenTrace(p, ok) ==
  /\ pc[p] = "opentrace"
  /\ file' = [file EXCEPT ![p] = ok]
  /\ trace' = IF ok THEN [trace EXCEPT ![id[p]] = 0] ELSE trace
  /\ pc' = [pc EXCEPT ![p] = "idle"]
  /\ UNCHANGED <<pathOk, startId, id, lines, seqBuf, lock, seq, opens, raced>>

\* Mutant of Crash: a lock that outlives its holder, such as a lock file.
CrashKeepsLock(p) ==
  /\ pc[p] # "none"
  /\ pc' = [pc EXCEPT ![p] = "none"]
  /\ file' = [file EXCEPT ![p] = FALSE]
  /\ lines' = [lines EXCEPT ![p] = 0]
  /\ UNCHANGED <<pathOk, startId, id, lock, seqBuf, seq, trace, opens, raced>>

\* The process dies: its buffers are lost and the kernel drops its lock.
Crash(p) ==
  /\ pc[p] # "none"
  /\ pc' = [pc EXCEPT ![p] = "none"]
  /\ file' = [file EXCEPT ![p] = FALSE]
  /\ lines' = [lines EXCEPT ![p] = 0]
  /\ lock' = IF lock = p THEN Nobody ELSE lock
  /\ UNCHANGED <<pathOk, startId, id, seqBuf, seq, trace, opens, raced>>

-----------------------------------------------------------------------------
\* The steps inside tracer_open(), which the process takes without waiting for
\* anything but the lock.
OpenStep(p) ==
  \/ \E ok \in BOOLEAN : OpenSeq(p, ok) \/ OpenTrace(p, ok)
  \/ LockSeq(p) \/ ReadSeq(p) \/ UnlockSeq(p) \/ CloseSeq(p)

Next ==
  \E p \in Procs :
    \/ \E ok \in BOOLEAN : TracerNew(p, ok)
    \/ \E s \in StartIds : TracerSetStartId(p, s)
    \/ TracerOpen(p) \/ OpenStep(p)
    \/ TracerPrintf(p) \/ TracerClose(p) \/ TracerDestroy(p)
    \/ Crash(p)

Spec == Init /\ [][Next]_vars

FairSpec == Spec /\ \A p \in Procs : WF_vars(OpenStep(p))

-----------------------------------------------------------------------------
TypeOK ==
  /\ pc \in [Procs -> Steps]
  /\ pathOk \in [Procs -> BOOLEAN]
  /\ startId \in [Procs -> Ids]
  /\ id \in [Procs -> Ids]
  /\ file \in [Procs -> BOOLEAN]
  /\ lines \in [Procs -> 0 .. MaxLines]
  /\ seqBuf \in [Procs -> Ids]
  /\ lock \in Procs \cup {Nobody}
  /\ seq \in Ids \cup {NoFile}
  /\ trace \in [Ids -> 0 .. MaxLines \cup {NoFile}]
  /\ opens \in 0 .. MaxOpens
  /\ raced \in BOOLEAN

\* A trace file once on disk is never emptied or shortened, whichever users open,
\* close, fail or crash in whatever order, until one of them reads the sequence file
\* between the LOCK_UN and the fclose() of another: up to there the number that
\* tracer_open() takes is of a file that does not exist yet.
NoTraceLost ==
  [][~raced' => \A i \in Ids : trace'[i] >= trace[i]]_trace

\* tracer.h:80-81, the handling of .seq is safe between threads and processes:
\* two open trace files never have the same number.
DistinctOpenIds ==
  \A p, q \in Procs : p # q /\ file[p] /\ file[q] => id[p] # id[q]

\* Every tracer_open() returns: nobody waits for the lock forever, whatever the
\* other processes do and wherever they crash.
OpenReturns == \A p \in Procs : pc[p] = "openseq" ~> pc[p] \in {"idle", "none"}
=============================================================================
