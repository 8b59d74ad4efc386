------------------------ MODULE JsonlObservationStore -------------------------
(***************************************************************************)
(* weather_platform/storage/jsonl.py and the admission that api/main.py    *)
(* runs on it: threads of several worker processes admit batches of        *)
(* observations or compact the file under a two-level lock (an RLock per   *)
(* process, then an flock on a file of its own), while readers iterate the *)
(* file without any lock.                                                  *)
(*                                                                         *)
(* An observation is an id, a content (all that _observation_content       *)
(* compares) and a receipt (the acquisition metadata it leaves out).  The  *)
(* file is a sequence of lines; compaction replaces it by a new file, and  *)
(* a reader that has opened the old one goes on reading that.  A power     *)
(* loss keeps what was fsynced of a file, and any of the names that the    *)
(* store's path has had since it was last known to be on disk.             *)
(***************************************************************************)
EXTENDS Naturals, SequencesExt

CONSTANTS Process, Thread, Reader, None,
          ProcessOf,     \* the process of each thread
          Observation,   \* set of records [id, content, receipt]
          Batch,         \* the requests: non-empty sequences of observations
          NotANumber,    \* contents whose value is NaN, which JSON payloads may carry
          Null,          \*   the content those are reloaded as
          Garbage,       \* a line that does not parse
          Existing,      \* what the file may hold at the start, <<>> if there is none
          MaxCalls,      \* bound on requests and compactions
          MaxFaults,     \* bound on kills, failed writes and power losses
          MaxReads       \* bound on the reads of all readers

ASSUME ProcessAssumption == ProcessOf \in [Thread -> Process] /\ None \notin Process \union Thread
ASSUME ObservationAssumption ==
  \A o \in Observation : o = [id |-> o.id, content |-> o.content, receipt |-> o.receipt]
ASSUME BatchAssumption == Batch \subseteq Seq(Observation)
ASSUME ExistingAssumption ==
  /\ Existing \subseteq Seq(Observation) /\ Existing # {}
  /\ \A e \in Existing : \A i, j \in DOMAIN e :
       e[i].content \notin NotANumber /\ (e[i].id = e[j].id => i = j)
ASSUME GarbageAssumption ==
  \A o \in Observation : Garbage \notin {o, [o EXCEPT !.content = Null]}
ASSUME BoundAssumption == MaxCalls \in Nat /\ MaxFaults \in Nat /\ MaxReads \in Nat

VARIABLES files,      \* every file that has carried the store's name: its lines, how
                      \*   many of them are fsynced, whether the last lacks its newline
          current,    \* which of them carries it now, 0 for none
          named,      \* the first of them whose name a power loss can bring back
          rlock,      \* owner of each process's RLock
          depth,      \* _lock_depth of each process
          flock,      \* the process holding the file lock
          call,       \* what each thread is doing
          reader,     \* what each reader is doing
          accepted,   \* observations of the requests answered "accepted"
          calls, reads, faults,
          lapses      \* what has gone wrong that the code does not look at

vars == <<files, current, named, rlock, depth, flock, call, reader, accepted,
          calls, reads, faults, lapses>>

store == <<files, current>>
locks == <<rlock, depth, flock>>
counts == <<named, calls, reads, faults>>

\* "short": a line was put down in part, or behind such a line;
\* "unsynced": a redelivery was accepted on a record that was never fsynced;
\* "undone": a power loss undid a creation or a compaction, with later fsynced lines.
Lapse == {"short", "unsynced", "undone"}

File(lines, synced, cut) == [lines |-> lines, synced |-> synced, cut |-> cut]

Absent == File(<<>>, 0, FALSE)
Carrying(g) == IF g = 0 THEN Absent ELSE files[g]
Lines == Carrying(current).lines
Synced == Carrying(current).synced
Readable(lines) == Garbage \notin Range(lines)
Records(lines) == Range(lines) \ {Garbage}

\* model_dump_json writes NaN as null, which reloads as a missing value.
Stored(o) == IF o.content \in NotANumber THEN [o EXCEPT !.content = Null] ELSE o

Line == {Stored(o) : o \in Observation} \union {Garbage}

Idle == [at |-> "idle", job |-> <<>>, fresh |-> {}, wrote |-> {}, copy |-> <<>>,
         answer |-> "none"]
NotReading == [at |-> "idle", file |-> 0, seen |-> <<>>, due |-> <<>>]

Init ==
  /\ \E e \in Existing :
       /\ files = IF e = <<>> THEN <<>> ELSE <<File(e, Len(e), FALSE)>>
       /\ current = IF e = <<>> THEN 0 ELSE 1
       /\ accepted = Range(e)
  /\ named = current
  /\ rlock = [p \in Process |-> None]
  /\ depth = [p \in Process |-> 0]
  /\ flock = None
  /\ call = [t \in Thread |-> Idle]
  /\ reader = [r \in Reader |-> NotReading]
  /\ calls = 0
  /\ reads = 0
  /\ faults = 0
  /\ lapses = {}

At(t, step) == call[t].at = step
Goto(t, step) == call' = [call EXCEPT ![t].at = step]

-----------------------------------------------------------------------------
\* transaction(): the RLock of the process, then the file lock at depth 0.

\* A request is a batch to admit; the empty sequence stands for a compaction.
Request(t, job) ==
  /\ At(t, "idle")
  /\ calls < MaxCalls
  /\ calls' = calls + 1
  /\ call' = [call EXCEPT ![t] = [Idle EXCEPT !.at = "rlock", !.job = job]]
  /\ UNCHANGED <<store, locks, reader, accepted, named, reads, faults, lapses>>

LockThread(t) ==
  /\ At(t, "rlock")
  /\ rlock[ProcessOf[t]] = None
  /\ rlock' = [rlock EXCEPT ![ProcessOf[t]] = t]
  /\ Goto(t, "flock")
  /\ UNCHANGED <<store, depth, flock, reader, accepted, lapses, counts>>

InTransaction(t) == IF call[t].job = <<>> THEN "copy" ELSE "check"

MutFileLockFree == TRUE
FileLockFree == flock = None

LockFile(t) ==
  /\ At(t, "flock")
  /\ FileLockFree
  /\ flock' = ProcessOf[t]
  /\ depth' = [depth EXCEPT ![ProcessOf[t]] = 1]
  /\ Goto(t, InTransaction(t))
  /\ UNCHANGED <<store, rlock, reader, accepted, lapses, counts>>

\* Leaving a transaction, also when it raised; the outermost one unlocks the file.
MutExitTransactionKeepsDepth(t) == UNCHANGED <<depth, flock>>
MutExitTransactionUnlocks(t) ==
  /\ depth' = [depth EXCEPT ![ProcessOf[t]] = @ - 1]
  /\ flock' = None
MutExitTransactionOnSuccess(t) ==
  /\ depth' = [depth EXCEPT ![ProcessOf[t]] = @ - 1]
  /\ flock' = IF call[t].answer = "accepted" THEN None ELSE flock
ExitTransaction(t) ==
  LET d == depth[ProcessOf[t]] - 1 IN
  /\ depth' = [depth EXCEPT ![ProcessOf[t]] = d]
  /\ flock' = IF d = 0 THEN None ELSE flock

Leave(t) ==
  /\ At(t, "leave")
  /\ ExitTransaction(t)
  /\ Goto(t, "unlock")
  /\ UNCHANGED <<store, rlock, reader, accepted, lapses, counts>>

\* The RLock is released and the request answered.
Answer(t) ==
  /\ At(t, "unlock")
  /\ rlock' = [rlock EXCEPT ![ProcessOf[t]] = None]
  /\ accepted' = IF call[t].answer = "accepted"
                 THEN accepted \union Range(call[t].job)
                 ELSE accepted
  /\ call' = [call EXCEPT ![t] = Idle]
  /\ UNCHANGED <<store, depth, flock, reader, lapses, counts>>

-----------------------------------------------------------------------------
\* _admit_observations, inside the transaction.

\* NaN equals nothing, not even a NaN.
Differs(r, o) == r.content # o.content \/ o.content \in NotANumber

Before(batch, k) == {batch[j] : j \in 1..(k - 1)}

\* Some observation of the batch differs from the record that already has its
\* id, in the file or earlier in the batch.
Conflicts(batch, lines) ==
  \E k \in DOMAIN batch : \E r \in Records(lines) \union Before(batch, k) :
    r.id = batch[k].id /\ Differs(r, batch[k])

\* The positions of the batch whose id is new to the file and to the batch so far.
Fresh(batch, lines) ==
  {k \in DOMAIN batch :
     \A r \in Records(lines) \union Before(batch, k) : r.id # batch[k].id}

\* os.write with O_APPEND: the line ends the current file, which it creates when
\* there is none.  After a line cut short it continues that line.
AppendLine(line, cut) ==
  LET f == Carrying(current)
      lines == IF f.cut THEN [f.lines EXCEPT ![Len(f.lines)] = Garbage]
                        ELSE Append(f.lines, line) IN
  /\ files' = IF current = 0 THEN Append(files, File(lines, 0, cut))
                             ELSE [files EXCEPT ![current] = File(lines, f.synced, cut)]
  /\ current' = IF current = 0 THEN Len(files) + 1 ELSE current
  /\ lapses' = IF cut \/ f.cut THEN lapses \union {"short"} ELSE lapses

\* Nothing is left to append, hence to fsync, and a record of the batch is on a line
\* that the death of its writer or a failed fsync left in the page cache only.
RestsOnUnsynced(batch) ==
  /\ Fresh(batch, Lines) = {}
  /\ \E i \in (Synced + 1)..Len(Lines), k \in DOMAIN batch : Lines[i].id = batch[k].id

\* An existing record under a fresh check: a file that cannot be read back raises,
\* a conflict raises before anything is appended.
MutCheckOneByOne(t) ==
  LET batch == call[t].job
      k == CHOOSE i \in 1..(Len(batch) + 1) :
             i \notin call[t].wrote /\ 1..(i - 1) \subseteq call[t].wrote IN
  /\ At(t, "check")
  /\ IF k > Len(batch) THEN
       /\ call' = [call EXCEPT ![t].at = "leave", ![t].answer = "accepted"]
       /\ UNCHANGED <<store, lapses>>
     ELSE IF Conflicts(<<batch[k]>>, Lines) THEN
       /\ call' = [call EXCEPT ![t].at = "leave", ![t].answer = "conflict"]
       /\ UNCHANGED <<store, lapses>>
     ELSE
       /\ call' = [call EXCEPT ![t].wrote = @ \union {k}]
       /\ \/ Fresh(<<batch[k]>>, Lines) # {} /\ AppendLine(Stored(batch[k]), FALSE)
          \/ Fresh(<<batch[k]>>, Lines) = {} /\ UNCHANGED <<store, lapses>>
  /\ UNCHANGED <<locks, reader, accepted, counts>>
Check(t) ==
  LET batch == call[t].job IN
  /\ At(t, "check")
  /\ \/ /\ ~Readable(Lines)
        /\ call' = [call EXCEPT ![t].at = "leave", ![t].answer = "error"]
     \/ /\ Readable(Lines) /\ Conflicts(batch, Lines)
        /\ call' = [call EXCEPT ![t].at = "leave", ![t].answer = "conflict"]
     \/ /\ Readable(Lines) /\ ~Conflicts(batch, Lines)
        /\ call' = [call EXCEPT ![t].at = "append", ![t].fresh = Fresh(batch, Lines)]
  /\ lapses' = IF call'[t].at = "append" /\ RestsOnUnsynced(batch)
               THEN lapses \union {"unsynced"} ELSE lapses
  /\ UNCHANGED <<store, locks, reader, accepted, counts>>

\* append() of the next new observation: a nested transaction around the write.
EnterAppend(t) ==
  /\ At(t, "append")
  /\ \/ /\ call[t].fresh # {}
        /\ depth' = [depth EXCEPT ![ProcessOf[t]] = @ + 1]
        /\ Goto(t, "write")
     \/ /\ call[t].fresh = {}
        /\ call' = [call EXCEPT ![t].at = "leave", ![t].answer = "accepted"]
        /\ UNCHANGED depth
  /\ UNCHANGED <<store, rlock, flock, reader, accepted, lapses, counts>>

IsNext(t, k) == k \in call[t].fresh /\ \A j \in call[t].fresh : k <= j

Write(t) ==
  /\ At(t, "write")
  /\ \E k \in DOMAIN call[t].job :
       /\ IsNext(t, k)
       /\ AppendLine(Stored(call[t].job[k]), FALSE)
       /\ call' = [call EXCEPT ![t].at = "leaveappend", ![t].fresh = @ \ {k},
                               ![t].wrote = @ \union {k}]
  /\ UNCHANGED <<locks, reader, accepted, counts>>

\* The fsync secures all lines of the file; then the nested transaction ends.
MutSyncLinesSkipped == UNCHANGED files
SyncLines == files' = [files EXCEPT ![current].synced = Len(Lines)]

LeaveAppend(t) ==
  /\ At(t, "leaveappend")
  /\ SyncLines
  /\ ExitTransaction(t)
  /\ Goto(t, "append")
  /\ UNCHANGED <<current, rlock, reader, accepted, lapses, counts>>

-----------------------------------------------------------------------------
\* compact_atomically: copy the readable records to a temporary file, then
\* replace the store's file by it.  An unreadable line raises.

MutCopyTruncates(t) ==
  /\ At(t, "copy")
  /\ call' = [call EXCEPT ![t].at = "replace", ![t].copy = Lines]
  /\ files' = IF current = 0 THEN files ELSE [files EXCEPT ![current].lines = <<>>]
  /\ UNCHANGED <<current, locks, reader, accepted, lapses, counts>>
Copy(t) ==
  /\ At(t, "copy")
  /\ \/ /\ Readable(Lines)
        /\ call' = [call EXCEPT ![t].at = "replace", ![t].copy = Lines]
     \/ /\ ~Readable(Lines)
        /\ call' = [call EXCEPT ![t].at = "leave", ![t].answer = "error"]
  /\ UNCHANGED <<store, locks, reader, accepted, lapses, counts>>

\* The temporary file is fsynced, then renamed; the directory is not fsynced.
MutCopiedUnsynced(lines) == File(lines, 0, FALSE)
Copied(lines) == File(lines, Len(lines), FALSE)

Replace(t) ==
  /\ At(t, "replace")
  /\ files' = Append(files, Copied(call[t].copy))
  /\ current' = Len(files) + 1
  /\ call' = [call EXCEPT ![t].at = "leave", ![t].answer = "accepted"]
  /\ UNCHANGED <<locks, reader, accepted, lapses, counts>>

-----------------------------------------------------------------------------
\* iter_observations without the lock.

Open(r) ==
  /\ reader[r].at = "idle"
  /\ reads < MaxReads
  /\ reads' = reads + 1
  /\ reader' = [reader EXCEPT ![r] =
       [at |-> IF current = 0 THEN "done" ELSE "reading",
        file |-> current, seen |-> <<>>, due |-> Lines]]
  /\ UNCHANGED <<store, locks, call, accepted, named, calls, faults, lapses>>

ReadLine(r) ==
  LET lines == files[reader[r].file].lines
      n == Len(reader[r].seen) + 1 IN
  /\ reader[r].at = "reading"
  /\ \/ /\ n \in DOMAIN lines /\ lines[n] # Garbage
        /\ reader' = [reader EXCEPT ![r].seen = Append(@, lines[n])]
     \/ /\ n \in DOMAIN lines /\ lines[n] = Garbage
        /\ reader' = [reader EXCEPT ![r].at = "failed"]
     \/ /\ n \notin DOMAIN lines
        /\ reader' = [reader EXCEPT ![r].at = "done"]
  /\ UNCHANGED <<store, locks, call, accepted, lapses, counts>>

Return(r) ==
  /\ reader[r].at \in {"done", "failed"}
  /\ reader' = [reader EXCEPT ![r] = NotReading]
  /\ UNCHANGED <<store, locks, call, accepted, lapses, counts>>

-----------------------------------------------------------------------------
\* Faults.

CountFault == faults < MaxFaults /\ faults' = faults + 1

\* The write raises (a full disk), or the fsync does: both transactions are left,
\* earlier observations of the batch stay.
WriteFails(t) ==
  /\ call[t].at \in {"write", "leaveappend"}
  /\ CountFault
  /\ ExitTransaction(t)
  /\ call' = [call EXCEPT ![t].at = "leave", ![t].answer = "error"]
  /\ UNCHANGED <<store, named, rlock, reader, accepted, calls, reads, lapses>>

\* write() puts down part of the line and reports it; append() ignores the count.
WritesShort(t) ==
  /\ At(t, "write")
  /\ CountFault
  /\ \E k \in DOMAIN call[t].job, whole \in BOOLEAN :
       /\ IsNext(t, k)
       /\ AppendLine(IF whole THEN Stored(call[t].job[k]) ELSE Garbage, TRUE)
       /\ call' = [call EXCEPT ![t].at = "leaveappend", ![t].fresh = @ \ {k},
                               ![t].wrote = @ \union {k}]
  /\ UNCHANGED <<locks, named, reader, accepted, calls, reads>>

\* A worker process is killed: its calls end and the kernel closes its lock file.
Kill(p) ==
  /\ \E t \in Thread : ProcessOf[t] = p /\ ~At(t, "idle")
  /\ CountFault
  /\ call' = [t \in Thread |-> IF ProcessOf[t] = p THEN Idle ELSE call[t]]
  /\ rlock' = [rlock EXCEPT ![p] = None]
  /\ depth' = [depth EXCEPT ![p] = 0]
  /\ flock' = IF flock = p THEN None ELSE flock
  /\ UNCHANGED <<store, named, reader, accepted, calls, reads, lapses>>

\* What a power loss can leave of a file: its fsynced lines and any number of those
\* after them, the last of these perhaps cut within its text or before its newline.
Remains(f) ==
  UNION {LET kept == SubSeq(f.lines, 1, n) IN
         {File(kept, n, f.cut /\ n = Len(f.lines))} \union
         (IF n = f.synced THEN {}
          ELSE {File(kept, n, TRUE), File([kept EXCEPT ![n] = Garbage], n, TRUE)}) :
         n \in f.synced..Len(f.lines)}

\* The machine loses power: every process ends, and the path names one of the
\* files it has named since the directory was last known to be on disk.
PowerLoss ==
  /\ CountFault
  /\ \E g \in named..current : \E f \in Remains(Carrying(g)) :
       /\ files' = IF g = 0 THEN <<>> ELSE <<f>>
       /\ current' = IF g = 0 THEN 0 ELSE 1
       /\ lapses' = IF IsPrefix(SubSeq(Lines, 1, Synced), f.lines) THEN lapses
                    ELSE lapses \union {"undone"}
  /\ named' = current'
  /\ rlock' = [p \in Process |-> None]
  /\ depth' = [p \in Process |-> 0]
  /\ flock' = None
  /\ call' = [t \in Thread |-> Idle]
  /\ reader' = [r \in Reader |-> NotReading]
  /\ UNCHANGED <<accepted, calls, reads>>

CallStep(t) ==
  \/ LockThread(t) \/ LockFile(t) \/ Check(t) \/ EnterAppend(t) \/ Write(t)
  \/ LeaveAppend(t) \/ Copy(t) \/ Replace(t) \/ Leave(t) \/ Answer(t)

Next ==
  \/ \E t \in Thread : \/ \E job \in Batch \union {<<>>} : Request(t, job)
                       \/ CallStep(t)
                       \/ WriteFails(t)
                       \/ WritesShort(t)
  \/ \E r \in Reader : Open(r) \/ ReadLine(r) \/ Return(r)
  \/ \E p \in Process : Kill(p)
  \/ PowerLoss

Spec == Init /\ [][Next]_vars

\* Threads keep running.  Requests are finitely many here, so no lock needs to
\* be fair: whoever waits is eventually the only one left to ask.
FairSpec == Spec /\ \A t \in Thread : WF_vars(CallStep(t))

-----------------------------------------------------------------------------
Step == {"rlock", "flock", "check", "append", "write", "leaveappend", "copy",
         "replace", "leave", "unlock"}
Outcome == {"none", "accepted", "conflict", "error"}

TypeOK ==
  /\ DOMAIN files = 1..Len(files)
  /\ \A g \in DOMAIN files :
       /\ files[g] = File(files[g].lines, files[g].synced, files[g].cut)
       /\ files[g].lines \in Seq(Line)
       /\ files[g].synced \in 0..Len(files[g].lines)
       /\ files[g].cut \in BOOLEAN
  /\ current \in 0..Len(files)
  /\ named \in 0..current
  /\ lapses \subseteq Lapse
  /\ rlock \in [Process -> Thread \union {None}]
  /\ depth \in [Process -> 0..2]
  /\ flock \in Process \union {None}
  /\ \A t \in Thread :
       /\ call[t].at \in Step \union {"idle"}
       /\ call[t].job \in Batch \union {<<>>}
       /\ call[t].fresh \subseteq DOMAIN call[t].job
       /\ call[t].wrote \subseteq DOMAIN call[t].job
       /\ call[t].copy \in Seq(Line)
       /\ call[t].answer \in Outcome
  /\ \A r \in Reader :
       /\ reader[r].at \in {"idle", "reading", "done", "failed"}
       /\ reader[r].file \in 0..Len(files)
       /\ reader[r].seen \in Seq(Line)
       /\ reader[r].due \in Seq(Line)
  /\ accepted \subseteq Observation

InTransactionNow(t) == call[t].at \in Step \ {"rlock", "flock", "unlock"}

\* The two-level lock: whoever is inside a transaction holds its process's RLock
\* and the file lock, at depth 1 or, inside append(), 2; so nobody else is inside,
\* in this process or another.
LockDiscipline ==
  \A t \in Thread :
    /\ InTransactionNow(t) =>
         /\ rlock[ProcessOf[t]] = t /\ flock = ProcessOf[t]
         /\ depth[ProcessOf[t]] = IF call[t].at \in {"write", "leaveappend"} THEN 2 ELSE 1
    /\ \A u \in Thread : InTransactionNow(t) /\ InTransactionNow(u) => t = u

\* No two lines carry the same observation id, whatever batches raced, were
\* redelivered, or were cut off between two of their appends.
UniqueIds ==
  \A i, j \in DOMAIN Lines :
    Lines[i] # Garbage /\ Lines[j] # Garbage /\ Lines[i].id = Lines[j].id => i = j

\* "never a silent drop": every observation of an accepted request is in the file
\* with the content that was accepted, through later compactions, kills and power
\* losses.  The three lapses are the ways in which append() and compaction do not
\* earn that: each takes a fault that the code does not look at.
AcceptedIsStored ==
  \/ lapses # {}
  \/ \A o \in accepted : \E r \in Records(Lines) : r.id = o.id /\ r.content = Stored(o).content

\* "a rejected source record never leaves a partial batch behind": a request that
\* is answered with a conflict has appended nothing.
RejectedLeavesNothing ==
  \A t \in Thread : call[t].answer = "conflict" => call[t].wrote = {}

\* A record once in the store keeps its place and its receipt for good: nothing,
\* compaction included, reorders, rewrites or removes records.  A power loss only cuts
\* the file, spoiling at most the last line it leaves; what follows a line that was put
\* down in part is beyond the promise.
Cuts(lines, left) ==
  /\ Len(left) <= Len(lines)
  /\ \A i \in DOMAIN left : left[i] = lines[i] \/ (i = Len(left) /\ left[i] = Garbage)
AppendOnly ==
  [][\/ IsPrefix(Lines, Lines')
     \/ "short" \in lapses'
     \/ faults' > faults /\ Cuts(Lines, Lines')]_vars

\* A lock-free reader, though compaction may replace the file under it, does not
\* fail while the file is readable, and returns a state that the store was in since
\* the reader opened it: all it held then, and nothing but what it holds now.
ReaderSeesSnapshot ==
  \A r \in Reader : reader[r].at # "idle" /\ Readable(Lines) =>
    /\ reader[r].at # "failed"
    /\ IsPrefix(reader[r].seen, Lines)
    /\ reader[r].at = "done" => IsPrefix(reader[r].due, reader[r].seen)

\* Every request ends: with an answer, or with its process.
EveryRequestEnds == \A t \in Thread : ~At(t, "idle") ~> At(t, "idle")

\* The store keeps the promises of ObservationLedger, faults included, until one of
\* the lapses.
Ledger == INSTANCE ObservationLedger WITH
            Observation <- {Stored(o) : o \in Observation} \union Observation,
            Same <- LAMBDA r, o : r.id = o.id /\ r.content = Stored(o).content,
            ledger <- Records(Lines),
            accepted <- accepted
ImplementsObservationLedger ==
  Ledger!Init /\ [][[Ledger!Next]_(Ledger!vars) \/ lapses' # {}]_vars
=============================================================================
