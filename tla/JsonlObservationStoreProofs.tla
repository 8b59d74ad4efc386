--------------------- MODULE JsonlObservationStoreProofs ----------------------
(***************************************************************************)
(* The observation store keeps its type, its two-level lock excludes, ids  *)
(* stay unique and conflicts leave nothing behind, for any processes,      *)
(* threads, batches and readers, through kills, short and failed writes    *)
(* and power losses.                                                       *)
(***************************************************************************)
EXTENDS JsonlObservationStore, SequenceTheorems, TLAPS

Steps == Step \union {"idle"}
Job == Batch \union {<<>>}
Call == [at: Steps, job: Job, fresh: SUBSET Nat, wrote: SUBSET Nat, copy: Seq(Line),
         answer: Outcome]
FileType == [lines: Seq(Line), synced: Nat, cut: BOOLEAN]
Reading == [at: {"idle", "reading", "done", "failed"}, file: Nat, seen: Seq(Line),
            due: Seq(Line)]

SoundFile(f) == f \in FileType /\ f.synced <= Len(f.lines)
SoundCall(c) == c \in Call /\ c.fresh \subseteq DOMAIN c.job /\ c.wrote \subseteq DOMAIN c.job
SoundReader(r) == r \in Reading /\ r.file <= Len(files) /\ (r.at = "reading" => r.file # 0)

FilesTyped ==
  /\ files \in Seq(FileType)
  /\ \A g \in DOMAIN files : SoundFile(files[g])
  /\ current = Len(files)
CallsTyped ==
  /\ call \in [Thread -> Call]
  /\ \A t \in Thread : SoundCall(call[t])
ReadersTyped ==
  /\ reader \in [Reader -> Reading]
  /\ \A r \in Reader : SoundReader(reader[r])
LocksTyped ==
  /\ rlock \in [Process -> Thread \union {None}]
  /\ depth \in [Process -> 0..2]
  /\ flock \in Process \union {None}
RestTyped ==
  /\ named \in 0..current
  /\ lapses \subseteq Lapse
  /\ accepted \subseteq Observation

\* The locks that a call holds at its step.
Inside == {"check", "append", "write", "leaveappend", "copy", "replace", "leave"}
Nested == {"write", "leaveappend"}
Holds(t) ==
  /\ call[t].at \in Inside \union {"flock", "unlock"} => rlock[ProcessOf[t]] = t
  /\ call[t].at \in Inside =>
       /\ flock = ProcessOf[t]
       /\ depth[ProcessOf[t]] = IF call[t].at \in Nested THEN 2 ELSE 1

\* A call has written nothing before its check, and nothing when that found a conflict.
WroteNothing(t) ==
  /\ call[t].at \in {"rlock", "flock", "check", "copy", "replace"} =>
       call[t].wrote = {} /\ call[t].answer = "none"
  /\ call[t].at \in {"append", "write", "leaveappend"} => call[t].answer = "none"
  /\ call[t].answer = "conflict" => call[t].wrote = {}

\* No two records among the lines have the same id.
UniqueLines(lines) ==
  \A i, j \in DOMAIN lines :
    lines[i] # Garbage /\ lines[j] # Garbage /\ lines[i].id = lines[j].id => i = j

\* No file that a power loss could bring back, and no copy of a compaction, repeats
\* an id; what a call has yet to write has ids of its own, new to the file.
FilesUnique == \A g \in DOMAIN files : UniqueLines(files[g].lines)
NewId(t, k) == \A i \in DOMAIN Lines : Lines[i] # Garbage => Lines[i].id # call[t].job[k].id
FreshIsNew(t) ==
  call[t].at \in {"append", "write", "leaveappend"} =>
    /\ \A k \in call[t].fresh : NewId(t, k)
    /\ \A j, k \in call[t].fresh : call[t].job[j].id = call[t].job[k].id => j = k

IInv ==
  /\ FilesTyped /\ CallsTyped /\ ReadersTyped /\ LocksTyped /\ RestTyped
  /\ FilesUnique
  /\ \A t \in Thread : Holds(t) /\ WroteNothing(t) /\ UniqueLines(call[t].copy) /\ FreshIsNew(t)

-----------------------------------------------------------------------------
\* Lines and files.

LEMMA StoredLine ==
  ASSUME NEW o \in Observation
  PROVE  Stored(o) \in Line /\ Stored(o).id = o.id
<1>1. Stored(o) \in Line
  BY DEF Line
<1>2. o = [id |-> o.id, content |-> o.content, receipt |-> o.receipt]
  BY ObservationAssumption
<1>3. [o EXCEPT !.content = Null].id = o.id
  BY <1>2
<1> QED  BY <1>1, <1>3 DEF Stored

LEMMA JobType ==
  ASSUME NEW job \in Job
  PROVE  /\ job \in Seq(Observation) /\ DOMAIN job \subseteq Nat
         /\ \A k \in DOMAIN job : job[k] \in Observation
<1>1. <<>> \in Seq(Observation)
  OBVIOUS
<1>2. job \in Seq(Observation)
  BY <1>1, BatchAssumption DEF Job
<1> QED  BY <1>2

LEMMA CarryingType ==
  ASSUME FilesTyped, NEW g \in 0..Len(files)
  PROVE  /\ SoundFile(Carrying(g)) /\ Carrying(g).lines \in Seq(Line)
         /\ FilesUnique => UniqueLines(Carrying(g).lines)
<1>1. CASE g = 0
  <2>1. <<>> \in Seq(Line) /\ Len(<<>>) = 0 /\ DOMAIN <<>> = {}
    OBVIOUS
  <2> QED  BY <1>1, <2>1 DEF Carrying, Absent, File, SoundFile, FileType, UniqueLines
<1>2. CASE g # 0
  <2>1. g \in DOMAIN files /\ Carrying(g) = files[g]
    BY <1>2 DEF FilesTyped, Carrying
  <2> QED  BY <2>1 DEF FilesTyped, SoundFile, FileType, FilesUnique
<1> QED  BY <1>1, <1>2

\* Garbage in place of a line.
LEMMA SpoiltLines ==
  ASSUME NEW lines \in Seq(Line), NEW n \in Nat
  PROVE  LET s == [lines EXCEPT ![n] = Garbage] IN
         /\ s \in Seq(Line) /\ Len(s) = Len(lines)
         /\ \A i \in DOMAIN s : i \in DOMAIN lines /\ (s[i] # Garbage => s[i] = lines[i])
<1> DEFINE s == [lines EXCEPT ![n] = Garbage]
<1>1. Garbage \in Line
  BY DEF Line
<1>2. s \in [1..Len(lines) -> Line]
  <2>1. lines \in [1..Len(lines) -> Line]
    OBVIOUS
  <2> QED  BY <1>1, <2>1
<1>3. s \in Seq(Line) /\ Len(s) = Len(lines)
  BY <1>2
<1>4. \A i \in DOMAIN s : i \in DOMAIN lines /\ (s[i] # Garbage => s[i] = lines[i])
  OBVIOUS
<1> QED  BY <1>3, <1>4

\* Lines whose records keep their places in lines without repetition repeat nothing.
LEMMA UniqueParts ==
  ASSUME NEW lines, NEW part, UniqueLines(lines),
         \A i \in DOMAIN part : i \in DOMAIN lines /\ (part[i] # Garbage => part[i] = lines[i])
  PROVE  UniqueLines(part)
BY DEF UniqueLines
-----------------------------------------------------------------------------
\* How each step changes its call.

\* Only t's call changes, into one of the right type.
OnlyOf(t) == call' \in [Thread -> Call] /\ \A u \in Thread \ {t} : call'[u] = call[u]
StepOf(t) == CallsTyped' /\ \A u \in Thread \ {t} : call'[u] = call[u]

LEMMA SoundStep ==
  ASSUME CallsTyped, NEW t \in Thread, OnlyOf(t), SoundCall(call'[t])
  PROVE  StepOf(t)
BY DEF CallsTyped, OnlyOf, StepOf

LEMMA StepSet ==
  /\ Steps = {"idle", "rlock", "flock", "check", "append", "write", "leaveappend", "copy",
              "replace", "leave", "unlock"}
  /\ Outcome = {"none", "accepted", "conflict", "error"}
  /\ Inside \subseteq Steps
BY DEF Steps, Step, Outcome, Inside

LEMMA IdleType ==
  /\ SoundCall(Idle) /\ Idle.at = "idle" /\ Idle.answer = "none" /\ Idle.wrote = {}
  /\ Idle.copy = <<>> /\ Idle.fresh = {}
<1>1. "idle" \in Steps /\ "none" \in Outcome /\ <<>> \in Job /\ <<>> \in Seq(Line)
  BY DEF Steps, Outcome, Job
<1> QED  BY <1>1 DEF Idle, Call, SoundCall

\* A call that is replaced as a whole.
LEMMA WholeCall ==
  ASSUME CallsTyped, NEW t \in Thread, NEW c, SoundCall(c), call' = [call EXCEPT ![t] = c]
  PROVE  StepOf(t) /\ call'[t] = c
BY DEF CallsTyped, SoundCall, StepOf

LEMMA RequestCall ==
  ASSUME CallsTyped, NEW t \in Thread, NEW job \in Job, Request(t, job)
  PROVE  /\ StepOf(t) /\ call'[t].at = "rlock" /\ call'[t].answer = "none"
         /\ call'[t].wrote = {} /\ call'[t].copy = <<>>
<1> DEFINE c == [Idle EXCEPT !.at = "rlock", !.job = job]
<1>1. call' = [call EXCEPT ![t] = c]
  BY DEF Request
<1>2. SoundCall(c) /\ c.at = "rlock" /\ c.answer = "none" /\ c.wrote = {} /\ c.copy = <<>>
  BY IdleType, StepSet DEF SoundCall, Call
<1> HIDE DEF c
<1> QED  BY <1>1, <1>2, WholeCall

LEMMA GotoCall ==
  ASSUME CallsTyped, NEW t \in Thread, NEW step \in Steps, Goto(t, step)
  PROVE  /\ StepOf(t) /\ call'[t].at = step
         /\ call'[t].job = call[t].job /\ call'[t].fresh = call[t].fresh
         /\ call'[t].wrote = call[t].wrote /\ call'[t].copy = call[t].copy
         /\ call'[t].answer = call[t].answer
<1>1. /\ OnlyOf(t) /\ call'[t].at = step
      /\ call'[t].job = call[t].job /\ call'[t].fresh = call[t].fresh
      /\ call'[t].wrote = call[t].wrote /\ call'[t].copy = call[t].copy
      /\ call'[t].answer = call[t].answer
  BY DEF Goto, OnlyOf, CallsTyped, Call
<1>2. SoundCall(call'[t])
  BY <1>1 DEF OnlyOf, CallsTyped, SoundCall
<1> QED  BY <1>1, <1>2, SoundStep

Leaves(t, answer) == call' = [call EXCEPT ![t].at = "leave", ![t].answer = answer]

LEMMA LeavesCall ==
  ASSUME CallsTyped, NEW t \in Thread, NEW answer \in Outcome, Leaves(t, answer)
  PROVE  /\ StepOf(t) /\ call'[t].at = "leave" /\ call'[t].answer = answer
         /\ call'[t].wrote = call[t].wrote /\ call'[t].copy = call[t].copy
         /\ call'[t].job = call[t].job
<1>1. /\ OnlyOf(t) /\ call'[t].at = "leave" /\ call'[t].answer = answer
      /\ call'[t].wrote = call[t].wrote /\ call'[t].copy = call[t].copy
      /\ call'[t].job = call[t].job /\ call'[t].fresh = call[t].fresh
  <2>1. "leave" \in Steps
    BY StepSet
  <2> QED  BY <2>1 DEF Leaves, OnlyOf, CallsTyped, Call
<1>2. SoundCall(call'[t])
  BY <1>1 DEF OnlyOf, CallsTyped, SoundCall
<1> QED  BY <1>1, <1>2, SoundStep

LEMMA CheckedCall ==
  ASSUME CallsTyped, NEW t \in Thread, NEW fresh \in SUBSET DOMAIN call[t].job,
         call' = [call EXCEPT ![t].at = "append", ![t].fresh = fresh]
  PROVE  /\ StepOf(t) /\ call'[t].at = "append" /\ call'[t].fresh = fresh
         /\ call'[t].job = call[t].job /\ call'[t].answer = call[t].answer
         /\ call'[t].copy = call[t].copy /\ call'[t].wrote = call[t].wrote
<1>1. call[t].job \in Job
  BY DEF CallsTyped, Call
<1>2. fresh \in SUBSET Nat /\ "append" \in Steps
  BY <1>1, JobType, StepSet
<1>3. /\ OnlyOf(t) /\ call'[t].at = "append" /\ call'[t].fresh = fresh
      /\ call'[t].job = call[t].job /\ call'[t].answer = call[t].answer
      /\ call'[t].copy = call[t].copy /\ call'[t].wrote = call[t].wrote
  BY <1>2 DEF OnlyOf, CallsTyped, Call
<1>4. SoundCall(call'[t])
  BY <1>3 DEF OnlyOf, CallsTyped, SoundCall
<1> QED  BY <1>3, <1>4, SoundStep

LEMMA WrittenCall ==
  ASSUME CallsTyped, NEW t \in Thread, NEW k \in DOMAIN call[t].job,
         call' = [call EXCEPT ![t].at = "leaveappend", ![t].fresh = @ \ {k},
                              ![t].wrote = @ \union {k}]
  PROVE  /\ StepOf(t) /\ call'[t].at = "leaveappend" /\ call'[t].fresh = call[t].fresh \ {k}
         /\ call'[t].job = call[t].job /\ call'[t].answer = call[t].answer
         /\ call'[t].copy = call[t].copy
<1>1. call[t].job \in Job
  BY DEF CallsTyped, Call
<1>2. k \in Nat /\ "leaveappend" \in Steps
  BY <1>1, JobType, StepSet
<1>3. /\ OnlyOf(t) /\ call'[t].at = "leaveappend" /\ call'[t].fresh = call[t].fresh \ {k}
      /\ call'[t].job = call[t].job /\ call'[t].answer = call[t].answer
      /\ call'[t].copy = call[t].copy /\ call'[t].wrote = call[t].wrote \union {k}
  BY <1>2 DEF OnlyOf, CallsTyped, Call
<1>4. SoundCall(call'[t])
  BY <1>3 DEF OnlyOf, CallsTyped, SoundCall
<1> QED  BY <1>3, <1>4, SoundStep

LEMMA CopiedCall ==
  ASSUME CallsTyped, NEW t \in Thread, NEW lines \in Seq(Line),
         call' = [call EXCEPT ![t].at = "replace", ![t].copy = lines]
  PROVE  /\ StepOf(t) /\ call'[t].at = "replace" /\ call'[t].copy = lines
         /\ call'[t].wrote = call[t].wrote /\ call'[t].answer = call[t].answer
         /\ call'[t].job = call[t].job
<1>1. /\ OnlyOf(t) /\ call'[t].at = "replace" /\ call'[t].copy = lines
      /\ call'[t].wrote = call[t].wrote /\ call'[t].answer = call[t].answer
      /\ call'[t].job = call[t].job /\ call'[t].fresh = call[t].fresh
  <2>1. "replace" \in Steps
    BY StepSet
  <2> QED  BY <2>1 DEF OnlyOf, CallsTyped, Call
<1>2. SoundCall(call'[t])
  BY <1>1 DEF OnlyOf, CallsTyped, SoundCall
<1> QED  BY <1>1, <1>2, SoundStep

-----------------------------------------------------------------------------
\* Locks.

Holding == Inside \union {"flock", "unlock"}

\* The threads that hold the locks exclude one another.
LEMMA Exclusion ==
  ASSUME IInv, NEW t \in Thread, NEW u \in Thread
  PROVE  /\ call[t].at \in Holding /\ call[u].at \in Holding /\ ProcessOf[t] = ProcessOf[u]
              => t = u
         /\ call[t].at \in Inside /\ call[u].at \in Inside => t = u
<1>1. Holds(t) /\ Holds(u)
  BY DEF IInv
<1> QED  BY <1>1 DEF Holds, Holding

\* A thread keeps its locks when nobody takes them from it.
LEMMA KeepsHolding ==
  ASSUME NEW u \in Thread, Holds(u), call'[u] = call[u],
         call[u].at \in Holding => rlock'[ProcessOf[u]] = rlock[ProcessOf[u]],
         call[u].at \in Inside =>
           flock' = flock /\ depth'[ProcessOf[u]] = depth[ProcessOf[u]]
  PROVE  Holds(u)'
BY DEF Holds, Holding

Locked == LocksTyped' /\ \A u \in Thread : Holds(u)'

LEMMA ThreadFacts ==
  ASSUME NEW t \in Thread
  PROVE  ProcessOf[t] \in Process /\ t # None /\ ProcessOf[t] # None
BY ProcessAssumption

LEMMA QuietLocks ==
  ASSUME IInv, NEW t \in Thread, StepOf(t), UNCHANGED locks, Holds(t)'
  PROVE  Locked
<1>1. LocksTyped'
  BY DEF IInv, LocksTyped, locks
<1>2. ASSUME NEW u \in Thread, u # t PROVE Holds(u)'
  <2>1. Holds(u) /\ call'[u] = call[u]
    BY <1>2 DEF IInv, StepOf
  <2> QED  BY <2>1, KeepsHolding DEF locks
<1> QED  BY <1>1, <1>2 DEF Locked

LEMMA LockThreadLocks ==
  ASSUME IInv, NEW t \in Thread, LockThread(t), StepOf(t), call'[t].at = "flock"
  PROVE  Locked
<1> USE ThreadFacts
<1>1. /\ rlock[ProcessOf[t]] = None /\ rlock' = [rlock EXCEPT ![ProcessOf[t]] = t]
      /\ UNCHANGED <<depth, flock>>
  BY DEF LockThread
<1>2. LocksTyped' /\ rlock'[ProcessOf[t]] = t
  BY <1>1 DEF IInv, LocksTyped
<1>3. ASSUME NEW u \in Thread, u # t PROVE Holds(u)'
  <2>1. Holds(u) /\ call'[u] = call[u]
    BY <1>3 DEF IInv, StepOf
  <2>2. call[u].at \in Holding => rlock[ProcessOf[u]] = u
    BY <2>1 DEF Holds, Holding
  <2>3. call[u].at \in Holding => rlock'[ProcessOf[u]] = rlock[ProcessOf[u]]
    BY <1>1, <2>2 DEF IInv, LocksTyped
  <2> QED  BY <1>1, <2>1, <2>3, KeepsHolding
<1>4. Holds(t)'
  BY <1>2 DEF Holds, Inside
<1> QED  BY <1>2, <1>3, <1>4 DEF Locked

LEMMA LockFileLocks ==
  ASSUME IInv, NEW t \in Thread, LockFile(t), StepOf(t), call'[t].at \in {"copy", "check"}
  PROVE  Locked
<1> USE ThreadFacts
<1>1. /\ flock = None /\ flock' = ProcessOf[t] /\ depth' = [depth EXCEPT ![ProcessOf[t]] = 1]
      /\ rlock' = rlock /\ call[t].at = "flock"
  BY DEF LockFile, FileLockFree, At
<1>2. LocksTyped' /\ depth'[ProcessOf[t]] = 1
  BY <1>1 DEF IInv, LocksTyped
<1>3. ASSUME NEW u \in Thread, u # t PROVE Holds(u)'
  <2>1. Holds(u) /\ call'[u] = call[u]
    BY <1>3 DEF IInv, StepOf
  <2>2. call[u].at \notin Inside
    BY <1>1, <2>1 DEF Holds
  <2> QED  BY <1>1, <2>1, <2>2, KeepsHolding
<1>4. Holds(t)'
  <2>1. rlock[ProcessOf[t]] = t
    BY <1>1 DEF IInv, Holds
  <2> QED  BY <1>1, <1>2, <2>1 DEF Holds, Nested
<1> QED  BY <1>2, <1>3, <1>4 DEF Locked

\* Whoever is inside alone has the use of the depth and the file lock.
LEMMA InsideLocks ==
  ASSUME IInv, NEW t \in Thread, StepOf(t), call[t].at \in Inside, rlock' = rlock,
         LocksTyped', Holds(t)',
         \A p \in Process \ {ProcessOf[t]} : depth'[p] = depth[p]
  PROVE  Locked
<1>1. ASSUME NEW u \in Thread, u # t PROVE Holds(u)'
  <2>1. Holds(u) /\ call'[u] = call[u]
    BY <1>1 DEF IInv, StepOf
  <2>2. call[u].at \notin Inside
    BY <1>1, Exclusion
  <2> QED  BY <2>1, <2>2, KeepsHolding
<1> QED  BY <1>1 DEF Locked

LEMMA ExitLocks ==
  ASSUME IInv, NEW t \in Thread, StepOf(t), call[t].at \in Inside, rlock' = rlock,
         ExitTransaction(t),
         IF call[t].at \in Nested THEN call'[t].at \in Inside \ Nested
                                  ELSE call'[t].at = "unlock"
  PROVE  Locked
<1> USE ThreadFacts
<1> DEFINE p == ProcessOf[t]
           d == depth[p] - 1
<1>1. /\ rlock[p] = t /\ flock = p
      /\ depth[p] = IF call[t].at \in Nested THEN 2 ELSE 1
  BY DEF IInv, Holds
<1>2. depth' = [depth EXCEPT ![p] = d] /\ flock' = IF d = 0 THEN None ELSE flock
  BY DEF ExitTransaction
<1>3. d \in 0..2 /\ (call[t].at \in Nested => d = 1)
  BY <1>1
<1>4. LocksTyped' /\ depth'[p] = d
  <2> HIDE DEF d
  <2> QED  BY <1>2, <1>3 DEF IInv, LocksTyped
<1>5. Holds(t)'
  <2>1. CASE call[t].at \in Nested
    BY <1>1, <1>2, <1>3, <1>4, <2>1 DEF Holds, Nested
  <2>2. CASE call[t].at \notin Nested
    BY <1>1, <2>2 DEF Holds, Inside
  <2> QED  BY <2>1, <2>2
<1>6. \A q \in Process \ {p} : depth'[q] = depth[q]
  BY <1>2 DEF IInv, LocksTyped
<1> QED  BY <1>4, <1>5, <1>6, InsideLocks

LEMMA EnterLocks ==
  ASSUME IInv, NEW t \in Thread, StepOf(t), call[t].at = "append", call'[t].at = "write",
         depth' = [depth EXCEPT ![ProcessOf[t]] = @ + 1], UNCHANGED <<rlock, flock>>
  PROVE  Locked
<1> USE ThreadFacts
<1> DEFINE p == ProcessOf[t]
<1>1. rlock[p] = t /\ flock = p /\ depth[p] = 1
  BY DEF IInv, Holds, Inside, Nested
<1>2. LocksTyped' /\ depth'[p] = 2
  BY <1>1 DEF IInv, LocksTyped
<1>3. Holds(t)'
  BY <1>1, <1>2 DEF Holds, Nested
<1>4. \A q \in Process \ {p} : depth'[q] = depth[q]
  BY DEF IInv, LocksTyped
<1> QED  BY <1>2, <1>3, <1>4, InsideLocks DEF Inside

LEMMA AnswerLocks ==
  ASSUME IInv, NEW t \in Thread, Answer(t), StepOf(t), call'[t].at = "idle"
  PROVE  Locked
<1> USE ThreadFacts
<1>1. /\ call[t].at = "unlock" /\ rlock' = [rlock EXCEPT ![ProcessOf[t]] = None]
      /\ UNCHANGED <<depth, flock>>
  BY DEF Answer, At
<1>2. LocksTyped'
  BY <1>1 DEF IInv, LocksTyped
<1>3. ASSUME NEW u \in Thread, u # t PROVE Holds(u)'
  <2>1. Holds(u) /\ call'[u] = call[u]
    BY <1>3 DEF IInv, StepOf
  <2>2. call[u].at \in Holding => ProcessOf[u] # ProcessOf[t]
    BY <1>1, <1>3, Exclusion DEF Holding
  <2>3. call[u].at \in Holding => rlock'[ProcessOf[u]] = rlock[ProcessOf[u]]
    BY <1>1, <2>2 DEF IInv, LocksTyped
  <2> QED  BY <1>1, <2>1, <2>3, KeepsHolding
<1>4. Holds(t)'
  BY DEF Holds, Inside
<1> QED  BY <1>2, <1>3, <1>4 DEF Locked

-----------------------------------------------------------------------------
\* The parts of a step that most actions share.

StoreSound == FilesTyped /\ FilesUnique /\ ReadersTyped /\ RestTyped
MyPart(t) == WroteNothing(t) /\ UniqueLines(call[t].copy) /\ FreshIsNew(t)

LEMMA QuietStore ==
  ASSUME IInv, UNCHANGED <<files, current, reader, accepted, named, lapses>>
  PROVE  StoreSound' /\ Lines' = Lines
<1>1. FilesTyped' /\ FilesUnique' /\ Lines' = Lines
  BY DEF IInv, FilesTyped, FilesUnique, Lines, Carrying
<1>2. ReadersTyped'
  BY DEF IInv, ReadersTyped, SoundReader
<1>3. RestTyped'
  BY DEF IInv, RestTyped
<1> QED  BY <1>1, <1>2, <1>3 DEF StoreSound

\* A step of a call leaves the others what they know, if it leaves the lines or is
\* inside, where no other is.
LEMMA Finish ==
  ASSUME IInv, NEW t \in Thread, StepOf(t), Locked, StoreSound', MyPart(t)',
         Lines' = Lines \/ call[t].at \in Inside
  PROVE  IInv'
<1>1. ASSUME NEW u \in Thread, u # t PROVE MyPart(u)'
  <2>1. call'[u] = call[u] /\ MyPart(u)
    BY <1>1 DEF IInv, StepOf, MyPart
  <2>2. FreshIsNew(u)'
    <3>1. CASE Lines' = Lines
      BY <2>1, <3>1 DEF MyPart, FreshIsNew, NewId
    <3>2. CASE call[t].at \in Inside
      <4>1. call[u].at \notin Inside
        BY <1>1, <3>2, Exclusion
      <4> QED  BY <2>1, <4>1 DEF FreshIsNew, Inside
    <3> QED  BY <3>1, <3>2
  <2>3. WroteNothing(u)' /\ UniqueLines(call[u].copy)'
    BY <2>1 DEF MyPart, WroteNothing
  <2> QED  BY <2>2, <2>3 DEF MyPart
<1> QED  BY <1>1 DEF IInv, StepOf, Locked, StoreSound, MyPart

\* A step of a call that only moves it on.
LEMMA MovedPart ==
  ASSUME IInv, NEW t \in Thread, WroteNothing(t)', call'[t].copy = call[t].copy,
         call'[t].at \in {"append", "write", "leaveappend"} =>
           /\ call[t].at \in {"append", "write", "leaveappend"}
           /\ call'[t].job = call[t].job /\ call'[t].fresh = call[t].fresh
           /\ Lines' = Lines
  PROVE  MyPart(t)'
<1>1. FreshIsNew(t) /\ UniqueLines(call[t].copy)
  BY DEF IInv
<1>2. FreshIsNew(t)'
  BY <1>1 DEF FreshIsNew, NewId
<1> QED  BY <1>1, <1>2 DEF MyPart

LEMMA EmptyIsUnique == UniqueLines(<<>>)
BY DEF UniqueLines

LEMMA RequestStep ==
  ASSUME IInv, NEW t \in Thread, NEW job \in Job, Request(t, job)
  PROVE  IInv'
<1>1. CallsTyped /\ UNCHANGED <<store, locks, reader, accepted, named, lapses>>
  BY DEF IInv, Request
<1>2. /\ StepOf(t) /\ call'[t].at = "rlock" /\ call'[t].answer = "none"
      /\ call'[t].wrote = {} /\ call'[t].copy = <<>>
  BY <1>1, RequestCall
<1>3. StoreSound' /\ Lines' = Lines
  BY <1>1, QuietStore DEF store
<1>4. MyPart(t)'
  BY <1>2, EmptyIsUnique DEF MyPart, WroteNothing, FreshIsNew
<1>5. Holds(t)'
  BY <1>2 DEF Holds, Inside
<1>6. Locked
  BY <1>1, <1>2, <1>5, QuietLocks
<1> QED  BY <1>2, <1>3, <1>4, <1>6, Finish

LEMMA LockThreadStep ==
  ASSUME IInv, NEW t \in Thread, LockThread(t)
  PROVE  IInv'
<1>1. /\ CallsTyped /\ UNCHANGED <<store, reader, accepted, lapses, counts>>
      /\ Goto(t, "flock") /\ call[t].at = "rlock" /\ WroteNothing(t)
  BY DEF IInv, LockThread, At
<1>2. /\ StepOf(t) /\ call'[t].at = "flock" /\ call'[t].wrote = call[t].wrote
      /\ call'[t].copy = call[t].copy /\ call'[t].answer = call[t].answer
  BY <1>1, GotoCall, StepSet
<1>3. StoreSound' /\ Lines' = Lines
  BY <1>1, QuietStore DEF store, counts
<1>4. MyPart(t)'
  <2>1. WroteNothing(t)'
    BY <1>1, <1>2 DEF WroteNothing
  <2> QED  BY <1>2, <2>1, MovedPart
<1> QED  BY <1>2, <1>3, <1>4, LockThreadLocks, Finish

LEMMA LockFileStep ==
  ASSUME IInv, NEW t \in Thread, LockFile(t)
  PROVE  IInv'
<1>1. /\ CallsTyped /\ UNCHANGED <<store, reader, accepted, lapses, counts>>
      /\ Goto(t, InTransaction(t)) /\ call[t].at = "flock" /\ WroteNothing(t)
  BY DEF IInv, LockFile, At
<1>2. InTransaction(t) \in {"copy", "check"} /\ InTransaction(t) \in Steps
  BY StepSet DEF InTransaction
<1>3. /\ StepOf(t) /\ call'[t].at \in {"copy", "check"} /\ call'[t].wrote = call[t].wrote
      /\ call'[t].copy = call[t].copy /\ call'[t].answer = call[t].answer
  BY <1>1, <1>2, GotoCall
<1>4. StoreSound' /\ Lines' = Lines
  BY <1>1, QuietStore DEF store, counts
<1>5. MyPart(t)'
  <2>1. WroteNothing(t)'
    BY <1>1, <1>3 DEF WroteNothing
  <2> QED  BY <1>3, <2>1, MovedPart
<1> QED  BY <1>3, <1>4, <1>5, LockFileLocks, Finish

LEMMA LeaveStep ==
  ASSUME IInv, NEW t \in Thread, Leave(t)
  PROVE  IInv'
<1>1. /\ CallsTyped /\ UNCHANGED <<store, rlock, reader, accepted, lapses, counts>>
      /\ Goto(t, "unlock") /\ call[t].at = "leave" /\ ExitTransaction(t) /\ WroteNothing(t)
  BY DEF IInv, Leave, At
<1>2. /\ StepOf(t) /\ call'[t].at = "unlock" /\ call'[t].wrote = call[t].wrote
      /\ call'[t].copy = call[t].copy /\ call'[t].answer = call[t].answer
  BY <1>1, GotoCall, StepSet
<1>3. StoreSound' /\ Lines' = Lines
  BY <1>1, QuietStore DEF store, counts
<1>4. MyPart(t)'
  <2>1. WroteNothing(t)'
    BY <1>1, <1>2 DEF WroteNothing
  <2> QED  BY <1>2, <2>1, MovedPart
<1>5. Locked
  BY <1>1, <1>2, ExitLocks DEF Inside, Nested
<1> QED  BY <1>2, <1>3, <1>4, <1>5, Finish

LEMMA AnswerStep ==
  ASSUME IInv, NEW t \in Thread, Answer(t)
  PROVE  IInv'
<1>1. /\ CallsTyped /\ UNCHANGED <<store, reader, lapses, counts>>
      /\ call' = [call EXCEPT ![t] = Idle] /\ RestTyped
      /\ accepted' = IF call[t].answer = "accepted" THEN accepted \union Range(call[t].job)
                                                   ELSE accepted
  BY DEF IInv, Answer
<1>2. StepOf(t) /\ call'[t] = Idle
  BY <1>1, IdleType, WholeCall
<1>3. FilesTyped' /\ FilesUnique' /\ ReadersTyped' /\ Lines' = Lines
  BY <1>1 DEF IInv, FilesTyped, FilesUnique, Lines, Carrying, ReadersTyped, SoundReader, store
<1>4. RestTyped'
  <2>1. call[t].job \in Job
    BY <1>1 DEF CallsTyped, Call
  <2>2. Range(call[t].job) \subseteq Observation
    BY <2>1, JobType DEF Range
  <2> QED  BY <1>1, <2>2 DEF RestTyped, store, counts
<1>5. MyPart(t)'
  BY <1>2, IdleType, EmptyIsUnique DEF MyPart, WroteNothing, FreshIsNew
<1>6. Locked
  BY <1>2, IdleType, AnswerLocks
<1> QED  BY <1>2, <1>3, <1>4, <1>5, <1>6, Finish DEF StoreSound

-----------------------------------------------------------------------------
\* The admission.

\* The new positions of a batch have ids that no line, and no other of them, has.
LEMMA FreshIds ==
  ASSUME NEW batch \in Seq(Observation), NEW lines \in Seq(Line)
  PROVE  /\ Fresh(batch, lines) \subseteq DOMAIN batch
         /\ \A k \in Fresh(batch, lines), i \in DOMAIN lines :
              lines[i] # Garbage => lines[i].id # batch[k].id
         /\ \A j, k \in Fresh(batch, lines) : batch[j].id = batch[k].id => j = k
<1>1. Fresh(batch, lines) \subseteq DOMAIN batch
  BY DEF Fresh
<1>2. ASSUME NEW k \in Fresh(batch, lines), NEW i \in DOMAIN lines, lines[i] # Garbage
      PROVE  lines[i].id # batch[k].id
  <2>1. lines[i] \in Records(lines)
    BY <1>2 DEF Records, Range
  <2> QED  BY <2>1 DEF Fresh
<1>3. ASSUME NEW j \in Fresh(batch, lines), NEW k \in Fresh(batch, lines), j < k
      PROVE  batch[j].id # batch[k].id
  <2>1. j \in DOMAIN batch /\ k \in DOMAIN batch /\ j \in Nat /\ k \in Nat /\ j >= 1
    BY <1>1
  <2>2. j \in 1..(k - 1)
    BY <2>1, <1>3
  <2>3. batch[j] \in Before(batch, k)
    BY <2>2 DEF Before
  <2> QED  BY <2>3 DEF Fresh
<1>4. \A k \in Fresh(batch, lines) : k \in Nat
  BY <1>1
<1>5. ASSUME NEW j \in Fresh(batch, lines), NEW k \in Fresh(batch, lines),
             batch[j].id = batch[k].id
      PROVE  j = k
  <2>1. ~(j < k) /\ ~(k < j)
    BY <1>3, <1>5
  <2> QED  BY <1>4, <2>1
<1> QED  BY <1>1, <1>2, <1>5

LEMMA LinesType ==
  ASSUME IInv
  PROVE  /\ SoundFile(Carrying(current)) /\ Lines \in Seq(Line) /\ UniqueLines(Lines)
         /\ Len(files) \in Nat /\ current \in 0..Len(files)
<1>1. FilesTyped /\ FilesUnique /\ current \in 0..Len(files) /\ Len(files) \in Nat
  BY DEF IInv, FilesTyped
<1> QED  BY <1>1, CarryingType DEF Lines

LEMMA CheckStep ==
  ASSUME IInv, NEW t \in Thread, Check(t)
  PROVE  IInv'
<1> DEFINE batch == call[t].job
           fresh == Fresh(batch, Lines)
<1>1. /\ CallsTyped /\ UNCHANGED <<store, locks, reader, accepted, counts>>
      /\ call[t].at = "check" /\ WroteNothing(t) /\ Holds(t)
  BY DEF IInv, Check, At
<1>2. batch \in Job /\ batch \in Seq(Observation)
  BY <1>1, JobType DEF CallsTyped, Call
<1>3. /\ fresh \in SUBSET DOMAIN batch
      /\ \A k \in fresh, i \in DOMAIN Lines : Lines[i] # Garbage => Lines[i].id # batch[k].id
      /\ \A j, k \in fresh : batch[j].id = batch[k].id => j = k
  BY <1>2, LinesType, FreshIds
<1>4. StoreSound' /\ Lines' = Lines
  <2>1. lapses \subseteq Lapse /\ RestTyped
    BY DEF IInv, RestTyped
  <2>2. lapses' \subseteq Lapse
    BY <2>1 DEF Check, Lapse
  <2>3. FilesTyped' /\ FilesUnique' /\ ReadersTyped' /\ Lines' = Lines
    BY <1>1 DEF IInv, FilesTyped, FilesUnique, Lines, Carrying, ReadersTyped, SoundReader, store
  <2>4. RestTyped'
    BY <1>1, <2>1, <2>2 DEF RestTyped, store, counts
  <2> QED  BY <2>3, <2>4 DEF StoreSound
<1>5. \/ Leaves(t, "error") \/ Leaves(t, "conflict")
      \/ call' = [call EXCEPT ![t].at = "append", ![t].fresh = fresh]
  BY DEF Check, Leaves
<1>6. ASSUME NEW answer \in Outcome, Leaves(t, answer)
      PROVE  StepOf(t) /\ MyPart(t)' /\ call'[t].at = "leave"
  <2>1. /\ StepOf(t) /\ call'[t].at = "leave" /\ call'[t].wrote = call[t].wrote
        /\ call'[t].copy = call[t].copy
    BY <1>1, <1>6, LeavesCall
  <2>2. WroteNothing(t)'
    BY <1>1, <2>1 DEF WroteNothing
  <2> QED  BY <2>1, <2>2, MovedPart
<1>7. ASSUME call' = [call EXCEPT ![t].at = "append", ![t].fresh = fresh]
      PROVE  StepOf(t) /\ MyPart(t)' /\ call'[t].at = "append"
  <2>1. /\ StepOf(t) /\ call'[t].at = "append" /\ call'[t].fresh = fresh
        /\ call'[t].job = call[t].job /\ call'[t].answer = call[t].answer
        /\ call'[t].copy = call[t].copy /\ call'[t].wrote = call[t].wrote
    BY <1>1, <1>3, <1>7, CheckedCall
  <2>2. WroteNothing(t)'
    BY <1>1, <2>1 DEF WroteNothing
  <2>3. FreshIsNew(t)'
    <3> HIDE DEF fresh
    <3> QED  BY <1>3, <1>4, <2>1 DEF FreshIsNew, NewId
  <2>4. UniqueLines(call[t].copy)'
    BY <2>1 DEF IInv
  <2> QED  BY <2>1, <2>2, <2>3, <2>4 DEF MyPart
<1>8. StepOf(t) /\ MyPart(t)' /\ call'[t].at \in {"leave", "append"}
  BY <1>5, <1>6, <1>7, StepSet
<1>9. Locked
  <2>1. Holds(t)'
    BY <1>1, <1>8 DEF Holds, Inside, Nested, locks
  <2> QED  BY <1>1, <1>8, <2>1, QuietLocks
<1> QED  BY <1>4, <1>8, <1>9, Finish

LEMMA EnterAppendStep ==
  ASSUME IInv, NEW t \in Thread, EnterAppend(t)
  PROVE  IInv'
<1>1. /\ CallsTyped /\ UNCHANGED <<store, rlock, flock, reader, accepted, lapses, counts>>
      /\ call[t].at = "append" /\ WroteNothing(t) /\ Holds(t)
  BY DEF IInv, EnterAppend, At
<1>2. StoreSound' /\ Lines' = Lines
  BY <1>1, QuietStore DEF store, counts
<1>3. CASE Goto(t, "write") /\ depth' = [depth EXCEPT ![ProcessOf[t]] = @ + 1]
  <2>1. /\ StepOf(t) /\ call'[t].at = "write"
        /\ call'[t].job = call[t].job /\ call'[t].fresh = call[t].fresh
        /\ call'[t].wrote = call[t].wrote /\ call'[t].copy = call[t].copy
        /\ call'[t].answer = call[t].answer
    BY <1>1, <1>3, GotoCall, StepSet
  <2>2. MyPart(t)'
    <3>1. WroteNothing(t)'
      BY <1>1, <2>1 DEF WroteNothing
    <3> QED  BY <1>1, <1>2, <2>1, <3>1, MovedPart
  <2>3. Locked
    BY <1>1, <1>3, <2>1, EnterLocks
  <2> QED  BY <1>2, <2>1, <2>2, <2>3, Finish
<1>4. CASE Leaves(t, "accepted") /\ UNCHANGED depth
  <2>1. /\ StepOf(t) /\ call'[t].at = "leave" /\ call'[t].answer = "accepted"
        /\ call'[t].copy = call[t].copy
    BY <1>1, <1>4, LeavesCall, StepSet
  <2>2. MyPart(t)'
    <3>1. WroteNothing(t)'
      BY <2>1 DEF WroteNothing
    <3> QED  BY <2>1, <3>1, MovedPart
  <2>3. Locked
    <3>1. Holds(t)'
      BY <1>1, <1>4, <2>1 DEF Holds, Inside, Nested
    <3> QED  BY <1>1, <1>4, <2>1, <3>1, QuietLocks DEF locks
  <2> QED  BY <1>2, <2>1, <2>2, <2>3, Finish
<1> QED  BY <1>3, <1>4 DEF EnterAppend, Leaves

\* A line of a new id at the end of the lines, or garbage there.
NewTo(line, lines) ==
  line # Garbage => \A i \in DOMAIN lines : lines[i] # Garbage => lines[i].id # line.id

LEMMA AppendedLines ==
  ASSUME NEW lines \in Seq(Line), NEW line \in Line, UniqueLines(lines), NewTo(line, lines)
  PROVE  LET s == Append(lines, line) IN
         /\ s \in Seq(Line) /\ Len(s) = Len(lines) + 1 /\ UniqueLines(s)
         /\ \A i \in DOMAIN s : s[i] = line \/ (i \in DOMAIN lines /\ s[i] = lines[i])
<1> DEFINE s == Append(lines, line)
<1>1. s \in Seq(Line) /\ Len(s) = Len(lines) + 1
  OBVIOUS
<1>2. \A i \in DOMAIN s : \/ i = Len(lines) + 1 /\ s[i] = line
                          \/ i \in DOMAIN lines /\ s[i] = lines[i]
  OBVIOUS
<1>3. UniqueLines(s)
  <2> HIDE DEF s
  <2> QED  BY <1>2 DEF UniqueLines, NewTo
<1> QED  BY <1>1, <1>2, <1>3

\* A file of the store is replaced, or one is added.
LEMMA FilesReplaced ==
  ASSUME FilesTyped, FilesUnique, NEW f, SoundFile(f), UniqueLines(f.lines),
         NEW g \in DOMAIN files, files' = [files EXCEPT ![g] = f], current' = current
  PROVE  FilesTyped' /\ FilesUnique' /\ Len(files') = Len(files)
<1>1. f \in FileType /\ files \in Seq(FileType) /\ current \in 0..Len(files)
  BY DEF SoundFile, FilesTyped
<1>2. files' \in Seq(FileType) /\ Len(files') = Len(files) /\ DOMAIN files' = DOMAIN files
  BY <1>1
<1>3. \A h \in DOMAIN files' : files'[h] = IF h = g THEN f ELSE files[h]
  BY <1>1
<1>4. \A h \in DOMAIN files' : SoundFile(files'[h]) /\ UniqueLines(files'[h].lines)
  BY <1>2, <1>3 DEF FilesTyped, FilesUnique
<1> QED  BY <1>1, <1>2, <1>4 DEF FilesTyped, FilesUnique

LEMMA FileAdded ==
  ASSUME FilesTyped, FilesUnique, NEW f, SoundFile(f), UniqueLines(f.lines),
         files' = Append(files, f), current' = Len(files) + 1
  PROVE  /\ FilesTyped' /\ FilesUnique' /\ Len(files') = Len(files) + 1
         /\ files'[current'] = f
<1>1. f \in FileType /\ files \in Seq(FileType) /\ Len(files) \in Nat
  BY DEF SoundFile, FilesTyped
<1>2. files' \in Seq(FileType) /\ Len(files') = Len(files) + 1
  BY <1>1
<1>3. \A h \in DOMAIN files' : \/ h = Len(files) + 1 /\ files'[h] = f
                               \/ h \in DOMAIN files /\ files'[h] = files[h]
  BY <1>1
<1>4. \A h \in DOMAIN files' : SoundFile(files'[h]) /\ UniqueLines(files'[h].lines)
  BY <1>3 DEF FilesTyped, FilesUnique
<1>5. current' \in 0..Len(files') /\ files'[current'] = f
  BY <1>1, <1>2
<1> QED  BY <1>2, <1>4, <1>5 DEF FilesTyped, FilesUnique

LEMMA AppendLineFiles ==
  ASSUME IInv, NEW line \in Line, NEW cut \in BOOLEAN, AppendLine(line, cut), NewTo(line, Lines)
  PROVE  /\ FilesTyped' /\ FilesUnique' /\ Len(files') >= Len(files) /\ current' >= current
         /\ lapses' \subseteq Lapse
         /\ \A i \in DOMAIN Lines' : Lines'[i] # Garbage =>
              Lines'[i] = line \/ (i \in DOMAIN Lines /\ Lines'[i] = Lines[i])
<1> DEFINE f == Carrying(current)
           spoilt == [f.lines EXCEPT ![Len(f.lines)] = Garbage]
           lines == IF f.cut THEN spoilt ELSE Append(f.lines, line)
<1>1. /\ SoundFile(f) /\ f.lines = Lines /\ Lines \in Seq(Line) /\ UniqueLines(Lines)
      /\ Len(files) \in Nat /\ current \in 0..Len(files) /\ FilesTyped /\ FilesUnique
      /\ Len(Lines) \in Nat
  BY LinesType DEF Lines, IInv
<1>2. /\ lines \in Seq(Line) /\ UniqueLines(lines) /\ Len(lines) \in Nat
      /\ Len(lines) >= Len(Lines)
      /\ \A i \in DOMAIN lines : lines[i] # Garbage =>
           lines[i] = line \/ (i \in DOMAIN Lines /\ lines[i] = Lines[i])
  <2>1. CASE f.cut
    <3>1. lines = [Lines EXCEPT ![Len(Lines)] = Garbage]
      BY <1>1, <2>1
    <3>2. /\ lines \in Seq(Line) /\ Len(lines) = Len(Lines)
          /\ \A i \in DOMAIN lines : i \in DOMAIN Lines /\ (lines[i] # Garbage => lines[i] = Lines[i])
      <4> HIDE DEF lines
      <4> QED  BY <1>1, <3>1, SpoiltLines
    <3> HIDE DEF lines
    <3>3. UniqueLines(lines)
      BY <1>1, <3>2, UniqueParts
    <3> QED  BY <1>1, <3>2, <3>3
  <2>2. CASE ~f.cut
    <3>1. lines = Append(Lines, line)
      BY <1>1, <2>2
    <3> HIDE DEF lines
    <3>2. /\ lines \in Seq(Line) /\ Len(lines) = Len(Lines) + 1 /\ UniqueLines(lines)
          /\ \A i \in DOMAIN lines : lines[i] = line \/ (i \in DOMAIN Lines /\ lines[i] = Lines[i])
      BY <1>1, <3>1, AppendedLines
    <3> QED  BY <1>1, <3>2
  <2> QED  BY <2>1, <2>2
<1>3. /\ files' = IF current = 0 THEN Append(files, File(lines, 0, cut))
                  ELSE [files EXCEPT ![current] = File(lines, f.synced, cut)]
      /\ current' = IF current = 0 THEN Len(files) + 1 ELSE current
      /\ lapses' \subseteq lapses \union {"short"}
  BY DEF AppendLine
<1>4. lapses' \subseteq Lapse
  BY <1>3 DEF Lapse, IInv, RestTyped
<1>5. f.synced \in Nat /\ f.synced <= Len(Lines)
  BY <1>1 DEF SoundFile, FileType
<1> HIDE DEF lines, f
<1>6. ASSUME NEW n \in Nat, n <= Len(lines)
      PROVE  LET nf == File(lines, n, cut) IN
             SoundFile(nf) /\ UniqueLines(nf.lines) /\ nf.lines = lines
  BY <1>2, <1>6 DEF SoundFile, FileType, File
<1>7. CASE current = 0
  <2> DEFINE nf == File(lines, 0, cut)
  <2>1. SoundFile(nf) /\ UniqueLines(nf.lines) /\ nf.lines = lines
    BY <1>2, <1>6
  <2>2. files' = Append(files, nf) /\ current' = Len(files) + 1
    BY <1>3, <1>7
  <2> HIDE DEF nf
  <2>3. FilesTyped' /\ FilesUnique' /\ Len(files') = Len(files) + 1 /\ files'[current'] = nf
    BY <1>1, <2>1, <2>2, FileAdded
  <2>4. Lines' = lines
    BY <1>1, <2>1, <2>2, <2>3 DEF Lines, Carrying
  <2> QED  BY <1>1, <1>2, <1>4, <1>7, <2>2, <2>3, <2>4
<1>8. CASE current # 0
  <2> DEFINE nf == File(lines, f.synced, cut)
  <2>1. SoundFile(nf) /\ UniqueLines(nf.lines) /\ nf.lines = lines
    BY <1>1, <1>2, <1>5, <1>6
  <2>2. files' = [files EXCEPT ![current] = nf] /\ current' = current
    BY <1>3, <1>8
  <2>3. current \in DOMAIN files
    BY <1>1, <1>8 DEF FilesTyped
  <2> HIDE DEF nf
  <2>4. FilesTyped' /\ FilesUnique' /\ Len(files') = Len(files)
    BY <1>1, <2>1, <2>2, <2>3, FilesReplaced
  <2>5. files'[current'] = nf
    BY <2>2, <2>3
  <2>6. Lines' = lines
    BY <1>8, <2>1, <2>2, <2>5 DEF Lines, Carrying
  <2> QED  BY <1>1, <1>2, <1>4, <2>2, <2>4, <2>6
<1> QED  BY <1>7, <1>8

\* A write, whole or short.
Writes(t, k, line, cut) ==
  /\ call[t].at = "write" /\ IsNext(t, k) /\ AppendLine(line, cut)
  /\ call' = [call EXCEPT ![t].at = "leaveappend", ![t].fresh = @ \ {k},
                          ![t].wrote = @ \union {k}]
  /\ UNCHANGED <<locks, named, reader, accepted>>

LEMMA WritesStep ==
  ASSUME IInv, NEW t \in Thread, NEW k \in DOMAIN call[t].job, NEW line \in Line,
         NEW cut \in BOOLEAN, Writes(t, k, line, cut),
         line = Garbage \/ line = Stored(call[t].job[k])
  PROVE  IInv'
<1>1. /\ CallsTyped /\ WroteNothing(t) /\ Holds(t) /\ FreshIsNew(t) /\ UniqueLines(call[t].copy)
      /\ call[t].at = "write" /\ k \in call[t].fresh /\ AppendLine(line, cut)
      /\ call' = [call EXCEPT ![t].at = "leaveappend", ![t].fresh = @ \ {k},
                              ![t].wrote = @ \union {k}]
      /\ UNCHANGED <<locks, named, reader, accepted>>
  BY DEF IInv, Writes, IsNext
<1>2. /\ StepOf(t) /\ call'[t].at = "leaveappend" /\ call'[t].fresh = call[t].fresh \ {k}
      /\ call'[t].job = call[t].job /\ call'[t].answer = call[t].answer
      /\ call'[t].copy = call[t].copy
  BY <1>1, WrittenCall
<1>3. line # Garbage => line.id = call[t].job[k].id
  <2>1. call[t].job \in Job
    BY <1>1 DEF CallsTyped, Call
  <2>2. call[t].job[k] \in Observation
    BY <2>1, JobType
  <2> QED  BY <2>2, StoredLine
<1>4. NewTo(line, Lines)
  BY <1>1, <1>3 DEF NewTo, FreshIsNew, NewId
<1>5. /\ FilesTyped' /\ FilesUnique' /\ Len(files') >= Len(files) /\ current' >= current
      /\ lapses' \subseteq Lapse
      /\ \A i \in DOMAIN Lines' : Lines'[i] # Garbage =>
           Lines'[i] = line \/ (i \in DOMAIN Lines /\ Lines'[i] = Lines[i])
  BY <1>1, <1>4, AppendLineFiles
<1>6. StoreSound'
  <2>1. /\ Len(files) \in Nat /\ Len(files') \in Nat /\ current \in Nat /\ current' \in Nat
        /\ named \in 0..current
    BY <1>5 DEF FilesTyped, IInv, RestTyped
  <2>2. ReadersTyped'
    <3>1. \A r \in Reader : reader[r].file \in Nat
      BY DEF IInv, ReadersTyped, Reading
    <3> QED  BY <1>1, <1>5, <2>1, <3>1 DEF IInv, ReadersTyped, SoundReader
  <2>3. RestTyped'
    BY <1>1, <1>5, <2>1 DEF IInv, RestTyped
  <2> QED  BY <1>5, <2>2, <2>3 DEF StoreSound
<1>7. MyPart(t)'
  <2>1. WroteNothing(t)'
    BY <1>1, <1>2 DEF WroteNothing
  <2>2. FreshIsNew(t)'
    <3>1. ASSUME NEW j \in call'[t].fresh, NEW i \in DOMAIN Lines', Lines'[i] # Garbage
          PROVE  Lines'[i].id # call'[t].job[j].id
      <4>1. j \in call[t].fresh /\ j # k
        BY <1>2
      <4>2. CASE Lines'[i] = line
        BY <1>1, <1>2, <1>3, <3>1, <4>1, <4>2 DEF FreshIsNew
      <4>3. CASE i \in DOMAIN Lines /\ Lines'[i] = Lines[i]
        <5>1. NewId(t, j)
          BY <1>1, <4>1 DEF FreshIsNew
        <5>2. Lines[i].id # call[t].job[j].id
          BY <3>1, <4>3, <5>1 DEF NewId
        <5> QED  BY <1>2, <4>3, <5>2
      <4>4. Lines'[i] = line \/ (i \in DOMAIN Lines /\ Lines'[i] = Lines[i])
        BY <1>5, <3>1
      <4> QED  BY <4>2, <4>3, <4>4
    <3>2. \A i, j \in call'[t].fresh : call'[t].job[i].id = call'[t].job[j].id => i = j
      <4>1. \A i, j \in call[t].fresh : call[t].job[i].id = call[t].job[j].id => i = j
        BY <1>1 DEF FreshIsNew
      <4>2. call'[t].fresh \subseteq call[t].fresh /\ call'[t].job = call[t].job
        BY <1>2
      <4> QED  BY <4>1, <4>2
    <3> QED  BY <3>1, <3>2 DEF FreshIsNew, NewId
  <2> QED  BY <1>1, <1>2, <2>1, <2>2 DEF MyPart
<1>8. Locked
  <2>1. Holds(t)'
    BY <1>1, <1>2 DEF Holds, Inside, Nested, locks
  <2> QED  BY <1>1, <1>2, <2>1, QuietLocks
<1> QED  BY <1>1, <1>2, <1>6, <1>7, <1>8, Finish DEF Inside

LEMMA WriteStep ==
  ASSUME IInv, NEW t \in Thread, Write(t) \/ WritesShort(t)
  PROVE  IInv'
<1>1. /\ call[t].at = "write" /\ UNCHANGED <<locks, named, reader, accepted>>
      /\ \E k \in DOMAIN call[t].job :
         \E line \in {Stored(call[t].job[k]), Garbage}, cut \in BOOLEAN :
           /\ IsNext(t, k) /\ AppendLine(line, cut)
           /\ call' = [call EXCEPT ![t].at = "leaveappend", ![t].fresh = @ \ {k},
                                   ![t].wrote = @ \union {k}]
  <2>1. CASE Write(t)
    BY <2>1 DEF Write, At, counts
  <2>2. CASE WritesShort(t)
    <3>1. PICK k \in DOMAIN call[t].job, whole \in BOOLEAN :
            /\ IsNext(t, k)
            /\ AppendLine(IF whole THEN Stored(call[t].job[k]) ELSE Garbage, TRUE)
            /\ call' = [call EXCEPT ![t].at = "leaveappend", ![t].fresh = @ \ {k},
                                    ![t].wrote = @ \union {k}]
      BY <2>2 DEF WritesShort
    <3>2. CASE whole
      BY <2>2, <3>1, <3>2 DEF WritesShort, At
    <3>3. CASE ~whole
      BY <2>2, <3>1, <3>3 DEF WritesShort, At
    <3> QED  BY <3>2, <3>3
  <2> QED  BY <2>1, <2>2
<1>2. PICK k \in DOMAIN call[t].job :
        \E line \in {Stored(call[t].job[k]), Garbage}, cut \in BOOLEAN : Writes(t, k, line, cut)
  BY <1>1 DEF Writes
<1>3. PICK line \in {Stored(call[t].job[k]), Garbage}, cut \in BOOLEAN : Writes(t, k, line, cut)
  BY <1>2
<1>4. line \in Line
  <2>1. call[t].job \in Job
    BY DEF IInv, CallsTyped, Call
  <2>2. call[t].job[k] \in Observation
    BY <2>1, JobType
  <2> QED  BY <2>2, StoredLine DEF Line
<1> QED  BY <1>3, <1>4, WritesStep

LEMMA WriteFailsStep ==
  ASSUME IInv, NEW t \in Thread, WriteFails(t)
  PROVE  IInv'
<1>1. /\ CallsTyped /\ UNCHANGED <<store, named, rlock, reader, accepted, lapses>>
      /\ Leaves(t, "error") /\ call[t].at \in Nested /\ ExitTransaction(t)
  BY DEF IInv, WriteFails, Leaves, Nested
<1>2. /\ StepOf(t) /\ call'[t].at = "leave" /\ call'[t].answer = "error"
      /\ call'[t].copy = call[t].copy
  BY <1>1, LeavesCall, StepSet
<1>3. StoreSound' /\ Lines' = Lines
  BY <1>1, QuietStore DEF store
<1>4. MyPart(t)'
  <2>1. WroteNothing(t)'
    BY <1>2 DEF WroteNothing
  <2> QED  BY <1>2, <2>1, MovedPart
<1>5. Locked
  BY <1>1, <1>2, ExitLocks DEF Inside, Nested
<1> QED  BY <1>2, <1>3, <1>4, <1>5, Finish

LEMMA SyncedFiles ==
  ASSUME IInv, SyncLines, current' = current
  PROVE  FilesTyped' /\ FilesUnique' /\ Len(files') = Len(files) /\ Lines' = Lines
<1>1. /\ FilesTyped /\ FilesUnique /\ Lines \in Seq(Line) /\ UniqueLines(Lines)
      /\ current \in 0..Len(files) /\ files \in Seq(FileType) /\ Len(files) \in Nat
      /\ Len(Lines) \in Nat
  BY LinesType DEF IInv, FilesTyped
<1>2. files' = [files EXCEPT ![current].synced = Len(Lines)]
  BY DEF SyncLines
<1>3. CASE current = 0
  <2>1. current \notin DOMAIN files
    BY <1>1, <1>3
  <2>2. files' = files
    BY <1>1, <1>2, <2>1
  <2> QED  BY <1>1, <2>2 DEF FilesTyped, FilesUnique, Lines, Carrying
<1>4. CASE current # 0
  <2> DEFINE f == files[current]
             nf == [f EXCEPT !.synced = Len(Lines)]
  <2>1. current \in DOMAIN files /\ f \in FileType /\ f.lines = Lines
    BY <1>1, <1>4 DEF Lines, Carrying
  <2>2. nf \in FileType /\ nf.lines = Lines /\ nf.synced = Len(Lines)
    BY <1>1, <2>1 DEF FileType
  <2>3. SoundFile(nf) /\ UniqueLines(nf.lines)
    BY <1>1, <2>2 DEF SoundFile
  <2>4. files' = [files EXCEPT ![current] = nf]
    BY <1>2
  <2> HIDE DEF nf
  <2>5. FilesTyped' /\ FilesUnique' /\ Len(files') = Len(files)
    BY <1>1, <2>1, <2>3, <2>4, FilesReplaced
  <2>6. files'[current] = nf
    BY <2>1, <2>4
  <2>7. Lines' = Lines
    BY <1>4, <2>2, <2>6 DEF Lines, Carrying
  <2> QED  BY <2>5, <2>7
<1> QED  BY <1>3, <1>4

LEMMA LeaveAppendStep ==
  ASSUME IInv, NEW t \in Thread, LeaveAppend(t)
  PROVE  IInv'
<1>1. /\ CallsTyped /\ WroteNothing(t) /\ call[t].at = "leaveappend" /\ SyncLines
      /\ ExitTransaction(t) /\ Goto(t, "append")
      /\ UNCHANGED <<current, rlock, reader, accepted, lapses, counts>>
  BY DEF IInv, LeaveAppend, At
<1>2. /\ StepOf(t) /\ call'[t].at = "append"
      /\ call'[t].job = call[t].job /\ call'[t].fresh = call[t].fresh
      /\ call'[t].wrote = call[t].wrote /\ call'[t].copy = call[t].copy
      /\ call'[t].answer = call[t].answer
  BY <1>1, GotoCall, StepSet
<1>3. FilesTyped' /\ FilesUnique' /\ Len(files') = Len(files) /\ Lines' = Lines
  BY <1>1, SyncedFiles
<1>4. StoreSound'
  <2>1. ReadersTyped'
    BY <1>1, <1>3 DEF IInv, ReadersTyped, SoundReader
  <2>2. RestTyped'
    BY <1>1 DEF IInv, RestTyped, counts
  <2> QED  BY <1>3, <2>1, <2>2 DEF StoreSound
<1>5. MyPart(t)'
  <2>1. WroteNothing(t)'
    BY <1>1, <1>2 DEF WroteNothing
  <2> QED  BY <1>1, <1>2, <1>3, <2>1, MovedPart
<1>6. Locked
  BY <1>1, <1>2, ExitLocks DEF Inside, Nested
<1> QED  BY <1>2, <1>3, <1>4, <1>5, <1>6, Finish

-----------------------------------------------------------------------------
\* The compaction.

LEMMA CopyStep ==
  ASSUME IInv, NEW t \in Thread, Copy(t)
  PROVE  IInv'
<1>1. /\ CallsTyped /\ UNCHANGED <<store, locks, reader, accepted, lapses, counts>>
      /\ call[t].at = "copy" /\ WroteNothing(t) /\ Holds(t)
  BY DEF IInv, Copy, At
<1>2. StoreSound' /\ Lines' = Lines
  BY <1>1, QuietStore DEF store, counts
<1>3. CASE Leaves(t, "error")
  <2>1. /\ StepOf(t) /\ call'[t].at = "leave" /\ call'[t].answer = "error"
        /\ call'[t].copy = call[t].copy
    BY <1>1, <1>3, LeavesCall, StepSet
  <2>2. WroteNothing(t)'
    BY <2>1 DEF WroteNothing
  <2>3. Locked
    <3>1. Holds(t)'
      BY <1>1, <2>1 DEF Holds, Inside, Nested, locks
    <3> QED  BY <1>1, <2>1, <3>1, QuietLocks
  <2> QED  BY <1>2, <2>1, <2>2, <2>3, MovedPart, Finish
<1>4. CASE call' = [call EXCEPT ![t].at = "replace", ![t].copy = Lines]
  <2>1. Lines \in Seq(Line) /\ UniqueLines(Lines)
    BY LinesType
  <2>2. /\ StepOf(t) /\ call'[t].at = "replace" /\ call'[t].copy = Lines
        /\ call'[t].wrote = call[t].wrote /\ call'[t].answer = call[t].answer
    BY <1>1, <1>4, <2>1, CopiedCall
  <2>3. MyPart(t)'
    BY <1>1, <2>1, <2>2 DEF MyPart, WroteNothing, FreshIsNew
  <2>4. Locked
    <3>1. Holds(t)'
      BY <1>1, <2>2 DEF Holds, Inside, Nested, locks
    <3> QED  BY <1>1, <2>2, <3>1, QuietLocks
  <2> QED  BY <1>2, <2>2, <2>3, <2>4, Finish
<1> QED  BY <1>3, <1>4 DEF Copy, Leaves

LEMMA ReplaceStep ==
  ASSUME IInv, NEW t \in Thread, Replace(t)
  PROVE  IInv'
<1>1. /\ CallsTyped /\ UNCHANGED <<locks, reader, accepted, lapses, counts>>
      /\ call[t].at = "replace" /\ Holds(t) /\ UniqueLines(call[t].copy)
      /\ files' = Append(files, Copied(call[t].copy)) /\ current' = Len(files) + 1
      /\ Leaves(t, "accepted") /\ FilesTyped /\ FilesUnique
  BY DEF IInv, Replace, At, Leaves
<1>2. /\ StepOf(t) /\ call'[t].at = "leave" /\ call'[t].answer = "accepted"
      /\ call'[t].copy = call[t].copy
  BY <1>1, LeavesCall, StepSet
<1>3. /\ FilesTyped' /\ FilesUnique' /\ Len(files') = Len(files) + 1
  <2> DEFINE f == Copied(call[t].copy)
  <2>1. call[t].copy \in Seq(Line)
    BY <1>1 DEF CallsTyped, Call
  <2>2. SoundFile(f) /\ UniqueLines(f.lines)
    BY <1>1, <2>1 DEF SoundFile, FileType, Copied, File
  <2>3. files' = Append(files, f)
    BY <1>1
  <2> HIDE DEF f
  <2> QED  BY <1>1, <2>2, <2>3, FileAdded
<1>4. StoreSound'
  <2>1. Len(files) \in Nat /\ current \in 0..Len(files) /\ named \in 0..current
    BY <1>1 DEF FilesTyped, IInv, RestTyped
  <2>2. ReadersTyped'
    <3>1. \A r \in Reader : reader[r].file \in Nat
      BY DEF IInv, ReadersTyped, Reading
    <3> QED  BY <1>1, <1>3, <2>1, <3>1 DEF IInv, ReadersTyped, SoundReader
  <2>3. RestTyped'
    BY <1>1, <2>1 DEF IInv, RestTyped, counts
  <2> QED  BY <1>3, <2>2, <2>3 DEF StoreSound
<1>5. MyPart(t)'
  BY <1>1, <1>2 DEF MyPart, WroteNothing, FreshIsNew
<1>6. Locked
  <2>1. Holds(t)'
    BY <1>1, <1>2 DEF Holds, Inside, Nested, locks
  <2> QED  BY <1>1, <1>2, <2>1, QuietLocks
<1> QED  BY <1>1, <1>2, <1>4, <1>5, <1>6, Finish DEF Inside

-----------------------------------------------------------------------------
\* Faults that end processes.

LEMMA IdlePart ==
  ASSUME NEW t \in Thread, call'[t] = Idle
  PROVE  Holds(t)' /\ MyPart(t)'
BY IdleType, EmptyIsUnique DEF MyPart, WroteNothing, FreshIsNew, Holds, Inside

LEMMA KillStep ==
  ASSUME IInv, NEW p \in Process, Kill(p)
  PROVE  IInv'
<1> USE ThreadFacts
<1>1. /\ UNCHANGED <<store, named, reader, accepted, lapses>>
      /\ call' = [t \in Thread |-> IF ProcessOf[t] = p THEN Idle ELSE call[t]]
      /\ rlock' = [rlock EXCEPT ![p] = None] /\ depth' = [depth EXCEPT ![p] = 0]
      /\ flock' = IF flock = p THEN None ELSE flock
  BY DEF Kill
<1>2. StoreSound' /\ Lines' = Lines
  BY <1>1, QuietStore DEF store
<1>3. CallsTyped'
  BY <1>1, IdleType DEF IInv, CallsTyped, SoundCall
<1>4. LocksTyped'
  BY <1>1 DEF IInv, LocksTyped
<1>5. ASSUME NEW t \in Thread PROVE Holds(t)' /\ MyPart(t)'
  <2>1. CASE ProcessOf[t] = p
    BY <1>1, <2>1, IdlePart
  <2>2. CASE ProcessOf[t] # p
    <3>1. call'[t] = call[t] /\ Holds(t) /\ MyPart(t)
      BY <1>1, <2>2 DEF IInv, MyPart
    <3>2. /\ rlock'[ProcessOf[t]] = rlock[ProcessOf[t]]
          /\ depth'[ProcessOf[t]] = depth[ProcessOf[t]]
      BY <1>1, <2>2 DEF IInv, LocksTyped
    <3>3. call[t].at \in Inside => flock' = flock
      BY <1>1, <2>2, <3>1 DEF Holds
    <3>4. Holds(t)'
      BY <3>1, <3>2, <3>3, KeepsHolding
    <3>5. MyPart(t)'
      BY <1>2, <3>1 DEF MyPart, WroteNothing, FreshIsNew, NewId
    <3> QED  BY <3>4, <3>5
  <2> QED  BY <2>1, <2>2
<1> QED  BY <1>2, <1>3, <1>4, <1>5 DEF IInv, StoreSound, MyPart

\* What a power loss leaves of a sound file is sound, and on disk: the file's records
\* in their places, so that none repeats an id.
LEMMA RemainsSound ==
  ASSUME NEW c, SoundFile(c), UniqueLines(c.lines), NEW f \in Remains(c)
  PROVE  /\ SoundFile(f) /\ UniqueLines(f.lines) /\ f.synced = Len(f.lines)
         /\ \A i \in DOMAIN f.lines : i \in DOMAIN c.lines /\
              (f.lines[i] # Garbage => f.lines[i] = c.lines[i])
<1>1. /\ c.lines \in Seq(Line) /\ c.synced \in Nat /\ c.synced <= Len(c.lines)
      /\ Len(c.lines) \in Nat /\ c.cut \in BOOLEAN
  BY DEF SoundFile, FileType
<1>2. PICK n \in c.synced..Len(c.lines) :
        LET kept == SubSeq(c.lines, 1, n) IN
        \/ f = File(kept, n, c.cut /\ n = Len(c.lines))
        \/ f = File(kept, n, TRUE)
        \/ f = File([kept EXCEPT ![n] = Garbage], n, TRUE)
  BY DEF Remains
<1> DEFINE kept == SubSeq(c.lines, 1, n)
           spoilt == [kept EXCEPT ![n] = Garbage]
<1>3. n \in Nat /\ n <= Len(c.lines)
  BY <1>1
<1>4. /\ kept \in Seq(Line) /\ Len(kept) = n
      /\ \A i \in DOMAIN kept : i \in DOMAIN c.lines /\ kept[i] = c.lines[i]
  BY <1>1, <1>3
<1> HIDE DEF kept
<1>5. /\ spoilt \in Seq(Line) /\ Len(spoilt) = n
      /\ \A i \in DOMAIN spoilt : i \in DOMAIN kept /\ (spoilt[i] # Garbage => spoilt[i] = kept[i])
  BY <1>3, <1>4, SpoiltLines
<1> HIDE DEF spoilt
<1>6. UniqueLines(kept)
  BY <1>4, UniqueParts
<1>7. UniqueLines(spoilt)
  BY <1>5, <1>6, UniqueParts
<1>8. PICK lines \in {kept, spoilt}, cut \in BOOLEAN : f = File(lines, n, cut)
  BY <1>1, <1>2 DEF kept, spoilt
<1>9. lines \in Seq(Line) /\ Len(lines) = n /\ UniqueLines(lines)
  BY <1>4, <1>5, <1>6, <1>7, <1>8
<1>10. \A i \in DOMAIN lines : i \in DOMAIN c.lines /\ (lines[i] # Garbage => lines[i] = c.lines[i])
  BY <1>4, <1>5, <1>8
<1>11. f.lines = lines /\ f.synced = n /\ f \in FileType
  BY <1>3, <1>8, <1>9 DEF File, FileType
<1> QED  BY <1>9, <1>10, <1>11 DEF SoundFile

LEMMA PowerLossStep ==
  ASSUME IInv, PowerLoss
  PROVE  IInv'
<1>1. /\ named' = current' /\ UNCHANGED accepted
      /\ rlock' = [p \in Process |-> None] /\ depth' = [p \in Process |-> 0] /\ flock' = None
      /\ call' = [t \in Thread |-> Idle] /\ reader' = [r \in Reader |-> NotReading]
  BY DEF PowerLoss
<1>2. PICK g \in named..current : \E f \in Remains(Carrying(g)) :
        /\ files' = IF g = 0 THEN <<>> ELSE <<f>>
        /\ current' = IF g = 0 THEN 0 ELSE 1
        /\ lapses' = IF IsPrefix(SubSeq(Lines, 1, Synced), f.lines) THEN lapses
                     ELSE lapses \union {"undone"}
  BY DEF PowerLoss
<1>3. PICK f \in Remains(Carrying(g)) :
        /\ files' = IF g = 0 THEN <<>> ELSE <<f>>
        /\ current' = IF g = 0 THEN 0 ELSE 1
        /\ lapses' \subseteq lapses \union {"undone"}
  BY <1>2
<1>4. SoundFile(f) /\ UniqueLines(f.lines)
  <2>1. FilesTyped /\ FilesUnique /\ g \in 0..Len(files)
    BY DEF IInv, FilesTyped, RestTyped
  <2> QED  BY <2>1, CarryingType, RemainsSound
<1>5. FilesTyped' /\ FilesUnique' /\ current' \in Nat
  <2>1. CASE g = 0
    BY <1>3, <2>1 DEF FilesTyped, FilesUnique
  <2>2. CASE g # 0
    <3>1. f \in FileType /\ files' = <<f>> /\ current' = 1
      BY <1>3, <1>4, <2>2 DEF SoundFile
    <3>2. files' \in Seq(FileType) /\ Len(files') = 1 /\ DOMAIN files' = {1} /\ files'[1] = f
      BY <3>1
    <3> QED  BY <1>4, <3>1, <3>2 DEF FilesTyped, FilesUnique
  <2> QED  BY <2>1, <2>2
<1>6. ReadersTyped'
  <2>1. Len(files') \in Nat
    BY <1>5 DEF FilesTyped
  <2>2. NotReading \in Reading /\ NotReading.file = 0 /\ NotReading.at = "idle"
    <3>1. <<>> \in Seq(Line)  OBVIOUS
    <3> QED  BY <3>1 DEF NotReading, Reading
  <2> QED  BY <1>1, <2>1, <2>2 DEF ReadersTyped, SoundReader
<1>7. RestTyped'
  BY <1>1, <1>3, <1>5 DEF IInv, RestTyped, Lapse
<1>8. CallsTyped'
  BY <1>1, IdleType DEF CallsTyped, SoundCall
<1>9. LocksTyped'
  BY <1>1 DEF LocksTyped
<1>10. \A t \in Thread : Holds(t)' /\ MyPart(t)'
  BY <1>1, IdlePart
<1> QED  BY <1>5, <1>6, <1>7, <1>8, <1>9, <1>10 DEF IInv, MyPart

-----------------------------------------------------------------------------
\* Readers.

\* A step that is none of the calls'.
LEMMA QuietCalls ==
  ASSUME IInv, UNCHANGED <<call, locks, store>>, ReadersTyped', RestTyped'
  PROVE  IInv'
<1>1. FilesTyped' /\ FilesUnique' /\ Lines' = Lines
  BY DEF IInv, FilesTyped, FilesUnique, Lines, Carrying, store
<1>2. CallsTyped' /\ LocksTyped'
  BY DEF IInv, CallsTyped, LocksTyped, locks
<1>3. ASSUME NEW t \in Thread
      PROVE  Holds(t)' /\ WroteNothing(t)' /\ UniqueLines(call[t].copy)' /\ FreshIsNew(t)'
  <2>1. Holds(t) /\ WroteNothing(t) /\ UniqueLines(call[t].copy) /\ FreshIsNew(t)
    BY DEF IInv
  <2>2. Holds(t)'
    BY <2>1, KeepsHolding DEF locks
  <2> QED  BY <1>1, <2>1, <2>2 DEF WroteNothing, FreshIsNew, NewId
<1> QED  BY <1>1, <1>2, <1>3 DEF IInv

LEMMA ReaderStep ==
  ASSUME IInv, NEW r \in Reader, Open(r) \/ ReadLine(r) \/ Return(r)
  PROVE  IInv'
<1>1. ReadersTyped /\ RestTyped /\ Lines \in Seq(Line) /\ FilesTyped /\ current \in 0..Len(files)
  BY LinesType DEF IInv
<1>2. UNCHANGED <<call, locks, store, accepted, named, lapses>>
  BY DEF Open, ReadLine, Return, counts
<1>3. RestTyped'
  BY <1>1, <1>2 DEF RestTyped, store
<1>4. PICK now : SoundReader(now) /\ reader' = [reader EXCEPT ![r] = now]
  <2>1. CASE Open(r)
    <3> DEFINE now == [at |-> IF current = 0 THEN "done" ELSE "reading",
                       file |-> current, seen |-> <<>>, due |-> Lines]
    <3>1. <<>> \in Seq(Line) /\ current \in Nat
      BY <1>1 DEF FilesTyped
    <3>2. SoundReader(now) /\ reader' = [reader EXCEPT ![r] = now]
      BY <1>1, <2>1, <3>1 DEF Open, SoundReader, Reading
    <3> QED  BY <3>2
  <2>2. CASE ReadLine(r)
    <3> DEFINE c == reader[r]
               lines == files[c.file].lines
               n == Len(c.seen) + 1
    <3>1. c \in Reading /\ SoundReader(c) /\ c.at = "reading"
      BY <1>1, <2>2 DEF ReadLine, ReadersTyped
    <3>2. lines \in Seq(Line)
      <4>1. c.file \in DOMAIN files
        BY <1>1, <3>1 DEF SoundReader, Reading, FilesTyped
      <4> QED  BY <1>1, <4>1 DEF FilesTyped, SoundFile, FileType
    <3>3. CASE /\ n \in DOMAIN lines
               /\ reader' = [reader EXCEPT ![r].seen = Append(@, lines[n])]
      <4> DEFINE now == [c EXCEPT !.seen = Append(@, lines[n])]
      <4>1. Append(c.seen, lines[n]) \in Seq(Line)
        BY <3>1, <3>2, <3>3 DEF Reading
      <4>2. SoundReader(now)
        BY <3>1, <4>1 DEF SoundReader, Reading
      <4>3. reader' = [reader EXCEPT ![r] = now]
        BY <3>3
      <4> QED  BY <4>2, <4>3
    <3>4. ASSUME NEW at \in {"failed", "done"}, reader' = [reader EXCEPT ![r].at = at]
          PROVE  \E now : SoundReader(now) /\ reader' = [reader EXCEPT ![r] = now]
      <4> DEFINE now == [c EXCEPT !.at = at]
      <4>1. SoundReader(now)
        BY <3>1 DEF SoundReader, Reading
      <4>2. reader' = [reader EXCEPT ![r] = now]
        BY <3>4
      <4> QED  BY <4>1, <4>2
    <3>5. \/ n \in DOMAIN lines /\ reader' = [reader EXCEPT ![r].seen = Append(@, lines[n])]
          \/ reader' = [reader EXCEPT ![r].at = "failed"]
          \/ reader' = [reader EXCEPT ![r].at = "done"]
      BY <2>2 DEF ReadLine
    <3> QED  BY <3>3, <3>4, <3>5
  <2>3. CASE Return(r)
    <3>1. <<>> \in Seq(Line)  OBVIOUS
    <3>2. SoundReader(NotReading)
      BY <1>1, <3>1 DEF NotReading, SoundReader, Reading, FilesTyped
    <3> QED  BY <2>3, <3>2 DEF Return
  <2> QED  BY <2>1, <2>2, <2>3
<1>5. ReadersTyped'
  BY <1>1, <1>2, <1>4 DEF ReadersTyped, SoundReader, store
<1> QED  BY <1>2, <1>3, <1>5, QuietCalls

-----------------------------------------------------------------------------
LEMMA ExistingLines ==
  ASSUME NEW e \in Existing
  PROVE  e \in Seq(Observation) /\ e \in Seq(Line) /\ UniqueLines(e)
<1>1. e \in Seq(Observation)
  BY ExistingAssumption
<1>2. ASSUME NEW i \in DOMAIN e PROVE e[i] \in Line
  <2>1. e[i] \in Observation /\ e[i].content \notin NotANumber
    BY <1>1, ExistingAssumption
  <2>2. Stored(e[i]) = e[i]
    BY <2>1 DEF Stored
  <2> QED  BY <2>1, <2>2 DEF Line
<1>3. e \in Seq(Line)
  BY <1>1, <1>2
<1>4. UniqueLines(e)
  BY ExistingAssumption DEF UniqueLines
<1> QED  BY <1>1, <1>3, <1>4

LEMMA InitInv == Init => IInv
<1> SUFFICES ASSUME Init PROVE IInv
  OBVIOUS
<1>1. PICK e \in Existing :
        /\ files = IF e = <<>> THEN <<>> ELSE <<File(e, Len(e), FALSE)>>
        /\ current = IF e = <<>> THEN 0 ELSE 1
        /\ accepted = Range(e)
  BY DEF Init
<1>2. e \in Seq(Observation) /\ e \in Seq(Line) /\ UniqueLines(e) /\ Len(e) \in Nat
  BY ExistingLines
<1>3. FilesTyped /\ FilesUnique /\ current \in Nat
  <2>1. CASE e = <<>>
    BY <1>1, <2>1 DEF FilesTyped, FilesUnique
  <2>2. CASE e # <<>>
    <3> DEFINE f == File(e, Len(e), FALSE)
    <3>1. f \in FileType /\ SoundFile(f) /\ UniqueLines(f.lines)
      BY <1>2 DEF File, FileType, SoundFile
    <3>2. files = <<f>> /\ current = 1
      BY <1>1, <2>2
    <3> HIDE DEF f
    <3>3. files \in Seq(FileType) /\ Len(files) = 1 /\ DOMAIN files = {1} /\ files[1] = f
      BY <3>1, <3>2
    <3> QED  BY <3>1, <3>2, <3>3 DEF FilesTyped, FilesUnique
  <2> QED  BY <2>1, <2>2
<1>4. CallsTyped
  BY IdleType DEF Init, CallsTyped, SoundCall
<1>5. ReadersTyped
  <2>1. Len(files) \in Nat
    BY <1>3 DEF FilesTyped
  <2>2. NotReading \in Reading /\ NotReading.file = 0 /\ NotReading.at = "idle"
    <3>1. <<>> \in Seq(Line)  OBVIOUS
    <3> QED  BY <3>1 DEF NotReading, Reading
  <2> QED  BY <2>1, <2>2 DEF Init, ReadersTyped, SoundReader
<1>6. LocksTyped
  BY DEF Init, LocksTyped
<1>7. RestTyped
  <2>1. Range(e) \subseteq Observation
    BY <1>2 DEF Range
  <2> QED  BY <1>1, <1>3, <2>1 DEF Init, RestTyped
<1>8. ASSUME NEW t \in Thread
      PROVE  Holds(t) /\ WroteNothing(t) /\ UniqueLines(call[t].copy) /\ FreshIsNew(t)
  <2>1. call[t] = Idle
    BY DEF Init
  <2> QED  BY <2>1, IdleType, EmptyIsUnique DEF Holds, Inside, WroteNothing, FreshIsNew
<1> QED  BY <1>3, <1>4, <1>5, <1>6, <1>7, <1>8 DEF IInv

LEMMA NextInv == IInv /\ [Next]_vars => IInv'
<1> SUFFICES ASSUME IInv, [Next]_vars PROVE IInv'
  OBVIOUS
<1>1. CASE UNCHANGED vars
  <2>1. UNCHANGED <<call, locks, store, reader, accepted, named, lapses>>
    BY <1>1 DEF vars, locks, store
  <2>2. ReadersTyped'
    BY <2>1 DEF IInv, ReadersTyped, SoundReader, store
  <2>3. RestTyped'
    BY <2>1 DEF IInv, RestTyped, store
  <2> QED  BY <2>1, <2>2, <2>3, QuietCalls
<1>2. ASSUME NEW t \in Thread, NEW job \in Job, Request(t, job) PROVE IInv'
  BY <1>2, RequestStep
<1>3. ASSUME NEW t \in Thread, CallStep(t) PROVE IInv'
  <2>1. \/ LockThread(t) \/ LockFile(t) \/ Check(t) \/ EnterAppend(t) \/ Write(t)
        \/ LeaveAppend(t) \/ Copy(t) \/ Replace(t) \/ Leave(t) \/ Answer(t)
    BY <1>3 DEF CallStep
  <2> QED  BY <2>1, LockThreadStep, LockFileStep, CheckStep, EnterAppendStep, WriteStep,
              LeaveAppendStep, CopyStep, ReplaceStep, LeaveStep, AnswerStep
<1>4. ASSUME NEW t \in Thread, WriteFails(t) \/ WritesShort(t) PROVE IInv'
  BY <1>4, WriteFailsStep, WriteStep
<1>5. ASSUME NEW r \in Reader, Open(r) \/ ReadLine(r) \/ Return(r) PROVE IInv'
  BY <1>5, ReaderStep
<1>6. ASSUME NEW p \in Process, Kill(p) PROVE IInv'
  BY <1>6, KillStep
<1>7. CASE PowerLoss
  BY <1>7, PowerLossStep
<1> QED  BY <1>1, <1>2, <1>3, <1>4, <1>5, <1>6, <1>7 DEF Next, Job

LEMMA InvHolds == Spec => []IInv
<1> QED  BY InitInv, NextInv, PTL DEF Spec

-----------------------------------------------------------------------------
\* Files, locks, calls and readers always have their types: the nesting of the
\* transactions is 0, 1 or 2, and no more is ever fsynced than was written.
THEOREM TypeCorrect == Spec => []TypeOK
<1>1. ASSUME IInv PROVE TypeOK
  <2>1. /\ FilesTyped /\ CallsTyped /\ ReadersTyped /\ LocksTyped /\ RestTyped
        /\ Len(files) \in Nat
    BY <1>1 DEF IInv, FilesTyped
  <2>2. DOMAIN files = 1..Len(files)
    BY <2>1 DEF FilesTyped
  <2>3. ASSUME NEW g \in DOMAIN files
        PROVE  /\ files[g] = File(files[g].lines, files[g].synced, files[g].cut)
               /\ files[g].lines \in Seq(Line)
               /\ files[g].synced \in 0..Len(files[g].lines)
               /\ files[g].cut \in BOOLEAN
    BY <2>1 DEF FilesTyped, SoundFile, FileType, File
  <2>4. ASSUME NEW t \in Thread
        PROVE  /\ call[t].at \in Step \union {"idle"}
               /\ call[t].job \in Batch \union {<<>>}
               /\ call[t].fresh \subseteq DOMAIN call[t].job
               /\ call[t].wrote \subseteq DOMAIN call[t].job
               /\ call[t].copy \in Seq(Line)
               /\ call[t].answer \in Outcome
    BY <2>1 DEF CallsTyped, SoundCall, Call, Steps, Job
  <2>5. ASSUME NEW r \in Reader
        PROVE  /\ reader[r].at \in {"idle", "reading", "done", "failed"}
               /\ reader[r].file \in 0..Len(files)
               /\ reader[r].seen \in Seq(Line)
               /\ reader[r].due \in Seq(Line)
    BY <2>1 DEF ReadersTyped, SoundReader, Reading
  <2> QED  BY <2>1, <2>2, <2>3, <2>4, <2>5 DEF TypeOK, FilesTyped, LocksTyped, RestTyped
<1> QED  BY <1>1, InvHolds, PTL

\* Whoever is inside a transaction holds the RLock of its process and the file lock,
\* at the depth of its nesting, so admissions and compactions exclude one another
\* within a process and between processes, kills and failed writes included.
THEOREM LockDisciplineHolds == Spec => []LockDiscipline
<1>1. ASSUME IInv PROVE LockDiscipline
  <2>1. Inside = Step \ {"rlock", "flock", "unlock"}
    BY DEF Inside, Step
  <2>2. \A t \in Thread : InTransactionNow(t) <=> call[t].at \in Inside
    BY <2>1 DEF InTransactionNow
  <2>3. \A t \in Thread : Holds(t)
    BY <1>1 DEF IInv
  <2>4. \A t, u \in Thread : call[t].at \in Inside /\ call[u].at \in Inside => t = u
    BY <1>1, Exclusion
  <2> QED  BY <2>2, <2>3, <2>4 DEF LockDiscipline, Holds, Nested
<1> QED  BY <1>1, InvHolds, PTL

\* No two records of the file have the same id, for any requests and readers, and
\* whichever of its files a power loss brings back.
THEOREM UniqueIdsHold == Spec => []UniqueIds
<1>1. ASSUME IInv PROVE UniqueIds
  BY <1>1, LinesType DEF UniqueIds, UniqueLines
<1> QED  BY <1>1, InvHolds, PTL

\* A request that is answered with a conflict has appended nothing.
THEOREM RejectedLeavesNothingHolds == Spec => []RejectedLeavesNothing
<1>1. ASSUME IInv PROVE RejectedLeavesNothing
  BY <1>1 DEF IInv, WroteNothing, RejectedLeavesNothing
<1> QED  BY <1>1, InvHolds, PTL
=============================================================================
