------------------------ MODULE JsonlDurabilityProofs -------------------------
(***************************************************************************)
(* Nothing that the observation store has accepted is dropped, and the     *)
(* store keeps the promises of ObservationLedger, for any processes,       *)
(* threads, batches and readers, through kills, failed writes and power    *)
(* losses, until one of the lapses.  What a reader returns is a state that *)
(* the store was in, though it takes no lock and files are replaced under  *)
(* it; and the lines are only ever appended to, or cut by a power loss.    *)
(***************************************************************************)
EXTENDS JsonlObservationStoreProofs, WellFoundedInduction

Matches(r, o) == r.id = o.id /\ r.content = Stored(o).content

\* A record that matches the observation is on a line, or on a fsynced line.
Present(o) == \E i \in DOMAIN Lines : Lines[i] # Garbage /\ Matches(Lines[i], o)
Durable(o) == \E i \in 1..Synced : Lines[i] # Garbage /\ Matches(Lines[i], o)

\* A call has yet to write one that matches it.
Awaits(t, o) == \E j \in call[t].fresh : Matches(Stored(call[t].job[j]), o)

Writing == {"append", "write", "leaveappend"}

\* What a call has done by now for the observations of its job: before the fsync
\* of the last new one they are on lines, after it on fsynced lines.
Earned(t) ==
  /\ call[t].at \in Writing =>
       \A k \in DOMAIN call[t].job : Present(call[t].job[k]) \/ Awaits(t, call[t].job[k])
  /\ call[t].answer = "accepted" \/ (call[t].at = "append" /\ call[t].fresh = {}) =>
       \A k \in DOMAIN call[t].job : Durable(call[t].job[k])
  /\ call[t].at \in {"copy", "replace"} => call[t].job = <<>>
  /\ call[t].at = "replace" => call[t].copy = Lines

\* The file that a power loss may bring back has no record that the current lacks.
OlderHaveNoMore == \A g \in named..current : Records(Carrying(g).lines) \subseteq Records(Lines)
AcceptedAreDurable == \A o \in accepted : Durable(o)

Sound == IInv /\ AcceptedAreDurable /\ OlderHaveNoMore /\ \A t \in Thread : Earned(t)

DInv == IInv /\ (lapses = {} => Sound)

-----------------------------------------------------------------------------
\* What is on lines stays there.
Grows ==
  /\ \A o : Present(o) => Present(o)'
  /\ \A o : Durable(o) => Durable(o)'

LEMMA SyncedType ==
  ASSUME IInv
  PROVE  /\ Lines \in Seq(Line) /\ Len(Lines) \in Nat /\ DOMAIN Lines = 1..Len(Lines)
         /\ Synced \in 0..Len(Lines)
<1>1. Lines \in Seq(Line) /\ SoundFile(Carrying(current))
  BY LinesType
<1>2. Len(Lines) \in Nat /\ DOMAIN Lines = 1..Len(Lines)
  BY <1>1
<1> QED  BY <1>1, <1>2 DEF Synced, Lines, SoundFile, FileType

LEMMA DurableIsPresent ==
  ASSUME IInv, NEW o, Durable(o)
  PROVE  Present(o)
BY SyncedType DEF Durable, Present

LEMMA QuietGrows ==
  ASSUME UNCHANGED store
  PROVE  /\ Grows /\ Lines' = Lines /\ Synced' = Synced
         /\ OlderHaveNoMore /\ named' = named => OlderHaveNoMore'
<1>1. Lines' = Lines /\ Synced' = Synced
  BY DEF store, Lines, Synced, Carrying
<1>2. Grows
  BY <1>1 DEF Grows, Present, Durable
<1>3. OlderHaveNoMore /\ named' = named => OlderHaveNoMore'
  BY <1>1 DEF OlderHaveNoMore, store, Carrying
<1> QED  BY <1>1, <1>2, <1>3

\* A step of a call leaves the others what they have earned, if it leaves the lines
\* or is inside, where no other is.
LEMMA OthersEarned ==
  ASSUME Sound, NEW t \in Thread, StepOf(t), Grows, Earned(t)', AcceptedAreDurable',
         OlderHaveNoMore', Lines' = Lines \/ call[t].at \in Inside, IInv'
  PROVE  Sound'
<1>1. ASSUME NEW u \in Thread, u # t PROVE Earned(u)'
  <2>1. call'[u] = call[u] /\ Earned(u)
    BY <1>1 DEF Sound, StepOf
  <2>2. call[u].answer = "accepted" => \A k \in DOMAIN call'[u].job : Durable(call[u].job[k])'
    BY <2>1 DEF Earned, Grows
  <2>3. CASE Lines' = Lines
    <3>1. call[u].at = "append" /\ call[u].fresh = {} =>
            \A k \in DOMAIN call'[u].job : Durable(call[u].job[k])'
      BY <2>1 DEF Earned, Grows
    <3>2. call[u].at \in Writing =>
            \A k \in DOMAIN call'[u].job :
              Present(call[u].job[k])' \/ Awaits(u, call[u].job[k])'
      BY <2>1 DEF Earned, Grows, Awaits
    <3> QED  BY <2>1, <2>2, <2>3, <3>1, <3>2 DEF Earned
  <2>4. CASE call[t].at \in Inside
    <3>1. call[u].at \notin Inside
      BY <1>1, <2>4, Exclusion DEF Sound
    <3> QED  BY <2>1, <2>2, <3>1 DEF Earned, Inside, Writing
  <2> QED  BY <2>3, <2>4
<1> QED  BY <1>1 DEF Sound

\* A step of a call that leaves the store and what is accepted.
LEMMA QuietSound ==
  ASSUME Sound, IInv', NEW t \in Thread, StepOf(t), UNCHANGED <<store, named, accepted>>,
         Earned(t)'
  PROVE  Sound'
<1>1. Grows /\ Lines' = Lines /\ OlderHaveNoMore'
  BY QuietGrows DEF Sound
<1>2. AcceptedAreDurable'
  BY <1>1 DEF Sound, AcceptedAreDurable, Grows
<1> QED  BY <1>1, <1>2, OthersEarned

-----------------------------------------------------------------------------
\* The steps that leave the store.

LEMMA RequestSound ==
  ASSUME Sound, IInv', NEW t \in Thread, NEW job \in Job, Request(t, job)
  PROVE  Sound'
<1>1. CallsTyped /\ UNCHANGED <<store, named, accepted>>
  BY DEF Sound, IInv, Request
<1>2. StepOf(t) /\ call'[t].at = "rlock" /\ call'[t].answer = "none"
  BY <1>1, RequestCall
<1>3. Earned(t)'
  BY <1>2 DEF Earned, Writing
<1> QED  BY <1>1, <1>2, <1>3, QuietSound

LEMMA GotoSound ==
  ASSUME Sound, IInv', NEW t \in Thread, LockThread(t) \/ LockFile(t) \/ Leave(t)
  PROVE  Sound'
<1>1. CallsTyped /\ UNCHANGED <<store, named, accepted>> /\ Earned(t)
  BY DEF Sound, IInv, LockThread, LockFile, Leave, counts
<1>2. PICK step \in {"flock", "copy", "check", "unlock"} :
        Goto(t, step) /\ (step = "copy" => call[t].job = <<>>)
  BY DEF LockThread, LockFile, Leave, InTransaction
<1>3. step \in Steps
  BY StepSet
<1>4. /\ StepOf(t) /\ call'[t].at = step
      /\ call'[t].job = call[t].job /\ call'[t].answer = call[t].answer
  BY <1>1, <1>2, <1>3, GotoCall
<1>5. Grows
  BY <1>1, QuietGrows
<1>6. Earned(t)'
  BY <1>1, <1>2, <1>4, <1>5 DEF Earned, Writing, Grows
<1> QED  BY <1>1, <1>4, <1>6, QuietSound

LEMMA AnswerSound ==
  ASSUME Sound, IInv', NEW t \in Thread, Answer(t)
  PROVE  Sound'
<1>1. /\ CallsTyped /\ UNCHANGED <<store, named>> /\ Earned(t)
      /\ call' = [call EXCEPT ![t] = Idle]
      /\ accepted' = IF call[t].answer = "accepted" THEN accepted \union Range(call[t].job)
                                                   ELSE accepted
  BY DEF Sound, IInv, Answer, counts
<1>2. StepOf(t) /\ call'[t] = Idle
  BY <1>1, IdleType, WholeCall
<1>3. Grows /\ Lines' = Lines /\ OlderHaveNoMore'
  BY <1>1, QuietGrows DEF Sound
<1>4. \A o \in accepted' : Durable(o)
  BY <1>1 DEF Sound, AcceptedAreDurable, Earned, Range
<1>5. AcceptedAreDurable'
  BY <1>3, <1>4 DEF AcceptedAreDurable, Grows
<1>6. Earned(t)'
  BY <1>2, IdleType DEF Earned, Writing
<1> QED  BY <1>2, <1>3, <1>5, <1>6, OthersEarned

LEMMA LeavesSound ==
  ASSUME Sound, IInv', NEW t \in Thread, NEW answer \in Outcome, Leaves(t, answer),
         UNCHANGED <<store, named, accepted>>,
         answer = "accepted" => \A k \in DOMAIN call[t].job : Durable(call[t].job[k])
  PROVE  Sound'
<1>1. CallsTyped
  BY DEF Sound, IInv
<1>2. StepOf(t) /\ call'[t].at = "leave" /\ call'[t].answer = answer /\ call'[t].job = call[t].job
  BY <1>1, LeavesCall
<1>3. Grows
  BY QuietGrows
<1>4. Earned(t)'
  BY <1>2, <1>3 DEF Earned, Writing, Grows
<1> QED  BY <1>2, <1>4, QuietSound

LEMMA EnterAppendSound ==
  ASSUME Sound, IInv', NEW t \in Thread, EnterAppend(t)
  PROVE  Sound'
<1>1. /\ CallsTyped /\ UNCHANGED <<store, named, accepted>> /\ Earned(t) /\ WroteNothing(t)
      /\ call[t].at = "append"
  BY DEF Sound, IInv, EnterAppend, counts, At
<1>2. CASE Goto(t, "write")
  <2>1. /\ StepOf(t) /\ call'[t].at = "write"
        /\ call'[t].job = call[t].job /\ call'[t].fresh = call[t].fresh
        /\ call'[t].answer = call[t].answer
    BY <1>1, <1>2, GotoCall, StepSet
  <2>2. Lines' = Lines /\ Grows
    BY <1>1, QuietGrows
  <2>3. call'[t].answer = "none"
    BY <1>1, <2>1 DEF WroteNothing
  <2>4. \A k \in DOMAIN call[t].job : Present(call[t].job[k])' \/ Awaits(t, call[t].job[k])'
    BY <1>1, <2>1, <2>2 DEF Earned, Writing, Grows, Awaits
  <2>5. Earned(t)'
    BY <2>1, <2>3, <2>4 DEF Earned, Writing
  <2> QED  BY <1>1, <2>1, <2>5, QuietSound
<1>3. CASE Leaves(t, "accepted") /\ call[t].fresh = {}
  <2>1. \A k \in DOMAIN call[t].job : Durable(call[t].job[k])
    BY <1>1, <1>3 DEF Earned
  <2> QED  BY <1>1, <1>3, <2>1, LeavesSound, StepSet
<1> QED  BY <1>2, <1>3 DEF EnterAppend, Leaves

LEMMA WriteFailsSound ==
  ASSUME Sound, IInv', NEW t \in Thread, WriteFails(t)
  PROVE  Sound'
<1>1. Leaves(t, "error") /\ UNCHANGED <<store, named, accepted>>
  BY DEF WriteFails, Leaves
<1> QED  BY <1>1, LeavesSound, StepSet

LEMMA CopySound ==
  ASSUME Sound, IInv', NEW t \in Thread, Copy(t)
  PROVE  Sound'
<1>1. /\ CallsTyped /\ UNCHANGED <<store, named, accepted>> /\ Earned(t) /\ WroteNothing(t)
      /\ call[t].at = "copy"
  BY DEF Sound, IInv, Copy, counts, At
<1>2. CASE Leaves(t, "error")
  BY <1>1, <1>2, LeavesSound, StepSet
<1>3. CASE call' = [call EXCEPT ![t].at = "replace", ![t].copy = Lines]
  <2>1. Lines \in Seq(Line)
    BY LinesType DEF Sound
  <2>2. /\ StepOf(t) /\ call'[t].at = "replace" /\ call'[t].copy = Lines
        /\ call'[t].answer = call[t].answer /\ call'[t].job = call[t].job
    BY <1>1, <1>3, <2>1, CopiedCall
  <2>3. Lines' = Lines
    BY <1>1, QuietGrows
  <2>4. Earned(t)'
    BY <1>1, <2>2, <2>3 DEF Earned, Writing, WroteNothing
  <2> QED  BY <1>1, <2>2, <2>4, QuietSound
<1> QED  BY <1>2, <1>3 DEF Copy, Leaves

-----------------------------------------------------------------------------
\* The admission.

LEMMA Least ==
  ASSUME NEW T \in SUBSET Nat, T # {}
  PROVE  \E x \in T : \A y \in T : ~(y < x)
<1>1. IsWellFoundedOn(OpToRel(<, Nat), Nat)
  BY NatLessThanWellFounded
<1>2. \E x \in T : \A y \in T : <<y, x>> \notin OpToRel(<, Nat)
  BY <1>1, WFMin
<1> QED  BY <1>2 DEF OpToRel

LEMMA StoredMatches ==
  ASSUME NEW o \in Observation
  PROVE  Matches(Stored(o), o) /\ Stored(o) # Garbage
<1>1. Stored(o) # Garbage
  BY GarbageAssumption DEF Stored
<1> QED  BY <1>1, StoredLine DEF Matches

\* Every observation of a batch without conflict has a record, or one of the new
\* positions will make it one.
LEMMA Admitted ==
  ASSUME NEW batch \in Seq(Observation), NEW lines \in Seq(Line), ~Conflicts(batch, lines),
         NEW k \in DOMAIN batch
  PROVE  \/ \E i \in DOMAIN lines : lines[i] # Garbage /\ Matches(lines[i], batch[k])
         \/ \E j \in Fresh(batch, lines) : Matches(Stored(batch[j]), batch[k])
<1>1. ASSUME NEW r \in Records(lines) \union Before(batch, k), r.id = batch[k].id
      PROVE  r.content = batch[k].content /\ batch[k].content \notin NotANumber
  BY <1>1 DEF Conflicts, Differs
<1>2. CASE \E r \in Records(lines) : r.id = batch[k].id
  <2>1. PICK i \in DOMAIN lines : lines[i] # Garbage /\ lines[i].id = batch[k].id
    BY <1>2 DEF Records, Range
  <2>2. lines[i] \in Records(lines)
    BY <2>1 DEF Records, Range
  <2>3. lines[i].content = batch[k].content /\ Stored(batch[k]) = batch[k]
    BY <1>1, <2>1, <2>2 DEF Stored
  <2> QED  BY <2>1, <2>3 DEF Matches
<1>3. CASE \A r \in Records(lines) : r.id # batch[k].id
  <2> DEFINE T == {j \in DOMAIN batch : batch[j].id = batch[k].id}
  <2>1. T \in SUBSET Nat /\ k \in T /\ k \in Nat
    OBVIOUS
  <2>2. PICK x \in T : \A y \in T : ~(y < x)
    <3> HIDE DEF T
    <3> QED  BY <2>1, Least
  <2>3. x \in DOMAIN batch /\ x \in Nat /\ x >= 1 /\ batch[x].id = batch[k].id
    OBVIOUS
  <2>4. ASSUME NEW r \in Before(batch, x) PROVE r.id # batch[x].id
    <3>1. PICK j \in 1..(x - 1) : r = batch[j]
      BY DEF Before
    <3>2. j \in DOMAIN batch /\ j < x
      BY <2>3, <3>1
    <3> QED  BY <2>2, <2>3, <3>1, <3>2
  <2>5. x \in Fresh(batch, lines)
    BY <1>3, <2>3, <2>4 DEF Fresh
  <2>6. CASE x = k
    <3>1. batch[k] \in Observation
      OBVIOUS
    <3> QED  BY <2>5, <2>6, <3>1, StoredMatches
  <2>7. CASE x # k
    <3>1. x \in 1..(k - 1)
      BY <2>1, <2>2, <2>3, <2>7
    <3>2. batch[x] \in Before(batch, k)
      BY <3>1 DEF Before
    <3>3. batch[x].content = batch[k].content /\ batch[k].content \notin NotANumber
      BY <1>1, <2>3, <3>2
    <3>4. Stored(batch[x]) = batch[x] /\ Stored(batch[k]) = batch[k]
      BY <3>3 DEF Stored
    <3> QED  BY <2>3, <2>5, <3>3, <3>4 DEF Matches
  <2> QED  BY <2>6, <2>7
<1> QED  BY <1>2, <1>3

LEMMA CheckSound ==
  ASSUME Sound, IInv', NEW t \in Thread, Check(t), lapses' = {}
  PROVE  Sound'
<1> DEFINE batch == call[t].job
           fresh == Fresh(batch, Lines)
<1>1. /\ CallsTyped /\ UNCHANGED <<store, named, accepted>> /\ WroteNothing(t)
      /\ call[t].at = "check"
  BY DEF Sound, IInv, Check, counts, At
<1>2. batch \in Seq(Observation) /\ Lines \in Seq(Line)
  <2>1. batch \in Job
    BY <1>1 DEF CallsTyped, Call
  <2> QED  BY <2>1, JobType, LinesType DEF Sound
<1>3. CASE Leaves(t, "error") \/ Leaves(t, "conflict")
  BY <1>1, <1>3, LeavesSound, StepSet
<1>4. CASE /\ ~Conflicts(batch, Lines)
           /\ call' = [call EXCEPT ![t].at = "append", ![t].fresh = fresh]
  <2>1. fresh \in SUBSET DOMAIN batch
    BY <1>2, FreshIds
  <2>2. /\ StepOf(t) /\ call'[t].at = "append" /\ call'[t].fresh = fresh
        /\ call'[t].job = call[t].job /\ call'[t].answer = call[t].answer
    BY <1>1, <1>4, <2>1, CheckedCall
  <2>3. \A k \in DOMAIN batch :
          \/ \E i \in DOMAIN Lines : Lines[i] # Garbage /\ Matches(Lines[i], batch[k])
          \/ \E j \in fresh : Matches(Stored(batch[j]), batch[k])
    BY <1>2, <1>4, Admitted
  <2>4. ~RestsOnUnsynced(batch)
    BY <2>2 DEF Check
  <2>5. ASSUME fresh = {}, NEW k \in DOMAIN batch PROVE Durable(batch[k])
    <3>1. PICK i \in DOMAIN Lines : Lines[i] # Garbage /\ Matches(Lines[i], batch[k])
      BY <2>3, <2>5
    <3>2. i \notin (Synced + 1)..Len(Lines)
      BY <2>4, <2>5, <3>1 DEF RestsOnUnsynced, Matches
    <3>3. i \in 1..Synced
      BY <3>2, SyncedType DEF Sound
    <3> QED  BY <3>1, <3>3 DEF Durable
  <2>6. Grows /\ Lines' = Lines
    BY <1>1, QuietGrows
  <2>7. \A k \in DOMAIN batch : Present(batch[k]) \/ \E j \in fresh : Matches(Stored(batch[j]), batch[k])
    BY <2>3 DEF Present
  <2> HIDE DEF fresh
  <2>8. \A k \in DOMAIN batch : Present(batch[k])' \/ Awaits(t, batch[k])'
    BY <2>2, <2>6, <2>7 DEF Grows, Awaits
  <2>9. fresh = {} => \A k \in DOMAIN batch : Durable(batch[k])'
    BY <2>2, <2>5, <2>6 DEF Grows
  <2>10. call'[t].answer = "none"
    BY <1>1, <2>2 DEF WroteNothing
  <2>11. Earned(t)'
    BY <2>2, <2>8, <2>9, <2>10 DEF Earned, Writing
  <2> QED  BY <1>1, <2>2, <2>11, QuietSound
<1> QED  BY <1>3, <1>4 DEF Check, Leaves

-----------------------------------------------------------------------------
\* The steps that change the store.

\* A line that is appended whole to whole lines, the record of position k.
LEMMA AppendGrows ==
  ASSUME IInv, NEW line \in Line, NEW cut \in BOOLEAN, AppendLine(line, cut), lapses' = {}
  PROVE  /\ Lines' = Append(Lines, line) /\ Synced' = Synced /\ Grows
         /\ OlderHaveNoMore /\ named' = named => OlderHaveNoMore'
<1> DEFINE f == Carrying(current)
<1>1. ~cut /\ ~f.cut
  BY DEF AppendLine
<1>2. /\ files' = IF current = 0 THEN Append(files, File(Append(Lines, line), 0, cut))
                  ELSE [files EXCEPT ![current] = File(Append(Lines, line), Synced, cut)]
      /\ current' = IF current = 0 THEN Len(files) + 1 ELSE current
  BY <1>1 DEF AppendLine, Lines, Synced
<1>3. /\ files \in Seq(FileType) /\ Len(files) \in Nat /\ current \in 0..Len(files)
      /\ DOMAIN files = 1..Len(files) /\ named \in 0..current /\ current = Len(files)
  BY DEF IInv, FilesTyped, RestTyped
<1>4. Lines \in Seq(Line) /\ Len(Lines) \in Nat /\ Synced \in 0..Len(Lines)
  BY SyncedType
<1>5. /\ Lines' = Append(Lines, line) /\ Synced' = Synced
      /\ \A g \in 1..Len(files) : g # current => files'[g] = files[g]
  <2>1. CASE current = 0
    <3> DEFINE nf == File(Append(Lines, line), 0, cut)
    <3>1. Synced = 0
      BY <2>1 DEF Synced, Carrying, Absent, File
    <3>2. nf.lines = Append(Lines, line) /\ nf.synced = 0
      BY DEF File
    <3>3. files' = Append(files, nf) /\ current' = Len(files) + 1
      BY <1>2, <2>1
    <3> HIDE DEF nf
    <3>4. files'[current'] = nf /\ \A g \in 1..Len(files) : files'[g] = files[g]
      BY <1>3, <3>3
    <3>5. current' # 0
      BY <1>3, <3>3
    <3> QED  BY <3>1, <3>2, <3>4, <3>5 DEF Lines, Synced, Carrying
  <2>2. CASE current # 0
    <3> DEFINE nf == File(Append(Lines, line), Synced, cut)
    <3>1. nf.lines = Append(Lines, line) /\ nf.synced = Synced
      BY DEF File
    <3>2. files' = [files EXCEPT ![current] = nf] /\ current' = current
      BY <1>2, <2>2
    <3> HIDE DEF nf
    <3>3. current \in DOMAIN files /\ 1..Len(files) = DOMAIN files
      BY <1>3, <2>2
    <3>4. files'[current] = nf /\ \A g \in 1..Len(files) : g # current => files'[g] = files[g]
      BY <3>2, <3>3
    <3> QED  BY <2>2, <3>1, <3>2, <3>4 DEF Lines, Synced, Carrying
  <2> QED  BY <2>1, <2>2
<1>6. DOMAIN Lines \subseteq DOMAIN Lines' /\ \A i \in DOMAIN Lines : Lines'[i] = Lines[i]
  BY <1>4, <1>5
<1>7. Grows
  <2>1. 1..Synced \subseteq DOMAIN Lines
    BY <1>4
  <2> QED  BY <1>5, <1>6, <2>1 DEF Grows, Present, Durable
<1>8. ASSUME OlderHaveNoMore, named' = named PROVE OlderHaveNoMore'
  <2>1. Records(Lines) \subseteq Records(Lines')
    BY <1>6 DEF Records, Range
  <2>2. ASSUME NEW g \in named'..current' PROVE Records(Carrying(g)'.lines) \subseteq Records(Lines')
    <3>1. CASE g = current'
      BY <3>1 DEF Lines
    <3>2. CASE g # current' /\ g = 0
      <4>1. Carrying(g)'.lines = <<>>
        BY <3>2 DEF Carrying, Absent, File
      <4> QED  BY <4>1 DEF Records, Range
    <3>3. CASE g # current' /\ g # 0
      <4>1. current # 0 /\ current' = current
        <5>1. current' \in Nat /\ named \in Nat
          BY <1>2, <1>3
        <5>2. g \in Nat /\ g <= current' /\ g # 0 /\ g # current'
          BY <1>8, <3>3, <5>1
        <5>3. CASE current = 0
          <6>1. current' = 1
            BY <1>2, <1>3, <5>3
          <6> QED  BY <5>2, <6>1
        <5> QED  BY <1>2, <5>3
      <4>2. g \in named..current
        BY <1>8, <4>1
      <4>3. g \in 1..Len(files)
        BY <1>3, <3>3, <4>2
      <4>4. Carrying(g)' = Carrying(g)
        BY <1>5, <3>3, <4>1, <4>3 DEF Carrying
      <4> QED  BY <1>8, <2>1, <4>2, <4>4 DEF OlderHaveNoMore
    <3> QED  BY <3>1, <3>2, <3>3
  <2> QED  BY <2>2 DEF OlderHaveNoMore
<1> QED  BY <1>5, <1>7, <1>8

LEMMA WriteSound ==
  ASSUME Sound, IInv', NEW t \in Thread, Write(t), lapses' = {}
  PROVE  Sound'
<1>1. /\ CallsTyped /\ IInv /\ UNCHANGED <<named, accepted>> /\ WroteNothing(t)
      /\ call[t].at = "write" /\ Earned(t) /\ AcceptedAreDurable /\ OlderHaveNoMore
  BY DEF Sound, IInv, Write, counts, At
<1>2. PICK k \in DOMAIN call[t].job :
        /\ AppendLine(Stored(call[t].job[k]), FALSE)
        /\ call' = [call EXCEPT ![t].at = "leaveappend", ![t].fresh = @ \ {k},
                                ![t].wrote = @ \union {k}]
  BY DEF Write
<1> DEFINE line == Stored(call[t].job[k])
<1>3. line \in Line /\ line # Garbage
  <2>1. call[t].job \in Job
    BY <1>1 DEF CallsTyped, Call
  <2>2. call[t].job[k] \in Observation
    BY <2>1, JobType
  <2> QED  BY <2>2, StoredLine, StoredMatches
<1>4. /\ StepOf(t) /\ call'[t].at = "leaveappend" /\ call'[t].fresh = call[t].fresh \ {k}
      /\ call'[t].job = call[t].job /\ call'[t].answer = call[t].answer
  BY <1>1, <1>2, WrittenCall
<1>5. AppendLine(line, FALSE)
  BY <1>2
<1> HIDE DEF line
<1>6. Lines' = Append(Lines, line) /\ Grows /\ OlderHaveNoMore'
  BY <1>1, <1>3, <1>5, AppendGrows
<1>7. ASSUME NEW o, Matches(line, o) PROVE Present(o)'
  <2>1. Lines \in Seq(Line) /\ Len(Lines) \in Nat
    BY <1>1, SyncedType
  <2>2. Len(Lines) + 1 \in DOMAIN Lines' /\ Lines'[Len(Lines) + 1] = line
    BY <1>3, <1>6, <2>1
  <2>3. \E i \in DOMAIN Lines' : Lines'[i] # Garbage /\ Matches(Lines'[i], o)
    BY <1>3, <1>7, <2>2
  <2> QED  BY <2>3 DEF Present, Matches
<1>8. ASSUME NEW m \in DOMAIN call[t].job
      PROVE  Present(call[t].job[m])' \/ Awaits(t, call[t].job[m])'
  <2>1. CASE Present(call[t].job[m])
    BY <1>4, <1>6, <2>1 DEF Grows
  <2>2. CASE Awaits(t, call[t].job[m])
    <3>1. PICK j \in call[t].fresh : Matches(Stored(call[t].job[j]), call[t].job[m])
      BY <2>2 DEF Awaits
    <3>2. CASE j = k
      <4>1. Matches(line, call[t].job[m])
        BY <3>1, <3>2 DEF line
      <4>2. Matches(line, call'[t].job[m])
        BY <1>4, <4>1
      <4> QED  BY <1>7, <4>2
    <3>3. CASE j # k
      BY <1>4, <3>1, <3>3 DEF Awaits
    <3> QED  BY <3>2, <3>3
  <2> QED  BY <1>1, <2>1, <2>2 DEF Earned, Writing
<1>9. Earned(t)'
  <2>1. call'[t].answer = "none"
    BY <1>1, <1>4 DEF WroteNothing
  <2> QED  BY <1>4, <1>8, <2>1 DEF Earned, Writing
<1>10. AcceptedAreDurable'
  BY <1>1, <1>6 DEF AcceptedAreDurable, Grows
<1> QED  BY <1>1, <1>4, <1>6, <1>9, <1>10, OthersEarned DEF Inside

\* The fsync secures all lines of the file, and touches no other file.
LEMMA SyncedLines ==
  ASSUME IInv, SyncLines, current' = current
  PROVE  /\ Synced' = Len(Lines)
         /\ \A g \in 0..Len(files) : g # current => Carrying(g)' = Carrying(g)
<1>1. /\ files \in Seq(FileType) /\ current = Len(files) /\ Len(files) \in Nat
      /\ DOMAIN files = 1..Len(files)
  BY DEF IInv, FilesTyped
<1>2. files' = [files EXCEPT ![current].synced = Len(Lines)]
  BY DEF SyncLines
<1>3. CASE current = 0
  <2>1. Lines = <<>> /\ Synced' = 0
    BY <1>3 DEF Lines, Synced, Carrying, Absent, File
  <2> QED  BY <1>1, <1>3, <2>1
<1>4. CASE current # 0
  <2>1. current \in DOMAIN files /\ files[current] \in FileType
    BY <1>1, <1>4
  <2>2. files'[current].synced = Len(Lines)
    BY <1>2, <2>1 DEF FileType
  <2>3. \A g \in DOMAIN files : g # current => files'[g] = files[g]
    BY <1>2
  <2> QED  BY <1>1, <1>4, <2>2, <2>3 DEF Synced, Carrying
<1> QED  BY <1>3, <1>4

\* The fsync, and the end of the nested transaction.
LEMMA LeaveAppendSound ==
  ASSUME Sound, IInv', NEW t \in Thread, LeaveAppend(t)
  PROVE  Sound'
<1>1. /\ CallsTyped /\ IInv /\ UNCHANGED <<named, accepted, current>> /\ WroteNothing(t)
      /\ call[t].at = "leaveappend" /\ SyncLines /\ Goto(t, "append")
      /\ Earned(t) /\ AcceptedAreDurable /\ OlderHaveNoMore
  BY DEF Sound, IInv, LeaveAppend, counts, At
<1>2. /\ StepOf(t) /\ call'[t].at = "append"
      /\ call'[t].job = call[t].job /\ call'[t].fresh = call[t].fresh
      /\ call'[t].answer = call[t].answer
  BY <1>1, GotoCall, StepSet
<1>3. Lines' = Lines
  BY <1>1, SyncedFiles
<1>4. /\ Lines \in Seq(Line) /\ Len(Lines) \in Nat /\ Synced \in 0..Len(Lines)
      /\ DOMAIN Lines = 1..Len(Lines)
  BY <1>1, SyncedType
<1>5. /\ files \in Seq(FileType) /\ current = Len(files) /\ Len(files) \in Nat
      /\ DOMAIN files = 1..Len(files) /\ named \in 0..current
  BY <1>1 DEF IInv, FilesTyped, RestTyped
<1>6. /\ Synced' = Len(Lines)
      /\ \A g \in 0..Len(files) : g # current => Carrying(g)' = Carrying(g)
  BY <1>1, SyncedLines
<1>7. \A o : Present(o) => Durable(o)'
  BY <1>3, <1>4, <1>6 DEF Present, Durable
<1>8. Grows
  <2>1. \A o : Present(o) => Present(o)'
    BY <1>3 DEF Present
  <2>2. \A o : Durable(o) => Present(o)
    BY <1>1, DurableIsPresent
  <2> QED  BY <1>7, <2>1, <2>2 DEF Grows
<1>9. OlderHaveNoMore'
  <2>1. ASSUME NEW g \in named..current PROVE Records(Carrying(g)'.lines) \subseteq Records(Lines)
    <3>1. CASE g = current
      <4>1. Carrying(g)'.lines = Lines'
        BY <1>1, <3>1 DEF Lines, Carrying, Absent
      <4> QED  BY <1>3, <4>1
    <3>2. CASE g # current
      <4>1. g \in 0..Len(files)
        BY <1>5
      <4> QED  BY <1>1, <1>6, <3>2, <4>1 DEF OlderHaveNoMore
    <3> QED  BY <3>1, <3>2
  <2> QED  BY <1>1, <1>3, <2>1 DEF OlderHaveNoMore
<1>10. AcceptedAreDurable'
  BY <1>1, <1>8 DEF AcceptedAreDurable, Grows
<1>11. Earned(t)'
  <2>1. call'[t].answer = "none"
    BY <1>1, <1>2 DEF WroteNothing
  <2>2. ASSUME NEW m \in DOMAIN call[t].job
        PROVE  /\ Present(call[t].job[m])' \/ Awaits(t, call[t].job[m])'
               /\ call[t].fresh = {} => Durable(call[t].job[m])'
    <3>1. Present(call[t].job[m]) \/ Awaits(t, call[t].job[m])
      BY <1>1 DEF Earned, Writing
    <3>2. Present(call[t].job[m]) => Present(call[t].job[m])' /\ Durable(call[t].job[m])'
      BY <1>2, <1>7, <1>8 DEF Grows
    <3>3. Awaits(t, call[t].job[m]) => Awaits(t, call[t].job[m])' /\ call[t].fresh # {}
      BY <1>2 DEF Awaits
    <3> QED  BY <3>1, <3>2, <3>3
  <2> QED  BY <1>2, <2>1, <2>2 DEF Earned, Writing
<1> QED  BY <1>1, <1>2, <1>3, <1>8, <1>9, <1>10, <1>11, OthersEarned

\* A compaction replaces the file by a whole copy of it.
LEMMA ReplacedLines ==
  ASSUME IInv, NEW t \in Thread, Replace(t), call[t].copy = Lines
  PROVE  /\ Lines' = Lines /\ Synced' = Len(Lines)
         /\ \A g \in 0..Len(files) : Carrying(g)' = Carrying(g)
<1> DEFINE nf == Copied(Lines)
<1>1. nf.lines = Lines /\ nf.synced = Len(Lines)
  BY DEF Copied, File
<1>2. /\ files' = Append(files, nf) /\ current' = Len(files) + 1
      /\ files \in Seq(FileType) /\ Len(files) \in Nat
  BY DEF Replace, IInv, FilesTyped
<1> HIDE DEF nf
<1>3. files'[current'] = nf /\ current' # 0 /\ \A g \in 1..Len(files) : files'[g] = files[g]
  BY <1>2
<1>4. Lines' = Lines /\ Synced' = Len(Lines)
  BY <1>1, <1>3 DEF Lines, Synced, Carrying
<1>5. \A g \in 0..Len(files) : g # 0 => g \in 1..Len(files)
  BY <1>2
<1>6. \A g \in 0..Len(files) : Carrying(g)' = Carrying(g)
  BY <1>3, <1>5 DEF Carrying, Absent, File
<1> QED  BY <1>4, <1>6

LEMMA ReplaceSound ==
  ASSUME Sound, IInv', NEW t \in Thread, Replace(t)
  PROVE  Sound'
<1>1. /\ CallsTyped /\ IInv /\ UNCHANGED <<named, accepted>> /\ call[t].at = "replace"
      /\ Earned(t) /\ AcceptedAreDurable /\ OlderHaveNoMore /\ Leaves(t, "accepted")
      /\ current' = Len(files) + 1
  BY DEF Sound, IInv, Replace, counts, At, Leaves
<1>2. /\ StepOf(t) /\ call'[t].at = "leave" /\ call'[t].job = call[t].job
  BY <1>1, LeavesCall, StepSet
<1>3. call[t].copy = Lines /\ call[t].job = <<>>
  BY <1>1 DEF Earned
<1>4. /\ Lines \in Seq(Line) /\ Len(Lines) \in Nat /\ Synced \in 0..Len(Lines)
      /\ DOMAIN Lines = 1..Len(Lines)
  BY <1>1, SyncedType
<1>5. current = Len(files) /\ Len(files) \in Nat /\ named \in 0..current
  BY <1>1 DEF IInv, FilesTyped, RestTyped
<1>6. /\ Lines' = Lines /\ Synced' = Len(Lines)
      /\ \A g \in 0..Len(files) : Carrying(g)' = Carrying(g)
  BY <1>1, <1>3, ReplacedLines
<1>7. Grows
  <2>1. \A o : Present(o) => Present(o)' /\ Durable(o)'
    BY <1>4, <1>6 DEF Present, Durable
  <2>2. \A o : Durable(o) => Present(o)
    BY <1>1, DurableIsPresent
  <2> QED  BY <2>1, <2>2 DEF Grows
<1>8. OlderHaveNoMore'
  <2>1. ASSUME NEW g \in named..current' PROVE Records(Carrying(g)'.lines) \subseteq Records(Lines)
    <3>1. CASE g = current'
      <4>1. Carrying(g)'.lines = Lines'
        BY <3>1 DEF Lines, Carrying, Absent
      <4> QED  BY <1>6, <4>1
    <3>2. CASE g # current'
      <4>1. g \in 0..Len(files) /\ g \in named..current
        BY <1>1, <1>5, <3>2
      <4> QED  BY <1>1, <1>6, <4>1 DEF OlderHaveNoMore
    <3> QED  BY <3>1, <3>2
  <2> QED  BY <1>1, <1>6, <2>1 DEF OlderHaveNoMore
<1>9. AcceptedAreDurable'
  BY <1>1, <1>7 DEF AcceptedAreDurable, Grows
<1>10. Earned(t)'
  <2>1. DOMAIN call'[t].job = {}
    BY <1>2, <1>3
  <2> QED  BY <1>2, <2>1 DEF Earned, Writing
<1> QED  BY <1>1, <1>2, <1>6, <1>7, <1>8, <1>9, <1>10, OthersEarned

-----------------------------------------------------------------------------
\* Faults that end processes, and readers.

LEMMA IdleEarned ==
  ASSUME NEW t \in Thread, call'[t] = Idle
  PROVE  Earned(t)'
BY IdleType DEF Earned, Writing

LEMMA KillSound ==
  ASSUME Sound, IInv', NEW p \in Process, Kill(p)
  PROVE  Sound'
<1>1. /\ UNCHANGED <<store, named, accepted>> /\ AcceptedAreDurable /\ OlderHaveNoMore
      /\ call' = [t \in Thread |-> IF ProcessOf[t] = p THEN Idle ELSE call[t]]
  BY DEF Sound, Kill
<1>2. Grows /\ Lines' = Lines /\ Synced' = Synced /\ OlderHaveNoMore'
  BY <1>1, QuietGrows
<1>3. ASSUME NEW t \in Thread PROVE Earned(t)'
  <2>1. CASE call'[t] = Idle
    BY <2>1, IdleEarned
  <2>2. CASE call'[t] = call[t]
    <3>1. Earned(t)
      BY DEF Sound
    <3>2. \A k \in DOMAIN call[t].job :
            /\ Present(call[t].job[k]) => Present(call[t].job[k])'
            /\ Durable(call[t].job[k]) => Durable(call[t].job[k])'
            /\ Awaits(t, call[t].job[k]) => Awaits(t, call[t].job[k])'
      BY <1>2, <2>2 DEF Grows, Awaits
    <3> QED  BY <1>2, <2>2, <3>1, <3>2 DEF Earned
  <2> QED  BY <1>1, <2>1, <2>2
<1>4. AcceptedAreDurable'
  BY <1>1, <1>2 DEF AcceptedAreDurable, Grows
<1> QED  BY <1>2, <1>3, <1>4 DEF Sound

LEMMA QuietCallsSound ==
  ASSUME Sound, IInv', UNCHANGED <<store, named, accepted, call>>
  PROVE  Sound'
<1>1. AcceptedAreDurable /\ OlderHaveNoMore
  BY DEF Sound
<1>2. Grows /\ Lines' = Lines /\ Synced' = Synced /\ OlderHaveNoMore'
  BY <1>1, QuietGrows
<1>3. ASSUME NEW t \in Thread PROVE Earned(t)'
  <2>1. Earned(t)
    BY DEF Sound
  <2>2. \A k \in DOMAIN call[t].job :
          /\ Present(call[t].job[k]) => Present(call[t].job[k])'
          /\ Durable(call[t].job[k]) => Durable(call[t].job[k])'
          /\ Awaits(t, call[t].job[k]) => Awaits(t, call[t].job[k])'
    BY <1>2 DEF Grows, Awaits
  <2> QED  BY <1>2, <2>1, <2>2 DEF Earned
<1>4. AcceptedAreDurable'
  BY <1>1, <1>2 DEF AcceptedAreDurable, Grows
<1> QED  BY <1>2, <1>3, <1>4 DEF Sound

\* A power loss that has undone nothing leaves the fsynced lines as fsynced lines, and
\* no record that was not there.
LEMMA PowerLossSound ==
  ASSUME Sound, IInv', PowerLoss, lapses' = {}
  PROVE  Sound' /\ Records(Lines)' \subseteq Records(Lines)
<1>1. /\ named' = current' /\ UNCHANGED accepted /\ call' = [t \in Thread |-> Idle]
      /\ AcceptedAreDurable /\ OlderHaveNoMore /\ IInv
  BY DEF PowerLoss, Sound
<1>2. PICK g \in named..current : \E f \in Remains(Carrying(g)) :
        /\ files' = IF g = 0 THEN <<>> ELSE <<f>>
        /\ current' = IF g = 0 THEN 0 ELSE 1
        /\ IsPrefix(SubSeq(Lines, 1, Synced), f.lines)
  BY DEF PowerLoss
<1>3. PICK f \in Remains(Carrying(g)) :
        /\ files' = IF g = 0 THEN <<>> ELSE <<f>>
        /\ current' = IF g = 0 THEN 0 ELSE 1
        /\ IsPrefix(SubSeq(Lines, 1, Synced), f.lines)
  BY <1>2
<1>4. g \in 0..Len(files) /\ FilesTyped /\ FilesUnique /\ g \in Nat
  BY <1>1 DEF IInv, FilesTyped, RestTyped
<1> DEFINE c == Carrying(g)
<1>5. SoundFile(c) /\ UniqueLines(c.lines)
  BY <1>4, CarryingType
<1>6. /\ SoundFile(f) /\ f.synced = Len(f.lines)
      /\ \A i \in DOMAIN f.lines : i \in DOMAIN c.lines /\
           (f.lines[i] # Garbage => f.lines[i] = c.lines[i])
  <2> HIDE DEF c
  <2>1. f \in Remains(c)
    BY DEF c
  <2> QED  BY <1>5, <2>1, RemainsSound
<1>7. f.lines \in Seq(Line) /\ Len(f.lines) \in Nat /\ DOMAIN f.lines = 1..Len(f.lines)
  <2>1. f.lines \in Seq(Line)
    BY <1>6 DEF SoundFile, FileType
  <2> QED  BY <2>1
<1>8. Lines' = f.lines /\ Synced' = Len(f.lines)
  <2>1. CASE g = 0
    <3>1. c.lines = <<>>
      BY <2>1 DEF Carrying, Absent, File
    <3>2. DOMAIN f.lines = {}
      BY <1>6, <3>1
    <3>3. f.lines = <<>> /\ Len(f.lines) = 0
      <4>1. 1 \notin 1..Len(f.lines)
        BY <1>7, <3>2
      <4>2. Len(f.lines) = 0
        BY <1>7, <4>1
      <4> QED  BY <1>7, <4>2
    <3> QED  BY <1>3, <2>1, <3>3 DEF Lines, Synced, Carrying, Absent, File
  <2>2. CASE g # 0
    BY <1>3, <1>6, <2>2 DEF Lines, Synced, Carrying
  <2> QED  BY <2>1, <2>2
<1>9. \A i \in 1..Synced : i \in 1..Len(f.lines) /\ f.lines[i] = Lines[i]
  <2> DEFINE kept == SubSeq(Lines, 1, Synced)
  <2>1. Lines \in Seq(Line) /\ Synced \in 0..Len(Lines) /\ Len(Lines) \in Nat
    BY <1>1, SyncedType
  <2>2. Len(kept) = Synced /\ \A i \in 1..Synced : kept[i] = Lines[i]
    BY <2>1
  <2>3. Len(kept) <= Len(f.lines) /\ SubSeq(kept, 1, Len(kept)) = SubSeq(f.lines, 1, Len(kept))
    BY <1>3 DEF IsPrefix
  <2>4. \A i \in 1..Synced : SubSeq(kept, 1, Len(kept))[i] = kept[i]
    BY <2>1, <2>2
  <2> HIDE DEF kept
  <2>5. \A i \in 1..Synced : SubSeq(f.lines, 1, Len(kept))[i] = f.lines[i]
    BY <1>7, <2>1, <2>2, <2>3
  <2> QED  BY <1>7, <2>1, <2>2, <2>3, <2>4, <2>5
<1>10. AcceptedAreDurable'
  BY <1>1, <1>8, <1>9 DEF AcceptedAreDurable, Durable
<1>11. OlderHaveNoMore'
  <2>1. current' \in Nat
    BY <1>3
  <2>2. \A h \in named'..current' : h = current'
    BY <1>1, <2>1
  <2>3. ASSUME NEW h, h = current' PROVE Carrying(h)'.lines = Lines'
    BY <2>3 DEF Lines, Carrying, Absent
  <2> QED  BY <2>2, <2>3 DEF OlderHaveNoMore
<1>12. \A t \in Thread : Earned(t)'
  BY <1>1, IdleEarned
<1>13. Records(Lines') \subseteq Records(Lines)
  <2>1. Records(f.lines) \subseteq Records(c.lines)
    BY <1>6 DEF Records, Range
  <2>2. Records(c.lines) \subseteq Records(Lines)
    BY <1>1 DEF OlderHaveNoMore
  <2> QED  BY <1>8, <2>1, <2>2
<1> QED  BY <1>10, <1>11, <1>12, <1>13 DEF Sound

-----------------------------------------------------------------------------
LEMMA InitSound == Init => Sound
<1> SUFFICES ASSUME Init PROVE Sound
  OBVIOUS
<1>1. IInv
  BY InitInv
<1>2. PICK e \in Existing :
        /\ files = IF e = <<>> THEN <<>> ELSE <<File(e, Len(e), FALSE)>>
        /\ current = IF e = <<>> THEN 0 ELSE 1
        /\ accepted = Range(e)
  BY DEF Init
<1>3. e \in Seq(Observation) /\ Len(e) \in Nat /\ DOMAIN e = 1..Len(e)
  BY ExistingLines
<1>4. Lines = e /\ Synced = Len(e)
  <2>1. CASE e = <<>>
    BY <1>2, <2>1 DEF Lines, Synced, Carrying, Absent, File
  <2>2. CASE e # <<>>
    <3>1. files[1].lines = e /\ files[1].synced = Len(e) /\ current = 1
      BY <1>2, <2>2 DEF File
    <3> QED  BY <3>1 DEF Lines, Synced, Carrying
  <2> QED  BY <2>1, <2>2
<1>5. ASSUME NEW i \in DOMAIN e PROVE Durable(e[i])
  <2>1. e[i] \in Observation /\ e[i].content \notin NotANumber
    BY <1>3, ExistingAssumption
  <2>2. Matches(e[i], e[i]) /\ e[i] # Garbage
    BY <2>1, StoredMatches DEF Stored
  <2> QED  BY <1>3, <1>4, <2>2 DEF Durable
<1>6. AcceptedAreDurable
  BY <1>2, <1>5 DEF AcceptedAreDurable, Range
<1>7. OlderHaveNoMore
  <2>1. \A g \in named..current : g = current
    BY <1>2 DEF Init
  <2> QED  BY <2>1 DEF OlderHaveNoMore, Lines
<1>8. ASSUME NEW t \in Thread PROVE Earned(t)
  <2>1. call[t] = Idle
    BY DEF Init
  <2> QED  BY <2>1, IdleType DEF Earned, Writing
<1> QED  BY <1>1, <1>6, <1>7, <1>8 DEF Sound

LEMMA LapsesStay ==
  ASSUME [Next]_vars
  PROVE  lapses \subseteq lapses'
<1>1. CASE UNCHANGED vars
  BY <1>1 DEF vars
<1>2. ASSUME NEW t \in Thread, CallStep(t) PROVE lapses \subseteq lapses'
  <2>1. CASE Write(t)
    BY <2>1 DEF Write, AppendLine
  <2>2. CASE Check(t)
    BY <2>2 DEF Check
  <2> QED  BY <1>2, <2>1, <2>2 DEF CallStep, LockThread, LockFile, EnterAppend, LeaveAppend,
              Copy, Replace, Leave, Answer
<1>3. ASSUME NEW t \in Thread, NEW job, Request(t, job) PROVE lapses \subseteq lapses'
  BY <1>3 DEF Request
<1>4. ASSUME NEW t \in Thread, WriteFails(t) \/ WritesShort(t) PROVE lapses \subseteq lapses'
  BY <1>4 DEF WriteFails, WritesShort, AppendLine
<1>5. ASSUME NEW r \in Reader, Open(r) \/ ReadLine(r) \/ Return(r) PROVE lapses \subseteq lapses'
  BY <1>5 DEF Open, ReadLine, Return
<1>6. ASSUME NEW p \in Process, Kill(p) PROVE lapses \subseteq lapses'
  BY <1>6 DEF Kill
<1>7. CASE PowerLoss
  BY <1>7 DEF PowerLoss
<1> QED  BY <1>1, <1>2, <1>3, <1>4, <1>5, <1>6, <1>7 DEF Next

LEMMA NextSound ==
  ASSUME Sound, [Next]_vars, lapses' = {}
  PROVE  Sound'
<1>1. IInv'
  BY NextInv DEF Sound
<1>2. CASE UNCHANGED vars
  BY <1>1, <1>2, QuietCallsSound DEF vars, store
<1>3. ASSUME NEW t \in Thread, NEW job \in Job, Request(t, job) PROVE Sound'
  BY <1>1, <1>3, RequestSound
<1>4. ASSUME NEW t \in Thread, CallStep(t) PROVE Sound'
  <2>1. \/ LockThread(t) \/ LockFile(t) \/ Check(t) \/ EnterAppend(t) \/ Write(t)
        \/ LeaveAppend(t) \/ Copy(t) \/ Replace(t) \/ Leave(t) \/ Answer(t)
    BY <1>4 DEF CallStep
  <2> QED  BY <1>1, <2>1, GotoSound, CheckSound, EnterAppendSound, WriteSound,
              LeaveAppendSound, CopySound, ReplaceSound, AnswerSound
<1>5. ASSUME NEW t \in Thread, WriteFails(t) \/ WritesShort(t) PROVE Sound'
  <2>1. CASE WriteFails(t)
    BY <1>1, <2>1, WriteFailsSound
  <2>2. CASE WritesShort(t)
    <3>1. "short" \in lapses'
      BY <2>2 DEF WritesShort, AppendLine
    <3> QED  BY <3>1
  <2> QED  BY <1>5, <2>1, <2>2
<1>6. ASSUME NEW r \in Reader, Open(r) \/ ReadLine(r) \/ Return(r) PROVE Sound'
  <2>1. UNCHANGED <<store, named, accepted, call>>
    BY <1>6 DEF Open, ReadLine, Return, counts
  <2> QED  BY <1>1, <2>1, QuietCallsSound
<1>7. ASSUME NEW p \in Process, Kill(p) PROVE Sound'
  BY <1>1, <1>7, KillSound
<1>8. CASE PowerLoss
  BY <1>1, <1>8, PowerLossSound
<1> QED  BY <1>2, <1>3, <1>4, <1>5, <1>6, <1>7, <1>8 DEF Next, Job

LEMMA DurableHolds == Spec => []DInv
<1>1. Init => DInv
  BY InitSound DEF Sound, DInv
<1>2. DInv /\ [Next]_vars => DInv'
  <2> SUFFICES ASSUME DInv, [Next]_vars PROVE DInv'
    OBVIOUS
  <2>1. IInv'
    BY NextInv DEF DInv
  <2>2. ASSUME lapses' = {} PROVE Sound'
    <3>1. lapses = {}
      BY <2>2, LapsesStay
    <3>2. Sound
      BY <3>1 DEF DInv
    <3> QED  BY <2>2, <3>2, NextSound
  <2> QED  BY <2>1, <2>2 DEF DInv
<1> QED  BY <1>1, <1>2, PTL DEF Spec

-----------------------------------------------------------------------------
\* "Never a silent drop": an observation that was accepted is in the file with the
\* content that was accepted, whatever requests raced and whichever processes, writes
\* or machines failed, unless the store lapsed in one of the three named ways.
THEOREM AcceptedIsStoredHolds == Spec => []AcceptedIsStored
<1>1. ASSUME DInv PROVE AcceptedIsStored
  <2>1. ASSUME lapses = {}, NEW o \in accepted
        PROVE  \E r \in Records(Lines) : r.id = o.id /\ r.content = Stored(o).content
    <3>1. Present(o)
      BY <1>1, <2>1, DurableIsPresent DEF DInv, Sound, AcceptedAreDurable
    <3> QED  BY <3>1 DEF Present, Matches, Records, Range
  <2> QED  BY <2>1 DEF AcceptedIsStored
<1> QED  BY <1>1, DurableHolds, PTL

-----------------------------------------------------------------------------
\* The store implements ObservationLedger.

Entry == {Stored(o) : o \in Observation} \union Observation
Kept(records) == \A o \in accepted : \E r \in records : Matches(r, o)
Enters(o) ==
  /\ \A r \in Records(Lines) : r.id # o.id
  /\ Records(Lines)' = Records(Lines) \union {o}
  /\ UNCHANGED accepted
Accepts ==
  /\ accepted \subseteq accepted' /\ accepted' \subseteq Entry
  /\ \A o \in accepted' \ accepted : \E r \in Records(Lines) : Matches(r, o)
  /\ Records(Lines)' = Records(Lines)
Crashes ==
  /\ Records(Lines)' \subseteq Records(Lines)
  /\ Kept(Records(Lines)')
  /\ UNCHANGED accepted

LEMMA LedgerInit ==
  ASSUME Init
  PROVE  Ledger!Init
<1>1. Sound
  BY InitSound
<1>2. Records(Lines) \subseteq Entry
  <2>1. Lines \in Seq(Line)
    BY <1>1, SyncedType DEF Sound
  <2> QED  BY <2>1 DEF Records, Range, Line, Entry
<1>3. accepted \subseteq Entry
  BY <1>1 DEF Sound, IInv, RestTyped, Entry
<1>4. \A r, q \in Records(Lines) : r.id = q.id => r = q
  <2>1. UniqueLines(Lines)
    BY <1>1, LinesType DEF Sound
  <2> QED  BY <2>1 DEF UniqueLines, Records, Range
<1>5. Kept(Records(Lines))
  <2>1. \A o \in accepted : Present(o)
    BY <1>1, DurableIsPresent DEF Sound, AcceptedAreDurable
  <2> QED  BY <2>1 DEF Kept, Present, Records, Range
<1> QED  BY <1>2, <1>3, <1>4, <1>5 DEF Ledger!Init, Ledger!Kept, Kept, Matches, Entry

\* A write enters a record with a new id.
LEMMA WriteEnters ==
  ASSUME Sound, NEW t \in Thread, Write(t), lapses' = {}
  PROVE  \E o \in Entry : Enters(o)
<1>1. /\ CallsTyped /\ IInv /\ UNCHANGED <<named, accepted>> /\ call[t].at = "write"
      /\ FreshIsNew(t)
  BY DEF Sound, IInv, Write, counts, At
<1>2. PICK k \in DOMAIN call[t].job :
        k \in call[t].fresh /\ AppendLine(Stored(call[t].job[k]), FALSE)
  BY DEF Write, IsNext
<1> DEFINE line == Stored(call[t].job[k])
<1>3. call[t].job[k] \in Observation
  <2>1. call[t].job \in Job
    BY <1>1 DEF CallsTyped, Call
  <2> QED  BY <2>1, JobType
<1>4. line \in Line /\ line # Garbage /\ line \in Entry /\ line.id = call[t].job[k].id
  BY <1>3, StoredLine, StoredMatches DEF Entry
<1>5. \A r \in Records(Lines) : r.id # line.id
  <2>1. NewId(t, k)
    BY <1>1, <1>2 DEF FreshIsNew
  <2> QED  BY <1>4, <2>1 DEF NewId, Records, Range
<1>6. AppendLine(line, FALSE)
  BY <1>2
<1> HIDE DEF line
<1>7. Lines' = Append(Lines, line)
  BY <1>1, <1>4, <1>6, AppendGrows
<1>8. Records(Lines') = Records(Lines) \union {line}
  <2>1. Lines \in Seq(Line) /\ Len(Lines) \in Nat
    BY <1>1, SyncedType
  <2>2. \A i \in DOMAIN Lines' : \/ i \in DOMAIN Lines /\ Lines'[i] = Lines[i]
                                 \/ Lines'[i] = line
    BY <1>4, <1>7, <2>1
  <2>3. \A i \in DOMAIN Lines : i \in DOMAIN Lines' /\ Lines'[i] = Lines[i]
    BY <1>4, <1>7, <2>1
  <2>4. \E i \in DOMAIN Lines' : Lines'[i] = line
    BY <1>4, <1>7, <2>1
  <2>5. Range(Lines') = Range(Lines) \union {line}
    BY <2>2, <2>3, <2>4 DEF Range
  <2> QED  BY <1>4, <2>5 DEF Records
<1>9. Enters(line)
  BY <1>1, <1>5, <1>8 DEF Enters
<1> QED  BY <1>4, <1>9

LEMMA KeptHolds ==
  ASSUME Sound
  PROVE  Kept(Records(Lines))
<1>1. \A o \in accepted : Present(o)
  BY DurableIsPresent DEF Sound, AcceptedAreDurable
<1> QED  BY <1>1 DEF Kept, Present, Records, Range

\* An answer accepts what is in the file.
LEMMA AnswerAccepts ==
  ASSUME Sound, Sound', NEW t \in Thread, Answer(t)
  PROVE  Accepts
<1>1. Lines' = Lines
  BY QuietGrows DEF Answer
<1>2. accepted \subseteq accepted'
  BY DEF Answer
<1>3. accepted' \subseteq Entry
  BY DEF Sound, IInv, RestTyped, Entry
<1>4. \A o \in accepted' : \E r \in Records(Lines') : Matches(r, o)
  <2>1. Kept(Records(Lines))'
    BY KeptHolds, PTL
  <2> QED  BY <2>1 DEF Kept, Matches
<1> QED  BY <1>1, <1>2, <1>3, <1>4 DEF Accepts

LEMMA StepPromised ==
  ASSUME Sound, Sound', [Next]_vars, lapses' = {}
  PROVE  \/ Records(Lines)' = Records(Lines) /\ accepted' = accepted
         \/ Accepts \/ Crashes \/ \E o \in Entry : Enters(o)
<1> DEFINE Quiet == Lines' = Lines /\ accepted' = accepted
<1>1. CASE UNCHANGED vars
  <2>1. Quiet
    BY <1>1, QuietGrows DEF vars, store
  <2> QED  BY <2>1
<1>2. ASSUME NEW t \in Thread, NEW job, Request(t, job) PROVE Quiet
  BY <1>2, QuietGrows DEF Request
<1>3. ASSUME NEW t \in Thread,
             LockThread(t) \/ LockFile(t) \/ Check(t) \/ EnterAppend(t) \/ Copy(t) \/ Leave(t)
      PROVE  Quiet
  BY <1>3, QuietGrows DEF LockThread, LockFile, Check, EnterAppend, Copy, Leave
<1>4. ASSUME NEW t \in Thread, LeaveAppend(t) PROVE Quiet
  BY <1>4, SyncedFiles DEF LeaveAppend, Sound
<1>5. ASSUME NEW t \in Thread, Replace(t) PROVE Quiet
  <2>1. call[t].copy = Lines
    BY <1>5 DEF Replace, At, Sound, Earned
  <2> QED  BY <1>5, <2>1, ReplacedLines DEF Replace, Sound
<1>6. ASSUME NEW t \in Thread, WriteFails(t) PROVE Quiet
  BY <1>6, QuietGrows DEF WriteFails
<1>7. ASSUME NEW t \in Thread, WritesShort(t) PROVE FALSE
  BY <1>7 DEF WritesShort, AppendLine
<1>8. ASSUME NEW r \in Reader, Open(r) \/ ReadLine(r) \/ Return(r) PROVE Quiet
  BY <1>8, QuietGrows DEF Open, ReadLine, Return
<1>9. ASSUME NEW p \in Process, Kill(p) PROVE Quiet
  BY <1>9, QuietGrows DEF Kill
<1>10. CASE PowerLoss
  <2>1. Records(Lines)' \subseteq Records(Lines) /\ accepted' = accepted
    BY <1>10, PowerLossSound DEF Sound, PowerLoss
  <2>2. Kept(Records(Lines))'
    BY KeptHolds, PTL
  <2>3. Kept(Records(Lines)')
    BY <2>1, <2>2 DEF Kept, Matches
  <2> QED  BY <2>1, <2>3 DEF Crashes
<1>11. ASSUME NEW t \in Thread, Write(t) PROVE \E o \in Entry : Enters(o)
  BY <1>11, WriteEnters
<1>12. ASSUME NEW t \in Thread, Answer(t) PROVE Accepts
  BY <1>12, AnswerAccepts
<1>13. ASSUME NEW t \in Thread, CallStep(t)
       PROVE  Quiet \/ Accepts \/ \E o \in Entry : Enters(o)
  BY <1>3, <1>4, <1>5, <1>11, <1>12, <1>13 DEF CallStep
<1> QED  BY <1>1, <1>2, <1>6, <1>7, <1>8, <1>9, <1>10, <1>13 DEF Next

\* Until a lapse, every step of the store is a step that the ledger may take.
THEOREM ImplementsLedger == Spec => ImplementsObservationLedger
<1>1. Init => Ledger!Init
  BY LedgerInit
<1>2. DInv /\ DInv' /\ [Next]_vars => [Ledger!Next]_(Ledger!vars) \/ lapses' # {}
  <2> SUFFICES ASSUME DInv, DInv', [Next]_vars, lapses' = {}
               PROVE  [Ledger!Next]_(Ledger!vars)
    OBVIOUS
  <2>1. Sound /\ Sound'
    BY LapsesStay DEF DInv
  <2>2. CASE Records(Lines)' = Records(Lines) /\ accepted' = accepted
    BY <2>2 DEF Ledger!vars
  <2>3. CASE Accepts
    <3>1. Ledger!Accept
      BY <2>3 DEF Accepts, Ledger!Accept, Entry, Matches
    <3> QED  BY <3>1 DEF Ledger!Next
  <2>4. CASE Crashes
    <3>1. Ledger!Crash
      BY <2>4 DEF Crashes, Ledger!Crash, Ledger!Kept, Kept, Matches
    <3> QED  BY <3>1 DEF Ledger!Next
  <2>5. CASE \E o \in Entry : Enters(o)
    <3>1. \E o \in Entry : Ledger!Enter(o)
      BY <2>5 DEF Enters, Ledger!Enter
    <3> QED  BY <3>1 DEF Ledger!Next, Entry
  <2> QED  BY <2>1, <2>2, <2>3, <2>4, <2>5, StepPromised
<1> QED  BY <1>1, <1>2, DurableHolds, PTL DEF Spec, ImplementsObservationLedger

-----------------------------------------------------------------------------
\* Lock-free readers.

PrefixOf(s, q) == Len(s) <= Len(q) /\ \A i \in 1..Len(s) : s[i] = q[i]

\* What a compaction is about to write back is what the file holds.
Copies == \A t \in Thread : call[t].at = "replace" => call[t].copy = Lines

\* Every file that has carried the name begins the one that carries it now.
FilesNest == \A g \in 0..current : Readable(Lines) => PrefixOf(Carrying(g).lines, Lines)

\* A reader has returned lines from the start of its file, and is done only behind
\* the lines that were there when it opened the file.
SeesItsFile(r) ==
  reader[r].at # "idle" /\ Readable(Lines) =>
    /\ reader[r].at # "failed"
    /\ PrefixOf(reader[r].seen, Carrying(reader[r].file).lines)
    /\ PrefixOf(reader[r].due, Carrying(reader[r].file).lines)
    /\ reader[r].at = "done" => Len(reader[r].due) <= Len(reader[r].seen)

RInv == IInv /\ Copies /\ FilesNest /\ \A r \in Reader : SeesItsFile(r)

LEMMA LongerPrefix ==
  ASSUME NEW s \in Seq(Line), NEW q \in Seq(Line), PrefixOf(s, q), Len(s) + 1 \in DOMAIN q
  PROVE  PrefixOf(Append(s, q[Len(s) + 1]), q)
<1>1. Len(s) \in Nat /\ Len(s) + 1 <= Len(q)
  OBVIOUS
<1>2. ASSUME NEW line
      PROVE  /\ Len(Append(s, line)) = Len(s) + 1
             /\ \A i \in 1..Len(s) : Append(s, line)[i] = s[i]
             /\ Append(s, line)[Len(s) + 1] = line
  OBVIOUS
<1>3. \A i \in 1..Len(s) + 1 : i \in 1..Len(s) \/ i = Len(s) + 1
  BY <1>1
<1> QED  BY <1>1, <1>2, <1>3 DEF PrefixOf

LEMMA PrefixOfIsPrefix ==
  ASSUME NEW s \in Seq(Line), NEW q \in Seq(Line)
  PROVE  PrefixOf(s, q) => IsPrefix(s, q)
<1> SUFFICES ASSUME PrefixOf(s, q) PROVE IsPrefix(s, q)
  OBVIOUS
<1>1. Len(s) \in Nat /\ Len(q) \in Nat /\ Len(s) <= Len(q)
  BY DEF PrefixOf
<1>2. SubSeq(s, 1, Len(s)) = SubSeq(q, 1, Len(s))
  <2>1. /\ SubSeq(s, 1, Len(s)) \in Seq(Line) /\ Len(SubSeq(s, 1, Len(s))) = Len(s)
        /\ \A i \in 1..Len(s) : SubSeq(s, 1, Len(s))[i] = s[i]
    BY <1>1
  <2>2. /\ SubSeq(q, 1, Len(s)) \in Seq(Line) /\ Len(SubSeq(q, 1, Len(s))) = Len(s)
        /\ \A i \in 1..Len(s) : SubSeq(q, 1, Len(s))[i] = q[i]
    BY <1>1
  <2>3. \A i \in 1..Len(s) : SubSeq(s, 1, Len(s))[i] = SubSeq(q, 1, Len(s))[i]
    BY <2>1, <2>2 DEF PrefixOf
  <2> QED  BY <2>1, <2>2, <2>3, SeqEqual
<1> QED  BY <1>1, <1>2 DEF IsPrefix

LEMMA PrefixChain ==
  ASSUME NEW s \in Seq(Line), NEW q \in Seq(Line), NEW u \in Seq(Line),
         PrefixOf(s, q), PrefixOf(q, u)
  PROVE  PrefixOf(s, u)
BY DEF PrefixOf

\* A prefix of readable lines is readable.
LEMMA PrefixReadable ==
  ASSUME NEW s \in Seq(Line), NEW q \in Seq(Line), PrefixOf(s, q), Readable(q)
  PROVE  Readable(s)
BY DEF PrefixOf, Readable, Range

\* The files and the lines only grow, or become unreadable.
Extends ==
  /\ current' >= current
  /\ Readable(Lines') =>
       /\ Readable(Lines)
       /\ \A g \in 0..current : PrefixOf(Carrying(g).lines, Carrying(g)'.lines)

LEMMA FileLines ==
  ASSUME IInv, NEW g \in 0..current
  PROVE  /\ Carrying(g).lines \in Seq(Line) /\ Len(Carrying(g).lines) \in Nat
         /\ PrefixOf(Carrying(g).lines, Carrying(g).lines)
<1>1. FilesTyped /\ g \in 0..Len(files)
  BY DEF IInv, FilesTyped
<1>2. Carrying(g).lines \in Seq(Line)
  BY <1>1, CarryingType
<1> QED  BY <1>2 DEF PrefixOf

LEMMA LinesNow ==
  ASSUME IInv
  PROVE  /\ Lines \in Seq(Line) /\ Len(Lines) \in Nat /\ PrefixOf(Lines, Lines)
         /\ current \in Nat
<1>1. Lines \in Seq(Line) /\ current \in Nat
  BY LinesType
<1> QED  BY <1>1 DEF PrefixOf

\* When a step changes the file that carries the name, or adds the next one.
LEMMA StoreExtends ==
  ASSUME IInv, FilesNest, IInv', current' >= current, current' <= current + 1,
         \A g \in 0..current : g # current' => Carrying(g)' = Carrying(g),
         Readable(Lines') => PrefixOf(Lines, Lines')
  PROVE  Extends /\ FilesNest'
<1>1. /\ Lines \in Seq(Line) /\ current \in Nat
      /\ Lines' \in Seq(Line) /\ current' \in Nat /\ PrefixOf(Lines', Lines')
  <2>1. (Lines \in Seq(Line) /\ PrefixOf(Lines, Lines) /\ current \in Nat)'
    BY LinesNow, PTL
  <2> QED  BY <2>1, LinesNow
<1>2. \A g : g = current' => Carrying(g)'.lines = Lines'
  BY DEF Lines, Carrying, Absent
<1>3. ASSUME Readable(Lines') PROVE Readable(Lines)
  BY <1>1, <1>3, PrefixReadable
<1>4. ASSUME Readable(Lines'), NEW g \in 0..current
      PROVE  PrefixOf(Carrying(g).lines, Carrying(g)'.lines)
  <2>1. CASE g = current'
    <3>1. g = current
      BY <1>1, <2>1
    <3>2. Carrying(g).lines = Lines
      BY <3>1 DEF Lines
    <3> QED  BY <1>2, <1>4, <2>1, <3>2
  <2>2. CASE g # current'
    BY <2>2, FileLines
  <2> QED  BY <2>1, <2>2
<1>5. ASSUME Readable(Lines'), NEW g \in 0..current'
      PROVE  PrefixOf(Carrying(g)'.lines, Lines')
  <2>1. CASE g = current'
    BY <1>1, <1>2, <2>1
  <2>2. CASE g # current'
    <3>1. g \in 0..current
      BY <1>1, <2>2
    <3>2. PrefixOf(Carrying(g).lines, Lines)
      BY <1>3, <1>5, <3>1 DEF FilesNest
    <3>3. Carrying(g).lines \in Seq(Line)
      BY <3>1, FileLines
    <3>4. PrefixOf(Carrying(g).lines, Lines')
      BY <1>1, <1>5, <3>2, <3>3, PrefixChain
    <3> QED  BY <2>2, <3>1, <3>4
  <2> QED  BY <2>1, <2>2
<1> QED  BY <1>3, <1>4, <1>5 DEF Extends, FilesNest

LEMMA QuietExtends ==
  ASSUME IInv, FilesNest, UNCHANGED store
  PROVE  Extends /\ FilesNest' /\ Lines' = Lines
<1>1. Lines' = Lines /\ current' = current /\ \A g : Carrying(g)' = Carrying(g)
  BY DEF store, Lines, Carrying
<1>2. \A g \in 0..current : PrefixOf(Carrying(g).lines, Carrying(g).lines)
  BY FileLines
<1> QED  BY <1>1, <1>2, LinesNow DEF Extends, FilesNest

LEMMA AppendExtends ==
  ASSUME IInv, FilesNest, IInv', NEW line \in Line, NEW cut \in BOOLEAN, AppendLine(line, cut)
  PROVE  Extends /\ FilesNest'
<1> DEFINE f == Carrying(current)
           lines == IF f.cut THEN [f.lines EXCEPT ![Len(f.lines)] = Garbage]
                             ELSE Append(f.lines, line)
           nf == File(lines, f.synced, cut)
           nf0 == File(lines, 0, cut)
<1>1. /\ files' = IF current = 0 THEN Append(files, nf0) ELSE [files EXCEPT ![current] = nf]
      /\ current' = IF current = 0 THEN Len(files) + 1 ELSE current
  BY DEF AppendLine
<1>2. f.lines = Lines /\ Lines \in Seq(Line) /\ Len(Lines) \in Nat
  BY LinesNow DEF Lines
<1>3. /\ files \in Seq(FileType) /\ current = Len(files) /\ Len(files) \in Nat
      /\ DOMAIN files = 1..Len(files)
  BY DEF IInv, FilesTyped
<1>4. nf.lines = lines /\ nf0.lines = lines
  BY DEF File
<1>5. Readable(lines) => PrefixOf(Lines, lines)
  <2>1. CASE ~f.cut
    BY <1>2, <2>1 DEF PrefixOf
  <2>2. CASE f.cut /\ Len(Lines) = 0
    <3>1. Len(lines) = 0
      BY <1>2, <2>2
    <3> QED  BY <1>2, <2>2, <3>1 DEF PrefixOf
  <2>3. CASE f.cut /\ Len(Lines) # 0
    <3>1. lines = [Lines EXCEPT ![Len(Lines)] = Garbage]
      BY <1>2, <2>3
    <3>2. Len(Lines) \in DOMAIN Lines
      BY <1>2, <2>3
    <3>3. Len(Lines) \in DOMAIN lines /\ lines[Len(Lines)] = Garbage
      BY <3>1, <3>2
    <3>4. Garbage \in Range(lines)
      BY <3>3 DEF Range
    <3> QED  BY <3>4 DEF Readable
  <2> QED  BY <2>1, <2>2, <2>3
<1> HIDE DEF lines, nf, nf0
<1>6. CASE current = 0
  <2>1. files' = Append(files, nf0) /\ current' = 1
    BY <1>1, <1>3, <1>6
  <2>2. files'[current'] = nf0
    BY <1>3, <1>6, <2>1
  <2>3. Lines' = lines
    BY <1>4, <2>1, <2>2 DEF Lines, Carrying
  <2>4. \A g \in 0..current : Carrying(g)' = Carrying(g)
    BY <1>6 DEF Carrying, Absent, File
  <2> QED  BY <1>5, <1>6, <2>1, <2>3, <2>4, StoreExtends
<1>7. CASE current # 0
  <2>1. files' = [files EXCEPT ![current] = nf] /\ current' = current /\ current \in DOMAIN files
    BY <1>1, <1>3, <1>7
  <2>2. files'[current] = nf /\ \A g \in DOMAIN files : g # current => files'[g] = files[g]
    BY <2>1
  <2>3. Lines' = lines
    BY <1>4, <1>7, <2>1, <2>2 DEF Lines, Carrying
  <2>4. \A g \in 0..current : g # current => Carrying(g)' = Carrying(g)
    BY <1>3, <2>2 DEF Carrying, Absent, File
  <2>5. current' >= current /\ current' <= current + 1
    BY <1>3, <2>1
  <2> QED  BY <1>5, <2>1, <2>3, <2>4, <2>5, StoreExtends
<1> QED  BY <1>6, <1>7

LEMMA SyncExtends ==
  ASSUME IInv, FilesNest, IInv', SyncLines, current' = current
  PROVE  Extends /\ FilesNest' /\ Lines' = Lines
<1>1. Lines' = Lines
  BY SyncedFiles
<1>2. current = Len(files) /\ current \in Nat
  BY LinesType DEF IInv, FilesTyped
<1>3. \A g \in 0..current : g # current => Carrying(g)' = Carrying(g)
  BY <1>2, SyncedLines
<1>4. current' >= current /\ current' <= current + 1
  BY <1>2
<1> QED  BY <1>1, <1>3, <1>4, LinesNow, StoreExtends

LEMMA ReplaceExtends ==
  ASSUME IInv, FilesNest, IInv', NEW t \in Thread, Replace(t), call[t].copy = Lines
  PROVE  Extends /\ FilesNest' /\ Lines' = Lines
<1>1. current = Len(files) /\ current \in Nat /\ current' = current + 1
  BY LinesType DEF IInv, FilesTyped, Replace
<1>2. Lines' = Lines /\ \A g \in 0..current : Carrying(g)' = Carrying(g)
  BY <1>1, ReplacedLines
<1> QED  BY <1>1, <1>2, LinesNow, StoreExtends

-----------------------------------------------------------------------------
\* What the readers see.

LEMMA ExtendsKeeps ==
  ASSUME RInv, IInv', Extends, reader' = reader, NEW r \in Reader
  PROVE  SeesItsFile(r)'
<1> DEFINE g == reader[r].file
<1>1. /\ SeesItsFile(r) /\ reader[r] \in Reading /\ g \in 0..current /\ current' >= current
      /\ current \in Nat
  <2>1. IInv /\ ReadersTyped /\ FilesTyped
    BY DEF RInv, IInv
  <2> QED  BY <2>1, LinesNow DEF RInv, ReadersTyped, SoundReader, Reading, Extends, FilesTyped
<1> SUFFICES ASSUME reader[r].at # "idle", Readable(Lines') PROVE SeesItsFile(r)'
  BY DEF SeesItsFile
<1>2. Readable(Lines) /\ PrefixOf(Carrying(g).lines, Carrying(g)'.lines)
  BY <1>1 DEF Extends
<1>3. Carrying(g).lines \in Seq(Line)
  BY <1>1, FileLines DEF RInv
<1>4. Carrying(g)'.lines \in Seq(Line)
  <2>1. FilesTyped' /\ current' = Len(files') /\ current' \in Nat
    BY DEF IInv, FilesTyped
  <2>2. CASE g = 0
    <3>1. <<>> \in Seq(Line)  OBVIOUS
    <3> QED  BY <2>2, <3>1 DEF Carrying, Absent, File
  <2>3. CASE g # 0
    <3>1. g \in DOMAIN files'
      BY <1>1, <2>1, <2>3 DEF FilesTyped
    <3> QED  BY <2>1, <2>3, <3>1 DEF Carrying, FilesTyped, SoundFile, FileType
  <2> QED  BY <2>2, <2>3
<1>5. reader[r].seen \in Seq(Line) /\ reader[r].due \in Seq(Line)
  BY <1>1 DEF Reading
<1>6. /\ PrefixOf(reader[r].seen, Carrying(g).lines) /\ PrefixOf(reader[r].due, Carrying(g).lines)
      /\ reader[r].at # "failed"
      /\ reader[r].at = "done" => Len(reader[r].due) <= Len(reader[r].seen)
  BY <1>1, <1>2 DEF SeesItsFile
<1>7. PrefixOf(reader[r].seen, Carrying(g)'.lines) /\ PrefixOf(reader[r].due, Carrying(g)'.lines)
  <2> HIDE DEF g
  <2> QED  BY <1>2, <1>3, <1>4, <1>5, <1>6, PrefixChain
<1>8. Carrying(reader[r].file)' = Carrying(g)'
  OBVIOUS
<1> QED  BY <1>6, <1>7, <1>8 DEF SeesItsFile, Carrying, Absent

\* A call's step leaves what compactions are about to write back.
LEMMA CopiesKept ==
  ASSUME RInv, NEW t \in Thread, StepOf(t), Lines' = Lines \/ call[t].at \in Inside,
         call'[t].at = "replace" => call'[t].copy = Lines'
  PROVE  Copies'
<1>1. ASSUME NEW u \in Thread, u # t, call'[u].at = "replace" PROVE call'[u].copy = Lines'
  <2>1. call'[u] = call[u] /\ call[u].at \in Inside /\ call[u].copy = Lines
    BY <1>1 DEF StepOf, RInv, Copies, Inside
  <2>2. call[t].at \notin Inside
    BY <1>1, <2>1, Exclusion DEF RInv
  <2> QED  BY <2>1, <2>2
<1> QED  BY <1>1 DEF Copies

LEMMA CallReaders ==
  ASSUME RInv, IInv', NEW t \in Thread,
         CallStep(t) \/ WriteFails(t) \/ WritesShort(t) \/ \E job \in Job : Request(t, job)
  PROVE  RInv'
<1>1. IInv /\ CallsTyped /\ Copies /\ FilesNest /\ reader' = reader
  BY DEF RInv, IInv, CallStep, LockThread, LockFile, Check, EnterAppend, Write, LeaveAppend,
     Copy, Replace, Leave, Answer, WriteFails, WritesShort, Request
<1>2. SUFFICES /\ Extends /\ FilesNest'
               /\ StepOf(t) /\ (Lines' = Lines \/ call[t].at \in Inside)
               /\ call'[t].at = "replace" => call'[t].copy = Lines'
  BY <1>1, <1>2, ExtendsKeeps, CopiesKept DEF RInv
<1>3. ASSUME NEW step \in Steps \ {"replace"}, Goto(t, step)
      PROVE  StepOf(t) /\ call'[t].at # "replace"
  BY <1>1, <1>3, GotoCall
<1>4. ASSUME NEW answer \in Outcome, Leaves(t, answer)
      PROVE  StepOf(t) /\ call'[t].at # "replace"
  BY <1>1, <1>4, LeavesCall
<1>5. CASE LockThread(t) \/ LockFile(t) \/ Leave(t) \/ EnterAppend(t) \/ WriteFails(t)
  <2>1. \/ \E step \in {"flock", "copy", "check", "unlock", "write"} : Goto(t, step)
        \/ \E answer \in {"accepted", "error"} : Leaves(t, answer)
    BY <1>5 DEF LockThread, LockFile, Leave, EnterAppend, WriteFails, InTransaction, Leaves
  <2>2. StepOf(t) /\ call'[t].at # "replace"
    BY <1>3, <1>4, <2>1, StepSet
  <2>3. UNCHANGED store
    BY <1>5 DEF LockThread, LockFile, Leave, EnterAppend, WriteFails
  <2> QED  BY <1>1, <2>2, <2>3, QuietExtends
<1>6. CASE Check(t)
  <2> DEFINE batch == call[t].job
  <2>1. UNCHANGED store
    BY <1>6 DEF Check
  <2>2. \/ \E answer \in {"conflict", "error"} : Leaves(t, answer)
        \/ call' = [call EXCEPT ![t].at = "append", ![t].fresh = Fresh(batch, Lines)]
    BY <1>6 DEF Check, Leaves
  <2>3. Fresh(batch, Lines) \in SUBSET DOMAIN batch
    BY DEF Fresh
  <2>4. StepOf(t) /\ call'[t].at # "replace"
    BY <1>1, <1>4, <2>2, <2>3, CheckedCall, StepSet
  <2> QED  BY <1>1, <2>1, <2>4, QuietExtends
<1>7. CASE Copy(t)
  <2>1. UNCHANGED store
    BY <1>7 DEF Copy
  <2>2. Lines' = Lines /\ Extends /\ FilesNest'
    BY <1>1, <2>1, QuietExtends
  <2>3. Leaves(t, "error") \/ call' = [call EXCEPT ![t].at = "replace", ![t].copy = Lines]
    BY <1>7 DEF Copy, Leaves
  <2>4. Lines \in Seq(Line)
    BY <1>1, LinesNow
  <2>5. StepOf(t) /\ (call'[t].at = "replace" => call'[t].copy = Lines)
    BY <1>1, <1>4, <2>3, <2>4, CopiedCall, StepSet
  <2> QED  BY <2>2, <2>5
<1>8. CASE Write(t) \/ WritesShort(t)
  <2>1. /\ call[t].at = "write"
        /\ \E k \in DOMAIN call[t].job :
           \E line \in {Stored(call[t].job[k]), Garbage}, cut \in BOOLEAN :
             /\ AppendLine(line, cut)
             /\ call' = [call EXCEPT ![t].at = "leaveappend", ![t].fresh = @ \ {k},
                                     ![t].wrote = @ \union {k}]
    <3>1. CASE Write(t)
      BY <3>1 DEF Write, At
    <3>2. CASE WritesShort(t)
      <4>1. PICK k \in DOMAIN call[t].job, whole \in BOOLEAN :
              /\ AppendLine(IF whole THEN Stored(call[t].job[k]) ELSE Garbage, TRUE)
              /\ call' = [call EXCEPT ![t].at = "leaveappend", ![t].fresh = @ \ {k},
                                      ![t].wrote = @ \union {k}]
        BY <3>2 DEF WritesShort
      <4>2. CASE whole
        BY <3>2, <4>1, <4>2 DEF WritesShort, At
      <4>3. CASE ~whole
        BY <3>2, <4>1, <4>3 DEF WritesShort, At
      <4> QED  BY <4>2, <4>3
    <3> QED  BY <1>8, <3>1, <3>2
  <2>2. PICK k \in DOMAIN call[t].job :
          \E line \in {Stored(call[t].job[k]), Garbage}, cut \in BOOLEAN :
            /\ AppendLine(line, cut)
            /\ call' = [call EXCEPT ![t].at = "leaveappend", ![t].fresh = @ \ {k},
                                    ![t].wrote = @ \union {k}]
    BY <2>1
  <2>3. PICK line \in {Stored(call[t].job[k]), Garbage}, cut \in BOOLEAN : AppendLine(line, cut)
    BY <2>2
  <2>4. line \in Line
    <3>1. call[t].job \in Job
      BY <1>1 DEF CallsTyped, Call
    <3>2. call[t].job[k] \in Observation
      BY <3>1, JobType
    <3> QED  BY <3>2, StoredLine DEF Line
  <2>5. StepOf(t) /\ call'[t].at = "leaveappend"
    BY <1>1, <2>2, WrittenCall
  <2> QED  BY <1>1, <2>1, <2>3, <2>4, <2>5, AppendExtends DEF Inside
<1>9. CASE LeaveAppend(t)
  <2>1. SyncLines /\ current' = current /\ Goto(t, "append")
    BY <1>9 DEF LeaveAppend
  <2>2. StepOf(t) /\ call'[t].at # "replace"
    BY <1>3, <2>1, StepSet
  <2> QED  BY <1>1, <2>1, <2>2, SyncExtends
<1>10. CASE Replace(t)
  <2>1. call[t].copy = Lines /\ Leaves(t, "accepted")
    BY <1>1, <1>10 DEF Replace, At, Copies, Leaves
  <2>2. StepOf(t) /\ call'[t].at # "replace"
    BY <1>4, <2>1, StepSet
  <2> QED  BY <1>1, <1>10, <2>1, <2>2, ReplaceExtends
<1>11. CASE Answer(t)
  <2>1. UNCHANGED store /\ call' = [call EXCEPT ![t] = Idle]
    BY <1>11 DEF Answer
  <2>2. StepOf(t) /\ call'[t].at # "replace"
    BY <1>1, <2>1, WholeCall, IdleType
  <2> QED  BY <1>1, <2>1, <2>2, QuietExtends
<1>12. ASSUME NEW job \in Job, Request(t, job)
       PROVE  /\ Extends /\ FilesNest' /\ StepOf(t) /\ Lines' = Lines
              /\ call'[t].at # "replace"
  <2>1. UNCHANGED store
    BY <1>12 DEF Request
  <2>2. StepOf(t) /\ call'[t].at = "rlock"
    BY <1>1, <1>12, RequestCall
  <2> QED  BY <1>1, <2>1, <2>2, QuietExtends
<1> QED  BY <1>5, <1>6, <1>7, <1>8, <1>9, <1>10, <1>11, <1>12 DEF CallStep

LEMMA KillReaders ==
  ASSUME RInv, IInv', NEW p \in Process, Kill(p)
  PROVE  RInv'
<1>1. /\ UNCHANGED store /\ reader' = reader /\ IInv /\ FilesNest /\ Copies
      /\ call' = [t \in Thread |-> IF ProcessOf[t] = p THEN Idle ELSE call[t]]
  BY DEF Kill, RInv
<1>2. Extends /\ FilesNest' /\ Lines' = Lines
  BY <1>1, QuietExtends
<1>3. Copies'
  <2>1. \A t \in Thread : call'[t].at = "replace" => call'[t] = call[t]
    BY <1>1, IdleType
  <2> QED  BY <1>1, <1>2, <2>1 DEF Copies
<1> QED  BY <1>1, <1>2, <1>3, ExtendsKeeps DEF RInv

LEMMA ReaderReaders ==
  ASSUME RInv, IInv', NEW r \in Reader, Open(r) \/ ReadLine(r) \/ Return(r)
  PROVE  RInv'
<1> DEFINE c == reader[r]
           L == Carrying(c.file).lines
<1>1. /\ UNCHANGED <<store, call>> /\ IInv /\ FilesNest /\ Copies /\ ReadersTyped
      /\ reader \in [Reader -> Reading] /\ SeesItsFile(r)
  BY DEF Open, ReadLine, Return, RInv, IInv, ReadersTyped
<1>2. FilesNest' /\ Lines' = Lines /\ \A g : Carrying(g)' = Carrying(g)
  BY <1>1, QuietExtends DEF store, Carrying, Absent, File
<1>3. Copies'
  BY <1>1, <1>2 DEF Copies
<1>4. ASSUME NEW q \in Reader, q # r PROVE SeesItsFile(q)'
  <2>1. reader'[q] = reader[q]
    BY <1>1, <1>4 DEF Open, ReadLine, Return
  <2>2. SeesItsFile(q)
    BY DEF RInv
  <2> QED  BY <1>2, <2>1, <2>2 DEF SeesItsFile, Carrying, Absent, File, store
<1>5. SeesItsFile(r)'
  <2> SUFFICES ASSUME reader'[r].at # "idle", Readable(Lines)
               PROVE  /\ reader'[r].at # "failed"
                      /\ PrefixOf(reader'[r].seen, Carrying(reader'[r].file).lines)
                      /\ PrefixOf(reader'[r].due, Carrying(reader'[r].file).lines)
                      /\ reader'[r].at = "done" => Len(reader'[r].due) <= Len(reader'[r].seen)
    BY <1>1, <1>2 DEF SeesItsFile, Carrying, Absent, File, store
  <2>1. CASE Open(r)
    <3> DEFINE now == [at |-> IF current = 0 THEN "done" ELSE "reading",
                       file |-> current, seen |-> <<>>, due |-> Lines]
    <3>1. reader'[r] = now
      BY <1>1, <2>1 DEF Open
    <3>2. Carrying(current).lines = Lines /\ PrefixOf(Lines, Lines)
      BY <1>1, LinesNow DEF Lines
    <3>3. PrefixOf(<<>>, Lines)
      BY <1>1, LinesNow DEF PrefixOf
    <3>4. current = 0 => Len(Lines) = 0
      BY DEF Lines, Carrying, Absent, File
    <3> QED  BY <3>1, <3>2, <3>3, <3>4
  <2>2. CASE Return(r)
    <3>1. reader'[r] = NotReading
      BY <1>1, <2>2 DEF Return
    <3> QED  BY <3>1 DEF NotReading
  <2>3. CASE ReadLine(r)
    <3> DEFINE n == Len(c.seen) + 1
    <3>1. c.at = "reading" /\ c \in Reading /\ c.file \in 1..current
      <4>1. c.at = "reading" /\ SoundReader(c) /\ FilesTyped /\ current \in Nat
        BY <1>1, <2>3, LinesNow DEF ReadLine, ReadersTyped, IInv
      <4> QED  BY <1>1, <4>1 DEF SoundReader, Reading, FilesTyped
    <3>2. L = files[c.file].lines /\ L \in Seq(Line) /\ Len(L) \in Nat /\ DOMAIN L = 1..Len(L)
      <4>1. c.file \in 0..current
        BY <3>1
      <4>2. L \in Seq(Line)
        BY <1>1, <4>1, FileLines
      <4> QED  BY <3>1, <4>2 DEF Carrying
    <3>3. PrefixOf(L, Lines)
      BY <1>1, <3>1 DEF FilesNest
    <3>4. Readable(L)
      BY <1>1, <3>2, <3>3, LinesNow, PrefixReadable
    <3>5. PrefixOf(c.seen, L) /\ PrefixOf(c.due, L) /\ c.seen \in Seq(Line) /\ c.due \in Seq(Line)
      BY <1>1, <3>1 DEF SeesItsFile, Reading
    <3>6. \A i \in DOMAIN L : L[i] # Garbage
      BY <3>4 DEF Readable, Range
    <3>7. CASE n \in DOMAIN L /\ reader' = [reader EXCEPT ![r].seen = Append(@, L[n])]
      <4>1. /\ reader'[r].seen = Append(c.seen, L[n]) /\ reader'[r].at = c.at
            /\ reader'[r].due = c.due /\ reader'[r].file = c.file
        BY <1>1, <3>1, <3>7 DEF Reading
      <4>2. PrefixOf(Append(c.seen, L[n]), L)
        BY <3>2, <3>5, <3>7, LongerPrefix
      <4> QED  BY <3>1, <3>5, <4>1, <4>2
    <3>8. CASE n \notin DOMAIN L /\ reader' = [reader EXCEPT ![r].at = "done"]
      <4>1. /\ reader'[r].seen = c.seen /\ reader'[r].at = "done"
            /\ reader'[r].due = c.due /\ reader'[r].file = c.file
        BY <1>1, <3>1, <3>8 DEF Reading
      <4>2. Len(c.due) <= Len(c.seen)
        <5>1. Len(c.seen) \in Nat /\ Len(c.due) \in Nat
          BY <3>5
        <5>2. n \notin 1..Len(L) /\ Len(c.due) <= Len(L)
          BY <3>2, <3>5, <3>8 DEF PrefixOf
        <5>3. Len(L) \in Nat
          BY <3>2
        <5> HIDE DEF L
        <5> QED  BY <5>1, <5>2, <5>3
      <4> QED  BY <3>5, <4>1, <4>2
    <3> QED  BY <2>3, <3>2, <3>6, <3>7, <3>8 DEF ReadLine
  <2> QED  BY <2>1, <2>2, <2>3
<1> QED  BY <1>2, <1>3, <1>4, <1>5 DEF RInv

LEMMA PowerLossReaders ==
  ASSUME RInv, IInv', PowerLoss
  PROVE  RInv'
<1>1. /\ call' = [t \in Thread |-> Idle] /\ reader' = [r \in Reader |-> NotReading]
      /\ current' \in {0, 1}
  BY DEF PowerLoss
<1>2. Copies'
  BY <1>1, IdleType DEF Copies
<1>3. \A r \in Reader : SeesItsFile(r)'
  BY <1>1 DEF SeesItsFile, NotReading
<1>4. FilesNest'
  <2>1. (PrefixOf(Lines, Lines) /\ Lines \in Seq(Line))'
    BY LinesNow, PTL
  <2>2. ASSUME NEW g, g = current' PROVE Carrying(g)'.lines = Lines'
    BY <2>2 DEF Lines, Carrying, Absent
  <2>3. ASSUME NEW g, g = 0 PROVE PrefixOf(Carrying(g)'.lines, Lines')
    <3>1. Carrying(g)'.lines = <<>> /\ Len(Lines') \in Nat
      BY <2>1, <2>3 DEF Carrying, Absent, File
    <3> QED  BY <3>1 DEF PrefixOf
  <2>4. \A g \in 0..current' : g = 0 \/ g = current'
    BY <1>1
  <2> QED  BY <2>1, <2>2, <2>3, <2>4 DEF FilesNest
<1> QED  BY <1>2, <1>3, <1>4 DEF RInv

LEMMA InitReaders == Init => RInv
<1> SUFFICES ASSUME Init PROVE RInv
  OBVIOUS
<1>1. IInv
  BY InitInv
<1>2. Copies
  BY IdleType DEF Init, Copies
<1>3. \A r \in Reader : SeesItsFile(r)
  BY DEF Init, SeesItsFile, NotReading
<1>4. FilesNest
  <2>1. PrefixOf(Lines, Lines) /\ Len(Lines) \in Nat
    BY <1>1, LinesNow
  <2>2. ASSUME NEW g, g = 0 PROVE PrefixOf(Carrying(g).lines, Lines)
    BY <2>1, <2>2 DEF Carrying, Absent, File, PrefixOf
  <2>3. \A g \in 0..current : g = 0 \/ g = current
    BY DEF Init
  <2> QED  BY <2>1, <2>2, <2>3 DEF FilesNest, Lines
<1> QED  BY <1>1, <1>2, <1>3, <1>4 DEF RInv

LEMMA NextReaders == RInv /\ [Next]_vars => RInv'
<1> SUFFICES ASSUME RInv, [Next]_vars PROVE RInv'
  OBVIOUS
<1>1. IInv'
  BY NextInv DEF RInv
<1>2. CASE UNCHANGED vars
  <2>1. UNCHANGED <<store, call, reader>> /\ IInv /\ FilesNest /\ Copies
    BY <1>2 DEF vars, store, RInv
  <2>2. Extends /\ FilesNest' /\ Lines' = Lines
    BY <2>1, QuietExtends
  <2>3. Copies'
    BY <2>1, <2>2 DEF Copies
  <2> QED  BY <1>1, <2>1, <2>2, <2>3, ExtendsKeeps DEF RInv
<1>3. ASSUME NEW t \in Thread,
             CallStep(t) \/ WriteFails(t) \/ WritesShort(t) \/ \E job \in Job : Request(t, job)
      PROVE  RInv'
  BY <1>1, <1>3, CallReaders
<1>4. ASSUME NEW r \in Reader, Open(r) \/ ReadLine(r) \/ Return(r) PROVE RInv'
  BY <1>1, <1>4, ReaderReaders
<1>5. ASSUME NEW p \in Process, Kill(p) PROVE RInv'
  BY <1>1, <1>5, KillReaders
<1>6. CASE PowerLoss
  BY <1>1, <1>6, PowerLossReaders
<1> QED  BY <1>2, <1>3, <1>4, <1>5, <1>6 DEF Next, Job

-----------------------------------------------------------------------------
\* A reader that takes no lock, and whose file may be replaced or grow under it, does
\* not fail on a readable store, and returns all that the file held when it opened it
\* and nothing that the store does not hold now, in the store's order.
THEOREM ReaderSeesSnapshotHolds == Spec => []ReaderSeesSnapshot
<1>1. ASSUME RInv PROVE ReaderSeesSnapshot
  <2> SUFFICES ASSUME NEW r \in Reader, reader[r].at # "idle", Readable(Lines)
               PROVE  /\ reader[r].at # "failed"
                      /\ IsPrefix(reader[r].seen, Lines)
                      /\ reader[r].at = "done" => IsPrefix(reader[r].due, reader[r].seen)
    BY DEF ReaderSeesSnapshot
  <2> DEFINE g == reader[r].file
             L == Carrying(g).lines
  <2>1. IInv /\ FilesNest /\ SeesItsFile(r) /\ reader[r] \in Reading /\ g \in 0..current
    <3>1. IInv /\ ReadersTyped /\ FilesTyped
      BY <1>1 DEF RInv, IInv
    <3> QED  BY <1>1, <3>1 DEF RInv, ReadersTyped, SoundReader, Reading, FilesTyped
  <2>2. /\ reader[r].at # "failed" /\ PrefixOf(reader[r].seen, L) /\ PrefixOf(reader[r].due, L)
        /\ reader[r].at = "done" => Len(reader[r].due) <= Len(reader[r].seen)
    BY <2>1 DEF SeesItsFile
  <2>3. PrefixOf(L, Lines)
    BY <2>1 DEF FilesNest
  <2>4. /\ L \in Seq(Line) /\ Lines \in Seq(Line)
        /\ reader[r].seen \in Seq(Line) /\ reader[r].due \in Seq(Line)
    BY <2>1, FileLines, LinesNow DEF Reading
  <2> HIDE DEF L
  <2>5. IsPrefix(reader[r].seen, Lines)
    BY <2>2, <2>3, <2>4, PrefixChain, PrefixOfIsPrefix
  <2>6. ASSUME reader[r].at = "done" PROVE IsPrefix(reader[r].due, reader[r].seen)
    <3>1. PrefixOf(reader[r].due, reader[r].seen)
      <4>1. Len(reader[r].due) \in Nat /\ Len(reader[r].seen) \in Nat
        BY <2>4
      <4>2. /\ \A i \in 1..Len(reader[r].due) : reader[r].due[i] = L[i]
            /\ \A i \in 1..Len(reader[r].seen) : reader[r].seen[i] = L[i]
            /\ Len(reader[r].due) <= Len(reader[r].seen)
        BY <2>2, <2>6 DEF PrefixOf
      <4>3. \A i \in 1..Len(reader[r].due) : i \in 1..Len(reader[r].seen)
        BY <4>1, <4>2
      <4> QED  BY <4>2, <4>3 DEF PrefixOf
    <3> QED  BY <2>4, <3>1, PrefixOfIsPrefix
  <2> QED  BY <2>2, <2>5, <2>6
<1>2. Spec => []RInv
  BY InitReaders, NextReaders, PTL DEF Spec
<1> QED  BY <1>1, <1>2, PTL

-----------------------------------------------------------------------------
\* The lines are only appended to, or cut.

\* Every file that has carried the name begins the one that carries it now, be they
\* readable or not, until a line is put down in part.
CutFree == "short" \notin lapses
FilesBegin == CutFree => \A g \in 0..current : PrefixOf(Carrying(g).lines, Lines)

AInv == RInv /\ FilesBegin /\ faults \in Nat

Appends == CutFree' => PrefixOf(Lines, Lines')
LinesKept ==
  \/ IsPrefix(Lines, Lines')
  \/ "short" \in lapses'
  \/ faults' > faults /\ Cuts(Lines, Lines')

\* When a step changes the file that carries the name, or adds the next one.
LEMMA StoreAppends ==
  ASSUME AInv, IInv', current' >= current, current' <= current + 1,
         \A g \in 0..current : g # current' => Carrying(g)' = Carrying(g),
         lapses \subseteq lapses', Appends
  PROVE  FilesBegin' /\ LinesKept
<1>1. /\ IInv /\ Lines \in Seq(Line) /\ current \in Nat
      /\ Lines' \in Seq(Line) /\ current' \in Nat /\ PrefixOf(Lines', Lines')
  <2>1. (Lines \in Seq(Line) /\ PrefixOf(Lines, Lines) /\ current \in Nat)'
    BY LinesNow, PTL
  <2> QED  BY <2>1, LinesNow DEF AInv, RInv
<1>2. LinesKept
  <2>1. CASE "short" \in lapses'
    BY <2>1 DEF LinesKept
  <2>2. CASE "short" \notin lapses'
    <3>1. PrefixOf(Lines, Lines')
      BY <2>2 DEF Appends, CutFree
    <3>2. IsPrefix(Lines, Lines')
      BY <1>1, <3>1, PrefixOfIsPrefix
    <3> QED  BY <3>2 DEF LinesKept
  <2> QED  BY <2>1, <2>2
<1>3. ASSUME CutFree', NEW g \in 0..current' PROVE PrefixOf(Carrying(g)'.lines, Lines')
  <2>1. CASE g = current'
    <3>1. Carrying(g)'.lines = Lines'
      BY <2>1 DEF Lines, Carrying, Absent
    <3> QED  BY <1>1, <3>1
  <2>2. CASE g # current'
    <3>1. g \in 0..current /\ CutFree
      BY <1>1, <1>3, <2>2 DEF CutFree
    <3>2. PrefixOf(Carrying(g).lines, Lines) /\ Carrying(g).lines \in Seq(Line)
      BY <1>1, <3>1, FileLines DEF AInv, FilesBegin
    <3>3. PrefixOf(Carrying(g).lines, Lines')
      BY <1>1, <1>3, <3>2, PrefixChain DEF Appends
    <3> QED  BY <2>2, <3>1, <3>3
  <2> QED  BY <2>1, <2>2
<1> QED  BY <1>2, <1>3 DEF FilesBegin

\* A line that is put down whole behind whole lines extends them.
LEMMA AppendLineAppends ==
  ASSUME AInv, IInv', NEW line \in Line, NEW cut \in BOOLEAN, AppendLine(line, cut)
  PROVE  FilesBegin' /\ LinesKept
<1> DEFINE f == Carrying(current)
           lines == IF f.cut THEN [f.lines EXCEPT ![Len(f.lines)] = Garbage]
                             ELSE Append(f.lines, line)
           nf == File(lines, f.synced, cut)
           nf0 == File(lines, 0, cut)
<1>1. /\ files' = IF current = 0 THEN Append(files, nf0) ELSE [files EXCEPT ![current] = nf]
      /\ current' = IF current = 0 THEN Len(files) + 1 ELSE current
      /\ lapses' = IF cut \/ f.cut THEN lapses \union {"short"} ELSE lapses
  BY DEF AppendLine
<1>2. f.lines = Lines /\ Lines \in Seq(Line) /\ Len(Lines) \in Nat /\ IInv
  BY LinesNow DEF Lines, AInv, RInv
<1>3. /\ files \in Seq(FileType) /\ current = Len(files) /\ Len(files) \in Nat
      /\ DOMAIN files = 1..Len(files)
  BY <1>2 DEF IInv, FilesTyped
<1>4. nf.lines = lines /\ nf0.lines = lines
  BY DEF File
<1>5. CutFree' => PrefixOf(Lines, lines)
  <2>1. CASE f.cut
    BY <1>1, <2>1 DEF CutFree
  <2>2. CASE ~f.cut
    BY <1>2, <2>2 DEF PrefixOf
  <2> QED  BY <2>1, <2>2
<1>6. lapses \subseteq lapses'
  BY <1>1
<1> HIDE DEF lines, nf, nf0
<1>7. CASE current = 0
  <2>1. files' = Append(files, nf0) /\ current' = 1
    BY <1>1, <1>3, <1>7
  <2>2. files'[current'] = nf0
    BY <1>3, <1>7, <2>1
  <2>3. Lines' = lines
    BY <1>4, <2>1, <2>2 DEF Lines, Carrying
  <2>4. \A g \in 0..current : Carrying(g)' = Carrying(g)
    BY <1>7 DEF Carrying, Absent, File
  <2>5. Appends
    BY <1>5, <2>3 DEF Appends
  <2> QED  BY <1>6, <1>7, <2>1, <2>4, <2>5, StoreAppends
<1>8. CASE current # 0
  <2>1. files' = [files EXCEPT ![current] = nf] /\ current' = current /\ current \in DOMAIN files
    BY <1>1, <1>3, <1>8
  <2>2. files'[current] = nf /\ \A g \in DOMAIN files : g # current => files'[g] = files[g]
    BY <2>1
  <2>3. Lines' = lines
    BY <1>4, <1>8, <2>1, <2>2 DEF Lines, Carrying
  <2>4. \A g \in 0..current : g # current => Carrying(g)' = Carrying(g)
    BY <1>3, <2>2 DEF Carrying, Absent, File
  <2>5. current' >= current /\ current' <= current + 1
    BY <1>3, <2>1
  <2>6. Appends
    BY <1>5, <2>3 DEF Appends
  <2> QED  BY <1>6, <2>1, <2>4, <2>5, <2>6, StoreAppends
<1> QED  BY <1>7, <1>8

\* A step that leaves the lines, and the files before the one that carries the name.
LEMMA SameLinesAppends ==
  ASSUME AInv, IInv', Lines' = Lines, current' >= current, current' <= current + 1,
         \A g \in 0..current : g # current' => Carrying(g)' = Carrying(g),
         lapses \subseteq lapses'
  PROVE  FilesBegin' /\ LinesKept
<1>1. PrefixOf(Lines, Lines)
  BY LinesNow DEF AInv, RInv
<1>2. Appends
  BY <1>1 DEF Appends
<1> QED  BY <1>2, StoreAppends

LEMMA QuietAppends ==
  ASSUME AInv, IInv', UNCHANGED store, lapses \subseteq lapses'
  PROVE  FilesBegin' /\ LinesKept
<1>1. Lines' = Lines /\ current' = current /\ \A g : Carrying(g)' = Carrying(g)
  BY DEF store, Lines, Carrying
<1>2. current \in Nat
  BY LinesNow DEF AInv, RInv
<1>3. current' >= current /\ current' <= current + 1
  BY <1>1, <1>2
<1> QED  BY <1>1, <1>3, SameLinesAppends

LEMMA CallAppends ==
  ASSUME AInv, IInv', NEW t \in Thread,
         CallStep(t) \/ WriteFails(t) \/ WritesShort(t) \/ \E job \in Job : Request(t, job)
  PROVE  FilesBegin' /\ LinesKept
<1>1. IInv /\ CallsTyped /\ Copies /\ current = Len(files) /\ current \in Nat
  BY LinesNow DEF AInv, RInv, IInv, FilesTyped
<1>2. CASE UNCHANGED store /\ lapses \subseteq lapses'
  BY <1>2, QuietAppends
<1>3. CASE Write(t) \/ WritesShort(t)
  <2>1. \E k \in DOMAIN call[t].job :
          \E line \in {Stored(call[t].job[k]), Garbage}, cut \in BOOLEAN : AppendLine(line, cut)
    <3>1. CASE Write(t)
      BY <3>1 DEF Write
    <3>2. CASE WritesShort(t)
      <4>1. PICK k \in DOMAIN call[t].job, whole \in BOOLEAN :
              AppendLine(IF whole THEN Stored(call[t].job[k]) ELSE Garbage, TRUE)
        BY <3>2 DEF WritesShort
      <4>2. CASE whole
        BY <4>1, <4>2
      <4>3. CASE ~whole
        BY <4>1, <4>3
      <4> QED  BY <4>2, <4>3
    <3> QED  BY <1>3, <3>1, <3>2
  <2> PICK k \in DOMAIN call[t].job :
         \E line \in {Stored(call[t].job[k]), Garbage}, cut \in BOOLEAN : AppendLine(line, cut)
    BY <2>1
  <2>2. PICK line \in {Stored(call[t].job[k]), Garbage}, cut \in BOOLEAN : AppendLine(line, cut)
    OBVIOUS
  <2>3. line \in Line
    <3>1. call[t].job \in Job
      BY <1>1 DEF CallsTyped, Call
    <3>2. call[t].job[k] \in Observation
      BY <3>1, JobType
    <3> QED  BY <3>2, StoredLine DEF Line
  <2> QED  BY <2>2, <2>3, AppendLineAppends
<1>4. CASE LeaveAppend(t)
  <2>1. SyncLines /\ current' = current /\ lapses' = lapses
    BY <1>4 DEF LeaveAppend
  <2>2. Lines' = Lines /\ \A g \in 0..current : g # current => Carrying(g)' = Carrying(g)
    BY <1>1, <2>1, SyncedFiles, SyncedLines
  <2>3. current' >= current /\ current' <= current + 1
    BY <1>1, <2>1
  <2> QED  BY <2>1, <2>2, <2>3, SameLinesAppends
<1>5. CASE Replace(t)
  <2>1. call[t].copy = Lines /\ current' = current + 1 /\ lapses' = lapses
    BY <1>1, <1>5 DEF Replace, At, Copies
  <2>2. Lines' = Lines /\ \A g \in 0..current : Carrying(g)' = Carrying(g)
    BY <1>1, <1>5, <2>1, ReplacedLines
  <2>3. current' >= current /\ current' <= current + 1
    BY <1>1, <2>1
  <2> QED  BY <2>1, <2>2, <2>3, SameLinesAppends
<1>6. CASE \/ LockThread(t) \/ LockFile(t) \/ Leave(t) \/ Check(t) \/ EnterAppend(t) \/ Copy(t)
           \/ Answer(t) \/ WriteFails(t) \/ \E job \in Job : Request(t, job)
  <2>1. UNCHANGED store /\ lapses \subseteq lapses'
    BY <1>6 DEF LockThread, LockFile, Leave, Check, EnterAppend, Copy, Answer, WriteFails, Request
  <2> QED  BY <1>2, <2>1
<1> QED  BY <1>3, <1>4, <1>5, <1>6 DEF CallStep

\* What a power loss leaves of a file is cut out of it.
LEMMA RemainsCut ==
  ASSUME NEW c, SoundFile(c), NEW f \in Remains(c)
  PROVE  Cuts(c.lines, f.lines)
<1>1. c.lines \in Seq(Line) /\ c.synced \in Nat /\ c.cut \in BOOLEAN /\ Len(c.lines) \in Nat
  BY DEF SoundFile, FileType
<1>2. PICK n \in c.synced..Len(c.lines) :
        LET kept == SubSeq(c.lines, 1, n) IN
        \/ f = File(kept, n, c.cut /\ n = Len(c.lines))
        \/ f = File(kept, n, TRUE)
        \/ f = File([kept EXCEPT ![n] = Garbage], n, TRUE)
  BY DEF Remains
<1> DEFINE kept == SubSeq(c.lines, 1, n)
<1>3. n \in Nat /\ n <= Len(c.lines)
  BY <1>1
<1>4. /\ kept \in Seq(Line) /\ Len(kept) = n /\ DOMAIN kept = 1..n
      /\ \A i \in 1..n : kept[i] = c.lines[i]
  BY <1>1, <1>3
<1> HIDE DEF kept
<1>5. CASE f.lines = kept
  BY <1>3, <1>4, <1>5 DEF Cuts
<1>6. CASE f.lines = [kept EXCEPT ![n] = Garbage]
  <2>1. Len(f.lines) = n /\ DOMAIN f.lines = 1..n
    BY <1>3, <1>4, <1>6, SpoiltLines
  <2>2. \A i \in 1..n : f.lines[i] = IF i = n THEN Garbage ELSE kept[i]
    BY <1>4, <1>6
  <2> QED  BY <1>3, <1>4, <2>1, <2>2 DEF Cuts
<1>7. PICK lines \in {kept, [kept EXCEPT ![n] = Garbage]}, cut \in BOOLEAN :
        f = File(lines, n, cut)
  BY <1>1, <1>2 DEF kept
<1>8. f.lines = lines
  BY <1>7 DEF File
<1> QED  BY <1>5, <1>6, <1>7, <1>8

LEMMA PowerLossCuts ==
  ASSUME AInv, IInv', PowerLoss
  PROVE  FilesBegin' /\ LinesKept
<1>1. current' \in {0, 1} /\ faults' = faults + 1
  BY DEF PowerLoss, CountFault
<1>2. PICK g \in named..current : \E f \in Remains(Carrying(g)) :
        /\ files' = IF g = 0 THEN <<>> ELSE <<f>>
        /\ current' = IF g = 0 THEN 0 ELSE 1
        /\ lapses' \subseteq lapses \union {"undone"} /\ lapses \subseteq lapses'
  BY DEF PowerLoss
<1>3. PICK f \in Remains(Carrying(g)) :
        /\ files' = IF g = 0 THEN <<>> ELSE <<f>>
        /\ current' = IF g = 0 THEN 0 ELSE 1
        /\ lapses \subseteq lapses'
  BY <1>2
<1> DEFINE c == Carrying(g)
<1>4. IInv /\ FilesTyped /\ g \in 0..Len(files) /\ g \in 0..current
  BY DEF AInv, RInv, IInv, FilesTyped, RestTyped
<1>5. SoundFile(c) /\ c.lines \in Seq(Line)
  BY <1>4, CarryingType
<1>6. Cuts(c.lines, f.lines)
  BY <1>5, RemainsCut
<1>7. Cuts(c.lines, Lines')
  <2>1. CASE g = 0
    <3>1. Lines' = <<>>
      BY <1>3, <2>1 DEF Lines, Carrying, Absent, File
    <3>2. Len(c.lines) \in Nat
      BY <1>5
    <3> QED  BY <3>1, <3>2 DEF Cuts
  <2>2. CASE g # 0
    <3>1. Lines' = f.lines
      BY <1>3, <2>2 DEF Lines, Carrying
    <3> QED  BY <1>6, <3>1
  <2> QED  BY <2>1, <2>2
<1>8. LinesKept
  <2>1. CASE "short" \in lapses
    BY <1>3, <2>1 DEF LinesKept
  <2>2. CASE "short" \notin lapses
    <3>1. PrefixOf(c.lines, Lines) /\ Lines \in Seq(Line)
      BY <1>4, <2>2, LinesNow DEF AInv, FilesBegin, CutFree
    <3> HIDE DEF c
    <3>2. Lines' \in Seq(Line)
      <4>1. (Lines \in Seq(Line))'
        BY LinesNow, PTL
      <4> QED  BY <4>1
    <3>3. Cuts(Lines, Lines')
      BY <1>5, <1>7, <3>1, <3>2 DEF Cuts, PrefixOf
    <3>4. faults' > faults
      BY <1>1 DEF AInv
    <3> QED  BY <3>3, <3>4 DEF LinesKept
  <2> QED  BY <2>1, <2>2
<1>9. FilesBegin'
  <2>1. (PrefixOf(Lines, Lines) /\ Lines \in Seq(Line))'
    BY LinesNow, PTL
  <2>2. ASSUME NEW h, h = current' PROVE Carrying(h)'.lines = Lines'
    BY <2>2 DEF Lines, Carrying, Absent
  <2>3. ASSUME NEW h, h = 0 PROVE PrefixOf(Carrying(h)'.lines, Lines')
    <3>1. Carrying(h)'.lines = <<>> /\ Len(Lines') \in Nat
      BY <2>1, <2>3 DEF Carrying, Absent, File
    <3> QED  BY <3>1 DEF PrefixOf
  <2>4. \A h \in 0..current' : h = 0 \/ h = current'
    BY <1>1
  <2> QED  BY <2>1, <2>2, <2>3, <2>4 DEF FilesBegin
<1> QED  BY <1>8, <1>9

LEMMA FaultsCounted == faults \in Nat /\ [Next]_vars => faults' \in Nat
<1> SUFFICES ASSUME faults \in Nat, [Next]_vars PROVE faults' = faults \/ faults' = faults + 1
  OBVIOUS
<1>1. CASE UNCHANGED vars
  BY <1>1 DEF vars
<1>2. ASSUME NEW t \in Thread, CallStep(t) PROVE faults' = faults
  BY <1>2 DEF CallStep, LockThread, LockFile, Check, EnterAppend, Write, LeaveAppend, Copy,
     Replace, Leave, Answer, counts
<1>3. ASSUME NEW t \in Thread, NEW job, Request(t, job) PROVE faults' = faults
  BY <1>3 DEF Request
<1>4. ASSUME NEW r \in Reader, Open(r) \/ ReadLine(r) \/ Return(r) PROVE faults' = faults
  BY <1>4 DEF Open, ReadLine, Return, counts
<1>5. ASSUME NEW t \in Thread, WriteFails(t) \/ WritesShort(t) PROVE faults' = faults + 1
  BY <1>5 DEF WriteFails, WritesShort, CountFault
<1>6. ASSUME NEW p \in Process, Kill(p) PROVE faults' = faults + 1
  BY <1>6 DEF Kill, CountFault
<1>7. CASE PowerLoss
  BY <1>7 DEF PowerLoss, CountFault
<1> QED  BY <1>1, <1>2, <1>3, <1>4, <1>5, <1>6, <1>7 DEF Next

LEMMA StepAppends ==
  ASSUME AInv, RInv', [Next]_vars
  PROVE  AInv' /\ LinesKept
<1>1. IInv'
  BY DEF RInv
<1>2. SUFFICES FilesBegin' /\ LinesKept
  BY <1>2, FaultsCounted DEF AInv
<1>3. CASE UNCHANGED vars
  <2>1. UNCHANGED store /\ lapses \subseteq lapses'
    BY <1>3 DEF vars, store
  <2> QED  BY <1>1, <2>1, QuietAppends
<1>4. ASSUME NEW t \in Thread,
             CallStep(t) \/ WriteFails(t) \/ WritesShort(t) \/ \E job \in Job : Request(t, job)
      PROVE  FilesBegin' /\ LinesKept
  BY <1>1, <1>4, CallAppends
<1>5. ASSUME NEW r \in Reader, Open(r) \/ ReadLine(r) \/ Return(r)
      PROVE  FilesBegin' /\ LinesKept
  <2>1. UNCHANGED store /\ lapses \subseteq lapses'
    BY <1>5 DEF Open, ReadLine, Return
  <2> QED  BY <1>1, <2>1, QuietAppends
<1>6. ASSUME NEW p \in Process, Kill(p) PROVE FilesBegin' /\ LinesKept
  <2>1. UNCHANGED store /\ lapses \subseteq lapses'
    BY <1>6 DEF Kill
  <2> QED  BY <1>1, <2>1, QuietAppends
<1>7. CASE PowerLoss
  BY <1>1, <1>7, PowerLossCuts
<1> QED  BY <1>3, <1>4, <1>5, <1>6, <1>7 DEF Next, Job

LEMMA InitAppends == Init => AInv
<1> SUFFICES ASSUME Init PROVE AInv
  OBVIOUS
<1>1. RInv
  BY InitReaders
<1>2. FilesBegin
  <2>1. PrefixOf(Lines, Lines) /\ Len(Lines) \in Nat
    BY <1>1, LinesNow DEF RInv
  <2>2. ASSUME NEW g, g = 0 PROVE PrefixOf(Carrying(g).lines, Lines)
    BY <2>1, <2>2 DEF Carrying, Absent, File, PrefixOf
  <2>3. \A g \in 0..current : g = 0 \/ g = current
    BY DEF Init
  <2> QED  BY <2>1, <2>2, <2>3 DEF FilesBegin, Lines
<1> QED  BY <1>1, <1>2 DEF AInv, Init

\* Whatever is admitted, compacted, killed or lost, the records of the store keep their
\* places and their receipts: each step appends to the lines, or is a power loss that
\* cuts them, until a line is put down in part.
THEOREM AppendOnlyHolds == Spec => AppendOnly
<1>1. AInv /\ [Next]_vars => AInv' /\ LinesKept
  BY NextReaders, StepAppends DEF AInv
<1>2. AInv /\ [Next]_vars =>
        [\/ IsPrefix(Lines, Lines')
         \/ "short" \in lapses'
         \/ faults' > faults /\ Cuts(Lines, Lines')]_vars
  BY <1>1 DEF LinesKept
<1> QED  BY InitAppends, <1>1, <1>2, PTL DEF Spec, AppendOnly
=============================================================================
