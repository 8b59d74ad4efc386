------------------------- MODULE RawSourceStoreProofs -------------------------
(***************************************************************************)
(* The safety of RawSourceStore for any number of callers, payloads and    *)
(* faults: its type, its invariants, write-once, and that it implements    *)
(* SourceArchive.                                                          *)
(***************************************************************************)
EXTENDS RawSourceStore, TLAPS

\* Before the link is made, the temporary file's bytes are on disk.
LinkAfterFsync == \A w \in Worker : At(w, "link") => temp[w] = "synced"

\* Only a caller whose link succeeded goes on as the publisher, and the record
\* it linked is still there.
PublisherSeesItsRecord ==
  \A w \in Worker :
    /\ At(w, "syncdir") => call[w].outcome = "published"
    /\ ~At(w, "idle") /\ call[w].outcome = "published" =>
         call[w].at \in {"unlink", "syncdir"} /\ call[w].payload \in Present

\* A visible record is whole, or altered from outside.
SyncedOrAltered == \A p \in Payload : entry[p] \in {"absent", "whole", "altered"}

\* What makes the safety invariants inductive, beside the type.
IInv ==
  /\ LinkAfterFsync
  /\ PublisherSeesItsRecord
  /\ SyncedOrAltered
  /\ durable \subseteq Present
  /\ PublisherReceiptIsDurable

-----------------------------------------------------------------------------
\* The state has its declared type in every reachable state.
THEOREM TypeCorrect == Spec => []TypeOK
<1>1. Init => TypeOK
  <2> SUFFICES ASSUME Init PROVE TypeOK
    OBVIOUS
  <2>1. faults \in 0..MaxFaults
    BY MaxFaultsAssumption DEF Init
  <2> QED BY <2>1 DEF Init, TypeOK, EntryState, TempState, Call
<1>2. TypeOK /\ [Next]_vars => TypeOK'
  <2> SUFFICES ASSUME TypeOK, [Next]_vars PROVE TypeOK'
    OBVIOUS
  <2> USE DEF TypeOK
  <2>a. ASSUME NEW w \in Worker, ~At(w, "idle")
        PROVE  /\ call[w] \in [at: Step, payload: Payload, outcome: Outcome]
               /\ call[w].payload \in Payload
    BY <2>a DEF Call, Idle, At
  <2>b. ASSUME CountFault PROVE faults' \in 0..MaxFaults
    BY <2>b, MaxFaultsAssumption DEF CountFault
  <2>1. ASSUME NEW w \in Worker, NEW p \in Payload, Begin(w, p) PROVE TypeOK'
    BY <2>1 DEF Begin, Call, Step, Outcome
  <2>2. ASSUME NEW w \in Worker, Lookup(w) PROVE TypeOK'
    BY <2>2, <2>a DEF Lookup, At, Goto, Call, Step
  <2>3. ASSUME NEW w \in Worker, WriteTemp(w) PROVE TypeOK'
    BY <2>3, <2>a DEF WriteTemp, At, Goto, Call, Step, TempState
  <2>4. ASSUME NEW w \in Worker, SyncTemp(w) PROVE TypeOK'
    BY <2>4, <2>a DEF SyncTemp, At, Goto, Call, Step, TempState
  <2>5. ASSUME NEW w \in Worker, Link(w) PROVE TypeOK'
    BY <2>5, <2>a DEF Link, LinkedState, At, Goto, Call, Step, Outcome, EntryState
  <2>6. ASSUME NEW w \in Worker, Recheck(w) PROVE TypeOK'
    BY <2>6, <2>a DEF Recheck, At, Call, Step, Outcome
  <2>7. ASSUME NEW w \in Worker, Unlink(w) PROVE TypeOK'
    BY <2>7, <2>a DEF Unlink, At, Goto, Call, Step, TempState
  <2>8. ASSUME NEW w \in Worker, SyncDirectory(w) PROVE TypeOK'
    BY <2>8, <2>a DEF SyncDirectory, At, Call, Present
  <2>9. ASSUME NEW w \in Worker, WriteFails(w) PROVE TypeOK'
    BY <2>9, <2>b DEF WriteFails, Call, TempState
  <2>10. ASSUME NEW w \in Worker, Kill(w) PROVE TypeOK'
    BY <2>10, <2>b DEF Kill, Call, TempState
  <2>11. ASSUME NEW p \in Payload, Tamper(p) PROVE TypeOK'
    BY <2>11, <2>b DEF Tamper, EntryState
  <2>12. CASE PowerLoss
    <3>1. entry' \in [Payload -> EntryState] /\ durable' \subseteq Payload
      BY <2>12 DEF PowerLoss, Present, EntryState
    <3> QED BY <2>12, <2>b, <3>1 DEF PowerLoss, Call, TempState
  <2>13. CASE UNCHANGED vars
    BY <2>13 DEF vars
  <2> QED
    BY <2>1, <2>2, <2>3, <2>4, <2>5, <2>6, <2>7, <2>8, <2>9, <2>10, <2>11,
       <2>12, <2>13 DEF Next, StoreStep
<1> QED
  BY <1>1, <1>2, PTL DEF Spec

-----------------------------------------------------------------------------
\* A call that is not idle is a record of a running call.
LEMMA RunningCall ==
  ASSUME TypeOK, NEW w \in Worker, ~At(w, "idle")
  PROVE  call[w] \in [at: Step, payload: Payload, outcome: Outcome]
BY DEF TypeOK, Call, Idle, At

\* A step of one call leaves the other calls and the faults alone, and cannot be
\* mistaken for a power loss.
LEMMA StoreStepFrame ==
  ASSUME TypeOK, NEW w \in Worker, StoreStep(w)
  PROVE  /\ \A v \in Worker \ {w} : call'[v] = call[v] /\ temp'[v] = temp[v]
         /\ faults' = faults
         /\ ~PowerLoss
<1> USE DEF TypeOK, At, Goto
<1>1. faults' = faults
  BY DEF StoreStep, Lookup, WriteTemp, SyncTemp, Link, Recheck, Unlink, SyncDirectory
<1>2. ~PowerLoss
  <2>1. faults \in Nat
    BY MaxFaultsAssumption
  <2>2. PowerLoss => faults' = faults + 1
    BY DEF PowerLoss, CountFault
  <2> QED BY <1>1, <2>1, <2>2
<1>3. \A v \in Worker \ {w} : call'[v] = call[v] /\ temp'[v] = temp[v]
  <2>1. CASE Lookup(w)
    BY <2>1 DEF Lookup
  <2>2. CASE WriteTemp(w) \/ SyncTemp(w)
    BY <2>2 DEF WriteTemp, SyncTemp
  <2>3. CASE Link(w) \/ Recheck(w)
    BY <2>3 DEF Link, Recheck
  <2>4. CASE Unlink(w) \/ SyncDirectory(w)
    BY <2>4 DEF Unlink, SyncDirectory
  <2> QED BY <2>1, <2>2, <2>3, <2>4 DEF StoreStep
<1> QED
  BY <1>1, <1>2, <1>3

\* Names that are present stay present in every step but a power loss.
LEMMA PresentGrows ==
  ASSUME TypeOK, [Next]_vars, ~PowerLoss
  PROVE  Present \subseteq Present'
<1>1. SUFFICES ASSUME NEW q \in Payload, entry[q] # "absent"
               PROVE  entry'[q] # "absent"
  BY DEF Present
<1>2. CASE entry' = entry
  BY <1>1, <1>2
<1>3. ASSUME NEW w \in Worker, Link(w) PROVE entry'[q] # "absent"
  BY <1>1, <1>3 DEF Link, LinkedState, TypeOK
<1>4. ASSUME NEW p \in Payload, Tamper(p) PROVE entry'[q] # "absent"
  BY <1>1, <1>4 DEF Tamper, TypeOK
<1> QED
  BY <1>2, <1>3, <1>4
     DEF Next, StoreStep, vars, Begin, Lookup, WriteTemp, SyncTemp, Recheck,
         Unlink, SyncDirectory, WriteFails, Kill

LEMMA IInvInductive ==
  ASSUME TypeOK, TypeOK', IInv, [Next]_vars
  PROVE  IInv'
<1> USE DEF TypeOK
<1>1. LinkAfterFsync'
  <2> USE DEF IInv, LinkAfterFsync, At, Goto
  <2>1. ASSUME NEW w \in Worker, NEW p \in Payload, Begin(w, p) PROVE LinkAfterFsync'
    BY <2>1 DEF Begin
  <2>2. ASSUME NEW w \in Worker, StoreStep(w) PROVE LinkAfterFsync'
    <3>1. call'[w].at = "link" => temp'[w] = "synced"
      <4> USE DEF Idle, Call
      <4>0. StoreStep(w) => ~At(w, "idle")
        BY DEF StoreStep, Lookup, WriteTemp, SyncTemp, Link, Recheck, Unlink, SyncDirectory
      <4>a. call[w] \in [at: Step, payload: Payload, outcome: Outcome]
        BY <2>2, <4>0, RunningCall
      <4>1. CASE SyncTemp(w)
        BY <4>1, <4>a DEF SyncTemp
      <4>2. CASE Lookup(w) \/ WriteTemp(w)
        BY <4>2, <4>a DEF Lookup, WriteTemp
      <4>3. CASE Link(w) \/ Recheck(w)
        BY <4>3, <4>a DEF Link, Recheck
      <4>4. CASE Unlink(w) \/ SyncDirectory(w)
        BY <4>4, <4>a DEF Unlink, SyncDirectory
      <4> QED BY <2>2, <4>1, <4>2, <4>3, <4>4 DEF StoreStep
    <3> QED BY <2>2, <3>1, StoreStepFrame
  <2>3. ASSUME NEW w \in Worker, WriteFails(w) \/ Kill(w) PROVE LinkAfterFsync'
    BY <2>3 DEF WriteFails, Kill, Idle
  <2>4. CASE PowerLoss
    BY <2>4 DEF PowerLoss, Idle
  <2>5. CASE UNCHANGED <<temp, call>>
    BY <2>5
  <2> QED BY <2>1, <2>2, <2>3, <2>4, <2>5 DEF Next, Tamper, vars
<1>2. PublisherSeesItsRecord'
  <2> USE DEF IInv, PublisherSeesItsRecord, At, Goto
  <2>1. ASSUME NEW w \in Worker, NEW p \in Payload, Begin(w, p)
        PROVE  PublisherSeesItsRecord'
    BY <2>1 DEF Begin, Present
  <2>2. ASSUME NEW w \in Worker, StoreStep(w), Present \subseteq Present'
        PROVE  PublisherSeesItsRecord'
    <3>1. \A v \in Worker \ {w} : call'[v] = call[v]
      BY <2>2, StoreStepFrame
    <3>a. call[w] \in [at: Step, payload: Payload, outcome: Outcome]
      <4>1. ~At(w, "idle")
        BY <2>2 DEF StoreStep, Lookup, WriteTemp, SyncTemp, Link, Recheck, Unlink,
                    SyncDirectory
      <4> QED BY <4>1, RunningCall
    <3>2. CASE Link(w)
      <4>1. \/ /\ entry'[call[w].payload] # "absent"
               /\ call'[w] = [call[w] EXCEPT !.at = "unlink", !.outcome = "published"]
            \/ call'[w] = [call[w] EXCEPT !.at = "recheck"]
        BY <3>2, <3>a DEF Link, LinkedState
      <4>2. call[w].outcome = "published" => ~At(w, "link")
        BY <2>2
      <4>3. /\ call'[w].at # "syncdir"
            /\ call'[w].outcome = "published" =>
                 call'[w].at = "unlink" /\ call'[w].payload \in Present'
        BY <3>2, <3>a, <4>1, <4>2 DEF Link, Present
      <4> QED BY <2>2, <3>1, <4>3
    <3>3. CASE ~Link(w)
      <4>1. /\ call'[w].at = "syncdir" => call'[w].outcome = "published"
            /\ call'[w].at # "idle" /\ call'[w].outcome = "published" =>
                 /\ call'[w].at \in {"unlink", "syncdir"}
                 /\ call[w].at # "idle" /\ call[w].outcome = "published"
                 /\ call'[w].payload = call[w].payload
        <5> USE DEF Idle
        <5>1. CASE Lookup(w) \/ WriteTemp(w) \/ SyncTemp(w)
          BY <5>1, <3>a DEF Lookup, WriteTemp, SyncTemp
        <5>2. CASE Recheck(w)
          BY <5>2, <3>a DEF Recheck
        <5>3. CASE Unlink(w)
          BY <5>3, <3>a DEF Unlink
        <5>4. CASE SyncDirectory(w)
          BY <5>4, <3>a DEF SyncDirectory
        <5> QED BY <2>2, <3>3, <5>1, <5>2, <5>3, <5>4 DEF StoreStep
      <4> QED BY <2>2, <3>1, <4>1
    <3> QED BY <3>2, <3>3
  <2>3. ASSUME NEW w \in Worker, WriteFails(w) \/ Kill(w) PROVE PublisherSeesItsRecord'
    BY <2>3 DEF WriteFails, Kill, Idle, Present
  <2>4. ASSUME NEW p \in Payload, Tamper(p), Present \subseteq Present'
        PROVE PublisherSeesItsRecord'
    BY <2>4 DEF Tamper
  <2>5. CASE PowerLoss
    BY <2>5 DEF PowerLoss, Idle
  <2>6. CASE UNCHANGED vars
    BY <2>6 DEF vars, Present
  <2> QED
    <3>1. ASSUME NEW w \in Worker, StoreStep(w) PROVE ~PowerLoss
      BY <3>1, StoreStepFrame
    <3>2. ASSUME ~PowerLoss PROVE PublisherSeesItsRecord'
      BY <2>1, <2>2, <2>3, <2>4, <2>6, <3>2, PresentGrows DEF Next
    <3> QED BY <2>5, <3>2
<1>3. SyncedOrAltered'
  <2> USE DEF IInv, SyncedOrAltered
  <2>1. ASSUME NEW w \in Worker, Link(w) PROVE SyncedOrAltered'
    BY <2>1 DEF Link, LinkedState, LinkAfterFsync
  <2>2. ASSUME NEW p \in Payload, Tamper(p) PROVE SyncedOrAltered'
    BY <2>2 DEF Tamper
  <2>3. CASE PowerLoss
    BY <2>3 DEF PowerLoss
  <2>4. CASE entry' = entry
    BY <2>4
  <2> QED
    BY <2>1, <2>2, <2>3, <2>4
       DEF Next, StoreStep, vars, Begin, Lookup, WriteTemp, SyncTemp, Recheck,
           Unlink, SyncDirectory, WriteFails, Kill
<1>4. (durable \subseteq Present)'
  <2>1. CASE PowerLoss
    BY <2>1 DEF PowerLoss, Present, SyncedOrAltered, IInv
  <2>2. ASSUME NEW w \in Worker, SyncDirectory(w) PROVE (durable \subseteq Present)'
    BY <2>2 DEF SyncDirectory, Present
  <2>3. CASE durable' = durable /\ ~PowerLoss
    BY <2>3, PresentGrows DEF IInv
  <2> QED
    BY <2>1, <2>2, <2>3
       DEF Next, StoreStep, vars, Begin, Lookup, WriteTemp, SyncTemp, Link, Recheck,
           Unlink, WriteFails, Kill, Tamper
<1>5. PublisherReceiptIsDurable'
  <2>1. durable \subseteq durable'
    BY DEF IInv, Next, StoreStep, vars, Begin, Lookup, WriteTemp, SyncTemp, Link,
           Recheck, Unlink, SyncDirectory, WriteFails, Kill, Tamper, PowerLoss
  <2>2. ASSUME NEW p \in Payload, <<p, "published">> \in receipts'
        PROVE  p \in durable'
    <3>1. CASE <<p, "published">> \in receipts
      BY <2>1, <3>1 DEF IInv, PublisherReceiptIsDurable
    <3>2. CASE <<p, "published">> \notin receipts
      <4>1. PICK w \in Worker : SyncDirectory(w) /\ p = call[w].payload
        <5>1. ASSUME NEW w \in Worker, Lookup(w) \/ Unlink(w) PROVE FALSE
          BY <5>1, <2>2, <3>2 DEF Lookup, Unlink
        <5>2. receipts' # receipts
          BY <2>2, <3>2
        <5>3. PICK w \in Worker : SyncDirectory(w)
          BY <5>1, <5>2
             DEF Next, StoreStep, vars, Begin, WriteTemp, SyncTemp, Link, Recheck,
                 WriteFails, Kill, Tamper, PowerLoss
        <5> QED BY <5>3, <2>2, <3>2 DEF SyncDirectory
      <4>2. p \in Present
        BY <4>1 DEF SyncDirectory, IInv, PublisherSeesItsRecord, At
      <4> QED BY <4>1, <4>2 DEF SyncDirectory
    <3> QED BY <3>1, <3>2
  <2> QED BY <1>4, <2>2 DEF PublisherReceiptIsDurable
<1> QED
  BY <1>1, <1>2, <1>3, <1>4, <1>5 DEF IInv

THEOREM IInvHolds == Spec => []IInv
<1>1. Init => IInv
  BY DEF Init, IInv, LinkAfterFsync, PublisherSeesItsRecord, SyncedOrAltered,
         PublisherReceiptIsDurable, At, Idle
<1> QED
  BY <1>1, TypeCorrect, IInvInductive, PTL DEF Spec

\* No crash leaves a truncated record under a digest.
THEOREM NoTornRecordHolds == Spec => []NoTornRecord
<1>1. IInv => NoTornRecord
  BY DEF IInv, SyncedOrAltered, NoTornRecord
<1> QED
  BY <1>1, IInvHolds, PTL

\* Calls that meet no fault leave no temporary name.
THEOREM NoOrphanWithoutFaultHolds == Spec => []NoOrphanWithoutFault
<1>1. Init => NoOrphanWithoutFault
  BY DEF Init, NoOrphanWithoutFault
<1>2. TypeOK /\ NoOrphanWithoutFault /\ [Next]_vars => NoOrphanWithoutFault'
  <2> SUFFICES ASSUME TypeOK, NoOrphanWithoutFault, [Next]_vars
               PROVE  NoOrphanWithoutFault'
    OBVIOUS
  <2>1. faults \in Nat
    BY MaxFaultsAssumption DEF TypeOK
  <2>2. CASE CountFault
    BY <2>1, <2>2 DEF CountFault, NoOrphanWithoutFault
  <2>3. CASE UNCHANGED <<orphaned, faults>>
    BY <2>3 DEF NoOrphanWithoutFault
  <2> QED
    BY <2>2, <2>3
       DEF Next, StoreStep, vars, Begin, Lookup, WriteTemp, SyncTemp, Link, Recheck,
           Unlink, SyncDirectory, WriteFails, Kill, Tamper, PowerLoss
<1> QED
  BY <1>1, <1>2, TypeCorrect, PTL DEF Spec

\* What a publisher was told is stored survives every power loss.
THEOREM PublisherReceiptIsDurableHolds == Spec => []PublisherReceiptIsDurable
<1>1. IInv => PublisherReceiptIsDurable
  BY DEF IInv
<1> QED
  BY <1>1, IInvHolds, PTL

\* The store never rewrites or removes a visible record.
THEOREM WriteOnceHolds == Spec => WriteOnce
<1>1. ASSUME TypeOK, [Next]_vars, NEW p \in Payload,
             entry[p] # "absent", entry'[p] # entry[p]
      PROVE  faults' # faults
  <2>1. faults \in Nat
    BY <1>1, MaxFaultsAssumption DEF TypeOK
  <2>2. CASE CountFault
    BY <2>1, <2>2 DEF CountFault
  <2>3. ASSUME NEW w \in Worker, Link(w) PROVE FALSE
    BY <1>1, <2>3 DEF Link, LinkedState, TypeOK
  <2> QED
    BY <1>1, <2>2, <2>3
       DEF Next, StoreStep, vars, Begin, Lookup, WriteTemp, SyncTemp, Recheck, Unlink,
           SyncDirectory, WriteFails, Kill, Tamper, PowerLoss
<1>2. TypeOK /\ [Next]_vars =>
        [\A p \in Payload :
           (entry[p] # "absent" /\ entry'[p] # entry[p]) => faults' # faults]_vars
  BY <1>1
<1> QED
  BY <1>2, TypeCorrect, PTL DEF Spec, WriteOnce

-----------------------------------------------------------------------------
\* Implementation of SourceArchive.

Promised == {p \in Payload : <<p, "published">> \in receipts}

\* Steps that neither link a record nor fsync the directory are invisible in the
\* archive.
LEMMA HiddenStep ==
  ASSUME entry' = entry, durable' = durable,
         \A p \in Payload : <<p, "published">> \in receipts' => <<p, "published">> \in receipts,
         receipts \subseteq receipts'
  PROVE  UNCHANGED Archive!vars
BY DEF Archive!vars, Present

LEMMA RetainStep ==
  ASSUME TypeOK, NEW p \in Payload, entry'[p] # "absent",
         \A q \in Payload \ {p} : entry'[q] = entry[q],
         UNCHANGED <<durable, receipts>>
  PROVE  Archive!Retain(p)
<1>1. Present' = Present \union {p}
  BY DEF Present
<1> QED
  BY <1>1 DEF Archive!Retain

LEMMA StepImplementsArchive ==
  ASSUME TypeOK, TypeOK', IInv, [Next]_vars
  PROVE  [Archive!Next]_(Archive!vars)
<1>1. ASSUME NEW w \in Worker, Lookup(w) \/ Unlink(w) PROVE UNCHANGED Archive!vars
  BY <1>1, HiddenStep DEF Lookup, Unlink
<1>2. ASSUME NEW w \in Worker, Link(w) PROVE [Archive!Next]_(Archive!vars)
  <2>1. call[w].payload \in Payload
    BY <1>2 DEF Link, At, TypeOK, Call, Idle
  <2>2. CASE entry' = entry
    BY <1>2, <2>2, HiddenStep DEF Link
  <2>3. CASE entry' # entry
    <3>1. Archive!Retain(call[w].payload)
      BY <1>2, <2>1, <2>3, RetainStep DEF Link, LinkedState, TypeOK
    <3> QED BY <2>1, <3>1 DEF Archive!Next
  <2> QED BY <2>2, <2>3
<1>3. ASSUME NEW w \in Worker, SyncDirectory(w) PROVE Archive!Next
  <2>1. PICK p \in Payload : p = call[w].payload /\ p \in Present
    BY <1>3 DEF SyncDirectory, At, TypeOK, Call, Idle, IInv, PublisherSeesItsRecord
  <2>2. Promised' = Promised \union {p}
    BY <1>3, <2>1 DEF SyncDirectory, Promised
  <2>3. Present' = Present
    BY <1>3 DEF SyncDirectory, Present
  <2>4. Archive!SecureAndPromise(p)
    BY <1>3, <2>1, <2>2, <2>3 DEF SyncDirectory, Archive!SecureAndPromise, Promised
  <2> QED BY <2>1, <2>4 DEF Archive!Next
<1>4. ASSUME NEW p \in Payload, Tamper(p) PROVE Archive!Next
  <2>1. Archive!Retain(p)
    BY <1>4, RetainStep DEF Tamper, TypeOK
  <2> QED BY <2>1 DEF Archive!Next
<1>5. ASSUME PowerLoss PROVE Archive!Next
  <2>1. PICK kept \in SUBSET Present : durable \subseteq kept /\ Present' = kept /\ durable' = kept
    BY <1>5 DEF PowerLoss, Present
  <2>2. Archive!PowerLoss
    BY <1>5, <2>1 DEF PowerLoss, Archive!PowerLoss
  <2> QED BY <2>2 DEF Archive!Next
<1>6. CASE UNCHANGED <<entry, durable, receipts>>
  BY <1>6, HiddenStep
<1> QED
  BY <1>1, <1>2, <1>3, <1>4, <1>5, <1>6
     DEF Next, StoreStep, vars, Begin, WriteTemp, SyncTemp, Recheck, WriteFails, Kill

\* The store implements its abstract specification.
THEOREM ImplementsSourceArchiveHolds == Spec => ImplementsSourceArchive
<1>1. Init => Archive!Init
  BY DEF Init, Archive!Init, Present
<1> QED
  BY <1>1, TypeCorrect, IInvHolds, StepImplementsArchive, PTL
     DEF Spec, ImplementsSourceArchive, Archive!Spec
=============================================================================
