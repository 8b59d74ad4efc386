--------------------------- MODULE RawSourceStore ----------------------------
(***************************************************************************)
(* weather_platform/storage/raw.py: the content-addressed, write-once      *)
(* store of source records, as several callers (threads of the thread pool *)
(* and worker processes) run store() at once on one directory.             *)
(*                                                                         *)
(* A payload stands for its own digest (SHA-256 is taken collision free),  *)
(* so entry[p] is what the directory holds under p's digest.  The steps of *)
(* store() are the system calls whose order matters.  A power loss keeps   *)
(* what POSIX promises: file bytes that were fsynced, and names present    *)
(* when the directory was last fsynced; anything else may vanish.          *)
(***************************************************************************)
EXTENDS Naturals

CONSTANTS Worker,     \* concurrent callers of store()
          Payload,    \* the payloads within max_record_bytes
          NoPayload,
          MaxFaults   \* bound on crashes, failed writes, power losses, tampering

ASSUME NoPayloadAssumption == NoPayload \notin Payload
ASSUME MaxFaultsAssumption == MaxFaults \in Nat

VARIABLES entry,      \* what stands under each digest in the directory
          durable,    \* digests whose directory entry has been fsynced
          temp,       \* state of the temporary file of each call
          orphaned,   \* a temporary name was left that no call will unlink
          call,       \* the store() call of each worker
          receipts,   \* <<payload, path>> for every store() that returned a digest
          faults

vars == <<entry, durable, temp, orphaned, call, receipts, faults>>

\* "unsynced": whole, but its bytes are only in the page cache.
\* "torn": truncated by a power loss.  "altered": substituted from outside
\* (other bytes, a link, a directory, an oversized file).
EntryState == {"absent", "unsynced", "whole", "torn", "altered"}
TempState  == {"none", "written", "synced"}
Step       == {"lookup", "write", "fsync", "link", "recheck", "unlink", "syncdir"}
Outcome    == {"none", "published", "existing", "fault"}
Present    == {p \in Payload : entry[p] # "absent"}
Idle       == [at |-> "idle", payload |-> NoPayload, outcome |-> "none"]
Call       == {Idle} \union [at: Step, payload: Payload, outcome: Outcome]

TypeOK ==
  /\ entry \in [Payload -> EntryState]
  /\ durable \subseteq Payload
  /\ temp \in [Worker -> TempState]
  /\ orphaned \in BOOLEAN
  /\ call \in [Worker -> Call]
  /\ receipts \subseteq Payload \X {"published", "existing"}
  /\ faults \in 0..MaxFaults

Init ==
  /\ entry = [p \in Payload |-> "absent"]
  /\ durable = {}
  /\ temp = [w \in Worker |-> "none"]
  /\ orphaned = FALSE
  /\ call = [w \in Worker |-> Idle]
  /\ receipts = {}
  /\ faults = 0

-----------------------------------------------------------------------------
\* One store() call, step by step.

At(w, step) == call[w].at = step
Goto(w, step) == call' = [call EXCEPT ![w].at = step]

\* _verify_payload on what a reader of the digest path gets: a torn or altered
\* record fails its digest or is not a regular file of acceptable size.
Verifies(p) == entry[p] \in {"unsynced", "whole"}

\* A payload beyond the retention limit raises at once and changes nothing, so
\* only the others start a call.
Begin(w, p) ==
  /\ At(w, "idle")
  /\ call' = [call EXCEPT ![w] = [at |-> "lookup", payload |-> p, outcome |-> "none"]]
  /\ UNCHANGED <<entry, durable, temp, orphaned, receipts, faults>>

\* An existing record is verified and its digest returned; bytes that do not
\* match, or anything but a regular file, raise.
Lookup(w) ==
  LET p == call[w].payload IN
  /\ At(w, "lookup")
  /\ \/ entry[p] = "absent" /\ Goto(w, "write") /\ UNCHANGED receipts
     \/ /\ Verifies(p)
        /\ receipts' = receipts \union {<<p, "existing">>}
        /\ call' = [call EXCEPT ![w] = Idle]
     \/ /\ entry[p] # "absent" /\ ~Verifies(p)
        /\ call' = [call EXCEPT ![w] = Idle]
        /\ UNCHANGED receipts
  /\ UNCHANGED <<entry, durable, temp, orphaned, faults>>

WriteTemp(w) ==
  /\ At(w, "write")
  /\ temp' = [temp EXCEPT ![w] = "written"]
  /\ Goto(w, "fsync")
  /\ UNCHANGED <<entry, durable, orphaned, receipts, faults>>

\* fsync of the temporary file, close and chmod.
MutSyncTempSkipsFsync(w) ==
  /\ At(w, "fsync")
  /\ Goto(w, "link")
  /\ UNCHANGED <<entry, durable, temp, orphaned, receipts, faults>>
SyncTemp(w) ==
  /\ At(w, "fsync")
  /\ temp' = [temp EXCEPT ![w] = "synced"]
  /\ Goto(w, "link")
  /\ UNCHANGED <<entry, durable, orphaned, receipts, faults>>

LinkedState(w) == IF temp[w] = "synced" THEN "whole" ELSE "unsynced"

\* Publication by hard link: it fails when the name exists, it never replaces.
MutLinkReplaces(w) ==
  LET p == call[w].payload IN
  /\ At(w, "link")
  /\ entry' = [entry EXCEPT ![p] = LinkedState(w)]
  /\ call' = [call EXCEPT ![w].at = "unlink", ![w].outcome = "published"]
  /\ UNCHANGED <<durable, temp, orphaned, receipts, faults>>
Link(w) ==
  LET p == call[w].payload IN
  /\ At(w, "link")
  /\ \/ /\ entry[p] = "absent"
        /\ entry' = [entry EXCEPT ![p] = LinkedState(w)]
        /\ call' = [call EXCEPT ![w].at = "unlink", ![w].outcome = "published"]
     \/ /\ entry[p] # "absent"
        /\ Goto(w, "recheck")
        /\ UNCHANGED entry
  /\ UNCHANGED <<durable, temp, orphaned, receipts, faults>>

\* FileExistsError: another caller won.  Its record is read and verified; the
\* temporary file is unlinked whatever the result.
MutRecheckKeepsTemp(w) ==
  LET p == call[w].payload IN
  /\ At(w, "recheck")
  /\ call' = [call EXCEPT ![w] = Idle]
  /\ receipts' = receipts \union {<<q, "existing">> : q \in {r \in {p} : Verifies(r)}}
  /\ temp' = [temp EXCEPT ![w] = "none"]
  /\ orphaned' = TRUE
  /\ UNCHANGED <<entry, durable, faults>>
Recheck(w) ==
  LET p == call[w].payload IN
  /\ At(w, "recheck")
  /\ call' = [call EXCEPT ![w].at = "unlink",
                          ![w].outcome = IF Verifies(p) THEN "existing" ELSE "fault"]
  /\ UNCHANGED <<entry, durable, temp, orphaned, receipts, faults>>

\* Only a publisher goes on to fsync the directory; the others return (or
\* re-raise) here.
MutUnlinkReturnsWithoutSync(w) ==
  LET p == call[w].payload
      o == call[w].outcome IN
  /\ At(w, "unlink")
  /\ temp' = [temp EXCEPT ![w] = "none"]
  /\ call' = [call EXCEPT ![w] = Idle]
  /\ receipts' = IF o = "fault" THEN receipts ELSE receipts \union {<<p, o>>}
  /\ UNCHANGED <<entry, durable, orphaned, faults>>
MutUnlinkSwallowsFault(w) ==
  LET p == call[w].payload
      o == call[w].outcome IN
  /\ At(w, "unlink")
  /\ temp' = [temp EXCEPT ![w] = "none"]
  /\ \/ o = "published" /\ Goto(w, "syncdir") /\ UNCHANGED receipts
     \/ /\ o # "published"
        /\ call' = [call EXCEPT ![w] = Idle]
        /\ receipts' = receipts \union {<<p, o>>}
  /\ UNCHANGED <<entry, durable, orphaned, faults>>
MutUnlinkRemovesBadRecord(w) ==
  LET p == call[w].payload
      o == call[w].outcome IN
  /\ At(w, "unlink")
  /\ o = "fault"
  /\ entry' = [entry EXCEPT ![p] = "absent"]
  /\ temp' = [temp EXCEPT ![w] = "none"]
  /\ call' = [call EXCEPT ![w] = Idle]
  /\ UNCHANGED <<durable, orphaned, receipts, faults>>
Unlink(w) ==
  LET p == call[w].payload
      o == call[w].outcome IN
  /\ At(w, "unlink")
  /\ temp' = [temp EXCEPT ![w] = "none"]
  /\ \/ o = "published" /\ Goto(w, "syncdir") /\ UNCHANGED receipts
     \/ /\ o = "existing"
        /\ call' = [call EXCEPT ![w] = Idle]
        /\ receipts' = receipts \union {<<p, "existing">>}
     \/ o = "fault" /\ call' = [call EXCEPT ![w] = Idle] /\ UNCHANGED receipts
  /\ UNCHANGED <<entry, durable, orphaned, faults>>

SyncDirectory(w) ==
  /\ At(w, "syncdir")
  /\ durable' = Present
  /\ receipts' = receipts \union {<<call[w].payload, "published">>}
  /\ call' = [call EXCEPT ![w] = Idle]
  /\ UNCHANGED <<entry, temp, orphaned, faults>>

-----------------------------------------------------------------------------
\* Faults of the environment.

CountFault == faults < MaxFaults /\ faults' = faults + 1

\* write(), flush or fsync of the temporary file raises (a full disk): the try
\* block that unlinks it has not been entered yet.
WriteFails(w) ==
  /\ call[w].at \in {"write", "fsync"}
  /\ CountFault
  /\ temp' = [temp EXCEPT ![w] = "none"]
  /\ orphaned' = TRUE
  /\ call' = [call EXCEPT ![w] = Idle]
  /\ UNCHANGED <<entry, durable, receipts>>

\* The caller's process is killed.  The kernel keeps what was written.
Kill(w) ==
  /\ ~At(w, "idle")
  /\ CountFault
  /\ orphaned' = (orphaned \/ temp[w] # "none")
  /\ temp' = [temp EXCEPT ![w] = "none"]
  /\ call' = [call EXCEPT ![w] = Idle]
  /\ UNCHANGED <<entry, durable, receipts>>

\* A retained file is altered, or something else is put under a digest.
Tamper(p) ==
  /\ CountFault
  /\ entry' = [entry EXCEPT ![p] = "altered"]
  /\ UNCHANGED <<durable, temp, orphaned, call, receipts>>

\* Every call dies; names not fsynced may be gone, bytes not fsynced may be cut.
PowerLoss ==
  /\ CountFault
  /\ \E kept \in SUBSET Present, torn \in SUBSET Payload :
       /\ durable \subseteq kept
       /\ entry' = [p \in Payload |->
            IF p \notin kept THEN "absent"
            ELSE IF entry[p] = "unsynced" /\ p \in torn THEN "torn" ELSE entry[p]]
       /\ durable' = kept
  /\ temp' = [w \in Worker |-> "none"]
  /\ orphaned' \in {orphaned, TRUE}
  /\ call' = [w \in Worker |-> Idle]
  /\ UNCHANGED receipts

StoreStep(w) ==
  \/ Lookup(w) \/ WriteTemp(w) \/ SyncTemp(w) \/ Link(w)
  \/ Recheck(w) \/ Unlink(w) \/ SyncDirectory(w)

Next ==
  \/ \E w \in Worker : \/ \E p \in Payload : Begin(w, p)
                       \/ StoreStep(w)
                       \/ WriteFails(w)
                       \/ Kill(w)
  \/ \E p \in Payload : Tamper(p)
  \/ PowerLoss

Spec == Init /\ [][Next]_vars

-----------------------------------------------------------------------------
\* No crash, at any step of any number of calls, leaves a truncated record under
\* a digest: the bytes are fsynced before the link makes them visible.
NoTornRecord == \A p \in Payload : entry[p] # "torn"

\* A record once visible is never rewritten or removed by the store itself, not
\* even a damaged one by a caller that found the name free a moment earlier:
\* only a fault changes it ("retained records are never rewritten").
WriteOnce ==
  [][\A p \in Payload :
       (entry[p] # "absent" /\ entry'[p] # entry[p]) => faults' # faults]_vars

\* A digest returned to the caller that published it survives any later power
\* loss: its directory entry was fsynced before the return.
PublisherReceiptIsDurable ==
  \A p \in Payload : <<p, "published">> \in receipts => p \in durable /\ p \in Present

\* Whatever the interleaving, calls that meet no fault leave no temporary name
\* behind: winner, loser and verifier of a race all unlink theirs.
NoOrphanWithoutFault == orphaned => faults > 0

\* The store keeps the promises of SourceArchive: records disappear only in a
\* power loss, never a secured one, and publishers' receipts are for secured
\* records.
Archive == INSTANCE SourceArchive WITH
             retained <- Present,
             secured <- durable,
             promised <- {p \in Payload : <<p, "published">> \in receipts}
ImplementsSourceArchive == Archive!Spec
=============================================================================
