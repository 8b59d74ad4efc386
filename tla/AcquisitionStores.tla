-------------------------- MODULE AcquisitionStores ---------------------------
(***************************************************************************)
(* The state that the control plane and the WIS2 consumer share: the raw   *)
(* source store, taken as the SourceArchive that RawSourceStore is shown   *)
(* to implement, and the canonical observations, taken as the set of       *)
(* records that JsonlObservationStore is shown to keep one per id, with an *)
(* admission that is one step because its transaction is.                  *)
(***************************************************************************)
CONSTANTS Source,         \* source records: a payload stands for its digest
          Notification,   \* WIS2 notification messages, retained like payloads
          DataId, Time,   \* what an observation says of its publication
          AssertedId,     \* observation ids that clients make up
          Claimed,        \* what the JSON of each source record asserts
          Undecodable,    \*   or this, when no observation can be read from it
          None

Quality   == {"accept", "quarantine", "reject"}
Label     == {"platform", "upstream"}
Assertion == [dataId: DataId, published: Time, quality: Quality, label: Label]

\* wellFormed stands for the size limit and every condition of the envelope; cache
\* is the global-cache property, claim the record its integrity value is the hash
\* of; either may be absent.
Message(Link, Centre) ==
  [wellFormed: BOOLEAN, cache: Centre \union {None}, link: Link,
   claim: Source \union {None}, dataId: DataId, pubtime: Time]

ASSUME ClaimedAssumption == Claimed \in [Source -> Assertion \union {Undecodable}]
ASSUME UndecodableAssumption == Undecodable \notin Assertion
ASSUME NoneAssumption == None \notin Source \union Label

VARIABLES retained, secured,   \* the raw source store
          ledger,        \* the canonical observations
          interpreted    \* history: every payload and message interpreted so far

archive == <<retained, secured>>
stores  == <<archive, ledger, interpreted>>

Bytes == Source \union Notification

Archive == INSTANCE SourceArchive WITH Payload <- Bytes, promised <- {}

StoresInit == Archive!Init /\ ledger = {} /\ interpreted = {}

-----------------------------------------------------------------------------
\* RawSourceStore.store: a new record becomes visible, then its directory is
\* fsynced; a record that is already there is answered at once.
Publish(b)    == b \notin retained /\ Archive!Retain(b)
SyncRoot(b)   == b \in retained /\ Archive!Secure
Existing(b)   == b \in retained /\ UNCHANGED archive

-----------------------------------------------------------------------------
\* derive_observation_id: a function of the digest (and of the decoder version
\* and position, which the payload determines).
DerivedId(s) == <<s>>

Id == {DerivedId(s) : s \in Source} \union AssertedId
Observation == [id: Id, source: Source, dataId: DataId, published: Time,
                quality: Quality, label: Label]

\* The JSON adapter stamps the digest of the payload, the pipeline supersedes the
\* asserted id by the derived one.
MutDecodedWithoutId(s) ==
  [id |-> None, source |-> s, dataId |-> Claimed[s].dataId,
   published |-> Claimed[s].published, quality |-> Claimed[s].quality,
   label |-> Claimed[s].label]
Decoded(s) ==
  [id |-> DerivedId(s), source |-> s, dataId |-> Claimed[s].dataId,
   published |-> Claimed[s].published, quality |-> Claimed[s].quality,
   label |-> Claimed[s].label]

\* _observation_content: the trust label and the receipt are not compared.
Content(o) == [o EXCEPT !.label = None]

\* _admit_observations for one observation.
InConflict(o) == \E r \in ledger : r.id = o.id /\ Content(r) # Content(o)
MutKnownWithReceipt(o) == o \in ledger
Known(o) == \E r \in ledger : r.id = o.id
Admitted(o) == IF Known(o) THEN ledger ELSE ledger \union {o}

Interpret(b) == interpreted' = interpreted \union {b}
=============================================================================
