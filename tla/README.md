# TLA+ models of the global weather platform

This directory holds the formal development of the platform: TLA+ modules
translated from the code, the TLC configurations that model-check them, and
proofs checked by TLAPS. Paths below are relative to the repository root;
`weather_platform/` is `src/weather_platform/`, `console/` is
`apps/operator-console/`.

Run inside this directory:

    tlc -config MCIngestion.cfg MCIngestion      # any pair of the table of runs
    tlapm RawSourceStoreProofs.tla
    tlapm JsonlObservationStoreProofs.tla
    tlapm JsonlDurabilityProofs.tla
    tlapm IngestionProofs.tla
    tlapm CycleAcquisitionProofs.tla
    tlapm OperatorConsoleProofs.tla
    tlapm ModelCatalogProofs.tla
    tlapm ObservationUseProofs.tla

`PROJECT.json` lists components, runs, mutants, the source lines behind every
definition, findings, hazards and theorems.

## 1. The system and its parts

The platform takes weather records from clients (HTTP) and from the WMO WIS2
broker, keeps the original bytes, decodes them into canonical observations, and
serves those. A browser console in front of it lets operators retain records and
admit observations.

    client ──HTTP──▶ control plane ──▶ raw source store   (one file per digest)
                         │     ╰─────▶ observation store  (one JSONL file)
    WIS2 broker ─▶ consumer ──╯        model catalog       (one JSONL file)
    operator ──▶ console ──HTTP──▶ control plane
                    ╰─▶ audit trail, and in local development stores of its own

Everything on the platform's side is shared files: the control plane is any
number of processes, each with a thread pool, and the consumer is one more.
Nothing but files and their locks connects them.

| Component | State | Operations | What makes it correct |
|---|---|---|---|
| Raw source store (`storage/raw.py`) | one read-only file per SHA-256, temporary files | `store`, `exists`, `retrieve` | write-once; never a truncated record; what was acknowledged survives |
| Canonical observation store (`storage/jsonl.py`, `_admit_observations`) | append-only file, in-process lock and depth, file lock | `transaction`, `append`, `iter_observations`, `compact`, admission of a batch | one record per id, nothing accepted is lost, through kills and power losses, a refused batch leaves nothing, readers see a state of the store, both locks are always released |
| Control plane mutations (`api/main.py`) | none of its own | POST and PUT source records, POST observations | the bytes are retained before they are read; an observation has a source; HTTP brings no rejected one in; upstream trust cannot be claimed |
| Ingestion pipeline and JSON adapter (`ingestion/`) | none | retain, decode, derive the id | as above; same bytes, same id |
| WIS2 consumer (`ingestion/wis2.py`) | none | `process` one message | message and data are retained also when validation or verification fails; only a verified hash earns the upstream label; rejected observations are returned with the others |
| Model catalog (`domain/model_catalog.py`, `storage/model_catalog_store.py`) | append-only file | register, list | the latest registration per cycle, in order of first registration; counts are not inflated |
| Console mutations (`console/app/api`, `console/lib`) | audit events; locally an object bucket and three tables | retain a record, admit an observation, each relayed or local | no second source of truth beside a control plane; rows have objects; successes are audited, audit events are true; answers are true |
| Reads of observations (`list`, `api/edr.py`, `console/app/api/edr`, `weather-console.tsx`) | none; the browser's switch and table | list, position query, the browser's loads | answers hold all that matches, up to the limit, and nothing else; the table follows its switch |
| Model-cycle lifecycle (`domain/cycle_lifecycle.py`) | a cycle's state | `evaluate_cycle`, `transition_cycle` | never backwards; usable implies the minimum has arrived |
| NOAA acquisition (`acquisition/noaa`, `domain/source_manifests.py`) | none; manifests | parse an index, select messages, describe slices | ranges tile the object; a selection covers its request |
| Verification and its ledger (`scientific/verification.py`, `storage/verification_ledger.py`) | append-only ledger | partition, baselines, record | nothing that was not available at issue time is used; a case can be reproduced |
| GRIB/BUFR decoder, transport trust, scores, grids, wind, vector tiles | none | pure functions | numeric |
| Console authentication, layout, workers; build files | none | | |

The hard behaviours are these, and `PROJECT.json` lists each at its line:

* *Interleaving.* Any two of threads, processes and the consumer, between any two
  system calls; two-level locking with a reentrant depth counter; readers and a
  whole catalog that take no lock; console handlers between any two awaits.
* *Failure.* Kills at any point, failed and short writes, power losses that forget
  lines that no fsync and names that no directory fsync has secured, an upstream
  answer that is lost.
* *Reading what grows.* Files are followed to their end and tables are paged by offset
  while rows enter; overlapping loads of one view; rows stamped before they enter.
* *Ordering.* Retain, then interpret; check the source, then admit; mutate, then
  audit; and the paths that leave this sequence half-way.
* *Redelivery.* Same bytes by several paths, under several links and publication
  times; operators who send again.

## 2. Modules

| Module | Models | State and actions in the code's terms |
|---|---|---|
| `SourceArchive` | what `storage/raw.py` promises | abstract: `retained`, `secured`, `promised`; `Retain`, `Secure`, `PowerLoss` |
| `RawSourceStore` | `RawSourceStore.store` by system call | `entry` is the directory, `temp` each call's temporary file, `durable` the names fsynced; `Lookup`, `WriteTemp`, `SyncTemp`, `Link`, `Recheck`, `Unlink`, `SyncDirectory` in the order of the code; `WriteFails`, `Kill`, `Tamper` and `PowerLoss` in between |
| `ObservationLedger` | what the observation store promises | abstract: a batch is admitted at once, new ids only |
| `JsonlObservationStore` | `storage/jsonl.py` with `_admit_observations` | `rlock` (owner and depth, per process), `flock`, `files` (every file that has carried the name, with how many of its lines are fsynced, as compaction replaces the file under open readers), `named` (the first of them that a power loss can bring back); a call takes both locks, checks, appends and fsyncs record by record, leaves; compaction copies and replaces; readers open, read line by line, return; `WriteFails`, `WritesShort`, `Kill` and `PowerLoss` in between |
| `AcquisitionStores` | the two stores as the pipeline sees them, decoding, derived ids, admission | uses `SourceArchive` for the raw store; decoding is the constant `Claimed` |
| `ControlPlane` | the three mutating handlers, statement by statement | `call[w].at` is the next call of the handler; `Fail` is an exception of either store |
| `Wis2Consumer` | `Wis2NotificationConsumer.process` and the worker that admits its result | `delivery[c].at` is the next call; `Drop` is any exception; the worker is not in `src/` and is taken from `tests/unit/test_wis2.py:465-478`, which admits all that `process` returns |
| `Ingestion` | handlers and consumers on the same stores, with power losses | composes the three modules above |
| `OperatorConsole` | both POST routes in the three modes (`misconfigured` refuses all), with the audit trail | `mode` is chosen once; `call[h].at` is the next await; `answers` is history |
| `CycleAcquisition` | one product of a model cycle from the provider's notification to its lifecycle state | `provider` is what can be downloaded now, `state` the cycle's, `slices` the slices with a manifest, `call[w]` a worker's run. `Parses`, `ByteEnd`, `UniqueMatch`, `Selection` are `acquisition/noaa/grib_index.py`; `Download` checks what `domain/source_manifests.py` checks; `Evaluated` and `Transition` are `domain/cycle_lifecycle.py` |
| `CanonicalRows` | the observations as their readers see them | `rows` in the order in which they entered, `entered` when (history), `clock`; `Insert` |
| `ObservationQueries` | `JsonlObservationStore.list` and `api/edr.py` with a control plane, the console's `edr` and `observations` routes without | `query[q]` is a query between two lines of the file (`ReadRow`) or two batches of the table (`FetchBatch`); `next` is the line or the offset |
| `WeatherConsole` | the observations table of `weather-console.tsx` | `showQuarantine`, `load` (which load a query serves), `shown`; `LoadData`, `Arrive` |
| `Verification` | `scientific/verification.py`, `storage/verification_ledger.py` | `case` between building and recording, `ledger`; `BuildCase`, `Record`, `Drop` |
| `ObservationUse` | the readers together, while rows enter | composes the four modules above |
| `ModelCatalog` | the catalog, its two handlers, and the console's adaptation of a listing | `file` is the sequence of writes, a short one counts; a listing reads line by line, then selects cycle by cycle; a request says which cycles (`model_id`), origins and how many it wants |

The layers meet by refinement. `RawSourceStore` implements `SourceArchive`, and
the handlers run on `SourceArchive`; `JsonlObservationStore` implements
`ObservationLedger`, the atomic admission which the handlers perform in one step.
So the big composition does not carry system calls, and the stores do not carry
handlers. What is left of both for a reader is that rows only grow in an order that
does not change (`AppendOnly`, and a table from which nothing is deleted): this is
`CanonicalRows`, on which `ObservationUse` puts queries, the browser and verification.
`CycleAcquisition` and `ModelCatalog` stand alone, as the code has no
path between them yet: a catalog registration is a request of a client.

`src/` has the acquisition of a cycle as functions and leaves it to a worker to
call them. The worker of `CycleAcquisition` (`Discover`, `Start`, `Publish`,
`Retire` and the order of the steps) is therefore external: the path of
`tests/integration/test_weather_vertical_slice.py` with the duplicate and late
arrivals of `rfcs/RFC-0002-operational-weather-data-platform.md:104-114`. A transition
that `transition_cycle` refuses leaves the state, and the worker goes on with its run.

### Abstractions

* A payload stands for its own digest: SHA-256 is taken to be collision free, and a
  digest check is equality. A derived id is the source inside a tuple
  (`DerivedId`), apart from the ids that clients choose.
* Fields nobody decides on are one field `content`. Those that
  `_observation_content` compares (`api/main.py:171-184`) are kept apart from the
  receipt time, which it drops.
* A field of a model product is one name, its descriptor a set of folded tokens, a
  byte range its two ends. One product scope: an arrival of another scope is refused
  before it changes anything. A worker that dies is one that takes no further step.
* NaN matters only in one way: it is unequal to itself and is stored as null
  (`NotANumber`, `Null`). A line that does not parse is `Garbage`. A whole line is
  written by one `write(2)` on a file opened with `O_APPEND` and appears to readers at
  once.
* There is one position to ask for. A row is `near` it, in a `corner` of the box that
  `longitudeRanges` puts around it, or `far`; the box holds the circle. Rows of one
  time come out of the local table as its index on the time is read, backwards: the routes
  order by time alone (`edr/route.ts:124`), so between such rows this is an assumption about
  the database. A
  query without any name of a phenomenon, refused locally, is not among the requests.
* A forecast is a sum and the number of values it is the mean of. A case also holds
  which rows it used and how many there were (history; the code holds how many it used
  and left out). The caller of `build_verification_case` is not in `src/`; it passes the
  whole store, as the docstring of `partition_by_availability` supposes.
* What is refused before any store is touched (401, 413, an empty body, a wrong
  content type or shape) changes nothing and is no action: the inputs are the
  requests that pass.
* A power loss keeps fsynced bytes and the names present at the last fsync of their
  directory; any subset of the rest may survive.
* Client-chosen payloads come from a constant set of inputs; in the theorems this
  set is arbitrary.

## 3. Runs

The bounds are CONSTANTs that appear in guards (`MaxFaults`, `MaxCalls`,
`MaxReads`, `MaxArrivals`, `MaxLosses`, `MaxRequests`, `MaxPublications`, `MaxRuns`,
`MaxUses`, `MaxTime`). Where calls are bounded the
system stops when they are used up, so these runs do not check for deadlock;
`raw_store` does, since its callers never run out of calls.

| Run | Instance | Shows |
|---|---|---|
| `raw_store` | 3 callers, 2 payloads, 2 faults, symmetric callers | no truncated record, write-once, a publisher's receipt is durable, no temporary name is left without a fault; implements `SourceArchive` |
| `jsonl` | 3 threads in 2 processes, 1 reader, 2 ids, conflicting, repeating and NaN batches, an empty or an existing file, 2 calls, 1 read, 2 faults | lock discipline, unique ids, acceptance and refusal are exact, the lines are only appended to or cut by a power loss, a reader sees a state of the store, every request ends; implements `ObservationLedger` until a lapse |
| `ingestion` | 2 HTTP workers, 1 consumer, 8 requests, 3 messages on 4 topics, 3 arrivals, 1 power loss | evidence first, source behind every observation, no reject by HTTP, upstream label vouched for, one record per source |
| `ingestion_power_loss` | the same | **violated**: an observation keeps its source through a power loss |
| `ingestion_redelivery` | the same without power loss | **violated**: redelivery of the same bytes by another path is idempotent, where no client has posted an observation of them; the trace is a WIS2 delivery and then an HTTP record |
| `operator_console` | 2 handlers, 2 operators, 1 record, 2 contents, 3 requests, three modes | see section 1; in addition the sequence "retain, then admit" is honoured |
| `cycle_acquisition` | 2 workers, 2 runs, 3 fields of which 2 are the minimum; an object under a cut-off index, one with a gap and a full one, and an ambiguous revision of another size; 1 change at the provider | the cycle never goes backwards, usable means that the minimum has arrived, a slice taken under one revision is its message, the minimum promotes |
| `model_catalog` | 2 workers, 2 cycles, 2 origins, 6 inventories of which one is refused for its grid, 3 listings (of one model, of one origin, the first of all), 4 calls | listings are current, hold what was asked for up to the limit, and are in order |
| `model_catalog_counts` | the same | **violated**: no more available fields than expected ones |
| `observation_use` | 3 rows in any order (two good ones near the position, a quarantined one in a corner), 3 position requests, 2 queries at once, 2 uses among position queries, loads and cases, batches and lists of 2, 3 times, both modes, symmetric queries | answers are exact, the table is true of the switch as its load was made with, and of the present switch once the last load is on display, cases are reproducible |
| `verification_leak` | the same | **violated**: a case used only rows that were in the store at its issue time |
| `recent_observations` | the same | **violated**: what the table leaves out is not newer than what it shows |

Why these bounds are enough to be of use. The races of the raw store are between
the one that links and those that do not, before and after its directory fsync;
three callers give one of each, and two faults give the pair that matters (a fault
that strands a temporary file, then a power loss). The two-level lock needs two
threads of one process and one of another. The batches contain each way in which
two admissions can meet: the same record again under another receipt time, the same
id with another content first or last in a batch, one id twice in a batch.
Three arrivals let a client post the observation, the bytes, and let the broker
deliver the message, in any order. In the console, two operators who send two
contents for one position, plus one retry, is the shortest story in which a
recorded success, a conflict and a lost answer meet. Four calls of the catalog are
three registrations of two cycles and a listing across them, or two listings. Two
workers with two runs between them are a pair of evaluations that can be applied in either
order, with the same field arriving twice; one change at the provider can fall
between any two of the three reads (size, index, object) of a run. Two calls and two
faults of the observation store are the shortest stories of each lapse (a killed
writer, a redelivery, a power loss), and a compaction or a batch beside a reader. Of
the three rows one is left to enter between two batches of a query, at the front of
them; two uses are two loads that overtake each other or two cases for one issue time.

*Fairness.* Two properties need it. For `EveryRequestEnds`, `FairSpec` of
`JsonlObservationStore` is weak fairness of each thread's own steps (`CallStep`):
the operating system runs every thread that can run. Strong fairness of the locks,
which neither `RLock` nor `flock` gives, is not needed, since in a behaviour with
finitely many requests nobody can be overtaken for ever. Kills and faults are not
fair. For `MinimumPromotes`, `FairSpec` of `CycleAcquisition` is weak fairness of
each worker's steps (`WorkerStep`); notifications, retirements and what the provider
does are free. Fairness does not say that a worker evaluates between two downloads,
only that it goes on to its last evaluation or evaluates for ever.

### Disagreements between code and documents

`PROJECT.json` quotes both sides of each of these; every one is a run above.

1. `store()` answers a caller who finds the record linked before its name is
   durable (`storage/raw.py:97-99, 112-118`), so an observation can be fsynced whose
   source a power loss then removes (`api/main.py:229`).
2. The compared provenance of an observation holds `source_id` and
   `source_published_at`, which WIS2 takes from the message and HTTP from the bytes, so
   bytes that came by WIS2 are refused with 409 when they come by HTTP
   (`api/main.py:179`).
3. Duplicate available fields are counted (`api/main.py:371`), so a summary can hold
   more available than expected fields, on which the console rejects the listing. Since the browser loads
   observations, cycles and health together (`weather-console.tsx:103`), its table of
   observations then stays as it is, too.
4. Verification takes `ingestion_time` for the moment a record entered the store
   (`scientific/verification.py:25-32`); it is stamped by the client or decoder before,
   so a row that entered late can inform a forecast that is evaluated for an earlier time.
5. With a control plane the browser's "Recent observations" are the first rows of the
   file (`storage/jsonl.py:85-96`, `weather-console.tsx:393, 421`).

Other things are recorded as hazards and appear as exceptions of properties:

* A cycle that was evaluated before any field arrived is `missing`, from which only
  `partial` can follow, so the first field after it must be evaluated alone for the
  cycle to be promoted (exception of `MinimumPromotes`).
* Nothing ties the declared size, the index and the object of a slice to one revision
  (`Coherent`, the premise of `SliceIsItsMessage`).
* The observation store has three lapses, all after a fault that its code does not look
  at (`lapses`): `short`, `os.write` wrote less than the line (`storage/jsonl.py:56`;
  lines 62-63 promise that no reader sees a torn line); `unsynced`, a redelivery is
  accepted on a record whose writer died or failed before its fsync
  (`api/main.py:213`); `undone`, a power loss forgets the creation or the compaction of
  the file, which no directory fsync has secured (`storage/jsonl.py:114`). The run
  shows that there is no fourth.
* A NaN is stored as null, so its exact redelivery is refused (`storage/jsonl.py:52`).
* `process()` returns rejected observations with the others (`ingestion/wis2.py:303`), and
  `_admit_observations` looks at no quality (`api/main.py:200-225`). Its result, admitted as
  the tests admit it, brings them into the canonical store, although
  `specs/data/SPEC-200-observation-platform.md:34` says that rejected observations never
  enter it. The worker that runs the consumer is not in the repository; it would have to
  filter. `RejectsOnlyFromBroker` excepts just this path.
* A load of the browser that is overtaken by a later one is shown when it arrives
  (`weather-console.tsx:114`), so quarantined rows can be on display with the switch off:
  `TableFollowsSwitch` says of such a table only that it is true of the position that its
  load was made with. A row is returned
  twice when a newer one enters between two batches (`edr/route.ts:117`; last part of
  `AnswersAreExact`).

The exceptions (`losses = 0`, `lapses`, ids that a client chose) are named in the comments
of the properties.

## 4. Proofs

The theorems hold for every value of the constants that satisfies the named
assumptions: any number of callers, workers, consumers, payloads, requests and
messages, and any bounds.

**`RawSourceStoreProofs`** proves of `RawSourceStore!Spec`: `TypeOK`,
`NoTornRecord`, `PublisherReceiptIsDurable`, `NoOrphanWithoutFault`, `WriteOnce` and
`ImplementsSourceArchive`. Assumptions: `NoPayloadAssumption`,
`MaxFaultsAssumption`.
The promises are not inductive by themselves. That no record is torn rests on
`LinkAfterFsync` (a call that is about to link has fsynced its temporary file), from
which `SyncedOrAltered` follows (what is visible is whole or was altered from
outside, never only in the page cache). That a receipt is durable rests on
`PublisherSeesItsRecord` (between the link and the directory fsync the name is
there, else a fault has ended the call) and on durable names being present. `IInv` is
their conjunction with the receipts' property. Refinement is then one lemma
per visible step, and `HiddenStep` for all others.

**`JsonlObservationStoreProofs`** and, on it, **`JsonlDurabilityProofs`** prove of
`JsonlObservationStore!Spec` every safety property of its run. Assumptions:
`ProcessAssumption`, `ObservationAssumption`, `BatchAssumption`, `ExistingAssumption`,
`GarbageAssumption`, `BoundAssumption`.
The first has `TypeOK`, `LockDiscipline`, `UniqueIds` and `RejectedLeavesNothing`. The
check reads the lines and the writes come later, one nested transaction each, so `IInv`
says what a call still knows in between: `Holds` (both locks, at the depth of its step),
`FreshIsNew` (the positions it has yet to write have ids of their own that no line has),
`WroteNothing`. A step inside leaves the others all they know because `Exclusion` follows
from `Holds`. Unique ids must hold of every file that has carried the name, since a power
loss brings an older one back.
The second has `AcceptedIsStored` and the refinement `ImplementsObservationLedger`, both
until a lapse. `Sound` is what holds until then: what was accepted is on fsynced lines;
`Earned` (whatever of its job a call need not write any more is on lines, and on fsynced
lines once it has written all); and `OlderHaveNoMore` (a file from before a compaction
whose rename is not on disk has no record that the current one lacks). A duplicate inside
a batch is settled by its first occurrence, the least of a set of positions, which exists
as < is well-founded on Nat. A step that brings the lapse is excused, one after it has nothing
to show.
It also has `ReaderSeesSnapshot`, from `RInv`: every file that has carried the name begins
the one that carries it now, as long as that is readable (`FilesNest`), and a reader has
read from the start of its file (`SeesItsFile`). And it has the action property `AppendOnly`,
whose one hard step is a power loss, which may bring an older file back: what it leaves is cut
out of the present lines because older files begin these, readable or not, until a line is put
down in part (`FilesBegin`); for the same reason a compaction must still hold what it copied
(`Copies`) when it replaces the file.

**`IngestionProofs`** proves of `Ingestion!Spec`: `TypeOK`, `EvidenceIsKept`,
`SourceBehindObservation`, `RejectsOnlyFromBroker`, `UpstreamLabelIsVouched` and
`OneRecordPerSource`. Assumptions: `ClaimedAssumption`, `UndecodableAssumption`, `NoneAssumption`,
`RequestAssumption`, `NotificationAssumption`, `TopicAssumption`, `ServedAssumption`,
`BoundAssumption`.
The invariants speak of the stores, but what a step does to the stores depends on
what its call checked several steps earlier. `IInv` adds this knowledge per call:
`HttpOK(w)` says for each position in a handler what is retained, and which
observation it holds by now; `Wis2OK(c)` the same for a delivery, in particular that
a delivery has the data that its link serves, not contradicted by the message's claim, and
the label that this claim earns; `UpstreamLabelIsVouched` and `RejectsOnlyFromBroker` rest
on it. The
argument has two halves: the stores only grow, and by fitting observations (`Growth`,
`GrowthKeeps`), so whatever another call does takes nothing away from what this one
knows (`HttpFrame`, `Wis2Frame`); and each step of a call hands its knowledge on
(`HttpStepKeeps`, `Wis2StepKeeps`, one step per action). A power loss takes records
away and at the same time ends every call; the invariants excuse it by
`losses = 0`, and `UpstreamLabelIsVouched` needs no excuse. `OneRecordPerSource` follows
from `OneRecordPerId` and from what may be in the store at all: a record has its derived id,
or one that a client chose. Its proof needed a case that no request of the run had: a client
may post an observation of some bytes under the id derived from other bytes. The property
excepts it now (`OfOtherBytes`), the run has such a request, and it is listed as a hazard.

**`CycleAcquisitionProofs`** proves of `CycleAcquisition!Spec`: `TypeOK`,
`UsableMeansMinimum`, `NeverBackwards` and `SliceIsItsMessage`. Assumptions:
`ManifestAssumption`, `RequirementAssumption`, `PublicationAssumption`,
`BoundAssumption`. An evaluation is applied some steps after it was made, and in
between other workers download and evaluate. It is still true then because fields
only arrive (`EvaluationsHold`). A slice is written under an index and a
selection that the run obtained earlier; `SelectionsMatch` says that the pending
selections of a run are the unique matches of its index, within the declared size,
and `SlicesMatch` the same of each slice. `IInv` is `TypeOK`, `UsableMeansMinimum` and
these three. `NeverBackwards` is then a fact about the table of transitions alone,
and `SliceIsItsMessage` follows from `SlicesMatch` where the index is that of the object.

**`OperatorConsoleProofs`** proves of `OperatorConsole!Spec`: `TypeOK`,
`OneSourceOfTruth`, `RowsHaveObjects`, `AuditIsTruthful`, `SuccessIsAudited`,
`AnswersAreTrue` and `SequenceIsHonoured`. Assumptions: `RequestAssumption`,
`NoneAssumption`, `BoundAssumption`. `Knows(h)` says of each call in progress that it
is where its mode and kind take it (`OnItsPath`), what it has found (`HasFound`: the
object before the row, the source before the observation, a row with its id before
the comparison), that its status is true (`StatusIsTrue`) and that an acknowledged
source is there (`IsAssured`). The stores, the trail and the answers only grow, so
`GrowthKeeps` carries this over the steps of all other handlers, and one lemma per
action over its own. `StatusIsTrue` is what the answers inherit; that a success is
audited under the operator's own name needs that equal audit ids are equal events.

**`ModelCatalogProofs`** proves of `ModelCatalog!Spec`: `TypeOK`, `ListingIsCurrent` and
`UpdatesInPlace`. Assumptions: `InventoryAssumption`, `AskAssumption`, `NoneAssumption`,
`BoundAssumption`. `HasRead` states what a listing has built from the lines before
its position: each is covered by an entry at least as late, and a cycle that comes before
another has a line before all of the other's. Lines are never changed, so a longer
file leaves it true (`LongerKeeps`); `ReadLineStep` is the one step that extends it. `HasSelected` says the
same of the second half of a listing, the walk over the cycles in their order: what is
listed is wanted by its latest entry, what is wanted and already passed is listed, and in
the order of first registration; `SelectStep` extends it.

**`ObservationUseProofs`** proves of `ObservationUse!Spec` every invariant of its run:
`TypeOK`, `AnswersAreExact`, `TableFollowsSwitch` and `CasesAreReproducible`. Assumptions:
`TimeAssumption`, `RowAssumption`, `ValueAssumption`, `RequestAssumption`, `SizeAssumption`,
`TableAssumption`, `ListAssumption`, `UsesAssumption`. It has four parts.

* *Order.* The local table is read in the order `Newer`, and the model chooses the sequence
  that has this order. That one exists (`SortedExists`) is an induction over a finite set of
  rows, done by a smallest counterexample. The position of a row in it is its `Rank`, one
  more than the number of selected rows before it (`PositionIsRank`), and a rank only grows
  as rows enter, by one for each newer row (`RankGrows`). So a batch read at an offset is a
  set of rows between two ranks (`FoundLists`), a statement without the sequence.
* *Answers.* Between two lines or batches, what the query has missed of the rows that were
  there when it began is ahead of it, by rank or by line, and what it holds is behind it,
  unless a newer row has moved it on (`Progress`, with `Behind` and `Overtaken`). A row that
  was moved on may be returned again; one that was not yet returned cannot be skipped, as
  ranks never fall. A finished answer is `Exact`: what it misses, all that it holds precedes,
  and only a full answer misses anything. Rows that enter take nothing from either
  (`KeptAnswers`); `BatchAnswers` and `RowAnswers` are the two steps that extend an answer.
* *The table.* `LoadsSound` ties each query that serves a load to its switch position, the
  last one to the present position; `TableSound` says that the table is the head of an exact
  list.
* *Cases.* A case holds exactly the rows stamped by its issue time among those that it saw,
  and the forecast is the baseline's of that set (`CaseSound`), the same later, as rows do not
  change (`KeptForecasts`). Two cases can then differ only by a row stamped early that entered
  between them. That a forecast is typed needs that the sum of integers over a finite set is
  an integer, which is `SumIsInteger`, from the existence of the recursive function that adds
  element by element (`SumsExist`).

Only model-checked: liveness (`EveryRequestEnds`, `MinimumPromotes`), which is beyond the
proof system. The violated properties are of course not proved.

## 5. Not modelled, and why

* Grid assets, coordinates, wind and vector tiles: pure functions of floating-point
  coordinates. What could go wrong in them is rounding, which a model in integers
  would not have.
* The NOAA adapter's URL planning and the text of an index line: parsing and
  formatting without state; `Parses` keeps what is refused.
* Scores, probability, angular distance: floating point over the reals, no state.
* GRIB/BUFR decoding: a native library; the adapter around it stamps what the JSON
  adapter's model already stamps.
* Transport trust: two predicates that nothing in `src/` calls.
* Console authentication, layout, worker plumbing, build files: no state that a
  property is about.
* The audit and health routes of the console: each reads one table or one answer.
* Power losses of the catalog and of the ledger of verification, and short writes of
  the latter: both files are written as the observation store's is, without its lock.
  `PowerLoss` in `Ingestion` keeps the canonical observations, as `ObservationLedger`
  promises for accepted ones.

## 6. Plan

In order of importance; done items first.

1. Done: both stores, with their abstract specifications; the handlers, the WIS2
   consumer and their composition; console mutations; the catalog; proofs of the raw
   store and of the composition.
2. Done: `CycleAcquisition`, the index, selection, slices and lifecycle of a cycle,
   with its proofs.
3. Done: power losses and failing fsyncs of the observation store, with what they leave
   of its promises (`lapses`) and of the refinement.
4. Done: the reading side, `ObservationQueries`, `WeatherConsole`, `Verification` and
   their composition `ObservationUse`.
5. Done: proofs of `OperatorConsole`, `ModelCatalog` and `JsonlObservationStore`, with
   the refinement of `ObservationLedger`.
6. Done: proofs of `ObservationUse`, of `OneRecordPerSource` and of `AppendOnly`, so that
   every safety property of a passing run is a theorem.
7. Proofs: the premises of the composition, i.e. that `AcquisitionStores` admits only by steps
   of `ObservationLedger`, and that `ObservationLedger` gives `CanonicalRows` its rows.
