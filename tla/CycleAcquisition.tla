--------------------------- MODULE CycleAcquisition ---------------------------
(***************************************************************************)
(* One product of a model cycle (a grid, lead and member) on its way from  *)
(* the provider: the GRIB index (acquisition/noaa/grib_index.py), source   *)
(* slices (domain/source_manifests.py) and the publication lifecycle       *)
(* (domain/cycle_lifecycle.py).  src has these as functions; the worker    *)
(* that calls them is the path of the integration test                     *)
(* (tests/integration/test_weather_vertical_slice.py), taken by several    *)
(* workers at once while the provider publishes, and free to evaluate the  *)
(* cycle whenever it likes.                                                *)
(***************************************************************************)
EXTENDS Integers, Sequences, FiniteSets

CONSTANTS Worker,
          Name,              \* canonical field names
          Token,             \* descriptor tokens, case folded
          Tokens,            \* the tokens that identify each field
          Minimum, Complete, \* the manifests of required fields
          Requirement,       \* the sets of fields that workers select
          Publication,       \* an object and an index that a provider may show
          MaxPublications,   \* bound on the changes at the provider
          MaxRuns            \* bound on the runs of the workers

\* The object's messages: where they start and what they are.  An index line with
\* a part that is no integer has number 0.
Object == [starts: Seq(Nat), what: Seq(SUBSET Token), size: Nat]
Line   == [number: Int, offset: Int, tokens: SUBSET Token]

ASSUME TokensAssumption == Tokens \in [Name -> (SUBSET Token) \ {{}}]
ASSUME ManifestAssumption == Minimum # {} /\ Minimum \subseteq Complete /\ Complete \subseteq Name
ASSUME RequirementAssumption == Requirement \subseteq SUBSET Name
ASSUME PublicationAssumption ==
  Publication # {} /\ Publication \subseteq [object: Object, index: Seq(Line)]
ASSUME BoundAssumption == MaxPublications \in Nat /\ MaxRuns \in Nat

CycleState == {"discovered", "index_available", "downloading", "missing", "partial",
               "minimum_usable", "complete", "quarantined", "superseded", "expired"}
Usable  == {"minimum_usable", "complete"}
Retired == {"quarantined", "superseded", "expired"}

VARIABLES provider,      \* what the provider shows
          state,         \* the cycle's lifecycle state
          slices,        \* the source slices with a manifest, each an arrived field
          call,
          publications, runs

vars == <<provider, state, slices, call, publications, runs>>

NoCall == [at |-> "idle", names |-> {}, size |-> 0, index |-> <<>>, selected |-> {},
           target |-> "discovered"]

Init ==
  /\ provider \in Publication
  /\ state = "discovered"
  /\ slices = {}
  /\ call = [w \in Worker |-> NoCall]
  /\ publications = 0 /\ runs = 0

-----------------------------------------------------------------------------
\* The index.

Parses(index, size) ==
  /\ index # <<>> /\ size > 0
  /\ \A i \in DOMAIN index :
       /\ index[i].number > 0 /\ index[i].tokens # {}
       /\ index[i].offset \in 0..(size - 1)
       /\ i > 1 => /\ index[i].number = index[i - 1].number + 1
                   /\ index[i].offset > index[i - 1].offset

MutByteEnd(index, size, i) == IF i < Len(index) THEN index[i + 1].offset ELSE size
ByteEnd(index, size, i) == (IF i < Len(index) THEN index[i + 1].offset ELSE size) - 1

Matches(line, n) == Tokens[n] \subseteq line.tokens

UniqueMatch(index, n, i) == \A j \in DOMAIN index : Matches(index[j], n) <=> i = j

Selectable(index, names) == \A n \in names : \E i \in DOMAIN index : UniqueMatch(index, n, i)

MutSelectionWithoutEnd(index, size, names) ==
  UNION {{[name |-> n, start |-> index[i].offset] :
            i \in {j \in DOMAIN index : UniqueMatch(index, n, j)}} : n \in names}
Selection(index, size, names) ==
  UNION {{[name |-> n, start |-> index[i].offset, end |-> ByteEnd(index, size, i)] :
            i \in {j \in DOMAIN index : UniqueMatch(index, n, j)}} : n \in names}

-----------------------------------------------------------------------------
\* The lifecycle.

Arrived == {s.name : s \in slices}

\* Arrivals are counted as a set of names, and only names of the manifest count.
MutEvaluatedCounts(recognized) ==
  IF slices = {} THEN "missing"
  ELSE IF Cardinality(slices) >= Cardinality(Complete) THEN "complete"
  ELSE IF Cardinality(slices) >= Cardinality(Minimum) THEN "minimum_usable"
  ELSE "partial"
Evaluated(recognized) ==
  IF recognized = {} THEN "missing"
  ELSE IF Complete \subseteq recognized THEN "complete"
  ELSE IF Minimum \subseteq recognized THEN "minimum_usable"
  ELSE "partial"

MutAfterPartial == {"complete", "quarantined", "expired"}
AfterPartial == {"minimum_usable", "complete", "quarantined", "expired"}
Allowed(current) ==
  CASE current = "discovered"      -> {"index_available", "missing", "quarantined"}
    [] current = "index_available" -> {"downloading", "partial", "quarantined"}
    [] current = "downloading"     -> {"missing", "partial", "minimum_usable", "complete", "quarantined"}
    [] current = "missing"         -> {"partial", "quarantined", "expired"}
    [] current = "partial"         -> AfterPartial
    [] current = "minimum_usable"  -> {"complete"} \union Retired
    [] current = "complete"        -> Retired
    [] current \in {"quarantined", "superseded"} -> {"expired"}
    [] current = "expired"         -> {}

\* transition_cycle: what is not allowed raises, and leaves the state.
MutTransitionUnchecked(target) == state' = target
Transition(target) == state' = IF target \in Allowed(state) THEN target ELSE state

-----------------------------------------------------------------------------
\* A run of a worker.

At(w, step) == call[w].at = step
Advance(w, step) == call' = [call EXCEPT ![w] = [@ EXCEPT !.at = step]]

\* A notification, the first or one more; the object's metadata is read.
Discover(w, names) ==
  /\ At(w, "idle") /\ runs < MaxRuns
  /\ runs' = runs + 1
  /\ call' = [call EXCEPT ![w] = [NoCall EXCEPT !.at = "index", !.names = names,
                                                !.size = provider.object.size]]
  /\ UNCHANGED <<provider, state, slices, publications>>

\* The index is read, which may be another revision's by now; then parse_grib_index
\* and select_grib_messages: all the fields asked for, or none.
Select(w) ==
  LET c == call[w]
      index == provider.index IN
  /\ At(w, "index")
  /\ IF Parses(index, c.size) /\ Selectable(index, c.names)
     THEN /\ Transition("index_available")
          /\ call' = [call EXCEPT ![w] = [@ EXCEPT !.at = "start", !.names = {}, !.index = index,
                        !.selected = Selection(index, c.size, c.names)]]
     ELSE call' = [call EXCEPT ![w] = NoCall] /\ UNCHANGED state
  /\ UNCHANGED <<provider, slices, publications, runs>>

Start(w) ==
  /\ At(w, "start")
  /\ Transition("downloading")
  /\ Advance(w, "download")
  /\ UNCHANGED <<provider, slices, publications, runs>>

\* One range of the object as it is now.  A manifest needs a payload of just the
\* selected length and a range within the declared size; without one, or when the
\* transport fails or the clock steps back between two timestamps, no field arrives.
Download(w, m) ==
  /\ At(w, "download") /\ m \in call[w].selected
  /\ call' = [call EXCEPT ![w] = [@ EXCEPT !.selected = call[w].selected \ {m}]]
  /\ \/ /\ m.start <= m.end /\ m.end < provider.object.size /\ m.end < call[w].size
        /\ slices' = slices \union {[name |-> m.name, start |-> m.start, end |-> m.end,
                                     size |-> call[w].size, index |-> call[w].index,
                                     object |-> provider.object]}
     \/ UNCHANGED slices
  /\ UNCHANGED <<provider, state, publications, runs>>

\* The cycle is evaluated between two downloads or after the last one, from the
\* fields that have arrived by then.
Evaluate(w) ==
  /\ At(w, "download")
  /\ call' = [call EXCEPT ![w] = [@ EXCEPT !.at = "apply",
                                            !.target = Evaluated(Arrived \intersect Complete)]]
  /\ UNCHANGED <<provider, state, slices, publications, runs>>

Apply(w) ==
  /\ At(w, "apply")
  /\ Transition(call[w].target)
  /\ call' = [call EXCEPT ![w] = IF call[w].selected = {} THEN NoCall
                                 ELSE [@ EXCEPT !.at = "download", !.target = "discovered"]]
  /\ UNCHANGED <<provider, slices, publications, runs>>

\* A decision about the cycle from outside: a newer one, a defect, its age.
Retire(target) ==
  /\ target \in Allowed(state)
  /\ Transition(target)
  /\ UNCHANGED <<provider, slices, call, publications, runs>>

\* The provider replaces the object or the index: a longer index, another
\* revision, an index that does not belong to the object any more.
Publish(publication) ==
  /\ publications < MaxPublications
  /\ publications' = publications + 1
  /\ provider' = publication
  /\ UNCHANGED <<state, slices, call, runs>>

WorkerStep(w) ==
  \/ Select(w) \/ Start(w)
  \/ \E m \in call[w].selected : Download(w, m)
  \/ Evaluate(w) \/ Apply(w)

Next ==
  \/ \E w \in Worker, names \in Requirement : Discover(w, names)
  \/ \E w \in Worker : WorkerStep(w)
  \/ \E target \in Retired : Retire(target)
  \/ \E publication \in Publication : Publish(publication)

Spec == Init /\ [][Next]_vars

\* Workers that can take a step take one; notifications, retirements and the
\* provider are free.
FairSpec == Spec /\ \A w \in Worker : WF_vars(WorkerStep(w))

-----------------------------------------------------------------------------
Step == {"idle", "index", "start", "download", "apply"}
Message == [name: Name, start: Int, end: Int]
Slice == [name: Name, start: Int, end: Int, size: Nat, index: Seq(Line), object: Object]
Call == [at: Step, names: SUBSET Name, size: Nat, index: Seq(Line),
         selected: SUBSET Message, target: CycleState]

TypeOK ==
  /\ provider \in Publication
  /\ state \in CycleState
  /\ slices \subseteq Slice
  /\ call \in [Worker -> Call]
  /\ publications \in 0..MaxPublications /\ runs \in 0..MaxRuns

\* "illegal backwards state transitions are rejected": however late an evaluation is
\* applied, and whatever other workers have applied since it was made, a cycle that was
\* usable stays usable until it is retired, and nothing comes back from there.
Rank(s) ==
  CASE s = "discovered" -> 0 [] s = "index_available" -> 1 [] s = "downloading" -> 2
    [] s = "missing" -> 3 [] s = "partial" -> 4 [] s = "minimum_usable" -> 5
    [] s = "complete" -> 6 [] s \in {"quarantined", "superseded"} -> 7 [] s = "expired" -> 8
NeverBackwards == [][Rank(state) <= Rank(state')]_vars

\* "A newer cycle MUST NOT replace the currently served usable cycle until its
\* configured minimum required-field manifest is satisfied" and "Duplicate provider
\* notifications and field arrivals MUST NOT inflate completeness": a cycle is called
\* usable, and complete, only if each of those fields has a slice with a manifest,
\* however many slices of some fields there are.
UsableMeansMinimum ==
  /\ state \in Usable => Minimum \subseteq Arrived
  /\ state = "complete" => Complete \subseteq Arrived

\* A slice whose index describes the object it was taken from, and whose declared
\* size is that object's, is exactly the message of its field, and there is no other
\* message it could have been.  (Nothing in the code ties the three to one revision.)
Coherent(s) ==
  /\ s.size = s.object.size
  /\ Len(s.index) = Len(s.object.starts) /\ Len(s.index) = Len(s.object.what)
  /\ \A i \in DOMAIN s.index : s.index[i].offset = s.object.starts[i]
                               /\ s.index[i].tokens = s.object.what[i]
SliceIsItsMessage ==
  \A s \in slices : Coherent(s) =>
    \E i \in DOMAIN s.object.starts :
      /\ s.start = s.object.starts[i]
      /\ s.end + 1 = IF i < Len(s.object.starts) THEN s.object.starts[i + 1] ELSE s.object.size
      /\ \A j \in DOMAIN s.object.what : Tokens[s.name] \subseteq s.object.what[j] <=> i = j

\* Once the minimum has arrived the cycle becomes usable, or it is retired, whatever
\* order the evaluations of several workers are applied in; the exception is a cycle
\* that was evaluated before anything had arrived: out of "missing" every transition
\* but that to "partial" is refused, and nobody need evaluate again.
MinimumPromotes ==
  [](state # "missing") => (Minimum \subseteq Arrived ~> state \in Usable \union Retired)
=============================================================================
