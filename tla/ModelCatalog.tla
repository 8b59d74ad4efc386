----------------------------- MODULE ModelCatalog -----------------------------
(***************************************************************************)
(* The catalog of model guidance cycles (domain/model_catalog.py,          *)
(* storage/model_catalog_store.py), its POST and GET handlers in the       *)
(* worker threads of the control plane, and what the operator console      *)
(* makes of a listing.  Registration takes no lock: one O_APPEND write is   *)
(* all that orders two of them, and a reader follows the file as it grows. *)
(***************************************************************************)
EXTENDS Naturals, Sequences, FiniteSets

CONSTANTS Worker,
          Cycle,          \* cycle keys: model, version, initialization, revision
          Origin,         \* guidance origins
          Field,          \* keys of indexed fields
          Inventory,      \* what clients register; declared are the fields on its grids
          Ask,            \* what clients list: the cycles of a model or all of them, one
                          \*   origin or any, up to a limit
          None,
          MaxCalls        \* bound on the calls of a behaviour

ASSUME InventoryAssumption ==
  Inventory \subseteq [cycle: Cycle, origin: Origin, expected: (SUBSET Field) \ {{}},
                        declared: SUBSET Field, available: Seq(Field)]
ASSUME AskAssumption ==
  Ask \subseteq [cycles: SUBSET Cycle, origins: SUBSET Origin, limit: Nat \ {0}]
ASSUME NoneAssumption == None \notin Inventory \union Ask
ASSUME BoundAssumption == MaxCalls \in Nat

VARIABLES file,           \* the writes that reached the file, in order
          call,
          acknowledged,   \* positions of the registrations answered 202
          calls           \* calls so far

vars == <<file, call, acknowledged, calls>>

\* at is the position of a registration's own line; latest and order are the
\* dict that a listing builds: the last line of each cycle, in the order of their
\* first; listing is what has been selected of it, up to the position chosen; known
\* is what had been acknowledged when the listing began.
NoCall == [step |-> "idle", inventory |-> None, at |-> 0, next |-> 0,
           latest |-> [c \in Cycle |-> 0], order |-> <<>>, ask |-> None,
           listing |-> <<>>, chosen |-> 0, known |-> {}, status |-> 0]

Init ==
  /\ file = <<>>
  /\ call = [w \in Worker |-> NoCall]
  /\ acknowledged = {}
  /\ calls = 0

-----------------------------------------------------------------------------
At(w, step) == call[w].step = step
Elements(s) == {s[i] : i \in DOMAIN s}

\* ModelGuidanceCycle.validate_inventory.
Valid(i) == Elements(i.available) \subseteq i.expected \intersect i.declared
Registrable == {i \in Inventory : Valid(i)}

Missing(i) == i.expected \ Elements(i.available)

Completeness(i) ==
  IF i.available = <<>> THEN "missing"
  ELSE IF Missing(i) # {} THEN "partial" ELSE "complete"

Summary(i) ==
  [cycle |-> i.cycle, completeness |-> Completeness(i),
   missing |-> Cardinality(Missing(i)), available |-> Len(i.available),
   expected |-> Cardinality(i.expected)]

\* adaptControlPlaneModelCycles rejects the whole listing for one summary that it
\* does not accept.
Adaptable(s) == s.expected >= s.available

-----------------------------------------------------------------------------
\* POST /v1/model-cycles.
Post(w, inventory) ==
  /\ At(w, "idle")
  /\ calls < MaxCalls
  /\ calls' = calls + 1
  /\ call' = [call EXCEPT ![w] = [NoCall EXCEPT !.inventory = inventory, !.step = "validate"]]
  /\ UNCHANGED <<file, acknowledged>>

MutValidateSkipped(w) ==
  /\ At(w, "validate")
  /\ call' = [call EXCEPT ![w] = [@ EXCEPT !.step = "append"]]
  /\ UNCHANGED <<file, acknowledged, calls>>
Validate(w) ==
  /\ At(w, "validate")
  /\ call' = [call EXCEPT ![w] = IF Valid(call[w].inventory) THEN [@ EXCEPT !.step = "append"]
                                 ELSE [@ EXCEPT !.step = "answer", !.status = 422]]
  /\ UNCHANGED <<file, acknowledged, calls>>

\* os.write may write only a part of the line, which goes unnoticed.
AppendLine(w) ==
  /\ At(w, "append")
  /\ \E whole \in BOOLEAN :
       file' = Append(file, [inventory |-> call[w].inventory, whole |-> whole])
  /\ call' = [call EXCEPT ![w] = [@ EXCEPT !.step = "sync", !.at = Len(file) + 1]]
  /\ UNCHANGED <<acknowledged, calls>>

Sync(w) ==
  /\ At(w, "sync")
  /\ call' = [call EXCEPT ![w] = [@ EXCEPT !.step = "answer", !.status = 202]]
  /\ UNCHANGED <<file, acknowledged, calls>>

-----------------------------------------------------------------------------
\* GET /v1/model-cycles: _latest_by_key reads the file to its end, then list selects.
Get(w, ask) ==
  /\ At(w, "idle")
  /\ calls < MaxCalls
  /\ calls' = calls + 1
  /\ call' = [call EXCEPT ![w] = [NoCall EXCEPT !.step = "read", !.next = 1, !.ask = ask,
                                                !.known = acknowledged]]
  /\ UNCHANGED <<file, acknowledged>>

MutEnterKeepsFirst(c, latest, n) == IF latest[c] = 0 THEN [latest EXCEPT ![c] = n] ELSE latest
Enter(c, latest, n) == [latest EXCEPT ![c] = n]

MutPositionMovesToEnd(c, order) == Append(SelectSeq(order, LAMBDA d : d # c), c)
Position(c, order) == IF c \in Elements(order) THEN order ELSE Append(order, c)

\* A line that does not parse fails the listing.
ReadLine(w) ==
  LET n == call[w].next
      c == file[n].inventory.cycle IN
  /\ At(w, "read")
  /\ n <= Len(file)
  /\ \/ /\ file[n].whole
        /\ call' = [call EXCEPT ![w] = [@ EXCEPT !.next = n + 1,
                                                 !.latest = Enter(c, call[w].latest, n),
                                                 !.order = Position(c, call[w].order)]]
     \/ /\ ~file[n].whole
        /\ call' = [call EXCEPT ![w] = [@ EXCEPT !.step = "answer", !.status = 500]]
  /\ UNCHANGED <<file, acknowledged, calls>>

EndOfFile(w) ==
  /\ At(w, "read")
  /\ call[w].next > Len(file)
  /\ call' = [call EXCEPT ![w] = [@ EXCEPT !.step = "select", !.chosen = 1]]
  /\ UNCHANGED <<file, acknowledged, calls>>

Entry(r, c) == file[r.latest[c]].inventory
Wants(ask, i) == i.cycle \in ask.cycles /\ i.origin \in ask.origins

\* The latest entry of the next cycle is listed if it is wanted, up to the limit.
Select(w) ==
  LET r == call[w]
      c == r.order[r.chosen]
      listing == IF Wants(r.ask, Entry(r, c)) THEN Append(r.listing, c) ELSE r.listing IN
  /\ At(w, "select")
  /\ r.chosen <= Len(r.order)
  /\ call' = [call EXCEPT ![w] =
       [@ EXCEPT !.listing = listing, !.chosen = r.chosen + 1,
                 !.step = IF Len(listing) >= r.ask.limit THEN "answer" ELSE "select",
                 !.status = IF Len(listing) >= r.ask.limit THEN 200 ELSE 0]]
  /\ UNCHANGED <<file, acknowledged, calls>>

EndOfCycles(w) ==
  /\ At(w, "select")
  /\ call[w].chosen > Len(call[w].order)
  /\ call' = [call EXCEPT ![w] = [@ EXCEPT !.step = "answer", !.status = 200]]
  /\ UNCHANGED <<file, acknowledged, calls>>

-----------------------------------------------------------------------------
Answer(w) ==
  /\ At(w, "answer")
  /\ acknowledged' = IF call[w].status = 202 THEN acknowledged \union {call[w].at}
                     ELSE acknowledged
  /\ call' = [call EXCEPT ![w] = NoCall]
  /\ UNCHANGED <<file, calls>>

\* The worker is killed, or the file system raises.
Fail(w) ==
  /\ ~At(w, "idle")
  /\ call' = [call EXCEPT ![w] = NoCall]
  /\ UNCHANGED <<file, acknowledged, calls>>

Next ==
  \E w \in Worker :
    \/ \E i \in Inventory : Post(w, i)
    \/ \E ask \in Ask : Get(w, ask)
    \/ Validate(w) \/ AppendLine(w) \/ Sync(w)
    \/ ReadLine(w) \/ EndOfFile(w) \/ Select(w) \/ EndOfCycles(w)
    \/ Answer(w) \/ Fail(w)

Spec == Init /\ [][Next]_vars

-----------------------------------------------------------------------------
Listing(w) == At(w, "answer") /\ call[w].status = 200
Shown(w) == {Entry(call[w], c) : c \in Elements(call[w].listing)}

\* Only what validate_inventory accepts is in the file.
TypeOK ==
  /\ file \in Seq([inventory: Registrable, whole: BOOLEAN])
  /\ call \in [Worker ->
       [step: {"idle", "validate", "append", "sync", "read", "select", "answer"},
        inventory: Inventory \union {None}, at: 0..Len(file), next: 0..Len(file) + 1,
        latest: [Cycle -> 0..Len(file)], order: Seq(Cycle), ask: Ask \union {None},
        listing: Seq(Cycle), chosen: Nat, known: SUBSET (1..Len(file)),
        status: {0, 200, 202, 422, 500}]]
  /\ acknowledged \subseteq 1..Len(file)
  /\ calls \in 0..MaxCalls

\* "Re-registering a cycle key appends a new entry; queries return the latest entry
\* per key": a listing that is answered judges and shows each cycle by a registration
\* no older than any that was acknowledged before the listing began, although it took
\* no lock and the file grew under it.  It holds no cycle that by this registration is
\* not wanted, and leaves one that is out only at its limit.
ListingIsCurrent ==
  \A w \in Worker : Listing(w) =>
    \A n \in call[w].known :
      LET c == file[n].inventory.cycle
          wanted == Wants(call[w].ask, Entry(call[w], c)) IN
      /\ call[w].latest[c] >= n
      /\ c \in Elements(call[w].listing) => wanted
      /\ wanted => c \in Elements(call[w].listing)
                     \/ Len(call[w].listing) = call[w].ask.limit

\* "updates in place": a registration that comes later, acknowledged or not, moves
\* no cycle in a listing, so what a limit cuts off are the cycles that came last.
UpdatesInPlace ==
  \A w \in Worker : Listing(w) =>
    \A i, j \in DOMAIN call[w].listing : i < j =>
      \E n \in DOMAIN file :
        /\ file[n].inventory.cycle = call[w].listing[i]
        /\ \A m \in 1..n : file[m].inventory.cycle # call[w].listing[j]

\* "Duplicate provider notifications and field arrivals MUST NOT inflate
\* completeness or create duplicate logical field identities": no summary counts
\* more available fields than are expected, which would also make the console
\* answer 502 for the whole listing.
CountsAreNotInflated ==
  \A w \in Worker : Listing(w) => \A i \in Shown(w) : Adaptable(Summary(i))
=============================================================================
