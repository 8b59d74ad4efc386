-------------------------- MODULE ObservationQueries --------------------------
(***************************************************************************)
(* Queries over canonical observations while rows enter.  With a control   *)
(* plane (api/main.py, api/edr.py, JsonlObservationStore.list) a query      *)
(* streams the file in the order of entry up to its limit.  In local       *)
(* development (the console's edr and observations routes) it asks its      *)
(* table for batches by offset, newest first, and drops what the box       *)
(* around the position holds beyond the radius.                            *)
(***************************************************************************)
EXTENDS CanonicalRows

CONSTANTS Query,       \* queries in progress at once
          Request,     \* [kind, phenomena, quarantine, from, to, limit]
          NoRequest,
          BatchSize,   \* rows of a batch of the edr route
          ListLimit    \* rows of a list in local development

ASSUME RequestAssumption ==
  /\ Request \subseteq [kind: {"list", "position"}, phenomena: (SUBSET Phenomenon) \ {{}},
                        quarantine: BOOLEAN, from: Time, to: Time, limit: Nat \ {0}]
  /\ NoRequest \notin Request
ASSUME SizeAssumption == BatchSize \in Nat \ {0} /\ ListLimit \in Nat \ {0}

VARIABLES mode,
          query   \* at; request; next, the row or offset to go on from; answer, row
                  \*   numbers; start, how many rows there were when it began

Idle == [at |-> "idle", request |-> NoRequest, next |-> 0, answer |-> <<>>, start |-> 0]

QueriesInit ==
  /\ mode \in {"remote-authoritative", "local-development"}
  /\ query = [q \in Query |-> Idle]

-----------------------------------------------------------------------------
At(q, step) == query[q].at = step
Local == mode = "local-development"

\* What both sides select by: quarantine, phenomenon, and for a position the interval,
\* both ends included.
AskedFor(r, request) ==
  /\ request.quarantine \/ ~r.quarantined
  /\ r.phenomenon \in request.phenomena
  /\ request.kind = "position" => r.observed \in request.from..request.to

WithinRadius(r, request) == request.kind = "position" => r.place = "near"
InBox(r, request) == request.kind = "position" => r.place # "far"
Matches(i, request) == AskedFor(rows[i], request) /\ WithinRadius(rows[i], request)

Limit(request) == IF Local /\ request.kind = "list" THEN ListLimit ELSE request.limit

\* The order of a batch; rows of one time come as the index on it is read, backwards.
Newer(i, j) ==
  rows[i].observed > rows[j].observed \/ (rows[i].observed = rows[j].observed /\ i > j)

InOrder(S) ==
  CHOOSE s \in [1..Cardinality(S) -> S] : \A m, n \in DOMAIN s : m < n => Newer(s[m], s[n])

\* The rows that the SQL conditions select, in that order.
Selected(request) ==
  {i \in DOMAIN rows : AskedFor(rows[i], request) /\ InBox(rows[i], request)}
Ordered(request) == InOrder(Selected(request))

FirstOf(s, n) == SubSeq(s, 1, Min({n, Len(s)}))

Begin(q, request) ==
  /\ At(q, "idle")
  /\ query' = [query EXCEPT ![q] =
       [at |-> "reading", request |-> request, next |-> IF Local THEN 0 ELSE 1,
        answer |-> <<>>, start |-> Len(rows)]]
  /\ UNCHANGED mode

\* One line of the file; the query ends at its limit or at the end of the file.
ReadRow(q) ==
  LET i == query[q].next
      request == query[q].request
      answer == IF i \in DOMAIN rows /\ Matches(i, request) THEN Append(query[q].answer, i)
                                                            ELSE query[q].answer IN
  /\ At(q, "reading")
  /\ ~Local
  /\ query' = [query EXCEPT
       ![q].answer = answer, ![q].next = i + 1,
       ![q].at = IF i > Len(rows) \/ Len(answer) >= Limit(request) THEN "done" ELSE @]
  /\ UNCHANGED mode

\* Where the next batch starts.
MutNextOffsetCountsFeatures(offset, batch, found) == offset + Len(found)
NextOffset(offset, batch, found) == offset + Len(batch)

FetchBatch(q) ==
  LET request == query[q].request
      size == IF request.kind = "list" THEN ListLimit ELSE BatchSize
      offset == query[q].next
      all == Ordered(request)
      batch == SubSeq(all, offset + 1, Min({offset + size, Len(all)}))
      found == InOrder({i \in Range(batch) : WithinRadius(rows[i], request)})
      answer == FirstOf(query[q].answer \o found, Limit(request)) IN
  /\ At(q, "reading")
  /\ Local
  /\ query' = [query EXCEPT
       ![q].answer = answer, ![q].next = NextOffset(offset, batch, found),
       ![q].at = IF \/ request.kind = "list" \/ Len(batch) < size
                    \/ Len(answer) >= Limit(request) THEN "done" ELSE @]
  /\ UNCHANGED mode

\* The store, the worker or the network gives up.
Fail(q) ==
  /\ At(q, "reading")
  /\ query' = [query EXCEPT ![q].at = "failed"]
  /\ UNCHANGED mode

QueryStep(q) == ReadRow(q) \/ FetchBatch(q) \/ Fail(q)

\* The client has its answer.
Return(q) ==
  /\ query[q].at \in {"done", "failed"}
  /\ query' = [query EXCEPT ![q] = Idle]
  /\ UNCHANGED mode

-----------------------------------------------------------------------------
QueriesTypeOK ==
  /\ mode \in {"remote-authoritative", "local-development"}
  /\ query \in [Query -> [at: {"idle", "reading", "done", "failed"},
                          request: Request \union {NoRequest}, next: Nat,
                          answer: Seq(DOMAIN rows), start: 0..Len(rows)]]
  /\ \A q \in Query : At(q, "idle") <=> query[q].request = NoRequest

\* An answer holds rows that match and no others, quarantined ones on request only.
\* Every matching row that was there when the query began is in it, unless the answer is
\* full: then what the limit cuts off is the rows that came last upstream, and
\* the oldest ones locally.  A row is in it twice only if a newer one has entered
\* since and moved it to the next batch.
AnswersAreExact ==
  \A q \in Query : At(q, "done") =>
    LET answer == query[q].answer
        request == query[q].request
        After(i) == {j \in DOMAIN rows : j > query[q].start /\ Newer(j, i)} IN
    /\ Len(answer) <= Limit(request)
    /\ \A i \in Range(answer) :
         Matches(i, request) /\ (rows[i].quarantined => request.quarantine)
    /\ \A i \in 1..query[q].start : Matches(i, request) /\ i \notin Range(answer) =>
         /\ Len(answer) = Limit(request)
         /\ \A j \in Range(answer) : IF Local THEN Newer(j, i) ELSE j < i
    /\ \A m, n \in DOMAIN answer : m < n /\ answer[m] = answer[n] =>
         Local /\ After(answer[m]) # {}
=============================================================================
