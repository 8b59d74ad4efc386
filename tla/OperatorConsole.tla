--------------------------- MODULE OperatorConsole ----------------------------
(***************************************************************************)
(* apps/operator-console: the routes that retain a source record and admit *)
(* an observation, each await a step.  With a control plane configured     *)
(* they relay to it and keep only an audit trail; in local development     *)
(* they use an object bucket (R2) and three tables (D1) of their own.      *)
(* A request without an operator, over the size limit or of another shape  *)
(* is answered before any of this and starts no call here.                 *)
(***************************************************************************)
EXTENDS Naturals

CONSTANTS Handler,       \* requests in progress at once
          Actor,         \* authenticated operators
          Digest,        \* source records: a payload stands for its digest
          Position,      \* a decoder version and record index
          Content,       \* every other field of a normalized observation
          Request,       \* what operators may send
          None,
          MaxRequests    \* bound on the requests of a behaviour

Mode == {"remote-authoritative", "local-development", "misconfigured"}
Observation == [source: Digest, position: Position, content: Content]

\* "v1" is the public route, "internal" the local one addressed directly.
ASSUME RequestAssumption ==
  Request \subseteq [kind: {"record"}, route: {"v1", "internal"}, actor: Actor, digest: Digest]
             \union [kind: {"observation"}, route: {"v1", "internal"}, actor: Actor,
                     observation: Observation]
ASSUME NoneAssumption == None \notin Request
ASSUME BoundAssumption == MaxRequests \in Nat

VARIABLES mode,
          bucket,          \* R2: digests with an object
          sourceRecords,   \* D1: digests with a row
          observations,    \* D1
          auditEvents,     \* D1
          retained,        \* the control plane's raw source store
          ledger,          \* the control plane's canonical observations
          call,
          requests,        \* requests accepted so far
          answers          \* history: the answers that operators received

local == <<bucket, sourceRecords, observations>>
remote == <<retained, ledger>>
vars == <<mode, local, auditEvents, remote, call, requests, answers>>

NoCall == [at |-> "idle", request |-> None, assured |-> FALSE,
           status |-> 0, fresh |-> FALSE, unaudited |-> FALSE]

Init ==
  /\ mode \in Mode
  /\ bucket = {} /\ sourceRecords = {} /\ observations = {} /\ auditEvents = {}
  /\ retained = {} /\ ledger = {}
  /\ call = [h \in Handler |-> NoCall]
  /\ requests = 0
  /\ answers = {}

-----------------------------------------------------------------------------
At(h, step) == call[h].at = step
Req(h) == call[h].request
Local == mode = "local-development"
Success == {200, 201, 202}

\* deterministicObservationId: a function of the source and the position in it.
MutObservationIdOfSource(o) == <<o.source>>
ObservationId(o) == <<o.source, o.position>>
Conflicts(rows, o) == \E r \in rows : ObservationId(r) = ObservationId(o) /\ r # o
Store(rows, o) ==
  IF \E r \in rows : ObservationId(r) = ObservationId(o) THEN rows ELSE rows \union {o}

Resource(request) ==
  IF request.kind = "record" THEN request.digest ELSE ObservationId(request.observation)

Goto(h, step) == call' = [call EXCEPT ![h] = [@ EXCEPT !.at = step]]
Respond(h, code) == call' = [call EXCEPT ![h] = [@ EXCEPT !.at = "answer", !.status = code]]

\* The source of an observation was acknowledged before its request.
Assured(request) ==
  request.kind = "observation" /\
    \E a \in answers : /\ a.request.kind = "record" /\ a.status \in Success
                       /\ a.request.digest = request.observation.source

\* controlPlaneMode decides between the local handlers and the proxy; misconfigured, no
\* route does anything, and the internal routes exist in local development only.
MutFirstStepUnguarded(request) ==
  IF Local \/ request.route = "internal" THEN
    IF request.kind = "record" THEN "put" ELSE "lookup"
  ELSE IF mode = "misconfigured" THEN "refuse"
  ELSE IF request.kind = "record" THEN "presence" ELSE "post"
FirstStep(request) ==
  IF Local THEN IF request.kind = "record" THEN "put" ELSE "lookup"
  ELSE IF mode = "misconfigured" \/ request.route = "internal" THEN "refuse"
  ELSE IF request.kind = "record" THEN "presence" ELSE "post"

Accept(h, request) ==
  /\ At(h, "idle")
  /\ requests < MaxRequests
  /\ requests' = requests + 1
  /\ call' = [call EXCEPT ![h] = [NoCall EXCEPT !.at = FirstStep(request),
                                                !.request = request,
                                                !.assured = Assured(request)]]
  /\ UNCHANGED <<mode, local, remote, auditEvents, answers>>

Refuse(h) ==
  /\ At(h, "refuse")
  /\ Respond(h, 503)
  /\ UNCHANGED <<mode, local, remote, auditEvents, requests, answers>>

-----------------------------------------------------------------------------
\* api/source-records, local development: the object, then its row, then the audit.
MutPutObjectOnce(h) ==
  /\ At(h, "put")
  /\ bucket' = bucket \union {Req(h).digest}
  /\ IF Req(h).digest \in bucket
     THEN call' = [call EXCEPT ![h] = [@ EXCEPT !.at = "audit", !.status = 200]]
     ELSE Goto(h, "insert record")
  /\ UNCHANGED <<mode, sourceRecords, observations, remote, auditEvents, requests, answers>>
PutObject(h) ==
  /\ At(h, "put")
  /\ bucket' = bucket \union {Req(h).digest}
  /\ Goto(h, "insert record")
  /\ UNCHANGED <<mode, sourceRecords, observations, remote, auditEvents, requests, answers>>

\* ON CONFLICT DO NOTHING ... RETURNING: one of several concurrent inserts is told
\* that the row is its own.
InsertRecord(h) ==
  LET d == Req(h).digest IN
  /\ At(h, "insert record")
  /\ sourceRecords' = sourceRecords \union {d}
  /\ call' = [call EXCEPT ![h] = [@ EXCEPT !.at = "audit",
                                           !.status = IF d \in sourceRecords THEN 200 ELSE 201]]
  /\ UNCHANGED <<mode, bucket, observations, remote, auditEvents, requests, answers>>

\* api/observations, local development.
MutLookupSourceInBucket(h) ==
  /\ At(h, "lookup")
  /\ IF Req(h).observation.source \in bucket THEN Goto(h, "insert observation") ELSE Respond(h, 422)
  /\ UNCHANGED <<mode, local, remote, auditEvents, requests, answers>>
LookupSource(h) ==
  /\ At(h, "lookup")
  /\ \/ Req(h).observation.source \in sourceRecords /\ Goto(h, "insert observation")
     \/ Req(h).observation.source \notin sourceRecords /\ Respond(h, 422)
  /\ UNCHANGED <<mode, local, remote, auditEvents, requests, answers>>

InsertObservation(h) ==
  LET o == Req(h).observation
      inserted == Store(observations, o)
      fresh == inserted # observations IN
  /\ At(h, "insert observation")
  /\ observations' = inserted
  /\ call' = [call EXCEPT ![h] = [@ EXCEPT !.at = IF fresh THEN "audit" ELSE "compare",
                                           !.status = IF fresh THEN 202 ELSE 200]]
  /\ UNCHANGED <<mode, bucket, sourceRecords, remote, auditEvents, requests, answers>>

\* The existing row's content digest is read and compared.
MutCompareSkipped(h) ==
  /\ At(h, "compare")
  /\ Goto(h, "audit")
  /\ UNCHANGED <<mode, local, remote, auditEvents, requests, answers>>
CompareExisting(h) ==
  /\ At(h, "compare")
  /\ \/ Conflicts(observations, Req(h).observation) /\ Respond(h, 409)
     \/ ~Conflicts(observations, Req(h).observation) /\ Goto(h, "audit")
  /\ UNCHANGED <<mode, local, remote, auditEvents, requests, answers>>

-----------------------------------------------------------------------------
\* The proxy's PUT of a source record: the control plane reads its presence, then
\* stores it.
UpstreamPresence(h) ==
  /\ At(h, "presence")
  /\ call' = [call EXCEPT ![h] = [@ EXCEPT !.at = "store",
                                           !.fresh = Req(h).digest \notin retained]]
  /\ UNCHANGED <<mode, local, remote, auditEvents, requests, answers>>

UpstreamStore(h) ==
  /\ At(h, "store")
  /\ retained' = retained \union {Req(h).digest}
  /\ call' = [call EXCEPT ![h] = [@ EXCEPT !.at = "reply",
                                           !.status = IF call[h].fresh THEN 201 ELSE 200]]
  /\ UNCHANGED <<mode, local, ledger, auditEvents, requests, answers>>

\* The proxy's POST of an observation.
UpstreamPost(h) ==
  LET o == Req(h).observation
      refused(code) == /\ call' = [call EXCEPT ![h] = [@ EXCEPT !.at = "reply", !.status = code]]
                       /\ UNCHANGED ledger IN
  /\ At(h, "post")
  /\ \/ o.source \notin retained /\ refused(422)
     \/ o.source \in retained /\ Conflicts(ledger, o) /\ refused(409)
     \/ /\ o.source \in retained /\ ~Conflicts(ledger, o)
        /\ ledger' = Store(ledger, o)
        /\ call' = [call EXCEPT ![h] = [@ EXCEPT !.at = "reply", !.status = 202]]
  /\ UNCHANGED <<mode, local, retained, auditEvents, requests, answers>>

\* What the control plane did not accept is passed on as it is.
MutRelayAuditsEverything(h) ==
  /\ At(h, "reply")
  /\ Goto(h, "audit")
  /\ UNCHANGED <<mode, local, remote, auditEvents, requests, answers>>
Relay(h) ==
  /\ At(h, "reply")
  /\ IF call[h].status \in Success THEN Goto(h, "audit") ELSE Goto(h, "answer")
  /\ UNCHANGED <<mode, local, remote, auditEvents, requests, answers>>

-----------------------------------------------------------------------------
Event(request) ==
  [actor |-> request.actor, action |-> request.kind, resource |-> Resource(request)]

\* auditEventValues: the event's id is a hash of these.
MutAuditIdIgnoresActor(e) == <<e.action, e.resource>>
AuditId(e) == <<e.actor, e.action, e.resource>>

RecordAudit(h) ==
  LET e == Event(Req(h)) IN
  /\ At(h, "audit")
  /\ auditEvents' = IF \E r \in auditEvents : AuditId(r) = AuditId(e)
                    THEN auditEvents ELSE auditEvents \union {e}
  /\ Goto(h, "answer")
  /\ UNCHANGED <<mode, local, remote, requests, answers>>

\* bestEffortAudit: towards the control plane a failed audit only marks the answer.
AuditFails(h) ==
  /\ At(h, "audit") /\ ~Local
  /\ call' = [call EXCEPT ![h] = [@ EXCEPT !.at = "answer", !.unaudited = TRUE]]
  /\ UNCHANGED <<mode, local, remote, auditEvents, requests, answers>>

Answer(h) ==
  /\ At(h, "answer")
  /\ answers' = answers \union {[request |-> Req(h), status |-> call[h].status,
                                 unaudited |-> call[h].unaudited]}
  /\ call' = [call EXCEPT ![h] = NoCall]
  /\ UNCHANGED <<mode, local, remote, auditEvents, requests>>

\* A binding or the connection to the control plane throws, before or after the
\* other side did its part: the call is answered 500.
Fail(h) ==
  /\ ~At(h, "idle") /\ ~At(h, "refuse") /\ ~At(h, "answer")
  /\ Local \/ ~At(h, "audit")
  /\ Respond(h, 500)
  /\ UNCHANGED <<mode, local, remote, auditEvents, requests, answers>>

\* The isolate is stopped: no answer.
Crash(h) ==
  /\ ~At(h, "idle")
  /\ call' = [call EXCEPT ![h] = NoCall]
  /\ UNCHANGED <<mode, local, remote, auditEvents, requests, answers>>

Next ==
  \E h \in Handler :
    \/ \E request \in Request : Accept(h, request)
    \/ Refuse(h)
    \/ PutObject(h) \/ InsertRecord(h)
    \/ LookupSource(h) \/ InsertObservation(h) \/ CompareExisting(h)
    \/ UpstreamPresence(h) \/ UpstreamStore(h) \/ UpstreamPost(h) \/ Relay(h)
    \/ RecordAudit(h) \/ AuditFails(h)
    \/ Answer(h) \/ Fail(h) \/ Crash(h)

Spec == Init /\ [][Next]_vars

-----------------------------------------------------------------------------
Step == {"idle", "refuse", "put", "insert record", "lookup", "insert observation", "compare",
         "presence", "store", "post", "reply", "audit", "answer"}
Status == {0, 200, 201, 202, 409, 422, 500, 503}
ResourceId == Digest \union (Digest \X Position)
AuditEvent == [actor: Actor, action: {"record", "observation"}, resource: ResourceId]
Call == [at: Step, request: Request \union {None}, assured: BOOLEAN,
         status: Status, fresh: BOOLEAN, unaudited: BOOLEAN]

TypeOK ==
  /\ mode \in Mode
  /\ bucket \subseteq Digest /\ sourceRecords \subseteq Digest /\ retained \subseteq Digest
  /\ observations \subseteq Observation /\ ledger \subseteq Observation
  /\ auditEvents \subseteq AuditEvent
  /\ call \in [Handler -> Call]
  /\ requests \in 0..MaxRequests
  /\ answers \subseteq [request: Request, status: Status, unaudited: BOOLEAN]

Records == IF Local THEN sourceRecords ELSE retained
Canonical == IF Local THEN observations ELSE ledger

\* "it must not become a second source of meteorological truth": with a control
\* plane configured, and without a configuration, no request by any route writes the
\* local stores.
OneSourceOfTruth == ~Local => bucket = {} /\ sourceRecords = {} /\ observations = {}

\* Wherever a call stopped: a row of the catalog has its object, an observation
\* the row of its source.
RowsHaveObjects ==
  /\ sourceRecords \subseteq bucket
  /\ \A o \in observations : o.source \in sourceRecords

\* An operator who was told that a mutation succeeded, without the audit-failed
\* header, is named for it in the audit trail: the operator, even if a colleague
\* did the same before.
SuccessIsAudited ==
  \A a \in answers : a.status \in Success /\ ~a.unaudited => Event(a.request) \in auditEvents

\* Nothing is in the audit trail that is not in the store that counts.
AuditIsTruthful ==
  \A e \in auditEvents :
    IF e.action = "record" THEN e.resource \in Records
    ELSE \E o \in Canonical : ObservationId(o) = e.resource

\* A success means that exactly the record or observation sent is in the store that
\* counts, a conflict that another one is, for good.
AnswersAreTrue ==
  \A a \in answers :
    IF a.request.kind = "record" THEN a.status \in Success => a.request.digest \in Records
    ELSE /\ a.status \in Success => a.request.observation \in Canonical
         /\ a.status = 409 => Conflicts(Canonical, a.request.observation)

\* "The mutation sequence is explicit: POST /api/v1/source-records retains the
\* bounded raw bytes by digest, then POST /api/v1/observations": after the first was
\* acknowledged, to anyone and after any failed attempts, the second is not refused
\* for want of its source.
SequenceIsHonoured ==
  \A h \in Handler : call[h].assured => call[h].status # 422
=============================================================================
