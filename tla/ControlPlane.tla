----------------------------- MODULE ControlPlane -----------------------------
(***************************************************************************)
(* weather_platform/api/main.py: the handlers that change the stores, each *)
(* in a worker of the thread pool, step by step.  A request without        *)
(* authorization, without a body, over the retention limit or of another   *)
(* shape is answered before it touches a store, and starts no call here.   *)
(***************************************************************************)
EXTENDS AcquisitionStores, Naturals

CONSTANTS Worker, Request

ASSUME RequestAssumption ==
  Request \subseteq [kind: {"record"}, body: Source]
             \union [kind: {"put"}, body: Source, digest: Source]
             \union [kind: {"observation"}, observation: Observation]

VARIABLE call

NoCall == [at |-> "idle", request |-> None, already |-> FALSE, status |-> 0]

HttpInit == call = [w \in Worker |-> NoCall]

At(w, step) == call[w].at = step
Body(w) == call[w].request.body
Kind(w) == call[w].request.kind
Goto(w, step) == call' = [call EXCEPT ![w].at = step]
Respond(w, code) == call' = [call EXCEPT ![w] = [@ EXCEPT !.at = "answer", !.status = code]]

\* Where each handler starts: _ingest_and_store, _verify_and_retain,
\* create_observation.
FirstStep == [record |-> "store", put |-> "digest", observation |-> "disposition"]

Accept(w, request) ==
  /\ At(w, "idle")
  /\ call' = [call EXCEPT ![w] = [NoCall EXCEPT !.at = FirstStep[request.kind],
                                                !.request = request]]
  /\ UNCHANGED stores

-----------------------------------------------------------------------------
\* PUT /v1/source-records/{digest}: the payload must have the digest of the path,
\* then the presence of the record is read before it is stored.
VerifyDigest(w) ==
  /\ At(w, "digest")
  /\ \/ Body(w) = call[w].request.digest /\ Goto(w, "exists")
     \/ Body(w) # call[w].request.digest /\ Respond(w, 422)
  /\ UNCHANGED stores

ReadPresence(w) ==
  /\ At(w, "exists")
  /\ call' = [call EXCEPT ![w] = [@ EXCEPT !.at = "store", !.already = Body(w) \in retained]]
  /\ UNCHANGED stores

\* raw_store.store, for both kinds of source record; a put is then answered 200
\* or 201, a record is decoded.
Stored(w) ==
  IF Kind(w) = "record" THEN Goto(w, "decode")
  ELSE Respond(w, IF call[w].already THEN 200 ELSE 201)

Retain(w) ==
  /\ At(w, "store")
  /\ \/ Existing(Body(w)) /\ Stored(w)
     \/ Publish(Body(w)) /\ Goto(w, "sync")
  /\ UNCHANGED <<ledger, interpreted>>

Sync(w) ==
  /\ At(w, "sync")
  /\ SyncRoot(Body(w))
  /\ Stored(w)
  /\ UNCHANGED <<ledger, interpreted>>

\* ingest_source_record: a record without an observation, or with a rejected
\* one, is answered 422 and stays retained.
MutDecodeAdmitsRejects(w) ==
  /\ At(w, "decode")
  /\ Interpret(Body(w))
  /\ IF Claimed[Body(w)] = Undecodable THEN Respond(w, 422) ELSE Goto(w, "admit")
  /\ UNCHANGED <<archive, ledger>>
Decode(w) ==
  /\ At(w, "decode")
  /\ Interpret(Body(w))
  /\ \/ Claimed[Body(w)] = Undecodable /\ Respond(w, 422)
     \/ /\ Claimed[Body(w)] # Undecodable
        /\ \/ Claimed[Body(w)].quality = "reject" /\ Respond(w, 422)
           \/ Claimed[Body(w)].quality # "reject" /\ Goto(w, "admit")
  /\ UNCHANGED <<archive, ledger>>

-----------------------------------------------------------------------------
\* POST /v1/observations: not rejected, and its source retained (exists and
\* retrieve are one step: nothing between them can remove a record and let the
\* handler go on).
RefuseRejected(w) ==
  /\ At(w, "disposition")
  /\ \/ call[w].request.observation.quality = "reject" /\ Respond(w, 422)
     \/ call[w].request.observation.quality # "reject" /\ Goto(w, "source")
  /\ UNCHANGED stores

MutRequireRetainedSourceSkipped(w) ==
  /\ At(w, "source")
  /\ Goto(w, "admit")
  /\ UNCHANGED stores
RequireRetainedSource(w) ==
  LET s == call[w].request.observation.source IN
  /\ At(w, "source")
  /\ \/ s \in retained /\ Goto(w, "admit")
     \/ s \notin retained /\ Respond(w, 422)
  /\ UNCHANGED stores

-----------------------------------------------------------------------------
Asserted(w) ==
  IF Kind(w) = "record" THEN Decoded(Body(w)) ELSE call[w].request.observation

\* _with_platform_verification: what comes over HTTP never carries the label
\* "upstream", whatever it asserts.
MutRelabelKeepsClaim(o) == o
Relabel(o) == [o EXCEPT !.label = "platform"]

Admit(w) ==
  LET o == Relabel(Asserted(w)) IN
  /\ At(w, "admit")
  /\ \/ InConflict(o) /\ Respond(w, 409) /\ UNCHANGED ledger
     \/ ~InConflict(o) /\ Respond(w, 202) /\ ledger' = Admitted(o)
  /\ UNCHANGED <<archive, interpreted>>

Answer(w) ==
  /\ At(w, "answer")
  /\ call' = [call EXCEPT ![w] = NoCall]
  /\ UNCHANGED stores

\* A store raises (a full disk, a damaged record), which is answered 500, or the
\* worker is killed.
Fail(w) ==
  /\ ~At(w, "idle")
  /\ call' = [call EXCEPT ![w] = NoCall]
  /\ UNCHANGED stores

HttpStep(w) ==
  \/ VerifyDigest(w) \/ ReadPresence(w) \/ Retain(w) \/ Sync(w) \/ Decode(w)
  \/ RefuseRejected(w) \/ RequireRetainedSource(w) \/ Admit(w) \/ Answer(w)
  \/ Fail(w)

Step == {"idle", "digest", "exists", "store", "sync", "decode", "disposition",
         "source", "admit", "answer"}
Status == {0, 200, 201, 202, 409, 422}
Call == [at: Step, request: Request \union {None}, already: BOOLEAN, status: Status]
HttpTypeOK == call \in [Worker -> Call]
=============================================================================
