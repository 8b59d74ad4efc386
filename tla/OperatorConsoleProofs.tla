------------------------ MODULE OperatorConsoleProofs -------------------------
(***************************************************************************)
(* The operator console keeps its type, is no second source of truth       *)
(* beside a control plane, keeps objects behind rows, answers and audits   *)
(* truly, and honours the sequence of its mutations, for any handlers,     *)
(* operators, requests and stops.                                          *)
(***************************************************************************)
EXTENDS OperatorConsole, TLAPS

\* What a request asks for is in the store that counts, or another observation is.
Done(r) ==
  IF r.kind = "record" THEN r.digest \in Records ELSE r.observation \in Canonical
Clashes(r) == r.kind = "observation" /\ Conflicts(Canonical, r.observation)

LocalSteps == {"put", "insert record", "lookup", "insert observation", "compare"}
RemoteSteps == {"refuse", "presence", "store", "post", "reply"}
RecordSteps == {"put", "insert record", "presence", "store"}
ObservationSteps == {"lookup", "insert observation", "compare", "post"}

\* A call is where its mode and its kind take it.
OnItsPath(h) ==
  /\ ~At(h, "idle") => Req(h) \in Request
  /\ call[h].at \in LocalSteps => Local
  /\ call[h].at \in RemoteSteps => ~Local
  /\ call[h].at \in RecordSteps => Req(h).kind = "record"
  /\ call[h].at \in ObservationSteps => Req(h).kind = "observation"

\* What a call has found or done by now.
HasFound(h) ==
  /\ At(h, "insert record") => Req(h).digest \in bucket
  /\ call[h].at \in {"insert observation", "compare"} =>
       Req(h).observation.source \in sourceRecords
  /\ At(h, "compare") =>
       \E r \in observations : ObservationId(r) = ObservationId(Req(h).observation)

\* What the status of a call says is true.
StatusIsTrue(h) ==
  /\ call[h].at \in {"compare", "audit"} => call[h].status \in Success
  /\ call[h].at \in {"reply", "audit", "answer"} /\ call[h].status \in Success => Done(Req(h))
  /\ call[h].at \in {"reply", "answer"} /\ call[h].status = 409 => Clashes(Req(h))
  /\ At(h, "answer") /\ call[h].status \in Success /\ ~call[h].unaudited =>
       Event(Req(h)) \in auditEvents

\* The source of an assured observation is there, so the call is not refused for it.
IsAssured(h) ==
  call[h].assured =>
    /\ Req(h).kind = "observation"
    /\ Req(h).observation.source \in Records
    /\ call[h].status # 422

Knows(h) == OnItsPath(h) /\ HasFound(h) /\ StatusIsTrue(h) /\ IsAssured(h)

StoresAreSound == OneSourceOfTruth /\ RowsHaveObjects /\ AuditIsTruthful
AnswersAreSound == AnswersAreTrue /\ SuccessIsAudited

IInv ==
  /\ TypeOK
  /\ StoresAreSound
  /\ AnswersAreSound
  /\ \A h \in Handler : Knows(h)

-----------------------------------------------------------------------------
LEMMA RequestFields ==
  ASSUME NEW r \in Request
  PROVE  /\ r.kind \in {"record", "observation"}
         /\ r.actor \in Actor
         /\ r.kind = "record" => r.digest \in Digest
         /\ r.kind = "observation" => r.observation \in Observation
         /\ r # None
BY RequestAssumption, NoneAssumption

LEMMA ResourceType ==
  ASSUME NEW r \in Request
  PROVE  Resource(r) \in ResourceId /\ Event(r) \in AuditEvent
<1>1. CASE r.kind = "record"
  BY <1>1, RequestFields DEF Resource, ResourceId, Event, AuditEvent
<1>2. CASE r.kind = "observation"
  BY <1>2, RequestFields DEF Resource, ResourceId, Event, AuditEvent, ObservationId, Observation
<1> QED  BY <1>1, <1>2, RequestFields

\* The stores, the audit trail and the answers only grow; a step is one handler's.
Growth ==
  /\ mode' = mode
  /\ bucket \subseteq bucket' /\ sourceRecords \subseteq sourceRecords'
  /\ observations \subseteq observations' /\ retained \subseteq retained'
  /\ ledger \subseteq ledger' /\ auditEvents \subseteq auditEvents'
StepOf(h) == \A g \in Handler \ {h} : call'[g] = call[g]

\* What a call knows stays true whatever another does.
LEMMA GrowthKeeps ==
  ASSUME Growth, NEW g \in Handler, call'[g] = call[g], Knows(g)
  PROVE  Knows(g)'
<1>1. Local' = Local /\ Records \subseteq Records' /\ Canonical \subseteq Canonical'
  BY DEF Growth, Local, Records, Canonical
<1>2. OnItsPath(g)'
  BY <1>1 DEF Knows, OnItsPath, At, Req
<1>3. HasFound(g)'
  BY DEF Growth, Knows, HasFound, At, Req
<1>4. Done(Req(g)) => Done(Req(g))'
  BY <1>1 DEF Done, Req
<1>5. Clashes(Req(g)) => Clashes(Req(g))'
  BY <1>1 DEF Clashes, Conflicts, Req
<1>6. StatusIsTrue(g)'
  BY <1>4, <1>5 DEF Growth, Knows, StatusIsTrue, At, Req, Event
<1>7. IsAssured(g)'
  BY <1>1 DEF Knows, IsAssured, Req
<1> QED  BY <1>2, <1>3, <1>6, <1>7 DEF Knows

\* A handler's call goes on to a step with a status; nothing else of it that matters
\* changes.
GoesTo(h, at, status) ==
  /\ call' \in [Handler -> Call] /\ StepOf(h)
  /\ call'[h].at = at /\ call'[h].status = status
  /\ call'[h].request = call[h].request /\ call'[h].assured = call[h].assured
  /\ call'[h].unaudited = call[h].unaudited

LEMMA NoCallType == NoCall \in Call /\ NoCall.at = "idle" /\ ~NoCall.assured
<1>1. 0 \in Status /\ "idle" \in Step  BY DEF Status, Step
<1> QED  BY <1>1 DEF NoCall, Call

LEMMA GotoCall ==
  ASSUME TypeOK, NEW h \in Handler, NEW step \in Step, Goto(h, step)
  PROVE  GoesTo(h, step, call[h].status)
BY DEF TypeOK, Goto, GoesTo, StepOf, Call

\* How the handlers go on with a status.
Reaches(h, step, code) == call' = [call EXCEPT ![h] = [@ EXCEPT !.at = step, !.status = code]]

LEMMA StatusCall ==
  ASSUME TypeOK, NEW h \in Handler, NEW step \in Step, NEW code \in Status,
         Reaches(h, step, code)
  PROVE  GoesTo(h, step, code)
BY DEF TypeOK, Reaches, GoesTo, StepOf, Call

LEMMA RespondCall ==
  ASSUME TypeOK, NEW h \in Handler, NEW code \in Status, Respond(h, code)
  PROVE  GoesTo(h, "answer", code)
<1>1. "answer" \in Step  BY DEF Step
<1>2. Reaches(h, "answer", code)
  BY DEF Respond, Reaches
<1> QED  BY <1>1, <1>2, StatusCall

\* A step that touches no store.
LEMMA QuietStep ==
  ASSUME StoresAreSound, UNCHANGED <<mode, local, remote, auditEvents>>
  PROVE  /\ Growth /\ StoresAreSound'
         /\ Local' = Local /\ Records' = Records /\ Canonical' = Canonical
<1>1. Growth /\ Local' = Local /\ Records' = Records /\ Canonical' = Canonical
  BY DEF Growth, local, remote, Local, Records, Canonical
<1>2. StoresAreSound'
  BY <1>1 DEF StoresAreSound, OneSourceOfTruth, RowsHaveObjects, AuditIsTruthful, local
<1> QED  BY <1>1, <1>2

-----------------------------------------------------------------------------
\* The steps of a handler, one lemma each.

LEMMA QuietCall ==
  ASSUME IInv, NEW h \in Handler, call' \in [Handler -> Call],
         UNCHANGED <<mode, local, remote, auditEvents, requests, answers>>
  PROVE  /\ TypeOK' /\ Growth /\ StoresAreSound'
         /\ Local' = Local /\ Records' = Records /\ Canonical' = Canonical
<1>1. TypeOK /\ StoresAreSound
  BY DEF IInv
<1>3. TypeOK'
  BY <1>1 DEF TypeOK, local, remote
<1> QED  BY <1>1, <1>3, QuietStep

\* The steps of a handler, one lemma each.
Sound(h) == TypeOK' /\ Growth /\ StepOf(h) /\ Knows(h)' /\ StoresAreSound'

LEMMA AcceptStep ==
  ASSUME IInv, NEW h \in Handler, NEW request \in Request, Accept(h, request)
  PROVE  Sound(h)
<1>1. TypeOK /\ StoresAreSound /\ AnswersAreTrue
  BY DEF IInv, AnswersAreSound
<1>2. FirstStep(request) \in Step /\ Assured(request) \in BOOLEAN
  BY DEF FirstStep, Step, Assured
<1>3. /\ call' \in [Handler -> Call] /\ StepOf(h)
      /\ call'[h].at = FirstStep(request) /\ call'[h].request = request
      /\ call'[h].assured = Assured(request) /\ call'[h].status = 0
  <2>1. 0 \in Status  BY DEF Status
  <2>2. NoCall.status = 0  BY DEF NoCall
  <2>3. call' = [call EXCEPT ![h] = [NoCall EXCEPT !.at = FirstStep(request),
                                       !.request = request, !.assured = Assured(request)]]
    BY DEF Accept
  <2> HIDE DEF NoCall
  <2> QED  BY <1>1, <1>2, <2>1, <2>2, <2>3, NoCallType DEF TypeOK, Call, StepOf
<1>4. /\ Growth /\ StoresAreSound'
      /\ Local' = Local /\ Records' = Records /\ Canonical' = Canonical
  BY <1>1, QuietStep DEF Accept
<1>5. TypeOK'
  BY <1>1, <1>3, BoundAssumption DEF TypeOK, Accept, local, remote
<1>6. request.kind \in {"record", "observation"}
  BY RequestFields
<1>7. OnItsPath(h)'
  BY <1>3, <1>4, <1>6 DEF OnItsPath, At, Req, FirstStep, LocalSteps, RemoteSteps,
     RecordSteps, ObservationSteps
<1>8. HasFound(h)' /\ StatusIsTrue(h)'
  BY <1>3 DEF HasFound, StatusIsTrue, At, FirstStep, Success
<1>9. Assured(request) => request.kind = "observation" /\ request.observation.source \in Records
  BY <1>1 DEF Assured, AnswersAreTrue
<1>10. IsAssured(h)'
  BY <1>3, <1>4, <1>9 DEF IsAssured, Req
<1> QED  BY <1>3, <1>4, <1>5, <1>7, <1>8, <1>10 DEF Knows, Sound

\* What a call knows at its next step, where that does not depend on the action.
LEMMA EndsOnItsPath ==
  ASSUME NEW h \in Handler, OnItsPath(h), ~At(h, "idle"),
         NEW at \in {"audit", "answer"}, NEW status, GoesTo(h, at, status)
  PROVE  OnItsPath(h)' /\ HasFound(h)'
<1>1. OnItsPath(h)'
  BY DEF GoesTo, OnItsPath, At, Req, LocalSteps, RemoteSteps, RecordSteps, ObservationSteps
<1>2. HasFound(h)'
  BY DEF GoesTo, HasFound, At
<1> QED  BY <1>1, <1>2

LEMMA NoStatusYet ==
  ASSUME NEW h \in Handler, NEW at, NEW status, GoesTo(h, at, status),
         at \notin {"compare", "reply", "audit", "answer"}
  PROVE  StatusIsTrue(h)'
BY DEF GoesTo, StatusIsTrue, At

LEMMA FailedStatus ==
  ASSUME NEW h \in Handler, NEW at \in {"reply", "answer"}, NEW status \in {422, 500, 503},
         GoesTo(h, at, status)
  PROVE  StatusIsTrue(h)'
BY DEF GoesTo, StatusIsTrue, At, Success

LEMMA StaysAssured ==
  ASSUME NEW h \in Handler, IsAssured(h), Growth, NEW at, NEW status, GoesTo(h, at, status),
         call[h].assured => status # 422
  PROVE  IsAssured(h)'
<1>1. Records \subseteq Records'
  BY DEF Growth, Records, Local
<1> QED  BY <1>1 DEF GoesTo, IsAssured, Req

LEMMA RespondStep ==
  ASSUME IInv, NEW h \in Handler, NEW code \in {500, 503}, ~At(h, "idle"), Respond(h, code),
         UNCHANGED <<mode, local, remote, auditEvents, requests, answers>>
  PROVE  Sound(h)
<1>1. TypeOK /\ OnItsPath(h) /\ IsAssured(h)
  BY DEF IInv, Knows
<1>2. GoesTo(h, "answer", code)
  BY <1>1, RespondCall DEF Status
<1>3. TypeOK' /\ Growth /\ StoresAreSound'
  BY <1>2, QuietCall DEF GoesTo
<1>4. Knows(h)'
  BY <1>1, <1>2, <1>3, EndsOnItsPath, FailedStatus, StaysAssured DEF Knows
<1> QED  BY <1>2, <1>3, <1>4 DEF Sound, GoesTo

LEMMA RefuseStep ==
  ASSUME IInv, NEW h \in Handler, Refuse(h)
  PROVE  Sound(h)
BY RespondStep DEF Refuse, At

LEMMA FailStep ==
  ASSUME IInv, NEW h \in Handler, Fail(h)
  PROVE  Sound(h)
BY RespondStep DEF Fail

LEMMA CrashStep ==
  ASSUME IInv, NEW h \in Handler, Crash(h)
  PROVE  Sound(h)
<1>1. TypeOK
  BY DEF IInv
<1>2. /\ call' \in [Handler -> Call] /\ StepOf(h)
      /\ call'[h].at = "idle" /\ ~call'[h].assured
  BY <1>1, NoCallType DEF Crash, TypeOK, StepOf
<1>3. TypeOK' /\ Growth /\ StoresAreSound'
  BY <1>2, QuietCall DEF Crash
<1>4. OnItsPath(h)'
  BY <1>2 DEF OnItsPath, At, LocalSteps, RemoteSteps, RecordSteps, ObservationSteps
<1>5. HasFound(h)' /\ StatusIsTrue(h)'
  BY <1>2 DEF HasFound, StatusIsTrue, At
<1>6. IsAssured(h)'
  BY <1>2 DEF IsAssured
<1> QED  BY <1>2, <1>3, <1>4, <1>5, <1>6 DEF Sound, Knows

LEMMA LookupSourceStep ==
  ASSUME IInv, NEW h \in Handler, LookupSource(h)
  PROVE  Sound(h)
<1>1. TypeOK /\ Knows(h) /\ Local
  BY DEF IInv, LookupSource, Knows, OnItsPath, At, LocalSteps
<1>2. \/ /\ Req(h).observation.source \in sourceRecords
         /\ GoesTo(h, "insert observation", call[h].status)
      \/ /\ Req(h).observation.source \notin sourceRecords
         /\ GoesTo(h, "answer", 422)
  <2>1. "insert observation" \in Step /\ 422 \in Status  BY DEF Step, Status
  <2>2. ASSUME Goto(h, "insert observation")
        PROVE  GoesTo(h, "insert observation", call[h].status)
    BY <1>1, <2>1, <2>2, GotoCall
  <2>3. ASSUME Respond(h, 422)
        PROVE  GoesTo(h, "answer", 422)
    BY <1>1, <2>1, <2>3, RespondCall
  <2> QED  BY <2>2, <2>3 DEF LookupSource
<1>3. /\ TypeOK' /\ Growth /\ StoresAreSound'
      /\ Local' = Local /\ Records' = Records /\ sourceRecords' = sourceRecords
  BY <1>2, QuietCall DEF GoesTo, LookupSource, local
<1>4. At(h, "lookup") /\ OnItsPath(h) /\ IsAssured(h)
  BY <1>1 DEF Knows, LookupSource
<1>5. ASSUME Req(h).observation.source \in sourceRecords,
             GoesTo(h, "insert observation", call[h].status)
      PROVE  Knows(h)'
  <2>1. OnItsPath(h)'
    BY <1>3, <1>4, <1>5, <1>1 DEF GoesTo, OnItsPath, At, Req, LocalSteps, RemoteSteps,
       RecordSteps, ObservationSteps
  <2>2. HasFound(h)'
    BY <1>3, <1>5 DEF GoesTo, HasFound, At, Req
  <2>3. StatusIsTrue(h)'
    BY <1>5, NoStatusYet
  <2>4. call[h].assured => call[h].status # 422
    BY <1>4 DEF IsAssured
  <2>5. IsAssured(h)'
    BY <1>3, <1>4, <1>5, <2>4, StaysAssured
  <2> QED  BY <2>1, <2>2, <2>3, <2>5 DEF Knows
<1>6. ASSUME Req(h).observation.source \notin sourceRecords, GoesTo(h, "answer", 422)
      PROVE  Knows(h)'
  <2>1. ~call[h].assured
    BY <1>1, <1>4, <1>6 DEF IsAssured, Records
  <2>2. IsAssured(h)'
    BY <1>6, <2>1 DEF GoesTo, IsAssured
  <2>3. OnItsPath(h)' /\ HasFound(h)'
    BY <1>4, <1>6, EndsOnItsPath DEF At
  <2>4. StatusIsTrue(h)'
    BY <1>6, FailedStatus
  <2> QED  BY <2>2, <2>3, <2>4 DEF Knows
<1> QED  BY <1>2, <1>3, <1>5, <1>6 DEF Sound, GoesTo

LEMMA CompareExistingStep ==
  ASSUME IInv, NEW h \in Handler, CompareExisting(h)
  PROVE  Sound(h)
<1>1. TypeOK /\ Knows(h) /\ At(h, "compare")
  BY DEF IInv, CompareExisting
<1>2. /\ Local /\ OnItsPath(h) /\ IsAssured(h) /\ Req(h).kind = "observation"
      /\ call[h].status \in Success
      /\ \E r \in observations : ObservationId(r) = ObservationId(Req(h).observation)
  BY <1>1 DEF Knows, OnItsPath, HasFound, StatusIsTrue, At, LocalSteps, ObservationSteps
<1>3. \/ Conflicts(observations, Req(h).observation) /\ GoesTo(h, "answer", 409)
      \/ ~Conflicts(observations, Req(h).observation) /\ GoesTo(h, "audit", call[h].status)
  <2>1. "audit" \in Step /\ 409 \in Status  BY DEF Step, Status
  <2>2. ASSUME Goto(h, "audit") PROVE GoesTo(h, "audit", call[h].status)
    BY <1>1, <2>1, <2>2, GotoCall
  <2>3. ASSUME Respond(h, 409) PROVE GoesTo(h, "answer", 409)
    BY <1>1, <2>1, <2>3, RespondCall
  <2> QED  BY <2>2, <2>3 DEF CompareExisting
<1>4. /\ TypeOK' /\ Growth /\ StoresAreSound'
      /\ Local' = Local /\ Canonical' = Canonical
  BY <1>3, QuietCall DEF GoesTo, CompareExisting
<1>5. Canonical = observations
  BY <1>2 DEF Canonical
<1>6. ASSUME Conflicts(observations, Req(h).observation), GoesTo(h, "answer", 409)
      PROVE  Knows(h)'
  <2>1. OnItsPath(h)' /\ HasFound(h)'
    BY <1>1, <1>2, <1>6, EndsOnItsPath DEF At
  <2>2. Req(h)' = Req(h) /\ Clashes(Req(h))'
    BY <1>2, <1>4, <1>5, <1>6 DEF Clashes, Conflicts, Req, GoesTo
  <2>3. StatusIsTrue(h)'
    BY <1>6, <2>2 DEF StatusIsTrue, GoesTo, At, Success
  <2>4. IsAssured(h)'
    BY <1>2, <1>4, <1>6, StaysAssured
  <2> QED  BY <2>1, <2>3, <2>4 DEF Knows
<1>7. ASSUME ~Conflicts(observations, Req(h).observation), GoesTo(h, "audit", call[h].status)
      PROVE  Knows(h)'
  <2>1. OnItsPath(h)' /\ HasFound(h)'
    BY <1>1, <1>2, <1>7, EndsOnItsPath DEF At
  <2>2. Done(Req(h))'
    BY <1>2, <1>4, <1>5, <1>7 DEF Done, Conflicts, Req, GoesTo
  <2>3. StatusIsTrue(h)'
    BY <1>2, <1>7, <2>2 DEF StatusIsTrue, GoesTo, At, Success
  <2>4. IsAssured(h)'
    BY <1>2, <1>4, <1>7, StaysAssured DEF Success
  <2> QED  BY <2>1, <2>3, <2>4 DEF Knows
<1> QED  BY <1>3, <1>4, <1>6, <1>7 DEF Sound, GoesTo

LEMMA RelayStep ==
  ASSUME IInv, NEW h \in Handler, Relay(h)
  PROVE  Sound(h)
<1>1. TypeOK /\ Knows(h) /\ At(h, "reply")
  BY DEF IInv, Relay
<1>2. OnItsPath(h) /\ IsAssured(h) /\ StatusIsTrue(h)
  BY <1>1 DEF Knows
<1>3. PICK at \in {"audit", "answer"} :
        /\ GoesTo(h, at, call[h].status)
        /\ at = "audit" <=> call[h].status \in Success
  <2>1. "audit" \in Step /\ "answer" \in Step  BY DEF Step
  <2>2. CASE call[h].status \in Success
    BY <1>1, <2>1, <2>2, GotoCall DEF Relay
  <2>3. CASE call[h].status \notin Success
    BY <1>1, <2>1, <2>3, GotoCall DEF Relay
  <2> QED  BY <2>2, <2>3
<1>4. /\ TypeOK' /\ Growth /\ StoresAreSound'
      /\ Local' = Local /\ Canonical' = Canonical /\ Records' = Records
  BY <1>3, QuietCall DEF GoesTo, Relay
<1>5. OnItsPath(h)' /\ HasFound(h)'
  BY <1>1, <1>2, <1>3, EndsOnItsPath DEF At
<1>6. /\ Req(h)' = Req(h)
      /\ Done(Req(h)) => Done(Req(h))'
      /\ Clashes(Req(h)) => Clashes(Req(h))'
  BY <1>3, <1>4 DEF GoesTo, Req, Done, Clashes, Conflicts
<1>7. StatusIsTrue(h)'
  BY <1>1, <1>2, <1>3, <1>6 DEF StatusIsTrue, GoesTo, At
<1>8. IsAssured(h)'
  <2>1. call[h].assured => call[h].status # 422
    BY <1>2 DEF IsAssured
  <2> QED  BY <1>2, <1>3, <1>4, <2>1, StaysAssured
<1> QED  BY <1>3, <1>4, <1>5, <1>7, <1>8 DEF Sound, GoesTo, Knows

LEMMA UpstreamPresenceStep ==
  ASSUME IInv, NEW h \in Handler, UpstreamPresence(h)
  PROVE  Sound(h)
<1>1. TypeOK /\ At(h, "presence") /\ OnItsPath(h) /\ IsAssured(h)
  BY DEF IInv, UpstreamPresence, Knows
<1>2. GoesTo(h, "store", call[h].status)
  <2> DEFINE fresh == Req(h).digest \notin retained
  <2>1. call \in [Handler -> Call] /\ fresh \in BOOLEAN /\ "store" \in Step
    BY <1>1 DEF TypeOK, Step
  <2>2. call' = [call EXCEPT ![h] = [@ EXCEPT !.at = "store", !.fresh = fresh]]
    BY DEF UpstreamPresence
  <2> HIDE DEF fresh
  <2> QED  BY <2>1, <2>2 DEF GoesTo, StepOf, Call
<1>3. /\ TypeOK' /\ Growth /\ StoresAreSound' /\ Local' = Local
  BY <1>2, QuietCall DEF GoesTo, UpstreamPresence
<1>4. OnItsPath(h)'
  BY <1>1, <1>2, <1>3 DEF GoesTo, OnItsPath, At, Req, LocalSteps, RemoteSteps, RecordSteps,
     ObservationSteps
<1>5. HasFound(h)'
  BY <1>2 DEF GoesTo, HasFound, At
<1>6. StatusIsTrue(h)'
  BY <1>2, NoStatusYet
<1>7. IsAssured(h)'
  <2>1. call[h].assured => call[h].status # 422
    BY <1>1 DEF IsAssured
  <2> QED  BY <1>1, <1>2, <1>3, <2>1, StaysAssured
<1> QED  BY <1>2, <1>3, <1>4, <1>5, <1>6, <1>7 DEF Sound, GoesTo, Knows

LEMMA AuditFailsStep ==
  ASSUME IInv, NEW h \in Handler, AuditFails(h)
  PROVE  Sound(h)
<1>1. TypeOK /\ At(h, "audit") /\ OnItsPath(h) /\ IsAssured(h) /\ StatusIsTrue(h)
  BY DEF IInv, AuditFails, Knows
<1>2. /\ call' \in [Handler -> Call] /\ StepOf(h)
      /\ call'[h].at = "answer" /\ call'[h].status = call[h].status
      /\ call'[h].request = call[h].request /\ call'[h].assured = call[h].assured
      /\ call'[h].unaudited = TRUE
  <2>1. call \in [Handler -> Call] /\ "answer" \in Step
    BY <1>1 DEF TypeOK, Step
  <2>2. call' = [call EXCEPT ![h] = [@ EXCEPT !.at = "answer", !.unaudited = TRUE]]
    BY DEF AuditFails
  <2> QED  BY <2>1, <2>2 DEF StepOf, Call
<1>3. /\ TypeOK' /\ Growth /\ StoresAreSound' /\ Local' = Local
      /\ Records' = Records /\ Canonical' = Canonical
  BY <1>2, QuietCall DEF AuditFails
<1>4. OnItsPath(h)'
  BY <1>1, <1>2, <1>3 DEF OnItsPath, At, Req, LocalSteps, RemoteSteps, RecordSteps,
     ObservationSteps
<1>5. HasFound(h)'
  BY <1>2 DEF HasFound, At
<1>6. Done(Req(h)) => Done(Req(h))'
  BY <1>2, <1>3 DEF Done, Req
<1>7. StatusIsTrue(h)'
  BY <1>1, <1>2, <1>6 DEF StatusIsTrue, At, Success
<1>8. IsAssured(h)'
  BY <1>1, <1>2, <1>3 DEF IsAssured, Req
<1> QED  BY <1>2, <1>3, <1>4, <1>5, <1>7, <1>8 DEF Sound, Knows

LEMMA AuditStaysTruthful ==
  ASSUME AuditIsTruthful, Growth, UNCHANGED auditEvents
  PROVE  AuditIsTruthful'
<1>1. Records \subseteq Records' /\ Canonical \subseteq Canonical'
  BY DEF Growth, Records, Canonical, Local
<1> QED  BY <1>1 DEF AuditIsTruthful

LEMMA PutObjectStep ==
  ASSUME IInv, NEW h \in Handler, PutObject(h)
  PROVE  Sound(h)
<1>1. /\ TypeOK /\ StoresAreSound /\ At(h, "put")
      /\ OnItsPath(h) /\ IsAssured(h) /\ Local
      /\ Req(h) \in Request /\ Req(h).kind = "record"
  BY DEF IInv, PutObject, Knows, OnItsPath, At, LocalSteps, RecordSteps
<1>2. Req(h).digest \in Digest
  BY <1>1, RequestFields
<1>3. GoesTo(h, "insert record", call[h].status)
  BY <1>1, GotoCall DEF PutObject, Step
<1>4. Growth /\ Local' = Local /\ bucket' = bucket \union {Req(h).digest}
  BY DEF Growth, PutObject, remote, Local
<1>5. TypeOK'
  BY <1>1, <1>2, <1>3 DEF TypeOK, PutObject, GoesTo, remote
<1>6. StoresAreSound'
  BY <1>1, <1>4, AuditStaysTruthful DEF PutObject, StoresAreSound, OneSourceOfTruth, RowsHaveObjects
<1>7. OnItsPath(h)'
  BY <1>1, <1>3, <1>4 DEF GoesTo, OnItsPath, At, Req, LocalSteps, RemoteSteps, RecordSteps,
     ObservationSteps
<1>8. HasFound(h)'
  BY <1>3, <1>4 DEF GoesTo, HasFound, At, Req
<1>9. StatusIsTrue(h)'
  BY <1>3, NoStatusYet
<1>10. IsAssured(h)'
  <2>1. call[h].assured => call[h].status # 422
    BY <1>1 DEF IsAssured
  <2> QED  BY <1>1, <1>3, <1>4, <2>1, StaysAssured
<1> QED  BY <1>3, <1>4, <1>5, <1>6, <1>7, <1>8, <1>9, <1>10 DEF Sound, GoesTo, Knows

LEMMA InsertRecordStep ==
  ASSUME IInv, NEW h \in Handler, InsertRecord(h)
  PROVE  Sound(h)
<1>1. /\ TypeOK /\ StoresAreSound /\ At(h, "insert record")
      /\ OnItsPath(h) /\ HasFound(h) /\ IsAssured(h) /\ Local
      /\ Req(h) \in Request /\ Req(h).kind = "record"
  BY DEF IInv, InsertRecord, Knows, OnItsPath, At, LocalSteps, RecordSteps
<1>2. Req(h).digest \in Digest /\ Req(h).digest \in bucket
  BY <1>1, RequestFields DEF HasFound
<1>3. GoesTo(h, "audit", 200) \/ GoesTo(h, "audit", 201)
  <2>1. "audit" \in Step /\ 200 \in Status /\ 201 \in Status  BY DEF Step, Status
  <2>2. ASSUME Req(h).digest \in sourceRecords PROVE GoesTo(h, "audit", 200)
    <3>1. Reaches(h, "audit", 200)
      BY <2>2 DEF InsertRecord, Reaches
    <3> QED  BY <1>1, <2>1, <3>1, StatusCall
  <2>3. ASSUME Req(h).digest \notin sourceRecords PROVE GoesTo(h, "audit", 201)
    <3>1. Reaches(h, "audit", 201)
      BY <2>3 DEF InsertRecord, Reaches
    <3> QED  BY <1>1, <2>1, <3>1, StatusCall
  <2> QED  BY <2>2, <2>3
<1>4. /\ Growth /\ Local' = Local
      /\ sourceRecords' = sourceRecords \union {Req(h).digest}
      /\ UNCHANGED <<bucket, observations, auditEvents>>
  BY DEF Growth, InsertRecord, remote, Local
<1>5. TypeOK'
  BY <1>1, <1>2, <1>3 DEF TypeOK, InsertRecord, GoesTo, remote
<1>6. StoresAreSound'
  <2>1. AuditIsTruthful'
    BY <1>1, <1>4, AuditStaysTruthful DEF StoresAreSound
  <2>2. OneSourceOfTruth'
    BY <1>1, <1>4 DEF OneSourceOfTruth
  <2>3. RowsHaveObjects'
    BY <1>1, <1>2, <1>4 DEF StoresAreSound, RowsHaveObjects
  <2> QED  BY <2>1, <2>2, <2>3 DEF StoresAreSound
<1>7. OnItsPath(h)' /\ HasFound(h)'
  BY <1>1, <1>3, EndsOnItsPath DEF At
<1>8. Done(Req(h))'
  BY <1>1, <1>3, <1>4 DEF Done, Records, GoesTo, Req
<1>9. StatusIsTrue(h)'
  BY <1>3, <1>8 DEF StatusIsTrue, GoesTo, At, Success
<1>10. IsAssured(h)'
  <2>1. ~call[h].assured  BY <1>1 DEF IsAssured
  <2> QED  BY <1>3, <2>1 DEF GoesTo, IsAssured
<1> QED  BY <1>3, <1>4, <1>5, <1>6, <1>7, <1>9, <1>10 DEF Sound, GoesTo, Knows

LEMMA StoreAdds ==
  ASSUME NEW rows, NEW o
  PROVE  /\ rows \subseteq Store(rows, o) /\ Store(rows, o) \subseteq rows \union {o}
         /\ ~Conflicts(rows, o) => o \in Store(rows, o)
BY DEF Store, Conflicts

LEMMA InsertObservationStep ==
  ASSUME IInv, NEW h \in Handler, InsertObservation(h)
  PROVE  Sound(h)
<1> DEFINE o == Req(h).observation
           known == \E r \in observations : ObservationId(r) = ObservationId(o)
<1>1. /\ TypeOK /\ StoresAreSound /\ At(h, "insert observation")
      /\ OnItsPath(h) /\ HasFound(h) /\ IsAssured(h) /\ Local
      /\ Req(h) \in Request /\ Req(h).kind = "observation"
  BY DEF IInv, InsertObservation, Knows, OnItsPath, At, LocalSteps, ObservationSteps
<1>2. o \in Observation /\ o.source \in sourceRecords
  BY <1>1, RequestFields DEF HasFound, At
<1>3. \/ known /\ observations' = observations /\ GoesTo(h, "compare", 200)
      \/ ~known /\ observations' = observations \union {o} /\ GoesTo(h, "audit", 202)
  <2>1. "audit" \in Step /\ "compare" \in Step /\ 200 \in Status /\ 202 \in Status
    BY DEF Step, Status
  <2>2. ASSUME known PROVE observations' = observations /\ GoesTo(h, "compare", 200)
    <3>1. Store(observations, o) = observations
      BY <2>2 DEF Store
    <3>2. /\ observations' = observations
          /\ Reaches(h, "compare", 200)
      BY <3>1 DEF InsertObservation, Reaches
    <3> QED  BY <1>1, <2>1, <3>2, StatusCall
  <2>3. ASSUME ~known PROVE observations' = observations \union {o} /\ GoesTo(h, "audit", 202)
    <3>1. /\ Store(observations, o) = observations \union {o}
          /\ Store(observations, o) # observations
      BY <2>3 DEF Store
    <3>2. /\ observations' = observations \union {o}
          /\ Reaches(h, "audit", 202)
      BY <3>1 DEF InsertObservation, Reaches
    <3> QED  BY <1>1, <2>1, <3>2, StatusCall
  <2> QED  BY <2>2, <2>3
<1> HIDE DEF known
<1>4. /\ Growth /\ Local' = Local
      /\ UNCHANGED <<bucket, sourceRecords, auditEvents>>
  BY <1>3 DEF Growth, InsertObservation, remote, Local
<1>5. TypeOK'
  <2>1. call' \in [Handler -> Call]
    BY <1>3 DEF GoesTo
  <2>2. observations' \subseteq observations \union {o}
    BY <1>3
  <2>3. UNCHANGED <<mode, bucket, sourceRecords, remote, auditEvents, requests, answers>>
    BY DEF InsertObservation
  <2> QED  BY <1>1, <1>2, <2>1, <2>2, <2>3 DEF TypeOK, remote
<1>6. StoresAreSound'
  <2>1. AuditIsTruthful'
    BY <1>1, <1>4, AuditStaysTruthful DEF StoresAreSound
  <2>2. OneSourceOfTruth'
    BY <1>1, <1>4 DEF OneSourceOfTruth
  <2>3. \A r \in observations' : r \in observations \/ r = o
    BY <1>3
  <2>4. RowsHaveObjects
    BY <1>1 DEF StoresAreSound
  <2>5. \A r \in observations' : r.source \in sourceRecords
    BY <1>2, <2>3, <2>4 DEF RowsHaveObjects
  <2>6. RowsHaveObjects'
    BY <1>4, <2>4, <2>5 DEF RowsHaveObjects
  <2> QED  BY <2>1, <2>2, <2>6 DEF StoresAreSound
<1>7. IsAssured(h)'
  <2>1. Records = sourceRecords /\ Records' = sourceRecords
    BY <1>1, <1>4 DEF Records
  <2>2. /\ Req(h)' = Req(h) /\ call'[h].assured = call[h].assured
        /\ call'[h].status # 422
    BY <1>3 DEF GoesTo, Req
  <2>3. IsAssured(h)
    BY <1>1
  <2> QED  BY <2>1, <2>2, <2>3 DEF IsAssured
<1>8. ASSUME known, observations' = observations, GoesTo(h, "compare", 200)
      PROVE  Knows(h)'
  <2>1. OnItsPath(h)'
    BY <1>1, <1>4, <1>8 DEF GoesTo, OnItsPath, At, Req, LocalSteps, RemoteSteps, RecordSteps,
       ObservationSteps
  <2>2. HasFound(h)'
    BY <1>2, <1>4, <1>8 DEF GoesTo, HasFound, At, Req, known
  <2>3. StatusIsTrue(h)'
    BY <1>8 DEF GoesTo, StatusIsTrue, At, Success
  <2> QED  BY <1>7, <2>1, <2>2, <2>3 DEF Knows
<1>9. ASSUME observations' = observations \union {o}, GoesTo(h, "audit", 202)
      PROVE  Knows(h)'
  <2>1. OnItsPath(h)' /\ HasFound(h)'
    BY <1>1, <1>9, EndsOnItsPath DEF At
  <2>2. Done(Req(h))'
    BY <1>1, <1>4, <1>9 DEF Done, Canonical, GoesTo, Req
  <2>3. StatusIsTrue(h)'
    BY <1>9, <2>2 DEF GoesTo, StatusIsTrue, At, Success
  <2> QED  BY <1>7, <2>1, <2>3 DEF Knows
<1> QED  BY <1>3, <1>4, <1>5, <1>6, <1>8, <1>9 DEF Sound, GoesTo

LEMMA UpstreamStoreStep ==
  ASSUME IInv, NEW h \in Handler, UpstreamStore(h)
  PROVE  Sound(h)
<1>1. /\ TypeOK /\ StoresAreSound /\ At(h, "store")
      /\ OnItsPath(h) /\ IsAssured(h) /\ ~Local
      /\ Req(h) \in Request /\ Req(h).kind = "record"
  BY DEF IInv, UpstreamStore, Knows, OnItsPath, At, RemoteSteps, RecordSteps
<1>2. Req(h).digest \in Digest
  BY <1>1, RequestFields
<1>3. GoesTo(h, "reply", 200) \/ GoesTo(h, "reply", 201)
  <2>1. "reply" \in Step /\ 200 \in Status /\ 201 \in Status  BY DEF Step, Status
  <2>2. ASSUME ~call[h].fresh PROVE GoesTo(h, "reply", 200)
    <3>1. Reaches(h, "reply", 200)
      BY <2>2 DEF UpstreamStore, Reaches
    <3> QED  BY <1>1, <2>1, <3>1, StatusCall
  <2>3. ASSUME call[h].fresh PROVE GoesTo(h, "reply", 201)
    <3>1. Reaches(h, "reply", 201)
      BY <2>3 DEF UpstreamStore, Reaches
    <3> QED  BY <1>1, <2>1, <3>1, StatusCall
  <2> QED  BY <2>2, <2>3
<1>4. /\ Growth /\ Local' = Local
      /\ retained' = retained \union {Req(h).digest}
      /\ UNCHANGED <<bucket, sourceRecords, observations, auditEvents>>
  BY DEF Growth, UpstreamStore, local, Local
<1>5. TypeOK'
  BY <1>1, <1>2, <1>3 DEF TypeOK, UpstreamStore, GoesTo, local
<1>6. StoresAreSound'
  <2>1. AuditIsTruthful'
    BY <1>1, <1>4, AuditStaysTruthful DEF StoresAreSound
  <2>2. OneSourceOfTruth' /\ RowsHaveObjects'
    BY <1>1, <1>4 DEF StoresAreSound, OneSourceOfTruth, RowsHaveObjects
  <2> QED  BY <2>1, <2>2 DEF StoresAreSound
<1>7. OnItsPath(h)'
  BY <1>1, <1>3, <1>4 DEF GoesTo, OnItsPath, At, Req, LocalSteps, RemoteSteps, RecordSteps,
     ObservationSteps
<1>8. HasFound(h)'
  BY <1>3 DEF GoesTo, HasFound, At
<1>9. Done(Req(h))'
  BY <1>1, <1>3, <1>4 DEF Done, Records, GoesTo, Req
<1>10. StatusIsTrue(h)'
  BY <1>3, <1>9 DEF GoesTo, StatusIsTrue, At, Success
<1>11. IsAssured(h)'
  <2>1. ~call[h].assured  BY <1>1 DEF IsAssured
  <2> QED  BY <1>3, <2>1 DEF GoesTo, IsAssured
<1> QED  BY <1>3, <1>4, <1>5, <1>6, <1>7, <1>8, <1>10, <1>11 DEF Sound, GoesTo, Knows

LEMMA UpstreamPostStep ==
  ASSUME IInv, NEW h \in Handler, UpstreamPost(h)
  PROVE  Sound(h)
<1> DEFINE o == Req(h).observation
<1>1. /\ TypeOK /\ StoresAreSound /\ At(h, "post")
      /\ OnItsPath(h) /\ IsAssured(h) /\ ~Local
      /\ Req(h) \in Request /\ Req(h).kind = "observation"
  BY DEF IInv, UpstreamPost, Knows, OnItsPath, At, RemoteSteps, ObservationSteps
<1>2. o \in Observation
  BY <1>1, RequestFields
<1>3. \/ o.source \notin retained /\ GoesTo(h, "reply", 422) /\ ledger' = ledger
      \/ Conflicts(ledger, o) /\ GoesTo(h, "reply", 409) /\ ledger' = ledger
      \/ ~Conflicts(ledger, o) /\ GoesTo(h, "reply", 202) /\ ledger' = Store(ledger, o)
  <2>1. "reply" \in Step /\ 422 \in Status /\ 409 \in Status /\ 202 \in Status
    BY DEF Step, Status
  <2>2. ASSUME Reaches(h, "reply", 422)
        PROVE  GoesTo(h, "reply", 422)
    BY <1>1, <2>1, <2>2, StatusCall
  <2>3. ASSUME Reaches(h, "reply", 409)
        PROVE  GoesTo(h, "reply", 409)
    BY <1>1, <2>1, <2>3, StatusCall
  <2>4. ASSUME Reaches(h, "reply", 202)
        PROVE  GoesTo(h, "reply", 202)
    BY <1>1, <2>1, <2>4, StatusCall
  <2> QED  BY <2>2, <2>3, <2>4 DEF UpstreamPost, Reaches
<1>4. ledger \subseteq ledger' /\ ledger' \subseteq ledger \union {o}
  BY <1>3, StoreAdds
<1>5. /\ Growth /\ Local' = Local
      /\ UNCHANGED <<bucket, sourceRecords, observations, retained, auditEvents>>
  BY <1>4 DEF Growth, UpstreamPost, local, Local
<1>6. TypeOK'
  BY <1>1, <1>2, <1>3, <1>4 DEF TypeOK, UpstreamPost, GoesTo, local
<1>7. StoresAreSound'
  <2>1. AuditIsTruthful'
    BY <1>1, <1>5, AuditStaysTruthful DEF StoresAreSound
  <2>2. OneSourceOfTruth' /\ RowsHaveObjects'
    BY <1>1, <1>5 DEF StoresAreSound, OneSourceOfTruth, RowsHaveObjects
  <2> QED  BY <2>1, <2>2 DEF StoresAreSound
<1>8. /\ call'[h].at = "reply"
      /\ call'[h].request = call[h].request /\ call'[h].assured = call[h].assured
  BY <1>3 DEF GoesTo
<1>9. OnItsPath(h)'
  BY <1>1, <1>5, <1>8 DEF OnItsPath, At, Req, LocalSteps, RemoteSteps, RecordSteps,
     ObservationSteps
<1>10. HasFound(h)'
  BY <1>8 DEF HasFound, At
<1>11. Req(h)' = Req(h) /\ Canonical = ledger /\ Canonical' = ledger' /\ Records = retained
         /\ Records' = retained
  BY <1>1, <1>5, <1>8 DEF Req, Canonical, Records
<1>12. StatusIsTrue(h)'
  <2>1. CASE GoesTo(h, "reply", 422)
    BY <2>1, FailedStatus
  <2>2. CASE Conflicts(ledger, o) /\ GoesTo(h, "reply", 409) /\ ledger' = ledger
    <3>1. Clashes(Req(h))'
      BY <1>1, <1>11, <2>2 DEF Clashes, Conflicts
    <3> QED  BY <2>2, <3>1 DEF GoesTo, StatusIsTrue, At, Success
  <2>3. CASE ~Conflicts(ledger, o) /\ GoesTo(h, "reply", 202) /\ ledger' = Store(ledger, o)
    <3>1. Done(Req(h))'
      BY <1>1, <1>11, <2>3, StoreAdds DEF Done
    <3> QED  BY <2>3, <3>1 DEF GoesTo, StatusIsTrue, At, Success
  <2> QED  BY <1>3, <2>1, <2>2, <2>3
<1>13. IsAssured(h)'
  <2>1. CASE o.source \notin retained
    <3>1. ~call[h].assured  BY <1>1, <1>11, <2>1 DEF IsAssured
    <3> QED  BY <1>8, <3>1 DEF IsAssured
  <2>2. CASE GoesTo(h, "reply", 409) \/ GoesTo(h, "reply", 202)
    <3>1. call'[h].status # 422  BY <2>2 DEF GoesTo
    <3> QED  BY <1>1, <1>8, <1>11, <3>1 DEF IsAssured
  <2> QED  BY <1>3, <2>1, <2>2
<1> QED  BY <1>3, <1>5, <1>6, <1>7, <1>9, <1>10, <1>12, <1>13 DEF Sound, GoesTo, Knows

LEMMA RecordAuditStep ==
  ASSUME IInv, NEW h \in Handler, RecordAudit(h)
  PROVE  Sound(h)
<1> DEFINE e == Event(Req(h))
<1>1. /\ TypeOK /\ StoresAreSound /\ At(h, "audit")
      /\ OnItsPath(h) /\ IsAssured(h) /\ StatusIsTrue(h) /\ Req(h) \in Request
  BY DEF IInv, RecordAudit, Knows, OnItsPath, At
<1>2. e \in AuditEvent
  BY <1>1, ResourceType
<1>3. GoesTo(h, "answer", call[h].status)
  BY <1>1, GotoCall DEF RecordAudit, Step
<1>4. e \in auditEvents' /\ auditEvents \subseteq auditEvents'
        /\ auditEvents' \subseteq auditEvents \union {e}
  <2>1. CASE \E r \in auditEvents : AuditId(r) = AuditId(e)
    <3>1. PICK r \in auditEvents : AuditId(r) = AuditId(e)
      BY <2>1
    <3>2. r = e
      BY <1>1, <1>2, <3>1 DEF TypeOK, AuditEvent, AuditId
    <3> QED  BY <2>1, <3>2 DEF RecordAudit
  <2>2. CASE ~\E r \in auditEvents : AuditId(r) = AuditId(e)
    BY <2>2 DEF RecordAudit
  <2> QED  BY <2>1, <2>2
<1>5. /\ Growth /\ Local' = Local /\ Records' = Records /\ Canonical' = Canonical
      /\ UNCHANGED <<bucket, sourceRecords, observations>>
  BY <1>4 DEF Growth, RecordAudit, local, remote, Local, Records, Canonical
<1>6. TypeOK'
  BY <1>1, <1>2, <1>3, <1>4 DEF TypeOK, RecordAudit, GoesTo, local, remote
<1>7. Done(Req(h))
  BY <1>1 DEF StatusIsTrue, At
<1>8. AuditIsTruthful'
  <2>1. IF e.action = "record" THEN e.resource \in Records
        ELSE \E o \in Canonical : ObservationId(o) = e.resource
    BY <1>7 DEF Event, Resource, Done
  <2>2. \A x \in auditEvents' : x \in auditEvents \/ x = e
    BY <1>4
  <2>3. AuditIsTruthful
    BY <1>1 DEF StoresAreSound
  <2> HIDE DEF e
  <2> QED  BY <1>5, <2>1, <2>2, <2>3 DEF AuditIsTruthful
<1>9. StoresAreSound'
  BY <1>1, <1>5, <1>8 DEF StoresAreSound, OneSourceOfTruth, RowsHaveObjects
<1>10. OnItsPath(h)' /\ HasFound(h)'
  BY <1>1, <1>3, EndsOnItsPath DEF At
<1>11. StatusIsTrue(h)'
  <2>1. Done(Req(h))' /\ Req(h)' = Req(h)
    BY <1>3, <1>5, <1>7 DEF Done, GoesTo, Req
  <2>2. Event(Req(h))' = e
    BY <2>1 DEF Event, Resource, ObservationId
  <2>3. call'[h].status \in Success
    BY <1>1, <1>3 DEF StatusIsTrue, GoesTo, At
  <2> HIDE DEF e
  <2>4. call'[h].at = "answer" /\ call'[h].status # 409
    BY <1>3, <2>3 DEF GoesTo, Success
  <2> QED  BY <1>4, <2>1, <2>2, <2>3, <2>4 DEF StatusIsTrue, At
<1>12. IsAssured(h)'
  <2>1. call[h].assured => call[h].status # 422
    BY <1>1 DEF IsAssured
  <2> QED  BY <1>1, <1>3, <1>5, <2>1, StaysAssured
<1> QED  BY <1>3, <1>5, <1>6, <1>9, <1>10, <1>11, <1>12 DEF Sound, GoesTo, Knows

LEMMA AnswerStep ==
  ASSUME IInv, NEW h \in Handler, Answer(h)
  PROVE  Sound(h) /\ AnswersAreSound'
<1> DEFINE a == [request |-> Req(h), status |-> call[h].status, unaudited |-> call[h].unaudited]
<1>1. /\ TypeOK /\ StoresAreSound /\ AnswersAreSound /\ At(h, "answer")
      /\ StatusIsTrue(h) /\ Req(h) \in Request
  BY DEF IInv, Answer, Knows, OnItsPath, At
<1>2. /\ call' \in [Handler -> Call] /\ StepOf(h)
      /\ call'[h].at = "idle" /\ ~call'[h].assured
  BY <1>1, NoCallType DEF Answer, TypeOK, StepOf
<1>3. /\ Growth /\ StoresAreSound'
      /\ Local' = Local /\ Records' = Records /\ Canonical' = Canonical
  BY <1>1, QuietStep DEF Answer
<1>4. /\ answers' = answers \union {a}
      /\ a.request = Req(h) /\ a.status = call[h].status /\ a.unaudited = call[h].unaudited
      /\ UNCHANGED <<mode, local, remote, auditEvents, requests>>
  BY DEF Answer
<1>5. a \in [request: Request, status: Status, unaudited: BOOLEAN]
  BY <1>1 DEF TypeOK, Call
<1> HIDE DEF a
<1>6. TypeOK'
  BY <1>1, <1>2, <1>4, <1>5 DEF TypeOK, local, remote
<1>7. OnItsPath(h)'
  BY <1>2 DEF OnItsPath, At, LocalSteps, RemoteSteps, RecordSteps, ObservationSteps
<1>8. HasFound(h)' /\ StatusIsTrue(h)'
  BY <1>2 DEF HasFound, StatusIsTrue, At
<1>9. IsAssured(h)'
  BY <1>2 DEF IsAssured
<1>10. \A x \in answers' : x \in answers \/ x = a
  BY <1>4
<1>11. AnswersAreTrue'
  <2>1. IF a.request.kind = "record" THEN a.status \in Success => a.request.digest \in Records
        ELSE /\ a.status \in Success => a.request.observation \in Canonical
             /\ a.status = 409 => Conflicts(Canonical, a.request.observation)
    BY <1>1, <1>4 DEF StatusIsTrue, At, Done, Clashes
  <2>2. AnswersAreTrue
    BY <1>1 DEF AnswersAreSound
  <2> QED  BY <1>3, <1>10, <2>1, <2>2 DEF AnswersAreTrue, Conflicts
<1>12. SuccessIsAudited'
  <2>1. a.status \in Success /\ ~a.unaudited => Event(a.request) \in auditEvents
    BY <1>1, <1>4 DEF StatusIsTrue, At
  <2>2. SuccessIsAudited
    BY <1>1 DEF AnswersAreSound
  <2> QED  BY <1>4, <1>10, <2>1, <2>2 DEF SuccessIsAudited
<1> QED  BY <1>2, <1>3, <1>6, <1>7, <1>8, <1>9, <1>11, <1>12 DEF Sound, Knows, AnswersAreSound

-----------------------------------------------------------------------------
\* What answers said stays true as the stores grow.
LEMMA AnswersStayTrue ==
  ASSUME AnswersAreSound, Growth, UNCHANGED answers
  PROVE  AnswersAreSound'
<1>1. Records \subseteq Records' /\ Canonical \subseteq Canonical'
  BY DEF Growth, Records, Canonical, Local
<1>2. AnswersAreTrue'
  BY <1>1 DEF AnswersAreSound, AnswersAreTrue, Conflicts
<1>3. SuccessIsAudited'
  BY DEF Growth, AnswersAreSound, SuccessIsAudited
<1> QED  BY <1>2, <1>3 DEF AnswersAreSound

LEMMA SoundStep ==
  ASSUME IInv, NEW h \in Handler, Sound(h), AnswersAreSound'
  PROVE  IInv'
<1>1. ASSUME NEW g \in Handler \ {h} PROVE Knows(g)'
  BY <1>1, GrowthKeeps DEF IInv, Sound, StepOf
<1> QED  BY <1>1 DEF IInv, Sound

LEMMA InitSound == Init => IInv
<1> SUFFICES ASSUME Init PROVE IInv
  OBVIOUS
<1>1. TypeOK
  BY NoCallType, BoundAssumption DEF Init, TypeOK
<1>2. StoresAreSound
  BY DEF Init, StoresAreSound, OneSourceOfTruth, RowsHaveObjects, AuditIsTruthful
<1>3. AnswersAreSound
  BY DEF Init, AnswersAreSound, AnswersAreTrue, SuccessIsAudited
<1>4. ASSUME NEW h \in Handler PROVE Knows(h)
  <2>1. call[h].at = "idle" /\ ~call[h].assured
    BY NoCallType DEF Init
  <2>2. OnItsPath(h)
    BY <2>1 DEF OnItsPath, At, LocalSteps, RemoteSteps, RecordSteps, ObservationSteps
  <2>3. HasFound(h) /\ StatusIsTrue(h) /\ IsAssured(h)
    BY <2>1 DEF HasFound, StatusIsTrue, IsAssured, At
  <2> QED  BY <2>2, <2>3 DEF Knows
<1> QED  BY <1>1, <1>2, <1>3, <1>4 DEF IInv

LEMMA NextSound == IInv /\ [Next]_vars => IInv'
<1>1. ASSUME IInv, UNCHANGED vars PROVE IInv'
  <2>1. StoresAreSound' /\ Growth
    BY <1>1, QuietStep DEF IInv, vars, local, remote
  <2>2. TypeOK'
    BY <1>1 DEF IInv, TypeOK, vars, local, remote
  <2>3. AnswersAreSound'
    BY <1>1, <2>1, AnswersStayTrue DEF IInv, vars
  <2>4. \A h \in Handler : Knows(h)'
    BY <1>1, <2>1, GrowthKeeps DEF IInv, vars
  <2> QED  BY <2>1, <2>2, <2>3, <2>4 DEF IInv
<1>2. ASSUME IInv, NEW h \in Handler, Sound(h), UNCHANGED answers PROVE IInv'
  BY <1>2, SoundStep, AnswersStayTrue DEF IInv, Sound
<1>3. ASSUME IInv, Next PROVE IInv'
  <2> USE <1>3
  <2>1. ASSUME NEW h \in Handler, NEW request \in Request, Accept(h, request) PROVE IInv'
    BY <1>2, <2>1, AcceptStep DEF Accept
  <2>2. ASSUME NEW h \in Handler, Refuse(h) PROVE IInv'
    BY <1>2, <2>2, RefuseStep DEF Refuse
  <2>3. ASSUME NEW h \in Handler, PutObject(h) PROVE IInv'
    BY <1>2, <2>3, PutObjectStep DEF PutObject
  <2>4. ASSUME NEW h \in Handler, InsertRecord(h) PROVE IInv'
    BY <1>2, <2>4, InsertRecordStep DEF InsertRecord
  <2>5. ASSUME NEW h \in Handler, LookupSource(h) PROVE IInv'
    BY <1>2, <2>5, LookupSourceStep DEF LookupSource
  <2>6. ASSUME NEW h \in Handler, InsertObservation(h) PROVE IInv'
    BY <1>2, <2>6, InsertObservationStep DEF InsertObservation
  <2>7. ASSUME NEW h \in Handler, CompareExisting(h) PROVE IInv'
    BY <1>2, <2>7, CompareExistingStep DEF CompareExisting
  <2>8. ASSUME NEW h \in Handler, UpstreamPresence(h) PROVE IInv'
    BY <1>2, <2>8, UpstreamPresenceStep DEF UpstreamPresence
  <2>9. ASSUME NEW h \in Handler, UpstreamStore(h) PROVE IInv'
    BY <1>2, <2>9, UpstreamStoreStep DEF UpstreamStore
  <2>10. ASSUME NEW h \in Handler, UpstreamPost(h) PROVE IInv'
    BY <1>2, <2>10, UpstreamPostStep DEF UpstreamPost
  <2>11. ASSUME NEW h \in Handler, Relay(h) PROVE IInv'
    BY <1>2, <2>11, RelayStep DEF Relay
  <2>12. ASSUME NEW h \in Handler, RecordAudit(h) PROVE IInv'
    BY <1>2, <2>12, RecordAuditStep DEF RecordAudit
  <2>13. ASSUME NEW h \in Handler, AuditFails(h) PROVE IInv'
    BY <1>2, <2>13, AuditFailsStep DEF AuditFails
  <2>14. ASSUME NEW h \in Handler, Answer(h) PROVE IInv'
    BY <2>14, AnswerStep, SoundStep
  <2>15. ASSUME NEW h \in Handler, Fail(h) PROVE IInv'
    BY <1>2, <2>15, FailStep DEF Fail
  <2>16. ASSUME NEW h \in Handler, Crash(h) PROVE IInv'
    BY <1>2, <2>16, CrashStep DEF Crash
  <2> QED  BY <2>1, <2>2, <2>3, <2>4, <2>5, <2>6, <2>7, <2>8, <2>9, <2>10, <2>11, <2>12, <2>13,
              <2>14, <2>15, <2>16 DEF Next
<1> QED  BY <1>1, <1>3

LEMMA Inductive == Spec => []IInv
BY InitSound, NextSound, PTL DEF Spec

\* Every variable keeps its type: in particular a request in progress is one that
\* operators may send, at a step of one of the four handlers.
THEOREM TypeCorrect == Spec => []TypeOK
<1>1. IInv => TypeOK  BY DEF IInv
<1> QED  BY <1>1, Inductive, PTL

\* With a control plane configured no route, public or internal, ever writes the
\* local bucket or tables, whatever fails or stops between.
THEOREM NoSecondSource == Spec => []OneSourceOfTruth
<1>1. IInv => OneSourceOfTruth  BY DEF IInv, StoresAreSound
<1> QED  BY <1>1, Inductive, PTL

\* Rows come after what they name: a source row after its object, an observation
\* after its source row, wherever the handlers were stopped.
THEOREM RowsFollowObjects == Spec => []RowsHaveObjects
<1>1. IInv => RowsHaveObjects  BY DEF IInv, StoresAreSound
<1> QED  BY <1>1, Inductive, PTL

\* The audit trail names only mutations whose effect is in the store that counts.
THEOREM AuditNamesWhatHappened == Spec => []AuditIsTruthful
<1>1. IInv => AuditIsTruthful  BY DEF IInv, StoresAreSound
<1> QED  BY <1>1, Inductive, PTL

\* A success told to an operator and not marked unaudited has that operator's event
\* in the trail: what the hash of actor, action and resource as its id is for.
THEOREM SuccessIsOnRecord == Spec => []SuccessIsAudited
<1>1. IInv => SuccessIsAudited  BY DEF IInv, AnswersAreSound
<1> QED  BY <1>1, Inductive, PTL

\* What an answer says is in the store that counts, of any interleaving of requests
\* for the same record or observation, and stays so.
THEOREM AnswersHold == Spec => []AnswersAreTrue
<1>1. IInv => AnswersAreTrue  BY DEF IInv, AnswersAreSound
<1> QED  BY <1>1, Inductive, PTL

\* An observation posted after its record's PUT was acknowledged is never refused for
\* want of its source.
THEOREM AcknowledgedSourceSuffices == Spec => []SequenceIsHonoured
<1>1. IInv => SequenceIsHonoured  BY DEF IInv, Knows, IsAssured, SequenceIsHonoured
<1> QED  BY <1>1, Inductive, PTL
=============================================================================
