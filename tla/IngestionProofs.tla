--------------------------- MODULE IngestionProofs ----------------------------
(***************************************************************************)
(* The evidence and trust invariants of Ingestion for any sources,         *)
(* messages, requests, workers and consumers.                              *)
(*                                                                         *)
(* What makes them inductive is what every step in progress already knows: *)
(* HttpOK and Wis2OK say which bytes a call or a delivery has retained and *)
(* what it has checked by the time it reaches each step.  Outside a power  *)
(* loss, which ends them all, retained and interpreted only grow, so they  *)
(* stay true while others move.                                            *)
(***************************************************************************)
EXTENDS Ingestion, TLAPS

\* What a call knows at each step.
HttpOK(w) ==
  /\ ~At(w, "idle") => call[w].request \in Request
  /\ call[w].at \in {"digest", "exists"} => Kind(w) = "put"
  /\ call[w].at \in {"store", "sync"} => Kind(w) \in {"record", "put"}
  /\ call[w].at \in {"disposition", "source"} => Kind(w) = "observation"
  /\ At(w, "decode") => Kind(w) = "record" /\ Body(w) \in retained
  /\ At(w, "source") => call[w].request.observation.quality # "reject"
  /\ At(w, "admit") => /\ Asserted(w) \in Observation
                       /\ Asserted(w).source \in retained
                       /\ Asserted(w).quality # "reject"

\* What a delivery knows at each step.
Wis2OK(c) ==
  /\ ~On(c, "waiting") => delivery[c].message \in Notification
  /\ On(c, "validate") => delivery[c].message \in retained
  /\ delivery[c].at \in {"fetch", "retaindata", "syncdata", "verify", "ingest", "result"}
       => delivery[c].message \in interpreted /\ delivery[c].message.wellFormed
  /\ delivery[c].at \in {"retaindata", "syncdata", "verify", "ingest", "result"}
       => delivery[c].data \in Served[delivery[c].message.link]
  /\ delivery[c].at \in {"verify", "ingest", "result"} => delivery[c].data \in retained
  /\ delivery[c].at \in {"ingest", "result"} =>
       /\ delivery[c].message.claim \in {None, delivery[c].data}
       /\ delivery[c].label = VerifiedLabel(delivery[c].message)
  /\ On(c, "result") => Claimed[delivery[c].data] # Undecodable

InProgress == (\A w \in Worker : HttpOK(w)) /\ (\A c \in Consumer : Wis2OK(c))

\* No two canonical observations have the same id.
OneRecordPerId == \A o, r \in ledger : o.id = r.id => o = r

IInv ==
  /\ TypeOK
  /\ OneRecordPerId
  /\ InProgress
  /\ EvidenceIsKept
  /\ SourceBehindObservation
  /\ RejectsOnlyFromBroker
  /\ UpstreamLabelIsVouched

-----------------------------------------------------------------------------
\* The fields of the constants' records.
LEMMA RequestFields ==
  \A r \in Request :
    /\ r.kind \in {"record", "put", "observation"}
    /\ r.kind \in {"record", "put"} => r.body \in Source
    /\ r.kind = "observation" => r.observation \in Observation
BY RequestAssumption

LEMMA MessageFields ==
  \A n \in Notification :
    n.link \in Link /\ n.claim \in Source \union {None} /\ n.dataId \in DataId /\ n.pubtime \in Time
BY NotificationAssumption DEF Message

LEMMA ServedData ==
  \A n \in Notification : Served[n.link] \subseteq Source
BY MessageFields, ServedAssumption

\* What the pipeline decodes is an observation of the retained source.
LEMMA DecodedType ==
  ASSUME NEW s \in Source, Claimed[s] # Undecodable
  PROVE  Decoded(s) \in Observation /\ Decoded(s).source = s
                                    /\ Decoded(s).quality = Claimed[s].quality
<1>1. Claimed[s] \in Assertion  BY ClaimedAssumption
<1>2. DerivedId(s) \in Id  BY DEF Id
<1> QED  BY <1>1, <1>2 DEF Decoded, Observation, Assertion

\* What the consumer binds to a message is an observation of the same source.
LEMMA BoundType ==
  ASSUME NEW s \in Source, Claimed[s] # Undecodable, NEW n \in Notification
  PROVE  LET o == Bind(s, n, VerifiedLabel(n)) IN
           o \in Observation /\ o.source = s /\ o.label = VerifiedLabel(n)
<1>1. Decoded(s) \in Observation /\ Decoded(s).source = s  BY DecodedType
<1>2. n.dataId \in DataId /\ n.pubtime \in Time  BY MessageFields
<1>3. VerifiedLabel(n) \in Label  BY DEF VerifiedLabel, Label
<1> QED  BY <1>1, <1>2, <1>3 DEF Bind, Observation

\* Steps that only add to what is retained and interpreted leave the knowledge of
\* a call or a delivery that does not move itself.
LEMMA HttpFrame ==
  ASSUME NEW w \in Worker, HttpOK(w), call'[w] = call[w], retained \subseteq retained'
  PROVE  HttpOK(w)'
BY DEF HttpOK, At, Kind, Body, Asserted, Decoded

LEMMA Wis2Frame ==
  ASSUME NEW c \in Consumer, Wis2OK(c), delivery'[c] = delivery[c],
         retained \subseteq retained', interpreted \subseteq interpreted'
  PROVE  Wis2OK(c)'
BY DEF Wis2OK, On

-----------------------------------------------------------------------------
\* What every step but a power loss does to the stores: they grow, by bytes that
\* are retained when they are interpreted, and by observations that are fit to be
\* in the canonical store.
Fit(o) ==
  /\ o \in Observation
  /\ o.source \in retained
  /\ o.quality = "reject" => \E n \in interpreted \intersect Notification : BroughtBy(n, o)
  /\ o.label = "upstream" => \E n \in interpreted \intersect Notification : n.claim = o.source

Growth ==
  /\ retained \subseteq retained' /\ retained' \subseteq Bytes /\ secured' \subseteq Bytes
  /\ interpreted \subseteq interpreted' /\ interpreted' \subseteq interpreted \union retained
  /\ \A o \in ledger' : o \in ledger \/ Fit(o)
  /\ OneRecordPerId => OneRecordPerId'
  /\ arrivals' \in 0..MaxArrivals
  /\ losses' = losses

LEMMA StoresUnchanged ==
  ASSUME TypeOK, UNCHANGED stores, arrivals' \in 0..MaxArrivals, losses' = losses
  PROVE  Growth
BY DEF Growth, stores, archive, TypeOK, OneRecordPerId

LEMMA Published ==
  ASSUME TypeOK, NEW b \in Bytes, Publish(b) \/ SyncRoot(b) \/ Existing(b),
         UNCHANGED <<ledger, interpreted, arrivals, losses>>
  PROVE  Growth /\ b \in retained' /\ (SyncRoot(b) \/ Existing(b) => b \in retained)
BY DEF Growth, TypeOK, OneRecordPerId, Publish, SyncRoot, Existing, archive,
       Archive!Retain, Archive!Secure

LEMMA Interpreted ==
  ASSUME TypeOK, NEW b \in retained, Interpret(b),
         UNCHANGED <<archive, ledger, arrivals, losses>>
  PROVE  Growth /\ b \in interpreted'
BY DEF Growth, TypeOK, OneRecordPerId, Interpret, archive

LEMMA Entered ==
  ASSUME TypeOK, NEW o, Fit(o), ledger' = Admitted(o),
         UNCHANGED <<archive, interpreted, arrivals, losses>>
  PROVE  Growth
BY DEF Growth, TypeOK, OneRecordPerId, Known, Admitted, archive

\* Growth keeps the invariants about the stores.
LEMMA GrowthKeeps ==
  ASSUME IInv, Growth, HttpTypeOK', Wis2TypeOK',
         (\A w \in Worker : HttpOK(w))', (\A c \in Consumer : Wis2OK(c))'
  PROVE  IInv'
<1>1. TypeOK'
  <2>1. ledger' \subseteq Observation  BY DEF IInv, TypeOK, Growth, Fit
  <2>2. interpreted' \subseteq Bytes  BY DEF IInv, TypeOK, Growth
  <2> QED  BY <2>1, <2>2 DEF IInv, TypeOK, Growth
<1>2. EvidenceIsKept'  BY DEF IInv, EvidenceIsKept, Growth
<1>3. SourceBehindObservation'  BY DEF IInv, SourceBehindObservation, Growth, Fit
<1>4. RejectsOnlyFromBroker'
  BY DEF IInv, RejectsOnlyFromBroker, Growth, Fit, BroughtBy, Bind, Decoded, DerivedId,
         VerifiedLabel
<1>5. UpstreamLabelIsVouched'
  BY DEF IInv, UpstreamLabelIsVouched, Growth, Fit
<1>6. InProgress'  BY DEF InProgress
<1> QED  BY <1>1, <1>2, <1>3, <1>4, <1>5, <1>6 DEF IInv, Growth

\* Only one actor moves at a time.
Moves(w) == HttpTypeOK' /\ \A u \in Worker \ {w} : call'[u] = call[u]
Advances(c) == Wis2TypeOK' /\ \A d \in Consumer \ {c} : delivery'[d] = delivery[d]

LEMMA Went ==
  ASSUME HttpTypeOK, NEW w \in Worker, NEW step \in Step, Goto(w, step)
  PROVE  /\ Moves(w)
         /\ call'[w] = [call[w] EXCEPT !.at = step]
         /\ call'[w].at = step /\ call'[w].request = call[w].request
<1>1. call[w] \in Call  BY DEF HttpTypeOK
<1>2. [call[w] EXCEPT !.at = step] \in Call  BY <1>1 DEF Call
<1>3. call' = [call EXCEPT ![w] = [call[w] EXCEPT !.at = step]]  BY DEF Goto
<1>4. call'[w] = [call[w] EXCEPT !.at = step]  BY <1>3 DEF HttpTypeOK
<1>5. call'[w].at = step /\ call'[w].request = call[w].request  BY <1>1, <1>4 DEF Call
<1> QED  BY <1>2, <1>3, <1>4, <1>5 DEF HttpTypeOK, Moves

LEMMA Responded ==
  ASSUME HttpTypeOK, NEW w \in Worker, ~At(w, "idle"),
         NEW code \in Status, Respond(w, code), HttpOK(w)
  PROVE  Moves(w) /\ HttpOK(w)'
<1>1. call[w] \in Call  BY DEF HttpTypeOK
<1> DEFINE new == [call[w] EXCEPT !.at = "answer", !.status = code]
<1>2. new \in Call
  <2>1. "answer" \in Step  BY DEF Step
  <2> QED  BY <1>1, <2>1 DEF Call
<1>3. call' = [call EXCEPT ![w] = new]  BY DEF Respond
<1>4. call'[w] = new  BY <1>3 DEF HttpTypeOK
<1>5. new.at = "answer" /\ new.request = call[w].request  BY <1>1 DEF Call
<1>6. Moves(w)  BY <1>2, <1>3 DEF HttpTypeOK, Moves
<1>7. HttpOK(w)'  BY <1>4, <1>5 DEF HttpOK, At, Kind, Body, Asserted
<1> QED  BY <1>6, <1>7

LEMMA Ended ==
  ASSUME HttpTypeOK, NEW w \in Worker, call' = [call EXCEPT ![w] = NoCall]
  PROVE  Moves(w) /\ HttpOK(w)'
<1>1. NoCall \in Call /\ NoCall.at = "idle"  BY DEF NoCall, Call, Step, Status
<1>2. call'[w] = NoCall  BY DEF HttpTypeOK
<1> QED  BY <1>1, <1>2 DEF HttpTypeOK, Moves, HttpOK, At

LEMMA OneCallMoves ==
  ASSUME IInv, Growth, NEW w \in Worker, Moves(w), HttpOK(w)', UNCHANGED delivery
  PROVE  IInv'
<1>1. HttpTypeOK' /\ Wis2TypeOK'  BY DEF IInv, TypeOK, Moves, Wis2TypeOK
<1>2. \A u \in Worker : HttpOK(u)'
  <2> TAKE u \in Worker
  <2>1. CASE u = w  BY <2>1
  <2>2. CASE u # w
    <3>1. call'[u] = call[u]  BY <2>2 DEF Moves
    <3> QED  BY <3>1, HttpFrame DEF IInv, InProgress, Growth
  <2> QED  BY <2>1, <2>2
<1>3. \A c \in Consumer : Wis2OK(c)'
  BY Wis2Frame DEF IInv, InProgress, Growth
<1> QED  BY <1>1, <1>2, <1>3, GrowthKeeps

LEMMA OneDeliveryMoves ==
  ASSUME IInv, Growth, NEW c \in Consumer, Advances(c), Wis2OK(c)', UNCHANGED call
  PROVE  IInv'
<1>1. HttpTypeOK' /\ Wis2TypeOK'  BY DEF IInv, TypeOK, Advances, HttpTypeOK
<1>2. \A d \in Consumer : Wis2OK(d)'
  <2> TAKE d \in Consumer
  <2>1. CASE d = c  BY <2>1
  <2>2. CASE d # c
    <3>1. delivery'[d] = delivery[d]  BY <2>2 DEF Advances
    <3> QED  BY <3>1, Wis2Frame DEF IInv, InProgress, Growth
  <2> QED  BY <2>1, <2>2
<1>3. \A w \in Worker : HttpOK(w)'
  BY HttpFrame DEF IInv, InProgress, Growth
<1> QED  BY <1>1, <1>2, <1>3, GrowthKeeps

-----------------------------------------------------------------------------
\* The steps of a handler, one by one.
LEMMA HttpStepKeeps ==
  ASSUME IInv, NEW w \in Worker, HttpStep(w), UNCHANGED <<delivery, arrivals, losses>>
  PROVE  IInv'
<1>1. TypeOK /\ HttpTypeOK /\ call[w] \in Call /\ HttpOK(w)
  BY DEF IInv, TypeOK, HttpTypeOK, InProgress
<1>2. ~At(w, "idle") => call[w].request \in Request  BY <1>1 DEF HttpOK
<1>3. arrivals' \in 0..MaxArrivals /\ losses' = losses  BY <1>1 DEF TypeOK
<1>4. UNCHANGED stores => Growth  BY <1>1, <1>3, StoresUnchanged
<1>a. {"exists", "sync", "decode", "source", "admit"} \subseteq Step  BY DEF Step
<1>b. {200, 201, 202, 409, 422} \subseteq Status  BY DEF Status
<1>5. SUFFICES Growth /\ Moves(w) /\ HttpOK(w)'  BY OneCallMoves
<1>6. CASE VerifyDigest(w)
  <2>1. CASE Goto(w, "exists")
    BY <1>1, <1>4, <1>6, <2>1, <1>a, Went DEF VerifyDigest, HttpOK, At, Kind, Body, Asserted
  <2>2. CASE Respond(w, 422)
    BY <1>1, <1>4, <1>6, <2>2, <1>b, Responded DEF VerifyDigest, At
  <2> QED  BY <1>6, <2>1, <2>2 DEF VerifyDigest
<1>7. CASE ReadPresence(w)
  <2>0. "store" \in Step  BY DEF Step
  <2>a. (Body(w) \in retained) \in BOOLEAN  OBVIOUS
  <2>b. PICK already \in BOOLEAN :
           call' = [call EXCEPT ![w] = [call[w] EXCEPT !.at = "store", !.already = already]]
    BY <1>7, <2>a, Zenon DEF ReadPresence
  <2> DEFINE new == [call[w] EXCEPT !.at = "store", !.already = already]
  <2>1. new \in Call /\ new.at = "store" /\ new.request = call[w].request
    BY <1>1, <2>0 DEF Call
  <2>2. call' = [call EXCEPT ![w] = new]  BY <2>b
  <2>3. call'[w] = new /\ Moves(w)  BY <1>1, <2>1, <2>2 DEF HttpTypeOK, Moves
  <2>4. HttpOK(w)'  BY <1>1, <1>7, <2>1, <2>3 DEF ReadPresence, HttpOK, At, Kind, Body, Asserted
  <2> QED  BY <1>4, <1>7, <2>3, <2>4 DEF ReadPresence
<1>8. CASE Retain(w) \/ Sync(w)
  <2>1. Kind(w) \in {"record", "put"} /\ Body(w) \in Source /\ ~At(w, "idle")
    BY <1>1, <1>2, <1>8, RequestFields DEF Retain, Sync, HttpOK, At, Kind, Body
  <2>2. Body(w) \in Bytes  BY <2>1 DEF Bytes
  <2>3. UNCHANGED <<ledger, interpreted>>  BY <1>8 DEF Retain, Sync
  <2>4. Growth /\ Body(w) \in retained'
    BY <1>1, <1>3, <1>8, <2>2, <2>3, Published DEF Retain, Sync
  <2>5. CASE Goto(w, "sync")
    BY <1>1, <2>1, <2>4, <2>5, <1>a, Went DEF HttpOK, At, Kind, Body, Asserted
  <2>6. CASE Kind(w) = "record" /\ Goto(w, "decode")
    BY <1>1, <2>1, <2>4, <2>6, <1>a, Went DEF HttpOK, At, Kind, Body, Asserted
  <2>7. CASE \E code \in {200, 201} : Respond(w, code)
    BY <1>1, <2>1, <2>4, <2>7, <1>b, Responded
  <2> QED  BY <1>8, <2>5, <2>6, <2>7 DEF Retain, Sync, Stored
<1>9. CASE Decode(w)
  <2>1. Kind(w) = "record" /\ Body(w) \in retained /\ Body(w) \in Source /\ ~At(w, "idle")
    BY <1>1, <1>2, <1>9, RequestFields DEF Decode, HttpOK, At, Kind, Body
  <2>2. Growth  BY <1>1, <1>3, <1>9, <2>1, Interpreted DEF Decode
  <2>3. CASE Respond(w, 422)  BY <1>1, <2>1, <2>2, <2>3, <1>b, Responded
  <2>4. CASE Goto(w, "admit") /\ Claimed[Body(w)] # Undecodable /\ Claimed[Body(w)].quality # "reject"
    <3>1. Moves(w) /\ call'[w] = [call[w] EXCEPT !.at = "admit"]  BY <1>1, <2>4, <1>a, Went
    <3>2. call'[w].at = "admit" /\ call'[w].request = call[w].request  BY <1>1, <1>a, <2>4, Went
    <3>3. Asserted(w)' = Decoded(Body(w))
      BY <2>1, <3>2 DEF Asserted, Kind, Body, Decoded
    <3>4. Asserted(w)' \in Observation /\ Asserted(w)'.source \in retained'
                                      /\ Asserted(w)'.quality # "reject"
      BY <2>1, <2>2, <2>4, <3>3, DecodedType DEF Growth
    <3> QED  BY <1>1, <1>2, <2>1, <2>2, <3>1, <3>2, <3>4 DEF HttpOK, At, Kind
  <2> QED  BY <1>9, <2>3, <2>4 DEF Decode
<1>10. CASE RefuseRejected(w)
  <2>1. CASE Respond(w, 422)
    BY <1>1, <1>4, <1>10, <2>1, <1>b, Responded DEF RefuseRejected, At
  <2>2. CASE Goto(w, "source") /\ call[w].request.observation.quality # "reject"
    BY <1>1, <1>4, <1>10, <2>2, <1>a, Went DEF RefuseRejected, HttpOK, At, Kind, Body, Asserted
  <2> QED  BY <1>10, <2>1, <2>2 DEF RefuseRejected
<1>11. CASE RequireRetainedSource(w)
  <2>1. Kind(w) = "observation" /\ call[w].request.observation \in Observation
                                /\ call[w].request.observation.quality # "reject"
                                /\ ~At(w, "idle")
    BY <1>1, <1>2, <1>11, RequestFields DEF RequireRetainedSource, HttpOK, At, Kind
  <2>2. Growth  BY <1>4, <1>11 DEF RequireRetainedSource
  <2>3. CASE Respond(w, 422)  BY <1>1, <2>1, <2>2, <2>3, <1>b, Responded
  <2>4. CASE Goto(w, "admit") /\ call[w].request.observation.source \in retained
    <3>1. Moves(w) /\ call'[w] = [call[w] EXCEPT !.at = "admit"]  BY <1>1, <2>4, <1>a, Went
    <3>2. call'[w].at = "admit" /\ call'[w].request = call[w].request  BY <1>1, <1>a, <2>4, Went
    <3>3. Asserted(w)' = call[w].request.observation
      BY <2>1, <3>2 DEF Asserted, Kind, Body, Decoded
    <3> QED  BY <1>1, <1>2, <2>1, <2>2, <2>4, <3>1, <3>2, <3>3 DEF HttpOK, At, Kind, Growth
  <2> QED  BY <1>11, <2>3, <2>4 DEF RequireRetainedSource
<1>12. CASE Admit(w)
  <2> DEFINE o == Relabel(Asserted(w))
  <2>1. ~At(w, "idle") /\ Asserted(w) \in Observation /\ Asserted(w).source \in retained
                       /\ Asserted(w).quality # "reject"
    BY <1>1, <1>12 DEF Admit, HttpOK, At
  <2>2. Fit(o)  BY <2>1 DEF Fit, Relabel, Observation, Label
  <2>3. Growth
    <3>1. CASE UNCHANGED ledger
      BY <1>4, <1>12, <3>1 DEF Admit, stores
    <3>2. CASE ledger' = Admitted(o)
      BY <1>1, <1>3, <1>12, <2>2, <3>2, Entered DEF Admit
    <3> QED  BY <1>12, <3>1, <3>2 DEF Admit
  <2>4. PICK code \in Status : Respond(w, code)  BY <1>b, <1>12 DEF Admit
  <2> QED  BY <1>1, <2>1, <2>3, <2>4, <1>b, Responded
<1>13. CASE Answer(w) \/ Fail(w)
  BY <1>1, <1>4, <1>13, Ended DEF Answer, Fail
<1> QED
  BY <1>6, <1>7, <1>8, <1>9, <1>10, <1>11, <1>12, <1>13 DEF HttpStep

-----------------------------------------------------------------------------
\* The steps of a delivery, one by one.
LEMMA Proceeded ==
  ASSUME Wis2TypeOK, NEW c \in Consumer, NEW stage \in Stage, Proceed(c, stage)
  PROVE  /\ Advances(c)
         /\ delivery'[c] = [delivery[c] EXCEPT !.at = stage]
         /\ delivery'[c].at = stage
         /\ delivery'[c].message = delivery[c].message
         /\ delivery'[c].data = delivery[c].data
         /\ delivery'[c].label = delivery[c].label
<1>1. delivery[c] \in Delivery  BY DEF Wis2TypeOK
<1>2. [delivery[c] EXCEPT !.at = stage] \in Delivery  BY <1>1 DEF Delivery
<1>3. delivery' = [delivery EXCEPT ![c] = [delivery[c] EXCEPT !.at = stage]]  BY DEF Proceed
<1>4. delivery'[c] = [delivery[c] EXCEPT !.at = stage]  BY <1>3 DEF Wis2TypeOK
<1>5. Advances(c)  BY <1>2, <1>3 DEF Wis2TypeOK, Advances
<1> QED  BY <1>1, <1>4, <1>5 DEF Delivery

LEMMA GaveUp ==
  ASSUME Wis2TypeOK, NEW c \in Consumer, GiveUp(c)
  PROVE  Advances(c) /\ Wis2OK(c)'
<1>1. NoDelivery \in Delivery /\ NoDelivery.at = "waiting"
  BY DEF NoDelivery, Delivery, Stage
<1>2. delivery'[c] = NoDelivery  BY DEF Wis2TypeOK, GiveUp
<1>3. Wis2OK(c)'  BY <1>1, <1>2 DEF Wis2OK, On
<1>4. Advances(c)  BY <1>1 DEF Wis2TypeOK, Advances, GiveUp
<1> QED  BY <1>3, <1>4

LEMMA Wis2StepKeeps ==
  ASSUME IInv, NEW c \in Consumer, Wis2Step(c), UNCHANGED <<call, arrivals, losses>>
  PROVE  IInv'
<1>1. TypeOK /\ Wis2TypeOK /\ delivery[c] \in Delivery /\ Wis2OK(c)
  BY DEF IInv, TypeOK, Wis2TypeOK, InProgress
<1>2. arrivals' \in 0..MaxArrivals /\ losses' = losses  BY <1>1 DEF TypeOK
<1>3. UNCHANGED stores => Growth  BY <1>1, <1>2, StoresUnchanged
<1>4. {"sync", "validate", "fetch", "retaindata", "syncdata", "verify", "ingest",
       "result", "conflict"} \subseteq Stage
  BY DEF Stage
<1>5. SUFFICES Growth /\ Advances(c) /\ Wis2OK(c)'  BY OneDeliveryMoves
<1>6. CASE RetainMessage(c)
  <2>1. delivery[c].message \in Notification  BY <1>1, <1>6 DEF RetainMessage, Wis2OK, On
  <2>2. delivery[c].message \in Bytes  BY <2>1 DEF Bytes
  <2>3. Growth /\ delivery[c].message \in retained'
    BY <1>1, <1>2, <1>6, <2>2, Published DEF RetainMessage
  <2>4. PICK stage \in {"sync", "validate"} : Proceed(c, stage)  BY <1>6 DEF RetainMessage
  <2> QED  BY <1>1, <1>4, <2>1, <2>3, <2>4, Proceeded DEF Wis2OK, On
<1>7. CASE Validate(c)
  <2>1. delivery[c].message \in Notification \intersect retained
    BY <1>1, <1>7 DEF Validate, Wis2OK, On
  <2>2. Growth /\ delivery[c].message \in interpreted'
    BY <1>1, <1>2, <1>7, <2>1, Interpreted DEF Validate
  <2>3. CASE delivery[c].message.wellFormed /\ Proceed(c, "fetch")
    BY <1>1, <1>4, <2>1, <2>2, <2>3, Proceeded DEF Wis2OK, On
  <2>4. CASE GiveUp(c)  BY <1>1, <2>2, <2>4, GaveUp
  <2> QED  BY <1>7, <2>3, <2>4 DEF Validate, Acceptable
<1>8. CASE Fetch(c)
  <2>1. /\ delivery[c].message \in Notification \intersect interpreted
        /\ delivery[c].message.wellFormed
    BY <1>1, <1>8 DEF Fetch, Wis2OK, On
  <2>2. delivery[c].message.link \in Link  BY <2>1, MessageFields
  <2>3. PICK s \in Served[delivery[c].message.link] :
          delivery' = [delivery EXCEPT ![c] = [delivery[c] EXCEPT !.at = "retaindata", !.data = s]]
    BY <1>8 DEF Fetch
  <2>a. s \in Source  BY <2>2, ServedAssumption
  <2> DEFINE new == [delivery[c] EXCEPT !.at = "retaindata", !.data = s]
  <2>4. /\ new \in Delivery /\ new.at = "retaindata" /\ new.data = s
        /\ new.message = delivery[c].message
    BY <1>1, <1>4, <2>3, <2>a DEF Delivery
  <2>5. delivery'[c] = new /\ Advances(c)  BY <1>1, <2>3, <2>4 DEF Wis2TypeOK, Advances
  <2>6. Growth  BY <1>3, <1>8 DEF Fetch
  <2> QED  BY <2>1, <2>3, <2>4, <2>5, <2>6 DEF Wis2OK, On, Growth
<1>9. CASE RetainData(c)
  <2>1. /\ delivery[c].message \in Notification \intersect interpreted
        /\ delivery[c].message.wellFormed
        /\ delivery[c].data \in Served[delivery[c].message.link]
    BY <1>1, <1>9 DEF RetainData, Wis2OK, On
  <2>2. delivery[c].data \in Bytes  BY <2>1, ServedData DEF Bytes
  <2>3. Growth /\ delivery[c].data \in retained'
    BY <1>1, <1>2, <1>9, <2>2, Published DEF RetainData
  <2>4. PICK stage \in {"syncdata", "verify"} : Proceed(c, stage)  BY <1>9 DEF RetainData
  <2> QED  BY <1>1, <1>4, <2>1, <2>3, <2>4, Proceeded DEF Wis2OK, On, Growth
<1>10. CASE Verify(c)
  <2>1. /\ delivery[c].message \in Notification \intersect interpreted
        /\ delivery[c].message.wellFormed
        /\ delivery[c].data \in Served[delivery[c].message.link]
        /\ delivery[c].data \in retained
    BY <1>1, <1>10 DEF Verify, Wis2OK, On
  <2>2. Growth  BY <1>1, <1>2, <1>10, <2>1, Interpreted DEF Verify
  <2>3. CASE GiveUp(c)  BY <1>1, <2>2, <2>3, GaveUp
  <2>4. CASE delivery[c].message.claim \in {None, delivery[c].data}
             /\ delivery' = [delivery EXCEPT ![c] = [delivery[c] EXCEPT !.at = "ingest",
                  !.label = VerifiedLabel(delivery[c].message)]]
    <3>1. PICK label \in Label : label = VerifiedLabel(delivery[c].message)
      BY DEF VerifiedLabel, Label
    <3> DEFINE new == [delivery[c] EXCEPT !.at = "ingest", !.label = label]
    <3>2. /\ new \in Delivery /\ new.at = "ingest" /\ new.label = label
          /\ new.message = delivery[c].message /\ new.data = delivery[c].data
      BY <1>1, <1>4, <3>1 DEF Delivery
    <3>3. delivery'[c] = new /\ Advances(c)
      BY <1>1, <2>4, <3>1, <3>2 DEF Wis2TypeOK, Advances
    <3> QED  BY <2>1, <2>2, <2>4, <3>1, <3>2, <3>3 DEF Wis2OK, On, Growth
  <2> QED  BY <1>10, <2>3, <2>4 DEF Verify
<1>11. CASE Ingest(c)
  <2>1. UNCHANGED stores  BY <1>11 DEF Ingest, Existing, stores
  <2>2. CASE GiveUp(c)  BY <1>1, <1>3, <2>1, <2>2, GaveUp
  <2>3. CASE Claimed[delivery[c].data] # Undecodable /\ Proceed(c, "result")
    BY <1>1, <1>3, <1>4, <1>11, <2>1, <2>3, Proceeded DEF Ingest, Wis2OK, On, Growth
  <2> QED  BY <1>11, <2>2, <2>3 DEF Ingest
<1>12. CASE AdmitResult(c)
  <2> DEFINE n == delivery[c].message
             o == Bind(delivery[c].data, n, delivery[c].label)
  <2>1. /\ n \in Notification \intersect interpreted
        /\ n.wellFormed /\ n.claim \in {None, delivery[c].data}
        /\ delivery[c].data \in Served[n.link] \intersect retained
        /\ delivery[c].label = VerifiedLabel(n)
        /\ Claimed[delivery[c].data] # Undecodable
    BY <1>1, <1>12 DEF AdmitResult, Wis2OK, On
  <2>2. o \in Observation /\ o.source = delivery[c].data /\ o.label = VerifiedLabel(n)
    BY <2>1, BoundType, ServedData
  <2>3. CASE Proceed(c, "conflict") /\ UNCHANGED ledger
    BY <1>1, <1>3, <1>4, <1>12, <2>1, <2>3, Proceeded DEF AdmitResult, stores, Wis2OK, On
  <2>4. CASE GiveUp(c) /\ ledger' = Admitted(o)
    <3>1. BroughtBy(n, o)  BY <2>1, <2>2 DEF BroughtBy
    <3>2. o.label = "upstream" => n.claim = o.source
      BY <2>1, <2>2 DEF VerifiedLabel
    <3>3. Fit(o)  BY <2>1, <2>2, <3>1, <3>2 DEF Fit
    <3>4. Growth  BY <1>1, <1>2, <1>12, <2>4, <3>3, Entered DEF AdmitResult
    <3> QED  BY <1>1, <2>4, <3>4, GaveUp
  <2> QED  BY <1>12, <2>3, <2>4 DEF AdmitResult
<1>13. CASE Drop(c)  BY <1>1, <1>3, <1>13, GaveUp DEF Drop
<1> QED
  BY <1>6, <1>7, <1>8, <1>9, <1>10, <1>11, <1>12, <1>13 DEF Wis2Step

-----------------------------------------------------------------------------
LEMMA ArrivalKeeps == ASSUME IInv, Arrival PROVE IInv'
<1>1. TypeOK /\ HttpTypeOK /\ Wis2TypeOK  BY DEF IInv, TypeOK
<1>2. arrivals' \in 0..MaxArrivals /\ losses' = losses
  BY <1>1, BoundAssumption DEF Arrival, TypeOK
<1>3. CASE \E w \in Worker, request \in Request : Accept(w, request) /\ UNCHANGED delivery
  <2>1. PICK w \in Worker, request \in Request : Accept(w, request) /\ UNCHANGED delivery
    BY <1>3
  <2>2. request.kind \in {"record", "put", "observation"}  BY RequestFields
  <2>a. /\ FirstStep["record"] = "store" /\ FirstStep["put"] = "digest"
        /\ FirstStep["observation"] = "disposition"
    BY DEF FirstStep
  <2>b. call' = [call EXCEPT ![w] = [NoCall EXCEPT !.at = FirstStep[request.kind],
                                                   !.request = request]]
    BY <2>1 DEF Accept
  <2>3. PICK step \in {"store", "digest", "disposition"} :
          /\ call' = [call EXCEPT ![w] = [NoCall EXCEPT !.at = step, !.request = request]]
          /\ step = "store" => request.kind = "record"
          /\ step = "digest" => request.kind = "put"
          /\ step = "disposition" => request.kind = "observation"
    BY <2>2, <2>a, <2>b
  <2> DEFINE new == [NoCall EXCEPT !.at = step, !.request = request]
  <2>4. new \in Call /\ new.at = step /\ new.request = request
    BY <2>3 DEF NoCall, Call, Step, Status
  <2>5. call'[w] = new /\ Moves(w)  BY <1>1, <2>3, <2>4 DEF HttpTypeOK, Moves
  <2>6. HttpOK(w)'  BY <2>3, <2>4, <2>5 DEF HttpOK, At, Kind, Body, Asserted
  <2>7. Growth  BY <1>1, <1>2, <2>1, StoresUnchanged DEF Accept
  <2> QED  BY <2>1, <2>5, <2>6, <2>7, OneCallMoves
<1>4. CASE \E c \in Consumer, topic \in Topic, message \in Notification :
             Receive(c, topic, message) /\ UNCHANGED call
  <2>1. PICK c \in Consumer, topic \in Topic, message \in Notification :
             Receive(c, topic, message) /\ UNCHANGED call
    BY <1>4
  <2> DEFINE new == [NoDelivery EXCEPT !.at = "retain", !.topic = topic, !.message = message]
  <2>2. new \in Delivery /\ new.at = "retain" /\ new.message = message
    BY DEF NoDelivery, Delivery, Stage
  <2>3. delivery' = [delivery EXCEPT ![c] = new]  BY <2>1 DEF Receive
  <2>4. delivery'[c] = new /\ Advances(c)  BY <1>1, <2>2, <2>3 DEF Wis2TypeOK, Advances
  <2>5. Wis2OK(c)'  BY <2>2, <2>4 DEF Wis2OK, On
  <2>6. Growth  BY <1>1, <1>2, <2>1, StoresUnchanged DEF Receive
  <2> QED  BY <2>1, <2>4, <2>5, <2>6, OneDeliveryMoves
<1> QED  BY <1>3, <1>4 DEF Arrival

\* A power loss may take records away, which its count excuses, and ends every
\* call and delivery.
LEMMA PowerLossKeeps == ASSUME IInv, PowerLoss PROVE IInv'
<1>1. retained' \subseteq Bytes /\ secured' \subseteq Bytes
  BY DEF IInv, TypeOK, PowerLoss, Archive!PowerLoss
<1>2. losses' \in 0..MaxLosses /\ losses' # 0
  BY BoundAssumption DEF IInv, TypeOK, PowerLoss
<1>3. NoCall \in Call /\ NoCall.at = "idle"  BY DEF NoCall, Call, Step, Status
<1>4. NoDelivery \in Delivery /\ NoDelivery.at = "waiting"
  BY DEF NoDelivery, Delivery, Stage
<1>5. HttpTypeOK' /\ Wis2TypeOK'
  BY <1>3, <1>4 DEF PowerLoss, HttpTypeOK, Wis2TypeOK
<1>6. \A w \in Worker : HttpOK(w)'  BY <1>3 DEF PowerLoss, HttpOK, At
<1>7. \A c \in Consumer : Wis2OK(c)'  BY <1>4 DEF PowerLoss, Wis2OK, On
<1>8. TypeOK' /\ InProgress'
  BY <1>1, <1>2, <1>5, <1>6, <1>7 DEF IInv, TypeOK, InProgress, PowerLoss
<1> QED
  BY <1>2, <1>8 DEF IInv, EvidenceIsKept, SourceBehindObservation, RejectsOnlyFromBroker,
                    UpstreamLabelIsVouched, OneRecordPerId, PowerLoss

LEMMA IInvInitially == Init => IInv
<1> SUFFICES ASSUME Init PROVE IInv  OBVIOUS
<1>1. NoCall \in Call /\ NoCall.at = "idle"  BY DEF NoCall, Call, Step, Status
<1>2. NoDelivery \in Delivery /\ NoDelivery.at = "waiting"
  BY DEF NoDelivery, Delivery, Stage
<1>3. retained = {} /\ secured = {} /\ ledger = {} /\ interpreted = {}
  BY DEF Init, StoresInit, Archive!Init
<1>4. TypeOK
  BY <1>1, <1>2, <1>3, BoundAssumption
     DEF Init, HttpInit, Wis2Init, TypeOK, HttpTypeOK, Wis2TypeOK
<1>5. InProgress
  BY <1>1, <1>2 DEF Init, HttpInit, Wis2Init, InProgress, HttpOK, Wis2OK, At, On
<1> QED
  BY <1>3, <1>4, <1>5 DEF IInv, EvidenceIsKept, SourceBehindObservation, RejectsOnlyFromBroker,
                          UpstreamLabelIsVouched, OneRecordPerId

LEMMA IInvPreserved == IInv /\ [Next]_vars => IInv'
<1> SUFFICES ASSUME IInv, [Next]_vars PROVE IInv'  OBVIOUS
<1>1. CASE Arrival  BY <1>1, ArrivalKeeps
<1>2. CASE PowerLoss  BY <1>2, PowerLossKeeps
<1>3. CASE \E w \in Worker : HttpStep(w) /\ UNCHANGED <<delivery, arrivals, losses>>
  BY <1>3, HttpStepKeeps
<1>4. CASE \E c \in Consumer : Wis2Step(c) /\ UNCHANGED <<call, arrivals, losses>>
  BY <1>4, Wis2StepKeeps
<1>5. CASE UNCHANGED vars
  <2>1. Growth /\ HttpTypeOK' /\ Wis2TypeOK'
    BY <1>5, StoresUnchanged DEF vars, IInv, TypeOK, HttpTypeOK, Wis2TypeOK, stores, archive
  <2>2. (\A w \in Worker : HttpOK(w))' /\ (\A c \in Consumer : Wis2OK(c))'
    BY <1>5, HttpFrame, Wis2Frame DEF vars, IInv, InProgress
  <2> QED  BY <2>1, <2>2, GrowthKeeps
<1> QED  BY <1>1, <1>2, <1>3, <1>4, <1>5 DEF Next

THEOREM IInvHolds == Spec => []IInv
BY IInvInitially, IInvPreserved, PTL DEF Spec

\* The state keeps its type, for any requests, messages and payloads.
THEOREM TypeCorrect == Spec => []TypeOK
<1>1. IInv => TypeOK  BY DEF IInv
<1> QED  BY <1>1, IInvHolds, PTL

\* Retain before interpreting, on every path.
THEOREM EvidenceIsKeptHolds == Spec => []EvidenceIsKept
<1>1. IInv => EvidenceIsKept  BY DEF IInv
<1> QED  BY <1>1, IInvHolds, PTL

\* No observation without its retained source, on every path.
THEOREM SourceBehindObservationHolds == Spec => []SourceBehindObservation
<1>1. IInv => SourceBehindObservation  BY DEF IInv
<1> QED  BY <1>1, IInvHolds, PTL

\* A rejected observation is in the canonical store only as the consumer's own reading
\* of a message and of the data behind it; none came by HTTP.
THEOREM RejectsOnlyFromBrokerHolds == Spec => []RejectsOnlyFromBroker
<1>1. IInv => RejectsOnlyFromBroker  BY DEF IInv
<1> QED  BY <1>1, IInvHolds, PTL

\* Only a broker's integrity claim earns the upstream label.
THEOREM UpstreamLabelIsVouchedHolds == Spec => []UpstreamLabelIsVouched
<1>1. IInv => UpstreamLabelIsVouched  BY DEF IInv
<1> QED  BY <1>1, IInvHolds, PTL

\* One source makes one record, but for ids that clients choose.
THEOREM OneRecordPerSourceHolds == Spec => []OneRecordPerSource
<1>1. ASSUME IInv PROVE OneRecordPerSource
  <2> SUFFICES ASSUME NEW o \in ledger, NEW r \in ledger, o.source = r.source,
                      \A p \in {o, r} : p.id \notin AssertedId /\ ~OfOtherBytes(p)
               PROVE  o = r
    BY DEF OneRecordPerSource
  <2>1. \A p \in {o, r} : p.id = DerivedId(p.source)
    <3> TAKE p \in {o, r}
    <3>1. p \in Observation  BY <1>1 DEF IInv, TypeOK
    <3>2. PICK s \in Source : p.id = DerivedId(s)  BY <3>1 DEF Observation, Id
    <3> QED  BY <3>2 DEF OfOtherBytes
  <2> QED  BY <1>1, <2>1 DEF IInv, OneRecordPerId
<1> QED  BY <1>1, IInvHolds, PTL
=============================================================================
