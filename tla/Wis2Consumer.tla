----------------------------- MODULE Wis2Consumer -----------------------------
(***************************************************************************)
(* weather_platform/ingestion/wis2.py: Wis2NotificationConsumer.process on *)
(* the deliveries of the broker, step by step, and the admission of its    *)
(* result.  The broker may deliver a message again or through a cache, and *)
(* what a link serves may change.                                          *)
(***************************************************************************)
EXTENDS AcquisitionStores

CONSTANTS Consumer, Link, Centre,
          Topic,     \* the topics deliveries come on
          Served     \* the source records each link may serve

ASSUME NotificationAssumption == Notification \subseteq Message(Link, Centre)
ASSUME TopicAssumption ==
  Topic \subseteq [channel: {"invalid", "origin", "cache"}, centre: Centre]
ASSUME ServedAssumption == Served \in [Link -> SUBSET Source]

VARIABLE delivery

NoDelivery == [at |-> "waiting", topic |-> None, message |-> None, data |-> None,
               label |-> None]

Wis2Init == delivery = [c \in Consumer |-> NoDelivery]

On(c, step) == delivery[c].at = step
Proceed(c, step) == delivery' = [delivery EXCEPT ![c].at = step]
GiveUp(c) == delivery' = [delivery EXCEPT ![c] = NoDelivery]

Receive(c, topic, message) ==
  /\ On(c, "waiting")
  /\ delivery' = [delivery EXCEPT ![c] = [NoDelivery EXCEPT !.at = "retain",
                                            !.topic = topic, !.message = message]]
  /\ UNCHANGED stores

\* The message is retained before anything in it, or its topic, is looked at.
RetainMessage(c) ==
  LET b == delivery[c].message IN
  /\ \/ On(c, "retain") /\ Existing(b) /\ Proceed(c, "validate")
     \/ On(c, "retain") /\ Publish(b) /\ Proceed(c, "sync")
     \/ On(c, "sync") /\ SyncRoot(b) /\ Proceed(c, "validate")
  /\ UNCHANGED <<ledger, interpreted>>

\* A cache must announce itself: its centre is the message's global-cache.
FromItsCache(topic, message) ==
  topic.channel = "cache" => message.cache = topic.centre

Acceptable(topic, message) ==
  /\ topic.channel # "invalid"
  /\ message.wellFormed
  /\ FromItsCache(topic, message)

Validate(c) ==
  LET topic == delivery[c].topic
      message == delivery[c].message IN
  /\ On(c, "validate")
  /\ Interpret(message)
  /\ \/ Acceptable(topic, message) /\ Proceed(c, "fetch")
     \/ ~Acceptable(topic, message) /\ GiveUp(c)
  /\ UNCHANGED <<archive, ledger>>

Fetch(c) ==
  /\ On(c, "fetch")
  /\ \E s \in Served[delivery[c].message.link] :
       delivery' = [delivery EXCEPT ![c] = [@ EXCEPT !.at = "retaindata", !.data = s]]
  /\ UNCHANGED stores

\* The data, too, are retained before they are verified.
MutRetainDataAfterVerify(c) ==
  /\ On(c, "retaindata")
  /\ Proceed(c, "verify")
  /\ UNCHANGED stores
RetainData(c) ==
  LET b == delivery[c].data IN
  /\ \/ On(c, "retaindata") /\ Existing(b) /\ Proceed(c, "verify")
     \/ On(c, "retaindata") /\ Publish(b) /\ Proceed(c, "syncdata")
     \/ On(c, "syncdata") /\ SyncRoot(b) /\ Proceed(c, "verify")
  /\ UNCHANGED <<ledger, interpreted>>

\* _verify_integrity: without a claim the platform's own digest is all there is.
VerifiedLabel(message) == IF message.claim = None THEN "platform" ELSE "upstream"

Verify(c) ==
  LET claim == delivery[c].message.claim IN
  /\ On(c, "verify")
  /\ Interpret(delivery[c].data)
  /\ \/ /\ claim \notin {None, delivery[c].data}
        /\ GiveUp(c)
     \/ /\ claim \in {None, delivery[c].data}
        /\ delivery' = [delivery EXCEPT ![c].at = "ingest",
                          ![c].label = VerifiedLabel(delivery[c].message)]
  /\ UNCHANGED <<archive, ledger>>

\* ingest_source_record stores the data once more, which finds them there, and
\* decodes them.
Ingest(c) ==
  /\ On(c, "ingest")
  /\ Existing(delivery[c].data)
  /\ \/ Claimed[delivery[c].data] = Undecodable /\ GiveUp(c)
     \/ Claimed[delivery[c].data] # Undecodable /\ Proceed(c, "result")
  /\ UNCHANGED <<ledger, interpreted>>

\* _bind_provenance: the message, not the payload, says who published it and when,
\* and the label says whether its claim was verified.
Bind(s, message, label) ==
  [Decoded(s) EXCEPT !.dataId = message.dataId, !.published = message.pubtime,
                     !.label = label]

\* The worker around process() is not in the repository: as the tests of process() do,
\* it hands the result to _admit_observations, rejected observations with the others.
AdmitResult(c) ==
  LET o == Bind(delivery[c].data, delivery[c].message, delivery[c].label) IN
  /\ On(c, "result")
  /\ \/ InConflict(o) /\ Proceed(c, "conflict") /\ UNCHANGED ledger
     \/ ~InConflict(o) /\ GiveUp(c) /\ ledger' = Admitted(o)
  /\ UNCHANGED <<archive, interpreted>>

\* A store raises, the link does not answer, a conflict is reported, or the
\* worker is killed: the delivery ends.
Drop(c) ==
  /\ ~On(c, "waiting")
  /\ GiveUp(c)
  /\ UNCHANGED stores

Wis2Step(c) ==
  \/ RetainMessage(c) \/ Validate(c) \/ Fetch(c) \/ RetainData(c) \/ Verify(c)
  \/ Ingest(c) \/ AdmitResult(c) \/ Drop(c)

Stage == {"waiting", "retain", "sync", "validate", "fetch", "retaindata", "syncdata",
          "verify", "ingest", "result", "conflict"}
Delivery == [at: Stage, topic: Topic \union {None},
             message: Notification \union {None}, data: Source \union {None},
             label: Label \union {None}]
Wis2TypeOK == delivery \in [Consumer -> Delivery]
=============================================================================
