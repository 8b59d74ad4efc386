------------------------------ MODULE Ingestion -------------------------------
(***************************************************************************)
(* The control plane and the WIS2 consumer at work on one raw source store *)
(* and one canonical observation store, through power losses.              *)
(***************************************************************************)
EXTENDS ControlPlane, Wis2Consumer

CONSTANTS MaxArrivals,   \* bound on the requests and deliveries of a behaviour
          MaxLosses      \* and on its power losses

ASSUME BoundAssumption == MaxArrivals \in Nat /\ MaxLosses \in Nat

VARIABLES arrivals, losses

vars == <<retained, secured, ledger, interpreted, call, delivery, arrivals, losses>>

Init == StoresInit /\ HttpInit /\ Wis2Init /\ arrivals = 0 /\ losses = 0

\* A request or a delivery, anew or once more.
Arrival ==
  /\ arrivals < MaxArrivals
  /\ arrivals' = arrivals + 1
  /\ \/ \E w \in Worker, request \in Request :
          Accept(w, request) /\ UNCHANGED delivery
     \/ \E c \in Consumer, topic \in Topic, message \in Notification :
          Receive(c, topic, message) /\ UNCHANGED call
  /\ UNCHANGED losses

\* Everybody dies; the raw store keeps at least what was secured.  Admitted lines
\* were fsynced.
PowerLoss ==
  /\ losses < MaxLosses
  /\ losses' = losses + 1
  /\ Archive!PowerLoss
  /\ call' = [w \in Worker |-> NoCall]
  /\ delivery' = [c \in Consumer |-> NoDelivery]
  /\ UNCHANGED <<ledger, interpreted, arrivals>>

Next ==
  \/ Arrival
  \/ \E w \in Worker : HttpStep(w) /\ UNCHANGED <<delivery, arrivals, losses>>
  \/ \E c \in Consumer : Wis2Step(c) /\ UNCHANGED <<call, arrivals, losses>>
  \/ PowerLoss

Spec == Init /\ [][Next]_vars

-----------------------------------------------------------------------------
TypeOK ==
  /\ retained \subseteq Bytes /\ secured \subseteq Bytes
  /\ ledger \subseteq Observation
  /\ interpreted \subseteq Bytes
  /\ HttpTypeOK
  /\ Wis2TypeOK
  /\ arrivals \in 0..MaxArrivals /\ losses \in 0..MaxLosses

\* "The original source message MUST be retained before interpretation": whatever
\* the platform has validated, verified or decoded, successfully or not, is in the
\* raw store as evidence, which only a power loss can take away.
EvidenceIsKept == losses = 0 => interpreted \subseteq retained

\* "observation provenance must reference a retained source record", on every path
\* into the canonical store and whatever happens afterwards, but for a power loss.
SourceBehindObservation ==
  losses = 0 => \A o \in ledger : o.source \in retained

\* "rejected observations cannot enter the canonical store" by HTTP, posted or decoded
\* from a source record, whatever else is under way with the same bytes: one that is in
\* the store is exactly what the consumer makes of a message of the broker and of data
\* that its link serves and its integrity claim does not contradict.
BroughtBy(n, o) ==
  /\ n.wellFormed
  /\ n.claim \in {None, o.source}
  /\ o.source \in Served[n.link]
  /\ o = Bind(o.source, n, VerifiedLabel(n))
RejectsOnlyFromBroker ==
  \A o \in ledger : o.quality = "reject" =>
    \E n \in interpreted \intersect Notification : BroughtBy(n, o)

\* "Keep upstream trust claims reserved for the WIS2 verification path": an
\* observation is labelled "upstream" only if a message of the broker carried an
\* integrity claim for exactly its source record, however often clients post the
\* observation or its bytes themselves, and whatever these assert.
UpstreamLabelIsVouched ==
  \A o \in ledger : o.label = "upstream" =>
    \E n \in interpreted \intersect Notification : n.claim = o.source

\* Bytes that reach the store by several paths, several times, under different
\* publication times or trust labels, make one canonical record under their derived
\* id: the first one.  A client may post more under ids of its own, or under the id
\* that belongs to other bytes.
OfOtherBytes(o) == \E s \in Source \ {o.source} : o.id = DerivedId(s)
OneRecordPerSource ==
  \A o, r \in ledger :
    o.source = r.source =>
      o = r \/ \E p \in {o, r} : p.id \in AssertedId \/ OfOtherBytes(p)

\* "observation provenance must reference a retained source record": without the
\* exception for power losses.
ObservationKeepsItsSource == \A o \in ledger : o.source \in retained

\* "Identical source bytes decoded by the same decoder version always yield the
\* same id, so redelivery is idempotent by construction": bytes that have been
\* delivered and have their observation in the store are not refused when they are
\* delivered again.  An observation that a client may have posted is no delivery.
MayBePosted(o) == \E r \in Request : r.kind = "observation" /\ o = Relabel(r.observation)
DeliveredAs(s) == {o \in ledger : o.id = DerivedId(s) /\ o.source = s /\ ~MayBePosted(o)}
RedeliveryIsIdempotent ==
  /\ \A w \in Worker :
       call[w].status = 409 /\ Kind(w) = "record" => DeliveredAs(Body(w)) = {}
  /\ \A c \in Consumer : On(c, "conflict") => DeliveredAs(delivery[c].data) = {}
=============================================================================
