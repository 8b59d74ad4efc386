-------------------------- MODULE ObservationLedger ---------------------------
(***************************************************************************)
(* What the canonical observation store promises its clients: one record   *)
(* per observation id, first come, never changed, and an acceptance only   *)
(* for content that is in the ledger and never leaves it again.  A crash   *)
(* may take away records that nobody was told about.                       *)
(***************************************************************************)
CONSTANTS Observation,   \* records with an id, a content and a receipt
          Same(_, _)     \* equal in everything but the receipt

VARIABLES ledger, accepted

vars == <<ledger, accepted>>

\* Everything accepted is in the ledger.
Kept(records) == \A o \in accepted : \E r \in records : Same(r, o)

Init ==
  /\ ledger \subseteq Observation /\ accepted \subseteq Observation
  /\ \A r, q \in ledger : r.id = q.id => r = q
  /\ Kept(ledger)

Enter(o) ==
  /\ \A r \in ledger : r.id # o.id
  /\ ledger' = ledger \union {o}
  /\ UNCHANGED accepted

Accept ==
  /\ accepted \subseteq accepted' /\ accepted' \subseteq Observation
  /\ \A o \in accepted' \ accepted : \E r \in ledger : Same(r, o)
  /\ UNCHANGED ledger

Crash ==
  /\ ledger' \subseteq ledger
  /\ Kept(ledger')
  /\ UNCHANGED accepted

Next ==
  \/ Accept \/ Crash
  \/ \E o \in Observation : Enter(o)

Spec == Init /\ [][Next]_vars
=============================================================================
