--------------------------- MODULE MCObservationUse ---------------------------
(***************************************************************************)
(* Three rows in any order: the one position asked for has two rows near    *)
(* it, the newer one stamped before it was observed, and a quarantined one  *)
(* without a value in a corner of its box.                                  *)
(***************************************************************************)
EXTENDS ObservationUse

CONSTANTS t1, none

MCSymmetry == Permutations(Query)

MCRow ==
  {[phenomenon |-> t1, value |-> 3, quarantined |-> FALSE, place |-> "near",
    observed |-> 0, stamp |-> 1],
   [phenomenon |-> t1, value |-> 5, quarantined |-> FALSE, place |-> "near",
    observed |-> 2, stamp |-> 0],
   [phenomenon |-> t1, value |-> none, quarantined |-> TRUE, place |-> "corner",
    observed |-> 1, stamp |-> 1]}

Position(phenomena, quarantine, from, limit) ==
  [kind |-> "position", phenomena |-> phenomena, quarantine |-> quarantine,
   from |-> from, to |-> MaxTime, limit |-> limit]

MCRequest ==
  {ListRequest(quarantine) : quarantine \in BOOLEAN} \union
  {Position({t1}, TRUE, 0, 2), Position({t1}, TRUE, 1, 1), Position({t1}, FALSE, 0, 2)}
=============================================================================
