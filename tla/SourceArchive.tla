---------------------------- MODULE SourceArchive ----------------------------
(***************************************************************************)
(* What the raw source store promises, without saying how: a set of       *)
(* retained records that only a power loss can shrink, never below the     *)
(* part already secured on disk, and receipts given only for secured       *)
(* records.  RawSourceStore implements it.                                 *)
(***************************************************************************)
CONSTANT Payload

VARIABLES retained,   \* records whose name is visible in the store
          secured,    \* records a power loss can no longer remove
          promised    \* records whose publisher was told they are stored

vars == <<retained, secured, promised>>

Init ==
  /\ retained = {}
  /\ secured = {}
  /\ promised = {}

Retain(p) ==
  /\ retained' = retained \union {p}
  /\ UNCHANGED <<secured, promised>>

Secure ==
  /\ secured' = retained
  /\ UNCHANGED <<retained, promised>>

Promise(p) ==
  /\ p \in secured
  /\ promised' = promised \union {p}
  /\ UNCHANGED <<retained, secured>>

\* Securing and promising may be one step of an implementation.
SecureAndPromise(p) ==
  /\ p \in retained
  /\ secured' = retained
  /\ promised' = promised \union {p}
  /\ UNCHANGED retained

PowerLoss ==
  \E kept \in SUBSET retained :
    /\ secured \subseteq kept
    /\ retained' = kept
    /\ secured' = kept
    /\ UNCHANGED promised

Next ==
  \/ \E p \in Payload : Retain(p) \/ Promise(p) \/ SecureAndPromise(p)
  \/ Secure
  \/ PowerLoss

Spec == Init /\ [][Next]_vars

PromisesAreKept == promised \subseteq secured /\ secured \subseteq retained
=============================================================================
