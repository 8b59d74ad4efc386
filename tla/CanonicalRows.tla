---------------------------- MODULE CanonicalRows -----------------------------
(***************************************************************************)
(* The canonical observations as their readers see them: rows in the order *)
(* in which they entered, which only grow (JsonlObservationStore!AppendOnly *)
(* and the console's table, from which nothing is deleted).  In place of a *)
(* position a row says where it lies for the one position that is asked    *)
(* for: near it, in a corner of the enclosing box only, or far.            *)
(***************************************************************************)
EXTENDS Integers, FiniteSetsExt, SequencesExt

CONSTANTS Phenomenon,
          Value,       \* integers
          Missing,     \* a row without a value
          MaxTime,     \* bound on the clock
          Row          \* the observations that may enter

Time == 0..MaxTime
ASSUME TimeAssumption == MaxTime \in Nat
ASSUME ValueAssumption == Value \subseteq Int
ASSUME RowAssumption ==
  Row \subseteq [phenomenon: Phenomenon, value: Value \union {Missing}, quarantined: BOOLEAN,
                 place: {"near", "corner", "far"}, observed: Time, stamp: Time]

VARIABLES rows,
          entered,     \* when each row entered the store
          clock

store == <<rows, entered, clock>>

RowsInit ==
  /\ rows = <<>>
  /\ entered = <<>>
  /\ clock = 0

RowsTypeOK ==
  /\ rows \in Seq(Row)
  /\ entered \in [DOMAIN rows -> Time]
  /\ clock \in Time

\* ingestion_time (stamp) comes with the observation: from its decoder or client.
Insert ==
  /\ \E r \in Row \ Range(rows) : rows' = Append(rows, r)
  /\ entered' = Append(entered, clock)
  /\ UNCHANGED clock

Tick ==
  /\ clock < MaxTime
  /\ clock' = clock + 1
  /\ UNCHANGED <<rows, entered>>
=============================================================================
