----------------------- MODULE MCJsonlObservationStore ------------------------
(* Two worker processes, one with two threads; three requests that redeliver,*)
(* conflict with and duplicate one another.                                  *)
EXTENDS JsonlObservationStore

CONSTANTS p1, p2, t1, t2, t3, id1, id2, c1, c2, early, late

MCProcessOf == [t \in Thread |-> IF t = t3 THEN p2 ELSE p1]

Obs(i, c, r) == [id |-> i, content |-> c, receipt |-> r]
MCObservation == {Obs(i, c, r) : i \in {id1, id2}, c \in {c1, c2}, r \in {early, late}}

MCBatch == { <<Obs(id1, c1, early)>>,
             <<Obs(id1, c1, late), Obs(id2, c1, late), Obs(id2, c1, early)>>,
             <<Obs(id2, c1, early), Obs(id1, c2, early)>> }

\* No file yet, or a file with one record.
MCExisting == { <<>>, <<Obs(id1, c1, early)>> }
=============================================================================
