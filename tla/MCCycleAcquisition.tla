-------------------------- MODULE MCCycleAcquisition --------------------------
(* Two workers; an object of three fields whose index is cut off after two or  *)
(* has a gap, and an ambiguous revision of another size.                       *)
EXTENDS CycleAcquisition

CONSTANTS u, v, g, UGRD, VGRD, GUST, above, f6, f9

MCTokens == [n \in Name |-> IF n = u THEN {UGRD, above} ELSE IF n = v THEN {VGRD, above} ELSE {GUST}]
MCRequirement == { {u, v, g}, {u, v} }

U(f) == {UGRD, above, f}
V == {VGRD, above, f6}
G == {GUST, f6}

three     == [starts |-> <<0, 1, 3>>, what |-> <<U(f6), V, G>>, size |-> 5]
ambiguous == [starts |-> <<0, 2, 3>>, what |-> <<U(f6), U(f9), V>>, size |-> 6]

IndexOf(o) == [i \in DOMAIN o.starts |-> [number |-> i, offset |-> o.starts[i], tokens |-> o.what[i]]]
Gap(index) == [index EXCEPT ![2] = [@ EXCEPT !.number = 3]]

Shows(o, index) == [object |-> o, index |-> index]
MCPublication == { Shows(three, SubSeq(IndexOf(three), 1, 2)), Shows(three, Gap(IndexOf(three))),
                   Shows(three, IndexOf(three)), Shows(ambiguous, IndexOf(ambiguous)) }
=============================================================================
