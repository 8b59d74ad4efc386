-------------------------- MODULE MCOperatorConsole ---------------------------
(* Two operators retain one record at once and send two contents for one      *)
(* position of it, by the public route and by the internal one.               *)
EXTENDS OperatorConsole

CONSTANTS d1, a1, a2, p1, c1, c2

Rec(r, a) == [kind |-> "record", route |-> r, actor |-> a, digest |-> d1]
Obs(r, a, c) == [kind |-> "observation", route |-> r, actor |-> a,
                 observation |-> [source |-> d1, position |-> p1, content |-> c]]
MCRequest == { Rec("v1", a1), Rec("v1", a2), Rec("internal", a1),
               Obs("v1", a1, c1), Obs("v1", a2, c1), Obs("internal", a2, c2) }
=============================================================================
