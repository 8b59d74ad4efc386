---------------------------- MODULE MCModelCatalog ----------------------------
(* Two workers; a cycle that fills in from partial to complete and changes its *)
(* origin, one that lists an available field thrice, one without any, one that *)
(* is not valid and one with a field on a grid that it does not declare.       *)
EXTENDS ModelCatalog

CONSTANTS gfs, ecmwf, f1, f2, imported, platform

Inv(c, o, e, d, a) ==
  [cycle |-> c, origin |-> o, expected |-> e, declared |-> d, available |-> a]
MCInventory == { Inv(gfs, imported, {f1, f2}, {f1, f2}, <<f1>>),
                 Inv(gfs, platform, {f1, f2}, {f1, f2}, <<f1, f2>>),
                 Inv(ecmwf, imported, {f1, f2}, {f2}, <<f2, f2, f2>>),
                 Inv(ecmwf, imported, {f1}, {f1, f2}, <<>>),
                 Inv(ecmwf, imported, {f1}, {f1, f2}, <<f2>>),
                 Inv(gfs, imported, {f1, f2}, {f1}, <<f1, f2>>) }

\* Of one model, of one origin, the first of all.
MCAsk == { [cycles |-> {gfs}, origins |-> {imported, platform}, limit |-> 2],
           [cycles |-> {gfs, ecmwf}, origins |-> {imported}, limit |-> 2],
           [cycles |-> {gfs, ecmwf}, origins |-> {imported, platform}, limit |-> 1] }
=============================================================================
