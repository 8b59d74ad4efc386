-------------------------- MODULE MCRawSourceStore ---------------------------
(* Callers and payloads are interchangeable, and every property checked is a *)
(* safety property that treats them alike, so the symmetry is sound.         *)
EXTENDS RawSourceStore, TLC

CallerSymmetry == Permutations(Worker) \union Permutations(Payload)
=============================================================================
