------------------------------ MODULE MCBeacon ------------------------------
(***************************************************************************)
(* Instances of Beacon for TLC.  The goroutines are interchangeable: no    *)
(* constant, action or safety property names one, so the safety run        *)
(* explores one representative of each permutation of Jobs.                *)
(***************************************************************************)
EXTENDS Beacon, TLC

Symmetry == Permutations(Jobs)
=============================================================================
