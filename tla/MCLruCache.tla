----------------------------- MODULE MCLruCache -----------------------------
(***************************************************************************)
(* Instances of LruCache for TLC.  Keys are interchangeable.               *)
(***************************************************************************)
EXTENDS LruCache

Symmetry == Permutations(Keys)
=============================================================================
