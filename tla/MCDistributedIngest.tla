-------------------------- MODULE MCDistributedIngest ---------------------------
(* The pool on a small instance: a source of two documents. *)
EXTENDS DistributedIngest, TLC

CONSTANTS s1, d1, d2

OneSource == (d1 :> s1) @@ (d2 :> s1)

Symmetry == Permutations(Workers)
=============================================================================
