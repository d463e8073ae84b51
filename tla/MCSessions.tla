------------------------------- MODULE MCSessions -------------------------------
(* A laptop with two tabs and another machine, of another user or the same. *)
EXTENDS Sessions, TLC

CONSTANTS ann, bob, laptop, other, t1, t2, t3

Owner == (laptop :> ann) @@ (other :> bob)
Where == (t1 :> laptop) @@ (t2 :> laptop) @@ (t3 :> other)

Symmetric == Permutations({t1, t2})
=============================================================================
