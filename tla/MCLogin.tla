------------------------------ MODULE MCLogin -------------------------------
(* The constants of the runs of Login. *)
EXTENDS Login, TLC

CONSTANTS r1, r2, p, q, t1, t2

\* One hashing cost at every instance.
OneCost == r1 :> 2 @@ r2 :> 2

Symmetry == Permutations({r1, r2}) \cup Permutations({p, q})
=============================================================================
