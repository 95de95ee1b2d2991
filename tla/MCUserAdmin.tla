---------------------------- MODULE MCUserAdmin -----------------------------
(* The constants of the runs of UserAdmin. *)
EXTENDS UserAdmin, TLC

CONSTANTS s1, s2, s3

AllOperations == Writes \cup {"change_password", "sweep"}

Symmetry == Permutations(Sessions)
=============================================================================
