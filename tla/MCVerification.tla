--------------------------- MODULE MCVerification ---------------------------
(* Instances of Verification for TLC. *)
EXTENDS Verification, TLC

Symmetry == Permutations(Handlers) \union Permutations(Verifs)
=============================================================================
