------------------------------ MODULE MCFields ------------------------------
(* Small instances of Fields for TLC. *)
EXTENDS Fields, TLC

(* Atoms are interchangeable; so are the keys other than audit. *)
Symmetry == Permutations(Atoms) \cup Permutations(Keys \ {Audit})
=============================================================================
