---------------------------- MODULE MCRunControl ----------------------------
(* Instances of RunControl for TLC: see the .cfg files for the sizes. *)
EXTENDS RunControl, TLC

Symmetry == Permutations(Thread \ {Submitter}) \cup Permutations(Review)
=============================================================================
