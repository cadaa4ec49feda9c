--------------------------- MODULE MCPublication ---------------------------
(* Instances of Publication for TLC: see the .cfg files for the sizes. *)
EXTENDS Publication, TLC

Symmetry == Permutations(Client) \cup Permutations(Session)
=============================================================================
