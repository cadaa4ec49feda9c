----------------------------- MODULE MCArtifacts -----------------------------
(* Instances of Artifacts for TLC: see the .cfg file for the sizes. *)
EXTENDS Artifacts, TLC

Symmetry == Permutations(Pass) \cup Permutations(Name)
=============================================================================
