---------------------------- MODULE MCOwnerLoop ----------------------------
(* Instances of OwnerLoop for TLC: see the .cfg files for the sizes. *)
EXTENDS OwnerLoop, TLC

\* Values of MaxSends: every row goes out once, or the row of the first work item twice.
Once == [w \in Work |-> 1]
InitialTwice == [w \in Work |-> IF w = Initial THEN 2 ELSE 1]

Symmetry == Permutations(Worker)
=============================================================================
