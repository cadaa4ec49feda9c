---------------------------- MODULE MCDelegation ----------------------------
(* Instances of Delegation for TLC: see the .cfg files for the sizes. *)
EXTENDS Delegation

\* The second task needs the first.
Chain == [p \in Position |-> IF p = 2 THEN {1} ELSE {}]
=============================================================================
