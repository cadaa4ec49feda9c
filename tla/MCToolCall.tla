----------------------------- MODULE MCToolCall -----------------------------
(* Instances of ToolCall for TLC: see the .cfg files for the sizes. *)
EXTENDS ToolCall

\* One agent calls, and another that it delegates to.
CONSTANTS root, delegate
Agents == {root, delegate}
OfDelegation == [c \in Agents |-> IF c = delegate THEN 1 ELSE 0]

\* The engine lets a call pass, sends it to review or refuses it; "tight" sends it to
\* review too, under other constraints.
Surfaces == {"open", "guarded", "tight", "shut"}
Engine == [s \in Surfaces |-> CASE s = "open" -> "pass" [] s = "shut" -> "block" [] OTHER -> "review"]
=============================================================================
