--------------------------- MODULE ArtifactBatches ---------------------------
(***************************************************************************)
(* What the artifact store of a Run promises to its readers: a batch of    *)
(* revisions becomes visible in one step and all at once, a revision that  *)
(* it supersedes is kept, and a loss of power takes back no more than the  *)
(* batches that nothing has flushed yet.                                   *)
(***************************************************************************)
EXTENDS FiniteSets

CONSTANTS Name, Revision, None

VARIABLES held,      \* the revision that each name has, and the superseded ones
          possible   \* what a loss of power may leave of it

vars == <<held, possible>>

Live(h) == {h.live[n] : n \in Name} \ {None}
Nothing == [live |-> [n \in Name |-> None], kept |-> {}]

Init == held = Nothing /\ possible = {Nothing}

Injective(f) == \A n, m \in DOMAIN f : f[n] = f[m] => n = m

\* A revision that is held is never published again.
Publish == \E names \in (SUBSET Name) \ {{}} :
           \E batch \in [names -> Revision \ (Live(held) \cup held.kept)] :
    /\ Injective(batch)
    /\ held' = [live |-> [n \in Name |-> IF n \in names THEN batch[n] ELSE held.live[n]],
                kept |-> held.kept \cup ({held.live[n] : n \in names} \ {None})]
    /\ possible' = possible \cup {held'}

Flush == possible' = {held} /\ UNCHANGED held

LosePower == held' \in possible /\ possible' = {held'}

Next == Flush \/ LosePower \/ Publish

Spec == Init /\ [][Next]_vars
=============================================================================
