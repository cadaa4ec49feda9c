---------------------------- MODULE VersionedLog ----------------------------
(***************************************************************************)
(* What a Run's history promises to those who write it: facts are added at *)
(* the end, one at a time, a fact that was decided on a version only at    *)
(* that version, and a fact whose writer was told so stays.  A damaged     *)
(* history is never written again.                                         *)
(***************************************************************************)
EXTENDS Naturals, Sequences

CONSTANTS Fact,   \* facts that may be recorded, each by one call
          AnyVersion     \* "at whatever version is current"

VARIABLES history, \* the recorded facts, each with the version its writer asked for
          told,    \* facts whose writer knows that they are recorded
          sound    \* whether the history can be read

vars == <<history, told, sound>>

Recorded == {history[i].fact : i \in DOMAIN history}

Init == history = <<>> /\ told = {} /\ sound = TRUE

\* The creation of the Run is the first fact.
Commit(f) ==
    /\ sound /\ f \notin Recorded
    /\ \E asked \in {AnyVersion, Len(history) + 1} :
           history' = Append(history, [fact |-> f, asked |-> asked])
    /\ UNCHANGED <<told, sound>>

Tell(f) == /\ f \in Recorded
           /\ told' = told \cup {f}
           /\ UNCHANGED <<history, sound>>

\* A loss of power takes back the last facts, those that nobody was told of, and may
\* take what damaged the history.
Kept == {SubSeq(history, 1, n) : n \in {i \in 0..Len(history) :
             \A k \in i + 1..Len(history) : history[k].fact \notin told}}
Lose == history' \in Kept /\ sound' = TRUE /\ UNCHANGED told

Damage == sound /\ history' \in Kept /\ sound' = FALSE /\ UNCHANGED told

Next == (\E f \in Fact : Commit(f) \/ Tell(f)) \/ Lose \/ Damage

Spec == Init /\ [][Next]_vars
=============================================================================
