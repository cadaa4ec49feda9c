----------------------------- MODULE RunMachine -----------------------------
(***************************************************************************)
(* What the event log promises about a Run: its transition events, read in *)
(* order, are commands the state machine accepts one after the other.      *)
(* RunController._state_and_version replays exactly this and raises on any *)
(* other history, after which the Run can no longer be read at all.        *)
(***************************************************************************)
EXTENDS RunState

VARIABLE run

Init == run = InitialRun

Transition(c) == c \in Allowed(run) /\ run' = NextState(run, c)

Next == \E c \in Command : Transition(c)

Spec == Init /\ [][Next]_run
=============================================================================
