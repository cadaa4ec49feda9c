------------------------------ MODULE RunState ------------------------------
(***************************************************************************)
(* The Run's lifecycle state and the transition rules of run_state.py: a   *)
(* stage, and orthogonally the condition the Run is in at that stage.      *)
(***************************************************************************)

Stage     == {"created", "planning", "executing", "experimenting", "auditing", "reporting"}
Condition == {"active", "waiting", "paused", "terminal"}
Reason    == {"none", "information", "approval"}
Outcome   == {"none", "completed", "blocked", "failed", "cancelled"}

RunRecord == [stage : Stage, condition : Condition, reason : Reason, outcome : Outcome]

InitialRun == [stage |-> "created", condition |-> "active", reason |-> "none",
               outcome |-> "none"]

NonTerminal == {"block", "fail", "cancel"}
Interrupts  == {"wait_for_information", "wait_for_approval", "pause"} \cup NonTerminal

ActiveCommands ==
    [created       |-> {"start"} \cup NonTerminal,
     planning      |-> {"begin_execution"} \cup Interrupts,
     executing     |-> {"begin_experiment", "begin_audit", "begin_reporting"} \cup Interrupts,
     experimenting |-> {"begin_execution", "begin_audit", "begin_reporting"} \cup Interrupts,
     auditing      |-> {"reopen", "begin_reporting"} \cup Interrupts,
     reporting     |-> {"complete"} \cup Interrupts]

AdvanceStage ==
    [start            |-> "planning",      begin_execution |-> "executing",
     begin_experiment |-> "experimenting", begin_audit     |-> "auditing",
     begin_reporting  |-> "reporting",     reopen          |-> "executing"]

TerminalOutcome ==
    [complete |-> "completed", block |-> "blocked", fail |-> "failed", cancel |-> "cancelled"]

Command == DOMAIN AdvanceStage \cup DOMAIN TerminalOutcome \cup Interrupts \cup {"resume"}

Allowed(s) ==
    CASE s.condition = "active"              -> ActiveCommands[s.stage]
      [] s.condition \in {"waiting", "paused"} -> {"resume"} \cup NonTerminal
      [] s.condition = "terminal"            -> {}

Plain(s, condition) == [s EXCEPT !.condition = condition, !.reason = "none", !.outcome = "none"]

\* _next_state and _copy_state: what the command does not set is cleared.
NextState(s, c) ==
    CASE c \in DOMAIN AdvanceStage    -> [Plain(s, "active") EXCEPT !.stage = AdvanceStage[c]]
      [] c = "resume"                 -> Plain(s, "active")
      [] c = "wait_for_information"   -> [Plain(s, "waiting") EXCEPT !.reason = "information"]
      [] c = "wait_for_approval"      -> [Plain(s, "waiting") EXCEPT !.reason = "approval"]
      [] c = "pause"                  -> Plain(s, "paused")
      [] c \in DOMAIN TerminalOutcome -> [Plain(s, "terminal") EXCEPT !.outcome = TerminalOutcome[c]]

AwaitsApproval(s) == s.condition = "waiting" /\ s.reason = "approval"
=============================================================================
