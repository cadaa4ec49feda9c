-------------------------- MODULE RunControlProofs --------------------------
(***************************************************************************)
(* Proofs about RunControl for any number of threads, reviews and reopens: *)
(* type correctness; what the compare and swap of the log gives; under     *)
(* which decisions a Run works and completes; and what clients that take   *)
(* turns may rely on.                                                      *)
(***************************************************************************)
EXTENDS RunControl, TLAPS

\* The locals of all threads have their types.
Locals == pc \in [Thread -> Step] /\ job \in [Thread -> Job]

\* The bounds on reopens: what MayReopen lets pass stays a legal count.
LEMMA ReopenTypes ==
    ASSUME NEW gs \in Graph, MayReopen(gs)
    PROVE  gs.reopens + 1 \in 0 .. MaxReopens
  BY BoundAssumption DEF MayReopen, Graph

\* Where a transition may continue.
LEMMA ContNames ==
    /\ {"idle", "started", "routeExec", "thyWork", "routeThy", "audit", "routeGate",
        "reporting", "fact", "close", "completeFact", "failVersion", "checkAnswer", "proceed",
        "dispatch"} \subseteq Cont
    /\ Cont \subseteq Step
  BY DEF Cont, Step

\* The initial graph state and the locals of an idle thread have their types.
LEMMA NullTypes == InitialGraph \in Graph /\ NoJob \in Job
<1>1. InitialGraph \in Graph
  BY BoundAssumption DEF InitialGraph, Graph, Verdict
<1>2. "start" \in Command /\ "idle" \in Cont
  BY DEF Command, AdvanceStage, Cont
<1> QED
  BY <1>1, <1>2 DEF NoJob, Job

\* Locals with one component replaced by a value of its type keep their type.
LEMMA JobTypes ==
    ASSUME NEW j \in Job
    PROVE  /\ \A c \in Command, s \in Cont : [j EXCEPT !.cmd = c, !.cont = s] \in Job
           /\ \A r \in Review \cup {None} : [j EXCEPT !.arg = r] \in Job
           /\ [j EXCEPT !.pass = FALSE] \in Job
           /\ \A gs \in Graph : [j EXCEPT !.gs = gs] \in Job
           /\ j.gs \in Graph /\ j.cont \in Cont /\ j.cmd \in Command
           /\ j.arg \in Review \cup {None} /\ j.ans \in BOOLEAN /\ j.pass \in BOOLEAN
  BY DEF Job

\* The same for graph states.
LEMMA GraphTypes ==
    ASSUME NEW gs \in Graph
    PROVE  /\ \A v \in Verdict : [gs EXCEPT !.verdict = v] \in Graph
           /\ \A v \in Verdict : [gs EXCEPT !.exec = v] \in Graph
           /\ [gs EXCEPT !.rework = FALSE] \in Graph
           /\ \A n \in 0 .. MaxReopens :
                 [gs EXCEPT !.verdict = "none", !.rework = TRUE, !.reopens = n] \in Graph
           /\ gs.verdict \in Verdict /\ gs.exec \in Verdict
<1>1. "none" \in Verdict
  BY DEF Verdict
<1> QED
  BY <1>1 DEF Graph

\* Being somewhere with typed locals is typed.
LEMMA AtTypes ==
    ASSUME Locals, NEW p \in Thread, NEW s \in Step, NEW j \in Job, At(p, s, j)
    PROVE  Locals'
  BY DEF Locals, At

LEMMA InPassTypes ==
    ASSUME NEW gs \in Graph
    PROVE  InPass(gs) \in Job
  BY NullTypes DEF InPass, NoJob, Job

LEMMA GotoTypes ==
    ASSUME Locals, NEW p \in Thread, NEW s \in Step, Goto(p, s)
    PROVE  Locals'
<1>1. job[p] \in Job
  BY DEF Locals
<1> QED
  BY <1>1, AtTypes DEF Goto

LEMMA LeaveTypes ==
    ASSUME Locals, NEW p \in Thread, Leave(p)
    PROVE  Locals'
<1>1. "idle" \in Step
  BY DEF Step
<1> QED
  BY <1>1, AtTypes, NullTypes DEF Leave

LEMMA RaiseTypes ==
    ASSUME Locals, NEW p \in Thread, Raise(p)
    PROVE  Locals'
<1>1. "raised" \in Step
  BY DEF Step
<1>2. InPass(InitialGraph) \in Job
  BY NullTypes, InPassTypes
<1> QED
  BY <1>1, <1>2, AtTypes, LeaveTypes DEF Raise

LEMMA TxTypes ==
    ASSUME Locals, NEW p \in Thread, NEW c \in Command, NEW s \in Cont, NEW j \in Job,
           Tx(p, c, s, j)
    PROVE  Locals'
<1>1. "read" \in Step
  BY DEF Step
<1>2. [j EXCEPT !.cmd = c, !.cont = s] \in Job
  BY JobTypes
<1> QED
  BY <1>1, <1>2, AtTypes DEF Tx

LEMMA ContinueTypes ==
    ASSUME Locals, NEW p \in Thread, Continue(p)
    PROVE  Locals'
<1>1. job[p] \in Job
  BY DEF Locals
<1>2. /\ [NoJob EXCEPT !.pass = job[p].pass, !.gs = job[p].gs] \in Job
      /\ job[p].cont \in Step
  BY <1>1, ContNames, NullTypes DEF NoJob, Job
<1> QED
  BY <1>2, AtTypes, LeaveTypes DEF Continue

LEMMA EnterTypes ==
    ASSUME Locals, NEW p \in Thread, NEW n \in Node, NEW gs \in Graph, Enter(p, n, gs)
    PROVE  Locals' /\ ckpt' \in [next : Node \cup {"end"}, state : Graph]
<1>1. n \in Step
  BY DEF Node, Step
<1>2. Locals'
  BY <1>1, InPassTypes, AtTypes DEF Enter
<1> QED
  BY <1>2 DEF Enter, Checkpoint

LEMMA EndPassTypes ==
    ASSUME Locals, NEW p \in Thread, EndPass(p)
    PROVE  Locals' /\ ckpt' \in [next : Node \cup {"end"}, state : Graph]
<1>1. job[p].gs \in Graph
  BY JobTypes DEF Locals
<1> QED
  BY <1>1, LeaveTypes DEF EndPass, Checkpoint

\* The state machine maps Run records to Run records and its commands are commands.
LEMMA NextStateTypes ==
    ASSUME NEW s \in RunRecord, NEW c \in Command
    PROVE  NextState(s, c) \in RunRecord
<1>1. \A cond \in Condition : Plain(s, cond) \in RunRecord
  BY DEF Plain, RunRecord, Reason, Outcome
<1>2. {"active", "waiting", "paused", "terminal"} = Condition
  BY DEF Condition
<1>3. CASE c \in DOMAIN AdvanceStage
  <2>1. AdvanceStage[c] \in Stage
    BY <1>3 DEF AdvanceStage, Stage
  <2>2. Plain(s, "active") \in RunRecord
    BY <1>1, <1>2
  <2>3. [Plain(s, "active") EXCEPT !.stage = AdvanceStage[c]] \in RunRecord
    BY <2>1, <2>2 DEF RunRecord
  <2>4. /\ c \notin {"resume", "wait_for_information", "wait_for_approval", "pause"}
        /\ c \notin DOMAIN TerminalOutcome
    BY <1>3 DEF AdvanceStage, TerminalOutcome
  <2> QED
    BY <1>3, <2>3, <2>4 DEF NextState
<1>4. CASE c \in {"resume", "wait_for_information", "wait_for_approval", "pause"}
  <2>1. c \notin DOMAIN AdvanceStage /\ c \notin DOMAIN TerminalOutcome
    BY <1>4 DEF AdvanceStage, TerminalOutcome
  <2>2. /\ Plain(s, "active") \in RunRecord
        /\ Plain(s, "waiting") \in RunRecord
        /\ Plain(s, "paused") \in RunRecord
    BY <1>1, <1>2
  <2>3. /\ [Plain(s, "waiting") EXCEPT !.reason = "information"] \in RunRecord
        /\ [Plain(s, "waiting") EXCEPT !.reason = "approval"] \in RunRecord
    BY <2>2 DEF RunRecord, Reason
  <2> QED
    BY <1>4, <2>1, <2>2, <2>3 DEF NextState
<1>5. CASE c \in DOMAIN TerminalOutcome
  <2>1. TerminalOutcome[c] \in Outcome /\ c \notin DOMAIN AdvanceStage
    BY <1>5 DEF AdvanceStage, TerminalOutcome, Outcome
  <2>2. Plain(s, "terminal") \in RunRecord
    BY <1>1, <1>2
  <2>3. [Plain(s, "terminal") EXCEPT !.outcome = TerminalOutcome[c]] \in RunRecord
    BY <2>1, <2>2 DEF RunRecord
  <2>4. c \notin {"resume", "wait_for_information", "wait_for_approval", "pause"}
    BY <1>5 DEF TerminalOutcome
  <2> QED
    BY <1>5, <2>1, <2>3, <2>4 DEF NextState
<1>6. c \in DOMAIN AdvanceStage \/ c \in DOMAIN TerminalOutcome
      \/ c \in {"resume", "wait_for_information", "wait_for_approval", "pause"}
  BY DEF Command, Interrupts, NonTerminal, TerminalOutcome
<1> QED
  BY <1>3, <1>4, <1>5, <1>6

-----------------------------------------------------------------------------
(* What the log and the checkpoint hold. *)

LogTypes == /\ run \in RunRecord
            /\ parked \in Review \cup {None}
            /\ kind \in [Review -> Kind \cup {"none"}]
            /\ open \subseteq Review
            /\ answers \in [Review -> Seq(BOOLEAN)]
            /\ anchor \in {"routeGate", "routeExec"}
            /\ audited \in BOOLEAN
            /\ facts \in [completed : Nat, failed : Nat]
CkptTypes == ckpt \in [next : Node \cup {"end"}, state : Graph]
CasTypes  == fresh \subseteq Thread /\ snap \in [Thread -> RunRecord]

LEMMA TypeParts == TypeOK <=> LogTypes /\ CkptTypes /\ CasTypes /\ Locals
  BY DEF TypeOK, LogTypes, CkptTypes, CasTypes, Locals

LEMMA TypePartsNext == TypeOK' <=> LogTypes' /\ CkptTypes' /\ CasTypes' /\ Locals'
  BY DEF TypeOK, LogTypes, CkptTypes, CasTypes, Locals

LEMMA SilentTypes ==
    ASSUME TypeOK, Silent
    PROVE  LogTypes' /\ CkptTypes' /\ CasTypes'
  BY DEF TypeOK, Silent, LogTypes, CkptTypes, CasTypes, log, cas

LEMMA StillTypes ==
    ASSUME TypeOK, UNCHANGED <<log, cas>>
    PROVE  LogTypes' /\ CasTypes'
  BY DEF TypeOK, LogTypes, CasTypes, log, cas

LEMMA NoteTypes ==
    ASSUME TypeOK, Note
    PROVE  LogTypes' /\ CkptTypes' /\ CasTypes'
  BY DEF TypeOK, Note, Appended, LogTypes, CkptTypes, CasTypes, log

LEMMA AskTypes ==
    ASSUME TypeOK, NEW r \in Review, NEW k \in Kind, Ask(r, k)
    PROVE  LogTypes' /\ CkptTypes' /\ CasTypes'
  BY DEF TypeOK, Ask, Appended, LogTypes, CkptTypes, CasTypes

LEMMA RecordTypes ==
    ASSUME TypeOK, NEW p \in Thread, Record(p)
    PROVE  LogTypes' /\ CkptTypes' /\ CasTypes'
<1>1. job[p].ans \in BOOLEAN
  BY JobTypes DEF TypeOK
<1>2. \A r \in Review : Append(answers[r], job[p].ans) \in Seq(BOOLEAN)
  BY <1>1 DEF TypeOK
<1>3. answers' \in [Review -> Seq(BOOLEAN)]
  <2>1. CASE job[p].arg \in Review
    BY <1>2, <2>1 DEF TypeOK, Record
  <2>2. CASE job[p].arg \notin Review
    BY <2>2 DEF TypeOK, Record
  <2> QED
    BY <2>1, <2>2
<1> QED
  BY <1>3 DEF TypeOK, Record, LogTypes, CkptTypes, CasTypes

-----------------------------------------------------------------------------
(* The actions. *)

LEMMA ControllerTypes ==
    ASSUME TypeOK, NEW p \in Thread, Read(p) \/ AppendTx(p)
    PROVE  TypeOK'
<1>1. Locals /\ job[p] \in Job /\ "append" \in Step
  BY TypeParts DEF Locals, Step
<1>2. CASE Read(p)
  <2>1. Locals'
    BY <1>1, <1>2, GotoTypes, RaiseTypes DEF Read
  <2>2. LogTypes' /\ CkptTypes' /\ CasTypes'
    BY <1>2 DEF TypeOK, Read, LogTypes, CkptTypes, CasTypes, log, cas
  <2> QED
    BY <2>1, <2>2, TypePartsNext
<1>3. CASE AppendTx(p)
  <2>1. Locals'
    BY <1>1, <1>3, ContinueTypes, RaiseTypes DEF AppendTx
  <2>2. CkptTypes' /\ CasTypes'
    <3>1. InitialRun \in RunRecord
      BY DEF InitialRun, RunRecord, Stage, Condition, Reason, Outcome
    <3> QED
      BY <1>3, <3>1 DEF TypeOK, AppendTx, CkptTypes, CasTypes
  <2>3. LogTypes'
    <3>1. CASE Won(p)
      <4>1. snap[p] \in RunRecord /\ job[p].cmd \in Command /\ job[p].arg \in Review \cup {None}
        BY <1>1, JobTypes DEF TypeOK
      <4>2. NextState(snap[p], job[p].cmd) \in RunRecord
        BY <4>1, NextStateTypes
      <4>3. Anchor(job[p].arg) \in {"routeGate", "routeExec"}
        BY DEF Anchor
      <4> QED
        BY <1>3, <3>1, <4>1, <4>2, <4>3 DEF TypeOK, AppendTx, LogTypes
    <3>2. CASE ~Won(p)
      BY <1>3, <3>2 DEF TypeOK, AppendTx, LogTypes, log
    <3> QED
      BY <3>1, <3>2
  <2> QED
    BY <2>1, <2>2, <2>3, TypePartsNext
<1> QED
  BY <1>2, <1>3

\* The commands and steps that occur in the actions.
LEMMA Names ==
    /\ {"start", "block", "wait_for_approval", "begin_execution", "begin_audit", "reopen",
        "begin_reporting", "complete", "fail", "resume", "cancel"} \subseteq Command
    /\ {"pass", "block", "none"} \subseteq Verdict
    /\ Review \subseteq Verdict
    /\ {"execution", "tool", "findings", "escalation", "plan"} \subseteq Kind
    /\ {"start", "execGate", "thy", "mira", "gate", "complete"} \subseteq Node
  BY DEF Command, Interrupts, NonTerminal, AdvanceStage, TerminalOutcome, Verdict, Kind, Node

LEMMA ExecutionTypes ==
    ASSUME TypeOK, NEW p \in Thread,
           Start(p) \/ Started(p) \/ ExecGate(p) \/ ApplyExec(p) \/ RouteExec(p)
    PROVE  TypeOK'
<1>1. Locals /\ job[p] \in Job /\ job[p].gs \in Graph /\ job[p].gs.exec \in Verdict
  BY TypeParts, JobTypes, GraphTypes DEF Locals
<1>2. {"started", "applyExec", "routeExec"} \subseteq Step
  BY DEF Step
<1>3. CASE Start(p)
  <2>1. Locals'
    BY <1>1, <1>2, <1>3, Names, ContNames, TxTypes, GotoTypes DEF Start
  <2> QED
    BY <1>3, <2>1, SilentTypes, TypePartsNext DEF Start
<1>4. CASE Started(p)
  <2>1. Locals' /\ CkptTypes'
    BY <1>1, <1>4, Names, EnterTypes DEF Started, CkptTypes
  <2> QED
    BY <1>4, <2>1, StillTypes, TypePartsNext DEF Started
<1>5. CASE ExecGate(p)
  <2>1. \A v \in Verdict : WithExec(p, v) \in Job
    BY <1>1, JobTypes, GraphTypes DEF WithExec, Job
  <2>2. \A v \in Verdict : At(p, "applyExec", WithExec(p, v)) => Locals'
    BY <1>1, <1>2, <2>1, AtTypes
  <2>3. CASE ParkedOnStart /\ At(p, "applyExec", WithExec(p, parked)) /\ Silent
    <3>1. parked \in Verdict
      BY <2>3, Names DEF ParkedOnStart, TypeOK
    <3> QED
      BY <2>2, <2>3, <3>1, SilentTypes, TypePartsNext
  <2>4. CASE \E v \in {"pass", "block"} : Note /\ At(p, "applyExec", WithExec(p, v))
    BY <2>2, <2>4, Names, NoteTypes, TypePartsNext
  <2>5. CASE \E r \in Review : Ask(r, "execution") /\ At(p, "applyExec", WithExec(p, r))
    BY <2>2, <2>5, Names, AskTypes, TypePartsNext
  <2> QED
    BY <1>5, <2>3, <2>4, <2>5 DEF ExecGate
<1>6. CASE ApplyExec(p)
  <2>1. ASSUME job[p].gs.exec \in Review
        PROVE  [job[p] EXCEPT !.arg = job[p].gs.exec] \in Job
    BY <1>1, <2>1, JobTypes
  <2>2. Locals'
    BY <1>1, <1>2, <1>6, <2>1, Names, ContNames, TxTypes, GotoTypes DEF ApplyExec
  <2> QED
    BY <1>6, <2>2, SilentTypes, TypePartsNext DEF ApplyExec
<1>7. CASE RouteExec(p)
  <2>1. Locals' /\ CkptTypes'
    <3>1. CASE Raise(p) /\ UNCHANGED ckpt
      BY <1>1, <3>1, RaiseTypes DEF TypeOK, CkptTypes
    <3>2. CASE Enter(p, "thy", job[p].gs)
      BY <1>1, <3>2, Names, EnterTypes DEF CkptTypes
    <3>3. CASE EndPass(p)
      BY <1>1, <3>3, EndPassTypes DEF CkptTypes
    <3> QED
      BY <1>7, <3>1, <3>2, <3>3 DEF RouteExec
  <2> QED
    BY <1>7, <2>1, StillTypes, TypePartsNext DEF RouteExec
<1> QED
  BY <1>3, <1>4, <1>5, <1>6, <1>7

LEMMA ThyTypes ==
    ASSUME TypeOK, NEW p \in Thread,
           Thy(p) \/ ThyWork(p) \/ ThyPark(p) \/ RouteThy(p)
    PROVE  TypeOK'
<1>1. Locals /\ job[p] \in Job /\ job[p].gs \in Graph
  BY TypeParts, JobTypes DEF Locals
<1>2. {"thyWork", "thyPark", "routeThy"} \subseteq Step
  BY DEF Step
<1>3. CASE Thy(p)
  <2>1. Locals'
    BY <1>1, <1>2, <1>3, Names, ContNames, TxTypes, GotoTypes DEF Thy
  <2> QED
    BY <1>3, <2>1, SilentTypes, TypePartsNext DEF Thy
<1>4. CASE ThyWork(p)
  <2>1. ReworkTaken(p) \in Job
    BY <1>1, JobTypes, GraphTypes DEF ReworkTaken, Job
  <2>2. /\ At(p, "routeThy", ReworkTaken(p)) => Locals'
        /\ At(p, "thyPark", ReworkTaken(p)) => Locals'
    BY <1>1, <1>2, <2>1, AtTypes
  <2>3. Locals'
    BY <1>1, <1>4, <2>2, RaiseTypes DEF ThyWork
  <2>4. Note \/ \E r \in Review : Ask(r, "tool")
    BY <1>4 DEF ThyWork
  <2> QED
    BY <2>3, <2>4, Names, NoteTypes, AskTypes, TypePartsNext
<1>5. CASE ThyPark(p)
  <2>1. \A r \in Review : [job[p] EXCEPT !.arg = r] \in Job
    BY <1>1, JobTypes
  <2>2. Pending \subseteq Review
    BY DEF Pending, Unanswered, Known
  <2>3. Locals'
    BY <1>1, <1>2, <1>5, <2>1, <2>2, Names, ContNames, TxTypes, GotoTypes, RaiseTypes DEF ThyPark
  <2> QED
    BY <1>5, <2>3, SilentTypes, TypePartsNext DEF ThyPark
<1>6. CASE RouteThy(p)
  <2>1. Locals' /\ CkptTypes'
    BY <1>1, <1>6, Names, EndPassTypes, EnterTypes DEF RouteThy, CkptTypes
  <2> QED
    BY <1>6, <2>1, StillTypes, TypePartsNext DEF RouteThy
<1> QED
  BY <1>3, <1>4, <1>5, <1>6

LEMMA GateTypes ==
    ASSUME TypeOK, NEW p \in Thread,
           Mira(p) \/ Audit(p) \/ FindingsGate(p) \/ ApplyReview(p) \/ Settle(p)
    PROVE  TypeOK'
<1>1. /\ Locals /\ job[p] \in Job /\ job[p].gs \in Graph
      /\ job[p].gs.verdict \in Verdict
  BY TypeParts, JobTypes, GraphTypes DEF Locals
<1>2. {"audit", "applyReview", "routeGate", "settle", "reporting"} \subseteq Step
  BY DEF Step
<1>3. \A v \in Verdict : WithVerdict(p, v) \in Job
  BY <1>1, JobTypes, GraphTypes DEF WithVerdict, Job
<1>4. CASE Mira(p)
  <2>1. Locals'
    BY <1>1, <1>2, <1>4, Names, ContNames, TxTypes, GotoTypes DEF Mira
  <2> QED
    BY <1>4, <2>1, SilentTypes, TypePartsNext DEF Mira
<1>5. CASE Audit(p)
  <2>1. CASE Raise(p) /\ Silent
    BY <1>1, <2>1, RaiseTypes, SilentTypes, TypePartsNext
  <2>2. CASE /\ audited' = TRUE
             /\ fresh' = {}
             /\ Enter(p, "gate", job[p].gs)
             /\ UNCHANGED <<run, parked, kind, open, answers, anchor, facts, snap>>
    <3>1. Locals' /\ CkptTypes'
      BY <1>1, <2>2, Names, EnterTypes DEF CkptTypes
    <3>2. LogTypes' /\ CasTypes'
      BY <2>2 DEF TypeOK, LogTypes, CasTypes
    <3> QED
      BY <3>1, <3>2, TypePartsNext
  <2> QED
    BY <1>5, <2>1, <2>2 DEF Audit
<1>6. CASE FindingsGate(p)
  <2>1. \A v \in Verdict : At(p, "applyReview", WithVerdict(p, v)) => Locals'
    BY <1>1, <1>2, <1>3, AtTypes
  <2>2. Locals'
    BY <1>1, <1>2, <1>6, <2>1, Names, GotoTypes DEF FindingsGate
  <2>3. Silent \/ Note \/ \E r \in Review : Ask(r, "findings")
    BY <1>6 DEF FindingsGate
  <2> QED
    BY <2>2, <2>3, Names, SilentTypes, NoteTypes, AskTypes, TypePartsNext
<1>7. CASE ApplyReview(p)
  <2>1. ASSUME job[p].gs.verdict \in Review
        PROVE  [job[p] EXCEPT !.arg = job[p].gs.verdict] \in Job
    BY <1>1, <2>1, JobTypes
  <2>2. Locals'
    BY <1>1, <1>2, <1>7, <2>1, Names, ContNames, TxTypes, GotoTypes DEF ApplyReview
  <2> QED
    BY <1>7, <2>2, SilentTypes, TypePartsNext DEF ApplyReview
<1>8. CASE Settle(p)
  <2>1. CASE /\ MayReopen(job[p].gs)
             /\ Note
             /\ Tx(p, "reopen", "routeGate",
                   [job[p] EXCEPT !.gs.verdict = "none", !.gs.rework = TRUE,
                                  !.gs.reopens = @ + 1])
    <3>1. job[p].gs.reopens + 1 \in 0 .. MaxReopens
      BY <1>1, <2>1, ReopenTypes
    <3>2. [job[p].gs EXCEPT !.verdict = "none", !.rework = TRUE,
                            !.reopens = job[p].gs.reopens + 1] \in Graph
      BY <1>1, <3>1, GraphTypes
    <3>3. [job[p] EXCEPT !.gs.verdict = "none", !.gs.rework = TRUE, !.gs.reopens = @ + 1] \in Job
      BY <1>1, <3>2 DEF Job
    <3> QED
      BY <1>1, <1>2, <2>1, <3>3, Names, ContNames, TxTypes, NoteTypes, TypePartsNext
  <2>2. CASE \E r \in Review :
                /\ Ask(r, "escalation")
                /\ Tx(p, "wait_for_approval", "routeGate",
                      [WithVerdict(p, r) EXCEPT !.arg = r])
    <3>1. \A r \in Review : [WithVerdict(p, r) EXCEPT !.arg = r] \in Job
      BY <1>3, Names, JobTypes
    <3> QED
      BY <1>1, <1>2, <2>2, <3>1, Names, ContNames, TxTypes, AskTypes, TypePartsNext
  <2>3. CASE Tx(p, "begin_reporting", "reporting", job[p]) /\ Silent
    BY <1>1, <1>2, <2>3, Names, ContNames, TxTypes, SilentTypes, TypePartsNext
  <2> QED
    BY <1>8, <2>1, <2>2, <2>3 DEF Settle
<1> QED
  BY <1>4, <1>5, <1>6, <1>7, <1>8

LEMMA CompletionTypes ==
    ASSUME TypeOK, NEW p \in Thread,
           Reporting(p) \/ Fact(p) \/ RouteGate(p) \/ Complete(p) \/ Close(p)
    PROVE  TypeOK'
<1>1. /\ Locals /\ job[p] \in Job /\ job[p].gs \in Graph
  BY TypeParts, JobTypes DEF Locals
<1>2. {"fact", "routeGate", "close", "completeFact"} \subseteq Step
  BY DEF Step
<1>3. CASE Reporting(p)
  BY <1>1, <1>2, <1>3, Names, ContNames, TxTypes, SilentTypes, TypePartsNext DEF Reporting
<1>4. CASE Fact(p)
  <2>1. Locals' /\ CkptTypes'
    <3>1. CASE pc[p] = "fact"
      BY <1>1, <1>2, <1>4, <3>1, GotoTypes DEF Fact, TypeOK, CkptTypes
    <3>2. CASE pc[p] # "fact"
      BY <1>1, <1>4, <3>2, EndPassTypes DEF Fact, CkptTypes
    <3> QED
      BY <3>1, <3>2
  <2>2. LogTypes' /\ CasTypes'
    <3>1. [facts EXCEPT !.completed = @ + 1] \in [completed : Nat, failed : Nat]
      BY DEF TypeOK
    <3> QED
      BY <1>4, <3>1 DEF Fact, TypeOK, LogTypes, CasTypes, log, cas
  <2> QED
    BY <2>1, <2>2, TypePartsNext
<1>5. CASE RouteGate(p)
  <2>1. Locals' /\ CkptTypes'
    <3>1. CASE Raise(p) /\ UNCHANGED ckpt
      BY <1>1, <3>1, RaiseTypes DEF TypeOK, CkptTypes
    <3>2. CASE EndPass(p)
      BY <1>1, <3>2, EndPassTypes DEF CkptTypes
    <3>3. CASE GateTarget(job[p].gs) # "end" /\ Enter(p, GateTarget(job[p].gs), job[p].gs)
      <4>1. GateTarget(job[p].gs) \in Node
        BY <3>3, Names DEF GateTarget
      <4> QED
        BY <1>1, <3>3, <4>1, EnterTypes DEF CkptTypes
    <3> QED
      BY <1>5, <3>1, <3>2, <3>3 DEF RouteGate
  <2> QED
    BY <1>5, <2>1, StillTypes, TypePartsNext DEF RouteGate
<1>6. CASE Complete(p)
  <2>1. Locals'
    BY <1>1, <1>2, <1>6, Names, ContNames, TxTypes, GotoTypes DEF Complete
  <2> QED
    BY <1>6, <2>1, SilentTypes, TypePartsNext DEF Complete
<1>7. CASE Close(p)
  <2>1. Locals' /\ CkptTypes'
    BY <1>1, <1>2, <1>7, Names, ContNames, EndPassTypes, TxTypes DEF Close, TypeOK, CkptTypes
  <2> QED
    BY <1>7, <2>1, StillTypes, TypePartsNext DEF Close
<1> QED
  BY <1>3, <1>4, <1>5, <1>6, <1>7

LEMMA FailureTypes ==
    ASSUME TypeOK, NEW p \in Thread, Raised(p) \/ FailVersion(p) \/ FailFact(p)
    PROVE  TypeOK'
<1>1. Locals /\ job[p] \in Job
  BY TypeParts DEF Locals
<1>2. {"failVersion", "failFact"} \subseteq Step
  BY DEF Step
<1>3. CASE Raised(p)
  <2>1. [job[p] EXCEPT !.pass = FALSE] \in Job
    BY <1>1, JobTypes
  <2>2. Locals'
    BY <1>1, <1>2, <1>3, <2>1, Names, ContNames, TxTypes, LeaveTypes DEF Raised
  <2> QED
    BY <1>3, <2>2, SilentTypes, TypePartsNext DEF Raised
<1>4. CASE FailVersion(p)
  <2>1. Locals'
    BY <1>1, <1>2, <1>4, GotoTypes DEF FailVersion
  <2>2. LogTypes' /\ CkptTypes' /\ CasTypes'
    BY <1>4 DEF FailVersion, TypeOK, LogTypes, CkptTypes, CasTypes, log
  <2> QED
    BY <2>1, <2>2, TypePartsNext
<1>5. CASE FailFact(p)
  <2>1. Locals'
    BY <1>1, <1>5, LeaveTypes DEF FailFact
  <2>2. [facts EXCEPT !.failed = @ + 1] \in [completed : Nat, failed : Nat]
    BY DEF TypeOK
  <2>3. LogTypes' /\ CkptTypes' /\ CasTypes'
    BY <1>5, <2>2 DEF FailFact, TypeOK, LogTypes, CkptTypes, CasTypes, log
  <2> QED
    BY <2>1, <2>3, TypePartsNext
<1> QED
  BY <1>3, <1>4, <1>5

\* The locals a request starts with.
LEMMA RequestJobs ==
    ASSUME TypeOK
    PROVE  /\ \A a \in BOOLEAN :
                 [NoJob EXCEPT !.arg = parked, !.ans = a, !.cont = "checkAnswer"] \in Job
           /\ [NoJob EXCEPT !.arg = parked, !.cont = "proceed"] \in Job
           /\ \A r \in Review, a \in BOOLEAN : [NoJob EXCEPT !.arg = r, !.ans = a] \in Job
<1>1. {"checkAnswer", "proceed"} \subseteq Cont
  BY ContNames
<1> QED
  BY <1>1, NullTypes DEF TypeOK, NoJob, Job

LEMMA RequestTypes ==
    ASSUME TypeOK, NEW p \in Thread, Requests(p)
    PROVE  TypeOK'
<1>1. Locals
  BY TypeParts
<1>2. {"freshness", "idle", "govern"} \subseteq Step
  BY DEF Step
<1>3. CASE \E a \in BOOLEAN : Resolve(p, a)
  BY <1>1, <1>2, <1>3, RequestJobs, AtTypes, SilentTypes, TypePartsNext DEF Resolve
<1>4. CASE Resume(p)
  <2> DEFINE j == [NoJob EXCEPT !.arg = parked, !.cont = "proceed"]
  <2>1. j \in Job
    BY RequestJobs
  <2>2. (At(p, "freshness", j) \/ Tx(p, "block", "idle", j)) /\ Silent
    BY <1>4 DEF Resume
  <2> HIDE DEF j
  <2> QED
    BY <1>1, <1>2, <2>1, <2>2, Names, ContNames, AtTypes, TxTypes, SilentTypes, TypePartsNext
<1>5. CASE Cancel(p)
  BY <1>1, <1>2, <1>5, Names, ContNames, NullTypes, TxTypes, SilentTypes, TypePartsNext DEF Cancel
<1>6. CASE Plan(p)
  BY <1>1, <1>6, Names, LeaveTypes, NoteTypes, AskTypes, TypePartsNext DEF Plan
<1>7. CASE \E r \in Review, a \in BOOLEAN : Answer(p, r, a)
  BY <1>1, <1>2, <1>7, RequestJobs, AtTypes, SilentTypes, TypePartsNext DEF Answer
<1> QED
  BY <1>3, <1>4, <1>5, <1>6, <1>7 DEF Requests

LEMMA ResolutionTypes ==
    ASSUME TypeOK, NEW p \in Thread,
           \/ Freshness(p) \/ Stale(p) \/ CheckAnswer(p) \/ RecordAnswer(p) \/ Decide(p)
           \/ Proceed(p) \/ Dispatch(p) \/ Govern(p)
    PROVE  TypeOK'
<1>1. Locals /\ job[p] \in Job /\ job[p].cont \in Step
  BY TypeParts, JobTypes, ContNames DEF Locals
<1>2. {"stale", "recordAnswer", "decide", "proceed", "dispatch", "idle"} \subseteq Step
  BY DEF Step
<1>3. CASE Freshness(p)
  <2>1. Locals'
    BY <1>1, <1>2, <1>3, GotoTypes DEF Freshness
  <2>2. Silent \/ Note
    BY <1>3 DEF Freshness
  <2> QED
    BY <2>1, <2>2, SilentTypes, NoteTypes, TypePartsNext
<1>4. CASE Stale(p)
  BY <1>1, <1>2, <1>4, Names, ContNames, LeaveTypes, TxTypes, SilentTypes, TypePartsNext DEF Stale
<1>5. CASE CheckAnswer(p)
  BY <1>1, <1>2, <1>5, LeaveTypes, GotoTypes, SilentTypes, TypePartsNext DEF CheckAnswer
<1>6. CASE RecordAnswer(p)
  BY <1>1, <1>2, <1>6, GotoTypes, RecordTypes, TypePartsNext DEF RecordAnswer
<1>7. CASE Decide(p)
  <2>1. Locals'
    BY <1>1, <1>2, <1>7, Names, ContNames, LeaveTypes, GotoTypes, TxTypes DEF Decide
  <2> QED
    BY <1>7, <2>1, SilentTypes, TypePartsNext DEF Decide
<1>8. CASE Proceed(p)
  BY <1>1, <1>2, <1>8, Names, ContNames, TxTypes, SilentTypes, TypePartsNext DEF Proceed
<1>9. CASE Dispatch(p)
  <2>1. InPass(ckpt.state) \in Job
    BY InPassTypes DEF TypeOK
  <2>2. (IF ckpt.next = "end" THEN anchor ELSE ckpt.next) \in Step
    BY DEF TypeOK, Node, Step
  <2>3. Locals'
    BY <1>1, <1>9, <2>1, <2>2, AtTypes DEF Dispatch
  <2> QED
    BY <1>9, <2>3, SilentTypes, TypePartsNext DEF Dispatch
<1>10. CASE Govern(p)
  BY <1>1, <1>10, LeaveTypes, RecordTypes, TypePartsNext DEF Govern
<1> QED
  BY <1>3, <1>4, <1>5, <1>6, <1>7, <1>8, <1>9, <1>10

-----------------------------------------------------------------------------

LEMMA TypeInit == Init => TypeOK
<1> SUFFICES ASSUME Init PROVE TypeOK
  OBVIOUS
<1>1. InitialRun \in RunRecord
  BY DEF InitialRun, RunRecord, Stage, Condition, Reason, Outcome
<1>2. LogTypes
  <2>1. <<>> \in Seq(BOOLEAN)
    OBVIOUS
  <2> QED
    BY <1>1, <2>1 DEF Init, LogTypes, Kind
<1>3. CkptTypes /\ CasTypes
  BY <1>1, NullTypes DEF Init, CkptTypes, CasTypes, Node
<1>4. Locals
  <2>1. [NoJob EXCEPT !.pass = TRUE] \in Job
    BY NullTypes DEF NoJob, Job
  <2> QED
    BY <2>1, NullTypes DEF Init, Locals, Step
<1> QED
  BY <1>2, <1>3, <1>4, TypeParts

\* Every action keeps the types.
LEMMA TypeStep ==
    ASSUME TypeOK, [Next]_vars
    PROVE  TypeOK'
<1>1. CASE UNCHANGED vars
  BY <1>1 DEF TypeOK, vars, log, cas
<1>2. ASSUME NEW p \in Thread, Work(p)
      PROVE  TypeOK'
  <2>1. CASE Read(p) \/ AppendTx(p)
    BY <2>1, ControllerTypes
  <2>2. CASE Pass(p)
    BY <2>2, ExecutionTypes, ThyTypes, GateTypes, CompletionTypes DEF Pass
  <2>3. CASE Raised(p) \/ FailVersion(p) \/ FailFact(p)
    BY <2>3, FailureTypes
  <2>4. CASE \/ Freshness(p) \/ Stale(p) \/ CheckAnswer(p) \/ RecordAnswer(p) \/ Decide(p)
             \/ Proceed(p) \/ Dispatch(p) \/ Govern(p)
    BY <2>4, ResolutionTypes
  <2> QED
    BY <1>2, <2>1, <2>2, <2>3, <2>4 DEF Work
<1> QED
  BY <1>1, <1>2, RequestTypes DEF Next

\* In every reachable state each variable has its type, whatever the number of threads,
\* reviews and reopens.
THEOREM ControlTypeCorrect == Spec => []TypeOK
  BY TypeInit, TypeStep, PTL DEF Spec

-----------------------------------------------------------------------------
(***************************************************************************)
(* What the compare and swap of RunController gives, for any number of     *)
(* threads, reviews and reopens: the history replays on the state machine, *)
(* a terminal Run never changes again, and the terminal facts, appended in *)
(* a log access of their own, agree with the transition they are about.    *)
(***************************************************************************)
\* A thread about to append, whose read is still current, holds the Run's state and a command
\* that state allows.
CasInv == \A p \in fresh : pc[p] = "append" => snap[p] = run /\ job[p].cmd \in Allowed(run)

\* Which transition a thread continues from after asking for it.
Paired(j) == /\ j.cont \in {"fact", "completeFact"} => j.cmd = "complete"
             /\ j.cont = "failVersion" => j.cmd = "fail"
Closes    == {"fact", "completeFact"}
Fails     == {"failVersion", "failFact"}

PairInv == \A p \in Thread :
              /\ Paired(job[p])
              /\ pc[p] = "freshness" => job[p].cont \in {"checkAnswer", "proceed"}

OutcomeInv == run.condition # "terminal" => run.outcome = "none"

\* At most one thread is between a terminal transition and its fact, and the fact is not there.
ClosingInv == /\ \A p \in Thread : pc[p] \in Closes =>
                    run.outcome = "completed" /\ facts.completed = 0
              /\ \A p, q \in Thread : pc[p] \in Closes /\ pc[q] \in Closes => p = q
FailingInv == /\ \A p \in Thread : pc[p] \in Fails =>
                    run.outcome = "failed" /\ facts.failed = 0
              /\ \A p, q \in Thread : pc[p] \in Fails /\ pc[q] \in Fails => p = q

ControlInv == /\ TypeOK
              /\ CasInv
              /\ PairInv
              /\ OutcomeInv
              /\ ClosingInv
              /\ FailingInv
              /\ FactsAgree

-----------------------------------------------------------------------------
(* How threads move. *)

\* Places no step but the controller's leads to.
Guarded == {"append"} \cup Closes \cup Fails

Moves(p) == \E s \in Step \ Guarded, j \in Job :
                /\ At(p, s, j)
                /\ Paired(j)
                /\ s = "freshness" => j.cont \in {"checkAnswer", "proceed"}

Steady  == run' = run /\ facts' = facts
Reading == snap' = snap /\ fresh' \in {fresh, {}}

LEMMA PairedJobs ==
    /\ Paired(NoJob)
    /\ \A gs \in Graph : Paired(InPass(gs))
  BY DEF Paired, NoJob, InPass

LEMMA LeaveMoves ==
    ASSUME TypeOK, NEW p \in Thread, Leave(p)
    PROVE  Moves(p)
<1>1. "idle" \in Step \ Guarded
  BY DEF Step, Guarded, Closes, Fails
<1> QED
  BY <1>1, NullTypes, PairedJobs DEF Leave, Moves

LEMMA PassMoves ==
    ASSUME TypeOK, NEW p \in Thread, NEW s \in Step \ Guarded, s # "freshness",
           NEW gs \in Graph, At(p, s, InPass(gs))
    PROVE  Moves(p)
  BY InPassTypes, PairedJobs DEF Moves

LEMMA RaiseMoves ==
    ASSUME TypeOK, NEW p \in Thread, Raise(p)
    PROVE  Moves(p)
<1>1. "raised" \in Step \ Guarded /\ "raised" # "freshness"
  BY DEF Step, Guarded, Closes, Fails
<1>2. CASE At(p, "raised", InPass(InitialGraph))
  BY <1>1, <1>2, NullTypes, PassMoves
<1> QED
  BY <1>2, LeaveMoves DEF Raise

LEMMA GotoMoves ==
    ASSUME TypeOK, PairInv, NEW p \in Thread, NEW s \in Step \ Guarded, s # "freshness", Goto(p, s)
    PROVE  Moves(p)
<1>1. job[p] \in Job /\ Paired(job[p])
  BY DEF TypeOK, PairInv
<1> QED
  BY <1>1 DEF Goto, Moves

LEMMA AtMoves ==
    ASSUME NEW p \in Thread, NEW s \in Step \ Guarded, s # "freshness",
           NEW j \in Job, Paired(j), At(p, s, j)
    PROVE  Moves(p)
  BY DEF Moves

\* A transition asked for as the code asks for it.
LEMMA TxMoves ==
    ASSUME TypeOK, NEW p \in Thread, NEW c \in Command, NEW s \in Cont, NEW j \in Job,
           Tx(p, c, s, j),
           s \in {"fact", "completeFact"} => c = "complete",
           s = "failVersion" => c = "fail"
    PROVE  Moves(p)
<1> DEFINE k == [j EXCEPT !.cmd = c, !.cont = s]
<1>1. k \in Job
  BY JobTypes
<1>2. Paired(k)
  BY DEF Paired, Job
<1>3. "read" \in Step \ Guarded /\ "read" # "freshness"
  BY DEF Step, Guarded, Closes, Fails
<1>4. At(p, "read", k)
  BY DEF Tx
<1> HIDE DEF k
<1> QED
  BY <1>1, <1>2, <1>3, <1>4, AtMoves

LEMMA EnterMoves ==
    ASSUME TypeOK, NEW p \in Thread, NEW n \in Node, NEW gs \in Graph, Enter(p, n, gs)
    PROVE  Moves(p)
<1>1. n \in Step \ Guarded /\ n # "freshness"
  BY DEF Node, Step, Guarded, Closes, Fails
<1> QED
  BY <1>1, PassMoves DEF Enter

LEMMA EndPassMoves ==
    ASSUME TypeOK, NEW p \in Thread, EndPass(p)
    PROVE  Moves(p)
  BY LeaveMoves DEF EndPass

\* Silent, Note and Ask leave the Run, the facts and the snapshots alone.
LEMMA QuietSteps ==
    /\ Silent => Steady /\ Reading
    /\ Note => Steady /\ Reading
    /\ \A r \in Review, k \in Kind : Ask(r, k) => Steady /\ Reading
    /\ \A p \in Thread : Record(p) => Steady /\ Reading
  BY DEF Silent, Note, Ask, Appended, Record, Steady, Reading, log, cas

\* Places the steps go to by name.
LEMMA Places ==
    /\ {"started", "applyExec", "routeExec", "thyWork", "thyPark", "routeThy", "audit",
        "applyReview", "settle", "routeGate", "close", "idle", "recordAnswer", "decide", "proceed",
        "checkAnswer", "dispatch", "stale", "govern", "read"} \subseteq Step \ Guarded
    /\ Node \subseteq Step \ Guarded
  BY DEF Step, Guarded, Closes, Fails, Node

-----------------------------------------------------------------------------
(* Every step but the controller's and the facts' is such a move. *)

Plainly(p) == Moves(p) /\ Steady /\ Reading

LEMMA StillSteps == UNCHANGED <<log, cas>> => Steady /\ Reading
  BY DEF Steady, Reading, log, cas

LEMMA ExecutionMoves ==
    ASSUME TypeOK, PairInv, NEW p \in Thread,
           Start(p) \/ Started(p) \/ ExecGate(p) \/ ApplyExec(p) \/ RouteExec(p)
    PROVE  Plainly(p)
<1>1. job[p] \in Job /\ Paired(job[p]) /\ job[p].gs \in Graph /\ job[p].gs.exec \in Verdict
  BY JobTypes, GraphTypes DEF TypeOK, PairInv
<1>2. CASE Start(p)
  <2>1. Moves(p)
    BY <1>1, <1>2, Names, ContNames, Places, TxMoves, GotoMoves DEF Start
  <2> QED
    BY <1>2, <2>1, QuietSteps DEF Start, Plainly
<1>3. CASE Started(p)
  BY <1>1, <1>3, Names, EnterMoves, StillSteps DEF Started, Plainly
<1>4. CASE ExecGate(p)
  <2>1. \A v \in Verdict : WithExec(p, v) \in Job /\ Paired(WithExec(p, v))
    BY <1>1, JobTypes, GraphTypes DEF WithExec, Job, Paired
  <2>2. \A v \in Verdict : At(p, "applyExec", WithExec(p, v)) => Moves(p)
    BY <2>1, Places, AtMoves
  <2>3. Moves(p)
    <3>1. ParkedOnStart => parked \in Verdict
      BY Names DEF ParkedOnStart, TypeOK
    <3> QED
      BY <1>4, <2>2, <3>1, Names DEF ExecGate
  <2>4. Silent \/ Note \/ \E r \in Review : Ask(r, "execution")
    BY <1>4 DEF ExecGate
  <2> QED
    BY <2>3, <2>4, Names, QuietSteps DEF Plainly
<1>5. CASE ApplyExec(p)
  <2>1. ASSUME job[p].gs.exec \in Review
        PROVE  [job[p] EXCEPT !.arg = job[p].gs.exec] \in Job
    BY <1>1, <2>1, JobTypes
  <2>2. Moves(p)
    BY <1>1, <1>5, <2>1, Names, ContNames, Places, TxMoves, GotoMoves DEF ApplyExec
  <2> QED
    BY <1>5, <2>2, QuietSteps DEF ApplyExec, Plainly
<1>6. CASE RouteExec(p)
  <2>1. Moves(p)
    BY <1>1, <1>6, Names, RaiseMoves, EnterMoves, EndPassMoves DEF RouteExec
  <2> QED
    BY <1>6, <2>1, StillSteps DEF RouteExec, Plainly
<1> QED
  BY <1>2, <1>3, <1>4, <1>5, <1>6

LEMMA ThyMoves ==
    ASSUME TypeOK, PairInv, NEW p \in Thread,
           Thy(p) \/ ThyWork(p) \/ ThyPark(p) \/ RouteThy(p)
    PROVE  Plainly(p)
<1>1. job[p] \in Job /\ Paired(job[p]) /\ job[p].gs \in Graph
  BY JobTypes DEF TypeOK, PairInv
<1>2. CASE Thy(p)
  <2>1. Moves(p)
    BY <1>1, <1>2, Names, ContNames, Places, TxMoves, GotoMoves DEF Thy
  <2> QED
    BY <1>2, <2>1, QuietSteps DEF Thy, Plainly
<1>3. CASE ThyWork(p)
  <2>1. ReworkTaken(p) \in Job /\ Paired(ReworkTaken(p))
    BY <1>1, JobTypes, GraphTypes DEF ReworkTaken, Job, Paired
  <2>2. /\ At(p, "routeThy", ReworkTaken(p)) => Moves(p)
        /\ At(p, "thyPark", ReworkTaken(p)) => Moves(p)
    BY <2>1, Places, AtMoves
  <2>3. Moves(p)
    BY <1>3, <2>2, RaiseMoves DEF ThyWork
  <2>4. Note \/ \E r \in Review : Ask(r, "tool")
    BY <1>3 DEF ThyWork
  <2> QED
    BY <2>3, <2>4, Names, QuietSteps DEF Plainly
<1>4. CASE ThyPark(p)
  <2>1. \A r \in Review : [job[p] EXCEPT !.arg = r] \in Job
    BY <1>1, JobTypes
  <2>2. Pending \subseteq Review
    BY DEF Pending, Unanswered, Known
  <2>3. Moves(p)
    BY <1>4, <2>1, <2>2, Names, ContNames, Places, TxMoves, GotoMoves, RaiseMoves DEF ThyPark
  <2> QED
    BY <1>4, <2>3, QuietSteps DEF ThyPark, Plainly
<1>5. CASE RouteThy(p)
  BY <1>1, <1>5, Names, EndPassMoves, EnterMoves, StillSteps DEF RouteThy, Plainly
<1> QED
  BY <1>2, <1>3, <1>4, <1>5

LEMMA GateMoves ==
    ASSUME TypeOK, PairInv, NEW p \in Thread,
           \/ Mira(p) \/ Audit(p) \/ FindingsGate(p) \/ ApplyReview(p) \/ Settle(p)
           \/ Reporting(p) \/ RouteGate(p) \/ Complete(p) \/ Close(p)
    PROVE  Plainly(p)
<1>1. /\ job[p] \in Job /\ Paired(job[p]) /\ job[p].gs \in Graph
      /\ job[p].gs.verdict \in Verdict
  BY JobTypes, GraphTypes DEF TypeOK, PairInv
<1>2. \A v \in Verdict : WithVerdict(p, v) \in Job /\ Paired(WithVerdict(p, v))
  BY <1>1, JobTypes, GraphTypes DEF WithVerdict, Job, Paired
<1>3. CASE Mira(p)
  <2>1. Moves(p)
    BY <1>1, <1>3, Names, ContNames, Places, TxMoves, GotoMoves DEF Mira
  <2> QED
    BY <1>3, <2>1, QuietSteps DEF Mira, Plainly
<1>4. CASE Audit(p)
  <2>1. Moves(p)
    BY <1>1, <1>4, Names, EnterMoves, RaiseMoves DEF Audit
  <2>2. Steady /\ Reading
    BY <1>4, QuietSteps DEF Audit, Steady, Reading
  <2> QED
    BY <2>1, <2>2 DEF Plainly
<1>5. CASE FindingsGate(p)
  <2>1. \A v \in Verdict : At(p, "applyReview", WithVerdict(p, v)) => Moves(p)
    BY <1>2, Places, AtMoves
  <2>2. Moves(p)
    BY <1>5, <2>1, Names, Places, GotoMoves DEF FindingsGate
  <2>3. Silent \/ Note \/ \E r \in Review : Ask(r, "findings")
    BY <1>5 DEF FindingsGate
  <2> QED
    BY <2>2, <2>3, Names, QuietSteps DEF Plainly
<1>6. CASE ApplyReview(p)
  <2>1. ASSUME job[p].gs.verdict \in Review
        PROVE  [job[p] EXCEPT !.arg = job[p].gs.verdict] \in Job
    BY <1>1, <2>1, JobTypes
  <2>2. Moves(p)
    BY <1>1, <1>6, <2>1, Names, ContNames, Places, TxMoves, GotoMoves DEF ApplyReview
  <2> QED
    BY <1>6, <2>2, QuietSteps DEF ApplyReview, Plainly
<1>7. CASE Settle(p)
  <2>1. CASE /\ MayReopen(job[p].gs)
             /\ Note
             /\ Tx(p, "reopen", "routeGate",
                   [job[p] EXCEPT !.gs.verdict = "none", !.gs.rework = TRUE,
                                  !.gs.reopens = @ + 1])
    <3>1. job[p].gs.reopens + 1 \in 0 .. MaxReopens
      BY <1>1, <2>1, ReopenTypes
    <3>2. [job[p].gs EXCEPT !.verdict = "none", !.rework = TRUE,
                            !.reopens = job[p].gs.reopens + 1] \in Graph
      BY <1>1, <3>1, GraphTypes
    <3>3. [job[p] EXCEPT !.gs.verdict = "none", !.gs.rework = TRUE, !.gs.reopens = @ + 1] \in Job
      BY <1>1, <3>2 DEF Job
    <3> QED
      BY <2>1, <3>3, Names, ContNames, TxMoves, QuietSteps DEF Plainly
  <2>2. CASE \E r \in Review :
                /\ Ask(r, "escalation")
                /\ Tx(p, "wait_for_approval", "routeGate",
                      [WithVerdict(p, r) EXCEPT !.arg = r])
    <3>1. \A r \in Review : [WithVerdict(p, r) EXCEPT !.arg = r] \in Job
      BY <1>2, Names, JobTypes
    <3> QED
      BY <2>2, <3>1, Names, ContNames, TxMoves, QuietSteps DEF Plainly
  <2>3. CASE Tx(p, "begin_reporting", "reporting", job[p]) /\ Silent
    BY <1>1, <2>3, Names, ContNames, TxMoves, QuietSteps DEF Plainly
  <2> QED
    BY <1>7, <2>1, <2>2, <2>3 DEF Settle
<1>8. CASE Reporting(p)
  BY <1>1, <1>8, Names, ContNames, TxMoves, QuietSteps DEF Reporting, Plainly
<1>9. CASE RouteGate(p)
  <2>1. GateTarget(job[p].gs) \in Node \cup {"end"}
    BY Names DEF GateTarget
  <2>2. Moves(p)
    BY <1>1, <1>9, <2>1, RaiseMoves, EnterMoves, EndPassMoves DEF RouteGate
  <2> QED
    BY <1>9, <2>2, StillSteps DEF RouteGate, Plainly
<1>10. CASE Complete(p)
  <2>1. Moves(p)
    BY <1>1, <1>10, Names, ContNames, Places, TxMoves, GotoMoves DEF Complete
  <2> QED
    BY <1>10, <2>1, QuietSteps DEF Complete, Plainly
<1>11. CASE Close(p)
  BY <1>1, <1>11, Names, ContNames, TxMoves, EndPassMoves, StillSteps DEF Close, Plainly
<1> QED
  BY <1>3, <1>4, <1>5, <1>6, <1>7, <1>8, <1>9, <1>10, <1>11

LEMMA RequestMoves ==
    ASSUME TypeOK, PairInv, NEW p \in Thread,
           \/ Requests(p) \/ Raised(p) \/ Freshness(p) \/ Stale(p) \/ CheckAnswer(p)
           \/ RecordAnswer(p) \/ Decide(p) \/ Proceed(p) \/ Dispatch(p) \/ Govern(p)
    PROVE  Plainly(p)
<1>1. job[p] \in Job /\ Paired(job[p])
  BY DEF TypeOK, PairInv
<1>2. CASE Requests(p)
  <2>1. CASE \E a \in BOOLEAN : Resolve(p, a)
    <3> DEFINE j(a) == [NoJob EXCEPT !.arg = parked, !.ans = a, !.cont = "checkAnswer"]
    <3>1. \A a \in BOOLEAN : j(a) \in Job /\ Paired(j(a)) /\ j(a).cont = "checkAnswer"
      BY RequestJobs DEF Paired, NoJob
    <3>2. "freshness" \in Step \ Guarded
      BY DEF Step, Guarded, Closes, Fails
    <3>3. \E a \in BOOLEAN : At(p, "freshness", j(a)) /\ Silent
      BY <2>1 DEF Resolve
    <3> HIDE DEF j
    <3> QED
      BY <3>1, <3>2, <3>3, QuietSteps DEF Moves, Plainly
  <2>2. CASE Resume(p)
    <3> DEFINE j == [NoJob EXCEPT !.arg = parked, !.cont = "proceed"]
    <3>1. j \in Job /\ Paired(j) /\ j.cont = "proceed"
      BY RequestJobs DEF Paired, NoJob
    <3>2. "freshness" \in Step \ Guarded
      BY DEF Step, Guarded, Closes, Fails
    <3>3. (At(p, "freshness", j) \/ Tx(p, "block", "idle", j)) /\ Silent
      BY <2>2 DEF Resume
    <3> HIDE DEF j
    <3>4. At(p, "freshness", j) => Moves(p)
      BY <3>1, <3>2 DEF Moves
    <3>5. Tx(p, "block", "idle", j) => Moves(p)
      BY <3>1, Names, ContNames, TxMoves
    <3> QED
      BY <3>3, <3>4, <3>5, QuietSteps DEF Plainly
  <2>3. CASE Cancel(p)
    BY <2>3, Names, ContNames, NullTypes, TxMoves, QuietSteps DEF Cancel, Plainly
  <2>4. CASE Plan(p)
    BY <2>4, Names, LeaveMoves, QuietSteps DEF Plan, Plainly
  <2>5. CASE \E r \in Review, a \in BOOLEAN : Answer(p, r, a)
    <3>1. \A r \in Review, a \in BOOLEAN : Paired([NoJob EXCEPT !.arg = r, !.ans = a])
      BY DEF Paired, NoJob
    <3> QED
      BY <2>5, <3>1, RequestJobs, Places, AtMoves, QuietSteps DEF Answer, Plainly
  <2> QED
    BY <1>2, <2>1, <2>2, <2>3, <2>4, <2>5 DEF Requests
<1>3. CASE Raised(p)
  <2>1. [job[p] EXCEPT !.pass = FALSE] \in Job
    BY <1>1, JobTypes
  <2> QED
    BY <1>3, <2>1, Names, ContNames, TxMoves, LeaveMoves, QuietSteps DEF Raised, Plainly
<1>4. CASE Freshness(p)
  <2>1. job[p].cont \in {"checkAnswer", "proceed"}
    BY <1>4 DEF Freshness, PairInv
  <2>2. Moves(p)
    BY <1>4, <2>1, Places, GotoMoves DEF Freshness
  <2>3. Silent \/ Note
    BY <1>4 DEF Freshness
  <2> QED
    BY <2>2, <2>3, QuietSteps DEF Plainly
<1>5. CASE Stale(p)
  BY <1>1, <1>5, Names, ContNames, TxMoves, LeaveMoves, QuietSteps DEF Stale, Plainly
<1>6. CASE CheckAnswer(p)
  BY <1>6, Places, GotoMoves, LeaveMoves, QuietSteps DEF CheckAnswer, Plainly
<1>7. CASE RecordAnswer(p)
  BY <1>7, Places, GotoMoves, QuietSteps DEF RecordAnswer, Plainly
<1>8. CASE Decide(p)
  <2>1. Moves(p)
    BY <1>1, <1>8, Names, ContNames, Places, TxMoves, GotoMoves, LeaveMoves DEF Decide
  <2> QED
    BY <1>8, <2>1, QuietSteps DEF Decide, Plainly
<1>9. CASE Proceed(p)
  BY <1>1, <1>9, Names, ContNames, TxMoves, QuietSteps DEF Proceed, Plainly
<1>10. CASE Dispatch(p)
  <2> DEFINE s == IF ckpt.next = "end" THEN anchor ELSE ckpt.next
  <2>1. s \in Step \ Guarded /\ s # "freshness"
    BY DEF TypeOK, Node, Step, Guarded, Closes, Fails
  <2>2. At(p, s, InPass(ckpt.state)) /\ ckpt.state \in Graph
    BY <1>10 DEF Dispatch, TypeOK
  <2> HIDE DEF s
  <2>3. Moves(p)
    BY <2>1, <2>2, PassMoves
  <2> QED
    BY <1>10, <2>3, QuietSteps DEF Dispatch, Plainly
<1>11. CASE Govern(p)
  BY <1>11, LeaveMoves, QuietSteps DEF Govern, Plainly
<1> QED
  BY <1>2, <1>3, <1>4, <1>5, <1>6, <1>7, <1>8, <1>9, <1>10, <1>11

-----------------------------------------------------------------------------
(* The invariant, step by step. *)

LEMMA InvInit == Init => ControlInv
<1> SUFFICES ASSUME Init PROVE ControlInv
  OBVIOUS
<1>1. TypeOK
  BY TypeInit
<1>2. CasInv /\ OutcomeInv /\ FactsAgree
  BY DEF Init, CasInv, OutcomeInv, FactsAgree, InitialRun
<1>3. \A p \in Thread : pc[p] \in {"start", "idle"}
  BY DEF Init
<1>4. ClosingInv /\ FailingInv
  BY <1>3 DEF ClosingInv, FailingInv, Closes, Fails
<1>5. PairInv
  BY <1>3 DEF Init, PairInv, Paired, NoJob
<1> QED
  BY <1>1, <1>2, <1>4, <1>5 DEF ControlInv

\* Moving thread p elsewhere keeps the pairing of transitions and what follows them.
LEMMA PairStep ==
    ASSUME TypeOK, PairInv, NEW p \in Thread, Moves(p)
    PROVE  PairInv'
<1>1. PICK s \in Step \ Guarded, j \in Job :
          At(p, s, j) /\ Paired(j) /\ (s = "freshness" => j.cont \in {"checkAnswer", "proceed"})
  BY DEF Moves
<1>2. pc' = [pc EXCEPT ![p] = s] /\ job' = [job EXCEPT ![p] = j]
  BY <1>1 DEF At
<1>3. pc \in [Thread -> Step] /\ job \in [Thread -> Job]
  BY DEF TypeOK
<1>4. pc'[p] = s /\ job'[p] = j
  BY <1>2, <1>3
<1>5. \A q \in Thread \ {p} : pc'[q] = pc[q] /\ job'[q] = job[q]
  BY <1>2, <1>3
<1>6. Paired(job[p])' = Paired(j)
  BY <1>4 DEF Paired
<1>7. \A q \in Thread \ {p} : Paired(job[q])' = Paired(job[q])
  BY <1>5 DEF Paired
<1> QED
  BY <1>1, <1>4, <1>5, <1>6, <1>7 DEF PairInv

\* A thread that moves away from the guarded places enters none of them.
LEMMA MovedAway ==
    ASSUME TypeOK, NEW p \in Thread, Moves(p)
    PROVE  /\ pc'[p] \notin Guarded
           /\ \A q \in Thread \ {p} : pc'[q] = pc[q] /\ job'[q] = job[q]
  BY DEF Moves, At, TypeOK

LEMMA PlainStep ==
    ASSUME ControlInv, NEW p \in Thread, Plainly(p), TypeOK'
    PROVE  ControlInv'
<1>1. TypeOK /\ PairInv /\ Moves(p) /\ Steady /\ Reading
  BY DEF ControlInv, Plainly
<1>2. PairInv'
  BY <1>1, PairStep
<1>3. CasInv'
  <2> SUFFICES ASSUME NEW q \in fresh', pc'[q] = "append"
               PROVE  snap'[q] = run' /\ job'[q].cmd \in Allowed(run')
    BY DEF CasInv
  <2>1. q \in fresh /\ q \in Thread
    BY <1>1 DEF Reading, TypeOK
  <2>2. q # p
    BY <1>1, MovedAway DEF Guarded
  <2> QED
    BY <1>1, <2>1, <2>2, MovedAway DEF ControlInv, CasInv, Steady, Reading
<1>4. OutcomeInv' /\ FactsAgree'
  BY <1>1 DEF ControlInv, OutcomeInv, FactsAgree, Steady
<1>5. ClosingInv' /\ FailingInv'
  BY <1>1, MovedAway DEF ControlInv, ClosingInv, FailingInv, Guarded, Steady
<1> QED
  BY <1>2, <1>3, <1>4, <1>5 DEF ControlInv

LEMMA ReadStep ==
    ASSUME ControlInv, NEW p \in Thread, Read(p), TypeOK'
    PROVE  ControlInv'
<1>1. TypeOK /\ PairInv
  BY DEF ControlInv
<1>2. CASE job[p].cmd \notin Allowed(run)
  <2>1. Plainly(p)
    BY <1>1, <1>2, RaiseMoves DEF Read, Plainly, Steady, Reading, log, cas
  <2> QED
    BY <2>1, PlainStep
<1>3. CASE job[p].cmd \in Allowed(run)
  <2>1. /\ snap' = [snap EXCEPT ![p] = run] /\ fresh' = fresh \cup {p}
        /\ run' = run /\ facts' = facts
        /\ \A q \in Thread : /\ job'[q] = job[q]
                              /\ pc'[q] = IF q = p THEN "append" ELSE pc[q]
    BY <1>1, <1>3 DEF Read, Goto, At, log, TypeOK
  <2>2. CasInv'
    <3> SUFFICES ASSUME NEW q \in fresh', pc'[q] = "append"
                 PROVE  snap'[q] = run' /\ job'[q].cmd \in Allowed(run')
      BY DEF CasInv
    <3>1. q \in Thread
      BY <2>1 DEF ControlInv, TypeOK
    <3> QED
      BY <1>1, <1>3, <2>1, <3>1 DEF ControlInv, CasInv, TypeOK
  <2>3. PairInv'
    BY <1>1, <2>1 DEF PairInv, Paired
  <2>4. OutcomeInv' /\ FactsAgree'
    BY <2>1 DEF ControlInv, OutcomeInv, FactsAgree
  <2>5. ClosingInv' /\ FailingInv'
    BY <2>1 DEF ControlInv, ClosingInv, FailingInv, Closes, Fails
  <2> QED
    BY <2>2, <2>3, <2>4, <2>5 DEF ControlInv
<1> QED
  BY <1>2, <1>3

\* The Run is not terminal when a command is allowed, and ends as the command says.
LEMMA Outcomes ==
    ASSUME NEW s \in RunRecord, NEW c \in Command, c \in Allowed(s)
    PROVE  /\ s.condition # "terminal"
           /\ NextState(s, c).condition # "terminal" => NextState(s, c).outcome = "none"
           /\ c = "complete" <=> NextState(s, c).outcome = "completed"
           /\ c = "fail" => NextState(s, c).outcome = "failed"
<1>1. s.condition # "terminal"
  BY DEF Allowed, RunRecord, Condition
<1>2. /\ \A cond \in Condition : /\ Plain(s, cond) \in RunRecord
                                 /\ Plain(s, cond).outcome = "none"
                                 /\ Plain(s, cond).condition = cond
  BY DEF Plain, RunRecord, Reason, Outcome
<1>3. {"active", "waiting", "paused", "terminal"} = Condition
  BY DEF Condition
<1>4. ASSUME c \notin DOMAIN TerminalOutcome
      PROVE  NextState(s, c).outcome = "none"
  <2>1. CASE c \in DOMAIN AdvanceStage
    <3>1. NextState(s, c) = [Plain(s, "active") EXCEPT !.stage = AdvanceStage[c]]
      <4>1. c \notin {"resume", "wait_for_information", "wait_for_approval", "pause"}
        BY <2>1 DEF AdvanceStage
      <4> QED
        BY <1>4, <2>1, <4>1 DEF NextState
    <3> QED
      BY <1>2, <1>3, <3>1 DEF RunRecord
  <2>2. CASE c \notin DOMAIN AdvanceStage
    <3>1. c \in {"resume", "wait_for_information", "wait_for_approval", "pause"}
      BY <1>4, <2>2 DEF Command, Interrupts, NonTerminal, TerminalOutcome
    <3>2. \/ NextState(s, c) = Plain(s, "active")
          \/ NextState(s, c) = [Plain(s, "waiting") EXCEPT !.reason = "information"]
          \/ NextState(s, c) = [Plain(s, "waiting") EXCEPT !.reason = "approval"]
          \/ NextState(s, c) = Plain(s, "paused")
      BY <1>4, <2>2, <3>1 DEF NextState
    <3> QED
      BY <1>2, <1>3, <3>2 DEF RunRecord
  <2> QED
    BY <2>1, <2>2
<1>5. ASSUME c \in DOMAIN TerminalOutcome
      PROVE  /\ NextState(s, c).condition = "terminal"
             /\ NextState(s, c).outcome = TerminalOutcome[c]
  <2>1. /\ c \notin DOMAIN AdvanceStage
        /\ c \notin {"resume", "wait_for_information", "wait_for_approval", "pause"}
    BY <1>5 DEF TerminalOutcome, AdvanceStage
  <2>2. NextState(s, c) = [Plain(s, "terminal") EXCEPT !.outcome = TerminalOutcome[c]]
    BY <1>5, <2>1 DEF NextState
  <2> QED
    BY <1>2, <1>3, <2>2 DEF RunRecord
<1> QED
  BY <1>1, <1>4, <1>5 DEF TerminalOutcome

LEMMA AppendStep ==
    ASSUME ControlInv, NEW p \in Thread, AppendTx(p), TypeOK'
    PROVE  ControlInv'
<1>1. TypeOK /\ PairInv /\ pc[p] = "append"
  BY DEF ControlInv, AppendTx
<1>2. CASE ~Won(p)
  <2>1. Moves(p) /\ run' = run /\ facts' = facts /\ fresh' = fresh \ {p}
        /\ snap' = [snap EXCEPT ![p] = InitialRun]
    BY <1>1, <1>2, RaiseMoves DEF AppendTx, log
  <2>2. PairInv'
    BY <1>1, <2>1, PairStep
  <2>3. CasInv'
    <3> SUFFICES ASSUME NEW q \in fresh', pc'[q] = "append"
                 PROVE  snap'[q] = run' /\ job'[q].cmd \in Allowed(run')
      BY DEF CasInv
    <3>1. q \in fresh /\ q # p /\ q \in Thread
      BY <1>1, <2>1 DEF TypeOK
    <3> QED
      BY <1>1, <2>1, <3>1, MovedAway DEF ControlInv, CasInv, TypeOK
  <2>4. OutcomeInv' /\ FactsAgree'
    BY <2>1 DEF ControlInv, OutcomeInv, FactsAgree
  <2>5. ClosingInv' /\ FailingInv'
    BY <1>1, <2>1, MovedAway DEF ControlInv, ClosingInv, FailingInv, Guarded
  <2> QED
    BY <2>2, <2>3, <2>4, <2>5 DEF ControlInv
<1>3. CASE Won(p)
  <2> DEFINE c == job[p].cmd
             k == job[p].cont
  <2>1. snap[p] = run /\ c \in Allowed(run)
    BY <1>1, <1>3 DEF ControlInv, CasInv, Won
  <2>2. run \in RunRecord /\ c \in Command /\ job[p] \in Job /\ k \in Cont /\ Paired(job[p])
    BY <1>1, JobTypes DEF TypeOK, PairInv
  <2>3. run' = NextState(run, c) /\ facts' = facts /\ fresh' = {}
    BY <1>3, <2>1 DEF AppendTx
  <2>4. run.condition # "terminal" /\ run.outcome = "none"
    BY <2>1, <2>2, Outcomes DEF ControlInv, OutcomeInv
  <2>5. facts.completed = 0 /\ facts.failed = 0
    BY <1>1, <2>4 DEF ControlInv, FactsAgree, TypeOK
  <2>6. \A q \in Thread : pc[q] \notin Closes \cup Fails
    BY <2>4 DEF ControlInv, ClosingInv, FailingInv
  <2>7. \A q \in Thread \ {p} : pc'[q] = pc[q] /\ job'[q] = job[q]
    BY <1>1, <1>3 DEF AppendTx, Continue, Leave, At, TypeOK
  <2>8. pc'[p] = k /\ Paired(job'[p])
    <3>1. Continue(p)
      BY <1>3 DEF AppendTx
    <3>2. CASE k = "idle"
      <4>1. pc' = [pc EXCEPT ![p] = "idle"] /\ job' = [job EXCEPT ![p] = NoJob]
        BY <3>1, <3>2 DEF Continue, Leave, At
      <4>2. pc'[p] = "idle" /\ job'[p] = NoJob
        BY <1>1, <4>1 DEF TypeOK
      <4> QED
        BY <3>2, <4>2 DEF Paired, NoJob
    <3>3. CASE k # "idle"
      <4> DEFINE j == [NoJob EXCEPT !.pass = job[p].pass, !.gs = job[p].gs]
      <4>1. pc' = [pc EXCEPT ![p] = k] /\ job' = [job EXCEPT ![p] = j]
        BY <3>1, <3>3 DEF Continue, At
      <4>2. j.cont = "idle"
        BY DEF NoJob
      <4> HIDE DEF j
      <4>3. pc'[p] = k /\ job'[p] = j
        BY <1>1, <4>1 DEF TypeOK
      <4> QED
        BY <4>2, <4>3 DEF Paired
    <3> QED
      BY <3>2, <3>3
  <2>9. k \in Closes => c = "complete"
    BY <2>2 DEF Paired, Closes
  <2>10. k \in Fails => c = "fail"
    BY <2>2 DEF Paired, Fails, Cont
  <2>11. CasInv'
    BY <2>3 DEF CasInv
  <2>12. OutcomeInv'
    BY <2>1, <2>2, <2>3, Outcomes DEF OutcomeInv
  <2>13. FactsAgree'
    BY <2>3, <2>5 DEF FactsAgree
  <2>14. PairInv'
    <3>1. k # "freshness"
      BY <2>2 DEF Cont
    <3> QED
      BY <1>1, <2>7, <2>8, <3>1 DEF PairInv
  <2>15. ClosingInv'
    <3>1. ASSUME NEW q \in Thread, pc'[q] \in Closes
          PROVE  q = p /\ run'.outcome = "completed" /\ facts'.completed = 0
      <4>1. q = p
        BY <2>6, <2>7, <3>1
      <4> QED
        BY <2>1, <2>2, <2>3, <2>5, <2>8, <2>9, <3>1, <4>1, Outcomes
    <3> QED
      BY <3>1 DEF ClosingInv
  <2>16. FailingInv'
    <3>1. ASSUME NEW q \in Thread, pc'[q] \in Fails
          PROVE  q = p /\ run'.outcome = "failed" /\ facts'.failed = 0
      <4>1. q = p
        BY <2>6, <2>7, <3>1
      <4> QED
        BY <2>1, <2>2, <2>3, <2>5, <2>8, <2>10, <3>1, <4>1, Outcomes
    <3> QED
      BY <3>1 DEF FailingInv
  <2> QED
    BY <2>11, <2>12, <2>13, <2>14, <2>15, <2>16 DEF ControlInv
<1> QED
  BY <1>2, <1>3

LEMMA FailVersionStep ==
    ASSUME ControlInv, NEW p \in Thread, FailVersion(p), TypeOK'
    PROVE  ControlInv'
<1>1. TypeOK /\ pc[p] = "failVersion"
  BY DEF ControlInv, FailVersion
<1>2. run' = run /\ facts' = facts /\ snap' = snap /\ fresh' = fresh \cup {p}
  BY DEF FailVersion, log
<1>3. \A q \in Thread : /\ job'[q] = job[q]
                         /\ pc'[q] = IF q = p THEN "failFact" ELSE pc[q]
  BY <1>1 DEF FailVersion, Goto, At, TypeOK
<1>4. CasInv'
  <2> SUFFICES ASSUME NEW q \in fresh', pc'[q] = "append"
               PROVE  snap'[q] = run' /\ job'[q].cmd \in Allowed(run')
    BY DEF CasInv
  <2>1. q \in Thread
    BY <1>1, <1>2 DEF TypeOK
  <2> QED
    BY <1>2, <1>3, <2>1 DEF ControlInv, CasInv
<1>5. PairInv'
  BY <1>3 DEF ControlInv, PairInv, Paired
<1>6. OutcomeInv' /\ FactsAgree'
  BY <1>2 DEF ControlInv, OutcomeInv, FactsAgree
<1>7. ClosingInv'
  BY <1>2, <1>3 DEF ControlInv, ClosingInv, Closes
<1>8. FailingInv'
  BY <1>1, <1>2, <1>3 DEF ControlInv, FailingInv, Fails
<1> QED
  BY <1>4, <1>5, <1>6, <1>7, <1>8 DEF ControlInv

\* The step that appends run.completed leaves the place where it was owed.
LEMMA FactStep ==
    ASSUME ControlInv, NEW p \in Thread, Fact(p), TypeOK'
    PROVE  ControlInv'
<1>1. TypeOK /\ PairInv /\ pc[p] \in Closes
  BY DEF ControlInv, Fact, Closes
<1>2. Moves(p) /\ Reading /\ run' = run
  <2>1. Moves(p)
    BY <1>1, Places, GotoMoves, EndPassMoves DEF Fact
  <2> QED
    BY <2>1 DEF Fact, Reading, log, cas
<1>3. facts' = [facts EXCEPT !.completed = 1]
  <2>1. facts.completed = 0 /\ facts \in [completed : Nat, failed : Nat]
    BY <1>1 DEF ControlInv, ClosingInv, TypeOK
  <2>2. facts' = [facts EXCEPT !.completed = @ + 1]
    BY <2>1 DEF Fact
  <2> QED
    BY <2>1, <2>2
<1>4. facts'.completed = 1 /\ facts'.failed = facts.failed
  BY <1>1, <1>3 DEF TypeOK
<1>5. run.outcome = "completed" /\ \A q \in Thread \ {p} : pc[q] \notin Closes
  BY <1>1 DEF ControlInv, ClosingInv
<1>6. PairInv'
  BY <1>1, <1>2, PairStep
<1>7. CasInv'
  <2> SUFFICES ASSUME NEW q \in fresh', pc'[q] = "append"
               PROVE  snap'[q] = run' /\ job'[q].cmd \in Allowed(run')
    BY DEF CasInv
  <2>1. q \in fresh /\ q \in Thread
    BY <1>1, <1>2 DEF Reading, TypeOK
  <2>2. q # p
    BY <1>1, <1>2, MovedAway DEF Guarded
  <2> QED
    BY <1>1, <1>2, <2>1, <2>2, MovedAway DEF ControlInv, CasInv, Reading
<1>8. OutcomeInv' /\ FactsAgree'
  BY <1>2, <1>4, <1>5 DEF ControlInv, OutcomeInv, FactsAgree
<1>9. ClosingInv'
  BY <1>1, <1>2, <1>5, MovedAway DEF ClosingInv, Guarded
<1>10. FailingInv'
  BY <1>1, <1>2, <1>4, MovedAway DEF ControlInv, FailingInv, Guarded
<1> QED
  BY <1>6, <1>7, <1>8, <1>9, <1>10 DEF ControlInv

LEMMA FailFactStep ==
    ASSUME ControlInv, NEW p \in Thread, FailFact(p), TypeOK'
    PROVE  ControlInv'
<1>1. TypeOK /\ PairInv /\ pc[p] \in Fails
  BY DEF ControlInv, FailFact, Fails
<1>2. Moves(p) /\ Reading /\ run' = run
  BY <1>1, LeaveMoves DEF FailFact, Reading, log
<1>3. facts'.completed = facts.completed /\ facts'.failed \in {facts.failed, 1}
  <2>1. facts.failed = 0 /\ facts \in [completed : Nat, failed : Nat]
    BY <1>1 DEF ControlInv, FailingInv, TypeOK
  <2>2. facts' = [facts EXCEPT !.failed = @ + 1] \/ facts' = facts
    BY DEF FailFact, log
  <2> QED
    BY <2>1, <2>2
<1>4. run.outcome = "failed" /\ \A q \in Thread \ {p} : pc[q] \notin Fails
  BY <1>1 DEF ControlInv, FailingInv
<1>5. PairInv'
  BY <1>1, <1>2, PairStep
<1>6. CasInv'
  <2> SUFFICES ASSUME NEW q \in fresh', pc'[q] = "append"
               PROVE  snap'[q] = run' /\ job'[q].cmd \in Allowed(run')
    BY DEF CasInv
  <2>1. q \in fresh /\ q \in Thread
    BY <1>1, <1>2 DEF Reading, TypeOK
  <2>2. q # p
    BY <1>1, <1>2, MovedAway DEF Guarded
  <2> QED
    BY <1>1, <1>2, <2>1, <2>2, MovedAway DEF ControlInv, CasInv, Reading
<1>7. OutcomeInv' /\ FactsAgree'
  BY <1>2, <1>3, <1>4 DEF ControlInv, OutcomeInv, FactsAgree
<1>8. FailingInv'
  BY <1>1, <1>2, <1>4, MovedAway DEF FailingInv, Guarded
<1>9. ClosingInv'
  BY <1>1, <1>2, <1>3, MovedAway DEF ControlInv, ClosingInv, Guarded
<1> QED
  BY <1>5, <1>6, <1>7, <1>8, <1>9 DEF ControlInv

LEMMA InvStep ==
    ASSUME ControlInv, [Next]_vars
    PROVE  ControlInv'
<1>1. TypeOK'
  BY TypeStep DEF ControlInv
<1>2. TypeOK /\ PairInv
  BY DEF ControlInv
<1>3. CASE UNCHANGED vars
  BY <1>1, <1>3 DEF ControlInv, CasInv, PairInv, Paired, OutcomeInv, ClosingInv, FailingInv,
                    FactsAgree, vars, log, cas
<1>4. ASSUME NEW p \in Thread, Work(p) \/ Requests(p)
      PROVE  ControlInv'
  <2>1. CASE Read(p)
    BY <1>1, <2>1, ReadStep
  <2>2. CASE AppendTx(p)
    BY <1>1, <2>2, AppendStep
  <2>3. CASE FailVersion(p)
    BY <1>1, <2>3, FailVersionStep
  <2>4. CASE Fact(p)
    BY <1>1, <2>4, FactStep
  <2>5. CASE FailFact(p)
    BY <1>1, <2>5, FailFactStep
  <2>6. CASE Pass(p) /\ ~Fact(p)
    <3>1. Plainly(p)
      BY <1>2, <2>6, ExecutionMoves, ThyMoves, GateMoves DEF Pass
    <3> QED
      BY <1>1, <3>1, PlainStep
  <2>7. CASE \/ Requests(p) \/ Raised(p) \/ Freshness(p) \/ Stale(p) \/ CheckAnswer(p)
             \/ RecordAnswer(p) \/ Decide(p) \/ Proceed(p) \/ Dispatch(p) \/ Govern(p)
    BY <1>1, <1>2, <2>7, RequestMoves, PlainStep
  <2> QED
    BY <1>4, <2>1, <2>2, <2>3, <2>4, <2>5, <2>6, <2>7 DEF Work
<1> QED
  BY <1>3, <1>4 DEF Next

-----------------------------------------------------------------------------

\* The inductive invariant holds in every reachable state.
THEOREM ControlInvariance == Spec => []ControlInv
  BY InvInit, InvStep, PTL DEF Spec

\* run.completed and run.failed are written at most once, and about a Run that ended that way.
THEOREM FactsAreHonest == Spec => []FactsAgree
<1>1. ControlInv => FactsAgree
  BY DEF ControlInv
<1> QED
  BY <1>1, ControlInvariance, PTL

\* A step that changes the Run is one transition the state machine allows.
LEMMA StepIsTransition ==
    ASSUME ControlInv, [Next]_vars
    PROVE  [Machine!Next]_run
<1>1. TypeOK /\ PairInv
  BY DEF ControlInv
<1>2. CASE UNCHANGED vars
  BY <1>2 DEF vars, log
<1>3. ASSUME NEW p \in Thread, Work(p) \/ Requests(p)
      PROVE  [Machine!Next]_run
  <2>1. CASE AppendTx(p)
    <3>1. CASE Won(p)
      <4>1. snap[p] = run /\ job[p].cmd \in Allowed(run)
        BY <2>1, <3>1 DEF ControlInv, CasInv, Won, AppendTx
      <4>2. job[p].cmd \in Command
        BY <1>1, JobTypes DEF TypeOK
      <4>3. run' = NextState(run, job[p].cmd)
        BY <2>1, <3>1, <4>1 DEF AppendTx
      <4>4. Machine!Transition(job[p].cmd)
        BY <4>1, <4>3 DEF Machine!Transition, Machine!Allowed, Machine!NextState, Allowed,
                          NextState, Machine!Plain, Plain, Machine!ActiveCommands, ActiveCommands,
                          Machine!AdvanceStage, AdvanceStage, Machine!TerminalOutcome,
                          TerminalOutcome, Machine!NonTerminal, NonTerminal,
                          Machine!Interrupts, Interrupts
      <4> QED
        BY <4>2, <4>4 DEF Machine!Next, Machine!Command, Command, Machine!AdvanceStage,
                          AdvanceStage, Machine!TerminalOutcome, TerminalOutcome,
                          Machine!NonTerminal, NonTerminal, Machine!Interrupts, Interrupts
    <3>2. CASE ~Won(p)
      BY <2>1, <3>2 DEF AppendTx, log
    <3> QED
      BY <3>1, <3>2
  <2>2. CASE Read(p) \/ FailVersion(p) \/ Fact(p) \/ FailFact(p)
    BY <2>2 DEF Read, FailVersion, Fact, FailFact, log
  <2>3. CASE Pass(p) /\ ~Fact(p)
    BY <1>1, <2>3, ExecutionMoves, ThyMoves, GateMoves DEF Pass, Plainly, Steady
  <2>4. CASE \/ Requests(p) \/ Raised(p) \/ Freshness(p) \/ Stale(p) \/ CheckAnswer(p)
             \/ RecordAnswer(p) \/ Decide(p) \/ Proceed(p) \/ Dispatch(p) \/ Govern(p)
    BY <1>1, <2>4, RequestMoves DEF Plainly, Steady
  <2> QED
    BY <1>3, <2>1, <2>2, <2>3, <2>4 DEF Work
<1> QED
  BY <1>2, <1>3 DEF Next

\* RunControl implements RunMachine: whatever threads and clients do, the log's transitions are
\* a history the state machine replays.
THEOREM HistoriesReplay == Spec => HistoryReplays
<1>1. Init => Machine!Init
  BY DEF Init, Machine!Init, Machine!InitialRun, InitialRun
<1> QED
  BY <1>1, StepIsTransition, ControlInvariance, PTL DEF Spec, HistoryReplays, Machine!Spec

\* No request, pass or late answer changes a Run that has ended.
THEOREM TerminalIsFinal == Spec => [][run.condition = "terminal" => run' = run]_vars
<1>1. ControlInv /\ [Next]_vars => [run.condition = "terminal" => run' = run]_vars
  <2> SUFFICES ASSUME ControlInv, [Next]_vars, run.condition = "terminal"
               PROVE  run' = run
    OBVIOUS
  <2>1. \A c \in Machine!Command : ~Machine!Transition(c)
    <3>1. Machine!Allowed(run) = {}
      BY DEF Machine!Allowed
    <3> QED
      BY <3>1 DEF Machine!Transition
  <2>2. [Machine!Next]_run
    BY StepIsTransition
  <2> QED
    BY <2>1, <2>2 DEF Machine!Next
<1> QED
  BY <1>1, ControlInvariance, PTL DEF Spec

----------------------------------------------------------------------------
(* Under which decisions a Run works and completes. Passes hand each other verdicts    *)
(* through the checkpoint, and requests enter the graph at the node it names or at the *)
(* edge the latest resume selects: what makes this sound is what each place of the     *)
(* graph may take for granted about the verdicts it is given.                          *)

\* What releases THY, and what lets a Run complete.
Granted(v) == v = "pass" \/ (v \in Review /\ kind[v] = "execution" /\ Approvals(v) # {})
Cleared(v) == v = "pass" \/ (v \in Review /\ kind[v] \in {"findings", "escalation"}
                             /\ Approvals(v) # {})

\* Places before the execution gate, those behind it, and those behind the findings decision.
BeforeGate     == {"start", "started", "execGate", "applyExec"}
UnderGrant     == {"thy", "thyWork", "thyPark", "routeThy", "mira", "audit", "gate",
                   "applyReview", "settle"}
UnderClearance == {"settle", "reporting", "fact", "complete", "close", "completeFact"}

\* The reviews a graph state names are of the right kind, and only granted work is reworked.
SoundGraph(gs) == /\ gs.exec \in Review => kind[gs.exec] = "execution"
                  /\ gs.verdict \in Review => kind[gs.verdict] \in {"findings", "escalation"}
                  /\ gs.rework => Granted(gs.exec)

\* What a place takes for granted.
Entitled(s, gs) == /\ s \in BeforeGate => ~gs.rework
                   /\ s \in UnderGrant => Granted(gs.exec)
                   /\ s = "applyReview" => gs.verdict # "none"
                   /\ s \in UnderClearance => Cleared(gs.verdict)

\* A transition on its way may take what the place it leads to takes for granted.
Sound(s, j) == /\ SoundGraph(j.gs)
               /\ Entitled(s, j.gs)
               /\ s \in {"read", "append"} =>
                     /\ Entitled(j.cont, j.gs)
                     /\ j.cmd = "complete" => Cleared(j.gs.verdict)

AuthorityInv == /\ SoundGraph(ckpt.state)
                /\ Entitled(ckpt.next, ckpt.state)
                /\ \A p \in Thread : Sound(pc[p], job[p])

-----------------------------------------------------------------------------
(* Nothing a step does takes a verdict away: kinds are given once, answers only added. *)

Grows == \A r \in Review : /\ kind[r] # "none" => kind'[r] = kind[r]
                           /\ Approvals(r) # {} => Approvals(r)' # {}

LEMMA Kept ==
    ASSUME Grows
    PROVE  /\ \A v : Granted(v) => Granted(v)'
           /\ \A v : Cleared(v) => Cleared(v)'
           /\ \A gs : SoundGraph(gs) => SoundGraph(gs)'
           /\ \A s, gs : Entitled(s, gs) => Entitled(s, gs)'
           /\ \A s, j : Sound(s, j) => Sound(s, j)'
<1>1. \A v : Granted(v) => Granted(v)'
  BY DEF Grows, Granted
<1>2. \A v : Cleared(v) => Cleared(v)'
  BY DEF Grows, Cleared
<1>3. \A gs : SoundGraph(gs) => SoundGraph(gs)'
  BY <1>1 DEF Grows, SoundGraph
<1>4. \A s, gs : Entitled(s, gs) => Entitled(s, gs)'
  BY <1>1, <1>2 DEF Entitled
<1>5. \A s, j : Sound(s, j) => Sound(s, j)'
  BY <1>2, <1>3, <1>4 DEF Sound
<1> QED
  BY <1>1, <1>2, <1>3, <1>4, <1>5

LEMMA AskGrows ==
    ASSUME NEW r \in Review, NEW k \in Kind, Ask(r, k), TypeOK
    PROVE  Grows /\ kind'[r] = k
  BY DEF Ask, Grows, Approvals, TypeOK

LEMMA RecordGrows ==
    ASSUME TypeOK, NEW p \in Thread, Record(p)
    PROVE  Grows
<1> SUFFICES ASSUME NEW r \in Review, Approvals(r) # {}
             PROVE  Approvals(r)' # {}
  BY DEF Grows, Record
<1>1. PICK i \in DOMAIN answers[r] : answers[r][i]
  BY DEF Approvals
<1>2. answers[r] \in Seq(BOOLEAN) /\ job[p].ans \in BOOLEAN
  BY JobTypes DEF TypeOK
<1>3. answers'[r] = answers[r] \/ answers'[r] = Append(answers[r], job[p].ans)
  BY DEF Record, TypeOK
<1>4. i \in DOMAIN answers'[r] /\ answers'[r][i]
  BY <1>1, <1>2, <1>3
<1> QED
  BY <1>4 DEF Approvals

LEMMA StillGrows == kind' = kind /\ answers' = answers => Grows
  BY DEF Grows, Approvals

\* A thread lands at a place, entitled to it; a checkpoint is one a pass may be resumed from.
Lands(p) == \E s \in Step, j \in Job : At(p, s, j) /\ Sound(s, j)'
Leads(p) == \E s \in Step, j \in Job : At(p, s, j) /\ Sound(s, j)
Keeps    == \/ ckpt' = ckpt
            \/ \E n \in Node \cup {"end"}, gs \in Graph :
                  ckpt' = [next |-> n, state |-> gs] /\ SoundGraph(gs) /\ Entitled(n, gs)

LEMMA LeadsLands == ASSUME Grows, NEW p \in Thread, Leads(p) PROVE Lands(p)
  BY Kept DEF Leads, Lands

LEMMA LandingStep ==
    ASSUME TypeOK, AuthorityInv, Grows, NEW p \in Thread, Lands(p), Keeps
    PROVE  AuthorityInv'
<1>1. SoundGraph(ckpt.state)' /\ Entitled(ckpt.next, ckpt.state)'
  <2>1. SoundGraph(ckpt'.state) /\ Entitled(ckpt'.next, ckpt'.state)
    BY DEF Keeps, AuthorityInv
  <2> QED
    BY <2>1, Kept DEF SoundGraph, Entitled
<1>2. ASSUME NEW q \in Thread
      PROVE  Sound(pc[q], job[q])'
  <2>1. PICK s \in Step, j \in Job : At(p, s, j) /\ Sound(s, j)'
    BY DEF Lands
  <2>2. CASE q = p
    <3>1. pc'[q] = s /\ job'[q] = j
      BY <2>1, <2>2 DEF At, TypeOK
    <3> QED
      BY <2>1, <3>1 DEF Sound
  <2>3. CASE q # p
    <3>1. pc'[q] = pc[q] /\ job'[q] = job[q]
      BY <2>1, <2>3 DEF At, TypeOK
    <3>2. Sound(pc'[q], job'[q])
      BY <3>1 DEF AuthorityInv
    <3> QED
      BY <3>2, Kept DEF Sound
  <2> QED
    BY <2>2, <2>3
<1> QED
  BY <1>1, <1>2 DEF AuthorityInv

-----------------------------------------------------------------------------
(* The ways a thread moves on. *)

LEMMA InitialSound == SoundGraph(InitialGraph) /\ \A s \in BeforeGate : Entitled(s, InitialGraph)
  BY ReviewAssumption DEF SoundGraph, Entitled, InitialGraph, BeforeGate, UnderGrant, UnderClearance

\* Places that take nothing for granted.
Free == {"idle", "routeExec", "routeGate", "raised", "failVersion", "failFact", "freshness",
         "stale", "checkAnswer", "recordAnswer", "decide", "proceed", "dispatch", "govern"}

LEMMA FreePlaces ==
    /\ \A s \in Free \cup {"end", "read", "append"} : \A gs : Entitled(s, gs)
    /\ Free \subseteq Step \ {"read", "append"}
  BY DEF Free, Entitled, BeforeGate, UnderGrant, UnderClearance, Step

LEMMA PassLeads ==
    ASSUME NEW p \in Thread, NEW s \in Step \ {"read", "append"}, NEW gs \in Graph,
           SoundGraph(gs), Entitled(s, gs), At(p, s, InPass(gs))
    PROVE  Leads(p)
<1>1. InPass(gs) \in Job /\ InPass(gs).gs = gs
  BY InPassTypes DEF InPass, NoJob
<1> QED
  BY <1>1 DEF Leads, Sound

LEMMA LeaveLeads ==
    ASSUME NEW p \in Thread, Leave(p)
    PROVE  Leads(p)
<1>1. NoJob \in Job /\ NoJob.gs = InitialGraph
  BY NullTypes DEF NoJob
<1> QED
  BY <1>1, InitialSound, FreePlaces DEF Leave, Leads, Sound, Free

LEMMA RaiseLeads ==
    ASSUME NEW p \in Thread, Raise(p)
    PROVE  Leads(p)
<1>1. "raised" \in Free
  BY DEF Free
<1> QED
  BY <1>1, NullTypes, InitialSound, FreePlaces, PassLeads, LeaveLeads DEF Raise

LEMMA AtLeads ==
    ASSUME NEW p \in Thread, NEW s \in Step \ {"read", "append"}, NEW j \in Job,
           SoundGraph(j.gs), Entitled(s, j.gs), At(p, s, j)
    PROVE  Leads(p)
  BY DEF Leads, Sound

LEMMA GotoLeads ==
    ASSUME TypeOK, AuthorityInv, NEW p \in Thread, NEW s \in Step \ {"read", "append"},
           Entitled(s, job[p].gs), Goto(p, s)
    PROVE  Leads(p)
  BY DEF TypeOK, AuthorityInv, Sound, Goto, Leads

\* A transition asked for, with what its continuation takes for granted.
LEMMA TxLeads ==
    ASSUME NEW p \in Thread, NEW c \in Command, NEW s \in Cont, NEW j \in Job, Tx(p, c, s, j),
           SoundGraph(j.gs), Entitled(s, j.gs),
           c = "complete" => Cleared(j.gs.verdict)
    PROVE  Leads(p)
<1> DEFINE k == [j EXCEPT !.cmd = c, !.cont = s]
<1>1. k \in Job /\ k.gs = j.gs /\ k.cont = s /\ k.cmd = c
  BY JobTypes DEF Job
<1>2. At(p, "read", k)
  BY DEF Tx
<1> HIDE DEF k
<1>3. "read" \in Step
  BY DEF Step
<1> QED
  BY <1>1, <1>2, <1>3, FreePlaces DEF Leads, Sound

LEMMA EnterLeads ==
    ASSUME NEW p \in Thread, NEW n \in Node, NEW gs \in Graph,
           SoundGraph(gs), Entitled(n, gs), Enter(p, n, gs)
    PROVE  Leads(p) /\ Keeps
<1>1. n \in Step \ {"read", "append"}
  BY DEF Node, Step
<1> QED
  BY <1>1, PassLeads DEF Enter, Checkpoint, Keeps

LEMMA EndPassLeads ==
    ASSUME TypeOK, AuthorityInv, NEW p \in Thread, EndPass(p)
    PROVE  Leads(p) /\ Keeps
<1>1. job[p].gs \in Graph /\ SoundGraph(job[p].gs)
  BY JobTypes DEF TypeOK, AuthorityInv, Sound
<1>2. Entitled("end", job[p].gs)
  BY FreePlaces
<1> QED
  BY <1>1, <1>2, LeaveLeads DEF EndPass, Checkpoint, Keeps

\* Steps that leave the log, or all of it but what no verdict is about, alone.
LEMMA QuietKeeps ==
    /\ Silent => Grows /\ Keeps
    /\ Note => Grows /\ Keeps
    /\ UNCHANGED <<log, cas>> => Grows
  BY StillGrows DEF Silent, Note, Appended, Keeps, log, cas

\* A thread at a place has what the place takes for granted.
LEMMA HereSound ==
    ASSUME TypeOK, AuthorityInv, NEW p \in Thread
    PROVE  /\ job[p] \in Job /\ job[p].gs \in Graph
           /\ job[p].gs.exec \in Verdict /\ job[p].gs.verdict \in Verdict
           /\ SoundGraph(job[p].gs) /\ Entitled(pc[p], job[p].gs)
  BY JobTypes, GraphTypes DEF TypeOK, AuthorityInv, Sound

\* The same graph state at two places that take the same for granted.
LEMMA Further ==
    ASSUME NEW gs
    PROVE  /\ \A s \in BeforeGate, t \in BeforeGate : Entitled(s, gs) => Entitled(t, gs)
           /\ \A s \in UnderGrant \ {"settle"}, t \in UnderGrant \ {"applyReview", "settle"} :
                 Entitled(s, gs) => Entitled(t, gs)
           /\ \A s \in UnderClearance, t \in UnderClearance \ {"settle"} :
                 Entitled(s, gs) => Entitled(t, gs)
  BY DEF Entitled, BeforeGate, UnderGrant, UnderClearance

-----------------------------------------------------------------------------
(* The graph, place by place. *)

LEMMA StartLands ==
    ASSUME TypeOK, AuthorityInv, NEW p \in Thread, Start(p) \/ Started(p)
    PROVE  Grows /\ Lands(p) /\ Keeps
<1>1. "started" \in Step \ {"read", "append"} /\ {"start", "started", "execGate"} \subseteq BeforeGate
  BY DEF Step, BeforeGate
<1>2. CASE Start(p)
  <2>1. Entitled("started", job[p].gs)
    BY <1>1, <1>2, HereSound, Further DEF Start
  <2>2. Leads(p)
    BY <1>1, <1>2, <2>1, HereSound, Names, ContNames, TxLeads, GotoLeads DEF Start
  <2> QED
    BY <1>2, <2>2, QuietKeeps, LeadsLands DEF Start
<1>3. CASE Started(p)
  <2>1. Entitled("execGate", job[p].gs)
    BY <1>1, <1>3, HereSound, Further DEF Started
  <2> QED
    BY <1>3, <2>1, HereSound, Names, EnterLeads, QuietKeeps, LeadsLands DEF Started
<1> QED
  BY <1>2, <1>3

\* The gate writes the verdict of a review of the start, or of none.
LEMMA ExecGateLands ==
    ASSUME TypeOK, AuthorityInv, NEW p \in Thread, ExecGate(p)
    PROVE  Grows /\ Lands(p) /\ Keeps
<1>1. /\ job[p] \in Job /\ job[p].gs \in Graph /\ SoundGraph(job[p].gs)
      /\ ~job[p].gs.rework
  BY HereSound DEF ExecGate, Entitled, BeforeGate
<1>2. "applyExec" \in Step \ {"read", "append"}
  BY DEF Step
<1>3. ASSUME NEW v \in Verdict
      PROVE  /\ WithExec(p, v) \in Job /\ WithExec(p, v).gs.exec = v
             /\ WithExec(p, v).gs.verdict = job[p].gs.verdict
             /\ ~WithExec(p, v).gs.rework
  <2>1. [job[p].gs EXCEPT !.exec = v] \in Graph
    BY <1>1, GraphTypes
  <2> QED
    BY <1>1, <2>1 DEF WithExec, Job, Graph
<1>4. ASSUME NEW v \in Verdict, At(p, "applyExec", WithExec(p, v)), Grows,
             v \in Review => kind'[v] = "execution"
      PROVE  Lands(p)
  <2>1. PICK j \in Job : j = WithExec(p, v)
    BY <1>3
  <2>2. SoundGraph(j.gs)'
    <3>1. j.gs.verdict \in Review => kind'[j.gs.verdict] \in {"findings", "escalation"}
      BY <1>1, <1>3, <1>4, <2>1 DEF SoundGraph, Grows
    <3> QED
      BY <1>3, <1>4, <2>1, <3>1 DEF SoundGraph
  <2>3. Entitled("applyExec", j.gs)'
    BY <1>3, <2>1 DEF Entitled, UnderGrant, UnderClearance
  <2> QED
    BY <1>2, <1>4, <2>1, <2>2, <2>3 DEF Lands, Sound
<1>5. CASE ParkedOnStart /\ At(p, "applyExec", WithExec(p, parked)) /\ Silent
  <2>1. parked \in Verdict /\ kind'[parked] = "execution"
    BY <1>5, Names DEF ParkedOnStart, TypeOK, Silent, log
  <2> QED
    BY <1>4, <1>5, <2>1, QuietKeeps
<1>6. ASSUME NEW v \in {"pass", "block"}, Note, At(p, "applyExec", WithExec(p, v))
      PROVE  Grows /\ Lands(p) /\ Keeps
  BY <1>4, <1>6, Names, ReviewAssumption, QuietKeeps
<1>7. ASSUME NEW r \in Review, Ask(r, "execution"), At(p, "applyExec", WithExec(p, r))
      PROVE  Grows /\ Lands(p) /\ Keeps
  BY <1>4, <1>7, Names, AskGrows DEF Ask, Appended, Keeps
<1> QED
  BY <1>5, <1>6, <1>7 DEF ExecGate

LEMMA ExecutionLands ==
    ASSUME TypeOK, AuthorityInv, NEW p \in Thread, ApplyExec(p) \/ RouteExec(p)
    PROVE  Grows /\ Lands(p) /\ Keeps
<1>1. /\ job[p] \in Job /\ job[p].gs \in Graph /\ job[p].gs.exec \in Verdict
      /\ SoundGraph(job[p].gs)
  BY HereSound
<1>2. CASE ApplyExec(p)
  <2>1. "routeExec" \in Free
    BY DEF Free
  <2>2. job[p].gs.exec \in Review =>
          [job[p] EXCEPT !.arg = job[p].gs.exec] \in Job
          /\ [job[p] EXCEPT !.arg = job[p].gs.exec].gs = job[p].gs
    BY <1>1, JobTypes DEF Job
  <2>3. Leads(p)
    BY <1>1, <1>2, <2>1, <2>2, FreePlaces, Names, ContNames, TxLeads, GotoLeads DEF ApplyExec
  <2> QED
    BY <1>2, <2>3, QuietKeeps, LeadsLands DEF ApplyExec
<1>3. CASE RouteExec(p)
  <2>1. CASE ReleasesThy(job[p].gs.exec) /\ Enter(p, "thy", job[p].gs)
    <3>1. Granted(job[p].gs.exec)
      <4>1. CASE job[p].gs.exec = "pass"
        BY <4>1 DEF Granted
      <4>2. CASE job[p].gs.exec \in Review /\ HumanOutcome(job[p].gs.exec) = "approved"
        <5> DEFINE v == job[p].gs.exec
        <5>1. answers[v] \in Seq(BOOLEAN) /\ Answered(v) /\ ~Rejected(v)
          BY <4>2 DEF HumanOutcome, TypeOK
        <5>2. 1 \in DOMAIN answers[v] /\ answers[v][1] \in BOOLEAN
          BY <5>1 DEF Answered
        <5>3. answers[v][1]
          BY <5>1, <5>2 DEF Rejected
        <5>4. 1 \in Approvals(v)
          BY <5>2, <5>3 DEF Approvals
        <5> QED
          BY <1>1, <4>2, <5>4 DEF Granted, SoundGraph
      <4> QED
        BY <2>1, <4>1, <4>2 DEF ReleasesThy
    <3>2. Entitled("thy", job[p].gs)
      BY <3>1 DEF Entitled, BeforeGate, UnderClearance
    <3> QED
      BY <1>1, <1>3, <2>1, <3>2, Names, EnterLeads, QuietKeeps, LeadsLands DEF RouteExec
  <2>2. CASE Raise(p) /\ UNCHANGED ckpt
    BY <1>3, <2>2, RaiseLeads, QuietKeeps, LeadsLands DEF RouteExec, Keeps
  <2>3. CASE EndPass(p)
    BY <1>3, <2>3, EndPassLeads, QuietKeeps, LeadsLands DEF RouteExec
  <2> QED
    BY <1>3, <2>1, <2>2, <2>3 DEF RouteExec
<1> QED
  BY <1>2, <1>3

LEMMA ThyLands ==
    ASSUME TypeOK, AuthorityInv, NEW p \in Thread,
           Thy(p) \/ ThyWork(p) \/ ThyPark(p) \/ RouteThy(p)
    PROVE  Grows /\ Lands(p) /\ Keeps
<1>1. /\ job[p] \in Job /\ job[p].gs \in Graph /\ job[p].gs.exec \in Verdict
      /\ SoundGraph(job[p].gs) /\ Granted(job[p].gs.exec)
  BY HereSound DEF Thy, ThyWork, ThyPark, RouteThy, Entitled, UnderGrant
<1>2. /\ Entitled("thyWork", job[p].gs) /\ Entitled("routeThy", job[p].gs)
      /\ Entitled("mira", job[p].gs)
  BY <1>1 DEF Entitled, BeforeGate, UnderClearance
<1>3. {"thyWork", "thyPark", "routeThy"} \subseteq Step \ {"read", "append"}
  BY DEF Step
<1>4. CASE Thy(p)
  <2>1. Leads(p)
    BY <1>1, <1>2, <1>3, <1>4, Names, ContNames, TxLeads, GotoLeads DEF Thy
  <2> QED
    BY <1>4, <2>1, QuietKeeps, LeadsLands DEF Thy
<1>5. CASE ThyWork(p)
  <2> DEFINE j == ReworkTaken(p)
  <2>1. j \in Job /\ SoundGraph(j.gs) /\ Granted(j.gs.exec)
    BY <1>1, JobTypes, GraphTypes DEF ReworkTaken, Job, Graph, SoundGraph
  <2> HIDE DEF j
  <2>2. /\ At(p, "thyPark", j) => Leads(p)
        /\ At(p, "routeThy", j) => Leads(p)
    <3>1. Entitled("thyPark", j.gs) /\ Entitled("routeThy", j.gs)
      BY <2>1 DEF Entitled, BeforeGate, UnderClearance
    <3> QED
      BY <1>3, <2>1, <3>1, AtLeads
  <2>3. Leads(p)
    BY <1>5, <2>2, RaiseLeads DEF ThyWork, j
  <2>4. Grows /\ Keeps
    BY <1>5, Names, AskGrows, QuietKeeps DEF ThyWork, Ask, Appended, Keeps
  <2> QED
    BY <2>3, <2>4, LeadsLands
<1>6. CASE ThyPark(p)
  <2>1. \A r \in Review : /\ [job[p] EXCEPT !.arg = r] \in Job
                          /\ [job[p] EXCEPT !.arg = r].gs = job[p].gs
    BY <1>1, JobTypes DEF Job
  <2>2. Pending \subseteq Review
    BY DEF Pending, Unanswered, Known
  <2>3. Leads(p)
    BY <1>1, <1>2, <1>3, <1>6, <2>1, <2>2, Names, ContNames, TxLeads, GotoLeads, RaiseLeads
    DEF ThyPark
  <2> QED
    BY <1>6, <2>3, QuietKeeps, LeadsLands DEF ThyPark
<1>7. CASE RouteThy(p)
  BY <1>1, <1>2, <1>7, Names, EnterLeads, EndPassLeads, QuietKeeps, LeadsLands DEF RouteThy
<1> QED
  BY <1>4, <1>5, <1>6, <1>7

LEMMA MiraLands ==
    ASSUME TypeOK, AuthorityInv, NEW p \in Thread, Mira(p) \/ Audit(p)
    PROVE  Grows /\ Lands(p) /\ Keeps
<1>1. /\ job[p] \in Job /\ job[p].gs \in Graph /\ job[p].gs.exec \in Verdict
      /\ SoundGraph(job[p].gs) /\ Granted(job[p].gs.exec)
  BY HereSound DEF Mira, Audit, Entitled, UnderGrant
<1>2. Entitled("audit", job[p].gs) /\ Entitled("gate", job[p].gs)
  BY <1>1 DEF Entitled, BeforeGate, UnderClearance
<1>3. "audit" \in Step \ {"read", "append"}
  BY DEF Step
<1>4. CASE Mira(p)
  <2>1. Leads(p)
    BY <1>1, <1>2, <1>3, <1>4, Names, ContNames, TxLeads, GotoLeads DEF Mira
  <2> QED
    BY <1>4, <2>1, QuietKeeps, LeadsLands DEF Mira
<1>5. CASE Audit(p)
  <2>1. Grows
    BY <1>5, StillGrows DEF Audit, Silent, log
  <2>2. Leads(p) /\ Keeps
    BY <1>1, <1>2, <1>5, Names, EnterLeads, RaiseLeads, QuietKeeps DEF Audit
  <2> QED
    BY <2>1, <2>2, LeadsLands
<1> QED
  BY <1>4, <1>5

LEMMA LatestApproves ==
    ASSUME TypeOK, NEW r \in Review, Latest(r) = "approved"
    PROVE  Approvals(r) # {}
<1>1. answers[r] \in Seq(BOOLEAN) /\ answers[r] # <<>> /\ answers[r][Len(answers[r])]
  BY DEF Latest, Answered, TypeOK
<1>2. Len(answers[r]) \in DOMAIN answers[r]
  BY <1>1
<1> QED
  BY <1>1, <1>2 DEF Approvals

\* The gate writes the verdict of a review of the findings, or of none.
LEMMA FindingsLands ==
    ASSUME TypeOK, AuthorityInv, NEW p \in Thread, FindingsGate(p)
    PROVE  Grows /\ Lands(p) /\ Keeps
<1>1. /\ job[p] \in Job /\ job[p].gs \in Graph /\ SoundGraph(job[p].gs)
      /\ Granted(job[p].gs.exec)
  BY HereSound DEF FindingsGate, Entitled, UnderGrant
<1>2. "applyReview" \in Step \ {"read", "append"}
  BY DEF Step
<1>3. ASSUME NEW v \in Verdict
      PROVE  /\ WithVerdict(p, v) \in Job /\ WithVerdict(p, v).gs.verdict = v
             /\ WithVerdict(p, v).gs.exec = job[p].gs.exec
  <2>1. [job[p].gs EXCEPT !.verdict = v] \in Graph
    BY <1>1, GraphTypes
  <2> QED
    BY <1>1, <2>1 DEF WithVerdict, Job, Graph
<1>4. ASSUME NEW v \in Verdict \ {"none"}, At(p, "applyReview", WithVerdict(p, v)), Grows,
             v \in Review => kind'[v] = "findings"
      PROVE  Lands(p)
  <2>1. PICK j \in Job : j = WithVerdict(p, v)
    BY <1>3
  <2>2. Granted(j.gs.exec)'
    BY <1>1, <1>3, <1>4, <2>1, Kept
  <2>3. SoundGraph(j.gs)'
    <3>1. j.gs.exec \in Review => kind'[j.gs.exec] = "execution"
      BY <1>1, <1>3, <1>4, <2>1 DEF SoundGraph, Grows
    <3> QED
      BY <1>3, <1>4, <2>1, <2>2, <3>1 DEF SoundGraph
  <2>4. Entitled("applyReview", j.gs)'
    BY <1>3, <1>4, <2>1, <2>2 DEF Entitled, BeforeGate, UnderClearance
  <2> QED
    BY <1>2, <1>4, <2>1, <2>3, <2>4 DEF Lands, Sound
<1>5. CASE ApprovedVerdict(job[p].gs.verdict) /\ Goto(p, "applyReview") /\ Silent
  <2>1. job[p].gs.verdict # "none"
    BY <1>5, ReviewAssumption DEF ApprovedVerdict
  <2>2. Entitled("applyReview", job[p].gs)
    BY <1>1, <2>1 DEF Entitled, BeforeGate, UnderClearance
  <2> QED
    BY <1>2, <1>5, <2>2, GotoLeads, QuietKeeps, LeadsLands
<1>6. ASSUME NEW v \in {"pass", "block"}, Note, At(p, "applyReview", WithVerdict(p, v))
      PROVE  Grows /\ Lands(p) /\ Keeps
  BY <1>4, <1>6, Names, ReviewAssumption, QuietKeeps
<1>7. ASSUME NEW r \in Review, Ask(r, "findings"), At(p, "applyReview", WithVerdict(p, r))
      PROVE  Grows /\ Lands(p) /\ Keeps
  BY <1>4, <1>7, Names, ReviewAssumption, AskGrows DEF Ask, Appended, Keeps
<1> QED
  BY <1>5, <1>6, <1>7 DEF FindingsGate

LEMMA ReviewLands ==
    ASSUME TypeOK, AuthorityInv, NEW p \in Thread, ApplyReview(p)
    PROVE  Grows /\ Lands(p) /\ Keeps
<1> DEFINE v == job[p].gs.verdict
<1>1. /\ job[p] \in Job /\ job[p].gs \in Graph /\ v \in Verdict
      /\ SoundGraph(job[p].gs) /\ Granted(job[p].gs.exec) /\ v # "none"
  BY HereSound DEF ApplyReview, Entitled, UnderGrant
<1>2. "routeGate" \in Free /\ "settle" \in Step \ {"read", "append"}
  BY DEF Free, Step
<1>3. v \in Review => [job[p] EXCEPT !.arg = v] \in Job /\ [job[p] EXCEPT !.arg = v].gs = job[p].gs
  BY <1>1, JobTypes DEF Job
<1>4. ASSUME v # "block", v \in Review => Latest(v) \notin {"none", "rejected"}
      PROVE  Entitled("settle", job[p].gs)
  <2>1. v = "pass" \/ (v \in Review /\ Latest(v) = "approved")
    BY <1>1, <1>4 DEF Verdict, Latest
  <2>2. Cleared(v)
    BY <1>1, <2>1, LatestApproves DEF Cleared, SoundGraph
  <2> QED
    BY <1>1, <2>2 DEF Entitled, BeforeGate
<1>5. Leads(p)
  <2>1. CASE v = "block" \/ (v \in Review /\ Latest(v) = "rejected")
    <3>1. Tx(p, "block", "routeGate", job[p])
      BY <2>1, ReviewAssumption DEF ApplyReview, Latest
    <3> QED
      BY <1>1, <1>2, <3>1, FreePlaces, Names, ContNames, TxLeads
  <2>2. CASE v \in Review /\ Latest(v) = "none"
    <3>1. Tx(p, "wait_for_approval", "routeGate", [job[p] EXCEPT !.arg = v])
      BY <2>2, ReviewAssumption DEF ApplyReview
    <3> QED
      BY <1>1, <1>2, <1>3, <2>2, <3>1, FreePlaces, Names, ContNames, TxLeads
  <2>3. CASE v # "block" /\ (v \in Review => Latest(v) \notin {"none", "rejected"})
    <3>1. Goto(p, "settle")
      BY <2>3 DEF ApplyReview
    <3> QED
      BY <1>2, <1>4, <2>3, <3>1, GotoLeads
  <2> QED
    BY <2>1, <2>2, <2>3
<1> QED
  BY <1>5, QuietKeeps, LeadsLands DEF ApplyReview

LEMMA SettleLands ==
    ASSUME TypeOK, AuthorityInv, NEW p \in Thread, Settle(p)
    PROVE  Grows /\ Lands(p) /\ Keeps
<1>1. /\ job[p] \in Job /\ job[p].gs \in Graph /\ SoundGraph(job[p].gs)
      /\ Granted(job[p].gs.exec) /\ Cleared(job[p].gs.verdict)
  BY HereSound DEF Settle, Entitled, UnderGrant, UnderClearance
<1>2. "routeGate" \in Free /\ "reporting" \in Step \ {"read", "append"}
  BY DEF Free, Step
<1>3. CASE /\ MayReopen(job[p].gs)
           /\ Note
           /\ Tx(p, "reopen", "routeGate",
                 [job[p] EXCEPT !.gs.verdict = "none", !.gs.rework = TRUE, !.gs.reopens = @ + 1])
  <2> DEFINE j == [job[p] EXCEPT !.gs.verdict = "none", !.gs.rework = TRUE, !.gs.reopens = @ + 1]
  <2>1. [job[p].gs EXCEPT !.verdict = "none", !.rework = TRUE,
                          !.reopens = job[p].gs.reopens + 1] \in Graph
    BY <1>1, <1>3, ReopenTypes, GraphTypes
  <2>2. j \in Job /\ j.gs.verdict = "none" /\ j.gs.exec = job[p].gs.exec
    BY <1>1, <2>1 DEF Job, Graph
  <2> HIDE DEF j
  <2>3. SoundGraph(j.gs)
    BY <1>1, <2>2, ReviewAssumption DEF SoundGraph
  <2>4. Leads(p)
    BY <1>2, <1>3, <2>2, <2>3, FreePlaces, Names, ContNames, TxLeads DEF j
  <2> QED
    BY <1>3, <2>4, QuietKeeps, LeadsLands
<1>4. ASSUME NEW r \in Review, Ask(r, "escalation"),
             Tx(p, "wait_for_approval", "routeGate", [WithVerdict(p, r) EXCEPT !.arg = r])
      PROVE  Grows /\ Lands(p) /\ Keeps
  <2>1. Grows /\ kind'[r] = "escalation" /\ Keeps
    BY <1>4, Names, AskGrows DEF Ask, Appended, Keeps
  <2>2. [job[p].gs EXCEPT !.verdict = r] \in Graph
    BY <1>1, Names, GraphTypes
  <2> DEFINE k == [[WithVerdict(p, r) EXCEPT !.arg = r]
                      EXCEPT !.cmd = "wait_for_approval", !.cont = "routeGate"]
  <2>3. k \in Job /\ k.gs = [job[p].gs EXCEPT !.verdict = r] /\ k.cmd = "wait_for_approval"
        /\ k.cont = "routeGate"
    BY <1>1, <2>2, Names, ContNames DEF WithVerdict, Job
  <2>4. At(p, "read", k)
    BY <1>4 DEF Tx
  <2> HIDE DEF k
  <2>5. PICK j \in Job : j = k
    BY <2>3
  <2>6. j.gs.verdict = r /\ j.gs.exec = job[p].gs.exec /\ j.gs.rework = job[p].gs.rework
    BY <1>1, <2>3, <2>5 DEF Graph
  <2>7. SoundGraph(j.gs)'
    <3>1. j.gs.exec \in Review => kind'[j.gs.exec] = "execution"
      BY <1>1, <2>1, <2>6 DEF SoundGraph, Grows
    <3>2. Granted(j.gs.exec)'
      BY <1>1, <2>1, <2>6, Kept
    <3> QED
      BY <2>1, <2>6, <3>1, <3>2 DEF SoundGraph
  <2>8. Entitled("read", j.gs)' /\ Entitled(j.cont, j.gs)'
    BY <2>3, <2>5 DEF Entitled, BeforeGate, UnderGrant, UnderClearance
  <2>9. "read" \in Step
    BY DEF Step
  <2> QED
    BY <2>1, <2>3, <2>4, <2>5, <2>7, <2>8, <2>9 DEF Lands, Sound
<1>5. CASE Tx(p, "begin_reporting", "reporting", job[p]) /\ Silent
  <2>1. Entitled("reporting", job[p].gs)
    BY <1>1 DEF Entitled, BeforeGate, UnderGrant
  <2> QED
    BY <1>1, <1>5, <2>1, Names, ContNames, TxLeads, QuietKeeps, LeadsLands
<1> QED
  BY <1>3, <1>4, <1>5 DEF Settle

LEMMA CompletionLands ==
    ASSUME TypeOK, AuthorityInv, NEW p \in Thread,
           Reporting(p) \/ Fact(p) \/ RouteGate(p) \/ Complete(p) \/ Close(p)
    PROVE  Grows /\ Lands(p) /\ Keeps
<1>1. /\ job[p] \in Job /\ job[p].gs \in Graph /\ SoundGraph(job[p].gs)
      /\ Entitled(pc[p], job[p].gs)
  BY HereSound
<1>2. "routeGate" \in Free /\ "close" \in Step \ {"read", "append"}
  BY DEF Free, Step
<1>3. ASSUME Cleared(job[p].gs.verdict)
      PROVE  \A s \in {"fact", "close", "completeFact"} : Entitled(s, job[p].gs)
  BY <1>3 DEF Entitled, BeforeGate, UnderGrant
<1>4. CASE Reporting(p)
  <2>1. Cleared(job[p].gs.verdict)
    BY <1>1, <1>4 DEF Reporting, Entitled, UnderClearance
  <2> QED
    BY <1>1, <1>3, <1>4, <2>1, Names, ContNames, TxLeads, QuietKeeps, LeadsLands DEF Reporting
<1>5. CASE Fact(p)
  <2>1. Grows
    BY <1>5, StillGrows DEF Fact, log
  <2>2. Leads(p) /\ Keeps
    BY <1>1, <1>2, <1>5, FreePlaces, GotoLeads, EndPassLeads DEF Fact, Keeps
  <2> QED
    BY <2>1, <2>2, LeadsLands
<1>6. CASE RouteGate(p)
  <2>1. CASE Raise(p) /\ UNCHANGED ckpt
    BY <1>6, <2>1, RaiseLeads, QuietKeeps, LeadsLands DEF RouteGate, Keeps
  <2>2. CASE EndPass(p)
    BY <1>6, <2>2, EndPassLeads, QuietKeeps, LeadsLands DEF RouteGate
  <2>3. CASE GateTarget(job[p].gs) # "end" /\ Enter(p, GateTarget(job[p].gs), job[p].gs)
    <3>1. CASE job[p].gs.rework
      <4>1. GateTarget(job[p].gs) = "thy" /\ Entitled("thy", job[p].gs)
        BY <1>1, <3>1 DEF GateTarget, SoundGraph, Entitled, BeforeGate, UnderClearance
      <4> QED
        BY <1>1, <1>6, <2>3, <4>1, Names, EnterLeads, QuietKeeps, LeadsLands DEF RouteGate
    <3>2. CASE ~job[p].gs.rework
      <4>1. /\ GateTarget(job[p].gs) = "complete"
            /\ job[p].gs.verdict = "pass" \/ ApprovedVerdict(job[p].gs.verdict)
        BY <2>3, <3>2 DEF GateTarget
      <4>2. Cleared(job[p].gs.verdict)
        BY <1>1, <4>1, LatestApproves DEF ApprovedVerdict, Cleared, SoundGraph
      <4>3. Entitled("complete", job[p].gs)
        BY <4>2 DEF Entitled, BeforeGate, UnderGrant
      <4> QED
        BY <1>1, <1>6, <2>3, <4>1, <4>3, Names, EnterLeads, QuietKeeps, LeadsLands DEF RouteGate
    <3> QED
      BY <3>1, <3>2
  <2> QED
    BY <1>6, <2>1, <2>2, <2>3 DEF RouteGate
<1>7. CASE Complete(p)
  <2>1. Cleared(job[p].gs.verdict)
    BY <1>1, <1>7 DEF Complete, Entitled, UnderClearance
  <2>2. Leads(p)
    BY <1>1, <1>2, <1>3, <1>7, <2>1, Names, ContNames, TxLeads, GotoLeads DEF Complete
  <2> QED
    BY <1>7, <2>2, QuietKeeps, LeadsLands DEF Complete
<1>8. CASE Close(p)
  <2>1. Cleared(job[p].gs.verdict)
    BY <1>1, <1>8 DEF Close, Entitled, UnderClearance
  <2>2. Leads(p) /\ Keeps
    BY <1>1, <1>3, <1>8, <2>1, Names, ContNames, TxLeads, EndPassLeads DEF Close, Keeps
  <2> QED
    BY <1>8, <2>2, QuietKeeps, LeadsLands DEF Close
<1> QED
  BY <1>4, <1>5, <1>6, <1>7, <1>8

-----------------------------------------------------------------------------
(* The controller, what follows a pass that raised, and the requests. *)

LEMMA ControllerLands ==
    ASSUME TypeOK, AuthorityInv, NEW p \in Thread, Read(p) \/ AppendTx(p)
    PROVE  Grows /\ Lands(p) /\ Keeps
<1>1. /\ job[p] \in Job /\ job[p].gs \in Graph /\ SoundGraph(job[p].gs)
      /\ job[p].cont \in Cont
  BY HereSound, JobTypes
<1>2. Grows /\ Keeps
  BY StillGrows DEF Read, AppendTx, Keeps, log
<1>3. pc[p] \in {"read", "append"} /\ Sound(pc[p], job[p])
  BY DEF Read, AppendTx, AuthorityInv
<1>4. ASSUME Goto(p, "append")
      PROVE  Leads(p)
  <2>1. "append" \in Step
    BY DEF Step
  <2> QED
    BY <1>1, <1>3, <1>4, <2>1, FreePlaces DEF Goto, Leads, Sound
<1>5. ASSUME Continue(p)
      PROVE  Leads(p)
  <2> DEFINE j == [NoJob EXCEPT !.pass = job[p].pass, !.gs = job[p].gs]
  <2>1. j \in Job /\ j.gs = job[p].gs
    BY <1>1, NullTypes, JobTypes DEF NoJob, Job
  <2>2. job[p].cont \in Step \ {"read", "append"}
    BY <1>1 DEF Cont, Step
  <2>3. Leave(p) \/ At(p, job[p].cont, j)
    BY <1>5 DEF Continue
  <2> HIDE DEF j
  <2> QED
    BY <1>1, <1>3, <2>1, <2>2, <2>3, LeaveLeads, AtLeads DEF Sound
<1>6. Leads(p)
  BY <1>4, <1>5, RaiseLeads DEF Read, AppendTx
<1> QED
  BY <1>2, <1>6, LeadsLands

LEMMA FailureLands ==
    ASSUME TypeOK, AuthorityInv, NEW p \in Thread, Raised(p) \/ FailVersion(p) \/ FailFact(p)
    PROVE  Grows /\ Lands(p) /\ Keeps
<1>1. job[p] \in Job /\ SoundGraph(job[p].gs)
  BY HereSound
<1>2. {"failVersion", "failFact"} \subseteq Free
  BY DEF Free
<1>3. [job[p] EXCEPT !.pass = FALSE] \in Job /\ [job[p] EXCEPT !.pass = FALSE].gs = job[p].gs
  BY <1>1, JobTypes DEF Job
<1>4. Leads(p)
  <2>1. CASE Raised(p)
    <3>1. "failVersion" \in Cont
      BY ContNames
    <3> QED
      BY <1>1, <1>2, <1>3, <2>1, <3>1, FreePlaces, Names, TxLeads, LeaveLeads DEF Raised
  <2>2. CASE FailVersion(p)
    BY <1>2, <2>2, FreePlaces, GotoLeads DEF FailVersion
  <2>3. CASE FailFact(p)
    BY <2>3, LeaveLeads DEF FailFact
  <2> QED
    BY <2>1, <2>2, <2>3
<1>5. Grows /\ Keeps
  BY StillGrows, QuietKeeps DEF Raised, FailVersion, FailFact, Keeps, log
<1> QED
  BY <1>4, <1>5, LeadsLands

\* A request has no graph state but the initial one, and asks for no completion.
LEMMA RequestLands ==
    ASSUME TypeOK, AuthorityInv, NEW p \in Thread, Requests(p)
    PROVE  Grows /\ Lands(p) /\ Keeps
<1>1. {"freshness", "govern"} \subseteq Free /\ {"dispatch", "idle"} \subseteq Free
  BY DEF Free
<1>2. SoundGraph(InitialGraph)
  BY InitialSound
<1>3. ASSUME NEW s \in {"freshness", "govern"}, NEW j \in Job, j.gs = InitialGraph, At(p, s, j)
      PROVE  Leads(p)
  BY <1>1, <1>2, <1>3, FreePlaces, AtLeads
<1>4. ASSUME NEW c \in {"block", "cancel"}, NEW j \in Job, j.gs = InitialGraph,
             Tx(p, c, "idle", j)
      PROVE  Leads(p)
  BY <1>1, <1>2, <1>4, FreePlaces, Names, ContNames, TxLeads
<1>5. CASE \E a \in BOOLEAN : Resolve(p, a)
  <2> DEFINE j(a) == [NoJob EXCEPT !.arg = parked, !.ans = a, !.cont = "checkAnswer"]
  <2>1. \A a \in BOOLEAN : j(a) \in Job /\ j(a).gs = InitialGraph
    BY RequestJobs DEF NoJob
  <2>2. \E a \in BOOLEAN : At(p, "freshness", j(a)) /\ Silent
    BY <1>5 DEF Resolve
  <2> HIDE DEF j
  <2> QED
    BY <1>3, <2>1, <2>2, QuietKeeps, LeadsLands
<1>6. CASE Resume(p)
  <2> DEFINE j == [NoJob EXCEPT !.arg = parked, !.cont = "proceed"]
  <2>1. j \in Job /\ j.gs = InitialGraph
    BY RequestJobs DEF NoJob
  <2>2. (At(p, "freshness", j) \/ Tx(p, "block", "idle", j)) /\ Silent
    BY <1>6 DEF Resume
  <2> HIDE DEF j
  <2> QED
    BY <1>3, <1>4, <2>1, <2>2, QuietKeeps, LeadsLands
<1>7. CASE Cancel(p)
  <2>1. NoJob \in Job /\ NoJob.gs = InitialGraph
    BY NullTypes DEF NoJob
  <2> QED
    BY <1>4, <1>7, <2>1, QuietKeeps, LeadsLands DEF Cancel
<1>8. CASE Plan(p)
  <2>1. Grows /\ Keeps
    BY <1>8, Names, AskGrows, QuietKeeps DEF Plan, Ask, Appended, Keeps
  <2> QED
    BY <1>8, <2>1, LeaveLeads, LeadsLands DEF Plan
<1>9. CASE \E r \in Review, a \in BOOLEAN : Answer(p, r, a)
  <2>1. PICK r \in Review, a \in BOOLEAN : Answer(p, r, a)
    BY <1>9
  <2>2. /\ [NoJob EXCEPT !.arg = r, !.ans = a] \in Job
        /\ [NoJob EXCEPT !.arg = r, !.ans = a].gs = InitialGraph
    BY RequestJobs DEF NoJob
  <2> QED
    BY <1>3, <2>1, <2>2, QuietKeeps, LeadsLands DEF Answer
<1> QED
  BY <1>5, <1>6, <1>7, <1>8, <1>9 DEF Requests

LEMMA ResolutionLands ==
    ASSUME ControlInv, AuthorityInv, NEW p \in Thread,
           \/ Freshness(p) \/ Stale(p) \/ CheckAnswer(p) \/ RecordAnswer(p) \/ Decide(p)
           \/ Proceed(p) \/ Dispatch(p) \/ Govern(p)
    PROVE  Grows /\ Lands(p) /\ Keeps
<1>1. TypeOK /\ PairInv
  BY DEF ControlInv
<1>2. job[p] \in Job /\ SoundGraph(job[p].gs)
  BY <1>1, HereSound
<1>3. {"idle", "stale", "checkAnswer", "recordAnswer", "decide", "proceed", "dispatch"} \subseteq Free
  BY DEF Free
<1>4. CASE Freshness(p)
  <2>1. job[p].cont \in Free
    BY <1>1, <1>3, <1>4 DEF Freshness, PairInv
  <2> QED
    BY <1>1, <1>3, <1>4, <2>1, FreePlaces, GotoLeads, QuietKeeps, LeadsLands DEF Freshness
<1>5. CASE Stale(p) \/ CheckAnswer(p) \/ Decide(p) \/ Proceed(p)
  <2>1. CASE Stale(p)
    BY <1>2, <1>3, <2>1, FreePlaces, Names, ContNames, TxLeads, LeaveLeads, QuietKeeps, LeadsLands
    DEF Stale
  <2>2. CASE CheckAnswer(p)
    BY <1>1, <1>3, <2>2, FreePlaces, GotoLeads, LeaveLeads, QuietKeeps, LeadsLands DEF CheckAnswer
  <2>3. CASE Decide(p)
    <3>1. Leads(p)
      BY <1>1, <1>2, <1>3, <2>3, FreePlaces, Names, ContNames, TxLeads, GotoLeads, LeaveLeads
      DEF Decide
    <3> QED
      BY <2>3, <3>1, QuietKeeps, LeadsLands DEF Decide
  <2>4. CASE Proceed(p)
    BY <1>2, <1>3, <2>4, FreePlaces, Names, ContNames, TxLeads, QuietKeeps, LeadsLands DEF Proceed
  <2> QED
    BY <1>5, <2>1, <2>2, <2>3, <2>4
<1>6. CASE RecordAnswer(p) \/ Govern(p)
  <2>1. Grows /\ Keeps
    BY <1>1, <1>6, RecordGrows DEF RecordAnswer, Govern, Record, Keeps
  <2>2. Leads(p)
    BY <1>1, <1>3, <1>6, FreePlaces, GotoLeads, LeaveLeads DEF RecordAnswer, Govern
  <2> QED
    BY <2>1, <2>2, LeadsLands
<1>7. CASE Dispatch(p)
  <2> DEFINE s == IF ckpt.next = "end" THEN anchor ELSE ckpt.next
  <2>1. s \in Step \ {"read", "append"} /\ ckpt.state \in Graph
    BY <1>1 DEF TypeOK, Node, Step
  <2>2. SoundGraph(ckpt.state) /\ Entitled(s, ckpt.state)
    <3>1. anchor \in Free
      BY <1>1 DEF TypeOK, Free
    <3> QED
      BY <3>1, FreePlaces DEF AuthorityInv
  <2>3. At(p, s, InPass(ckpt.state)) /\ Silent
    BY <1>7 DEF Dispatch
  <2> HIDE DEF s
  <2> QED
    BY <2>1, <2>2, <2>3, PassLeads, QuietKeeps, LeadsLands
<1> QED
  BY <1>4, <1>5, <1>6, <1>7

-----------------------------------------------------------------------------
(* The Run changes by transitions only, and completes by one command only. *)

LEMMA RunChanges ==
    ASSUME ControlInv, [Next]_vars, run' # run
    PROVE  \E p \in Thread : AppendTx(p) /\ Won(p)
<1>1. TypeOK /\ PairInv
  BY DEF ControlInv
<1>2. PICK p \in Thread : Work(p) \/ Requests(p)
  BY DEF Next, vars, log
<1>3. CASE AppendTx(p)
  BY <1>3 DEF AppendTx, log
<1>4. CASE Read(p) \/ FailVersion(p) \/ Fact(p) \/ FailFact(p)
  BY <1>4 DEF Read, FailVersion, Fact, FailFact, log
<1>5. CASE Pass(p) /\ ~Fact(p)
  BY <1>1, <1>5, ExecutionMoves, ThyMoves, GateMoves DEF Pass, Plainly, Steady
<1>6. CASE \/ Requests(p) \/ Raised(p) \/ Freshness(p) \/ Stale(p) \/ CheckAnswer(p)
           \/ RecordAnswer(p) \/ Decide(p) \/ Proceed(p) \/ Dispatch(p) \/ Govern(p)
  BY <1>1, <1>6, RequestMoves DEF Plainly, Steady
<1> QED
  BY <1>2, <1>3, <1>4, <1>5, <1>6 DEF Work

LEMMA CompletesByCommand ==
    ASSUME ControlInv, NEW p \in Thread, AppendTx(p), Won(p), run'.outcome = "completed"
    PROVE  job[p].cmd = "complete"
<1>1. /\ run \in RunRecord /\ job[p].cmd \in Command /\ job[p].cmd \in Allowed(run)
      /\ run' = NextState(run, job[p].cmd)
  BY JobTypes DEF ControlInv, TypeOK, CasInv, AppendTx, Won
<1> QED
  BY <1>1, Outcomes

-----------------------------------------------------------------------------

LEMMA AuthorityInit == Init => AuthorityInv
<1> SUFFICES ASSUME Init PROVE AuthorityInv
  OBVIOUS
<1>1. SoundGraph(InitialGraph) /\ Entitled("start", InitialGraph)
  BY InitialSound DEF BeforeGate
<1>2. SoundGraph(ckpt.state) /\ Entitled(ckpt.next, ckpt.state)
  BY <1>1 DEF Init
<1>3. ASSUME NEW p \in Thread
      PROVE  Sound(pc[p], job[p])
  <2>1. pc[p] \in {"start", "idle"} /\ job[p].gs = InitialGraph
    BY DEF Init, NoJob
  <2>2. Entitled("idle", InitialGraph)
    BY FreePlaces DEF Free
  <2> QED
    BY <1>1, <2>1, <2>2 DEF Sound
<1> QED
  BY <1>2, <1>3 DEF AuthorityInv

LEMMA AuthorityStep ==
    ASSUME ControlInv, AuthorityInv, [Next]_vars
    PROVE  AuthorityInv'
<1>1. TypeOK
  BY DEF ControlInv
<1>2. CASE UNCHANGED vars
  BY <1>2 DEF vars, log, AuthorityInv, Sound, SoundGraph, Entitled, Granted, Cleared, Approvals
<1>3. ASSUME NEW p \in Thread, Work(p) \/ Requests(p)
      PROVE  AuthorityInv'
  <2>1. CASE Pass(p)
    <3>1. Grows /\ Lands(p) /\ Keeps
      BY <1>1, <2>1, StartLands, ExecGateLands, ExecutionLands, ThyLands, MiraLands,
         FindingsLands, ReviewLands, SettleLands, CompletionLands DEF Pass
    <3> QED
      BY <1>1, <3>1, LandingStep
  <2>2. CASE Work(p) /\ ~Pass(p)
    <3>1. Grows /\ Lands(p) /\ Keeps
      BY <1>1, <2>2, ControllerLands, FailureLands, ResolutionLands DEF Work
    <3> QED
      BY <1>1, <3>1, LandingStep
  <2>3. CASE Requests(p)
    BY <1>1, <2>3, RequestLands, LandingStep
  <2> QED
    BY <1>3, <2>1, <2>2, <2>3
<1> QED
  BY <1>2, <1>3 DEF Next

\* Every place of the graph has, about its verdicts, what it takes for granted: also a pass
\* resumed from another pass's checkpoint, and whatever was answered or asked meanwhile.
THEOREM AuthorityInvariance == Spec => []AuthorityInv
<1>1. Init => AuthorityInv
  BY AuthorityInit
<1>2. ControlInv /\ AuthorityInv /\ [Next]_vars => AuthorityInv'
  BY AuthorityStep
<1> QED
  BY <1>1, <1>2, ControlInvariance, PTL DEF Spec

\* THY works only under an execution decision that passed, or that a human approved.
THEOREM ThyIsAuthorised == Spec => []ThyAuthorised
<1>1. AuthorityInv => ThyAuthorised
  BY DEF AuthorityInv, Sound, Entitled, UnderGrant, Granted, ThyAuthorised
<1> QED
  BY <1>1, AuthorityInvariance, PTL

\* A Run completes only by a pass whose findings decision passed, or was a review of the
\* findings or of their rework that a human approved.
THEOREM CompletionsAreAuthorised == Spec => CompletionAuthorised
<1> DEFINE Authorised ==
      \E p \in Thread :
         /\ pc[p] = "append" /\ job[p].cmd = "complete"
         /\ LET v == job[p].gs.verdict IN
               \/ v = "pass"
               \/ /\ v \in Review
                  /\ kind[v] \in {"findings", "escalation"}
                  /\ Approvals(v) # {}
<1>1. ASSUME ControlInv, AuthorityInv, [Next]_vars,
             run.outcome # "completed", run'.outcome = "completed"
      PROVE  Authorised
  <2>1. PICK p \in Thread : AppendTx(p) /\ Won(p)
    BY <1>1, RunChanges
  <2>2. job[p].cmd = "complete"
    BY <1>1, <2>1, CompletesByCommand
  <2>3. pc[p] = "append" /\ Sound("append", job[p])
    BY <1>1, <2>1 DEF AppendTx, AuthorityInv
  <2>4. Cleared(job[p].gs.verdict)
    BY <2>2, <2>3 DEF Sound
  <2> QED
    BY <2>2, <2>3, <2>4 DEF Cleared
<1>2. ControlInv /\ AuthorityInv /\ [Next]_vars
        => [run.outcome # "completed" /\ run'.outcome = "completed" => Authorised]_vars
  BY <1>1
<1> QED
  BY <1>2, ControlInvariance, AuthorityInvariance, PTL DEF Spec, CompletionAuthorised
----------------------------------------------------------------------------
(* What clients that take turns may rely on. At most one thread works, so what it read *)
(* still holds when it appends, and each review is answered once; what is then said of *)
(* the one thread at work follows the Run from its first pass to its last.             *)

\* The answers of these reviews bind the Run, and all but maybe v were approved.
Binding(r)  == kind[r] \in {"execution", "findings"}
ClearBut(v) == \A r \in Review \ {v} : Binding(r) => answers[r] = <<TRUE>>
Clear       == \A r \in Review : Binding(r) => answers[r] = <<TRUE>>

Once == \A r \in Review : answers[r] \in {<<>>, <<TRUE>>, <<FALSE>>}

\* The pass with this state parked the Run on the review, which goes with its verdicts.
Concerns(r, gs) == \/ kind[r] = "execution" /\ gs.exec = r
                   \/ kind[r] = "tool" /\ Granted(gs.exec)
                   \/ kind[r] \in {"findings", "escalation"} /\ gs.verdict = r
ParkedBy(gs) == /\ parked \in Review /\ ClearBut(parked) /\ Concerns(parked, gs)
                /\ ~gs.rework
\* Its answer lets the Run resume.
Released(r) == Answered(r) /\ (kind[r] = "execution" => answers[r] = <<TRUE>>)

\* How the Run does: it failed, was blocked or cancelled; completed, and no review that binds it
\* can be answered any more; waits; was left active with nobody to take it on.
Over == run.condition = "terminal" /\ run.outcome # "completed"
Done == /\ run.outcome = "completed"
        /\ \A r \in Review : Binding(r) => ~Rejected(r)
        /\ \A r \in open : ~Binding(r)
Held == /\ AwaitsApproval(run)
        /\ ckpt.next = "end" /\ ParkedBy(ckpt.state)
Lost == /\ run.condition = "active"
        /\ \/ \E r \in Review : kind[r] = "escalation" /\ Answered(r)
           \/ FindingsRejected

\* Of the thread at work, by its place and its locals.
AfterCompletion == {"fact", "routeGate", "complete", "close", "completeFact"}
Ends     == {"block", "fail", "cancel"}
OnAnswer == {"freshness", "checkAnswer", "recordAnswer", "decide", "proceed", "read", "append"}

Completed(s, j) ==
    /\ s \in {"idle", "govern", "read", "raised"} \cup AfterCompletion
    /\ s \in AfterCompletion => ~j.gs.rework
    /\ s = "govern" => ~Binding(j.arg)

Answering(s, j) ==
    /\ s \in {"idle", "govern", "stale"} \cup OnAnswer
    /\ s \in OnAnswer => j.arg = parked /\ ~j.pass
    /\ s = "freshness" => j.cont = "checkAnswer" \/ Released(parked)
    /\ s = "decide" => answers[parked] = <<j.ans>>
    /\ s \in {"proceed", "read", "append"} => Released(parked)
    /\ s \in {"read", "append"} => j.cmd = "resume" /\ j.cont = "dispatch"

\* Places of a pass with every binding review approved, and those of a rework.
InClear   == {"start", "started", "execGate", "routeExec", "thy", "thyWork", "thyPark", "routeThy",
              "mira", "audit", "gate", "settle", "reporting", "complete", "close"}
Reworking == {"thy", "thyWork", "routeGate"}

\* A transition on its way: the Run parks on the review of this place, or goes on.
Parks(j) ==
    /\ j.cmd = "wait_for_approval" /\ ~j.gs.rework
    /\ j.arg \in Review /\ ClearBut(j.arg) /\ Concerns(j.arg, j.gs)
    /\ \/ j.cont = "routeExec" /\ kind[j.arg] = "execution"
       \/ j.cont = "routeThy" /\ kind[j.arg] = "tool"
       \/ j.cont = "routeGate" /\ \/ kind[j.arg] = "escalation"
                                  \/ kind[j.arg] = "findings" /\ ~Answered(j.arg)
Advances(j) ==
    /\ j.cmd \in DOMAIN AdvanceStage \cup {"complete"} /\ Clear
    /\ j.cont \in {"started", "thyWork", "audit", "reporting", "close", "fact", "completeFact",
                   "routeGate"}
    /\ (j.cmd = "complete") <=> (j.cont \in {"fact", "completeFact"})
    /\ j.cont = "routeGate" => j.gs.rework
    /\ j.cont \notin Reworking => ~j.gs.rework

OnPass(s, j) ==
    /\ j.pass
    /\ s \in InClear \cup {"applyExec", "applyReview", "routeGate", "read", "append"}
    /\ s \in InClear => Clear
    /\ s \notin Reworking \cup {"read", "append"} => ~j.gs.rework
    /\ s = "applyExec" => ClearBut(j.gs.exec) /\ j.gs.exec # "none"
    /\ s = "routeExec" => ReleasesThy(j.gs.exec)
    /\ s = "applyReview" => ClearBut(j.gs.verdict)
    /\ s = "routeGate" => \/ j.gs.rework /\ Clear
                          \/ /\ ~j.gs.rework /\ j.gs.verdict \in Review
                             /\ ClearBut(j.gs.verdict) /\ Answered(j.gs.verdict)
    /\ s \in {"read", "append"} => Parks(j) \/ Advances(j)

\* The pass that parked the Run ends.
Parking(s, j) ==
    /\ j.pass /\ ParkedBy(j.gs)
    /\ \/ s = "routeExec" /\ kind[parked] = "execution"
       \/ s = "routeThy" /\ kind[parked] = "tool"
       \/ s = "routeGate" /\ \/ kind[parked] = "escalation"
                             \/ kind[parked] = "findings" /\ ~Answered(parked)

Ending(s, j) == \/ s = "raised" /\ j.pass
                \/ s \in {"read", "append"} /\ j.cmd \in Ends

Suits(s, j) ==
    \/ Done /\ Completed(s, j)
    \/ Held /\ Answering(s, j)
    \/ Lost /\ s \in {"idle", "govern"}
    \/ run.condition = "active" /\ OnPass(s, j)
    \/ AwaitsApproval(run) /\ Parking(s, j)
    \/ /\ run.condition = "active" /\ s = "dispatch"
       /\ ckpt.next = "end" /\ ParkedBy(ckpt.state) /\ Released(parked)
       /\ anchor = Anchor(parked)
    \/ run.condition # "terminal" /\ Ending(s, j)

Fits(p, s, j) ==
    /\ Suits(s, j)
    /\ s = "append" => p \in fresh
    /\ s \in {"govern", "recordAnswer"} => j.arg \in Review /\ answers[j.arg] = <<>>

OnTurn(p) == (\A q \in Thread \ {p} : pc[q] = "idle") /\ Fits(p, pc[p], job[p])

TurnsInv == Over \/ (Once /\ \E p \in Thread : OnTurn(p))

-----------------------------------------------------------------------------
(* What a step leaves as it is said to be. *)

\* A review answered at most once: its answer is the last and the only one.
LEMMA OnceSays ==
    ASSUME Once, NEW r \in Review
    PROVE  /\ Answered(r) <=> answers[r] # <<>>
           /\ Rejected(r) <=> answers[r] = <<FALSE>>
           /\ HumanOutcome(r) = "approved" <=> answers[r] = <<TRUE>>
           /\ HumanOutcome(r) = "rejected" <=> answers[r] = <<FALSE>>
           /\ HumanOutcome(r) = "none" <=> answers[r] = <<>>
           /\ Latest(r) = "approved" <=> answers[r] = <<TRUE>>
           /\ Latest(r) = "rejected" <=> answers[r] = <<FALSE>>
           /\ Latest(r) = "none" <=> answers[r] = <<>>
<1>1. answers[r] \in {<<>>, <<TRUE>>, <<FALSE>>}
  BY DEF Once
<1>2. <<TRUE>> # <<>> /\ <<FALSE>> # <<>> /\ <<TRUE>> # <<FALSE>>
  OBVIOUS
<1>3. CASE answers[r] = <<>>
  BY <1>2, <1>3 DEF Answered, Rejected, HumanOutcome, Latest
<1>4. CASE answers[r] = <<TRUE>>
  <2>1. DOMAIN answers[r] = {1} /\ answers[r][1] = TRUE /\ Len(answers[r]) = 1
    BY <1>4
  <2>2. Answered(r) /\ ~Rejected(r)
    BY <1>2, <1>4, <2>1 DEF Answered, Rejected
  <2> QED BY <1>2, <1>4, <2>1, <2>2 DEF HumanOutcome, Latest
<1>5. CASE answers[r] = <<FALSE>>
  <2>1. DOMAIN answers[r] = {1} /\ answers[r][1] = FALSE /\ Len(answers[r]) = 1
    BY <1>5
  <2>2. Answered(r) /\ Rejected(r)
    BY <1>2, <1>5, <2>1 DEF Answered, Rejected
  <2> QED BY <1>2, <1>5, <2>1, <2>2 DEF HumanOutcome, Latest
<1> QED BY <1>1, <1>3, <1>4, <1>5

\* Neither the audits nor the facts matter to a turn.
Same == UNCHANGED <<run, parked, kind, open, answers, anchor>>

LEMMA SameSays ==
    ASSUME Same
    PROVE  /\ Once => Once'
           /\ \A v : Granted(v)' <=> Granted(v)
           /\ \A v : ClearBut(v)' <=> ClearBut(v)
           /\ \A gs : ParkedBy(gs)' <=> ParkedBy(gs)
           /\ Clear' <=> Clear
           /\ \A v : Released(v)' <=> Released(v)
           /\ \A v : ReleasesThy(v)' <=> ReleasesThy(v)
           /\ Done' <=> Done
           /\ Lost' <=> Lost
           /\ AwaitsApproval(run)' <=> AwaitsApproval(run)
<1>0. /\ run' = run /\ parked' = parked /\ kind' = kind /\ open' = open /\ answers' = answers
      /\ anchor' = anchor
  BY DEF Same
<1>1. \A v : Granted(v)' <=> Granted(v)
  BY <1>0 DEF Granted, Approvals
<1>2. \A v : ClearBut(v)' <=> ClearBut(v)
  BY <1>0 DEF ClearBut, Binding
<1>3. \A gs : ParkedBy(gs)' <=> ParkedBy(gs)
  BY <1>0, <1>1, <1>2 DEF ParkedBy, Concerns
<1>4. /\ \A v : Released(v)' <=> Released(v)
      /\ \A v : ReleasesThy(v)' <=> ReleasesThy(v)
  BY <1>0 DEF Released, Answered, ReleasesThy, HumanOutcome, Rejected
<1>5. Done' <=> Done
  BY <1>0 DEF Done, Binding, Rejected
<1>6. Lost' <=> Lost
  BY <1>0 DEF Lost, Answered, FindingsRejected, Rejected
<1>7. (Once => Once') /\ (Clear' <=> Clear)
  BY <1>0 DEF Once, Clear, Binding
<1> QED BY <1>0, <1>1, <1>2, <1>3, <1>4, <1>5, <1>6, <1>7 DEF AwaitsApproval

LEMMA SamePlaces ==
    ASSUME Same, NEW s, NEW j
    PROVE  /\ Completed(s, j)' <=> Completed(s, j)
           /\ Answering(s, j)' <=> Answering(s, j)
           /\ OnPass(s, j)' <=> OnPass(s, j)
           /\ Parking(s, j)' <=> Parking(s, j)
<1>0. /\ run' = run /\ parked' = parked /\ kind' = kind /\ open' = open /\ answers' = answers
      /\ anchor' = anchor
  BY DEF Same
<1>1. Completed(s, j)' <=> Completed(s, j)
  BY <1>0 DEF Completed, Binding
<1>2. Answering(s, j)' <=> Answering(s, j)
  BY <1>0, SameSays DEF Answering
<1>3. Parks(j)' <=> Parks(j)
  BY <1>0, SameSays DEF Parks, Concerns, Answered
<1>4. Advances(j)' <=> Advances(j)
  BY <1>0, SameSays DEF Advances
<1>5. OnPass(s, j)' <=> OnPass(s, j)
  BY <1>0, <1>3, <1>4, SameSays DEF OnPass, Answered
<1>6. Parking(s, j)' <=> Parking(s, j)
  BY <1>0, SameSays DEF Parking, Answered
<1> QED BY <1>1, <1>2, <1>5, <1>6

LEMMA SameSuits ==
    ASSUME Same, ckpt' = ckpt, NEW s, NEW j
    PROVE  Suits(s, j)' <=> Suits(s, j)
<1>0. run' = run /\ parked' = parked /\ kind' = kind /\ anchor' = anchor
  BY DEF Same
<1>1. Held' <=> Held
  BY SameSays DEF Held
<1>2. anchor = Anchor(parked) <=> (anchor = Anchor(parked))'
  BY <1>0 DEF Anchor
<1> QED BY <1>0, <1>1, <1>2, SameSays, SamePlaces DEF Suits

-----------------------------------------------------------------------------
(* How the thread at work moves on. *)

\* The thread whose turn it is, while the Run has not ended short of completion.
Ours(p) == /\ p \in Thread /\ ControlInv /\ AuthorityInv /\ ~Over /\ Once
           /\ Fits(p, pc[p], job[p])

Fitting(p)  == \E s \in Step, j \in Job : At(p, s, j) /\ Fits(p, s, j)'
TurnKept(p) == Over' \/ (Once' /\ Fitting(p))

LEMMA Mine ==
    ASSUME NEW p, Ours(p)
    PROVE  /\ p \in Thread /\ job[p] \in Job /\ job[p].gs \in Graph
           /\ job[p].gs.exec \in Verdict /\ job[p].gs.verdict \in Verdict
           /\ SoundGraph(job[p].gs) /\ Entitled(pc[p], job[p].gs)
           /\ TypeOK /\ Suits(pc[p], job[p])
           /\ run.condition = "terminal" => run.outcome = "completed"
           /\ run.condition # "terminal" => run.outcome = "none"
           /\ Done => run.condition = "terminal"
  BY HereSound DEF Ours, Fits, ControlInv, OutcomeInv, Over, Done

LEMMA KeptAt ==
    ASSUME NEW p, Ours(p), Same, ckpt' = ckpt, NEW s \in Step \ {"append", "govern", "recordAnswer"},
           NEW j \in Job, At(p, s, j), Suits(s, j)
    PROVE  TurnKept(p)
<1>1. Once' /\ Suits(s, j)'
  BY SameSays, SameSuits DEF Ours
<1> QED BY <1>1 DEF TurnKept, Fitting, Fits

LEMMA GotoKept ==
    ASSUME NEW p, Ours(p), Same, ckpt' = ckpt, NEW s \in Step \ {"append", "govern", "recordAnswer"},
           Goto(p, s), Suits(s, job[p])
    PROVE  TurnKept(p)
  BY KeptAt, Mine DEF Goto

\* Nobody works on a Run that completed, waits or is lost.
LEMMA IdleSuits ==
    ASSUME NEW j, Done \/ Held \/ Lost
    PROVE  Suits("idle", j)
  BY DEF Suits, Completed, Answering, OnAnswer, AfterCompletion

LEMMA LeaveKept ==
    ASSUME NEW p, Ours(p), Same, ckpt' = ckpt, Leave(p), Done \/ Held \/ Lost
    PROVE  TurnKept(p)
<1>1. "idle" \in Step \ {"append", "govern", "recordAnswer"}
  BY DEF Step
<1> QED BY <1>1, IdleSuits, NullTypes, KeptAt DEF Leave

\* A pass that raises will fail its Run, or finds it completed.
LEMMA RaiseKept ==
    ASSUME NEW p, Ours(p), Same, ckpt' = ckpt, Raise(p), job[p].pass,
           Done \/ run.condition # "terminal"
    PROVE  TurnKept(p)
<1>1. "raised" \in Step \ {"append", "govern", "recordAnswer"} /\ InPass(InitialGraph) \in Job
  BY NullTypes, InPassTypes DEF Step
<1>2. PICK j \in Job : j = InPass(InitialGraph)
  BY <1>1
<1>3. j.pass /\ At(p, "raised", j)
  BY <1>2 DEF InPass, NoJob, Raise
<1>4. Suits("raised", j)
  BY <1>3 DEF Suits, Completed, AfterCompletion, Ending
<1> QED BY <1>1, <1>3, <1>4, KeptAt

LEMMA TxGoes ==
    ASSUME NEW p, NEW c \in Command, NEW n \in Cont, NEW j \in Job, Tx(p, c, n, j)
    PROVE  \E i \in Job : /\ At(p, "read", i) /\ i.cmd = c /\ i.cont = n
                          /\ i.arg = j.arg /\ i.pass = j.pass /\ i.gs = j.gs
<1>1. PICK i : i = [j EXCEPT !.cmd = c, !.cont = n]
  OBVIOUS
<1>2. i \in Job
  BY <1>1, JobTypes
<1>3. i.cmd = c /\ i.cont = n /\ i.arg = j.arg /\ i.pass = j.pass /\ i.gs = j.gs
  BY <1>1 DEF Job
<1>4. At(p, "read", i)
  BY <1>1 DEF Tx
<1> QED BY <1>2, <1>3, <1>4

LEMMA EndTxKept ==
    ASSUME NEW p, Ours(p), Same, ckpt' = ckpt, NEW c \in Ends, NEW n \in Cont, NEW j \in Job,
           Tx(p, c, n, j), run.condition # "terminal"
    PROVE  TurnKept(p)
<1>1. c \in Command /\ "read" \in Step \ {"append", "govern", "recordAnswer"}
  BY DEF Ends, Command, TerminalOutcome, Step
<1>2. PICK i \in Job : At(p, "read", i) /\ i.cmd = c
  BY <1>1, TxGoes
<1>3. Suits("read", i)
  BY <1>2 DEF Suits, Ending
<1> QED BY <1>1, <1>2, <1>3, KeptAt

LEMMA PassTxKept ==
    ASSUME NEW p, Ours(p), Same, ckpt' = ckpt, NEW c \in Command, NEW n \in Cont, NEW j \in Job,
           Tx(p, c, n, j), run.condition = "active", j.pass,
           \A i \in Job : /\ i.cmd = c /\ i.cont = n /\ i.arg = j.arg /\ i.gs = j.gs
                          => Parks(i) \/ Advances(i)
    PROVE  TurnKept(p)
<1>1. "read" \in Step \ {"append", "govern", "recordAnswer"}
  BY DEF Step
<1>2. PICK i \in Job : /\ At(p, "read", i) /\ i.cmd = c /\ i.cont = n
                       /\ i.arg = j.arg /\ i.pass = j.pass /\ i.gs = j.gs
  BY ONLY TxGoes, c \in Command, n \in Cont, j \in Job, Tx(p, c, n, j)
<1>3. OnPass("read", i)
  BY <1>2 DEF OnPass, InClear
<1>4. Suits("read", i)
  BY <1>3 DEF Suits
<1> QED BY <1>1, <1>2, <1>4, KeptAt

LEMMA EnterKept ==
    ASSUME NEW p, Ours(p), Same, NEW n \in Node, NEW gs \in Graph, Enter(p, n, gs),
           \A j \in Job : j.pass /\ j.gs = gs =>
              (Done /\ Completed(n, j)) \/ (run.condition = "active" /\ OnPass(n, j))
    PROVE  TurnKept(p)
<1>1. n \in Step \ {"append", "govern", "recordAnswer"}
  BY DEF Node, Step
<1>2. PICK j \in Job : j = InPass(gs)
  BY InPassTypes
<1>3. j.pass /\ j.gs = gs /\ At(p, n, j)
  BY <1>2 DEF InPass, NoJob, Enter
<1>4. run' = run
  BY DEF Same
<1>5. Suits(n, j)'
  BY <1>3, <1>4, SameSays, SamePlaces DEF Suits
<1>6. Fits(p, n, j)'
  BY <1>1, <1>5 DEF Fits
<1> QED BY <1>1, <1>3, <1>6, SameSays DEF TurnKept, Fitting, Ours

LEMMA EndKept ==
    ASSUME NEW p, Ours(p), Same, EndPass(p),
           Done \/ Lost \/ (AwaitsApproval(run) /\ ParkedBy(job[p].gs))
    PROVE  TurnKept(p)
<1>1. "idle" \in Step
  BY DEF Step
<1>2. At(p, "idle", NoJob) /\ ckpt' = [next |-> "end", state |-> job[p].gs]
  BY DEF EndPass, Checkpoint, Leave
<1>3. AwaitsApproval(run) /\ ParkedBy(job[p].gs) => Held'
  <2>1. ASSUME NEW gs PROVE ParkedBy(gs)' <=> ParkedBy(gs)
    BY SameSays
  <2>2. PICK gs : gs = job[p].gs
    OBVIOUS
  <2>3. ckpt'.next = "end" /\ ckpt'.state = gs
    BY <1>2, <2>2
  <2>4. AwaitsApproval(run) /\ ParkedBy(gs) => AwaitsApproval(run)' /\ ParkedBy(gs)'
    BY <2>1, SameSays
  <2> QED BY <2>2, <2>3, <2>4 DEF Held, ParkedBy, Concerns
<1>4. Suits("idle", NoJob)'
  <2>1. Done' \/ Held' \/ Lost'
    BY <1>3, SameSays
  <2> QED BY <2>1 DEF Suits, Completed, Answering, OnAnswer, AfterCompletion
<1>5. Fits(p, "idle", NoJob)'
  BY <1>4 DEF Fits
<1> QED BY <1>1, <1>2, <1>5, NullTypes, SameSays DEF TurnKept, Fitting, Ours

-----------------------------------------------------------------------------
(* What is said of the thread at work, place by place. *)

Interior == {"start", "started", "execGate", "applyExec", "thy", "thyWork", "thyPark", "mira",
             "audit", "gate", "applyReview", "settle", "reporting"}

Passing(s, j)  == run.condition = "active" /\ OnPass(s, j)
Waiting(s, j)  == AwaitsApproval(run) /\ Parking(s, j)
Finished(s, j) == Done /\ Completed(s, j)
Heard(s, j)    == Held /\ Answering(s, j)
Failing(s, j)  == run.condition # "terminal" /\ Ending(s, j)

LEMMA PassPlaces ==
    ASSUME NEW s, NEW j, Suits(s, j)
    PROVE  /\ s \in Interior => Passing(s, j)
           /\ s \in {"routeExec", "routeThy"} => Passing(s, j) \/ Waiting(s, j)
           /\ s = "routeGate" => Passing(s, j) \/ Waiting(s, j) \/ Finished(s, j)
           /\ s \in {"complete", "close"} => Passing(s, j) \/ Finished(s, j)
           /\ s \in {"fact", "completeFact"} => Finished(s, j)
           /\ s \notin {"failVersion", "failFact"}
<1>1. s \in Interior => Passing(s, j)
  BY DEF Suits, Interior, Passing, Completed, AfterCompletion, Answering, OnAnswer, Parking, Ending
<1>2. s \in {"routeExec", "routeThy"} => Passing(s, j) \/ Waiting(s, j)
  BY DEF Suits, Passing, Waiting, Completed, AfterCompletion, Answering, OnAnswer, Ending
<1>3. s = "routeGate" => Passing(s, j) \/ Waiting(s, j) \/ Finished(s, j)
  BY DEF Suits, Passing, Waiting, Finished, Answering, OnAnswer, Ending
<1>4. s \in {"complete", "close"} => Passing(s, j) \/ Finished(s, j)
  BY DEF Suits, Passing, Finished, Answering, OnAnswer, Parking, Ending
<1>5. s \in {"fact", "completeFact"} => Finished(s, j)
  BY DEF Suits, Finished, Answering, OnAnswer, OnPass, InClear, Parking, Ending
<1>6. s \notin {"failVersion", "failFact"}
  BY DEF Suits, Completed, AfterCompletion, Answering, OnAnswer, OnPass, InClear, Parking, Ending
<1> QED BY <1>1, <1>2, <1>3, <1>4, <1>5, <1>6

LEMMA RequestPlaces ==
    ASSUME NEW s, NEW j, Suits(s, j)
    PROVE  /\ s \in {"freshness", "stale", "checkAnswer", "recordAnswer", "decide", "proceed"} =>
                 Heard(s, j)
           /\ s = "dispatch" => /\ run.condition = "active"
                                /\ ckpt.next = "end" /\ ParkedBy(ckpt.state) /\ Released(parked)
                                /\ anchor = Anchor(parked)
           /\ s = "raised" => Finished(s, j) \/ Failing(s, j)
           /\ s = "govern" => Finished(s, j) \/ Held \/ Lost
           /\ s = "idle" => Done \/ Held \/ Lost
           /\ s = "read" => Finished(s, j) \/ Heard(s, j) \/ Passing(s, j) \/ Failing(s, j)
           /\ s = "append" => Heard(s, j) \/ Passing(s, j) \/ Failing(s, j)
<1>1. s \in {"freshness", "stale", "checkAnswer", "recordAnswer", "decide", "proceed"} =>
         Heard(s, j)
  BY DEF Suits, Heard, Completed, AfterCompletion, OnPass, InClear, Parking, Ending
<1>2. s = "dispatch" => /\ run.condition = "active"
                        /\ ckpt.next = "end" /\ ParkedBy(ckpt.state) /\ Released(parked)
                        /\ anchor = Anchor(parked)
  BY DEF Suits, Completed, AfterCompletion, Answering, OnAnswer, OnPass, InClear, Parking, Ending
<1>3. s = "raised" => Finished(s, j) \/ Failing(s, j)
  BY DEF Suits, Finished, Failing, Answering, OnAnswer, OnPass, InClear, Parking
<1>4. s = "govern" => Finished(s, j) \/ Held \/ Lost
  BY DEF Suits, Finished, OnPass, InClear, Parking, Ending
<1>5. s = "idle" => Done \/ Held \/ Lost
  BY DEF Suits, OnPass, InClear, Parking, Ending
<1>6. s = "read" => Finished(s, j) \/ Heard(s, j) \/ Passing(s, j) \/ Failing(s, j)
  BY DEF Suits, Finished, Heard, Passing, Failing, Parking
<1>7. s = "append" => Heard(s, j) \/ Passing(s, j) \/ Failing(s, j)
  BY DEF Suits, Heard, Passing, Failing, Parking, Completed, AfterCompletion
<1> QED BY <1>1, <1>2, <1>3, <1>4, <1>5, <1>6, <1>7

\* Where the thread at work is on a pass, nobody else ended the Run.
LEMMA PassKept ==
    ASSUME NEW p, Ours(p), Same, ckpt' = ckpt, run.condition = "active",
           NEW s \in Step \ {"append", "govern", "recordAnswer"}, NEW j \in Job,
           At(p, s, j), OnPass(s, j)
    PROVE  TurnKept(p)
<1>1. Suits(s, j)
  BY DEF Suits
<1> QED BY <1>1, KeptAt

LEMMA AdvanceKept ==
    ASSUME NEW p, Ours(p), Same, ckpt' = ckpt, run.condition = "active",
           NEW c \in DOMAIN AdvanceStage \cup {"complete"}, NEW n \in Cont, NEW j \in Job,
           Tx(p, c, n, j), j.pass, Clear,
           n \in {"started", "thyWork", "audit", "reporting", "close", "fact", "completeFact",
                  "routeGate"},
           (c = "complete") <=> (n \in {"fact", "completeFact"}),
           n = "routeGate" => j.gs.rework, n \notin Reworking => ~j.gs.rework
    PROVE  TurnKept(p)
<1>1. c \in Command
  BY DEF Command, TerminalOutcome
<1>2. ASSUME NEW i \in Job, i.cmd = c, i.cont = n, i.gs = j.gs
      PROVE  Advances(i)
  BY <1>2 DEF Advances
<1> QED BY <1>1, <1>2, PassTxKept

LEMMA QuietSame ==
    /\ Silent => Same /\ ckpt' = ckpt
    /\ Note => Same /\ ckpt' = ckpt
    /\ UNCHANGED <<log, cas>> => Same
  BY DEF Silent, Note, Appended, Same, log, cas

-----------------------------------------------------------------------------
(* Reviews asked and answered. *)

\* A review just asked binds nobody yet, and takes nothing away from the others.
LEMMA AskSays ==
    ASSUME NEW r \in Review, NEW k \in Kind, Ask(r, k), TypeOK
    PROVE  /\ run' = run /\ parked' = parked /\ answers' = answers /\ anchor' = anchor
           /\ ckpt' = ckpt /\ kind[r] = "none" /\ kind'[r] = k /\ open' = open \cup {r}
           /\ \A q \in Review \ {r} : kind'[q] = kind[q]
           /\ Once => Once'
           /\ Clear => ClearBut(r)'
           /\ Clear /\ k \notin {"execution", "findings"} => Clear'
<1>1. /\ run' = run /\ parked' = parked /\ answers' = answers /\ anchor' = anchor
      /\ ckpt' = ckpt /\ kind[r] = "none" /\ kind' = [kind EXCEPT ![r] = k]
      /\ open' = open \cup {r}
  BY DEF Ask, Appended
<1>2. kind'[r] = k /\ \A q \in Review \ {r} : kind'[q] = kind[q]
  BY <1>1 DEF TypeOK
<1>3. Once => Once'
  BY <1>1 DEF Once
<1>4. Clear => ClearBut(r)'
  BY <1>1, <1>2 DEF Clear, ClearBut, Binding
<1>5. Clear /\ k \notin {"execution", "findings"} => Clear'
  BY <1>1, <1>2 DEF Clear, Binding
<1> QED BY <1>1, <1>2, <1>3, <1>4, <1>5

LEMMA AskKept ==
    ASSUME NEW p, Ours(p), NEW r \in Review, NEW k \in Kind, Ask(r, k), run.condition = "active",
           NEW s \in Step \ {"append", "govern", "recordAnswer"}, NEW j \in Job,
           At(p, s, j), OnPass(s, j)'
    PROVE  TurnKept(p)
<1>1. Once' /\ run' = run
  BY AskSays, Mine DEF Ours
<1>2. Suits(s, j)'
  BY <1>1 DEF Suits
<1> QED BY <1>1, <1>2 DEF TurnKept, Fitting, Fits

\* The first answer to a review.
LEMMA RecordSays ==
    ASSUME NEW p \in Thread, Record(p), TypeOK, Once, NEW a \in Review, a = job[p].arg,
           answers[a] = <<>>
    PROVE  /\ run' = run /\ parked' = parked /\ kind' = kind /\ open' = open /\ anchor' = anchor
           /\ ckpt' = ckpt /\ answers'[a] = <<job[p].ans>>
           /\ \A q \in Review \ {a} : answers'[q] = answers[q]
           /\ Once'
           /\ \A v : ClearBut(v) /\ (v = a \/ ~Binding(a)) => ClearBut(v)'
           /\ \A v : Granted(v) => Granted(v)'
           /\ \A q \in Review : (Answered(q) => Answered(q)') /\ (Rejected(q) => Rejected(q)')
<1>1. /\ run' = run /\ parked' = parked /\ kind' = kind /\ open' = open /\ anchor' = anchor
      /\ ckpt' = ckpt /\ answers' = [answers EXCEPT ![a] = Append(@, job[p].ans)]
  BY DEF Record
<1>2. answers'[a] = <<job[p].ans>> /\ \A q \in Review \ {a} : answers'[q] = answers[q]
  <2>1. Append(<<>>, job[p].ans) = <<job[p].ans>>
    OBVIOUS
  <2> QED BY <1>1, <2>1 DEF TypeOK
<1>3. Once'
  <2>1. job[p].ans \in BOOLEAN
    BY JobTypes DEF TypeOK
  <2>2. <<job[p].ans>> \in {<<TRUE>>, <<FALSE>>}
    BY <2>1
  <2>3. ASSUME NEW q \in Review PROVE answers'[q] \in {<<>>, <<TRUE>>, <<FALSE>>}
    <3>1. CASE q = a
      BY <1>2, <2>2, <3>1
    <3>2. CASE q # a
      BY <1>2, <3>2 DEF Once
    <3> QED BY <3>1, <3>2
  <2> QED BY <2>3 DEF Once
<1>4. ASSUME NEW v, ClearBut(v), v = a \/ ~Binding(a) PROVE ClearBut(v)'
  BY <1>1, <1>2, <1>4 DEF ClearBut, Binding
<1>5. \A v : Granted(v) => Granted(v)'
  BY RecordGrows, Kept
<1>6. ASSUME NEW q \in Review
      PROVE  (Answered(q) => Answered(q)') /\ (Rejected(q) => Rejected(q)')
  <2>1. q = a => ~Answered(q) /\ ~Rejected(q)
    BY DEF Answered, Rejected
  <2>2. CASE q # a
    BY <1>2, <2>2 DEF Answered, Rejected
  <2> QED BY <2>1, <2>2
<1> QED BY <1>1, <1>2, <1>3, <1>4, <1>5, <1>6

-----------------------------------------------------------------------------
(* A pass up to THY. *)

LEMMA StartKept ==
    ASSUME NEW p, Ours(p), Start(p) \/ Started(p)
    PROVE  TurnKept(p)
<1>1. /\ pc[p] \in {"start", "started"} /\ run.condition = "active" /\ job[p].pass /\ Clear
      /\ ~job[p].gs.rework
  <2>1. pc[p] \in {"start", "started"}
    BY DEF Start, Started
  <2> QED BY <2>1, Mine, PassPlaces DEF Interior, Passing, OnPass, InClear, Reworking
<1>2. CASE Start(p)
  <2>1. Same /\ ckpt' = ckpt
    BY <1>2, QuietSame DEF Start
  <2>2. CASE Tx(p, "start", "started", job[p])
    BY <1>1, <2>1, <2>2, Mine, AdvanceKept, ContNames DEF AdvanceStage, Reworking
  <2>3. CASE Goto(p, "started")
    <3>1. OnPass("started", job[p])
      BY <1>1 DEF OnPass, InClear, Reworking
    <3> QED BY <1>1, <2>1, <2>3, <3>1, Mine, PassKept DEF Goto, Step
  <2> QED BY <1>2, <2>2, <2>3 DEF Start
<1>3. CASE Started(p)
  <2>1. Same /\ Enter(p, "execGate", job[p].gs)
    BY <1>3, QuietSame DEF Started
  <2>2. ASSUME NEW j \in Job, j.pass, j.gs = job[p].gs PROVE OnPass("execGate", j)
    BY <1>1, <2>2 DEF OnPass, InClear, Reworking
  <2> QED BY <1>1, <2>1, <2>2, Mine, Names, EnterKept
<1> QED BY <1>2, <1>3

LEMMA WithExecTypes ==
    ASSUME NEW p \in Thread, job[p] \in Job, NEW v \in Verdict
    PROVE  \E j \in Job : /\ j = WithExec(p, v) /\ j.gs.exec = v /\ j.pass = job[p].pass
                          /\ j.gs.rework = job[p].gs.rework
<1>1. PICK gs \in Graph : gs = job[p].gs
  BY JobTypes
<1>2. PICK h \in Graph : h = [gs EXCEPT !.exec = v]
  BY GraphTypes
<1>3. h.exec = v /\ h.rework = gs.rework
  BY <1>2 DEF Graph
<1>4. PICK j \in Job : j = [job[p] EXCEPT !.gs = h]
  BY JobTypes
<1>5. j.gs = h /\ j.pass = job[p].pass
  BY <1>4 DEF Job
<1>6. j = WithExec(p, v)
  BY <1>1, <1>2, <1>4 DEF WithExec
<1> QED BY <1>1, <1>3, <1>5, <1>6

LEMMA ExecGateKept ==
    ASSUME NEW p, Ours(p), ExecGate(p)
    PROVE  TurnKept(p)
<1>1. run.condition = "active" /\ job[p].pass /\ Clear /\ ~job[p].gs.rework
  <2>1. pc[p] = "execGate"
    BY DEF ExecGate
  <2> QED BY <2>1, Mine, PassPlaces DEF Interior, Passing, OnPass, InClear, Reworking
<1>2. "applyExec" \in Step \ {"append", "govern", "recordAnswer"}
  BY DEF Step
<1>3. ASSUME NEW v \in Verdict, v # "none", Same, ckpt' = ckpt, At(p, "applyExec", WithExec(p, v))
      PROVE  TurnKept(p)
  <2>1. PICK j \in Job : /\ j = WithExec(p, v) /\ j.gs.exec = v /\ j.pass /\ ~j.gs.rework
    BY <1>1, Mine, WithExecTypes
  <2>2. ClearBut(v)
    BY <1>1 DEF Clear, ClearBut
  <2>3. OnPass("applyExec", j)
    BY <1>3, <2>1, <2>2 DEF OnPass, InClear, Reworking
  <2> QED BY <1>1, <1>2, <1>3, <2>1, <2>3, PassKept
<1>4. CASE ParkedOnStart /\ At(p, "applyExec", WithExec(p, parked)) /\ Silent
  <2>1. parked \in Review
    BY <1>4, Mine DEF ParkedOnStart, TypeOK
  <2>2. parked \in Verdict /\ parked # "none"
    BY <2>1, Names, ReviewAssumption
  <2> QED BY <1>3, <1>4, <2>2, QuietSame
<1>5. ASSUME NEW v \in {"pass", "block"}, Note, At(p, "applyExec", WithExec(p, v))
      PROVE  TurnKept(p)
  <2>1. v \in Verdict /\ v # "none"
    BY Names
  <2> QED BY <1>3, <1>5, <2>1, QuietSame
<1>6. ASSUME NEW r \in Review, Ask(r, "execution"), At(p, "applyExec", WithExec(p, r))
      PROVE  TurnKept(p)
  <2>1. r \in Verdict /\ r # "none"
    BY Names, ReviewAssumption
  <2>2. PICK j \in Job : /\ j = WithExec(p, r) /\ j.gs.exec = r /\ j.pass /\ ~j.gs.rework
    BY <1>1, <2>1, Mine, WithExecTypes
  <2>3. ClearBut(r)'
    BY <1>1, <1>6, Names, Mine, AskSays
  <2>4. OnPass("applyExec", j)'
    BY <2>1, <2>2, <2>3 DEF OnPass, InClear, Reworking
  <2> QED BY <1>1, <1>2, <1>6, <2>2, <2>4, Names, AskKept
<1> QED BY <1>4, <1>5, <1>6 DEF ExecGate

LEMMA ApplyExecKept ==
    ASSUME NEW p, Ours(p), ApplyExec(p)
    PROVE  TurnKept(p)
<1> DEFINE v == job[p].gs.exec
<1>1. /\ run.condition = "active" /\ job[p].pass /\ ClearBut(v) /\ v # "none"
      /\ ~job[p].gs.rework
  <2>1. pc[p] = "applyExec"
    BY DEF ApplyExec
  <2> QED BY <2>1, Mine, PassPlaces DEF Interior, Passing, OnPass, InClear, Reworking
<1>2. Same /\ ckpt' = ckpt
  BY QuietSame DEF ApplyExec
<1>3. v \in Review => /\ kind[v] = "execution"
                      /\ HumanOutcome(v) \in {"none", "approved", "rejected"}
                      /\ (HumanOutcome(v) = "approved" => answers[v] = <<TRUE>>)
  BY Mine, OnceSays DEF SoundGraph, HumanOutcome, Ours
<1>4. v \notin Review \/ answers[v] = <<TRUE>> => Clear
  BY <1>1 DEF ClearBut, Clear
<1>5. ASSUME NEW n \in Cont, NEW j \in Job, Tx(p, "block", n, j) PROVE TurnKept(p)
  <2>1. "block" \in Ends /\ run.condition # "terminal"
    BY <1>1 DEF Ends
  <2> QED BY <1>2, <1>5, <2>1, EndTxKept
<1>6. ASSUME Goto(p, "routeExec"), Clear, ReleasesThy(v) PROVE TurnKept(p)
  <2>1. OnPass("routeExec", job[p])
    BY <1>1, <1>6 DEF OnPass, InClear, Reworking
  <2>2. "routeExec" \in Step \ {"append", "govern", "recordAnswer"}
    BY DEF Step
  <2> QED BY <1>1, <1>2, <1>6, <2>1, <2>2, Mine, PassKept DEF Goto
<1>7. CASE v = "pass"
  <2>1. Goto(p, "routeExec")
    BY <1>7 DEF ApplyExec
  <2>2. v \notin Review
    BY <1>7, ReviewAssumption
  <2> QED BY <1>4, <1>6, <1>7, <2>1, <2>2 DEF ReleasesThy
<1>8. CASE v = "block"
  <2>1. v \notin Review
    BY <1>8, ReviewAssumption
  <2>2. Tx(p, "block", "routeExec", job[p])
    BY <1>1, <1>8, <2>1 DEF ApplyExec
  <2> QED BY <1>5, <2>2, ContNames, Mine
<1>9. CASE v \in Review
  <2>0. v # "pass" /\ v # "block"
    BY <1>9, ReviewAssumption
  <2>1. CASE HumanOutcome(v) = "rejected"
    <3>1. Tx(p, "block", "routeExec", job[p])
      BY <1>1, <1>9, <2>0, <2>1 DEF ApplyExec
    <3> QED BY <1>5, <3>1, ContNames, Mine
  <2>2. CASE HumanOutcome(v) = "none"
    <3>1. PICK j : j = [job[p] EXCEPT !.arg = v]
      OBVIOUS
    <3>2. j \in Job
      BY <1>9, <3>1, Mine, JobTypes
    <3>3. j.arg = v /\ j.gs = job[p].gs /\ j.pass
      BY <1>1, <3>1, Mine DEF Job
    <3>4. Tx(p, "wait_for_approval", "routeExec", j)
      BY <1>1, <1>9, <2>0, <2>2, <3>1 DEF ApplyExec
    <3>5. ASSUME NEW i \in Job, i.cmd = "wait_for_approval", i.cont = "routeExec", i.arg = j.arg,
                 i.gs = j.gs
          PROVE  Parks(i)
      <4>1. i.arg = v /\ i.gs.exec = v /\ ~i.gs.rework
        BY <1>1, <3>3, <3>5
      <4> QED BY <1>1, <1>3, <1>9, <3>5, <4>1 DEF Parks, Concerns
    <3> QED BY <1>1, <1>2, <3>2, <3>3, <3>4, <3>5, Names, ContNames, PassTxKept
  <2>3. CASE HumanOutcome(v) = "approved"
    <3>1. Goto(p, "routeExec")
      BY <1>1, <1>9, <2>0, <2>3 DEF ApplyExec
    <3> QED BY <1>3, <1>4, <1>6, <1>9, <2>3, <3>1 DEF ReleasesThy
  <2> QED BY <1>3, <1>9, <2>1, <2>2, <2>3
<1> QED BY <1>1, <1>7, <1>8, <1>9, Mine DEF Verdict

LEMMA RouteExecKept ==
    ASSUME NEW p, Ours(p), RouteExec(p)
    PROVE  TurnKept(p)
<1>0. pc[p] = "routeExec" /\ Same
  BY QuietSame DEF RouteExec
<1>1. CASE Passing("routeExec", job[p])
  <2>1. /\ run.condition = "active" /\ job[p].pass /\ Clear /\ ReleasesThy(job[p].gs.exec)
    BY <1>1 DEF Passing, OnPass, InClear
  <2>2. job[p].gs.exec # "none"
    BY <2>1, ReviewAssumption DEF ReleasesThy
  <2>3. Enter(p, "thy", job[p].gs)
    BY <2>1, <2>2 DEF RouteExec
  <2>4. ASSUME NEW j \in Job, j.pass, j.gs = job[p].gs PROVE OnPass("thy", j)
    BY <2>1, <2>4 DEF OnPass, InClear, Reworking
  <2> QED BY <1>0, <2>1, <2>3, <2>4, Mine, Names, EnterKept
<1>2. CASE Waiting("routeExec", job[p])
  <2>1. AwaitsApproval(run) /\ ParkedBy(job[p].gs) /\ run.condition # "active"
    BY <1>2 DEF Waiting, Parking, AwaitsApproval
  <2>2. EndPass(p)
    BY <2>1 DEF RouteExec
  <2> QED BY <1>0, <2>1, <2>2, EndKept
<1> QED BY <1>0, <1>1, <1>2, Mine, PassPlaces

-----------------------------------------------------------------------------
(* THY. *)

LEMMA ThyKept ==
    ASSUME NEW p, Ours(p), Thy(p)
    PROVE  TurnKept(p)
<1>1. run.condition = "active" /\ job[p].pass /\ Clear
  <2>1. pc[p] = "thy"
    BY DEF Thy
  <2> QED BY <2>1, Mine, PassPlaces DEF Interior, Passing, OnPass, InClear
<1>2. Same /\ ckpt' = ckpt
  BY QuietSame DEF Thy
<1>3. CASE Tx(p, "begin_execution", "thyWork", job[p])
  BY <1>1, <1>2, <1>3, Mine, AdvanceKept, ContNames DEF AdvanceStage, Reworking
<1>4. CASE Goto(p, "thyWork")
  <2>1. OnPass("thyWork", job[p])
    BY <1>1 DEF OnPass, InClear, Reworking
  <2> QED BY <1>1, <1>2, <1>4, <2>1, Mine, PassKept DEF Goto, Step
<1> QED BY <1>3, <1>4 DEF Thy

LEMMA ThyWorkKept ==
    ASSUME NEW p, Ours(p), ThyWork(p)
    PROVE  TurnKept(p)
<1>1. run.condition = "active" /\ job[p].pass /\ Clear
  <2>1. pc[p] = "thyWork"
    BY DEF ThyWork
  <2> QED BY <2>1, Mine, PassPlaces DEF Interior, Passing, OnPass, InClear
<1>2. {"routeThy", "thyPark"} \subseteq Step \ {"append", "govern", "recordAnswer"}
  BY DEF Step
<1>3. PICK j \in Job : j = ReworkTaken(p) /\ j.pass /\ ~j.gs.rework
  <2>1. PICK gs \in Graph : gs = job[p].gs
    BY Mine
  <2>2. PICK h \in Graph : h = [gs EXCEPT !.rework = FALSE]
    BY GraphTypes
  <2>3. ~h.rework
    BY <2>2 DEF Graph
  <2>4. PICK j \in Job : j = [job[p] EXCEPT !.gs = h]
    BY JobTypes, Mine
  <2>5. j.gs = h /\ j.pass
    BY <1>1, <2>4, Mine DEF Job
  <2>6. j = ReworkTaken(p)
    BY <2>1, <2>2, <2>4 DEF ReworkTaken
  <2> QED BY <2>3, <2>5, <2>6
<1>4. ASSUME NEW s \in {"routeThy", "thyPark"}, Note, At(p, s, ReworkTaken(p))
      PROVE  TurnKept(p)
  <2>1. OnPass(s, j)
    BY <1>1, <1>3 DEF OnPass, InClear, Reworking
  <2> QED BY <1>1, <1>2, <1>3, <1>4, <2>1, QuietSame, PassKept
<1>5. ASSUME NEW r \in Review, Ask(r, "tool"), At(p, "thyPark", ReworkTaken(p))
      PROVE  TurnKept(p)
  <2>1. Clear'
    BY <1>1, <1>5, Names, Mine, AskSays
  <2>2. OnPass("thyPark", j)'
    BY <1>3, <2>1 DEF OnPass, InClear, Reworking
  <2> QED BY <1>1, <1>2, <1>3, <1>5, <2>2, Names, AskKept
<1>6. CASE Note /\ Raise(p)
  BY <1>1, <1>6, QuietSame, RaiseKept
<1> QED BY <1>4, <1>5, <1>6 DEF ThyWork

LEMMA ThyParkKept ==
    ASSUME NEW p, Ours(p), ThyPark(p)
    PROVE  TurnKept(p)
<1>1. /\ run.condition = "active" /\ job[p].pass /\ Clear /\ ~job[p].gs.rework
      /\ Granted(job[p].gs.exec)
  <2>1. pc[p] = "thyPark"
    BY DEF ThyPark
  <2>2. Granted(job[p].gs.exec)
    BY <2>1, Mine DEF Entitled, UnderGrant
  <2> QED BY <2>1, <2>2, Mine, PassPlaces DEF Interior, Passing, OnPass, InClear, Reworking
<1>2. Same /\ ckpt' = ckpt
  BY QuietSame DEF ThyPark
<1>3. ASSUME NEW r \in Pending, kind[r] = "tool",
             Tx(p, "wait_for_approval", "routeThy", [job[p] EXCEPT !.arg = r])
      PROVE  TurnKept(p)
  <2>0. r \in Review
    BY DEF Pending, Unanswered, Known
  <2>1. PICK j : j = [job[p] EXCEPT !.arg = r]
    OBVIOUS
  <2>2. j \in Job
    BY <2>0, <2>1, Mine, JobTypes
  <2>3. j.arg = r /\ j.gs = job[p].gs /\ j.pass
    BY <1>1, <2>1, Mine DEF Job
  <2>4. Tx(p, "wait_for_approval", "routeThy", j)
    BY <1>3, <2>1
  <2>5. ASSUME NEW i \in Job, i.cmd = "wait_for_approval", i.cont = "routeThy", i.arg = j.arg,
               i.gs = j.gs
        PROVE  Parks(i)
    <3>1. i.arg = r /\ Granted(i.gs.exec) /\ ~i.gs.rework
      BY <1>1, <2>3, <2>5
    <3>2. ClearBut(r)
      BY <1>1 DEF Clear, ClearBut
    <3> QED BY <1>3, <2>0, <2>5, <3>1, <3>2 DEF Parks, Concerns
  <2> QED BY <1>1, <1>2, <2>2, <2>3, <2>4, <2>5, Names, ContNames, PassTxKept
<1>4. CASE Raise(p)
  BY <1>1, <1>2, <1>4, RaiseKept
<1>5. ~AwaitsApproval(run)
  BY <1>1 DEF AwaitsApproval
<1> QED BY <1>3, <1>4, <1>5 DEF ThyPark

LEMMA RouteThyKept ==
    ASSUME NEW p, Ours(p), RouteThy(p)
    PROVE  TurnKept(p)
<1>0. pc[p] = "routeThy" /\ Same
  BY QuietSame DEF RouteThy
<1>1. CASE Passing("routeThy", job[p])
  <2>1. run.condition = "active" /\ job[p].pass /\ Clear /\ ~job[p].gs.rework
    BY <1>1 DEF Passing, OnPass, InClear, Reworking
  <2>2. Enter(p, "mira", job[p].gs)
    BY <2>1 DEF RouteThy, AwaitsApproval
  <2>3. ASSUME NEW j \in Job, j.pass, j.gs = job[p].gs PROVE OnPass("mira", j)
    BY <2>1, <2>3 DEF OnPass, InClear, Reworking
  <2> QED BY <1>0, <2>1, <2>2, <2>3, Mine, Names, EnterKept
<1>2. CASE Waiting("routeThy", job[p])
  <2>1. AwaitsApproval(run) /\ ParkedBy(job[p].gs)
    BY <1>2 DEF Waiting, Parking
  <2>2. EndPass(p)
    BY <2>1 DEF RouteThy
  <2> QED BY <1>0, <2>1, <2>2, EndKept
<1> QED BY <1>0, <1>1, <1>2, Mine, PassPlaces

-----------------------------------------------------------------------------
(* The audit and the findings decision. *)

LEMMA AuditKept ==
    ASSUME NEW p, Ours(p), Mira(p) \/ Audit(p)
    PROVE  TurnKept(p)
<1>1. run.condition = "active" /\ job[p].pass /\ Clear /\ ~job[p].gs.rework
  <2>1. pc[p] \in {"mira", "audit"}
    BY DEF Mira, Audit
  <2> QED BY <2>1, Mine, PassPlaces DEF Interior, Passing, OnPass, InClear, Reworking
<1>2. CASE Mira(p)
  <2>1. Same /\ ckpt' = ckpt
    BY <1>2, QuietSame DEF Mira
  <2>2. CASE Tx(p, "begin_audit", "audit", job[p])
    BY <1>1, <2>1, <2>2, Mine, AdvanceKept, ContNames DEF AdvanceStage, Reworking
  <2>3. CASE Goto(p, "audit")
    <3>1. OnPass("audit", job[p])
      BY <1>1 DEF OnPass, InClear, Reworking
    <3> QED BY <1>1, <2>1, <2>3, <3>1, Mine, PassKept DEF Goto, Step
  <2> QED BY <1>2, <2>2, <2>3 DEF Mira
<1>3. CASE Audit(p)
  <2>1. CASE Enter(p, "gate", job[p].gs) /\ UNCHANGED <<run, parked, kind, open, answers, anchor>>
    <3>1. Same
      BY <2>1 DEF Same
    <3>2. ASSUME NEW j \in Job, j.pass, j.gs = job[p].gs PROVE OnPass("gate", j)
      BY <1>1, <3>2 DEF OnPass, InClear, Reworking
    <3> QED BY <1>1, <2>1, <3>1, <3>2, Mine, Names, EnterKept
  <2>2. CASE Raise(p) /\ Silent
    BY <1>1, <2>2, QuietSame, RaiseKept
  <2> QED BY <1>3, <2>1, <2>2 DEF Audit
<1> QED BY <1>2, <1>3

LEMMA WithVerdictTypes ==
    ASSUME NEW p \in Thread, job[p] \in Job, NEW v \in Verdict
    PROVE  \E j \in Job : /\ j = WithVerdict(p, v) /\ j.gs.verdict = v /\ j.pass = job[p].pass
                          /\ j.gs.rework = job[p].gs.rework
<1>1. PICK gs \in Graph : gs = job[p].gs
  BY JobTypes
<1>2. PICK h \in Graph : h = [gs EXCEPT !.verdict = v]
  BY GraphTypes
<1>3. h.verdict = v /\ h.rework = gs.rework
  BY <1>2 DEF Graph
<1>4. PICK j \in Job : j = [job[p] EXCEPT !.gs = h]
  BY JobTypes
<1>5. j.gs = h /\ j.pass = job[p].pass
  BY <1>4 DEF Job
<1>6. j = WithVerdict(p, v)
  BY <1>1, <1>2, <1>4 DEF WithVerdict
<1> QED BY <1>1, <1>3, <1>5, <1>6

LEMMA FindingsKept ==
    ASSUME NEW p, Ours(p), FindingsGate(p)
    PROVE  TurnKept(p)
<1>1. run.condition = "active" /\ job[p].pass /\ Clear /\ ~job[p].gs.rework
  <2>1. pc[p] = "gate"
    BY DEF FindingsGate
  <2> QED BY <2>1, Mine, PassPlaces DEF Interior, Passing, OnPass, InClear, Reworking
<1>2. "applyReview" \in Step \ {"append", "govern", "recordAnswer"}
  BY DEF Step
<1>3. \A v : ClearBut(v)
  BY <1>1 DEF Clear, ClearBut
<1>4. CASE Goto(p, "applyReview") /\ Silent
  <2>1. OnPass("applyReview", job[p])
    BY <1>1, <1>3 DEF OnPass, InClear, Reworking
  <2> QED BY <1>1, <1>2, <1>4, <2>1, Mine, QuietSame, PassKept DEF Goto
<1>5. ASSUME NEW v \in {"pass", "block"}, Note, At(p, "applyReview", WithVerdict(p, v))
      PROVE  TurnKept(p)
  <2>1. v \in Verdict
    BY Names
  <2>2. PICK j \in Job : j = WithVerdict(p, v) /\ j.gs.verdict = v /\ j.pass /\ ~j.gs.rework
    BY <1>1, <2>1, Mine, WithVerdictTypes
  <2>3. OnPass("applyReview", j)
    BY <1>3, <2>2 DEF OnPass, InClear, Reworking
  <2> QED BY <1>1, <1>2, <1>5, <2>2, <2>3, QuietSame, PassKept
<1>6. ASSUME NEW r \in Review, Ask(r, "findings"), At(p, "applyReview", WithVerdict(p, r))
      PROVE  TurnKept(p)
  <2>1. r \in Verdict
    BY Names
  <2>2. PICK j \in Job : j = WithVerdict(p, r) /\ j.gs.verdict = r /\ j.pass /\ ~j.gs.rework
    BY <1>1, <2>1, Mine, WithVerdictTypes
  <2>3. ClearBut(r)'
    BY <1>1, <1>6, Names, Mine, AskSays
  <2>4. OnPass("applyReview", j)'
    BY <2>2, <2>3 DEF OnPass, InClear, Reworking
  <2> QED BY <1>1, <1>2, <1>6, <2>2, <2>4, Names, AskKept
<1> QED BY <1>4, <1>5, <1>6 DEF FindingsGate

LEMMA ApplyReviewKept ==
    ASSUME NEW p, Ours(p), ApplyReview(p)
    PROVE  TurnKept(p)
<1> DEFINE v == job[p].gs.verdict
<1>1. run.condition = "active" /\ job[p].pass /\ ClearBut(v) /\ ~job[p].gs.rework
  <2>1. pc[p] = "applyReview"
    BY DEF ApplyReview
  <2> QED BY <2>1, Mine, PassPlaces DEF Interior, Passing, OnPass, InClear, Reworking
<1>2. Same /\ ckpt' = ckpt
  BY QuietSame DEF ApplyReview
<1>3. v \in Review => /\ kind[v] \in {"findings", "escalation"}
                      /\ Latest(v) \in {"none", "approved", "rejected"}
                      /\ (Latest(v) = "approved" => answers[v] = <<TRUE>>)
                      /\ (Latest(v) = "none" => ~Answered(v))
  BY Mine, OnceSays DEF SoundGraph, Latest, Ours
<1>4. v \notin Review \/ answers[v] = <<TRUE>> => Clear
  BY <1>1 DEF ClearBut, Clear
<1>5. CASE v = "block" \/ (v \in Review /\ Latest(v) = "rejected")
  <2>0. v = "block" => v \notin Review
    BY ReviewAssumption
  <2>1. Tx(p, "block", "routeGate", job[p])
    BY <1>5, <2>0 DEF ApplyReview
  <2>2. "block" \in Ends /\ run.condition # "terminal"
    BY <1>1 DEF Ends
  <2> QED BY <1>2, <2>1, <2>2, ContNames, Mine, EndTxKept
<1>6. CASE v # "block" /\ v \in Review /\ Latest(v) = "none"
  <2>1. PICK j : j = [job[p] EXCEPT !.arg = v]
    OBVIOUS
  <2>2. j \in Job
    BY <1>6, <2>1, Mine, JobTypes
  <2>3. j.arg = v /\ j.gs = job[p].gs /\ j.pass
    BY <1>1, <2>1, Mine DEF Job
  <2>4. Tx(p, "wait_for_approval", "routeGate", j)
    BY <1>6, <2>1 DEF ApplyReview
  <2>5. ASSUME NEW i \in Job, i.cmd = "wait_for_approval", i.cont = "routeGate", i.arg = j.arg,
               i.gs = j.gs
        PROVE  Parks(i)
    <3>1. i.arg = v /\ i.gs.verdict = v /\ ~i.gs.rework
      BY <1>1, <2>3, <2>5
    <3> QED BY <1>1, <1>3, <1>6, <2>5, <3>1 DEF Parks, Concerns
  <2> QED BY <1>1, <1>2, <2>2, <2>3, <2>4, <2>5, Names, ContNames, PassTxKept
<1>7. CASE v # "block" /\ (v \in Review => Latest(v) = "approved")
  <2>1. Goto(p, "settle")
    BY <1>7 DEF ApplyReview
  <2>2. OnPass("settle", job[p])
    BY <1>1, <1>3, <1>4, <1>7 DEF OnPass, InClear, Reworking
  <2>3. "settle" \in Step \ {"append", "govern", "recordAnswer"}
    BY DEF Step
  <2> QED BY <1>1, <1>2, <2>1, <2>2, <2>3, Mine, PassKept DEF Goto
<1> QED BY <1>3, <1>5, <1>6, <1>7

LEMMA SettleKept ==
    ASSUME NEW p, Ours(p), Settle(p)
    PROVE  TurnKept(p)
<1>1. run.condition = "active" /\ job[p].pass /\ Clear /\ ~job[p].gs.rework
  <2>1. pc[p] = "settle"
    BY DEF Settle
  <2> QED BY <2>1, Mine, PassPlaces DEF Interior, Passing, OnPass, InClear, Reworking
<1>2. ASSUME MayReopen(job[p].gs), Note,
             Tx(p, "reopen", "routeGate",
                [job[p] EXCEPT !.gs.verdict = "none", !.gs.rework = TRUE, !.gs.reopens = @ + 1])
      PROVE  TurnKept(p)
  <2>1. PICK gs \in Graph : gs = job[p].gs
    BY Mine
  <2>2. PICK h : h = [gs EXCEPT !.verdict = "none", !.rework = TRUE, !.reopens = gs.reopens + 1]
    OBVIOUS
  <2>3. h \in Graph
    BY <1>2, <2>1, <2>2, ReopenTypes, GraphTypes
  <2>4. h.rework
    BY <2>2 DEF Graph
  <2>5. PICK j : j = [job[p] EXCEPT !.gs = h]
    OBVIOUS
  <2>6. j \in Job
    BY <2>3, <2>5, Mine, JobTypes
  <2>7. j.gs = h /\ j.pass
    BY <1>1, <2>5, Mine DEF Job
  <2>8. Tx(p, "reopen", "routeGate", j)
    <3>1. j = [job[p] EXCEPT !.gs.verdict = "none", !.gs.rework = TRUE, !.gs.reopens = @ + 1]
      BY <2>1, <2>2, <2>5, Mine DEF Job, Graph
    <3> QED BY <1>2, <3>1
  <2>9. Same /\ ckpt' = ckpt
    BY <1>2, QuietSame
  <2> QED BY <1>1, <2>4, <2>6, <2>7, <2>8, <2>9, ContNames, AdvanceKept DEF AdvanceStage, Reworking
<1>3. ASSUME NEW r \in Review, Ask(r, "escalation"),
             Tx(p, "wait_for_approval", "routeGate", [WithVerdict(p, r) EXCEPT !.arg = r])
      PROVE  TurnKept(p)
  <2>1. r \in Verdict
    BY Names
  <2>2. PICK j \in Job : j = WithVerdict(p, r) /\ j.gs.verdict = r /\ j.pass /\ ~j.gs.rework
    BY <1>1, <2>1, Mine, WithVerdictTypes
  <2>3. PICK i : i = [j EXCEPT !.arg = r]
    OBVIOUS
  <2>4. i \in Job
    BY <2>3, JobTypes
  <2>5. i.arg = r /\ i.gs = j.gs /\ i.pass
    BY <2>2, <2>3 DEF Job
  <2>6. Tx(p, "wait_for_approval", "routeGate", i)
    BY <1>3, <2>2, <2>3
  <2>7. "wait_for_approval" \in Command /\ "routeGate" \in Cont
    BY Names, ContNames
  <2>8. PICK k \in Job : /\ At(p, "read", k) /\ k.cmd = "wait_for_approval" /\ k.cont = "routeGate"
                         /\ k.arg = i.arg /\ k.pass = i.pass /\ k.gs = i.gs
    BY ONLY TxGoes, <2>4, <2>6, <2>7
  <2>9. k.arg = r /\ k.gs.verdict = r /\ ~k.gs.rework /\ k.pass
    BY <2>2, <2>5, <2>8
  <2>10. ClearBut(r)' /\ kind'[r] = "escalation"
    BY <1>1, <1>3, Names, Mine, AskSays
  <2>11. Parks(k)'
    BY <2>8, <2>9, <2>10 DEF Parks, Concerns
  <2>12. OnPass("read", k)'
    BY <2>9, <2>11 DEF OnPass, InClear
  <2>13. "read" \in Step \ {"append", "govern", "recordAnswer"}
    BY DEF Step
  <2> QED BY <1>1, <1>3, <2>8, <2>12, <2>13, Names, AskKept
<1>4. CASE Tx(p, "begin_reporting", "reporting", job[p]) /\ Silent
  BY <1>1, <1>4, Mine, QuietSame, ContNames, AdvanceKept DEF AdvanceStage, Reworking
<1> QED BY <1>2, <1>3, <1>4 DEF Settle

-----------------------------------------------------------------------------
(* Completion. *)

\* A thread at work on a Run that completed may be anywhere behind the completion.
LEMMA FinishedKept ==
    ASSUME NEW p, Ours(p), Same, ckpt' = ckpt, Done,
           NEW s \in Step \ {"append", "govern", "recordAnswer"}, NEW j \in Job,
           At(p, s, j), Completed(s, j)
    PROVE  TurnKept(p)
<1>1. Suits(s, j)
  BY DEF Suits
<1> QED BY <1>1, KeptAt

LEMMA RaiseDone ==
    ASSUME NEW p, Ours(p), Same, ckpt' = ckpt, Done, Raise(p)
    PROVE  TurnKept(p)
<1>1. CASE job[p].pass
  BY <1>1, RaiseKept
<1>2. CASE ~job[p].pass
  BY <1>2, LeaveKept DEF Raise
<1> QED BY <1>1, <1>2

LEMMA ReportKept ==
    ASSUME NEW p, Ours(p), Reporting(p)
    PROVE  TurnKept(p)
<1>1. run.condition = "active" /\ job[p].pass /\ Clear /\ ~job[p].gs.rework
  <2>1. pc[p] = "reporting"
    BY DEF Reporting
  <2> QED BY <2>1, Mine, PassPlaces DEF Interior, Passing, OnPass, InClear, Reworking
<1>2. Same /\ ckpt' = ckpt /\ Tx(p, "complete", "fact", job[p])
  BY QuietSame DEF Reporting
<1> QED BY <1>1, <1>2, Mine, ContNames, AdvanceKept DEF Reworking

LEMMA FactKept ==
    ASSUME NEW p, Ours(p), Fact(p)
    PROVE  TurnKept(p)
<1>1. Done /\ ~job[p].gs.rework
  <2>1. pc[p] \in {"fact", "completeFact"}
    BY DEF Fact
  <2> QED BY <2>1, Mine, PassPlaces DEF Finished, Completed, AfterCompletion
<1>2. Same
  BY QuietSame DEF Fact, Same
<1>3. CASE Goto(p, "routeGate") /\ UNCHANGED ckpt
  <2>1. Completed("routeGate", job[p])
    BY <1>1 DEF Completed, AfterCompletion
  <2>2. "routeGate" \in Step \ {"append", "govern", "recordAnswer"}
    BY DEF Step
  <2> QED BY <1>1, <1>2, <1>3, <2>1, <2>2, Mine, FinishedKept DEF Goto
<1>4. CASE EndPass(p)
  BY <1>1, <1>2, <1>4, EndKept
<1> QED BY <1>3, <1>4 DEF Fact

LEMMA RouteGateKept ==
    ASSUME NEW p, Ours(p), RouteGate(p)
    PROVE  TurnKept(p)
<1> DEFINE gs == job[p].gs
<1>0. /\ pc[p] = "routeGate" /\ Same
      /\ \/ ~gs.rework /\ gs.verdict = "none" /\ Raise(p) /\ UNCHANGED ckpt
         \/ /\ gs.rework \/ gs.verdict # "none"
            /\ (GateTarget(gs) = "end" /\ EndPass(p))
               \/ (GateTarget(gs) # "end" /\ Enter(p, GateTarget(gs), gs))
  BY QuietSame DEF RouteGate
<1>1. ~gs.rework => GateTarget(gs) \in {"complete", "end"}
  BY DEF GateTarget
<1>2. CASE Finished("routeGate", job[p])
  <2>1. Done /\ ~gs.rework
    BY <1>2 DEF Finished, Completed, AfterCompletion
  <2>2. CASE Raise(p) /\ UNCHANGED ckpt
    BY <1>0, <2>1, <2>2, RaiseDone
  <2>3. CASE EndPass(p)
    BY <1>0, <2>1, <2>3, EndKept
  <2>4. CASE Enter(p, "complete", gs)
    <3>1. ASSUME NEW j \in Job, j.gs = gs PROVE Completed("complete", j)
      BY <2>1, <3>1 DEF Completed, AfterCompletion
    <3> QED BY <1>0, <2>1, <2>4, <3>1, Mine, Names, EnterKept
  <2> QED BY <1>0, <1>1, <2>1, <2>2, <2>3, <2>4
<1>3. CASE Passing("routeGate", job[p])
  <2>1. /\ run.condition = "active" /\ job[p].pass
        /\ \/ gs.rework /\ Clear
           \/ /\ ~gs.rework /\ gs.verdict \in Review
              /\ ClearBut(gs.verdict) /\ Answered(gs.verdict)
    BY <1>3 DEF Passing, OnPass
  <2>2. CASE gs.rework /\ Clear
    <3>1. Enter(p, "thy", gs)
      BY <1>0, <2>2 DEF GateTarget
    <3>2. ASSUME NEW j \in Job, j.pass, j.gs = gs PROVE OnPass("thy", j)
      BY <2>2, <3>2 DEF OnPass, InClear, Reworking
    <3> QED BY <1>0, <2>1, <3>1, <3>2, Mine, Names, EnterKept
  <2>3. CASE /\ ~gs.rework /\ gs.verdict \in Review
             /\ ClearBut(gs.verdict) /\ Answered(gs.verdict)
    <3>0. gs.verdict # "none" /\ gs.verdict # "pass"
      BY <2>3, ReviewAssumption
    <3>1. CASE GateTarget(gs) = "complete"
      <4>1. Latest(gs.verdict) = "approved"
        BY <2>3, <3>0, <3>1 DEF GateTarget, ApprovedVerdict
      <4>2. Clear
        BY <2>3, <4>1, OnceSays DEF Ours, ClearBut, Clear
      <4>3. Enter(p, "complete", gs)
        BY <1>0, <3>0, <3>1
      <4>4. ASSUME NEW j \in Job, j.pass, j.gs = gs PROVE OnPass("complete", j)
        BY <2>3, <4>2, <4>4 DEF OnPass, InClear, Reworking
      <4> QED BY <1>0, <2>1, <4>3, <4>4, Mine, Names, EnterKept
    <3>2. CASE GateTarget(gs) = "end"
      <4>1. EndPass(p)
        BY <1>0, <3>0, <3>2
      <4>2. IsEscalation(gs.verdict) \/ Latest(gs.verdict) # "approved"
        BY <2>3, <3>2 DEF GateTarget, ApprovedVerdict
      <4>3. kind[gs.verdict] \in {"findings", "escalation"}
        BY <2>3, Mine DEF SoundGraph
      <4>4. Rejected(gs.verdict) \/ Latest(gs.verdict) = "approved"
        BY <2>3, OnceSays DEF Ours, Once
      <4>5. Lost
        BY <2>1, <2>3, <4>2, <4>3, <4>4 DEF Lost, IsEscalation, FindingsRejected
      <4> QED BY <1>0, <4>1, <4>5, EndKept
    <3> QED BY <1>1, <2>3, <3>1, <3>2
  <2> QED BY <2>1, <2>2, <2>3
<1>4. CASE Waiting("routeGate", job[p])
  <2>1. /\ AwaitsApproval(run) /\ ParkedBy(gs) /\ ~gs.rework /\ parked \in Review
        /\ kind[parked] = "escalation" \/ (kind[parked] = "findings" /\ ~Answered(parked))
    BY <1>4 DEF Waiting, Parking, ParkedBy
  <2>2. gs.verdict = parked
    BY <2>1 DEF ParkedBy, Concerns
  <2>3. gs.verdict # "none" /\ gs.verdict # "pass"
    BY <2>1, <2>2, ReviewAssumption
  <2>4. IsEscalation(gs.verdict) \/ ~ApprovedVerdict(gs.verdict)
    BY <2>1, <2>2 DEF IsEscalation, ApprovedVerdict, Latest
  <2>5. EndPass(p)
    BY <1>0, <2>1, <2>3, <2>4 DEF GateTarget
  <2> QED BY <1>0, <2>1, <2>5, EndKept
<1> QED BY <1>0, <1>2, <1>3, <1>4, Mine, PassPlaces

LEMMA CompleteKept ==
    ASSUME NEW p, Ours(p), Complete(p)
    PROVE  TurnKept(p)
<1>0. pc[p] = "complete" /\ Same /\ ckpt' = ckpt
  BY QuietSame DEF Complete
<1>1. CASE Finished("complete", job[p])
  <2>1. Done /\ ~job[p].gs.rework
    BY <1>1 DEF Finished, Completed, AfterCompletion
  <2>2. CASE Goto(p, "close")
    <3>1. Completed("close", job[p])
      BY <2>1 DEF Completed, AfterCompletion
    <3>2. "close" \in Step \ {"append", "govern", "recordAnswer"}
      BY DEF Step
    <3> QED BY <1>0, <2>1, <2>2, <3>1, <3>2, Mine, FinishedKept DEF Goto
  <2>3. CASE Tx(p, "begin_reporting", "close", job[p])
    <3>1. PICK i \in Job : At(p, "read", i)
      BY <2>3, Mine, Names, ContNames, TxGoes
    <3>2. Completed("read", i)
      BY DEF Completed, AfterCompletion
    <3>3. "read" \in Step \ {"append", "govern", "recordAnswer"}
      BY DEF Step
    <3> QED BY <1>0, <2>1, <3>1, <3>2, <3>3, FinishedKept
  <2> QED BY <2>2, <2>3 DEF Complete
<1>2. CASE Passing("complete", job[p])
  <2>1. run.condition = "active" /\ job[p].pass /\ Clear /\ ~job[p].gs.rework
    BY <1>2 DEF Passing, OnPass, InClear, Reworking
  <2>2. CASE Goto(p, "close")
    <3>1. OnPass("close", job[p])
      BY <2>1 DEF OnPass, InClear, Reworking
    <3>2. "close" \in Step \ {"append", "govern", "recordAnswer"}
      BY DEF Step
    <3> QED BY <1>0, <2>1, <2>2, <3>1, <3>2, Mine, PassKept DEF Goto
  <2>3. CASE Tx(p, "begin_reporting", "close", job[p])
    BY <1>0, <2>1, <2>3, Mine, ContNames, AdvanceKept DEF AdvanceStage, Reworking
  <2> QED BY <2>2, <2>3 DEF Complete
<1> QED BY <1>0, <1>1, <1>2, Mine, PassPlaces

LEMMA CloseKept ==
    ASSUME NEW p, Ours(p), Close(p)
    PROVE  TurnKept(p)
<1>0. pc[p] = "close" /\ Same
  BY QuietSame DEF Close
<1>1. CASE Finished("close", job[p])
  <2>1. Done
    BY <1>1 DEF Finished
  <2>2. EndPass(p)
    BY <2>1, Mine DEF Close
  <2> QED BY <1>0, <2>1, <2>2, EndKept
<1>2. CASE Passing("close", job[p])
  <2>1. run.condition = "active" /\ job[p].pass /\ Clear /\ ~job[p].gs.rework
    BY <1>2 DEF Passing, OnPass, InClear, Reworking
  <2>2. Tx(p, "complete", "completeFact", job[p]) /\ ckpt' = ckpt
    BY <2>1 DEF Close
  <2> QED BY <1>0, <2>1, <2>2, Mine, ContNames, AdvanceKept DEF Reworking
<1> QED BY <1>0, <1>1, <1>2, Mine, PassPlaces

-----------------------------------------------------------------------------
(* The controller. *)

\* What is always allowed, and where the transitions lead.
LEMMA AlwaysAllowed ==
    ASSUME NEW s \in RunRecord
    PROVE  /\ s.condition = "waiting" => "resume" \in Allowed(s)
           /\ s.condition # "terminal" => Ends \subseteq Allowed(s)
<1>1. s.condition = "waiting" => Allowed(s) = {"resume"} \cup NonTerminal
  BY DEF Allowed
<1>2. s.condition = "paused" => Allowed(s) = {"resume"} \cup NonTerminal
  BY DEF Allowed
<1>3. s.condition = "active" => NonTerminal \subseteq Allowed(s)
  <2>1. s.condition = "active" => Allowed(s) = ActiveCommands[s.stage]
    BY DEF Allowed
  <2>2. s.stage \in Stage
    BY DEF RunRecord
  <2>3. \A g \in Stage : NonTerminal \subseteq ActiveCommands[g]
    BY DEF Stage, ActiveCommands, Interrupts
  <2> QED BY <2>1, <2>2, <2>3
<1> QED BY <1>1, <1>2, <1>3 DEF Ends, NonTerminal, RunRecord, Condition

LEMMA NextSays ==
    ASSUME NEW s \in RunRecord, NEW c \in Command
    PROVE  /\ c \in DOMAIN AdvanceStage \cup {"resume"} => NextState(s, c).condition = "active"
           /\ c = "wait_for_approval" => AwaitsApproval(NextState(s, c))
           /\ c = "complete" => NextState(s, c).outcome = "completed"
           /\ c \in Ends => /\ NextState(s, c).condition = "terminal"
                            /\ NextState(s, c).outcome # "completed"
<1>1. /\ \A cond \in Condition : /\ Plain(s, cond) \in RunRecord
                                 /\ Plain(s, cond).condition = cond
  BY DEF Plain, RunRecord, Reason, Outcome
<1>2. {"active", "waiting", "paused", "terminal"} = Condition
  BY DEF Condition
<1>3. CASE c \in DOMAIN AdvanceStage
  <2>1. c \notin {"resume", "wait_for_information", "wait_for_approval", "pause", "complete"} \cup Ends
    BY <1>3 DEF AdvanceStage, Ends
  <2>2. c \notin DOMAIN TerminalOutcome
    BY <1>3 DEF AdvanceStage, TerminalOutcome
  <2>3. NextState(s, c) = [Plain(s, "active") EXCEPT !.stage = AdvanceStage[c]]
    BY <1>3, <2>1, <2>2 DEF NextState
  <2> QED BY <1>1, <1>2, <2>1, <2>3 DEF RunRecord
<1>4. CASE c = "resume"
  <2>1. c \notin DOMAIN AdvanceStage /\ c \notin DOMAIN TerminalOutcome /\ c \notin Ends
    BY <1>4 DEF AdvanceStage, TerminalOutcome, Ends
  <2>2. NextState(s, c) = Plain(s, "active")
    BY <1>4, <2>1 DEF NextState
  <2> QED BY <1>1, <1>2, <1>4, <2>1, <2>2
<1>5. CASE c = "wait_for_approval"
  <2>1. c \notin DOMAIN AdvanceStage /\ c \notin DOMAIN TerminalOutcome /\ c \notin Ends
    BY <1>5 DEF AdvanceStage, TerminalOutcome, Ends
  <2>2. NextState(s, c) = [Plain(s, "waiting") EXCEPT !.reason = "approval"]
    BY <1>5, <2>1 DEF NextState
  <2> QED BY <1>1, <1>2, <1>5, <2>1, <2>2 DEF AwaitsApproval, RunRecord
<1>6. CASE c \in {"complete"} \cup Ends
  <2>1. /\ c \notin DOMAIN AdvanceStage /\ c \in DOMAIN TerminalOutcome
        /\ c \notin {"resume", "wait_for_information", "wait_for_approval", "pause"}
    BY <1>6 DEF AdvanceStage, TerminalOutcome, Ends
  <2>2. NextState(s, c) = [Plain(s, "terminal") EXCEPT !.outcome = TerminalOutcome[c]]
    BY <2>1 DEF NextState
  <2>3. c = "complete" => TerminalOutcome[c] = "completed"
    BY DEF TerminalOutcome
  <2>4. c \in Ends => TerminalOutcome[c] # "completed"
    BY DEF TerminalOutcome, Ends
  <2> QED BY <1>1, <1>2, <2>1, <2>2, <2>3, <2>4 DEF RunRecord, Ends
<1> QED BY <1>3, <1>4, <1>5, <1>6

LEMMA ReadKept ==
    ASSUME NEW p, Ours(p), Read(p)
    PROVE  TurnKept(p)
<1>0. pc[p] = "read" /\ Same /\ ckpt' = ckpt /\ run \in RunRecord
  BY Mine DEF Read, Same, log, TypeOK
<1>1. \/ Finished("read", job[p]) \/ Heard("read", job[p])
      \/ Passing("read", job[p]) \/ Failing("read", job[p])
  BY <1>0, Mine, RequestPlaces
<1>2. CASE job[p].cmd \in Allowed(run)
  <2>1. p \in fresh' /\ At(p, "append", job[p])
    BY <1>2 DEF Read, Goto
  <2>2. ~Finished("read", job[p])
    BY <1>2, Mine DEF Finished, Allowed
  <2>3. Suits("append", job[p])
    <3>1. CASE Heard("read", job[p])
      BY <3>1 DEF Heard, Suits, Answering, OnAnswer
    <3>2. CASE Passing("read", job[p])
      BY <3>2 DEF Passing, Suits, OnPass, InClear
    <3>3. CASE Failing("read", job[p])
      BY <3>3 DEF Failing, Suits, Ending
    <3> QED BY <1>1, <2>2, <3>1, <3>2, <3>3
  <2>4. PICK j \in Job : j = job[p]
    BY Mine
  <2>5. Suits("append", j)'
    BY <1>0, <2>3, <2>4, SameSuits
  <2>6. Fits(p, "append", j)'
    BY <2>1, <2>5 DEF Fits
  <2>7. Once' /\ "append" \in Step
    BY <1>0, SameSays DEF Ours, Step
  <2> QED BY <2>1, <2>4, <2>6, <2>7 DEF TurnKept, Fitting
<1>3. CASE job[p].cmd \notin Allowed(run)
  <2>1. Raise(p)
    BY <1>3 DEF Read
  <2>2. CASE Finished("read", job[p])
    BY <1>0, <2>1, <2>2, RaiseDone DEF Finished
  <2>3. CASE Heard("read", job[p])
    BY <1>0, <1>3, <2>3, AlwaysAllowed DEF Heard, Answering, Held, AwaitsApproval
  <2>4. CASE Passing("read", job[p])
    BY <1>0, <2>1, <2>4, RaiseKept DEF Passing, OnPass
  <2>5. CASE Failing("read", job[p])
    BY <1>0, <1>3, <2>5, AlwaysAllowed DEF Failing, Ending
  <2> QED BY <1>1, <2>2, <2>3, <2>4, <2>5
<1> QED BY <1>2, <1>3

LEMMA AppendKept ==
    ASSUME NEW p, Ours(p), AppendTx(p)
    PROVE  TurnKept(p)
<1> DEFINE c == job[p].cmd
           r == job[p].arg
<1>0. PICK k : k = job[p].cont
  OBVIOUS
<1>1. pc[p] = "append" /\ p \in fresh /\ Won(p)
  BY DEF AppendTx, Ours, Fits, Won
<1>2. /\ run \in RunRecord /\ c \in Command /\ job[p] \in Job /\ k \in Cont /\ k \in Step
      /\ snap[p] = run /\ c \in Allowed(run)
  BY <1>0, <1>1, Mine, JobTypes, ContNames DEF TypeOK, Ours, ControlInv, CasInv
<1>3. /\ run' = NextState(run, c)
      /\ parked' = IF c = "wait_for_approval" THEN r ELSE parked
      /\ anchor' = IF c = "resume" THEN Anchor(r) ELSE anchor
      /\ open' = IF c \in Closing THEN {} ELSE open
      /\ kind' = kind /\ answers' = answers /\ ckpt' = ckpt /\ Continue(p)
  BY <1>1, <1>2 DEF AppendTx
<1>4. /\ \A v : Granted(v)' <=> Granted(v)
      /\ \A v : ClearBut(v)' <=> ClearBut(v)
      /\ Clear' <=> Clear
      /\ \A v : Answered(v)' <=> Answered(v)
      /\ Once'
  BY <1>3 DEF Granted, Approvals, ClearBut, Clear, Binding, Answered, Once, Ours
<1>5. PICK j : j = [NoJob EXCEPT !.pass = job[p].pass, !.gs = job[p].gs]
  OBVIOUS
<1>6. j \in Job /\ j.pass = job[p].pass /\ j.gs = job[p].gs
  <2>1. job[p].pass \in BOOLEAN /\ job[p].gs \in Graph
    BY <1>2, JobTypes
  <2> QED BY <1>5, <2>1, NullTypes DEF Job
<1>7. k # "idle" => At(p, k, j)
  BY <1>0, <1>3, <1>5 DEF Continue
<1>8. ASSUME k \notin {"idle", "append", "govern", "recordAnswer"}, Suits(k, j)'
      PROVE  TurnKept(p)
  BY <1>2, <1>4, <1>6, <1>7, <1>8 DEF TurnKept, Fitting, Fits
<1>9. CASE c \in Ends
  BY <1>2, <1>3, <1>9, NextSays DEF TurnKept, Over
<1>10. CASE Heard("append", job[p])
  <2>1. /\ c = "resume" /\ k = "dispatch" /\ r = parked /\ Released(parked)
        /\ ckpt.next = "end" /\ ParkedBy(ckpt.state)
    BY <1>0, <1>10 DEF Heard, Held, Answering, OnAnswer
  <2>2. run'.condition = "active" /\ parked' = parked /\ anchor' = Anchor(parked)
    BY <1>2, <1>3, <2>1, NextSays
  <2>3. Anchor(parked)' = Anchor(parked)
    BY <1>3, <2>2 DEF Anchor
  <2>4. Released(parked)'
    BY <1>3, <2>1, <2>2 DEF Released, Answered
  <2>5. PICK gs : gs = ckpt.state
    OBVIOUS
  <2>6. ParkedBy(gs)'
    BY <1>3, <1>4, <2>1, <2>2, <2>5 DEF ParkedBy, Concerns
  <2>7. ckpt'.next = "end" /\ ckpt'.state = gs
    BY <1>3, <2>1, <2>5
  <2>8. (ParkedBy(ckpt.state))'
    BY <2>6, <2>7 DEF ParkedBy, Concerns
  <2>9. Suits(k, j)'
    BY <2>1, <2>2, <2>3, <2>4, <2>7, <2>8 DEF Suits
  <2> QED BY <1>8, <2>1, <2>9
<1>11. CASE Passing("append", job[p]) /\ Parks(job[p])
  <2>1. /\ c = "wait_for_approval" /\ ~job[p].gs.rework
        /\ r \in Review /\ ClearBut(r) /\ Concerns(r, job[p].gs)
        /\ \/ k = "routeExec" /\ kind[r] = "execution"
           \/ k = "routeThy" /\ kind[r] = "tool"
           \/ k = "routeGate" /\ \/ kind[r] = "escalation"
                                 \/ kind[r] = "findings" /\ ~Answered(r)
    BY <1>0, <1>11 DEF Parks
  <2>2. AwaitsApproval(run)' /\ parked' = r
    <3>1. AwaitsApproval(NextState(run, c))
      BY <1>2, <2>1, NextSays
    <3> QED BY <1>3, <2>1, <3>1 DEF AwaitsApproval
  <2>3. j.pass
    BY <1>6, <1>11 DEF Passing, OnPass
  <2>4. PICK q : q = r
    OBVIOUS
  <2>5. ParkedBy(j.gs)'
    BY <1>3, <1>4, <1>6, <2>1, <2>2, <2>4 DEF ParkedBy, Concerns
  <2>6. Parking(k, j)'
    <3>1. Answered(parked)' <=> Answered(q)
      BY <1>3, <2>2, <2>4 DEF Answered
    <3> QED BY <1>3, <2>1, <2>2, <2>3, <2>4, <2>5, <3>1 DEF Parking
  <2>7. Suits(k, j)'
    BY <2>2, <2>6 DEF Suits
  <2> QED BY <1>8, <2>1, <2>7
<1>12. CASE Passing("append", job[p]) /\ Advances(job[p])
  <2>1. /\ c \in DOMAIN AdvanceStage \cup {"complete"} /\ Clear
        /\ k \in {"started", "thyWork", "audit", "reporting", "close", "fact", "completeFact",
                  "routeGate"}
        /\ (c = "complete") <=> (k \in {"fact", "completeFact"})
        /\ k = "routeGate" => job[p].gs.rework
        /\ k \notin Reworking => ~job[p].gs.rework
        /\ job[p].pass
    BY <1>0, <1>12 DEF Advances, Passing, OnPass
  <2>2. CASE c = "complete"
    <3>1. run'.outcome = "completed" /\ open' = {}
      BY <1>2, <1>3, <2>2, NextSays DEF Closing, TerminalOutcome
    <3>2. \A q \in Review : Binding(q)' => ~Rejected(q)'
      <4>1. ASSUME NEW q \in Review, Binding(q) PROVE ~Rejected(q)
        BY <2>1, <4>1, OnceSays DEF Ours, Clear
      <4> QED BY <1>3, <4>1 DEF Binding, Rejected
    <3>3. Done'
      BY <3>1, <3>2 DEF Done
    <3>4. Completed(k, j)'
      BY <1>6, <2>1, <2>2 DEF Completed, AfterCompletion, Reworking
    <3>5. Suits(k, j)'
      BY <3>3, <3>4 DEF Suits
    <3> QED BY <1>8, <2>1, <3>5
  <2>3. CASE c \in DOMAIN AdvanceStage /\ c # "complete"
    <3>1. run'.condition = "active"
      BY <1>2, <1>3, <2>3, NextSays
    <3>2. OnPass(k, j)'
      BY <1>4, <1>6, <2>1, <2>3 DEF OnPass, InClear, Reworking
    <3>3. Suits(k, j)'
      BY <3>1, <3>2 DEF Suits
    <3> QED BY <1>8, <2>1, <3>3
  <2> QED BY <2>1, <2>2, <2>3
<1> QED
  <2>1. \/ Heard("append", job[p]) \/ Passing("append", job[p]) \/ Failing("append", job[p])
    BY <1>1, Mine, RequestPlaces
  <2>2. Passing("append", job[p]) => Parks(job[p]) \/ Advances(job[p])
    BY DEF Passing, OnPass
  <2>3. Failing("append", job[p]) => c \in Ends
    BY DEF Failing, Ending
  <2> QED BY <1>9, <1>10, <1>11, <1>12, <2>1, <2>2, <2>3

\* A pass that raised.
LEMMA RaisedKept ==
    ASSUME NEW p, Ours(p), Raised(p)
    PROVE  TurnKept(p)
<1>0. pc[p] = "raised" /\ Same /\ ckpt' = ckpt
  BY QuietSame DEF Raised
<1>1. CASE Finished("raised", job[p])
  <2>1. Done /\ Leave(p)
    BY <1>1, Mine DEF Finished, Raised
  <2> QED BY <1>0, <2>1, LeaveKept
<1>2. CASE Failing("raised", job[p])
  <2>1. run.condition # "terminal"
    BY <1>2 DEF Failing
  <2>2. PICK j \in Job : j = [job[p] EXCEPT !.pass = FALSE]
    BY Mine, JobTypes
  <2>3. Tx(p, "fail", "failVersion", j)
    BY <2>1, <2>2 DEF Raised
  <2>4. "fail" \in Ends
    BY DEF Ends
  <2> QED BY <1>0, <2>1, <2>3, <2>4, ContNames, EndTxKept
<1> QED BY <1>0, <1>1, <1>2, Mine, RequestPlaces

-----------------------------------------------------------------------------
(* A review is answered and the Run resumed. *)

\* A request at work on a Run that waits.
LEMMA HeardKept ==
    ASSUME NEW p, Ours(p), Same, ckpt' = ckpt, Held,
           NEW s \in Step \ {"append", "govern", "recordAnswer"}, NEW j \in Job,
           At(p, s, j), Answering(s, j)
    PROVE  TurnKept(p)
<1>1. Suits(s, j)
  BY DEF Suits
<1> QED BY <1>1, KeptAt

\* A waiting Run is blocked.
LEMMA BlockKept ==
    ASSUME NEW p, Ours(p), Same, ckpt' = ckpt, Held, NEW j \in Job, Tx(p, "block", "idle", j)
    PROVE  TurnKept(p)
<1>1. "block" \in Ends /\ run.condition # "terminal"
  BY DEF Ends, Held, AwaitsApproval
<1> QED BY <1>1, ContNames, EndTxKept

LEMMA HeardSays ==
    ASSUME NEW p, Ours(p),
           pc[p] \in {"freshness", "stale", "checkAnswer", "recordAnswer", "decide", "proceed"}
    PROVE  /\ Held /\ Answering(pc[p], job[p]) /\ parked \in Review /\ ClearBut(parked)
           /\ pc[p] # "stale" => job[p].arg = parked /\ ~job[p].pass
  BY Mine, RequestPlaces DEF Heard, Held, ParkedBy, Answering, OnAnswer

LEMMA FreshnessKept ==
    ASSUME NEW p, Ours(p), Freshness(p) \/ Stale(p)
    PROVE  TurnKept(p)
<1>0. Same /\ ckpt' = ckpt
  BY QuietSame DEF Freshness, Stale
<1>1. CASE Freshness(p)
  <2>1. /\ Held /\ job[p].arg = parked /\ ~job[p].pass
        /\ job[p].cont = "checkAnswer" \/ Released(parked)
    BY <1>1, HeardSays DEF Freshness, Answering
  <2>2. job[p].cont \in {"checkAnswer", "proceed"}
    BY <1>1, Mine DEF Freshness, Ours, ControlInv, PairInv
  <2>3. CASE Goto(p, "stale")
    <3>1. Answering("stale", job[p])
      BY DEF Answering, OnAnswer
    <3>2. "stale" \in Step \ {"append", "govern", "recordAnswer"}
      BY DEF Step
    <3> QED BY <1>0, <2>1, <2>3, <3>1, <3>2, Mine, HeardKept DEF Goto
  <2>4. CASE Goto(p, job[p].cont)
    <3>1. PICK s : s = job[p].cont
      OBVIOUS
    <3>2. Answering(s, job[p])
      BY <2>1, <2>2, <3>1 DEF Answering, OnAnswer
    <3>3. s \in Step \ {"append", "govern", "recordAnswer"}
      BY <2>2, <3>1 DEF Step
    <3> QED BY <1>0, <2>1, <2>4, <3>1, <3>2, <3>3, Mine, HeardKept DEF Goto
  <2> QED BY <1>1, <2>3, <2>4 DEF Freshness
<1>2. CASE Stale(p)
  <2>1. Held
    BY <1>2, HeardSays DEF Stale
  <2>2. Tx(p, "block", "idle", job[p])
    BY <1>2, <2>1 DEF Stale, Held, AwaitsApproval
  <2> QED BY <1>0, <2>1, <2>2, Mine, BlockKept
<1> QED BY <1>1, <1>2

LEMMA CheckKept ==
    ASSUME NEW p, Ours(p), CheckAnswer(p)
    PROVE  TurnKept(p)
<1>0. Same /\ ckpt' = ckpt
  BY QuietSame DEF CheckAnswer
<1>1. Held /\ job[p].arg = parked /\ ~job[p].pass /\ parked \in Review
  BY HeardSays DEF CheckAnswer
<1>2. CASE Leave(p)
  BY <1>0, <1>1, <1>2, LeaveKept
<1>3. CASE ~Answered(parked) /\ Goto(p, "recordAnswer")
  <2>1. PICK j \in Job : j = job[p]
    BY Mine
  <2>2. Suits("recordAnswer", j)
    BY <1>1, <2>1 DEF Suits, Answering, OnAnswer
  <2>3. Suits("recordAnswer", j)'
    BY <1>0, <2>2, SameSuits
  <2>4. j.arg \in Review /\ answers'[j.arg] = <<>>
    BY <1>0, <1>1, <1>3, <2>1 DEF Same, Answered
  <2>5. Fits(p, "recordAnswer", j)'
    BY <2>3, <2>4 DEF Fits
  <2>6. Once' /\ "recordAnswer" \in Step
    BY <1>0, SameSays DEF Ours, Step
  <2> QED BY <1>3, <2>1, <2>5, <2>6 DEF TurnKept, Fitting, Goto
<1> QED BY <1>1, <1>2, <1>3 DEF CheckAnswer

\* A waiting Run waits on while a review that does not bind it, or the awaited one, is answered.
LEMMA HeldOn ==
    ASSUME NEW p \in Thread, TypeOK, Once, Record(p), NEW a \in Review, a = job[p].arg,
           answers[a] = <<>>, Held
    PROVE  Held'
<1>1. /\ run' = run /\ parked' = parked /\ kind' = kind /\ ckpt' = ckpt
      /\ \A v : ClearBut(v) /\ (v = a \/ ~Binding(a)) => ClearBut(v)'
      /\ \A v : Granted(v) => Granted(v)'
  BY RecordSays
<1>2. AwaitsApproval(run) /\ ckpt.next = "end" /\ ParkedBy(ckpt.state)
  BY DEF Held
<1>3. PICK gs : gs = ckpt.state
  OBVIOUS
<1>4. parked \in Review /\ ClearBut(parked) /\ Concerns(parked, gs) /\ ~gs.rework
  BY <1>2, <1>3 DEF ParkedBy
<1>5. parked = a \/ ~Binding(a)
  <2>1. answers[a] # <<TRUE>>
    OBVIOUS
  <2> QED BY <1>4, <2>1 DEF ClearBut
<1>6. PICK v : v = parked
  OBVIOUS
<1>7. ClearBut(v)'
  BY <1>1, <1>4, <1>5, <1>6
<1>8. Concerns(v, gs)'
  BY <1>1, <1>4, <1>6 DEF Concerns
<1>9. parked' \in Review /\ parked' = v
  BY <1>1, <1>4, <1>6
<1>10. ckpt'.next = "end" /\ ckpt'.state = gs /\ AwaitsApproval(run)'
  BY <1>1, <1>2, <1>3 DEF AwaitsApproval
<1>11. ClearBut(parked)' /\ Concerns(parked, ckpt.state)'
  BY <1>7, <1>8, <1>9, <1>10 DEF ClearBut, Binding, Concerns
<1> QED BY <1>4, <1>9, <1>10, <1>11 DEF Held, ParkedBy

LEMMA RecordKept ==
    ASSUME NEW p, Ours(p), RecordAnswer(p)
    PROVE  TurnKept(p)
<1>1. /\ Held /\ job[p].arg = parked /\ ~job[p].pass /\ parked \in Review
      /\ answers[parked] = <<>> /\ Record(p) /\ At(p, "decide", job[p])
  BY HeardSays DEF RecordAnswer, Goto, Ours, Fits
<1>2. PICK j \in Job : j = job[p]
  BY Mine
<1>3. /\ parked' = parked /\ answers'[parked] = <<j.ans>> /\ Once'
  BY <1>1, <1>2, Mine, RecordSays DEF Ours
<1>4. Held'
  BY <1>1, Mine, HeldOn DEF Ours
<1>5. Answering("decide", j)'
  BY <1>1, <1>2, <1>3 DEF Answering, OnAnswer
<1>6. Fits(p, "decide", j)'
  BY <1>4, <1>5 DEF Fits, Suits
<1> QED BY <1>1, <1>2, <1>3, <1>6 DEF TurnKept, Fitting, Step

LEMMA DecideKept ==
    ASSUME NEW p, Ours(p), Decide(p)
    PROVE  TurnKept(p)
<1>0. Same /\ ckpt' = ckpt
  BY QuietSame DEF Decide
<1>1. /\ Held /\ job[p].arg = parked /\ ~job[p].pass /\ parked \in Review
      /\ answers[parked] = <<job[p].ans>>
  BY HeardSays DEF Decide, Answering
<1>2. CASE Leave(p)
  BY <1>0, <1>1, <1>2, LeaveKept
<1>3. CASE (kind[parked] = "tool" \/ job[p].ans) /\ Goto(p, "proceed")
  <2>1. job[p].ans => answers[parked] = <<TRUE>>
    <3>1. job[p].ans \in BOOLEAN
      BY Mine, JobTypes
    <3> SUFFICES ASSUME job[p].ans PROVE answers[parked] = <<TRUE>>
      OBVIOUS
    <3>2. job[p].ans = TRUE
      BY <3>1
    <3> QED BY <1>1, <3>2
  <2>2. Answered(parked)
    <3>1. answers[parked] # <<>>
      BY <1>1
    <3> QED BY <3>1 DEF Answered
  <2>3. Released(parked)
    BY <1>3, <2>1, <2>2 DEF Released
  <2>4. Answering("proceed", job[p])
    BY <1>1, <2>3 DEF Answering, OnAnswer
  <2>5. "proceed" \in Step \ {"append", "govern", "recordAnswer"}
    BY DEF Step
  <2> QED BY <1>0, <1>1, <1>3, <2>4, <2>5, Mine, HeardKept DEF Goto
<1>4. CASE Tx(p, "block", "idle", job[p])
  BY <1>0, <1>1, <1>4, Mine, BlockKept
<1> QED BY <1>1, <1>2, <1>3, <1>4 DEF Decide

LEMMA ProceedKept ==
    ASSUME NEW p, Ours(p), Proceed(p)
    PROVE  TurnKept(p)
<1>0. Same /\ ckpt' = ckpt
  BY QuietSame DEF Proceed
<1>1. Held /\ job[p].arg = parked /\ ~job[p].pass /\ Released(parked)
  BY HeardSays DEF Proceed, Answering
<1>2. PICK i \in Job : /\ At(p, "read", i) /\ i.cmd = "resume" /\ i.cont = "dispatch"
                       /\ i.arg = job[p].arg /\ i.pass = job[p].pass
  <2>1. Tx(p, "resume", "dispatch", job[p]) /\ "resume" \in Command /\ "dispatch" \in Cont
    BY Names, ContNames DEF Proceed
  <2>2. job[p] \in Job
    BY Mine
  <2> QED BY ONLY TxGoes, <2>1, <2>2
<1>3. Answering("read", i)
  BY <1>1, <1>2 DEF Answering, OnAnswer
<1>4. "read" \in Step \ {"append", "govern", "recordAnswer"}
  BY DEF Step
<1> QED BY <1>0, <1>1, <1>2, <1>3, <1>4, HeardKept

\* The pass goes on at the edge behind the node that parked it.
LEMMA DispatchKept ==
    ASSUME NEW p, Ours(p), Dispatch(p)
    PROVE  TurnKept(p)
<1>0. Same /\ ckpt' = ckpt
  BY QuietSame DEF Dispatch
<1>1. /\ run.condition = "active" /\ ckpt.next = "end" /\ ParkedBy(ckpt.state)
      /\ Released(parked) /\ anchor = Anchor(parked)
  BY Mine, RequestPlaces DEF Dispatch
<1>2. PICK gs \in Graph : gs = ckpt.state
  BY Mine DEF TypeOK
<1>3. PICK j \in Job : j = InPass(gs)
  BY InPassTypes
<1>4. j.pass /\ j.gs = gs
  BY <1>3 DEF InPass, NoJob
<1>5. At(p, Anchor(parked), j)
  BY <1>1, <1>2, <1>3 DEF Dispatch
<1>6. /\ parked \in Review /\ ClearBut(parked) /\ Concerns(parked, gs) /\ ~gs.rework
      /\ Answered(parked)
  BY <1>1, <1>2 DEF ParkedBy, Released
<1>7. {"routeExec", "routeGate"} \subseteq Step \ {"append", "govern", "recordAnswer"}
  BY DEF Step
<1>8. CASE kind[parked] \in {"execution", "tool"}
  <2>1. Clear
    BY <1>1, <1>6, <1>8 DEF Released, ClearBut, Clear, Binding
  <2>2. ReleasesThy(gs.exec)
    <3>1. CASE kind[parked] = "execution"
      <4>1. gs.exec = parked /\ HumanOutcome(parked) = "approved"
        BY <1>1, <1>6, <3>1, OnceSays DEF Concerns, Released, Ours
      <4> QED BY <1>6, <4>1 DEF ReleasesThy
    <3>2. CASE kind[parked] = "tool"
      <4>1. Granted(gs.exec)
        BY <1>6, <3>2 DEF Concerns
      <4>2. CASE gs.exec = "pass"
        BY <4>2 DEF ReleasesThy
      <4>3. CASE gs.exec \in Review /\ kind[gs.exec] = "execution"
        <5>1. answers[gs.exec] = <<TRUE>>
          BY <2>1, <4>3 DEF Clear, Binding
        <5>2. HumanOutcome(gs.exec) = "approved"
          BY <4>3, <5>1, OnceSays DEF Ours
        <5> QED BY <4>3, <5>2 DEF ReleasesThy
      <4> QED BY <4>1, <4>2, <4>3 DEF Granted
    <3> QED BY <1>8, <3>1, <3>2
  <2>3. OnPass("routeExec", j)
    BY <1>4, <1>6, <2>1, <2>2 DEF OnPass, InClear, Reworking
  <2>4. Anchor(parked) = "routeExec"
    BY <1>8 DEF Anchor
  <2> QED BY <1>0, <1>1, <1>5, <1>7, <2>3, <2>4, PassKept
<1>9. CASE kind[parked] \notin {"execution", "tool"}
  <2>1. gs.verdict = parked
    BY <1>6, <1>9 DEF Concerns
  <2>2. OnPass("routeGate", j)
    BY <1>4, <1>6, <2>1 DEF OnPass, InClear, Reworking
  <2>3. Anchor(parked) = "routeGate"
    BY <1>9 DEF Anchor
  <2> QED BY <1>0, <1>1, <1>5, <1>7, <2>2, <2>3, PassKept
<1> QED BY <1>8, <1>9

LEMMA GovernKept ==
    ASSUME NEW p, Ours(p), Govern(p)
    PROVE  TurnKept(p)
<1>1. /\ pc[p] = "govern" /\ Record(p) /\ At(p, "idle", NoJob)
      /\ job[p].arg \in Review /\ answers[job[p].arg] = <<>>
  BY DEF Govern, Leave, Ours, Fits
<1>2. PICK a \in Review : a = job[p].arg
  BY <1>1
<1>3. /\ run' = run /\ kind' = kind /\ open' = open
      /\ \A q \in Review \ {a} : answers'[q] = answers[q]
      /\ \A q \in Review : (Answered(q) => Answered(q)') /\ (Rejected(q) => Rejected(q)')
      /\ Once'
  BY <1>1, <1>2, Mine, RecordSays DEF Ours
<1>4. Finished("govern", job[p]) => Done'
  <2>1. SUFFICES ASSUME Done, ~Binding(a) PROVE Done'
    BY <1>2 DEF Finished, Completed
  <2>2. ASSUME NEW q \in Review, Binding(q)' PROVE ~Rejected(q)'
    <3>1. Binding(q) /\ q # a
      BY <1>3, <2>1, <2>2 DEF Binding
    <3> QED BY <1>3, <2>1, <3>1 DEF Done, Rejected
  <2>3. \A q \in open' : ~Binding(q)'
    BY <1>3, <2>1 DEF Done, Binding
  <2> QED BY <1>3, <2>1, <2>2, <2>3 DEF Done
<1>5. Held => Held'
  BY <1>1, <1>2, Mine, HeldOn DEF Ours
<1>6. Lost => Lost'
  BY <1>3 DEF Lost, FindingsRejected
<1>7. Done' \/ Held' \/ Lost'
  BY <1>1, <1>4, <1>5, <1>6, Mine, RequestPlaces
<1>8. Fits(p, "idle", NoJob)'
  BY <1>7 DEF Fits, Suits, Completed, Answering, OnAnswer, AfterCompletion
<1>9. "idle" \in Step
  BY DEF Step
<1> QED BY <1>1, <1>3, <1>8, <1>9, NullTypes DEF TurnKept, Fitting

-----------------------------------------------------------------------------
(* Requests of clients that found no thread at work. *)

LEMMA AnswersKept ==
    ASSUME NEW p, Ours(p), \/ \E a \in BOOLEAN : Resolve(p, a)
                           \/ Resume(p)
    PROVE  TurnKept(p)
<1>0. Same /\ ckpt' = ckpt /\ AwaitsApproval(run) /\ pc[p] = "idle"
  BY QuietSame DEF Resolve, Resume, Client
<1>1. Held
  BY <1>0, Mine, RequestPlaces DEF Lost, AwaitsApproval
<1>2. parked \in Review /\ Concerns(parked, ckpt.state)
  BY <1>1 DEF Held, ParkedBy
<1>3. "freshness" \in Step \ {"append", "govern", "recordAnswer"}
  BY DEF Step
<1>4. ASSUME NEW a \in BOOLEAN, Resolve(p, a)
      PROVE  TurnKept(p)
  <2>1. PICK j \in Job : j = [NoJob EXCEPT !.arg = parked, !.ans = a, !.cont = "checkAnswer"]
    BY Mine, RequestJobs
  <2>2. j.arg = parked /\ ~j.pass /\ j.cont = "checkAnswer"
    BY <2>1 DEF NoJob
  <2>3. Answering("freshness", j)
    BY <2>2 DEF Answering, OnAnswer
  <2>4. At(p, "freshness", j)
    BY <1>4, <2>1 DEF Resolve
  <2> QED BY <1>0, <1>1, <1>3, <2>3, <2>4, HeardKept
<1>5. CASE Resume(p)
  <2>1. PICK j \in Job : j = [NoJob EXCEPT !.arg = parked, !.cont = "proceed"]
    BY Mine, RequestJobs
  <2>2. j.arg = parked /\ ~j.pass /\ j.cont = "proceed"
    BY <2>1 DEF NoJob
  <2>3. \/ /\ kind[parked] = "execution" /\ HumanOutcome(parked) = "approved"
           /\ At(p, "freshness", j)
        \/ Tx(p, "block", "idle", j)
        \/ kind[parked] # "execution" /\ Unanswered = {} /\ At(p, "freshness", j)
    BY <1>5, <2>1 DEF Resume
  <2>4. ASSUME Released(parked), At(p, "freshness", j) PROVE TurnKept(p)
    <3>1. Answering("freshness", j)
      BY <2>2, <2>4 DEF Answering, OnAnswer
    <3> QED BY <1>0, <1>1, <1>3, <2>4, <3>1, HeardKept
  <2>5. CASE kind[parked] = "execution" /\ HumanOutcome(parked) = "approved"
             /\ At(p, "freshness", j)
    <3>1. answers[parked] = <<TRUE>> /\ Answered(parked)
      BY <1>2, <2>5, OnceSays DEF Ours, HumanOutcome
    <3> QED BY <2>4, <2>5, <3>1 DEF Released
  <2>6. CASE Tx(p, "block", "idle", j)
    BY <1>0, <1>1, <2>6, BlockKept
  <2>7. CASE kind[parked] # "execution" /\ Unanswered = {} /\ At(p, "freshness", j)
    <3>1. kind[parked] # "none"
      BY <1>2 DEF Concerns
    <3>2. Answered(parked)
      BY <1>2, <2>7, <3>1 DEF Unanswered, Known, Answered
    <3> QED BY <2>4, <2>7, <3>2 DEF Released
  <2> QED BY <2>3, <2>5, <2>6, <2>7
<1> QED BY <1>4, <1>5

LEMMA CancelKept ==
    ASSUME NEW p, Ours(p), Cancel(p)
    PROVE  TurnKept(p)
<1>1. Same /\ ckpt' = ckpt /\ run.condition # "terminal" /\ Tx(p, "cancel", "idle", NoJob)
  BY QuietSame DEF Cancel
<1>2. "cancel" \in Ends
  BY DEF Ends
<1> QED BY <1>1, <1>2, ContNames, NullTypes, EndTxKept

\* The review of a plan binds nobody.
LEMMA PlanKept ==
    ASSUME NEW p, Ours(p), Plan(p)
    PROVE  TurnKept(p)
<1>0. pc[p] = "idle" /\ Leave(p)
  BY DEF Plan, Client
<1>1. Done \/ Held \/ Lost
  BY <1>0, Mine, RequestPlaces
<1>2. CASE Note
  BY <1>0, <1>1, <1>2, QuietSame, LeaveKept
<1>3. ASSUME NEW r \in Review, Ask(r, "plan")
      PROVE  TurnKept(p)
  <2>1. /\ run' = run /\ parked' = parked /\ answers' = answers /\ ckpt' = ckpt
        /\ kind[r] = "none" /\ kind'[r] = "plan" /\ open' = open \cup {r} /\ Once'
        /\ \A q \in Review \ {r} : kind'[q] = kind[q]
    BY <1>3, Mine, Names, AskSays DEF Ours
  <2>2. \A q \in Review : Binding(q)' <=> Binding(q)
    BY <2>1 DEF Binding
  <2>3. ~Binding(r)'
    BY <2>1 DEF Binding
  <2>4. Done => Done'
    <3>1. ASSUME Done, NEW q \in open' PROVE ~Binding(q)'
      <4>1. CASE q = r
        BY <2>3, <4>1
      <4>2. CASE q # r
        <5>1. q \in open /\ q \in Review
          BY <2>1, <3>1, <4>2, Mine DEF TypeOK
        <5> QED BY <2>2, <3>1, <5>1 DEF Done
      <4> QED BY <4>1, <4>2
    <3>2. ASSUME Done, NEW q \in Review, Binding(q)' PROVE ~Rejected(q)'
      BY <2>1, <2>2, <3>2 DEF Done, Rejected
    <3> QED BY <2>1, <3>1, <3>2 DEF Done
  <2>5. Held => Held'
    <3> SUFFICES ASSUME Held PROVE Held'
      OBVIOUS
    <3>1. PICK gs : gs = ckpt.state
      OBVIOUS
    <3>2. /\ parked \in Review /\ ClearBut(parked) /\ Concerns(parked, gs) /\ ~gs.rework
          /\ ckpt.next = "end" /\ AwaitsApproval(run)
      BY <3>1 DEF Held, ParkedBy
    <3>3. kind'[parked] = kind[parked]
      <4>1. parked # r
        BY <2>1, <3>2 DEF Concerns
      <4> QED BY <2>1, <3>2, <4>1
    <3>4. ClearBut(parked)'
      BY <2>1, <2>2, <3>2 DEF ClearBut
    <3>5. Granted(gs.exec) => Granted(gs.exec)'
      <4>1. Grows
        BY <1>3, Mine, Names, AskGrows
      <4> QED BY <4>1, Kept
    <3>6. Concerns(parked, gs)'
      BY <2>1, <3>2, <3>3, <3>5 DEF Concerns
    <3>7. ckpt'.next = "end" /\ ckpt'.state = gs /\ parked' \in Review /\ AwaitsApproval(run)'
      BY <2>1, <3>1, <3>2 DEF AwaitsApproval
    <3>8. Concerns(parked, ckpt.state)'
      BY <3>6, <3>7 DEF Concerns
    <3> QED BY <3>2, <3>4, <3>7, <3>8 DEF Held, ParkedBy
  <2>6. Lost => Lost'
    <3>1. \A q \in Review : kind[q] \in {"escalation", "findings"} => kind'[q] = kind[q]
      BY <2>1
    <3> QED BY <2>1, <3>1 DEF Lost, FindingsRejected, Answered, Rejected
  <2>7. Fits(p, "idle", NoJob)'
    BY <1>1, <2>4, <2>5, <2>6
       DEF Fits, Suits, Completed, Answering, OnAnswer, AfterCompletion
  <2>8. "idle" \in Step
    BY DEF Step
  <2> QED BY <1>0, <2>1, <2>7, <2>8, NullTypes DEF TurnKept, Fitting, Leave
<1> QED BY <1>2, <1>3 DEF Plan

LEMMA AnswerKept ==
    ASSUME NEW p, Ours(p), NEW r \in Review, NEW a \in BOOLEAN, Answer(p, r, a)
    PROVE  TurnKept(p)
<1>0. pc[p] = "idle" /\ Same /\ ckpt' = ckpt /\ r \in open /\ answers[r] = <<>>
  BY QuietSame DEF Answer, Client, Pending, Unanswered
<1>1. PICK j \in Job : j = [NoJob EXCEPT !.arg = r, !.ans = a]
  BY Mine, RequestJobs
<1>2. j.arg = r /\ At(p, "govern", j)
  BY <1>1 DEF NoJob, Answer
<1>3. Suits("govern", j)
  <2>1. CASE Done
    BY <1>0, <1>2, <2>1 DEF Suits, Completed, AfterCompletion, Done
  <2>2. CASE Held
    BY <2>2 DEF Suits, Answering, OnAnswer
  <2>3. CASE Lost
    BY <2>3 DEF Suits
  <2> QED BY <1>0, <2>1, <2>2, <2>3, Mine, RequestPlaces
<1>4. Suits("govern", j)'
  BY <1>0, <1>3, SameSuits
<1>5. answers'[j.arg] = <<>>
  BY <1>0, <1>2 DEF Same
<1>6. Fits(p, "govern", j)'
  BY <1>2, <1>4, <1>5 DEF Fits
<1>7. Once' /\ "govern" \in Step
  BY <1>0, SameSays DEF Ours, Step
<1> QED BY <1>2, <1>6, <1>7 DEF TurnKept, Fitting

-----------------------------------------------------------------------------

\* Whatever the thread whose turn it is does, it stays the one at work.
LEMMA TurnStep ==
    ASSUME NEW p, Ours(p), Work(p) \/ Requests(p)
    PROVE  TurnKept(p)
<1>1. CASE Pass(p)
  BY <1>1, StartKept, ExecGateKept, ApplyExecKept, RouteExecKept, ThyKept, ThyWorkKept,
     ThyParkKept, RouteThyKept, AuditKept, FindingsKept, ApplyReviewKept, SettleKept, ReportKept,
     FactKept, RouteGateKept, CompleteKept, CloseKept DEF Pass
<1>2. CASE Read(p) \/ AppendTx(p) \/ Raised(p)
  BY <1>2, ReadKept, AppendKept, RaisedKept
<1>3. CASE FailVersion(p) \/ FailFact(p)
  BY <1>3, Mine, PassPlaces DEF FailVersion, FailFact
<1>4. CASE \/ Freshness(p) \/ Stale(p) \/ CheckAnswer(p) \/ RecordAnswer(p) \/ Decide(p)
           \/ Proceed(p) \/ Dispatch(p) \/ Govern(p)
  BY <1>4, FreshnessKept, CheckKept, RecordKept, DecideKept, ProceedKept, DispatchKept, GovernKept
<1>5. CASE Requests(p)
  BY <1>5, AnswersKept, CancelKept, PlanKept, AnswerKept DEF Requests
<1> QED BY <1>1, <1>2, <1>3, <1>4, <1>5 DEF Work

\* A Run that ended stays as it ended.
LEMMA OverStays ==
    ASSUME ControlInv, Over, [Next]_vars
    PROVE  Over'
<1>1. CASE run' = run
  BY <1>1 DEF Over
<1>2. CASE run' # run
  <2>1. PICK p \in Thread : AppendTx(p) /\ Won(p)
    BY <1>2, RunChanges
  <2>2. /\ run \in RunRecord /\ job[p].cmd \in Command /\ job[p].cmd \in Allowed(run)
    BY <2>1, JobTypes DEF ControlInv, TypeOK, CasInv, AppendTx, Won
  <2> QED BY <2>2, Outcomes DEF Over
<1> QED BY <1>1, <1>2

\* When nobody works it may be anybody's turn.
LEMMA IdleTurns ==
    ASSUME NEW p \in Thread, NEW q \in Thread, OnTurn(p), pc[p] = "idle"
    PROVE  OnTurn(q)
<1>1. \A t \in Thread : pc[t] = "idle"
  BY DEF OnTurn
<1>2. Suits("idle", job[p])
  BY DEF OnTurn, Fits
<1>3. Done \/ Held \/ Lost
  BY <1>2, RequestPlaces
<1>4. Suits("idle", job[q])
  BY <1>3, IdleSuits
<1> QED BY <1>1, <1>4 DEF OnTurn, Fits

LEMMA TurnsInit == Init => TurnsInv
<1> SUFFICES ASSUME Init PROVE TurnsInv
  OBVIOUS
<1>1. Once /\ Clear
  BY DEF Init, Once, Clear, Binding
<1>2. /\ pc[Submitter] = "start" /\ \A q \in Thread \ {Submitter} : pc[q] = "idle"
      /\ job[Submitter] = [NoJob EXCEPT !.pass = TRUE]
  BY ThreadAssumption DEF Init
<1>3. PICK j : j = job[Submitter]
  OBVIOUS
<1>4. j.pass /\ ~j.gs.rework
  BY <1>2, <1>3 DEF NoJob, InitialGraph
<1>5. run.condition = "active"
  BY DEF Init, InitialRun
<1>6. OnPass("start", j)
  BY <1>1, <1>4 DEF OnPass, InClear, Reworking
<1>7. OnTurn(Submitter)
  BY <1>2, <1>3, <1>5, <1>6 DEF OnTurn, Fits, Suits
<1> QED BY <1>1, <1>7, ThreadAssumption DEF TurnsInv

LEMMA TurnsStep ==
    ASSUME Patient, ControlInv, AuthorityInv, TurnsInv, [Next]_vars
    PROVE  TurnsInv'
<1>1. CASE Over
  BY <1>1, OverStays DEF TurnsInv
<1>2. CASE UNCHANGED vars
  <2>1. /\ Same /\ ckpt' = ckpt /\ pc' = pc /\ job' = job /\ fresh' = fresh /\ run' = run
        /\ answers' = answers
    BY <1>2 DEF vars, log, cas, Same
  <2>2. Over => Over'
    BY <2>1 DEF Over
  <2>3. ASSUME Once, NEW p \in Thread, OnTurn(p) PROVE TurnsInv'
    <3>1. PICK s, j : s = pc[p] /\ j = job[p]
      OBVIOUS
    <3>2. Fits(p, s, j) /\ Suits(s, j)'
      BY <2>1, <2>3, <3>1, SameSuits DEF OnTurn, Fits
    <3>3. Fits(p, s, j)'
      BY <2>1, <3>2 DEF Fits
    <3>4. Fits(p, pc[p], job[p])'
      BY <2>1, <3>1, <3>3 DEF Fits, Suits, Completed, Answering, OnPass, Parking, Ending, Parks,
                              Advances
    <3>5. OnTurn(p)'
      BY <2>1, <2>3, <3>4 DEF OnTurn
    <3> QED BY <2>1, <2>3, <3>5, SameSays DEF TurnsInv
  <2> QED BY <2>2, <2>3 DEF TurnsInv
<1>3. ASSUME ~Over, NEW q \in Thread, Work(q) \/ Requests(q)
      PROVE  TurnsInv'
  <2>1. PICK p \in Thread : OnTurn(p)
    BY <1>3 DEF TurnsInv
  <2>2. OnTurn(q)
    <3>1. CASE q = p
      BY <2>1, <3>1
    <3>2. CASE q # p
      <4>1. pc[q] = "idle"
        BY <2>1, <3>2 DEF OnTurn
      <4>2. ~Work(q)
        BY <4>1 DEF Work, Pass, Read, AppendTx, Start, Started, ExecGate, ApplyExec, RouteExec, Thy,
                    ThyWork, ThyPark, RouteThy, Mira, Audit, FindingsGate, ApplyReview, Settle,
                    Reporting, Fact, RouteGate, Complete, Close, Raised, FailVersion, FailFact,
                    Freshness, Stale, CheckAnswer, RecordAnswer, Decide, Proceed, Dispatch, Govern
      <4>3. Requests(q)
        BY <1>3, <4>2
      <4>4. Client(q)
        BY <4>3 DEF Requests, Resolve, Resume, Cancel, Plan, Answer
      <4>5. pc[p] = "idle"
        BY <4>4 DEF Client
      <4> QED BY <2>1, <4>5, IdleTurns
    <3> QED BY <3>1, <3>2
  <2>3. Ours(q)
    BY <1>3, <2>2 DEF Ours, OnTurn, TurnsInv
  <2>4. TurnKept(q)
    BY <1>3, <2>3, TurnStep
  <2>5. CASE Over'
    BY <2>5 DEF TurnsInv
  <2>6. CASE Once' /\ Fitting(q)
    <3>1. PICK s \in Step, j \in Job : At(q, s, j) /\ Fits(q, s, j)'
      BY <2>6 DEF Fitting
    <3>2. /\ pc' = [pc EXCEPT ![q] = s] /\ job' = [job EXCEPT ![q] = j]
          /\ pc \in [Thread -> Step] /\ job \in [Thread -> Job]
      BY <3>1 DEF At, ControlInv, TypeOK
    <3>3. pc'[q] = s /\ job'[q] = j /\ \A t \in Thread \ {q} : pc'[t] = pc[t]
      BY <3>2
    <3>4. \A t \in Thread \ {q} : pc'[t] = "idle"
      BY <2>2, <3>3 DEF OnTurn
    <3>5. Fits(q, pc[q], job[q])'
      BY <3>1, <3>3 DEF Fits, Suits, Completed, Answering, OnPass, Parking, Ending, Parks, Advances
    <3> QED BY <2>6, <3>4, <3>5 DEF TurnsInv, OnTurn
  <2> QED BY <2>4, <2>5, <2>6 DEF TurnKept
<1> QED BY <1>1, <1>2, <1>3 DEF Next

\* Where clients wait for each other, at most one thread works on a Run that may still go on, and
\* it finds what its place takes for granted; each review is answered at most once.
THEOREM TurnsInvariance ==
    ASSUME Patient
    PROVE  Spec => []TurnsInv
<1>1. Init => TurnsInv
  BY TurnsInit
<1>2. ControlInv /\ AuthorityInv /\ TurnsInv /\ [Next]_vars => TurnsInv'
  BY TurnsStep
<1> QED
  BY <1>1, <1>2, ControlInvariance, AuthorityInvariance, PTL DEF Spec

\* A human's rejection of an execution start or of the findings is final for the Run, where
\* clients wait for each other.
THEOREM RejectionHoldsAlways ==
    ASSUME Patient
    PROVE  Spec => []RejectionHolds
<1>1. TurnsInv /\ ControlInv => RejectionHolds
  <2> SUFFICES ASSUME TurnsInv, ControlInv, run.outcome = "completed",
                      NEW r \in Review, kind[r] \in {"execution", "findings"}
               PROVE  ~Rejected(r)
    BY DEF RejectionHolds
  <2>1. run.condition = "terminal" /\ ~Over
    BY DEF ControlInv, OutcomeInv, Over
  <2>2. PICK p \in Thread : Suits(pc[p], job[p])
    BY <2>1 DEF TurnsInv, OnTurn, Fits
  <2>3. Done
    BY <2>1, <2>2 DEF Suits, Held, Lost, AwaitsApproval
  <2> QED BY <2>3 DEF Done, Binding
<1> QED
  BY <1>1, TurnsInvariance, ControlInvariance, PTL

\* Clients that take turns leave a Run active with nobody at work on it in two ways only.
THEOREM LostOnlyInTwoWaysAlways ==
    ASSUME Patient
    PROVE  Spec => []LostOnlyInTwoWays
<1>1. TurnsInv /\ ControlInv => LostOnlyInTwoWays
  <2> SUFFICES ASSUME TurnsInv, ControlInv, run.condition = "active", NobodyWorks
               PROVE  \/ \E r \in Review : kind[r] = "escalation" /\ Answered(r)
                      \/ FindingsRejected
    BY DEF LostOnlyInTwoWays
  <2>1. PICK p \in Thread : Suits("idle", job[p])
    BY DEF TurnsInv, Over, OnTurn, Fits, NobodyWorks
  <2>2. run.outcome = "none"
    BY DEF ControlInv, OutcomeInv
  <2>3. Lost
    BY <2>1, <2>2, RequestPlaces DEF Done, Held, AwaitsApproval
  <2> QED BY <2>3 DEF Lost
<1> QED
  BY <1>1, TurnsInvariance, ControlInvariance, PTL

=============================================================================
