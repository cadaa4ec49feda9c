----------------------------- MODULE RunControl -----------------------------
(***************************************************************************)
(* One Run behind the HTTP API with its default inline dispatcher.  The    *)
(* thread that created the Run executes the graph; approve, reject and     *)
(* resume requests execute it again inside their own thread.  All of them  *)
(* append to the Run's event log, where a lifecycle transition names the   *)
(* log version it was computed from (compare and swap) and every other     *)
(* event is appended unconditionally.                                      *)
(*                                                                         *)
(* A step of a thread is what it does between two log accesses: a read of  *)
(* the folded log, one append, or a read of the graph checkpoint.          *)
(***************************************************************************)
EXTENDS RunState, Integers, Sequences

CONSTANTS Thread, Submitter, \* request threads, and the one that creates the Run
          Review,            \* identities of human-review decisions (a bound)
          None,
          Request,           \* what clients send
          MaxReopens,        \* RuntimeState.max_reopens
          Patient            \* TRUE: clients wait until no thread is at work

ASSUME ThreadAssumption  == Submitter \in Thread
ASSUME ReviewAssumption  == None \notin Review /\ {"none", "pass", "block"} \cap Review = {}
ASSUME RequestAssumption == Request \subseteq
                                {"approve", "reject", "resume", "cancel", "plan", "answer"}
ASSUME BoundAssumption   == MaxReopens \in Nat /\ Patient \in BOOLEAN

VARIABLES run,        \* the transition events of the log, folded
          parked,     \* the review named by the latest wait_for_approval
          kind,       \* kind[r]: what review r is about, "none" until the Gate records it
          open,       \* reviews requested since the lifecycle last closed the pending ones
          answers,    \* answers[r]: the human.approval events naming r, in log order
          anchor,     \* the node the latest resume event selects
          audited,    \* an audit.completed event exists
          facts,      \* how many run.completed and run.failed events exist
          ckpt,       \* the graph checkpoint: state and the node that runs next
          fresh,      \* threads whose last log read is still the whole log
          snap,       \* snap[p]: the run state that thread p read
          pc, job     \* where thread p is, and its locals

log  == <<run, parked, kind, open, answers, anchor, audited, facts>>
cas  == <<fresh, snap>>
vars == <<log, ckpt, cas, pc, job>>

Kind    == {"execution", "tool", "findings", "escalation", "plan"}
Verdict == {"none", "pass", "block"} \cup Review
Node    == {"start", "execGate", "thy", "mira", "gate", "complete"}
Graph   == [verdict : Verdict, exec : Verdict, rework : BOOLEAN, reopens : 0 .. MaxReopens]

InitialGraph == [verdict |-> "none", exec |-> "none", rework |-> FALSE, reopens |-> 0]
NoJob == [cmd |-> "start", cont |-> "idle", arg |-> None, ans |-> FALSE, pass |-> FALSE,
          gs |-> InitialGraph]

Init == /\ run = InitialRun
        /\ parked = None
        /\ kind = [r \in Review |-> "none"]
        /\ open = {}
        /\ answers = [r \in Review |-> <<>>]
        /\ anchor = "routeGate"
        /\ audited = FALSE
        /\ facts = [completed |-> 0, failed |-> 0]
        /\ ckpt = [next |-> "start", state |-> InitialGraph]
        /\ fresh = {}
        /\ snap = [p \in Thread |-> InitialRun]
        /\ pc = [p \in Thread |-> IF p = Submitter THEN "start" ELSE "idle"]
        /\ job = [p \in Thread |-> IF p = Submitter THEN [NoJob EXCEPT !.pass = TRUE] ELSE NoJob]

-----------------------------------------------------------------------------
(* Folds over the log. *)

Known      == {r \in Review : kind[r] # "none"}
Unanswered == {r \in Known : answers[r] = <<>>}
Pending    == open \cap Unanswered           \* pending_approvals

Answered(r) == answers[r] # <<>>
Rejected(r) == \E i \in DOMAIN answers[r] : ~answers[r][i]
\* Seeded: an answer is taken for an approval.
AnyAnswer(r) == IF Answered(r) THEN "approved" ELSE "none"
\* human_approval_outcome: any rejection wins.  _approval_outcome: the last answer wins.
HumanOutcome(r) == IF ~Answered(r) THEN "none" ELSE IF Rejected(r) THEN "rejected" ELSE "approved"
Latest(r)   == IF ~Answered(r) THEN "none"
               ELSE IF answers[r][Len(answers[r])] THEN "approved" ELSE "rejected"

\* Seeded: an answered review counts as approved.
AnsweredVerdict(v) == v \in Review /\ Answered(v)
ApprovedVerdict(v) == v \in Review /\ Latest(v) = "approved"

-----------------------------------------------------------------------------
(* How a thread moves on. *)

At(p, step, j) == pc' = [pc EXCEPT ![p] = step] /\ job' = [job EXCEPT ![p] = j]
InPass(gs)     == [NoJob EXCEPT !.pass = TRUE, !.gs = gs]
Goto(p, step)  == At(p, step, job[p])
Leave(p)       == At(p, "idle", NoJob)
\* Seeded: a refused or conflicting transition is ignored.
Ignore(p)      == IF job[p].cont = "idle" THEN Leave(p) ELSE Goto(p, job[p].cont)
\* An exception: inside a graph pass the dispatcher catches it, elsewhere the request fails.
Raise(p)       == IF job[p].pass THEN At(p, "raised", InPass(InitialGraph)) ELSE Leave(p)
\* Ask RunController for a transition and go on with `next` once it is recorded.
Tx(p, c, next, j) == At(p, "read", [j EXCEPT !.cmd = c, !.cont = next])

Silent  == UNCHANGED <<log, ckpt, cas>>
Appended == fresh' = {} /\ UNCHANGED <<snap, ckpt>>
\* An event no variable of this model folds.
Note    == Appended /\ UNCHANGED log

\* policy.decision and human.approval_requested of one new review.
Ask(r, k) == /\ kind[r] = "none"
             /\ kind' = [kind EXCEPT ![r] = k]
             /\ open' = open \cup {r}
             /\ Appended
             /\ UNCHANGED <<run, parked, answers, anchor, audited, facts>>

Checkpoint(next, gs) == ckpt' = [next |-> next, state |-> gs]
EndPass(p)           == Checkpoint("end", job[p].gs) /\ Leave(p)
Enter(p, node, gs)   == Checkpoint(node, gs) /\ At(p, node, InPass(gs))

-----------------------------------------------------------------------------
(* RunController: read and replay the log, then append at the version read. *)

Read(p) == /\ pc[p] = "read"
           /\ IF job[p].cmd \in Allowed(run)
                 THEN /\ snap' = [snap EXCEPT ![p] = run]
                      /\ fresh' = fresh \cup {p}
                      /\ Goto(p, "append")
                 ELSE /\ Raise(p)
                      /\ UNCHANGED cas
           /\ UNCHANGED <<log, ckpt>>

Anchor(r) == IF kind[r] \in {"execution", "tool"} THEN "routeExec" ELSE "routeGate"

\* lifecycle_closure: these commands end the pass or the Run a review was asked in.
Closing == {"begin_audit", "begin_reporting", "reopen"} \cup DOMAIN TerminalOutcome

Continue(p) == IF job[p].cont = "idle" THEN Leave(p)
               ELSE At(p, job[p].cont, [NoJob EXCEPT !.pass = job[p].pass, !.gs = job[p].gs])

\* Seeded: the append does not compare the log version.
WonAlways(p) == p \in Thread
Won(p) == p \in fresh

AppendTx(p) ==
    /\ pc[p] = "append"
    /\ IF Won(p)
          THEN /\ run' = NextState(snap[p], job[p].cmd)
               /\ parked' = IF job[p].cmd = "wait_for_approval" THEN job[p].arg ELSE parked
               /\ anchor' = IF job[p].cmd = "resume" THEN Anchor(job[p].arg) ELSE anchor
               /\ open' = IF job[p].cmd \in Closing THEN {} ELSE open
               /\ fresh' = {}
               /\ UNCHANGED <<kind, answers, audited, facts>>
               /\ Continue(p)
          ELSE /\ fresh' = fresh \ {p}
               /\ UNCHANGED log
               /\ Raise(p)
    /\ snap' = [snap EXCEPT ![p] = InitialRun]
    /\ UNCHANGED ckpt

-----------------------------------------------------------------------------
(* The graph pass. *)

Start(p) == /\ pc[p] = "start"
            /\ IF run.stage = "created" THEN Tx(p, "start", "started", job[p])
                                        ELSE Goto(p, "started")
            /\ Silent

Started(p) == /\ pc[p] = "started"
              /\ Enter(p, "execGate", job[p].gs)
              /\ UNCHANGED <<log, cas>>

WithExec(p, v)    == [job[p] EXCEPT !.gs.exec = v]
WithVerdict(p, v) == [job[p] EXCEPT !.gs.verdict = v]

ParkedOnStart == IF parked = None THEN FALSE ELSE kind[parked] = "execution"

\* execution_gate_state: the review the Run was last parked on is used again, or the Gate decides.
ExecGate(p) ==
    /\ pc[p] = "execGate"
    /\ \/ /\ ParkedOnStart
          /\ At(p, "applyExec", WithExec(p, parked))
          /\ Silent
       \/ /\ ~ParkedOnStart
          /\ \/ \E v \in {"pass", "block"} : Note /\ At(p, "applyExec", WithExec(p, v))
             \/ \E r \in Review : Ask(r, "execution") /\ At(p, "applyExec", WithExec(p, r))

ApplyExec(p) ==
    LET v == job[p].gs.exec IN
    /\ pc[p] = "applyExec"
    /\ IF run.condition \in {"terminal", "waiting"} \/ v = "pass"
          THEN Goto(p, "routeExec")
          ELSE CASE v = "block" -> Tx(p, "block", "routeExec", job[p])
                 [] v \in Review /\ HumanOutcome(v) = "rejected" -> Tx(p, "block", "routeExec", job[p])
                 [] v \in Review /\ HumanOutcome(v) = "none" ->
                        Tx(p, "wait_for_approval", "routeExec", [job[p] EXCEPT !.arg = v])
                 [] OTHER -> Goto(p, "routeExec")
    /\ Silent

\* Seeded: an approved execution review does not release THY.
ReleasesOnPass(v) == v = "pass"
ReleasesThy(v) == v = "pass" \/ (v \in Review /\ HumanOutcome(v) = "approved")

RouteExec(p) ==
    LET v == job[p].gs.exec IN
    /\ pc[p] = "routeExec"
    /\ \/ run.condition = "active" /\ v = "none" /\ Raise(p) /\ UNCHANGED ckpt
       \/ run.condition = "active" /\ ReleasesThy(v) /\ Enter(p, "thy", job[p].gs)
       \/ /\ run.condition # "active" \/ (v # "none" /\ ~ReleasesThy(v))
          /\ EndPass(p)
    /\ UNCHANGED <<log, cas>>

Thy(p) == /\ pc[p] = "thy"
          /\ IF run.stage = "planning" THEN Tx(p, "begin_execution", "thyWork", job[p])
                                       ELSE Goto(p, "thyWork")
          /\ Silent

ReworkTaken(p) == [job[p] EXCEPT !.gs.rework = FALSE]

\* THY's own steps: it finishes, stops at a tool call a human must answer, or fails.
ThyWork(p) ==
    /\ pc[p] = "thyWork"
    /\ \/ Note /\ At(p, "routeThy", ReworkTaken(p))
       \/ \E r \in Review : Ask(r, "tool") /\ At(p, "thyPark", ReworkTaken(p))
       \/ /\ \E r \in Pending : kind[r] = "tool"
          /\ Note
          /\ At(p, "thyPark", ReworkTaken(p))
       \/ Note /\ Raise(p)

\* _park_for_tool_review
ThyPark(p) ==
    /\ pc[p] = "thyPark"
    /\ \/ AwaitsApproval(run) /\ Goto(p, "routeThy")
       \/ /\ ~AwaitsApproval(run)
          /\ \/ \E r \in Pending :
                    /\ kind[r] = "tool"
                    /\ Tx(p, "wait_for_approval", "routeThy", [job[p] EXCEPT !.arg = r])
             \/ (\A r \in Pending : kind[r] # "tool") /\ Raise(p)
    /\ Silent

RouteThy(p) == /\ pc[p] = "routeThy"
               /\ IF AwaitsApproval(run) THEN EndPass(p) ELSE Enter(p, "mira", job[p].gs)
               /\ UNCHANGED <<log, cas>>

Mira(p) == /\ pc[p] = "mira"
           /\ IF run.stage \in {"executing", "experimenting"}
                 THEN Tx(p, "begin_audit", "audit", job[p])
                 ELSE Goto(p, "audit")
           /\ Silent

Audit(p) ==
    /\ pc[p] = "audit"
    /\ \/ /\ audited' = TRUE
          /\ fresh' = {}
          /\ Enter(p, "gate", job[p].gs)
          /\ UNCHANGED <<run, parked, kind, open, answers, anchor, facts, snap>>
       \/ Raise(p) /\ Silent

-----------------------------------------------------------------------------
(* The Gate node: one findings decision and its consequence. *)

FindingsGate(p) ==
    /\ pc[p] = "gate"
    /\ \/ /\ ApprovedVerdict(job[p].gs.verdict)
          /\ Goto(p, "applyReview")
          /\ Silent
       \/ /\ ~ApprovedVerdict(job[p].gs.verdict)
          /\ \/ \E v \in {"pass", "block"} : Note /\ At(p, "applyReview", WithVerdict(p, v))
             \/ \E r \in Review : Ask(r, "findings") /\ At(p, "applyReview", WithVerdict(p, r))

ApplyReview(p) ==
    LET v == job[p].gs.verdict IN
    /\ pc[p] = "applyReview"
    /\ CASE v = "block" \/ (v \in Review /\ Latest(v) = "rejected") ->
              Tx(p, "block", "routeGate", job[p])
         [] v \in Review /\ Latest(v) = "none" ->
              Tx(p, "wait_for_approval", "routeGate", [job[p] EXCEPT !.arg = v])
         [] OTHER -> Goto(p, "settle")
    /\ Silent

\* Seeded: one reopen too many.
MayReopenOnceMore(gs) == gs.reopens <= MaxReopens
\* can_reopen's budget
MayReopen(gs) == gs.reopens < MaxReopens

\* The findings ask for rework that may start, for rework that may not, or for neither.
Settle(p) ==
    /\ pc[p] = "settle"
    /\ \/ /\ MayReopen(job[p].gs)
          /\ Note
          /\ Tx(p, "reopen", "routeGate",
                [job[p] EXCEPT !.gs.verdict = "none", !.gs.rework = TRUE, !.gs.reopens = @ + 1])
       \/ /\ job[p].gs.reopens > 0 \/ MaxReopens = 0
          /\ \E r \in Review :
                /\ Ask(r, "escalation")
                /\ Tx(p, "wait_for_approval", "routeGate",
                      [WithVerdict(p, r) EXCEPT !.arg = r])
       \/ Tx(p, "begin_reporting", "reporting", job[p]) /\ Silent

Reporting(p) == pc[p] = "reporting" /\ Tx(p, "complete", "fact", job[p]) /\ Silent

\* run.completed: once from the Gate node, and from the complete node unless it is there.
Fact(p) ==
    /\ pc[p] \in {"fact", "completeFact"}
    /\ IF pc[p] = "fact" \/ facts.completed = 0
          THEN /\ facts' = [facts EXCEPT !.completed = @ + 1]
               /\ fresh' = {}
               /\ UNCHANGED <<run, parked, kind, open, answers, anchor, audited, snap>>
          ELSE UNCHANGED <<log, cas>>
    /\ IF pc[p] = "fact" THEN Goto(p, "routeGate") /\ UNCHANGED ckpt ELSE EndPass(p)

\* Seeded: an approved review is not looked at.
GateTargetOnPass(gs) ==
    IF gs.rework THEN "thy" ELSE IF gs.verdict = "pass" THEN "complete" ELSE "end"

IsEscalation(v) == v \in Review /\ kind[v] = "escalation"

\* route: an approved escalation ends the pass too.
GateTarget(gs) ==
    IF gs.rework THEN "thy"
    ELSE IF ~IsEscalation(gs.verdict) /\ (gs.verdict = "pass" \/ ApprovedVerdict(gs.verdict))
         THEN "complete"
         ELSE "end"

RouteGate(p) ==
    LET gs == job[p].gs IN
    /\ pc[p] = "routeGate"
    /\ \/ ~gs.rework /\ gs.verdict = "none" /\ Raise(p) /\ UNCHANGED ckpt
       \/ /\ gs.rework \/ gs.verdict # "none"
          /\ IF GateTarget(gs) = "end" THEN EndPass(p) ELSE Enter(p, GateTarget(gs), gs)
    /\ UNCHANGED <<log, cas>>

Complete(p) == /\ pc[p] = "complete"
               /\ IF run.stage = "reporting" THEN Goto(p, "close")
                                             ELSE Tx(p, "begin_reporting", "close", job[p])
               /\ Silent

Close(p) == /\ pc[p] = "close"
            /\ IF run.condition = "terminal"
                  THEN EndPass(p)
                  ELSE Tx(p, "complete", "completeFact", job[p]) /\ UNCHANGED ckpt
            /\ UNCHANGED <<log, cas>>

-----------------------------------------------------------------------------
(* A pass that raised: RunService.fail, unless the Run already ended. *)

Raised(p) == /\ pc[p] = "raised"
             /\ IF run.condition = "terminal"
                   THEN Leave(p)
                   ELSE Tx(p, "fail", "failVersion", [job[p] EXCEPT !.pass = FALSE])
             /\ Silent

FailVersion(p) == /\ pc[p] = "failVersion"
                  /\ fresh' = fresh \cup {p}
                  /\ Goto(p, "failFact")
                  /\ UNCHANGED <<log, ckpt, snap>>

FailFact(p) == /\ pc[p] = "failFact"
               /\ IF Won(p)
                     THEN /\ facts' = [facts EXCEPT !.failed = @ + 1]
                          /\ fresh' = {}
                          /\ UNCHANGED <<run, parked, kind, open, answers, anchor, audited>>
                     ELSE UNCHANGED <<log, fresh>>
               /\ Leave(p)
               /\ UNCHANGED <<ckpt, snap>>

-----------------------------------------------------------------------------
(* Requests. *)

Client(p) == pc[p] = "idle" /\ (Patient => \A q \in Thread : pc[q] = "idle")

\* resolve_approval: the review answered is the one the Run is parked on.
Resolve(p, approved) ==
    /\ (IF approved THEN "approve" ELSE "reject") \in Request
    /\ Client(p)
    /\ AwaitsApproval(run)
    /\ At(p, "freshness", [NoJob EXCEPT !.arg = parked, !.ans = approved, !.cont = "checkAnswer"])
    /\ Silent

\* resume of a Run that waits for an approval answered elsewhere.
Resume(p) ==
    LET j == [NoJob EXCEPT !.arg = parked, !.cont = "proceed"] IN
    /\ "resume" \in Request
    /\ Client(p)
    /\ AwaitsApproval(run)
    /\ \/ /\ kind[parked] = "execution"
          /\ \/ HumanOutcome(parked) = "approved" /\ At(p, "freshness", j)
             \/ HumanOutcome(parked) = "rejected" /\ Tx(p, "block", "idle", j)
       \/ /\ kind[parked] # "execution"
          /\ Unanswered = {}
          /\ At(p, "freshness", j)
    /\ Silent

\* _enforce_audit_freshness: what changed since the audit is the environment's choice.
Freshness(p) ==
    /\ pc[p] = "freshness"
    /\ \/ /\ ~audited \/ kind[job[p].arg] = "tool"
          /\ Goto(p, job[p].cont)
          /\ Silent
       \/ audited /\ Note /\ Goto(p, job[p].cont)
       \/ audited /\ Note /\ Goto(p, "stale")

Stale(p) == /\ pc[p] = "stale"
            /\ IF run.condition = "terminal" THEN Leave(p) ELSE Tx(p, "block", "idle", job[p])
            /\ Silent

\* Gate.resolve_pending_approval reads the log, and appends the answer if none is there.
CheckAnswer(p) == /\ pc[p] = "checkAnswer"
                  /\ IF Answered(job[p].arg) THEN Leave(p) ELSE Goto(p, "recordAnswer")
                  /\ Silent

Record(p) == /\ answers' = [answers EXCEPT ![job[p].arg] = Append(@, job[p].ans)]
             /\ fresh' = {}
             /\ UNCHANGED <<run, parked, kind, open, anchor, audited, facts, ckpt, snap>>

RecordAnswer(p) == pc[p] = "recordAnswer" /\ Record(p) /\ Goto(p, "decide")

Decide(p) ==
    LET r == job[p].arg IN
    /\ pc[p] = "decide"
    /\ IF kind[r] = "execution" /\ (HumanOutcome(r) = "approved") # job[p].ans THEN Leave(p)
       ELSE IF kind[r] = "tool" \/ job[p].ans THEN Goto(p, "proceed")
       ELSE Tx(p, "block", "idle", job[p])
    /\ Silent

Proceed(p) == pc[p] = "proceed" /\ Tx(p, "resume", "dispatch", job[p]) /\ Silent

\* InlineDispatcher.resume: the node the checkpoint names, or the edge out of the anchor.
Dispatch(p) ==
    /\ pc[p] = "dispatch"
    /\ At(p, IF ckpt.next = "end" THEN anchor ELSE ckpt.next,
          InPass(ckpt.state))
    /\ Silent

Cancel(p) == /\ "cancel" \in Request
             /\ Client(p)
             /\ run.condition # "terminal"
             /\ Tx(p, "cancel", "idle", NoJob)
             /\ Silent

\* POST plan: the Gate decides on the phase plan, and may ask a human about it.
Plan(p) == /\ "plan" \in Request
           /\ Client(p)
           /\ Note \/ \E r \in Review : Ask(r, "plan")
           /\ Leave(p)

\* The governance route answers any pending review and changes nothing else.
Answer(p, r, approved) == /\ "answer" \in Request
                          /\ Client(p)
                          /\ r \in Pending
                          /\ At(p, "govern", [NoJob EXCEPT !.arg = r, !.ans = approved])
                          /\ Silent

Govern(p) == pc[p] = "govern" /\ Record(p) /\ Leave(p)

-----------------------------------------------------------------------------

Pass(p) == \/ Start(p) \/ Started(p) \/ ExecGate(p) \/ ApplyExec(p) \/ RouteExec(p)
           \/ Thy(p) \/ ThyWork(p) \/ ThyPark(p) \/ RouteThy(p) \/ Mira(p) \/ Audit(p)
           \/ FindingsGate(p) \/ ApplyReview(p) \/ Settle(p) \/ Reporting(p) \/ Fact(p)
           \/ RouteGate(p) \/ Complete(p) \/ Close(p)

Work(p) == \/ Read(p) \/ AppendTx(p) \/ Pass(p) \/ Raised(p) \/ FailVersion(p) \/ FailFact(p)
           \/ Freshness(p) \/ Stale(p) \/ CheckAnswer(p) \/ RecordAnswer(p) \/ Decide(p)
           \/ Proceed(p) \/ Dispatch(p) \/ Govern(p)

Requests(p) == \/ \E a \in BOOLEAN : Resolve(p, a)
           \/ Resume(p)
           \/ Cancel(p)
           \/ Plan(p)
           \/ \E r \in Review, a \in BOOLEAN : Answer(p, r, a)

Next == \E p \in Thread : Work(p) \/ Requests(p)

Spec == Init /\ [][Next]_vars

-----------------------------------------------------------------------------
(* Fairness: threads are scheduled, and clients that wait for each other still get to answer *)
(* the review a Run waits on and to resume a Run whose review was answered elsewhere.        *)

LiveSpec == /\ Spec
            /\ \A p \in Thread : WF_vars(Work(p))
            /\ SF_vars(\E p \in Thread, a \in BOOLEAN : Resolve(p, a))
            /\ SF_vars(\E p \in Thread : Resume(p))

-----------------------------------------------------------------------------
(* Properties. *)

Step == {"idle", "read", "append", "start", "started", "execGate", "applyExec", "routeExec",
         "thy", "thyWork", "thyPark", "routeThy", "mira", "audit", "gate", "applyReview",
         "settle", "reporting", "fact", "routeGate", "complete", "close", "completeFact",
         "raised", "failVersion", "failFact", "freshness", "stale", "checkAnswer",
         "recordAnswer", "decide", "proceed", "dispatch", "govern"}
Cont == {"idle", "started", "routeExec", "thyWork", "routeThy", "audit", "routeGate",
         "reporting", "fact", "close", "completeFact", "failVersion", "checkAnswer", "proceed",
         "dispatch"}
Job  == [cmd : Command, cont : Cont, arg : Review \cup {None}, ans : BOOLEAN, pass : BOOLEAN,
         gs : Graph]

\* Every variable has its type: the Run's record, the folded events, the checkpoint, the
\* threads' locals; in particular no pass carries more reopens than max_reopens.
TypeOK == /\ run \in RunRecord
          /\ parked \in Review \cup {None}
          /\ kind \in [Review -> Kind \cup {"none"}]
          /\ open \subseteq Review
          /\ answers \in [Review -> Seq(BOOLEAN)]
          /\ anchor \in {"routeGate", "routeExec"}
          /\ audited \in BOOLEAN
          /\ facts \in [completed : Nat, failed : Nat]
          /\ ckpt \in [next : Node \cup {"end"}, state : Graph]
          /\ fresh \subseteq Thread
          /\ snap \in [Thread -> RunRecord]
          /\ pc \in [Thread -> Step]
          /\ job \in [Thread -> Job]

\* The history any interleaving of requests and graph passes writes is one the state machine
\* replays: every transition appended was legal in the state the whole log before it folds to.
Machine == INSTANCE RunMachine
HistoryReplays == Machine!Spec

\* run.completed and run.failed are appended after their transition, in another log access:
\* each is written at most once, and only about a Run that really ended that way, whatever a
\* cancel, a block or another pass did in between.
FactsAgree == /\ facts.completed <= 1 /\ facts.failed <= 1
              /\ facts.completed = 1 => run.outcome = "completed"
              /\ facts.failed = 1 => run.outcome = "failed"

Approvals(r) == {i \in DOMAIN answers[r] : answers[r][i]}

\* A Run completes only by a pass whose own findings decision passed, or was a review of the
\* findings or of their rework that a human approved: no tool call, execution or plan review,
\* no checkpoint another pass left and no resume target leads there.
CompletionAuthorised ==
    [][run.outcome # "completed" /\ run'.outcome = "completed"
       => \E p \in Thread :
             /\ pc[p] = "append" /\ job[p].cmd = "complete"
             /\ LET v == job[p].gs.verdict IN
                   \/ v = "pass"
                   \/ /\ v \in Review
                      /\ kind[v] \in {"findings", "escalation"}
                      /\ Approvals(v) # {}]_vars

\* THY works only under an execution decision that passed, or that a human approved.
ThyAuthorised ==
    \A p \in Thread : pc[p] \in {"thy", "thyWork", "thyPark"} =>
        LET v == job[p].gs.exec IN
        v = "pass" \/ (v \in Review /\ kind[v] = "execution" /\ Approvals(v) # {})

\* A human's rejection of an execution start or of the findings is final for the Run.
RejectionHolds == \A r \in Review :
    kind[r] \in {"execution", "findings"} /\ Rejected(r) => run.outcome # "completed"

NobodyWorks == \A p \in Thread : pc[p] = "idle"

\* An active Run has a thread at work on it, for resume refuses an active Run: one nobody works
\* on can only be cancelled. Clients that take turns leave it so in two ways only: after they
\* answer the escalation of a rework, or reject findings on the governance route and resume.
FindingsRejected == \E r \in Review : kind[r] = "findings" /\ Rejected(r)
LostOnlyInTwoWays ==
    run.condition = "active" /\ NobodyWorks =>
        \/ \E r \in Review : kind[r] = "escalation" /\ Answered(r)
        \/ FindingsRejected

\* With clients that answer and resume, every Run ends, reaches the escalation of a rework, or
\* has findings a human rejected.
EveryRunSettles ==
    <>(\/ run.condition = "terminal"
       \/ \E r \in Review : kind[r] = "escalation"
       \/ FindingsRejected)
=============================================================================
