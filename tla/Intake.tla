------------------------------- MODULE Intake -------------------------------
(* From the creation of a Run to its execution gate: passes of the graph interview    *)
(* for missing facts, let MIRA assess the risk, and classify it; clients answer        *)
(* questions, answer reviews, resume and cancel, each request executing the graph in   *)
(* its own thread. A step is one access to the log or the checkpoint.                  *)
EXTENDS Interview, RunState

CONSTANTS
    Thread, Submitter,      \* requests at work at once, and the one that created the Run
    Patient,                \* whether clients wait until no thread is at work
    MaxFaults               \* bound on reads and appends that raise

ASSUME IntakeAssumption ==
    /\ Submitter \in Thread
    /\ Patient \in BOOLEAN /\ MaxFaults \in Nat

VARIABLES
    run,        \* the transitions of the log, folded
    parked,     \* the review the latest park for approval names
    profile,    \* the profile recorded last
    minted,     \* profile identities given out
    asked,      \* the questions, in the order of the log
    reviews,    \* the reviews requested
    audit,      \* the evidence of preflights
    classified, \* the profiles whose risk was classified
    ckpt,       \* the node the checkpoint runs next
    job,        \* where each thread is, and its locals
    current,    \* threads that saw the latest transition
    lost,       \* a RESUME or FAIL raised since the latest transition, and nobody follows it up
    faults

vars == <<run, parked, lost, profile, minted, asked, reviews, audit, classified, ckpt, job,
          current, faults>>

interview == <<profile, minted, asked>>
evidence  == <<audit, classified>>
life      == <<run, parked, lost>>

Node == {"interview", "preflight", "classify", "gate", "end"}
\* The interview of a Run that has no profile yet.
Unrecorded == Profile(None, {})

Free == [at |-> "idle", pass |-> FALSE, seen |-> Initial, new |-> Initial,
         question |-> None, about |-> Limit, review |-> None, next |-> "idle"]
InNode(n) == [Free EXCEPT !.at = n, !.pass = TRUE]

Is(t, at) == job[t].at = at
Do(t, j)  == job' = [job EXCEPT ![t] = j]
Go(t, at) == Do(t, [job[t] EXCEPT !.at = at])
\* An exception: it fails the Run of a pass, and only the request otherwise, or the failing.
Raise(t)  == IF job[t].pass /\ ~Is(t, "failing") THEN Go(t, "failing") ELSE Do(t, Free)

Init ==
    /\ run = NextState(InitialRun, "start") /\ parked = None
    /\ profile = Unrecorded /\ minted = 1 /\ asked = <<>> /\ reviews = <<>>
    /\ audit = <<>> /\ classified = {}
    /\ ckpt = "interview"
    /\ job = [t \in Thread |-> IF t = Submitter THEN InNode("interview") ELSE Free]
    /\ current = {} /\ lost = FALSE /\ faults = 0

Transition(c) ==
    c \in Allowed(run) /\ run' = NextState(run, c) /\ current' = {} /\ lost' = FALSE
Stays == UNCHANGED <<run, current, lost>>

AwaitsInformation == run.condition = "waiting" /\ run.reason = "information"
Waiting == AwaitsInformation \/ AwaitsApproval(run)

-----------------------------------------------------------------------------
(* The interview node: RiskInterviewService.begin. *)

Enter(t, n) == ckpt' = n /\ Do(t, InNode(n))
EndPass(t)  == ckpt' = "end" /\ Do(t, Free)

\* The latest profile is read, the initial one recorded when there is none.
Begin(t) ==
    /\ Is(t, "interview")
    /\ profile' = IF profile = Unrecorded THEN Initial ELSE profile
    /\ Do(t, [job[t] EXCEPT !.seen = profile',
                            !.at = IF profile' = Initial /\ asked = <<>> THEN "extract" ELSE "ask"])
    /\ UNCHANGED <<life, minted, asked, reviews, evidence, ckpt, current, faults>>

\* _apply_context: the model states one more missing fact, or no more.
Extract(t) ==
    /\ Is(t, "extract")
    /\ \/ \E f \in Missing(job[t].seen) :
            /\ minted' = minted + 1
            /\ profile' = Profile(minted', job[t].seen.facts \cup {f})
            /\ Do(t, [job[t] EXCEPT !.seen = profile'])
       \/ Go(t, "ask") /\ UNCHANGED <<profile, minted>>
    /\ UNCHANGED <<life, asked, reviews, evidence, ckpt, current, faults>>

Ask(t) ==
    /\ Is(t, "ask")
    /\ LET seen == job[t].seen IN
       \/ Missing(seen) = {} /\ Go(t, "route")
       \/ /\ Missing(seen) # {} /\ Pending(asked) # None
          /\ Do(t, [job[t] EXCEPT !.question = Pending(asked), !.at = "wait"])
       \/ /\ Missing(seen) # {} /\ Pending(asked) = None
          /\ Go(t, IF LimitReached(asked, NextField(seen)) THEN "escalate" ELSE "question")
    /\ UNCHANGED <<life, interview, reviews, evidence, ckpt, current, faults>>

\* _request_question, after the model phrased the question or the follow-up.
AppendQuestion(t, f) ==
    /\ asked' = Append(asked, Question(f, job[t].seen))
    /\ Do(t, [job[t] EXCEPT !.question = Len(asked'), !.at = "wait"])
    /\ UNCHANGED <<life, profile, minted, reviews, evidence, ckpt, current, faults>>

AskNext(t) == Is(t, "question") /\ AppendQuestion(t, NextField(job[t].seen))

\* _ensure_waiting_for_information: MiraControlPlane.handle records the decision and takes
\* the Run's version into the context, then RunController.transition checks it.
After(t) == IF job[t].pass THEN "route" ELSE "resume"

Wait(t) ==
    /\ Is(t, "wait")
    /\ IF AwaitsInformation THEN Go(t, After(t)) /\ UNCHANGED current
       ELSE IF Waiting THEN Raise(t) /\ UNCHANGED current
       ELSE Go(t, "park") /\ current' = current \cup {t}
    /\ UNCHANGED <<life, interview, reviews, evidence, ckpt, faults>>

Park(t) ==
    /\ Is(t, "park")
    /\ IF t \in current /\ "wait_for_information" \in Allowed(run)
       THEN Transition("wait_for_information") /\ Go(t, After(t))
       ELSE Raise(t) /\ Stays
    /\ UNCHANGED <<parked, interview, reviews, evidence, ckpt, faults>>

\* _escalate_question_limit.
Escalate(t) ==
    /\ Is(t, "escalate")
    /\ IF Resolved(reviews, Limit) \/ Unanswered(reviews, Limit)
       THEN Go(t, "route")
       ELSE Do(t, [job[t] EXCEPT !.at = "request", !.about = Limit, !.next = "route"])
    /\ UNCHANGED <<life, interview, reviews, evidence, ckpt, current, faults>>

\* MiraControlPlane.handle of a request for approval: policy GOV-006 asks a human.
RequestReview(t) ==
    /\ Is(t, "request")
    /\ reviews' = Append(reviews, Request(job[t].about))
    /\ Do(t, [job[t] EXCEPT !.at = "parkReview", !.review = Len(reviews')])
    /\ UNCHANGED <<life, interview, evidence, ckpt, current, faults>>

\* RunController.park_for_review.
ParkForReview(t) ==
    /\ Is(t, "parkReview")
    /\ IF "wait_for_approval" \in Allowed(run)
       THEN /\ Transition("wait_for_approval")
            /\ parked' = job[t].review
            /\ Go(t, job[t].next)
       ELSE Raise(t) /\ UNCHANGED <<life, current>>
    /\ UNCHANGED <<interview, reviews, evidence, ckpt, faults>>

\* route_after_interview.
RouteInterview(t) ==
    /\ Is(t, "route")
    /\ IF Waiting THEN EndPass(t) ELSE Enter(t, "preflight")
    /\ UNCHANGED <<life, interview, reviews, evidence, current, faults>>

-----------------------------------------------------------------------------
(* The preflight and classification nodes. *)

\* MiraSubgraph.preflight: the evidence of an earlier pass is restored, never repeated.
Preflight(t) ==
    /\ Is(t, "preflight")
    /\ IF AuditStart(audit, profile) = None
       THEN /\ audit' = Append(audit, Mark("started", profile, FALSE))
            /\ Do(t, [job[t] EXCEPT !.seen = profile, !.at = "assess"])
       ELSE /\ UNCHANGED audit
            /\ IF Assessment(audit, profile) = None THEN Raise(t)
               ELSE Do(t, [job[t] EXCEPT !.about = Assessment(audit, profile), !.at = "uncertain"])
    /\ UNCHANGED <<life, interview, reviews, classified, ckpt, current, faults>>

Assess(t) ==
    /\ Is(t, "assess")
    /\ \E u \in BOOLEAN : audit' = Append(audit, Mark("assessed", job[t].seen, u))
    /\ Do(t, [job[t] EXCEPT !.about = Len(audit'), !.at = "bind"])
    /\ UNCHANGED <<life, interview, reviews, classified, ckpt, current, faults>>

Bind(t) ==
    /\ Is(t, "bind")
    /\ audit' = Append(audit, Mark("bound", job[t].seen, FALSE))
    /\ Go(t, "uncertain")
    /\ UNCHANGED <<life, interview, reviews, classified, ckpt, current, faults>>

\* _handle_risk_uncertainty: one attempt is the bound, so an uncertain assessment escalates.
HandleUncertainty(t) ==
    /\ Is(t, "uncertain")
    /\ Do(t, [job[t] EXCEPT !.next = "route2",
                !.at = IF /\ audit[job[t].about].uncertain
                          /\ ~Resolved(reviews, job[t].about)
                          /\ ~Waiting
                       THEN "request" ELSE "route2"])
    /\ UNCHANGED <<life, interview, reviews, evidence, ckpt, current, faults>>

\* Seeded bug: the edge behind the preflight is unconditional.
RouteOn(t) ==
    /\ Is(t, "route2") /\ Enter(t, "classify")
    /\ UNCHANGED <<life, interview, reviews, evidence, current, faults>>

\* route_after_preflight.
RoutePreflight(t) ==
    /\ Is(t, "route2")
    /\ IF Waiting THEN EndPass(t) ELSE Enter(t, "classify")
    /\ UNCHANGED <<life, interview, reviews, evidence, current, faults>>

\* RiskInterviewService.classify, once per profile.
Classify(t) ==
    /\ Is(t, "classify")
    /\ IF profile \in classified THEN Enter(t, "gate")
       ELSE Do(t, [job[t] EXCEPT !.seen = profile, !.at = "classifying"]) /\ UNCHANGED ckpt
    /\ UNCHANGED <<life, interview, reviews, evidence, current, faults>>

Classified(t) ==
    /\ Is(t, "classifying")
    /\ classified' = classified \cup {job[t].seen}
    /\ Go(t, "toGate")
    /\ UNCHANGED <<life, interview, reviews, audit, ckpt, current, faults>>

ToGate(t) ==
    /\ Is(t, "toGate") /\ Enter(t, "gate")
    /\ UNCHANGED <<life, interview, reviews, evidence, current, faults>>

\* The pass goes on to the execution gate, where RunControl takes over.
Leave(t) ==
    /\ Is(t, "gate")
    /\ Do(t, Free)
    /\ UNCHANGED <<life, interview, reviews, evidence, ckpt, current, faults>>

-----------------------------------------------------------------------------
(* Requests. *)

Idle == \A t \in Thread : Is(t, "idle")
\* A request that executes the graph.
Receive(t) == Is(t, "idle") /\ (Patient => Idle)

\* RunService.answer_risk_interview and RiskInterviewService.answer, up to the judgment: a
\* call of a model, for which the profile and the question read here are kept.
Answer(t) ==
    /\ Receive(t)
    /\ AwaitsInformation /\ profile # Unrecorded
    /\ Pending(asked) # None /\ asked[Pending(asked)].profile = profile.id
    /\ Do(t, [Free EXCEPT !.seen = profile, !.question = Pending(asked), !.at = "judge"])
    /\ UNCHANGED <<life, interview, reviews, evidence, ckpt, current, faults>>

\* The answer is recorded: it states the fact, or is found sufficient and does not (a
\* placeholder), or needs a follow-up unless the limits are reached.
Judge(t) ==
    /\ Is(t, "judge")
    /\ asked' = [asked EXCEPT ![job[t].question].answers = @ + 1]
    /\ LET f == asked[job[t].question].field IN
       \/ \E stated \in SUBSET {f} :
            /\ minted' = minted + 1
            /\ Do(t, [job[t] EXCEPT !.new = Profile(minted', job[t].seen.facts \cup stated),
                                    !.at = "record"])
       \/ /\ Go(t, IF LimitReached(asked, f) THEN "resume" ELSE "followUp")
          /\ UNCHANGED minted
    /\ UNCHANGED <<life, profile, reviews, evidence, ckpt, current, faults>>

Record(t) ==
    /\ Is(t, "record")
    /\ profile' = job[t].new
    /\ Go(t, "resume")
    /\ UNCHANGED <<life, minted, asked, reviews, evidence, ckpt, current, faults>>

FollowUp(t) == Is(t, "followUp") /\ AppendQuestion(t, asked[job[t].question].field)

ParkedAnswer == IF parked = None THEN "absent" ELSE reviews[parked].answer

\* RunService.resume. A Run that waits for an answer is refused.
Resume(t) ==
    /\ Receive(t)
    /\ \/ AwaitsInformation /\ Pending(asked) = None /\ Do(t, [Free EXCEPT !.at = "resume"])
       \/ /\ AwaitsApproval(run) /\ ParkedAnswer \in {"yes", "no"}
          /\ Do(t, [Free EXCEPT !.at = IF ParkedAnswer = "yes" THEN "resume" ELSE "block"])
    /\ UNCHANGED <<life, interview, reviews, evidence, ckpt, current, faults>>

Respond(r, answer) == reviews' = [reviews EXCEPT ![r].answer = answer]

\* RunService.resolve_approval.
Resolve(t) ==
    /\ Receive(t)
    /\ AwaitsApproval(run) /\ ParkedAnswer = "none"
    /\ \/ Respond(parked, "yes") /\ Do(t, [Free EXCEPT !.at = "resume"])
       \/ Respond(parked, "no") /\ Do(t, [Free EXCEPT !.at = "block"])
    /\ UNCHANGED <<life, interview, evidence, ckpt, current, faults>>

\* The governance route records the answer of a pending review and does nothing else.
Govern(t) ==
    /\ Is(t, "idle")
    /\ \E r \in DOMAIN reviews : \E answer \in {"yes", "no"} :
         reviews[r].answer = "none" /\ Respond(r, answer)
    /\ UNCHANGED <<life, interview, evidence, ckpt, job, current, faults>>

Cancel(t) ==
    /\ Is(t, "idle")
    /\ Transition("cancel")
    /\ UNCHANGED <<parked, interview, reviews, evidence, ckpt, job, faults>>

\* RunController.advance of the request's RESUME or BLOCK.
ResumeRun(t) ==
    /\ Is(t, "resume")
    /\ IF "resume" \in Allowed(run) THEN Transition("resume") /\ Go(t, "dispatch")
       ELSE Raise(t) /\ Stays
    /\ UNCHANGED <<parked, interview, reviews, evidence, ckpt, faults>>

\* Seeded bug: a graph that reached its end is not restarted.
DispatchAtCheckpoint(t) ==
    /\ Is(t, "dispatch")
    /\ IF ckpt = "end" THEN EndPass(t) ELSE Enter(t, ckpt)
    /\ UNCHANGED <<life, interview, reviews, evidence, current, faults>>

\* InlineDispatcher.resume: where the checkpoint stands, or behind the start node.
Dispatch(t) ==
    /\ Is(t, "dispatch")
    /\ Enter(t, IF ckpt = "end" THEN "interview" ELSE ckpt)
    /\ UNCHANGED <<life, interview, reviews, evidence, current, faults>>

BlockRun(t) ==
    /\ Is(t, "block")
    /\ IF "block" \in Allowed(run) THEN Transition("block") ELSE Stays
    /\ Do(t, Free)
    /\ UNCHANGED <<parked, interview, reviews, evidence, ckpt, faults>>

\* RunService.fail, after the dispatcher caught what a pass raised.
Fail(t) ==
    /\ Is(t, "failing")
    /\ IF "fail" \in Allowed(run) THEN Transition("fail") ELSE Stays
    /\ Do(t, Free)
    /\ UNCHANGED <<parked, interview, reviews, evidence, ckpt, faults>>

\* A read or an append raises, or an append is refused because another event came between its
\* reading of the log and the write. It raises before the event is in the log; or, at the place
\* behind the step, after it (secure_file and _rebuild_projection, behind log.append). What
\* raises at "dispatch" is a RESUME that is in the log, and at "failing" a FAIL that is not.
Fault(t) ==
    /\ faults < MaxFaults /\ faults' = faults + 1
    /\ ~Is(t, "idle") /\ ~Is(t, "gate")
    /\ Raise(t)
    /\ lost' = (lost \/ Is(t, "dispatch") \/ Is(t, "failing"))
    /\ UNCHANGED <<run, parked, interview, reviews, evidence, ckpt, current>>

-----------------------------------------------------------------------------

Interviewing(t) ==
    Begin(t) \/ Extract(t) \/ Ask(t) \/ AskNext(t) \/ Wait(t) \/ Park(t) \/ Escalate(t)
      \/ RequestReview(t) \/ ParkForReview(t) \/ RouteInterview(t)
Assessing(t) ==
    Preflight(t) \/ Assess(t) \/ Bind(t) \/ HandleUncertainty(t) \/ RoutePreflight(t)
      \/ Classify(t) \/ Classified(t) \/ ToGate(t) \/ Leave(t)
Answering(t) ==
    Judge(t) \/ Record(t) \/ FollowUp(t) \/ ResumeRun(t) \/ Dispatch(t) \/ BlockRun(t) \/ Fail(t)
Working(t) == Interviewing(t) \/ Assessing(t) \/ Answering(t)
Requesting(t) == Answer(t) \/ Resume(t) \/ Resolve(t) \/ Govern(t) \/ Cancel(t)

Next == \E t \in Thread : Working(t) \/ Requesting(t) \/ Fault(t)

Spec == Init /\ [][Next]_vars

\* A thread at work is scheduled; what a Run waits for comes from some client in the end.
LiveSpec ==
    /\ Spec
    /\ \A t \in Thread : WF_vars(Working(t))
    /\ SF_vars(\E t \in Thread : Answer(t))
    /\ SF_vars(\E t \in Thread : Resume(t))
    /\ SF_vars(\E t \in Thread : Resolve(t))

-----------------------------------------------------------------------------
(* Properties. *)

\* The Run has left its intake.
Ended == run.condition = "terminal" \/ ckpt = "gate"

\* The one dead end: an active Run that no thread executes and resume refuses, so that only a
\* cancellation ends it. Its RESUME was durable and raised, so the request ended before the
\* dispatch (advance in resume, resolve_approval and answer_risk_interview); or its pass raised
\* and the FAIL was refused or raised too, which the dispatcher only logs (RunService.fail).
Abandoned == lost /\ run.condition = "active"

\* When no thread is at work, some request other than a cancellation takes the Run on: a Run
\* that waits for information has a question that answer accepts, or none and resume goes
\* through (has_pending_question); one that waits for approval names its review. Whatever read
\* or append raised, durable or not, only the two of Abandoned are not made up for; and at
\* whatever step a Run was cancelled or a review answered.
NobodyIsStuck ==
    Idle => \/ Ended \/ Abandoned
            \/ AwaitsInformation /\ \/ Pending(asked) = None
                                    \/ asked[Pending(asked)].profile = profile.id
            \/ AwaitsApproval(run) /\ parked # None

\* A profile is classified when its facts are complete, or a human approved going on without
\* them, and an assessment of exactly this profile is certain, or a human approved it; a pass
\* that outlives the cancellation of its Run may still classify (route_after_interview tests
\* only for a wait).
ClassifiedOnGrounds ==
    [][\A p \in classified' \ classified :
         \/ run.condition = "terminal"
         \/ /\ Missing(p) = {} \/ Resolved(reviews, Limit)
            /\ \E a \in DOMAIN audit : /\ audit[a].kind = "assessed" /\ audit[a].profile = p.id
                                       /\ ~audit[a].uncertain \/ Resolved(reviews, a)]_vars

\* Every intake ends: at the execution gate, with the Run terminal, or in the dead end of
\* Abandoned. Placeholders and insufficient answers run into the limits, uncertain assessments
\* into one review each, and what any other append leaves half done is repaired by the next
\* request or fails the Run.
IntakeEnds == <>(Ended \/ Abandoned)
=============================================================================
