----------------------------- MODULE Delegation -----------------------------
(* A Run's passes work through the plan: each task is delegated to an agent whose   *)
(* step completes, raises, or parks on a review; humans answer, cancel and resume;   *)
(* the finalizer closes what is parked before the Run ends. A step is one append to  *)
(* the log, or one reading of it.                                                    *)
EXTENDS Settlements

CONSTANTS
    Thread,         \* requests and passes at work at once
    Plan,           \* the number of tasks; a task is its position
    Needs,          \* the tasks each one depends on
    Tunes,          \* the tasks that ask for a tuning helper when they complete
    Patient,        \* whether a cancellation and a pass wait for each other
    MaxInvocations, MaxReviews,     \* bounds on what is delegated and reviewed
    MaxFaults       \* bound on failed writes, deaths, and agents and tools that are gone

Position == 1..Plan
Invocation == 1..MaxInvocations
Review == 1..MaxReviews
None == 0

ASSUME DelegationAssumption ==
    /\ {Plan, MaxInvocations, MaxReviews, MaxFaults} \subseteq Nat
    /\ Needs \in [Position -> SUBSET Position]
    /\ Tunes \subseteq Position
    /\ Patient \in BOOLEAN

VARIABLES
    trail,      \* the log, by invocation
    minted,     \* the invocations given out, each with its task (None: a helper's)
    bundle,     \* the review in the resume bundle of each invocation
    asked,      \* how many tool reviews were requested
    answered,   \* those a human answered
    life,       \* new, active, waiting or ended
    review,     \* the review the Run waits on
    ckpt,       \* the progress in the checkpoint: what became of each task, in order
    job,        \* what each thread is doing
    hurt,       \* invocations a fault touched
    faults

vars == <<trail, minted, bundle, asked, answered, life, review, ckpt, job, hurt, faults>>

run == <<asked, answered, life, review, ckpt>>
records == <<trail, minted, bundle>>

Status == {"completed", "failed", "skipped", "pending"}
Outcome == [inv : Invocation, status : Status]
TaskStatus(r) == CASE r = "completed" -> "completed"
                   [] r = "stopped" -> "skipped"
                   [] OTHER -> "failed"

\* Where a thread is, whose records it writes and what for: a step of the plan, a helper's
\* step, a carried task given up, the end of a pass, its failure, or a cancellation.
Free == [at |-> "idle", role |-> "none", done |-> <<>>, pend |-> None, inv |-> None,
         resumed |-> FALSE, reason |-> "abnormal", review |-> None, over |-> FALSE]
Is(t, at) == job[t].at = at
Do(t, j) == job' = [job EXCEPT ![t] = j]
Go(t, at) == Do(t, [job[t] EXCEPT !.at = at])
Idle == \A t \in Thread : Is(t, "idle")

Init ==
    /\ trail = [i \in Invocation |-> <<>>]
    /\ minted = <<>> /\ bundle = [i \in Invocation |-> None]
    /\ asked = 0 /\ answered = {} /\ life = "new" /\ review = None /\ ckpt = <<>>
    /\ job = [t \in Thread |-> Free]
    /\ hurt = {} /\ faults = 0

Fault == faults < MaxFaults /\ faults' = faults + 1
NoFault == UNCHANGED <<hurt, faults>>
Hurt(S) == hurt' = hurt \cup (S \ {None})

-----------------------------------------------------------------------------
(* Appends. One that raises may have written its record all the same. *)

Put(i, rec) == trail' = [trail EXCEPT ![i] = Append(@, rec)]

\* Thread t appends and goes on as next, or the append raises and it goes on as caught.
Write(t, i, rec, next, caught) ==
    /\ \/ Put(i, rec) /\ Do(t, next) /\ NoFault
       \/ Fault /\ Hurt({i}) /\ Do(t, caught) /\ (Put(i, rec) \/ UNCHANGED trail)
    /\ UNCHANGED run

\* RunService.fail, after whatever a pass raised.
Failing == [Free EXCEPT !.at = "look", !.role = "fail"]
\* The end of a pass that has nothing left to do.
Ending == [Free EXCEPT !.at = "check", !.role = "complete"]
\* What is raised outside Delegator.delegate reaches the pass, or the request.
Raised(t) == IF job[t].role \in {"cancel", "fail"} THEN Free ELSE Failing

-----------------------------------------------------------------------------
(* One pass: the tasks in the order of the plan, after those an earlier pass decided. *)

\* The trailing pending outcome, and those before it: none of them is pending.
Carried(progress) ==
    LET last == progress[Len(progress)] IN
    IF progress # <<>> /\ last.status = "pending" THEN last.inv ELSE None
Decided(progress) ==
    IF Carried(progress) = None THEN progress ELSE SubSeq(progress, 1, Len(progress) - 1)

PassFrom(progress) == [Free EXCEPT !.at = "task", !.role = "step",
                                   !.done = Decided(progress), !.pend = Carried(progress)]

Task(t) == Len(job[t].done) + 1
AtTask(t) == Is(t, "task") /\ Task(t) <= Plan
Blocked(t) == \E p \in Needs[Task(t)] :
                 p \notin DOMAIN job[t].done \/ job[t].done[p].status # "completed"
New == Len(minted) + 1
Mint(p) == New <= MaxInvocations /\ minted' = Append(minted, p)

Recorded(j, i, status) ==
    [j EXCEPT !.at = "task", !.done = Append(@, [inv |-> i, status |-> status]),
              !.pend = None, !.inv = None, !.resumed = FALSE]

\* settle_stopped: a settlement and no message.
Skip(t) ==
    /\ AtTask(t) /\ Blocked(t)
    /\ Mint(Task(t))
    /\ Write(t, New, Settled("stopped"), Recorded(job[t], New, "skipped"), Raised(t))
    /\ UNCHANGED bundle

\* The catalog does not know the agent of a task that never started.
Unresolved(t) ==
    /\ AtTask(t) /\ ~Blocked(t) /\ job[t].pend = None
    /\ Fault
    /\ Mint(Task(t))
    /\ Do(t, [job[t] EXCEPT !.at = "settle", !.inv = New, !.reason = "abnormal"])
    /\ UNCHANGED <<trail, bundle, hurt, run>>

\* Delegator.delegate of a fresh task, or of a helper's.
Delegate(t) ==
    /\ \/ AtTask(t) /\ ~Blocked(t) /\ job[t].pend = None /\ Mint(Task(t))
       \/ Is(t, "tune") /\ Mint(None)
    /\ LET j == [job[t] EXCEPT !.inv = New, !.resumed = FALSE, !.over = FALSE,
                               !.role = IF Is(t, "tune") THEN "helper" ELSE "step"] IN
       Write(t, New, Started, [j EXCEPT !.at = "run"], [j EXCEPT !.at = "raised"])
    /\ UNCHANGED bundle

\* Seeded bug: a step that already ended is resumed again.
ReadinessByAnswer(i) == IF bundle[i] \notin answered THEN "waiting" ELSE "ready"
\* load_pending_resume.
Readiness(i) ==
    LET parks == {n \in At(trail[i], "parked") : trail[i][n].review = bundle[i]} IN
    IF ~One(parks) THEN "invalid"
    ELSE IF After(trail[i], The(parks), "completed") \cup After(trail[i], The(parks), "settled") # {}
         THEN "invalid"
    ELSE IF bundle[i] \notin answered THEN "waiting" ELSE "ready"

\* A carried task goes on with its conversation or waits on. One whose evidence or tools are
\* gone is given up and the pass ends; one whose agent is gone is dropped and the plan goes on.
Carry(t) ==
    /\ AtTask(t) /\ ~Blocked(t) /\ job[t].pend # None
    /\ LET i == job[t].pend
           close(role) == [job[t] EXCEPT !.at = "look", !.role = role] IN
       \/ /\ NoFault
          /\ CASE Readiness(i) = "ready" ->
                    Do(t, [job[t] EXCEPT !.at = "run", !.inv = i, !.resumed = TRUE, !.over = FALSE])
               [] Readiness(i) = "waiting" ->
                    Do(t, [Recorded(job[t], i, "pending") EXCEPT !.at = "parkrun", !.inv = i])
               [] OTHER -> Do(t, close("giveup"))
       \/ /\ Fault /\ UNCHANGED hurt
          /\ \/ Do(t, close("giveup"))
             \/ Readiness(i) = "ready" /\ Do(t, close("drop"))
    /\ UNCHANGED <<records, run>>

PlanDone(t) == /\ Is(t, "task") /\ Task(t) > Plan
               /\ Do(t, Ending)
               /\ NoFault /\ UNCHANGED <<records, run>>

-----------------------------------------------------------------------------
(* An agent's step. *)

Complete(t) ==
    /\ Is(t, "run")
    /\ \E r \in {"completed", "failed", "out-of-room"} :
          Write(t, job[t].inv, Completed(r), [job[t] EXCEPT !.at = "settle", !.reason = r],
                [job[t] EXCEPT !.at = "raised"])
    /\ UNCHANGED <<minted, bundle>>

\* The budget of the Run, when it is over, is raised on after the settlement.
StepRaises(t) ==
    /\ Is(t, "run")
    /\ \E over \in BOOLEAN : Do(t, [job[t] EXCEPT !.at = "raised", !.over = over])
    /\ NoFault /\ UNCHANGED <<records, run>>

\* A tool call needs a review, and the conversation is saved before the step parks.
Defer(t) ==
    /\ Is(t, "run") /\ asked < MaxReviews
    /\ asked' = asked + 1
    /\ bundle' = [bundle EXCEPT ![job[t].inv] = asked + 1]
    /\ Do(t, [job[t] EXCEPT !.at = "park", !.review = asked + 1])
    /\ NoFault /\ UNCHANGED <<trail, minted, answered, life, review, ckpt>>

Park(t) ==
    /\ Is(t, "park")
    /\ LET j == job[t] IN
       Write(t, j.inv, Parked(j.review),
             IF j.role = "helper" THEN [j EXCEPT !.at = "task", !.role = "step", !.inv = None]
             ELSE [Recorded(j, j.inv, "pending") EXCEPT !.at = "parkrun", !.inv = j.inv],
             [j EXCEPT !.at = "raised"])
    /\ UNCHANGED <<minted, bundle>>

\* Seeded bugs: what raised is settled as failed; a resumed lifecycle is not closed.
SettleAsFailed(t) ==
    /\ Is(t, "raised") /\ Do(t, [job[t] EXCEPT !.at = "settle", !.reason = "failed"])
    /\ NoFault /\ UNCHANGED <<records, run>>
LeaveUnclosed(t) ==
    /\ Is(t, "raised") /\ Do(t, [job[t] EXCEPT !.at = "settle", !.reason = "abnormal"])
    /\ NoFault /\ UNCHANGED <<records, run>>
\* _record_resume_failure
CloseRaised(t) ==
    /\ Is(t, "raised")
    /\ LET next == [job[t] EXCEPT !.at = "settle", !.reason = "abnormal"] IN
       IF job[t].resumed /\ At(trail[job[t].inv], "completed") = {}
       THEN Write(t, job[t].inv, Completed("abnormal"), next, Raised(t))
       ELSE Do(t, next) /\ NoFault /\ UNCHANGED <<trail, run>>
    /\ UNCHANGED <<minted, bundle>>

-----------------------------------------------------------------------------
(* The settlement and its message, of a step or of the finalizer. *)

Close(t) ==
    /\ Is(t, "close")
    /\ Write(t, job[t].inv, Completed(job[t].reason), [job[t] EXCEPT !.at = "settle"], Raised(t))
    /\ UNCHANGED <<minted, bundle>>

Settle(t) ==
    /\ Is(t, "settle")
    /\ Write(t, job[t].inv, Settled(job[t].reason), [job[t] EXCEPT !.at = "tell"], Raised(t))
    /\ UNCHANGED <<minted, bundle>>

\* What follows _failed_resume.
GivenUp(j) == IF j.role = "giveup" THEN Ending
              ELSE [Recorded(j, j.pend, "failed") EXCEPT !.role = "step"]

Told(j) ==
    CASE j.role \in {"cancel", "fail"} -> [j EXCEPT !.at = "check", !.inv = None]
      [] j.role \in {"giveup", "drop"} -> GivenUp(j)
      [] j.role = "helper" /\ ~j.over -> [j EXCEPT !.at = "task", !.role = "step", !.inv = None]
      [] j.role = "step" /\ ~j.over ->
           [Recorded(j, j.inv, TaskStatus(j.reason)) EXCEPT !.at =
              IF j.reason = "completed" /\ minted[j.inv] \in Tunes THEN "tune" ELSE "task"]
      [] OTHER -> Failing

Tell(t) ==
    /\ Is(t, "tell")
    /\ Write(t, job[t].inv, Message(job[t].reason), Told(job[t]), Raised(t))
    /\ UNCHANGED <<minted, bundle>>

-----------------------------------------------------------------------------
(* finalize_parked_invocation: reads the log once and writes what is missing. *)

Open == {i \in Invocation : IsOpen(trail[i])}
Wanted(role) == CASE role = "cancel" -> "stopped" [] role = "fail" -> "abnormal"
                  [] OTHER -> "failed"

\* Seeded bug: the failure of a Run does not close what is parked.
LookOnlyToCancel(t) ==
    /\ Is(t, "look") /\ Go(t, "check")
    /\ NoFault /\ UNCHANGED <<records, run>>
Look(t) ==
    LET j == job[t] IN
    /\ Is(t, "look")
    /\ CASE Open = {} -> Do(t, IF j.role \in {"giveup", "drop"} THEN GivenUp(j)
                                  ELSE [j EXCEPT !.at = "check"])
         [] One(Open) /\ Repairable(trail[The(Open)]) ->
              LET i == The(Open) IN
              Do(t, [j EXCEPT !.at = Missing(trail[i]), !.inv = i,
                              !.reason = ReasonFor(trail[i], Wanted(j.role))])
         [] OTHER -> Do(t, Raised(t))
    /\ NoFault /\ UNCHANGED <<trail, minted, bundle, run>>

-----------------------------------------------------------------------------
(* The Run: its end, its park and its requests. *)

\* RunController.advance refuses to end a Run with an open park.
Check(t) ==
    /\ Is(t, "check")
    /\ IF Open = {} THEN Go(t, "move") ELSE Do(t, Raised(t))
    /\ NoFault /\ UNCHANGED <<records, run>>

End(t) ==
    /\ Is(t, "move")
    /\ IF life = "active" \/ (life = "waiting" /\ job[t].role # "complete")
       THEN life' = "ended" /\ Do(t, Free)
       ELSE UNCHANGED life /\ Do(t, Raised(t))
    /\ NoFault /\ UNCHANGED <<records, asked, answered, review, ckpt>>

Unanswered == (1..asked) \ answered

\* _park_for_tool_review: the Run waits on the first review nobody answered.
ParkRun(t) ==
    /\ Is(t, "parkrun")
    /\ CASE life = "waiting" -> Go(t, "save") /\ UNCHANGED <<life, review>>
         [] life = "active" /\ Unanswered # {} ->
              life' = "waiting" /\ review' = First(Unanswered) /\ Go(t, "save")
         [] OTHER -> Do(t, Failing) /\ UNCHANGED <<life, review>>
    /\ NoFault /\ UNCHANGED <<records, asked, answered, ckpt>>

SaveCheckpoint(t) ==
    /\ Is(t, "save")
    /\ ckpt' = job[t].done
    /\ Do(t, Free)
    /\ NoFault /\ UNCHANGED <<records, asked, answered, life, review>>

StartRun(t) == /\ Is(t, "idle") /\ life = "new"
               /\ life' = "active" /\ Do(t, PassFrom(<<>>))
               /\ NoFault /\ UNCHANGED <<records, asked, answered, review, ckpt>>

ResumeRun(t) ==
    /\ Is(t, "idle") /\ (Patient => \A u \in Thread : job[u].role # "cancel")
    /\ life = "waiting" /\ review \in answered
    /\ life' = "active" /\ Do(t, PassFrom(ckpt))
    /\ NoFault /\ UNCHANGED <<records, asked, answered, review, ckpt>>

\* A request closes what is parked first; a control of the lifecycle inbox does not.
CancelRun(t) ==
    /\ Is(t, "idle") /\ (Patient => Idle)
    /\ life \in {"active", "waiting"}
    /\ \E at \in {"look", "check"} : Do(t, [Free EXCEPT !.at = at, !.role = "cancel"])
    /\ NoFault /\ UNCHANGED <<records, run>>

Answer == /\ \E d \in Unanswered : answered' = answered \cup {d}
          /\ NoFault /\ UNCHANGED <<records, asked, life, review, ckpt, job>>

\* The process dies with all its threads.
Die == /\ ~Idle /\ Fault
       /\ Hurt({job[t].inv : t \in Thread})
       /\ job' = [t \in Thread |-> Free]
       /\ UNCHANGED <<records, run>>

Pass(t) == \/ Skip(t) \/ Unresolved(t) \/ Delegate(t) \/ Carry(t) \/ PlanDone(t)
           \/ Complete(t) \/ StepRaises(t) \/ Defer(t) \/ Park(t) \/ CloseRaised(t)
           \/ Close(t) \/ Settle(t) \/ Tell(t) \/ Look(t)
           \/ Check(t) \/ End(t) \/ ParkRun(t) \/ SaveCheckpoint(t)

Next == \/ \E t \in Thread : Pass(t) \/ StartRun(t) \/ ResumeRun(t) \/ CancelRun(t)
        \/ Answer \/ Die

Spec == Init /\ [][Next]_vars

\* Some thread at work takes its next step, humans answer, and somebody starts and resumes the
\* Run: it may be cancelled and parked in between, so resuming it needs strong fairness.
Fairness == /\ WF_vars(\E t \in Thread : Pass(t))
            /\ WF_vars(Answer)
            /\ WF_vars(\E t \in Thread : StartRun(t))
            /\ SF_vars(\E t \in Thread : ResumeRun(t))
FairSpec == Spec /\ Fairness

-----------------------------------------------------------------------------
(* Properties. *)

\* The invocations no fault touched.
Whole == Invocation \ hurt
AtMostOne(i, type) == Cardinality(At(trail[i], type)) <= 1

\* Delegator.delegate and the finalizer: one completion, one settlement and one message of
\* each delegation, whoever ends it: the step, its exception, or the end of the Run. A pass
\* may be resumed while the one that parked still saves its checkpoint.
SettledOnce == \A i \in Whole : \A type \in {"completed", "settled", "message"} : AtMostOne(i, type)

\* What the producers write, the auditor accepts: A31 passes in flight when a pass ends,
\* and finally when the Run has.
AuditAccepts ==
    /\ (\E t \in Thread : Is(t, "check") /\ job[t].role = "complete") =>
           \A i \in Whole : PassesA31(trail[i], FALSE)
    /\ life = "ended" /\ Idle => \A i \in Whole : PassesA31(trail[i], TRUE)

\* No task is delegated twice: it is when a Run is resumed before the pass that parked it,
\* or died of it, has saved its checkpoint.
DelegatedOnce == \A i, k \in DOMAIN minted : minted[i] = minted[k] /\ minted[i] # None => i = k
HelperParked == \E i \in DOMAIN minted : minted[i] = None /\ HasParked(trail[i])

\* RunController.advance and the finalizer: no Run ends with a park open, although the check
\* and the transition are two readings of the log, and what is parked can always be closed,
\* unless a fault cut the parked step, a helper is parked too (its park is never resumed) or
\* a task was delegated twice: several open parks refuse every end of the Run.
NoParkIsLost ==
    /\ life = "ended" => Open = {}
    /\ Idle => /\ \A i \in Open \cap Whole : Repairable(trail[i])
               /\ Cardinality(Open \cap Whole) <= 1 \/ HelperParked \/ ~DelegatedOnce

\* A Run that waits on a tool review ends, if humans answer and resume it; see NoParkIsLost for
\* the two exceptions, and without deaths.
EveryRunEnds == life = "waiting" ~> (life = "ended" \/ faults > 0 \/ HelperParked \/ ~DelegatedOnce)
=============================================================================
