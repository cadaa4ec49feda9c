----------------------------- MODULE OwnerLoop -----------------------------
(***************************************************************************)
(* One Run's durable lifecycle: the API that accepts control inputs, the   *)
(* outbox and its dispatcher, the broker, and the worker processes that    *)
(* claim work, own the Run, apply controls, execute the graph, settle the  *)
(* result, close the turn and audit it (lifecycle_worker.py, its local     *)
(* repository, queue.py and rabbitmq.py).                                  *)
(*                                                                         *)
(* Every durable write is a step of its own and a process may die before   *)
(* any of them.  A dead process loses its local variables and its file     *)
(* locks; the broker returns its unacknowledged message to the queue.      *)
(***************************************************************************)
EXTENDS WorkBoard, FiniteSets

CONSTANTS
    Worker,        \* worker processes (prefetch 1: one message each)
    Input,         \* control inputs an operator may enqueue
    Initial,       \* the Run's first work item, kind run.execute
    Cancel, Pause, Resume,   \* the inputs of kind CANCEL, HOST_PAUSE, RESUME
    StepInput,     \* the inputs requested in the NEXT_STEP lane
    None,          \* no worker, no message, no input
    MaxClock,      \* bound: the clock stops there
    MaxSends,      \* bound: publishes of each outbox row
    MaxCrashes     \* bound: process deaths

Work == Input \cup {Initial}   \* a control's own work item bears its name
Exit == Cancel \cup Pause      \* the owner-authorised exits
Transition == Exit \cup Resume \* inputs that move the Run; the rest append a message

ASSUME LoopAssumption ==
    /\ Initial \notin Input /\ None \notin Work \cup Worker
    /\ Transition \subseteq Input /\ StepInput \subseteq Input
    /\ Cancel \cap Pause = {} /\ Exit \cap Resume = {}
    /\ IsFiniteSet(Input)
ASSUME LoopBounds == {MaxClock, MaxCrashes} \subseteq Nat /\ MaxSends \in [Work -> Nat]

VARIABLES
    now,       \* wall clock
    work,      \* work board, one record per item
    outbox,    \* the item's outbox row: "none", "pending", "published"
    sends,     \* times the row was handed to the broker
    queue,     \* messages ready for delivery
    dead,      \* items with a dead-lettered message
    control,   \* inbox records
    api,       \* the enqueue request in progress; not idle: holds controls.lock
    accepted,  \* inputs whose caller holds a receipt
    condition, \* what the controls in the Run's log left it: see RunCondition
    owner,     \* process holding the Run's owner lock
    pc, job, att, todo, cur, inStep, exiting, outcome,   \* process locals
    runs, turns, audits, effects,                        \* what the log shows
    crashes

boardVars  == <<now, work>>
wireVars   == <<outbox, sends, queue, dead>>
inboxVars  == <<control, api, accepted>>
localVars  == <<job, att, todo, cur, inStep, exiting, outcome>>
logVars    == <<condition, runs, turns, audits, effects>>
vars == <<boardVars, wireVars, inboxVars, owner, pc, localVars, logVars, crashes>>

ControlState == {"absent", "pending", "claimed", "applied", "rejected"}
Lane         == {"turn", "step"}
ControlInput == [state : ControlState, lane : Lane, ordinal : Nat, expires : Nat]

\* Labels at which the process holds the Run's owner lock.
OwnerLabel == {"controls", "apply", "ack", "reject", "dispatch", "execute",
               "settle", "close", "audit", "repair", "recover", "release"}
Label      == OwnerLabel \cup {"idle", "inspect", "claim", "acquire",
                               "acquireRepair", "acquireRecover"}
RunCondition == {"open", "paused", "cancelled"}
Outcome    == {"none", "succeeded", "failed", "cancelled", "rejected"}

Init ==
    /\ now = 0 /\ crashes = 0
    /\ work = [w \in Work |-> IF w = Initial THEN NewItem ELSE NoItem]
    /\ outbox = [w \in Work |-> IF w = Initial THEN "pending" ELSE "none"]
    /\ sends = [w \in Work |-> 0] /\ queue = [w \in Work |-> 0] /\ dead = {}
    /\ control = [i \in Input |->
                    [state |-> "absent", ordinal |-> 0, expires |-> 0,
                     lane |-> IF i \in StepInput THEN "step" ELSE "turn"]]
    /\ api = [at |-> "idle", input |-> None] /\ accepted = {}
    /\ condition = "open" /\ owner = None
    /\ pc = [p \in Worker |-> "idle"] /\ job = [p \in Worker |-> None]
    /\ att = [p \in Worker |-> 0] /\ todo = [p \in Worker |-> {}]
    /\ cur = [p \in Worker |-> None] /\ inStep = [p \in Worker |-> FALSE]
    /\ exiting = [p \in Worker |-> FALSE] /\ outcome = [p \in Worker |-> "none"]
    /\ runs = [w \in Work |-> 0] /\ turns = [w \in Work |-> 0]
    /\ audits = [w \in Work |-> 0] /\ effects = [i \in Input |-> 0]

(***************************************************************************)
(* The API: ControlInbox.enqueue and LocalLifecycleRepository's            *)
(* _publish_control_work, three durable writes under controls.lock.        *)
(***************************************************************************)
OrdinalFromMaximum == Cardinality({i \in Input : control[i].state # "absent"}) - 1   \* seeded bug
NextOrdinal == Cardinality({i \in Input : control[i].state # "absent"})

Enqueue(i) ==
    /\ api.at = "idle" /\ control[i].state = "absent"
    /\ control' = [control EXCEPT ![i].state = "pending", ![i].ordinal = NextOrdinal]
    /\ api' = [at |-> "item", input |-> i]
    /\ UNCHANGED <<boardVars, wireVars, accepted, owner, pc, localVars, logVars, crashes>>

\* The same command again: a PENDING one repairs its work item first, but an
\* item that exists ends the repair, whether or not its outbox row does.
Retry(i) ==
    /\ api.at = "idle" /\ control[i].state # "absent"
    /\ IF control[i].state = "pending" /\ work[i].state = "absent"
       THEN api' = [at |-> "item", input |-> i] /\ UNCHANGED accepted
       ELSE accepted' = accepted \cup {i} /\ UNCHANGED api
    /\ UNCHANGED <<boardVars, wireVars, control, owner, pc, localVars, logVars, crashes>>

WriteItem ==
    /\ api.at = "item"
    /\ work' = [work EXCEPT ![api.input] = NewItem]
    /\ api' = [api EXCEPT !.at = "row"]
    /\ UNCHANGED <<now, wireVars, control, accepted, owner, pc, localVars, logVars, crashes>>

WriteRow ==
    /\ api.at = "row"
    /\ outbox' = [outbox EXCEPT ![api.input] = "pending"]
    /\ accepted' = accepted \cup {api.input}
    /\ api' = [at |-> "idle", input |-> None]
    /\ UNCHANGED <<boardVars, sends, queue, dead, control, owner, pc, localVars, logVars, crashes>>

ApiCrash ==
    /\ api.at # "idle" /\ crashes < MaxCrashes
    /\ api' = [at |-> "idle", input |-> None]
    /\ crashes' = crashes + 1
    /\ UNCHANGED <<boardVars, wireVars, control, accepted, owner, pc, localVars, logVars>>

(***************************************************************************)
(* QueueDispatcher._publish_for_run: hand the row to the broker, then mark *)
(* it.  Dying in between, or two requests at once, publishes it again.     *)
(***************************************************************************)
Publish(w) ==
    /\ outbox[w] = "pending" /\ sends[w] < MaxSends[w]
    /\ sends' = [sends EXCEPT ![w] = @ + 1]
    /\ queue' = [queue EXCEPT ![w] = @ + 1]
    /\ UNCHANGED <<boardVars, outbox, dead, inboxVars, owner, pc, localVars, logVars, crashes>>

MarkPublished(w) ==
    /\ outbox[w] = "pending" /\ sends[w] > 0
    /\ outbox' = [outbox EXCEPT ![w] = "published"]
    /\ UNCHANGED <<boardVars, sends, queue, dead, inboxVars, owner, pc, localVars, logVars, crashes>>

Tick ==
    /\ now < MaxClock
    /\ now' = now + 1
    /\ UNCHANGED <<work, wireVars, inboxVars, owner, pc, localVars, logVars, crashes>>

(***************************************************************************)
(* Worker processes.                                                       *)
(***************************************************************************)
Goto(p, l) == pc' = [pc EXCEPT ![p] = l]

Forget(p) ==
    /\ Goto(p, "idle")
    /\ job' = [job EXCEPT ![p] = None] /\ att' = [att EXCEPT ![p] = 0]
    /\ todo' = [todo EXCEPT ![p] = {}] /\ cur' = [cur EXCEPT ![p] = None]
    /\ inStep' = [inStep EXCEPT ![p] = FALSE]
    /\ exiting' = [exiting EXCEPT ![p] = FALSE]
    /\ outcome' = [outcome EXCEPT ![p] = "none"]

LetGo(p) == owner' = IF owner = p THEN None ELSE owner

Deliver(p, w) ==
    /\ pc[p] = "idle" /\ queue[w] > 0
    /\ queue' = [queue EXCEPT ![w] = @ - 1]
    /\ job' = [job EXCEPT ![p] = w]
    /\ Goto(p, "inspect")
    /\ UNCHANGED <<boardVars, outbox, sends, dead, inboxVars, owner, att, todo, cur,
                   inStep, exiting, outcome, logVars, crashes>>

\* process() returns: the callback acknowledges, whatever was returned.
Ack(p) ==
    /\ Forget(p) /\ LetGo(p)
    /\ UNCHANGED <<boardVars, wireVars, inboxVars, logVars, crashes>>

\* process() raises: the owner is released and the message dead-lettered.
Abort(p) ==
    /\ Forget(p) /\ LetGo(p)
    /\ dead' = dead \cup {job[p]}
    /\ UNCHANGED <<boardVars, outbox, sends, queue, inboxVars, logVars, crashes>>

Crash(p) ==
    /\ pc[p] # "idle" /\ crashes < MaxCrashes
    /\ Forget(p) /\ LetGo(p)
    /\ queue' = [queue EXCEPT ![job[p]] = @ + 1]
    /\ crashes' = crashes + 1
    /\ UNCHANGED <<boardVars, outbox, sends, dead, inboxVars, logVars>>

\* The first read of the item decides which path the notification takes.
Inspect(p) ==
    /\ pc[p] = "inspect"
    /\ LET item == work[job[p]] IN
         IF item.state = "settled"
         THEN Goto(p, "acquireRepair") /\ UNCHANGED att
         ELSE IF Expired(item, now) /\ item.dispatch # "never"
         THEN Goto(p, "acquireRecover") /\ att' = [att EXCEPT ![p] = item.attempt]
         ELSE Goto(p, "claim") /\ UNCHANGED att
    /\ UNCHANGED <<boardVars, wireVars, inboxVars, owner, job, todo, cur, inStep,
                   exiting, outcome, logVars, crashes>>

\* Another process is at one of these labels with the same item: it may be
\* inside its critical section when p asks for the item's lock.
WorkLockTried(p, labels) ==
    \E q \in Worker \ {p} : pc[q] \in labels /\ job[q] = job[p]

ClaimWork(p) ==
    /\ pc[p] = "claim" /\ Claimable(work[job[p]], now)
    /\ work' = [work EXCEPT ![job[p]] = Claimed(@, now)]
    /\ att' = [att EXCEPT ![p] = work[job[p]].attempt + 1]
    /\ Goto(p, "acquire")
    /\ UNCHANGED <<now, wireVars, inboxVars, owner, job, todo, cur, inStep, exiting,
                   outcome, logVars, crashes>>

\* claim_work returns None for an item it may not hand out, and also when the
\* item's lock is held; process() then returns and the message is gone.
ClaimRefused(p) ==
    /\ pc[p] = "claim"
    /\ \/ ~Claimable(work[job[p]], now)
       \/ WorkLockTried(p, {"dispatch", "settle", "recover"})
    /\ Ack(p)

\* The other owner-lock attempts of the three paths return None when busy.
OwnerBusy(p) ==
    /\ pc[p] \in {"acquire", "acquireRepair", "acquireRecover"} /\ owner # None
    /\ Ack(p)

\* Open controls of one lane; a control's own work item looks at nothing but
\* that control, and outside a live turn every lane is the turn's.
Open(i) == control[i].state \in {"pending", "claimed"}
TurnLaneOnly(w) ==                                               \* seeded bug
    {i \in (IF w = Initial THEN Input ELSE {w}) : Open(i) /\ control[i].lane = "turn"}
TurnControls(w) ==
    IF w = Initial THEN {i \in Input : Open(i) /\ control[i].lane = "turn"}
                   ELSE {i \in {w} : Open(i)}
StepControls == {i \in Input : Open(i) /\ control[i].lane = "step"}

Acquire(p) ==
    /\ pc[p] = "acquire" /\ owner = None
    /\ owner' = p
    /\ todo' = [todo EXCEPT ![p] = TurnControls(job[p])]
    /\ Goto(p, "controls")
    /\ UNCHANGED <<boardVars, wireVars, inboxVars, job, att, cur, inStep, exiting,
                   outcome, logVars, crashes>>

(***************************************************************************)
(* apply_pending_goal_controls, for the turn lane before dispatch and for  *)
(* the step lane from the model-step hook of a running graph.              *)
(***************************************************************************)
First(i, S) == i \in S /\ \A j \in S : control[i].ordinal <= control[j].ordinal

ClaimableControl(i) ==
    \/ control[i].state = "pending"
    \/ control[i].state = "claimed" /\ control[i].expires <= now

SkipControl(p) ==
    /\ pc[p] = "controls"
    /\ \E i \in Input :
         /\ First(i, todo[p]) /\ ~ClaimableControl(i)
         /\ todo' = [todo EXCEPT ![p] = @ \ {i}]
    /\ UNCHANGED <<boardVars, wireVars, inboxVars, owner, pc, job, att, cur, inStep,
                   exiting, outcome, logVars, crashes>>

Taken(c, lane) ==
    [c EXCEPT !.state = "claimed", !.lane = lane, !.expires = now + ClaimTTL]

ClaimControl(p) ==
    /\ pc[p] = "controls" /\ api.at = "idle"
    /\ \E i \in Input :
         /\ First(i, todo[p]) /\ ClaimableControl(i)
         /\ control' = [control EXCEPT ![i] =
                          Taken(@, IF inStep[p] THEN "step" ELSE "turn")]
         /\ todo' = [todo EXCEPT ![p] = @ \ {i}]
         /\ cur' = [cur EXCEPT ![p] = i]
    /\ Goto(p, "apply")
    /\ UNCHANGED <<boardVars, wireVars, api, accepted, owner, job, att, inStep, exiting,
                   outcome, logVars, crashes>>

\* The consumer appends one event to the Run's log: a transition, which the
\* condition must admit, or a message.
ApplyControl(p) ==
    /\ pc[p] = "apply"
    /\ cur[p] \in Cancel \cup Resume => condition # "cancelled"
    /\ cur[p] \in Pause => condition = "open"
    /\ condition' = CASE cur[p] \in Cancel -> "cancelled"
                      [] cur[p] \in Pause  -> "paused"
                      [] cur[p] \in Resume -> "open"
                      [] OTHER -> condition
    /\ effects' = [effects EXCEPT ![cur[p]] = @ + 1]
    /\ Goto(p, "ack")
    /\ UNCHANGED <<boardVars, wireVars, inboxVars, owner, localVars, runs, turns, audits,
                   crashes>>

\* The consumer raises: the controller refuses a transition, for the condition or for a
\* reason this module does not hold (the Run's stage, a wait, an open parked delegation),
\* or an append raised, before its event was durable or after (local_run_store.py:249).
RefuseControl(p) ==
    /\ pc[p] \in {"apply", "ack"}
    /\ Goto(p, "reject")
    /\ UNCHANGED <<boardVars, wireVars, inboxVars, owner, localVars, logVars, crashes>>

\* Seeded bug: the acknowledgement leaves the inbox record claimed.
MarkAppliedNowhere(p) ==
    /\ pc[p] = "ack" /\ api.at = "idle"
    /\ cur' = [cur EXCEPT ![p] = None]
    /\ Goto(p, "controls")
    /\ UNCHANGED <<boardVars, wireVars, inboxVars, owner, job, att, todo, inStep,
                   exiting, outcome, logVars, crashes>>

MarkApplied(p) ==
    /\ pc[p] = "ack" /\ api.at = "idle"
    /\ control' = [control EXCEPT ![cur[p]].state = "applied"]
    /\ exiting' = [exiting EXCEPT ![p] = @ \/ (cur[p] \in Exit /\ ~inStep[p])]
    /\ cur' = [cur EXCEPT ![p] = None]
    /\ Goto(p, "controls")
    /\ UNCHANGED <<boardVars, wireVars, api, accepted, owner, job, att, todo, inStep,
                   outcome, logVars, crashes>>

\* Before dispatch the turn settles as REJECTED; inside the graph the raised
\* error is one more graph failure.
MarkRejected(p) ==
    /\ pc[p] = "reject" /\ api.at = "idle"
    /\ control' = [control EXCEPT ![cur[p]].state = "rejected"]
    /\ outcome' = [outcome EXCEPT ![p] = IF inStep[p] THEN "failed" ELSE "rejected"]
    /\ cur' = [cur EXCEPT ![p] = None] /\ todo' = [todo EXCEPT ![p] = {}]
    /\ Goto(p, "settle")
    /\ UNCHANGED <<boardVars, wireVars, api, accepted, owner, job, att, inStep, exiting,
                   logVars, crashes>>

\* controls.lock does not wait: an enqueue in progress raises OwnerBusyError,
\* which before dispatch escapes and inside the graph fails the graph.
ControlsBusy(p) ==
    /\ api.at # "idle"
    /\ \/ /\ pc[p] = "controls"
          /\ \E i \in Input : First(i, todo[p]) /\ ClaimableControl(i)
       \/ pc[p] \in {"ack", "reject"}
    /\ IF inStep[p]
       THEN /\ outcome' = [outcome EXCEPT ![p] = "failed"]
            /\ cur' = [cur EXCEPT ![p] = None] /\ todo' = [todo EXCEPT ![p] = {}]
            /\ Goto(p, "settle")
            /\ UNCHANGED <<boardVars, wireVars, inboxVars, owner, job, att, inStep,
                           exiting, logVars, crashes>>
       ELSE Abort(p)

ControlsDone(p) ==
    /\ pc[p] = "controls" /\ todo[p] = {}
    /\ Goto(p, IF inStep[p] THEN "execute" ELSE "dispatch")
    /\ inStep' = [inStep EXCEPT ![p] = FALSE]
    /\ UNCHANGED <<boardVars, wireVars, inboxVars, owner, job, att, todo, cur, exiting,
                   outcome, logVars, crashes>>

(***************************************************************************)
(* Dispatch, execution, settlement.                                        *)
(***************************************************************************)
MarkDispatched(p) ==
    /\ pc[p] = "dispatch" /\ CurrentClaim(work[job[p]], att[p], now)
    /\ work' = [work EXCEPT ![job[p]] = Dispatched(@)]
    /\ IF exiting[p]
       THEN /\ outcome' = [outcome EXCEPT ![p] = "cancelled"]
            /\ Goto(p, "settle") /\ UNCHANGED runs
       ELSE /\ runs' = [runs EXCEPT ![job[p]] = @ + 1]
            /\ Goto(p, "execute") /\ UNCHANGED outcome
    /\ UNCHANGED <<now, wireVars, inboxVars, owner, job, att, todo, cur, inStep, exiting,
                   condition, turns, audits, effects, crashes>>

\* The graph's model-step hook, while the graph runs.
Intercept(p) ==
    /\ pc[p] = "execute" /\ \E i \in StepControls : ClaimableControl(i)
    /\ todo' = [todo EXCEPT ![p] = StepControls]
    /\ inStep' = [inStep EXCEPT ![p] = TRUE]
    /\ Goto(p, "controls")
    /\ UNCHANGED <<boardVars, wireVars, inboxVars, owner, job, att, cur, exiting, outcome,
                   logVars, crashes>>

ExecutorReturns(p) ==
    /\ pc[p] = "execute"
    /\ \E k \in {"succeeded", "failed"} : outcome' = [outcome EXCEPT ![p] = k]
    /\ Goto(p, "settle")
    /\ UNCHANGED <<boardVars, wireVars, inboxVars, owner, job, att, todo, cur, inStep,
                   exiting, logVars, crashes>>

\* The executor or the terminal auditor raises.
Fault(p) == pc[p] \in {"execute", "audit"} /\ Abort(p)

SettleWork(p) ==
    /\ pc[p] = "settle" /\ CurrentClaim(work[job[p]], att[p], now)
    /\ LET kind     == IF outcome[p] = "rejected" THEN "failed" ELSE outcome[p]
           dispatch == IF outcome[p] \in {"rejected", "cancelled"} THEN "never"
                                                                   ELSE "confirmed"
       IN  work' = [work EXCEPT ![job[p]] = Settled(@, kind, dispatch)]
    /\ Goto(p, "close")
    /\ UNCHANGED <<now, wireVars, inboxVars, owner, localVars, logVars, crashes>>

StaleClaim(p) ==
    /\ pc[p] \in {"dispatch", "settle"} /\ ~CurrentClaim(work[job[p]], att[p], now)
    /\ Abort(p)

\* The work lock does not wait either: a duplicate delivery that is claiming
\* the same item makes mark_dispatched or settle_work raise.
WorkLockBusy(p) ==
    /\ pc[p] \in {"dispatch", "settle"} \/ (pc[p] = "recover" /\ work[job[p]].state # "settled")
    /\ WorkLockTried(p, {"claim"})
    /\ Abort(p)

\* Seeded bug: the turn closes and the audit is left to nobody.
EndTurnUnaudited(p) ==
    /\ pc[p] = "close"
    /\ turns' = [turns EXCEPT ![job[p]] = @ + 1]
    /\ Goto(p, "release")
    /\ UNCHANGED <<boardVars, wireVars, inboxVars, owner, localVars, condition, runs, audits,
                   effects, crashes>>

EndTurn(p) ==
    /\ pc[p] = "close"
    /\ turns' = [turns EXCEPT ![job[p]] = @ + 1]
    /\ Goto(p, IF outcome[p] = "rejected" THEN "release" ELSE "audit")
    /\ UNCHANGED <<boardVars, wireVars, inboxVars, owner, localVars, condition, runs, audits,
                   effects, crashes>>

AuditTerminalExit(p) ==
    /\ pc[p] = "audit"
    /\ audits' = IF work[job[p]].result = "succeeded" \/ audits[job[p]] > 0
                 THEN audits ELSE [audits EXCEPT ![job[p]] = @ + 1]
    /\ Goto(p, "release")
    /\ UNCHANGED <<boardVars, wireVars, inboxVars, owner, localVars, condition, runs, turns,
                   effects, crashes>>

Release(p) == pc[p] = "release" /\ Ack(p)

(***************************************************************************)
(* A settled item's missing turn, and an expired dispatched claim.         *)
(***************************************************************************)
\* Seeded bug: repair that looks for no turn.
RepairTurnBlindly(p) ==
    /\ pc[p] = "repair"
    /\ turns' = [turns EXCEPT ![job[p]] = @ + 1]
    /\ Goto(p, "audit")
    /\ UNCHANGED <<boardVars, wireVars, inboxVars, owner, localVars, condition, runs, audits,
                   effects, crashes>>

AcquireForRepair(p) ==
    /\ pc[p] \in {"acquireRepair", "acquireRecover"} /\ owner = None
    /\ owner' = p
    /\ Goto(p, IF pc[p] = "acquireRepair" THEN "repair" ELSE "recover")
    /\ UNCHANGED <<boardVars, wireVars, inboxVars, localVars, logVars, crashes>>

RepairTurn(p) ==
    /\ pc[p] = "repair"
    /\ turns' = IF turns[job[p]] > 0 THEN turns ELSE [turns EXCEPT ![job[p]] = @ + 1]
    /\ Goto(p, "audit")
    /\ UNCHANGED <<boardVars, wireVars, inboxVars, owner, localVars, condition, runs, audits,
                   effects, crashes>>

\* An item another process settled meanwhile is repaired instead.
RecoverExpired(p) ==
    /\ pc[p] = "recover"
    /\ \/ /\ HoldsClaim(work[job[p]], att[p])
          /\ work' = [work EXCEPT ![job[p]] = Recovered(@)]
       \/ work[job[p]].state = "settled" /\ UNCHANGED work
    /\ Goto(p, "repair")
    /\ UNCHANGED <<now, wireVars, inboxVars, owner, localVars, logVars, crashes>>

WorkerStep(p) ==
    \/ Inspect(p) \/ ClaimWork(p) \/ ClaimRefused(p) \/ OwnerBusy(p) \/ Acquire(p)
    \/ SkipControl(p) \/ ClaimControl(p) \/ ApplyControl(p) \/ RefuseControl(p)
    \/ MarkApplied(p) \/ MarkRejected(p) \/ ControlsBusy(p) \/ ControlsDone(p)
    \/ MarkDispatched(p) \/ ExecutorReturns(p) \/ Fault(p) \/ SettleWork(p)
    \/ StaleClaim(p) \/ WorkLockBusy(p) \/ EndTurn(p) \/ AuditTerminalExit(p)
    \/ Release(p) \/ AcquireForRepair(p) \/ RepairTurn(p) \/ RecoverExpired(p)

Next ==
    \/ \E i \in Input : Enqueue(i) \/ Retry(i)
    \/ WriteItem \/ WriteRow \/ ApiCrash \/ Tick
    \/ \E w \in Work : Publish(w) \/ MarkPublished(w)
    \/ \E p \in Worker :
         \/ \E w \in Work : Deliver(p, w)
         \/ Intercept(p) \/ Crash(p) \/ WorkerStep(p)

Spec == Init /\ [][Next]_vars

(***************************************************************************)
(* Fairness.  A consumer that holds a delivery runs its handler to the end *)
(* and takes the next message; an enqueue request in progress completes;   *)
(* the request that wrote an outbox row goes on to publish and mark it;    *)
(* time passes.  Nobody is obliged to enqueue, retry, publish twice or die.*)
(***************************************************************************)
LiveSpec ==
    /\ Spec
    /\ \A p \in Worker : WF_vars(WorkerStep(p)) /\ WF_vars(\E w \in Work : Deliver(p, w))
    /\ WF_vars(WriteItem) /\ WF_vars(WriteRow) /\ WF_vars(Tick)
    /\ \A w \in Work : WF_vars(sends[w] = 0 /\ Publish(w)) /\ WF_vars(MarkPublished(w))

(***************************************************************************)
(* Properties.                                                             *)
(***************************************************************************)
TypeOK ==
    /\ now \in Nat /\ crashes \in Nat
    /\ work \in [Work -> WorkItem]
    /\ outbox \in [Work -> {"none", "pending", "published"}]
    /\ sends \in [Work -> Nat] /\ queue \in [Work -> Nat] /\ dead \subseteq Work
    /\ control \in [Input -> ControlInput]
    /\ api \in [at : {"idle", "item", "row"}, input : Input \cup {None}]
    /\ api.at # "idle" => api.input \in Input
    /\ accepted \subseteq Input /\ condition \in RunCondition
    /\ owner \in Worker \cup {None}
    /\ pc \in [Worker -> Label] /\ job \in [Worker -> Work \cup {None}]
    /\ \A p \in Worker : pc[p] # "idle" => job[p] \in Work
    /\ att \in [Worker -> Nat] /\ todo \in [Worker -> SUBSET Input]
    /\ cur \in [Worker -> Input \cup {None}]
    /\ \A p \in Worker : pc[p] \in {"apply", "ack", "reject"} => cur[p] \in Input
    /\ inStep \in [Worker -> BOOLEAN] /\ exiting \in [Worker -> BOOLEAN]
    /\ outcome \in [Worker -> Outcome]
    /\ \A p \in Worker : pc[p] = "settle" => outcome[p] # "none"
    /\ runs \in [Work -> Nat] /\ turns \in [Work -> Nat] /\ audits \in [Work -> Nat]
    /\ effects \in [Input -> Nat]

\* However often a notification is delivered, and whoever dies while working on
\* it, the graph is invoked for a work item at most once: claims are fenced by
\* attempt and an item whose dispatch was recorded is never handed out again.
ExecutedAtMostOnce == \A w \in Work : runs[w] <= 1

\* Time alone never takes a running item away: until a process that recorded its
\* dispatch settles it, dies or gives up, the item stays claimed by that process,
\* even long after the claim expired, because recovery needs the owner lock.
Executing(p) == pc[p] = "execute" \/ (inStep[p] /\ pc[p] \in OwnerLabel \ {"close", "audit", "release"})
ExecutorKeepsClaim ==
    \A p \in Worker : Executing(p) =>
        HoldsClaim(work[job[p]], att[p]) /\ work[job[p]].dispatch = "dispatched"

\* A durable result never understates what happened: an item recorded as never
\* dispatched had no graph call, and one whose graph ran is confirmed or unknown.
SettlementHonest ==
    \A w \in Work : work[w].state = "settled" =>
        /\ work[w].dispatch = "never" => runs[w] = 0
        /\ work[w].dispatch = "confirmed" => runs[w] = 1
        /\ work[w].result = "succeeded" => work[w].dispatch = "confirmed"

\* A turn is closed once per work item, only after the item settled, and its
\* terminal audit comes once, only for a non-success, only after the closure:
\* also when a process dies between the three and another one repairs.
TurnClosedOnce ==
    \A w \in Work :
        /\ turns[w] <= 1 /\ (turns[w] = 1 => work[w].state = "settled")
        /\ audits[w] <= turns[w]
        /\ audits[w] = 1 => work[w].result # "succeeded"

\* "accepted controls never become orphaned" (_lifecycle_inbox.py:78): once the Run's first
\* turn is over, nobody is at work and nothing is on its way, a control the API
\* acknowledged and no turn took has at least an outbox row, so that a notification woke
\* the Run for it.
AtRest ==
    /\ work[Initial].state = "settled" /\ dead = {}
    /\ api.at = "idle" /\ \A p \in Worker : pc[p] = "idle"
    /\ \A w \in Work : queue[w] = 0 /\ outbox[w] # "pending"
AcceptedNeverOrphaned ==
    AtRest => \A i \in accepted : control[i].state = "pending" => outbox[i] # "none"

\* As long as no process died, no message was dead-lettered and no turn failed,
\* a control's event is in the log at most once, and exactly once when the inbox says
\* applied, whichever turn and lane it was applied in. (A rejected control has its event
\* when the append was durable and raised.)
Unfailing == crashes = 0 /\ dead = {} /\ \A w \in Work : work[w].result # "failed"
AppliedExactlyOnce ==
    Unfailing => \A i \in Input :
        effects[i] <= 1 /\ (control[i].state = "applied" => effects[i] = 1)

\* A settled item's result is final: no late settlement, recovery or reclaim
\* rewrites it.
SettledIsFinal ==
    [][\A w \in Work : work[w].state = "settled" => work'[w] = work[w]]_vars

\* Every notification handed to the broker ends with its item settled, its turn
\* closed and a non-success audited (a rejected turn is not audited), or in the
\* dead-letter queue, as long as no process dies and one worker consumes.
Rejected(w) == work[w].result = "failed" /\ work[w].dispatch = "never"
Concluded(w) ==
    /\ work[w].state = "settled" /\ turns[w] = 1
    /\ work[w].result = "succeeded" \/ audits[w] = 1 \/ Rejected(w)
EveryNotificationConcludes ==
    \A w \in Work : sends[w] > 0 ~> Concluded(w) \/ w \in dead

\* A control the API accepted is applied or rejected in the end, or its own work
\* item is dead-lettered, as long as no process dies and one worker consumes.
AcceptedControlsAnswered ==
    \A i \in Input : i \in accepted ~>
        control[i].state \in {"applied", "rejected"} \/ i \in dead
=============================================================================
