# Verification of the Thymira runtime

TLA+ models of the protocols that govern a Thymira *Run*, TLC runs over small instances of
them, and TLAPS proofs for every size. Every definition is translated from the Python source;
`PROJECT.json` maps each of them to the lines it stands for.

Abbreviations for paths used below:
`core` = `src/runtime/core/src/thymira/core`, `state` = `src/runtime/state/src/thymira/state`,
`policies` = `src/runtime/policies/src/thymira/policies`, `events` =
`src/packages/events/src/thymira/events`, `api` = `src/apps/api/src/thymira/api`,
`tools`, `agents`, `thy` = `src/runtime/<name>/src/thymira/<name>`.

## 1. The system

A Run answers one analytical prompt. **THY** plans and executes, **MIRA** audits, the **Policy
Engine** decides through the **Gate**, the **Tool Manager** runs tools, and a hash-chained
**event log** per Run is the evidence and the only source of the Run's state. State is local
JSON and JSONL; RabbitMQ carries notifications only.

There are two ways a Run is driven:

* *inline* (the default API composition, `api/deps.py`): the thread that created the Run
  executes the graph after its response was sent, and each approve, reject or resume request
  executes it again inside the request's own thread. All of them append to the same log.
* *owned* (`core/worker.py`, `core/lifecycle_worker.py`): the API only records control inputs
  and work; worker processes take notifications from the broker, claim the work item, own the
  Run through a file lock, apply the controls and execute the graph.

### Inventory

The column *Modules* names where the part is modelled; a dash means it is not, see section 5.

| Part | State | Operations | Talks to | What makes it correct | Modules |
|---|---|---|---|---|---|
| Run state machine (`core/run_state.py`) | stage, condition, wait reason, outcome, version | 14 commands | pure | a terminal Run never moves; only listed commands are accepted | `RunState`, `RunMachine` |
| RunController (`core/control_plane.py`) | the Run's events | replay, compare-and-set append of a transition, unconditional append | every writer of the Run | the stored history is always one the state machine accepts | `RunControl`, `Intake` |
| Graph composition (`core/graph/compose.py`, `checkpoint.py`) | checkpoint: graph state and next node | intake nodes, execution gate, THY, MIRA, Gate, complete, routes, rework, escalation | controller, Gate, THY, MIRA | THY works and Runs complete only under the decision that allows it; MIRA audits finished work | `RunControl`, `Intake` |
| Run service and routes (`core/runs.py`, `core/dispatch.py`, `core/execution_review.py`, `api/routes`) | none of its own | create, approve, reject, resume, cancel, fail, plan, answer | controller, Gate, dispatcher | a rejection is final; no Run is left active with nobody working on it | `RunControl`, `Intake`, `Publication` |
| Gate and approvals (`policies/gate.py`, `approval.py`, `approval_scope.py`) | events only | decide, request, answer, pending fold, scope closure | event log | nothing goes on that no human approved | `RunControl`, `ToolCall` |
| Interview and preflight (`core/risk_interview.py`, `core/graph/adapters.py`) | profile, questions, reviews, audit evidence | ask, answer, judge, escalate, assess, classify | controller, Gate, model | nothing is classified without its grounds; a waiting Run can go on | `Interview`, `Intake` |
| Control inbox (`state/_lifecycle_inbox.py`) | one record per input, ordinals, a lock | enqueue, retry, claim, apply, reject | API, owner loop | every accepted input is applied once or rejected | `OwnerLoop` |
| Work board (`state/_lifecycle_work.py`) | one record per work item | claim, mark dispatched, settle, recover | owner loop | one execution per item; a settled result is final | `WorkBoard`, `OwnerLoop` |
| Owner loop (`core/lifecycle_worker.py`, `lifecycle_adapter.py`, `worker.py`) | process locals, owner lock | process, repair, recovery, controls, settlement, turn closure, terminal audit | all of the above | a turn closes once, also across deaths and redeliveries | `OwnerLoop` |
| Outbox, dispatcher, broker (`core/queue.py`, `rabbitmq.py`, `state/_lifecycle_files.py`) | outbox rows, queue, dead letters | publish, mark published, deliver, acknowledge, dead-letter | owner loop | a notification is not lost | `OwnerLoop` |
| Publication (`state/lifecycle.py`) | manifests, Run directories, Session links | prepare, commit, recover | owner registry, board | a Run is visible completely or not at all; one Run per key | `Publication`, `PublishedRuns` |
| Owner registry (`state/_lifecycle_owner.py`) | lock and epoch per Run | acquire, release, assert live | everything that writes as owner | one live owner | `Publication` |
| Event log files (`events/log.py`, `file_access.py`, `state/local_run_store.py`) | JSONL file, projection, parsed cache, a lock | append, read, verify, version | every component | what was acknowledged stays; a damaged log is never written again | `EventLog`, `VersionedLog` |
| Tool Manager (`tools/manager.py`) | workspace lock, the log | validate, decide, run, record | Gate, event log | an approval buys one execution of one exact call; every call has one record | `ToolCall` |
| Approval tickets (`tools/approval_ticket.py`, `policies/approval_scope.py`, and MIRA's A3, A6) | events only | what the log decides about a call | Tool Manager, MIRA | the producer and the auditor agree | `ToolTickets` |
| Delegation and settlement (`agents/delegation.py`, `agents/settlement.py`, `thy/nodes/execute.py`, MIRA's A31) | events, resume bundles, progress in the checkpoint | delegate, park, resume, settle, finalize | controller, checkpoint | every delegation is settled once; nothing stays parked in a Run that ended | `Settlements`, `Delegation` |
| Artifact store and announcements (`state/local_store.py`, `core/graph/adapters.py`, `tools/manager.py`, MIRA's A5, A10) | objects, history, manifest, a lock; each store's own manifest in memory | save a batch, list, verify, announce, audit | passes, tools, event log, MIRA | a batch appears as a whole and stays; what is announced is there, and what is there is announced | `Artifacts`, `ArtifactBatches` |
| Settings, plan board, goal operations (`state/settings.py`, `board.py`, `dag.py`) | revisions | compare and set | API | no update is lost | - |
| PostgreSQL repositories | tables | the same ports | | the atomicity of a transaction | `PublishedRuns` (publication) |
| Policy Engine, agents' models, MIRA's other controls | none | pure evaluation, model loops | | deterministic rules | - |
| Sandbox, workspaces, sessions, projects, web, CLI, observability | files, records | | | outside the protocols modelled here | - |

### What is hard about it

* several threads or processes append to one log between each other's read and write;
* terminal facts (`run.completed`, `run.failed`) are separate appends after their transition;
* the graph checkpoint and the log are written at different moments and shared by passes;
* one review can be answered on two routes and is read by two folds with different precedence;
* locks never wait: a busy lock raises, after an effect may have happened;
* a process may die between any two durable writes; an append that raises may have been durable;
* messages are redelivered or duplicated, and some returns acknowledge a message whose work is
  not done;
* a control may be applied by a turn, by a model step inside the graph or by its own work item;
* two programs read the same log by rules written twice: the Tool Manager and MIRA's A3 and A6,
  the finalizer and MIRA's A31;
* an artifact is stored and announced in two steps, by stores that each have the manifest in memory;
* a model is called between the reading of a question and the record of its answer.

`PROJECT.json` lists each of these as a hazard, at its line, with the properties for it.

## 2. Modules

| Module | What it holds |
|---|---|
| `WorkBoard` | the durable work record and its five operations |
| `OwnerLoop` | API, inbox, outbox, broker and worker processes around one Run |
| `RunState` | stages, conditions and commands of a Run, and what each command does |
| `RunMachine` | abstract: a Run's history is accepted commands, one after the other |
| `RunControl` | graph passes and requests over one Run's log, with the inline dispatcher |
| `Interview` | what the log says of an intake: questions, profiles, reviews, preflight evidence |
| `Intake` | passes and requests from a Run's creation to its execution gate |
| `PublishedRuns` | abstract: a Run is staged in private and committed in one transaction |
| `Publication` | the file repository, its locks, recovery, owners and dispatch |
| `VersionedLog` | abstract: an append-only history with compare-and-set and honest answers |
| `EventLog` | the files of a Run, the append protocol, the parsed cache, failed writes |
| `ToolTickets` | what the log says of a tool call, read by the Tool Manager and by MIRA |
| `ToolCall` | the Tool Manager: callers, the Gate, humans, policies that change, deaths |
| `Settlements` | what the log says of a delegation, read by the finalizer and by MIRA |
| `Delegation` | passes over a plan: steps, parks, resumptions, cancellations, settlement |
| `ArtifactBatches` | abstract: a batch of artifacts appears in one step, and what was flushed stays |
| `Artifacts` | passes with stores over the same files, announcements, MIRA's audit, power losses |
| `MC...` | symmetry sets and the values of function-valued constants, for TLC |
| `OwnerLoopProofs` | the proofs about `OwnerLoop` |
| `RunControlProofs` | the proofs about `RunControl` |
| `PublicationProofs` | the proofs about `Publication` |
| `ArtifactsProofs` | the proofs about `Artifacts` |
| `EventLogProofs` | the proofs about `EventLog` |
| `ToolCallProofs` | the proofs about `ToolCall` and the pools of `ToolTickets` |
| `DelegationProofs` | the proofs about `Delegation` |
| `IntakeProofs` | the proofs about `Intake` |

`OwnerLoop` extends `WorkBoard`; `RunControl` and `Intake` extend `RunState`; `ToolCall` extends
`ToolTickets`, `Delegation` extends `Settlements`, `Intake` extends `Interview`. Four modules are
shown to implement an abstract one: `RunControl` implements `RunMachine`, `Publication` implements
`PublishedRuns`, `Artifacts` implements `ArtifactBatches`, and `EventLog` implements `VersionedLog`,
which is the log that the other modules take for granted: an append is atomic, a fresh reader is one
nobody wrote after.

The modules share the code's seams. A Run that `Publication` makes visible is the one `OwnerLoop`
owns or `Intake` starts on; `Intake` ends where the execution gate of `RunControl` begins; THY's
step in `RunControl` is the plan of `Delegation`, whose steps call the tools of `ToolCall`, which
save and announce the artifacts of `Artifacts`. Each
module lets its neighbours do anything they can do at the seam: `RunControl` lets THY finish, stop,
park or raise; `Delegation` lets a step ask for a review at any time.

The operators marked *Seeded bug* are used by no action: each is a definition of the model changed
the way a plausible bug would change it, and each property of a passing run has one that breaks it.

### OwnerLoop

A step is one durable write, or one read that decides where the process goes. `pc` names the
place in `LifecycleOwnerLoop.process` (`inspect`, `claim`, `acquire`, `controls`, `apply`, `ack`,
`dispatch`, `execute`, `settle`, `close`, `audit`, `release`, and the two other paths
`acquireRepair`/`repair` and `acquireRecover`/`recover`); `work`, `control`, `outbox` are the
JSON records; `runs`, `turns`, `audits`, `effects` count what the Run's log shows. `Crash(p)`
may happen at every label: locals and file locks go, the unacknowledged message returns to the
queue. `ApiCrash` may happen between the control record, the work item and the outbox row.

* A claim is named by its attempt number. The code compares owner, token and attempt; every claim
  writes a fresh token together with a new attempt, so the comparisons agree.
* `condition` is what the controls themselves did to the Run. The controller may refuse any input,
  and its handler may raise, before the durable append or after it: `RefuseControl`, enabled always.
* The filter of the controls by target turn is left out: every control is one the turn may apply.
* The states `CANCELLED` of the inbox and of the board are in the schemas and written by no code,
  so the model has neither.
* The graph's execution is one label: what it does inside is the subject of `RunControl`.

### RunControl

A step is what a thread does between two accesses to the log or the checkpoint. `run` is the
fold of the transition events; `kind`, `open`, `answers` fold the reviews and their answers;
`anchor` is what the last `resume` recorded; `ckpt` is the latest checkpoint, written at every
node boundary. A transition takes two steps: `Read` computes it and remembers that nobody wrote
since (`fresh`), `AppendTx` appends it only if that still holds. All other events are appended
unconditionally and clear `fresh`.

Kinds of review: `execution` (start of execution), `tool` (a call of THY), `findings`,
`escalation` (of a rework) and `plan` (the plan route). A pass carries the two verdicts it read
or was given (`exec`, `verdict`), whether it reworks and how often it reopened.

Environment choices: what the Policy Engine decides, whether THY finishes, stops or raises,
whether MIRA raises, whether an audit is still fresh, when the findings ask for rework.

* `policy.decision` and `human.approval_requested` of one review are one append: no reader acts
  on the first without the second.
* Two reads in succession with no decision between them are one step. Answers are only ever
  added, and each such pair reads the condition and the answers of one Run, so what the merged
  step excludes is a thread that carries the older condition one step further.
* The freshness check of a tool review after a rework may be skipped or made; the model skips it.
* What precedes the execution gate is in `Intake`, parked delegations are in `Delegation`, the
  host pause is in `OwnerLoop`. The commands `pause`, `wait_for_information` and
  `begin_experiment` are in `RunState` and `RunMachine`, and no action here sends them.
* A pass does not die half way here; deaths are the subject of `OwnerLoop` and `Delegation`.

`Patient = TRUE` says that clients wait until no thread is at work before they send the next
request. It is an assumption about clients, not about the code, and separates what goes wrong
only under overlap from what goes wrong in plain sequences of requests. `Intake` has the same
parameter; in `Delegation` it makes a cancellation and a pass wait for each other.

### Intake

The intake nodes of the graph and the requests of that time: `Answer`, `Resume`, `Resolve` (a
review), `Govern` (a review on the governance route) and `Cancel`. `asked`, `reviews`, `audit` are
the questions, review requests and preflight evidence in log order; `profile` is the profile
recorded last, `ckpt` the node the checkpoint runs next, `current` the threads that read the Run's
latest transition. `Fault` is a read or an append that raises. An append may raise before its event
is in the log or after it (`secure_file` and `_rebuild_projection` follow the durable write in
`LocalRunStore.append`), which is a `Fault` at the next place. In a pass it fails the Run, in a
request only the request. `lost` remembers the two that nobody follows up: a `RESUME` that is in the
log and raised, and a `FAIL` that raised or was refused. The model's judgment of an answer (a fact, a placeholder, an insufficient answer) is a
choice, and so is the risk assessment.

* A preflight binds one audit pack; the code binds one per domain in a row.
* A transition reads and appends in one step; its conflict is one more `Fault`. The expiry of an
  authorisation context is one too: contexts are issued and used within one call.
* The review of a limit or of an uncertain assessment is checked and answered in one step;
  `RunControl` has the race of two answers.
* The answer event of the context extraction and the profile it leads to are one step.
* Not there: `_request_human_context`, which no path reaches (`MAX_RISK_UNCERTAINTY_ATTEMPTS` is 1).

### Publication

A step is what happens between two durable writes or lock operations of `prepare_publication`,
`commit_publication`, `recover_publications` and `RunService`'s dispatch. Every client stages at
most one manifest, so a Run is named by its client; a client that repeats a request under the same
key adopts the manifest it finds. `chain` tells a Run's directory from its creation event, `work`
the work item from its outbox row and from its announcement, `links[s]` is the Session record that
is read whole (`copy`) and written back; `keyLock`, `sessionLock`, `runLock` are the operating
system's locks, `epoch`, `active`, `held` the owner record and the handle. `Die(p)` and the failing
writes may cut a call anywhere.

* Nothing in the product calls `recover_publications` or builds `QueueDispatcher`; both are
  modelled as the library offers them. `Execute` stands for a worker of `OwnerLoop`.
* What a request says besides its key is its Session: the rest decides only whether two requests
  with one key are the same.

### EventLog

`file` is a sequence of chunks, one per event that was begun; a chunk is `partial`, `bare` (only
its newline is missing) or `whole`. `synced` is how much a loss of power leaves alone, `projection`
what `run.json` shows, `cache` what the parsed-log cache read and whether it verified. A writer takes
position and predecessor of its event from the `head` its log object remembers: what the file was
when the log was opened (`OpenLog`), or when its tail was found changed (`CheckTail`). Only the lock
keeps that head the end of the file until the write. `lock` is the append lock of the process; readers take none, so they see the file in the middle of a write.
`Fail` is a file operation that raises, `Stop` the end of the process, perhaps with the power.

* An event is its call, its position and its predecessor: a hash names the event it is of.
* One process, as the code documents (ADR-0010): the append lock is a lock of threads.

### ToolTickets and ToolCall

`ToolTickets` has no state: it reads a log. `Disposition` is what the Tool Manager finds
(`approval_ticket.py`, `approval_scope.py`), `Authorised` and `Explained` are MIRA's controls A3
and A6, written separately as they are in the code. A ticket is the digest of one exact call, a
surface the policy snapshot together with the constraints a decision was taken under. `ToolCall`
takes each call from its validation to its closing record, one log access per step; the engine's
verdict depends on the surface, and a surface changes only between passes (`Move`). `Core` records
that a pass or the Run ended, which closes the scope of its approvals; `Tick` lets deadlines pass.

* The workspace lock is held from the last reading to the closing record; a failed write or a death
  cuts the call off (`lost`).
* Scope digests, and records of older formats, are left out. `abort_pending` is called by tests only.

### Settlements and Delegation

`Settlements` has no state: a trail is the records of one delegated invocation in log order.
`IsOpen`, `Repairable` and `Missing` are the finalizer's reading, `PassesA31` is MIRA's. In
`Delegation` passes go through a plan of tasks: a step is delegated, completes, raises or parks on
a review; a parked step saves a bundle, the Run waits, and a resumption goes on with it. A step of
the plan may ask for a tuning helper. `ckpt` is the progress in the checkpoint, which is saved
after the Run was made to wait. The finalizer (`look`, `close`, `settle`, `tell`) runs before the
Run completes, fails or is cancelled. An append that raises may be durable; a thread may die.

* The model loop inside a step is its outcome; waves of tasks, which run only without tools, are
  not modelled.
* The unkeyed parent message that `_failed_resume` writes for a trail that is closed is left out.

### Artifacts

`save_artifact_batch` is five steps: the objects are staged under the lock (`Save`), their
directories flushed (`Flush`), the revisions they supersede copied to `.history` (`Archive`), the
manifest replaced (`Replace`), read back and flushed (`Finish`). `files` and `flushed` are the
objects and copies, and those a loss of power leaves alone; `images` are the manifests it may leave.
`job[p].view` is the manifest in the memory of a pass's own store, which only its own saves renew.
`FailEarly` and `FailLate` are the two sides of `manifest_attempted`; after the replacement the
batch is a success all the same when the manifest reads as meant, although nothing flushed it:
`unsure` has its revisions until a later flush or a loss of power decides. `StartCall`, `CloseCall`
and `Announce` are the Tool Manager's, `Record`, `RecordOne` and `Recorded` Core's bookkeeping after
THY; a report is announced at once (`Stored`).

* A revision stands for its id and its digest: distinct revisions have distinct bytes.
* A file system keeps the order of changes within one directory, so the entries of `.batches` and
  `.history` in the root are durable when the manifest that was replaced after them is; directory
  flushes that fail silently (`fsync_directory`) are not modelled.
* A death between calls is the same as a pass that leaves.
* `set_lineage` and `invalidate` have no caller in the product (`cascade_invalidation` is unused).

## 3. Runs

Sizes are distinct states. `CHECK_DEADLOCK FALSE` everywhere: workers idle on an empty queue,
clients of a Run that ended may send nothing more, and bounds on reads, calls and faults run out.

| Run | Checks | Instance | States |
|---|---|---|---|
| `owner_race` | `TypeOK`, `ExecutedAtMostOnce`, `TurnClosedOnce`, `AppliedExactlyOnce`, `SettledIsFinal` | 2 workers, a `RESUME` that the step lane may apply too, with its work item, the first item's row published up to twice, 1 death of a worker or the API, clock to 1, symmetry | 799 thousand |
| `owner_live` | `EveryNotificationConcludes`, `AcceptedControlsAnswered` | 1 worker, a step-lane `CANCEL`, clock to 2, no death, fairness | 14 thousand |
| `control_overlap` | `TypeOK`, `FactsAgree`, `ThyAuthorised`, `HistoryReplays`, `CompletionAuthorised` | 2 threads, 2 reviews, reject, resume, cancel, plan and the governance answer, symmetry | 1.53 million |
| `control_turns` | `RejectionHolds`, `LostOnlyInTwoWays`, `EveryRunSettles` | patient clients, 3 reviews, one reopen, approve, reject, resume and the governance answer, fairness | 52 thousand |
| `intake_rounds` | `NobodyIsStuck`, `ClassifiedOnGrounds`, `IntakeEnds` | 3 facts, 4 questions and 2 per fact, patient clients, 2 reads or appends that raise, fairness | 341 thousand |
| `publication_race` | `OneRunPerKey`, `ReceiptsConverge`, `HandleIsCurrent`, `PublishesAtomically` | 2 clients, a recoverer, a worker, 2 Sessions, 1 key, 2 owner epochs, symmetry | 822 thousand |
| `log_files` | `ChainNeverForks`, `OnlyCutsBreak`, `CacheIsTransparent`, `ReadsSeeWhatWasTold`, `KeepsItsPromises` | 2 threads, 2 appends, 2 reads, 2 faults, symmetry | 183 thousand |
| `tool_calls` | `OneYesOneRun`, `RejectionIsFinal`, `StartsPassTheAuditPerDepth`, `DenialsPassTheAudit`, `FreshYesBuys`, `OneRecordPerCall` | an agent and its delegate, 3 calls of one effect, 4 surfaces, deadlines | 393 thousand |
| `delegation_steps` | `SettledOnce`, `AuditAccepts`, `NoParkIsLost`, `EveryRunEnds` | 2 threads, a plan of two tasks in a row of which one tunes, 2 reviews, 1 fault or death, fairness | 108 thousand |
| `artifact_batches` | `NothingIsLost`, `AuditPasses`, `BatchesAreAtomic` | 2 passes with their own stores, 2 names, 3 revisions, 2 faults, symmetry | 1.12 million |

Why the bounds are enough for the cases they are after:

* *Owner loop.* Two workers and a claim that lives one tick are what a race for one item needs; a
  row published twice plus the redelivery after a death gives three deliveries, so that both
  workers may lose before a third attempt. `MaxSends` bounds each row by itself (`MCOwnerLoop` has
  its values). One control and its own work item give all three ways it can be applied.
* *Run control.* A conflict needs two writers, and a client thread that finished one request is
  free for the next; two reviews are what it takes to answer the wrong one, and a third shows a
  sequence of parks in one pass. When the model's reviews are used up, a pass can no longer ask and
  only its other choices remain. The default reopen budget is 2; the instances use 0 and 1, which
  reach the budget, the rework and the escalation.
* *Intake.* Two questions a fact reach its limit, four questions the limit of the interview before
  all three facts have been asked twice; in the code they are
  3 and 12. Two faults are one that fails a pass and one that loses its `FAIL`.
* *Publication.* A key is shared by two clients, or not; the recoverer is the third process that
  may adopt a manifest, and a third epoch would repeat the second.
* *Event log.* Two appends, one of them cut, and a writer and a reader in between; two faults are a
  failed write and the end of the process that follows it.
* *Tools.* Three calls are one that is approved, one that spends and one that must not; `MaxTrouble`
  is a budget for what happens around them (an answer, a tick, a pass or Run that ends and a change
  of surface cost one, a refusal, a failed write and a death two).
* *Delegation.* A second task depends on the first, a helper runs beside a step, and four
  invocations allow one task to be delegated twice.
* *Artifacts.* Three revisions of two names are a batch and one that supersedes part of it, or three
  batches in a row under one name; two faults are a failure and the loss of power that follows it.

`control_turns` says precisely how far sequences of requests are safe. An active Run with nobody
at work on it cannot be resumed (the code refuses to resume an active Run, `compose.py:440`).
`LostOnlyInTwoWays` shows the two histories that lead there, and no other: the escalation of a
rework was answered, or findings were rejected on the governance route, which records the answer
only, and the Run was resumed afterwards. `EveryRunSettles` therefore excuses a Run that reached an
escalation, answered or not, and one whose findings were rejected.

Some properties name the exceptions under which they do not hold; each exception is a behaviour of
the code, reached in the run:

* `StartsPassTheAuditPerDepth` and `DenialsPassTheAudit`: an execution at another delegation depth;
  a refusal, closure or deadline after the manager's last reading (`Overtaken`); a denial whose own
  review was approved meanwhile; a denial on a Run that had ended.
* `FreshYesBuys`: a start that needed no approval under an earlier policy is charged like any other
  and eats the next approval of its call. Two overlapping passes can spend one approval twice; the
  instance has one pass at a time (`Overlap = FALSE`).
* `NoParkIsLost`, `EveryRunEnds`: two open parks refuse every end of the Run (*multiple parked
  delegations*). Two ways lead there: a tuning helper parks beside its step, and its park is never
  resumed; or the Run is resumed, or the process dies, between the wait and the checkpoint that
  remembers it, and the task is delegated a second time. A park that a fault cut, settled without
  its completion, stays open too, and the next task may park beside it: the count is of the parks
  that no fault touched. `SettledOnce` and `AuditAccepts` leave out
  invocations that a fault touched: an append that raises after it was durable makes completion and
  settlement disagree.
* `NobodyIsStuck`, `IntakeEnds`: an append that raised is made up for, but for two (`Abandoned`). A
  `RESUME` that is durable and raises ends the request before the graph is dispatched (`advance` in
  `resume`, `resolve_approval` and `answer_risk_interview`); a `FAIL` that is refused, because
  another event came in between, or raises is only logged by the dispatcher. Either leaves the Run
  active with nobody at work; `resume` refuses an active Run, and only a cancellation ends it.
* `AppliedExactlyOnce` asks only while no process died, nothing was dead-lettered and no item failed:
  a worker that dies between a control's event and its acknowledgement leaves the control claimed,
  and whoever claims it after the expiry repeats the event.
* `AuditPasses` asks for A10 only of a pass whose store has the current manifest, when nothing
  announced is unsure (*Artifacts* below).
* `ClassifiedOnGrounds`: a pass that outlives the cancellation of its Run still classifies.
* `OnlyCutsBreak`: a line that lacks only its newline is accepted, and the next append makes one
  unreadable line of both; from then on nothing is appended.

### Where code and documentation disagree

Each of these runs checks one sentence the repository says about the program, and TLC shows a
behaviour of the code that breaks it. The findings in `PROJECT.json` quote the sentences.

| Run | Property | What happens |
|---|---|---|
| `owner_orphan` | `AcceptedNeverOrphaned` | the API dies between a control's work item and its outbox row: the retry finds the item, writes no row and is acknowledged, so nothing ever wakes the Run for an accepted control |
| `publication_hole` | `VisibleHasCreation` | a creation cut between its directory and its first event is completed by recovery or a retry without the event: a visible Run whose log is empty |

Behaviours the models show that no run forbids:

* MIRA's fold of answers and executions has no delegation depth (`ticket_pool.py:153`), the Tool
  Manager's has: an execution of a call at another depth that needed no approval spends, for MIRA
  alone, the approval of this one, and control A3 reports an execution the manager rightly allowed.
  `ticket_pool.py:51` names such a finding on a correct Run as what must not happen.
* (*Owner loop*) A redelivery before the dead worker's claim expires is acknowledged; nothing wakes the Run again.
* The work item of a `CANCEL` that an earlier turn applied applies nothing and invokes the graph.
* Two concurrent answers of one review both see none and are both recorded.
* The late `RESUME` of an answer to an earlier review takes the Run out of a later, unanswered one.
* An approved escalation can still complete the Run when another pass, resumed from an older
  checkpoint, repeats the Gate node.
* With impatient clients an interview can be left so that only a cancellation helps: a resumption
  during the judgment of an answer asks again for the old profile, then the answer records a new
  one, and `answer` and `resume` both refuse. Two questions can be pending at once, and a stale
  answer can lose a fact another one recorded.
* Two passes in one preflight bind the pack twice, and every later pass fails the Run for
  incomplete evidence.
* Without `Patient`, a cancellation that reads a parked step while another thread resumes or settles
  it appends what that reading lacked: both complete and settle the same delegation, and
  `SettledOnce` is violated.
* A manifest that was replaced but not flushed, because its read-back or permission check raised, is
  reported as stored; a loss of power can take it back after its revisions were announced.
* Control A10 raises a false alarm for a pass whose store is stale because another pass saved and
  announced under the same name, and for the audit of a Run that died between a save and its
  announcement. `AuditPasses` asks for A10 only when the store has the manifest of the files.
* An append rewrites `run.json` after its event is durable; a reader that puts back an older
  projection at that moment makes the append raise for an event that was recorded.
* A Run whose creation event is missing makes the listing of all Runs raise.

### Fairness

`OwnerLoop!LiveSpec`: a worker that holds a delivery runs its handler to the end and takes the
next message (weak fairness of its steps and of delivery), an enqueue in progress completes, the
process that wrote an outbox row publishes it once and marks it (the code does both in the same
call), and time passes. Nobody has to enqueue, retry or publish twice, and nobody has to die. The
liveness run has one worker and no deaths because with them a notification can be lost (a
redelivery that is acknowledged, and `owner_orphan`, above): what is checked is that nothing else loses one.

`RunControl!LiveSpec`: a thread that is at work is scheduled, and as long as the Run waits on a
review some client eventually answers it, or resumes it when it was answered elsewhere. The first is the operating system's scheduling; the
second is an assumption about people, without which a waiting Run waits by design. It is strong
fairness of answering and of resuming, because patient clients take turns: a request of one makes
the other's wait, again and again, without ever disabling it for good.

`Intake!LiveSpec` is the same for its requests: weak fairness of each thread's work, strong fairness
of an answer, a resumption and the resolution of a review. `Delegation!FairSpec`: some thread at
work takes its next step, reviews are answered, the Run is started (weak fairness), and it is
resumed (strong fairness, for it may be parked and cancelled in between).

Action properties and invariants use the specifications without fairness, and hold all the more
with it.

## 4. Proofs

All theorems hold for any finite or infinite set of workers, threads, reviews, clients, Sessions
and keys, and for all bounds that satisfy the named `ASSUME`s of the modules; `Input` is finite,
because the next ordinal of the inbox counts the records, and so is `Name`, the names of artifacts.

*Owner loop.* `OwnerLoopProofs!TypeCorrect` is type correctness. `OwnerLoopProofs!Invariance`
proves the inductive invariant `IInv`, the conjunction of types and `Consistent`. The safety
properties are not inductive: that a graph is invoked once rests on two mechanisms that guard
different intervals. Claims are fenced by attempts (`ClaimInv`, `UniqueInv`): two processes with
the same item never both hold its claim. And from dispatch on, the owner lock keeps recovery away
from a process that still executes (`OwnerInv`, `RecoverInv`). `BoardInv` and `TurnInv` connect
both to what the log shows. From it follow `AtMostOneExecution`, `ExecutorsKeepTheirClaims`,
`HonestSettlements`, `TurnsCloseOnce` and `SettlementIsFinal`.
`AppliedOnce` needs one invariant more, `AppliedInv`: as long as nobody died and no item failed, a
claimed input is the one its only claimer is answering, with its effect in the log from the
application to the acknowledgement and not before (`ResultInv`, `InboxLog`).

*Run control.* `RunControlProofs!ControlTypeCorrect` is type correctness, including that no pass
exceeds the reopen budget. `RunControlProofs!ControlInvariance` proves `ControlInv`: while a
reader is fresh its snapshot is the Run and its command is allowed on it (`CasInv`); a thread on
its way to a terminal fact asked for the matching transition (`PairInv`), is alone on that way,
and the fact is not there yet (`ClosingInv`, `FailingInv`); an outcome is set only on a terminal
Run (`OutcomeInv`). From it follow `FactsAreHonest` (a fact about a Run is true and written
once), `TerminalIsFinal`, and `HistoriesReplay`: the initial state of `RunControl` is one of
`RunMachine`, and each step is one of its commands or leaves the Run alone.

*Authority.* `RunControlProofs` proves that THY works (`ThyIsAuthorised`) and a Run completes
(`CompletionsAreAuthorised`) only under the decision that allows it. Neither is inductive: a pass
may be resumed from a checkpoint that another pass left, and a verdict may name a review that
somebody else answers. `AuthorityInv` says what each place of the graph takes for granted of the
graph state it carries (`Entitled`): nothing before the execution gate, a granted execution verdict
behind it, a cleared findings verdict behind the Gate's decision; and that a graph state is
`SoundGraph`: the reviews it names have the kind their place asks for, and only granted work is
reworked. Both hold of every thread and of the checkpoint, so resuming carries one over to the
other. That a kind is given once and answers are only added (`Grows`) keeps them true.

*Turns.* `RejectionHolds` and `LostOnlyInTwoWays` need clients that wait for each other, the
hypothesis `Patient` of `TurnsInvariance`, `RejectionHoldsAlways` and `LostOnlyInTwoWaysAlways`:
without it both an approval and a rejection of one findings review may be recorded, and the last
one decides.
`TurnsInv` says that, unless the Run ended short of completion (`Over`, which no step leaves), each
review is answered once (`Once`), and one thread at most is at work and its place `Suits` the Run.
There are seven ways to suit it: the Run completed, and nothing that binds it is rejected or may
still be answered (`Done`); it waits, and the checkpoint is of the pass that parked it (`Held`); it
is lost; a pass is on its way with every binding review approved, but for the one it is about to
decide on (`OnPass`); a pass that just parked it ends (`Parking`); a request that found the answer
dispatches it; it is about to fail, block or be cancelled (`Ending`). That the edge selected by a
resume leads to where the answered review was asked is the heart of it (`DispatchKept`): an
execution or tool review leads behind the execution gate with nothing left unapproved, the others
behind the Gate, where only an approval of the findings goes on. Where it leads nowhere
(`RouteGateKept`), the Run is lost, by one of the two ways `LostOnlyInTwoWays` names. A completion
closes the pending reviews (`open`), so none that binds the Run is answered after it.

*Publication.* `PublicationProofs` is a rely-guarantee argument: `PlaceInv` says, for each process
by itself, what the files and locks look like at its place, and each other process's steps are
shown to leave that alone because of the lock it holds. On it rest one Run per key
(`OneRunPerKeyAlways`), receipts of visible Runs (`ReceiptsConvergeAlways`), one live owner
(`HandleIsCurrentAlways`), Session records that lose no link (`LinksSurviveAlways`), and the order
of the durable writes of a Run (`ChainInv`, `RunInv`). `PublishesAtomicallyAlways` is the
refinement: the file repository, with all its deaths, retries and recoveries, implements the
transactional one. `HoleOnlyFromCutAlways` says that the disagreement `publication_hole` shows has
one cause only.

*Artifacts.* `ArtifactsProofs!StoreInvariance` proves an `IInv` in four parts. The lock makes one
pass the only saver, and its batch is new to every manifest until it replaces the last one
(`SavingAt`). Every manifest a loss of power may leave is complete on flushed files, lacks only
revisions that nothing flushed, and lacks some of those unless it is the last one (`ImageInv`):
this is what makes `unsure` the whole of what may be lost. A store in memory is an older manifest
of which nothing went (`ViewAt`), so a pass that records and audits from it speaks of revisions
that are there (`AuditAt`, `LogInv`). From it follow `NothingIsLostAlways`, `AuditPassesAlways` and
`BatchesAreAtomicAlways`, the refinement: replacing the manifest is the one step in which a batch
appears, with all its names, and its final flush the one that makes it safe.

*Event log.* `EventLogProofs!LogInvariance` proves an `IInv`: every event extends the one before it
(`Links`), only the last two lines can be torn (`Shapes`), the lock leaves one writer, and from the
time it opened the log until its write the head that writer remembers is the whole file (`JobInv`),
so position and predecessor taken from it are those of the file's end. `ChainNeverForksAlways`,
`OnlyCutsBreakAlways`, `CacheIsTransparentAlways` and `ReadsSeeWhatWasToldAlways` follow, and
`KeepsItsPromisesAlways` is the refinement to `VersionedLog`.

*Tool calls.* `ToolCallProofs!CallInvariance` proves an `IInv`: a call on its way to its start read
no refusal, one on its way to a denial can name what refuses it (`Knows`), and a call has its record
exactly when its caller is done with it (`RecordInv`). `RejectionIsFinalAlways`,
`DenialsPassTheAuditAlways` and `OneRecordPerCallAlways` follow, also for passes that overlap.
What an approval buys is an induction over the log. The library's induction theorems are out of
reach, so `FromZero` proves induction over a set of naturals from the least number outside it, and
`CountNext` that a pool, a recursive function, counts one position after the other. What a pool
holds and owes is the answers less the starts (`Balanced`, `Debt`); if in every beginning of the log
the paid starts are no more than the approvals, what is still spendable fits between them
(`Spendable`); MIRA's pool, whose answers are good whenever the manager's are, holds no less
(`Dominates`). So `CreditInv`: every beginning is so (`EveryPrefix`), and a call about to start on
an approval leaves room for itself, in both pools (`Pays`). It is inductive where passes do not
overlap, which is the hypothesis `~Overlap` of the last four theorems: a Run has one owner
(`OwnerLoop`), and two that work at once can spend one approval twice.

*Delegations.* `DelegationProofs!LifecycleInv` proves a `Lifecycle` in six parts, under the
hypothesis `Patient`: a cancellation and a pass wait for each other, for without that the finalizer
ends a step that a pass ends too (section 3). `Alone`: one thread is at work at a time. Hence
`Shape`: a trail that no fault touched is a start and parks, then a completion, a settlement and a
message of one reason (`Layout`); it stands where its thread's next write says (`Phase`), and where
no thread works on it, it is empty, parked, skipped or over (`Rest`). `SettledOnceAlways` and
`AuditAcceptsAlways` follow from it alone. That at most one park waits is a matter of the plan:
`TrailOrder` says that nothing parks once it is settled, `PlanInv` that what is worked on or
carried is the task at the next position, with all earlier ones decided, and `OneWaits` that, unless
a helper parked or a task was delegated twice, what the thread works on, or what the checkpoint ends
with, is all that waits. `NoParkIsLostAlways` follows. `Base` is the typing these rest on: what is in
the log, at work or carried was given out before.

*Intake.* `IntakeProofs!IntakeInvariance` proves an `IntakeInv` under the hypothesis `Patient`, for
any number of facts, question limits, and reads and appends that raise, before their event is in the
log or after it. One thread at most is at work (`Turn`),
and what it carries is said by its place (`Mind`): the profile it read is still the latest where it
asks or classifies (`Knows`), the question it answers is the open one, and what leads to
classification has its grounds (`Grounded`). Around it, at most one question is open and it was asked
for the latest profile (`Interviewed`), also when an append raised between the question and the wait;
and an unanswered review of the question limit is what the Run is parked on, unless the pass that
asked for it is about to park or to fail, or an append that raised ended it (`LimitWaits`), so that no second one is requested. A Run waits only where a node leaves it, so the
checkpoint says where a resumption goes (`Halts`), and the preflight is entered on facts enough
(`Interviews`); an active Run that nobody works on is one whose `RESUME` or `FAIL` raised (`lost`).
The open question and the review of the limit are the last of their kind (`PendingIs`, `LatestIs`); that such
positions exist follows from well-foundedness (`LeastOf`, `GreatestOf`). `NobodyIsStuckAlways` and `ClassifiedOnGroundsAlways` follow.

*Only model-checked.* Liveness is out of the proof system's reach, so
`EveryNotificationConcludes`, `AcceptedControlsAnswered`, `EveryRunSettles`, `IntakeEnds` and
`EveryRunEnds` stay with TLC, on the instances above. Every other property of the passing runs is
stated by a theorem. Two hypotheses on constants occur, both explained above: `Patient` (turns,
delegations, intake) and `~Overlap` (what an approval of a tool call buys).
Under overlap, which `Patient` excludes, the properties of those theorems may fail, and what does
hold there is `ControlInv`, `AuthorityInv` and what follows from them.

## 5. Not modelled

* *Settings store, plan board, goal operations.* Compare-and-set of one document, or of a plan with
  its revisions, under a lock: one reading and one write in a critical section, the version check
  of `EventLog` without its files. Their content is data.
* *PostgreSQL repositories.* A second implementation of the same ports; their atomicity is that of
  database transactions. `PublishedRuns` is what publication does there: the publication row, the
  Run's first event, the Session link and the outbox row are written in one transaction.
* *Workspaces, checkpoint storage.* Files with one writer per name. `RunControl`,
  `Intake` and `Delegation` model the checkpoint as a variable that is written last.
* *Sessions and projects.* Validation and records without a protocol of their own; the Session
  record's list of Runs is in `Publication`.
* *Policy rules, MIRA's other controls, THY's planning, agents' prompts.* Pure functions over
  recorded evidence or policy files, and calls of models: choices of the environment here. What the
  protocols depend on, and what is checked, is what the program does with every possible answer.
* *Parallel waves of tasks*, which run only without tools; *the host pause* as a wait of the graph; *the synchronous mode of the Gate*, which asks a callback.
* *Sandbox, model providers, API shell, web, command line, observability.* Operating system,
  network and presentation.

The map covers about a tenth of the implementation's lines: the rest of the repository is mostly
data models, validation, model calls, presentation and the second storage back end.
