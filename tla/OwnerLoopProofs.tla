-------------------------- MODULE OwnerLoopProofs ---------------------------
(***************************************************************************)
(* Proofs about the owner loop, for any workers, inputs, redeliveries and  *)
(* deaths: types first, then what the board, the owner lock and the log    *)
(* promise each other.                                                     *)
(***************************************************************************)
EXTENDS OwnerLoop, FiniteSetTheorems, TLAPS

\* enqueue numbers a control with the count of the records before it.
LEMMA OrdinalIsNatural == NextOrdinal \in Nat
<1>1. IsFiniteSet({i \in Input : control[i].state # "absent"})
  BY FS_Subset, LoopAssumption
<1> QED BY <1>1, FS_CardinalityType DEF NextOrdinal

\* The board's operations keep a record a record.
LEMMA BoardTypes ==
  ASSUME NEW item \in WorkItem, NEW t \in Nat, NEW k \in OutcomeKind, NEW d \in DispatchState
  PROVE  /\ item.attempt \in Nat /\ Claimed(item, t) \in WorkItem
         /\ Dispatched(item) \in WorkItem /\ Settled(item, k, d) \in WorkItem
         /\ Recovered(item) \in WorkItem
<1> USE ClaimTTLAssumption DEF WorkItem, WorkState, DispatchState, OutcomeKind
<1>1. item.attempt \in Nat /\ t + ClaimTTL \in Nat OBVIOUS
<1>2. Claimed(item, t) \in WorkItem
  <2>1. ASSUME NEW a \in Nat, NEW e \in Nat
        PROVE [item EXCEPT !.state = "claimed", !.attempt = a, !.expires = e] \in WorkItem
    OBVIOUS
  <2>2. item.attempt + 1 \in Nat BY <1>1
  <2> HIDE DEF WorkItem
  <2> QED BY <1>1, <2>1, <2>2 DEF Claimed
<1>3. Dispatched(item) \in WorkItem BY DEF Dispatched
<1>4. Settled(item, k, d) \in WorkItem BY DEF Settled
<1>5. Settled(item, "unknown", "unknown") \in WorkItem BY DEF Settled
<1>6. [item EXCEPT !.state = "pending", !.expires = 0] \in WorkItem OBVIOUS
<1> HIDE DEF WorkItem, DispatchState, OutcomeKind
<1> QED BY <1>1, <1>2, <1>3, <1>4, <1>5, <1>6 DEF Recovered

\* The inbox's assignments keep a record a record.
LEMMA InboxTypes ==
  ASSUME NEW c \in ControlInput, NEW s \in ControlState, NEW l \in Lane, NEW n \in Nat,
         now \in Nat
  PROVE  /\ [c EXCEPT !.state = s] \in ControlInput
         /\ [c EXCEPT !.state = s, !.ordinal = n] \in ControlInput
         /\ Taken(c, l) \in ControlInput
<1>1. [c EXCEPT !.state = s] \in ControlInput BY DEF ControlInput
<1>2. [c EXCEPT !.state = s, !.ordinal = n] \in ControlInput BY DEF ControlInput
<1>3. ASSUME NEW e \in Nat
      PROVE [c EXCEPT !.state = "claimed", !.lane = l, !.expires = e] \in ControlInput
  BY DEF ControlInput, ControlState
<1>4. now + ClaimTTL \in Nat BY ClaimTTLAssumption
<1> QED BY <1>1, <1>2, <1>3, <1>4 DEF Taken

\* A fresh Run's state is well typed: one pending item, an empty inbox.
LEMMA TypeInit == Init => TypeOK
BY LoopAssumption DEF Init, TypeOK, Work, WorkItem, NewItem, NoItem, WorkState, DispatchState,
  OutcomeKind, ControlInput, ControlState, Lane, RunCondition, Label, OwnerLabel, Outcome

\* No handler, crash or tick writes a value outside its type.
LEMMA TypeStep == TypeOK /\ [Next]_vars => TypeOK'
<1> SUFFICES ASSUME TypeOK, [Next]_vars PROVE TypeOK' OBVIOUS
<1> USE LoopAssumption, ClaimTTLAssumption
<1> USE DEF TypeOK, Work, ControlInput, ControlState, Lane, RunCondition, Label, OwnerLabel,
        Outcome, boardVars, wireVars, inboxVars, localVars, logVars
<1>1. ASSUME NEW i \in Input, Enqueue(i) PROVE TypeOK'
  <2>1. NextOrdinal \in Nat BY OrdinalIsNatural
  <2>2. [control[i] EXCEPT !.state = "pending", !.ordinal = NextOrdinal] \in ControlInput
    <3> HIDE DEF ControlInput
    <3> QED BY <2>1, InboxTypes
  <2>3. control' = [control EXCEPT ![i] = [control[i] EXCEPT !.state = "pending",
                                                            !.ordinal = NextOrdinal]]
    BY <1>1 DEF Enqueue
  <2>4. control' \in [Input -> ControlInput] BY <2>2, <2>3
  <2>5. api' \in [at : {"idle", "item", "row"}, input : Input \cup {None}] /\ api'.input \in Input
    BY <1>1 DEF Enqueue
  <2> HIDE DEF ControlInput
  <2> QED BY <1>1, <2>4, <2>5 DEF Enqueue
<1>2. ASSUME NEW i \in Input, Retry(i) PROVE TypeOK' BY <1>2 DEF Retry
<1>3. CASE WriteItem
  BY <1>3 DEF WriteItem, WorkItem, NewItem, NoItem, WorkState, DispatchState, OutcomeKind
<1>4. CASE WriteRow BY <1>4 DEF WriteRow
<1>5. CASE ApiCrash BY <1>5 DEF ApiCrash
<1>6. CASE Tick BY <1>6 DEF Tick
<1>7. ASSUME NEW w \in Work, Publish(w) PROVE TypeOK' BY <1>7 DEF Publish
<1>8. ASSUME NEW w \in Work, MarkPublished(w) PROVE TypeOK' BY <1>8 DEF MarkPublished
<1>9. ASSUME NEW p \in Worker, NEW w \in Work, Deliver(p, w) PROVE TypeOK'
  BY <1>9 DEF Deliver, Goto
<1>10. ASSUME NEW p \in Worker, Crash(p) PROVE TypeOK'
  BY <1>10 DEF Crash, Forget, LetGo, Goto
<1>11. ASSUME NEW p \in Worker, Ack(p) PROVE TypeOK' BY <1>11 DEF Ack, Forget, LetGo, Goto
<1>12. ASSUME NEW p \in Worker, Abort(p), pc[p] # "idle" PROVE TypeOK'
  BY <1>12 DEF Abort, Forget, LetGo, Goto
<1>13. ASSUME NEW p \in Worker, Intercept(p) PROVE TypeOK'
  BY <1>13 DEF Intercept, Goto, StepControls
<1>14. ASSUME NEW p \in Worker, Inspect(p) PROVE TypeOK'
  <2>1. work[job[p]] \in WorkItem BY <1>14 DEF Inspect
  <2>2. work[job[p]].attempt \in Nat BY <2>1 DEF WorkItem
  <2>3. att' \in [Worker -> Nat] BY <1>14, <2>2 DEF Inspect
  <2>4. pc' \in [Worker -> Label] /\ \A q \in Worker : q # p => pc'[q] = pc[q]
    <3> HIDE DEF ControlInput, Outcome
    <3> QED BY <1>14 DEF Inspect, Goto
  <2>5. UNCHANGED <<boardVars, wireVars, inboxVars, owner, job, todo, cur, inStep,
                    exiting, outcome, logVars, crashes>> /\ pc[p] = "inspect"
        /\ pc'[p] \in {"acquireRepair", "acquireRecover", "claim"}
    <3> HIDE DEF ControlInput, Outcome
    <3> QED BY <1>14 DEF Inspect, Goto
  <2> QED BY <2>3, <2>4, <2>5
<1>15. ASSUME NEW p \in Worker, ClaimWork(p) PROVE TypeOK'
  <2>0. work[job[p]] \in WorkItem BY <1>15 DEF ClaimWork
  <2>1. Claimed(work[job[p]], now) \in WorkItem
    <3>1. now \in Nat OBVIOUS
    <3> HIDE DEF TypeOK
    <3>2. \E k \in OutcomeKind, d \in DispatchState : TRUE BY DEF OutcomeKind, DispatchState
    <3> QED BY <2>0, <3>1, <3>2, BoardTypes
  <2>2. work[job[p]].attempt + 1 \in Nat BY <2>0 DEF WorkItem
  <2> QED BY <1>15, <2>1, <2>2 DEF ClaimWork, Goto
<1>16. ASSUME NEW p \in Worker, Acquire(p) PROVE TypeOK'
  BY <1>16 DEF Acquire, Goto, TurnControls
<1>17. ASSUME NEW p \in Worker, SkipControl(p) PROVE TypeOK' BY <1>17 DEF SkipControl
<1>18. ASSUME NEW p \in Worker, ClaimControl(p) PROVE TypeOK'
  <2>1. PICK i \in Input :
          /\ control' = [control EXCEPT ![i] =
                            Taken(@, IF inStep[p] THEN "step" ELSE "turn")]
          /\ todo' = [todo EXCEPT ![p] = @ \ {i}]
          /\ cur' = [cur EXCEPT ![p] = i]
    BY <1>18 DEF ClaimControl
  <2>2. control' \in [Input -> ControlInput]
    <3> HIDE DEF ControlInput
    <3> QED BY <2>1, InboxTypes
  <2>3. UNCHANGED <<boardVars, wireVars, api, accepted, owner, job, att, inStep, exiting,
                    outcome, logVars, crashes>> /\ pc' = [pc EXCEPT ![p] = "apply"]
        /\ pc[p] = "controls"
    BY <1>18 DEF ClaimControl, Goto
  <2> HIDE DEF ControlInput
  <2> QED BY <2>1, <2>2, <2>3
<1>19. ASSUME NEW p \in Worker, ApplyControl(p) PROVE TypeOK'
  BY <1>19 DEF ApplyControl, Goto
<1>20. ASSUME NEW p \in Worker, RefuseControl(p) PROVE TypeOK'
  BY <1>20 DEF RefuseControl, Goto
<1>21. ASSUME NEW p \in Worker, MarkApplied(p) PROVE TypeOK'
  <2>1. control' \in [Input -> ControlInput]
    <3> HIDE DEF ControlInput
    <3> QED BY <1>21, InboxTypes DEF MarkApplied
  <2> HIDE DEF ControlInput
  <2> QED BY <1>21, <2>1 DEF MarkApplied, Goto
<1>22. ASSUME NEW p \in Worker, MarkRejected(p) PROVE TypeOK'
  <2>1. control' \in [Input -> ControlInput]
    <3> HIDE DEF ControlInput
    <3> QED BY <1>22, InboxTypes DEF MarkRejected
  <2> HIDE DEF ControlInput
  <2> QED BY <1>22, <2>1 DEF MarkRejected, Goto
<1>23. ASSUME NEW p \in Worker, ControlsBusy(p) PROVE TypeOK'
  <2>1. CASE inStep[p]
    <3>1. /\ pc[p] \in {"controls", "ack", "reject"}
          /\ pc' = [pc EXCEPT ![p] = "settle"] /\ outcome' = [outcome EXCEPT ![p] = "failed"]
          /\ todo' = [todo EXCEPT ![p] = {}] /\ cur' = [cur EXCEPT ![p] = None]
          /\ UNCHANGED <<boardVars, wireVars, inboxVars, owner, job, att, inStep, exiting,
                         logVars, crashes>>
      <4> HIDE DEF TypeOK
      <4> QED BY <1>23, <2>1 DEF ControlsBusy, Goto
    <3> HIDE DEF ControlInput
    <3> QED BY <3>1
  <2>2. CASE ~inStep[p]
    <3>1. pc[p] # "idle" /\ Abort(p) BY <1>23, <2>2 DEF ControlsBusy
    <3> HIDE DEF TypeOK
    <3> QED BY <1>12, <3>1
  <2> QED BY <2>1, <2>2
<1>24. ASSUME NEW p \in Worker, ControlsDone(p) PROVE TypeOK'
  BY <1>24 DEF ControlsDone, Goto
<1>25. ASSUME NEW p \in Worker, MarkDispatched(p) PROVE TypeOK'
  <2>1. work' \in [Work -> WorkItem]
    <3>1. work' = [work EXCEPT ![job[p]] = Dispatched(@)] BY <1>25 DEF MarkDispatched
    <3>2. job[p] \in Work BY <1>25 DEF MarkDispatched
    <3>3. Dispatched(work[job[p]]) \in WorkItem
      BY <3>2, BoardTypes DEF OutcomeKind, DispatchState
    <3> HIDE DEF ControlInput, Outcome, Label
    <3> QED BY <3>1, <3>3
  <2>2. /\ runs' = runs \/ runs' = [runs EXCEPT ![job[p]] = @ + 1]
        /\ outcome' = outcome \/ outcome' = [outcome EXCEPT ![p] = "cancelled"]
        /\ pc' = [pc EXCEPT ![p] = "settle"] \/ pc' = [pc EXCEPT ![p] = "execute"]
    <3> HIDE DEF TypeOK
    <3> QED BY <1>25 DEF MarkDispatched, Goto
  <2>3. /\ runs' \in [Work -> Nat] /\ outcome' \in [Worker -> Outcome]
        /\ pc' \in [Worker -> Label] /\ \A q \in Worker : q # p => pc'[q] = pc[q]
    <3>1. /\ runs \in [Work -> Nat] /\ outcome \in [Worker -> Outcome] /\ pc \in [Worker -> Label]
          /\ "cancelled" \in Outcome /\ {"settle", "execute"} \subseteq Label
      OBVIOUS
    <3>2. \A n \in Nat : n + 1 \in Nat OBVIOUS
    <3> HIDE DEF TypeOK, ControlInput, Outcome, Label, OwnerLabel
    <3> QED BY <2>2, <3>1, <3>2
  <2>4. pc[p] = "dispatch" /\ pc'[p] \in {"settle", "execute"}
        /\ UNCHANGED <<now, wireVars, inboxVars, owner, job, att, todo, cur, inStep,
                       exiting, condition, turns, audits, effects, crashes>>
    BY <1>25 DEF MarkDispatched, Goto
  <2>5. pc'[p] = "settle" => outcome'[p] = "cancelled" BY <1>25 DEF MarkDispatched, Goto
  <2>6. \A q \in Worker : q # p => outcome'[q] = outcome[q] BY <1>25 DEF MarkDispatched
  <2> HIDE DEF ControlInput, Outcome
  <2> QED BY <2>1, <2>3, <2>4, <2>5, <2>6
<1>26. ASSUME NEW p \in Worker, ExecutorReturns(p) PROVE TypeOK'
  BY <1>26 DEF ExecutorReturns, Goto
<1>27. ASSUME NEW p \in Worker, Fault(p) PROVE TypeOK' BY <1>12, <1>27 DEF Fault
<1>28. ASSUME NEW p \in Worker, SettleWork(p) PROVE TypeOK'
  <2>1. outcome[p] # "none" BY <1>28 DEF SettleWork
  <2>2. PICK k \in OutcomeKind, d \in DispatchState :
          work' = [work EXCEPT ![job[p]] = Settled(@, k, d)]
    BY <1>28, <2>1 DEF SettleWork, OutcomeKind, DispatchState
  <2>3. work' \in [Work -> WorkItem]
    <3>1. Settled(work[job[p]], k, d) \in WorkItem
      <4>1. work[job[p]] \in WorkItem BY <1>28 DEF SettleWork
      <4> HIDE DEF TypeOK
      <4> QED BY <4>1, BoardTypes
    <3> QED BY <2>2, <3>1
  <2>4. UNCHANGED <<now, wireVars, inboxVars, owner, localVars, logVars, crashes>>
        /\ pc[p] = "settle" /\ pc' = [pc EXCEPT ![p] = "close"]
    BY <1>28 DEF SettleWork, Goto
  <2> HIDE DEF ControlInput, Outcome
  <2> QED BY <2>3, <2>4
<1>29. ASSUME NEW p \in Worker, StaleClaim(p) PROVE TypeOK' BY <1>12, <1>29 DEF StaleClaim
<1>30. ASSUME NEW p \in Worker, WorkLockBusy(p) PROVE TypeOK'
  BY <1>12, <1>30 DEF WorkLockBusy
<1>31. ASSUME NEW p \in Worker, EndTurn(p) PROVE TypeOK' BY <1>31 DEF EndTurn, Goto
<1>32. ASSUME NEW p \in Worker, AuditTerminalExit(p) PROVE TypeOK'
  BY <1>32 DEF AuditTerminalExit, Goto
<1>33. ASSUME NEW p \in Worker, AcquireForRepair(p) PROVE TypeOK'
  BY <1>33 DEF AcquireForRepair, Goto
<1>34. ASSUME NEW p \in Worker, RepairTurn(p) PROVE TypeOK' BY <1>34 DEF RepairTurn, Goto
<1>35. ASSUME NEW p \in Worker, RecoverExpired(p) PROVE TypeOK'
  <2>1. work' \in [Work -> WorkItem]
    BY <1>35, BoardTypes DEF RecoverExpired, OutcomeKind, DispatchState
  <2> QED BY <1>35, <2>1 DEF RecoverExpired, Goto
<1>36. ASSUME NEW p \in Worker, WorkerStep(p) PROVE TypeOK'
  BY <1>11, <1>14, <1>15, <1>16, <1>17, <1>18, <1>19, <1>20, <1>21, <1>22, <1>23, <1>24,
     <1>25, <1>26, <1>27, <1>28, <1>29, <1>30, <1>31, <1>32, <1>33, <1>34, <1>35, <1>36
     DEF WorkerStep, ClaimRefused, OwnerBusy, Release
<1>37. CASE UNCHANGED vars BY <1>37 DEF vars
<1> HIDE DEF TypeOK
<1> QED
  BY <1>1, <1>2, <1>3, <1>4, <1>5, <1>6, <1>7, <1>8, <1>9, <1>10, <1>13, <1>36, <1>37
     DEF Next

\* In every reachable state, for any number of workers, controls and crashes, the
\* durable records and the processes' locals are well typed; in particular every
\* process past its queue holds an item and applies a control it has named.
THEOREM TypeCorrect == Spec => []TypeOK
BY TypeInit, TypeStep, PTL DEF Spec

-----------------------------------------------------------------------------
(***************************************************************************)
(* The inductive invariant.  Claims are fenced by attempts and writers by  *)
(* the owner lock; the two together keep the board, the processes and the  *)
(* log consistent.                                                         *)
(***************************************************************************)
Claiming == {"acquire", "controls", "apply", "ack", "reject", "dispatch", "execute", "settle"}

\* Before its dispatch is recorded, and on the rejected path that never dispatches.
Fresh(p) ==
    \/ pc[p] \in {"acquire", "dispatch"}
    \/ pc[p] \in {"controls", "apply", "ack", "reject"} /\ ~inStep[p]
    \/ pc[p] = "settle" /\ outcome[p] = "rejected"

OwnerInv == \A p \in Worker : pc[p] \in OwnerLabel <=> owner = p

StepOf(p) ==
    inStep[p] =>
        pc[p] \in {"controls", "apply", "ack", "reject", "settle", "close", "audit", "release"}
        /\ (pc[p] = "settle" => outcome[p] = "failed")

InboxInv ==
    /\ api.at = "item" => work[api.input].state = "absent" /\ control[api.input].state # "absent"
    /\ api.at = "row" => work[api.input].state # "absent" /\ control[api.input].state # "absent"
    /\ \A i \in Input : control[i].state = "absent" => work[i].state = "absent" /\ i \notin accepted

BoardInv ==
    \A w \in Work :
        /\ runs[w] <= 1
        /\ work[w].state = "absent" => work[w].attempt = 0
        /\ work[w].state \in {"absent", "pending"} => work[w].dispatch = "never"
        /\ work[w].state # "settled" =>
              /\ work[w].dispatch \in {"never", "dispatched"}
              /\ work[w].dispatch = "never" => runs[w] = 0

ClaimOf(p) ==
    pc[p] \in Claiming =>
        /\ att[p] <= work[job[p]].attempt
        /\ HoldsClaim(work[job[p]], att[p]) =>
              /\ Fresh(p) => work[job[p]].dispatch = "never"
              /\ pc[p] = "settle" /\ outcome[p] = "cancelled" => runs[job[p]] = 0
              /\ pc[p] = "settle" /\ outcome[p] \in {"succeeded", "failed"} => runs[job[p]] = 1
        /\ pc[p] = "execute" \/ inStep[p] => runs[job[p]] = 1

UniqueInv ==
    \A p, q \in Worker :
        p # q /\ pc[p] \in Claiming /\ pc[q] \in Claiming /\ job[p] = job[q] => att[p] # att[q]

RecoverOf(p) ==
    pc[p] \in {"acquireRecover", "recover"} =>
        /\ att[p] <= work[job[p]].attempt
        /\ HoldsClaim(work[job[p]], att[p]) => work[job[p]].dispatch = "dispatched"

TurnOf(p) ==
    /\ pc[p] \in {"close", "audit", "acquireRepair", "repair"} => work[job[p]].state = "settled"
    /\ pc[p] = "close" => turns[job[p]] = 0
    /\ pc[p] = "audit" => turns[job[p]] = 1

StepInv    == \A p \in Worker : StepOf(p)
ClaimInv   == \A p \in Worker : ClaimOf(p)
RecoverInv == \A p \in Worker : RecoverOf(p)
TurnInv    == \A p \in Worker : TurnOf(p)

Consistent ==
    /\ OwnerInv /\ StepInv /\ InboxInv /\ BoardInv /\ ClaimInv /\ UniqueInv
    /\ RecoverInv /\ TurnInv /\ SettlementHonest /\ TurnClosedOnce /\ ExecutorKeepsClaim

IInv == TypeOK /\ Consistent

\* A step that touches no inbox record and creates or removes no work item leaves
\* the inbox and the board agreeing.
LEMMA InboxKept ==
  ASSUME TypeOK, InboxInv, UNCHANGED inboxVars,
         \A v \in Work : work'[v].state = "absent" <=> work[v].state = "absent"
  PROVE  InboxInv'
<1>1. control' = control /\ api' = api /\ accepted' = accepted BY DEF inboxVars
<1>2. Input \subseteq Work /\ accepted \subseteq Input /\ (api.at # "idle" => api.input \in Work)
  BY DEF TypeOK, Work
<1>3. ASSUME NEW i \in Input PROVE work'[i].state = "absent" <=> work[i].state = "absent"
  BY <1>2
<1>5. \A i \in Input : control'[i].state = "absent" => work'[i].state = "absent" /\ i \notin accepted'
  BY <1>1, <1>3 DEF InboxInv
<1>6. /\ api'.at = "item" => work'[api'.input].state = "absent" /\ control'[api'.input].state # "absent"
      /\ api'.at = "row" => work'[api'.input].state # "absent" /\ control'[api'.input].state # "absent"
  BY <1>1, <1>2 DEF InboxInv
<1> QED BY <1>5, <1>6 DEF InboxInv

\* What the board's operations do to the fields the invariants read.
LEMMA BoardFields ==
  ASSUME NEW item \in WorkItem, NEW t \in Nat, NEW k \in OutcomeKind, NEW d \in DispatchState
  PROVE  /\ item.attempt \in Nat
         /\ Claimed(item, t).state = "claimed" /\ Claimed(item, t).attempt = item.attempt + 1
         /\ Claimed(item, t).dispatch = item.dispatch
         /\ Dispatched(item).state = item.state /\ Dispatched(item).attempt = item.attempt
         /\ Dispatched(item).dispatch = "dispatched"
         /\ Settled(item, k, d).state = "settled" /\ Settled(item, k, d).attempt = item.attempt
         /\ Settled(item, k, d).dispatch = d /\ Settled(item, k, d).result = k
         /\ item.dispatch # "never" => Recovered(item) = Settled(item, "unknown", "unknown")
BY DEF WorkItem, Claimed, Dispatched, Settled, Recovered

\* claim_work: the new attempt outdates every earlier claimant of the item.
LEMMA ClaimWorkConsistent ==
  ASSUME IInv, TypeOK', NEW p \in Worker, ClaimWork(p) PROVE Consistent'
<1> DEFINE w == job[p]
<1>1. w \in Work /\ work[w] \in WorkItem /\ now \in Nat /\ pc[p] = "claim"
  BY DEF IInv, Consistent, TypeOK, ClaimWork
<1>2. /\ work'[w].state = "claimed" /\ work'[w].attempt = work[w].attempt + 1
      /\ work'[w].dispatch = work[w].dispatch /\ att'[p] = work'[w].attempt
      /\ work[w].attempt \in Nat
      /\ \A v \in Work : v # w => work'[v] = work[v]
      /\ \A q \in Worker : q # p => att'[q] = att[q] /\ pc'[q] = pc[q]
      /\ pc'[p] = "acquire"
  BY <1>1, BoardFields DEF ClaimWork, Goto, IInv, Consistent, TypeOK, OutcomeKind, DispatchState
<1>3. work[w].dispatch = "never" /\ work[w].state \in {"pending", "claimed"}
  BY <1>1 DEF ClaimWork, Claimable, Expired, IInv, Consistent, BoardInv
<1>4. UNCHANGED <<now, wireVars, inboxVars, owner, job, todo, cur, inStep, exiting, outcome, logVars>>
  BY DEF ClaimWork
<1> HIDE DEF w
<1> USE <1>1, <1>2, <1>3, <1>4 DEF IInv, Consistent, TypeOK, wireVars, inboxVars, logVars
<1>5. OwnerInv' BY DEF OwnerInv, OwnerLabel
<1>6. StepInv' BY DEF StepInv, StepOf
<1>7. InboxInv'
  <2>1. \A v \in Work : work'[v].state = "absent" <=> work[v].state = "absent" OBVIOUS
  <2> HIDE DEF TypeOK
  <2> QED BY <2>1, InboxKept
<1>8. BoardInv' BY DEF BoardInv
<1>9. ClaimInv'
  <2> SUFFICES ASSUME NEW q \in Worker, pc'[q] \in Claiming
               PROVE  /\ att'[q] <= work'[job[q]].attempt
                      /\ HoldsClaim(work'[job[q]], att'[q]) =>
                            /\ Fresh(q)' => work'[job[q]].dispatch = "never"
                            /\ pc'[q] = "settle" /\ outcome[q] = "cancelled" => runs[job[q]] = 0
                            /\ pc'[q] = "settle" /\ outcome[q] \in {"succeeded", "failed"} => runs[job[q]] = 1
                      /\ pc'[q] = "execute" \/ inStep[q] => runs[job[q]] = 1
    BY DEF ClaimInv, ClaimOf
  <2>1. CASE q = p BY <2>1 DEF StepInv, StepOf, w, Claiming
  <2>2. CASE q # p
    <3>1. pc[q] \in Claiming /\ job[q] \in Work /\ att[q] \in Nat BY <2>2 DEF Claiming
    <3>2. Fresh(q)' = Fresh(q) BY <2>2 DEF Fresh
    <3>3. work[job[q]].attempt \in Nat BY <3>1, BoardFields DEF OutcomeKind, DispatchState
    <3> QED BY <2>2, <3>1, <3>2, <3>3 DEF ClaimInv, ClaimOf, HoldsClaim
  <2> QED BY <2>1, <2>2
<1>10. UniqueInv' BY DEF UniqueInv, ClaimInv, ClaimOf, Claiming, w
<1>11. RecoverInv'
  <2> SUFFICES ASSUME NEW q \in Worker, pc'[q] \in {"acquireRecover", "recover"}
               PROVE  /\ att'[q] <= work'[job[q]].attempt
                      /\ HoldsClaim(work'[job[q]], att'[q]) => work'[job[q]].dispatch = "dispatched"
    BY DEF RecoverInv, RecoverOf
  <2>1. q # p /\ job[q] \in Work /\ att[q] \in Nat /\ pc[q] = pc'[q] OBVIOUS
  <2> QED BY <2>1 DEF RecoverInv, RecoverOf, HoldsClaim
<1>12. TurnInv' BY DEF TurnInv, TurnOf
<1>13. SettlementHonest' /\ TurnClosedOnce' BY DEF SettlementHonest, TurnClosedOnce
<1>14. ExecutorKeepsClaim'
  <2> SUFFICES ASSUME NEW q \in Worker, Executing(q)'
               PROVE HoldsClaim(work[job[q]], att[q])' /\ work'[job'[q]].dispatch = "dispatched"
    BY DEF ExecutorKeepsClaim
  <2>1. q # p BY DEF Executing, StepInv, StepOf
  <2>2. Executing(q) /\ job'[q] = job[q] BY <2>1 DEF Executing
  <2>3. job[q] # w /\ job[q] \in Work BY <2>2 DEF ExecutorKeepsClaim, w, Executing, OwnerLabel
  <2> QED BY <2>1, <2>2, <2>3 DEF ExecutorKeepsClaim, HoldsClaim
<1> QED BY <1>5, <1>6, <1>7, <1>8, <1>9, <1>10, <1>11, <1>12, <1>13, <1>14 DEF Consistent

\* Two processes with the same item never both hold its claim, and a process that
\* owns the Run keeps every other out of the executor.
LEMMA OnlyHolder ==
  ASSUME IInv, NEW p \in Worker, NEW q \in Worker, p # q,
         pc[p] \in Claiming, HoldsClaim(work[job[p]], att[p]), job[q] = job[p]
  PROVE  /\ pc[q] \in Claiming => ~HoldsClaim(work[job[q]], att[q])
         /\ pc[p] \in OwnerLabel => ~Executing(q)
BY DEF IInv, Consistent, UniqueInv, HoldsClaim, OwnerInv, Executing, OwnerLabel

\* mark_dispatched: the one step that may start the graph.
LEMMA MarkDispatchedConsistent ==
  ASSUME IInv, TypeOK', NEW p \in Worker, MarkDispatched(p) PROVE Consistent'
<1> DEFINE w == job[p]
<1>1. w \in Work /\ work[w] \in WorkItem /\ pc[p] = "dispatch" /\ HoldsClaim(work[w], att[p])
  BY DEF IInv, Consistent, TypeOK, MarkDispatched, CurrentClaim
<1>2. /\ work'[w].state = work[w].state /\ work'[w].attempt = work[w].attempt
      /\ work'[w].dispatch = "dispatched"
      /\ \A v \in Work : v # w => work'[v] = work[v] /\ runs'[v] = runs[v]
      /\ \A q \in Worker : q # p => pc'[q] = pc[q] /\ outcome'[q] = outcome[q]
  BY <1>1, BoardFields DEF MarkDispatched, Goto, IInv, Consistent, TypeOK, OutcomeKind, DispatchState
<1>3. work[w].dispatch = "never" /\ runs[w] = 0 /\ work[w].state = "claimed"
  BY <1>1 DEF IInv, Consistent, ClaimInv, ClaimOf, BoardInv, Fresh, HoldsClaim, Claiming
<1>4. \/ pc'[p] = "settle" /\ outcome'[p] = "cancelled" /\ runs'[w] = 0
      \/ pc'[p] = "execute" /\ runs'[w] = 1
  BY <1>1, <1>3 DEF MarkDispatched, Goto, IInv, Consistent, TypeOK
<1>5. UNCHANGED <<now, wireVars, inboxVars, owner, job, att, todo, cur, inStep, exiting,
                  condition, turns, audits, effects>>
  BY DEF MarkDispatched
<1>6. \A q \in Worker : q # p /\ job[q] = w =>
        /\ pc[q] \in Claiming => ~HoldsClaim(work[w], att[q])
        /\ ~Executing(q)
  BY <1>1, OnlyHolder DEF Claiming, OwnerLabel
<1> HIDE DEF w
<1> USE <1>1, <1>2, <1>3, <1>4, <1>5 DEF IInv, Consistent, TypeOK, wireVars, inboxVars
<1>7. OwnerInv' BY DEF OwnerInv, OwnerLabel
<1>8. StepInv' BY DEF StepInv, StepOf
<1>9. InboxInv'
  <2>1. \A v \in Work : work'[v].state = work[v].state OBVIOUS
  <2> HIDE DEF TypeOK
  <2> QED BY <2>1, InboxKept
<1>10. BoardInv' BY DEF BoardInv
<1>11. ClaimInv'
  <2> SUFFICES ASSUME NEW q \in Worker, pc'[q] \in Claiming
               PROVE  /\ att[q] <= work'[job[q]].attempt
                      /\ HoldsClaim(work'[job[q]], att[q]) =>
                            /\ Fresh(q)' => work'[job[q]].dispatch = "never"
                            /\ pc'[q] = "settle" /\ outcome'[q] = "cancelled" => runs'[job[q]] = 0
                            /\ pc'[q] = "settle" /\ outcome'[q] \in {"succeeded", "failed"}
                                 => runs'[job[q]] = 1
                      /\ pc'[q] = "execute" \/ inStep[q] => runs'[job[q]] = 1
    BY DEF ClaimInv, ClaimOf
  <2>1. CASE q = p BY <2>1 DEF StepInv, StepOf, w, Claiming, Fresh, ClaimInv, ClaimOf
  <2>2. CASE q # p
    <3>1. pc[q] \in Claiming /\ job[q] \in Work BY <2>2 DEF Claiming
    <3>2. Fresh(q)' = Fresh(q) BY <2>2 DEF Fresh
    <3>3. job[q] = w => ~HoldsClaim(work'[w], att[q]) /\ pc[q] # "execute" /\ ~inStep[q]
      BY <1>6, <2>2, <3>1 DEF HoldsClaim, Executing, StepInv, StepOf, Claiming, OwnerLabel
    <3> QED BY <2>2, <3>1, <3>2, <3>3 DEF ClaimInv, ClaimOf, HoldsClaim
  <2> QED BY <2>1, <2>2
<1>12. UniqueInv' BY DEF UniqueInv, Claiming
<1>13. RecoverInv'
  <2> SUFFICES ASSUME NEW q \in Worker, pc'[q] \in {"acquireRecover", "recover"}
               PROVE  /\ att[q] <= work'[job[q]].attempt
                      /\ HoldsClaim(work'[job[q]], att[q]) => work'[job[q]].dispatch = "dispatched"
    BY DEF RecoverInv, RecoverOf
  <2>1. q # p /\ job[q] \in Work /\ pc[q] = pc'[q] OBVIOUS
  <2> QED BY <2>1 DEF RecoverInv, RecoverOf, HoldsClaim
<1>14. TurnInv'
  <2> SUFFICES ASSUME NEW q \in Worker
               PROVE  /\ pc'[q] \in {"close", "audit", "acquireRepair", "repair"}
                           => work'[job[q]].state = "settled"
                      /\ pc'[q] = "close" => turns[job[q]] = 0
                      /\ pc'[q] = "audit" => turns[job[q]] = 1
    BY DEF TurnInv, TurnOf
  <2>1. CASE q = p BY <2>1
  <2>2. CASE q # p
    <3>1. pc'[q] = pc[q] /\ (pc[q] # "idle" => job[q] \in Work) BY <2>2
    <3> QED BY <3>1 DEF TurnInv, TurnOf
  <2> QED BY <2>1, <2>2
<1>15. SettlementHonest' /\ TurnClosedOnce' BY DEF SettlementHonest, TurnClosedOnce
<1>16. ExecutorKeepsClaim'
  <2> SUFFICES ASSUME NEW q \in Worker, Executing(q)'
               PROVE HoldsClaim(work'[job[q]], att[q]) /\ work'[job[q]].dispatch = "dispatched"
    BY DEF ExecutorKeepsClaim
  <2>1. CASE q = p BY <2>1 DEF w, HoldsClaim
  <2>2. CASE q # p
    <3>1. Executing(q) BY <2>2 DEF Executing
    <3>2. job[q] # w /\ job[q] \in Work BY <1>6, <2>2, <3>1 DEF Executing, OwnerLabel
    <3> QED BY <3>1, <3>2 DEF ExecutorKeepsClaim
  <2> QED BY <2>1, <2>2
<1> QED BY <1>7, <1>8, <1>9, <1>10, <1>11, <1>12, <1>13, <1>14, <1>15, <1>16 DEF Consistent
\* What the invariants say of one process.
Local(p) ==
    /\ StepOf(p) /\ ClaimOf(p) /\ RecoverOf(p) /\ TurnOf(p)
    /\ Executing(p) => HoldsClaim(work[job[p]], att[p]) /\ work[job[p]].dispatch = "dispatched"

\* A step of p that leaves the board, the counts and the other processes alone, and
\* makes no claim.
Alone(p) ==
    /\ UNCHANGED <<work, runs, turns, audits>>
    /\ \A q \in Worker \ {p} :
          /\ pc'[q] = pc[q] /\ job'[q] = job[q] /\ att'[q] = att[q]
          /\ inStep'[q] = inStep[q] /\ outcome'[q] = outcome[q]
    /\ pc'[p] \in Claiming => pc[p] \in Claiming /\ job'[p] = job[p] /\ att'[p] = att[p]

\* What is known of p before its step.
LEMMA LocalNow ==
  ASSUME IInv, NEW p \in Worker
  PROVE  Local(p) /\ (pc[p] \in OwnerLabel <=> owner = p)
BY DEF IInv, Consistent, Local, StepInv, ClaimInv, RecoverInv, TurnInv, ExecutorKeepsClaim,
       OwnerInv

\* Then only p's own part, the owner lock and the inbox can be disturbed.
LEMMA AloneConsistent ==
  ASSUME IInv, NEW p \in Worker, Alone(p), Local(p)', OwnerInv', InboxInv'
  PROVE  Consistent'
<1>1. \A q \in Worker \ {p} : Local(q)'
  <2> SUFFICES ASSUME NEW q \in Worker \ {p} PROVE Local(q)' OBVIOUS
  <2>1. Local(q) BY LocalNow
  <2>2. /\ pc'[q] = pc[q] /\ job'[q] = job[q] /\ att'[q] = att[q]
        /\ inStep'[q] = inStep[q] /\ outcome'[q] = outcome[q]
        /\ work' = work /\ runs' = runs /\ turns' = turns
    BY DEF Alone
  <2> QED BY <2>1, <2>2 DEF Local, StepOf, ClaimOf, RecoverOf, TurnOf, Executing, HoldsClaim, Fresh
<1>2. \A q \in Worker : Local(q)' BY <1>1
<1>3. StepInv' /\ ClaimInv' /\ RecoverInv' /\ TurnInv' /\ ExecutorKeepsClaim'
  BY <1>2 DEF Local, StepInv, ClaimInv, RecoverInv, TurnInv, ExecutorKeepsClaim
<1>4. UniqueInv'
  <2> SUFFICES ASSUME NEW q \in Worker, NEW r \in Worker, q # r, pc'[q] \in Claiming,
                      pc'[r] \in Claiming, job'[q] = job'[r]
               PROVE  att'[q] # att'[r]
    BY DEF UniqueInv
  <2>1. pc[q] \in Claiming /\ job'[q] = job[q] /\ att'[q] = att[q] BY DEF Alone
  <2>2. pc[r] \in Claiming /\ job'[r] = job[r] /\ att'[r] = att[r] BY DEF Alone
  <2> QED BY <2>1, <2>2 DEF IInv, Consistent, UniqueInv
<1>5. BoardInv' /\ SettlementHonest' /\ TurnClosedOnce'
  BY DEF IInv, Consistent, Alone, BoardInv, SettlementHonest, TurnClosedOnce
<1> QED BY <1>3, <1>4, <1>5 DEF Consistent

\* A step of the API, the broker or the clock that leaves the processes and the
\* board alone can disturb the inbox only.
LEMMA OutsideConsistent ==
  ASSUME IInv, UNCHANGED <<work, owner, pc, job, att, inStep, outcome, runs, turns, audits>>,
         InboxInv'
  PROVE  Consistent'
<1>1. OwnerInv' /\ StepInv' /\ UniqueInv' /\ BoardInv' /\ SettlementHonest' /\ TurnClosedOnce'
  BY DEF IInv, Consistent, OwnerInv, StepInv, StepOf, UniqueInv, BoardInv, SettlementHonest,
         TurnClosedOnce
<1>2. ClaimInv' BY DEF IInv, Consistent, ClaimInv, ClaimOf, HoldsClaim, Fresh
<1>3. RecoverInv' /\ TurnInv' /\ ExecutorKeepsClaim'
  BY DEF IInv, Consistent, RecoverInv, RecoverOf, TurnInv, TurnOf, ExecutorKeepsClaim, Executing,
         HoldsClaim
<1> QED BY <1>1, <1>2, <1>3 DEF Consistent

\* The API's requests and its crash.
LEMMA ApiConsistent ==
  ASSUME IInv, TypeOK',
         WriteItem \/ WriteRow \/ ApiCrash \/ \E i \in Input : Enqueue(i) \/ Retry(i)
  PROVE  Consistent'
<1> USE DEF boardVars, wireVars, localVars, logVars
<1>1. TypeOK /\ InboxInv BY DEF IInv, Consistent
<1>2. CASE WriteItem
  <2> DEFINE w == api.input
  <2>1. w \in Input /\ w \in Work /\ work[w].state = "absent" /\ control[w].state # "absent"
        /\ api.at = "item" /\ api'.at = "row" /\ api'.input = w
    BY <1>1, <1>2 DEF WriteItem, TypeOK, Work, InboxInv
  <2>2. /\ work'[w] = NewItem /\ \A v \in Work : v # w => work'[v] = work[v]
        /\ UNCHANGED <<control, accepted, owner, pc, job, att, inStep, outcome, runs, turns, audits>>
    BY <1>1, <1>2, <2>1 DEF WriteItem, TypeOK
  <2>3. NewItem.state = "pending" /\ NewItem.dispatch = "never" BY DEF NewItem, NoItem
  <2>4. NewItem.attempt = 0 BY DEF NewItem, NoItem
  <2>5. work[w].attempt = 0 /\ turns[w] # 1 /\ runs[w] = 0 /\ work[w].dispatch = "never"
    BY <2>1 DEF IInv, Consistent, BoardInv, TurnClosedOnce
  <2> HIDE DEF w
  <2>6. InboxInv'
    <3>1. \A i \in Input : i # w => work'[i] = work[i] BY <2>2 DEF Work
    <3>2. accepted \subseteq Input BY <1>1 DEF TypeOK
    <3> QED BY <1>1, <2>1, <2>2, <2>3, <3>1, <3>2 DEF InboxInv
  <2>7. ASSUME NEW q \in Worker PROVE Local(q)'
    <3>1. Local(q) /\ (pc[q] # "idle" => job[q] \in Work) BY <1>1, LocalNow DEF TypeOK
    <3>2. job[q] = w => pc[q] \notin {"close", "audit", "acquireRepair", "repair"} /\ ~Executing(q)
      BY <2>1, <3>1 DEF Local, TurnOf, HoldsClaim
    <3>3. job[q] = w => ~HoldsClaim(work'[w], att[q]) BY <2>2, <2>3 DEF HoldsClaim
    <3>4. job[q] = w => (pc[q] \in Claiming \/ pc[q] \in {"acquireRecover", "recover"}
                           => att[q] <= work'[w].attempt)
      BY <2>2, <2>4, <2>5, <3>1 DEF Local, ClaimOf, RecoverOf
    <3>5. CASE job[q] = w
      BY <2>2, <3>1, <3>2, <3>3, <3>4, <3>5
         DEF Local, StepOf, ClaimOf, RecoverOf, TurnOf, Executing
    <3>6. CASE job[q] # w /\ pc[q] # "idle"
      BY <2>2, <3>1, <3>6
         DEF Local, StepOf, ClaimOf, RecoverOf, TurnOf, Executing, HoldsClaim, Fresh
    <3>7. CASE pc[q] = "idle"
      BY <2>2, <3>1, <3>7
         DEF Local, StepOf, ClaimOf, RecoverOf, TurnOf, Executing, Claiming
    <3> QED BY <3>5, <3>6, <3>7
  <2>8. StepInv' /\ ClaimInv' /\ RecoverInv' /\ TurnInv' /\ ExecutorKeepsClaim'
    BY <2>7 DEF Local, StepInv, ClaimInv, RecoverInv, TurnInv, ExecutorKeepsClaim
  <2>9. OwnerInv' /\ UniqueInv' BY <2>2 DEF IInv, Consistent, OwnerInv, UniqueInv
  <2>10. BoardInv' BY <2>2, <2>3, <2>4, <2>5 DEF IInv, Consistent, BoardInv
  <2>11. SettlementHonest' BY <2>2, <2>3 DEF IInv, Consistent, SettlementHonest
  <2>12. TurnClosedOnce'
    <3>1. turns[w] # 1 => audits[w] # 1
      <4>1. turns[w] \in Nat /\ audits[w] \in Nat BY <1>1, <2>1 DEF TypeOK
      <4> QED BY <2>1, <2>5, <4>1 DEF IInv, Consistent, TurnClosedOnce
    <3> QED BY <2>2, <2>5, <3>1 DEF IInv, Consistent, TurnClosedOnce
  <2> QED BY <2>6, <2>8, <2>9, <2>10, <2>11, <2>12 DEF Consistent
<1>3. CASE WriteRow
  <2>1. InboxInv'
    BY <1>1, <1>3 DEF WriteRow, InboxInv, TypeOK
  <2> QED BY <1>3, <2>1, OutsideConsistent DEF WriteRow
<1>4. CASE ApiCrash
  <2>1. InboxInv' BY <1>1, <1>4 DEF ApiCrash, InboxInv
  <2> QED BY <1>4, <2>1, OutsideConsistent DEF ApiCrash
<1>5. ASSUME NEW i \in Input, Enqueue(i) PROVE Consistent'
  <2>1. control'[i].state = "pending" /\ api'.at = "item" /\ api'.input = i
        /\ (\A j \in Input : j # i => control'[j] = control[j]) /\ accepted' = accepted
        /\ work' = work /\ work[i].state = "absent" /\ i \notin accepted
    BY <1>1, <1>5 DEF Enqueue, TypeOK, ControlInput, InboxInv
  <2>2. accepted \subseteq Input BY <1>1 DEF TypeOK
  <2>3. InboxInv' BY <1>1, <2>1, <2>2 DEF InboxInv
  <2> QED BY <1>5, <2>3, OutsideConsistent DEF Enqueue
<1>6. ASSUME NEW i \in Input, Retry(i) PROVE Consistent'
  <2>1. InboxInv' BY <1>1, <1>6 DEF Retry, InboxInv
  <2> QED BY <1>6, <2>1, OutsideConsistent DEF Retry
<1> QED BY <1>2, <1>3, <1>4, <1>5, <1>6

\* A process that owns the Run settles its item, or finds it settled: nobody else
\* executes the item, and no claim of it is current afterwards.
LEMMA SettledConsistent ==
  ASSUME IInv, TypeOK', NEW p \in Worker,
         pc[p] \in {"settle", "recover"}, pc[p] = "recover" <=> pc'[p] = "repair",
         pc' = [pc EXCEPT ![p] = pc'[p]],
         \/ pc'[p] = "repair"
         \/ pc'[p] = "close" /\ turns[job[p]] = 0 /\ (inStep[p] => runs[job[p]] = 1),
         UNCHANGED <<inboxVars, owner, job, att, inStep, outcome, runs, turns, audits>>,
         work'[job[p]].state = "settled", work[job[p]].state # "absent",
         work'[job[p]].attempt = work[job[p]].attempt,
         \A v \in Work : v # job[p] => work'[v] = work[v],
         SettlementHonest', TurnClosedOnce'
  PROVE  Consistent'
<1> DEFINE w == job[p]
<1>1. TypeOK /\ Local(p) /\ w \in Work BY LocalNow DEF IInv, TypeOK, OwnerLabel
<1>2. pc'[p] \in OwnerLabel /\ \A q \in Worker \ {p} : pc'[q] = pc[q]
  BY <1>1 DEF OwnerLabel, TypeOK
<1>3. Local(p)'
  <2>1. inStep[p] => pc'[p] = "close" BY <1>1 DEF Local, StepOf
  <2>2. ~Executing(p)' BY <2>1 DEF Executing, OwnerLabel
  <2>3. pc'[p] \notin Claiming \cup {"acquireRecover", "recover"} BY DEF Claiming
  <2>4. StepOf(p)' BY <2>1 DEF StepOf
  <2>5. ClaimOf(p)' /\ RecoverOf(p)' BY <2>3 DEF ClaimOf, RecoverOf
  <2>6. TurnOf(p)' BY <2>3 DEF TurnOf
  <2> QED BY <2>2, <2>4, <2>5, <2>6 DEF Local
<1>4. ASSUME NEW q \in Worker \ {p} PROVE Local(q)'
  <2>1. Local(q) /\ pc'[q] = pc[q] /\ pc[q] \notin OwnerLabel
    <3>1. pc[p] \in OwnerLabel BY DEF OwnerLabel
    <3>2. Local(q) /\ (pc[q] \in OwnerLabel <=> owner = q) /\ owner = p BY <3>1, LocalNow
    <3> QED BY <1>2, <3>2
  <2>2. pc[q] \notin {"close", "audit", "execute"} /\ ~Executing(q)
    BY <2>1 DEF OwnerLabel, Executing
  <2>3. CASE job[q] = w
    BY <2>1, <2>2, <2>3
       DEF Local, StepOf, ClaimOf, RecoverOf, TurnOf, Executing, HoldsClaim
  <2>4. CASE job[q] # w /\ pc[q] # "idle"
    <3>1. work'[job[q]] = work[job[q]] BY <1>1, <2>4 DEF TypeOK
    <3> QED BY <2>1, <3>1
            DEF Local, StepOf, ClaimOf, RecoverOf, TurnOf, Executing, HoldsClaim, Fresh
  <2>5. CASE pc[q] = "idle"
    BY <2>1, <2>5 DEF Local, StepOf, ClaimOf, RecoverOf, TurnOf, Executing, Claiming
  <2> QED BY <2>3, <2>4, <2>5
<1>5. \A q \in Worker : Local(q)' BY <1>3, <1>4
<1>6. StepInv' /\ ClaimInv' /\ RecoverInv' /\ TurnInv' /\ ExecutorKeepsClaim'
  BY <1>5 DEF Local, StepInv, ClaimInv, RecoverInv, TurnInv, ExecutorKeepsClaim
<1>7. OwnerInv'
  <2>1. pc[p] \in OwnerLabel BY DEF OwnerLabel
  <2> QED BY <1>2, <2>1 DEF IInv, Consistent, OwnerInv
<1>8. UniqueInv' BY <1>1, <1>2 DEF IInv, Consistent, UniqueInv, Claiming
<1>9. BoardInv' BY <1>1 DEF IInv, Consistent, BoardInv
<1>10. InboxInv'
  <2>1. \A v \in Work : work'[v].state = "absent" <=> work[v].state = "absent" BY <1>1
  <2> QED BY <1>1, <2>1, InboxKept DEF IInv, Consistent
<1> QED BY <1>6, <1>7, <1>8, <1>9, <1>10 DEF Consistent

\* settle_work: the result says what the process did with its claim.
LEMMA SettleWorkConsistent ==
  ASSUME IInv, TypeOK', NEW p \in Worker, SettleWork(p) PROVE Consistent'
<1> DEFINE w == job[p]
<1>1. w \in Work /\ work[w] \in WorkItem /\ pc[p] = "settle" /\ HoldsClaim(work[w], att[p])
      /\ outcome[p] \in {"succeeded", "failed", "cancelled", "rejected"}
  BY DEF IInv, Consistent, TypeOK, SettleWork, CurrentClaim, Outcome
<1>2. PICK k \in {"succeeded", "failed", "cancelled"}, d \in {"never", "confirmed"} :
        /\ work' = [work EXCEPT ![w] = Settled(@, k, d)]
        /\ d = "never" <=> outcome[p] \in {"rejected", "cancelled"}
        /\ k = "succeeded" => outcome[p] = "succeeded"
  BY <1>1 DEF SettleWork
<1>3. /\ work'[w].state = "settled" /\ work'[w].attempt = work[w].attempt
      /\ work'[w].dispatch = d /\ work'[w].result = k /\ work[w].attempt \in Nat
      /\ \A v \in Work : v # w => work'[v] = work[v]
  <2>1. k \in OutcomeKind /\ d \in DispatchState BY DEF OutcomeKind, DispatchState
  <2>2. work'[w] = Settled(work[w], k, d) /\ \A v \in Work : v # w => work'[v] = work[v]
    BY <1>1, <1>2 DEF IInv, Consistent, TypeOK
  <2> QED BY <1>1, <2>1, <2>2, BoardFields
<1>4. pc'[p] = "close" /\ \A q \in Worker : q # p => pc'[q] = pc[q]
  BY DEF SettleWork, Goto, IInv, Consistent, TypeOK
<1>5. UNCHANGED <<now, wireVars, inboxVars, owner, job, att, todo, cur, inStep, exiting,
                  outcome, condition, runs, turns, audits, effects>>
  BY DEF SettleWork, localVars, logVars
<1>6. work[w].state = "claimed" /\ turns[w] = 0 /\ audits[w] = 0
  <2>1. work[w].state = "claimed" BY <1>1 DEF HoldsClaim
  <2>2. turns[w] \in Nat /\ audits[w] \in Nat BY <1>1 DEF IInv, Consistent, TypeOK
  <2>3. turns[w] <= 1 /\ turns[w] # 1 /\ audits[w] <= turns[w]
    BY <1>1, <2>1 DEF IInv, Consistent, TurnClosedOnce
  <2> QED BY <2>1, <2>2, <2>3
<1>7. /\ outcome[p] \in {"rejected", "cancelled"} => runs[w] = 0
      /\ outcome[p] \in {"succeeded", "failed"} => runs[w] = 1
  <2>1. pc[p] \in Claiming /\ HoldsClaim(work[job[p]], att[p]) BY <1>1 DEF Claiming
  <2>2. /\ Fresh(p) => work[w].dispatch = "never"
        /\ outcome[p] = "cancelled" => runs[w] = 0
        /\ outcome[p] \in {"succeeded", "failed"} => runs[w] = 1
    BY <1>1, <2>1 DEF IInv, Consistent, ClaimInv, ClaimOf
  <2>3. outcome[p] = "rejected" => work[w].dispatch = "never" BY <1>1, <2>2 DEF Fresh
  <2>4. work[w].dispatch = "never" => runs[w] = 0 BY <1>1, <1>6 DEF IInv, Consistent, BoardInv
  <2> QED BY <2>2, <2>3, <2>4
<1>8. SettlementHonest'
  <2> SUFFICES ASSUME NEW v \in Work, work'[v].state = "settled"
               PROVE  /\ work'[v].dispatch = "never" => runs[v] = 0
                      /\ work'[v].dispatch = "confirmed" => runs[v] = 1
                      /\ work'[v].result = "succeeded" => work'[v].dispatch = "confirmed"
    BY <1>5 DEF SettlementHonest
  <2>1. CASE v = w BY <1>1, <1>2, <1>3, <1>7, <2>1
  <2>2. CASE v # w BY <1>3, <2>2 DEF IInv, Consistent, SettlementHonest
  <2> QED BY <2>1, <2>2
<1>9. TurnClosedOnce' BY <1>1, <1>3, <1>5, <1>6 DEF IInv, Consistent, TurnClosedOnce
<1>10. pc' = [pc EXCEPT ![p] = pc'[p]] BY <1>1, <1>4 DEF SettleWork, Goto, IInv, TypeOK
<1>11. inStep[p] => runs[w] = 1
  <2>1. Local(p) BY LocalNow
  <2> QED BY <1>1, <2>1 DEF Local, ClaimOf, Claiming
<1> QED BY <1>1, <1>3, <1>4, <1>5, <1>6, <1>8, <1>9, <1>10, <1>11, SettledConsistent
        DEF OwnerLabel

\* recover_expired under the owner lock: no process that could still execute the
\* item holds the lock, so nothing that runs is taken away.
LEMMA RecoverExpiredConsistent ==
  ASSUME IInv, TypeOK', NEW p \in Worker, RecoverExpired(p) PROVE Consistent'
<1> DEFINE w == job[p]
<1>1. w \in Work /\ work[w] \in WorkItem /\ pc[p] = "recover"
  BY DEF IInv, Consistent, TypeOK, RecoverExpired
<1>2. pc'[p] = "repair" /\ \A q \in Worker : q # p => pc'[q] = pc[q]
  BY DEF RecoverExpired, Goto, IInv, Consistent, TypeOK
<1>3. UNCHANGED <<now, wireVars, inboxVars, owner, job, att, todo, cur, inStep, exiting,
                  outcome, condition, runs, turns, audits, effects>>
  BY DEF RecoverExpired, localVars, logVars
<1>4. \/ HoldsClaim(work[w], att[p]) /\ work' = [work EXCEPT ![w] = Recovered(@)]
      \/ work[w].state = "settled" /\ work' = work
  BY DEF RecoverExpired
<1>5. /\ work'[w].state = "settled" /\ work'[w].attempt = work[w].attempt
      /\ \A v \in Work : v # w => work'[v] = work[v]
      /\ \/ work'[w] = work[w]
         \/ /\ work[w].state = "claimed" /\ work'[w].dispatch = "unknown"
            /\ work'[w].result = "unknown"
  <2>1. CASE HoldsClaim(work[w], att[p]) /\ work' = [work EXCEPT ![w] = Recovered(@)]
    <3>1. work[w].dispatch = "dispatched" /\ work[w].state = "claimed"
      BY <1>1, <2>1 DEF IInv, Consistent, RecoverInv, RecoverOf, HoldsClaim
    <3>2. work'[w] = Settled(work[w], "unknown", "unknown")
          /\ \A v \in Work : v # w => work'[v] = work[v]
      <4>1. work'[w] = Recovered(work[w]) /\ \A v \in Work : v # w => work'[v] = work[v]
        BY <1>1, <2>1 DEF IInv, Consistent, TypeOK
      <4> QED BY <3>1, <4>1 DEF Recovered
    <3>3. "unknown" \in OutcomeKind /\ "unknown" \in DispatchState
      BY DEF OutcomeKind, DispatchState
    <3> QED BY <1>1, <3>1, <3>2, <3>3, BoardFields
  <2>2. CASE work[w].state = "settled" /\ work' = work BY <2>2
  <2> QED BY <1>4, <2>1, <2>2
<1>6. pc' = [pc EXCEPT ![p] = "repair"] BY DEF RecoverExpired, Goto
<1>7. SettlementHonest' BY <1>1, <1>3, <1>5 DEF IInv, Consistent, SettlementHonest
<1>8. TurnClosedOnce'
  <2>1. work[w].state = "claimed" => turns[w] = 0 /\ audits[w] = 0
    <3>1. turns[w] \in Nat /\ audits[w] \in Nat BY <1>1 DEF IInv, TypeOK
    <3> QED BY <1>1, <3>1 DEF IInv, Consistent, TurnClosedOnce
  <2> QED BY <1>1, <1>3, <1>5, <2>1 DEF IInv, Consistent, TurnClosedOnce
<1>9. work[w].state # "absent" BY <1>4 DEF HoldsClaim
<1> QED BY <1>1, <1>2, <1>3, <1>5, <1>6, <1>7, <1>8, <1>9, SettledConsistent DEF OwnerLabel

\* A process gives its item up, by return, by exception or by dying.
LEMMA ForgetConsistent ==
  ASSUME IInv, TypeOK', NEW p \in Worker, Forget(p), LetGo(p),
         UNCHANGED <<work, inboxVars, runs, turns, audits>>
  PROVE  Consistent'
<1>1. TypeOK /\ InboxInv /\ OwnerInv BY DEF IInv, Consistent
<1>2. pc'[p] = "idle" /\ ~inStep'[p] BY <1>1 DEF Forget, Goto, TypeOK
<1>3. Alone(p) BY <1>1, <1>2 DEF Forget, Goto, TypeOK, Alone, Claiming
<1>4. Local(p)'
  BY <1>2 DEF Local, StepOf, ClaimOf, RecoverOf, TurnOf, Executing, Claiming
<1>5. OwnerInv'
  BY <1>1, <1>2, <1>3, LoopAssumption DEF OwnerInv, LetGo, Alone, OwnerLabel
<1>6. InboxInv' BY <1>1, InboxKept
<1> QED BY <1>3, <1>4, <1>5, <1>6, AloneConsistent

\* A process moves on holding the same item and claim, and neither starts nor ends
\* the turn: the steps that only decide where it goes next.
LEMMA MoveConsistent ==
  ASSUME IInv, TypeOK', NEW p \in Worker, pc' = [pc EXCEPT ![p] = pc'[p]],
         owner' = owner, pc[p] \in OwnerLabel <=> pc'[p] \in OwnerLabel,
         UNCHANGED <<work, job, att, runs, turns, audits>>,
         \A q \in Worker \ {p} : inStep'[q] = inStep[q] /\ outcome'[q] = outcome[q],
         pc'[p] \in Claiming => pc[p] \in Claiming, Local(p)', InboxInv'
  PROVE  Consistent'
<1>1. TypeOK /\ OwnerInv BY DEF IInv, Consistent
<1>2. \A q \in Worker \ {p} : pc'[q] = pc[q] BY <1>1 DEF TypeOK
<1>3. Alone(p) BY <1>2 DEF Alone
<1>4. OwnerInv' BY <1>1, <1>2 DEF OwnerInv
<1> QED BY <1>3, <1>4, AloneConsistent

\* Closing, auditing and repairing the turn, under the owner lock.
LEMMA TurnConsistent ==
  ASSUME IInv, TypeOK', NEW p \in Worker, EndTurn(p) \/ AuditTerminalExit(p) \/ RepairTurn(p)
  PROVE  Consistent'
<1> DEFINE w == job[p]
<1> USE DEF localVars
<1>1. TypeOK /\ Local(p) /\ pc[p] \in {"close", "audit", "repair"} /\ w \in Work
  BY LocalNow DEF EndTurn, AuditTerminalExit, RepairTurn, IInv, TypeOK
<1>2. /\ UNCHANGED <<work, inboxVars, owner, job, att, inStep, outcome, runs>>
      /\ pc' = [pc EXCEPT ![p] = pc'[p]] /\ pc'[p] \in {"audit", "release"}
  BY <1>1 DEF EndTurn, AuditTerminalExit, RepairTurn, boardVars, Goto, TypeOK
<1>3. /\ work[w].state = "settled" /\ turns[w] \in {0, 1} /\ audits[w] \in {0, 1}
      /\ audits[w] <= turns[w]
      /\ pc[p] = "close" => turns[w] = 0
      /\ pc[p] = "audit" => turns[w] = 1
  <2>1. work[w].state = "settled" /\ (pc[p] = "close" => turns[w] = 0)
        /\ (pc[p] = "audit" => turns[w] = 1)
    BY <1>1 DEF Local, TurnOf
  <2>2. turns[w] \in Nat /\ audits[w] \in Nat BY <1>1 DEF TypeOK
  <2>3. turns[w] <= 1 /\ audits[w] <= turns[w] BY <1>1 DEF IInv, Consistent, TurnClosedOnce
  <2> QED BY <2>1, <2>2, <2>3
<1>4. /\ turns'[w] = 1 /\ audits'[w] \in {0, 1}
      /\ audits'[w] = 1 => audits[w] = 1 \/ work[w].result # "succeeded"
      /\ \A v \in Work : v # w => turns'[v] = turns[v] /\ audits'[v] = audits[v]
  BY <1>1, <1>3 DEF EndTurn, AuditTerminalExit, RepairTurn, TypeOK
<1>5. \A q \in Worker \ {p} : pc'[q] = pc[q] BY <1>1, <1>2 DEF TypeOK
<1> HIDE DEF w
<1>6. TurnClosedOnce' BY <1>2, <1>3, <1>4 DEF IInv, Consistent, TurnClosedOnce
<1>7. ASSUME NEW q \in Worker PROVE Local(q)'
  <2>1. CASE q = p
    BY <1>1, <1>2, <1>3, <1>4, <2>1
       DEF Local, StepOf, ClaimOf, RecoverOf, TurnOf, Executing, Claiming, OwnerLabel, w
  <2>2. CASE q # p
    <3>1. Local(q) /\ pc'[q] = pc[q] BY <1>5, <2>2, LocalNow
    <3>2. pc[q] \notin OwnerLabel
      BY <1>1, <2>2 DEF IInv, Consistent, OwnerInv, OwnerLabel
    <3>3. pc[q] \notin {"close", "audit"} BY <3>2 DEF OwnerLabel
    <3> QED BY <1>2, <3>1, <3>3
            DEF Local, StepOf, ClaimOf, RecoverOf, TurnOf, Executing, HoldsClaim, Fresh
  <2> QED BY <2>1, <2>2
<1>8. StepInv' /\ ClaimInv' /\ RecoverInv' /\ TurnInv' /\ ExecutorKeepsClaim'
  BY <1>7 DEF Local, StepInv, ClaimInv, RecoverInv, TurnInv, ExecutorKeepsClaim
<1>9. OwnerInv'
  <2>1. pc[p] \in OwnerLabel /\ pc'[p] \in OwnerLabel BY <1>1, <1>2 DEF OwnerLabel
  <2> QED BY <1>2, <1>5, <2>1 DEF IInv, Consistent, OwnerInv
<1>10. UniqueInv' BY <1>1, <1>2, <1>5 DEF IInv, Consistent, UniqueInv, Claiming
<1>11. BoardInv' /\ SettlementHonest'
  BY <1>2 DEF IInv, Consistent, BoardInv, SettlementHonest
<1>12. InboxInv' BY <1>1, <1>2, InboxKept DEF IInv, Consistent
<1> QED BY <1>6, <1>8, <1>9, <1>10, <1>11, <1>12 DEF Consistent

\* The inbox stays in order when a record moves between states of a known control.
LEMMA InboxMoves ==
  ASSUME IInv, NEW i \in Input, NEW c,
         control' = [control EXCEPT ![i] = c], c.state \in {"claimed", "applied", "rejected"},
         UNCHANGED <<work, api, accepted>>
  PROVE  InboxInv'
<1>1. TypeOK /\ InboxInv BY DEF IInv, Consistent
<1>2. control'[i] = c /\ \A j \in Input : j # i => control'[j] = control[j] BY <1>1 DEF TypeOK
<1>3. accepted \subseteq Input /\ (api.at # "idle" => api.input \in Input) BY <1>1 DEF TypeOK
<1> QED BY <1>1, <1>2, <1>3 DEF InboxInv

\* The steps on a control: claim it, apply it, acknowledge or reject it.
LEMMA ControlsConsistent ==
  ASSUME IInv, TypeOK', NEW p \in Worker,
         \/ SkipControl(p) \/ ClaimControl(p) \/ ApplyControl(p) \/ RefuseControl(p)
         \/ MarkApplied(p) \/ MarkRejected(p) \/ ControlsDone(p) \/ Intercept(p)
         \/ ControlsBusy(p) /\ inStep[p]
  PROVE  Consistent'
<1>1. TypeOK /\ InboxInv /\ Local(p) BY LocalNow DEF IInv, Consistent
<1>2. /\ owner' = owner /\ pc' = [pc EXCEPT ![p] = pc'[p]]
      /\ UNCHANGED <<work, job, att, runs, turns, audits>>
      /\ \A q \in Worker \ {p} : inStep'[q] = inStep[q] /\ outcome'[q] = outcome[q]
      /\ pc[p] \in {"controls", "apply", "ack", "reject", "execute"}
      /\ pc'[p] \in {"controls", "apply", "ack", "reject", "dispatch", "execute", "settle"}
  BY <1>1 DEF SkipControl, ClaimControl, ApplyControl, RefuseControl, MarkApplied, MarkRejected,
              ControlsDone, Intercept, ControlsBusy, TypeOK, Goto, boardVars, localVars, logVars
<1>3. \/ /\ inStep'[p] = inStep[p] /\ pc[p] # "execute"
         /\ \/ pc'[p] \in {"controls", "apply", "ack", "reject"}
            \/ pc'[p] = "settle" /\ outcome'[p] = "failed" /\ inStep[p]
            \/ pc'[p] = "settle" /\ outcome'[p] = "rejected" /\ ~inStep[p]
      \/ pc[p] = "execute" /\ inStep'[p] /\ pc'[p] = "controls"
      \/ inStep[p] /\ pc'[p] = "execute" /\ ~inStep'[p] /\ pc[p] # "execute"
      \/ ~inStep[p] /\ pc'[p] = "dispatch" /\ ~inStep'[p] /\ pc[p] # "execute"
  BY <1>1 DEF SkipControl, ClaimControl, ApplyControl, RefuseControl, MarkApplied, MarkRejected,
              ControlsDone, Intercept, ControlsBusy, TypeOK, Goto, localVars
<1>4. Local(p)'
  <2>1. pc[p] \in Claiming /\ pc'[p] \in Claiming BY <1>2 DEF Claiming
  <2>2. /\ att[p] <= work[job[p]].attempt
        /\ HoldsClaim(work[job[p]], att[p]) /\ Fresh(p) => work[job[p]].dispatch = "never"
        /\ pc[p] = "execute" \/ inStep[p] => runs[job[p]] = 1
        /\ pc[p] = "execute" \/ inStep[p] =>
              HoldsClaim(work[job[p]], att[p]) /\ work[job[p]].dispatch = "dispatched"
    BY <1>1, <1>2, <2>1 DEF Local, ClaimOf, Executing, OwnerLabel
  <2>3. StepOf(p)' BY <1>2, <1>3 DEF StepOf
  <2>4. ClaimOf(p)' BY <1>2, <1>3, <2>2 DEF ClaimOf, Fresh, HoldsClaim
  <2>5. RecoverOf(p)' /\ TurnOf(p)' BY <1>2 DEF RecoverOf, TurnOf
  <2>6. Executing(p)' => HoldsClaim(work[job[p]], att[p]) /\ work[job[p]].dispatch = "dispatched"
    BY <1>2, <1>3, <2>2 DEF Executing
  <2> QED BY <1>2, <2>3, <2>4, <2>5, <2>6 DEF Local, HoldsClaim
<1>5. InboxInv'
  <2>1. CASE UNCHANGED inboxVars BY <1>1, <1>2, <2>1, InboxKept
  <2>2. CASE ClaimControl(p)
    <3>1. PICK i \in Input :
            control' = [control EXCEPT ![i] = Taken(@, IF inStep[p] THEN "step" ELSE "turn")]
      BY <2>2 DEF ClaimControl
    <3>2. Taken(control[i], IF inStep[p] THEN "step" ELSE "turn").state = "claimed"
      BY <1>1 DEF Taken, TypeOK, ControlInput
    <3>3. api' = api /\ accepted' = accepted BY <2>2 DEF ClaimControl
    <3> QED BY <1>2, <3>1, <3>2, <3>3, InboxMoves
  <2>3. CASE MarkApplied(p) \/ MarkRejected(p)
    <3>1. PICK s \in {"applied", "rejected"} :
            control' = [control EXCEPT ![cur[p]].state = s]
      BY <2>3 DEF MarkApplied, MarkRejected
    <3>2. cur[p] \in Input /\ control[cur[p]] \in ControlInput
      BY <1>1, <2>3 DEF MarkApplied, MarkRejected, TypeOK
    <3>3. [control[cur[p]] EXCEPT !.state = s].state = s BY <3>2 DEF ControlInput
    <3>4. api' = api /\ accepted' = accepted BY <2>3 DEF MarkApplied, MarkRejected
    <3> QED BY <1>2, <3>1, <3>2, <3>3, <3>4, InboxMoves
  <2>4. UNCHANGED inboxVars \/ ClaimControl(p) \/ MarkApplied(p) \/ MarkRejected(p)
    BY DEF SkipControl, ApplyControl, RefuseControl, ControlsDone, Intercept, ControlsBusy
  <2> QED BY <2>1, <2>2, <2>3, <2>4
<1> QED BY <1>2, <1>4, <1>5, MoveConsistent DEF OwnerLabel, Claiming

\* The steps of a process around its turn: a delivery, the first read, the locks and
\* the executor's return.
LEMMA PathConsistent ==
  ASSUME IInv, TypeOK', NEW p \in Worker,
         \/ (\E w \in Work : Deliver(p, w)) \/ Inspect(p) \/ Acquire(p)
         \/ AcquireForRepair(p) \/ ExecutorReturns(p)
  PROVE  Consistent'
<1>1. TypeOK /\ InboxInv /\ OwnerInv /\ Local(p) BY LocalNow DEF IInv, Consistent
<1> USE DEF boardVars, logVars
<1>2. ASSUME NEW w \in Work, Deliver(p, w) PROVE Consistent'
  <2>1. pc[p] = "idle" /\ pc'[p] = "inspect" /\ pc' = [pc EXCEPT ![p] = "inspect"]
        /\ job' = [job EXCEPT ![p] = w]
        /\ UNCHANGED <<work, inboxVars, owner, att, inStep, outcome, runs, turns, audits>>
    BY <1>1, <1>2 DEF Deliver, Goto, TypeOK
  <2>2. Alone(p) BY <1>1, <2>1 DEF Alone, TypeOK, Claiming
  <2>3. ~inStep[p] BY <1>1, <2>1 DEF Local, StepOf
  <2>4. Local(p)'
    BY <2>1, <2>3 DEF Local, StepOf, ClaimOf, RecoverOf, TurnOf, Executing, Claiming
  <2>5. OwnerInv' BY <1>1, <2>1 DEF OwnerInv, OwnerLabel, TypeOK
  <2> QED BY <1>1, <2>1, <2>2, <2>4, <2>5, InboxKept, AloneConsistent
<1>3. CASE Inspect(p)
  <2> DEFINE item == work[job[p]]
  <2>1. /\ pc[p] = "inspect" /\ job[p] \in Work /\ item.attempt \in Nat
        /\ pc' = [pc EXCEPT ![p] = pc'[p]]
        /\ UNCHANGED <<work, inboxVars, owner, job, inStep, outcome, runs, turns, audits>>
    <3>1. job[p] \in Work BY <1>1, <1>3 DEF Inspect, TypeOK
    <3>2. item \in WorkItem BY <1>1, <3>1 DEF TypeOK
    <3>3. item.attempt \in Nat BY <3>2 DEF WorkItem
    <3> HIDE DEF item
    <3> QED BY <1>1, <1>3, <3>1, <3>3 DEF Inspect, Goto, TypeOK
  <2>2. \A q \in Worker \ {p} : att'[q] = att[q] BY <1>1, <1>3 DEF Inspect, TypeOK
  <2>3. \/ pc'[p] = "acquireRepair" /\ item.state = "settled"
        \/ /\ pc'[p] = "acquireRecover" /\ att'[p] = item.attempt
           /\ item.state = "claimed" /\ item.dispatch # "never"
        \/ pc'[p] = "claim"
    BY <1>1, <1>3 DEF Inspect, Goto, TypeOK, Expired
  <2>4. item.state = "claimed" /\ item.dispatch # "never" => item.dispatch = "dispatched"
    BY <2>1 DEF IInv, Consistent, BoardInv
  <2>5. ~inStep[p] BY <1>1, <2>1 DEF Local, StepOf
  <2>6. Local(p)'
    BY <2>1, <2>3, <2>4, <2>5
       DEF Local, StepOf, ClaimOf, RecoverOf, TurnOf, Executing, Claiming, HoldsClaim
  <2>7. Alone(p) BY <1>1, <2>1, <2>2, <2>3 DEF Alone, TypeOK, Claiming
  <2>8. OwnerInv' BY <1>1, <2>1, <2>3 DEF OwnerInv, OwnerLabel, TypeOK
  <2> QED BY <1>1, <2>1, <2>6, <2>7, <2>8, InboxKept, AloneConsistent
<1>4. CASE Acquire(p) \/ AcquireForRepair(p)
  <2>1. /\ owner = None /\ owner' = p /\ pc' = [pc EXCEPT ![p] = pc'[p]]
        /\ UNCHANGED <<work, inboxVars, job, att, inStep, outcome, runs, turns, audits>>
        /\ \/ pc[p] = "acquire" /\ pc'[p] = "controls"
           \/ pc[p] = "acquireRepair" /\ pc'[p] = "repair"
           \/ pc[p] = "acquireRecover" /\ pc'[p] = "recover"
    BY <1>1, <1>4 DEF Acquire, AcquireForRepair, Goto, TypeOK, localVars
  <2>2. ~inStep[p] BY <1>1, <2>1 DEF Local, StepOf
  <2>3. Local(p)'
    BY <1>1, <2>1, <2>2
       DEF Local, StepOf, ClaimOf, RecoverOf, TurnOf, Executing, Claiming, Fresh, HoldsClaim
  <2>4. Alone(p) BY <1>1, <2>1 DEF Alone, TypeOK, Claiming
  <2>5. OwnerInv'
    BY <1>1, <2>1, LoopAssumption DEF OwnerInv, OwnerLabel, TypeOK
  <2> QED BY <1>1, <2>1, <2>3, <2>4, <2>5, InboxKept, AloneConsistent
<1>5. CASE ExecutorReturns(p)
  <2>1. /\ pc[p] = "execute" /\ pc' = [pc EXCEPT ![p] = "settle"] /\ pc'[p] = "settle"
        /\ outcome'[p] \in {"succeeded", "failed"}
        /\ \A q \in Worker \ {p} : outcome'[q] = outcome[q]
        /\ UNCHANGED <<work, inboxVars, owner, job, att, inStep, runs, turns, audits>>
    BY <1>1, <1>5 DEF ExecutorReturns, Goto, TypeOK
  <2>2. ~inStep[p] BY <1>1, <2>1 DEF Local, StepOf
  <2>3. Local(p)'
    BY <1>1, <2>1, <2>2
       DEF Local, StepOf, ClaimOf, RecoverOf, TurnOf, Executing, Claiming, Fresh, HoldsClaim
  <2> QED BY <1>1, <2>1, <2>3, InboxKept, MoveConsistent DEF OwnerLabel, Claiming
<1> QED BY <1>2, <1>3, <1>4, <1>5

\* Every step of every actor keeps the records, the processes and the log consistent.
LEMMA ConsistentStep == IInv /\ TypeOK' /\ [Next]_vars => Consistent'
<1> SUFFICES ASSUME IInv, TypeOK', [Next]_vars PROVE Consistent' OBVIOUS
<1>1. ASSUME UNCHANGED <<work, inboxVars, owner, pc, localVars, runs, turns, audits>>
      PROVE  Consistent'
  <2>1. InboxInv' BY <1>1, InboxKept DEF IInv, Consistent
  <2> QED BY <1>1, <2>1, OutsideConsistent DEF localVars
<1>2. CASE Tick \/ \E w \in Work : Publish(w) \/ MarkPublished(w)
  BY <1>1, <1>2 DEF Tick, Publish, MarkPublished, boardVars, logVars
<1>3. CASE UNCHANGED vars BY <1>1, <1>3 DEF vars, boardVars, logVars
<1>4. CASE WriteItem \/ WriteRow \/ ApiCrash \/ \E i \in Input : Enqueue(i) \/ Retry(i)
  BY <1>4, ApiConsistent
<1>5. ASSUME NEW p \in Worker, Ack(p) \/ Abort(p) \/ Crash(p) PROVE Consistent'
  BY <1>5, ForgetConsistent DEF Ack, Abort, Crash, boardVars, logVars
<1>6. ASSUME NEW p \in Worker, \E w \in Work : Deliver(p, w) PROVE Consistent'
  BY <1>6, PathConsistent
<1>7. ASSUME NEW p \in Worker, Intercept(p) PROVE Consistent' BY <1>7, ControlsConsistent
<1>8. ASSUME NEW p \in Worker, WorkerStep(p) PROVE Consistent'
  <2>1. CASE Ack(p) \/ Abort(p) BY <1>5, <2>1
  <2>2. CASE Inspect(p) \/ Acquire(p) \/ AcquireForRepair(p) \/ ExecutorReturns(p)
    BY <2>2, PathConsistent
  <2>3. CASE \/ SkipControl(p) \/ ClaimControl(p) \/ ApplyControl(p) \/ RefuseControl(p)
             \/ MarkApplied(p) \/ MarkRejected(p) \/ ControlsDone(p)
             \/ ControlsBusy(p) /\ inStep[p]
    BY <2>3, ControlsConsistent
  <2>4. CASE EndTurn(p) \/ AuditTerminalExit(p) \/ RepairTurn(p) BY <2>4, TurnConsistent
  <2>5. CASE ClaimWork(p) \/ MarkDispatched(p) \/ SettleWork(p) \/ RecoverExpired(p)
    BY <2>5, ClaimWorkConsistent, MarkDispatchedConsistent, SettleWorkConsistent,
       RecoverExpiredConsistent
  <2>6. ControlsBusy(p) /\ ~inStep[p] => Abort(p) BY DEF ControlsBusy
  <2> QED
    BY <1>8, <2>1, <2>2, <2>3, <2>4, <2>5, <2>6
       DEF WorkerStep, ClaimRefused, OwnerBusy, Fault, StaleClaim, WorkLockBusy, Release
<1> QED BY <1>2, <1>3, <1>4, <1>5, <1>6, <1>7, <1>8 DEF Next

\* A fresh Run is consistent.
LEMMA ConsistentInit == Init => IInv
<1> SUFFICES ASSUME Init PROVE IInv OBVIOUS
<1>1. TypeOK BY TypeInit
<1>2. OwnerInv /\ StepInv /\ ClaimInv /\ UniqueInv /\ RecoverInv /\ TurnInv /\ ExecutorKeepsClaim
  BY LoopAssumption
     DEF Init, OwnerInv, StepInv, StepOf, ClaimInv, ClaimOf, UniqueInv, RecoverInv,
         RecoverOf, TurnInv, TurnOf, ExecutorKeepsClaim, Executing, Claiming, OwnerLabel
<1>3. InboxInv /\ BoardInv /\ SettlementHonest /\ TurnClosedOnce
  BY LoopAssumption
     DEF Init, InboxInv, BoardInv, SettlementHonest, TurnClosedOnce, Work,
         NewItem, NoItem
<1> QED BY <1>1, <1>2, <1>3 DEF IInv, Consistent

\* The strengthening the theorems below are read from is an invariant: claims are
\* fenced by attempts, writers by the owner lock, and the log follows the board.
THEOREM Invariance == Spec => []IInv
<1>1. IInv /\ [Next]_vars => IInv' BY TypeStep, ConsistentStep DEF IInv
<1> QED BY ConsistentInit, <1>1, PTL DEF Spec

\* A Run's graph is invoked at most once for a work item, for any number of
\* workers, redeliveries, expired claims and process deaths.
THEOREM AtMostOneExecution == Spec => []ExecutedAtMostOnce
<1>1. IInv => ExecutedAtMostOnce BY DEF IInv, Consistent, BoardInv, ExecutedAtMostOnce
<1> QED BY Invariance, <1>1, PTL

\* A process that recorded its dispatch keeps the claim until it settles, dies or
\* gives up, however long ago the claim expired: recovery needs its owner lock.
THEOREM ExecutorsKeepTheirClaims == Spec => []ExecutorKeepsClaim
<1>1. IInv => ExecutorKeepsClaim BY DEF IInv, Consistent
<1> QED BY Invariance, <1>1, PTL

\* A durable result says what happened: "never" dispatched means no graph call,
\* "confirmed" means one, and a success is confirmed.
THEOREM HonestSettlements == Spec => []SettlementHonest
<1>1. IInv => SettlementHonest BY DEF IInv, Consistent
<1> QED BY Invariance, <1>1, PTL

\* The worker, and whoever repairs after it, close a settled item's turn once and
\* audit a non-success once, after the closure.
THEOREM TurnsCloseOnce == Spec => []TurnClosedOnce
<1>1. IInv => TurnClosedOnce BY DEF IInv, Consistent
<1> QED BY Invariance, <1>1, PTL

-----------------------------------------------------------------------------
(* Applied exactly once: what the inbox says of a control is what the log says of it. *)

\* The owner is between claiming a control and answering it.
Answering == {"apply", "ack", "reject"}

\* A control has its event when it is applied or just about to be recorded as applied, and may
\* have it when it is rejected; one that stays claimed is in the hands of the owner or of a
\* graph that failed over it.
InboxLog ==
    /\ \A i \in Input :
          /\ control[i].state \in {"absent", "pending"} => effects[i] = 0
          /\ control[i].state = "rejected" => effects[i] <= 1
          /\ control[i].state = "applied" => effects[i] = 1
          /\ control[i].state = "claimed" =>
                /\ effects[i] <= 1
                /\ \E p \in Worker : \/ pc[p] \in Answering /\ cur[p] = i
                                     \/ pc[p] = "settle" /\ outcome[p] = "failed"
    /\ \A p \in Worker : pc[p] \in Answering =>
          /\ control[cur[p]].state = "claimed"
          /\ effects[cur[p]] <= 1
          /\ pc[p] = "apply" => effects[cur[p]] = 0
          /\ pc[p] = "ack" => effects[cur[p]] = 1

\* Results come with the settlement.
ResultInv == \A w \in Work : work[w].state # "settled" => work[w].result = "none"

AppliedInv == ResultInv /\ (Unfailing => InboxLog)

\* What a step does to the work items.
LEMMA WorkSteps ==
  ASSUME IInv, [Next]_vars
  PROVE  \/ UNCHANGED work
         \/ WriteItem
         \/ \E p \in Worker :
               ClaimWork(p) \/ MarkDispatched(p) \/ SettleWork(p) \/ RecoverExpired(p)
<1>1. ASSUME NEW p \in Worker, WorkerStep(p)
      PROVE  \/ UNCHANGED work
             \/ ClaimWork(p) \/ MarkDispatched(p) \/ SettleWork(p) \/ RecoverExpired(p)
  BY <1>1 DEF WorkerStep, Inspect, ClaimRefused, OwnerBusy, Acquire, SkipControl, ClaimControl,
              ApplyControl, RefuseControl, MarkApplied, MarkRejected, ControlsBusy, ControlsDone,
              ExecutorReturns, Fault, StaleClaim, WorkLockBusy, EndTurn, AuditTerminalExit,
              Release, AcquireForRepair, RepairTurn, Ack, Abort, boardVars
<1> QED
  BY <1>1 DEF Next, Enqueue, Retry, WriteRow, ApiCrash, Tick, Publish, MarkPublished, Deliver,
              Intercept, Crash, boardVars, vars

\* No step of any process rewrites a settled item.
LEMMA SettledStays ==
  ASSUME IInv, [Next]_vars, NEW w \in Work, work[w].state = "settled"
  PROVE  work'[w] = work[w]
<1>0. work \in [Work -> WorkItem] /\ (\A p \in Worker : pc[p] # "idle" => job[p] \in Work)
  BY DEF IInv, TypeOK
<1>1. CASE WriteItem
  <2>1. api.input # w
    BY <1>1 DEF WriteItem, IInv, Consistent, InboxInv
  <2> QED
    BY <1>0, <1>1, <2>1 DEF WriteItem
<1>2. ASSUME NEW p \in Worker, ClaimWork(p) PROVE work'[w] = work[w]
  BY <1>0, <1>2 DEF ClaimWork, Claimable, Expired
<1>3. ASSUME NEW p \in Worker, MarkDispatched(p) \/ SettleWork(p) PROVE work'[w] = work[w]
  BY <1>0, <1>3 DEF MarkDispatched, SettleWork, CurrentClaim, HoldsClaim
<1>4. ASSUME NEW p \in Worker, RecoverExpired(p) PROVE work'[w] = work[w]
  BY <1>0, <1>4 DEF RecoverExpired, HoldsClaim
<1> QED
  BY <1>1, <1>2, <1>3, <1>4, WorkSteps

LEMMA ResultStep == IInv /\ ResultInv /\ [Next]_vars => ResultInv'
<1> SUFFICES ASSUME IInv, ResultInv, [Next]_vars PROVE ResultInv'
  OBVIOUS
<1>0. work \in [Work -> WorkItem] /\ (\A p \in Worker : pc[p] # "idle" => job[p] \in Work)
      /\ (api.at # "idle" => api.input \in Work)
  BY DEF IInv, TypeOK, Work
<1>1. CASE WriteItem
  BY <1>0, <1>1 DEF WriteItem, ResultInv, NewItem, NoItem
<1>2. ASSUME NEW p \in Worker, ClaimWork(p) \/ MarkDispatched(p) PROVE ResultInv'
  <2>1. job[p] \in Work /\ work[job[p]] \in WorkItem /\ work[job[p]].state # "settled"
    BY <1>0, <1>2 DEF ClaimWork, MarkDispatched, Claimable, Expired, CurrentClaim, HoldsClaim
  <2>2. /\ Claimed(work[job[p]], now).result = work[job[p]].result
        /\ Dispatched(work[job[p]]).result = work[job[p]].result
    BY <2>1 DEF Claimed, Dispatched, WorkItem
  <2>3. work'[job[p]].result = work[job[p]].result
        /\ \A w \in Work \ {job[p]} : work'[w] = work[w]
    BY <1>0, <1>2, <2>1, <2>2 DEF ClaimWork, MarkDispatched
  <2> QED
    BY <2>1, <2>3 DEF ResultInv
<1>3. ASSUME NEW p \in Worker, SettleWork(p) PROVE ResultInv'
  BY <1>0, <1>3 DEF SettleWork, Settled, ResultInv, WorkItem
<1>4. ASSUME NEW p \in Worker, RecoverExpired(p) PROVE ResultInv'
  <2>1. job[p] \in Work /\ work[job[p]] \in WorkItem
    BY <1>0, <1>4 DEF RecoverExpired
  <2>2. CASE UNCHANGED work
    BY <2>2 DEF ResultInv
  <2>3. CASE work[job[p]].state # "settled" /\ work' = [work EXCEPT ![job[p]] = Recovered(@)]
    <3>1. Recovered(work[job[p]]).state = "settled"
          \/ Recovered(work[job[p]]).result = work[job[p]].result
      BY <2>1 DEF Recovered, Settled, WorkItem
    <3> QED
      BY <1>0, <2>1, <2>3, <3>1 DEF ResultInv
  <2> QED
    BY <1>4, <2>2, <2>3 DEF RecoverExpired, HoldsClaim
<1> QED
  BY <1>1, <1>2, <1>3, <1>4, WorkSteps DEF ResultInv

\* Deaths, dead letters and failures stay.
LEMMA UnfailingBefore ==
  ASSUME IInv, ResultInv, [Next]_vars, Unfailing'
  PROVE  Unfailing
<1>1. crashes \in Nat /\ crashes' = 0 /\ dead' = {} /\ \A w \in Work : work'[w].result # "failed"
  BY DEF IInv, TypeOK, Unfailing
<1>2. \A w \in Work : work[w].result # "failed"
  <2> SUFFICES ASSUME NEW w \in Work, work[w].result = "failed" PROVE FALSE
    OBVIOUS
  <2>1. work[w].state = "settled"
    BY DEF ResultInv
  <2> QED
    BY <1>1, <2>1, SettledStays
<1>3. ASSUME NEW p \in Worker, WorkerStep(p)
      PROVE  crashes' = crashes /\ dead' \in {dead, dead \cup {job[p]}}
  BY <1>3 DEF WorkerStep, Inspect, ClaimWork, ClaimRefused, OwnerBusy, Acquire, SkipControl,
              ClaimControl, ApplyControl, RefuseControl, MarkApplied, MarkRejected, ControlsBusy,
              ControlsDone, MarkDispatched, ExecutorReturns, Fault, SettleWork, StaleClaim,
              WorkLockBusy, EndTurn, AuditTerminalExit, Release, AcquireForRepair, RepairTurn,
              RecoverExpired, Ack, Abort, wireVars
<1>4. crashes' \in {crashes, crashes + 1} /\ dead \subseteq dead'
  BY <1>3 DEF Next, Enqueue, Retry, WriteItem, WriteRow, ApiCrash, Tick, Publish, MarkPublished,
              Deliver, Intercept, Crash, vars, wireVars
<1> QED
  BY <1>1, <1>2, <1>3, <1>4 DEF Unfailing

\* Only the process that owns the Run answers controls, and only it settles.
LEMMA OneAnswers ==
  ASSUME IInv, NEW p \in Worker, NEW q \in Worker, pc[p] \in OwnerLabel,
         pc[q] \in Answering \cup {"settle"}
  PROVE  p = q
  BY DEF IInv, Consistent, OwnerInv, OwnerLabel, Answering

\* Steps of one process that answers no control and does not fail.
LEMMA ElsewhereLogged ==
  ASSUME IInv, InboxLog, NEW p \in Worker, UNCHANGED <<control, effects>>,
         pc[p] \notin Answering \cup {"settle"}, pc'[p] \notin Answering,
         \A q \in Worker \ {p} : pc'[q] = pc[q] /\ cur'[q] = cur[q] /\ outcome'[q] = outcome[q]
  PROVE  InboxLog'
  BY DEF InboxLog

\* Steps of everything but the processes that work.
LEMMA BesidesLogged ==
  ASSUME InboxLog, UNCHANGED <<control, effects, pc, cur, outcome>>
  PROVE  InboxLog'
  BY DEF InboxLog

LEMMA ControlsLogged ==
  ASSUME IInv, IInv', InboxLog, Unfailing', NEW p \in Worker,
         \/ ClaimControl(p) \/ ApplyControl(p) \/ RefuseControl(p) \/ MarkApplied(p)
         \/ MarkRejected(p) \/ ControlsBusy(p) \/ SettleWork(p)
  PROVE  InboxLog'
<1>0. /\ pc \in [Worker -> Label] /\ control \in [Input -> ControlInput]
      /\ effects \in [Input -> Nat] /\ cur \in [Worker -> Input \cup {None}]
      /\ outcome \in [Worker -> Outcome]
      /\ (pc[p] \in Answering => cur[p] \in Input)
  BY DEF IInv, TypeOK, Answering
<1>1. CASE ClaimControl(p)
  <2>1. PICK i \in Input : /\ ClaimableControl(i) /\ pc[p] = "controls"
                           /\ control' = [control EXCEPT ![i] =
                                            Taken(@, IF inStep[p] THEN "step" ELSE "turn")]
                           /\ cur' = [cur EXCEPT ![p] = i] /\ pc' = [pc EXCEPT ![p] = "apply"]
                           /\ UNCHANGED <<effects, outcome>>
    BY <1>1 DEF ClaimControl, Goto, logVars
  <2>2. \A q \in Worker : pc[q] \notin Answering \cup {"settle"}
    BY <2>1, OneAnswers DEF OwnerLabel, Answering
  <2>3. control[i].state = "pending" /\ effects[i] = 0
    BY <2>1, <2>2 DEF InboxLog, ClaimableControl
  <2>4. control'[i].state = "claimed" /\ \A k \in Input \ {i} : control'[k] = control[k]
    BY <1>0, <2>1 DEF Taken, ControlInput
  <2>5. pc'[p] = "apply" /\ cur'[p] = i /\ \A q \in Worker \ {p} : pc'[q] = pc[q]
    BY <1>0, <2>1
  <2> QED
    BY <2>1, <2>2, <2>3, <2>4, <2>5 DEF InboxLog, Answering
<1>2. CASE ApplyControl(p)
  <2>1. /\ pc[p] = "apply" /\ pc' = [pc EXCEPT ![p] = "ack"]
        /\ effects' = [effects EXCEPT ![cur[p]] = @ + 1] /\ UNCHANGED <<control, cur, outcome>>
    BY <1>2 DEF ApplyControl, Goto, inboxVars, localVars
  <2>2. \A q \in Worker : pc[q] \in Answering \cup {"settle"} => q = p
    BY <2>1, OneAnswers DEF OwnerLabel
  <2>3. control[cur[p]].state = "claimed" /\ effects'[cur[p]] = 1
        /\ \A k \in Input \ {cur[p]} : effects'[k] = effects[k]
    BY <1>0, <2>1 DEF InboxLog, Answering
  <2>4. pc'[p] = "ack" /\ \A q \in Worker \ {p} : pc'[q] = pc[q]
    BY <1>0, <2>1
  <2> QED
    BY <1>0, <2>1, <2>2, <2>3, <2>4 DEF InboxLog, Answering
<1>3. CASE RefuseControl(p)
  <2>1. pc[p] \in {"apply", "ack"} /\ pc' = [pc EXCEPT ![p] = "reject"]
        /\ UNCHANGED <<effects, control, cur, outcome>>
    BY <1>3 DEF RefuseControl, Goto, inboxVars, localVars, logVars
  <2>2. pc'[p] = "reject" /\ \A q \in Worker \ {p} : pc'[q] = pc[q]
    BY <1>0, <2>1
  <2> QED
    BY <1>0, <2>1, <2>2 DEF InboxLog, Answering
<1>4. CASE MarkApplied(p) \/ MarkRejected(p)
  <2>1. PICK s \in {"applied", "rejected"} :
           /\ s = "applied" <=> pc[p] = "ack"
           /\ pc[p] \in {"ack", "reject"} /\ control' = [control EXCEPT ![cur[p]].state = s]
           /\ cur' = [cur EXCEPT ![p] = None] /\ pc' = [pc EXCEPT ![p] = pc'[p]]
           /\ pc'[p] \in {"controls", "settle"} /\ UNCHANGED effects
           /\ \A q \in Worker \ {p} : outcome'[q] = outcome[q]
    BY <1>0, <1>4 DEF MarkApplied, MarkRejected, Goto, logVars
  <2>2. \A q \in Worker : pc[q] \in Answering \cup {"settle"} => q = p
    BY <2>1, OneAnswers DEF OwnerLabel
  <2>3. cur[p] \in Input /\ effects[cur[p]] <= 1 /\ (pc[p] = "ack" => effects[cur[p]] = 1)
    BY <1>0, <2>1 DEF InboxLog, Answering
  <2>4. control'[cur[p]].state = s /\ \A k \in Input \ {cur[p]} : control'[k] = control[k]
    BY <1>0, <2>1, <2>3 DEF ControlInput
  <2>5. \A k \in Input \ {cur[p]} : control[k].state # "claimed"
    BY <2>1, <2>2 DEF InboxLog, Answering
  <2>6. \A q \in Worker : pc'[q] \notin Answering
    BY <1>0, <2>1, <2>2 DEF Answering
  <2> QED
    BY <2>1, <2>3, <2>4, <2>5, <2>6 DEF InboxLog
<1>5. CASE ControlsBusy(p)
  <2>1. ~Abort(p)
    BY DEF Abort, Unfailing
  <2>2. /\ pc[p] \in {"controls", "ack", "reject"} /\ pc' = [pc EXCEPT ![p] = "settle"]
        /\ outcome' = [outcome EXCEPT ![p] = "failed"] /\ UNCHANGED <<control, effects>>
        /\ cur' = [cur EXCEPT ![p] = None]
    BY <1>5, <2>1 DEF ControlsBusy, Goto, inboxVars, logVars
  <2>3. pc'[p] = "settle" /\ outcome'[p] = "failed"
        /\ \A q \in Worker \ {p} : pc'[q] = pc[q] /\ cur'[q] = cur[q]
    BY <1>0, <2>2
  <2>4. \A q \in Worker : pc[q] \in Answering \cup {"settle"} => q = p
    BY <2>2, OneAnswers DEF OwnerLabel
  <2> QED
    BY <2>2, <2>3, <2>4 DEF InboxLog, Answering
<1>6. CASE SettleWork(p)
  <2>1. /\ pc[p] = "settle" /\ pc' = [pc EXCEPT ![p] = "close"]
        /\ UNCHANGED <<control, effects, cur, outcome>>
    BY <1>6 DEF SettleWork, Goto, inboxVars, localVars, logVars
  <2>2. job[p] \in Work /\ work \in [Work -> WorkItem]
    BY <2>1 DEF IInv, TypeOK
  <2>3. outcome[p] # "failed"
    <3>1. work'[job[p]].result = IF outcome[p] = "rejected" THEN "failed" ELSE outcome[p]
      BY <1>6, <2>2 DEF SettleWork, Settled, WorkItem
    <3> QED
      BY <2>2, <3>1 DEF Unfailing
  <2>4. \A q \in Worker : pc[q] \in Answering \cup {"settle"} => q = p
    BY <2>1, OneAnswers DEF OwnerLabel
  <2>5. \A i \in Input : control[i].state # "claimed"
    BY <2>1, <2>3, <2>4 DEF InboxLog, Answering
  <2>6. \A q \in Worker : pc'[q] \notin Answering
    BY <1>0, <2>1, <2>4 DEF Answering
  <2> QED
    BY <2>1, <2>5, <2>6 DEF InboxLog
<1> QED
  BY <1>1, <1>2, <1>3, <1>4, <1>5, <1>6

LEMMA LoggedStep ==
  ASSUME IInv, IInv', InboxLog, Unfailing', [Next]_vars
  PROVE  InboxLog'
<1>0. /\ pc \in [Worker -> Label] /\ cur \in [Worker -> Input \cup {None}]
      /\ outcome \in [Worker -> Outcome] /\ control \in [Input -> ControlInput]
      /\ crashes \in Nat
  BY DEF IInv, TypeOK
<1>1. ASSUME NEW i \in Input, Enqueue(i) PROVE InboxLog'
  <2>1. /\ control[i].state = "absent" /\ control'[i].state = "pending"
        /\ \A k \in Input \ {i} : control'[k] = control[k]
        /\ UNCHANGED <<effects, pc, cur, outcome>>
    BY <1>0, <1>1 DEF Enqueue, ControlInput, localVars, logVars
  <2>2. \A q \in Worker : pc[q] \in Answering => cur[q] \in Input \ {i}
    BY <2>1 DEF IInv, TypeOK, InboxLog, Answering
  <2> QED
    BY <2>1, <2>2 DEF InboxLog
<1>2. CASE \/ WriteItem \/ WriteRow \/ Tick \/ UNCHANGED vars
           \/ (\E i \in Input : Retry(i)) \/ ApiCrash
           \/ \E w \in Work : Publish(w) \/ MarkPublished(w)
  <2>1. UNCHANGED <<control, effects, pc, cur, outcome>>
    BY <1>2 DEF WriteItem, WriteRow, Tick, Retry, ApiCrash, Publish, MarkPublished, vars,
                inboxVars, localVars, logVars
  <2> QED
    BY <2>1, BesidesLogged
<1>3. ASSUME NEW p \in Worker, (\E w \in Work : Deliver(p, w)) \/ Intercept(p) PROVE InboxLog'
  <2>1. /\ pc[p] \in {"idle", "execute"} /\ pc' = [pc EXCEPT ![p] = pc'[p]]
        /\ pc'[p] \in {"inspect", "controls"} /\ UNCHANGED <<control, effects, cur, outcome>>
    <3>1. CASE \E w \in Work : Deliver(p, w)
      BY <1>0, <3>1 DEF Deliver, Goto, inboxVars, logVars
    <3>2. CASE Intercept(p)
      BY <1>0, <3>2 DEF Intercept, Goto, inboxVars, localVars, logVars
    <3> QED
      BY <1>3, <3>1, <3>2
  <2> QED
    BY <1>0, <2>1, ElsewhereLogged DEF Answering
<1>4. ASSUME NEW p \in Worker PROVE ~Abort(p) /\ ~Crash(p)
  BY <1>0 DEF Abort, Crash, Unfailing
<1>5. ASSUME NEW p \in Worker, Ack(p), pc[p] \notin Answering \cup {"settle"} PROVE InboxLog'
  <2>1. /\ pc' = [pc EXCEPT ![p] = "idle"] /\ cur' = [cur EXCEPT ![p] = None]
        /\ outcome' = [outcome EXCEPT ![p] = "none"] /\ UNCHANGED <<control, effects>>
    BY <1>5 DEF Ack, Forget, Goto, inboxVars, logVars
  <2>2. pc'[p] = "idle" /\ \A q \in Worker \ {p} :
           pc'[q] = pc[q] /\ cur'[q] = cur[q] /\ outcome'[q] = outcome[q]
    BY <1>0, <2>1
  <2> QED
    BY <1>5, <2>1, <2>2, ElsewhereLogged DEF Answering
<1>6. ASSUME NEW p \in Worker, WorkerStep(p) PROVE InboxLog'
  <2>1. CASE \/ Inspect(p) \/ ClaimWork(p) \/ Acquire(p) \/ AcquireForRepair(p) \/ SkipControl(p)
             \/ ControlsDone(p) \/ EndTurn(p) \/ AuditTerminalExit(p) \/ RepairTurn(p)
             \/ RecoverExpired(p) \/ MarkDispatched(p) \/ ExecutorReturns(p)
    <3>1. /\ pc[p] \notin Answering \cup {"settle"} /\ pc'[p] \notin Answering
          /\ UNCHANGED <<control, effects, cur>>
          /\ \A q \in Worker \ {p} : pc'[q] = pc[q] /\ outcome'[q] = outcome[q]
      BY <1>0, <2>1
         DEF Inspect, ClaimWork, Acquire, AcquireForRepair, SkipControl, ControlsDone, EndTurn,
             AuditTerminalExit, RepairTurn, RecoverExpired, MarkDispatched, ExecutorReturns,
             Goto, inboxVars, localVars, logVars, Answering
    <3> QED
      BY <3>1, ElsewhereLogged
  <2>2. CASE ClaimRefused(p) \/ OwnerBusy(p) \/ Release(p)
    BY <1>5, <2>2 DEF ClaimRefused, OwnerBusy, Release, Answering
  <2>3. CASE Fault(p) \/ StaleClaim(p) \/ WorkLockBusy(p)
    BY <1>4, <2>3 DEF Fault, StaleClaim, WorkLockBusy
  <2> QED
    BY <1>6, <2>1, <2>2, <2>3, ControlsLogged DEF WorkerStep
<1> QED
  BY <1>1, <1>2, <1>3, <1>4, <1>6 DEF Next

\* While nothing fails, the inbox and the log of the Run agree on every control.
THEOREM AppliedInvariance == Spec => []AppliedInv
<1>1. Init => AppliedInv
  BY LoopAssumption
     DEF Init, AppliedInv, ResultInv, InboxLog, Work, NewItem, NoItem, Answering
<1>2. IInv /\ IInv' /\ AppliedInv /\ [Next]_vars => AppliedInv'
  BY ResultStep, UnfailingBefore, LoggedStep DEF AppliedInv
<1> QED
  BY <1>1, <1>2, Invariance, PTL DEF Spec

\* As long as no process died, no message was dead-lettered and no turn failed, a control's event
\* is in the log at most once, and exactly once when the inbox says applied, for any number of
\* workers, controls and redeliveries (apply_pending_goal_controls, mark_applied).
THEOREM AppliedOnce == Spec => []AppliedExactlyOnce
<1>1. IInv /\ AppliedInv => AppliedExactlyOnce
  <2> SUFFICES ASSUME IInv, AppliedInv, Unfailing, NEW i \in Input
               PROVE  effects[i] <= 1 /\ (control[i].state = "applied" => effects[i] = 1)
    BY DEF AppliedExactlyOnce
  <2>1. control[i].state \in ControlState
    BY DEF IInv, TypeOK, ControlInput
  <2> QED
    BY <2>1 DEF AppliedInv, InboxLog, ControlState
<1> QED
  BY <1>1, Invariance, AppliedInvariance, PTL

\* No step of any process, dead, late or recovering, rewrites a settled item.
THEOREM SettlementIsFinal == Spec => SettledIsFinal
<1>1. IInv /\ [Next]_vars => [\A w \in Work : work[w].state = "settled" => work'[w] = work[w]]_vars
  BY SettledStays
<1> QED
  BY Invariance, <1>1, PTL DEF Spec, SettledIsFinal
=============================================================================
