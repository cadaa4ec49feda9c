------------------------------ MODULE ToolCall ------------------------------
(* The Tool Manager: callers of one Run ask for tool calls, the log and the Gate *)
(* decide them, humans answer reviews from outside, and every call leaves a      *)
(* record. A step is what happens between two accesses to the log.               *)
EXTENDS ToolTickets

CONSTANTS
    Caller,                 \* agents that call tools
    Depth,                  \* the delegation depth of each
    Ticket,                 \* the exact calls they may ask for
    Surface, FirstSurface,  \* policy and constraints a pass may run under, and the first
    Verdict,                \* what the engine says of a call under each
    Overlap,                \* whether two passes may work on the Run at once
    TTL,                    \* how long a request is spendable
    None,
    MaxCalls,               \* bound on the calls
    MaxTrouble              \* bound on what happens to them: an answer, a tick, a pass or
                            \* a Run that ends and another surface count once, a refusal
                            \* by no ticket, a failed write and a death twice

ASSUME ToolAssumption ==
    /\ Depth \in [Caller -> Nat]
    /\ FirstSurface \in Surface
    /\ Verdict \in [Surface -> {"pass", "review", "block"}]
    /\ Overlap \in BOOLEAN
    /\ None \notin Caller
    /\ {TTL, MaxCalls, MaxTrouble} \subseteq Nat

VARIABLES
    log,        \* the Run's events
    now,        \* the clock
    surface,    \* what the engine decides by, for the pass at work
    calls,      \* how many call ids were given out
    job,        \* what each caller is doing
    holder,     \* who holds the workspace lock
    lost,       \* the calls that a failed write or a death cut off
    trouble     \* how much happened to the calls

vars == <<log, now, surface, calls, job, holder, lost, trouble>>

Place == {"idle", "settle", "ask", "reread", "deny", "ready", "run", "again"}
Free == [at |-> "idle", call |-> 0, ticket |-> None, of |-> 0, paid |-> 0, expires |-> 0,
         seen |-> 0, outcome |-> "pending"]
At(c, place) == job[c].at = place
Busy == {c \in Caller : ~At(c, "idle")}
Do(c, j) == job' = [job EXCEPT ![c] = j]
Go(c, place) == Do(c, [job[c] EXCEPT !.at = place])
Done(c) == Do(c, Free)
Record(e) == log' = Append(log, e)
Ask(c, t) == Disposition(log, t, Depth[c], surface, Verdict[surface], now)

Init ==
    /\ log = <<>> /\ now = 0 /\ surface = FirstSurface /\ calls = 0
    /\ job = [c \in Caller |-> Free] /\ holder = None
    /\ lost = {} /\ trouble = 0

outside == <<now, surface, lost, trouble>>
Trouble(n) == trouble + n <= MaxTrouble /\ trouble' = trouble + n
Stop == Trouble(2) /\ UNCHANGED <<now, surface, lost>>

\* Seeded bug: whatever closed the scope settles the call.
SettlesAnyClosure(disp) == disp.outcome = "rejected" \/ disp.closure # "open"

\* The log alone settles a call that a human refused, or whose approval ended with
\* the Run; only a refusal names a decision.
Settles(disp) == disp.outcome = "rejected" \/ disp.closure = "ended"

\* A new call, whose arguments and constraints pass: the log is read for it, and an
\* unspent answer is its decision.
Begin(c, t) ==
    /\ At(c, "idle") /\ calls < MaxCalls
    /\ ~Overlap => Busy = {}
    /\ calls' = calls + 1
    /\ LET disp == Ask(c, t)
           new == [Free EXCEPT !.call = calls + 1, !.ticket = t, !.expires = now + TTL,
                               !.seen = Len(log), !.outcome = disp.outcome]
       IN  Do(c, IF Settles(disp) THEN [new EXCEPT !.at = "settle", !.of = disp.of]
                 ELSE IF disp.outcome = "allowed"
                      THEN [new EXCEPT !.at = "ready", !.of = disp.of, !.paid = disp.of]
                 ELSE [new EXCEPT !.at = "ask"])
    /\ UNCHANGED <<log, holder, outside>>

\* A call that names no tool, breaks its argument model or carries a credential is
\* recorded as failed; one outside the agent's allowlist or the constraints is denied.
Invalid(c) ==
    /\ At(c, "idle") /\ calls < MaxCalls /\ Stop
    /\ ~Overlap => Busy = {}
    /\ calls' = calls + 1
    /\ \E e \in {CompletedEvent(calls + 1), DeniedEvent(calls + 1, None, 0, "constraint")} :
           Record(e)
    /\ UNCHANGED <<job, holder>>

\* Otherwise the Gate decides and records the decision, for a review with its scope.
FreshDecision(c) ==
    /\ At(c, "ask")
    /\ Record(DecisionEvent(job[c].call, job[c].ticket, Depth[c], Verdict[surface], surface,
                            job[c].expires))
    /\ Do(c, [job[c] EXCEPT !.of = Len(log) + 1,
                            !.at = CASE Verdict[surface] = "pass"   -> "ready"
                                     [] Verdict[surface] = "review" -> "reread"
                                     [] OTHER -> "deny"])
    /\ UNCHANGED <<calls, holder, outside>>

\* After a review was requested the log is read again. An answer to this very review
\* lets the call go; an answer to another review of the same call does not.
Reread(c) ==
    /\ At(c, "reread")
    /\ LET disp == Ask(c, job[c].ticket)
           own == disp.outcome = "allowed" /\ disp.of = job[c].of
       IN  Do(c, [job[c] EXCEPT
              !.seen = Len(log),
              !.outcome = IF Settles(disp) \/ disp.closure # "open" THEN disp.outcome
                          ELSE "pending",
              !.of = IF disp.closure = "ended" THEN 0 ELSE @,
              !.paid = IF own THEN job[c].of ELSE 0,
              !.at = IF Settles(disp) THEN "settle" ELSE IF own THEN "ready" ELSE "deny"])
    /\ UNCHANGED <<log, calls, holder, outside>>

Deny(c) ==
    /\ job[c].at \in {"settle", "deny"}
    /\ Record(DeniedEvent(job[c].call, job[c].ticket, job[c].of, job[c].outcome))
    /\ Done(c)
    /\ UNCHANGED <<calls, holder, outside>>

\* The budget guard refuses under a decision about the Run, which names no ticket.
OverBudget(c) ==
    /\ At(c, "ready") /\ Stop
    /\ Record(DeniedEvent(job[c].call, None, 0, "budget"))
    /\ Done(c)
    /\ UNCHANGED <<calls, holder>>

\* Seeded bug: the failed call is recorded and goes on.
UnavailableGoesOn(c) ==
    /\ At(c, "ready") /\ Stop
    /\ Record(CompletedEvent(job[c].call))
    /\ UNCHANGED <<calls, job, holder>>

\* The workspace lock or the discovery witness fails: one record, and nothing ran.
Unavailable(c) ==
    /\ At(c, "ready") /\ Stop
    /\ Record(CompletedEvent(job[c].call))
    /\ Done(c)
    /\ UNCHANGED <<calls, holder>>

\* Under the workspace lock, for which the call waits, the start is recorded.
Started(c) ==
    StartEvent(job[c].call, job[c].ticket, Depth[c], job[c].of, job[c].paid, now, job[c].seen)
Start(c) ==
    /\ At(c, "ready") /\ holder = None
    /\ holder' = c
    /\ Record(Started(c))
    /\ Go(c, "run")
    /\ UNCHANGED <<calls, outside>>

\* The tool worked; whatever it did or raised, the call is closed.
Close(c) ==
    /\ At(c, "run")
    /\ Record(CompletedEvent(job[c].call))
    /\ holder' = None
    /\ Done(c)
    /\ UNCHANGED <<calls, outside>>

\* An append under the lock raises, with or without the event being in the file, and
\* the lock is let go. An OSError records the call as failed, anything else escapes.
Broken(c, event) ==
    /\ Trouble(2) /\ lost' = lost \cup {job[c].call}
    /\ log' \in {log, Append(log, event)}
    /\ Go(c, "again") \/ Done(c)
    /\ UNCHANGED <<now, surface, calls>>
StartFails(c) ==
    /\ At(c, "ready") /\ holder = None
    /\ Broken(c, Started(c))
    /\ UNCHANGED holder
CloseFails(c) ==
    /\ At(c, "run")
    /\ Broken(c, CompletedEvent(job[c].call))
    /\ holder' = None
RecordFailedCall(c) ==
    /\ At(c, "again")
    /\ Record(CompletedEvent(job[c].call))
    /\ Done(c)
    /\ UNCHANGED <<calls, holder, outside>>

\* The process of the callers dies: locals and the lock go. An append outside the lock
\* that raises ends its call in the same way.
Die ==
    /\ Busy # {} /\ Trouble(2)
    /\ lost' = lost \cup {job[c].call : c \in Busy}
    /\ job' = [c \in Caller |-> Free] /\ holder' = None
    /\ UNCHANGED <<log, now, surface, calls>>

\* A human answers a review that is still pending. Nothing looks at its deadline.
Pending ==
    {d \in Of(log, "decision") :
        log[d].verdict = "review" /\ ~Answered(log, d) /\ Closers(log, d) = {}}
Human(d, yes) ==
    /\ Record(AnswerEvent(d, yes, now)) /\ Trouble(1)
    /\ UNCHANGED <<now, surface, calls, job, holder, lost>>

\* Core moves the Run: the pass ends when its callers are done, a Run may be
\* cancelled at any time.
Core(kind) ==
    /\ Of(log, "ended") = {}
    /\ kind = "released" => Overlap \/ Busy = {}
    /\ Record([kind |-> kind])
    /\ Trouble(1)
    /\ UNCHANGED <<now, surface, calls, job, holder, lost>>

\* A later pass runs under another policy, risk or set of constraints.
Move(s) ==
    /\ Busy = {} /\ s # surface
    /\ surface' = s /\ Trouble(1)
    /\ UNCHANGED <<log, now, calls, job, holder, lost>>

Tick ==
    /\ now' = now + 1 /\ Trouble(1)
    /\ UNCHANGED <<log, surface, calls, job, holder, lost>>

CallStep(c) ==
    \/ FreshDecision(c) \/ Reread(c) \/ Deny(c) \/ OverBudget(c) \/ Unavailable(c)
    \/ Start(c) \/ Close(c) \/ StartFails(c) \/ CloseFails(c) \/ RecordFailedCall(c)
Next ==
    \/ \E c \in Caller : (\E t \in Ticket : Begin(c, t)) \/ Invalid(c) \/ CallStep(c)
    \/ \E d \in Pending, yes \in BOOLEAN : Human(d, yes)
    \/ \E kind \in {"released", "ended"} : Core(kind)
    \/ \E s \in Surface : Move(s)
    \/ Die \/ Tick

Spec == Init /\ [][Next]_vars

-----------------------------------------------------------------------------
\* A human's answer buys one execution: the starts it paid for at a delegation depth
\* are never more than the approvals given there for the same call.
OneYesOneRun ==
    \A t \in Ticket, c \in Caller :
        Cardinality({i \in Starts(log, t) : log[i].paid # 0 /\ log[i].depth = Depth[c]})
            <= Cardinality({a \in Answers(log, t) : log[a].yes /\ log[log[a].of].depth = Depth[c]})

\* A refusal that stands in the log when a call last reads it is final for that call,
\* whatever else was answered, under whichever policy, at whichever depth.
RejectionIsFinal ==
    \A t \in Ticket : \A i \in Starts(log, t) : \A r \in Refusals(log, t) : r > log[i].seen

\* MIRA accepts every start of an honest manager (the newest record: what it says of an
\* older one it said when that was the newest), unless the log moved on between
\* the manager's last reading and the start: the scope closed, a human refused, the
\* deadline passed; or the call ran at another depth, for MIRA's fold has no delegation
\* depths ("one the manager counts but MIRA refuses would raise a finding on a correct
\* Run", ticket_pool.py:51, is not kept across depths).
Overtaken(i) ==
    LET d == log[i].of
    IN  \/ \E j \in (log[i].seen + 1)..(i - 1) :
               log[j].kind \in {"released", "ended"} \/ j \in Refusals(log, log[i].ticket)
        \/ log[i].at > log[d].expires
Newest(kind) == {i \in Of(log, kind) : i = Len(log)}
AnotherDepthRan(i) ==
    \E j \in Starts(log, log[i].ticket) : log[j].depth # log[i].depth
StartsPassTheAuditPerDepth ==
    \A i \in Newest("started") : Authorised(log, i) \/ Overtaken(i) \/ AnotherDepthRan(i)

\* MIRA finds the refusal behind every denial, unless a human approved the call's own
\* review before the denial was written, or the Run had ended and nobody was asked.
DenialsPassTheAudit ==
    \A i \in Newest("denied") :
        \/ log[i].ticket = None \/ Explained(log, i)
        \/ \E a \in Of(log, "answer") :
               a < i /\ log[a].yes /\ log[log[a].of].call = log[i].call
        \/ log[i].of = 0 /\ Of(log, "ended") # {}

\* A fresh approval is never eaten by an execution that something else paid for: if
\* it came after the last start of its call and is still in force, the call may run.
\* Only a start that needed no approval, under an earlier policy, eats one.
FreshYesBuys ==
    \A t \in Ticket, c \in Caller :
        LET mine == {i \in Starts(log, t) : log[i].depth = Depth[c]}
            fresh == {a \in Live(log, t, Depth[c], now) :
                         log[log[a].of].surface = surface /\ \A i \in mine : i < a}
        IN  /\ Verdict[surface] # "block" /\ fresh # {} /\ Refusals(log, t) = {}
            /\ \A i \in mine : log[i].paid # 0
            => Disposition(log, t, Depth[c], surface, Verdict[surface], now).outcome = "allowed"

\* Every call that started is closed exactly once when its caller is done with it,
\* unless a death or a failed write cut it off.
Records(kind, k) == {i \in Of(log, kind) : log[i].call = k}
OneRecordPerCall ==
    \A k \in 1..calls \ lost : (\A c \in Caller : job[c].call # k) =>
        Cardinality(Records("completed", k) \cup Records("denied", k)) = 1
=============================================================================
