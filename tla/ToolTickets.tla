---------------------------- MODULE ToolTickets ----------------------------
(* What a Run's log says about tool calls, read by two programs that share no     *)
(* code: the Tool Manager, which decides by it what a human's answer still buys   *)
(* (tools/approval_ticket.py, policies/approval_scope.py), and MIRA's controls A3 *)
(* and A6, which later judge every start and every denial by it.                  *)
EXTENDS Integers, Sequences, FiniteSetsExt

(* Records of the log. A ticket is the digest of one exact call; a surface is the *)
(* policy snapshot together with the execution constraints a decision was taken   *)
(* under. A review decision and its human.approval_requested event are one record.*)
DecisionEvent(call, t, depth, verdict, surface, expires) ==
    [kind |-> "decision", call |-> call, ticket |-> t, depth |-> depth, verdict |-> verdict,
     surface |-> surface, expires |-> expires]
AnswerEvent(d, yes, at) == [kind |-> "answer", of |-> d, yes |-> yes, at |-> at]
StartEvent(call, t, depth, d, paid, at, seen) ==
    [kind |-> "started", call |-> call, ticket |-> t, depth |-> depth, of |-> d,
     paid |-> paid, at |-> at, seen |-> seen]
CompletedEvent(call) == [kind |-> "completed", call |-> call]
DeniedEvent(call, t, d, outcome) ==
    [kind |-> "denied", call |-> call, ticket |-> t, of |-> d, outcome |-> outcome]

Of(log, kind) == {i \in DOMAIN log : log[i].kind = kind}
Requests(log, t) ==
    {i \in Of(log, "decision") : log[i].verdict = "review" /\ log[i].ticket = t}
Answers(log, t) == {i \in Of(log, "answer") : log[i].of \in Requests(log, t)}
Refusals(log, t) == {i \in Answers(log, t) : ~log[i].yes}
Starts(log, t) == {i \in Of(log, "started") : log[i].ticket = t}

(* The scope of a request closes with the Run, with the pass, or at its deadline. *)
Closers(log, d) == {i \in DOMAIN log : i > d /\ log[i].kind \in {"released", "ended"}}
Closure(log, d, time) ==
    IF Closers(log, d) # {} THEN log[Min(Closers(log, d))].kind
    ELSE IF time > log[d].expires THEN "expired" ELSE "open"
AnswerClosure(log, a, time) ==
    LET own == Closure(log, log[a].of, time)
    IN  IF own = "open" /\ log[a].at > log[log[a].of].expires THEN "expired" ELSE own

\* Seeded bug: an answer counts at every delegation depth.
LiveAnywhere(log, t, depth, time) == {a \in Answers(log, t) : AnswerClosure(log, a, time) = "open"}
Live(log, t, depth, time) ==
    {a \in Answers(log, t) :
        AnswerClosure(log, a, time) = "open" /\ log[log[a].of].depth = depth}

\* The closure reported for a ticket: one that ended the Run before any other.
ReportedClosure(log, t, time) ==
    LET closures == {AnswerClosure(log, a, time) : a \in Answers(log, t)} \ {"open"}
    IN  IF closures = {} THEN "open"
        ELSE IF "ended" \in closures THEN "ended"
        ELSE AnswerClosure(log, Min({a \in Answers(log, t) :
                                        AnswerClosure(log, a, time) # "open"}), time)

\* One answer buys one execution. A pool counts answers and starts in log order: valid
\* holds the answers still spendable, oldest first.
Empty == [valid |-> <<>>, stale |-> 0, debt |-> 0]
\* Seeded bugs: an answer that buys nothing is left out; a start costs nothing.
EarnCurrent(pool, a, buys) ==
    IF pool.debt > 0 THEN [pool EXCEPT !.debt = @ - 1]
    ELSE IF buys THEN [pool EXCEPT !.valid = Append(@, a)] ELSE pool
SpendNothing(pool) == pool
Earn(pool, a, buys) ==
    IF pool.debt > 0 THEN [pool EXCEPT !.debt = @ - 1]
    ELSE IF buys THEN [pool EXCEPT !.valid = Append(@, a)]
    ELSE [pool EXCEPT !.stale = @ + 1]
Spend(pool) ==
    IF pool.valid # <<>> THEN [pool EXCEPT !.valid = Tail(@)]
    ELSE IF pool.stale > 0 THEN [pool EXCEPT !.stale = @ - 1]
    ELSE [pool EXCEPT !.debt = @ + 1]
Count(n, answers, buying, starts) ==
    LET pool[i \in 0..n] ==
          IF i = 0 THEN Empty
          ELSE IF i \in answers THEN Earn(pool[i - 1], i, i \in buying)
          ELSE IF i \in starts THEN Spend(pool[i - 1])
          ELSE pool[i - 1]
    IN  pool[n]

Buying(log, t, depth, surface, time) ==
    {a \in Live(log, t, depth, time) : log[log[a].of].surface = surface}
Charged(log, t, depth) == {i \in Starts(log, t) : log[i].depth = depth}
Pool(log, t, depth, surface, time) ==
    Count(Len(log), Answers(log, t), Buying(log, t, depth, surface, time), Charged(log, t, depth))

(* What the log decides about a call before the Gate is asked, in this order: the *)
(* engine's refusal, a human's refusal, a closed scope, an unspent answer.        *)
Outcome(outcome, d, closure) == [outcome |-> outcome, of |-> d, closure |-> closure]
\* Seeded bug: an unspent approval is looked for before a refusal.
CreditFirst(log, t, depth, surface, verdict, time) ==
    LET valid == Pool(log, t, depth, surface, time).valid
    IN  IF verdict = "block" THEN Outcome("unavailable", 0, "open")
        ELSE IF valid # <<>> THEN Outcome("allowed", log[valid[Len(valid)]].of, "open")
        ELSE IF Refusals(log, t) # {}
             THEN Outcome("rejected", log[Min(Refusals(log, t))].of, "open")
        ELSE Outcome("pending", 0, "open")
Disposition(log, t, depth, surface, verdict, time) ==
    LET live == Live(log, t, depth, time)
        valid == Pool(log, t, depth, surface, time).valid
    IN  IF verdict = "block" THEN Outcome("unavailable", 0, "open")
        ELSE IF Answers(log, t) = {} THEN Outcome("pending", 0, "open")
        ELSE IF Refusals(log, t) # {}
             THEN Outcome("rejected", log[Min(Refusals(log, t))].of, "open")
        ELSE IF live = {}
             THEN LET closure == ReportedClosure(log, t, time)
                  IN  Outcome(IF closure = "open" THEN "pending" ELSE "cancelled", 0, closure)
        ELSE IF valid = <<>> THEN Outcome("pending", 0, "open")
        ELSE Outcome("allowed", log[valid[Len(valid)]].of, "open")

Answered(log, d) == \E i \in Of(log, "answer") : log[i].of = d

(* MIRA. Both controls read the log in order and judge a record by what precedes it. *)
Before(log, i) == SubSeq(log, 1, i - 1)

\* credit_stands: the same fold without delegation depths, closures or names: an
\* answer taken under the surface of the judged decision is good, any other is stale.
CreditStands(log, t, surface) ==
    LET given == Answers(log, t) \ Refusals(log, t)
        good == {a \in given : log[log[a].of].surface = surface}
    IN  Count(Len(log), given, good, Starts(log, t)).valid # <<>>

ScopeOpen(log, d, start) ==
    /\ ~\E c \in Of(log, "released") \cup Of(log, "ended") : d < c
    /\ start.paid = d /\ start.depth = log[d].depth /\ start.at <= log[d].expires

SpendsATicket(log, d, start) ==
    /\ log[d].verdict = "review" /\ log[d].ticket = start.ticket
    /\ Refusals(log, start.ticket) = {}
    /\ ScopeOpen(log, d, start)
    /\ CreditStands(log, start.ticket, log[d].surface)

\* A3: the start at i ran under a decision that allowed it.
Authorised(log, i) ==
    LET past == Before(log, i)
        d == log[i].of
    IN  \/ SpendsATicket(past, d, log[i])
        \/ /\ log[d].verdict = "pass" /\ log[d].call = log[i].call
           /\ ~\E j \in Of(past, "started") : past[j].of = d

\* A6: the denial at i points at something that refused the call.
Explained(log, i) ==
    LET past == Before(log, i)
        d == log[i].of
        waits(x) == /\ past[x].verdict = "review" /\ past[x].ticket = log[i].ticket
                    /\ ~\E a \in Of(past, "answer") : past[a].of = x /\ past[a].yes
        own == {x \in Of(past, "decision") : past[x].call = log[i].call}
    IN  \/ \E x \in own : past[x].verdict = "block" \/ waits(x)
        \/ d # 0 /\ waits(d)
        \/ Refusals(past, log[i].ticket) # {}
=============================================================================
