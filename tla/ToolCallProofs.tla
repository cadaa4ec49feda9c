--------------------------- MODULE ToolCallProofs ---------------------------
(***************************************************************************)
(* Proofs about ToolCall, for any callers, tickets, surfaces and depths:   *)
(* a refusal is final for every call that reads the log after it, a denial *)
(* points at what refused its call, and each call leaves one record; where *)
(* passes do not overlap, an answer buys one execution and never less, and *)
(* MIRA accepts what the manager starts.                                   *)
(***************************************************************************)
EXTENDS ToolCall, FiniteSetTheorems, SequenceTheorems,
        NaturalsInduction, WellFoundedInduction, TLAPS

----------------------------------------------------------------------------
(* The inductive invariant. *)

\* The log is a sequence in which an answer follows the request it answers.
Ordered(L) ==
    /\ \E S : L \in Seq(S)
    /\ \A i \in Of(L, "answer") : L[i].of \in 1..(i - 1)

Closes(e) == e.kind \in {"completed", "denied"}
RecordsOf(L, k) == {i \in DOMAIN L : Closes(L[i]) /\ L[i].call = k}
Working(jobs, k) == \E c \in Caller : jobs[c].call = k

LogInv ==
    /\ Ordered(log)
    /\ calls \in Nat /\ surface \in Surface
    /\ \A i \in DOMAIN log : Closes(log[i]) => log[i].call \in 1..calls
    /\ \A i \in Of(log, "started") : log[i].seen \in 0..(i - 1)

\* A caller that is not idle works on a call of its own.
Fields == {"at", "call", "ticket", "of", "paid", "expires", "seen", "outcome"}
JobInv ==
    /\ DOMAIN job = Caller
    /\ \A c \in Caller :
          /\ DOMAIN job[c] = Fields /\ job[c].at \in Place
          /\ job[c].at = "idle" => job[c] = Free
          /\ job[c].at # "idle" => job[c].call \in 1..calls /\ job[c].ticket \in Ticket
          /\ job[c].seen \in 0..Len(log)
    /\ \A c, d \in Caller : c # d /\ job[c].call # 0 => job[c].call # job[d].call

\* What the place of a caller says about the log: a call on its way to its start read no
\* refusal, one on its way to a denial can name what refuses it.
NotRefused(c) == \A r \in Refusals(log, job[c].ticket) : r > job[c].seen
Blocked(c) == \E d \in Of(log, "decision") : log[d].call = job[c].call /\ log[d].verdict = "block"
Reviewed(c) ==
    \E d \in Requests(log, job[c].ticket) : log[d].call = job[c].call
Knows(c) ==
    /\ job[c].at = "ask" => Verdict[surface] = "block" \/ NotRefused(c)
    /\ job[c].at = "ready" => NotRefused(c)
    /\ job[c].at = "reread" => Reviewed(c)
    /\ job[c].at = "deny" => Blocked(c) \/ Reviewed(c)
    /\ job[c].at = "settle" => \/ Refusals(log, job[c].ticket) # {} \/ Reviewed(c)
                               \/ job[c].of = 0 /\ Of(log, "ended") # {}
Knowledge == \A c \in Caller : Knows(c)

\* A call is recorded exactly when its caller is done with it.
RecordInv ==
    \A k \in (1..calls) \ lost :
        IF Working(job, k) THEN RecordsOf(log, k) = {} ELSE \E i : RecordsOf(log, k) = {i}

IInv == LogInv /\ JobInv /\ Knowledge /\ RejectionIsFinal /\ DenialsPassTheAudit /\ RecordInv

----------------------------------------------------------------------------
(* What holds besides where passes do not overlap. *)

PaidStarts(t, depth) == {i \in Starts(log, t) : log[i].paid # 0 /\ log[i].depth = depth}
YesAnswers(t, depth) == {a \in Answers(log, t) : log[a].yes /\ log[log[a].of].depth = depth}

\* Of every beginning of the log: no more starts were paid for than answers given.
EveryPrefix ==
    \A t \in Ticket, c \in Caller, n \in 0..Len(log) :
        Cardinality(PaidStarts(t, Depth[c]) \cap 1..n)
            <= Cardinality(YesAnswers(t, Depth[c]) \cap 1..n)

Typed ==
    /\ now \in Nat
    /\ \A d \in Of(log, "decision") : log[d].expires \in Nat
    /\ \A i \in Of(log, "started") : log[i].of \in 1..(i - 1)

\* A call on its way to its start has an answer left to pay with, for the manager and, if
\* the same call never started elsewhere, for MIRA; or the engine let it pass.
Pays(c) ==
    LET t == job[c].ticket
        d == job[c].paid
    IN  /\ job[c].of = d /\ d \in Requests(log, t) /\ log[d].depth = Depth[c]
        /\ \A j \in Closers(log, d) : j > job[c].seen
        /\ Cardinality(PaidStarts(t, Depth[c])) < Cardinality(YesAnswers(t, Depth[c]))
        /\ \/ Refusals(log, t) # {}
           \/ \E j \in Starts(log, t) : log[j].depth # Depth[c]
           \/ CreditStands(log, t, log[d].surface)
Passes(c) ==
    /\ job[c].of \in Of(log, "decision")
    /\ log[job[c].of].verdict = "pass" /\ log[job[c].of].call = job[c].call
    /\ \A j \in Of(log, "started") : log[j].of # job[c].of
MayStart(c) ==
    /\ job[c].at \in {"ask", "reread"} => job[c].paid = 0
    /\ job[c].at = "ask" => job[c].expires \in Nat
    /\ job[c].at = "ready" => IF job[c].paid = 0 THEN Passes(c) ELSE Pays(c)
CreditInv ==
    /\ Typed /\ EveryPrefix
    /\ \A c, d \in Busy : c = d
    /\ \A c \in Caller : MayStart(c)
    /\ StartsPassTheAuditPerDepth

----------------------------------------------------------------------------
(* The log. *)

\* A log that grows keeps what is in it.
LEMMA Longer ==
  ASSUME NEW L, Ordered(L), NEW e
  PROVE  /\ Len(L) \in Nat /\ DOMAIN L = 1..Len(L)
         /\ Len(Append(L, e)) = Len(L) + 1 /\ DOMAIN Append(L, e) = 1..(Len(L) + 1)
         /\ \A i \in 1..Len(L) : Append(L, e)[i] = L[i]
         /\ Append(L, e)[Len(L) + 1] = e
         /\ \E S : Append(L, e) \in Seq(S)
         /\ SubSeq(Append(L, e), 1, Len(L)) = L
<1>1. PICK S : L \in Seq(S)  BY DEF Ordered
<1>2. L \in Seq(S \cup {e})  BY <1>1
<1>3. Append(L, e) \in Seq(S \cup {e})  BY <1>2
<1>4. /\ Len(L) \in Nat /\ DOMAIN L = 1..Len(L)
      /\ Len(Append(L, e)) = Len(L) + 1 /\ DOMAIN Append(L, e) = 1..(Len(L) + 1)
      /\ \A i \in 1..Len(L) : Append(L, e)[i] = L[i]
      /\ Append(L, e)[Len(L) + 1] = e
  BY <1>2, <1>3, AppendProperties, LenProperties
<1>5. SubSeq(Append(L, e), 1, Len(L)) = L
  <2> DEFINE A == SubSeq(Append(L, e), 1, Len(L))
  <2>1. /\ A \in Seq(S \cup {e}) /\ Len(A) = Len(L)
        /\ \A i \in 1..Len(A) : A[i] = Append(L, e)[i]
    BY <1>3, <1>4, SubSeqProperties
  <2>2. QED BY <2>1, <1>2, <1>4, SeqEqual
<1>6. QED BY <1>3, <1>4, <1>5

\* What a record is: it stays what it was when another is appended.
Follows(L, e) == e.kind = "answer" => e.of \in 1..Len(L)
LEMMA Kept ==
  ASSUME NEW L, Ordered(L), NEW e, Follows(L, e), NEW t
  PROVE  /\ Ordered(Append(L, e))
         /\ \A kind : Of(L, kind) = Of(Append(L, e), kind) \ {Len(L) + 1}
         /\ Requests(L, t) = Requests(Append(L, e), t) \ {Len(L) + 1}
         /\ Answers(L, t) = Answers(Append(L, e), t) \ {Len(L) + 1}
         /\ Refusals(L, t) = Refusals(Append(L, e), t) \ {Len(L) + 1}
<1> DEFINE A == Append(L, e)
<1>1. /\ Len(L) \in Nat /\ DOMAIN L = 1..Len(L)
      /\ Len(A) = Len(L) + 1 /\ DOMAIN A = 1..(Len(L) + 1)
      /\ \A i \in 1..Len(L) : A[i] = L[i]
      /\ A[Len(L) + 1] = e
      /\ \E S : A \in Seq(S)
  BY Longer
<1> HIDE DEF A
<1>2. \A kind : Of(L, kind) = Of(A, kind) \ {Len(L) + 1}
  BY <1>1 DEF Of
<1>3. Requests(L, t) = Requests(A, t) \ {Len(L) + 1}
  BY <1>1, <1>2 DEF Requests, Of
<1>4. Ordered(A)
  <2>1. ASSUME NEW i \in Of(A, "answer") PROVE A[i].of \in 1..(i - 1)
    <3>1. CASE i = Len(L) + 1
      BY <3>1, <2>1, <1>1 DEF Follows, Of
    <3>2. CASE i # Len(L) + 1
      <4>1. i \in Of(L, "answer") /\ A[i] = L[i]  BY <3>2, <2>1, <1>1, <1>2 DEF Of
      <4>2. QED BY <4>1 DEF Ordered
    <3>3. QED BY <3>1, <3>2
  <2>2. QED BY <2>1, <1>1 DEF Ordered
<1>5. \A i \in Of(L, "answer") : i \in 1..Len(L) /\ A[i] = L[i] /\ L[i].of \in 1..Len(L)
  BY <1>1 DEF Of, Ordered
<1>6. Answers(L, t) = Answers(A, t) \ {Len(L) + 1}
  BY <1>1, <1>2, <1>3, <1>5 DEF Answers
<1>7. Refusals(L, t) = Refusals(A, t) \ {Len(L) + 1}
  <2>1. \A i \in Answers(L, t) : A[i] = L[i]
    BY <1>5 DEF Answers
  <2>2. QED BY <1>6, <2>1 DEF Refusals
<1>8. QED BY <1>2, <1>3, <1>4, <1>6, <1>7 DEF A

\* Of a nonempty set of positions, one is the first.
LEMMA FirstOf ==
  ASSUME NEW S, S \subseteq Nat, S # {}
  PROVE  Min(S) \in S /\ \A y \in S : Min(S) <= y
<1> DEFINE R == {p \in Nat \X Nat : p[1] < p[2]}
<1>1. IsWellFoundedOn(R, Nat)
  BY NatLessThanWellFounded, Zenon DEF OpToRel
<1>2. \E x \in S : \A y \in S : ~(<<y, x>> \in R)
  <2> HIDE DEF R
  <2>1. QED BY <1>1, WFMin, Zenon
<1>3. \E x \in S : \A y \in S : x <= y
  <2>1. PICK x \in S : \A y \in S : ~(<<y, x>> \in R)  BY <1>2
  <2>2. \A y \in S : <<y, x>> \in Nat \X Nat /\ <<y, x>>[1] = y /\ <<y, x>>[2] = x  OBVIOUS
  <2>3. \A y \in S : ~(y < x)  BY <2>1, <2>2
  <2>4. QED BY <2>3
<1>4. QED BY <1>3 DEF Min

----------------------------------------------------------------------------
(* What the log decides. *)

\* Of a call the engine does not refuse, a refusal in the log settles the matter.
LEMMA Decides ==
  ASSUME NEW L, Ordered(L), NEW t, NEW depth, NEW s, NEW verdict, NEW time
  PROVE  LET disp == Disposition(L, t, depth, s, verdict, time)
         IN  /\ verdict # "block" /\ Refusals(L, t) # {} => disp.outcome = "rejected"
             /\ disp.outcome = "rejected" => Refusals(L, t) # {}
             /\ disp.outcome = "allowed" => verdict # "block" /\ Refusals(L, t) = {}
             /\ disp.outcome # "rejected" /\ disp.closure = "ended" =>
                   disp.of = 0 /\ Of(L, "ended") # {}
<1> DEFINE disp == Disposition(L, t, depth, s, verdict, time)
           closure == ReportedClosure(L, t, time)
<1>1. Refusals(L, t) # {} => Answers(L, t) # {}
  BY DEF Refusals
<1>2. closure = "ended" => Of(L, "ended") # {}
  <2>1. ASSUME NEW a, AnswerClosure(L, a, time) = "ended" PROVE Of(L, "ended") # {}
    <3>1. Closers(L, L[a].of) # {}
      BY <2>1 DEF AnswerClosure, Closure
    <3>2. Closers(L, L[a].of) \subseteq DOMAIN L /\ DOMAIN L \subseteq Nat
      BY Longer DEF Closers
    <3>3. Min(Closers(L, L[a].of)) \in Closers(L, L[a].of)
      BY <3>1, <3>2, FirstOf
    <3>4. L[Min(Closers(L, L[a].of))].kind = "ended"
      BY <2>1, <3>1 DEF AnswerClosure, Closure
    <3>5. QED BY <3>2, <3>3, <3>4 DEF Of
  <2>2. QED BY <2>1, Zenon DEF ReportedClosure
<1>3. \/ disp = Outcome("unavailable", 0, "open") /\ verdict = "block"
      \/ disp = Outcome("pending", 0, "open") /\ Answers(L, t) = {}
      \/ \E d : disp = Outcome("rejected", d, "open") /\ Refusals(L, t) # {} /\ verdict # "block"
      \/ disp = Outcome("cancelled", 0, closure) /\ Refusals(L, t) = {}
      \/ disp = Outcome("pending", 0, closure) /\ Refusals(L, t) = {} /\ closure = "open"
      \/ disp = Outcome("pending", 0, "open") /\ Refusals(L, t) = {}
      \/ \E d : /\ disp = Outcome("allowed", d, "open") /\ Refusals(L, t) = {}
                /\ verdict # "block"
  BY Zenon DEF Disposition
<1> HIDE DEF disp, closure
<1>4. QED BY <1>1, <1>2, <1>3 DEF Outcome, disp

----------------------------------------------------------------------------
(* What a step does. *)

\* What a record that a step appends is.
Written(e) ==
    /\ Follows(log, e)
    /\ Closes(e) => e.call \in 1..calls'
    /\ e.kind = "started" => \E c \in Caller : job[c].at = "ready" /\ e = Started(c)
    /\ e.kind = "denied" =>
          \/ e.ticket = None
          \/ \E c \in Caller :
                /\ job[c].at \in {"settle", "deny"}
                /\ e = DeniedEvent(job[c].call, job[c].ticket, job[c].of, job[c].outcome)
    /\ e.kind = "decision" =>
          \E c \in Caller :
             /\ job[c].at = "ask"
             /\ e = DecisionEvent(job[c].call, job[c].ticket, Depth[c], Verdict[surface], surface,
                                  job[c].expires)

\* Every step leaves the log alone or appends a record that its writer may write.
LEMMA Effects ==
  ASSUME LogInv, JobInv, Next
  PROVE  /\ calls' \in Nat /\ calls <= calls' /\ surface' \in Surface
         /\ log' = log \/ \E e : log' = Append(log, e) /\ Written(e)
<1> USE DEF Record
<1>1. /\ calls' \in {calls, calls + 1}
      /\ surface' = surface \/ surface' \in Surface
  BY DEF Next, CallStep, Begin, Invalid, FreshDecision, Reread, Deny, OverBudget, Unavailable, Start,
         Close, StartFails, CloseFails, RecordFailedCall, Broken, Human, Core, Die, Move, Tick,
         outside, Stop
<1>2. calls \in Nat  BY DEF LogInv
<1>3. calls' \in Nat /\ calls <= calls' /\ surface' \in Surface  BY <1>1, <1>2 DEF LogInv
<1>4. ASSUME NEW c \in Caller, job[c].at # "idle" PROVE job[c].call \in 1..calls'
  BY <1>4, <1>2, <1>3 DEF JobInv
<1>5. CASE \E c \in Caller, t \in Ticket : Begin(c, t)
  BY <1>3, <1>5 DEF Begin
<1>6. CASE \E c \in Caller : Invalid(c)
  <2>1. PICK e : /\ log' = Append(log, e)
                 /\ e \in {CompletedEvent(calls + 1), DeniedEvent(calls + 1, None, 0, "constraint")}
                 /\ calls' = calls + 1
    BY <1>6 DEF Invalid
  <2>2. Written(e)
    BY <2>1, <1>2 DEF Written, Follows, Closes, CompletedEvent, DeniedEvent
  <2>3. QED BY <2>1, <2>2, <1>3
<1>7. CASE \E c \in Caller : CallStep(c)
  <2>1. PICK c \in Caller : CallStep(c)  BY <1>7
  <2>2. CASE FreshDecision(c)
    <3> DEFINE e == DecisionEvent(job[c].call, job[c].ticket, Depth[c], Verdict[surface], surface,
                                  job[c].expires)
    <3>1. log' = Append(log, e) /\ job[c].at = "ask"  BY <2>2 DEF FreshDecision, At
    <3>2. Written(e)  BY <3>1 DEF Written, Follows, Closes, DecisionEvent
    <3>3. QED BY <3>1, <3>2, <1>3
  <2>3. CASE Reread(c)  BY <2>3, <1>3 DEF Reread
  <2>4. CASE Deny(c)
    <3> DEFINE e == DeniedEvent(job[c].call, job[c].ticket, job[c].of, job[c].outcome)
    <3>1. log' = Append(log, e) /\ job[c].at \in {"settle", "deny"}  BY <2>4 DEF Deny
    <3>2. Written(e)  BY <3>1, <1>4 DEF Written, Follows, Closes, DeniedEvent
    <3>3. QED BY <3>1, <3>2, <1>3
  <2>5. CASE OverBudget(c)
    <3> DEFINE e == DeniedEvent(job[c].call, None, 0, "budget")
    <3>1. log' = Append(log, e) /\ job[c].at = "ready"  BY <2>5 DEF OverBudget, At
    <3>2. Written(e)  BY <3>1, <1>4 DEF Written, Follows, Closes, DeniedEvent
    <3>3. QED BY <3>1, <3>2, <1>3
  <2>6. CASE Unavailable(c) \/ Close(c) \/ RecordFailedCall(c)
    <3> DEFINE e == CompletedEvent(job[c].call)
    <3>1. log' = Append(log, e) /\ job[c].at # "idle"
      BY <2>6 DEF Unavailable, Close, RecordFailedCall, At
    <3>2. Written(e)  BY <3>1, <1>4 DEF Written, Follows, Closes, CompletedEvent
    <3>3. QED BY <3>1, <3>2, <1>3
  <2>7. CASE Start(c) \/ StartFails(c)
    <3>1. /\ log' = log \/ log' = Append(log, Started(c))
          /\ job[c].at = "ready"
      BY <2>7 DEF Start, StartFails, Broken, At
    <3>2. Written(Started(c))  BY <3>1 DEF Written, Follows, Closes, Started, StartEvent
    <3>3. QED BY <3>1, <3>2, <1>3
  <2>8. CASE CloseFails(c)
    <3> DEFINE e == CompletedEvent(job[c].call)
    <3>1. (log' = log \/ log' = Append(log, e)) /\ job[c].at # "idle"
      BY <2>8 DEF CloseFails, Broken, At
    <3>2. Written(e)  BY <3>1, <1>4 DEF Written, Follows, Closes, CompletedEvent
    <3>3. QED BY <3>1, <3>2, <1>3
  <2>9. QED BY <2>1, <2>2, <2>3, <2>4, <2>5, <2>6, <2>7, <2>8 DEF CallStep
<1>8. CASE \E d \in Pending, yes \in BOOLEAN : Human(d, yes)
  <2>1. PICK d \in Pending, yes \in BOOLEAN : Human(d, yes)  BY <1>8
  <2>2. log' = Append(log, AnswerEvent(d, yes, now))  BY <2>1 DEF Human
  <2>3. d \in 1..Len(log)  BY Longer DEF Pending, Of, LogInv
  <2>4. Written(AnswerEvent(d, yes, now))
    BY <2>3 DEF Written, Follows, Closes, AnswerEvent
  <2>5. QED BY <2>2, <2>4, <1>3
<1>9. CASE \E kind \in {"released", "ended"} : Core(kind)
  <2>1. PICK kind \in {"released", "ended"} : log' = Append(log, [kind |-> kind])
    BY <1>9 DEF Core
  <2>2. Written([kind |-> kind])
    BY <2>1 DEF Written, Follows, Closes
  <2>3. QED BY <2>1, <2>2, <1>3
<1>10. CASE Die \/ Tick \/ \E s \in Surface : Move(s)
  BY <1>10, <1>3 DEF Die, Tick, Move
<1>11. QED BY <1>5, <1>6, <1>7, <1>8, <1>9, <1>10 DEF Next

\* Types of the log: a record names a call that was given out.
LEMMA LogStep == LogInv /\ JobInv /\ [Next]_vars => LogInv'
<1> SUFFICES ASSUME LogInv, JobInv, [Next]_vars PROVE LogInv'  OBVIOUS
<1>1. CASE UNCHANGED vars  BY <1>1 DEF LogInv, Ordered, Of, Closes, vars
<1>2. CASE Next
  <2>1. /\ calls' \in Nat /\ calls <= calls' /\ calls \in Nat /\ surface' \in Surface
    BY <1>2, Effects DEF LogInv
  <2>2. CASE log' = log  BY <2>1, <2>2 DEF LogInv, Ordered, Of, Closes
  <2>3. CASE \E e : log' = Append(log, e) /\ Written(e)
    <3>1. PICK e : log' = Append(log, e) /\ Written(e)  BY <2>3
    <3>2. Ordered(log)'
      BY <3>1, Kept DEF LogInv, Written
    <3>3. /\ Len(log) \in Nat /\ DOMAIN log = 1..Len(log) /\ DOMAIN log' = 1..(Len(log) + 1)
          /\ \A i \in 1..Len(log) : log'[i] = log[i]
          /\ log'[Len(log) + 1] = e
      BY <3>1, Longer DEF LogInv
    <3>4. \A i \in DOMAIN log' : Closes(log'[i]) => log'[i].call \in 1..calls'
      BY <2>1, <3>1, <3>3 DEF LogInv, Written
    <3>5. ASSUME NEW i \in Of(log, "started")' PROVE log'[i].seen \in 0..(i - 1)
      <4>1. CASE i = Len(log) + 1
        <5>1. PICK c \in Caller : e = Started(c)
          BY <4>1, <3>5, <3>1, <3>3 DEF Of, Written
        <5>2. e.seen = job[c].seen  BY <5>1 DEF Started, StartEvent
        <5>3. QED BY <4>1, <5>2, <3>3 DEF JobInv
      <4>2. CASE i # Len(log) + 1
        BY <4>2, <3>5, <3>3 DEF Of, LogInv
      <4>3. QED BY <4>1, <4>2
    <3>6. QED BY <2>1, <3>2, <3>4, <3>5 DEF LogInv
  <2>4. QED BY <1>2, <2>2, <2>3, Effects
<1>3. QED BY <1>1, <1>2

\* What a caller works on after its step.
LEMMA JobMoves ==
  ASSUME LogInv, JobInv, calls' \in Nat, calls <= calls',
         Len(log) \in Nat, Len(log') \in Nat, Len(log) <= Len(log'),
         NEW c \in Caller, NEW j, Do(c, j),
         DOMAIN j = Fields, j.at \in Place,
         j.at = "idle" => j = Free,
         j.at # "idle" => j.call \in 1..calls' /\ j.ticket \in Ticket,
         j.seen \in 0..Len(log'),
         j.call \in {0, job[c].call} \/ (j.call = calls + 1 /\ calls' = calls + 1)
  PROVE  JobInv'
<1>1. /\ DOMAIN job' = Caller /\ job'[c] = j
      /\ \A d \in Caller \ {c} : job'[d] = job[d]
  BY DEF Do, JobInv
<1>2. \A d \in Caller : job[d].call \in 0..calls
  BY DEF JobInv, LogInv, Free
<1>3. ASSUME NEW d \in Caller
      PROVE  /\ DOMAIN job'[d] = Fields /\ job'[d].at \in Place
             /\ job'[d].at = "idle" => job'[d] = Free
             /\ job'[d].at # "idle" => job'[d].call \in 1..calls' /\ job'[d].ticket \in Ticket
             /\ job'[d].seen \in 0..Len(log')
  <2>1. CASE d = c  BY <2>1, <1>1
  <2>2. CASE d # c
    <3>1. job'[d] = job[d]  BY <2>2, <1>1
    <3>2. calls \in Nat  BY DEF LogInv
    <3>3. QED BY <3>1, <3>2 DEF JobInv
  <2>3. QED BY <2>1, <2>2
<1>4. ASSUME NEW d \in Caller, NEW b \in Caller, d # b, job'[d].call # 0
      PROVE  job'[d].call # job'[b].call
  <2>0. calls \in Nat  BY DEF LogInv
  <2>1. CASE d = c  BY <2>1, <2>0, <1>1, <1>2, <1>4 DEF JobInv
  <2>2. CASE b = c  BY <2>2, <2>0, <1>1, <1>2, <1>4 DEF JobInv
  <2>3. CASE d # c /\ b # c  BY <2>3, <1>1, <1>4 DEF JobInv
  <2>4. QED BY <2>1, <2>2, <2>3
<1>5. QED BY <1>1, <1>3, <1>4 DEF JobInv

\* A log that grew is longer.
LEMMA Growth ==
  ASSUME LogInv, JobInv, Next
  PROVE  /\ Len(log) \in Nat /\ Len(log') \in Nat /\ Len(log) <= Len(log')
         /\ calls \in Nat /\ calls' \in Nat /\ calls <= calls'
<1>1. calls \in Nat /\ calls' \in Nat /\ calls <= calls'  BY Effects DEF LogInv
<1>2. Len(log) \in Nat  BY Longer DEF LogInv
<1>3. log' = log \/ \E e : log' = Append(log, e)  BY Effects
<1>4. Len(log') \in Nat /\ Len(log) <= Len(log')  BY <1>2, <1>3, Longer DEF LogInv
<1>5. QED BY <1>1, <1>2, <1>4

\* What an idle caller holds.
LEMMA FreeFields == /\ DOMAIN Free = Fields /\ Free.at = "idle" /\ Free.call = 0 /\ Free.seen = 0
                    /\ Free.paid = 0
  BY DEF Free, Fields

\* No two callers work on one call.
LEMMA JobStep == LogInv /\ JobInv /\ [Next]_vars => JobInv'
<1> SUFFICES ASSUME LogInv, JobInv, [Next]_vars PROVE JobInv'  OBVIOUS
<1>1. CASE UNCHANGED vars  BY <1>1 DEF JobInv, vars
<1>2. CASE Next
  <2>1. /\ Len(log) \in Nat /\ Len(log') \in Nat /\ Len(log) <= Len(log')
        /\ calls \in Nat /\ calls' \in Nat /\ calls <= calls'
    BY <1>2, Growth
  <2>2. CASE UNCHANGED job
    BY <2>1, <2>2 DEF JobInv
  <2>3. ASSUME NEW c \in Caller, Done(c) PROVE JobInv'
    BY <2>1, <2>3, FreeFields, JobMoves DEF Done, Place
  <2>4. ASSUME NEW c \in Caller, NEW place \in Place \ {"idle"}, job[c].at # "idle", Go(c, place)
        PROVE  JobInv'
    <3> DEFINE j == [job[c] EXCEPT !.at = place]
    <3>1. /\ DOMAIN j = Fields /\ j.at = place /\ j.call = job[c].call /\ j.ticket = job[c].ticket
          /\ j.seen = job[c].seen
      BY DEF JobInv, Fields
    <3>2. j.call \in 1..calls' /\ j.ticket \in Ticket /\ j.seen \in 0..Len(log')
      BY <3>1, <2>1, <2>4 DEF JobInv
    <3> HIDE DEF j
    <3>3. Do(c, j)  BY <2>4 DEF Go, j
    <3>4. QED BY <3>1, <3>2, <3>3, <2>1, JobMoves
  <2>5. ASSUME NEW c \in Caller, NEW t \in Ticket, Begin(c, t) PROVE JobInv'
    <3>1. PICK j : Do(c, j) /\ DOMAIN j = Fields /\ j.at \in {"settle", "ready", "ask"}
                   /\ j.call = calls + 1 /\ j.ticket = t /\ j.seen = Len(log)
      <4> DEFINE disp == Ask(c, t)
                 new == [Free EXCEPT !.call = calls + 1, !.ticket = t, !.expires = now + TTL,
                                     !.seen = Len(log), !.outcome = disp.outcome]
                 j1 == [new EXCEPT !.at = "settle", !.of = disp.of]
                 j2 == [new EXCEPT !.at = "ready", !.of = disp.of, !.paid = disp.of]
                 j3 == [new EXCEPT !.at = "ask"]
      <4>1. Do(c, j1) \/ Do(c, j2) \/ Do(c, j3)  BY <2>5, Zenon DEF Begin
      <4> HIDE DEF disp
      <4>2. DOMAIN new = Fields /\ new.call = calls + 1 /\ new.ticket = t /\ new.seen = Len(log)
        BY DEF Free, Fields
      <4> HIDE DEF new
      <4>3. /\ DOMAIN j1 = Fields /\ j1.at = "settle"
            /\ j1.call = calls + 1 /\ j1.ticket = t /\ j1.seen = Len(log)
        BY <4>2 DEF Fields
      <4>4. /\ DOMAIN j2 = Fields /\ j2.at = "ready"
            /\ j2.call = calls + 1 /\ j2.ticket = t /\ j2.seen = Len(log)
        BY <4>2 DEF Fields
      <4>5. /\ DOMAIN j3 = Fields /\ j3.at = "ask"
            /\ j3.call = calls + 1 /\ j3.ticket = t /\ j3.seen = Len(log)
        BY <4>2 DEF Fields
      <4>6. QED BY <4>1, <4>3, <4>4, <4>5
    <3>2. calls' = calls + 1  BY <2>5 DEF Begin
    <3>3. QED BY <3>1, <3>2, <2>1, JobMoves DEF Place
  <2>6. ASSUME NEW c \in Caller, FreshDecision(c) PROVE JobInv'
    <3> DEFINE place == CASE Verdict[surface] = "pass"   -> "ready"
                          [] Verdict[surface] = "review" -> "reread"
                          [] OTHER -> "deny"
               j == [job[c] EXCEPT !.of = Len(log) + 1, !.at = place]
    <3>1. place \in {"ready", "reread", "deny"}  OBVIOUS
    <3>2. Do(c, j) /\ job[c].at = "ask"  BY <2>6 DEF FreshDecision, At
    <3> HIDE DEF place
    <3>3. /\ DOMAIN j = Fields /\ j.at = place /\ j.call = job[c].call /\ j.ticket = job[c].ticket
          /\ j.seen = job[c].seen
      BY DEF JobInv, Fields
    <3> HIDE DEF j
    <3>4. j.call \in 1..calls' /\ j.ticket \in Ticket /\ j.seen \in 0..Len(log')
      BY <3>2, <3>3, <2>1 DEF JobInv
    <3>5. QED BY <3>1, <3>2, <3>3, <3>4, <2>1, JobMoves DEF Place
  <2>7. ASSUME NEW c \in Caller, Reread(c) PROVE JobInv'
    <3> DEFINE disp == Ask(c, job[c].ticket)
               own == disp.outcome = "allowed" /\ disp.of = job[c].of
               outcome == IF Settles(disp) \/ disp.closure # "open" THEN disp.outcome ELSE "pending"
               of == IF disp.closure = "ended" THEN 0 ELSE job[c].of
               paid == IF own THEN job[c].of ELSE 0
               place == IF Settles(disp) THEN "settle" ELSE IF own THEN "ready" ELSE "deny"
               j == [job[c] EXCEPT !.seen = Len(log), !.outcome = outcome, !.of = of,
                                   !.paid = paid, !.at = place]
    <3>1. place \in {"ready", "settle", "deny"}  OBVIOUS
    <3>2. Do(c, j) /\ job[c].at = "reread"  BY <2>7, Zenon DEF Reread, At
    <3> HIDE DEF place, of, paid, outcome
    <3>3. /\ DOMAIN j = Fields /\ j.at = place /\ j.call = job[c].call /\ j.ticket = job[c].ticket
          /\ j.seen = Len(log)
      BY DEF JobInv, Fields
    <3> HIDE DEF j
    <3>4. j.call \in 1..calls' /\ j.ticket \in Ticket /\ j.seen \in 0..Len(log')
      BY <3>2, <3>3, <2>1 DEF JobInv
    <3>5. QED BY <3>1, <3>2, <3>3, <3>4, <2>1, JobMoves DEF Place
  <2>8. CASE \E c \in Caller : Invalid(c)  BY <2>2, <2>8 DEF Invalid
  <2>9. ASSUME NEW c \in Caller, CallStep(c) PROVE JobInv'
    <3>1. CASE Deny(c) \/ OverBudget(c) \/ Unavailable(c) \/ Close(c) \/ RecordFailedCall(c)
      BY <3>1, <2>3 DEF Deny, OverBudget, Unavailable, Close, RecordFailedCall
    <3>2. CASE Start(c)
      BY <3>2, <2>4 DEF Start, At, Place
    <3>3. CASE StartFails(c) \/ CloseFails(c)
      BY <3>3, <2>3, <2>4 DEF StartFails, CloseFails, Broken, At, Place
    <3>4. QED BY <2>9, <2>6, <2>7, <3>1, <3>2, <3>3 DEF CallStep
  <2>10. CASE Die
    <3>1. job' = [c \in Caller |-> Free]  BY <2>10 DEF Die
    <3>2. QED BY <3>1, <2>1, FreeFields DEF JobInv, Place
  <2>11. CASE \/ \E d \in Pending, yes \in BOOLEAN : Human(d, yes)
              \/ \E kind \in {"released", "ended"} : Core(kind)
              \/ \E s \in Surface : Move(s)
              \/ Tick
    BY <2>11, <2>2 DEF Human, Core, Move, Tick
  <2>12. QED BY <1>2, <2>5, <2>8, <2>9, <2>10, <2>11 DEF Next
<1>3. QED BY <1>1, <1>2

----------------------------------------------------------------------------
(* What a caller knows of the log stays true while the log grows. *)

\* For a caller that does not move.
LEMMA KnowsStays ==
  ASSUME LogInv, JobInv, Knowledge, NEW d \in Caller, job'[d] = job[d],
         log' = log \/ \E e : log' = Append(log, e) /\ Written(e),
         surface' = surface \/ job[d].at = "idle"
  PROVE  Knows(d)'
<1>1. CASE job[d].at = "idle"  BY <1>1 DEF Knows
<1>2. CASE surface' = surface /\ log' = log
  BY <1>2 DEF Knowledge, Knows, NotRefused, Blocked, Reviewed
<1>3. CASE surface' = surface /\ \E e : log' = Append(log, e) /\ Written(e)
  <2> DEFINE t == job[d].ticket
             new == Len(log) + 1
  <2>1. PICK e : log' = Append(log, e) /\ Follows(log, e)  BY <1>3 DEF Written
  <2>2. /\ \A kind : Of(log, kind) = Of(log', kind) \ {new}
        /\ Requests(log, t) = Requests(log', t) \ {new}
        /\ Refusals(log, t) = Refusals(log', t) \ {new}
    BY <2>1, Kept DEF LogInv
  <2>3. /\ Len(log) \in Nat /\ DOMAIN log = 1..Len(log)
        /\ \A i \in 1..Len(log) : log'[i] = log[i]
    BY <2>1, Longer DEF LogInv
  <2>4. job[d].seen \in 0..Len(log)  BY DEF JobInv
  <2>5. NotRefused(d) => NotRefused(d)'
    <3>1. NotRefused(d)' <=> \A r \in Refusals(log', t) : r > job[d].seen
      BY DEF NotRefused
    <3>2. new > job[d].seen  BY <2>3, <2>4
    <3>3. QED BY <2>2, <3>1, <3>2 DEF NotRefused
  <2>6. Blocked(d) => Blocked(d)'
    BY <2>2, <2>3 DEF Blocked, Of
  <2>7. Reviewed(d) => Reviewed(d)'
    BY <2>2, <2>3 DEF Reviewed, Requests, Of
  <2>8. Refusals(log, t) # {} => Refusals(log, t)' # {}
    BY <2>2
  <2>9. Of(log, "ended") # {} => Of(log, "ended")' # {}
    BY <2>2
  <2>10. Knows(d)  BY DEF Knowledge
  <2>11. QED BY <1>3, <2>5, <2>6, <2>7, <2>8, <2>9, <2>10 DEF Knows
<1>4. QED BY <1>1, <1>2, <1>3

\* What the log tells a caller that reads it.
LEMMA Told ==
  ASSUME Ordered(log), NEW c \in Caller, NEW t
  PROVE  /\ Verdict[surface] # "block" /\ Refusals(log, t) # {} => Ask(c, t).outcome = "rejected"
         /\ Ask(c, t).outcome = "rejected" => Refusals(log, t) # {}
         /\ Ask(c, t).outcome = "allowed" => Refusals(log, t) = {}
         /\ Ask(c, t).outcome # "rejected" /\ Ask(c, t).closure = "ended" =>
               Ask(c, t).of = 0 /\ Of(log, "ended") # {}
<1> DEFINE disp == Disposition(log, t, Depth[c], surface, Verdict[surface], now)
<1>1. /\ Verdict[surface] # "block" /\ Refusals(log, t) # {} => disp.outcome = "rejected"
      /\ disp.outcome = "rejected" => Refusals(log, t) # {}
      /\ disp.outcome = "allowed" => Verdict[surface] # "block" /\ Refusals(log, t) = {}
      /\ disp.outcome # "rejected" /\ disp.closure = "ended" => disp.of = 0 /\ Of(log, "ended") # {}
  BY Decides
<1>2. disp = Ask(c, t)  BY DEF Ask
<1> HIDE DEF disp
<1>3. QED BY <1>1, <1>2

\* A place that says nothing about the log.
LEMMA Careless ==
  ASSUME NEW c \in Caller, job'[c].at \in {"idle", "run", "again"}
  PROVE  Knows(c)'
BY DEF Knows

\* Each place knows of the log what it needs.
LEMMA KnowledgeStep == LogInv /\ JobInv /\ Knowledge /\ [Next]_vars => Knowledge'
<1> SUFFICES ASSUME LogInv, JobInv, Knowledge, [Next]_vars PROVE Knowledge'  OBVIOUS
<1>1. CASE UNCHANGED vars
  BY <1>1 DEF Knowledge, Knows, NotRefused, Blocked, Reviewed, vars
<1>2. CASE Next
  <2>1. log' = log \/ \E e : log' = Append(log, e) /\ Written(e)  BY <1>2, Effects
  <2>2. Ordered(log) /\ DOMAIN job = Caller  BY DEF LogInv, JobInv
  <2>3. CASE UNCHANGED <<job, surface>>
    BY <2>1, <2>3, KnowsStays DEF Knowledge
  <2>4. ASSUME NEW c \in Caller, NEW j, Do(c, j), surface' = surface, Knows(c)' PROVE Knowledge'
    <3>1. \A d \in Caller \ {c} : job'[d] = job[d]  BY <2>2, <2>4 DEF Do
    <3>2. QED BY <2>1, <2>4, <3>1, KnowsStays DEF Knowledge
  <2>5. ASSUME NEW c \in Caller, Done(c), surface' = surface PROVE Knowledge'
    BY <2>2, <2>4, <2>5, Careless, FreeFields DEF Done, Do
  <2>6. ASSUME NEW c \in Caller, NEW place \in {"run", "again"}, Go(c, place), surface' = surface
        PROVE  Knowledge'
    <3>1. job'[c].at = place
      BY <2>2, <2>6 DEF Go, Do, JobInv, Fields
    <3>2. QED BY <2>4, <2>6, <3>1, Careless DEF Go
  <2>7. ASSUME NEW c \in Caller, NEW t \in Ticket, Begin(c, t) PROVE Knowledge'
    <3> DEFINE disp == Ask(c, t)
               new == [Free EXCEPT !.call = calls + 1, !.ticket = t, !.expires = now + TTL,
                                   !.seen = Len(log), !.outcome = disp.outcome]
               j1 == [new EXCEPT !.at = "settle", !.of = disp.of]
               j2 == [new EXCEPT !.at = "ready", !.of = disp.of, !.paid = disp.of]
               j3 == [new EXCEPT !.at = "ask"]
    <3>1. \/ Do(c, j1) /\ Settles(disp)
          \/ Do(c, j2) /\ disp.outcome = "allowed"
          \/ Do(c, j3) /\ ~Settles(disp) /\ disp.outcome # "allowed"
      BY <2>7, Zenon DEF Begin
    <3>2. log' = log /\ surface' = surface  BY <2>7 DEF Begin, outside
    <3>3. /\ Verdict[surface] # "block" /\ Refusals(log, t) # {} => disp.outcome = "rejected"
          /\ disp.outcome = "rejected" => Refusals(log, t) # {}
          /\ disp.outcome = "allowed" => Refusals(log, t) = {}
          /\ disp.outcome # "rejected" /\ disp.closure = "ended" => disp.of = 0 /\ Of(log, "ended") # {}
      BY <2>2, Told
    <3> HIDE DEF disp
    <3>4. DOMAIN new = Fields /\ new.ticket = t /\ new.seen = Len(log)
      BY DEF Free, Fields
    <3> HIDE DEF new
    <3>5. CASE Do(c, j1) /\ Settles(disp)
      <4>1. j1.at = "settle" /\ j1.ticket = t /\ j1.of = disp.of  BY <3>4 DEF Fields
      <4>2. job'[c] = j1  BY <2>2, <3>5 DEF Do
      <4> HIDE DEF j1
      <4>3. Refusals(log, t) # {} \/ (disp.of = 0 /\ Of(log, "ended") # {})
        BY <3>3, <3>5 DEF Settles
      <4>4. Knows(c)'  BY <3>2, <4>1, <4>2, <4>3 DEF Knows
      <4>5. QED BY <2>4, <3>2, <3>5, <4>4
    <3>6. CASE Do(c, j2) /\ disp.outcome = "allowed"
      <4>1. j2.at = "ready" /\ j2.ticket = t /\ j2.seen = Len(log)  BY <3>4 DEF Fields
      <4>2. job'[c] = j2  BY <2>2, <3>6 DEF Do
      <4> HIDE DEF j2
      <4>3. Knows(c)'  BY <3>2, <3>3, <3>6, <4>1, <4>2 DEF Knows, NotRefused
      <4>4. QED BY <2>4, <3>2, <3>6, <4>3
    <3>7. CASE Do(c, j3) /\ ~Settles(disp) /\ disp.outcome # "allowed"
      <4>1. j3.at = "ask" /\ j3.ticket = t /\ j3.seen = Len(log)  BY <3>4 DEF Fields
      <4>2. job'[c] = j3  BY <2>2, <3>7 DEF Do
      <4> HIDE DEF j3
      <4>3. Verdict[surface] = "block" \/ Refusals(log, t) = {}  BY <3>3, <3>7 DEF Settles
      <4>4. Knows(c)'  BY <3>2, <4>1, <4>2, <4>3 DEF Knows, NotRefused
      <4>5. QED BY <2>4, <3>2, <3>7, <4>4
    <3>8. QED BY <3>1, <3>5, <3>6, <3>7
  <2>8. ASSUME NEW c \in Caller, FreshDecision(c) PROVE Knowledge'
    <3> DEFINE place == CASE Verdict[surface] = "pass"   -> "ready"
                          [] Verdict[surface] = "review" -> "reread"
                          [] OTHER -> "deny"
               j == [job[c] EXCEPT !.of = Len(log) + 1, !.at = place]
               e == DecisionEvent(job[c].call, job[c].ticket, Depth[c], Verdict[surface], surface,
                                  job[c].expires)
               n == Len(log) + 1
    <3>1. /\ Do(c, j) /\ job[c].at = "ask" /\ log' = Append(log, e)
      BY <2>8 DEF FreshDecision, At, Record
    <3>2. surface' = surface  BY <2>8 DEF FreshDecision, outside
    <3>3. /\ place = "ready" => Verdict[surface] = "pass"
          /\ place = "reread" => Verdict[surface] = "review"
          /\ place = "deny" => Verdict[surface] = "block"
          /\ place \in {"ready", "reread", "deny"}
      BY ToolAssumption DEF LogInv
    <3> HIDE DEF place
    <3>4. /\ j.at = place /\ j.call = job[c].call /\ j.ticket = job[c].ticket
          /\ j.seen = job[c].seen
      BY DEF JobInv, Fields
    <3> HIDE DEF j
    <3>5. job'[c] = j  BY <2>2, <3>1 DEF Do
    <3>6. /\ e.kind = "decision" /\ e.call = job[c].call /\ e.ticket = job[c].ticket
          /\ e.verdict = Verdict[surface]
      BY DEF DecisionEvent
    <3> HIDE DEF e
    <3>7. Len(log) \in Nat /\ DOMAIN log' = 1..n /\ log'[n] = e
      BY <2>2, <3>1, Longer
    <3>8. n \in Of(log', "decision")  BY <3>6, <3>7 DEF Of
    <3>9. CASE place = "ready"
      <4>1. NotRefused(c)
        BY <3>1, <3>3, <3>9 DEF Knowledge, Knows
      <4>2. Refusals(log, job[c].ticket) = Refusals(log', job[c].ticket) \ {n}
        BY <2>2, <3>1, <3>6, Kept DEF Follows
      <4>3. n > job[c].seen  BY <3>7 DEF JobInv
      <4>4. NotRefused(c)'  BY <3>4, <3>5, <4>1, <4>2, <4>3 DEF NotRefused
      <4>5. Knows(c)'  BY <3>4, <3>5, <3>9, <4>4 DEF Knows
      <4>6. QED BY <2>4, <3>1, <3>2, <4>5
    <3>10. CASE place = "reread"
      <4>1. Reviewed(c)'
        BY <3>3, <3>4, <3>5, <3>6, <3>7, <3>8, <3>10 DEF Reviewed, Requests
      <4>2. Knows(c)'  BY <3>4, <3>5, <3>10, <4>1 DEF Knows
      <4>3. QED BY <2>4, <3>1, <3>2, <4>2
    <3>11. CASE place = "deny"
      <4>1. Blocked(c)'
        BY <3>3, <3>4, <3>5, <3>6, <3>7, <3>8, <3>11 DEF Blocked
      <4>2. Knows(c)'  BY <3>4, <3>5, <3>11, <4>1 DEF Knows
      <4>3. QED BY <2>4, <3>1, <3>2, <4>2
    <3>12. QED BY <3>3, <3>9, <3>10, <3>11
  <2>9. ASSUME NEW c \in Caller, Reread(c) PROVE Knowledge'
    <3> DEFINE t == job[c].ticket
               disp == Ask(c, t)
               own == disp.outcome = "allowed" /\ disp.of = job[c].of
               outcome == IF Settles(disp) \/ disp.closure # "open" THEN disp.outcome ELSE "pending"
               of == IF disp.closure = "ended" THEN 0 ELSE job[c].of
               paid == IF own THEN job[c].of ELSE 0
               place == IF Settles(disp) THEN "settle" ELSE IF own THEN "ready" ELSE "deny"
               j == [job[c] EXCEPT !.seen = Len(log), !.outcome = outcome, !.of = of,
                                   !.paid = paid, !.at = place]
    <3>1. Do(c, j) /\ job[c].at = "reread"  BY <2>9, Zenon DEF Reread, At
    <3>2. log' = log /\ surface' = surface  BY <2>9 DEF Reread, outside
    <3>3. disp.outcome = "allowed" => Refusals(log, t) = {}
      BY <2>2, Told
    <3>4. place \in {"ready", "settle", "deny"} /\ (place = "ready" => disp.outcome = "allowed")
      OBVIOUS
    <3> HIDE DEF place, of, paid, outcome, disp
    <3>5. j.at = place /\ j.call = job[c].call /\ j.ticket = t /\ j.seen = Len(log)
      BY DEF JobInv, Fields
    <3> HIDE DEF j
    <3>6. job'[c] = j  BY <2>2, <3>1 DEF Do
    <3>7. Reviewed(c)'
      BY <3>1, <3>2, <3>5, <3>6 DEF Knowledge, Knows, Reviewed
    <3>8. place = "ready" => NotRefused(c)'
      BY <3>2, <3>3, <3>4, <3>5, <3>6 DEF NotRefused
    <3>9. Knows(c)'  BY <3>4, <3>5, <3>6, <3>7, <3>8 DEF Knows
    <3>10. QED BY <2>4, <3>1, <3>2, <3>9
  <2>10. ASSUME NEW c \in Caller, CallStep(c) PROVE Knowledge'
    <3>1. surface' = surface
      BY <2>10 DEF CallStep, FreshDecision, Reread, Deny, OverBudget, Unavailable, Start, Close,
                   StartFails, CloseFails, RecordFailedCall, Broken, Stop, outside
    <3>2. CASE Deny(c) \/ OverBudget(c) \/ Unavailable(c) \/ Close(c) \/ RecordFailedCall(c)
      BY <3>1, <3>2, <2>5 DEF Deny, OverBudget, Unavailable, Close, RecordFailedCall
    <3>3. CASE Start(c)
      BY <3>1, <3>3, <2>6 DEF Start
    <3>4. CASE StartFails(c) \/ CloseFails(c)
      BY <3>1, <3>4, <2>5, <2>6 DEF StartFails, CloseFails, Broken
    <3>5. QED BY <2>10, <2>8, <2>9, <3>2, <3>3, <3>4 DEF CallStep
  <2>11. CASE Die
    BY <2>11, FreeFields, Careless DEF Die, Knowledge
  <2>12. ASSUME NEW s \in Surface, Move(s) PROVE Knowledge'
    <3>1. UNCHANGED job /\ \A c \in Caller : job[c].at = "idle"
      BY <2>12 DEF Move, Busy, At
    <3>2. QED BY <3>1, Careless DEF Knowledge
  <2>13. CASE \/ \E c \in Caller : Invalid(c)
              \/ \E d \in Pending, yes \in BOOLEAN : Human(d, yes)
              \/ \E kind \in {"released", "ended"} : Core(kind)
              \/ Tick
    BY <2>3, <2>13 DEF Invalid, Stop, Human, Core, Tick
  <2>14. QED BY <1>2, <2>7, <2>10, <2>11, <2>12, <2>13 DEF Next
<1>3. QED BY <1>1, <1>2

----------------------------------------------------------------------------
(* Refusals and denials. *)

\* A call that starts read the log before any refusal in it.
LEMMA RejectionStep ==
  LogInv /\ JobInv /\ Knowledge /\ RejectionIsFinal /\ [Next]_vars => RejectionIsFinal'
<1> SUFFICES ASSUME LogInv, JobInv, Knowledge, RejectionIsFinal, [Next]_vars
             PROVE  RejectionIsFinal'
  OBVIOUS
<1>1. CASE log' = log  BY <1>1 DEF RejectionIsFinal
<1>2. CASE \E e : log' = Append(log, e) /\ Written(e)
  <2> DEFINE n == Len(log) + 1
  <2>1. PICK e : log' = Append(log, e) /\ Written(e)  BY <1>2
  <2>2. /\ Len(log) \in Nat /\ DOMAIN log = 1..Len(log) /\ DOMAIN log' = 1..n
        /\ \A i \in 1..Len(log) : log'[i] = log[i]
        /\ log'[n] = e
    BY <2>1, Longer DEF LogInv
  <2>3. ASSUME NEW t \in Ticket, NEW i \in Starts(log, t)', NEW r \in Refusals(log, t)'
        PROVE  r > log'[i].seen
    <3>1. /\ Refusals(log, t) = Refusals(log', t) \ {n}
          /\ Of(log, "started") = Of(log', "started") \ {n}
      BY <2>1, Kept DEF LogInv, Written
    <3>2. CASE i # n
      <4>1. i \in Starts(log, t) /\ log'[i] = log[i] /\ i \in 1..Len(log)
        BY <2>2, <2>3, <3>1, <3>2 DEF Starts, Of
      <4>2. log[i].seen \in 0..(i - 1)  BY <4>1 DEF LogInv, Starts
      <4>3. CASE r = n  BY <2>2, <4>1, <4>2, <4>3
      <4>4. CASE r # n  BY <2>3, <3>1, <4>1, <4>4 DEF RejectionIsFinal
      <4>5. QED BY <4>3, <4>4
    <3>3. CASE i = n
      <4>1. e.kind = "started" /\ e.ticket = t  BY <2>2, <2>3, <3>3 DEF Starts, Of
      <4>2. PICK c \in Caller : job[c].at = "ready" /\ e = Started(c)
        BY <2>1, <4>1 DEF Written
      <4>3. job[c].ticket = t /\ e.seen = job[c].seen
        BY <4>1, <4>2 DEF Started, StartEvent
      <4>4. NotRefused(c)  BY <4>2 DEF Knowledge, Knows
      <4>5. CASE r = n  BY <2>2, <3>3, <4>3, <4>5 DEF JobInv
      <4>6. CASE r # n  BY <2>2, <2>3, <3>1, <3>3, <4>3, <4>4, <4>6 DEF NotRefused
      <4>7. QED BY <4>5, <4>6
    <3>4. QED BY <3>2, <3>3
  <2>4. QED BY <2>3 DEF RejectionIsFinal
<1>3. log' = log \/ \E e : log' = Append(log, e) /\ Written(e)
  BY Effects DEF vars
<1>4. QED BY <1>1, <1>2, <1>3

\* A denial is written by a call that knows what refused it.
LEMMA DenialStep ==
  LogInv /\ JobInv /\ Knowledge /\ DenialsPassTheAudit /\ [Next]_vars => DenialsPassTheAudit'
<1> SUFFICES ASSUME LogInv, JobInv, Knowledge, DenialsPassTheAudit, [Next]_vars
             PROVE  DenialsPassTheAudit'
  OBVIOUS
<1>1. CASE log' = log  BY <1>1 DEF DenialsPassTheAudit, Newest
<1>2. CASE \E e : log' = Append(log, e) /\ Written(e)
  <2> DEFINE n == Len(log) + 1
  <2>1. PICK e : log' = Append(log, e) /\ Written(e)  BY <1>2
  <2>2. /\ Len(log) \in Nat /\ DOMAIN log = 1..Len(log) /\ DOMAIN log' = 1..n /\ Len(log') = n
        /\ \A i \in 1..Len(log) : log'[i] = log[i]
        /\ log'[n] = e /\ SubSeq(log', 1, Len(log)) = log
    BY <2>1, Longer DEF LogInv
  <2>3. \A kind : Of(log, kind) = Of(log', kind) \ {n}
    BY <2>1, Kept DEF LogInv, Written
  <2>4. SUFFICES ASSUME e.kind = "denied", e.ticket # None
                 PROVE  \/ Explained(log', n)
                        \/ \E a \in Of(log', "answer") :
                              a < n /\ log'[a].yes /\ log'[log'[a].of].call = e.call
                        \/ e.of = 0 /\ Of(log', "ended") # {}
    BY <2>2 DEF DenialsPassTheAudit, Newest, Of
  <2>5. PICK c \in Caller :
              /\ job[c].at \in {"settle", "deny"}
              /\ e = DeniedEvent(job[c].call, job[c].ticket, job[c].of, job[c].outcome)
    BY <2>1, <2>4 DEF Written
  <2>6. e.call = job[c].call /\ e.ticket = job[c].ticket /\ e.of = job[c].of
    BY <2>5 DEF DeniedEvent
  <2>7. Before(log', n) = log
    <3>1. n - 1 = Len(log)  BY <2>2
    <3>2. QED BY <2>2, <3>1 DEF Before
  <2>8. CASE Blocked(c)
    <3>1. PICK d \in Of(log, "decision") : log[d].call = e.call /\ log[d].verdict = "block"
      BY <2>6, <2>8 DEF Blocked
    <3>2. Explained(log', n)  BY <2>2, <2>7, <3>1 DEF Explained
    <3>3. QED BY <3>2
  <2>9. CASE Reviewed(c)
    <3>1. PICK d \in Requests(log, e.ticket) : log[d].call = e.call
      BY <2>6, <2>9 DEF Reviewed
    <3>2. d \in Of(log, "decision") /\ log[d].verdict = "review" /\ log[d].ticket = e.ticket
      BY <3>1 DEF Requests
    <3>3. CASE \E a \in Of(log, "answer") : log[a].of = d /\ log[a].yes
      <4>1. PICK a \in Of(log, "answer") : log[a].of = d /\ log[a].yes  BY <3>3
      <4>2. a \in 1..Len(log) /\ d \in 1..Len(log)  BY <2>2, <3>2, <4>1 DEF Of
      <4>3. a < n /\ log'[a] = log[a] /\ log'[d] = log[d] /\ a \in Of(log', "answer")
        BY <2>2, <2>3, <4>1, <4>2
      <4>4. QED BY <3>1, <4>1, <4>3
    <3>4. CASE ~\E a \in Of(log, "answer") : log[a].of = d /\ log[a].yes
      <4>1. Explained(log', n)  BY <2>2, <2>7, <3>1, <3>2, <3>4 DEF Explained
      <4>2. QED BY <4>1
    <3>5. QED BY <3>3, <3>4
  <2>10. CASE Refusals(log, job[c].ticket) # {}
    <3>1. Explained(log', n)  BY <2>2, <2>6, <2>7, <2>10 DEF Explained
    <3>2. QED BY <3>1
  <2>11. CASE job[c].of = 0 /\ Of(log, "ended") # {}
    BY <2>3, <2>6, <2>11
  <2>12. Knows(c)  BY DEF Knowledge
  <2>13. QED BY <2>5, <2>8, <2>9, <2>10, <2>11, <2>12 DEF Knows
<1>3. log' = log \/ \E e : log' = Append(log, e) /\ Written(e)
  BY Effects DEF vars
<1>4. QED BY <1>1, <1>2, <1>3

----------------------------------------------------------------------------
(* One record for each call. *)

\* No other call's record changes.
LEMMA RecordsKept ==
  ASSUME LogInv, NEW k,
         log' = log \/ \E e : log' = Append(log, e) /\ ~(Closes(e) /\ e.call = k)
  PROVE  RecordsOf(log', k) = RecordsOf(log, k)
<1>1. CASE log' = log  BY <1>1 DEF RecordsOf, Closes
<1>2. CASE \E e : log' = Append(log, e) /\ ~(Closes(e) /\ e.call = k)
  <2>1. PICK e : log' = Append(log, e) /\ ~(Closes(e) /\ e.call = k)  BY <1>2
  <2>2. /\ Len(log) \in Nat /\ DOMAIN log = 1..Len(log) /\ DOMAIN log' = 1..(Len(log) + 1)
        /\ \A i \in 1..Len(log) : log'[i] = log[i]
        /\ log'[Len(log) + 1] = e
    BY <2>1, Longer DEF LogInv
  <2>3. \A i \in DOMAIN log' : Closes(log'[i]) /\ log'[i].call = k <=>
                               i \in DOMAIN log /\ Closes(log[i]) /\ log[i].call = k
    <3>1. ASSUME NEW i \in DOMAIN log', i # Len(log) + 1 PROVE i \in DOMAIN log /\ log'[i] = log[i]
      BY <2>2, <3>1
    <3>2. Len(log) + 1 \notin DOMAIN log  BY <2>2
    <3>3. QED BY <2>1, <2>2, <3>1, <3>2
  <2>4. QED BY <2>2, <2>3 DEF RecordsOf
<1>3. QED BY <1>1, <1>2

\* The record with which a caller closes its call, or an invalid call is refused.
LEMMA RecordAdded ==
  ASSUME LogInv, NEW e, log' = Append(log, e), Closes(e)
  PROVE  RecordsOf(log', e.call) = RecordsOf(log, e.call) \cup {Len(log) + 1}
<1>1. /\ Len(log) \in Nat /\ DOMAIN log = 1..Len(log) /\ DOMAIN log' = 1..(Len(log) + 1)
      /\ \A i \in 1..Len(log) : log'[i] = log[i]
      /\ log'[Len(log) + 1] = e
  BY Longer DEF LogInv
<1>2. QED BY <1>1 DEF RecordsOf, Closes

\* A call and its record: one or the other.
LEMMA RecordStep == LogInv /\ JobInv /\ RecordInv /\ [Next]_vars => RecordInv'
<1> SUFFICES ASSUME LogInv, JobInv, RecordInv, [Next]_vars PROVE RecordInv'  OBVIOUS
<1> USE DEF Record
<1>1. CASE UNCHANGED vars  BY <1>1 DEF RecordInv, RecordsOf, Closes, Working, vars
<1>2. CASE Next
  <2>1. calls \in Nat /\ \A c \in Caller : job[c].call \in 0..calls
    BY DEF LogInv, JobInv, Free
  <2>2. DOMAIN job = Caller  BY DEF JobInv
  <2>3. ASSUME calls' = calls, lost \subseteq lost', NEW K,
               \A k \in (1..calls) \ lost' : k \notin K =>
                  (Working(job', k) <=> Working(job, k)) /\ RecordsOf(log', k) = RecordsOf(log, k),
               \A k \in ((1..calls) \ lost') \cap K :
                  ~Working(job', k) /\ \E i : RecordsOf(log', k) = {i}
        PROVE  RecordInv'
    BY <2>3 DEF RecordInv
  <2>4. ASSUME NEW c \in Caller, \A d \in Caller \ {c} : job'[d] = job[d],
               job'[c].call = job[c].call
        PROVE  \A k : Working(job', k) <=> Working(job, k)
    BY <2>4 DEF Working
  <2>5. ASSUME NEW c \in Caller, NEW e, log' = Append(log, e), Closes(e), e.call = job[c].call,
               job[c].at # "idle", Done(c), UNCHANGED <<calls, lost>>
        PROVE  RecordInv'
    <3> DEFINE k0 == job[c].call
    <3>1. k0 \in 1..calls  BY <2>5 DEF JobInv
    <3>2. job'[c].call = 0 /\ \A d \in Caller \ {c} : job'[d] = job[d]
      BY <2>2, <2>5, FreeFields DEF Done, Do
    <3>3. \A k \in 1..calls : k # k0 => (Working(job', k) <=> Working(job, k))
      BY <3>2 DEF Working
    <3>4. ~Working(job', k0)
      <4>1. \A d \in Caller \ {c} : job[d].call # k0
        BY <2>1, <3>1 DEF JobInv
      <4>2. QED BY <3>1, <3>2, <4>1 DEF Working
    <3>5. k0 \notin lost => \E i : RecordsOf(log', k0) = {i}
      <4>1. k0 \notin lost => RecordsOf(log, k0) = {}
        BY <3>1 DEF RecordInv, Working
      <4>2. RecordsOf(log', k0) = RecordsOf(log, k0) \cup {Len(log) + 1}
        BY <2>5, RecordAdded
      <4>3. QED BY <4>1, <4>2
    <3>6. \A k : k # k0 => RecordsOf(log', k) = RecordsOf(log, k)
      BY <2>5, RecordsKept
    <3>7. \A k \in (1..calls) \ lost' : k \notin {k0} =>
             (Working(job', k) <=> Working(job, k)) /\ RecordsOf(log', k) = RecordsOf(log, k)
      BY <3>3, <3>6
    <3>8. \A k \in ((1..calls) \ lost') \cap {k0} :
             ~Working(job', k) /\ \E i : RecordsOf(log', k) = {i}
      BY <2>5, <3>4, <3>5
    <3>9. calls' = calls /\ lost \subseteq lost'  BY <2>5
    <3> HIDE DEF k0
    <3>10. QED BY <2>3, <3>7, <3>8, <3>9
  <2>6. ASSUME NEW e, log' = Append(log, e), ~Closes(e), UNCHANGED <<calls, lost>>,
               \A k : Working(job', k) <=> Working(job, k)
        PROVE  RecordInv'
    <3>1. \A k : RecordsOf(log', k) = RecordsOf(log, k)  BY <2>6, RecordsKept
    <3>2. QED BY <2>6, <3>1 DEF RecordInv
  <2>7. ASSUME log' = log, UNCHANGED <<calls, lost>>, \A k : Working(job', k) <=> Working(job, k)
        PROVE  RecordInv'
    <3>1. \A k : RecordsOf(log', k) = RecordsOf(log, k)  BY <2>7, RecordsKept
    <3>2. QED BY <2>7, <3>1 DEF RecordInv
  <2>8. ASSUME NEW c \in Caller, NEW t \in Ticket, Begin(c, t) PROVE RecordInv'
    <3>1. log' = log /\ calls' = calls + 1 /\ lost' = lost /\ job[c].at = "idle"
      BY <2>8 DEF Begin, outside, At
    <3>2. job'[c].call = calls + 1 /\ \A d \in Caller \ {c} : job'[d] = job[d]
      <4> DEFINE disp == Ask(c, t)
                 new == [Free EXCEPT !.call = calls + 1, !.ticket = t, !.expires = now + TTL,
                                     !.seen = Len(log), !.outcome = disp.outcome]
                 j1 == [new EXCEPT !.at = "settle", !.of = disp.of]
                 j2 == [new EXCEPT !.at = "ready", !.of = disp.of, !.paid = disp.of]
                 j3 == [new EXCEPT !.at = "ask"]
      <4>1. Do(c, j1) \/ Do(c, j2) \/ Do(c, j3)  BY <2>8, Zenon DEF Begin
      <4> HIDE DEF disp
      <4>2. DOMAIN new = Fields /\ new.call = calls + 1  BY DEF Free, Fields
      <4> HIDE DEF new
      <4>3. j1.call = calls + 1 /\ j2.call = calls + 1 /\ j3.call = calls + 1
        BY <4>2 DEF Fields
      <4> HIDE DEF j1, j2, j3
      <4>4. QED BY <2>2, <4>1, <4>3 DEF Do
    <3>3. job[c].call = 0  BY <3>1, FreeFields DEF JobInv
    <3>4. \A k : RecordsOf(log', k) = RecordsOf(log, k)  BY <3>1, RecordsKept
    <3>5. \A k \in 1..calls : Working(job', k) <=> Working(job, k)
      BY <2>1, <3>2, <3>3 DEF Working
    <3>6. Working(job', calls + 1)  BY <3>2 DEF Working
    <3>7. RecordsOf(log, calls + 1) = {}  BY <2>1 DEF RecordsOf, LogInv
    <3>8. ASSUME NEW k \in (1..calls') \ lost'
          PROVE  IF Working(job', k) THEN RecordsOf(log', k) = {} ELSE \E i : RecordsOf(log', k) = {i}
      <4>1. CASE k = calls + 1  BY <3>4, <3>6, <3>7, <4>1
      <4>2. CASE k # calls + 1
        <5>1. k \in (1..calls) \ lost  BY <2>1, <3>1, <3>8, <4>2
        <5>2. QED BY <3>4, <3>5, <5>1 DEF RecordInv
      <4>3. QED BY <4>1, <4>2
    <3>9. QED BY <3>8 DEF RecordInv
  <2>9. ASSUME NEW c \in Caller, Invalid(c) PROVE RecordInv'
    <3>1. PICK e : log' = Append(log, e) /\ Closes(e) /\ e.call = calls + 1
      BY <2>9 DEF Invalid, CompletedEvent, DeniedEvent, Closes
    <3>2. calls' = calls + 1 /\ UNCHANGED <<lost, job>>  BY <2>9 DEF Invalid, Stop
    <3>3. \A k : Working(job', k) <=> Working(job, k)  BY <3>2 DEF Working
    <3>4. \A k \in 1..calls : RecordsOf(log', k) = RecordsOf(log, k)
      BY <2>1, <3>1, RecordsKept
    <3>5. RecordsOf(log, calls + 1) = {} /\ ~Working(job, calls + 1)
      BY <2>1 DEF RecordsOf, LogInv, Working
    <3>6. RecordsOf(log', calls + 1) = RecordsOf(log, calls + 1) \cup {Len(log) + 1}
      BY <3>1, RecordAdded
    <3>7. \E i : RecordsOf(log', calls + 1) = {i}  BY <3>5, <3>6
    <3>8. ASSUME NEW k \in (1..calls') \ lost'
          PROVE  IF Working(job', k) THEN RecordsOf(log', k) = {} ELSE \E i : RecordsOf(log', k) = {i}
      <4>1. CASE k = calls + 1  BY <3>3, <3>5, <3>7, <4>1
      <4>2. CASE k # calls + 1
        <5>1. k \in (1..calls) \ lost  BY <2>1, <3>2, <3>8, <4>2
        <5>2. QED BY <3>3, <3>4, <5>1 DEF RecordInv
      <4>3. QED BY <4>1, <4>2
    <3>9. QED BY <3>8 DEF RecordInv
  <2>10. ASSUME NEW c \in Caller, NEW j, Do(c, j), j.call = job[c].call
         PROVE  \A k : Working(job', k) <=> Working(job, k)
    BY <2>2, <2>4, <2>10 DEF Do
  <2>11. ASSUME NEW c \in Caller, NEW place, Go(c, place)
         PROVE  \A k : Working(job', k) <=> Working(job, k)
    <3>1. [job[c] EXCEPT !.at = place].call = job[c].call  BY DEF JobInv, Fields
    <3>2. QED BY <2>10, <2>11, <3>1 DEF Go
  <2>12. ASSUME NEW c \in Caller, CallStep(c) PROVE RecordInv'
    <3>1. CASE FreshDecision(c)
      <4> DEFINE e == DecisionEvent(job[c].call, job[c].ticket, Depth[c], Verdict[surface], surface,
                                    job[c].expires)
                 place == CASE Verdict[surface] = "pass"   -> "ready"
                            [] Verdict[surface] = "review" -> "reread"
                            [] OTHER -> "deny"
                 j == [job[c] EXCEPT !.of = Len(log) + 1, !.at = place]
      <4>1. log' = Append(log, e) /\ Do(c, j) /\ UNCHANGED <<calls, lost>>
        BY <3>1 DEF FreshDecision, outside
      <4>2. j.call = job[c].call  BY DEF JobInv, Fields
      <4>3. ~Closes(e)  BY DEF Closes, DecisionEvent
      <4> HIDE DEF e, j
      <4>4. QED BY <2>6, <2>10, <4>1, <4>2, <4>3
    <3>2. CASE Reread(c)
      <4> DEFINE disp == Ask(c, job[c].ticket)
                 own == disp.outcome = "allowed" /\ disp.of = job[c].of
                 outcome == IF Settles(disp) \/ disp.closure # "open" THEN disp.outcome ELSE "pending"
                 of == IF disp.closure = "ended" THEN 0 ELSE job[c].of
                 paid == IF own THEN job[c].of ELSE 0
                 place == IF Settles(disp) THEN "settle" ELSE IF own THEN "ready" ELSE "deny"
                 j == [job[c] EXCEPT !.seen = Len(log), !.outcome = outcome, !.of = of,
                                     !.paid = paid, !.at = place]
      <4>1. Do(c, j)  BY <3>2, Zenon DEF Reread
      <4>2. log' = log /\ UNCHANGED <<calls, lost>>  BY <3>2 DEF Reread, outside
      <4> HIDE DEF place, of, paid, outcome, disp
      <4>3. j.call = job[c].call  BY DEF JobInv, Fields
      <4> HIDE DEF j
      <4>4. QED BY <2>7, <2>10, <4>1, <4>2, <4>3
    <3>3. CASE Deny(c)
      <4> DEFINE e == DeniedEvent(job[c].call, job[c].ticket, job[c].of, job[c].outcome)
      <4>1. /\ log' = Append(log, e) /\ job[c].at # "idle" /\ Done(c) /\ UNCHANGED <<calls, lost>>
        BY <3>3 DEF Deny, outside
      <4>2. Closes(e) /\ e.call = job[c].call  BY DEF Closes, DeniedEvent
      <4> HIDE DEF e
      <4>3. QED BY <2>5, <4>1, <4>2
    <3>4. CASE OverBudget(c)
      <4> DEFINE e == DeniedEvent(job[c].call, None, 0, "budget")
      <4>1. /\ log' = Append(log, e) /\ job[c].at # "idle" /\ Done(c) /\ UNCHANGED <<calls, lost>>
        BY <3>4 DEF OverBudget, Stop, At
      <4>2. Closes(e) /\ e.call = job[c].call  BY DEF Closes, DeniedEvent
      <4> HIDE DEF e
      <4>3. QED BY <2>5, <4>1, <4>2
    <3>5. CASE Unavailable(c) \/ Close(c) \/ RecordFailedCall(c)
      <4> DEFINE e == CompletedEvent(job[c].call)
      <4>1. /\ log' = Append(log, e) /\ job[c].at # "idle" /\ Done(c) /\ UNCHANGED <<calls, lost>>
        BY <3>5 DEF Unavailable, Close, RecordFailedCall, Stop, At, outside
      <4>2. Closes(e) /\ e.call = job[c].call  BY DEF Closes, CompletedEvent
      <4> HIDE DEF e
      <4>3. QED BY <2>5, <4>1, <4>2
    <3>6. CASE Start(c)
      <4>1. log' = Append(log, Started(c)) /\ Go(c, "run") /\ UNCHANGED <<calls, lost>>
        BY <3>6 DEF Start, outside
      <4>2. ~Closes(Started(c))  BY DEF Closes, Started, StartEvent
      <4>3. QED BY <2>6, <2>11, <4>1, <4>2
    <3>7. ASSUME NEW e, log' \in {log, Append(log, e)}, Closes(e) => e.call = job[c].call,
                 Go(c, "again") \/ Done(c), job[c].at # "idle",
                 calls' = calls, lost' = lost \cup {job[c].call}
          PROVE  RecordInv'
      <4>1. \A k : k # job[c].call => RecordsOf(log', k) = RecordsOf(log, k)
        BY <3>7, RecordsKept
      <4>2. \A k \in 1..calls : k # job[c].call => (Working(job', k) <=> Working(job, k))
        <5>1. CASE Go(c, "again")  BY <2>11, <5>1
        <5>2. CASE Done(c)
          <6>1. job'[c].call = 0 /\ \A d \in Caller \ {c} : job'[d] = job[d]
            BY <2>2, <5>2, FreeFields DEF Done, Do
          <6>2. QED BY <6>1 DEF Working
        <5>3. QED BY <3>7, <5>1, <5>2
      <4>3. QED BY <2>3, <3>7, <4>1, <4>2
    <3>8. CASE StartFails(c)
      <4>1. ~Closes(Started(c))  BY DEF Closes, Started, StartEvent
      <4>2. QED BY <3>7, <3>8, <4>1 DEF StartFails, Broken, At
    <3>9. CASE CloseFails(c)
      <4>1. CompletedEvent(job[c].call).call = job[c].call  BY DEF CompletedEvent
      <4>2. QED BY <3>7, <3>9, <4>1 DEF CloseFails, Broken, At
    <3>10. QED BY <2>12, <3>1, <3>2, <3>3, <3>4, <3>5, <3>6, <3>8, <3>9 DEF CallStep
  <2>13. CASE Die
    <3>1. /\ log' = log /\ calls' = calls /\ lost' = lost \cup {job[c].call : c \in Busy}
          /\ job' = [c \in Caller |-> Free]
      BY <2>13 DEF Die
    <3>2. \A k \in (1..calls) \ lost' : ~Working(job, k)
      BY <3>1, FreeFields DEF Working, Busy, At, JobInv
    <3>3. \A k \in 1..calls : ~Working(job', k)
      BY <3>1, FreeFields DEF Working
    <3>4. \A k : RecordsOf(log', k) = RecordsOf(log, k)  BY <3>1, RecordsKept
    <3>5. QED BY <2>3, <3>1, <3>2, <3>3, <3>4
  <2>14. CASE \/ \E d \in Pending, yes \in BOOLEAN : Human(d, yes)
              \/ \E kind \in {"released", "ended"} : Core(kind)
    <3>1. PICK e : log' = Append(log, e) /\ ~Closes(e)
      <4>1. CASE \E d \in Pending, yes \in BOOLEAN : Human(d, yes)
        BY <4>1 DEF Human, Closes, AnswerEvent
      <4>2. ASSUME NEW kind \in {"released", "ended"}, Core(kind)
            PROVE  log' = Append(log, [kind |-> kind]) /\ ~Closes([kind |-> kind])
        BY <4>2 DEF Core, Closes
      <4>3. QED BY <2>14, <4>1, <4>2
    <3>2. UNCHANGED <<calls, job, lost>>  BY <2>14 DEF Human, Core
    <3>3. \A k : Working(job', k) <=> Working(job, k)  BY <3>2 DEF Working
    <3>4. QED BY <2>6, <3>1, <3>2, <3>3
  <2>15. CASE Tick \/ \E s \in Surface : Move(s)
    <3>1. UNCHANGED <<log, calls, job, lost>>  BY <2>15 DEF Tick, Move
    <3>2. \A k : Working(job', k) <=> Working(job, k)  BY <3>1 DEF Working
    <3>3. QED BY <2>7, <3>1, <3>2
  <2>16. QED BY <1>2, <2>8, <2>9, <2>12, <2>13, <2>14, <2>15 DEF Next
<1>3. QED BY <1>1, <1>2

----------------------------------------------------------------------------
(* The first results. *)

\* The empty log.
LEMMA InitInv == Init => IInv
<1> SUFFICES ASSUME Init PROVE IInv  OBVIOUS
<1> USE DEF Init
<1>1. Ordered(log) /\ DOMAIN log = {} /\ Len(log) = 0 /\ \A kind : Of(log, kind) = {}
  <2>1. log \in Seq({}) /\ DOMAIN log = {} /\ Len(log) = 0  OBVIOUS
  <2>2. QED BY <2>1 DEF Ordered, Of
<1>2. LogInv
  BY <1>1, ToolAssumption DEF LogInv
<1>3. JobInv
  BY <1>1, FreeFields DEF JobInv, Place
<1>4. Knowledge
  BY <1>1, FreeFields DEF Knowledge, Knows
<1>5. RejectionIsFinal /\ DenialsPassTheAudit
  BY <1>1 DEF RejectionIsFinal, DenialsPassTheAudit, Starts, Newest
<1>6. RecordInv
  BY <1>1 DEF RecordInv
<1>7. QED BY <1>2, <1>3, <1>4, <1>5, <1>6 DEF IInv

\* What holds of the log and of the callers holds always: the inductive invariant.
THEOREM CallInvariance == Spec => []IInv
<1>1. Init => IInv  BY InitInv
<1>2. IInv /\ [Next]_vars => IInv'
  BY LogStep, JobStep, KnowledgeStep, RejectionStep, DenialStep, RecordStep DEF IInv
<1>3. QED BY <1>1, <1>2, PTL DEF Spec

\* A refusal that stands in the log when a call last reads it is final for that call
\* (approval_ticket.py: a rejection is looked for before anything is spent).
THEOREM RejectionIsFinalAlways == Spec => []RejectionIsFinal
<1>1. IInv => RejectionIsFinal  BY DEF IInv
<1>2. QED BY <1>1, CallInvariance, PTL

\* MIRA finds behind every denial what refused the call (controls.py, A6).
THEOREM DenialsPassTheAuditAlways == Spec => []DenialsPassTheAudit
<1>1. IInv => DenialsPassTheAudit  BY DEF IInv
<1>2. QED BY <1>1, CallInvariance, PTL

\* Each call leaves one record when its caller is done with it (manager.py).
THEOREM OneRecordPerCallAlways == Spec => []OneRecordPerCall
<1>1. IInv => OneRecordPerCall
  <2> SUFFICES ASSUME IInv, NEW k \in (1..calls) \ lost, \A c \in Caller : job[c].call # k
               PROVE  Cardinality(Records("completed", k) \cup Records("denied", k)) = 1
    BY DEF OneRecordPerCall
  <2>1. PICK i : RecordsOf(log, k) = {i}  BY DEF IInv, RecordInv, Working
  <2>2. Records("completed", k) \cup Records("denied", k) = RecordsOf(log, k)
    BY DEF Records, RecordsOf, Closes, Of
  <2>3. QED BY <2>1, <2>2, FS_Singleton
<1>2. QED BY <1>1, CallInvariance, PTL

----------------------------------------------------------------------------
(* What the pools of ToolTickets count. *)

\* Induction over the naturals: the least number outside would have a predecessor inside.
LEMMA FromZero ==
  ASSUME NEW S, 0 \in S, \A n \in Nat : n \in S => n + 1 \in S
  PROVE  \A n \in Nat : n \in S
<1> DEFINE T == Nat \ S
           m == Min(T)
<1>1. SUFFICES ASSUME T # {} PROVE FALSE  OBVIOUS
<1>2. m \in T /\ \A y \in T : m <= y  BY <1>1, FirstOf
<1> HIDE DEF m
<1>3. m # 0 /\ m \in Nat  BY <1>2
<1>4. m - 1 \in Nat /\ m - 1 \notin T  BY <1>2, <1>3
<1>5. (m - 1) + 1 = m  BY <1>3
<1>6. m \in S  BY <1>4, <1>5
<1>7. QED BY <1>2, <1>6

Counted(pool, i, A, B, S) ==
    IF i \in A THEN Earn(pool, i, i \in B) ELSE IF i \in S THEN Spend(pool) ELSE pool
IsPool(f, n, A, B, S) ==
    f = [i \in 0..n |-> IF i = 0 THEN Empty
                        ELSE IF i \in A THEN Earn(f[i - 1], i, i \in B)
                        ELSE IF i \in S THEN Spend(f[i - 1])
                        ELSE f[i - 1]]

\* The recursive function of Count is defined: by induction, one position more each time.
LEMMA PoolExists ==
  ASSUME NEW A, NEW B, NEW S
  PROVE  \A n \in Nat : \E f : IsPool(f, n, A, B, S)
<1> DEFINE N == {n \in Nat : \E f : IsPool(f, n, A, B, S)}
<1>1. 0 \in N
  <2>1. IsPool([i \in 0..0 |-> Empty], 0, A, B, S)  BY DEF IsPool
  <2>2. QED BY <2>1
<1>2. ASSUME NEW n \in Nat, n \in N PROVE n + 1 \in N
  <2>1. PICK f : IsPool(f, n, A, B, S)  BY <1>2
  <2> DEFINE g == [i \in 0..(n + 1) |-> IF i <= n THEN f[i] ELSE Counted(f[n], n + 1, A, B, S)]
  <2>2. g[0] = Empty  BY <2>1 DEF IsPool
  <2>3. ASSUME NEW i \in 1..(n + 1) PROVE g[i] = Counted(g[i - 1], i, A, B, S)
    <3>1. i - 1 \in 0..n /\ g[i - 1] = f[i - 1]  OBVIOUS
    <3>2. CASE i = n + 1
      <4>1. g[i] = Counted(f[n], n + 1, A, B, S)  BY <3>2
      <4>2. i - 1 = n  BY <3>2
      <4> HIDE DEF g
      <4>3. QED BY <3>1, <3>2, <4>1, <4>2
    <3>3. CASE i # n + 1
      <4>1. i \in 1..n /\ g[i] = f[i]  BY <3>3
      <4> HIDE DEF g
      <4>2. f[i] = Counted(f[i - 1], i, A, B, S)  BY <2>1, <4>1 DEF IsPool, Counted
      <4>3. QED BY <3>1, <4>1, <4>2
    <3>4. QED BY <3>2, <3>3
  <2>4. g = [i \in 0..(n + 1) |-> g[i]]  OBVIOUS
  <2> HIDE DEF g
  <2>5. IsPool(g, n + 1, A, B, S)
    <3>1. \A i \in 0..(n + 1) :
             g[i] = IF i = 0 THEN Empty
                    ELSE IF i \in A THEN Earn(g[i - 1], i, i \in B)
                    ELSE IF i \in S THEN Spend(g[i - 1])
                    ELSE g[i - 1]
      BY <2>2, <2>3 DEF Counted
    <3>2. QED BY <2>4, <3>1 DEF IsPool
  <2>6. QED BY <2>5
<1> HIDE DEF N
<1>3. \A n \in Nat : n \in N  BY <1>1, <1>2, FromZero
<1>4. QED BY <1>3 DEF N

\* It depends on the positions it counts only.
LEMMA PoolsAgree ==
  ASSUME NEW A, NEW B, NEW S, NEW A1, NEW B1, NEW S1, NEW n \in Nat, NEW m \in Nat,
         NEW f, NEW g, IsPool(f, n, A, B, S), IsPool(g, m, A1, B1, S1), n <= m,
         \A i \in 1..n : (i \in A <=> i \in A1) /\ (i \in B <=> i \in B1) /\ (i \in S <=> i \in S1)
  PROVE  f[n] = g[n]
<1> DEFINE K == {k \in Nat : k <= n => f[k] = g[k]}
<1>1. 0 \in K  BY DEF IsPool
<1>2. ASSUME NEW k \in Nat, k \in K PROVE k + 1 \in K
  <2>1. CASE k + 1 <= n
    <3>1. f[k] = g[k]  BY <1>2, <2>1
    <3>2. (k + 1) - 1 = k /\ k + 1 \in 1..n /\ k + 1 \in 0..n /\ k + 1 \in 0..m /\ k + 1 # 0
      BY <2>1
    <3>3. f[k + 1] = Counted(f[k], k + 1, A, B, S)  BY <3>2 DEF IsPool, Counted
    <3>4. g[k + 1] = Counted(g[k], k + 1, A1, B1, S1)  BY <3>2 DEF IsPool, Counted
    <3>5. Counted(f[k], k + 1, A, B, S) = Counted(g[k], k + 1, A1, B1, S1)
      <4>1. /\ k + 1 \in A <=> k + 1 \in A1
            /\ (k + 1 \in B) = (k + 1 \in B1)
            /\ k + 1 \in S <=> k + 1 \in S1
        BY <3>2
      <4>2. QED BY <3>1, <4>1, Zenon DEF Counted
    <3>6. QED BY <3>3, <3>4, <3>5
  <2>2. QED BY <2>1
<1> HIDE DEF K
<1>3. n \in K  BY <1>1, <1>2, FromZero
<1>4. QED BY <1>3 DEF K

\* So Count is its last value.
LEMMA CountIs ==
  ASSUME NEW A, NEW B, NEW S, NEW n \in Nat
  PROVE  \E f : IsPool(f, n, A, B, S) /\ Count(n, A, B, S) = f[n]
<1> DEFINE p == CHOOSE f : IsPool(f, n, A, B, S)
<1>1. IsPool(p, n, A, B, S)  BY PoolExists
<1>2. Count(n, A, B, S) = p[n]  BY Zenon DEF Count, IsPool
<1> HIDE DEF p
<1>3. QED BY <1>1, <1>2

\* A pool counts one position of the log after the other.
LEMMA CountNext ==
  ASSUME NEW A, NEW B, NEW S
  PROVE  /\ Count(0, A, B, S) = Empty
         /\ \A n \in Nat : Count(n + 1, A, B, S) = Counted(Count(n, A, B, S), n + 1, A, B, S)
<1>1. Count(0, A, B, S) = Empty
  <2>1. PICK f : IsPool(f, 0, A, B, S) /\ Count(0, A, B, S) = f[0]  BY CountIs
  <2>2. QED BY <2>1 DEF IsPool
<1>2. ASSUME NEW n \in Nat
      PROVE  Count(n + 1, A, B, S) = Counted(Count(n, A, B, S), n + 1, A, B, S)
  <2>1. PICK f : IsPool(f, n, A, B, S) /\ Count(n, A, B, S) = f[n]  BY CountIs
  <2>2. PICK g : IsPool(g, n + 1, A, B, S) /\ Count(n + 1, A, B, S) = g[n + 1]  BY CountIs
  <2>3. f[n] = g[n]  BY <2>1, <2>2, PoolsAgree
  <2>4. (n + 1) - 1 = n /\ n + 1 \in 0..(n + 1) /\ n + 1 # 0  OBVIOUS
  <2>5. g[n + 1] = Counted(g[n], n + 1, A, B, S)  BY <2>2, <2>4 DEF IsPool, Counted
  <2>6. QED BY <2>1, <2>2, <2>3, <2>5
<1>3. QED BY <1>1, <1>2

\* What comes later in the log does not count.
LEMMA CountBefore ==
  ASSUME NEW A, NEW B, NEW S, NEW A1, NEW B1, NEW S1, NEW n \in Nat,
         \A i \in 1..n : (i \in A <=> i \in A1) /\ (i \in B <=> i \in B1) /\ (i \in S <=> i \in S1)
  PROVE  Count(n, A, B, S) = Count(n, A1, B1, S1)
<1>1. PICK f : IsPool(f, n, A, B, S) /\ Count(n, A, B, S) = f[n]  BY CountIs
<1>2. PICK g : IsPool(g, n, A1, B1, S1) /\ Count(n, A1, B1, S1) = g[n]  BY CountIs
<1>3. QED BY <1>1, <1>2, PoolsAgree

\* How many of a set of positions are among the first n.
Up(X, n) == Cardinality(X \cap 1..n)

\* One position more.
LEMMA UpNext ==
  ASSUME NEW X
  PROVE  /\ Up(X, 0) = 0
         /\ \A n \in Nat : /\ Up(X, n) \in Nat
                           /\ Up(X, n + 1) = IF n + 1 \in X THEN Up(X, n) + 1 ELSE Up(X, n)
<1>1. Up(X, 0) = 0
  <2>1. X \cap 1..0 = {}  OBVIOUS
  <2>2. QED BY <2>1, FS_EmptySet DEF Up
<1>2. ASSUME NEW n \in Nat
      PROVE  /\ IsFiniteSet(X \cap 1..n) /\ Up(X, n) \in Nat
             /\ Up(X, n + 1) = IF n + 1 \in X THEN Up(X, n) + 1 ELSE Up(X, n)
  <2>1. IsFiniteSet(1..n)  BY FS_Interval
  <2>2. IsFiniteSet(X \cap 1..n)  BY <2>1, FS_Subset
  <2>3. Up(X, n) \in Nat  BY <2>2, FS_CardinalityType DEF Up
  <2>4. CASE n + 1 \in X
    <3>1. X \cap 1..(n + 1) = (X \cap 1..n) \cup {n + 1} /\ n + 1 \notin X \cap 1..n  BY <2>4
    <3>2. QED BY <2>2, <2>3, <2>4, <3>1, FS_AddElement DEF Up
  <2>5. CASE n + 1 \notin X
    <3>1. X \cap 1..(n + 1) = X \cap 1..n  BY <2>5
    <3>2. QED BY <2>2, <2>3, <2>5, <3>1 DEF Up
  <2>6. QED BY <2>2, <2>3, <2>4, <2>5
<1>3. QED BY <1>1, <1>2

\* A smaller set has fewer.
LEMMA UpMost ==
  ASSUME NEW X, NEW Y, X \subseteq Y, NEW n \in Nat
  PROVE  Up(X, n) <= Up(Y, n)
<1>1. IsFiniteSet(Y \cap 1..n)
  <2>1. IsFiniteSet(1..n) /\ Y \cap 1..n \subseteq 1..n  BY FS_Interval
  <2>2. QED BY <2>1, FS_Subset
<1>2. X \cap 1..n \subseteq Y \cap 1..n  OBVIOUS
<1>3. QED BY <1>1, <1>2, FS_Subset DEF Up

\* A pool that owes nothing holds what is spendable; one in debt holds nothing.
IsCount(p, B) ==
    /\ p \in [valid : Seq(B), stale : Nat, debt : Nat]
    /\ p.debt # 0 => p.valid = <<>> /\ p.stale = 0

\* An answer adds one to the balance.
LEMMA EarnOne ==
  ASSUME NEW B, NEW p, IsCount(p, B), NEW a, NEW buys, buys \in BOOLEAN, buys => a \in B
  PROVE  LET q == Earn(p, a, buys)
         IN  /\ IsCount(q, B)
             /\ Len(q.valid) + q.stale - q.debt = Len(p.valid) + p.stale - p.debt + 1
             /\ p.debt # 0 => q.valid = <<>>
             /\ p.debt = 0 => /\ q.debt = 0
                              /\ buys => q.valid = Append(p.valid, a)
                              /\ ~buys => q.valid = p.valid
<1> DEFINE q == Earn(p, a, buys)
<1>1. CASE p.debt > 0
  <2>1. q = [p EXCEPT !.debt = @ - 1]  BY <1>1 DEF Earn
  <2>2. p \in [valid : Seq(B), stale : Nat, debt : Nat] /\ p.valid = <<>> /\ p.stale = 0
    BY <1>1 DEF IsCount
  <2>3. p.debt - 1 \in Nat  BY <1>1, <2>2
  <2>6. q.valid = p.valid /\ q.stale = p.stale /\ q.debt = p.debt - 1
    BY <2>1, <2>2
  <2>4. q \in [valid : Seq(B), stale : Nat, debt : Nat]  BY <2>1, <2>2, <2>3
  <2> HIDE DEF q
  <2>5. QED BY <1>1, <2>2, <2>3, <2>4, <2>6 DEF IsCount, q
<1>2. CASE p.debt = 0 /\ buys
  <2>1. q = [p EXCEPT !.valid = Append(@, a)]  BY <1>2 DEF Earn
  <2>2. p \in [valid : Seq(B), stale : Nat, debt : Nat]  BY DEF IsCount
  <2>3. Append(p.valid, a) \in Seq(B) /\ Len(Append(p.valid, a)) = Len(p.valid) + 1
        /\ Len(p.valid) \in Nat
    BY <1>2, <2>2, AppendProperties, LenProperties
  <2>4. q.valid = Append(p.valid, a) /\ q.stale = p.stale /\ q.debt = 0
    BY <1>2, <2>1, <2>2
  <2>5. q \in [valid : Seq(B), stale : Nat, debt : Nat]  BY <2>1, <2>2, <2>3
  <2> HIDE DEF q
  <2>6. IsCount(q, B)  BY <2>4, <2>5 DEF IsCount
  <2>7. Len(q.valid) = Len(p.valid) + 1 /\ p.stale \in Nat  BY <2>2, <2>3, <2>4
  <2>8. Len(q.valid) + q.stale - q.debt = Len(p.valid) + p.stale - p.debt + 1
    BY <1>2, <2>3, <2>4, <2>7
  <2>9. QED BY <1>2, <2>4, <2>6, <2>8 DEF q
<1>3. CASE p.debt = 0 /\ ~buys
  <2>1. q = [p EXCEPT !.stale = @ + 1]  BY <1>3 DEF Earn
  <2>2. p \in [valid : Seq(B), stale : Nat, debt : Nat]  BY DEF IsCount
  <2>3. Len(p.valid) \in Nat  BY <2>2, LenProperties
  <2>4. q.valid = p.valid /\ q.stale = p.stale + 1 /\ q.debt = 0
    BY <1>3, <2>1, <2>2
  <2>5. q \in [valid : Seq(B), stale : Nat, debt : Nat]  BY <2>1, <2>2
  <2> HIDE DEF q
  <2>6. QED BY <1>3, <2>2, <2>3, <2>4, <2>5 DEF IsCount, q
<1>4. p.debt \in Nat  BY DEF IsCount
<1>5. QED BY <1>1, <1>2, <1>3, <1>4

\* A start takes one from it.
LEMMA SpendOne ==
  ASSUME NEW B, NEW p, IsCount(p, B)
  PROVE  LET q == Spend(p)
         IN  /\ IsCount(q, B)
             /\ Len(q.valid) + q.stale - q.debt = Len(p.valid) + p.stale - p.debt - 1
             /\ p.valid = <<>> => q.valid = <<>>
             /\ p.valid # <<>> => Len(q.valid) = Len(p.valid) - 1 /\ q.debt = 0
<1> DEFINE q == Spend(p)
<1>1. p \in [valid : Seq(B), stale : Nat, debt : Nat]  BY DEF IsCount
<1>2. Len(p.valid) \in Nat  BY <1>1, LenProperties
<1>3. CASE p.valid # <<>>
  <2>1. q = [p EXCEPT !.valid = Tail(@)]  BY <1>3 DEF Spend
  <2>2. Tail(p.valid) \in Seq(B) /\ Len(Tail(p.valid)) = Len(p.valid) - 1
    BY <1>1, <1>3, HeadTailProperties
  <2>3. q.valid = Tail(p.valid) /\ q.stale = p.stale /\ q.debt = p.debt /\ p.debt = 0
    BY <1>1, <1>3, <2>1 DEF IsCount
  <2>4. q \in [valid : Seq(B), stale : Nat, debt : Nat]  BY <1>1, <2>1, <2>2
  <2> HIDE DEF q
  <2>5. QED BY <1>1, <1>2, <1>3, <2>2, <2>3, <2>4 DEF IsCount, q
<1>4. CASE p.valid = <<>> /\ p.stale > 0
  <2>1. q = [p EXCEPT !.stale = @ - 1]  BY <1>4 DEF Spend
  <2>2. p.stale - 1 \in Nat /\ p.debt = 0  BY <1>1, <1>4 DEF IsCount
  <2>3. q.valid = p.valid /\ q.stale = p.stale - 1 /\ q.debt = p.debt
    BY <1>1, <2>1
  <2>4. q \in [valid : Seq(B), stale : Nat, debt : Nat]  BY <1>1, <2>1, <2>2
  <2> HIDE DEF q
  <2>5. QED BY <1>1, <1>2, <1>4, <2>2, <2>3, <2>4 DEF IsCount, q
<1>5. CASE p.valid = <<>> /\ p.stale = 0
  <2>1. q = [p EXCEPT !.debt = @ + 1]  BY <1>5 DEF Spend
  <2>2. q.valid = p.valid /\ q.stale = p.stale /\ q.debt = p.debt + 1
    BY <1>1, <2>1
  <2>3. q \in [valid : Seq(B), stale : Nat, debt : Nat]  BY <1>1, <2>1
  <2> HIDE DEF q
  <2>4. QED BY <1>1, <1>2, <1>5, <2>2, <2>3 DEF IsCount, q
<1>6. p.stale \in Nat  BY <1>1
<1>7. QED BY <1>3, <1>4, <1>5, <1>6

\* What every pool is.
LEMMA PoolTypes ==
  ASSUME NEW A, NEW B, NEW S
  PROVE  \A n \in Nat : IsCount(Count(n, A, B, S), B)
<1> DEFINE N == {n \in Nat : IsCount(Count(n, A, B, S), B)}
<1>1. 0 \in N
  <2>1. IsCount(Empty, B)
    <3>1. <<>> \in Seq(B)  OBVIOUS
    <3>2. QED BY <3>1 DEF IsCount, Empty
  <2>2. QED BY <2>1, CountNext
<1>2. ASSUME NEW n \in Nat, n \in N PROVE n + 1 \in N
  <2> DEFINE p == Count(n, A, B, S)
  <2>1. IsCount(p, B)  BY <1>2
  <2>2. Count(n + 1, A, B, S) = Counted(p, n + 1, A, B, S)  BY CountNext
  <2> HIDE DEF p
  <2>3. IsCount(Earn(p, n + 1, n + 1 \in B), B)
    <3> DEFINE b == n + 1 \in B
    <3>1. b \in BOOLEAN /\ (b => n + 1 \in B)  OBVIOUS
    <3> HIDE DEF b
    <3>2. IsCount(Earn(p, n + 1, b), B)  BY <2>1, <3>1, EarnOne
    <3>3. QED BY <3>2 DEF b
  <2>4. IsCount(Spend(p), B)  BY <2>1, SpendOne
  <2>5. IsCount(Counted(p, n + 1, A, B, S), B)  BY <2>1, <2>3, <2>4 DEF Counted
  <2>6. n + 1 \in Nat  OBVIOUS
  <2>7. QED BY <2>2, <2>5, <2>6
<1> HIDE DEF N
<1>3. \A n \in Nat : n \in N  BY <1>1, <1>2, FromZero
<1>4. QED BY <1>3 DEF N

\* One position: an answer earns, a start spends, anything else changes nothing.
Balance(p) == Len(p.valid) + p.stale - p.debt
OneMore(p, q, i, A, B, S) ==
    /\ Len(p.valid) \in Nat /\ p.stale \in Nat /\ p.debt \in Nat
    /\ p.debt # 0 => p.valid = <<>> /\ p.stale = 0
    /\ i \in A => /\ Balance(q) = Balance(p) + 1
                  /\ p.debt # 0 => q.valid = <<>>
                  /\ p.debt = 0 => q.debt = 0
                  /\ p.debt = 0 /\ i \in B => Len(q.valid) = Len(p.valid) + 1
                  /\ p.debt = 0 /\ i \notin B => q.valid = p.valid
    /\ i \notin A /\ i \in S =>
                  /\ Balance(q) = Balance(p) - 1
                  /\ p.valid = <<>> => q.valid = <<>>
                  /\ p.valid # <<>> => Len(q.valid) = Len(p.valid) - 1 /\ q.debt = 0
    /\ i \notin A /\ i \notin S => q = p
LEMMA CountOne ==
  ASSUME NEW A, NEW B, NEW S, NEW n \in Nat
  PROVE  OneMore(Count(n, A, B, S), Count(n + 1, A, B, S), n + 1, A, B, S)
<1> DEFINE p == Count(n, A, B, S)
           q == Count(n + 1, A, B, S)
<1>1. IsCount(p, B)  BY PoolTypes
<1>2. q = Counted(p, n + 1, A, B, S)  BY CountNext
<1> HIDE DEF p, q
<1>3. /\ p.valid \in Seq(B) /\ Len(p.valid) \in Nat /\ p.stale \in Nat /\ p.debt \in Nat
      /\ p.debt # 0 => p.valid = <<>> /\ p.stale = 0
  BY <1>1, LenProperties DEF IsCount
<1>4. ASSUME n + 1 \in A PROVE OneMore(p, q, n + 1, A, B, S)
  <2> DEFINE b == n + 1 \in B
             r == Earn(p, n + 1, b)
  <2>1. q = r  BY <1>2, <1>4 DEF Counted
  <2>2. b \in BOOLEAN /\ (b => n + 1 \in B)  OBVIOUS
  <2> HIDE DEF b
  <2>3. /\ Len(r.valid) + r.stale - r.debt = Len(p.valid) + p.stale - p.debt + 1
        /\ p.debt # 0 => r.valid = <<>>
        /\ p.debt = 0 => /\ r.debt = 0
                         /\ b => r.valid = Append(p.valid, n + 1)
                         /\ ~b => r.valid = p.valid
    BY <1>1, <2>2, EarnOne
  <2>4. b => Len(Append(p.valid, n + 1)) = Len(p.valid) + 1
    BY <1>3, <2>2, AppendProperties
  <2> HIDE DEF r
  <2>5. /\ Balance(q) = Balance(p) + 1
        /\ p.debt # 0 => q.valid = <<>>
        /\ p.debt = 0 => q.debt = 0
        /\ p.debt = 0 /\ b => Len(q.valid) = Len(p.valid) + 1
        /\ p.debt = 0 /\ ~b => q.valid = p.valid
    BY <2>1, <2>3, <2>4 DEF Balance
  <2>6. QED BY <1>3, <1>4, <2>5 DEF OneMore, b
<1>5. ASSUME n + 1 \notin A /\ n + 1 \in S PROVE OneMore(p, q, n + 1, A, B, S)
  <2>1. q = Spend(p)  BY <1>2, <1>5 DEF Counted
  <2>2. /\ Len(q.valid) + q.stale - q.debt = Len(p.valid) + p.stale - p.debt - 1
        /\ p.valid = <<>> => q.valid = <<>>
        /\ p.valid # <<>> => Len(q.valid) = Len(p.valid) - 1 /\ q.debt = 0
    BY <1>1, <2>1, SpendOne
  <2>3. QED BY <1>3, <1>5, <2>2 DEF Balance, OneMore
<1>6. ASSUME n + 1 \notin A /\ n + 1 \notin S PROVE OneMore(p, q, n + 1, A, B, S)
  <2>1. q = p  BY <1>2, <1>6 DEF Counted
  <2>2. QED BY <1>3, <1>6, <2>1 DEF OneMore
<1>7. OneMore(p, q, n + 1, A, B, S)
  <2>1. n + 1 \in A \/ (n + 1 \notin A /\ n + 1 \in S) \/ (n + 1 \notin A /\ n + 1 \notin S)  OBVIOUS
  <2>2. QED BY <2>1, <1>4, <1>5, <1>6
<1>8. QED BY <1>7 DEF p, q

\* Where the starts that were paid for never outnumber the answers that were given, an
\* answer that is still spendable is one more than the starts.
LEMMA Spendable ==
  ASSUME NEW A, NEW B, NEW S, NEW given, NEW paid, NEW N \in Nat,
         B \subseteq given, paid \subseteq S, A \cap S = {},
         \A n \in 0..N : Up(paid, n) <= Up(given, n)
  PROVE  \A n \in 0..N : LET p == Count(n, A, B, S)
                         IN  p.valid # <<>> => Up(paid, n) + Len(p.valid) <= Up(given, n)
<1> DEFINE Holds(n) == LET p == Count(n, A, B, S)
                       IN  p.valid # <<>> => Up(paid, n) + Len(p.valid) <= Up(given, n)
           K == {n \in Nat : n <= N => Holds(n)}
<1>1. 0 \in K
  <2>1. Count(0, A, B, S).valid = <<>>  BY CountNext DEF Empty
  <2>2. QED BY <2>1
<1>2. ASSUME NEW n \in Nat, n \in K PROVE n + 1 \in K
  <2>1. SUFFICES ASSUME n + 1 <= N PROVE Holds(n + 1)  OBVIOUS
  <2>2. Holds(n)  BY <1>2, <2>1
  <2> DEFINE p == Count(n, A, B, S)
             q == Count(n + 1, A, B, S)
  <2>3. /\ Up(paid, n) \in Nat /\ Up(given, n) \in Nat /\ Up(paid, n) <= Up(given, n)
        /\ Up(paid, n + 1) = IF n + 1 \in paid THEN Up(paid, n) + 1 ELSE Up(paid, n)
        /\ Up(given, n + 1) = IF n + 1 \in given THEN Up(given, n) + 1 ELSE Up(given, n)
    BY <2>1, UpNext
  <2>4. /\ Len(p.valid) \in Nat /\ p.debt \in Nat
        /\ p.debt # 0 => p.valid = <<>>
        /\ n + 1 \in A =>
              /\ p.debt # 0 => q.valid = <<>>
              /\ p.debt = 0 /\ n + 1 \in B => Len(q.valid) = Len(p.valid) + 1
              /\ p.debt = 0 /\ n + 1 \notin B => q.valid = p.valid
        /\ n + 1 \notin A /\ n + 1 \in S =>
              /\ p.valid = <<>> => q.valid = <<>>
              /\ p.valid # <<>> => Len(q.valid) = Len(p.valid) - 1
        /\ n + 1 \notin A /\ n + 1 \notin S => q = p
    BY CountOne DEF OneMore
  <2>5. p.valid # <<>> => Up(paid, n) + Len(p.valid) <= Up(given, n)  BY <2>2
  <2>6. p.valid = <<>> => Len(p.valid) = 0  OBVIOUS
  <2> HIDE DEF p, q, Holds
  <2>7. q.valid # <<>> => Up(paid, n + 1) + Len(q.valid) <= Up(given, n + 1)
    <3>1. CASE n + 1 \in A
      <4>1. n + 1 \notin paid  BY <3>1
      <4>2. CASE p.debt # 0  BY <2>4, <3>1, <4>2
      <4>3. CASE p.debt = 0 /\ n + 1 \in B
        <5>1. n + 1 \in given /\ Len(q.valid) = Len(p.valid) + 1  BY <2>4, <3>1, <4>3
        <5>2. Up(paid, n) + Len(p.valid) <= Up(given, n)  BY <2>3, <2>5, <2>6
        <5>3. QED BY <2>3, <2>4, <4>1, <5>1, <5>2
      <4>4. CASE p.debt = 0 /\ n + 1 \notin B
        <5>1. q.valid = p.valid  BY <2>4, <3>1, <4>4
        <5>2. QED BY <2>3, <2>4, <2>5, <4>1, <5>1
      <4>5. QED BY <4>2, <4>3, <4>4
    <3>2. CASE n + 1 \notin A /\ n + 1 \in S
      <4>1. CASE p.valid = <<>>  BY <2>4, <3>2, <4>1
      <4>2. CASE p.valid # <<>>
        <5>1. Len(q.valid) = Len(p.valid) - 1  BY <2>4, <3>2, <4>2
        <5>2. QED BY <2>3, <2>4, <2>5, <4>2, <5>1
      <4>3. QED BY <4>1, <4>2
    <3>3. CASE n + 1 \notin A /\ n + 1 \notin S
      <4>1. q = p /\ n + 1 \notin paid  BY <2>4, <3>3
      <4>2. QED BY <2>3, <2>4, <2>5, <4>1
    <3>4. QED BY <3>1, <3>2, <3>3
  <2>8. QED BY <2>7 DEF Holds, q
<1> HIDE DEF K, Holds
<1>3. \A n \in Nat : n \in K  BY <1>1, <1>2, FromZero
<1>4. \A n \in 0..N : Holds(n)  BY <1>3 DEF K
<1>5. QED BY <1>4 DEF Holds

\* What a pool holds and what it owes: the answers less the starts.
LEMMA Balanced ==
  ASSUME NEW A, NEW B, NEW S, A \cap S = {}
  PROVE  \A n \in Nat : Balance(Count(n, A, B, S)) = Up(A, n) - Up(S, n)
<1> DEFINE K == {n \in Nat : Balance(Count(n, A, B, S)) = Up(A, n) - Up(S, n)}
<1>1. 0 \in K
  <2>1. Balance(Empty) = 0  BY DEF Balance, Empty
  <2>2. QED BY <2>1, CountNext, UpNext
<1>2. ASSUME NEW n \in Nat, n \in K PROVE n + 1 \in K
  <2> DEFINE p == Count(n, A, B, S)
             q == Count(n + 1, A, B, S)
  <2>1. OneMore(p, q, n + 1, A, B, S)  BY CountOne
  <2>2. Balance(p) = Up(A, n) - Up(S, n)  BY <1>2
  <2> HIDE DEF p, q
  <2>3. /\ Up(A, n) \in Nat /\ Up(S, n) \in Nat
        /\ Up(A, n + 1) = IF n + 1 \in A THEN Up(A, n) + 1 ELSE Up(A, n)
        /\ Up(S, n + 1) = IF n + 1 \in S THEN Up(S, n) + 1 ELSE Up(S, n)
    BY UpNext
  <2>4. Balance(q) = Up(A, n + 1) - Up(S, n + 1)
    <3>1. CASE n + 1 \in A
      <4>1. n + 1 \notin S /\ Balance(q) = Balance(p) + 1  BY <2>1, <3>1 DEF OneMore
      <4>2. QED BY <2>2, <2>3, <3>1, <4>1
    <3>2. CASE n + 1 \notin A /\ n + 1 \in S
      <4>1. Balance(q) = Balance(p) - 1  BY <2>1, <3>2 DEF OneMore
      <4>2. QED BY <2>2, <2>3, <3>2, <4>1
    <3>3. CASE n + 1 \notin A /\ n + 1 \notin S
      <4>1. q = p  BY <2>1, <3>3 DEF OneMore
      <4>2. QED BY <2>2, <2>3, <3>3, <4>1
    <3>4. QED BY <3>1, <3>2, <3>3
  <2>5. QED BY <2>4 DEF q
<1> HIDE DEF K
<1>3. \A n \in Nat : n \in K  BY <1>1, <1>2, FromZero
<1>4. QED BY <1>3 DEF K

\* The debt is what is missing from the balance.
LEMMA Debt ==
  ASSUME NEW A, NEW B, NEW S, NEW n \in Nat
  PROVE  LET p == Count(n, A, B, S)
         IN  /\ p.debt \in Nat /\ Len(p.valid) \in Nat /\ p.stale \in Nat
             /\ p.debt # 0 => p.valid = <<>> /\ Balance(p) = 0 - p.debt
             /\ p.debt = 0 => Balance(p) = Len(p.valid) + p.stale
<1> DEFINE p == Count(n, A, B, S)
<1>1. /\ Len(p.valid) \in Nat /\ p.stale \in Nat /\ p.debt \in Nat
      /\ p.debt # 0 => p.valid = <<>> /\ p.stale = 0
  BY CountOne DEF OneMore
<1> HIDE DEF p
<1>2. p.valid = <<>> => Len(p.valid) = 0  OBVIOUS
<1>3. /\ p.debt \in Nat /\ Len(p.valid) \in Nat /\ p.stale \in Nat
      /\ p.debt # 0 => p.valid = <<>> /\ Balance(p) = 0 - p.debt
      /\ p.debt = 0 => Balance(p) = Len(p.valid) + p.stale
  BY <1>1, <1>2 DEF Balance
<1>4. QED BY <1>3 DEF p

\* A spendable answer stays until a start spends it.
LEMMA StaysSpendable ==
  ASSUME NEW A, NEW B, NEW S, NEW m \in Nat, NEW n \in Nat, m <= n,
         \A i \in (m + 1)..n : i \notin S,
         Count(m, A, B, S).valid # <<>>
  PROVE  Count(n, A, B, S).valid # <<>>
<1> DEFINE K == {k \in Nat : m <= k /\ k <= n => Count(k, A, B, S).valid # <<>>}
<1>1. 0 \in K  OBVIOUS
<1>2. ASSUME NEW k \in Nat, k \in K PROVE k + 1 \in K
  <2>1. CASE m <= k /\ k + 1 <= n
    <3> DEFINE p == Count(k, A, B, S)
               q == Count(k + 1, A, B, S)
    <3>1. OneMore(p, q, k + 1, A, B, S)  BY CountOne
    <3>2. p.valid # <<>> /\ k + 1 \notin S  BY <1>2, <2>1
    <3> HIDE DEF p, q
    <3>3. q.valid # <<>>
      <4>1. CASE k + 1 \in A /\ k + 1 \in B
        <5>1. Len(q.valid) = Len(p.valid) + 1 /\ Len(p.valid) \in Nat
          BY <3>1, <3>2, <4>1 DEF OneMore
        <5>2. q.valid = <<>> => Len(q.valid) = 0  OBVIOUS
        <5>3. QED BY <5>1, <5>2
      <4>2. CASE k + 1 \in A /\ k + 1 \notin B  BY <3>1, <3>2, <4>2 DEF OneMore
      <4>3. CASE k + 1 \notin A  BY <3>1, <3>2, <4>3 DEF OneMore
      <4>4. QED BY <4>1, <4>2, <4>3
    <3>4. QED BY <3>3 DEF q
  <2>2. CASE ~(m <= k)
    <3>1. m <= k + 1 => m = k + 1  BY <2>2
    <3>2. QED BY <3>1
  <2>3. CASE ~(k + 1 <= n)  BY <2>3
  <2>4. QED BY <2>1, <2>2, <2>3
<1> HIDE DEF K
<1>3. n \in K  BY <1>1, <1>2, FromZero
<1>4. QED BY <1>3 DEF K

\* Of two pools over the same answers and starts, the one to which more answers are good
\* holds no less.
LEMMA Dominates ==
  ASSUME NEW A, NEW B, NEW B1, NEW S, B \subseteq B1
  PROVE  \A n \in Nat : Len(Count(n, A, B, S).valid) <= Len(Count(n, A, B1, S).valid)
<1> DEFINE Holds(n) == LET p == Count(n, A, B, S)
                           r == Count(n, A, B1, S)
                       IN  Balance(p) = Balance(r) /\ Len(p.valid) <= Len(r.valid)
           K == {n \in Nat : Holds(n)}
<1>1. 0 \in K
  <2>1. Count(0, A, B, S) = Empty /\ Count(0, A, B1, S) = Empty  BY CountNext
  <2>2. Len(Empty.valid) = 0  BY DEF Empty
  <2>3. QED BY <2>1, <2>2
<1>2. ASSUME NEW n \in Nat, n \in K PROVE n + 1 \in K
  <2> DEFINE p == Count(n, A, B, S)
             q == Count(n + 1, A, B, S)
             r == Count(n, A, B1, S)
             s == Count(n + 1, A, B1, S)
  <2>1. OneMore(p, q, n + 1, A, B, S) /\ OneMore(r, s, n + 1, A, B1, S)  BY CountOne
  <2>2. Balance(p) = Balance(r) /\ Len(p.valid) <= Len(r.valid)  BY <1>2
  <2>3. /\ p.debt \in Nat /\ Len(p.valid) \in Nat /\ p.stale \in Nat
        /\ p.debt # 0 => p.valid = <<>> /\ Balance(p) = 0 - p.debt
        /\ p.debt = 0 => Balance(p) = Len(p.valid) + p.stale
    BY Debt
  <2>4. /\ r.debt \in Nat /\ Len(r.valid) \in Nat /\ r.stale \in Nat
        /\ r.debt # 0 => r.valid = <<>> /\ Balance(r) = 0 - r.debt
        /\ r.debt = 0 => Balance(r) = Len(r.valid) + r.stale
    BY Debt
  <2>5. Len(s.valid) \in Nat
    <3>1. n + 1 \in Nat  OBVIOUS
    <3>2. QED BY <3>1, Debt
  <2> HIDE DEF p, q, r, s
  <2>6. p.debt = 0 <=> r.debt = 0  BY <2>2, <2>3, <2>4
  <2>7. \A x : x = <<>> => Len(x) = 0  OBVIOUS
  <2>8. Balance(q) = Balance(s) /\ Len(q.valid) <= Len(s.valid)
    <3>1. CASE n + 1 \in A
      <4>1. Balance(q) = Balance(p) + 1 /\ Balance(s) = Balance(r) + 1
        BY <2>1, <3>1 DEF OneMore
      <4>2. CASE p.debt # 0
        <5>1. q.valid = <<>>  BY <2>1, <3>1, <4>2 DEF OneMore
        <5>2. QED BY <2>2, <2>5, <2>7, <4>1, <5>1
      <4>3. CASE p.debt = 0
        <5>1. /\ n + 1 \in B => Len(q.valid) = Len(p.valid) + 1
              /\ n + 1 \notin B => q.valid = p.valid
          BY <2>1, <3>1, <4>3 DEF OneMore
        <5>2. /\ n + 1 \in B1 => Len(s.valid) = Len(r.valid) + 1
              /\ n + 1 \notin B1 => s.valid = r.valid
          BY <2>1, <2>6, <3>1, <4>3 DEF OneMore
        <5>3. QED BY <2>2, <2>3, <2>4, <4>1, <5>1, <5>2
      <4>4. QED BY <4>2, <4>3
    <3>2. CASE n + 1 \notin A /\ n + 1 \in S
      <4>1. Balance(q) = Balance(p) - 1 /\ Balance(s) = Balance(r) - 1
        BY <2>1, <3>2 DEF OneMore
      <4>2. CASE p.valid = <<>>
        <5>1. q.valid = <<>>  BY <2>1, <3>2, <4>2 DEF OneMore
        <5>2. QED BY <2>2, <2>5, <2>7, <4>1, <5>1
      <4>3. CASE p.valid # <<>>
        <5>1. Len(q.valid) = Len(p.valid) - 1  BY <2>1, <3>2, <4>3 DEF OneMore
        <5>2. Len(p.valid) # 0
          <6>1. p.valid \in Seq(B)
            <7>1. IsCount(Count(n, A, B, S), B)  BY PoolTypes
            <7>2. QED BY <7>1 DEF IsCount, p
          <6>2. QED BY <4>3, <6>1, EmptySeq
        <5>3. r.valid # <<>>  BY <2>2, <2>3, <2>4, <2>7, <5>2
        <5>4. Len(s.valid) = Len(r.valid) - 1  BY <2>1, <3>2, <5>3 DEF OneMore
        <5>5. QED BY <2>2, <2>3, <2>4, <4>1, <5>1, <5>4
      <4>4. QED BY <4>2, <4>3
    <3>3. CASE n + 1 \notin A /\ n + 1 \notin S
      <4>1. q = p /\ s = r  BY <2>1, <3>3 DEF OneMore
      <4>2. QED BY <2>2, <4>1
    <3>4. QED BY <3>1, <3>2, <3>3
  <2>9. QED BY <2>8 DEF q, s
<1> HIDE DEF K, Holds
<1>3. \A n \in Nat : n \in K  BY <1>1, <1>2, FromZero
<1>4. \A n \in Nat : Holds(n)  BY <1>3 DEF K
<1>5. QED BY <1>4 DEF Holds

----------------------------------------------------------------------------
(* What an answer buys, where passes do not overlap. *)

\* All the positions of a log are among the first Len(log).
LEMMA UpAll ==
  ASSUME Ordered(log), NEW X, X \subseteq DOMAIN log
  PROVE  IsFiniteSet(X) /\ Cardinality(X) = Up(X, Len(log)) /\ Cardinality(X) \in Nat
<1>1. Len(log) \in Nat /\ X \subseteq 1..Len(log)  BY Longer
<1>2. X \cap 1..Len(log) = X  BY <1>1
<1>3. IsFiniteSet(X)  BY <1>1, FS_Interval, FS_Subset
<1>4. QED BY <1>2, <1>3, FS_CardinalityType DEF Up

\* Where the counted records are.
LEMMA Places ==
  ASSUME NEW t, NEW depth
  PROVE  /\ Answers(log, t) \subseteq DOMAIN log /\ Requests(log, t) \subseteq DOMAIN log
         /\ Starts(log, t) \subseteq DOMAIN log /\ Refusals(log, t) \subseteq Answers(log, t)
         /\ YesAnswers(t, depth) \subseteq Answers(log, t)
         /\ PaidStarts(t, depth) \subseteq Charged(log, t, depth)
         /\ Charged(log, t, depth) \subseteq Starts(log, t)
         /\ Answers(log, t) \cap Starts(log, t) = {}
BY DEF Answers, Requests, Starts, Refusals, YesAnswers, PaidStarts, Charged, Of

\* What an approval that the log still honours is.
LEMMA Honoured ==
  ASSUME Ordered(log), NEW t, NEW c \in Caller, Ask(c, t).outcome = "allowed"
  PROVE  LET d == Ask(c, t).of
             B == Buying(log, t, Depth[c], surface, now)
         IN  /\ Refusals(log, t) = {} /\ Ask(c, t).closure = "open"
             /\ Count(Len(log), Answers(log, t), B, Charged(log, t, Depth[c])).valid # <<>>
             /\ d \in Requests(log, t) /\ log[d].depth = Depth[c] /\ log[d].surface = surface
             /\ Closers(log, d) = {}
<1> DEFINE disp == Disposition(log, t, Depth[c], surface, Verdict[surface], now)
           B == Buying(log, t, Depth[c], surface, now)
           A == Answers(log, t)
           S == Charged(log, t, Depth[c])
           valid == Count(Len(log), A, B, S).valid
           a == valid[Len(valid)]
           d == log[a].of
<1>1. disp = Ask(c, t)  BY DEF Ask
<1>2. Pool(log, t, Depth[c], surface, now).valid = valid  BY DEF Pool
<1>3. Refusals(log, t) = {} /\ valid # <<>> /\ disp = Outcome("allowed", d, "open")
  <2>1. disp.outcome = "allowed"  BY <1>1
  <2> DEFINE closure == ReportedClosure(log, t, now)
  <2>2. \/ disp = Outcome("unavailable", 0, "open")
        \/ disp = Outcome("pending", 0, "open")
        \/ \E x : disp = Outcome("rejected", x, "open")
        \/ disp = Outcome("cancelled", 0, closure)
        \/ disp = Outcome("pending", 0, closure)
        \/ /\ disp = Outcome("allowed", d, "open") /\ Refusals(log, t) = {}
           /\ valid # <<>>
    BY <1>2, Zenon DEF Disposition
  <2> HIDE DEF disp, valid, closure, d
  <2>3. QED BY <2>1, <2>2 DEF Outcome
<1>4. disp.of = d /\ disp.closure = "open"  BY <1>3 DEF Outcome
<1>5. a \in B
  <2>1. Len(log) \in Nat  BY Longer
  <2>2. valid \in Seq(B)  BY <2>1, PoolTypes DEF IsCount
  <2> HIDE DEF valid
  <2>3. Len(valid) \in Nat \ {0}  BY <1>3, <2>2, EmptySeq
  <2>4. QED BY <2>2, <2>3, ElementOfSeq
<1> HIDE DEF disp, valid, a
<1>6. a \in Answers(log, t) /\ AnswerClosure(log, a, now) = "open" /\ log[d].depth = Depth[c]
      /\ log[d].surface = surface
  BY <1>5 DEF Buying, Live
<1>7. d \in Requests(log, t)  BY <1>6 DEF Answers
<1>8. Closers(log, d) = {}
  <2>1. SUFFICES ASSUME Closers(log, d) # {} PROVE FALSE  OBVIOUS
  <2>2. Closers(log, d) \subseteq Nat  BY Longer DEF Closers
  <2>3. Min(Closers(log, d)) \in Closers(log, d)  BY <2>1, <2>2, FirstOf
  <2>4. log[Min(Closers(log, d))].kind \in {"released", "ended"}  BY <2>3 DEF Closers
  <2>5. Closure(log, d, now) = log[Min(Closers(log, d))].kind  BY <2>1 DEF Closure
  <2>6. AnswerClosure(log, a, now) # "open"  BY <2>4, <2>5 DEF AnswerClosure
  <2>7. QED BY <1>6, <2>6
<1>9. valid # <<>>  BY <1>3
<1>10. QED BY <1>1, <1>3, <1>4, <1>6, <1>7, <1>8, <1>9 DEF valid

\* An approval that the log still honours has not been spent, neither in the count of the
\* manager nor, unless the call started at another depth, in that of MIRA.
LEMMA Unspent ==
  ASSUME Ordered(log), EveryPrefix, NEW t \in Ticket, NEW c \in Caller,
         Ask(c, t).outcome = "allowed"
  PROVE  /\ Cardinality(PaidStarts(t, Depth[c])) < Cardinality(YesAnswers(t, Depth[c]))
         /\ \/ \E j \in Starts(log, t) : log[j].depth # Depth[c]
            \/ CreditStands(log, t, surface)
<1> DEFINE B == Buying(log, t, Depth[c], surface, now)
           A == Answers(log, t)
           S == Charged(log, t, Depth[c])
           given == YesAnswers(t, Depth[c])
           paid == PaidStarts(t, Depth[c])
           N == Len(log)
           p == Count(N, A, B, S)
<1>1. N \in Nat  BY Longer
<1>2. Refusals(log, t) = {} /\ p.valid # <<>>  BY Honoured
<1>3. B \subseteq given
  BY <1>2 DEF Buying, Live, YesAnswers, Refusals
<1>4. paid \subseteq S /\ A \cap S = {}  BY Places
<1>5. \A n \in 0..N : Up(paid, n) <= Up(given, n)  BY DEF EveryPrefix, Up
<1>6. p \in [valid : Seq(B), stale : Nat, debt : Nat]  BY <1>1, PoolTypes DEF IsCount
<1> HIDE DEF B, A, S, given, paid, N
<1>7. Up(paid, N) + Len(p.valid) <= Up(given, N)
  <2>1. N \in 0..N  BY <1>1
  <2>2. QED BY <1>1, <1>2, <1>3, <1>4, <1>5, <2>1, Spendable
<1> HIDE DEF p
<1>8. Len(p.valid) \in Nat \ {0}  BY <1>2, <1>6, EmptySeq
<1>9. Cardinality(paid) < Cardinality(given)
  <2>1. paid \subseteq DOMAIN log /\ given \subseteq DOMAIN log  BY Places DEF paid, given
  <2>2. Cardinality(paid) = Up(paid, N) /\ Cardinality(given) = Up(given, N)
    BY <2>1, UpAll DEF N
  <2>3. Cardinality(paid) \in Nat /\ Cardinality(given) \in Nat  BY <2>1, UpAll
  <2>4. QED BY <1>7, <1>8, <2>2, <2>3
<1>10. ASSUME \A j \in Starts(log, t) : log[j].depth = Depth[c] PROVE CreditStands(log, t, surface)
  <2> DEFINE good == {a \in A : log[log[a].of].surface = surface}
             r == Count(N, A, good, S)
  <2>1. B \subseteq good  BY DEF B, A, Buying, Live
  <2>2. Starts(log, t) = S  BY <1>10 DEF S, Charged
  <2>3. Answers(log, t) \ Refusals(log, t) = A  BY <1>2 DEF A
  <2>4. CreditStands(log, t, surface) <=> r.valid # <<>>
    BY <2>2, <2>3 DEF CreditStands, N
  <2> HIDE DEF good
  <2>5. Len(p.valid) <= Len(r.valid)  BY <1>1, <2>1, Dominates DEF p
  <2>6. r.valid = <<>> => Len(r.valid) = 0  OBVIOUS
  <2>7. QED BY <1>8, <2>4, <2>5, <2>6
<1>11. QED BY <1>9, <1>10 DEF paid, given

----------------------------------------------------------------------------
(* What a call on its way to its start may count on, while the log grows. *)

\* The sets of records that are counted keep what they had.
LEMMA CountedKept ==
  ASSUME Ordered(log), NEW e, log' = Append(log, e), Follows(log, e), NEW t, NEW depth
  PROVE  /\ Starts(log, t) = Starts(log', t) \ {Len(log) + 1}
         /\ PaidStarts(t, depth) = PaidStarts(t, depth)' \ {Len(log) + 1}
         /\ YesAnswers(t, depth) = YesAnswers(t, depth)' \ {Len(log) + 1}
<1> DEFINE n == Len(log) + 1
<1>1. /\ Len(log) \in Nat /\ DOMAIN log = 1..Len(log)
      /\ \A i \in 1..Len(log) : log'[i] = log[i]
  BY Longer
<1>2. /\ Of(log, "started") = Of(log', "started") \ {n}
      /\ Answers(log, t) = Answers(log', t) \ {n}
  BY Kept
<1>3. \A i \in DOMAIN log : log'[i] = log[i]  BY <1>1
<1>4. Starts(log, t) = Starts(log', t) \ {n}
  BY <1>2, <1>3 DEF Starts, Of
<1>5. PaidStarts(t, depth) = PaidStarts(t, depth)' \ {n}
  <2>1. \A i \in Starts(log, t) : log'[i] = log[i]  BY <1>3 DEF Starts, Of
  <2>2. QED BY <1>4, <2>1 DEF PaidStarts
<1>6. YesAnswers(t, depth) = YesAnswers(t, depth)' \ {n}
  <2>1. \A a \in Answers(log, t) : log'[a] = log[a] /\ log'[log[a].of] = log[log[a].of]
    BY <1>3 DEF Answers, Requests, Of
  <2>2. YesAnswers(t, depth)' = {a \in Answers(log', t) : log'[a].yes /\ log'[log'[a].of].depth = depth}
    BY DEF YesAnswers
  <2>3. \A a \in Answers(log, t) : a \in YesAnswers(t, depth) <=> a \in YesAnswers(t, depth)'
    BY <1>2, <2>1, <2>2 DEF YesAnswers
  <2>4. YesAnswers(t, depth) \subseteq Answers(log, t) /\ YesAnswers(t, depth)' \subseteq Answers(log', t)
    BY <2>2 DEF YesAnswers
  <2>5. QED BY <1>2, <2>3, <2>4
<1>7. QED BY <1>4, <1>5, <1>6

\* For MIRA an unspent answer stays until a start spends it or a human refuses.
LEMMA CreditKept ==
  ASSUME Ordered(log), NEW e, log' = Append(log, e), Follows(log, e), e.kind # "started",
         NEW t, NEW s, CreditStands(log, t, s), Refusals(log', t) = {}
  PROVE  CreditStands(log', t, s)
<1> DEFINE N == Len(log)
           given(L) == Answers(L, t) \ Refusals(L, t)
           good(L) == {a \in given(L) : L[L[a].of].surface = s}
<1>1. /\ N \in Nat /\ DOMAIN log = 1..N /\ Len(log') = N + 1
      /\ \A i \in 1..N : log'[i] = log[i]
      /\ log'[N + 1] = e
  BY Longer
<1>2. /\ Answers(log, t) = Answers(log', t) \ {N + 1}
      /\ Refusals(log, t) = {}
      /\ Starts(log, t) = Starts(log', t) \ {N + 1}
  <2>1. Refusals(log, t) = Refusals(log', t) \ {N + 1} /\ Answers(log, t) = Answers(log', t) \ {N + 1}
    BY Kept
  <2>2. Starts(log, t) = Starts(log', t) \ {N + 1}  BY CountedKept
  <2>3. QED BY <2>1, <2>2
<1>3. /\ given(log) = Answers(log, t) /\ given(log') = Answers(log', t)
      /\ given(log) = given(log') \ {N + 1}
  BY <1>2
<1>4. \A a \in given(log) : log'[a] = log[a] /\ log'[log[a].of] = log[log[a].of]
  BY <1>1 DEF Answers, Requests, Of
<1>5. good(log) = good(log') \ {N + 1}
  <2>1. \A a \in Answers(log, t) : log'[log'[a].of].surface = log[log[a].of].surface
    BY <1>3, <1>4
  <2>2. /\ good(log) = {a \in Answers(log, t) : log[log[a].of].surface = s}
        /\ good(log') = {a \in Answers(log', t) : log'[log'[a].of].surface = s}
    BY <1>3
  <2> HIDE DEF good, given
  <2>3. QED BY <1>2, <2>1, <2>2
<1>6. N + 1 \notin Starts(log', t)  BY <1>1 DEF Starts, Of
<1>7. Count(N, given(log), good(log), Starts(log, t)).valid # <<>>
  BY DEF CreditStands
<1> HIDE DEF N, given, good
<1>8. Count(N, given(log'), good(log'), Starts(log', t)).valid # <<>>
  <2>1. N + 1 \notin 1..N  BY <1>1
  <2>2. \A i \in 1..N : /\ i \in given(log) <=> i \in given(log')
                        /\ i \in good(log) <=> i \in good(log')
                        /\ i \in Starts(log, t) <=> i \in Starts(log', t)
    BY <1>2, <1>3, <1>5, <2>1
  <2>3. Count(N, given(log), good(log), Starts(log, t))
          = Count(N, given(log'), good(log'), Starts(log', t))
    BY <1>1, <2>2, CountBefore
  <2>4. QED BY <1>7, <2>3
<1>9. Count(N + 1, given(log'), good(log'), Starts(log', t)).valid # <<>>
  <2>1. N + 1 \in Nat /\ N <= N + 1 /\ \A i \in (N + 1)..(N + 1) : i \notin Starts(log', t)
    BY <1>1, <1>6
  <2>2. QED BY <1>1, <1>8, <2>1, StaysSpendable
<1>10. QED BY <1>1, <1>9 DEF CreditStands, given, good

\* A call that may pay may still pay.
LEMMA PaysStays ==
  ASSUME LogInv, JobInv, NEW c \in Caller, job'[c] = job[c], Pays(c),
         log' = log \/ \E e : log' = Append(log, e) /\ Follows(log, e) /\ e.kind # "started"
  PROVE  Pays(c)'
<1>1. CASE log' = log
  BY <1>1 DEF Pays, PaidStarts, YesAnswers, CreditStands
<1>2. CASE \E e : log' = Append(log, e) /\ Follows(log, e) /\ e.kind # "started"
  <2>1. PICK e : log' = Append(log, e) /\ Follows(log, e) /\ e.kind # "started"  BY <1>2
  <2>2. PICK t, d, seen, depth : t = job[c].ticket /\ d = job[c].paid /\ seen = job[c].seen
                                 /\ depth = Depth[c]
    OBVIOUS
  <2> DEFINE N == Len(log)
  <2>3. Ordered(log)  BY DEF LogInv
  <2>4. /\ N \in Nat /\ DOMAIN log = 1..N /\ DOMAIN log' = 1..(N + 1)
        /\ \A i \in 1..N : log'[i] = log[i]
        /\ log'[N + 1] = e
    BY <2>1, <2>3, Longer
  <2>5. /\ job[c].of = d /\ d \in Requests(log, t) /\ log[d].depth = depth
        /\ \A j \in Closers(log, d) : j > seen
        /\ Cardinality(PaidStarts(t, depth)) < Cardinality(YesAnswers(t, depth))
        /\ \/ Refusals(log, t) # {}
           \/ \E j \in Starts(log, t) : log[j].depth # depth
           \/ CreditStands(log, t, log[d].surface)
    BY <2>2 DEF Pays
  <2>6. /\ Starts(log, t) = Starts(log', t) \ {N + 1}
        /\ PaidStarts(t, depth) = PaidStarts(t, depth)' \ {N + 1}
        /\ YesAnswers(t, depth) = YesAnswers(t, depth)' \ {N + 1}
        /\ Requests(log, t) = Requests(log', t) \ {N + 1}
        /\ Refusals(log, t) = Refusals(log', t) \ {N + 1}
        /\ Ordered(log')
    BY <2>1, <2>3, Kept, CountedKept
  <2>7. d \in 1..N /\ log'[d] = log[d] /\ d \in Requests(log', t)
    BY <2>4, <2>5, <2>6 DEF Requests, Of
  <2>8. \A j \in Closers(log', d) : j > seen
    <3>1. seen \in 0..N  BY <2>2 DEF JobInv
    <3>2. ASSUME NEW j \in Closers(log', d), j # N + 1 PROVE j \in Closers(log, d)
      BY <2>4, <3>2 DEF Closers
    <3>3. QED BY <2>4, <2>5, <3>1, <3>2
  <2>9. Cardinality(PaidStarts(t, depth)') < Cardinality(YesAnswers(t, depth)')
    <3>1. N + 1 \notin PaidStarts(t, depth)'
      BY <2>1, <2>4 DEF PaidStarts, Starts, Of
    <3>2. PaidStarts(t, depth)' = PaidStarts(t, depth)  BY <2>6, <3>1
    <3>3. YesAnswers(t, depth)' \subseteq 1..(N + 1) /\ IsFiniteSet(1..(N + 1))
      BY <2>4, FS_Interval DEF YesAnswers, Answers, Of
    <3>4. IsFiniteSet(YesAnswers(t, depth)')  BY <3>3, FS_Subset
    <3>5. YesAnswers(t, depth) \subseteq YesAnswers(t, depth)'  BY <2>6
    <3>6. /\ Cardinality(YesAnswers(t, depth)) <= Cardinality(YesAnswers(t, depth)')
          /\ IsFiniteSet(YesAnswers(t, depth))
      BY <3>4, <3>5, FS_Subset
    <3>7. /\ Cardinality(YesAnswers(t, depth)) \in Nat /\ Cardinality(YesAnswers(t, depth)') \in Nat
      BY <3>4, <3>6, FS_CardinalityType
    <3>8. Cardinality(PaidStarts(t, depth)) \in Nat
      BY <2>3, Places, UpAll
    <3>9. QED BY <2>5, <3>2, <3>6, <3>7, <3>8
  <2>10. \/ Refusals(log', t) # {}
         \/ \E j \in Starts(log', t) : log'[j].depth # depth
         \/ CreditStands(log', t, log'[d].surface)
    <3>1. CASE Refusals(log, t) # {}  BY <2>6, <3>1
    <3>2. CASE \E j \in Starts(log, t) : log[j].depth # depth
      <4>1. \A j \in Starts(log, t) : log'[j] = log[j]  BY <2>4 DEF Starts, Of
      <4>2. QED BY <2>6, <3>2, <4>1
    <3>3. CASE CreditStands(log, t, log[d].surface)
      <4>1. PICK s : s = log[d].surface  OBVIOUS
      <4>2. CreditStands(log, t, s)  BY <3>3, <4>1
      <4>3. Refusals(log', t) # {} \/ CreditStands(log', t, s)
        BY <2>1, <2>3, <4>2, CreditKept
      <4>4. QED BY <2>7, <4>1, <4>3
    <3>4. QED BY <2>5, <3>1, <3>2, <3>3
  <2>11. /\ job'[c].ticket = t /\ job'[c].paid = d /\ job'[c].of = d /\ job'[c].seen = seen
         /\ Depth[c] = depth
    BY <2>2, <2>5
  <2>12. QED BY <2>5, <2>7, <2>8, <2>9, <2>10, <2>11 DEF Pays
<1>3. QED BY <1>1, <1>2

\* A call that the engine let pass still may.
LEMMA PassesStays ==
  ASSUME LogInv, NEW c \in Caller, job'[c] = job[c], Passes(c),
         log' = log \/ \E e : log' = Append(log, e) /\ e.kind # "started"
  PROVE  Passes(c)'
<1>1. CASE log' = log  BY <1>1 DEF Passes
<1>2. CASE \E e : log' = Append(log, e) /\ e.kind # "started"
  <2>1. PICK e : log' = Append(log, e) /\ e.kind # "started"  BY <1>2
  <2>2. /\ Len(log) \in Nat /\ DOMAIN log = 1..Len(log) /\ DOMAIN log' = 1..(Len(log) + 1)
        /\ \A i \in 1..Len(log) : log'[i] = log[i]
        /\ log'[Len(log) + 1] = e
    BY <2>1, Longer DEF LogInv
  <2>3. ASSUME NEW j \in Of(log', "started") PROVE j \in Of(log, "started") /\ log'[j] = log[j]
    <3>1. j \in 1..(Len(log) + 1) /\ log'[j].kind = "started"  BY <2>2, <2>3 DEF Of
    <3>2. j # Len(log) + 1  BY <2>1, <2>2, <3>1
    <3>3. j \in 1..Len(log)  BY <2>2, <3>1, <3>2
    <3>4. QED BY <2>2, <3>1, <3>3 DEF Of
  <2>4. \A j \in Of(log, "decision") : j \in Of(log', "decision") /\ log'[j] = log[j]
    BY <2>2 DEF Of
  <2>5. QED BY <2>3, <2>4 DEF Passes
<1>3. QED BY <1>1, <1>2

----------------------------------------------------------------------------
(* The steps, where passes do not overlap. *)

\* Only one caller at a time works on the Run.
Alone == \A c, d \in Busy : c = d

\* A call begins when nobody is at work.
LEMMA AloneStep ==
  ASSUME ~Overlap, LogInv, JobInv, Alone, [Next]_vars
  PROVE  Alone'
<1>1. CASE Busy' \subseteq Busy  BY <1>1 DEF Alone
<1>2. ASSUME NEW c \in Caller, Busy = {}, \A d \in Caller \ {c} : job'[d] = job[d] PROVE Alone'
  <2>1. Busy' \subseteq {c}
    <3>1. ASSUME NEW d \in Busy', d # c PROVE FALSE
      <4>1. d \in Caller /\ job'[d].at # "idle" /\ job'[d] = job[d]  BY <1>2, <3>1 DEF Busy, At
      <4>2. QED BY <1>2, <4>1 DEF Busy, At
    <3>2. QED BY <3>1
  <2>2. QED BY <2>1 DEF Alone
<1>3. UNCHANGED job => Busy' \subseteq Busy  BY DEF Busy, At
<1>4. ASSUME NEW c \in Caller, job[c].at # "idle", NEW j, Do(c, j) PROVE Busy' \subseteq Busy
  <2>1. \A d \in Caller \ {c} : job'[d] = job[d]  BY <1>4 DEF Do, JobInv
  <2>2. QED BY <1>4, <2>1 DEF Busy, At
<1>5. CASE UNCHANGED vars  BY <1>1, <1>3, <1>5 DEF vars
<1>6. CASE Next
  <2>1. ASSUME NEW c \in Caller, NEW t \in Ticket, Begin(c, t) PROVE Alone'
    <3>1. Busy = {}  BY <2>1 DEF Begin
    <3>2. \E j : Do(c, j)  BY <2>1, Zenon DEF Begin
    <3>3. \A d \in Caller \ {c} : job'[d] = job[d]  BY <3>2 DEF Do, JobInv
    <3>4. QED BY <1>2, <3>1, <3>3
  <2>2. ASSUME NEW c \in Caller, CallStep(c) PROVE Alone'
    <3>1. job[c].at # "idle"
      BY <2>2 DEF CallStep, FreshDecision, Reread, Deny, OverBudget, Unavailable, Start, Close,
                  StartFails, CloseFails, RecordFailedCall, At
    <3>2. \E j : Do(c, j)
      <4>1. CASE Reread(c)  BY <4>1, Zenon DEF Reread
      <4>2. CASE FreshDecision(c)  BY <4>2, Zenon DEF FreshDecision
      <4>3. CASE Deny(c) \/ OverBudget(c) \/ Unavailable(c) \/ Start(c) \/ Close(c)
                 \/ StartFails(c) \/ CloseFails(c) \/ RecordFailedCall(c)
        BY <4>3, Zenon DEF Deny, OverBudget, Unavailable, Start, Close, StartFails, CloseFails,
                           Broken, RecordFailedCall, Go, Done
      <4>4. QED BY <2>2, <4>1, <4>2, <4>3 DEF CallStep
    <3>3. QED BY <1>1, <1>4, <3>1, <3>2
  <2>3. CASE Die
    <3>1. Busy' = {}  BY <2>3, FreeFields DEF Die, Busy, At
    <3>2. QED BY <1>1, <3>1
  <2>4. CASE \/ \E c \in Caller : Invalid(c)
             \/ \E d \in Pending, yes \in BOOLEAN : Human(d, yes)
             \/ \E kind \in {"released", "ended"} : Core(kind)
             \/ \E s \in Surface : Move(s)
             \/ Tick
    BY <1>1, <1>3, <2>4 DEF Invalid, Human, Core, Move, Tick
  <2>5. QED BY <1>6, <2>1, <2>2, <2>3, <2>4 DEF Next
<1>7. QED BY <1>5, <1>6

\* Only the caller that is ready to start writes that its call started.
LEMMA StartsAlone ==
  ASSUME Alone, NEW e, Written(e), e.kind = "started"
  PROVE  \E c \in Caller : /\ job[c].at = "ready" /\ e = Started(c)
                           /\ \A d \in Caller \ {c} : job[d].at = "idle"
<1>1. PICK c \in Caller : job[c].at = "ready" /\ e = Started(c)  BY DEF Written
<1>2. \A d \in Caller \ {c} : job[d].at = "idle"  BY <1>1 DEF Alone, Busy, At
<1>3. QED BY <1>1, <1>2

\* Times, and decisions that come before what they decide.
LEMMA TypedStep ==
  ASSUME LogInv, JobInv, Typed, \A c \in Caller : MayStart(c), [Next]_vars
  PROVE  Typed'
<1>1. now' \in Nat
  <2>1. now' = now \/ now' = now + 1
    BY DEF Next, CallStep, Begin, Invalid, FreshDecision, Reread, Deny, OverBudget, Unavailable,
           Start, Close, StartFails, CloseFails, RecordFailedCall, Broken, Human, Core, Die, Move,
           Tick, outside, Stop, vars
  <2>2. QED BY <2>1 DEF Typed
<1>2. CASE log' = log  BY <1>1, <1>2 DEF Typed
<1>3. CASE \E e : log' = Append(log, e) /\ Written(e)
  <2>1. PICK e : log' = Append(log, e) /\ Written(e)  BY <1>3
  <2> DEFINE N == Len(log)
  <2>2. /\ N \in Nat /\ DOMAIN log = 1..N /\ DOMAIN log' = 1..(N + 1)
        /\ \A i \in 1..N : log'[i] = log[i]
        /\ log'[N + 1] = e
    BY <2>1, Longer DEF LogInv
  <2> HIDE DEF N
  <2>3. ASSUME NEW d \in Of(log, "decision")' PROVE log'[d].expires \in Nat
    <3>1. CASE d = N + 1
      <4>1. PICK c \in Caller :
               /\ job[c].at = "ask"
               /\ e = DecisionEvent(job[c].call, job[c].ticket, Depth[c], Verdict[surface], surface,
                                    job[c].expires)
        BY <2>1, <2>2, <2>3, <3>1 DEF Of, Written
      <4>2. e.expires = job[c].expires  BY <4>1 DEF DecisionEvent
      <4>3. QED BY <2>2, <3>1, <4>1, <4>2 DEF MayStart
    <3>2. CASE d # N + 1  BY <2>2, <2>3, <3>2 DEF Of, Typed
    <3>3. QED BY <3>1, <3>2
  <2>4. ASSUME NEW i \in Of(log, "started")' PROVE log'[i].of \in 1..(i - 1)
    <3>1. CASE i = N + 1
      <4>1. PICK c \in Caller : job[c].at = "ready" /\ e = Started(c)
        BY <2>1, <2>2, <2>4, <3>1 DEF Of, Written
      <4>2. e.of = job[c].of  BY <4>1 DEF Started, StartEvent
      <4>3. job[c].of \in DOMAIN log
        <5>1. Passes(c) \/ Pays(c)  BY <4>1 DEF MayStart
        <5>2. Passes(c) => job[c].of \in DOMAIN log  BY DEF Passes, Of
        <5>3. Pays(c) => job[c].of \in DOMAIN log  BY DEF Pays, Requests, Of
        <5>4. QED BY <5>1, <5>2, <5>3
      <4>4. QED BY <2>2, <3>1, <4>2, <4>3
    <3>2. CASE i # N + 1  BY <2>2, <2>4, <3>2 DEF Of, Typed
    <3>3. QED BY <3>1, <3>2
  <2>5. QED BY <1>1, <2>3, <2>4 DEF Typed
<1>4. log' = log \/ \E e : log' = Append(log, e) /\ Written(e)  BY Effects DEF vars
<1>5. QED BY <1>2, <1>3, <1>4

\* A start that an answer pays for is counted against it.
LEMMA PrefixStep ==
  ASSUME LogInv, JobInv, EveryPrefix, \A c \in Caller : MayStart(c), [Next]_vars
  PROVE  EveryPrefix'
<1>1. CASE log' = log  BY <1>1 DEF EveryPrefix, PaidStarts, YesAnswers
<1>2. CASE \E e : log' = Append(log, e) /\ Written(e)
  <2>1. PICK e : log' = Append(log, e) /\ Written(e)  BY <1>2
  <2> DEFINE N == Len(log)
  <2>2. /\ N \in Nat /\ DOMAIN log = 1..N /\ DOMAIN log' = 1..(N + 1) /\ Len(log') = N + 1
        /\ \A i \in 1..N : log'[i] = log[i]
        /\ log'[N + 1] = e
    BY <2>1, Longer DEF LogInv
  <2>3. ASSUME NEW t \in Ticket, NEW c \in Caller, NEW n \in 0..(N + 1)
        PROVE  Up(PaidStarts(t, Depth[c])', n) <= Up(YesAnswers(t, Depth[c])', n)
    <3> DEFINE paid == PaidStarts(t, Depth[c])
               given == YesAnswers(t, Depth[c])
    <3>1. PICK paid1, given1 :
             paid1 = PaidStarts(t, Depth[c])' /\ given1 = YesAnswers(t, Depth[c])'
      OBVIOUS
    <3>2. paid = paid1 \ {N + 1} /\ given = given1 \ {N + 1}
      BY <2>1, <3>1, CountedKept DEF LogInv, Written
    <3>3. ASSUME NEW k \in 0..N
          PROVE  Up(paid1, k) = Up(paid, k) /\ Up(given1, k) = Up(given, k)
      <4>1. N + 1 \notin 1..k  BY <2>2
      <4>2. paid1 \cap 1..k = paid \cap 1..k /\ given1 \cap 1..k = given \cap 1..k
        BY <3>2, <4>1
      <4>3. QED BY <4>2 DEF Up
    <3>4. \A k \in 0..N : Up(paid, k) <= Up(given, k)  BY DEF EveryPrefix, Up
    <3>5. CASE n # N + 1
      <4>1. n \in 0..N  BY <2>2, <2>3, <3>5
      <4>2. QED BY <3>1, <3>3, <3>4, <4>1
    <3>6. CASE n = N + 1
      <4>1. N \in 0..N  BY <2>2
      <4>2. /\ Up(paid1, N) = Up(paid, N) /\ Up(given1, N) = Up(given, N)
            /\ Up(paid, N) <= Up(given, N)
        BY <3>3, <3>4, <4>1
      <4>3. /\ Up(paid1, N) \in Nat /\ Up(given1, N) \in Nat
            /\ Up(paid1, N + 1) = IF N + 1 \in paid1 THEN Up(paid1, N) + 1 ELSE Up(paid1, N)
            /\ Up(given1, N + 1) = IF N + 1 \in given1 THEN Up(given1, N) + 1 ELSE Up(given1, N)
        BY <2>2, UpNext
      <4>4. N + 1 \in paid1 => Up(paid, N) < Up(given, N)
        <5>1. SUFFICES ASSUME N + 1 \in paid1 PROVE Up(paid, N) < Up(given, N)  OBVIOUS
        <5>2. /\ e.kind = "started" /\ e.ticket = t /\ e.paid # 0 /\ e.depth = Depth[c]
          BY <2>2, <3>1, <5>1 DEF PaidStarts, Starts, Of
        <5>3. PICK b \in Caller : job[b].at = "ready" /\ e = Started(b)
          BY <2>1, <5>2 DEF Written
        <5>4. job[b].ticket = t /\ job[b].paid # 0 /\ Depth[b] = Depth[c]
          BY <5>2, <5>3 DEF Started, StartEvent
        <5>5. Cardinality(paid) < Cardinality(given)
          BY <5>3, <5>4 DEF MayStart, Pays
        <5>6. Cardinality(paid) = Up(paid, N) /\ Cardinality(given) = Up(given, N)
          BY UpAll DEF LogInv, PaidStarts, Starts, YesAnswers, Answers, Of
        <5>7. QED BY <5>5, <5>6
      <4> HIDE DEF paid, given
      <4>5. QED BY <3>1, <3>6, <4>2, <4>3, <4>4
    <3>7. QED BY <3>5, <3>6
  <2>4. QED BY <2>2, <2>3 DEF EveryPrefix, Up
<1>3. log' = log \/ \E e : log' = Append(log, e) /\ Written(e)  BY Effects DEF vars
<1>4. QED BY <1>1, <1>2, <1>3

\* MIRA accepts the start of a call that the manager lets start.
LEMMA AuditStep ==
  ASSUME LogInv, JobInv, Knowledge, Typed, StartsPassTheAuditPerDepth,
         \A c \in Caller : MayStart(c), [Next]_vars
  PROVE  StartsPassTheAuditPerDepth'
<1>1. CASE log' = log
  BY <1>1 DEF StartsPassTheAuditPerDepth, Newest, Overtaken, AnotherDepthRan
<1>2. CASE \E e : log' = Append(log, e) /\ Written(e)
  <2>1. PICK e : log' = Append(log, e) /\ Written(e)  BY <1>2
  <2>0. PICK N, n : N = Len(log) /\ n = N + 1  OBVIOUS
  <2>2. /\ N \in Nat /\ n = N + 1 /\ DOMAIN log = 1..N /\ DOMAIN log' = 1..n /\ Len(log') = n
        /\ \A i \in 1..N : log'[i] = log[i]
        /\ log'[n] = e /\ SubSeq(log', 1, N) = log
    BY <2>0, <2>1, Longer DEF LogInv
  <2>3. SUFFICES ASSUME e.kind = "started"
                 PROVE  Authorised(log', n) \/ Overtaken(n)' \/ AnotherDepthRan(n)'
    BY <2>2 DEF StartsPassTheAuditPerDepth, Newest, Of
  <2>4. PICK c \in Caller : job[c].at = "ready" /\ e = Started(c)  BY <2>1, <2>3 DEF Written
  <2>5. PICK t, d, seen, depth : /\ t = job[c].ticket /\ d = job[c].of /\ seen = job[c].seen
                                 /\ depth = Depth[c]
    OBVIOUS
  <2>6. /\ e.call = job[c].call /\ e.ticket = t /\ e.depth = depth /\ e.of = d
        /\ e.paid = job[c].paid /\ e.at = now /\ e.seen = seen
    BY <2>4, <2>5 DEF Started, StartEvent
  <2>7. Before(log', n) = log
    <3>1. n - 1 = N  BY <2>2
    <3>2. QED BY <2>2, <3>1 DEF Before
  <2>8. seen \in 0..N  BY <2>0, <2>5 DEF JobInv
  <2>9. ASSUME NEW j \in DOMAIN log, j > seen,
               log[j].kind \in {"released", "ended"} \/ j \in Refusals(log, t)
        PROVE  Overtaken(n)'
    <3>1. j \in (seen + 1)..(n - 1) /\ log'[j] = log[j]  BY <2>2, <2>8, <2>9
    <3>2. j \in Refusals(log, t) => j \in Refusals(log', t)
      BY <2>1, Kept DEF LogInv, Written
    <3>3. QED BY <2>2, <2>6, <2>9, <3>1, <3>2 DEF Overtaken
  <2>10. CASE Passes(c)
    <3>1. /\ d \in DOMAIN log /\ log[d].verdict = "pass" /\ log[d].call = e.call
          /\ ~\E j \in Of(log, "started") : log[j].of = d
      BY <2>5, <2>6, <2>10 DEF Passes, Of
    <3>2. log'[d] = log[d]  BY <2>2, <3>1
    <3>3. Authorised(log', n)  BY <2>2, <2>6, <2>7, <3>1, <3>2 DEF Authorised
    <3>4. QED BY <3>3
  <2>11. CASE Pays(c)
    <3>1. /\ job[c].paid = d /\ d \in Requests(log, t) /\ log[d].depth = depth
          /\ \A j \in Closers(log, d) : j > seen
          /\ \/ Refusals(log, t) # {}
             \/ \E j \in Starts(log, t) : log[j].depth # depth
             \/ CreditStands(log, t, log[d].surface)
      BY <2>5, <2>11 DEF Pays
    <3>2. /\ d \in DOMAIN log /\ log[d].verdict = "review" /\ log[d].ticket = t
          /\ d \in Of(log, "decision")
      BY <3>1 DEF Requests, Of
    <3>3. log'[d] = log[d] /\ log[d].expires \in Nat /\ now \in Nat
      BY <2>2, <3>2 DEF Typed
    <3>4. CASE Closers(log, d) # {}
      <4>1. PICK j \in DOMAIN log : j \in Closers(log, d)  BY <3>4 DEF Closers
      <4>2. QED BY <2>9, <3>1, <4>1 DEF Closers
    <3>5. CASE Refusals(log, t) # {}
      <4>1. PICK j \in DOMAIN log : j \in Refusals(log, t)  BY <3>5 DEF Refusals, Answers, Of
      <4>2. NotRefused(c)  BY <2>4 DEF Knowledge, Knows
      <4>3. j > seen  BY <2>5, <4>1, <4>2 DEF NotRefused
      <4>4. QED BY <2>9, <4>1, <4>3
    <3>6. CASE now > log[d].expires
      <4>1. Overtaken(n)'  BY <2>2, <2>6, <3>3, <3>6 DEF Overtaken
      <4>2. QED BY <4>1
    <3>7. CASE \E j \in Starts(log, t) : log[j].depth # depth
      <4>1. PICK j \in Starts(log, t) : log[j].depth # depth  BY <3>7
      <4>2. j \in Starts(log', t) /\ log'[j] = log[j]  BY <2>2, <4>1 DEF Starts, Of
      <4>3. AnotherDepthRan(n)'  BY <2>2, <2>6, <4>1, <4>2 DEF AnotherDepthRan
      <4>4. QED BY <4>3
    <3>8. CASE /\ Closers(log, d) = {} /\ Refusals(log, t) = {} /\ ~(now > log[d].expires)
               /\ CreditStands(log, t, log[d].surface)
      <4>1. ~\E j \in Of(log, "released") \cup Of(log, "ended") : d < j
        BY <2>2, <3>2, <3>8 DEF Closers, Of
      <4>2. ScopeOpen(log, d, e)
        <5>1. e.at <= log[d].expires  BY <2>6, <3>3, <3>8
        <5>2. QED BY <2>6, <3>1, <4>1, <5>1 DEF ScopeOpen
      <4>3. SpendsATicket(log, d, e)
        BY <2>6, <3>2, <3>8, <4>2 DEF SpendsATicket
      <4>4. Authorised(log', n)  BY <2>2, <2>6, <2>7, <4>3 DEF Authorised
      <4>5. QED BY <4>4
    <3>9. QED BY <3>1, <3>4, <3>5, <3>6, <3>7, <3>8
  <2>12. Passes(c) \/ Pays(c)  BY <2>4 DEF MayStart
  <2>13. QED BY <2>10, <2>11, <2>12
<1>3. log' = log \/ \E e : log' = Append(log, e) /\ Written(e)  BY Effects DEF vars
<1>4. QED BY <1>1, <1>2, <1>3

\* For a caller that does not move.
LEMMA MayStays ==
  ASSUME LogInv, JobInv, NEW c \in Caller, MayStart(c), job'[c] = job[c],
         log' = log \/ \E e : log' = Append(log, e) /\ Follows(log, e) /\ e.kind # "started"
  PROVE  MayStart(c)'
<1>1. Passes(c) => Passes(c)'  BY PassesStays
<1>2. Pays(c) => Pays(c)'  BY PaysStays
<1>3. QED BY <1>1, <1>2 DEF MayStart

\* A caller elsewhere.
LEMMA MayRest ==
  ASSUME NEW c \in Caller, job'[c].at \notin {"ask", "reread", "ready"}
  PROVE  MayStart(c)'
BY DEF MayStart

\* An approval that the log honours when it is read lets the call start.
LEMMA ReadyOnCredit ==
  ASSUME LogInv, EveryPrefix, NEW c \in Caller, NEW t \in Ticket, log' = log,
         Ask(c, t).outcome = "allowed",
         job'[c].at = "ready", job'[c].ticket = t,
         job'[c].of = Ask(c, t).of, job'[c].paid = Ask(c, t).of
  PROVE  MayStart(c)'
<1>1. PICK d, s, depth : d = Ask(c, t).of /\ s = surface /\ depth = Depth[c]  OBVIOUS
<1>2. Ordered(log)  BY DEF LogInv
<1>3. /\ d \in Requests(log, t) /\ log[d].depth = depth /\ log[d].surface = s
      /\ Closers(log, d) = {}
  BY <1>1, <1>2, Honoured
<1>4. /\ Cardinality(PaidStarts(t, depth)) < Cardinality(YesAnswers(t, depth))
      /\ \/ \E j \in Starts(log, t) : log[j].depth # depth
         \/ CreditStands(log, t, s)
  BY <1>1, <1>2, Unspent
<1>5. d # 0  BY <1>2, <1>3, Longer DEF Requests, Of
<1>6. /\ PaidStarts(t, depth)' = PaidStarts(t, depth) /\ YesAnswers(t, depth)' = YesAnswers(t, depth)
  BY DEF PaidStarts, YesAnswers
<1>7. Pays(c)'  BY <1>1, <1>3, <1>4, <1>6 DEF Pays
<1>8. QED BY <1>1, <1>5, <1>7 DEF MayStart

\* The steps to a place from which a call may start, and those that end there.
LEMMA MayStep ==
  ASSUME LogInv, JobInv, Typed, EveryPrefix, Alone, \A c \in Caller : MayStart(c), [Next]_vars
  PROVE  \A c \in Caller : MayStart(c)'
<1> USE DEF Record
<1> DEFINE Quiet == log' = log \/ \E e : log' = Append(log, e) /\ Follows(log, e) /\ e.kind # "started"
<1>1. ASSUME UNCHANGED job, Quiet PROVE \A c \in Caller : MayStart(c)'
  BY <1>1, MayStays
<1>2. ASSUME NEW c \in Caller, NEW j, Do(c, j), Quiet, MayStart(c)'
      PROVE  \A b \in Caller : MayStart(b)'
  <2>1. \A b \in Caller \ {c} : job'[b] = job[b]  BY <1>2 DEF Do, JobInv
  <2>2. QED BY <1>2, <2>1, MayStays
<1>3. ASSUME NEW c \in Caller, Done(c)
      PROVE  job'[c].at = "idle" /\ \A b \in Caller \ {c} : job'[b] = job[b]
  BY <1>3, FreeFields DEF Done, Do, JobInv
<1>4. ASSUME NEW c \in Caller, NEW place, Go(c, place)
      PROVE  job'[c].at = place /\ \A b \in Caller \ {c} : job'[b] = job[b]
  BY <1>4 DEF Go, Do, JobInv, Fields
<1>5. ASSUME NEW c \in Caller, job[c].at # "idle", Go(c, "run") \/ Go(c, "again") \/ Done(c)
      PROVE  \A b \in Caller : MayStart(b)'
  <2>1. job'[c].at \in {"idle", "run", "again"} /\ \A b \in Caller \ {c} : job'[b] = job[b]
    BY <1>3, <1>4, <1>5
  <2>2. \A b \in Caller \ {c} : job[b].at = "idle"  BY <1>5 DEF Alone, Busy, At
  <2>3. \A b \in Caller : job'[b].at \in {"idle", "run", "again"}
    BY <2>1, <2>2
  <2>4. QED BY <2>3, MayRest
<1>6. CASE UNCHANGED vars  BY <1>1, <1>6 DEF vars
<1>7. ASSUME NEW c \in Caller, NEW t \in Ticket, Begin(c, t)
      PROVE  \A b \in Caller : MayStart(b)'
  <2> DEFINE disp == Ask(c, t)
             new == [Free EXCEPT !.call = calls + 1, !.ticket = t, !.expires = now + TTL,
                                 !.seen = Len(log), !.outcome = disp.outcome]
             j1 == [new EXCEPT !.at = "settle", !.of = disp.of]
             j2 == [new EXCEPT !.at = "ready", !.of = disp.of, !.paid = disp.of]
             j3 == [new EXCEPT !.at = "ask"]
  <2>1. Do(c, j1) \/ (Do(c, j2) /\ disp.outcome = "allowed") \/ Do(c, j3)
    BY <1>7, Zenon DEF Begin
  <2>2. log' = log  BY <1>7 DEF Begin
  <2>3. DOMAIN job = Caller  BY DEF JobInv
  <2> HIDE DEF disp
  <2>4. DOMAIN new = Fields /\ new.ticket = t /\ new.expires = now + TTL /\ new.paid = 0
    BY DEF Free, Fields
  <2> HIDE DEF new
  <2>5. ASSUME Do(c, j1) PROVE MayStart(c)'
    <3>1. job'[c].at = "settle"  BY <2>3, <2>4, <2>5 DEF Do, Fields
    <3>2. QED BY <3>1, MayRest
  <2>6. ASSUME Do(c, j2), disp.outcome = "allowed" PROVE MayStart(c)'
    <3>1. job'[c] = j2  BY <2>3, <2>6 DEF Do
    <3>2. /\ job'[c].at = "ready" /\ job'[c].ticket = t
          /\ job'[c].of = disp.of /\ job'[c].paid = disp.of
      BY <2>4, <3>1 DEF Fields
    <3>3. QED BY <2>2, <2>6, <3>2, ReadyOnCredit DEF disp
  <2>7. ASSUME Do(c, j3) PROVE MayStart(c)'
    <3>1. job'[c] = j3  BY <2>3, <2>7 DEF Do
    <3>2. job'[c].at = "ask" /\ job'[c].paid = 0 /\ job'[c].expires = now + TTL
      BY <2>4, <3>1 DEF Fields
    <3>3. now + TTL \in Nat  BY ToolAssumption DEF Typed
    <3>4. QED BY <3>2, <3>3 DEF MayStart
  <2>8. (\E j : Do(c, j)) /\ MayStart(c)'  BY <2>1, <2>5, <2>6, <2>7
  <2>9. QED BY <1>2, <2>2, <2>8
<1>8. ASSUME NEW c \in Caller, FreshDecision(c) PROVE \A b \in Caller : MayStart(b)'
  <2> DEFINE N == Len(log)
             e == DecisionEvent(job[c].call, job[c].ticket, Depth[c], Verdict[surface], surface,
                                job[c].expires)
             place == CASE Verdict[surface] = "pass"   -> "ready"
                        [] Verdict[surface] = "review" -> "reread"
                        [] OTHER -> "deny"
             j == [job[c] EXCEPT !.of = N + 1, !.at = place]
  <2>1. log' = Append(log, e) /\ Do(c, j) /\ job[c].at = "ask"  BY <1>8 DEF FreshDecision, At
  <2>2. place \in {"ready", "reread", "deny"} /\ (place = "ready" => Verdict[surface] = "pass")
    OBVIOUS
  <2>3. e.kind = "decision" /\ e.verdict = Verdict[surface] /\ e.call = job[c].call
    BY DEF DecisionEvent
  <2>4. job[c].paid = 0  BY <2>1 DEF MayStart
  <2> HIDE DEF e, place
  <2>5. job'[c] = j  BY <2>1 DEF Do, JobInv
  <2>6. /\ job'[c].at = place /\ job'[c].of = N + 1 /\ job'[c].paid = 0
        /\ job'[c].call = job[c].call
    BY <2>4, <2>5 DEF JobInv, Fields
  <2>7. /\ N \in Nat /\ DOMAIN log = 1..N /\ DOMAIN log' = 1..(N + 1)
        /\ \A i \in 1..N : log'[i] = log[i]
        /\ log'[N + 1] = e
    BY <2>1, Longer DEF LogInv
  <2> HIDE DEF N, j
  <2>8. CASE place = "ready"
    <3>1. /\ N + 1 \in Of(log', "decision") /\ log'[N + 1].verdict = "pass"
          /\ log'[N + 1].call = job'[c].call
      BY <2>2, <2>3, <2>6, <2>7, <2>8 DEF Of
    <3>2. ASSUME NEW i \in Of(log', "started") PROVE log'[i].of # N + 1
      <4>1. i \in 1..N /\ log'[i] = log[i] /\ i \in Of(log, "started")
        BY <2>3, <2>7, <3>2 DEF Of
      <4>2. log[i].of \in 1..(i - 1)  BY <4>1 DEF Typed
      <4>3. QED BY <2>7, <4>1, <4>2
    <3>3. Passes(c)'  BY <2>6, <3>1, <3>2 DEF Passes
    <3>4. MayStart(c)'  BY <2>6, <2>8, <3>3 DEF MayStart
    <3>5. QED BY <1>2, <2>1, <2>3, <3>4 DEF Follows
  <2>9. CASE place # "ready"
    <3>1. MayStart(c)'  BY <2>2, <2>6, <2>9 DEF MayStart
    <3>2. QED BY <1>2, <2>1, <2>3, <3>1 DEF Follows
  <2>10. QED BY <2>8, <2>9
<1>9. ASSUME NEW c \in Caller, Reread(c) PROVE \A b \in Caller : MayStart(b)'
  <2> DEFINE disp == Ask(c, job[c].ticket)
             own == disp.outcome = "allowed" /\ disp.of = job[c].of
             outcome == IF Settles(disp) \/ disp.closure # "open" THEN disp.outcome ELSE "pending"
             of == IF disp.closure = "ended" THEN 0 ELSE job[c].of
             paid == IF own THEN job[c].of ELSE 0
             place == IF Settles(disp) THEN "settle" ELSE IF own THEN "ready" ELSE "deny"
             j == [job[c] EXCEPT !.seen = Len(log), !.outcome = outcome, !.of = of,
                                 !.paid = paid, !.at = place]
  <2>1. Do(c, j) /\ job[c].at = "reread"  BY <1>9, Zenon DEF Reread, At
  <2>2. log' = log  BY <1>9 DEF Reread
  <2>3. place \in {"settle", "ready", "deny"} /\ (place = "ready" => own)  OBVIOUS
  <2>4. job'[c] = j  BY <2>1 DEF Do, JobInv
  <2> HIDE DEF place, of, paid, outcome
  <2>5. /\ job'[c].at = place /\ job'[c].ticket = job[c].ticket
        /\ job'[c].of = of /\ job'[c].paid = paid
    BY <2>4 DEF JobInv, Fields
  <2>6. PICK t \in Ticket : t = job[c].ticket  BY <2>1 DEF JobInv
  <2>7. CASE place = "ready"
    <3>1. disp.outcome = "allowed" /\ disp.of = job[c].of  BY <2>3, <2>7
    <3>2. disp.closure = "open"  BY <2>6, <3>1, Honoured DEF LogInv
    <3>3. of = disp.of /\ paid = disp.of  BY <3>1, <3>2 DEF of, paid
    <3>4. disp = Ask(c, t)  BY <2>6
    <3> HIDE DEF disp, j
    <3>5. /\ Ask(c, t).outcome = "allowed" /\ job'[c].at = "ready" /\ job'[c].ticket = t
          /\ job'[c].of = Ask(c, t).of /\ job'[c].paid = Ask(c, t).of
      BY <2>5, <2>6, <2>7, <3>1, <3>3, <3>4
    <3>6. MayStart(c)'  BY <2>2, <3>5, ReadyOnCredit
    <3>7. QED BY <1>2, <2>1, <2>2, <3>6
  <2>8. CASE place # "ready"
    <3>1. MayStart(c)'  BY <2>3, <2>5, <2>8, MayRest
    <3> HIDE DEF j
    <3>2. QED BY <1>2, <2>1, <2>2, <3>1
  <2>9. QED BY <2>7, <2>8
<1>10. ASSUME NEW c \in Caller, CallStep(c) PROVE \A b \in Caller : MayStart(b)'
  <2>1. CASE Deny(c) \/ OverBudget(c) \/ Unavailable(c) \/ Close(c) \/ RecordFailedCall(c)
             \/ CloseFails(c) \/ Start(c) \/ StartFails(c)
    <3>1. job[c].at # "idle"
      BY <2>1 DEF Deny, OverBudget, Unavailable, Start, Close, StartFails, CloseFails,
                  RecordFailedCall, At
    <3>2. Go(c, "run") \/ Go(c, "again") \/ Done(c)
      BY <2>1, Zenon DEF Deny, OverBudget, Unavailable, Start, Close, StartFails, CloseFails,
                  RecordFailedCall, Broken
    <3>3. QED BY <1>5, <3>1, <3>2
  <2>2. QED BY <1>8, <1>9, <1>10, <2>1 DEF CallStep
<1>11. CASE Die
  <2>1. \A c \in Caller : job'[c].at = "idle"  BY <1>11, FreeFields DEF Die
  <2>2. QED BY <2>1, MayRest
<1>12. ASSUME NEW c \in Caller, Invalid(c) PROVE UNCHANGED job /\ Quiet
  <2>1. PICK e \in {CompletedEvent(calls + 1), DeniedEvent(calls + 1, None, 0, "constraint")} :
               log' = Append(log, e)
    BY <1>12 DEF Invalid
  <2>2. Follows(log, e) /\ e.kind # "started"  BY DEF CompletedEvent, DeniedEvent, Follows
  <2>3. UNCHANGED job  BY <1>12 DEF Invalid
  <2>4. QED BY <2>1, <2>2, <2>3
<1>13. ASSUME NEW d \in Pending, NEW yes \in BOOLEAN, Human(d, yes) PROVE UNCHANGED job /\ Quiet
  <2>1. d \in 1..Len(log)  BY <1>13, Longer DEF Pending, Of, LogInv
  <2>2. Follows(log, AnswerEvent(d, yes, now)) /\ AnswerEvent(d, yes, now).kind # "started"
    BY <2>1 DEF AnswerEvent, Follows
  <2>3. log' = Append(log, AnswerEvent(d, yes, now)) /\ UNCHANGED job  BY <1>13 DEF Human
  <2>4. QED BY <2>2, <2>3
<1>14. ASSUME NEW kind \in {"released", "ended"}, Core(kind) PROVE UNCHANGED job /\ Quiet
  <2>1. Follows(log, [kind |-> kind]) /\ [kind |-> kind].kind # "started"  BY DEF Follows
  <2>2. log' = Append(log, [kind |-> kind]) /\ UNCHANGED job  BY <1>14 DEF Core
  <2>3. QED BY <2>1, <2>2
<1>15. ASSUME Tick \/ \E s \in Surface : Move(s) PROVE UNCHANGED job /\ Quiet
  BY <1>15 DEF Tick, Move
<1> HIDE DEF Quiet
<1>16. CASE Next
  BY <1>1, <1>7, <1>10, <1>11, <1>12, <1>13, <1>14, <1>15, <1>16 DEF Next
<1>17. QED BY <1>6, <1>16

----------------------------------------------------------------------------
(* The results where passes do not overlap. *)

\* A fresh answer is counted when nothing is owed: every start before it was paid for.
LEMMA FreshIsCounted ==
  ASSUME LogInv, EveryPrefix
  PROVE  FreshYesBuys
<1> SUFFICES ASSUME NEW t \in Ticket, NEW c \in Caller,
                    NEW mine, mine = {i \in Starts(log, t) : log[i].depth = Depth[c]},
                    NEW a \in Live(log, t, Depth[c], now),
                    log[log[a].of].surface = surface, \A i \in mine : i < a,
                    Verdict[surface] # "block", Refusals(log, t) = {},
                    \A i \in mine : log[i].paid # 0
             PROVE  Disposition(log, t, Depth[c], surface, Verdict[surface], now).outcome = "allowed"
  BY DEF FreshYesBuys
<1> DEFINE A == Answers(log, t)
           B == Buying(log, t, Depth[c], surface, now)
           S == Charged(log, t, Depth[c])
           N == Len(log)
           p == Count(a - 1, A, B, S)
           q == Count(a, A, B, S)
<1>1. Ordered(log) /\ N \in Nat /\ DOMAIN log = 1..N  BY Longer DEF LogInv
<1>2. a \in B /\ a \in A /\ a \in 1..N
  BY <1>1 DEF Buying, Live, Answers, Of
<1>3. S = mine /\ S = PaidStarts(t, Depth[c])  BY DEF Charged, PaidStarts
<1>4. A \cap S = {} /\ YesAnswers(t, Depth[c]) \subseteq A  BY Places
<1>5. a - 1 \in Nat /\ a - 1 \in 0..N /\ (a - 1) + 1 = a  BY <1>1, <1>2
<1>6. Up(S, a - 1) <= Up(YesAnswers(t, Depth[c]), a - 1)
  BY <1>3, <1>5 DEF EveryPrefix, Up
<1>7. Up(YesAnswers(t, Depth[c]), a - 1) <= Up(A, a - 1)
  BY <1>4, <1>5, UpMost
<1>8. Balance(p) = Up(A, a - 1) - Up(S, a - 1)
  BY <1>4, <1>5, Balanced
<1>9. /\ Up(S, a - 1) \in Nat /\ Up(YesAnswers(t, Depth[c]), a - 1) \in Nat /\ Up(A, a - 1) \in Nat
  BY <1>5, UpNext
<1>10. p.debt \in Nat /\ (p.debt # 0 => Balance(p) = 0 - p.debt)
  BY <1>5, Debt
<1>11. p.debt = 0
  <2> HIDE DEF p
  <2>1. QED BY <1>6, <1>7, <1>8, <1>9, <1>10
<1>12. OneMore(p, Count((a - 1) + 1, A, B, S), (a - 1) + 1, A, B, S)  BY <1>5, CountOne
<1>13. q.valid # <<>>
  <2>1. OneMore(p, q, a, A, B, S)  BY <1>5, <1>12
  <2>2. Len(p.valid) \in Nat  BY <1>5, Debt
  <2> HIDE DEF p, q
  <2>3. Len(q.valid) = Len(p.valid) + 1  BY <1>2, <1>11, <2>1 DEF OneMore
  <2>4. q.valid = <<>> => Len(q.valid) = 0  OBVIOUS
  <2>5. QED BY <2>2, <2>3, <2>4
<1>14. Count(N, A, B, S).valid # <<>>
  <2>1. \A i \in (a + 1)..N : i \notin S  BY <1>1, <1>2, <1>3
  <2> HIDE DEF A, B, S, N
  <2>2. QED BY <1>1, <1>2, <1>13, <2>1, StaysSpendable
<1>15. Pool(log, t, Depth[c], surface, now).valid # <<>>  BY <1>14 DEF Pool
<1>16. A # {} /\ Live(log, t, Depth[c], now) # {}  BY <1>2
<1> HIDE DEF A, B, S, N, p, q
<1>17. \E d : Disposition(log, t, Depth[c], surface, Verdict[surface], now)
                = Outcome("allowed", d, "open")
  BY <1>15, <1>16, Zenon DEF Disposition, A
<1>18. QED BY <1>17 DEF Outcome

\* No more starts were paid for than answers given, at every depth, in the whole log.
LEMMA PrefixIsAll ==
  ASSUME LogInv, EveryPrefix
  PROVE  OneYesOneRun
<1> SUFFICES ASSUME NEW t \in Ticket, NEW c \in Caller
             PROVE  Cardinality(PaidStarts(t, Depth[c])) <= Cardinality(YesAnswers(t, Depth[c]))
  BY DEF OneYesOneRun, PaidStarts, YesAnswers
<1>1. Ordered(log) /\ Len(log) \in Nat  BY Longer DEF LogInv
<1>2. Len(log) \in 0..Len(log)  BY <1>1
<1>3. Up(PaidStarts(t, Depth[c]), Len(log)) <= Up(YesAnswers(t, Depth[c]), Len(log))
  BY <1>2 DEF EveryPrefix, Up
<1>4. PaidStarts(t, Depth[c]) \subseteq DOMAIN log /\ YesAnswers(t, Depth[c]) \subseteq DOMAIN log
  BY DEF PaidStarts, Starts, YesAnswers, Answers, Of
<1>5. QED BY <1>1, <1>3, <1>4, UpAll

\* The empty log.
LEMMA InitCredit == Init => CreditInv
<1> SUFFICES ASSUME Init PROVE CreditInv  OBVIOUS
<1> USE DEF Init
<1>1. DOMAIN log = {} /\ Len(log) = 0 /\ \A kind : Of(log, kind) = {}  BY DEF Of
<1>2. Typed  BY <1>1 DEF Typed
<1>3. EveryPrefix
  <2>1. ASSUME NEW t, NEW c \in Caller
        PROVE  PaidStarts(t, Depth[c]) = {} /\ YesAnswers(t, Depth[c]) = {}
    BY <1>1 DEF PaidStarts, Starts, YesAnswers, Answers
  <2>2. Cardinality({}) <= Cardinality({})  BY FS_EmptySet
  <2>3. QED BY <2>1, <2>2 DEF EveryPrefix
<1>4. Busy = {}  BY FreeFields DEF Busy, At
<1>5. \A c \in Caller : MayStart(c)  BY FreeFields DEF MayStart
<1>6. StartsPassTheAuditPerDepth  BY <1>1 DEF StartsPassTheAuditPerDepth, Newest
<1>7. QED BY <1>2, <1>3, <1>4, <1>5, <1>6 DEF CreditInv

\* Where passes do not overlap, no answer is spent twice: the inductive invariant.
THEOREM CreditInvariance == ASSUME ~Overlap PROVE Spec => []CreditInv
<1>1. Init => CreditInv  BY InitCredit
<1>2. IInv /\ CreditInv /\ [Next]_vars => CreditInv'
  <2> SUFFICES ASSUME IInv, CreditInv, [Next]_vars PROVE CreditInv'  OBVIOUS
  <2>1. /\ LogInv /\ JobInv /\ Knowledge /\ Typed /\ EveryPrefix /\ Alone
        /\ \A c \in Caller : MayStart(c)
        /\ StartsPassTheAuditPerDepth
    BY DEF IInv, CreditInv, Alone
  <2>2. Typed' /\ EveryPrefix' /\ StartsPassTheAuditPerDepth'
    BY <2>1, TypedStep, PrefixStep, AuditStep
  <2>3. Alone' /\ \A c \in Caller : MayStart(c)'  BY <2>1, AloneStep, MayStep
  <2>4. QED BY <2>2, <2>3 DEF CreditInv, Alone
<1>3. QED BY <1>1, <1>2, CallInvariance, PTL DEF Spec

\* Where passes do not overlap, a human's answer buys one execution, however calls, answers,
\* deaths and failed writes follow each other (approval_ticket.py).
THEOREM OneYesOneRunAlways == ASSUME ~Overlap PROVE Spec => []OneYesOneRun
<1>1. IInv /\ CreditInv => OneYesOneRun  BY PrefixIsAll DEF IInv, CreditInv
<1>2. QED BY <1>1, CallInvariance, CreditInvariance, PTL

\* Where passes do not overlap, MIRA's control A3 accepts every start that the manager let go
\* at the depth of the log's other starts of the call, or the log moved on between the manager's
\* last reading and the start (controls.py, manager.py).
THEOREM StartsPassTheAuditPerDepthAlways ==
  ASSUME ~Overlap PROVE Spec => []StartsPassTheAuditPerDepth
<1>1. CreditInv => StartsPassTheAuditPerDepth  BY DEF CreditInv
<1>2. QED BY <1>1, CreditInvariance, PTL

\* Where passes do not overlap, an approval newer than every start of its call lets it run
\* (approval_ticket.py: no earlier execution eats it).
THEOREM FreshYesBuysAlways == ASSUME ~Overlap PROVE Spec => []FreshYesBuys
<1>1. IInv /\ CreditInv => FreshYesBuys  BY FreshIsCounted DEF IInv, CreditInv
<1>2. QED BY <1>1, CallInvariance, CreditInvariance, PTL
=============================================================================
