----------------------------- MODULE Interview ------------------------------
(* What the log of a Run says about its intake: the activity profile, the questions  *)
(* asked for its missing facts, the human reviews requested when asking does not      *)
(* help, and the evidence of MIRA's preflight. No state of its own: folds and counts. *)
EXTENDS Integers, Sequences, FiniteSets, SequencesExt

CONSTANTS
    Fields,         \* how many facts an interview collects, in this order
    MaxQuestions,   \* MAX_INTERVIEW_QUESTIONS
    MaxPerField     \* MAX_INTERVIEW_QUESTIONS_PER_FIELD

ASSUME InterviewAssumption == {Fields, MaxQuestions, MaxPerField} \subseteq Nat \ {0}

Field == 1..Fields
None == 0
Limit == 0          \* what the review of the question limit is about

\* A profile version: its identity and the facts it declares.
Profile(id, facts) == [id |-> id, facts |-> facts]
Initial == Profile(1, {})
Missing(p) == Field \ p.facts
NextField(p) == CHOOSE f \in Missing(p) : \A g \in Missing(p) : f <= g

\* Seeded bug: a question names the Run's first profile.
QuestionOfFirst(f, p) == [field |-> f, profile |-> Initial.id, answers |-> 0]
\* A question names the field and the profile it was asked for, and counts its answers.
Question(f, p) == [field |-> f, profile |-> p.id, answers |-> 0]
\* _pending_question.
Pending(asked) == SelectLastInSeq(asked, LAMBDA q : q.answers = 0)
AskedAbout(asked, f) == Cardinality({i \in DOMAIN asked : asked[i].field = f})

LimitReached(asked, f) == Len(asked) >= MaxQuestions \/ AskedAbout(asked, f) >= MaxPerField

\* A review request and its human answer.
Request(about) == [about |-> about, answer |-> "none"]
\* The latest request about something, 0 when there is none.
LatestAbout(reviews, about) == SelectLastInSeq(reviews, LAMBDA r : r.about = about)
AnswerAbout(reviews, about) ==
    LET r == LatestAbout(reviews, about) IN IF r = 0 THEN "absent" ELSE reviews[r].answer
\* _limit_review_resolved, risk_uncertainty_review_resolved.
Resolved(reviews, about) == AnswerAbout(reviews, about) = "yes"
\* _limit_review_pending.
Unanswered(reviews, about) == AnswerAbout(reviews, about) = "none"

-----------------------------------------------------------------------------
(* The evidence of preflights: an audit start, an assessment and one pack binding,   *)
(* each for one profile. Two passes may interleave theirs.                            *)

Mark(kind, p, uncertain) == [kind |-> kind, profile |-> p.id, uncertain |-> uncertain]

\* _latest_matching_audit_started.
AuditStart(audit, p) ==
    SelectLastInSeq(audit, LAMBDA m : m.kind = "started" /\ m.profile = p.id)
\* The records after a start, up to the next one.
Scope(audit, s) ==
    {i \in DOMAIN audit : i > s /\ \A j \in s + 1 .. i : audit[j].kind # "started"}
\* _preflight_from_events: the assessment of a complete preflight, 0 when it is not complete.
Assessment(audit, p) ==
    LET scope == Scope(audit, AuditStart(audit, p))
        risks == {i \in scope : audit[i].kind = "assessed"}
        bound == {i \in scope : audit[i].kind = "bound" /\ audit[i].profile = p.id}
        last  == CHOOSE i \in risks : \A j \in risks : j <= i
    IN IF risks # {} /\ audit[last].profile = p.id /\ Cardinality(bound) = 1 THEN last ELSE None
=============================================================================
