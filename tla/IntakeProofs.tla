---------------------------- MODULE IntakeProofs ----------------------------
(***************************************************************************)
(* Proofs about Intake, for any number of facts, limits, threads and       *)
(* raising appends, where clients take turns: no intake gets stuck, and    *)
(* what is classified has its grounds.                                     *)
(***************************************************************************)
EXTENDS Intake, NaturalsInduction, WellFoundedInduction, SequenceTheorems, TLAPS

----------------------------------------------------------------------------
(* The inductive invariant. *)

(* Types. *)

InPass == {"interview", "extract", "ask", "question", "escalate", "request", "parkReview", "route",
           "preflight", "assess", "bind", "uncertain", "route2", "classify", "classifying", "toGate",
           "gate", "failing"}
InRequest == {"judge", "record", "followUp", "resume", "dispatch", "block"}
Place     == InPass \cup InRequest \cup {"idle", "wait", "park"}

Version   == [id : Nat, facts : SUBSET Field]
Asked     == [field : Field, profile : Nat, answers : Nat]
Requested == [about : Nat, answer : {"none", "yes", "no"}]
Evidence  == [kind : {"started", "assessed", "bound"}, profile : Nat, uncertain : BOOLEAN]
Locals    == [at : Place, pass : BOOLEAN, seen : Version, new : Version, question : Nat,
              about : Nat, review : Nat, next : {"idle", "route", "route2"}]

\* The states a Run has in its intake.
Standing == {r \in RunRecord : /\ r.stage = "planning" /\ r.condition # "paused"
                               /\ r.condition = "waiting" => r.reason # "none"}

Types ==
    /\ run \in Standing /\ parked \in Nat /\ minted \in Nat /\ ckpt \in Node /\ lost \in BOOLEAN
    /\ profile \in Version
    /\ asked \in Seq(Asked) /\ reviews \in Seq(Requested) /\ audit \in Seq(Evidence)
    /\ job \in [Thread -> Locals]

(* What is said of the thread at work, if one is. *)

Terminal == run.condition = "terminal"

\* Places of the interview node, but for those a request or the preflight shares with it.
Interviews == {"interview", "extract", "ask", "question", "escalate"}

\* How the Run does, by the thread's place: it waits only while requests are received and where a
\* pass is about to end. And where the checkpoint stands, in the nodes that let a Run wait.
OnTurn(j) ==
    /\ j.at = "idle" => Terminal \/ Waiting \/ ckpt = "gate" \/ lost
    /\ j.at \in InPass => j.pass
    /\ j.at \in InRequest => ~j.pass
    /\ j.pass /\ j.at \notin {"idle", "route", "route2", "failing"} => ~Waiting
    /\ j.at \in {"judge", "record", "followUp"} \/ (~j.pass /\ j.at = "wait") =>
          AwaitsInformation \/ Terminal
    /\ ~j.pass /\ j.at = "park" => Terminal
    /\ j.at \in {"resume", "block"} => Waiting \/ Terminal
    /\ j.at = "resume" /\ AwaitsApproval(run) => ParkedAnswer = "yes"
    /\ j.at = "dispatch" => ~Waiting /\ ckpt \in {"end", "interview", "preflight"}
    /\ j.at = "gate" => ckpt = "gate"
    /\ j.at \in Interviews \/ (j.pass /\ j.at \in {"wait", "park"}) => ckpt = "interview"
    /\ j.at \in {"preflight", "assess", "bind", "uncertain"} => ckpt = "preflight"
    /\ j.at \in {"request", "parkReview"} =>
          ckpt = IF j.next = "route" THEN "interview" ELSE "preflight"

\* The questions without an answer.
Open == {q \in DOMAIN asked : asked[q].answers = 0}

\* What the thread knows of profile, questions and reviews is so.
Knows(j) ==
    /\ j.at \in {"extract", "ask", "question", "wait", "park", "judge", "followUp", "assess",
                 "classifying"} => j.seen = profile
    /\ j.at = "extract" => asked = <<>>
    /\ j.at \in {"extract", "ask", "question", "judge", "followUp"} => profile # Unrecorded
    /\ j.at \in {"question", "record", "followUp"} => Open = {}
    /\ j.at = "question" => Missing(j.seen) # {}
    /\ j.at = "judge" => j.question \in Open
    /\ j.at = "followUp" => j.question \in DOMAIN asked
    /\ j.at = "record" => j.new # Unrecorded
    /\ j.at \in {"request", "parkReview"} => j.next # "idle"
    /\ j.at = "request" /\ j.next = "route2" => Terminal \/ j.about # Limit
    /\ j.at = "parkReview" => j.review \in DOMAIN reviews

\* An unanswered review of the question limit is what the Run is parked on, or about to be,
\* unless an append that raised between its request and the park ended the pass.
LimitWaits(j) ==
    Unanswered(reviews, Limit) =>
        \/ Terminal \/ (j.at \in {"failing", "idle"} /\ ~Waiting)
        \/ AwaitsApproval(run) /\ parked = LatestAbout(reviews, Limit)
        \/ j.at = "parkReview" /\ j.review = LatestAbout(reviews, Limit)

\* The facts are complete or may stay incomplete; an assessment of this profile is certain or
\* was approved.
Enough  == Missing(profile) = {} \/ Resolved(reviews, Limit)
Says(a) == a \in DOMAIN audit /\ audit[a].kind = "assessed" /\ audit[a].profile = profile.id
Sure    == \E a \in DOMAIN audit : Says(a) /\ (~audit[a].uncertain \/ Resolved(reviews, a))

Grounded(j) ==
    \/ Terminal
    \/ Waiting /\ j.at \in {"route", "route2"}
    \/ /\ j.at \in {"route", "preflight", "assess", "bind", "uncertain", "route2", "classify",
                    "classifying"} => Enough
       /\ j.at \in {"route2", "classify", "classifying"} => Sure
       /\ j.at = "bind" => j.seen = profile
       /\ j.at \in {"bind", "uncertain"} => Says(j.about)

Mind(j) == OnTurn(j) /\ Knows(j) /\ LimitWaits(j) /\ Grounded(j)

(* At most one question is open, and it was asked for the latest profile. *)
Interviewed ==
    /\ \A q, k \in Open : q = k
    /\ \A q \in Open : asked[q].profile = profile.id
    /\ asked # <<>> => profile # Unrecorded
    /\ AwaitsApproval(run) => parked # None
    /\ parked # None => parked \in DOMAIN reviews

\* A Run waits in the node that let it, or behind a pass that ended; a question is never asked
\* again in the preflight node, which was entered on enough facts.
Halts ==
    /\ Waiting => ckpt \in {"end", "interview", "preflight"}
    /\ AwaitsInformation => ckpt # "preflight"
    /\ ckpt = "preflight" => Terminal \/ Enough

\* Everybody else is idle.
Turn(t) == (\A u \in Thread \ {t} : Is(u, "idle")) /\ Mind(job[t])

IntakeInv == Types /\ Interviewed /\ Halts /\ \E t \in Thread : Turn(t)

----------------------------------------------------------------------------
(* Sequences: the last position with a property, and a record appended. *)

\* Of a nonempty set of numbers, one is the least.
LEMMA LeastOf ==
    ASSUME NEW S, S \subseteq Nat, S # {}
    PROVE  \E x \in S : \A y \in S : x <= y
<1> DEFINE R == {p \in Nat \X Nat : p[1] < p[2]}
<1>1. IsWellFoundedOn(R, Nat)
  BY NatLessThanWellFounded, Zenon DEF OpToRel
<1>2. \E x \in S : \A y \in S : ~(<<y, x>> \in R)
  <2> HIDE DEF R
  <2> QED BY <1>1, WFMin, Zenon
<1>3. PICK x \in S : \A y \in S : ~(<<y, x>> \in R)
  BY <1>2
<1>4. \A y \in S : <<y, x>> \in Nat \X Nat /\ <<y, x>>[1] = y /\ <<y, x>>[2] = x
  OBVIOUS
<1>5. \A y \in S : ~(y < x)
  BY <1>3, <1>4
<1> QED BY <1>5

\* Of a bounded one, one is the greatest.
LEMMA GreatestOf ==
    ASSUME NEW n \in Nat, NEW S, S \subseteq 1..n, S # {}
    PROVE  \E x \in S : \A y \in S : y <= x
<1> DEFINE T == {m \in Nat : n - m \in S}
<1>1. T \subseteq Nat /\ T # {}
  <2>1. PICK x \in S : TRUE
    OBVIOUS
  <2>2. n - x \in Nat /\ n - (n - x) = x
    BY <2>1
  <2> QED BY <2>1, <2>2
<1>2. PICK m \in T : \A k \in T : m <= k
  <2> HIDE DEF T
  <2> QED BY <1>1, LeastOf
<1>3. ASSUME NEW y \in S PROVE y <= n - m
  <2>0. y \in 1..n /\ m \in Nat
    BY <1>2
  <2>1. n - y \in Nat /\ n - (n - y) = y
    BY <1>3
  <2>2. n - y \in T
    BY <1>3, <2>1
  <2>3. m <= n - y
    BY <1>2, <2>2
  <2> QED BY <2>0, <2>3
<1>4. n - m \in S
  BY <1>2
<1> HIDE DEF T
<1> QED BY <1>3, <1>4

LEMMA MaxOf ==
    ASSUME NEW n \in Nat, NEW S, S \subseteq 1..n, S # {}
    PROVE  Max(S) \in S /\ \A y \in S : y <= Max(S)
<1>1. \E x \in S : \A y \in S : x >= y
  <2>1. PICK x \in S : \A y \in S : y <= x
    BY GreatestOf
  <2>2. \A y \in S : x >= y
    BY <2>1
  <2> QED BY <2>2
<1>2. Max(S) \in S /\ \A y \in S : Max(S) >= y
  BY <1>1, Zenon DEF Max
<1> QED BY <1>2

\* What an appended record changes.
LEMMA Appends ==
    ASSUME NEW S, NEW s \in Seq(S), NEW x \in S
    PROVE  /\ Append(s, x) \in Seq(S)
           /\ DOMAIN s = 1..Len(s) /\ Len(s) \in Nat
           /\ DOMAIN Append(s, x) = DOMAIN s \cup {Len(s) + 1}
           /\ Len(Append(s, x)) = Len(s) + 1 /\ Len(s) + 1 \notin DOMAIN s
           /\ Append(s, x)[Len(s) + 1] = x
           /\ \A i \in DOMAIN s : Append(s, x)[i] = s[i]
  OBVIOUS

\* _pending_question is an open question, and there is none only if none is open.
LEMMA PendingIs ==
    ASSUME asked \in Seq(Asked)
    PROVE  IF Open = {} THEN Pending(asked) = None ELSE Pending(asked) \in Open
<1> DEFINE I == {i \in 1..Len(asked) : asked[i].answers = 0}
<1>1. Len(asked) \in Nat /\ DOMAIN asked = 1..Len(asked)
  OBVIOUS
<1>2. I = Open
  BY <1>1 DEF Open
<1>3. Pending(asked) = IF I # {} THEN Max(I) ELSE 0
  BY DEF Pending, SelectLastInSeq
<1>4. I # {} => Max(I) \in I
  <2>1. I \subseteq 1..Len(asked)
    OBVIOUS
  <2> HIDE DEF I
  <2> QED BY <1>1, <2>1, MaxOf
<1> HIDE DEF I
<1> QED BY <1>2, <1>3, <1>4 DEF None

\* The latest request about something.
LEMMA LatestIs ==
    ASSUME NEW rs \in Seq(Requested), NEW about
    PROVE  LET l == LatestAbout(rs, about) IN
           \/ l = 0 /\ \A i \in DOMAIN rs : rs[i].about # about
           \/ l \in DOMAIN rs /\ rs[l].about = about /\ \A i \in DOMAIN rs : rs[i].about = about => i <= l
<1> DEFINE I == {i \in 1..Len(rs) : rs[i].about = about}
<1>1. Len(rs) \in Nat /\ DOMAIN rs = 1..Len(rs)
  OBVIOUS
<1>3. LatestAbout(rs, about) = IF I # {} THEN Max(I) ELSE 0
  BY DEF LatestAbout, SelectLastInSeq
<1>4. I # {} => Max(I) \in I /\ \A y \in I : y <= Max(I)
  <2>1. I \subseteq 1..Len(rs)
    OBVIOUS
  <2> HIDE DEF I
  <2> QED BY <1>1, <2>1, MaxOf
<1>5. CASE I = {}
  BY <1>1, <1>3, <1>5
<1>6. CASE I # {}
  <2>1. LatestAbout(rs, about) = Max(I)
    BY <1>3, <1>6
  <2>2. Max(I) \in I /\ \A y \in I : y <= Max(I)
    BY <1>4, <1>6
  <2> QED BY <1>1, <2>1, <2>2
<1> QED BY <1>5, <1>6

\* It is determined by what the requests are about.
LEMMA LatestSame ==
    ASSUME NEW rs \in Seq(Requested), NEW us \in Seq(Requested), DOMAIN us = DOMAIN rs,
           \A i \in DOMAIN rs : us[i].about = rs[i].about, NEW about
    PROVE  LatestAbout(us, about) = LatestAbout(rs, about)
<1>1. Len(rs) \in Nat /\ DOMAIN rs = 1..Len(rs) /\ Len(us) \in Nat /\ DOMAIN us = 1..Len(us)
  OBVIOUS
<1>2. {i \in 1..Len(rs) : rs[i].about = about} = {i \in 1..Len(us) : us[i].about = about}
  BY <1>1
<1> QED BY <1>2, Zenon DEF LatestAbout, SelectLastInSeq

\* One more request is the latest about its subject, and about nothing else.
LEMMA LatestOfMore ==
    ASSUME NEW rs \in Seq(Requested), NEW r \in Requested, NEW about
    PROVE  LatestAbout(Append(rs, r), about) =
               IF r.about = about THEN Len(rs) + 1 ELSE LatestAbout(rs, about)
<1> DEFINE us == Append(rs, r)
<1>1. us \in Seq(Requested) /\ DOMAIN us = DOMAIN rs \cup {Len(rs) + 1} /\ us[Len(rs) + 1] = r
      /\ (\A i \in DOMAIN rs : us[i] = rs[i]) /\ DOMAIN rs = 1..Len(rs) /\ Len(rs) \in Nat
      /\ Len(rs) + 1 \notin DOMAIN rs
  BY Appends
<1> HIDE DEF us
<1>2. LET l == LatestAbout(us, about) IN
           \/ l = 0 /\ \A i \in DOMAIN us : us[i].about # about
           \/ l \in DOMAIN us /\ us[l].about = about /\ \A i \in DOMAIN us : us[i].about = about => i <= l
  BY <1>1, LatestIs
<1>3. LET l == LatestAbout(rs, about) IN
           \/ l = 0 /\ \A i \in DOMAIN rs : rs[i].about # about
           \/ l \in DOMAIN rs /\ rs[l].about = about /\ \A i \in DOMAIN rs : rs[i].about = about => i <= l
  BY LatestIs
<1>4. LatestAbout(us, about) = IF r.about = about THEN Len(rs) + 1 ELSE LatestAbout(rs, about)
  <2>1. CASE r.about = about
    BY <1>1, <1>2, <2>1
  <2>2. CASE r.about # about
    BY <1>1, <1>2, <1>3, <2>2
  <2> QED BY <2>1, <2>2
<1> QED BY <1>4 DEF us

----------------------------------------------------------------------------
(* The commands of an intake. *)

LEMMA Commands ==
    ASSUME NEW r \in Standing
    PROVE  /\ r.condition = "active" =>
                 /\ {"wait_for_information", "wait_for_approval", "block", "fail", "cancel"} \subseteq Allowed(r)
                 /\ "resume" \notin Allowed(r)
           /\ r.condition = "waiting" => Allowed(r) = {"resume", "block", "fail", "cancel"}
           /\ r.condition = "terminal" => Allowed(r) = {}
           /\ r.condition \in {"active", "waiting", "terminal"}
           /\ r.condition = "waiting" => r.reason \in {"information", "approval"}
<1>1. /\ r.condition \in {"active", "waiting", "terminal"} /\ r.stage = "planning"
      /\ r.reason \in Reason
      /\ r.condition = "waiting" => r.reason # "none"
  BY DEF Standing, RunRecord, Condition
<1>2. CASE r.condition = "active"
  <2>1. Allowed(r) = {"begin_execution"} \cup Interrupts
    BY <1>1, <1>2 DEF Allowed, ActiveCommands
  <2> QED BY <1>2, <2>1 DEF Interrupts, NonTerminal
<1>3. CASE r.condition = "waiting"
  <2>1. Allowed(r) = {"resume"} \cup NonTerminal
    BY <1>3 DEF Allowed
  <2>2. r.reason \in {"information", "approval"}
    BY <1>1, <1>3 DEF Reason
  <2> QED BY <1>3, <2>1, <2>2 DEF NonTerminal
<1>4. CASE r.condition = "terminal"
  BY <1>4 DEF Allowed
<1> QED BY <1>1, <1>2, <1>3, <1>4

LEMMA Moved ==
    ASSUME NEW r \in Standing
    PROVE  /\ LET n == NextState(r, "wait_for_information") IN
                 n \in Standing /\ n.condition = "waiting" /\ n.reason = "information"
           /\ LET n == NextState(r, "wait_for_approval") IN
                 n \in Standing /\ n.condition = "waiting" /\ n.reason = "approval"
           /\ LET n == NextState(r, "resume") IN n \in Standing /\ n.condition = "active"
           /\ \A c \in {"block", "fail", "cancel"} :
                 NextState(r, c) \in Standing /\ NextState(r, c).condition = "terminal"
<1>1. r \in RunRecord /\ r.stage = "planning"
  BY DEF Standing
<1>2. ASSUME NEW c \in {"active", "waiting", "terminal"}
      PROVE  /\ Plain(r, c) \in RunRecord /\ Plain(r, c).stage = "planning"
             /\ Plain(r, c).condition = c
  BY <1>1 DEF Plain, RunRecord, Condition, Reason, Outcome
<1> DEFINE Waits == {"wait_for_information", "wait_for_approval", "resume"}
<1>0. \A c \in Waits : c \notin DOMAIN AdvanceStage /\ c \notin DOMAIN TerminalOutcome
  BY DEF AdvanceStage, TerminalOutcome
<1>3. NextState(r, "wait_for_information") = [Plain(r, "waiting") EXCEPT !.reason = "information"]
  BY <1>0 DEF NextState
<1>4. NextState(r, "wait_for_approval") = [Plain(r, "waiting") EXCEPT !.reason = "approval"]
  BY <1>0 DEF NextState
<1>5. NextState(r, "resume") = Plain(r, "active")
  BY <1>0 DEF NextState
<1>6. ASSUME NEW c \in {"block", "fail", "cancel"}
      PROVE  NextState(r, c) = [Plain(r, "terminal") EXCEPT !.outcome = TerminalOutcome[c]]
  BY DEF NextState, AdvanceStage, TerminalOutcome
<1>7. \A c \in {"block", "fail", "cancel"} : TerminalOutcome[c] \in Outcome
  BY DEF TerminalOutcome, Outcome
<1>8. {"information", "approval"} \subseteq Reason
  BY DEF Reason
<1> HIDE DEF Plain
<1>9. NextState(r, "wait_for_information") \in Standing /\ NextState(r, "wait_for_approval") \in Standing
      /\ NextState(r, "resume") \in Standing
  BY <1>2, <1>3, <1>4, <1>5, <1>8 DEF Standing, RunRecord
<1>10. \A c \in {"block", "fail", "cancel"} :
          NextState(r, c) \in Standing /\ NextState(r, c).condition = "terminal"
  BY <1>2, <1>6, <1>7 DEF Standing, RunRecord
<1> QED BY <1>2, <1>3, <1>4, <1>5, <1>9, <1>10 DEF RunRecord

----------------------------------------------------------------------------
(* How a thread moves on. *)

LogTypes ==
    /\ run \in Standing /\ parked \in Nat /\ minted \in Nat /\ ckpt \in Node /\ lost \in BOOLEAN
    /\ profile \in Version
    /\ asked \in Seq(Asked) /\ reviews \in Seq(Requested) /\ audit \in Seq(Evidence)

\* The thread is somewhere it may be, and the log is as it may be.
Moves(t) == \E j \in Locals : Do(t, j) /\ Mind(j)'
Good(t)  == LogTypes' /\ Interviewed' /\ Halts' /\ Moves(t)

Ready(t) == t \in Thread /\ Types /\ Interviewed /\ Halts /\ Mind(job[t])

LEMMA TypeParts ==
    /\ Types <=> LogTypes /\ job \in [Thread -> Locals]
    /\ Types' <=> LogTypes' /\ job' \in [Thread -> Locals]
  BY DEF Types, LogTypes

LEMMA MovesTurn ==
    ASSUME Types, NEW t \in Thread, \A u \in Thread \ {t} : Is(u, "idle"), Good(t)
    PROVE  IntakeInv'
<1>1. PICK j \in Locals : Do(t, j) /\ Mind(j)'
  BY DEF Good, Moves
<1>2. job \in [Thread -> Locals]
  BY DEF Types
<1>3. job' \in [Thread -> Locals] /\ job'[t] = j /\ \A u \in Thread \ {t} : job'[u] = job[u]
  BY <1>1, <1>2 DEF Do
<1>4. Types'
  BY <1>3, TypeParts DEF Good
<1>5. Mind(job[t])'
  BY <1>1, <1>3
<1>6. (\A u \in Thread \ {t} : Is(u, "idle"))'
  BY <1>3 DEF Is
<1> QED BY <1>4, <1>5, <1>6 DEF IntakeInv, Turn, Good

\* Two locals that agree on everything but the place.
Like(i, j) == /\ i.pass = j.pass /\ i.seen = j.seen /\ i.new = j.new /\ i.question = j.question
              /\ i.about = j.about /\ i.review = j.review /\ i.next = j.next

LEMMA Local == ASSUME Types, NEW t \in Thread PROVE job[t] \in Locals
  BY DEF Types

LEMMA Went ==
    ASSUME Types, NEW t \in Thread, NEW p \in Place, Go(t, p)
    PROVE  \E j \in Locals : Do(t, j) /\ j.at = p /\ Like(j, job[t])
<1>1. PICK i \in Locals : i = job[t]
  BY Local
<1>2. PICK j : j = [i EXCEPT !.at = p]
  OBVIOUS
<1>3. j \in Locals /\ j.at = p /\ Like(j, i)
  BY <1>2 DEF Locals, Like
<1> QED BY <1>1, <1>2, <1>3 DEF Go

LEMMA Freed ==
    /\ Free \in Locals /\ Free.at = "idle" /\ ~Free.pass
    /\ \A p \in Place : [Free EXCEPT !.at = p] \in Locals /\ [Free EXCEPT !.at = p].at = p
                        /\ ~[Free EXCEPT !.at = p].pass
    /\ \A p \in Place : InNode(p) \in Locals /\ InNode(p).at = p /\ InNode(p).pass
<1>1. {"idle"} \subseteq Place /\ Initial \in Version
  BY DEF Place, Initial, Profile, Version
<1> QED BY <1>1 DEF Free, Locals, InNode, None, Limit

\* Nothing but a thread, and maybe the checkpoint, moves.
Still == UNCHANGED <<life, interview, reviews, audit>>

LEMMA StillMind ==
    ASSUME Still, NEW j
    PROVE  /\ Knows(j)' <=> Knows(j)
           /\ LimitWaits(j)' <=> LimitWaits(j)
           /\ Grounded(j)' <=> Grounded(j)
           /\ ckpt' = ckpt => (Mind(j)' <=> Mind(j))
<1>1. /\ run' = run /\ parked' = parked /\ lost' = lost /\ profile' = profile /\ minted' = minted
      /\ asked' = asked /\ reviews' = reviews /\ audit' = audit
  BY DEF Still, life, interview
<1>2. Knows(j)' <=> Knows(j)
  BY <1>1 DEF Knows, Open, Terminal
<1>3. LimitWaits(j)' <=> LimitWaits(j)
  BY <1>1 DEF LimitWaits, Terminal, Waiting, AwaitsInformation
<1>4. Grounded(j)' <=> Grounded(j)
  BY <1>1 DEF Grounded, Terminal, Enough, Sure, Says, Waiting, AwaitsInformation
<1>5. ckpt' = ckpt => (OnTurn(j)' <=> OnTurn(j))
  BY <1>1 DEF OnTurn, Terminal, Waiting, AwaitsInformation, ParkedAnswer
<1> QED BY <1>2, <1>3, <1>4, <1>5 DEF Mind

LEMMA StillHalts ==
    ASSUME Halts, UNCHANGED <<run, profile, reviews, ckpt>>
    PROVE  Halts'
  BY DEF Halts, Waiting, AwaitsInformation, Terminal, Enough

\* A Run that does not wait is bound by the preflight node alone.
LEMMA BusyHalts ==
    ASSUME ~Waiting', ckpt' # "preflight"
    PROVE  Halts'
  BY DEF Halts, Waiting

LEMMA StillLog ==
    ASSUME Types, Interviewed, Still, ckpt' \in Node
    PROVE  LogTypes' /\ Interviewed'
<1>1. /\ run' = run /\ parked' = parked /\ lost' = lost /\ profile' = profile /\ minted' = minted
      /\ asked' = asked /\ reviews' = reviews /\ audit' = audit
  BY DEF Still, life, interview
<1> QED BY <1>1 DEF Types, LogTypes, Interviewed, Open

\* A thread that moves and nothing else.
LEMMA StillGood ==
    ASSUME NEW t, Ready(t), Still, ckpt' = ckpt, NEW j \in Locals, Do(t, j), Mind(j)
    PROVE  Good(t)
<1>1. ckpt' \in Node
  BY DEF Ready, Types
<1>2. Halts'
  BY StillHalts DEF Ready, Still, life, interview
<1> QED BY <1>1, <1>2, StillMind, StillLog DEF Ready, Good, Moves

\* A pass enters a node, or ends.
LEMMA EntersGood ==
    ASSUME NEW t, Ready(t), Still, NEW n \in {"interview", "preflight", "classify", "gate"},
           Enter(t, n), Mind(InNode(n))', Halts'
    PROVE  Good(t)
<1>1. n \in Place /\ n \in Node
  BY DEF Place, InPass, Node
<1>2. InNode(n) \in Locals /\ ckpt' \in Node /\ Do(t, InNode(n))
  BY <1>1, Freed DEF Enter
<1>3. Moves(t)
  BY <1>2 DEF Moves
<1> QED BY <1>2, <1>3, StillLog DEF Ready, Good

\* What every proof needs of the thread that acts.
LEMMA Here ==
    ASSUME NEW t, Ready(t)
    PROVE  /\ t \in Thread /\ job[t] \in Locals /\ job[t].at \in Place
           /\ OnTurn(job[t]) /\ Knows(job[t]) /\ LimitWaits(job[t]) /\ Grounded(job[t])
           /\ Halts
           /\ run \in Standing /\ run.condition \in {"active", "waiting", "terminal"}
           /\ Waiting <=> run.condition = "waiting"
           /\ Waiting <=> AwaitsInformation \/ AwaitsApproval(run)
           /\ ~(AwaitsInformation /\ AwaitsApproval(run))
<1>1. t \in Thread /\ job[t] \in Locals
  BY Local DEF Ready
<1>2. run \in Standing
  BY DEF Ready, Types
<1> QED BY <1>1, <1>2, Commands DEF Ready, Mind, Locals, Waiting, AwaitsInformation, AwaitsApproval

\* A thread that raises fails the Run of its pass; a request is over, and the Run waits as before.
LEMMA RaiseGood ==
    ASSUME NEW t, Ready(t), Still, ckpt' = ckpt, Raise(t),
           job[t].at \notin {"idle", "dispatch", "failing"}
    PROVE  Good(t)
<1>1. CASE job[t].pass
  <2>1. "failing" \in Place
    BY DEF Place, InPass
  <2>2. PICK j \in Locals : Do(t, j) /\ j.at = "failing" /\ Like(j, job[t])
    BY <1>1, <2>1, Went DEF Raise, Is, Ready
  <2>3. OnTurn(j)
    BY <1>1, <2>2, Here DEF OnTurn, Like, InPass, InRequest, Interviews
  <2>4. LimitWaits(j)
    BY <1>1, <2>2, Here DEF LimitWaits, OnTurn
  <2>5. Knows(j) /\ Grounded(j)
    BY <2>2 DEF Knows, Grounded
  <2> QED BY <2>2, <2>3, <2>4, <2>5, StillGood DEF Mind
<1>2. CASE ~job[t].pass
  <2>1. Do(t, Free)
    BY <1>2 DEF Raise
  <2>2. job[t].at \in {"wait", "park", "judge", "record", "followUp", "resume", "block"}
    BY <1>2, Here DEF OnTurn, Place, InRequest
  <2>3. OnTurn(Free)
    BY <1>2, <2>2, Here, Freed DEF OnTurn, InPass, InRequest, Interviews
  <2>4. Knows(Free) /\ LimitWaits(Free) /\ Grounded(Free)
    BY <2>2, Here, Freed DEF Knows, LimitWaits, Grounded
  <2> QED BY <2>1, <2>3, <2>4, Freed, StillGood DEF Mind
<1> QED BY <1>1, <1>2

----------------------------------------------------------------------------
(* The interview node. *)

LEMMA BeginGood ==
    ASSUME NEW t, Ready(t), Begin(t)
    PROVE  Good(t)
<1> DEFINE p == IF profile = Unrecorded THEN Initial ELSE profile
           at == IF p = Initial /\ asked = <<>> THEN "extract" ELSE "ask"
<1>1. PICK j : j = [job[t] EXCEPT !.seen = p, !.at = at]
  OBVIOUS
<1>2. p \in Version /\ Initial # Unrecorded /\ p # Unrecorded
  BY DEF Ready, Types, Initial, Unrecorded, Profile, Version, None
<1>3. at \in {"extract", "ask"} /\ (at = "extract" => asked = <<>>)
  OBVIOUS
<1>4. profile' = p /\ Do(t, j)
  BY <1>1 DEF Begin
<1> HIDE DEF p, at
<1>5. j \in Locals /\ j.at = at /\ j.seen = p /\ j.pass = job[t].pass
  BY <1>1, <1>2, <1>3, Here DEF Locals, Place, InPass
<1>6. UNCHANGED <<run, parked, lost, minted, asked, reviews, audit, ckpt>>
  BY DEF Begin, life, evidence
<1>7. asked # <<>> => p = profile
  BY DEF p, Ready, Interviewed
<1>8. Open # {} => asked # <<>>
  BY DEF Open
<1>9. LogTypes' /\ Interviewed'
  BY <1>2, <1>4, <1>6, <1>7, <1>8 DEF Ready, Types, LogTypes, Interviewed, Open
<1>10. job[t].at = "interview"
  BY DEF Begin, Is
<1>11. OnTurn(j)' /\ ckpt = "interview" /\ ~Waiting
  BY <1>3, <1>5, <1>6, <1>10, Here
  DEF OnTurn, InPass, InRequest, Interviews, Waiting, AwaitsInformation, Terminal, ParkedAnswer
<1>12. Knows(j)' /\ LimitWaits(j)' /\ Grounded(j)'
  BY <1>2, <1>3, <1>4, <1>5, <1>6, <1>10, Here DEF Knows, LimitWaits, Grounded, Terminal
<1>13. Halts'
  BY <1>6, <1>11, BusyHalts DEF Waiting, AwaitsInformation
<1> QED BY <1>4, <1>5, <1>9, <1>11, <1>12, <1>13 DEF Good, Moves, Mind

\* A later version of the profile has another identity, if none is waiting for an answer.
LEMMA ExtractGood ==
    ASSUME NEW t, Ready(t), Extract(t)
    PROVE  Good(t)
<1>1. job[t].at = "extract" /\ job[t].seen = profile /\ asked = <<>> /\ profile # Unrecorded
      /\ job[t].pass
  BY Here DEF Extract, Is, Knows, OnTurn, InPass
<1>2. UNCHANGED <<run, parked, lost, asked, reviews, audit, ckpt>>
  BY DEF Extract, life, evidence
<1>3. Open = {}
  BY <1>1 DEF Open
<1>4. CASE \E f \in Missing(job[t].seen) :
              /\ minted' = minted + 1
              /\ profile' = Profile(minted', job[t].seen.facts \cup {f})
              /\ Do(t, [job[t] EXCEPT !.seen = profile'])
  <2>1. PICK f \in Missing(job[t].seen) :
              /\ minted' = minted + 1
              /\ profile' = Profile(minted', job[t].seen.facts \cup {f})
              /\ Do(t, [job[t] EXCEPT !.seen = profile'])
    BY <1>4
  <2>2. minted \in Nat /\ profile \in Version /\ f \in Field
    BY <2>1 DEF Ready, Types, Missing
  <2>3. minted' \in Nat /\ minted' # 0
    BY <2>1, <2>2
  <2>4. profile' \in Version /\ profile' # Unrecorded
    BY <1>1, <2>1, <2>2, <2>3 DEF Profile, Version, Unrecorded, None
  <2>5. PICK j : j = [job[t] EXCEPT !.seen = profile']
    OBVIOUS
  <2>6. j \in Locals /\ j.at = "extract" /\ j.seen = profile' /\ j.pass
    BY <1>1, <2>4, <2>5, Here DEF Locals
  <2>7. LogTypes' /\ Interviewed'
    BY <1>1, <1>2, <1>3, <2>3, <2>4 DEF Ready, Types, LogTypes, Interviewed, Open
  <2>8. OnTurn(j)' /\ ckpt = "interview" /\ ~Waiting
    BY <1>1, <1>2, <2>6, Here
    DEF OnTurn, InPass, InRequest, Interviews, Waiting, AwaitsInformation, Terminal, ParkedAnswer
  <2>9. Knows(j)' /\ LimitWaits(j)' /\ Grounded(j)'
    BY <1>1, <1>2, <2>4, <2>6, Here DEF Knows, LimitWaits, Grounded, Terminal
  <2>10. Halts'
    BY <1>2, <2>8, BusyHalts DEF Waiting, AwaitsInformation
  <2> QED BY <2>1, <2>5, <2>6, <2>7, <2>8, <2>9, <2>10 DEF Good, Moves, Mind
<1>5. CASE Go(t, "ask") /\ UNCHANGED <<profile, minted>>
  <2>1. "ask" \in Place
    BY DEF Place, InPass
  <2>2. PICK j \in Locals : Do(t, j) /\ j.at = "ask" /\ Like(j, job[t])
    BY <1>5, <2>1, Went DEF Ready
  <2>3. OnTurn(j)
    BY <1>1, <2>2, Here DEF OnTurn, InPass, InRequest, Interviews, Like
  <2>4. Knows(j) /\ LimitWaits(j) /\ Grounded(j)
    BY <1>1, <2>2, Here DEF Knows, LimitWaits, Grounded, Like
  <2> QED BY <1>2, <1>5, <2>2, <2>3, <2>4, StillGood DEF Mind, Still, life, interview
<1> QED BY <1>4, <1>5 DEF Extract

LEMMA AskGood ==
    ASSUME NEW t, Ready(t), Ask(t)
    PROVE  Good(t)
<1>1. job[t].at = "ask" /\ job[t].seen = profile /\ profile # Unrecorded /\ job[t].pass /\ ~Waiting
  BY Here DEF Ask, Is, Knows, OnTurn, InPass
<1>2. Still /\ ckpt' = ckpt
  BY DEF Ask, Still, evidence
<1>3. Pending(asked) = None <=> Open = {}
  <2>1. asked \in Seq(Asked)
    BY DEF Ready, Types
  <2>2. None \notin Open
    BY <2>1 DEF Open, None
  <2> QED BY <2>1, <2>2, PendingIs
<1>4. CASE Missing(profile) = {} /\ Go(t, "route")
  <2>1. "route" \in Place
    BY DEF Place, InPass
  <2>2. PICK j \in Locals : Do(t, j) /\ j.at = "route" /\ Like(j, job[t])
    BY <1>4, <2>1, Went DEF Ready
  <2>3. OnTurn(j)
    BY <1>1, <2>2, Here DEF OnTurn, InPass, InRequest, Interviews, Like
  <2>4. Knows(j) /\ LimitWaits(j) /\ Grounded(j)
    BY <1>1, <1>4, <2>2, Here DEF Knows, LimitWaits, Grounded, Like, Enough
  <2> QED BY <1>2, <2>2, <2>3, <2>4, StillGood DEF Mind
<1>5. CASE Do(t, [job[t] EXCEPT !.question = Pending(asked), !.at = "wait"]) /\ Open # {}
  <2>1. PICK j : j = [job[t] EXCEPT !.question = Pending(asked), !.at = "wait"]
    OBVIOUS
  <2>2. Pending(asked) \in Nat
    <3>1. asked \in Seq(Asked)
      BY DEF Ready, Types
    <3> QED BY <1>5, <3>1, PendingIs DEF Open
  <2>3. j \in Locals /\ j.at = "wait" /\ j.seen = profile /\ j.pass
    BY <1>1, <2>1, <2>2, Here DEF Locals, Place
  <2>4. OnTurn(j)
    BY <1>1, <2>3, Here DEF OnTurn, InPass, InRequest, Interviews
  <2>5. Knows(j) /\ LimitWaits(j) /\ Grounded(j)
    BY <1>1, <2>3, Here DEF Knows, LimitWaits, Grounded
  <2> QED BY <1>2, <1>5, <2>1, <2>3, <2>4, <2>5, StillGood DEF Mind
<1>6. CASE Open = {} /\ Missing(profile) # {} /\ \E p \in {"escalate", "question"} : Go(t, p)
  <2>1. PICK p \in {"escalate", "question"} : Go(t, p)
    BY <1>6
  <2>2. p \in Place
    BY DEF Place, InPass
  <2>3. PICK j \in Locals : Do(t, j) /\ j.at = p /\ Like(j, job[t])
    BY <2>1, <2>2, Went DEF Ready
  <2>4. OnTurn(j)
    BY <1>1, <2>3, Here DEF OnTurn, InPass, InRequest, Interviews, Like
  <2>5. Knows(j) /\ LimitWaits(j) /\ Grounded(j)
    BY <1>1, <1>6, <2>3, Here DEF Knows, LimitWaits, Grounded, Like
  <2> QED BY <1>2, <2>3, <2>4, <2>5, StillGood DEF Mind
<1> QED BY <1>1, <1>3, <1>4, <1>5, <1>6 DEF Ask

LEMMA NextIs == ASSUME NEW v \in Version, Missing(v) # {} PROVE NextField(v) \in Missing(v)
<1>1. Missing(v) \subseteq Nat
  BY InterviewAssumption DEF Missing, Field
<1>2. \E f \in Missing(v) : \A g \in Missing(v) : f <= g
  BY <1>1, LeastOf
<1> QED BY <1>2, Zenon DEF NextField

\* A question is asked for the profile that was read, when none is open.
LEMMA QuestionGood ==
    ASSUME NEW t, Ready(t), NEW f \in Field, AppendQuestion(t, f),
           job[t].at \in {"question", "followUp"}
    PROVE  Good(t)
<1>1. job[t].seen = profile /\ profile # Unrecorded /\ Open = {}
  BY Here DEF Knows
<1>2. UNCHANGED <<run, parked, lost, profile, minted, reviews, audit, ckpt>>
  BY DEF AppendQuestion, life, evidence
<1>3. asked \in Seq(Asked) /\ profile \in Version
  BY DEF Ready, Types
<1>4. PICK q : q = Question(f, job[t].seen)
  OBVIOUS
<1>5. q \in Asked /\ q.profile = profile.id
  BY <1>1, <1>3, <1>4 DEF Question, Asked, Version
<1>6. asked' = Append(asked, q)
  BY <1>4 DEF AppendQuestion
<1>7. /\ asked' \in Seq(Asked) /\ DOMAIN asked' = DOMAIN asked \cup {Len(asked) + 1}
      /\ asked'[Len(asked) + 1] = q /\ \A i \in DOMAIN asked : asked'[i] = asked[i]
      /\ Len(asked') \in Nat
  BY <1>3, <1>5, <1>6, Appends
<1>8. Open' \subseteq {Len(asked) + 1}
  BY <1>1, <1>7 DEF Open
<1>9. PICK j : j = [job[t] EXCEPT !.question = Len(asked'), !.at = "wait"]
  OBVIOUS
<1>10. j \in Locals /\ j.at = "wait" /\ j.seen = profile /\ j.pass = job[t].pass /\ Do(t, j)
  BY <1>1, <1>7, <1>9, Here DEF Locals, Place, AppendQuestion
<1>11. LogTypes' /\ Interviewed'
  BY <1>1, <1>2, <1>5, <1>7, <1>8 DEF Ready, Types, LogTypes, Interviewed
<1>12. OnTurn(j)'
  BY <1>2, <1>10, Here
  DEF OnTurn, InPass, InRequest, Interviews, Waiting, AwaitsInformation, Terminal, ParkedAnswer
<1>13. Knows(j)' /\ LimitWaits(j)' /\ Grounded(j)'
  BY <1>1, <1>2, <1>10, Here DEF Knows, LimitWaits, Grounded, Terminal
<1>14. Halts'
  BY <1>2, Here, StillHalts
<1> QED BY <1>10, <1>11, <1>12, <1>13, <1>14 DEF Good, Moves, Mind

LEMMA AskNextGood ==
    ASSUME NEW t, Ready(t), AskNext(t)
    PROVE  Good(t)
<1>0. Missing(job[t].seen) # {}
  BY Here DEF AskNext, Is, Knows
<1>1. NextField(job[t].seen) \in Field
  BY <1>0, Here, NextIs DEF Locals, Missing
<1> QED BY <1>1, QuestionGood DEF AskNext, Is

LEMMA WaitGood ==
    ASSUME NEW t, Ready(t), Wait(t)
    PROVE  Good(t)
<1>1. job[t].at = "wait" /\ job[t].seen = profile
  BY Here DEF Wait, Is, Knows
<1>2. Still /\ ckpt' = ckpt
  BY DEF Wait, Still, evidence
<1>3. CASE AwaitsInformation
  <2>1. ~job[t].pass /\ Go(t, "resume")
    BY <1>1, <1>3, Here DEF Wait, After, OnTurn
  <2>2. "resume" \in Place
    BY DEF Place, InRequest
  <2>3. PICK j \in Locals : Do(t, j) /\ j.at = "resume" /\ Like(j, job[t])
    BY <2>1, <2>2, Went DEF Ready
  <2>4. OnTurn(j)
    BY <1>1, <1>3, <2>1, <2>3, Here DEF OnTurn, InPass, InRequest, Interviews, Like
  <2>5. Knows(j) /\ LimitWaits(j) /\ Grounded(j)
    BY <1>1, <2>3, Here DEF Knows, LimitWaits, Grounded, Like
  <2> QED BY <1>2, <2>3, <2>4, <2>5, StillGood DEF Mind
<1>4. CASE ~AwaitsInformation /\ Waiting
  BY <1>1, <1>2, <1>4, RaiseGood DEF Wait
<1>5. CASE ~Waiting
  <2>1. Go(t, "park")
    BY <1>5 DEF Wait, Waiting
  <2>2. "park" \in Place
    BY DEF Place
  <2>3. PICK j \in Locals : Do(t, j) /\ j.at = "park" /\ Like(j, job[t])
    BY <2>1, <2>2, Went DEF Ready
  <2>4. OnTurn(j)
    BY <1>1, <1>5, <2>3, Here DEF OnTurn, InPass, InRequest, Interviews, Like
  <2>5. Knows(j) /\ LimitWaits(j) /\ Grounded(j)
    BY <1>1, <2>3, Here DEF Knows, LimitWaits, Grounded, Like
  <2> QED BY <1>2, <2>3, <2>4, <2>5, StillGood DEF Mind
<1> QED BY <1>3, <1>4, <1>5

\* After a transition that lets the Run wait or end, what is known of the log stays.
LEMMA Transited ==
    ASSUME NEW t, Ready(t), UNCHANGED <<interview, reviews, audit, ckpt>>,
           run' \in Standing, parked' \in Nat, lost' \in BOOLEAN,
           AwaitsApproval(run)' => parked' # None,
           parked' # None => parked' \in DOMAIN reviews
    PROVE  LogTypes' /\ Interviewed'
<1>1. UNCHANGED <<profile, minted, asked, reviews, audit, ckpt>>
  BY DEF interview
<1> QED BY <1>1 DEF Ready, Types, LogTypes, Interviewed, Open

LEMMA ParkGood ==
    ASSUME NEW t, Ready(t), Park(t)
    PROVE  Good(t)
<1>1. job[t].at = "park"
  BY DEF Park, Is
<1>2. CASE Transition("wait_for_information") /\ Go(t, After(t))
  <2>1. run' \in Standing /\ run'.condition = "waiting" /\ run'.reason = "information"
        /\ "wait_for_information" \in Allowed(run) /\ lost' = FALSE
    BY <1>2, Here, Moved DEF Transition
  <2>2. ~Terminal /\ job[t].pass
    <3>1. ~Terminal
      BY <2>1, Here, Commands DEF Terminal
    <3> QED BY <1>1, <3>1, Here DEF OnTurn
  <2>3. "route" \in Place /\ Go(t, "route")
    BY <1>2, <2>2 DEF Place, InPass, After
  <2>4. PICK j \in Locals : Do(t, j) /\ j.at = "route" /\ Like(j, job[t])
    BY <2>3, Went DEF Ready
  <2>5. UNCHANGED <<parked, interview, reviews, audit, ckpt>>
    BY DEF Park, evidence
  <2>6. Waiting' /\ ~AwaitsApproval(run)' /\ AwaitsInformation' /\ ~Terminal'
    BY <2>1 DEF Waiting, AwaitsInformation, AwaitsApproval, Terminal
  <2>7. LogTypes' /\ Interviewed'
    <3>1. parked \in Nat /\ (parked # None => parked \in DOMAIN reviews)
      BY DEF Ready, Types, Interviewed
    <3> QED BY <2>1, <2>5, <2>6, <3>1, Transited
  <2>8. OnTurn(j)'
    BY <2>2, <2>4, <2>5, <2>6, Here DEF OnTurn, InPass, InRequest, Interviews, Like
  <2>9. LimitWaits(j)'
    <3>1. ~Waiting
      BY <1>1, <2>2, Here DEF OnTurn
    <3>2. ~Unanswered(reviews, Limit)
      BY <1>1, <2>2, <3>1, Here DEF LimitWaits
    <3> QED BY <2>5, <3>2 DEF LimitWaits
  <2>10. Knows(j)' /\ Grounded(j)'
    BY <2>4, <2>6 DEF Knows, Grounded
  <2>11. Halts'
    <3>1. ckpt = "interview"
      BY <1>1, <2>2, Here DEF OnTurn
    <3> QED BY <2>5, <3>1 DEF Halts
  <2> QED BY <2>4, <2>7, <2>8, <2>9, <2>10, <2>11 DEF Good, Moves, Mind
<1>3. CASE Raise(t) /\ Stays
  <2>1. Still /\ ckpt' = ckpt
    BY <1>3 DEF Park, Stays, Still, evidence, life
  <2> QED BY <1>1, <1>3, <2>1, RaiseGood
<1> QED BY <1>2, <1>3 DEF Park

LEMMA EscalateGood ==
    ASSUME NEW t, Ready(t), Escalate(t)
    PROVE  Good(t)
<1>1. job[t].at = "escalate" /\ job[t].pass /\ ~Waiting
  BY Here DEF Escalate, Is, OnTurn, InPass
<1>2. Still /\ ckpt' = ckpt
  BY DEF Escalate, Still, evidence
<1>3. CASE (Resolved(reviews, Limit) \/ Unanswered(reviews, Limit)) /\ Go(t, "route")
  <2>1. "route" \in Place
    BY DEF Place, InPass
  <2>2. PICK j \in Locals : Do(t, j) /\ j.at = "route" /\ Like(j, job[t])
    BY <1>3, <2>1, Went DEF Ready
  <2>3. Terminal \/ ~Unanswered(reviews, Limit)
    BY <1>1, Here DEF LimitWaits
  <2>4. OnTurn(j)
    BY <1>1, <2>2, Here DEF OnTurn, InPass, InRequest, Interviews, Like
  <2>5. Knows(j) /\ LimitWaits(j) /\ Grounded(j)
    BY <1>3, <2>2, <2>3, Here DEF Knows, LimitWaits, Grounded, Enough
  <2> QED BY <1>2, <2>2, <2>4, <2>5, StillGood DEF Mind
<1>4. CASE Do(t, [job[t] EXCEPT !.at = "request", !.about = Limit, !.next = "route"])
  <2>1. PICK j : j = [job[t] EXCEPT !.at = "request", !.about = Limit, !.next = "route"]
    OBVIOUS
  <2>2. j \in Locals /\ j.at = "request" /\ j.next = "route" /\ j.pass
    BY <1>1, <2>1, Here DEF Locals, Place, InPass, Limit
  <2>3. OnTurn(j)
    BY <1>1, <2>2, Here DEF OnTurn, InPass, InRequest, Interviews
  <2>4. Knows(j) /\ LimitWaits(j) /\ Grounded(j)
    BY <1>1, <2>2, Here DEF Knows, LimitWaits, Grounded
  <2> QED BY <1>2, <1>4, <2>1, <2>2, <2>3, <2>4, StillGood DEF Mind
<1> QED BY <1>3, <1>4 DEF Escalate

\* The review requested is the latest about its subject; if that is not the question limit,
\* none about the limit is open.
LEMMA RequestGood ==
    ASSUME NEW t, Ready(t), RequestReview(t)
    PROVE  Good(t)
<1>1. job[t].at = "request" /\ job[t].pass /\ ~Waiting /\ job[t].next # "idle"
  BY Here DEF RequestReview, Is, OnTurn, InPass, Knows
<1>2. reviews \in Seq(Requested) /\ job[t].about \in Nat
  BY Here DEF Ready, Types, Locals
<1>3. PICK r : r = Request(job[t].about)
  OBVIOUS
<1>4. r \in Requested /\ r.about = job[t].about /\ r.answer = "none"
  BY <1>2, <1>3 DEF Request, Requested
<1>5. reviews' = Append(reviews, r)
  BY <1>3 DEF RequestReview
<1>6. /\ reviews' \in Seq(Requested) /\ DOMAIN reviews' = DOMAIN reviews \cup {Len(reviews) + 1}
      /\ reviews'[Len(reviews) + 1] = r /\ \A i \in DOMAIN reviews : reviews'[i] = reviews[i]
      /\ Len(reviews') = Len(reviews) + 1 /\ Len(reviews) \in Nat
  BY <1>2, <1>4, <1>5, Appends
<1>7. UNCHANGED <<run, parked, lost, profile, minted, asked, audit, ckpt>>
  BY DEF RequestReview, life, interview, evidence
<1>8. PICK j : j = [job[t] EXCEPT !.at = "parkReview", !.review = Len(reviews')]
  OBVIOUS
<1>9. /\ j \in Locals /\ j.at = "parkReview" /\ j.review = Len(reviews) + 1 /\ j.pass
      /\ j.next = job[t].next /\ Do(t, j)
  <2>1. Len(reviews') \in Nat /\ Len(reviews') = Len(reviews) + 1 /\ "parkReview" \in Place
    BY <1>6 DEF Place, InPass
  <2>2. PICK n \in Nat : n = Len(reviews')
    BY <2>1
  <2>3. j = [job[t] EXCEPT !.at = "parkReview", !.review = n]
    BY <1>8, <2>2
  <2>4. j \in Locals /\ j.at = "parkReview" /\ j.review = n /\ j.pass /\ j.next = job[t].next
    BY <1>1, <2>1, <2>3, Here DEF Locals
  <2> QED BY <1>8, <2>1, <2>2, <2>4 DEF RequestReview
<1>10. LogTypes' /\ Interviewed'
  BY <1>6, <1>7 DEF Ready, Types, LogTypes, Interviewed, Open
<1>11. OnTurn(j)' /\ Knows(j)' /\ Grounded(j)'
  BY <1>1, <1>6, <1>7, <1>9, Here
  DEF OnTurn, InPass, InRequest, Interviews, Waiting, AwaitsInformation, Terminal, Knows, Grounded
<1>12. LimitWaits(j)'
  <2>1. LatestAbout(reviews', Limit) = IF r.about = Limit THEN Len(reviews) + 1
                                                         ELSE LatestAbout(reviews, Limit)
    BY <1>2, <1>4, <1>5, LatestOfMore
  <2>2. CASE r.about = Limit
    BY <1>9, <2>1, <2>2 DEF LimitWaits
  <2>3. CASE r.about # Limit
    <3>1. Unanswered(reviews, Limit)' => Unanswered(reviews, Limit)
      <4>1. LatestAbout(reviews, Limit) = 0 \/ LatestAbout(reviews, Limit) \in DOMAIN reviews
        BY <1>2, LatestIs
      <4> QED BY <1>6, <2>1, <2>3, <4>1 DEF Unanswered, AnswerAbout
    <3>2. Unanswered(reviews, Limit) => Terminal
      BY <1>1, Here DEF LimitWaits
    <3> QED BY <1>7, <3>1, <3>2 DEF LimitWaits, Terminal
  <2> QED BY <2>2, <2>3
<1>13. Halts'
  <2>1. ckpt = "preflight" => Terminal \/ (Enough /\ job[t].about # Limit)
    BY <1>1, Here DEF OnTurn, Knows, Halts, Locals
  <2>2. job[t].about # Limit /\ Resolved(reviews, Limit) => Resolved(reviews, Limit)'
    <3> SUFFICES ASSUME job[t].about # Limit, Resolved(reviews, Limit)
                 PROVE  Resolved(reviews, Limit)'
      OBVIOUS
    <3>1. LatestAbout(reviews', Limit) = LatestAbout(reviews, Limit)
      BY <1>2, <1>4, <1>5, LatestOfMore
    <3>2. LatestAbout(reviews, Limit) = 0 \/ LatestAbout(reviews, Limit) \in DOMAIN reviews
      BY <1>2, LatestIs
    <3> QED BY <1>6, <3>1, <3>2 DEF Resolved, AnswerAbout
  <2>3. ckpt = "preflight" => Terminal \/ Enough'
    BY <1>7, <2>1, <2>2 DEF Enough
  <2> QED BY <1>1, <1>7, <2>3, Here DEF Halts, Waiting, AwaitsInformation, Terminal
<1> QED BY <1>9, <1>10, <1>11, <1>12, <1>13 DEF Good, Moves, Mind

LEMMA ParkReviewGood ==
    ASSUME NEW t, Ready(t), ParkForReview(t)
    PROVE  Good(t)
<1>1. /\ job[t].at = "parkReview" /\ job[t].pass /\ ~Waiting /\ job[t].next \in {"route", "route2"}
      /\ job[t].review \in DOMAIN reviews
  BY Here DEF ParkForReview, Is, OnTurn, InPass, Knows, Locals
<1>2. CASE Transition("wait_for_approval") /\ parked' = job[t].review /\ Go(t, job[t].next)
  <2>1. run' \in Standing /\ run'.condition = "waiting" /\ run'.reason = "approval"
        /\ "wait_for_approval" \in Allowed(run) /\ lost' = FALSE
    BY <1>2, Here, Moved DEF Transition
  <2>2. ~Terminal
    BY <2>1, Here, Commands DEF Terminal
  <2>3. job[t].next \in Place
    BY <1>1 DEF Place, InPass
  <2>4. PICK j \in Locals : Do(t, j) /\ j.at = job[t].next /\ Like(j, job[t])
    BY <1>2, <2>3, Went DEF Ready
  <2>5. UNCHANGED <<interview, reviews, audit, ckpt>>
    BY DEF ParkForReview, evidence
  <2>6. Waiting' /\ AwaitsApproval(run)' /\ ~AwaitsInformation' /\ ~Terminal'
    BY <2>1 DEF Waiting, AwaitsInformation, AwaitsApproval, Terminal
  <2>7. parked' \in DOMAIN reviews /\ parked' \in Nat /\ parked' # None
    BY <1>1, <1>2 DEF Ready, Types, None
  <2>8. LogTypes' /\ Interviewed'
    BY <2>1, <2>5, <2>7, Transited
  <2>9. OnTurn(j)'
    BY <1>1, <2>4, <2>6, Here DEF OnTurn, InPass, InRequest, Interviews, Like
  <2>10. LimitWaits(j)'
    <3>1. Unanswered(reviews, Limit) => job[t].review = LatestAbout(reviews, Limit)
      <4>1. ~AwaitsApproval(run)
        BY <1>1 DEF Waiting
      <4> QED BY <1>1, <2>2, <4>1, Here DEF LimitWaits
    <3> QED BY <1>2, <2>5, <2>6, <3>1 DEF LimitWaits
  <2>11. Knows(j)' /\ Grounded(j)'
    BY <1>1, <2>4, <2>6 DEF Knows, Grounded
  <2>12. Halts'
    <3>1. ckpt \in {"interview", "preflight"} /\ (ckpt = "preflight" => Enough)
      BY <1>1, <2>2, Here DEF OnTurn, Halts
    <3>2. Enough => Enough'
      BY <2>5 DEF Enough, interview
    <3> QED BY <2>5, <2>6, <3>1, <3>2 DEF Halts
  <2> QED BY <2>4, <2>8, <2>9, <2>10, <2>11, <2>12 DEF Good, Moves, Mind
<1>3. CASE Raise(t) /\ UNCHANGED <<life, current>>
  <2>1. Still /\ ckpt' = ckpt
    BY <1>3 DEF ParkForReview, Still, evidence, life
  <2> QED BY <1>1, <1>3, <2>1, RaiseGood
<1> QED BY <1>2, <1>3 DEF ParkForReview

\* A pass ends where its Run waits.
LEMMA EndsGood ==
    ASSUME NEW t, Ready(t), Still, EndPass(t), Waiting, job[t].at \in {"route", "route2"}
    PROVE  Good(t)
<1>1. Do(t, Free) /\ ckpt' = "end" /\ ckpt' \in Node
  BY DEF EndPass, Node
<1>2. run' = run
  BY DEF Still, life
<1>3. OnTurn(Free)'
  BY <1>1, <1>2, Here, Freed DEF OnTurn, InPass, InRequest, Interviews, Waiting, AwaitsInformation
<1>4. Knows(Free) /\ LimitWaits(Free) /\ Grounded(Free)
  BY Here, Freed DEF Knows, LimitWaits, Grounded
<1>5. Halts'
  BY <1>1 DEF Halts
<1> QED BY <1>1, <1>3, <1>4, <1>5, Freed, StillMind, StillLog DEF Ready, Good, Moves, Mind

LEMMA RouteInterviewGood ==
    ASSUME NEW t, Ready(t), RouteInterview(t)
    PROVE  Good(t)
<1>1. job[t].at = "route" /\ job[t].pass
  BY Here DEF RouteInterview, Is, OnTurn, InPass
<1>2. Still
  BY DEF RouteInterview, Still, evidence
<1>3. CASE Waiting
  BY <1>1, <1>2, <1>3, EndsGood DEF RouteInterview
<1>4. CASE ~Waiting
  <2> DEFINE j == InNode("preflight")
  <2>1. j.at = "preflight" /\ j.pass
    BY Freed DEF Place, InPass
  <2> HIDE DEF j
  <2>2. run' = run
    BY <1>2 DEF Still, life
  <2>3. OnTurn(j)'
    BY <1>4, <2>1, <2>2, Here
    DEF OnTurn, InPass, InRequest, Interviews, Waiting, AwaitsInformation, RouteInterview, Enter
  <2>4. Knows(j) /\ LimitWaits(j) /\ Grounded(j)
    BY <1>1, <1>4, <2>1, Here DEF Knows, LimitWaits, Grounded
  <2>5. Mind(j)'
    BY <1>2, <2>3, <2>4, StillMind DEF Mind
  <2>6. Halts'
    <3>1. Terminal \/ Enough
      BY <1>1, <1>4, Here DEF Grounded
    <3>2. ~Waiting' /\ (Terminal => Terminal') /\ (Enough => Enough')
      BY <1>2, <1>4 DEF Still, life, interview, Waiting, AwaitsInformation, Terminal, Enough
    <3> QED BY <3>1, <3>2 DEF Halts, Waiting
  <2> QED BY <1>2, <1>4, <2>5, <2>6, EntersGood DEF RouteInterview, j
<1> QED BY <1>3, <1>4

----------------------------------------------------------------------------
(* The preflight and classification nodes. *)

\* A complete preflight has an assessment of the profile.
LEMMA AssessmentSays ==
    ASSUME audit \in Seq(Evidence), Assessment(audit, profile) # None
    PROVE  Says(Assessment(audit, profile)) /\ Assessment(audit, profile) \in Nat
<1> DEFINE scope == Scope(audit, AuditStart(audit, profile))
           risks == {i \in scope : audit[i].kind = "assessed"}
           bound == {i \in scope : audit[i].kind = "bound" /\ audit[i].profile = profile.id}
           last  == CHOOSE i \in risks : \A k \in risks : k <= i
<1>1. Assessment(audit, profile) =
         IF risks # {} /\ audit[last].profile = profile.id /\ Cardinality(bound) = 1 THEN last ELSE None
  BY DEF Assessment
<1>2. risks # {} /\ audit[last].profile = profile.id /\ Assessment(audit, profile) = last
  BY <1>1
<1>3. risks \subseteq 1..Len(audit) /\ Len(audit) \in Nat /\ DOMAIN audit = 1..Len(audit)
  BY DEF Scope
<1>4. \A i \in risks : audit[i].kind = "assessed"
  OBVIOUS
<1>5. last \in risks
  <2> HIDE DEF risks
  <2>1. \E i \in risks : \A k \in risks : k <= i
    BY <1>2, <1>3, GreatestOf
  <2> QED BY <2>1, Zenon
<1> HIDE DEF last, risks
<1> QED BY <1>2, <1>3, <1>4, <1>5 DEF Says

\* One more piece of evidence takes none away.
LEMMA EvidenceGood ==
    ASSUME NEW t, Ready(t), NEW m \in Evidence, audit' = Append(audit, m),
           UNCHANGED <<life, interview, reviews, ckpt>>, NEW j \in Locals, Do(t, j),
           OnTurn(j), LimitWaits(j),
           Knows(j) /\ j.at \notin {"classify", "classifying", "route", "route2"},
           \/ j.at # "bind" /\ (Terminal \/ (j.at = "uncertain" => Says(j.about)))
           \/ /\ j.about = Len(audit') /\ j.seen = profile
              /\ m.kind = "assessed" /\ m.profile = profile.id,
           Terminal \/ Enough
    PROVE  Good(t)
<1>1. audit \in Seq(Evidence)
  BY DEF Ready, Types
<1>2. /\ audit' \in Seq(Evidence) /\ DOMAIN audit' = DOMAIN audit \cup {Len(audit) + 1}
      /\ audit'[Len(audit) + 1] = m /\ \A i \in DOMAIN audit : audit'[i] = audit[i]
      /\ Len(audit') = Len(audit) + 1
  BY <1>1, Appends
<1>3. UNCHANGED <<run, parked, lost, profile, minted, asked, reviews, ckpt>>
  BY DEF life, interview
<1>4. LogTypes' /\ Interviewed'
  BY <1>2, <1>3 DEF Ready, Types, LogTypes, Interviewed, Open
<1>5. OnTurn(j)' /\ LimitWaits(j)' /\ Knows(j)'
  BY <1>3 DEF OnTurn, LimitWaits, Knows, Open, Terminal, Waiting, AwaitsInformation, ParkedAnswer
<1>6. \A a : Says(a) => Says(a)'
  BY <1>2, <1>3 DEF Says
<1>7. Enough => Enough'
  BY <1>3 DEF Enough
<1>8. j.about = Len(audit') /\ m.kind = "assessed" /\ m.profile = profile.id => Says(j.about)'
  BY <1>2, <1>3 DEF Says
<1>9. Grounded(j)'
  BY <1>3, <1>6, <1>7, <1>8 DEF Grounded, Terminal
<1>10. Halts'
  BY <1>3, Here, StillHalts
<1> QED BY <1>4, <1>5, <1>9, <1>10 DEF Good, Moves, Mind

LEMMA PreflightGood ==
    ASSUME NEW t, Ready(t), Preflight(t)
    PROVE  Good(t)
<1>1. job[t].at = "preflight" /\ job[t].pass /\ ~Waiting /\ (Terminal \/ Enough)
  BY Here DEF Preflight, Is, OnTurn, InPass, Grounded
<1>2. profile \in Version /\ audit \in Seq(Evidence)
  BY DEF Ready, Types
<1>3. UNCHANGED <<life, interview, reviews, ckpt>>
  BY DEF Preflight
<1>4. CASE /\ audit' = Append(audit, Mark("started", profile, FALSE))
           /\ Do(t, [job[t] EXCEPT !.seen = profile, !.at = "assess"])
  <2>1. PICK m : m = Mark("started", profile, FALSE)
    OBVIOUS
  <2>2. m \in Evidence
    BY <1>2, <2>1 DEF Mark, Evidence, Version
  <2>3. PICK j : j = [job[t] EXCEPT !.seen = profile, !.at = "assess"]
    OBVIOUS
  <2>4. j \in Locals /\ j.at = "assess" /\ j.seen = profile /\ j.pass
    BY <1>1, <1>2, <2>3, Here DEF Locals, Place, InPass
  <2>5. OnTurn(j)
    BY <1>1, <2>4, Here DEF OnTurn, InPass, InRequest, Interviews
  <2>6. Knows(j) /\ LimitWaits(j)
    BY <1>1, <2>4, Here DEF Knows, LimitWaits
  <2>7. audit' = Append(audit, m) /\ Do(t, j)
    BY <1>4, <2>1, <2>3
  <2> QED BY <1>1, <1>3, <2>2, <2>4, <2>5, <2>6, <2>7, EvidenceGood
<1>5. CASE UNCHANGED audit /\ Assessment(audit, profile) = None /\ Raise(t)
  BY <1>1, <1>3, <1>5, RaiseGood DEF Still
<1>6. CASE /\ UNCHANGED audit /\ Assessment(audit, profile) # None
           /\ Do(t, [job[t] EXCEPT !.about = Assessment(audit, profile), !.at = "uncertain"])
  <2>1. Says(Assessment(audit, profile)) /\ Assessment(audit, profile) \in Nat
    BY <1>2, <1>6, AssessmentSays
  <2>2. PICK j : j = [job[t] EXCEPT !.about = Assessment(audit, profile), !.at = "uncertain"]
    OBVIOUS
  <2>3. j \in Locals /\ j.at = "uncertain" /\ j.about = Assessment(audit, profile) /\ j.pass
    BY <1>1, <2>1, <2>2, Here DEF Locals, Place, InPass
  <2>4. OnTurn(j)
    BY <1>1, <2>3, Here DEF OnTurn, InPass, InRequest, Interviews
  <2>5. Knows(j) /\ LimitWaits(j) /\ Grounded(j)
    BY <1>1, <2>1, <2>3, Here DEF Knows, LimitWaits, Grounded
  <2> QED BY <1>3, <1>6, <2>2, <2>3, <2>4, <2>5, StillGood DEF Mind, Still
<1> QED BY <1>4, <1>5, <1>6 DEF Preflight

LEMMA AssessGood ==
    ASSUME NEW t, Ready(t), Assess(t)
    PROVE  Good(t)
<1>1. job[t].at = "assess" /\ job[t].pass /\ ~Waiting /\ (Terminal \/ Enough) /\ job[t].seen = profile
  BY Here DEF Assess, Is, OnTurn, InPass, Grounded, Knows
<1>2. profile \in Version /\ audit \in Seq(Evidence)
  BY DEF Ready, Types
<1>3. UNCHANGED <<life, interview, reviews, ckpt>>
  BY DEF Assess
<1>4. PICK u \in BOOLEAN : audit' = Append(audit, Mark("assessed", profile, u))
  BY <1>1 DEF Assess
<1>5. PICK m : m = Mark("assessed", profile, u)
  OBVIOUS
<1>6. m \in Evidence /\ m.kind = "assessed" /\ m.profile = profile.id
  BY <1>2, <1>5 DEF Mark, Evidence, Version
<1>7. Len(audit') \in Nat
  BY <1>2, <1>4, <1>5, <1>6
<1>8. PICK j : j = [job[t] EXCEPT !.about = Len(audit'), !.at = "bind"]
  OBVIOUS
<1>9. j \in Locals /\ j.at = "bind" /\ j.seen = profile /\ j.about = Len(audit') /\ j.pass
  <2>1. PICK n \in Nat : n = Len(audit')
    BY <1>7
  <2>2. j = [job[t] EXCEPT !.about = n, !.at = "bind"]
    BY <1>8, <2>1
  <2> QED BY <1>1, <2>1, <2>2, Here DEF Locals, Place, InPass
<1>10. Do(t, j)
  BY <1>8 DEF Assess
<1>11. OnTurn(j)
  BY <1>1, <1>9, Here DEF OnTurn, InPass, InRequest, Interviews
<1>12. Knows(j) /\ LimitWaits(j)
  BY <1>1, <1>9, Here DEF Knows, LimitWaits
<1> QED BY <1>1, <1>3, <1>4, <1>5, <1>6, <1>9, <1>10, <1>11, <1>12, EvidenceGood

LEMMA BindGood ==
    ASSUME NEW t, Ready(t), Bind(t)
    PROVE  Good(t)
<1>1. job[t].at = "bind" /\ job[t].pass /\ ~Waiting
      /\ (Terminal \/ (Enough /\ Says(job[t].about) /\ job[t].seen = profile))
  BY Here DEF Bind, Is, OnTurn, InPass, Grounded
<1>2. job[t].seen \in Version /\ audit \in Seq(Evidence)
  BY Here DEF Ready, Types, Locals
<1>3. UNCHANGED <<life, interview, reviews, ckpt>>
  BY DEF Bind
<1>4. PICK m : m = Mark("bound", job[t].seen, FALSE)
  OBVIOUS
<1>5. m \in Evidence
  BY <1>2, <1>4 DEF Mark, Evidence, Version
<1>6. "uncertain" \in Place
  BY DEF Place, InPass
<1>7. PICK j \in Locals : Do(t, j) /\ j.at = "uncertain" /\ Like(j, job[t])
  BY <1>6, Went DEF Ready, Bind
<1>8. OnTurn(j)
  BY <1>1, <1>7, Here DEF OnTurn, InPass, InRequest, Interviews, Like
<1>9. Knows(j) /\ LimitWaits(j)
  BY <1>1, <1>7, Here DEF Knows, LimitWaits, Like
<1>10. audit' = Append(audit, m) /\ j.about = job[t].about
  BY <1>4, <1>7 DEF Bind, Like
<1>11. (Terminal \/ Says(j.about)) /\ (Terminal \/ Enough)
  BY <1>1, <1>10
<1> QED BY <1>3, <1>5, <1>7, <1>8, <1>9, <1>10, <1>11, EvidenceGood

LEMMA UncertainGood ==
    ASSUME NEW t, Ready(t), HandleUncertainty(t)
    PROVE  Good(t)
<1>1. job[t].at = "uncertain" /\ job[t].pass /\ ~Waiting
      /\ (Terminal \/ (Enough /\ Says(job[t].about)))
  BY Here DEF HandleUncertainty, Is, OnTurn, InPass, Grounded
<1>2. Still /\ ckpt' = ckpt
  BY DEF HandleUncertainty, Still, evidence
<1>3. \E p \in {"request", "route2"} :
         /\ Do(t, [job[t] EXCEPT !.next = "route2", !.at = p])
         /\ p = "route2" => ~audit[job[t].about].uncertain \/ Resolved(reviews, job[t].about)
  BY <1>1 DEF HandleUncertainty
<1>4. PICK p \in {"request", "route2"} :
         /\ Do(t, [job[t] EXCEPT !.next = "route2", !.at = p])
         /\ p = "route2" => ~audit[job[t].about].uncertain \/ Resolved(reviews, job[t].about)
  BY <1>3
<1>5. PICK j : j = [job[t] EXCEPT !.next = "route2", !.at = p]
  OBVIOUS
<1>6. j \in Locals /\ j.at = p /\ j.next = "route2" /\ j.pass /\ j.about = job[t].about
  BY <1>1, <1>5, Here DEF Locals, Place, InPass
<1>7. OnTurn(j)
  BY <1>1, <1>6, Here DEF OnTurn, InPass, InRequest, Interviews
<1>8. Knows(j) /\ LimitWaits(j)
  <2>1. audit \in Seq(Evidence)
    BY DEF Ready, Types
  <2>2. Terminal \/ j.about # Limit
    BY <1>1, <1>6, <2>1 DEF Says, Limit
  <2> QED BY <1>1, <1>6, <2>2, Here DEF Knows, LimitWaits
<1>9. Terminal \/ p # "route2" \/ (Enough /\ Sure)
  BY <1>1, <1>4 DEF Sure, Says
<1>10. Grounded(j)
  BY <1>6, <1>9 DEF Grounded
<1> QED BY <1>2, <1>4, <1>5, <1>6, <1>7, <1>8, <1>10, StillGood DEF Mind

LEMMA RoutePreflightGood ==
    ASSUME NEW t, Ready(t), RoutePreflight(t)
    PROVE  Good(t)
<1>1. job[t].at = "route2" /\ job[t].pass
  BY Here DEF RoutePreflight, Is, OnTurn, InPass
<1>2. Still
  BY DEF RoutePreflight, Still, evidence
<1>3. CASE Waiting
  BY <1>1, <1>2, <1>3, EndsGood DEF RoutePreflight
<1>4. CASE ~Waiting
  <2> DEFINE j == InNode("classify")
  <2>1. j.at = "classify" /\ j.pass
    BY Freed DEF Place, InPass
  <2> HIDE DEF j
  <2>2. run' = run
    BY <1>2 DEF Still, life
  <2>3. OnTurn(j)'
    BY <1>4, <2>1, <2>2, Here
    DEF OnTurn, InPass, InRequest, Interviews, Waiting, AwaitsInformation, RoutePreflight, Enter
  <2>4. Knows(j) /\ LimitWaits(j) /\ Grounded(j)
    BY <1>1, <1>4, <2>1, Here DEF Knows, LimitWaits, Grounded
  <2>5. Mind(j)'
    BY <1>2, <2>3, <2>4, StillMind DEF Mind
  <2>6. Halts'
    BY <1>4, <2>2, BusyHalts DEF RoutePreflight, Enter, Waiting, AwaitsInformation
  <2> QED BY <1>2, <1>4, <2>5, <2>6, EntersGood DEF RoutePreflight, j
<1> QED BY <1>3, <1>4

\* Only the gate is behind the classification.
LEMMA AtGateGood ==
    ASSUME NEW t, Ready(t), Still, Enter(t, "gate"), job[t].at \in {"classify", "toGate"}
    PROVE  Good(t)
<1> DEFINE j == InNode("gate")
<1>1. j.at = "gate" /\ j.pass
  BY Freed DEF Place, InPass
<1> HIDE DEF j
<1>2. run' = run /\ ckpt' = "gate"
  BY DEF Still, life, Enter
<1>3. ~Waiting
  BY Here DEF OnTurn, InPass
<1>4. OnTurn(j)'
  BY <1>1, <1>2, <1>3, Here DEF OnTurn, InPass, InRequest, Interviews, Waiting, AwaitsInformation
<1>5. Knows(j) /\ LimitWaits(j) /\ Grounded(j)
  BY <1>1, Here DEF Knows, LimitWaits, Grounded
<1>6. Mind(j)'
  BY <1>4, <1>5, StillMind DEF Mind
<1>7. Halts'
  BY <1>2, <1>3, BusyHalts DEF Waiting, AwaitsInformation
<1> QED BY <1>6, <1>7, EntersGood DEF j

LEMMA ClassifyGood ==
    ASSUME NEW t, Ready(t), Classify(t) \/ Classified(t) \/ ToGate(t) \/ Leave(t)
    PROVE  Good(t)
<1>1. Still
  BY DEF Classify, Classified, ToGate, Leave, Still, evidence
<1>2. CASE Classified(t)
  <2>1. job[t].at = "classifying" /\ job[t].pass /\ ~Waiting
    BY <1>2, Here DEF Classified, Is, OnTurn, InPass
  <2>2. "toGate" \in Place
    BY DEF Place, InPass
  <2>3. PICK j \in Locals : Do(t, j) /\ j.at = "toGate" /\ Like(j, job[t])
    BY <1>2, <2>2, Went DEF Ready, Classified
  <2>4. OnTurn(j)
    BY <2>1, <2>3, Here DEF OnTurn, InPass, InRequest, Interviews, Like
  <2>5. Knows(j) /\ LimitWaits(j) /\ Grounded(j)
    BY <2>1, <2>3, Here DEF Knows, LimitWaits, Grounded
  <2> QED BY <1>1, <1>2, <2>3, <2>4, <2>5, StillGood DEF Mind, Classified
<1>5. CASE ToGate(t)
  BY <1>1, <1>5, AtGateGood DEF ToGate, Is
<1>3. CASE Classify(t)
  <2>1. CASE Enter(t, "gate")
    BY <1>1, <1>3, <2>1, AtGateGood DEF Classify, Is
  <2>2. CASE Do(t, [job[t] EXCEPT !.seen = profile, !.at = "classifying"]) /\ UNCHANGED ckpt
    <3>1. job[t].at = "classify" /\ job[t].pass /\ profile \in Version
      BY <1>3, Here DEF Classify, Is, OnTurn, InPass, Ready, Types
    <3>2. PICK j : j = [job[t] EXCEPT !.seen = profile, !.at = "classifying"]
      OBVIOUS
    <3>3. j \in Locals /\ j.at = "classifying" /\ j.seen = profile /\ j.pass
      BY <3>1, <3>2, Here DEF Locals, Place, InPass
    <3>4. OnTurn(j)
      BY <3>1, <3>3, Here DEF OnTurn, InPass, InRequest, Interviews
    <3>5. Knows(j) /\ LimitWaits(j) /\ Grounded(j)
      BY <3>1, <3>3, Here DEF Knows, LimitWaits, Grounded
    <3> QED BY <1>1, <2>2, <3>2, <3>3, <3>4, <3>5, StillGood DEF Mind
  <2> QED BY <1>3, <2>1, <2>2 DEF Classify
<1>4. CASE Leave(t)
  <2>1. job[t].at = "gate" /\ ckpt = "gate" /\ ~Waiting
    BY <1>4, Here DEF Leave, Is, OnTurn, InPass
  <2>2. OnTurn(Free)
    BY <2>1, Here, Freed DEF OnTurn, InPass, InRequest, Interviews
  <2>3. Knows(Free) /\ LimitWaits(Free) /\ Grounded(Free)
    BY <2>1, Here, Freed DEF Knows, LimitWaits, Grounded
  <2> QED BY <1>1, <1>4, <2>2, <2>3, Freed, StillGood DEF Mind, Leave
<1> QED BY <1>2, <1>3, <1>4, <1>5

----------------------------------------------------------------------------
(* Requests. *)

\* Of idle threads one is like another.
LEMMA IdleMind ==
    ASSUME NEW i, NEW j, i.at = "idle", j.at = "idle", Mind(i)
    PROVE  Mind(j)
<1>1. OnTurn(j)
  BY DEF Mind, OnTurn, InPass, InRequest
<1>2. Knows(j) /\ LimitWaits(j) /\ Grounded(j)
  BY DEF Mind, Knows, LimitWaits, Grounded
<1> QED BY <1>1, <1>2 DEF Mind

\* What a request becomes in its first step.
LEMMA Receives ==
    ASSUME NEW t, Ready(t), Still, ckpt' = ckpt, job[t].at = "idle", Waiting,
           NEW p \in {"resume", "block"}, Do(t, [Free EXCEPT !.at = p]),
           p = "resume" /\ AwaitsApproval(run) => ParkedAnswer = "yes"
    PROVE  Good(t)
<1>1. p \in Place
  BY DEF Place, InRequest
<1>2. PICK j : j = [Free EXCEPT !.at = p]
  OBVIOUS
<1>3. j \in Locals /\ j.at = p /\ ~j.pass
  BY <1>1, <1>2, Freed
<1>4. OnTurn(j)
  BY <1>3, Here DEF OnTurn, InPass, InRequest, Interviews
<1>5. Knows(j) /\ LimitWaits(j) /\ Grounded(j)
  BY <1>3, Here DEF Knows, LimitWaits, Grounded
<1> QED BY <1>2, <1>3, <1>4, <1>5, StillGood DEF Mind

LEMMA AnswerGood ==
    ASSUME NEW t, Ready(t), Answer(t)
    PROVE  Good(t)
<1>1. job[t].at = "idle" /\ AwaitsInformation /\ profile # Unrecorded /\ Pending(asked) # None
  BY DEF Answer, Receive, Is
<1>2. Still /\ ckpt' = ckpt /\ Waiting
  BY <1>1 DEF Answer, Still, evidence, Waiting
<1>3. Pending(asked) \in Open
  BY <1>1, PendingIs DEF Ready, Types
<1>4. profile \in Version /\ Pending(asked) \in Nat
  BY <1>3 DEF Ready, Types, Open
<1>5. PICK j : j = [Free EXCEPT !.seen = profile, !.question = Pending(asked), !.at = "judge"]
  OBVIOUS
<1>6. j \in Locals /\ j.at = "judge" /\ ~j.pass /\ j.seen = profile /\ j.question \in Open
  <2>1. PICK q \in Nat : q = Pending(asked)
    BY <1>4
  <2>2. j = [Free EXCEPT !.seen = profile, !.question = q, !.at = "judge"]
    BY <1>5, <2>1
  <2>3. "judge" \in Place
    BY DEF Place, InRequest
  <2>4. j \in Locals /\ j.at = "judge" /\ ~j.pass /\ j.seen = profile /\ j.question = q
    BY <1>4, <2>2, <2>3, Freed DEF Locals
  <2> QED BY <1>3, <2>1, <2>4
<1>7. OnTurn(j)
  BY <1>1, <1>2, <1>6, Here DEF OnTurn, InPass, InRequest, Interviews
<1>8. Knows(j) /\ LimitWaits(j) /\ Grounded(j)
  BY <1>1, <1>6, Here DEF Knows, LimitWaits, Grounded
<1> QED BY <1>2, <1>5, <1>6, <1>7, <1>8, StillGood DEF Mind, Answer

LEMMA ResumeGood ==
    ASSUME NEW t, Ready(t), Resume(t)
    PROVE  Good(t)
<1>1. job[t].at = "idle" /\ Still /\ ckpt' = ckpt
  BY DEF Resume, Receive, Is, Still, evidence
<1>2. CASE AwaitsInformation /\ Do(t, [Free EXCEPT !.at = "resume"])
  <2>1. Waiting /\ ~AwaitsApproval(run)
    BY <1>2, Here
  <2> QED BY <1>1, <1>2, <2>1, Receives
<1>3. CASE AwaitsApproval(run) /\ ParkedAnswer = "yes" /\ Do(t, [Free EXCEPT !.at = "resume"])
  BY <1>1, <1>3, Here, Receives
<1>4. CASE AwaitsApproval(run) /\ Do(t, [Free EXCEPT !.at = "block"])
  BY <1>1, <1>4, Here, Receives
<1> QED BY <1>2, <1>3, <1>4 DEF Resume

\* An answer settles one review, and takes no approval back.
LEMMA RespondIs ==
    ASSUME reviews \in Seq(Requested), NEW r \in DOMAIN reviews, reviews[r].answer = "none",
           NEW a \in {"yes", "no"}, Respond(r, a)
    PROVE  /\ reviews' \in Seq(Requested) /\ DOMAIN reviews' = DOMAIN reviews
           /\ reviews'[r].answer = a /\ \A i \in DOMAIN reviews \ {r} : reviews'[i] = reviews[i]
           /\ \A about : /\ LatestAbout(reviews', about) = LatestAbout(reviews, about)
                         /\ Resolved(reviews, about) => Resolved(reviews, about)'
                         /\ Unanswered(reviews, about)' =>
                               Unanswered(reviews, about) /\ LatestAbout(reviews, about) # r
<1>1. reviews' = [reviews EXCEPT ![r].answer = a]
  BY DEF Respond
<1>2. /\ DOMAIN reviews' = DOMAIN reviews /\ reviews' \in Seq(Requested)
      /\ \A i \in DOMAIN reviews \ {r} : reviews'[i] = reviews[i]
      /\ reviews'[r] = [reviews[r] EXCEPT !.answer = a]
  <2>1. PICK x : x = [reviews[r] EXCEPT !.answer = a]
    OBVIOUS
  <2>2. reviews[r] \in Requested
    OBVIOUS
  <2>3. x \in Requested
    BY <2>1, <2>2 DEF Requested
  <2>4. reviews' = [reviews EXCEPT ![r] = x]
    BY <1>1, <2>1
  <2> QED BY <2>1, <2>3, <2>4
<1>3. reviews[r] \in Requested /\ reviews'[r].answer = a /\ reviews'[r].about = reviews[r].about
  <2>1. PICK x \in Requested : x = reviews[r]
    OBVIOUS
  <2>2. reviews'[r] = [x EXCEPT !.answer = a]
    BY <1>2, <2>1
  <2> QED BY <2>1, <2>2 DEF Requested
<1>4. \A i \in DOMAIN reviews : reviews'[i].about = reviews[i].about
  BY <1>2, <1>3
<1>5. ASSUME NEW about
      PROVE  /\ LatestAbout(reviews', about) = LatestAbout(reviews, about)
             /\ Resolved(reviews, about) => Resolved(reviews, about)'
             /\ Unanswered(reviews, about)' =>
                   Unanswered(reviews, about) /\ LatestAbout(reviews, about) # r
  <2>1. LatestAbout(reviews', about) = LatestAbout(reviews, about)
    BY <1>2, <1>4, LatestSame
  <2>2. LatestAbout(reviews, about) = 0 \/ LatestAbout(reviews, about) \in DOMAIN reviews
    BY LatestIs
  <2>3. r # 0
    OBVIOUS
  <2>4. CASE LatestAbout(reviews, about) = r
    BY <1>3, <2>1, <2>3, <2>4 DEF Resolved, Unanswered, AnswerAbout
  <2>5. CASE LatestAbout(reviews, about) # r
    BY <1>2, <2>1, <2>2, <2>5 DEF Resolved, Unanswered, AnswerAbout
  <2> QED BY <2>1, <2>4, <2>5
<1> QED BY <1>2, <1>3, <1>5

\* So what is known of a thread stays.
LEMMA RespondMind ==
    ASSUME Types, Interviewed, Halts, NEW r \in DOMAIN reviews, reviews[r].answer = "none",
           NEW a \in {"yes", "no"}, Respond(r, a), UNCHANGED <<life, interview, audit, ckpt>>
    PROVE  /\ LogTypes' /\ Interviewed' /\ Halts'
           /\ \A j : Mind(j) => Mind(j)'
           /\ \A j : LimitWaits(j) => LimitWaits(j)'
<1>0. reviews \in Seq(Requested) /\ (parked # None => parked \in DOMAIN reviews)
  BY DEF Types, Interviewed
<1>1. /\ reviews' \in Seq(Requested) /\ DOMAIN reviews' = DOMAIN reviews
      /\ \A i \in DOMAIN reviews \ {r} : reviews'[i] = reviews[i]
      /\ \A about : /\ LatestAbout(reviews', about) = LatestAbout(reviews, about)
                    /\ Resolved(reviews, about) => Resolved(reviews, about)'
                    /\ Unanswered(reviews, about)' => Unanswered(reviews, about)
  BY <1>0, RespondIs
<1>2. UNCHANGED <<run, parked, lost, profile, minted, asked, audit, ckpt>>
  BY DEF life, interview
<1>3. LogTypes' /\ Interviewed'
  BY <1>1, <1>2 DEF Types, LogTypes, Interviewed, Open
<1>4. ParkedAnswer = "yes" => ParkedAnswer' = "yes"
  BY <1>0, <1>1, <1>2 DEF ParkedAnswer
<1>5. ASSUME NEW j PROVE LimitWaits(j) => LimitWaits(j)'
  BY <1>1, <1>2 DEF LimitWaits, Terminal, Waiting, AwaitsInformation
<1>6. ASSUME NEW j, Mind(j) PROVE Mind(j)'
  <2>1. OnTurn(j)'
    BY <1>2, <1>4, <1>6 DEF Mind, OnTurn, Terminal, Waiting, AwaitsInformation
  <2>2. Knows(j)'
    BY <1>1, <1>2, <1>6 DEF Mind, Knows, Open, Terminal
  <2>3. Enough => Enough'
    BY <1>1, <1>2 DEF Enough
  <2>4. \A b : Says(b) <=> Says(b)'
    BY <1>2 DEF Says
  <2>5. Sure => Sure'
    BY <1>1, <1>2, <2>4 DEF Sure
  <2>6. Grounded(j)'
    BY <1>2, <1>6, <2>3, <2>4, <2>5 DEF Mind, Grounded, Terminal, Waiting, AwaitsInformation
  <2> QED BY <1>5, <1>6, <2>1, <2>2, <2>6 DEF Mind
<1>7. Halts'
  <2>1. Enough => Enough'
    BY <1>1, <1>2 DEF Enough
  <2> QED BY <1>2, <2>1 DEF Halts, Waiting, AwaitsInformation, Terminal
<1> QED BY <1>3, <1>5, <1>6, <1>7

LEMMA ResolveGood ==
    ASSUME NEW t, Ready(t), Resolve(t)
    PROVE  Good(t)
<1>1. /\ job[t].at = "idle" /\ AwaitsApproval(run) /\ ParkedAnswer = "none"
      /\ UNCHANGED <<life, interview, audit, ckpt>>
  BY DEF Resolve, Receive, Is, evidence
<1>2. parked \in DOMAIN reviews /\ reviews[parked].answer = "none" /\ parked # None
      /\ reviews \in Seq(Requested)
  BY <1>1 DEF ParkedAnswer, Ready, Types, Interviewed
<1>3. PICK a \in {"yes", "no"}, p \in {"resume", "block"} :
         /\ Respond(parked, a) /\ Do(t, [Free EXCEPT !.at = p])
         /\ p = "resume" => a = "yes"
  BY DEF Resolve
<1>4. LogTypes' /\ Interviewed' /\ Halts' /\ \A j : LimitWaits(j) => LimitWaits(j)'
  BY <1>1, <1>2, <1>3, RespondMind DEF Ready
<1>5. reviews'[parked].answer = a
  BY <1>2, <1>3, RespondIs
<1>6. ParkedAnswer' = a
  BY <1>1, <1>2, <1>5 DEF ParkedAnswer, life
<1>7. run' = run /\ ckpt' = ckpt
  BY <1>1 DEF life
<1>8. PICK j : j = [Free EXCEPT !.at = p]
  OBVIOUS
<1>9. j \in Locals /\ j.at = p /\ ~j.pass
  <2>1. p \in Place
    BY DEF Place, InRequest
  <2> QED BY <1>8, <2>1, Freed
<1>10. OnTurn(j)'
  BY <1>1, <1>3, <1>6, <1>7, <1>9, Here
  DEF OnTurn, InPass, InRequest, Interviews, Waiting, AwaitsInformation, Terminal
<1>11. LimitWaits(j)'
  <2>1. LimitWaits(j)
    BY <1>1, <1>9, Here DEF LimitWaits
  <2> QED BY <1>4, <2>1
<1>12. Knows(j)' /\ Grounded(j)'
  BY <1>9 DEF Knows, Grounded
<1> QED BY <1>3, <1>4, <1>8, <1>9, <1>10, <1>11, <1>12 DEF Good, Moves, Mind

\* The answer closes the open question.
LEMMA JudgeGood ==
    ASSUME NEW t, Ready(t), Judge(t)
    PROVE  Good(t)
<1> DEFINE q == job[t].question
<1>1. /\ job[t].at = "judge" /\ job[t].seen = profile /\ profile # Unrecorded /\ q \in Open
      /\ ~job[t].pass /\ (AwaitsInformation \/ Terminal)
  BY Here DEF Judge, Is, Knows, OnTurn, InRequest
<1>2. UNCHANGED <<run, parked, lost, profile, reviews, audit, ckpt>>
  BY DEF Judge, life, evidence
<1>3. asked \in Seq(Asked) /\ profile \in Version /\ minted \in Nat /\ q \in DOMAIN asked
      /\ \A k \in Open : k = q
  BY <1>1 DEF Ready, Types, Interviewed, Open
<1>4. asked' = [asked EXCEPT ![q].answers = @ + 1]
  BY DEF Judge
<1> HIDE DEF q
<1>5. /\ asked' \in Seq(Asked) /\ DOMAIN asked' = DOMAIN asked
      /\ asked'[q].answers # 0 /\ \A i \in DOMAIN asked \ {q} : asked'[i] = asked[i]
  <2>1. PICK x \in Asked : x = asked[q]
    BY <1>3
  <2>2. PICK y : y = [x EXCEPT !.answers = x.answers + 1]
    OBVIOUS
  <2>3. y \in Asked /\ y.answers # 0
    BY <2>2 DEF Asked
  <2>4. asked' = [asked EXCEPT ![q] = y]
    BY <1>4, <2>1, <2>2
  <2> QED BY <1>3, <2>3, <2>4
<1>6. Open' = {}
  BY <1>3, <1>5 DEF Open
<1>7. Interviewed' /\ Halts'
  BY <1>1, <1>2, <1>6, StillHalts DEF Ready, Interviewed
<1>8. minted' \in Nat => LogTypes'
  BY <1>2, <1>5 DEF Ready, Types, LogTypes
<1>9. CASE \E stated \in SUBSET {asked[q].field} :
              /\ minted' = minted + 1
              /\ Do(t, [job[t] EXCEPT !.new = Profile(minted', job[t].seen.facts \cup stated),
                                      !.at = "record"])
  <2>1. PICK stated \in SUBSET {asked[q].field} :
              /\ minted' = minted + 1
              /\ Do(t, [job[t] EXCEPT !.new = Profile(minted', job[t].seen.facts \cup stated),
                                      !.at = "record"])
    BY <1>9
  <2>2. asked[q].field \in Field
    <3>1. asked[q] \in Asked
      BY <1>3
    <3> QED BY <3>1 DEF Asked
  <2>3. PICK p : p = Profile(minted', job[t].seen.facts \cup stated)
    OBVIOUS
  <2>4. p \in Version /\ p # Unrecorded /\ minted' \in Nat
    BY <1>1, <1>3, <2>1, <2>2, <2>3 DEF Profile, Version, Unrecorded, None
  <2>5. PICK j : j = [job[t] EXCEPT !.new = p, !.at = "record"]
    OBVIOUS
  <2>6. j \in Locals /\ j.at = "record" /\ j.new = p /\ ~j.pass
    BY <1>1, <2>4, <2>5, Here DEF Locals, Place, InRequest
  <2>7. OnTurn(j)'
    BY <1>1, <1>2, <2>6, Here
    DEF OnTurn, InPass, InRequest, Interviews, Waiting, AwaitsInformation, Terminal
  <2>8. Knows(j)' /\ LimitWaits(j)' /\ Grounded(j)'
    BY <1>1, <1>2, <1>6, <2>4, <2>6, Here DEF Knows, LimitWaits, Grounded, Terminal
  <2> QED BY <1>7, <1>8, <2>1, <2>3, <2>4, <2>5, <2>6, <2>7, <2>8 DEF Good, Moves, Mind
<1>10. CASE (\E p \in {"resume", "followUp"} : Go(t, p)) /\ UNCHANGED minted
  <2>1. PICK p \in {"resume", "followUp"} : Go(t, p)
    BY <1>10
  <2>2. p \in Place
    BY DEF Place, InRequest
  <2>3. PICK j \in Locals : Do(t, j) /\ j.at = p /\ Like(j, job[t])
    BY <2>1, <2>2, Went DEF Ready
  <2>4. OnTurn(j)'
    BY <1>1, <1>2, <2>3, Here
    DEF OnTurn, InPass, InRequest, Interviews, Waiting, AwaitsInformation, AwaitsApproval, Terminal, Like
  <2>5. j.question \in DOMAIN asked'
    BY <1>3, <1>5, <2>3 DEF Like, q
  <2>6. Knows(j)' /\ LimitWaits(j)' /\ Grounded(j)'
    BY <1>1, <1>2, <1>6, <2>3, <2>5, Here DEF Knows, LimitWaits, Grounded, Terminal, Like
  <2> QED BY <1>3, <1>7, <1>8, <1>10, <2>3, <2>4, <2>6 DEF Good, Moves, Mind
<1> QED BY <1>9, <1>10 DEF Judge, q

\* A new version is recorded when no question is open.
LEMMA RecordGood ==
    ASSUME NEW t, Ready(t), Record(t)
    PROVE  Good(t)
<1>1. /\ job[t].at = "record" /\ job[t].new # Unrecorded /\ job[t].new \in Version /\ Open = {}
      /\ ~job[t].pass /\ (AwaitsInformation \/ Terminal)
  BY Here DEF Record, Is, Knows, OnTurn, InRequest, Locals
<1>2. UNCHANGED <<run, parked, lost, minted, asked, reviews, audit, ckpt>> /\ profile' = job[t].new
  BY DEF Record, life, evidence
<1>3. LogTypes' /\ Interviewed'
  BY <1>1, <1>2 DEF Ready, Types, LogTypes, Interviewed, Open
<1>4. "resume" \in Place
  BY DEF Place, InRequest
<1>5. PICK j \in Locals : Do(t, j) /\ j.at = "resume" /\ Like(j, job[t])
  BY <1>4, Went DEF Ready, Record
<1>6. OnTurn(j)'
  BY <1>1, <1>2, <1>5, Here
  DEF OnTurn, InPass, InRequest, Interviews, Waiting, AwaitsInformation, AwaitsApproval, Terminal, Like
<1>7. Knows(j)' /\ LimitWaits(j)' /\ Grounded(j)'
  BY <1>1, <1>2, <1>5, Here DEF Knows, LimitWaits, Grounded, Terminal
<1>8. Halts'
  BY <1>1, <1>2, Here DEF Halts, Waiting, AwaitsInformation, Terminal
<1> QED BY <1>3, <1>5, <1>6, <1>7, <1>8 DEF Good, Moves, Mind

LEMMA FollowUpGood ==
    ASSUME NEW t, Ready(t), FollowUp(t)
    PROVE  Good(t)
<1>1. job[t].at = "followUp" /\ job[t].question \in DOMAIN asked /\ asked \in Seq(Asked)
  BY Here DEF FollowUp, Is, Knows, Ready, Types
<1>2. asked[job[t].question].field \in Field
  <2>1. asked[job[t].question] \in Asked
    BY <1>1
  <2> QED BY <2>1 DEF Asked
<1> QED BY <1>1, <1>2, QuestionGood DEF FollowUp

\* The Run resumes from an approval only when that review was approved.
LEMMA ResumeRunGood ==
    ASSUME NEW t, Ready(t), ResumeRun(t)
    PROVE  Good(t)
<1>1. job[t].at = "resume" /\ ~job[t].pass /\ (Waiting \/ Terminal)
      /\ (AwaitsApproval(run) => ParkedAnswer = "yes")
  BY Here DEF ResumeRun, Is, OnTurn, InRequest
<1>2. CASE Transition("resume") /\ Go(t, "dispatch")
  <2>1. run' \in Standing /\ run'.condition = "active" /\ "resume" \in Allowed(run) /\ lost' = FALSE
    BY <1>2, Here, Moved DEF Transition
  <2>2. ~Terminal
    BY <2>1, Here, Commands DEF Terminal
  <2>3. ~Waiting' /\ ~Terminal' /\ ~AwaitsApproval(run)'
    BY <2>1 DEF Waiting, AwaitsInformation, AwaitsApproval, Terminal
  <2>4. UNCHANGED <<parked, interview, reviews, audit, ckpt>>
    BY DEF ResumeRun, evidence
  <2>5. LogTypes' /\ Interviewed'
    <3>1. parked \in Nat /\ (parked # None => parked \in DOMAIN reviews)
      BY DEF Ready, Types, Interviewed
    <3> QED BY <2>1, <2>3, <2>4, <3>1, Transited
  <2>6. "dispatch" \in Place
    BY DEF Place, InRequest
  <2>7. PICK j \in Locals : Do(t, j) /\ j.at = "dispatch" /\ Like(j, job[t])
    BY <1>2, <2>6, Went DEF Ready
  <2>8. OnTurn(j)'
    BY <1>1, <2>2, <2>3, <2>4, <2>7, Here DEF Halts, OnTurn, InPass, InRequest, Interviews, Like
  <2>9. ~Unanswered(reviews, Limit)
    <3>1. SUFFICES ASSUME Unanswered(reviews, Limit) PROVE FALSE
      OBVIOUS
    <3>2. AwaitsApproval(run) /\ parked = LatestAbout(reviews, Limit)
      BY <1>1, <2>2, <3>1, Here DEF LimitWaits
    <3>3. ParkedAnswer = "yes"
      BY <1>1, <3>2
    <3> QED BY <3>1, <3>2, <3>3 DEF ParkedAnswer, Unanswered, AnswerAbout, None
  <2>10. LimitWaits(j)' /\ Knows(j)' /\ Grounded(j)'
    BY <2>4, <2>7, <2>9 DEF LimitWaits, Knows, Grounded
  <2>11. Halts'
    <3>1. ckpt = "preflight" => Enough
      BY <2>2, Here DEF Halts
    <3>2. Enough => Enough'
      BY <2>4 DEF Enough, interview
    <3> QED BY <2>3, <2>4, <3>1, <3>2 DEF Halts, Waiting
  <2> QED BY <2>5, <2>7, <2>8, <2>10, <2>11 DEF Good, Moves, Mind
<1>3. CASE Raise(t) /\ Stays
  <2>1. Still /\ ckpt' = ckpt
    BY <1>3 DEF ResumeRun, Stays, Still, evidence, life
  <2> QED BY <1>1, <1>3, <2>1, RaiseGood
<1> QED BY <1>2, <1>3 DEF ResumeRun

\* The pass goes on where the checkpoint stands: at most, in what the preflight node needs.
LEMMA DispatchGood ==
    ASSUME NEW t, Ready(t), Dispatch(t)
    PROVE  Good(t)
<1>1. Still /\ job[t].at = "dispatch" /\ ~Waiting
  BY Here DEF Dispatch, Is, Still, evidence, OnTurn
<1>2. PICK n \in {"interview", "preflight"} : n = IF ckpt = "end" THEN "interview" ELSE ckpt
  BY <1>1, Here DEF OnTurn
<1>3. Enter(t, n) /\ ckpt' = n
  BY <1>2 DEF Dispatch, Enter
<1>4. PICK j : j = InNode(n)
  OBVIOUS
<1>5. j.at = n /\ j.pass
  BY <1>4, Freed DEF Place, InPass
<1>6. run' = run /\ ~Waiting' /\ (Terminal => Terminal') /\ (Enough => Enough')
  BY <1>1 DEF Still, life, interview, Waiting, AwaitsInformation, Terminal, Enough
<1>7. n = "preflight" => Terminal \/ Enough
  BY <1>2, Here DEF Halts
<1>8. Halts'
  BY <1>3, <1>6, <1>7 DEF Halts, Waiting
<1>9. OnTurn(j)'
  BY <1>3, <1>5, <1>6 DEF OnTurn, InPass, InRequest, Interviews
<1>10. Knows(j) /\ LimitWaits(j)
  BY <1>1, <1>3, <1>5, Here DEF Knows, LimitWaits
<1>11. Grounded(j)'
  BY <1>3, <1>5, <1>6, <1>7 DEF Grounded
<1>12. Mind(InNode(n))'
  BY <1>1, <1>4, <1>9, <1>10, <1>11, StillMind DEF Mind
<1> QED BY <1>1, <1>3, <1>8, <1>12, EntersGood

\* A Run that ended stays as it is known.
LEMMA EndedMind ==
    ASSUME Types, Interviewed, run' \in Standing, Terminal', lost' \in BOOLEAN,
           UNCHANGED <<parked, interview, reviews, audit, ckpt>>
    PROVE  LogTypes' /\ Interviewed' /\ Halts' /\ \A j : Mind(j) => Mind(j)'
<1>1. UNCHANGED <<parked, profile, minted, asked, reviews, audit, ckpt>>
  BY DEF interview
<1>2. ~Waiting' /\ ~AwaitsApproval(run)' /\ ~AwaitsInformation'
  BY DEF Terminal, Waiting, AwaitsInformation, AwaitsApproval
<1>3. LogTypes' /\ Interviewed'
  BY <1>1, <1>2 DEF Types, LogTypes, Interviewed, Open
<1>4. ASSUME NEW j, Mind(j) PROVE Mind(j)'
  <2>1. OnTurn(j)'
    BY <1>1, <1>2, <1>4 DEF Mind, OnTurn
  <2>2. Knows(j)' /\ LimitWaits(j)' /\ Grounded(j)'
    BY <1>1, <1>4 DEF Mind, Knows, LimitWaits, Grounded, Open
  <2> QED BY <2>1, <2>2 DEF Mind
<1>5. Halts'
  BY <1>2 DEF Halts
<1> QED BY <1>3, <1>4, <1>5

\* A request or a failing pass ends its Run, or finds it ended.
LEMMA EndGood ==
    ASSUME NEW t, Ready(t), BlockRun(t) \/ Fail(t)
    PROVE  Good(t)
<1>1. UNCHANGED <<parked, interview, reviews, audit, ckpt>> /\ Do(t, Free)
  BY DEF BlockRun, Fail, evidence
<1>2. PICK c \in {"block", "fail"} :
         IF c \in Allowed(run) THEN Transition(c) ELSE Stays
  BY DEF BlockRun, Fail
<1>3. run' \in Standing /\ Terminal' /\ lost' \in BOOLEAN
  <2>1. CASE c \in Allowed(run)
    <3>1. run' = NextState(run, c) /\ lost' = FALSE
      BY <1>2, <2>1 DEF Transition
    <3>2. run' \in Standing /\ Terminal'
      BY <3>1, Here, Moved DEF Terminal
    <3>3. lost' \in BOOLEAN
      BY <3>1
    <3> QED BY <3>2, <3>3
  <2>2. CASE c \notin Allowed(run)
    <3>1. Terminal
      BY <2>2, Here, Commands DEF Terminal
    <3> QED BY <1>2, <2>2, <3>1, Here DEF Terminal, Stays, Ready, Types
  <2> QED BY <2>1, <2>2
<1>4. LogTypes' /\ Interviewed' /\ Halts'
  BY <1>1, <1>3, EndedMind DEF Ready
<1>5. ~Waiting'
  BY <1>3 DEF Terminal, Waiting, AwaitsInformation, AwaitsApproval
<1>6. OnTurn(Free)'
  BY <1>3, <1>5, Freed DEF OnTurn, InPass, InRequest, Interviews
<1>7. Knows(Free)' /\ LimitWaits(Free)' /\ Grounded(Free)'
  BY <1>3, Freed DEF Knows, LimitWaits, Grounded
<1> QED BY <1>1, <1>4, <1>6, <1>7, Freed DEF Good, Moves, Mind

\* A RESUME or FAIL that raised leaves the Run to nobody; what else raised is Raise.
LEMMA FaultGood ==
    ASSUME NEW t, Ready(t), Fault(t)
    PROVE  Good(t)
<1>1. /\ UNCHANGED <<run, parked, interview, reviews, audit, ckpt>> /\ Raise(t)
      /\ job[t].at \notin {"idle", "gate"}
      /\ lost' = (lost \/ job[t].at = "dispatch" \/ job[t].at = "failing")
  BY DEF Fault, evidence, Is
<1>2. lost \in BOOLEAN
  BY DEF Ready, Types
<1>3. CASE job[t].at \notin {"dispatch", "failing"}
  <2>1. lost' = lost
    BY <1>1, <1>2, <1>3
  <2> QED BY <1>1, <1>3, <2>1, RaiseGood DEF Still, life
<1>4. CASE job[t].at \in {"dispatch", "failing"}
  <2>1. Do(t, Free)
    BY <1>1, <1>4, Here DEF Raise, Is, OnTurn, InRequest
  <2>2. lost' = TRUE
    BY <1>1, <1>4
  <2>3. UNCHANGED <<run, parked, profile, minted, asked, reviews, audit, ckpt>>
    BY <1>1 DEF interview
  <2>4. LogTypes' /\ Interviewed'
    BY <2>2, <2>3 DEF Ready, Types, LogTypes, Interviewed, Open
  <2>5. Halts'
    BY <2>3, Here, StillHalts
  <2>6. OnTurn(Free)'
    BY <2>2, Freed DEF OnTurn, InPass, InRequest, Interviews
  <2>7. LimitWaits(Free)
    BY <1>4, Here, Freed DEF LimitWaits, OnTurn
  <2>8. LimitWaits(Free)' /\ Knows(Free)' /\ Grounded(Free)'
    BY <2>3, <2>7, Freed
    DEF LimitWaits, Knows, Grounded, Terminal, Waiting, AwaitsInformation
  <2> QED BY <2>1, <2>4, <2>5, <2>6, <2>8, Freed DEF Good, Moves, Mind
<1> QED BY <1>3, <1>4

----------------------------------------------------------------------------
(* The invariant. *)

LEMMA WorkingGood ==
    ASSUME NEW t, Ready(t), Working(t) \/ Fault(t)
    PROVE  Good(t)
<1>1. CASE Interviewing(t)
  BY <1>1, BeginGood, ExtractGood, AskGood, AskNextGood, WaitGood, ParkGood, EscalateGood,
     RequestGood, ParkReviewGood, RouteInterviewGood DEF Interviewing
<1>2. CASE Assessing(t)
  BY <1>2, PreflightGood, AssessGood, BindGood, UncertainGood, RoutePreflightGood, ClassifyGood
  DEF Assessing
<1>3. CASE Answering(t)
  BY <1>3, JudgeGood, RecordGood, FollowUpGood, ResumeRunGood, DispatchGood, EndGood DEF Answering
<1> QED BY <1>1, <1>2, <1>3, FaultGood DEF Working

\* A thread at work is where its step begins.
LEMMA AtWork ==
    ASSUME NEW t, Working(t) \/ Fault(t)
    PROVE  ~Is(t, "idle")
<1>1. CASE Interviewing(t)
  BY <1>1 DEF Interviewing, Begin, Extract, Ask, AskNext, Wait, Park, Escalate, RequestReview,
              ParkForReview, RouteInterview, Is
<1>2. CASE Assessing(t)
  BY <1>2 DEF Assessing, Preflight, Assess, Bind, HandleUncertainty, RoutePreflight, Classify,
              Classified, ToGate, Leave, Is
<1>3. CASE Answering(t)
  BY <1>3 DEF Answering, Judge, Record, FollowUp, ResumeRun, Dispatch, BlockRun, Fail, Is
<1>4. CASE Fault(t)
  BY <1>4 DEF Fault
<1> QED BY <1>1, <1>2, <1>3, <1>4 DEF Working

LEMMA IntakeInit == Init => IntakeInv
<1> SUFFICES ASSUME Init PROVE IntakeInv
  OBVIOUS
<1>0. Submitter \in Thread
  BY IntakeAssumption
<1>1. run.condition = "active" /\ run \in Standing
  <2>1. "start" \in DOMAIN AdvanceStage /\ AdvanceStage["start"] = "planning"
        /\ "start" \notin DOMAIN TerminalOutcome
    BY DEF AdvanceStage, TerminalOutcome
  <2>2. run = [Plain(InitialRun, "active") EXCEPT !.stage = "planning"]
    BY <2>1 DEF Init, NextState
  <2>3. PICK i : i = InitialRun
    OBVIOUS
  <2>4. i \in RunRecord
    BY <2>3 DEF InitialRun, RunRecord, Stage, Condition, Reason, Outcome
  <2>5. Plain(i, "active") \in RunRecord /\ Plain(i, "active").condition = "active"
    BY <2>4 DEF Plain, RunRecord, Condition, Reason, Outcome
  <2>6. "planning" \in Stage
    BY DEF Stage
  <2> HIDE DEF Plain
  <2> QED BY <2>2, <2>3, <2>5, <2>6 DEF Standing, RunRecord
<1>2. InNode("interview") \in Locals /\ InNode("interview").at = "interview" /\ InNode("interview").pass
  BY Freed DEF Place, InPass
<1>3. Types
  <2>1. profile \in Version
    BY DEF Init, Unrecorded, Profile, Version, None
  <2>2. job \in [Thread -> Locals]
    BY <1>2, Freed DEF Init
  <2>3. lost \in BOOLEAN
    BY DEF Init
  <2> QED BY <1>1, <2>1, <2>2, <2>3 DEF Types, Init, Node, None
<1>4. ~Waiting /\ ~AwaitsApproval(run)
  BY <1>1 DEF Waiting, AwaitsInformation, AwaitsApproval
<1>5. Interviewed
  BY <1>4 DEF Interviewed, Init, Open, None
<1>6. \A u \in Thread \ {Submitter} : Is(u, "idle")
  BY Freed DEF Init, Is
<1>7. job[Submitter] = InNode("interview")
  BY <1>0 DEF Init
<1>8. ~Unanswered(reviews, Limit)
  <2>1. reviews \in Seq(Requested) /\ DOMAIN reviews = {}
    BY DEF Init
  <2>2. LatestAbout(reviews, Limit) = 0
    BY <2>1, LatestIs
  <2> QED BY <2>2 DEF Unanswered, AnswerAbout
<1>9. OnTurn(InNode("interview")) /\ Halts
  BY <1>2, <1>4 DEF Init, Halts, OnTurn, InPass, InRequest, Interviews
<1>10. Knows(InNode("interview")) /\ LimitWaits(InNode("interview")) /\ Grounded(InNode("interview"))
  BY <1>2, <1>8 DEF Knows, LimitWaits, Grounded
<1> QED BY <1>0, <1>3, <1>5, <1>6, <1>7, <1>9, <1>10 DEF IntakeInv, Turn, Mind

LEMMA IntakeNext ==
    ASSUME Patient, IntakeInv, [Next]_vars
    PROVE  IntakeInv'
<1>1. PICK w \in Thread : Turn(w)
  BY DEF IntakeInv
<1>2. Types /\ Interviewed /\ Halts /\ Ready(w)
  BY <1>1 DEF IntakeInv, Turn, Ready
\* Of a step that leaves the threads where they are.
<1>3. ASSUME LogTypes', Interviewed', Halts', UNCHANGED job, Mind(job[w])'
      PROVE  IntakeInv'
  <2>1. (\A u \in Thread \ {w} : Is(u, "idle"))'
    BY <1>1, <1>3 DEF Turn, Is
  <2>2. Types'
    BY <1>2, <1>3, TypeParts
  <2> QED BY <1>3, <2>1, <2>2 DEF IntakeInv, Turn
<1>4. CASE UNCHANGED vars
  <2>1. Still /\ ckpt' = ckpt /\ job' = job /\ ckpt' \in Node
    BY <1>2, <1>4 DEF vars, Still, life, interview, evidence, Types
  <2>2. LogTypes' /\ Interviewed' /\ Halts'
    BY <1>2, <2>1, StillLog, StillHalts DEF Still, life, interview
  <2>3. Mind(job[w])'
    <3>1. Mind(job[w])
      BY <1>2 DEF Ready
    <3>2. PICK j : j = job[w]
      OBVIOUS
    <3>3. Mind(j)'
      BY <2>1, <3>1, <3>2, StillMind
    <3> QED BY <2>1, <3>2, <3>3
  <2> QED BY <1>3, <2>1, <2>2, <2>3
<1>5. ASSUME NEW t \in Thread, Working(t) \/ Fault(t)
      PROVE  IntakeInv'
  <2>1. t = w
    BY <1>1, <1>5, AtWork DEF Turn
  <2> QED BY <1>1, <1>2, <1>5, <2>1, WorkingGood, MovesTurn DEF Turn
<1>6. ASSUME NEW t \in Thread, Answer(t) \/ Resume(t) \/ Resolve(t)
      PROVE  IntakeInv'
  <2>1. Idle
    BY <1>6 DEF Answer, Resume, Resolve, Receive
  <2>2. Ready(t)
    BY <1>2, <2>1, IdleMind DEF Ready, Idle, Is
  <2>3. Good(t)
    BY <1>6, <2>2, AnswerGood, ResumeGood, ResolveGood
  <2> QED BY <1>2, <2>1, <2>3, MovesTurn DEF Idle
<1>7. ASSUME NEW t \in Thread, Govern(t)
      PROVE  IntakeInv'
  <2>1. PICK r \in DOMAIN reviews, a \in {"yes", "no"} : reviews[r].answer = "none" /\ Respond(r, a)
    BY <1>7 DEF Govern
  <2>2. UNCHANGED <<life, interview, audit, ckpt>> /\ job' = job
    BY <1>7 DEF Govern, evidence
  <2>3. LogTypes' /\ Interviewed' /\ Halts' /\ \A j : Mind(j) => Mind(j)'
    BY <1>2, <2>1, <2>2, RespondMind
  <2>4. PICK j : j = job[w]
    OBVIOUS
  <2>5. Mind(j)'
    BY <1>2, <2>3, <2>4 DEF Ready
  <2> QED BY <1>3, <2>2, <2>3, <2>4, <2>5
<1>8. ASSUME NEW t \in Thread, Cancel(t)
      PROVE  IntakeInv'
  <2>1. run' \in Standing /\ Terminal' /\ lost' \in BOOLEAN
    BY <1>2, <1>8, Moved DEF Cancel, Transition, Terminal, Types
  <2>2. UNCHANGED <<parked, interview, reviews, audit, ckpt>> /\ job' = job
    BY <1>8 DEF Cancel, evidence
  <2>3. LogTypes' /\ Interviewed' /\ Halts' /\ \A j : Mind(j) => Mind(j)'
    BY <1>2, <2>1, <2>2, EndedMind
  <2>4. PICK j : j = job[w]
    OBVIOUS
  <2>5. Mind(j)'
    BY <1>2, <2>3, <2>4 DEF Ready
  <2> QED BY <1>3, <2>2, <2>3, <2>4, <2>5
<1> QED BY <1>4, <1>5, <1>6, <1>7, <1>8 DEF Next, Requesting

\* Where clients wait until no thread is at work, at every moment at most one thread is, and
\* what it read of profile, questions and reviews before it called a model still holds after it,
\* whatever read or append raised; a Run nobody executes is active only after a RESUME or FAIL
\* that raised.
THEOREM IntakeInvariance ==
    ASSUME Patient
    PROVE  Spec => []IntakeInv
<1>1. Init => IntakeInv
  BY IntakeInit
<1>2. IntakeInv /\ [Next]_vars => IntakeInv'
  BY IntakeNext
<1> QED BY <1>1, <1>2, PTL DEF Spec

\* With reads and appends that raise, before or after they are durable, cancellations and answers
\* of reviews at any step, a Run no thread works on has left its intake or can be taken on by a
\* request: a question that waits was asked for the profile that answer compares it with
\* (answer_risk_interview). But for a Run left active by a durable RESUME that raised, or by a
\* FAIL that was refused or raised: resume refuses it, and only a cancellation ends it.
THEOREM NobodyIsStuckAlways ==
    ASSUME Patient
    PROVE  Spec => []NobodyIsStuck
<1>1. ASSUME IntakeInv PROVE NobodyIsStuck
  <2> SUFFICES ASSUME Idle PROVE NobodyIsStuck
    BY DEF NobodyIsStuck
  <2>1. PICK t \in Thread : Turn(t)
    BY <1>1 DEF IntakeInv
  <2>2. Terminal \/ Waiting \/ ckpt = "gate" \/ lost
    BY <2>1 DEF Turn, Mind, OnTurn, Idle, Is
  <2>3. Pending(asked) = None \/ Pending(asked) \in Open
    BY <1>1, PendingIs DEF IntakeInv, Types
  <2>4. Pending(asked) = None \/ asked[Pending(asked)].profile = profile.id
    BY <1>1, <2>3 DEF IntakeInv, Interviewed
  <2>5. AwaitsApproval(run) => parked # None
    BY <1>1 DEF IntakeInv, Interviewed
  <2>6. run.condition \in {"active", "waiting", "terminal"}
    BY <1>1, Commands DEF IntakeInv, Types
  <2>7. run.condition = "waiting" => Waiting
    BY <1>1, Commands DEF IntakeInv, Types, Waiting, AwaitsInformation, AwaitsApproval
  <2> QED BY <2>2, <2>4, <2>5, <2>6, <2>7 DEF NobodyIsStuck, Ended, Abandoned, Waiting, Terminal
<1>2. Spec => []IntakeInv
  BY IntakeInvariance
<1> QED BY <1>1, <1>2, PTL

\* Only the classification node classifies.
LEMMA ClassifiedChanges ==
    ASSUME Next, classified' # classified
    PROVE  \E t \in Thread : Classified(t)
<1>1. PICK t \in Thread : Working(t) \/ Requesting(t) \/ Fault(t)
  BY DEF Next
<1>2. CASE Interviewing(t)
  BY <1>2 DEF Interviewing, Begin, Extract, Ask, AskNext, AppendQuestion, Wait, Park, Escalate,
              RequestReview, ParkForReview, RouteInterview, evidence
<1>3. CASE Assessing(t)
  BY <1>3 DEF Assessing, Preflight, Assess, Bind, HandleUncertainty, RoutePreflight, Classify,
              ToGate, Leave, evidence
<1>4. CASE Answering(t)
  BY <1>4 DEF Answering, Judge, Record, FollowUp, AppendQuestion, ResumeRun, Dispatch, BlockRun,
              Fail, evidence
<1>5. CASE Requesting(t) \/ Fault(t)
  BY <1>5 DEF Requesting, Answer, Resume, Resolve, Govern, Cancel, Fault, evidence
<1> QED BY <1>1, <1>2, <1>3, <1>4, <1>5 DEF Working

\* The profile a pass classifies is the latest one, and complete or approved incomplete, and
\* an assessment of it is certain or approved (route_after_interview, route_after_preflight);
\* no answer takes an approval back.
THEOREM ClassifiedOnGroundsAlways ==
    ASSUME Patient
    PROVE  Spec => ClassifiedOnGrounds
<1> DEFINE Grounds(p) ==
         \/ run.condition = "terminal"
         \/ /\ Missing(p) = {} \/ Resolved(reviews, Limit)
            /\ \E a \in DOMAIN audit : /\ audit[a].kind = "assessed" /\ audit[a].profile = p.id
                                       /\ ~audit[a].uncertain \/ Resolved(reviews, a)
<1>1. ASSUME IntakeInv, Next, NEW p \in classified' \ classified
      PROVE  Grounds(p)
  <2>1. PICK t \in Thread : Classified(t)
    BY <1>1, ClassifiedChanges
  <2>2. p = job[t].seen /\ job[t].at = "classifying"
    BY <1>1, <2>1 DEF Classified, Is
  <2>3. Mind(job[t])
    BY <1>1, <2>2 DEF IntakeInv, Turn, Is
  <2>4. p = profile /\ ~Waiting
    BY <2>2, <2>3 DEF Mind, Knows, OnTurn, InPass
  <2>5. Terminal \/ (Enough /\ Sure)
    BY <2>2, <2>3, <2>4 DEF Mind, Grounded
  <2> QED BY <2>4, <2>5 DEF Enough, Sure, Says, Terminal
<1>2. IntakeInv /\ [Next]_vars => [\A p \in classified' \ classified : Grounds(p)]_vars
  BY <1>1
<1>3. Spec => []IntakeInv
  BY IntakeInvariance
<1> QED BY <1>2, <1>3, PTL DEF Spec, ClassifiedOnGrounds

=============================================================================
