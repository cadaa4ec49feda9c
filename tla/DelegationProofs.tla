-------------------------- MODULE DelegationProofs --------------------------
(***************************************************************************)
(* Proofs about Delegation, for any plan, threads, reviews and faults, if  *)
(* cancellations and passes wait for each other: each delegation no fault  *)
(* touched is settled once, the auditor accepts what the producers write,  *)
(* and no park is lost.                                                    *)
(***************************************************************************)
EXTENDS Delegation, FiniteSetTheorems, SequenceTheorems, TLAPS

----------------------------------------------------------------------------
(* The inductive invariant. *)

(* What a trail looks like. *)

IsSeq(s) == \E S : s \in Seq(S)

\* A trail no fault touched: k records that start and park it, then its completion (e = 1),
\* its settlement and its message (m = 2), with one reason.
Layout(tr, k, e, m, r) ==
    /\ Len(tr) = k + e + m
    /\ \A n \in 1..k : tr[n].type = IF n = 1 THEN "started" ELSE "parked"
    /\ e = 1 => k >= 1 /\ tr[k + 1] = Completed(r)
    /\ m >= 1 => tr[k + e + 1] = Settled(r)
    /\ m = 2 => tr[k + e + 2] = Message(r)
    /\ m >= 1 /\ e = 0 => k <= 1 /\ r \in {"stopped", "abnormal"}

\* Nobody works on it: it is empty, parked, skipped, or over.
Rest(tr) == \E k \in Nat, e \in 0..1, m \in 0..2, r \in StopReason :
               Layout(tr, k, e, m, r) /\ (m = 0 => e = 0 /\ k # 1) /\ (m = 1 => e = 0)

(* Base: what a thread does and in which role. *)

Fields == {"at", "role", "done", "pend", "inv", "resumed", "reason", "review", "over"}

Writes(j) == j.at \in {"run", "park", "raised", "close", "settle", "tell"}

Works(j) == j.at \notin {"idle", "save"}

\* Progress that is empty, or ends with one of the given invocations.
Carries(progress, handles) ==
    IsSeq(progress) /\ (progress # <<>> => progress[Len(progress)].inv \in handles)

\* What a thread does and in which role.
Sound(j, handles) ==
    /\ DOMAIN j = Fields /\ IsSeq(j.done)
    /\ j.at = "idle" => j = Free
    /\ j.at \in {"task", "tune", "parkrun", "save"} => j.role = "step"
    /\ j.at \in {"run", "park", "raised"} => j.role \in {"step", "helper"}
    /\ j.at = "look" => j.role \in {"drop", "giveup", "cancel", "fail"}
    /\ j.at = "tune" \/ j.role = "helper" => j.pend = None
    /\ Writes(j) => j.inv \in handles
    /\ j.pend = None \/ j.pend \in handles
    /\ j.at \in {"parkrun", "save"} => Carries(j.done, handles)

\* Whatever is in the log, at work or carried was given out first.
Base ==
    /\ DOMAIN trail = Invocation
    /\ \A i \in Invocation : IsSeq(trail[i]) /\ (i \notin DOMAIN minted => trail[i] = <<>>)
    /\ IsSeq(minted) /\ Len(minted) <= MaxInvocations
    /\ DOMAIN job = Thread /\ \A t \in Thread : Sound(job[t], DOMAIN minted)
    /\ Carries(ckpt, DOMAIN minted)

(* Alone: one thread is at work at a time. *)

\* With patience, one thread at a time works on the log.
Alone ==
    /\ \A t, u \in Thread : Works(job[t]) /\ Works(job[u]) => t = u
    /\ \A t \in Thread : Works(job[t]) => life = "active" \/ (life = "waiting" /\ job[t].role = "cancel")
    /\ life = "new" => Idle /\ minted = <<>> /\ ckpt = <<>>
    /\ (\E t \in Thread : job[t].at = "move") \/ life = "ended" => Open = {}

(* Shape: how far each trail is, by what its thread does; nobody works on the others. *)

\* What thread's job j says of the trail it works on.
Phase(tr, j) == \E k \in Nat, e \in 0..1, m \in 0..2, r \in StopReason :
    /\ Layout(tr, k, e, m, r)
    /\ j.at \in {"run", "park", "raised"} => e = 0 /\ m = 0 /\ k >= 1 /\ (j.resumed <=> k >= 2)
    /\ j.at = "close" => e = 0 /\ m = 0 /\ k >= 2 /\ j.reason \in StopReason
    /\ j.at = "settle" => m = 0 /\ IF e = 1 THEN r = j.reason ELSE k <= 1 /\ j.reason = "abnormal"
    /\ j.at = "tell" => m = 1 /\ r = j.reason

\* Only the thread at work leaves a trail in the middle of a phase.
Shape ==
    /\ \A t \in Thread : Writes(job[t]) /\ job[t].inv \in Whole => Phase(trail[job[t].inv], job[t])
    /\ \A i \in Whole : (\A t \in Thread : Writes(job[t]) => job[t].inv # i) => Rest(trail[i])

(* TrailOrder: nothing parks once it is settled. *)

\* The delegation was settled.
Over(i) == At(trail[i], "settled") # {}

InOrder(tr) == \A n \in At(tr, "settled"), k \in At(tr, "parked") : k < n

\* No trail parks after its settlement.
TrailOrder ==
    /\ \A i \in Invocation : InOrder(trail[i])
    /\ \A t \in Thread : job[t].at \in {"run", "park"} => ~Over(job[t].inv)
    /\ \A t \in Thread : job[t].at = "tell" => Over(job[t].inv)

(* PlanInv: what is worked on belongs to the next position of the plan. *)

\* Progress without a pending outcome, and progress with one, its last: that of the task at
\* its position.
NonePending(p) == \A n \in DOMAIN p : p[n].status # "pending"

Marked(p, tasks) ==
    p # <<>> => /\ p[Len(p)].status = "pending" /\ tasks[p[Len(p)].inv] = Len(p)
                /\ \A n \in 1..(Len(p) - 1) : p[n].status # "pending"

\* What a thread works on belongs to the next position of the plan, and every earlier one is decided.
InPlan(j, tasks) ==
    /\ j.at = "tune" \/ (j.at = "task" /\ j.done # <<>>) => tasks # <<>>
    /\ j.role \in {"step", "helper", "drop"} /\ (Writes(j) \/ j.at \in {"task", "tune", "look"}) =>
          NonePending(j.done)
    /\ j.at = "task" /\ j.pend # None => tasks[j.pend] = Len(j.done) + 1
    /\ Writes(j) /\ j.role = "step" => tasks[j.inv] = Len(j.done) + 1
    /\ Writes(j) /\ j.role = "helper" => tasks[j.inv] = None
    /\ j.role = "drop" /\ (Writes(j) \/ j.at = "look") => j.pend # None
    /\ j.at \in {"parkrun", "save"} => Marked(j.done, tasks)

\* The first task is the first that is given out, so an empty checkpoint repeats it.
PlanInv ==
    /\ \A t \in Thread : InPlan(job[t], minted)
    /\ Marked(ckpt, minted)
    /\ minted # <<>> => \E k \in DOMAIN minted : minted[k] = 1

(* OneWaits: at most one invocation waits for its end. *)

\* Parked, never closed, and no fault touched it.
Waits == {i \in Whole : HasParked(trail[i]) /\ At(trail[i], "message") = {}}

\* The progress a pass may be resumed from: that of the checkpoint, or of one still to be
\* saved; its mark is the invocation it ends with.
Marks == {p \in {ckpt} \cup {job[t].done : t \in {u \in Thread : job[u].at \in {"parkrun", "save"}}} : p # <<>>}

Mark(p) == p[Len(p)].inv

\* Nothing waits, and nothing is carried, but for S.
Clear(S) == Waits \subseteq S /\ \A p \in Marks : Over(Mark(p)) \/ Mark(p) \in S

\* The exceptions of NoParkIsLost.
Except == HelperParked \/ ~DelegatedOnce

\* One invocation waits, and what a pass would resume is over or that one.
Clean == /\ \A p \in Marks : Over(Mark(p)) \/ Clear({Mark(p)})
         /\ \A i, k \in Waits : i = k

\* What a thread works on is all that waits.
Clears(j) ==
    /\ Writes(j) /\ j.role \in {"step", "helper", "drop"} => Clear({j.inv})
    /\ j.at = "tune" => Clear({})
    /\ j.at = "task" /\ j.pend = None =>
          Clear({}) \/ \E k \in DOMAIN minted : minted[k] = Len(j.done) + 1
    /\ j.at = "task" /\ j.pend # None => Clear({j.pend}) \/ Over(j.pend)
    /\ j.at = "look" /\ j.role = "drop" => Clear({j.pend}) /\ IsOpen(trail[j.pend])

\* An exception lasts: no invocation is taken back, and no park is.
OneWaits == Except \/ (Clean /\ \A t \in Thread : Clears(job[t]))

\* The inductive invariant: a park waits only while its task is the one the pass or the
\* checkpoint is at, so that closing it, resuming it or settling it leaves none behind.
Lifecycle == Base /\ Alone /\ Shape /\ TrailOrder /\ PlanInv /\ OneWaits

----------------------------------------------------------------------------
(* Trails and their layout. *)

LEMMA LayoutRecords ==
  ASSUME NEW tr, IsSeq(tr), NEW k \in Nat, NEW e \in 0..1, NEW m \in 0..2, NEW r, Layout(tr, k, e, m, r)
  PROVE  /\ DOMAIN tr = 1..(k + e + m)
         /\ At(tr, "started") = IF k >= 1 THEN {1} ELSE {}
         /\ At(tr, "parked") = 2..k
         /\ At(tr, "completed") = IF e = 1 THEN {k + 1} ELSE {}
         /\ At(tr, "settled") = IF m >= 1 THEN {k + e + 1} ELSE {}
         /\ At(tr, "message") = IF m = 2 THEN {k + e + 2} ELSE {}
         /\ \A n \in At(tr, "completed") \cup At(tr, "settled") \cup At(tr, "message") : tr[n].reason = r
<1>1. DOMAIN tr = 1..(k + e + m)
  BY LenProperties DEF IsSeq, Layout
<1>2. \A n \in DOMAIN tr : \/ n \in 1..k
                           \/ e = 1 /\ n = k + 1
                           \/ m >= 1 /\ n = k + e + 1
                           \/ m = 2 /\ n = k + e + 2
  BY <1>1
<1>3. \A n \in 1..k : n \in DOMAIN tr /\ tr[n].type = IF n = 1 THEN "started" ELSE "parked"
  BY <1>1 DEF Layout
<1>4. e = 1 => k + 1 \in DOMAIN tr /\ tr[k + 1].type = "completed" /\ tr[k + 1].reason = r
  BY <1>1 DEF Layout, Completed
<1>5. m >= 1 => k + e + 1 \in DOMAIN tr /\ tr[k + e + 1].type = "settled" /\ tr[k + e + 1].reason = r
  BY <1>1 DEF Layout, Settled
<1>6. m = 2 => k + e + 2 \in DOMAIN tr /\ tr[k + e + 2].type = "message" /\ tr[k + e + 2].reason = r
  BY <1>1 DEF Layout, Message
<1>7. \A n \in At(tr, "started") : n \in 1..k /\ n = 1
  BY <1>2, <1>3, <1>4, <1>5, <1>6 DEF At
<1>8. \A n \in At(tr, "parked") : n \in 2..k
  BY <1>2, <1>3, <1>4, <1>5, <1>6 DEF At
<1>9. \A n \in At(tr, "completed") : e = 1 /\ n = k + 1
  BY <1>2, <1>3, <1>4, <1>5, <1>6 DEF At
<1>10. \A n \in At(tr, "settled") : m >= 1 /\ n = k + e + 1
  BY <1>2, <1>3, <1>4, <1>5, <1>6 DEF At
<1>11. \A n \in At(tr, "message") : m = 2 /\ n = k + e + 2
  BY <1>2, <1>3, <1>4, <1>5, <1>6 DEF At
<1>12. At(tr, "started") = IF k >= 1 THEN {1} ELSE {}
  BY <1>7, <1>3 DEF At
<1>13. At(tr, "parked") = 2..k
  BY <1>8, <1>3 DEF At
<1>14. At(tr, "completed") = IF e = 1 THEN {k + 1} ELSE {}
  BY <1>9, <1>4 DEF At
<1>15. At(tr, "settled") = IF m >= 1 THEN {k + e + 1} ELSE {}
  BY <1>10, <1>5 DEF At
<1>16. At(tr, "message") = IF m = 2 THEN {k + e + 2} ELSE {}
  BY <1>11, <1>6 DEF At
<1>17. \A n \in At(tr, "completed") \cup At(tr, "settled") \cup At(tr, "message") : tr[n].reason = r
  BY <1>9, <1>10, <1>11, <1>4, <1>5, <1>6
<1> QED BY <1>1, <1>12, <1>13, <1>14, <1>15, <1>16, <1>17

LEMMA OneOf == \A x : Cardinality({x}) = 1 /\ One({x}) /\ The({x}) = x
  BY FS_Singleton DEF One, The

LEMMA NoneOf == ~One({}) /\ Cardinality({}) = 0
  BY FS_EmptySet DEF One

LEMMA LastFirst == ASSUME NEW x \in Nat PROVE Last({x}) = x /\ First({x}) = x
  BY DEF Last, First

LEMMA LastOf == ASSUME NEW k \in Nat, k >= 2 PROVE Last(2..k) = k
  BY DEF Last

\* At most one record of each kind.
LEMMA LayoutOnce ==
  ASSUME NEW tr, IsSeq(tr), NEW k \in Nat, NEW e \in 0..1, NEW m \in 0..2, NEW r, Layout(tr, k, e, m, r)
  PROVE  \A type \in {"started", "completed", "settled", "message"} : Cardinality(At(tr, type)) <= 1
<1>1. /\ At(tr, "started") = {} \/ At(tr, "started") = {1}
      /\ At(tr, "completed") = {} \/ At(tr, "completed") = {k + 1}
      /\ At(tr, "settled") = {} \/ At(tr, "settled") = {k + e + 1}
      /\ At(tr, "message") = {} \/ At(tr, "message") = {k + e + 2}
  <2>1. /\ At(tr, "started") = IF k >= 1 THEN {1} ELSE {}
        /\ At(tr, "completed") = IF e = 1 THEN {k + 1} ELSE {}
        /\ At(tr, "settled") = IF m >= 1 THEN {k + e + 1} ELSE {}
        /\ At(tr, "message") = IF m = 2 THEN {k + e + 2} ELSE {}
    BY LayoutRecords
  <2> QED BY <2>1
<1>2. \A S : (S = {} \/ \E x : S = {x}) => Cardinality(S) \in {0, 1}
  BY OneOf, NoneOf
<1>3. ASSUME NEW type \in {"started", "completed", "settled", "message"}
      PROVE  Cardinality(At(tr, type)) \in {0, 1}
  BY <1>1, <1>2
<1> QED BY <1>3

\* What a trail needs to be closed by the finalizer, and when it is closed.
LEMMA LayoutPark ==
  ASSUME NEW tr, IsSeq(tr), NEW k \in Nat, NEW e \in 0..1, NEW m \in 0..2, NEW r, Layout(tr, k, e, m, r)
  PROVE  /\ HasParked(tr) <=> k >= 2
         /\ IsOpen(tr) <=> k >= 2 /\ m # 2
         /\ k >= 2 /\ m = 0 /\ e = 0 => Repairable(tr) /\ Missing(tr) = "close" /\ Ends(tr) = {}
<1>1. HasParked(tr) <=> k >= 2
  <2>1. At(tr, "parked") = 2..k
    BY LayoutRecords
  <2>2. (2..k # {}) <=> k >= 2
    <3>1. k >= 2 => 2 \in 2..k
      OBVIOUS
    <3>2. k < 2 => \A n : n \notin 2..k
      OBVIOUS
    <3> QED BY <3>1, <3>2
  <2> QED BY <2>1, <2>2 DEF HasParked
<1>2. ASSUME k >= 2
      PROVE  /\ LastPark(tr) = k
             /\ Ends(tr) = At(tr, "completed")
             /\ LateSettlements(tr) = At(tr, "settled")
             /\ LateMessages(tr) = At(tr, "message")
             /\ {n \in At(tr, "started") : n < LastPark(tr)} = {1}
  <2>1. LastPark(tr) = k
    BY <1>2, LayoutRecords, LastOf DEF LastPark
  <2>2. /\ \A n \in At(tr, "completed") \cup At(tr, "settled") \cup At(tr, "message") : n > k
        /\ At(tr, "started") = {1}
    BY <1>2, LayoutRecords
  <2>3. Ends(tr) = At(tr, "completed")
    BY <2>1, <2>2 DEF Ends, After
  <2>4. LateSettlements(tr) = At(tr, "settled")
    BY <2>1, <2>2 DEF LateSettlements, After
  <2>5. LateMessages(tr) = At(tr, "message")
    BY <2>1, <2>2 DEF LateMessages, After
  <2> QED BY <1>2, <2>1, <2>2, <2>3, <2>4, <2>5
<1>3. ASSUME k >= 2, m = 2  PROVE PrefixClosed(tr)
  <2>1. e = 1
    BY <1>3 DEF Layout
  <2>2. /\ At(tr, "completed") = {k + 1} /\ At(tr, "settled") = {k + 2} /\ At(tr, "message") = {k + 3}
        /\ tr[k + 1].reason = r /\ tr[k + 2].reason = r /\ tr[k + 3].reason = r
    BY <1>3, <2>1, LayoutRecords
  <2>3. One(Ends(tr)) /\ The(Ends(tr)) = k + 1
    BY <1>3, <1>2, <2>2, OneOf
  <2>4. After(tr, The(Ends(tr)), "settled") = {k + 2}
    BY <2>2, <2>3 DEF After
  <2>5. After(tr, k + 2, "message") = {k + 3}
    BY <2>2 DEF After
  <2> QED BY <1>3, <1>2, <2>2, <2>3, <2>4, <2>5, OneOf DEF PrefixClosed
<1>4. ASSUME k >= 2, m # 2  PROVE ~PrefixClosed(tr)
  <2>1. SUFFICES ASSUME PrefixClosed(tr) PROVE FALSE
    OBVIOUS
  <2>2. One(After(tr, The(After(tr, The(Ends(tr)), "settled")), "message"))
    BY <2>1 DEF PrefixClosed
  <2>3. At(tr, "message") = {}
    BY <1>4, LayoutRecords
  <2> QED BY <2>2, <2>3, NoneOf DEF After
<1>5. ASSUME k >= 2, m = 0, e = 0
      PROVE  Repairable(tr) /\ Missing(tr) = "close" /\ Ends(tr) = {}
  <2>1. Ends(tr) = {} /\ LateSettlements(tr) = {} /\ LateMessages(tr) = {}
    BY <1>5, <1>2, LayoutRecords
  <2>2. One({n \in At(tr, "started") : n < LastPark(tr)})
    BY <1>5, <1>2, OneOf
  <2>3. Missing(tr) = "close"
    BY <2>1 DEF Missing
  <2>4. Cardinality(Ends(tr)) <= 1 /\ Cardinality(LateSettlements(tr)) <= 1
        /\ Cardinality(LateMessages(tr)) <= 1
    BY <2>1, NoneOf
  <2>5. Repairable(tr)
    <3> DEFINE Before == {n \in At(tr, "started") : n < LastPark(tr)}
    <3>1. One(Before)
      BY <2>2
    <3>2. Before = {n \in At(tr, "started") : n < LastPark(tr)}
      OBVIOUS
    <3> HIDE DEF Before
    <3> QED BY ONLY <3>1, <3>2, <2>1, <2>4, Zenon DEF Repairable
  <2> QED BY <2>1, <2>3, <2>5
<1> QED BY <1>1, <1>3, <1>4, <1>5 DEF IsOpen

----------------------------------------------------------------------------
(* Sequences, jobs and writes. *)

LEMMA SeqFacts ==
  ASSUME NEW s, IsSeq(s)
  PROVE  /\ Len(s) \in Nat /\ DOMAIN s = 1..Len(s)
         /\ \A x : /\ IsSeq(Append(s, x)) /\ Len(Append(s, x)) = Len(s) + 1
                   /\ DOMAIN Append(s, x) = 1..(Len(s) + 1)
                   /\ Append(s, x)[Len(s) + 1] = x
                   /\ \A n \in 1..Len(s) : Append(s, x)[n] = s[n]
<1>1. PICK S : s \in Seq(S)
  BY DEF IsSeq
<1>2. Len(s) \in Nat /\ DOMAIN s = 1..Len(s)
  BY <1>1, LenProperties
<1>3. ASSUME NEW x
      PROVE  /\ IsSeq(Append(s, x)) /\ Len(Append(s, x)) = Len(s) + 1
             /\ DOMAIN Append(s, x) = 1..(Len(s) + 1)
             /\ Append(s, x)[Len(s) + 1] = x
             /\ \A n \in 1..Len(s) : Append(s, x)[n] = s[n]
  <2>1. s \in Seq(S \cup {x}) /\ x \in S \cup {x}
    BY <1>1
  <2>2. Append(s, x) \in Seq(S \cup {x})
    BY <2>1
  <2> QED BY <2>1, <2>2, <1>2, AppendProperties, LenProperties DEF IsSeq
<1> QED BY <1>2, <1>3

LEMMA NoElement == IsSeq(<<>>) /\ Len(<<>>) = 0 /\ DOMAIN <<>> = {}
<1>1. <<>> \in Seq({}) /\ Len(<<>>) = 0
  OBVIOUS
<1>2. DOMAIN <<>> = 1..0 /\ 1..0 = {}
  BY <1>1, LenProperties
<1>3. IsSeq(<<>>)
  BY <1>1 DEF IsSeq
<1> QED BY ONLY <1>1, <1>2, <1>3

LEMMA Bounds == {Plan, MaxInvocations, MaxReviews, MaxFaults} \subseteq Nat
  BY DelegationAssumption

LEMMA FreshHandle ==
  ASSUME Base, NEW p, Mint(p)
  PROVE  /\ New \in Invocation /\ New \notin DOMAIN minted /\ trail[New] = <<>>
         /\ DOMAIN minted' = DOMAIN minted \cup {New} /\ New \in DOMAIN minted'
         /\ minted'[New] = p /\ \A i \in DOMAIN minted : minted'[i] = minted[i]
         /\ IsSeq(minted') /\ Len(minted') <= MaxInvocations
<1>1. /\ Len(minted) \in Nat /\ DOMAIN minted = 1..Len(minted)
      /\ minted' = Append(minted, p) /\ Len(minted) + 1 <= MaxInvocations
      /\ MaxInvocations \in Nat
  BY SeqFacts, Bounds DEF Base, Mint, New
<1>2. New \in Invocation /\ New \notin DOMAIN minted
  BY <1>1 DEF New, Invocation
<1>3. /\ IsSeq(minted') /\ Len(minted') = New /\ minted'[New] = p
      /\ DOMAIN minted' = 1..New /\ \A i \in 1..Len(minted) : minted'[i] = minted[i]
  BY <1>1, SeqFacts DEF Base, New
<1> QED BY <1>1, <1>2, <1>3 DEF Base, New

\* A written or broken append.
Appended(i, rec) == /\ DOMAIN trail' = Invocation
                    /\ trail'[i] = Append(trail[i], rec)
                    /\ \A k \in Invocation : k # i => trail'[k] = trail[k]

LEMMA PutAppends ==
  ASSUME Base, NEW i \in Invocation, NEW rec, Put(i, rec)
  PROVE  Appended(i, rec) /\ IsSeq(trail'[i])
  BY SeqFacts DEF Base, Put, Appended

\* The two ways a write goes.
Good(t, i, rec, next) == Appended(i, rec) /\ Do(t, next) /\ NoFault

Bad(t, i, rec, caught) ==
    /\ Do(t, caught) /\ hurt' = hurt \cup {i}
    /\ Appended(i, rec) \/ trail' = trail

LEMMA WriteGoes ==
  ASSUME Base, NEW t, NEW i \in Invocation, NEW rec, NEW next, NEW caught, Write(t, i, rec, next, caught)
  PROVE  /\ Good(t, i, rec, next) \/ Bad(t, i, rec, caught)
         /\ UNCHANGED <<asked, answered, life, review, ckpt>>
         /\ DOMAIN trail' = Invocation /\ \A k \in Invocation : k # i => trail'[k] = trail[k]
         /\ IsSeq(trail'[i])
<1>1. i # None
  BY Bounds DEF Invocation, None
<1>2. Put(i, rec) => Appended(i, rec) /\ IsSeq(trail'[i])
  BY PutAppends
<1>3. (hurt \cup ({i} \ {None})) = hurt \cup {i}
  BY <1>1
<1> QED BY <1>2, <1>3 DEF Write, Good, Bad, Hurt, Base, run, Appended

LEMMA DoSets ==
  ASSUME DOMAIN job = Thread, NEW t \in Thread, NEW j, Do(t, j)
  PROVE  DOMAIN job' = Thread /\ job'[t] = j /\ \A u \in Thread : u # t => job'[u] = job[u]
  BY DEF Do

\* How the records of a job change.
LEMMA FieldsOfFree ==
  /\ DOMAIN Free = Fields /\ Free.at = "idle" /\ Free.role = "none" /\ Free.done = <<>>
  /\ Free.pend = None /\ Free.inv = None /\ Free.resumed = FALSE /\ Free.reason = "abnormal"
  /\ Free.review = None /\ Free.over = FALSE
  BY DEF Free, Fields

LEMMA FieldsOfFailing ==
  /\ DOMAIN Failing = Fields /\ Failing.at = "look" /\ Failing.role = "fail" /\ Failing.done = <<>>
  /\ Failing.pend = None /\ Failing.inv = None
  BY FieldsOfFree DEF Failing, Fields

LEMMA FieldsOfEnding ==
  /\ DOMAIN Ending = Fields /\ Ending.at = "check" /\ Ending.role = "complete" /\ Ending.done = <<>>
  /\ Ending.pend = None /\ Ending.inv = None
  BY FieldsOfFree DEF Ending, Fields

Adds(x, j, i, status) == /\ DOMAIN x = Fields /\ x.at = "task" /\ x.role = j.role
         /\ x.done = Append(j.done, [inv |-> i, status |-> status])
         /\ x.pend = None /\ x.inv = None /\ x.resumed = FALSE

LEMMA FieldsOfRecorded ==
  ASSUME NEW j, DOMAIN j = Fields, NEW i, NEW status
  PROVE  Adds(Recorded(j, i, status), j, i, status)
  BY DEF Recorded, Fields, Adds

LEMMA FieldsOfTold ==
  ASSUME NEW j, DOMAIN j = Fields
  PROVE  LET x == Told(j) IN
         CASE j.role \in {"cancel", "fail"} ->
                x.at = "check" /\ x.role = j.role /\ DOMAIN x = Fields /\ x.done = j.done /\ x.pend = j.pend
           [] j.role = "giveup" -> x = Ending
           [] j.role = "drop" -> /\ DOMAIN x = Fields /\ x.at = "task" /\ x.role = "step" /\ x.pend = None
                                 /\ x.done = Append(j.done, [inv |-> j.pend, status |-> "failed"])
           [] j.role = "helper" /\ ~j.over ->
                /\ DOMAIN x = Fields /\ x.at = "task" /\ x.role = "step" /\ x.pend = j.pend /\ x.done = j.done
           [] j.role = "step" /\ ~j.over ->
                /\ DOMAIN x = Fields /\ x.at \in {"task", "tune"} /\ x.role = "step" /\ x.pend = None
                /\ x.done = Append(j.done, [inv |-> j.inv, status |-> TaskStatus(j.reason)])
           [] OTHER -> x = Failing
<1>1. CASE j.role \in {"cancel", "fail"}
  BY <1>1 DEF Told, Fields
<1>2. CASE j.role = "giveup"
  BY <1>2 DEF Told, GivenUp
<1>3. CASE j.role = "drop"
  <2> DEFINE x == Recorded(j, j.pend, "failed")
  <2>1. /\ DOMAIN x = Fields /\ x.at = "task" /\ x.pend = None
        /\ x.done = Append(j.done, [inv |-> j.pend, status |-> "failed"])
    <3>1. Adds(x, j, j.pend, "failed")
      BY FieldsOfRecorded
    <3> QED BY <3>1 DEF Adds
  <2>2. Told(j) = [x EXCEPT !.role = "step"]
    BY <1>3 DEF Told, GivenUp
  <2> HIDE DEF x
  <2> QED BY <1>3, <2>1, <2>2 DEF Fields
<1>4. CASE j.role = "helper" /\ ~j.over
  BY <1>4 DEF Told, Fields
<1>5. CASE j.role = "step" /\ ~j.over
  <2> DEFINE x == Recorded(j, j.inv, TaskStatus(j.reason))
             at == IF j.reason = "completed" /\ minted[j.inv] \in Tunes THEN "tune" ELSE "task"
  <2>1. /\ DOMAIN x = Fields /\ x.role = "step" /\ x.pend = None
        /\ x.done = Append(j.done, [inv |-> j.inv, status |-> TaskStatus(j.reason)])
    <3>1. Adds(x, j, j.inv, TaskStatus(j.reason))
      BY FieldsOfRecorded
    <3> QED BY <1>5, <3>1 DEF Adds
  <2>2. Told(j) = [x EXCEPT !.at = at] /\ at \in {"task", "tune"}
    BY <1>5 DEF Told
  <2> HIDE DEF x, at
  <2> QED BY <1>5, <2>1, <2>2 DEF Fields
<1>6. CASE j.role \notin {"cancel", "fail", "giveup", "drop"} /\ ~(j.role \in {"helper", "step"} /\ ~j.over)
  BY <1>6 DEF Told
<1> QED BY <1>1, <1>2, <1>3, <1>4, <1>5, <1>6

----------------------------------------------------------------------------
(* Base: what a thread does, and what each step leaves of it. *)

\* Only thread t and invocation i change.
Only(t, i) ==
    /\ DOMAIN job' = Thread /\ \A u \in Thread : u # t => job'[u] = job[u]
    /\ DOMAIN trail' = Invocation /\ \A k \in Invocation : k # i => trail'[k] = trail[k]

LEMMA BaseStep ==
  ASSUME Base, NEW t \in Thread, NEW i \in Invocation, Only(t, i), IsSeq(trail'[i]),
         IsSeq(minted'), Len(minted') <= MaxInvocations, DOMAIN minted \subseteq DOMAIN minted',
         i \in DOMAIN minted', Carries(ckpt', DOMAIN minted'), Sound(job'[t], DOMAIN minted')
  PROVE  Base'
<1>1. \A u \in Thread : Sound(job'[u], DOMAIN minted')
  BY DEF Base, Only, Sound, Carries
<1>2. ASSUME NEW k \in Invocation
      PROVE  IsSeq(trail'[k]) /\ (k \notin DOMAIN minted' => trail'[k] = <<>>)
  BY DEF Base, Only
<1> QED BY <1>1, <1>2 DEF Base, Only

LEMMA BaseQuiet ==
  ASSUME Base, NEW t \in Thread, DOMAIN job' = Thread, \A u \in Thread : u # t => job'[u] = job[u],
         UNCHANGED <<trail, minted>>, Carries(ckpt', DOMAIN minted'), Sound(job'[t], DOMAIN minted)
  PROVE  Base'
<1>1. \A u \in Thread : Sound(job'[u], DOMAIN minted')
  BY DEF Base, Sound
<1> QED BY <1>1 DEF Base

LEMMA SoundRest ==
  /\ \A handles : Sound(Free, handles)
  /\ \A handles : Sound(Failing, handles) /\ Sound(Ending, handles)
<1>1. \A handles : Sound(Free, handles)
  BY FieldsOfFree, NoElement DEF Sound, Writes
<1>2. \A handles : Sound(Failing, handles) /\ Sound(Ending, handles)
  BY FieldsOfFailing, FieldsOfEnding, NoElement DEF Sound, Writes
<1> QED BY <1>1, <1>2

LEMMA SoundRaised ==
  ASSUME NEW t, NEW handles
  PROVE  Sound(Raised(t), handles)
  BY SoundRest DEF Raised

LEMMA SoundRecorded ==
  ASSUME NEW j, NEW handles, Sound(j, handles), NEW i, NEW status, j.role = "step"
  PROVE  Sound(Recorded(j, i, status), handles)
<1>1. Adds(Recorded(j, i, status), j, i, status)
  BY FieldsOfRecorded DEF Sound
<1>2. IsSeq(Append(j.done, [inv |-> i, status |-> status]))
  BY SeqFacts DEF Sound
<1> QED BY <1>1, <1>2 DEF Adds, Sound, Writes

LEMMA SoundLarger ==
  ASSUME NEW j, NEW few, NEW more, Sound(j, few), few \subseteq more
  PROVE  Sound(j, more)
  BY DEF Sound, Carries

LEMMA BaseWrite ==
  ASSUME Base, NEW t \in Thread, NEW i \in Invocation, NEW rec, NEW next, NEW caught,
         Write(t, i, rec, next, caught),
         IsSeq(minted'), Len(minted') <= MaxInvocations, DOMAIN minted \subseteq DOMAIN minted',
         i \in Invocation, i \in DOMAIN minted', Sound(next, DOMAIN minted'), Sound(caught, DOMAIN minted')
  PROVE  Base'
<1>1. i \in Invocation
  OBVIOUS
<1>2. /\ Good(t, i, rec, next) \/ Bad(t, i, rec, caught)
      /\ ckpt' = ckpt /\ DOMAIN trail' = Invocation /\ IsSeq(trail'[i])
      /\ \A k \in Invocation : k # i => trail'[k] = trail[k]
  BY <1>1, WriteGoes
<1>3. Do(t, next) \/ Do(t, caught)
  BY <1>2 DEF Good, Bad
<1>4. DOMAIN job' = Thread /\ job'[t] \in {next, caught} /\ \A u \in Thread : u # t => job'[u] = job[u]
  BY <1>3, DoSets DEF Base
<1>5. Only(t, i) /\ Sound(job'[t], DOMAIN minted')
  BY <1>2, <1>4 DEF Only
<1> QED BY <1>1, <1>2, <1>5, BaseStep DEF Base, Carries

\* A job that works for another invocation, at another place.
LEMMA BaseDo ==
  ASSUME Base, NEW t \in Thread, NEW j, Do(t, j), UNCHANGED <<trail, minted>>, Carries(ckpt', DOMAIN minted'),
         Sound(j, DOMAIN minted)
  PROVE  Base'
<1>1. DOMAIN job' = Thread /\ job'[t] = j /\ \A u \in Thread : u # t => job'[u] = job[u]
  BY DoSets DEF Base
<1> QED BY <1>1, BaseQuiet

LEMMA BaseMint ==
  ASSUME Base, NEW t \in Thread, NEW p, Mint(p), NEW j, Do(t, j), UNCHANGED <<trail, ckpt>>,
         Sound(j, DOMAIN minted')
  PROVE  Base'
<1>1. DOMAIN job' = Thread /\ job'[t] = j /\ \A u \in Thread : u # t => job'[u] = job[u]
  BY DoSets DEF Base
<1>2. Only(t, New) /\ IsSeq(trail'[New])
  BY <1>1, FreshHandle DEF Only, Base
<1>3. Carries(ckpt', DOMAIN minted')
  BY FreshHandle DEF Base, Carries
<1> QED BY <1>1, <1>2, <1>3, FreshHandle, BaseStep

LEMMA MintMore ==
  ASSUME Base, NEW p, Mint(p)
  PROVE  /\ IsSeq(minted') /\ Len(minted') <= MaxInvocations /\ DOMAIN minted \subseteq DOMAIN minted'
         /\ New \in Invocation /\ New \in DOMAIN minted'
         /\ \A t \in Thread : Sound(job[t], DOMAIN minted')
<1>1. DOMAIN minted \subseteq DOMAIN minted'
  BY FreshHandle
<1>2. \A t \in Thread : Sound(job[t], DOMAIN minted')
  BY <1>1, SoundLarger DEF Base
<1> QED BY <1>1, <1>2, FreshHandle

LEMMA MintNot ==
  ASSUME Base, UNCHANGED minted
  PROVE  /\ IsSeq(minted') /\ Len(minted') <= MaxInvocations /\ DOMAIN minted \subseteq DOMAIN minted'
         /\ \A i \in DOMAIN minted : i \in DOMAIN minted' /\ i \in Invocation
         /\ \A t \in Thread : Sound(job[t], DOMAIN minted')
  BY SeqFacts, Bounds DEF Base, Invocation

LEMMA BaseSkip == ASSUME Base, NEW t \in Thread, Skip(t)  PROVE Base'
<1>1. Write(t, New, Settled("stopped"), Recorded(job[t], New, "skipped"), Raised(t)) /\ Mint(Task(t))
      /\ job[t].role = "step"
  BY DEF Skip, AtTask, Is, Base, Sound
<1>2. Sound(Recorded(job[t], New, "skipped"), DOMAIN minted') /\ Sound(Raised(t), DOMAIN minted')
  BY <1>1, MintMore, SoundRecorded, SoundRaised
<1> QED BY <1>1, <1>2, MintMore, BaseWrite

LEMMA BaseUnresolved == ASSUME Base, NEW t \in Thread, Unresolved(t)  PROVE Base'
<1> DEFINE j == [job[t] EXCEPT !.at = "settle", !.inv = New, !.reason = "abnormal"]
<1>1. Mint(Task(t)) /\ Do(t, j) /\ UNCHANGED <<trail, ckpt>> /\ job[t].role = "step"
  BY DEF Unresolved, AtTask, Is, Base, Sound, run
<1>2. New \in DOMAIN minted' /\ Sound(job[t], DOMAIN minted')
  BY <1>1, MintMore
<1>3. Sound(j, DOMAIN minted')
  BY <1>1, <1>2 DEF Sound, Fields, Writes
<1> HIDE DEF j
<1> QED BY <1>1, <1>3, BaseMint

LEMMA BaseDelegate == ASSUME Base, NEW t \in Thread, Delegate(t)  PROVE Base'
<1> DEFINE j == [job[t] EXCEPT !.inv = New, !.resumed = FALSE, !.over = FALSE,
                               !.role = IF Is(t, "tune") THEN "helper" ELSE "step"]
           next == [j EXCEPT !.at = "run"]
           caught == [j EXCEPT !.at = "raised"]
<1>1. PICK p : Mint(p) /\ Write(t, New, Started, next, caught) /\ (job[t].pend = None \/ Is(t, "tune"))
  BY DEF Delegate
<1>2. New \in DOMAIN minted' /\ Sound(job[t], DOMAIN minted')
  BY <1>1, MintMore
<1>3. /\ DOMAIN j = Fields /\ j.role \in {"step", "helper"} /\ j.inv = New /\ IsSeq(j.done)
      /\ j.pend = None
  BY <1>1, <1>2 DEF Sound, Fields, Is
<1> HIDE DEF j
<1>4. Sound(next, DOMAIN minted') /\ Sound(caught, DOMAIN minted')
  BY <1>2, <1>3 DEF Sound, Fields, Writes
<1> HIDE DEF next, caught
<1> QED BY <1>1, <1>4, MintMore, BaseWrite

LEMMA LastOfAppend ==
  ASSUME NEW s, IsSeq(s), NEW x
  PROVE  /\ IsSeq(Append(s, x)) /\ Append(s, x) # <<>> /\ Len(Append(s, x)) = Len(s) + 1
         /\ Append(s, x)[Len(Append(s, x))] = x
  BY SeqFacts, NoElement

\* The outcome of a step that waits on its review.
Waiting(j, i) == [Recorded(j, i, "pending") EXCEPT !.at = "parkrun", !.inv = i]

ParksOn(x, j, i) ==
    /\ DOMAIN x = Fields /\ x.at = "parkrun" /\ x.role = j.role /\ x.pend = None /\ x.inv = i
    /\ x.done = Append(j.done, [inv |-> i, status |-> "pending"])
    /\ IsSeq(x.done) /\ x.done # <<>> /\ Len(x.done) = Len(j.done) + 1
    /\ x.done[Len(x.done)] = [inv |-> i, status |-> "pending"]

LEMMA FieldsOfWaiting ==
  ASSUME NEW j, DOMAIN j = Fields, IsSeq(j.done), NEW i
  PROVE  ParksOn(Waiting(j, i), j, i)
<1> DEFINE r == Recorded(j, i, "pending")
<1>1. Adds(r, j, i, "pending")
  BY FieldsOfRecorded
<1>2. Waiting(j, i) = [r EXCEPT !.at = "parkrun", !.inv = i]
  BY DEF Waiting
<1> HIDE DEF r
<1>3. /\ DOMAIN Waiting(j, i) = Fields /\ Waiting(j, i).at = "parkrun" /\ Waiting(j, i).role = j.role
      /\ Waiting(j, i).pend = None /\ Waiting(j, i).inv = i
      /\ Waiting(j, i).done = Append(j.done, [inv |-> i, status |-> "pending"])
  BY <1>1, <1>2 DEF Adds, Fields
<1> DEFINE s == j.done
           o == [inv |-> i, status |-> "pending"]
<1>4. IsSeq(Append(s, o)) /\ Append(s, o) # <<>> /\ Len(Append(s, o)) = Len(s) + 1
      /\ Append(s, o)[Len(Append(s, o))] = o
  BY LastOfAppend
<1> QED BY <1>3, <1>4 DEF ParksOn

LEMMA SoundWaiting ==
  ASSUME NEW j, NEW handles, Sound(j, handles), NEW i \in handles, j.role = "step"
  PROVE  Sound(Waiting(j, i), handles)
<1>1. ParksOn(Waiting(j, i), j, i)
  BY FieldsOfWaiting DEF Sound
<1> QED BY <1>1 DEF ParksOn, Sound, Writes, Carries

\* Each place the same job may go to.
LEMMA SoundGo ==
  ASSUME NEW j, NEW handles, Sound(j, handles), j.at # "idle", NEW at,
         \/ at \in {"settle", "tell", "close"} /\ Writes(j)
         \/ at \in {"check", "move"}
         \/ at \in {"park", "raised"} /\ j.at \in {"run", "park", "raised"}
         \/ at = "save" /\ j.at = "parkrun"
  PROVE  Sound([j EXCEPT !.at = at], handles)
  BY DEF Sound, Fields, Writes

LEMMA BaseCarry == ASSUME Base, NEW t \in Thread, Carry(t)  PROVE Base'
<1> DEFINE i == job[t].pend
           again == [job[t] EXCEPT !.at = "run", !.inv = i, !.resumed = TRUE, !.over = FALSE]
           close(role) == [job[t] EXCEPT !.at = "look", !.role = role]
<1>1. /\ UNCHANGED <<trail, minted, ckpt>> /\ job[t].role = "step" /\ i # None
      /\ Do(t, again) \/ Do(t, Waiting(job[t], i)) \/ Do(t, close("giveup")) \/ Do(t, close("drop"))
  BY DEF Carry, AtTask, Is, Base, Sound, records, run, Waiting
<1>2. Sound(job[t], DOMAIN minted) /\ i \in DOMAIN minted
  BY <1>1 DEF Base, Sound
<1>3. Sound(close("giveup"), DOMAIN minted) /\ Sound(close("drop"), DOMAIN minted)
  BY <1>1, <1>2 DEF Sound, Fields, Writes
<1>4. Sound(again, DOMAIN minted)
  BY <1>1, <1>2 DEF Sound, Fields, Writes
<1>5. Sound(Waiting(job[t], i), DOMAIN minted)
  BY <1>1, <1>2, SoundWaiting
<1>6. PICK j : Do(t, j) /\ Sound(j, DOMAIN minted)
  BY <1>1, <1>3, <1>4, <1>5
<1> QED BY <1>1, <1>6, BaseDo DEF Base

LEMMA BasePlanDone == ASSUME Base, NEW t \in Thread, PlanDone(t)  PROVE Base'
  BY BaseDo, SoundRest DEF PlanDone, records, run, Base

LEMMA BaseComplete == ASSUME Base, NEW t \in Thread, Complete(t)  PROVE Base'
<1>1. PICK r : Write(t, job[t].inv, Completed(r), [job[t] EXCEPT !.at = "settle", !.reason = r],
                     [job[t] EXCEPT !.at = "raised"])
  BY DEF Complete
<1>2. UNCHANGED minted /\ job[t].at = "run" /\ job[t].inv \in DOMAIN minted /\ Sound(job[t], DOMAIN minted)
  BY DEF Complete, Is, Base, Sound, Writes
<1>3. Sound([job[t] EXCEPT !.at = "raised"], DOMAIN minted)
  BY <1>2, SoundGo
<1>4. Sound([job[t] EXCEPT !.at = "settle", !.reason = r], DOMAIN minted)
  BY <1>2 DEF Sound, Fields, Writes
<1> QED BY <1>1, <1>2, <1>3, <1>4, MintNot, BaseWrite

LEMMA BaseStepRaises == ASSUME Base, NEW t \in Thread, StepRaises(t)  PROVE Base'
<1>1. PICK over : Do(t, [job[t] EXCEPT !.at = "raised", !.over = over])
  BY DEF StepRaises
<1>2. UNCHANGED <<trail, minted, ckpt>> /\ job[t].at = "run" /\ Sound(job[t], DOMAIN minted)
  BY DEF StepRaises, Is, Base, records, run
<1>3. Sound([job[t] EXCEPT !.at = "raised", !.over = over], DOMAIN minted)
  BY <1>2 DEF Sound, Fields, Writes
<1> QED BY <1>1, <1>2, <1>3, BaseDo DEF Base

LEMMA BaseDefer == ASSUME Base, NEW t \in Thread, Defer(t)  PROVE Base'
<1> DEFINE j == [job[t] EXCEPT !.at = "park", !.review = asked + 1]
<1>1. Do(t, j) /\ UNCHANGED <<trail, minted, ckpt>> /\ job[t].at = "run" /\ Sound(job[t], DOMAIN minted)
  BY DEF Defer, Is, Base
<1>2. Sound(j, DOMAIN minted)
  BY <1>1 DEF Sound, Fields, Writes
<1> QED BY <1>1, <1>2, BaseDo DEF Base

LEMMA BasePark == ASSUME Base, NEW t \in Thread, Park(t)  PROVE Base'
<1> DEFINE j == job[t]
           helped == [j EXCEPT !.at = "task", !.role = "step", !.inv = None]
           next == IF j.role = "helper" THEN helped ELSE Waiting(j, j.inv)
<1>1. /\ Write(t, j.inv, Parked(j.review), next, [j EXCEPT !.at = "raised"])
      /\ UNCHANGED minted /\ j.at = "park" /\ Sound(j, DOMAIN minted) /\ j.inv \in DOMAIN minted
      /\ j.role \in {"step", "helper"}
  BY DEF Park, Is, Base, Waiting, Sound, Writes
<1>2. Sound([j EXCEPT !.at = "raised"], DOMAIN minted)
  BY <1>1, SoundGo
<1>3. Sound(helped, DOMAIN minted)
  BY <1>1 DEF Sound, Fields, Writes
<1>4. j.role # "helper" => Sound(Waiting(j, j.inv), DOMAIN minted)
  BY <1>1, SoundWaiting
<1>5. Sound(next, DOMAIN minted)
  BY <1>3, <1>4
<1> HIDE DEF next
<1> QED BY <1>1, <1>2, <1>5, MintNot, BaseWrite

LEMMA BaseCloseRaised == ASSUME Base, NEW t \in Thread, CloseRaised(t)  PROVE Base'
<1> DEFINE next == [job[t] EXCEPT !.at = "settle", !.reason = "abnormal"]
<1>1. /\ Write(t, job[t].inv, Completed("abnormal"), next, Raised(t)) \/ (Do(t, next) /\ UNCHANGED <<trail, ckpt>>)
      /\ UNCHANGED minted /\ job[t].at = "raised" /\ Sound(job[t], DOMAIN minted) /\ job[t].inv \in DOMAIN minted
  BY DEF CloseRaised, Is, Base, Sound, Writes, run
<1>2. Sound(next, DOMAIN minted)
  BY <1>1 DEF Sound, Fields, Writes
<1> HIDE DEF next
<1>3. CASE Write(t, job[t].inv, Completed("abnormal"), next, Raised(t))
  BY <1>1, <1>2, <1>3, SoundRaised, MintNot, BaseWrite
<1>4. CASE Do(t, next) /\ UNCHANGED <<trail, ckpt>>
  BY <1>1, <1>2, <1>4, BaseDo DEF Base
<1> QED BY <1>1, <1>3, <1>4

LEMMA BaseClose == ASSUME Base, NEW t \in Thread, Close(t)  PROVE Base'
<1>1. /\ Write(t, job[t].inv, Completed(job[t].reason), [job[t] EXCEPT !.at = "settle"], Raised(t))
      /\ UNCHANGED minted /\ job[t].at = "close" /\ Sound(job[t], DOMAIN minted) /\ job[t].inv \in DOMAIN minted
  BY DEF Close, Is, Base, Sound, Writes
<1>2. Sound([job[t] EXCEPT !.at = "settle"], DOMAIN minted)
  BY <1>1, SoundGo DEF Writes
<1> QED BY <1>1, <1>2, SoundRaised, MintNot, BaseWrite

LEMMA BaseSettle == ASSUME Base, NEW t \in Thread, Settle(t)  PROVE Base'
<1>1. /\ Write(t, job[t].inv, Settled(job[t].reason), [job[t] EXCEPT !.at = "tell"], Raised(t))
      /\ UNCHANGED minted /\ job[t].at = "settle" /\ Sound(job[t], DOMAIN minted) /\ job[t].inv \in DOMAIN minted
  BY DEF Settle, Is, Base, Sound, Writes
<1>2. Sound([job[t] EXCEPT !.at = "tell"], DOMAIN minted)
  BY <1>1, SoundGo DEF Writes
<1> QED BY <1>1, <1>2, SoundRaised, MintNot, BaseWrite

LEMMA SoundTold ==
  ASSUME NEW j, NEW handles, Sound(j, handles)
  PROVE  Sound(Told(j), handles)
<1>1. CASE j.role \in {"cancel", "fail"}
  BY <1>1 DEF Told, Sound, Fields, Writes
<1>2. CASE j.role = "drop"
  <2>1. /\ DOMAIN Told(j) = Fields /\ Told(j).at = "task" /\ Told(j).role = "step" /\ Told(j).pend = None
        /\ Told(j).done = Append(j.done, [inv |-> j.pend, status |-> "failed"])
    BY <1>2, FieldsOfTold DEF Sound
  <2>2. IsSeq(Told(j).done)
    BY <2>1, SeqFacts DEF Sound
  <2> QED BY <1>2, <2>1, <2>2 DEF Sound, Writes
<1>3. CASE j.role = "helper" /\ ~j.over
  BY <1>3, FieldsOfTold DEF Sound, Writes
<1>4. CASE j.role = "step" /\ ~j.over
  <2>1. /\ DOMAIN Told(j) = Fields /\ Told(j).at \in {"task", "tune"} /\ Told(j).role = "step"
        /\ Told(j).pend = None
        /\ Told(j).done = Append(j.done, [inv |-> j.inv, status |-> TaskStatus(j.reason)])
    BY <1>4, FieldsOfTold DEF Sound
  <2>2. IsSeq(Told(j).done)
    BY <2>1, SeqFacts DEF Sound
  <2> QED BY <1>4, <2>1, <2>2 DEF Sound, Writes
<1>5. CASE j.role = "giveup"
  BY <1>5, SoundRest DEF Told, GivenUp
<1>6. CASE j.role \notin {"cancel", "fail", "giveup", "drop"} /\ ~(j.role \in {"helper", "step"} /\ ~j.over)
  BY <1>6, SoundRest DEF Told
<1> QED BY <1>1, <1>2, <1>3, <1>4, <1>5, <1>6

LEMMA BaseTell == ASSUME Base, NEW t \in Thread, Tell(t)  PROVE Base'
<1>1. /\ Write(t, job[t].inv, Message(job[t].reason), Told(job[t]), Raised(t))
      /\ UNCHANGED minted /\ job[t].at = "tell" /\ Sound(job[t], DOMAIN minted) /\ job[t].inv \in DOMAIN minted
  BY DEF Tell, Is, Base, Sound, Writes
<1> QED BY <1>1, SoundTold, SoundRaised, MintNot, BaseWrite

LEMMA OpenOnes ==
  ASSUME Base
  PROVE  /\ \A i \in Open : i \in Invocation /\ i \in DOMAIN minted
         /\ One(Open) => The(Open) \in Open
         /\ \A i \in Open : One(Open) => Open = {i} /\ The(Open) = i
<1>1. ASSUME NEW i \in Open  PROVE i \in Invocation /\ i \in DOMAIN minted
  <2>1. i \in Invocation /\ At(trail[i], "parked") # {}
    BY DEF Open, IsOpen, HasParked
  <2>2. trail[i] # <<>>
    <3>1. ASSUME trail[i] = <<>>  PROVE FALSE
      <4>1. At(<<>>, "parked") = {}
        BY NoElement DEF At
      <4> QED BY <2>1, <3>1, <4>1
    <3> QED BY <3>1
  <2> QED BY <2>1, <2>2 DEF Base
<1>2. One(Open) => The(Open) \in Open
  <2>1. One(Open) => Open # {}
    BY NoneOf
  <2> QED BY <2>1 DEF The
<1>3. IsFiniteSet(Open)
  <2>1. IsFiniteSet(Invocation)
    BY FS_Interval, Bounds DEF Invocation
  <2>2. Open \subseteq Invocation
    BY DEF Open
  <2> QED BY <2>1, <2>2, FS_Subset
<1>4. ASSUME NEW i \in Open, One(Open)  PROVE Open = {i} /\ The(Open) = i
  <2>1. \E x : Open = {x}
    BY <1>3, <1>4, FS_Singleton DEF One
  <2> QED BY <2>1, <1>4, <1>2
<1> QED BY <1>1, <1>2, <1>4

\* The finalizer goes to work on the only open trail.
Closing(j, i) == [j EXCEPT !.at = Missing(trail[i]), !.inv = i,
                           !.reason = ReasonFor(trail[i], Wanted(j.role))]

LEMMA LookGoes ==
  ASSUME NEW t, Look(t)
  PROVE  /\ job[t].at = "look" /\ NoFault /\ UNCHANGED <<trail, minted, bundle, run>>
         /\ \/ /\ Open = {}
               /\ Do(t, IF job[t].role \in {"giveup", "drop"} THEN GivenUp(job[t])
                        ELSE [job[t] EXCEPT !.at = "check"])
            \/ One(Open) /\ Repairable(trail[The(Open)]) /\ Do(t, Closing(job[t], The(Open)))
            \/ Open # {} /\ Do(t, Raised(t))
  BY DEF Look, Is, Closing

LEMMA SoundGivenUp ==
  ASSUME NEW j, NEW handles, Sound(j, handles), j.role \in {"giveup", "drop"}
  PROVE  Sound(GivenUp(j), handles)
  BY SoundTold DEF Told

LEMMA BaseLook == ASSUME Base, NEW t \in Thread, Look(t)  PROVE Base'
<1> DEFINE j == job[t]
<1>1. /\ UNCHANGED <<trail, minted, ckpt>> /\ j.at = "look" /\ Sound(j, DOMAIN minted)
      /\ j.role \in {"drop", "giveup", "cancel", "fail"}
  BY LookGoes DEF Base, run, Sound
<1>2. CASE Do(t, Raised(t))
  BY <1>1, <1>2, SoundRaised, BaseDo DEF Base
<1>3. CASE One(Open) /\ Do(t, Closing(j, The(Open)))
  <2>1. The(Open) \in DOMAIN minted
    BY <1>3, OpenOnes
  <2>2. Missing(trail[The(Open)]) \in {"close", "settle", "tell"}
    BY DEF Missing
  <2>3. Sound(Closing(j, The(Open)), DOMAIN minted)
    BY <1>1, <2>1, <2>2 DEF Closing, Sound, Fields, Writes
  <2> QED BY <1>1, <1>3, <2>3, BaseDo DEF Base
<1>4. CASE Do(t, IF j.role \in {"giveup", "drop"} THEN GivenUp(j) ELSE [j EXCEPT !.at = "check"])
  <2>1. CASE j.role \in {"giveup", "drop"}
    BY <1>1, <1>4, <2>1, SoundGivenUp, BaseDo DEF Base
  <2>2. CASE j.role \notin {"giveup", "drop"}
    <3>1. Sound([j EXCEPT !.at = "check"], DOMAIN minted)
      BY <1>1, SoundGo
    <3> QED BY <1>1, <1>4, <2>2, <3>1, BaseDo DEF Base
  <2> QED BY <2>1, <2>2
<1> QED BY <1>2, <1>3, <1>4, LookGoes

LEMMA BaseCheck == ASSUME Base, NEW t \in Thread, Check(t)  PROVE Base'
<1>1. /\ UNCHANGED <<trail, minted, ckpt>> /\ job[t].at = "check" /\ Sound(job[t], DOMAIN minted)
      /\ Do(t, [job[t] EXCEPT !.at = "move"]) \/ Do(t, Raised(t))
  BY DEF Check, Is, Go, Base, records, run
<1>2. Sound([job[t] EXCEPT !.at = "move"], DOMAIN minted)
  BY <1>1, SoundGo
<1> QED BY <1>1, <1>2, SoundRaised, BaseDo DEF Base

LEMMA BaseEnd == ASSUME Base, NEW t \in Thread, End(t)  PROVE Base'
<1>1. /\ UNCHANGED <<trail, minted, ckpt>>
      /\ Do(t, Free) \/ Do(t, Raised(t))
  BY DEF End, records
<1> QED BY <1>1, SoundRest, SoundRaised, BaseDo DEF Base

LEMMA BaseParkRun == ASSUME Base, NEW t \in Thread, ParkRun(t)  PROVE Base'
<1>1. /\ UNCHANGED <<trail, minted, ckpt>> /\ job[t].at = "parkrun" /\ Sound(job[t], DOMAIN minted)
      /\ Do(t, [job[t] EXCEPT !.at = "save"]) \/ Do(t, Failing)
  BY DEF ParkRun, Is, Go, Base, records
<1>2. Sound([job[t] EXCEPT !.at = "save"], DOMAIN minted)
  BY <1>1, SoundGo
<1> QED BY <1>1, <1>2, SoundRest, BaseDo DEF Base

LEMMA BaseSave == ASSUME Base, NEW t \in Thread, SaveCheckpoint(t)  PROVE Base'
<1>1. Do(t, Free) /\ UNCHANGED <<trail, minted>> /\ ckpt' = job[t].done
  BY DEF SaveCheckpoint, records
<1>2. Carries(ckpt', DOMAIN minted')
  BY <1>1 DEF SaveCheckpoint, Is, Base, Sound
<1> QED BY <1>1, <1>2, SoundRest, BaseDo

\* What a pass makes of the progress it starts from.
LEMMA PassStarts ==
  ASSUME NEW p, NEW handles, Carries(p, handles), handles \subseteq Invocation
  PROVE  /\ PassFrom(p).at = "task" /\ PassFrom(p).role = "step" /\ DOMAIN PassFrom(p) = Fields
         /\ PassFrom(p).done = Decided(p) /\ PassFrom(p).pend = Carried(p)
         /\ Carried(p) = None => Decided(p) = p
         /\ Carried(p) # None => /\ p # <<>> /\ p[Len(p)].status = "pending"
                                 /\ Carried(p) = p[Len(p)].inv /\ Carried(p) \in handles
                                 /\ Len(Decided(p)) = Len(p) - 1
                                 /\ DOMAIN Decided(p) = 1..(Len(p) - 1)
                                 /\ \A n \in 1..(Len(p) - 1) : Decided(p)[n] = p[n]
         /\ p # <<>> /\ p[Len(p)].status = "pending" => Carried(p) # None
         /\ IsSeq(Decided(p))
<1>1. /\ PassFrom(p).at = "task" /\ PassFrom(p).role = "step" /\ DOMAIN PassFrom(p) = Fields
      /\ PassFrom(p).done = Decided(p) /\ PassFrom(p).pend = Carried(p)
  BY FieldsOfFree DEF PassFrom, Fields
<1>2. Carried(p) = None => Decided(p) = p /\ IsSeq(Decided(p))
  BY DEF Decided, Carries
<1>3. Carried(p) # None => /\ p # <<>> /\ p[Len(p)].status = "pending"
                           /\ Carried(p) = p[Len(p)].inv /\ Carried(p) \in handles
  BY DEF Carried, Carries
<1>4. p # <<>> /\ p[Len(p)].status = "pending" => Carried(p) # None
  BY Bounds DEF Carried, Carries, Invocation, None
<1>5. ASSUME Carried(p) # None
      PROVE  /\ Len(Decided(p)) = Len(p) - 1 /\ DOMAIN Decided(p) = 1..(Len(p) - 1)
             /\ \A n \in 1..(Len(p) - 1) : Decided(p)[n] = p[n]
             /\ IsSeq(Decided(p))
  <2>1. PICK S : p \in Seq(S)
    BY DEF Carries, IsSeq
  <2>2. Len(p) \in Nat /\ Len(p) >= 1
    BY <2>1, <1>3, <1>5, EmptySeq, LenProperties
  <2>3. Decided(p) = SubSeq(p, 1, Len(p) - 1)
    BY <1>5 DEF Decided
  <2>4. /\ Decided(p) \in Seq(S) /\ Len(Decided(p)) = Len(p) - 1
        /\ \A n \in 1..(Len(p) - 1) : Decided(p)[n] = p[n]
    <3> DEFINE n == Len(p) - 1
    <3>1. n \in Nat /\ \A i \in 1..n : p[i] \in S
      BY <2>1, <2>2, LenProperties
    <3>2. /\ SubSeq(p, 1, n) \in Seq(S)
          /\ Len(SubSeq(p, 1, n)) = IF 1 <= n THEN n - 1 + 1 ELSE 0
          /\ \A i \in 1..(n - 1 + 1) : SubSeq(p, 1, n)[i] = p[1 + i - 1]
      BY <3>1, SubSeqProperties
    <3> HIDE DEF n
    <3>3. /\ SubSeq(p, 1, n) \in Seq(S) /\ Len(SubSeq(p, 1, n)) = n
          /\ \A i \in 1..n : SubSeq(p, 1, n)[i] = p[i]
      BY <3>1, <3>2
    <3> QED BY <2>3, <3>3 DEF n
  <2>5. DOMAIN Decided(p) = 1..(Len(p) - 1)
    BY <2>4, LenProperties
  <2> QED BY <2>4, <2>5 DEF IsSeq
<1> QED BY <1>1, <1>2, <1>3, <1>4, <1>5

LEMMA SoundPass ==
  ASSUME NEW p, NEW handles, Carries(p, handles), handles \subseteq Invocation
  PROVE  Sound(PassFrom(p), handles)
<1>1. Carried(p) = None \/ Carried(p) \in handles
  BY PassStarts
<1>2. /\ PassFrom(p).at = "task" /\ PassFrom(p).role = "step" /\ DOMAIN PassFrom(p) = Fields
      /\ PassFrom(p).pend = Carried(p) /\ IsSeq(PassFrom(p).done)
  BY PassStarts
<1> QED BY <1>1, <1>2 DEF Sound, Writes

LEMMA Handles == ASSUME Base PROVE DOMAIN minted \subseteq Invocation
  BY SeqFacts, Bounds DEF Base, Invocation

LEMMA BaseStart == ASSUME Base, NEW t \in Thread, StartRun(t)  PROVE Base'
<1>1. Do(t, PassFrom(<<>>)) /\ UNCHANGED <<trail, minted, ckpt>>
  BY DEF StartRun, records
<1>2. Sound(PassFrom(<<>>), DOMAIN minted)
  BY SoundPass, NoElement, Handles DEF Carries
<1> QED BY <1>1, <1>2, BaseDo DEF Base

LEMMA BaseResume == ASSUME Base, NEW t \in Thread, ResumeRun(t)  PROVE Base'
<1>1. Do(t, PassFrom(ckpt)) /\ UNCHANGED <<trail, minted, ckpt>>
  BY DEF ResumeRun, records
<1>2. Sound(PassFrom(ckpt), DOMAIN minted)
  BY SoundPass, Handles DEF Base
<1> QED BY <1>1, <1>2, BaseDo DEF Base

LEMMA BaseCancel == ASSUME Base, NEW t \in Thread, CancelRun(t)  PROVE Base'
<1>1. PICK at \in {"look", "check"} : Do(t, [Free EXCEPT !.at = at, !.role = "cancel"])
  BY DEF CancelRun
<1>2. UNCHANGED <<trail, minted, ckpt>>
  BY DEF CancelRun, records, run
<1>3. Sound([Free EXCEPT !.at = at, !.role = "cancel"], DOMAIN minted)
  BY FieldsOfFree, NoElement DEF Sound, Fields, Writes
<1> QED BY <1>1, <1>2, <1>3, BaseDo DEF Base

LEMMA BaseNext == ASSUME Base, [Next]_vars PROVE Base'
<1>1. ASSUME NEW t \in Thread, Pass(t)  PROVE Base'
  BY <1>1, BaseSkip, BaseUnresolved, BaseDelegate, BaseCarry, BasePlanDone, BaseComplete,
     BaseStepRaises, BaseDefer, BasePark, BaseCloseRaised, BaseClose, BaseSettle, BaseTell,
     BaseLook, BaseCheck, BaseEnd, BaseParkRun, BaseSave DEF Pass
<1>2. ASSUME NEW t \in Thread, StartRun(t) \/ ResumeRun(t) \/ CancelRun(t)  PROVE Base'
  BY <1>2, BaseStart, BaseResume, BaseCancel
<1>3. CASE Answer
  BY <1>3 DEF Answer, records, Base
<1>4. CASE Die
  <2>1. UNCHANGED <<trail, minted, ckpt>> /\ job' = [t \in Thread |-> Free]
    BY <1>4 DEF Die, records, run
  <2> QED BY <2>1, SoundRest DEF Base
<1>5. CASE UNCHANGED vars
  BY <1>5 DEF vars, Base
<1> QED BY <1>1, <1>2, <1>3, <1>4, <1>5 DEF Next

LEMMA BaseInit == Init => Base
<1> SUFFICES ASSUME Init PROVE Base
  OBVIOUS
<1>1. /\ trail = [i \in Invocation |-> <<>>] /\ minted = <<>> /\ ckpt = <<>> /\ job = [t \in Thread |-> Free]
  BY DEF Init
<1>2. Carries(<<>>, DOMAIN minted)
  BY NoElement DEF Carries
<1> QED BY <1>1, <1>2, NoElement, Bounds, SoundRest DEF Base

----------------------------------------------------------------------------
(* Alone: one thread is at work at a time. *)

LEMMA AloneStep ==
  ASSUME Alone, NEW t \in Thread, Works(job[t]),
         \A u \in Thread : u # t => job'[u] = job[u],
         Works(job'[t]) => life' = life /\ (job[t].role = "cancel" => job'[t].role = "cancel"),
         life' = life \/ life' \in {"waiting", "ended"},
         job'[t].at = "move" => Open' = {},
         life' = "ended" => Open' = {}
  PROVE  Alone'
<1>1. \A u \in Thread : u # t => ~Works(job[u]) /\ ~Works(job'[u])
  BY DEF Alone
<1>2. life \in {"active", "waiting"}
  BY DEF Alone
<1>3. \A u \in Thread : u # t => job'[u].at # "move"
  BY <1>1 DEF Works
<1>4. \A u, w \in Thread : Works(job'[u]) /\ Works(job'[w]) => u = w
  BY <1>1
<1>5. \A u \in Thread : Works(job'[u]) => life' = "active" \/ (life' = "waiting" /\ job'[u].role = "cancel")
  BY <1>1 DEF Alone
<1>6. life' # "new"
  BY <1>2
<1>7. (\E u \in Thread : job'[u].at = "move") \/ life' = "ended" => Open' = {}
  BY <1>3
<1> QED BY <1>4, <1>5, <1>6, <1>7 DEF Alone, Works

\* Most steps stay in the Run and do not move it.
Steps(t) ==
    /\ \A u \in Thread : u # t => job'[u] = job[u]
    /\ life' = life /\ job'[t].at # "move"
    /\ job[t].role = "cancel" => job'[t].role = "cancel" \/ job'[t] = Free

LEMMA AloneSteps ==
  ASSUME Alone, NEW t \in Thread, Works(job[t]), Steps(t)
  PROVE  Alone'
<1>1. ~Works(Free)
  BY FieldsOfFree DEF Works
<1>2. life # "ended"
  BY DEF Alone
<1> QED BY <1>1, <1>2, AloneStep DEF Steps

LEMMA WriteEnds ==
  ASSUME Base, NEW t \in Thread, NEW i, NEW rec, NEW next, NEW caught, Write(t, i, rec, next, caught)
  PROVE  /\ job'[t] = next \/ job'[t] = caught
         /\ \A u \in Thread : u # t => job'[u] = job[u]
         /\ UNCHANGED <<asked, answered, life, review, ckpt>>
  BY DoSets DEF Write, Base, run

LEMMA AtRaised ==
  ASSUME NEW t
  PROVE  Raised(t).at # "move" /\ (job[t].role = "cancel" => Raised(t) = Free)
  BY FieldsOfFree, FieldsOfFailing DEF Raised

LEMMA StepsTold ==
  ASSUME NEW j, NEW handles, Sound(j, handles)
  PROVE  Told(j).at # "move" /\ (j.role = "cancel" => Told(j).role = "cancel")
<1>1. CASE j.role \in {"cancel", "fail"}
  BY <1>1 DEF Told, Sound, Fields
<1>2. CASE j.role = "giveup"
  BY <1>2, FieldsOfEnding DEF Told, GivenUp
<1>3. CASE j.role = "drop"
  BY <1>3, FieldsOfTold DEF Sound
<1>4. CASE j.role = "helper" /\ ~j.over
  BY <1>4, FieldsOfTold DEF Sound
<1>5. CASE j.role = "step" /\ ~j.over
  BY <1>5, FieldsOfTold DEF Sound
<1>6. CASE j.role \notin {"cancel", "fail", "giveup", "drop"} /\ ~(j.role \in {"helper", "step"} /\ ~j.over)
  BY <1>6, FieldsOfFailing DEF Told
<1> QED BY <1>1, <1>2, <1>3, <1>4, <1>5, <1>6

LEMMA StepsOfTask ==
  ASSUME Base, NEW t \in Thread, Skip(t) \/ Unresolved(t) \/ Delegate(t) \/ Carry(t) \/ PlanDone(t)
  PROVE  Works(job[t]) /\ Steps(t)
<1>1. DOMAIN job[t] = Fields /\ Sound(job[t], DOMAIN minted) /\ DOMAIN job = Thread
  BY DEF Base, Sound
<1>2. CASE Skip(t)
  <2>1. /\ Write(t, New, Settled("stopped"), Recorded(job[t], New, "skipped"), Raised(t))
        /\ job[t].at = "task" /\ job[t].role = "step"
    BY <1>1, <1>2 DEF Skip, AtTask, Is, Sound
  <2>2. Adds(Recorded(job[t], New, "skipped"), job[t], New, "skipped")
    BY <1>1, FieldsOfRecorded
  <2> QED BY <2>1, <2>2, WriteEnds, AtRaised DEF Steps, Works, Adds
<1>3. CASE Unresolved(t)
  <2> DEFINE j == [job[t] EXCEPT !.at = "settle", !.inv = New, !.reason = "abnormal"]
  <2>1. Do(t, j) /\ life' = life /\ job[t].at = "task" /\ job[t].role = "step"
    BY <1>1, <1>3 DEF Unresolved, AtTask, Is, Sound, run
  <2>2. j.at = "settle"
    BY <1>1 DEF Fields
  <2> HIDE DEF j
  <2> QED BY <1>1, <2>1, <2>2, DoSets DEF Steps, Works
<1>4. CASE Delegate(t)
  <2> DEFINE j == [job[t] EXCEPT !.inv = New, !.resumed = FALSE, !.over = FALSE,
                                 !.role = IF Is(t, "tune") THEN "helper" ELSE "step"]
             next == [j EXCEPT !.at = "run"]
             caught == [j EXCEPT !.at = "raised"]
  <2>1. /\ Write(t, New, Started, next, caught) /\ job[t].at \in {"task", "tune"}
        /\ job[t].role = "step"
    BY <1>1, <1>4 DEF Delegate, AtTask, Is, Sound
  <2>2. DOMAIN j = Fields
    BY <1>1
  <2> HIDE DEF j
  <2>3. next.at = "run" /\ caught.at = "raised"
    BY <2>2 DEF Fields
  <2> HIDE DEF next, caught
  <2> QED BY <2>1, <2>3, WriteEnds DEF Steps, Works
<1>5. CASE Carry(t)
  <2> DEFINE i == job[t].pend
             again == [job[t] EXCEPT !.at = "run", !.inv = i, !.resumed = TRUE, !.over = FALSE]
             close(role) == [job[t] EXCEPT !.at = "look", !.role = role]
  <2>1. /\ job[t].at = "task" /\ job[t].role = "step" /\ life' = life
        /\ Do(t, again) \/ Do(t, Waiting(job[t], i)) \/ Do(t, close("giveup")) \/ Do(t, close("drop"))
    BY <1>1, <1>5 DEF Carry, AtTask, Is, Sound, run, Waiting
  <2>2. again.at = "run" /\ close("giveup").at = "look" /\ close("drop").at = "look"
    BY <1>1 DEF Fields
  <2>3. Waiting(job[t], i).at = "parkrun"
    BY <1>1, FieldsOfWaiting DEF ParksOn, Sound
  <2>4. PICK j : Do(t, j) /\ j.at # "move"
    BY <2>1, <2>2, <2>3
  <2> QED BY <1>1, <2>1, <2>4, DoSets DEF Steps, Works
<1>6. CASE PlanDone(t)
  <2>1. Do(t, Ending) /\ life' = life /\ job[t].at = "task" /\ job[t].role = "step"
    BY <1>1, <1>6 DEF PlanDone, Is, Sound, run
  <2> QED BY <1>1, <2>1, DoSets, FieldsOfEnding DEF Steps, Works
<1> QED BY <1>2, <1>3, <1>4, <1>5, <1>6

LEMMA StepsOfStep ==
  ASSUME Base, NEW t \in Thread, Complete(t) \/ StepRaises(t) \/ Defer(t) \/ Park(t) \/ CloseRaised(t)
  PROVE  Works(job[t]) /\ Steps(t)
<1>1. DOMAIN job[t] = Fields /\ Sound(job[t], DOMAIN minted) /\ DOMAIN job = Thread
  BY DEF Base, Sound
<1>2. CASE Complete(t)
  <2>1. PICK r : Write(t, job[t].inv, Completed(r), [job[t] EXCEPT !.at = "settle", !.reason = r],
                       [job[t] EXCEPT !.at = "raised"])
    BY <1>2 DEF Complete
  <2>2. job[t].at = "run" /\ job[t].role \in {"step", "helper"}
    BY <1>1, <1>2 DEF Complete, Is, Sound
  <2>3. /\ [job[t] EXCEPT !.at = "settle", !.reason = r].at = "settle"
        /\ [job[t] EXCEPT !.at = "raised"].at = "raised"
    BY <1>1 DEF Fields
  <2> DEFINE next == [job[t] EXCEPT !.at = "settle", !.reason = r]
             caught == [job[t] EXCEPT !.at = "raised"]
  <2>4. Write(t, job[t].inv, Completed(r), next, caught) /\ next.at = "settle" /\ caught.at = "raised"
    BY <2>1, <2>3
  <2> HIDE DEF next, caught
  <2> QED BY <2>2, <2>4, WriteEnds DEF Steps, Works
<1>3. CASE StepRaises(t)
  <2>1. PICK over : Do(t, [job[t] EXCEPT !.at = "raised", !.over = over])
    BY <1>3 DEF StepRaises
  <2>2. life' = life /\ job[t].at = "run" /\ job[t].role \in {"step", "helper"}
    BY <1>1, <1>3 DEF StepRaises, Is, Sound, run
  <2>3. [job[t] EXCEPT !.at = "raised", !.over = over].at = "raised"
    BY <1>1 DEF Fields
  <2> QED BY <1>1, <2>1, <2>2, <2>3, DoSets DEF Steps, Works
<1>4. CASE Defer(t)
  <2> DEFINE j == [job[t] EXCEPT !.at = "park", !.review = asked + 1]
  <2>1. Do(t, j) /\ life' = life /\ job[t].at = "run" /\ job[t].role \in {"step", "helper"}
    BY <1>1, <1>4 DEF Defer, Is, Sound
  <2>2. j.at = "park"
    BY <1>1 DEF Fields
  <2> HIDE DEF j
  <2> QED BY <1>1, <2>1, <2>2, DoSets DEF Steps, Works
<1>5. CASE Park(t)
  <2> DEFINE j == job[t]
             helped == [j EXCEPT !.at = "task", !.role = "step", !.inv = None]
             next == IF j.role = "helper" THEN helped ELSE Waiting(j, j.inv)
  <2>1. /\ Write(t, j.inv, Parked(j.review), next, [j EXCEPT !.at = "raised"])
        /\ j.at = "park" /\ j.role \in {"step", "helper"}
    BY <1>1, <1>5 DEF Park, Is, Waiting, Sound
  <2>2. helped.at = "task" /\ [j EXCEPT !.at = "raised"].at = "raised"
    BY <1>1 DEF Fields
  <2>3. Waiting(j, j.inv).at = "parkrun"
    BY <1>1, FieldsOfWaiting DEF ParksOn, Sound
  <2>4. next.at # "move"
    BY <2>2, <2>3
  <2> DEFINE caught == [j EXCEPT !.at = "raised"]
  <2>5. Write(t, j.inv, Parked(j.review), next, caught) /\ caught.at = "raised"
    BY <2>1, <2>2
  <2> HIDE DEF next, caught
  <2> QED BY <2>1, <2>4, <2>5, WriteEnds DEF Steps, Works
<1>6. CASE CloseRaised(t)
  <2> DEFINE next == [job[t] EXCEPT !.at = "settle", !.reason = "abnormal"]
  <2>1. /\ Write(t, job[t].inv, Completed("abnormal"), next, Raised(t)) \/ (Do(t, next) /\ life' = life)
        /\ job[t].at = "raised" /\ job[t].role \in {"step", "helper"}
    BY <1>1, <1>6 DEF CloseRaised, Is, Sound, run
  <2>2. next.at = "settle"
    BY <1>1 DEF Fields
  <2> HIDE DEF next
  <2>3. (job'[t] = next \/ job'[t] = Raised(t)) /\ life' = life /\ \A u \in Thread : u # t => job'[u] = job[u]
    BY <1>1, <2>1, WriteEnds, DoSets
  <2> QED BY <2>1, <2>2, <2>3, AtRaised DEF Steps, Works
<1> QED BY <1>2, <1>3, <1>4, <1>5, <1>6

LEMMA StepsOfEnd ==
  ASSUME Base, NEW t \in Thread, Close(t) \/ Settle(t) \/ Tell(t) \/ Look(t)
  PROVE  Works(job[t]) /\ Steps(t)
<1>1. DOMAIN job[t] = Fields /\ Sound(job[t], DOMAIN minted) /\ DOMAIN job = Thread
  BY DEF Base, Sound
<1>2. CASE Close(t)
  <2> DEFINE next == [job[t] EXCEPT !.at = "settle"]
  <2>1. Write(t, job[t].inv, Completed(job[t].reason), next, Raised(t)) /\ job[t].at = "close"
    BY <1>2 DEF Close, Is
  <2>2. next.at = "settle" /\ next.role = job[t].role
    BY <1>1 DEF Fields
  <2> HIDE DEF next
  <2>3. (job'[t] = next \/ job'[t] = Raised(t)) /\ life' = life /\ \A u \in Thread : u # t => job'[u] = job[u]
    BY <2>1, WriteEnds
  <2> QED BY <2>1, <2>2, <2>3, AtRaised DEF Steps, Works
<1>3. CASE Settle(t)
  <2> DEFINE next == [job[t] EXCEPT !.at = "tell"]
  <2>1. Write(t, job[t].inv, Settled(job[t].reason), next, Raised(t)) /\ job[t].at = "settle"
    BY <1>3 DEF Settle, Is
  <2>2. next.at = "tell" /\ next.role = job[t].role
    BY <1>1 DEF Fields
  <2> HIDE DEF next
  <2>3. (job'[t] = next \/ job'[t] = Raised(t)) /\ life' = life /\ \A u \in Thread : u # t => job'[u] = job[u]
    BY <2>1, WriteEnds
  <2> QED BY <2>1, <2>2, <2>3, AtRaised DEF Steps, Works
<1>4. CASE Tell(t)
  <2>1. Write(t, job[t].inv, Message(job[t].reason), Told(job[t]), Raised(t)) /\ job[t].at = "tell"
    BY <1>4 DEF Tell, Is
  <2> QED BY <1>1, <2>1, WriteEnds, AtRaised, StepsTold DEF Steps, Works
<1>5. CASE Look(t)
  <2> DEFINE j == job[t]
  <2>1. j.at = "look" /\ life' = life /\ j.role \in {"drop", "giveup", "cancel", "fail"}
    BY <1>1, <1>5, LookGoes DEF run, Sound
  <2>2. /\ Closing(j, The(Open)).role = j.role /\ Closing(j, The(Open)).at # "move"
        /\ [j EXCEPT !.at = "check"].role = j.role /\ [j EXCEPT !.at = "check"].at # "move"
    BY <1>1 DEF Closing, Fields, Missing
  <2>3. j.role \in {"giveup", "drop"} => GivenUp(j).at # "move"
    <3>1. j.role \in {"giveup", "drop"} => GivenUp(j) = Told(j)
      BY DEF Told
    <3> QED BY <1>1, <3>1, StepsTold
  <2>4. PICK x : Do(t, x) /\ x.at # "move" /\ (j.role = "cancel" => x.role = "cancel" \/ x = Free)
    <3>1. CASE Do(t, Raised(t))
      BY <3>1, AtRaised
    <3>2. CASE Do(t, Closing(j, The(Open)))
      BY <3>2, <2>2
    <3>3. CASE Do(t, IF j.role \in {"giveup", "drop"} THEN GivenUp(j) ELSE [j EXCEPT !.at = "check"])
      BY <3>3, <2>2, <2>3
    <3> QED BY <1>5, <3>1, <3>2, <3>3, LookGoes
  <2> QED BY <1>1, <2>1, <2>4, DoSets DEF Steps, Works
<1> QED BY <1>2, <1>3, <1>4, <1>5

LEMMA OpenStays == ASSUME UNCHANGED trail PROVE Open' = Open
  BY DEF Open

LEMMA AloneCheck == ASSUME Base, Alone, NEW t \in Thread, Check(t)  PROVE Alone'
<1>1. DOMAIN job[t] = Fields /\ DOMAIN job = Thread
  BY DEF Base, Sound
<1>2. Works(job[t]) /\ life' = life /\ Open' = Open /\ life # "ended"
  BY OpenStays DEF Check, Is, Works, records, run, Alone
<1>3. CASE Open = {} /\ Do(t, [job[t] EXCEPT !.at = "move"])
  <2> DEFINE j == [job[t] EXCEPT !.at = "move"]
  <2>1. j.role = job[t].role /\ Do(t, j)
    BY <1>1, <1>3 DEF Fields
  <2> HIDE DEF j
  <2>2. job'[t] = j /\ \A u \in Thread : u # t => job'[u] = job[u]
    BY <1>1, <2>1, DoSets
  <2> QED BY <1>2, <1>3, <2>1, <2>2, AloneStep
<1>4. CASE Do(t, Raised(t))
  <2>1. Steps(t)
    BY <1>1, <1>2, <1>4, DoSets, AtRaised DEF Steps
  <2> QED BY <1>2, <2>1, AloneSteps
<1> QED BY <1>3, <1>4 DEF Check, Go

LEMMA AloneEnd == ASSUME Base, Alone, NEW t \in Thread, End(t)  PROVE Alone'
<1>1. DOMAIN job = Thread /\ Works(job[t]) /\ Open' = Open /\ Open = {}
  BY OpenStays DEF Base, End, Is, Works, records, Alone
<1>2. CASE life' = "ended" /\ Do(t, Free)
  <2>1. job'[t] = Free /\ \A u \in Thread : u # t => job'[u] = job[u]
    BY <1>1, <1>2, DoSets
  <2>2. ~Works(Free)
    BY FieldsOfFree DEF Works
  <2> QED BY <1>1, <1>2, <2>1, <2>2, AloneStep
<1>3. CASE UNCHANGED life /\ Do(t, Raised(t))
  <2>1. Steps(t)
    BY <1>1, <1>3, DoSets, AtRaised DEF Steps
  <2> QED BY <1>1, <2>1, AloneSteps
<1> QED BY <1>2, <1>3 DEF End

LEMMA AloneParkRun == ASSUME Base, Alone, NEW t \in Thread, ParkRun(t)  PROVE Alone'
<1>1. /\ DOMAIN job = Thread /\ Works(job[t]) /\ DOMAIN job[t] = Fields /\ job[t].role = "step"
      /\ life # "ended"
  BY DEF Base, Sound, ParkRun, Is, Works, Alone
<1>2. CASE life' = "waiting" /\ Do(t, [job[t] EXCEPT !.at = "save"])
  <2> DEFINE j == [job[t] EXCEPT !.at = "save"]
  <2>1. ~Works(j) /\ Do(t, j) /\ j.at = "save"
    BY <1>1, <1>2 DEF Fields, Works
  <2> HIDE DEF j
  <2>2. job'[t] = j /\ \A u \in Thread : u # t => job'[u] = job[u]
    BY <1>1, <2>1, DoSets
  <2> QED BY <1>1, <1>2, <2>1, <2>2, AloneStep
<1>3. CASE UNCHANGED life /\ Do(t, Failing)
  <2>1. Steps(t)
    BY <1>1, <1>3, DoSets, FieldsOfFailing DEF Steps
  <2> QED BY <1>1, <2>1, AloneSteps
<1> QED BY <1>2, <1>3 DEF ParkRun, Go

\* A thread that did not work goes to work alone, or ends what it had left to do.
LEMMA AloneSave == ASSUME Base, Alone, NEW t \in Thread, SaveCheckpoint(t)  PROVE Alone'
<1>1. /\ job'[t] = Free /\ \A u \in Thread : u # t => job'[u] = job[u]
      /\ UNCHANGED <<trail, life, minted>> /\ job[t].at = "save"
  BY DoSets DEF Base, SaveCheckpoint, records, Is
<1>2. \A u \in Thread : Works(job'[u]) \/ job'[u].at = "move" => u # t
  BY <1>1, FieldsOfFree DEF Works
<1>3. life # "new"
  BY <1>1 DEF Alone, Idle, Is
<1> QED BY <1>1, <1>2, <1>3, OpenStays DEF Alone

LEMMA AloneBegins ==
  ASSUME Base, Alone, NEW t \in Thread, \A u \in Thread : ~Works(job[u]),
         \A u \in Thread : u # t => job'[u] = job[u],
         UNCHANGED <<trail, minted>>, job'[t].at # "move",
         life' = "active" \/ (life' = "waiting" /\ job'[t].role = "cancel")
  PROVE  Alone'
<1>1. \A u \in Thread : Works(job'[u]) \/ job'[u].at = "move" => u = t
  BY DEF Works
<1> QED BY <1>1 DEF Alone

LEMMA AloneStart == ASSUME Base, Alone, NEW t \in Thread, StartRun(t)  PROVE Alone'
<1>1. /\ job'[t] = PassFrom(<<>>) /\ \A u \in Thread : u # t => job'[u] = job[u]
      /\ UNCHANGED <<trail, minted>> /\ life' = "active" /\ life = "new"
  BY DoSets DEF Base, StartRun, records
<1>2. PassFrom(<<>>).at = "task"
  BY NoElement, PassStarts DEF Carries
<1>3. \A u \in Thread : ~Works(job[u])
  BY <1>1 DEF Alone
<1> QED BY <1>1, <1>2, <1>3, AloneBegins

LEMMA AloneResume == ASSUME Patient, Base, Alone, NEW t \in Thread, ResumeRun(t)  PROVE Alone'
<1>1. /\ job'[t] = PassFrom(ckpt) /\ \A u \in Thread : u # t => job'[u] = job[u]
      /\ UNCHANGED <<trail, minted>> /\ life' = "active" /\ life = "waiting"
      /\ \A u \in Thread : job[u].role # "cancel"
  BY DoSets DEF Base, ResumeRun, records
<1>2. PassFrom(ckpt).at = "task"
  BY PassStarts, Handles DEF Base
<1>3. \A u \in Thread : ~Works(job[u])
  BY <1>1 DEF Alone
<1> QED BY <1>1, <1>2, <1>3, AloneBegins

LEMMA AloneCancel == ASSUME Patient, Base, Alone, NEW t \in Thread, CancelRun(t)  PROVE Alone'
<1>1. PICK at \in {"look", "check"} : Do(t, [Free EXCEPT !.at = at, !.role = "cancel"])
  BY DEF CancelRun
<1>2. UNCHANGED <<trail, minted, life>> /\ life \in {"active", "waiting"} /\ \A u \in Thread : job[u].at = "idle"
  BY DEF CancelRun, records, run, Idle, Is
<1>3. job'[t].at = at /\ job'[t].role = "cancel" /\ \A u \in Thread : u # t => job'[u] = job[u]
  <2>1. job'[t] = [Free EXCEPT !.at = at, !.role = "cancel"] /\ \A u \in Thread : u # t => job'[u] = job[u]
    BY <1>1, DoSets DEF Base
  <2> QED BY <2>1, FieldsOfFree DEF Fields
<1>4. \A u \in Thread : ~Works(job[u])
  BY <1>2 DEF Works
<1> QED BY <1>2, <1>3, <1>4, AloneBegins

LEMMA AloneNext == ASSUME Patient, Base, Alone, [Next]_vars PROVE Alone'
<1>1. ASSUME NEW t \in Thread, Pass(t)  PROVE Alone'
  BY <1>1, StepsOfTask, StepsOfStep, StepsOfEnd, AloneSteps, AloneCheck, AloneEnd, AloneParkRun, AloneSave
     DEF Pass
<1>2. ASSUME NEW t \in Thread, StartRun(t) \/ ResumeRun(t) \/ CancelRun(t)  PROVE Alone'
  BY <1>2, AloneStart, AloneResume, AloneCancel
<1>3. CASE Answer
  BY <1>3, OpenStays DEF Answer, records, Alone, Idle, Is
<1>4. CASE Die
  <2>1. UNCHANGED <<trail, minted, ckpt, life>> /\ job' = [t \in Thread |-> Free] /\ life # "new"
    BY <1>4 DEF Die, records, run, Alone
  <2>2. \A t \in Thread : ~Works(job'[t]) /\ job'[t].at # "move"
    BY <2>1, FieldsOfFree DEF Works
  <2> QED BY <2>1, <2>2, OpenStays DEF Alone
<1>5. CASE UNCHANGED vars
  BY <1>5, OpenStays DEF vars, Alone, Idle, Is
<1> QED BY <1>1, <1>2, <1>3, <1>4, <1>5 DEF Next

LEMMA AloneInit == Init => Alone
<1> SUFFICES ASSUME Init PROVE Alone
  OBVIOUS
<1>1. /\ minted = <<>> /\ ckpt = <<>> /\ life = "new" /\ \A t \in Thread : job[t] = Free
  BY DEF Init
<1> QED BY <1>1, FieldsOfFree DEF Alone, Idle, Is, Works

----------------------------------------------------------------------------
(* Shape: the records of an invocation no fault touched. *)

LEMMA LayoutEmpty == ASSUME NEW r PROVE Layout(<<>>, 0, 0, 0, r)
  BY NoElement DEF Layout

LEMMA LayoutStarted == ASSUME NEW r PROVE Layout(Append(<<>>, Started), 1, 0, 0, r)
<1>1. Len(Append(<<>>, Started)) = 1 /\ Append(<<>>, Started)[1] = Started
  BY NoElement, SeqFacts
<1> QED BY <1>1 DEF Layout, Started

LEMMA LayoutSkipped ==
  ASSUME NEW r \in {"stopped", "abnormal"} PROVE Layout(Append(<<>>, Settled(r)), 0, 0, 1, r)
<1>1. Len(Append(<<>>, Settled(r))) = 1 /\ Append(<<>>, Settled(r))[1] = Settled(r)
  BY NoElement, SeqFacts
<1> QED BY <1>1 DEF Layout

LEMMA LayoutParked ==
  ASSUME NEW tr, IsSeq(tr), NEW k \in Nat, NEW r, Layout(tr, k, 0, 0, r), k >= 1, NEW d
  PROVE  Layout(Append(tr, Parked(d)), k + 1, 0, 0, r)
<1> DEFINE a == Append(tr, Parked(d))
<1>1. Len(tr) = k /\ Len(a) = k + 1 /\ a[k + 1] = Parked(d) /\ \A n \in 1..k : a[n] = tr[n]
  BY SeqFacts DEF Layout
<1>2. Parked(d).type = "parked"
  BY DEF Parked
<1>3. \A n \in 1..k : tr[n].type = IF n = 1 THEN "started" ELSE "parked"
  BY DEF Layout
<1> HIDE DEF a
<1>4. \A n \in 1..(k + 1) : a[n].type = IF n = 1 THEN "started" ELSE "parked"
  BY <1>1, <1>2, <1>3
<1>5. Layout(a, k + 1, 0, 0, r)
  BY <1>1, <1>4 DEF Layout
<1> QED BY <1>5 DEF a

LEMMA LayoutCompleted ==
  ASSUME NEW tr, IsSeq(tr), NEW k \in Nat, NEW r, Layout(tr, k, 0, 0, r), k >= 1, NEW new
  PROVE  Layout(Append(tr, Completed(new)), k, 1, 0, new)
<1> DEFINE a == Append(tr, Completed(new))
<1>1. Len(tr) = k /\ Len(a) = k + 1 /\ a[k + 1] = Completed(new) /\ \A n \in 1..k : a[n] = tr[n]
  BY SeqFacts DEF Layout
<1>2. \A n \in 1..k : tr[n].type = IF n = 1 THEN "started" ELSE "parked"
  BY DEF Layout
<1> HIDE DEF a
<1>3. Layout(a, k, 1, 0, new)
  BY <1>1, <1>2 DEF Layout
<1> QED BY <1>3 DEF a

LEMMA LayoutSettled ==
  ASSUME NEW tr, IsSeq(tr), NEW k \in Nat, NEW e \in 0..1, NEW r, Layout(tr, k, e, 0, r),
         NEW new, IF e = 1 THEN new = r ELSE k <= 1 /\ new \in {"stopped", "abnormal"}
  PROVE  Layout(Append(tr, Settled(new)), k, e, 1, new)
<1> DEFINE a == Append(tr, Settled(new))
<1>1. Len(tr) = k + e /\ Len(a) = k + e + 1 /\ a[k + e + 1] = Settled(new) /\ \A n \in 1..(k + e) : a[n] = tr[n]
  BY SeqFacts DEF Layout
<1>2. /\ \A n \in 1..k : tr[n].type = IF n = 1 THEN "started" ELSE "parked"
      /\ e = 1 => k >= 1 /\ tr[k + 1] = Completed(r)
  BY DEF Layout
<1> HIDE DEF a
<1>3. Layout(a, k, e, 1, new)
  BY <1>1, <1>2 DEF Layout
<1> QED BY <1>3 DEF a

LEMMA LayoutTold ==
  ASSUME NEW tr, IsSeq(tr), NEW k \in Nat, NEW e \in 0..1, NEW r, Layout(tr, k, e, 1, r)
  PROVE  Layout(Append(tr, Message(r)), k, e, 2, r)
<1> DEFINE a == Append(tr, Message(r))
<1>1. /\ Len(tr) = k + e + 1 /\ Len(a) = k + e + 2 /\ a[k + e + 2] = Message(r)
      /\ \A n \in 1..(k + e + 1) : a[n] = tr[n]
  BY SeqFacts DEF Layout
<1>2. /\ \A n \in 1..k : tr[n].type = IF n = 1 THEN "started" ELSE "parked"
      /\ e = 1 => k >= 1 /\ tr[k + 1] = Completed(r)
      /\ tr[k + e + 1] = Settled(r)
      /\ e = 0 => k <= 1 /\ r \in {"stopped", "abnormal"}
  BY DEF Layout
<1> HIDE DEF a
<1>3. Layout(a, k, e, 2, r)
  BY <1>1, <1>2 DEF Layout
<1> QED BY <1>3 DEF a

LEMMA ShapeStep ==
  ASSUME Alone, Shape, NEW t \in Thread, Works(job[t]), NEW i \in Invocation,
         Only(t, i), hurt \subseteq hurt',
         Writes(job[t]) => job[t].inv = i,
         Writes(job'[t]) => job'[t].inv = i,
         i \notin hurt' => IF Writes(job'[t]) THEN Phase(trail'[i], job'[t]) ELSE Rest(trail'[i])
  PROVE  Shape'
<1>1. \A u \in Thread : u # t => ~Writes(job'[u]) /\ ~Writes(job[u])
  BY DEF Alone, Writes, Works, Only
<1>2. ASSUME NEW u \in Thread, Writes(job'[u]), job'[u].inv \in Whole'
      PROVE  Phase(trail'[job'[u].inv], job'[u])
  BY <1>1, <1>2 DEF Whole
<1>3. ASSUME NEW k \in Whole', \A u \in Thread : Writes(job'[u]) => job'[u].inv # k
      PROVE  Rest(trail'[k])
  <2>1. CASE k = i
    BY <1>3, <2>1 DEF Whole
  <2>2. CASE k # i
    <3>1. k \in Whole /\ trail'[k] = trail[k]
      BY <2>2 DEF Whole, Only
    <3>2. \A u \in Thread : Writes(job[u]) => job[u].inv # k
      BY <1>1, <2>2
    <3> QED BY <3>1, <3>2 DEF Shape
  <2> QED BY <2>1, <2>2
<1> QED BY <1>2, <1>3 DEF Shape

LEMMA ShapeQuiet ==
  ASSUME Shape, NEW t \in Thread, \A u \in Thread : u # t => job'[u] = job[u],
         trail' = trail, hurt \subseteq hurt',
         ~Writes(job'[t]), Writes(job[t]) => job[t].inv \in hurt'
  PROVE  Shape'
<1>1. ASSUME NEW u \in Thread, Writes(job'[u]), job'[u].inv \in Whole'
      PROVE  Phase(trail'[job'[u].inv], job'[u])
  BY <1>1 DEF Whole, Shape
<1>2. ASSUME NEW k \in Whole', \A u \in Thread : Writes(job'[u]) => job'[u].inv # k
      PROVE  Rest(trail'[k])
  <2>1. \A u \in Thread : Writes(job[u]) => job[u].inv # k
    BY <1>2 DEF Whole
  <2> QED BY <2>1 DEF Shape, Whole
<1> QED BY <1>1, <1>2 DEF Shape

LEMMA ShapeWrite ==
  ASSUME Base, Alone, Shape, NEW t \in Thread, Works(job[t]), NEW i \in Invocation, NEW rec, NEW next, NEW caught,
         Write(t, i, rec, next, caught),
         Writes(job[t]) => job[t].inv = i,
         Writes(next) => next.inv = i,
         Writes(caught) => caught.inv = i,
         i \in Whole => LET tr == Append(trail[i], rec) IN
                        IF Writes(next) THEN Phase(tr, next) ELSE Rest(tr)
  PROVE  Shape'
<1>1. /\ DOMAIN trail' = Invocation
      /\ \A k \in Invocation : k # i => trail'[k] = trail[k]
      /\ Good(t, i, rec, next) \/ Bad(t, i, rec, caught)
  BY WriteGoes
<1>2. CASE Good(t, i, rec, next)
  <2>1. /\ DOMAIN job' = Thread /\ job'[t] = next /\ \A u \in Thread : u # t => job'[u] = job[u]
        /\ trail'[i] = Append(trail[i], rec) /\ hurt' = hurt
    BY <1>2, DoSets DEF Good, Base, Appended, NoFault
  <2> QED BY <1>1, <2>1, ShapeStep DEF Only, Whole
<1>3. CASE Bad(t, i, rec, caught)
  <2>1. /\ DOMAIN job' = Thread /\ job'[t] = caught /\ \A u \in Thread : u # t => job'[u] = job[u]
        /\ i \in hurt' /\ hurt \subseteq hurt'
    BY <1>3, DoSets DEF Bad, Base
  <2> QED BY <1>1, <2>1, ShapeStep DEF Only
<1> QED BY <1>1, <1>2, <1>3

LEMMA RaisedWrites == ASSUME NEW t PROVE ~Writes(Raised(t))
  BY FieldsOfFree, FieldsOfFailing DEF Raised, Writes

LEMMA Inside == "abnormal" \in StopReason /\ "stopped" \in StopReason /\ 0 \in 0..1 /\ 1 \in 0..1
                /\ 0 \in 0..2 /\ 1 \in 0..2 /\ 2 \in 0..2
  BY DEF StopReason

LEMMA PhaseSays ==
  ASSUME NEW tr, NEW j, Phase(tr, j)
  PROVE  \E k \in Nat, e \in 0..1, m \in 0..2, r \in StopReason :
            /\ Layout(tr, k, e, m, r)
            /\ j.at \in {"run", "park", "raised"} => e = 0 /\ m = 0 /\ k >= 1 /\ (j.resumed <=> k >= 2)
            /\ j.at = "close" => e = 0 /\ m = 0 /\ k >= 2 /\ j.reason \in StopReason
            /\ j.at = "settle" => m = 0 /\ IF e = 1 THEN r = j.reason ELSE k <= 1 /\ j.reason = "abnormal"
            /\ j.at = "tell" => m = 1 /\ r = j.reason
  BY DEF Phase

LEMMA PhaseIs ==
  ASSUME NEW tr, NEW j, NEW k \in Nat, NEW e \in 0..1, NEW m \in 0..2, NEW r \in StopReason,
         Layout(tr, k, e, m, r),
         \/ j.at \in {"run", "park", "raised"} /\ e = 0 /\ m = 0 /\ k >= 1 /\ (j.resumed <=> k >= 2)
         \/ j.at = "close" /\ e = 0 /\ m = 0 /\ k >= 2 /\ j.reason \in StopReason
         \/ j.at = "settle" /\ m = 0 /\ (e = 1 => r = j.reason) /\ (e = 0 => k <= 1 /\ j.reason = "abnormal")
         \/ j.at = "tell" /\ m = 1 /\ r = j.reason
  PROVE  Phase(tr, j)
  BY DEF Phase

LEMMA RestIs ==
  ASSUME NEW tr, NEW k \in Nat, NEW e \in 0..1, NEW m \in 0..2, NEW r \in StopReason,
         Layout(tr, k, e, m, r), m = 0 => e = 0 /\ k # 1, m = 1 => e = 0
  PROVE  Rest(tr)
  BY DEF Rest

LEMMA OthersRest ==
  ASSUME Alone, Shape, NEW t \in Thread, Works(job[t]), NEW i \in Whole, Writes(job[t]) => job[t].inv # i
  PROVE  Rest(trail[i])
<1>1. \A u \in Thread : Writes(job[u]) => u = t
  BY DEF Alone, Writes, Works
<1> QED BY <1>1 DEF Shape

LEMMA ShapeSkip == ASSUME Base, Alone, Shape, NEW t \in Thread, Skip(t)  PROVE Shape'
<1>1. Write(t, New, Settled("stopped"), Recorded(job[t], New, "skipped"), Raised(t)) /\ Mint(Task(t))
      /\ job[t].at = "task" /\ Sound(job[t], DOMAIN minted)
  BY DEF Skip, AtTask, Is, Base
<1>2. New \in Invocation /\ trail[New] = <<>>
  BY <1>1, FreshHandle
<1>3. Adds(Recorded(job[t], New, "skipped"), job[t], New, "skipped")
  BY <1>1, FieldsOfRecorded DEF Sound
<1>4. Layout(Append(<<>>, Settled("stopped")), 0, 0, 1, "stopped")
  BY LayoutSkipped
<1>5. Rest(Append(<<>>, Settled("stopped")))
  BY <1>4, Inside, RestIs
<1>6. ~Writes(Recorded(job[t], New, "skipped")) /\ ~Writes(Raised(t)) /\ ~Writes(job[t]) /\ Works(job[t])
  BY <1>1, <1>3, RaisedWrites DEF Writes, Adds, Works
<1> DEFINE next == Recorded(job[t], New, "skipped")
           caught == Raised(t)
           rec == Settled("stopped")
<1>7. Write(t, New, rec, next, caught) /\ ~Writes(next) /\ ~Writes(caught) /\ Rest(Append(trail[New], rec))
  BY <1>1, <1>2, <1>5, <1>6
<1> HIDE DEF next, caught, rec
<1> QED BY <1>2, <1>6, <1>7, ShapeWrite

LEMMA ShapeUnresolved == ASSUME Base, Alone, Shape, NEW t \in Thread, Unresolved(t)  PROVE Shape'
<1> DEFINE j == [job[t] EXCEPT !.at = "settle", !.inv = New, !.reason = "abnormal"]
<1>1. /\ Do(t, j) /\ Mint(Task(t)) /\ UNCHANGED <<trail, hurt>> /\ job[t].at = "task"
      /\ DOMAIN job = Thread /\ DOMAIN job[t] = Fields /\ DOMAIN trail = Invocation
  BY DEF Unresolved, AtTask, Is, Base, Sound, run
<1>2. New \in Invocation /\ trail[New] = <<>>
  BY <1>1, FreshHandle
<1>3. j.at = "settle" /\ j.inv = New /\ j.reason = "abnormal"
  BY <1>1 DEF Fields
<1> HIDE DEF j
<1>4. Phase(<<>>, j)
  <2>1. Layout(<<>>, 0, 0, 0, "abnormal")
    BY LayoutEmpty
  <2> QED BY <1>3, <2>1, Inside, PhaseIs
<1>5. job'[t] = j /\ DOMAIN job' = Thread /\ \A u \in Thread : u # t => job'[u] = job[u]
  BY <1>1, DoSets
<1>6. Only(t, New)
  BY <1>1, <1>5 DEF Only
<1>7. ~Writes(job[t]) /\ Works(job[t])
  BY <1>1 DEF Writes, Works
<1> QED BY <1>1, <1>2, <1>3, <1>4, <1>5, <1>6, <1>7, ShapeStep DEF Writes

LEMMA ShapeDelegate == ASSUME Base, Alone, Shape, NEW t \in Thread, Delegate(t)  PROVE Shape'
<1> DEFINE j == [job[t] EXCEPT !.inv = New, !.resumed = FALSE, !.over = FALSE,
                               !.role = IF Is(t, "tune") THEN "helper" ELSE "step"]
           next == [j EXCEPT !.at = "run"]
           caught == [j EXCEPT !.at = "raised"]
<1>1. PICK p : Mint(p) /\ Write(t, New, Started, next, caught)
  BY DEF Delegate
<1>2. job[t].at \in {"task", "tune"} /\ DOMAIN job[t] = Fields
  BY DEF Delegate, AtTask, Is, Base, Sound
<1>3. DOMAIN j = Fields /\ j.inv = New /\ j.resumed = FALSE
  BY <1>2 DEF Fields
<1> HIDE DEF j
<1>4. next.at = "run" /\ next.inv = New /\ next.resumed = FALSE /\ caught.at = "raised" /\ caught.inv = New
  BY <1>3 DEF Fields
<1> HIDE DEF next, caught
<1>5. New \in Invocation /\ trail[New] = <<>>
  BY <1>1, FreshHandle
<1>6. Phase(Append(<<>>, Started), next)
  <2>1. Layout(Append(<<>>, Started), 1, 0, 0, "abnormal")
    BY LayoutStarted
  <2> QED BY <1>4, <2>1, Inside, PhaseIs
<1>7. ~Writes(job[t]) /\ Works(job[t]) /\ Writes(next)
  BY <1>2, <1>4 DEF Writes, Works
<1> QED BY <1>1, <1>4, <1>5, <1>6, <1>7, ShapeWrite

\* A parked trail that can be gone on with: nothing followed its park.
LEMMA ReadyRests ==
  ASSUME NEW i, IsSeq(trail[i]), Rest(trail[i]), Readiness(i) = "ready"
  PROVE  \E k \in Nat, r \in StopReason : Layout(trail[i], k, 0, 0, r) /\ k >= 2
<1> DEFINE tr == trail[i]
           parks == {n \in At(tr, "parked") : tr[n].review = bundle[i]}
<1>1. One(parks) /\ After(tr, The(parks), "completed") \cup After(tr, The(parks), "settled") = {}
  BY DEF Readiness
<1>2. The(parks) \in At(tr, "parked")
  <2>1. parks # {}
    BY <1>1, NoneOf
  <2> QED BY <2>1 DEF The
<1> HIDE DEF parks
<1>3. PICK k \in Nat, e \in 0..1, m \in 0..2, r \in StopReason :
        Layout(tr, k, e, m, r) /\ (m = 0 => e = 0 /\ k # 1) /\ (m = 1 => e = 0)
  BY DEF Rest
<1>4. /\ At(tr, "parked") = 2..k
      /\ At(tr, "completed") = IF e = 1 THEN {k + 1} ELSE {}
      /\ At(tr, "settled") = IF m >= 1 THEN {k + e + 1} ELSE {}
  BY <1>3, LayoutRecords DEF IsSeq
<1>5. k >= 2 /\ The(parks) \in 2..k
  BY <1>2, <1>4
<1>6. e = 0 /\ m = 0
  BY <1>1, <1>4, <1>5 DEF After
<1> QED BY <1>3, <1>5, <1>6

LEMMA ShapeCarry == ASSUME Base, Alone, Shape, NEW t \in Thread, Carry(t)  PROVE Shape'
<1> DEFINE i == job[t].pend
           again == [job[t] EXCEPT !.at = "run", !.inv = i, !.resumed = TRUE, !.over = FALSE]
           close(role) == [job[t] EXCEPT !.at = "look", !.role = role]
<1>1. /\ UNCHANGED <<trail, minted, ckpt, hurt>> /\ job[t].at = "task" /\ i # None
      /\ DOMAIN job = Thread /\ DOMAIN job[t] = Fields /\ Sound(job[t], DOMAIN minted) /\ DOMAIN trail = Invocation
      /\ \/ Readiness(i) = "ready" /\ Do(t, again)
         \/ Do(t, Waiting(job[t], i)) \/ Do(t, close("giveup")) \/ Do(t, close("drop"))
  BY DEF Carry, AtTask, Is, Base, Sound, records, run, Waiting, NoFault
<1>2. ~Writes(job[t]) /\ Works(job[t])
  BY <1>1 DEF Writes, Works
<1>3. CASE Readiness(i) = "ready" /\ Do(t, again)
  <2>1. again.at = "run" /\ again.inv = i /\ again.resumed = TRUE
    BY <1>1 DEF Fields
  <2>2. i \in Invocation
    BY <1>1, Handles DEF Sound
  <2>3. job'[t] = again /\ DOMAIN job' = Thread /\ \A u \in Thread : u # t => job'[u] = job[u]
    BY <1>1, <1>3, DoSets
  <2> HIDE DEF again
  <2>4. ASSUME i \in Whole  PROVE Phase(trail[i], again)
    <3>1. Rest(trail[i])
      BY <2>4, <1>2, OthersRest
    <3>2. PICK k \in Nat, r \in StopReason : Layout(trail[i], k, 0, 0, r) /\ k >= 2
      BY <1>3, <2>2, <3>1, ReadyRests DEF Base
    <3>3. k >= 1 /\ (again.resumed <=> k >= 2)
      BY <2>1, <3>2
    <3> QED BY <2>1, <3>2, <3>3, Inside, PhaseIs
  <2>5. Only(t, i)
    BY <1>1, <2>3 DEF Only
  <2> QED BY <1>1, <1>2, <2>1, <2>2, <2>3, <2>4, <2>5, ShapeStep DEF Writes, Whole
<1>4. CASE Do(t, Waiting(job[t], i)) \/ Do(t, close("giveup")) \/ Do(t, close("drop"))
  <2>1. close("giveup").at = "look" /\ close("drop").at = "look"
    BY <1>1 DEF Fields
  <2>2. Waiting(job[t], i).at = "parkrun"
    <3>1. ParksOn(Waiting(job[t], i), job[t], i)
      BY <1>1, FieldsOfWaiting DEF Sound
    <3> QED BY <3>1 DEF ParksOn
  <2>3. PICK j : Do(t, j) /\ ~Writes(j)
    BY <1>4, <2>1, <2>2 DEF Writes
  <2>4. job'[t] = j /\ \A u \in Thread : u # t => job'[u] = job[u]
    BY <1>1, <2>3, DoSets
  <2> QED BY <1>1, <1>2, <2>3, <2>4, ShapeQuiet
<1> QED BY <1>1, <1>3, <1>4

LEMMA ShapePlanDone == ASSUME Base, Alone, Shape, NEW t \in Thread, PlanDone(t)  PROVE Shape'
<1>1. /\ job'[t] = Ending /\ \A u \in Thread : u # t => job'[u] = job[u]
      /\ UNCHANGED <<trail, hurt>> /\ ~Writes(job[t])
  BY DoSets DEF PlanDone, Is, Base, records, NoFault, Writes
<1>2. ~Writes(Ending)
  BY FieldsOfEnding DEF Writes
<1> QED BY <1>1, <1>2, ShapeQuiet

\* What a thread that writes knows of a trail no fault touched.
LEMMA WriterKnows ==
  ASSUME Base, Shape, NEW t \in Thread, Writes(job[t])
  PROVE  /\ job[t].inv \in Invocation /\ IsSeq(trail[job[t].inv])
         /\ job[t].inv \in Whole => Phase(trail[job[t].inv], job[t])
         /\ Works(job[t]) /\ DOMAIN job[t] = Fields /\ DOMAIN job = Thread
<1>1. job[t].inv \in DOMAIN minted /\ DOMAIN job[t] = Fields
  BY DEF Base, Sound
<1> QED BY <1>1, Handles DEF Base, Shape, Writes, Works

LEMMA ShapeComplete == ASSUME Base, Alone, Shape, NEW t \in Thread, Complete(t)  PROVE Shape'
<1>1. PICK r \in {"completed", "failed", "out-of-room"} :
        Write(t, job[t].inv, Completed(r), [job[t] EXCEPT !.at = "settle", !.reason = r],
              [job[t] EXCEPT !.at = "raised"])
  BY DEF Complete
<1>2. job[t].at = "run" /\ Writes(job[t])
  BY DEF Complete, Is, Writes
<1> DEFINE i == job[t].inv
           next == [job[t] EXCEPT !.at = "settle", !.reason = r]
           caught == [job[t] EXCEPT !.at = "raised"]
           rec == Completed(r)
<1>3. next.at = "settle" /\ next.inv = i /\ next.reason = r /\ caught.at = "raised" /\ caught.inv = i
  BY <1>2, WriterKnows DEF Fields
<1>4. Write(t, i, rec, next, caught)
  BY <1>1
<1> HIDE DEF next, caught
<1>5. ASSUME i \in Whole  PROVE Phase(Append(trail[i], rec), next)
  <2>1. PICK k \in Nat, q \in StopReason : Layout(trail[i], k, 0, 0, q) /\ k >= 1
    BY <1>2, <1>5, WriterKnows, PhaseSays
  <2>2. Layout(Append(trail[i], rec), k, 1, 0, r)
    BY <1>2, <2>1, WriterKnows, LayoutCompleted
  <2> QED BY <1>3, <2>2, Inside, PhaseIs DEF StopReason
<1> HIDE DEF rec
<1> QED BY <1>2, <1>3, <1>4, <1>5, WriterKnows, ShapeWrite DEF Writes

LEMMA ShapeStepRaises == ASSUME Base, Alone, Shape, NEW t \in Thread, StepRaises(t)  PROVE Shape'
<1>1. PICK over : Do(t, [job[t] EXCEPT !.at = "raised", !.over = over])
  BY DEF StepRaises
<1>2. job[t].at = "run" /\ Writes(job[t]) /\ UNCHANGED <<trail, hurt>>
  BY DEF StepRaises, Is, Writes, records, NoFault
<1> DEFINE i == job[t].inv
           j == [job[t] EXCEPT !.at = "raised", !.over = over]
<1>3. j.at = "raised" /\ j.inv = i /\ j.resumed = job[t].resumed
  BY <1>2, WriterKnows DEF Fields
<1>4. job'[t] = j /\ DOMAIN job' = Thread /\ \A u \in Thread : u # t => job'[u] = job[u]
  BY <1>1, <1>2, WriterKnows, DoSets
<1> HIDE DEF j
<1>5. i \in Whole => Phase(trail[i], j)
  <2>1. ASSUME i \in Whole  PROVE Phase(trail[i], j)
    <3>1. PICK k \in Nat, q \in StopReason :
            Layout(trail[i], k, 0, 0, q) /\ k >= 1 /\ (job[t].resumed <=> k >= 2)
      BY <1>2, <2>1, WriterKnows, PhaseSays
    <3> QED BY <1>3, <3>1, Inside, PhaseIs
  <2> QED BY <2>1
<1>6. Only(t, i)
  BY <1>2, <1>4 DEF Only, Base
<1> QED BY <1>2, <1>3, <1>4, <1>5, <1>6, WriterKnows, ShapeStep DEF Writes, Whole

LEMMA ShapeDefer == ASSUME Base, Alone, Shape, NEW t \in Thread, Defer(t)  PROVE Shape'
<1> DEFINE i == job[t].inv
           j == [job[t] EXCEPT !.at = "park", !.review = asked + 1]
<1>1. Do(t, j)
  BY DEF Defer
<1>2. job[t].at = "run" /\ Writes(job[t]) /\ UNCHANGED <<trail, hurt>>
  BY DEF Defer, Is, Writes, NoFault
<1>3. j.at = "park" /\ j.inv = i /\ j.resumed = job[t].resumed
  BY <1>2, WriterKnows DEF Fields
<1>4. job'[t] = j /\ DOMAIN job' = Thread /\ \A u \in Thread : u # t => job'[u] = job[u]
  BY <1>1, <1>2, WriterKnows, DoSets
<1> HIDE DEF j
<1>5. i \in Whole => Phase(trail[i], j)
  <2>1. ASSUME i \in Whole  PROVE Phase(trail[i], j)
    <3>1. PICK k \in Nat, q \in StopReason :
            Layout(trail[i], k, 0, 0, q) /\ k >= 1 /\ (job[t].resumed <=> k >= 2)
      BY <1>2, <2>1, WriterKnows, PhaseSays
    <3> QED BY <1>3, <3>1, Inside, PhaseIs
  <2> QED BY <2>1
<1>6. Only(t, i)
  BY <1>2, <1>4 DEF Only, Base
<1> QED BY <1>2, <1>3, <1>4, <1>5, <1>6, WriterKnows, ShapeStep DEF Writes, Whole

LEMMA ShapePark == ASSUME Base, Alone, Shape, NEW t \in Thread, Park(t)  PROVE Shape'
<1> DEFINE j == job[t]
           i == j.inv
           helped == [j EXCEPT !.at = "task", !.role = "step", !.inv = None]
           next == IF j.role = "helper" THEN helped ELSE Waiting(j, i)
           caught == [j EXCEPT !.at = "raised"]
           rec == Parked(j.review)
<1>1. Write(t, i, rec, next, caught) /\ j.at = "park" /\ Writes(j)
  BY DEF Park, Is, Waiting, Writes
<1>2. caught.at = "raised" /\ caught.inv = i /\ helped.at = "task"
  BY <1>1, WriterKnows DEF Fields
<1>3. Waiting(j, i).at = "parkrun"
  <2>1. ParksOn(Waiting(j, i), j, i)
    BY FieldsOfWaiting DEF Base, Sound
  <2> QED BY <2>1 DEF ParksOn
<1>4. ~Writes(next)
  BY <1>2, <1>3 DEF Writes
<1> HIDE DEF next, caught
<1>5. ASSUME i \in Whole  PROVE Rest(Append(trail[i], rec))
  <2>1. PICK k \in Nat, q \in StopReason : Layout(trail[i], k, 0, 0, q) /\ k >= 1
    BY <1>1, <1>5, WriterKnows, PhaseSays
  <2>2. Layout(Append(trail[i], rec), k + 1, 0, 0, q)
    BY <1>1, <2>1, WriterKnows, LayoutParked
  <2> QED BY <2>1, <2>2, Inside, RestIs
<1> HIDE DEF rec
<1> QED BY <1>1, <1>2, <1>4, <1>5, WriterKnows, ShapeWrite

LEMMA ShapeCloseRaised == ASSUME Base, Alone, Shape, NEW t \in Thread, CloseRaised(t)  PROVE Shape'
<1> DEFINE i == job[t].inv
           next == [job[t] EXCEPT !.at = "settle", !.reason = "abnormal"]
           rec == Completed("abnormal")
<1>1. job[t].at = "raised" /\ Writes(job[t])
  BY DEF CloseRaised, Is, Writes
<1>2. next.at = "settle" /\ next.inv = i /\ next.reason = "abnormal"
  BY <1>1, WriterKnows DEF Fields
<1>3. \/ job[t].resumed /\ Write(t, i, rec, next, Raised(t))
      \/ /\ ~(job[t].resumed /\ At(trail[i], "completed") = {})
         /\ Do(t, next) /\ UNCHANGED <<trail, hurt>>
  BY DEF CloseRaised, NoFault
<1> HIDE DEF next
<1>4. CASE job[t].resumed /\ Write(t, i, rec, next, Raised(t))
  <2>1. ASSUME i \in Whole  PROVE Phase(Append(trail[i], rec), next)
    <3>1. PICK k \in Nat, q \in StopReason : Layout(trail[i], k, 0, 0, q) /\ k >= 1
      BY <1>1, <2>1, WriterKnows, PhaseSays
    <3>2. Layout(Append(trail[i], rec), k, 1, 0, "abnormal")
      BY <1>1, <3>1, WriterKnows, LayoutCompleted
    <3> QED BY <1>2, <3>2, Inside, PhaseIs
  <2> HIDE DEF rec
  <2> QED BY <1>1, <1>2, <1>4, <2>1, RaisedWrites, WriterKnows, ShapeWrite DEF Writes
<1>5. CASE ~(job[t].resumed /\ At(trail[i], "completed") = {}) /\ Do(t, next) /\ UNCHANGED <<trail, hurt>>
  <2>1. job'[t] = next /\ DOMAIN job' = Thread /\ \A u \in Thread : u # t => job'[u] = job[u]
    BY <1>1, <1>5, WriterKnows, DoSets
  <2>2. ASSUME i \in Whole  PROVE Phase(trail[i], next)
    <3>1. PICK k \in Nat, q \in StopReason :
            Layout(trail[i], k, 0, 0, q) /\ k >= 1 /\ (job[t].resumed <=> k >= 2)
      BY <1>1, <2>2, WriterKnows, PhaseSays
    <3>2. At(trail[i], "completed") = {}
      BY <1>1, <3>1, WriterKnows, LayoutRecords, Inside DEF IsSeq
    <3>3. k <= 1
      BY <1>5, <3>1, <3>2
    <3> QED BY <1>2, <3>1, <3>3, Inside, PhaseIs
  <2>3. Only(t, i)
    BY <1>5, <2>1 DEF Only, Base
  <2> QED BY <1>1, <1>2, <1>5, <2>1, <2>2, <2>3, WriterKnows, ShapeStep DEF Writes, Whole
<1> QED BY <1>3, <1>4, <1>5

LEMMA ShapeClose == ASSUME Base, Alone, Shape, NEW t \in Thread, Close(t)  PROVE Shape'
<1> DEFINE i == job[t].inv
           r == job[t].reason
           next == [job[t] EXCEPT !.at = "settle"]
           rec == Completed(r)
<1>1. job[t].at = "close" /\ Writes(job[t]) /\ Write(t, i, rec, next, Raised(t))
  BY DEF Close, Is, Writes
<1>2. next.at = "settle" /\ next.inv = i /\ next.reason = r
  BY <1>1, WriterKnows DEF Fields
<1> HIDE DEF next
<1>3. ASSUME i \in Whole  PROVE Phase(Append(trail[i], rec), next)
  <2>1. PICK k \in Nat, q \in StopReason : Layout(trail[i], k, 0, 0, q) /\ k >= 2 /\ r \in StopReason
    BY <1>1, <1>3, WriterKnows, PhaseSays
  <2>2. Layout(Append(trail[i], rec), k, 1, 0, r)
    BY <1>1, <2>1, WriterKnows, LayoutCompleted
  <2> QED BY <1>2, <2>1, <2>2, Inside, PhaseIs
<1> HIDE DEF rec
<1> QED BY <1>1, <1>2, <1>3, RaisedWrites, WriterKnows, ShapeWrite DEF Writes

LEMMA ShapeSettle == ASSUME Base, Alone, Shape, NEW t \in Thread, Settle(t)  PROVE Shape'
<1> DEFINE i == job[t].inv
           r == job[t].reason
           next == [job[t] EXCEPT !.at = "tell"]
           rec == Settled(r)
<1>1. job[t].at = "settle" /\ Writes(job[t]) /\ Write(t, i, rec, next, Raised(t))
  BY DEF Settle, Is, Writes
<1>2. next.at = "tell" /\ next.inv = i /\ next.reason = r
  BY <1>1, WriterKnows DEF Fields
<1> HIDE DEF next
<1>3. ASSUME i \in Whole  PROVE Phase(Append(trail[i], rec), next)
  <2>1. PICK k \in Nat, e \in 0..1, q \in StopReason :
          Layout(trail[i], k, e, 0, q) /\ IF e = 1 THEN q = r ELSE k <= 1 /\ r = "abnormal"
    BY <1>1, <1>3, WriterKnows, PhaseSays
  <2>2. Layout(Append(trail[i], rec), k, e, 1, r) /\ r \in StopReason
    BY <1>1, <2>1, WriterKnows, LayoutSettled, Inside
  <2> QED BY <1>2, <2>1, <2>2, Inside, PhaseIs
<1> HIDE DEF rec
<1> QED BY <1>1, <1>2, <1>3, RaisedWrites, WriterKnows, ShapeWrite DEF Writes

LEMMA ToldWrites == ASSUME NEW j, NEW handles, Sound(j, handles) PROVE ~Writes(Told(j))
<1>1. CASE j.role \in {"cancel", "fail"}
  BY <1>1 DEF Told, Sound, Fields, Writes
<1>2. CASE j.role = "giveup"
  BY <1>2, FieldsOfEnding DEF Told, GivenUp, Writes
<1>3. CASE j.role = "drop"
  BY <1>3, FieldsOfTold DEF Sound, Writes
<1>4. CASE j.role = "helper" /\ ~j.over
  BY <1>4, FieldsOfTold DEF Sound, Writes
<1>5. CASE j.role = "step" /\ ~j.over
  BY <1>5, FieldsOfTold DEF Sound, Writes
<1>6. CASE j.role \notin {"cancel", "fail", "giveup", "drop"} /\ ~(j.role \in {"helper", "step"} /\ ~j.over)
  BY <1>6, FieldsOfFailing DEF Told, Writes
<1> QED BY <1>1, <1>2, <1>3, <1>4, <1>5, <1>6

LEMMA ShapeTell == ASSUME Base, Alone, Shape, NEW t \in Thread, Tell(t)  PROVE Shape'
<1> DEFINE i == job[t].inv
           r == job[t].reason
           rec == Message(r)
<1>1. job[t].at = "tell" /\ Writes(job[t]) /\ Write(t, i, rec, Told(job[t]), Raised(t)) /\ ~Writes(Told(job[t]))
  BY ToldWrites DEF Tell, Is, Writes, Base
<1>2. ASSUME i \in Whole  PROVE Rest(Append(trail[i], rec))
  <2>1. PICK k \in Nat, e \in 0..1, q \in StopReason : Layout(trail[i], k, e, 1, q) /\ q = r
    BY <1>1, <1>2, WriterKnows, PhaseSays
  <2>2. Layout(Append(trail[i], rec), k, e, 2, r) /\ r \in StopReason
    BY <1>1, <2>1, WriterKnows, LayoutTold
  <2> QED BY <2>2, Inside, RestIs
<1> HIDE DEF rec
<1> QED BY <1>1, <1>2, RaisedWrites, WriterKnows, ShapeWrite

\* What the finalizer finds open and whole is a parked step.
LEMMA OpenRests ==
  ASSUME NEW tr, IsSeq(tr), Rest(tr), IsOpen(tr)
  PROVE  /\ \E k \in Nat, r \in StopReason : Layout(tr, k, 0, 0, r) /\ k >= 2
         /\ Repairable(tr) /\ Missing(tr) = "close" /\ Ends(tr) = {}
<1>1. PICK k \in Nat, e \in 0..1, m \in 0..2, r \in StopReason :
        Layout(tr, k, e, m, r) /\ (m = 0 => e = 0 /\ k # 1) /\ (m = 1 => e = 0)
  BY DEF Rest
<1>2. k >= 2 /\ m # 2
  BY <1>1, LayoutPark DEF IsSeq
<1>3. m = 0 /\ e = 0
  BY <1>1, <1>2 DEF Layout
<1>4. Repairable(tr) /\ Missing(tr) = "close" /\ Ends(tr) = {}
  BY <1>1, <1>2, <1>3, LayoutPark DEF IsSeq
<1> QED BY <1>1, <1>2, <1>3, <1>4

LEMMA ShapeLook == ASSUME Base, Alone, Shape, NEW t \in Thread, Look(t)  PROVE Shape'
<1> DEFINE j == job[t]
<1>1. /\ UNCHANGED <<trail, hurt>> /\ j.at = "look" /\ Sound(j, DOMAIN minted) /\ DOMAIN j = Fields
      /\ DOMAIN job = Thread /\ Works(j) /\ ~Writes(j) /\ DOMAIN trail = Invocation
  BY LookGoes DEF Base, Sound, NoFault, Works, Writes
<1>2. CASE Do(t, IF j.role \in {"giveup", "drop"} THEN GivenUp(j) ELSE [j EXCEPT !.at = "check"])
           \/ Do(t, Raised(t))
  <2>1. j.role \in {"giveup", "drop"} => ~Writes(GivenUp(j))
    <3>1. j.role \in {"giveup", "drop"} => GivenUp(j) = Told(j)
      BY DEF Told
    <3> QED BY <1>1, <3>1, ToldWrites
  <2>2. ~Writes([j EXCEPT !.at = "check"])
    BY <1>1 DEF Fields, Writes
  <2>3. PICK x : Do(t, x) /\ ~Writes(x)
    BY <1>2, <2>1, <2>2, RaisedWrites
  <2>4. job'[t] = x /\ \A u \in Thread : u # t => job'[u] = job[u]
    BY <1>1, <2>3, DoSets
  <2> QED BY <1>1, <2>3, <2>4, ShapeQuiet
<1>3. CASE One(Open) /\ Do(t, Closing(j, The(Open)))
  <2> DEFINE i == The(Open)
             x == Closing(j, i)
  <2>1. i \in Invocation /\ IsOpen(trail[i]) /\ IsSeq(trail[i])
    BY <1>3, OpenOnes DEF Open, Base
  <2>2. /\ x.at = Missing(trail[i]) /\ x.inv = i /\ x.reason = ReasonFor(trail[i], Wanted(j.role))
    BY <1>1 DEF Closing, Fields
  <2>3. job'[t] = x /\ DOMAIN job' = Thread /\ \A u \in Thread : u # t => job'[u] = job[u]
    BY <1>1, <1>3, DoSets
  <2>4. Writes(x)
    BY <2>2 DEF Writes, Missing
  <2> HIDE DEF x, i
  <2>5. ASSUME i \in Whole  PROVE Phase(trail[i], x)
    <3>1. Rest(trail[i])
      BY <1>1, <2>5, OthersRest
    <3>2. PICK k \in Nat, r \in StopReason : Layout(trail[i], k, 0, 0, r) /\ k >= 2
      BY <2>1, <3>1, OpenRests
    <3>3. x.at = "close" /\ x.reason = Wanted(j.role)
      BY <2>1, <2>2, <3>1, OpenRests DEF ReasonFor
    <3>4. Wanted(j.role) \in StopReason
      BY DEF Wanted, StopReason
    <3> QED BY <3>2, <3>3, <3>4, Inside, PhaseIs
  <2>6. Only(t, i)
    BY <1>1, <2>3 DEF Only
  <2> QED BY <1>1, <2>1, <2>2, <2>3, <2>4, <2>5, <2>6, ShapeStep DEF Whole
<1> QED BY <1>2, <1>3, LookGoes

----------------------------------------------------------------------------
(* What the shape says of SettledOnce and AuditAccepts. *)

LEMMA ShapeNext == ASSUME Base, Alone, Shape, [Next]_vars PROVE Shape'
<1>1. ASSUME NEW t \in Thread,
             \/ Check(t) \/ End(t) \/ ParkRun(t) \/ SaveCheckpoint(t)
             \/ StartRun(t) \/ ResumeRun(t) \/ CancelRun(t)
      PROVE  Shape'
  <2>1. UNCHANGED <<trail, hurt>> /\ ~Writes(job[t]) /\ DOMAIN job[t] = Fields /\ DOMAIN job = Thread
    <3>1. job[t].at \in {"check", "move", "parkrun", "save", "idle"}
      BY <1>1 DEF Check, End, ParkRun, SaveCheckpoint, StartRun, ResumeRun, CancelRun, Is
    <3> QED BY <1>1, <3>1 DEF Check, End, ParkRun, SaveCheckpoint, StartRun, ResumeRun, CancelRun,
               records, NoFault, Writes, Base, Sound
  <2>2. /\ ~Writes(Free) /\ ~Writes(Failing) /\ ~Writes(Raised(t))
        /\ ~Writes([job[t] EXCEPT !.at = "move"]) /\ ~Writes([job[t] EXCEPT !.at = "save"])
        /\ ~Writes(PassFrom(<<>>)) /\ ~Writes(PassFrom(ckpt))
        /\ \A at \in {"look", "check"} : ~Writes([Free EXCEPT !.at = at, !.role = "cancel"])
    <3>1. ~Writes([job[t] EXCEPT !.at = "move"]) /\ ~Writes([job[t] EXCEPT !.at = "save"])
      BY <2>1 DEF Fields, Writes
    <3>2. ~Writes(PassFrom(<<>>)) /\ ~Writes(PassFrom(ckpt))
      BY Handles, PassStarts, NoElement DEF Base, Carries, Writes
    <3>3. \A at \in {"look", "check"} : ~Writes([Free EXCEPT !.at = at, !.role = "cancel"])
      BY FieldsOfFree DEF Fields, Writes
    <3>4. ~Writes(Free) /\ ~Writes(Failing)
      BY FieldsOfFree, FieldsOfFailing DEF Writes
    <3> QED BY <3>1, <3>2, <3>3, <3>4, RaisedWrites
  <2>3. PICK j : Do(t, j) /\ ~Writes(j)
    BY <1>1, <2>2 DEF Check, End, ParkRun, SaveCheckpoint, StartRun, ResumeRun, CancelRun, Go
  <2>4. job'[t] = j /\ \A u \in Thread : u # t => job'[u] = job[u]
    BY <2>1, <2>3, DoSets
  <2> QED BY <2>1, <2>3, <2>4, ShapeQuiet
<1>2. ASSUME NEW t \in Thread, Pass(t)  PROVE Shape'
  BY <1>1, <1>2, ShapeSkip, ShapeUnresolved, ShapeDelegate, ShapeCarry, ShapePlanDone, ShapeComplete,
     ShapeStepRaises, ShapeDefer, ShapePark, ShapeCloseRaised, ShapeClose, ShapeSettle, ShapeTell, ShapeLook DEF Pass
<1>3. CASE Answer
  BY <1>3 DEF Answer, records, NoFault, Shape, Whole
<1>4. CASE Die
  <2>1. UNCHANGED trail /\ \A t \in Thread : job'[t] = Free
    BY <1>4 DEF Die, records
  <2>2. hurt' = hurt \cup ({job[t].inv : t \in Thread} \ {None})
    BY <1>4 DEF Die, Hurt
  <2>3. ASSUME NEW i \in Whole'  PROVE Rest(trail'[i])
    <3>1. i \in Whole /\ i # None
      BY <2>2, Bounds DEF Whole, Invocation, None
    <3>2. \A t \in Thread : job[t].inv # i
      BY <2>2, <2>3, <3>1 DEF Whole
    <3> QED BY <2>1, <3>1, <3>2 DEF Shape
  <2>4. \A t \in Thread : ~Writes(job'[t])
    BY <2>1, FieldsOfFree DEF Writes
  <2> QED BY <2>3, <2>4 DEF Shape
<1>5. CASE UNCHANGED vars
  BY <1>5 DEF vars, Shape, Whole
<1> QED BY <1>1, <1>2, <1>3, <1>4, <1>5 DEF Next

LEMMA ShapeInit == Init => Shape
<1> SUFFICES ASSUME Init PROVE Shape
  OBVIOUS
<1>1. \A t \in Thread : ~Writes(job[t])
  BY FieldsOfFree DEF Init, Writes
<1>2. \A i \in Invocation : trail[i] = <<>>
  BY DEF Init
<1>3. Rest(<<>>)
  <2>1. Layout(<<>>, 0, 0, 0, "stopped")
    BY LayoutEmpty
  <2> QED BY <2>1, Inside, RestIs
<1> QED BY <1>1, <1>2, <1>3 DEF Shape, Whole

\* What is laid out this way, the auditor accepts.
LEMMA RestPasses ==
  ASSUME NEW tr, IsSeq(tr), Rest(tr)
  PROVE  PassesA31(tr, FALSE) /\ (~IsOpen(tr) => PassesA31(tr, TRUE))
<1>1. PICK k \in Nat, e \in 0..1, m \in 0..2, r \in StopReason :
        Layout(tr, k, e, m, r) /\ (m = 0 => e = 0 /\ k # 1) /\ (m = 1 => e = 0)
  BY DEF Rest
<1>2. /\ At(tr, "started") = IF k >= 1 THEN {1} ELSE {}
      /\ At(tr, "completed") = IF e = 1 THEN {k + 1} ELSE {}
      /\ At(tr, "settled") = IF m >= 1 THEN {k + e + 1} ELSE {}
      /\ At(tr, "message") = IF m = 2 THEN {k + e + 2} ELSE {}
      /\ \A n \in At(tr, "completed") \cup At(tr, "settled") \cup At(tr, "message") : tr[n].reason = r
  BY <1>1, LayoutRecords DEF IsSeq
<1>3. \A type \in {"started", "completed", "settled"} : Cardinality(At(tr, type)) <= 1
  BY <1>1, LayoutOnce DEF IsSeq
<1>4. ~IsOpen(tr) /\ At(tr, "settled") = {} => At(tr, "started") = {}
  <2>1. IsOpen(tr) <=> k >= 2 /\ m # 2
    BY <1>1, LayoutPark DEF IsSeq
  <2>2. At(tr, "settled") = {} => m = 0
    BY <1>2
  <2>3. At(tr, "settled") = {} /\ ~IsOpen(tr) => k = 0
    BY <1>1, <2>1, <2>2
  <2> QED BY <1>2, <2>3
<1>5. ExactlyOneSettlement(tr, FALSE) /\ (~IsOpen(tr) => ExactlyOneSettlement(tr, TRUE))
  <2>1. At(tr, "settled") = {} => At(tr, "completed") = {}
    BY <1>1, <1>2
  <2> QED BY <1>3, <1>4, <2>1 DEF ExactlyOneSettlement
<1>6. WritersAgree(tr)
  <2>1. ASSUME NEW s \in At(tr, "settled")
        PROVE  /\ tr[s].reason \notin {"stopped", "abnormal"} =>
                    At(tr, "started") # {} /\ At(tr, "completed") # {}
               /\ At(tr, "completed") # {} => At(tr, "started") # {}
               /\ At(tr, "started") # {} => First(At(tr, "started")) < s
               /\ At(tr, "started") # {} /\ At(tr, "completed") # {} =>
                    /\ First(At(tr, "started")) < First(At(tr, "completed"))
                    /\ First(At(tr, "completed")) < s
                    /\ tr[First(At(tr, "completed"))].reason = tr[s].reason
    <3>1. m >= 1 /\ s = k + e + 1 /\ tr[s].reason = r
      BY <1>2
    <3>2. e = 1 => k >= 1
      BY <1>1 DEF Layout
    <3>3. e = 0 => r \in {"stopped", "abnormal"}
      BY <1>1, <3>1 DEF Layout
    <3>4. k >= 1 => At(tr, "started") = {1} /\ First(At(tr, "started")) = 1
      BY <1>2, LastFirst
    <3>5. e = 1 => /\ At(tr, "completed") = {k + 1} /\ First(At(tr, "completed")) = k + 1
                   /\ tr[k + 1].reason = r
      BY <1>2, LastFirst
    <3>6. (k < 1 => At(tr, "started") = {}) /\ (e = 0 => At(tr, "completed") = {})
      BY <1>2
    <3> QED BY <3>1, <3>2, <3>3, <3>4, <3>5, <3>6
  <2> QED BY <2>1 DEF WritersAgree
<1>7. ParentActedOnCanonical(tr)
  <2>1. ASSUME NEW n \in At(tr, "message")
        PROVE  LET candidates == {s \in At(tr, "settled") : s < n} IN
               candidates # {} /\ tr[Last(candidates)].reason = tr[n].reason
    <3>1. m = 2 /\ n = k + e + 2 /\ tr[n].reason = r
      BY <1>2
    <3>2. At(tr, "settled") = {k + e + 1} /\ tr[k + e + 1].reason = r
      BY <1>2, <3>1
    <3>3. {s \in At(tr, "settled") : s < n} = {k + e + 1}
      BY <3>1, <3>2
    <3>4. Last({k + e + 1}) = k + e + 1
      BY LastFirst
    <3> QED BY <3>1, <3>2, <3>3, <3>4
  <2> QED BY <2>1 DEF ParentActedOnCanonical
<1> QED BY <1>5, <1>6, <1>7 DEF PassesA31

LEMMA ShapeSettlesOnce == ASSUME Base, Shape PROVE SettledOnce
<1>1. ASSUME NEW i \in Whole, NEW type \in {"completed", "settled", "message"}  PROVE AtMostOne(i, type)
  <2>1. IsSeq(trail[i])
    BY DEF Base, Whole
  <2>2. \E k \in Nat, e \in 0..1, m \in 0..2, r \in StopReason : Layout(trail[i], k, e, m, r)
    <3>1. CASE \A t \in Thread : Writes(job[t]) => job[t].inv # i
      BY <3>1 DEF Shape, Rest
    <3>2. CASE \E t \in Thread : Writes(job[t]) /\ job[t].inv = i
      BY <3>2 DEF Shape, Phase
    <3> QED BY <3>1, <3>2
  <2> QED BY <2>1, <2>2, LayoutOnce DEF AtMostOne, IsSeq
<1> QED BY <1>1 DEF SettledOnce

LEMMA ShapeIsAccepted == ASSUME Base, Alone, Shape PROVE AuditAccepts
<1>1. ASSUME NEW t \in Thread, Is(t, "check"), NEW i \in Whole  PROVE PassesA31(trail[i], FALSE)
  <2>1. Works(job[t]) /\ ~Writes(job[t])
    BY <1>1 DEF Is, Works, Writes
  <2> QED BY <2>1, OthersRest, RestPasses DEF Base, Whole
<1>2. ASSUME life = "ended", Idle, NEW i \in Whole  PROVE PassesA31(trail[i], TRUE)
  <2>1. Rest(trail[i])
    BY <1>2 DEF Shape, Idle, Is, Writes
  <2>2. ~IsOpen(trail[i])
    BY <1>2 DEF Alone, Open, Whole
  <2> QED BY <2>1, <2>2, RestPasses DEF Base, Whole
<1> QED BY <1>1, <1>2 DEF AuditAccepts

----------------------------------------------------------------------------
(* How the trails grow. *)

LEMMA AtAppend ==
  ASSUME NEW tr, IsSeq(tr), NEW rec, NEW type
  PROVE  At(Append(tr, rec), type) = At(tr, type) \cup (IF rec.type = type THEN {Len(tr) + 1} ELSE {})
<1> DEFINE a == Append(tr, rec)
<1>1. /\ Len(tr) \in Nat /\ DOMAIN tr = 1..Len(tr) /\ DOMAIN a = 1..(Len(tr) + 1)
      /\ a[Len(tr) + 1] = rec /\ \A n \in 1..Len(tr) : a[n] = tr[n]
  BY SeqFacts
<1> HIDE DEF a
<1>2. \A n : n \in At(a, type) <=> n \in At(tr, type) \/ (rec.type = type /\ n = Len(tr) + 1)
  BY <1>1 DEF At
<1>3. At(a, type) = At(tr, type) \cup (IF rec.type = type THEN {Len(tr) + 1} ELSE {})
  BY <1>2
<1> QED BY <1>3 DEF a

\* Every trail stays or grows by one record; only Park's is a park.
Grows(i) == trail'[i] = trail[i] \/ \E rec : trail'[i] = Append(trail[i], rec)

GrowsPlain(i) ==
    trail'[i] = trail[i] \/ \E rec : rec.type # "parked" /\ trail'[i] = Append(trail[i], rec)

LEMMA WriteGrows ==
  ASSUME Base, NEW t, NEW i \in Invocation, NEW rec, NEW next, NEW caught, Write(t, i, rec, next, caught)
  PROVE  /\ trail'[i] = trail[i] \/ trail'[i] = Append(trail[i], rec)
         /\ \A k \in Invocation : k # i => trail'[k] = trail[k]
         /\ hurt \subseteq hurt'
  BY WriteGoes DEF Good, Bad, Appended, NoFault

LEMMA RecordTypes ==
  /\ Started.type = "started"
  /\ \A d : Parked(d).type = "parked" /\ Parked(d).review = d
  /\ \A r : Completed(r).type = "completed" /\ Settled(r).type = "settled" /\ Message(r).type = "message"
  BY DEF Started, Parked, Completed, Settled, Message

LEMMA GrowsByWrite ==
  ASSUME Base, NEW t, NEW i \in Invocation, NEW rec, NEW next, NEW caught, Write(t, i, rec, next, caught)
  PROVE  /\ \A k \in Invocation : Grows(k)
         /\ rec.type # "parked" => \A k \in Invocation : GrowsPlain(k)
         /\ hurt \subseteq hurt'
<1>1. /\ trail'[i] = trail[i] \/ trail'[i] = Append(trail[i], rec)
      /\ \A k \in Invocation : k # i => trail'[k] = trail[k]
      /\ hurt \subseteq hurt'
  BY WriteGrows
<1>2. Grows(i) /\ (rec.type # "parked" => GrowsPlain(i))
  BY <1>1 DEF Grows, GrowsPlain
<1>3. \A k \in Invocation : k # i => Grows(k) /\ GrowsPlain(k)
  BY <1>1 DEF Grows, GrowsPlain
<1> QED BY <1>1, <1>2, <1>3

LEMMA WriterInside ==
  ASSUME Base, NEW t \in Thread, Writes(job[t]) PROVE job[t].inv \in Invocation
  BY Handles DEF Base, Sound

\* Every step of a thread but Park.
StepsBut(t) ==
    \/ Skip(t) \/ Unresolved(t) \/ Delegate(t) \/ Carry(t) \/ PlanDone(t) \/ Complete(t) \/ StepRaises(t)
    \/ Defer(t) \/ CloseRaised(t) \/ Close(t) \/ Settle(t) \/ Tell(t) \/ Look(t) \/ Check(t) \/ End(t)
    \/ ParkRun(t) \/ SaveCheckpoint(t) \/ StartRun(t) \/ ResumeRun(t) \/ CancelRun(t)

LEMMA PlainGrows ==
  ASSUME Base, NEW u \in Thread, StepsBut(u)
  PROVE  /\ \A k \in Invocation : GrowsPlain(k) /\ Grows(k)
         /\ hurt \subseteq hurt'
<1>1. trail' = trail => \A k \in Invocation : Grows(k) /\ GrowsPlain(k)
  BY DEF Grows, GrowsPlain
<1>2. ASSUME NEW t \in Thread, Skip(t) \/ Delegate(t)
      PROVE  /\ \A k \in Invocation : GrowsPlain(k) /\ Grows(k)
             /\ hurt \subseteq hurt'
  <2>1. \E p : Mint(p)
    BY <1>2 DEF Skip, Delegate
  <2>2. New \in Invocation
    BY <2>1, FreshHandle
  <2>3. \E rec, next, caught : Write(t, New, rec, next, caught) /\ rec.type # "parked"
    BY <1>2, RecordTypes DEF Skip, Delegate
  <2> QED BY <2>2, <2>3, GrowsByWrite
<1>3. ASSUME NEW t \in Thread, Complete(t) \/ Close(t) \/ Settle(t) \/ Tell(t)
      PROVE  /\ \A k \in Invocation : GrowsPlain(k) /\ Grows(k)
             /\ hurt \subseteq hurt'
  <2>1. job[t].inv \in Invocation
    BY <1>3, WriterInside DEF Complete, Close, Settle, Tell, Is, Writes
  <2>2. \E rec, next, caught : Write(t, job[t].inv, rec, next, caught) /\ rec.type # "parked"
    BY <1>3, RecordTypes DEF Complete, Close, Settle, Tell
  <2> QED BY <2>1, <2>2, GrowsByWrite
<1>4. ASSUME NEW t \in Thread, CloseRaised(t)
      PROVE  /\ \A k \in Invocation : GrowsPlain(k) /\ Grows(k)
             /\ hurt \subseteq hurt'
  <2>1. job[t].inv \in Invocation
    BY <1>4, WriterInside DEF CloseRaised, Is, Writes
  <2>2. \/ \E rec, next, caught : Write(t, job[t].inv, rec, next, caught) /\ rec.type # "parked"
        \/ UNCHANGED <<trail, hurt>>
    BY <1>4, RecordTypes DEF CloseRaised, NoFault
  <2> QED BY <1>1, <2>1, <2>2, GrowsByWrite
<1>6. ASSUME NEW t \in Thread, \/ Unresolved(t) \/ Carry(t) \/ PlanDone(t) \/ StepRaises(t) \/ Defer(t)
                               \/ Look(t) \/ Check(t) \/ End(t) \/ ParkRun(t) \/ SaveCheckpoint(t)
                               \/ StartRun(t) \/ ResumeRun(t) \/ CancelRun(t)
      PROVE  UNCHANGED <<trail, hurt>>
  BY <1>6 DEF Unresolved, Carry, PlanDone, StepRaises, Defer, Look, Check, End, ParkRun, SaveCheckpoint,
              StartRun, ResumeRun, CancelRun, records, NoFault
<1> QED BY <1>1, <1>2, <1>3, <1>4, <1>6 DEF StepsBut

LEMMA ParkGrows ==
  ASSUME Base, NEW t \in Thread, Park(t)
  PROVE  (\A k \in Invocation : Grows(k)) /\ hurt \subseteq hurt'
<1>1. job[t].inv \in Invocation
  BY WriterInside DEF Park, Is, Writes
<1>2. \E rec, next, caught : Write(t, job[t].inv, rec, next, caught)
  BY DEF Park
<1> QED BY <1>1, <1>2, GrowsByWrite

LEMMA GrownTrail ==
  ASSUME Base, NEW i \in Invocation, Grows(i)
  PROVE  /\ IsSeq(trail'[i])
         /\ \A type : At(trail[i], type) \subseteq At(trail'[i], type)
         /\ GrowsPlain(i) => At(trail'[i], "parked") = At(trail[i], "parked")
<1>1. IsSeq(trail[i])
  BY DEF Base
<1>2. CASE trail'[i] = trail[i]
  BY <1>1, <1>2
<1>3. ASSUME NEW rec, trail'[i] = Append(trail[i], rec)
      PROVE  /\ IsSeq(trail'[i])
             /\ \A type : At(trail[i], type) \subseteq At(trail'[i], type)
             /\ rec.type # "parked" => At(trail'[i], "parked") = At(trail[i], "parked")
  <2>1. \A type : At(trail'[i], type) = At(trail[i], type) \cup (IF rec.type = type THEN {Len(trail[i]) + 1} ELSE {})
    BY <1>1, <1>3, AtAppend
  <2>2. IsSeq(trail'[i])
    BY <1>1, <1>3, SeqFacts
  <2>3. \A type : At(trail[i], type) \subseteq At(trail'[i], type)
    BY <2>1
  <2>4. rec.type # "parked" => At(trail'[i], "parked") = At(trail[i], "parked")
    BY <2>1
  <2> QED BY <2>2, <2>3, <2>4
<1>4. GrowsPlain(i) => At(trail'[i], "parked") = At(trail[i], "parked")
  BY <1>3 DEF GrowsPlain
<1> QED BY <1>2, <1>3, <1>4 DEF Grows

LEMMA WaitsShrinks ==
  ASSUME Base, hurt \subseteq hurt', \A i \in Invocation : GrowsPlain(i)
  PROVE  Waits' \subseteq Waits
<1>1. ASSUME NEW i \in Waits'  PROVE i \in Waits
  <2>1. i \in Whole /\ i \in Invocation
    BY <1>1 DEF Waits, Whole
  <2>2. Grows(i)
    BY <2>1 DEF Grows, GrowsPlain
  <2>3. /\ At(trail'[i], "parked") = At(trail[i], "parked")
        /\ At(trail[i], "message") \subseteq At(trail'[i], "message")
    BY <2>1, <2>2, GrownTrail
  <2>4. At(trail'[i], "parked") # {} /\ At(trail'[i], "message") = {}
    BY <1>1 DEF Waits, HasParked
  <2>5. At(trail[i], "parked") # {} /\ At(trail[i], "message") = {}
    BY <2>3, <2>4
  <2> QED BY <2>1, <2>5 DEF Waits, HasParked
<1> QED BY <1>1

LEMMA ParkAdds ==
  ASSUME Base, NEW t \in Thread, Park(t)
  PROVE  Waits' \subseteq Waits \cup {job[t].inv}
<1> DEFINE i == job[t].inv
<1>1. i \in Invocation /\ \E next, caught : Write(t, i, Parked(job[t].review), next, caught)
  BY WriterInside DEF Park, Is, Writes
<1>2. hurt \subseteq hurt' /\ \A k \in Invocation : k # i => trail'[k] = trail[k]
  BY <1>1, WriteGrows
<1> QED BY <1>1, <1>2 DEF Waits, Whole

----------------------------------------------------------------------------
(* How the job of a thread changes, step by step. *)

\* How a thread's job changes: it leaves the plan, it goes on with the same work elsewhere,
\* or it takes up or ends a task.
Leaves(x) == /\ ~Writes(x)
             /\ x.role \notin {"step", "helper", "drop"} \/ x.at \in {"idle", "check", "move"}

Keeps(x, j, at) == /\ x.at = at /\ x.inv = j.inv /\ x.role = j.role /\ x.done = j.done /\ x.pend = j.pend

Returns(x, j) == x.at = "task" /\ x.role = "step" /\ x.done = j.done /\ x.pend = None

Takes(x, j, at, role, i) == /\ x.at = at /\ x.role = role /\ x.inv = i /\ x.done = j.done

Concludes(x, j, at, o) == /\ x.at = at /\ x.role = "step" /\ x.pend = None /\ x.done = Append(j.done, o)

Became(i, status) == [inv |-> i, status |-> status]

Others(t) == \A u \in Thread : u # t => job'[u] = job[u]

LEMMA OutOfPlan ==
  /\ Leaves(Free) /\ Leaves(Failing) /\ Leaves(Ending) /\ \A t : Leaves(Raised(t))
<1>1. Leaves(Free) /\ Leaves(Failing) /\ Leaves(Ending)
  BY FieldsOfFree, FieldsOfFailing, FieldsOfEnding DEF Leaves, Writes
<1> QED BY <1>1 DEF Raised

LEMMA KeepsGo ==
  ASSUME NEW j, DOMAIN j = Fields, NEW at PROVE Keeps([j EXCEPT !.at = at], j, at)
  BY DEF Fields, Keeps

LEMMA JobOf == ASSUME Base, NEW t \in Thread
  PROVE DOMAIN job = Thread /\ DOMAIN job[t] = Fields /\ IsSeq(job[t].done) /\ Sound(job[t], DOMAIN minted)
  BY DEF Base, Sound

LEMMA SkipGoes ==
  ASSUME Base, NEW t \in Thread, Skip(t)
  PROVE  /\ job[t].at = "task" /\ Mint(Task(t)) /\ Others(t) /\ ckpt' = ckpt
         /\ Leaves(job'[t]) \/ Concludes(job'[t], job[t], "task", Became(New, "skipped"))
<1>1. /\ Write(t, New, Settled("stopped"), Recorded(job[t], New, "skipped"), Raised(t))
      /\ job[t].at = "task" /\ Mint(Task(t)) /\ job[t].role = "step"
  BY JobOf DEF Skip, AtTask, Is, Sound
<1>2. Adds(Recorded(job[t], New, "skipped"), job[t], New, "skipped")
  BY FieldsOfRecorded, JobOf
<1>3. Concludes(Recorded(job[t], New, "skipped"), job[t], "task", Became(New, "skipped"))
  BY <1>1, <1>2 DEF Adds, Concludes, Became
<1>4. (job'[t] = Recorded(job[t], New, "skipped") \/ job'[t] = Raised(t)) /\ Others(t) /\ ckpt' = ckpt
  BY <1>1, WriteEnds DEF Others
<1> QED BY <1>1, <1>3, <1>4, OutOfPlan

LEMMA UnresolvedGoes ==
  ASSUME Base, NEW t \in Thread, Unresolved(t)
  PROVE  /\ job[t].at = "task" /\ Mint(Task(t)) /\ Others(t) /\ ckpt' = ckpt
         /\ Takes(job'[t], job[t], "settle", "step", New) /\ job[t].pend = None
<1> DEFINE j == [job[t] EXCEPT !.at = "settle", !.inv = New, !.reason = "abnormal"]
<1>1. /\ Do(t, j) /\ Mint(Task(t)) /\ ckpt' = ckpt /\ job[t].at = "task" /\ job[t].role = "step"
      /\ job[t].pend = None
  BY JobOf DEF Unresolved, AtTask, Is, Sound, run
<1>2. Takes(j, job[t], "settle", "step", New)
  BY <1>1, JobOf DEF Fields, Takes
<1> HIDE DEF j
<1>3. job'[t] = j /\ Others(t)
  BY <1>1, DoSets, JobOf DEF Others
<1> QED BY <1>1, <1>2, <1>3

LEMMA DelegateGoes ==
  ASSUME Base, NEW t \in Thread, Delegate(t)
  PROVE  /\ Others(t) /\ ckpt' = ckpt /\ job[t].pend = None
         /\ trail'[New] = <<>> \/ trail'[New] = Append(<<>>, Started)
         /\ \/ /\ job[t].at = "task" /\ Mint(Task(t))
               /\ Takes(job'[t], job[t], "run", "step", New) \/ Takes(job'[t], job[t], "raised", "step", New)
            \/ /\ job[t].at = "tune" /\ Mint(None)
               /\ Takes(job'[t], job[t], "run", "helper", New) \/ Takes(job'[t], job[t], "raised", "helper", New)
<1> DEFINE role == IF Is(t, "tune") THEN "helper" ELSE "step"
           j == [job[t] EXCEPT !.inv = New, !.resumed = FALSE, !.over = FALSE, !.role = role]
           next == [j EXCEPT !.at = "run"]
           caught == [j EXCEPT !.at = "raised"]
<1>1. /\ \/ job[t].at = "task" /\ job[t].pend = None /\ Mint(Task(t))
         \/ job[t].at = "tune" /\ Mint(None)
      /\ Write(t, New, Started, next, caught)
  BY DEF Delegate, AtTask, Is
<1>2. Takes(j, job[t], job[t].at, role, New) /\ DOMAIN j = Fields
  BY JobOf DEF Fields, Takes
<1> HIDE DEF j
<1>3. Takes(next, job[t], "run", role, New) /\ Takes(caught, job[t], "raised", role, New)
  BY <1>2 DEF Fields, Takes
<1> HIDE DEF next, caught
<1>4. (job'[t] = next \/ job'[t] = caught) /\ Others(t) /\ ckpt' = ckpt
  BY <1>1, WriteEnds DEF Others
<1>5. job[t].pend = None
  BY <1>1, JobOf DEF Sound
<1>6. trail'[New] = <<>> \/ trail'[New] = Append(<<>>, Started)
  <2>1. \E p : Mint(p)
    BY <1>1
  <2> QED BY <1>1, <2>1, FreshHandle, WriteGrows
<1> QED BY <1>1, <1>3, <1>4, <1>5, <1>6 DEF Is

LEMMA CarryGoes ==
  ASSUME Base, NEW t \in Thread, Carry(t)
  PROVE  /\ UNCHANGED <<trail, minted, ckpt, hurt>> /\ Others(t)
         /\ job[t].at = "task" /\ job[t].pend \in DOMAIN minted /\ job[t].pend # None
         /\ \/ Leaves(job'[t])
            \/ /\ Readiness(job[t].pend) = "ready"
               /\ \/ Takes(job'[t], job[t], "run", "step", job[t].pend)
                  \/ Takes(job'[t], job[t], "look", "drop", job'[t].inv) /\ job'[t].pend = job[t].pend
            \/ Readiness(job[t].pend) = "waiting" /\ ParksOn(job'[t], job[t], job[t].pend)
<1> DEFINE i == job[t].pend
           again == [job[t] EXCEPT !.at = "run", !.inv = i, !.resumed = TRUE, !.over = FALSE]
           giveup == [job[t] EXCEPT !.at = "look", !.role = "giveup"]
           drop == [job[t] EXCEPT !.at = "look", !.role = "drop"]
<1>1. /\ UNCHANGED <<trail, minted, ckpt, hurt>> /\ job[t].at = "task" /\ i # None /\ job[t].role = "step"
      /\ \/ Readiness(i) = "ready" /\ Do(t, again)
         \/ Readiness(i) = "waiting" /\ Do(t, Waiting(job[t], i))
         \/ Do(t, giveup)
         \/ Readiness(i) = "ready" /\ Do(t, drop)
  BY JobOf DEF Carry, AtTask, Is, Sound, records, run, Waiting, NoFault
<1>2. i \in DOMAIN minted
  BY <1>1, JobOf DEF Sound
<1>3. Takes(again, job[t], "run", "step", i) /\ Leaves(giveup) /\ Takes(drop, job[t], "look", "drop", drop.inv)
      /\ drop.pend = i
  BY <1>1, JobOf DEF Fields, Takes, Leaves, Writes
<1>4. ParksOn(Waiting(job[t], i), job[t], i)
  BY JobOf, FieldsOfWaiting
<1> HIDE DEF again, giveup, drop
<1>5. \A j : Do(t, j) => job'[t] = j /\ Others(t)
  BY DoSets, JobOf DEF Others
<1> QED BY <1>1, <1>2, <1>3, <1>4, <1>5

\* The steps that go on with the same work, or leave it.
LEMMA KeepGoes ==
  ASSUME Base, NEW t \in Thread,
         Complete(t) \/ StepRaises(t) \/ Defer(t) \/ CloseRaised(t) \/ Close(t) \/ Settle(t)
  PROVE  /\ UNCHANGED <<minted, ckpt>> /\ Others(t) /\ Writes(job[t])
         /\ \/ Leaves(job'[t])
            \/ \E at \in {"settle", "raised"} : Keeps(job'[t], job[t], at)
            \/ Defer(t) /\ Keeps(job'[t], job[t], "park")
            \/ /\ Settle(t) /\ Keeps(job'[t], job[t], "tell")
               /\ trail'[job[t].inv] = Append(trail[job[t].inv], Settled(job[t].reason))
<1>1. CASE Complete(t)
  <2>1. PICK r : Write(t, job[t].inv, Completed(r), [job[t] EXCEPT !.at = "settle", !.reason = r],
                       [job[t] EXCEPT !.at = "raised"])
    BY <1>1 DEF Complete
  <2> DEFINE next == [job[t] EXCEPT !.at = "settle", !.reason = r]
             caught == [job[t] EXCEPT !.at = "raised"]
  <2>2. Keeps(next, job[t], "settle") /\ Keeps(caught, job[t], "raised")
    BY JobOf DEF Fields, Keeps
  <2>3. Write(t, job[t].inv, Completed(r), next, caught)
    BY <2>1
  <2> HIDE DEF next, caught
  <2>4. (job'[t] = next \/ job'[t] = caught) /\ Others(t) /\ ckpt' = ckpt
    BY <2>3, WriteEnds DEF Others
  <2> QED BY <1>1, <2>2, <2>4 DEF Complete, Is, Writes
<1>2. CASE StepRaises(t)
  <2>1. PICK over : Do(t, [job[t] EXCEPT !.at = "raised", !.over = over])
    BY <1>2 DEF StepRaises
  <2>2. Keeps([job[t] EXCEPT !.at = "raised", !.over = over], job[t], "raised")
    BY JobOf DEF Fields, Keeps
  <2> QED BY <1>2, <2>1, <2>2, DoSets, JobOf DEF StepRaises, Is, Writes, Others, records, run
<1>3. CASE Defer(t)
  <2> DEFINE j == [job[t] EXCEPT !.at = "park", !.review = asked + 1]
  <2>1. Do(t, j)
    BY <1>3 DEF Defer
  <2>2. Keeps(j, job[t], "park")
    BY JobOf DEF Fields, Keeps
  <2> HIDE DEF j
  <2> QED BY <1>3, <2>1, <2>2, DoSets, JobOf DEF Defer, Is, Writes, Others
<1>4. CASE CloseRaised(t)
  <2> DEFINE next == [job[t] EXCEPT !.at = "settle", !.reason = "abnormal"]
  <2>1. /\ Write(t, job[t].inv, Completed("abnormal"), next, Raised(t)) \/ (Do(t, next) /\ ckpt' = ckpt)
        /\ UNCHANGED minted /\ Writes(job[t])
    BY <1>4 DEF CloseRaised, Is, Writes, run
  <2>2. Keeps(next, job[t], "settle")
    BY JobOf DEF Fields, Keeps
  <2> HIDE DEF next
  <2>3. (job'[t] = next \/ job'[t] = Raised(t)) /\ Others(t) /\ ckpt' = ckpt
    BY <2>1, WriteEnds, DoSets, JobOf DEF Others
  <2> QED BY <2>1, <2>2, <2>3, OutOfPlan
<1>5. CASE Close(t)
  <2> DEFINE next == [job[t] EXCEPT !.at = "settle"]
  <2>1. Write(t, job[t].inv, Completed(job[t].reason), next, Raised(t)) /\ UNCHANGED minted /\ Writes(job[t])
    BY <1>5 DEF Close, Is, Writes
  <2>2. Keeps(next, job[t], "settle")
    BY JobOf, KeepsGo
  <2> HIDE DEF next
  <2>3. (job'[t] = next \/ job'[t] = Raised(t)) /\ Others(t) /\ ckpt' = ckpt
    BY <2>1, WriteEnds DEF Others
  <2> QED BY <2>1, <2>2, <2>3, OutOfPlan
<1>6. CASE Settle(t)
  <2> DEFINE next == [job[t] EXCEPT !.at = "tell"]
             i == job[t].inv
             rec == Settled(job[t].reason)
  <2>1. Write(t, i, rec, next, Raised(t)) /\ UNCHANGED minted /\ Writes(job[t])
    BY <1>6 DEF Settle, Is, Writes
  <2>2. Keeps(next, job[t], "tell")
    BY JobOf, KeepsGo
  <2>3. i \in Invocation
    BY <2>1, WriterInside
  <2> HIDE DEF next, rec
  <2>4. (job'[t] = next \/ job'[t] = Raised(t)) /\ Others(t) /\ ckpt' = ckpt
    BY <2>1, WriteEnds DEF Others
  <2>5. Good(t, i, rec, next) \/ Bad(t, i, rec, Raised(t))
    BY <2>1, <2>3, WriteGoes
  <2>6. (trail'[i] = Append(trail[i], rec) /\ job'[t] = next) \/ job'[t] = Raised(t)
    BY <2>5, DoSets, JobOf DEF Good, Bad, Appended
  <2> QED BY <1>6, <2>1, <2>2, <2>4, <2>6, OutOfPlan DEF rec
<1> QED BY <1>1, <1>2, <1>3, <1>4, <1>5, <1>6

LEMMA ParkGoes ==
  ASSUME Base, NEW t \in Thread, Park(t)
  PROVE  /\ UNCHANGED <<minted, ckpt>> /\ Others(t) /\ job[t].at = "park" /\ Writes(job[t])
         /\ job[t].role \in {"step", "helper"}
         /\ \/ Keeps(job'[t], job[t], "raised") /\ job[t].inv \in hurt'
            \/ /\ job[t].role = "helper" /\ At(trail'[job[t].inv], "parked") # {}
               /\ Returns(job'[t], job[t])
            \/ job[t].role = "step" /\ ParksOn(job'[t], job[t], job[t].inv)
<1> DEFINE j == job[t]
           i == j.inv
           helped == [j EXCEPT !.at = "task", !.role = "step", !.inv = None]
           next == IF j.role = "helper" THEN helped ELSE Waiting(j, i)
           caught == [j EXCEPT !.at = "raised"]
           rec == Parked(j.review)
<1>1. Write(t, i, rec, next, caught) /\ j.at = "park" /\ Writes(j) /\ UNCHANGED minted
  BY DEF Park, Is, Waiting, Writes
<1>2. Keeps(caught, j, "raised") /\ (j.pend = None => Returns(helped, j))
  BY JobOf DEF Fields, Keeps, Returns
<1>3. ParksOn(Waiting(j, i), j, i)
  BY JobOf, FieldsOfWaiting
<1>4. j.role \in {"step", "helper"} /\ (j.role = "helper" => j.pend = None)
  BY <1>1, JobOf DEF Sound
<1>5. i \in Invocation
  BY <1>1, WriterInside
<1>6. \/ j.role = "helper" /\ next = helped
      \/ j.role = "step" /\ next = Waiting(j, i)
  BY <1>4
<1> HIDE DEF next, caught, helped
<1>7. (job'[t] = next \/ job'[t] = caught) /\ Others(t) /\ ckpt' = ckpt
  BY <1>1, WriteEnds DEF Others
<1>8. Good(t, i, rec, next) \/ Bad(t, i, rec, caught)
  BY <1>1, <1>5, WriteGoes
<1>9. \/ trail'[i] = Append(trail[i], rec) /\ job'[t] = next
      \/ job'[t] = caught /\ i \in hurt'
  BY <1>8, DoSets, JobOf DEF Good, Bad, Appended
<1>10. trail'[i] = Append(trail[i], rec) => At(trail'[i], "parked") # {}
  <2>1. trail'[i] = Append(trail[i], rec) => Len(trail[i]) + 1 \in At(trail'[i], "parked")
    BY <1>5, AtAppend, RecordTypes DEF Base
  <2> QED BY <2>1
<1> QED BY <1>1, <1>2, <1>3, <1>4, <1>6, <1>7, <1>9, <1>10

LEMMA TellGoes ==
  ASSUME Base, NEW t \in Thread, Tell(t)
  PROVE  /\ UNCHANGED <<minted, ckpt>> /\ Others(t) /\ job[t].at = "tell" /\ Writes(job[t])
         /\ \/ Leaves(job'[t])
            \/ /\ At(trail'[job[t].inv], "message") # {}
               /\ \/ /\ job[t].role = "step" /\ job'[t].at \in {"task", "tune"}
                     /\ Concludes(job'[t], job[t], job'[t].at, Became(job[t].inv, TaskStatus(job[t].reason)))
                  \/ job[t].role = "helper" /\ Returns(job'[t], job[t])
                  \/ job[t].role = "drop" /\ Concludes(job'[t], job[t], "task", Became(job[t].pend, "failed"))
<1> DEFINE j == job[t]
           i == j.inv
           rec == Message(j.reason)
           next == Told(j)
<1>1. Write(t, i, rec, next, Raised(t)) /\ UNCHANGED minted /\ Writes(j) /\ j.at = "tell"
  BY DEF Tell, Is, Writes
<1>2. i \in Invocation /\ Sound(j, DOMAIN minted)
  BY <1>1, WriterInside, JobOf
<1>3. \/ Leaves(next)
      \/ /\ j.role = "step" /\ next.at \in {"task", "tune"}
         /\ Concludes(next, j, next.at, Became(i, TaskStatus(j.reason)))
      \/ j.role = "helper" /\ Returns(next, j)
      \/ j.role = "drop" /\ Concludes(next, j, "task", Became(j.pend, "failed"))
  <2>0. DOMAIN j = Fields /\ (j.role = "helper" => j.pend = None)
    BY <1>2 DEF Sound
  <2>1. CASE j.role \in {"cancel", "fail"}
    BY <2>0, <2>1, FieldsOfTold DEF Leaves, Writes
  <2>2. CASE j.role = "giveup"
    BY <2>0, <2>2, OutOfPlan DEF Told, GivenUp
  <2>3. CASE j.role = "drop"
    BY <2>0, <2>3, FieldsOfTold DEF Concludes, Became
  <2>4. CASE j.role = "helper" /\ ~j.over
    BY <2>0, <2>4, FieldsOfTold DEF Returns
  <2>5. CASE j.role = "step" /\ ~j.over
    BY <2>0, <2>5, FieldsOfTold DEF Concludes, Became
  <2>6. CASE j.role \notin {"cancel", "fail", "giveup", "drop"} /\ ~(j.role \in {"helper", "step"} /\ ~j.over)
    BY <2>0, <2>6, OutOfPlan DEF Told
  <2> QED BY <2>1, <2>2, <2>3, <2>4, <2>5, <2>6
<1> HIDE DEF next
<1>4. Others(t) /\ ckpt' = ckpt
  BY <1>1, WriteEnds DEF Others
<1>5. Good(t, i, rec, next) \/ Bad(t, i, rec, Raised(t))
  BY <1>1, <1>2, WriteGoes
<1>6. (trail'[i] = Append(trail[i], rec) /\ job'[t] = next) \/ job'[t] = Raised(t)
  BY <1>5, DoSets, JobOf DEF Good, Bad, Appended
<1>7. trail'[i] = Append(trail[i], rec) => At(trail'[i], "message") # {}
  <2>1. trail'[i] = Append(trail[i], rec) => Len(trail[i]) + 1 \in At(trail'[i], "message")
    BY <1>2, AtAppend, RecordTypes DEF Base
  <2> QED BY <2>1
<1> QED BY <1>1, <1>3, <1>4, <1>6, <1>7, OutOfPlan

LEMMA DropConcludes ==
  ASSUME NEW j, DOMAIN j = Fields, j.role # "giveup"
  PROVE  Concludes(GivenUp(j), j, "task", Became(j.pend, "failed"))
<1> DEFINE r == Recorded(j, j.pend, "failed")
<1>1. Adds(r, j, j.pend, "failed")
  BY FieldsOfRecorded
<1>2. GivenUp(j) = [r EXCEPT !.role = "step"]
  BY DEF GivenUp
<1> HIDE DEF r
<1> QED BY <1>1, <1>2 DEF Adds, Fields, Concludes, Became

LEMMA LookTurns ==
  ASSUME Base, NEW t \in Thread, Look(t)
  PROVE  /\ UNCHANGED <<trail, minted, ckpt, hurt>> /\ Others(t) /\ job[t].at = "look"
         /\ \/ Leaves(job'[t])
            \/ /\ job[t].role = "drop" /\ Open = {}
               /\ Concludes(job'[t], job[t], "task", Became(job[t].pend, "failed"))
            \/ One(Open) /\ Keeps(job'[t], [job[t] EXCEPT !.inv = The(Open)], Missing(trail[The(Open)]))
<1> DEFINE j == job[t]
<1>1. /\ UNCHANGED <<trail, minted, ckpt, hurt>> /\ j.at = "look"
      /\ \/ /\ Open = {}
            /\ Do(t, IF j.role \in {"giveup", "drop"} THEN GivenUp(j) ELSE [j EXCEPT !.at = "check"])
         \/ One(Open) /\ Do(t, Closing(j, The(Open)))
         \/ Do(t, Raised(t))
  BY LookGoes DEF run, NoFault
<1>2. \A x : Do(t, x) => job'[t] = x /\ Others(t)
  BY DoSets, JobOf DEF Others
<1>3. Leaves([j EXCEPT !.at = "check"])
  BY JobOf DEF Fields, Leaves, Writes
<1>4. j.role = "giveup" => Leaves(GivenUp(j))
  BY OutOfPlan DEF GivenUp
<1>5. Concludes(GivenUp(j), j, "task", Became(j.pend, "failed")) \/ j.role = "giveup"
  BY DropConcludes, JobOf
<1>6. Keeps(Closing(j, The(Open)), [j EXCEPT !.inv = The(Open)], Missing(trail[The(Open)]))
  BY JobOf DEF Closing, Keeps, Fields
<1> QED BY <1>1, <1>2, <1>3, <1>4, <1>5, <1>6, OutOfPlan

LEMMA ParkRunGoes ==
  ASSUME Base, NEW t \in Thread, ParkRun(t)
  PROVE  /\ UNCHANGED <<trail, minted, ckpt, hurt>> /\ Others(t) /\ job[t].at = "parkrun"
         /\ Leaves(job'[t]) \/ (job'[t].at = "save" /\ job'[t].done = job[t].done)
<1> DEFINE save == [job[t] EXCEPT !.at = "save"]
<1>1. /\ UNCHANGED <<trail, minted, ckpt, hurt>> /\ job[t].at = "parkrun"
      /\ Do(t, save) \/ Do(t, Failing)
  BY DEF ParkRun, Is, Go, records, NoFault
<1>2. save.at = "save" /\ save.done = job[t].done
  BY JobOf DEF Fields
<1>3. \A x : Do(t, x) => job'[t] = x /\ Others(t)
  BY DoSets, JobOf DEF Others
<1> QED BY <1>1, <1>2, <1>3, OutOfPlan

LEMMA SaveGoes ==
  ASSUME Base, NEW t \in Thread, SaveCheckpoint(t)
  PROVE  /\ UNCHANGED <<trail, minted, hurt>> /\ Others(t) /\ job[t].at = "save"
         /\ Leaves(job'[t]) /\ job'[t] = Free /\ ckpt' = job[t].done
  BY DoSets, JobOf, OutOfPlan DEF SaveCheckpoint, Is, records, NoFault, Others

LEMMA BeginGoes ==
  ASSUME Base, NEW t \in Thread, StartRun(t) \/ ResumeRun(t)
  PROVE  /\ UNCHANGED <<trail, minted, ckpt, hurt>> /\ Others(t) /\ job[t].at = "idle"
         /\ \/ StartRun(t) /\ life = "new" /\ job'[t] = PassFrom(<<>>)
            \/ ResumeRun(t) /\ job'[t] = PassFrom(ckpt)
  BY DoSets, JobOf DEF StartRun, ResumeRun, Is, records, NoFault, Others

LEMMA QuietGoes ==
  ASSUME Base, NEW t \in Thread, PlanDone(t) \/ Check(t) \/ End(t) \/ CancelRun(t)
  PROVE  UNCHANGED <<trail, minted, ckpt, hurt>> /\ Others(t) /\ Leaves(job'[t])
<1> DEFINE move == [job[t] EXCEPT !.at = "move"]
           cancel(at) == [Free EXCEPT !.at = at, !.role = "cancel"]
<1>1. /\ UNCHANGED <<trail, minted, ckpt, hurt>>
      /\ \/ \E x \in {Ending, move, Raised(t), Free} : Do(t, x)
         \/ \E at \in {"look", "check"} : Do(t, cancel(at))
  BY DEF PlanDone, Check, End, CancelRun, Go, Is, records, run, NoFault
<1>2. Leaves(move) /\ \A at \in {"look", "check"} : Leaves(cancel(at))
  BY JobOf, FieldsOfFree DEF Fields, Leaves, Writes
<1> HIDE DEF move, cancel
<1>3. \A x : Do(t, x) => job'[t] = x /\ Others(t)
  BY DoSets, JobOf DEF Others
<1> QED BY <1>1, <1>2, <1>3, OutOfPlan

----------------------------------------------------------------------------
(* TrailOrder: nothing parks after its settlement. *)

\* A carried invocation that can go on or waits on is parked and not over.
LEMMA ReadyNotOver ==
  ASSUME Base, TrailOrder, NEW i \in Invocation, Readiness(i) \in {"ready", "waiting"}
  PROVE  ~Over(i) /\ IsOpen(trail[i])
<1> DEFINE tr == trail[i]
           parks == {n \in At(tr, "parked") : tr[n].review = bundle[i]}
           p == The(parks)
<1>1. One(parks) /\ After(tr, p, "completed") \cup After(tr, p, "settled") = {}
  BY DEF Readiness
<1>2. p \in At(tr, "parked")
  <2>1. \E n : n \in parks
    BY <1>1, NoneOf
  <2>2. p \in parks
    BY <2>1 DEF The
  <2> QED BY <2>2
<1>3. At(tr, "settled") = {}
  <2>1. ASSUME NEW n \in At(tr, "settled") PROVE FALSE
    <3>1. p < n
      BY <1>2, <2>1 DEF TrailOrder, InOrder
    <3>2. n \in After(tr, p, "settled")
      BY <3>1, <2>1 DEF After
    <3> QED BY <3>2, <1>1
  <2> QED BY <2>1
<1>4. ~PrefixClosed(tr)
  <2>1. \A n : After(tr, n, "settled") = {}
    BY <1>3 DEF After
  <2> QED BY <2>1, NoneOf DEF PrefixClosed
<1> QED BY <1>2, <1>3, <1>4 DEF Over, IsOpen, HasParked

LEMMA OrderGrows ==
  ASSUME Base, NEW i \in Invocation, InOrder(trail[i]), GrowsPlain(i)
  PROVE  InOrder(trail'[i])
<1>1. IsSeq(trail[i])
  BY DEF Base
<1>2. ASSUME NEW rec, rec.type # "parked", trail'[i] = Append(trail[i], rec)
      PROVE  InOrder(trail'[i])
  <2>1. /\ At(trail'[i], "parked") = At(trail[i], "parked")
        /\ At(trail'[i], "settled") \subseteq At(trail[i], "settled") \cup {Len(trail[i]) + 1}
    <3>1. \A type : At(trail'[i], type) = At(trail[i], type)
                        \cup (IF rec.type = type THEN {Len(trail[i]) + 1} ELSE {})
      BY <1>1, <1>2, AtAppend
    <3> QED BY <1>2, <3>1
  <2>2. Len(trail[i]) \in Nat /\ DOMAIN trail[i] = 1..Len(trail[i])
    BY <1>1, SeqFacts
  <2>3. \A k \in At(trail[i], "parked") : k \in 1..Len(trail[i]) /\ k < Len(trail[i]) + 1
    <3>1. \A k \in At(trail[i], "parked") : k \in 1..Len(trail[i])
      BY <2>2 DEF At
    <3>2. \A n \in Nat : \A k \in 1..n : k < n + 1
      OBVIOUS
    <3> QED BY <2>2, <3>1, <3>2
  <2> QED BY <2>1, <2>3 DEF InOrder
<1> QED BY <1>2 DEF GrowsPlain

LEMMA OrderParks ==
  ASSUME Base, NEW i \in Invocation, ~Over(i), InOrder(trail[i]), NEW d, trail'[i] = Append(trail[i], Parked(d))
  PROVE  InOrder(trail'[i])
<1>1. At(trail'[i], "settled") = {}
  BY AtAppend, RecordTypes DEF Over, Base
<1> QED BY <1>1 DEF InOrder

\* The steps of one thread, when it is the only one at work.
LEMMA OrderStep ==
  ASSUME Alone, TrailOrder, NEW t \in Thread, Others(t), \A u \in Thread : u # t => ~Works(job[u]),
         \A i \in Invocation : InOrder(trail'[i]),
         job'[t].at \in {"run", "park"} => At(trail'[job'[t].inv], "settled") = {},
         job'[t].at = "tell" => At(trail'[job'[t].inv], "settled") # {}
  PROVE  TrailOrder'
<1>1. \A u \in Thread : u # t => job'[u].at \in {"idle", "save"}
  BY DEF Others, Works
<1> QED BY <1>1 DEF TrailOrder, Over

LEMMA OthersIdle ==
  ASSUME Alone, NEW t \in Thread, Works(job[t]) \/ \A u \in Thread : ~Works(job[u])
  PROVE  \A u \in Thread : u # t => ~Works(job[u])
  BY DEF Alone

LEMMA OrderPlain ==
  ASSUME Base, TrailOrder, NEW t \in Thread, StepsBut(t)
  PROVE  \A i \in Invocation : InOrder(trail'[i])
  BY OrderGrows, PlainGrows DEF TrailOrder

\* A thread that leaves its work says nothing of a trail.
LEMMA OrderLeaves ==
  ASSUME Base, Alone, TrailOrder, NEW t \in Thread, Works(job[t]) \/ \A u \in Thread : ~Works(job[u]),
         Others(t), \A i \in Invocation : InOrder(trail'[i]), job'[t].at \notin {"run", "park", "tell"}
  PROVE  TrailOrder'
  BY OrderStep, OthersIdle

LEMMA OrderDelegate == ASSUME Base, Alone, TrailOrder, NEW t \in Thread, Delegate(t) PROVE TrailOrder'
<1>1. /\ Others(t) /\ (trail'[New] = <<>> \/ trail'[New] = Append(<<>>, Started))
      /\ \/ Takes(job'[t], job[t], "run", "step", New) \/ Takes(job'[t], job[t], "raised", "step", New)
         \/ Takes(job'[t], job[t], "run", "helper", New) \/ Takes(job'[t], job[t], "raised", "helper", New)
      /\ job[t].at \in {"task", "tune"}
  BY DelegateGoes
<1>2. At(trail'[New], "settled") = {}
  <2>1. At(<<>>, "settled") = {}
    BY NoElement DEF At
  <2>2. At(Append(<<>>, Started), "settled") = At(<<>>, "settled")
    <3>1. \A type : At(Append(<<>>, Started), type) = At(<<>>, type)
                        \cup (IF Started.type = type THEN {Len(<<>>) + 1} ELSE {})
      BY AtAppend, NoElement
    <3> QED BY <3>1, RecordTypes
  <2> QED BY <1>1, <2>1, <2>2
<1>3. job'[t].inv = New /\ job'[t].at \in {"run", "raised"}
  BY <1>1 DEF Takes
<1>4. \A i \in Invocation : InOrder(trail'[i])
  BY OrderPlain DEF StepsBut
<1> QED BY <1>1, <1>2, <1>3, <1>4, OrderStep, OthersIdle DEF Works

LEMMA OrderCarry == ASSUME Base, Alone, TrailOrder, NEW t \in Thread, Carry(t) PROVE TrailOrder'
<1> DEFINE i == job[t].pend
<1>1. /\ trail' = trail /\ Others(t) /\ job[t].at = "task" /\ i \in Invocation
      /\ \/ Leaves(job'[t])
         \/ Readiness(i) = "ready" /\ Takes(job'[t], job[t], "run", "step", i)
         \/ Takes(job'[t], job[t], "look", "drop", job'[t].inv)
         \/ ParksOn(job'[t], job[t], i)
  BY CarryGoes, Handles
<1>2. \A k \in Invocation : InOrder(trail'[k])
  BY OrderPlain DEF StepsBut
<1>3. CASE Readiness(i) = "ready" /\ Takes(job'[t], job[t], "run", "step", i)
  <2>1. At(trail[i], "settled") = {}
    BY <1>1, <1>3, ReadyNotOver DEF Over
  <2> QED BY <1>1, <1>2, <1>3, <2>1, OrderStep, OthersIdle DEF Works, Takes
<1>4. CASE Leaves(job'[t]) \/ Takes(job'[t], job[t], "look", "drop", job'[t].inv) \/ ParksOn(job'[t], job[t], i)
  <2>1. job'[t].at \notin {"run", "park", "tell"}
    BY <1>4 DEF Leaves, Writes, Takes, ParksOn
  <2> QED BY <1>1, <1>2, <2>1, OrderLeaves DEF Works
<1> QED BY <1>1, <1>3, <1>4

LEMMA OrderKeep ==
  ASSUME Base, Alone, TrailOrder, NEW t \in Thread,
         Complete(t) \/ StepRaises(t) \/ Defer(t) \/ CloseRaised(t) \/ Close(t) \/ Settle(t)
  PROVE  TrailOrder'
<1> DEFINE i == job[t].inv
<1>1. /\ Others(t) /\ Writes(job[t])
      /\ \/ Leaves(job'[t])
         \/ \E at \in {"settle", "raised"} : Keeps(job'[t], job[t], at)
         \/ Defer(t) /\ Keeps(job'[t], job[t], "park")
         \/ Keeps(job'[t], job[t], "tell") /\ trail'[i] = Append(trail[i], Settled(job[t].reason))
  BY KeepGoes
<1>2. \A k \in Invocation : InOrder(trail'[k])
  BY OrderPlain DEF StepsBut
<1>3. Works(job[t]) /\ i \in Invocation
  BY <1>1, WriterInside DEF Works, Writes
<1>4. CASE Leaves(job'[t]) \/ \E at \in {"settle", "raised"} : Keeps(job'[t], job[t], at)
  <2>1. job'[t].at \notin {"run", "park", "tell"}
    BY <1>4 DEF Leaves, Writes, Keeps
  <2> QED BY <1>1, <1>2, <1>3, <2>1, OrderLeaves
<1>5. CASE Defer(t) /\ Keeps(job'[t], job[t], "park")
  <2>1. trail' = trail /\ job[t].at = "run"
    BY <1>5 DEF Defer, Is
  <2>2. At(trail[i], "settled") = {}
    BY <2>1 DEF TrailOrder, Over
  <2> QED BY <1>1, <1>2, <1>3, <1>5, <2>1, <2>2, OrderStep, OthersIdle DEF Keeps
<1>6. CASE Keeps(job'[t], job[t], "tell") /\ trail'[i] = Append(trail[i], Settled(job[t].reason))
  <2>1. Len(trail[i]) + 1 \in At(trail'[i], "settled")
    BY <1>3, <1>6, AtAppend, RecordTypes DEF Base
  <2> QED BY <1>1, <1>2, <1>3, <1>6, <2>1, OrderStep, OthersIdle DEF Keeps
<1> QED BY <1>1, <1>4, <1>5, <1>6

LEMMA OrderPark == ASSUME Base, Alone, TrailOrder, NEW t \in Thread, Park(t) PROVE TrailOrder'
<1> DEFINE i == job[t].inv
<1>1. /\ Others(t) /\ job[t].at = "park" /\ Writes(job[t])
      /\ \/ Keeps(job'[t], job[t], "raised") \/ Returns(job'[t], job[t]) \/ ParksOn(job'[t], job[t], i)
  BY ParkGoes
<1>2. job'[t].at \notin {"run", "park", "tell"} /\ Works(job[t])
  BY <1>1 DEF Keeps, Returns, ParksOn, Works
<1>3. ~Over(i) /\ i \in Invocation
  BY <1>1, WriterInside DEF TrailOrder
<1>4. PICK next, caught : Write(t, i, Parked(job[t].review), next, caught)
  BY DEF Park
<1>5. \A k \in Invocation : InOrder(trail'[k])
  <2>1. \A k \in Invocation : k # i => trail'[k] = trail[k]
    BY <1>3, <1>4, WriteGrows
  <2>2. trail'[i] = trail[i] \/ trail'[i] = Append(trail[i], Parked(job[t].review))
    BY <1>3, <1>4, WriteGrows
  <2>3. InOrder(trail'[i])
    BY <1>3, <2>2, OrderParks DEF TrailOrder
  <2> QED BY <2>1, <2>3 DEF TrailOrder
<1> QED BY <1>1, <1>2, <1>5, OrderLeaves

LEMMA OrderLook == ASSUME Base, Alone, TrailOrder, NEW t \in Thread, Look(t) PROVE TrailOrder'
<1> DEFINE i == The(Open)
           x == job'[t]
<1>1. /\ trail' = trail /\ Others(t) /\ job[t].at = "look"
      /\ \/ Leaves(x) \/ Concludes(x, job[t], "task", Became(job[t].pend, "failed"))
         \/ One(Open) /\ Keeps(x, [job[t] EXCEPT !.inv = i], Missing(trail[i]))
  BY LookTurns
<1>2. \A k \in Invocation : InOrder(trail'[k])
  BY OrderPlain DEF StepsBut
<1>3. CASE Leaves(x) \/ Concludes(x, job[t], "task", Became(job[t].pend, "failed"))
  <2>1. x.at \notin {"run", "park", "tell"}
    BY <1>3 DEF Leaves, Writes, Concludes
  <2> QED BY <1>1, <1>2, <2>1, OrderLeaves DEF Works
<1>4. CASE Keeps(x, [job[t] EXCEPT !.inv = i], Missing(trail[i]))
  <2>1. x.inv = i /\ x.at = Missing(trail[i])
    BY <1>4, JobOf DEF Keeps, Fields
  <2>2. x.at \notin {"run", "park"} /\ (x.at = "tell" => At(trail[i], "settled") # {})
    BY <2>1 DEF Missing, LateSettlements, After
  <2> QED BY <1>1, <1>2, <2>1, <2>2, OrderStep, OthersIdle DEF Works
<1> QED BY <1>1, <1>3, <1>4

\* Nobody is at work when a pass or a cancellation begins.
LEMMA BeginsAlone ==
  ASSUME Patient, Alone, NEW t \in Thread, StartRun(t) \/ ResumeRun(t) \/ CancelRun(t)
  PROVE  \A u \in Thread : ~Works(job[u])
<1>1. CASE StartRun(t)
  BY <1>1 DEF StartRun, Alone, Idle, Is, Works
<1>2. CASE ResumeRun(t)
  BY <1>2 DEF ResumeRun, Alone
<1>3. CASE CancelRun(t)
  BY <1>3 DEF CancelRun, Idle, Is, Works
<1> QED BY <1>1, <1>2, <1>3

LEMMA OrderBegins ==
  ASSUME Patient, Base, Alone, TrailOrder, NEW t \in Thread, StartRun(t) \/ ResumeRun(t) \/ CancelRun(t)
  PROVE  TrailOrder'
<1>1. \A u \in Thread : ~Works(job[u])
  BY BeginsAlone
<1>2. Others(t) /\ job'[t].at \notin {"run", "park", "tell"}
  <2>1. CASE StartRun(t) \/ ResumeRun(t)
    <3>1. Others(t) /\ (job'[t] = PassFrom(<<>>) \/ job'[t] = PassFrom(ckpt))
      BY <2>1, BeginGoes
    <3>2. \A p : PassFrom(p).at = "task"
      BY FieldsOfFree DEF PassFrom, Fields
    <3> QED BY <3>1, <3>2
  <2>2. CASE CancelRun(t)
    BY <2>2, QuietGoes DEF Leaves, Writes
  <2> QED BY <2>1, <2>2
<1>3. \A k \in Invocation : InOrder(trail'[k])
  BY OrderPlain DEF StepsBut
<1> QED BY <1>1, <1>2, <1>3, OrderLeaves

LEMMA OrderRest ==
  ASSUME Base, Alone, TrailOrder, NEW t \in Thread,
         \/ Skip(t) \/ Unresolved(t) \/ Tell(t) \/ ParkRun(t) \/ SaveCheckpoint(t)
         \/ PlanDone(t) \/ Check(t) \/ End(t)
  PROVE  TrailOrder'
<1>1. \A k \in Invocation : InOrder(trail'[k])
  BY OrderPlain DEF StepsBut
<1>2. Others(t) /\ job'[t].at \notin {"run", "park", "tell"}
  <2>1. CASE Skip(t) \/ Unresolved(t)
    BY <2>1, SkipGoes, UnresolvedGoes DEF Leaves, Writes, Concludes, Takes
  <2>2. CASE Tell(t)
    BY <2>2, TellGoes DEF Leaves, Writes, Concludes, Returns
  <2>3. CASE ParkRun(t) \/ SaveCheckpoint(t)
    BY <2>3, ParkRunGoes, SaveGoes DEF Leaves, Writes
  <2>4. CASE PlanDone(t) \/ Check(t) \/ End(t)
    BY <2>4, QuietGoes DEF Leaves, Writes
  <2> QED BY <2>1, <2>2, <2>3, <2>4
<1>3. CASE Works(job[t])
  BY <1>1, <1>2, <1>3, OrderLeaves
<1>4. CASE ~Works(job[t])
  <2>1. job[t].at = "save" /\ SaveCheckpoint(t)
    BY <1>4 DEF Works, Skip, Unresolved, AtTask, Tell, ParkRun, SaveCheckpoint, PlanDone, Check, End, Is
  <2>2. trail' = trail /\ job'[t] = Free
    BY <2>1, SaveGoes
  <2>3. \A u \in Thread : u # t => job'[u] = job[u]
    BY <1>2 DEF Others
  <2> QED BY <2>2, <2>3, FieldsOfFree DEF TrailOrder, Over
<1> QED BY <1>3, <1>4

LEMMA OrderNext == ASSUME Patient, Base, Alone, TrailOrder, [Next]_vars PROVE TrailOrder'
<1>1. CASE Answer \/ UNCHANGED vars
  BY <1>1 DEF Answer, vars, records, TrailOrder, Over
<1>2. CASE Die
  <2>1. trail' = trail /\ \A t \in Thread : job'[t] = Free
    BY <1>2 DEF Die, records
  <2> QED BY <2>1, FieldsOfFree DEF TrailOrder, Over
<1> QED BY <1>1, <1>2, OrderDelegate, OrderCarry, OrderKeep, OrderPark, OrderLook, OrderBegins, OrderRest
        DEF Next, Pass

LEMMA OrderInit == Init => TrailOrder
<1> SUFFICES ASSUME Init PROVE TrailOrder
  OBVIOUS
<1>1. (\A i \in Invocation : trail[i] = <<>>) /\ \A t \in Thread : job[t] = Free
  BY DEF Init
<1>2. InOrder(<<>>)
  BY NoElement DEF InOrder, At
<1> QED BY <1>1, <1>2, FieldsOfFree DEF TrailOrder

----------------------------------------------------------------------------
(* PlanInv: what a thread works on belongs to the next position of the plan. *)

\* The invocations given out stay, each with its task.
MintedStays == /\ DOMAIN minted \subseteq DOMAIN minted'
               /\ \A k \in DOMAIN minted : minted'[k] = minted[k]
               /\ minted # <<>> => minted' # <<>>

LEMMA StaysUnless == ASSUME UNCHANGED minted PROVE MintedStays
  BY DEF MintedStays

LEMMA StaysOnMint ==
  ASSUME Base, NEW p, Mint(p)
  PROVE  MintedStays /\ minted' # <<>> /\ New \in DOMAIN minted' /\ minted'[New] = p
  BY FreshHandle, NoElement DEF MintedStays

LEMMA InPlanStays ==
  ASSUME MintedStays, NEW j, Sound(j, DOMAIN minted), InPlan(j, minted)
  PROVE  InPlan(j, minted')
  BY DEF MintedStays, Sound, Carries, InPlan, Marked

LEMMA MarkedStays ==
  ASSUME MintedStays, NEW p, Carries(p, DOMAIN minted), Marked(p, minted)
  PROVE  Marked(p, minted')
  BY DEF MintedStays, Carries, Marked

LEMMA PlanStep ==
  ASSUME Base, PlanInv, NEW t \in Thread, Others(t), MintedStays,
         ckpt' = ckpt \/ (ckpt' = job[t].done /\ job[t].at = "save"),
         InPlan(job'[t], minted'),
         minted' = minted \/ \E k \in DOMAIN minted' : minted'[k] = 1
  PROVE  PlanInv'
<1>1. ASSUME NEW u \in Thread PROVE InPlan(job'[u], minted')
  <2>1. InPlan(job[u], minted')
    BY InPlanStays, JobOf DEF PlanInv
  <2> QED BY <2>1 DEF Others
<1>2. Marked(ckpt', minted')
  <2>1. Marked(ckpt, minted')
    BY MarkedStays DEF Base, PlanInv
  <2>2. job[t].at = "save" => Marked(job[t].done, minted')
    BY InPlanStays, JobOf DEF PlanInv, InPlan
  <2> QED BY <2>1, <2>2
<1>3. minted' # <<>> => \E k \in DOMAIN minted' : minted'[k] = 1
  BY DEF PlanInv
<1> QED BY <1>1, <1>2, <1>3 DEF PlanInv

LEMMA InPlanLeaves ==
  ASSUME NEW j, NEW handles, NEW tasks, Sound(j, handles), Leaves(j)
  PROVE  InPlan(j, tasks)
  BY DEF Sound, Leaves, Writes, InPlan

LEMMA MoreDecided ==
  ASSUME NEW s, IsSeq(s), NonePending(s), NEW o
  PROVE  /\ Append(s, o) # <<>>
         /\ o.status # "pending" => NonePending(Append(s, o))
         /\ Len(Append(s, o)) = Len(s) + 1
         /\ \A n \in 1..Len(s) : Append(s, o)[n].status # "pending"
<1>1. /\ Len(s) \in Nat /\ DOMAIN s = 1..Len(s) /\ DOMAIN Append(s, o) = 1..(Len(s) + 1)
      /\ Append(s, o)[Len(s) + 1] = o /\ \A n \in 1..Len(s) : Append(s, o)[n] = s[n]
      /\ Len(Append(s, o)) = Len(s) + 1
  BY SeqFacts
<1>2. Append(s, o) # <<>>
  BY LastOfAppend
<1>3. \A n \in 1..(Len(s) + 1) : n \in 1..Len(s) \/ n = Len(s) + 1
  BY <1>1
<1> QED BY <1>1, <1>2, <1>3 DEF NonePending

LEMMA MintFirst ==
  ASSUME Base, PlanInv, NEW t \in Thread, Mint(Task(t)), job[t].at = "task"
  PROVE  \E k \in DOMAIN minted' : minted'[k] = 1
<1>1. CASE minted = <<>>
  <2>1. job[t].done = <<>>
    BY <1>1 DEF PlanInv, InPlan
  <2>2. Task(t) = 1
    BY <2>1, NoElement DEF Task
  <2> QED BY <2>2, StaysOnMint
<1>2. CASE minted # <<>>
  BY <1>2, StaysOnMint DEF PlanInv, MintedStays
<1> QED BY <1>1, <1>2

LEMMA MintHelper ==
  ASSUME Base, PlanInv, NEW t \in Thread, Mint(None), job[t].at = "tune"
  PROVE  \E k \in DOMAIN minted' : minted'[k] = 1
  BY StaysOnMint DEF PlanInv, InPlan, MintedStays

LEMMA InPlanParks ==
  ASSUME NEW j, NEW x, NEW tasks, NEW i, ParksOn(x, j, i), IsSeq(j.done), NonePending(j.done),
         tasks[i] = Len(j.done) + 1
  PROVE  InPlan(x, tasks)
<1>1. /\ x.done = Append(j.done, [inv |-> i, status |-> "pending"]) /\ x.at = "parkrun"
      /\ Len(x.done) = Len(j.done) + 1 /\ x.done[Len(x.done)] = [inv |-> i, status |-> "pending"]
  BY DEF ParksOn
<1>2. \A n \in 1..(Len(x.done) - 1) : x.done[n].status # "pending"
  <2>1. Len(j.done) \in Nat
    BY SeqFacts
  <2>2. \A n \in 1..Len(j.done) : x.done[n].status # "pending"
    BY <1>1, MoreDecided
  <2>3. Len(x.done) - 1 = Len(j.done)
    BY <1>1, <2>1
  <2> QED BY <2>2, <2>3
<1> QED BY <1>1, <1>2 DEF InPlan, Marked, Writes

LEMMA InPlanConcludes ==
  ASSUME NEW j, NEW x, NEW tasks, NEW i, NEW status, NEW at \in {"task", "tune"},
         Concludes(x, j, at, Became(i, status)), status # "pending",
         IsSeq(j.done), NonePending(j.done), tasks # <<>>
  PROVE  InPlan(x, tasks)
<1>1. /\ x.at = at /\ x.role = "step" /\ x.pend = None /\ x.done = Append(j.done, Became(i, status))
      /\ Became(i, status).status # "pending"
  BY DEF Concludes, Became
<1>2. NonePending(x.done)
  BY <1>1, MoreDecided
<1> QED BY <1>1, <1>2 DEF InPlan, Writes

LEMMA InPlanReturns ==
  ASSUME NEW j, NEW x, NEW tasks, Returns(x, j), NonePending(j.done), tasks # <<>>
  PROVE  InPlan(x, tasks)
  BY DEF Returns, InPlan, Writes

LEMMA HasMinted ==
  ASSUME Base, NEW t \in Thread, Writes(job[t]) \/ job[t].pend # None
  PROVE  minted # <<>>
  BY JobOf, NoElement DEF Sound

LEMMA PlanSkip == ASSUME Base, PlanInv, NEW t \in Thread, Skip(t), Base' PROVE PlanInv'
<1>1. /\ job[t].at = "task" /\ Mint(Task(t)) /\ Others(t) /\ ckpt' = ckpt
      /\ Leaves(job'[t]) \/ Concludes(job'[t], job[t], "task", Became(New, "skipped"))
  BY SkipGoes
<1>2. NonePending(job[t].done) /\ IsSeq(job[t].done) /\ Sound(job'[t], DOMAIN minted')
  BY <1>1, JobOf DEF PlanInv, InPlan, Sound, Base
<1>3. MintedStays /\ minted' # <<>> /\ \E k \in DOMAIN minted' : minted'[k] = 1
  BY <1>1, StaysOnMint, MintFirst
<1>4. InPlan(job'[t], minted')
  BY <1>1, <1>2, <1>3, InPlanLeaves, InPlanConcludes
<1> QED BY <1>1, <1>3, <1>4, PlanStep

LEMMA PlanTakes ==
  ASSUME NEW j, NEW x, NEW tasks, NEW at \in {"run", "raised", "settle"}, NEW role \in {"step", "helper"}, NEW i,
         Takes(x, j, at, role, i), NonePending(j.done),
         tasks[i] = IF role = "step" THEN Len(j.done) + 1 ELSE None
  PROVE  InPlan(x, tasks)
  BY DEF Takes, InPlan, Writes

LEMMA PlanUnresolved == ASSUME Base, PlanInv, NEW t \in Thread, Unresolved(t) PROVE PlanInv'
<1>1. /\ job[t].at = "task" /\ Mint(Task(t)) /\ Others(t) /\ ckpt' = ckpt
      /\ Takes(job'[t], job[t], "settle", "step", New)
  BY UnresolvedGoes
<1>2. NonePending(job[t].done)
  BY <1>1, JobOf DEF PlanInv, InPlan, Sound
<1>3. MintedStays /\ minted'[New] = Task(t) /\ \E k \in DOMAIN minted' : minted'[k] = 1
  BY <1>1, StaysOnMint, MintFirst
<1>4. InPlan(job'[t], minted')
  BY <1>1, <1>2, <1>3, PlanTakes DEF Task
<1> QED BY <1>1, <1>3, <1>4, PlanStep

LEMMA PlanDelegate == ASSUME Base, PlanInv, NEW t \in Thread, Delegate(t) PROVE PlanInv'
<1>1. /\ Others(t) /\ ckpt' = ckpt
      /\ \/ /\ job[t].at = "task" /\ Mint(Task(t))
            /\ Takes(job'[t], job[t], "run", "step", New) \/ Takes(job'[t], job[t], "raised", "step", New)
         \/ /\ job[t].at = "tune" /\ Mint(None)
            /\ Takes(job'[t], job[t], "run", "helper", New) \/ Takes(job'[t], job[t], "raised", "helper", New)
  BY DelegateGoes
<1>2. NonePending(job[t].done)
  BY <1>1, JobOf DEF PlanInv, InPlan, Sound
<1>3. CASE job[t].at = "task" /\ Mint(Task(t))
  <2>1. MintedStays /\ minted'[New] = Task(t) /\ \E k \in DOMAIN minted' : minted'[k] = 1
    BY <1>3, StaysOnMint, MintFirst
  <2>2. InPlan(job'[t], minted')
    BY <1>1, <1>2, <1>3, <2>1, PlanTakes DEF Task
  <2> QED BY <1>1, <2>1, <2>2, PlanStep
<1>4. CASE job[t].at = "tune" /\ Mint(None)
  <2>1. MintedStays /\ minted'[New] = None /\ \E k \in DOMAIN minted' : minted'[k] = 1
    BY <1>4, StaysOnMint, MintHelper
  <2>2. InPlan(job'[t], minted')
    BY <1>1, <1>2, <1>4, <2>1, PlanTakes
  <2> QED BY <1>1, <2>1, <2>2, PlanStep
<1> QED BY <1>1, <1>3, <1>4

LEMMA PlanCarry == ASSUME Base, PlanInv, NEW t \in Thread, Carry(t), Base' PROVE PlanInv'
<1> DEFINE i == job[t].pend
           x == job'[t]
<1>1. /\ minted' = minted /\ ckpt' = ckpt /\ Others(t) /\ job[t].at = "task" /\ i # None
      /\ \/ Leaves(x)
         \/ Takes(x, job[t], "run", "step", i)
         \/ Takes(x, job[t], "look", "drop", x.inv) /\ x.pend = i
         \/ ParksOn(x, job[t], i)
  BY CarryGoes
<1>2. /\ NonePending(job[t].done) /\ IsSeq(job[t].done) /\ minted[i] = Len(job[t].done) + 1
      /\ Sound(x, DOMAIN minted')
  BY <1>1, JobOf DEF PlanInv, InPlan, Sound, Base
<1>3. Takes(x, job[t], "look", "drop", x.inv) /\ x.pend = i => InPlan(x, minted)
  BY <1>1, <1>2 DEF Takes, InPlan, Writes
<1>4. InPlan(x, minted)
  BY <1>1, <1>2, <1>3, InPlanLeaves, PlanTakes, InPlanParks
<1> QED BY <1>1, <1>4, StaysUnless, PlanStep

LEMMA InPlanKeeps ==
  ASSUME NEW j, NEW x, NEW tasks, NEW at \in {"settle", "raised", "park", "tell", "close"}, Keeps(x, j, at),
         InPlan(j, tasks), Writes(j)
  PROVE  InPlan(x, tasks)
  BY DEF Keeps, InPlan, Writes

LEMMA PlanKeep ==
  ASSUME Base, PlanInv, NEW t \in Thread, Base',
         Complete(t) \/ StepRaises(t) \/ Defer(t) \/ CloseRaised(t) \/ Close(t) \/ Settle(t)
  PROVE  PlanInv'
<1>1. /\ minted' = minted /\ ckpt' = ckpt /\ Others(t) /\ Writes(job[t])
      /\ Leaves(job'[t]) \/ \E at \in {"settle", "raised", "park", "tell"} : Keeps(job'[t], job[t], at)
  BY KeepGoes
<1>2. InPlan(job[t], minted) /\ Sound(job'[t], DOMAIN minted')
  BY DEF PlanInv, Base
<1>3. InPlan(job'[t], minted)
  BY <1>1, <1>2, InPlanLeaves, InPlanKeeps
<1> QED BY <1>1, <1>3, StaysUnless, PlanStep

LEMMA PlanPark == ASSUME Base, PlanInv, NEW t \in Thread, Park(t) PROVE PlanInv'
<1> DEFINE i == job[t].inv
<1>1. /\ minted' = minted /\ ckpt' = ckpt /\ Others(t) /\ job[t].role \in {"step", "helper"} /\ Writes(job[t])
      /\ \/ Keeps(job'[t], job[t], "raised") \/ Returns(job'[t], job[t])
         \/ job[t].role = "step" /\ ParksOn(job'[t], job[t], i)
  BY ParkGoes
<1>2. /\ InPlan(job[t], minted) /\ NonePending(job[t].done) /\ IsSeq(job[t].done) /\ minted # <<>>
      /\ job[t].role = "step" => minted[i] = Len(job[t].done) + 1
  BY <1>1, JobOf, HasMinted DEF PlanInv, InPlan
<1>3. InPlan(job'[t], minted)
  BY <1>1, <1>2, InPlanKeeps, InPlanReturns, InPlanParks
<1> QED BY <1>1, <1>3, StaysUnless, PlanStep

LEMMA PlanTell == ASSUME Base, PlanInv, NEW t \in Thread, Tell(t), Base' PROVE PlanInv'
<1> DEFINE j == job[t]
           x == job'[t]
<1>1. /\ minted' = minted /\ ckpt' = ckpt /\ Others(t) /\ Writes(j)
      /\ \/ Leaves(x)
         \/ /\ j.role = "step" /\ x.at \in {"task", "tune"}
            /\ Concludes(x, j, x.at, Became(j.inv, TaskStatus(j.reason)))
         \/ j.role = "helper" /\ Returns(x, j)
         \/ j.role = "drop" /\ Concludes(x, j, "task", Became(j.pend, "failed"))
  BY TellGoes
<1>2. /\ j.role \in {"step", "helper", "drop"} => NonePending(j.done)
      /\ IsSeq(j.done) /\ minted # <<>> /\ Sound(x, DOMAIN minted')
  BY <1>1, JobOf, HasMinted DEF PlanInv, InPlan, Base
<1>3. TaskStatus(j.reason) # "pending"
  BY DEF TaskStatus
<1>4. Leaves(x) \/ (j.role = "helper" /\ Returns(x, j)) => InPlan(x, minted)
  BY <1>2, InPlanLeaves, InPlanReturns
<1>5. ASSUME j.role = "step", x.at \in {"task", "tune"},
             Concludes(x, j, x.at, Became(j.inv, TaskStatus(j.reason)))
      PROVE  InPlan(x, minted)
  <2> DEFINE status == TaskStatus(j.reason)
  <2>1. Concludes(x, j, x.at, Became(j.inv, status)) /\ status # "pending"
    BY <1>3, <1>5
  <2> HIDE DEF status
  <2>2. PICK at \in {"task", "tune"} : x.at = at
    BY <1>5
  <2>3. Concludes(x, j, at, Became(j.inv, status))
    BY <2>1, <2>2
  <2> HIDE DEF j, x
  <2> QED BY <1>2, <1>5, <2>1, <2>3, InPlanConcludes
<1>6. j.role = "drop" /\ Concludes(x, j, "task", Became(j.pend, "failed")) => InPlan(x, minted)
  BY <1>2, InPlanConcludes
<1>7. InPlan(x, minted)
  BY <1>1, <1>4, <1>5, <1>6
<1> QED BY <1>1, <1>7, StaysUnless, PlanStep

LEMMA PlanLook == ASSUME Base, PlanInv, NEW t \in Thread, Look(t), Base' PROVE PlanInv'
<1> DEFINE j == job[t]
           x == job'[t]
           i == The(Open)
<1>1. /\ minted' = minted /\ ckpt' = ckpt /\ Others(t) /\ j.at = "look"
      /\ \/ Leaves(x)
         \/ j.role = "drop" /\ Concludes(x, j, "task", Became(j.pend, "failed"))
         \/ Keeps(x, [j EXCEPT !.inv = i], Missing(trail[i]))
  BY LookTurns
<1>2. /\ j.role = "drop" => NonePending(j.done) /\ j.pend # None /\ minted # <<>>
      /\ j.role \in {"drop", "giveup", "cancel", "fail"} /\ IsSeq(j.done) /\ Sound(x, DOMAIN minted')
  BY <1>1, JobOf, HasMinted DEF PlanInv, InPlan, Base, Sound
<1>3. ASSUME Keeps(x, [j EXCEPT !.inv = i], Missing(trail[i]))  PROVE InPlan(x, minted)
  <2>1. x.role = j.role /\ x.done = j.done /\ x.pend = j.pend /\ x.at \in {"close", "settle", "tell"}
    BY <1>3, JobOf DEF Keeps, Fields, Missing
  <2> QED BY <1>2, <2>1 DEF InPlan
<1>4. InPlan(x, minted)
  BY <1>1, <1>2, <1>3, InPlanLeaves, InPlanConcludes
<1> QED BY <1>1, <1>4, StaysUnless, PlanStep

LEMMA PlanSave ==
  ASSUME Base, PlanInv, NEW t \in Thread, ParkRun(t) \/ SaveCheckpoint(t), Base'
  PROVE  PlanInv'
<1>1. /\ minted' = minted /\ Others(t)
      /\ ckpt' = ckpt \/ (ckpt' = job[t].done /\ job[t].at = "save")
      /\ Leaves(job'[t]) \/ (job[t].at = "parkrun" /\ job'[t].at = "save" /\ job'[t].done = job[t].done)
  BY ParkRunGoes, SaveGoes
<1>2. job[t].at = "parkrun" => Marked(job[t].done, minted)
  BY DEF PlanInv, InPlan
<1>3. Sound(job'[t], DOMAIN minted')
  BY DEF Base
<1>4. InPlan(job'[t], minted)
  BY <1>1, <1>2, <1>3, InPlanLeaves DEF InPlan, Sound, Writes
<1> QED BY <1>1, <1>4, StaysUnless, PlanStep

LEMMA InPlanStarts ==
  ASSUME Base, NEW p, NEW tasks, Carries(p, DOMAIN minted), Marked(p, tasks), p # <<>> => tasks # <<>>
  PROVE  InPlan(PassFrom(p), tasks)
<1> DEFINE x == PassFrom(p)
<1>1. /\ x.at = "task" /\ x.role = "step" /\ x.done = Decided(p) /\ x.pend = Carried(p)
      /\ Carried(p) = None => Decided(p) = p
      /\ Carried(p) # None => /\ p # <<>> /\ Carried(p) = p[Len(p)].inv
                              /\ Len(Decided(p)) = Len(p) - 1 /\ DOMAIN Decided(p) = 1..(Len(p) - 1)
                              /\ \A n \in 1..(Len(p) - 1) : Decided(p)[n] = p[n]
      /\ p # <<>> /\ p[Len(p)].status = "pending" => Carried(p) # None
  BY PassStarts, Handles
<1>2. CASE p = <<>>
  <2>1. x.pend = None /\ x.done = <<>>
    BY <1>1, <1>2
  <2>2. NonePending(x.done)
    BY <2>1, NoElement DEF NonePending
  <2> QED BY <1>1, <2>1, <2>2 DEF InPlan, Writes
<1>3. CASE p # <<>>
  <2>1. Carried(p) # None /\ tasks # <<>> /\ tasks[Carried(p)] = Len(p)
        /\ \A n \in 1..(Len(p) - 1) : p[n].status # "pending"
    BY <1>1, <1>3 DEF Marked
  <2>2. NonePending(x.done)
    BY <1>1, <2>1 DEF NonePending
  <2>3. Len(p) \in Nat /\ Len(x.done) + 1 = Len(p)
    BY <1>1, <2>1, SeqFacts DEF Carries
  <2> QED BY <1>1, <2>1, <2>2, <2>3 DEF InPlan, Writes
<1> QED BY <1>2, <1>3

LEMMA PlanBegins ==
  ASSUME Base, PlanInv, NEW t \in Thread, StartRun(t) \/ ResumeRun(t)
  PROVE  PlanInv'
<1>1. /\ minted' = minted /\ ckpt' = ckpt /\ Others(t)
      /\ job'[t] = PassFrom(<<>>) \/ job'[t] = PassFrom(ckpt)
  BY BeginGoes
<1>2. InPlan(PassFrom(<<>>), minted)
  BY InPlanStarts, NoElement DEF Carries, Marked
<1>3. ckpt # <<>> => minted # <<>>
  BY NoElement DEF Base, Carries
<1>4. InPlan(PassFrom(ckpt), minted)
  BY <1>3, InPlanStarts DEF Base, PlanInv
<1> QED BY <1>1, <1>2, <1>4, StaysUnless, PlanStep

LEMMA PlanQuiet ==
  ASSUME Base, PlanInv, NEW t \in Thread, PlanDone(t) \/ Check(t) \/ End(t) \/ CancelRun(t), Base'
  PROVE  PlanInv'
<1>1. minted' = minted /\ ckpt' = ckpt /\ Others(t) /\ Leaves(job'[t]) /\ Sound(job'[t], DOMAIN minted')
  BY QuietGoes DEF Base
<1> QED BY <1>1, InPlanLeaves, StaysUnless, PlanStep

LEMMA PlanNext == ASSUME Base, PlanInv, [Next]_vars PROVE PlanInv'
<1>0. Base'
  BY BaseNext
<1>1. CASE Answer \/ UNCHANGED vars
  BY <1>1 DEF Answer, vars, records, PlanInv
<1>2. CASE Die
  <2>1. minted' = minted /\ ckpt' = ckpt /\ \A t \in Thread : job'[t] = Free
    BY <1>2 DEF Die, records, run
  <2>2. InPlan(Free, minted)
    BY FieldsOfFree DEF InPlan, Writes
  <2> QED BY <2>1, <2>2 DEF PlanInv
<1> QED BY <1>0, <1>1, <1>2, PlanSkip, PlanUnresolved, PlanDelegate, PlanCarry, PlanKeep, PlanPark, PlanTell,
        PlanLook, PlanSave, PlanBegins, PlanQuiet DEF Next, Pass

LEMMA PlanInit == Init => PlanInv
<1> SUFFICES ASSUME Init PROVE PlanInv
  OBVIOUS
<1>1. minted = <<>> /\ ckpt = <<>> /\ \A t \in Thread : job[t] = Free
  BY DEF Init
<1>2. InPlan(Free, minted)
  BY FieldsOfFree DEF InPlan, Writes
<1> QED BY <1>1, <1>2 DEF PlanInv, Marked

----------------------------------------------------------------------------
(* OneWaits: at most one invocation waits. *)

\* The same, after a step.
ClearAfter(S) ==
    Waits' \subseteq S /\ \A p \in Marks' : At(trail'[Mark(p)], "settled") # {} \/ Mark(p) \in S

ClearsAfter(j) ==
    /\ Writes(j) /\ j.role \in {"step", "helper", "drop"} => ClearAfter({j.inv})
    /\ j.at = "tune" => ClearAfter({})
    /\ j.at = "task" /\ j.pend = None =>
          ClearAfter({}) \/ \E k \in DOMAIN minted' : minted'[k] = Len(j.done) + 1
    /\ j.at = "task" /\ j.pend # None => ClearAfter({j.pend}) \/ At(trail'[j.pend], "settled") # {}
    /\ j.at = "look" /\ j.role = "drop" => ClearAfter({j.pend}) /\ IsOpen(trail'[j.pend])

LEMMA IsMark ==
  ASSUME NEW p
  PROVE  p \in Marks <=> /\ p # <<>>
                         /\ p = ckpt \/ \E t \in Thread : job[t].at \in {"parkrun", "save"} /\ p = job[t].done
  BY DEF Marks

LEMMA IsMarkAfter ==
  ASSUME NEW p
  PROVE  p \in Marks' <=> /\ p # <<>>
                          /\ p = ckpt' \/ \E t \in Thread : job'[t].at \in {"parkrun", "save"} /\ p = job'[t].done
  BY DEF Marks

LEMMA MarkHandles ==
  ASSUME Base, NEW p \in Marks PROVE Mark(p) \in DOMAIN minted /\ Mark(p) \in Invocation
<1>1. Carries(p, DOMAIN minted) /\ p # <<>>
  BY IsMark DEF Base, Sound
<1> QED BY <1>1, Handles DEF Carries, Mark

LEMMA MarksStay ==
  ASSUME NEW t \in Thread, Others(t), ckpt' = ckpt \/ (ckpt' = job[t].done /\ job[t].at = "save"),
         job'[t].at \in {"parkrun", "save"} => job[t].at \in {"parkrun", "save"} /\ job'[t].done = job[t].done
  PROVE  Marks' \subseteq Marks
<1>1. ASSUME NEW p \in Marks' PROVE p \in Marks
  <2>1. p # <<>> /\ (p = ckpt' \/ \E u \in Thread : job'[u].at \in {"parkrun", "save"} /\ p = job'[u].done)
    BY IsMarkAfter
  <2>2. p = ckpt' => p = ckpt \/ (job[t].at = "save" /\ p = job[t].done)
    OBVIOUS
  <2>3. ASSUME NEW u \in Thread, job'[u].at \in {"parkrun", "save"}, p = job'[u].done
        PROVE  job[u].at \in {"parkrun", "save"} /\ p = job[u].done
    BY <2>3 DEF Others
  <2> QED BY <2>1, <2>2, <2>3, IsMark
<1> QED BY <1>1

LEMMA MarksAdd ==
  ASSUME NEW t \in Thread, Others(t), ckpt' = ckpt
  PROVE  Marks' \subseteq Marks \cup {job'[t].done}
<1>1. ASSUME NEW p \in Marks', p # job'[t].done PROVE p \in Marks
  <2>1. p # <<>> /\ (p = ckpt' \/ \E u \in Thread : job'[u].at \in {"parkrun", "save"} /\ p = job'[u].done)
    BY IsMarkAfter
  <2>2. ASSUME NEW u \in Thread, job'[u].at \in {"parkrun", "save"}, p = job'[u].done
        PROVE  job[u].at \in {"parkrun", "save"} /\ p = job[u].done
    BY <1>1, <2>2 DEF Others
  <2> QED BY <2>1, <2>2, IsMark
<1> QED BY <1>1

LEMMA ExceptStays ==
  ASSUME Base, MintedStays, \A i \in Invocation : Grows(i), Except
  PROVE  Except'
<1>1. CASE HelperParked
  <2>1. PICK i \in DOMAIN minted : minted[i] = None /\ At(trail[i], "parked") # {}
    BY <1>1 DEF HelperParked, HasParked
  <2>2. At(trail[i], "parked") \subseteq At(trail'[i], "parked")
    BY Handles, GrownTrail
  <2>3. i \in DOMAIN minted' /\ minted'[i] = None /\ At(trail'[i], "parked") # {}
    BY <2>1, <2>2 DEF MintedStays
  <2> QED BY <2>3 DEF Except, HelperParked, HasParked
<1>2. CASE ~DelegatedOnce
  <2>1. PICK i \in DOMAIN minted, k \in DOMAIN minted : minted[i] = minted[k] /\ minted[i] # None /\ i # k
    BY <1>2 DEF DelegatedOnce
  <2>2. i \in DOMAIN minted' /\ k \in DOMAIN minted' /\ minted'[i] = minted'[k] /\ minted'[i] # None
    BY <2>1 DEF MintedStays
  <2> QED BY <2>1, <2>2 DEF Except, DelegatedOnce
<1> QED BY <1>1, <1>2 DEF Except

LEMMA ClearStays ==
  ASSUME Base, Waits' \subseteq Waits, Marks' \subseteq Marks, \A i \in Invocation : Grows(i)
  PROVE  /\ \A S : Clear(S) => ClearAfter(S)
         /\ Clean => Clean'
<1>1. ASSUME NEW p \in Marks'
      PROVE  p \in Marks /\ (Over(Mark(p)) => At(trail'[Mark(p)], "settled") # {})
  <2>1. p \in Marks /\ Mark(p) \in Invocation
    BY MarkHandles
  <2>2. At(trail[Mark(p)], "settled") \subseteq At(trail'[Mark(p)], "settled")
    BY <2>1, GrownTrail
  <2> QED BY <2>1, <2>2 DEF Over
<1>2. ASSUME NEW S, Clear(S) PROVE ClearAfter(S)
  BY <1>1, <1>2 DEF Clear, ClearAfter
<1>3. ASSUME Clean PROVE Clean'
  <2>1. \A p \in Marks' : At(trail'[Mark(p)], "settled") # {} \/ ClearAfter({Mark(p)})
    BY <1>1, <1>2, <1>3 DEF Clean
  <2>2. \A i, k \in Waits' : i = k
    BY <1>3 DEF Clean
  <2> QED BY <2>1, <2>2 DEF Clean, Over, Clear, ClearAfter, Mark
<1> QED BY <1>2, <1>3

LEMMA OneWaitsStep ==
  ASSUME NEW t \in Thread, Others(t), \A u \in Thread : u # t => ~Works(job[u]), Clean', ClearsAfter(job'[t])
  PROVE  OneWaits'
<1>1. \A u \in Thread : u # t => job'[u].at \in {"idle", "save"}
  BY DEF Others, Works
<1>2. Clears(job[t])'
  BY DEF Clears, ClearsAfter, Clear, ClearAfter, Over, Mark
<1>3. ASSUME NEW u \in Thread, u # t PROVE Clears(job[u])'
  BY <1>1, <1>3 DEF Clears, Writes
<1> QED BY <1>2, <1>3 DEF OneWaits

LEMMA KeepsWaits ==
  ASSUME Base, Alone, OneWaits, NEW t \in Thread, Works(job[t]) \/ \A u \in Thread : ~Works(job[u]),
         StepsBut(t), Others(t), MintedStays, Marks' \subseteq Marks,
         ~Except' /\ Clean /\ Clears(job[t]) /\ (\A S : Clear(S) => ClearAfter(S)) => ClearsAfter(job'[t])
  PROVE  OneWaits'
<1>1. (\A i \in Invocation : GrowsPlain(i) /\ Grows(i)) /\ hurt \subseteq hurt'
  BY PlainGrows
<1>2. Waits' \subseteq Waits
  BY <1>1, WaitsShrinks
<1>3. (\A S : Clear(S) => ClearAfter(S)) /\ (Clean => Clean')
  BY <1>1, <1>2, ClearStays
<1>4. Except => Except'
  BY <1>1, ExceptStays
<1>5. CASE Except'
  BY <1>5 DEF OneWaits
<1>6. CASE ~Except'
  <2>1. Clean /\ Clears(job[t])
    BY <1>4, <1>6 DEF OneWaits
  <2> QED BY <1>3, <1>6, <2>1, OneWaitsStep, OthersIdle
<1> QED BY <1>5, <1>6

LEMMA ClearsLeaves ==
  ASSUME NEW j, NEW handles, Sound(j, handles), Leaves(j) PROVE ClearsAfter(j)
  BY DEF Sound, Leaves, ClearsAfter

\* A task that is given out and was not before has nothing waiting.
LEMMA TaskIsClear ==
  ASSUME Base, PlanInv, NEW t \in Thread, job[t].at = "task", Mint(Task(t)), ~Except', Clears(job[t])
  PROVE  Clear({})
<1>1. /\ New \in DOMAIN minted' /\ minted'[New] = Task(t) /\ New \notin DOMAIN minted /\ MintedStays
  BY FreshHandle, StaysOnMint
<1>2. Task(t) # None /\ Task(t) = Len(job[t].done) + 1
  <2>1. Len(job[t].done) \in Nat
    BY JobOf, SeqFacts
  <2> QED BY <2>1 DEF Task, None
<1>3. ASSUME NEW k \in DOMAIN minted, minted[k] = Task(t) PROVE FALSE
  <2>1. k \in DOMAIN minted' /\ minted'[k] = Task(t) /\ k # New
    BY <1>1, <1>3 DEF MintedStays
  <2>2. ~DelegatedOnce'
    BY <1>1, <1>2, <2>1 DEF DelegatedOnce
  <2> QED BY <2>2 DEF Except
<1>4. job[t].pend = None
  <2>1. job[t].pend # None => job[t].pend \in DOMAIN minted /\ minted[job[t].pend] = Task(t)
    BY <1>2, JobOf DEF PlanInv, InPlan, Sound
  <2> QED BY <1>3, <2>1
<1> QED BY <1>2, <1>3, <1>4 DEF Clears

LEMMA ClearWidens == \A S, T : ClearAfter(S) /\ S \subseteq T => ClearAfter(T)
  BY DEF ClearAfter

LEMMA WaitSkip == ASSUME Base, Alone, PlanInv, OneWaits, NEW t \in Thread, Skip(t), Base' PROVE OneWaits'
<1> DEFINE x == job'[t]
<1>1. /\ job[t].at = "task" /\ Mint(Task(t)) /\ Others(t) /\ ckpt' = ckpt
      /\ Leaves(x) \/ Concludes(x, job[t], "task", Became(New, "skipped"))
  BY SkipGoes
<1>2. Sound(x, DOMAIN minted') /\ MintedStays /\ Works(job[t])
  BY <1>1, StaysOnMint DEF Base, Works
<1>3. Marks' \subseteq Marks
  <2>1. x.at \notin {"parkrun", "save"}
    BY <1>1, <1>2 DEF Leaves, Concludes, Sound
  <2> QED BY <1>1, <2>1, MarksStay
<1>4. ASSUME ~Except', Clears(job[t]), \A S : Clear(S) => ClearAfter(S) PROVE ClearsAfter(x)
  <2>1. ClearAfter({})
    BY <1>1, <1>4, TaskIsClear
  <2>2. Concludes(x, job[t], "task", Became(New, "skipped")) => ClearsAfter(x)
    BY <2>1 DEF Concludes, ClearsAfter, Writes
  <2> QED BY <1>1, <1>2, <2>2, ClearsLeaves
<1> QED BY <1>1, <1>2, <1>3, <1>4, KeepsWaits DEF StepsBut

LEMMA ClearsTakes ==
  ASSUME NEW j, NEW x, NEW at \in {"run", "raised", "settle"}, NEW role \in {"step", "helper"}, NEW i,
         Takes(x, j, at, role, i), ClearAfter({i})
  PROVE  ClearsAfter(x)
  BY DEF Takes, ClearsAfter

LEMMA WaitDelegate ==
  ASSUME Base, Alone, PlanInv, OneWaits, NEW t \in Thread, Unresolved(t) \/ Delegate(t)
  PROVE  OneWaits'
<1> DEFINE x == job'[t]
<1>1. /\ Others(t) /\ ckpt' = ckpt
      /\ (job[t].at = "task" /\ Mint(Task(t))) \/ (job[t].at = "tune" /\ Mint(None))
      /\ \E at \in {"run", "raised", "settle"}, role \in {"step", "helper"} : Takes(x, job[t], at, role, New)
  BY UnresolvedGoes, DelegateGoes
<1>2. MintedStays /\ Works(job[t])
  BY <1>1, StaysOnMint DEF Works
<1>3. Marks' \subseteq Marks
  <2>1. x.at \notin {"parkrun", "save"}
    BY <1>1 DEF Takes
  <2> QED BY <1>1, <2>1, MarksStay
<1>4. ASSUME ~Except', Clears(job[t]), \A S : Clear(S) => ClearAfter(S) PROVE ClearsAfter(x)
  <2>1. Clear({})
    BY <1>1, <1>4, TaskIsClear DEF Clears
  <2>2. ClearAfter({New})
    BY <1>4, <2>1, ClearWidens
  <2> QED BY <1>1, <2>2, ClearsTakes
<1> QED BY <1>1, <1>2, <1>3, <1>4, KeepsWaits DEF StepsBut

LEMMA WaitKeep ==
  ASSUME Base, Alone, OneWaits, NEW t \in Thread, Base',
         Complete(t) \/ StepRaises(t) \/ Defer(t) \/ CloseRaised(t) \/ Close(t) \/ Settle(t)
  PROVE  OneWaits'
<1> DEFINE x == job'[t]
<1>1. /\ minted' = minted /\ ckpt' = ckpt /\ Others(t) /\ Writes(job[t])
      /\ Leaves(x) \/ \E at \in {"settle", "raised", "park", "tell"} : Keeps(x, job[t], at)
  BY KeepGoes
<1>2. Sound(x, DOMAIN minted') /\ MintedStays /\ Works(job[t])
  BY <1>1, StaysUnless DEF Base, Works, Writes
<1>3. Marks' \subseteq Marks
  <2>1. x.at \notin {"parkrun", "save"}
    BY <1>1, <1>2 DEF Leaves, Keeps, Sound
  <2> QED BY <1>1, <2>1, MarksStay
<1>4. ASSUME Clears(job[t]), \A S : Clear(S) => ClearAfter(S) PROVE ClearsAfter(x)
  <2>1. job[t].role \in {"step", "helper", "drop"} => ClearAfter({job[t].inv})
    BY <1>1, <1>4 DEF Clears
  <2>2. ASSUME NEW at \in {"settle", "raised", "park", "tell"}, Keeps(x, job[t], at) PROVE ClearsAfter(x)
    BY <2>1, <2>2 DEF Keeps, ClearsAfter
  <2> QED BY <1>1, <1>2, <2>2, ClearsLeaves
<1> QED BY <1>1, <1>2, <1>3, <1>4, KeepsWaits DEF StepsBut

LEMMA WaitTell ==
  ASSUME Base, Alone, TrailOrder, OneWaits, NEW t \in Thread, Tell(t), Base'
  PROVE  OneWaits'
<1> DEFINE x == job'[t]
           j == job[t]
           i == j.inv
<1>1. /\ minted' = minted /\ ckpt' = ckpt /\ Others(t) /\ j.at = "tell" /\ Writes(j)
      /\ \/ Leaves(x)
         \/ /\ At(trail'[i], "message") # {} /\ j.role \in {"step", "helper", "drop"}
            /\ x.at \in {"task", "tune"} /\ x.role = "step" /\ x.pend = None
  BY TellGoes DEF Concludes, Returns
<1>2. Sound(x, DOMAIN minted') /\ MintedStays /\ Works(j) /\ i \in Invocation
  BY <1>1, StaysUnless, WriterInside DEF Base, Works, Writes
<1>3. Marks' \subseteq Marks
  <2>1. x.at \notin {"parkrun", "save"}
    BY <1>1, <1>2 DEF Leaves, Sound
  <2> QED BY <1>1, <2>1, MarksStay
<1>4. ASSUME Clears(j), \A S : Clear(S) => ClearAfter(S) PROVE ClearsAfter(x)
  <2>1. ASSUME At(trail'[i], "message") # {}, j.role \in {"step", "helper", "drop"},
               x.at \in {"task", "tune"}, x.role = "step", x.pend = None
        PROVE  ClearsAfter(x)
    <3>1. ClearAfter({i})
      BY <1>1, <1>4, <2>1 DEF Clears
    <3>2. i \notin Waits'
      BY <2>1 DEF Waits
    <3>3. At(trail'[i], "settled") # {}
      <4>1. Grows(i)
        BY <1>2, PlainGrows DEF StepsBut
      <4>2. At(trail[i], "settled") \subseteq At(trail'[i], "settled")
        BY <1>2, <4>1, GrownTrail
      <4> QED BY <1>1, <4>2 DEF TrailOrder, Over
    <3>4. ClearAfter({})
      BY <3>1, <3>2, <3>3 DEF ClearAfter
    <3> QED BY <2>1, <3>4 DEF ClearsAfter, Writes
  <2> QED BY <1>1, <1>2, <2>1, ClearsLeaves
<1> QED BY <1>1, <1>2, <1>3, <1>4, KeepsWaits DEF StepsBut

LEMMA WaitLook ==
  ASSUME Base, Alone, PlanInv, OneWaits, NEW t \in Thread, Look(t), Base'
  PROVE  OneWaits'
<1> DEFINE x == job'[t]
           j == job[t]
           i == The(Open)
<1>1. /\ minted' = minted /\ trail' = trail /\ ckpt' = ckpt /\ Others(t) /\ j.at = "look"
      /\ \/ Leaves(x)
         \/ j.role = "drop" /\ Open = {} /\ x.at = "task"
         \/ One(Open) /\ Keeps(x, [j EXCEPT !.inv = i], Missing(trail[i]))
  BY LookTurns DEF Concludes
<1>2. Sound(x, DOMAIN minted') /\ MintedStays /\ Works(j) /\ Sound(j, DOMAIN minted)
  BY <1>1, StaysUnless DEF Base, Works
<1>3. ASSUME Keeps(x, [j EXCEPT !.inv = i], Missing(trail[i]))
      PROVE  x.inv = i /\ x.role = j.role /\ x.at \in {"close", "settle", "tell"}
  BY <1>3, JobOf DEF Keeps, Fields, Missing
<1>4. Marks' \subseteq Marks
  <2>1. x.at \notin {"parkrun", "save"}
    BY <1>1, <1>2, <1>3 DEF Leaves, Sound
  <2> QED BY <1>1, <2>1, MarksStay
<1>5. ASSUME Clears(j), \A S : Clear(S) => ClearAfter(S) PROVE ClearsAfter(x)
  <2>1. j.role = "drop" => j.pend \in Open /\ ClearAfter({j.pend})
    <3>1. j.role = "drop" => Clear({j.pend}) /\ IsOpen(trail[j.pend])
      BY <1>1, <1>5 DEF Clears
    <3>2. ASSUME j.role = "drop" PROVE j.pend \in Invocation
      <4>1. j.pend # None
        BY <1>1, <3>2 DEF PlanInv, InPlan
      <4> QED BY <4>1, <1>2, Handles DEF Sound
    <3> QED BY <1>5, <3>1, <3>2 DEF Open
  <2>2. ASSUME One(Open), Keeps(x, [j EXCEPT !.inv = i], Missing(trail[i])) PROVE ClearsAfter(x)
    <3>1. j.role = "drop" => ClearAfter({x.inv})
      BY <1>3, <2>1, <2>2, OpenOnes
    <3>2. j.role \in {"drop", "giveup", "cancel", "fail"}
      BY <1>1, <1>2 DEF Sound
    <3> QED BY <1>3, <2>2, <3>1, <3>2 DEF ClearsAfter
  <2> QED BY <1>1, <1>2, <2>1, <2>2, ClearsLeaves
<1> QED BY <1>1, <1>2, <1>4, <1>5, KeepsWaits DEF StepsBut

\* If all that waits or is carried is one invocation, it is the only one.
LEMMA ClearIsClean == ASSUME NEW i, ClearAfter({i}) PROVE Clean'
<1>1. \A p \in Marks' : At(trail'[Mark(p)], "settled") # {} \/ ClearAfter({Mark(p)})
  BY DEF ClearAfter
<1>2. \A k, m \in Waits' : k = m
  BY DEF ClearAfter
<1> QED BY <1>1, <1>2 DEF Clean, Over, Clear, ClearAfter, Mark

LEMMA OverGrows ==
  ASSUME Base, \A i \in Invocation : Grows(i), NEW p \in Marks, Over(Mark(p))
  PROVE  At(trail'[Mark(p)], "settled") # {}
<1>1. Mark(p) \in Invocation
  BY MarkHandles
<1>2. At(trail[Mark(p)], "settled") \subseteq At(trail'[Mark(p)], "settled")
  BY <1>1, GrownTrail
<1> QED BY <1>2 DEF Over

LEMMA WaitCarry ==
  ASSUME Base, Alone, TrailOrder, OneWaits, NEW t \in Thread, Carry(t), Base'
  PROVE  OneWaits'
<1> DEFINE x == job'[t]
           j == job[t]
           i == j.pend
<1>1. /\ UNCHANGED <<trail, minted, ckpt, hurt>> /\ Others(t) /\ j.at = "task" /\ i \in Invocation /\ i # None
      /\ \/ Leaves(x)
         \/ /\ Readiness(i) = "ready"
            /\ Takes(x, j, "run", "step", i) \/ (Takes(x, j, "look", "drop", x.inv) /\ x.pend = i)
         \/ Readiness(i) = "waiting" /\ ParksOn(x, j, i)
  BY CarryGoes, Handles
<1>2. Sound(x, DOMAIN minted') /\ MintedStays /\ Works(j)
  BY <1>1, StaysUnless DEF Base, Works
<1>3. Readiness(i) \in {"ready", "waiting"} => ~Over(i) /\ IsOpen(trail[i])
  BY <1>1, ReadyNotOver
<1>4. CASE ~ParksOn(x, j, i)
  <2>1. Marks' \subseteq Marks
    <3>1. x.at \notin {"parkrun", "save"}
      BY <1>1, <1>2, <1>4 DEF Leaves, Takes, Sound
    <3> QED BY <1>1, <3>1, MarksStay
  <2>2. ASSUME Clears(j), \A S : Clear(S) => ClearAfter(S) PROVE ClearsAfter(x)
    <3>1. Readiness(i) = "ready" => ClearAfter({i})
      BY <1>1, <1>3, <2>2 DEF Clears
    <3>2. Readiness(i) = "ready" /\ Takes(x, j, "run", "step", i) => ClearsAfter(x)
      BY <3>1, ClearsTakes
    <3>3. Readiness(i) = "ready" /\ Takes(x, j, "look", "drop", x.inv) /\ x.pend = i => ClearsAfter(x)
      BY <1>1, <1>3, <3>1 DEF Takes, ClearsAfter, Writes
    <3> QED BY <1>1, <1>2, <1>4, <3>2, <3>3, ClearsLeaves
  <2> QED BY <1>1, <1>2, <2>1, <2>2, KeepsWaits DEF StepsBut
<1>5. CASE ParksOn(x, j, i)
  <2>1. ~Over(i)
    <3>1. (~Leaves(x) /\ ~Takes(x, j, "run", "step", i) /\ ~Takes(x, j, "look", "drop", x.inv)) \/ ~Over(i)
      BY <1>3, <1>5, <1>2 DEF ParksOn, Leaves, Takes, Sound
    <3> QED BY <1>1, <1>3, <3>1
  <2>2. (\A k \in Invocation : Grows(k)) /\ Waits' = Waits /\ (Except => Except')
    <3>1. \A k \in Invocation : Grows(k)
      BY PlainGrows DEF StepsBut
    <3>2. Waits' = Waits
      BY <1>1 DEF Waits, Whole
    <3> QED BY <1>2, <3>1, <3>2, ExceptStays
  <2>3. CASE Except
    BY <2>2, <2>3 DEF OneWaits
  <2>4. CASE ~Except
    <3>1. Clear({i})
      BY <1>1, <2>1, <2>4 DEF OneWaits, Clears
    <3>2. Marks' \subseteq Marks \cup {x.done} /\ Mark(x.done) = i
      BY <1>1, <1>5, MarksAdd DEF ParksOn, Mark
    <3>3. ClearAfter({i})
      BY <2>2, <3>1, <3>2, OverGrows DEF Clear, ClearAfter
    <3>4. ClearsAfter(x)
      BY <1>5 DEF ParksOn, ClearsAfter, Writes
    <3> QED BY <1>1, <1>2, <3>3, <3>4, ClearIsClean, OneWaitsStep, OthersIdle
  <2> QED BY <2>3, <2>4
<1> QED BY <1>4, <1>5

LEMMA WaitPark ==
  ASSUME Base, Alone, PlanInv, OneWaits, NEW t \in Thread, Park(t)
  PROVE  OneWaits'
<1> DEFINE x == job'[t]
           j == job[t]
           i == j.inv
<1>1. /\ UNCHANGED <<minted, ckpt>> /\ Others(t) /\ j.at = "park" /\ Writes(j) /\ j.role \in {"step", "helper"}
      /\ \/ Keeps(x, j, "raised")
         \/ j.role = "helper" /\ At(trail'[i], "parked") # {}
         \/ ParksOn(x, j, i)
  BY ParkGoes
<1>2. MintedStays /\ Works(j) /\ i \in DOMAIN minted /\ (\A k \in Invocation : Grows(k)) /\ (Except => Except')
  <2>1. MintedStays /\ Works(j) /\ i \in DOMAIN minted /\ (\A k \in Invocation : Grows(k))
    BY <1>1, StaysUnless, ParkGrows, JobOf DEF Works, Sound
  <2> QED BY <2>1, ExceptStays
<1>3. CASE Except
  BY <1>2, <1>3 DEF OneWaits
<1>4. CASE j.role = "helper" /\ At(trail'[i], "parked") # {}
  <2>1. minted[i] = None
    BY <1>1, <1>4 DEF PlanInv, InPlan
  <2>2. i \in DOMAIN minted' /\ minted'[i] = None
    BY <1>1, <1>2, <2>1
  <2> QED BY <1>4, <2>2 DEF OneWaits, Except, HelperParked, HasParked
<1>5. CASE ~Except /\ (Keeps(x, j, "raised") \/ ParksOn(x, j, i))
  <2>1. Clear({i})
    BY <1>1, <1>5 DEF OneWaits, Clears
  <2>2. Waits' \subseteq {i}
    BY <2>1, ParkAdds DEF Clear
  <2>3. ASSUME NEW p \in Marks' PROVE p \in Marks \/ Mark(p) = i
    <3>1. CASE Keeps(x, j, "raised")
      BY <1>1, <3>1, MarksStay DEF Keeps
    <3>2. CASE ParksOn(x, j, i)
      BY <1>1, <3>2, MarksAdd DEF ParksOn, Mark
    <3> QED BY <1>5, <3>1, <3>2
  <2>4. ClearAfter({i})
    BY <1>2, <2>1, <2>2, <2>3, OverGrows DEF Clear, ClearAfter
  <2>5. ClearsAfter(x)
    BY <1>5, <2>4 DEF Keeps, ParksOn, ClearsAfter, Writes
  <2> QED BY <1>1, <1>2, <2>4, <2>5, ClearIsClean, OneWaitsStep, OthersIdle
<1> QED BY <1>1, <1>3, <1>4, <1>5

LEMMA ClearsStay ==
  ASSUME UNCHANGED <<trail, minted>>, \A S : Clear(S) => ClearAfter(S), NEW j, Clears(j)
  PROVE  ClearsAfter(j)
  BY DEF Clears, ClearsAfter, Over

LEMMA WaitSave ==
  ASSUME Base, Alone, OneWaits, NEW t \in Thread, SaveCheckpoint(t)
  PROVE  OneWaits'
<1>1. UNCHANGED <<trail, minted, hurt>> /\ Others(t) /\ job[t].at = "save" /\ job'[t] = Free /\ ckpt' = job[t].done
  BY SaveGoes
<1>2. /\ \A i \in Invocation : Grows(i)
      /\ Waits' \subseteq Waits /\ Marks' \subseteq Marks /\ (Except => Except')
  <2>1. \A i \in Invocation : Grows(i)
    BY PlainGrows DEF StepsBut
  <2>2. Waits' \subseteq Waits
    BY <1>1 DEF Waits, Whole
  <2>3. Marks' \subseteq Marks
    BY <1>1, FieldsOfFree, MarksStay
  <2> QED BY <1>1, <2>1, <2>2, <2>3, StaysUnless, ExceptStays
<1>3. (\A S : Clear(S) => ClearAfter(S)) /\ (Clean => Clean')
  BY <1>2, ClearStays
<1>4. CASE Except
  BY <1>2, <1>4 DEF OneWaits
<1>5. CASE ~Except
  <2>1. ASSUME NEW u \in Thread PROVE ClearsAfter(job'[u])
    <3>1. CASE u = t
      BY <1>1, <3>1, FieldsOfFree DEF ClearsAfter, Writes
    <3>2. CASE u # t
      <4>1. Clears(job[u])
        BY <1>5 DEF OneWaits
      <4>2. ClearsAfter(job[u])
        BY <1>1, <1>3, <4>1, ClearsStay
      <4> QED BY <1>1, <3>2, <4>2 DEF Others
    <3> QED BY <3>1, <3>2
  <2>2. \A u \in Thread : Clears(job[u])'
    BY <2>1 DEF Clears, ClearsAfter, Clear, ClearAfter, Over, Mark
  <2> QED BY <1>3, <1>5, <2>2 DEF OneWaits
<1> QED BY <1>4, <1>5

LEMMA WaitQuiet ==
  ASSUME Patient, Base, Alone, OneWaits, NEW t \in Thread, Base',
         PlanDone(t) \/ Check(t) \/ End(t) \/ CancelRun(t) \/ ParkRun(t)
  PROVE  OneWaits'
<1> DEFINE x == job'[t]
<1>1. /\ minted' = minted /\ ckpt' = ckpt /\ Others(t)
      /\ Leaves(x) \/ (job[t].at = "parkrun" /\ x.at = "save" /\ x.done = job[t].done)
  BY QuietGoes, ParkRunGoes
<1>2. Sound(x, DOMAIN minted') /\ MintedStays
  BY <1>1, StaysUnless DEF Base
<1>3. Works(job[t]) \/ \A u \in Thread : ~Works(job[u])
  <2>1. CASE CancelRun(t)
    BY <2>1, BeginsAlone
  <2>2. CASE PlanDone(t) \/ Check(t) \/ End(t) \/ ParkRun(t)
    BY <2>2 DEF PlanDone, Check, End, ParkRun, Is, Works
  <2> QED BY <2>1, <2>2
<1>4. Marks' \subseteq Marks
  <2>1. x.at \in {"parkrun", "save"} => job[t].at = "parkrun" /\ x.done = job[t].done
    BY <1>1, <1>2 DEF Leaves, Sound
  <2> QED BY <1>1, <2>1, MarksStay
<1>5. ClearsAfter(x)
  <2>1. x.at = "save" => ClearsAfter(x)
    BY DEF ClearsAfter, Writes
  <2> QED BY <1>1, <1>2, <2>1, ClearsLeaves
<1> QED BY <1>1, <1>2, <1>3, <1>4, <1>5, KeepsWaits DEF StepsBut

----------------------------------------------------------------------------
(* The theorems. *)

LEMMA ClearsStarts ==
  ASSUME Base, NEW p, Carries(p, DOMAIN minted), Marked(p, minted'),
         p = <<>> => ClearAfter({}) \/ \E k \in DOMAIN minted' : minted'[k] = 1,
         p # <<>> => ClearAfter({Mark(p)}) \/ At(trail'[Mark(p)], "settled") # {}
  PROVE  ClearsAfter(PassFrom(p))
<1> DEFINE x == PassFrom(p)
<1>1. /\ x.at = "task" /\ x.role = "step" /\ x.done = Decided(p) /\ x.pend = Carried(p)
      /\ Carried(p) = None => Decided(p) = p
      /\ Carried(p) # None => p # <<>> /\ Carried(p) = p[Len(p)].inv
      /\ p # <<>> /\ p[Len(p)].status = "pending" => Carried(p) # None
  BY PassStarts, Handles
<1>2. CASE p = <<>>
  <2>1. x.pend = None /\ x.done = <<>> /\ Len(x.done) + 1 = 1
    BY <1>1, <1>2, NoElement
  <2> QED BY <1>1, <1>2, <2>1 DEF ClearsAfter, Writes
<1>3. CASE p # <<>>
  <2>1. x.pend # None /\ x.pend = Mark(p)
    BY <1>1, <1>3 DEF Marked, Mark
  <2> QED BY <1>1, <1>3, <2>1 DEF ClearsAfter, Writes
<1> QED BY <1>2, <1>3

\* Before anything is given out, nothing waits.
LEMMA NothingWaits ==
  ASSUME Base, minted = <<>> PROVE Clear({})
<1>1. DOMAIN minted = {}
  BY NoElement
<1>2. Waits = {}
  <2>1. ASSUME NEW i \in Waits PROVE FALSE
    <3>1. i \in Invocation /\ At(trail[i], "parked") # {}
      BY <2>1 DEF Waits, Whole, HasParked
    <3>2. trail[i] = <<>>
      BY <1>1, <3>1 DEF Base
    <3> QED BY <3>1, <3>2, NoElement DEF At
  <2> QED BY <2>1
<1>3. Marks = {}
  BY <1>1, MarkHandles
<1> QED BY <1>2, <1>3 DEF Clear

LEMMA WaitBegins ==
  ASSUME Patient, Base, Alone, PlanInv, OneWaits, NEW t \in Thread, StartRun(t) \/ ResumeRun(t), Base'
  PROVE  OneWaits'
<1> DEFINE x == job'[t]
<1>1. /\ UNCHANGED <<trail, minted, ckpt, hurt>> /\ Others(t)
      /\ (life = "new" /\ x = PassFrom(<<>>)) \/ x = PassFrom(ckpt)
  BY BeginGoes
<1>2. MintedStays /\ \A u \in Thread : ~Works(job[u])
  BY <1>1, StaysUnless, BeginsAlone
<1>3. Marks' \subseteq Marks
  <2>1. \A p : PassFrom(p).at = "task"
    BY FieldsOfFree DEF PassFrom, Fields
  <2> QED BY <1>1, <2>1, MarksStay
<1>4. ASSUME Clean, \A S : Clear(S) => ClearAfter(S) PROVE ClearsAfter(x)
  <2>1. minted = <<>> => ClearAfter({})
    BY <1>4, NothingWaits
  <2>2. CASE life = "new" /\ x = PassFrom(<<>>)
    <3>1. minted = <<>>
      BY <2>2 DEF Alone
    <3>2. Carries(<<>>, DOMAIN minted) /\ Marked(<<>>, minted')
      BY NoElement DEF Carries, Marked
    <3> QED BY <2>1, <2>2, <3>1, <3>2, ClearsStarts
  <2>3. CASE x = PassFrom(ckpt)
    <3>1. Carries(ckpt, DOMAIN minted) /\ Marked(ckpt, minted')
      BY <1>1 DEF Base, PlanInv
    <3>2. ClearAfter({}) \/ \E k \in DOMAIN minted' : minted'[k] = 1
      BY <1>1, <2>1 DEF PlanInv
    <3>3. ckpt # <<>> => ClearAfter({Mark(ckpt)}) \/ At(trail'[Mark(ckpt)], "settled") # {}
      <4>1. ckpt # <<>> => ckpt \in Marks
        BY IsMark
      <4> QED BY <1>1, <1>4, <4>1 DEF Clean, Over
    <3> QED BY <2>3, <3>1, <3>2, <3>3, ClearsStarts
  <2> QED BY <1>1, <2>2, <2>3
<1> QED BY <1>1, <1>2, <1>3, <1>4, KeepsWaits DEF StepsBut

LEMMA WaitDie == ASSUME Base, OneWaits, Die PROVE OneWaits'
<1>1. /\ UNCHANGED <<trail, minted, ckpt>> /\ hurt \subseteq hurt' /\ \A t \in Thread : job'[t] = Free
  BY DEF Die, records, run, Hurt
<1>2. /\ \A i \in Invocation : Grows(i)
      /\ Waits' \subseteq Waits /\ Marks' \subseteq Marks /\ (Except => Except')
  <2>1. \A i \in Invocation : Grows(i)
    BY <1>1 DEF Grows
  <2>2. Waits' \subseteq Waits
    BY <1>1 DEF Waits, Whole
  <2>3. ASSUME NEW p \in Marks' PROVE p \in Marks
    BY <1>1, <2>3, IsMark, IsMarkAfter, FieldsOfFree
  <2> QED BY <1>1, <2>1, <2>2, <2>3, StaysUnless, ExceptStays
<1>3. Clean => Clean'
  BY <1>2, ClearStays
<1>4. \A t \in Thread : Clears(job[t])'
  BY <1>1, FieldsOfFree DEF Clears, Writes
<1> QED BY <1>2, <1>3, <1>4 DEF OneWaits

LEMMA WaitStill ==
  ASSUME OneWaits, UNCHANGED <<trail, minted, ckpt, job, hurt>> PROVE OneWaits'
<1>1. Waits' = Waits /\ Marks' = Marks
  BY DEF Waits, Marks, Whole
<1>2. Except' = Except
  BY DEF Except, HelperParked, DelegatedOnce
<1>3. Clean => Clean'
  BY <1>1 DEF Clean, Clear, Over, Mark
<1>4. \A t \in Thread : Clears(job[t]) => Clears(job[t])'
  BY <1>1 DEF Clears, Clear, Over, Mark
<1> QED BY <1>2, <1>3, <1>4 DEF OneWaits

LEMMA WaitNext ==
  ASSUME Patient, Base, Alone, TrailOrder, PlanInv, OneWaits, [Next]_vars PROVE OneWaits'
<1>0. Base'
  BY BaseNext
<1>1. CASE Answer \/ UNCHANGED vars
  BY <1>1, WaitStill DEF Answer, vars, records, NoFault
<1> QED BY <1>0, <1>1, WaitDie, WaitSkip, WaitDelegate, WaitCarry, WaitKeep, WaitPark, WaitTell, WaitLook,
        WaitSave, WaitQuiet, WaitBegins DEF Next, Pass

LEMMA WaitInit == Init => OneWaits
<1> SUFFICES ASSUME Init PROVE OneWaits
  OBVIOUS
<1>1. (\A t \in Thread : job[t] = Free) /\ ckpt = <<>> /\ \A i \in Invocation : trail[i] = <<>>
  BY DEF Init
<1>2. Marks = {}
  BY <1>1, FieldsOfFree, IsMark
<1>3. Waits = {}
  BY <1>1, NoElement DEF Waits, Whole, HasParked, At
<1>4. \A t \in Thread : Clears(job[t])
  BY <1>1, FieldsOfFree DEF Clears, Writes
<1> QED BY <1>2, <1>3, <1>4 DEF OneWaits, Clean

\* What no fault touched and is open rests, and is the one that waits.
LEMMA WaitsIsFound ==
  ASSUME Base, Alone, Shape, OneWaits PROVE NoParkIsLost
<1>1. ASSUME Idle, NEW i \in Open \cap Whole
      PROVE  Repairable(trail[i]) /\ i \in Waits
  <2>1. i \in Whole /\ i \in Invocation /\ IsOpen(trail[i]) /\ IsSeq(trail[i])
    BY <1>1 DEF Open, Base
  <2>2. Rest(trail[i])
    BY <1>1, <2>1 DEF Shape, Idle, Is, Writes
  <2>3. Repairable(trail[i])
    BY <2>1, <2>2, OpenRests
  <2>4. PICK k \in Nat, r \in StopReason : Layout(trail[i], k, 0, 0, r) /\ k >= 2
    BY <2>1, <2>2, OpenRests
  <2>5. At(trail[i], "message") = {}
    BY <2>1, <2>4, LayoutRecords, Inside DEF IsSeq
  <2> QED BY <2>1, <2>3, <2>5 DEF Waits, IsOpen
<1>2. ASSUME Idle, ~Except  PROVE Cardinality(Open \cap Whole) <= 1
  <2>1. \A i, k \in Open \cap Whole : i = k
    BY <1>1, <1>2 DEF OneWaits, Clean
  <2>2. (Open \cap Whole) = {} \/ \E i : (Open \cap Whole) = {i}
    BY <2>1
  <2>3. \A i : Cardinality({i}) = 1
    BY OneOf
  <2>4. Cardinality({}) = 0
    BY NoneOf
  <2>5. Cardinality(Open \cap Whole) \in {0, 1}
    BY <2>2, <2>3, <2>4
  <2> QED BY <2>5
<1>3. life = "ended" => Open = {}
  BY DEF Alone
<1> QED BY <1>1, <1>2, <1>3 DEF NoParkIsLost, Except

\* Delegator, runtime and finalizer keep the invariant, whatever is delegated, parked, resumed,
\* cancelled or cut, if a cancellation and a pass wait for each other.
THEOREM LifecycleInv == ASSUME Patient PROVE Spec => []Lifecycle
<1>1. Init => Lifecycle
  BY BaseInit, AloneInit, ShapeInit, OrderInit, PlanInit, WaitInit DEF Lifecycle
<1>2. Lifecycle /\ [Next]_vars => Lifecycle'
  BY BaseNext, AloneNext, ShapeNext, OrderNext, PlanNext, WaitNext DEF Lifecycle
<1> QED BY <1>1, <1>2, PTL DEF Spec

\* Delegator.delegate and the finalizer write at most one completion, one settlement and one
\* message of each delegation that no fault touched, whoever ends it.
THEOREM SettledOnceAlways == ASSUME Patient PROVE Spec => []SettledOnce
<1>1. Lifecycle => SettledOnce
  BY ShapeSettlesOnce DEF Lifecycle
<1> QED BY <1>1, LifecycleInv, PTL

\* What the producers wrote of each delegation, control A31 accepts: in flight when a pass ends,
\* finally when the Run has.
THEOREM AuditAcceptsAlways == ASSUME Patient PROVE Spec => []AuditAccepts
<1>1. Lifecycle => AuditAccepts
  BY ShapeIsAccepted DEF Lifecycle
<1> QED BY <1>1, LifecycleInv, PTL

\* No Run ends with a park open; what is open when nobody works can be closed, and there is at
\* most one of it, but for helpers that parked and tasks delegated twice.
THEOREM NoParkIsLostAlways == ASSUME Patient PROVE Spec => []NoParkIsLost
<1>1. Lifecycle => NoParkIsLost
  BY WaitsIsFound DEF Lifecycle
<1> QED BY <1>1, LifecycleInv, PTL
=============================================================================
