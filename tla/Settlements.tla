---------------------------- MODULE Settlements ----------------------------
(* What the log says of one delegated invocation, and how two programs read it: the *)
(* finalizer that closes a parked step before its Run ends, and MIRA's control A31. *)
(* A trail is the sequence of the invocation's records: those with its delegation    *)
(* key. Digests and identity fields always match in a trail the Run wrote itself.    *)
EXTENDS Naturals, Sequences, FiniteSets

StopReason == {"completed", "stopped", "out-of-room", "failed", "abnormal"}

\* A park carries the number of its review, every other record its reason.
Started      == [type |-> "started"]
Parked(d)    == [type |-> "parked", review |-> d]
Completed(r) == [type |-> "completed", reason |-> r]
Settled(r)   == [type |-> "settled", reason |-> r]
Message(r)   == [type |-> "message", reason |-> r]

At(trail, type) == {n \in DOMAIN trail : trail[n].type = type}
After(trail, n, type) == {k \in At(trail, type) : k > n}
The(S) == CHOOSE n \in S : TRUE
One(S) == Cardinality(S) = 1
Last(S) == CHOOSE n \in S : \A k \in S : k <= n
First(S) == CHOOSE n \in S : \A k \in S : n <= k

-----------------------------------------------------------------------------
(* The finalizer. *)

HasParked(trail) == At(trail, "parked") # {}
LastPark(trail) == Last(At(trail, "parked"))
Ends(trail) == After(trail, LastPark(trail), "completed")
LateSettlements(trail) == After(trail, LastPark(trail), "settled")
LateMessages(trail) == After(trail, LastPark(trail), "message")

\* _parked_prefix_closed
PrefixClosed(trail) ==
    /\ One({k \in At(trail, "started") : k < LastPark(trail)})
    /\ One(Ends(trail))
    /\ LET settlements == After(trail, The(Ends(trail)), "settled") IN
         /\ One(settlements)
         /\ trail[The(settlements)].reason = trail[The(Ends(trail))].reason
         /\ LET messages == After(trail, The(settlements), "message") IN
              /\ One(messages)
              /\ trail[The(messages)].reason = trail[The(settlements)].reason

IsOpen(trail) == HasParked(trail) /\ ~PrefixClosed(trail)

\* The reasons a finalizer writes, and accepts of a completion it finds.
FinalReason == {"stopped", "abnormal", "failed"}

\* finalize_parked_invocation: what it asks of an open trail before it writes.
Repairable(trail) ==
    LET ends == Ends(trail)
        settlements == LateSettlements(trail)
        messages == LateMessages(trail) IN
    /\ One({k \in At(trail, "started") : k < LastPark(trail)})
    /\ Cardinality(ends) <= 1
    /\ Cardinality(settlements) <= 1
    /\ Cardinality(messages) <= 1
    /\ \A e \in ends : trail[e].reason \in FinalReason
    /\ messages # {} => settlements # {}
    /\ settlements # {} => ends # {}
    /\ \A e \in ends, s \in settlements : e < s /\ trail[s].reason = trail[e].reason
    /\ \A s \in settlements, m \in messages : s < m

\* The reason an open trail is closed with: that of a completion it already has.
ReasonFor(trail, wanted) ==
    IF Ends(trail) = {} THEN wanted ELSE trail[The(Ends(trail))].reason

\* The first record that is missing; those after it are missing too.
Missing(trail) == IF Ends(trail) = {} THEN "close"
                  ELSE IF LateSettlements(trail) = {} THEN "settle" ELSE "tell"

-----------------------------------------------------------------------------
(* MIRA's control A31. *)

ExactlyOneSettlement(trail, final) ==
    /\ \A type \in {"started", "completed", "settled"} : Cardinality(At(trail, type)) <= 1
    /\ At(trail, "settled") = {} =>
         /\ At(trail, "completed") = {}
         /\ final => At(trail, "started") = {}

\* The lifecycle that a settlement with reason r must show: a stopped or abnormal one may
\* lack its completion, or all of it.
WritersAgree(trail) ==
    LET starts == At(trail, "started")
        ends == At(trail, "completed") IN
    \A s \in At(trail, "settled") :
        /\ trail[s].reason \notin {"stopped", "abnormal"} => starts # {} /\ ends # {}
        /\ ends # {} => starts # {}
        /\ starts # {} => First(starts) < s
        /\ starts # {} /\ ends # {} =>
             /\ First(starts) < First(ends)
             /\ First(ends) < s
             /\ trail[First(ends)].reason = trail[s].reason

\* Every message renders the latest settlement before it.
ParentActedOnCanonical(trail) ==
    \A m \in At(trail, "message") :
        LET candidates == {s \in At(trail, "settled") : s < m} IN
        /\ candidates # {}
        /\ trail[Last(candidates)].reason = trail[m].reason

PassesA31(trail, final) ==
    /\ ExactlyOneSettlement(trail, final)
    /\ WritersAgree(trail)
    /\ ParentActedOnCanonical(trail)
=============================================================================
