------------------------------ MODULE WorkBoard ------------------------------
(***************************************************************************)
(* The durable work record of the local lifecycle repository and what its  *)
(* five operations do to it (_lifecycle_work.py).                          *)
(*                                                                         *)
(* A claim is named by its attempt number: claim_work writes claim_owner   *)
(* and a fresh claim_token together with attempt + 1, so two claims of one *)
(* item never agree on the attempt and the code's comparison of owner,     *)
(* attempt and token is the comparison of attempts.                        *)
(***************************************************************************)
EXTENDS Integers

CONSTANT ClaimTTL        \* WorkBoard._CLAIM_TTL, in clock ticks

ASSUME ClaimTTLAssumption == ClaimTTL \in Nat \ {0}

WorkState     == {"absent", "pending", "claimed", "settled"}
DispatchState == {"never", "dispatched", "confirmed", "unknown"}
OutcomeKind   == {"succeeded", "failed", "cancelled", "unknown"}

WorkItem == [state : WorkState, dispatch : DispatchState, attempt : Nat,
             expires : Nat, result : OutcomeKind \cup {"none"}]

\* An item nobody wrote yet, and the one _publish_work writes.
NoItem  == [state |-> "absent", dispatch |-> "never", attempt |-> 0,
            expires |-> 0, result |-> "none"]
NewItem == [NoItem EXCEPT !.state = "pending"]

Expired(item, now) == item.state = "claimed" /\ item.expires <= now

\* Seeded bugs, used by no action: a claim that ignores the dispatch record, one
\* that refuses only live claims.
ClaimableThoughDispatched(item, now) == item.state = "pending" \/ Expired(item, now)
ClaimableThoughSettled(item, now) ==
    item.state = "settled" \/ item.state = "pending"
        \/ (Expired(item, now) /\ item.dispatch = "never")

\* claim_work hands out a pending item, or one whose claim ran out before
\* anything was dispatched; an expired dispatched claim is refused.
Claimable(item, now) ==
    \/ item.state = "pending"
    \/ Expired(item, now) /\ item.dispatch = "never"

Claimed(item, now) ==
    [item EXCEPT !.state = "claimed", !.attempt = @ + 1, !.expires = now + ClaimTTL]

\* _claimed_item with allow_expired, and without.
HoldsClaim(item, att)        == item.state = "claimed" /\ item.attempt = att
CurrentClaim(item, att, now) == HoldsClaim(item, att) /\ item.expires > now

Dispatched(item) == [item EXCEPT !.dispatch = "dispatched"]

Settled(item, kind, dispatch) ==
    [item EXCEPT !.state = "settled", !.expires = 0,
                 !.dispatch = dispatch, !.result = kind]

\* recover_expired: nothing is known of a dispatched effect; an undispatched
\* claim is handed back.
Recovered(item) ==
    IF item.dispatch = "never"
    THEN [item EXCEPT !.state = "pending", !.expires = 0]
    ELSE Settled(item, "unknown", "unknown")
=============================================================================
