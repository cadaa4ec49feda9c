---------------------------- MODULE PublishedRuns ----------------------------
(***************************************************************************)
(* Publication of Runs in database transactions: a Run is staged in        *)
(* private and then becomes visible in one step with everything that must  *)
(* accompany it.  This is how the PostgreSQL repository publishes, and     *)
(* what the file repository, in module Publication, has to look like.      *)
(***************************************************************************)
CONSTANTS Run, Session, None

VARIABLES staged,    \* staged[r]: the session in the lifecycle_publications row of r, or None
          published, \* those whose row says committed and session_linked
          born,      \* Runs with their creation event
          links,     \* links[s]: the Runs that session s names
          queue      \* Runs whose first work item is in the outbox

vars == <<staged, published, born, links, queue>>

Init == /\ staged = [r \in Run |-> None]
        /\ published = {} /\ born = {} /\ queue = {}
        /\ links = [s \in Session |-> {}]

Prepare(r) == /\ staged[r] = None
              /\ \E s \in Session : staged' = [staged EXCEPT ![r] = s]
              /\ UNCHANGED <<published, born, links, queue>>

Commit(r) == /\ staged[r] # None /\ r \notin published
             /\ published' = published \cup {r}
             /\ born' = born \cup {r}
             /\ links' = [links EXCEPT ![staged[r]] = @ \cup {r}]
             /\ queue' = queue \cup {r}
             /\ UNCHANGED staged

Next == \E r \in Run : Prepare(r) \/ Commit(r)

Spec == Init /\ [][Next]_vars
=============================================================================
