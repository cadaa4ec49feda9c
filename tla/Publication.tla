---------------------------- MODULE Publication ----------------------------
(***************************************************************************)
(* How LocalLifecycleRepository publishes a Run with files and locks, and  *)
(* how RunService dispatches it.  Clients stage a private manifest and     *)
(* commit it in a fixed order of durable writes; a client that repeats a   *)
(* request under the same idempotency key adopts the manifest it finds;    *)
(* recovery adopts manifests that no client finished; a worker owns a      *)
(* published Run while it executes it.                                     *)
(*                                                                         *)
(* A step is what happens between two durable writes or lock operations.   *)
(* Between any two, a write may fail or the process may die.  Every client *)
(* stages at most one manifest, so a Run is named by the client whose      *)
(* request it is.                                                          *)
(***************************************************************************)
EXTENDS Integers, FiniteSets

CONSTANTS Client,    \* calls of create_run_published, retries included
          Recoverer, \* calls of recover_publications, one manifest at a time
          Worker,    \* the process that executes published Runs
          Session, Key, None,
          MaxEpoch   \* how often a Run may be owned (a bound)

Run  == Client
Proc == Client \cup Recoverer

ASSUME ProcAssumption == /\ Client \cap Recoverer = {} /\ Worker \notin Proc
                         /\ None \notin Proc \cup Key \cup Session \cup {Worker}
ASSUME EpochAssumption == MaxEpoch \in Nat

\* What a client asks: its idempotency key, if any, and the session, which
\* stands for the rest of the request.
Request == [key : Key \cup {None}, session : Session]

VARIABLES ask,      \* ask[c]: the request of client c, copied into its manifest
          manifest, \* manifest[r]: the publication record of r
          chain,    \* chain[r]: the directory of r and its creation event
          links,    \* links[s]: the run_ids in the record of session s
          work,     \* work[r]: the first work item of r and its outbox row
          life,     \* life[r]: the state that the transitions of r add up to
          epoch,    \* epoch[r]: the owner record of r, with who is in it
          active,   \* active[r]: the owner record of r is active
          keyLock, sessionLock, runLock, \* holders of the OS locks
          pc, target, held, copy, \* where p is, its Run, the epoch of its handle, a session it read
          outcome,  \* outcome[p]: how the call of p ended
          cut       \* history: Runs whose creation was cut between its two writes

files == <<manifest, chain, links, work, life, epoch, active>>
locks == <<keyLock, sessionLock, runLock>>
local == <<pc, target, held, copy, outcome>>
vars  == <<ask, files, locks, local, cut>>

Init == /\ ask \in [Client -> Request]
        /\ manifest = [r \in Run |-> "absent"] /\ chain = [r \in Run |-> "absent"]
        /\ links = [s \in Session |-> {}]
        /\ work = [r \in Run |-> "absent"] /\ life = [r \in Run |-> "created"]
        /\ epoch = [r \in Run |-> 0] /\ active = [r \in Run |-> FALSE]
        /\ keyLock = [k \in Key |-> None]
        /\ sessionLock = [s \in Session |-> None]
        /\ runLock = [r \in Run |-> None]
        /\ pc = [p \in Proc |-> "idle"] /\ target = [p \in Proc |-> None]
        /\ held = [p \in Proc |-> 0] /\ copy = [p \in Proc |-> {}]
        /\ outcome = [p \in Proc |-> "none"] /\ cut = {}

----------------------------------------------------------------------------
(* Steps of a call. *)

Staged(r)    == manifest[r] # "absent"
Committed(r) == manifest[r] = "committed"
Visible(r)   == Committed(r) /\ r \in links[ask[r].session]

\* p goes from step `from` to step `to`.
Move(p, from, to) == pc[p] = from /\ pc' = [pc EXCEPT ![p] = to]

\* The call of p ends: with a receipt for a Run, or with an error or a death.
\* A recoverer goes on with another manifest.
EndWith(p, o) == LET kept == o = "receipt" /\ p \in Client IN
    /\ pc' = [pc EXCEPT ![p] = IF p \in Client THEN "done" ELSE "idle"]
    /\ outcome' = [outcome EXCEPT ![p] = IF kept THEN "receipt" ELSE "none"]
    /\ target' = [target EXCEPT ![p] = IF kept THEN @ ELSE None]
    /\ copy' = [copy EXCEPT ![p] = {}]
Finish(p, from, o) == pc[p] = from /\ EndWith(p, o)

\* What the manifests say about the key of client c.
Bound(c)    == {r \in Run : Staged(r) /\ ask[r].key = ask[c].key}
Conflict(c) == \E r \in Bound(c) : ask[r].session # ask[c].session

(* prepare_publication: stage a manifest, or adopt the one under the key. *)

\* A request without a key stages at once: its publication id is new.
StageUnkeyed(c) == /\ ask[c].key = None
                   /\ Move(c, "idle", "session")
                   /\ manifest' = [manifest EXCEPT ![c] = "prepared"]
                   /\ target' = [target EXCEPT ![c] = c]
                   /\ UNCHANGED <<ask, chain, links, work, life, epoch, active, locks, held,
                                  copy, outcome, cut>>

\* Seeded bug, used by no action: the key lock is taken from its holder.
SeizeKey(c) == /\ ask[c].key # None
               /\ Move(c, "idle", "find") \/ Move(c, "again", "stage")
               /\ keyLock' = [keyLock EXCEPT ![ask[c].key] = c]
               /\ UNCHANGED <<ask, files, sessionLock, runLock, target, held, copy, outcome, cut>>

\* The key lock is taken twice: to look the key up, and again to stage.
TakeKey(c) == /\ ask[c].key # None /\ keyLock[ask[c].key] = None
              /\ \/ Move(c, "idle", "find")
                 \/ Move(c, "again", "stage")
              /\ keyLock' = [keyLock EXCEPT ![ask[c].key] = c]
              /\ UNCHANGED <<ask, files, sessionLock, runLock, target, held, copy, outcome,
                             cut>>

\* The thousand attempts at a busy key lock run out.
KeyBusy(c) == /\ ask[c].key # None /\ keyLock[ask[c].key] # None
              /\ \E s \in {"idle", "again"} : Finish(c, s, "error")
              /\ UNCHANGED <<ask, files, locks, held, cut>>

DropKey(c) == keyLock' = [keyLock EXCEPT ![ask[c].key] = None]

\* The lookup finds a manifest of the same request: the call goes on with it.
Adopt(c) == /\ ~Conflict(c)
            /\ \E r \in Bound(c) : target' = [target EXCEPT ![c] = r]
            /\ \E s \in {"find", "stage"} : Move(c, s, "session")
            /\ DropKey(c)
            /\ UNCHANGED <<ask, files, sessionLock, runLock, held, copy, outcome, cut>>

\* The key belongs to a different request.
RefuseKey(c) == /\ Conflict(c)
                /\ \E s \in {"find", "stage"} : Finish(c, s, "error")
                /\ DropKey(c)
                /\ UNCHANGED <<ask, files, sessionLock, runLock, held, cut>>

\* Nothing found: the first time the lock is dropped, the second time kept.
NotFound(c) == /\ Bound(c) = {}
               /\ \/ Move(c, "find", "again") /\ DropKey(c)
                  \/ Move(c, "stage", "write") /\ UNCHANGED keyLock
               /\ UNCHANGED <<ask, files, sessionLock, runLock, target, held, copy, outcome, cut>>

StageKeyed(c) == /\ Move(c, "write", "session")
                 /\ manifest' = [manifest EXCEPT ![c] = "prepared"]
                 /\ target' = [target EXCEPT ![c] = c]
                 /\ DropKey(c)
                 /\ UNCHANGED <<ask, chain, links, work, life, epoch, active, sessionLock,
                                runLock, held, copy, outcome, cut>>

\* recover_publications picks a manifest that is not committed.
PickManifest(v) == \E r \in Run :
    /\ manifest[r] = "prepared"
    /\ Move(v, "idle", "session")
    /\ target' = [target EXCEPT ![v] = r]
    /\ UNCHANGED <<ask, files, locks, held, copy, outcome, cut>>

----------------------------------------------------------------------------
(* commit_publication, under the session lock and the owner lock. *)

SessionFor(p) == ask[target[p]].session

TakeSession(p) == /\ Move(p, "session", "own")
                  /\ sessionLock[SessionFor(p)] = None
                  /\ sessionLock' = [sessionLock EXCEPT ![SessionFor(p)] = p]
                  /\ UNCHANGED <<ask, files, keyLock, runLock, target, held, copy, outcome,
                                 cut>>

\* Seeded bug: whoever holds the lock is taken to have committed this Run.
SessionBusyAssumed(p) ==
    /\ pc[p] = "session" /\ sessionLock[SessionFor(p)] # None
    /\ p \in Client /\ Move(p, "session", "dispatch")
    /\ outcome' = [outcome EXCEPT ![p] = "receipt"]
    /\ UNCHANGED <<ask, files, locks, held, target, copy, cut>>

\* With a key the lock is tried 500 times, without one once; when that is in
\* vain, a manifest that somebody else committed still yields its receipt.
SessionBusy(p) ==
    /\ pc[p] = "session" /\ sessionLock[SessionFor(p)] # None
    /\ IF Committed(target[p]) /\ p \in Client
         THEN /\ Move(p, "session", "dispatch")
              /\ outcome' = [outcome EXCEPT ![p] = "receipt"]
              /\ UNCHANGED <<target, copy>>
         ELSE EndWith(p, "error")
    /\ UNCHANGED <<ask, files, locks, held, cut>>

\* Seeded bug: a live owner is stolen from.
StealRun(p) == /\ Move(p, "own", "epoch")
               /\ epoch[target[p]] < MaxEpoch
               /\ runLock' = [runLock EXCEPT ![target[p]] = p]
               /\ UNCHANGED <<ask, files, keyLock, sessionLock, target, held, copy, outcome, cut>>

TakeRun(p) == /\ Move(p, "own", "epoch")
              /\ runLock[target[p]] = None /\ epoch[target[p]] < MaxEpoch
              /\ runLock' = [runLock EXCEPT ![target[p]] = p]
              /\ UNCHANGED <<ask, files, keyLock, sessionLock, target, held, copy, outcome,
                             cut>>

\* Another owner is alive: its receipt when it committed, else an error.
RunBusy(p) == /\ Move(p, "own", "letSession")
              /\ runLock[target[p]] # None
              /\ outcome' = [outcome EXCEPT ![p] =
                                IF Committed(target[p]) THEN "receipt" ELSE "error"]
              /\ UNCHANGED <<ask, files, locks, target, held, copy, cut>>

\* The new epoch is durable only now, after the lock is held.
WriteEpoch(p) == /\ Move(p, "epoch", "directory")
                 /\ epoch' = [epoch EXCEPT ![target[p]] = @ + 1]
                 /\ active' = [active EXCEPT ![target[p]] = TRUE]
                 /\ held' = [held EXCEPT ![p] = epoch[target[p]] + 1]
                 /\ UNCHANGED <<ask, manifest, chain, links, work, life, locks, target, copy,
                                outcome, cut>>

\* Under both locks the manifest is read again: it may be committed by now.
AlreadyCommitted(p) == /\ Move(p, "directory", "letSession")
                       /\ Committed(target[p])
                       /\ outcome' = [outcome EXCEPT ![p] = "receipt"]
                       /\ UNCHANGED <<ask, files, locks, target, held, copy, cut>>

\* The creation is skipped when the directory of the Run exists.
MakeDirectory(p) == LET r == target[p] IN
    /\ pc[p] = "directory" /\ ~Committed(r)
    /\ Move(p, "directory", IF chain[r] = "absent" THEN "event" ELSE "readSession")
    /\ chain' = [chain EXCEPT ![r] = IF @ = "absent" THEN "directory" ELSE @]
    /\ UNCHANGED <<ask, manifest, links, work, life, epoch, active, locks, target, held, copy,
                   outcome, cut>>

AppendCreation(p) == /\ Move(p, "event", "readSession")
                     /\ chain' = [chain EXCEPT ![target[p]] = "created"]
                     /\ UNCHANGED <<ask, manifest, links, work, life, epoch, active, locks,
                                    target, held, copy, outcome, cut>>

ReadSession(p) == /\ Move(p, "readSession", "saveSession")
                  /\ copy' = [copy EXCEPT ![p] = links[SessionFor(p)]]
                  /\ UNCHANGED <<ask, files, locks, target, held, outcome, cut>>

SaveSession(p) == /\ Move(p, "saveSession", "item")
                  /\ links' = [links EXCEPT ![SessionFor(p)] = copy[p] \cup {target[p]}]
                  /\ copy' = [copy EXCEPT ![p] = {}]
                  /\ UNCHANGED <<ask, manifest, chain, work, life, epoch, active, locks,
                                 target, held, outcome, cut>>

\* Seeded bug: an item that exists is taken to have its row.
WriteItemOnce(p) == LET r == target[p] IN
    /\ pc[p] = "item" /\ Move(p, "item", IF work[r] = "absent" THEN "row" ELSE "mark")
    /\ work' = [work EXCEPT ![r] = IF @ = "absent" THEN "item" ELSE @]
    /\ UNCHANGED <<ask, manifest, chain, links, life, epoch, active, locks, target, held, copy,
                   outcome, cut>>

WriteItem(p) == LET r == target[p] IN
    /\ Move(p, "item", "row")
    /\ work' = [work EXCEPT ![r] = IF @ = "absent" THEN "item" ELSE @]
    /\ UNCHANGED <<ask, manifest, chain, links, life, epoch, active, locks, target, held, copy,
                   outcome, cut>>

\* An item that survived a death without its row gets the row now.
WriteRow(p) == LET r == target[p] IN
    /\ Move(p, "row", "mark")
    /\ work' = [work EXCEPT ![r] = IF @ = "item" THEN "row" ELSE @]
    /\ UNCHANGED <<ask, manifest, chain, links, life, epoch, active, locks, target, held, copy,
                   outcome, cut>>

MarkCommitted(p) == /\ Move(p, "mark", "letSession")
                    /\ manifest' = [manifest EXCEPT ![target[p]] = "committed"]
                    /\ outcome' = [outcome EXCEPT ![p] = "receipt"]
                    /\ UNCHANGED <<ask, chain, links, work, life, epoch, active, locks, target,
                                   held, copy, cut>>

\* A write raises: the owner is released before the session lock.
Writing == {"directory", "event", "readSession", "saveSession", "item", "row", "mark"}

WriteFails(p) == /\ pc[p] \in Writing
                 /\ pc' = [pc EXCEPT ![p] = "close"]
                 /\ outcome' = [outcome EXCEPT ![p] = "error"]
                 /\ cut' = IF pc[p] = "event" THEN cut \cup {target[p]} ELSE cut
                 /\ UNCHANGED <<ask, files, locks, target, held, copy>>

\* After a receipt, or after an error, a call goes on from here.
Receipt(p, from) == IF outcome[p] = "error" \/ p \in Recoverer
                      THEN Finish(p, from, outcome[p])
                      ELSE Move(p, from, "dispatch") /\ UNCHANGED <<outcome, target, copy>>

\* commit_publication leaves the session lock last.
LeaveSession(p) ==
    /\ pc[p] = "letSession"
    /\ IF held[p] # 0
         THEN Move(p, "letSession", "close") /\ UNCHANGED <<outcome, target, copy>>
         ELSE Receipt(p, "letSession")
    /\ sessionLock' = [sessionLock EXCEPT ![SessionFor(p)] = None]
    /\ UNCHANGED <<ask, files, keyLock, runLock, held, cut>>

\* Releasing an owner handle records it before the lock goes.
CloseOwner(p) == /\ Move(p, "close", "unlock")
                 /\ active' = [active EXCEPT ![target[p]] = FALSE]
                 /\ UNCHANGED <<ask, manifest, chain, links, work, life, epoch, locks, target,
                                held, copy, outcome, cut>>

UnlockRun(p) == /\ pc[p] = "unlock"
                /\ IF outcome[p] = "error"
                     THEN Move(p, "unlock", "letSession") /\ UNCHANGED <<outcome, target, copy>>
                     ELSE Receipt(p, "unlock")
                /\ runLock' = [runLock EXCEPT ![target[p]] = None]
                /\ held' = [held EXCEPT ![p] = 0]
                /\ UNCHANGED <<ask, files, keyLock, sessionLock, cut>>

----------------------------------------------------------------------------
(* Dispatch, execution and death. *)

\* The outbox row becomes a broker message.
Dispatch(c) == /\ Finish(c, "dispatch", "receipt")
               /\ work[target[c]] = "row"
               /\ work' = [work EXCEPT ![target[c]] = "announced"]
               /\ UNCHANGED <<ask, manifest, chain, links, life, epoch, active, locks, held,
                              cut>>

\* Without a pending row the dispatcher refuses, and the service fails the Run.
DispatchRefused(c) == LET r == target[c] IN
    /\ pc[c] = "dispatch" /\ work[r] # "row"
    /\ Finish(c, "dispatch", IF chain[r] = "created" THEN "receipt" ELSE "error")
    /\ life' = [life EXCEPT ![r] = IF chain[r] = "created" /\ @ \in {"created", "active"}
                                     THEN "failed" ELSE @]
    /\ UNCHANGED <<ask, manifest, chain, links, work, epoch, active, locks, held, cut>>

\* A worker takes the owner of a published Run and executes it.
Execute(r) == /\ epoch[r] < MaxEpoch
              /\ work[r] = "announced" /\ life[r] = "created" /\ chain[r] = "created" /\ Visible(r)
              /\ runLock[r] = None
              /\ runLock' = [runLock EXCEPT ![r] = Worker]
              /\ epoch' = [epoch EXCEPT ![r] = @ + 1]
              /\ active' = [active EXCEPT ![r] = TRUE]
              /\ life' = [life EXCEPT ![r] = "active"]
              /\ UNCHANGED <<ask, manifest, chain, links, work, keyLock, sessionLock, local,
                             cut>>

ExecuteEnds(r) == /\ runLock[r] = Worker
                  /\ runLock' = [runLock EXCEPT ![r] = None]
                  /\ active' = [active EXCEPT ![r] = FALSE]
                  /\ life' = [life EXCEPT ![r] = IF @ = "active" THEN "ended" ELSE @]
                  /\ UNCHANGED <<ask, manifest, chain, links, work, epoch, keyLock,
                                 sessionLock, local, cut>>

Freed(lock, p) == [x \in DOMAIN lock |-> IF lock[x] = p THEN None ELSE lock[x]]

\* The process of p dies: the system frees its locks, the files stay.
Die(p) == /\ pc[p] \notin {"idle", "done"}
          /\ EndWith(p, "error")
          /\ keyLock' = Freed(keyLock, p)
          /\ sessionLock' = Freed(sessionLock, p)
          /\ runLock' = Freed(runLock, p)
          /\ held' = [held EXCEPT ![p] = 0]
          /\ cut' = IF pc[p] = "event" THEN cut \cup {target[p]} ELSE cut
          /\ UNCHANGED <<ask, files>>

PrepareStep(c) == \/ StageUnkeyed(c) \/ TakeKey(c) \/ KeyBusy(c) \/ Adopt(c) \/ RefuseKey(c)
                  \/ NotFound(c) \/ StageKeyed(c)

CommitStep(p) == \/ TakeSession(p) \/ SessionBusy(p) \/ TakeRun(p) \/ RunBusy(p) \/ WriteEpoch(p)
                 \/ AlreadyCommitted(p) \/ MakeDirectory(p) \/ AppendCreation(p) \/ ReadSession(p)
                 \/ SaveSession(p) \/ WriteItem(p) \/ WriteRow(p) \/ MarkCommitted(p)
                 \/ WriteFails(p) \/ LeaveSession(p) \/ CloseOwner(p) \/ UnlockRun(p)

Next == \/ \E c \in Client : PrepareStep(c) \/ Dispatch(c) \/ DispatchRefused(c)
        \/ \E v \in Recoverer : PickManifest(v)
        \/ \E p \in Proc : CommitStep(p) \/ Die(p)
        \/ \E r \in Run : Execute(r) \/ ExecuteEnds(r)

Spec == Init /\ [][Next]_vars

----------------------------------------------------------------------------
(* Properties. *)

Step == {"idle", "find", "again", "stage", "write", "session", "own", "epoch", "letSession",
         "close", "unlock", "dispatch", "done"} \cup Writing

TypeOK ==
    /\ ask \in [Client -> Request]
    /\ manifest \in [Run -> {"absent", "prepared", "committed"}]
    /\ chain \in [Run -> {"absent", "directory", "created"}]
    /\ links \in [Session -> SUBSET Run]
    /\ work \in [Run -> {"absent", "item", "row", "announced"}]
    /\ life \in [Run -> {"created", "active", "ended", "failed"}]
    /\ epoch \in [Run -> Nat] /\ active \in [Run -> BOOLEAN]
    /\ keyLock \in [Key -> Client \cup {None}]
    /\ sessionLock \in [Session -> Proc \cup {None}]
    /\ runLock \in [Run -> Proc \cup {Worker, None}]
    /\ pc \in [Proc -> Step] /\ target \in [Proc -> Run \cup {None}]
    /\ held \in [Proc -> Nat] /\ copy \in [Proc -> SUBSET Run]
    /\ outcome \in [Proc -> {"none", "receipt", "error"}]
    /\ cut \subseteq Run

\* However calls, retries, recoveries and deaths interleave, one idempotency
\* key is never bound to two durable publications (prepare_publication).
OneRunPerKey == \A r, s \in Run : Staged(r) /\ Staged(s) /\ ask[r].key = ask[s].key /\ ask[r].key # None
                                   => r = s

\* A call returns a receipt only for a Run that readers can see, and exact
\* retries of one request get the receipt of one Run (commit_publication).
ReceiptsConverge ==
    \A c \in Client : pc[c] = "done" /\ outcome[c] = "receipt" =>
        /\ Visible(target[c])
        /\ ask[target[c]] = ask[c] /\ (ask[c].key = None => target[c] = c)
        /\ \A e \in Client : /\ pc[e] = "done" /\ outcome[e] = "receipt"
                            /\ ask[e] = ask[c] /\ ask[e].key # None => target[e] = target[c]

\* A process between acquiring and releasing an owner handle is the only one,
\* and the owner record names the epoch of its handle (OwnerRegistry).
HandleIsCurrent ==
    \A p \in Proc : held[p] # 0 /\ pc[p] # "unlock" =>
        /\ runLock[target[p]] = p
        /\ active[target[p]] /\ epoch[target[p]] = held[p]

\* Linking a Run to a session never loses the link of another Run, although
\* the record is read and written back whole (_link_session).
LinksSurvive == [][\A s \in Session : links[s] \subseteq links'[s]]_links

\* A visible Run without a creation event comes only from a creation that
\* was cut between making the directory and appending the event.
HoleOnlyFromCut == \A r \in Run : Visible(r) /\ chain[r] # "created" => r \in cut

\* What the comments of commit_publication say: recovery completes the same
\* sequence, so a visible Run has its creation event.
VisibleHasCreation == \A r \in Run : Visible(r) => chain[r] = "created"

\* The file repository publishes as the transactional one does: every step is
\* a Prepare, a Commit or nothing to a reader.  The creation event of a cut
\* creation counts as there, see HoleOnlyFromCut.
Shown == {r \in Run : Visible(r)}

Transactional == INSTANCE PublishedRuns WITH
    staged    <- [r \in Run |-> IF Staged(r) THEN ask[r].session ELSE None],
    published <- Shown,
    born      <- {r \in Shown : chain[r] = "created" \/ r \in cut},
    links     <- [s \in Session |-> links[s] \cap Shown],
    queue     <- {r \in Shown : work[r] \in {"row", "announced"}}

PublishesAtomically == Transactional!Spec
=============================================================================
