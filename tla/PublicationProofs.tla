------------------------- MODULE PublicationProofs -------------------------
(***************************************************************************)
(* What the locks and the order of writes of commit_publication give, for  *)
(* any number of clients, recoverers, sessions and keys: one Run per key,  *)
(* receipts only for visible Runs, one live owner handle per Run, and a    *)
(* publication that is one step to every reader.                           *)
(*                                                                         *)
(* The invariant is a statement about the place of each process.  A step   *)
(* of one process leaves alone what another one holds a lock of, so each   *)
(* statement is shown once for the process that steps, action by action,   *)
(* and once for all the others.                                            *)
(***************************************************************************)
EXTENDS Publication, TLAPS

Preparing == {"idle", "find", "again", "stage", "write"}
Going     == {"session", "own", "epoch", "letSession", "close", "unlock", "dispatch"}
             \cup Writing

\* A client at the key's records holds the key's lock; once it found nothing there, nothing is.
KeyAt(c) ==
    /\ pc[c] \in {"find", "again", "stage", "write"} => ask[c].key # None
    /\ pc[c] \in {"find", "stage", "write"} => keyLock[ask[c].key] = c
    /\ pc[c] = "write" => \A r \in Run : Staged(r) => ask[r].key # ask[c].key
    /\ pc[c] \in Preparing => ~Staged(c)

\* A call works on a manifest that is there, and a client on one that asks what it asks.
TargetAt(p) ==
    /\ pc[p] \in Going \/ outcome[p] = "receipt" => target[p] \in Run /\ Staged(target[p])
    /\ p \in Client /\ target[p] # None =>
           ask[target[p]] = ask[p] /\ (ask[p].key = None => target[p] = p)

\* Who holds the session lock, and who the lock of the Run.
InSession(p) == \/ pc[p] \in {"own", "epoch", "letSession"} \cup Writing
                \/ pc[p] \in {"close", "unlock"} /\ outcome[p] = "error"
Owning(p) == \/ pc[p] \in {"epoch", "close", "unlock"} \cup Writing
             \/ pc[p] = "letSession" /\ held[p] # 0

LockAt(p) == /\ InSession(p) => sessionLock[SessionFor(p)] = p
             /\ Owning(p) => runLock[target[p]] = p

HeldAt(p) ==
    /\ held[p] # 0 => pc[p] \in {"letSession", "close", "unlock"} \cup Writing
    /\ pc[p] \in {"close", "unlock"} \cup Writing => held[p] # 0
    /\ held[p] # 0 /\ pc[p] # "unlock" => active[target[p]] /\ epoch[target[p]] = held[p]

\* No call begins with an outcome, a receipt is for a committed Run, and a session is left with
\* a handle only after a receipt.
OutcomeAt(p) ==
    /\ pc[p] \in Preparing => outcome[p] = "none"
    /\ pc[p] \in {"letSession", "close", "unlock"} => outcome[p] # "none"
    /\ (pc[p] = "letSession" /\ held[p] # 0) \/ pc[p] = "dispatch" => outcome[p] = "receipt"
    /\ outcome[p] = "receipt" => Committed(target[p])

\* What the writes before p's place have achieved.
ProgressAt(p) == LET r == target[p] IN
    /\ pc[p] \in Writing \ {"directory"} => ~Committed(r)
    /\ pc[p] = "event" => chain[r] = "directory"
    /\ pc[p] \in Writing \ {"directory", "event"} => chain[r] = "created" \/ r \in cut
    /\ pc[p] = "saveSession" => copy[p] = links[SessionFor(p)]
    /\ pc[p] \in {"item", "row", "mark"} => r \in links[SessionFor(p)]
    /\ pc[p] = "row" => work[r] # "absent"
    /\ pc[p] = "mark" => work[r] \in {"row", "announced"}

PlaceAt(p) == TargetAt(p) /\ LockAt(p) /\ HeldAt(p) /\ OutcomeAt(p) /\ ProgressAt(p)

PlaceInv == (\A c \in Client : KeyAt(c)) /\ (\A p \in Proc : PlaceAt(p))

\* A directory without an event was cut, or somebody is about to append the event.
ChainInv == \A r \in Run : chain[r] = "directory" =>
    r \in cut \/ \E p \in Proc : pc[p] = "event" /\ target[p] = r

\* A committed Run is all there, and sessions name their own Runs.
RunInv == /\ \A r \in Run : Committed(r) => /\ r \in links[ask[r].session]
                                            /\ work[r] \in {"row", "announced"}
                                            /\ chain[r] = "created" \/ r \in cut
          /\ \A s \in Session : \A r \in links[s] : ask[r].session = s

PublicationInv == TypeOK /\ PlaceInv /\ OneRunPerKey /\ ChainInv /\ RunInv

-----------------------------------------------------------------------------
(* What a step leaves alone. *)

\* A step of the process p, whichever action it is.
StepOf(p) == \/ p \in Client /\ (PrepareStep(p) \/ Dispatch(p) \/ DispatchRefused(p))
             \/ p \in Recoverer /\ PickManifest(p)
             \/ CommitStep(p) \/ Die(p)

\* The place of q stays as it is.
Apart(q) == /\ pc'[q] = pc[q] /\ target'[q] = target[q] /\ held'[q] = held[q]
            /\ copy'[q] = copy[q] /\ outcome'[q] = outcome[q]

\* What q holds a lock of stays as it is, and nobody stages in the place of q.
Guarantee(q) ==
    /\ \A k \in Key : keyLock[k] = q => keyLock'[k] = q
    /\ \A s \in Session : sessionLock[s] = q => sessionLock'[s] = q /\ links'[s] = links[s]
    /\ \A r \in Run : runLock[r] = q =>
          /\ runLock'[r] = q /\ epoch'[r] = epoch[r] /\ active'[r] = active[r]
          /\ chain'[r] = chain[r] /\ (Staged(r) => manifest'[r] = manifest[r])
    /\ \A r \in Run : r = q \/ (ask[r].key \in Key /\ keyLock[ask[r].key] = q) =>
          (Staged(r)' => Staged(r))

\* What no step takes back, and who wrote what is new.
Monotone ==
    /\ ask' = ask /\ cut \subseteq cut'
    /\ \A r \in Run : /\ Committed(r) => Committed(r)'
                      /\ Staged(r) => Staged(r)'
                      /\ chain[r] = "created" => chain'[r] = "created"
                      /\ work[r] # "absent" => work'[r] # "absent"
                      /\ work[r] \in {"row", "announced"} => work'[r] \in {"row", "announced"}

Written ==
    /\ \A r \in Run : Staged(r)' => Staged(r) \/ (r \in Client
          /\ (StageUnkeyed(r) \/ StageKeyed(r)))
    /\ \A r \in Run : Committed(r)' => Committed(r) \/ \E p \in Proc : MarkCommitted(p)
          /\ target[p] = r
    /\ \A r \in Run : chain'[r] = "directory" =>
           chain[r] = "directory" \/ \E p \in Proc : MakeDirectory(p) /\ target[p] = r
    /\ \A s \in Session : links'[s] = links[s] \/ \E p \in Proc : SaveSession(p)
          /\ SessionFor(p) = s

-----------------------------------------------------------------------------
(* Type correctness. *)

Result == {"none", "receipt", "error"}

\* A step of p moves p alone.
LEMMA Moves ==
    ASSUME TypeOK, NEW p \in Proc, NEW from, NEW to \in Step, Move(p, from, to)
    PROVE  /\ pc' \in [Proc -> Step] /\ pc[p] = from /\ pc'[p] = to
           /\ \A q \in Proc : q # p => pc'[q] = pc[q]
  BY DEF TypeOK, Move

\* A call that ends keeps its Run only with a receipt, and only a client does.
LEMMA Ends ==
    ASSUME TypeOK, NEW p \in Proc, NEW o \in Result, EndWith(p, o)
    PROVE  /\ pc' \in [Proc -> Step] /\ target' \in [Proc -> Run \cup {None}]
           /\ copy' \in [Proc -> SUBSET Run] /\ outcome' \in [Proc -> Result]
           /\ pc'[p] = IF p \in Client THEN "done" ELSE "idle"
           /\ \/ p \in Client /\ o = "receipt" /\ outcome'[p] = "receipt"
                 /\ target'[p] = target[p]
              \/ outcome'[p] = "none" /\ target'[p] = None
           /\ \A q \in Proc : q # p => /\ pc'[q] = pc[q] /\ target'[q] = target[q]
                                       /\ copy'[q] = copy[q] /\ outcome'[q] = outcome[q]
<1> DEFINE kept == o = "receipt" /\ p \in Client
<1>1. pc' = [pc EXCEPT ![p] = IF p \in Client THEN "done" ELSE "idle"]
  BY DEF EndWith
<1>2. /\ outcome' = [outcome EXCEPT ![p] = IF kept THEN "receipt" ELSE "none"]
      /\ target' = [target EXCEPT ![p] = IF kept THEN target[p] ELSE None]
      /\ copy' = [copy EXCEPT ![p] = {}]
  BY DEF EndWith, TypeOK
<1>3. pc' \in [Proc -> Step] /\ copy' \in [Proc -> SUBSET Run]
  BY <1>1, <1>2 DEF TypeOK, Step
<1>4. target' \in [Proc -> Run \cup {None}] /\ outcome' \in [Proc -> Result]
  BY <1>2 DEF TypeOK, Result
<1>5. pc'[p] = IF p \in Client THEN "done" ELSE "idle"
  BY <1>1 DEF TypeOK
<1>6. \/ p \in Client /\ o = "receipt" /\ outcome'[p] = "receipt" /\ target'[p] = target[p]
      \/ outcome'[p] = "none" /\ target'[p] = None
  BY <1>2 DEF TypeOK
<1>7. \A q \in Proc : q # p => /\ pc'[q] = pc[q] /\ target'[q] = target[q]
                               /\ copy'[q] = copy[q] /\ outcome'[q] = outcome[q]
  BY <1>1, <1>2 DEF TypeOK
<1> QED
  BY <1>3, <1>4, <1>5, <1>6, <1>7

LEMMA TypeInit == Init => TypeOK
  BY ProcAssumption DEF Init, TypeOK, Proc, Run, Step, Writing

LEMMA Targets ==
    ASSUME TypeOK, PlaceInv, NEW p \in Proc, pc[p] \in Going
    PROVE  target[p] \in Run /\ SessionFor(p) \in Session
  BY DEF TypeOK, PlaceInv, PlaceAt, TargetAt, SessionFor, Request, Run

\* No step of a call, of a worker, no failure and no death writes a value outside its type.
LEMMA TypeStep ==
    ASSUME TypeOK, PlaceInv, Next
    PROVE  TypeOK'
<1> USE DEF files, locks, local
<1>s. {"done", "session", "find", "again", "stage", "write", "own", "epoch", "letSession",
       "close", "unlock", "dispatch", "idle"} \cup Writing \subseteq Step
  BY DEF Step, Writing
<1>r. {"none", "receipt", "error"} = Result
  BY DEF Result
<1>p. Client \subseteq Proc /\ Recoverer \subseteq Proc /\ Run = Client
  BY DEF Proc, Run
<1>1. ASSUME NEW p \in Client, StageUnkeyed(p) PROVE TypeOK'
  BY <1>1, Moves, <1>s, <1>p DEF TypeOK, StageUnkeyed
<1>2. ASSUME NEW p \in Client, TakeKey(p) PROVE TypeOK'
  BY <1>2, Moves, <1>s, <1>p DEF TypeOK, TakeKey, Request
<1>3. ASSUME NEW p \in Client, KeyBusy(p) PROVE TypeOK'
  BY <1>3, Moves, Ends, <1>r, <1>s, <1>p DEF TypeOK, KeyBusy, Finish
<1>4. ASSUME NEW p \in Client, Adopt(p) PROVE TypeOK'
  <2>1. PICK r \in Bound(p) : target' = [target EXCEPT ![p] = r]
    BY <1>4 DEF Adopt
  <2>2. PICK s \in {"find", "stage"} : Move(p, s, "session")
    BY <1>4 DEF Adopt
  <2>3. pc' \in [Proc -> Step]
    BY <2>2, Moves, <1>s, <1>p
  <2> QED
    BY <1>4, <2>1, <2>3, <1>p DEF TypeOK, Adopt, DropKey, Bound
<1>5. ASSUME NEW p \in Client, RefuseKey(p) PROVE TypeOK'
  BY <1>5, Moves, Ends, <1>r, <1>s, <1>p DEF TypeOK, RefuseKey, Finish, DropKey
<1>6. ASSUME NEW p \in Client, NotFound(p) PROVE TypeOK'
  BY <1>6, Moves, <1>s, <1>p DEF TypeOK, NotFound, DropKey
<1>7. ASSUME NEW p \in Client, StageKeyed(p) PROVE TypeOK'
  BY <1>7, Moves, <1>s, <1>p DEF TypeOK, StageKeyed, DropKey
<1>8. ASSUME NEW p \in Client, Dispatch(p) PROVE TypeOK'
  BY <1>8, Moves, Ends, <1>r, <1>s, <1>p DEF TypeOK, Dispatch, Finish
<1>9. ASSUME NEW p \in Client, DispatchRefused(p) PROVE TypeOK'
  BY <1>9, Moves, Ends, <1>r, <1>s, <1>p DEF TypeOK, DispatchRefused, Finish
<1>10. ASSUME NEW p \in Recoverer, PickManifest(p) PROVE TypeOK'
  BY <1>10, Moves, <1>s, <1>p DEF TypeOK, PickManifest
<1>11. ASSUME NEW p \in Proc, TakeSession(p) PROVE TypeOK'
  BY <1>11, Moves, <1>s, <1>p DEF TypeOK, TakeSession
<1>12. ASSUME NEW p \in Proc, SessionBusy(p) PROVE TypeOK'
  <2>1. CASE Committed(target[p]) /\ p \in Client
    BY <1>12, <2>1, Moves, <1>s DEF TypeOK, SessionBusy
  <2>2. CASE ~(Committed(target[p]) /\ p \in Client)
    BY <1>12, <2>2, Ends, <1>r DEF TypeOK, SessionBusy
  <2> QED
    BY <2>1, <2>2
<1>13. ASSUME NEW p \in Proc, TakeRun(p) PROVE TypeOK'
  BY <1>13, Moves, <1>s, <1>p DEF TypeOK, TakeRun
<1>14. ASSUME NEW p \in Proc, RunBusy(p) PROVE TypeOK'
  BY <1>14, Moves, <1>s, <1>p DEF TypeOK, RunBusy
<1>15. ASSUME NEW p \in Proc, WriteEpoch(p) PROVE TypeOK'
  <2>1. target[p] \in Run /\ SessionFor(p) \in Session
    BY <1>15, Targets DEF WriteEpoch, Move, Going, Writing
  <2> QED
    BY <1>15, <2>1, Moves, <1>s, <1>p DEF TypeOK, WriteEpoch, Writing
<1>16. ASSUME NEW p \in Proc, AlreadyCommitted(p) PROVE TypeOK'
  BY <1>16, Moves, <1>s, <1>p DEF TypeOK, AlreadyCommitted
<1>17. ASSUME NEW p \in Proc, MakeDirectory(p) PROVE TypeOK'
  <2>1. target[p] \in Run /\ SessionFor(p) \in Session
    BY <1>17, Targets DEF MakeDirectory, Move, Going, Writing
  <2> QED
    BY <1>17, <2>1, Moves, <1>s, <1>p DEF TypeOK, MakeDirectory, Writing
<1>18. ASSUME NEW p \in Proc, AppendCreation(p) PROVE TypeOK'
  <2>1. target[p] \in Run /\ SessionFor(p) \in Session
    BY <1>18, Targets DEF AppendCreation, Move, Going, Writing
  <2> QED
    BY <1>18, <2>1, Moves, <1>s, <1>p DEF TypeOK, AppendCreation, Writing
<1>19. ASSUME NEW p \in Proc, ReadSession(p) PROVE TypeOK'
  <2>1. target[p] \in Run /\ SessionFor(p) \in Session
    BY <1>19, Targets DEF ReadSession, Move, Going, Writing
  <2> QED
    BY <1>19, <2>1, Moves, <1>s, <1>p DEF TypeOK, ReadSession, Writing
<1>20. ASSUME NEW p \in Proc, SaveSession(p) PROVE TypeOK'
  <2>1. target[p] \in Run /\ SessionFor(p) \in Session
    BY <1>20, Targets DEF SaveSession, Move, Going, Writing
  <2> QED
    BY <1>20, <2>1, Moves, <1>s, <1>p DEF TypeOK, SaveSession, Writing
<1>21. ASSUME NEW p \in Proc, WriteItem(p) PROVE TypeOK'
  <2>1. target[p] \in Run /\ SessionFor(p) \in Session
    BY <1>21, Targets DEF WriteItem, Move, Going, Writing
  <2> QED
    BY <1>21, <2>1, Moves, <1>s, <1>p DEF TypeOK, WriteItem, Writing
<1>22. ASSUME NEW p \in Proc, WriteRow(p) PROVE TypeOK'
  <2>1. target[p] \in Run /\ SessionFor(p) \in Session
    BY <1>22, Targets DEF WriteRow, Move, Going, Writing
  <2> QED
    BY <1>22, <2>1, Moves, <1>s, <1>p DEF TypeOK, WriteRow, Writing
<1>23. ASSUME NEW p \in Proc, MarkCommitted(p) PROVE TypeOK'
  BY <1>23, Moves, <1>s, <1>p DEF TypeOK, MarkCommitted
<1>24. ASSUME NEW p \in Proc, WriteFails(p) PROVE TypeOK'
  <2>1. target[p] \in Run
    BY <1>24, Targets DEF WriteFails, Going
  <2> QED
    BY <1>24, <2>1, <1>s DEF TypeOK, WriteFails
<1>25. ASSUME NEW p \in Proc, LeaveSession(p) PROVE TypeOK'
  BY <1>25, Moves, Ends, <1>r, <1>s, <1>p DEF TypeOK, LeaveSession, Receipt, Finish
<1>26. ASSUME NEW p \in Proc, CloseOwner(p) PROVE TypeOK'
  BY <1>26, Moves, <1>s, <1>p DEF TypeOK, CloseOwner
<1>27. ASSUME NEW p \in Proc, UnlockRun(p) PROVE TypeOK'
  BY <1>27, Moves, Ends, <1>r, <1>s, <1>p DEF TypeOK, UnlockRun, Receipt, Finish
<1>28. ASSUME NEW p \in Proc, Die(p) PROVE TypeOK'
  <2>1. pc[p] = "event" => target[p] \in Run
    BY <1>28, Targets DEF Going, Writing
  <2>2. /\ keyLock' \in [Key -> Client \cup {None}]
        /\ sessionLock' \in [Session -> Proc \cup {None}]
        /\ runLock' \in [Run -> Proc \cup {Worker, None}]
    BY <1>28 DEF TypeOK, Die, Freed
  <2>3. /\ pc' \in [Proc -> Step] /\ target' \in [Proc -> Run \cup {None}]
        /\ copy' \in [Proc -> SUBSET Run] /\ outcome' \in [Proc -> Result]
    BY <1>28, Ends, <1>r DEF Die
  <2> QED
    BY <1>28, <2>1, <2>2, <2>3, <1>r DEF TypeOK, Die
<1>29. ASSUME NEW r \in Run, Execute(r) PROVE TypeOK'
  BY <1>29 DEF TypeOK, Execute
<1>30. ASSUME NEW r \in Run, ExecuteEnds(r) PROVE TypeOK'
  BY <1>30 DEF TypeOK, ExecuteEnds
<1> QED
  BY <1>1, <1>2, <1>3, <1>4, <1>5, <1>6, <1>7, <1>8, <1>9, <1>10, <1>11, <1>12, <1>13, <1>14,
     <1>15, <1>16, <1>17, <1>18, <1>19, <1>20, <1>21, <1>22, <1>23, <1>24, <1>25, <1>26, <1>27,
     <1>28, <1>29, <1>30 DEF Next, PrepareStep, CommitStep

\* A step of p moves no other process.
LEMMA Elsewhere ==
    ASSUME TypeOK, NEW p \in Proc, StepOf(p), NEW q \in Proc \ {p}
    PROVE  Apart(q)
<1> USE DEF local
<1>w. {"done", "session", "find", "again", "stage", "write", "own", "epoch", "letSession",
       "close", "unlock", "dispatch", "idle"} \cup Writing \subseteq Step
  BY DEF Step, Writing
<1>m. \A from, to \in Step : Move(p, from, to) => pc'[q] = pc[q]
  BY DEF TypeOK, Move
<1>e. \A o : EndWith(p, o) => /\ pc'[q] = pc[q] /\ target'[q] = target[q]
                              /\ copy'[q] = copy[q] /\ outcome'[q] = outcome[q]
  BY DEF TypeOK, EndWith
<1>1. ASSUME p \in Client, StageUnkeyed(p) PROVE Apart(q)
  BY <1>1, <1>m, <1>w DEF TypeOK, Apart, Writing, StageUnkeyed
<1>2. ASSUME p \in Client, TakeKey(p) PROVE Apart(q)
  BY <1>2, <1>m, <1>w DEF TypeOK, Apart, Writing, TakeKey
<1>3. ASSUME p \in Client, KeyBusy(p) PROVE Apart(q)
  BY <1>3, <1>e DEF TypeOK, Apart, Writing, KeyBusy, Finish
<1>4. ASSUME p \in Client, Adopt(p) PROVE Apart(q)
  BY <1>4, <1>m, <1>w DEF TypeOK, Apart, Writing, Adopt
<1>5. ASSUME p \in Client, RefuseKey(p) PROVE Apart(q)
  BY <1>5, <1>e DEF TypeOK, Apart, Writing, RefuseKey, Finish
<1>6. ASSUME p \in Client, NotFound(p) PROVE Apart(q)
  BY <1>6, <1>m, <1>w DEF TypeOK, Apart, Writing, NotFound
<1>7. ASSUME p \in Client, StageKeyed(p) PROVE Apart(q)
  BY <1>7, <1>m, <1>w DEF TypeOK, Apart, Writing, StageKeyed
<1>8. ASSUME p \in Client, Dispatch(p) PROVE Apart(q)
  BY <1>8, <1>e DEF TypeOK, Apart, Writing, Dispatch, Finish
<1>9. ASSUME p \in Client, DispatchRefused(p) PROVE Apart(q)
  BY <1>9, <1>e DEF TypeOK, Apart, Writing, DispatchRefused, Finish
<1>10. ASSUME p \in Recoverer, PickManifest(p) PROVE Apart(q)
  BY <1>10, <1>m, <1>w DEF TypeOK, Apart, Writing, PickManifest
<1>11. ASSUME TakeSession(p) PROVE Apart(q)
  BY <1>11, <1>m, <1>w DEF TypeOK, Apart, Writing, TakeSession
<1>12. ASSUME SessionBusy(p) PROVE Apart(q)
  BY <1>12, <1>m, <1>w, <1>e DEF TypeOK, Apart, Writing, SessionBusy
<1>13. ASSUME TakeRun(p) PROVE Apart(q)
  BY <1>13, <1>m, <1>w DEF TypeOK, Apart, Writing, TakeRun
<1>14. ASSUME RunBusy(p) PROVE Apart(q)
  BY <1>14, <1>m, <1>w DEF TypeOK, Apart, Writing, RunBusy
<1>15. ASSUME WriteEpoch(p) PROVE Apart(q)
  BY <1>15, <1>m, <1>w DEF TypeOK, Apart, Writing, WriteEpoch
<1>16. ASSUME AlreadyCommitted(p) PROVE Apart(q)
  BY <1>16, <1>m, <1>w DEF TypeOK, Apart, Writing, AlreadyCommitted
<1>17. ASSUME MakeDirectory(p) PROVE Apart(q)
  BY <1>17, <1>m, <1>w DEF TypeOK, Apart, Writing, MakeDirectory
<1>18. ASSUME AppendCreation(p) PROVE Apart(q)
  BY <1>18, <1>m, <1>w DEF TypeOK, Apart, Writing, AppendCreation
<1>19. ASSUME ReadSession(p) PROVE Apart(q)
  BY <1>19, <1>m, <1>w DEF TypeOK, Apart, Writing, ReadSession
<1>20. ASSUME SaveSession(p) PROVE Apart(q)
  BY <1>20, <1>m, <1>w DEF TypeOK, Apart, Writing, SaveSession
<1>21. ASSUME WriteItem(p) PROVE Apart(q)
  BY <1>21, <1>m, <1>w DEF TypeOK, Apart, Writing, WriteItem
<1>22. ASSUME WriteRow(p) PROVE Apart(q)
  BY <1>22, <1>m, <1>w DEF TypeOK, Apart, Writing, WriteRow
<1>23. ASSUME MarkCommitted(p) PROVE Apart(q)
  BY <1>23, <1>m, <1>w DEF TypeOK, Apart, Writing, MarkCommitted
<1>24. ASSUME WriteFails(p) PROVE Apart(q)
  BY <1>24 DEF TypeOK, Apart, Writing, WriteFails
<1>25. ASSUME LeaveSession(p) PROVE Apart(q)
  BY <1>25, <1>m, <1>w, <1>e DEF TypeOK, Apart, Writing, LeaveSession, Receipt, Finish
<1>26. ASSUME CloseOwner(p) PROVE Apart(q)
  BY <1>26, <1>m, <1>w DEF TypeOK, Apart, Writing, CloseOwner
<1>27. ASSUME UnlockRun(p) PROVE Apart(q)
  BY <1>27, <1>m, <1>w, <1>e DEF TypeOK, Apart, Writing, UnlockRun, Receipt, Finish
<1>28. ASSUME Die(p) PROVE Apart(q)
  BY <1>28, <1>e DEF TypeOK, Apart, Writing, Die
<1> QED
  BY <1>1, <1>2, <1>3, <1>4, <1>5, <1>6, <1>7, <1>8, <1>9, <1>10, <1>11, <1>12, <1>13, <1>14,
     <1>15, <1>16, <1>17, <1>18, <1>19, <1>20, <1>21, <1>22, <1>23, <1>24, <1>25, <1>26, <1>27,
     <1>28 DEF StepOf, PrepareStep, CommitStep

\* A step of p leaves alone what another process holds a lock of.
LEMMA Guaranteed ==
    ASSUME TypeOK, PlaceInv, NEW p \in Proc, StepOf(p), NEW q \in Proc \ {p}
    PROVE  Guarantee(q)
<1> USE DEF files, locks
<1>l. LockAt(p)
  BY DEF PlaceInv, PlaceAt
<1>t. pc[p] \in Going => target[p] \in Run /\ SessionFor(p) \in Session
  BY Targets
<1>n. q # None
  BY ProcAssumption
<1>k. ASSUME p \in Client, pc[p] \in {"find", "stage", "write"}
      PROVE  ask[p].key \in Key /\ keyLock[ask[p].key] = p
  BY <1>k DEF PlaceInv, KeyAt, TypeOK, Request
<1>f. ASSUME p \in Client, pc[p] \in {"idle", "write"}
      PROVE  /\ ~Staged(p) /\ p \in Run
             /\ pc[p] = "write" => ask[p].key \in Key /\ keyLock[ask[p].key] = p
  BY <1>f, <1>k DEF PlaceInv, KeyAt, Preparing, Run
<1>s. pc[p] \in Going => Staged(target[p])
  BY DEF PlaceInv, PlaceAt, TargetAt
<1>1. ASSUME p \in Client, StageUnkeyed(p) PROVE Guarantee(q)
  BY <1>1, <1>l, <1>t, <1>n, <1>f, ProcAssumption DEF TypeOK, Guarantee, LockAt, InSession,
     Owning, Staged, Going, Writing, Move, StageUnkeyed
<1>2. ASSUME p \in Client, TakeKey(p) PROVE Guarantee(q)
  BY <1>2, <1>l, <1>t, <1>n DEF TypeOK, Guarantee, LockAt, InSession, Owning, Staged, Going,
     Writing, Move, TakeKey
<1>3. ASSUME p \in Client, KeyBusy(p) PROVE Guarantee(q)
  BY <1>3, <1>l, <1>t, <1>n DEF TypeOK, Guarantee, LockAt, InSession, Owning, Staged, Going,
     Writing, Move, KeyBusy, Finish
<1>4. ASSUME p \in Client, Adopt(p) PROVE Guarantee(q)
  BY <1>4, <1>l, <1>t, <1>n, <1>k DEF TypeOK, Guarantee, LockAt, InSession, Owning, Staged,
     Going, Writing, Move, Adopt, DropKey
<1>5. ASSUME p \in Client, RefuseKey(p) PROVE Guarantee(q)
  BY <1>5, <1>l, <1>t, <1>n, <1>k DEF TypeOK, Guarantee, LockAt, InSession, Owning, Staged,
     Going, Writing, Move, RefuseKey, Finish, DropKey
<1>6. ASSUME p \in Client, NotFound(p) PROVE Guarantee(q)
  BY <1>6, <1>l, <1>t, <1>n, <1>k DEF TypeOK, Guarantee, LockAt, InSession, Owning, Staged,
     Going, Writing, Move, NotFound, DropKey
<1>7. ASSUME p \in Client, StageKeyed(p) PROVE Guarantee(q)
  BY <1>7, <1>l, <1>t, <1>n, <1>f DEF TypeOK, Guarantee, LockAt, InSession, Owning, Staged,
     Going, Writing, Move, StageKeyed, DropKey
<1>8. ASSUME p \in Client, Dispatch(p) PROVE Guarantee(q)
  BY <1>8, <1>l, <1>t, <1>n DEF TypeOK, Guarantee, LockAt, InSession, Owning, Staged, Going,
     Writing, Move, Dispatch, Finish
<1>9. ASSUME p \in Client, DispatchRefused(p) PROVE Guarantee(q)
  BY <1>9, <1>l, <1>t, <1>n DEF TypeOK, Guarantee, LockAt, InSession, Owning, Staged, Going,
     Writing, Move, DispatchRefused, Finish
<1>10. ASSUME p \in Recoverer, PickManifest(p) PROVE Guarantee(q)
  BY <1>10, <1>l, <1>t, <1>n DEF TypeOK, Guarantee, LockAt, InSession, Owning, Staged, Going,
     Writing, Move, PickManifest
<1>11. ASSUME TakeSession(p) PROVE Guarantee(q)
  BY <1>11, <1>l, <1>t, <1>n DEF TypeOK, Guarantee, LockAt, InSession, Owning, Staged, Going,
     Writing, Move, TakeSession
<1>12. ASSUME SessionBusy(p) PROVE Guarantee(q)
  BY <1>12, <1>l, <1>t, <1>n DEF TypeOK, Guarantee, LockAt, InSession, Owning, Staged, Going,
     Writing, Move, SessionBusy
<1>13. ASSUME TakeRun(p) PROVE Guarantee(q)
  BY <1>13, <1>l, <1>t, <1>n DEF TypeOK, Guarantee, LockAt, InSession, Owning, Staged, Going,
     Writing, Move, TakeRun
<1>14. ASSUME RunBusy(p) PROVE Guarantee(q)
  BY <1>14, <1>l, <1>t, <1>n DEF TypeOK, Guarantee, LockAt, InSession, Owning, Staged, Going,
     Writing, Move, RunBusy
<1>15. ASSUME WriteEpoch(p) PROVE Guarantee(q)
  BY <1>15, <1>l, <1>t, <1>n DEF TypeOK, Guarantee, LockAt, InSession, Owning, Staged, Going,
     Writing, Move, WriteEpoch
<1>16. ASSUME AlreadyCommitted(p) PROVE Guarantee(q)
  BY <1>16, <1>l, <1>t, <1>n DEF TypeOK, Guarantee, LockAt, InSession, Owning, Staged, Going,
     Writing, Move, AlreadyCommitted
<1>17. ASSUME MakeDirectory(p) PROVE Guarantee(q)
  BY <1>17, <1>l, <1>t, <1>n DEF TypeOK, Guarantee, LockAt, InSession, Owning, Staged, Going,
     Writing, Move, MakeDirectory
<1>18. ASSUME AppendCreation(p) PROVE Guarantee(q)
  BY <1>18, <1>l, <1>t, <1>n DEF TypeOK, Guarantee, LockAt, InSession, Owning, Staged, Going,
     Writing, Move, AppendCreation
<1>19. ASSUME ReadSession(p) PROVE Guarantee(q)
  BY <1>19, <1>l, <1>t, <1>n DEF TypeOK, Guarantee, LockAt, InSession, Owning, Staged, Going,
     Writing, Move, ReadSession
<1>20. ASSUME SaveSession(p) PROVE Guarantee(q)
  BY <1>20, <1>l, <1>t, <1>n DEF TypeOK, Guarantee, LockAt, InSession, Owning, Staged, Going,
     Writing, Move, SaveSession
<1>21. ASSUME WriteItem(p) PROVE Guarantee(q)
  BY <1>21, <1>l, <1>t, <1>n DEF TypeOK, Guarantee, LockAt, InSession, Owning, Staged, Going,
     Writing, Move, WriteItem
<1>22. ASSUME WriteRow(p) PROVE Guarantee(q)
  BY <1>22, <1>l, <1>t, <1>n DEF TypeOK, Guarantee, LockAt, InSession, Owning, Staged, Going,
     Writing, Move, WriteRow
<1>23. ASSUME MarkCommitted(p) PROVE Guarantee(q)
  BY <1>23, <1>l, <1>t, <1>n, <1>s DEF TypeOK, Guarantee, LockAt, InSession, Owning, Staged,
     Going, Writing, Move, MarkCommitted
<1>24. ASSUME WriteFails(p) PROVE Guarantee(q)
  BY <1>24, <1>l, <1>t, <1>n DEF TypeOK, Guarantee, LockAt, InSession, Owning, Staged, Going,
     Writing, Move, WriteFails
<1>25. ASSUME LeaveSession(p) PROVE Guarantee(q)
  BY <1>25, <1>l, <1>t, <1>n DEF TypeOK, Guarantee, LockAt, InSession, Owning, Staged, Going,
     Writing, Move, LeaveSession, Receipt, Finish
<1>26. ASSUME CloseOwner(p) PROVE Guarantee(q)
  BY <1>26, <1>l, <1>t, <1>n DEF TypeOK, Guarantee, LockAt, InSession, Owning, Staged, Going,
     Writing, Move, CloseOwner
<1>27. ASSUME UnlockRun(p) PROVE Guarantee(q)
  BY <1>27, <1>l, <1>t, <1>n DEF TypeOK, Guarantee, LockAt, InSession, Owning, Staged, Going,
     Writing, Move, UnlockRun, Receipt, Finish
<1>28. ASSUME Die(p) PROVE Guarantee(q)
  BY <1>28, <1>l, <1>t, <1>n DEF TypeOK, Guarantee, LockAt, InSession, Owning, Staged, Going,
     Writing, Move, Die, Freed
<1> QED
  BY <1>1, <1>2, <1>3, <1>4, <1>5, <1>6, <1>7, <1>8, <1>9, <1>10, <1>11, <1>12, <1>13, <1>14,
     <1>15, <1>16, <1>17, <1>18, <1>19, <1>20, <1>21, <1>22, <1>23, <1>24, <1>25, <1>26, <1>27,
     <1>28 DEF StepOf, PrepareStep, CommitStep

\* The worker takes the lock of a Run only when it is free, and frees only its own.
LEMMA WorkerGuaranteed ==
    ASSUME TypeOK, NEW r \in Run, Execute(r) \/ ExecuteEnds(r), NEW q \in Proc
    PROVE  Apart(q) /\ Guarantee(q)
<1>n. q # None /\ q # Worker
  BY ProcAssumption
<1>1. CASE Execute(r)
  BY <1>1, <1>n DEF TypeOK, Apart, Guarantee, Staged, Execute, local
<1>2. CASE ExecuteEnds(r)
  BY <1>2, <1>n DEF TypeOK, Apart, Guarantee, Staged, ExecuteEnds, local
<1> QED
  BY <1>1, <1>2

\* No step takes a manifest, a commit, an event, a work item or a row back.
LEMMA Kept ==
    ASSUME TypeOK, PlaceInv, Next
    PROVE  Monotone
<1> USE DEF files, locks, local
<1>f. \A p \in Client : p \in Run /\ (pc[p] \in {"idle", "write"} => ~Staged(p))
  BY DEF PlaceInv, KeyAt, Preparing, Run
<1>u. UNCHANGED <<ask, manifest, chain, work>> /\ cut \subseteq cut' => Monotone
  BY DEF Monotone, Staged, Committed
<1>1. ASSUME NEW p \in Client, StageUnkeyed(p) PROVE Monotone
  BY <1>1, <1>f DEF TypeOK, Monotone, Staged, Committed, Move, StageUnkeyed
<1>2. ASSUME NEW p \in Client, StageKeyed(p) PROVE Monotone
  BY <1>2, <1>f DEF TypeOK, Monotone, Staged, Committed, Move, StageKeyed
<1>3. ASSUME NEW p \in Proc, MakeDirectory(p) PROVE Monotone
  BY <1>3 DEF TypeOK, Monotone, Staged, Committed, Move, MakeDirectory
<1>4. ASSUME NEW p \in Proc, AppendCreation(p) PROVE Monotone
  BY <1>4 DEF TypeOK, Monotone, Staged, Committed, Move, AppendCreation
<1>5. ASSUME NEW p \in Proc, WriteItem(p) PROVE Monotone
  BY <1>5 DEF TypeOK, Monotone, Staged, Committed, Move, WriteItem
<1>6. ASSUME NEW p \in Proc, WriteRow(p) PROVE Monotone
  BY <1>6 DEF TypeOK, Monotone, Staged, Committed, Move, WriteRow
<1>7. ASSUME NEW p \in Proc, MarkCommitted(p) PROVE Monotone
  BY <1>7 DEF TypeOK, Monotone, Staged, Committed, Move, MarkCommitted
<1>8. ASSUME NEW p \in Client, Dispatch(p) PROVE Monotone
  BY <1>8 DEF TypeOK, Monotone, Staged, Committed, Move, Dispatch
<1>9. ASSUME NEW p \in Client,
      TakeKey(p) \/ KeyBusy(p) \/ Adopt(p) \/ RefuseKey(p) \/ NotFound(p) \/ DispatchRefused(p)
      PROVE  UNCHANGED <<ask, manifest, chain, work>> /\ cut \subseteq cut'
  BY <1>9 DEF TakeKey, KeyBusy, Adopt, RefuseKey, NotFound, DispatchRefused
<1>10. ASSUME NEW p \in Proc, PickManifest(p)
      PROVE  UNCHANGED <<ask, manifest, chain, work>> /\ cut \subseteq cut'
  BY <1>10 DEF PickManifest
<1>11. ASSUME NEW p \in Proc,
      TakeSession(p) \/ SessionBusy(p) \/ TakeRun(p) \/ RunBusy(p) \/ WriteEpoch(p)
      \/ AlreadyCommitted(p)
      PROVE  UNCHANGED <<ask, manifest, chain, work>> /\ cut \subseteq cut'
  BY <1>11 DEF TakeSession, SessionBusy, TakeRun, RunBusy, WriteEpoch, AlreadyCommitted
<1>12. ASSUME NEW p \in Proc,
      ReadSession(p) \/ SaveSession(p) \/ WriteFails(p) \/ LeaveSession(p) \/ CloseOwner(p)
      \/ UnlockRun(p) \/ Die(p)
      PROVE  UNCHANGED <<ask, manifest, chain, work>> /\ cut \subseteq cut'
  BY <1>12 DEF ReadSession, SaveSession, WriteFails, LeaveSession, CloseOwner, UnlockRun, Die
<1>13. ASSUME NEW r \in Run, Execute(r) \/ ExecuteEnds(r)
      PROVE  UNCHANGED <<ask, manifest, chain, work>> /\ cut \subseteq cut'
  BY <1>13 DEF Execute, ExecuteEnds
<1> QED
  BY <1>u, <1>1, <1>2, <1>3, <1>4, <1>5, <1>6, <1>7, <1>8, <1>9, <1>10, <1>11, <1>12, <1>13
     DEF Next, PrepareStep, CommitStep, Proc

\* A new manifest, commit, directory or link comes from the action that writes it.
LEMMA NewIsWritten ==
    ASSUME TypeOK, PlaceInv, Next
    PROVE  Written
<1> USE DEF files, locks, local
<1>f. \A p \in Client : p \in Run /\ p \in Proc
  BY DEF Run, Proc
<1>t. \A p \in Proc : pc[p] \in Going => /\ target[p] \in Run /\ SessionFor(p) \in Session
                                         /\ Staged(target[p])
  BY Targets DEF PlaceInv, PlaceAt, TargetAt
<1>u. UNCHANGED <<manifest, chain, links>> => Written
  BY DEF Written, Staged, Committed
<1>1. ASSUME NEW p \in Client, StageUnkeyed(p) PROVE Written
  BY <1>1, <1>f, <1>t DEF TypeOK, Written, Staged, Committed, Going, Writing, Move, StageUnkeyed
<1>2. ASSUME NEW p \in Client, StageKeyed(p) PROVE Written
  BY <1>2, <1>f, <1>t DEF TypeOK, Written, Staged, Committed, Going, Writing, Move, StageKeyed
<1>3. ASSUME NEW p \in Proc, MakeDirectory(p) PROVE Written
  BY <1>3, <1>f, <1>t DEF TypeOK, Written, Staged, Committed, Going, Writing, Move,
     MakeDirectory
<1>4. ASSUME NEW p \in Proc, AppendCreation(p) PROVE Written
  BY <1>4, <1>f, <1>t DEF TypeOK, Written, Staged, Committed, Going, Writing, Move,
     AppendCreation
<1>5. ASSUME NEW p \in Proc, SaveSession(p) PROVE Written
  BY <1>5, <1>f, <1>t DEF TypeOK, Written, Staged, Committed, Going, Writing, Move, SaveSession
<1>6. ASSUME NEW p \in Proc, MarkCommitted(p) PROVE Written
  BY <1>6, <1>f, <1>t DEF TypeOK, Written, Staged, Committed, Going, Writing, Move,
     MarkCommitted
<1>7. ASSUME NEW p \in Client,
      TakeKey(p) \/ KeyBusy(p) \/ Adopt(p) \/ RefuseKey(p) \/ NotFound(p) \/ Dispatch(p)
      \/ DispatchRefused(p)
      PROVE  UNCHANGED <<manifest, chain, links>>
  BY <1>7 DEF TakeKey, KeyBusy, Adopt, RefuseKey, NotFound, Dispatch, DispatchRefused
<1>8. ASSUME NEW p \in Proc, PickManifest(p)
      PROVE  UNCHANGED <<manifest, chain, links>>
  BY <1>8 DEF PickManifest
<1>9. ASSUME NEW p \in Proc,
      TakeSession(p) \/ SessionBusy(p) \/ TakeRun(p) \/ RunBusy(p) \/ WriteEpoch(p)
      \/ AlreadyCommitted(p) \/ ReadSession(p)
      PROVE  UNCHANGED <<manifest, chain, links>>
  BY <1>9 DEF TakeSession, SessionBusy, TakeRun, RunBusy, WriteEpoch, AlreadyCommitted,
     ReadSession
<1>10. ASSUME NEW p \in Proc,
      WriteItem(p) \/ WriteRow(p) \/ WriteFails(p) \/ LeaveSession(p) \/ CloseOwner(p)
      \/ UnlockRun(p) \/ Die(p)
      PROVE  UNCHANGED <<manifest, chain, links>>
  BY <1>10 DEF WriteItem, WriteRow, WriteFails, LeaveSession, CloseOwner, UnlockRun, Die
<1>11. ASSUME NEW r \in Run, Execute(r) \/ ExecuteEnds(r)
      PROVE  UNCHANGED <<manifest, chain, links>>
  BY <1>11 DEF Execute, ExecuteEnds
<1> QED
  BY <1>u, <1>1, <1>2, <1>3, <1>4, <1>5, <1>6, <1>7, <1>8, <1>9, <1>10, <1>11 DEF Next,
     PrepareStep, CommitStep, Proc

\* What one process has reached, no other takes away.
LEMMA Stable ==
    ASSUME TypeOK, PlaceInv, NEW q \in Proc, Apart(q), Guarantee(q), Monotone
    PROVE  /\ q \in Client => KeyAt(q)'
           /\ PlaceAt(q)'
<1>t. pc[q] \in Going => target[q] \in Run /\ SessionFor(q) \in Session
  BY Targets
<1>s. SessionFor(q)' = SessionFor(q)
  BY DEF SessionFor, Monotone, Apart
<1>l. LockAt(q) /\ HeldAt(q) /\ TargetAt(q) /\ OutcomeAt(q) /\ ProgressAt(q)
  BY DEF PlaceInv, PlaceAt
<1>o. Owning(q) => pc[q] \in Going
  BY DEF Owning, Going
<1>i. InSession(q) => pc[q] \in Going
  BY DEF InSession, Going
<1>1. q \in Client => KeyAt(q)'
  <2>1. q \in Client => q \in Run /\ KeyAt(q) /\ (ask[q].key # None => ask[q].key \in Key)
    BY DEF PlaceInv, Run, TypeOK, Request
  <2> QED
    BY <2>1 DEF KeyAt, Guarantee, Apart, Monotone, Preparing
<1>2. TargetAt(q)'
  BY <1>l DEF TargetAt, Apart, Monotone
<1>3. LockAt(q)'
  BY <1>l, <1>t, <1>s, <1>o, <1>i DEF LockAt, InSession, Owning, Apart, Guarantee
<1>4. HeldAt(q)'
  BY <1>l, <1>t, <1>o DEF HeldAt, LockAt, Owning, Apart, Guarantee
<1>5. OutcomeAt(q)'
  BY <1>l DEF OutcomeAt, TargetAt, Apart, Monotone
<1>6. ProgressAt(q)'
  <2>1. pc[q] \in Writing => runLock[target[q]] = q /\ sessionLock[SessionFor(q)] = q
        /\ pc[q] \in Going
    BY <1>l DEF LockAt, InSession, Owning, Going
  <2>2. pc[q] \in Writing => (Committed(target[q])' => Committed(target[q]))
    BY <1>l, <1>t, <2>1 DEF TargetAt, Going, Committed, Guarantee, Apart
  <2> QED
    BY <1>l, <1>t, <1>s, <2>1, <2>2 DEF ProgressAt, Writing, Apart, Guarantee, Monotone
<1> QED
  BY <1>1, <1>2, <1>3, <1>4, <1>5, <1>6 DEF PlaceAt

\* What the place of a process says of it holds after each of its own steps.
LEMMA Reached ==
    ASSUME TypeOK, PlaceInv, ChainInv, NEW p \in Proc, StepOf(p), Monotone
    PROVE  (p \in Client => KeyAt(p)') /\ PlaceAt(p)'
<1> USE DEF files, locks, local
<1>w. {"done", "session", "find", "again", "stage", "write", "own", "epoch", "letSession",
       "close", "unlock", "dispatch", "idle"} \cup Writing \subseteq Step
  BY DEF Step, Writing
<1>m. \A from, to \in Step : Move(p, from, to) => pc[p] = from /\ pc'[p] = to
  BY DEF TypeOK, Move
<1>e. \A o : EndWith(p, o) =>
        /\ pc'[p] = (IF p \in Client THEN "done" ELSE "idle")
        /\ \/ p \in Client /\ o = "receipt" /\ outcome'[p] = "receipt" /\ target'[p] = target[p]
           \/ outcome'[p] = "none" /\ target'[p] = None
  BY DEF TypeOK, EndWith
<1>t. pc[p] \in Going => target[p] \in Run /\ SessionFor(p) \in Session
  BY Targets
<1>l. /\ (p \in Client => KeyAt(p) /\ p \in Run) /\ PlaceAt(p) /\ p # None
      /\ target[p] \in Run \cup {None} /\ outcome[p] \in Result /\ held[p] \in Nat
  BY ProcAssumption DEF PlaceInv, TypeOK, Run, Result
<1>a. ask' = ask
  BY DEF Monotone
<1>k. p \in Client => ask[p].key \in Key \cup {None} /\ p \notin Recoverer
  BY ProcAssumption DEF TypeOK, Request
<1>1. ASSUME p \in Client, StageUnkeyed(p) PROVE (p \in Client => KeyAt(p)') /\ PlaceAt(p)'
  <2>1. (p \in Client => KeyAt(p)') /\ TargetAt(p)'
    BY <1>1, <1>m, <1>w, <1>l, <1>a DEF KeyAt, Preparing, PlaceAt, TargetAt, Going, TypeOK,
       Staged, Writing, StageUnkeyed
  <2>2. LockAt(p)' /\ HeldAt(p)' /\ OutcomeAt(p)'
    BY <1>1, <1>m, <1>w, <1>l, <1>a DEF PlaceAt, LockAt, HeldAt, OutcomeAt, InSession, Owning,
       SessionFor, Preparing, TargetAt, Committed, Going, TypeOK, Result, Writing, StageUnkeyed
  <2>3. ProgressAt(p)'
    BY <1>1, <1>m, <1>w, <1>l, <1>a DEF PlaceAt, ProgressAt, Committed, SessionFor, Going,
       TypeOK, Writing, StageUnkeyed
  <2> QED
    BY <2>1, <2>2, <2>3 DEF PlaceAt
<1>2. ASSUME p \in Client, TakeKey(p) PROVE (p \in Client => KeyAt(p)') /\ PlaceAt(p)'
  <2>1. (p \in Client => KeyAt(p)') /\ TargetAt(p)'
    BY <1>2, <1>m, <1>w, <1>l, <1>a, <1>k DEF KeyAt, Preparing, PlaceAt, TargetAt, Going,
       TypeOK, Staged, Writing, TakeKey
  <2>2. LockAt(p)' /\ HeldAt(p)' /\ OutcomeAt(p)'
    BY <1>2, <1>m, <1>w, <1>l, <1>a DEF PlaceAt, LockAt, HeldAt, OutcomeAt, InSession, Owning,
       SessionFor, Preparing, TargetAt, Committed, Going, TypeOK, Result, Writing, TakeKey
  <2>3. ProgressAt(p)'
    BY <1>2, <1>m, <1>w, <1>l, <1>a DEF PlaceAt, ProgressAt, Committed, SessionFor, Going,
       TypeOK, Writing, TakeKey
  <2> QED
    BY <2>1, <2>2, <2>3 DEF PlaceAt
<1>3. ASSUME p \in Client, KeyBusy(p) PROVE (p \in Client => KeyAt(p)') /\ PlaceAt(p)'
  <2>1. (p \in Client => KeyAt(p)') /\ TargetAt(p)'
    BY <1>3, <1>e, <1>l, <1>a DEF KeyAt, Preparing, PlaceAt, TargetAt, Going, TypeOK, Staged,
       Writing, KeyBusy, Finish
  <2>2. LockAt(p)' /\ HeldAt(p)' /\ OutcomeAt(p)'
    BY <1>3, <1>e, <1>l, <1>a DEF PlaceAt, LockAt, HeldAt, OutcomeAt, InSession, Owning,
       SessionFor, Preparing, TargetAt, Committed, Going, TypeOK, Result, Writing, KeyBusy,
       Finish
  <2>3. ProgressAt(p)'
    BY <1>3, <1>e, <1>l, <1>a DEF PlaceAt, ProgressAt, Committed, SessionFor, Going, TypeOK,
       Writing, KeyBusy, Finish
  <2> QED
    BY <2>1, <2>2, <2>3 DEF PlaceAt
<1>4. ASSUME p \in Client, Adopt(p) PROVE (p \in Client => KeyAt(p)') /\ PlaceAt(p)'
  <2>1. (p \in Client => KeyAt(p)') /\ TargetAt(p)'
    <3>1. PICK r \in Bound(p) : target' = [target EXCEPT ![p] = r]
      BY <1>4 DEF Adopt
    <3>2. r \in Run /\ Staged(r) /\ ask[r].key = ask[p].key /\ ask[r].session = ask[p].session
      BY <1>4, <3>1 DEF Adopt, Bound, Conflict
    <3>3. pc[p] \in {"find", "stage"} /\ ask[p].key # None
      BY <1>4, <1>m, <1>w, <1>l DEF Adopt, KeyAt
    <3>4. ask[r] = ask[p]
      BY <3>2, <1>4 DEF TypeOK, Request, Adopt, Run
    <3>5. target'[p] = r /\ manifest' = manifest
      BY <1>4, <3>1 DEF TypeOK, Adopt
    <3> QED
      BY <1>4, <1>m, <1>w, <1>l, <3>2, <3>3, <3>4, <3>5, <1>a DEF TargetAt, Staged, KeyAt,
         Preparing, Adopt
  <2>2. LockAt(p)' /\ HeldAt(p)' /\ OutcomeAt(p)'
    BY <1>4, <1>m, <1>w, <1>l, <1>a DEF PlaceAt, LockAt, HeldAt, OutcomeAt, InSession, Owning,
       SessionFor, Preparing, TargetAt, Committed, Going, TypeOK, Result, Writing, Adopt,
       DropKey
  <2>3. ProgressAt(p)'
    BY <1>4, <1>m, <1>w, <1>l, <1>a DEF PlaceAt, ProgressAt, Committed, SessionFor, Going,
       TypeOK, Writing, Adopt, DropKey
  <2> QED
    BY <2>1, <2>2, <2>3 DEF PlaceAt
<1>5. ASSUME p \in Client, RefuseKey(p) PROVE (p \in Client => KeyAt(p)') /\ PlaceAt(p)'
  <2>1. (p \in Client => KeyAt(p)') /\ TargetAt(p)'
    BY <1>5, <1>e, <1>l, <1>a DEF KeyAt, Preparing, PlaceAt, TargetAt, Going, TypeOK, Staged,
       Writing, RefuseKey, Finish, DropKey
  <2>2. LockAt(p)' /\ HeldAt(p)' /\ OutcomeAt(p)'
    BY <1>5, <1>e, <1>l, <1>a DEF PlaceAt, LockAt, HeldAt, OutcomeAt, InSession, Owning,
       SessionFor, Preparing, TargetAt, Committed, Going, TypeOK, Result, Writing, RefuseKey,
       Finish, DropKey
  <2>3. ProgressAt(p)'
    BY <1>5, <1>e, <1>l, <1>a DEF PlaceAt, ProgressAt, Committed, SessionFor, Going, TypeOK,
       Writing, RefuseKey, Finish, DropKey
  <2> QED
    BY <2>1, <2>2, <2>3 DEF PlaceAt
<1>6. ASSUME p \in Client, NotFound(p) PROVE (p \in Client => KeyAt(p)') /\ PlaceAt(p)'
  <2>1. (p \in Client => KeyAt(p)') /\ TargetAt(p)'
    BY <1>6, <1>m, <1>w, <1>l, <1>a, <1>k DEF KeyAt, Preparing, PlaceAt, TargetAt, Going,
       TypeOK, Staged, Writing, NotFound, DropKey, Bound
  <2>2. LockAt(p)' /\ HeldAt(p)' /\ OutcomeAt(p)'
    BY <1>6, <1>m, <1>w, <1>l, <1>a DEF PlaceAt, LockAt, HeldAt, OutcomeAt, InSession, Owning,
       SessionFor, Preparing, TargetAt, Committed, Going, TypeOK, Result, Writing, NotFound,
       DropKey
  <2>3. ProgressAt(p)'
    BY <1>6, <1>m, <1>w, <1>l, <1>a DEF PlaceAt, ProgressAt, Committed, SessionFor, Going,
       TypeOK, Writing, NotFound, DropKey
  <2> QED
    BY <2>1, <2>2, <2>3 DEF PlaceAt
<1>7. ASSUME p \in Client, StageKeyed(p) PROVE (p \in Client => KeyAt(p)') /\ PlaceAt(p)'
  <2>1. (p \in Client => KeyAt(p)') /\ TargetAt(p)'
    BY <1>7, <1>m, <1>w, <1>l, <1>a DEF KeyAt, Preparing, PlaceAt, TargetAt, Going, TypeOK,
       Staged, Writing, StageKeyed, DropKey
  <2>2. LockAt(p)' /\ HeldAt(p)' /\ OutcomeAt(p)'
    BY <1>7, <1>m, <1>w, <1>l, <1>a DEF PlaceAt, LockAt, HeldAt, OutcomeAt, InSession, Owning,
       SessionFor, Preparing, TargetAt, Committed, Going, TypeOK, Result, Writing, StageKeyed,
       DropKey
  <2>3. ProgressAt(p)'
    BY <1>7, <1>m, <1>w, <1>l, <1>a DEF PlaceAt, ProgressAt, Committed, SessionFor, Going,
       TypeOK, Writing, StageKeyed, DropKey
  <2> QED
    BY <2>1, <2>2, <2>3 DEF PlaceAt
<1>8. ASSUME p \in Client, Dispatch(p) PROVE (p \in Client => KeyAt(p)') /\ PlaceAt(p)'
  <2>1. (p \in Client => KeyAt(p)') /\ TargetAt(p)'
    BY <1>8, <1>e, <1>l, <1>a DEF KeyAt, Preparing, PlaceAt, TargetAt, Going, TypeOK, Staged,
       Writing, Dispatch, Finish
  <2>2. LockAt(p)' /\ HeldAt(p)' /\ OutcomeAt(p)'
    BY <1>8, <1>e, <1>l, <1>a DEF PlaceAt, LockAt, HeldAt, OutcomeAt, InSession, Owning,
       SessionFor, Preparing, TargetAt, Committed, Going, TypeOK, Result, Writing, Dispatch,
       Finish
  <2>3. ProgressAt(p)'
    BY <1>8, <1>e, <1>l, <1>a DEF PlaceAt, ProgressAt, Committed, SessionFor, Going, TypeOK,
       Writing, Dispatch, Finish
  <2> QED
    BY <2>1, <2>2, <2>3 DEF PlaceAt
<1>9. ASSUME p \in Client, DispatchRefused(p) PROVE (p \in Client => KeyAt(p)') /\ PlaceAt(p)'
  <2>1. (p \in Client => KeyAt(p)') /\ TargetAt(p)'
    BY <1>9, <1>e, <1>l, <1>a DEF KeyAt, Preparing, PlaceAt, TargetAt, Going, TypeOK, Staged,
       Writing, DispatchRefused, Finish
  <2>2. LockAt(p)' /\ HeldAt(p)' /\ OutcomeAt(p)'
    BY <1>9, <1>e, <1>l, <1>a DEF PlaceAt, LockAt, HeldAt, OutcomeAt, InSession, Owning,
       SessionFor, Preparing, TargetAt, Committed, Going, TypeOK, Result, Writing,
       DispatchRefused, Finish
  <2>3. ProgressAt(p)'
    BY <1>9, <1>e, <1>l, <1>a DEF PlaceAt, ProgressAt, Committed, SessionFor, Going, TypeOK,
       Writing, DispatchRefused, Finish
  <2> QED
    BY <2>1, <2>2, <2>3 DEF PlaceAt
<1>10. ASSUME p \in Recoverer, PickManifest(p) PROVE (p \in Client => KeyAt(p)') /\ PlaceAt(p)'
  <2>1. (p \in Client => KeyAt(p)') /\ TargetAt(p)'
    BY <1>10, <1>m, <1>w, <1>l, <1>a, <1>k DEF KeyAt, Preparing, PlaceAt, TargetAt, Going,
       TypeOK, Staged, Writing, PickManifest
  <2>2. LockAt(p)' /\ HeldAt(p)' /\ OutcomeAt(p)'
    BY <1>10, <1>m, <1>w, <1>l, <1>a DEF PlaceAt, LockAt, HeldAt, OutcomeAt, InSession, Owning,
       SessionFor, Preparing, TargetAt, Committed, Going, TypeOK, Result, Writing, PickManifest
  <2>3. ProgressAt(p)'
    BY <1>10, <1>m, <1>w, <1>l, <1>a DEF PlaceAt, ProgressAt, Committed, SessionFor, Going,
       TypeOK, Writing, PickManifest
  <2> QED
    BY <2>1, <2>2, <2>3 DEF PlaceAt
<1>11. ASSUME TakeSession(p) PROVE (p \in Client => KeyAt(p)') /\ PlaceAt(p)'
  <2>1. (p \in Client => KeyAt(p)') /\ TargetAt(p)'
    BY <1>11, <1>m, <1>w, <1>t, <1>l, <1>a DEF KeyAt, Preparing, PlaceAt, TargetAt, Going,
       TypeOK, Staged, Writing, TakeSession
  <2>2. LockAt(p)' /\ HeldAt(p)' /\ OutcomeAt(p)'
    BY <1>11, <1>m, <1>w, <1>t, <1>l, <1>a DEF PlaceAt, LockAt, HeldAt, OutcomeAt, InSession,
       Owning, SessionFor, Preparing, TargetAt, Committed, Going, TypeOK, Result, Writing,
       TakeSession
  <2>3. ProgressAt(p)'
    BY <1>11, <1>m, <1>w, <1>t, <1>l, <1>a DEF PlaceAt, ProgressAt, Committed, SessionFor,
       Going, TypeOK, Writing, TakeSession
  <2> QED
    BY <2>1, <2>2, <2>3 DEF PlaceAt
<1>12. ASSUME SessionBusy(p) PROVE (p \in Client => KeyAt(p)') /\ PlaceAt(p)'
  <2>1. (p \in Client => KeyAt(p)') /\ TargetAt(p)'
    BY <1>12, <1>m, <1>w, <1>e, <1>t, <1>l, <1>a DEF KeyAt, Preparing, PlaceAt, TargetAt,
       Going, TypeOK, Staged, Writing, SessionBusy
  <2>2. LockAt(p)' /\ HeldAt(p)' /\ OutcomeAt(p)'
    BY <1>12, <1>m, <1>w, <1>e, <1>t, <1>l, <1>a DEF PlaceAt, LockAt, HeldAt, OutcomeAt,
       InSession, Owning, SessionFor, Preparing, TargetAt, Committed, Going, TypeOK, Result,
       Writing, SessionBusy
  <2>3. ProgressAt(p)'
    BY <1>12, <1>m, <1>w, <1>e, <1>t, <1>l, <1>a DEF PlaceAt, ProgressAt, Committed,
       SessionFor, Going, TypeOK, Writing, SessionBusy
  <2> QED
    BY <2>1, <2>2, <2>3 DEF PlaceAt
<1>13. ASSUME TakeRun(p) PROVE (p \in Client => KeyAt(p)') /\ PlaceAt(p)'
  <2>1. (p \in Client => KeyAt(p)') /\ TargetAt(p)'
    BY <1>13, <1>m, <1>w, <1>t, <1>l, <1>a DEF KeyAt, Preparing, PlaceAt, TargetAt, Going,
       TypeOK, Staged, Writing, TakeRun
  <2>2. LockAt(p)' /\ HeldAt(p)' /\ OutcomeAt(p)'
    BY <1>13, <1>m, <1>w, <1>t, <1>l, <1>a DEF PlaceAt, LockAt, HeldAt, OutcomeAt, InSession,
       Owning, SessionFor, Preparing, TargetAt, Committed, Going, TypeOK, Result, Writing,
       TakeRun
  <2>3. ProgressAt(p)'
    BY <1>13, <1>m, <1>w, <1>t, <1>l, <1>a DEF PlaceAt, ProgressAt, Committed, SessionFor,
       Going, TypeOK, Writing, TakeRun
  <2> QED
    BY <2>1, <2>2, <2>3 DEF PlaceAt
<1>14. ASSUME RunBusy(p) PROVE (p \in Client => KeyAt(p)') /\ PlaceAt(p)'
  <2>1. (p \in Client => KeyAt(p)') /\ TargetAt(p)'
    BY <1>14, <1>m, <1>w, <1>t, <1>l, <1>a DEF KeyAt, Preparing, PlaceAt, TargetAt, Going,
       TypeOK, Staged, Writing, RunBusy
  <2>2. LockAt(p)' /\ HeldAt(p)' /\ OutcomeAt(p)'
    BY <1>14, <1>m, <1>w, <1>t, <1>l, <1>a DEF PlaceAt, LockAt, HeldAt, OutcomeAt, InSession,
       Owning, SessionFor, Preparing, TargetAt, Committed, Going, TypeOK, Result, Writing,
       RunBusy
  <2>3. ProgressAt(p)'
    BY <1>14, <1>m, <1>w, <1>t, <1>l, <1>a DEF PlaceAt, ProgressAt, Committed, SessionFor,
       Going, TypeOK, Writing, RunBusy
  <2> QED
    BY <2>1, <2>2, <2>3 DEF PlaceAt
<1>15. ASSUME WriteEpoch(p) PROVE (p \in Client => KeyAt(p)') /\ PlaceAt(p)'
  <2>1. (p \in Client => KeyAt(p)') /\ TargetAt(p)'
    BY <1>15, <1>m, <1>w, <1>t, <1>l, <1>a DEF KeyAt, Preparing, PlaceAt, TargetAt, Going,
       TypeOK, Staged, Writing, WriteEpoch
  <2>2. LockAt(p)' /\ HeldAt(p)' /\ OutcomeAt(p)'
    BY <1>15, <1>m, <1>w, <1>t, <1>l, <1>a DEF PlaceAt, LockAt, HeldAt, OutcomeAt, InSession,
       Owning, SessionFor, Preparing, TargetAt, Committed, Going, TypeOK, Result, Writing,
       WriteEpoch
  <2>3. ProgressAt(p)'
    BY <1>15, <1>m, <1>w, <1>t, <1>l, <1>a DEF PlaceAt, ProgressAt, Committed, SessionFor,
       Going, TypeOK, Writing, WriteEpoch
  <2> QED
    BY <2>1, <2>2, <2>3 DEF PlaceAt
<1>16. ASSUME AlreadyCommitted(p) PROVE (p \in Client => KeyAt(p)') /\ PlaceAt(p)'
  <2>1. (p \in Client => KeyAt(p)') /\ TargetAt(p)'
    BY <1>16, <1>m, <1>w, <1>t, <1>l, <1>a DEF KeyAt, Preparing, PlaceAt, TargetAt, Going,
       TypeOK, Staged, Writing, AlreadyCommitted
  <2>2. LockAt(p)' /\ HeldAt(p)' /\ OutcomeAt(p)'
    BY <1>16, <1>m, <1>w, <1>t, <1>l, <1>a DEF PlaceAt, LockAt, HeldAt, OutcomeAt, InSession,
       Owning, SessionFor, Preparing, TargetAt, Committed, Going, TypeOK, Result, Writing,
       AlreadyCommitted
  <2>3. ProgressAt(p)'
    BY <1>16, <1>m, <1>w, <1>t, <1>l, <1>a DEF PlaceAt, ProgressAt, Committed, SessionFor,
       Going, TypeOK, Writing, AlreadyCommitted
  <2> QED
    BY <2>1, <2>2, <2>3 DEF PlaceAt
<1>17. ASSUME MakeDirectory(p) PROVE (p \in Client => KeyAt(p)') /\ PlaceAt(p)'
  <2>1. (p \in Client => KeyAt(p)') /\ TargetAt(p)'
    BY <1>17, <1>m, <1>w, <1>t, <1>l, <1>a DEF KeyAt, Preparing, PlaceAt, TargetAt, Going,
       TypeOK, Staged, Writing, MakeDirectory
  <2>2. LockAt(p)' /\ HeldAt(p)' /\ OutcomeAt(p)'
    BY <1>17, <1>m, <1>w, <1>t, <1>l, <1>a DEF PlaceAt, LockAt, HeldAt, OutcomeAt, InSession,
       Owning, SessionFor, Preparing, TargetAt, Committed, Going, TypeOK, Result, Writing,
       MakeDirectory
  <2>3. ProgressAt(p)'
    <3>1. pc[p] = "directory" /\ ~Committed(target[p]) /\ target[p] \in Run
      BY <1>17, <1>m, <1>w, <1>t DEF MakeDirectory, Going, Writing
    <3>2. chain[target[p]] = "directory" => target[p] \in cut
      <4>1. ASSUME NEW q \in Proc, pc[q] = "event", target[q] = target[p] PROVE FALSE
        BY <4>1, <3>1 DEF PlaceInv, PlaceAt, LockAt, Owning, Writing
      <4> QED
        BY <3>1, <4>1 DEF ChainInv
    <3> QED
      BY <1>17, <1>m, <1>w, <1>l, <3>1, <3>2 DEF ProgressAt, Committed, TypeOK, Writing,
         MakeDirectory
  <2> QED
    BY <2>1, <2>2, <2>3 DEF PlaceAt
<1>18. ASSUME AppendCreation(p) PROVE (p \in Client => KeyAt(p)') /\ PlaceAt(p)'
  <2>1. (p \in Client => KeyAt(p)') /\ TargetAt(p)'
    BY <1>18, <1>m, <1>w, <1>t, <1>l, <1>a DEF KeyAt, Preparing, PlaceAt, TargetAt, Going,
       TypeOK, Staged, Writing, AppendCreation
  <2>2. LockAt(p)' /\ HeldAt(p)' /\ OutcomeAt(p)'
    BY <1>18, <1>m, <1>w, <1>t, <1>l, <1>a DEF PlaceAt, LockAt, HeldAt, OutcomeAt, InSession,
       Owning, SessionFor, Preparing, TargetAt, Committed, Going, TypeOK, Result, Writing,
       AppendCreation
  <2>3. ProgressAt(p)'
    BY <1>18, <1>m, <1>w, <1>t, <1>l, <1>a DEF PlaceAt, ProgressAt, Committed, SessionFor,
       Going, TypeOK, Writing, AppendCreation
  <2> QED
    BY <2>1, <2>2, <2>3 DEF PlaceAt
<1>19. ASSUME ReadSession(p) PROVE (p \in Client => KeyAt(p)') /\ PlaceAt(p)'
  <2>1. (p \in Client => KeyAt(p)') /\ TargetAt(p)'
    BY <1>19, <1>m, <1>w, <1>t, <1>l, <1>a DEF KeyAt, Preparing, PlaceAt, TargetAt, Going,
       TypeOK, Staged, Writing, ReadSession
  <2>2. LockAt(p)' /\ HeldAt(p)' /\ OutcomeAt(p)'
    BY <1>19, <1>m, <1>w, <1>t, <1>l, <1>a DEF PlaceAt, LockAt, HeldAt, OutcomeAt, InSession,
       Owning, SessionFor, Preparing, TargetAt, Committed, Going, TypeOK, Result, Writing,
       ReadSession
  <2>3. ProgressAt(p)'
    BY <1>19, <1>m, <1>w, <1>t, <1>l, <1>a DEF PlaceAt, ProgressAt, Committed, SessionFor,
       Going, TypeOK, Writing, ReadSession
  <2> QED
    BY <2>1, <2>2, <2>3 DEF PlaceAt
<1>20. ASSUME SaveSession(p) PROVE (p \in Client => KeyAt(p)') /\ PlaceAt(p)'
  <2>1. (p \in Client => KeyAt(p)') /\ TargetAt(p)'
    BY <1>20, <1>m, <1>w, <1>t, <1>l, <1>a DEF KeyAt, Preparing, PlaceAt, TargetAt, Going,
       TypeOK, Staged, Writing, SaveSession
  <2>2. LockAt(p)' /\ HeldAt(p)' /\ OutcomeAt(p)'
    BY <1>20, <1>m, <1>w, <1>t, <1>l, <1>a DEF PlaceAt, LockAt, HeldAt, OutcomeAt, InSession,
       Owning, SessionFor, Preparing, TargetAt, Committed, Going, TypeOK, Result, Writing,
       SaveSession
  <2>3. ProgressAt(p)'
    BY <1>20, <1>m, <1>w, <1>t, <1>l, <1>a DEF PlaceAt, ProgressAt, Committed, SessionFor,
       Going, TypeOK, Writing, SaveSession
  <2> QED
    BY <2>1, <2>2, <2>3 DEF PlaceAt
<1>21. ASSUME WriteItem(p) PROVE (p \in Client => KeyAt(p)') /\ PlaceAt(p)'
  <2>1. (p \in Client => KeyAt(p)') /\ TargetAt(p)'
    BY <1>21, <1>m, <1>w, <1>t, <1>l, <1>a DEF KeyAt, Preparing, PlaceAt, TargetAt, Going,
       TypeOK, Staged, Writing, WriteItem
  <2>2. LockAt(p)' /\ HeldAt(p)' /\ OutcomeAt(p)'
    BY <1>21, <1>m, <1>w, <1>t, <1>l, <1>a DEF PlaceAt, LockAt, HeldAt, OutcomeAt, InSession,
       Owning, SessionFor, Preparing, TargetAt, Committed, Going, TypeOK, Result, Writing,
       WriteItem
  <2>3. ProgressAt(p)'
    BY <1>21, <1>m, <1>w, <1>t, <1>l, <1>a DEF PlaceAt, ProgressAt, Committed, SessionFor,
       Going, TypeOK, Writing, WriteItem
  <2> QED
    BY <2>1, <2>2, <2>3 DEF PlaceAt
<1>22. ASSUME WriteRow(p) PROVE (p \in Client => KeyAt(p)') /\ PlaceAt(p)'
  <2>1. (p \in Client => KeyAt(p)') /\ TargetAt(p)'
    BY <1>22, <1>m, <1>w, <1>t, <1>l, <1>a DEF KeyAt, Preparing, PlaceAt, TargetAt, Going,
       TypeOK, Staged, Writing, WriteRow
  <2>2. LockAt(p)' /\ HeldAt(p)' /\ OutcomeAt(p)'
    BY <1>22, <1>m, <1>w, <1>t, <1>l, <1>a DEF PlaceAt, LockAt, HeldAt, OutcomeAt, InSession,
       Owning, SessionFor, Preparing, TargetAt, Committed, Going, TypeOK, Result, Writing,
       WriteRow
  <2>3. ProgressAt(p)'
    BY <1>22, <1>m, <1>w, <1>t, <1>l, <1>a DEF PlaceAt, ProgressAt, Committed, SessionFor,
       Going, TypeOK, Writing, WriteRow
  <2> QED
    BY <2>1, <2>2, <2>3 DEF PlaceAt
<1>23. ASSUME MarkCommitted(p) PROVE (p \in Client => KeyAt(p)') /\ PlaceAt(p)'
  <2>1. (p \in Client => KeyAt(p)') /\ TargetAt(p)'
    BY <1>23, <1>m, <1>w, <1>t, <1>l, <1>a DEF KeyAt, Preparing, PlaceAt, TargetAt, Going,
       TypeOK, Staged, Writing, MarkCommitted
  <2>2. LockAt(p)' /\ HeldAt(p)' /\ OutcomeAt(p)'
    BY <1>23, <1>m, <1>w, <1>t, <1>l, <1>a DEF PlaceAt, LockAt, HeldAt, OutcomeAt, InSession,
       Owning, SessionFor, Preparing, TargetAt, Committed, Going, TypeOK, Result, Writing,
       MarkCommitted
  <2>3. ProgressAt(p)'
    BY <1>23, <1>m, <1>w, <1>t, <1>l, <1>a DEF PlaceAt, ProgressAt, Committed, SessionFor,
       Going, TypeOK, Writing, MarkCommitted
  <2> QED
    BY <2>1, <2>2, <2>3 DEF PlaceAt
<1>24. ASSUME WriteFails(p) PROVE (p \in Client => KeyAt(p)') /\ PlaceAt(p)'
  <2>1. (p \in Client => KeyAt(p)') /\ TargetAt(p)'
    BY <1>24, <1>t, <1>l, <1>a DEF KeyAt, Preparing, PlaceAt, TargetAt, Going, TypeOK, Staged,
       Writing, WriteFails
  <2>2. LockAt(p)' /\ HeldAt(p)' /\ OutcomeAt(p)'
    BY <1>24, <1>t, <1>l, <1>a DEF PlaceAt, LockAt, HeldAt, OutcomeAt, InSession, Owning,
       SessionFor, Preparing, TargetAt, Committed, Going, TypeOK, Result, Writing, WriteFails
  <2>3. ProgressAt(p)'
    BY <1>24, <1>t, <1>l, <1>a DEF PlaceAt, ProgressAt, Committed, SessionFor, Going, TypeOK,
       Writing, WriteFails
  <2> QED
    BY <2>1, <2>2, <2>3 DEF PlaceAt
<1>25. ASSUME LeaveSession(p) PROVE (p \in Client => KeyAt(p)') /\ PlaceAt(p)'
  <2>1. (p \in Client => KeyAt(p)') /\ TargetAt(p)'
    BY <1>25, <1>m, <1>w, <1>e, <1>t, <1>l, <1>a DEF KeyAt, Preparing, PlaceAt, TargetAt,
       Going, TypeOK, Staged, Writing, LeaveSession, Receipt, Finish
  <2>2. LockAt(p)' /\ HeldAt(p)' /\ OutcomeAt(p)'
    BY <1>25, <1>m, <1>w, <1>e, <1>t, <1>l, <1>a DEF PlaceAt, LockAt, HeldAt, OutcomeAt,
       InSession, Owning, SessionFor, Preparing, TargetAt, Committed, Going, TypeOK, Result,
       Writing, LeaveSession, Receipt, Finish
  <2>3. ProgressAt(p)'
    BY <1>25, <1>m, <1>w, <1>e, <1>t, <1>l, <1>a DEF PlaceAt, ProgressAt, Committed,
       SessionFor, Going, TypeOK, Writing, LeaveSession, Receipt, Finish
  <2> QED
    BY <2>1, <2>2, <2>3 DEF PlaceAt
<1>26. ASSUME CloseOwner(p) PROVE (p \in Client => KeyAt(p)') /\ PlaceAt(p)'
  <2>1. (p \in Client => KeyAt(p)') /\ TargetAt(p)'
    BY <1>26, <1>m, <1>w, <1>t, <1>l, <1>a DEF KeyAt, Preparing, PlaceAt, TargetAt, Going,
       TypeOK, Staged, Writing, CloseOwner
  <2>2. LockAt(p)' /\ HeldAt(p)' /\ OutcomeAt(p)'
    BY <1>26, <1>m, <1>w, <1>t, <1>l, <1>a DEF PlaceAt, LockAt, HeldAt, OutcomeAt, InSession,
       Owning, SessionFor, Preparing, TargetAt, Committed, Going, TypeOK, Result, Writing,
       CloseOwner
  <2>3. ProgressAt(p)'
    BY <1>26, <1>m, <1>w, <1>t, <1>l, <1>a DEF PlaceAt, ProgressAt, Committed, SessionFor,
       Going, TypeOK, Writing, CloseOwner
  <2> QED
    BY <2>1, <2>2, <2>3 DEF PlaceAt
<1>27. ASSUME UnlockRun(p) PROVE (p \in Client => KeyAt(p)') /\ PlaceAt(p)'
  <2>1. (p \in Client => KeyAt(p)') /\ TargetAt(p)'
    BY <1>27, <1>m, <1>w, <1>e, <1>t, <1>l, <1>a DEF KeyAt, Preparing, PlaceAt, TargetAt,
       Going, TypeOK, Staged, Writing, UnlockRun, Receipt, Finish
  <2>2. LockAt(p)' /\ HeldAt(p)' /\ OutcomeAt(p)'
    BY <1>27, <1>m, <1>w, <1>e, <1>t, <1>l, <1>a DEF PlaceAt, LockAt, HeldAt, OutcomeAt,
       InSession, Owning, SessionFor, Preparing, TargetAt, Committed, Going, TypeOK, Result,
       Writing, UnlockRun, Receipt, Finish
  <2>3. ProgressAt(p)'
    BY <1>27, <1>m, <1>w, <1>e, <1>t, <1>l, <1>a DEF PlaceAt, ProgressAt, Committed,
       SessionFor, Going, TypeOK, Writing, UnlockRun, Receipt, Finish
  <2> QED
    BY <2>1, <2>2, <2>3 DEF PlaceAt
<1>28. ASSUME Die(p) PROVE (p \in Client => KeyAt(p)') /\ PlaceAt(p)'
  <2>1. (p \in Client => KeyAt(p)') /\ TargetAt(p)'
    BY <1>28, <1>e, <1>l, <1>a DEF KeyAt, Preparing, PlaceAt, TargetAt, Going, TypeOK, Staged,
       Writing, Die, Freed
  <2>2. LockAt(p)' /\ HeldAt(p)' /\ OutcomeAt(p)'
    BY <1>28, <1>e, <1>l, <1>a DEF PlaceAt, LockAt, HeldAt, OutcomeAt, InSession, Owning,
       SessionFor, Preparing, TargetAt, Committed, Going, TypeOK, Result, Writing, Die, Freed
  <2>3. ProgressAt(p)'
    BY <1>28, <1>e, <1>l, <1>a DEF PlaceAt, ProgressAt, Committed, SessionFor, Going, TypeOK,
       Writing, Die, Freed
  <2> QED
    BY <2>1, <2>2, <2>3 DEF PlaceAt
<1> QED
  BY <1>1, <1>2, <1>3, <1>4, <1>5, <1>6, <1>7, <1>8, <1>9, <1>10, <1>11, <1>12, <1>13, <1>14,
     <1>15, <1>16, <1>17, <1>18, <1>19, <1>20, <1>21, <1>22, <1>23, <1>24, <1>25, <1>26, <1>27,
     <1>28 DEF StepOf, PrepareStep, CommitStep

-----------------------------------------------------------------------------
(* The invariant. *)

\* The initial state has nothing staged and nobody in a call.
LEMMA InvInit == Init => PublicationInv
<1> SUFFICES ASSUME Init PROVE PublicationInv
  OBVIOUS
<1>1. TypeOK
  BY TypeInit
<1>2. \A c \in Client : KeyAt(c)
  BY DEF Init, KeyAt, Staged, Run, Proc, Preparing
<1>3. \A p \in Proc : PlaceAt(p)
  BY DEF Init, PlaceAt, TargetAt, LockAt, HeldAt, OutcomeAt, ProgressAt, InSession, Owning,
     Going,
         Writing, Preparing
<1>4. OneRunPerKey /\ ChainInv /\ RunInv
  BY DEF Init, OneRunPerKey, ChainInv, RunInv, Staged, Committed
<1> QED
  BY <1>1, <1>2, <1>3, <1>4 DEF PublicationInv, PlaceInv

\* A step is one of a process or one of the worker.
LEMMA WhoSteps ==
    ASSUME Next
    PROVE  (\E p \in Proc : StepOf(p)) \/ \E r \in Run : Execute(r) \/ ExecuteEnds(r)
  BY DEF Next, StepOf, Proc

\* Every process is where its place says, after its own steps and after those of others.
LEMMA PlaceStep ==
    ASSUME TypeOK, PlaceInv, ChainInv, Next, Monotone
    PROVE  PlaceInv'
<1>1. CASE \E p \in Proc : StepOf(p)
  <2>1. PICK p \in Proc : StepOf(p)
    BY <1>1
  <2>2. (p \in Client => KeyAt(p)') /\ PlaceAt(p)'
    BY <2>1, Reached
  <2>3. ASSUME NEW q \in Proc \ {p} PROVE (q \in Client => KeyAt(q)') /\ PlaceAt(q)'
    BY <2>1, Elsewhere, Guaranteed, Stable
  <2> QED
    BY <2>2, <2>3 DEF PlaceInv, Proc
<1>2. CASE \E r \in Run : Execute(r) \/ ExecuteEnds(r)
  <2>1. ASSUME NEW q \in Proc PROVE (q \in Client => KeyAt(q)') /\ PlaceAt(q)'
    BY <1>2, WorkerGuaranteed, Stable
  <2> QED
    BY <2>1 DEF PlaceInv, Proc
<1> QED
  BY <1>1, <1>2, WhoSteps

\* A manifest that is new was staged under a key that nothing was found for, or under none.
LEMMA OneRunStep ==
    ASSUME TypeOK, PlaceInv, OneRunPerKey, Monotone, Written
    PROVE  OneRunPerKey'
<1>1. ASSUME NEW r \in Run, Staged(r)', ask[r].key # None, NEW s \in Run, Staged(s)',
      ask[s].key = ask[r].key
      PROVE  Staged(r) \/ r = s \/ ~Staged(s)
  <2>1. CASE r \in Client /\ StageUnkeyed(r)
    BY <1>1, <2>1 DEF StageUnkeyed
  <2>2. CASE r \in Client /\ StageKeyed(r)
    <3>1. KeyAt(r) /\ pc[r] = "write"
      BY <2>2 DEF PlaceInv, StageKeyed, Move
    <3> QED
      BY <1>1, <3>1 DEF KeyAt
  <2> QED
    BY <1>1, <2>1, <2>2 DEF Written
<1>2. ASSUME NEW r \in Run, NEW s \in Run, Staged(r)', Staged(s)', ~Staged(r), ~Staged(s),
      ask[r].key # None,
             ask[s].key # None
      PROVE  r = s
  <2>1. StageKeyed(r) /\ StageKeyed(s) /\ r \in Client /\ s \in Client
    BY <1>2 DEF Written, StageUnkeyed
  <2> QED
    BY <1>2, <2>1 DEF StageKeyed, Staged, TypeOK
<1> QED
  BY <1>1, <1>2 DEF OneRunPerKey, Monotone

\* Whoever leaves the place before the event has appended it, or the creation was cut.
LEMMA ChainStep ==
    ASSUME TypeOK, PlaceInv, ChainInv, Next, Monotone, Written
    PROVE  ChainInv'
<1> SUFFICES ASSUME NEW r \in Run, chain'[r] = "directory"
             PROVE  r \in cut' \/ \E q \in Proc : pc'[q] = "event" /\ target'[q] = r
  BY DEF ChainInv
<1>1. CASE chain[r] # "directory" /\ \E p \in Proc : MakeDirectory(p) /\ target[p] = r
  BY <1>1 DEF MakeDirectory, Move, TypeOK, locks
<1>2. CASE chain[r] = "directory"
  <2>1. CASE r \in cut
    BY <2>1 DEF Monotone
  <2>2. CASE \E q \in Proc : pc[q] = "event" /\ target[q] = r
    <3>1. PICK q \in Proc : pc[q] = "event" /\ target[q] = r
      BY <2>2
    <3>2. CASE StepOf(q)
      <4>1. AppendCreation(q) \/ WriteFails(q) \/ Die(q)
        BY <3>1, <3>2 DEF StepOf, PrepareStep, CommitStep, StageUnkeyed, TakeKey, KeyBusy,
           Adopt,
           RefuseKey, NotFound, StageKeyed, Dispatch, DispatchRefused, PickManifest,
                 TakeSession,
           SessionBusy, TakeRun, RunBusy, WriteEpoch, AlreadyCommitted, MakeDirectory,
                 ReadSession,
           SaveSession, WriteItem, WriteRow, MarkCommitted, LeaveSession, CloseOwner, UnlockRun,
           Move, Finish
      <4> QED
        BY <3>1, <4>1 DEF AppendCreation, WriteFails, Die, TypeOK
    <3>3. CASE ~StepOf(q)
      <4>1. Apart(q)
        BY <3>3, WhoSteps, Elsewhere, WorkerGuaranteed
      <4> QED
        BY <3>1, <4>1 DEF Apart
    <3> QED
      BY <3>2, <3>3
  <2> QED
    BY <1>2, <2>1, <2>2 DEF ChainInv
<1> QED
  BY <1>1, <1>2 DEF Written

\* Sessions only gain links, and only to their own Runs.
LEMMA LinksGrow ==
    ASSUME TypeOK, PlaceInv, Written, NEW s \in Session
    PROVE  /\ links[s] \subseteq links'[s]
           /\ \A r \in links'[s] : r \in links[s] \/ (r \in Run /\ ask[r].session = s)
<1>1. CASE \E p \in Proc : SaveSession(p) /\ SessionFor(p) = s
  <2>1. PICK p \in Proc : SaveSession(p) /\ SessionFor(p) = s
    BY <1>1
  <2>2. pc[p] = "saveSession" /\ links'[s] = copy[p] \cup {target[p]}
    BY <2>1 DEF SaveSession, Move, TypeOK
  <2>3. copy[p] = links[s] /\ target[p] \in Run /\ ask[target[p]].session = s
    BY <2>1, <2>2, Targets DEF PlaceInv, PlaceAt, ProgressAt, SessionFor, Going, Writing
  <2> QED
    BY <2>2, <2>3
<1> QED
  BY <1>1 DEF Written

\* A Run is committed with its link, its row and its event, and keeps them.
LEMMA RunStep ==
    ASSUME TypeOK, PlaceInv, RunInv, Monotone, Written
    PROVE  RunInv'
<1>1. ASSUME NEW r \in Run, Committed(r)'
      PROVE  /\ r \in links'[ask[r].session] /\ work'[r] \in {"row", "announced"}
             /\ chain'[r] = "created" \/ r \in cut'
  <2>1. r \in links[ask[r].session] /\ work[r] \in {"row", "announced"}
        /\ (chain[r] = "created" \/ r \in cut)
    <3>1. CASE Committed(r)
      BY <3>1 DEF RunInv
    <3>2. CASE \E p \in Proc : MarkCommitted(p) /\ target[p] = r
      <4>1. PICK p \in Proc : MarkCommitted(p) /\ target[p] = r
        BY <3>2
      <4>2. pc[p] = "mark"
        BY <4>1 DEF MarkCommitted, Move
      <4> QED
        BY <4>1, <4>2 DEF PlaceInv, PlaceAt, ProgressAt, SessionFor, Writing
    <3> QED
      BY <1>1, <3>1, <3>2 DEF Written
  <2>2. ask[r].session \in Session
    BY DEF TypeOK, Request, Run
  <2> QED
    BY <2>1, <2>2, LinksGrow DEF Monotone
<1>2. ASSUME NEW s \in Session, NEW r \in links'[s] PROVE ask[r].session = s
  BY <1>2, LinksGrow DEF RunInv
<1> QED
  BY <1>1, <1>2 DEF RunInv, Monotone

\* The invariant is inductive.
LEMMA InvStep ==
    ASSUME PublicationInv, [Next]_vars
    PROVE  PublicationInv'
<1>1. CASE Next
  <2>1. Monotone /\ Written
    BY <1>1, Kept, NewIsWritten DEF PublicationInv
  <2>2. TypeOK' /\ PlaceInv'
    BY <1>1, <2>1, TypeStep, PlaceStep DEF PublicationInv
  <2> QED
    BY <1>1, <2>1, <2>2, OneRunStep, ChainStep, RunStep DEF PublicationInv
<1>2. CASE UNCHANGED vars
  BY <1>2 DEF PublicationInv, vars, files, locks, local, TypeOK, PlaceInv, KeyAt, PlaceAt,
     TargetAt, LockAt,
              HeldAt, OutcomeAt, ProgressAt, InSession, Owning, SessionFor, OneRunPerKey,
                    ChainInv, RunInv,
              Staged, Committed
<1> QED
  BY <1>1, <1>2

LEMMA Inductive == Spec => []PublicationInv
  BY InvInit, InvStep, PTL DEF Spec

-----------------------------------------------------------------------------
(* What follows for callers and readers. *)

\* Every value that a step reads or writes has its type: no call, recovery,
\* worker or death leaves the model's state space.
THEOREM TypeCorrect == Spec => []TypeOK
  BY Inductive, PTL DEF PublicationInv

\* One idempotency key is never bound to two durable publications, whatever
\* calls, retries, recoveries and deaths do (prepare_publication).
THEOREM OneRunPerKeyAlways == Spec => []OneRunPerKey
  BY Inductive, PTL DEF PublicationInv

\* Two receipts of one request name one Run because one key has one manifest.
LEMMA Converging == PublicationInv => ReceiptsConverge
<1> SUFFICES ASSUME PublicationInv PROVE ReceiptsConverge
  OBVIOUS
<1>1. ASSUME NEW c \in Client, outcome[c] = "receipt"
      PROVE  /\ target[c] \in Run /\ Staged(target[c]) /\ Visible(target[c])
             /\ ask[target[c]] = ask[c] /\ (ask[c].key = None => target[c] = c)
  <2>1. TargetAt(c) /\ OutcomeAt(c)
    BY DEF PublicationInv, PlaceInv, PlaceAt, Proc
  <2>2. target[c] \in Run /\ target[c] # None /\ Committed(target[c])
    BY <1>1, <2>1, ProcAssumption DEF TargetAt, OutcomeAt, Run, Proc
  <2> QED
    BY <1>1, <2>1, <2>2 DEF TargetAt, PublicationInv, RunInv, Visible
<1>2. ASSUME NEW c \in Client, outcome[c] = "receipt", NEW e \in Client, outcome[e] = "receipt",
             ask[e] = ask[c], ask[e].key # None
      PROVE  target[e] = target[c]
  BY <1>1, <1>2 DEF PublicationInv, OneRunPerKey
<1> QED
  BY <1>1, <1>2 DEF ReceiptsConverge

\* A receipt is for a Run that readers see, and exact retries of one request
\* get the receipt of one Run (commit_publication).
THEOREM ReceiptsConvergeAlways == Spec => []ReceiptsConverge
  BY Inductive, Converging, PTL

\* Whoever has a handle owns the Run until it unlocks it.
LEMMA Current == PublicationInv => HandleIsCurrent
  BY DEF PublicationInv, PlaceInv, PlaceAt, HeldAt, LockAt, Owning, HandleIsCurrent

\* Between acquiring and releasing an owner handle a process is the only one,
\* and the owner record names the epoch of its handle (OwnerRegistry).
THEOREM HandleIsCurrentAlways == Spec => []HandleIsCurrent
  BY Inductive, Current, PTL

\* A committed Run has its event, or its creation was cut.
LEMMA Holes == PublicationInv => HoleOnlyFromCut
  BY DEF PublicationInv, RunInv, HoleOnlyFromCut, Visible

\* A visible Run lacks its creation event only when a creation was cut between
\* the directory and the event (create_local).
THEOREM HoleOnlyFromCutAlways == Spec => []HoleOnlyFromCut
  BY Inductive, Holes, PTL

\* The session record is read and written back whole, and yet no link is lost
\* (_link_session).
THEOREM LinksSurviveAlways == Spec => LinksSurvive
<1>1. ASSUME PublicationInv, [Next]_vars
      PROVE  [\A s \in Session : links[s] \subseteq links'[s]]_links
  <2>1. CASE Next
    <3>1. TypeOK /\ PlaceInv
      BY <1>1 DEF PublicationInv
    <3>2. Written
      BY <2>1, <3>1, NewIsWritten
    <3> QED
      BY <3>1, <3>2, LinksGrow
  <2>2. CASE UNCHANGED vars
    BY <2>2 DEF vars, files
  <2> QED
    BY <1>1, <2>1, <2>2
<1> QED
  BY <1>1, Inductive, PTL DEF Spec, LinksSurvive

-----------------------------------------------------------------------------
(* The file repository publishes as the transactional one. *)

Done == {r \in Run : Committed(r)}
Of(s) == {r \in Done : ask[r].session = s}

\* What readers see of a Run they see together: it shows as soon as its manifest says so.
Together == /\ Shown = Done
            /\ {r \in Shown : chain[r] = "created" \/ r \in cut} = Done
            /\ {r \in Shown : work[r] \in {"row", "announced"}} = Done
            /\ \A s \in Session : links[s] \cap Shown = Of(s)

\* Links, rows and events are there before the manifest says so.
LEMMA AllOrNothing == PublicationInv => Together
<1> SUFFICES ASSUME PublicationInv PROVE Together
  OBVIOUS
<1>1. Shown = Done
  BY DEF PublicationInv, RunInv, Shown, Visible, Done
<1>2. \A r \in Done : /\ chain[r] = "created" \/ r \in cut
                      /\ work[r] \in {"row", "announced"}
  BY DEF PublicationInv, RunInv, Done
<1>3. ASSUME NEW s \in Session PROVE links[s] \cap Done = Of(s)
  BY DEF PublicationInv, RunInv, TypeOK, Done, Of
<1>4. /\ {r \in Shown : chain[r] = "created" \/ r \in cut} = Done
      /\ {r \in Shown : work[r] \in {"row", "announced"}} = Done
  BY <1>1, <1>2
<1> QED
  BY <1>1, <1>3, <1>4 DEF Together

\* To begin with readers see nothing.
LEMMA InitShows == Init => Transactional!Init
<1> SUFFICES ASSUME Init PROVE Transactional!Init
  OBVIOUS
<1>1. Together
  BY InvInit, AllOrNothing
<1>2. Done = {} /\ (\A r \in Run : ~Staged(r)) /\ \A s \in Session : Of(s) = {}
  BY DEF Init, Done, Committed, Staged, Of
<1> QED
  BY <1>1, <1>2 DEF Transactional!Init, Together

\* When the same manifests are there and committed, readers see the same.
LEMMA Unseen ==
    ASSUME Together, Together', ask' = ask,
           \A r \in Run : (Staged(r)' <=> Staged(r)) /\ (Committed(r)' <=> Committed(r))
    PROVE  UNCHANGED Transactional!vars
<1>1. Done' = Done
  BY DEF Done
<1>2. \A s \in Session : Of(s)' = Of(s)
  BY <1>1 DEF Of
<1>3. [r \in Run |-> IF Staged(r)' THEN ask'[r].session ELSE None]
       = [r \in Run |-> IF Staged(r) THEN ask[r].session ELSE None]
  OBVIOUS
<1>4. [s \in Session |-> links'[s] \cap Shown'] = [s \in Session |-> links[s] \cap Shown]
  BY <1>2 DEF Together
<1> QED
  BY <1>1, <1>3, <1>4 DEF Transactional!vars, Together

\* Staging is a Prepare.
LEMMA StagingShows ==
    ASSUME TypeOK, PlaceInv, Together, Together', NEW p \in Client,
          StageUnkeyed(p) \/ StageKeyed(p)
    PROVE  Transactional!Prepare(p)
<1>1. manifest' = [manifest EXCEPT ![p] = "prepared"] /\ ask' = ask /\ p \in Run /\ ~Staged(p)
  BY DEF StageUnkeyed, StageKeyed, Move, PlaceInv, KeyAt, Preparing, Run
<1>2. /\ \A r \in Run : Committed(r)' <=> Committed(r)
      /\ \A r \in Run : Staged(r)' <=> Staged(r) \/ r = p
  BY <1>1 DEF Committed, Staged, TypeOK
<1>3. Done' = Done /\ \A s \in Session : Of(s)' = Of(s)
  BY <1>1, <1>2 DEF Done, Of
<1>4. ask[p].session \in Session
  BY DEF TypeOK, Request
<1>5. [r \in Run |-> IF Staged(r)' THEN ask'[r].session ELSE None]
       = [[r \in Run |-> IF Staged(r) THEN ask[r].session ELSE None] EXCEPT ![p] = ask[p].session]
  BY <1>1, <1>2
<1>6. [s \in Session |-> links'[s] \cap Shown'] = [s \in Session |-> links[s] \cap Shown]
  BY <1>3 DEF Together
<1> QED
  BY <1>1, <1>3, <1>4, <1>5, <1>6 DEF Transactional!Prepare, Together

\* Marking the manifest is a Commit.
LEMMA CommitShows ==
    ASSUME TypeOK, PlaceInv, Together, Together', NEW p \in Proc, MarkCommitted(p),
           NEW t \in Run, t = target[p]
    PROVE  Transactional!Commit(t)
<1>1. pc[p] = "mark" /\ manifest' = [manifest EXCEPT ![t] = "committed"] /\ ask' = ask
  BY DEF MarkCommitted, Move
<1>2. t \in Run /\ Staged(t) /\ ~Committed(t)
  BY <1>1 DEF PlaceInv, PlaceAt, TargetAt, ProgressAt, Going, Writing
<1>3. /\ \A r \in Run : Committed(r)' <=> Committed(r) \/ r = t
      /\ \A r \in Run : Staged(r)' <=> Staged(r)
  BY <1>1, <1>2 DEF Committed, Staged, TypeOK
<1>4. ask[t].session \in Session /\ ask[t].session # None
  BY <1>2, ProcAssumption DEF TypeOK, Request, Run
<1>5. Done' = Done \cup {t} /\ t \notin Done
  BY <1>2, <1>3 DEF Done
<1>6. \A s \in Session : Of(s)' = IF s = ask[t].session THEN Of(s) \cup {t} ELSE Of(s)
  BY <1>1, <1>5 DEF Of
<1>7. [r \in Run |-> IF Staged(r)' THEN ask'[r].session ELSE None]
       = [r \in Run |-> IF Staged(r) THEN ask[r].session ELSE None]
  BY <1>1, <1>3
<1>8. [s \in Session |-> links'[s] \cap Shown']
       = [[s \in Session |-> links[s] \cap Shown] EXCEPT ![ask[t].session] = @ \cup {t}]
  <2>1. \A s \in Session : links'[s] \cap Shown' =
            IF s = ask[t].session THEN (links[s] \cap Shown) \cup {t} ELSE links[s] \cap Shown
    BY <1>6 DEF Together
  <2> QED
    BY <1>4, <2>1
<1> QED
  BY <1>2, <1>4, <1>5, <1>7, <1>8 DEF Transactional!Commit, Together

\* Every step is a Prepare, a Commit or nothing.
LEMMA StepShows ==
    ASSUME PublicationInv, [Next]_vars
    PROVE  [Transactional!Next]_(Transactional!vars)
<1>i. PublicationInv' /\ TypeOK /\ PlaceInv
  BY InvStep DEF PublicationInv
<1>a. Together
  BY AllOrNothing
<1>b. PublicationInv' => Together'
  BY AllOrNothing, PTL
<1>1. CASE \E p \in Client : StageUnkeyed(p) \/ StageKeyed(p)
  BY <1>1, <1>i, <1>a, <1>b, StagingShows DEF Transactional!Next, Run
<1>2. CASE \E p \in Proc : MarkCommitted(p)
  <2>1. PICK p \in Proc : MarkCommitted(p)
    BY <1>2
  <2>2. PICK t \in Run : t = target[p]
    BY <2>1, <1>i, Targets DEF MarkCommitted, Move, Going, Writing
  <2>3. Transactional!Commit(t)
    BY <2>1, <2>2, <1>i, <1>a, <1>b, CommitShows
  <2> QED
    BY <2>3 DEF Transactional!Next
<1>3. CASE Next /\ ~(\E p \in Client : StageUnkeyed(p) \/ StageKeyed(p))
      /\ ~(\E p \in Proc : MarkCommitted(p))
  <2>1. Written /\ Monotone
    BY <1>3, <1>i, NewIsWritten, Kept
  <2>2. \A r \in Run : (Staged(r)' <=> Staged(r)) /\ (Committed(r)' <=> Committed(r))
    BY <1>3, <2>1 DEF Written, Monotone
  <2> QED
    BY <1>i, <1>a, <1>b, <2>1, <2>2, Unseen DEF Monotone
<1>4. CASE UNCHANGED vars
  <2>1. ask' = ask /\ \A r \in Run : (Staged(r)' <=> Staged(r))
        /\ (Committed(r)' <=> Committed(r))
    BY <1>4 DEF vars, files, Staged, Committed
  <2> QED
    BY <1>i, <1>a, <1>b, <2>1, Unseen
<1> QED
  BY <1>1, <1>2, <1>3, <1>4

\* Readers cannot tell the sequence of durable writes from a transaction:
\* every step is a Prepare, a Commit or nothing to them.
THEOREM PublishesAtomicallyAlways == Spec => PublishesAtomically
  BY Inductive, InitShows, StepShows, PTL DEF Spec, PublishesAtomically, Transactional!Spec
=============================================================================
