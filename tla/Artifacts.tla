------------------------------ MODULE Artifacts ------------------------------
(***************************************************************************)
(* The artifacts of a Run: passes, each with a LocalArtifactStore of its   *)
(* own over the same files, publish batches of revisions and announce them *)
(* in the event log; MIRA then holds the log against the store.  A file    *)
(* operation may raise, a process may end and the power may go.            *)
(***************************************************************************)
EXTENDS Naturals, FiniteSets, Sequences, SequencesExt

CONSTANTS Pass,           \* passes over the Run at once
          Name,           \* logical names of artifacts
          MaxRevisions, MaxFaults    \* bounds: revisions; operations that fail, deaths

ASSUME ArtifactsAssumption ==
    MaxRevisions \in Nat /\ MaxFaults \in Nat /\ 0 \notin Pass /\ IsFiniteSet(Name)

Revision == 1..MaxRevisions
None == 0

(* A revision is an object in .batches and, when superseded, also a copy in        *)
(* .history; an entry of the manifest names one of the two.                        *)
VARIABLES manifest,   \* manifest.json: the live revision of each name, and those kept
          images,     \* the manifests that a loss of power may leave
          files,      \* objects and copies
          flushed,    \* those that a loss of power leaves alone
          lock,       \* .manifest.lock
          minted,     \* the revisions that were given an id, each with its name
          created,    \* those that the log announced as artifact.created
          retired,    \* and as artifact.invalidated
          job,        \* what each pass is doing, and the manifest in its memory
          told,       \* revisions whose writer was told that they are stored
          unsure,     \* those published and not flushed, or taken back by a loss of power
          faults

vars == <<manifest, images, files, flushed, lock, minted, created, retired,
          job, told, unsure, faults>>
store == <<manifest, images, files, flushed, lock, minted, told, unsure>>
log == <<created, retired>>

Object(r) == <<"object", r>>
Copy(r) == <<"copy", r>>
Objects(S) == {Object(r) : r \in S}
Copies(S) == {Copy(r) : r \in S}

Live(m) == {m.live[n] : n \in Name} \ {None}
Entries(m) == Objects(Live(m)) \cup Copies(m.kept)
Held(m) == Live(m) \cup m.kept
Empty == [live |-> [n \in Name |-> None], kept |-> {}]

Free == [at |-> "idle", view |-> Empty, call |-> FALSE, known |-> {}, before |-> {}, batch |-> {},
         todo |-> {}]
Is(p, at) == job[p].at = at
Do(p, j) == job' = [job EXCEPT ![p] = j]
Go(p, at) == Do(p, [job[p] EXCEPT !.at = at])

Init == /\ manifest = Empty /\ images = {Empty}
        /\ files = {} /\ flushed = {} /\ lock = None /\ minted = <<>>
        /\ created = {} /\ retired = {}
        /\ job = [p \in Pass |-> Free]
        /\ told = {} /\ unsure = {} /\ faults = 0

Fault == faults < MaxFaults /\ faults' = faults + 1
NoFault == UNCHANGED faults

----------------------------------------------------------------------------
(* A batch: staged, flushed, its predecessors archived, the manifest replaced. *)

SaveOn(p, writes, base) ==
    LET batch == Len(minted) + 1..Len(minted) + Len(writes) IN
    /\ Is(p, "work") /\ lock = None /\ lock' = p
    /\ Len(minted) + Len(writes) <= MaxRevisions
    /\ minted' = minted \o writes
    /\ files' = files \cup Objects(batch)
    /\ Do(p, [job[p] EXCEPT !.at = "flush", !.view = base, !.batch = batch])
    /\ NoFault /\ UNCHANGED <<manifest, images, flushed, told, unsure, log>>

\* Seeded bug: the candidate grows from the manifest that this store had in memory.
SaveFromMemory(p, writes) == SaveOn(p, writes, job[p].view)
\* save_artifact_batch, with the names of its writes: under the lock the manifest is read
\* again, and the objects are staged.
Save(p, writes) == SaveOn(p, writes, manifest)

\* The directories of the objects.
Flush(p) == /\ Is(p, "flush") /\ Go(p, "archive")
            /\ flushed' = flushed \cup Objects(job[p].batch)
            /\ NoFault /\ UNCHANGED <<manifest, images, files, lock, minted, told, unsure, log>>

\* _archive_record: what is live under the names of the batch, where its object is there.
InBatch(p, n) == \E r \in job[p].batch : minted[r] = n
Superseded(p) == {r \in Live(job[p].view) : Object(r) \in files /\ InBatch(p, minted[r])}
Archive(p) == /\ Is(p, "archive") /\ Go(p, "replace")
              /\ files' = files \cup Copies(Superseded(p))
              /\ flushed' = flushed \cup Copies(Superseded(p))
              /\ NoFault /\ UNCHANGED <<manifest, images, lock, minted, told, unsure, log>>

Candidate(p) ==
    [live |-> [n \in Name |-> IF InBatch(p, n) THEN CHOOSE r \in job[p].batch : minted[r] = n
                              ELSE job[p].view.live[n]],
     kept |-> job[p].view.kept \cup Superseded(p)]

\* _write_manifest: the replacement, and the flush of the root after it.
Replace(p) == /\ Is(p, "replace") /\ Go(p, "finish")
              /\ manifest' = Candidate(p)
              /\ images' = images \cup {Candidate(p)}
              /\ NoFault /\ UNCHANGED <<files, flushed, lock, minted, told, unsure, log>>

\* The batch is stored: the pass goes on, or announces it there and then.
Stored(p) ==
    /\ told' = told \cup job[p].batch
    /\ lock' = None
    /\ LET j == [job[p] EXCEPT !.at = "work", !.view = manifest, !.batch = {}] IN
       \/ Do(p, j)
       \/ ~job[p].call /\ Do(p, [j EXCEPT !.at = "announce", !.todo = job[p].batch])
Finish(p) == /\ Is(p, "finish") /\ Stored(p)
             /\ images' = {manifest} /\ unsure' = unsure \ Held(manifest)
             /\ NoFault /\ UNCHANGED <<manifest, files, flushed, minted, log>>

\* What raises in a tool is the tool's failure; elsewhere the pass ends with it.
Raises(p) == Do(p, IF job[p].call THEN [job[p] EXCEPT !.at = "work", !.batch = {}] ELSE Free)

\* A file operation raises. The batch is removed unless the manifest was being written.
FailEarly(p) ==
    /\ job[p].at \in {"flush", "archive"} /\ Fault
    /\ files' = files \ Objects(job[p].batch)
    /\ flushed' = flushed \ Objects(job[p].batch)
    /\ lock' = None /\ Raises(p)
    /\ UNCHANGED <<manifest, images, minted, told, unsure, log>>
\* Seeded bug: the batch is removed whatever was attempted.
FailLateAndRemove(p) ==
    /\ job[p].at \in {"replace", "finish"} /\ Fault
    /\ files' = files \ Objects(job[p].batch)
    /\ flushed' = flushed \ Objects(job[p].batch)
    /\ lock' = None /\ Raises(p)
    /\ UNCHANGED <<manifest, images, minted, told, unsure, log>>
\* After the replacement it is a success all the same when the manifest reads as meant,
\* and an error when it cannot be read.
FailLate(p) ==
    /\ Fault
    /\ \/ /\ Is(p, "replace") /\ lock' = None /\ Raises(p)
          /\ UNCHANGED <<told, unsure>>
       \/ /\ Is(p, "finish") /\ unsure' = unsure \cup job[p].batch
          /\ Stored(p) \/ (lock' = None /\ Raises(p) /\ UNCHANGED told)
    /\ UNCHANGED <<manifest, images, files, flushed, minted, log>>

----------------------------------------------------------------------------
(* A pass: it saves inside and outside tool calls and announces what is new. *)

Active(p) == {r \in Live(job[p].view) : Object(r) \in files}

Open(p) == /\ Is(p, "idle")
           /\ Do(p, [Free EXCEPT !.at = "work", !.view = manifest, !.before = Live(manifest)])
           /\ NoFault /\ UNCHANGED <<store, log>>

StartCall(p) == /\ Is(p, "work") /\ ~job[p].call
                /\ Do(p, [job[p] EXCEPT !.call = TRUE, !.known = Active(p)])
                /\ NoFault /\ UNCHANGED <<store, log>>

Announced(p) == [job[p] EXCEPT !.at = "work", !.call = FALSE, !.known = {}, !.todo = {}]
\* ToolManager._close_record
CloseCall(p) == /\ Is(p, "work") /\ job[p].call
                /\ Do(p, IF Active(p) \subseteq job[p].known THEN Announced(p)
                         ELSE [job[p] EXCEPT !.at = "announce", !.todo = Active(p) \ job[p].known])
                /\ NoFault /\ UNCHANGED <<store, log>>
\* An announcement that raises costs a tool the rest, and any other pass its life.
Announce(p) ==
    /\ Is(p, "announce")
    /\ \E r \in job[p].todo :
          \/ /\ created' = created \cup {r} /\ NoFault
             /\ Do(p, IF job[p].todo = {r} THEN Announced(p)
                      ELSE [job[p] EXCEPT !.todo = @ \ {r}])
          \/ /\ created' \in {created, created \cup {r}} /\ Fault
             /\ Do(p, IF job[p].call THEN Announced(p) ELSE Free)
    /\ UNCHANGED <<store, retired>>

\* THY returned. Seeded bug: only what this pass changed is announced.
RecordOwn(p) ==
    /\ Is(p, "work") /\ ~job[p].call
    /\ Do(p, [job[p] EXCEPT !.at = "record", !.todo = Live(job[p].view) \ (job[p].before \cup created)])
    /\ NoFault /\ UNCHANGED <<store, log>>
\* _record_artifact_changes: every live revision the log does not know of,
\* and then those that this pass superseded.
Record(p) ==
    /\ Is(p, "work") /\ ~job[p].call
    /\ Do(p, [job[p] EXCEPT !.at = "record", !.todo = Live(job[p].view) \ created])
    /\ NoFault /\ UNCHANGED <<store, log>>
Retiring(p) == (job[p].before \cap job[p].view.kept) \ retired
RecordOne(p) ==
    /\ Is(p, "record")
    /\ \/ \E r \in job[p].todo :
             /\ UNCHANGED retired
             /\ \/ created' = created \cup {r} /\ NoFault
                   /\ Do(p, [job[p] EXCEPT !.todo = @ \ {r}])
                \/ created' \in {created, created \cup {r}} /\ Fault /\ Do(p, Free)
       \/ \E r \in Retiring(p) :
             /\ job[p].todo = {} /\ UNCHANGED created
             /\ \/ retired' = retired \cup {r} /\ NoFault /\ UNCHANGED job
                \/ retired' \in {retired, retired \cup {r}} /\ Fault /\ Do(p, Free)
    /\ UNCHANGED store
\* THY parked the Run, or MIRA audits it.
Recorded(p) == /\ Is(p, "record") /\ job[p].todo = {} /\ Retiring(p) = {}
               /\ Do(p, Free) \/ Do(p, [job[p] EXCEPT !.at = "audit", !.before = {}])
               /\ NoFault /\ UNCHANGED <<store, log>>
\* The Gate sends the Run back to THY, or the pass is over.
Rework(p) == /\ Is(p, "audit")
             /\ Do(p, [job[p] EXCEPT !.at = "work", !.before = Live(job[p].view)])
             /\ NoFault /\ UNCHANGED <<store, log>>
Between(p) == job[p].at \in {"work", "audit"} /\ ~job[p].call
Leave(p) == /\ Between(p) /\ Do(p, Free)
            /\ NoFault /\ UNCHANGED <<store, log>>

----------------------------------------------------------------------------
(* Ends of a process, and of the power. *)

Unflushed == UNION {job[p].batch : p \in {q \in Pass : Is(q, "finish")}}

\* Elsewhere a death is no more than a pass that leaves.
Die(p) == /\ ~Is(p, "idle") /\ ~Between(p) /\ Fault
          /\ Do(p, Free)
          /\ lock' = IF lock = p THEN None ELSE lock
          /\ unsure' = IF Is(p, "finish") THEN unsure \cup job[p].batch ELSE unsure
          /\ UNCHANGED <<manifest, images, files, flushed, minted, told, log>>

LosePower == /\ Fault
             /\ manifest' \in images /\ images' = {manifest'}
             /\ \E S \in SUBSET (files \ flushed) : files' = flushed \cup S
             /\ flushed' = files'
             /\ lock' = None /\ job' = [p \in Pass |-> Free]
             /\ unsure' = (unsure \cup Unflushed) \ Held(manifest')
             /\ UNCHANGED <<minted, told, log>>

PassStep(p) ==
    \/ Open(p) \/ StartCall(p) \/ CloseCall(p) \/ Announce(p)
    \/ Record(p) \/ RecordOne(p) \/ Recorded(p) \/ Rework(p) \/ Leave(p)
StoreStep(p) ==
    \/ \E writes \in SetToAllKPermutations(Name) \ {<<>>} : Save(p, writes)
    \/ Flush(p) \/ Archive(p) \/ Replace(p) \/ Finish(p)
    \/ FailEarly(p) \/ FailLate(p)
Next == (\E p \in Pass : PassStep(p) \/ StoreStep(p) \/ Die(p)) \/ LosePower

Spec == Init /\ [][Next]_vars

----------------------------------------------------------------------------
(* Properties. *)

\* Whatever a crash leaves as the manifest, each of its entries has its file, and what a
\* writer was told or the log announced is there, but for what was published and not flushed.
NothingIsLost ==
    /\ \A m \in images : Entries(m) \subseteq flushed
    /\ told \cup created \subseteq Held(manifest) \cup unsure
    /\ unsure = {} => retired \subseteq manifest.kept

\* Controls A5 and A10 of MIRA, over the store of a pass.
ManifestVerifies(m) == Entries(m) \subseteq files
AnnouncementsHold(m) ==
    \A r \in created :
        /\ m.live[minted[r]] # None
        /\ r = m.live[minted[r]] \/ r \in m.kept
        /\ m.live[minted[r]] \in created

\* Whatever other passes did or left behind, a pass passes both controls at its audit,
\* the second if the manifest is still the one in its memory.
AuditPasses ==
    \A p \in Pass : Is(p, "audit") =>
        /\ ManifestVerifies(job[p].view)
        /\ job[p].view = manifest /\ created \cap unsure = {} => AnnouncementsHold(job[p].view)

\* The files of the store keep what is promised of its batches.
Batches == INSTANCE ArtifactBatches WITH held <- manifest, possible <- images
BatchesAreAtomic == Batches!Spec
=============================================================================
