--------------------------- MODULE ArtifactsProofs ---------------------------
(***************************************************************************)
(* What the lock, the order of the writes and the announcements of a batch *)
(* give, for any number of passes, names, revisions and faults: nothing    *)
(* that was acknowledged and flushed is lost, honest passes satisfy the    *)
(* controls A5 and A10, and batches are atomic.                            *)
(***************************************************************************)
EXTENDS Artifacts, FiniteSetTheorems, TLAPS

Manifest == [live : [Name -> Nat], kept : SUBSET Nat]
Saving == {"flush", "archive", "replace", "finish"}
Place == {"idle", "work", "announce", "record", "audit"} \cup Saving
Job == [at : Place, view : Manifest, call : BOOLEAN, known : SUBSET Nat,
        before : SUBSET Nat, batch : SUBSET Nat, todo : SUBSET Nat]

Types == /\ manifest \in images /\ images \subseteq Manifest
         /\ minted \in Seq(Name) /\ Len(minted) <= MaxRevisions
         /\ flushed \subseteq files
         /\ job \in [Pass -> Job]

\* A name has a revision that was minted for it, and one that lost a revision has another.
Sound(m) ==
    /\ \A n \in Name : m.live[n] # None => m.live[n] \in DOMAIN minted /\ minted[m.live[n]] = n
    /\ \A r \in m.kept : r \in DOMAIN minted /\ m.live[minted[r]] # None

\* The revisions that a loss of power may take back.
Doubtful == unsure \cup Unflushed
Lost(m) == Doubtful \ Held(m) # {}

\* What a loss of power may leave is complete, lacks only what nothing has flushed, and lacks
\* some revision unless it is the manifest itself.
ImageInv(m) == /\ Sound(m)
               /\ Entries(m) \subseteq flushed
               /\ Held(manifest) \subseteq Held(m) \cup Doubtful
               /\ m = manifest \/ Lost(m)

\* A pass that saves has the lock, and its batch is new until the manifest has it.
SavingAt(p) ==
    LET j == job[p] IN
    j.at \in Saving =>
        /\ lock = p
        /\ j.batch # {} /\ j.batch \subseteq DOMAIN minted
        /\ \A r, s \in j.batch : minted[r] = minted[s] => r = s
        /\ Objects(j.batch) \subseteq files
        /\ j.at # "finish" => /\ j.view = manifest
                              /\ j.batch \cap unsure = {}
                              /\ \A m \in images : j.batch \cap Held(m) = {}
        /\ j.at \in {"archive", "replace"} => Objects(j.batch) \subseteq flushed
        /\ j.at = "replace" => Copies(Superseded(p)) \subseteq flushed
        /\ j.at = "finish" => j.batch \subseteq Held(manifest)

\* A store in memory is an older manifest, of which nothing went.
ViewAt(p) ==
    LET v == job[p].view IN
    /\ Sound(v) /\ Entries(v) \subseteq files
    /\ Held(v) \cup job[p].todo \subseteq Held(manifest) /\ v.kept \subseteq manifest.kept

\* What a pass leaves behind at its audit is announced.
AuditAt(p) ==
    LET v == job[p].view IN
    /\ job[p].at = "record" => Live(v) \subseteq created \cup job[p].todo
    /\ job[p].at = "audit" => Live(v) \subseteq created

\* A revision that was told, announced or invalidated is held as such, or was lost.
LogInv == /\ told \cup created \subseteq Held(manifest) \cup unsure
          /\ unsure \subseteq DOMAIN minted
          /\ retired \subseteq manifest.kept \/ unsure \ Held(manifest) # {}

IInv == /\ Types
        /\ \A m \in images : ImageInv(m)
        /\ \A p \in Pass : SavingAt(p) /\ ViewAt(p) /\ AuditAt(p)
        /\ LogInv

-----------------------------------------------------------------------------
(* Facts that every step uses. *)

\* Whose batch is in the manifest and not yet flushed.
LEMMA InUnflushed ==
    /\ \A r : r \in Unflushed <=> \E q \in Pass : job[q].at = "finish" /\ r \in job[q].batch
    /\ \A r : r \in Unflushed' <=> \E q \in Pass : job'[q].at = "finish" /\ r \in job'[q].batch
  BY DEF Unflushed, Is

\* Nobody saves beside the pass that has the lock.
LEMMA OneSaves ==
    ASSUME IInv, NEW p \in Pass, job[p].at \in Saving
    PROVE  \A q \in Pass : job[q].at \in Saving => q = p
  BY DEF IInv, SavingAt

\* An object is not a copy, and names its revision.
LEMMA Distinct ==
    ASSUME NEW m, NEW S, S \cap Held(m) = {}
    PROVE  Entries(m) \cap Objects(S) = {}
  BY DEF Entries, Objects, Copies, Object, Copy, Held

LEMMA EmptyStore ==
    /\ Empty \in Manifest /\ Sound(Empty) /\ Held(Empty) = {} /\ Live(Empty) = {}
    /\ Entries(Empty) = {} /\ Free \in Job /\ Free.at = "idle"
    /\ Free.view = Empty /\ Free.todo = {} /\ Empty.kept = {}
  BY DEF Empty, Manifest, Sound, Held, Live, Entries, Free, Job, Place, None, Objects, Copies

\* Revisions of a manifest are numbers, and none is None.
LEMMA HeldTypes ==
    ASSUME Types, NEW m \in images, ImageInv(m)
    PROVE  Held(m) \subseteq DOMAIN minted /\ Live(m) \subseteq Nat \ {None}
  BY DEF Types, Manifest, ImageInv, Sound, Held, Live, None

-----------------------------------------------------------------------------
(* Steps that leave the store alone. *)

\* A pass that neither saved nor saves takes a view that is there, and announces what is held.
LEMMA Quietly ==
    ASSUME IInv, NEW p \in Pass, NEW j \in Job, Do(p, j), UNCHANGED store,
           job[p].at \notin Saving, j.at \notin Saving,
           j.view \in {job[p].view, manifest, Empty}, j.todo \subseteq Held(manifest),
           created \subseteq created', created' \subseteq created \cup Held(manifest),
           retired' \subseteq retired \cup manifest.kept,
           j.at = "record" => Live(j.view) \subseteq created' \cup j.todo,
           j.at = "audit" => Live(j.view) \subseteq created'
    PROVE  IInv'
<1>1. Types /\ manifest \in images /\ job'[p] = j /\ \A q \in Pass \ {p} : job'[q] = job[q]
  BY DEF IInv, Types, Do
<1>2. Types'
  BY <1>1 DEF Types, store, Do
<1>3. Unflushed' = Unflushed
  BY <1>1, InUnflushed DEF Saving
<1>4. \A m \in images' : ImageInv(m)'
  BY <1>3 DEF IInv, store, ImageInv, Sound, Entries, Held, Lost, Doubtful, Live
<1>5. \A q \in Pass : SavingAt(q)'
  BY <1>1 DEF IInv, store, SavingAt, Held, Live, Superseded, InBatch
<1>6. ViewAt(p)'
  <2>1. Sound(manifest) /\ Entries(manifest) \subseteq files
    BY <1>1 DEF IInv, ImageInv, Types
  <2>2. Sound(job[p].view) /\ Entries(job[p].view) \subseteq files
        /\ Held(job[p].view) \subseteq Held(manifest) /\ job[p].view.kept \subseteq manifest.kept
    BY DEF IInv, ViewAt
  <2>3. Sound(j.view) /\ Entries(j.view) \subseteq files
        /\ Held(j.view) \subseteq Held(manifest) /\ j.view.kept \subseteq manifest.kept
    BY <2>1, <2>2, EmptyStore
  <2> QED
    BY <1>1, <2>3 DEF ViewAt, store, Sound
<1>7. \A q \in Pass : ViewAt(q)'
  <2> SUFFICES ASSUME NEW q \in Pass \ {p} PROVE ViewAt(q)'
    BY <1>6
  <2> QED
    BY <1>1 DEF IInv, ViewAt, store, Sound
<1>8. \A q \in Pass : AuditAt(q)'
  BY <1>1 DEF IInv, AuditAt
<1>9. LogInv'
  BY DEF IInv, LogInv, store
<1> QED
  BY <1>2, <1>4, <1>5, <1>7, <1>8, <1>9 DEF IInv

\* The steps of a pass outside the store.
LEMMA PassSteps == ASSUME IInv, NEW p \in Pass, PassStep(p) PROVE IInv'
<1>1. Types /\ manifest \in images /\ job[p] \in Job /\ manifest \in Manifest
  BY DEF IInv, Types
<1>2. ViewAt(p) /\ AuditAt(p)
  BY DEF IInv
<1>3. /\ Live(manifest) \subseteq Nat /\ Live(job[p].view) \subseteq Nat
      /\ Live(job[p].view) \subseteq Held(manifest) /\ job[p].view.kept \subseteq manifest.kept
      /\ job[p].todo \subseteq Held(manifest)
  BY <1>1, <1>2 DEF Live, Manifest, Job, ViewAt, Held
<1>4. Active(p) \subseteq Live(job[p].view)
  BY DEF Active
<1>5. CASE Open(p)
  <2> DEFINE j == [Free EXCEPT !.at = "work", !.view = manifest, !.before = Live(manifest)]
  <2>1. j \in Job /\ j.at = "work" /\ j.view = manifest /\ j.todo = {}
    BY <1>1, <1>3, EmptyStore DEF Job, Place, Free
  <2> QED
    BY <1>5, <2>1, Quietly DEF Open, Is, log, Saving
<1>6. CASE StartCall(p)
  <2> DEFINE j == [job[p] EXCEPT !.call = TRUE, !.known = Active(p)]
  <2>1. j \in Job /\ j.at = "work" /\ j.view = job[p].view /\ j.todo = job[p].todo
    BY <1>1, <1>3, <1>4, <1>6 DEF Job, StartCall, Is
  <2> QED
    BY <1>3, <1>6, <2>1, Quietly DEF StartCall, Is, log, Saving
<1>7. Announced(p) \in Job /\ Announced(p).at = "work" /\ Announced(p).view = job[p].view
      /\ Announced(p).todo = {}
  BY <1>1 DEF Job, Announced, Place
<1>8. CASE CloseCall(p)
  <2> DEFINE j == [job[p] EXCEPT !.at = "announce", !.todo = Active(p) \ job[p].known]
  <2>1. j \in Job /\ j.at = "announce" /\ j.view = job[p].view
        /\ j.todo \subseteq Live(job[p].view)
    BY <1>1, <1>3, <1>4 DEF Job, Place
  <2> QED
    BY <1>3, <1>7, <1>8, <2>1, Quietly DEF CloseCall, Is, log, Saving
<1>9. CASE Announce(p)
  <2>1. PICK r \in job[p].todo :
          \/ /\ created' = created \cup {r}
             /\ Do(p, IF job[p].todo = {r} THEN Announced(p)
                      ELSE [job[p] EXCEPT !.todo = @ \ {r}])
          \/ /\ created' \in {created, created \cup {r}}
             /\ Do(p, IF job[p].call THEN Announced(p) ELSE Free)
    BY <1>9 DEF Announce
  <2> DEFINE j == [job[p] EXCEPT !.todo = @ \ {r}]
  <2>2. j \in Job /\ j.at = job[p].at /\ j.view = job[p].view /\ j.todo \subseteq job[p].todo
    BY <1>1 DEF Job
  <2>3. created \subseteq created' /\ created' \subseteq created \cup Held(manifest)
    BY <1>3, <2>1
  <2>4. Do(p, Announced(p)) \/ Do(p, j) \/ Do(p, Free)
    BY <2>1
  <2>5. job[p].at = "announce" /\ UNCHANGED store /\ UNCHANGED retired
    BY <1>9 DEF Announce, Is
  <2> QED
    BY <1>3, <1>7, <2>2, <2>3, <2>4, <2>5, EmptyStore, Quietly DEF Saving
<1>10. CASE Record(p)
  <2> DEFINE j == [job[p] EXCEPT !.at = "record", !.todo = Live(job[p].view) \ created]
  <2>1. j \in Job /\ j.at = "record" /\ j.view = job[p].view
        /\ j.todo = Live(job[p].view) \ created
    BY <1>1, <1>3 DEF Job, Place
  <2> QED
    BY <1>3, <1>10, <2>1, Quietly DEF Record, Is, log, Saving
<1>11. CASE RecordOne(p)
  <2> DEFINE j(r) == [job[p] EXCEPT !.todo = @ \ {r}]
  <2>1. \A r : j(r) \in Job /\ j(r).at = job[p].at /\ j(r).view = job[p].view
               /\ j(r).todo = job[p].todo \ {r}
    BY <1>1 DEF Job
  <2>2. job[p].at = "record" /\ UNCHANGED store
    BY <1>11 DEF RecordOne, Is
  <2>3. Live(job[p].view) \subseteq created \cup job[p].todo
    BY <1>2, <2>2 DEF AuditAt
  <2>4. CASE \E r \in job[p].todo :
               /\ UNCHANGED retired
               /\ created' \in {created, created \cup {r}}
               /\ Do(p, Free) \/ (Do(p, j(r)) /\ created' = created \cup {r})
    <3> HIDE DEF j
    <3> QED
      BY <1>3, <2>1, <2>2, <2>3, <2>4, EmptyStore, Quietly DEF Saving
  <2>5. CASE \E r \in Retiring(p) :
               /\ UNCHANGED created
               /\ retired' \in {retired, retired \cup {r}}
               /\ Do(p, Free) \/ UNCHANGED job
    <3>1. PICK r \in Retiring(p) : retired' \in {retired, retired \cup {r}}
      BY <2>5
    <3>2. retired' \subseteq retired \cup manifest.kept
      BY <1>3, <3>1 DEF Retiring
    <3>3. UNCHANGED job => Do(p, job[p])
      BY <1>1 DEF Do, Types
    <3> QED
      BY <1>1, <1>3, <2>2, <2>3, <2>5, <3>2, <3>3, EmptyStore, Quietly DEF Saving
  <2> QED
    BY <1>11, <2>4, <2>5 DEF RecordOne
<1>12. CASE Recorded(p)
  <2> DEFINE j == [job[p] EXCEPT !.at = "audit", !.before = {}]
  <2>1. j \in Job /\ j.at = "audit" /\ j.view = job[p].view /\ j.todo = job[p].todo
    BY <1>1 DEF Job, Place
  <2>2. Live(job[p].view) \subseteq created
    BY <1>2, <1>12 DEF AuditAt, Recorded, Is
  <2> QED
    BY <1>3, <1>12, <2>1, <2>2, EmptyStore, Quietly DEF Recorded, Is, log, Saving
<1>13. CASE Rework(p)
  <2> DEFINE j == [job[p] EXCEPT !.at = "work", !.before = Live(job[p].view)]
  <2>1. j \in Job /\ j.at = "work" /\ j.view = job[p].view /\ j.todo = job[p].todo
    BY <1>1, <1>3 DEF Job, Place
  <2> QED
    BY <1>3, <1>13, <2>1, Quietly DEF Rework, Is, log, Saving
<1>14. CASE Leave(p)
  BY <1>14, EmptyStore, Quietly DEF Leave, Between, log, Saving
<1> QED
  BY <1>5, <1>6, <1>8, <1>9, <1>10, <1>11, <1>12, <1>13, <1>14 DEF PassStep

-----------------------------------------------------------------------------
(* Steps of the store. *)

\* The end of a batch, however it comes: what it removes no manifest names, and what it leaves
\* unflushed is doubtful.
LEMMA Ends ==
    ASSUME IInv, NEW p \in Pass, NEW j \in Job, Do(p, j),
           job[p].at \in Saving, j.at \notin Saving \cup {"record", "audit"},
           j.view \in {job[p].view, manifest, Empty}, j.todo \subseteq Held(manifest),
           UNCHANGED <<manifest, minted, created, retired>>,
           manifest \in images', images' \subseteq images,
           flushed' \subseteq files',
           \A m \in images : Entries(m) \subseteq flushed',
           \A q \in Pass : Entries(job[q].view) \subseteq files',
           told' \subseteq told \cup Held(manifest),
           unsure' \subseteq unsure \cup (IF job[p].at = "finish" THEN job[p].batch ELSE {}),
           \A m \in images' : Doubtful \ Held(m) \subseteq unsure'
    PROVE  IInv'
<1>1. Types /\ job'[p] = j /\ \A q \in Pass \ {p} : job'[q] = job[q]
  BY DEF IInv, Types, Do
<1>2. Types'
  BY <1>1 DEF Types, Do
<1>3. \A q \in Pass : job'[q].at \notin Saving
  BY <1>1, OneSaves
<1>4. \A q \in Pass : SavingAt(q)'
  BY <1>3 DEF SavingAt
<1>5. \A m \in images' : ImageInv(m)'
  <2> SUFFICES ASSUME NEW m \in images' PROVE ImageInv(m)'
    OBVIOUS
  <2>1. ImageInv(m)
    BY DEF IInv
  <2>2. Doubtful' = unsure'
    BY <1>3, InUnflushed DEF Doubtful, Saving
  <2>3. Sound(m)' /\ (Entries(m) \subseteq flushed)'
    BY <2>1 DEF ImageInv, Sound, Entries, Live
  <2>4. Held(manifest) \subseteq Held(m) \cup unsure'
    BY <2>1 DEF ImageInv
  <2>5. m = manifest \/ unsure' \ Held(m) # {}
    BY <2>1 DEF ImageInv, Lost
  <2> QED
    BY <2>2, <2>3, <2>4, <2>5 DEF ImageInv, Lost, Held, Live
<1>6. ViewAt(p)'
  <2>1. Sound(manifest) /\ Entries(manifest) \subseteq files'
    BY <1>1 DEF IInv, ImageInv, Types
  <2>2. Sound(job[p].view) /\ Entries(job[p].view) \subseteq files'
        /\ Held(job[p].view) \subseteq Held(manifest) /\ job[p].view.kept \subseteq manifest.kept
    BY DEF IInv, ViewAt
  <2>3. Sound(j.view) /\ Entries(j.view) \subseteq files'
        /\ Held(j.view) \subseteq Held(manifest) /\ j.view.kept \subseteq manifest.kept
    BY <2>1, <2>2, EmptyStore
  <2> QED
    BY <1>1, <2>3 DEF ViewAt, Sound
<1>7. \A q \in Pass : ViewAt(q)'
  <2> SUFFICES ASSUME NEW q \in Pass \ {p} PROVE ViewAt(q)'
    BY <1>6
  <2> QED
    BY <1>1 DEF IInv, ViewAt, Sound
<1>8. \A q \in Pass : AuditAt(q)'
  BY <1>1 DEF IInv, AuditAt
<1>9. LogInv'
  <2>1. LogInv /\ SavingAt(p)
    BY DEF IInv
  <2>2. unsure \ Held(manifest) \subseteq unsure'
    BY DEF Doubtful
  <2>3. Held(manifest)' = Held(manifest)
    OBVIOUS
  <2>4. told' \cup created' \subseteq Held(manifest) \cup unsure'
    BY <2>1, <2>2 DEF LogInv
  <2>5. unsure' \subseteq DOMAIN minted
    BY <2>1 DEF LogInv, SavingAt
  <2> QED
    BY <2>1, <2>2, <2>3, <2>4, <2>5 DEF LogInv
<1> QED
  BY <1>2, <1>4, <1>5, <1>7, <1>8, <1>9 DEF IInv

\* A batch that goes on: files are added, some of them flushed.
LEMMA GoesOn ==
    ASSUME IInv, NEW p \in Pass, NEW at \in {"archive", "replace"}, Go(p, at),
           job[p].at \in {"flush", "archive"},
           UNCHANGED <<manifest, images, lock, minted, told, unsure, log>>,
           files \subseteq files', flushed \subseteq flushed', flushed' \subseteq files',
           Objects(job[p].batch) \subseteq flushed',
           at = "replace" => Copies(Superseded(p)') \subseteq flushed'
    PROVE  IInv'
<1> DEFINE j == [job[p] EXCEPT !.at = at]
<1>1. Types /\ j \in Job /\ j.at = at /\ j.view = job[p].view /\ j.todo = job[p].todo
      /\ j.batch = job[p].batch
  BY DEF IInv, Types, Job, Place, Saving
<1>2. job' = [job EXCEPT ![p] = j]
  BY DEF Go, Do
<1> HIDE DEF j
<1>3. job'[p] = j /\ \A q \in Pass \ {p} : job'[q] = job[q]
  BY <1>1, <1>2 DEF Types
<1>4. Types'
  BY <1>1, <1>2 DEF Types
<1>5. Unflushed' = Unflushed
  <2>1. job[p].at # "finish" /\ job'[p].at # "finish"
    BY <1>1, <1>3
  <2>2. \A q \in Pass : job'[q].at = "finish" <=> job[q].at = "finish"
    BY <1>3, <2>1
  <2>3. \A q \in Pass : job[q].at = "finish" => job'[q].batch = job[q].batch
    BY <1>3, <2>1
  <2> QED
    BY <2>2, <2>3, InUnflushed
<1>6. \A m \in images' : ImageInv(m)'
  BY <1>5 DEF IInv, ImageInv, Sound, Entries, Held, Lost, Doubtful, Live
<1>7. SavingAt(p)'
  <2>1. SavingAt(p) /\ job[p].at \in Saving /\ job[p].at # "finish" /\ at \in Saving
    BY DEF IInv, Saving
  <2> QED
    BY <1>1, <1>3, <2>1 DEF SavingAt, Held, Live
<1>8. \A q \in Pass \ {p} : SavingAt(q)'
  BY <1>3, OneSaves DEF SavingAt, Saving
<1>9. \A q \in Pass : ViewAt(q)'
  BY <1>1, <1>3 DEF IInv, ViewAt, Sound, Held, Live
<1>10. \A q \in Pass : AuditAt(q)'
  BY <1>1, <1>3 DEF IInv, AuditAt, log
<1>11. LogInv'
  BY DEF IInv, LogInv, log, Held, Live
<1> QED
  BY <1>4, <1>6, <1>7, <1>8, <1>9, <1>10, <1>11 DEF IInv

LEMMA FlushStep == ASSUME IInv, NEW p \in Pass, Flush(p) PROVE IInv'
<1>1. Types /\ SavingAt(p)
  BY DEF IInv
<1>2. Objects(job[p].batch) \subseteq files
  BY <1>1 DEF SavingAt, Saving, Flush, Is
<1> QED
  BY <1>1, <1>2, GoesOn DEF Flush, Is, Types

LEMMA ArchiveStep == ASSUME IInv, NEW p \in Pass, Archive(p) PROVE IInv'
<1>1. Types /\ SavingAt(p)
  BY DEF IInv
<1>2. Objects(job[p].batch) \subseteq flushed
  BY <1>1 DEF SavingAt, Saving, Archive, Is
<1>3. Superseded(p)' \subseteq Superseded(p)
  <2>1. job'[p].view = job[p].view /\ job'[p].batch = job[p].batch /\ minted' = minted
    BY <1>1 DEF Archive, Go, Do, Types, Job
  <2>2. \A r : Object(r) \in files' => Object(r) \in files
    BY DEF Archive, Object, Copy, Copies
  <2> QED
    BY <2>1, <2>2 DEF Superseded, InBatch, Live
<1>4. Copies(Superseded(p)') \subseteq flushed'
  BY <1>3 DEF Archive, Copies
<1> QED
  BY <1>1, <1>2, <1>4, GoesOn DEF Archive, Is, Types

\* What is live and held, and who is where, while a pass saves.
LEMMA AtSaving ==
    ASSUME IInv, NEW p \in Pass, job[p].at \in Saving
    PROVE  /\ Types /\ SavingAt(p) /\ job[p] \in Job /\ lock = p
           /\ Unflushed = IF job[p].at = "finish" THEN job[p].batch ELSE {}
           /\ job[p].at = "finish" => job[p].batch \subseteq Held(manifest)
           /\ \A m \in images : Entries(m) \subseteq flushed
           /\ \A q \in Pass : Entries(job[q].view) \subseteq files
<1>1. Types /\ SavingAt(p) /\ job[p] \in Job
  BY DEF IInv, Types
<1>2. Unflushed = IF job[p].at = "finish" THEN job[p].batch ELSE {}
  <2>1. \A q \in Pass : job[q].at = "finish" => q = p
    BY OneSaves DEF Saving
  <2> QED
    BY <2>1, InUnflushed
<1> QED
  BY <1>1, <1>2 DEF SavingAt, IInv, ImageInv, ViewAt

\* A pass that is told its batch is stored, and one whose step raised.
LEMMA Afterwards ==
    ASSUME IInv, NEW p \in Pass, job[p].at \in Saving
    PROVE  /\ Raises(p) => \E j \in Job :
                 /\ Do(p, j) /\ j.at \notin Saving \cup {"record", "audit"}
                 /\ j.view \in {job[p].view, Empty} /\ j.todo \subseteq Held(manifest)
           /\ job[p].at = "finish" /\ Stored(p) => \E j \in Job :
                 /\ Do(p, j) /\ j.at \notin Saving \cup {"record", "audit"}
                 /\ j.view = manifest /\ j.todo \subseteq Held(manifest)
                 /\ told' \subseteq told \cup Held(manifest)
<1>1. Types /\ job[p] \in Job /\ manifest \in Manifest /\ job[p].todo \subseteq Held(manifest)
      /\ job[p].batch \subseteq Nat
  BY AtSaving DEF IInv, ViewAt, Types, Job
<1>2. ASSUME Raises(p)
      PROVE  \E j \in Job : /\ Do(p, j) /\ j.at \notin Saving \cup {"record", "audit"}
                            /\ j.view \in {job[p].view, Empty} /\ j.todo \subseteq Held(manifest)
  <2> DEFINE j == [job[p] EXCEPT !.at = "work", !.batch = {}]
  <2>1. j \in Job /\ j.at = "work" /\ j.view = job[p].view /\ j.todo = job[p].todo
    BY <1>1 DEF Job, Place
  <2>2. Do(p, j) \/ Do(p, Free)
    BY <1>2 DEF Raises
  <2> HIDE DEF j
  <2> QED
    BY <1>1, <2>1, <2>2, EmptyStore DEF Saving
<1>3. ASSUME job[p].at = "finish", Stored(p)
      PROVE  \E j \in Job : /\ Do(p, j) /\ j.at \notin Saving \cup {"record", "audit"}
                            /\ j.view = manifest /\ j.todo \subseteq Held(manifest)
                            /\ told' \subseteq told \cup Held(manifest)
  <2> DEFINE j == [job[p] EXCEPT !.at = "work", !.view = manifest, !.batch = {}]
             k == [j EXCEPT !.at = "announce", !.todo = job[p].batch]
  <2>1. j \in Job /\ j.at = "work" /\ j.view = manifest /\ j.todo = job[p].todo
    BY <1>1 DEF Job, Place
  <2>2. k \in Job /\ k.at = "announce" /\ k.view = manifest /\ k.todo = job[p].batch
    BY <1>1, <2>1 DEF Job, Place
  <2>3. (Do(p, j) \/ Do(p, k)) /\ told' = told \cup job[p].batch
    BY <1>3 DEF Stored
  <2>4. job[p].batch \subseteq Held(manifest)
    BY <1>3, AtSaving DEF Saving
  <2> HIDE DEF j, k
  <2> QED
    BY <1>1, <2>1, <2>2, <2>3, <2>4 DEF Saving
<1> QED
  BY <1>2, <1>3

LEMMA FinishStep == ASSUME IInv, NEW p \in Pass, Finish(p) PROVE IInv'
<1>1. job[p].at = "finish" /\ job[p].at \in Saving
  BY DEF Finish, Is, Saving
<1>2. Types /\ Unflushed \subseteq Held(manifest) /\ \A m \in images : Entries(m) \subseteq flushed
      /\ \A q \in Pass : Entries(job[q].view) \subseteq files
  BY <1>1, AtSaving
<1>3. /\ UNCHANGED <<manifest, minted, created, retired, files, flushed>>
      /\ images' = {manifest} /\ unsure' = unsure \ Held(manifest) /\ Stored(p)
  BY DEF Finish, log
<1>4. \A m \in images' : Doubtful \ Held(m) \subseteq unsure'
  BY <1>2, <1>3 DEF Doubtful
<1>5. PICK j \in Job : /\ Do(p, j) /\ j.at \notin Saving \cup {"record", "audit"}
                       /\ j.view = manifest /\ j.todo \subseteq Held(manifest)
                       /\ told' \subseteq told \cup Held(manifest)
  BY <1>1, <1>3, Afterwards
<1> QED
  BY <1>1, <1>2, <1>3, <1>4, <1>5, Ends DEF Types

LEMMA FailEarlyStep == ASSUME IInv, NEW p \in Pass, FailEarly(p) PROVE IInv'
<1> DEFINE B == Objects(job[p].batch)
<1>1. job[p].at # "finish" /\ job[p].at \in Saving
  BY DEF FailEarly, Saving
<1>2. /\ Types /\ SavingAt(p) /\ Unflushed = {}
      /\ \A m \in images : Entries(m) \subseteq flushed
      /\ \A q \in Pass : Entries(job[q].view) \subseteq files
  BY <1>1, AtSaving
<1>3. /\ UNCHANGED <<manifest, images, minted, created, retired, told, unsure>>
      /\ files' = files \ B /\ flushed' = flushed \ B /\ Raises(p)
  BY DEF FailEarly, log
<1>4. \A m \in images : job[p].batch \cap Held(m) = {}
  BY <1>1, <1>2 DEF SavingAt
<1>5. \A m \in images : Entries(m) \subseteq flushed'
  <2> SUFFICES ASSUME NEW m \in images PROVE Entries(m) \subseteq flushed'
    OBVIOUS
  <2>1. Entries(m) \cap B = {}
    BY <1>4, Distinct
  <2> QED
    BY <1>2, <1>3, <2>1
<1>6. \A q \in Pass : Entries(job[q].view) \subseteq files'
  <2> SUFFICES ASSUME NEW q \in Pass PROVE Entries(job[q].view) \subseteq files'
    OBVIOUS
  <2>1. Held(job[q].view) \subseteq Held(manifest) /\ manifest \in images
    BY <1>2 DEF IInv, ViewAt, Types
  <2>2. Entries(job[q].view) \cap B = {}
    BY <1>4, <2>1, Distinct
  <2> QED
    BY <1>2, <1>3, <2>2
<1>7. flushed' \subseteq files' /\ manifest \in images'
  BY <1>2, <1>3 DEF Types
<1>8. \A m \in images' : Doubtful \ Held(m) \subseteq unsure'
  BY <1>2, <1>3 DEF Doubtful
<1>9. PICK j \in Job : /\ Do(p, j) /\ j.at \notin Saving \cup {"record", "audit"}
                       /\ j.view \in {job[p].view, Empty} /\ j.todo \subseteq Held(manifest)
  BY <1>1, <1>3, Afterwards
<1> HIDE DEF B
<1> QED
  BY <1>1, <1>3, <1>5, <1>6, <1>7, <1>8, <1>9, Ends

LEMMA FailLateStep == ASSUME IInv, NEW p \in Pass, FailLate(p) PROVE IInv'
<1>1. job[p].at \in {"replace", "finish"} /\ job[p].at \in Saving
  BY DEF FailLate, Is, Saving
<1>2. /\ Types /\ Unflushed = IF job[p].at = "finish" THEN job[p].batch ELSE {}
      /\ \A m \in images : Entries(m) \subseteq flushed
      /\ \A q \in Pass : Entries(job[q].view) \subseteq files
  BY <1>1, AtSaving
<1>3. /\ UNCHANGED <<manifest, images, minted, created, retired, files, flushed>>
      /\ unsure' = unsure \cup (IF job[p].at = "finish" THEN job[p].batch ELSE {})
  BY DEF FailLate, Is, log
<1>4. \A m \in images' : Doubtful \ Held(m) \subseteq unsure'
  BY <1>2, <1>3 DEF Doubtful
<1>5. PICK j \in Job : /\ Do(p, j) /\ j.at \notin Saving \cup {"record", "audit"}
                       /\ j.view \in {job[p].view, manifest, Empty}
                       /\ j.todo \subseteq Held(manifest)
                       /\ told' \subseteq told \cup Held(manifest)
  <2>1. CASE Raises(p) /\ UNCHANGED told
    BY <1>1, <2>1, Afterwards
  <2>2. CASE job[p].at = "finish" /\ Stored(p)
    BY <1>1, <2>2, Afterwards
  <2> QED
    BY <2>1, <2>2 DEF FailLate, Is
<1> QED
  BY <1>1, <1>2, <1>3, <1>4, <1>5, Ends DEF Types

\* A death in the store ends the batch, elsewhere it is quiet.
LEMMA DieStep == ASSUME IInv, NEW p \in Pass, Die(p) PROVE IInv'
<1>1. Types /\ job[p] \in Job /\ job' = [job EXCEPT ![p] = Free]
      /\ UNCHANGED <<manifest, images, minted, created, retired, files, flushed, told>>
      /\ unsure' = IF job[p].at = "finish" THEN unsure \cup job[p].batch ELSE unsure
  BY DEF IInv, Types, Die, Do, log, Is
<1>2. CASE job[p].at \in Saving
  <2>1. /\ Unflushed = IF job[p].at = "finish" THEN job[p].batch ELSE {}
        /\ \A m \in images : Entries(m) \subseteq flushed
        /\ \A q \in Pass : Entries(job[q].view) \subseteq files
    BY <1>2, AtSaving
  <2>2. \A m \in images' : Doubtful \ Held(m) \subseteq unsure'
    BY <1>1, <2>1 DEF Doubtful
  <2>3. Free \in Job /\ Do(p, Free) /\ Free.at \notin Saving \cup {"record", "audit"}
        /\ Free.view = Empty /\ Free.todo \subseteq Held(manifest)
    BY <1>1, EmptyStore DEF Saving, Do
  <2> QED
    BY <1>1, <1>2, <2>1, <2>2, <2>3, Ends DEF Types
<1>3. CASE job[p].at \notin Saving
  <2>1. lock' = IF lock = p THEN None ELSE lock
    BY DEF Die
  <2>2. \A q \in Pass \ {p} : SavingAt(q) => (job[q].at \in Saving => lock' = q)
    BY <2>1 DEF SavingAt
  <2>3. unsure' = unsure
    BY <1>1, <1>3 DEF Saving
  <2>4. /\ job'[p] = Free /\ \A q \in Pass \ {p} : job'[q] = job[q]
    BY <1>1 DEF Types
  <2>5. Types'
    BY <1>1, EmptyStore DEF Types
  <2>6. Unflushed' = Unflushed
    BY <1>3, <2>4, EmptyStore, InUnflushed DEF Saving
  <2>7. \A m \in images' : ImageInv(m)'
    BY <1>1, <2>3, <2>6 DEF IInv, ImageInv, Sound, Entries, Held, Lost, Doubtful, Live
  <2>8. \A q \in Pass \ {p} : SavingAt(q)'
    BY <1>1, <2>2, <2>3, <2>4 DEF IInv, SavingAt, Held, Live, Superseded, InBatch
  <2>9. SavingAt(p)' /\ ViewAt(p)' /\ AuditAt(p)'
    BY <1>1, <2>4, EmptyStore DEF SavingAt, ViewAt, AuditAt, Saving, Sound
  <2>10. \A q \in Pass \ {p} : ViewAt(q)' /\ AuditAt(q)'
    BY <1>1, <2>4 DEF IInv, ViewAt, AuditAt, Sound, Held, Live
  <2>11. LogInv'
    BY <1>1, <2>3 DEF IInv, LogInv, Held, Live
  <2> QED
    BY <2>5, <2>7, <2>8, <2>9, <2>10, <2>11 DEF IInv
<1> QED
  BY <1>2, <1>3

\* The writes of a batch are a sequence of different names.
LEMMA Writes ==
    ASSUME NEW writes \in SetToAllKPermutations(Name) \ {<<>>}
    PROVE  /\ writes \in Seq(Name) /\ Len(writes) \in Nat \ {0}
           /\ \A i, k \in 1..Len(writes) : writes[i] = writes[k] => i = k
<1>1. PICK S \in SUBSET Name : writes \in SetToSeqs(S)
  BY DEF SetToAllKPermutations
<1>2. Cardinality(S) \in Nat
  BY <1>1, ArtifactsAssumption, FS_Subset, FS_CardinalityType
<1>3. /\ writes \in [1..Cardinality(S) -> S]
      /\ \A i, k \in 1..Cardinality(S) : i # k => writes[i] # writes[k]
  BY <1>1 DEF SetToSeqs
<1>4. writes \in Seq(Name) /\ Len(writes) = Cardinality(S)
  BY <1>2, <1>3
<1> QED
  BY <1>2, <1>3, <1>4

LEMMA SaveStep ==
    ASSUME IInv, NEW p \in Pass, NEW writes \in SetToAllKPermutations(Name) \ {<<>>},
           Save(p, writes)
    PROVE  IInv'
<1> DEFINE batch == Len(minted) + 1..Len(minted) + Len(writes)
           j == [job[p] EXCEPT !.at = "flush", !.view = manifest, !.batch = batch]
<1>1. Types /\ manifest \in Manifest /\ job[p] \in Job /\ Len(minted) \in Nat
  BY DEF IInv, Types
<1>2. /\ job[p].at = "work" /\ lock = None /\ lock' = p
      /\ minted' = minted \o writes /\ files' = files \cup Objects(batch)
      /\ Len(minted) + Len(writes) <= MaxRevisions
      /\ job' = [job EXCEPT ![p] = j]
      /\ UNCHANGED <<manifest, images, flushed, told, unsure, created, retired>>
  BY DEF Save, SaveOn, Is, Do, log
<1>3. /\ minted' \in Seq(Name) /\ Len(minted') = Len(minted) + Len(writes)
      /\ DOMAIN minted \subseteq DOMAIN minted'
      /\ \A r \in DOMAIN minted : minted'[r] = minted[r]
  BY <1>1, <1>2, Writes DEF Types
<1>4. /\ batch # {} /\ batch \subseteq DOMAIN minted' /\ batch \cap DOMAIN minted = {}
      /\ batch \subseteq Nat
  <2>1. Len(writes) \in Nat \ {0}
    BY Writes
  <2>2. DOMAIN minted = 1..Len(minted) /\ DOMAIN minted' = 1..Len(minted) + Len(writes)
    BY <1>1, <1>3 DEF Types
  <2>3. Len(minted) + 1 \in batch
    BY <1>1, <2>1
  <2>4. batch \subseteq 1..Len(minted) + Len(writes) /\ batch \cap 1..Len(minted) = {}
    BY <1>1, <2>1
  <2> HIDE DEF batch
  <2> QED
    BY <1>1, <2>2, <2>3, <2>4
<1>5. \A r, s \in batch : minted'[r] = minted'[s] => r = s
  <2> SUFFICES ASSUME NEW r \in batch, NEW s \in batch, minted'[r] = minted'[s] PROVE r = s
    OBVIOUS
  <2>1. /\ r - Len(minted) \in 1..Len(writes) /\ s - Len(minted) \in 1..Len(writes)
        /\ r \in Nat /\ s \in Nat
    BY <1>1, Writes
  <2>2. minted'[r] = writes[r - Len(minted)] /\ minted'[s] = writes[s - Len(minted)]
    BY <1>1, <1>2, Writes DEF Types
  <2>3. r - Len(minted) = s - Len(minted)
    BY <2>1, <2>2, Writes
  <2> QED
    BY <1>1, <2>1, <2>3
<1>6. /\ j \in Job /\ j.at = "flush" /\ j.view = manifest /\ j.todo = job[p].todo
      /\ j.batch = batch
  BY <1>1, <1>4 DEF Job, Place, Saving
<1> HIDE DEF batch, j
<1>7. job'[p] = j /\ \A q \in Pass \ {p} : job'[q] = job[q]
  BY <1>1, <1>2 DEF Types
<1>8. Types'
  BY <1>1, <1>2, <1>3, <1>6 DEF Types
<1>9. Unflushed' = Unflushed
  <2>1. job[p].at # "finish" /\ job'[p].at # "finish"
    BY <1>2, <1>6, <1>7
  <2> QED
    BY <1>7, <2>1, InUnflushed
<1>10. \A m : Sound(m) => Sound(m)'
  BY <1>3 DEF Sound
<1>11. \A m \in images' : ImageInv(m)'
  <2> SUFFICES ASSUME NEW m \in images PROVE ImageInv(m)'
    BY <1>2
  <2>1. ImageInv(m)
    BY DEF IInv
  <2>2. Doubtful' = Doubtful
    BY <1>2, <1>9 DEF Doubtful
  <2>3. Sound(m)'
    BY <1>10, <2>1 DEF ImageInv
  <2> QED
    BY <1>2, <2>1, <2>2, <2>3 DEF ImageInv, Entries, Held, Lost, Live
<1>12. \A m \in images : Held(m) \subseteq DOMAIN minted
  BY <1>1, HeldTypes DEF IInv
<1>13. SavingAt(p)'
  <2>1. unsure \subseteq DOMAIN minted
    BY DEF IInv, LogInv
  <2>2. \A m \in images : batch \cap Held(m) = {}
    BY <1>4, <1>12
  <2> QED
    BY <1>2, <1>4, <1>5, <1>6, <1>7, <2>1, <2>2 DEF SavingAt, Held, Live
<1>14. \A q \in Pass \ {p} : job[q].at \notin Saving
  BY <1>2, ArtifactsAssumption DEF IInv, SavingAt, None
<1>15. \A q \in Pass \ {p} : SavingAt(q)'
  BY <1>7, <1>14 DEF SavingAt
<1>16. ViewAt(p)'
  <2>1. Sound(manifest) /\ Entries(manifest) \subseteq files
    BY <1>1 DEF IInv, ImageInv, Types
  <2>2. job[p].todo \subseteq Held(manifest)
    BY DEF IInv, ViewAt
  <2> QED
    BY <1>2, <1>6, <1>7, <1>10, <2>1, <2>2 DEF ViewAt, Held, Live
<1>17. \A q \in Pass \ {p} : ViewAt(q)'
  BY <1>2, <1>7, <1>10 DEF IInv, ViewAt, Held, Live
<1>18. \A q \in Pass : AuditAt(q)'
  BY <1>2, <1>6, <1>7 DEF IInv, AuditAt
<1>19. LogInv'
  BY <1>2, <1>3 DEF IInv, LogInv, Held, Live
<1> QED
  BY <1>8, <1>11, <1>13, <1>15, <1>16, <1>17, <1>18, <1>19 DEF IInv

\* What the replaced manifest holds: each name of the batch its new revision, and the ones
\* they supersede as copies.
LEMMA CandidateHolds ==
    ASSUME IInv, NEW p \in Pass, job[p].at = "replace"
    PROVE  LET c == Candidate(p)
               B == job[p].batch
           IN
           /\ c \in Manifest /\ Sound(c)
           /\ c.kept = manifest.kept \cup Superseded(p)
           /\ \A n \in Name : InBatch(p, n) => c.live[n] \in B /\ minted[c.live[n]] = n
           /\ \A n \in Name : ~InBatch(p, n) => c.live[n] = manifest.live[n]
           /\ Superseded(p) = {manifest.live[n] : n \in {k \in Name : InBatch(p, k)}} \ {None}
           /\ B \subseteq Live(c) /\ Live(c) \subseteq B \cup Live(manifest)
           /\ Held(c) = Held(manifest) \cup B
<1> DEFINE c == Candidate(p)
           B == job[p].batch
<1>1. /\ Types /\ SavingAt(p) /\ manifest \in Manifest /\ job[p] \in Job
      /\ Sound(manifest) /\ Entries(manifest) \subseteq files /\ job[p].view = manifest
  BY DEF IInv, Types, ImageInv, SavingAt, Saving
<1>2. /\ B \subseteq DOMAIN minted /\ DOMAIN minted \subseteq Nat \ {None}
      /\ \A r \in DOMAIN minted : minted[r] \in Name
      /\ \A r, s \in B : minted[r] = minted[s] => r = s
  BY <1>1 DEF SavingAt, Saving, Types, None
<1>3. \A r \in Live(manifest) : Object(r) \in files /\ r \in DOMAIN minted
                                /\ manifest.live[minted[r]] = r
  BY <1>1 DEF Entries, Objects, Live, Sound
<1>4. Superseded(p) = {r \in Live(manifest) : InBatch(p, minted[r])}
  BY <1>1, <1>3 DEF Superseded
<1>5. /\ c.kept = manifest.kept \cup Superseded(p)
      /\ \A n \in Name : c.live[n] = IF InBatch(p, n) THEN CHOOSE r \in B : minted[r] = n
                                     ELSE manifest.live[n]
      /\ c = [live |-> c.live, kept |-> c.kept]
      /\ c.live = [n \in Name |-> c.live[n]]
  BY <1>1 DEF Candidate
<1>6. \A n \in Name : InBatch(p, n) => c.live[n] \in B /\ minted[c.live[n]] = n
  BY <1>5 DEF InBatch
<1>7. \A n \in Name : ~InBatch(p, n) => c.live[n] = manifest.live[n]
  BY <1>5
<1> HIDE DEF c
<1>8. \A r \in B : InBatch(p, minted[r]) /\ c.live[minted[r]] = r
  <2> SUFFICES ASSUME NEW r \in B PROVE InBatch(p, minted[r]) /\ c.live[minted[r]] = r
    OBVIOUS
  <2>1. InBatch(p, minted[r]) /\ minted[r] \in Name
    BY <1>2 DEF InBatch
  <2> QED
    BY <1>2, <1>6, <2>1
<1>9. Superseded(p) = {manifest.live[n] : n \in {k \in Name : InBatch(p, k)}} \ {None}
  <2>1. ASSUME NEW n \in Name, InBatch(p, n), manifest.live[n] # None
        PROVE  manifest.live[n] \in Superseded(p)
    BY <1>1, <1>4, <2>1 DEF Live, Sound
  <2>2. ASSUME NEW r \in Superseded(p)
        PROVE  \E n \in Name : InBatch(p, n) /\ r = manifest.live[n] /\ r # None
    BY <1>2, <1>3, <1>4, <2>2 DEF Live
  <2> QED
    BY <2>1, <2>2
<1>10. c \in Manifest
  <2>1. \A n \in Name : c.live[n] \in Nat
    BY <1>1, <1>2, <1>6, <1>7 DEF Manifest
  <2>2. Superseded(p) \subseteq Nat
    BY <1>2, <1>3, <1>4
  <2> QED
    BY <1>1, <1>5, <2>1, <2>2 DEF Manifest
<1>11. Sound(c)
  <2>1. ASSUME NEW n \in Name, c.live[n] # None
        PROVE  c.live[n] \in DOMAIN minted /\ minted[c.live[n]] = n
    BY <1>1, <1>2, <1>6, <1>7, <2>1 DEF Sound
  <2>2. ASSUME NEW r \in c.kept PROVE r \in DOMAIN minted /\ c.live[minted[r]] # None
    <3>1. r \in DOMAIN minted /\ minted[r] \in Name /\ manifest.live[minted[r]] # None
      BY <1>1, <1>2, <1>3, <1>4, <1>5, <2>2 DEF Sound, Live
    <3> QED
      BY <1>2, <1>6, <1>7, <3>1
  <2> QED
    BY <2>1, <2>2 DEF Sound
<1>12. B \subseteq Live(c)
  BY <1>2, <1>8 DEF Live
<1>13. Live(c) \subseteq B \cup Live(manifest)
  BY <1>6, <1>7 DEF Live
<1>14. Held(c) = Held(manifest) \cup B
  <2>1. ASSUME NEW r \in Live(manifest) PROVE r \in Held(c)
    <3>1. r # None /\ r \in DOMAIN minted /\ minted[r] \in Name /\ manifest.live[minted[r]] = r
      BY <1>2, <1>3, <2>1 DEF Live
    <3>2. CASE InBatch(p, minted[r])
      BY <1>4, <1>5, <2>1, <3>2 DEF Held
    <3>3. CASE ~InBatch(p, minted[r])
      BY <1>7, <3>1, <3>3 DEF Held, Live
    <3> QED
      BY <3>2, <3>3
  <2>2. manifest.kept \subseteq Held(c)
    BY <1>5 DEF Held
  <2>3. Held(c) \subseteq Held(manifest) \cup B
    BY <1>4, <1>5, <1>13 DEF Held
  <2> QED
    BY <1>12, <2>1, <2>2, <2>3 DEF Held
<1> QED
  BY <1>5, <1>6, <1>7, <1>9, <1>10, <1>11, <1>12, <1>13, <1>14 DEF c

LEMMA ReplaceStep == ASSUME IInv, NEW p \in Pass, Replace(p) PROVE IInv'
<1> DEFINE B == job[p].batch
           j == [job[p] EXCEPT !.at = "finish"]
<1>1. /\ job[p].at = "replace"
      /\ job' = [job EXCEPT ![p] = j]
      /\ UNCHANGED <<files, flushed, lock, minted, told, unsure, created, retired>>
  BY DEF Replace, Is, Go, Do, log
<1>2. /\ Types /\ SavingAt(p) /\ job[p] \in Job /\ manifest \in images /\ ImageInv(manifest)
  BY DEF IInv, Types
<1>3. PICK c \in Manifest :
         /\ Sound(c) /\ c.kept = manifest.kept \cup Superseded(p)
         /\ Live(c) \subseteq B \cup Live(manifest) /\ Held(c) = Held(manifest) \cup B
         /\ manifest' = c /\ images' = images \cup {c}
  <2>1. manifest' = Candidate(p) /\ images' = images \cup {Candidate(p)}
    BY DEF Replace
  <2> QED
    BY <1>1, <2>1, CandidateHolds
<1>4. /\ lock = p /\ B # {} /\ B \subseteq DOMAIN minted
      /\ \A r, s \in B : minted[r] = minted[s] => r = s
      /\ Objects(B) \subseteq files /\ Objects(B) \subseteq flushed
      /\ Copies(Superseded(p)) \subseteq flushed
      /\ B \cap unsure = {} /\ \A m \in images : B \cap Held(m) = {}
      /\ job[p].view = manifest
  BY <1>1, <1>2 DEF SavingAt, Saving
<1>5. Entries(c) \subseteq flushed
  <2>1. Objects(Live(c)) \subseteq Objects(B) \cup Objects(Live(manifest))
    BY <1>3 DEF Objects
  <2>2. Copies(c.kept) \subseteq Copies(manifest.kept) \cup Copies(Superseded(p))
    BY <1>3 DEF Copies
  <2>3. Entries(manifest) \subseteq flushed
    BY <1>2 DEF ImageInv
  <2> QED
    BY <1>4, <2>1, <2>2, <2>3 DEF Entries
<1>6. /\ j \in Job /\ j.at = "finish" /\ j.view = manifest /\ j.todo = job[p].todo
      /\ j.batch = B
  BY <1>2, <1>4 DEF Job, Place, Saving
<1> HIDE DEF B, j
<1>7. job'[p] = j /\ \A q \in Pass \ {p} : job'[q] = job[q] /\ job[q].at \notin Saving
  BY <1>1, <1>2, OneSaves DEF Types, Saving
<1>8. Types'
  BY <1>1, <1>2, <1>3, <1>6 DEF Types
<1>9. Unflushed = {} /\ Unflushed' = B
  <2>1. job[p].at # "finish" /\ job'[p].at = "finish" /\ job'[p].batch = B
    BY <1>1, <1>6, <1>7
  <2>2. \A q \in Pass \ {p} : job[q].at # "finish" /\ job'[q].at # "finish"
    BY <1>7 DEF Saving
  <2> QED
    BY <2>1, <2>2, InUnflushed
<1>10. Doubtful = unsure /\ Doubtful' = unsure \cup B
  BY <1>1, <1>9 DEF Doubtful
<1>11. \A m \in images' : ImageInv(m)'
  <2>1. ASSUME NEW m \in images PROVE ImageInv(m)'
    <3>1. ImageInv(m)
      BY DEF IInv
    <3>2. Held(c) \subseteq Held(m) \cup unsure \cup B
      BY <1>3, <1>10, <3>1 DEF ImageInv
    <3>3. (unsure \cup B) \ Held(m) # {}
      BY <1>4
    <3> QED
      BY <1>1, <1>3, <1>10, <3>1, <3>2, <3>3 DEF ImageInv, Sound, Entries, Held, Live, Lost
  <2>2. ImageInv(c)'
    BY <1>1, <1>3, <1>5 DEF ImageInv, Sound, Entries, Held, Live
  <2> QED
    BY <1>3, <2>1, <2>2
<1>12. SavingAt(p)'
  <2>1. B \subseteq Held(manifest)'
    BY <1>1, <1>3 DEF Held, Live
  <2> QED
    BY <1>1, <1>4, <1>6, <1>7, <2>1 DEF SavingAt
<1>13. \A q \in Pass \ {p} : SavingAt(q)'
  BY <1>7 DEF SavingAt
<1>14. Held(manifest) \subseteq Held(manifest)' /\ manifest.kept \subseteq manifest'.kept
  BY <1>1, <1>3 DEF Held, Live
<1>15. \A q \in Pass : ViewAt(q)'
  <2> SUFFICES ASSUME NEW q \in Pass PROVE ViewAt(q)'
    OBVIOUS
  <2>1. ViewAt(q) /\ job'[q].view = job[q].view /\ job'[q].todo = job[q].todo
    BY <1>4, <1>6, <1>7 DEF IInv
  <2> QED
    BY <1>1, <1>14, <2>1 DEF ViewAt, Sound, Held, Live
<1>16. \A q \in Pass : AuditAt(q)'
  BY <1>1, <1>6, <1>7 DEF IInv, AuditAt
<1>17. LogInv'
  <2>1. LogInv
    BY DEF IInv
  <2>2. Held(manifest)' = Held(manifest) \cup B
    BY <1>1, <1>3 DEF Held, Live
  <2>3. unsure \ (Held(manifest) \cup B) = unsure \ Held(manifest)
    BY <1>4
  <2> QED
    BY <1>1, <1>14, <2>1, <2>2, <2>3 DEF LogInv
<1> QED
  BY <1>8, <1>11, <1>12, <1>13, <1>15, <1>16, <1>17 DEF IInv

LEMMA LosePowerStep == ASSUME IInv, LosePower PROVE IInv'
<1>1. /\ manifest' \in images /\ images' = {manifest'}
      /\ flushed \subseteq files' /\ flushed' = files'
      /\ job' = [p \in Pass |-> Free]
      /\ unsure' = (unsure \cup Unflushed) \ Held(manifest')
      /\ UNCHANGED <<minted, told, created, retired>>
  BY DEF LosePower, log
<1>2. Types /\ ImageInv(manifest') /\ ImageInv(manifest) /\ LogInv
  BY <1>1 DEF IInv, Types
<1>3. \A p \in Pass : job'[p] = Free
  BY <1>1
<1>4. Types'
  BY <1>1, <1>2, EmptyStore DEF Types
<1>5. \A p \in Pass : SavingAt(p)' /\ ViewAt(p)' /\ AuditAt(p)'
  BY <1>1, <1>3, EmptyStore DEF SavingAt, ViewAt, AuditAt, Saving, Sound
<1>6. \A m \in images' : ImageInv(m)'
  BY <1>1, <1>2 DEF ImageInv, Sound, Entries, Held, Live
<1>7. unsure' \ Held(manifest)' = unsure' /\ unsure' = Doubtful \ Held(manifest')
  BY <1>1 DEF Doubtful, Held, Live
<1>8. told' \cup created' \subseteq Held(manifest)' \cup unsure'
  <2>1. Held(manifest) \subseteq Held(manifest') \cup unsure'
    BY <1>2, <1>7 DEF ImageInv
  <2>2. unsure \subseteq Held(manifest') \cup unsure'
    BY <1>1
  <2> QED
    BY <1>1, <1>2, <2>1, <2>2 DEF LogInv, Held, Live
<1>9. unsure' \subseteq DOMAIN minted
  <2>1. Unflushed \subseteq DOMAIN minted
    BY InUnflushed DEF IInv, SavingAt, Saving
  <2> QED
    BY <1>1, <1>2, <2>1 DEF LogInv
<1>10. retired' \subseteq manifest'.kept \/ unsure' # {}
  <2>1. CASE manifest' = manifest
    BY <1>1, <1>2, <2>1 DEF LogInv
  <2>2. CASE manifest' # manifest
    BY <1>2, <1>7, <2>2 DEF ImageInv, Lost
  <2> QED
    BY <2>1, <2>2
<1> QED
  BY <1>1, <1>4, <1>5, <1>6, <1>7, <1>8, <1>9, <1>10 DEF IInv, LogInv

-----------------------------------------------------------------------------
(* The invariant, and what follows from it. *)

LEMMA Initially == Init => IInv
<1> SUFFICES ASSUME Init PROVE IInv
  OBVIOUS
<1>1. \A p \in Pass : job[p] = Free
  BY DEF Init
<1>2. Types
  BY ArtifactsAssumption, EmptyStore DEF Init, Types
<1>3. \A m \in images : ImageInv(m)
  BY EmptyStore DEF Init, ImageInv
<1>4. \A p \in Pass : SavingAt(p) /\ ViewAt(p) /\ AuditAt(p)
  BY <1>1, EmptyStore DEF Init, SavingAt, ViewAt, AuditAt, Saving
<1>5. LogInv
  BY DEF Init, LogInv
<1> QED
  BY <1>2, <1>3, <1>4, <1>5 DEF IInv

LEMMA Stuttering == ASSUME IInv, UNCHANGED vars PROVE IInv'
<1>1. /\ UNCHANGED <<manifest, images, files, flushed, lock, minted, created, retired>>
      /\ UNCHANGED <<job, told, unsure>>
  BY DEF vars
<1>2. Types'
  BY <1>1 DEF IInv, Types
<1>3. Doubtful' = Doubtful
  BY <1>1 DEF Doubtful, Unflushed, Is
<1>4. \A m \in images' : ImageInv(m)'
  BY <1>1, <1>3 DEF IInv, ImageInv, Sound, Lost, Held, Live
<1>5. ASSUME NEW p \in Pass PROVE SavingAt(p)' /\ ViewAt(p)' /\ AuditAt(p)'
  <2>1. SavingAt(p)'
    BY <1>1 DEF IInv, SavingAt, Superseded, InBatch, Held, Live
  <2>2. ViewAt(p)'
    BY <1>1 DEF IInv, ViewAt, Sound, Held, Live
  <2>3. AuditAt(p)'
    BY <1>1 DEF IInv, AuditAt, Live
  <2> QED
    BY <2>1, <2>2, <2>3
<1>6. LogInv'
  BY <1>1 DEF IInv, LogInv, Held, Live
<1> QED
  BY <1>2, <1>4, <1>5, <1>6 DEF IInv

\* The inductive invariant of passes over one artifact store.
THEOREM StoreInvariance == Spec => []IInv
<1>1. ASSUME IInv, [Next]_vars PROVE IInv'
  <2>1. CASE UNCHANGED vars
    BY <1>1, <2>1, Stuttering
  <2>2. CASE LosePower
    BY <1>1, <2>2, LosePowerStep
  <2>3. ASSUME NEW p \in Pass, PassStep(p) \/ StoreStep(p) \/ Die(p) PROVE IInv'
    <3>1. CASE PassStep(p)
      BY <1>1, <3>1, PassSteps
    <3>2. CASE Die(p)
      BY <1>1, <3>2, DieStep
    <3>3. CASE StoreStep(p)
      <4>1. CASE \E writes \in SetToAllKPermutations(Name) \ {<<>>} : Save(p, writes)
        BY <1>1, <4>1, SaveStep
      <4>2. CASE Flush(p) \/ Archive(p) \/ Replace(p)
        BY <1>1, <4>2, FlushStep, ArchiveStep, ReplaceStep
      <4>3. CASE Finish(p) \/ FailEarly(p) \/ FailLate(p)
        BY <1>1, <4>3, FinishStep, FailEarlyStep, FailLateStep
      <4> QED
        BY <3>3, <4>1, <4>2, <4>3 DEF StoreStep
    <3> QED
      BY <2>3, <3>1, <3>2, <3>3
  <2> QED
    BY <1>1, <2>1, <2>2, <2>3 DEF Next
<1> QED
  BY <1>1, Initially, PTL DEF Spec

\* Whatever a crash leaves as the manifest, each of its entries has its file, and what a writer
\* was told or the log announced is there, but for what was published and not flushed
\* (save_artifact_batch, _write_manifest).
THEOREM NothingIsLostAlways == Spec => []NothingIsLost
<1>1. IInv => NothingIsLost
  BY DEF IInv, ImageInv, LogInv, NothingIsLost
<1> QED
  BY <1>1, StoreInvariance, PTL

\* An honest pass satisfies the control A5 at its audit, whatever other passes did or left
\* behind, and A10 if the manifest it read is still the current one and no announced revision
\* is unsure to be on the disk (_record_artifact_changes, a5_artifact_integrity,
\* a10_declared_artifacts).
THEOREM AuditPassesAlways == Spec => []AuditPasses
<1>1. ASSUME IInv, NEW p \in Pass, Is(p, "audit")
      PROVE  /\ ManifestVerifies(job[p].view)
             /\ job[p].view = manifest /\ created \cap unsure = {}
                    => AnnouncementsHold(job[p].view)
  <2>1. Types /\ ViewAt(p) /\ AuditAt(p) /\ Sound(manifest) /\ LogInv
    BY <1>1 DEF IInv, ImageInv, Types
  <2>2. ManifestVerifies(job[p].view)
    BY <2>1 DEF ViewAt, ManifestVerifies
  <2>3. ASSUME job[p].view = manifest, created \cap unsure = {}, NEW r \in created
        PROVE  /\ manifest.live[minted[r]] # None
               /\ r = manifest.live[minted[r]] \/ r \in manifest.kept
               /\ manifest.live[minted[r]] \in created
    <3>1. r \in Held(manifest) /\ Live(manifest) \subseteq created
      BY <1>1, <2>1, <2>3 DEF LogInv, AuditAt, Is
    <3>2. r \in DOMAIN minted /\ manifest.live[minted[r]] # None
          /\ (r = manifest.live[minted[r]] \/ r \in manifest.kept)
      BY <2>1, <3>1 DEF Held, Live, Sound, Types
    <3>3. minted[r] \in Name
      BY <2>1, <3>2 DEF Types
    <3> QED
      BY <3>1, <3>2, <3>3 DEF Live
  <2> QED
    BY <2>2, <2>3 DEF AnnouncementsHold
<1>2. IInv => AuditPasses
  BY <1>1 DEF AuditPasses
<1> QED
  BY <1>2, StoreInvariance, PTL

-----------------------------------------------------------------------------
(* The refinement: a batch appears in one step, and goes only before it is flushed. *)

LEMMA PublishStep == ASSUME IInv, NEW p \in Pass, Replace(p) PROVE Batches!Publish
<1> DEFINE c == Candidate(p)
           B == job[p].batch
           names == {n \in Name : InBatch(p, n)}
           batch == [n \in names |-> c.live[n]]
<1>1. job[p].at = "replace" /\ manifest' = c /\ images' = images \cup {c}
  BY DEF Replace, Is
<1>2. /\ Types /\ B # {} /\ B \subseteq DOMAIN minted /\ B \cap Held(manifest) = {}
      /\ job[p].view = manifest
  BY <1>1 DEF IInv, Types, SavingAt, Saving
<1>3. /\ \A n \in names : c.live[n] \in B /\ minted[c.live[n]] = n
      /\ \A n \in Name \ names : c.live[n] = manifest.live[n]
      /\ Superseded(p) = {manifest.live[n] : n \in names} \ {None}
  BY <1>1, CandidateHolds
<1>4. c = [live |-> [n \in Name |-> c.live[n]], kept |-> manifest.kept \cup Superseded(p)]
  <2> DEFINE live == [n \in Name |-> IF InBatch(p, n) THEN CHOOSE r \in B : minted[r] = n
                                     ELSE job[p].view.live[n]]
             kept == job[p].view.kept \cup Superseded(p)
  <2>1. c = [live |-> live, kept |-> kept]
    BY DEF Candidate
  <2>2. live = [n \in Name |-> live[n]]
    OBVIOUS
  <2>3. kept = manifest.kept \cup Superseded(p)
    BY <1>2
  <2> HIDE DEF live, kept, c
  <2>4. c.live = live
    BY <2>1
  <2> QED
    BY <2>1, <2>2, <2>3, <2>4
<1>5. names \in (SUBSET Name) \ {{}}
  <2>1. PICK r \in B : minted[r] \in Name
    BY <1>2 DEF Types
  <2>2. minted[r] \in names
    BY <2>1 DEF InBatch
  <2> QED
    BY <2>2
<1> HIDE DEF c, B, names
<1>6. batch \in [names -> Revision \ (Batches!Live(manifest) \cup manifest.kept)]
  <2>1. Batches!Live(manifest) \cup manifest.kept = Held(manifest)
    BY DEF Batches!Live, Held, Live
  <2>2. B \subseteq Revision
    BY <1>2, ArtifactsAssumption DEF Types, Revision
  <2> QED
    BY <1>2, <1>3, <2>1, <2>2
<1>7. Batches!Injective(batch)
  BY <1>3 DEF Batches!Injective
<1>8. c = [live |-> [n \in Name |-> IF n \in names THEN batch[n] ELSE manifest.live[n]],
           kept |-> manifest.kept \cup ({manifest.live[n] : n \in names} \ {None})]
  <2>1. \A n \in Name : c.live[n] = IF n \in names THEN batch[n] ELSE manifest.live[n]
    BY <1>3
  <2> QED
    BY <1>3, <1>4, <2>1
<1> QED
  BY <1>1, <1>5, <1>6, <1>7, <1>8 DEF Batches!Publish

\* Every step of the store is one of its batches, or none.
LEMMA BatchStep == IInv /\ [Next]_vars => [Batches!Next]_(Batches!vars)
<1> SUFFICES ASSUME IInv, [Next]_vars PROVE [Batches!Next]_(Batches!vars)
  OBVIOUS
<1>1. CASE UNCHANGED vars
  BY <1>1 DEF vars, Batches!vars
<1>2. CASE LosePower
  BY <1>2 DEF LosePower, Batches!Next, Batches!LosePower
<1>3. ASSUME NEW p \in Pass, PassStep(p) \/ Die(p) PROVE UNCHANGED Batches!vars
  BY <1>3 DEF PassStep, Open, StartCall, CloseCall, Announce, Record, RecordOne, Recorded, Rework,
              Leave, Die, store, Batches!vars
<1>4. ASSUME NEW p \in Pass, StoreStep(p) PROVE [Batches!Next]_(Batches!vars)
  <2>1. CASE Replace(p)
    BY <2>1, PublishStep DEF Batches!Next
  <2>2. CASE Finish(p)
    BY <2>2 DEF Finish, Batches!Next, Batches!Flush
  <2>3. CASE \/ \E writes \in SetToAllKPermutations(Name) \ {<<>>} : Save(p, writes)
             \/ Flush(p) \/ Archive(p) \/ FailEarly(p) \/ FailLate(p)
    BY <2>3 DEF Save, SaveOn, Flush, Archive, FailEarly, FailLate, Batches!vars
  <2> QED
    BY <1>4, <2>1, <2>2, <2>3 DEF StoreStep
<1> QED
  BY <1>1, <1>2, <1>3, <1>4 DEF Next

\* The files of the store keep what is promised of its batches (save_artifact_batch): a batch
\* becomes visible all at once, what it supersedes is kept, and only what nothing has flushed
\* may go again.
THEOREM BatchesAreAtomicAlways == Spec => BatchesAreAtomic
<1>1. Init => Batches!Init
  BY DEF Init, Empty, Batches!Init, Batches!Nothing
<1> QED
  BY <1>1, BatchStep, StoreInvariance, PTL DEF Spec, BatchesAreAtomic, Batches!Spec
=============================================================================
