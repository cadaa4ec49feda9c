------------------------------ MODULE EventLog ------------------------------
(***************************************************************************)
(* The event log of a Run as files: events.jsonl, one hash-chained event   *)
(* per line, and run.json, its projection (JsonlEventLog, LocalRunStore).  *)
(* Threads of one process append and read; a write is cut by a full disk,  *)
(* by the end of the process or by a loss of power.                        *)
(***************************************************************************)
EXTENDS Naturals, FiniteSets, Sequences

CONSTANTS Thread, Call, None,
          AnyVersion,        \* expected_version=None
          MaxReads, MaxFaults   \* bounds: reads; failed writes and ends of the process

ASSUME EventLogAssumption ==
    /\ None \notin Thread \cup Call /\ AnyVersion \notin Nat
    /\ MaxReads \in Nat /\ MaxFaults \in Nat

(* The file is a sequence of chunks, one for each event that was begun. A chunk   *)
(* is partial when the event is cut, bare when only its newline is missing. A     *)
(* line ends at a newline: after a partial or bare chunk the line goes on.        *)
VARIABLES file,       \* what follows the creation event
          synced,     \* how much of it a loss of power leaves alone
          projection, \* the version that run.json shows
          cache,      \* the parsed-log cache: the chunks it read, and whether they verified
          lock,       \* the Run's append lock
          job,        \* what each thread is doing
          answer,     \* what came back from each append
          reads, faults

vars == <<file, synced, projection, cache, lock, job, answer, reads, faults>>

\* In head a writer's log object keeps the file it loaded; only its end is used.
Free == [at |-> "idle", call |-> None, asked |-> AnyVersion, version |-> 0, floor |-> 0,
         head |-> <<>>]
At(w, place) == job[w].at = place
Go(w, place) == job' = [job EXCEPT ![w].at = place]
Version(f) == Len(f) + 1
Hash(f, i) == IF i = 0 THEN None ELSE f[i].call

Init == /\ file = <<>> /\ synced = 0 /\ projection = 1
        /\ cache = [lines |-> <<>>, verified |-> FALSE]
        /\ lock = None /\ job = [w \in Thread |-> Free]
        /\ answer = [c \in Call |-> "none"]
        /\ reads = 0 /\ faults = 0

----------------------------------------------------------------------------
(* Reading. *)

\* _parse_events: every line holds one event, the last may lack its newline.
Parses(f) ==
    \A i \in DOMAIN f : f[i].shape # "partial" /\ (f[i].shape = "bare" => i = Len(f))

\* _verify_chain: each event after the first n has its position and predecessor.
Chained(f, n) == \A i \in n + 1..Len(f) : f[i].seq = i /\ f[i].prev = Hash(f, i - 1)

\* Seeded bug: the cached bytes need not end on a newline.
ExtendsAnyBytes(f, kept) == kept # <<>> /\ Len(kept) < Len(f) /\ SubSeq(f, 1, Len(kept)) = kept

\* _extend_parsed_log: the file is what the cache read, whole lines, and more.
Extends(f, kept) ==
    /\ kept # <<>> /\ Len(kept) < Len(f) /\ kept[Len(kept)].shape = "whole"
    /\ SubSeq(f, 1, Len(kept)) = kept

\* _ParsedLogCache: what loading and verifying a file says, given what is cached.
Loads(f, c) == \/ c.lines = f
               \/ Extends(f, c.lines) /\ Parses(SubSeq(f, Len(c.lines) + 1, Len(f)))
               \/ ~Extends(f, c.lines) /\ Parses(f)
Known(f, c) == c.verified /\ (c.lines = f \/ Extends(f, c.lines))
Verifies(f, c) == Chained(f, IF Known(f, c) THEN Len(c.lines) ELSE 0)

\* What a load leaves in the cache, where an older entry may survive or return.
Caches(f, verified) == cache' \in {cache, [lines |-> f, verified |-> verified]}
LoadVerified == Loads(file, cache) /\ Verifies(file, cache)

\* LocalRunStore.get and version, and events, outside the lock.
Told == {c \in Call : answer[c] = "ok"}
Safe == {i \in DOMAIN file : file[i].call \in Told}
Read(w) ==
    /\ At(w, "idle") /\ reads < MaxReads
    /\ reads' = reads + 1
    /\ job' = [job EXCEPT ![w].at = "open", ![w].floor = Cardinality(Safe) + 1]
    /\ UNCHANGED <<file, synced, projection, cache, lock, answer, faults>>
Done(w) == job' = [job EXCEPT ![w] = Free]

Open(w) ==
    /\ At(w, "open")
    /\ IF LoadVerified THEN Caches(file, TRUE) /\ Go(w, "derive")
       ELSE UNCHANGED cache /\ Done(w)
    /\ UNCHANGED <<file, synced, projection, lock, answer, reads, faults>>

\* Seeded bug: the events come from the cache, whatever it is of.
DeriveFromCache(w) ==
    /\ At(w, "derive")
    /\ job' = [job EXCEPT ![w].at = "look", ![w].version = Version(cache.lines)]
    /\ UNCHANGED <<file, synced, projection, cache, lock, answer, reads, faults>>

\* The events are read once more and this time only parsed.
Derive(w) ==
    /\ At(w, "derive")
    /\ IF Loads(file, cache)
       THEN /\ Caches(file, Known(file, cache) /\ Verifies(file, cache))
            /\ job' = [job EXCEPT ![w].at = "look", ![w].version = Version(file)]
       ELSE UNCHANGED cache /\ Done(w)
    /\ UNCHANGED <<file, synced, projection, lock, answer, reads, faults>>

\* events() wants no more; get() and version() put another projection right.
Look(w) ==
    /\ At(w, "look")
    /\ Done(w) \/ (projection # job[w].version /\ Go(w, "replace"))
    /\ UNCHANGED <<file, synced, projection, cache, lock, answer, reads, faults>>

(* Appending, under the lock. *)

Begin(w, c) ==
    /\ At(w, "idle") /\ answer[c] = "none" /\ \A v \in Thread : job[v].call # c
    /\ \E asked \in 1..Version(file) \cup {AnyVersion} :
           job' = [job EXCEPT ![w].at = "lock", ![w].call = c, ![w].asked = asked]
    /\ UNCHANGED <<file, synced, projection, cache, lock, answer, reads, faults>>

\* Seeded bug: each thread has a lock of its own.
LockAlone(w) == At(w, "lock") /\ lock' = w /\ Go(w, "check")
                /\ UNCHANGED <<file, synced, projection, cache, answer, reads, faults>>

Lock(w) == /\ At(w, "lock") /\ lock = None
           /\ lock' = w /\ Go(w, "check")
           /\ UNCHANGED <<file, synced, projection, cache, answer, reads, faults>>

Return(w, what) ==
    /\ answer' = IF job[w].call = None THEN answer ELSE [answer EXCEPT ![job[w].call] = what]
    /\ lock' = IF lock = w THEN None ELSE lock
    /\ Done(w)

\* Seeded bug: the version was compared before the lock was there.
CheckOnlyOpens(w) ==
    /\ At(w, "check")
    /\ IF LoadVerified THEN Caches(file, TRUE) /\ Go(w, "resume") /\ UNCHANGED <<answer, lock>>
       ELSE UNCHANGED cache /\ Return(w, "refused")
    /\ UNCHANGED <<file, synced, projection, reads, faults>>

\* The history is loaded and its version compared; the log object of this load is dropped.
Check(w) ==
    /\ At(w, "check")
    /\ IF LoadVerified THEN Caches(file, TRUE) ELSE UNCHANGED cache
    /\ IF LoadVerified /\ job[w].asked \in {AnyVersion, Version(file)}
       THEN Go(w, "resume") /\ UNCHANGED <<answer, lock>>
       ELSE Return(w, "refused")
    /\ UNCHANGED <<file, synced, projection, reads, faults>>

\* The log is loaded into the object that will append, which keeps the head it read.
Remember(w, place) ==
    IF LoadVerified
    THEN /\ Caches(file, TRUE)
         /\ job' = [job EXCEPT ![w].at = place, ![w].head = file]
         /\ UNCHANGED <<answer, lock>>
    ELSE UNCHANGED cache /\ Return(w, "refused")
OpenLog(w) == /\ At(w, "resume") /\ Remember(w, "tail")
              /\ UNCHANGED <<file, synced, projection, reads, faults>>

\* _tail_unchanged: the file has the length and the last line of the remembered head; if
\* not, it is loaded again. Between this and the write only the lock protects it.
EndOf(f) == <<Len(f), IF f = <<>> THEN None ELSE f[Len(f)]>>
CheckTail(w) ==
    /\ At(w, "tail")
    /\ IF EndOf(file) = EndOf(job[w].head)
       THEN Go(w, "write") /\ UNCHANGED <<cache, answer, lock>>
       ELSE Remember(w, "write")
    /\ UNCHANGED <<file, synced, projection, reads, faults>>

\* The bytes reach the file, some of them first. Position and predecessor are those of
\* the remembered head, wherever the file ends by now.
NextChunk(w) ==
    LET head == job[w].head
    IN  [call |-> job[w].call, asked |-> job[w].asked, seq |-> Len(head) + 1,
         prev |-> Hash(head, Len(head))]
Shaped(chunk, shape) == [call |-> chunk.call, asked |-> chunk.asked, seq |-> chunk.seq,
                         prev |-> chunk.prev, shape |-> shape]
Shape == {"partial", "bare", "whole"}
BeginLine(w) ==
    /\ At(w, "write")
    /\ job' = [job EXCEPT ![w].at = "sync", ![w].head = <<>>]
    /\ \E shape \in Shape : file' = Append(file, Shaped(NextChunk(w), shape))
    /\ UNCHANGED <<synced, projection, cache, answer, reads, faults>>

\* Seeded bug: the lock is let go when the bytes are handed over.
WriteThenUnlock(w) == BeginLine(w) /\ lock' = None

Write(w) == BeginLine(w) /\ UNCHANGED lock

Sync(w) ==
    /\ At(w, "sync") /\ Go(w, "project")
    /\ file' = [file EXCEPT ![Len(file)].shape = "whole"]
    /\ synced' = Len(file)
    /\ UNCHANGED <<projection, cache, lock, answer, reads, faults>>

Project(w) ==
    /\ At(w, "project")
    /\ IF Loads(file, cache)
       THEN /\ Caches(file, Known(file, cache) /\ Verifies(file, cache))
            /\ job' = [job EXCEPT ![w].at = "replace", ![w].version = Version(file)]
            /\ UNCHANGED <<answer, lock>>
       ELSE UNCHANGED cache /\ Return(w, "raised")
    /\ UNCHANGED <<file, synced, projection, reads, faults>>

\* _write_projection, by a writer and by any reader: replace run.json and read it back.
Replace(w) ==
    /\ At(w, "replace") /\ Go(w, "compare")
    /\ projection' = job[w].version
    /\ UNCHANGED <<file, synced, cache, lock, answer, reads, faults>>
Compare(w) ==
    /\ At(w, "compare")
    /\ Return(w, IF projection = job[w].version THEN "ok" ELSE "raised")
    /\ UNCHANGED <<file, synced, projection, cache, reads, faults>>

(* Faults. *)

\* A file operation raises; of a line that was begun nothing, some or all is there.
Fail(w) ==
    /\ job[w].at \in {"check", "resume", "tail", "write", "sync", "project", "replace",
                     "compare"}
    /\ faults < MaxFaults
    /\ faults' = faults + 1
    /\ Return(w, "failed")
    /\ UNCHANGED <<file, synced, projection, cache, reads>>

\* The process ends, perhaps with the power: then what was not synced may be gone.
Cut == {SubSeq(file, 1, n) : n \in synced..Len(file)}
          \cup {[file EXCEPT ![n].shape = "partial"] : n \in {Len(file)} \ (0..synced)}
Stop ==
    /\ faults < MaxFaults /\ faults' = faults + 1
    /\ file' \in Cut
    /\ cache' = [lines |-> <<>>, verified |-> FALSE]
    /\ lock' = None /\ job' = [w \in Thread |-> Free]
    /\ answer' = [c \in Call |-> IF \E w \in Thread : job[w].call = c THEN "failed" ELSE answer[c]]
    /\ UNCHANGED <<synced, projection, reads>>

Next ==
    \/ \E w \in Thread :
          \/ Read(w) \/ Open(w) \/ Derive(w) \/ Look(w)
          \/ (\E c \in Call : Begin(w, c))
          \/ Lock(w) \/ Check(w) \/ OpenLog(w) \/ CheckTail(w) \/ Write(w) \/ Sync(w)
          \/ Project(w) \/ Replace(w) \/ Compare(w) \/ Fail(w)
    \/ Stop

Spec == Init /\ [][Next]_vars

----------------------------------------------------------------------------
(* Properties. *)

\* The event that is being written, and the file without it while it is partial.
InProgress == \E w \in Thread : At(w, "sync")
Settled == IF file # <<>> /\ InProgress /\ file[Len(file)].shape = "partial"
           THEN SubSeq(file, 1, Len(file) - 1) ELSE file

\* No schedule of threads, cut write, death or loss of power forks the chain, although a
\* writer links its event to a head it read earlier (LocalRunStore: "threads appending at
\* once cannot corrupt its chain").
ChainNeverForks == Chained(file, 0)

\* Only a write that was cut, by a failure or a death, makes the log unreadable.
OnlyCutsBreak == Parses(Settled) \/ faults > 0

\* The cache never answers otherwise than reading the file would.
CacheIsTransparent ==
    /\ Loads(file, cache) = Parses(file)
    /\ Parses(file) => Verifies(file, cache) = Chained(file, 0)

\* A read that began after an append was acknowledged sees its event.
ReadsSeeWhatWasTold ==
    \A w \in Thread : job[w].at \in {"look", "replace", "compare"} => job[w].version >= job[w].floor

\* The files keep the promises of a versioned log: every step appends one event at the
\* version its caller asked for, acknowledges it, damages the log for good, or nothing.
Whole == {n \in 0..Len(Settled) : \A i \in 1..n :
              /\ Settled[i].shape # "partial"
              /\ i < n => Settled[i].shape = "whole"}
Readable == CHOOSE n \in Whole : \A k \in Whole : k <= n
Versioned == INSTANCE VersionedLog WITH
    Fact    <- Call,
    history <- [i \in 1..Readable |-> [fact |-> file[i].call, asked |-> file[i].asked]],
    told    <- Told,
    sound   <- Parses(Settled)
KeepsItsPromises == Versioned!Spec
=============================================================================
