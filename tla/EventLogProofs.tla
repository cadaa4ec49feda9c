--------------------------- MODULE EventLogProofs ---------------------------
(***************************************************************************)
(* Proofs about EventLog, for any threads and calls: the chain never      *)
(* forks, only cut writes make a log unreadable, the cache says what the  *)
(* file says, reads are not older than what their caller was told, and    *)
(* the files keep the promises of VersionedLog.                           *)
(***************************************************************************)
EXTENDS EventLog, TLAPS, FiniteSetTheorems, SequenceTheorems

----------------------------------------------------------------------------
(* The inductive invariant. *)

Place == {"idle", "open", "derive", "look", "lock", "check", "resume", "tail", "write", "sync",
          "project", "replace", "compare"}
Asked == Nat \cup {AnyVersion}
Chunk == [call : Call, asked : Asked, seq : Nat, prev : Call \cup {None}, shape : Shape]
Job == [at : Place, call : Call \cup {None}, asked : Asked, version : Nat, floor : Nat,
        head : Seq(Chunk)]

Types ==
    /\ file \in Seq(Chunk) /\ synced \in 0..Len(file) /\ projection \in Nat
    /\ cache \in [lines : Seq(Chunk), verified : BOOLEAN]
    /\ lock \in Thread \cup {None} /\ job \in [Thread -> Job]
    /\ answer \in [Call -> {"none", "ok", "refused", "raised", "failed"}]
    /\ reads \in Nat /\ faults \in Nat

\* Only the last two lines of a file can be out of order: the last is cut, or the one
\* before it lacks the newline that should part them.
Shapes(f) ==
    \A i \in 1..Len(f) : /\ i + 1 < Len(f) => f[i].shape = "whole"
                         /\ i + 1 = Len(f) => f[i].shape # "partial"

\* Each event of the file extends the one before it, at the version its caller asked for.
Links(f) ==
    \A i \in 1..Len(f) :
        /\ f[i].seq = i /\ f[i].prev = Hash(f, i - 1) /\ f[i].asked \in {AnyVersion, i}
        /\ \A k \in 1..Len(f) : f[k].call = f[i].call => k = i

Written(c) == \E i \in 1..Len(file) : file[i].call = c
Last == Len(file)

\* A call is in the file when it was answered or is being answered, and whoever was told
\* of an event was told of one that a loss of power leaves alone.
CallsInv ==
    \A i \in 1..Len(file) :
        /\ file[i].call \in Told => i <= synced
        /\ answer[file[i].call] = "none" =>
              \E w \in Thread : /\ job[w].call = file[i].call
                                /\ job[w].at \in {"sync", "project", "replace", "compare"}

\* What a thread may rely on at its place.
Locked(j) == \/ j.at \in {"check", "resume", "tail", "write", "sync", "project"}
             \/ j.at \in {"replace", "compare"} /\ j.call # None
JobInv(w) ==
    LET j == job[w]
    IN  /\ j.at \in {"idle", "open", "derive", "look"} => j.call = None
        /\ j.at \in {"lock", "check", "resume", "tail", "write", "sync", "project"} => j.call # None
        /\ lock = w <=> Locked(j)
        /\ j.call # None => answer[j.call] = "none" /\ \A v \in Thread \ {w} : job[v].call # j.call
        /\ j.at \in {"lock", "check", "resume", "tail", "write"} => ~Written(j.call)
        /\ j.at \in {"resume", "tail", "write"} =>
              Parses(file) /\ j.asked \in {AnyVersion, Version(file)}
        /\ j.at \in {"tail", "write"} => j.head = file
        /\ j.at = "sync" => Last > 0 /\ file[Last].call = j.call
        /\ j.at \in {"project", "replace", "compare"} /\ j.call # None =>
              /\ Last > 0 /\ file[Last].call = j.call /\ synced = Last
        /\ j.at \in {"replace", "compare"} /\ j.call # None => Parses(file)
        /\ j.floor <= Version(file)
        /\ j.at \in {"look", "replace", "compare"} => j.version >= j.floor

\* Without a fault only the line that is being written is not whole.
FaultsInv ==
    faults = 0 => \A i \in 1..Len(file) : file[i].shape = "whole" \/ (i = Last /\ InProgress)

\* The cache is of the file as it was when its last line was perhaps not ended yet.
Same(a, b) == a.call = b.call /\ a.asked = b.asked /\ a.seq = b.seq /\ a.prev = b.prev
CacheInv ==
    /\ Parses(cache.lines) /\ Len(cache.lines) <= Len(file)
    /\ \A i \in 1..Len(cache.lines) :
          \/ cache.lines[i] = file[i]
          \/ /\ i = Len(cache.lines) /\ cache.lines[i].shape # "whole"
             /\ Same(cache.lines[i], file[i])

LogInv == Shapes(file) /\ Links(file) /\ CallsInv /\ FaultsInv /\ CacheInv
IInv == Types /\ LogInv /\ \A w \in Thread : JobInv(w)

----------------------------------------------------------------------------
(* Types. *)

\* The file and the cached lines are sequences of lines.
LEMMA Lines ==
  ASSUME Types
  PROVE  /\ Len(file) \in Nat /\ DOMAIN file = 1..Len(file)
         /\ \A i \in 1..Len(file) :
               /\ file[i] \in Chunk /\ file[i].call \in Call /\ file[i].asked \in Asked
               /\ file[i].shape \in Shape
         /\ Len(cache.lines) \in Nat /\ DOMAIN cache.lines = 1..Len(cache.lines)
         /\ \A i \in 1..Len(cache.lines) :
               cache.lines[i] \in Chunk /\ cache.lines[i].shape \in Shape
<1>1. file \in Seq(Chunk) /\ cache.lines \in Seq(Chunk)
  BY DEF Types
<1>2. \A c \in Chunk : c.call \in Call /\ c.asked \in Asked /\ c.shape \in Shape
  BY DEF Chunk
<1> QED
  BY <1>1, <1>2, LenProperties, ElementOfSeq

\* What a thread's move changes of its job.
LEMMA Moves ==
  ASSUME Types, NEW w \in Thread, NEW place \in Place, Go(w, place)
  PROVE  /\ job' \in [Thread -> Job]
         /\ job'[w] = [job[w] EXCEPT !.at = place]
         /\ job'[w].at = place /\ job'[w].call = job[w].call /\ job'[w].asked = job[w].asked
         /\ job'[w].version = job[w].version /\ job'[w].floor = job[w].floor
         /\ job'[w].head = job[w].head
         /\ \A v \in Thread \ {w} : job'[v] = job[v]
  BY DEF Types, Go, Job

LEMMA Keeps ==
  ASSUME Types, NEW w \in Thread, NEW place \in Place, NEW head \in Seq(Chunk),
         job' = [job EXCEPT ![w].at = place, ![w].head = head]
  PROVE  /\ job' \in [Thread -> Job]
         /\ job'[w].at = place /\ job'[w].call = job[w].call /\ job'[w].asked = job[w].asked
         /\ job'[w].version = job[w].version /\ job'[w].floor = job[w].floor
         /\ job'[w].head = head
         /\ \A v \in Thread \ {w} : job'[v] = job[v]
<1>1. PICK j \in Job : j = job[w]
  BY DEF Types
<1>2. [j EXCEPT !.at = place, !.head = head] \in Job
  BY DEF Job
<1>3. /\ job' \in [Thread -> Job] /\ job'[w] = [j EXCEPT !.at = place, !.head = head]
      /\ \A v \in Thread \ {w} : job'[v] = job[v]
  BY <1>1, <1>2 DEF Types
<1> QED
  BY <1>1, <1>3 DEF Job

\* Jobs with two or three fields changed.
LEMMA JobFields ==
  ASSUME NEW j \in Job, NEW place \in Place, NEW n \in Nat
  PROVE  /\ [j EXCEPT !.at = place, !.version = n] \in Job
         /\ [j EXCEPT !.at = place, !.floor = n] \in Job
<1>1. [j EXCEPT !.at = place, !.version = n] \in Job
  BY DEF Job
<1>2. [j EXCEPT !.at = place, !.floor = n] \in Job
  BY DEF Job
<1> QED
  BY <1>1, <1>2

LEMMA CallFields ==
  ASSUME NEW j \in Job, NEW place \in Place, NEW c \in Call, NEW asked \in Asked
  PROVE  [j EXCEPT !.at = place, !.call = c, !.asked = asked] \in Job
  BY DEF Job

LEMMA Looks ==
  ASSUME Types, NEW w \in Thread, NEW place \in Place,
         job' = [job EXCEPT ![w].at = place, ![w].version = Version(file)]
  PROVE  /\ job' \in [Thread -> Job]
         /\ job'[w].at = place /\ job'[w].call = job[w].call /\ job'[w].asked = job[w].asked
         /\ job'[w].version = Version(file) /\ job'[w].floor = job[w].floor
         /\ \A v \in Thread \ {w} : job'[v] = job[v]
<1>1. Version(file) \in Nat
  BY Lines DEF Version
<1>2. [job[w] EXCEPT !.at = place, !.version = Version(file)] \in Job
  BY <1>1, JobFields DEF Types
<1> QED
  BY <1>2 DEF Types, Job

LEMMA Ends ==
  ASSUME Types, NEW w \in Thread, Done(w)
  PROVE  /\ job' \in [Thread -> Job]
         /\ job'[w] = Free
         /\ job'[w].at = "idle" /\ job'[w].call = None
         /\ job'[w].version = 0 /\ job'[w].floor = 0
         /\ \A v \in Thread \ {w} : job'[v] = job[v]
  BY DEF Types, Done, Job, Free, Place, Asked

LEMMA Returns ==
  ASSUME Types, NEW w \in Thread, NEW what \in {"ok", "refused", "raised", "failed"},
         Return(w, what)
  PROVE  /\ Done(w) /\ lock' \in Thread \cup {None} /\ lock' # w
         /\ \A v \in Thread \ {w} : lock' = v <=> lock = v
         /\ answer' \in [Call -> {"none", "ok", "refused", "raised", "failed"}]
         /\ job[w].call # None => answer'[job[w].call] = what
         /\ \A c \in Call : c # job[w].call => answer'[c] = answer[c]
  BY EventLogAssumption DEF Types, Return, Job

\* What the next line holds.
LEMMA Begun ==
  ASSUME Types, NEW w \in Thread, job[w].call # None, job[w].head = file, NEW shape \in Shape
  PROVE  /\ Shaped(NextChunk(w), shape) \in Chunk
         /\ Shaped(NextChunk(w), shape).call = job[w].call
         /\ Shaped(NextChunk(w), shape).asked = job[w].asked
         /\ Shaped(NextChunk(w), shape).seq = Len(file) + 1
         /\ Shaped(NextChunk(w), shape).prev = Hash(file, Len(file))
         /\ Shaped(NextChunk(w), shape).shape = shape
<1>1. Hash(file, Len(file)) \in Call \cup {None}
  BY Lines DEF Hash
<1>2. Len(file) + 1 \in Nat
  BY Lines
<1>3. job[w].call \in Call /\ job[w].asked \in Asked
  BY DEF Types, Job
<1> QED
  BY <1>1, <1>2, <1>3 DEF Chunk, NextChunk, Shaped

\* What was told of is in the file.
LEMMA SafeBound == Types => Cardinality(Safe) \in Nat /\ Cardinality(Safe) <= Len(file)
<1> SUFFICES ASSUME Types PROVE Cardinality(Safe) \in Nat /\ Cardinality(Safe) <= Len(file)
  OBVIOUS
<1>1. Len(file) \in Nat /\ Safe \in SUBSET (1..Len(file))
  BY Lines DEF Safe
<1>2. IsFiniteSet(1..Len(file)) /\ Cardinality(1..Len(file)) = Len(file)
  BY <1>1, FS_Interval
<1>3. IsFiniteSet(Safe) /\ Cardinality(Safe) <= Len(file)
  BY <1>1, <1>2, FS_Subset
<1>4. Cardinality(Safe) \in Nat
  BY <1>3, FS_CardinalityType
<1> QED
  BY <1>3, <1>4

LEMMA TypeInit == Init => Types
<1> SUFFICES ASSUME Init PROVE Types
  OBVIOUS
<1>1. <<>> \in Seq(Chunk) /\ Len(<<>>) = 0
  OBVIOUS
<1>2. job \in [Thread -> Job]
  BY DEF Init, Free, Job, Place, Asked
<1> QED
  BY <1>1, <1>2 DEF Init, Types

LEMMA TypeStep == Types /\ LogInv /\ (\A w \in Thread : JobInv(w)) /\ [Next]_vars => Types'
<1> SUFFICES ASSUME Types, LogInv, \A w \in Thread : JobInv(w), [Next]_vars PROVE Types'
  OBVIOUS
<1> USE EventLogAssumption
<1>0. Place = {"idle", "open", "derive", "look", "lock", "check", "resume", "tail", "write", "sync",
               "project", "replace", "compare"}
  BY DEF Place
<1>c. ASSUME NEW verified, verified \in BOOLEAN, Caches(file, verified)
      PROVE  cache' \in [lines : Seq(Chunk), verified : BOOLEAN]
  BY <1>c DEF Types, Caches
<1>1. ASSUME NEW w \in Thread, Read(w) PROVE Types'
  <2>1. Cardinality(Safe) + 1 \in Nat
    BY SafeBound
  <2>2. job' \in [Thread -> Job]
    <3>1. [job[w] EXCEPT !.at = "open", !.floor = Cardinality(Safe) + 1] \in Job
      <4>1. "open" \in Place /\ Cardinality(Safe) + 1 \in Nat /\ job[w] \in Job
        BY <2>1 DEF Types, Place
      <4> QED
        BY <4>1, JobFields
    <3> QED
      BY <1>1, <3>1 DEF Read, Types
  <2> QED
    BY <1>1, <2>2 DEF Read, Types
<1>2. ASSUME NEW w \in Thread, Open(w) PROVE Types'
  <2>1. job' \in [Thread -> Job]
    BY <1>0, <1>2, Moves, Ends DEF Open
  <2>2. cache' \in [lines : Seq(Chunk), verified : BOOLEAN]
    BY <1>2, <1>c DEF Open, Types
  <2> QED
    BY <1>2, <2>1, <2>2 DEF Open, Types
<1>3. ASSUME NEW w \in Thread, Derive(w) PROVE Types'
  <2>0. (Known(file, cache) /\ Verifies(file, cache)) \in BOOLEAN
    OBVIOUS
  <2>1. job' \in [Thread -> Job]
    <3>1. CASE Done(w)
      BY <3>1, Ends
    <3>2. CASE job' = [job EXCEPT ![w].at = "look", ![w].version = Version(file)]
      BY <1>0, <3>2, Looks
    <3> QED
      BY <1>3, <3>1, <3>2 DEF Derive
  <2>2. cache' \in [lines : Seq(Chunk), verified : BOOLEAN]
    BY <1>3, <1>c, <2>0 DEF Derive, Types
  <2> QED
    BY <1>3, <2>1, <2>2 DEF Derive, Types
<1>4. ASSUME NEW w \in Thread, Look(w) PROVE Types'
  <2>1. job' \in [Thread -> Job]
    BY <1>0, <1>4, Moves, Ends DEF Look
  <2> QED
    BY <1>4, <2>1 DEF Look, Types
<1>5. ASSUME NEW w \in Thread, NEW c \in Call, Begin(w, c) PROVE Types'
  <2>1. PICK asked \in 1..Version(file) \cup {AnyVersion} :
           job' = [job EXCEPT ![w].at = "lock", ![w].call = c, ![w].asked = asked]
    BY <1>5 DEF Begin
  <2>2. asked \in Asked
    BY Lines DEF Asked, Version
  <2>3. [job[w] EXCEPT !.at = "lock", !.call = c, !.asked = asked] \in Job
    <3>1. "lock" \in Place /\ job[w] \in Job
      BY DEF Types, Place
    <3> QED
      BY <2>2, <3>1, CallFields
  <2>4. job' \in [Thread -> Job]
    BY <2>1, <2>3 DEF Types
  <2> QED
    BY <1>5, <2>4 DEF Begin, Types
<1>6. ASSUME NEW w \in Thread, Lock(w) PROVE Types'
  BY <1>0, <1>6, Moves DEF Lock, Types
<1>7. ASSUME NEW w \in Thread, Check(w) PROVE Types'
  <2>1. cache' \in [lines : Seq(Chunk), verified : BOOLEAN]
    BY <1>7, <1>c DEF Check, Types
  <2>2. CASE Go(w, "resume") /\ UNCHANGED <<answer, lock>>
    BY <1>0, <1>7, <2>1, <2>2, Moves DEF Check, Types
  <2>3. CASE Return(w, "refused")
    BY <1>7, <2>1, <2>3, Returns, Ends DEF Check, Types
  <2> QED
    BY <1>7, <2>2, <2>3 DEF Check
<1>r. ASSUME NEW w \in Thread, NEW place \in Place, Remember(w, place),
             UNCHANGED <<file, synced, projection, reads, faults>>
      PROVE  Types'
  <2>1. cache' \in [lines : Seq(Chunk), verified : BOOLEAN]
    BY <1>r, <1>c DEF Remember, Types
  <2>2. CASE job' = [job EXCEPT ![w].at = place, ![w].head = file] /\ UNCHANGED <<answer, lock>>
    <3>1. job' \in [Thread -> Job]
      BY <2>2, Keeps DEF Types
    <3> QED
      BY <1>r, <2>1, <2>2, <3>1 DEF Types
  <2>3. CASE Return(w, "refused")
    BY <1>r, <2>1, <2>3, Returns, Ends DEF Types
  <2> QED
    BY <1>r, <2>2, <2>3 DEF Remember
<1>o. ASSUME NEW w \in Thread, OpenLog(w) PROVE Types'
  BY <1>0, <1>o, <1>r DEF OpenLog
<1>t. ASSUME NEW w \in Thread, CheckTail(w) PROVE Types'
  <2>1. CASE Remember(w, "write")
    BY <1>0, <1>t, <1>r, <2>1 DEF CheckTail
  <2>2. CASE Go(w, "write") /\ UNCHANGED <<cache, answer, lock>>
    BY <1>0, <1>t, <2>2, Moves DEF CheckTail, Types
  <2> QED
    BY <1>t, <2>1, <2>2 DEF CheckTail
<1>8. ASSUME NEW w \in Thread, Write(w) PROVE Types'
  <2>1. PICK shape \in Shape : file' = Append(file, Shaped(NextChunk(w), shape))
    BY <1>8 DEF Write, BeginLine
  <2>2. job[w].call # None /\ job[w].head = file
    BY <1>8 DEF Write, BeginLine, JobInv, At
  <2>3. file' \in Seq(Chunk) /\ Len(file') = Len(file) + 1
    BY <2>1, <2>2, Begun DEF Types
  <2> QED
    <3>1. synced \in 0..Len(file')
      BY <2>3, Lines DEF Types
    <3>2. job' \in [Thread -> Job]
      <4>1. <<>> \in Seq(Chunk)
        OBVIOUS
      <4> QED
        BY <1>0, <1>8, <4>1, Keeps DEF Write, BeginLine
    <3> QED
      BY <1>8, <2>3, <3>1, <3>2 DEF Write, BeginLine, Types
<1>9. ASSUME NEW w \in Thread, Sync(w) PROVE Types'
  <2>1. Len(file) \in 1..Len(file)
    BY <1>9, Lines DEF Sync, JobInv, At, Last
  <2>2. file[Len(file)] \in Chunk /\ [file[Len(file)] EXCEPT !.shape = "whole"] \in Chunk
    BY <2>1, Lines DEF Chunk, Shape
  <2>3. file' \in Seq(Chunk) /\ Len(file') = Len(file)
    BY <1>9, <2>1, <2>2, ExceptSeq DEF Types, Sync
  <2> QED
    <3>1. synced' \in 0..Len(file')
      BY <1>9, <2>3, Lines DEF Sync
    <3> QED
      BY <1>0, <1>9, <2>3, <3>1, Moves DEF Sync, Types
<1>10. ASSUME NEW w \in Thread, Project(w) PROVE Types'
  <2>0. (Known(file, cache) /\ Verifies(file, cache)) \in BOOLEAN
    OBVIOUS
  <2>1. cache' \in [lines : Seq(Chunk), verified : BOOLEAN]
    BY <1>10, <1>c, <2>0 DEF Project, Types
  <2>2. CASE /\ job' = [job EXCEPT ![w].at = "replace", ![w].version = Version(file)]
             /\ UNCHANGED <<answer, lock>>
    <3>1. job' \in [Thread -> Job]
      BY <1>0, <2>2, Looks
    <3> QED
      BY <1>10, <2>1, <2>2, <3>1 DEF Project, Types
  <2>3. CASE Return(w, "raised")
    BY <1>10, <2>1, <2>3, Returns, Ends DEF Project, Types
  <2> QED
    BY <1>10, <2>2, <2>3 DEF Project
<1>11. ASSUME NEW w \in Thread, Replace(w) PROVE Types'
  <2>1. job' \in [Thread -> Job]
    BY <1>0, <1>11, Moves DEF Replace
  <2>2. job[w].version \in Nat
    BY DEF Types, Job
  <2> QED
    BY <1>11, <2>1, <2>2 DEF Replace, Types
<1>12. ASSUME NEW w \in Thread, Compare(w) PROVE Types'
  <2>1. Return(w, "ok") \/ Return(w, "raised")
    BY <1>12 DEF Compare
  <2> QED
    BY <1>12, <2>1, Returns, Ends DEF Compare, Types
<1>13. ASSUME NEW w \in Thread, Fail(w) PROVE Types'
  <2>1. faults' \in Nat
    BY <1>13 DEF Fail, Types
  <2> QED
    BY <1>13, <2>1, Returns, Ends DEF Fail, Types
<1>14. CASE Stop
  <2>1. file' \in Seq(Chunk) /\ synced \in 0..Len(file')
    <3>1. ASSUME NEW n \in synced..Len(file), file' = SubSeq(file, 1, n)
          PROVE  file' \in Seq(Chunk) /\ synced \in 0..Len(file')
      BY <3>1, SubSeqProperties DEF Types
    <3>2. ASSUME NEW n \in {Len(file)} \ (0..synced), file' = [file EXCEPT ![n].shape = "partial"]
          PROVE  file' \in Seq(Chunk) /\ synced \in 0..Len(file')
      <4>1. n \in 1..Len(file)
        BY DEF Types
      <4>2. [file[n] EXCEPT !.shape = "partial"] \in Chunk
        BY <4>1, Lines DEF Chunk, Shape
      <4> QED
        BY <3>2, <4>1, <4>2, ExceptSeq DEF Types
    <3> QED
      BY <1>14, <3>1, <3>2 DEF Stop, Cut
  <2>2. job' \in [Thread -> Job]
    BY <1>14 DEF Stop, Free, Job, Place, Asked
  <2>3. answer' \in [Call -> {"none", "ok", "refused", "raised", "failed"}]
    BY <1>14 DEF Stop, Types
  <2>4. cache' \in [lines : Seq(Chunk), verified : BOOLEAN]
    BY <1>14 DEF Stop
  <2> QED
    BY <1>14, <2>1, <2>2, <2>3, <2>4 DEF Stop, Types
<1>15. CASE UNCHANGED vars
  BY <1>15 DEF vars, Types
<1> QED
  BY <1>1, <1>2, <1>3, <1>4, <1>5, <1>6, <1>7, <1>o, <1>t, <1>8, <1>9, <1>10, <1>11, <1>12, <1>13, <1>14,
     <1>15 DEF Next

----------------------------------------------------------------------------
(* Loading. *)

\* What reading the whole file says of it.
LEMMA ParsesLines ==
  ASSUME NEW f \in Seq(Chunk)
  PROVE  Parses(f) <=> \A i \in 1..Len(f) : /\ f[i].shape # "partial"
                                            /\ f[i].shape = "bare" => i = Len(f)
  BY LenProperties DEF Parses

\* A file that parses may be of shapes that a file has, and every event is in its chain.
LEMMA Chain ==
  ASSUME Types, LogInv, NEW n \in Nat
  PROVE  Chained(file, n)
<1>1. Len(file) \in Nat /\ \A i \in 1..Len(file) : file[i].seq = i /\ file[i].prev = Hash(file, i - 1)
  BY Lines DEF LogInv, Links
<1> QED
  BY <1>1 DEF Chained

\* _ParsedLogCache is transparent: the file loads when it parses, and then verifies.
LEMMA Loading ==
  ASSUME Types, LogInv
  PROVE  Loads(file, cache) = Parses(file) /\ Verifies(file, cache) = TRUE
<1> DEFINE L == Len(cache.lines)
<1>0. /\ file \in Seq(Chunk) /\ cache.lines \in Seq(Chunk) /\ L \in Nat /\ Len(file) \in Nat
      /\ \A i \in 1..L : cache.lines[i].shape \in Shape
  BY Lines DEF Types
<1>1. Verifies(file, cache)
  BY <1>0, Chain DEF Verifies
<1>2. Parses(cache.lines)
  BY DEF LogInv, CacheInv
<1>3. ASSUME Extends(file, cache.lines)
      PROVE  Parses(file) <=> Parses(SubSeq(file, L + 1, Len(file)))
  <2> DEFINE rest == SubSeq(file, L + 1, Len(file))
  <2>1. L \in Nat /\ L < Len(file) /\ cache.lines[L].shape = "whole" /\ cache.lines # <<>>
        /\ SubSeq(file, 1, L) = cache.lines
    BY <1>0, <1>3 DEF Extends
  <2>2. /\ rest \in Seq(Chunk) /\ Len(rest) = Len(file) - L
        /\ \A i \in 1..Len(rest) : rest[i] = file[L + i]
    <3>1. L + 1 \in Int /\ Len(file) \in Int /\ L + 1 <= Len(file)
          /\ \A i \in L + 1..Len(file) : file[i] \in Chunk
      BY <1>0, <2>1, ElementOfSeq
    <3>2. /\ rest \in Seq(Chunk)
          /\ Len(rest) = IF L + 1 <= Len(file) THEN Len(file) - (L + 1) + 1 ELSE 0
          /\ \A i \in 1..Len(file) - (L + 1) + 1 : rest[i] = file[L + 1 + i - 1]
      <4> HIDE DEF L
      <4> QED
        BY <3>1, SubSeqProperties
    <3> HIDE DEF rest
    <3> QED
      BY <1>0, <2>1, <3>1, <3>2
  <2>3. \A i \in 1..L : file[i] = cache.lines[i]
    BY <1>0, <2>1, SubSeqProperties
  <2>4. \A i \in 1..L : file[i].shape # "partial" /\ file[i].shape # "bare"
    BY <1>0, <1>2, <2>1, <2>3, ParsesLines
  <2> HIDE DEF rest
  <2>5. \A i \in L + 1..Len(file) : i - L \in 1..Len(rest) /\ file[i] = rest[i - L]
    BY <1>0, <2>1, <2>2
  <2>6. ASSUME Parses(rest) PROVE Parses(file)
    <3>0. \A i \in 1..Len(rest) : rest[i].shape # "partial"
                                  /\ (rest[i].shape = "bare" => i = Len(rest))
      BY <2>2, <2>6, ParsesLines
    <3>1. \A i \in L + 1..Len(file) : file[i].shape # "partial"
                                      /\ (file[i].shape = "bare" => i = Len(file))
      <4> SUFFICES ASSUME NEW i \in L + 1..Len(file)
                   PROVE  file[i].shape # "partial" /\ (file[i].shape = "bare" => i = Len(file))
        OBVIOUS
      <4>1. i - L \in 1..Len(rest) /\ file[i] = rest[i - L]
        BY <2>5
      <4> QED
        BY <1>0, <2>1, <2>2, <3>0, <4>1
    <3> QED
      BY <1>0, <2>4, <3>1, ParsesLines
  <2>7. ASSUME Parses(file) PROVE Parses(rest)
    <3>1. \A i \in 1..Len(file) : file[i].shape # "partial"
                                  /\ (file[i].shape = "bare" => i = Len(file))
      BY <1>0, <2>7, ParsesLines
    <3>2. \A i \in 1..Len(rest) : L + i \in 1..Len(file)
      BY <1>0, <2>1, <2>2
    <3>3. \A i \in 1..Len(rest) : rest[i].shape # "partial"
                                  /\ (rest[i].shape = "bare" => i = Len(rest))
      <4> SUFFICES ASSUME NEW i \in 1..Len(rest)
                   PROVE  rest[i].shape # "partial" /\ (rest[i].shape = "bare" => i = Len(rest))
        OBVIOUS
      <4>1. L + i \in 1..Len(file) /\ rest[i] = file[L + i] /\ i \in Nat
        BY <2>2, <3>2
      <4> QED
        BY <1>0, <2>1, <2>2, <3>1, <4>1
    <3> QED
      BY <2>2, <3>3, ParsesLines
  <2> QED
    BY <2>6, <2>7 DEF rest
<1>4. Loads(file, cache) <=> Parses(file)
  BY <1>2, <1>3 DEF Loads
<1> QED
  BY <1>1, <1>4 DEF Loads, Parses, Verifies, Chained

LEMMA LoadsWhatParses ==
  ASSUME Types, LogInv
  PROVE  /\ LoadVerified <=> Parses(file)
         /\ Loads(file, cache) <=> Parses(file)
  BY Loading DEF LoadVerified

\* The first lines of a file.
LEMMA FirstLines ==
  ASSUME NEW f \in Seq(Chunk), NEW n \in 0..Len(f)
  PROVE  /\ SubSeq(f, 1, n) \in Seq(Chunk) /\ Len(SubSeq(f, 1, n)) = n
         /\ \A i \in 1..n : SubSeq(f, 1, n)[i] = f[i]
<1>1. Len(f) \in Nat /\ n \in Nat /\ \A i \in 1..n : f[i] \in Chunk
  BY LenProperties, ElementOfSeq
<1> QED
  BY <1>1, SubSeqProperties

\* The last line is being written and some of its bytes are there.
TornLine == Len(file) > 0 /\ InProgress /\ file[Len(file)].shape = "partial"

\* Without that line the file parses.
LEMMA SettledLines ==
  ASSUME Types, LogInv
  PROVE  /\ Settled \in Seq(Chunk)
         /\ TornLine => /\ Len(Settled) = Len(file) - 1 /\ Parses(Settled)
                        /\ \A i \in 1..Len(file) - 1 : Settled[i] = file[i]
         /\ ~TornLine => Settled = file
<1>1. file \in Seq(Chunk) /\ Len(file) \in Nat /\ (file # <<>> <=> Len(file) > 0)
      /\ \A i \in 1..Len(file) : file[i] \in Chunk /\ file[i].shape \in Shape
  BY Lines, EmptySeq DEF Types
<1>2. CASE ~TornLine
  BY <1>1, <1>2 DEF TornLine, Settled
<1>3. CASE TornLine
  <2>1. Settled = SubSeq(file, 1, Len(file) - 1) /\ Len(file) - 1 \in Nat
    BY <1>1, <1>3 DEF TornLine, Settled
  <2>3. Len(file) - 1 \in 0..Len(file)
    BY <1>1, <2>1
  <2>4. /\ Settled \in Seq(Chunk) /\ Len(Settled) = Len(file) - 1
        /\ \A i \in 1..Len(file) - 1 : Settled[i] = file[i]
    BY <1>1, <2>1, <2>3, FirstLines
  <2>5. \A i \in 1..Len(file) - 1 : /\ i + 1 < Len(file) => file[i].shape = "whole"
                                    /\ i + 1 = Len(file) => file[i].shape # "partial"
    BY <1>1 DEF LogInv, Shapes
  <2>6. Parses(Settled)
    <3>1. \A i \in 1..Len(Settled) : /\ i \in 1..Len(file) - 1 /\ Settled[i] = file[i]
                                     /\ i = Len(Settled) \/ i + 1 < Len(file)
      BY <1>1, <2>4
    <3>2. \A i \in 1..Len(Settled) : /\ Settled[i].shape # "partial"
                                     /\ Settled[i].shape = "bare" => i = Len(Settled)
      BY <1>1, <2>4, <2>5, <3>1
    <3> QED
      BY <2>4, <3>2, ParsesLines
  <2> QED
    BY <1>3, <2>4, <2>6
<1> QED
  BY <1>2, <1>3

----------------------------------------------------------------------------
(* Steps that leave the file alone. *)

\* The other threads at a step of w.
LEMMA OthersKeep ==
  ASSUME IInv, NEW w \in Thread, UNCHANGED <<file, synced>>,
         \A v \in Thread \ {w} : /\ job'[v] = job[v] /\ (lock' = v <=> lock = v)
                                 /\ job[v].call # None => /\ answer'[job[v].call] = "none"
                                                          /\ job'[w].call # job[v].call
  PROVE  \A v \in Thread \ {w} : JobInv(v)'
<1> SUFFICES ASSUME NEW v \in Thread \ {w} PROVE JobInv(v)'
  OBVIOUS
<1>1. JobInv(v)
  BY DEF IInv
<1>2. job[v].call # None => \A u \in Thread \ {v} : job'[u].call # job[v].call
  BY <1>1 DEF JobInv
<1> QED
  BY <1>1, <1>2 DEF JobInv, Locked, Version, Written, Last

\* What loading the file leaves in the cache keeps the cache what it is.
LEMMA CacheKept ==
  ASSUME IInv, UNCHANGED file, NEW verified \in BOOLEAN,
         cache' = cache \/ (Parses(file) /\ Caches(file, verified))
  PROVE  CacheInv'
<1>1. CASE cache' = cache
  BY <1>1 DEF IInv, LogInv, CacheInv, Same
<1>2. CASE Parses(file) /\ cache' = [lines |-> file, verified |-> verified]
  <2>1. cache'.lines = file
    BY <1>2
  <2>2. Len(file) \in Nat
    BY Lines DEF IInv
  <2> QED
    BY <1>2, <2>1, <2>2 DEF CacheInv
<1> QED
  BY <1>1, <1>2 DEF Caches

\* The file's events keep their answers, or someone who will answer.
LEMMA CallsKept ==
  ASSUME IInv, NEW w \in Thread, UNCHANGED <<file, synced>>,
         \A v \in Thread \ {w} : job'[v] = job[v],
         job'[w].call # job[w].call \/ job'[w].at \notin {"sync", "project", "replace", "compare"} =>
            \/ job[w].at \notin {"sync", "project", "replace", "compare"}
            \/ job[w].call # None => answer'[job[w].call] # "none",
         \A c \in Call : \/ answer'[c] = answer[c]
                         \/ /\ answer'[c] # "none"
                            /\ answer'[c] = "ok" => ~Written(c) \/ synced = Last
  PROVE  CallsInv'
<1> SUFFICES ASSUME NEW i \in 1..Len(file)
             PROVE  /\ answer'[file[i].call] = "ok" => i <= synced
                    /\ answer'[file[i].call] = "none" =>
                          \E v \in Thread : /\ job'[v].call = file[i].call
                                            /\ job'[v].at \in {"sync", "project", "replace", "compare"}
  BY DEF CallsInv, Told
<1> DEFINE c == file[i].call
<1>1. c \in Call /\ Len(file) \in Nat /\ Written(c) /\ None \notin Call
  BY Lines, EventLogAssumption DEF IInv, Written
<1>2. /\ answer[c] = "ok" => i <= synced
      /\ answer[c] = "none" => \E v \in Thread : /\ job[v].call = c
                                 /\ job[v].at \in {"sync", "project", "replace", "compare"}
  BY <1>1 DEF IInv, LogInv, CallsInv, Told
<1>3. answer'[c] = "ok" => i <= synced
  BY <1>1, <1>2 DEF Last
<1>4. ASSUME answer'[c] = "none"
      PROVE  \E v \in Thread : /\ job'[v].call = c
                               /\ job'[v].at \in {"sync", "project", "replace", "compare"}
  <2>1. answer[c] = "none"
    BY <1>1, <1>4
  <2>2. PICK v \in Thread : /\ job[v].call = c
                            /\ job[v].at \in {"sync", "project", "replace", "compare"}
    BY <1>2, <2>1
  <2>3. CASE v = w
    BY <1>1, <1>4, <2>2, <2>3
  <2>4. CASE v # w
    BY <2>2, <2>4
  <2> QED
    BY <2>3, <2>4
<1> QED
  BY <1>3, <1>4

LEMMA FaultsKept ==
  ASSUME IInv, UNCHANGED file, faults' # 0 \/ (faults' = faults /\ (InProgress => InProgress'))
  PROVE  FaultsInv'
  BY DEF IInv, LogInv, FaultsInv, Last

LEMMA FileKept ==
  ASSUME IInv, UNCHANGED file
  PROVE  Shapes(file)' /\ Links(file)'
  BY DEF IInv, LogInv, Shapes, Links, Hash

\* A reader's step, and what a writer does before it has the lock.
LEMMA ReaderStep ==
  ASSUME IInv, Types', NEW w \in Thread,
         \/ Read(w) \/ Open(w) \/ Derive(w) \/ Look(w) \/ Lock(w) \/ \E c \in Call : Begin(w, c)
  PROVE  LogInv' /\ \A v \in Thread : JobInv(v)'
<1> USE EventLogAssumption
<1>1. Types /\ LogInv /\ (\A v \in Thread : JobInv(v)) /\ Len(file) \in Nat
  BY Lines DEF IInv
<1>2. /\ job[w].at \in {"idle", "open", "derive", "look", "lock"}
      /\ job[w].floor \in Nat /\ job[w].version \in Nat /\ Version(file) \in Nat
      /\ job[w].call # None => job[w].at = "lock"
  <2>1. job[w] \in Job /\ JobInv(w)
    BY <1>1 DEF Types
  <2>2. job[w].at \in {"idle", "open", "derive", "look", "lock"}
    BY DEF Read, Open, Derive, Look, Lock, Begin, At
  <2> QED
    BY <1>1, <2>1, <2>2 DEF Job, Version, JobInv
<1>3. UNCHANGED <<file, synced, answer, faults>>
  BY DEF Read, Open, Derive, Look, Lock, Begin
<1>4. \A v \in Thread \ {w} : job'[v] = job[v]
  <2>1. CASE Open(w) \/ Look(w) \/ Lock(w)
    <3>1. Go(w, "derive") \/ Go(w, "replace") \/ Go(w, "check") \/ Done(w)
      BY <2>1 DEF Open, Look, Lock
    <3> QED
      BY <1>1, <3>1, Moves, Ends DEF Place
  <2>2. CASE Derive(w)
    <3>1. Done(w) \/ job' = [job EXCEPT ![w].at = "look", ![w].version = Version(file)]
      BY <2>2 DEF Derive
    <3> QED
      BY <1>1, <3>1, Looks, Ends DEF Place
  <2>3. CASE Read(w) \/ \E c \in Call : Begin(w, c)
    BY <1>1, <2>3 DEF Read, Begin, Types
  <2> QED
    BY <2>1, <2>2, <2>3
<1>5. /\ job'[w].at \in {"idle", "open", "derive", "look", "lock", "check", "replace"}
      /\ job'[w].at \in {"idle", "open", "derive", "look", "replace"} => job'[w].call = None
      /\ job'[w].at \in {"lock", "check"} =>
            job'[w].call \in Call /\ ~Written(job'[w].call) /\ answer[job'[w].call] = "none"
      /\ job'[w].floor <= Version(file)
      /\ job'[w].at \in {"look", "replace"} => job'[w].version >= job'[w].floor
      /\ IF job'[w].at = "check" THEN lock = None /\ lock' = w ELSE lock' = lock /\ lock' # w
      /\ \A v \in Thread \ {w} : job[v].call # None => job'[w].call # job[v].call
  <2>0. JobInv(w) /\ lock # w /\ job[w].floor <= Version(file)
        /\ \A v \in Thread \ {w} : job[v].call # None => job[w].call # job[v].call
    BY <1>1, <1>2 DEF JobInv, Locked
  <2>1. CASE Read(w)
    <3>1. job[w] \in Job /\ job[w].call = None
      BY <1>1, <2>0, <2>1 DEF Types, JobInv, Read, At
    <3>2. job'[w].at = "open" /\ job'[w].call = None /\ job'[w].floor = Cardinality(Safe) + 1
      BY <2>1, <3>1 DEF Types, Job, Read
    <3>3. job'[w].floor <= Version(file)
      BY <1>1, <3>2, SafeBound DEF Version
    <3> QED
      BY <2>0, <2>1, <3>2, <3>3 DEF Read
  <2>2. CASE Open(w)
    <3>1. Go(w, "derive") \/ Done(w)
      BY <2>2 DEF Open
    <3>2. /\ job'[w].at \in {"derive", "idle"} /\ job'[w].call = None
          /\ job'[w].floor \in {job[w].floor, 0}
      BY <1>1, <2>0, <2>2, <3>1, Moves, Ends DEF Place, JobInv, Open, At
    <3> QED
      BY <1>2, <2>0, <2>2, <3>2 DEF Open
  <2>3. CASE Derive(w)
    <3>1. Done(w) \/ job' = [job EXCEPT ![w].at = "look", ![w].version = Version(file)]
      BY <2>3 DEF Derive
    <3>2. /\ job'[w].at \in {"look", "idle"} /\ job'[w].call = None
          /\ job'[w].floor \in {job[w].floor, 0}
          /\ job'[w].at = "look" => job'[w].version = Version(file)
      BY <1>1, <2>0, <2>3, <3>1, Looks, Ends DEF Place, JobInv, Derive, At
    <3> QED
      BY <1>2, <2>0, <2>3, <3>2 DEF Derive
  <2>4. CASE Look(w)
    <3>1. Go(w, "replace") \/ Done(w)
      BY <2>4 DEF Look
    <3>2. /\ job'[w].at \in {"replace", "idle"} /\ job'[w].call = None
          /\ job'[w].floor \in {job[w].floor, 0}
          /\ job'[w].at = "replace" => job'[w].version = job[w].version /\ job'[w].floor = job[w].floor
          /\ job[w].version >= job[w].floor
      BY <1>1, <2>0, <2>4, <3>1, Moves, Ends DEF Place, JobInv, Look, At
    <3> QED
      BY <1>2, <2>0, <2>4, <3>2 DEF Look
  <2>5. CASE Lock(w)
    <3>1. /\ job'[w].at = "check" /\ job'[w].call = job[w].call /\ job'[w].floor = job[w].floor
          /\ job[w].call \in Call /\ ~Written(job[w].call) /\ answer[job[w].call] = "none"
      BY <1>1, <2>0, <2>5, Moves DEF Place, JobInv, Lock, At, Types, Job
    <3> QED
      BY <2>0, <2>5, <3>1 DEF Lock
  <2>6. ASSUME NEW c \in Call, Begin(w, c)
        PROVE  /\ job'[w].at = "lock" /\ job'[w].call = c /\ ~Written(c) /\ answer[c] = "none"
               /\ job'[w].floor = job[w].floor /\ lock' = lock /\ lock' # w
               /\ \A v \in Thread \ {w} : job[v].call # None => job'[w].call # job[v].call
    <3>1. PICK asked : job' = [job EXCEPT ![w].at = "lock", ![w].call = c, ![w].asked = asked]
      BY <2>6 DEF Begin
    <3>2. job'[w].at = "lock" /\ job'[w].call = c /\ job'[w].floor = job[w].floor
      BY <1>1, <3>1 DEF Types, Job
    <3>3. answer[c] = "none" /\ \A v \in Thread : job[v].call # c
      BY <2>6 DEF Begin
    <3>4. ~Written(c)
      BY <1>1, <3>3 DEF LogInv, CallsInv, Written
    <3> QED
      BY <2>0, <2>6, <3>2, <3>3, <3>4 DEF Begin
  <2> QED
    BY <1>2, <2>0, <2>1, <2>2, <2>3, <2>4, <2>5, <2>6
<1>6. \A v \in Thread \ {w} : lock' = v <=> lock = v
  BY <1>5
<1>7. \A v \in Thread \ {w} : JobInv(v)'
  BY <1>1, <1>3, <1>4, <1>5, <1>6, OthersKeep DEF JobInv
<1>8. JobInv(w)'
  BY <1>3, <1>4, <1>5 DEF JobInv, Locked, Version, Written
<1>9. CacheInv'
  <2>1. CASE cache' = cache
    BY <1>1, <1>3, <2>1 DEF LogInv, CacheInv, Same
  <2>2. CASE Open(w) \/ Derive(w)
    BY <1>1, <1>3, <2>1, <2>2, LoadsWhatParses, CacheKept DEF Open, Derive
  <2> QED
    BY <2>1, <2>2 DEF Read, Look, Lock, Begin
<1>10. CallsInv'
  BY <1>2, <1>3, <1>4, CallsKept
<1>11. FaultsInv'
  BY <1>2, <1>3, <1>4, FaultsKept DEF InProgress, At
<1> QED
  BY <1>3, <1>7, <1>8, <1>9, <1>10, <1>11, FileKept DEF LogInv

\* An append that comes back, or a reader that does.
LEMMA ReturnStep ==
  ASSUME IInv, NEW w \in Thread, NEW what \in {"ok", "refused", "raised", "failed"},
         Return(w, what), UNCHANGED <<file, synced>>,
         what = "ok" /\ job[w].call # None => synced = Last
  PROVE  CallsInv' /\ \A v \in Thread : JobInv(v)'
<1> USE EventLogAssumption
<1>1. Types /\ (\A v \in Thread : JobInv(v) /\ job[v] \in Job) /\ Len(file) \in Nat
  BY Lines DEF IInv, Types
<1>2. /\ job'[w].at = "idle" /\ job'[w].call = None
      /\ job'[w].version = 0 /\ job'[w].floor = 0
      /\ \A v \in Thread \ {w} : job'[v] = job[v] /\ (lock' = v <=> lock = v)
      /\ lock' # w
      /\ job[w].call # None => answer'[job[w].call] = what
      /\ \A c \in Call : c # job[w].call => answer'[c] = answer[c]
  BY <1>1, Returns, Ends
<1>3. \A v \in Thread \ {w} : job[v].call # None =>
         /\ answer'[job[v].call] = "none" /\ job'[w].call # job[v].call
  BY <1>1, <1>2 DEF JobInv, Job
<1>4. \A v \in Thread \ {w} : JobInv(v)'
  BY <1>2, <1>3, OthersKeep
<1>5. JobInv(w)'
  BY <1>1, <1>2 DEF JobInv, Locked, Version
<1>6. CallsInv'
  BY <1>1, <1>2, CallsKept DEF Job
<1> QED
  BY <1>4, <1>5, <1>6

\* What a writer does to anything but the file, and a reader that replaces the projection.
LEMMA WriterStep ==
  ASSUME IInv, Types', NEW w \in Thread,
         \/ Check(w) \/ OpenLog(w) \/ CheckTail(w) \/ Project(w)
         \/ Replace(w) \/ Compare(w) \/ Fail(w)
  PROVE  LogInv' /\ \A v \in Thread : JobInv(v)'
<1> USE EventLogAssumption
<1>1. Types /\ LogInv /\ (\A v \in Thread : JobInv(v) /\ job[v] \in Job) /\ Len(file) \in Nat
      /\ Version(file) \in Nat
  BY Lines DEF IInv, Types, Version
<1>2. UNCHANGED <<file, synced>> /\ faults \in Nat
  BY <1>1 DEF Check, OpenLog, CheckTail, Project, Replace, Compare, Fail, Types
<1>3. ASSUME NEW place \in {"resume", "tail", "write", "replace", "compare"}, lock' = lock, answer' = answer,
             job'[w].at = place, job'[w].call = job[w].call, job'[w].asked = job[w].asked,
             job'[w].floor = job[w].floor, Locked(job[w]) <=> Locked(job'[w]),
             job'[w].version \in {job[w].version, Version(file)},
             \A v \in Thread \ {w} : job'[v] = job[v],
             place \in {"resume", "tail", "write"} =>
                /\ job[w].at \in {"check", "resume", "tail"} /\ Parses(file)
                /\ job[w].asked \in {AnyVersion, Version(file)},
             place \in {"tail", "write"} => job'[w].head = file,
             place = "replace" => job[w].at = "project" /\ Parses(file)
                                  /\ job'[w].version = Version(file),
             place = "compare" => job[w].at = "replace" /\ job'[w].version = job[w].version
      PROVE  CallsInv' /\ \A v \in Thread : JobInv(v)'
  <2>1. JobInv(w)'
    BY <1>1, <1>2, <1>3 DEF JobInv, Locked, Version, Written, Last
  <2>2. \A v \in Thread \ {w} : JobInv(v)'
    BY <1>1, <1>2, <1>3, OthersKeep DEF JobInv
  <2>3. CallsInv'
    BY <1>1, <1>2, <1>3, CallsKept
  <2> QED
    BY <2>1, <2>2, <2>3
<1>4. CASE \E what \in {"ok", "refused", "raised", "failed"} :
              Return(w, what) /\ (what = "ok" /\ job[w].call # None => synced = Last)
  <2>1. CallsInv' /\ \A v \in Thread : JobInv(v)'
    BY <1>2, <1>4, ReturnStep
  <2>2. cache' = cache \/ (Parses(file) /\ \E verified \in BOOLEAN : Caches(file, verified))
    <3>1. CASE Check(w)
      BY <1>1, <3>1, LoadsWhatParses DEF Check
    <3>2. CASE Project(w)
      <4>1. (Known(file, cache) /\ Verifies(file, cache)) \in BOOLEAN
        OBVIOUS
      <4> QED
        BY <1>1, <3>2, <4>1, LoadsWhatParses DEF Project
    <3>3. CASE Replace(w) \/ Compare(w) \/ Fail(w)
      BY <3>3 DEF Replace, Compare, Fail
    <3>4. CASE OpenLog(w) \/ CheckTail(w)
      BY <1>1, <3>4, LoadsWhatParses DEF OpenLog, CheckTail, Remember
    <3> QED
      BY <3>1, <3>2, <3>3, <3>4
  <2>3. CacheInv'
    BY <1>1, <1>2, <2>2, CacheKept DEF LogInv, CacheInv, Same
  <2>4. FaultsInv'
    <3>1. CASE Fail(w)
      <4>1. faults' # 0
        BY <1>2, <3>1 DEF Fail
      <4> QED
        BY <4>1 DEF FaultsInv
    <3>2. CASE ~Fail(w)
      <4>1. job[w].at # "sync" /\ faults' = faults /\ \A v \in Thread \ {w} : job'[v] = job[v]
        BY <1>1, <1>4, <3>2, Returns, Ends
           DEF Check, OpenLog, CheckTail, Project, Replace, Compare, At
      <4> QED
        BY <1>2, <4>1, FaultsKept DEF InProgress, At
    <3> QED
      BY <3>1, <3>2
  <2> QED
    BY <1>2, <2>1, <2>3, <2>4, FileKept DEF LogInv
<1>5. CASE \E place \in {"resume", "tail", "write", "replace", "compare"} :
              /\ job'[w].at = place
              /\ job[w].at \in {"check", "resume", "tail", "project", "replace"}
              /\ faults' = faults /\ CallsInv' /\ \A v \in Thread : JobInv(v)'
              /\ \A v \in Thread \ {w} : job'[v] = job[v]
              /\ cache' = cache \/ (Parses(file) /\ \E verified \in BOOLEAN : Caches(file, verified))
  <2>1. CacheInv'
    BY <1>1, <1>2, <1>5, CacheKept DEF LogInv, CacheInv, Same
  <2>2. FaultsInv'
    BY <1>2, <1>5, FaultsKept DEF InProgress, At
  <2> QED
    BY <1>2, <1>5, <2>1, <2>2, FileKept DEF LogInv
<1>6. CASE Check(w)
  <2>1. CASE Return(w, "refused")
    BY <1>4, <2>1
  <2>2. CASE /\ LoadVerified /\ job[w].asked \in {AnyVersion, Version(file)} /\ Go(w, "resume")
             /\ Caches(file, TRUE) /\ UNCHANGED <<answer, lock>>
    <3>1. Parses(file) /\ job[w].at = "check" /\ faults' = faults
      BY <1>1, <1>6, <2>2, LoadsWhatParses DEF Check, At
    <3>2. /\ job'[w].at = "resume" /\ job'[w].call = job[w].call /\ job'[w].asked = job[w].asked
          /\ job'[w].version = job[w].version /\ job'[w].floor = job[w].floor
          /\ \A v \in Thread \ {w} : job'[v] = job[v]
      BY <1>1, <2>2, Moves DEF Place
    <3>3. CallsInv' /\ \A v \in Thread : JobInv(v)'
      BY <1>3, <2>2, <3>1, <3>2 DEF Locked
    <3> QED
      BY <1>5, <2>2, <3>1, <3>2, <3>3
  <2> QED
    BY <1>6, <2>1, <2>2 DEF Check
<1>r. ASSUME NEW place \in {"tail", "write"}, Remember(w, place), faults' = faults,
             job[w].at \in {"resume", "tail"}
      PROVE  LogInv' /\ \A v \in Thread : JobInv(v)'
  <2>1. CASE Return(w, "refused")
    BY <1>4, <2>1
  <2>2. CASE /\ job' = [job EXCEPT ![w].at = place, ![w].head = file]
             /\ Caches(file, TRUE) /\ UNCHANGED <<answer, lock>>
    <3>1. Parses(file) /\ job[w].asked \in {AnyVersion, Version(file)} /\ file \in Seq(Chunk)
      BY <1>1, <1>r DEF JobInv, Types
    <3>2. /\ job'[w].at = place /\ job'[w].call = job[w].call /\ job'[w].asked = job[w].asked
          /\ job'[w].version = job[w].version /\ job'[w].floor = job[w].floor
          /\ job'[w].head = file
          /\ \A v \in Thread \ {w} : job'[v] = job[v]
      BY <1>1, <2>2, <3>1, Keeps DEF Place
    <3>3. CallsInv' /\ \A v \in Thread : JobInv(v)'
      BY <1>3, <1>r, <2>2, <3>1, <3>2 DEF Locked
    <3> QED
      BY <1>5, <1>r, <2>2, <3>1, <3>2, <3>3
  <2> QED
    BY <1>r, <2>1, <2>2 DEF Remember
<1>o. CASE OpenLog(w)
  BY <1>o, <1>r DEF OpenLog, At
<1>t. CASE CheckTail(w)
  <2>1. job[w].at = "tail" /\ job[w].head = file /\ faults' = faults
    BY <1>1, <1>t DEF CheckTail, At, JobInv
  <2>2. Go(w, "write") /\ UNCHANGED <<cache, answer, lock>>
    BY <1>t, <2>1 DEF CheckTail
  <2>3. Parses(file) /\ job[w].asked \in {AnyVersion, Version(file)}
    BY <1>1, <2>1 DEF JobInv
  <2>4. /\ job'[w].at = "write" /\ job'[w].call = job[w].call /\ job'[w].asked = job[w].asked
        /\ job'[w].version = job[w].version /\ job'[w].floor = job[w].floor
        /\ job'[w].head = file
        /\ \A v \in Thread \ {w} : job'[v] = job[v]
    BY <1>1, <2>1, <2>2, Moves DEF Place
  <2>5. CallsInv' /\ \A v \in Thread : JobInv(v)'
    BY <1>3, <2>1, <2>2, <2>3, <2>4 DEF Locked
  <2>6. cache' = cache
    BY <2>2
  <2> QED
    BY <1>5, <2>1, <2>4, <2>5, <2>6
<1>7. CASE Project(w)
  <2>1. CASE Return(w, "raised")
    BY <1>4, <2>1
  <2>2. CASE /\ Loads(file, cache) /\ UNCHANGED <<answer, lock>>
             /\ Caches(file, Known(file, cache) /\ Verifies(file, cache))
             /\ job' = [job EXCEPT ![w].at = "replace", ![w].version = Version(file)]
    <3>1. Parses(file) /\ job[w].at = "project" /\ faults' = faults /\ job[w].call # None
      BY <1>1, <1>7, <2>2, LoadsWhatParses DEF Project, At, JobInv
    <3>2. /\ job'[w].at = "replace" /\ job'[w].call = job[w].call /\ job'[w].asked = job[w].asked
          /\ job'[w].version = Version(file) /\ job'[w].floor = job[w].floor
          /\ \A v \in Thread \ {w} : job'[v] = job[v]
      BY <1>1, <2>2, Looks DEF Place
    <3>3. CallsInv' /\ \A v \in Thread : JobInv(v)'
      BY <1>3, <2>2, <3>1, <3>2 DEF Locked
    <3>4. (Known(file, cache) /\ Verifies(file, cache)) \in BOOLEAN
      OBVIOUS
    <3> QED
      BY <1>5, <2>2, <3>1, <3>2, <3>3, <3>4
  <2> QED
    BY <1>7, <2>1, <2>2 DEF Project
<1>8. CASE Replace(w)
  <2>1. /\ job[w].at = "replace" /\ faults' = faults /\ UNCHANGED <<answer, lock, cache>>
        /\ job'[w].at = "compare" /\ job'[w].call = job[w].call /\ job'[w].asked = job[w].asked
        /\ job'[w].version = job[w].version /\ job'[w].floor = job[w].floor
        /\ \A v \in Thread \ {w} : job'[v] = job[v]
    BY <1>1, <1>8, Moves DEF Replace, Place, At
  <2>2. CallsInv' /\ \A v \in Thread : JobInv(v)'
    BY <1>3, <2>1 DEF Locked
  <2>3. cache' = cache
    BY <2>1
  <2> QED
    BY <1>5, <2>1, <2>2, <2>3
<1>9. CASE Compare(w)
  <2>1. job[w].call # None => synced = Last
    BY <1>1, <1>9 DEF Compare, At, JobInv
  <2> QED
    BY <1>4, <1>9, <2>1 DEF Compare
<1>10. CASE Fail(w)
  BY <1>4, <1>10 DEF Fail
<1> QED
  BY <1>6, <1>7, <1>8, <1>9, <1>10, <1>o, <1>t

----------------------------------------------------------------------------
(* Steps that change the file. *)

\* The lock leaves one writer: the others are reading or waiting.
LEMMA OneWriter ==
  ASSUME IInv, NEW w \in Thread, job[w].at \in {"write", "sync"}
  PROVE  /\ lock = w
         /\ \A v \in Thread \ {w} :
               ~Locked(job[v])
               /\ job[v].at \notin {"check", "resume", "tail", "write", "sync", "project"}
         /\ \A v \in Thread : job[v].at \in {"replace", "compare"} => job[v].call = None
         /\ job[w].at = "write" => ~InProgress
<1>1. lock = w
  BY DEF IInv, JobInv, Locked
<1>2. \A v \in Thread \ {w} : ~Locked(job[v])
  BY <1>1 DEF IInv, JobInv
<1> QED
  BY <1>1, <1>2 DEF Locked, InProgress, At

\* The other threads when one that writes changes the file.
LEMMA OthersKeepOfFile ==
  ASSUME IInv, NEW w \in Thread, job[w].at \in {"write", "sync"}, UNCHANGED <<lock, answer>>,
         Len(file') >= Len(file), Len(file') \in Nat,
         \A i \in 1..Len(file') : file'[i].call = job[w].call \/ Written(file'[i].call),
         \A v \in Thread \ {w} : job'[v] = job[v], job'[w].call = job[w].call
  PROVE  \A v \in Thread \ {w} : JobInv(v)'
<1> SUFFICES ASSUME NEW v \in Thread \ {w} PROVE JobInv(v)'
  OBVIOUS
<1>1. JobInv(v) /\ JobInv(w) /\ job[v] \in Job /\ Len(file) \in Nat
  BY Lines DEF IInv, Types
<1>2. ~Locked(job[v])
      /\ job[v].at \notin {"check", "resume", "tail", "write", "sync", "project"}
      /\ (job[v].at \in {"replace", "compare"} => job[v].call = None)
  BY OneWriter
<1>3. job[v].at = "lock" => ~Written(job[v].call)'
  BY <1>1 DEF JobInv, Written
<1>4. job[v].floor <= Len(file') + 1
  BY <1>1 DEF JobInv, Job, Version
<1> QED
  BY <1>1, <1>2, <1>3, <1>4 DEF JobInv, Locked, Version

\* The lines that the cache has read stay as they are, but for the newline of the last.
LEMMA CacheKeptOfFile ==
  ASSUME IInv, Types', UNCHANGED cache, Len(file') >= Len(file),
         \A i \in 1..Len(file) :
            \/ file'[i] = file[i]
            \/ i = Len(file) /\ Same(file'[i], file[i]) /\ file'[i].shape = "whole"
  PROVE  CacheInv'
<1>1. Len(file) \in Nat /\ Len(cache.lines) \in Nat /\ Len(cache.lines) <= Len(file)
      /\ Parses(cache.lines)
  BY Lines DEF IInv, LogInv, CacheInv
<1>0. Len(file') \in Nat /\ \A i \in 1..Len(file') : file'[i] \in Chunk
  BY LenProperties, ElementOfSeq DEF Types
<1>2. ASSUME NEW i \in 1..Len(cache.lines)
      PROVE  \/ cache.lines[i] = file'[i]
             \/ /\ i = Len(cache.lines) /\ cache.lines[i].shape # "whole"
                /\ Same(cache.lines[i], file'[i])
  <2>1. \/ cache.lines[i] = file[i]
        \/ /\ i = Len(cache.lines) /\ cache.lines[i].shape # "whole"
           /\ Same(cache.lines[i], file[i])
    BY DEF IInv, LogInv, CacheInv
  <2>2. i \in 1..Len(file)
    BY <1>1
  <2>3. CASE file'[i] = file[i]
    BY <2>1, <2>3
  <2>4. CASE file'[i] # file[i]
    <3>1. i = Len(file) /\ Same(file'[i], file[i]) /\ file'[i].shape = "whole"
      BY <2>2, <2>4
    <3>2. i = Len(cache.lines)
      BY <1>1, <3>1
    <3>3. Same(cache.lines[i], file'[i])
      BY <2>1, <3>1 DEF Same
    <3>4. CASE cache.lines[i].shape # "whole"
      BY <3>2, <3>3, <3>4
    <3>5. CASE cache.lines[i].shape = "whole"
      <4>1. cache.lines[i] = file[i] /\ file[i] \in Chunk
        BY <2>1, <2>2, <3>5, Lines DEF IInv
      <4>2. file'[i] \in Chunk
        BY <1>0, <1>1, <2>2
      <4> QED
        BY <3>1, <3>5, <4>1, <4>2 DEF Chunk, Same
    <3> QED
      BY <3>4, <3>5
  <2> QED
    BY <2>3, <2>4
<1> QED
  BY <1>0, <1>1, <1>2 DEF CacheInv

\* The line that a writer begins, on a file that parses, and the newline that ends it.
LEMMA Appended ==
  ASSUME IInv, NEW w \in Thread, Write(w)
  PROVE  /\ job[w].at = "write" /\ lock = w /\ job[w].call \in Call /\ ~Written(job[w].call)
         /\ Parses(file) /\ job[w].asked \in {AnyVersion, Len(file) + 1}
         /\ answer[job[w].call] = "none" /\ job[w].floor <= Len(file) + 1
         /\ \E x \in Chunk :
               /\ x.call = job[w].call /\ x.asked = job[w].asked /\ x.seq = Len(file) + 1
               /\ x.prev = Hash(file, Len(file))
               /\ Len(file') = Len(file) + 1 /\ file'[Len(file) + 1] = x
               /\ \A i \in 1..Len(file) : file'[i] = file[i]
<1>1. Types /\ JobInv(w) /\ file \in Seq(Chunk) /\ job[w] \in Job
  BY DEF IInv, Types
<1>2. /\ job[w].at = "write" /\ lock = w /\ job[w].call \in Call /\ ~Written(job[w].call)
      /\ Parses(file) /\ job[w].asked \in {AnyVersion, Len(file) + 1}
      /\ answer[job[w].call] = "none" /\ job[w].floor <= Len(file) + 1
  BY <1>1, EventLogAssumption DEF Write, BeginLine, At, JobInv, Locked, Job, Version
<1>3. PICK shape \in Shape : file' = Append(file, Shaped(NextChunk(w), shape))
  BY DEF Write, BeginLine
<1>h. job[w].head = file
  BY <1>1, <1>2 DEF JobInv
<1>4. PICK x \in Chunk : /\ x = Shaped(NextChunk(w), shape)
                         /\ x.call = job[w].call /\ x.asked = job[w].asked /\ x.seq = Len(file) + 1
                         /\ x.prev = Hash(file, Len(file))
  BY <1>1, <1>2, <1>h, EventLogAssumption, Begun
<1>5. /\ Len(file') = Len(file) + 1 /\ file'[Len(file) + 1] = x
      /\ \A i \in 1..Len(file) : file'[i] = file[i]
  BY <1>1, <1>3, <1>4, AppendProperties
<1> QED
  BY <1>2, <1>4, <1>5

LEMMA Ended ==
  ASSUME IInv, NEW w \in Thread, Sync(w)
  PROVE  /\ job[w].at = "sync" /\ lock = w /\ job[w].call \in Call
         /\ Len(file) \in 1..Len(file) /\ file[Len(file)].call = job[w].call
         /\ answer[job[w].call] = "none" /\ job[w].floor <= Len(file) + 1
         /\ \E x \in Chunk :
               /\ Same(x, file[Len(file)]) /\ x.shape = "whole"
               /\ Len(file') = Len(file) /\ file'[Len(file)] = x
               /\ \A i \in 1..Len(file) : i # Len(file) => file'[i] = file[i]
<1>1. Types /\ JobInv(w) /\ Len(file) \in Nat /\ file \in Seq(Chunk) /\ job[w] \in Job
  BY Lines DEF IInv, Types
<1>2. /\ job[w].at = "sync" /\ lock = w /\ job[w].call \in Call
      /\ Len(file) \in 1..Len(file) /\ file[Len(file)].call = job[w].call
      /\ answer[job[w].call] = "none" /\ job[w].floor <= Len(file) + 1
  BY <1>1, EventLogAssumption DEF Sync, At, JobInv, Locked, Job, Version, Last
<1>3. PICK x \in Chunk : /\ x = [file[Len(file)] EXCEPT !.shape = "whole"]
                         /\ Same(x, file[Len(file)]) /\ x.shape = "whole"
  <2>1. file[Len(file)] \in Chunk
    BY <1>1, <1>2, Lines
  <2> DEFINE y == [file[Len(file)] EXCEPT !.shape = "whole"]
  <2>2. y \in Chunk /\ Same(y, file[Len(file)]) /\ y.shape = "whole"
    BY <2>1 DEF Chunk, Shape, Same
  <2> QED
    BY <2>2
<1>4. file' = [file EXCEPT ![Len(file)] = x]
  BY <1>3 DEF Sync
<1>5. /\ Len(file') = Len(file) /\ file'[Len(file)] = x
      /\ \A i \in 1..Len(file) : i # Len(file) => file'[i] = file[i]
  BY <1>1, <1>2, <1>4, ExceptSeq
<1> QED
  BY <1>2, <1>3, <1>5

LEMMA WriteStep ==
  ASSUME IInv, Types', NEW w \in Thread, Write(w)
  PROVE  LogInv' /\ \A v \in Thread : JobInv(v)'
<1> USE EventLogAssumption
<1>1. Types /\ LogInv /\ JobInv(w) /\ Len(file) \in Nat /\ file \in Seq(Chunk) /\ job[w] \in Job
  BY Lines DEF IInv, Types
<1>2. /\ job[w].at = "write" /\ lock = w /\ job[w].call \in Call /\ ~Written(job[w].call)
      /\ Parses(file) /\ job[w].asked \in {AnyVersion, Len(file) + 1}
      /\ answer[job[w].call] = "none" /\ job[w].floor <= Len(file) + 1
  BY Appended
<1>4. PICK x \in Chunk :
         /\ x.call = job[w].call /\ x.asked = job[w].asked /\ x.seq = Len(file) + 1
         /\ x.prev = Hash(file, Len(file))
         /\ Len(file') = Len(file) + 1 /\ file'[Len(file) + 1] = x
         /\ \A i \in 1..Len(file) : file'[i] = file[i]
  BY Appended
<1>5. /\ Len(file') = Len(file) + 1 /\ file'[Len(file) + 1] = x
      /\ \A i \in 1..Len(file) : file'[i] = file[i]
  BY <1>4
<1>6. /\ job'[w].at = "sync" /\ job'[w].call = job[w].call /\ job'[w].asked = job[w].asked
      /\ job'[w].floor = job[w].floor
      /\ \A v \in Thread \ {w} : job'[v] = job[v]
  <2>1. <<>> \in Seq(Chunk)
    OBVIOUS
  <2> QED
    BY <1>1, <2>1, Keeps DEF Write, BeginLine, Place
<1>7. UNCHANGED <<synced, cache, lock, answer, faults>>
  BY DEF Write, BeginLine
<1>8. \A i \in 1..Len(file) : /\ file[i].shape \in Shape /\ file[i].shape # "partial"
                              /\ file[i].shape = "bare" => i = Len(file)
  BY <1>1, <1>2, ParsesLines, Lines
<1>9. Shapes(file')
  BY <1>1, <1>5, <1>8 DEF Shapes, Shape
<1>10. \A i \in 1..Len(file) : file[i].call # x.call
  BY <1>2, <1>4 DEF Written
<1>11. Links(file')
  <2>1. \A i \in 1..Len(file) : Hash(file', i - 1) = Hash(file, i - 1)
    BY <1>1, <1>5 DEF Hash
  <2>2. Hash(file', Len(file)) = Hash(file, Len(file))
    BY <1>1, <1>5 DEF Hash
  <2>3. \A i \in 1..Len(file) :
           /\ file[i].seq = i /\ file[i].prev = Hash(file, i - 1)
           /\ file[i].asked \in {AnyVersion, i}
           /\ \A k \in 1..Len(file) : file[k].call = file[i].call => k = i
    BY <1>1 DEF LogInv, Links
  <2> SUFFICES ASSUME NEW i \in 1..Len(file')
               PROVE  /\ file'[i].seq = i /\ file'[i].prev = Hash(file', i - 1)
                      /\ file'[i].asked \in {AnyVersion, i}
                      /\ \A k \in 1..Len(file') : file'[k].call = file'[i].call => k = i
    BY DEF Links
  <2>4. CASE i = Len(file) + 1
    BY <1>1, <1>2, <1>4, <1>5, <1>10, <2>2, <2>4
  <2>5. CASE i \in 1..Len(file)
    <3>1. file'[i] = file[i] /\ Hash(file', i - 1) = Hash(file, i - 1)
      BY <1>5, <2>1, <2>5
    <3>2. ASSUME NEW k \in 1..Len(file'), file'[k].call = file'[i].call PROVE k = i
      <4>1. k # Len(file) + 1
        BY <1>4, <1>5, <1>10, <2>5, <3>1, <3>2
      <4>2. k \in 1..Len(file) /\ file'[k] = file[k]
        BY <1>1, <1>5, <4>1
      <4> QED
        BY <2>3, <2>5, <3>1, <3>2, <4>2
    <3> QED
      BY <2>3, <2>5, <3>1, <3>2
  <2> QED
    BY <1>1, <1>5, <2>4, <2>5
<1>12. CallsInv'
  <2> SUFFICES ASSUME NEW i \in 1..Len(file')
               PROVE  /\ answer[file'[i].call] = "ok" => i <= synced
                      /\ answer[file'[i].call] = "none" =>
                            \E v \in Thread : /\ job'[v].call = file'[i].call
                                /\ job'[v].at \in {"sync", "project", "replace", "compare"}
    BY <1>7 DEF CallsInv, Told
  <2>1. CASE i = Len(file) + 1
    BY <1>2, <1>4, <1>5, <1>6, <2>1
  <2>2. CASE i \in 1..Len(file)
    <3>1. /\ file[i].call \in Call
          /\ answer[file[i].call] = "ok" => i <= synced
          /\ answer[file[i].call] = "none" =>
                \E v \in Thread : /\ job[v].call = file[i].call
                                  /\ job[v].at \in {"sync", "project", "replace", "compare"}
      BY <1>1, <2>2, Lines DEF LogInv, CallsInv, Told
    <3> QED
      BY <1>2, <1>5, <1>6, <2>2, <3>1
  <2> QED
    BY <1>1, <1>5, <2>1, <2>2
<1>13. FaultsInv'
  <2>1. InProgress' /\ ~InProgress
    BY <1>2, <1>6, OneWriter DEF InProgress, At
  <2>2. faults = 0 => \A i \in 1..Len(file) : file[i].shape = "whole"
    BY <1>1, <2>1 DEF LogInv, FaultsInv
  <2> QED
    BY <1>1, <1>5, <1>7, <2>1, <2>2 DEF FaultsInv, Last
<1>14. CacheInv'
  BY <1>1, <1>5, <1>7, CacheKeptOfFile
<1>15. \A v \in Thread \ {w} : JobInv(v)'
  <2>1. \A i \in 1..Len(file') : file'[i].call = job[w].call \/ Written(file'[i].call)
    BY <1>1, <1>4, <1>5 DEF Written
  <2>2. Len(file') >= Len(file) /\ Len(file') \in Nat
    BY <1>1, <1>5
  <2> QED
    BY <1>2, <1>6, <1>7, <2>1, <2>2, OthersKeepOfFile
<1>16. JobInv(w)'
  <2>1. \A v \in Thread \ {w} : job'[v].call # job'[w].call
    BY <1>1, <1>2, <1>6 DEF JobInv
  <2>2. job'[w].floor <= Len(file') + 1
    BY <1>1, <1>2, <1>5, <1>6 DEF Job
  <2> QED
    BY <1>1, <1>2, <1>4, <1>5, <1>6, <1>7, <2>1, <2>2 DEF JobInv, Locked, Version, Last
<1> QED
  BY <1>9, <1>11, <1>12, <1>13, <1>14, <1>15, <1>16 DEF LogInv

\* The writer ends its line and makes it safe.
LEMMA SyncStep ==
  ASSUME IInv, Types', NEW w \in Thread, Sync(w)
  PROVE  LogInv' /\ \A v \in Thread : JobInv(v)'
<1> USE EventLogAssumption
<1>1. Types /\ LogInv /\ JobInv(w) /\ Len(file) \in Nat /\ file \in Seq(Chunk) /\ job[w] \in Job
  BY Lines DEF IInv, Types
<1>2. /\ job[w].at = "sync" /\ lock = w /\ job[w].call \in Call
      /\ Len(file) \in 1..Len(file) /\ file[Len(file)].call = job[w].call
      /\ answer[job[w].call] = "none" /\ job[w].floor <= Len(file) + 1
  BY Ended
<1>3. PICK x \in Chunk : /\ Same(x, file[Len(file)]) /\ x.shape = "whole"
                         /\ Len(file') = Len(file) /\ file'[Len(file)] = x
                         /\ \A i \in 1..Len(file) : i # Len(file) => file'[i] = file[i]
  BY Ended
<1>5. /\ Len(file') = Len(file) /\ file'[Len(file)] = x
      /\ \A i \in 1..Len(file) : i # Len(file) => file'[i] = file[i]
  BY <1>3
<1>6. /\ job'[w].at = "project" /\ job'[w].call = job[w].call /\ job'[w].asked = job[w].asked
      /\ job'[w].floor = job[w].floor
      /\ \A v \in Thread \ {w} : job'[v] = job[v]
  BY <1>1, Moves DEF Sync, Place
<1>7. UNCHANGED <<cache, lock, answer, faults>> /\ synced' = Len(file)
  BY DEF Sync
<1>8. \A i \in 1..Len(file) : Same(file'[i], file[i]) /\ (file'[i] = file[i] \/ file'[i].shape = "whole")
  BY <1>3, <1>5 DEF Same
<1>9. Shapes(file')
  BY <1>1, <1>5 DEF LogInv, Shapes
<1>10. Links(file')
  <2>1. \A i \in 1..Len(file) : Hash(file', i - 1) = Hash(file, i - 1)
    BY <1>1, <1>8 DEF Hash, Same
  <2>2. \A i \in 1..Len(file) :
           /\ file[i].seq = i /\ file[i].prev = Hash(file, i - 1)
           /\ file[i].asked \in {AnyVersion, i}
           /\ \A k \in 1..Len(file) : file[k].call = file[i].call => k = i
    BY <1>1 DEF LogInv, Links
  <2>3. \A i \in 1..Len(file) : /\ file'[i].seq = file[i].seq /\ file'[i].prev = file[i].prev
                                /\ file'[i].asked = file[i].asked
                                /\ file'[i].call = file[i].call
    BY <1>8 DEF Same
  <2> QED
    BY <1>5, <2>1, <2>2, <2>3 DEF Links
<1>11. CallsInv'
  <2> SUFFICES ASSUME NEW i \in 1..Len(file')
               PROVE  /\ answer[file'[i].call] = "ok" => i <= synced'
                      /\ answer[file'[i].call] = "none" =>
                            \E v \in Thread : /\ job'[v].call = file'[i].call
                                /\ job'[v].at \in {"sync", "project", "replace", "compare"}
    BY <1>7 DEF CallsInv, Told
  <2>1. i \in 1..Len(file) /\ file'[i].call = file[i].call /\ i <= synced'
    BY <1>1, <1>5, <1>7, <1>8 DEF Same
  <2>2. answer[file[i].call] = "none" =>
           \E v \in Thread : /\ job[v].call = file[i].call
                             /\ job[v].at \in {"sync", "project", "replace", "compare"}
    BY <1>1, <2>1 DEF LogInv, CallsInv
  <2> QED
    BY <1>6, <2>1, <2>2
<1>12. FaultsInv'
  BY <1>1, <1>3, <1>5, <1>7 DEF LogInv, FaultsInv, Last
<1>13. CacheInv'
  BY <1>1, <1>5, <1>7, <1>8, CacheKeptOfFile
<1>14. \A v \in Thread \ {w} : JobInv(v)'
  <2>1. \A i \in 1..Len(file') : Written(file'[i].call)
    BY <1>5, <1>8 DEF Written, Same
  <2>2. Len(file') >= Len(file) /\ Len(file') \in Nat
    BY <1>1, <1>5
  <2> QED
    BY <1>2, <1>6, <1>7, <2>1, <2>2, OthersKeepOfFile
<1>15. JobInv(w)'
  <2>1. \A v \in Thread \ {w} : job'[v].call # job'[w].call
    BY <1>1, <1>2, <1>6 DEF JobInv
  <2>2. file'[Len(file')].call = job'[w].call
    BY <1>2, <1>3, <1>5, <1>6 DEF Same
  <2> QED
    BY <1>1, <1>2, <1>5, <1>6, <1>7, <2>1, <2>2 DEF JobInv, Locked, Version, Last
<1> QED
  BY <1>9, <1>10, <1>11, <1>12, <1>13, <1>14, <1>15 DEF LogInv

\* What may be left of the file when the process ends.
LEMMA CutFile ==
  ASSUME IInv, Types', Stop
  PROVE  /\ Len(file') \in synced..Len(file)
         /\ \A i \in 1..Len(file') :
               \/ file'[i] = file[i]
               \/ /\ i = Len(file) /\ i > synced /\ Len(file') = Len(file)
                  /\ Same(file'[i], file[i]) /\ file'[i].shape = "partial"
<1>1. Types /\ Len(file) \in Nat /\ file \in Seq(Chunk) /\ synced \in Nat /\ synced <= Len(file)
  BY Lines DEF IInv, Types
<1>2. ASSUME NEW n \in synced..Len(file), file' = SubSeq(file, 1, n)
      PROVE  Len(file') = n /\ \A i \in 1..n : file'[i] = file[i]
  <2>1. n \in Nat /\ \A i \in 1..n : file[i] \in Chunk
    BY <1>1, Lines
  <2> QED
    BY <1>2, <2>1, SubSeqProperties
<1>3. ASSUME NEW n \in {Len(file)} \ (0..synced), file' = [file EXCEPT ![n].shape = "partial"]
      PROVE  /\ Len(file') = Len(file) /\ n = Len(file) /\ n > synced
             /\ Same(file'[n], file[n]) /\ file'[n].shape = "partial"
             /\ \A i \in 1..Len(file) : i # n => file'[i] = file[i]
  <2>1. n \in 1..Len(file) /\ file[n] \in Chunk /\ n > synced
    BY <1>1, Lines
  <2> DEFINE y == [file[n] EXCEPT !.shape = "partial"]
  <2>2. y \in Chunk /\ Same(y, file[n]) /\ y.shape = "partial" /\ file' = [file EXCEPT ![n] = y]
    BY <1>3, <2>1 DEF Chunk, Shape, Same
  <2> HIDE DEF y
  <2> QED
    BY <1>1, <2>1, <2>2, ExceptSeq
<1> QED
  BY <1>1, <1>2, <1>3 DEF Stop, Cut

\* The end of the process: every job is gone, and of the file what was not safe perhaps.
LEMMA StopStep ==
  ASSUME IInv, Types', Stop
  PROVE  LogInv' /\ \A v \in Thread : JobInv(v)'
<1> USE EventLogAssumption
<1>1. Types /\ LogInv /\ Len(file) \in Nat /\ synced \in Nat /\ synced <= Len(file)
      /\ Len(file') \in Nat /\ Len(file') <= Len(file) /\ synced <= Len(file')
      /\ faults \in Nat
  BY Lines, CutFile DEF IInv, Types
<1>2. \A i \in 1..Len(file') : /\ file'[i].call = file[i].call /\ file'[i].seq = file[i].seq
                               /\ file'[i].prev = file[i].prev /\ file'[i].asked = file[i].asked
                               /\ file'[i] = file[i] \/ i = Len(file)
  BY CutFile DEF Same
<1>3. Shapes(file')
  BY <1>1, CutFile DEF LogInv, Shapes
<1>4. Links(file')
  <2>1. \A i \in 1..Len(file') : Hash(file', i - 1) = Hash(file, i - 1)
    BY <1>1, <1>2 DEF Hash
  <2>2. \A i \in 1..Len(file') :
           /\ file[i].seq = i /\ file[i].prev = Hash(file, i - 1)
           /\ file[i].asked \in {AnyVersion, i}
           /\ \A k \in 1..Len(file') : file[k].call = file[i].call => k = i
    BY <1>1 DEF LogInv, Links
  <2> QED
    BY <1>2, <2>1, <2>2 DEF Links
<1>5. CallsInv'
  <2> SUFFICES ASSUME NEW i \in 1..Len(file')
               PROVE  /\ answer'[file'[i].call] = "ok" => i <= synced'
                      /\ answer'[file'[i].call] # "none"
    BY DEF CallsInv, Told
  <2>0. i \in 1..Len(file) /\ file'[i].call = file[i].call
    BY <1>1, <1>2
  <2>1. i \in 1..Len(file) /\ file'[i].call = file[i].call /\ file[i].call \in Call
    BY <1>1, <2>0, Lines
  <2>2. /\ answer[file[i].call] = "ok" => i <= synced
        /\ answer[file[i].call] = "none" => \E v \in Thread : job[v].call = file[i].call
    BY <1>1, <2>1 DEF LogInv, CallsInv, Told
  <2>3. synced' = synced /\ answer'[file[i].call] \in {answer[file[i].call], "failed"}
        /\ ((\E v \in Thread : job[v].call = file[i].call) => answer'[file[i].call] = "failed")
    BY <2>1 DEF Stop
  <2> QED
    BY <2>1, <2>2, <2>3
<1>6. FaultsInv'
  <2>1. faults' # 0
    BY <1>1 DEF Stop
  <2> QED
    BY <2>1 DEF FaultsInv
<1>7. CacheInv'
  <2>1. cache'.lines = <<>> /\ Len(<<>>) = 0 /\ <<>> \in Seq(Chunk)
    BY DEF Stop
  <2>2. Parses(<<>>)
    BY DEF Parses
  <2> QED
    BY <1>1, <2>1, <2>2 DEF CacheInv
<1>8. ASSUME NEW v \in Thread PROVE JobInv(v)'
  <2>1. job'[v] = Free /\ lock' = None /\ \A u \in Thread : job'[u] = Free
    BY DEF Stop
  <2>2. Version(file') >= 0
    BY <1>1 DEF Version
  <2> QED
    BY <2>1, <2>2 DEF JobInv, Free, Locked
<1> QED
  BY <1>3, <1>4, <1>5, <1>6, <1>7, <1>8 DEF LogInv

----------------------------------------------------------------------------
(* The invariant and what follows from it. *)

LEMMA InvInit == Init => IInv
<1> SUFFICES ASSUME Init PROVE IInv
  OBVIOUS
<1> USE EventLogAssumption
<1>1. Types
  BY TypeInit
<1>2. file = <<>> /\ Len(<<>>) = 0 /\ cache.lines = <<>>
  BY DEF Init
<1>3. LogInv
  BY <1>2 DEF LogInv, Shapes, Links, CallsInv, FaultsInv, CacheInv, Parses
<1>4. ASSUME NEW w \in Thread PROVE JobInv(w)
  BY <1>2 DEF Init, Free, JobInv, Locked, Version
<1> QED
  BY <1>1, <1>3, <1>4 DEF IInv

LEMMA InvStep == IInv /\ [Next]_vars => IInv'
<1> SUFFICES ASSUME IInv, [Next]_vars PROVE IInv'
  OBVIOUS
<1>1. Types'
  BY TypeStep DEF IInv
<1>2. CASE UNCHANGED vars
  <2>1. LogInv' /\ \A v \in Thread : JobInv(v)'
    BY <1>2 DEF vars, IInv, LogInv, Shapes, Links, CallsInv, FaultsInv, CacheInv, JobInv, Locked,
                Written, Told, Last, InProgress, At, Hash, Same, Version
  <2> QED
    BY <1>1, <2>1 DEF IInv
<1> QED
  BY <1>1, <1>2, ReaderStep, WriterStep, WriteStep, SyncStep, StopStep DEF Next, IInv

\* Of a log's files: what a line may look like and what it extends, whom a thread with the
\* lock keeps out, and how old the cache and a reader's events are.
THEOREM LogInvariance == Spec => []IInv
  BY InvInit, InvStep, PTL DEF Spec

\* However many threads append at once, and whatever fails or dies, the chain of the log is
\* one: the head that a writer's log object remembers is still the file's end when it writes.
THEOREM ChainNeverForksAlways == Spec => []ChainNeverForks
<1>1. IInv => ChainNeverForks
  BY Chain DEF IInv, ChainNeverForks
<1> QED
  BY <1>1, LogInvariance, PTL

\* Without a failed write or an end of the process the log parses, however many threads append
\* at once (LocalRunStore).
THEOREM OnlyCutsBreakAlways == Spec => []OnlyCutsBreak
<1>1. IInv => OnlyCutsBreak
  <2> SUFFICES ASSUME IInv, faults = 0 PROVE Parses(Settled)
    BY DEF OnlyCutsBreak, IInv, Types
  <2>1. Types /\ LogInv /\ file \in Seq(Chunk) /\ Len(file) \in Nat
        /\ \A i \in 1..Len(file) : file[i] \in Chunk /\ file[i].shape \in Shape
    BY Lines DEF IInv, Types
  <2>2. \A i \in 1..Len(file) : file[i].shape = "whole" \/ (i = Len(file) /\ InProgress)
    BY <2>1 DEF LogInv, FaultsInv, Last
  <2>3. CASE TornLine
    BY <2>1, <2>3, SettledLines, Chain
  <2>4. CASE ~TornLine
    <3>1. \A i \in 1..Len(file) : file[i].shape # "partial" /\ (file[i].shape = "bare" => i = Len(file))
      BY <2>1, <2>2, <2>4 DEF TornLine, Shape
    <3> QED
      BY <2>1, <2>4, <3>1, SettledLines, ParsesLines, Chain
  <2> QED
    BY <2>3, <2>4
<1> QED
  BY <1>1, LogInvariance, PTL

\* The parsed-log cache never answers otherwise than reading the file would (_ParsedLogCache).
THEOREM CacheIsTransparentAlways == Spec => []CacheIsTransparent
<1>1. IInv => CacheIsTransparent
  BY Loading, Chain DEF IInv, CacheIsTransparent
<1> QED
  BY <1>1, LogInvariance, PTL

\* A read that began after an append was acknowledged returns a version that includes it,
\* whatever the cache held (LocalRunStore.get).
THEOREM ReadsSeeWhatWasToldAlways == Spec => []ReadsSeeWhatWasTold
<1>1. IInv => ReadsSeeWhatWasTold
  BY DEF IInv, JobInv, ReadsSeeWhatWasTold
<1> QED
  BY <1>1, LogInvariance, PTL

----------------------------------------------------------------------------
(* The refinement: what a reader of the files can make of them. *)

Event == [fact : Call, asked : Asked]
Events(f, n) == [i \in 1..n |-> [fact |-> f[i].call, asked |-> f[i].asked]]
History == Events(file, Readable)
Sound == Parses(Settled)

LEMMA EventSeq ==
  ASSUME NEW f \in Seq(Chunk), NEW n \in 0..Len(f)
  PROVE  /\ Events(f, n) \in Seq(Event) /\ Len(Events(f, n)) = n
         /\ DOMAIN Events(f, n) = 1..n
         /\ \A i \in 1..n : Events(f, n)[i] = [fact |-> f[i].call, asked |-> f[i].asked]
<1>1. n \in Nat /\ \A i \in 1..n : f[i] \in Chunk
  BY LenProperties, ElementOfSeq
<1>2. \A i \in 1..n : [fact |-> f[i].call, asked |-> f[i].asked] \in Event
  BY <1>1 DEF Chunk, Event
<1>3. Events(f, n) \in [1..n -> Event]
  BY <1>2 DEF Events
<1>4. Events(f, n) \in Seq(Event)
  BY <1>1, <1>3, SeqDef
<1>5. Len(Events(f, n)) = n
  BY <1>1, <1>3, <1>4, LenProperties
<1> QED
  BY <1>4, <1>5 DEF Events

\* Shapes do not matter to the events.
LEMMA SameEvents ==
  ASSUME NEW f, NEW g, NEW n \in Nat, \A i \in 1..n : Same(f[i], g[i])
  PROVE  Events(f, n) = Events(g, n)
  BY DEF Events, Same

LEMMA FewerEvents ==
  ASSUME NEW f \in Seq(Chunk), NEW n \in 0..Len(f), NEW k \in 0..n
  PROVE  SubSeq(Events(f, n), 1, k) = Events(f, k)
<1>1. Len(f) \in Nat /\ k \in 0..Len(f) /\ k \in Nat /\ n \in Nat
  BY LenProperties
<1>2. /\ Events(f, n) \in Seq(Event) /\ Len(Events(f, n)) = n
      /\ Events(f, k) \in Seq(Event) /\ Len(Events(f, k)) = k
      /\ \A i \in 1..k : Events(f, n)[i] = Events(f, k)[i] /\ Events(f, n)[i] \in Event
  <2>1. \A i \in 1..n : Events(f, n)[i] \in Event
    BY <1>1, EventSeq, ElementOfSeq
  <2>2. \A i \in 1..k : i \in 1..n
    BY <1>1
  <2>3. \A i \in 1..k : Events(f, n)[i] = Events(f, k)[i]
    BY <2>2 DEF Events
  <2>4. /\ Events(f, n) \in Seq(Event) /\ Len(Events(f, n)) = n
        /\ Events(f, k) \in Seq(Event) /\ Len(Events(f, k)) = k
    BY <1>1, EventSeq
  <2> QED
    BY <2>1, <2>2, <2>3, <2>4
<1> DEFINE t == SubSeq(Events(f, n), 1, k)
<1>3. t \in Seq(Event) /\ Len(t) = k /\ \A i \in 1..k : t[i] = Events(f, n)[i]
  BY <1>1, <1>2, SubSeqProperties
<1> HIDE DEF t
<1>4. t = Events(f, k)
  BY <1>2, <1>3, SeqEqual
<1> QED
  BY <1>4 DEF t

LEMMA OneMoreEvent ==
  ASSUME NEW f \in Seq(Chunk), NEW n \in 1..Len(f)
  PROVE  Events(f, n) = Append(Events(f, n - 1), [fact |-> f[n].call, asked |-> f[n].asked])
<1> DEFINE e == [fact |-> f[n].call, asked |-> f[n].asked]
<1>1. Len(f) \in Nat /\ n \in 0..Len(f) /\ n - 1 \in 0..Len(f) /\ n \in Nat
  BY LenProperties
<1>2. /\ Events(f, n) \in Seq(Event) /\ Len(Events(f, n)) = n
      /\ Events(f, n - 1) \in Seq(Event) /\ Len(Events(f, n - 1)) = n - 1
      /\ Events(f, n)[n] = e /\ e \in Event
      /\ \A i \in 1..n - 1 : Events(f, n)[i] = Events(f, n - 1)[i]
  <2>1. Events(f, n)[n] = e
    BY <1>1, EventSeq
  <2>2. e \in Event
    BY <1>1, <2>1, EventSeq, ElementOfSeq
  <2>3. \A i \in 1..n - 1 : i \in 1..n
    BY <1>1
  <2>4. \A i \in 1..n - 1 : Events(f, n)[i] = Events(f, n - 1)[i]
    BY <2>3 DEF Events
  <2>5. /\ Events(f, n) \in Seq(Event) /\ Len(Events(f, n)) = n
        /\ Events(f, n - 1) \in Seq(Event) /\ Len(Events(f, n - 1)) = n - 1
    BY <1>1, EventSeq
  <2> QED
    BY <2>1, <2>2, <2>4, <2>5
<1> HIDE DEF e
<1> DEFINE t == Append(Events(f, n - 1), e)
<1>3. /\ t \in Seq(Event) /\ Len(t) = n - 1 + 1 /\ t[n - 1 + 1] = e
      /\ \A i \in 1..n - 1 : t[i] = Events(f, n - 1)[i]
  BY <1>2, AppendProperties
<1> HIDE DEF t
<1>4. t = Events(f, n)
  BY <1>1, <1>2, <1>3, SeqEqual
<1> QED
  BY <1>4 DEF t, e

\* The readable lines: all of them, or all but the last.
LEMMA WhatIsReadable ==
  Types /\ LogInv =>
     /\ Sound <=> TornLine \/ Parses(file)
     /\ IF ~TornLine /\ Parses(file) THEN Readable = Len(file)
        ELSE Readable = Len(file) - 1 /\ Len(file) > 0
<1> SUFFICES ASSUME Types, LogInv
             PROVE  /\ Sound <=> TornLine \/ Parses(file)
                    /\ IF ~TornLine /\ Parses(file) THEN Readable = Len(file)
                       ELSE Readable = Len(file) - 1 /\ Len(file) > 0
  OBVIOUS
<1> DEFINE S == Settled
           n == Len(S)
           Reads(k) == \A i \in 1..k : /\ S[i].shape # "partial"
                                       /\ i < k => S[i].shape = "whole"
<1>1. file \in Seq(Chunk) /\ S \in Seq(Chunk) /\ Len(file) \in Nat /\ n \in Nat
      /\ \A i \in 1..n : S[i].shape \in Shape
  <2>1. \A i \in 1..n : S[i] \in Chunk
    BY SettledLines, ElementOfSeq
  <2> QED
    BY <2>1, SettledLines, LenProperties DEF Types, Chunk
<1>2. \A i \in 1..n : /\ i + 1 < n => S[i].shape = "whole"
                      /\ i + 1 = n => S[i].shape # "partial"
  <2>1. \A i \in 1..Len(file) : /\ i + 1 < Len(file) => file[i].shape = "whole"
                                /\ i + 1 = Len(file) => file[i].shape # "partial"
    BY DEF LogInv, Shapes
  <2>2. CASE TornLine
    BY <1>1, <2>1, <2>2, SettledLines
  <2>3. CASE ~TornLine
    BY <2>1, <2>3, SettledLines
  <2> QED
    BY <2>2, <2>3
<1>3. Parses(S) <=> \A i \in 1..n : S[i].shape # "partial" /\ (S[i].shape = "bare" => i = n)
  BY <1>1, ParsesLines
<1>4. ~Parses(S) => n > 0
  BY <1>1, <1>3
<1>5. PICK m : m = IF Parses(S) THEN n ELSE n - 1
  OBVIOUS
<1>6. m \in 0..n
  BY <1>1, <1>4, <1>5
<1>7. Whole = {k \in 0..n : Reads(k)}
  BY DEF Whole
<1> HIDE DEF S, n
<1>8. Reads(m)
  <2>1. CASE Parses(S)
    BY <1>1, <1>2, <1>3, <1>5, <2>1 DEF Shape
  <2>2. CASE ~Parses(S)
    BY <1>1, <1>2, <1>4, <1>5, <2>2 DEF Shape
  <2> QED
    BY <2>1, <2>2
<1>9. ASSUME NEW k \in 0..n, Reads(k) PROVE k <= m
  <2>1. CASE Parses(S)
    BY <1>1, <1>5, <2>1
  <2>2. CASE ~Parses(S)
    <3>1. k # n
      BY <1>1, <1>3, <1>9, <2>2
    <3> QED
      BY <1>1, <1>5, <2>2, <3>1
  <2> QED
    BY <2>1, <2>2
<1> HIDE DEF Reads
<1>10. m \in Whole /\ \A k \in Whole : k <= m
  BY <1>6, <1>7, <1>8, <1>9
<1>11. Readable \in Whole /\ \A k \in Whole : k <= Readable
  BY <1>10 DEF Readable
<1>12. Readable = m
  <2>1. Readable \in 0..n /\ Readable <= m /\ m <= Readable
    BY <1>7, <1>10, <1>11
  <2> QED
    BY <1>1, <1>6, <2>1
<1> QED
  BY <1>1, <1>4, <1>5, <1>12, SettledLines DEF S, n, Sound

\* The same of the next state.
LEMMA WhatWillBeReadable ==
  (Types /\ LogInv =>
     /\ Sound <=> TornLine \/ Parses(file)
     /\ IF ~TornLine /\ Parses(file) THEN Readable = Len(file)
        ELSE Readable = Len(file) - 1 /\ Len(file) > 0)'
  BY WhatIsReadable, PTL

\* What the files show to VersionedLog.
LEMMA HistoryLines ==
  ASSUME Types, LogInv
  PROVE  /\ file \in Seq(Chunk) /\ Readable \in 0..Len(file)
         /\ Len(History) = Readable /\ DOMAIN History = 1..Readable
         /\ \A i \in 1..Readable : History[i] = [fact |-> file[i].call, asked |-> file[i].asked]
         /\ Versioned!Recorded = {file[i].call : i \in 1..Readable}
<1>1. file \in Seq(Chunk) /\ Len(file) \in Nat /\ Readable \in 0..Len(file)
  BY WhatIsReadable, Lines DEF Types
<1>2. /\ Len(History) = Readable /\ DOMAIN History = 1..Readable
      /\ \A i \in 1..Readable : History[i] = [fact |-> file[i].call, asked |-> file[i].asked]
  BY <1>1, EventSeq DEF History
<1>3. Versioned!Recorded = {History[i].fact : i \in DOMAIN History}
  BY DEF Versioned!Recorded, History, Events
<1> QED
  BY <1>1, <1>2, <1>3

\* A history that loses only lines that were not safe loses no event that was told of.
LEMMA CutHistory ==
  ASSUME Types, LogInv, NEW n \in 0..Readable, n = Readable \/ synced <= n
  PROVE  Events(file, n) \in Versioned!Kept
<1>1. /\ file \in Seq(Chunk) /\ Readable \in 0..Len(file) /\ Len(History) = Readable
      /\ \A i \in 1..Readable : History[i] = [fact |-> file[i].call, asked |-> file[i].asked]
      /\ Len(file) \in Nat
  BY HistoryLines, Lines
<1>2. Versioned!Kept = {SubSeq(History, 1, k) : k \in {i \in 0..Len(History) :
                            \A j \in i + 1..Len(History) : History[j].fact \notin Told}}
  BY DEF Versioned!Kept, History, Events
<1>3. SubSeq(History, 1, n) = Events(file, n)
  BY <1>1, FewerEvents DEF History
<1>4. \A j \in n + 1..Readable : file[j].call \notin Told
  <2> SUFFICES ASSUME NEW j \in n + 1..Readable, file[j].call \in Told PROVE FALSE
    OBVIOUS
  <2>1. j \in 1..Len(file) /\ j > n /\ n \in Nat /\ synced \in Nat /\ n # Readable
    BY <1>1 DEF Types
  <2>2. j <= synced
    BY <2>1 DEF LogInv, CallsInv
  <2> QED
    BY <1>1, <2>1, <2>2
<1>5. \A j \in n + 1..Readable : History[j].fact \notin Told
  <2>1. \A j \in n + 1..Readable : j \in 1..Readable
    BY <1>1
  <2> QED
    BY <1>1, <1>4, <2>1
<1> QED
  BY <1>1, <1>2, <1>3, <1>5

LEMMA HistoryStays ==
  ASSUME Types, LogInv
  PROVE  History \in Versioned!Kept
<1>1. Readable \in 0..Readable
  BY HistoryLines, Lines
<1> QED
  BY <1>1, CutHistory DEF History

\* The steps of VersionedLog in terms of what the files show.
LEMMA AbstractSteps ==
  /\ UNCHANGED <<History, Told, Sound>> => UNCHANGED Versioned!vars
  /\ (Sound /\ ~Sound' /\ History' \in Versioned!Kept /\ UNCHANGED Told) => Versioned!Next
  /\ (Sound' /\ History' \in Versioned!Kept /\ UNCHANGED Told) => Versioned!Next
  /\ \A c \in Call : (/\ c \in Versioned!Recorded /\ Told' = Told \cup {c}
                      /\ UNCHANGED <<History, Sound>>) => Versioned!Next
  /\ \A c \in Call : (/\ c \notin Versioned!Recorded /\ Sound /\ UNCHANGED <<Sound, Told>>
                      /\ \E asked \in {AnyVersion, Len(History) + 1} :
                            History' = Append(History, [fact |-> c, asked |-> asked]))
                     => Versioned!Next
<1>1. UNCHANGED <<History, Told, Sound>> => UNCHANGED Versioned!vars
  BY DEF Versioned!vars, History, Events, Sound
<1>2. (Sound /\ ~Sound' /\ History' \in Versioned!Kept /\ UNCHANGED Told) => Versioned!Damage
  BY DEF Versioned!Damage, History, Events, Sound
<1>3. (Sound' /\ History' \in Versioned!Kept /\ UNCHANGED Told) => Versioned!Lose
  BY DEF Versioned!Lose, History, Events, Sound, Parses
<1>4. ASSUME NEW c \in Call, c \in Versioned!Recorded, Told' = Told \cup {c},
             UNCHANGED <<History, Sound>>
      PROVE  Versioned!Tell(c)
  BY <1>4 DEF Versioned!Tell, History, Events, Sound
<1>5. ASSUME NEW c \in Call, c \notin Versioned!Recorded, Sound, UNCHANGED <<Sound, Told>>,
             NEW asked \in {AnyVersion, Len(History) + 1},
             History' = Append(History, [fact |-> c, asked |-> asked])
      PROVE  Versioned!Commit(c)
  BY <1>5 DEF Versioned!Commit, History, Events, Sound
<1> QED
  BY <1>1, <1>2, <1>3, <1>4, <1>5 DEF Versioned!Next

\* What a thread's return tells its caller.
LEMMA Telling ==
  ASSUME IInv, NEW w \in Thread, NEW what \in {"ok", "refused", "raised", "failed"},
         Return(w, what)
  PROVE  IF what = "ok" /\ job[w].call # None THEN Told' = Told \cup {job[w].call} ELSE Told' = Told
<1>1. /\ job[w].call # None => /\ job[w].call \in Call /\ answer'[job[w].call] = what
                               /\ answer[job[w].call] = "none"
      /\ \A c \in Call : c # job[w].call => answer'[c] = answer[c]
  BY Returns DEF IInv, JobInv, Types, Job
<1>2. CASE job[w].call = None
  BY <1>1, <1>2, EventLogAssumption DEF Told
<1>3. CASE job[w].call # None
  BY <1>1, <1>3 DEF Told
<1> QED
  BY <1>2, <1>3

\* Steps that show nothing but what a caller is told.
LEMMA QuietRefines ==
  ASSUME IInv, IInv', NEW w \in Thread,
         \/ Read(w) \/ Open(w) \/ Derive(w) \/ Look(w) \/ Lock(w) \/ Check(w)
         \/ OpenLog(w) \/ CheckTail(w) \/ Project(w) \/ Replace(w) \/ Compare(w) \/ (Fail(w) /\ ~At(w, "sync")) \/ \E c \in Call : Begin(w, c)
  PROVE  [Versioned!Next]_(Versioned!vars)
<1>1. Types /\ LogInv /\ JobInv(w)
  BY DEF IInv
<1>2. /\ UNCHANGED file /\ \A v \in Thread \ {w} : job'[v] = job[v]
      /\ job[w].at # "sync" /\ job'[w].at # "sync"
  <2>1. CASE Open(w) \/ Look(w) \/ Lock(w) \/ Replace(w)
    <3>1. Go(w, "derive") \/ Go(w, "replace") \/ Go(w, "check") \/ Go(w, "compare") \/ Done(w)
      BY <2>1 DEF Open, Look, Lock, Replace
    <3> QED
      BY <1>1, <2>1, <3>1, Moves, Ends DEF Place, Open, Look, Lock, Replace, At
  <2>2. CASE Derive(w)
    BY <1>1, <2>2, Looks, Ends DEF Derive, Place, At
  <2>3. CASE Read(w) \/ \E c \in Call : Begin(w, c)
    <3>1. UNCHANGED file /\ job[w].at = "idle" /\ \A v \in Thread \ {w} : job'[v] = job[v]
      BY <1>1, <2>3 DEF Read, Begin, At, Types
    <3>2. CASE Read(w)
      BY <1>1, <3>1, <3>2 DEF Read, Types, Job
    <3>3. ASSUME NEW c \in Call, Begin(w, c) PROVE job'[w].at # "sync"
      <4>1. PICK asked : job' = [job EXCEPT ![w].at = "lock", ![w].call = c, ![w].asked = asked]
        BY <3>3 DEF Begin
      <4> QED
        BY <1>1, <4>1 DEF Types, Job
    <3> QED
      BY <2>3, <3>1, <3>2, <3>3
  <2>4. CASE Check(w) \/ Project(w) \/ Compare(w) \/ (Fail(w) /\ ~At(w, "sync"))
    <3>1. job[w].at # "sync" /\ UNCHANGED file
      BY <2>4 DEF Check, Project, Compare, Fail, At
    <3>2. \/ Done(w) \/ Go(w, "resume")
          \/ job' = [job EXCEPT ![w].at = "replace", ![w].version = Version(file)]
      BY <2>4 DEF Check, Project, Compare, Fail, Return
    <3> QED
      BY <1>1, <3>1, <3>2, Moves, Ends, Looks DEF Place
  <2>5. CASE OpenLog(w) \/ CheckTail(w)
    <3>1. job[w].at # "sync" /\ UNCHANGED file
      BY <2>5 DEF OpenLog, CheckTail, At
    <3>2. \/ Done(w) \/ Go(w, "write")
          \/ \E place \in {"tail", "write"} :
                job' = [job EXCEPT ![w].at = place, ![w].head = file]
      BY <2>5 DEF OpenLog, CheckTail, Remember, Return
    <3>3. file \in Seq(Chunk)
      BY <1>1 DEF Types
    <3>4. CASE Done(w) \/ Go(w, "write")
      BY <1>1, <3>1, <3>4, Moves, Ends DEF Place
    <3>5. ASSUME NEW place \in {"tail", "write"},
                 job' = [job EXCEPT ![w].at = place, ![w].head = file]
          PROVE  /\ job'[w].at # "sync" /\ \A v \in Thread \ {w} : job'[v] = job[v]
      <4>1. place \in Place
        BY DEF Place
      <4> QED
        BY <1>1, <3>3, <3>5, <4>1, Keeps
    <3> QED
      BY <3>1, <3>2, <3>4, <3>5
  <2> QED
    BY <2>1, <2>2, <2>3, <2>4, <2>5
<1>3. InProgress' = InProgress
  BY <1>2 DEF InProgress, At
<1>4. UNCHANGED <<History, Sound>>
  BY <1>2, <1>3 DEF History, Events, Readable, Whole, Settled, Sound
<1>5. CASE UNCHANGED answer
  <2>1. UNCHANGED Told
    BY <1>5 DEF Told
  <2> QED
    BY <1>4, <2>1, AbstractSteps
<1>6. CASE \E what \in {"refused", "raised", "failed"} : Return(w, what)
  <2>1. UNCHANGED Told
    BY <1>6, Telling
  <2> QED
    BY <1>4, <2>1, AbstractSteps
<1>7. CASE Compare(w) /\ Return(w, "ok")
  <2>1. CASE job[w].call = None
    <3>1. UNCHANGED Told
      BY <1>7, <2>1, Telling
    <3> QED
      BY <1>4, <3>1, AbstractSteps
  <2>2. CASE job[w].call # None
    <3>1. /\ job[w].call \in Call /\ Last > 0 /\ file[Last].call = job[w].call /\ Parses(file)
          /\ lock = w /\ Len(file) \in Nat
      BY <1>1, <1>7, <2>2, Lines DEF Compare, At, JobInv, Locked, Types, Job
    <3>2. ~InProgress
      BY <3>1, <1>2 DEF InProgress, At, IInv, JobInv, Locked
    <3>3. Readable = Len(file)
      BY <1>1, <3>1, <3>2, WhatIsReadable DEF TornLine
    <3>4. job[w].call \in Versioned!Recorded
      BY <1>1, <3>1, <3>3, HistoryLines DEF Last
    <3>5. Told' = Told \cup {job[w].call}
      BY <1>7, <2>2, Telling
    <3> QED
      BY <1>4, <3>1, <3>4, <3>5, AbstractSteps
  <2> QED
    BY <2>1, <2>2
<1> QED
  BY <1>5, <1>6, <1>7 
     DEF Read, Open, Derive, Look, Lock, Begin, Check, OpenLog, CheckTail, Remember, Project,
         Replace, Compare, Fail

\* A line that is cut before its newline damages the log, unless it is not there at all.
LEMMA FailRefines ==
  ASSUME IInv, IInv', NEW w \in Thread, Fail(w), At(w, "sync")
  PROVE  [Versioned!Next]_(Versioned!vars)
<1>1. Types /\ LogInv /\ Types' /\ LogInv' /\ JobInv(w) /\ UNCHANGED file /\ Return(w, "failed")
  BY DEF IInv, Fail
<1>2. UNCHANGED Told
  BY <1>1, Telling
<1>3. InProgress /\ ~InProgress'
  <2>1. job[w].at = "sync" /\ job'[w].at = "idle" /\ \A v \in Thread \ {w} : job'[v] = job[v]
    BY <1>1, Returns, Ends DEF At
  <2> QED
    BY <2>1, OneWriter DEF InProgress, At
<1>4. CASE TornLine
  <2>1. ~TornLine' /\ ~Parses(file) /\ Sound /\ Readable = Len(file) - 1 /\ Len(file) \in Nat
    BY <1>1, <1>3, <1>4, WhatIsReadable, ParsesLines, Lines DEF TornLine, Types
  <2>2. ~Sound' /\ Readable' = Len(file) - 1
    BY <1>1, <2>1, WhatWillBeReadable
  <2>3. History' = History
    BY <1>1, <2>1, <2>2 DEF History, Events
  <2> QED
    BY <1>1, <1>2, <2>1, <2>2, <2>3, HistoryStays, AbstractSteps
<1>5. CASE ~TornLine
  <2>1. ~TornLine'
    BY <1>3 DEF TornLine
  <2>2. Readable' = Readable /\ Sound' = Sound
    BY <1>1, <1>5, <2>1, WhatIsReadable, WhatWillBeReadable DEF Sound, Parses
  <2>3. History' = History
    BY <1>1, <2>2 DEF History, Events
  <2> QED
    BY <1>2, <2>2, <2>3, AbstractSteps
<1> QED
  BY <1>4, <1>5

\* A line whose newline is missing shows as soon as its other bytes are there; what stands
\* before a line without a newline cannot be told from it, and the log is damaged.
LEMMA WriteRefines ==
  ASSUME IInv, IInv', NEW w \in Thread, Write(w)
  PROVE  [Versioned!Next]_(Versioned!vars)
<1>1. Types /\ LogInv /\ Types' /\ LogInv' /\ Len(file) \in Nat /\ file \in Seq(Chunk)
      /\ file' \in Seq(Chunk)
  BY Lines DEF IInv, Types
<1>2. /\ job[w].at = "write" /\ job[w].call \in Call /\ ~Written(job[w].call)
      /\ Parses(file) /\ job[w].asked \in {AnyVersion, Len(file) + 1}
      /\ Len(file') = Len(file) + 1
      /\ file'[Len(file) + 1].call = job[w].call /\ file'[Len(file) + 1].asked = job[w].asked
      /\ \A i \in 1..Len(file) : file'[i] = file[i]
  BY Appended
<1>3. Sound /\ Readable = Len(file)
  BY <1>1, <1>2, OneWriter, WhatIsReadable DEF TornLine
<1>4. UNCHANGED Told
  BY DEF Write, BeginLine, Told
<1>5. History = Events(file', Len(file))
  BY <1>1, <1>2, <1>3, SameEvents DEF History, Same
<1>6. CASE Readable' = Len(file)
  <2>1. History' = History
    BY <1>5, <1>6 DEF History
  <2>2. CASE Sound'
    BY <1>1, <1>3, <1>4, <2>1, <2>2, HistoryStays, AbstractSteps
  <2>3. CASE ~Sound'
    BY <1>1, <1>3, <1>4, <2>1, <2>3, HistoryStays, AbstractSteps
  <2> QED
    BY <2>2, <2>3
<1>7. CASE Readable' # Len(file)
  <2>1. Readable' = Len(file) + 1 /\ Sound'
    BY <1>1, <1>2, <1>7, WhatWillBeReadable
  <2>2. History' = Append(History, [fact |-> job[w].call, asked |-> job[w].asked])
    <3>1. Len(file) + 1 \in 1..Len(file') /\ Len(file) + 1 - 1 = Len(file)
      BY <1>1, <1>2
    <3>2. Events(file', Len(file) + 1) =
             Append(Events(file', Len(file)), [fact |-> job[w].call, asked |-> job[w].asked])
      BY <1>1, <1>2, <3>1, OneMoreEvent
    <3> QED
      BY <1>5, <2>1, <3>2 DEF History
  <2>3. job[w].call \notin Versioned!Recorded /\ Len(History) = Len(file)
    BY <1>1, <1>2, <1>3, HistoryLines DEF Written
  <2>4. Sound' = Sound
    BY <1>3, <2>1 DEF Sound, Parses
  <2> QED
    BY <1>2, <1>3, <1>4, <2>2, <2>3, <2>4, AbstractSteps
<1> QED
  BY <1>6, <1>7

\* The rest of a torn line: with it the event shows.
LEMMA SyncRefines ==
  ASSUME IInv, IInv', NEW w \in Thread, Sync(w)
  PROVE  [Versioned!Next]_(Versioned!vars)
<1>1. Types /\ LogInv /\ Types' /\ LogInv' /\ Len(file) \in Nat /\ file \in Seq(Chunk)
      /\ file' \in Seq(Chunk)
  BY Lines DEF IInv, Types
<1>2. /\ job[w].at = "sync" /\ job[w].call \in Call
      /\ Len(file) \in 1..Len(file) /\ file[Len(file)].call = job[w].call
      /\ Len(file') = Len(file)
      /\ Same(file'[Len(file)], file[Len(file)]) /\ file'[Len(file)].shape = "whole"
      /\ \A i \in 1..Len(file) : i # Len(file) => file'[i] = file[i]
  BY Ended
<1>3. \A i \in 1..Len(file) : Same(file'[i], file[i])
  BY <1>2 DEF Same
<1>4. UNCHANGED Told
  BY DEF Sync, Told
<1>5. ~TornLine'
  BY <1>2 DEF TornLine
<1>6. InProgress
  BY <1>2 DEF InProgress, At
<1>7. ASSUME NEW n \in 0..Len(file) PROVE Events(file', n) = Events(file, n)
  BY <1>1, <1>3, SameEvents
<1>8. CASE TornLine
  <2>1. Sound /\ Readable = Len(file) - 1 /\ Len(file) - 1 \in 0..Len(file)
    BY <1>1, <1>2, <1>8, WhatIsReadable
  <2>2. CASE Parses(file')
    <3>1. Sound' /\ Readable' = Len(file)
      BY <1>1, <1>2, <1>5, <2>2, WhatWillBeReadable
    <3>2. History' = Append(History, [fact |-> job[w].call, asked |-> file[Len(file)].asked])
      <4>1. Events(file, Len(file)) =
               Append(Events(file, Len(file) - 1),
                      [fact |-> job[w].call, asked |-> file[Len(file)].asked])
        BY <1>1, <1>2, OneMoreEvent
      <4>2. History' = Events(file, Len(file))
        BY <1>1, <1>2, <1>7, <3>1 DEF History
      <4> QED
        BY <2>1, <4>1, <4>2 DEF History
    <3>3. Len(History) = Len(file) - 1 /\ job[w].call \notin Versioned!Recorded
          /\ file[Len(file)].asked \in {AnyVersion, Len(file) - 1 + 1}
      <4>1. \A i \in 1..Len(file) - 1 : file[i].call # job[w].call
        BY <1>1, <1>2 DEF LogInv, Links
      <4>2. file[Len(file)].asked \in {AnyVersion, Len(file)}
        BY <1>1, <1>2 DEF LogInv, Links
      <4> QED
        BY <1>1, <2>1, <4>1, <4>2, HistoryLines
    <3>4. Sound' = Sound
      BY <2>1, <3>1 DEF Sound, Parses
    <3> QED
      BY <1>2, <1>4, <2>1, <3>2, <3>3, <3>4, AbstractSteps
  <2>3. CASE ~Parses(file')
    <3>1. ~Sound' /\ Readable' = Len(file) - 1
      BY <1>1, <1>2, <1>5, <2>3, WhatWillBeReadable
    <3>2. History' = History
      BY <1>7, <2>1, <3>1 DEF History
    <3> QED
      BY <1>1, <1>4, <2>1, <3>1, <3>2, HistoryStays, AbstractSteps
  <2> QED
    BY <2>2, <2>3
<1>9. CASE ~TornLine
  <2>1. file[Len(file)].shape # "partial" /\ file[Len(file)].shape \in Shape
    BY <1>1, <1>2, <1>6, <1>9, Lines DEF TornLine
  <2>2. Parses(file) <=> Parses(file')
    BY <1>1, <1>2, <2>1, ParsesLines
  <2>3. Readable' = Readable /\ Sound' = Sound /\ Readable \in 0..Len(file)
    BY <1>1, <1>2, <1>5, <1>9, <2>2, WhatIsReadable, WhatWillBeReadable DEF Sound, Parses
  <2>4. History' = History
    BY <1>7, <2>3 DEF History
  <2> QED
    BY <1>4, <2>3, <2>4, AbstractSteps
<1> QED
  BY <1>8, <1>9

\* The end of the process takes back lines that nobody was told of, or leaves a torn one.
LEMMA StopRefines ==
  ASSUME IInv, IInv', Stop
  PROVE  [Versioned!Next]_(Versioned!vars)
<1>1. Types /\ LogInv /\ Types' /\ LogInv' /\ Len(file) \in Nat /\ file \in Seq(Chunk)
      /\ file' \in Seq(Chunk) /\ synced \in Nat /\ Len(file') \in Nat
  BY Lines, LenProperties DEF IInv, Types
<1>2. /\ Len(file') \in synced..Len(file)
      /\ \A i \in 1..Len(file') :
            \/ file'[i] = file[i]
            \/ /\ i = Len(file) /\ i > synced /\ Len(file') = Len(file)
               /\ Same(file'[i], file[i]) /\ file'[i].shape = "partial"
  BY CutFile DEF IInv
<1>3. \A i \in 1..Len(file') : Same(file'[i], file[i])
  BY <1>2 DEF Same
<1>4. UNCHANGED Told
  <2>1. \A c \in Call : (\E w \in Thread : job[w].call = c) => answer[c] = "none"
    BY EventLogAssumption DEF IInv, JobInv
  <2> QED
    BY <2>1 DEF Stop, Told
<1>5. ~TornLine'
  BY DEF Stop, Free, TornLine, InProgress, At
<1>6. Readable' \in 0..Len(file') /\ Readable \in 0..Len(file)
  BY <1>1, WhatIsReadable, WhatWillBeReadable
<1>7. History' = Events(file, Readable')
  BY <1>1, <1>3, <1>6, SameEvents DEF History
<1>8. Readable' <= Readable /\ (Readable' = Readable \/ synced <= Readable')
  <2>1. CASE Readable = Len(file)
    <3>1. CASE Len(file') < Len(file)
      <4>1. Parses(file)
        BY <1>1, <2>1, WhatIsReadable
      <4>2. Parses(file')
        BY <1>1, <1>2, <3>1, <4>1, ParsesLines
      <4> QED
        BY <1>1, <1>2, <1>5, <2>1, <4>2, WhatWillBeReadable
    <3>2. CASE Len(file') = Len(file)
      <4>1. CASE \E i \in 1..Len(file') : file'[i] # file[i]
        BY <1>1, <1>2, <1>6, <2>1, <4>1, WhatWillBeReadable
      <4>2. CASE \A i \in 1..Len(file') : file'[i] = file[i]
        <5>1. Parses(file')
          BY <1>1, <2>1, <3>2, <4>2, WhatIsReadable, ParsesLines
        <5> QED
          BY <1>1, <1>5, <2>1, <3>2, <5>1, WhatWillBeReadable
      <4> QED
        BY <4>1, <4>2
    <3> QED
      BY <1>1, <1>2, <3>1, <3>2
  <2>2. CASE Readable # Len(file)
    <3>1. Readable = Len(file) - 1 /\ Len(file) > 0 /\ (TornLine \/ ~Parses(file))
      BY <1>1, <2>2, WhatIsReadable
    <3>2. CASE Len(file') < Len(file)
      <4>1. Parses(file')
        <5>1. \A i \in 1..Len(file') : /\ i + 1 < Len(file) => file[i].shape = "whole"
                                       /\ i + 1 = Len(file) => file[i].shape # "partial"
          BY <1>1, <1>2 DEF LogInv, Shapes
        <5>2. \A i \in 1..Len(file') : file'[i] = file[i]
          BY <1>1, <1>2, <3>2
        <5>3. \A i \in 1..Len(file') : /\ i + 1 < Len(file) \/ i + 1 = Len(file)
                                       /\ i # Len(file') => i + 1 < Len(file)
          BY <1>1, <1>2, <3>2
        <5>4. \A i \in 1..Len(file') : /\ file'[i].shape # "partial"
                                       /\ file'[i].shape = "bare" => i = Len(file')
          BY <5>1, <5>2, <5>3
        <5> QED
          BY <1>1, <5>4, ParsesLines
      <4> QED
        BY <1>1, <1>2, <1>5, <3>1, <3>2, <4>1, WhatWillBeReadable
    <3>3. CASE Len(file') = Len(file)
      <4>1. ~Parses(file')
        <5>1. PICK i \in 1..Len(file) : file[i].shape = "partial" \/ (file[i].shape = "bare" /\ i # Len(file))
          BY <1>1, <3>1, ParsesLines DEF TornLine
        <5>2. file'[i] = file[i] \/ file'[i].shape = "partial"
          BY <1>2, <3>3
        <5> QED
          BY <1>1, <3>3, <5>1, <5>2, ParsesLines
      <4> QED
        BY <1>1, <1>5, <3>1, <3>3, <4>1, WhatWillBeReadable
    <3> QED
      BY <1>1, <1>2, <3>2, <3>3
  <2> QED
    BY <2>1, <2>2
<1>9. History' \in Versioned!Kept
  BY <1>1, <1>6, <1>7, <1>8, CutHistory
<1>10. CASE Sound'
  BY <1>4, <1>9, <1>10, AbstractSteps
<1>11. CASE Sound /\ ~Sound'
  BY <1>4, <1>9, <1>11, AbstractSteps
<1>12. CASE ~Sound /\ ~Sound'
  <2>1. Readable = Len(file) - 1 /\ Readable' = Len(file') - 1 /\ ~Parses(file) /\ ~Parses(file')
    BY <1>1, <1>5, <1>12, WhatIsReadable, WhatWillBeReadable
  <2>2. Len(file') = Len(file)
    <3>1. \A i \in 1..Len(file) : /\ i + 1 < Len(file) => file[i].shape = "whole"
                                  /\ i + 1 = Len(file) => file[i].shape # "partial"
      BY <1>1 DEF LogInv, Shapes
    <3>2. CASE Len(file') < Len(file)
      <4>1. \A i \in 1..Len(file') : file'[i] = file[i]
        BY <1>1, <1>2, <3>2
      <4> QED
        BY <1>1, <1>2, <2>1, <3>1, <3>2, <4>1, ParsesLines
    <3> QED
      BY <1>1, <1>2, <3>2
  <2>3. Sound' = Sound
    BY <1>12 DEF Sound, Parses
  <2>4. History' = History
    BY <1>7, <2>1, <2>2 DEF History
  <2> QED
    BY <1>4, <2>3, <2>4, AbstractSteps
<1> QED
  BY <1>10, <1>11, <1>12

LEMMA RefinesStep == IInv /\ IInv' /\ [Next]_vars => [Versioned!Next]_(Versioned!vars)
<1> SUFFICES ASSUME IInv, IInv', [Next]_vars PROVE [Versioned!Next]_(Versioned!vars)
  OBVIOUS
<1>1. CASE UNCHANGED vars
  <2>1. UNCHANGED <<History, Told, Sound>>
    BY <1>1 DEF vars, History, Events, Readable, Whole, Settled, InProgress, At, Told, Sound
  <2> QED
    BY <2>1, AbstractSteps
<1> QED
  BY <1>1, QuietRefines, FailRefines, WriteRefines, SyncRefines, StopRefines DEF Next

\* The files keep the promises of a versioned log, whatever threads interleave, fail or die:
\* every step appends one event at the version its caller asked for, tells of one that is there
\* for good, takes back events nobody was told of, damages the log for good, or shows nothing.
THEOREM KeepsItsPromisesAlways == Spec => KeepsItsPromises
<1>1. Init => Versioned!Init
  <2> SUFFICES ASSUME Init PROVE Versioned!Init
    OBVIOUS
  <2>1. IInv /\ file = <<>> /\ Len(file) = 0
    BY InvInit DEF Init
  <2>2. Sound /\ Readable = 0
    BY <2>1, WhatIsReadable, EmptySeq DEF IInv, TornLine, Parses
  <2>3. Told = {}
    BY DEF Init, Told
  <2>4. History = <<>>
    <3>1. file \in Seq(Chunk) /\ 0 \in 0..Len(file)
      BY <2>1 DEF IInv, Types
    <3>2. Events(file, 0) \in Seq(Event) /\ Len(Events(file, 0)) = 0
      BY <3>1, EventSeq
    <3> QED
      BY <2>2, <3>2, EmptySeq DEF History
  <2> QED
    BY <2>2, <2>3, <2>4 DEF Versioned!Init, History, Events, Sound, Parses
<1> QED
  BY <1>1, RefinesStep, LogInvariance, PTL DEF Spec, KeepsItsPromises, Versioned!Spec
=============================================================================
