----------------------------- MODULE BlockCache -----------------------------
(***************************************************************************)
(* The read cache of a network block device (src/netblk/cache.cpp,         *)
(* cache_lock.cpp, cache_backend.cpp, psi.cpp and the retry loop of        *)
(* netblk.cpp).  The image is cut into sectors; a private anonymous        *)
(* mapping holds the sectors fetched so far, one bit per sector says       *)
(* whether it was fetched, and a list orders the fetched sectors.  Threads *)
(* of the block device read through cached_read under the cache's mutex.   *)
(* The memory-pressure thread evicts half of the cache and takes NO mutex: *)
(* its steps interleave with those of the thread that holds it.            *)
(*                                                                         *)
(* Offsets and lengths of requests are in bytes, memory is tracked by      *)
(* sector: "filled" is the set of sectors whose memory holds the image's   *)
(* data in full.                                                           *)
(***************************************************************************)
EXTENDS Integers, Sequences, FiniteSets, SequencesExt

CONSTANTS Readers,        \* threads of the block device that read
          Starter,        \* the thread that creates the device and prefetches
          NoThread,       \* owner of the free mutex
          SectorSize,     \* bytes of a cache sector
          Size,           \* bytes of the image
          Word,           \* 2^w, w the width of size_t
          MaxIo,          \* max_io_sector: sectors asked from the backend at once
          Retry,          \* netblk_backend::retry
          Requests,       \* the reads the device may be sent, [off, len]
          Prefetch,       \* the read-ahead of the device's start, [off, len]
          PastEnd,        \* what the backend does with a read past the end: refuse (curl.cpp:178), cut
          ShortAnswers,   \* the server may send fewer bytes than asked
          Pressure        \* the memory-pressure thread may run

Threads == Readers \cup {Starter}
Total == (Size + SectorSize - 1) \div SectorSize
Sectors == 0 .. Total - 1
Ragged == Size % SectorSize # 0
Request == [off : Nat, len : Nat]

ASSUME CacheAssumption ==
  /\ SectorSize \in Nat \ {0} /\ Size \in Nat \ {0} /\ MaxIo \in Nat \ {0}
  /\ Retry \in Nat \ {0} /\ Total \in Nat \ {0}
  /\ Word \in Nat /\ Word % SectorSize = 0 /\ Size + SectorSize < Word
  /\ Starter \notin Readers /\ NoThread \notin Threads
  /\ Requests \subseteq Request /\ Prefetch \in Request
  /\ PastEnd \subseteq {"refuse", "cut"} /\ ShortAnswers \in BOOLEAN /\ Pressure \in BOOLEAN

VARIABLES
  cached,   \* is_cached: the sectors whose bit is set
  lru,      \* lru_list, most recently fetched first
  filled,   \* sectors whose memory holds the image's data
  owner,    \* holder of the mutex
  rs,       \* per thread: idle, want (waits for the mutex), hold or done
  req,      \* per thread: the request being served
  attempt,  \* per thread: round of do_read's retry loop around the cache
  out,      \* per thread: bytes returned (-1: error), and whether all are the image's
  job,      \* locals of the thread inside the mutex
  psi,      \* locals of the memory-pressure thread
  overlap,  \* history: an eviction has run at the same time as a locked section
  faulted   \* history, per thread: the backend failed or fell short in this request

vars == <<cached, lru, filled, owner, rs, req, attempt, out, job, psi, overlap, faulted>>

-----------------------------------------------------------------------------
\* Arithmetic of the code.

AlignUp(v) == LET t == (v + SectorSize - 1) % Word IN t - (t % SectorSize)

\* size_to_sector: the start is aligned down and the distance is subtracted
\* from the size (modulo 2^w); then the size is aligned up.
SizeToSector(off, len) ==
  LET mis == off % SectorSize
      cut == (len + Word - mis) % Word
      up  == IF cut % SectorSize = 0 THEN cut ELSE AlignUp(cut)
  IN  [first |-> (off - mis) \div SectorSize, count |-> up \div SectorSize]

\* Mutant: the length is not cut at the end of the image.
ClampStartOnly(r) == IF r.off >= Size THEN 0 ELSE r.len

\* Bytes a request gets: none past the end, the rest of the image at most.
Clamp(r) == IF r.off >= Size THEN 0
            ELSE IF r.off + r.len > Size THEN Size - r.off ELSE r.len

\* cache_sector_: first .. past-1 is the next run of sectors not cached.
IsRun(first, past) ==
  /\ \A i \in job.at .. first - 1 : i \in cached
  /\ \A i \in first .. past - 1 : i \notin cached
  /\ past = job.stop \/ past \in cached

\* force_cache_sector_: the fetch starts earlier while the sector before is
\* not cached and no boundary of MaxIo sectors is crossed.
IsBackward(first, from) ==
  /\ \A q \in from + 1 .. first : q % MaxIo # 0 /\ q - 1 \notin cached
  /\ from % MaxIo = 0 \/ from - 1 \in cached

\* force_cache_sector_: a round asks for at most MaxIo sectors; one that would
\* be shorter grows up to the next cached sector.
IsRound(pos, cnt, once) ==
  \/ cnt >= MaxIo /\ once = MaxIo
  \/ /\ cnt < MaxIo
     /\ once \in cnt .. MaxIo /\ pos + once <= Total
     /\ \A i \in pos + cnt .. pos + once - 1 : i \notin cached
     /\ once = MaxIo \/ pos + once = Total \/ pos + once \in cached

\* Erasing the list node an entry of lru_map points to.
Erase(l, x) ==
  IF \E i \in 1 .. Len(l) : l[i] = x
  THEN RemoveAt(l, CHOOSE i \in 1 .. Len(l) : l[i] = x)
  ELSE l

NoJob == [step |-> "none", at |-> 0, stop |-> 0, pos |-> 0, cnt |-> 0, once |-> 0,
          tries |-> 0, touched |-> 0]
IdlePsi == [pc |-> "idle", keep |-> 0, have |-> 0, victim |-> 0]
NoOut == [ret |-> 0, good |-> TRUE]
NoReq == [off |-> 0, len |-> 0]

Init ==
  /\ cached = {} /\ lru = <<>> /\ filled = {}
  /\ owner = NoThread
  /\ rs = [t \in Threads |-> IF t = Starter THEN "want" ELSE "idle"]
  /\ req = [t \in Threads |-> IF t = Starter THEN Prefetch ELSE NoReq]
  /\ attempt = [t \in Threads |-> 1]
  /\ out = [t \in Threads |-> NoOut]
  /\ job = NoJob /\ psi = IdlePsi
  /\ overlap = FALSE
  /\ faulted = [t \in Threads |-> FALSE]

memory == <<cached, lru, filled>>

-----------------------------------------------------------------------------
\* A thread that reads.

\* A request of the kernel reaches do_read of the cache.
Begin(t) ==
  /\ t \in Readers /\ rs[t] = "idle"
  /\ \E r \in Requests : req' = [req EXCEPT ![t] = r]
  /\ rs' = [rs EXCEPT ![t] = "want"]
  /\ UNCHANGED <<memory, owner, attempt, out, job, psi, overlap, faulted>>

\* cached_read / cache: take the mutex, clamp, convert bytes to sectors.
Acquire(t) ==
  /\ rs[t] = "want" /\ owner = NoThread
  /\ owner' = t
  /\ rs' = [rs EXCEPT ![t] = "hold"]
  /\ overlap' = (overlap \/ psi.pc # "idle")
  /\ LET s == SizeToSector(req[t].off, Clamp(req[t]))
     IN  job' = IF Clamp(req[t]) = 0 THEN [NoJob EXCEPT !.step = "copy"]
                ELSE IF s.first + s.count > Total THEN [NoJob EXCEPT !.step = "throw"]
                ELSE [NoJob EXCEPT !.step = "scan", !.at = s.first, !.stop = s.first + s.count]
  /\ UNCHANGED <<memory, req, attempt, out, psi, faulted>>

\* cache_sector_: look for the next run of sectors that are not cached.
Scan(t) ==
  /\ owner = t /\ job.step = "scan"
  /\ \/ /\ \A i \in job.at .. job.stop - 1 : i \in cached
        /\ job' = [job EXCEPT !.step = "copy"]
     \/ \E first \in job.at .. job.stop - 1, past \in job.at + 1 .. job.stop, once \in 1 .. MaxIo :
          /\ first < past /\ IsRun(first, past)
          /\ \E from \in 0 .. first :
               /\ IsBackward(first, from)
               /\ IsRound(from, past - from, once)
               /\ job' = [job EXCEPT !.step = "io", !.at = past, !.tries = 1, !.pos = from,
                                     !.cnt = past - from, !.once = once]
  /\ UNCHANGED <<memory, owner, rs, req, attempt, out, psi, overlap, faulted>>

\* The answers of the backend to a read of "once" sectors at "pos": whole
\* sectors and what follows them, a part of a sector or the image's short tail.
Answers(pos, once) ==
  LET atEnd == Ragged /\ pos + once = Total
      whole == IF atEnd THEN once - 1 ELSE once
      full  == [n |-> whole, rest |-> IF atEnd THEN "tail" ELSE "none"]
  IN  {full} \cup
      (IF ShortAnswers THEN [n : 0 .. whole - 1, rest : {"none", "part"}]
                            \cup (IF atEnd THEN [n : {whole}, rest : {"none", "part"}] ELSE {})
       ELSE {})

\* What the backend may do with a round: the last sector of an image that ends
\* inside it reaches past the end.
May(pos, once, what) == Ragged /\ pos + once = Total => what \in PastEnd

\* Mutant: a sector of which only a part came counts as fetched.
AcceptedPart(pos, a) == IF a.rest = "part" THEN a.n + 1 ELSE a.n

\* The sectors a round counts as fetched: a length that is not a multiple of the
\* sector is refused, but for the tail alone; none fetched is a failure.
Accepted(pos, a) ==
  IF a.n = 0 /\ pos = Total - 1 /\ a.rest = "tail" THEN 1
  ELSE IF a.n = 0 \/ a.rest # "none" THEN 0 ELSE a.n

\* do_read of the backend returns: the memory is written, and the length is
\* accepted or refused.
FetchAnswer(t) ==
  /\ owner = t /\ job.step = "io" /\ May(job.pos, job.once, "cut")
  /\ \E a \in Answers(job.pos, job.once) :
       LET tail == a.rest = "tail"
           n    == Accepted(job.pos, a)
       IN  /\ filled' = filled \cup (job.pos .. job.pos + a.n - 1) \cup (IF tail THEN {Total - 1} ELSE {})
           /\ job' = [job EXCEPT !.step = IF n = 0 THEN "throw" ELSE "mark", !.once = n]
           /\ faulted' = [faulted EXCEPT ![t] = @ \/ (a.n < job.once /\ ~tail)]
  /\ UNCHANGED <<cached, lru, owner, rs, req, attempt, out, psi, overlap>>

\* curl.cpp:178: a read that reaches past the end returns 0, "read failed".
FetchRefused(t) ==
  /\ owner = t /\ job.step = "io" /\ Ragged /\ job.pos + job.once = Total /\ "refuse" \in PastEnd
  /\ job' = [job EXCEPT !.step = "throw"]
  /\ UNCHANGED <<memory, owner, rs, req, attempt, out, psi, overlap, faulted>>

\* The backend throws after it wrote some sectors; do_read tries again, the
\* last failure becomes an error.
FetchError(t) ==
  /\ owner = t /\ job.step = "io" /\ May(job.pos, job.once, "cut")
  /\ \E k \in 0 .. job.once - 1 : filled' = filled \cup (job.pos .. job.pos + k - 1)
  /\ job' = IF job.tries < Retry THEN [job EXCEPT !.tries = @ + 1] ELSE [job EXCEPT !.step = "throw"]
  /\ faulted' = [faulted EXCEPT ![t] = TRUE]
  /\ UNCHANGED <<cached, lru, owner, rs, req, attempt, out, psi, overlap>>

Run == job.pos .. job.pos + job.once - 1

\* std::fill on the bits.  The bits share a word with those the pressure thread
\* clears: when it has just cleared one, that store may be lost.
Mark(t) ==
  /\ owner = t /\ job.step = "mark"
  /\ \/ cached' = cached \cup Run
     \/ psi.pc = "drop" /\ cached' = cached \cup Run \cup {psi.victim}
  /\ job' = [job EXCEPT !.step = "touch"]
  /\ UNCHANGED <<lru, filled, owner, rs, req, attempt, out, psi, overlap, faulted>>

\* touch_sector_ of the run's next sector: it moves to the front.
Touch(t) ==
  /\ owner = t /\ job.step = "touch" /\ job.touched < job.once
  /\ lru' = <<job.pos + job.touched>> \o Erase(lru, job.pos + job.touched)
  /\ job' = [job EXCEPT !.touched = @ + 1]
  /\ UNCHANGED <<cached, filled, owner, rs, req, attempt, out, psi, overlap, faulted>>

\* The end of a round: the next one, or back to cache_sector_ for the next run.
NextRound(t) ==
  /\ owner = t /\ job.step = "touch" /\ job.touched = job.once
  /\ LET next == job.pos + job.once
         left == job.cnt - job.once
     IN  \/ /\ left <= 0
            /\ job' = [job EXCEPT !.step = "scan", !.cnt = 0, !.pos = 0, !.once = 0, !.touched = 0]
         \/ /\ left > 0
            /\ \E once \in 1 .. MaxIo :
                 /\ IsRound(next, left, once)
                 /\ job' = [job EXCEPT !.step = "io", !.cnt = left, !.pos = next, !.once = once,
                                       !.tries = 1, !.touched = 0]
  /\ UNCHANGED <<memory, owner, rs, req, attempt, out, psi, overlap, faulted>>

\* The sectors under the bytes of a request.
Covered(r) ==
  IF Clamp(r) = 0 THEN {}
  ELSE r.off \div SectorSize .. (r.off + Clamp(r) - 1) \div SectorSize

\* memcpy of the bytes and release of the mutex; prefetch copies nothing.
Copy(t) ==
  /\ owner = t /\ job.step = "copy"
  /\ out' = [out EXCEPT ![t] = IF t = Starter THEN NoOut
                               ELSE [ret |-> Clamp(req[t]), good |-> Covered(req[t]) \subseteq filled]]
  /\ rs' = [rs EXCEPT ![t] = "done"]
  /\ owner' = NoThread /\ job' = NoJob
  /\ UNCHANGED <<memory, req, attempt, psi, overlap, faulted>>

\* Mutant: the retry loop around the cache does not count its rounds.
ThrowAgain(t) ==
  /\ owner = t /\ job.step = "throw"
  /\ owner' = NoThread /\ job' = NoJob
  /\ rs' = [rs EXCEPT ![t] = "want"]
  /\ UNCHANGED <<memory, req, attempt, out, psi, overlap, faulted>>

\* An exception leaves the locked section.  do_read of the cache tries the whole
\* read again; prefetch, which is not called through do_read, does not.
Throw(t) ==
  /\ owner = t /\ job.step = "throw"
  /\ owner' = NoThread /\ job' = NoJob
  /\ IF t # Starter /\ attempt[t] < Retry
     THEN /\ attempt' = [attempt EXCEPT ![t] = @ + 1]
          /\ rs' = [rs EXCEPT ![t] = "want"]
          /\ UNCHANGED out
     ELSE /\ out' = [out EXCEPT ![t] = [ret |-> -1, good |-> TRUE]]
          /\ rs' = [rs EXCEPT ![t] = "done"]
          /\ UNCHANGED attempt
  /\ UNCHANGED <<memory, req, psi, overlap, faulted>>

\* The device has its answer; the thread waits for the next request.
End(t) ==
  /\ t \in Readers /\ rs[t] = "done"
  /\ rs' = [rs EXCEPT ![t] = "idle"]
  /\ req' = [req EXCEPT ![t] = NoReq]
  /\ attempt' = [attempt EXCEPT ![t] = 1]
  /\ out' = [out EXCEPT ![t] = NoOut]
  /\ faulted' = [faulted EXCEPT ![t] = FALSE]
  /\ UNCHANGED <<memory, owner, job, psi, overlap>>

-----------------------------------------------------------------------------
\* The memory-pressure thread: reduce_half, without the mutex.

\* on_low: half of the sectors cached now may stay.
PsiStart ==
  /\ Pressure /\ psi.pc = "idle"
  /\ psi' = [psi EXCEPT !.pc = "count", !.keep = Cardinality(cached) \div 2]
  /\ overlap' = (overlap \/ owner # NoThread)
  /\ UNCHANGED <<memory, owner, rs, req, attempt, out, job, faulted>>

\* reduce_sector_ counts again.
PsiCount ==
  /\ psi.pc = "count"
  /\ psi' = [psi EXCEPT !.pc = "evict", !.have = Cardinality(cached)]
  /\ UNCHANGED <<memory, owner, rs, req, attempt, out, job, overlap, faulted>>

\* Mutant: the bit of the victim stays set.
PsiEvictKeepsBit ==
  /\ psi.pc = "evict" /\ psi.have > psi.keep /\ lru # <<>>
  /\ psi' = [psi EXCEPT !.pc = "drop", !.victim = lru[Len(lru)]]
  /\ UNCHANGED <<memory, owner, rs, req, attempt, out, job, overlap, faulted>>

\* The oldest sector is the victim: its bit is cleared.  When the bits of a
\* fetched run were just set in the same word, that store may be lost.
PsiEvict ==
  /\ psi.pc = "evict" /\ psi.have > psi.keep /\ lru # <<>>
  /\ LET v == lru[Len(lru)]
     IN  /\ psi' = [psi EXCEPT !.pc = "drop", !.victim = v]
         /\ \/ cached' = cached \ {v}
            \/ job.step = "touch" /\ cached' = cached \ ({v} \cup Run)
  /\ UNCHANGED <<lru, filled, owner, rs, req, attempt, out, job, overlap, faulted>>

\* madvise(MADV_DONTNEED): the sector's memory reads as zeros.
PsiDrop ==
  /\ psi.pc = "drop"
  /\ filled' = filled \ {psi.victim}
  /\ psi' = [psi EXCEPT !.pc = "erase"]
  /\ UNCHANGED <<cached, lru, owner, rs, req, attempt, out, job, overlap, faulted>>

\* The victim leaves lru_list and lru_map.
PsiErase ==
  /\ psi.pc = "erase"
  /\ lru' = Erase(lru, psi.victim)
  /\ psi' = [psi EXCEPT !.pc = "evict", !.have = @ - 1]
  /\ UNCHANGED <<cached, filled, owner, rs, req, attempt, out, job, overlap, faulted>>

PsiEnd ==
  /\ psi.pc = "evict" /\ ~(psi.have > psi.keep /\ lru # <<>>)
  /\ psi' = IdlePsi
  /\ UNCHANGED <<memory, owner, rs, req, attempt, out, job, overlap, faulted>>

Locked(t) == \/ Scan(t) \/ FetchAnswer(t) \/ FetchRefused(t) \/ FetchError(t)
             \/ Mark(t) \/ Touch(t) \/ NextRound(t) \/ Copy(t) \/ Throw(t)
Reduce == PsiCount \/ PsiEvict \/ PsiDrop \/ PsiErase \/ PsiEnd

Next ==
  \/ \E t \in Threads : Begin(t) \/ Acquire(t) \/ Locked(t) \/ End(t)
  \/ PsiStart \/ Reduce

Spec == Init /\ [][Next]_vars

\* A thread that holds the mutex goes on (every transfer ends: CURLOPT_TIMEOUT is
\* 30 s), every thread that waits for the mutex gets it some day, and so does the
\* eviction end.  Requests and memory pressure need never come.
Fairness ==
  /\ \A t \in Threads : WF_vars(Locked(t)) /\ SF_vars(Acquire(t))
  /\ WF_vars(Reduce)

FairSpec == Spec /\ Fairness
-----------------------------------------------------------------------------
\* What must hold.

Steps == {"none", "scan", "io", "mark", "touch", "copy", "throw"}

TypeOK ==
  /\ cached \subseteq Sectors /\ filled \subseteq Sectors
  /\ lru \in Seq(Sectors)
  /\ owner \in Threads \cup {NoThread}
  /\ rs \in [Threads -> {"idle", "want", "hold", "done"}]
  /\ req \in [Threads -> Request]
  /\ attempt \in [Threads -> 1 .. Retry]
  /\ out \in [Threads -> [ret : Nat \cup {-1}, good : BOOLEAN]]
  /\ job \in [step : Steps, at : Nat, stop : Nat, pos : Nat, cnt : Nat, once : Nat,
             tries : Nat, touched : Nat]
  /\ psi \in [pc : {"idle", "count", "evict", "drop", "erase"}, keep : Nat, have : Int, victim : Sectors]
  /\ overlap \in BOOLEAN
  /\ faulted \in [Threads -> BOOLEAN]

\* The image a reader gets is the image of the server: a sector marked as
\* cached has its data in memory, as long as no eviction has run at the same
\* time as a locked section (cache.cpp:32 sets the bits, :119-120 drop them).
MemoryHeld == ~overlap => cached \subseteq filled

\* A read at a sector boundary that succeeds returns the bytes of the image,
\* whatever was evicted before it (cached_read_, cache.cpp:89).
ReadsImage ==
  ~overlap => \A t \in Readers : rs[t] = "done" /\ req[t].off % SectorSize = 0 => out[t].good

\* When the backend answers in full, every read of an image that ends at a
\* sector boundary is served in full: no step of the cache refuses it.
HealthyReadsServed ==
  ~Ragged => \A t \in Readers : rs[t] = "done" /\ ~faulted[t] => out[t].ret = Clamp(req[t])

\* Every read is answered, with data or an error: rounds make progress,
\* retries are bounded and evictions cannot keep a reader busy for ever.
ReadsAnswered == \A t \in Threads : rs[t] = "want" ~> rs[t] = "done"

\* The mutex, the fetching and the retries hide behind "pending".
Restrict2Readers(f) == [t \in Readers |-> f[t]]
Claimed(t) == ~overlap /\ req[t].off % SectorSize = 0
Disk == INSTANCE NetblkDisk WITH
          Clients <- Readers, Extent <- Size, Asked <- Requests,
          st <- [t \in Readers |-> IF rs[t] \in {"want", "hold"} THEN "pending" ELSE rs[t]],
          asked <- Restrict2Readers(req),
          ans <- [t \in Readers |-> [ret |-> out[t].ret, good |-> Claimed(t) => out[t].good]]

\* The cache is a disk: a caller cannot tell it from the image, but for the bytes
\* of a read that starts inside a sector or that an eviction ran beside
\* (cache_backend.cpp:30).
ImplementsDisk == Disk!DiskSpec
=============================================================================
