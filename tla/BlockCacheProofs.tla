-------------------------- MODULE BlockCacheProofs --------------------------
(***************************************************************************)
(* Theorems about BlockCache for every image, sector size, backend, number *)
(* of threads and set of requests.                                         *)
(***************************************************************************)
EXTENDS BlockCache, FiniteSetTheorems, SequenceTheorems, TLAPS

-----------------------------------------------------------------------------
\* Lemmas about the operators.

LEMMA DivMod ==
  ASSUME NEW a \in Nat, NEW b \in Nat \ {0}
  PROVE  /\ a \div b \in Nat /\ a % b \in 0 .. b - 1
         /\ a = (b * (a \div b)) + (a % b)
<1>1. a \div b \in Nat
  OBVIOUS
<1>2. a % b \in 0 .. b - 1
  OBVIOUS
<1>3. a = (b * (a \div b)) + (a % b)
  OBVIOUS
<1> QED BY <1>1, <1>2, <1>3

LEMMA ConstantTypes ==
  /\ SectorSize \in Nat \ {0} /\ Size \in Nat \ {0} /\ MaxIo \in Nat \ {0}
  /\ Retry \in Nat \ {0} /\ Total \in Nat \ {0} /\ Word \in Nat \ {0}
  /\ Starter \in Threads /\ NoThread \notin Threads
BY CacheAssumption DEF CacheAssumption, Threads

\* A request is clamped to a length inside the image.
LEMMA ClampType ==
  ASSUME NEW r \in Request
  PROVE  /\ Clamp(r) \in Nat
         /\ Clamp(r) > 0 => r.off + Clamp(r) <= Size
BY ConstantTypes DEF Clamp, Request

LEMMA AlignUpType ==
  ASSUME NEW v \in Nat
  PROVE  AlignUp(v) \in Nat
<1>1. (v + SectorSize - 1) % Word \in Nat
  <2>1. v + SectorSize - 1 \in Nat
    BY ConstantTypes
  <2> QED BY <2>1, DivMod, ConstantTypes
<1> DEFINE t == (v + SectorSize - 1) % Word
<1>2. t % SectorSize \in Nat /\ t % SectorSize <= t
  <2> HIDE DEF t
  <2>1. t \in Nat BY <1>1 DEF t
  <2> QED BY <2>1, ConstantTypes
<1> QED BY <1>1, <1>2 DEF AlignUp

\* The conversion from bytes to sectors stays in the naturals, even when the
\* size wraps around.
LEMMA SizeToSectorType ==
  ASSUME NEW off \in Nat, NEW len \in Nat
  PROVE  SizeToSector(off, len) \in [first : Nat, count : Nat]
<1> DEFINE mis == off % SectorSize
           cut == (len + Word - mis) % Word
           up  == IF cut % SectorSize = 0 THEN cut ELSE AlignUp(cut)
<1>1. mis \in 0 .. SectorSize - 1 /\ mis <= off
  BY ConstantTypes
<1>2. SectorSize < Word
  BY CacheAssumption DEF CacheAssumption
<1>3. len + Word - mis \in Nat
  BY <1>1, <1>2, ConstantTypes
<1>4. cut \in Nat
  <2> HIDE DEF mis
  <2> QED BY <1>3, DivMod, ConstantTypes
<1>5. up \in Nat
  <2> HIDE DEF cut
  <2> QED BY <1>4, AlignUpType
<1>6. up \div SectorSize \in Nat
  <2> HIDE DEF up
  <2> QED BY <1>5, DivMod, ConstantTypes
<1>7. (off - mis) \div SectorSize \in Nat
  <2>1. off - mis \in Nat
    <3> HIDE DEF mis
    <3> QED BY <1>1, ConstantTypes
  <2> HIDE DEF mis
  <2> QED BY <2>1, DivMod, ConstantTypes
<1> QED BY <1>6, <1>7 DEF SizeToSector

\* Erasing a node leaves a sequence over the same sectors.
LEMMA EraseType ==
  ASSUME NEW l \in Seq(Sectors), NEW x
  PROVE  Erase(l, x) \in Seq(Sectors)
<1>1. CASE \E i \in 1 .. Len(l) : l[i] = x
  <2> DEFINE i == CHOOSE i \in 1 .. Len(l) : l[i] = x
  <2>1. i \in 1 .. Len(l)
    BY <1>1
  <2> HIDE DEF i
  <2>2. SubSeq(l, 1, i - 1) \in Seq(Sectors) /\ SubSeq(l, i + 1, Len(l)) \in Seq(Sectors)
    BY <2>1, SubSeqProperties, ElementOfSeq, LenProperties
  <2>3. RemoveAt(l, i) \in Seq(Sectors)
    BY <2>2, ConcatProperties DEF RemoveAt
  <2> QED BY <1>1, <2>3 DEF Erase, i
<1>2. CASE ~ \E i \in 1 .. Len(l) : l[i] = x
  BY <1>2 DEF Erase
<1> QED BY <1>1, <1>2

\* Counting cached sectors gives a natural number.
LEMMA CountType ==
  ASSUME NEW S \in SUBSET Sectors
  PROVE  Cardinality(S) \in Nat
<1>1. IsFiniteSet(Sectors)
  BY FS_Interval, ConstantTypes DEF Sectors
<1> QED BY <1>1, FS_Subset, FS_CardinalityType

-----------------------------------------------------------------------------
\* Type correctness.

\* The registers of the locked section stay inside the image.
JobBounds ==
  /\ job.step = "none" <=> owner = NoThread
  /\ job.step \in {"scan", "io", "mark", "touch"} => job.at <= job.stop /\ job.stop <= Total
  /\ job.step \in {"io", "mark", "touch"} => job.pos + job.once <= Total /\ job.once >= 1
  /\ job.step = "io" => job.cnt >= 1 /\ job.once <= MaxIo
  /\ job.step \in {"io", "mark", "touch"} => job.pos + job.cnt = job.at
  /\ job.step \in {"scan", "io", "mark"} => job.touched = 0
  /\ job.step = "touch" => job.touched <= job.once

\* The parts of TypeOK and JobBounds, for the whole state.
TInv == TypeOK /\ JobBounds

LEMMA TInvInit == Init => TInv
<1> SUFFICES ASSUME Init PROVE TInv
  OBVIOUS
<1> USE ConstantTypes
<1>1. cached \subseteq Sectors /\ filled \subseteq Sectors /\ lru \in Seq(Sectors)
  BY DEF Init
<1>2. psi \in [pc : {"idle", "count", "evict", "drop", "erase"}, keep : Nat, have : Int, victim : Sectors]
  BY DEF Init, IdlePsi, Sectors
<1>3. req \in [Threads -> Request]
  BY CacheAssumption DEF Init, NoReq, Request, CacheAssumption
<1>4. job \in [step : Steps, at : Nat, stop : Nat, pos : Nat, cnt : Nat, once : Nat,
               tries : Nat, touched : Nat]
  BY DEF Init, NoJob, Steps
<1>5. /\ owner \in Threads \cup {NoThread}
      /\ rs \in [Threads -> {"idle", "want", "hold", "done"}]
      /\ overlap \in BOOLEAN
  BY DEF Init
<1>8. attempt \in [Threads -> 1 .. Retry] /\ faulted \in [Threads -> BOOLEAN]
  <2>1. 1 \in 1 .. Retry
    OBVIOUS
  <2> QED BY <2>1 DEF Init
<1>7. out \in [Threads -> [ret : Nat \cup {-1}, good : BOOLEAN]]
  <2>1. NoOut \in [ret : Nat \cup {-1}, good : BOOLEAN]
    BY DEF NoOut
  <2> QED BY <2>1 DEF Init
<1>6. JobBounds
  BY DEF Init, NoJob, JobBounds
<1> QED BY <1>1, <1>2, <1>3, <1>4, <1>5, <1>6, <1>7, <1>8 DEF TInv, TypeOK

JobType == [step : Steps, at : Nat, stop : Nat, pos : Nat, cnt : Nat, once : Nat,
            tries : Nat, touched : Nat]

\* The steps of the locked section that only look at the cache.
LEMMA TInvScan ==
  ASSUME TInv, NEW t \in Threads, Scan(t)
  PROVE  TInv'
<1> USE ConstantTypes
<1>1. job \in JobType /\ owner # NoThread /\ owner' = owner
  BY DEF TInv, TypeOK, JobType, Scan
<1>2. CASE job' = [job EXCEPT !.step = "copy"]
  <2>1. job' \in JobType
    BY <1>1, <1>2 DEF JobType, Steps
  <2>2. JobBounds'
    BY <1>1, <1>2 DEF JobBounds, JobType, Steps, TInv
  <2> QED BY <2>1, <2>2 DEF TInv, TypeOK, Scan, memory, JobType
<1>3. ASSUME NEW first \in job.at .. job.stop - 1, NEW past \in job.at + 1 .. job.stop,
             NEW once \in 1 .. MaxIo, NEW from \in 0 .. first,
             first < past, IsRound(from, past - from, once),
             job' = [job EXCEPT !.step = "io", !.at = past, !.tries = 1, !.pos = from,
                                !.cnt = past - from, !.once = once]
      PROVE  TInv'
  <2>1. /\ job.at \in Nat /\ job.stop \in Nat /\ job.at <= job.stop /\ job.stop <= Total
        /\ job.touched = 0
    BY <1>1 DEF JobType, TInv, JobBounds, Scan
  <2>2. first \in Nat /\ past \in Nat /\ from \in Nat /\ once \in Nat /\ past <= Total
    BY <2>1
  <2>7. past - from \in Nat
    BY <2>2, <1>3
  <2>3. from + once <= Total
    BY <2>2, <1>3 DEF IsRound
  <2>4. job' \in JobType
    BY <1>1, <1>3, <2>2, <2>7 DEF JobType, Steps
  <2>5. /\ job'.step = "io" /\ job'.at = past /\ job'.stop = job.stop /\ job'.pos = from
        /\ job'.cnt = past - from /\ job'.once = once /\ job'.touched = job.touched
    BY <1>1, <1>3 DEF JobType
  <2>6. JobBounds'
    BY <1>1, <2>1, <2>2, <2>3, <2>5, <1>3 DEF JobBounds
  <2> QED BY <2>4, <2>6 DEF TInv, TypeOK, Scan, memory, JobType
<1> QED BY <1>2, <1>3 DEF Scan

\* The backend answers, refuses or fails.
LEMMA TInvFetch ==
  ASSUME TInv, NEW t \in Threads, FetchAnswer(t) \/ FetchRefused(t) \/ FetchError(t)
  PROVE  TInv'
<1> USE ConstantTypes
<1>1. /\ job \in JobType /\ owner # NoThread /\ owner' = owner /\ job.step = "io"
      /\ job.pos + job.once <= Total /\ job.once >= 1 /\ job.once \in Nat /\ job.pos \in Nat
      /\ job.at <= job.stop /\ job.stop <= Total /\ job.cnt >= 1 /\ job.pos + job.cnt = job.at
      /\ job.once <= MaxIo /\ job.touched = 0
  BY DEF TInv, TypeOK, JobType, JobBounds, FetchAnswer, FetchRefused, FetchError
<1>2. CASE FetchAnswer(t)
  <2>1. PICK a \in Answers(job.pos, job.once) :
          LET tail == a.rest = "tail"
              n    == Accepted(job.pos, a)
          IN  /\ filled' = filled \cup (job.pos .. job.pos + a.n - 1) \cup (IF tail THEN {Total - 1} ELSE {})
              /\ job' = [job EXCEPT !.step = IF n = 0 THEN "throw" ELSE "mark", !.once = n]
              /\ faulted' = [faulted EXCEPT ![t] = @ \/ (a.n < job.once /\ ~tail)]
    BY <1>2 DEF FetchAnswer
  <2>2. a.n \in 0 .. job.once
    BY <1>1 DEF Answers
  <2> DEFINE n == Accepted(job.pos, a)
  <2>3. n \in 0 .. job.once
    BY <2>2, <1>1 DEF Accepted
  <2>4. job' = [job EXCEPT !.step = IF n = 0 THEN "throw" ELSE "mark", !.once = n]
    BY <2>1
  <2>5. filled' \subseteq Sectors
    <3>1. job.pos .. job.pos + a.n - 1 \subseteq Sectors
      BY <2>2, <1>1 DEF Sectors
    <3>2. Total - 1 \in Sectors
      BY DEF Sectors
    <3> QED BY <2>1, <3>1, <3>2 DEF TInv, TypeOK
  <2>6. faulted' \in [Threads -> BOOLEAN]
    BY <2>1 DEF TInv, TypeOK
  <2> HIDE DEF n
  <2>7. job' \in JobType
    <3>1. n \in Nat
      BY <2>3, <1>1
    <3>2. (IF n = 0 THEN "throw" ELSE "mark") \in Steps
      BY DEF Steps
    <3> QED BY <3>1, <3>2, <2>4, <1>1 DEF JobType
  <2>8. JobBounds'
    BY <2>3, <2>4, <1>1 DEF JobBounds, JobType
  <2> QED BY <2>5, <2>6, <2>7, <2>8, <1>2 DEF TInv, TypeOK, FetchAnswer, JobType
<1>3. CASE FetchRefused(t)
  <2>1. job' \in JobType
    BY <1>1, <1>3 DEF JobType, Steps, FetchRefused
  <2>2. JobBounds'
    BY <1>1, <1>3 DEF JobBounds, JobType, FetchRefused
  <2> QED BY <2>1, <2>2, <1>3 DEF TInv, TypeOK, FetchRefused, memory, JobType
<1>4. CASE FetchError(t)
  <2>1. filled' \subseteq Sectors
    <3>1. PICK k \in 0 .. job.once - 1 : filled' = filled \cup (job.pos .. job.pos + k - 1)
      BY <1>4 DEF FetchError
    <3>2. job.pos .. job.pos + k - 1 \subseteq Sectors
      BY <1>1, <3>1 DEF Sectors
    <3> QED BY <3>1, <3>2 DEF TInv, TypeOK
  <2>2. job' \in JobType
    BY <1>1, <1>4 DEF JobType, Steps, FetchError
  <2>3. JobBounds'
    BY <1>1, <1>4 DEF JobBounds, JobType, FetchError
  <2>4. faulted' \in [Threads -> BOOLEAN]
    BY <1>4 DEF FetchError, TInv, TypeOK
  <2> QED BY <2>1, <2>2, <2>3, <2>4, <1>4 DEF TInv, TypeOK, FetchError, JobType
<1> QED BY <1>2, <1>3, <1>4
\* The fetched run is marked, put in the eviction order, and the round ends.
LEMMA TInvMark ==
  ASSUME TInv, NEW t \in Threads, Mark(t) \/ Touch(t) \/ NextRound(t)
  PROVE  TInv'
<1> USE ConstantTypes
<1>1. /\ job \in JobType /\ owner # NoThread /\ owner' = owner
      /\ job.step \in {"mark", "touch"} /\ job.pos \in Nat /\ job.once \in Nat
      /\ job.at \in Nat /\ job.stop \in Nat /\ job.cnt \in Nat /\ job.pos + job.cnt = job.at
      /\ job.pos + job.once <= Total /\ job.once >= 1
      /\ job.at <= job.stop /\ job.stop <= Total
  BY DEF TInv, TypeOK, JobType, JobBounds, Mark, Touch, NextRound
<1>2. Run \subseteq Sectors
  BY <1>1 DEF Run, Sectors
<1>3. CASE Mark(t)
  <2>1. cached' \subseteq Sectors
    BY <1>2, <1>3 DEF Mark, TInv, TypeOK
  <2>2. job' \in JobType
    BY <1>1, <1>3 DEF JobType, Steps, Mark
  <2>4. job' = [job EXCEPT !.step = "touch"] /\ job.touched = 0
    BY <1>3 DEF Mark, TInv, JobBounds
  <2>3. JobBounds'
    BY <1>1, <2>4 DEF JobBounds, JobType
  <2> QED BY <2>1, <2>2, <2>3, <1>3 DEF TInv, TypeOK, Mark, JobType
<1>4. CASE Touch(t)
  <2>1. job.touched \in Nat /\ job.touched < job.once
    BY <1>1, <1>4 DEF JobType, Touch
  <2>2. job.pos + job.touched \in Sectors
    BY <1>1, <2>1 DEF Sectors
  <2>3. lru' \in Seq(Sectors)
    BY <2>2, <1>4, EraseType, ConcatProperties DEF Touch, TInv, TypeOK
  <2>4. job' \in JobType
    <3>1. job' = [job EXCEPT !.touched = job.touched + 1]
      BY <1>4 DEF Touch
    <3> QED BY <1>1, <3>1, <2>1 DEF JobType
  <2>5. /\ job'.step = "touch" /\ job'.at = job.at /\ job'.stop = job.stop /\ job'.pos = job.pos
        /\ job'.cnt = job.cnt /\ job'.once = job.once /\ job'.touched = job.touched + 1
    BY <1>1, <1>4 DEF JobType, Touch
  <2>6. JobBounds'
    BY <1>1, <2>1, <2>5 DEF JobBounds
  <2> QED BY <2>3, <2>4, <2>6, <1>4 DEF TInv, TypeOK, Touch, JobType
<1>5. CASE NextRound(t)
  <2>1. CASE job' = [job EXCEPT !.step = "scan", !.cnt = 0, !.pos = 0, !.once = 0, !.touched = 0]
    <3>1. job' \in JobType
      BY <1>1, <2>1 DEF JobType, Steps
    <3>2. JobBounds'
      BY <1>1, <1>5, <2>1 DEF JobBounds, JobType, NextRound
    <3> QED BY <3>1, <3>2, <1>5 DEF TInv, TypeOK, NextRound, memory, JobType
  <2>2. ASSUME NEW once \in 1 .. MaxIo, job.cnt - job.once > 0,
               IsRound(job.pos + job.once, job.cnt - job.once, once),
               job' = [job EXCEPT !.step = "io", !.cnt = job.cnt - job.once,
                                  !.pos = job.pos + job.once, !.once = once,
                                  !.tries = 1, !.touched = 0]
        PROVE  TInv'
    <3>1. job.cnt - job.once \in Nat /\ job.pos + job.once \in Nat /\ once \in Nat
      BY <1>1, <2>2
    <3>2. job.pos + job.once + once <= Total
      BY <1>1, <2>2, <3>1 DEF IsRound
    <3>3. job' \in JobType
      BY <1>1, <2>2, <3>1 DEF JobType, Steps
    <3>4. /\ job'.step = "io" /\ job'.at = job.at /\ job'.stop = job.stop
          /\ job'.cnt = job.cnt - job.once /\ job'.pos = job.pos + job.once
          /\ job'.once = once /\ job'.touched = 0
      BY <1>1, <2>2 DEF JobType
    <3>5. JobBounds'
      BY <1>1, <2>2, <3>1, <3>2, <3>4 DEF JobBounds
    <3> QED BY <3>3, <3>5, <1>5 DEF TInv, TypeOK, NextRound, memory, JobType
  <2> QED BY <2>1, <2>2, <1>5 DEF NextRound
<1> QED BY <1>3, <1>4, <1>5
\* The mutex is taken: the request becomes a range of sectors of the image.
LEMMA TInvAcquire ==
  ASSUME TInv, NEW t \in Threads, Acquire(t)
  PROVE  TInv'
<1> USE ConstantTypes
<1> DEFINE c == Clamp(req[t])
           s == SizeToSector(req[t].off, c)
<1>1. req[t] \in Request /\ c \in Nat
  BY ClampType DEF TInv, TypeOK
<1>2. s.first \in Nat /\ s.count \in Nat
  BY <1>1, SizeToSectorType DEF Request
<1>3. job' = IF c = 0 THEN [NoJob EXCEPT !.step = "copy"]
             ELSE IF s.first + s.count > Total THEN [NoJob EXCEPT !.step = "throw"]
             ELSE [NoJob EXCEPT !.step = "scan", !.at = s.first, !.stop = s.first + s.count]
  BY DEF Acquire
<1>4. owner' = t /\ t # NoThread
  BY DEF Acquire
<1> HIDE DEF c, s
<1>5. job' \in JobType
  <2>1. NoJob \in JobType /\ s.first + s.count \in Nat
    BY <1>2 DEF NoJob, JobType, Steps
  <2>2. "copy" \in Steps /\ "throw" \in Steps /\ "scan" \in Steps
    BY DEF Steps
  <2> QED BY <1>2, <1>3, <2>1, <2>2 DEF JobType
<1>6. JobBounds'
  BY <1>2, <1>3, <1>4 DEF JobBounds, NoJob
<1>7. rs' \in [Threads -> {"idle", "want", "hold", "done"}] /\ overlap' \in BOOLEAN
  BY DEF Acquire, TInv, TypeOK
<1> QED BY <1>4, <1>5, <1>6, <1>7 DEF Acquire, TInv, TypeOK, memory, JobType

\* The mutex is released, with an answer or to try again.
LEMMA TInvRelease ==
  ASSUME TInv, NEW t \in Threads, Copy(t) \/ Throw(t)
  PROVE  TInv'
<1> USE ConstantTypes
<1>1. owner' = NoThread /\ job' = NoJob
  BY DEF Copy, Throw
<1>2. job' \in JobType
  BY <1>1 DEF JobType, NoJob, Steps
<1>3. JobBounds'
  BY <1>1 DEF JobBounds, NoJob
<1>4. rs' \in [Threads -> {"idle", "want", "hold", "done"}]
  BY DEF Copy, Throw, TInv, TypeOK
<1>5. attempt' \in [Threads -> 1 .. Retry]
  <2>1. attempt[t] \in 1 .. Retry
    BY DEF TInv, TypeOK
  <2>2. \/ attempt' = attempt
        \/ attempt[t] < Retry /\ attempt' = [attempt EXCEPT ![t] = attempt[t] + 1]
    BY DEF Copy, Throw
  <2>3. attempt[t] < Retry => attempt[t] + 1 \in 1 .. Retry
    BY <2>1
  <2> QED BY <2>2, <2>3 DEF TInv, TypeOK
<1>6. out' \in [Threads -> [ret : Nat \cup {-1}, good : BOOLEAN]]
  <2>1. CASE Copy(t)
    <3> DEFINE o == IF t = Starter THEN NoOut
                    ELSE [ret |-> Clamp(req[t]), good |-> Covered(req[t]) \subseteq filled]
    <3>1. Clamp(req[t]) \in Nat
      BY ClampType DEF TInv, TypeOK
    <3>2. o \in [ret : Nat \cup {-1}, good : BOOLEAN]
      BY <3>1 DEF NoOut
    <3>3. out' = [out EXCEPT ![t] = o]
      BY <2>1 DEF Copy
    <3> HIDE DEF o
    <3> QED BY <3>2, <3>3 DEF TInv, TypeOK
  <2>2. CASE Throw(t)
    <3>1. out' = out \/ out' = [out EXCEPT ![t] = [ret |-> -1, good |-> TRUE]]
      BY <2>2 DEF Throw
    <3>2. [ret |-> -1, good |-> TRUE] \in [ret : Nat \cup {-1}, good : BOOLEAN]
      OBVIOUS
    <3> QED BY <3>1, <3>2 DEF TInv, TypeOK
  <2> QED BY <2>1, <2>2
<1> QED BY <1>1, <1>2, <1>3, <1>4, <1>5, <1>6 DEF Copy, Throw, TInv, TypeOK, memory, JobType

\* A request comes, or its answer is taken.
LEMMA TInvRequest ==
  ASSUME TInv, NEW t \in Threads, Begin(t) \/ End(t)
  PROVE  TInv'
<1> USE ConstantTypes
<1>1. job' = job /\ owner' = owner
  BY DEF Begin, End
<1>2. req' \in [Threads -> Request]
  <2>1. NoReq \in Request
    BY DEF NoReq, Request
  <2>2. \E r \in Request : req' = [req EXCEPT ![t] = r]
    BY <2>1, CacheAssumption DEF CacheAssumption, Begin, End
  <2> QED BY <2>2 DEF TInv, TypeOK
<1>3. rs' \in [Threads -> {"idle", "want", "hold", "done"}]
  <2>1. rs' = [rs EXCEPT ![t] = "want"] \/ rs' = [rs EXCEPT ![t] = "idle"]
    BY DEF Begin, End
  <2> QED BY <2>1 DEF TInv, TypeOK
<1>4. attempt' \in [Threads -> 1 .. Retry] /\ faulted' \in [Threads -> BOOLEAN]
  <2>1. CASE Begin(t)
    BY <2>1 DEF Begin, TInv, TypeOK
  <2>2. CASE End(t)
    <3>1. 1 \in 1 .. Retry
      OBVIOUS
    <3> QED BY <2>2, <3>1 DEF End, TInv, TypeOK
  <2> QED BY <2>1, <2>2
<1>5. out' \in [Threads -> [ret : Nat \cup {-1}, good : BOOLEAN]]
  <2>1. NoOut \in [ret : Nat \cup {-1}, good : BOOLEAN]
    BY DEF NoOut
  <2> QED BY <2>1 DEF Begin, End, TInv, TypeOK
<1>6. JobBounds'
  BY <1>1 DEF JobBounds, TInv
<1> QED BY <1>1, <1>2, <1>3, <1>4, <1>5, <1>6 DEF Begin, End, TInv, TypeOK, memory

\* The memory-pressure thread.
LEMMA TInvPsi ==
  ASSUME TInv, PsiStart \/ Reduce
  PROVE  TInv'
<1> USE ConstantTypes
<1> DEFINE PsiType == [pc : {"idle", "count", "evict", "drop", "erase"}, keep : Nat, have : Int, victim : Sectors]
<1>1. job' = job /\ owner' = owner
  BY DEF PsiStart, Reduce, PsiCount, PsiEvict, PsiDrop, PsiErase, PsiEnd
<1>2. JobBounds'
  BY <1>1 DEF JobBounds, TInv
<1>3. Cardinality(cached) \in Nat /\ psi \in PsiType
  BY CountType DEF TInv, TypeOK
<1>4. CASE PsiStart
  <2>1. Cardinality(cached) \div 2 \in Nat
    BY <1>3
  <2>2. psi' \in PsiType
    BY <2>1, <1>3, <1>4 DEF PsiStart
  <2> QED BY <2>2, <1>2, <1>4 DEF PsiStart, TInv, TypeOK, memory
<1>5. CASE PsiCount
  <2>1. psi' = [psi EXCEPT !.pc = "evict", !.have = Cardinality(cached)]
    BY <1>5 DEF PsiCount
  <2> DEFINE n == Cardinality(cached)
  <2>3. n \in Int /\ psi' = [psi EXCEPT !.pc = "evict", !.have = n]
    BY <1>3, <2>1
  <2> HIDE DEF n
  <2>2. psi' \in PsiType
    BY <1>3, <2>3
  <2> QED BY <2>2, <1>2, <1>5 DEF PsiCount, TInv, TypeOK, memory
<1>6. CASE PsiEvict
  <2>1. Len(lru) \in 1 .. Len(lru) /\ lru[Len(lru)] \in Sectors
    BY <1>6, LenProperties, ElementOfSeq, EmptySeq DEF PsiEvict, TInv, TypeOK
  <2>2. psi' \in PsiType
    BY <1>3, <1>6, <2>1 DEF PsiEvict
  <2>3. cached' \subseteq Sectors
    BY <1>6 DEF PsiEvict, TInv, TypeOK
  <2> QED BY <2>2, <2>3, <1>2, <1>6 DEF PsiEvict, TInv, TypeOK
<1>7. CASE PsiDrop
  <2>1. psi' \in PsiType
    BY <1>3, <1>7 DEF PsiDrop
  <2>2. filled' \subseteq Sectors
    BY <1>7 DEF PsiDrop, TInv, TypeOK
  <2> QED BY <2>1, <2>2, <1>2, <1>7 DEF PsiDrop, TInv, TypeOK
<1>8. CASE PsiErase
  <2>1. psi' \in PsiType
    <3>1. psi' = [psi EXCEPT !.pc = "evict", !.have = psi.have - 1] /\ psi.have - 1 \in Int
      BY <1>3, <1>8 DEF PsiErase
    <3> QED BY <3>1, <1>3
  <2>2. lru' \in Seq(Sectors)
    BY <1>8, EraseType DEF PsiErase, TInv, TypeOK
  <2> QED BY <2>1, <2>2, <1>2, <1>8 DEF PsiErase, TInv, TypeOK
<1>9. CASE PsiEnd
  <2>1. psi' \in PsiType
    BY <1>9 DEF PsiEnd, IdlePsi, Sectors
  <2> QED BY <2>1, <1>2, <1>9 DEF PsiEnd, TInv, TypeOK, memory
<1> QED BY <1>4, <1>5, <1>6, <1>7, <1>8, <1>9 DEF Reduce

LEMMA TInvStep == TInv /\ [Next]_vars => TInv'
<1> SUFFICES ASSUME TInv, [Next]_vars PROVE TInv'
  OBVIOUS
<1>1. ASSUME NEW t \in Threads, Begin(t) \/ Acquire(t) \/ Locked(t) \/ End(t)
      PROVE  TInv'
  BY <1>1, TInvRequest, TInvAcquire, TInvScan, TInvFetch, TInvMark, TInvRelease DEF Locked
<1>2. CASE UNCHANGED vars
  BY <1>2 DEF vars, TInv, TypeOK, JobBounds
<1> QED BY <1>1, <1>2, TInvPsi DEF Next

\* The cache keeps its types: no index leaves the image, whatever the request,
\* the backend's answers and the evictions (cache.cpp:14-128).
THEOREM TypeCorrect == Spec => []TypeOK
<1>1. TInv => TypeOK
  BY DEF TInv
<1> QED BY <1>1, TInvInit, TInvStep, PTL DEF Spec
-----------------------------------------------------------------------------
\* Cached sectors hold the image.

\* While no eviction has overlapped a locked section, the two exclude each
\* other; a run is in memory before it is marked, and a victim's bit is cleared
\* before its memory is dropped.
HeldInv ==
  ~overlap =>
    /\ psi.pc # "idle" => owner = NoThread
    /\ cached \subseteq filled
    /\ job.step = "mark" => Run \subseteq filled
    /\ psi.pc = "drop" => psi.victim \notin cached

LEMMA HeldInit == Init => HeldInv
BY DEF Init, HeldInv, NoJob, IdlePsi

LEMMA HeldLocked ==
  ASSUME TInv, HeldInv, NEW t \in Threads, Locked(t)
  PROVE  HeldInv'
<1> SUFFICES ASSUME ~overlap' PROVE HeldInv'
  BY DEF HeldInv
<1>a. owner = t /\ psi' = psi /\ overlap' = overlap
  BY DEF Locked, Scan, FetchAnswer, FetchRefused, FetchError, Mark, Touch, NextRound, Copy, Throw
<1>1. ~overlap /\ psi' = psi /\ owner = t /\ t # NoThread
  BY <1>a, ConstantTypes
<1>2. /\ psi.pc = "idle" /\ cached \subseteq filled
      /\ job.step = "mark" => Run \subseteq filled
  BY <1>1 DEF HeldInv
<1>3. job \in JobType
  BY DEF TInv, TypeOK, JobType
<1>4. CASE Scan(t)
  <2>1. job'.step # "mark"
    BY <1>3, <1>4 DEF Scan, JobType
  <2> QED BY <2>1, <1>1, <1>2, <1>4 DEF Scan, HeldInv, memory
<1>5. CASE FetchAnswer(t)
  <2>1. PICK a \in Answers(job.pos, job.once) :
          LET tail == a.rest = "tail"
              n    == Accepted(job.pos, a)
          IN  /\ filled' = filled \cup (job.pos .. job.pos + a.n - 1) \cup (IF tail THEN {Total - 1} ELSE {})
              /\ job' = [job EXCEPT !.step = IF n = 0 THEN "throw" ELSE "mark", !.once = n]
              /\ faulted' = [faulted EXCEPT ![t] = @ \/ (a.n < job.once /\ ~tail)]
    BY <1>5 DEF FetchAnswer
  <2>2. job.pos \in Nat
    BY <1>3 DEF JobType
  <2>3. job'.step = "mark" => Run' \subseteq filled'
    <3>1. CASE a.n = 0 /\ job.pos = Total - 1 /\ a.rest = "tail"
      <4>1. job'.pos = Total - 1 /\ job'.once = 1 /\ Total - 1 \in filled'
        BY <2>1, <3>1, <1>3 DEF JobType, Accepted
      <4> QED BY <4>1, ConstantTypes DEF Run
    <3>2. CASE ~(a.n = 0 /\ job.pos = Total - 1 /\ a.rest = "tail") /\ (a.n = 0 \/ a.rest # "none")
      <4>1. job'.step = "throw"
        BY <2>1, <3>2, <1>3 DEF JobType, Accepted
      <4> QED BY <4>1
    <3>3. CASE ~(a.n = 0 \/ a.rest # "none")
      <4>1. job'.pos = job.pos /\ job'.once = a.n
        BY <2>1, <3>3, <1>3 DEF JobType, Accepted
      <4>2. job.pos .. job.pos + a.n - 1 \subseteq filled'
        BY <2>1
      <4> QED BY <4>1, <4>2 DEF Run
    <3> QED BY <3>1, <3>2, <3>3
  <2>4. filled \subseteq filled' /\ cached' = cached
    BY <2>1, <1>5 DEF FetchAnswer
  <2> QED BY <2>3, <2>4, <1>1, <1>2 DEF HeldInv
<1>6. CASE FetchRefused(t)
  <2>1. job'.step # "mark"
    BY <1>3, <1>6 DEF FetchRefused, JobType
  <2> QED BY <2>1, <1>1, <1>2, <1>6 DEF FetchRefused, HeldInv, memory
<1>7. CASE FetchError(t)
  <2>1. job'.step # "mark"
    BY <1>3, <1>7 DEF FetchError, JobType
  <2>2. filled \subseteq filled' /\ cached' = cached
    BY <1>7 DEF FetchError
  <2> QED BY <2>1, <2>2, <1>1, <1>2 DEF HeldInv
<1>8. CASE Mark(t)
  <2>1. cached' = cached \cup Run /\ filled' = filled /\ Run \subseteq filled
    BY <1>2, <1>8 DEF Mark
  <2>2. job'.step # "mark"
    BY <1>3, <1>8 DEF Mark, JobType
  <2> QED BY <2>1, <2>2, <1>1, <1>2 DEF HeldInv
<1>9. CASE Touch(t)
  <2>1. job'.step # "mark"
    BY <1>3, <1>9 DEF Touch, JobType
  <2> QED BY <2>1, <1>1, <1>2, <1>9 DEF Touch, HeldInv
<1>10. CASE NextRound(t)
  <2>1. job'.step # "mark"
    BY <1>3, <1>10 DEF NextRound, JobType
  <2> QED BY <2>1, <1>1, <1>2, <1>10 DEF NextRound, HeldInv, memory
<1>11. CASE Copy(t) \/ Throw(t)
  <2>1. job'.step # "mark"
    BY <1>11 DEF Copy, Throw, NoJob
  <2> QED BY <2>1, <1>1, <1>2, <1>11 DEF Copy, Throw, HeldInv, memory
<1> QED BY <1>4, <1>5, <1>6, <1>7, <1>8, <1>9, <1>10, <1>11 DEF Locked

LEMMA HeldPsi ==
  ASSUME TInv, HeldInv, PsiStart \/ Reduce
  PROVE  HeldInv'
<1> SUFFICES ASSUME ~overlap' PROVE HeldInv'
  BY DEF HeldInv
<1>a. owner' = owner /\ job' = job
  BY DEF PsiStart, Reduce, PsiCount, PsiEvict, PsiDrop, PsiErase, PsiEnd
<1>b. ~overlap
  <2>1. CASE PsiStart
    BY <2>1, Zenon DEF PsiStart
  <2>2. CASE Reduce
    BY <2>2 DEF Reduce, PsiCount, PsiEvict, PsiDrop, PsiErase, PsiEnd
  <2> QED BY <2>1, <2>2
<1>1. ~overlap /\ owner' = owner /\ job' = job /\ Run' = Run
  BY <1>a, <1>b DEF Run
<1>2. /\ psi.pc # "idle" => owner = NoThread
      /\ cached \subseteq filled
      /\ psi.pc = "drop" => psi.victim \notin cached
  BY <1>1 DEF HeldInv
<1>3. owner = NoThread /\ job.step = "none"
  BY <1>1, <1>2 DEF PsiStart, Reduce, PsiCount, PsiEvict, PsiDrop, PsiErase, PsiEnd, TInv, JobBounds
<1>4. psi \in [pc : {"idle", "count", "evict", "drop", "erase"}, keep : Nat, have : Int, victim : Sectors]
  BY DEF TInv, TypeOK
<1>5. cached' \subseteq filled' /\ (psi'.pc = "drop" => psi'.victim \notin cached')
  <2>1. CASE PsiStart \/ PsiCount \/ PsiErase \/ PsiEnd
    <3>1. cached' = cached /\ filled' = filled
      BY <2>1 DEF PsiStart, PsiCount, PsiErase, PsiEnd, memory
    <3>2. psi'.pc # "drop"
      <4>1. CASE PsiStart
        BY <4>1, <1>4 DEF PsiStart
      <4>2. CASE PsiCount
        BY <4>2, <1>4 DEF PsiCount
      <4>3. CASE PsiErase
        BY <4>3, <1>4 DEF PsiErase
      <4>4. CASE PsiEnd
        BY <4>4 DEF PsiEnd, IdlePsi
      <4> QED BY <2>1, <4>1, <4>2, <4>3, <4>4
    <3> QED BY <3>1, <3>2, <1>2
  <2>2. CASE PsiEvict
    <3>1. psi'.victim = lru[Len(lru)]
      BY <2>2, <1>4 DEF PsiEvict
    <3> QED BY <3>1, <2>2, <1>2, <1>3 DEF PsiEvict
  <2>3. CASE PsiDrop
    <3>1. psi'.pc # "drop"
      BY <2>3, <1>4 DEF PsiDrop
    <3> QED BY <3>1, <2>3, <1>2 DEF PsiDrop
  <2> QED BY <2>1, <2>2, <2>3 DEF Reduce
<1> QED BY <1>1, <1>3, <1>5 DEF HeldInv

LEMMA HeldStep == TInv /\ HeldInv /\ [Next]_vars => HeldInv'
<1> SUFFICES ASSUME TInv, HeldInv, [Next]_vars PROVE HeldInv'
  OBVIOUS
<1>1. ASSUME NEW t \in Threads, Begin(t) \/ End(t)
      PROVE  HeldInv'
  BY <1>1 DEF Begin, End, HeldInv, memory, Run
<1>2. ASSUME NEW t \in Threads, Acquire(t)
      PROVE  HeldInv'
  <2> SUFFICES ASSUME ~overlap' PROVE HeldInv'
    BY DEF HeldInv
  <2>1. ~overlap /\ psi.pc = "idle" /\ psi' = psi /\ cached' = cached /\ filled' = filled
    BY <1>2 DEF Acquire, memory
  <2>2. job'.step # "mark"
    BY <1>2 DEF Acquire, NoJob
  <2> QED BY <2>1, <2>2 DEF HeldInv
<1>3. CASE UNCHANGED vars
  BY <1>3 DEF vars, HeldInv, Run
<1> QED BY <1>1, <1>2, <1>3, HeldLocked, HeldPsi DEF Next

\* No bit promises data that memory does not hold, whatever the backend's
\* errors and short answers, as long as no eviction overlapped a locked section.
THEOREM CachedIsHeld == Spec => []MemoryHeld
<1>1. HeldInv => MemoryHeld
  BY DEF HeldInv, MemoryHeld
<1>2. Init => TInv /\ HeldInv
  BY TInvInit, HeldInit
<1>3. TInv /\ HeldInv /\ [Next]_vars => (TInv /\ HeldInv)'
  BY TInvStep, HeldStep
<1> QED BY <1>1, <1>2, <1>3, PTL DEF Spec
-----------------------------------------------------------------------------
\* Reads return the image.

\* An aligned request covers no sector outside the range it is converted to.
LEMMA AlignedRange ==
  ASSUME NEW r \in Request, r.off % SectorSize = 0, Clamp(r) > 0,
         NEW x \in Covered(r)
  PROVE  LET s == SizeToSector(r.off, Clamp(r))
         IN  x \in s.first .. s.first + s.count - 1
<1> USE ConstantTypes
<1> DEFINE S == SectorSize
           c == Clamp(r)
           k == r.off \div S
           up == IF c % S = 0 THEN c ELSE AlignUp(c)
<1>1. r.off \in Nat /\ c \in Nat /\ c > 0 /\ r.off + c <= Size /\ S \in Nat \ {0}
  BY ClampType DEF Request
<1>2. c + S - 1 < Word /\ c < Word /\ c + S - 1 \in Nat
  BY <1>1, CacheAssumption DEF CacheAssumption
<1>3. (c + Word - 0) % Word = c
  <2> HIDE DEF c
  <2> QED BY <1>1, <1>2
<1>4. (c + S - 1) % Word = c + S - 1
  <2> HIDE DEF c, S
  <2> QED BY <1>1, <1>2
<1>5. SizeToSector(r.off, c) = [first |-> r.off \div S, count |-> up \div S]
  <2>1. r.off - 0 = r.off
    BY <1>1
  <2> QED BY <1>3, <2>1 DEF SizeToSector
<1>6. (c - 1) \div S + 1 <= up \div S
  <2>1. CASE c % S = 0
    <3>1. up = c
      BY <2>1
    <3> HIDE DEF up, c, S
    <3>2. (c - 1) \div S < c \div S
      <4>a. c \in Nat /\ c - 1 \in Nat /\ S \in Nat \ {0}
        BY <1>1
      <4>b. c = (S * (c \div S)) + (c % S) /\ c \div S \in Nat
        BY <4>a, DivMod, Zenon
      <4>1. c = S * (c \div S) /\ c \div S \in Nat
        BY <4>a, <4>b, <2>1
      <4>c. c - 1 = (S * ((c - 1) \div S)) + ((c - 1) % S) /\ (c - 1) \div S \in Nat /\ (c - 1) % S \in 0 .. S - 1
        BY <4>a, DivMod, Zenon
      <4>2. c - 1 = (S * ((c - 1) \div S)) + ((c - 1) % S) /\ (c - 1) \div S \in Nat /\ (c - 1) % S \in Nat
        BY <4>c, <4>a
      <4>3. S * ((c - 1) \div S) < S * (c \div S)
        BY <4>1, <4>2, <1>1
      <4> QED BY <4>1, <4>2, <4>3, <1>1
    <3>3. (c - 1) \div S \in Int /\ c \div S \in Int
      BY <1>1
    <3> QED BY <3>1, <3>2, <3>3
  <2>2. CASE c % S # 0
    <3>1. up = (c + S - 1) - ((c + S - 1) % S)
      BY <2>2, <1>4 DEF AlignUp
    <3> HIDE DEF up, c, S
    <3> DEFINE v == c + S - 1
    <3>2. v \in Nat /\ c - 1 \in Nat /\ v = (c - 1) + S
      BY <1>1
    <3>3. v \div S = ((c - 1) \div S) + 1
      BY <3>2, <1>1
    <3>4. up = S * (v \div S)
      <4> HIDE DEF v
      <4>a. v \in Nat /\ S \in Nat \ {0}
        BY <3>2, <1>1
      <4>b. v = (S * (v \div S)) + (v % S) /\ v % S \in 0 .. S - 1 /\ v \div S \in Nat
        BY <4>a, DivMod, Zenon
      <4>1. v = (S * (v \div S)) + (v % S) /\ v % S \in Nat /\ v \div S \in Nat
        BY <4>a, <4>b
      <4>2. S * (v \div S) \in Nat
        BY <4>1, <1>1
      <4>3. up = v - (v % S)
        BY <3>1 DEF v
      <4> QED BY <4>1, <4>2, <4>3
    <3>5. (S * (v \div S)) \div S = v \div S
      <4>1. v \div S \in Nat
        BY <3>2, <1>1, DivMod
      <4> HIDE DEF v
      <4> QED BY <4>1, <1>1
    <3>6. (c - 1) \div S \in Nat
      BY <3>2, <1>1, DivMod
    <3> QED BY <3>3, <3>4, <3>5, <3>6
  <2> QED BY <2>1, <2>2
<1>7. (r.off + c - 1) \div S = k + ((c - 1) \div S)
  <2>a. r.off = (S * k) + (r.off % S) /\ k \in Nat
    BY <1>1, DivMod, Zenon
  <2>1. r.off = S * k /\ k \in Nat
    BY <2>a, <1>1
  <2> HIDE DEF c, S, k
  <2>2. c - 1 \in Nat
    BY <1>1
  <2>3. (S * k + (c - 1)) \div S = k + ((c - 1) \div S)
    BY <2>1, <2>2, <1>1
  <2>4. r.off + c - 1 = S * k + (c - 1)
    BY <2>1, <1>1
  <2> QED BY <2>3, <2>4
<1>8. x \in k .. (r.off + c - 1) \div S
  BY <1>1 DEF Covered
<1>9. k \in Nat /\ (c - 1) \div S \in Nat /\ up \div S \in Nat
  <2>1. up \in Nat
    BY <1>1, AlignUpType
  <2>2. c - 1 \in Nat
    BY <1>1
  <2> HIDE DEF up, c
  <2> QED BY <1>1, <2>1, <2>2, DivMod
<1>10. x \in k .. k + up \div S - 1
  <2> HIDE DEF c, up, k
  <2> QED BY <1>6, <1>7, <1>8, <1>9
<1> HIDE DEF up
<1> QED BY <1>5, <1>10

\* The sectors the locked section is still to fetch or to mark.
Pending ==
  (IF job.step \in {"scan", "io", "mark", "touch"} THEN job.at .. job.stop - 1 ELSE {})
  \cup (IF job.step \in {"io", "mark"} THEN job.pos .. job.pos + job.cnt - 1 ELSE {})
  \cup (IF job.step = "touch" THEN job.pos + job.once .. job.pos + job.cnt - 1 ELSE {})

\* The owner of the mutex is the one thread inside.
OwnerHolds == owner \in Threads => rs[owner] = "hold"

\* Nothing the owner's request covers is forgotten on the way to the copy.
Collects ==
  ~overlap /\ owner \in Threads /\ job.step \in {"scan", "io", "mark", "touch", "copy"}
           /\ req[owner].off % SectorSize = 0
    => Covered(req[owner]) \subseteq cached \cup Pending

ServeInv == TInv /\ HeldInv /\ OwnerHolds /\ Collects /\ ReadsImage

LEMMA ServeInit == Init => ServeInv
<1> SUFFICES ASSUME Init PROVE ServeInv
  OBVIOUS
<1>1. OwnerHolds /\ Collects
  BY ConstantTypes DEF Init, OwnerHolds, Collects
<1>2. ReadsImage
  <2>1. \A t \in Readers : rs[t] # "done"
    BY DEF Init, Threads
  <2> QED BY <2>1 DEF ReadsImage
<1> QED BY <1>1, <1>2, TInvInit, HeldInit DEF ServeInv

\* The mutex changes hands with the state of its thread.
LEMMA OwnerStep ==
  ASSUME TInv, OwnerHolds, Next
  PROVE  OwnerHolds'
<1>1. rs \in [Threads -> {"idle", "want", "hold", "done"}] /\ NoThread \notin Threads
  BY ConstantTypes DEF TInv, TypeOK
<1>2. ASSUME NEW t \in Threads, Begin(t) \/ End(t)
      PROVE  OwnerHolds'
  BY <1>1, <1>2 DEF Begin, End, OwnerHolds
<1>3. ASSUME NEW t \in Threads, Acquire(t)
      PROVE  OwnerHolds'
  BY <1>1, <1>3 DEF Acquire, OwnerHolds
<1>4. ASSUME NEW t \in Threads, Locked(t)
      PROVE  OwnerHolds'
  <2>1. CASE Copy(t) \/ Throw(t)
    BY <1>1, <2>1 DEF Copy, Throw, OwnerHolds
  <2>2. CASE ~(Copy(t) \/ Throw(t))
    <3>1. owner' = owner /\ rs' = rs
      BY <1>4, <2>2 DEF Locked, Scan, FetchAnswer, FetchRefused, FetchError, Mark, Touch, NextRound
    <3> QED BY <3>1 DEF OwnerHolds
  <2> QED BY <2>1, <2>2
<1>5. CASE PsiStart \/ Reduce
  BY <1>5 DEF PsiStart, Reduce, PsiCount, PsiEvict, PsiDrop, PsiErase, PsiEnd, OwnerHolds
<1> QED BY <1>2, <1>3, <1>4, <1>5 DEF Next

\* Taking the mutex sets out for every sector an aligned request covers.
LEMMA CollectsAcquire ==
  ASSUME TInv, HeldInv, NEW t \in Threads, Acquire(t), ~overlap'
  PROVE  Collects'
<1> SUFFICES ASSUME job'.step \in {"scan", "io", "mark", "touch", "copy"}, req[t].off % SectorSize = 0,
                    NEW x \in Covered(req[t])
             PROVE  x \in cached \cup Pending'
  BY DEF Acquire, Collects, memory, Covered, Clamp
<1>1. req[t] \in Request
  BY DEF TInv, TypeOK
<1>a. cached' = cached
  BY DEF Acquire, memory
<1>2. Clamp(req[t]) # 0 /\ Clamp(req[t]) > 0
  BY <1>1, ClampType DEF Covered
<1>b. PICK s : s = SizeToSector(req[t].off, Clamp(req[t]))
  OBVIOUS
<1>3. x \in s.first .. s.first + s.count - 1
  BY <1>1, <1>2, <1>b, AlignedRange
<1>4. job' = [NoJob EXCEPT !.step = "scan", !.at = s.first, !.stop = s.first + s.count]
  BY <1>2, <1>b DEF Acquire, NoJob
<1>5. job'.step = "scan" /\ job'.at = s.first /\ job'.stop = s.first + s.count
  BY <1>4 DEF NoJob
<1>c. s.first \in Nat /\ s.count \in Nat
  BY <1>1, <1>b, ClampType, SizeToSectorType DEF Request
<1>6. x \in job'.at .. job'.stop - 1
  BY <1>3, <1>5, <1>c
<1>7. Pending' = (job'.at .. job'.stop - 1) \cup {} \cup {}
  BY <1>5, Zenon DEF Pending
<1> QED BY <1>6, <1>7

\* Looking for the next run passes over cached sectors only.
LEMMA CollectsScan ==
  ASSUME TInv, Collects, NEW t \in Threads, Scan(t), ~overlap
  PROVE  Collects'
<1>1. job \in JobType /\ owner = t /\ job.step = "scan"
  BY DEF TInv, TypeOK, JobType, Scan
<1> SUFFICES ASSUME req[t].off % SectorSize = 0, NEW x \in Covered(req[t])
             PROVE  x \in cached \cup Pending'
  BY <1>1 DEF Scan, Collects, memory, Covered, Clamp
<1>2. x \in cached \/ x \in job.at .. job.stop - 1
  BY <1>1 DEF Collects, Pending
<1>3. CASE \A i \in job.at .. job.stop - 1 : i \in cached
  BY <1>2, <1>3
<1>4. ASSUME NEW first \in job.at .. job.stop - 1, NEW past \in job.at + 1 .. job.stop,
             NEW once \in 1 .. MaxIo, NEW from \in 0 .. first, first < past, IsRun(first, past),
             job' = [job EXCEPT !.step = "io", !.at = past, !.tries = 1, !.pos = from,
                                !.cnt = past - from, !.once = once]
      PROVE  x \in cached \cup Pending'
  <2>1. /\ job'.step = "io" /\ job'.at = past /\ job'.stop = job.stop
        /\ job'.pos = from /\ job'.cnt = past - from
    BY <1>1, <1>4 DEF JobType
  <2>2. job.at \in Nat /\ job.stop \in Nat /\ first \in Nat /\ past \in Nat /\ from \in Nat
    BY <1>1 DEF JobType
  <2>3. Pending' = (past .. job.stop - 1) \cup (from .. from + (past - from) - 1)
    BY <2>1 DEF Pending
  <2>4. from + (past - from) - 1 = past - 1
    BY <2>2
  <2>5. CASE x \in job.at .. job.stop - 1
    <3>1. x < first \/ x \in from .. past - 1 \/ x \in past .. job.stop - 1
      BY <2>5, <2>2, <1>4
    <3>2. x < first => x \in cached
      BY <2>5, <2>2, <1>4 DEF IsRun
    <3> QED BY <3>1, <3>2, <2>3, <2>4
  <2> QED BY <2>5, <1>2
<1> QED BY <1>3, <1>4 DEF Scan

\* Marking a run and going to the next round keep what is still to come.
LEMMA CollectsFetch ==
  ASSUME TInv, Collects, NEW t \in Threads, ~overlap,
         FetchAnswer(t) \/ FetchRefused(t) \/ FetchError(t) \/ Mark(t) \/ Touch(t) \/ NextRound(t)
  PROVE  Collects'
<1>1. /\ job \in JobType /\ owner = t /\ owner' = t /\ req' = req
      /\ job.step \in {"io", "mark", "touch"}
  BY DEF TInv, TypeOK, JobType, FetchAnswer, FetchRefused, FetchError, Mark, Touch, NextRound
<1> SUFFICES ASSUME req[t].off % SectorSize = 0, NEW x \in Covered(req[t]),
                    job'.step \in {"scan", "io", "mark", "touch", "copy"}
             PROVE  x \in cached' \cup Pending'
  BY <1>1 DEF Collects, Covered, Clamp
<1>2. x \in cached \cup Pending
  BY <1>1 DEF Collects
<1>3. cached \subseteq cached'
  BY DEF FetchAnswer, FetchRefused, FetchError, Mark, Touch, NextRound, memory
<1>4. CASE FetchAnswer(t) \/ FetchRefused(t) \/ FetchError(t)
  <2>1. job.step = "io" /\ job'.at = job.at /\ job'.stop = job.stop /\ job'.pos = job.pos /\ job'.cnt = job.cnt
    BY <1>1, <1>4 DEF JobType, FetchAnswer, FetchRefused, FetchError
  <2>2. job'.step \in {"io", "mark"}
    BY <1>1, <1>4 DEF JobType, FetchAnswer, FetchRefused, FetchError
  <2>3. Pending' = Pending
    BY <2>1, <2>2 DEF Pending
  <2> QED BY <2>3, <1>2, <1>3
<1>5. CASE Mark(t)
  <2>1. /\ job.step = "mark" /\ job'.step = "touch" /\ job'.at = job.at /\ job'.stop = job.stop
        /\ job'.pos = job.pos /\ job'.cnt = job.cnt /\ job'.once = job.once
    BY <1>1, <1>5 DEF JobType, Mark
  <2>2. job.pos .. job.pos + job.once - 1 \subseteq cached'
    BY <1>5 DEF Mark, Run
  <2>3. Pending' = (job.at .. job.stop - 1) \cup (job.pos + job.once .. job.pos + job.cnt - 1)
    BY <2>1 DEF Pending
  <2>4. Pending = (job.at .. job.stop - 1) \cup (job.pos .. job.pos + job.cnt - 1)
    BY <2>1 DEF Pending
  <2>5. job.pos \in Nat /\ job.once \in Nat /\ job.cnt \in Nat
    BY <1>1 DEF JobType
  <2>6. CASE x \in job.pos .. job.pos + job.cnt - 1
    <3>1. x \in job.pos .. job.pos + job.once - 1 \/ x \in job.pos + job.once .. job.pos + job.cnt - 1
      BY <2>5, <2>6
    <3> QED BY <3>1, <2>2, <2>3
  <2> QED BY <2>3, <2>4, <2>6, <1>2, <1>3
<1>6. CASE Touch(t)
  <2>1. /\ job.step = "touch" /\ job'.step = "touch" /\ job'.at = job.at /\ job'.stop = job.stop
        /\ job'.pos = job.pos /\ job'.cnt = job.cnt /\ job'.once = job.once
    BY <1>1, <1>6 DEF JobType, Touch
  <2>2. Pending' = Pending
    BY <2>1 DEF Pending
  <2> QED BY <2>2, <1>2, <1>3
<1>7. CASE NextRound(t)
  <2>1. job.pos \in Nat /\ job.once \in Nat /\ job.cnt \in Nat /\ job.step = "touch"
    BY <1>1, <1>7 DEF JobType, NextRound
  <2>2. Pending = (job.at .. job.stop - 1) \cup (job.pos + job.once .. job.pos + job.cnt - 1)
    BY <2>1 DEF Pending
  <2>3. CASE job.cnt - job.once <= 0 /\ job' = [job EXCEPT !.step = "scan", !.cnt = 0, !.pos = 0,
                                                          !.once = 0, !.touched = 0]
    <3>1. job'.step = "scan" /\ job'.at = job.at /\ job'.stop = job.stop
      BY <1>1, <2>3 DEF JobType
    <3>2. Pending' = job.at .. job.stop - 1
      BY <3>1 DEF Pending
    <3>3. x \notin job.pos + job.once .. job.pos + job.cnt - 1
      BY <2>1, <2>3
    <3> QED BY <3>2, <3>3, <2>2, <1>2, <1>3
  <2>4. ASSUME NEW once \in 1 .. MaxIo,
               job' = [job EXCEPT !.step = "io", !.cnt = job.cnt - job.once, !.pos = job.pos + job.once,
                                  !.once = once, !.tries = 1, !.touched = 0]
        PROVE  x \in cached' \cup Pending'
    <3>1. /\ job'.step = "io" /\ job'.at = job.at /\ job'.stop = job.stop
          /\ job'.pos = job.pos + job.once /\ job'.cnt = job.cnt - job.once
      BY <1>1, <2>4 DEF JobType
    <3>2. Pending' = (job.at .. job.stop - 1)
                     \cup (job.pos + job.once .. job.pos + job.once + (job.cnt - job.once) - 1)
      BY <3>1 DEF Pending
    <3>3. job.pos + job.once + (job.cnt - job.once) - 1 = job.pos + job.cnt - 1
      BY <2>1
    <3> QED BY <3>2, <3>3, <2>2, <1>2, <1>3
  <2> QED BY <1>7, <2>3, <2>4 DEF NextRound
<1> QED BY <1>4, <1>5, <1>6, <1>7

LEMMA CollectsStep ==
  ASSUME TInv, HeldInv, OwnerHolds, Collects, Next
  PROVE  Collects'
<1> SUFFICES ASSUME ~overlap', owner' \in Threads PROVE Collects'
  BY DEF Collects
<1>1. ~overlap
  BY DEF Next, Begin, Acquire, End, Locked, Scan, FetchAnswer, FetchRefused, FetchError, Mark, Touch,
         NextRound, Copy, Throw, PsiStart, Reduce, PsiCount, PsiEvict, PsiDrop, PsiErase, PsiEnd
<1>2. ASSUME NEW t \in Threads, Begin(t) \/ End(t)
      PROVE  Collects'
  <2>1. owner' = owner /\ cached' = cached /\ job' = job /\ rs[t] # "hold"
    BY <1>2 DEF Begin, End, memory
  <2>2. owner # t
    BY <2>1 DEF OwnerHolds
  <2>3. req'[owner] = req[owner]
    BY <1>2, <2>2 DEF Begin, End, TInv, TypeOK
  <2>4. Covered(req[owner])' = Covered(req[owner]) /\ Pending' = Pending
    BY <2>1, <2>3 DEF Covered, Clamp, Pending
  <2> QED BY <2>1, <2>3, <2>4, <1>1 DEF Collects
<1>3. ASSUME NEW t \in Threads, Acquire(t)
      PROVE  Collects'
  BY <1>3, CollectsAcquire
<1>4. ASSUME NEW t \in Threads, Locked(t)
      PROVE  Collects'
  <2>1. CASE Scan(t)
    BY <2>1, <1>1, CollectsScan
  <2>2. CASE FetchAnswer(t) \/ FetchRefused(t) \/ FetchError(t) \/ Mark(t) \/ Touch(t) \/ NextRound(t)
    BY <2>2, <1>1, CollectsFetch
  <2>3. CASE Copy(t) \/ Throw(t)
    BY <2>3, ConstantTypes DEF Copy, Throw
  <2> QED BY <1>4, <2>1, <2>2, <2>3 DEF Locked
<1>5. CASE PsiStart
  <2>1. owner' = owner /\ owner = NoThread
    BY <1>5 DEF PsiStart
  <2> QED BY <2>1, ConstantTypes
<1>6. CASE Reduce
  <2>1. owner' = owner /\ psi.pc # "idle"
    BY <1>6 DEF Reduce, PsiCount, PsiEvict, PsiDrop, PsiErase, PsiEnd
  <2>2. owner = NoThread
    BY <2>1, <1>1 DEF HeldInv
  <2> QED BY <2>1, <2>2, ConstantTypes
<1> QED BY <1>2, <1>3, <1>4, <1>5, <1>6 DEF Next

\* What Copy hands out is in memory.
LEMMA ReadsImageStep ==
  ASSUME TInv, HeldInv, Collects, ReadsImage, Next
  PROVE  ReadsImage'
<1> SUFFICES ASSUME ~overlap', NEW u \in Readers, rs'[u] = "done", req'[u].off % SectorSize = 0
             PROVE  out'[u].good
  BY DEF ReadsImage
<1>1. ~overlap
  BY DEF Next, Begin, Acquire, End, Locked, Scan, FetchAnswer, FetchRefused, FetchError, Mark, Touch,
         NextRound, Copy, Throw, PsiStart, Reduce, PsiCount, PsiEvict, PsiDrop, PsiErase, PsiEnd
<1>2. /\ rs \in [Threads -> {"idle", "want", "hold", "done"}] /\ req \in [Threads -> Request]
      /\ out \in [Threads -> [ret : Nat \cup {-1}, good : BOOLEAN]] /\ u \in Threads /\ u # Starter
  <2>1. u \in Threads /\ u # Starter
    BY CacheAssumption DEF CacheAssumption, Threads
  <2> QED BY <2>1 DEF TInv, TypeOK
<1>3. CASE rs[u] = "done" /\ req'[u] = req[u] /\ out'[u] = out[u]
  BY <1>1, <1>3 DEF ReadsImage
<1>4. ASSUME NEW t \in Threads, Begin(t) \/ Acquire(t) \/ End(t)
      PROVE  out'[u].good
  BY <1>2, <1>3, <1>4 DEF Begin, Acquire, End
<1>5. ASSUME NEW t \in Threads, Copy(t)
      PROVE  out'[u].good
  <2>1. CASE u # t
    BY <1>2, <1>3, <1>5, <2>1 DEF Copy
  <2>2. CASE u = t
    <3>1. out'[u] = [ret |-> Clamp(req[t]), good |-> Covered(req[t]) \subseteq filled]
      BY <1>2, <1>5, <2>2 DEF Copy
    <3>2. Pending = {} /\ owner = t /\ job.step = "copy" /\ req' = req
      BY <1>5 DEF Copy, Pending
    <3>3. Covered(req[t]) \subseteq cached
      BY <1>1, <3>2, <2>2 DEF Collects
    <3>4. cached \subseteq filled
      BY <1>1 DEF HeldInv
    <3>5. out'[u].good = (Covered(req[t]) \subseteq filled)
      BY <3>1
    <3>6. Covered(req[t]) \subseteq filled
      BY <3>3, <3>4
    <3> QED BY <3>5, <3>6
  <2> QED BY <2>1, <2>2
<1>6. ASSUME NEW t \in Threads, Throw(t)
      PROVE  out'[u].good
  BY <1>2, <1>3, <1>6 DEF Throw
<1>7. ASSUME NEW t \in Threads, Locked(t), ~Copy(t), ~Throw(t)
      PROVE  out'[u].good
  BY <1>3, <1>7 DEF Locked, Scan, FetchAnswer, FetchRefused, FetchError, Mark, Touch, NextRound
<1>8. CASE PsiStart \/ Reduce
  BY <1>3, <1>8 DEF PsiStart, Reduce, PsiCount, PsiEvict, PsiDrop, PsiErase, PsiEnd
<1> QED BY <1>4, <1>5, <1>6, <1>7, <1>8 DEF Next

LEMMA ServeStep == ServeInv /\ [Next]_vars => ServeInv'
<1> SUFFICES ASSUME ServeInv, [Next]_vars PROVE ServeInv'
  OBVIOUS
<1>1. TInv' /\ HeldInv'
  BY TInvStep, HeldStep DEF ServeInv
<1>2. CASE Next
  BY <1>1, <1>2, OwnerStep, CollectsStep, ReadsImageStep DEF ServeInv
<1>3. CASE UNCHANGED vars
  <2>1. OwnerHolds' /\ Collects' /\ ReadsImage'
    BY <1>3 DEF vars, ServeInv, OwnerHolds, Collects, ReadsImage, Covered, Clamp, Pending
  <2> QED BY <1>1, <2>1 DEF ServeInv
<1> QED BY <1>2, <1>3

\* A read at a sector boundary that is answered with data is answered with the
\* image's bytes, for every size of the image, of a sector and of a round, every
\* set of requests and every answer of the backend (cached_read_, cache.cpp:89).
THEOREM AlignedReadsAreRight == Spec => []ReadsImage
<1>1. ServeInv => ReadsImage
  BY DEF ServeInv
<1> QED BY <1>1, ServeInit, ServeStep, PTL DEF Spec
-----------------------------------------------------------------------------
\* Reads are served.

\* Multiples of the sector are equal when their quotients are; rounding up goes to
\* the next one.
LEMMA RoundUp ==
  ASSUME NEW v \in Nat, NEW b \in Nat \ {0}, NEW m \in Nat, v <= b * m
  PROVE  LET t == v + b - 1 IN t - (t % b) <= b * m
<1> DEFINE t == v + b - 1
           q == t \div b
           rest == t % b
<1>1. t \in Nat /\ t < (b * m) + b
  <2>1. b * m \in Nat
    OBVIOUS
  <2> QED BY <2>1
<1>2. t = (b * q) + rest /\ q \in Nat /\ rest \in 0 .. b - 1
  <2> HIDE DEF t
  <2> QED BY <1>1, DivMod, Zenon
<1>3. b * q < (b * m) + b /\ t - rest = b * q
  <2> HIDE DEF t, q, rest
  <2>1. b * q \in Nat /\ rest \in Nat /\ b * m \in Nat
    BY <1>2
  <2> QED BY <1>1, <1>2, <2>1
<1>4. q < m + 1
  <2> HIDE DEF q
  <2>1. (b * m) + b = b * (m + 1)
    OBVIOUS
  <2>2. b * q < b * (m + 1)
    BY <1>3, <2>1
  <2>3. q \in Nat /\ m + 1 \in Nat
    BY <1>2
  <2> QED BY <2>2, <2>3
<1>5. b * q <= b * m
  <2> HIDE DEF q
  <2>1. q <= m
    BY <1>2, <1>4
  <2> QED BY <1>2, <2>1
<1> QED BY <1>3, <1>5

\* Where the image ends at a sector boundary, no request is converted to sectors
\* past it, wherever it starts: the size that size_to_sector makes smaller than the
\* misalignment wraps around twice and becomes zero.
LEMMA SectorsFit ==
  ASSUME ~Ragged, NEW r \in Request, Clamp(r) > 0
  PROVE  LET s == SizeToSector(r.off, Clamp(r)) IN s.first + s.count <= Total
<1> DEFINE S == SectorSize
           c == Clamp(r)
           mis == r.off % S
           k == r.off \div S
           cut == (c + Word - mis) % Word
           up == IF cut % S = 0 THEN cut ELSE AlignUp(cut)
<1>1. /\ r.off \in Nat /\ c \in Nat /\ c > 0 /\ r.off + c <= Size /\ S \in Nat \ {0}
      /\ Size \in Nat /\ Word \in Nat /\ Word % S = 0 /\ Size + S < Word /\ Total \in Nat
  BY ClampType, CacheAssumption, ConstantTypes DEF Request, CacheAssumption
<1>2. r.off = (S * k) + mis /\ k \in Nat /\ mis \in 0 .. S - 1
  <2> HIDE DEF S
  <2> QED BY <1>1, DivMod, Zenon
<1>3. Size = S * Total
  <2>1. Size = (S * (Size \div S)) + (Size % S) /\ Size \div S \in Nat
    <3> HIDE DEF S
    <3> QED BY <1>1, DivMod, Zenon
  <2>2. Size % S = 0
    BY DEF Ragged
  <2>3. Size + S - 1 = (S * (Size \div S)) + (S - 1)
    <3> DEFINE q == Size \div S
    <3> HIDE DEF S, q
    <3>1. S * q \in Int
      BY <1>1, <2>1 DEF q
    <3> QED BY <1>1, <2>1, <2>2, <3>1 DEF q
  <2>4. ((S * (Size \div S)) + (S - 1)) \div S = Size \div S
    <3> DEFINE q == Size \div S
    <3> HIDE DEF S, q
    <3>1. q \in Nat
      BY <2>1 DEF q
    <3>2. ((S * q) + (S - 1)) \div S = q
      BY <1>1, <3>1
    <3> QED BY <3>2 DEF q
  <2>5. Total = Size \div S
    BY <2>3, <2>4 DEF Total
  <2> HIDE DEF S
  <2>6. (S * (Size \div S)) + 0 = S * (Size \div S)
    BY <2>1, <1>1
  <2> QED BY <2>1, <2>2, <2>5, <2>6
<1>4. (r.off - mis) \div S = k
  <2> HIDE DEF S, mis, k
  <2>1. r.off - mis = S * k
    BY <1>1, <1>2
  <2>2. (S * k) \div S = k
    BY <1>1, <1>2
  <2> QED BY <2>1, <2>2
<1>5. SizeToSector(r.off, c) = [first |-> k, count |-> up \div S]
  <2> HIDE DEF k
  <2>1. SizeToSector(r.off, c) = [first |-> (r.off - mis) \div S, count |-> up \div S]
    BY DEF SizeToSector
  <2> QED BY <2>1, <1>4
<1>6. k <= Total /\ S * (Total - k) = Size - (S * k) /\ r.off - mis = S * k
  <2> HIDE DEF S, mis, k, c
  <2>1. S * k <= S * Total
    BY <1>1, <1>2, <1>3
  <2>2. k <= Total
    BY <1>1, <1>2, <2>1
  <2>3. S * (Total - k) = (S * Total) - (S * k)
    BY <1>1, <1>2
  <2>4. r.off - mis = S * k
    BY <1>1, <1>2
  <2> QED BY <2>2, <2>3, <2>4, <1>3
<1>7. up \in Nat /\ up <= S * (Total - k)
  <2>1. CASE mis <= c
    <3>1. cut = c - mis
      <4> HIDE DEF c, mis, S
      <4>1. c - mis \in Nat /\ c - mis < Word
        BY <1>1, <1>2, <2>1
      <4>2. c + Word - mis = (c - mis) + Word
        BY <1>1, <1>2
      <4>3. ((c - mis) + Word) % Word = c - mis
        BY <4>1, <1>1
      <4> QED BY <4>2, <4>3
    <3>2. cut \in Nat /\ cut <= S * (Total - k)
      <4> HIDE DEF c, mis, S, k, cut
      <4>1. c - mis \in Nat /\ c - mis <= Size - (r.off - mis)
        BY <1>1, <1>2, <2>1
      <4> QED BY <3>1, <4>1, <1>6
    <3>3. CASE cut % S = 0
      BY <3>2, <3>3
    <3>4. CASE cut % S # 0
      <4>1. up = AlignUp(cut)
        BY <3>4
      <4>2. (cut + S - 1) % Word = cut + S - 1
        <5> HIDE DEF c, mis, S, k, cut
        <5>1. S * k \in Nat
          BY <1>1, <1>2
        <5>2. cut + S - 1 \in Nat /\ cut + S - 1 < Word
          BY <3>2, <1>1, <1>6, <5>1
        <5> QED BY <5>2, <1>1
      <4>3. up = (cut + S - 1) - ((cut + S - 1) % S)
        BY <4>1, <4>2 DEF AlignUp
      <4>4. Total - k \in Nat
        <5> HIDE DEF k
        <5> QED BY <1>1, <1>2, <1>6
      <4>5. (cut + S - 1) - ((cut + S - 1) % S) <= S * (Total - k)
        <5> HIDE DEF cut, S, k
        <5> QED BY <3>2, <4>4, <1>1, RoundUp, Zenon
      <4>6. up \in Nat
        BY <3>2, <4>1, AlignUpType
      <4> QED BY <4>3, <4>5, <4>6
    <3> QED BY <3>3, <3>4
  <2>2. CASE c < mis
    <3>1. cut = Word - (mis - c)
      <4> HIDE DEF c, mis, S
      <4>1. Word - (mis - c) \in Nat /\ Word - (mis - c) < Word
        BY <1>1, <1>2, <2>2
      <4>2. c + Word - mis = Word - (mis - c)
        BY <1>1, <1>2
      <4> QED BY <4>1, <4>2, <1>1
    <3>2. cut % S = S - (mis - c)
      <4>1. Word = (S * (Word \div S)) + 0 /\ Word \div S \in Nat
        <5> HIDE DEF S
        <5>1. Word = (S * (Word \div S)) + (Word % S) /\ Word \div S \in Nat
          BY <1>1, DivMod, Zenon
        <5> QED BY <5>1, <1>1
      <4> DEFINE w == Word \div S
                 d == S - (mis - c)
      <4>2. w \in Nat /\ Word = S * w /\ d \in 1 .. S - 1
        <5>1. d \in 1 .. S - 1
          <6> HIDE DEF c, mis, S
          <6> QED BY <1>1, <1>2, <2>2
        <5> HIDE DEF S
        <5>2. w \in Nat /\ Word = S * w
          BY <4>1, <1>1
        <5> QED BY <5>1, <5>2
      <4>3. w - 1 \in Nat
        <5> HIDE DEF w, S, d
        <5>1. S * w > 0
          BY <1>1, <4>2
        <5> QED BY <1>1, <4>2, <5>1
      <4>4. cut = (S * (w - 1)) + d
        <5>1. Word - (mis - c) = Word - S + d
          <6> HIDE DEF c, mis, S
          <6> QED BY <1>1, <1>2
        <5> HIDE DEF w, S, d, cut
        <5>2. S * (w - 1) = (S * w) - S
          BY <1>1, <4>2
        <5>3. S * w \in Nat
          BY <1>1, <4>2
        <5> QED BY <1>1, <3>1, <4>2, <5>1, <5>2, <5>3
      <4>5. ((S * (w - 1)) + d) % S = d
        <5> HIDE DEF w, S, d
        <5> QED BY <1>1, <4>2, <4>3
      <4> QED BY <4>4, <4>5
    <3>3. (cut + S - 1) % Word = S - 1 - (mis - c)
      <4> HIDE DEF c, mis, S, cut
      <4>1. S - 1 - (mis - c) \in Nat /\ S - 1 - (mis - c) < Word
        BY <1>1, <1>2, <2>2
      <4>2. cut + S - 1 = (S - 1 - (mis - c)) + Word
        BY <1>1, <1>2, <3>1
      <4>3. ((S - 1 - (mis - c)) + Word) % Word = S - 1 - (mis - c)
        BY <4>1, <1>1
      <4> QED BY <4>2, <4>3
    <3>4. AlignUp(cut) = 0
      <4> DEFINE v == S - 1 - (mis - c)
      <4>1. v \in Nat /\ v < S
        <5> HIDE DEF c, mis, S
        <5> QED BY <1>1, <1>2, <2>2
      <4>2. AlignUp(cut) = v - (v % S)
        BY <3>3 DEF AlignUp
      <4>3. v % S = v
        <5> HIDE DEF v, S
        <5> QED BY <4>1, <1>1
      <4> HIDE DEF v
      <4> QED BY <4>1, <4>2, <4>3
    <3>5. cut % S # 0
      <4> HIDE DEF c, mis, S, cut
      <4> QED BY <3>2, <1>1, <1>2, <2>2
    <3>6. up = 0
      BY <3>4, <3>5
    <3>7. S * (Total - k) \in Nat
      <4> HIDE DEF S, k
      <4> QED BY <1>1, <1>2, <1>6
    <3> QED BY <3>6, <3>7
  <2> HIDE DEF c, mis, S
  <2> QED BY <2>1, <2>2, <1>1, <1>2
<1>8. up \div S <= Total - k
  <2> HIDE DEF up, S, k
  <2> DEFINE q == up \div S
  <2>1. up = (S * q) + (up % S) /\ q \in Nat /\ up % S \in 0 .. S - 1
    BY <1>7, <1>1, DivMod, Zenon
  <2> HIDE DEF q
  <2>2. S * q <= S * (Total - k)
    <3>1. S * q \in Nat
      BY <2>1, <1>1
    <3>2. up % S \in Nat
      BY <2>1, <1>1
    <3>3. S * q <= up
      <4> HIDE DEF S
      <4> QED BY <2>1, <3>1, <3>2
    <3>4. S * (Total - k) \in Int
      BY <1>1, <1>2
    <3> QED BY <3>1, <3>3, <3>4, <1>7
  <2>3. q <= Total - k
    BY <2>1, <2>2, <1>1, <1>2, <1>6
  <2> QED BY <2>3 DEF q
<1>9. up \div S \in Nat
  <2> HIDE DEF up, S
  <2> QED BY <1>7, <1>1, DivMod
<1> HIDE DEF up, S, k, c
<1>10. k + (up \div S) <= Total
  BY <1>8, <1>9, <1>2, <1>1
<1> QED BY <1>5, <1>10 DEF c

\* Who throws has seen the backend fail, and who has not is answered in full.
Healthy ==
  /\ job.step = "throw" /\ owner \in Threads => faulted[owner]
  /\ \A t \in Readers : rs[t] = "done" /\ ~faulted[t] => out[t].ret = Clamp(req[t])

HealthyInv == TInv /\ OwnerHolds /\ Healthy

\* An answer that is not accepted fell short.
LEMMA RefusedFellShort ==
  ASSUME ~Ragged, TInv, NEW t \in Threads, FetchAnswer(t), job'.step = "throw"
  PROVE  faulted'[t]
<1>1. job \in JobType /\ job.step = "io" /\ job.once >= 1 /\ faulted \in [Threads -> BOOLEAN]
  BY DEF TInv, TypeOK, JobType, JobBounds, FetchAnswer
<1>2. PICK a \in Answers(job.pos, job.once) :
         /\ job' = [job EXCEPT !.step = IF Accepted(job.pos, a) = 0 THEN "throw" ELSE "mark",
                               !.once = Accepted(job.pos, a)]
         /\ faulted' = [faulted EXCEPT ![t] = @ \/ (a.n < job.once /\ ~(a.rest = "tail"))]
  BY DEF FetchAnswer
<1>3. Accepted(job.pos, a) = 0
  BY <1>1, <1>2 DEF JobType
<1>4. job.once \in Nat /\ job.pos \in Nat
  BY <1>1 DEF JobType
<1>5. a = [n |-> job.once, rest |-> "none"] \/ a \in [n : 0 .. job.once - 1, rest : {"none", "part"}]
  BY DEF Answers
<1>6. a # [n |-> job.once, rest |-> "none"]
  BY <1>1, <1>3, <1>4 DEF Accepted
<1>7. a.n < job.once /\ a.rest # "tail"
  BY <1>4, <1>5, <1>6
<1> QED BY <1>1, <1>2, <1>7

LEMMA HealthyStep == ~Ragged /\ HealthyInv /\ [Next]_vars => HealthyInv'
<1> SUFFICES ASSUME ~Ragged, HealthyInv, [Next]_vars PROVE HealthyInv'
  OBVIOUS
<1>1. TInv'
  BY TInvStep DEF HealthyInv
<1>2. /\ rs \in [Threads -> {"idle", "want", "hold", "done"}] /\ req \in [Threads -> Request]
      /\ out \in [Threads -> [ret : Nat \cup {-1}, good : BOOLEAN]] /\ Readers \subseteq Threads
      /\ faulted \in [Threads -> BOOLEAN] /\ job \in JobType
  BY DEF HealthyInv, TInv, TypeOK, Threads, JobType
<1>3. \A u \in Readers : /\ rs[u] = "done" /\ ~faulted[u] => out[u].ret = Clamp(req[u])
                         /\ faulted[u] \in BOOLEAN
  BY <1>2 DEF HealthyInv, Healthy
<1>4. CASE UNCHANGED vars
  BY <1>1, <1>4 DEF vars, HealthyInv, OwnerHolds, Healthy, Clamp
<1>5. CASE Next
  <2>1. OwnerHolds'
    BY <1>5, OwnerStep DEF HealthyInv
  <2>2. ASSUME NEW t \in Threads, Begin(t) PROVE Healthy'
    <3>1. UNCHANGED <<owner, job, faulted, out>> /\ rs' = [rs EXCEPT ![t] = "want"]
          /\ \A u \in Threads : u # t => req'[u] = req[u]
      BY <1>2, <2>2 DEF Begin
    <3> QED BY <1>2, <1>3, <3>1 DEF Healthy, HealthyInv, Clamp
  <2>3. ASSUME NEW t \in Threads, Acquire(t) PROVE Healthy'
    <3>1. job'.step # "throw"
      <4>1. req[t] \in Request /\ Clamp(req[t]) \in Nat
        BY <1>2, ClampType
      <4>2. CASE Clamp(req[t]) = 0
        BY <2>3, <4>2 DEF Acquire, NoJob
      <4>3. CASE Clamp(req[t]) > 0
        <5> DEFINE s == SizeToSector(req[t].off, Clamp(req[t]))
        <5>1. s.first + s.count <= Total /\ s.first \in Nat /\ s.count \in Nat
          BY <4>1, <4>3, SectorsFit, SizeToSectorType DEF Request
        <5>2. ~(s.first + s.count > Total)
          <6> HIDE DEF s
          <6> QED BY <5>1, ConstantTypes
        <5>3. job' = [NoJob EXCEPT !.step = "scan", !.at = s.first, !.stop = s.first + s.count]
          BY <2>3, <4>3, <5>2 DEF Acquire, NoJob
        <5> HIDE DEF s
        <5> QED BY <5>3 DEF NoJob
      <4> QED BY <4>1, <4>2, <4>3
    <3>2. UNCHANGED <<req, faulted, out>> /\ rs' = [rs EXCEPT ![t] = "hold"]
      BY <2>3 DEF Acquire
    <3> QED BY <1>2, <1>3, <3>1, <3>2 DEF Healthy, Clamp
  <2>4. ASSUME NEW t \in Threads, Scan(t) \/ FetchRefused(t) \/ Mark(t) \/ Touch(t) \/ NextRound(t)
        PROVE  Healthy'
    <3>1. UNCHANGED <<rs, req, faulted, out, owner>>
      BY <2>4 DEF Scan, FetchRefused, Mark, Touch, NextRound
    <3>2. job'.step # "throw"
      BY <1>2, <2>4 DEF Scan, FetchRefused, Mark, Touch, NextRound, JobType
    <3> QED BY <1>3, <3>1, <3>2 DEF Healthy, Clamp
  <2>5. ASSUME NEW t \in Threads, FetchAnswer(t) \/ FetchError(t) PROVE Healthy'
    <3>1. /\ UNCHANGED <<rs, req, out, owner>> /\ owner = t
          /\ \A u \in Threads : u # t => faulted'[u] = faulted[u]
      BY <1>2, <2>5 DEF FetchAnswer, FetchError
    <3>2. rs[t] = "hold"
      BY <3>1 DEF HealthyInv, OwnerHolds
    <3>3. job'.step = "throw" => faulted'[t]
      <4>1. CASE FetchAnswer(t)
        BY <4>1, RefusedFellShort DEF HealthyInv
      <4>2. CASE FetchError(t)
        BY <1>2, <4>2 DEF FetchError
      <4> QED BY <2>5, <4>1, <4>2
    <3> QED BY <1>2, <1>3, <3>1, <3>2, <3>3 DEF Healthy, Clamp
  <2>6. ASSUME NEW t \in Threads, Copy(t) PROVE Healthy'
    <3>1. /\ UNCHANGED <<req, faulted>> /\ job' = NoJob /\ rs' = [rs EXCEPT ![t] = "done"]
          /\ out' = [out EXCEPT ![t] = IF t = Starter THEN NoOut
                               ELSE [ret |-> Clamp(req[t]), good |-> Covered(req[t]) \subseteq filled]]
      BY <2>6 DEF Copy
    <3>2. \A u \in Readers : u # t => rs'[u] = rs[u] /\ out'[u] = out[u]
      BY <1>2, <3>1
    <3>3. t \in Readers => out'[t].ret = Clamp(req[t])
      BY <1>2, <3>1, CacheAssumption DEF CacheAssumption
    <3>4. job'.step # "throw"
      BY <3>1 DEF NoJob
    <3> QED BY <1>3, <3>1, <3>2, <3>3, <3>4 DEF Healthy, Clamp
  <2>7. ASSUME NEW t \in Threads, Throw(t) PROVE Healthy'
    <3>1. UNCHANGED <<req, faulted>> /\ job' = NoJob /\ faulted[t]
      BY <2>7 DEF Throw, HealthyInv, Healthy
    <3>2. \A u \in Readers : u # t => rs'[u] = rs[u] /\ out'[u] = out[u]
      BY <1>2, <2>7 DEF Throw
    <3>3. job'.step # "throw"
      BY <3>1 DEF NoJob
    <3> QED BY <1>3, <3>1, <3>2, <3>3 DEF Healthy, Clamp
  <2>8. ASSUME NEW t \in Threads, End(t) PROVE Healthy'
    <3>1. UNCHANGED <<owner, job>> /\ rs[t] = "done" /\ rs'[t] = "idle"
      BY <1>2, <2>8 DEF End
    <3>2. \A u \in Threads : u # t => /\ rs'[u] = rs[u] /\ out'[u] = out[u]
                                      /\ req'[u] = req[u] /\ faulted'[u] = faulted[u]
      BY <1>2, <2>8 DEF End
    <3>3. owner # t
      BY <3>1 DEF HealthyInv, OwnerHolds
    <3>4. job'.step = "throw" /\ owner' \in Threads => faulted'[owner']
      BY <3>1, <3>2, <3>3 DEF HealthyInv, Healthy
    <3> QED BY <1>2, <1>3, <3>1, <3>2, <3>4 DEF Healthy, Clamp
  <2>9. ASSUME PsiStart \/ Reduce PROVE Healthy'
    <3>1. UNCHANGED <<owner, rs, req, out, job, faulted>>
      BY <2>9 DEF PsiStart, Reduce, PsiCount, PsiEvict, PsiDrop, PsiErase, PsiEnd
    <3>2. job.step = "throw" /\ owner \in Threads => faulted[owner]
      BY DEF HealthyInv, Healthy
    <3> QED BY <1>3, <3>1, <3>2 DEF Healthy, Clamp
  <2>10. Healthy'
    <3>1. ASSUME NEW t \in Threads, Locked(t) PROVE Healthy'
      BY <3>1, <2>4, <2>5, <2>6, <2>7 DEF Locked
    <3>2. ASSUME NEW t \in Threads, Begin(t) \/ Acquire(t) \/ Locked(t) \/ End(t) PROVE Healthy'
      BY <3>1, <3>2, <2>2, <2>3, <2>8
    <3> QED BY <1>5, <3>2, <2>9 DEF Next
  <2> QED BY <1>1, <2>1, <2>10 DEF HealthyInv
<1> QED BY <1>4, <1>5

\* Where the image ends at a sector boundary and the backend answers in full, every
\* read is served in full, wherever it starts and ends, for every size, number of
\* threads and set of requests: no step of the cache refuses it, and size_to_sector's
\* wrap-around asks for no sector past the end.
THEOREM HealthyReadsAreServed == Spec => []HealthyReadsServed
<1>1. CASE Ragged
  BY <1>1, PTL DEF HealthyReadsServed
<1>2. CASE ~Ragged
  <2>1. Init => HealthyInv
    <3> SUFFICES ASSUME Init PROVE HealthyInv
      OBVIOUS
    <3>1. OwnerHolds /\ job.step # "throw"
      BY ConstantTypes DEF Init, OwnerHolds, NoJob
    <3>2. \A t \in Readers : rs[t] # "done"
      BY DEF Init, Threads
    <3> QED BY <3>1, <3>2, TInvInit DEF HealthyInv, Healthy
  <2>2. HealthyInv => HealthyReadsServed
    BY DEF HealthyInv, Healthy, HealthyReadsServed
  <2>3. HealthyInv /\ [Next]_vars => HealthyInv'
    BY <1>2, HealthyStep
  <2> QED BY <2>1, <2>2, <2>3, PTL DEF Spec
<1> QED BY <1>1, <1>2

-----------------------------------------------------------------------------
\* The cache is a disk.

\* Nothing is answered before the thread is done, and then with an error or with the
\* length that the request has inside the image.
Lengths ==
  \A t \in Readers :
    /\ rs[t] = "idle" => req[t] = NoReq
    /\ rs[t] # "done" => out[t] = NoOut
    /\ rs[t] = "done" => out[t].ret \in {-1, Clamp(req[t])}

DiskInv == ServeInv /\ Lengths

LEMMA LengthsStep ==
  ASSUME TInv, OwnerHolds, Lengths, Next
  PROVE  Lengths'
<1>1. /\ rs \in [Threads -> {"idle", "want", "hold", "done"}] /\ req \in [Threads -> Request]
      /\ out \in [Threads -> [ret : Nat \cup {-1}, good : BOOLEAN]] /\ Readers \subseteq Threads
  BY DEF TInv, TypeOK, Threads
<1>2. ASSUME NEW t \in Threads, Begin(t) PROVE Lengths'
  <2>1. /\ UNCHANGED out /\ rs' = [rs EXCEPT ![t] = "want"] /\ rs[t] = "idle"
        /\ \A u \in Threads : u # t => req'[u] = req[u]
    BY <1>1, <1>2 DEF Begin
  <2> QED BY <1>1, <2>1 DEF Lengths, Clamp
<1>3. ASSUME NEW t \in Threads, Acquire(t) PROVE Lengths'
  <2>1. UNCHANGED <<req, out>> /\ rs' = [rs EXCEPT ![t] = "hold"] /\ rs[t] = "want"
    BY <1>3 DEF Acquire
  <2> QED BY <1>1, <2>1 DEF Lengths, Clamp
<1>4. ASSUME NEW t \in Threads, Copy(t) PROVE Lengths'
  <2>1. /\ UNCHANGED req /\ rs' = [rs EXCEPT ![t] = "done"]
        /\ out' = [out EXCEPT ![t] = IF t = Starter THEN NoOut
                             ELSE [ret |-> Clamp(req[t]), good |-> Covered(req[t]) \subseteq filled]]
    BY <1>4 DEF Copy
  <2>2. \A u \in Readers : u # t => rs'[u] = rs[u] /\ out'[u] = out[u]
    BY <1>1, <2>1
  <2>3. t \in Readers => rs'[t] = "done" /\ out'[t].ret = Clamp(req[t])
    BY <1>1, <2>1, CacheAssumption DEF CacheAssumption
  <2> QED BY <2>1, <2>2, <2>3 DEF Lengths, Clamp
<1>5. ASSUME NEW t \in Threads, Throw(t) PROVE Lengths'
  <2>1. rs[t] = "hold" /\ UNCHANGED req
    BY <1>5 DEF Throw, OwnerHolds
  <2>2. \A u \in Readers : u # t => rs'[u] = rs[u] /\ out'[u] = out[u]
    BY <1>1, <1>5 DEF Throw
  <2>3. \/ rs'[t] = "want" /\ out'[t] = out[t]
        \/ rs'[t] = "done" /\ out'[t].ret = -1
    BY <1>1, <1>5 DEF Throw
  <2> QED BY <2>1, <2>2, <2>3 DEF Lengths, Clamp
<1>6. ASSUME NEW t \in Threads, End(t) PROVE Lengths'
  <2>1. rs'[t] = "idle" /\ req'[t] = NoReq /\ out'[t] = NoOut
    BY <1>1, <1>6 DEF End
  <2>2. \A u \in Threads : u # t => rs'[u] = rs[u] /\ out'[u] = out[u] /\ req'[u] = req[u]
    BY <1>1, <1>6 DEF End
  <2> QED BY <1>1, <2>1, <2>2 DEF Lengths, Clamp
<1>7. ASSUME NEW t \in Threads, Locked(t) PROVE Lengths'
  <2>1. CASE Copy(t) \/ Throw(t)
    BY <2>1, <1>4, <1>5
  <2>2. CASE ~(Copy(t) \/ Throw(t))
    <3>1. UNCHANGED <<rs, req, out>>
      BY <1>7, <2>2 DEF Locked, Scan, FetchAnswer, FetchRefused, FetchError, Mark, Touch, NextRound
    <3> QED BY <3>1 DEF Lengths, Clamp
  <2> QED BY <2>1, <2>2
<1>8. ASSUME PsiStart \/ Reduce PROVE Lengths'
  <2>1. UNCHANGED <<rs, req, out>>
    BY <1>8 DEF PsiStart, Reduce, PsiCount, PsiEvict, PsiDrop, PsiErase, PsiEnd
  <2> QED BY <2>1 DEF Lengths, Clamp
<1>9. ASSUME NEW t \in Threads, Begin(t) \/ Acquire(t) \/ Locked(t) \/ End(t) PROVE Lengths'
  BY <1>2, <1>3, <1>6, <1>7, <1>9
<1> QED BY <1>8, <1>9 DEF Next

LEMMA DiskInvAlways == Spec => []DiskInv
<1>1. Init => DiskInv
  <2> SUFFICES ASSUME Init PROVE DiskInv
    OBVIOUS
  <2>1. \A t \in Readers : rs[t] = "idle" /\ req[t] = NoReq /\ out[t] = NoOut
    BY CacheAssumption DEF Init, Threads, CacheAssumption
  <2>2. Lengths
    BY <2>1 DEF Lengths
  <2> QED BY <2>2, ServeInit DEF DiskInv
<1>2. DiskInv /\ [Next]_vars => DiskInv'
  <2>1. ServeInv /\ Lengths /\ Next => Lengths'
    BY LengthsStep DEF ServeInv
  <2>2. Lengths /\ UNCHANGED vars => Lengths'
    BY DEF vars, Lengths, Clamp
  <2> QED BY <2>1, <2>2, ServeStep DEF DiskInv
<1> QED BY <1>1, <1>2, PTL DEF Spec

\* What the disk's client is told of the bytes is always that they are the image's.
LEMMA ToldGood == DiskInv => \A t \in Readers : (Claimed(t) => out[t].good) = TRUE
<1> SUFFICES ASSUME DiskInv, NEW t \in Readers PROVE Claimed(t) => out[t].good
  OBVIOUS
<1>1. CASE rs[t] = "done"
  BY <1>1 DEF DiskInv, ServeInv, ReadsImage, Claimed
<1>2. CASE rs[t] # "done"
  <2>1. out[t] = NoOut
    BY <1>2 DEF DiskInv, Lengths
  <2> QED BY <2>1 DEF NoOut
<1> QED BY <1>1, <1>2

\* The state of the disk, with that made use of.
DiskSt == [t \in Readers |-> IF rs[t] \in {"want", "hold"} THEN "pending" ELSE rs[t]]
DiskAsked == [t \in Readers |-> req[t]]
DiskAns == [t \in Readers |-> [ret |-> out[t].ret, good |-> TRUE]]

ToldAns == [t \in Readers |-> [ret |-> out[t].ret, good |-> Claimed(t) => out[t].good]]

LEMMA AnsIsGood == DiskInv => ToldAns = DiskAns
<1> SUFFICES ASSUME DiskInv PROVE ToldAns = DiskAns
  OBVIOUS
<1>1. \A t \in Readers : [ret |-> out[t].ret, good |-> Claimed(t) => out[t].good]
                         = [ret |-> out[t].ret, good |-> TRUE]
  BY ToldGood, Zenon
<1> QED BY <1>1, Zenon DEF ToldAns, DiskAns

LEMMA AnsIsGoodNext == DiskInv' => ToldAns' = DiskAns'
<1> DEFINE Told == ToldAns = DiskAns
<1>1. DiskInv => Told
  BY AnsIsGood
<1>2. DiskInv' => Told'
  <2> HIDE DEF Told
  <2> QED BY <1>1, PTL
<1> QED BY <1>2

\* A thread inside the mutex answers with an error or the length inside the image,
\* or is still to answer.
LEMMA AnswersAre ==
  ASSUME DiskInv, DiskInv', NEW t \in Readers, rs[t] \in {"want", "hold"},
         UNCHANGED req, \A u \in Readers : u # t => rs'[u] = rs[u] /\ out'[u] = out[u],
         rs'[t] = "done"
  PROVE  Disk!Answer(t)
<1>1. req \in [Threads -> Request] /\ t \in Threads
  BY DEF DiskInv, ServeInv, TInv, TypeOK, Threads
<1>2. DiskSt[t] = "pending" /\ DiskSt' = [DiskSt EXCEPT ![t] = "done"] /\ DiskAsked' = DiskAsked
  BY DEF DiskSt, DiskAsked
<1>3. Disk!Inside(DiskAsked[t]) = Clamp(req[t])
  <2>1. DiskAsked[t] = req[t]
    BY DEF DiskAsked
  <2>2. req[t].off \in Nat /\ req[t].len \in Nat
    BY <1>1 DEF Request
  <2> QED BY <2>1, <2>2, ConstantTypes DEF Disk!Inside, Clamp
<1>4. out'[t].ret \in {-1, Clamp(req[t])}
  BY DEF DiskInv, Lengths, Clamp
<1>5. [ret |-> out'[t].ret, good |-> TRUE] \in {Disk!Error, [ret |-> Disk!Inside(DiskAsked[t]), good |-> TRUE]}
  BY <1>3, <1>4 DEF Disk!Error
<1>6. DiskAns' = [DiskAns EXCEPT ![t] = [ret |-> out'[t].ret, good |-> TRUE]]
  BY DEF DiskAns
<1>7. \E a \in {Disk!Error, [ret |-> Disk!Inside(DiskAsked[t]), good |-> TRUE]} :
        DiskAns' = [DiskAns EXCEPT ![t] = a]
  BY <1>5, <1>6
<1> QED BY <1>2, <1>7, AnsIsGood, AnsIsGoodNext DEF Disk!Answer, ToldAns, DiskSt, DiskAsked, Restrict2Readers

LEMMA DiskStep ==
  ASSUME DiskInv, DiskInv', [Next]_vars PROVE [Disk!DiskNext]_(Disk!diskVars)
<1>1. /\ rs \in [Threads -> {"idle", "want", "hold", "done"}] /\ req \in [Threads -> Request]
      /\ out \in [Threads -> [ret : Nat \cup {-1}, good : BOOLEAN]] /\ Readers \subseteq Threads
  BY DEF DiskInv, ServeInv, TInv, TypeOK, Threads
<1>2. DiskSt' = DiskSt /\ DiskAsked' = DiskAsked /\ DiskAns' = DiskAns => UNCHANGED Disk!diskVars
  BY AnsIsGood, AnsIsGoodNext DEF Disk!diskVars, ToldAns, DiskSt, DiskAsked, Restrict2Readers
<1>3. UNCHANGED <<req, out>> /\ (\A u \in Readers : \/ rs'[u] = rs[u]
                                                   \/ {rs[u], rs'[u]} \subseteq {"want", "hold"})
        => UNCHANGED Disk!diskVars
  BY <1>2 DEF DiskSt, DiskAsked, DiskAns
<1>4. ASSUME NEW t \in Threads, Begin(t) PROVE Disk!Ask(t) /\ t \in Readers
  <2>1. PICK r \in Requests : req' = [req EXCEPT ![t] = r]
    BY <1>4 DEF Begin
  <2>2. t \in Readers /\ rs[t] = "idle" /\ rs' = [rs EXCEPT ![t] = "want"] /\ out' = out
    BY <1>4 DEF Begin
  <2>3. DiskSt[t] = "idle" /\ DiskSt' = [DiskSt EXCEPT ![t] = "pending"]
    BY <1>1, <2>2 DEF DiskSt
  <2>4. DiskAsked' = [DiskAsked EXCEPT ![t] = r]
    BY <1>1, <2>1 DEF DiskAsked
  <2>5. DiskAns' = DiskAns
    BY <2>2 DEF DiskAns
  <2> QED BY <2>2, <2>3, <2>4, <2>5, AnsIsGood, AnsIsGoodNext
          DEF Disk!Ask, ToldAns, DiskSt, DiskAsked, Restrict2Readers
<1>5. ASSUME NEW t \in Threads, End(t) PROVE Disk!Take(t) /\ t \in Readers
  <2>1. /\ t \in Readers /\ rs[t] = "done" /\ rs' = [rs EXCEPT ![t] = "idle"]
        /\ req' = [req EXCEPT ![t] = NoReq] /\ out' = [out EXCEPT ![t] = NoOut]
    BY <1>5 DEF End
  <2>2. DiskSt[t] = "done" /\ DiskSt' = [DiskSt EXCEPT ![t] = "idle"]
    BY <1>1, <2>1 DEF DiskSt
  <2>3. DiskAsked' = [DiskAsked EXCEPT ![t] = Disk!Nothing]
    BY <1>1, <2>1 DEF DiskAsked, Disk!Nothing, NoReq
  <2>4. DiskAns' = [DiskAns EXCEPT ![t] = Disk!Blank]
    BY <1>1, <2>1 DEF DiskAns, Disk!Blank, NoOut
  <2> QED BY <2>1, <2>2, <2>3, <2>4, AnsIsGood, AnsIsGoodNext
          DEF Disk!Take, ToldAns, DiskSt, DiskAsked, Restrict2Readers
<1>6. ASSUME NEW t \in Threads, Acquire(t) PROVE UNCHANGED Disk!diskVars
  BY <1>1, <1>3, <1>6 DEF Acquire
<1>7. ASSUME NEW t \in Threads, Copy(t) \/ Throw(t) PROVE [Disk!DiskNext]_(Disk!diskVars)
  <2>1. /\ rs[t] = "hold" /\ UNCHANGED req
        /\ \A u \in Readers : u # t => rs'[u] = rs[u] /\ out'[u] = out[u]
    BY <1>1, <1>7 DEF Copy, Throw, DiskInv, ServeInv, OwnerHolds
  <2>2. CASE t \notin Readers
    <3>1. DiskSt' = DiskSt /\ DiskAsked' = DiskAsked /\ DiskAns' = DiskAns
      BY <2>1, <2>2 DEF DiskSt, DiskAsked, DiskAns
    <3> QED BY <3>1, <1>2
  <2>3. CASE t \in Readers /\ rs'[t] = "done"
    BY <2>1, <2>3, AnswersAre DEF Disk!DiskNext
  <2>4. CASE t \in Readers /\ rs'[t] # "done"
    <3>1. rs'[t] = "want" /\ out' = out
      BY <1>1, <1>7, <2>4 DEF Copy, Throw
    <3> QED BY <1>3, <2>1, <3>1
  <2> QED BY <2>2, <2>3, <2>4
<1>8. ASSUME NEW t \in Threads, Locked(t), ~(Copy(t) \/ Throw(t)) PROVE UNCHANGED Disk!diskVars
  <2>1. UNCHANGED <<rs, req, out>>
    BY <1>8 DEF Locked, Scan, FetchAnswer, FetchRefused, FetchError, Mark, Touch, NextRound
  <2> QED BY <1>3, <2>1
<1>9. ASSUME PsiStart \/ Reduce \/ UNCHANGED vars PROVE UNCHANGED Disk!diskVars
  <2>1. UNCHANGED <<rs, req, out>>
    BY <1>9 DEF PsiStart, Reduce, PsiCount, PsiEvict, PsiDrop, PsiErase, PsiEnd, vars
  <2> QED BY <1>3, <2>1
<1>10. ASSUME NEW t \in Threads, Begin(t) \/ Acquire(t) \/ Locked(t) \/ End(t)
       PROVE  [Disk!DiskNext]_(Disk!diskVars)
  BY <1>4, <1>5, <1>6, <1>7, <1>8, <1>10 DEF Disk!DiskNext
<1> QED BY <1>9, <1>10 DEF Next

\* A thread of the device cannot tell the cache from the image on a disk: it is
\* answered once, with an error or with the image's bytes, however its read is cut
\* into sectors, runs and rounds, tried again, or served from what another thread
\* fetched, with any number of threads and evictions (cache_backend.cpp:30).
THEOREM CacheImplementsDisk == Spec => ImplementsDisk
<1>1. Init => Disk!DiskInit
  <2> SUFFICES ASSUME Init PROVE Disk!DiskInit
    OBVIOUS
  <2>1. Readers \subseteq Threads /\ Starter \notin Readers
    BY CacheAssumption DEF CacheAssumption, Threads
  <2>2. \A t \in Readers : rs[t] = "idle" /\ req[t] = NoReq /\ out[t] = NoOut
    BY <2>1 DEF Init
  <2>3. \A t \in Readers : [ret |-> out[t].ret, good |-> Claimed(t) => out[t].good] = Disk!Blank
    <3> SUFFICES ASSUME NEW t \in Readers
                 PROVE  [ret |-> out[t].ret, good |-> Claimed(t) => out[t].good] = Disk!Blank
      OBVIOUS
    <3>1. out[t].ret = 0 /\ out[t].good
      BY <2>2 DEF NoOut
    <3>2. (Claimed(t) => out[t].good) = TRUE
      BY <3>1
    <3> QED BY <3>1, <3>2, Zenon DEF Disk!Blank
  <2> QED BY <2>2, <2>3 DEF Disk!DiskInit, Disk!Nothing, Disk!Blank, NoReq, NoOut, Restrict2Readers
<1>2. DiskInv /\ DiskInv' /\ [Next]_vars => [Disk!DiskNext]_(Disk!diskVars)
  BY DiskStep
<1> QED BY <1>1, <1>2, DiskInvAlways, PTL DEF Spec, ImplementsDisk, Disk!DiskSpec
=============================================================================
