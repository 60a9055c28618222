--------------------------- MODULE DevicesProofs ---------------------------
(***************************************************************************)
(* The two devices of the server, with any number of tags and readers.  A  *)
(* tag of the userspace block device is always in one place, and what a    *)
(* commit is to answer stays in its buffer until the kernel has it: it     *)
(* implements a disk.  The loop device on the file of the FUSE device has  *)
(* a backend for as long as it is on it.                                   *)
(***************************************************************************)
EXTENDS MCDevices, TLAPS

Completions == [tag : Tags, res : {"ok", "abort"}]
Commands == [tag : Tags, op : {"fetch", "commit"}]
Answers == [ok : BOOLEAN, good : BOOLEAN]

Types ==
  /\ kst \in [Tags -> {"idle", "sent", "done"}]
  /\ kkind \in [Tags -> Kinds \cup {"other"}]
  /\ kans \in [Tags -> Answers]
  /\ armed \subseteq Tags
  /\ cq \in Seq(Completions) /\ sq \subseteq Commands
  /\ result \in [Tags -> {"ok", "err"}] /\ buf \in [Tags -> BOOLEAN]

\* The kernel holds a command of a tag, or the server has its completion, or a
\* command for it: never two of them.
Seen ==
  /\ \A i \in DOMAIN cq : cq[i].tag \notin armed /\ (cq[i].res = "ok" => kst[cq[i].tag] = "sent")
  /\ \A i, j \in DOMAIN cq : cq[i].tag = cq[j].tag => i = j
Prepared ==
  /\ \A c \in sq : c.tag \notin armed /\ \A i \in DOMAIN cq : cq[i].tag # c.tag
  /\ \A c, d \in sq : c.tag = d.tag => c = d

\* What is to be committed is open, and read.
ToCommit ==
  \A c \in sq : c.op = "commit" =>
    kst[c.tag] = "sent" /\ (kkind[c.tag] = "read" /\ result[c.tag] = "ok" => buf[c.tag])

\* Before the first commands there is nothing; a round that has handled nothing
\* has nothing to commit.
Rounds ==
  /\ queue = "init" => armed = {} /\ cq = <<>> /\ sq = {}
  /\ queue = "handle" /\ ~count => sq = {}

Flow == Seen /\ Prepared /\ ToCommit /\ Rounds
QueueInv == Types /\ (queue # "gone" => Flow)

-----------------------------------------------------------------------------
\* What one of the drivers does, the other's state does not see.
LEMMA StepOfUblk == [Next]_vars => [U!Next]_(U!vars)
<1> QED BY DEF Next, vars, Ublk, Fuse, ublkVars, U!vars, U!kernel, U!ios

LEMMA StepOfFuse == [Next]_vars => [F!Next]_(F!vars)
<1> QED BY DEF Next, vars, Ublk, Fuse, fuseVars, F!vars, F!session, F!device

-----------------------------------------------------------------------------
(* The queue of the userspace block device.                                *)

LEMMA QueueInits == U!Init => QueueInv
<1> SUFFICES ASSUME U!Init PROVE QueueInv
  OBVIOUS
<1>1. U!None \in Answers
  BY DEF U!None, Answers
<1>2. Types
  BY <1>1 DEF U!Init, Types
<1>3. Flow
  BY DEF U!Init, Flow, Seen, Prepared, ToCommit, Rounds
<1> QED BY <1>2, <1>3 DEF QueueInv

LEMMA TagsKnown ==
  ASSUME QueueInv
  PROVE  /\ \A i \in DOMAIN cq : cq[i] \in Completions /\ cq[i].tag \in Tags
         /\ \A c \in sq : c \in Commands /\ c.tag \in Tags
<1>1. cq \in Seq(Completions) /\ sq \subseteq Commands
  BY DEF QueueInv, Types
<1>2. \A i \in DOMAIN cq : cq[i] \in Completions
  BY <1>1
<1> QED BY <1>1, <1>2 DEF Completions, Commands

-----------------------------------------------------------------------------
(* The kernel.                                                             *)

\* A request or an abort goes to the server; the kernel no longer holds the
\* command of that tag.
LEMMA CompletesKeeps ==
  ASSUME QueueInv, NEW t \in armed, NEW r \in {"ok", "abort"},
         cq' = Append(cq, [tag |-> t, res |-> r]), armed' = armed \ {t},
         \A u \in Tags : u # t => kst'[u] = kst[u] /\ kkind'[u] = kkind[u] /\ buf'[u] = buf[u],
         r = "ok" => kst'[t] = "sent",
         UNCHANGED <<sq, result, count, queue>>, Types'
  PROVE  QueueInv'
<1> SUFFICES ASSUME queue # "gone", Flow PROVE Flow'
  BY DEF QueueInv
<1> DEFINE e == [tag |-> t, res |-> r]
<1>1. e.tag = t /\ e.res = r /\ cq' = Append(cq, e) /\ t \in Tags
  BY DEF QueueInv, Types
<1> HIDE DEF e
<1>2. cq \in Seq(Completions) /\ sq \subseteq Commands
  BY DEF QueueInv, Types
<1>3. /\ Len(cq) \in Nat /\ DOMAIN cq = 1 .. Len(cq) /\ DOMAIN cq' = 1 .. Len(cq) + 1
      /\ cq'[Len(cq) + 1] = e /\ \A i \in DOMAIN cq : cq'[i] = cq[i] /\ cq[i] \in Completions
      /\ \A i \in DOMAIN cq' : i \in DOMAIN cq \/ i = Len(cq) + 1
  BY <1>1, <1>2
<1>4. \A i \in DOMAIN cq : cq[i].tag # t /\ cq[i].tag \in Tags
  BY <1>3 DEF Flow, Seen, Completions
<1>5. \A c \in sq : c.tag # t /\ c.tag \in Tags
  BY <1>2 DEF Flow, Prepared, Commands
<1>6. Seen'
  BY <1>1, <1>3, <1>4 DEF Flow, Seen
<1>7. Prepared'
  BY <1>1, <1>3, <1>5 DEF Flow, Prepared
<1>8. ToCommit'
  BY <1>5 DEF Flow, ToCommit
<1>9. Rounds'
  BY DEF Flow, Rounds
<1> QED BY <1>6, <1>7, <1>8, <1>9 DEF Flow

LEMMA SendKeeps == ASSUME QueueInv, NEW t \in Tags, U!KSend(t) PROVE QueueInv'
<1>1. /\ t \in armed /\ armed' = armed \ {t} /\ cq' = Append(cq, [tag |-> t, res |-> "ok"])
      /\ kst' = [kst EXCEPT ![t] = "sent"] /\ buf' = [buf EXCEPT ![t] = FALSE]
      /\ UNCHANGED <<kans, sq, result, count, queue>>
  BY DEF U!KSend
<1>2. PICK k \in Kinds : kkind' = [kkind EXCEPT ![t] = k]
  BY DEF U!KSend
<1>3. [tag |-> t, res |-> "ok"] \in Completions
  BY DEF Completions
<1>4. Types'
  BY <1>1, <1>2, <1>3 DEF QueueInv, Types
<1>5. /\ kst'[t] = "sent"
      /\ \A u \in Tags : u # t => kst'[u] = kst[u] /\ kkind'[u] = kkind[u] /\ buf'[u] = buf[u]
  BY <1>1, <1>2 DEF QueueInv, Types
<1> QED BY <1>1, <1>4, <1>5, CompletesKeeps

LEMMA AbortKeeps == ASSUME QueueInv, NEW t \in Tags, U!KAbort(t) PROVE QueueInv'
<1>1. /\ t \in armed /\ armed' = armed \ {t} /\ cq' = Append(cq, [tag |-> t, res |-> "abort"])
      /\ UNCHANGED <<kst, kkind, kans, sq, result, buf, count, queue>>
  BY DEF U!KAbort, U!ios
<1>2. [tag |-> t, res |-> "abort"] \in Completions
  BY DEF Completions
<1>3. Types'
  BY <1>1, <1>2 DEF QueueInv, Types
<1> QED BY <1>1, <1>3, CompletesKeeps

LEMMA FailKeeps == ASSUME QueueInv, NEW t \in Tags, U!KFail(t) PROVE QueueInv'
<1>1. [ok |-> FALSE, good |-> TRUE] \in Answers
  BY DEF Answers
<1> QED BY <1>1 DEF U!KFail, QueueInv, Types, U!ios

LEMMA TakeKeeps == ASSUME QueueInv, NEW t \in Tags, U!KTake(t) PROVE QueueInv'
<1>1. /\ kst[t] = "done" /\ kst' = [kst EXCEPT ![t] = "idle"] /\ kans' = [kans EXCEPT ![t] = U!None]
      /\ kkind' = [kkind EXCEPT ![t] = "other"]
      /\ UNCHANGED <<armed, cq, sq, result, buf, count, queue>>
  BY DEF U!KTake, U!ios
<1>2. U!None \in Answers
  BY DEF U!None, Answers
<1>3. Types'
  BY <1>1, <1>2 DEF QueueInv, Types
<1>4. \A u \in Tags : kst[u] = "sent" => kst'[u] = "sent" /\ kkind'[u] = kkind[u]
  BY <1>1 DEF QueueInv, Types
<1>5. ASSUME queue # "gone" PROVE Flow'
  <2>1. (\A i \in DOMAIN cq : cq[i].tag \in Tags) /\ \A c \in sq : c.tag \in Tags
    BY TagsKnown
  <2>2. Seen' /\ Prepared' /\ Rounds'
    BY <1>1, <1>4, <1>5, <2>1 DEF QueueInv, Flow, Seen, Prepared, Rounds
  <2>3. ToCommit'
    BY <1>1, <1>4, <1>5, <2>1 DEF QueueInv, Flow, ToCommit
  <2> QED BY <2>2, <2>3 DEF Flow
<1> QED BY <1>1, <1>3, <1>5 DEF QueueInv

-----------------------------------------------------------------------------
(* The thread.                                                             *)

LEMMA InitKeeps == QueueInv /\ U!QueueInit => QueueInv'
<1> SUFFICES ASSUME QueueInv, U!QueueInit PROVE QueueInv'
  OBVIOUS
<1>1. UNCHANGED <<kst, kkind, kans, armed, cq, result, buf, count>> /\ queue = "init"
  BY DEF U!QueueInit, U!kernel, U!ios
<1>2. armed = {} /\ cq = <<>> /\ sq = {}
  BY <1>1 DEF QueueInv, Flow, Rounds
<1>3. CASE queue' = "gone" /\ sq' = sq
  BY <1>1, <1>3 DEF QueueInv, Types
<1>4. CASE queue' = "top" /\ sq' = [tag : Tags, op : {"fetch"}]
  <2>1. Types'
    BY <1>1, <1>4 DEF QueueInv, Types, Commands
  <2>2. Flow'
    BY <1>1, <1>2, <1>4 DEF Flow, Seen, Prepared, ToCommit, Rounds
  <2> QED BY <2>1, <2>2 DEF QueueInv
<1> QED BY <1>3, <1>4 DEF U!QueueInit

LEMMA SubmitKeeps == QueueInv /\ U!SubmitAndWait => QueueInv'
<1> SUFFICES ASSUME QueueInv, U!SubmitAndWait PROVE QueueInv'
  OBVIOUS
<1>1. queue = "wait" /\ UNCHANGED <<cq, result, buf, count>> /\ Flow
  BY DEF U!SubmitAndWait, QueueInv, U!ios
<1>2. CASE sq = {} /\ queue' = "handle" /\ UNCHANGED <<U!kernel, sq>>
  BY <1>1, <1>2 DEF QueueInv, Types, Flow, Seen, Prepared, ToCommit, Rounds, U!kernel
<1>3. ASSUME NEW c \in sq, U!KCommand(c), sq' = sq \ {c}, queue' = queue PROVE QueueInv'
  <2>1. c.tag \in Tags /\ armed' = armed \cup {c.tag} /\ kkind' = kkind
    BY <1>3 DEF U!KCommand, QueueInv, Types, Commands
  <2>2. /\ kst' \in [Tags -> {"idle", "sent", "done"}] /\ kans' \in [Tags -> Answers]
        /\ \A u \in Tags : u # c.tag => kst'[u] = kst[u]
    <3>1. CASE c.op = "commit" /\ U!Commit(c.tag)
      <4> DEFINE a == [ok |-> result[c.tag] = "ok",
                       good |-> kkind[c.tag] = "read" /\ result[c.tag] = "ok" => buf[c.tag]]
      <4>1. kst' = [kst EXCEPT ![c.tag] = "done"] /\ kans' = [kans EXCEPT ![c.tag] = a]
        BY <3>1 DEF U!Commit
      <4>2. a \in Answers
        BY <2>1 DEF Answers, QueueInv, Types
      <4> HIDE DEF a
      <4> QED BY <2>1, <4>1, <4>2 DEF QueueInv, Types
    <3>2. CASE UNCHANGED <<kst, kans>>
      BY <3>2 DEF QueueInv, Types
    <3> QED BY <1>3, <3>1, <3>2 DEF U!KCommand
  <2>3. Types'
    BY <1>1, <1>3, <2>1, <2>2 DEF QueueInv, Types
  <2>4. /\ \A i \in DOMAIN cq : cq[i].tag # c.tag /\ cq[i].tag \in Tags
        /\ \A d \in sq' : d.tag # c.tag /\ d.tag \in Tags
    BY <1>1, <1>3, TagsKnown DEF Flow, Prepared
  <2>5. Flow'
    BY <1>1, <1>3, <2>1, <2>2, <2>4 DEF Flow, Seen, Prepared, ToCommit, Rounds
  <2> QED BY <2>3, <2>5 DEF QueueInv
<1> QED BY <1>2, <1>3 DEF U!SubmitAndWait

LEMMA HandleKeeps == QueueInv /\ U!HandleCqe => QueueInv'
<1> SUFFICES ASSUME QueueInv, U!HandleCqe PROVE QueueInv'
  OBVIOUS
<1> DEFINE c == Head(cq)
           t == c.tag
<1>1. /\ queue = "handle" /\ cq # <<>> /\ cq' = Tail(cq) /\ count' = TRUE
      /\ UNCHANGED <<kst, kkind, kans, armed>> /\ Flow
  BY DEF U!HandleCqe, QueueInv, U!kernel
<1>2. cq \in Seq(Completions)
  BY DEF QueueInv, Types
<1>3. /\ cq' \in Seq(Completions) /\ 1 \in DOMAIN cq /\ c = cq[1]
      /\ \A i \in DOMAIN cq' : i + 1 \in DOMAIN cq /\ i + 1 # 1 /\ cq'[i] = cq[i + 1]
      /\ \A i, j \in DOMAIN cq' : i + 1 = j + 1 => i = j
  BY <1>1, <1>2
<1>4. /\ t \in Tags /\ t \notin armed
      /\ \A d \in sq : d.tag # t
      /\ \A i \in DOMAIN cq' : cq'[i].tag # t
  BY <1>1, <1>3, TagsKnown DEF Flow, Seen, Prepared
<1>5. Seen' /\ \A i \in DOMAIN cq' : \A d \in sq : d.tag # cq'[i].tag
  BY <1>1, <1>3 DEF Flow, Seen, Prepared
<1>6. CASE c.res = "abort" /\ U!Aborted(t)
  <2>1. queue' = "handle" /\ UNCHANGED <<sq, result, buf>>
    BY <1>6 DEF U!Aborted
  <2> HIDE DEF c
  <2>2. Types'
    BY <1>1, <1>3, <2>1 DEF QueueInv, Types
  <2>3. Flow'
    BY <1>1, <1>5, <2>1 DEF Flow, Prepared, ToCommit, Rounds
  <2> QED BY <2>2, <2>3 DEF QueueInv
<1>7. CASE queue' = "gone" /\ UNCHANGED <<sq, result, buf>>
  BY <1>1, <1>3, <1>7 DEF QueueInv, Types
<1>8. ASSUME NEW r \in {"ok", "err"}, c.res = "ok", queue' = "handle", U!Serve(t, r), U!CompleteIo(t, r)
      PROVE  QueueInv'
  <2> DEFINE e == [tag |-> t, op |-> "commit"]
  <2>1. e.tag = t /\ e.op = "commit" /\ e \in Commands
    BY <1>4 DEF Commands
  <2>2. sq' = sq \cup {e} /\ result' = [result EXCEPT ![t] = r] /\ kst[t] = "sent"
    BY <1>1, <1>3, <1>8 DEF U!CompleteIo, Flow, Seen
  <2>3. buf' \in [Tags -> BOOLEAN] /\ (kkind[t] = "read" /\ r = "ok" => buf'[t])
        /\ \A u \in Tags : u # t => buf'[u] = buf[u]
    BY <1>4, <1>8 DEF U!Serve, QueueInv, Types
  <2> HIDE DEF e, c, t
  <2>4. result'[t] = r /\ \A u \in Tags : u # t => result'[u] = result[u]
    BY <1>4, <2>2 DEF QueueInv, Types
  <2>5. Types'
    BY <1>1, <1>3, <1>4, <2>1, <2>2, <2>3 DEF QueueInv, Types
  <2>6. Prepared'
    BY <1>1, <1>4, <1>5, <2>1, <2>2 DEF Flow, Prepared
  <2>7. ToCommit'
    <3>1. \A d \in sq : d.tag \in Tags
      BY DEF QueueInv, Types, Commands
    <3> QED BY <1>1, <1>4, <2>1, <2>2, <2>3, <2>4, <3>1 DEF Flow, ToCommit
  <2>8. Rounds'
    BY <1>1, <1>8 DEF Rounds
  <2> QED BY <1>5, <2>5, <2>6, <2>7, <2>8 DEF QueueInv, Flow
<1> QED BY <1>6, <1>7, <1>8 DEF U!HandleCqe, U!Request, U!ios

\* Buffers are given back only when nothing is to be committed.
LEMMA AllHandledKeeps == QueueInv /\ U!AllHandled => QueueInv'
<1> SUFFICES ASSUME QueueInv, U!AllHandled PROVE QueueInv'
  OBVIOUS
<1>1. /\ queue = "handle" /\ queue' \in {"set", "top"} /\ Flow
      /\ UNCHANGED <<kst, kkind, kans, armed, cq, sq, result, count>>
      /\ buf' = buf \/ (~count /\ buf' = [t \in Tags |-> FALSE])
  BY DEF U!AllHandled, U!Quiet, QueueInv, U!kernel
<1>2. Types'
  BY <1>1 DEF QueueInv, Types
<1>3. buf' = buf \/ sq = {}
  BY <1>1 DEF Flow, Rounds
<1>4. Seen' /\ Prepared' /\ Rounds'
  BY <1>1 DEF Flow, Seen, Prepared, Rounds
<1>5. ToCommit'
  BY <1>1, <1>3 DEF Flow, ToCommit
<1> QED BY <1>2, <1>4, <1>5 DEF QueueInv, Flow

LEMMA QueueNext == QueueInv /\ [U!Next]_(U!vars) => QueueInv'
<1> SUFFICES ASSUME QueueInv, [U!Next]_(U!vars) PROVE QueueInv'
  OBVIOUS
<1>1. ASSUME UNCHANGED <<kst, kkind, kans, armed, cq, sq, result, buf>>,
             \/ queue' = queue /\ count' = count
             \/ queue # "gone" /\ queue' \in {"gone", "wait", "top"}
      PROVE  QueueInv'
  BY <1>1 DEF QueueInv, Types, Flow, Seen, Prepared, ToCommit, Rounds
<1>2. CASE U!Top \/ U!SetState
  BY <1>1, <1>2 DEF U!Top, U!SetState, U!kernel, U!ios
<1>3. CASE U!Main \/ U!Signal \/ U!DeleteFails \/ UNCHANGED U!vars
  <2>1. UNCHANGED <<kst, kkind, kans, armed, cq, sq, result, buf, queue, count>>
    BY <1>3 DEF U!Main, U!Start, U!Delete, U!Deleted, U!AskToStop, U!Join, U!Signal, U!DeleteFails, U!vars, U!kernel, U!ios
  <2> QED BY <1>1, <2>1
<1> QED
  BY <1>2, <1>3, SendKeeps, AbortKeeps, FailKeeps, TakeKeeps, InitKeeps, SubmitKeeps, HandleKeeps, AllHandledKeeps
  DEF U!Next, U!Queue

LEMMA QueueAlways == Spec => []QueueInv
<1>1. Init => QueueInv
  BY QueueInits DEF Init
<1> QED BY <1>1, StepOfUblk, QueueNext, PTL DEF Spec

-----------------------------------------------------------------------------
(* What the kernel sees.                                                   *)

\* An answer that is an error, or what was asked.
LEMMA AnswerIsDisks ==
  ASSUME Types, NEW t \in Tags, NEW a \in Answers,
         kst[t] = "sent", kst' = [kst EXCEPT ![t] = "done"], kans' = [kans EXCEPT ![t] = a],
         kkind' = kkind, a.good
  PROVE  U!Disk!Answer(t)
<1> DEFINE ret == IF ~a.ok THEN -1 ELSE IF kkind[t] = "read" THEN 1 ELSE 0
           r == [ret |-> ret, good |-> a.good]
<1>1. r \in {U!Disk!Error, [ret |-> U!Disk!Inside([off |-> 0, len |-> IF kkind[t] = "read" THEN 1 ELSE 0]),
                          good |-> TRUE]}
  <2>1. a.good = TRUE /\ a.ok \in BOOLEAN
    BY DEF Answers
  <2>2. CASE ~a.ok
    BY <2>1, <2>2 DEF U!Disk!Error
  <2>3. CASE a.ok /\ kkind[t] = "read"
    <3>1. U!Disk!Inside([off |-> 0, len |-> 1]) = 1
      BY DEF U!Disk!Inside
    <3> QED BY <2>1, <2>3, <3>1
  <2>4. CASE a.ok /\ kkind[t] # "read"
    <3>1. U!Disk!Inside([off |-> 0, len |-> 0]) = 0
      BY DEF U!Disk!Inside
    <3> QED BY <2>1, <2>4, <3>1
  <2> QED BY <2>1, <2>2, <2>3, <2>4
<1>2. /\ kst'[t] = "done" /\ kans'[t] = a
      /\ \A u \in Tags : u # t => kst'[u] = kst[u] /\ kans'[u] = kans[u]
  BY DEF Types
<1> HIDE DEF r
<1>3. [u \in Tags |-> [ret |-> IF ~kans'[u].ok THEN -1
                               ELSE IF kst'[u] = "done" /\ kkind[u] = "read" THEN 1 ELSE 0,
                       good |-> kans'[u].good]]
      = [[u \in Tags |-> [ret |-> IF ~kans[u].ok THEN -1
                                  ELSE IF kst[u] = "done" /\ kkind[u] = "read" THEN 1 ELSE 0,
                          good |-> kans[u].good]] EXCEPT ![t] = r]
  BY <1>2 DEF r
<1>4. [u \in Tags |-> IF kst'[u] = "sent" THEN "pending" ELSE kst'[u]]
      = [[u \in Tags |-> IF kst[u] = "sent" THEN "pending" ELSE kst[u]] EXCEPT ![t] = "done"]
  BY <1>2
<1> QED BY <1>1, <1>3, <1>4 DEF U!Disk!Answer

\* A commit answers with the data of its own request.
LEMMA CommitIsDisks ==
  ASSUME QueueInv, queue = "wait", NEW c \in sq, c.op = "commit", U!Commit(c.tag), kkind' = kkind
  PROVE  U!Disk!Answer(c.tag)
<1> DEFINE a == [ok |-> result[c.tag] = "ok",
                 good |-> kkind[c.tag] = "read" /\ result[c.tag] = "ok" => buf[c.tag]]
<1>1. c.tag \in Tags /\ kst[c.tag] = "sent" /\ Types
  BY TagsKnown DEF QueueInv, Flow, ToCommit
<1>2. a \in Answers /\ a.good
  BY DEF Answers, QueueInv, Flow, ToCommit
<1>3. kst' = [kst EXCEPT ![c.tag] = "done"] /\ kans' = [kans EXCEPT ![c.tag] = a]
  BY DEF U!Commit
<1> HIDE DEF a
<1> QED BY <1>1, <1>2, <1>3, AnswerIsDisks

LEMMA StepIsDisks ==
  ASSUME QueueInv, [U!Next]_(U!vars) PROVE [U!Disk!DiskNext]_(U!Disk!diskVars)
<1>1. UNCHANGED <<kst, kkind, kans>> => UNCHANGED U!Disk!diskVars
  BY DEF U!Disk!diskVars
<1>2. ASSUME NEW t \in Tags, U!KSend(t) PROVE U!Disk!Ask(t)
  <2>1. PICK k \in Kinds : kkind' = [kkind EXCEPT ![t] = k]
    BY <1>2 DEF U!KSend
  <2>2. kst[t] = "idle" /\ kst' = [kst EXCEPT ![t] = "sent"] /\ kans' = kans
    BY <1>2 DEF U!KSend
  <2>3. /\ kst'[t] = "sent" /\ kkind'[t] = k
        /\ \A u \in Tags : u # t => kst'[u] = kst[u] /\ kkind'[u] = kkind[u]
    BY <2>1, <2>2 DEF QueueInv, Types
  <2> DEFINE r == [off |-> 0, len |-> IF k = "read" THEN 1 ELSE 0]
  <2>4. r \in {[off |-> 0, len |-> 1], [off |-> 0, len |-> 0]}
    OBVIOUS
  <2> HIDE DEF r
  <2>5. [u \in Tags |-> [off |-> 0, len |-> IF kkind'[u] = "read" THEN 1 ELSE 0]]
        = [[u \in Tags |-> [off |-> 0, len |-> IF kkind[u] = "read" THEN 1 ELSE 0]] EXCEPT ![t] = r]
    BY <2>3 DEF r
  <2>6. [u \in Tags |-> IF kst'[u] = "sent" THEN "pending" ELSE kst'[u]]
        = [[u \in Tags |-> IF kst[u] = "sent" THEN "pending" ELSE kst[u]] EXCEPT ![t] = "pending"]
    BY <2>3
  <2>7. \A u \in Tags : /\ (kst'[u] = "done" /\ kkind'[u] = "read") <=> (kst[u] = "done" /\ kkind[u] = "read")
                        /\ kans'[u] = kans[u]
    BY <2>2, <2>3
  <2>8. [u \in Tags |-> [ret |-> IF ~kans'[u].ok THEN -1
                                 ELSE IF kst'[u] = "done" /\ kkind'[u] = "read" THEN 1 ELSE 0,
                         good |-> kans'[u].good]]
        = [u \in Tags |-> [ret |-> IF ~kans[u].ok THEN -1
                                   ELSE IF kst[u] = "done" /\ kkind[u] = "read" THEN 1 ELSE 0,
                           good |-> kans[u].good]]
    BY <2>7
  <2> QED BY <2>2, <2>4, <2>5, <2>6, <2>8 DEF U!Disk!Ask
<1>3. ASSUME NEW t \in Tags, U!KTake(t) PROVE U!Disk!Take(t)
  <2>1. /\ kst[t] = "done" /\ kst'[t] = "idle" /\ kkind'[t] = "other" /\ kans'[t] = U!None
        /\ \A u \in Tags : u # t => kst'[u] = kst[u] /\ kkind'[u] = kkind[u] /\ kans'[u] = kans[u]
    BY <1>3 DEF U!KTake, QueueInv, Types
  <2>2. [u \in Tags |-> IF kst'[u] = "sent" THEN "pending" ELSE kst'[u]]
        = [[u \in Tags |-> IF kst[u] = "sent" THEN "pending" ELSE kst[u]] EXCEPT ![t] = "idle"]
    BY <2>1
  <2>3. [u \in Tags |-> [off |-> 0, len |-> IF kkind'[u] = "read" THEN 1 ELSE 0]]
        = [[u \in Tags |-> [off |-> 0, len |-> IF kkind[u] = "read" THEN 1 ELSE 0]]
             EXCEPT ![t] = U!Disk!Nothing]
    BY <2>1 DEF U!Disk!Nothing
  <2>4. [u \in Tags |-> [ret |-> IF ~kans'[u].ok THEN -1
                                 ELSE IF kst'[u] = "done" /\ kkind'[u] = "read" THEN 1 ELSE 0,
                         good |-> kans'[u].good]]
        = [[u \in Tags |-> [ret |-> IF ~kans[u].ok THEN -1
                                    ELSE IF kst[u] = "done" /\ kkind[u] = "read" THEN 1 ELSE 0,
                            good |-> kans[u].good]] EXCEPT ![t] = U!Disk!Blank]
    <3>1. U!Disk!Blank = [ret |-> IF ~kans'[t].ok THEN -1
                                ELSE IF kst'[t] = "done" /\ kkind'[t] = "read" THEN 1 ELSE 0,
                        good |-> kans'[t].good]
      BY <2>1 DEF U!Disk!Blank, U!None
    <3> QED BY <2>1, <3>1
  <2> QED BY <2>1, <2>2, <2>3, <2>4 DEF U!Disk!Take
<1>4. ASSUME NEW t \in Tags, U!KFail(t) PROVE U!Disk!Answer(t)
  <2>1. [ok |-> FALSE, good |-> TRUE] \in Answers
    BY DEF Answers
  <2> QED BY <1>4, <2>1, AnswerIsDisks DEF U!KFail, QueueInv
<1>5. CASE U!SubmitAndWait
  <2>1. queue = "wait"
    BY <1>5 DEF U!SubmitAndWait
  <2>2. CASE UNCHANGED <<kst, kkind, kans>>
    BY <1>1, <2>2
  <2>3. ASSUME NEW c \in sq, c.op = "commit", U!Commit(c.tag), kkind' = kkind PROVE U!Disk!DiskNext
    BY <2>1, <2>3, CommitIsDisks, TagsKnown DEF U!Disk!DiskNext
  <2> QED BY <1>5, <2>2, <2>3 DEF U!SubmitAndWait, U!KCommand, U!kernel
<1>6. CASE UNCHANGED <<kst, kkind, kans>>
  BY <1>1, <1>6
<1>7. \/ UNCHANGED <<kst, kkind, kans>> \/ U!SubmitAndWait
      \/ \E t \in Tags : U!KSend(t) \/ U!KTake(t) \/ U!KFail(t)
  BY DEF U!Next, U!Queue, U!Main, U!vars, U!kernel, U!KAbort, U!QueueInit, U!Top, U!HandleCqe, U!AllHandled, U!SetState,
      U!Start, U!Delete, U!Deleted, U!AskToStop, U!Join, U!Signal, U!DeleteFails
<1> QED BY <1>2, <1>3, <1>4, <1>5, <1>6, <1>7 DEF U!Disk!DiskNext

\* Each request the userspace block device sends gets one answer, an error or
\* the data read for it: buffers that are given back, aborts and the end of the
\* thread do not show.
THEOREM UblkImplementsDisk == Spec => ImplementsDisk
<1>1. Init => U!Disk!DiskInit
  <2> SUFFICES ASSUME Init PROVE U!Disk!DiskInit
    OBVIOUS
  <2> QED BY DEF Init, U!Init, U!None, U!Disk!DiskInit, U!Disk!Nothing, U!Disk!Blank
<1>2. QueueInv /\ [U!Next]_(U!vars) => [U!Disk!DiskNext]_(U!Disk!diskVars)
  BY StepIsDisks
<1> QED BY <1>1, <1>2, StepOfUblk, QueueAlways, PTL
  DEF Spec, ImplementsDisk, U!ImplementsDisk, U!Disk!DiskSpec

-----------------------------------------------------------------------------
(* The server of the FUSE device.                                          *)

\* The device is listed before the loop device is put on its file; a loop device
\* the server knows of is bound, and one that waits for its last close is in use.
LoopInv ==
  /\ DOMAIN req = F!Clients
  /\ server \notin {"init", "ready", "create"} => listed
  /\ loopdev # "free" =>
       server \in {"announce", "run", "stop", "detach", "exit", "kill", "join", "end"}
  /\ told => loopdev = "bound"
  /\ named = "loop" /\ server \in {"run", "stop"} => told
  /\ loopdev = "clearing" => F!InUse

LEMMA LoopStep == LoopInv /\ [F!Next]_(F!vars) => LoopInv'
<1> SUFFICES ASSUME LoopInv, [F!Next]_(F!vars) PROVE LoopInv'
  OBVIOUS
<1>1. ASSUME UNCHANGED <<listed, loopdev, told, named, server>>, DOMAIN req' = F!Clients,
             \A u \in Users : req[u] # "idle" => req'[u] # "idle"
      PROVE  LoopInv'
  BY <1>1 DEF LoopInv, F!InUse
<1>2. ASSUME UNCHANGED <<req, listed, loopdev, told, named>>, server' # server,
             server' \in {"ready", "create", "kill", "end", "join"}
                => <<server, server'>> \in
                     {<<"init", "ready">>, <<"ready", "create">>, <<"exit", "kill">>,
                      <<"exit", "end">>, <<"kill", "join">>, <<"join", "end">>},
             server' \notin {"ready", "create", "kill", "end", "join"}
                => <<server, server'>> \in
                     {<<"created", "open">>, <<"open", "announce">>, <<"run", "stop">>,
                      <<"stop", "detach">>}
      PROVE  LoopInv'
  BY <1>2 DEF LoopInv, F!InUse
<1>3. CASE F!Session \/ UNCHANGED F!vars
  <2>1. UNCHANGED <<listed, loopdev, told, named, server>>
    BY <1>3 DEF F!Session, F!Mount, F!Check, F!Enter, F!Receive, F!Find, F!Found, F!Answer,
      F!Destroy, F!ClearSe, F!vars, F!device
  <2>2. \/ req' = req
        \/ \E a \in {"done", "failed"} : req' = [req EXCEPT ![serving] = a]
        \/ req' = [c \in F!Clients |-> IF req[c] = "sent" THEN "failed" ELSE req[c]]
    BY <1>3 DEF F!Session, F!Mount, F!Check, F!Enter, F!Receive, F!Find, F!Found, F!Answer,
      F!Destroy, F!ClearSe, F!vars
  <2>3. DOMAIN req' = F!Clients /\ \A u \in Users : req[u] # "idle" => req'[u] # "idle"
    BY <2>2 DEF LoopInv, F!Clients
  <2> QED BY <1>1, <2>1, <2>3
<1>4. CASE F!OpenFile
  <2>1. UNCHANGED <<listed, loopdev, told, named>> /\ DOMAIN req' = F!Clients
        /\ server = "open" /\ server' \in {"opening", "announce"}
        /\ \A u \in Users : req'[u] = req[u]
    BY <1>4, DeviceAssumption DEF F!OpenFile, F!device, LoopInv, F!Clients
  <2> QED BY <2>1 DEF LoopInv, F!InUse
<1>5. CASE F!SetLoop
  <2>1. server = "opening" /\ server' = "announce" /\ DOMAIN req' = F!Clients
        /\ UNCHANGED <<listed, named>>
    BY <1>5 DEF F!SetLoop, LoopInv, F!Clients
  <2>2. (loopdev' = "bound" /\ told') \/ UNCHANGED <<loopdev, told>>
    BY <1>5 DEF F!SetLoop
  <2> QED BY <2>1, <2>2 DEF LoopInv
<1>6. CASE F!LoopDetach
  <2>1. server = "detach" /\ server' = "exit" /\ UNCHANGED <<listed, named, req>>
    BY <1>6 DEF F!LoopDetach
  <2>2. \/ ~told' /\ loopdev' = IF F!InUse THEN "clearing" ELSE "free"
        \/ UNCHANGED <<loopdev, told>>
    BY <1>6 DEF F!LoopDetach
  <2>3. F!InUse' <=> F!InUse
    BY <2>1 DEF F!InUse
  <2> QED BY <2>1, <2>2, <2>3 DEF LoopInv
<1>7. CASE F!Announce
  BY <1>7 DEF F!Announce, LoopInv, F!InUse
<1>8. CASE F!Create
  BY <1>8 DEF F!Create, LoopInv, F!InUse
<1>9. CASE F!InitStarts \/ F!Ready \/ F!Created \/ F!Signal \/ F!Detach \/ F!SessionExit \/ F!Kill \/ F!Join
  BY <1>2, <1>9 DEF F!InitStarts, F!Ready, F!Created, F!Signal, F!Detach, F!SessionExit, F!Kill,
    F!Join, F!device
<1>10. ASSUME NEW u \in Users, F!ReadLoop(u) PROVE LoopInv'
  <2>1. UNCHANGED <<listed, loopdev, told, named, server>> /\ DOMAIN req' = F!Clients
        /\ \A v \in Users : req[v] # "idle" => req'[v] # "idle"
    BY <1>10 DEF F!ReadLoop, F!device, LoopInv, F!Clients
  <2> QED BY <1>1, <2>1
<1>11. ASSUME NEW u \in Users, F!CloseLoop(u) PROVE LoopInv'
  <2>1. /\ UNCHANGED <<listed, told, named, server>> /\ DOMAIN req' = F!Clients
        /\ \A v \in Users \ {u} : req'[v] = req[v]
    BY <1>11 DEF F!CloseLoop, LoopInv, F!Clients
  <2>2. CASE loopdev = "clearing" /\ \A v \in Users \ {u} : req[v] = "idle"
    <3>1. loopdev' = "free"
      BY <1>11, <2>2 DEF F!CloseLoop
    <3> QED BY <2>1, <2>2, <3>1 DEF LoopInv
  <2>3. CASE loopdev = "clearing" /\ \E v \in Users \ {u} : req[v] # "idle"
    <3>1. loopdev' = loopdev /\ F!InUse'
      BY <1>11, <2>1, <2>3 DEF F!CloseLoop, F!InUse
    <3> QED BY <2>1, <2>3, <3>1 DEF LoopInv
  <2>4. CASE loopdev # "clearing"
    <3>1. loopdev' = loopdev
      BY <1>11, <2>4 DEF F!CloseLoop
    <3> QED BY <2>1, <2>4, <3>1 DEF LoopInv
  <2> QED BY <2>2, <2>3, <2>4
<1> QED BY <1>3, <1>4, <1>5, <1>6, <1>7, <1>8, <1>9, <1>10, <1>11 DEF F!Next, F!Main

\* A loop device the server has announced stays on its file until the server
\* stops, whatever the session's thread, the signal and the readers do; a bound
\* loop device always has a backend, and one left behind at the end is still
\* held by a reader.
THEOREM LoopKeepsFile == Spec => []LoopHasFile
<1>1. Init => LoopInv
  BY DEF Init, F!Init, LoopInv, F!Clients
<1>2. LoopInv => LoopHasFile
  BY DEF LoopInv, LoopHasFile, F!LoopHasFile
<1> QED BY <1>1, <1>2, StepOfFuse, LoopStep, PTL DEF Spec
=============================================================================
