--------------------------- MODULE NbdServerProofs ---------------------------
(***************************************************************************)
(* What holds of the network block device with any number of tags, rounds  *)
(* and jobs.  While the connection is up a request is in one place on its  *)
(* way: in the socket, in the pool's line, in a job, or answered by        *)
(* messages that stand side by side.  Once it is down nothing reaches the  *)
(* kernel any more.                                                        *)
(***************************************************************************)
EXTENDS NbdServer, TLAPS

Tasks == Ctx \cup {Disc}
Requests == [ctx : Tasks, kind : {"read", "write", "other", "disc"}]
Replies == [ctx : Tasks, what : {"ok", "err", "data"}, good : {TRUE}]
Answers == [ok : BOOLEAN, good : BOOLEAN]

KernelTypes ==
  /\ up \in BOOLEAN /\ want \in Tags \cup {Nobody}
  /\ kst \in [Tags -> {"idle", "sent", "done"}]
  /\ kround \in [Tags -> 0 .. Rounds]
  /\ kkind \in [Tags -> {"read", "write", "other"}]
  /\ kans \in [Tags -> Answers]
  /\ \A t \in Tags : kst[t] # "done" => kans[t] = None
  /\ \A t \in Tags : kst[t] = "idle" => kkind[t] = "other"

ServerTypes ==
  /\ toSrv \in Seq(Requests) /\ toKer \in Seq(Replies)
  /\ line \in Seq(Tasks) /\ active \subseteq Tasks /\ finished \subseteq Tasks
  /\ jpc \in [Tasks -> {"none", "work", "reply", "head", "pay", "refuse"}]
  /\ jkind \in [Tasks -> {"read", "write", "other", "disc"}]
  /\ wlock \in Tasks \cup {Nobody}
  /\ mpc \in {"loop", "disc", "clear", "join", "done"}

\* The request the kernel waits for an answer to; the kernel's own last one.
Open(c, st, round) == c \in Ctx /\ st[c.tag] = "sent" /\ round[c.tag] = c.round
KnownAs(c, k, st, round, kinds) ==
  (Open(c, st, round) /\ k = kinds[c.tag]) \/ (c = Disc /\ k = "disc")
Known(c, k) == KnownAs(c, k, kst, kround, kkind)

\* Each request is in one place only.
Distinct(s) == \A i, j \in DOMAIN s : s[i] = s[j] => i = j
InSocket ==
  /\ \A i \in DOMAIN toSrv :
       /\ Known(toSrv[i].ctx, toSrv[i].kind)
       /\ toSrv[i].ctx \notin active \cup finished
       /\ \A j \in DOMAIN line : line[j] # toSrv[i].ctx
  /\ \A i, j \in DOMAIN toSrv : toSrv[i].ctx = toSrv[j].ctx => i = j
InLine ==
  /\ \A i \in DOMAIN line : Known(line[i], jkind[line[i]]) /\ line[i] \notin active \cup finished
  /\ Distinct(line)
InJob ==
  /\ \A c \in active : Known(c, jkind[c]) /\ c \notin finished
  /\ \A c \in Tasks \ active : jpc[c] = "none"
  /\ \A c \in finished : c \in Ctx => c.round <= kround[c.tag]
  /\ mpc \in {"loop", "disc"} =>
       /\ Disc \notin active \cup finished
       /\ \A i \in DOMAIN line : line[i] # Disc
       /\ \A i \in DOMAIN toSrv : toSrv[i].ctx # Disc

\* write_lock is held from the header to the data.
AtLock ==
  /\ \A c \in Tasks : jpc[c] \in {"head", "pay"} <=> wlock = c
  /\ \A c \in Tasks : jpc[c] = "pay" => jkind[c] = "read"

\* A message on its way to the kernel: its request is open and known, it is
\* the only one of its job, or a header with its data behind it.
IsHead(m) == m.what = "ok" /\ jkind[m.ctx] = "read"
InReply ==
  /\ \A i \in DOMAIN toKer :
       LET m == toKer[i] IN
       /\ Known(m.ctx, jkind[m.ctx])
       /\ ~IsHead(m) => m.ctx \in finished
       /\ IsHead(m) => \/ i < Len(toKer) /\ toKer[i + 1].ctx = m.ctx /\ toKer[i + 1].what = "data"
                       \/ i = Len(toKer) /\ jpc[m.ctx] = "pay"
       /\ m.what = "data" =>
            /\ jkind[m.ctx] = "read"
            /\ \/ i > 1 /\ toKer[i - 1].ctx = m.ctx /\ toKer[i - 1].what = "ok"
               \/ i = 1 /\ want = m.ctx.tag
  /\ \A i, j \in DOMAIN toKer :
       i < j /\ toKer[i].ctx = toKer[j].ctx =>
         toKer[i].what = "ok" /\ toKer[j].what = "data"
AtPay ==
  \A c \in Tasks : jpc[c] = "pay" =>
    \/ toKer # <<>> /\ toKer[Len(toKer)].ctx = c /\ toKer[Len(toKer)].what = "ok"
    \/ toKer = <<>> /\ want = c.tag
AtData ==
  want # Nobody =>
    /\ kst[want] = "sent" /\ kkind[want] = "read"
    /\ \/ toKer # <<>> /\ toKer[1].what = "data" /\ toKer[1].ctx.tag = want
       \/ toKer = <<>> /\ wlock # Nobody /\ jpc[wlock] = "pay" /\ wlock.tag = want

Flow == InSocket /\ InLine /\ InJob /\ AtLock /\ InReply /\ AtPay /\ AtData
NbdInv == KernelTypes /\ ServerTypes /\ (up => Flow)

-----------------------------------------------------------------------------
(* Contexts and messages.                                                  *)

LEMMA SameTask ==
  ASSUME NEW c \in Ctx, NEW d \in Ctx, c.tag = d.tag, c.round = d.round PROVE c = d
  BY DEF Ctx

LEMMA TaskParts ==
  /\ Disc \notin Ctx /\ Disc.tag = Nobody /\ Nobody \notin Tags /\ Nobody \notin Tasks
  /\ \A c \in Ctx : c.tag \in Tags /\ c.round \in 1 .. Rounds
  /\ \A c \in Tasks : c.tag \in Tags \cup {Nobody} /\ (c.tag = Nobody <=> c = Disc)
<1>1. Nobody \notin Tags /\ Nobody \notin Tasks
  BY NbdAssumption DEF Tasks
<1>2. \A c \in Ctx : c.tag \in Tags /\ c.round \in 1 .. Rounds
  BY DEF Ctx
<1>3. Disc.tag = Nobody
  BY DEF Disc
<1> QED BY <1>1, <1>2, <1>3 DEF Tasks

\* What is open is the only one of its tag.
LEMMA OpenIsOne ==
  ASSUME NEW c, NEW d, Open(c, kst, kround), Open(d, kst, kround), c.tag = d.tag PROVE c = d
  BY SameTask DEF Open

LEMMA NbdInit == Init => NbdInv
<1> SUFFICES ASSUME Init PROVE NbdInv
  OBVIOUS
<1> USE DEF Init, Pool!PoolInit
<1>1. KernelTypes
  <2>1. None \in Answers
    BY DEF None, Answers
  <2>2. 0 \in 0 .. Rounds
    BY NbdAssumption
  <2> QED BY <2>1, <2>2 DEF KernelTypes
<1>2. ServerTypes
  BY DEF ServerTypes, Tasks
<1>3. Flow
  BY TaskParts DEF Flow, InSocket, InLine, InJob, AtLock, InReply, AtPay, AtData, Distinct, Tasks
<1> QED BY <1>1, <1>2, <1>3 DEF NbdInv

-----------------------------------------------------------------------------
(* Types.                                                                  *)

LEMMA KernelTypesStep ==
  ASSUME KernelTypes, ServerTypes, [Next]_vars, up => Flow PROVE KernelTypes'
<1> USE DEF KernelTypes
<1>1. CASE UNCHANGED kernel
  BY <1>1 DEF kernel
<1>2. ASSUME NEW t \in Tags, KSend(t) PROVE KernelTypes'
  <2>1. kround' \in [Tags -> 0 .. Rounds]
    BY <1>2, NbdAssumption DEF KSend
  <2>2. kkind' \in [Tags -> {"read", "write", "other"}]
    BY <1>2, NbdAssumption DEF KSend
  <2> QED BY <1>2, <2>1, <2>2 DEF KSend
<1>3. ASSUME NEW t \in Tags, KTake(t) PROVE KernelTypes'
  <2>1. None \in Answers
    BY DEF None, Answers
  <2> QED BY <1>3, <2>1 DEF KTake
<1>4. ASSUME NEW t \in Tags, KFail(t) PROVE KernelTypes'
  <2>1. [ok |-> FALSE, good |-> TRUE] \in Answers
    BY DEF Answers
  <2> QED BY <1>4, <2>1 DEF KFail
<1>5. CASE KDown
  BY <1>5 DEF KDown, Disconnect
<1>6. CASE DestroyClears
  BY <1>6 DEF DestroyClears, Disconnect
<1>7. CASE KReceive
  <2> DEFINE m == Head(toKer)
  <2> USE <1>7 DEF KReceive
  <2>1. m \in Replies /\ m.ctx \in Tasks
    <3>1. m \in Replies
      BY DEF ServerTypes
    <3> QED BY <3>1 DEF Replies
  <2>2. m.ctx.tag \in Tags \cup {Nobody}
    BY <2>1, TaskParts
  <2>3. \A a, b \in BOOLEAN : [ok |-> a, good |-> b] \in Answers
    BY DEF Answers
  <2>4. CASE want # Nobody
    <3>1. m.good \in BOOLEAN
      BY <2>1 DEF Replies
    <3> QED BY <2>2, <2>3, <2>4, <3>1
  <2>5. CASE want = Nobody
    BY <2>2, <2>3, <2>5
  <2> QED BY <2>4, <2>5
<1> QED
  BY <1>1, <1>2, <1>3, <1>4, <1>5, <1>6, <1>7
  DEF Next, Reading, Jobs, Main, vars, kernel, ReaderCheck, ReaderGets, ReaderEof, ReaderInterrupted,
      IntrReturns, JobStart, JobWork, JobLock, JobHead, JobPay, JobRefuse, MainLeaves, MainSignal,
      DestroyDisconnects, DestroyJoins

LEMMA ServerTypesStep ==
  ASSUME KernelTypes, ServerTypes, [Next]_vars PROVE ServerTypes'
<1> USE DEF ServerTypes
<1>1. ASSUME NEW t \in Tags, KSend(t) PROVE ServerTypes'
  <2> USE <1>1 DEF KSend
  <2>1. PICK k \in Kinds :
          toSrv' = Append(toSrv, [ctx |-> [tag |-> t, round |-> kround[t] + 1], kind |-> k])
    OBVIOUS
  <2>2. [tag |-> t, round |-> kround[t] + 1] \in Tasks
    BY NbdAssumption DEF KernelTypes, Tasks, Ctx
  <2>3. [ctx |-> [tag |-> t, round |-> kround[t] + 1], kind |-> k] \in Requests
    BY <2>2, NbdAssumption DEF Requests
  <2> QED BY <2>1, <2>3 DEF threads, pool
<1>2. CASE KReceive
  <2>1. toKer' \in Seq(Replies)
    BY <1>2 DEF KReceive
  <2> QED BY <1>2, <2>1 DEF KReceive, pool, threads
<1>3. CASE (\E t \in Tags : KTake(t) \/ KFail(t)) \/ KDown
  BY <1>3 DEF KTake, KFail, KDown, pool, threads
<1>4. CASE ReaderCheck \/ ReaderInterrupted \/ IntrReturns
  BY <1>4 DEF ReaderCheck, ReaderInterrupted, IntrReturns, pool, threads
<1>5. CASE ReaderEof
  BY <1>5 DEF ReaderEof, pool
<1>6. CASE ReaderGets
  <2> USE <1>6 DEF ReaderGets, Pool!Accept
  <2>1. Head(toSrv) \in Requests /\ toSrv' \in Seq(Requests)
    OBVIOUS
  <2>2. Head(toSrv).ctx \in Tasks /\ Head(toSrv).kind \in {"read", "write", "other", "disc"}
    BY <2>1 DEF Requests
  <2>3. line' \in Seq(Tasks) /\ jkind' \in [Tasks -> {"read", "write", "other", "disc"}]
    BY <2>2
  <2> QED BY <2>1, <2>3
<1>7. CASE JobStart
  <2> USE <1>7 DEF JobStart, Pool!Start
  <2>1. Head(line) \in Tasks /\ line' \in Seq(Tasks)
    OBVIOUS
  <2> QED BY <2>1 DEF threads
<1>8. ASSUME NEW c \in Tasks, JobWork(c) PROVE ServerTypes'
  <2>1. jpc' \in [Tasks -> {"none", "work", "reply", "head", "pay", "refuse"}]
    BY <1>8 DEF JobWork
  <2> QED BY <1>8, <2>1 DEF JobWork, pool
<1>9. ASSUME NEW c \in Tasks, JobLock(c) PROVE ServerTypes'
  BY <1>9 DEF JobLock, pool, threads
<1>10. ASSUME NEW c \in Tasks, JobHead(c) \/ JobPay(c) \/ JobRefuse(c) PROVE ServerTypes'
  <2>1. ASSUME NEW w \in {"ok", "err", "data"}, Write(c, w) PROVE toKer' \in Seq(Replies)
    <3>1. [ctx |-> c, what |-> w, good |-> TRUE] \in Replies
      BY DEF Replies
    <3> QED BY <2>1, <3>1 DEF Write
  <2>2. toKer' \in Seq(Replies)
    BY <1>10, <2>1 DEF JobHead, JobPay, JobRefuse
  <2>3. jpc' \in [Tasks -> {"none", "work", "reply", "head", "pay", "refuse"}]
        /\ wlock' \in Tasks \cup {Nobody}
    BY <1>10 DEF JobHead, JobPay, JobRefuse, End, Unlock
  <2>4. line' = line /\ active' \subseteq Tasks /\ finished' \subseteq Tasks
    BY <1>10 DEF JobHead, JobPay, JobRefuse, End, Pool!Complete, pool
  <2> QED BY <1>10, <2>2, <2>3, <2>4 DEF JobHead, JobPay, JobRefuse, threads
<1>11. CASE MainLeaves \/ MainSignal \/ DestroyClears \/ DestroyJoins
  BY <1>11 DEF MainLeaves, MainSignal, DestroyClears, DestroyJoins, pool
<1>12. CASE DestroyDisconnects
  <2>1. [ctx |-> Disc, kind |-> "disc"] \in Requests
    BY DEF Requests, Tasks
  <2>2. toSrv' \in Seq(Requests)
    BY <1>12, <2>1 DEF DestroyDisconnects
  <2> QED BY <1>12, <2>2 DEF DestroyDisconnects, pool
<1>13. CASE UNCHANGED vars
  BY <1>13 DEF vars, pool, threads
<1> QED
  BY <1>1, <1>2, <1>3, <1>4, <1>5, <1>6, <1>7, <1>8, <1>9, <1>10, <1>11, <1>12, <1>13
  DEF Next, Reading, Jobs, Main, Tasks

-----------------------------------------------------------------------------
(* The flow of a request while the connection is up.                       *)

\* A message comes from a job that is over, or is a header whose data is next.
LEMMA Replied ==
  ASSUME NbdInv, up
  PROVE  \A i \in DOMAIN toKer :
           /\ toKer[i] \in Replies /\ toKer[i].ctx \in Tasks
           /\ toKer[i].ctx \in finished \/ (i = Len(toKer) /\ jpc[toKer[i].ctx] = "pay")
<1> SUFFICES ASSUME NEW i \in DOMAIN toKer
             PROVE  /\ toKer[i] \in Replies /\ toKer[i].ctx \in Tasks
                    /\ toKer[i].ctx \in finished \/ (i = Len(toKer) /\ jpc[toKer[i].ctx] = "pay")
  OBVIOUS
<1>1. toKer \in Seq(Replies) /\ InReply
  BY DEF NbdInv, ServerTypes, Flow
<1>2. toKer[i] \in Replies
  BY <1>1
<1>3. toKer[i].ctx \in Tasks
  BY <1>2 DEF Replies
<1>4. CASE ~IsHead(toKer[i])
  BY <1>1, <1>2, <1>3, <1>4 DEF InReply
<1>5. CASE i < Len(toKer) /\ toKer[i + 1].ctx = toKer[i].ctx /\ toKer[i + 1].what = "data"
  <2>1. i + 1 \in DOMAIN toKer /\ ~IsHead(toKer[i + 1])
    BY <1>1, <1>5 DEF IsHead
  <2> QED BY <1>1, <1>2, <1>3, <1>5, <2>1 DEF InReply
<1>6. IsHead(toKer[i]) => \/ i < Len(toKer) /\ toKer[i + 1].ctx = toKer[i].ctx /\ toKer[i + 1].what = "data"
                          \/ i = Len(toKer) /\ jpc[toKer[i].ctx] = "pay"
  BY <1>1 DEF InReply
<1> QED BY <1>2, <1>3, <1>4, <1>5, <1>6

LEMMA SendFlows ==
  ASSUME NbdInv, up, NEW t \in Tags, KSend(t) PROVE Flow'
<1> DEFINE c == [tag |-> t, round |-> kround[t] + 1]
<1>1. c \in Ctx /\ c \in Tasks /\ c # Disc /\ c.tag = t /\ c.round = kround[t] + 1
  BY NbdAssumption, TaskParts DEF NbdInv, KernelTypes, Tasks, Ctx, KSend
<1>2. PICK k \in Kinds : /\ kkind' = [kkind EXCEPT ![t] = k]
                         /\ toSrv' = Append(toSrv, [ctx |-> c, kind |-> k])
  BY DEF KSend
<1>3. /\ kst[t] = "idle" /\ kst' = [kst EXCEPT ![t] = "sent"]
      /\ kround' = [kround EXCEPT ![t] = kround[t] + 1]
      /\ UNCHANGED <<up, kans, want, toKer, pool, jpc, jkind, wlock, threads>>
  BY DEF KSend
<1> HIDE DEF c
<1>4. \A d, j : KnownAs(d, j, kst, kround, kkind) =>
                  KnownAs(d, j, kst', kround', kkind') /\ d # c /\ d.tag # t
  BY <1>1, <1>2, <1>3, TaskParts DEF KnownAs, Open, NbdInv, KernelTypes
<1>5. KnownAs(c, k, kst', kround', kkind')
  <2>1. kst'[t] = "sent" /\ kround'[t] = kround[t] + 1 /\ kkind'[t] = k
    BY <1>2, <1>3 DEF NbdInv, KernelTypes
  <2> QED BY <1>1, <2>1 DEF KnownAs, Open
<1>6. /\ c \notin active \cup finished
      /\ \A j \in DOMAIN line : line[j] # c
      /\ \A j \in DOMAIN toSrv : toSrv[j].ctx # c
  <2>1. \A d \in finished : d \in Ctx => d.round <= kround[d.tag]
    BY DEF NbdInv, Flow, InJob
  <2>2. c \notin finished
    BY <1>1, <2>1, NbdAssumption DEF NbdInv, KernelTypes
  <2> QED BY <1>1, <1>4, <2>2 DEF NbdInv, Flow, InJob, InLine, InSocket, Known
<1>7. InSocket'
  <2>1. toSrv \in Seq(Requests)
    BY DEF NbdInv, ServerTypes
  <2> DEFINE r == [ctx |-> c, kind |-> k]
  <2>2. r.ctx = c /\ r.kind = k /\ toSrv' = Append(toSrv, r)
    BY <1>2
  <2> HIDE DEF r
  <2>3. /\ DOMAIN toSrv' = 1 .. Len(toSrv) + 1 /\ DOMAIN toSrv = 1 .. Len(toSrv) /\ Len(toSrv) \in Nat
        /\ toSrv'[Len(toSrv) + 1] = r
        /\ \A i \in DOMAIN toSrv : toSrv'[i] = toSrv[i]
    BY <2>1, <2>2
  <2>4. InSocket
    BY DEF NbdInv, Flow
  <2>5. line' = line /\ active' = active /\ finished' = finished
    BY <1>3 DEF pool
  <2>6. ASSUME NEW i \in DOMAIN toSrv'
        PROVE  /\ KnownAs(toSrv'[i].ctx, toSrv'[i].kind, kst', kround', kkind')
               /\ toSrv'[i].ctx \notin active \cup finished
               /\ \A j \in DOMAIN line : line[j] # toSrv'[i].ctx
    <3>1. CASE i \in DOMAIN toSrv
      BY <1>4, <2>3, <2>4, <3>1 DEF InSocket, Known
    <3>2. CASE i = Len(toSrv) + 1
      BY <1>5, <1>6, <2>2, <2>3, <3>2
    <3> QED BY <2>3, <3>1, <3>2
  <2>7. ASSUME NEW i \in DOMAIN toSrv', NEW j \in DOMAIN toSrv', toSrv'[i].ctx = toSrv'[j].ctx
        PROVE  i = j
    BY <1>6, <2>2, <2>3, <2>4, <2>7 DEF InSocket
  <2> QED BY <2>5, <2>6, <2>7 DEF InSocket, Known
<1>8. InLine' /\ InJob'
  <2>1. \A d \in finished : d \in Ctx => kround'[d.tag] >= kround[d.tag] /\ kround'[d.tag] \in Nat
                                         /\ kround[d.tag] \in Nat /\ d.round \in Nat
    BY <1>3, TaskParts, NbdAssumption DEF NbdInv, KernelTypes
  <2>2. \A d \in finished : d \in Ctx => d.round <= kround'[d.tag]
    BY <2>1 DEF NbdInv, Flow, InJob
  <2>3. toSrv \in Seq(Requests)
    BY DEF NbdInv, ServerTypes
  <2>4. mpc \in {"loop", "disc"} => \A i \in DOMAIN toSrv' : toSrv'[i].ctx # Disc
    BY <1>1, <1>2, <2>3 DEF NbdInv, Flow, InJob
  <2> QED BY <1>3, <1>4, <2>2, <2>4 DEF NbdInv, Flow, InLine, InJob, Distinct, Known, pool, threads
<1>9. AtLock' /\ AtPay'
  BY <1>3 DEF NbdInv, Flow, AtLock, AtPay, pool
<1>10. InReply'
  BY <1>3, <1>4 DEF NbdInv, Flow, InReply, IsHead, Known, pool
<1>11. AtData'
  BY <1>2, <1>3 DEF NbdInv, KernelTypes, Flow, AtData
<1> QED BY <1>7, <1>8, <1>9, <1>10, <1>11 DEF Flow

LEMMA TakeFlows ==
  ASSUME NbdInv, up, NEW t \in Tags, KTake(t) PROVE Flow'
<1>1. /\ kst[t] = "done" /\ kst' = [kst EXCEPT ![t] = "idle"] /\ kkind' = [kkind EXCEPT ![t] = "other"]
      /\ UNCHANGED <<up, kround, want, toSrv, toKer, pool, jpc, jkind, wlock, threads>>
  BY DEF KTake
<1>2. \A d, j : KnownAs(d, j, kst, kround, kkind) => KnownAs(d, j, kst', kround', kkind')
  BY <1>1, TaskParts DEF KnownAs, Open, NbdInv, KernelTypes
<1>3. InSocket'
  BY <1>1, <1>2 DEF NbdInv, Flow, InSocket, Known, pool
<1>4. InLine' /\ InJob'
  BY <1>1, <1>2 DEF NbdInv, Flow, InLine, InJob, Distinct, Known, pool, threads
<1>5. AtLock' /\ AtPay'
  BY <1>1 DEF NbdInv, Flow, AtLock, AtPay
<1>6. InReply'
  BY <1>1, <1>2 DEF NbdInv, Flow, InReply, IsHead, Known, pool
<1>7. AtData'
  BY <1>1 DEF NbdInv, KernelTypes, Flow, AtData
<1> QED BY <1>3, <1>4, <1>5, <1>6, <1>7 DEF Flow

\* The kernel takes the first message; o is its context.
LEMMA FirstMessage ==
  ASSUME NbdInv, up, toKer # <<>>, NEW o, o = Head(toKer).ctx
  PROVE  /\ o \in Tasks /\ KnownAs(o, jkind[o], kst, kround, kkind)
         /\ Len(toKer) \in Nat \ {0} /\ DOMAIN toKer = 1 .. Len(toKer) /\ Head(toKer) = toKer[1]
         /\ DOMAIN Tail(toKer) = 1 .. Len(toKer) - 1 /\ Len(Tail(toKer)) = Len(toKer) - 1
         /\ \A i \in DOMAIN Tail(toKer) : i + 1 \in DOMAIN toKer /\ i + 1 > 1 /\ Tail(toKer)[i] = toKer[i + 1]
<1>1. toKer \in Seq(Replies) /\ InReply
  BY DEF NbdInv, ServerTypes, Flow
<1>2. /\ Len(toKer) \in Nat \ {0} /\ DOMAIN toKer = 1 .. Len(toKer) /\ Head(toKer) = toKer[1]
      /\ DOMAIN Tail(toKer) = 1 .. Len(toKer) - 1 /\ Len(Tail(toKer)) = Len(toKer) - 1
  BY <1>1
<1>3. \A i \in 1 .. Len(toKer) - 1 : Tail(toKer)[i] = toKer[i + 1]
  BY <1>1
<1>4. 1 \in DOMAIN toKer
  BY <1>2
<1>5. o \in Tasks
  BY <1>2, <1>4, Replied
<1>6. KnownAs(o, jkind[o], kst, kround, kkind)
  BY <1>1, <1>2, <1>4 DEF InReply, Known
<1> QED BY <1>2, <1>3, <1>5, <1>6

\* It is the last of its job: what is left is about other requests.
LEMMA LastReplyFlows ==
  ASSUME NbdInv, up, toKer # <<>>, ~IsHead(Head(toKer)), NEW o, o = Head(toKer).ctx,
         toKer' = Tail(toKer), want' = Nobody,
         \A d, j : KnownAs(d, j, kst, kround, kkind) /\ d # o => KnownAs(d, j, kst', kround', kkind'),
         UNCHANGED <<up, kround, kkind, toSrv, pool, jpc, jkind, wlock, threads>>
  PROVE  Flow'
<1>1. o \in finished
  BY FirstMessage DEF NbdInv, Flow, InReply
<1>2. \A i \in DOMAIN Tail(toKer) : Tail(toKer)[i].ctx # o
  <2> SUFFICES ASSUME NEW i \in DOMAIN Tail(toKer), Tail(toKer)[i].ctx = o PROVE FALSE
    OBVIOUS
  <2>1. 1 \in DOMAIN toKer /\ i + 1 \in DOMAIN toKer /\ 1 < i + 1 /\ toKer[i + 1].ctx = toKer[1].ctx
    BY FirstMessage
  <2>2. toKer[1].what = "ok" /\ toKer[i + 1].what = "data"
    BY <2>1 DEF NbdInv, Flow, InReply
  <2>3. jkind[toKer[1].ctx] = "read"
    BY <2>1, <2>2 DEF NbdInv, Flow, InReply
  <2> QED BY <2>2, <2>3, FirstMessage DEF IsHead
<1>3. InSocket'
  <2>1. \A i \in DOMAIN toSrv : toSrv[i].ctx # o
    BY <1>1 DEF NbdInv, Flow, InSocket
  <2> QED BY <2>1 DEF NbdInv, Flow, InSocket, Known, pool
<1>4. InLine' /\ InJob'
  <2>1. (\A i \in DOMAIN line : line[i] # o) /\ o \notin active
    BY <1>1 DEF NbdInv, Flow, InLine, InJob
  <2> QED BY <2>1 DEF NbdInv, Flow, InLine, InJob, Distinct, Known, pool, threads
<1>5. AtLock'
  BY DEF NbdInv, Flow, AtLock
<1>6. InReply'
  <2> DEFINE q == Tail(toKer)
  <2>1. /\ DOMAIN q = 1 .. Len(toKer) - 1 /\ Len(q) = Len(toKer) - 1 /\ Len(toKer) \in Nat \ {0}
        /\ DOMAIN toKer = 1 .. Len(toKer) /\ Head(toKer) = toKer[1]
        /\ \A i \in DOMAIN q : q[i] = toKer[i + 1]
    BY FirstMessage
  <2> HIDE DEF q
  <2>2. InReply
    BY DEF NbdInv, Flow
  <2>3. ASSUME NEW i \in DOMAIN q
        PROVE  /\ KnownAs(q[i].ctx, jkind[q[i].ctx], kst', kround', kkind')
               /\ ~IsHead(q[i]) => q[i].ctx \in finished
               /\ IsHead(q[i]) => \/ i < Len(q) /\ q[i + 1].ctx = q[i].ctx /\ q[i + 1].what = "data"
                                  \/ i = Len(q) /\ jpc[q[i].ctx] = "pay"
               /\ q[i].what = "data" =>
                    /\ jkind[q[i].ctx] = "read"
                    /\ i > 1 /\ q[i - 1].ctx = q[i].ctx /\ q[i - 1].what = "ok"
    <3>1. i + 1 \in DOMAIN toKer /\ q[i] = toKer[i + 1] /\ i \in Nat /\ i > 0
      BY <2>1
    <3>2. KnownAs(q[i].ctx, jkind[q[i].ctx], kst', kround', kkind')
      BY <1>2, <2>2, <3>1 DEF InReply, Known, q
    <3>3. ~IsHead(q[i]) => q[i].ctx \in finished
      BY <2>2, <3>1 DEF InReply
    <3>4. ASSUME IsHead(q[i])
          PROVE  \/ i < Len(q) /\ q[i + 1].ctx = q[i].ctx /\ q[i + 1].what = "data"
                 \/ i = Len(q) /\ jpc[q[i].ctx] = "pay"
      <4>1. \/ i + 1 < Len(toKer) /\ toKer[i + 2].ctx = q[i].ctx /\ toKer[i + 2].what = "data"
            \/ i + 1 = Len(toKer) /\ jpc[q[i].ctx] = "pay"
        BY <2>2, <3>1, <3>4 DEF InReply
      <4>2. CASE i + 1 < Len(toKer)
        <5>1. i + 1 \in DOMAIN q /\ q[i + 1] = toKer[i + 2]
          BY <2>1, <3>1, <4>2
        <5> QED BY <2>1, <3>1, <4>1, <4>2, <5>1
      <4> QED BY <2>1, <3>1, <4>1, <4>2
    <3>5. ASSUME q[i].what = "data"
          PROVE  jkind[q[i].ctx] = "read" /\ i > 1 /\ q[i - 1].ctx = q[i].ctx /\ q[i - 1].what = "ok"
      <4>1. /\ jkind[q[i].ctx] = "read"
            /\ i + 1 > 1 /\ toKer[i].ctx = q[i].ctx /\ toKer[i].what = "ok"
        BY <2>2, <3>1, <3>5 DEF InReply
      <4>2. i # 1
        BY <1>2, <2>1, <3>1, <4>1 DEF q
      <4>3. i > 1 /\ q[i - 1] = toKer[i]
        BY <2>1, <3>1, <4>2
      <4> QED BY <4>1, <4>3
    <3> QED BY <3>2, <3>3, <3>4, <3>5
  <2>4. ASSUME NEW i \in DOMAIN q, NEW j \in DOMAIN q, i < j, q[i].ctx = q[j].ctx
        PROVE  q[i].what = "ok" /\ q[j].what = "data"
    <3>1. i + 1 \in DOMAIN toKer /\ j + 1 \in DOMAIN toKer /\ i + 1 < j + 1
          /\ q[i] = toKer[i + 1] /\ q[j] = toKer[j + 1]
      BY <2>1, <2>4
    <3> QED BY <2>2, <2>4, <3>1 DEF InReply
  <2>5. toKer' = q /\ finished' = finished
    BY DEF pool, q
  <2> QED BY <2>3, <2>4, <2>5 DEF InReply, IsHead, Known
<1>7. AtPay'
  <2>1. ASSUME NEW c \in Tasks, jpc[c] = "pay"
        PROVE  Tail(toKer) # <<>> /\ Tail(toKer)[Len(Tail(toKer))].ctx = c
               /\ Tail(toKer)[Len(Tail(toKer))].what = "ok"
    <3>1. toKer[Len(toKer)].ctx = c /\ toKer[Len(toKer)].what = "ok" /\ jkind[c] = "read"
      BY <2>1 DEF NbdInv, Flow, AtPay, AtLock
    <3>2. Len(toKer) # 1
      BY <3>1, FirstMessage DEF IsHead
    <3>3. /\ Len(Tail(toKer)) = Len(toKer) - 1 /\ DOMAIN Tail(toKer) = 1 .. Len(toKer) - 1
          /\ Len(toKer) \in Nat \ {0}
          /\ \A i \in DOMAIN Tail(toKer) : Tail(toKer)[i] = toKer[i + 1]
      BY FirstMessage
    <3>4. Len(toKer) - 1 \in DOMAIN Tail(toKer) /\ (Len(toKer) - 1) + 1 = Len(toKer)
      BY <3>2, <3>3
    <3>5. Tail(toKer)[Len(Tail(toKer))] = toKer[Len(toKer)]
      BY <3>3, <3>4
    <3>6. \A s : Len(s) # 0 => s # <<>>
      OBVIOUS
    <3>7. Tail(toKer) # <<>>
      <4>1. Len(Tail(toKer)) # 0
        BY <3>2, <3>3
      <4> HIDE <3>3
      <4> QED BY <3>6, <4>1, Zenon
    <3> QED BY <3>1, <3>5, <3>7
  <2> QED BY <2>1 DEF AtPay
<1>8. AtData'
  BY DEF AtData
<1> QED BY <1>3, <1>4, <1>5, <1>6, <1>7, <1>8 DEF Flow

\* It is a header: its data is next, or the job is about to send it.
LEMMA HeaderFlows ==
  ASSUME NbdInv, up, toKer # <<>>, IsHead(Head(toKer)), NEW o, o = Head(toKer).ctx,
         want = Nobody, toKer' = Tail(toKer), want' = o.tag,
         UNCHANGED <<up, kst, kround, kkind, toSrv, pool, jpc, jkind, wlock, threads>>
  PROVE  Flow'
<1> DEFINE q == Tail(toKer)
<1>1. /\ DOMAIN q = 1 .. Len(toKer) - 1 /\ Len(q) = Len(toKer) - 1 /\ Len(toKer) \in Nat \ {0}
      /\ DOMAIN toKer = 1 .. Len(toKer) /\ Head(toKer) = toKer[1]
      /\ \A i \in DOMAIN q : q[i] = toKer[i + 1]
  BY FirstMessage
<1>2. o \in Tasks /\ KnownAs(o, jkind[o], kst, kround, kkind)
  BY FirstMessage
<1>3. toKer' = q
  OBVIOUS
<1>4. q \in Seq(Replies)
  BY DEF NbdInv, ServerTypes
<1> HIDE DEF q
<1>5. kst[o.tag] = "sent" /\ kkind[o.tag] = "read" /\ o.tag # Nobody
  BY <1>2, TaskParts DEF KnownAs, Open, IsHead
<1>6. InReply /\ AtPay /\ AtLock
  BY DEF NbdInv, Flow
<1>7. \/ Len(toKer) > 1 /\ toKer[2].ctx = o /\ toKer[2].what = "data"
      \/ Len(toKer) = 1 /\ jpc[o] = "pay"
  BY <1>1, <1>6 DEF InReply
<1>8. \/ q # <<>> /\ q[1].ctx = o /\ q[1].what = "data"
      \/ q = <<>> /\ jpc[o] = "pay"
  <2>1. CASE Len(toKer) > 1
    <3>1. 1 \in DOMAIN q /\ q[1] = toKer[2]
      BY <1>1, <2>1
    <3> QED BY <1>1, <1>7, <2>1, <3>1
  <2>2. CASE Len(toKer) = 1
    BY <1>1, <1>4, <1>7, <2>2
  <2> QED BY <1>7, <2>1, <2>2
<1>9. InSocket' /\ InLine' /\ InJob' /\ AtLock'
  BY DEF NbdInv, Flow, InSocket, InLine, InJob, AtLock, Distinct, Known, pool, threads
<1>10. InReply'
  <2>1. ASSUME NEW i \in DOMAIN q
        PROVE  /\ KnownAs(q[i].ctx, jkind[q[i].ctx], kst, kround, kkind)
               /\ ~IsHead(q[i]) => q[i].ctx \in finished
               /\ IsHead(q[i]) => \/ i < Len(q) /\ q[i + 1].ctx = q[i].ctx /\ q[i + 1].what = "data"
                                  \/ i = Len(q) /\ jpc[q[i].ctx] = "pay"
               /\ q[i].what = "data" =>
                    /\ jkind[q[i].ctx] = "read"
                    /\ \/ i > 1 /\ q[i - 1].ctx = q[i].ctx /\ q[i - 1].what = "ok"
                       \/ i = 1 /\ want' = q[i].ctx.tag
    <3>1. i + 1 \in DOMAIN toKer /\ q[i] = toKer[i + 1] /\ i \in Nat /\ i > 0
      BY <1>1
    <3>2. KnownAs(q[i].ctx, jkind[q[i].ctx], kst, kround, kkind)
      BY <1>6, <3>1 DEF InReply, Known
    <3>3. ~IsHead(q[i]) => q[i].ctx \in finished
      BY <1>6, <3>1 DEF InReply
    <3>4. ASSUME IsHead(q[i])
          PROVE  \/ i < Len(q) /\ q[i + 1].ctx = q[i].ctx /\ q[i + 1].what = "data"
                 \/ i = Len(q) /\ jpc[q[i].ctx] = "pay"
      <4>1. \/ i + 1 < Len(toKer) /\ toKer[i + 2].ctx = q[i].ctx /\ toKer[i + 2].what = "data"
            \/ i + 1 = Len(toKer) /\ jpc[q[i].ctx] = "pay"
        BY <1>6, <3>1, <3>4 DEF InReply
      <4>2. CASE i + 1 < Len(toKer)
        <5>1. i + 1 \in DOMAIN q /\ q[i + 1] = toKer[i + 2]
          BY <1>1, <3>1, <4>2
        <5> QED BY <1>1, <3>1, <4>1, <4>2, <5>1
      <4> QED BY <1>1, <3>1, <4>1, <4>2
    <3>5. ASSUME q[i].what = "data"
          PROVE  /\ jkind[q[i].ctx] = "read"
                 /\ \/ i > 1 /\ q[i - 1].ctx = q[i].ctx /\ q[i - 1].what = "ok"
                    \/ i = 1 /\ want' = q[i].ctx.tag
      <4>1. /\ jkind[q[i].ctx] = "read"
            /\ i + 1 > 1 /\ toKer[i].ctx = q[i].ctx /\ toKer[i].what = "ok"
        BY <1>6, <3>1, <3>5 DEF InReply
      <4>2. CASE i = 1
        BY <1>1, <4>1, <4>2
      <4>3. CASE i # 1
        <5>1. i > 1 /\ q[i - 1] = toKer[i]
          BY <1>1, <3>1, <4>3
        <5> QED BY <4>1, <5>1
      <4> QED BY <4>2, <4>3
    <3> QED BY <3>2, <3>3, <3>4, <3>5
  <2>2. ASSUME NEW i \in DOMAIN q, NEW j \in DOMAIN q, i < j, q[i].ctx = q[j].ctx
        PROVE  q[i].what = "ok" /\ q[j].what = "data"
    <3>1. i + 1 \in DOMAIN toKer /\ j + 1 \in DOMAIN toKer /\ i + 1 < j + 1
          /\ q[i] = toKer[i + 1] /\ q[j] = toKer[j + 1]
      BY <1>1, <2>2
    <3> QED BY <1>6, <2>2, <3>1 DEF InReply
  <2>3. finished' = finished
    BY DEF pool
  <2> QED BY <1>3, <2>1, <2>2, <2>3 DEF InReply, IsHead, Known
<1>11. AtPay'
  <2>1. ASSUME NEW c \in Tasks, jpc[c] = "pay"
        PROVE  \/ q # <<>> /\ q[Len(q)].ctx = c /\ q[Len(q)].what = "ok"
               \/ q = <<>> /\ o = c
    <3>1. toKer[Len(toKer)].ctx = c /\ toKer[Len(toKer)].what = "ok"
      BY <1>6, <2>1 DEF AtPay
    <3>2. CASE Len(toKer) = 1
      BY <1>1, <1>4, <3>1, <3>2
    <3>3. CASE Len(toKer) # 1
      <4>1. Len(q) \in DOMAIN q /\ q[Len(q)] = toKer[Len(toKer)]
        BY <1>1, <3>3
      <4> QED BY <3>1, <4>1
    <3> QED BY <3>2, <3>3
  <2> QED BY <1>3, <2>1 DEF AtPay
<1>12. AtData'
  <2>1. jpc[o] = "pay" => wlock = o /\ wlock # Nobody
    BY <1>2, <1>6, TaskParts DEF AtLock
  <2> QED BY <1>3, <1>5, <1>8, <2>1 DEF AtData
<1> QED BY <1>9, <1>10, <1>11, <1>12 DEF Flow

LEMMA ReceiveFlows ==
  ASSUME NbdInv, up, KReceive PROVE Flow'
<1> DEFINE m == Head(toKer)
           o == m.ctx
<1>1. /\ toKer # <<>> /\ toKer' = Tail(toKer)
      /\ UNCHANGED <<up, kround, kkind, toSrv, pool, jpc, jkind, wlock, threads>>
  BY DEF KReceive
<1>2. /\ o \in Tasks /\ KnownAs(o, jkind[o], kst, kround, kkind)
      /\ 1 \in DOMAIN toKer /\ m = toKer[1]
  BY <1>1, FirstMessage
<1>3. o # Disc => Open(o, kst, kround) /\ o.tag \in Tags /\ kkind[o.tag] = jkind[o]
  BY <1>2, TaskParts DEF KnownAs, Open
<1>4. ASSUME o # Disc, kst' = [kst EXCEPT ![o.tag] = "done"]
      PROVE  \A d, j : KnownAs(d, j, kst, kround, kkind) /\ d # o => KnownAs(d, j, kst', kround', kkind')
  <2> SUFFICES ASSUME NEW d, NEW j, KnownAs(d, j, kst, kround, kkind), d # o
               PROVE  KnownAs(d, j, kst', kround', kkind')
    OBVIOUS
  <2>1. Open(d, kst, kround) => d.tag # o.tag
    BY <1>3, <1>4, OpenIsOne
  <2> QED BY <1>1, <1>4, <2>1 DEF KnownAs, Open, NbdInv, KernelTypes
<1>5. CASE want # Nobody
  <2>1. m.what = "data" /\ o.tag = want /\ ~IsHead(m)
    BY <1>1, <1>2, <1>5 DEF NbdInv, Flow, AtData, IsHead
  <2>2. o # Disc
    BY <1>5, <2>1, TaskParts
  <2>3. want' = Nobody /\ kst' = [kst EXCEPT ![o.tag] = "done"]
    BY <1>5, <2>1 DEF KReceive
  <2> QED BY <1>1, <1>4, <2>1, <2>2, <2>3, LastReplyFlows
<1>6. CASE want = Nobody /\ o.tag = Nobody
  <2>1. o = Disc /\ jkind[o] = "disc"
    BY <1>2, <1>6, TaskParts DEF KnownAs, Open
  <2>2. ~IsHead(m)
    BY <2>1 DEF IsHead
  <2>3. want' = Nobody /\ kst' = kst
    BY <1>6 DEF KReceive
  <2> QED BY <1>1, <2>2, <2>3, LastReplyFlows
<1>7. CASE want = Nobody /\ o.tag # Nobody /\ m.what = "ok" /\ kkind[o.tag] = "read"
  <2>1. IsHead(m)
    BY <1>3, <1>7, TaskParts DEF IsHead
  <2>2. want' = o.tag /\ kst' = kst
    BY <1>7 DEF KReceive
  <2> QED BY <1>1, <1>7, <2>1, <2>2, HeaderFlows
<1>8. CASE want = Nobody /\ o.tag # Nobody /\ ~(m.what = "ok" /\ kkind[o.tag] = "read")
  <2>1. o # Disc /\ ~IsHead(m)
    BY <1>3, <1>8, TaskParts DEF IsHead
  <2>2. want' = Nobody /\ kst' = [kst EXCEPT ![o.tag] = "done"]
    BY <1>8 DEF KReceive
  <2>3. \A d, j : KnownAs(d, j, kst, kround, kkind) /\ d # o => KnownAs(d, j, kst', kround', kkind')
    BY <1>4, <2>1, <2>2
  <2>4. ~IsHead(Head(toKer)) /\ want' = Nobody
    BY <2>1, <2>2
  <2> QED BY <1>1, <2>3, <2>4, LastReplyFlows
<1> QED BY <1>5, <1>6, <1>7, <1>8

\* Facts about a sequence that got one element more.
LEMMA Appended ==
  ASSUME NEW S, NEW s \in Seq(S), NEW e
  PROVE  /\ Len(s) \in Nat /\ DOMAIN s = 1 .. Len(s)
         /\ Len(Append(s, e)) = Len(s) + 1 /\ DOMAIN Append(s, e) = 1 .. Len(s) + 1
         /\ Append(s, e)[Len(s) + 1] = e
         /\ \A i \in DOMAIN s : Append(s, e)[i] = s[i]
         /\ \A i \in DOMAIN Append(s, e) : i \in DOMAIN s \/ i = Len(s) + 1
  OBVIOUS

\* Facts about a sequence that lost its first element.
LEMMA Shortened ==
  ASSUME NEW S, NEW s \in Seq(S), s # <<>>
  PROVE  /\ Len(s) \in Nat /\ 1 \in DOMAIN s /\ Head(s) = s[1]
         /\ \A i \in DOMAIN Tail(s) : i + 1 \in DOMAIN s /\ i + 1 # 1 /\ Tail(s)[i] = s[i + 1]
         /\ \A i, j \in DOMAIN Tail(s) : i + 1 = j + 1 => i = j
  OBVIOUS

\* The reader puts what it took at the end of the pool's line.
LEMMA GetsFlows ==
  ASSUME NbdInv, up, ReaderGets PROVE Flow'
<1> DEFINE r == Head(toSrv)
           c == r.ctx
<1>1. /\ toSrv # <<>> /\ line' = Append(line, c) /\ toSrv' = Tail(toSrv)
      /\ jkind' = [jkind EXCEPT ![c] = r.kind]
      /\ UNCHANGED <<active, finished, kernel, toKer, jpc, wlock, running, intr, mpc>>
  BY DEF ReaderGets, Pool!Accept
<1>2. toSrv \in Seq(Requests) /\ line \in Seq(Tasks)
  BY DEF NbdInv, ServerTypes
<1>3. /\ 1 \in DOMAIN toSrv /\ r = toSrv[1]
      /\ \A i \in DOMAIN toSrv' : i + 1 \in DOMAIN toSrv /\ i + 1 # 1 /\ toSrv'[i] = toSrv[i + 1]
      /\ \A i, j \in DOMAIN toSrv' : i + 1 = j + 1 => i = j
  BY <1>1, <1>2, Shortened
<1>4. /\ DOMAIN line' = 1 .. Len(line) + 1 /\ DOMAIN line = 1 .. Len(line) /\ Len(line) \in Nat
      /\ line'[Len(line) + 1] = c
      /\ \A i \in DOMAIN line : line'[i] = line[i]
      /\ \A i \in DOMAIN line' : i \in DOMAIN line \/ i = Len(line) + 1
  BY <1>1, <1>2, Appended
<1>5. /\ KnownAs(c, r.kind, kst, kround, kkind) /\ c \notin active \cup finished
      /\ \A j \in DOMAIN line : line[j] # c
  BY <1>3 DEF NbdInv, Flow, InSocket, Known
<1>6. c \in Tasks /\ jpc[c] = "none"
  <2>1. r \in Requests
    BY <1>2, <1>3
  <2>2. c \in Tasks
    BY <2>1 DEF Requests
  <2> QED BY <1>5, <2>2 DEF NbdInv, Flow, InJob
<1>7. jkind'[c] = r.kind /\ \A d \in Tasks : d # c => jkind'[d] = jkind[d]
  BY <1>1, <1>6 DEF NbdInv, ServerTypes
<1>8. InSocket'
  <2> HIDE DEF r, c
  <2>1. ASSUME NEW i \in DOMAIN toSrv'
        PROVE  /\ KnownAs(toSrv'[i].ctx, toSrv'[i].kind, kst, kround, kkind)
               /\ toSrv'[i].ctx \notin active \cup finished
               /\ \A j \in DOMAIN line' : line'[j] # toSrv'[i].ctx
    <3>1. i + 1 \in DOMAIN toSrv /\ toSrv'[i] = toSrv[i + 1] /\ toSrv[i + 1].ctx # c
      BY <1>3 DEF NbdInv, Flow, InSocket, c
    <3> QED BY <1>4, <3>1 DEF NbdInv, Flow, InSocket, Known
  <2>2. ASSUME NEW i \in DOMAIN toSrv', NEW j \in DOMAIN toSrv', toSrv'[i].ctx = toSrv'[j].ctx
        PROVE  i = j
    BY <1>3, <2>2 DEF NbdInv, Flow, InSocket
  <2> QED BY <1>1, <2>1, <2>2 DEF InSocket, Known, kernel
<1>9. InLine'
  <2> HIDE DEF r, c
  <2>1. ASSUME NEW i \in DOMAIN line'
        PROVE  /\ KnownAs(line'[i], jkind'[line'[i]], kst, kround, kkind)
               /\ line'[i] \notin active \cup finished
    <3>1. CASE i \in DOMAIN line
      <4>1. line'[i] = line[i] /\ line[i] \in Tasks /\ line[i] # c
        BY <1>2, <1>4, <1>5, <3>1
      <4> QED BY <1>7, <3>1, <4>1 DEF NbdInv, Flow, InLine, Known
    <3>2. CASE i = Len(line) + 1
      BY <1>4, <1>5, <1>7, <3>2
    <3> QED BY <1>4, <3>1, <3>2
  <2>2. Distinct(line')
    BY <1>4, <1>5 DEF NbdInv, Flow, InLine, Distinct
  <2> QED BY <1>1, <2>1, <2>2 DEF InLine, Known, kernel, Distinct
<1>10. InJob'
  <2> HIDE DEF r, c
  <2>1. \A d \in active : d # c /\ d \in Tasks
    BY <1>5 DEF NbdInv, ServerTypes
  <2>2. \A d \in active : KnownAs(d, jkind'[d], kst, kround, kkind) /\ d \notin finished
    BY <1>7, <2>1 DEF NbdInv, Flow, InJob, Known
  <2>3. ASSUME mpc \in {"loop", "disc"}
        PROVE  /\ Disc \notin active \cup finished
               /\ \A i \in DOMAIN line' : line'[i] # Disc
               /\ \A i \in DOMAIN toSrv' : toSrv'[i].ctx # Disc
    BY <1>3, <1>4, <2>3 DEF NbdInv, Flow, InJob, c
  <2> QED BY <1>1, <2>2, <2>3 DEF NbdInv, Flow, InJob, Known, kernel
<1>11. AtLock'
  BY <1>1, <1>6, <1>7 DEF NbdInv, Flow, AtLock
<1>12. InReply'
  <2>1. \A i \in DOMAIN toKer : jkind'[toKer[i].ctx] = jkind[toKer[i].ctx]
    BY <1>5, <1>6, <1>7, Replied
  <2> HIDE DEF r, c
  <2> QED BY <1>1, <2>1 DEF NbdInv, Flow, InReply, IsHead, Known, kernel
<1>13. AtPay' /\ AtData'
  BY <1>1 DEF NbdInv, Flow, AtPay, AtData, kernel
<1> QED BY <1>8, <1>9, <1>10, <1>11, <1>12, <1>13 DEF Flow

LEMMA StartFlows ==
  ASSUME NbdInv, up, JobStart PROVE Flow'
<1> DEFINE c == Head(line)
<1>1. /\ line # <<>> /\ line' = Tail(line) /\ active' = active \cup {c} /\ finished' = finished
      /\ jpc' = [jpc EXCEPT ![c] = "work"]
      /\ UNCHANGED <<kernel, toSrv, toKer, jkind, wlock, threads>>
  BY DEF JobStart, Pool!Start
<1>2. line \in Seq(Tasks)
  BY DEF NbdInv, ServerTypes
<1>3. /\ 1 \in DOMAIN line /\ c = line[1]
      /\ \A i \in DOMAIN line' : i + 1 \in DOMAIN line /\ i + 1 # 1 /\ line'[i] = line[i + 1]
      /\ \A i, j \in DOMAIN line' : i + 1 = j + 1 => i = j
  BY <1>1, <1>2, Shortened
<1>4. /\ KnownAs(c, jkind[c], kst, kround, kkind) /\ c \notin active \cup finished
      /\ \A i \in DOMAIN line' : line'[i] # c
  BY <1>3 DEF NbdInv, Flow, InLine, Distinct, Known
<1>5. c \in Tasks /\ jpc[c] = "none"
  BY <1>2, <1>3, <1>4 DEF NbdInv, Flow, InJob
<1>6. wlock # c /\ jpc'[c] = "work" /\ \A d \in Tasks : d # c => jpc'[d] = jpc[d]
  BY <1>1, <1>5 DEF NbdInv, ServerTypes, Flow, AtLock
<1>7. InSocket'
  <2>1. \A i \in DOMAIN toSrv : toSrv[i].ctx # c
    BY <1>3 DEF NbdInv, Flow, InSocket
  <2> HIDE DEF c
  <2> QED BY <1>1, <1>3, <2>1 DEF NbdInv, Flow, InSocket, Known, kernel
<1>8. InLine'
  <2> HIDE DEF c
  <2> QED BY <1>1, <1>3, <1>4 DEF NbdInv, Flow, InLine, Distinct, Known, kernel
<1>9. InJob'
  <2>1. mpc \in {"loop", "disc"} => c # Disc
    BY <1>3 DEF NbdInv, Flow, InJob
  <2> HIDE DEF c
  <2>2. \A d \in active' : KnownAs(d, jkind[d], kst, kround, kkind) /\ d \notin finished
    BY <1>1, <1>4 DEF NbdInv, Flow, InJob, Known
  <2>3. \A d \in Tasks \ active' : jpc'[d] = "none"
    BY <1>1, <1>6 DEF NbdInv, Flow, InJob
  <2>4. ASSUME mpc \in {"loop", "disc"}
        PROVE  /\ Disc \notin active' \cup finished
               /\ \A i \in DOMAIN line' : line'[i] # Disc
    BY <1>1, <1>3, <2>1, <2>4 DEF NbdInv, Flow, InJob
  <2> QED BY <1>1, <2>2, <2>3, <2>4 DEF NbdInv, Flow, InJob, Known, kernel, threads
<1>10. AtLock'
  BY <1>1, <1>6 DEF NbdInv, Flow, AtLock
<1>11. InReply'
  <2>1. \A i \in DOMAIN toKer : toKer[i].ctx # c /\ toKer[i].ctx \in Tasks
    BY <1>4, <1>5, Replied
  <2> HIDE DEF c
  <2> QED BY <1>1, <1>6, <2>1 DEF NbdInv, Flow, InReply, IsHead, Known, kernel
<1>12. AtPay' /\ AtData'
  <2> HIDE DEF c
  <2>1. AtPay'
    BY <1>1, <1>5, <1>6 DEF NbdInv, Flow, AtPay, kernel
  <2>2. AtData'
    BY <1>1, <1>5, <1>6 DEF NbdInv, ServerTypes, Flow, AtData, kernel
  <2> QED BY <2>1, <2>2
<1> QED BY <1>7, <1>8, <1>9, <1>10, <1>11, <1>12 DEF Flow

\* A job that goes on inside, away from the lock.
LEMMA WorkFlows ==
  ASSUME NbdInv, up, NEW c \in Tasks, JobWork(c) \/ JobLock(c) PROVE Flow'
<1>1. /\ UNCHANGED <<kernel, toSrv, toKer, pool, jkind, mpc>>
      /\ jpc[c] \in {"work", "reply"} /\ jpc'[c] \in {"reply", "refuse", "head"}
      /\ \A d \in Tasks : d # c => jpc'[d] = jpc[d]
      /\ \/ wlock' = wlock /\ jpc'[c] # "head"
         \/ wlock = Nobody /\ wlock' = c /\ jpc'[c] = "head"
  BY DEF JobWork, JobLock, NbdInv, ServerTypes, threads
<1>2. c \in active
  BY <1>1 DEF NbdInv, Flow, InJob
<1>3. wlock # c
  BY <1>1 DEF NbdInv, Flow, AtLock
<1>4. InSocket' /\ InLine'
  BY <1>1 DEF NbdInv, Flow, InSocket, InLine, Distinct, Known, kernel, pool
<1>5. InJob'
  <2>1. active' = active /\ \A d \in Tasks \ active : jpc'[d] = "none"
    BY <1>1, <1>2 DEF NbdInv, Flow, InJob, pool
  <2> QED BY <1>1, <2>1 DEF NbdInv, Flow, InJob, Known, kernel, pool
<1>6. AtLock'
  BY <1>1, <1>3, TaskParts DEF NbdInv, Flow, AtLock
<1>7. InReply'
  <2>1. \A i \in DOMAIN toKer : jpc[toKer[i].ctx] = "pay" => jpc'[toKer[i].ctx] = "pay"
    BY <1>1, Replied
  <2> QED BY <1>1, <2>1 DEF NbdInv, Flow, InReply, IsHead, Known, kernel, pool
<1>8. AtPay'
  BY <1>1 DEF NbdInv, Flow, AtPay, kernel
<1>9. AtData'
  BY <1>1, <1>3, TaskParts DEF NbdInv, ServerTypes, Flow, AtData, kernel
<1> QED BY <1>4, <1>5, <1>6, <1>7, <1>8, <1>9 DEF Flow

\* A job ends: its lock is free and nothing else knows of it.
LEMMA EndFlows ==
  ASSUME NbdInv, up, NEW c \in Tasks, End(c), jpc[c] # "none",
         wlock \in {c, Nobody}, wlock' = Nobody,
         UNCHANGED <<kernel, toSrv, jkind, threads>>
  PROVE  InSocket' /\ InLine' /\ InJob' /\ AtLock' /\ AtPay'
<1>1. /\ c \in active /\ active' = active \ {c} /\ finished' = finished \cup {c} /\ line' = line
      /\ jpc'[c] = "none" /\ \A d \in Tasks : d # c => jpc'[d] = jpc[d]
  BY DEF End, Pool!Complete, NbdInv, ServerTypes
<1>2. KnownAs(c, jkind[c], kst, kround, kkind)
  BY <1>1 DEF NbdInv, Flow, InJob, Known
<1>3. InSocket'
  <2>1. \A i \in DOMAIN toSrv : toSrv[i].ctx # c
    BY <1>1 DEF NbdInv, Flow, InSocket
  <2> QED BY <1>1, <2>1 DEF NbdInv, Flow, InSocket, Known, kernel
<1>4. InLine'
  <2>1. \A i \in DOMAIN line : line[i] # c
    BY <1>1 DEF NbdInv, Flow, InLine
  <2> QED BY <1>1, <2>1 DEF NbdInv, Flow, InLine, Distinct, Known, kernel
<1>5. InJob'
  <2>1. c \in Ctx => c.round <= kround[c.tag]
    BY <1>2, TaskParts, NbdAssumption DEF KnownAs, Open, NbdInv, KernelTypes
  <2>2. mpc \in {"loop", "disc"} => c # Disc
    BY <1>1 DEF NbdInv, Flow, InJob
  <2>3. \A d \in finished' : d \in Ctx => d.round <= kround[d.tag]
    BY <1>1, <2>1 DEF NbdInv, Flow, InJob
  <2>4. \A d \in active' : d # c /\ KnownAs(d, jkind[d], kst, kround, kkind) /\ d \notin finished
    BY <1>1 DEF NbdInv, Flow, InJob, Known
  <2>5. \A d \in Tasks \ active' : jpc'[d] = "none"
    BY <1>1 DEF NbdInv, Flow, InJob
  <2>6. mpc \in {"loop", "disc"} =>
          /\ Disc \notin active' \cup finished'
          /\ \A i \in DOMAIN line : line[i] # Disc
          /\ \A i \in DOMAIN toSrv : toSrv[i].ctx # Disc
    BY <1>1, <2>2 DEF NbdInv, Flow, InJob
  <2> QED BY <1>1, <2>3, <2>4, <2>5, <2>6 DEF InJob, Known, kernel, threads
<1>6. \A d \in Tasks : jpc'[d] \notin {"head", "pay"}
  BY <1>1, TaskParts DEF NbdInv, Flow, AtLock
<1>7. AtLock' /\ AtPay'
  BY <1>6, TaskParts DEF AtLock, AtPay
<1> QED BY <1>3, <1>4, <1>5, <1>7

\* One more message, from a job that had sent none or the header before it.
LEMMA RepliesGrow ==
  ASSUME NbdInv, up, NEW e, toKer' = Append(toKer, e), NEW c, c = e.ctx,
         UNCHANGED <<kernel, jkind>>, finished \subseteq finished',
         KnownAs(c, jkind[c], kst, kround, kkind),
         ~IsHead(e) => c \in finished',
         IsHead(e) => jpc'[c] = "pay",
         e.what = "data" => /\ jkind[c] = "read"
                            /\ \/ toKer # <<>> /\ toKer[Len(toKer)].ctx = c /\ toKer[Len(toKer)].what = "ok"
                               \/ toKer = <<>> /\ want = c.tag,
         \A d \in Tasks : jpc[d] = "pay" => d = c /\ e.what = "data",
         \A i \in DOMAIN toKer : toKer[i].ctx = c => toKer[i].what = "ok" /\ e.what = "data"
  PROVE  InReply'
<1> DEFINE q == Append(toKer, e)
           n == Len(toKer)
<1>1. toKer \in Seq(Replies) /\ InReply
  BY DEF NbdInv, ServerTypes, Flow
<1>2. /\ n \in Nat /\ DOMAIN toKer = 1 .. n /\ Len(q) = n + 1 /\ DOMAIN q = 1 .. n + 1
      /\ q[n + 1] = e /\ \A i \in DOMAIN toKer : q[i] = toKer[i]
  BY <1>1, Appended
<1>3. toKer = <<>> <=> n = 0
  BY <1>1
<1> HIDE DEF q
<1>4. ASSUME NEW i \in DOMAIN q
      PROVE  /\ KnownAs(q[i].ctx, jkind[q[i].ctx], kst, kround, kkind)
             /\ ~IsHead(q[i]) => q[i].ctx \in finished'
             /\ IsHead(q[i]) => \/ i < Len(q) /\ q[i + 1].ctx = q[i].ctx /\ q[i + 1].what = "data"
                                \/ i = Len(q) /\ jpc'[q[i].ctx] = "pay"
             /\ q[i].what = "data" =>
                  /\ jkind[q[i].ctx] = "read"
                  /\ \/ i > 1 /\ q[i - 1].ctx = q[i].ctx /\ q[i - 1].what = "ok"
                     \/ i = 1 /\ want = q[i].ctx.tag
  <2>1. CASE i \in DOMAIN toKer
    <3>1. q[i] = toKer[i] /\ i \in 1 .. n
      BY <1>2, <2>1
    <3>2. KnownAs(q[i].ctx, jkind[q[i].ctx], kst, kround, kkind)
          /\ (~IsHead(q[i]) => q[i].ctx \in finished')
      BY <1>1, <2>1, <3>1 DEF InReply, Known
    <3>3. ASSUME IsHead(q[i])
          PROVE  i < Len(q) /\ q[i + 1].ctx = q[i].ctx /\ q[i + 1].what = "data"
      <4>1. CASE i < n /\ toKer[i + 1].ctx = toKer[i].ctx /\ toKer[i + 1].what = "data"
        <5>1. i + 1 \in DOMAIN toKer
          BY <1>2, <3>1, <4>1
        <5> QED BY <1>2, <3>1, <4>1, <5>1
      <4>2. CASE i = n /\ jpc[toKer[i].ctx] = "pay"
        <5>1. toKer[i].ctx = c /\ e.what = "data"
          BY <2>1, <4>2, Replied
        <5> QED BY <1>2, <3>1, <4>2, <5>1
      <4> QED BY <1>1, <2>1, <3>1, <3>3, <4>1, <4>2 DEF InReply
    <3>4. ASSUME q[i].what = "data"
          PROVE  /\ jkind[q[i].ctx] = "read"
                 /\ \/ i > 1 /\ q[i - 1].ctx = q[i].ctx /\ q[i - 1].what = "ok"
                    \/ i = 1 /\ want = q[i].ctx.tag
      <4>1. /\ jkind[toKer[i].ctx] = "read"
            /\ \/ i > 1 /\ toKer[i - 1].ctx = toKer[i].ctx /\ toKer[i - 1].what = "ok"
               \/ i = 1 /\ want = toKer[i].ctx.tag
        BY <1>1, <2>1, <3>1, <3>4 DEF InReply
      <4>2. i > 1 => i - 1 \in DOMAIN toKer /\ q[i - 1] = toKer[i - 1]
        BY <1>2, <3>1
      <4> QED BY <3>1, <4>1, <4>2
    <3> QED BY <3>2, <3>3, <3>4
  <2>2. CASE i = n + 1
    <3>1. q[i] = e
      BY <1>2, <2>2
    <3>2. ASSUME e.what = "data"
          PROVE  /\ jkind[c] = "read"
                 /\ \/ i > 1 /\ q[i - 1].ctx = c /\ q[i - 1].what = "ok"
                    \/ i = 1 /\ want = c.tag
      <4>1. CASE toKer = <<>>
        BY <1>3, <2>2, <3>2, <4>1
      <4>2. CASE toKer # <<>>
        <5>1. n \in DOMAIN toKer /\ q[n] = toKer[n] /\ i - 1 = n /\ i > 1
          BY <1>2, <1>3, <2>2, <4>2
        <5> QED BY <3>2, <4>2, <5>1
      <4> QED BY <4>1, <4>2
    <3> QED BY <1>2, <2>2, <3>1, <3>2
  <2> QED BY <1>2, <2>1, <2>2
<1>5. ASSUME NEW i \in DOMAIN q, NEW j \in DOMAIN q, i < j, q[i].ctx = q[j].ctx
      PROVE  q[i].what = "ok" /\ q[j].what = "data"
  <2>1. i \in DOMAIN toKer /\ q[i] = toKer[i]
    BY <1>2, <1>5
  <2>2. CASE j \in DOMAIN toKer
    BY <1>1, <1>2, <1>5, <2>1, <2>2 DEF InReply
  <2>3. CASE j = n + 1
    BY <1>2, <1>5, <2>1, <2>3
  <2> QED BY <1>2, <2>2, <2>3
<1>6. toKer' = q /\ jkind' = jkind
  BY DEF q
<1> QED BY <1>4, <1>5, <1>6 DEF InReply, IsHead, Known, kernel

\* What a job that is active has sent so far.
LEMMA OwnReplies ==
  ASSUME NbdInv, up, NEW c \in active
  PROVE  /\ c \in Tasks /\ c \notin finished /\ KnownAs(c, jkind[c], kst, kround, kkind)
         /\ \A i \in DOMAIN toKer : toKer[i].ctx = c => i = Len(toKer) /\ jpc[c] = "pay"
  BY Replied DEF NbdInv, ServerTypes, Flow, InJob, Known

LEMMA HeadFlows ==
  ASSUME NbdInv, up, NEW c \in Tasks, JobHead(c) PROVE Flow'
<1>1. /\ jpc[c] = "head" /\ Write(c, "ok")
      /\ UNCHANGED <<kernel, toSrv, jkind, threads>>
  BY DEF JobHead
<1>2. c \in active /\ wlock = c /\ c # Nobody
  BY <1>1, TaskParts DEF NbdInv, Flow, InJob, AtLock
<1>3. /\ c \notin finished /\ KnownAs(c, jkind[c], kst, kround, kkind)
      /\ \A i \in DOMAIN toKer : toKer[i].ctx # c
      /\ \A d \in Tasks : jpc[d] # "pay"
  BY <1>1, <1>2, OwnReplies DEF NbdInv, Flow, AtLock
<1> DEFINE e == [ctx |-> c, what |-> "ok", good |-> TRUE]
<1>4. e.ctx = c /\ e.what = "ok" /\ toKer' = Append(toKer, e) /\ (IsHead(e) <=> jkind[c] = "read")
  BY <1>1 DEF Write, IsHead
<1> HIDE DEF e
<1>5. toKer \in Seq(Replies)
  BY DEF NbdInv, ServerTypes
<1>6. /\ toKer' # <<>> /\ toKer'[Len(toKer')] = e
      /\ toKer # <<>> => toKer'[1] = toKer[1]
  BY <1>4, <1>5
<1>7. AtData'
  BY <1>1, <1>3, <1>6 DEF NbdInv, ServerTypes, Flow, AtData, kernel
<1>8. CASE jkind[c] = "read"
  <2>1. /\ UNCHANGED <<pool, wlock>> /\ jpc'[c] = "pay"
        /\ \A d \in Tasks : d # c => jpc'[d] = jpc[d]
    BY <1>8 DEF JobHead, NbdInv, ServerTypes
  <2>2. InSocket' /\ InLine'
    BY <1>1, <2>1 DEF NbdInv, Flow, InSocket, InLine, Distinct, Known, kernel, pool
  <2>3. InJob'
    <3>1. active' = active /\ \A d \in Tasks \ active : jpc'[d] = "none"
      BY <1>2, <2>1 DEF NbdInv, Flow, InJob, pool
    <3> QED BY <1>1, <2>1, <3>1 DEF NbdInv, Flow, InJob, Known, kernel, pool, threads
  <2>4. AtLock'
    BY <1>1, <1>2, <1>8, <2>1 DEF NbdInv, Flow, AtLock
  <2>5. InReply'
    <3>1. finished \subseteq finished' /\ UNCHANGED <<kernel, jkind>>
      BY <1>1, <2>1 DEF pool
    <3> QED BY <1>3, <1>4, <1>8, <2>1, <3>1, RepliesGrow
  <2>6. AtPay'
    BY <1>3, <1>4, <1>6, <2>1 DEF AtPay
  <2> QED BY <1>7, <2>2, <2>3, <2>4, <2>5, <2>6 DEF Flow
<1>9. CASE jkind[c] # "read"
  <2>1. End(c) /\ wlock' = Nobody
    BY <1>2, <1>9 DEF JobHead, Unlock
  <2>2. InSocket' /\ InLine' /\ InJob' /\ AtLock' /\ AtPay'
    BY <1>1, <1>2, <2>1, EndFlows
  <2>3. InReply'
    <3>1. finished \subseteq finished' /\ c \in finished' /\ UNCHANGED <<kernel, jkind>>
      BY <1>1, <2>1 DEF End, Pool!Complete
    <3> QED BY <1>3, <1>4, <1>9, <3>1, RepliesGrow
  <2> QED BY <1>7, <2>2, <2>3 DEF Flow
<1> QED BY <1>8, <1>9

LEMMA PayFlows ==
  ASSUME NbdInv, up, NEW c \in Tasks, JobPay(c) PROVE Flow'
<1>1. /\ jpc[c] = "pay" /\ Unlock(c) /\ End(c) /\ Write(c, "data")
      /\ UNCHANGED <<kernel, toSrv, jkind, threads>>
  BY DEF JobPay
<1>2. c \in active /\ wlock = c /\ c # Nobody /\ jkind[c] = "read" /\ wlock' = Nobody
  BY <1>1, TaskParts DEF NbdInv, Flow, InJob, AtLock, Unlock
<1>3. /\ KnownAs(c, jkind[c], kst, kround, kkind)
      /\ \A i \in DOMAIN toKer : toKer[i].ctx = c => i = Len(toKer)
      /\ \A d \in Tasks : jpc[d] = "pay" => d = c
  BY <1>1, <1>2, OwnReplies DEF NbdInv, Flow, AtLock
<1>4. \/ toKer # <<>> /\ toKer[Len(toKer)].ctx = c /\ toKer[Len(toKer)].what = "ok"
      \/ toKer = <<>> /\ want = c.tag
  BY <1>1 DEF NbdInv, Flow, AtPay
<1> DEFINE e == [ctx |-> c, what |-> "data", good |-> TRUE]
<1>5. e.ctx = c /\ e.what = "data" /\ toKer' = Append(toKer, e) /\ ~IsHead(e)
  BY <1>1 DEF Write, IsHead
<1> HIDE DEF e
<1>6. toKer \in Seq(Replies)
  BY DEF NbdInv, ServerTypes
<1>7. InSocket' /\ InLine' /\ InJob' /\ AtLock' /\ AtPay'
  BY <1>1, <1>2, EndFlows
<1>8. InReply'
  <2>1. finished \subseteq finished' /\ c \in finished' /\ UNCHANGED <<kernel, jkind>>
    BY <1>1 DEF End, Pool!Complete
  <2>2. \A i \in DOMAIN toKer : toKer[i].ctx = c => toKer[i].what = "ok"
    <3> SUFFICES ASSUME NEW i \in DOMAIN toKer, toKer[i].ctx = c PROVE toKer[i].what = "ok"
      OBVIOUS
    <3>1. i = Len(toKer) /\ toKer # <<>>
      BY <1>3, <1>6
    <3> QED BY <1>4, <3>1
  <2> QED BY <1>2, <1>3, <1>4, <1>5, <2>1, <2>2, RepliesGrow
<1>9. AtData'
  <2>1. toKer # <<>> => toKer' # <<>> /\ toKer'[1] = toKer[1]
    BY <1>5, <1>6
  <2>2. toKer = <<>> => toKer' # <<>> /\ toKer'[1] = e
    BY <1>5, <1>6
  <2> QED BY <1>1, <1>2, <1>5, <2>1, <2>2 DEF NbdInv, Flow, AtData, kernel
<1> QED BY <1>7, <1>8, <1>9 DEF Flow

LEMMA RefuseFlows ==
  ASSUME NbdInv, up, NEW c \in Tasks, JobRefuse(c) PROVE Flow'
<1>1. /\ jpc[c] = "refuse" /\ wlock = Nobody /\ wlock' = Nobody /\ End(c) /\ Write(c, "err")
      /\ UNCHANGED <<kernel, toSrv, jkind, threads>>
  BY DEF JobRefuse
<1>2. c \in active
  BY <1>1 DEF NbdInv, Flow, InJob
<1>3. /\ KnownAs(c, jkind[c], kst, kround, kkind)
      /\ \A i \in DOMAIN toKer : toKer[i].ctx # c
      /\ \A d \in Tasks : jpc[d] # "pay"
  BY <1>1, <1>2, OwnReplies, TaskParts DEF NbdInv, Flow, AtLock
<1> DEFINE e == [ctx |-> c, what |-> "err", good |-> TRUE]
<1>4. e.ctx = c /\ e.what = "err" /\ toKer' = Append(toKer, e) /\ ~IsHead(e)
  BY <1>1 DEF Write, IsHead
<1> HIDE DEF e
<1>5. toKer \in Seq(Replies)
  BY DEF NbdInv, ServerTypes
<1>6. InSocket' /\ InLine' /\ InJob' /\ AtLock' /\ AtPay'
  BY <1>1, EndFlows
<1>7. InReply'
  <2>1. finished \subseteq finished' /\ c \in finished' /\ UNCHANGED <<kernel, jkind>>
    BY <1>1 DEF End, Pool!Complete
  <2> QED BY <1>3, <1>4, <2>1, RepliesGrow
<1>8. AtData'
  <2>1. toKer # <<>> => toKer' # <<>> /\ toKer'[1] = toKer[1]
    BY <1>4, <1>5
  <2> QED BY <1>1, <2>1 DEF NbdInv, Flow, AtData, kernel
<1> QED BY <1>6, <1>7, <1>8 DEF Flow

\* The kernel's own last request, which is nowhere else.
LEMMA DisconnectFlows ==
  ASSUME NbdInv, up, DestroyDisconnects PROVE Flow'
<1> DEFINE r == [ctx |-> Disc, kind |-> "disc"]
<1>1. /\ toSrv' = Append(toSrv, r) /\ mpc = "disc" /\ mpc' = "clear"
      /\ UNCHANGED <<kernel, toKer, pool, jpc, jkind, wlock>>
  BY DEF DestroyDisconnects
<1>2. r.ctx = Disc /\ r.kind = "disc" /\ KnownAs(Disc, "disc", kst, kround, kkind)
  BY DEF KnownAs
<1> HIDE DEF r
<1>3. toSrv \in Seq(Requests)
  BY DEF NbdInv, ServerTypes
<1>4. /\ Len(toSrv) \in Nat /\ DOMAIN toSrv = 1 .. Len(toSrv) /\ DOMAIN toSrv' = 1 .. Len(toSrv) + 1
      /\ toSrv'[Len(toSrv) + 1] = r /\ \A i \in DOMAIN toSrv : toSrv'[i] = toSrv[i]
      /\ \A i \in DOMAIN toSrv' : i \in DOMAIN toSrv \/ i = Len(toSrv) + 1
  BY <1>1, <1>3, Appended
<1>5. /\ Disc \notin active \cup finished
      /\ \A i \in DOMAIN line : line[i] # Disc
      /\ \A i \in DOMAIN toSrv : toSrv[i].ctx # Disc
  BY <1>1 DEF NbdInv, Flow, InJob
<1>6. InSocket'
  <2>1. ASSUME NEW i \in DOMAIN toSrv'
        PROVE  /\ KnownAs(toSrv'[i].ctx, toSrv'[i].kind, kst, kround, kkind)
               /\ toSrv'[i].ctx \notin active \cup finished
               /\ \A j \in DOMAIN line : line[j] # toSrv'[i].ctx
    <3>1. CASE i \in DOMAIN toSrv
      BY <1>4, <3>1 DEF NbdInv, Flow, InSocket, Known
    <3>2. CASE i = Len(toSrv) + 1
      BY <1>2, <1>4, <1>5, <3>2
    <3> QED BY <1>4, <3>1, <3>2
  <2>2. ASSUME NEW i \in DOMAIN toSrv', NEW j \in DOMAIN toSrv', toSrv'[i].ctx = toSrv'[j].ctx
        PROVE  i = j
    BY <1>2, <1>4, <1>5, <2>2 DEF NbdInv, Flow, InSocket
  <2> QED BY <1>1, <2>1, <2>2 DEF InSocket, Known, kernel, pool
<1>7. InLine' /\ InJob'
  BY <1>1 DEF NbdInv, Flow, InLine, InJob, Distinct, Known, kernel, pool
<1>8. AtLock' /\ AtPay' /\ AtData'
  BY <1>1 DEF NbdInv, Flow, AtLock, AtPay, AtData, kernel
<1>9. InReply'
  BY <1>1 DEF NbdInv, Flow, InReply, IsHead, Known, kernel, pool
<1> QED BY <1>6, <1>7, <1>8, <1>9 DEF Flow

-----------------------------------------------------------------------------
(* The invariant, and what it is for.                                      *)

LEMMA NbdNext == NbdInv /\ [Next]_vars => NbdInv'
<1> SUFFICES ASSUME NbdInv, [Next]_vars PROVE NbdInv'
  OBVIOUS
<1>1. KernelTypes' /\ ServerTypes'
  BY KernelTypesStep, ServerTypesStep DEF NbdInv
<1>2. ASSUME up' PROVE Flow'
  <2>1. up
    BY <1>2 DEF Next, Reading, Jobs, Main, vars, kernel, Disconnect, KSend, KTake, KFail, KReceive, KDown,
        ReaderCheck, ReaderGets, ReaderEof, ReaderInterrupted, IntrReturns, JobStart, JobWork, JobLock,
        JobHead, JobPay, JobRefuse, MainLeaves, MainSignal, DestroyDisconnects, DestroyClears, DestroyJoins,
        NbdInv, KernelTypes
  <2>2. ASSUME NEW t \in Tags, KSend(t) \/ KTake(t) \/ KFail(t) PROVE Flow'
    BY <2>1, <2>2, SendFlows, TakeFlows DEF KFail
  <2>3. CASE KReceive
    BY <2>1, <2>3, ReceiveFlows
  <2>4. CASE ReaderGets
    BY <2>1, <2>4, GetsFlows
  <2>5. CASE JobStart
    BY <2>1, <2>5, StartFlows
  <2>6. ASSUME NEW c \in Tasks, JobWork(c) \/ JobLock(c) \/ JobHead(c) \/ JobPay(c) \/ JobRefuse(c)
        PROVE  Flow'
    BY <2>1, <2>6, WorkFlows, HeadFlows, PayFlows, RefuseFlows
  <2>7. CASE DestroyDisconnects
    BY <2>1, <2>7, DisconnectFlows
  <2>8. ~KDown /\ ~DestroyClears /\ ~ReaderEof /\ ~IntrReturns
    BY <1>2, <2>1 DEF KDown, DestroyClears, Disconnect, ReaderEof, IntrReturns
  <2>9. ASSUME UNCHANGED <<kernel, toSrv, toKer, pool, jpc, jkind, wlock>>,
               mpc' \in {"loop", "disc"} => mpc \in {"loop", "disc"}
        PROVE  Flow'
    <3>1. UNCHANGED <<up, kst, kround, kkind, want, line, active, finished>>
      BY <2>9 DEF kernel, pool
    <3>2. InSocket' /\ InLine' /\ InJob'
      BY <2>1, <2>9, <3>1 DEF NbdInv, Flow, InSocket, InLine, InJob, Distinct, Known
    <3>3. AtLock' /\ AtPay' /\ AtData'
      BY <2>1, <2>9, <3>1 DEF NbdInv, Flow, AtLock, AtPay, AtData
    <3>4. InReply'
      BY <2>1, <2>9, <3>1 DEF NbdInv, Flow, InReply, IsHead, Known
    <3> QED BY <3>2, <3>3, <3>4 DEF Flow
  <2>10. CASE ReaderCheck \/ ReaderInterrupted \/ MainLeaves \/ MainSignal \/ DestroyJoins \/ UNCHANGED vars
    <3>1. /\ UNCHANGED <<kernel, toSrv, toKer, pool, jpc, jkind, wlock>>
          /\ mpc' \in {"loop", "disc"} => mpc \in {"loop", "disc"}
      BY <2>10 DEF ReaderCheck, ReaderInterrupted, MainLeaves, MainSignal, DestroyJoins, vars, threads
    <3> QED BY <2>9, <3>1
  <2> QED
    BY <2>2, <2>3, <2>4, <2>5, <2>6, <2>7, <2>8, <2>10 DEF Next, Reading, Jobs, Main, Tasks
<1> QED BY <1>1, <1>2 DEF NbdInv

LEMMA NbdAlways == Spec => []NbdInv
<1> QED BY NbdInit, NbdNext, PTL DEF Spec

\* No reply is torn, with any number of jobs behind one socket: what follows
\* the header of a served read is its data, and data stands nowhere else.
THEOREM RepliesWhole == Spec => []WholeReplies
<1>1. NbdInv => WholeReplies
  <2> SUFFICES ASSUME NbdInv, up, NEW i \in 1 .. Len(toKer)
               PROVE  /\ toKer[i].what = "ok" /\ jkind[toKer[i].ctx] = "read" =>
                           \/ i < Len(toKer) /\ toKer[i + 1].what = "data" /\ toKer[i + 1].ctx = toKer[i].ctx
                           \/ i = Len(toKer) /\ wlock = toKer[i].ctx
                      /\ toKer[i].what = "data" =>
                           \/ i > 1 /\ toKer[i - 1].what = "ok" /\ toKer[i - 1].ctx = toKer[i].ctx
                           \/ i = 1 /\ want = toKer[i].ctx.tag
    BY DEF WholeReplies
  <2>1. i \in DOMAIN toKer
    BY DEF NbdInv, ServerTypes
  <2>2. toKer[i].ctx \in Tasks
    BY <2>1, Replied
  <2>3. jpc[toKer[i].ctx] = "pay" => wlock = toKer[i].ctx
    BY <2>2 DEF NbdInv, Flow, AtLock
  <2> QED BY <2>1, <2>3 DEF NbdInv, Flow, InReply, IsHead
<1> QED BY <1>1, NbdAlways, PTL

-----------------------------------------------------------------------------
(* Seen from the kernel the device is a disk.                              *)

\* An answer that is an error, or what was asked.
LEMMA AnswerIsDisks ==
  ASSUME KernelTypes, NEW t \in Tags, NEW a \in Answers,
         kst[t] = "sent", kst' = [kst EXCEPT ![t] = "done"], kans' = [kans EXCEPT ![t] = a],
         kkind' = kkind, a.good
  PROVE  Disk!Answer(t)
<1> DEFINE ret == IF ~a.ok THEN -1 ELSE IF kkind[t] = "read" THEN 1 ELSE 0
           r == [ret |-> ret, good |-> a.good]
<1>1. r \in {Disk!Error, [ret |-> Disk!Inside([off |-> 0, len |-> IF kkind[t] = "read" THEN 1 ELSE 0]),
                          good |-> TRUE]}
  <2>1. a.good = TRUE /\ a.ok \in BOOLEAN
    BY DEF Answers
  <2>2. CASE ~a.ok
    BY <2>1, <2>2 DEF Disk!Error
  <2>3. CASE a.ok /\ kkind[t] = "read"
    <3>1. Disk!Inside([off |-> 0, len |-> 1]) = 1
      BY DEF Disk!Inside
    <3> QED BY <2>1, <2>3, <3>1
  <2>4. CASE a.ok /\ kkind[t] # "read"
    <3>1. Disk!Inside([off |-> 0, len |-> 0]) = 0
      BY DEF Disk!Inside
    <3> QED BY <2>1, <2>4, <3>1
  <2> QED BY <2>1, <2>2, <2>3, <2>4
<1>2. /\ kst'[t] = "done" /\ kans'[t] = a
      /\ \A u \in Tags : u # t => kst'[u] = kst[u] /\ kans'[u] = kans[u]
  BY DEF KernelTypes
<1> HIDE DEF r
<1>3. [u \in Tags |-> [ret |-> IF ~kans'[u].ok THEN -1
                               ELSE IF kst'[u] = "done" /\ kkind[u] = "read" THEN 1 ELSE 0,
                       good |-> kans'[u].good]]
      = [[u \in Tags |-> [ret |-> IF ~kans[u].ok THEN -1
                                  ELSE IF kst[u] = "done" /\ kkind[u] = "read" THEN 1 ELSE 0,
                          good |-> kans[u].good]] EXCEPT ![t] = r]
  BY <1>2 DEF r
<1>4. [u \in Tags |-> IF kst'[u] = "sent" THEN "pending" ELSE kst'[u]]
      = [[u \in Tags |-> IF kst[u] = "sent" THEN "pending" ELSE kst[u]] EXCEPT ![t] = "done"]
  BY <1>2
<1> QED BY <1>1, <1>3, <1>4 DEF Disk!Answer

LEMMA ReceiveIsDisks ==
  ASSUME NbdInv, KReceive PROVE (\E t \in Tags : Disk!Answer(t)) \/ UNCHANGED <<kst, kkind, kans>>
<1> DEFINE m == Head(toKer)
           o == m.ctx
<1>1. up /\ toKer # <<>> /\ kkind' = kkind
  BY DEF KReceive
<1>2. /\ o \in Tasks /\ KnownAs(o, jkind[o], kst, kround, kkind)
      /\ 1 \in DOMAIN toKer /\ m = toKer[1]
  BY <1>1, FirstMessage
<1>3. m.good = TRUE /\ m \in Replies
  BY <1>1, <1>2, Replied DEF Replies
<1>4. CASE want # Nobody
  <2>1. want \in Tags /\ kst[want] = "sent" /\ m.what = "data" /\ o.tag = want
    BY <1>1, <1>2, <1>4 DEF NbdInv, KernelTypes, Flow, AtData
  <2> DEFINE a == [ok |-> TRUE, good |-> m.what = "data" /\ o.tag = want /\ m.good]
  <2>2. kst' = [kst EXCEPT ![want] = "done"] /\ kans' = [kans EXCEPT ![want] = a]
    BY <1>4 DEF KReceive
  <2>3. a \in Answers /\ a.good
    BY <1>3, <2>1 DEF Answers
  <2> HIDE DEF a
  <2> QED BY <1>1, <2>1, <2>2, <2>3, AnswerIsDisks DEF NbdInv
<1>5. CASE want = Nobody /\ (o.tag = Nobody \/ (m.what = "ok" /\ kkind[o.tag] = "read"))
  BY <1>1, <1>5 DEF KReceive
<1>6. CASE want = Nobody /\ o.tag # Nobody /\ ~(m.what = "ok" /\ kkind[o.tag] = "read")
  <2>1. o.tag \in Tags /\ kst[o.tag] = "sent"
    BY <1>2, <1>6, TaskParts DEF KnownAs, Open
  <2>2. m.what # "data"
    BY <1>1, <1>2, <1>6 DEF NbdInv, Flow, InReply
  <2> DEFINE a == [ok |-> m.what = "ok", good |-> m.what # "data"]
  <2>3. kst' = [kst EXCEPT ![o.tag] = "done"] /\ kans' = [kans EXCEPT ![o.tag] = a]
    BY <1>6 DEF KReceive
  <2>4. a \in Answers /\ a.good
    BY <2>2 DEF Answers
  <2> HIDE DEF a
  <2> QED BY <1>1, <2>1, <2>3, <2>4, AnswerIsDisks DEF NbdInv
<1> QED BY <1>4, <1>5, <1>6

LEMMA StepIsDisks ==
  ASSUME NbdInv, [Next]_vars PROVE [Disk!DiskNext]_(Disk!diskVars)
<1>1. UNCHANGED <<kst, kkind, kans>> => UNCHANGED Disk!diskVars
  BY DEF Disk!diskVars
<1>2. ASSUME NEW t \in Tags, KSend(t) PROVE Disk!Ask(t)
  <2>1. PICK k \in Kinds : kkind' = [kkind EXCEPT ![t] = k]
    BY <1>2 DEF KSend
  <2>2. kst[t] = "idle" /\ kst' = [kst EXCEPT ![t] = "sent"] /\ kans' = kans
    BY <1>2 DEF KSend
  <2>3. /\ kst'[t] = "sent" /\ kkind'[t] = k
        /\ \A u \in Tags : u # t => kst'[u] = kst[u] /\ kkind'[u] = kkind[u]
    BY <2>1, <2>2 DEF NbdInv, KernelTypes
  <2> DEFINE r == [off |-> 0, len |-> IF k = "read" THEN 1 ELSE 0]
  <2>4. r \in {[off |-> 0, len |-> 1], [off |-> 0, len |-> 0]}
    OBVIOUS
  <2> HIDE DEF r
  <2>5. [u \in Tags |-> [off |-> 0, len |-> IF kkind'[u] = "read" THEN 1 ELSE 0]]
        = [[u \in Tags |-> [off |-> 0, len |-> IF kkind[u] = "read" THEN 1 ELSE 0]] EXCEPT ![t] = r]
    BY <2>3 DEF r
  <2>6. [u \in Tags |-> IF kst'[u] = "sent" THEN "pending" ELSE kst'[u]]
        = [[u \in Tags |-> IF kst[u] = "sent" THEN "pending" ELSE kst[u]] EXCEPT ![t] = "pending"]
    BY <2>3
  <2>7. \A u \in Tags : /\ (kst'[u] = "done" /\ kkind'[u] = "read") <=> (kst[u] = "done" /\ kkind[u] = "read")
                        /\ kans'[u] = kans[u]
    BY <2>2, <2>3
  <2>8. [u \in Tags |-> [ret |-> IF ~kans'[u].ok THEN -1
                                 ELSE IF kst'[u] = "done" /\ kkind'[u] = "read" THEN 1 ELSE 0,
                         good |-> kans'[u].good]]
        = [u \in Tags |-> [ret |-> IF ~kans[u].ok THEN -1
                                   ELSE IF kst[u] = "done" /\ kkind[u] = "read" THEN 1 ELSE 0,
                           good |-> kans[u].good]]
    BY <2>7
  <2> QED BY <2>2, <2>4, <2>5, <2>6, <2>8 DEF Disk!Ask
<1>3. ASSUME NEW t \in Tags, KTake(t) PROVE Disk!Take(t)
  <2>1. /\ kst[t] = "done" /\ kst'[t] = "idle" /\ kkind'[t] = "other" /\ kans'[t] = None
        /\ \A u \in Tags : u # t => kst'[u] = kst[u] /\ kkind'[u] = kkind[u] /\ kans'[u] = kans[u]
    BY <1>3 DEF KTake, NbdInv, KernelTypes
  <2>2. [u \in Tags |-> IF kst'[u] = "sent" THEN "pending" ELSE kst'[u]]
        = [[u \in Tags |-> IF kst[u] = "sent" THEN "pending" ELSE kst[u]] EXCEPT ![t] = "idle"]
    BY <2>1
  <2>3. [u \in Tags |-> [off |-> 0, len |-> IF kkind'[u] = "read" THEN 1 ELSE 0]]
        = [[u \in Tags |-> [off |-> 0, len |-> IF kkind[u] = "read" THEN 1 ELSE 0]] EXCEPT ![t] = Disk!Nothing]
    BY <2>1 DEF Disk!Nothing
  <2>4. [u \in Tags |-> [ret |-> IF ~kans'[u].ok THEN -1
                                 ELSE IF kst'[u] = "done" /\ kkind'[u] = "read" THEN 1 ELSE 0,
                         good |-> kans'[u].good]]
        = [[u \in Tags |-> [ret |-> IF ~kans[u].ok THEN -1
                                    ELSE IF kst[u] = "done" /\ kkind[u] = "read" THEN 1 ELSE 0,
                            good |-> kans[u].good]] EXCEPT ![t] = Disk!Blank]
    <3>1. Disk!Blank = [ret |-> IF ~kans'[t].ok THEN -1
                                ELSE IF kst'[t] = "done" /\ kkind'[t] = "read" THEN 1 ELSE 0,
                        good |-> kans'[t].good]
      BY <2>1 DEF Disk!Blank, None
    <3> QED BY <2>1, <3>1
  <2> QED BY <2>1, <2>2, <2>3, <2>4 DEF Disk!Take
<1>4. ASSUME NEW t \in Tags, KFail(t) PROVE Disk!Answer(t)
  <2>1. [ok |-> FALSE, good |-> TRUE] \in Answers
    BY DEF Answers
  <2> QED BY <1>4, <2>1, AnswerIsDisks DEF KFail, NbdInv
<1>5. CASE KReceive
  BY <1>1, <1>5, ReceiveIsDisks DEF Disk!DiskNext
<1>6. CASE UNCHANGED <<kst, kkind, kans>>
  BY <1>1, <1>6
<1>7. UNCHANGED <<kst, kkind, kans>> \/ KReceive \/ \E t \in Tags : KSend(t) \/ KTake(t) \/ KFail(t)
  BY DEF Next, Reading, Jobs, Main, vars, kernel, Disconnect, KDown, ReaderCheck, ReaderGets, ReaderEof,
      ReaderInterrupted, IntrReturns, JobStart, JobWork, JobLock, JobHead, JobPay, JobRefuse, MainLeaves,
      MainSignal, DestroyDisconnects, DestroyClears, DestroyJoins
<1> QED BY <1>2, <1>3, <1>4, <1>5, <1>6, <1>7 DEF Disk!DiskNext

\* Whatever the order of the replies, and wherever the device is torn down,
\* each request of the kernel gets one answer, an error or what it asked for.
THEOREM NbdImplementsDisk == Spec => ImplementsDisk
<1>1. Init => Disk!DiskInit
  <2> SUFFICES ASSUME Init PROVE Disk!DiskInit
    OBVIOUS
  <2> QED BY DEF Init, None, Disk!DiskInit, Disk!Nothing, Disk!Blank
<1>2. NbdInv /\ [Next]_vars => [Disk!DiskNext]_(Disk!diskVars)
  BY StepIsDisks
<1> QED BY <1>1, <1>2, NbdAlways, PTL DEF Spec, ImplementsDisk, Disk!DiskSpec
=============================================================================
