----------------------------- MODULE NbdServer -----------------------------
(***************************************************************************)
(* The network block device of the server (src/netblk/nbd.cpp) between the *)
(* kernel and a backend.  A read thread takes requests from the socket and *)
(* hands each to the worker pool (JobPool, what worker.cpp promises); the  *)
(* jobs answer on the same socket under write_lock, in any order.  A       *)
(* thread waits in NBD_DO_IT; the main thread watches the device and tears *)
(* it down.  The kernel is external: it sends requests while its           *)
(* connection is up and fails what is open when the connection goes down.  *)
(***************************************************************************)
EXTENDS Integers, Sequences

CONSTANTS Tags,      \* requests the kernel may have open at once
          Rounds,    \* bound: how often the kernel uses a tag
          Kinds,     \* kinds of request: read, write, other
          Slots,     \* worker threads
          Nobody,    \* no request
          Writable   \* the backend can be written (can_access(S_IWOTH))

Ctx == [tag : Tags, round : 1 .. Rounds] \* a netblk_nbd_context
Disc == [tag |-> Nobody, round |-> 1]    \* the context of an NBD_CMD_DISC

ASSUME NbdAssumption ==
  /\ Rounds \in Nat \ {0} /\ Kinds \subseteq {"read", "write", "other"}
  /\ Writable \in BOOLEAN /\ Slots # {}
  /\ Nobody \notin Tags \cup Ctx \cup {Disc}

VARIABLES
  up,       \* the kernel's side of the connection is up: NBD_DO_IT has not returned
  kst,      \* per tag, in the kernel: idle, sent or done
  kround,   \* per tag: how often it was used
  kkind,    \* per tag: kind of the open request
  kans,     \* per tag: the answer the kernel has, ok and good (the image's data)
  want,     \* the kernel has read a header and expects the data of this context
  toSrv,    \* socket, kernel to server: contexts with their kind
  toKer,    \* socket, server to kernel: [ctx, what, good], what is ok, err or data
  line, active, finished,  \* the worker pool
  jpc,      \* per context: work, reply, head, pay, refuse (while active)
  jkind,    \* per context: kind of the request
  wlock,    \* write_lock
  running,  \* netblk_device_nbd::running
  reader,   \* the read thread: check, blocked, gone
  intr,     \* the thread in NBD_DO_IT: inside, gone
  mpc       \* the main thread: loop, disc, clear, join, done

kernel == <<up, kst, kround, kkind, kans, want>>
pool == <<line, active, finished>>
threads == <<running, reader, intr, mpc>>
vars == <<kernel, toSrv, toKer, pool, jpc, jkind, wlock, threads>>

Pool == INSTANCE JobPool WITH Tasks <- Ctx \cup {Disc}

None == [ok |-> TRUE, good |-> TRUE]

Init ==
  /\ up = TRUE
  /\ kst = [t \in Tags |-> "idle"] /\ kround = [t \in Tags |-> 0]
  /\ kkind = [t \in Tags |-> "other"] /\ kans = [t \in Tags |-> None]
  /\ want = Nobody /\ toSrv = <<>> /\ toKer = <<>>
  /\ Pool!PoolInit
  /\ jpc = [c \in Ctx \cup {Disc} |-> "none"]
  /\ jkind = [c \in Ctx \cup {Disc} |-> "other"]
  /\ wlock = Nobody
  /\ running = TRUE /\ reader = "check" /\ intr = "inside" /\ mpc = "loop"

-----------------------------------------------------------------------------
\* The kernel.

KSend(t) ==
  /\ up /\ kst[t] = "idle" /\ kround[t] < Rounds
  /\ kst' = [kst EXCEPT ![t] = "sent"]
  /\ kround' = [kround EXCEPT ![t] = @ + 1]
  /\ \E k \in Kinds :
       /\ kkind' = [kkind EXCEPT ![t] = k]
       /\ toSrv' = Append(toSrv, [ctx |-> [tag |-> t, round |-> kround[t] + 1], kind |-> k])
  /\ UNCHANGED <<up, kans, want, toKer, pool, jpc, jkind, wlock, threads>>

\* The kernel reads a header, or the data it expects; anything else in that
\* place it takes for the data.
KReceive ==
  /\ up /\ toKer # <<>>
  /\ toKer' = Tail(toKer)
  /\ LET m == Head(toKer)
         t == m.ctx.tag
     IN  IF want # Nobody
         THEN /\ want' = Nobody
              /\ kst' = [kst EXCEPT ![want] = "done"]
              /\ kans' = [kans EXCEPT ![want] =
                            [ok |-> TRUE, good |-> m.what = "data" /\ t = want /\ m.good]]
         ELSE IF t = Nobody
         THEN UNCHANGED <<want, kst, kans>>
         ELSE IF m.what = "ok" /\ kkind[t] = "read"
         THEN want' = t /\ UNCHANGED <<kst, kans>>
         ELSE /\ kst' = [kst EXCEPT ![t] = "done"]
              /\ kans' = [kans EXCEPT ![t] = [ok |-> m.what = "ok", good |-> m.what # "data"]]
              /\ UNCHANGED want
  /\ UNCHANGED <<up, kround, kkind, toSrv, pool, jpc, jkind, wlock, threads>>

KTake(t) ==
  /\ kst[t] = "done"
  /\ kst' = [kst EXCEPT ![t] = "idle"]
  /\ kans' = [kans EXCEPT ![t] = None]
  /\ kkind' = [kkind EXCEPT ![t] = "other"]
  /\ UNCHANGED <<up, kround, want, toSrv, toKer, pool, jpc, jkind, wlock, threads>>

\* The connection ends: nothing more is read or sent ...
Disconnect ==
  /\ up' = FALSE /\ want' = Nobody
  /\ UNCHANGED <<kst, kround, kkind, kans>>

\* A timeout, or somebody disconnects the device.
KDown ==
  /\ up /\ Disconnect
  /\ UNCHANGED <<toSrv, toKer, pool, jpc, jkind, wlock, threads>>

\* ... and the open requests fail.
KFail(t) ==
  /\ ~up /\ kst[t] = "sent"
  /\ kst' = [kst EXCEPT ![t] = "done"]
  /\ kans' = [kans EXCEPT ![t] = [ok |-> FALSE, good |-> TRUE]]
  /\ UNCHANGED <<up, kround, kkind, want, toSrv, toKer, pool, jpc, jkind, wlock, threads>>

-----------------------------------------------------------------------------
\* The read thread.

\* while(running)
ReaderCheck ==
  /\ reader = "check"
  /\ reader' = IF running THEN "blocked" ELSE "gone"
  /\ UNCHANGED <<kernel, toSrv, toKer, pool, jpc, jkind, wlock, running, intr, mpc>>

\* read_nbd: one request, with the data of a write, becomes a job.
ReaderGets ==
  /\ reader = "blocked" /\ toSrv # <<>>
  /\ Pool!Accept(Head(toSrv).ctx)
  /\ jkind' = [jkind EXCEPT ![Head(toSrv).ctx] = Head(toSrv).kind]
  /\ toSrv' = Tail(toSrv)
  /\ reader' = "check"
  /\ UNCHANGED <<kernel, toKer, jpc, wlock, running, intr, mpc>>

\* End of file or a request cut short: the thread ends and asks to stop.
ReaderEof ==
  /\ reader = "blocked" /\ ~up
  /\ reader' = "gone" /\ running' = FALSE
  /\ toSrv' = <<>>
  /\ UNCHANGED <<kernel, toKer, pool, jpc, jkind, wlock, intr, mpc>>

\* request_stop signals the process, which may break the read.
ReaderInterrupted ==
  /\ reader = "blocked" /\ ~running
  /\ reader' = "check"
  /\ UNCHANGED <<kernel, toSrv, toKer, pool, jpc, jkind, wlock, running, intr, mpc>>

\* The thread in NBD_DO_IT comes back.
IntrReturns ==
  /\ intr = "inside" /\ ~up
  /\ intr' = "gone" /\ running' = FALSE
  /\ UNCHANGED <<kernel, toSrv, toKer, pool, jpc, jkind, wlock, reader, mpc>>

-----------------------------------------------------------------------------
\* A job of the pool: netblk_nbd_context.

JobStart ==
  /\ Pool!Start
  /\ jpc' = [jpc EXCEPT ![Head(line)] = "work"]
  /\ UNCHANGED <<kernel, toSrv, toKer, jkind, wlock, threads>>

\* process: the backend serves the request or fails.  An unknown command is
\* logged and, its error being positive, goes on like a success.
JobWork(c) ==
  /\ jpc[c] = "work"
  /\ \/ jkind[c] = "read" /\ \E next \in {"reply", "refuse"} : jpc' = [jpc EXCEPT ![c] = next]
     \/ /\ jkind[c] = "write"
        /\ \E next \in {"refuse"} \cup (IF Writable THEN {"reply"} ELSE {}) : jpc' = [jpc EXCEPT ![c] = next]
     \/ jkind[c] \in {"other", "disc"} /\ jpc' = [jpc EXCEPT ![c] = "reply"]
  /\ running' = (running /\ jkind[c] # "disc")
  /\ UNCHANGED <<kernel, toSrv, toKer, pool, jkind, wlock, reader, intr, mpc>>

JobLock(c) ==
  /\ jpc[c] = "reply" /\ wlock = Nobody
  /\ wlock' = c
  /\ jpc' = [jpc EXCEPT ![c] = "head"]
  /\ UNCHANGED <<kernel, toSrv, toKer, pool, jkind, threads>>

Unlock(c) == wlock' = IF wlock = c THEN Nobody ELSE wlock

End(c) == Pool!Complete(c) /\ jpc' = [jpc EXCEPT ![c] = "none"]

Write(c, part) == toKer' = Append(toKer, [ctx |-> c, what |-> part, good |-> TRUE])

\* The header of a success; a broken socket turns it into an error reply.
JobHead(c) ==
  /\ jpc[c] = "head"
  /\ \/ /\ up /\ jkind[c] = "read" /\ Write(c, "ok")
        /\ jpc' = [jpc EXCEPT ![c] = "pay"]
        /\ UNCHANGED <<pool, wlock>>
     \/ /\ up /\ jkind[c] # "read" /\ Write(c, "ok")
        /\ Unlock(c) /\ End(c)
     \/ /\ ~up /\ Unlock(c)
        /\ jpc' = [jpc EXCEPT ![c] = "refuse"]
        /\ UNCHANGED <<toKer, pool>>
  /\ UNCHANGED <<kernel, toSrv, jkind, threads>>

\* Mutant: the backend's failure is seen only after the header was sent.
JobPayFails(c) ==
  /\ jpc[c] = "pay"
  /\ Unlock(c)
  /\ \/ End(c) /\ IF up THEN Write(c, "data") ELSE UNCHANGED toKer
     \/ jpc' = [jpc EXCEPT ![c] = "refuse"] /\ UNCHANGED <<toKer, pool>>
  /\ UNCHANGED <<kernel, toSrv, jkind, threads>>

\* The data; when that fails reply_sent keeps reply_error quiet.
JobPay(c) ==
  /\ jpc[c] = "pay"
  /\ Unlock(c) /\ End(c)
  /\ IF up THEN Write(c, "data") ELSE UNCHANGED toKer
  /\ UNCHANGED <<kernel, toSrv, jkind, threads>>

\* Mutant: the error of a job is logged and not sent.
JobRefuseSilent(c) ==
  /\ jpc[c] = "refuse" /\ wlock = Nobody
  /\ End(c)
  /\ UNCHANGED <<kernel, toSrv, toKer, jkind, wlock, threads>>

\* Mutant: the error reply does not wait for the lock.
JobRefuseUnlocked(c) ==
  /\ jpc[c] = "refuse"
  /\ End(c)
  /\ IF up THEN Write(c, "err") ELSE UNCHANGED toKer
  /\ UNCHANGED <<kernel, toSrv, jkind, wlock, threads>>

\* reply_error: one header under the lock; on a broken socket it throws, and the
\* pool logs that.
JobRefuse(c) ==
  /\ jpc[c] = "refuse" /\ wlock = Nobody
  /\ End(c)
  /\ IF up THEN Write(c, "err") ELSE UNCHANGED toKer
  /\ UNCHANGED <<kernel, toSrv, jkind, wlock, threads>>

-----------------------------------------------------------------------------
\* The main thread.

\* run: no device is running; or a signal ends the loop.
MainLeaves ==
  /\ mpc = "loop" /\ ~running
  /\ mpc' = "disc"
  /\ UNCHANGED <<kernel, toSrv, toKer, pool, jpc, jkind, wlock, running, reader, intr>>

MainSignal ==
  /\ mpc = "loop"
  /\ mpc' = "disc"
  /\ UNCHANGED <<kernel, toSrv, toKer, pool, jpc, jkind, wlock, running, reader, intr>>

\* destroy: NBD_DISCONNECT sends a request of its own through the socket ...
DestroyDisconnects ==
  /\ mpc = "disc"
  /\ running' = FALSE /\ mpc' = "clear"
  /\ toSrv' = IF up THEN Append(toSrv, [ctx |-> Disc, kind |-> "disc"]) ELSE toSrv
  /\ UNCHANGED <<kernel, toKer, pool, jpc, jkind, wlock, reader, intr>>

\* Mutant: the threads are joined while the socket is open.
DestroyClearsNot ==
  /\ mpc = "clear"
  /\ mpc' = "join"
  /\ UNCHANGED <<kernel, toSrv, toKer, pool, jpc, jkind, wlock, running, reader, intr>>

\* ... NBD_CLEAR_SOCK and the close of both ends break it.
DestroyClears ==
  /\ mpc = "clear"
  /\ Disconnect
  /\ mpc' = "join"
  /\ UNCHANGED <<toSrv, toKer, pool, jpc, jkind, wlock, running, reader, intr>>

DestroyJoins ==
  /\ mpc = "join" /\ reader = "gone" /\ intr = "gone"
  /\ mpc' = "done"
  /\ UNCHANGED <<kernel, toSrv, toKer, pool, jpc, jkind, wlock, running, reader, intr>>

Reading == ReaderCheck \/ ReaderGets \/ ReaderEof
Jobs == JobStart \/ \E c \in Ctx \cup {Disc} :
                   JobWork(c) \/ JobLock(c) \/ JobHead(c) \/ JobPay(c) \/ JobRefuse(c)
Main == MainLeaves \/ DestroyDisconnects \/ DestroyClears \/ DestroyJoins

Next ==
  \/ \E t \in Tags : KSend(t) \/ KTake(t) \/ KFail(t)
  \/ KReceive \/ KDown
  \/ Reading \/ ReaderInterrupted \/ IntrReturns
  \/ Jobs
  \/ Main \/ MainSignal

Spec == Init /\ [][Next]_vars

\* The threads run, the pool starts what it is given (WorkerPool!PoolServes), the
\* backend answers (BlockCache!ReadsAnswered), some job that can go on does, and
\* the kernel reads its socket.
Fairness ==
  /\ WF_vars(Reading) /\ WF_vars(IntrReturns) /\ WF_vars(Jobs) /\ WF_vars(Main)
  /\ WF_vars(KReceive \/ \E t \in Tags : KFail(t))

FairSpec == Spec /\ Fairness
-----------------------------------------------------------------------------
\* What must hold.

\* A reply is not torn: behind the header of a served read comes its data, and
\* data comes nowhere else, whatever the other jobs send (nbd.cpp:234-246).
WholeReplies ==
  up => \A i \in 1 .. Len(toKer) :
          /\ toKer[i].what = "ok" /\ jkind[toKer[i].ctx] = "read" =>
               \/ i < Len(toKer) /\ toKer[i + 1].what = "data" /\ toKer[i + 1].ctx = toKer[i].ctx
               \/ i = Len(toKer) /\ wlock = toKer[i].ctx
          /\ toKer[i].what = "data" =>
               \/ i > 1 /\ toKer[i - 1].what = "ok" /\ toKer[i - 1].ctx = toKer[i].ctx
               \/ i = 1 /\ want = toKer[i].ctx.tag

\* Every request the kernel has open is answered, by a reply or by the end of
\* the connection.
RequestsAnswered == \A t \in Tags : kst[t] = "sent" ~> kst[t] # "sent"

\* When the device has stopped, whoever noticed it, the process leaves its loop
\* and its tear-down ends (nbd.cpp:142-153, :160-180).
EndNoticed == ~running ~> mpc = "done"

\* Seen from the kernel the device is a disk: each request gets one answer, an
\* error or what was asked; a late or doubled reply never answers another one.
Disk == INSTANCE NetblkDisk WITH
          Clients <- Tags, Extent <- 1, Asked <- {[off |-> 0, len |-> 1], [off |-> 0, len |-> 0]},
          st <- [t \in Tags |-> IF kst[t] = "sent" THEN "pending" ELSE kst[t]],
          asked <- [t \in Tags |-> [off |-> 0, len |-> IF kkind[t] = "read" THEN 1 ELSE 0]],
          ans <- [t \in Tags |-> [ret |-> IF ~kans[t].ok THEN -1
                                          ELSE IF kst[t] = "done" /\ kkind[t] = "read" THEN 1 ELSE 0,
                                  good |-> kans[t].good]]
ImplementsDisk == Disk!DiskSpec
=============================================================================
