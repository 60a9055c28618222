----------------------------- MODULE UblkQueue -----------------------------
(***************************************************************************)
(* The userspace block device of the server (src/netblk/ublk.cpp): one of  *)
(* its queues, with the thread that serves it, and the main thread that    *)
(* starts the device and tears it down.  The kernel's driver is external:  *)
(* for every tag it holds one command of the server (fetch), which it      *)
(* completes when a request comes; the server answers with a command that  *)
(* commits the result and fetches the next request of that tag.            *)
(***************************************************************************)
EXTENDS Integers, Sequences

CONSTANTS Tags,      \* queue_depth requests
          Kinds,     \* operations the kernel asks for: read, write, other
          Writable   \* the backend can be written

VARIABLES
  kst,     \* per tag, in the kernel: idle, sent or done
  kkind,   \* per tag: the operation of the open request
  kans,    \* per tag: the answer the kernel has, ok and good (the image's data)
  armed,   \* tags of which the kernel holds a command
  cq,      \* completions the server has not seen: [tag, res]
  disk,    \* the kernel's device: added, live, deleting
  sq,      \* commands the server has prepared and not submitted: [tag, op]
  result,  \* per tag: ublk_io::result, ok or err
  buf,     \* per tag: its buffer holds the image's data for its request
  state,   \* the queue's state: a set of STOPPING, IDLE
  old,     \* ... as the thread read it before it writes it back
  count,   \* the thread has handled a completion in this round
  queue,   \* its thread: init, top, wait, handle, idle, set, gone
  main,    \* the main thread: start, run, del, flag, join, end
  unset    \* history: the thread has overwritten STOPPING

kernel == <<kst, kkind, kans, armed, disk>>
ios == <<result, buf>>
vars == <<kernel, cq, sq, ios, state, old, count, queue, main, unset>>

None == [ok |-> TRUE, good |-> TRUE]

Init ==
  /\ kst = [t \in Tags |-> "idle"] /\ kkind = [t \in Tags |-> "other"]
  /\ kans = [t \in Tags |-> None] /\ armed = {} /\ cq = <<>> /\ disk = "added"
  /\ sq = {} /\ result = [t \in Tags |-> "ok"]
  /\ buf = [t \in Tags |-> FALSE]
  /\ state = {} /\ old = {} /\ count = FALSE
  /\ queue = "init" /\ main = "start" /\ unset = FALSE

\* The device object is being destroyed: get_ublk throws.
Expired == main \in {"del", "flag", "join", "end"}

-----------------------------------------------------------------------------
\* The kernel's driver, as ublk.cpp uses it.

KSend(t) ==
  /\ disk = "live" /\ t \in armed /\ kst[t] = "idle"
  /\ kst' = [kst EXCEPT ![t] = "sent"]
  /\ \E k \in Kinds : kkind' = [kkind EXCEPT ![t] = k]
  /\ armed' = armed \ {t}
  /\ cq' = Append(cq, [tag |-> t, res |-> "ok"])
  /\ buf' = [buf EXCEPT ![t] = FALSE]
  /\ UNCHANGED <<kans, disk, sq, result, state, old, count, queue, main, unset>>

\* The commands of a device that goes are aborted.
KAbort(t) ==
  /\ disk = "deleting" /\ t \in armed
  /\ armed' = armed \ {t}
  /\ cq' = Append(cq, [tag |-> t, res |-> "abort"])
  /\ UNCHANGED <<kst, kkind, kans, disk, sq, ios, state, old, count, queue, main, unset>>

\* What a thread that has ended left open fails.
KFail(t) ==
  /\ queue = "gone" /\ kst[t] = "sent"
  /\ kst' = [kst EXCEPT ![t] = "done"]
  /\ kans' = [kans EXCEPT ![t] = [ok |-> FALSE, good |-> TRUE]]
  /\ UNCHANGED <<kkind, armed, cq, disk, sq, ios, state, old, count, queue, main, unset>>

KTake(t) ==
  /\ kst[t] = "done"
  /\ kst' = [kst EXCEPT ![t] = "idle"]
  /\ kans' = [kans EXCEPT ![t] = None]
  /\ kkind' = [kkind EXCEPT ![t] = "other"]
  /\ UNCHANGED <<armed, cq, disk, sq, ios, state, old, count, queue, main, unset>>

\* A command is taken over: a commit answers the request of its tag with what
\* the buffer holds.
Commit(t) ==
  /\ kst' = [kst EXCEPT ![t] = "done"]
  /\ kans' = [kans EXCEPT ![t] =
       [ok |-> result[t] = "ok",
        good |-> kkind[t] = "read" /\ result[t] = "ok" => buf[t]]]
KCommand(c) ==
  /\ \/ c.op = "commit" /\ Commit(c.tag)
     \/ c.op = "fetch" /\ UNCHANGED <<kst, kans>>
  /\ armed' = armed \cup {c.tag}
  /\ UNCHANGED <<kkind, disk>>

-----------------------------------------------------------------------------
\* The queue's thread.

\* queue_init and the first commands; an error of either ends the thread.
QueueInit ==
  /\ queue = "init"
  /\ \/ /\ queue' = "top"
        /\ sq' = [tag : Tags, op : {"fetch"}]
     \/ queue' = "gone" /\ UNCHANGED sq
  /\ UNCHANGED <<kernel, cq, ios, state, old, count, main, unset>>

\* process_io
Top ==
  /\ queue = "top" /\ count' = FALSE
  /\ queue' = IF "STOPPING" \in state THEN "gone" ELSE "wait"
  /\ UNCHANGED <<kernel, cq, sq, ios, state, old, main, unset>>

\* io_uring_submit_and_wait_timeout: the commands, and then what has arrived by
\* the end of the wait, if anything
SubmitAndWait ==
  /\ queue = "wait"
  /\ \/ \E c \in sq : KCommand(c) /\ sq' = sq \ {c} /\ UNCHANGED queue
     \/ sq = {} /\ queue' = "handle" /\ UNCHANGED <<kernel, sq>>
  /\ UNCHANGED <<cq, ios, state, old, count, main, unset>>

\* handle_cqe when the request is aborted: the queue stops.
Aborted(t) ==
  /\ state' = state \cup {"STOPPING"}
  /\ queue' = "handle"
  /\ UNCHANGED <<sq, result, buf>>

\* do_read and do_write answer or fail; other operations are not supported.
Serve(t, res) ==
  \/ /\ kkind[t] = "read" /\ res = "ok" /\ buf' = [buf EXCEPT ![t] = TRUE]
  \/ /\ \/ res = "err"
        \/ kkind[t] = "write" /\ Writable
     /\ UNCHANGED buf

\* complete_io and queue_io_cmd
CompleteIo(t, res) ==
  /\ sq' = sq \cup {[tag |-> t, op |-> "commit"]}
  /\ result' = [result EXCEPT ![t] = res]

\* handle_cqe when there is a request: a thread whose device is being destroyed
\* ends without an answer.
Request(t) ==
  \/ /\ Expired /\ queue' = "gone"
     /\ UNCHANGED <<sq, ios, state>>
  \/ /\ ~Expired /\ queue' = "handle"
     /\ \E res \in {"ok", "err"} : Serve(t, res) /\ CompleteIo(t, res)
     /\ UNCHANGED state

HandleCqe ==
  /\ queue = "handle" /\ cq # <<>> /\ cq' = Tail(cq) /\ count' = TRUE
  /\ LET c == Head(cq)
     IN  \/ c.res = "abort" /\ Aborted(c.tag)
         \/ c.res = "ok" /\ Request(c.tag)
  /\ UNCHANGED <<kernel, old, main, unset>>

\* Mutant: the buffers are given back when something came, too.
QuietAlways == "IDLE" \notin state

\* Nothing came for a second: the buffers are given back, once.
Quiet == ~count /\ "IDLE" \notin state

\* With nothing left to handle
AllHandled ==
  /\ queue = "handle" /\ cq = <<>>
  /\ \/ /\ "STOPPING" \notin state /\ Quiet
        /\ buf' = [t \in Tags |-> FALSE]
        /\ old' = state /\ queue' = "set"
     \/ /\ "STOPPING" \notin state /\ "IDLE" \in state
        /\ old' = state /\ queue' = "set"
        /\ UNCHANGED buf
     \/ /\ "STOPPING" \in state \/ ~count \/ "IDLE" \notin state
        /\ queue' = "top"
        /\ UNCHANGED <<old, buf>>
  /\ UNCHANGED <<kernel, cq, sq, result, state, count, main, unset>>

\* state|=IDLE or state&=~IDLE: the main thread may have set STOPPING since the
\* value was read.
SetState ==
  /\ queue = "set" /\ queue' = "top" /\ old' = {}
  /\ \E s \in {state, old} :
       /\ state' = IF "IDLE" \in old THEN s \ {"IDLE"} ELSE s \cup {"IDLE"}
       /\ unset' = (unset \/ ("STOPPING" \in state /\ "STOPPING" \notin s))
  /\ UNCHANGED <<kernel, cq, sq, ios, count, main>>

Queue == QueueInit \/ Top \/ SubmitAndWait \/ HandleCqe \/ AllHandled \/ SetState

-----------------------------------------------------------------------------
\* The main thread.

\* UBLK_CMD_START_DEV returns once every tag is fetched, or on a signal.
Start ==
  /\ main = "start"
  /\ armed = Tags /\ main' = "run" /\ disk' = "live"
  /\ UNCHANGED <<kst, kkind, kans, armed, cq, sq, ios, state, old, count, queue, unset>>

Signal ==
  /\ main \in {"start", "run"} /\ main' = "del"
  /\ UNCHANGED <<kernel, cq, sq, ios, state, old, count, queue, unset>>

\* destroy: UBLK_CMD_DEL_DEV stops the device and returns when the queue has let
\* go of it; it may fail before or after it has stopped it.
Delete ==
  /\ main = "del" /\ disk # "deleting" /\ disk' = "deleting"
  /\ UNCHANGED <<kst, kkind, kans, armed, cq, sq, ios, state, old, count, queue, main, unset>>
Deleted ==
  /\ main = "del" /\ main' = "flag"
  /\ disk = "deleting" /\ queue = "gone"
  /\ UNCHANGED <<kernel, cq, sq, ios, state, old, count, queue, unset>>
DeleteFails ==
  /\ main = "del" /\ main' = "flag"
  /\ UNCHANGED <<kernel, cq, sq, ios, state, old, count, queue, unset>>

AskToStop ==
  /\ main = "flag" /\ main' = "join"
  /\ state' = state \cup {"STOPPING"}
  /\ UNCHANGED <<kernel, cq, sq, ios, old, count, queue, unset>>

Join ==
  /\ main = "join" /\ queue = "gone" /\ main' = "end"
  /\ UNCHANGED <<kernel, cq, sq, ios, state, old, count, queue, unset>>

Main == Start \/ Delete \/ Deleted \/ AskToStop \/ Join

Next ==
  \/ \E t \in Tags : KSend(t) \/ KAbort(t) \/ KFail(t) \/ KTake(t)
  \/ Queue \/ Main \/ Signal \/ DeleteFails

Kernel == \E t \in Tags : KAbort(t) \/ KFail(t)
Fairness == WF_vars(Queue) /\ WF_vars(Main) /\ WF_vars(Kernel)
Spec == Init /\ [][Next]_vars /\ Fairness

-----------------------------------------------------------------------------
\* Properties.

Disk == INSTANCE NetblkDisk WITH
  Clients <- Tags, Extent <- 1, Asked <- {[off |-> 0, len |-> 1], [off |-> 0, len |-> 0]},
  st <- [t \in Tags |-> IF kst[t] = "sent" THEN "pending" ELSE kst[t]],
  asked <- [t \in Tags |-> [off |-> 0, len |-> IF kkind[t] = "read" THEN 1 ELSE 0]],
  ans <- [t \in Tags |-> [ret |-> IF ~kans[t].ok THEN -1
                                  ELSE IF kst[t] = "done" /\ kkind[t] = "read" THEN 1 ELSE 0,
                          good |-> kans[t].good]]

\* Every request the kernel sends gets one answer, an error or the image's data
\* of that request, whatever comes between the read and the commit that carries
\* it (a buffer that is given back, an abort, the end of the thread).
ImplementsDisk == Disk!DiskSpec

\* A request is answered or failed in the end; and the destruction of the device
\* ends, unless the thread, which changes the same word without a lock, has
\* written over the mark that tells it to stop.
QueueEnds ==
  /\ \A t \in Tags : kst[t] = "sent" ~> kst[t] # "sent"
  /\ main = "del" ~> main = "end" \/ unset
=============================================================================
