----------------------------- MODULE FuseServer -----------------------------
(***************************************************************************)
(* The FUSE device of the server (src/netblk/fuse3.cpp): a thread runs the *)
(* FUSE session; the main thread makes the file, puts a loop device on it  *)
(* (src/lib/loop.cpp), announces a path and waits for a signal; on the way *)
(* out it takes the loop device off and ends the thread.  The session's    *)
(* callbacks and the main thread share the list of devices under a mutex.  *)
(* The kernel is external: it asks for the file's attributes, opens it and *)
(* reads it for whoever holds the loop device.                             *)
(***************************************************************************)
EXTENDS Naturals, FiniteSets

CONSTANTS Users,   \* processes that read the loop device
          Reads,   \* bound: how often each of them reads
          Nobody   \* no owner of the mutex, no request

VARIABLES
  sess,     \* the session's thread: none, start, check, enter, blocked, serve,
            \* locked, read, destroy, clear, gone
  serving,  \* the request it serves
  se,       \* the session object: null, set, freed
  exited,   \* fuse_session_exit was called
  mounted,  \* the file system is mounted
  listed,   \* the device is in impl->devices
  mutex,    \* who holds impl->mutex: "main", "sess" or Nobody
  loopdev,  \* the loop device: free, bound, or clearing (at its last close)
  told,     \* loop_id is set
  main,     \* the main thread
  named,    \* the path it has announced: none, loop, file
  req,      \* per client of the file system: idle, sent, done, failed
  reads,    \* per user: how often it has read
  pending,  \* a signal for the session's thread
  missed    \* history: it came between the test of exited and the read

session == <<sess, serving, se, exited, mounted, pending, missed>>
device == <<listed, loopdev, told, named>>
vars == <<session, device, mutex, main, req, reads>>

Clients == Users \cup {"main"}

Init ==
  /\ sess = "none" /\ serving = Nobody /\ se = "null" /\ exited = FALSE
  /\ mounted = FALSE /\ listed = FALSE /\ mutex = Nobody
  /\ loopdev = "free" /\ told = FALSE
  /\ main = "init" /\ named = "none"
  /\ req = [c \in Clients |-> "idle"] /\ reads = [u \in Users |-> 0]
  /\ pending = FALSE /\ missed = FALSE

-----------------------------------------------------------------------------
\* The session's thread.

\* thread_main: an error before the mount, or the mount itself.
Mount ==
  /\ sess = "start" /\ se' = "set"
  /\ \/ sess' = "check" /\ mounted' = TRUE
     \/ sess' = "destroy" /\ UNCHANGED mounted
  /\ UNCHANGED <<serving, exited, pending, missed, device, mutex, main, req, reads>>

\* fuse_loop: leave when told to, else wait for a request; it may also fail.
Check ==
  /\ sess = "check"
  /\ \/ exited /\ sess' = "destroy"
     \/ ~exited /\ sess' = "enter"
     \/ sess' = "destroy"
  /\ UNCHANGED <<serving, se, exited, mounted, pending, missed, device, mutex, main, req, reads>>

Enter ==
  /\ sess = "enter" /\ sess' = "blocked"
  /\ UNCHANGED <<serving, se, exited, mounted, pending, missed, device, mutex, main, req, reads>>

\* The read of /dev/fuse ends with a request or with a signal.
Receive ==
  /\ sess = "blocked"
  /\ \/ /\ pending /\ pending' = FALSE
        /\ sess' = "check" /\ UNCHANGED serving
     \/ /\ \E c \in Clients : req[c] = "sent" /\ serving' = c
        /\ sess' = "serve" /\ UNCHANGED pending
  /\ UNCHANGED <<se, exited, mounted, missed, device, mutex, main, req, reads>>

\* getattr, readdir, open and find_backend look for the device under the mutex.
Find ==
  /\ sess = "serve" /\ mutex = Nobody /\ mutex' = "sess" /\ sess' = "locked"
  /\ UNCHANGED <<serving, se, exited, mounted, pending, missed, device, main, req, reads>>
Found ==
  /\ sess = "locked" /\ mutex' = Nobody
  /\ \/ listed /\ sess' = "read" /\ UNCHANGED <<req, serving>>
     \/ /\ ~listed /\ sess' = "check"
        /\ req' = [req EXCEPT ![serving] = "failed"] /\ serving' = Nobody
  /\ UNCHANGED <<se, exited, mounted, pending, missed, device, main, reads>>

\* netblk_read: do_read answers with data or an error, without the mutex.
Answer ==
  /\ sess = "read" /\ sess' = "check"
  /\ \E a \in {"done", "failed"} :
       /\ a = "failed" => serving # "main"
       /\ req' = [req EXCEPT ![serving] = a]
  /\ serving' = Nobody
  /\ UNCHANGED <<se, exited, mounted, pending, missed, device, mutex, main, reads>>

\* The cleanups unmount and free the session; only then is se reset.
Destroy ==
  /\ sess = "destroy" /\ sess' = "clear"
  /\ mounted' = FALSE /\ se' = "freed"
  /\ req' = [c \in Clients |-> IF req[c] = "sent" THEN "failed" ELSE req[c]]
  /\ UNCHANGED <<serving, exited, pending, missed, device, mutex, main, reads>>
ClearSe ==
  /\ sess = "clear" /\ sess' = "gone" /\ se' = "null"
  /\ UNCHANGED <<serving, exited, mounted, pending, missed, device, mutex, main, req, reads>>

Session == Mount \/ Check \/ Enter \/ Receive \/ Find \/ Found \/ Answer \/ Destroy \/ ClearSe

-----------------------------------------------------------------------------
\* The main thread.

\* init starts the thread and waits for sem_ready, released with the mount or
\* with the error.
InitStarts ==
  /\ main = "init" /\ main' = "ready" /\ sess' = "start"
  /\ UNCHANGED <<serving, se, exited, mounted, pending, missed, device, mutex, req, reads>>
Ready ==
  /\ main = "ready" /\ sess \notin {"start", "none"}
  /\ main' = "create"
  /\ UNCHANGED <<session, device, mutex, req, reads>>

\* netblk_device_fuse3::init: the mutex is let go before the loop device opens
\* the file.
Create ==
  /\ main = "create" /\ mutex = Nobody /\ mutex' = "main"
  /\ listed' = TRUE /\ main' = "created"
  /\ UNCHANGED <<session, loopdev, told, named, req, reads>>
\* Mutant: the mutex is kept while the loop device is set up.
CreatedKeepsMutex ==
  /\ main = "created" /\ main' = "open"
  /\ UNCHANGED <<session, device, mutex, req, reads>>

Created ==
  /\ main = "created" /\ mutex' = Nobody /\ main' = "open"
  /\ UNCHANGED <<session, device, req, reads>>

\* loop_set_file: open asks the session; where nothing is mounted it fails.
OpenFile ==
  /\ main = "open"
  /\ \/ mounted /\ req' = [req EXCEPT !["main"] = "sent"] /\ main' = "opening"
     \/ ~mounted /\ main' = "announce" /\ UNCHANGED req
  /\ UNCHANGED <<session, device, mutex, reads>>

\* Mutant: the number of the loop device is kept when it could not be set up.
SetLoopKeepsId ==
  /\ main = "opening" /\ req["main"] \in {"done", "failed"}
  /\ told' = TRUE
  /\ \/ /\ req["main"] = "done" /\ loopdev = "free" /\ loopdev' = "bound"
     \/ UNCHANGED loopdev
  /\ req' = [req EXCEPT !["main"] = "idle"]
  /\ main' = "announce"
  /\ UNCHANGED <<session, listed, named, mutex, reads>>

\* loop_set_fd, which may fail; the device goes on without a loop device.
SetLoop ==
  /\ main = "opening" /\ req["main"] \in {"done", "failed"}
  /\ \/ /\ req["main"] = "done" /\ loopdev = "free"
        /\ loopdev' = "bound" /\ told' = TRUE
     \/ UNCHANGED <<loopdev, told>>
  /\ req' = [req EXCEPT !["main"] = "idle"]
  /\ main' = "announce"
  /\ UNCHANGED <<session, listed, named, mutex, reads>>

\* get_path, written to OUT_JSON
Announce ==
  /\ main = "announce" /\ main' = "run"
  /\ named' = IF told THEN "loop" ELSE "file"
  /\ UNCHANGED <<session, listed, loopdev, told, mutex, req, reads>>

\* run never sees that the thread has ended: the program leaves on a signal.
Signal ==
  /\ main = "run" /\ main' = "stop"
  /\ UNCHANGED <<session, device, mutex, req, reads>>

\* stop: the loop device is taken off under the mutex.  One that is in use is
\* cleared at its last close.
Detach ==
  /\ main = "stop" /\ mutex = Nobody /\ mutex' = "main" /\ main' = "detach"
  /\ UNCHANGED <<session, device, req, reads>>
InUse == \E u \in Users : req[u] # "idle"
LoopDetach ==
  /\ main = "detach" /\ mutex' = Nobody /\ main' = "exit"
  /\ \/ /\ told /\ loopdev' = (IF InUse THEN "clearing" ELSE "free")
        /\ told' = FALSE
     \/ UNCHANGED <<loopdev, told>>
  /\ UNCHANGED <<session, listed, named, req, reads>>

\* se may have been freed already and not reset: then the call may do nothing or
\* end the process.
SessionExit ==
  /\ main = "exit"
  /\ \/ /\ main' = "kill" /\ exited' = (exited \/ se = "set")
        /\ UNCHANGED <<sess, serving, se, mounted, req>>
     \/ /\ se = "freed" /\ main' = "end"
        /\ sess' = "gone" /\ se' = "null" /\ serving' = Nobody
        /\ UNCHANGED <<exited, mounted, req>>
  /\ UNCHANGED <<pending, missed, device, mutex, reads>>

\* SIGUSR1 interrupts a read that has begun; before, it is lost.
Kill ==
  /\ main = "kill" /\ main' = "join"
  /\ pending' = (sess = "blocked")
  /\ missed' = (sess = "enter")
  /\ UNCHANGED <<sess, serving, se, exited, mounted, device, mutex, req, reads>>

Join ==
  /\ main = "join" /\ sess = "gone" /\ main' = "end"
  /\ UNCHANGED <<session, device, mutex, req, reads>>

Main == InitStarts \/ Ready \/ Create \/ Created \/ OpenFile \/ SetLoop \/ Announce
        \/ Detach \/ LoopDetach \/ SessionExit \/ Kill \/ Join

-----------------------------------------------------------------------------
\* The users of the loop device.

ReadLoop(u) ==
  /\ req[u] = "idle" /\ loopdev = "bound" /\ reads[u] < Reads
  /\ req' = [req EXCEPT ![u] = IF mounted THEN "sent" ELSE "failed"]
  /\ reads' = [reads EXCEPT ![u] = @ + 1]
  /\ UNCHANGED <<session, device, mutex, main>>

\* It has its answer and closes the device.
CloseLoop(u) ==
  /\ req[u] \in {"done", "failed"}
  /\ req' = [req EXCEPT ![u] = "idle"]
  /\ loopdev' = IF loopdev = "clearing" /\ \A v \in Users \ {u} : req[v] = "idle"
                THEN "free" ELSE loopdev
  /\ UNCHANGED <<session, listed, told, named, mutex, main, reads>>

Next ==
  \/ Session \/ Main \/ Signal
  \/ \E u \in Users : ReadLoop(u) \/ CloseLoop(u)

Fairness == WF_vars(Session) /\ WF_vars(Main) /\ \A u \in Users : WF_vars(CloseLoop(u))
Spec == Init /\ [][Next]_vars /\ Fairness

-----------------------------------------------------------------------------
\* Properties.

\* A loop device that was announced stays on the file until the server stops,
\* and the file has a backend for as long as anything is on it; the device is
\* gone once nobody uses it after the stop (unless detaching failed).
LoopHasFile ==
  /\ named = "loop" /\ main \in {"run", "stop"} => loopdev = "bound"
  /\ loopdev # "free" => listed
  /\ main = "end" /\ loopdev = "clearing" => InUse

\* Start-up, every read and the stop end, though callbacks and main take the
\* same mutex; unless the signal that wakes the session's thread came just
\* before it began to wait.
ServerEnds ==
  /\ \A c \in Clients : req[c] = "sent" ~> req[c] # "sent" \/ missed
  /\ main = "init" ~> main = "run"
  /\ main = "stop" ~> main = "end" \/ missed
=============================================================================
