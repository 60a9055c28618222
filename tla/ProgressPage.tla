---------------------------- MODULE ProgressPage ----------------------------
(***************************************************************************)
(* The page that runs the installer (src/ui/progress).  The flasher runs   *)
(* in a pseudo-terminal and reports on a pipe; the page's thread reads     *)
(* both.  Everything on the screen belongs to LVGL's thread, which holds   *)
(* lv_lock while it handles timers and clicks; the page's thread takes it  *)
(* to show a status or to queue a call for LVGL's thread.                  *)
(* External: LVGL runs the calls that are queued before it looks at input  *)
(* (a new timer is the first in its list, and the list is walked anew      *)
(* whenever one was created or deleted).                                   *)
(***************************************************************************)
EXTENDS Naturals

CONSTANT MaxStatus  \* bound: status lines written

VARIABLES
  state,     \* state: run, success, failed, cancel
  shown,     \* lbl_report: 0 is "", n the n-th status line
  child,     \* the flasher: alive, ok or bad (exited, not yet waited for), reaped
  result,    \* how it exited: none, ok, bad (by status, by signal or killed)
  pid,       \* pty_pid > 0
  out,       \* there is output to read
  written,   \* status lines written
  pipe,      \* those that are not yet read
  pc,        \* the thread: top, poll, call, sem, status, print, tell, mark, end, joined
  then,      \* what follows the call and the status lines: top, status, print
  verdict,   \* why the thread ends: ok, bad (the process exited), lost (poll failed)
  stop,      \* its stop token
  sem,       \* sem
  calls,     \* calls queued for LVGL's thread: dispatch, print, ok, bad, log
  timer,     \* log_timer exists
  ui,        \* LVGL's thread: idle, or joining for exit (on_exited) or leave (destructor)
  page,      \* the page object exists
  cutoff     \* history: the page was left during a cancel

screen == <<state, shown, page, timer, cutoff>>
proc == <<child, result, pid, out, written, pipe>>
thread == <<pc, then, verdict, stop>>
vars == <<screen, proc, thread, sem, calls, ui>>

\* After draw and start_terminal.
Init ==
  /\ state = "run" /\ shown = 0 /\ page = TRUE /\ timer = TRUE /\ cutoff = FALSE
  /\ child = "alive" /\ result = "none" /\ pid = TRUE
  /\ out = FALSE /\ written = 0 /\ pipe = 0
  /\ pc = "top" /\ then = "top" /\ verdict = "bad" /\ stop = FALSE
  /\ sem = FALSE /\ calls = {} /\ ui = "idle"

-----------------------------------------------------------------------------
\* The flasher and the processes it starts, which may live longer than it.

Output ==
  /\ ~out /\ out' = TRUE
  /\ UNCHANGED <<screen, child, result, pid, written, pipe, thread, sem, calls, ui>>

Report ==
  /\ written < MaxStatus
  /\ written' = written + 1 /\ pipe' = pipe + 1
  /\ UNCHANGED <<screen, child, result, pid, out, thread, sem, calls, ui>>

ChildExits ==
  /\ child = "alive"
  /\ \E r \in {"ok", "bad"} : child' = r /\ result' = r
  /\ UNCHANGED <<screen, pid, out, written, pipe, thread, sem, calls, ui>>

-----------------------------------------------------------------------------
\* The page's thread: pty_dispatch_thread.

\* Mutant: a process killed by a signal counts as one that exited with 0.
ThreadTopAnyExit ==
  /\ pc = "top"
  /\ IF stop
     THEN pc' = "end" /\ UNCHANGED <<child, then, verdict>>
     ELSE IF pid /\ child \in {"ok", "bad"}
     THEN /\ child' = "reaped" /\ verdict' = "ok"
          /\ pc' = "status" /\ then' = "print"
     ELSE pc' = "poll" /\ UNCHANGED <<child, then, verdict>>
  /\ UNCHANGED <<screen, result, pid, out, written, pipe, stop, sem, calls, ui>>

\* Mutant: the end is told before the last status lines are read.
ThreadTopTellsFirst ==
  /\ pc = "top"
  /\ IF stop
     THEN pc' = "end" /\ UNCHANGED <<child, then, verdict>>
     ELSE IF pid /\ child \in {"ok", "bad"}
     THEN /\ child' = "reaped" /\ verdict' = child
          /\ pc' = "tell" /\ then' = "status"
     ELSE pc' = "poll" /\ UNCHANGED <<child, then, verdict>>
  /\ UNCHANGED <<screen, result, pid, out, written, pipe, stop, sem, calls, ui>>

\* The top of the loop: the stop token, then waitpid.
ThreadTop ==
  /\ pc = "top"
  /\ IF stop
     THEN pc' = "end" /\ UNCHANGED <<child, then, verdict>>
     ELSE IF pid /\ child \in {"ok", "bad"}
     THEN /\ child' = "reaped" /\ verdict' = child
          /\ pc' = "status" /\ then' = "print"
     ELSE pc' = "poll" /\ UNCHANGED <<child, then, verdict>>
  /\ UNCHANGED <<screen, result, pid, out, written, pipe, stop, sem, calls, ui>>

\* poll: output, status lines, both, or neither after a second or a signal.
ThreadPoll ==
  /\ pc = "poll"
  /\ \/ out /\ pc' = "call" /\ then' = IF pipe > 0 THEN "status" ELSE "top"
     \/ ~out /\ pipe > 0 /\ pc' = "status" /\ then' = "top"
     \/ pc' = "top" /\ UNCHANGED then
  /\ UNCHANGED <<screen, proc, verdict, stop, sem, calls, ui>>

\* poll fails for good: the rest of the status, and a failure.
PollFails ==
  /\ pc = "poll"
  /\ pc' = "status" /\ then' = "print" /\ verdict' = "lost"
  /\ UNCHANGED <<screen, proc, stop, sem, calls, ui>>

Queue(c) == ui = "idle" /\ calls' = calls \cup {c}

\* Output is read by LVGL's thread; this one waits for it.
ThreadCall ==
  /\ pc = "call" /\ Queue("dispatch")
  /\ pc' = "sem"
  /\ UNCHANGED <<screen, proc, then, verdict, stop, sem, ui>>

ThreadAcquires ==
  /\ pc = "sem" /\ sem
  /\ sem' = FALSE /\ pc' = then /\ then' = "top"
  /\ UNCHANGED <<screen, proc, verdict, stop, calls, ui>>

\* proc_status: one line after the other is shown, under lv_lock.
ThreadStatus ==
  /\ pc = "status" /\ ui = "idle" /\ pipe > 0
  /\ shown' = written - pipe + 1
  /\ pipe' = pipe - 1
  /\ UNCHANGED <<state, page, timer, cutoff, child, result, pid, out, written, thread, sem, calls, ui>>

ThreadStatusEnds ==
  /\ pc = "status" /\ pipe = 0
  /\ pc' = then /\ then' = "top"
  /\ UNCHANGED <<screen, proc, verdict, stop, sem, calls, ui>>

\* The end in words, and then to on_exited.
ThreadPrints ==
  /\ pc = "print" /\ Queue("print")
  /\ pc' = "tell" /\ then' = "mark"
  /\ UNCHANGED <<screen, proc, verdict, stop, sem, ui>>

ThreadTells ==
  /\ pc = "tell" /\ Queue(IF verdict = "ok" THEN "ok" ELSE "bad")
  /\ pc' = then /\ then' = "mark"
  /\ UNCHANGED <<screen, proc, verdict, stop, sem, ui>>

\* The process is forgotten (not when poll failed) and the loop asked to stop.
ThreadMarks ==
  /\ pc = "mark"
  /\ pid' = (pid /\ verdict = "lost") /\ stop' = TRUE
  /\ pc' = "top" /\ then' = "top"
  /\ UNCHANGED <<screen, child, result, out, written, pipe, verdict, sem, calls, ui>>

Thread ==
  \/ ThreadTop \/ ThreadPoll \/ ThreadCall \/ ThreadAcquires
  \/ ThreadStatus \/ ThreadStatusEnds \/ ThreadPrints \/ ThreadTells \/ ThreadMarks
-----------------------------------------------------------------------------
\* LVGL's thread.

\* stop_terminal, up to the join: the process is killed and waited for.
Stopping(why) ==
  /\ child' = IF pid THEN "reaped" ELSE child
  /\ result' = IF pid /\ child = "alive" THEN "bad" ELSE result
  /\ stop' = TRUE /\ ui' = why

\* Mutant: the log timer is deleted and not forgotten.
StopEndsKeeps ==
  /\ ui # "idle" /\ pc \in {"end", "joined"}
  /\ pc' = "joined" /\ pid' = FALSE /\ ui' = "idle"
  /\ calls' = calls \cup (IF timer THEN {"log"} ELSE {})
  /\ page' = (page /\ ui # "leave")
  /\ UNCHANGED <<state, shown, timer, cutoff, child, result, out, written, pipe, then, verdict, stop, sem>>

\* The rest of it, when the thread has ended: the last log lines are queued once.
StopEnds ==
  /\ ui # "idle" /\ pc \in {"end", "joined"}
  /\ pc' = "joined" /\ pid' = FALSE /\ timer' = FALSE /\ ui' = "idle"
  /\ calls' = calls \cup (IF timer THEN {"log"} ELSE {})
  /\ page' = (page /\ ui # "leave")
  /\ UNCHANGED <<state, shown, cutoff, child, result, out, written, pipe, then, verdict, stop, sem>>

\* pty_dispatch_task, and the lines of text; a call may find its page gone.
RunTask ==
  /\ ui = "idle"
  /\ \E c \in calls \ {"ok", "bad"} :
       /\ calls' = calls \ {c}
       /\ IF c = "dispatch" THEN out' = FALSE /\ sem' = TRUE ELSE UNCHANGED <<out, sem>>
  /\ UNCHANGED <<screen, child, result, pid, written, pipe, thread, ui>>

\* Mutant: a process that ends well after a cancel has succeeded.
OnExitedWell ==
  /\ ui = "idle"
  /\ \E c \in calls \cap {"ok", "bad"} :
       /\ calls' = calls \ {c}
       /\ IF state \in {"run", "cancel"}
          THEN /\ state' = IF c = "ok" THEN "success" ELSE "failed"
               /\ shown' = 0 /\ Stopping("exit")
          ELSE UNCHANGED <<state, shown, child, result, stop, ui>>
  /\ UNCHANGED <<page, timer, cutoff, pid, out, written, pipe, pc, then, verdict, sem>>

\* on_exited: the end is shown once, and the terminal stopped.
OnExited ==
  /\ ui = "idle"
  /\ \E c \in calls \cap {"ok", "bad"} :
       /\ calls' = calls \ {c}
       /\ IF state \in {"run", "cancel"}
          THEN /\ state' = IF c = "ok" /\ state = "run" THEN "success" ELSE "failed"
               /\ shown' = 0 /\ Stopping("exit")
          ELSE UNCHANGED <<state, shown, child, result, stop, ui>>
  /\ UNCHANGED <<page, timer, cutoff, pid, out, written, pipe, pc, then, verdict, sem>>

\* Input is looked at when no call is queued.
Clickable == ui = "idle" /\ calls = {} /\ page

\* The button is there while the installer runs; SIGTERM is the flasher's to obey.
Cancel ==
  /\ Clickable /\ state = "run"
  /\ state' = "cancel" /\ shown' = 0
  /\ UNCHANGED <<page, timer, cutoff, proc, thread, sem, calls, ui>>

\* The button is there when it does not run: the destructor stops the terminal.
Back ==
  /\ Clickable /\ state # "run"
  /\ cutoff' = (state = "cancel")
  /\ Stopping("leave")
  /\ UNCHANGED <<state, shown, page, timer, pid, out, written, pipe, pc, then, verdict, sem, calls>>

Lvgl == StopEnds \/ RunTask \/ OnExited

Next ==
  \/ Output \/ Report \/ ChildExits
  \/ Thread \/ PollFails
  \/ Lvgl \/ Cancel \/ Back

Spec == Init /\ [][Next]_vars

\* Both threads run.  The flasher need not end and nobody has to click.
FairSpec == Spec /\ WF_vars(Thread) /\ WF_vars(Lvgl)
-----------------------------------------------------------------------------
\* What must hold.

\* The variables have their types; the semaphore is up only for a thread that
\* waits for it, so that it is never released twice.
TypeOK ==
  /\ state \in {"run", "success", "failed", "cancel"} /\ shown \in 0 .. MaxStatus
  /\ child \in {"alive", "ok", "bad", "reaped"} /\ result \in {"none", "ok", "bad"}
  /\ pid \in BOOLEAN /\ out \in BOOLEAN /\ stop \in BOOLEAN /\ sem \in BOOLEAN
  /\ timer \in BOOLEAN /\ page \in BOOLEAN /\ cutoff \in BOOLEAN
  /\ written \in 0 .. MaxStatus /\ pipe \in 0 .. written
  /\ pc \in {"top", "poll", "call", "sem", "status", "print", "tell", "mark", "end", "joined"}
  /\ then \in {"top", "status", "print", "mark"} /\ verdict \in {"ok", "bad", "lost"}
  /\ calls \subseteq {"dispatch", "print", "ok", "bad", "log"}
  /\ ui \in {"idle", "exit", "leave"}
  /\ sem => pc = "sem"

Final == state \in {"success", "failed"}

\* "Install complete" is shown only for a process that exited with 0 by itself,
\* though a cancel, a failing poll and the kill in stop_terminal race with it.
SuccessIsReal == state = "success" => result = "ok"

\* A cancelled installation is never shown as a success, even when the process
\* ends well before it hears of it (installer.cpp:23).
CancelIsFinal == [][state = "cancel" => state' # "success"]_vars

\* No process survives the page, and none is left to be waited for.
NothingLeftRunning == ~page => child = "reaped"

\* A queued call finds its page, unless it was left during a cancel: then the
\* call that stop_terminal queues itself (terminal.cpp:68) comes too late.
CallsFindPage == calls # {} => page \/ cutoff

\* LVGL's thread joins while it holds lv_lock, which the other may be waiting
\* for: it returns all the same; and the end of the process comes to the screen.
\* Neither is promised to a page that was left during a cancel.
PageEnds ==
  /\ ui # "idle" ~> (ui = "idle" \/ cutoff)
  /\ child # "alive" ~> (Final \/ cutoff)
=============================================================================
