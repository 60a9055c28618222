---------------------------- MODULE WlanConnect ----------------------------
(***************************************************************************)
(* The panel that connects to one network                                  *)
(* (src/src/ui/network/wlan_connect.cpp).  A click queues worker_connect,  *)
(* which makes a network, selects it and only then listens for the events  *)
(* that say how it ended; each event runs the listener in the worker pool. *)
(* All of them go through the panel's `current`, which leaving the panel   *)
(* resets, without a lock.  The supplicant's commands are steps that may   *)
(* throw; a null pointer that is followed ends the program: crashed.       *)
(***************************************************************************)
EXTENDS Integers

CONSTANTS Attempts,    \* the clicks on Connect
          MaxEvents    \* events the supplicant sends

VARIABLES
  client,      \* the device's client is there (it may go, while it opens)
  opening,     \* its first command is not answered yet
  conn,        \* the panel has an entry as its `current`
  joined,      \* that entry is the network the device is connected to
  spinner,     \* the panel waits: its controls are disabled
  listeners,   \* the clicks that have a listener in on_events
  attempt,     \* where worker_connect is, for one click
  parting,     \* worker_disconnect is queued
  calls,       \* functions that wait for LVGL's thread
  trying,      \* the supplicant tries to connect
  jobs, told,  \* the events' functions in the pool; events sent so far
  crashed,
  left         \* the panel was left while something of it was under way

vars == <<client, opening, conn, joined, spinner, listeners, attempt, parting, calls, trying,
  jobs, told, crashed, left>>

Init ==
  /\ client = TRUE /\ opening = TRUE
  /\ conn = FALSE /\ joined = FALSE /\ spinner = FALSE /\ listeners = {}
  /\ attempt = [a \in Attempts |-> "idle"] /\ parting = FALSE
  /\ calls = {} /\ trying = FALSE /\ jobs = {} /\ told = 0
  /\ crashed = FALSE /\ left = FALSE

\* The end of thread_connect_wpa.
ClientOpens ==
  /\ opening /\ opening' = FALSE
  /\ client' \in BOOLEAN
  /\ listeners' = IF client' THEN listeners ELSE {}
  /\ UNCHANGED <<conn, joined, spinner, attempt, parting, calls, trying, jobs, told, crashed,
       left>>

-----------------------------------------------------------------------------
(* LVGL's thread.                                                          *)

Busy ==
  \/ parting
  \/ \E a \in Attempts :
       \/ attempt[a] \in {"queued", "create", "select", "listen"}
       \/ a \in listeners
       \/ \E j \in jobs : j.to = a /\ j.at = "start"

\* switch_to with an entry of the list; update() shows what it is.
Open ==
  /\ ~conn /\ conn' = TRUE
  /\ joined' \in BOOLEAN
  /\ spinner' = FALSE
  /\ UNCHANGED <<client, opening, listeners, attempt, parting, calls, trying, jobs, told,
       crashed, left>>

\* switch_to(nullptr), which clears the panel: nothing keeps it from being
\* left while it waits.
Hide ==
  /\ conn' = FALSE /\ spinner' = FALSE
  /\ left' = (left \/ (conn /\ Busy))

\* The Back button (do_back) or another panel of the menu.
Leave ==
  /\ conn /\ Hide
  /\ UNCHANGED <<client, opening, joined, listeners, attempt, parting, calls, trying, jobs,
       told, crashed>>

PressConnect(a) ==
  /\ conn /\ ~joined /\ ~spinner /\ client /\ attempt[a] = "idle"
  /\ spinner' = TRUE
  /\ attempt' = [attempt EXCEPT ![a] = "queued"]
  /\ UNCHANGED <<client, opening, conn, joined, listeners, parting, calls, trying, jobs, told,
       crashed, left>>

PressDisconnect ==
  /\ conn /\ joined /\ ~spinner /\ ~parting
  /\ spinner' = TRUE /\ parting' = TRUE
  /\ UNCHANGED <<client, opening, conn, joined, listeners, attempt, calls, trying, jobs, told,
       crashed, left>>

\* Mutant: update() without clear().
UpdateKeeps == UNCHANGED spinner

\* A message box and update(), which clears the panel first.
Update == spinner' = FALSE
TellFailure ==
  /\ "failed" \in calls /\ calls' = calls \ {"failed"}
  /\ Update
  /\ UNCHANGED <<client, opening, conn, joined, listeners, attempt, parting, trying, jobs,
       told, crashed, left>>

\* do_back, with update() before it after a disconnection.
GoBack ==
  /\ "back" \in calls /\ calls' = calls \ {"back"}
  /\ IF conn THEN Hide ELSE UNCHANGED <<conn, spinner, left>>
  /\ UNCHANGED <<client, opening, joined, listeners, attempt, parting, trying, jobs, told,
       crashed>>

-----------------------------------------------------------------------------
(* worker_connect and worker_disconnect.                                   *)

Move(a, to) == attempt' = [attempt EXCEPT ![a] = to]
Gone == ~conn \/ ~client

\* The network of an earlier click is disabled and removed, if it can be.
RemoveOld(a) ==
  /\ attempt[a] = "queued"
  /\ IF ~conn THEN crashed' = TRUE /\ UNCHANGED attempt
     ELSE Move(a, "create") /\ UNCHANGED crashed
  /\ UNCHANGED <<client, opening, conn, joined, spinner, listeners, parting, calls, trying,
       jobs, told, left>>

CreateNetwork(a) ==
  /\ attempt[a] = "create"
  /\ IF Gone THEN crashed' = TRUE /\ UNCHANGED <<attempt, calls>>
     ELSE /\ UNCHANGED crashed
          /\ \/ Move(a, "select") /\ UNCHANGED calls
             \/ Move(a, "over") /\ calls' = calls \cup {"failed"}
  /\ UNCHANGED <<client, opening, conn, joined, spinner, listeners, parting, trying, jobs,
       told, left>>

\* The supplicant may answer from here on.
Select(a) ==
  /\ attempt[a] = "select"
  /\ IF ~conn THEN crashed' = TRUE /\ UNCHANGED <<attempt, calls, trying>>
     ELSE /\ UNCHANGED crashed
          /\ \/ Move(a, "listen") /\ trying' = TRUE /\ UNCHANGED calls
             \/ Move(a, "over") /\ calls' = calls \cup {"failed"} /\ UNCHANGED trying
  /\ UNCHANGED <<client, opening, conn, joined, spinner, listeners, parting, jobs, told, left>>

Listen(a) ==
  /\ attempt[a] = "listen"
  /\ IF Gone THEN crashed' = TRUE /\ UNCHANGED <<attempt, listeners>>
     ELSE Move(a, "over") /\ listeners' = listeners \cup {a} /\ UNCHANGED crashed
  /\ UNCHANGED <<client, opening, conn, joined, spinner, parting, calls, trying, jobs, told,
       left>>

Disconnect ==
  /\ parting
  /\ IF ~conn THEN crashed' = TRUE /\ UNCHANGED <<parting, calls>>
     ELSE /\ parting' = FALSE /\ \E c \in {"back", "failed"} : calls' = calls \cup {c}
          /\ UNCHANGED crashed
  /\ UNCHANGED <<client, opening, conn, joined, spinner, listeners, attempt, trying, jobs,
       told, left>>

-----------------------------------------------------------------------------
(* Events: one function of the pool for each listener.                     *)

\* "disabled" is CTRL-EVENT-SSID-TEMP-DISABLED for the entry's own network,
\* "late" and "early" CTRL-EVENT-NETWORK-NOT-FOUND, ten seconds after the click
\* or sooner.
Ends == {"connected", "disabled", "late"}

Tell(ev) ==
  /\ client /\ told < MaxEvents /\ told' = told + 1
  /\ jobs' = jobs \cup {[n |-> told, to |-> a, ev |-> ev, at |-> "start"] : a \in listeners}
  /\ UNCHANGED <<client, opening, conn, joined, spinner, listeners, attempt, parting, calls,
       crashed, left>>

Supplicant ==
  /\ trying
  /\ \/ Tell("connected") /\ trying' \in BOOLEAN
     \/ \E ev \in {"disabled", "late", "early"} : Tell(ev) /\ UNCHANGED trying

\* What do_configure and on_fail ask LVGL's thread for.
Answers(ev) ==
  CASE ev = "connected" -> {{"back"}, {"failed"}}
    [] ev \in {"disabled", "late"} -> {{"failed"}}
    [] OTHER -> {{}}

\* The listener of a click: do_configure follows the panel's `current`, the
\* rest the entry it was made with.  A command that throws skips unlisten_event.
Hears(a) ==
  \E j \in jobs :
    /\ j.to = a /\ j.at = "start"
    /\ IF j.ev = "connected" /\ ~conn
       THEN crashed' = TRUE /\ UNCHANGED <<jobs, calls, trying>>
       ELSE \E c \in Answers(j.ev), ends \in IF j.ev = "disabled" THEN BOOLEAN ELSE {j.ev \in Ends} :
              /\ calls' = calls \cup c
              /\ trying' = (trying /\ ~(j.ev = "disabled" /\ ends))
              /\ jobs' = (jobs \ {j}) \cup (IF ends THEN {[j EXCEPT !.at = "unlisten"]} ELSE {})
              /\ UNCHANGED crashed
    /\ UNCHANGED <<client, opening, conn, joined, spinner, listeners, attempt, parting, told,
         left>>

Unlisten(a) ==
  \E j \in jobs :
    /\ j.to = a /\ j.at = "unlisten" /\ jobs' = jobs \ {j}
    /\ IF client THEN listeners' = listeners \ {a} /\ UNCHANGED crashed
       ELSE crashed' = TRUE /\ UNCHANGED listeners
    /\ UNCHANGED <<client, opening, conn, joined, spinner, attempt, parting, calls, trying,
         told, left>>

-----------------------------------------------------------------------------
Pool ==
  \/ Disconnect
  \/ \E a \in Attempts :
       RemoveOld(a) \/ CreateNetwork(a) \/ Select(a) \/ Listen(a) \/ Hears(a) \/ Unlisten(a)

Ui == TellFailure \/ GoBack

Next ==
  /\ ~crashed
  /\ \/ ClientOpens \/ Pool \/ Ui \/ Supplicant \/ Open \/ Leave \/ PressDisconnect
     \/ \E a \in Attempts : PressConnect(a)

-----------------------------------------------------------------------------
(* What is checked.                                                        *)

\* Nothing of a connection follows a null pointer unless the panel was left,
\* by the user or at the end of another connection, while it was under way, or
\* the client went after it had been shown.
SafeWhileOpen == crashed => left \/ ~client

\* A click that hears how it ended gives the panel's controls back: the panel
\* is left, or update() hides the spinner.  (A click whose end comes between
\* SELECT_NETWORK and listen_event hears nothing and waits for ever.)
HeardEnds ==
  (\E j \in jobs : j.at = "start" /\ j.ev \in Ends) ~> (~spinner \/ crashed)
=============================================================================
