----------------------------- MODULE WlanList -----------------------------
(***************************************************************************)
(* The panel of one wireless device: its networks and its state            *)
(* (src/src/ui/network/wlan.cpp).  LVGL's thread opens, leaves and redraws *)
(* it; opening the device's client, the scans and every event of the       *)
(* supplicant are functions of the worker pool, which go through the       *)
(* panel's `current` and that device's client without a lock: leaving the  *)
(* panel resets the one, a failed first command the other.                 *)
(*                                                                         *)
(* A command to the supplicant is one step that may throw (WlanClient); a  *)
(* null pointer that is followed ends the program: crashed.                *)
(***************************************************************************)
EXTENDS Integers

CONSTANTS Scans,       \* as many calls of thread_scan as the pool may hold
          MaxEvents    \* events the supplicant sends

VARIABLES
  client,      \* device_wifi::client: "opening", "scan", "ready" or "null"
  wifi,        \* the panel's `current` is the device
  eventId,     \* event_id is set
  listening,   \* the client's on_events has the panel's listener
  updating,    \* the panel's flag
  scan, got,   \* where a call of thread_scan is, and the state it read
  state, next, \* device_wifi::state is COMPLETED; btn_next is enabled
  drawing,     \* update_status waits for LVGL's thread
  completed,   \* the supplicant is connected
  jobs, told,  \* functions of the pool for events; events sent so far
  crashed,
  left,        \* the panel was left while a scan went through `current`
  missed       \* the last read was overtaken by an event, or by another scan's

vars == <<client, wifi, eventId, listening, updating, scan, got, state, next, drawing,
  completed, jobs, told, crashed, left, missed>>

HaveClient == client \in {"scan", "ready"}

Init ==
  /\ client = "opening" /\ wifi = FALSE /\ eventId = FALSE /\ listening = FALSE
  /\ updating = FALSE /\ scan = [s \in Scans |-> "idle"] /\ got = [s \in Scans |-> FALSE]
  /\ state = FALSE /\ next = FALSE /\ drawing = FALSE
  /\ completed \in BOOLEAN /\ jobs = 0 /\ told = 0
  /\ crashed = FALSE /\ left = FALSE /\ missed = FALSE

-----------------------------------------------------------------------------
(* thread_connect_wpa, queued when the page is drawn.  The client is there *)
(* for everybody before its first command is answered, and goes again when *)
(* that command fails.  A panel that is open by then is not told.          *)

ClientOpens ==
  /\ \/ client = "opening" /\ client' \in {"scan", "null"}
     \/ client = "scan" /\ client' \in {"ready", "null"}
  /\ listening' = (listening /\ client' # "null")
  /\ UNCHANGED <<wifi, eventId, updating, scan, got, state, next, drawing, completed, jobs,
       told, crashed, left, missed>>

-----------------------------------------------------------------------------
(* LVGL's thread.                                                          *)

Busy == \E s \in Scans : scan[s] \in {"results", "status", "assign"}

\* switch_to(nullptr): another panel is shown.  The number stays when the
\* client has gone.
Leave ==
  /\ wifi /\ wifi' = FALSE
  /\ IF HaveClient /\ eventId THEN eventId' = FALSE /\ listening' = FALSE
     ELSE UNCHANGED <<eventId, listening>>
  /\ left' = (left \/ Busy)
  /\ UNCHANGED <<client, updating, scan, got, state, next, drawing, completed, jobs, told,
       crashed, missed>>

\* A scan is queued whatever is queued, and `updating` set whatever runs.
QueueScan(s) ==
  /\ scan[s] = "idle"
  /\ updating' = TRUE /\ scan' = [scan EXCEPT ![s] = "queued"]

\* The device's button in the menu, also while the panel is shown, and the way
\* back from the page that connects.
Open(s) ==
  /\ wifi' = TRUE
  /\ next' = state
  /\ IF HaveClient /\ ~eventId THEN eventId' = TRUE /\ listening' = TRUE
     ELSE UNCHANGED <<eventId, listening>>
  /\ QueueScan(s)
  /\ UNCHANGED <<client, got, state, drawing, completed, jobs, told, crashed, left, missed>>

\* update_status.
DrawStatus ==
  /\ drawing /\ drawing' = FALSE
  /\ next' = IF wifi THEN state ELSE next
  /\ UNCHANGED <<client, wifi, eventId, listening, updating, scan, got, state, completed,
       jobs, told, crashed, left, missed>>

-----------------------------------------------------------------------------
(* thread_scan.                                                            *)

Step(s, to) == scan' = [scan EXCEPT ![s] = to]
Gone == ~wifi \/ ~HaveClient

\* Mutant: thread_scan without the tests at its start.
BeginsBlind(s) == UNCHANGED updating /\ Step(s, "results")

\* The two tests at its start; nothing of them holds later on.
Begins(s) ==
  IF Gone THEN updating' = FALSE /\ Step(s, "idle")
  ELSE UNCHANGED updating /\ Step(s, "results")

ScanBegins(s) ==
  /\ scan[s] = "queued" /\ Begins(s)
  /\ UNCHANGED <<client, wifi, eventId, listening, got, state, next, drawing, completed,
       jobs, told, crashed, left, missed>>

\* scan_results and list_networks, or an exception.
ScanResults(s) ==
  /\ scan[s] = "results"
  /\ IF Gone THEN crashed' = TRUE /\ UNCHANGED scan
     ELSE Step(s, "status") /\ UNCHANGED crashed
  /\ UNCHANGED <<client, wifi, eventId, listening, updating, got, state, next, drawing,
       completed, jobs, told, left, missed>>

\* get_status, or an exception.  Of two scans the older may assign last.
ScanStatus(s) ==
  /\ scan[s] = "status"
  /\ IF Gone THEN crashed' = TRUE /\ UNCHANGED <<scan, got, missed>>
     ELSE /\ UNCHANGED crashed
          /\ \/ /\ Step(s, "assign") /\ got' = [got EXCEPT ![s] = completed]
                /\ missed' = (\E t \in Scans \ {s} : scan[t] = "assign")
             \/ Step(s, "end") /\ missed' = TRUE /\ UNCHANGED got
  /\ UNCHANGED <<client, wifi, eventId, listening, updating, state, next, drawing, completed,
       jobs, told, left>>

ScanAssigns(s) ==
  /\ scan[s] = "assign"
  /\ IF ~wifi THEN crashed' = TRUE /\ UNCHANGED <<scan, state, drawing>>
     ELSE Step(s, "end") /\ state' = got[s] /\ drawing' = TRUE /\ UNCHANGED crashed
  /\ UNCHANGED <<client, wifi, eventId, listening, updating, got, next, completed, jobs,
       told, left, missed>>

ScanEnds(s) ==
  /\ scan[s] = "end"
  /\ Step(s, "idle") /\ updating' = FALSE
  /\ UNCHANGED <<client, wifi, eventId, listening, got, state, next, drawing, completed,
       jobs, told, crashed, left, missed>>

Scanning(s) ==
  ScanBegins(s) \/ ScanResults(s) \/ ScanStatus(s) \/ ScanAssigns(s) \/ ScanEnds(s)

-----------------------------------------------------------------------------
(* Events.  The supplicant connects and loses its network by itself.       *)

Supplicant ==
  /\ HaveClient /\ told < MaxEvents /\ told' = told + 1
  /\ completed' = ~completed
  /\ jobs' = IF listening THEN jobs + 1 ELSE jobs
  /\ UNCHANGED <<client, wifi, eventId, listening, updating, scan, got, state, next, drawing,
       crashed, left, missed>>

\* Mutant: the handler is told and queues no scan.
HearsNothing(s) ==
  /\ jobs > 0 /\ jobs' = jobs - 1 /\ scan[s] = "idle"
  /\ UNCHANGED <<client, wifi, eventId, listening, updating, scan, got, state, next, drawing,
       completed, told, crashed, left, missed>>

\* wlan_event_handle.  A scan that has read the state does not see the event.
Hears(s) ==
  /\ jobs > 0 /\ jobs' = jobs - 1
  /\ IF updating
     THEN /\ missed' = (missed \/ \E t \in Scans : scan[t] \in {"assign", "end"})
          /\ UNCHANGED <<updating, scan>>
     ELSE QueueScan(s) /\ UNCHANGED missed
  /\ UNCHANGED <<client, wifi, eventId, listening, got, state, next, drawing, completed,
       told, crashed, left>>

-----------------------------------------------------------------------------
Pool == \E s \in Scans : Scanning(s) \/ Hears(s)

Next ==
  ~crashed /\ (ClientOpens \/ Pool \/ DrawStatus \/ Leave \/ Supplicant \/ \E s \in Scans : Open(s))

-----------------------------------------------------------------------------
(* What is checked.                                                        *)

\* A scan follows a null pointer only when the panel was left while it ran, or
\* when the client went after it had been shown: a panel that stays is safe.
SafeWhileOpen == crashed => left \/ client = "null"

\* When the panel is shown and listens, and nothing is under way, its state
\* and the Next button are those of the supplicant, unless an event came after
\* a scan had read the state and before it reset `updating` (or the read
\* failed): nothing makes up for that event.
ShownIsCurrent ==
  /\ ~crashed /\ wifi /\ listening /\ ~missed
  /\ jobs = 0 /\ ~drawing /\ (\A s \in Scans : scan[s] = "idle")
  => state = completed /\ next = completed
=============================================================================
