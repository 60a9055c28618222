--------------------------- MODULE EthernetPanel ---------------------------
(***************************************************************************)
(* The panel of one wired device and the panel of its addresses            *)
(* (src/src/ui/network/ethernet.cpp, ip_config.cpp).  LVGL's thread opens  *)
(* and leaves them and runs a timer; reading the state, running dhcpcd and *)
(* bringing the device up are functions of the worker pool, kept from      *)
(* running twice by the plain flags `updating` and `configuring`.  The     *)
(* first two go through the panel's `current`, which leaving the panel     *)
(* resets: a null pointer that is followed ends the program (crashed).     *)
(***************************************************************************)
EXTENDS Integers

CONSTANT Profiles    \* what the address panel may store

VARIABLES
  open,         \* the wired panel's `current` is the device
  address,      \* the address panel is shown
  timer,        \* the timer that reads the state
  onChanges,    \* the wired panel listens to the address panel (ipconfig_id)
  updating, reading,        \* the flag, and where the function is
  configuring, running,     \* the flag, and where the function is
  buttons,      \* the two buttons are enabled
  turning,      \* the switch is disabled: its function is queued
  calls,        \* functions that wait for LVGL's thread
  stored, copy, applied,    \* the profile; configure's copy; dhcpcd's
  crashed,
  left          \* the panel was left while something of it was under way

vars == <<open, address, timer, onChanges, updating, reading, configuring, running, buttons,
  turning, calls, stored, copy, applied, crashed, left>>

panel == <<open, address, timer, onChanges>>
profile == <<stored, copy, applied>>

NoProfile == "none"
Default == "dhcp"

Init ==
  /\ open = FALSE /\ address = FALSE /\ timer = FALSE /\ onChanges = FALSE
  /\ updating = FALSE /\ reading = "idle"
  /\ configuring = FALSE /\ running = "idle" /\ buttons = TRUE
  /\ turning = FALSE /\ calls = {}
  /\ stored = Default /\ copy = NoProfile /\ applied = NoProfile
  /\ crashed = FALSE /\ left = FALSE

-----------------------------------------------------------------------------
(* update_status and configure: the part that runs at once.                *)

UpdateStatus(shown) ==
  IF shown /\ ~updating THEN updating' = TRUE /\ reading' = "flags"
  ELSE UNCHANGED <<updating, reading>>

Configure ==
  IF open /\ ~configuring
  THEN configuring' = TRUE /\ running' = "queued" /\ buttons' = FALSE
  ELSE UNCHANGED <<configuring, running, buttons>>

-----------------------------------------------------------------------------
(* LVGL's thread.                                                          *)

Busy == reading # "idle" \/ running # "idle"

Show ==
  /\ open' = TRUE /\ address' = FALSE /\ timer' = TRUE /\ onChanges' = TRUE
  /\ UpdateStatus(TRUE)

\* The device's button in the menu, also while the panel is shown; Back from
\* the address panel.
Open ==
  /\ Show
  /\ UNCHANGED <<configuring, running, buttons, turning, calls, profile, crashed, left>>

Hide == open' = FALSE /\ timer' = FALSE /\ onChanges' = FALSE /\ left' = (left \/ Busy)

\* Another panel of the menu.
Leave ==
  /\ open /\ Hide
  /\ UNCHANGED <<address, updating, reading, configuring, running, buttons, turning, calls,
       profile, crashed>>

LeaveAddress ==
  /\ address /\ address' = FALSE
  /\ UNCHANGED <<open, timer, onChanges, updating, reading, configuring, running, buttons,
       turning, calls, profile, crashed, left>>

\* btn_ipconfig_clicked: showing the address panel hides this one, which
\* stops listening to it.
OpenAddress ==
  /\ open /\ buttons /\ Hide /\ address' = TRUE
  /\ UNCHANGED <<updating, reading, configuring, running, buttons, turning, calls, profile,
       crashed>>

Notify == IF onChanges THEN Configure ELSE UNCHANGED <<configuring, running, buttons>>

Apply(p) ==
  /\ address
  /\ stored' = p /\ Notify
  /\ UNCHANGED <<panel, updating, reading, turning, calls, copy, applied, crashed, left>>

\* reset changes a copy of the profile, tells the listeners and forgets it.
Reset ==
  /\ address /\ Notify
  /\ UNCHANGED <<panel, updating, reading, turning, calls, profile, crashed, left>>

Reconfigure ==
  /\ open /\ buttons /\ Configure
  /\ UNCHANGED <<panel, updating, reading, turning, calls, profile, crashed, left>>

Tick ==
  /\ timer /\ UpdateStatus(open)
  /\ UNCHANGED <<panel, configuring, running, buttons, turning, calls, profile, crashed, left>>

PressSwitch ==
  /\ open /\ ~turning /\ turning' = TRUE
  /\ UNCHANGED <<panel, updating, reading, configuring, running, buttons, calls, profile,
       crashed, left>>

DrawStatus ==
  /\ "status" \in calls /\ calls' = calls \ {"status"}
  /\ updating' = FALSE
  /\ UNCHANGED <<panel, reading, configuring, running, buttons, turning, profile, crashed,
       left>>

\* The end of configure, whoever has begun another one meanwhile.
EnableButtons ==
  /\ "buttons" \in calls /\ calls' = calls \ {"buttons"}
  /\ buttons' = TRUE
  /\ UpdateStatus(open)
  /\ UNCHANGED <<panel, configuring, running, turning, profile, crashed, left>>

-----------------------------------------------------------------------------
(* The worker pool.                                                        *)

ReadFlags ==
  /\ reading = "flags"
  /\ IF ~open THEN crashed' = TRUE /\ UNCHANGED <<updating, reading>>
     ELSE /\ UNCHANGED crashed
          /\ \/ reading' = "address" /\ UNCHANGED updating
             \/ reading' = "idle" /\ updating' = FALSE
  /\ UNCHANGED <<panel, configuring, running, buttons, turning, calls, profile, left>>

ReadAddress ==
  /\ reading = "address"
  /\ IF ~open THEN crashed' = TRUE /\ UNCHANGED <<reading, calls>>
     ELSE reading' = "idle" /\ calls' = calls \cup {"status"} /\ UNCHANGED crashed
  /\ UNCHANGED <<panel, updating, configuring, running, buttons, turning, profile, left>>

CopyProfile ==
  /\ running = "queued"
  /\ IF ~open THEN crashed' = TRUE /\ UNCHANGED <<running, copy>>
     ELSE running' = "running" /\ copy' = stored /\ UNCHANGED crashed
  /\ UNCHANGED <<panel, updating, reading, configuring, buttons, turning, calls, stored,
       applied, left>>

\* ipconfig_profile::configure, or an exception; both are logged with the name
\* of the device.
RunDhcpcd ==
  /\ running = "running"
  /\ IF ~open THEN crashed' = TRUE /\ UNCHANGED <<running, configuring, applied, calls>>
     ELSE /\ running' = "idle" /\ configuring' = FALSE
          /\ applied' \in {copy, applied}
          /\ calls' = calls \cup {"buttons"} /\ UNCHANGED crashed
  /\ UNCHANGED <<panel, updating, reading, buttons, turning, stored, copy, left>>

\* The end of the switch's function, with lv_lock: the device is up or not.
Turned ==
  /\ turning /\ turning' = FALSE
  /\ (Configure \/ UNCHANGED <<configuring, running, buttons>>)
  /\ UNCHANGED <<panel, updating, reading, calls, profile, crashed, left>>

-----------------------------------------------------------------------------
Read == ReadFlags \/ ReadAddress
Run == CopyProfile \/ RunDhcpcd
Pool == Read \/ Run \/ Turned
Ui == DrawStatus \/ EnableButtons

Next ==
  /\ ~crashed
  /\ \/ Pool \/ Ui \/ Open \/ Leave \/ LeaveAddress \/ OpenAddress \/ Reset \/ Reconfigure
     \/ Tick \/ PressSwitch \/ \E p \in Profiles : Apply(p)

-----------------------------------------------------------------------------
(* What is checked.                                                        *)

\* Reading the state and running dhcpcd follow a null pointer only when the
\* panel was left while they were queued or running.
SafeWhileOpen == crashed => left

\* The buttons a configuration disables are enabled again, also when dhcpcd
\* fails, unless the program ended.
ButtonsReturn == ~buttons ~> (buttons \/ crashed)
=============================================================================
