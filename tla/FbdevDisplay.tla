--------------------------- MODULE FbdevDisplay ---------------------------
(***************************************************************************)
(* The screen as a frame buffer (src/src/display/fbdev.cpp): LVGL's thread *)
(* copies what it has drawn, area by area, into the memory of the device,  *)
(* and a thread of its own makes the device show it.  gui_pause stops the  *)
(* copying while another terminal is in front: it is set and reset by      *)
(* LVGL's thread, which a signal interrupts anywhere, and by the event     *)
(* loop, which runs beside it (src/src/display/console.cpp; DrmDisplay has *)
(* the terminals and signals themselves).                                  *)
(***************************************************************************)
EXTENDS Integers, FiniteSets

CONSTANTS Areas,
          MaxDraws,     \* how often what is to be seen changes
          MaxTurns      \* how often the terminal changes

VARIABLES
  calls,     \* set_display_mode in progress, per thread
  paused,    \* gui_pause
  asked,     \* an asynchronous call will invalidate the screen
  overlap,   \* history: opposite calls were in progress at once
  turns,
  at,        \* LVGL's thread
  now,       \* per area: the state of the widgets
  invalid,   \* areas to be drawn
  drawn,     \* LVGL's draw buffer
  todo, area,  \* areas of this frame that are still to be flushed, and the one that is
  mem,       \* the device's memory
  sem,       \* the semaphore `flush`
  pan,       \* the refresh thread waits ("wait") or is about to pan ("pan")
  visible    \* what the device shows

vars == <<calls, paused, asked, overlap, turns, at, now, invalid, drawn, todo, area, mem, sem,
  pan, visible>>
modes == <<calls, paused, asked, overlap, turns>>
lvgl == <<at, now, invalid, drawn, todo, area>>
device == <<mem, sem, pan, visible>>

Blank == -1
Callers == {"signal", "keys"}
NoCall == [to |-> "none", step |-> "none"]

\* init_fbdev clears the memory, and all of the screen is invalid.
Init ==
  /\ calls = [t \in Callers |-> NoCall]
  /\ paused = FALSE /\ asked = FALSE /\ overlap = FALSE /\ turns = 0
  /\ at = "sleep" /\ now = [a \in Areas |-> 0] /\ invalid = Areas
  /\ drawn = now /\ todo = {} /\ area = CHOOSE a \in Areas : TRUE
  /\ mem = [a \in Areas |-> Blank] /\ visible = mem /\ sem = 0 /\ pan = "wait"

-----------------------------------------------------------------------------
(* set_display_mode.                                                       *)

Turn(t, to) ==
  /\ calls[t] = NoCall /\ turns < MaxTurns /\ turns' = turns + 1
  /\ calls' = [calls EXCEPT ![t] =
       [to |-> to, step |-> IF to = "gui" THEN "unpause" ELSE "pause"]]
  /\ overlap' = (overlap \/ \E u \in Callers \ {t} : calls[u].to \notin {"none", to})
  /\ UNCHANGED <<paused, asked, lvgl, device>>

Pauses(t) ==
  /\ calls[t].step = "pause" /\ paused' = TRUE
  /\ calls' = [calls EXCEPT ![t].step = "fill"]
  /\ UNCHANGED <<asked, overlap, turns, lvgl, device>>

\* fill_color
Fills(t) ==
  /\ calls[t].step = "fill" /\ mem' = [a \in Areas |-> Blank]
  /\ calls' = [calls EXCEPT ![t] = NoCall]
  /\ UNCHANGED <<paused, asked, overlap, turns, lvgl, sem, pan, visible>>

Unpauses(t) ==
  /\ calls[t].step = "unpause"
  /\ asked' = (asked \/ paused) /\ paused' = FALSE
  /\ calls' = [calls EXCEPT ![t] = NoCall]
  /\ UNCHANGED <<overlap, turns, lvgl, device>>

Mode == \E t \in Callers : Pauses(t) \/ Fills(t) \/ Unpauses(t)

-----------------------------------------------------------------------------
(* LVGL's thread, while no signal is handled there.                        *)

Goes(from, to) == calls["signal"] = NoCall /\ at = from /\ at' = to

Changes(a) ==
  /\ calls["signal"] = NoCall /\ at = "sleep"
  /\ now[a] < MaxDraws /\ now' = [now EXCEPT ![a] = @ + 1]
  /\ invalid' = invalid \cup {a}
  /\ UNCHANGED <<modes, at, drawn, todo, area, device>>

\* A frame: asynchronous calls first, then LVGL draws what is invalid.
Refresh ==
  /\ Goes("sleep", "next") /\ ~paused
  /\ asked' = FALSE
  /\ todo' = (IF asked THEN Areas ELSE invalid) /\ invalid' = {}
  /\ drawn' = now
  /\ UNCHANGED <<calls, paused, overlap, turns, now, area, device>>

\* flush_cb is called for an area, and does nothing while gui_pause is set.
FlushTest ==
  /\ IF todo = {} THEN Goes("next", "sleep") /\ UNCHANGED <<todo, area>>
     ELSE \E a \in todo :
       /\ todo' = todo \ {a} /\ area' = a
       /\ Goes("next", IF paused THEN "next" ELSE "copy")
  /\ UNCHANGED <<modes, now, invalid, drawn, device>>
Copy ==
  /\ Goes("copy", "release")
  /\ mem' = [mem EXCEPT ![area] = drawn[area]]
  /\ UNCHANGED <<modes, now, invalid, drawn, todo, area, sem, pan, visible>>
Release ==
  /\ Goes("release", "next") /\ sem' = sem + 1
  /\ UNCHANGED <<modes, now, invalid, drawn, todo, area, mem, pan, visible>>

-----------------------------------------------------------------------------
(* refresh_thread.                                                         *)

Acquire ==
  /\ pan = "wait" /\ sem > 0 /\ sem' = sem - 1 /\ pan' = "pan"
  /\ UNCHANGED <<modes, lvgl, mem, visible>>
Pan ==
  /\ pan = "pan" /\ visible' = mem /\ pan' = "wait"
  /\ UNCHANGED <<modes, lvgl, mem, sem>>

Next ==
  \/ \E t \in Callers, to \in {"gui", "text"} : Turn(t, to)
  \/ Mode \/ Refresh \/ FlushTest \/ Copy \/ Release \/ Acquire \/ Pan
  \/ \E a \in Areas : Changes(a)

Spec == Init /\ [][Next]_vars

-----------------------------------------------------------------------------
\* When all is quiet and the program's own terminal is in front, the device
\* shows the widgets as they are, also after another terminal was there: unless
\* opposite changes of the mode were in progress at once.
AtRest ==
  /\ calls = [t \in Callers |-> NoCall] /\ ~paused /\ ~asked
  /\ at = "sleep" /\ invalid = {} /\ sem = 0 /\ pan = "wait"
ShowsLatest == AtRest /\ ~overlap => visible = now
=============================================================================
