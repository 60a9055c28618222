---------------------------- MODULE DrmDisplay ----------------------------
(***************************************************************************)
(* The screen (src/src/display/drm.cpp, console.cpp, src/src/ui/main.cpp): *)
(* LVGL draws into two buffers in turn, each frame is given to the kernel  *)
(* by an atomic commit and shown at the next vertical blank, whose event   *)
(* ends the wait for it.  Another terminal may come to the front: asked    *)
(* for by a key, which the kernel and the event loop both see, or by the   *)
(* Terminal button; the kernel then sends signals, which interrupt LVGL's  *)
(* thread.  gui_pause stops the drawing meanwhile, and the buffers are     *)
(* painted black.                                                          *)
(***************************************************************************)
EXTENDS Integers, Sequences, SequencesExt

CONSTANTS MaxFrames,    \* how often what is to be seen changes
          MaxSwitches   \* how often a terminal is asked for

VARIABLES
  vt,        \* the terminal in front: "gui" or "text"
  leaving,   \* the kernel waits for VT_RELDISP
  signals,   \* pending: "release" (SIGUSR1), "acquire" (SIGUSR2)
  typed,     \* key combinations the event loop has not handled
  frames,    \* the calls in progress, the last on top, of two threads
  paused,    \* gui_pause
  asked,     \* an asynchronous call of LVGL will invalidate the screen
  overlap,   \* history: two calls to opposite terminals were in progress at once
  left,      \* switches still to come
  pc,        \* LVGL's thread
  ui,        \* number of the state the widgets are in
  dirty,     \* what is invalid: "none", "part" or "full"
  whole,     \* the last frame was drawn in full
  act,       \* LVGL's buffer to draw into
  active,    \* active_buffer
  flushing,  \* LVGL has flushed and not waited since
  req,       \* drm_display::req is there
  pending,   \* the buffer the kernel will show next
  event,     \* the event of a page flip can be read
  screen,    \* the buffer that is shown
  content,   \* which state of the widgets a buffer holds, or Black
  failed,    \* history: a commit failed
  late       \* history: the last frame drawn is not the one committed last

console == <<vt, leaving, signals, typed, frames, paused, asked, overlap, left>>
kernel == <<pending, event, screen>>
lvgl == <<pc, ui, dirty, whole, act, active, flushing, req, failed, late>>
vars == <<console, kernel, lvgl, content>>

NoBuffer == -1
Black == -2
Buffers == {0, 1}
Threads == {"main", "keys"}

\* allocate_dumb clears what it maps.
Allocated == [b \in Buffers |-> Black]

\* Drawing starts on buffers[1].
Init ==
  /\ vt = "text" /\ leaving = FALSE /\ signals = {} /\ typed = <<>>
  /\ frames = [t \in Threads |-> <<>>]
  /\ paused = FALSE /\ asked = FALSE /\ overlap = FALSE /\ left = MaxSwitches
  /\ pc = "setup" /\ ui = 0 /\ dirty = "full" /\ whole = FALSE
  /\ act = 1 /\ active = NoBuffer /\ flushing = FALSE /\ req = FALSE
  /\ pending = NoBuffer /\ event = FALSE /\ screen = NoBuffer
  /\ content = Allocated
  /\ failed = FALSE /\ late = FALSE

-----------------------------------------------------------------------------
\* Setting up.

\* find_create goes on to the next card until one suits; setup takes a connected
\* connector, a crtc and a plane of it, and allocates two buffers, all black.
SetUp ==
  /\ pc = "setup" /\ pc' = "init"
  /\ content' = Allocated
  /\ UNCHANGED <<console, kernel, ui, dirty, whole, act, active, flushing, req, failed, late>>

Frame(to, by) == [to |-> to, by |-> by,
  step |-> CASE by = "signal" /\ to = "gui" -> "mode"
             [] by # "signal" /\ to = "gui" -> "activate"
             [] OTHER -> "pause"]

Begins(fs) ==
  /\ frames' = fs
  /\ overlap' = (overlap \/ {"gui", "text"} \subseteq
       {f.to : f \in UNION {ToSet(fs[t]) : t \in Threads}})

\* init_display and display_setup_console, which switches to the terminal's own
InitDisplay ==
  /\ pc = "init"
  /\ Begins([frames EXCEPT !.main = <<Frame("gui", "setup")>>])
  /\ pc' = "sleep"
  /\ UNCHANGED <<vt, leaving, signals, typed, paused, asked, left,
       ui, dirty, whole, act, active, flushing, req, kernel, content, failed, late>>

-----------------------------------------------------------------------------
\* The kernel's terminals (external).

\* A switch is asked for: the terminal in front is told to let go, another
\* has no one to ask.
Switch(to) ==
  IF to = "gui"
    THEN /\ vt' = "gui" /\ UNCHANGED leaving
         /\ signals' = IF vt = "text" THEN signals \cup {"acquire"} ELSE signals
    ELSE /\ leaving' = (vt = "gui") /\ UNCHANGED vt
         /\ signals' = IF vt = "gui" THEN signals \cup {"release"} ELSE signals

\* Ctrl, Alt and a function key: the kernel's own switch, and an event for evdev
Press(to) ==
  /\ pc \notin {"setup", "init"} /\ left > 0 /\ left' = left - 1
  /\ Switch(to)
  /\ typed' = Append(typed, to)
  /\ UNCHANGED <<frames, paused, asked, overlap, kernel, lvgl, content>>

\* A signal interrupts LVGL's thread at once, whatever it does: a wait for the
\* terminal ends with EINTR.  It is masked only while its own handler runs; of two,
\* the first is SIGUSR1, and the other interrupts its handler.
Target(s) == IF s = "release" THEN "text" ELSE "gui"
Masked(s) == \E i \in DOMAIN frames.main :
  frames.main[i].by = "signal" /\ frames.main[i].to = Target(s)
Interrupted == \E s \in signals : ~Masked(s)

Deliver(s) ==
  /\ s \in signals /\ ~Masked(s)
  /\ s = "acquire" /\ "release" \in signals => Masked("release")
  /\ signals' = signals \ {s}
  /\ Begins([frames EXCEPT !.main = Append(
       [i \in DOMAIN @ |-> IF @[i].step = "wait" THEN [@[i] EXCEPT !.step = "woken"] ELSE @[i]],
       Frame(Target(s), "signal"))])
  /\ UNCHANGED <<vt, leaving, typed, paused, asked, left, kernel, lvgl, content>>

-----------------------------------------------------------------------------
\* display_switch_tty, display_switch_gui, display_handle_signal, set_display_mode.

\* The event loop handles a key; the Terminal button is pressed.
HandleTty ==
  /\ frames.keys = <<>> /\ typed # <<>>
  /\ Begins([frames EXCEPT !.keys = <<Frame(Head(typed), "keys")>>])
  /\ typed' = Tail(typed)
  /\ UNCHANGED <<vt, leaving, signals, paused, asked, left, kernel, lvgl, content>>

TerminalButton ==
  /\ frames.main = <<>> /\ ~Interrupted /\ pc = "timers" /\ left > 0 /\ left' = left - 1
  /\ Begins([frames EXCEPT !.main = <<Frame("text", "button")>>])
  /\ dirty' = IF dirty = "none" THEN "part" ELSE dirty
  /\ UNCHANGED <<vt, leaving, signals, typed, paused, asked,
       kernel, pc, ui, whole, act, active, flushing, req, failed, late, content>>

Step(t, step) ==
  frames' = [frames EXCEPT ![t] =
    IF step = "done" THEN Front(@) ELSE [@ EXCEPT ![Len(@)].step = step]]
Top(t) == frames[t][Len(frames[t])]

SetsPause(t) ==
  /\ Top(t).step = "pause" /\ paused' = TRUE /\ Step(t, "fill")
  /\ UNCHANGED <<vt, leaving, signals, asked, content>>
\* fill_color, of whatever buffers there are
Fills(t) ==
  /\ Top(t).step = "fill" /\ content' = [b \in Buffers |-> Black] /\ Step(t, "mode")
  /\ UNCHANGED <<vt, leaving, signals, paused, asked>>
SetsMode(t) ==
  /\ Top(t).step = "mode"
  /\ Step(t, CASE Top(t).to = "gui" -> "unpause"
               [] Top(t).to = "text" /\ Top(t).by = "signal" -> "release"
               [] OTHER -> "activate")
  /\ UNCHANGED <<vt, leaving, signals, paused, asked, content>>
\* Mutant: nothing is asked of LVGL.
UnpausesQuietly(t) ==
  /\ Top(t).step = "unpause" /\ paused' = FALSE /\ Step(t, "done")
  /\ UNCHANGED <<vt, leaving, signals, asked, content>>
\* The screen is invalidated if it was paused; cur_display is there.
Unpauses(t) ==
  /\ Top(t).step = "unpause"
  /\ asked' = (asked \/ paused) /\ paused' = FALSE
  /\ Step(t, "done")
  /\ UNCHANGED <<vt, leaving, signals, content>>
\* VT_RELDISP lets the terminal go.
Releases(t) ==
  /\ Top(t).step = "release"
  /\ leaving' = FALSE /\ vt' = (IF leaving THEN "text" ELSE vt)
  /\ Step(t, "done")
  /\ UNCHANGED <<signals, paused, asked, content>>
\* set_console
Activates(t) ==
  /\ Top(t).step = "activate" /\ Switch(Top(t).to) /\ Step(t, "wait")
  /\ UNCHANGED <<paused, asked, content>>
WaitsActive(t) ==
  /\ Top(t).step = "woken" \/ (Top(t).step = "wait" /\ vt = Top(t).to)
  /\ Step(t, IF Top(t).to = "gui" THEN "mode" ELSE "done")
  /\ UNCHANGED <<vt, leaving, signals, paused, asked, content>>

Runs(t) ==
  /\ frames[t] # <<>> /\ (t = "main" => ~Interrupted)
  /\ \/ SetsPause(t) \/ Fills(t) \/ SetsMode(t) \/ Unpauses(t)
     \/ Releases(t) \/ Activates(t) \/ WaitsActive(t)
  /\ UNCHANGED <<typed, overlap, left, kernel, lvgl>>

-----------------------------------------------------------------------------
\* LVGL's thread, while no signal and no call is in progress there.

Own == frames.main = <<>> /\ ~Interrupted
Goes(from, to) == Own /\ pc = from /\ pc' = to

\* lvgl_main sleeps as long as gui_pause is set.  Asynchronous calls run first.
TimerHandler ==
  /\ Goes("sleep", "timers") /\ ~paused
  /\ dirty' = (IF asked THEN "full" ELSE dirty) /\ asked' = FALSE
  /\ UNCHANGED <<vt, leaving, signals, typed, frames, paused, overlap, left,
       kernel, content, ui, whole, act, active, flushing, req, failed, late>>

\* Something on the screen changes.
Changes ==
  /\ Goes("timers", "timers") /\ ui < MaxFrames
  /\ ui' = ui + 1 /\ dirty' = IF dirty = "full" THEN "full" ELSE "part"
  /\ UNCHANGED <<console, kernel, content, whole, act, active, flushing, req, failed, late>>

\* LV_EVENT_REFR_START, refr_start: a buffer that was not committed stays chosen.
RefrStart ==
  /\ Goes("timers", IF dirty = "none" THEN "sleep" ELSE "sync")
  /\ active' = IF active = NoBuffer THEN act ELSE active
  /\ UNCHANGED <<console, kernel, content, ui, dirty, whole, act, flushing, req, failed, late>>

\* Mutant: the event is not waited for.
FlushWaitNot ==
  /\ Own /\ pc = "sync" /\ pc' = "render"
  /\ flushing' = FALSE /\ req' = FALSE /\ event' = FALSE
  /\ UNCHANGED <<console, pending, screen, content, ui, dirty, whole, act,
       active, failed, late>>

\* LVGL waits before it draws; flush_wait polls for the event while there is a request,
\* and the event's handler frees it.
FlushWait ==
  /\ Own /\ pc = "sync"
  /\ IF flushing /\ req
       THEN event /\ event' = FALSE /\ req' = FALSE /\ UNCHANGED <<pc, flushing>>
       ELSE pc' = "render" /\ flushing' = FALSE /\ UNCHANGED <<event, req>>
  /\ UNCHANGED <<console, pending, screen, content, ui, dirty, whole, act,
       active, failed, late>>

\* LVGL (external) brings the buffer up to the last frame and draws what is invalid.
Render ==
  /\ Goes("render", "flush")
  /\ LET under == IF whole THEN content[1 - act] ELSE content[act]
     IN  content' = [content EXCEPT ![act] =
           IF dirty = "full" \/ under # Black THEN ui ELSE Black]
  /\ whole' = (dirty = "full") /\ dirty' = "none"
  /\ UNCHANGED <<console, kernel, ui, act, active, flushing, req, failed, late>>

\* dmabuf_set_plane: a commit may fail, and so may adding a property; the request stays.
SetPlane ==
  /\ req' = TRUE
  /\ \/ pending' = active /\ UNCHANGED failed
     \/ failed' = TRUE /\ UNCHANGED pending

\* flush_cb.  LVGL swaps the buffers in any case.
Flush ==
  /\ Goes("flush", "sleep")
  /\ flushing' = TRUE /\ act' = 1 - act
  /\ \/ paused /\ late' = TRUE /\ UNCHANGED <<active, req, pending, failed>>
     \/ /\ ~paused
        /\ active' = NoBuffer /\ late' = (active # act)
        /\ SetPlane
  /\ UNCHANGED <<console, event, screen, content, ui, dirty, whole>>

\* The kernel (external) shows the buffer and queues the event.
VBlank ==
  /\ pending # NoBuffer
  /\ screen' = pending /\ pending' = NoBuffer /\ event' = TRUE
  /\ UNCHANGED <<console, lvgl, content>>

-----------------------------------------------------------------------------
Lvgl == SetUp \/ InitDisplay \/ Runs("main") \/ (\E s \in {"release", "acquire"} : Deliver(s))
  \/ TimerHandler \/ RefrStart \/ FlushWait \/ Render \/ Flush
Keys == HandleTty \/ Runs("keys")
Next ==
  \/ Lvgl \/ Keys \/ VBlank \/ Changes \/ TerminalButton
  \/ \E to \in {"gui", "text"} : Press(to)

-----------------------------------------------------------------------------
\* Properties.

\* LVGL never draws into the buffer that is shown or about to be: unless the frame
\* before was not committed (gui_pause was set, or the commit failed), or one
\* before it was in its place.
NoTearing == pc = "render" /\ ~failed /\ ~late => act # screen /\ act # pending

\* With nothing left to do the screen shows what the widgets say, also after
\* another terminal was in front: unless a commit failed, or was of an
\* older frame because one had been drawn while gui_pause was set.
Quiet == frames = [t \in Threads |-> <<>>] /\ signals = {} /\ typed = <<>> /\ ~leaving
AtRest == Quiet /\ pc = "sleep" /\ ~paused /\ dirty = "none" /\ ~asked /\ pending = NoBuffer
ShowsLatest == AtRest /\ ~failed /\ ~late /\ ~overlap => screen # NoBuffer /\ content[screen] = ui

\* gui_pause is set exactly while another terminal is in front: unless two
\* threads changed the mode against each other.
PausedWhileAway == Quiet /\ pc \notin {"setup", "init"} /\ ~overlap => (paused <=> vt = "text")
=============================================================================
