----------------------------- MODULE InputQueue -----------------------------
(***************************************************************************)
(* From the events of a device to what LVGL is told (src/input/evdev/      *)
(* event.cpp and indev.cpp).  The event loop's thread turns an event into  *)
(* reports on one of three queues, drops the oldest when one is too long,  *)
(* and asks LVGL's thread to read the queues that hold something, unless   *)
(* it has asked already (reading).  LVGL polls none of them by itself.     *)
(* A key is a letter; a position is one of a few columns.                  *)
(***************************************************************************)
EXTENDS Integers, Sequences, FiniteSets

CONSTANTS Width,      \* columns of the screen
          MaxEvent,   \* max_event: reports a queue may hold
          MaxInput,   \* bound: events of the devices
          Events      \* kinds of event the devices send

VARIABLES
  val,       \* pointer_val: x, press
  mods,      \* key_shift, key_capslock, key_ctrl, key_alt
  touch,     \* the finger on a touchpad: "up", "new", "still" or "moved"
  queue,     \* per indev: the reports LVGL has not read
  last,      \* per indev: the report it read last
  reading,   \* per indev: a read was asked for
  loop,      \* the loop's thread: next event, trim, look, ask, call
  turn,      \* ... the indev it looks at
  async,     \* reads LVGL's thread was asked for
  ui,        \* LVGL's thread: out, in, read, look, reset
  cur,       \* ... the indev it reads
  lvlock,    \* who holds LVGL's lock: "free", "ui"
  paused,    \* gui_pause: another terminal is in front
  left,      \* events still to come
  sent, shown, dropped,   \* history: movement of the wheel
  muted,     \* history: a report of the pointer was not queued since the last
  missed,    \* history, per indev: not asked for, while a read was ending
  late       \* history: asked for after an earlier read had emptied the queue

dev == <<val, mods, touch, left>>
lp == <<loop, turn>>
lv == <<ui, cur, lvlock>>
wheel == <<sent, shown, dropped>>
vars == <<dev, queue, last, reading, lp, async, lv, paused, wheel, muted, missed, late>>

Indevs == {"encoder", "keypad", "pointer"}
NoKey == [key |-> "none", press |-> FALSE]

Init ==
  /\ val = [x |-> 0, press |-> FALSE]
  /\ mods = [shift |-> FALSE, caps |-> FALSE, ctrl |-> FALSE, alt |-> FALSE]
  /\ touch = "up"
  /\ queue = [i \in Indevs |-> <<>>]
  /\ last = [encoder |-> 0, keypad |-> NoKey, pointer |-> val]
  /\ reading = [i \in Indevs |-> FALSE]
  /\ loop = "event" /\ turn = "encoder" /\ async = <<>>
  /\ ui = "out" /\ cur = "encoder" /\ lvlock = "free"
  /\ paused = FALSE /\ left = MaxInput
  /\ sent = 0 /\ shown = 0 /\ dropped = 0
  /\ muted = FALSE /\ missed = [i \in Indevs |-> FALSE] /\ late = FALSE

-----------------------------------------------------------------------------
\* What an event does.  Reports are dropped while another terminal is in front.

\* add, for the pointer and for the two others
AddPointer(reports) ==
  /\ queue' = IF paused THEN queue ELSE [queue EXCEPT !.pointer = @ \o reports]
  /\ muted' = paused
  /\ UNCHANGED wheel
AddKey(report) ==
  /\ queue' = IF paused THEN queue ELSE [queue EXCEPT !.keypad = Append(@, report)]
  /\ UNCHANGED <<wheel, muted>>
AddMovement(m) ==
  /\ queue' = IF paused THEN queue ELSE [queue EXCEPT !.encoder = Append(@, m)]
  /\ sent' = IF paused THEN sent ELSE sent + m
  /\ UNCHANGED <<shown, dropped, muted>>
AddNothing == UNCHANGED <<queue, wheel, muted>>

\* std::clamp(x, 0, w - 1)
ClampX(x) == IF x < 0 THEN 0 ELSE IF x > Width - 1 THEN Width - 1 ELSE x

\* process_led
Led ==
  /\ \E v \in BOOLEAN : mods' = [mods EXCEPT !.caps = v]
  /\ AddNothing /\ UNCHANGED <<val, touch>>

\* process_rel: the mouse moves, or its wheel does.
RelX ==
  /\ \E d \in {-1, 1} : val' = [val EXCEPT !.x = ClampX(@ + d)]
  /\ AddPointer(<<val'>>) /\ UNCHANGED <<mods, touch>>
Wheel ==
  /\ \E d \in {-1, 1} : AddMovement(-d)
  /\ UNCHANGED <<val, mods, touch>>

\* process_abs: a touchscreen gives places, a touchpad moves the pointer by how
\* far the finger went from where it was; its first place moves nothing.  Two
\* fingers turn the wheel.
AbsX ==
  /\ \E x \in 0 .. Width - 1 : val' = [val EXCEPT !.x = x]
  /\ AddPointer(<<val'>>) /\ UNCHANGED <<mods, touch>>
FingerX ==
  \/ /\ touch = "up" /\ touch' = "new"
     /\ AddNothing /\ UNCHANGED <<val, mods>>
  \/ /\ touch # "up"
     /\ \E d \in {-1, 0, 1} :
          /\ val' = [val EXCEPT !.x = ClampX(@ + d)]
          /\ touch' = IF d = 0 THEN touch ELSE "moved"
     /\ AddPointer(<<val'>>) /\ UNCHANGED mods
TwoFingers ==
  /\ \E m \in {-1, 1} : AddMovement(m)
  /\ UNCHANGED <<val, mods, touch>>

\* process_key: the button of a mouse or the touch of a screen
Button ==
  /\ \E v \in BOOLEAN : val' = [val EXCEPT !.press = v]
  /\ AddPointer(<<val'>>) /\ UNCHANGED <<mods, touch>>

\* ... a finger leaves the touchpad: where it has not moved, a click.
TapEnds ==
  /\ touch' = "up"
  /\ \/ /\ touch # "moved" /\ val' = [val EXCEPT !.press = FALSE]
        /\ AddPointer(<<[val EXCEPT !.press = TRUE], val'>>)
     \/ AddNothing /\ UNCHANGED val
  /\ UNCHANGED mods

\* process_keyboard: modifiers are kept; with Ctrl or Alt held no key is
\* reported, neither its press nor its release.
Modifier ==
  /\ \E m \in {"shift", "ctrl", "alt"}, v \in BOOLEAN : mods' = [mods EXCEPT ![m] = v]
  /\ AddNothing /\ UNCHANGED <<val, touch>>
Letter ==
  /\ \E v \in BOOLEAN :
       \/ /\ ~mods.ctrl /\ ~mods.alt
          /\ AddKey([key |-> IF mods.shift # mods.caps THEN "A" ELSE "a", press |-> v])
       \/ (mods.ctrl \/ mods.alt) /\ AddNothing
  /\ UNCHANGED <<val, mods, touch>>

Handle(kind) ==
  \/ kind = "led" /\ Led
  \/ kind = "rel" /\ RelX
  \/ kind = "wheel" /\ Wheel
  \/ kind = "abs" /\ AbsX
  \/ kind = "finger" /\ FingerX
  \/ kind = "scroll" /\ TwoFingers
  \/ kind = "button" /\ Button
  \/ kind = "tap" /\ TapEnds
  \/ kind = "modifier" /\ Modifier
  \/ kind = "letter" /\ Letter

-----------------------------------------------------------------------------
\* The event loop's thread: read_event.

ProcessEvent ==
  /\ loop = "event" /\ left > 0 /\ left' = left - 1
  /\ \E kind \in Events : Handle(kind)
  /\ loop' = "trim"
  /\ UNCHANGED <<last, reading, turn, async, lv, paused, missed, late>>

SumOf(s) ==
  LET sum[n \in 0 .. Len(s)] == IF n = 0 THEN 0 ELSE sum[n - 1] + s[n]
  IN  sum[Len(s)]
Newest(s, n) == SubSeq(s, Len(s) - n + 1, Len(s))
Oldest(s, n) == SubSeq(s, 1, n)
Kept(s) == IF Len(s) > MaxEvent THEN MaxEvent ELSE Len(s)

\* Mutant: the newest reports are the ones dropped.
TrimNewest ==
  /\ loop = "trim" /\ loop' = "look" /\ turn' = "encoder"
  /\ queue' = [i \in Indevs |-> Oldest(queue[i], Kept(queue[i]))]
  /\ dropped' = dropped + SumOf(queue.encoder) - SumOf(queue'.encoder)
  /\ UNCHANGED <<dev, last, reading, async, lv, paused, sent, shown, muted, missed, late>>

\* max_event: the oldest go.
Trim ==
  /\ loop = "trim" /\ loop' = "look" /\ turn' = "encoder"
  /\ queue' = [i \in Indevs |-> Newest(queue[i], Kept(queue[i]))]
  /\ dropped' = dropped + SumOf(queue.encoder) - SumOf(queue'.encoder)
  /\ UNCHANGED <<dev, last, reading, async, lv, paused, sent, shown, muted, missed, late>>

\* trigger_read looks at the encoder, the keypad, the pointer, then at the next
\* event.
NextTurn ==
  \/ turn = "encoder" /\ turn' = "keypad" /\ loop' = "look"
  \/ turn = "keypad" /\ turn' = "pointer" /\ loop' = "look"
  \/ turn = "pointer" /\ loop' = "event" /\ UNCHANGED turn

\* start_read: want
LookQueue ==
  /\ loop = "look"
  /\ \/ queue[turn] = <<>> /\ NextTurn
     \/ queue[turn] # <<>> /\ loop' = "ask" /\ UNCHANGED turn
  /\ UNCHANGED <<dev, queue, last, reading, async, lv, paused, wheel, muted, missed, late>>

\* ... and reading, which a read that has just found the queue empty may be
\* about to reset.
Ask ==
  /\ loop = "ask"
  /\ \/ /\ ~reading[turn] /\ reading' = [reading EXCEPT ![turn] = TRUE]
        /\ missed' = [missed EXCEPT ![turn] = FALSE]
        /\ late' = (late \/ (turn = "encoder" /\ queue.encoder = <<>>))
        /\ loop' = "call" /\ UNCHANGED turn
     \/ /\ reading[turn]
        /\ missed' = [missed EXCEPT ![turn] = (ui = "reset" /\ cur = turn)]
        /\ NextTurn
        /\ UNCHANGED <<reading, late>>
  /\ UNCHANGED <<dev, queue, last, async, lv, paused, wheel, muted>>

\* lv_async_call, under LVGL's lock
Call ==
  /\ loop = "call" /\ lvlock = "free"
  /\ async' = Append(async, turn)
  /\ NextTurn
  /\ UNCHANGED <<dev, queue, last, reading, lv, paused, wheel, muted, missed, late>>

Loop == Trim \/ LookQueue \/ Ask \/ Call

-----------------------------------------------------------------------------
\* LVGL's thread: lv_timer_handler holds the lock while it runs do_read.

Enter ==
  /\ ui = "out" /\ ~paused /\ async # <<>> /\ lvlock = "free"
  /\ ui' = "in" /\ lvlock' = "ui"
  /\ UNCHANGED <<dev, queue, last, reading, lp, async, cur, paused, wheel, muted, missed, late>>

Begin ==
  /\ ui = "in" /\ async # <<>>
  /\ cur' = Head(async) /\ async' = Tail(async) /\ ui' = "read"
  /\ UNCHANGED <<dev, queue, last, reading, lp, lvlock, paused, wheel, muted, missed, late>>

Leave ==
  /\ ui = "in" /\ async = <<>> /\ ui' = "out" /\ lvlock' = "free"
  /\ UNCHANGED <<dev, queue, last, reading, lp, async, cur, paused, wheel, muted, missed, late>>

\* continue_reading: the pointer and the keypad are read once more than they
\* have reports, which tells LVGL nothing new; the wheel is not.
Continues == IF cur = "encoder" THEN Len(queue[cur]) > 1 ELSE queue[cur] # <<>>

\* pointer_read, keypad_read, encoder_read: the next report, or the last again
Read ==
  /\ ui = "read"
  /\ \/ /\ queue[cur] # <<>>
        /\ last' = [last EXCEPT ![cur] = Head(queue[cur])]
        /\ queue' = [queue EXCEPT ![cur] = Tail(@)]
     \/ queue[cur] = <<>> /\ UNCHANGED <<last, queue>>
  /\ shown' = IF cur = "encoder" THEN shown + last'.encoder ELSE shown
  /\ ui' = IF Continues THEN "read" ELSE "look"
  /\ UNCHANGED <<dev, reading, lp, async, cur, lvlock, paused, sent, dropped, muted, missed, late>>

\* do_read looks, under the mutex, and resets reading without it.
Look ==
  /\ ui = "look"
  /\ ui' = IF queue[cur] = <<>> THEN "reset" ELSE "read"
  /\ UNCHANGED <<dev, queue, last, reading, lp, async, cur, lvlock, paused, wheel, muted, missed, late>>

ResetReading ==
  /\ ui = "reset" /\ ui' = "in"
  /\ reading' = [reading EXCEPT ![cur] = FALSE]
  /\ UNCHANGED <<dev, queue, last, lp, async, cur, lvlock, paused, wheel, muted, missed, late>>

Ui == Enter \/ Begin \/ Leave \/ Read \/ Look \/ ResetReading

\* The terminal is switched away from and back.
SwitchTty ==
  /\ left > 0 /\ left' = left - 1
  /\ paused' = ~paused
  /\ UNCHANGED <<val, mods, touch, queue, last, reading, lp, async, lv, wheel, muted, missed, late>>

Next == ProcessEvent \/ Loop \/ Ui \/ SwitchTty
Fairness == WF_vars(Loop) /\ WF_vars(Ui)
Spec == Init /\ [][Next]_vars /\ Fairness

-----------------------------------------------------------------------------
\* Properties.

\* When the queue of the pointer is empty LVGL has been told where the pointer
\* is and whether it is pressed, whatever was dropped on the way: unless the
\* last report came while another terminal was in front.
PointerIsShown == queue.pointer = <<>> /\ ~muted => last.pointer = val

\* LVGL is told as many steps of the wheel as were made, minus those dropped
\* and those still queued; unless a read was asked for whose reports an earlier
\* read had already taken (it repeats the last step).
WheelIsCounted == ~late => shown + SumOf(queue.encoder) + dropped = sent

\* Reports are read in the end, while this terminal is in front.  A report that
\* comes between the look at the empty queue and the reset of reading waits for
\* the next event.
ReportsAreRead ==
  \A i \in Indevs : queue[i] # <<>> ~> (queue[i] = <<>> \/ missed[i] \/ paused)
=============================================================================
