------------------------------ MODULE MCInput ------------------------------
(***************************************************************************)
(* The two halves of input, each explored by itself: which devices the     *)
(* event loop polls (HotPlug), and what becomes of the events it reads     *)
(* from one (InputQueue).  They share the loop's thread and no state.      *)
(***************************************************************************)
EXTENDS Integers, Sequences

CONSTANTS Paths, Movable, Backlog, MaxPlugs, Width, MaxEvent, MaxInput, Events

\* A queue holds at least one report (max_event is 16384), and a screen has a column.
ASSUME InputAssumption == Width \in Nat \ {0} /\ MaxEvent \in Nat \ {0} /\ MaxInput \in Nat

VARIABLES half,
  plugged, plugs, sock, watched, uevents, overrun, files, handlers, devices,
  batch, at, main, todo, seen, made, crossed, lost, down,
  val, mods, touch, queue, last, reading, loop, turn, async, ui, cur, lvlock,
  paused, left, sent, shown, dropped, muted, missed, late

H == INSTANCE HotPlug
Q == INSTANCE InputQueue

deviceVars == <<plugged, plugs, sock, watched, uevents, overrun, files, handlers,
  devices, batch, at, main, todo, seen, made, crossed, lost, down>>
eventVars == <<val, mods, touch, queue, last, reading, loop, turn, async, ui, cur,
  lvlock, paused, left, sent, shown, dropped, muted, missed, late>>
vars == <<half, deviceVars, eventVars>>

Init ==
  /\ half \in {"devices", "events"}
  /\ H!Init /\ Q!Init
  /\ half = "events" => plugged = {}

Next ==
  \/ half = "devices" /\ H!Next /\ UNCHANGED <<half, eventVars>>
  \/ half = "events" /\ Q!Next /\ UNCHANGED <<half, deviceVars>>

Spec ==
  /\ Init /\ [][Next]_vars
  /\ WF_vars(half = "devices" /\ H!Loop /\ UNCHANGED <<half, eventVars>>)
  /\ WF_vars(half = "devices" /\ H!Main /\ UNCHANGED <<half, eventVars>>)
  /\ WF_vars(half = "events" /\ Q!Loop /\ UNCHANGED <<half, deviceVars>>)
  /\ WF_vars(half = "events" /\ Q!Ui /\ UNCHANGED <<half, deviceVars>>)

\* The properties of the two halves, stated in their modules: what is polled
\* once all is quiet, what LVGL has been told when the queues are empty, and that
\* what is plugged and what is reported is dealt with.
PresentIsPolled == H!PresentIsPolled
InputIsShown == Q!PointerIsShown /\ Q!WheelIsCounted
InputArrives == (half = "devices" => H!PlugIsAnswered) /\ (half = "events" => Q!ReportsAreRead)
=============================================================================
