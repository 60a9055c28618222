------------------------------ MODULE HotPlug ------------------------------
(***************************************************************************)
(* Input devices that come and go (src/lib/event-loop.cpp,                 *)
(* src/lib/uevent.cpp, src/input/evdev/context.cpp and device.cpp).        *)
(* One thread, the event loop, polls the kernel's uevent socket and every  *)
(* open input device; main listens for uevents first and then opens what   *)
(* it finds in /dev/input.  The two share their maps and vectors without   *)
(* a lock.                                                                 *)
(* A descriptor is its number of opening: those of devices are never       *)
(* closed.  Sock stands for the uevent socket, whose number is used again  *)
(* when it is closed and opened.                                           *)
(***************************************************************************)
EXTENDS Naturals, Sequences, FiniteSets, SequencesExt

CONSTANTS Paths,      \* the device nodes there may be
          Movable,    \* those that come and go while the program runs
          Backlog,    \* uevents the socket holds before it overruns
          MaxPlugs    \* bound: how often a device comes or goes

VARIABLES
  plugged,   \* the nodes that exist
  plugs,     \* how often the hardware has changed
  sock,      \* the uevent socket: fd < 0 ("closed") or "open"
  watched,   \* epoll holds the socket
  uevents,   \* what the socket holds
  overrun,   \* it had to drop one: the next recv fails
  files,     \* the device descriptors: path, whether it still exists, input
  handlers,  \* descriptors with a handler in the loop
  devices,   \* evdev_context::devices
  batch,     \* descriptors epoll_wait returned and not handled yet
  at,        \* the one being handled, or None
  main,      \* start-up: listen, probe, push, on
  todo,      \* directory entries main has not seen
  seen,      \* what main read of devices before its push_back
  made,      \* the descriptor main pushes
  crossed,   \* history: paths that changed while main probed
  lost,      \* history: paths of which a uevent was never delivered
  down       \* a freed object was used and the process died

hw == <<plugged, plugs>>
nl == <<sock, watched, uevents, overrun>>
ev == <<files, handlers, devices>>
boot == <<main, todo, seen, made>>
hist == <<crossed, lost, down>>
vars == <<hw, nl, ev, batch, at, boot, hist>>

Sock == 0
None == -1

Init ==
  /\ plugged \in SUBSET Paths /\ plugs = 0
  /\ sock = "closed" /\ watched = FALSE /\ uevents = <<>> /\ overrun = FALSE
  /\ files = <<>> /\ handlers = {} /\ devices = <<>>
  /\ batch = {} /\ at = None
  /\ main = "listen" /\ todo = Paths /\ seen = <<>> /\ made = None
  /\ crossed = {} /\ lost = {} /\ down = FALSE

-----------------------------------------------------------------------------
\* The kernel.

Deaf == sock = "closed" \/ ~watched

\* A node appears or vanishes and the socket is told; a full one overruns.
Uevent(what, p) ==
  /\ plugs < MaxPlugs /\ plugs' = plugs + 1
  /\ \/ /\ sock = "open" /\ Len(uevents) < Backlog /\ ~overrun
        /\ uevents' = Append(uevents, [action |-> what, path |-> p])
        /\ lost' = lost \cup (IF watched THEN {} ELSE {p})
        /\ UNCHANGED overrun
     \/ /\ sock = "open" /\ (Len(uevents) = Backlog \/ overrun)
        /\ overrun' = TRUE /\ lost' = lost \cup {p}
        /\ UNCHANGED uevents
     \/ /\ sock = "closed"
        /\ lost' = IF main = "listen" THEN lost ELSE lost \cup {p}
        /\ UNCHANGED <<uevents, overrun>>
  /\ crossed' = IF main \in {"probe", "push"} THEN crossed \cup {p} ELSE crossed
  /\ UNCHANGED <<sock, watched, handlers, devices, batch, at, boot, down>>

Plug(p) ==
  /\ p \notin plugged /\ plugged' = plugged \cup {p}
  /\ Uevent("add", p)
  /\ UNCHANGED files

Unplug(p) ==
  /\ p \in plugged /\ plugged' = plugged \ {p}
  /\ Uevent("remove", p)
  /\ files' = [f \in DOMAIN files |->
       IF files[f].path = p THEN [files[f] EXCEPT !.alive = FALSE] ELSE files[f]]

\* The user touches a device that is open.
Touch(f) ==
  /\ f \in handlers /\ files[f].alive /\ ~files[f].input
  /\ files' = [files EXCEPT ![f].input = TRUE]
  /\ UNCHANGED <<hw, nl, handlers, devices, batch, at, boot, hist>>

-----------------------------------------------------------------------------
\* The handlers of the loop and the devices of the context.

\* init_device: the node is opened and its descriptor handed to the loop.
Opened(p) == Append(files, [path |-> p, alive |-> TRUE, input |-> FALSE])

\* start: a node that is gone is skipped.
StartDevice(p) ==
  \/ /\ p \in plugged
     /\ files' = Opened(p)
     /\ handlers' = handlers \cup {Len(files) + 1}
     /\ devices' = Append(devices, Len(files) + 1)
  \/ p \notin plugged /\ UNCHANGED ev

\* Where the devices of a node are.
Held(p) == {i \in DOMAIN devices : files[devices[i]].path = p}
First(i, places) == i \in places /\ \A j \in places : i <= j

\* Mutant: the device is forgotten and its handler stays.
StopKeepsHandler(p) ==
  \/ Held(p) = {} /\ UNCHANGED ev
  \/ \E i \in DOMAIN devices :
       /\ First(i, Held(p)) /\ devices' = RemoveAt(devices, i)
       /\ UNCHANGED <<files, handlers>>

\* stop: the first device of that path, and only that one.
StopDevice(p) ==
  \/ Held(p) = {} /\ UNCHANGED ev
  \/ \E i \in DOMAIN devices :
       /\ First(i, Held(p)) /\ devices' = RemoveAt(devices, i)
       /\ handlers' = handlers \ {devices[i]}
       /\ UNCHANGED files

-----------------------------------------------------------------------------
\* The event loop's thread.

\* A device that is gone reports a hang-up for as long as it is polled.
Ready ==
  {f \in handlers \ {Sock} : ~files[f].alive \/ files[f].input} \cup
  {f \in handlers \cap {Sock} :
     sock = "open" /\ watched /\ (uevents # <<>> \/ overrun)}

\* epoll_wait
Wait ==
  /\ ~down /\ batch = {} /\ at = None /\ Ready # {}
  /\ batch' = Ready
  /\ UNCHANGED <<hw, nl, ev, at, boot, hist>>

\* process_event goes through a pointer to the descriptor's context: when an
\* earlier event of the batch removed the handler, the context is freed.
Stale(f) ==
  /\ f \notin handlers
  /\ \/ UNCHANGED down
     \/ down' = TRUE
  /\ UNCHANGED <<at, ev>>

\* on_event: all input is read; a device that is gone fails and is removed,
\* but only if it had input left, for a hang-up alone calls no handler.
DeviceEvent(f) ==
  /\ f \in handlers \ {Sock}
  /\ \/ /\ files[f].alive
        /\ files' = [files EXCEPT ![f].input = FALSE]
        /\ UNCHANGED <<handlers, devices>>
     \/ /\ ~files[f].alive /\ files[f].input
        /\ handlers' = handlers \ {f}
        /\ LET places == {i \in DOMAIN devices : devices[i] = f}
           IN  \/ places = {} /\ UNCHANGED devices
               \/ \E i \in DOMAIN devices : First(i, places) /\ devices' = RemoveAt(devices, i)
        /\ UNCHANGED files
     \/ ~files[f].alive /\ ~files[f].input /\ UNCHANGED ev
  /\ UNCHANGED <<at, down>>

\* process_one_event, for the next of the batch
Take(f) ==
  /\ ~down /\ at = None /\ f \in batch
  /\ batch' = batch \ {f}
  /\ \/ f = Sock /\ f \in handlers /\ at' = Sock /\ UNCHANGED <<ev, down>>
     \/ DeviceEvent(f)
     \/ Stale(f)
  /\ UNCHANGED <<hw, nl, boot, crossed, lost>>

\* read_uevent and process_uevent, until the socket is empty.
ReadUevent ==
  /\ ~down /\ at = Sock /\ sock = "open" /\ ~overrun
  /\ \/ /\ uevents = <<>> /\ at' = None
        /\ UNCHANGED <<uevents, ev>>
     \/ /\ uevents # <<>> /\ uevents' = Tail(uevents)
        /\ LET u == Head(uevents)
           IN  \/ u.action = "add" /\ StartDevice(u.path)
               \/ u.action = "remove" /\ StopDevice(u.path)
        /\ UNCHANGED at
  /\ UNCHANGED <<hw, sock, watched, overrun, batch, boot, hist>>

\* recv fails: the socket is closed and with it all it held.
CloseSocket ==
  /\ ~down /\ at = Sock /\ sock = "open" /\ overrun
  /\ sock' = "closed" /\ watched' = FALSE
  /\ lost' = lost \cup {uevents[i].path : i \in DOMAIN uevents}
  /\ uevents' = <<>> /\ overrun' = FALSE
  /\ UNCHANGED <<hw, ev, batch, at, boot, crossed, down>>

\* ... and its handler removed afterwards: a socket that was opened in between
\* keeps a handler, on a descriptor epoll does not hold.
DropSocket ==
  /\ ~down /\ at = Sock /\ (sock = "closed" \/ ~watched)
  /\ handlers' = IF sock = "closed" THEN handlers \ {Sock} ELSE handlers
  /\ at' = None
  /\ UNCHANGED <<hw, nl, files, devices, batch, boot, hist>>

Loop == Wait \/ (\E f \in batch : Take(f)) \/ ReadUevent \/ CloseSocket
        \/ DropSocket

-----------------------------------------------------------------------------
\* The main thread.

\* Opens the socket when there is none: the first listener, and every page
\* that adds or removes one later.
Open ==
  /\ sock = "closed" /\ sock' = "open"
  /\ watched' = (Sock \notin handlers)
  /\ handlers' = handlers \cup {Sock}
  /\ UNCHANGED <<uevents, overrun>>

\* evdev_context::init
Listen ==
  /\ main = "listen" /\ main' = "probe"
  /\ Open
  /\ UNCHANGED <<hw, files, devices, batch, at, todo, seen, made, hist>>

\* Mutant: one entry that cannot be opened ends the walk.
ProbeGivesUp(p) ==
  /\ ~down /\ main = "probe" /\ p \in todo
  /\ \/ /\ p \in plugged
        /\ files' = Opened(p)
        /\ handlers' = handlers \cup {Len(files) + 1}
        /\ seen' = devices /\ made' = Len(files) + 1
        /\ main' = "push" /\ todo' = todo \ {p}
     \/ /\ p \notin plugged /\ todo' = {}
        /\ UNCHANGED <<files, handlers, seen, made, main>>
  /\ UNCHANGED <<hw, nl, devices, batch, at, hist>>

\* probe_all: a node is opened, then pushed to the vector.
Probe(p) ==
  /\ ~down /\ main = "probe" /\ p \in todo /\ todo' = todo \ {p}
  /\ \/ /\ p \in plugged
        /\ files' = Opened(p)
        /\ handlers' = handlers \cup {Len(files) + 1}
        /\ seen' = devices /\ made' = Len(files) + 1
        /\ main' = "push"
     \/ p \notin plugged /\ UNCHANGED <<files, handlers, seen, made, main>>
  /\ UNCHANGED <<hw, nl, devices, batch, at, hist>>

\* push_back: the loop may have changed the vector meanwhile, and either write
\* may win.
Push ==
  /\ ~down /\ main = "push" /\ main' = "probe"
  /\ \E d \in {devices, seen} : devices' = Append(d, made)
  /\ seen' = <<>> /\ made' = None
  /\ UNCHANGED <<hw, nl, files, handlers, batch, at, todo, hist>>

Probed ==
  /\ ~down /\ main = "probe" /\ todo = {} /\ main' = "on"
  /\ UNCHANGED <<hw, nl, ev, batch, at, todo, seen, made, hist>>

\* A page listens, or stops listening, after the socket was closed.
PageListens ==
  /\ ~down /\ main = "on" /\ Open
  /\ UNCHANGED <<hw, files, devices, batch, at, boot, hist>>

Main == Listen \/ (\E p \in todo : Probe(p)) \/ Push \/ Probed

Next ==
  \/ \E p \in Movable : Plug(p) \/ Unplug(p)
  \/ \E f \in DOMAIN files : Touch(f)
  \/ Loop \/ Main \/ PageListens

Fairness == WF_vars(Loop) /\ WF_vars(Main)
Spec == Init /\ [][Next]_vars /\ Fairness

-----------------------------------------------------------------------------
\* Properties.

Polled(p) == {f \in handlers \ {Sock} : files[f].path = p}
AtRest == main = "on" /\ batch = {} /\ at = None /\ uevents = <<>> /\ ~overrun /\ ~down

\* With nothing left to do, a device that is there is polled exactly once and
\* is known to the context, and nothing is polled of a device that is gone
\* (the loop would spin on its hang-up).  Not promised for a path that changed
\* while main was probing, which may be opened twice, nor for one whose uevent
\* was lost when the socket overran.
PresentIsPolled ==
  AtRest => \A p \in Paths \ (crossed \cup lost) :
    /\ p \in plugged => \E i \in DOMAIN devices :
         Held(p) = {i} /\ Polled(p) = {devices[i]} /\ files[devices[i]].alive
    /\ p \notin plugged => Held(p) = {} /\ Polled(p) = {}

\* A device that is there is polled in the end, unless it goes again or its
\* uevent is lost: even one that came while main was probing.
PlugIsAnswered ==
  \A p \in Paths :
    p \in plugged ~> \/ \E f \in Polled(p) : files[f].alive
                     \/ p \notin plugged \/ p \in lost \/ down
=============================================================================
