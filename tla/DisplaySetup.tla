--------------------------- MODULE DisplaySetup ---------------------------
(***************************************************************************)
(* display_init (src/src/display/display.cpp) and what the two backends    *)
(* look for.  drm.cpp tries every card: it takes the first connector with  *)
(* a screen, the crtc of an encoder, the last plane that can show the      *)
(* picture there, and allocates two buffers; what fails skips the card and *)
(* gives back what it had.  fbdev.cpp tries every frame buffer.  The mode  *)
(* is never set (first_atomic stays false): a picture is seen where the    *)
(* crtc that was taken is shown already.                                   *)
(***************************************************************************)
EXTENDS Integers, Sequences, FiniteSets, SequencesExt

CONSTANTS Cards,    \* sequences of what /dev/dri may hold, in the order of readdir
          Fbdevs    \* sequences of frame buffers

\* A card is [node, connectors, encoders, crtcs, planes]: a connector [state, modes,
\* encoder, encoders], its encoder 0 if none drives it; an encoder [id, crtc,
\* possible], its crtc 0 if it drives none; crtcs are numbers; a plane [possible,
\* formats].  A frame buffer is [class, nodes, virtual, depth].

VARIABLES
  backend,   \* "drm" or "fbdev", as the configuration says
  rest,      \* the devices still to try
  device,    \* the one that is tried or taken, or NoDevice
  step,
  conn, crtc, plane,   \* what is taken of the card: numbers
  buffers,   \* those allocated
  fds        \* the devices that are open

vars == <<backend, rest, device, step, conn, crtc, plane, buffers, fds>>
taken == <<conn, crtc, plane>>

NoDevice == [node |-> "none"]

Init ==
  /\ \/ backend = "drm" /\ rest \in Cards
     \/ backend = "fbdev" /\ rest \in Fbdevs
  /\ device = NoDevice /\ step = "next"
  /\ conn = 0 /\ crtc = 0 /\ plane = 0
  /\ buffers = {} /\ fds = {}

Goes(from, to) == step = from /\ step' = to

-----------------------------------------------------------------------------
(* drm.cpp                                                                 *)

\* create throws: the destructor gives back the buffers and closes the card.
Skip ==
  /\ step' = "next" /\ buffers' = {} /\ fds' = fds \ {Len(rest)}
  /\ UNCHANGED <<backend, rest, device, taken>>

\* find_create: only devices named card, and setup opens them and asks what they can do.
TryCard ==
  /\ backend = "drm" /\ step = "next" /\ rest # <<>>
  /\ rest' = Tail(rest) /\ device' = Head(rest)
  /\ \/ UNCHANGED <<step, fds>>
     \/ /\ Head(rest).node = "card" /\ step' = "connector"
        /\ fds' = fds \cup {Len(rest) - 1}
  /\ UNCHANGED <<backend, taken, buffers>>

\* The first connector that has a screen and modes; an output to memory is none.
Connector(card) == SelectInSeq(card.connectors,
  LAMBDA c : c.state = "connected" /\ c.modes # 0)

\* The encoder that drives the connector, and otherwise one that is taken from
\* the card's encoders by an index into the connector's: always the first, for
\* the test of its crtcs cannot fail.
Encoder(card, c) ==
  LET own == SelectInSeq(card.encoders, LAMBDA e : e.id = c.encoder)
  IN  IF own # 0 THEN own ELSE IF c.encoders # <<>> THEN 1 ELSE 0
Crtc(card, c) == IF Encoder(card, c) = 0 THEN 0 ELSE card.encoders[Encoder(card, c)].crtc

SetupConnector ==
  /\ step = "connector"
  /\ LET c == Connector(device)
     IN  IF c = 0 \/ (c # 0 => Crtc(device, device.connectors[c])
                                 \notin {device.crtcs[i] : i \in DOMAIN device.crtcs})
         THEN Skip
         ELSE /\ step' = "plane"
              /\ conn' = c /\ crtc' = Crtc(device, device.connectors[c])
              /\ UNCHANGED <<backend, rest, device, plane, buffers, fds>>

\* The last plane that the crtc may use and that knows the format of the picture.
CrtcIdx(card, c) == SelectInSeq(card.crtcs, LAMBDA i : i = c) - 1
Suits(p) == CrtcIdx(device, crtc) \in p.possible /\ "xrgb" \in p.formats
SetupPlane ==
  /\ step = "plane"
  /\ LET fit == {i \in DOMAIN device.planes : Suits(device.planes[i])}
     IN  IF fit = {} THEN Skip
         ELSE /\ plane' = CHOOSE i \in fit : \A j \in fit : j <= i
              /\ step' = "buffers"
              /\ UNCHANGED <<backend, rest, device, conn, crtc, buffers, fds>>

\* The objects and their properties are read, and two buffers are allocated:
\* each may fail, a buffer half-way.
Allocate ==
  /\ step = "buffers"
  /\ \/ Skip
     \/ /\ buffers' = buffers \cup {Cardinality(buffers)}
        /\ step' = IF Cardinality(buffers') = 2 THEN "display" ELSE step
        /\ UNCHANGED <<backend, rest, device, taken, fds>>

-----------------------------------------------------------------------------
(* fbdev.cpp                                                               *)

\* try_fbdev: a frame buffer of the class that has a node, which is not the
\* virtual one; another is closed again.
TryFbdev ==
  /\ backend = "fbdev" /\ step = "next" /\ rest # <<>>
  /\ rest' = Tail(rest) /\ device' = Head(rest)
  /\ \/ UNCHANGED <<step, fds>>
     \/ /\ Head(rest).class /\ Head(rest).nodes # {} /\ ~Head(rest).virtual
        /\ step' = "map" /\ fds' = fds \cup {Len(rest) - 1}
  /\ UNCHANGED <<backend, taken, buffers>>

\* init_fbdev maps it; init of the backend deletes what it made if that fails.
MapFbdev ==
  /\ \/ Goes("map", "display") /\ UNCHANGED fds
     \/ Goes("map", "threw") /\ fds' = fds \ {Len(rest)}
  /\ UNCHANGED <<backend, rest, device, taken, buffers>>

-----------------------------------------------------------------------------
\* Nothing suits: the program ends.
NoneSuits ==
  /\ rest = <<>> /\ Goes("next", "threw")
  /\ UNCHANGED <<backend, rest, device, taken, buffers, fds>>

\* init_display and display_init's last tests.  A frame buffer of a depth that is
\* not known is refused only now, when the display's deletion deletes it once more.
InitDisplay ==
  /\ step = "display"
  /\ step' = IF backend = "fbdev" /\ device.depth \notin {16, 24, 32} THEN "deleted twice"
             ELSE "done"
  /\ UNCHANGED <<backend, rest, device, taken, buffers, fds>>

Next ==
  \/ TryCard \/ SetupConnector \/ SetupPlane \/ Allocate
  \/ TryFbdev \/ MapFbdev \/ NoneSuits \/ InitDisplay

Spec == Init /\ [][Next]_vars

-----------------------------------------------------------------------------
\* The connectors that show what the crtc is given, and the plane may give it there.
Lit == {c \in DOMAIN device.connectors : \E e \in DOMAIN device.encoders :
  device.encoders[e].id = device.connectors[c].encoder /\ device.encoders[e].crtc = crtc}

\* A display that was found shows its picture on the connector that was chosen,
\* if anything drives that one, through a plane that may be shown there.  Of the
\* devices that were tried only the one in use is open, and the program ends with
\* none.
FoundShows ==
  /\ step = "done" /\ backend = "drm" =>
       /\ device.connectors[conn].encoder # 0 => conn \in Lit
       /\ Suits(device.planes[plane])
       /\ buffers = {0, 1}
  /\ step \in {"next", "threw"} => fds = {} /\ buffers = {}
  /\ step = "done" => fds = {Len(rest)}
=============================================================================
