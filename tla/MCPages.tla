------------------------------ MODULE MCPages ------------------------------
(***************************************************************************)
(* The pages that choose a disk and an image, the ones that lend disks     *)
(* over USB, and the screen they are drawn on - how it is found, a card's  *)
(* and a frame buffer's -, each explored by itself: one page is shown at a *)
(* time, and none knows of the screen.                                     *)
(***************************************************************************)
EXTENDS Integers, FiniteSets, Sequences, SequencesExt

CONSTANTS Disks, None, MaxPlugs, Items, Shown, Groups, Luns, MaxFrames,
  MaxSwitches, Areas, MaxDraws, MaxTurns, Controllers, Virtual

\* What is lent is a number of disks; a machine has so many disks and controllers,
\* and no disk is called None.
ASSUME PagesAssumption ==
  /\ Luns \in Nat
  /\ IsFiniteSet(Disks) /\ IsFiniteSet(Controllers) /\ None \notin Disks

VARIABLES part,
  present, plugs, uevents, called, data, disks, selected, last, chosen, next, spinner, load,
  todo, draws, adding, listening, gone, used, stale,
  images, group, cover, jobs, image, shown, imageNext, imageSpinner, imageLoad, populating,
  imageGone, imageUsed,
  mode, osDesc, scsi, tree, bound, page, work, why, stage, stop, threw,
  vt, leaving, signals, typed, frames, paused, asked, overlap, left, pc, ui, dirty, whole,
  act, active, flushing, req, pending, event, screen, content, failed, late,
  backend, rest, device, step, conn, crtc, plane, buffers, fds,
  fbCalls, fbPaused, fbAsked, fbOverlap, turns, at, now, invalid, drawn, fbTodo, area, mem,
  sem, pan, visible,
  free, udcs, initialized, config, shows, items, picked, removable, startable, label,
  offered, drop, widgets, refused, broken

Disk == INSTANCE DiskChooser
Image == INSTANCE ImageChooser WITH selected <- image, next <- imageNext,
  spinner <- imageSpinner, load <- imageLoad, gone <- imageGone, used <- imageUsed
Lend == INSTANCE Gadget
Options == INSTANCE MassOptions WITH Devs <- Disks, Nothing <- None
Drm == INSTANCE DrmDisplay
Fbdev == INSTANCE FbdevDisplay WITH calls <- fbCalls, paused <- fbPaused, asked <- fbAsked,
  overlap <- fbOverlap, todo <- fbTodo

\* Cards of two connectors, two encoders and two crtcs: with a screen or without, driven
\* by one of the encoders or by none; planes for both crtcs or for one.
Outputs ==
  {[state |-> "connected", modes |-> 1, encoder |-> e, encoders |-> <<7, 8>>] : e \in {0, 7, 8}}
  \cup {[state |-> "unknown", modes |-> 1, encoder |-> 0, encoders |-> <<7>>],
        [state |-> "connected", modes |-> 0, encoder |-> 0, encoders |-> <<>>]}
PlaneLists == {
  <<[possible |-> {0, 1}, formats |-> {"xrgb"}], [possible |-> {0}, formats |-> {"xrgb"}],
    [possible |-> {1}, formats |-> {"argb"}]>>,
  <<[possible |-> {0}, formats |-> {"xrgb"}]>>}
CardOf(c, d, e, p) == [node |-> "card", connectors |-> <<c, d>>, crtcs |-> <<41, 42>>,
  encoders |-> <<[id |-> 7, crtc |-> e], [id |-> 8, crtc |-> 42]>>, planes |-> p]
\* An encoder that drives a connector has a crtc, and drives no other.
Card(x) == CardOf(x[1], x[2], x[3], x[4])
MCCards == {<<>>} \cup UNION {
  {<<[node |-> "render"], Card(x)>>, <<Card(x), Card(x)>>} :
    x \in {y \in Outputs \X Outputs \X {0, 41} \X PlaneLists :
      /\ y[1].encoder # y[2].encoder \/ y[1].encoder = 0
      /\ 7 \in {y[1].encoder, y[2].encoder} => y[3] # 0}}
FbdevKinds == [class : BOOLEAN, nodes : {{}, {"dev"}}, virtual : BOOLEAN, depth : {8, 32}]
MCFbdevs == FbdevKinds \X FbdevKinds
Found == INSTANCE DisplaySetup WITH Cards <- MCCards, Fbdevs <- MCFbdevs

diskVars == <<present, plugs, uevents, called, data, disks, selected, last, chosen, next,
  spinner, load, todo, draws, adding, listening, gone, used, stale>>
imageVars == <<images, group, cover, jobs, image, shown, imageNext, imageSpinner, imageLoad,
  populating, imageGone, imageUsed>>
gadgetVars == <<mode, osDesc, scsi, tree, bound, page, work, why, stage, stop, threw>>
optionVars == <<free, udcs, initialized, config, shows, items, picked, removable,
  startable, label, offered, drop, widgets, refused, broken>>
lendVars == <<gadgetVars, optionVars>>
drmVars == <<vt, leaving, signals, typed, frames, paused, asked, overlap, left, pc, ui, dirty,
  whole, act, active, flushing, req, pending, event, screen, content, failed, late>>
fbVars == <<fbCalls, fbPaused, fbAsked, fbOverlap, turns, at, now, invalid, drawn, fbTodo,
  area, mem, sem, pan, visible>>
setupVars == <<backend, rest, device, step, conn, crtc, plane, buffers, fds>>
screenVars == <<drmVars, fbVars, setupVars>>
vars == <<part, diskVars, imageVars, lendVars, screenVars>>

\* Only one part needs all of its initial states.
Init ==
  /\ part \in {"disk", "image", "lend", "options", "screen", "framebuffer", "setup"}
  /\ Disk!Init /\ (part # "disk" => present = {} /\ last = None)
  /\ Lend!Init /\ (part # "lend" => osDesc)
  /\ Options!Init
  /\ (part # "options" => free = {} /\ udcs = {})
  /\ Found!Init /\ (part # "setup" => backend = "drm" /\ rest = <<>>)
  /\ Image!Init /\ Drm!Init /\ Fbdev!Init

Next ==
  \/ /\ part = "disk" /\ Disk!Next
     /\ UNCHANGED <<part, imageVars, lendVars, screenVars>>
  \/ /\ part = "image" /\ Image!Next
     /\ UNCHANGED <<part, diskVars, lendVars, screenVars>>
  \/ /\ part = "lend" /\ Lend!Next
     /\ UNCHANGED <<part, diskVars, imageVars, optionVars, screenVars>>
  \/ /\ part = "options" /\ Options!Next
     /\ UNCHANGED <<part, diskVars, imageVars, gadgetVars, screenVars>>
  \/ /\ part = "screen" /\ Drm!Next
     /\ UNCHANGED <<part, diskVars, imageVars, lendVars, fbVars, setupVars>>
  \/ /\ part = "framebuffer" /\ Fbdev!Next
     /\ UNCHANGED <<part, diskVars, imageVars, lendVars, drmVars, setupVars>>
  \/ /\ part = "setup" /\ Found!Next
     /\ UNCHANGED <<part, diskVars, imageVars, lendVars, drmVars, fbVars>>

Spec == Init /\ [][Next]_vars

\* The list of disks is the machine's, what is chosen is what is shown, a page that
\* loads is covered, and what is offered can be had: stated in DiskChooser,
\* ImageChooser and MassOptions.
ChoiceIsTrue == Disk!ListIsTrue /\ Image!ChosenIsShown /\ Options!OffersAreTrue

\* A function of the pool or the event loop uses a page that is there, unless it was
\* left under its cover, while on_hotplug was at work, or with covers to come: stated
\* in DiskChooser and ImageChooser.
LeftSafely == Disk!LeftSafely /\ Image!CoversFindImages

\* Nothing of a gadget survives its end: stated in Gadget.
NothingRemains == Lend!NothingRemains

\* What is drawn is not what is shown, what is shown at last is what was drawn
\* last, on the screen that was found, and nothing is drawn while another terminal
\* is in front: stated in DrmDisplay, FbdevDisplay and DisplaySetup.
NoTearing == Drm!NoTearing
ScreenIsTrue ==
  /\ Drm!ShowsLatest /\ Drm!PausedWhileAway
  /\ Fbdev!ShowsLatest /\ Found!FoundShows
=============================================================================
