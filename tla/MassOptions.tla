----------------------------- MODULE MassOptions -----------------------------
(***************************************************************************)
(* The page of options before disks are lent over USB                      *)
(* (src/src/ui/mass_storage/draw.cpp, load.cpp).  What is to be lent lives *)
(* in one configuration that outlives the page; the page shows its disks   *)
(* as a list and the rest in widgets, which only Start writes back.  Disks *)
(* and controllers come and go while the page is shown, and it looks for   *)
(* them only when it is drawn and when the user asks.                      *)
(*                                                                         *)
(* What the chooser hands back and what lends the disks are DiskChooser    *)
(* and Gadget; here the one names any disk, and what the other claims, and *)
(* keeps after a clean that failed, is among the changes of the world.     *)
(***************************************************************************)
EXTENDS Integers, Sequences, SequencesExt

CONSTANTS Devs, Controllers, Virtual, Nothing

VARIABLES
  free,         \* the disks that are listed and that nobody has claimed
  udcs,         \* the controllers that exist
  initialized, config,    \* mass_storage_config_default
  shows,        \* the page: "hello", "options", "choose" or "running"
  items,        \* the list's disks
  picked,       \* selected_disk
  removable, startable,   \* the buttons Remove and Start are enabled
  label,        \* lbl_disk_placeholder: "null", "alive" or "dead" (deleted)
  offered, drop,          \* the menu's controllers after "(None)", and its place in them
  widgets,      \* the other widgets
  refused,      \* Start was enabled and refused to start
  broken        \* a deleted label was used

vars == <<free, udcs, initialized, config, shows, items, picked, removable, startable,
  label, offered, drop, widgets, refused, broken>>
world == <<free, udcs>>
list == <<items, picked, removable, label>>
menu == <<offered, drop>>

\* What lv_dropdown and lv_checkbox start with.
Plain == [mode |-> "uas", multi |-> FALSE, direct |-> FALSE, readonly |-> FALSE]

-----------------------------------------------------------------------------
(* What is found.                                                          *)

\* The first controller that is none of the kernel's virtual ones, or else the
\* first one.
FirstUdc ==
  CASE udcs \ Virtual # {} -> SetToSeq(udcs \ Virtual)[1]
    [] udcs # {} -> SetToSeq(udcs)[1]
    [] OTHER -> Nothing

\* mass_storage_config::initialize, the first time.
Initialized ==
  [disks |-> SetToSeq(free), udc |-> FirstUdc, how |-> [Plain EXCEPT !.multi = TRUE]]

-----------------------------------------------------------------------------
(* The parts of the page.                                                  *)

\* update: what a mode does not know is switched off, or on.
Settled(w) ==
  IF w.mode = "uas" THEN [w EXCEPT !.multi = TRUE, !.readonly = FALSE]
  ELSE [w EXCEPT !.direct = FALSE]
Update == startable' = (items' # <<>> /\ drop' > 0)

\* The list is cleaned, and shows either its disks or the label that there are
\* none; the label is made anew, for the old one went with the list.
ShowPlaceholder == label' = "alive" /\ UNCHANGED broken
ShowItems(s) ==
  /\ items' = s /\ picked' = Nothing /\ removable' = FALSE
  /\ IF s = <<>> THEN ShowPlaceholder
     ELSE label' = (IF label = "null" THEN "null" ELSE "dead") /\ UNCHANGED broken

\* load_udc: the controller that was selected, if it is still there.
ShowUdcs(old) ==
  /\ offered' = SetToSeq(udcs)
  /\ drop' = IF udcs = {} THEN 0
             ELSE IF old \in udcs THEN CHOOSE i \in 1..Len(offered') : offered'[i] = old
             ELSE 1

\* A page is made anew whenever it is switched to: Drawn is its draw, where the
\* first initialize or clean may throw, and what threw is tried no more, but
\* for an initialize that load_disks repeats.
Drawn ==
  \E fails \in BOOLEAN :
    LET first == IF initialized \/ fails THEN config ELSE Initialized
        known == initialized \/ ~fails
        w == IF known THEN first.how ELSE Plain
    IN  /\ initialized' = TRUE
        /\ config' = IF known THEN first ELSE Initialized
        /\ shows' = "options"
        /\ widgets' = Settled(w)
        /\ ShowUdcs(IF known THEN first.udc ELSE Nothing)
        /\ ShowItems(config'.disks)
        /\ Update

\* The page is left, and its widgets with it.
Left(to) ==
  /\ shows' = to
  /\ items' = <<>> /\ picked' = Nothing /\ removable' = FALSE /\ startable' = FALSE
  /\ label' = "null" /\ offered' = <<>> /\ drop' = 0 /\ widgets' = Plain
  /\ UNCHANGED broken

Init ==
  /\ free \in SUBSET Devs /\ udcs \in SUBSET Controllers
  /\ initialized = FALSE /\ config = [disks |-> <<>>, udc |-> Nothing, how |-> Plain]
  /\ shows = "hello" /\ items = <<>> /\ picked = Nothing
  /\ removable = FALSE /\ startable = FALSE
  /\ label = "null" /\ offered = <<>> /\ drop = 0 /\ widgets = Plain
  /\ refused = FALSE /\ broken = FALSE

-----------------------------------------------------------------------------
(* The world, and the other pages.                                         *)

DiskChanges(d) ==
  /\ free' = IF d \in free THEN free \ {d} ELSE free \cup {d}
  /\ UNCHANGED <<udcs, initialized, config, shows, list, startable, menu, widgets,
       refused, broken>>

UdcChanges(u) ==
  /\ udcs' = IF u \in udcs THEN udcs \ {u} ELSE udcs \cup {u}
  /\ UNCHANGED <<free, initialized, config, shows, list, startable, menu, widgets,
       refused, broken>>

Enter == shows = "hello" /\ Drawn /\ UNCHANGED <<free, udcs, refused>>

\* The page that lends fails or is stopped.
Stopped == shows = "running" /\ Drawn /\ UNCHANGED <<free, udcs, refused>>

Back ==
  /\ shows = "options" /\ Left("hello")
  /\ UNCHANGED <<world, initialized, config, refused>>

Add ==
  /\ shows = "options" /\ Left("choose")
  /\ UNCHANGED <<world, initialized, config, refused>>

\* The callback of btn_add.
Taken(d) ==
  IF d \in free /\ d \notin ToSet(config.disks) THEN Append(config.disks, d)
  ELSE config.disks

\* The chooser ends with a disk, or with Back; either draws the page anew.
Chosen ==
  /\ shows = "choose"
  /\ \E d \in Devs : config' = [config EXCEPT !.disks = Taken(d)]
  /\ shows' = "chosen"
  /\ UNCHANGED <<world, initialized, list, startable, menu, widgets, refused, broken>>

Return == shows \in {"choose", "chosen"} /\ Drawn /\ UNCHANGED <<free, udcs, refused>>

-----------------------------------------------------------------------------
(* What the user does on the page.                                         *)

On == shows = "options" /\ UNCHANGED <<world, initialized, shows, refused>>

\* disk_item_click.
Pick(d) ==
  /\ On /\ d \in ToSet(items)
  /\ picked' = (IF picked = d THEN Nothing ELSE d) /\ removable' = (picked' # Nothing)
  /\ UNCHANGED <<config, items, startable, label, menu, widgets, broken>>

\* The picked disk, which is there once; the last one leaves the label behind.
RemovePicked ==
  /\ On /\ removable
  /\ config' = [config EXCEPT !.disks = RemoveFirst(@, picked)]
  /\ items' = RemoveFirst(items, picked)
  /\ picked' = Nothing /\ removable' = FALSE
  /\ IF items' = <<>> THEN ShowPlaceholder ELSE UNCHANGED <<label, broken>>
  /\ UNCHANGED <<menu, widgets>> /\ Update

Clear ==
  /\ On
  /\ config' = [config EXCEPT !.disks = <<>>] /\ ShowItems(<<>>)
  /\ UNCHANGED <<menu, widgets>> /\ Update

\* Every disk that can be claimed, none that a gadget still claims.
ResetDisks ==
  /\ On
  /\ config' = [config EXCEPT !.disks = SetToSeq(free)] /\ ShowItems(config'.disks)
  /\ UNCHANGED <<menu, widgets>> /\ Update

ReloadUdcs ==
  /\ On
  /\ ShowUdcs(IF drop > 0 THEN offered[drop] ELSE config.udc)
  /\ UNCHANGED <<config, list, widgets, broken>> /\ Update

PickUdc(i) ==
  /\ On /\ drop' = i
  /\ UNCHANGED <<config, list, offered, widgets, broken>> /\ Update

\* The menu of modes, and the boxes that its mode leaves enabled.
SetMode(m) == widgets' = Settled([widgets EXCEPT !.mode = m])
Toggle ==
  \E k \in IF widgets.mode = "uas" THEN {"direct"} ELSE {"multi", "readonly"} :
    widgets' = [widgets EXCEPT ![k] = ~@]
Adjust ==
  /\ On /\ ((\E m \in {"uas", "mass"} : SetMode(m)) \/ Toggle)
  /\ UNCHANGED <<config, list, menu, broken>> /\ Update

\* btn_start.
Refuses ==
  \/ items = <<>> \/ drop = 0
  \/ widgets.mode = "uas" /\ (widgets.readonly \/ ~widgets.multi)
  \/ widgets.mode = "mass" /\ widgets.direct
Start ==
  /\ shows = "options" /\ startable
  /\ IF Refuses
     THEN /\ refused' = TRUE
          /\ UNCHANGED <<config, shows, list, startable, menu, widgets, broken>>
     ELSE /\ config' = [disks |-> config.disks, udc |-> offered[drop], how |-> widgets]
          /\ Left("running") /\ UNCHANGED refused
  /\ UNCHANGED <<free, udcs, initialized>>

-----------------------------------------------------------------------------
Next ==
  \/ \E d \in Devs : DiskChanges(d) \/ Pick(d)
  \/ \E u \in Controllers : UdcChanges(u)
  \/ Enter \/ Stopped \/ Back \/ Add \/ Chosen \/ Return
  \/ RemovePicked \/ Clear \/ ResetDisks \/ ReloadUdcs \/ Adjust \/ Start
  \/ \E i \in 0..Len(offered) : PickUdc(i)

-----------------------------------------------------------------------------
(* What is checked.                                                        *)

\* The list is what will be lent, each disk once, and its label stands for an
\* empty list; Remove is offered for a disk of the list, and Start for what the
\* page's own tests accept, whatever order disks and controllers are changed,
\* reloaded and chosen in.  What runs is a combination that can be lent.
OffersAreTrue ==
  /\ ~refused /\ ~broken
  /\ shows = "options" =>
       /\ items = config.disks /\ IsInjective(items)
       /\ removable <=> picked \in ToSet(items)
       /\ label = "alive" <=> items = <<>>
       /\ drop \in 0..Len(offered)
  /\ shows = "running" =>
       /\ config.disks # <<>> /\ config.udc \in Controllers
       /\ config.how.mode = "uas" => config.how.multi /\ ~config.how.readonly
       /\ config.how.mode = "mass" => ~config.how.direct
=============================================================================
