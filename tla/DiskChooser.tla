---------------------------- MODULE DiskChooser ----------------------------
(***************************************************************************)
(* The page that chooses a disk (src/src/ui/choose_disk): a function of    *)
(* the worker pool fills data_disks, holding `lock`; LVGL's thread shows   *)
(* them and registers for uevents; from then on the event loop's thread    *)
(* adds and removes disks one by one.  A new entry goes into data_disks    *)
(* under `lock` and into the shown list later, under lv_lock; an entry     *)
(* that is removed never leaves data_disks.  While disks are loaded, the   *)
(* page is covered: the pointer reaches nothing, the keyboard the entries  *)
(* and Back, and Next once an entry is chosen.                             *)
(***************************************************************************)
EXTENDS Integers, FiniteSets, SequencesExt

CONSTANTS Disks, None, MaxPlugs    \* how often a disk comes or goes

VARIABLES
  present,         \* the disks the kernel has
  plugs, uevents,  \* changes so far; the loop's events not handled yet
  called,          \* on_hotplug is called for the first of them, and before its lock
  data,            \* data_disks
  disks,           \* the shown entries
  selected,        \* selected_disk, as a place in `disks`, or 0
  last,            \* the disk an earlier visit chose (installer_context)
  chosen,          \* what the user, or `last`, selected
  next,            \* btn_next is enabled
  spinner,         \* the page is covered
  load, todo,      \* load_disks: "none", "queued" or "scan", which it holds `lock` in
  draws,           \* draw_disk_items waits for LVGL's thread
  adding,          \* hotplug_add between `lock` and lv_lock, or None
  listening,       \* uevent_id is set
  gone,            \* how the page was left: "next" or "back", "covered" when it
                   \* was, "handling" when on_hotplug was at work, "" for not yet
  used,            \* a page that has gone was used
  stale            \* a disk came or went around the last load, or it failed

vars == <<present, plugs, uevents, called, data, disks, selected, last, chosen, next, spinner,
  load, todo, draws, adding, listening, gone, used, stale>>
kernel == <<present, plugs>>
events == <<uevents, called>>
list == <<disks, selected, chosen>>

Init ==
  /\ present \in SUBSET Disks /\ plugs = 0 /\ uevents = <<>> /\ called = FALSE
  /\ data = <<>> /\ disks = <<>> /\ selected = 0
  /\ last \in Disks \cup {None} /\ chosen = None /\ next = FALSE
  /\ spinner = TRUE /\ load = "queued" /\ todo = {} /\ draws = FALSE
  /\ adding = None /\ listening = FALSE
  /\ gone = "" /\ used = FALSE /\ stale = FALSE

Loading == load = "scan" \/ draws
Use == used' = (used \/ gone # "")

\* How a load of a disk can end.  What /sys says of it, by its bus, decides:
\* of a disk that has gone nothing is read, and a number (the lanes of a PCIe
\* slot, the speed of a USB port) that is none throws.  An entry is whole or
\* does not exist: it joins data_disks last.
Reads(d) == IF d \in present THEN BOOLEAN ELSE {FALSE}

\* The cover, and with it the buttons; `sel` is the selected entry, or 0.
SetSpinner(show, sel) == spinner' = show /\ next' = (~show /\ sel # 0)

\* draw_disk_item: one more entry under the others, whatever they are.
DrawDiskItem(shown, d) == Append(shown, d)

\* The first place of a disk in a list, or 0.
Place(l, d) == SelectInSeq(l, LAMBDA x : x = d)

\* The entry at place i is the selected one, and what is told of it; 0 is none.
Picks(i) ==
  /\ selected' = i
  /\ chosen' = IF i = 0 THEN None ELSE disks'[i]

-----------------------------------------------------------------------------
(* A disk comes or goes: the kernel changes first, the event follows.      *)

Plug(d) ==
  /\ plugs < MaxPlugs /\ plugs' = plugs + 1
  /\ IF d \in present
     THEN present' = present \ {d} /\ uevents' = Append(uevents, <<"remove", d>>)
     ELSE present' = present \cup {d} /\ uevents' = Append(uevents, <<"add", d>>)
  /\ stale' = (stale \/ Loading)
  /\ UNCHANGED <<called, data, list, last, next, spinner, load, todo, draws, adding,
       listening, gone, used>>

-----------------------------------------------------------------------------
(* load_disks, in the worker pool.                                         *)

\* Mutant: the entries of the last load stay.
ClearsNothing == UNCHANGED data

Clears == data' = <<>>

LoadBegins ==
  /\ load = "queued" /\ load' = "scan"
  /\ Clears /\ todo' = Disks
  /\ stale' = (uevents # <<>> \/ adding # None)
  /\ Use
  /\ UNCHANGED <<kernel, events, list, last, next, spinner, draws, adding, listening, gone>>

\* load_disk for one name of the directory; it may fail, and the rest go on.
LoadDisk(d) ==
  /\ load = "scan" /\ d \in todo /\ todo' = todo \ {d}
  /\ \E read \in Reads(d) :
       /\ data' = IF read THEN Append(data, d) ELSE data
       /\ stale' = (stale \/ (d \in present /\ ~read))
  /\ Use
  /\ UNCHANGED <<kernel, events, list, last, next, spinner, load, draws, adding, listening,
       gone>>

LoadEnds ==
  /\ load = "scan" /\ todo = {}
  /\ load' = "none" /\ draws' = TRUE
  /\ Use
  /\ UNCHANGED <<kernel, events, data, list, last, next, spinner, todo, adding, listening,
       gone, stale>>

\* The directory cannot be read, or no entry of it: what is shown stays, and
\* the page does not listen if it did not.
LoadFails ==
  /\ load = "queued" \/ (load = "scan" /\ todo = {} /\ data = <<>>)
  /\ load' = "none" /\ SetSpinner(FALSE, selected)
  /\ stale' = TRUE
  /\ Use
  /\ UNCHANGED <<kernel, events, data, list, last, todo, draws, adding, listening, gone>>

-----------------------------------------------------------------------------
(* LVGL's thread.  What the cover hides the keyboard reaches, unless it is *)
(* disabled itself, as Refresh is.                                         *)

\* draw_disk_items: the list is cleaned, and every entry drawn.
Draw ==
  /\ draws /\ draws' = FALSE
  /\ disks' = data
  /\ Picks(Place(data, last))
  /\ SetSpinner(FALSE, selected')
  /\ listening' = (gone = "")
  /\ Use
  /\ UNCHANGED <<kernel, events, data, last, load, todo, adding, gone, stale>>

Refresh ==
  /\ gone = "" /\ ~spinner
  /\ SetSpinner(TRUE, selected) /\ load' = "queued"
  /\ UNCHANGED <<kernel, events, data, list, last, todo, draws, adding, listening, gone,
       used, stale>>

\* disk_item_click: the selected entry is unselected.  It asks for no cover, and
\* enables btn_next under it.
Click(i) ==
  /\ gone = ""
  /\ disks' = disks
  /\ Picks(IF selected = i THEN 0 ELSE i)
  /\ next' = (selected' # 0)
  /\ UNCHANGED <<kernel, events, data, last, spinner, load, todo, draws, adding,
       listening, gone, used, stale>>

\* btn_next and btn_back.
Leave(how) ==
  /\ gone = "" /\ (how = "next" => next)
  /\ gone' = IF called \/ adding # None THEN "handling" ELSE IF spinner THEN "covered" ELSE how
  /\ listening' = FALSE
  /\ UNCHANGED <<kernel, events, data, list, last, next, spinner, load, todo, draws, adding,
       used, stale>>

-----------------------------------------------------------------------------
(* The event loop's thread: on_hotplug.                                    *)

Unheard ==
  /\ ~called /\ adding = None /\ uevents # <<>> /\ ~listening
  /\ uevents' = Tail(uevents)
  /\ UNCHANGED <<kernel, called, data, list, last, next, spinner, load, todo, draws, adding,
       listening, gone, used, stale>>

\* From here on the page must stay: the handler waits for `lock` or lv_lock.
OnHotplug ==
  /\ ~called /\ adding = None /\ uevents # <<>> /\ listening
  /\ called' = TRUE
  /\ UNCHANGED <<kernel, uevents, data, list, last, next, spinner, load, todo, draws, adding,
       listening, gone, used, stale>>

Handles(what) ==
  /\ called /\ called' = FALSE
  /\ Head(uevents)[1] = what /\ uevents' = Tail(uevents)
  /\ Use

\* load_disk waits for `lock`.
HotplugAdd ==
  /\ Handles("add") /\ load # "scan"
  /\ LET d == Head(uevents)[2]
     IN  \E read \in Reads(d) :
           /\ IF read THEN adding' = d /\ data' = Append(data, d) ELSE UNCHANGED <<adding, data>>
           /\ stale' = (stale \/ (d \in present /\ ~read))
  /\ UNCHANGED <<kernel, list, last, next, spinner, load, todo, draws, listening, gone>>

HotplugShows ==
  /\ adding # None /\ adding' = None
  /\ disks' = DrawDiskItem(disks, adding)
  /\ Use
  /\ UNCHANGED <<kernel, events, data, selected, last, chosen, next, spinner, load, todo,
       draws, listening, gone, stale>>

\* The local gui_disk hides the outer one: data_disks keeps the entry.
HotplugRemove ==
  /\ Handles("remove")
  /\ LET i == Place(disks, Head(uevents)[2])
     IN  IF i = 0 THEN UNCHANGED <<list, next>>
         ELSE /\ disks' = RemoveAt(disks, i)
              /\ selected' = IF selected = i THEN 0
                             ELSE IF selected > i THEN selected - 1 ELSE selected
              /\ chosen' = IF selected = i THEN None ELSE chosen
              /\ next' = (next /\ selected # i)
  /\ UNCHANGED <<kernel, data, last, spinner, load, todo, draws, adding, listening, gone,
       stale>>

-----------------------------------------------------------------------------
Next ==
  \/ \E d \in Disks : Plug(d) \/ LoadDisk(d)
  \/ LoadBegins \/ LoadEnds \/ LoadFails \/ Draw \/ Refresh
  \/ \E i \in 1..Len(disks) : Click(i)
  \/ \E how \in {"next", "back"} : Leave(how)
  \/ Unheard \/ OnHotplug \/ HotplugAdd \/ HotplugShows \/ HotplugRemove

-----------------------------------------------------------------------------
(* What is checked.                                                        *)

\* What Next hands on is the entry that was chosen, and Next is offered for a
\* chosen entry only; the cover stays as long as anything is loaded or to be drawn.
\* Once all is quiet, the entries are the disks of the machine, each once, unless
\* one of them came or went around the last load: such a disk may be shown twice,
\* not at all, or after it has gone.
ListIsTrue ==
  /\ selected # 0 => selected <= Len(disks) /\ disks[selected] = chosen
  /\ next => selected # 0
  /\ ~spinner => load = "none" /\ ~draws
  /\ gone = "" /\ ~stale /\ load = "none" /\ ~draws /\ uevents = <<>> /\ adding = None
     => ToSet(disks) = present /\ Len(disks) = Cardinality(present)

\* A page that has gone, by Next or by Back, is used only when it was left under
\* its cover, as the keyboard can, or while on_hotplug was at work: a page that
\* was not covered leaves no load and no draw behind.
LeftSafely == used => gone \in {"covered", "handling"}
=============================================================================
