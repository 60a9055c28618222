---------------------------- MODULE ImageChooser ---------------------------
(***************************************************************************)
(* The page that chooses an image (src/src/ui/choose_image): a function of *)
(* the worker pool fetches the manifests, LVGL's thread lists the groups   *)
(* and images, and each of these queues another function that fetches its  *)
(* cover and puts it on the entry's image object.  The functions keep the  *)
(* entry alive, but neither the page nor its objects.                      *)
(***************************************************************************)
EXTENDS Integers, FiniteSets

CONSTANTS Items,     \* the entries, used again once nothing refers to them
          Shown,     \* how many images the server lists
          Groups, None

VARIABLES
  images,      \* the listed entries
  group,       \* the group of each listed entry
  cover,       \* an entry's img_cover: "null", "alive", or "dead" for one
               \* whose object has been deleted
  jobs,        \* load_cover of an entry: "none", "queued" or "fetched"
  selected,    \* selected_image
  shown,       \* the group that is selected
  next,        \* btn_next is enabled
  spinner,     \* the page is covered
  load,        \* load_images: "none", "queued" or "running"
  populating,  \* populate_images waits for LVGL's thread
  gone,        \* how the page was left, or ""
  used         \* a page that has gone, or an object of it, was used

vars == <<images, group, cover, jobs, selected, shown, next, spinner, load, populating, gone,
  used>>

Init ==
  /\ images = {} /\ group = [i \in Items |-> None] /\ cover = [i \in Items |-> "null"]
  /\ jobs = [i \in Items |-> "none"]
  /\ selected = None /\ shown = None /\ next = FALSE
  /\ spinner = TRUE /\ load = "queued" /\ populating = FALSE
  /\ gone = "" /\ used = FALSE

Use == used' = (used \/ gone # "")
\* The cover over the page, and with it the buttons; `sel` is the selected image.
SetSpinner(show, sel) == spinner' = show /\ next' = (~show /\ sel # None)

Visible(i) == i \in images /\ shown \in {None, group[i]}

-----------------------------------------------------------------------------
(* load_images, in the worker pool.                                        *)

LoadBegins ==
  /\ load = "queued" /\ load' = "running"
  /\ SetSpinner(TRUE, selected)
  /\ Use
  /\ UNCHANGED <<images, group, cover, jobs, selected, shown, populating, gone>>

LoadEnds ==
  /\ load = "running" /\ load' = "none"
  /\ populating' = TRUE
  /\ Use
  /\ UNCHANGED <<images, group, cover, jobs, selected, shown, next, spinner, gone>>

LoadFails ==
  /\ load = "running" /\ load' = "none"
  /\ SetSpinner(FALSE, selected)
  /\ Use
  /\ UNCHANGED <<images, group, cover, jobs, selected, shown, populating, gone>>

-----------------------------------------------------------------------------
(* LVGL's thread.  The cover hides the entries from the pointer, not from  *)
(* the keyboard.                                                           *)

\* Mutant: clean deletes the objects and leaves the entries pointing at them.
CleanedLeft(i) == IF cover[i] = "alive" THEN "dead" ELSE cover[i]

\* clean: a listed entry forgets its objects before they are deleted.
Cleaned(i) == IF i \in images THEN "null" ELSE cover[i]

\* populate_image: each new entry gets its object, shows a stock cover on it and
\* queues load_cover for its own.  (populate_group does the same for a group.)
PopulateImage(new) ==
  /\ cover' = [i \in Items |-> IF i \in new THEN "alive" ELSE Cleaned(i)]
  /\ jobs' = [i \in Items |-> IF i \in new THEN "queued" ELSE jobs[i]]

\* populate_images: the list is made anew, each entry with its cover to fetch.
\* The image of an earlier visit may be among them.
Populate(new) ==
  /\ populating /\ populating' = FALSE
  /\ new \subseteq {i \in Items \ images : jobs[i] = "none"} /\ Cardinality(new) = Shown
  /\ images' = new
  /\ group' \in [Items -> Groups \cup {None}] /\ (\A i \in Items \ new : group'[i] = None)
  /\ PopulateImage(new)
  /\ selected' \in new \cup {None} /\ shown' = None
  /\ SetSpinner(FALSE, selected')
  /\ Use
  /\ UNCHANGED <<load, gone>>

Refresh ==
  /\ gone = "" /\ ~spinner
  /\ SetSpinner(TRUE, selected) /\ load' = "queued"
  /\ UNCHANGED <<images, group, cover, jobs, selected, shown, populating, gone, used>>

\* image_item_click asks for no cover, and enables btn_next under it.
ClickImage(i) ==
  /\ gone = "" /\ Visible(i)
  /\ selected' = IF selected = i THEN None ELSE i
  /\ next' = (selected' # None)
  /\ UNCHANGED <<images, group, cover, jobs, shown, spinner, load, populating, gone, used>>

\* group_item_click: the images of other groups are hidden, none is selected.  The
\* groups are listed with the images.
ClickGroup(g) ==
  /\ gone = "" /\ images # {}
  /\ shown' = IF shown = g THEN None ELSE g
  /\ selected' = None /\ next' = FALSE
  /\ UNCHANGED <<images, group, cover, jobs, spinner, load, populating, gone, used>>

\* The objects go with the page, the entries may stay for their covers.
Leave(how) ==
  /\ gone = "" /\ (how = "next" => next)
  /\ gone' = how
  /\ cover' = [i \in Items |-> IF cover[i] = "alive" THEN "dead" ELSE cover[i]]
  /\ UNCHANGED <<images, group, jobs, selected, shown, next, spinner, load, populating, used>>

-----------------------------------------------------------------------------
(* load_cover, in the worker pool.                                         *)

\* An entry without a cover object, or a cover that cannot be fetched, ends it.
FetchCover(i) ==
  /\ jobs[i] = "queued"
  /\ \/ jobs' = [jobs EXCEPT ![i] = "none"]
     \/ cover[i] # "null" /\ jobs' = [jobs EXCEPT ![i] = "fetched"]
  /\ used' = (used \/ (gone # "" /\ cover[i] # "null"))
  /\ UNCHANGED <<images, group, cover, selected, shown, next, spinner, load, populating, gone>>

\* With lv_lock, and img_cover looked at again.
PutCover(i) ==
  /\ jobs[i] = "fetched" /\ jobs' = [jobs EXCEPT ![i] = "none"]
  /\ used' = (used \/ cover[i] = "dead")
  /\ UNCHANGED <<images, group, cover, selected, shown, next, spinner, load, populating, gone>>

-----------------------------------------------------------------------------
Next ==
  \/ LoadBegins \/ LoadEnds \/ LoadFails \/ Refresh
  \/ \E new \in SUBSET Items : Populate(new)
  \/ \E i \in Items : ClickImage(i) \/ FetchCover(i) \/ PutCover(i)
  \/ \E g \in Groups : ClickGroup(g)
  \/ \E how \in {"next", "back"} : Leave(how)

-----------------------------------------------------------------------------
(* What is checked.                                                        *)

\* The image Next hands on is listed and visible, also where the keyboard chose it
\* under the cover, which stays as long as images are loaded or to be listed.
ChosenIsShown ==
  /\ selected # None => Visible(selected)
  /\ next => selected # None
  /\ ~spinner => load = "none" /\ ~populating

\* A cover that comes late, after the list was made anew, finds that its entry
\* has no object any more: objects that are gone are used only once the page
\* has been left, with covers or the list still to come.
CoversFindImages == used => gone # ""
=============================================================================
