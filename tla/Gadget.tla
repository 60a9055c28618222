------------------------------- MODULE Gadget ------------------------------
(***************************************************************************)
(* The pages that lend disks over USB (src/src/ui/mass_storage): apply     *)
(* builds a tree of directories and links in configfs, step by step in a   *)
(* function of the worker pool, and binds it to a controller last; clean   *)
(* takes such a tree down, at the start of apply, when the user stops and  *)
(* whenever the page of options is drawn.  Every step of apply may throw,  *)
(* which leaves what was built; a directory that cannot be removed is only *)
(* logged.                                                                 *)
(*                                                                         *)
(* configfs, as the code uses it: a directory goes only when nothing was   *)
(* made in it and no link leads to it.                                     *)
(***************************************************************************)
EXTENDS Integers, Sequences, FiniteSets, SequencesExt

CONSTANT Luns    \* how many disks are lent

VARIABLES
  mode,       \* "uas", "direct" (scsi_direct), "multi" or "single"
  osDesc,     \* the kernel has os_desc
  scsi,       \* the disks that "direct" lends through pscsi
  tree,       \* the directories and links that exist
  bound,      \* the gadget's UDC is set
  page,       \* "options", "running" or "hello"
  work,       \* what runs: "idle", "hook", "clean", "build", "bind", "post",
              \* or a call that waits for LVGL: "ready", "back"
  why,        \* what clean is part of: "draw", "start" or "stop"
  stage,      \* the next part of clean, the next step of the build
  stop,       \* btn_stop is enabled
  threw       \* the last clean ended with an exception

vars == <<mode, osDesc, scsi, tree, bound, page, work, why, stage, stop, threw>>
options == <<mode, osDesc, scsi>>

-----------------------------------------------------------------------------
(* The tree.  A node is its kind, or its kind and the number of a disk.    *)

Lent == 1..Luns
Modes == {"uas", "direct", "multi", "single"}
One(kind) == <<kind, 0>>
Each(kind, S) == {<<kind, n>> : n \in S}

\* What a node was made in, or, for a link, also what it leads to.
Holders(node) ==
  LET kind == node[1]  n == node[2]
  IN  CASE kind \in {"strings", "config", "function"} -> {One("gadget")}
        [] kind = "configStrings" -> {One("config")}
        [] kind = "osLink" -> {One("gadget"), One("config")}
        [] kind = "configLink" -> {One("config"), <<"function", n>>}
        [] kind = "lun" -> {One("function")}
        [] kind = "naa" -> {One("fabric")}
        [] kind = "tpgt" -> {One("naa")}
        [] kind = "block" -> {One("iblock")}
        [] kind = "scsi" -> {One("pscsi")}
        [] kind = "port" -> {One("tpgt")}
        [] kind = "portLink" -> {<<"port", n>>, <<"block", n>>, <<"scsi", n>>}
        [] OTHER -> {}

Removable(node) == \A other \in tree : node \notin Holders(other)

-----------------------------------------------------------------------------
(* What apply makes, in order.                                             *)

Block(n) == <<IF n \in scsi THEN "scsi" ELSE "block", n>>
UasDisk(n) == <<Block(n), <<"port", n>>, <<"portLink", n>> >>
UasDisks == [k \in 1..(3 * Luns) |-> UasDisk((k + 2) \div 3)[((k + 2) % 3) + 1]]
Uas ==
  <<One("function")>> \o (IF mode = "direct" THEN <<One("pscsi")>> ELSE <<>>)
  \o <<One("iblock"), One("fabric"), One("naa"), One("tpgt")>>
  \o UasDisks \o <<One("configLink")>>

\* The first LUN comes with its function.
Multi ==
  <<One("function")>> \o [n \in 1..(Luns - 1) |-> <<"lun", n + 1>>]
  \o <<One("configLink")>>

Single == [n \in Lent |-> <<"function", n>>] \o [n \in Lent |-> <<"configLink", n>>]

Build ==
  <<One("gadget"), One("strings"), One("config"), One("configStrings")>>
  \o (IF osDesc THEN <<One("osLink")>> ELSE <<>>)
  \o (CASE mode = "multi" -> Multi [] mode = "single" -> Single [] OTHER -> Uas)

Whole == ToSet(Build)

-----------------------------------------------------------------------------
(* What clean removes, in order.                                           *)

\* Mutant: the functions before the links that lead to them.
PartsFunctionsFirst ==
  <<{"portLink"}, {"port"}, {"tpgt"}, {"naa"}, {"fabric"}, {"block", "scsi"},
    {"iblock", "pscsi"}, {"udc"}, {"lun"}, {"function"}, {"osLink"}, {"configLink"},
    {"configStrings"}, {"config"}, {"strings"}, {"gadget"}>>

Parts ==
  <<{"portLink"}, {"port"}, {"tpgt"}, {"naa"}, {"fabric"}, {"block", "scsi"},
    {"iblock", "pscsi"}, {"udc"}, {"osLink"}, {"configLink"}, {"configStrings"}, {"config"},
    {"strings"}, {"lun"}, {"function"}, {"gadget"}>>

-----------------------------------------------------------------------------
Init ==
  /\ mode = "uas" /\ osDesc \in BOOLEAN /\ scsi = {}
  /\ tree = {} /\ bound = FALSE
  /\ page = "hello" /\ work = "idle" /\ why = "draw" /\ stage = 1
  /\ stop = FALSE /\ threw = FALSE

\* The page of options is drawn: clean runs in LVGL's thread.
Draws == page' = "options" /\ work' = "hook" /\ why' = "draw" /\ stop' = FALSE

Enter ==
  /\ page = "hello" /\ Draws
  /\ UNCHANGED <<options, tree, bound, stage, threw>>

Back ==
  /\ page = "options" /\ work = "idle" /\ page' = "hello"
  /\ UNCHANGED <<options, tree, bound, work, why, stage, stop, threw>>

\* btn_start: the page that runs is drawn and queues do_start.
Start(m, s) ==
  /\ page = "options" /\ work = "idle" /\ (m # "direct" => s = {})
  /\ mode' = m /\ scsi' = s
  /\ page' = "running" /\ work' = "hook" /\ why' = "start"
  /\ UNCHANGED <<osDesc, tree, bound, stage, stop, threw>>

Stop ==
  /\ page = "running" /\ stop /\ stop' = FALSE
  /\ work' = "hook" /\ why' = "stop"
  /\ UNCHANGED <<options, tree, bound, page, stage, threw>>

-----------------------------------------------------------------------------
(* clean.                                                                  *)

\* What an exception of clean ends, and what follows clean.
Ended == work' = CASE why = "draw" -> "idle" [] OTHER -> "back"
Throws == threw' = TRUE /\ Ended

HookThrows ==
  /\ work = "hook" /\ Throws
  /\ UNCHANGED <<options, tree, bound, page, why, stage, stop>>

Hooked ==
  /\ work = "hook" /\ work' = "clean" /\ stage' = 1
  /\ UNCHANGED <<options, tree, bound, page, why, stop, threw>>

\* One part; gadget_clean ends at once when there is no gadget.
CleanPart ==
  /\ work = "clean" /\ stage <= Len(Parts)
  /\ tree' = tree \ {n \in tree : n[1] \in Parts[stage] /\ Removable(n)}
  /\ bound' = (bound /\ "udc" \notin Parts[stage])
  /\ stage' = stage + 1
  /\ UNCHANGED <<options, page, work, why, stop, threw>>

\* The controller does not let go.
UnbindThrows ==
  /\ work = "clean" /\ stage <= Len(Parts) /\ "udc" \in Parts[stage] /\ bound
  /\ Throws
  /\ UNCHANGED <<options, tree, bound, page, why, stage, stop>>

\* The last hook may throw, with nothing left to do.
Cleaned ==
  /\ work = "clean" /\ stage > Len(Parts)
  /\ threw' = FALSE /\ stage' = 1
  /\ IF why = "start" THEN work' \in {"build", "back"} ELSE Ended
  /\ UNCHANGED <<options, tree, bound, page, why, stop>>

-----------------------------------------------------------------------------
(* apply, and the calls that wait for LVGL's thread.                       *)

\* These may be there already, the others may not.
Kept == {"gadget", "osLink", "iblock", "pscsi"}

\* A step makes one node, or throws.
BuildStep ==
  /\ work = "build" /\ stage <= Len(Build)
  /\ \/ /\ Build[stage][1] \in Kept \/ Build[stage] \notin tree
        /\ tree' = tree \cup {Build[stage]} /\ stage' = stage + 1 /\ UNCHANGED work
     \/ work' = "back" /\ UNCHANGED <<tree, stage>>
  /\ UNCHANGED <<options, bound, page, why, stop, threw>>

\* The UDC, and the last hook.
Bind ==
  /\ work = "build" /\ stage > Len(Build)
  /\ \/ bound' = TRUE /\ work' \in {"ready", "back"}
     \/ UNCHANGED bound /\ work' = "back"
  /\ UNCHANGED <<options, tree, page, why, stage, stop, threw>>

Ready ==
  /\ work = "ready" /\ work' = "idle" /\ stop' = TRUE
  /\ UNCHANGED <<options, tree, bound, page, why, stage, threw>>

\* A start that failed and a stop both show the page of options.
BackToOptions ==
  /\ work = "back" /\ Draws
  /\ UNCHANGED <<options, tree, bound, stage, threw>>

-----------------------------------------------------------------------------
Working ==
  \/ HookThrows \/ Hooked \/ CleanPart \/ UnbindThrows \/ Cleaned
  \/ BuildStep \/ Bind \/ Ready \/ BackToOptions

Next ==
  \/ Working \/ Enter \/ Back \/ Stop
  \/ \E m \in Modes, s \in SUBSET Lent : Start(m, s)

-----------------------------------------------------------------------------
(* What is checked.                                                        *)

\* Once the page of options, or any other, is idle, nothing of the gadget is
\* left, wherever the last start failed: no disk is lent or kept busy, unless
\* the last clean threw before its end.  While the page says that it runs, the
\* gadget is whole and bound.
NothingRemains ==
  /\ work = "idle" /\ page # "running" /\ ~threw => tree = {} /\ ~bound
  /\ stop => bound /\ tree = Whole
=============================================================================
