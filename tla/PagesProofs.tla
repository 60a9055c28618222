---------------------------- MODULE PagesProofs ----------------------------
(***************************************************************************)
(* What holds of the pages that choose, the ones that lend and the screen, *)
(* for any disks, images and frames: each part's inductive invariant, and  *)
(* that the steps of the other parts leave it alone.                       *)
(***************************************************************************)
EXTENDS MCPages, SequenceTheorems, FiniteSetTheorems, WellFoundedInduction, TLAPS

-----------------------------------------------------------------------------
(* What one part does, the others' state does not see.                     *)

LEMMA StepOfPart ==
  [Next]_vars =>
    /\ [Disk!Next]_(Disk!vars) /\ [Image!Next]_(Image!vars) /\ [Lend!Next]_(Lend!vars)
    /\ [Options!Next]_(Options!vars) /\ [Drm!Next]_(Drm!vars)
    /\ [Fbdev!Next]_(Fbdev!vars) /\ [Found!Next]_(Found!vars)
<1> USE DEF vars, diskVars, imageVars, lendVars, gadgetVars, optionVars, screenVars, drmVars, fbVars,
  setupVars
<1>1. [Next]_vars => [Disk!Next]_(Disk!vars)
  BY DEF Next, Disk!vars
<1>2. [Next]_vars => [Image!Next]_(Image!vars)
  BY DEF Next, Image!vars
<1>3. [Next]_vars => [Lend!Next]_(Lend!vars)
  BY DEF Next, Lend!vars, Lend!options
<1>4. [Next]_vars => [Drm!Next]_(Drm!vars)
  BY DEF Next, Drm!vars, Drm!console, Drm!kernel, Drm!lvgl
<1>5. [Next]_vars => [Options!Next]_(Options!vars)
  BY DEF Next, Options!vars, Options!world, Options!list, Options!menu
<1>6. [Next]_vars => [Fbdev!Next]_(Fbdev!vars)
  BY DEF Next, Fbdev!vars
<1>7. [Next]_vars => [Found!Next]_(Found!vars)
  BY DEF Next, Found!vars
<1> QED BY <1>1, <1>2, <1>3, <1>4, <1>5, <1>6, <1>7

-----------------------------------------------------------------------------
(* No tearing.                                                             *)

\* There is a request exactly while a commit is shown next or its event has not
\* been read; LVGL has waited for it before it draws.
Requested ==
  /\ req => flushing
  /\ pc \in {"render", "flush"} => ~req
  /\ ~failed => (event => pending = Drm!NoBuffer) /\ (req <=> pending # Drm!NoBuffer \/ event)

\* What LVGL flushes is chosen before it draws; without a failure the frame that
\* is shown, or is going to be, is not in the buffer that is drawn next.
Alternates ==
  /\ act \in Drm!Buffers /\ active \in Drm!Buffers \cup {Drm!NoBuffer}
  /\ pc \in {"sync", "render", "flush"} => active # Drm!NoBuffer
  /\ ~failed /\ ~late =>
       IF pending = Drm!NoBuffer THEN screen # act ELSE pending = 1 - act

TearInv == Requested /\ Alternates

LEMMA TearInit == Init => TearInv
  BY DEF Init, Drm!Init, TearInv, Requested, Alternates, Drm!Buffers, Drm!NoBuffer

LEMMA TearNext == TearInv /\ [Drm!Next]_(Drm!vars) => TearInv'
<1> SUFFICES ASSUME TearInv, [Drm!Next]_(Drm!vars) PROVE TearInv'
  OBVIOUS
<1> USE DEF TearInv, Requested, Alternates, Drm!Buffers, Drm!NoBuffer, Drm!kernel, Drm!lvgl
<1>1. CASE UNCHANGED Drm!vars BY <1>1 DEF Drm!vars
<1>2. CASE Drm!SetUp BY <1>2 DEF Drm!SetUp
<1>3. CASE Drm!InitDisplay BY <1>3 DEF Drm!InitDisplay
<1>4. CASE \E t \in Drm!Threads : Drm!Runs(t) BY <1>4 DEF Drm!Runs
<1>5. CASE \E s \in {"release", "acquire"} : Drm!Deliver(s) BY <1>5 DEF Drm!Deliver
<1>6. CASE Drm!TimerHandler BY <1>6 DEF Drm!TimerHandler, Drm!Goes
<1>7. CASE Drm!RefrStart BY <1>7 DEF Drm!RefrStart, Drm!Goes
<1>8. CASE Drm!FlushWait BY <1>8 DEF Drm!FlushWait
<1>9. CASE Drm!Render BY <1>9 DEF Drm!Render, Drm!Goes
<1>10. CASE Drm!Flush
  <2>1. act' \in Drm!Buffers /\ act = 1 - act' /\ ~req /\ flushing' /\ pc' = "sleep"
    BY <1>10 DEF Drm!Flush, Drm!Goes
  <2>2. UNCHANGED <<event, screen>>
    BY <1>10 DEF Drm!Flush
  <2>3. CASE paused
    BY <1>10, <2>1, <2>2, <2>3 DEF Drm!Flush
  <2>4. CASE ~paused
    <3>1. active' = Drm!NoBuffer /\ (~late' => active = act) /\ Drm!SetPlane /\ active # Drm!NoBuffer
      BY <1>10, <2>4 DEF Drm!Flush, Drm!Goes
    <3>2. CASE failed'
      BY <2>1, <2>2, <3>1, <3>2 DEF Drm!SetPlane
    <3>3. CASE ~failed'
      <4>1. pending' = active /\ failed' = failed /\ req'
        BY <3>1, <3>3 DEF Drm!SetPlane
      <4>2. pending = Drm!NoBuffer /\ ~event
        BY <2>1, <3>3, <4>1
      <4> QED BY <2>1, <2>2, <3>1, <3>3, <4>1, <4>2
    <3> QED BY <3>2, <3>3
  <2> QED BY <2>3, <2>4
<1>11. CASE Drm!HandleTty BY <1>11 DEF Drm!HandleTty
<1>12. CASE Drm!VBlank BY <1>12 DEF Drm!VBlank
<1>13. CASE Drm!Changes BY <1>13 DEF Drm!Changes, Drm!Goes
<1>14. CASE Drm!TerminalButton BY <1>14 DEF Drm!TerminalButton
<1>15. CASE \E to \in {"gui", "text"} : Drm!Press(to) BY <1>15 DEF Drm!Press
<1> QED
  BY <1>1, <1>2, <1>3, <1>4, <1>5, <1>6, <1>7, <1>8, <1>9, <1>10, <1>11, <1>12, <1>13, <1>14,
     <1>15 DEF Drm!Next, Drm!Lvgl, Drm!Keys, Drm!Threads

\* LVGL never draws into the buffer that is shown or about to be (drm.cpp), for any
\* number of frames and switches of the terminal, unless a commit failed or came
\* late because the drawing was paused.
THEOREM NothingTears == Spec => []NoTearing
<1>1. TearInv => NoTearing
  BY DEF TearInv, Requested, Alternates, NoTearing, Drm!NoTearing, Drm!Buffers, Drm!NoBuffer
<1> QED BY <1>1, TearInit, TearNext, StepOfPart, PTL DEF Spec

-----------------------------------------------------------------------------
(* Leaving.                                                                *)

\* While disks are loaded the page is covered; one that was left with neither the
\* cover over it nor on_hotplug at work has nothing behind it that would use it.
DiskSafe ==
  /\ (draws => load = "none")
  /\ (load # "none" \/ draws => spinner)
  /\ (gone # "" => ~listening)
  /\ (gone \notin {"", "covered", "handling"} => load = "none" /\ ~draws /\ adding = None /\ ~called)
  /\ (used => gone \in {"covered", "handling"})

LEMMA DiskStaysSafe == DiskSafe /\ [Disk!Next]_(Disk!vars) => DiskSafe'
<1> SUFFICES ASSUME DiskSafe, [Disk!Next]_(Disk!vars) PROVE DiskSafe'
  OBVIOUS
<1> USE DEF DiskSafe, Disk!Use, Disk!SetSpinner, Disk!kernel, Disk!events, Disk!list, Disk!Handles
<1>1. CASE UNCHANGED Disk!vars BY <1>1 DEF Disk!vars
<1>2. ASSUME NEW d \in Disks, Disk!Plug(d) PROVE DiskSafe'
  BY <1>2 DEF Disk!Plug
<1>3. ASSUME NEW d \in Disks, Disk!LoadDisk(d) PROVE DiskSafe'
  BY <1>3 DEF Disk!LoadDisk
<1>4. CASE Disk!LoadBegins BY <1>4 DEF Disk!LoadBegins
<1>5. CASE Disk!LoadEnds BY <1>5 DEF Disk!LoadEnds
<1>6. CASE Disk!LoadFails BY <1>6 DEF Disk!LoadFails
<1>7. CASE Disk!Draw BY <1>7 DEF Disk!Draw
<1>8. CASE Disk!Refresh BY <1>8 DEF Disk!Refresh
<1>9. ASSUME NEW i \in 1 .. Len(disks), Disk!Click(i) PROVE DiskSafe'
  BY <1>9 DEF Disk!Click
<1>10. ASSUME NEW how \in {"next", "back"}, Disk!Leave(how) PROVE DiskSafe'
  <2>1. UNCHANGED <<called, spinner, load, draws, adding, used>> /\ ~listening' /\ gone = ""
    BY <1>10 DEF Disk!Leave
  <2>2. /\ gone' \in {"covered", "handling", how}
        /\ gone' = how => ~called /\ adding = None /\ ~spinner
    BY <1>10 DEF Disk!Leave
  <2>3. ~used
    BY <2>1
  <2> QED BY <2>1, <2>2, <2>3
<1>11. CASE Disk!Unheard BY <1>11 DEF Disk!Unheard
<1>12. CASE Disk!HotplugAdd BY <1>12 DEF Disk!HotplugAdd
<1>13. CASE Disk!HotplugShows BY <1>13 DEF Disk!HotplugShows
<1>14. CASE Disk!HotplugRemove BY <1>14 DEF Disk!HotplugRemove
<1>15. CASE Disk!OnHotplug BY <1>15 DEF Disk!OnHotplug
<1> QED
  BY <1>1, <1>2, <1>3, <1>4, <1>5, <1>6, <1>7, <1>8, <1>9, <1>10, <1>11, <1>12, <1>13, <1>14, <1>15
     DEF Disk!Next

\* No entry points at an object that is gone while the page is there.
ImageSafe ==
  /\ imageGone = "" => \A i \in Items : cover[i] # "dead"
  /\ Image!CoversFindImages

LEMMA ImageStaysSafe == ImageSafe /\ [Image!Next]_(Image!vars) => ImageSafe'
<1> SUFFICES ASSUME ImageSafe, [Image!Next]_(Image!vars) PROVE ImageSafe'
  OBVIOUS
<1> USE DEF ImageSafe, Image!CoversFindImages, Image!Use
<1>1. CASE UNCHANGED Image!vars BY <1>1 DEF Image!vars
<1>2. CASE Image!LoadBegins BY <1>2 DEF Image!LoadBegins
<1>3. CASE Image!LoadEnds BY <1>3 DEF Image!LoadEnds
<1>4. CASE Image!LoadFails BY <1>4 DEF Image!LoadFails
<1>5. CASE Image!Refresh BY <1>5 DEF Image!Refresh
<1>6. ASSUME NEW new, Image!Populate(new) PROVE ImageSafe'
  BY <1>6 DEF Image!Populate, Image!PopulateImage, Image!Cleaned
<1>7. ASSUME NEW i \in Items, Image!ClickImage(i) PROVE ImageSafe'
  BY <1>7 DEF Image!ClickImage
<1>8. CASE \E i \in Items : Image!FetchCover(i) BY <1>8 DEF Image!FetchCover
<1>9. CASE \E i \in Items : Image!PutCover(i) BY <1>9 DEF Image!PutCover
<1>10. ASSUME NEW g \in Groups, Image!ClickGroup(g) PROVE ImageSafe'
  BY <1>10 DEF Image!ClickGroup
<1>11. CASE \E how \in {"next", "back"} : Image!Leave(how) BY <1>11 DEF Image!Leave
<1> QED
  BY <1>1, <1>2, <1>3, <1>4, <1>5, <1>6, <1>7, <1>8, <1>9, <1>10, <1>11 DEF Image!Next

\* A function of the pool or the event loop finds the page it works on, unless the
\* page was left by keyboard under its cover, or while on_hotplug was called and had
\* not ended (choose_disk); a cover finds its entry's object, unless the page was
\* left (choose_image): for any disks, images, groups and changes.
THEOREM PagesAreLeftSafely == Spec => []LeftSafely
<1>1. Init => DiskSafe /\ ImageSafe
  BY DEF Init, Disk!Init, Image!Init, DiskSafe, ImageSafe, Image!CoversFindImages
<1>2. DiskSafe /\ ImageSafe => LeftSafely
  BY DEF DiskSafe, ImageSafe, LeftSafely, Disk!LeftSafely
<1> QED BY <1>1, <1>2, StepOfPart, DiskStaysSafe, ImageStaysSafe, PTL DEF Spec

-----------------------------------------------------------------------------
(* Lending.                                                                *)

\* Where gadget_clean removes a kind of node: its place in Parts.
Rank(kind) ==
  CASE kind = "portLink" -> 1 [] kind = "port" -> 2 [] kind = "tpgt" -> 3 [] kind = "naa" -> 4
    [] kind = "fabric" -> 5 [] kind = "block" -> 6 [] kind = "scsi" -> 6 [] kind = "iblock" -> 7
    [] kind = "pscsi" -> 7 [] kind = "osLink" -> 9 [] kind = "configLink" -> 10
    [] kind = "configStrings" -> 11 [] kind = "config" -> 12 [] kind = "strings" -> 13
    [] kind = "lun" -> 14 [] kind = "function" -> 15 [] kind = "gadget" -> 16 [] OTHER -> 0

Kinds ==
  {"portLink", "port", "tpgt", "naa", "fabric", "block", "scsi", "iblock", "pscsi", "osLink",
   "configLink", "configStrings", "config", "strings", "lun", "function", "gadget"}
Nodes == Kinds \X Nat

LEMMA Ranked == \A kind \in Kinds : Rank(kind) \in 1 .. 16
  BY DEF Kinds, Rank

LEMMA PartsRanked ==
  /\ Len(Lend!Parts) = 16
  /\ \A j \in 1 .. 16, kind \in Kinds : Rank(kind) = j => kind \in Lend!Parts[j]
  /\ "udc" \in Lend!Parts[8]
<1>1. Len(Lend!Parts) = 16 /\ "udc" \in Lend!Parts[8]
  BY DEF Lend!Parts
<1>2. \A j \in 1 .. 16, kind \in Kinds : Rank(kind) = j => kind \in Lend!Parts[j]
  BY DEF Lend!Parts, Kinds, Rank
<1> QED BY <1>1, <1>2

\* What holds a node goes before it.
LEMMA HoldersFirst ==
  \A node \in Nodes, other \in Nodes : node \in Lend!Holders(other) => Rank(other[1]) < Rank(node[1])
<1> SUFFICES ASSUME NEW node \in Nodes, NEW other \in Nodes, node \in Lend!Holders(other)
             PROVE  Rank(other[1]) < Rank(node[1])
  OBVIOUS
<1>1. other[1] \in Kinds
  BY DEF Nodes
<1> QED BY <1>1 DEF Lend!Holders, Lend!One, Kinds, Rank

LEMMA BlocksAreNodes ==
  ASSUME Luns \in Nat PROVE Lend!UasDisks \in Seq(Nodes)
<1>1. \A n \in Nat : /\ Lend!Block(n) \in Nodes /\ <<"port", n>> \in Nodes /\ <<"portLink", n>> \in Nodes
  BY DEF Lend!Block, Nodes, Kinds
<1>2. \A k \in 1 .. 3 * Luns : (k + 2) \div 3 \in Nat /\ ((k + 2) % 3) + 1 \in 1 .. 3
  OBVIOUS
<1>3. \A n \in Nat, j \in 1 .. 3 : Lend!UasDisk(n)[j] \in Nodes
  BY <1>1 DEF Lend!UasDisk
<1>4. Lend!UasDisks \in [1 .. 3 * Luns -> Nodes]
  BY <1>2, <1>3 DEF Lend!UasDisks
<1>5. 3 * Luns \in Nat
  OBVIOUS
<1> QED BY <1>4, <1>5, SeqDef

\* What apply makes are nodes.
LEMMA BuildIsSeq == Lend!Build \in Seq(Nodes)
<1> DEFINE N == Nodes
<1>1. \A kind \in Kinds : Lend!One(kind) \in N
  BY DEF Lend!One, Nodes
<1>2. \A kind \in {"lun", "function", "configLink"}, n \in Nat : <<kind, n>> \in N
  BY DEF Nodes, Kinds
<1>3. /\ Lend!One("gadget") \in N /\ Lend!One("strings") \in N /\ Lend!One("config") \in N
      /\ Lend!One("configStrings") \in N /\ Lend!One("osLink") \in N /\ Lend!One("function") \in N
      /\ Lend!One("pscsi") \in N /\ Lend!One("iblock") \in N /\ Lend!One("fabric") \in N
      /\ Lend!One("naa") \in N /\ Lend!One("tpgt") \in N /\ Lend!One("configLink") \in N
  BY <1>1 DEF Kinds
<1> HIDE DEF N
<1>4. Lend!Single \in Seq(N)
  <2>1. [n \in Lend!Lent |-> <<"function", n>>] \in Seq(N)
    <3>1. [n \in 1 .. Luns |-> <<"function", n>>] \in [1 .. Luns -> N]
      BY <1>2
    <3> QED BY <3>1, PagesAssumption, SeqDef DEF Lend!Lent
  <2>2. [n \in Lend!Lent |-> <<"configLink", n>>] \in Seq(N)
    <3>1. [n \in 1 .. Luns |-> <<"configLink", n>>] \in [1 .. Luns -> N]
      BY <1>2
    <3> QED BY <3>1, PagesAssumption, SeqDef DEF Lend!Lent
  <2> QED BY <2>1, <2>2, ConcatProperties DEF Lend!Single
<1>5. Lend!Multi \in Seq(N)
  <2>1. [n \in 1 .. (Luns - 1) |-> <<"lun", n + 1>>] \in Seq(N)
    <3>1. [n \in 1 .. (Luns - 1) |-> <<"lun", n + 1>>] \in [1 .. (Luns - 1) -> N]
      BY <1>2
    <3>2. CASE Luns = 0
      <4> DEFINE f == [n \in 1 .. (Luns - 1) |-> <<"lun", n + 1>>]
      <4>1. 1 .. (Luns - 1) = 1 .. 0
        BY <3>2
      <4>2. f \in [1 .. 0 -> N]
        BY <3>1, <4>1
      <4> HIDE DEF f
      <4>3. f \in Seq(N)
        BY <4>2, SeqDef
      <4> QED BY <4>3 DEF f
    <3>3. CASE Luns - 1 \in Nat
      BY <3>1, <3>3, SeqDef
    <3> QED BY <3>2, <3>3, PagesAssumption
  <2>2. <<Lend!One("function")>> \in Seq(N) /\ <<Lend!One("configLink")>> \in Seq(N)
    BY <1>3
  <2> QED BY <2>1, <2>2, ConcatProperties DEF Lend!Multi
<1>6. Lend!Uas \in Seq(N)
  <2>1. <<Lend!One("function")>> \in Seq(N) /\ <<Lend!One("configLink")>> \in Seq(N)
    BY <1>3
  <2>2. (IF mode = "direct" THEN <<Lend!One("pscsi")>> ELSE <<>>) \in Seq(N)
    BY <1>3
  <2>3. <<Lend!One("iblock"), Lend!One("fabric"), Lend!One("naa"), Lend!One("tpgt")>> \in Seq(N)
    BY <1>3
  <2>4. Lend!UasDisks \in Seq(N)
    BY BlocksAreNodes, PagesAssumption DEF N
  <2> QED BY <2>1, <2>2, <2>3, <2>4, ConcatProperties DEF Lend!Uas
<1>7. <<Lend!One("gadget"), Lend!One("strings"), Lend!One("config"), Lend!One("configStrings")>> \in Seq(N)
  BY <1>3
<1>8. (IF osDesc THEN <<Lend!One("osLink")>> ELSE <<>>) \in Seq(N)
  BY <1>3
<1>9. (CASE mode = "multi" -> Lend!Multi [] mode = "single" -> Lend!Single [] OTHER -> Lend!Uas) \in Seq(N)
  BY <1>4, <1>5, <1>6
<1>10. Lend!Build \in Seq(N)
  BY <1>7, <1>8, <1>9, ConcatProperties DEF Lend!Build
<1> QED BY <1>10 DEF N

\* Nothing of the gadget is there.
Empty == tree = {} /\ ~bound

\* The page that lends is the only one that builds, and the others clean as they are
\* drawn, and are at rest with nothing left unless that threw.
Places ==
  /\ (page # "running" => work \in {"idle", "hook", "clean"})
  /\ (work \in {"hook", "clean"} => (page = "running" <=> why # "draw"))
  /\ (page # "running" /\ work = "idle" /\ ~threw => Empty)

\* What clean has been at is gone: a node goes after what holds it.
Cleaning ==
  /\ tree \subseteq Nodes
  /\ (work = "clean" => /\ stage \in 1 .. 17
                        /\ \A n \in tree : Rank(n[1]) >= stage
                        /\ (stage > 8 => ~bound))

\* What apply has made is the first part of Build, and all of it in the end.
Built(k) == {Lend!Build[j] : j \in 1 .. k}
Building ==
  /\ (work = "build" => stage \in 1 .. Len(Lend!Build) + 1 /\ tree = Built(stage - 1))
  /\ (work = "ready" => bound /\ tree = Lend!Whole)
  /\ (stop => work = "idle" /\ page = "running" /\ bound /\ tree = Lend!Whole)

LendInv == Places /\ Cleaning /\ Building

LEMMA LendInit == Init => LendInv
  BY DEF Init, Lend!Init, LendInv, Places, Cleaning, Building, Empty

\* What is built depends on the options only.
LEMMA BuildStays == UNCHANGED Lend!options => Lend!Build' = Lend!Build
  BY DEF Lend!options, Lend!Build, Lend!Multi, Lend!Single, Lend!Uas, Lend!UasDisks, Lend!UasDisk,
     Lend!Block, Lend!One, Lend!Lent

LEMMA CleanPartKeeps == LendInv /\ Lend!CleanPart => LendInv'
<1> SUFFICES ASSUME LendInv, Lend!CleanPart PROVE LendInv'
  OBVIOUS
<1>1. /\ work = "clean" /\ stage \in 1 .. 16 /\ stage' = stage + 1
      /\ UNCHANGED <<page, work, why, stop, threw>>
  BY PartsRanked DEF Lend!CleanPart, LendInv, Cleaning
<1>2. tree' = {n \in tree : ~(n[1] \in Lend!Parts[stage] /\ Lend!Removable(n))}
  BY DEF Lend!CleanPart
<1>3. tree \subseteq Nodes /\ \A n \in tree : n[1] \in Kinds /\ Rank(n[1]) \in 1 .. 16 /\ Rank(n[1]) >= stage
  BY <1>1, Ranked DEF LendInv, Cleaning, Nodes
<1>4. ASSUME NEW n \in tree' PROVE Rank(n[1]) >= stage + 1
  <2>1. n \in tree
    BY <1>2
  <2>2. SUFFICES ASSUME Rank(n[1]) = stage PROVE FALSE
    BY <1>1, <1>3, <2>1
  <2>3. n[1] \in Lend!Parts[stage]
    BY <1>1, <1>3, <2>1, <2>2, PartsRanked
  <2>4. PICK other \in tree : n \in Lend!Holders(other)
    BY <1>2, <2>3 DEF Lend!Removable
  <2>5. Rank(other[1]) < Rank(n[1])
    BY <1>3, <2>1, <2>4, HoldersFirst
  <2> QED BY <1>1, <1>3, <2>1, <2>2, <2>4, <2>5
<1>5. stage + 1 > 8 => ~bound'
  <2>1. bound' = (bound /\ "udc" \notin Lend!Parts[stage])
    BY DEF Lend!CleanPart
  <2>2. stage = 8 => ~bound'
    BY <2>1, PartsRanked
  <2>3. stage > 8 => ~bound'
    BY <1>1, <2>1 DEF LendInv, Cleaning
  <2> QED BY <1>1, <2>2, <2>3
<1>6. Cleaning'
  BY <1>1, <1>2, <1>3, <1>4, <1>5 DEF Cleaning
<1>7. Places' /\ Building'
  BY <1>1 DEF LendInv, Places, Building
<1> QED BY <1>6, <1>7 DEF LendInv

LEMMA CleanedKeeps == LendInv /\ Lend!Cleaned => LendInv'
<1> SUFFICES ASSUME LendInv, Lend!Cleaned PROVE LendInv'
  OBVIOUS
<1>1. /\ work = "clean" /\ stage = 17 /\ stage' = 1 /\ ~threw'
      /\ UNCHANGED <<tree, bound, page, why, stop>>
  BY PartsRanked DEF Lend!Cleaned, LendInv, Cleaning
<1>2. tree = {} /\ ~bound
  BY <1>1, Ranked DEF LendInv, Cleaning, Nodes
<1>3. work' \in {"build", "back"} \/ (why = "draw" /\ work' = "idle")
  BY DEF Lend!Cleaned, Lend!Ended
<1>4. (work' = "idle" => page # "running") /\ (page # "running" => work' = "idle")
  BY <1>1 DEF LendInv, Places, Lend!Cleaned, Lend!Ended
<1>5. Built(0) = {} /\ 1 \in 1 .. Len(Lend!Build) + 1
  BY BuildIsSeq, LenProperties DEF Built
<1>6. Places' /\ Cleaning'
  BY <1>1, <1>2, <1>3, <1>4 DEF LendInv, Places, Cleaning, Empty
<1>7. Building'
  <2>1. ~stop
    BY <1>1 DEF LendInv, Building
  <2>2. (stage \in 1 .. Len(Lend!Build) + 1)'
    BY <1>1, BuildStays, <1>5 DEF Lend!Cleaned
  <2>3. Built(stage - 1)' = {}
    <3>1. 1 .. (stage' - 1) = {}
      BY <1>1
    <3> QED BY <3>1 DEF Built
  <2>4. work' # "ready"
    BY <1>3
  <2> QED BY <1>1, <1>2, <2>1, <2>2, <2>3, <2>4 DEF Building
<1> QED BY <1>6, <1>7 DEF LendInv

LEMMA BuildKeeps == LendInv /\ (Lend!BuildStep \/ Lend!Bind) => LendInv'
<1> SUFFICES ASSUME LendInv, Lend!BuildStep \/ Lend!Bind PROVE LendInv'
  OBVIOUS
<1> DEFINE n == Len(Lend!Build)
<1>1. /\ work = "build" /\ page = "running" /\ ~stop /\ stage \in 1 .. n + 1 /\ tree = Built(stage - 1)
      /\ tree \subseteq Nodes
  BY DEF LendInv, Places, Cleaning, Building, Lend!BuildStep, Lend!Bind
<1>2. Lend!Build' = Lend!Build /\ UNCHANGED <<page, why, stop, threw>>
  BY BuildStays DEF Lend!BuildStep, Lend!Bind
<1>3. n \in Nat /\ DOMAIN Lend!Build = 1 .. n /\ \A j \in 1 .. n : Lend!Build[j] \in Nodes
  BY BuildIsSeq, LenProperties, ElementOfSeq
<1> HIDE DEF n
<1>4. CASE work' = "back" /\ UNCHANGED tree
  BY <1>1, <1>2, <1>4 DEF LendInv, Places, Cleaning, Building
<1>5. CASE work' = "build" /\ stage \in 1 .. n /\ tree' = tree \cup {Lend!Build[stage]} /\ stage' = stage + 1
  <2>1. tree' = {Lend!Build[j] : j \in 1 .. stage}
    <3>1. 1 .. stage = (1 .. (stage - 1)) \cup {stage}
      BY <1>1
    <3> QED BY <1>1, <1>5, <3>1 DEF Built
  <2>2. (tree = Built(stage - 1))'
    <3>1. stage' - 1 = stage
      BY <1>1, <1>5
    <3> QED BY <1>2, <2>1, <3>1 DEF Built
  <2>3. (stage \in 1 .. Len(Lend!Build) + 1)'
    BY <1>2, <1>3, <1>5 DEF n
  <2>4. tree' \subseteq Nodes
    BY <1>1, <1>3, <1>5
  <2>5. Places' /\ Cleaning'
    BY <1>1, <1>2, <1>5, <2>4 DEF Places, Cleaning
  <2> QED BY <1>1, <1>2, <1>5, <2>2, <2>3, <2>5 DEF LendInv, Building
<1>6. CASE work' = "ready" /\ bound' /\ stage = n + 1 /\ UNCHANGED tree
  <2>1. stage - 1 = n
    BY <1>1, <1>3, <1>6
  <2>2. tree = {Lend!Build[j] : j \in 1 .. n}
    BY <1>1, <2>1 DEF Built
  <2>3. tree = Lend!Whole
    BY <1>3, <2>2 DEF Lend!Whole, Lend!ToSet
  <2>4. Lend!Whole' = Lend!Whole
    BY <1>2 DEF Lend!Whole
  <2> QED BY <1>1, <1>2, <1>6, <2>3, <2>4 DEF LendInv, Places, Cleaning, Building
<1>7. CASE Lend!BuildStep
  <2>1. stage <= n
    BY <1>7 DEF Lend!BuildStep, n
  <2> QED BY <1>1, <1>3, <1>4, <1>5, <1>7, <2>1 DEF Lend!BuildStep
<1>8. CASE Lend!Bind
  <2>1. stage > n
    BY <1>8 DEF Lend!Bind, n
  <2>2. stage = n + 1
    BY <1>1, <1>3, <2>1
  <2> QED BY <1>4, <1>6, <1>8, <2>2 DEF Lend!Bind
<1> QED BY <1>7, <1>8

LEMMA LendNext == LendInv /\ [Lend!Next]_(Lend!vars) => LendInv'
<1> SUFFICES ASSUME LendInv, [Lend!Next]_(Lend!vars) PROVE LendInv'
  OBVIOUS
<1>1. CASE UNCHANGED Lend!vars
  <2>1. Lend!Build' = Lend!Build
    BY <1>1, BuildStays DEF Lend!vars, Lend!options
  <2> QED BY <1>1, <2>1 DEF Lend!vars, LendInv, Places, Cleaning, Building, Empty, Built, Lend!Whole
<1>2. CASE Lend!Enter
  BY <1>2 DEF Lend!Enter, Lend!Draws, LendInv, Places, Cleaning, Building, Empty
<1>3. CASE Lend!Back
  BY <1>3 DEF Lend!Back, LendInv, Places, Cleaning, Building, Empty
<1>4. ASSUME NEW m, NEW s, Lend!Start(m, s) PROVE LendInv'
  <2>1. ~stop
    BY <1>4 DEF Lend!Start, LendInv, Building
  <2> QED BY <1>4, <2>1 DEF Lend!Start, LendInv, Places, Cleaning, Building, Empty
<1>5. CASE Lend!Stop
  BY <1>5 DEF Lend!Stop, LendInv, Places, Cleaning, Building, Empty
<1>6. CASE Lend!HookThrows
  BY <1>6 DEF Lend!HookThrows, Lend!Throws, Lend!Ended, LendInv, Places, Cleaning, Building, Empty
<1>7. CASE Lend!Hooked
  <2>1. Cleaning'
    BY <1>7, Ranked DEF Lend!Hooked, LendInv, Cleaning, Nodes
  <2> QED BY <1>7, <2>1 DEF Lend!Hooked, LendInv, Places, Building, Empty
<1>8. CASE Lend!UnbindThrows
  BY <1>8 DEF Lend!UnbindThrows, Lend!Throws, Lend!Ended, LendInv, Places, Cleaning, Building, Empty
<1>9. CASE Lend!Ready
  <2>1. Lend!Whole' = Lend!Whole
    BY <1>9, BuildStays DEF Lend!Ready, Lend!Whole
  <2> QED BY <1>9, <2>1 DEF Lend!Ready, LendInv, Places, Cleaning, Building, Empty
<1>10. CASE Lend!BackToOptions
  BY <1>10 DEF Lend!BackToOptions, Lend!Draws, LendInv, Places, Cleaning, Building, Empty
<1> QED
  BY <1>1, <1>2, <1>3, <1>4, <1>5, <1>6, <1>7, <1>8, <1>9, <1>10, CleanPartKeeps, CleanedKeeps,
     BuildKeeps DEF Lend!Next, Lend!Working

\* Wherever the building of a gadget failed, a clean that comes to its end takes down
\* all of it, and the page that says it runs has all of it bound (configfs, start.cpp,
\* stop.cpp), for any number of disks.
THEOREM NothingIsLeft == Spec => []NothingRemains
<1>1. LendInv => NothingRemains
  BY DEF LendInv, Places, Building, Empty, NothingRemains, Lend!NothingRemains
<1> QED BY <1>1, LendInit, LendNext, StepOfPart, PTL DEF Spec

-----------------------------------------------------------------------------
(* Lists of disks.                                                         *)

\* A set of natural numbers has a least one.
LEMMA Least ==
  ASSUME NEW T \in SUBSET Nat, T # {}
  PROVE  \E x \in T : \A y \in T : x <= y
<1> DEFINE R == OpToRel(<, Nat)
<1>1. IsWellFoundedOn(R, Nat)
  BY NatLessThanWellFounded
<1>2. \A x, y \in Nat : y < x => <<y, x>> \in R
  BY DEF OpToRel
<1> HIDE DEF R
<1>3. PICK x \in T : \A y \in T : ~(<<y, x>> \in R)
  BY <1>1, WFMin
<1>4. ASSUME NEW y \in T PROVE x <= y
  <2>1. ~(<<y, x>> \in R) /\ x \in Nat /\ y \in Nat
    BY <1>3
  <2>2. ~(y < x)
    BY <1>2, <2>1
  <2> QED BY <2>1, <2>2
<1> QED BY <1>4

\* An entry is taken out: the ones behind it move up.
LEMMA WithoutOne ==
  ASSUME NEW S, NEW s \in Seq(S), NEW i \in 1 .. Len(s)
  PROVE  /\ Disk!RemoveAt(s, i) \in Seq(S) /\ Len(Disk!RemoveAt(s, i)) = Len(s) - 1
         /\ \A k \in 1 .. Len(s) - 1 : Disk!RemoveAt(s, i)[k] = IF k < i THEN s[k] ELSE s[k + 1]
<1> DEFINE a == SubSeq(s, 1, i - 1)
           b == SubSeq(s, i + 1, Len(s))
<1>1. i \in Int /\ 1 <= i /\ i <= Len(s) /\ Len(s) \in Nat
  BY LenProperties
<1>2. a \in Seq(S) /\ Len(a) = i - 1 /\ \A k \in 1 .. i - 1 : a[k] = s[k]
  <2>1. \A k \in 1 .. i - 1 : s[k] \in S
    BY <1>1
  <2> HIDE DEF a
  <2>2. /\ a \in Seq(S) /\ Len(a) = IF 1 <= i - 1 THEN i - 1 - 1 + 1 ELSE 0
        /\ \A k \in 1 .. i - 1 - 1 + 1 : a[k] = s[1 + k - 1]
    BY <1>1, <2>1, SubSeqProperties DEF a
  <2> QED BY <1>1, <2>2
<1>3. b \in Seq(S) /\ Len(b) = Len(s) - i /\ \A k \in 1 .. Len(s) - i : b[k] = s[k + i]
  <2>1. \A k \in i + 1 .. Len(s) : s[k] \in S
    BY <1>1
  <2> HIDE DEF b
  <2>2. /\ b \in Seq(S) /\ Len(b) = IF i + 1 <= Len(s) THEN Len(s) - (i + 1) + 1 ELSE 0
        /\ \A k \in 1 .. Len(s) - (i + 1) + 1 : b[k] = s[i + 1 + k - 1]
    BY <1>1, <2>1, SubSeqProperties DEF b
  <2> QED BY <1>1, <2>2
<1>4. Disk!RemoveAt(s, i) = a \o b
  BY DEF Disk!RemoveAt
<1> HIDE DEF a, b
<1>5. /\ a \o b \in Seq(S) /\ Len(a \o b) = Len(a) + Len(b)
      /\ \A k \in 1 .. Len(a) + Len(b) : (a \o b)[k] = IF k <= Len(a) THEN a[k] ELSE b[k - Len(a)]
  BY <1>2, <1>3, ConcatProperties
<1>6. ASSUME NEW k \in 1 .. Len(s) - 1 PROVE (a \o b)[k] = IF k < i THEN s[k] ELSE s[k + 1]
  <2>1. CASE k < i
    BY <1>1, <1>2, <1>3, <1>5, <2>1
  <2>2. CASE ~(k < i)
    <3>1. k - (i - 1) \in 1 .. Len(s) - i /\ k - (i - 1) + i = k + 1
      BY <1>1, <2>2
    <3>2. (a \o b)[k] = b[k - (i - 1)]
      BY <1>1, <1>2, <1>3, <1>5, <2>2
    <3> QED BY <1>3, <2>2, <3>1, <3>2
  <2> QED BY <2>1, <2>2
<1> QED BY <1>1, <1>2, <1>3, <1>4, <1>5, <1>6

\* Where a disk is in a list.
LEMMA PlaceIs ==
  ASSUME NEW S, NEW l \in Seq(S), NEW d
  PROVE  /\ Disk!Place(l, d) \in 0 .. Len(l)
         /\ Disk!Place(l, d) # 0 => l[Disk!Place(l, d)] = d
         /\ Disk!Place(l, d) = 0 => d \notin Disk!ToSet(l)
<1> DEFINE I == {i \in 1 .. Len(l) : l[i] = d}
<1>1. Disk!Place(l, d) = IF I # {} THEN Disk!Min(I) ELSE 0
  BY DEF Disk!Place, Disk!SelectInSeq
<1>2. Len(l) \in Nat /\ I \subseteq Nat
  BY LenProperties
<1>3. CASE I # {}
  <2>1. \E i \in I : \A j \in I : i <= j
    <3> HIDE DEF I
    <3> QED BY <1>2, <1>3, Least
  <2>2. Disk!Min(I) \in I
    BY <2>1 DEF Disk!Min
  <2> QED BY <1>1, <1>2, <1>3, <2>2
<1>4. CASE I = {}
  BY <1>1, <1>2, <1>4, LenProperties DEF Disk!ToSet
<1> QED BY <1>3, <1>4

\* What is in a list, and that it is there once.
LEMMA Members ==
  ASSUME NEW S, NEW s \in Seq(S)
  PROVE  /\ \A x : x \in Disk!ToSet(s) <=> \E i \in 1 .. Len(s) : s[i] = x
         /\ IsInjective(s) <=> \A i, j \in 1 .. Len(s) : s[i] = s[j] => i = j
         /\ Len(s) \in Nat /\ DOMAIN s = 1 .. Len(s)
BY LenProperties DEF Disk!ToSet, IsInjective

\* A disk is added at the end, or taken out.
LEMMA OneMoreDisk ==
  ASSUME NEW S, NEW s \in Seq(S), NEW x \in S
  PROVE  /\ Append(s, x) \in Seq(S) /\ Len(Append(s, x)) = Len(s) + 1
         /\ \A i \in 1 .. Len(s) : Append(s, x)[i] = s[i]
         /\ Disk!ToSet(Append(s, x)) = Disk!ToSet(s) \cup {x}
         /\ IsInjective(s) /\ x \notin Disk!ToSet(s) => IsInjective(Append(s, x))
<1> DEFINE t == Append(s, x)
           n == Len(s)
<1>1. /\ t \in Seq(S) /\ Len(t) = n + 1 /\ n \in Nat /\ t[n + 1] = x
      /\ \A i \in 1 .. n : t[i] = s[i]
  BY AppendProperties, LenProperties
<1> HIDE DEF t, n
<1>2. Disk!ToSet(t) = Disk!ToSet(s) \cup {x}
  <2>1. ASSUME NEW y PROVE y \in Disk!ToSet(t) <=> y \in Disk!ToSet(s) \cup {x}
    <3>1. (\E i \in 1 .. n + 1 : t[i] = y) <=> (\E i \in 1 .. n : s[i] = y) \/ y = x
      BY <1>1
    <3> QED BY <1>1, <3>1, Members DEF n
  <2> QED BY <2>1
<1>3. ASSUME IsInjective(s), x \notin Disk!ToSet(s) PROVE IsInjective(t)
  <2>1. \A i, j \in 1 .. n : s[i] = s[j] => i = j
    BY <1>3, Members DEF n
  <2>2. \A i \in 1 .. n : s[i] # x
    BY <1>3, Members DEF n
  <2>3. \A i, j \in 1 .. n + 1 : t[i] = t[j] => i = j
    BY <1>1, <2>1, <2>2
  <2> QED BY <1>1, <2>3, Members
<1> QED BY <1>1, <1>2, <1>3 DEF t, n

LEMMA OneDiskLess ==
  ASSUME NEW S, NEW s \in Seq(S), NEW i \in 1 .. Len(s), IsInjective(s)
  PROVE  /\ IsInjective(Disk!RemoveAt(s, i))
         /\ Disk!ToSet(Disk!RemoveAt(s, i)) = Disk!ToSet(s) \ {s[i]}
<1> DEFINE t == Disk!RemoveAt(s, i)
           n == Len(s)
<1>1. /\ t \in Seq(S) /\ Len(t) = n - 1 /\ n \in Nat /\ i \in 1 .. n
      /\ \A k \in 1 .. n - 1 : t[k] = IF k < i THEN s[k] ELSE s[k + 1]
  BY WithoutOne, LenProperties
<1> HIDE DEF t, n
<1>2. \A j, k \in 1 .. n : s[j] = s[k] => j = k
  BY Members DEF n
<1>3. \A j, k \in 1 .. n - 1 : t[j] = t[k] => j = k
  <2> TAKE j, k \in 1 .. n - 1
  <2> HAVE t[j] = t[k]
  <2> DEFINE a == IF j < i THEN j ELSE j + 1
             b == IF k < i THEN k ELSE k + 1
  <2>1. a \in 1 .. n /\ b \in 1 .. n /\ t[j] = s[a] /\ t[k] = s[b]
    BY <1>1
  <2>2. a = b
    <3> HIDE DEF a, b
    <3> QED BY <1>2, <2>1
  <2> QED BY <1>1, <2>2
<1>4. Disk!ToSet(t) = Disk!ToSet(s) \ {s[i]}
  <2>1. ASSUME NEW k \in 1 .. n - 1 PROVE \E j \in 1 .. n : j # i /\ s[j] = t[k]
    <3>1. CASE k < i
      BY <1>1, <3>1
    <3>2. CASE ~(k < i)
      <4>1. k + 1 \in 1 .. n /\ k + 1 # i
        BY <1>1, <3>2
      <4> QED BY <1>1, <3>2, <4>1
    <3> QED BY <3>1, <3>2
  <2>2. ASSUME NEW j \in 1 .. n, j # i PROVE \E k \in 1 .. n - 1 : s[j] = t[k]
    <3>1. CASE j < i
      <4>1. j \in 1 .. n - 1
        BY <1>1, <3>1
      <4> QED BY <1>1, <3>1, <4>1
    <3>2. CASE i < j
      <4>1. j - 1 \in 1 .. n - 1 /\ ~(j - 1 < i) /\ (j - 1) + 1 = j
        BY <1>1, <3>2
      <4>2. t[j - 1] = s[j]
        BY <1>1, <4>1
      <4> QED BY <4>1, <4>2
    <3> QED BY <1>1, <2>2, <3>1, <3>2
  <2>3. ASSUME NEW y PROVE y \in Disk!ToSet(t) <=> y \in Disk!ToSet(s) \ {s[i]}
    <3>1. y \in Disk!ToSet(t) <=> \E k \in 1 .. n - 1 : t[k] = y
      BY <1>1, Members
    <3>2. y \in Disk!ToSet(s) <=> \E j \in 1 .. n : s[j] = y
      BY Members DEF n
    <3>3. ASSUME NEW k \in 1 .. n - 1, t[k] = y PROVE (\E j \in 1 .. n : s[j] = y) /\ y # s[i]
      <4>1. PICK j \in 1 .. n : j # i /\ s[j] = t[k]
        BY <2>1
      <4> QED BY <1>1, <1>2, <3>3, <4>1
    <3>4. ASSUME NEW j \in 1 .. n, s[j] = y, y # s[i] PROVE \E k \in 1 .. n - 1 : t[k] = y
      <4>1. PICK k \in 1 .. n - 1 : s[j] = t[k]
        BY <2>2, <3>4
      <4> QED BY <3>4, <4>1
    <3> QED BY <3>1, <3>2, <3>3, <3>4
  <2> QED BY <2>3
<1>5. IsInjective(t)
  BY <1>1, <1>3, Members
<1> QED BY <1>4, <1>5 DEF t

\* A list without repetitions is as long as there are disks in it.
LEMMA LenIsCount ==
  ASSUME NEW S, NEW s \in Seq(S), IsInjective(s)
  PROVE  Len(s) = Cardinality(Disk!ToSet(s))
<1> DEFINE n == Len(s)
           T == Disk!ToSet(s)
<1>1. n \in Nat /\ DOMAIN s = 1 .. n /\ s \in [1 .. n -> S]
  BY LenProperties
<1>2. \A x : x \in T <=> \E i \in 1 .. n : s[i] = x
  BY Members
<1>3. \A i, j \in 1 .. n : s[i] = s[j] => i = j
  BY Members
<1> HIDE DEF n, T
<1>4. s \in Bijection(1 .. n, T)
  <2>1. s \in [1 .. n -> T]
    BY <1>1, <1>2
  <2> QED BY <2>1, <1>2, <1>3 DEF Bijection, Injection, Surjection
<1>5. ExistsBijection(1 .. n, T)
  BY <1>4 DEF ExistsBijection
<1>6. Cardinality(T) = n
  BY <1>1, <1>5, FS_CountingElements
<1> QED BY <1>6 DEF n, T

-----------------------------------------------------------------------------
(* The list of disks.                                                      *)

Events == {"add", "remove"} \X Disks

DiskTypes ==
  /\ data \in Seq(Disks) /\ disks \in Seq(Disks) /\ uevents \in Seq(Events)
  /\ present \subseteq Disks /\ todo \subseteq Disks
  /\ selected \in 0 .. Len(disks) /\ adding \in Disks \cup {None}
  /\ called => uevents # <<>> /\ adding = None

\* The places of a disk's events; they alternate and end with what it is.
Pending(d) == {i \in 1 .. Len(uevents) : uevents[i][2] = d}
Differ(i, j, d) ==
  j < i /\ (\A k \in Pending(d) : ~(j < k /\ k < i)) => uevents[i][1] # uevents[j][1]
Ends(i, d) == (\A j \in Pending(d) : j <= i) => (uevents[i][1] = "add" <=> d \in present)
Trail(d) == \A i \in Pending(d) : Ends(i, d) /\ \A j \in Pending(d) : Differ(i, j, d)

\* With no event to come the list is right about a disk, and before an "add" it
\* is not listed.
Listed(d) == d \in Disk!ToSet(disks) \/ adding = d
Adds(d) == \E i \in Pending(d) : (\A j \in Pending(d) : i <= j) /\ uevents[i][1] = "add"
Follows(d) ==
  /\ Pending(d) = {} => (Listed(d) <=> d \in present)
  /\ Adds(d) => ~Listed(d)

\* What is selected is what was chosen.
Chosen ==
  /\ selected # 0 => disks[selected] = chosen
  /\ next => selected # 0

\* A load that nothing came between has so far found what is there; after it each
\* event is waited for.
Scanned == Disk!ToSet(data) = present \ (IF load = "scan" THEN todo ELSE {})
Fresh ==
  ~stale /\ gone = "" =>
    /\ Disk!Loading => uevents = <<>> /\ adding = None /\ IsInjective(data) /\ Scanned
    /\ load = "none" /\ ~draws =>
         /\ listening /\ IsInjective(disks) /\ adding \notin Disk!ToSet(disks)
         /\ \A d \in Disks : Trail(d) /\ Follows(d)

DiskInv == DiskSafe /\ DiskTypes /\ Chosen /\ Fresh

\* Another event of a disk.
LEMMA EventComes ==
  ASSUME DiskTypes, NEW d \in Disks, NEW what \in {"add", "remove"},
         uevents' = Append(uevents, <<what, d>>), NEW p \in Disks,
         UNCHANGED <<disks, adding>>, p # d => (p \in present' <=> p \in present),
         d \in present' <=> what = "add", what = "add" <=> d \notin present,
         Trail(p), Follows(p)
  PROVE  Trail(p)' /\ Follows(p)'
<1> DEFINE e == <<what, d>>
<1>0. PICK n : n = Len(uevents)
  OBVIOUS
<1>1. e \in Events /\ e[1] = what /\ e[2] = d
  BY DEF Events
<1> HIDE DEF e
<1>2. uevents \in Seq(Events) /\ n \in Nat
  BY <1>0, LenProperties DEF DiskTypes
<1>3. /\ Len(uevents') = n + 1 /\ uevents'[n + 1] = e
      /\ \A i \in 1 .. n : uevents'[i] = uevents[i]
  BY <1>0, <1>1, <1>2, AppendProperties DEF e
<1>4. Pending(p)' = Pending(p) \cup (IF p = d THEN {n + 1} ELSE {}) /\ Pending(p) \subseteq 1 .. n
  BY <1>0, <1>1, <1>2, <1>3 DEF Pending
<1>5. \A i \in Pending(p) : uevents'[i] = uevents[i]
  BY <1>3, <1>4
<1>6. Listed(p)' <=> Listed(p)
  BY DEF Listed
<1>7. CASE p # d
  <2>1. Pending(p)' = Pending(p) /\ (p \in present' <=> p \in present)
    BY <1>4, <1>7
  <2>2. Trail(p)'
    <3>1. ASSUME NEW i \in Pending(p) PROVE Ends(i, p)'
      <4>1. Ends(i, p)
        BY DEF Trail
      <4> QED BY <1>5, <2>1, <4>1 DEF Ends
    <3>2. ASSUME NEW i \in Pending(p), NEW j \in Pending(p) PROVE Differ(i, j, p)'
      <4>1. Differ(i, j, p)
        BY DEF Trail
      <4>2. uevents'[i] = uevents[i] /\ uevents'[j] = uevents[j]
        BY <1>5
      <4> QED BY <2>1, <4>1, <4>2 DEF Differ
    <3> QED BY <2>1, <3>1, <3>2 DEF Trail
  <2>3. Adds(p)' <=> Adds(p)
    BY <1>5, <2>1 DEF Adds
  <2> QED BY <1>6, <2>1, <2>2, <2>3 DEF Follows
<1>8. CASE p = d
  <2>1. Pending(p)' = Pending(p) \cup {n + 1}
    BY <1>4, <1>8
  <2>2. ASSUME NEW i \in Pending(p), NEW j \in Pending(p)' PROVE Ends(i, p)' /\ Differ(i, j, p)'
    <3>1. i <= n /\ i \in Int /\ n \in Nat
      BY <1>2, <1>4
    <3>0. n + 1 \in Pending(p)' /\ ~(n + 1 <= i)
      BY <2>1, <3>1
    <3>2. Ends(i, p)'
      BY <3>0 DEF Ends
    <3>3. CASE j = n + 1
      BY <3>1, <3>2, <3>3 DEF Differ
    <3>4. CASE j \in Pending(p)
      <4>1. Differ(i, j, p)
        BY <2>2, <3>4 DEF Trail
      <4>2. uevents'[i] = uevents[i] /\ uevents'[j] = uevents[j]
        BY <1>5, <2>2, <3>4
      <4> QED BY <2>1, <3>2, <4>1, <4>2 DEF Differ
    <3> QED BY <2>1, <2>2, <3>2, <3>3, <3>4
  <2>3. Ends(n + 1, p)'
    BY <1>1, <1>3, <1>8 DEF Ends
  <2>4. ASSUME NEW j \in Pending(p)' PROVE Differ(n + 1, j, p)'
    <3> SUFFICES ASSUME j < n + 1, \A k \in Pending(p)' : ~(j < k /\ k < n + 1)
                 PROVE  uevents'[n + 1][1] # uevents'[j][1]
      BY DEF Differ
    <3>1. j \in Pending(p) /\ \A k \in Pending(p) : k <= j
      BY <1>2, <1>4, <2>1
    <3>2. uevents[j][1] = "add" <=> p \in present
      BY <3>1 DEF Trail, Ends
    <3> QED BY <1>1, <1>3, <1>5, <1>8, <3>1, <3>2
  <2>5. Trail(p)'
    BY <2>1, <2>2, <2>3, <2>4 DEF Trail
  <2>6. ASSUME Adds(p)' PROVE ~Listed(p)
    <3>1. PICK i \in Pending(p)' : (\A j \in Pending(p)' : i <= j) /\ uevents'[i][1] = "add"
      BY <2>6 DEF Adds
    <3>2. CASE i \in Pending(p)
      BY <1>5, <2>1, <3>1, <3>2 DEF Adds, Follows
    <3>3. CASE i = n + 1
      <4>1. Pending(p) = {}
        BY <1>2, <1>4, <2>1, <3>1, <3>3
      <4>2. p \notin present
        BY <1>1, <1>3, <1>8, <3>1, <3>3
      <4> QED BY <4>1, <4>2 DEF Follows
    <3> QED BY <2>1, <3>2, <3>3
  <2>7. Follows(p)'
    BY <1>6, <2>1, <2>6 DEF Follows
  <2> QED BY <2>5, <2>7
<1> QED BY <1>7, <1>8

\* An event is taken out: those that stay keep their order.
LEMMA EventGoes ==
  ASSUME DiskTypes, uevents # <<>>, uevents' = Tail(uevents), present' = present, NEW p, Trail(p)
  PROVE  /\ uevents' \in Seq(Events) /\ Head(uevents) \in Events /\ Trail(p)'
         /\ Head(uevents)[2] # p => (Pending(p)' = {} <=> Pending(p) = {}) /\ (Adds(p)' => Adds(p))
         /\ Head(uevents)[2] = p =>
              /\ Pending(p)' = {} => (Head(uevents)[1] = "add" <=> p \in present)
              /\ Head(uevents)[1] = "add" => Adds(p) /\ ~Adds(p)'
<1> DEFINE n == Len(uevents)
<1>1. uevents \in Seq(Events) /\ n \in Nat \ {0} /\ Head(uevents) = uevents[1]
  BY LenProperties, EmptySeq DEF DiskTypes
<1>2. /\ uevents' \in Seq(Events) /\ Head(uevents) \in Events /\ Len(uevents') = n - 1
      /\ \A i \in 1 .. n - 1 : uevents'[i] = uevents[i + 1]
  BY <1>1, HeadTailProperties
<1> HIDE DEF n
<1>4. \A i \in Pending(p)' : i \in 1 .. n - 1 /\ i + 1 \in Pending(p) /\ uevents'[i] = uevents[i + 1]
  BY <1>1, <1>2 DEF Pending, n
<1>5. \A i \in Pending(p) : i \in 1 .. n /\ (i # 1 => i - 1 \in Pending(p)' /\ uevents'[i - 1] = uevents[i])
  <2> SUFFICES ASSUME NEW i \in Pending(p), i # 1
               PROVE  i - 1 \in Pending(p)' /\ uevents'[i - 1] = uevents[i]
    BY <1>1 DEF Pending, n
  <2>1. i - 1 \in 1 .. n - 1 /\ (i - 1) + 1 = i
    BY <1>1 DEF Pending, n
  <2>2. uevents'[i - 1] = uevents[i]
    BY <1>2, <2>1
  <2> QED BY <1>2, <2>1, <2>2 DEF Pending
<1>6. 1 \in Pending(p) <=> uevents[1][2] = p
  BY <1>1 DEF Pending, n
<1>7. Trail(p)'
  <2>1. ASSUME NEW i \in Pending(p)' PROVE Ends(i, p)'
    <3>1. ASSUME \A j \in Pending(p)' : j <= i PROVE \A j \in Pending(p) : j <= i + 1
      BY <1>1, <1>4, <1>5, <3>1
    <3>2. Ends(i + 1, p)
      BY <1>4 DEF Trail
    <3> QED BY <1>4, <3>1, <3>2 DEF Ends
  <2>2. ASSUME NEW i \in Pending(p)', NEW j \in Pending(p)', j < i, \A k \in Pending(p)' : ~(j < k /\ k < i)
        PROVE  uevents'[i][1] # uevents'[j][1]
    <3>1. i + 1 \in Pending(p) /\ j + 1 \in Pending(p) /\ j + 1 < i + 1 /\ i \in 1 .. n - 1 /\ j \in 1 .. n - 1
      BY <1>4, <2>2
    <3>2. \A k \in Pending(p) : ~(j + 1 < k /\ k < i + 1)
      <4> SUFFICES ASSUME NEW k \in Pending(p), j + 1 < k, k < i + 1 PROVE FALSE
        OBVIOUS
      <4>1. k # 1 /\ k \in 1 .. n
        BY <1>5, <3>1
      <4>2. k - 1 \in Pending(p)' /\ j < k - 1 /\ k - 1 < i
        BY <1>5, <3>1, <4>1
      <4> QED BY <2>2, <4>2
    <3>3. Differ(i + 1, j + 1, p)
      BY <3>1 DEF Trail
    <3> QED BY <1>4, <3>1, <3>2, <3>3 DEF Differ
  <2> QED BY <2>1, <2>2 DEF Trail, Differ
<1>8. ASSUME uevents[1][2] # p PROVE (Pending(p)' = {} <=> Pending(p) = {}) /\ (Adds(p)' => Adds(p))
  <2>1. 1 \notin Pending(p)
    BY <1>6, <1>8
  <2>2. Pending(p)' = {} <=> Pending(p) = {}
    BY <1>4, <1>5, <2>1
  <2>3. ASSUME NEW i \in Pending(p)', \A k \in Pending(p)' : i <= k, uevents'[i][1] = "add" PROVE Adds(p)
    <3>1. i + 1 \in Pending(p) /\ uevents[i + 1][1] = "add" /\ i \in 1 .. n - 1
      BY <1>4, <2>3
    <3>2. \A k \in Pending(p) : i + 1 <= k
      <4> TAKE k \in Pending(p)
      <4>1. k - 1 \in Pending(p)' /\ k \in 1 .. n
        BY <1>5, <2>1
      <4>2. i <= k - 1
        BY <2>3, <4>1
      <4> QED BY <3>1, <4>1, <4>2
    <3> QED BY <3>1, <3>2 DEF Adds
  <2> QED BY <2>2, <2>3 DEF Adds
<1>9. ASSUME uevents[1][2] = p
      PROVE  /\ Pending(p)' = {} => (uevents[1][1] = "add" <=> p \in present)
             /\ uevents[1][1] = "add" => Adds(p) /\ ~Adds(p)'
  <2>1. 1 \in Pending(p) /\ \A k \in Pending(p) : 1 <= k
    BY <1>5, <1>6, <1>9
  <2>2. ASSUME Pending(p)' = {} PROVE uevents[1][1] = "add" <=> p \in present
    <3>1. \A k \in Pending(p) : k = 1
      BY <1>5, <2>2
    <3> QED BY <2>1, <3>1 DEF Trail, Ends
  <2>3. ASSUME uevents[1][1] = "add", NEW i \in Pending(p)', \A k \in Pending(p)' : i <= k, uevents'[i][1] = "add"
        PROVE  FALSE
    <3>1. i + 1 \in Pending(p) /\ uevents[i + 1][1] = "add" /\ i \in 1 .. n - 1
      BY <1>4, <2>3
    <3>2. \A k \in Pending(p) : ~(1 < k /\ k < i + 1)
      <4> SUFFICES ASSUME NEW k \in Pending(p), 1 < k, k < i + 1 PROVE FALSE
        OBVIOUS
      <4>1. k - 1 \in Pending(p)' /\ k \in 1 .. n
        BY <1>5
      <4>2. i <= k - 1
        BY <2>3, <4>1
      <4> QED BY <3>1, <4>1, <4>2
    <3>3. Differ(i + 1, 1, p) /\ 1 < i + 1
      BY <2>1, <3>1 DEF Trail
    <3> QED BY <2>3, <3>1, <3>2, <3>3 DEF Differ
  <2>4. uevents[1][1] = "add" => Adds(p)
    BY <2>1 DEF Adds
  <2> QED BY <2>2, <2>3, <2>4 DEF Adds
<1> QED BY <1>1, <1>2, <1>7, <1>8, <1>9

\* It holds at first, and says what is to be shown.
LEMMA DiskInit == Init => DiskInv
<1> SUFFICES ASSUME Init PROVE DiskInv
  OBVIOUS
<1>1. /\ present \subseteq Disks /\ uevents = <<>> /\ data = <<>> /\ disks = <<>> /\ selected = 0
      /\ next = FALSE /\ spinner = TRUE /\ load = "queued" /\ todo = {} /\ draws = FALSE
      /\ adding = None /\ listening = FALSE /\ gone = "" /\ used = FALSE /\ called = FALSE
  BY DEF Init, Disk!Init
<1>2. <<>> \in Seq(Disks) /\ Len(<<>>) = 0 /\ <<>> \in Seq(Events)
  OBVIOUS
<1>3. DiskTypes
  <2>1. data \in Seq(Disks) /\ disks \in Seq(Disks) /\ uevents \in Seq(Events)
    BY <1>1, <1>2
  <2>2. Len(disks) = 0 /\ selected = 0
    BY <1>1, <1>2
  <2> HIDE DEF Init
  <2>3. selected \in 0 .. Len(disks) /\ present \subseteq Disks /\ todo \subseteq Disks /\ adding \in Disks \cup {None}
    <3>1. 0 \in 0 .. 0
      OBVIOUS
    <3>2. present \subseteq Disks /\ todo \subseteq Disks /\ adding \in Disks \cup {None}
      BY <1>1
    <3> QED BY <2>2, <3>1, <3>2
  <2>4. ~called
    BY <1>1
  <2> QED BY <2>1, <2>3, <2>4 DEF DiskTypes
<1>4. DiskSafe /\ Chosen /\ Fresh
  BY <1>1 DEF DiskSafe, Chosen, Fresh, Disk!Loading
<1> QED BY <1>3, <1>4 DEF DiskInv

LEMMA ListIsRight == DiskInv => Disk!ListIsTrue
<1> SUFFICES ASSUME DiskInv PROVE Disk!ListIsTrue
  OBVIOUS
<1>1. selected # 0 => selected <= Len(disks) /\ disks[selected] = chosen
  BY LenProperties DEF DiskInv, DiskTypes, Chosen
<1>2. ASSUME gone = "", ~stale, load = "none", ~draws, uevents = <<>>, adding = None
      PROVE  Disk!ToSet(disks) = present /\ Len(disks) = Disk!Cardinality(present)
  <2>1. IsInjective(disks) /\ \A d \in Disks : Pending(d) = {} => (Listed(d) <=> d \in present)
    BY <1>2 DEF DiskInv, Fresh, Follows
  <2>2. \A d \in Disks : Pending(d) = {}
    <3>1. Len(uevents) = 0
      BY <1>2
    <3> QED BY <3>1 DEF Pending
  <2>3. \A d \in Disks : d \in Disk!ToSet(disks) <=> d \in present
    BY <1>2, <2>1, <2>2, PagesAssumption DEF Listed
  <2>4. disks \in Seq(Disks) /\ present \subseteq Disks
    BY DEF DiskInv, DiskTypes
  <2>5. Disk!ToSet(disks) \subseteq Disks
    BY <2>4, LenProperties DEF Disk!ToSet
  <2>6. Disk!ToSet(disks) = present
    BY <2>3, <2>4, <2>5
  <2>7. Disk!Cardinality(present) = Cardinality(present)
    BY DEF Disk!Cardinality, Cardinality
  <2> QED BY <2>1, <2>4, <2>6, <2>7, LenIsCount
<1>3. (next => selected # 0) /\ (~spinner => load = "none" /\ ~draws)
  BY DEF DiskInv, Chosen, DiskSafe
<1> QED BY <1>1, <1>2, <1>3 DEF Disk!ListIsTrue

\* Every step keeps it: the types, what is selected, and the list.
LEMMA DiskTypesNext == DiskTypes /\ [Disk!Next]_(Disk!vars) => DiskTypes'
<1> SUFFICES ASSUME DiskTypes, [Disk!Next]_(Disk!vars) PROVE DiskTypes'
  OBVIOUS
<1> USE DEF Disk!kernel, Disk!events, Disk!list, Disk!Handles
<1>0. /\ data \in Seq(Disks) /\ disks \in Seq(Disks) /\ uevents \in Seq(Events)
      /\ present \subseteq Disks /\ todo \subseteq Disks
      /\ selected \in 0 .. Len(disks) /\ adding \in Disks \cup {None} /\ Len(disks) \in Nat
      /\ called => uevents # <<>> /\ adding = None
  BY LenProperties DEF DiskTypes
<1>e. ASSUME uevents # <<>> PROVE Tail(uevents) \in Seq(Events) /\ Head(uevents)[2] \in Disks
  <2>1. Tail(uevents) \in Seq(Events) /\ Head(uevents) \in Events
    BY <1>0, <1>e, HeadTailProperties
  <2> QED BY <2>1 DEF Events
<1>1. CASE UNCHANGED Disk!vars BY <1>1 DEF Disk!vars, DiskTypes
<1>2. ASSUME NEW d \in Disks, Disk!Plug(d) PROVE DiskTypes'
  <2>1. UNCHANGED <<called, data, disks, selected, todo, adding>> /\ present' \subseteq Disks
    BY <1>0, <1>2 DEF Disk!Plug
  <2>2. PICK e \in Events : uevents' = Append(uevents, e)
    BY <1>2 DEF Disk!Plug, Events
  <2>3. uevents' \in Seq(Events) /\ uevents' # <<>>
    BY <1>0, <2>2, AppendProperties
  <2> QED BY <1>0, <2>1, <2>3 DEF DiskTypes
<1>3. ASSUME NEW d \in Disks, Disk!LoadDisk(d) PROVE DiskTypes'
  <2>1. UNCHANGED <<called, disks, uevents, present, selected, adding>> /\ todo' \subseteq Disks
    BY <1>0, <1>3 DEF Disk!LoadDisk
  <2>2. data' = data \/ data' = Append(data, d)
    BY <1>3 DEF Disk!LoadDisk
  <2>3. Append(data, d) \in Seq(Disks)
    BY <1>0, AppendProperties
  <2>4. data' \in Seq(Disks)
    BY <1>0, <2>2, <2>3
  <2> QED BY <1>0, <2>1, <2>4 DEF DiskTypes
<1>4. CASE Disk!LoadBegins
  <2>1. data' \in Seq(Disks) /\ todo' \subseteq Disks
    BY <1>4 DEF Disk!LoadBegins, Disk!Clears
  <2> QED BY <1>0, <1>4, <2>1 DEF Disk!LoadBegins, DiskTypes
<1>5. CASE Disk!LoadEnds BY <1>0, <1>5 DEF Disk!LoadEnds, DiskTypes
<1>6. CASE Disk!LoadFails BY <1>0, <1>6 DEF Disk!LoadFails, DiskTypes
<1>7. CASE Disk!Draw
  <2>1. disks' = data /\ UNCHANGED <<called, data, uevents, present, todo, adding>>
        /\ selected' = Disk!Place(data, last)
    BY <1>7 DEF Disk!Draw, Disk!Picks
  <2>2. selected' \in 0 .. Len(data)
    BY <1>0, <2>1, PlaceIs
  <2> QED BY <1>0, <2>1, <2>2 DEF DiskTypes
<1>8. CASE Disk!Refresh BY <1>0, <1>8 DEF Disk!Refresh, DiskTypes
<1>9. ASSUME NEW i \in 1 .. Len(disks), Disk!Click(i) PROVE DiskTypes'
  <2>1. selected' \in {0, i} /\ UNCHANGED <<called, disks, data, uevents, present, todo, adding>>
    BY <1>9 DEF Disk!Click, Disk!Picks
  <2>2. selected' \in 0 .. Len(disks)
    BY <1>0, <2>1
  <2> QED BY <1>0, <2>1, <2>2 DEF DiskTypes
<1>10. CASE \E how \in {"next", "back"} : Disk!Leave(how)
  <2>1. UNCHANGED <<called, data, disks, uevents, present, todo, selected, adding>>
    BY <1>10 DEF Disk!Leave
  <2> QED BY <1>0, <2>1 DEF DiskTypes
<1>11. CASE Disk!Unheard
  BY <1>0, <1>e, <1>11 DEF Disk!Unheard, DiskTypes
<1>12. CASE Disk!HotplugAdd
  <2>1. /\ called /\ ~called' /\ uevents' = Tail(uevents) /\ UNCHANGED <<disks, selected, present, todo>>
        /\ \/ adding' = Head(uevents)[2] /\ data' = Append(data, Head(uevents)[2])
           \/ UNCHANGED <<adding, data>>
    BY <1>12 DEF Disk!HotplugAdd
  <2>2. data' \in Seq(Disks) /\ adding' \in Disks \cup {None}
    <3>1. Append(data, Head(uevents)[2]) \in Seq(Disks)
      BY <1>0, <1>e, <2>1, AppendProperties
    <3> QED BY <1>0, <1>e, <2>1, <3>1
  <2> QED BY <1>0, <1>e, <2>1, <2>2 DEF DiskTypes
<1>13. CASE Disk!HotplugShows
  <2>1. /\ adding \in Disks /\ adding' = None /\ disks' = Append(disks, adding)
        /\ UNCHANGED <<called, data, uevents, selected, present, todo>>
    BY <1>0, <1>13 DEF Disk!HotplugShows, Disk!DrawDiskItem
  <2>2. disks' \in Seq(Disks) /\ Len(disks') = Len(disks) + 1
    BY <1>0, <2>1, AppendProperties
  <2>3. selected' \in 0 .. Len(disks')
    BY <1>0, <2>1, <2>2
  <2> QED BY <1>0, <2>1, <2>2, <2>3 DEF DiskTypes
<1>14. CASE Disk!HotplugRemove
  <2> DEFINE i == Disk!Place(disks, Head(uevents)[2])
  <2>1. /\ called /\ ~called' /\ uevents' = Tail(uevents)
        /\ UNCHANGED <<data, present, todo, adding>>
        /\ i = 0 => UNCHANGED <<disks, selected>>
        /\ i # 0 => /\ disks' = Disk!RemoveAt(disks, i)
                    /\ selected' = IF selected = i THEN 0
                             ELSE IF selected > i THEN selected - 1 ELSE selected
    BY <1>14 DEF Disk!HotplugRemove
  <2>2. i \in 0 .. Len(disks)
    BY <1>0, PlaceIs
  <2> HIDE DEF i
  <2>3. disks' \in Seq(Disks) /\ selected' \in 0 .. Len(disks')
    <3>1. CASE i = 0 BY <1>0, <2>1, <3>1
    <3>2. CASE i # 0
      <4>1. i \in 1 .. Len(disks)
        BY <1>0, <2>2, <3>2
      <4>2. disks' \in Seq(Disks) /\ Len(disks') = Len(disks) - 1
        BY <1>0, <2>1, <3>2, <4>1, WithoutOne
      <4> QED BY <1>0, <2>1, <3>2, <4>1, <4>2
    <3> QED BY <3>1, <3>2
  <2> QED BY <1>0, <1>e, <2>1, <2>3 DEF DiskTypes
<1>15. CASE Disk!OnHotplug
  BY <1>0, <1>15 DEF Disk!OnHotplug, DiskTypes
<1> QED
  BY <1>1, <1>2, <1>3, <1>4, <1>5, <1>6, <1>7, <1>8, <1>9, <1>10, <1>11, <1>12, <1>13, <1>14, <1>15
     DEF Disk!Next

LEMMA ChosenNext ==
  ASSUME DiskTypes, Chosen, [Disk!Next]_(Disk!vars)
  PROVE  Chosen'
<1> USE DEF Disk!kernel, Disk!events, Disk!list, Disk!Handles, Chosen
<1>0. /\ data \in Seq(Disks) /\ disks \in Seq(Disks)
      /\ selected \in 0 .. Len(disks) /\ adding \in Disks \cup {None} /\ Len(disks) \in Nat
  BY LenProperties DEF DiskTypes
<1>1. CASE UNCHANGED Disk!vars BY <1>1 DEF Disk!vars
<1>2. ASSUME NEW d \in Disks, Disk!Plug(d) PROVE Chosen'
  BY <1>2 DEF Disk!Plug
<1>3. ASSUME NEW d \in Disks, Disk!LoadDisk(d) PROVE Chosen'
  BY <1>3 DEF Disk!LoadDisk
<1>4. CASE Disk!LoadBegins BY <1>4 DEF Disk!LoadBegins
<1>5. CASE Disk!LoadEnds BY <1>5 DEF Disk!LoadEnds
<1>6. CASE Disk!LoadFails BY <1>6 DEF Disk!LoadFails, Disk!SetSpinner
<1>7. CASE Disk!Draw
  BY <1>7 DEF Disk!Draw, Disk!Picks, Disk!SetSpinner
<1>8. CASE Disk!Refresh BY <1>8 DEF Disk!Refresh, Disk!SetSpinner
<1>9. ASSUME NEW i \in 1 .. Len(disks), Disk!Click(i) PROVE Chosen'
  <2>1. disks' = disks /\ Disk!Picks(IF selected = i THEN 0 ELSE i)
        /\ next' = (selected' # 0)
    BY <1>9 DEF Disk!Click
  <2>2. selected' # 0 => disks'[selected'] = chosen'
    BY <2>1 DEF Disk!Picks
  <2>3. next' => selected' # 0
    BY <2>1
  <2> HIDE DEF Chosen
  <2> QED BY <2>2, <2>3 DEF Chosen
<1>10. ASSUME NEW how, Disk!Leave(how) PROVE Chosen'
  <2>1. UNCHANGED <<disks, selected, chosen, next>>
    BY <1>10 DEF Disk!Leave
  <2> QED BY <2>1
<1>11. CASE Disk!Unheard BY <1>11 DEF Disk!Unheard
<1>12. CASE Disk!HotplugAdd BY <1>12 DEF Disk!HotplugAdd
<1>13. CASE Disk!HotplugShows
  <2>1. /\ adding \in Disks /\ disks' = Append(disks, adding)
        /\ UNCHANGED <<selected, chosen, next>>
    BY <1>0, <1>13 DEF Disk!HotplugShows, Disk!DrawDiskItem
  <2>2. \A i \in 1 .. Len(disks) : disks'[i] = disks[i]
    BY <1>0, <2>1, AppendProperties
  <2>3. selected # 0 => disks'[selected] = disks[selected]
    BY <1>0, <2>2
  <2> QED BY <2>1, <2>3
<1>14. CASE Disk!HotplugRemove
  <2> DEFINE i == Disk!Place(disks, Head(uevents)[2])
  <2>1. /\ i = 0 => UNCHANGED <<disks, selected, chosen, next>>
        /\ i # 0 => /\ disks' = Disk!RemoveAt(disks, i)
                    /\ selected' = IF selected = i THEN 0
                             ELSE IF selected > i THEN selected - 1 ELSE selected
                    /\ chosen' = IF selected = i THEN None ELSE chosen
                    /\ next' = (next /\ selected # i)
    BY <1>14 DEF Disk!HotplugRemove
  <2>2. i \in 0 .. Len(disks)
    BY <1>0, PlaceIs
  <2> HIDE DEF i
  <2>3. CASE i = 0 BY <2>1, <2>3
  <2>4. CASE i # 0
    <3>1. i \in 1 .. Len(disks)
      BY <1>0, <2>2, <2>4
    <3>2. \A k \in 1 .. Len(disks) - 1 : disks'[k] = IF k < i THEN disks[k] ELSE disks[k + 1]
      BY <1>0, <2>1, <2>4, <3>1, WithoutOne
    <3>3. ASSUME selected' # 0 PROVE disks'[selected'] = chosen'
      <4>1. selected # i /\ selected \in 1 .. Len(disks) /\ chosen' = chosen /\ disks[selected] = chosen
        BY <1>0, <2>1, <2>4, <3>1, <3>3
      <4>2. CASE selected > i
        <5>1. selected' = selected - 1 /\ selected - 1 \in 1 .. Len(disks) - 1
              /\ ~(selected - 1 < i) /\ (selected - 1) + 1 = selected
          BY <1>0, <2>1, <2>4, <3>1, <4>1, <4>2
        <5>2. disks'[selected - 1] = disks[selected]
          BY <3>2, <5>1
        <5> QED BY <4>1, <5>1, <5>2
      <4>3. CASE ~(selected > i)
        <5>1. selected' = selected /\ selected \in 1 .. Len(disks) - 1 /\ selected < i
          BY <1>0, <2>1, <2>4, <3>1, <4>1, <4>3
        <5>2. disks'[selected] = disks[selected]
          BY <3>2, <5>1
        <5> QED BY <4>1, <5>1, <5>2
      <4> QED BY <4>2, <4>3
    <3>4. next' => selected' # 0
      <4>1. next' => next /\ selected # i
        BY <2>1, <2>4
      <4>2. selected # 0 /\ selected # i => selected' # 0
        BY <1>0, <2>1, <2>4, <3>1
      <4> QED BY <4>1, <4>2
    <3> QED BY <3>3, <3>4
  <2> QED BY <2>3, <2>4
<1>15. CASE Disk!OnHotplug BY <1>15 DEF Disk!OnHotplug
<1> QED
  BY <1>1, <1>2, <1>3, <1>4, <1>5, <1>6, <1>7, <1>8, <1>9, <1>10, <1>11, <1>12, <1>13, <1>14, <1>15
     DEF Disk!Next

\* Nothing that the lists and the events are made of changes.
LEMMA Quiet ==
  ASSUME NEW p, UNCHANGED <<uevents, present, disks, adding>>, Trail(p), Follows(p)
  PROVE  Trail(p)' /\ Follows(p)'
BY DEF Trail, Ends, Differ, Follows, Adds, Listed, Pending

\* The list at rest, and the three actions of the event loop on it.
Rested ==
  /\ IsInjective(disks) /\ adding \notin Disk!ToSet(disks)
  /\ \A d \in Disks : Trail(d) /\ Follows(d)

LEMMA AddRests ==
  ASSUME DiskTypes, Rested, Disk!HotplugAdd, ~stale'
  PROVE  Rested'
<1> DEFINE d == Head(uevents)[2]
<1>1. /\ uevents # <<>> /\ uevents' = Tail(uevents) /\ Head(uevents)[1] = "add"
      /\ adding = None /\ UNCHANGED <<disks, present>>
      /\ d \in present => adding' = d
      /\ adding' \in {d, adding}
  BY DEF DiskTypes, Disk!HotplugAdd, Disk!Handles, Disk!kernel, Disk!list
<1>2. d \in Disks
  <2>1. Head(uevents) \in Events
    BY <1>1, HeadTailProperties DEF DiskTypes
  <2> QED BY <2>1 DEF Events
<1>3. \A p \in Disks : Trail(p) /\ Follows(p)
  BY DEF Rested
<1>4. \A p \in Disks : p # d => (Listed(p)' <=> Listed(p))
  BY <1>1, PagesAssumption DEF Listed
<1>5. Adds(d) /\ ~Listed(d)
  <2>1. Adds(d)
    BY <1>1, <1>2, <1>3, EventGoes
  <2> QED BY <1>2, <1>3, <2>1 DEF Follows
<1> HIDE DEF d
<1>6. adding' \notin Disk!ToSet(disks')
  <2>1. adding \notin Disk!ToSet(disks)
    BY DEF Rested
  <2> QED BY <1>1, <1>5, <2>1 DEF Listed
<1>7. ASSUME NEW p \in Disks PROVE Trail(p)' /\ Follows(p)'
  <2>1. /\ Trail(p)'
        /\ d # p => (Pending(p)' = {} <=> Pending(p) = {}) /\ (Adds(p)' => Adds(p))
        /\ d = p => (Pending(p)' = {} => p \in present) /\ ~Adds(p)'
    BY <1>1, <1>3, EventGoes DEF d
  <2>2. CASE d # p
    BY <1>1, <1>3, <1>4, <2>1, <2>2 DEF Follows
  <2>3. CASE d = p
    <3>1. Pending(p)' = {} => p \in present' /\ Listed(p)'
      BY <1>1, <2>1, <2>3 DEF Listed
    <3> QED BY <2>1, <2>3, <3>1 DEF Follows
  <2> QED BY <2>1, <2>2, <2>3
<1>8. IsInjective(disks')
  BY <1>1 DEF Rested
<1> QED BY <1>6, <1>7, <1>8 DEF Rested

LEMMA ShowsRests ==
  ASSUME DiskTypes, Rested, Disk!HotplugShows
  PROVE  Rested'
<1>1. /\ adding \in Disks /\ adding' = None /\ disks' = Append(disks, adding) /\ disks \in Seq(Disks)
      /\ UNCHANGED <<uevents, present>>
  BY DEF Disk!HotplugShows, Disk!DrawDiskItem, Disk!kernel, Disk!events, DiskTypes
<1>2. /\ disks' \in Seq(Disks) /\ Disk!ToSet(disks') = Disk!ToSet(disks) \cup {adding}
      /\ IsInjective(disks')
  BY <1>1, OneMoreDisk DEF Rested
<1>3. Disk!ToSet(disks') \subseteq Disks
  BY <1>2, LenProperties DEF Disk!ToSet
<1>4. \A p \in Disks : Listed(p)' <=> Listed(p)
  BY <1>1, <1>2, PagesAssumption DEF Listed
<1>5. ASSUME NEW p \in Disks PROVE Trail(p)' /\ Follows(p)'
  <2>1. Trail(p) /\ Follows(p)
    BY DEF Rested
  <2>2. Pending(p)' = Pending(p)
    BY <1>1 DEF Pending
  <2>3. Adds(p)' <=> Adds(p)
    BY <1>1, <2>2 DEF Adds
  <2>4. Trail(p)'
    BY <1>1, <2>1 DEF Trail, Ends, Differ, Pending
  <2> QED BY <1>1, <1>4, <2>1, <2>2, <2>3, <2>4 DEF Follows
<1> QED BY <1>1, <1>2, <1>3, <1>5, PagesAssumption DEF Rested

LEMMA RemoveRests ==
  ASSUME DiskTypes, Rested, Disk!HotplugRemove
  PROVE  Rested'
<1> DEFINE d == Head(uevents)[2]
           i == Disk!Place(disks, d)
<1>1. /\ uevents # <<>> /\ uevents' = Tail(uevents) /\ Head(uevents)[1] = "remove"
      /\ adding = None /\ UNCHANGED <<present, adding>>
      /\ i = 0 => disks' = disks
      /\ i # 0 => disks' = Disk!RemoveAt(disks, i)
  BY DEF DiskTypes, Disk!HotplugRemove, Disk!Handles, Disk!kernel, Disk!list
<1>2. disks \in Seq(Disks) /\ Len(disks) \in Nat
  BY LenProperties DEF DiskTypes
<1>3. i \in 0 .. Len(disks) /\ (i # 0 => disks[i] = d) /\ (i = 0 => d \notin Disk!ToSet(disks))
  BY <1>2, PlaceIs
<1>4. \A p \in Disks : Trail(p) /\ Follows(p)
  BY DEF Rested
<1> HIDE DEF i
<1>5. IsInjective(disks') /\ Disk!ToSet(disks') = Disk!ToSet(disks) \ {d}
  <2>1. CASE i = 0
    BY <1>1, <1>3, <2>1 DEF Rested
  <2>2. CASE i # 0
    <3>1. i \in 1 .. Len(disks)
      BY <1>2, <1>3, <2>2
    <3> QED BY <1>1, <1>2, <1>3, <2>2, <3>1, OneDiskLess DEF Rested
  <2> QED BY <2>1, <2>2
<1>6. ASSUME NEW p \in Disks PROVE Trail(p)' /\ Follows(p)'
  <2>1. Trail(p) /\ Follows(p)
    BY <1>4
  <2>2. /\ Trail(p)'
        /\ d # p => (Pending(p)' = {} <=> Pending(p) = {}) /\ (Adds(p)' => Adds(p))
        /\ d = p => (Pending(p)' = {} => p \notin present)
    BY <1>1, <2>1, EventGoes
  <2> HIDE DEF d
  <2>3. Listed(p)' <=> Listed(p) /\ p # d
    BY <1>1, <1>5, PagesAssumption DEF Listed
  <2>4. CASE d # p
    BY <1>1, <2>1, <2>2, <2>3, <2>4 DEF Follows
  <2>5. CASE d = p
    BY <1>1, <2>2, <2>3, <2>5 DEF Follows
  <2> QED BY <2>2, <2>4, <2>5
<1> QED BY <1>1, <1>5, <1>6 DEF Rested

LEMMA FreshNext ==
  ASSUME DiskTypes, DiskSafe, Fresh, [Disk!Next]_(Disk!vars)
  PROVE  Fresh'
<1> USE DEF Disk!kernel, Disk!events, Disk!list, Disk!Loading
<1> DEFINE Loads == uevents = <<>> /\ adding = None /\ IsInjective(data) /\ Scanned
<1>0. ASSUME ~stale, gone = ""
      PROVE  /\ (load = "scan" \/ draws) => Loads
             /\ load = "none" /\ ~draws => listening /\ Rested
  BY <1>0 DEF Fresh, Rested
<1>f. SUFFICES ASSUME ~stale', gone' = ""
               PROVE  Fresh'
  BY DEF Fresh
<1>t. /\ data \in Seq(Disks) /\ disks \in Seq(Disks) /\ uevents \in Seq(Events)
      /\ present \subseteq Disks /\ todo \subseteq Disks
  BY DEF DiskTypes
<1>q. ASSUME UNCHANGED <<uevents, present, disks, adding>>, Rested PROVE Rested'
  BY <1>q, Quiet DEF Rested
<1>l. ASSUME UNCHANGED <<uevents, adding, data, present, load, todo>>, Loads PROVE Loads'
  BY <1>l DEF Scanned
<1>1. CASE UNCHANGED Disk!vars
  <2>1. UNCHANGED <<stale, gone, load, draws, listening, uevents, adding, data, present, todo, disks>>
    BY <1>1 DEF Disk!vars
  <2>2. /\ (load' = "scan" \/ draws') => Loads'
        /\ load' = "none" /\ ~draws' => listening' /\ Rested'
    BY <1>0, <1>f, <1>q, <1>l, <2>1
  <2> QED BY <2>2 DEF Fresh, Rested
<1>2. ASSUME NEW d \in Disks, Disk!Plug(d) PROVE Fresh'
  <2>1. /\ ~stale /\ ~(load = "scan" \/ draws) /\ UNCHANGED <<disks, adding, load, draws, listening, gone>>
    BY <1>2, <1>f DEF Disk!Plug
  <2>2. PICK what \in {"add", "remove"} :
          /\ uevents' = Append(uevents, <<what, d>>) /\ (d \in present' <=> what = "add")
          /\ (what = "add" <=> d \notin present) /\ \A p : p # d => (p \in present' <=> p \in present)
    BY <1>2 DEF Disk!Plug
  <2>3. ASSUME Rested PROVE Rested'
    <3>1. ASSUME NEW p \in Disks PROVE Trail(p)' /\ Follows(p)'
      <4>1. Trail(p) /\ Follows(p)
        BY <2>3 DEF Rested
      <4> QED BY <2>1, <2>2, <4>1, EventComes
    <3> QED BY <2>1, <2>3, <3>1 DEF Rested
  <2> QED BY <1>0, <1>f, <2>1, <2>3 DEF Fresh, Rested
<1>3. ASSUME NEW d \in Disks, Disk!LoadDisk(d) PROVE Fresh'
  <2>1. /\ load = "scan" /\ ~stale /\ d \in todo /\ todo' = todo \ {d}
        /\ UNCHANGED <<uevents, adding, present, load, gone>>
        /\ \/ d \in present /\ data' = Append(data, d)
           \/ d \notin present /\ data' = data
    BY <1>3, <1>f DEF Disk!LoadDisk, Disk!Reads
  <2>2. uevents = <<>> /\ adding = None /\ IsInjective(data) /\ Disk!ToSet(data) = present \ todo
    BY <1>0, <1>f, <2>1 DEF Scanned
  <2>3. IsInjective(data') /\ Disk!ToSet(data') = present \ todo'
    <3>1. CASE d \in present /\ data' = Append(data, d)
      BY <1>t, <2>1, <2>2, <3>1, OneMoreDisk
    <3>2. CASE d \notin present /\ data' = data
      BY <2>1, <2>2, <3>2
    <3> QED BY <2>1, <3>1, <3>2
  <2>4. Loads' /\ load' = "scan"
    BY <2>1, <2>2, <2>3 DEF Scanned
  <2> QED BY <1>f, <2>4 DEF Fresh, Rested
<1>4. CASE Disk!LoadBegins
  <2>1. /\ load' = "scan" /\ data' = <<>> /\ todo' = Disks /\ uevents = <<>> /\ adding = None
        /\ UNCHANGED <<uevents, adding, present>>
    BY <1>4, <1>f DEF Disk!LoadBegins, Disk!Clears
  <2>2. Disk!ToSet(<<>>) = {} /\ IsInjective(<<>>)
    BY DEF Disk!ToSet, IsInjective
  <2>3. Loads'
    BY <1>t, <2>1, <2>2 DEF Scanned
  <2> QED BY <2>1, <2>3 DEF Fresh, Rested
<1>5. CASE Disk!LoadEnds
  <2>1. /\ load = "scan" /\ todo = {} /\ draws' /\ load' = "none" /\ ~stale /\ gone = ""
        /\ UNCHANGED <<uevents, adding, data, present, todo>>
    BY <1>5, <1>f DEF Disk!LoadEnds
  <2>2. Loads'
    BY <1>0, <2>1 DEF Scanned
  <2> QED BY <2>1, <2>2 DEF Fresh, Rested
<1>6. CASE Disk!LoadFails BY <1>6, <1>f DEF Disk!LoadFails
<1>7. CASE Disk!Draw
  <2>1. /\ draws /\ ~draws' /\ disks' = data /\ listening' /\ ~stale /\ gone = ""
        /\ UNCHANGED <<uevents, adding, present, load>>
    BY <1>7, <1>f DEF Disk!Draw
  <2>2. load = "none"
    BY <2>1 DEF DiskSafe
  <2>3. uevents' = <<>> /\ adding' = None /\ IsInjective(disks') /\ Disk!ToSet(disks') = present'
    BY <1>0, <2>1, <2>2 DEF Scanned
  <2>4. \A p \in Disks : Pending(p)' = {}
    <3>1. Len(uevents') = 0
      BY <2>3
    <3> QED BY <3>1 DEF Pending
  <2>5. \A p \in Disks : Trail(p)' /\ Follows(p)'
    BY <2>3, <2>4, PagesAssumption DEF Trail, Follows, Listed, Adds
  <2>6. Rested'
    BY <1>t, <2>1, <2>3, <2>5, PagesAssumption DEF Rested
  <2> QED BY <2>1, <2>2, <2>6 DEF Fresh, Rested
<1>8. CASE Disk!Refresh
  <2>1. load' = "queued" /\ ~draws'
    BY <1>8 DEF Disk!Refresh, DiskSafe
  <2> QED BY <2>1 DEF Fresh
<1>9. ASSUME NEW i, Disk!Click(i) PROVE Fresh'
  <2>1. UNCHANGED <<stale, gone, load, draws, listening, uevents, adding, data, present, todo, disks>>
    BY <1>9 DEF Disk!Click
  <2>2. /\ (load' = "scan" \/ draws') => Loads'
        /\ load' = "none" /\ ~draws' => listening' /\ Rested'
    BY <1>0, <1>f, <1>q, <1>l, <2>1
  <2> QED BY <2>2 DEF Fresh, Rested
<1>10. ASSUME NEW how \in {"next", "back"}, Disk!Leave(how) PROVE Fresh'
  BY <1>10, <1>f DEF Disk!Leave
<1>11. CASE Disk!Unheard
  <2>1. ~stale /\ gone = "" /\ ~listening /\ uevents # <<>> /\ UNCHANGED <<load, draws>>
    BY <1>11, <1>f DEF Disk!Unheard
  <2> QED BY <1>0, <2>1 DEF Fresh
<1>12. CASE Disk!HotplugAdd
  <2>1. ~stale /\ gone = "" /\ uevents # <<>> /\ UNCHANGED <<load, draws, listening>>
    BY <1>12, <1>f DEF DiskTypes, Disk!HotplugAdd, Disk!Handles
  <2>2. load = "none" /\ ~draws => listening' /\ Rested'
    BY <1>0, <1>f, <1>12, <2>1, AddRests
  <2> QED BY <1>0, <2>1, <2>2 DEF Fresh, Rested
<1>13. CASE Disk!HotplugShows
  <2>1. ~stale /\ gone = "" /\ adding # None /\ UNCHANGED <<load, draws, listening>>
    BY <1>13, <1>f DEF Disk!HotplugShows
  <2>2. load = "none" /\ ~draws => listening' /\ Rested'
    BY <1>0, <1>13, <2>1, ShowsRests
  <2> QED BY <1>0, <2>1, <2>2 DEF Fresh, Rested
<1>14. CASE Disk!HotplugRemove
  <2>1. ~stale /\ gone = "" /\ uevents # <<>> /\ UNCHANGED <<load, draws, listening>>
    BY <1>14, <1>f DEF DiskTypes, Disk!HotplugRemove, Disk!Handles
  <2>2. load = "none" /\ ~draws => listening' /\ Rested'
    BY <1>0, <1>14, <2>1, RemoveRests
  <2> QED BY <1>0, <2>1, <2>2 DEF Fresh, Rested
<1>15. CASE Disk!OnHotplug
  <2>1. ~stale /\ gone = "" /\ uevents # <<>> /\ UNCHANGED <<load, draws, listening, uevents, present, disks, adding>>
    BY <1>15, <1>f DEF Disk!OnHotplug
  <2>2. load = "none" /\ ~draws => listening' /\ Rested'
    BY <1>0, <1>q, <2>1
  <2> QED BY <1>0, <2>1, <2>2 DEF Fresh, Rested
<1> QED
  BY <1>1, <1>2, <1>3, <1>4, <1>5, <1>6, <1>7, <1>8, <1>9, <1>10, <1>11, <1>12, <1>13, <1>14, <1>15
     DEF Disk!Next

-----------------------------------------------------------------------------
(* The image.                                                              *)

\* While images are fetched the page is covered; what is selected, under the cover
\* too, is listed and visible.
Pictured ==
  /\ populating => imageLoad = "none"
  /\ imageLoad # "none" \/ populating => imageSpinner
  /\ imageNext => image # None
  /\ image # None => Image!Visible(image)

LEMMA PicturedNext == Pictured /\ [Image!Next]_(Image!vars) => Pictured'
<1> SUFFICES ASSUME Pictured, [Image!Next]_(Image!vars) PROVE Pictured'
  OBVIOUS
<1> USE DEF Pictured, Image!Visible, Image!SetSpinner
<1>1. CASE UNCHANGED Image!vars BY <1>1 DEF Image!vars
<1>2. CASE Image!LoadBegins BY <1>2 DEF Image!LoadBegins
<1>3. CASE Image!LoadEnds BY <1>3 DEF Image!LoadEnds
<1>4. CASE Image!LoadFails BY <1>4 DEF Image!LoadFails
<1>5. CASE Image!Refresh BY <1>5 DEF Image!Refresh
<1>6. ASSUME NEW new, Image!Populate(new) PROVE Pictured'
  BY <1>6 DEF Image!Populate
<1>7. ASSUME NEW i \in Items, Image!ClickImage(i) PROVE Pictured'
  BY <1>7 DEF Image!ClickImage
<1>8. ASSUME NEW i \in Items, Image!FetchCover(i) PROVE Pictured'
  <2>1. UNCHANGED <<images, group, image, shown, imageNext, imageSpinner, imageLoad, populating>>
    BY <1>8 DEF Image!FetchCover
  <2> QED BY <2>1
<1>9. CASE \E i \in Items : Image!PutCover(i) BY <1>9 DEF Image!PutCover
<1>10. ASSUME NEW g \in Groups, Image!ClickGroup(g) PROVE Pictured'
  BY <1>10 DEF Image!ClickGroup
<1>11. ASSUME NEW how, Image!Leave(how) PROVE Pictured'
  BY <1>11 DEF Image!Leave
<1> QED
  BY <1>1, <1>2, <1>3, <1>4, <1>5, <1>6, <1>7, <1>8, <1>9, <1>10, <1>11 DEF Image!Next

-----------------------------------------------------------------------------
(* What is offered to be lent.                                             *)

\* The list that is made of a set has each of its members once.
LEMMA SetInARow ==
  ASSUME NEW S, IsFiniteSet(S)
  PROVE  /\ Options!SetToSeq(S) \in Seq(S) /\ IsInjective(Options!SetToSeq(S))
         /\ \A x \in S : \E i \in 1 .. Len(Options!SetToSeq(S)) : Options!SetToSeq(S)[i] = x
<1> DEFINE n == Cardinality(S)
           s == Options!SetToSeq(S)
<1>1. n \in Nat /\ ExistsBijection(1 .. n, S)
  BY FS_CardinalityType
<1>2. Options!Cardinality(S) = n
  BY DEF Options!Cardinality, Cardinality
<1>3. s = CHOOSE f \in [1 .. n -> S] : Options!IsInjective(f)
  BY <1>2 DEF Options!SetToSeq
<1>4. \A f : Options!IsInjective(f) <=> IsInjective(f)
  BY DEF Options!IsInjective, IsInjective
<1> HIDE DEF n, s
<1>5. \E f \in [1 .. n -> S] : Options!IsInjective(f)
  BY <1>1, <1>4 DEF ExistsBijection, Bijection, Injection, IsInjective
<1>6. s \in [1 .. n -> S] /\ IsInjective(s)
  BY <1>3, <1>4, <1>5
<1>7. s \in Seq(S) /\ Len(s) = n
  BY <1>1, <1>6
<1>8. s \in Surjection(1 .. n, S)
  <2>1. s \in Injection(1 .. n, S)
    BY <1>6 DEF Injection, IsInjective
  <2>2. Cardinality(1 .. n) = n
    BY <1>1, FS_Interval
  <2> QED BY <2>1, <2>2, FS_Injection DEF n
<1>9. \A x \in S : \E i \in 1 .. Len(s) : s[i] = x
  BY <1>7, <1>8 DEF Surjection
<1> QED BY <1>6, <1>7, <1>9 DEF s

\* The picked disk is taken out of a list.
LEMMA PickedGoes ==
  ASSUME NEW S, NEW s \in Seq(S), IsInjective(s), NEW d
  PROVE  Options!RemoveFirst(s, d) \in Seq(S) /\ IsInjective(Options!RemoveFirst(s, d))
<1>1. CASE \E i \in 1 .. Len(s) : s[i] = d
  <2> DEFINE i == Disk!Place(s, d)
  <2>1. Options!RemoveFirst(s, d) = Disk!RemoveAt(s, i)
    BY <1>1 DEF Options!RemoveFirst, Options!RemoveAt, Disk!RemoveAt, Disk!Place,
      Options!SelectInSeq, Disk!SelectInSeq, Options!Min, Disk!Min
  <2>2. i \in 1 .. Len(s)
    <3>1. d \in Disk!ToSet(s)
      BY <1>1, Members
    <3>2. i \in 0 .. Len(s) /\ i # 0 /\ Len(s) \in Nat
      BY <3>1, PlaceIs, LenProperties
    <3> QED BY <3>2
  <2> HIDE DEF i
  <2> QED BY <2>1, <2>2, WithoutOne, OneDiskLess
<1>2. CASE ~ \E i \in 1 .. Len(s) : s[i] = d
  BY <1>2 DEF Options!RemoveFirst
<1> QED BY <1>1, <1>2

\* How disks are lent, and the combinations that can be.
Hows == [mode : {"uas", "mass"}, multi : BOOLEAN, direct : BOOLEAN, readonly : BOOLEAN]
Configs == [disks : Seq(Disks), udc : Controllers \cup {None}, how : Hows]
Lends(w) ==
  /\ w.mode = "uas" => w.multi /\ ~w.readonly
  /\ w.mode = "mass" => ~w.direct

OptionTypes ==
  /\ free \subseteq Disks /\ udcs \subseteq Controllers
  /\ config \in Configs
  /\ IsInjective(config.disks)
  /\ items \in Seq(Disks) /\ IsInjective(items)
  /\ offered \in Seq(Controllers) /\ widgets \in Hows

\* The options agree with each other while they are shown; a page that was left
\* starts again with nothing.
Agreed ==
  /\ ~refused /\ ~broken
  /\ shows = "options" =>
       /\ items = config.disks /\ drop \in 0 .. Len(offered) /\ Lends(widgets)
       /\ removable <=> picked \in Disk!ToSet(items)
       /\ label = "alive" <=> items = <<>>
       /\ startable => items # <<>> /\ drop > 0
  /\ shows # "options" => label = "null"
  /\ shows = "running" => config.disks # <<>> /\ config.udc \in Controllers /\ Lends(config.how)

OptionInv == OptionTypes /\ Agreed

\* It holds at first, and says what is offered.
LEMMA OptionInit == Init => OptionInv
<1> SUFFICES ASSUME Init PROVE OptionInv
  OBVIOUS
<1>1. /\ free \subseteq Disks /\ udcs \subseteq Controllers
      /\ config = [disks |-> <<>>, udc |-> None, how |-> Options!Plain]
      /\ shows = "hello" /\ items = <<>> /\ offered = <<>> /\ widgets = Options!Plain
      /\ label = "null" /\ refused = FALSE /\ broken = FALSE
  BY DEF Init, Options!Init
<1>2. Options!Plain \in Hows /\ <<>> \in Seq(Disks) /\ <<>> \in Seq(Controllers) /\ IsInjective(<<>>)
  BY DEF Options!Plain, Hows, IsInjective
<1> HIDE DEF Options!Plain
<1>3. OptionTypes
  BY <1>1, <1>2 DEF OptionTypes, Configs
<1> QED BY <1>1, <1>3 DEF OptionInv, Agreed

LEMMA OffersHold == OptionInv => Options!OffersAreTrue
<1> SUFFICES ASSUME OptionInv PROVE Options!OffersAreTrue
  OBVIOUS
<1>1. \A s : Options!ToSet(s) = Disk!ToSet(s) /\ (Options!IsInjective(s) <=> IsInjective(s))
  BY DEF Options!ToSet, Disk!ToSet, Options!IsInjective, IsInjective
<1> QED BY <1>1 DEF OptionInv, OptionTypes, Agreed, Lends, Options!OffersAreTrue

\* The parts of a page that is drawn, or changed.
LEMMA UdcsShown ==
  ASSUME udcs \subseteq Controllers, NEW old, Options!ShowUdcs(old)
  PROVE  offered' \in Seq(Controllers) /\ drop' \in 0 .. Len(offered')
<1>1. IsFiniteSet(udcs)
  BY FS_Subset, PagesAssumption
<1>2. /\ offered' \in Seq(udcs) /\ \A x \in udcs : \E i \in 1 .. Len(offered') : offered'[i] = x
  BY <1>1, SetInARow DEF Options!ShowUdcs
<1>3. offered' \in Seq(Controllers) /\ Len(offered') \in Nat
  BY <1>2, LenProperties
<1>4. CASE udcs = {}
  BY <1>3, <1>4 DEF Options!ShowUdcs
<1>5. CASE udcs # {} /\ old \in udcs
  <2>1. drop' = CHOOSE i \in 1 .. Len(offered') : offered'[i] = old
    BY <1>5 DEF Options!ShowUdcs
  <2>2. drop' \in 1 .. Len(offered')
    BY <1>2, <1>5, <2>1
  <2> QED BY <1>3, <2>2
<1>6. CASE udcs # {} /\ old \notin udcs
  <2>1. drop' = 1
    BY <1>6 DEF Options!ShowUdcs
  <2>2. Len(offered') >= 1
    BY <1>2, <1>3, <1>6
  <2> QED BY <1>3, <2>1, <2>2
<1> QED BY <1>3, <1>4, <1>5, <1>6

LEMMA DiskListShown ==
  ASSUME OptionTypes, Agreed, NEW s \in Seq(Disks), IsInjective(s), Options!ShowItems(s),
         label = "null" \/ shows = "options"
  PROVE  /\ items' \in Seq(Disks) /\ IsInjective(items') /\ items' = s /\ broken' = broken
         /\ removable' <=> picked' \in Disk!ToSet(items')
         /\ label' = "alive" <=> items' = <<>>
<1>1. items' = s /\ picked' = None /\ removable' = FALSE /\ broken' = broken
  BY DEF Options!ShowItems, Options!ShowPlaceholder
<1>2. Disk!ToSet(s) \subseteq Disks
  BY LenProperties DEF Disk!ToSet
<1>3. label' = "alive" <=> s = <<>>
  BY DEF Options!ShowItems, Options!ShowPlaceholder
<1> QED BY <1>1, <1>2, <1>3, PagesAssumption

LEMMA SettledLends ==
  ASSUME NEW w \in Hows PROVE Options!Settled(w) \in Hows /\ Lends(Options!Settled(w))
BY DEF Hows, Lends, Options!Settled

\* The page is drawn anew, and left.
LEMMA DrawnHolds ==
  ASSUME OptionInv, Options!Drawn, shows # "options", UNCHANGED <<free, udcs, refused>>
  PROVE  OptionInv'
<1>1. PICK fails \in BOOLEAN :
        LET first == IF initialized \/ fails THEN config ELSE Options!Initialized
            known == initialized \/ ~fails
            w == IF known THEN first.how ELSE Options!Plain
        IN  /\ config' = IF known THEN first ELSE Options!Initialized
            /\ shows' = "options"
            /\ widgets' = Options!Settled(w)
            /\ Options!ShowUdcs(IF known THEN first.udc ELSE None)
            /\ Options!ShowItems(config'.disks)
            /\ Options!Update
  BY DEF Options!Drawn
<1>2. OptionTypes /\ Agreed
  BY DEF OptionInv
<1>3. Options!Plain \in Hows /\ [Options!Plain EXCEPT !.multi = TRUE] \in Hows
  BY DEF Options!Plain, Hows
<1> HIDE DEF Options!Plain
<1>4. Options!Initialized \in Configs /\ IsInjective(Options!Initialized.disks)
  <2>1. Options!SetToSeq(free) \in Seq(Disks) /\ IsInjective(Options!SetToSeq(free))
    <3>1. IsFiniteSet(free) /\ free \subseteq Disks
      BY <1>2, FS_Subset, PagesAssumption DEF OptionTypes
    <3> QED BY <3>1, SetInARow
  <2>2. ASSUME NEW S \in SUBSET Controllers, S # {} PROVE Options!SetToSeq(S)[1] \in Controllers
    <3>1. IsFiniteSet(S)
      BY FS_Subset, PagesAssumption
    <3>2. Options!SetToSeq(S) \in Seq(S) /\ 1 \in 1 .. Len(Options!SetToSeq(S))
      <4>1. PICK i \in 1 .. Len(Options!SetToSeq(S)) : TRUE
        BY <2>2, <3>1, SetInARow
      <4>2. Options!SetToSeq(S) \in Seq(S)
        BY <3>1, SetInARow
      <4> QED BY <4>1, <4>2, LenProperties
    <3> QED BY <3>2
  <2>3. Options!FirstUdc \in Controllers \cup {None}
    <3>1. udcs \subseteq Controllers
      BY <1>2 DEF OptionTypes
    <3>2. CASE udcs \ Virtual # {}
      BY <2>2, <3>1, <3>2 DEF Options!FirstUdc
    <3>3. CASE udcs \ Virtual = {} /\ udcs # {}
      BY <2>2, <3>1, <3>3 DEF Options!FirstUdc
    <3>4. CASE udcs = {}
      BY <3>4 DEF Options!FirstUdc
    <3> QED BY <3>2, <3>3, <3>4
  <2> QED BY <1>3, <2>1, <2>3 DEF Options!Initialized, Configs
<1>5. config \in Configs /\ IsInjective(config.disks)
  BY <1>2 DEF OptionTypes
<1>6. config' \in Configs /\ IsInjective(config'.disks)
  BY <1>1, <1>4, <1>5
<1>7. widgets' \in Hows /\ Lends(widgets')
  <2>1. PICK w \in Hows : widgets' = Options!Settled(w)
    BY <1>1, <1>3, <1>4, <1>5 DEF Configs
  <2> QED BY <2>1, SettledLends
<1>8. offered' \in Seq(Controllers) /\ drop' \in 0 .. Len(offered')
  <2>1. \E old : Options!ShowUdcs(old)
    BY <1>1
  <2> QED BY <1>2, <2>1, UdcsShown DEF OptionTypes
<1>9. /\ items' \in Seq(Disks) /\ IsInjective(items') /\ items' = config'.disks /\ broken' = broken
      /\ removable' <=> picked' \in Disk!ToSet(items')
      /\ label' = "alive" <=> items' = <<>>
  <2>1. config'.disks \in Seq(Disks)
    BY <1>6 DEF Configs
  <2>2. label = "null"
    BY <1>2 DEF Agreed
  <2> QED BY <1>1, <1>2, <1>6, <2>1, <2>2, DiskListShown
<1>10. OptionTypes'
  BY <1>2, <1>6, <1>7, <1>8, <1>9 DEF OptionTypes
<1>11. Agreed'
  <2>1. startable' => items' # <<>> /\ drop' > 0
    BY <1>1 DEF Options!Update
  <2>2. ~refused' /\ ~broken' /\ shows' = "options"
    BY <1>1, <1>2, <1>9 DEF Agreed
  <2> QED BY <1>7, <1>8, <1>9, <2>1, <2>2 DEF Agreed
<1> QED BY <1>10, <1>11 DEF OptionInv

LEMMA LeftHolds ==
  ASSUME OptionInv, NEW to, Options!Left(to), to # "options", UNCHANGED <<free, udcs, refused>>,
         config' \in Configs,
         IsInjective(config'.disks),
         to = "running" => config'.disks # <<>> /\ config'.udc \in Controllers /\ Lends(config'.how)
  PROVE  OptionInv'
<1>1. /\ shows' = to /\ items' = <<>> /\ offered' = <<>> /\ widgets' = Options!Plain
      /\ label' = "null" /\ broken' = broken
  BY DEF Options!Left
<1>2. Options!Plain \in Hows /\ <<>> \in Seq(Disks) /\ <<>> \in Seq(Controllers) /\ IsInjective(<<>>)
  BY DEF Options!Plain, Hows, IsInjective
<1>3. OptionTypes'
  BY <1>1, <1>2 DEF OptionInv, OptionTypes
<1>4. Agreed'
  BY <1>1 DEF OptionInv, Agreed
<1> QED BY <1>3, <1>4 DEF OptionInv

LEMMA OptionNext == OptionInv /\ [Options!Next]_(Options!vars) => OptionInv'
<1> SUFFICES ASSUME OptionInv, [Options!Next]_(Options!vars) PROVE OptionInv'
  OBVIOUS
<1> USE DEF Options!world, Options!list, Options!menu
<1>t. OptionTypes /\ Agreed
  BY DEF OptionInv
<1>c. config \in Configs
  BY <1>t DEF OptionTypes
\* A change of the list on the page, and of the configuration with it.
<1>l. ASSUME Options!On, NEW s \in Seq(Disks), IsInjective(s), config' = [config EXCEPT !.disks = s],
             items' = s, removable' <=> picked' \in Disk!ToSet(s), label' = "alive" <=> s = <<>>,
             broken' = broken, UNCHANGED <<offered, drop, widgets>>, Options!Update
      PROVE  OptionInv'
  <2>1. shows = "options" /\ UNCHANGED <<free, udcs, shows, refused>>
    BY <1>l DEF Options!On
  <2>2. config' \in Configs /\ config'.disks = s
    BY <1>c, <1>l DEF Configs
  <2>3. startable' => items' # <<>> /\ drop' > 0
    BY <1>l DEF Options!Update
  <2>4. OptionTypes'
    BY <1>l, <1>t, <2>1, <2>2 DEF OptionTypes
  <2>5. Agreed'
    BY <1>l, <1>t, <2>1, <2>2, <2>3 DEF Agreed
  <2> QED BY <2>4, <2>5 DEF OptionInv
<1>1. CASE UNCHANGED Options!vars
  <2>1. OptionTypes'
    BY <1>1, <1>t DEF Options!vars, OptionTypes
  <2>2. Agreed'
    BY <1>1, <1>t DEF Options!vars, Agreed
  <2> QED BY <2>1, <2>2 DEF OptionInv
<1>2. ASSUME NEW d \in Disks, Options!DiskChanges(d) PROVE OptionInv'
  <2>1. free' \subseteq Disks /\ UNCHANGED <<udcs, config, items, offered, widgets>>
    BY <1>2, <1>t DEF Options!DiskChanges, OptionTypes
  <2>2. UNCHANGED <<shows, config, items, picked, removable, label, startable, offered, drop,
          widgets, refused, broken>>
    BY <1>2 DEF Options!DiskChanges
  <2>3. OptionTypes'
    BY <1>t, <2>1 DEF OptionTypes
  <2>4. Agreed'
    BY <1>t, <2>2 DEF Agreed
  <2> QED BY <2>3, <2>4 DEF OptionInv
<1>3. ASSUME NEW c \in Controllers, Options!UdcChanges(c) PROVE OptionInv'
  <2>1. udcs' \subseteq Controllers /\ UNCHANGED <<free, config, items, offered, widgets>>
    BY <1>3, <1>t DEF Options!UdcChanges, OptionTypes
  <2>2. UNCHANGED <<shows, config, items, picked, removable, label, startable, offered, drop,
          widgets, refused, broken>>
    BY <1>3 DEF Options!UdcChanges
  <2>3. OptionTypes'
    BY <1>t, <2>1 DEF OptionTypes
  <2>4. Agreed'
    BY <1>t, <2>2 DEF Agreed
  <2> QED BY <2>3, <2>4 DEF OptionInv
<1>4. CASE Options!Enter \/ Options!Stopped \/ Options!Return
  BY <1>4, DrawnHolds DEF Options!Enter, Options!Stopped, Options!Return
<1>5. CASE Options!Back \/ Options!Add
  <2>1. PICK to \in {"hello", "choose"} : Options!Left(to) /\ UNCHANGED <<free, udcs, config, refused>>
    BY <1>5 DEF Options!Back, Options!Add
  <2>2. config' \in Configs /\ IsInjective(config'.disks)
    BY <1>t, <1>c, <2>1 DEF OptionTypes
  <2>3. to # "options" /\ to # "running"
    OBVIOUS
  <2> QED BY <2>1, <2>2, <2>3, LeftHolds
<1>6. CASE Options!Chosen
  <2>1. PICK d \in Disks : config' = [config EXCEPT !.disks = Options!Taken(d)]
    BY <1>6 DEF Options!Chosen
  <2>2. /\ shows = "choose" /\ shows' = "chosen"
        /\ UNCHANGED <<free, udcs, items, offered, widgets, label, refused, broken>>
    BY <1>6 DEF Options!Chosen
  <2>3. Options!Taken(d) \in Seq(Disks) /\ IsInjective(Options!Taken(d))
    <3>1. Options!ToSet(config.disks) = Disk!ToSet(config.disks)
      BY DEF Options!ToSet, Disk!ToSet
    <3>2. config.disks \in Seq(Disks) /\ IsInjective(config.disks)
      BY <1>t, <1>c DEF OptionTypes, Configs
    <3> QED BY <3>1, <3>2, OneMoreDisk DEF Options!Taken
  <2>4. config' \in Configs
        /\ config'.disks = Options!Taken(d)
    BY <1>c, <2>1, <2>3 DEF Configs
  <2>5. OptionTypes'
    BY <1>t, <2>2, <2>3, <2>4 DEF OptionTypes
  <2>6. Agreed'
    BY <1>t, <2>2 DEF Agreed
  <2> QED BY <2>5, <2>6 DEF OptionInv
<1>7. ASSUME NEW d \in Disks, Options!Pick(d) PROVE OptionInv'
  <2>1. /\ shows = "options" /\ UNCHANGED <<free, udcs, shows, refused>>
        /\ UNCHANGED <<config, items, startable, label, offered, drop, widgets, broken>>
        /\ d \in Options!ToSet(items)
        /\ picked' = (IF picked = d THEN None ELSE d) /\ removable' = (picked' # None)
    BY <1>7 DEF Options!Pick, Options!On
  <2>2. d \in Disk!ToSet(items)
    BY <2>1 DEF Options!ToSet, Disk!ToSet
  <2>3. removable' <=> picked' \in Disk!ToSet(items')
    <3>1. Disk!ToSet(items) \subseteq Disks
      BY <1>t, LenProperties DEF OptionTypes, Disk!ToSet
    <3>2. removable' <=> picked' # None
      BY <2>1
    <3> QED BY <2>1, <2>2, <3>1, <3>2, PagesAssumption
  <2>4. OptionTypes'
    BY <1>t, <2>1 DEF OptionTypes
  <2>5. Agreed'
    BY <1>t, <2>1, <2>3 DEF Agreed
  <2> QED BY <2>4, <2>5 DEF OptionInv
<1>8. CASE Options!RemovePicked
  <2> DEFINE s == Options!RemoveFirst(items, picked)
  <2>1. /\ Options!On /\ config' = [config EXCEPT !.disks = Options!RemoveFirst(config.disks, picked)]
        /\ items' = s /\ picked' = None /\ removable' = FALSE
        /\ IF items' = <<>> THEN Options!ShowPlaceholder ELSE UNCHANGED <<label, broken>>
        /\ UNCHANGED <<offered, drop, widgets>> /\ Options!Update /\ removable
    BY <1>8 DEF Options!RemovePicked
  <2>2. items = config.disks /\ (label = "alive" <=> items = <<>>) /\ (removable <=> picked \in Disk!ToSet(items))
    BY <1>t, <2>1 DEF Agreed, Options!On
  <2>3. s \in Seq(Disks) /\ IsInjective(s)
    BY <1>t, PickedGoes DEF OptionTypes
  <2>4. items # <<>>
    <3>1. Disk!ToSet(<<>>) = {}
      BY DEF Disk!ToSet
    <3> QED BY <2>1, <2>2, <3>1
  <2> HIDE DEF s
  <2>5. (label' = "alive" <=> s = <<>>) /\ broken' = broken
    BY <2>1, <2>2, <2>4 DEF Options!ShowPlaceholder
  <2>6. Disk!ToSet(s) \subseteq Disks
    BY <2>3, LenProperties DEF Disk!ToSet
  <2>7. removable' <=> picked' \in Disk!ToSet(s)
    BY <2>1, <2>6, PagesAssumption
  <2>8. config' = [config EXCEPT !.disks = s]
    BY <2>1, <2>2 DEF s
  <2> QED BY <1>l, <2>1, <2>3, <2>5, <2>7, <2>8
<1>9. CASE Options!Clear \/ Options!ResetDisks
  <2>1. PICK s \in Seq(Disks) : /\ IsInjective(s) /\ config' = [config EXCEPT !.disks = s]
          /\ Options!ShowItems(s) /\ Options!On /\ UNCHANGED <<offered, drop, widgets>> /\ Options!Update
    <3>1. CASE Options!Clear
      <4>1. <<>> \in Seq(Disks) /\ IsInjective(<<>>)
        BY DEF IsInjective
      <4> QED BY <3>1, <4>1 DEF Options!Clear
    <3>2. CASE Options!ResetDisks
      <4>1. free \subseteq Disks
        BY <1>t DEF OptionTypes
      <4>2. IsFiniteSet(free)
        BY <4>1, FS_Subset, PagesAssumption
      <4>3. Options!SetToSeq(free) \in Seq(Disks) /\ IsInjective(Options!SetToSeq(free))
        BY <4>1, <4>2, SetInARow
      <4>4. config' = [config EXCEPT !.disks = Options!SetToSeq(free)]
        BY <3>2 DEF Options!ResetDisks
      <4>5. config'.disks = Options!SetToSeq(free)
        BY <1>c, <4>4 DEF Configs
      <4> QED BY <3>2, <4>3, <4>4, <4>5 DEF Options!ResetDisks
    <3> QED BY <1>9, <3>1, <3>2
  <2>2. shows = "options"
    BY <2>1 DEF Options!On
  <2>3. /\ items' = s /\ broken' = broken /\ (removable' <=> picked' \in Disk!ToSet(items'))
        /\ label' = "alive" <=> items' = <<>>
    BY <1>t, <2>1, <2>2, DiskListShown
  <2> QED BY <1>l, <2>1, <2>3
<1>10. CASE Options!ReloadUdcs
  <2>1. /\ \E old : Options!ShowUdcs(old)
        /\ UNCHANGED <<free, udcs, shows, refused, config, items, picked, removable, label,
             widgets, broken>>
        /\ Options!Update /\ shows = "options"
    BY <1>10 DEF Options!ReloadUdcs, Options!On
  <2>2. offered' \in Seq(Controllers) /\ drop' \in 0 .. Len(offered')
    BY <1>t, <2>1, UdcsShown DEF OptionTypes
  <2>3. startable' => items' # <<>> /\ drop' > 0
    BY <2>1 DEF Options!Update
  <2>4. OptionTypes'
    BY <1>t, <2>1, <2>2 DEF OptionTypes
  <2>5. Agreed'
    BY <1>t, <2>1, <2>2, <2>3 DEF Agreed
  <2> QED BY <2>4, <2>5 DEF OptionInv
<1>11. ASSUME NEW i \in 0 .. Len(offered), Options!PickUdc(i) PROVE OptionInv'
  <2>1. /\ UNCHANGED <<free, udcs, shows, refused, config, items, picked, removable, label,
             widgets, broken, offered>>
        /\ Options!Update /\ shows = "options" /\ drop' = i
    BY <1>11 DEF Options!PickUdc, Options!On
  <2>3. startable' => items' # <<>> /\ drop' > 0
    BY <2>1 DEF Options!Update
  <2>4. OptionTypes'
    BY <1>t, <2>1 DEF OptionTypes
  <2>5. Agreed'
    BY <1>t, <2>1, <2>3 DEF Agreed
  <2> QED BY <2>4, <2>5 DEF OptionInv
<1>12. CASE Options!Adjust
  <2>1. /\ UNCHANGED <<free, udcs, shows, refused, config, items, picked, removable, label,
             drop, broken, offered>>
        /\ Options!Update /\ shows = "options"
        /\ (\E m \in {"uas", "mass"} : Options!SetMode(m)) \/ Options!Toggle
    BY <1>12 DEF Options!Adjust, Options!On
  <2>2. widgets \in Hows /\ Lends(widgets)
    BY <1>t, <2>1 DEF OptionTypes, Agreed
  <2>3. widgets' \in Hows /\ Lends(widgets')
    <3>1. ASSUME NEW m \in {"uas", "mass"}, Options!SetMode(m) PROVE widgets' \in Hows /\ Lends(widgets')
      <4>1. [widgets EXCEPT !.mode = m] \in Hows
        BY <2>2 DEF Hows
      <4> QED BY <3>1, <4>1, SettledLends DEF Options!SetMode
    <3>2. ASSUME Options!Toggle PROVE widgets' \in Hows /\ Lends(widgets')
      <4>1. CASE widgets.mode = "uas"
        <5>1. widgets' = [widgets EXCEPT !.direct = ~@]
          BY <3>2, <4>1 DEF Options!Toggle
        <5> QED BY <2>2, <4>1, <5>1 DEF Hows, Lends
      <4>2. CASE widgets.mode = "mass"
        <5>1. widgets' = [widgets EXCEPT !.multi = ~@] \/ widgets' = [widgets EXCEPT !.readonly = ~@]
          BY <3>2, <4>2 DEF Options!Toggle
        <5> QED BY <2>2, <4>2, <5>1 DEF Hows, Lends
      <4> QED BY <2>2, <4>1, <4>2 DEF Hows
    <3> QED BY <2>1, <3>1, <3>2
  <2>4. startable' => items' # <<>> /\ drop' > 0
    BY <2>1 DEF Options!Update
  <2>5. OptionTypes'
    BY <1>t, <2>1, <2>3 DEF OptionTypes
  <2>6. Agreed'
    BY <1>t, <2>1, <2>3, <2>4 DEF Agreed
  <2> QED BY <2>5, <2>6 DEF OptionInv
<1>13. CASE Options!Start
  <2>1. shows = "options" /\ startable /\ UNCHANGED <<free, udcs>>
    BY <1>13 DEF Options!Start
  <2>2. /\ items = config.disks /\ items # <<>> /\ drop > 0 /\ drop \in 0 .. Len(offered)
        /\ Lends(widgets) /\ widgets \in Hows /\ offered \in Seq(Controllers) /\ IsInjective(config.disks)
    BY <1>t, <2>1 DEF Agreed, OptionTypes
  <2>3. ~Options!Refuses
    BY <2>2 DEF Options!Refuses, Lends
  <2>4. /\ config' = [disks |-> config.disks, udc |-> offered[drop], how |-> widgets]
        /\ Options!Left("running") /\ UNCHANGED refused
    BY <1>13, <2>3 DEF Options!Start
  <2>5. offered[drop] \in Controllers
    <3>1. drop \in 1 .. Len(offered)
      BY <2>2, LenProperties
    <3> QED BY <2>2, <3>1
  <2>6. /\ config' \in Configs
        /\ config'.disks = config.disks /\ config'.udc \in Controllers /\ config'.how = widgets
    BY <1>c, <2>2, <2>4, <2>5 DEF Configs
  <2> QED BY <2>1, <2>2, <2>4, <2>6, LeftHolds
<1> QED
  BY <1>1, <1>2, <1>3, <1>4, <1>5, <1>6, <1>7, <1>8, <1>9, <1>10, <1>11, <1>12, <1>13 DEF Options!Next

\* Once all is quiet the disks that are shown are the machine's, each once, the cover
\* stays while anything is loaded, and Next hands on the disk or image that was
\* chosen, under the cover too (choose_disk, choose_image); the
\* options to lend offer what can be had, and what runs can be lent (mass_storage):
\* for any disks, images and controllers, however often they come and go.
THEOREM ChoicesAreTrue == Spec => []ChoiceIsTrue
<1> DEFINE Inv == DiskInv /\ Pictured /\ OptionInv
<1>1. Init => Inv
  <2>1. Init => Pictured
    BY DEF Init, Image!Init, Pictured
  <2> QED BY <2>1, DiskInit, OptionInit
<1>2. Inv /\ [Next]_vars => Inv'
  <2> SUFFICES ASSUME Inv, [Next]_vars PROVE Inv'
    OBVIOUS
  <2>1. DiskSafe' /\ DiskTypes' /\ Chosen' /\ Fresh'
    BY StepOfPart, DiskStaysSafe, DiskTypesNext, ChosenNext, FreshNext DEF DiskInv
  <2>2. Pictured' /\ OptionInv'
    BY StepOfPart, PicturedNext, OptionNext
  <2> QED BY <2>1, <2>2 DEF DiskInv
<1>3. Inv => ChoiceIsTrue
  <2>1. Pictured => Image!ChosenIsShown
    BY DEF Pictured, Image!ChosenIsShown
  <2> QED BY <2>1, ListIsRight, OffersHold DEF ChoiceIsTrue
<1> HIDE DEF Inv
<1> QED BY <1>1, <1>2, <1>3, PTL DEF Spec
-----------------------------------------------------------------------------
(* The screen that is found.                                               *)

\* A set of places has a last one.
LEMMA Most ==
  ASSUME NEW n \in Nat, NEW T \in SUBSET (1 .. n), T # {}
  PROVE  \E x \in T : \A y \in T : y <= x
<1> DEFINE U == {k \in Nat : \E x \in T : k = n - x}
<1>1. U \in SUBSET Nat /\ U # {}
  <2>1. PICK x \in T : TRUE
    OBVIOUS
  <2>2. n - x \in Nat
    BY <2>1
  <2> QED BY <2>1, <2>2
<1>2. \A x \in T : n - x \in U
  BY DEF U
<1> HIDE DEF U
<1>3. PICK k \in U : \A j \in U : k <= j
  BY <1>1, Least
<1>4. PICK x \in T : k = n - x
  BY <1>3 DEF U
<1>5. \A y \in T : y <= x
  BY <1>2, <1>3, <1>4
<1> QED BY <1>5

\* What a card may be; an encoder that drives a connector is among the card's.
CardsTried == {Card(x) : x \in Outputs \X Outputs \X {0, 41} \X PlaneLists}
Tried == {[node |-> "render"]} \cup CardsTried

LEMMA Wired ==
  ASSUME NEW card \in CardsTried
  PROVE  /\ card.connectors \in Seq(Outputs) /\ card.planes \in PlaneLists
         /\ Len(card.encoders) = 2
         /\ \A c \in 1 .. Len(card.connectors) : card.connectors[c].encoder # 0 =>
              \E e \in 1 .. 2 : card.encoders[e].id = card.connectors[c].encoder
<1>0. PICK x \in Outputs \X Outputs \X {0, 41} \X PlaneLists : card = Card(x)
  BY DEF CardsTried
<1>1. /\ card.connectors = <<x[1], x[2]>> /\ card.planes = x[4]
      /\ card.encoders = <<[id |-> 7, crtc |-> x[3]], [id |-> 8, crtc |-> 42]>>
  BY <1>0 DEF Card, CardOf
<1>2. x[1].encoder \in {0, 7, 8} /\ x[2].encoder \in {0, 7, 8}
  BY DEF Outputs
<1>3. card.encoders[1].id = 7 /\ card.encoders[2].id = 8
  BY <1>1
<1>4. card.connectors \in Seq(Outputs) /\ Len(card.connectors) = 2
  BY <1>1
<1> QED BY <1>1, <1>2, <1>3, <1>4

LEMMA PlacesOfPlanes == \A s \in PlaneLists : Len(s) \in Nat /\ DOMAIN s = 1 .. Len(s)
BY DEF PlaneLists

\* Of the devices that were tried one is open, with as many buffers as it has been
\* given, on a connector and a plane that suit.
SetupInv ==
  /\ backend = "drm" => rest \in Seq(Tried) /\ device \in Tried \cup {Found!NoDevice}
  /\ backend = "fbdev" => rest \in Seq(FbdevKinds)
  /\ backend \in {"drm", "fbdev"}
  /\ step \in {"connector", "plane", "buffers"} => backend = "drm"
  /\ step = "map" => backend = "fbdev"
  /\ step \in {"connector", "plane", "buffers", "display", "done"} /\ backend = "drm" =>
       device \in CardsTried
  /\ step \in {"next", "threw"} => fds = {}
  /\ step \in {"connector", "plane", "buffers", "display", "done", "map"} => fds = {Len(rest)}
  /\ step \in {"next", "threw", "map", "connector", "plane"} => buffers = {}
  /\ step = "buffers" => buffers \in {{}, {0}}
  /\ backend = "drm" =>
       /\ step \in {"display", "done"} => buffers = {0, 1}
       /\ step \in {"plane", "buffers", "display", "done"} =>
            (device.connectors[conn].encoder # 0 => conn \in Found!Lit)
       /\ step \in {"buffers", "display", "done"} => Found!Suits(device.planes[plane])

LEMMA SetupInit == Init => SetupInv
<1> SUFFICES ASSUME Init PROVE SetupInv
  OBVIOUS
<1>1. /\ (backend = "drm" /\ rest \in MCCards) \/ (backend = "fbdev" /\ rest \in MCFbdevs)
      /\ device = Found!NoDevice /\ step = "next" /\ buffers = {} /\ fds = {}
  BY DEF Init, Found!Init
<1>2. \A s \in MCCards : s \in Seq(Tried)
  <2>1. \A x \in Outputs \X Outputs \X {0, 41} \X PlaneLists :
          /\ <<>> \in Seq(Tried) /\ <<[node |-> "render"], Card(x)>> \in Seq(Tried)
          /\ <<Card(x), Card(x)>> \in Seq(Tried)
    <3> TAKE x \in Outputs \X Outputs \X {0, 41} \X PlaneLists
    <3>1. Card(x) \in Tried /\ [node |-> "render"] \in Tried
      BY DEF Tried, CardsTried
    <3> QED BY <3>1
  <2>2. <<>> \in Seq(Tried)
    OBVIOUS
  <2> HIDE DEF Tried
  <2>3. ASSUME NEW s \in MCCards, s # <<>>
        PROVE  \E x \in Outputs \X Outputs \X {0, 41} \X PlaneLists :
                 s \in {<<[node |-> "render"], Card(x)>>, <<Card(x), Card(x)>>}
    BY <2>3 DEF MCCards
  <2> QED BY <2>1, <2>2, <2>3
<1>3. \A s \in MCFbdevs : s \in Seq(FbdevKinds)
  <2> TAKE s \in MCFbdevs
  <2>1. PICK a \in FbdevKinds, b \in FbdevKinds : s = <<a, b>>
    BY DEF MCFbdevs
  <2> HIDE DEF FbdevKinds
  <2> QED BY <2>1
<1> QED BY <1>1, <1>2, <1>3 DEF SetupInv

\* What fails gives back what it had.
LEMMA SkipKeeps ==
  ASSUME SetupInv, Found!Skip, step \in {"connector", "plane", "buffers"}
  PROVE  SetupInv'
<1>1. /\ step' = "next" /\ buffers' = {} /\ fds' = {}
      /\ UNCHANGED <<backend, rest, device, conn, crtc, plane>>
  BY DEF Found!Skip, Found!taken, SetupInv
<1> QED BY <1>1 DEF SetupInv

LEMMA ConnectorIsDriven ==
  ASSUME NEW card \in CardsTried, NEW c, c = Found!Connector(card), c # 0,
         card.connectors[c].encoder # 0
  PROVE  /\ c \in DOMAIN card.connectors
         /\ \E e \in DOMAIN card.encoders :
              /\ card.encoders[e].id = card.connectors[c].encoder
              /\ card.encoders[e].crtc = Found!Crtc(card, card.connectors[c])
<1> DEFINE con == card.connectors[c]
           I == {i \in 1 .. Len(card.encoders) : card.encoders[i].id = con.encoder}
<1>1. c \in 1 .. Len(card.connectors)
  <2> DEFINE J == {i \in 1 .. Len(card.connectors) :
               card.connectors[i].state = "connected" /\ card.connectors[i].modes # 0}
  <2>1. c = IF J # {} THEN Found!Min(J) ELSE 0
    BY DEF Found!Connector, Found!SelectInSeq
  <2>2. J \in SUBSET Nat /\ J # {}
    BY <2>1
  <2>3. J \subseteq 1 .. Len(card.connectors)
    OBVIOUS
  <2> HIDE DEF J
  <2>4. \E x \in J : \A y \in J : x <= y
    BY <2>2, Least
  <2>5. c \in J
    BY <2>1, <2>2, <2>4 DEF Found!Min
  <2> QED BY <2>3, <2>5
<1>2. I # {} /\ I \in SUBSET (1 .. 2) /\ Len(card.encoders) = 2
  BY <1>1, Wired
<1>3. PICK own : own = IF I # {} THEN Found!Min(I) ELSE 0
  OBVIOUS
<1>4. own \in I
  <2>1. I \in SUBSET Nat
    BY <1>2
  <2> HIDE DEF I
  <2>2. \E x \in I : \A y \in I : x <= y
    BY <1>2, <2>1, Least
  <2> QED BY <1>2, <1>3, <2>2 DEF Found!Min
<1>5. own # 0 /\ Found!Encoder(card, con) = own
  <2>1. own # 0
    BY <1>2, <1>4
  <2> QED BY <1>3, <2>1 DEF Found!Encoder, Found!SelectInSeq
<1>6. Found!Crtc(card, con) = card.encoders[own].crtc
  BY <1>5 DEF Found!Crtc
<1>7. own \in DOMAIN card.encoders
  <2>1. PICK x \in Outputs \X Outputs \X {0, 41} \X PlaneLists : card = Card(x)
    BY DEF CardsTried
  <2>2. card.encoders = <<[id |-> 7, crtc |-> x[3]], [id |-> 8, crtc |-> 42]>>
    BY <2>1 DEF Card, CardOf
  <2> QED BY <1>2, <1>4, <2>2
<1>8. c \in DOMAIN card.connectors
  <2>1. card.connectors \in Seq(Outputs)
    BY Wired
  <2> QED BY <1>1, <2>1
<1> QED BY <1>4, <1>6, <1>7, <1>8

LEMMA SetupNext == SetupInv /\ [Found!Next]_(Found!vars) => SetupInv'
<1> SUFFICES ASSUME SetupInv, [Found!Next]_(Found!vars) PROVE SetupInv'
  OBVIOUS
<1> USE DEF Found!taken, Found!Goes
<1>1. CASE UNCHANGED Found!vars
  BY <1>1 DEF SetupInv, Found!vars, Found!Suits, Found!Lit
<1>2. CASE Found!TryCard
  <2>1. /\ backend = "drm" /\ step = "next" /\ rest # <<>>
        /\ rest' = Tail(rest) /\ device' = Head(rest)
        /\ rest \in Seq(Tried) /\ fds = {} /\ buffers = {}
        /\ UNCHANGED <<backend, buffers>>
        /\ \/ UNCHANGED <<step, fds>>
           \/ Head(rest).node = "card" /\ step' = "connector" /\ fds' = fds \cup {Len(rest) - 1}
    BY <1>2 DEF Found!TryCard, SetupInv
  <2>2. Head(rest) \in Tried /\ Tail(rest) \in Seq(Tried) /\ Len(Tail(rest)) = Len(rest) - 1
    BY <2>1, HeadTailProperties
  <2>3. CASE UNCHANGED <<step, fds>>
    BY <2>1, <2>2, <2>3 DEF SetupInv
  <2>4. CASE Head(rest).node = "card" /\ step' = "connector" /\ fds' = fds \cup {Len(rest) - 1}
    <3>1. [node |-> "render"].node # "card"
      OBVIOUS
    <3>2. Head(rest) \in CardsTried
      BY <2>2, <2>4, <3>1 DEF Tried
    <3>3. fds' = {Len(rest')}
      BY <2>1, <2>2, <2>4
    <3> QED BY <2>1, <2>2, <2>4, <3>2, <3>3 DEF SetupInv
  <2> QED BY <2>1, <2>3, <2>4
<1>3. CASE Found!SetupConnector
  <2> DEFINE c == Found!Connector(device)
  <2>1. step = "connector" /\ device \in CardsTried /\ backend = "drm"
    BY <1>3 DEF Found!SetupConnector, SetupInv
  <2>2. CASE Found!Skip
    BY <2>1, <2>2, SkipKeeps
  <2>3. CASE ~Found!Skip
    <3>1. /\ c # 0 /\ step' = "plane" /\ conn' = c
          /\ crtc' = Found!Crtc(device, device.connectors[c])
          /\ UNCHANGED <<backend, rest, device, plane, buffers, fds>>
      BY <1>3, <2>3 DEF Found!SetupConnector
    <3>2. device'.connectors[conn'].encoder # 0 => conn' \in Found!Lit'
      <4> SUFFICES ASSUME device.connectors[c].encoder # 0 PROVE conn' \in Found!Lit'
        BY <3>1
      <4>1. /\ c \in DOMAIN device.connectors
            /\ \E e \in DOMAIN device.encoders :
                 device.encoders[e].id = device.connectors[c].encoder
                 /\ device.encoders[e].crtc = crtc'
        BY <2>1, <3>1, ConnectorIsDriven
      <4> QED BY <3>1, <4>1 DEF Found!Lit
    <3> QED BY <2>1, <3>1, <3>2 DEF SetupInv
  <2> QED BY <2>2, <2>3
<1>4. CASE Found!SetupPlane
  <2> DEFINE fit == {i \in DOMAIN device.planes : Found!Suits(device.planes[i])}
  <2>1. step = "plane" /\ device \in CardsTried /\ backend = "drm" /\ buffers = {}
    BY <1>4 DEF Found!SetupPlane, SetupInv
  <2>2. CASE Found!Skip
    BY <2>1, <2>2, SkipKeeps
  <2>3. CASE ~Found!Skip
    <3>1. /\ fit # {} /\ plane' = (CHOOSE i \in fit : \A j \in fit : j <= i) /\ step' = "buffers"
          /\ UNCHANGED <<backend, rest, device, conn, crtc, buffers, fds>>
      BY <1>4, <2>3 DEF Found!SetupPlane
    <3>2. PICK n \in Nat : DOMAIN device.planes = 1 .. n
      BY <2>1, Wired, PlacesOfPlanes
    <3>3. fit \in SUBSET (1 .. n)
      BY <3>2
    <3>4. plane' \in fit
      <4> HIDE DEF fit
      <4>1. \E x \in fit : \A y \in fit : y <= x
        BY <3>1, <3>3, Most
      <4> QED BY <3>1, <4>1
    <3>5. Found!Suits(device.planes[plane'])
      BY <3>4
    <3>6. Found!Suits(device.planes[plane])' /\ Found!Lit' = Found!Lit
      BY <3>1, <3>5 DEF Found!Suits, Found!Lit
    <3> QED BY <2>1, <3>1, <3>6 DEF SetupInv
  <2> QED BY <2>2, <2>3
<1>5. CASE Found!Allocate
  <2>1. step = "buffers" /\ backend = "drm" /\ buffers \in {{}, {0}}
    BY <1>5 DEF Found!Allocate, SetupInv
  <2>2. CASE Found!Skip
    BY <2>1, <2>2, SkipKeeps
  <2>3. CASE ~Found!Skip
    <3>1. /\ buffers' = buffers \cup {Found!Cardinality(buffers)}
          /\ step' = IF Found!Cardinality(buffers') = 2 THEN "display" ELSE step
          /\ UNCHANGED <<backend, rest, device, conn, crtc, plane, fds>>
      BY <1>5, <2>3 DEF Found!Allocate
    <3>2. \A T : Found!Cardinality(T) = Cardinality(T)
      BY DEF Found!Cardinality, Cardinality
    <3>3. Cardinality({}) = 0 /\ Cardinality({0}) = 1 /\ Cardinality({0, 1}) = 2
      <4>1. {0, 1} = {0} \cup {1}
        OBVIOUS
      <4> QED BY <4>1, FS_EmptySet, FS_Singleton, FS_AddElement
    <3>4. \/ buffers' = {0} /\ step' = "buffers"
          \/ buffers' = {0, 1} /\ step' = "display"
      BY <2>1, <3>1, <3>2, <3>3
    <3>5. Found!Suits(device.planes[plane])' <=> Found!Suits(device.planes[plane])
      BY <3>1 DEF Found!Suits
    <3>6. Found!Lit' = Found!Lit
      BY <3>1 DEF Found!Lit
    <3> QED BY <2>1, <3>1, <3>4, <3>5, <3>6 DEF SetupInv
  <2> QED BY <2>2, <2>3
<1>6. CASE Found!TryFbdev
  <2>1. /\ backend = "fbdev" /\ step = "next" /\ rest # <<>> /\ rest' = Tail(rest)
        /\ rest \in Seq(FbdevKinds) /\ fds = {} /\ buffers = {}
        /\ UNCHANGED <<backend, buffers>>
        /\ \/ UNCHANGED <<step, fds>>
           \/ step' = "map" /\ fds' = fds \cup {Len(rest) - 1}
    BY <1>6 DEF Found!TryFbdev, SetupInv
  <2>2. Tail(rest) \in Seq(FbdevKinds) /\ Len(Tail(rest)) = Len(rest) - 1
    BY <2>1, HeadTailProperties
  <2> QED BY <2>1, <2>2 DEF SetupInv
<1>7. CASE Found!MapFbdev
  BY <1>7 DEF Found!MapFbdev, SetupInv
<1>8. CASE Found!NoneSuits
  BY <1>8 DEF Found!NoneSuits, SetupInv
<1>9. CASE Found!InitDisplay
  BY <1>9 DEF Found!InitDisplay, SetupInv, Found!Suits, Found!Lit
<1> QED
  BY <1>1, <1>2, <1>3, <1>4, <1>5, <1>6, <1>7, <1>8, <1>9 DEF Found!Next

LEMMA SetupShows == SetupInv => Found!FoundShows
BY DEF SetupInv, Found!FoundShows

-----------------------------------------------------------------------------
(* The screen of a card.                                                   *)

\* The calls in progress, of both threads.
InProgress == Drm!ToSet(frames["main"]) \cup Drm!ToSet(frames["keys"])
Calls ==
  [to : {"gui"}, by : {"setup", "keys"}, step : {"activate", "wait", "woken", "mode", "unpause"}]
  \cup [to : {"gui"}, by : {"signal"}, step : {"mode", "unpause"}]
  \cup [to : {"text"}, by : {"signal"}, step : {"pause", "fill", "mode", "release"}]
  \cup [to : {"text"}, by : {"button", "keys"},
        step : {"pause", "fill", "mode", "activate", "wait", "woken"}]
Moved(f, to) == [to |-> f.to, by |-> f.by, step |-> to]
Woken(f) == Moved(f, IF f.step = "wait" THEN "woken" ELSE f.step)
CallTypes ==
  /\ frames \in [Drm!Threads -> Seq(Calls)]
  /\ \A f \in Drm!ToSet(frames["keys"]) : f.by = "keys"
  /\ signals \subseteq {"release", "acquire"} /\ vt \in {"gui", "text"}
  /\ paused \in BOOLEAN /\ asked \in BOOLEAN /\ leaving \in BOOLEAN
  /\ typed \in Seq({"gui", "text"})
  /\ pc \in {"setup", "init"} =>
       frames["main"] = <<>> /\ frames["keys"] = <<>> /\ signals = {} /\ typed = <<>>

\* Who handles the signal that the kernel sent.
Handling(to) == \E f \in InProgress : f.to = to /\ f.by = "signal"

\* Unless opposite calls met, all that are in progress lead the same way: to the text with
\* the drawing stopped, or to the program's terminal when it is in front.
AllOneWay ==
  /\ \A f, g \in InProgress : f.to = g.to
  /\ \A f \in InProgress :
       /\ f.to = "text" /\ f.step # "pause" => paused
       /\ f.to = "gui" /\ f.step # "activate" => vt = "gui"
  /\ "acquire" \in signals => vt = "gui"

\* Drawing is stopped while another terminal is in front, but for the start; once it is no
\* more, somebody is on the way to resume it.
Watched ==
  /\ vt = "text" /\ ~paused =>
       pc \in {"setup", "init"} \/ \E f \in InProgress : f.by = "setup" /\ f.step = "activate"
  /\ vt = "gui" /\ paused =>
       \/ signals # {}
       \/ \E f \in InProgress :
            f.to = "gui" \/ f.by = "signal" \/ f.step \in {"pause", "fill", "mode", "activate"}
  /\ vt = "gui" /\ ("release" \in signals \/ Handling("text")) => leaving \/ "acquire" \in signals

\* What the buffers hold: the last frame is the widgets', and the older one can be brought up
\* to it, unless all will be drawn again.
ScreenTypes ==
  /\ ui \in Nat /\ content \in [Drm!Buffers -> Nat \cup {Drm!Black}]
  /\ screen \in Drm!Buffers \cup {Drm!NoBuffer} /\ pending \in Drm!Buffers \cup {Drm!NoBuffer}
  /\ pc \in {"setup", "init"} => dirty = "full"
  /\ pc = "flush" => dirty = "none"
  /\ ~failed /\ ~late /\ screen = Drm!NoBuffer /\ pending = Drm!NoBuffer =>
       dirty = "full" \/ pc = "flush"
Drawn ==
  IF pc = "flush"
    THEN content[act] = ui /\ (~whole => content[1 - act] # Drm!Black)
    ELSE /\ dirty = "none" => content[1 - act] = ui
         /\ content[1 - act] # Drm!Black
         /\ ~whole => content[act] # Drm!Black
Held == paused \/ asked \/ dirty = "full" \/ Drawn


\* A call that goes on, or ends, leaves the others alone.
LEMMA LastMoves ==
  ASSUME NEW S, NEW s \in Seq(S), s # <<>>, NEW x \in S
  PROVE  /\ s[Len(s)] \in Drm!ToSet(s)
         /\ LET c == [s EXCEPT ![Len(s)] = x]
            IN  /\ c \in Seq(S) /\ x \in Drm!ToSet(c)
                /\ Drm!ToSet(c) \subseteq Drm!ToSet(s) \cup {x}
                /\ Drm!ToSet(s) \subseteq Drm!ToSet(c) \cup {s[Len(s)]}
<1> DEFINE c == [s EXCEPT ![Len(s)] = x]
<1>1. Len(s) \in 1 .. Len(s) /\ DOMAIN s = 1 .. Len(s) /\ c \in Seq(S) /\ DOMAIN c = 1 .. Len(s)
      /\ c[Len(s)] = x /\ \A i \in 1 .. Len(s) : i # Len(s) => c[i] = s[i]
  OBVIOUS
<1> HIDE DEF c
<1>2. Drm!ToSet(c) \subseteq Drm!ToSet(s) \cup {x}
  BY <1>1 DEF Drm!ToSet
<1>3. Drm!ToSet(s) \subseteq Drm!ToSet(c) \cup {s[Len(s)]}
  BY <1>1 DEF Drm!ToSet
<1>4. x \in Drm!ToSet(c) /\ s[Len(s)] \in Drm!ToSet(s)
  BY <1>1 DEF Drm!ToSet
<1> QED BY <1>1, <1>2, <1>3, <1>4 DEF c

LEMMA LastEnds ==
  ASSUME NEW S, NEW s \in Seq(S), s # <<>>
  PROVE  /\ s[Len(s)] \in Drm!ToSet(s)
         /\ Drm!Front(s) \in Seq(S)
         /\ Drm!ToSet(Drm!Front(s)) \subseteq Drm!ToSet(s)
         /\ Drm!ToSet(s) \subseteq Drm!ToSet(Drm!Front(s)) \cup {s[Len(s)]}
<1> DEFINE c == Drm!Front(s)
<1>1. Len(s) \in Nat \ {0} /\ DOMAIN s = 1 .. Len(s) /\ s[Len(s)] \in S
  OBVIOUS
<1>2. /\ c \in Seq(S) /\ DOMAIN c = 1 .. Len(s) - 1
      /\ \A i \in 1 .. Len(s) - 1 : c[i] = s[i]
  BY <1>1, SubSeqProperties DEF Drm!Front
<1> HIDE DEF c
<1>3. Drm!ToSet(c) \subseteq Drm!ToSet(s)
  BY <1>1, <1>2 DEF Drm!ToSet
<1>4. Drm!ToSet(s) \subseteq Drm!ToSet(c) \cup {s[Len(s)]}
  BY <1>1, <1>2 DEF Drm!ToSet
<1>5. s[Len(s)] \in Drm!ToSet(s)
  BY <1>1 DEF Drm!ToSet
<1> QED BY <1>2, <1>3, <1>4, <1>5 DEF c

LEMMA CallSteps ==
  ASSUME CallTypes, NEW t \in Drm!Threads, frames[t] # <<>>, NEW to, Drm!Step(t, to),
         to = "done" \/ Moved(Drm!Top(t), to) \in Calls
  PROVE  /\ Drm!Top(t) \in InProgress /\ Drm!Top(t) \in Calls
         /\ \A f \in InProgress' : f \in InProgress \/ (to # "done" /\ f = Moved(Drm!Top(t), to))
         /\ to # "done" => Moved(Drm!Top(t), to) \in InProgress'
         /\ \A f \in InProgress : f = Drm!Top(t) \/ f \in InProgress'
         /\ frames' \in [Drm!Threads -> Seq(Calls)]
         /\ \A f \in Drm!ToSet(frames'["keys"]) : f.by = "keys"
<1> DEFINE s == frames[t]
           top == Drm!Top(t)
           new == Moved(top, to)
           after == IF to = "done" THEN Drm!Front(s) ELSE [s EXCEPT ![Len(s)] = new]
<1>1. frames \in [Drm!Threads -> Seq(Calls)] /\ s \in Seq(Calls) /\ s # <<>> /\ top = s[Len(s)]
  BY DEF CallTypes, Drm!Top
<1>2. top \in Calls
  BY <1>1
<1>3. [top EXCEPT !.step = to] = new
  BY <1>2 DEF Moved, Calls
<1>4. frames' = [frames EXCEPT ![t] = after]
  BY <1>1, <1>3 DEF Drm!Step
<1> HIDE DEF top, new, s
<1>5. /\ top \in Drm!ToSet(s) /\ after \in Seq(Calls)
      /\ Drm!ToSet(after) \subseteq Drm!ToSet(s) \cup (IF to = "done" THEN {} ELSE {new})
      /\ Drm!ToSet(s) \subseteq Drm!ToSet(after) \cup {top}
      /\ to # "done" => new \in Drm!ToSet(after)
  <2>1. CASE to = "done"
    BY <1>1, <2>1, LastEnds
  <2>2. CASE to # "done"
    <3>1. new \in Calls
      BY <2>2 DEF new, top
    <3> QED BY <1>1, <2>2, <3>1, LastMoves
  <2> QED BY <2>1, <2>2
<1> HIDE DEF after
<1>6. t \in {"main", "keys"} /\ "main" \in Drm!Threads /\ "keys" \in Drm!Threads
  BY DEF Drm!Threads
<1>7. frames'[t] = after /\ \A c \in Drm!Threads : c # t => frames'[c] = frames[c]
  BY <1>1, <1>4
<1>8. new.by = top.by
  BY DEF new, Moved
<1>9. \A f \in Drm!ToSet(frames'["keys"]) : f.by = "keys"
  <2>1. CASE t = "keys"
    BY <1>5, <1>7, <1>8, <2>1 DEF CallTypes, s
  <2>2. CASE t # "keys"
    BY <1>6, <1>7, <2>2 DEF CallTypes
  <2> QED BY <2>1, <2>2
<1>10. frames' \in [Drm!Threads -> Seq(Calls)]
  BY <1>1, <1>4, <1>5
<1>11. /\ top \in InProgress
       /\ \A f \in InProgress' : f \in InProgress \/ (to # "done" /\ f = new)
       /\ to # "done" => new \in InProgress'
       /\ \A f \in InProgress : f = top \/ f \in InProgress'
  <2>1. CASE t = "main"
    <3>1. frames'["main"] = after /\ frames'["keys"] = frames["keys"]
      BY <1>6, <1>7, <2>1
    <3> QED BY <1>5, <2>1, <3>1 DEF InProgress, s
  <2>2. CASE t = "keys"
    <3>1. frames'["keys"] = after /\ frames'["main"] = frames["main"]
      BY <1>6, <1>7, <2>2
    <3> QED BY <1>5, <2>2, <3>1 DEF InProgress, s
  <2> QED BY <1>6, <2>1, <2>2
<1> QED BY <1>2, <1>9, <1>10, <1>11 DEF top, new

LEMMA CallsLead ==
  \A f \in Calls : f.to \in {"gui", "text"} /\ f = [to |-> f.to, by |-> f.by, step |-> f.step]
BY DEF Calls

\* It is remembered when a call begins that leads another way than one in progress.
LEMMA NoneMeet ==
  ASSUME frames' \in [Drm!Threads -> Seq(Calls)], Drm!Begins(frames'), ~overlap'
  PROVE  ~overlap /\ \A f, g \in InProgress' : f.to = g.to
<1> DEFINE All == UNION {Drm!ToSet(frames'[t]) : t \in Drm!Threads}
<1>1. InProgress' = All
  BY DEF InProgress, Drm!Threads
<1>2. \A f \in All : f \in Calls
  BY DEF Drm!ToSet
<1>3. ~overlap /\ ~({"gui", "text"} \subseteq {f.to : f \in All})
  BY DEF Drm!Begins
<1> HIDE DEF All
<1>4. \A f, g \in All : f.to = g.to
  BY <1>2, <1>3, CallsLead
<1> QED BY <1>1, <1>3, <1>4

\* A call that begins is added to those in progress.
LEMMA CallBegins ==
  ASSUME CallTypes, NEW t \in Drm!Threads, frames[t] = <<>>, NEW new \in Calls,
         t = "keys" => new.by = "keys",
         Drm!Begins([frames EXCEPT ![t] = <<new>>])
  PROVE  /\ InProgress' = InProgress \cup {new}
         /\ frames' \in [Drm!Threads -> Seq(Calls)]
         /\ \A f \in Drm!ToSet(frames'["keys"]) : f.by = "keys"
         /\ ~overlap' => ~overlap /\ \A f, g \in InProgress' : f.to = g.to
<1>1. frames' = [frames EXCEPT ![t] = <<new>>]
  BY DEF Drm!Begins
<1>2. frames \in [Drm!Threads -> Seq(Calls)]
  BY DEF CallTypes
<1>3. t \in {"main", "keys"} /\ "main" \in Drm!Threads /\ "keys" \in Drm!Threads
  BY DEF Drm!Threads
<1>4. frames'[t] = <<new>> /\ \A c \in Drm!Threads : c # t => frames'[c] = frames[c]
  BY <1>1, <1>2
<1>5. Drm!ToSet(<<new>>) = {new} /\ Drm!ToSet(<<>>) = {}
  BY DEF Drm!ToSet
<1>6. InProgress' = InProgress \cup {new}
  <2>1. CASE t = "main"
    <3>1. frames'["main"] = <<new>> /\ frames'["keys"] = frames["keys"]
      BY <1>3, <1>4, <2>1
    <3> QED BY <1>5, <2>1, <3>1 DEF InProgress
  <2>2. CASE t = "keys"
    <3>1. frames'["keys"] = <<new>> /\ frames'["main"] = frames["main"]
      BY <1>3, <1>4, <2>2
    <3> QED BY <1>5, <2>2, <3>1 DEF InProgress
  <2> QED BY <1>3, <2>1, <2>2
<1>7. frames' \in [Drm!Threads -> Seq(Calls)]
  BY <1>1, <1>2
<1>8. \A f \in Drm!ToSet(frames'["keys"]) : f.by = "keys"
  <2>1. CASE t = "keys"
    BY <1>4, <1>5, <2>1
  <2>2. CASE t # "keys"
    BY <1>3, <1>4, <2>2 DEF CallTypes
  <2> QED BY <2>1, <2>2
<1>9. ~overlap' => ~overlap /\ \A f, g \in InProgress' : f.to = g.to
  BY <1>1, <1>7, NoneMeet DEF Drm!Begins
<1> QED BY <1>6, <1>7, <1>8, <1>9

\* A signal wakes the calls that wait in LVGL's thread, and adds its own.
LEMMA SignalComes ==
  ASSUME CallTypes, NEW s \in {"release", "acquire"}, Drm!Deliver(s)
  PROVE  LET new == Drm!Frame(Drm!Target(s), "signal")
         IN  /\ new \in Calls /\ new \in InProgress'
             /\ \A f \in InProgress' : f = new \/ \E g \in InProgress : f = g \/ f = Woken(g)
             /\ \A f \in InProgress :
                  f \in InProgress' \/ (f.step = "wait" /\ Woken(f) \in InProgress')
             /\ frames' \in [Drm!Threads -> Seq(Calls)]
             /\ \A f \in Drm!ToSet(frames'["keys"]) : f.by = "keys"
             /\ ~overlap' => ~overlap /\ \A f, g \in InProgress' : f.to = g.to
<1> DEFINE new == Drm!Frame(Drm!Target(s), "signal")
           m == frames["main"]
           woken == [i \in DOMAIN m |->
                      IF m[i].step = "wait" THEN [m[i] EXCEPT !.step = "woken"] ELSE m[i]]
           after == Append(woken, new)
<1>1. new \in Calls
  BY DEF Drm!Frame, Drm!Target, Calls
<1>2. frames \in [Drm!Threads -> Seq(Calls)] /\ m \in Seq(Calls) /\ "main" \in Drm!Threads
      /\ "keys" \in Drm!Threads
  BY DEF CallTypes, Drm!Threads
<1>3. frames' = [frames EXCEPT !["main"] = after]
  BY <1>2 DEF Drm!Deliver, Drm!Begins
<1>4. \A f \in Calls :
        f.step = "wait" => Woken(f) \in Calls /\ [f EXCEPT !.step = "woken"] = Woken(f)
  <2> TAKE f \in Calls
  <2>1. f = [to |-> f.to, by |-> f.by, step |-> f.step]
    BY CallsLead
  <2>2. [f EXCEPT !.step = "woken"] = [to |-> f.to, by |-> f.by, step |-> "woken"]
    BY <2>1
  <2>3. f.step = "wait" => [to |-> f.to, by |-> f.by, step |-> "woken"] \in Calls
    BY DEF Calls
  <2> QED BY <2>2, <2>3 DEF Woken, Moved
<1>5. \A f \in Calls : f.step # "wait" => Woken(f) = f
  BY CallsLead DEF Woken, Moved
<1>6. woken \in Seq(Calls) /\ DOMAIN woken = DOMAIN m /\ \A i \in DOMAIN m : woken[i] = Woken(m[i])
  <2>1. DOMAIN m = 1 .. Len(m) /\ Len(m) \in Nat /\ \A i \in 1 .. Len(m) : m[i] \in Calls
    BY <1>2
  <2> HIDE DEF m
  <2>2. \A i \in 1 .. Len(m) : woken[i] = Woken(m[i]) /\ woken[i] \in Calls
    BY <1>4, <1>5, <2>1
  <2>3. woken \in [1 .. Len(m) -> Calls]
    BY <2>1, <2>2
  <2> HIDE DEF woken
  <2>4. woken \in Seq(Calls)
    BY <2>1, <2>3, SeqDef
  <2> QED BY <2>1, <2>2, <2>3, <2>4
<1> HIDE DEF woken, new
<1>7. /\ after \in Seq(Calls) /\ DOMAIN after = 1 .. Len(woken) + 1
      /\ DOMAIN woken = 1 .. Len(woken)
      /\ after[Len(woken) + 1] = new /\ \A i \in 1 .. Len(woken) : after[i] = woken[i]
      /\ Len(woken) \in Nat
  BY <1>1, <1>6, AppendProperties
<1>8. Drm!ToSet(after) = {Woken(f) : f \in Drm!ToSet(m)} \cup {new}
  <2> HIDE DEF after, m
  <2>1. Drm!ToSet(after) = Drm!ToSet(woken) \cup {new}
    BY <1>7 DEF Drm!ToSet
  <2>2. Drm!ToSet(woken) = {Woken(f) : f \in Drm!ToSet(m)}
    BY <1>6 DEF Drm!ToSet
  <2> QED BY <2>1, <2>2
<1> HIDE DEF after
<1>9. frames'["main"] = after /\ frames'["keys"] = frames["keys"]
      /\ frames' \in [Drm!Threads -> Seq(Calls)]
  BY <1>2, <1>3, <1>7 DEF Drm!Threads
<1>10. InProgress' = {Woken(f) : f \in Drm!ToSet(m)} \cup {new} \cup Drm!ToSet(frames["keys"])
  BY <1>8, <1>9 DEF InProgress
<1>11. \A f \in Drm!ToSet(m) : f \in Calls
  BY <1>2 DEF Drm!ToSet
<1>12. new \in InProgress'
       /\ \A f \in InProgress' : f = new \/ \E g \in InProgress : f = g \/ f = Woken(g)
  BY <1>10 DEF InProgress
<1>13. \A f \in InProgress : f \in InProgress' \/ (f.step = "wait" /\ Woken(f) \in InProgress')
  BY <1>5, <1>10, <1>11 DEF InProgress
<1>14. \A f \in Drm!ToSet(frames'["keys"]) : f.by = "keys"
  BY <1>9 DEF CallTypes
<1>15. ~overlap' => ~overlap /\ \A f, g \in InProgress' : f.to = g.to
  BY <1>9, NoneMeet DEF Drm!Deliver, Drm!Begins
<1> QED BY <1>1, <1>9, <1>12, <1>13, <1>14, <1>15 DEF new

Ways == AllOneWay /\ Watched
CallInv == CallTypes /\ (~overlap => Ways)

\* A signal that is not masked interrupts what LVGL's thread does.
LEMMA MaskedIsHandled ==
  ASSUME CallTypes, NEW s, Drm!Masked(s)
  PROVE  \E f \in InProgress : f.by = "signal" /\ f.to = Drm!Target(s)
BY DEF Drm!Masked, InProgress, Drm!ToSet

\* Nothing of the console moves.
LEMMA CallsRest ==
  ASSUME CallInv, UNCHANGED Drm!console, pc' \in {"setup", "init"} <=> pc \in {"setup", "init"}
  PROVE  CallInv'
<1>1. UNCHANGED <<vt, leaving, signals, typed, frames, paused, asked, overlap>>
  BY DEF Drm!console
<1>2. InProgress' = InProgress
  BY <1>1 DEF InProgress
<1>3. CallTypes'
  BY <1>1 DEF CallInv, CallTypes
<1>4. AllOneWay => AllOneWay'
  BY <1>1, <1>2 DEF AllOneWay
<1>5. Watched => Watched'
  BY <1>1, <1>2 DEF Watched, Handling
<1> QED BY <1>1, <1>3, <1>4, <1>5 DEF CallInv, Ways

LEMMA CallRuns ==
  ASSUME CallInv, NEW t \in Drm!Threads, Drm!Runs(t)
  PROVE  CallInv'
<1> DEFINE top == Drm!Top(t)
<1>1. frames[t] # <<>> /\ UNCHANGED <<typed, overlap, pc>> /\ CallTypes
  BY DEF Drm!Runs, Drm!lvgl, CallInv
<1>2. pc \notin {"setup", "init"}
  BY <1>1 DEF CallTypes, Drm!Threads
<1>3. ASSUME NEW to, Drm!Step(t, to), to = "done" \/ Moved(top, to) \in Calls,
             signals' \subseteq {"release", "acquire"}, vt' \in {"gui", "text"},
             paused' \in BOOLEAN, asked' \in BOOLEAN, leaving' \in BOOLEAN
      PROVE  CallTypes'
  BY <1>1, <1>2, <1>3, CallSteps DEF CallTypes
<1>4. top \in Calls
  BY <1>1, LastEnds DEF CallTypes, Drm!Top, Drm!ToSet
<1>5. /\ signals \subseteq {"release", "acquire"} /\ vt \in {"gui", "text"}
      /\ paused \in BOOLEAN /\ asked \in BOOLEAN /\ leaving \in BOOLEAN
  BY <1>1 DEF CallTypes
<1>6. ~overlap => AllOneWay /\ Watched
  BY DEF CallInv, Ways
<1> HIDE DEF top
<1> USE DEF CallInv, Ways
<1>7. CASE Drm!SetsPause(t)
  <2>1. /\ top.step = "pause" /\ paused' /\ paused' \in BOOLEAN /\ Drm!Step(t, "fill")
        /\ UNCHANGED <<vt, leaving, signals, asked>>
    BY <1>7 DEF Drm!SetsPause, top
  <2>2. Moved(top, "fill") \in Calls /\ top.to = "text"
    BY <1>4, <2>1 DEF Moved, Calls
  <2>3. CallTypes'
    BY <1>3, <1>5, <2>1, <2>2
  <2>4. /\ top \in InProgress
        /\ \A f \in InProgress' : f \in InProgress \/ f = Moved(top, "fill")
        /\ Moved(top, "fill") \in InProgress'
        /\ \A f \in InProgress : f = top \/ f \in InProgress'
    BY <1>1, <2>1, <2>2, CallSteps DEF top
  <2>5. ~overlap => AllOneWay'
    BY <1>6, <2>1, <2>4 DEF AllOneWay, Moved
  <2>6. ~overlap => Watched'
    BY <1>1, <1>2, <1>6, <2>1, <2>4 DEF Watched, Moved, Handling
  <2> QED BY <1>1, <2>3, <2>5, <2>6
<1>8. CASE Drm!Fills(t)
  <2>1. /\ top.step = "fill" /\ Drm!Step(t, "mode")
        /\ UNCHANGED <<vt, leaving, signals, paused, asked>>
    BY <1>8 DEF Drm!Fills, top
  <2>2. Moved(top, "mode") \in Calls /\ top.to = "text"
    BY <1>4, <2>1 DEF Moved, Calls
  <2>3. CallTypes'
    BY <1>3, <1>5, <2>1, <2>2
  <2>4. /\ top \in InProgress
        /\ \A f \in InProgress' : f \in InProgress \/ f = Moved(top, "mode")
        /\ Moved(top, "mode") \in InProgress'
        /\ \A f \in InProgress : f = top \/ f \in InProgress'
    BY <1>1, <2>1, <2>2, CallSteps DEF top
  <2>5. ~overlap => AllOneWay'
    BY <1>6, <2>1, <2>4 DEF AllOneWay, Moved
  <2>6. ~overlap => Watched'
    BY <1>1, <1>2, <1>6, <2>1, <2>4 DEF Watched, Moved, Handling
  <2> QED BY <1>1, <2>3, <2>5, <2>6
<1>9. CASE Drm!SetsMode(t)
  <2>1. PICK to \in {"unpause", "release", "activate"} :
          /\ top.step = "mode" /\ Drm!Step(t, to)
          /\ top.to = "gui" => to = "unpause"
          /\ top.to = "text" /\ top.by = "signal" => to = "release"
          /\ top.to = "text" /\ top.by # "signal" => to = "activate"
          /\ UNCHANGED <<vt, leaving, signals, paused, asked>>
    BY <1>9 DEF Drm!SetsMode, top
  <2>2. Moved(top, to) \in Calls /\ top.to \in {"gui", "text"}
    BY <1>4, <2>1 DEF Moved, Calls
  <2>3. CallTypes'
    BY <1>3, <1>5, <2>1, <2>2
  <2>4. /\ top \in InProgress
        /\ \A f \in InProgress' : f \in InProgress \/ f = Moved(top, to)
        /\ Moved(top, to) \in InProgress'
        /\ \A f \in InProgress : f = top \/ f \in InProgress'
    BY <1>1, <2>1, <2>2, CallSteps DEF top
  <2>5. ~overlap => AllOneWay'
    BY <1>6, <2>1, <2>4 DEF AllOneWay, Moved
  <2>6. ~overlap => Watched'
    BY <1>1, <1>2, <1>6, <2>1, <2>2, <2>4 DEF Watched, Moved, Handling
  <2> QED BY <1>1, <2>3, <2>5, <2>6
<1>10. CASE Drm!Unpauses(t)
  <2>1. /\ top.step = "unpause" /\ Drm!Step(t, "done") /\ ~paused' /\ paused' \in BOOLEAN
        /\ asked' \in BOOLEAN /\ UNCHANGED <<vt, leaving, signals>>
    BY <1>5, <1>10 DEF Drm!Unpauses, top
  <2>2. top.to = "gui"
    BY <1>4, <2>1 DEF Calls
  <2>3. CallTypes'
    BY <1>3, <1>5, <2>1
  <2>4. top \in InProgress /\ InProgress' \subseteq InProgress
        /\ \A f \in InProgress : f = top \/ f \in InProgress'
    BY <1>1, <2>1, CallSteps DEF top
  <2>5. ~overlap => AllOneWay'
    BY <1>6, <2>1, <2>2, <2>4 DEF AllOneWay
  <2>6. ~overlap => vt = "gui"
    BY <1>6, <2>1, <2>2, <2>4 DEF AllOneWay
  <2>7. ~overlap => Watched'
    BY <1>6, <2>1, <2>4, <2>6 DEF Watched, Handling
  <2> QED BY <1>1, <2>3, <2>5, <2>7
<1>11. CASE Drm!Releases(t)
  <2>1. /\ top.step = "release" /\ Drm!Step(t, "done")
        /\ ~leaving' /\ leaving' \in BOOLEAN /\ vt' = IF leaving THEN "text" ELSE vt
        /\ UNCHANGED <<signals, paused, asked>>
    BY <1>11 DEF Drm!Releases, top
  <2>2. top.to = "text" /\ top.by = "signal"
    BY <1>4, <2>1 DEF Calls
  <2>3. CallTypes'
    BY <1>3, <1>5, <2>1
  <2>4. top \in InProgress /\ InProgress' \subseteq InProgress
        /\ \A f \in InProgress : f = top \/ f \in InProgress'
    BY <1>1, <2>1, CallSteps DEF top
  <2>5. t = "main"
    <3>1. top \in Drm!ToSet(frames[t])
      BY <1>1, LastEnds DEF CallTypes, Drm!Top, top
    <3> QED BY <1>1, <2>2, <3>1 DEF CallTypes, Drm!Threads
  <2>6. ~overlap => "acquire" \notin signals
    <3>1. "acquire" \in signals => Drm!Masked("acquire")
      BY <2>5 DEF Drm!Runs, Drm!Interrupted
    <3>2. Drm!Target("acquire") = "gui"
      BY DEF Drm!Target
    <3> QED BY <1>1, <1>6, <2>2, <2>4, <3>1, <3>2, MaskedIsHandled DEF AllOneWay
  <2>7. ~overlap => AllOneWay'
    BY <1>6, <2>1, <2>2, <2>4, <2>6 DEF AllOneWay
  <2>8. ~overlap => paused /\ (vt = "gui" => leaving)
    BY <1>6, <2>1, <2>2, <2>4, <2>6 DEF AllOneWay, Watched, Handling
  <2>9. ~overlap => Watched'
    BY <1>5, <2>1, <2>8 DEF Watched
  <2> QED BY <1>1, <2>3, <2>7, <2>9
<1>12. CASE Drm!Activates(t)
  <2>1. /\ top.step = "activate" /\ Drm!Step(t, "wait") /\ Drm!Switch(top.to)
        /\ UNCHANGED <<paused, asked>>
    BY <1>12 DEF Drm!Activates, top
  <2>2. Moved(top, "wait") \in Calls /\ top.to \in {"gui", "text"} /\ top.by # "signal"
    BY <1>4, <2>1 DEF Moved, Calls
  <2>3. /\ leaving' \in BOOLEAN /\ vt' \in {"gui", "text"}
        /\ signals' \subseteq {"release", "acquire"}
    BY <1>5, <2>1, <2>2 DEF Drm!Switch
  <2>4. CallTypes'
    BY <1>3, <1>5, <2>1, <2>2, <2>3
  <2>5. /\ top \in InProgress
        /\ \A f \in InProgress' : f \in InProgress \/ f = Moved(top, "wait")
        /\ Moved(top, "wait") \in InProgress'
        /\ \A f \in InProgress : f = top \/ f \in InProgress'
    BY <1>1, <2>1, <2>2, CallSteps DEF top
  <2>6. CASE top.to = "gui"
    <3>1. /\ vt' = "gui" /\ UNCHANGED leaving
          /\ signals' = IF vt = "text" THEN signals \cup {"acquire"} ELSE signals
      BY <2>1, <2>6 DEF Drm!Switch
    <3>2. ~overlap => AllOneWay'
      BY <1>6, <2>1, <2>5, <2>6, <3>1 DEF AllOneWay, Moved
    <3>3. Handling("text")' => Handling("text")
      BY <2>2, <2>5 DEF Handling, Moved
    <3>4. ~overlap => Watched'
      BY <1>5, <1>6, <2>1, <2>5, <2>6, <3>1, <3>3 DEF Watched, Moved
    <3> QED BY <1>1, <2>4, <3>2, <3>4
  <2>7. CASE top.to = "text"
    <3>1. /\ leaving' = (vt = "gui") /\ UNCHANGED vt
          /\ signals' = IF vt = "gui" THEN signals \cup {"release"} ELSE signals
      BY <2>1, <2>7 DEF Drm!Switch
    <3>2. ~overlap => AllOneWay'
      BY <1>6, <2>1, <2>5, <2>7, <3>1 DEF AllOneWay, Moved
    <3>3. ~overlap => paused
      BY <1>6, <2>1, <2>5, <2>7 DEF AllOneWay
    <3>4. ~overlap => Watched'
      BY <1>5, <2>1, <3>1, <3>3 DEF Watched
    <3> QED BY <1>1, <2>4, <3>2, <3>4
  <2> QED BY <2>2, <2>6, <2>7
<1>13. CASE Drm!WaitsActive(t)
  <2>1. /\ top.step \in {"woken", "wait"}
        /\ Drm!Step(t, IF top.to = "gui" THEN "mode" ELSE "done")
        /\ UNCHANGED <<vt, leaving, signals, paused, asked>>
    BY <1>13 DEF Drm!WaitsActive, top
  <2>2. CASE top.to = "gui"
    <3>1. Drm!Step(t, "mode")
      BY <2>1, <2>2
    <3>2. Moved(top, "mode") \in Calls
      BY <1>4, <2>1, <2>2 DEF Moved, Calls
    <3>3. CallTypes'
      BY <1>3, <1>5, <2>1, <3>1, <3>2
    <3>4. /\ top \in InProgress
          /\ \A f \in InProgress' : f \in InProgress \/ f = Moved(top, "mode")
          /\ Moved(top, "mode") \in InProgress'
          /\ \A f \in InProgress : f = top \/ f \in InProgress'
      BY <1>1, <3>1, <3>2, CallSteps DEF top
    <3>5. ~overlap => AllOneWay'
      BY <1>6, <2>1, <2>2, <3>4 DEF AllOneWay, Moved
    <3>6. ~overlap => Watched'
      BY <1>1, <1>2, <1>6, <2>1, <2>2, <3>4 DEF Watched, Moved, Handling
    <3> QED BY <1>1, <3>3, <3>5, <3>6
  <2>3. CASE top.to # "gui"
    <3>1. Drm!Step(t, "done") /\ top.to = "text" /\ top.by # "signal"
      BY <1>4, <2>1, <2>3 DEF Calls
    <3>2. CallTypes'
      BY <1>3, <1>5, <2>1, <3>1
    <3>3. top \in InProgress /\ InProgress' \subseteq InProgress
          /\ \A f \in InProgress : f = top \/ f \in InProgress'
      BY <1>1, <3>1, CallSteps DEF top
    <3>4. ~overlap => AllOneWay'
      BY <1>6, <2>1, <3>3 DEF AllOneWay
    <3>5. ~overlap => Watched'
      BY <1>1, <1>2, <1>6, <2>1, <3>1, <3>3 DEF Watched, Handling
    <3> QED BY <1>1, <3>2, <3>4, <3>5
  <2> QED BY <2>2, <2>3
<1> QED BY <1>7, <1>8, <1>9, <1>10, <1>11, <1>12, <1>13 DEF Drm!Runs

LEMMA CallDelivered ==
  ASSUME CallInv, NEW s \in {"release", "acquire"}, Drm!Deliver(s)
  PROVE  CallInv'
<1> DEFINE new == Drm!Frame(Drm!Target(s), "signal")
<1>1. /\ s \in signals /\ signals' = signals \ {s} /\ CallTypes
      /\ (s = "acquire" /\ "release" \in signals => Drm!Masked("release"))
      /\ UNCHANGED <<vt, leaving, typed, paused, asked, pc>>
  BY DEF Drm!Deliver, CallInv, Drm!lvgl
<1>2. /\ new \in InProgress'
      /\ \A f \in InProgress' : f = new \/ \E g \in InProgress : f = g \/ f = Woken(g)
      /\ \A f \in InProgress : f \in InProgress' \/ (f.step = "wait" /\ Woken(f) \in InProgress')
      /\ frames' \in [Drm!Threads -> Seq(Calls)]
      /\ \A f \in Drm!ToSet(frames'["keys"]) : f.by = "keys"
      /\ (~overlap' => ~overlap /\ \A f, g \in InProgress' : f.to = g.to)
  BY <1>1, SignalComes
<1>3. /\ new.to = Drm!Target(s) /\ new.by = "signal"
      /\ new.step = IF s = "acquire" THEN "mode" ELSE "pause"
      /\ Drm!Target(s) = IF s = "release" THEN "text" ELSE "gui"
  BY DEF Drm!Frame, Drm!Target
<1> HIDE DEF new
<1>4. CallTypes'
  BY <1>1, <1>2 DEF CallTypes
<1>5. \A f : Woken(f).to = f.to /\ Woken(f).by = f.by
             /\ Woken(f).step = IF f.step = "wait" THEN "woken" ELSE f.step
  BY DEF Woken, Moved
<1>6. ASSUME ~overlap' PROVE AllOneWay'
  <2>1. AllOneWay /\ \A f, g \in InProgress' : f.to = g.to
    BY <1>2, <1>6 DEF CallInv, Ways
  <2>2. \A g \in InProgress : (g.to = "text" /\ g.step # "pause" => paused)
                              /\ (g.to = "gui" /\ g.step # "activate" => vt = "gui")
    BY <2>1 DEF AllOneWay
  <2>3. "acquire" \in signals => vt = "gui"
    BY <2>1 DEF AllOneWay
  <2>4. ASSUME NEW f \in InProgress'
        PROVE  (f.to = "text" /\ f.step # "pause" => paused')
               /\ (f.to = "gui" /\ f.step # "activate" => vt' = "gui")
    <3>1. CASE f = new
      BY <1>1, <1>3, <2>3, <3>1
    <3>2. ASSUME NEW g \in InProgress, f = g \/ f = Woken(g)
          PROVE  (f.to = "text" /\ f.step # "pause" => paused')
                 /\ (f.to = "gui" /\ f.step # "activate" => vt' = "gui")
      <4>1. (g.to = "text" /\ g.step # "pause" => paused)
            /\ (g.to = "gui" /\ g.step # "activate" => vt = "gui")
        BY <2>2
      <4> QED BY <1>1, <1>5, <3>2, <4>1
    <3> QED BY <1>2, <3>1, <3>2
  <2> QED BY <1>1, <2>1, <2>3, <2>4 DEF AllOneWay
<1>7. ASSUME ~overlap' PROVE Watched'
  <2>1. Watched /\ \A f, g \in InProgress' : f.to = g.to
    BY <1>2, <1>7 DEF CallInv, Ways
  <2>2. vt = "text" /\ ~paused =>
          pc \in {"setup", "init"} \/ \E f \in InProgress' : f.by = "setup" /\ f.step = "activate"
    BY <1>2, <2>1 DEF Watched
  <2>3. vt = "gui" /\ ("release" \in signals' \/ Handling("text")') =>
          leaving \/ "acquire" \in signals'
    <3>1. CASE s = "release"
      BY <1>1, <2>1, <3>1 DEF Watched
    <3>2. CASE s = "acquire"
      <4>1. \A f \in InProgress' : f.to = "gui"
        BY <1>2, <1>3, <2>1, <3>2
      <4>2. \A f \in InProgress : f.to = "gui"
        BY <1>2, <1>5, <4>1
      <4>3. ~Drm!Masked("release")
        BY <1>1, <4>2, MaskedIsHandled DEF Drm!Target
      <4> QED BY <1>1, <3>2, <4>1, <4>3 DEF Handling
    <3> QED BY <3>1, <3>2
  <2> QED BY <1>1, <1>2, <1>3, <2>2, <2>3 DEF Watched
<1> QED BY <1>4, <1>6, <1>7 DEF CallInv, Ways

LEMMA CallPressed ==
  ASSUME CallInv, NEW to \in {"gui", "text"}, Drm!Press(to)
  PROVE  CallInv'
<1>1. /\ pc \notin {"setup", "init"} /\ Drm!Switch(to) /\ typed' = Append(typed, to)
      /\ UNCHANGED <<frames, paused, asked, overlap, pc>>
  BY DEF Drm!Press, Drm!lvgl
<1>2. InProgress' = InProgress
  BY <1>1 DEF InProgress
<1>3. CallTypes /\ vt \in {"gui", "text"} /\ typed' \in Seq({"gui", "text"})
  BY <1>1 DEF CallInv, CallTypes
<1>4. Handling("text")' <=> Handling("text")
  BY <1>2 DEF Handling
<1>5. CASE to = "gui"
  <2>1. /\ vt' = "gui" /\ UNCHANGED leaving
        /\ signals' = IF vt = "text" THEN signals \cup {"acquire"} ELSE signals
    BY <1>1, <1>5 DEF Drm!Switch
  <2>2. CallTypes'
    BY <1>1, <1>3, <2>1 DEF CallTypes
  <2>3. AllOneWay => AllOneWay'
    BY <1>1, <1>2, <2>1 DEF AllOneWay
  <2>4. Watched => Watched'
    BY <1>1, <1>2, <1>3, <1>4, <2>1 DEF Watched
  <2> QED BY <1>1, <2>2, <2>3, <2>4 DEF CallInv, Ways
<1>6. CASE to = "text"
  <2>1. /\ leaving' = (vt = "gui") /\ UNCHANGED vt
        /\ signals' = IF vt = "gui" THEN signals \cup {"release"} ELSE signals
    BY <1>1, <1>6 DEF Drm!Switch
  <2>2. CallTypes'
    <3>1. leaving' \in BOOLEAN
      BY <2>1
    <3> QED BY <1>1, <1>3, <2>1, <3>1 DEF CallTypes
  <2>3. AllOneWay => AllOneWay'
    BY <1>1, <1>2, <2>1 DEF AllOneWay
  <2>4. Watched => Watched'
    BY <1>1, <1>2, <1>3, <2>1 DEF Watched
  <2> QED BY <1>1, <2>2, <2>3, <2>4 DEF CallInv, Ways
<1> QED BY <1>5, <1>6

\* A call that begins without a signal.
LEMMA CallAdded ==
  ASSUME CallInv, NEW t \in Drm!Threads, frames[t] = <<>>,
         NEW to \in {"gui", "text"}, NEW by \in {"setup", "button", "keys"},
         by = "setup" => to = "gui", by = "button" => to = "text", t = "keys" => by = "keys",
         Drm!Begins([frames EXCEPT ![t] = <<Drm!Frame(to, by)>>]),
         pc' \notin {"setup", "init"}, pc \in {"setup", "init"} => by = "setup",
         typed' \in Seq({"gui", "text"}),
         UNCHANGED <<vt, leaving, signals, paused, asked>>
  PROVE  CallInv'
<1> DEFINE new == Drm!Frame(to, by)
<1>1. new = [to |-> to, by |-> by, step |-> IF to = "gui" THEN "activate" ELSE "pause"]
  BY DEF Drm!Frame
<1>2. new \in Calls
  BY <1>1 DEF Calls
<1>3. new.to = to /\ new.by = by /\ new.step = IF to = "gui" THEN "activate" ELSE "pause"
  BY <1>1
<1> HIDE DEF new
<1>4. CallTypes /\ Drm!Begins([frames EXCEPT ![t] = <<new>>]) /\ (t = "keys" => new.by = "keys")
  BY <1>3 DEF CallInv, new
<1>5. /\ InProgress' = InProgress \cup {new}
      /\ frames' \in [Drm!Threads -> Seq(Calls)]
      /\ \A f \in Drm!ToSet(frames'["keys"]) : f.by = "keys"
      /\ (~overlap' => ~overlap /\ \A f, g \in InProgress' : f.to = g.to)
  BY <1>2, <1>4, CallBegins
<1>6. CallTypes'
  BY <1>4, <1>5 DEF CallTypes
<1>7. ASSUME ~overlap' PROVE AllOneWay'
  BY <1>3, <1>5, <1>7 DEF AllOneWay, CallInv, Ways
<1>8. Handling("text")' => Handling("text")
  BY <1>3, <1>5 DEF Handling
<1>9. ASSUME ~overlap' PROVE Watched'
  BY <1>3, <1>5, <1>8, <1>9 DEF Watched, CallInv, Ways
<1> QED BY <1>6, <1>7, <1>9 DEF CallInv, Ways

LEMMA CallNext == CallInv /\ [Drm!Next]_(Drm!vars) => CallInv'
<1> SUFFICES ASSUME CallInv, [Drm!Next]_(Drm!vars) PROVE CallInv'
  OBVIOUS
<1>1. CallTypes /\ "main" \in Drm!Threads /\ "keys" \in Drm!Threads
  BY DEF CallInv, Drm!Threads
<1>2. CASE UNCHANGED Drm!vars
  BY <1>2, CallsRest DEF Drm!vars, Drm!lvgl
<1>3. CASE Drm!SetUp
  BY <1>3, CallsRest DEF Drm!SetUp
<1>4. CASE Drm!RefrStart
  BY <1>4, CallsRest DEF Drm!RefrStart, Drm!Goes
<1>5. CASE Drm!FlushWait
  BY <1>5, CallsRest DEF Drm!FlushWait
<1>6. CASE Drm!Render
  BY <1>6, CallsRest DEF Drm!Render, Drm!Goes
<1>7. CASE Drm!Flush
  BY <1>7, CallsRest DEF Drm!Flush, Drm!Goes
<1>8. CASE Drm!VBlank
  BY <1>8, CallsRest DEF Drm!VBlank, Drm!lvgl
<1>9. CASE Drm!Changes
  BY <1>9, CallsRest DEF Drm!Changes, Drm!Goes
<1>10. CASE Drm!InitDisplay
  <2>1. /\ pc = "init" /\ Drm!Begins([frames EXCEPT !["main"] = <<Drm!Frame("gui", "setup")>>])
        /\ pc' = "sleep" /\ UNCHANGED <<vt, leaving, signals, typed, paused, asked>>
    BY <1>10 DEF Drm!InitDisplay
  <2>2. frames["main"] = <<>> /\ typed' \in Seq({"gui", "text"})
    BY <1>1, <2>1 DEF CallTypes
  <2> QED BY <1>1, <2>1, <2>2, CallAdded
<1>11. CASE Drm!TerminalButton
  <2>1. /\ pc = "timers" /\ Drm!Begins([frames EXCEPT !["main"] = <<Drm!Frame("text", "button")>>])
        /\ frames["main"] = <<>> /\ UNCHANGED <<vt, leaving, signals, typed, paused, asked, pc>>
    BY <1>11 DEF Drm!TerminalButton
  <2>2. typed' \in Seq({"gui", "text"})
    BY <1>1, <2>1 DEF CallTypes
  <2> QED BY <1>1, <2>1, <2>2, CallAdded
<1>12. CASE Drm!HandleTty
  <2>1. /\ frames["keys"] = <<>> /\ typed # <<>> /\ typed' = Tail(typed)
        /\ Drm!Begins([frames EXCEPT !["keys"] = <<Drm!Frame(Head(typed), "keys")>>])
        /\ UNCHANGED <<vt, leaving, signals, paused, asked, pc>>
    BY <1>12 DEF Drm!HandleTty, Drm!lvgl
  <2>2. /\ Head(typed) \in {"gui", "text"} /\ typed' \in Seq({"gui", "text"})
        /\ pc \notin {"setup", "init"}
    <3>1. typed \in Seq({"gui", "text"}) /\ pc \notin {"setup", "init"}
      BY <1>1, <2>1 DEF CallTypes
    <3> QED BY <2>1, <3>1, HeadTailProperties
  <2> QED BY <1>1, <2>1, <2>2, CallAdded
<1>13. CASE Drm!TimerHandler
  <2>1. /\ UNCHANGED <<vt, leaving, signals, typed, frames, paused, overlap>>
        /\ asked' \in BOOLEAN /\ pc \notin {"setup", "init"} /\ pc' \notin {"setup", "init"}
    BY <1>13 DEF Drm!TimerHandler, Drm!Goes
  <2>2. InProgress' = InProgress
    BY <2>1 DEF InProgress
  <2>3. CallTypes'
    BY <1>1, <2>1 DEF CallTypes
  <2>4. AllOneWay => AllOneWay'
    BY <2>1, <2>2 DEF AllOneWay
  <2>5. Watched => Watched'
    BY <2>1, <2>2 DEF Watched, Handling
  <2> QED BY <2>1, <2>3, <2>4, <2>5 DEF CallInv, Ways
<1> QED
  BY <1>1, <1>2, <1>3, <1>4, <1>5, <1>6, <1>7, <1>8, <1>9, <1>10, <1>11, <1>12, <1>13,
     CallRuns, CallDelivered, CallPressed DEF Drm!Next, Drm!Lvgl, Drm!Keys

LEMMA ScreenTypesNext == TearInv /\ ScreenTypes /\ [Drm!Next]_(Drm!vars) => ScreenTypes'
<1> SUFFICES ASSUME TearInv, ScreenTypes, [Drm!Next]_(Drm!vars) PROVE ScreenTypes'
  OBVIOUS
<1> USE DEF ScreenTypes, Drm!Buffers, Drm!NoBuffer, Drm!Black, Drm!kernel, Drm!lvgl
<1>1. CASE UNCHANGED Drm!vars
  BY <1>1 DEF Drm!vars
<1>2. CASE Drm!SetUp
  BY <1>2 DEF Drm!SetUp, Drm!Allocated
<1>3. CASE Drm!InitDisplay
  BY <1>3 DEF Drm!InitDisplay
<1>4. ASSUME NEW t \in Drm!Threads, Drm!Runs(t)
      PROVE  ScreenTypes'
  <2>1. UNCHANGED <<ui, screen, pending, pc, dirty, failed, late>>
    BY <1>4 DEF Drm!Runs
  <2>2. UNCHANGED content \/ content' = [b \in Drm!Buffers |-> Drm!Black]
    BY <1>4 DEF Drm!Runs, Drm!SetsPause, Drm!Fills, Drm!SetsMode, Drm!Unpauses, Drm!Releases,
       Drm!Activates, Drm!WaitsActive
  <2>3. content' \in [Drm!Buffers -> Nat \cup {Drm!Black}]
    BY <2>2
  <2> QED BY <2>1, <2>3
<1>5. CASE \E s \in {"release", "acquire"} : Drm!Deliver(s)
  BY <1>5 DEF Drm!Deliver
<1>6. CASE Drm!TimerHandler
  BY <1>6 DEF Drm!TimerHandler, Drm!Goes
<1>7. CASE Drm!RefrStart
  BY <1>7 DEF Drm!RefrStart, Drm!Goes
<1>8. CASE Drm!FlushWait
  BY <1>8 DEF Drm!FlushWait
<1>9. CASE Drm!Render
  BY <1>9 DEF Drm!Render, Drm!Goes, TearInv, Alternates
<1>10. CASE Drm!Flush
  <2>1. /\ pc' = "sleep" /\ dirty = "none" /\ UNCHANGED <<ui, content, screen, dirty>>
        /\ active \in {0, 1}
    BY <1>10 DEF Drm!Flush, Drm!Goes, TearInv, Alternates
  <2>2. \/ late' = TRUE /\ UNCHANGED <<pending, failed>>
        \/ pending' = active /\ UNCHANGED failed
        \/ failed' = TRUE /\ UNCHANGED pending
    BY <1>10 DEF Drm!Flush, Drm!SetPlane
  <2> QED BY <2>1, <2>2
<1>11. CASE Drm!VBlank
  BY <1>11 DEF Drm!VBlank
<1>12. CASE Drm!HandleTty
  BY <1>12 DEF Drm!HandleTty
<1>13. CASE Drm!Changes
  BY <1>13 DEF Drm!Changes, Drm!Goes
<1>14. CASE Drm!TerminalButton
  BY <1>14 DEF Drm!TerminalButton
<1>15. CASE \E to \in {"gui", "text"} : Drm!Press(to)
  BY <1>15 DEF Drm!Press
<1> QED
  BY <1>1, <1>2, <1>3, <1>4, <1>5, <1>6, <1>7, <1>8, <1>9, <1>10, <1>11, <1>12, <1>13, <1>14,
     <1>15 DEF Drm!Next, Drm!Lvgl, Drm!Keys, Drm!Threads

\* What a call in progress does to what is drawn.
LEMMA HeldRuns ==
  ASSUME CallInv, ~overlap, Held, NEW t \in Drm!Threads, Drm!Runs(t)
  PROVE  Held'
<1>1. UNCHANGED <<ui, pc, dirty, act, whole>>
  BY DEF Drm!Runs, Drm!lvgl
<1>2. CASE UNCHANGED <<content, paused, asked>>
  BY <1>1, <1>2 DEF Held, Drawn
<1>3. CASE Drm!SetsPause(t)
  BY <1>3 DEF Drm!SetsPause, Held
<1>4. CASE Drm!Unpauses(t)
  BY <1>1, <1>4 DEF Drm!Unpauses, Held, Drawn
<1>5. CASE Drm!Fills(t)
  <2>1. frames[t] # <<>> /\ CallTypes
    BY DEF Drm!Runs, CallInv
  <2>2. Drm!Top(t) \in Drm!ToSet(frames[t]) /\ Drm!Top(t) \in Calls
    BY <2>1, LastEnds DEF CallTypes, Drm!Top, Drm!ToSet
  <2>3. Drm!Top(t) \in InProgress
    BY <2>2 DEF InProgress, Drm!Threads
  <2>4. Drm!Top(t).step = "fill" /\ Drm!Top(t).to = "text"
    BY <1>5, <2>2 DEF Drm!Fills, Calls
  <2>5. paused
    BY <2>3, <2>4 DEF CallInv, Ways, AllOneWay
  <2> QED BY <1>5, <2>5 DEF Drm!Fills, Held
<1> QED
  BY <1>2, <1>3, <1>4, <1>5
  DEF Drm!Runs, Drm!SetsMode, Drm!Releases, Drm!Activates, Drm!WaitsActive

LEMMA HeldNext ==
  ASSUME TearInv, CallInv, ScreenTypes, ~overlap, Held, [Drm!Next]_(Drm!vars)
  PROVE  Held'
<1> USE DEF Drm!kernel, Drm!lvgl, Drm!console
<1>1. CASE UNCHANGED Drm!vars
  BY <1>1 DEF Drm!vars, Held, Drawn
<1>2. CASE Drm!SetUp
  BY <1>2 DEF Drm!SetUp, Held, ScreenTypes
<1>3. CASE Drm!InitDisplay
  BY <1>3 DEF Drm!InitDisplay, Held, ScreenTypes
<1>4. CASE \E t \in Drm!Threads : Drm!Runs(t)
  BY <1>4, HeldRuns
<1>5. CASE \E s \in {"release", "acquire"} : Drm!Deliver(s)
  BY <1>5 DEF Drm!Deliver, Held, Drawn
<1>6. CASE Drm!TimerHandler
  BY <1>6 DEF Drm!TimerHandler, Drm!Goes, Held, Drawn
<1>7. CASE Drm!RefrStart
  BY <1>7 DEF Drm!RefrStart, Drm!Goes, Held, Drawn
<1>8. CASE Drm!FlushWait
  BY <1>8 DEF Drm!FlushWait, Held, Drawn
<1>9. CASE Drm!Render
  <2>1. /\ pc = "render" /\ pc' = "flush" /\ dirty' = "none"
        /\ UNCHANGED <<paused, asked, ui, act>>
        /\ (whole' <=> dirty = "full")
        /\ content' = [content EXCEPT ![act] =
             IF dirty = "full" \/ (IF whole THEN content[1 - act] ELSE content[act]) # Drm!Black
             THEN ui ELSE Drm!Black]
    BY <1>9 DEF Drm!Render, Drm!Goes
  <2>2. act \in {0, 1} /\ DOMAIN content = {0, 1}
    BY DEF TearInv, Alternates, ScreenTypes, Drm!Buffers
  <2>3. CASE paused \/ asked
    BY <2>1, <2>3 DEF Held
  <2>4. CASE ~paused /\ ~asked
    <3>1. dirty = "full" \/ Drawn
      BY <2>4 DEF Held
    <3>2. content'[act] = ui /\ content'[1 - act] = content[1 - act]
      BY <2>1, <2>2, <3>1 DEF Drawn
    <3>3. ~whole' => content[1 - act] # Drm!Black
      BY <2>1, <3>1 DEF Drawn
    <3> QED BY <2>1, <3>2, <3>3 DEF Held, Drawn
  <2> QED BY <2>3, <2>4
<1>10. CASE Drm!Flush
  <2>1. /\ pc = "flush" /\ pc' = "sleep" /\ act' = 1 - act /\ 1 - act' = act /\ dirty = "none"
        /\ UNCHANGED <<paused, asked, ui, content, dirty, whole>>
    BY <1>10 DEF Drm!Flush, Drm!Goes, TearInv, Alternates, Drm!Buffers, ScreenTypes
  <2>2. ui # Drm!Black
    BY DEF ScreenTypes, Drm!Black
  <2> QED BY <2>1, <2>2 DEF Held, Drawn
<1>11. CASE Drm!VBlank
  BY <1>11 DEF Drm!VBlank, Held, Drawn
<1>12. CASE Drm!HandleTty
  BY <1>12 DEF Drm!HandleTty, Held, Drawn
<1>13. CASE Drm!Changes
  BY <1>13 DEF Drm!Changes, Drm!Goes, Held, Drawn
<1>14. CASE Drm!TerminalButton
  BY <1>14 DEF Drm!TerminalButton, Held, Drawn
<1>15. CASE \E to \in {"gui", "text"} : Drm!Press(to)
  BY <1>15 DEF Drm!Press, Held, Drawn
<1> QED
  BY <1>1, <1>2, <1>3, <1>4, <1>5, <1>6, <1>7, <1>8, <1>9, <1>10, <1>11, <1>12, <1>13, <1>14,
     <1>15 DEF Drm!Next, Drm!Lvgl, Drm!Keys, Drm!Threads

DrmInv == TearInv /\ CallInv /\ ScreenTypes /\ (~overlap => Held)

LEMMA DrmInit == Init => DrmInv
<1> SUFFICES ASSUME Init PROVE DrmInv
  OBVIOUS
<1>1. Drm!Init
  BY DEF Init
<1>2. frames["main"] = <<>> /\ frames["keys"] = <<>> /\ frames \in [Drm!Threads -> Seq(Calls)]
  BY <1>1 DEF Drm!Init, Drm!Threads
<1>3. InProgress = {}
  BY <1>2 DEF InProgress, Drm!ToSet
<1>4. CallTypes
  <2>1. Drm!ToSet(<<>>) = {} /\ <<>> \in Seq({"gui", "text"})
    BY DEF Drm!ToSet
  <2>2. /\ signals = {} /\ vt = "text" /\ typed = <<>>
        /\ paused = FALSE /\ asked = FALSE /\ leaving = FALSE
    BY <1>1 DEF Drm!Init
  <2> QED BY <1>2, <2>1, <2>2 DEF CallTypes
<1>5. Ways
  BY <1>1, <1>3 DEF Drm!Init, Ways, AllOneWay, Watched, Handling
<1>6. ScreenTypes /\ Held
  BY <1>1 DEF Drm!Init, ScreenTypes, Held, Drm!Allocated, Drm!Buffers, Drm!NoBuffer
<1> QED BY <1>4, <1>5, <1>6, TearInit DEF DrmInv, CallInv

LEMMA DrmNext == DrmInv /\ [Drm!Next]_(Drm!vars) => DrmInv'
<1> SUFFICES ASSUME DrmInv, [Drm!Next]_(Drm!vars) PROVE DrmInv'
  OBVIOUS
<1>1. overlap => overlap'
  BY DEF Drm!Next, Drm!Lvgl, Drm!Keys, Drm!vars, Drm!console, Drm!SetUp, Drm!InitDisplay, Drm!Runs,
     Drm!Deliver, Drm!TimerHandler, Drm!RefrStart, Drm!FlushWait, Drm!Render, Drm!Flush,
     Drm!VBlank, Drm!HandleTty, Drm!Changes, Drm!TerminalButton, Drm!Press, Drm!Begins
<1> QED BY <1>1, TearNext, CallNext, ScreenTypesNext, HeldNext DEF DrmInv

\* At rest nobody is on the way any more.
LEMMA DrmShows == DrmInv => Drm!ShowsLatest /\ Drm!PausedWhileAway
<1> SUFFICES ASSUME DrmInv PROVE Drm!ShowsLatest /\ Drm!PausedWhileAway
  OBVIOUS
<1>1. Drm!ShowsLatest
  <2> SUFFICES ASSUME Drm!AtRest, ~failed, ~late, ~overlap
               PROVE  screen # Drm!NoBuffer /\ content[screen] = ui
    BY DEF Drm!ShowsLatest
  <2>1. pc = "sleep" /\ ~paused /\ dirty = "none" /\ ~asked /\ pending = Drm!NoBuffer
    BY DEF Drm!AtRest
  <2>2. content[1 - act] = ui
    BY <2>1 DEF DrmInv, Held, Drawn
  <2>3. screen \in {0, 1} /\ screen # act /\ act \in {0, 1}
    BY <2>1 DEF DrmInv, ScreenTypes, TearInv, Alternates, Drm!Buffers
  <2>4. screen = 1 - act
    BY <2>3
  <2> QED BY <2>2, <2>3, <2>4 DEF Drm!NoBuffer
<1>2. Drm!PausedWhileAway
  <2> SUFFICES ASSUME Drm!Quiet, pc \notin {"setup", "init"}, ~overlap
               PROVE  paused <=> vt = "text"
    BY DEF Drm!PausedWhileAway
  <2>1. frames["main"] = <<>> /\ frames["keys"] = <<>> /\ signals = {}
    BY DEF Drm!Quiet, Drm!Threads
  <2>2. InProgress = {}
    BY <2>1 DEF InProgress, Drm!ToSet
  <2>3. Watched /\ vt \in {"gui", "text"}
    BY DEF DrmInv, CallInv, Ways, CallTypes
  <2> QED BY <2>1, <2>2, <2>3 DEF Watched
<1> QED BY <1>1, <1>2

-----------------------------------------------------------------------------
(* The screen of a frame buffer.                                           *)

FbCalls == {Fbdev!NoCall, [to |-> "gui", step |-> "unpause"],
  [to |-> "text", step |-> "pause"], [to |-> "text", step |-> "fill"]}
FbTypes ==
  /\ fbCalls \in [Fbdev!Callers -> FbCalls]
  /\ fbPaused \in BOOLEAN /\ fbAsked \in BOOLEAN /\ sem \in Nat /\ pan \in {"wait", "pan"}
  /\ now \in [Areas -> Int] /\ drawn \in [Areas -> Int]
  /\ mem \in [Areas -> Int] /\ visible \in [Areas -> Int]
  /\ invalid \subseteq Areas /\ fbTodo \subseteq Areas
  /\ at = "copy" => area \in Areas
  /\ at = "sleep" => fbTodo = {}

\* Unless opposite calls met, the calls in progress want the same, and the memory is
\* blanked only while nothing is copied.
OneWay ==
  /\ \A t, c \in Fbdev!Callers : {fbCalls[t].to, fbCalls[c].to} # {"gui", "text"}
  /\ \A t \in Fbdev!Callers : fbCalls[t].step = "fill" => fbPaused

\* What is not to be drawn again is drawn as it is now; what is not to be flushed is in the
\* memory; and the device shows the memory, or is going to.
Flushed ==
  /\ \A a \in Areas \ invalid : drawn[a] = now[a]
  /\ ~fbPaused /\ ~fbAsked /\ ~fbOverlap =>
       /\ \A a \in Areas \ (invalid \cup fbTodo) : (at = "copy" /\ area = a) \/ mem[a] = drawn[a]
       /\ visible = mem \/ fbTodo # {} \/ at \in {"copy", "release"} \/ sem > 0 \/ pan = "pan"

FbInv == FbTypes /\ (~fbOverlap => OneWay) /\ Flushed

LEMMA FbInit == Init => FbInv
<1> SUFFICES ASSUME Init PROVE FbInv
  OBVIOUS
<1>1. Fbdev!Init
  BY DEF Init
<1> USE DEF Fbdev!Init, Fbdev!Blank, Fbdev!NoCall, FbCalls
<1>2. FbTypes
  <2>1. fbCalls \in [Fbdev!Callers -> FbCalls]
    BY <1>1
  <2>2. /\ now \in [Areas -> Int] /\ drawn \in [Areas -> Int]
        /\ mem \in [Areas -> Int] /\ visible \in [Areas -> Int]
    BY <1>1
  <2> QED BY <1>1, <2>1, <2>2 DEF FbTypes
<1>3. OneWay
  BY <1>1 DEF OneWay
<1>4. Flushed
  BY <1>1 DEF Flushed
<1> QED BY <1>2, <1>3, <1>4 DEF FbInv

LEMMA FbTypesNext == FbTypes /\ [Fbdev!Next]_(Fbdev!vars) => FbTypes'
<1> SUFFICES ASSUME FbTypes, [Fbdev!Next]_(Fbdev!vars) PROVE FbTypes'
  OBVIOUS
<1> USE DEF FbTypes, Fbdev!modes, Fbdev!lvgl, Fbdev!device, FbCalls, Fbdev!NoCall, Fbdev!Goes,
  Fbdev!Blank
<1>1. CASE UNCHANGED Fbdev!vars
  BY <1>1 DEF Fbdev!vars
<1>2. ASSUME NEW t \in Fbdev!Callers, NEW to \in {"gui", "text"}, Fbdev!Turn(t, to)
      PROVE  FbTypes'
  BY <1>2 DEF Fbdev!Turn
<1>3. ASSUME NEW t \in Fbdev!Callers, Fbdev!Pauses(t)
      PROVE  FbTypes'
  BY <1>3 DEF Fbdev!Pauses
<1>4. ASSUME NEW t \in Fbdev!Callers, Fbdev!Fills(t)
      PROVE  FbTypes'
  BY <1>4 DEF Fbdev!Fills
<1>5. ASSUME NEW t \in Fbdev!Callers, Fbdev!Unpauses(t)
      PROVE  FbTypes'
  BY <1>5 DEF Fbdev!Unpauses
<1>6. ASSUME NEW a \in Areas, Fbdev!Changes(a)
      PROVE  FbTypes'
  BY <1>6 DEF Fbdev!Changes
<1>7. CASE Fbdev!Refresh
  BY <1>7 DEF Fbdev!Refresh
<1>8. CASE Fbdev!FlushTest
  BY <1>8 DEF Fbdev!FlushTest
<1>9. CASE Fbdev!Copy
  BY <1>9 DEF Fbdev!Copy
<1>10. CASE Fbdev!Release
  BY <1>10 DEF Fbdev!Release
<1>11. CASE Fbdev!Acquire
  BY <1>11 DEF Fbdev!Acquire
<1>12. CASE Fbdev!Pan
  BY <1>12 DEF Fbdev!Pan
<1> QED
  BY <1>1, <1>2, <1>3, <1>4, <1>5, <1>6, <1>7, <1>8, <1>9, <1>10, <1>11, <1>12
  DEF Fbdev!Next, Fbdev!Mode

LEMMA OneWayNext ==
  FbTypes /\ (~fbOverlap => OneWay) /\ [Fbdev!Next]_(Fbdev!vars) => (~fbOverlap => OneWay)'
<1> SUFFICES ASSUME FbTypes, ~fbOverlap => OneWay, [Fbdev!Next]_(Fbdev!vars), ~fbOverlap'
             PROVE  OneWay'
  OBVIOUS
<1> USE DEF Fbdev!modes, Fbdev!lvgl, Fbdev!device, FbCalls, Fbdev!NoCall
<1>1. ASSUME UNCHANGED <<fbCalls, fbPaused, fbOverlap>>
      PROVE  OneWay'
  BY <1>1 DEF OneWay
<1>2. fbCalls \in [Fbdev!Callers -> FbCalls]
  BY DEF FbTypes
<1>3. ASSUME NEW t \in Fbdev!Callers, NEW to \in {"gui", "text"}, Fbdev!Turn(t, to)
      PROVE  OneWay'
  <2>1. /\ ~fbOverlap /\ \A c \in Fbdev!Callers \ {t} : fbCalls[c].to \in {"none", to}
        /\ fbCalls' = [fbCalls EXCEPT ![t] =
             [to |-> to, step |-> IF to = "gui" THEN "unpause" ELSE "pause"]]
        /\ UNCHANGED fbPaused
    BY <1>3 DEF Fbdev!Turn
  <2> QED BY <1>2, <2>1 DEF OneWay
<1>4. ASSUME NEW t \in Fbdev!Callers, Fbdev!Pauses(t)
      PROVE  OneWay'
  BY <1>2, <1>4 DEF Fbdev!Pauses, OneWay
<1>5. ASSUME NEW t \in Fbdev!Callers, Fbdev!Fills(t)
      PROVE  OneWay'
  BY <1>2, <1>5 DEF Fbdev!Fills, OneWay
<1>6. ASSUME NEW t \in Fbdev!Callers, Fbdev!Unpauses(t)
      PROVE  OneWay'
  BY <1>2, <1>6 DEF Fbdev!Unpauses, OneWay
<1> QED
  BY <1>1, <1>3, <1>4, <1>5, <1>6
  DEF Fbdev!Next, Fbdev!Mode, Fbdev!Changes, Fbdev!Refresh, Fbdev!FlushTest, Fbdev!Copy,
      Fbdev!Release, Fbdev!Acquire, Fbdev!Pan, Fbdev!vars

LEMMA FlushedNext == FbInv /\ [Fbdev!Next]_(Fbdev!vars) => Flushed'
<1> SUFFICES ASSUME FbInv, [Fbdev!Next]_(Fbdev!vars) PROVE Flushed'
  OBVIOUS
<1> USE DEF FbInv, Fbdev!modes, Fbdev!lvgl, Fbdev!device, Fbdev!Goes
<1>1. CASE UNCHANGED Fbdev!vars
  BY <1>1 DEF Fbdev!vars, Flushed
<1>2. ASSUME NEW t \in Fbdev!Callers, NEW to \in {"gui", "text"}, Fbdev!Turn(t, to)
      PROVE  Flushed'
  BY <1>2 DEF Fbdev!Turn, Flushed
<1>3. ASSUME NEW t \in Fbdev!Callers, Fbdev!Pauses(t)
      PROVE  Flushed'
  BY <1>3 DEF Fbdev!Pauses, Flushed
<1>4. ASSUME NEW t \in Fbdev!Callers, Fbdev!Fills(t)
      PROVE  Flushed'
  BY <1>4 DEF Fbdev!Fills, Flushed, OneWay
<1>5. ASSUME NEW t \in Fbdev!Callers, Fbdev!Unpauses(t)
      PROVE  Flushed'
  BY <1>5 DEF Fbdev!Unpauses, Flushed, FbTypes
<1>6. ASSUME NEW a \in Areas, Fbdev!Changes(a)
      PROVE  Flushed'
  BY <1>6 DEF Fbdev!Changes, Flushed, FbTypes
<1>7. CASE Fbdev!Refresh
  <2>1. CASE Areas = {}
    BY <1>7, <2>1 DEF Fbdev!Refresh, Flushed, FbTypes
  <2>2. CASE Areas # {}
    BY <1>7, <2>2 DEF Fbdev!Refresh, Flushed, FbTypes
  <2> QED BY <2>1, <2>2
<1>8. CASE Fbdev!FlushTest
  BY <1>8 DEF Fbdev!FlushTest, Flushed, FbTypes
<1>9. CASE Fbdev!Copy
  BY <1>9 DEF Fbdev!Copy, Flushed, FbTypes
<1>10. CASE Fbdev!Release
  BY <1>10 DEF Fbdev!Release, Flushed, FbTypes
<1>11. CASE Fbdev!Acquire
  BY <1>11 DEF Fbdev!Acquire, Flushed, FbTypes
<1>12. CASE Fbdev!Pan
  BY <1>12 DEF Fbdev!Pan, Flushed, FbTypes
<1> QED
  BY <1>1, <1>2, <1>3, <1>4, <1>5, <1>6, <1>7, <1>8, <1>9, <1>10, <1>11, <1>12
  DEF Fbdev!Next, Fbdev!Mode

LEMMA FbNext == FbInv /\ [Fbdev!Next]_(Fbdev!vars) => FbInv'
BY FbTypesNext, OneWayNext, FlushedNext DEF FbInv

\* At rest nothing is left to be drawn, flushed or panned to.
LEMMA FbShows == FbInv => Fbdev!ShowsLatest
<1> SUFFICES ASSUME FbInv, Fbdev!AtRest, ~fbOverlap PROVE visible = now
  BY DEF Fbdev!ShowsLatest
<1>1. /\ ~fbPaused /\ ~fbAsked /\ at = "sleep" /\ invalid = {} /\ fbTodo = {}
      /\ sem = 0 /\ pan = "wait"
  BY DEF Fbdev!AtRest, FbInv, FbTypes
<1>2. visible = mem /\ \A a \in Areas : mem[a] = now[a]
  BY <1>1 DEF FbInv, Flushed
<1> QED BY <1>2 DEF FbInv, FbTypes

-----------------------------------------------------------------------------
\* With nothing left to do the screen shows what the widgets say, also after another
\* terminal was in front, on the connector of a card (drm.cpp) as on a frame buffer
\* (fbdev.cpp); drawing is stopped exactly while another terminal is in front; and the
\* display that display_init finds shows its picture where it was looked for.
THEOREM ScreensAreTrue == Spec => []ScreenIsTrue
<1>1. Init => DrmInv /\ FbInv /\ SetupInv
  BY DrmInit, FbInit, SetupInit
<1>2. DrmInv /\ FbInv /\ SetupInv /\ [Next]_vars => (DrmInv /\ FbInv /\ SetupInv)'
  BY StepOfPart, DrmNext, FbNext, SetupNext
<1>3. DrmInv /\ FbInv /\ SetupInv => ScreenIsTrue
  BY DrmShows, FbShows, SetupShows DEF ScreenIsTrue
<1> QED BY <1>1, <1>2, <1>3, PTL DEF Spec
=============================================================================
