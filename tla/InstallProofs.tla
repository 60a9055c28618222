--------------------------- MODULE InstallProofs ---------------------------
(***************************************************************************)
(* What holds of an installation: of its three programs, "helper write",   *)
(* which the script runs, for files, offsets, lengths and blocks of any    *)
(* size; the flashers, which run the script, for any number of them; the   *)
(* progress page, which runs a flasher, for any number of status lines;    *)
(* and of the URLs that lead to the image, for texts of any length.        *)
(***************************************************************************)
EXTENDS HelperWrite, MCInstall, TLAPS, SequenceTheorems, WellFoundedInduction

-----------------------------------------------------------------------------
(* helper write *)

\* The options are complete: the copy has begun, and nothing went wrong before it.
Opened == main \in {"copy", "count"} \/ (main \in {"stop", "join", "sync", "done"} /\ ~error)

Types ==
  /\ opts.block \in Nat /\ opts.inOff \in Nat /\ opts.outOff \in Nat
  /\ written \in Nat /\ moved \in Nat
  /\ error \in BOOLEAN
  /\ device \in [Cells -> Int]

\* Before the copy the options are those of a command line; then they say how
\* much there is to do, all of it within reach.
Begun ==
  /\ main \in {"args", "open"} => opts \in Options /\ ~error
  /\ Opened => opts.length \in Int /\ opts.outOff + opts.length <= Reach + 1
  /\ main = "sync" => ~error

\* The counter lags behind only while it waits for its lock, and a good end
\* comes when it has reached the length.
Counted ==
  /\ main # "count" => moved = 0
  /\ main = "done" => ~error /\ written = opts.length

WriteInv == Types /\ Begun /\ Counted /\ CopyExact

-----------------------------------------------------------------------------
\* The command begins as it should.
LEMMA WriteInit == Init => WriteInv
<1> SUFFICES ASSUME Init PROVE WriteInv
  OBVIOUS
<1>1. Types /\ Begun /\ Counted
  <2>1. opts.block \in Nat /\ opts.inOff \in Nat /\ opts.outOff \in Nat
    BY WriteAssumption DEF Init
  <2>2. device \in [Cells -> Int]
    BY DEF Init
  <2> QED BY <2>1, <2>2 DEF Init, Types, Begun, Counted, Opened
<1>2. CopyExact
  BY WriteAssumption DEF Init, CopyExact
<1> QED BY <1>1, <1>2 DEF WriteInv

\* What a command line asks for is a number of cells.
LEMMA LengthIsInt == \A o \in Options : Length(o) \in Int
<1> SUFFICES ASSUME NEW o \in Options PROVE Length(o) \in Int
  OBVIOUS
<1>1. o.block \in Nat /\ o.count \in Nat /\ o.length \in Nat /\ o.inOff \in Nat /\ InSize \in Nat
  BY WriteAssumption
<1>2. o.count * o.block \in Int
  BY <1>1
<1>3. InSize - o.inOff \in Int
  BY <1>1
<1> HIDE <1>1
<1> QED BY <1>1, <1>2, <1>3 DEF Length

\* The options are completed, or the command ends.
LEMMA OpenKeeps == WriteInv /\ OpenDevice => WriteInv'
<1> SUFFICES ASSUME WriteInv, OpenDevice PROVE WriteInv'
  OBVIOUS
<1>1. main = "open" /\ opts \in Options /\ ~error /\ moved = 0
  BY DEF OpenDevice, WriteInv, Begun, Counted
<1>2. UNCHANGED <<written, moved, device>>
  BY DEF OpenDevice
<1>3. CASE Throw /\ opts' = opts
  <2>1. Types' /\ Begun' /\ Counted'
    BY <1>1, <1>2, <1>3 DEF WriteInv, Types, Begun, Counted, Opened, Throw
  <2>2. CopyExact'
    BY <1>2, <1>3 DEF WriteInv, CopyExact
  <2> QED BY <2>1, <2>2 DEF WriteInv
<1>4. CASE main' = "copy" /\ error' = error
           /\ opts' = [opts EXCEPT !.length = Length(opts), !.count = Count(opts)]
  <2>1. /\ opts'.block = opts.block /\ opts'.inOff = opts.inOff /\ opts'.outOff = opts.outOff
        /\ opts'.length = Length(opts)
    BY <1>1, <1>4
  <2>2. Length(opts) \in Int /\ opts.outOff + Length(opts) <= Reach + 1
    BY <1>1, LengthIsInt, ReachAssumption
  <2>3. Types' /\ Begun' /\ Counted'
    BY <1>1, <1>2, <1>4, <2>1, <2>2 DEF WriteInv, Types, Begun, Counted, Opened
  <2>4. CopyExact'
    BY <1>2, <2>1 DEF WriteInv, CopyExact
  <2> QED BY <2>3, <2>4 DEF WriteInv
<1> QED BY <1>3, <1>4 DEF OpenDevice

\* A round of any size writes the cells that follow those written before.
LEMMA CopyKeeps == WriteInv /\ Copy => WriteInv'
<1> SUFFICES ASSUME WriteInv, Copy PROVE WriteInv'
  OBVIOUS
<1>1. main = "copy" /\ main' = "count" /\ moved = 0 /\ UNCHANGED <<error, opts, written>>
  BY DEF Copy, WriteInv, Counted
<1>2. /\ opts.length \in Int /\ opts.block \in Nat /\ opts.inOff \in Nat /\ opts.outOff \in Nat
      /\ written \in Nat /\ InSize \in Nat /\ Reach \in Nat
  BY <1>1, WriteAssumption DEF WriteInv, Types, Begun, Opened
<1>3. Left \in Int
  BY <1>2 DEF Left, ToCopy, Total, Least
<1>4. PICK n \in 1 .. Left : moved' = n /\ device' = Copied(n)
  BY DEF Copy
<1>5. n \in Nat /\ n >= 1
  BY <1>3, <1>4
<1>6. Types' /\ Begun' /\ Counted'
  <2>1. Copied(n) \in [Cells -> Int]
    BY <1>2 DEF WriteInv, Types, Cells, Copied
  <2> QED BY <1>1, <1>4, <1>5, <2>1 DEF WriteInv, Types, Begun, Counted, Opened
<1>7. CopyExact'
  <2> SUFFICES ASSUME NEW c \in Cells
               PROVE  device'[c] = IF c \in opts.outOff .. opts.outOff + written + n - 1
                                   THEN c - opts.outOff + opts.inOff ELSE -1
    BY <1>1, <1>4 DEF CopyExact
  <2>1. device[c] = IF c \in opts.outOff .. opts.outOff + written + 0 - 1
                    THEN c - opts.outOff + opts.inOff ELSE -1
    BY <1>1 DEF WriteInv, CopyExact
  <2>2. device'[c] = IF c \in opts.outOff + written .. opts.outOff + written + n - 1
                     THEN c - opts.outOff + opts.inOff ELSE device[c]
    BY <1>4 DEF Copied
  <2> QED BY <1>2, <1>5, <2>1, <2>2 DEF Cells
<1> QED BY <1>6, <1>7 DEF WriteInv

\* The counter catches up with the copy.
LEMMA CountKeeps == WriteInv /\ CountMoved => WriteInv'
<1> SUFFICES ASSUME WriteInv, CountMoved PROVE WriteInv'
  OBVIOUS
<1>1. /\ main = "count" /\ main' = "copy" /\ written' = written + moved /\ moved' = 0
      /\ UNCHANGED <<error, opts, device>> /\ written \in Nat /\ moved \in Nat
  BY DEF CountMoved, WriteInv, Types
<1>2. Types' /\ Begun' /\ Counted'
  BY <1>1 DEF WriteInv, Types, Begun, Counted, Opened
<1>3. CopyExact'
  <2>1. opts.outOff + (written + moved) + 0 - 1 = opts.outOff + written + moved - 1
    BY <1>1 DEF WriteInv, Types
  <2> QED BY <1>1, <2>1 DEF WriteInv, CopyExact
<1> QED BY <1>2, <1>3 DEF WriteInv

\* The other steps leave the data alone.
LEMMA OthersKeep ==
  ASSUME WriteInv, UNCHANGED <<opts, written, moved, device>>, main' # main => main # "count",
         \/ UNCHANGED <<main, error>>
         \/ ParseArgs \/ CopyEnds \/ CopyFails \/ StopReport \/ StopJoins \/ Finish
  PROVE  WriteInv'
<1>1. CopyExact'
  BY DEF WriteInv, CopyExact
<1>2. Types'
  BY DEF WriteInv, Types, ParseArgs, CopyEnds, CopyFails, StopReport, StopJoins, Finish, Throw
<1>3. CASE UNCHANGED <<main, error>>
  BY <1>1, <1>2, <1>3 DEF WriteInv, Begun, Counted, Opened
<1>4. CASE ParseArgs \/ CopyEnds \/ CopyFails \/ StopReport \/ StopJoins \/ Finish
  BY <1>1, <1>2, <1>4
  DEF WriteInv, Types, Begun, Counted, Opened, ParseArgs, CopyEnds, CopyFails, StopReport, StopJoins,
      Finish, Throw, Total
<1> QED BY <1>3, <1>4

\* Each step keeps the invariant.
LEMMA WriteNext == WriteInv /\ [Next]_vars => WriteInv'
<1> SUFFICES ASSUME WriteInv, [Next]_vars PROVE WriteInv'
  OBVIOUS
<1>1. CASE ParseArgs \/ CopyEnds \/ CopyFails \/ StopReport \/ StopJoins \/ Finish
  BY <1>1, OthersKeep DEF ParseArgs, CopyEnds, CopyFails, StopReport, StopJoins, Finish, copying
<1>2. CASE Fallback \/ Reporter \/ UNCHANGED vars
  BY <1>2, OthersKeep DEF Fallback, Reporter, ReportStarts, ReportLoops, ReportTicks, vars, copying
<1> QED BY <1>1, <1>2, OpenKeeps, CopyKeeps, CountKeeps DEF Next, Main

\* WriteInv is an invariant.
LEMMA WriteAlways == Spec => []WriteInv
<1> QED BY WriteInit, WriteNext, PTL DEF Spec

\* The output holds exactly what was copied, wherever the copy stands or broke off.
THEOREM CopyIsExact == Spec => []CopyExact
<1>1. WriteInv => CopyExact
  BY DEF WriteInv
<1> QED BY <1>1, WriteAlways, PTL

\* A command that ends well has copied all that was asked for.
THEOREM DoneMeansWhole == Spec => []DoneIsWhole
<1>1. WriteInv => DoneIsWhole
  <2> SUFFICES ASSUME WriteInv, main = "done", NEW i \in 0 .. opts.length - 1
               PROVE  device[opts.outOff + i] = opts.inOff + i
    BY DEF DoneIsWhole
  <2>1. /\ written = opts.length /\ moved = 0 /\ opts.outOff + opts.length <= Reach + 1
        /\ opts.outOff \in Nat /\ opts.inOff \in Nat /\ written \in Nat /\ Reach \in Nat
    BY WriteAssumption DEF WriteInv, Types, Begun, Counted, Opened
  <2>2. opts.outOff + i \in Cells /\ opts.outOff + i \in opts.outOff .. opts.outOff + written + moved - 1
    BY <2>1 DEF Cells
  <2>3. device[opts.outOff + i] = (opts.outOff + i) - opts.outOff + opts.inOff
    BY <2>2 DEF WriteInv, CopyExact
  <2> QED BY <2>1, <2>3
<1> QED BY <1>1, WriteAlways, PTL

-----------------------------------------------------------------------------
(* The flashers.  The inductive invariant follows a flasher along its way:  *)
(* what is there at each place when it sets up, what is gone at each place  *)
(* when it cleans up.                                                       *)

\* A step of an installation is a step of one of its programs.
LEMMA InstallSteps ==
  [InstallNext]_installVars => [Flash!Next]_(Flash!vars) /\ [Page!Next]_(Page!vars)
<1>1. UNCHANGED flashVars => UNCHANGED Flash!vars
  BY DEF flashVars, Flash!vars, Flash!disk, Flash!tasks
<1>2. UNCHANGED pageVars => UNCHANGED Page!vars
  BY DEF pageVars, Page!vars, Page!screen, Page!proc, Page!thread
<1>3. OfFlashers(Flash!Next) => [Flash!Next]_(Flash!vars) /\ [Page!Next]_(Page!vars)
  BY <1>2 DEF OfFlashers
<1>4. OfPage(Page!Next) => [Flash!Next]_(Flash!vars) /\ [Page!Next]_(Page!vars)
  BY <1>1 DEF OfPage
<1>5. OfUrls(Chain!Next) => [Flash!Next]_(Flash!vars) /\ [Page!Next]_(Page!vars)
  BY <1>1, <1>2 DEF OfUrls
<1>6. UNCHANGED installVars => [Flash!Next]_(Flash!vars) /\ [Page!Next]_(Page!vars)
  BY <1>1, <1>2 DEF installVars
<1> QED BY <1>3, <1>4, <1>5, <1>6 DEF InstallNext

\* The places of a flasher that has the lock and has not failed yet, from the
\* lock on, from the mount on, and from the cgroup on.
Working ==
  {"folder", "netblk", "waitblk", "readblk", "mount", "group", "script", "fork", "store", "join", "wait"}
WithImage == {"group", "script", "fork", "store", "join", "wait"}
WithGroup == {"script", "fork", "store", "join", "wait"}
BeforeScript == {"lock", "folder", "netblk", "waitblk", "readblk", "mount", "group", "script", "fork"}

\* Setting up: the lock is held, the cgroup is its own, the image is there
\* whenever the script or something of it may be.
Ahead(f) ==
  /\ pc[f] \in Working => owner = f
  /\ pc[f] \in WithGroup => group = f
  /\ pc[f] \in WithImage => mounted[f] /\ netblk[f] \in {"run", "dead"}
  /\ pc[f] \in BeforeScript => script[f] = "none"
  /\ pc[f] \in {"store", "join", "wait"} => script[f] # "none"
  /\ script[f] = "none" => child[f] = "none" /\ ~inside[f]
  /\ pc[f] \in {"kill", "tasks", "umount"} /\ script[f] # "none" =>
       mounted[f] /\ netblk[f] \in {"run", "dead"}
  /\ Flash!InGroup(f) => group = f

\* Cleaning up: what each step has ended stays ended.
Behind(f) ==
  /\ pc[f] \in {"tasks", "umount", "stopblk", "remove", "unlock", "end"} =>
       script[f] \in {"none", "gone"}
  /\ pc[f] \in {"umount", "stopblk", "remove", "unlock", "end"} =>
       held[f] \/ (child[f] # "inside" /\ group # f)
  /\ pc[f] \in {"stopblk", "remove", "unlock", "end"} =>
       held[f] \/ (child[f] \in {"none", "gone"} /\ ~mounted[f])
  /\ pc[f] \in {"remove", "unlock", "end"} => held[f] \/ netblk[f] \in {"none", "gone"}
  /\ pc[f] \in {"unlock", "end"} => held[f] \/ ~folder[f]

\* Without the lock there is nothing.
Apart(f) == owner # f /\ pc[f] # "crash" => Flash!Clean(f) \/ held[f]

FlasherInv == Flash!TypeOK /\ \A f \in Flashers : Ahead(f) /\ Behind(f) /\ Apart(f)

\* Nothing is set up in the beginning.
LEMMA FlasherInit == InstallInit => FlasherInv
  BY InstallAssumption DEF InstallInit, Flash!Init, FlasherInv, Flash!TypeOK, Flash!Typed, Flash!ScriptKnown, Flash!Places, Ahead,
     Behind, Apart, Flash!Clean, Flash!InGroup, Working, WithImage, WithGroup, BeforeScript

\* The types alone.
LEMMA FlasherTypes == Flash!Typed /\ [Flash!Next]_(Flash!vars) => Flash!Typed'
<1> SUFFICES ASSUME Flash!Typed, [Flash!Next]_(Flash!vars) PROVE Flash!Typed'
  OBVIOUS
<1> USE DEF Flash!Typed, Flash!Places, Flash!Go, Flash!Fail, Flash!Release, Flash!Die, Flash!disk,
    Flash!tasks
<1>1. ASSUME NEW f \in Flashers, Flash!SetUp(f) PROVE Flash!Typed'
  <2>1. CASE Flash!Lock(f) BY <2>1 DEF Flash!Lock
  <2>2. CASE Flash!ChooseFolder(f) BY <2>2 DEF Flash!ChooseFolder
  <2>3. CASE Flash!RunNetblk(f) BY <2>3 DEF Flash!RunNetblk
  <2>4. CASE Flash!WaitNetblk(f) BY <2>4 DEF Flash!WaitNetblk
  <2>5. CASE Flash!ReadNetblk(f) BY <2>5 DEF Flash!ReadNetblk
  <2>6. CASE Flash!MountImage(f) BY <2>6 DEF Flash!MountImage
  <2>7. CASE Flash!MakeGroup(f) BY <2>7 DEF Flash!MakeGroup
  <2>8. CASE Flash!NewScript(f) BY <2>8 DEF Flash!NewScript
  <2>9. CASE Flash!Fork(f) BY <2>9 DEF Flash!Fork
  <2>10. CASE Flash!StorePid(f) BY <2>10 DEF Flash!StorePid
  <2>11. CASE Flash!JoinGroup(f) BY <2>11 DEF Flash!JoinGroup
  <2>12. CASE Flash!WaitScript(f) BY <2>12 DEF Flash!WaitScript
  <2> QED
    BY <1>1, <2>1, <2>2, <2>3, <2>4, <2>5, <2>6, <2>7, <2>8, <2>9, <2>10, <2>11, <2>12 DEF Flash!SetUp
<1>2. ASSUME NEW f \in Flashers, Flash!CleanUp(f) PROVE Flash!Typed'
  <2>1. CASE Flash!KillScript(f) BY <2>1 DEF Flash!KillScript
  <2>2. CASE Flash!KillTasks(f) BY <2>2 DEF Flash!KillTasks
  <2>3. CASE Flash!KillTasksGivesUp(f) BY <2>3 DEF Flash!KillTasksGivesUp
  <2>4. CASE Flash!UmountImage(f) BY <2>4 DEF Flash!UmountImage
  <2>5. CASE Flash!StopNetblk(f) BY <2>5 DEF Flash!StopNetblk
  <2>6. CASE Flash!RemoveFolder(f) BY <2>6 DEF Flash!RemoveFolder
  <2>7. CASE Flash!Unlock(f) BY <2>7 DEF Flash!Unlock
  <2> QED
    BY <1>2, <2>1, <2>2, <2>3, <2>4, <2>5, <2>6, <2>7 DEF Flash!CleanUp
<1>3. ASSUME NEW f \in Flashers, Flash!Signals(f) PROVE Flash!Typed'
  <2>1. CASE Flash!Signal(f) BY <2>1 DEF Flash!Signal
  <2>2. CASE Flash!SignalCrashes(f) BY <2>2 DEF Flash!SignalCrashes
  <2>3. CASE Flash!Killed(f) BY <2>3 DEF Flash!Killed
  <2> QED
    BY <1>3, <2>1, <2>2, <2>3 DEF Flash!Signals
<1>4. ASSUME NEW f \in Flashers, Flash!Others(f) PROVE Flash!Typed'
  <2>1. CASE Flash!NetblkAnswers(f) BY <2>1 DEF Flash!NetblkAnswers
  <2>2. CASE Flash!NetblkDies(f) BY <2>2 DEF Flash!NetblkDies
  <2>3. CASE Flash!ScriptForks(f) BY <2>3 DEF Flash!ScriptForks
  <2>4. CASE Flash!ScriptExits(f) BY <2>4 DEF Flash!ScriptExits
  <2>5. CASE Flash!ChildExits(f) BY <2>5 DEF Flash!ChildExits
  <2> QED
    BY <1>4, <2>1, <2>2, <2>3, <2>4, <2>5 DEF Flash!Others
<1>5. CASE UNCHANGED Flash!vars BY <1>5 DEF Flash!vars
<1> QED BY <1>1, <1>2, <1>3, <1>4, <1>5 DEF Flash!Next

\* What one flasher's part of the invariant says.
Sound(g) == Flash!ScriptKnown(g) /\ Ahead(g) /\ Behind(g) /\ Apart(g)

\* A step of f keeps every flasher's part.
LEMMA FlasherNext == FlasherInv /\ [Flash!Next]_(Flash!vars) => FlasherInv'
<1> SUFFICES ASSUME FlasherInv, [Flash!Next]_(Flash!vars), NEW g \in Flashers PROVE Sound(g)'
  BY FlasherTypes DEF FlasherInv, Flash!TypeOK, Sound
<1> USE InstallAssumption DEF Flash!Go, Flash!Fail, Flash!Release, Flash!Die, Flash!disk, Flash!tasks
<1> USE DEF Sound, FlasherInv, Flash!TypeOK, Flash!Typed, Flash!ScriptKnown, Ahead, Behind, Apart,
    Flash!Clean, Flash!InGroup, Flash!Uses,
            Flash!Places, Working, WithImage, WithGroup, BeforeScript
<1>1. ASSUME NEW f \in Flashers, Flash!SetUp(f) PROVE Sound(g)'
  <2>1. CASE Flash!Lock(f) BY <2>1 DEF Flash!Lock
  <2>2. CASE Flash!ChooseFolder(f) BY <2>2 DEF Flash!ChooseFolder
  <2>3. CASE Flash!RunNetblk(f) BY <2>3 DEF Flash!RunNetblk
  <2>4. CASE Flash!WaitNetblk(f) BY <2>4 DEF Flash!WaitNetblk
  <2>5. CASE Flash!ReadNetblk(f) BY <2>5 DEF Flash!ReadNetblk
  <2>6. CASE Flash!MountImage(f) BY <2>6 DEF Flash!MountImage
  <2>7. CASE Flash!MakeGroup(f) BY <2>7 DEF Flash!MakeGroup
  <2>8. CASE Flash!NewScript(f) BY <2>8 DEF Flash!NewScript
  <2>9. CASE Flash!Fork(f) BY <2>9 DEF Flash!Fork
  <2>10. CASE Flash!StorePid(f) BY <2>10 DEF Flash!StorePid
  <2>11. CASE Flash!JoinGroup(f) BY <2>11 DEF Flash!JoinGroup
  <2>12. CASE Flash!WaitScript(f) BY <2>12 DEF Flash!WaitScript
  <2> QED
    BY <1>1, <2>1, <2>2, <2>3, <2>4, <2>5, <2>6, <2>7, <2>8, <2>9, <2>10, <2>11, <2>12 DEF Flash!SetUp
<1>2. ASSUME NEW f \in Flashers, Flash!CleanUp(f) PROVE Sound(g)'
  <2>1. CASE Flash!KillScript(f) BY <2>1 DEF Flash!KillScript
  <2>2. CASE Flash!KillTasks(f) BY <2>2 DEF Flash!KillTasks
  <2>3. CASE Flash!KillTasksGivesUp(f) BY <2>3 DEF Flash!KillTasksGivesUp
  <2>4. CASE Flash!UmountImage(f) BY <2>4 DEF Flash!UmountImage
  <2>5. CASE Flash!StopNetblk(f) BY <2>5 DEF Flash!StopNetblk
  <2>6. CASE Flash!RemoveFolder(f) BY <2>6 DEF Flash!RemoveFolder
  <2>7. CASE Flash!Unlock(f) BY <2>7 DEF Flash!Unlock
  <2> QED
    BY <1>2, <2>1, <2>2, <2>3, <2>4, <2>5, <2>6, <2>7 DEF Flash!CleanUp
<1>3. ASSUME NEW f \in Flashers, Flash!Signals(f) PROVE Sound(g)'
  <2>1. CASE Flash!Signal(f) BY <2>1 DEF Flash!Signal
  <2>2. CASE Flash!SignalCrashes(f) BY <2>2 DEF Flash!SignalCrashes
  <2>3. CASE Flash!Killed(f) BY <2>3 DEF Flash!Killed
  <2> QED
    BY <1>3, <2>1, <2>2, <2>3 DEF Flash!Signals
<1>4. ASSUME NEW f \in Flashers, Flash!Others(f) PROVE Sound(g)'
  <2>1. CASE Flash!NetblkAnswers(f) BY <2>1 DEF Flash!NetblkAnswers
  <2>2. CASE Flash!NetblkDies(f) BY <2>2 DEF Flash!NetblkDies
  <2>3. CASE Flash!ScriptForks(f) BY <2>3 DEF Flash!ScriptForks
  <2>4. CASE Flash!ScriptExits(f) BY <2>4 DEF Flash!ScriptExits
  <2>5. CASE Flash!ChildExits(f) BY <2>5 DEF Flash!ChildExits
  <2> QED
    BY <1>4, <2>1, <2>2, <2>3, <2>4, <2>5 DEF Flash!Others
<1>5. CASE UNCHANGED Flash!vars BY <1>5 DEF Flash!vars
<1> QED BY <1>1, <1>2, <1>3, <1>4, <1>5 DEF Flash!Next

\* The flashers' invariant is one.
LEMMA FlasherAlways == InstallSpec => []FlasherInv
  BY FlasherInit, InstallSteps, FlasherNext, PTL DEF InstallSpec

\* The variables keep their types, and the pointer that the signal handler
\* follows is set exactly from the choice of the script to the end of the clean
\* up of it (main.cpp:14, install.cpp:159), for any number of flashers.
THEOREM FlasherTypeOK == InstallSpec => []Flash!TypeOK
<1>1. FlasherInv => Flash!TypeOK
  BY DEF FlasherInv
<1> QED BY <1>1, FlasherAlways, PTL

\* What a flasher has set up is there only under its lock, so that the next
\* flasher finds nothing (install.cpp:190-204, cleanup.cpp:36-70), for any
\* number of flashers, in whatever order they fail and are signalled.
THEOREM LockCovers == InstallSpec => []LockCoversWork
<1>1. FlasherInv => LockCoversWork
  BY DEF FlasherInv, Apart, LockCoversWork, Flash!LockCoversWork
<1> QED BY <1>1, FlasherAlways, PTL

\* While the script runs, or something of it in the cgroup, the image is mounted
\* and served (the order of cleanup.cpp:36-70), for any number of flashers.
THEOREM ImageStays == InstallSpec => []ImageServed
<1>1. FlasherInv => ImageServed
  <2> SUFFICES ASSUME FlasherInv, NEW f \in Flashers, pc[f] # "crash", ~held[f],
                      script[f] = "run" \/ child[f] = "inside"
               PROVE  mounted[f] /\ netblk[f] # "gone"
    BY DEF ImageServed, Flash!ImageServed
  <2>1. pc[f] \in Flash!Places /\ Ahead(f) /\ Behind(f)
    BY DEF FlasherInv, Flash!TypeOK, Flash!Typed
  <2> QED
    BY <2>1 DEF Ahead, Behind, Flash!Places, Flash!InGroup, Working, WithImage, WithGroup, BeforeScript
<1> QED BY <1>1, FlasherAlways, PTL

\* No step of a flasher ends a process of another's installation, though the
\* cgroup has one name for all of them (install.cpp:183, cgroup.cpp:54).
THEOREM Untouched == InstallSpec => OthersUntouched
<1>1. ASSUME FlasherInv, [Flash!Next]_(Flash!vars),
             NEW f \in Flashers, NEW g \in Flashers, f # g, pc'[f] # pc[f]
      PROVE  script'[g] = script[g] /\ child'[g] = child[g]
  <2>1. Flash!Typed /\ (Flash!InGroup(g) => group = g)
    BY <1>1 DEF FlasherInv, Flash!TypeOK, Ahead
  <2> USE <1>1, <2>1 DEF Flash!Typed, Flash!Go, Flash!Fail, Flash!Release, Flash!Die, Flash!disk,
      Flash!tasks
  <2>2. CASE \E h \in Flashers : Flash!SetUp(h)
    <3> PICK h \in Flashers : Flash!SetUp(h)
      BY <2>2
    <3>1. script'[g] = script[g] \/ g = h
      BY DEF Flash!SetUp, Flash!Lock, Flash!ChooseFolder, Flash!RunNetblk, Flash!WaitNetblk,
          Flash!ReadNetblk, Flash!MountImage, Flash!MakeGroup,
             Flash!NewScript, Flash!Fork, Flash!StorePid, Flash!JoinGroup, Flash!WaitScript
    <3>2. pc'[f] = pc[f] \/ f = h
      BY DEF Flash!SetUp, Flash!Lock, Flash!ChooseFolder, Flash!RunNetblk, Flash!WaitNetblk,
          Flash!ReadNetblk, Flash!MountImage, Flash!MakeGroup,
             Flash!NewScript, Flash!Fork, Flash!StorePid, Flash!JoinGroup, Flash!WaitScript
    <3>3. child' = child
      BY DEF Flash!SetUp, Flash!Lock, Flash!ChooseFolder, Flash!RunNetblk, Flash!WaitNetblk,
          Flash!ReadNetblk, Flash!MountImage, Flash!MakeGroup,
             Flash!NewScript, Flash!Fork, Flash!StorePid, Flash!JoinGroup, Flash!WaitScript
    <3> QED BY <3>1, <3>2, <3>3
  <2>3. CASE \E h \in Flashers : Flash!CleanUp(h)
    <3> PICK h \in Flashers : Flash!CleanUp(h)
      BY <2>3
    <3>1. h = f
      BY DEF Flash!CleanUp, Flash!KillScript, Flash!KillTasks, Flash!KillTasksGivesUp,
          Flash!UmountImage, Flash!StopNetblk, Flash!RemoveFolder, Flash!Unlock
    <3>2. CASE Flash!KillScript(f)
      BY <3>2 DEF Flash!KillScript
    <3>3. CASE Flash!KillTasks(f)
      BY <3>3 DEF Flash!KillTasks, Flash!InGroup
    <3>4. CASE \/ Flash!KillTasksGivesUp(f) \/ Flash!UmountImage(f) \/ Flash!StopNetblk(f)
               \/ Flash!RemoveFolder(f) \/ Flash!Unlock(f)
      BY <3>4 DEF Flash!KillTasksGivesUp, Flash!UmountImage, Flash!StopNetblk, Flash!RemoveFolder,
          Flash!Unlock
    <3> QED BY <3>1, <3>2, <3>3, <3>4 DEF Flash!CleanUp
  <2>4. CASE \E h \in Flashers : Flash!Signals(h)
    BY <2>4 DEF Flash!Signals, Flash!Signal, Flash!SignalCrashes, Flash!Killed
  <2>5. CASE \E h \in Flashers : Flash!Others(h)
    BY <2>5 DEF Flash!Others, Flash!NetblkAnswers, Flash!NetblkDies, Flash!ScriptForks,
        Flash!ScriptExits, Flash!ChildExits
  <2>6. CASE UNCHANGED Flash!vars
    BY <2>6 DEF Flash!vars
  <2> QED BY <2>2, <2>3, <2>4, <2>5, <2>6 DEF Flash!Next
<1>2. FlasherInv /\ [Flash!Next]_(Flash!vars)
        => [\A f, g \in Flashers :
              f # g /\ pc'[f] # pc[f] => script'[g] = script[g] /\ child'[g] = child[g]]_(Flash!vars)
  BY <1>1
<1> QED BY <1>2, FlasherAlways, InstallSteps, PTL DEF InstallSpec, OthersUntouched, Flash!OthersUntouched

-----------------------------------------------------------------------------
(* The page *)

\* What the thread and its calls know of the process is true, and the process
\* whose number was forgotten has been waited for.
Truth ==
  /\ state \in {"run", "success", "failed", "cancel"}
  /\ verdict \in {"ok", "bad", "lost"}
  /\ process \in {"alive", "ok", "bad", "reaped"}
  /\ process = "ok" => result = "ok"
  /\ verdict = "ok" => process = "reaped" /\ result = "ok"
  /\ "ok" \in calls => process = "reaped" /\ result = "ok"
  /\ state = "success" => process = "reaped" /\ result = "ok"
  /\ verdict = "bad" /\ thread \in {"print", "tell", "mark"} => process = "reaped"
  /\ thread = "status" /\ then = "print" /\ verdict = "bad" => process = "reaped"
  /\ ui # "idle" => process = "reaped"
  /\ ~pid => process = "reaped"
  /\ ~page => process = "reaped"

\* Which way the thread goes on.
Flow ==
  /\ thread = "status" => then \in {"top", "print"}
  /\ thread \in {"call", "sem"} => then \in {"top", "status"}
  /\ thread = "tell" => then = "mark"

\* LVGL's thread joins on a page that exists; a page that shows its end, or is
\* gone, has no thread, and calls and a log timer only after a cancel.
Gone ==
  /\ ui \in {"idle", "exit", "leave"}
  /\ ui # "idle" => page
  /\ ui = "exit" => Page!Final
  /\ ui = "idle" /\ Page!Final => thread = "joined" /\ ~timer
  /\ ui = "leave" => calls = {}
  /\ ui = "leave" /\ ~cutoff => Page!Final /\ thread = "joined" /\ ~timer
  /\ ~page => thread = "joined" /\ calls \subseteq {"log"}
  /\ ~page /\ ~cutoff => calls = {}

PageInv == Truth /\ Flow /\ Gone

\* The page starts in it, and no step of either thread or of a click leaves it.
LEMMA PageInit == InstallInit => PageInv
  BY InstallAssumption DEF InstallInit, Page!Init, PageInv, Truth, Flow, Gone, Page!Final

\* One case per action; none needs more than the invariant of the state before.
LEMMA PageNext == PageInv /\ [Page!Next]_(Page!vars) => PageInv'
<1> SUFFICES ASSUME PageInv, [Page!Next]_(Page!vars) PROVE PageInv'
  OBVIOUS
<1> USE DEF PageInv, Truth, Flow, Gone, Page!Final, Page!screen, Page!proc, Page!thread
<1>1. CASE Page!Output BY <1>1 DEF Page!Output
<1>2. CASE Page!Report BY <1>2 DEF Page!Report
<1>3. CASE Page!ChildExits BY <1>3 DEF Page!ChildExits
<1>4. CASE Page!ThreadTop BY <1>4 DEF Page!ThreadTop
<1>5. CASE Page!ThreadPoll BY <1>5 DEF Page!ThreadPoll
<1>6. CASE Page!ThreadCall BY <1>6 DEF Page!ThreadCall, Page!Queue
<1>7. CASE Page!ThreadAcquires BY <1>7 DEF Page!ThreadAcquires
<1>8. CASE Page!ThreadStatus BY <1>8 DEF Page!ThreadStatus
<1>9. CASE Page!ThreadStatusEnds BY <1>9 DEF Page!ThreadStatusEnds
<1>10. CASE Page!ThreadPrints BY <1>10 DEF Page!ThreadPrints, Page!Queue
<1>11. CASE Page!ThreadTells BY <1>11 DEF Page!ThreadTells, Page!Queue
<1>12. CASE Page!ThreadMarks BY <1>12 DEF Page!ThreadMarks
<1>13. CASE Page!PollFails BY <1>13 DEF Page!PollFails
<1>14. CASE Page!StopEnds BY <1>14 DEF Page!StopEnds
<1>15. CASE Page!RunTask BY <1>15 DEF Page!RunTask
<1>16. CASE Page!OnExited BY <1>16 DEF Page!OnExited, Page!Stopping
<1>17. CASE Page!Cancel BY <1>17 DEF Page!Cancel, Page!Clickable
<1>18. CASE Page!Back BY <1>18 DEF Page!Back, Page!Clickable, Page!Stopping
<1>19. CASE UNCHANGED Page!vars BY <1>19 DEF Page!vars
<1> QED
  BY <1>1, <1>2, <1>3, <1>4, <1>5, <1>6, <1>7, <1>8, <1>9, <1>10, <1>11, <1>12,
     <1>13, <1>14, <1>15, <1>16, <1>17, <1>18, <1>19 DEF Page!Next, Page!Thread, Page!Lvgl

\* So the page is always in it.
LEMMA PageAlways == InstallSpec => []PageInv
  BY PageInit, InstallSteps, PageNext, PTL DEF InstallSpec

\* "Install complete" is shown only for a process that exited with 0, however
\* clicks, the end of the process and a failing poll fall together.
THEOREM ShownSuccessIsReal == InstallSpec => []SuccessIsReal
<1>1. PageInv => SuccessIsReal
  BY DEF PageInv, Truth, SuccessIsReal, Page!SuccessIsReal
<1> QED BY <1>1, PageAlways, PTL

\* When the page object is gone the process has been waited for.
THEOREM PageLeavesNothing == InstallSpec => []Page!NothingLeftRunning
<1>1. PageInv => Page!NothingLeftRunning
  BY DEF PageInv, Truth, Page!NothingLeftRunning
<1> QED BY <1>1, PageAlways, PTL

\* No call of LVGL's thread finds a page that was freed, unless the user left it
\* during a cancel.
THEOREM NoStaleCall == InstallSpec => []CallsFindPage
<1>1. PageInv => CallsFindPage
  BY DEF PageInv, Gone, CallsFindPage, Page!CallsFindPage
<1> QED BY <1>1, PageAlways, PTL

\* A cancelled installation is never shown as a success.
THEOREM CancelStays == InstallSpec => CancelIsFinal
<1>1. [Page!Next]_(Page!vars) => [state = "cancel" => state' # "success"]_(Page!vars)
  <2> SUFFICES ASSUME [Page!Next]_(Page!vars), state = "cancel" PROVE state' # "success"
    OBVIOUS
  <2> USE DEF Page!screen, Page!proc, Page!thread
  <2>1. CASE Page!OnExited BY <2>1 DEF Page!OnExited
  <2>2. CASE UNCHANGED Page!vars BY <2>2 DEF Page!vars
  <2>3. CASE Page!Output \/ Page!Report \/ Page!ChildExits \/ Page!Thread \/ Page!PollFails
    BY <2>3 DEF Page!Output, Page!Report, Page!ChildExits, Page!PollFails, Page!Thread,
        Page!ThreadTop, Page!ThreadPoll, Page!ThreadCall,
       Page!ThreadAcquires, Page!ThreadStatus, Page!ThreadStatusEnds, Page!ThreadPrints,
         Page!ThreadTells, Page!ThreadMarks
  <2>4. CASE Page!StopEnds \/ Page!RunTask \/ Page!Cancel \/ Page!Back
    BY <2>4 DEF Page!StopEnds, Page!RunTask, Page!Cancel, Page!Back
  <2> QED BY <2>1, <2>2, <2>3, <2>4 DEF Page!Next, Page!Lvgl
<1> QED BY <1>1, InstallSteps, PTL DEF InstallSpec, CancelIsFinal, Page!CancelIsFinal

-----------------------------------------------------------------------------
(* The URLs.  A recursion over a text is a function, and what is true of it follows   *)
(* token by token: RecursionEnds says that it is defined, Onward and GrownIsAll what *)
(* one token more makes of it.                                                       *)

\* The characters that are encoded, and their codes
CharSet == {":", "/", "?", "#", "@", "[", "]", "%", "+", "space"}
CodeSet == {"%:", "%/", "%?", "%#", "%@", "%[", "%]", "%%", "%+", "%20"}
\* Whatever a token may be (the provers do not know that a literal is a string)
Words == STRING \cup CharSet \cup CodeSet \cup {"80", "&"}
Tokens == Seq(Words)
Paths == Seq(Tokens)

\* A set of numbers that is not empty has a smallest one.
LEMMA Smallest ==
  ASSUME NEW T \in SUBSET Nat, T # {}
  PROVE  \E x \in T : \A y \in T : x <= y
<1> DEFINE R == OpToRel(<, Nat)
<1>1. IsWellFoundedOn(R, Nat)
  BY NatLessThanWellFounded
<1>2. \A x, y \in Nat : y < x => <<y, x>> \in R
  BY DEF OpToRel
<1> HIDE DEF R
<1>3. PICK x \in T : \A y \in T : ~(<<y, x>> \in R)
  BY <1>1, WFMin
<1>4. ASSUME NEW y \in T PROVE x <= y
  <2>1. ~(<<y, x>> \in R) /\ x \in Nat /\ y \in Nat
    BY <1>3
  <2>2. ~(y < x)
    BY <1>2, <2>1
  <2> QED BY <2>1, <2>2
<1> QED BY <1>4

\* What is true before every step is true at the end.
LEMMA Steps ==
  ASSUME NEW n \in Nat, NEW T \in SUBSET (0 .. n), 0 \in T,
         \A k \in 1 .. n : k - 1 \in T => k \in T
  PROVE  T = 0 .. n
<1> DEFINE Bad == (0 .. n) \ T
<1> SUFFICES ASSUME Bad # {} PROVE FALSE
  OBVIOUS
<1>1. PICK k \in Bad : \A j \in Bad : k <= j
  <2>1. Bad \in SUBSET Nat
    OBVIOUS
  <2> HIDE DEF Bad
  <2> QED BY <2>1, Smallest
<1>2. k \in 0 .. n /\ k \notin T
  OBVIOUS
<1>3. k \in 1 .. n
  BY <1>2
<1>4. k - 1 \in Bad
  BY <1>3
<1> HIDE DEF Bad
<1> QED BY <1>1, <1>3, <1>4

\* What holds of the empty sequence and, with a sequence, of every one that is longer
\* by one, holds of all.
LEMMA GrownIsAll ==
  ASSUME NEW S, NEW G, <<>> \in G, \A s \in Seq(S), x \in S : s \in G => Append(s, x) \in G
  PROVE  Seq(S) \subseteq G
<1> SUFFICES ASSUME NEW s \in Seq(S) PROVE s \in G
  OBVIOUS
<1> DEFINE T == {k \in 0 .. Len(s) : SubSeq(s, 1, k) \in G}
<1>1. Len(s) \in Nat /\ \A i \in 1 .. Len(s) : s[i] \in S
  BY LenProperties, ElementOfSeq
<1>2. 0 \in T
  <2>1. SubSeq(s, 1, 0) = <<>>
    BY SubSeqEmpty
  <2>2. SubSeq(s, 1, 0) \in G
    BY <2>1, Zenon
  <2>3. 0 \in 0 .. Len(s)
    BY <1>1
  <2> QED BY <2>2, <2>3, Zenon
<1>3. \A k \in 1 .. Len(s) : k - 1 \in T => k \in T
  <2> SUFFICES ASSUME NEW k \in 1 .. Len(s), SubSeq(s, 1, k - 1) \in G
               PROVE  SubSeq(s, 1, k) \in G
    BY <1>1
  <2>1. SubSeq(s, 1, k) = SubSeq(s, 1, k - 1) \o <<s[k]>>
    BY <1>1, SubSeqRecursiveSecond
  <2>2. SubSeq(s, 1, k - 1) \in Seq(S)
    BY <1>1, SubSeqProperties
  <2>3. SubSeq(s, 1, k) = Append(SubSeq(s, 1, k - 1), s[k])
    BY <1>1, <2>1, <2>2, AppendIsConcat
  <2> QED BY <1>1, <2>2, <2>3
<1>4. T = 0 .. Len(s)
  <2> HIDE <1>3
  <2>1. T \in SUBSET (0 .. Len(s))
    OBVIOUS
  <2> HIDE DEF T
  <2> QED BY <1>1, <1>2, <1>3, <2>1, Steps
<1>5. SubSeq(s, 1, Len(s)) \in G
  BY <1>1, <1>4
<1> QED BY <1>5, SubSeqFull

\* What every recursion over a sequence gives: f starts at the base and takes the steps.
Solves(f, n, V, base, step) ==
  /\ f \in [0 .. n -> V] /\ f[0] = base
  /\ \A i \in 1 .. n : f[i] = step[<<i, f[i - 1]>>]

\* A recursion over n elements has a solution.
LEMMA RecursionEnds ==
  ASSUME NEW V, NEW base \in V, NEW n \in Nat, NEW step \in [(1 .. n) \X V -> V]
  PROVE  \E f : Solves(f, n, V, base, step)
<1> DEFINE Upto(f, k) == f[0] = base /\ \A i \in 1 .. k : f[i] = step[<<i, f[i - 1]>>]
           T == {k \in 0 .. n : \E f \in [0 .. k -> V] : Upto(f, k)}
<1>1. 0 \in T
  <2> DEFINE f == [i \in 0 .. 0 |-> base]
  <2>1. f \in [0 .. 0 -> V]
    OBVIOUS
  <2>2. f[0] = base /\ \A i \in 1 .. 0 : f[i] = step[<<i, f[i - 1]>>]
    OBVIOUS
  <2> HIDE DEF f
  <2> QED BY <2>1, <2>2
<1>2. \A k \in 1 .. n : k - 1 \in T => k \in T
  <2> SUFFICES ASSUME NEW k \in 1 .. n, k - 1 \in T PROVE k \in T
    OBVIOUS
  <2>1. PICK f \in [0 .. k - 1 -> V] : Upto(f, k - 1)
    OBVIOUS
  <2> DEFINE g == [i \in 0 .. k |-> IF i = k THEN step[<<k, f[k - 1]>>] ELSE f[i]]
  <2>2. step[<<k, f[k - 1]>>] \in V
    <3>1. f[k - 1] \in V
      OBVIOUS
    <3> QED BY <3>1
  <2>3. g \in [0 .. k -> V]
    BY <2>2
  <2>4. g[0] = base
    BY <2>1
  <2>5. \A i \in 1 .. k : g[i] = step[<<i, g[i - 1]>>]
    <3>1. \A i \in 1 .. k : g[i - 1] = f[i - 1]
      OBVIOUS
    <3>2. \A i \in 1 .. k - 1 : g[i] = f[i] /\ f[i] = step[<<i, f[i - 1]>>]
      BY <2>1
    <3>3. g[k] = step[<<k, f[k - 1]>>]
      OBVIOUS
    <3>4. \A i \in 1 .. k : i = k \/ i \in 1 .. k - 1
      OBVIOUS
    <3> HIDE DEF g
    <3>5. \A i \in 1 .. k - 1 : g[i] = step[<<i, g[i - 1]>>]
      BY <3>1, <3>2, <3>4
    <3> QED BY <3>1, <3>3, <3>4, <3>5
  <2> HIDE DEF g
  <2> QED BY <2>3, <2>4, <2>5
<1>3. T = 0 .. n
  <2>1. T \in SUBSET (0 .. n)
    OBVIOUS
  <2> HIDE DEF T
  <2> QED BY <1>1, <1>2, <2>1, Steps
<1>4. n \in T
  BY <1>3
<1>5. PICK f \in [0 .. n -> V] : Upto(f, n)
  BY <1>4
<1> QED BY <1>5 DEF Solves

\* std::string::find, and find_first_of: the first of some tokens, or 0
LEMMA FirstIs ==
  ASSUME NEW s \in Tokens, NEW C
  PROVE  /\ Chain!First(s, C) \in 0 .. Len(s)
         /\ Chain!First(s, C) = 0 => \A i \in 1 .. Len(s) : s[i] \notin C
         /\ Chain!First(s, C) # 0 =>
              /\ s[Chain!First(s, C)] \in C
              /\ \A j \in 1 .. Chain!First(s, C) - 1 : s[j] \notin C
<1> DEFINE I == {i \in 1 .. Len(s) : s[i] \in C}
<1>1. Chain!First(s, C) = IF I # {} THEN Chain!Min(I) ELSE 0
  BY DEF Chain!First, Chain!SelectInSeq
<1>2. Len(s) \in Nat
  BY DEF Tokens
<1>3. CASE I = {}
  <2>1. \A i \in 1 .. Len(s) : s[i] \notin C
    BY <1>3
  <2> HIDE DEF I
  <2> QED BY <1>1, <1>2, <1>3, <2>1
<1>4. CASE I # {}
  <2>1. I \in SUBSET Nat
    BY <1>2
  <2> HIDE DEF I
  <2>2. \E k \in I : \A j \in I : k <= j
    BY <1>4, <2>1, Smallest
  <2>3. Chain!Min(I) \in I /\ \A j \in I : Chain!Min(I) <= j
    BY <2>2 DEF Chain!Min
  <2>4. PICK f : f = Chain!First(s, C)
    OBVIOUS
  <2>5. f \in I /\ \A j \in I : f <= j
    BY <1>1, <1>4, <2>3, <2>4
  <2>6. f \in 1 .. Len(s) /\ s[f] \in C
    BY <2>5 DEF I
  <2>7. \A j \in 1 .. f - 1 : s[j] \notin C
    BY <1>2, <2>5, <2>6 DEF I
  <2> QED BY <2>4, <2>6, <2>7, <1>2
<1> QED BY <1>3, <1>4

\* The place where the first of them is
LEMMA FirstAt ==
  ASSUME NEW s \in Tokens, NEW C, NEW i \in 1 .. Len(s), s[i] \in C,
         \A j \in 1 .. i - 1 : s[j] \notin C
  PROVE  Chain!First(s, C) = i
<1>1. PICK f : f = Chain!First(s, C)
  OBVIOUS
<1>2. /\ f \in 0 .. Len(s)
      /\ f = 0 => \A k \in 1 .. Len(s) : s[k] \notin C
      /\ f # 0 => s[f] \in C /\ \A j \in 1 .. f - 1 : s[j] \notin C
  BY <1>1, FirstIs
<1>3. Len(s) \in Nat
  BY DEF Tokens
<1>4. f # 0
  BY <1>2
<1>5. ~(f < i) /\ ~(i < f)
  BY <1>2, <1>3, <1>4
<1> QED BY <1>1, <1>2, <1>3, <1>5

\* None of them is there.
LEMMA FirstNowhere ==
  ASSUME NEW s \in Tokens, NEW C, \A i \in 1 .. Len(s) : s[i] \notin C
  PROVE  Chain!First(s, C) = 0
BY FirstIs

\* A text that is put together is taken apart again.
Joined(s, t) ==
  /\ s \o t \in Tokens
  /\ Len(s \o t) = Len(s) + Len(t)
  /\ \A i \in 1 .. Len(s) : (s \o t)[i] = s[i]
  /\ \A i \in 1 .. Len(t) : (s \o t)[Len(s) + i] = t[i]
  /\ SubSeq(s \o t, 1, Len(s)) = s
  /\ SubSeq(s \o t, Len(s) + 1, Len(s \o t)) = t

\* What a concatenation is made of
LEMMA HeadOfWhole ==
  ASSUME NEW s \in Tokens, NEW t \in Tokens
  PROVE  Joined(s, t)
<1>1. /\ s \o t \in Tokens /\ Len(s \o t) = Len(s) + Len(t)
      /\ Len(s) \in Nat /\ Len(t) \in Nat
      /\ \A i \in 1 .. Len(s) + Len(t) : (s \o t)[i] = IF i <= Len(s) THEN s[i] ELSE t[i - Len(s)]
      /\ \A i \in 1 .. Len(s) + Len(t) : (s \o t)[i] \in Words
  BY ConcatProperties DEF Tokens
<1>2. \A i \in 1 .. Len(s) : (s \o t)[i] = s[i]
  BY <1>1
<1>3. \A i \in 1 .. Len(t) : (s \o t)[Len(s) + i] = t[i]
  BY <1>1
<1> DEFINE a == SubSeq(s \o t, 1, Len(s))
           b == SubSeq(s \o t, Len(s) + 1, Len(s \o t))
<1>4. a \in Tokens /\ Len(a) = Len(s) /\ \A i \in 1 .. Len(s) : a[i] = (s \o t)[i]
  <2>1. \A i \in 1 .. Len(s) : (s \o t)[i] \in Words
    BY <1>1
  <2>2. /\ a \in Seq(Words)
        /\ Len(a) = IF 1 <= Len(s) THEN Len(s) - 1 + 1 ELSE 0
        /\ \A i \in 1 .. Len(s) - 1 + 1 : a[i] = (s \o t)[1 + i - 1]
    BY <1>1, <2>1, SubSeqProperties
  <2> HIDE DEF a
  <2> QED BY <1>1, <2>2 DEF Tokens
<1>5. b \in Tokens /\ Len(b) = Len(t) /\ \A i \in 1 .. Len(t) : b[i] = (s \o t)[Len(s) + i]
  <2>1. \A i \in Len(s) + 1 .. Len(s \o t) : (s \o t)[i] \in Words
    BY <1>1
  <2> DEFINE m == Len(s) + 1
             n == Len(s \o t)
  <2>2. m \in Int /\ n \in Int /\ n = Len(s) + Len(t)
    BY <1>1
  <2>3. /\ b \in Seq(Words)
        /\ Len(b) = IF m <= n THEN n - m + 1 ELSE 0
        /\ \A i \in 1 .. n - m + 1 : b[i] = (s \o t)[m + i - 1]
    BY <2>1, <2>2, SubSeqProperties
  <2> HIDE DEF b
  <2>4. n - m + 1 = Len(t) /\ \A i \in 1 .. Len(t) : m + i - 1 = Len(s) + i
    BY <1>1
  <2> HIDE DEF m, n
  <2>5. Len(b) = Len(t)
    BY <1>1, <2>2, <2>3, <2>4 DEF m
  <2> QED BY <2>3, <2>4, <2>5 DEF Tokens
<1> HIDE DEF a, b
<1>6. a = s
  <2>1. \A i \in 1 .. Len(a) : a[i] = s[i]
    BY <1>2, <1>4
  <2> QED BY <1>4, <2>1, SeqEqual DEF Tokens
<1>7. b = t
  <2>1. \A i \in 1 .. Len(b) : b[i] = t[i]
    BY <1>3, <1>5
  <2> QED BY <1>5, <2>1, SeqEqual DEF Tokens
<1> QED BY <1>1, <1>2, <1>3, <1>6, <1>7 DEF a, b, Joined

\* Concatenation is associative.
LEMMA Regroup ==
  ASSUME NEW s \in Tokens, NEW t \in Tokens, NEW r \in Tokens
  PROVE  (s \o t) \o r = s \o (t \o r)
BY ConcatAssociative DEF Tokens

\* A text has a length.
LEMMA IsLen == \A s \in Tokens : Len(s) \in Nat /\ (s = <<>> <=> Len(s) = 0)
BY DEF Tokens

\* There is no code left in the text.
Clean(s) == \A i \in 1 .. Len(s) : s[i] \notin CodeSet

\* The tables of characters and codes, entry by entry
LEMMA CharsEach ==
  /\ Chain!Chars \in Tokens /\ Len(Chain!Chars) = 10
  /\ Chain!Codes \in Tokens /\ Len(Chain!Codes) = 10
  /\ Chain!Chars[1] = ":" /\ Chain!Chars[2] = "/" /\ Chain!Chars[3] = "?" /\ Chain!Chars[4] = "#"
  /\ Chain!Chars[5] = "@" /\ Chain!Chars[6] = "[" /\ Chain!Chars[7] = "]" /\ Chain!Chars[8] = "%"
  /\ Chain!Chars[9] = "+" /\ Chain!Chars[10] = "space"
  /\ Chain!Codes[1] = "%:" /\ Chain!Codes[2] = "%/" /\ Chain!Codes[3] = "%?" /\ Chain!Codes[4] = "%#"
  /\ Chain!Codes[5] = "%@" /\ Chain!Codes[6] = "%[" /\ Chain!Codes[7] = "%]" /\ Chain!Codes[8] = "%%"
  /\ Chain!Codes[9] = "%+" /\ Chain!Codes[10] = "%20"
BY DEF Chain!Chars, Chain!Codes, Tokens, Words, CharSet, CodeSet

\* The tables have no entry twice.
LEMMA CharsAre ==
  /\ Chain!Chars \in Tokens /\ Len(Chain!Chars) = 10
  /\ Chain!Codes \in Tokens /\ Len(Chain!Codes) = 10
  /\ \A c : Chain!Contains(Chain!Chars, c) <=> c \in CharSet
  /\ \A c : Chain!Contains(Chain!Codes, c) <=> c \in CodeSet
  /\ \A i, j \in 1 .. 10 : i # j => Chain!Chars[i] # Chain!Chars[j] /\ Chain!Codes[i] # Chain!Codes[j]
  /\ \A i \in 1 .. 10 : Chain!Chars[i] \in CharSet /\ Chain!Codes[i] \in CodeSet
<1> DEFINE C == Chain!Chars
           D == Chain!Codes
<1>1. /\ Len(C) = 10 /\ C[1] = ":" /\ C[2] = "/" /\ C[3] = "?" /\ C[4] = "#" /\ C[5] = "@"
      /\ C[6] = "[" /\ C[7] = "]" /\ C[8] = "%" /\ C[9] = "+" /\ C[10] = "space"
  BY CharsEach
<1>2. /\ Len(D) = 10 /\ D[1] = "%:" /\ D[2] = "%/" /\ D[3] = "%?" /\ D[4] = "%#" /\ D[5] = "%@"
      /\ D[6] = "%[" /\ D[7] = "%]" /\ D[8] = "%%" /\ D[9] = "%+" /\ D[10] = "%20"
  BY CharsEach
<1>3. \A i : i \in 1 .. 10 <=> i \in {1, 2, 3, 4, 5, 6, 7, 8, 9, 10}
  OBVIOUS
<1>4. (\A c : Chain!Contains(C, c) <=> \E i \in {1, 2, 3, 4, 5, 6, 7, 8, 9, 10} : C[i] = c)
      /\ (\A c : Chain!Contains(D, c) <=> \E i \in {1, 2, 3, 4, 5, 6, 7, 8, 9, 10} : D[i] = c)
  BY <1>1, <1>2, <1>3 DEF Chain!Contains
<1>5. C \in Tokens /\ D \in Tokens
  BY CharsEach
<1> HIDE DEF C, D
<1>6. \A c : (\E i \in {1, 2, 3, 4, 5, 6, 7, 8, 9, 10} : C[i] = c) <=> c \in CharSet
  BY <1>1 DEF CharSet
<1>7. \A c : (\E i \in {1, 2, 3, 4, 5, 6, 7, 8, 9, 10} : D[i] = c) <=> c \in CodeSet
  BY <1>2 DEF CodeSet
<1>8. (\A i, j \in {1, 2, 3, 4, 5, 6, 7, 8, 9, 10} : i # j => C[i] # C[j] /\ D[i] # D[j])
      /\ (\A i \in {1, 2, 3, 4, 5, 6, 7, 8, 9, 10} : C[i] \in CharSet /\ D[i] \in CodeSet)
  BY <1>1, <1>2 DEF CharSet, CodeSet
<1>9. /\ \A c : Chain!Contains(C, c) <=> c \in CharSet
      /\ \A c : Chain!Contains(D, c) <=> c \in CodeSet
  BY <1>4, <1>6, <1>7
<1>10. /\ \A i, j \in 1 .. 10 : i # j => C[i] # C[j] /\ D[i] # D[j]
       /\ \A i \in 1 .. 10 : C[i] \in CharSet /\ D[i] \in CodeSet
  BY <1>3, <1>8
<1> QED BY <1>1, <1>2, <1>5, <1>9, <1>10 DEF C, D

\* Each character has one code, each code one character.
LEMMA CharOfCode ==
  ASSUME NEW i \in 1 .. 10
  PROVE  /\ Chain!First(Chain!Chars, {Chain!Chars[i]}) = i
         /\ Chain!First(Chain!Codes, {Chain!Codes[i]}) = i
<1>1. \A j \in 1 .. i - 1 : j \in 1 .. 10 /\ j # i
  OBVIOUS
<1>2. \A j \in 1 .. i - 1 : Chain!Chars[j] \notin {Chain!Chars[i]} /\ Chain!Codes[j] \notin {Chain!Codes[i]}
  BY <1>1, CharsAre
<1>3. i \in 1 .. Len(Chain!Chars) /\ i \in 1 .. Len(Chain!Codes)
  BY CharsAre
<1>4. Chain!First(Chain!Chars, {Chain!Chars[i]}) = i
  BY <1>2, <1>3, CharsAre, FirstAt
<1>5. Chain!First(Chain!Codes, {Chain!Codes[i]}) = i
  BY <1>2, <1>3, CharsAre, FirstAt
<1> QED BY <1>4, <1>5

\* url::encode and url::decode of one token
EncodeOne(c, skip) == IF c \in skip \/ ~Chain!Contains(Chain!Chars, c) THEN c
  ELSE Chain!Codes[Chain!First(Chain!Chars, {c})]
DecodeOne(c) == IF c = "+" THEN "space"
  ELSE IF Chain!Contains(Chain!Codes, c) THEN Chain!Chars[Chain!First(Chain!Codes, {c})] ELSE c

\* A token that is encoded ends no part and decodes to itself.
LEMMA OneIsSame ==
  ASSUME NEW c \in Words, NEW skip \in {{}, {"/"}}, c \notin CodeSet
  PROVE  /\ EncodeOne(c, skip) \in Words
         /\ EncodeOne(c, skip) \notin CharSet \ skip
         /\ EncodeOne(c, skip) = "/" <=> c = "/" /\ skip = {"/"}
         /\ DecodeOne(EncodeOne(c, skip)) = c
<1>1. CASE c \in skip
  <2>1. c = "/" /\ skip = {"/"} /\ EncodeOne(c, skip) = c
    BY <1>1 DEF EncodeOne
  <2>2. DecodeOne("/") = "/"
    BY CharsAre DEF DecodeOne, CodeSet
  <2> QED BY <2>1, <2>2
<1>2. CASE c \notin skip /\ c \notin CharSet
  <2>1. EncodeOne(c, skip) = c
    BY <1>2, CharsAre DEF EncodeOne
  <2>2. c # "+" /\ c # "/"
    BY <1>2 DEF CharSet
  <2>3. DecodeOne(c) = c
    BY <2>2, CharsAre DEF DecodeOne
  <2> QED BY <1>2, <2>1, <2>2, <2>3
<1>3. CASE c \notin skip /\ c \in CharSet
  <2>1. PICK i \in 1 .. 10 : Chain!Chars[i] = c
    BY <1>3, CharsAre DEF Chain!Contains
  <2>2. EncodeOne(c, skip) = Chain!Codes[i] /\ Chain!Codes[i] \in CodeSet
    BY <1>3, <2>1, CharsAre, CharOfCode DEF EncodeOne
  <2>3. Chain!Codes[i] \notin CharSet /\ Chain!Codes[i] # "/" /\ Chain!Codes[i] # "+" /\ Chain!Codes[i] \in Words
    BY <2>2 DEF CodeSet, CharSet, Words
  <2>4. DecodeOne(Chain!Codes[i]) = c
    BY <2>1, <2>2, <2>3, CharsAre, CharOfCode DEF DecodeOne
  <2>5. c = "/" => skip # {"/"}
    BY <1>3
  <2> QED BY <2>2, <2>3, <2>4, <2>5
<1> QED BY <1>1, <1>2, <1>3

\* What a token decodes to
LEMMA DecodedOne ==
  ASSUME NEW c \in Words
  PROVE  /\ DecodeOne(c) \in Words /\ DecodeOne(c) \notin CodeSet
         /\ c \notin CodeSet \cup {"+"} => DecodeOne(c) = c
         /\ DecodeOne(c) = "/" <=> c \in {"/", "%/"}
         /\ DecodeOne(c) \in {"%"} <=> c \in {"%", "%%"}
         /\ DecodeOne(c) \in {"+"} <=> c \in {"%+"}
         /\ DecodeOne(c) \in {".", ".."} => DecodeOne(c) = c
         /\ DecodeOne(c) = "@" <=> c \in {"@", "%@"}
<1>1. CASE c = "+"
  BY <1>1 DEF DecodeOne, CodeSet, CharSet, Words
<1>2. CASE c # "+" /\ c \notin CodeSet
  BY <1>2, CharsAre DEF DecodeOne, CodeSet
<1>3. CASE c \in CodeSet
  <2>1. PICK i \in 1 .. 10 : Chain!Codes[i] = c
    BY <1>3, CharsAre DEF Chain!Contains
  <2>2. DecodeOne(c) = Chain!Chars[i]
    <3>1. c # "+"
      BY <1>3 DEF CodeSet
    <3> QED BY <1>3, <2>1, <3>1, CharsAre, CharOfCode DEF DecodeOne
  <2>3. i \in {1, 2, 3, 4, 5, 6, 7, 8, 9, 10}
    OBVIOUS
  <2>4. Chain!Chars[i] \in Words
    BY CharsAre DEF Words
  <2>5. /\ Chain!Chars[i] \in Words /\ Chain!Chars[i] \notin CodeSet
        /\ Chain!Chars[i] = "/" <=> Chain!Codes[i] \in {"/", "%/"}
        /\ Chain!Chars[i] \in {"%"} <=> Chain!Codes[i] \in {"%", "%%"}
        /\ Chain!Chars[i] \in {"+"} <=> Chain!Codes[i] \in {"%+"}
        /\ Chain!Chars[i] \in {".", ".."} => FALSE
        /\ Chain!Chars[i] = "@" <=> Chain!Codes[i] \in {"@", "%@"}
    BY <2>3, <2>4, CharsEach DEF CodeSet
  <2> QED BY <1>3, <2>1, <2>2, <2>5
<1> QED BY <1>1, <1>2, <1>3

\* A function on 1 .. n is a sequence.
LEMMA FunctionIsSeq ==
  ASSUME NEW S, NEW n \in Nat, NEW f \in [1 .. n -> S]
  PROVE  f \in Seq(S) /\ Len(f) = n
OBVIOUS

\* What is encoded has nothing left in it that ends a part, and decodes to what it was.
LEMMA Encoded ==
  ASSUME NEW s \in Tokens, NEW skip \in {{}, {"/"}}, Clean(s)
  PROVE  /\ Chain!Encode(s, skip) \in Tokens
         /\ Len(Chain!Encode(s, skip)) = Len(s)
         /\ \A i \in 1 .. Len(s) : Chain!Encode(s, skip)[i] \notin CharSet \ skip
         /\ \A i \in 1 .. Len(s) : Chain!Encode(s, skip)[i] = "/" <=> s[i] = "/" /\ skip = {"/"}
         /\ Chain!Decode(Chain!Encode(s, skip)) = s
<1> DEFINE e == [i \in DOMAIN s |-> EncodeOne(s[i], skip)]
           d == [i \in DOMAIN e |-> DecodeOne(e[i])]
<1>1. Len(s) \in Nat /\ DOMAIN s = 1 .. Len(s) /\ \A i \in 1 .. Len(s) : s[i] \in Words
  BY LenProperties, ElementOfSeq DEF Tokens
<1>2. Chain!Encode(s, skip) = e
  BY DEF Chain!Encode, EncodeOne
<1>3. \A i \in 1 .. Len(s) : s[i] \notin CodeSet
  BY DEF Clean
<1>4. \A i \in 1 .. Len(s) :
        /\ EncodeOne(s[i], skip) \in Words /\ EncodeOne(s[i], skip) \notin CharSet \ skip
        /\ EncodeOne(s[i], skip) = "/" <=> s[i] = "/" /\ skip = {"/"}
        /\ DecodeOne(EncodeOne(s[i], skip)) = s[i]
  <2> TAKE i \in 1 .. Len(s)
  <2>1. s[i] \in Words /\ s[i] \notin CodeSet
    BY <1>1, <1>3
  <2> QED BY <2>1, OneIsSame
<1>5. e \in [1 .. Len(s) -> Words]
  BY <1>1, <1>4
<1>6. e \in Tokens /\ Len(e) = Len(s)
  <2> HIDE DEF e
  <2> QED BY <1>1, <1>5, FunctionIsSeq DEF Tokens
<1>7. \A i \in 1 .. Len(s) : e[i] = EncodeOne(s[i], skip)
  BY <1>1
<1>8. Chain!Decode(e) = d
  BY DEF Chain!Decode, DecodeOne
<1>9. d = s
  <2>1. DOMAIN e = 1 .. Len(s)
    BY <1>1
  <2>2. \A i \in 1 .. Len(s) : DecodeOne(e[i]) = s[i]
    BY <1>4, <1>7
  <2> HIDE DEF e
  <2>3. d = [i \in 1 .. Len(s) |-> s[i]]
    BY <2>1, <2>2
  <2> QED BY <2>3, <1>1 DEF Tokens
<1> HIDE DEF e, d
<1> QED BY <1>2, <1>4, <1>6, <1>7, <1>8, <1>9

\* A text is decoded token by token, and has no code left.
LEMMA Decoded ==
  ASSUME NEW s \in Tokens
  PROVE  /\ Chain!Decode(s) \in Tokens
         /\ Len(Chain!Decode(s)) = Len(s)
         /\ \A i \in 1 .. Len(s) : Chain!Decode(s)[i] = DecodeOne(s[i])
         /\ Clean(Chain!Decode(s))
<1> DEFINE d == [i \in DOMAIN s |-> DecodeOne(s[i])]
<1>1. Len(s) \in Nat /\ DOMAIN s = 1 .. Len(s) /\ \A i \in 1 .. Len(s) : s[i] \in Words
  BY LenProperties, ElementOfSeq DEF Tokens
<1>2. Chain!Decode(s) = d
  BY DEF Chain!Decode, DecodeOne
<1>3. \A i \in 1 .. Len(s) : DecodeOne(s[i]) \in Words /\ DecodeOne(s[i]) \notin CodeSet
  BY <1>1, DecodedOne
<1>4. d \in [1 .. Len(s) -> Words]
  BY <1>1, <1>3
<1>5. d \in Tokens /\ Len(d) = Len(s)
  <2> HIDE DEF d
  <2> QED BY <1>1, <1>4, FunctionIsSeq DEF Tokens
<1>6. \A i \in 1 .. Len(s) : d[i] = DecodeOne(s[i])
  BY <1>1
<1> HIDE DEF d
<1> QED BY <1>2, <1>3, <1>5, <1>6 DEF Clean

\* A text without codes and plus signs decodes to itself.
LEMMA DecodedIsSame ==
  ASSUME NEW s \in Tokens, Clean(s), \A i \in 1 .. Len(s) : s[i] # "+"
  PROVE  Chain!Decode(s) = s
<1>1. \A i \in 1 .. Len(s) : s[i] \in Words
  BY ElementOfSeq DEF Tokens
<1>2. \A i \in 1 .. Len(s) : DecodeOne(s[i]) = s[i]
  BY <1>1, DecodedOne DEF Clean
<1> QED BY <1>2, Decoded, SeqEqual DEF Tokens

\* Texts put together decode to what they decode to, put together.
LEMMA DecodedWhole ==
  ASSUME NEW s \in Tokens, NEW t \in Tokens
  PROVE  Chain!Decode(s \o t) = Chain!Decode(s) \o Chain!Decode(t)
<1> DEFINE d == Chain!Decode(s)
           e == Chain!Decode(t)
           w == Chain!Decode(s \o t)
<1>1. /\ d \in Tokens /\ Len(d) = Len(s) /\ \A i \in 1 .. Len(s) : d[i] = DecodeOne(s[i])
      /\ e \in Tokens /\ Len(e) = Len(t) /\ \A i \in 1 .. Len(t) : e[i] = DecodeOne(t[i])
  BY Decoded
<1>2. /\ s \o t \in Tokens /\ Len(s \o t) = Len(s) + Len(t) /\ Len(s) \in Nat /\ Len(t) \in Nat
      /\ \A i \in 1 .. Len(s) + Len(t) : (s \o t)[i] = IF i <= Len(s) THEN s[i] ELSE t[i - Len(s)]
  BY ConcatProperties DEF Tokens
<1>3. w \in Tokens /\ Len(w) = Len(s) + Len(t)
      /\ \A i \in 1 .. Len(s) + Len(t) : w[i] = DecodeOne((s \o t)[i])
  BY <1>2, Decoded
<1> HIDE DEF d, e, w
<1>4. /\ d \o e \in Tokens /\ Len(d \o e) = Len(s) + Len(t)
      /\ \A i \in 1 .. Len(s) + Len(t) : (d \o e)[i] = IF i <= Len(s) THEN d[i] ELSE e[i - Len(s)]
  <2>1. /\ d \o e \in Tokens /\ Len(d \o e) = Len(d) + Len(e)
        /\ \A i \in 1 .. Len(d) + Len(e) : (d \o e)[i] = IF i <= Len(d) THEN d[i] ELSE e[i - Len(d)]
    <3>1. d \in Tokens /\ e \in Tokens
      BY <1>1
    <3> QED BY <3>1, ConcatProperties DEF Tokens
  <2> QED BY <1>1, <2>1
<1>5. \A i \in 1 .. Len(s) + Len(t) : w[i] = (d \o e)[i]
  <2> TAKE i \in 1 .. Len(s) + Len(t)
  <2>1. CASE i <= Len(s)
    <3>1. i \in 1 .. Len(s)
      BY <1>2, <2>1
    <3> QED BY <1>1, <1>2, <1>3, <1>4, <2>1, <3>1
  <2>2. CASE ~(i <= Len(s))
    <3>1. i - Len(s) \in 1 .. Len(t)
      BY <1>2, <2>2
    <3> QED BY <1>1, <1>2, <1>3, <1>4, <2>2, <3>1
  <2> QED BY <2>1, <2>2
<1>6. w = d \o e
  <2>1. Len(w) = Len(d \o e) /\ \A i \in 1 .. Len(w) : w[i] = (d \o e)[i]
    BY <1>3, <1>4, <1>5
  <2> QED BY <1>3, <1>4, <2>1, SeqEqual DEF Tokens
<1> QED BY <1>6 DEF d, e, w

\* The text up to the first of the tokens that end it
Splits(s, t, C) ==
  /\ Chain!First(s \o t, C) = IF t = <<>> THEN 0 ELSE Len(s) + 1
  /\ Chain!After(s \o t, Chain!First(s \o t, C)) = t
  /\ s # <<>> \/ t = <<>> => Chain!Till(s \o t, Chain!First(s \o t, C)) = s

\* A text is split where the first token that ends it is.
LEMMA SplitAt ==
  ASSUME NEW s \in Tokens, NEW t \in Tokens, NEW C,
         \A i \in 1 .. Len(s) : s[i] \notin C, t = <<>> \/ t[1] \in C
  PROVE  Splits(s, t, C)
<1> DEFINE w == s \o t
<1>1. /\ w \in Tokens /\ Len(w) = Len(s) + Len(t) /\ Len(s) \in Nat /\ Len(t) \in Nat
      /\ \A i \in 1 .. Len(s) : w[i] = s[i]
      /\ \A i \in 1 .. Len(t) : w[Len(s) + i] = t[i]
      /\ SubSeq(w, 1, Len(s)) = s
      /\ SubSeq(w, Len(s) + 1, Len(w)) = t
  <2>1. Joined(s, t)
    BY HeadOfWhole
  <2> QED BY <2>1, IsLen DEF Joined
<1>2. CASE t = <<>>
  <2>1. w = s
    BY <1>2, ConcatEmptySeq DEF Tokens
  <2>2. Chain!First(w, C) = 0
    BY <2>1, FirstNowhere
  <2> HIDE DEF w
  <2>3. Chain!After(w, Chain!First(w, C)) = t /\ Chain!Till(w, Chain!First(w, C)) = s
    BY <1>2, <2>1, <2>2 DEF Chain!After, Chain!Till
  <2> QED BY <1>2, <2>2, <2>3 DEF w, Splits
<1>3. CASE t # <<>>
  <2>1. Len(t) >= 1 /\ t[1] \in C
    BY <1>1, <1>3 DEF Tokens
  <2>2. w[Len(s) + 1] \in C /\ Len(s) + 1 \in 1 .. Len(w)
    BY <1>1, <2>1
  <2>3. \A j \in 1 .. (Len(s) + 1) - 1 : w[j] \notin C
    BY <1>1
  <2> HIDE DEF w
  <2>4. Chain!First(w, C) = Len(s) + 1
    <3> DEFINE n == Len(s) + 1
    <3>1. n \in 1 .. Len(w) /\ w[n] \in C /\ \A j \in 1 .. n - 1 : w[j] \notin C
      BY <2>2, <2>3
    <3> HIDE DEF n
    <3>2. Chain!First(w, C) = n
      BY <1>1, <3>1, FirstAt
    <3> QED BY <3>2 DEF n
  <2>5. Chain!After(w, Chain!First(w, C)) = t
    BY <1>1, <2>4 DEF Chain!After, Chain!From
  <2>6. s # <<>> => Chain!Till(w, Chain!First(w, C)) = s
    <3> SUFFICES ASSUME s # <<>> PROVE Chain!Till(w, Len(s) + 1) = s
      BY <2>4
    <3>1. Len(s) # 0 /\ Len(s) + 1 # 0 /\ (Len(s) + 1) - 1 = Len(s)
      BY <1>1 DEF Tokens
    <3> QED BY <1>1, <3>1 DEF Chain!Till, Chain!Part
  <2> QED BY <1>3, <2>4, <2>5, <2>6 DEF w, Splits
<1> QED BY <1>2, <1>3

\* An authority begins at i.
Mark(s, i) == s[i] = ":" /\ s[i + 1] = "/" /\ s[i + 2] = "/"
Slashes == <<":", "/", "/">>
\* No authority begins within a scheme.
Schemed(x) == x = <<>> \/ \A j \in 1 .. Len(x) : ~Mark(x \o Slashes, j)

\* What an authority begins with
LEMMA SlashesAre == /\ Slashes \in Tokens /\ Len(Slashes) = 3
                    /\ Slashes[1] = ":" /\ Slashes[2] = "/" /\ Slashes[3] = "/"
BY DEF Slashes, Tokens, Words, CharSet

\* Where an authority begins, token by token
LEMMA MarkAt ==
  ASSUME NEW s \in Tokens, NEW i \in 1 .. Len(s) - 2
  PROVE  SubSeq(s, i, i + 2) = <<":", "/", "/">> <=> Mark(s, i)
<1> DEFINE a == SubSeq(s, i, i + 2)
<1>1. Len(s) \in Nat /\ \A k \in 1 .. Len(s) : s[k] \in Words
  BY LenProperties, ElementOfSeq DEF Tokens
<1>2. a \in Seq(Words) /\ Len(a) = 3 /\ \A k \in 1 .. 3 : a[k] = s[i + k - 1]
  <2>1. \A k \in i .. i + 2 : s[k] \in Words
    BY <1>1
  <2> DEFINE n == i + 2
  <2>2. i \in Int /\ n \in Int /\ n - i + 1 = 3 /\ i <= n
    BY <1>1
  <2>3. \A k \in i .. n : s[k] \in Words
    BY <2>1
  <2> HIDE DEF n
  <2>4. SubSeq(s, i, n) \in Seq(Words) /\ Len(SubSeq(s, i, n)) = 3
        /\ \A k \in 1 .. 3 : SubSeq(s, i, n)[k] = s[i + k - 1]
    BY <2>2, <2>3, SubSeqProperties
  <2> QED BY <2>4 DEF n
<1>3. a[1] = s[i] /\ a[2] = s[i + 1] /\ a[3] = s[i + 2]
  BY <1>1, <1>2
<1> HIDE DEF a
<1>4. a = Slashes => Mark(s, i)
  BY <1>3, SlashesAre DEF Mark
<1>5. Mark(s, i) => a = Slashes
  <2> SUFFICES ASSUME Mark(s, i) PROVE a = Slashes
    OBVIOUS
  <2>1. \A k \in 1 .. 3 : k = 1 \/ k = 2 \/ k = 3
    OBVIOUS
  <2>2. \A k \in 1 .. Len(a) : a[k] = Slashes[k]
    BY <1>2, <1>3, <2>1, SlashesAre DEF Mark
  <2> QED BY <1>2, <2>2, SlashesAre, SeqEqual DEF Tokens
<1> QED BY <1>4, <1>5 DEF Slashes, a

\* A text has an authority where one begins.
LEMMA AuthorityIs ==
  ASSUME NEW s \in Tokens
  PROVE  Chain!AuthorityAt(s) <=> \E i \in 1 .. Len(s) - 2 : Mark(s, i)
BY MarkAt DEF Chain!AuthorityAt

\* A scheme is found again before what comes first after it.
LEMMA SchemeFound ==
  ASSUME NEW x \in Tokens, Schemed(x), x # <<>>, NEW t \in Tokens
  PROVE  Chain!ParseScheme((x \o Slashes) \o t) = [val |-> x, rest |-> t]
<1> DEFINE y == x \o Slashes
           s == y \o t
<1>1. /\ y \in Tokens /\ Len(y) = Len(x) + 3 /\ Len(x) \in Nat /\ Len(t) \in Nat
      /\ \A i \in 1 .. Len(x) : y[i] = x[i]
      /\ y[Len(x) + 1] = ":" /\ y[Len(x) + 2] = "/" /\ y[Len(x) + 3] = "/"
      /\ SubSeq(y, 1, Len(x)) = x
  <2>1. Joined(x, Slashes)
    BY HeadOfWhole, SlashesAre
  <2> QED BY <2>1, SlashesAre, IsLen DEF Joined
<1>2. \A j \in 1 .. Len(x) : ~Mark(y, j)
  BY DEF Schemed
<1> HIDE DEF y
<1>3. /\ s \in Tokens /\ Len(s) = Len(y) + Len(t)
      /\ \A i \in 1 .. Len(y) : s[i] = y[i]
      /\ SubSeq(s, 1, Len(y)) = y
      /\ SubSeq(s, Len(y) + 1, Len(s)) = t
  <2>1. Joined(y, t)
    BY <1>1, HeadOfWhole
  <2> QED BY <2>1 DEF Joined
<1> HIDE DEF s
<1> DEFINE n == Len(x) + 1
<1>4. n \in 1 .. Len(s) - 2 /\ Mark(s, n)
  <2>1. n \in 1 .. Len(s) - 2
    BY <1>1, <1>3
  <2>2. s[n] = ":" /\ s[n + 1] = "/" /\ s[n + 2] = "/"
    BY <1>1, <1>3
  <2> QED BY <2>1, <2>2 DEF Mark
<1>5. \A j \in 1 .. n - 1 : ~Mark(s, j)
  <2> TAKE j \in 1 .. n - 1
  <2>1. j \in 1 .. Len(x) /\ s[j] = y[j] /\ s[j + 1] = y[j + 1] /\ s[j + 2] = y[j + 2]
    BY <1>1, <1>3
  <2> QED BY <1>2, <2>1 DEF Mark
<1>6. \A j \in 1 .. n : j \in 1 .. Len(s) - 2
  BY <1>1, <1>3
<1>7. Len(x) > 0
  BY <1>1 DEF Tokens
<1>8. n \in Int /\ n - 1 = Len(x) /\ n + 3 = Len(y) + 1
  BY <1>1
<1> HIDE DEF n
<1>9. Chain!AuthorityAt(s)
  BY <1>3, <1>4, AuthorityIs
<1>10. Chain!SchemeEnd(s) = n
  <2> DEFINE Ends(i) == SubSeq(s, i, i + 2) = <<":", "/", "/">>
               /\ \A j \in 1 .. i - 1 : SubSeq(s, j, j + 2) # <<":", "/", "/">>
  <2>1. Ends(n)
    BY <1>3, <1>4, <1>5, <1>6, <1>8, MarkAt
  <2>2. \A i \in 1 .. Len(s) - 2 : Ends(i) => i = n
    <3> TAKE i \in 1 .. Len(s) - 2
    <3> HAVE Ends(i)
    <3>1. Mark(s, i)
      BY <1>3, MarkAt
    <3>2. ~(i < n)
      BY <1>5, <1>8, <3>1
    <3>3. ~(n < i)
      <4> SUFFICES ASSUME n < i PROVE FALSE
        OBVIOUS
      <4>1. n \in 1 .. i - 1
        BY <1>4, <1>8
      <4> QED BY <2>1, <4>1
    <3> QED BY <1>8, <3>2, <3>3
  <2>3. Chain!SchemeEnd(s) = CHOOSE i \in 1 .. Len(s) - 2 : Ends(i)
    BY DEF Chain!SchemeEnd
  <2> HIDE DEF Ends
  <2> QED BY <1>4, <2>1, <2>2, <2>3
<1>11. SubSeq(s, 1, Len(x)) = x
  <2>1. s = x \o (Slashes \o t)
    BY SlashesAre, Regroup DEF s, y
  <2>2. Slashes \o t \in Tokens
    BY SlashesAre, ConcatProperties DEF Tokens
  <2>3. Joined(x, Slashes \o t)
    BY <2>2, HeadOfWhole
  <2> QED BY <2>1, <2>3 DEF Joined
<1> QED BY <1>3, <1>8, <1>9, <1>10, <1>11 DEF Chain!ParseScheme, Chain!From, s, y

\* The types of a url object
Urls == [scheme : Tokens, username : Tokens, password : Tokens, host : Tokens,
         port : Tokens, path : Tokens, query : Tokens, fragment : Tokens]
Alone(c) == <<c>>

\* A text of one token
LEMMA OneToken ==
  ASSUME NEW c \in Words
  PROVE  Alone(c) \in Tokens /\ Len(Alone(c)) = 1 /\ Alone(c)[1] = c
BY DEF Tokens, Alone

\* To append a token is to put its text behind.
LEMMA Appended ==
  ASSUME NEW s \in Tokens, NEW c \in Words
  PROVE  Append(s, c) = s \o Alone(c) /\ Append(s, c) \in Tokens
BY AppendIsConcat, AppendProperties DEF Tokens, Alone

\* Delimiters, codes and the number are tokens.
LEMMA SomeWords ==
  /\ \A c \in CharSet : c \in Words
  /\ {":", "/", "?", "#", "@", "[", "]", "%", "+", "80"} \subseteq Words
BY DEF Words, CharSet

\* The empty text
LEMMA NoToken == <<>> \in Tokens /\ \A s \in Tokens : s \o <<>> = s /\ <<>> \o s = s
BY ConcatEmptySeq DEF Tokens

\* What is before a token and what is behind it
Framed(s, c, t) ==
  /\ Alone(c) \o t \in Tokens /\ s \o (Alone(c) \o t) \in Tokens
  /\ (Alone(c) \o t)[1] = c /\ Alone(c) \o t # <<>>
  /\ (s \o (Alone(c) \o t))[Len(s) + 1] = c
  /\ Chain!From(Alone(c) \o t, 2) = t
  /\ Chain!From(s \o (Alone(c) \o t), Len(s) + 2) = t
  /\ SubSeq(s \o (Alone(c) \o t), 1, Len(s)) = s
  /\ Len(s \o (Alone(c) \o t)) = Len(s) + 1 + Len(t)
  /\ Len(Alone(c) \o t) = 1 + Len(t)

\* A token between two texts
LEMMA Around ==
  ASSUME NEW s \in Tokens, NEW c \in Words, NEW t \in Tokens
  PROVE  Framed(s, c, t)
<1> DEFINE o == Alone(c)
           a == o \o t
           b == s \o a
<1>1. o \in Tokens /\ Len(o) = 1 /\ o[1] = c /\ Len(s) \in Nat /\ Len(t) \in Nat
  BY OneToken, IsLen
<1> HIDE DEF o
<1>2. a \in Tokens /\ Len(a) = 1 + Len(t) /\ a[1] = c /\ SubSeq(a, 2, Len(a)) = t
  <2>1. Joined(o, t)
    BY <1>1, HeadOfWhole
  <2>2. /\ a \in Tokens /\ Len(a) = Len(o) + Len(t) /\ \A i \in 1 .. Len(o) : a[i] = o[i]
        /\ SubSeq(a, Len(o) + 1, Len(a)) = t
    BY <2>1 DEF Joined
  <2>3. Len(o) + 1 = 2 /\ 1 \in 1 .. Len(o)
    BY <1>1
  <2> HIDE DEF a
  <2> QED BY <1>1, <2>2, <2>3
<1>3. a # <<>>
  BY <1>1, <1>2, IsLen
<1> HIDE DEF a
<1>4. b \in Tokens /\ Len(b) = Len(s) + Len(a) /\ b[Len(s) + 1] = c /\ SubSeq(b, 1, Len(s)) = s
  <2>1. Joined(s, a)
    BY <1>2, HeadOfWhole
  <2>2. 1 \in 1 .. Len(a)
    BY <1>1, <1>2
  <2> QED BY <1>2, <2>1, <2>2 DEF Joined
<1>5. SubSeq(b, Len(s) + 2, Len(b)) = t
  <2>1. b = (s \o o) \o t
    BY <1>1, Regroup DEF b, a
  <2>2. Joined(s, o)
    BY <1>1, HeadOfWhole
  <2>3. s \o o \in Tokens /\ Len(s \o o) + 1 = Len(s) + 2
    BY <1>1, <2>2 DEF Joined
  <2>4. Joined(s \o o, t)
    BY <2>3, HeadOfWhole
  <2> QED BY <2>1, <2>3, <2>4 DEF Joined
<1> HIDE DEF b
<1>6. Len(b) = Len(s) + 1 + Len(t)
  BY <1>1, <1>2, <1>4
<1> QED BY <1>1, <1>2, <1>3, <1>4, <1>5, <1>6 DEF Chain!From, a, b, o, Framed

\* The part of that length is the text that was put in front.
LEMMA PartWhole ==
  ASSUME NEW s \in Tokens, NEW t \in Tokens, s # <<>>
  PROVE  Chain!Part(s \o t, Len(s)) = s
<1>1. Joined(s, t)
  BY HeadOfWhole
<1> QED BY <1>1, IsLen DEF Joined, Chain!Part

\* The empty text is encoded as it is.
LEMMA NoneEncoded ==
  ASSUME NEW skip \in {{}, {"/"}}
  PROVE  Chain!Encode(<<>>, skip) = <<>>
<1>1. <<>> \in Tokens /\ Clean(<<>>)
  BY DEF Tokens, Clean
<1>2. Len(Chain!Encode(<<>>, skip)) = 0 /\ Chain!Encode(<<>>, skip) \in Tokens
  BY <1>1, Encoded
<1> QED BY <1>2, IsLen

\* A slash comes before any mark of a user.
Slashed(t) == \E k \in 1 .. Len(t) : t[k] = "/" /\ \A j \in 1 .. k - 1 : t[j] # "@"

\* The user's name and password are found before a host that holds no mark of theirs.
LEMMA UserFound ==
  ASSUME NEW v \in Urls, Clean(v.username), Clean(v.password), v.username = <<>> => v.password = <<>>,
         NEW t \in Tokens, Slashed(t)
  PROVE  /\ Chain!AppendUserInfo(v) \in Tokens
         /\ Chain!ParseUserInfo(Chain!AppendUserInfo(v) \o t) =
              [name |-> Chain!Encode(v.username, {}), word |-> Chain!Encode(v.password, {}), rest |-> t]
<1> DEFINE a == Chain!Encode(v.username, {})
           b == Chain!Encode(v.password, {})
           info == a \o (IF v.password = <<>> THEN <<>> ELSE Alone(":") \o b)
           R(x, y) == [name |-> x, word |-> y, rest |-> t]
           C == {"@", "/"}
           D == {":"}
<1>1. v.username \in Tokens /\ v.password \in Tokens
  BY DEF Urls
<1>2. /\ a \in Tokens /\ b \in Tokens
      /\ \A i \in 1 .. Len(a) : a[i] \notin CharSet
      /\ \A i \in 1 .. Len(b) : b[i] \notin CharSet
      /\ Len(a) = Len(v.username) /\ Len(b) = Len(v.password)
  <2>1. {} \in {{}, {"/"}}
    OBVIOUS
  <2> QED BY <1>1, <2>1, Encoded
<1>3. /\ v.username = <<>> <=> a = <<>>
      /\ v.password = <<>> <=> b = <<>>
  BY <1>1, <1>2, IsLen
<1>4. Chain!AppendUserInfo(v) = IF info = <<>> THEN <<>> ELSE Append(info, "@")
  BY DEF Chain!AppendUserInfo, Alone
<1>5. /\ "@" \in Words /\ ":" \in Words /\ \A c \in C : c \in CharSet
      /\ \A c \in D : c \in CharSet
  BY SomeWords DEF CharSet
<1>6. \A i \in 1 .. Len(a) : a[i] \notin C /\ a[i] \notin D
  BY <1>2, <1>5
<1>7. \A i \in 1 .. Len(b) : b[i] \notin C
  BY <1>2, <1>5
<1>8. "@" \in C /\ ":" \in D /\ ":" \notin C
  OBVIOUS
<1>9. Len(a) \in Nat /\ Len(b) \in Nat
  BY <1>2, IsLen
<1>10. \A s : Chain!ParseUserInfo(s) =
        LET c == Chain!First(s, C)
            colon == Chain!First(SubSeq(s, 1, c - 1), D)
        IN  CASE c = 0 \/ s[c] # "@" -> [name |-> <<>>, word |-> <<>>, rest |-> s]
              [] c # 0 /\ s[c] = "@" /\ colon = 0 ->
                   [name |-> Chain!Part(s, c - 1), word |-> <<>>, rest |-> Chain!From(s, c + 1)]
              [] OTHER -> [name |-> Chain!Part(s, colon - 1),
                   word |-> Chain!Part(Chain!From(s, colon + 1), c - colon - 1), rest |-> Chain!From(s, c + 1)]
  BY DEF Chain!ParseUserInfo
<1> HIDE DEF a, b
<1>11. CASE v.username = <<>>
  <2>1. info = <<>>
    BY <1>3, <1>11, NoToken
  <2>2. Chain!AppendUserInfo(v) = <<>> /\ <<>> \o t = t
    BY <1>4, <2>1, NoToken
  <2>3. Chain!First(t, C) # 0 /\ t[Chain!First(t, C)] # "@"
    <3> DEFINE c == Chain!First(t, C)
    <3>1. /\ c \in 0 .. Len(t)
          /\ c = 0 => \A i \in 1 .. Len(t) : t[i] \notin C
          /\ c # 0 => t[c] \in C /\ \A j \in 1 .. c - 1 : t[j] \notin C
      BY FirstIs
    <3> HIDE DEF c
    <3>2. PICK k \in 1 .. Len(t) : t[k] = "/" /\ \A j \in 1 .. k - 1 : t[j] # "@"
      BY DEF Slashed
    <3>3. c # 0
      BY <3>1, <3>2
    <3>4. Len(t) \in Nat
      BY IsLen
    <3>5. ~(k < c)
      BY <3>1, <3>2, <3>3, <3>4
    <3>6. t[c] # "@"
      BY <3>1, <3>2, <3>3, <3>4, <3>5
    <3> QED BY <3>3, <3>6 DEF c
  <2>4. Chain!ParseUserInfo(t) = R(<<>>, <<>>)
    BY <1>10, <2>3
  <2> QED BY <1>3, <1>11, <2>2, <2>4, NoToken DEF a, b
<1>12. CASE v.username # <<>> /\ v.password = <<>>
  <2>1. info = a /\ a # <<>>
    BY <1>2, <1>3, <1>12, NoToken
  <2> DEFINE r == Alone("@") \o t
             s == a \o r
             c == Len(a) + 1
  <2>2. Chain!AppendUserInfo(v) = Append(a, "@")
    BY <1>4, <2>1
  <2>3. Append(a, "@") = a \o Alone("@") /\ Append(a, "@") \in Tokens
    BY <1>2, <1>5, Appended
  <2>4. Alone("@") \in Tokens
    BY <1>5, OneToken
  <2>5. Chain!AppendUserInfo(v) \o t = s
    <3>1. (a \o Alone("@")) \o t = a \o (Alone("@") \o t)
      BY <1>2, <2>4, Regroup
    <3> QED BY <2>2, <2>3, <3>1
  <2>6. Framed(a, "@", t)
    BY <1>2, <1>5, Around
  <2>7. /\ s[c] = "@" /\ Chain!From(s, Len(a) + 2) = t /\ SubSeq(s, 1, Len(a)) = a
        /\ r \in Tokens /\ r[1] \in C /\ r # <<>>
    BY <1>8, <2>6 DEF Framed
  <2> HIDE DEF C, D, r
  <2>8. Splits(a, r, C)
    BY <1>2, <1>6, <2>7, SplitAt
  <2>9. Chain!First(s, C) = c
    BY <2>7, <2>8 DEF Splits
  <2>10. Chain!First(a, D) = 0
    BY <1>2, <1>6, FirstNowhere
  <2>11. Len(a) # 0 /\ c # 0 /\ c - 1 = Len(a) /\ c + 1 = Len(a) + 2
    BY <1>2, <1>9, <2>1, IsLen
  <2> HIDE DEF s, c
  <2>12. Chain!First(SubSeq(s, 1, c - 1), D) = 0
    BY <2>7, <2>10, <2>11
  <2>13. Chain!ParseUserInfo(s) = R(Chain!Part(s, c - 1), <<>>) /\ Chain!From(s, c + 1) = t
    BY <1>10, <2>7, <2>9, <2>11, <2>12
  <2>14. Chain!Part(s, c - 1) = a
    BY <2>7, <2>11 DEF Chain!Part
  <2>15. b = <<>>
    BY <1>3, <1>12
  <2> QED BY <2>2, <2>3, <2>5, <2>13, <2>14, <2>15 DEF a, b
<1>13. CASE v.password # <<>>
  <2> DEFINE cb == Alone(":") \o b
             r == Alone("@") \o t
             br == b \o r
             cbr == Alone(":") \o br
             s == a \o cbr
             c == Len(info) + 1
             d == Len(a) + 1
  <2>1. a # <<>> /\ b # <<>>
    BY <1>3, <1>13
  <2>2. Alone("@") \in Tokens /\ Alone(":") \in Tokens
    BY <1>5, OneToken
  <2>3. cb \in Tokens /\ cb[1] = ":" /\ cb # <<>> /\ Len(cb) = 1 + Len(b)
        /\ \A i \in 1 .. Len(b) : cb[1 + i] = b[i]
    <3>1. Framed(a, ":", b)
      BY <1>2, <1>5, Around
    <3>2. Joined(Alone(":"), b)
      BY <1>2, <2>2, HeadOfWhole
    <3>3. Len(Alone(":")) = 1
      BY <1>5, OneToken
    <3> QED BY <3>1, <3>2, <3>3 DEF Framed, Joined
  <2>4. info = a \o cb
    BY <1>13
  <2>5. Framed(b, "@", t)
    BY <1>2, <1>5, Around
  <2>6. r \in Tokens /\ r[1] \in C /\ r # <<>> /\ br \in Tokens
    BY <1>8, <2>5 DEF Framed
  <2>7. cbr = cb \o r
    BY <1>2, <2>2, <2>6, Regroup
  <2>8. cb[1] \in D
    BY <1>8, <2>3
  <2> HIDE DEF cb, C, D, info
  <2>9. Joined(a, cb)
    BY <1>2, <2>3, HeadOfWhole
  <2>10. info \in Tokens /\ Len(info) = Len(a) + 1 + Len(b) /\ info # <<>>
    <3>1. info \in Tokens /\ Len(info) = Len(a) + 1 + Len(b)
      BY <1>9, <2>3, <2>4, <2>9 DEF Joined
    <3> QED BY <1>9, <3>1, IsLen
  <2>11. info \o r = s
    <3> HIDE DEF r, cbr
    <3>1. (a \o cb) \o r = a \o (cb \o r)
      BY <1>2, <2>3, <2>6, Regroup
    <3> QED BY <2>4, <2>7, <3>1
  <2>12. Chain!AppendUserInfo(v) = Append(info, "@") /\ Append(info, "@") \in Tokens
        /\ Append(info, "@") = info \o Alone("@")
    BY <1>4, <1>5, <2>10, Appended
  <2>13. Chain!AppendUserInfo(v) \o t = s
    <3>1. (info \o Alone("@")) \o t = info \o (Alone("@") \o t)
      BY <2>2, <2>10, Regroup
    <3> HIDE DEF s
    <3> QED BY <2>11, <2>12, <3>1
  <2>14. Framed(a, ":", br)
    BY <1>2, <1>5, <2>6, Around
  <2>15. /\ Chain!From(s, Len(a) + 2) = br /\ SubSeq(s, 1, Len(a)) = a
    BY <2>14 DEF Framed
  <2>16. \A i \in 1 .. Len(info) : info[i] \notin C
    <3> TAKE i \in 1 .. Len(info)
    <3>1. CASE i \in 1 .. Len(a)
      BY <1>6, <2>4, <2>9, <3>1 DEF Joined
    <3>2. CASE i = Len(a) + 1
      <4>1. info[i] = cb[1]
        BY <1>9, <2>3, <2>4, <2>9, <3>2 DEF Joined
      <4>2. cb[1] \notin C
        BY <1>8, <2>3
      <4> QED BY <4>1, <4>2
    <3>3. CASE i - Len(a) - 1 \in 1 .. Len(b)
      <4> DEFINE j == i - Len(a) - 1
      <4>1. i = Len(a) + (1 + j) /\ 1 + j \in 1 .. Len(cb)
        BY <1>9, <2>3, <3>3
      <4>2. info[i] = cb[1 + j]
        BY <2>4, <2>9, <4>1 DEF Joined
      <4>3. cb[1 + j] = b[j]
        BY <2>3, <3>3
      <4> QED BY <1>7, <3>3, <4>2, <4>3
    <3>4. i \in 1 .. Len(a) \/ i = Len(a) + 1 \/ i - Len(a) - 1 \in 1 .. Len(b)
      <4>1. Len(a) \in Nat /\ Len(b) \in Nat /\ i \in 1 .. Len(a) + 1 + Len(b)
        BY <1>9, <2>10
      <4>2. \A m, n \in Nat : \A k \in 1 .. m + 1 + n : k \in 1 .. m \/ k = m + 1 \/ k - m - 1 \in 1 .. n
        OBVIOUS
      <4> HIDE DEF s, c, d, r, cbr, br
      <4> QED BY <4>1, <4>2
    <3> QED BY <3>1, <3>2, <3>3, <3>4
  <2>17. Splits(info, r, C)
    <3> HIDE DEF r
    <3> QED BY <2>6, <2>10, <2>16, SplitAt
  <2>18. Framed(info, "@", t)
    BY <1>5, <2>10, Around
  <2>19. Chain!First(s, C) = c /\ s[c] = "@"
         /\ Chain!From(s, Len(info) + 2) = t /\ SubSeq(s, 1, Len(info)) = info
    <3>1. Chain!First(info \o r, C) = c
      BY <2>6, <2>17 DEF Splits
    <3>2. (info \o r)[c] = "@" /\ Chain!From(info \o r, Len(info) + 2) = t
          /\ SubSeq(info \o r, 1, Len(info)) = info
      BY <2>18 DEF Framed
    <3> HIDE DEF s, c, r
    <3> QED BY <2>11, <3>1, <3>2
  <2>20. d = Chain!First(info, D)
    <3>1. Splits(a, cb, D)
      BY <1>2, <1>6, <2>3, <2>8, SplitAt
    <3> QED BY <2>3, <2>4, <3>1 DEF Splits
  <2>21. Chain!Part(br, Len(b)) = b
    BY <1>2, <2>1, <2>6, PartWhole
  <2>22. c # 0 /\ c - 1 = Len(info) /\ c + 1 = Len(info) + 2
         /\ d # 0 /\ d - 1 = Len(a) /\ d + 1 = Len(a) + 2 /\ c - d - 1 = Len(b) /\ Len(a) # 0
    <3>1. Len(a) # 0
      BY <1>2, <2>1, IsLen
    <3>2. Len(info) = Len(a) + 1 + Len(b)
      BY <2>10
    <3> QED BY <1>9, <3>1, <3>2
  <2> HIDE DEF s, br, c, d
  <2>23. Chain!First(SubSeq(s, 1, c - 1), D) = d
    BY <2>19, <2>20, <2>22
  <2>24. Chain!ParseUserInfo(s) = [name |-> Chain!Part(s, d - 1),
             word |-> Chain!Part(Chain!From(s, d + 1), c - d - 1), rest |-> Chain!From(s, c + 1)]
    BY <1>10, <2>19, <2>22, <2>23
  <2>25. Chain!Part(s, d - 1) = a
    BY <2>15, <2>22 DEF Chain!Part
  <2>26. Chain!Part(Chain!From(s, d + 1), c - d - 1) = b
    BY <2>15, <2>21, <2>22
  <2>27. Chain!From(s, c + 1) = t
    BY <2>19, <2>22
  <2> QED BY <2>12, <2>13, <2>24, <2>25, <2>26, <2>27 DEF a, b
<1> QED BY <1>11, <1>12, <1>13

\* A host is found before a port or a path: what the text has of it decodes.
NoMark(h) == \A i \in 1 .. Len(h) : h[i] # "@"
IsName(h) == h # <<>> /\ ~Chain!Has(h, {":", "/", "@", "[", "]", "?", "#", "%", "space", "+"})

\* A text has one of some tokens somewhere.
LEMMA HasIs ==
  ASSUME NEW s \in Tokens, NEW C
  PROVE  Chain!Has(s, C) <=> \E i \in 1 .. Len(s) : s[i] \in C
BY LenProperties DEF Tokens, Chain!Has

\* The host is found before a port or a path, and decodes.
LEMMA HostFound ==
  ASSUME NEW v \in Urls, Clean(v.host), NEW t \in Tokens, t # <<>>, t[1] \in {":", "/"}
  PROVE  /\ Chain!AppendHost(v) \in Tokens
         /\ NoMark(v.host) => NoMark(Chain!AppendHost(v))
         /\ \E h \in Tokens :
              /\ Chain!ParseHost(Chain!AppendHost(v) \o t) = [ok |-> TRUE, val |-> h, rest |-> t]
              /\ Chain!Decodes(h)
              /\ IsName(v.host) => h = v.host
<1> DEFINE h == v.host
           A == {"[", "]", "#", "?", "%"}
           B == {":", "/", "@"}
           C == {":", "/", "?", "#"}
           E == {"]"}
           R(x) == [ok |-> TRUE, val |-> x, rest |-> t]
           Goal == /\ Chain!AppendHost(v) \in Tokens
                   /\ NoMark(h) => NoMark(Chain!AppendHost(v))
                   /\ \E x \in Tokens :
                        /\ Chain!ParseHost(Chain!AppendHost(v) \o t) = R(x)
                        /\ Chain!Decodes(x)
                        /\ IsName(h) => x = h
<1>1. h \in Tokens /\ Clean(h)
  BY DEF Urls
<1>2. Chain!AppendHost(v) = IF Chain!Has(h, A) THEN Chain!Encode(h, {})
        ELSE IF Chain!Has(h, B) THEN (Alone("[") \o h) \o Alone("]") ELSE h
  BY DEF Chain!AppendHost, Alone
<1>3. \A s : Chain!ParseHost(s) =
        CASE Chain!Starts(s, "[") -> [ok |-> Chain!First(s, E) # 0,
               val |-> Chain!Part(Chain!From(s, 2), Chain!First(s, E) - 2),
               rest |-> Chain!From(s, Chain!First(s, E) + 1)]
          [] s # <<>> /\ Chain!First(s, C) = 1 -> [ok |-> TRUE, val |-> <<>>, rest |-> s]
          [] OTHER -> [ok |-> TRUE, val |-> Chain!Till(s, Chain!First(s, C)),
               rest |-> Chain!After(s, Chain!First(s, C))]
  BY DEF Chain!ParseHost
<1>4. /\ "[" \in Words /\ "]" \in Words /\ t[1] \in C /\ t[1] # "["
      /\ "%" \in A /\ "[" \in A
  BY SomeWords
<1>5. \A s \in Tokens : Chain!Starts(s, "[") => s # <<>> /\ s[1] = "["
  BY DEF Chain!Starts
<1>6. Len(t) \in Nat /\ Len(h) \in Nat
  BY <1>1, IsLen
<1>7. \A x \in Tokens : Chain!Decodes(x) <=> \A i \in 1 .. Len(x) : x[i] # "%"
  BY HasIs DEF Chain!Decodes
<1> HIDE DEF h
<1>8. CASE h = <<>>
  <2>1. ~Chain!Has(h, A) /\ ~Chain!Has(h, B)
    <3>1. \A i \in 1 .. Len(h) : FALSE
      BY <1>1, <1>8, IsLen
    <3> QED BY <1>1, <3>1, HasIs
  <2>2. Chain!AppendHost(v) = h /\ h \o t = t
    BY <1>2, <1>8, <2>1, NoToken
  <2>3. Splits(h, t, C)
    <3>1. \A i \in 1 .. Len(h) : h[i] \notin C
      BY <1>1, <1>8, IsLen
    <3> HIDE DEF C
    <3> QED BY <1>1, <1>4, <3>1, SplitAt
  <2>4. Chain!First(t, C) = 1
    <3>1. Len(h) = 0
      BY <1>1, <1>8, IsLen
    <3> QED BY <2>2, <2>3, <3>1 DEF Splits
  <2>5. ~Chain!Starts(t, "[")
    BY <1>4 DEF Chain!Starts
  <2>6. Chain!ParseHost(t) = R(<<>>)
    BY <1>3, <2>4, <2>5
  <2>7. Chain!Decodes(<<>>) /\ <<>> \in Tokens
    BY <1>7, NoToken, IsLen
  <2> QED BY <1>1, <1>8, <2>2, <2>6, <2>7 DEF h
<1>9. CASE Chain!Has(h, A)
  <2> DEFINE e == Chain!Encode(h, {})
  <2>1. /\ e \in Tokens /\ Len(e) = Len(h)
        /\ \A i \in 1 .. Len(e) : e[i] \notin CharSet
    <3>1. {} \in {{}, {"/"}}
      OBVIOUS
    <3> QED BY <1>1, <3>1, Encoded
  <2> HIDE DEF e
  <2>2. (\A c \in C : c \in CharSet) /\ "@" \in CharSet /\ "%" \in CharSet /\ "[" \in CharSet
    BY DEF CharSet
  <2>3. /\ \A i \in 1 .. Len(e) : e[i] \notin C
        /\ \A i \in 1 .. Len(e) : e[i] # "@" /\ e[i] # "%" /\ e[i] # "["
    BY <2>1, <2>2
  <2>4. e # <<>> /\ 1 \in 1 .. Len(e)
    <3>1. \E i \in 1 .. Len(h) : h[i] \in A
      BY <1>1, <1>9, HasIs
    <3> QED BY <1>6, <2>1, <3>1, IsLen
  <2>5. Splits(e, t, C)
    <3> HIDE DEF C
    <3> QED BY <1>4, <2>1, <2>3, SplitAt
  <2>6. Joined(e, t)
    BY <2>1, HeadOfWhole
  <2>7. ~Chain!Starts(e \o t, "[")
    BY <1>5, <2>3, <2>4, <2>6 DEF Joined
  <2>8. Chain!First(e \o t, C) # 1 /\ Chain!Till(e \o t, Chain!First(e \o t, C)) = e
        /\ Chain!After(e \o t, Chain!First(e \o t, C)) = t
    <3>1. Len(e) + 1 # 1
      BY <1>6, <2>1, <2>4
    <3> QED BY <2>4, <2>5, <3>1 DEF Splits
  <2>9. Chain!ParseHost(e \o t) = R(e)
    <3> HIDE DEF C, E
    <3> QED BY <1>3, <2>7, <2>8
  <2>10. Chain!Decodes(e)
    BY <1>7, <2>1, <2>3
  <2>11. IsName(h) => FALSE
    <3>1. \A c \in A : c \in {":", "/", "@", "[", "]", "?", "#", "%", "space", "+"}
      OBVIOUS
    <3> QED BY <1>1, <1>9, <3>1, HasIs DEF IsName
  <2>12. Chain!AppendHost(v) = e
    BY <1>2, <1>9 DEF e
  <2> QED BY <2>1, <2>3, <2>9, <2>10, <2>11, <2>12 DEF NoMark, h
<1>10. CASE ~Chain!Has(h, A) /\ Chain!Has(h, B)
  <2>1. h # <<>>
    <3>1. \E i \in 1 .. Len(h) : h[i] \in B
      BY <1>1, <1>10, HasIs
    <3> QED BY <1>1, <1>6, <3>1, IsLen
  <2> DEFINE o == Alone("[") \o h
             q == o \o Alone("]")
             r == Alone("]") \o t
             s == q \o t
  <2>2. Alone("[") \in Tokens /\ Alone("]") \in Tokens /\ Len(Alone("[")) = 1
        /\ Alone("[")[1] = "["
    BY <1>4, OneToken
  <2>3. Framed(<<>>, "[", h)
    BY <1>1, <1>4, NoToken, Around
  <2>4. o \in Tokens /\ o[1] = "[" /\ Len(o) = 1 + Len(h)
    BY <2>3 DEF Framed
  <2>5. Joined(Alone("["), h)
    BY <1>1, <2>2, HeadOfWhole
  <2>6. \A i \in 1 .. Len(h) : o[1 + i] = h[i]
    BY <2>2, <2>5 DEF Joined
  <2> HIDE DEF o
  <2>7. Framed(o, "]", t)
    BY <1>4, <2>4, Around
  <2>8. s = o \o r
    BY <2>2, <2>4, Regroup
  <2>9. r \in Tokens /\ r # <<>> /\ r[1] \in E
    BY <2>7 DEF Framed
  <2>10. Chain!From(s, Len(o) + 2) = t /\ s \in Tokens /\ s # <<>>
    <3>1. Len(s) = Len(o) + 1 + Len(t) /\ s \in Tokens /\ Chain!From(s, Len(o) + 2) = t
      <4> HIDE DEF s
      <4> QED BY <2>7, <2>8 DEF Framed
    <3> HIDE DEF s
    <3> QED BY <1>6, <2>4, <3>1, IsLen
  <2>11. \A i \in 1 .. Len(o) : o[i] \notin E
    <3> TAKE i \in 1 .. Len(o)
    <3>1. CASE i = 1
      BY <2>4, <3>1
    <3>2. CASE i - 1 \in 1 .. Len(h)
      <4>1. h[i - 1] \notin A
        BY <1>1, <1>10, <3>2, HasIs
      <4>2. o[1 + (i - 1)] = h[i - 1] /\ 1 + (i - 1) = i
        BY <2>6, <3>2
      <4>3. h[i - 1] \notin E
        BY <4>1
      <4> QED BY <4>2, <4>3
    <3>3. i = 1 \/ i - 1 \in 1 .. Len(h)
      BY <1>6, <2>4
    <3> QED BY <3>1, <3>2, <3>3
  <2>12. Splits(o, r, E)
    <3> HIDE DEF E, r
    <3> QED BY <2>4, <2>9, <2>11, SplitAt
  <2>13. Chain!First(s, E) = Len(h) + 2
    <3>1. Chain!First(o \o r, E) = Len(o) + 1
      BY <2>9, <2>12 DEF Splits
    <3>2. Len(o) + 1 = Len(h) + 2
      BY <1>6, <2>4
    <3> HIDE DEF s, r, E
    <3> QED BY <2>8, <3>1, <3>2
  <2>14. Chain!Starts(s, "[")
    <3>1. Joined(o, r)
      BY <2>4, <2>9, HeadOfWhole
    <3>2. (o \o r)[1] = o[1]
      <4>1. 1 \in 1 .. Len(o)
        BY <1>6, <2>4
      <4> HIDE DEF r
      <4> QED BY <3>1, <4>1 DEF Joined
    <3> HIDE DEF s, r
    <3> QED BY <2>4, <2>8, <2>10, <3>2 DEF Chain!Starts
  <2>15. Chain!From(s, 2) = h \o r
    <3>1. Framed(<<>>, "[", h \o r)
      <4>1. Joined(h, r)
        BY <1>1, <2>9, HeadOfWhole
      <4> HIDE DEF r
      <4> QED BY <1>4, <4>1, NoToken, Around DEF Joined
    <3>2. s = Alone("[") \o (h \o r)
      <4>1. (Alone("[") \o h) \o r = Alone("[") \o (h \o r)
        <5> HIDE DEF r
        <5> QED BY <1>1, <2>2, <2>9, Regroup
      <4> HIDE DEF s, r
      <4> QED BY <2>8, <4>1 DEF o
    <3> QED BY <3>1, <3>2 DEF Framed
  <2>16. Chain!Part(h \o r, Len(h)) = h
    <3> HIDE DEF r
    <3> QED BY <1>1, <2>1, <2>9, PartWhole
  <2>17. Chain!ParseHost(s) = R(h)
    <3> DEFINE c == Chain!First(s, E)
    <3>1. c # 0 /\ c - 2 = Len(h) /\ c + 1 = Len(o) + 2
      BY <1>6, <2>4, <2>13
    <3>2. Chain!ParseHost(s) = [ok |-> c # 0, val |-> Chain!Part(Chain!From(s, 2), c - 2),
                                rest |-> Chain!From(s, c + 1)]
      <4>1. s[1] \notin C
        BY <2>10, <2>14 DEF Chain!Starts
      <4> HIDE DEF s, C, E
      <4>2. Chain!First(s, C) # 1
        BY <2>10, <4>1, FirstIs
      <4> QED BY <1>3, <2>14, <4>2
    <3> HIDE DEF s, c, r
    <3>3. c # 0 <=> TRUE
      BY <3>1
    <3> QED BY <2>10, <2>15, <2>16, <3>1, <3>2, <3>3
  <2>18. Chain!Decodes(h)
    BY <1>1, <1>4, <1>7, <1>10, HasIs
  <2>19. IsName(h) => FALSE
    <3>1. \A c \in B : c \in {":", "/", "@", "[", "]", "?", "#", "%", "space", "+"}
      OBVIOUS
    <3> QED BY <1>1, <1>10, <3>1, HasIs DEF IsName
  <2>20. Chain!AppendHost(v) = q
    BY <1>2, <1>10 DEF o
  <2>21. Joined(o, Alone("]"))
    BY <2>2, <2>4, HeadOfWhole
  <2>22. q \in Tokens /\ Len(q) = Len(h) + 2
    <3>1. Len(Alone("]")) = 1
      BY <1>4, OneToken
    <3>2. q \in Tokens /\ Len(q) = Len(o) + Len(Alone("]"))
      BY <2>21 DEF Joined
    <3>3. Len(o) = 1 + Len(h)
      BY <2>4
    <3> DEFINE z == Alone("]")
    <3>4. Len(q) = Len(o) + Len(z) /\ Len(z) = 1
      BY <3>1, <3>2
    <3> HIDE DEF q, z
    <3>5. Len(q) = Len(h) + 2
      BY <1>6, <3>3, <3>4
    <3> QED BY <3>2, <3>5
  <2>23. NoMark(h) => NoMark(q)
    <3> SUFFICES ASSUME NoMark(h), NEW i \in 1 .. Len(q) PROVE q[i] # "@"
      BY DEF NoMark
    <3>1. CASE i \in 1 .. Len(o)
      <4>1. q[i] = o[i]
        BY <2>21, <3>1 DEF Joined
      <4>2. CASE i = 1
        BY <2>4, <4>1, <4>2
      <4>3. CASE i - 1 \in 1 .. Len(h)
        <5>1. o[1 + (i - 1)] = h[i - 1] /\ 1 + (i - 1) = i
          BY <2>6, <4>3
        <5>2. h[i - 1] # "@"
          BY <4>3 DEF NoMark
        <5> QED BY <4>1, <5>1, <5>2
      <4>4. i = 1 \/ i - 1 \in 1 .. Len(h)
        BY <1>6, <2>4, <3>1
      <4> QED BY <4>2, <4>3, <4>4
    <3>2. CASE i = Len(o) + 1
      <4>1. Len(Alone("]")) = 1 /\ Alone("]")[1] = "]"
        BY <1>4, OneToken
      <4>2. q[i] = Alone("]")[1]
        BY <2>21, <3>2, <4>1 DEF Joined
      <4> QED BY <4>1, <4>2
    <3>3. i \in 1 .. Len(o) \/ i = Len(o) + 1
      BY <1>6, <2>4, <2>22
    <3> QED BY <3>1, <3>2, <3>3
  <2> QED BY <1>1, <2>17, <2>18, <2>19, <2>20, <2>22, <2>23 DEF h
<1>11. CASE ~Chain!Has(h, A) /\ ~Chain!Has(h, B) /\ h # <<>>
  <2>1. \A i \in 1 .. Len(h) : h[i] \notin A /\ h[i] \notin B
    BY <1>1, <1>11, HasIs
  <2>2. \A i \in 1 .. Len(h) : h[i] \notin C
    BY <2>1
  <2>3. Splits(h, t, C)
    <3> HIDE DEF C
    <3> QED BY <1>1, <1>4, <2>2, SplitAt
  <2>4. Joined(h, t) /\ 1 \in 1 .. Len(h)
    BY <1>1, <1>6, <1>11, IsLen, HeadOfWhole
  <2>5. ~Chain!Starts(h \o t, "[")
    <3>1. h[1] # "["
      BY <2>1, <2>4
    <3> QED BY <1>5, <2>4, <3>1 DEF Joined
  <2>6. Chain!First(h \o t, C) # 1 /\ Chain!Till(h \o t, Chain!First(h \o t, C)) = h
        /\ Chain!After(h \o t, Chain!First(h \o t, C)) = t
    <3>1. Len(h) + 1 # 1
      BY <1>6, <2>4
    <3> QED BY <1>11, <2>3, <3>1 DEF Splits
  <2>7. Chain!ParseHost(h \o t) = R(h)
    <3> HIDE DEF C, E
    <3> QED BY <1>3, <2>5, <2>6
  <2>8. Chain!Decodes(h)
    BY <1>1, <1>4, <1>7, <2>1
  <2>9. Chain!AppendHost(v) = h
    BY <1>2, <1>11
  <2> QED BY <1>1, <2>7, <2>8, <2>9 DEF h
<1> QED BY <1>8, <1>9, <1>10, <1>11 DEF h

\* The port is found before the slash of a path.
LEMMA PortFound ==
  ASSUME NEW v \in Urls, v.port \in {<<>>, Alone("80")}, NEW t \in Tokens, t # <<>>, t[1] \in {"/"}
  PROVE  /\ Chain!AppendPort(v) \in Tokens /\ NoMark(Chain!AppendPort(v))
         /\ Chain!AppendPort(v) \o t # <<>> /\ (Chain!AppendPort(v) \o t)[1] \in {":", "/"}
         /\ Chain!ParsePort(Chain!AppendPort(v) \o t) = [ok |-> TRUE, val |-> v.port, rest |-> t]
<1> DEFINE C == {"/", "?", "#"}
           p == Alone("80")
           R(x) == [ok |-> TRUE, val |-> x, rest |-> t]
<1>1. \A s : Chain!ParsePort(s) = IF ~Chain!Starts(s, ":") THEN [ok |-> TRUE, val |-> <<>>, rest |-> s]
        ELSE [ok |-> Chain!Till(Chain!From(s, 2), Chain!First(Chain!From(s, 2), C)) = p,
              val |-> Chain!Till(Chain!From(s, 2), Chain!First(Chain!From(s, 2), C)),
              rest |-> Chain!After(Chain!From(s, 2), Chain!First(Chain!From(s, 2), C))]
  BY DEF Chain!ParsePort, Chain!NoPort, Chain!Number, Alone
<1>2. "80" \in Words /\ ":" \in Words
  BY SomeWords
<1>3. CASE v.port = <<>>
  <2>1. Chain!AppendPort(v) = <<>> /\ <<>> \o t = t
    BY <1>3, NoToken DEF Chain!AppendPort, Chain!NoPort
  <2>2. ~Chain!Starts(t, ":")
    BY DEF Chain!Starts
  <2>3. Chain!ParsePort(t) = R(<<>>)
    BY <1>1, <2>2
  <2>4. NoMark(<<>>)
    BY NoToken, IsLen DEF NoMark
  <2> QED BY <1>3, <2>1, <2>3, <2>4, NoToken
<1>4. CASE v.port = p
  <2> DEFINE r == p \o t
             s == Alone(":") \o r
  <2>1. p \in Tokens /\ p # <<>> /\ Len(p) = 1 /\ p[1] = "80"
    BY <1>2, OneToken, IsLen
  <2>2. p # Chain!NoPort
    BY <2>1 DEF Chain!NoPort
  <2>3. \A i \in 1 .. Len(p) : p[i] \notin C /\ p[i] # "@"
    BY <2>1
  <2>4. t[1] \in C
    OBVIOUS
  <2> HIDE DEF p
  <2>5. Chain!AppendPort(v) = Alone(":") \o p
    BY <1>4, <2>2 DEF Chain!AppendPort, Alone
  <2>6. Alone(":") \in Tokens /\ Len(Alone(":")) = 1 /\ Alone(":")[1] = ":"
    BY <1>2, OneToken
  <2>7. Chain!AppendPort(v) \o t = s
    <3>1. (Alone(":") \o p) \o t = Alone(":") \o (p \o t)
      BY <2>1, <2>6, Regroup
    <3> QED BY <2>5, <3>1
  <2>8. Joined(p, t)
    BY <2>1, HeadOfWhole
  <2>9. Framed(<<>>, ":", r)
    <3>1. r \in Tokens
      BY <2>8 DEF Joined
    <3> HIDE DEF r
    <3> QED BY <1>2, <3>1, NoToken, Around
  <2>10. s \in Tokens /\ s # <<>> /\ s[1] = ":" /\ Chain!From(s, 2) = r
    BY <2>9 DEF Framed
  <2>11. Splits(p, t, C)
    <3> HIDE DEF C
    <3> QED BY <2>1, <2>3, <2>4, SplitAt
  <2>12. Chain!Till(r, Chain!First(r, C)) = p /\ Chain!After(r, Chain!First(r, C)) = t
    BY <2>1, <2>11 DEF Splits
  <2>13. Chain!Starts(s, ":")
    BY <2>10 DEF Chain!Starts
  <2>14. Chain!ParsePort(s) = R(p)
    <3> HIDE DEF s, r, C
    <3> QED BY <1>1, <2>10, <2>12, <2>13
  <2>15. Joined(Alone(":"), p)
    BY <2>1, <2>6, HeadOfWhole
  <2> DEFINE q == Alone(":") \o p
  <2>16. q \in Tokens /\ NoMark(q)
    <3>1. /\ q \in Tokens /\ Len(q) = Len(Alone(":")) + Len(p)
          /\ \A i \in 1 .. Len(Alone(":")) : q[i] = Alone(":")[i]
          /\ \A i \in 1 .. Len(p) : q[Len(Alone(":")) + i] = p[i]
      BY <2>15 DEF Joined
    <3> HIDE DEF q
    <3>2. Len(q) = 2 /\ q[1] = ":" /\ q[2] = "80"
      BY <2>1, <2>6, <3>1
    <3>3. \A i \in 1 .. 2 : i = 1 \/ i = 2
      OBVIOUS
    <3> QED BY <3>1, <3>2, <3>3 DEF NoMark
  <2> QED BY <1>4, <2>5, <2>7, <2>10, <2>14, <2>16
<1> QED BY <1>3, <1>4 DEF Alone

\* The path is found before a query or a fragment, and decodes to what it was.
LEMMA PathFound ==
  ASSUME NEW v \in Urls, Clean(v.path), v.path = <<>> \/ v.path[1] \in {"/"},
         NEW t \in Tokens, t = <<>> \/ t[1] \in {"?", "#"}
  PROVE  /\ Chain!AppendPath(v) \in Tokens
         /\ Chain!AppendPath(v) \o t # <<>> /\ (Chain!AppendPath(v) \o t)[1] \in {"/"}
         /\ \E p \in Tokens :
              /\ Chain!ParsePath(Chain!AppendPath(v) \o t) = [val |-> p, rest |-> t]
              /\ Chain!Decodes(p)
              /\ Chain!Decode(p) = IF v.path = <<>> THEN Alone("/") ELSE v.path
<1> DEFINE C == {"?", "#"}
           p == Chain!AppendPath(v)
           e == Chain!Encode(v.path, {"/"})
           d == IF v.path = <<>> THEN Alone("/") ELSE v.path
<1>1. v.path \in Tokens
  BY DEF Urls
<1>2. /\ e \in Tokens /\ Len(e) = Len(v.path) /\ Chain!Decode(e) = v.path
      /\ \A i \in 1 .. Len(e) : e[i] \notin CharSet \ {"/"}
      /\ \A i \in 1 .. Len(e) : e[i] = "/" <=> v.path[i] = "/"
  <2>1. {"/"} \in {{}, {"/"}}
    OBVIOUS
  <2> QED BY <1>1, <2>1, Encoded
<1>3. "/" \in Words /\ "%" \in CharSet \ {"/"} /\ \A c \in C : c \in CharSet \ {"/"}
  BY SomeWords DEF CharSet
<1> HIDE DEF e
<1>4. /\ p \in Tokens /\ p # <<>> /\ p[1] = "/" /\ Chain!Decode(p) = d
      /\ \A i \in 1 .. Len(p) : p[i] \notin CharSet \ {"/"}
  <2>1. CASE v.path = <<>>
    <3> DEFINE o == Alone("/")
    <3>1. e = <<>>
      BY <2>1, NoneEncoded DEF e
    <3>2. ~Chain!Starts(v.path, "/")
      BY <2>1 DEF Chain!Starts
    <3>3. o \in Tokens /\ o # <<>> /\ o[1] = "/" /\ Len(o) = 1
      BY <1>3, OneToken, IsLen
    <3>4. p = o
      BY <3>1, <3>2, <3>3, NoToken DEF Chain!AppendPath, Alone, e
    <3>5. "/" \notin CodeSet /\ "/" # "+" /\ "/" \notin CharSet \ {"/"}
      BY DEF CodeSet
    <3> HIDE DEF o
    <3>6. \A i \in 1 .. Len(o) : i = 1
      BY <3>3
    <3>7. Chain!Decode(o) = o
      BY <3>3, <3>5, <3>6, DecodedIsSame DEF Clean
    <3> QED BY <2>1, <3>3, <3>4, <3>5, <3>6, <3>7 DEF o
  <2>2. CASE v.path # <<>>
    <3>1. Chain!Starts(v.path, "/")
      BY <2>2 DEF Chain!Starts
    <3>2. p = e
      BY <1>2, <3>1, NoToken DEF Chain!AppendPath, e
    <3>3. 1 \in 1 .. Len(v.path) /\ v.path[1] = "/"
      BY <1>1, <2>2, IsLen
    <3>4. e # <<>> /\ e[1] = "/"
      BY <1>2, <3>3, IsLen
    <3> QED BY <1>2, <2>2, <3>2, <3>4
  <2> QED BY <2>1, <2>2
<1> HIDE DEF p, d
<1>5. \A i \in 1 .. Len(p) : p[i] \notin C
  BY <1>3, <1>4
<1>6. Splits(p, t, C)
  BY <1>4, <1>5, SplitAt
<1>7. Joined(p, t) /\ 1 \in 1 .. Len(p)
  BY <1>4, IsLen, HeadOfWhole
<1>8. p \o t # <<>> /\ (p \o t)[1] = "/"
  <2>1. (p \o t)[1] = "/" /\ Len(p \o t) = Len(p) + Len(t) /\ p \o t \in Tokens
    BY <1>4, <1>7 DEF Joined
  <2>2. Len(p \o t) # 0
    BY <1>4, <1>7, <2>1, IsLen
  <2> QED BY <2>1, <2>2, IsLen
<1>9. Chain!ParsePath(p \o t) = [val |-> p, rest |-> t]
  <2>1. Chain!Starts(p \o t, "/")
    BY <1>8 DEF Chain!Starts
  <2>2. Chain!Till(p \o t, Chain!First(p \o t, C)) = p /\ Chain!After(p \o t, Chain!First(p \o t, C)) = t
    BY <1>4, <1>6 DEF Splits
  <2> QED BY <2>1, <2>2 DEF Chain!ParsePath
<1>10. Chain!Decodes(p)
  <2>1. \A i \in 1 .. Len(p) : p[i] \notin {"%"}
    BY <1>3, <1>4
  <2> QED BY <1>4, <2>1, HasIs DEF Chain!Decodes
<1> QED BY <1>4, <1>8, <1>9, <1>10 DEF p, d

\* The fragment is what is left.
LEMMA FragmentFound ==
  ASSUME NEW v \in Urls
  PROVE  /\ Chain!AppendFragment(v) \in Tokens
         /\ Chain!AppendFragment(v) = <<>> \/ Chain!AppendFragment(v)[1] \in {"#"}
         /\ (IF Chain!Starts(Chain!AppendFragment(v), "#")
             THEN Chain!From(Chain!AppendFragment(v), 2) ELSE <<>>) = v.fragment
<1> DEFINE f == v.fragment
           s == Alone("#") \o f
<1>1. f \in Tokens /\ "#" \in Words
  BY SomeWords DEF Urls
<1>2. Chain!AppendFragment(v) = IF f = <<>> THEN <<>> ELSE s
  BY DEF Chain!AppendFragment, Alone
<1> HIDE DEF f
<1>3. Framed(<<>>, "#", f)
  BY <1>1, NoToken, Around
<1>4. s \in Tokens /\ s # <<>> /\ s[1] = "#" /\ Chain!From(s, 2) = f
  BY <1>3 DEF Framed
<1>5. ~Chain!Starts(<<>>, "#") /\ Chain!Starts(s, "#")
  BY <1>4 DEF Chain!Starts
<1> HIDE DEF s
<1> QED BY <1>2, <1>4, <1>5, NoToken DEF f

\* A query without the mark of a fragment is found before one.
LEMMA QueryFound ==
  ASSUME NEW v \in Urls, NEW t \in Tokens, t = <<>> \/ t[1] \in {"#"}
  PROVE  /\ Chain!AppendQuery(v) \in Tokens
         /\ Chain!AppendQuery(v) \o t = <<>> \/ (Chain!AppendQuery(v) \o t)[1] \in {"?", "#"}
         /\ ~Chain!Has(v.query, {"#"}) =>
              Chain!ParseQuery(Chain!AppendQuery(v) \o t) = [val |-> v.query, rest |-> t]
<1> DEFINE q == v.query
           r == q \o t
           s == Alone("?") \o r
           C == {"#"}
<1>1. q \in Tokens /\ "?" \in Words
  BY SomeWords DEF Urls
<1>2. Chain!AppendQuery(v) = IF q = <<>> THEN <<>> ELSE Alone("?") \o q
  BY DEF Chain!AppendQuery, Alone
<1> HIDE DEF q
<1>3. CASE q = <<>>
  <2>1. Chain!AppendQuery(v) = <<>> /\ <<>> \o t = t
    BY <1>2, <1>3, NoToken
  <2>2. ~Chain!Starts(t, "?")
    BY DEF Chain!Starts
  <2>3. Chain!ParseQuery(t) = [val |-> <<>>, rest |-> t]
    BY <2>2 DEF Chain!ParseQuery
  <2> QED BY <1>3, <2>1, <2>3, NoToken DEF q
<1>4. CASE q # <<>>
  <2>1. Joined(q, t)
    BY <1>1, HeadOfWhole
  <2>2. r \in Tokens
    BY <2>1 DEF Joined
  <2>3. Framed(<<>>, "?", r)
    <3> HIDE DEF r
    <3> QED BY <1>1, <2>2, NoToken, Around
  <2>4. s \in Tokens /\ s # <<>> /\ s[1] = "?" /\ Chain!From(s, 2) = r
    BY <2>3 DEF Framed
  <2>5. Alone("?") \in Tokens
    BY <1>1, OneToken
  <2>6. Chain!AppendQuery(v) \o t = s
    <3>1. (Alone("?") \o q) \o t = Alone("?") \o (q \o t)
      BY <1>1, <2>5, Regroup
    <3> QED BY <1>2, <1>4, <3>1
  <2>7. Chain!AppendQuery(v) \in Tokens
    <3>1. Joined(Alone("?"), q)
      BY <1>1, <2>5, HeadOfWhole
    <3> QED BY <1>2, <1>4, <3>1 DEF Joined
  <2>8. ASSUME ~Chain!Has(q, C) PROVE Chain!ParseQuery(s) = [val |-> q, rest |-> t]
    <3>1. \A i \in 1 .. Len(q) : q[i] \notin C
      <4> HIDE DEF C
      <4> QED BY <1>1, <2>8, HasIs
    <3>2. t = <<>> \/ t[1] \in C
      OBVIOUS
    <3> HIDE DEF C
    <3>3. Splits(q, t, C)
      BY <1>1, <3>1, <3>2, SplitAt
    <3>4. Chain!Till(r, Chain!First(r, C)) = q /\ Chain!After(r, Chain!First(r, C)) = t
      BY <1>4, <3>3 DEF Splits
    <3>5. Chain!Starts(s, "?")
      BY <2>4 DEF Chain!Starts
    <3> HIDE DEF r, s
    <3> QED BY <2>4, <3>4, <3>5 DEF Chain!ParseQuery, C
  <2> HIDE DEF s
  <2> QED BY <2>4, <2>6, <2>7, <2>8 DEF q
<1> QED BY <1>3, <1>4

\* What every url object has
Well(v) ==
  /\ v \in Urls
  /\ Schemed(v.scheme)
  /\ v.username = <<>> => v.password = <<>>
  /\ Clean(v.username) /\ Clean(v.password) /\ Clean(v.host) /\ Clean(v.path)
  /\ v.port \in {<<>>, Alone("80")}
  /\ v.path = <<>> \/ v.path[1] \in {"/"}

\* Three texts can be put together either way.
Grouped(s, t, r) == (s \o t) \o r = s \o (t \o r)

\* Regroup, to be unfolded where it is needed
LEMMA Regrouped ==
  ASSUME NEW s \in Tokens, NEW t \in Tokens, NEW r \in Tokens
  PROVE  Grouped(s, t, r)
BY Regroup DEF Grouped

\* The text of a url, grouped from the right
GroupsRight(a, b, c, d, e, f, g) ==
  /\ a \o b \o c \o d \o e \o f \o g = a \o (b \o (c \o (d \o (e \o (f \o g)))))
  /\ a \o (b \o (c \o (d \o (e \o (f \o g))))) \in Tokens

\* The seven parts of a text, grouped from the right
LEMMA TextIs ==
  ASSUME NEW a \in Tokens, NEW b \in Tokens, NEW c \in Tokens, NEW d \in Tokens,
         NEW e \in Tokens, NEW f \in Tokens, NEW g \in Tokens
  PROVE  GroupsRight(a, b, c, d, e, f, g)
<1> DEFINE t1 == f \o g
           t2 == e \o t1
           t3 == d \o t2
           t4 == c \o t3
           t5 == b \o t4
<1>1. \A x, y \in Tokens : x \o y \in Tokens
  BY HeadOfWhole DEF Joined
<1>2. t1 \in Tokens /\ t2 \in Tokens /\ t3 \in Tokens /\ t4 \in Tokens /\ t5 \in Tokens /\ a \o t5 \in Tokens
  BY <1>1
<1> DEFINE p2 == a \o b
           p3 == p2 \o c
           p4 == p3 \o d
           p5 == p4 \o e
<1>3. p2 \in Tokens /\ p3 \in Tokens /\ p4 \in Tokens /\ p5 \in Tokens
  BY <1>1
<1> HIDE <1>1
<1>4. Grouped(p5, f, g) /\ Grouped(p4, e, t1) /\ Grouped(p3, d, t2) /\ Grouped(p2, c, t3) /\ Grouped(a, b, t4)
  <2> HIDE DEF p2, p3, p4, p5, t1, t2, t3, t4
  <2> QED BY <1>2, <1>3, Regrouped
<1>5. (p5 \o f) \o g = p5 \o t1
  BY <1>4 DEF Grouped
<1>6. p5 \o t1 = p4 \o t2
  BY <1>4 DEF Grouped
<1>7. p4 \o t2 = p3 \o t3
  BY <1>4 DEF Grouped
<1>8. p3 \o t3 = a \o t5
  BY <1>4 DEF Grouped
<1>9. (p5 \o f) \o g = a \o t5
  BY <1>5, <1>6, <1>7, <1>8
<1> QED BY <1>2, <1>9 DEF GroupsRight

\* What stands for a scheme, and for none
LEMMA SchemeText ==
  ASSUME NEW v \in Urls
  PROVE  /\ Chain!AppendScheme(v) \in Tokens
         /\ v.scheme # <<>> => Chain!AppendScheme(v) = v.scheme \o Slashes
         /\ v.scheme = <<>> => Chain!AppendScheme(v) = Alone("/") \o Alone("/")
<1> DEFINE x == v.scheme
           z == <<"/", "/">>
<1>1. x \in Tokens /\ ":" \in Words /\ "/" \in Words
  BY SomeWords DEF Urls
<1>2. Chain!AppendScheme(v) = (IF x = <<>> THEN <<>> ELSE Append(x, ":")) \o z
  BY DEF Chain!AppendScheme
<1>3. z = Alone("/") \o Alone("/") /\ Alone(":") \o z = Slashes
  <2>1. Joined(Alone("/"), Alone("/"))
    BY <1>1, OneToken, HeadOfWhole
  <2>2. z \in Tokens /\ Len(z) = 2 /\ z[1] = "/" /\ z[2] = "/"
    BY <1>1 DEF Tokens
  <2> HIDE DEF z
  <2>3. \A i \in 1 .. 2 : i = 1 \/ i = 2
    OBVIOUS
  <2> DEFINE y == Alone("/") \o Alone("/")
             o == Alone("/")
  <2>4. o \in Tokens /\ Len(o) = 1 /\ o[1] = "/"
    BY <1>1, OneToken
  <2> HIDE DEF o
  <2>5. y \in Tokens /\ Len(y) = 2 /\ y[1] = "/" /\ y[2] = "/"
    <3>1. y \in Tokens /\ Len(y) = Len(o) + Len(o) /\ \A i \in 1 .. Len(o) : y[i] = o[i] /\ y[Len(o) + i] = o[i]
      BY <2>1 DEF Joined, o
    <3> HIDE DEF y
    <3> QED BY <2>4, <3>1
  <2> HIDE DEF y
  <2>6. z = y
    <3>1. \A i \in 1 .. Len(z) : z[i] = y[i]
      BY <2>2, <2>3, <2>5
    <3> QED BY <2>2, <2>5, <3>1, SeqEqual DEF Tokens
  <2> DEFINE c == Alone(":")
             w == c \o z
  <2>7. c \in Tokens /\ Len(c) = 1 /\ c[1] = ":"
    BY <1>1, OneToken
  <2> HIDE DEF c
  <2>8. Joined(c, z)
    BY <2>2, <2>7, HeadOfWhole
  <2>9. w \in Tokens /\ Len(w) = 3 /\ w[1] = ":" /\ w[2] = "/" /\ w[3] = "/"
    <3>1. w \in Tokens /\ Len(w) = Len(c) + Len(z) /\ (\A i \in 1 .. Len(c) : w[i] = c[i])
          /\ (\A i \in 1 .. Len(z) : w[Len(c) + i] = z[i])
      BY <2>8 DEF Joined
    <3> HIDE DEF w
    <3>2. 1 \in 1 .. Len(c) /\ 1 \in 1 .. Len(z) /\ 2 \in 1 .. Len(z) /\ Len(c) + 1 = 2 /\ Len(c) + 2 = 3
      BY <2>2, <2>7
    <3> QED BY <2>2, <2>7, <3>1, <3>2
  <2> HIDE DEF w
  <2>10. \A i \in 1 .. 3 : i = 1 \/ i = 2 \/ i = 3
    OBVIOUS
  <2>11. \A i \in 1 .. Len(w) : w[i] = Slashes[i]
    BY <2>9, <2>10, SlashesAre
  <2>12. w = Slashes
    BY <2>9, <2>11, SlashesAre, SeqEqual DEF Tokens
  <2> QED BY <2>6, <2>12 DEF w, c, y
<1>4. Alone(":") \in Tokens /\ Alone("/") \in Tokens
  BY <1>1, OneToken
<1>5. z \in Tokens
  <2>1. Joined(Alone("/"), Alone("/"))
    BY <1>4, HeadOfWhole
  <2> QED BY <1>3, <2>1 DEF Joined
<1> HIDE DEF x, z
<1>6. CASE x = <<>>
  BY <1>2, <1>3, <1>5, <1>6, NoToken DEF x
<1>7. CASE x # <<>>
  <2>1. Append(x, ":") = x \o Alone(":")
    BY <1>1, Appended
  <2>2. (x \o Alone(":")) \o z = x \o (Alone(":") \o z)
    BY <1>1, <1>4, <1>5, Regroup
  <2>3. Chain!AppendScheme(v) = x \o Slashes
    BY <1>2, <1>3, <1>7, <2>1, <2>2
  <2>4. Joined(x, Slashes)
    BY <1>1, SlashesAre, HeadOfWhole
  <2> QED BY <1>7, <2>3, <2>4 DEF Joined, x
<1> QED BY <1>6, <1>7

\* The text begins with a slash.
Rooted(s) == s # <<>> /\ s[1] = "/"

\* A host without a user's mark stands before the slash of the path.
LEMMA HostBefore ==
  ASSUME NEW s \in Tokens, NEW t \in Tokens, NEW r \in Tokens, NoMark(s), NoMark(t), Rooted(r)
  PROVE  Slashed(s \o (t \o r))
<1> DEFINE a == s \o t
           k == Len(a) + 1
<1>1. Joined(s, t) /\ Len(s) \in Nat /\ Len(t) \in Nat
  BY HeadOfWhole, IsLen
<1>2. /\ a \in Tokens /\ Len(a) = Len(s) + Len(t)
      /\ \A i \in 1 .. Len(s) : a[i] = s[i]
      /\ \A i \in 1 .. Len(t) : a[Len(s) + i] = t[i]
  BY <1>1 DEF Joined
<1> HIDE DEF a
<1>3. \A i \in 1 .. Len(a) : a[i] # "@"
  <2> TAKE i \in 1 .. Len(a)
  <2>1. CASE i \in 1 .. Len(s)
    BY <1>2, <2>1 DEF NoMark
  <2>2. CASE i - Len(s) \in 1 .. Len(t)
    <3>1. \A j \in 1 .. Len(t) : a[Len(s) + j] # "@"
      <4> TAKE j \in 1 .. Len(t)
      <4>1. a[Len(s) + j] = t[j]
        BY <1>2
      <4>2. t[j] # "@"
        BY DEF NoMark
      <4> QED BY <4>1, <4>2
    <3>2. \E j \in 1 .. Len(t) : i = Len(s) + j
      BY <1>1, <2>2
    <3> QED BY <3>1, <3>2
  <2>3. i \in 1 .. Len(s) \/ i - Len(s) \in 1 .. Len(t)
    BY <1>1, <1>2
  <2> QED BY <2>1, <2>2, <2>3
<1>4. Joined(a, r) /\ 1 \in 1 .. Len(r) /\ Len(a) \in Nat
  BY <1>2, HeadOfWhole, IsLen DEF Rooted
<1>5. a \o r = s \o (t \o r)
  BY Regroup DEF a
<1>6. (a \o r)[k] = "/" /\ k \in 1 .. Len(a \o r) /\ \A j \in 1 .. k - 1 : (a \o r)[j] # "@"
  <2>1. (a \o r)[k] = r[1]
    BY <1>4 DEF Joined
  <2>2. k \in 1 .. Len(a \o r)
    BY <1>4 DEF Joined
  <2>3. \A j \in 1 .. k - 1 : j \in 1 .. Len(a)
    BY <1>4
  <2>4. \A j \in 1 .. k - 1 : (a \o r)[j] = a[j]
    BY <1>4, <2>3 DEF Joined
  <2> QED BY <1>3, <2>1, <2>2, <2>3, <2>4 DEF Rooted
<1> HIDE DEF k
<1>7. Slashed(a \o r)
  BY <1>6 DEF Slashed
<1> QED BY <1>5, <1>7

\* Every url object has a text.
LEMMA WellText ==
  ASSUME NEW v, Well(v)
  PROVE  Chain!Text(v) \in Tokens
<1>1. v \in Urls
  BY DEF Well
<1>2. Chain!AppendScheme(v) \in Tokens
  BY <1>1, SchemeText
<1>3. Chain!AppendUserInfo(v) \in Tokens
  <2>1. Alone("/") \in Tokens /\ Slashed(Alone("/"))
    <3>1. Alone("/") \in Tokens /\ Len(Alone("/")) = 1 /\ Alone("/")[1] = "/"
      BY SomeWords, OneToken
    <3>2. 1 \in 1 .. Len(Alone("/")) /\ \A j \in 1 .. 1 - 1 : FALSE
      BY <3>1
    <3> QED BY <3>1, <3>2 DEF Slashed
  <2> QED BY <1>1, <2>1, UserFound DEF Well
<1>4. Chain!AppendPath(v) \in Tokens
  BY <1>1, PathFound, NoToken DEF Well
<1> DEFINE t == Alone("/")
<1>5. t \in Tokens /\ t # <<>> /\ t[1] \in {"/"} /\ t[1] \in {":", "/"}
  BY SomeWords, OneToken, IsLen
<1> HIDE DEF t
<1>6. Chain!AppendPort(v) \in Tokens
  BY <1>1, <1>5, PortFound DEF Well
<1>7. Chain!AppendHost(v) \in Tokens
  BY <1>1, <1>5, HostFound DEF Well
<1>8. Chain!AppendQuery(v) \in Tokens /\ Chain!AppendFragment(v) \in Tokens
  BY <1>1, NoToken, QueryFound, FragmentFound
<1>9. GroupsRight(Chain!AppendScheme(v), Chain!AppendUserInfo(v), Chain!AppendHost(v),
        Chain!AppendPort(v), Chain!AppendPath(v), Chain!AppendQuery(v), Chain!AppendFragment(v))
  BY <1>2, <1>3, <1>4, <1>6, <1>7, <1>8, TextIs
<1> QED BY <1>9 DEF GroupsRight, Chain!Text

\* What a text says of a url, it says to who reads it: only the host may differ, and an
\* empty path is the slash that stands for it.
ReadsAs(v, w) ==
  \E h \in Tokens :
    /\ IsName(v.host) => h = v.host
    /\ w = [scheme |-> v.scheme, username |-> v.username, password |-> v.password,
            host |-> Chain!Decode(h), port |-> v.port,
            path |-> IF v.path = <<>> THEN Alone("/") ELSE v.path,
            query |-> v.query, fragment |-> v.fragment]

\* url::parse reads from the text of a url object what the object has.
LEMMA TextReads ==
  ASSUME NEW v, Well(v), v.scheme # <<>>, NoMark(v.host), ~Chain!Has(v.query, {"#"})
  PROVE  ReadsAs(v, Chain!Parse(Chain!Text(v)))
<1> DEFINE a == Chain!AppendScheme(v)
           b == Chain!AppendUserInfo(v)
           c == Chain!AppendHost(v)
           d == Chain!AppendPort(v)
           e == Chain!AppendPath(v)
           f == Chain!AppendQuery(v)
           g == Chain!AppendFragment(v)
           t1 == f \o g
           t2 == e \o t1
           t3 == d \o t2
           t4 == c \o t3
           t5 == b \o t4
           n == Chain!Encode(v.username, {})
           w == Chain!Encode(v.password, {})
           p0 == IF v.path = <<>> THEN Alone("/") ELSE v.path
<1>1. v \in Urls
  BY DEF Well
<1>2. g \in Tokens /\ (g = <<>> \/ g[1] \in {"#"})
      /\ (IF Chain!Starts(g, "#") THEN Chain!From(g, 2) ELSE <<>>) = v.fragment
  BY <1>1, FragmentFound
<1> HIDE DEF g
<1>3. /\ f \in Tokens /\ (t1 = <<>> \/ t1[1] \in {"?", "#"})
      /\ Chain!ParseQuery(t1) = [val |-> v.query, rest |-> g]
  BY <1>1, <1>2, QueryFound
<1>4. a \in Tokens /\ a = v.scheme \o Slashes
  BY <1>1, SchemeText
<1>5. t1 \in Tokens
  BY <1>2, <1>3, HeadOfWhole DEF Joined
<1> HIDE DEF t1, f, a
<1>6. /\ e \in Tokens /\ t2 # <<>> /\ t2[1] \in {"/"}
      /\ \E p \in Tokens : Chain!ParsePath(t2) = [val |-> p, rest |-> t1]
                           /\ Chain!Decodes(p) /\ Chain!Decode(p) = p0
  BY <1>1, <1>3, <1>5, PathFound DEF Well
<1>7. PICK p \in Tokens : Chain!ParsePath(t2) = [val |-> p, rest |-> t1]
                          /\ Chain!Decodes(p) /\ Chain!Decode(p) = p0
  BY <1>6
<1>8. t2 \in Tokens
  BY <1>5, <1>6, HeadOfWhole DEF Joined
<1> HIDE DEF e, t2, p0
<1>9. /\ d \in Tokens /\ NoMark(d) /\ t3 # <<>> /\ t3[1] \in {":", "/"}
      /\ Chain!ParsePort(t3) = [ok |-> TRUE, val |-> v.port, rest |-> t2]
  BY <1>1, <1>6, <1>8, PortFound DEF Well
<1>10. t3 \in Tokens
  BY <1>8, <1>9, HeadOfWhole DEF Joined
<1> DEFINE t3x == t3
<1>11. /\ c \in Tokens /\ NoMark(c)
       /\ \E h \in Tokens : /\ Chain!ParseHost(t4) = [ok |-> TRUE, val |-> h, rest |-> t3]
                            /\ Chain!Decodes(h)
                            /\ IsName(v.host) => h = v.host
  <2> HIDE DEF t3
  <2> QED BY <1>1, <1>9, <1>10, HostFound DEF Well
<1>12. PICK h \in Tokens : /\ Chain!ParseHost(t4) = [ok |-> TRUE, val |-> h, rest |-> t3]
                           /\ Chain!Decodes(h)
                           /\ IsName(v.host) => h = v.host
  BY <1>11
<1> HIDE DEF c, d
<1>13. Slashed(t4)
  BY <1>6, <1>8, <1>9, <1>11, HostBefore DEF Rooted
<1>14. t4 \in Tokens
  BY <1>10, <1>11, HeadOfWhole DEF Joined
<1> HIDE DEF t3, t4
<1>15. /\ b \in Tokens
       /\ Chain!ParseUserInfo(t5) = [name |-> n, word |-> w, rest |-> t4]
  BY <1>1, <1>13, <1>14, UserFound DEF Well
<1>16. /\ n \in Tokens /\ w \in Tokens /\ Chain!Decodes(n) /\ Chain!Decodes(w)
       /\ Chain!Decode(n) = v.username /\ Chain!Decode(w) = v.password
  <2>1. {} \in {{}, {"/"}} /\ "%" \in CharSet /\ v.username \in Tokens /\ v.password \in Tokens
    BY <1>1 DEF Urls, CharSet
  <2>2. /\ n \in Tokens /\ Len(n) = Len(v.username) /\ Chain!Decode(n) = v.username
        /\ \A i \in 1 .. Len(n) : n[i] \notin CharSet
    BY <2>1, Encoded DEF Well
  <2>3. /\ w \in Tokens /\ Len(w) = Len(v.password) /\ Chain!Decode(w) = v.password
        /\ \A i \in 1 .. Len(w) : w[i] \notin CharSet
    BY <2>1, Encoded DEF Well
  <2> HIDE DEF n, w
  <2>4. (\A i \in 1 .. Len(n) : n[i] \notin {"%"}) /\ (\A i \in 1 .. Len(w) : w[i] \notin {"%"})
    BY <2>1, <2>2, <2>3
  <2> QED BY <2>2, <2>3, <2>4, HasIs DEF Chain!Decodes
<1>17. t5 \in Tokens
  BY <1>14, <1>15, HeadOfWhole DEF Joined
<1> HIDE DEF b, t5, n, w
<1>18. Chain!ParseScheme(a \o t5) = [val |-> v.scheme, rest |-> t5]
  BY <1>1, <1>4, <1>17, SchemeFound DEF Well, Urls
<1>19. Chain!Text(v) = a \o t5
  <2>1. GroupsRight(a, b, c, d, e, f, g)
    BY <1>2, <1>3, <1>4, <1>6, <1>9, <1>11, <1>15, TextIs
  <2>2. a \o b \o c \o d \o e \o f \o g = a \o t5
    BY <2>1 DEF GroupsRight, t1, t2, t3, t4, t5
  <2> QED BY <2>2 DEF Chain!Text, a, b, c, d, e, f, g
<1>20. Chain!Text(v) # <<>>
  <2>1. Joined(v.scheme, Slashes) /\ Joined(a, t5)
    BY <1>1, <1>4, <1>17, SlashesAre, HeadOfWhole DEF Urls
  <2>2. Len(a) = Len(v.scheme) + 3 /\ Len(a \o t5) = Len(a) + Len(t5) /\ Len(v.scheme) \in Nat /\ Len(t5) \in Nat
    BY <1>1, <1>4, <1>17, <2>1, SlashesAre, IsLen DEF Joined, Urls
  <2>3. Len(a \o t5) # 0
    BY <2>2
  <2> QED BY <1>19, <2>1, <2>3, IsLen DEF Joined
<1>21. Chain!Parse(Chain!Text(v)) = [scheme |-> v.scheme, username |-> v.username,
             password |-> v.password, host |-> Chain!Decode(h), port |-> v.port,
             path |-> p0, query |-> v.query, fragment |-> v.fragment]
  BY <1>2, <1>3, <1>7, <1>9, <1>12, <1>15, <1>16, <1>18, <1>19, <1>20 DEF Chain!Parse
<1> QED BY <1>12, <1>21 DEF ReadsAs, p0

\* A part of a text is a text.
LEMMA SubText ==
  ASSUME NEW s \in Tokens, NEW m \in Nat, NEW n \in Int, m >= 1, n <= Len(s)
  PROVE  /\ SubSeq(s, m, n) \in Tokens
         /\ Len(SubSeq(s, m, n)) = IF m <= n THEN n - m + 1 ELSE 0
         /\ \A i \in 1 .. n - m + 1 : SubSeq(s, m, n)[i] = s[m + i - 1]
<1>1. \A i \in m .. n : s[i] \in Words
  <2> TAKE i \in m .. n
  <2>1. i \in 1 .. Len(s)
    BY IsLen
  <2> QED BY <2>1, ElementOfSeq DEF Tokens
<1> QED BY <1>1, SubSeqProperties DEF Tokens

\* What is left of a text is a text.
LEMMA FromText ==
  ASSUME NEW s \in Tokens, NEW i \in Nat, i >= 1
  PROVE  Chain!From(s, i) \in Tokens /\ Len(Chain!From(s, i)) = IF i <= Len(s) THEN Len(s) - i + 1 ELSE 0
<1>1. Len(s) \in Int
  BY IsLen
<1> QED BY <1>1, SubText DEF Chain!From

\* A part begins as its text does.
LEMMA PartText ==
  ASSUME NEW s \in Tokens, NEW n \in Int, n <= Len(s)
  PROVE  /\ Chain!Part(s, n) \in Tokens
         /\ n >= 0 /\ s # <<>> => Chain!Part(s, n) # <<>> /\ Chain!Part(s, n)[1] = s[1]
<1>1. Len(s) \in Nat
  BY IsLen
<1>2. CASE n = 0
  BY <1>2 DEF Chain!Part
<1>3. CASE n # 0
  <2> DEFINE a == SubSeq(s, 1, n)
  <2>1. a \in Tokens /\ Len(a) = (IF 1 <= n THEN n - 1 + 1 ELSE 0) /\ \A i \in 1 .. n - 1 + 1 : a[i] = s[1 + i - 1]
    BY SubText
  <2> HIDE DEF a
  <2>2. n >= 0 => Len(a) # 0 /\ a[1] = s[1]
    BY <1>3, <2>1
  <2>3. Chain!Part(s, n) = a
    BY <1>3 DEF Chain!Part, a
  <2> QED BY <2>1, <2>2, <2>3, IsLen
<1> QED BY <1>2, <1>3

\* What is before a delimiter and what is behind it are texts.
LEMMA TillText ==
  ASSUME NEW s \in Tokens, NEW C
  PROVE  /\ Chain!Till(s, Chain!First(s, C)) \in Tokens
         /\ Chain!After(s, Chain!First(s, C)) \in Tokens
         /\ s # <<>> => Chain!Till(s, Chain!First(s, C)) # <<>> /\ Chain!Till(s, Chain!First(s, C))[1] = s[1]
<1> DEFINE c == Chain!First(s, C)
<1>1. c \in 0 .. Len(s) /\ Len(s) \in Nat
  BY FirstIs, IsLen
<1> HIDE DEF c
<1>2. CASE c = 0
  BY <1>2, NoToken DEF Chain!Till, Chain!After, c
<1>3. CASE c # 0
  <2>1. c - 1 \in Int /\ c - 1 <= Len(s) /\ c - 1 >= 0 /\ c \in Nat /\ c >= 1
    BY <1>1, <1>3
  <2>2. /\ Chain!Part(s, c - 1) \in Tokens /\ Chain!From(s, c) \in Tokens
        /\ s # <<>> => Chain!Part(s, c - 1) # <<>> /\ Chain!Part(s, c - 1)[1] = s[1]
    BY <2>1, PartText, FromText
  <2> QED BY <1>3, <2>2 DEF Chain!Till, Chain!After, c
<1> QED BY <1>2, <1>3

\* A scheme that was read holds no authority.
LEMMA SchemeWell ==
  ASSUME NEW s \in Tokens
  PROVE  LET p == Chain!ParseScheme(s)
         IN  p.val \in Tokens /\ p.rest \in Tokens /\ Schemed(p.val)
<1>1. CASE ~Chain!AuthorityAt(s)
  BY <1>1, NoToken DEF Chain!ParseScheme, Schemed
<1>2. CASE Chain!AuthorityAt(s)
  <2> DEFINE Ends(i) == SubSeq(s, i, i + 2) = <<":", "/", "/">>
               /\ \A j \in 1 .. i - 1 : SubSeq(s, j, j + 2) # <<":", "/", "/">>
             n == Chain!SchemeEnd(s)
             x == SubSeq(s, 1, n - 1)
             y == x \o Slashes
  <2>1. Len(s) \in Nat
    BY IsLen
  <2>2. \E i \in 1 .. Len(s) - 2 : Ends(i)
    <3> DEFINE T == {i \in 1 .. Len(s) - 2 : SubSeq(s, i, i + 2) = <<":", "/", "/">>}
    <3>1. T \in SUBSET Nat /\ T # {}
      <4>1. T \in SUBSET (1 .. Len(s) - 2)
        OBVIOUS
      <4>2. PICK i \in 1 .. Len(s) - 2 : SubSeq(s, i, i + 2) = <<":", "/", "/">>
        BY <1>2 DEF Chain!AuthorityAt
      <4>3. i \in T
        BY <4>2
      <4> HIDE DEF T
      <4>4. 1 .. Len(s) - 2 \in SUBSET Nat
        BY <2>1
      <4> QED BY <4>1, <4>3, <4>4
    <3> HIDE DEF T
    <3>2. PICK k \in T : \A j \in T : k <= j
      BY <3>1, Smallest
    <3>3. k \in 1 .. Len(s) - 2 /\ SubSeq(s, k, k + 2) = <<":", "/", "/">>
      BY <3>2 DEF T
    <3>4. ASSUME NEW j \in 1 .. k - 1 PROVE SubSeq(s, j, j + 2) # <<":", "/", "/">>
      <4>1. j \in 1 .. Len(s) - 2 /\ ~(k <= j)
        BY <2>1, <3>3
      <4> QED BY <3>2, <4>1 DEF T
    <3> QED BY <3>3, <3>4
  <2>3. n = CHOOSE i \in 1 .. Len(s) - 2 : Ends(i)
    BY DEF Chain!SchemeEnd
  <2>4. n \in 1 .. Len(s) - 2 /\ Ends(n)
    <3> HIDE DEF n, Ends
    <3> QED BY <2>2, <2>3
  <2> HIDE DEF n
  <2>5. Mark(s, n) /\ \A j \in 1 .. n - 1 : ~Mark(s, j)
    <3>1. \A j \in 1 .. n - 1 : j \in 1 .. Len(s) - 2
      BY <2>1, <2>4
    <3> QED BY <2>4, <3>1, MarkAt
  <2>6. x \in Tokens /\ Len(x) = n - 1 /\ \A i \in 1 .. n - 1 : x[i] = s[i]
    <3>1. 1 \in Nat /\ n - 1 \in Int /\ n - 1 <= Len(s)
      BY <2>1, <2>4
    <3>2. x \in Tokens /\ Len(x) = (IF 1 <= n - 1 THEN n - 1 - 1 + 1 ELSE 0)
          /\ \A i \in 1 .. n - 1 - 1 + 1 : x[i] = s[1 + i - 1]
      BY <3>1, SubText
    <3> HIDE DEF x
    <3> QED BY <2>1, <2>4, <3>2
  <2> HIDE DEF x
  <2>7. Joined(x, Slashes)
    BY <2>6, SlashesAre, HeadOfWhole
  <2>8. /\ \A i \in 1 .. n - 1 : y[i] = s[i]
        /\ y[n] = ":" /\ y[n + 1] = "/" /\ y[n + 2] = "/"
    <3>1. y[Len(x) + 1] = ":" /\ y[Len(x) + 2] = "/" /\ y[Len(x) + 3] = "/"
      BY <2>7, SlashesAre DEF Joined
    <3>2. Len(x) + 1 = n /\ Len(x) + 2 = n + 1 /\ Len(x) + 3 = n + 2
      BY <2>4, <2>6
    <3>3. \A i \in 1 .. n - 1 : y[i] = x[i]
      BY <2>6, <2>7 DEF Joined
    <3> HIDE DEF y
    <3> QED BY <2>6, <3>1, <3>2, <3>3
  <2> HIDE DEF y
  <2>9. \A j \in 1 .. Len(x) : ~Mark(y, j)
    <3> SUFFICES ASSUME NEW j \in 1 .. n - 1, Mark(y, j) PROVE FALSE
      BY <2>6
    <3>1. y[j] = s[j]
      BY <2>8
    <3>2. y[j + 1] = s[j + 1]
      <4>1. CASE j = n - 1
        BY <2>4, <2>5, <2>8, <4>1 DEF Mark
      <4>2. CASE j + 1 \in 1 .. n - 1
        BY <2>8, <4>2
      <4> QED BY <2>4, <4>1, <4>2
    <3>3. y[j + 2] = s[j + 2]
      <4>1. CASE j = n - 1
        <5>1. j + 2 = n + 1
          BY <2>4, <4>1
        <5> QED BY <2>5, <2>8, <5>1 DEF Mark
      <4>2. CASE j = n - 2
        <5>1. j + 2 = n
          BY <2>4, <4>2
        <5> QED BY <2>5, <2>8, <5>1 DEF Mark
      <4>3. CASE j + 2 \in 1 .. n - 1
        BY <2>8, <4>3
      <4> QED BY <2>4, <4>1, <4>2, <4>3
    <3>4. Mark(s, j)
      BY <3>1, <3>2, <3>3 DEF Mark
    <3> QED BY <2>5, <3>4
  <2>10. Chain!From(s, n + 3) \in Tokens
    <3>1. n + 3 \in Nat /\ n + 3 >= 1
      BY <2>4
    <3> QED BY <3>1, FromText
  <2>11. Chain!ParseScheme(s) = [val |-> x, rest |-> Chain!From(s, n + 3)]
    BY <1>2 DEF Chain!ParseScheme, x, n
  <2> QED BY <2>6, <2>9, <2>10, <2>11 DEF Schemed, y
<1> QED BY <1>1, <1>2

\* There is no password without a user.
LEMMA UserWell ==
  ASSUME NEW s \in Tokens
  PROVE  LET p == Chain!ParseUserInfo(s)
         IN  p.name \in Tokens /\ p.word \in Tokens /\ p.rest \in Tokens /\ (p.name = <<>> => p.word = <<>>)
<1> DEFINE C == {"@", "/"}
           D == {":"}
           c == Chain!First(s, C)
           colon == Chain!First(SubSeq(s, 1, c - 1), D)
<1>1. c \in 0 .. Len(s) /\ Len(s) \in Nat
  BY FirstIs, IsLen
<1>2. Chain!ParseUserInfo(s) =
        CASE c = 0 \/ s[c] # "@" -> [name |-> <<>>, word |-> <<>>, rest |-> s]
          [] c # 0 /\ s[c] = "@" /\ colon = 0 ->
               [name |-> Chain!Part(s, c - 1), word |-> <<>>, rest |-> Chain!From(s, c + 1)]
          [] OTHER -> [name |-> Chain!Part(s, colon - 1),
               word |-> Chain!Part(Chain!From(s, colon + 1), c - colon - 1), rest |-> Chain!From(s, c + 1)]
  BY DEF Chain!ParseUserInfo
<1>3. 1 \in Nat /\ c - 1 \in Int /\ c - 1 <= Len(s)
  <2> HIDE DEF c
  <2> QED BY <1>1
<1> DEFINE b == SubSeq(s, 1, c - 1)
<1>4. b \in Tokens /\ Len(b) = IF 1 <= c - 1 THEN c - 1 - 1 + 1 ELSE 0
  BY <1>3, SubText
<1>5. colon \in 0 .. Len(b)
  BY <1>4, FirstIs
<1> HIDE DEF b, colon, c
<1>6. CASE c = 0 \/ s[c] # "@"
  BY <1>2, <1>6, NoToken
<1>7. CASE c # 0 /\ s[c] = "@" /\ colon = 0
  <2>1. Chain!Part(s, c - 1) \in Tokens /\ Chain!From(s, c + 1) \in Tokens
    <3>1. c + 1 \in Nat /\ c + 1 >= 1
      BY <1>1
    <3> QED BY <1>3, <3>1, PartText, FromText
  <2> QED BY <1>2, <1>7, <2>1, NoToken
<1>8. CASE c # 0 /\ s[c] = "@" /\ colon # 0
  <2>1. s # <<>>
    BY <1>1, <1>8, IsLen
  <2>2. /\ colon - 1 \in Int /\ colon - 1 <= Len(s) /\ colon - 1 >= 0 /\ colon + 1 \in Nat /\ colon + 1 >= 1
        /\ c - colon - 1 \in Int /\ c + 1 \in Nat /\ c + 1 >= 1 /\ colon <= c - 1
    BY <1>1, <1>4, <1>5, <1>8
  <2>3. Chain!Part(s, colon - 1) \in Tokens /\ Chain!Part(s, colon - 1) # <<>>
    BY <2>1, <2>2, PartText
  <2>4. Chain!From(s, c + 1) \in Tokens /\ Chain!From(s, colon + 1) \in Tokens
        /\ Len(Chain!From(s, colon + 1)) = IF colon + 1 <= Len(s) THEN Len(s) - (colon + 1) + 1 ELSE 0
    BY <2>2, FromText
  <2>5. c - colon - 1 <= Len(Chain!From(s, colon + 1))
    <3> DEFINE l == Len(Chain!From(s, colon + 1))
    <3>1. l = IF colon + 1 <= Len(s) THEN Len(s) - (colon + 1) + 1 ELSE 0
      BY <2>4
    <3> HIDE DEF l
    <3>2. c - colon - 1 <= l
      BY <1>1, <1>5, <2>2, <3>1
    <3> QED BY <3>2 DEF l
  <2>6. Chain!Part(Chain!From(s, colon + 1), c - colon - 1) \in Tokens
    BY <2>2, <2>4, <2>5, PartText
  <2>7. Chain!ParseUserInfo(s) = [name |-> Chain!Part(s, colon - 1),
               word |-> Chain!Part(Chain!From(s, colon + 1), c - colon - 1), rest |-> Chain!From(s, c + 1)]
    BY <1>2, <1>8
  <2> QED BY <2>3, <2>4, <2>6, <2>7
<1> QED BY <1>6, <1>7, <1>8

\* A host is a text.
LEMMA HostWell ==
  ASSUME NEW s \in Tokens
  PROVE  LET p == Chain!ParseHost(s) IN p.val \in Tokens /\ p.rest \in Tokens
<1> DEFINE C == {":", "/", "?", "#"}
           E == {"]"}
           c == Chain!First(s, C)
           close == Chain!First(s, E)
<1>1. Chain!ParseHost(s) =
        CASE Chain!Starts(s, "[") -> [ok |-> close # 0, val |-> Chain!Part(Chain!From(s, 2), close - 2),
               rest |-> Chain!From(s, close + 1)]
          [] s # <<>> /\ c = 1 -> [ok |-> TRUE, val |-> <<>>, rest |-> s]
          [] OTHER -> [ok |-> TRUE, val |-> Chain!Till(s, c), rest |-> Chain!After(s, c)]
  BY DEF Chain!ParseHost
<1>2. close \in 0 .. Len(s) /\ Len(s) \in Nat
  BY FirstIs, IsLen
<1>3. Chain!Till(s, c) \in Tokens /\ Chain!After(s, c) \in Tokens
  BY TillText
<1>4. Chain!From(s, 2) \in Tokens /\ Len(Chain!From(s, 2)) = IF 2 <= Len(s) THEN Len(s) - 2 + 1 ELSE 0
  <2>1. 2 \in Nat /\ 2 >= 1
    OBVIOUS
  <2> QED BY <2>1, FromText
<1> HIDE DEF close
<1>5. Chain!From(s, close + 1) \in Tokens
  <2>1. close + 1 \in Nat /\ close + 1 >= 1
    BY <1>2
  <2> QED BY <2>1, FromText
<1>6. Chain!Part(Chain!From(s, 2), close - 2) \in Tokens
  <2>1. close - 2 \in Int /\ close - 2 <= Len(Chain!From(s, 2))
    BY <1>2, <1>4
  <2> QED BY <1>4, <2>1, PartText
<1>7. CASE Chain!Starts(s, "[")
  <2>1. c # 1
    <3>1. s[1] \notin C
      BY <1>7 DEF Chain!Starts
    <3> HIDE DEF C
    <3> QED BY <3>1, FirstIs
  <2> HIDE DEF c
  <2>2. Chain!ParseHost(s).val = Chain!Part(Chain!From(s, 2), close - 2)
        /\ Chain!ParseHost(s).rest = Chain!From(s, close + 1)
    BY <1>1, <1>7, <2>1
  <2> QED BY <1>5, <1>6, <2>2
<1>8. CASE ~Chain!Starts(s, "[") /\ s # <<>> /\ c = 1
  <2> HIDE DEF c
  <2> QED BY <1>1, <1>8, NoToken
<1>9. CASE ~Chain!Starts(s, "[") /\ ~(s # <<>> /\ c = 1)
  <2> HIDE DEF c
  <2> QED BY <1>1, <1>3, <1>9
<1> QED BY <1>7, <1>8, <1>9

\* A port that was read is a number, a path begins with a slash.
LEMMA RestWell ==
  ASSUME NEW s \in Tokens
  PROVE  /\ LET p == Chain!ParsePort(s)
            IN  p.val \in Tokens /\ p.rest \in Tokens /\ (p.ok => p.val \in {<<>>, Alone("80")})
         /\ LET p == Chain!ParsePath(s)
            IN  p.val \in Tokens /\ p.rest \in Tokens /\ (p.val = <<>> \/ p.val[1] \in {"/"})
         /\ LET p == Chain!ParseQuery(s) IN p.val \in Tokens /\ p.rest \in Tokens
         /\ Chain!From(s, 2) \in Tokens
<1>1. Chain!From(s, 2) \in Tokens
  BY FromText
<1>2. \A C : /\ Chain!Till(Chain!From(s, 2), Chain!First(Chain!From(s, 2), C)) \in Tokens
             /\ Chain!After(Chain!From(s, 2), Chain!First(Chain!From(s, 2), C)) \in Tokens
  BY <1>1, TillText
<1>3. LET p == Chain!ParsePort(s)
      IN  p.val \in Tokens /\ p.rest \in Tokens /\ (p.ok => p.val \in {<<>>, Alone("80")})
  BY <1>2, NoToken DEF Chain!ParsePort, Chain!NoPort, Chain!Number, Alone
<1>4. LET p == Chain!ParseQuery(s) IN p.val \in Tokens /\ p.rest \in Tokens
  BY <1>2, NoToken DEF Chain!ParseQuery
<1>5. LET p == Chain!ParsePath(s)
      IN  p.val \in Tokens /\ p.rest \in Tokens /\ (p.val = <<>> \/ p.val[1] \in {"/"})
  <2>1. CASE ~Chain!Starts(s, "/")
    BY <2>1, NoToken DEF Chain!ParsePath
  <2>2. CASE Chain!Starts(s, "/")
    <3>1. s # <<>> /\ s[1] = "/"
      BY <2>2 DEF Chain!Starts
    <3> DEFINE C == {"?", "#"}
    <3>2. /\ Chain!Till(s, Chain!First(s, C)) \in Tokens
          /\ Chain!After(s, Chain!First(s, C)) \in Tokens
          /\ Chain!Till(s, Chain!First(s, C)) # <<>> /\ Chain!Till(s, Chain!First(s, C))[1] = s[1]
      BY <3>1, TillText
    <3> QED BY <2>2, <3>1, <3>2 DEF Chain!ParsePath
  <2> QED BY <2>1, <2>2
<1> QED BY <1>1, <1>3, <1>4, <1>5

\* url::clear leaves a url object as every one is.
LEMMA EmptyWell == Well(Chain!Empty) /\ Chain!Empty # Chain!Threw /\ Schemed(<<>>)
<1>1. Schemed(<<>>) /\ Clean(<<>>)
  <2>1. Len(<<>>) = 0
    OBVIOUS
  <2> QED BY <2>1 DEF Schemed, Clean
<1>2. Chain!Empty \in Urls
  BY NoToken DEF Chain!Empty, Urls, Chain!NoPort
<1>3. Chain!Empty.port # Chain!Threw.port
  BY DEF Chain!Empty, Chain!Threw, Chain!NoPort
<1> QED BY <1>1, <1>2, <1>3 DEF Well, Chain!Empty, Chain!NoPort

\* An exception is no url object.
LEMMA ThrewIsNot == ~Well(Chain!Threw)
<1>1. Chain!Threw.port = <<"threw">>
  BY DEF Chain!Threw, Chain!Empty
<1>2. <<"threw">> # <<"80">> /\ <<"threw">> # <<>>
  OBVIOUS
<1> QED BY <1>1, <1>2 DEF Well, Alone

\* What is decoded is empty, or begins with a slash, if the text was or did.
LEMMA DecodedHead ==
  ASSUME NEW s \in Tokens
  PROVE  /\ Chain!Decode(s) = <<>> <=> s = <<>>
         /\ s = <<>> \/ s[1] \in {"/"} => Chain!Decode(s) = <<>> \/ Chain!Decode(s)[1] \in {"/"}
<1> DEFINE d == Chain!Decode(s)
<1>1. d \in Tokens /\ Len(d) = Len(s) /\ \A i \in 1 .. Len(s) : d[i] = DecodeOne(s[i])
  BY Decoded
<1> HIDE DEF d
<1>2. d = <<>> <=> s = <<>>
  BY <1>1, IsLen
<1>3. ASSUME s # <<>>, s[1] \in {"/"} PROVE d[1] \in {"/"}
  <2>1. 1 \in 1 .. Len(s)
    BY <1>3, IsLen
  <2>2. s[1] \in Words /\ s[1] \in {"/", "%/"}
    BY <1>3, SomeWords
  <2>3. d[1] = DecodeOne(s[1])
    BY <1>1, <2>1
  <2>4. DecodeOne(s[1]) = "/"
    BY <2>2, DecodedOne
  <2> QED BY <2>3, <2>4
<1> QED BY <1>2, <1>3 DEF d

\* Whatever text is read, the url object is as every url object is.
LEMMA ParseWell ==
  ASSUME NEW s \in Tokens
  PROVE  Chain!Parse(s) = Chain!Threw \/ Well(Chain!Parse(s))
<1> DEFINE scheme == Chain!ParseScheme(s)
           user == Chain!ParseUserInfo(scheme.rest)
           host == Chain!ParseHost(user.rest)
           port == Chain!ParsePort(host.rest)
           path == Chain!ParsePath(port.rest)
           query == Chain!ParseQuery(path.rest)
           bad == ~host.ok \/ ~port.ok \/ \E t \in {user.name, user.word, host.val, path.val} : ~Chain!Decodes(t)
           frag == IF Chain!Starts(query.rest, "#") THEN Chain!From(query.rest, 2) ELSE <<>>
           p == [scheme |-> scheme.val, username |-> Chain!Decode(user.name),
             password |-> Chain!Decode(user.word), host |-> Chain!Decode(host.val), port |-> port.val,
             path |-> Chain!Decode(path.val), query |-> query.val, fragment |-> frag]
<1>1. scheme.val \in Tokens /\ scheme.rest \in Tokens /\ Schemed(scheme.val)
  BY SchemeWell
<1> HIDE DEF scheme
<1>2. user.name \in Tokens /\ user.word \in Tokens /\ user.rest \in Tokens /\ (user.name = <<>> => user.word = <<>>)
  BY <1>1, UserWell
<1> HIDE DEF user
<1>3. host.val \in Tokens /\ host.rest \in Tokens
  BY <1>2, HostWell
<1> HIDE DEF host
<1>4. port.val \in Tokens /\ port.rest \in Tokens /\ (port.ok => port.val \in {<<>>, Alone("80")})
  BY <1>3, RestWell
<1> HIDE DEF port
<1>5. path.val \in Tokens /\ path.rest \in Tokens /\ (path.val = <<>> \/ path.val[1] \in {"/"})
  BY <1>4, RestWell
<1> HIDE DEF path
<1>6. query.val \in Tokens /\ query.rest \in Tokens
  BY <1>5, RestWell
<1> HIDE DEF query
<1>7. frag \in Tokens
  BY <1>6, RestWell, NoToken
<1> HIDE DEF frag
<1>8. Chain!Parse(s) = CASE s = <<>> -> Chain!Empty
        [] s # <<>> /\ bad -> Chain!Threw
        [] OTHER -> p
  BY DEF Chain!Parse, scheme, user, host, port, path, query, frag
<1>9. ~bad => Well(p)
  <2>1. /\ Chain!Decode(user.name) \in Tokens /\ Clean(Chain!Decode(user.name))
        /\ Chain!Decode(user.word) \in Tokens /\ Clean(Chain!Decode(user.word))
        /\ Chain!Decode(host.val) \in Tokens /\ Clean(Chain!Decode(host.val))
        /\ Chain!Decode(path.val) \in Tokens /\ Clean(Chain!Decode(path.val))
    BY <1>2, <1>3, <1>5, Decoded
  <2>2. Chain!Decode(user.name) = <<>> => Chain!Decode(user.word) = <<>>
    BY <1>2, DecodedHead
  <2>3. Chain!Decode(path.val) = <<>> \/ Chain!Decode(path.val)[1] \in {"/"}
    BY <1>5, DecodedHead
  <2>4. p \in Urls
    BY <1>1, <1>4, <1>6, <1>7, <2>1 DEF Urls
  <2> QED BY <1>1, <1>4, <2>1, <2>2, <2>3, <2>4 DEF Well
<1> HIDE DEF p, bad
<1> QED BY <1>8, <1>9, EmptyWell

\* A text without an authority is read as a path, from its slashes on.
LEMMA BareReads ==
  ASSUME NEW v, Well(v), v.path # <<>>,
         v.scheme = <<>>, v.username = <<>>, v.host = <<>>, v.port = <<>>, v.query = <<>>, v.fragment = <<>>
  PROVE  Chain!Parse(Chain!Text(v)) =
           [scheme |-> <<>>, username |-> <<>>, password |-> <<>>, host |-> <<>>, port |-> <<>>,
            path |-> Alone("/") \o (Alone("/") \o v.path), query |-> <<>>, fragment |-> <<>>]
<1> DEFINE o == Alone("/")
           e == Chain!Encode(v.path, {"/"})
           m == o \o e
           s == o \o m
           C == {"@", "/"}
           D == {":", "/", "?", "#"}
           E == {"?", "#"}
<1>1. v \in Urls /\ Clean(v.path) /\ v.path \in Tokens /\ v.path[1] \in {"/"} /\ v.password = <<>>
  BY DEF Well, Urls
<1>2. o \in Tokens /\ Len(o) = 1 /\ o[1] = "/" /\ "/" \in Words
  BY SomeWords, OneToken
<1>3. /\ e \in Tokens /\ Len(e) = Len(v.path) /\ Chain!Decode(e) = v.path
      /\ \A i \in 1 .. Len(v.path) : e[i] \notin CharSet \ {"/"}
  <2>1. {"/"} \in {{}, {"/"}}
    OBVIOUS
  <2> QED BY <1>1, <2>1, Encoded
<1>4. Chain!Text(v) = s
  <2>1. Chain!AppendScheme(v) = o \o o
    BY <1>1, SchemeText
  <2>2. Chain!AppendUserInfo(v) = <<>>
    <3>1. Chain!Encode(<<>>, {}) = <<>>
      BY NoneEncoded
    <3>2. <<>> \o <<>> = <<>>
      BY NoToken
    <3> QED BY <1>1, <3>1, <3>2 DEF Chain!AppendUserInfo
  <2>3. Chain!AppendHost(v) = <<>>
    <3>1. \A W : ~Chain!Has(<<>>, W)
      BY DEF Chain!Has
    <3> QED BY <3>1 DEF Chain!AppendHost
  <2>4. Chain!AppendPort(v) = <<>> /\ Chain!AppendQuery(v) = <<>> /\ Chain!AppendFragment(v) = <<>>
    BY DEF Chain!AppendPort, Chain!AppendQuery, Chain!AppendFragment, Chain!NoPort
  <2>5. Chain!AppendPath(v) = e
    <3>1. Chain!Starts(v.path, "/")
      BY <1>1 DEF Chain!Starts
    <3> HIDE DEF e
    <3>2. Chain!AppendPath(v) = <<>> \o e
      BY <3>1 DEF Chain!AppendPath, e
    <3> QED BY <1>3, <3>2, NoToken
  <2> HIDE DEF o, e
  <2>6. o \o o \in Tokens
    BY <1>2, HeadOfWhole DEF Joined
  <2>7. GroupsRight(o \o o, <<>>, <<>>, <<>>, e, <<>>, <<>>)
    BY <1>3, <2>6, NoToken, TextIs
  <2>8. Chain!Text(v) = (o \o o) \o (<<>> \o (<<>> \o (<<>> \o (e \o (<<>> \o <<>>)))))
    BY <2>1, <2>2, <2>3, <2>4, <2>5, <2>7 DEF GroupsRight, Chain!Text
  <2>9. <<>> \o (<<>> \o (<<>> \o (e \o (<<>> \o <<>>)))) = e
    BY <1>3, NoToken
  <2>10. (o \o o) \o e = o \o (o \o e)
    BY <1>2, <1>3, Regroup
  <2> QED BY <2>8, <2>9, <2>10
<1> HIDE DEF e
<1>5. m \in Tokens /\ Len(m) = 1 + Len(e) /\ m[1] = "/" /\ \A i \in 1 .. Len(e) : m[1 + i] = e[i]
  <2>1. Joined(o, e)
    BY <1>2, <1>3, HeadOfWhole
  <2>2. m \in Tokens /\ Len(m) = Len(o) + Len(e) /\ (\A i \in 1 .. Len(o) : m[i] = o[i])
        /\ \A i \in 1 .. Len(e) : m[Len(o) + i] = e[i]
    BY <2>1 DEF Joined
  <2>3. 1 \in 1 .. Len(o)
    BY <1>2
  <2> HIDE DEF m, o
  <2> QED BY <1>2, <2>2, <2>3
<1> HIDE DEF m
<1>6. s \in Tokens /\ Len(s) = 1 + Len(m) /\ s[1] = "/" /\ \A i \in 1 .. Len(m) : s[1 + i] = m[i]
  <2>1. Joined(o, m)
    BY <1>2, <1>5, HeadOfWhole
  <2>2. s \in Tokens /\ Len(s) = Len(o) + Len(m) /\ (\A i \in 1 .. Len(o) : s[i] = o[i])
        /\ \A i \in 1 .. Len(m) : s[Len(o) + i] = m[i]
    BY <2>1 DEF Joined
  <2>3. 1 \in 1 .. Len(o)
    BY <1>2
  <2> HIDE DEF s, o
  <2> QED BY <1>2, <2>2, <2>3
<1>7. Len(e) \in Nat /\ Len(m) \in Nat /\ Len(s) \in Nat /\ s # <<>>
  BY <1>3, <1>5, <1>6, IsLen
<1> HIDE DEF s
<1>8. \A i \in 1 .. Len(s) : s[i] \notin CharSet \ {"/"}
  <2> TAKE i \in 1 .. Len(s)
  <2> DEFINE F == CharSet \ {"/"}
  <2>1. "/" \notin F
    OBVIOUS
  <2> HIDE DEF F
  <2>2. CASE i = 1
    BY <1>6, <2>1, <2>2
  <2>3. CASE i = 2
    <3>1. s[1 + 1] = m[1]
      BY <1>5, <1>6, <1>7
    <3> QED BY <1>5, <2>1, <2>3, <3>1
  <2>4. CASE i - 2 \in 1 .. Len(e)
    <3>1. \A j \in 1 .. Len(e) : e[j] \notin F
      BY <1>3 DEF F
    <3>2. i - 1 \in 1 .. Len(m) /\ 1 + (i - 1) = i /\ 1 + (i - 2) = i - 1
      BY <1>5, <1>7, <2>4
    <3>3. s[1 + (i - 1)] = m[i - 1]
      BY <1>6, <3>2
    <3>4. m[1 + (i - 2)] = e[i - 2]
      BY <1>5, <2>4
    <3>5. s[i] = e[i - 2]
      <4> HIDE DEF F
      <4>1. s[i] = m[i - 1]
        BY <3>2, <3>3
      <4>2. m[i - 1] = e[i - 2]
        BY <3>2, <3>4
      <4> QED BY <4>1, <4>2
    <3> QED BY <2>4, <3>1, <3>5 DEF F
  <2>5. i = 1 \/ i = 2 \/ i - 2 \in 1 .. Len(e)
    BY <1>5, <1>6, <1>7
  <2> QED BY <2>2, <2>3, <2>4, <2>5 DEF F
<1>9. ~Chain!AuthorityAt(s)
  <2>1. ASSUME NEW i \in 1 .. Len(s) - 2, Mark(s, i) PROVE FALSE
    <3>1. i \in 1 .. Len(s)
      BY <1>7
    <3>2. s[i] \notin CharSet \ {"/"}
      BY <1>8, <3>1
    <3>3. s[i] = ":"
      BY <2>1 DEF Mark
    <3> QED BY <3>2, <3>3 DEF CharSet
  <2> QED BY <1>6, <2>1, AuthorityIs
<1>10. Chain!ParseScheme(s) = [val |-> <<>>, rest |-> s]
  BY <1>9 DEF Chain!ParseScheme
<1>11. Chain!First(s, C) = 1 /\ Chain!First(s, D) = 1
  <2>1. "/" \in C /\ "/" \in D /\ 1 \in 1 .. Len(s) /\ \A j \in 1 .. 1 - 1 : FALSE
    BY <1>6, <1>7
  <2> HIDE DEF C, D
  <2> QED BY <1>6, <2>1, FirstAt
<1>12. Chain!ParseUserInfo(s) = [name |-> <<>>, word |-> <<>>, rest |-> s]
  <2> DEFINE c == Chain!First(s, C)
             colon == Chain!First(SubSeq(s, 1, c - 1), {":"})
  <2>1. Chain!ParseUserInfo(s) =
        CASE c = 0 \/ s[c] # "@" -> [name |-> <<>>, word |-> <<>>, rest |-> s]
          [] c # 0 /\ s[c] = "@" /\ colon = 0 ->
               [name |-> Chain!Part(s, c - 1), word |-> <<>>, rest |-> Chain!From(s, c + 1)]
          [] OTHER -> [name |-> Chain!Part(s, colon - 1),
               word |-> Chain!Part(Chain!From(s, colon + 1), c - colon - 1), rest |-> Chain!From(s, c + 1)]
    BY DEF Chain!ParseUserInfo
  <2>2. s[c] # "@"
    BY <1>6, <1>11
  <2> HIDE DEF c, colon
  <2> QED BY <2>1, <2>2
<1>13. ~Chain!Starts(s, "[") /\ ~Chain!Starts(s, ":") /\ Chain!Starts(s, "/")
  BY <1>6, <1>7 DEF Chain!Starts
<1>14. Chain!ParseHost(s) = [ok |-> TRUE, val |-> <<>>, rest |-> s]
  <2> DEFINE c == Chain!First(s, D)
             close == Chain!First(s, {"]"})
  <2>1. Chain!ParseHost(s) =
        CASE Chain!Starts(s, "[") -> [ok |-> close # 0, val |-> Chain!Part(Chain!From(s, 2), close - 2),
               rest |-> Chain!From(s, close + 1)]
          [] s # <<>> /\ c = 1 -> [ok |-> TRUE, val |-> <<>>, rest |-> s]
          [] OTHER -> [ok |-> TRUE, val |-> Chain!Till(s, c), rest |-> Chain!After(s, c)]
    BY DEF Chain!ParseHost
  <2>2. c = 1
    BY <1>11
  <2> HIDE DEF c, close
  <2> QED BY <1>7, <1>13, <2>1, <2>2
<1>15. Chain!ParsePort(s) = [ok |-> TRUE, val |-> <<>>, rest |-> s]
  BY <1>13 DEF Chain!ParsePort, Chain!NoPort
<1>16. Chain!ParsePath(s) = [val |-> s, rest |-> <<>>]
  <2>1. \A i \in 1 .. Len(s) : s[i] \notin E
    <3>1. E \subseteq CharSet \ {"/"}
      BY DEF CharSet
    <3> HIDE DEF E
    <3> QED BY <1>8, <3>1
  <2>2. Chain!First(s, E) = 0
    <3> HIDE DEF E
    <3> QED BY <1>6, <2>1, FirstNowhere
  <2>3. Chain!Till(s, Chain!First(s, E)) = s /\ Chain!After(s, Chain!First(s, E)) = <<>>
    BY <2>2 DEF Chain!Till, Chain!After
  <2> QED BY <1>13, <2>3 DEF Chain!ParsePath
<1>17. Chain!ParseQuery(<<>>) = [val |-> <<>>, rest |-> <<>>] /\ ~Chain!Starts(<<>>, "#")
  BY DEF Chain!ParseQuery, Chain!Starts
<1>18. Chain!Decodes(s) /\ Chain!Decodes(<<>>)
  <2>1. \A i \in 1 .. Len(s) : s[i] \notin {"%"}
    <3>1. {"%"} \subseteq CharSet \ {"/"}
      BY DEF CharSet
    <3> QED BY <1>8, <3>1
  <2>2. ~Chain!Has(s, {"%"})
    <3> DEFINE W == {"%"}
    <3> HIDE DEF W
    <3>1. \A i \in 1 .. Len(s) : s[i] \notin W
      BY <2>1 DEF W
    <3>2. ~Chain!Has(s, W)
      BY <1>6, <3>1, HasIs
    <3> QED BY <3>2 DEF W
  <2>3. ~Chain!Has(<<>>, {"%"})
    BY DEF Chain!Has
  <2> QED BY <2>2, <2>3 DEF Chain!Decodes
<1>19. Chain!Decode(s) = o \o (o \o v.path) /\ Chain!Decode(<<>>) = <<>>
  <2>1. Chain!Decode(o) = o
    <3>1. Clean(o) /\ \A i \in 1 .. Len(o) : o[i] # "+"
      <4>1. \A i \in 1 .. Len(o) : i = 1
        BY <1>2
      <4>2. "/" \notin CodeSet /\ "/" # "+"
        BY DEF CodeSet
      <4> HIDE DEF o
      <4> QED BY <1>2, <4>1, <4>2 DEF Clean
    <3> HIDE DEF o
    <3> QED BY <1>2, <3>1, DecodedIsSame
  <2>2. Chain!Decode(<<>>) = <<>>
    BY NoToken, DecodedHead
  <2> HIDE DEF o
  <2>3. Chain!Decode(s) = Chain!Decode(o) \o Chain!Decode(m)
    BY <1>2, <1>5, DecodedWhole DEF s
  <2>4. Chain!Decode(m) = Chain!Decode(o) \o Chain!Decode(e)
    BY <1>2, <1>3, DecodedWhole DEF m
  <2> QED BY <1>3, <2>1, <2>2, <2>3, <2>4
<1> HIDE DEF o
<1>20. Chain!Parse(s) =
           [scheme |-> <<>>, username |-> <<>>, password |-> <<>>, host |-> <<>>, port |-> <<>>,
            path |-> o \o (o \o v.path), query |-> <<>>, fragment |-> <<>>]
  <2> DEFINE d == o \o (o \o v.path)
  <2>1. Chain!Decode(s) = d
    BY <1>19
  <2> HIDE DEF d
  <2>2. Chain!Parse(s) =
           [scheme |-> <<>>, username |-> <<>>, password |-> <<>>, host |-> <<>>, port |-> <<>>,
            path |-> d, query |-> <<>>, fragment |-> <<>>]
    BY <1>7, <1>10, <1>12, <1>14, <1>15, <1>16, <1>17, <1>18, <1>19, <2>1 DEF Chain!Parse
  <2> QED BY <2>2 DEF d
<1> QED BY <1>4, <1>20 DEF o

\* Two recursions that take the same steps agree as far as they do.
LEMMA Agree ==
  ASSUME NEW V, NEW base, NEW m \in Nat, NEW n \in Nat, m <= n, NEW a, NEW b, NEW f, NEW g,
         Solves(f, m, V, base, a), Solves(g, n, V, base, b),
         \A i \in 1 .. m : \A x \in V : a[<<i, x>>] = b[<<i, x>>]
  PROVE  f[m] = g[m]
<1> DEFINE T == {i \in 0 .. m : f[i] = g[i]}
<1>1. 0 \in T
  BY DEF Solves
<1>2. ASSUME NEW k \in 1 .. m, k - 1 \in T PROVE k \in T
  <2>1. f[k - 1] \in V /\ f[k - 1] = g[k - 1]
    <3>1. k - 1 \in 0 .. m
      OBVIOUS
    <3> QED BY <1>2, <3>1 DEF Solves
  <2>2. f[k] = a[<<k, f[k - 1]>>]
    BY DEF Solves
  <2>3. g[k] = b[<<k, g[k - 1]>>]
    <3>1. k \in 1 .. n
      OBVIOUS
    <3> QED BY <3>1 DEF Solves
  <2>4. a[<<k, f[k - 1]>>] = b[<<k, f[k - 1]>>]
    BY <2>1
  <2> QED BY <2>1, <2>2, <2>3, <2>4
<1>3. T \in SUBSET (0 .. m)
  OBVIOUS
<1> HIDE DEF T
<1>4. T = 0 .. m
  BY <1>1, <1>2, <1>3, Steps
<1>5. m \in T
  BY <1>4
<1> QED BY <1>5 DEF T

\* A recursion over one element more takes one step more.
LEMMA Onward ==
  ASSUME NEW V, NEW base, NEW n \in Nat, NEW a, NEW b, NEW f, NEW g,
         Solves(f, n, V, base, a), Solves(g, n + 1, V, base, b),
         \A i \in 1 .. n : \A x \in V : a[<<i, x>>] = b[<<i, x>>]
  PROVE  g[n + 1] = b[<<n + 1, f[n]>>] /\ f[n] \in V
<1>1. f[n] = g[n]
  <2>1. n + 1 \in Nat /\ n <= n + 1
    OBVIOUS
  <2> QED BY <2>1, Agree
<1>2. n + 1 \in 1 .. n + 1 /\ n \in 0 .. n /\ n + 1 - 1 = n
  OBVIOUS
<1> QED BY <1>1, <1>2 DEF Solves

\* A function that takes the steps stays within their values.
LEMMA Takes ==
  ASSUME NEW V, NEW base \in V, NEW n \in Nat, NEW st \in [(1 .. n) \X V -> V], NEW h,
         h = [i \in 0 .. n |-> h[i]], h[0] = base,
         \A i \in 1 .. n : h[i - 1] \in V => h[i] = st[<<i, h[i - 1]>>]
  PROVE  Solves(h, n, V, base, st)
<1> DEFINE T == {i \in 0 .. n : h[i] \in V}
<1>1. 0 \in T /\ T \in SUBSET (0 .. n)
  OBVIOUS
<1>2. \A k \in 1 .. n : k - 1 \in T => k \in T
  <2> SUFFICES ASSUME NEW k \in 1 .. n, k - 1 \in T PROVE k \in T
    OBVIOUS
  <2>1. h[k - 1] \in V /\ k \in 0 .. n
    OBVIOUS
  <2>2. h[k] = st[<<k, h[k - 1]>>]
    BY <2>1
  <2>3. st[<<k, h[k - 1]>>] \in V
    BY <2>1
  <2> QED BY <2>1, <2>2, <2>3
<1>3. T = 0 .. n
  <2> HIDE DEF T
  <2> QED BY <1>1, <1>2, Steps
<1>4. \A i \in 0 .. n : h[i] \in V
  BY <1>3
<1>5. h \in [0 .. n -> V]
  BY <1>4
<1>6. \A i \in 1 .. n : i - 1 \in 0 .. n
  OBVIOUS
<1>7. \A i \in 1 .. n : h[i] = st[<<i, h[i - 1]>>]
  BY <1>4, <1>6
<1> QED BY <1>5, <1>7 DEF Solves

\* Cut as a recursion
Cuts == [parts : Paths, begun : Tokens]
CutBase == [parts |-> <<>>, begun |-> <<>>]
CutOn(x, c) ==
  IF c = "/" THEN [parts |-> Chain!Put(x.parts, x.begun), begun |-> <<>>]
  ELSE [x EXCEPT !.begun = Append(@, c)]
CutStep(s) == [y \in (1 .. Len(s)) \X Cuts |-> CutOn(y[2], s[y[1]])]

\* A part more makes a path.
LEMMA PathAppend ==
  ASSUME NEW P \in Paths, NEW p \in Tokens
  PROVE  Append(P, p) \in Paths /\ Chain!Put(P, p) \in Paths /\ <<>> \in Paths
BY DEF Paths, Chain!Put

\* What is cut stays parts and a part that has begun.
LEMMA CutTyped ==
  /\ CutBase \in Cuts
  /\ \A x \in Cuts, c \in Words : CutOn(x, c) \in Cuts
<1>1. <<>> \in Paths /\ <<>> \in Tokens
  BY NoToken DEF Paths
<1>2. ASSUME NEW x \in Cuts, NEW c \in Words PROVE CutOn(x, c) \in Cuts
  <2>1. x.parts \in Paths /\ x.begun \in Tokens
    BY DEF Cuts
  <2>2. Chain!Put(x.parts, x.begun) \in Paths /\ Append(x.begun, c) \in Tokens
    BY <2>1, PathAppend, Appended
  <2> QED BY <1>1, <2>2 DEF Cuts, CutOn
<1> QED BY <1>1, <1>2 DEF Cuts, CutBase

\* Cut is a recursion over the tokens.
LEMMA CutSolves ==
  ASSUME NEW s \in Tokens
  PROVE  /\ \E f : Solves(f, Len(s), Cuts, CutBase, CutStep(s)) /\ Chain!Cut(s) = f[Len(s)]
         /\ CutStep(s) \in [(1 .. Len(s)) \X Cuts -> Cuts]
         /\ \A i \in 1 .. Len(s) : \A x \in Cuts : CutStep(s)[<<i, x>>] = CutOn(x, s[i])
<1> DEFINE n == Len(s)
           Body(g) == [i \in 0 .. n |->
             IF i = 0 THEN [parts |-> <<>>, begun |-> <<>>]
             ELSE IF s[i] = "/" THEN [parts |-> Chain!Put(g[i - 1].parts, g[i - 1].begun), begun |-> <<>>]
             ELSE [g[i - 1] EXCEPT !.begun = Append(@, s[i])]]
           h == CHOOSE g : g = Body(g)
           st == CutStep(s)
<1>1. Chain!Cut(s) = h[n]
  BY DEF Chain!Cut
<1>2. n \in Nat
  BY IsLen
<1>3. \A i \in 1 .. n : s[i] \in Words
  BY ElementOfSeq DEF Tokens
<1>4. st \in [(1 .. n) \X Cuts -> Cuts]
  <2>1. \A y \in (1 .. n) \X Cuts : CutOn(y[2], s[y[1]]) \in Cuts
    BY <1>3, CutTyped
  <2> QED BY <2>1 DEF CutStep
<1>5. \A i \in 1 .. n : \A x \in Cuts : st[<<i, x>>] = CutOn(x, s[i])
  <2> TAKE i \in 1 .. n
  <2> TAKE x \in Cuts
  <2>1. <<i, x>> \in (1 .. n) \X Cuts
    OBVIOUS
  <2> QED BY <2>1 DEF CutStep
<1> HIDE DEF st, n, h
<1>6. CutBase \in Cuts
  BY CutTyped
<1>7. PICK f : Solves(f, n, Cuts, CutBase, st)
  BY <1>2, <1>4, <1>6, RecursionEnds
<1>8. \A i \in 1 .. n : f[i] = CutOn(f[i - 1], s[i])
  <2> TAKE i \in 1 .. n
  <2>1. i - 1 \in 0 .. n
    BY <1>2
  <2>2. f[i - 1] \in Cuts
    BY <1>7, <2>1 DEF Solves
  <2>3. f[i] = st[<<i, f[i - 1]>>]
    BY <1>7 DEF Solves
  <2> QED BY <1>5, <2>2, <2>3
<1>9. f = Body(f)
  <2>1. f = [i \in 0 .. n |-> f[i]]
    BY <1>7 DEF Solves
  <2> DEFINE e(i) == IF i = 0 THEN [parts |-> <<>>, begun |-> <<>>]
             ELSE IF s[i] = "/" THEN [parts |-> Chain!Put(f[i - 1].parts, f[i - 1].begun), begun |-> <<>>]
             ELSE [f[i - 1] EXCEPT !.begun = Append(@, s[i])]
  <2>2. \A i \in 0 .. n : f[i] = e(i)
    <3> TAKE i \in 0 .. n
    <3>1. CASE i = 0
      BY <1>7, <3>1 DEF CutBase, Solves
    <3>2. CASE i \in 1 .. n
      <4>1. f[i] = CutOn(f[i - 1], s[i]) /\ i # 0
        BY <1>8, <3>2
      <4> QED BY <4>1 DEF CutOn
    <3>3. i = 0 \/ i \in 1 .. n
      BY <1>2
    <3> QED BY <3>1, <3>2, <3>3
  <2>3. Body(f) = [i \in 0 .. n |-> e(i)]
    OBVIOUS
  <2> HIDE DEF Body, e
  <2> QED BY <2>1, <2>2, <2>3
<1>10. h = Body(h)
  <2> HIDE DEF Body
  <2> QED BY <1>9 DEF h
<1>11. h = [i \in 0 .. n |-> h[i]] /\ h[0] = CutBase
  BY <1>2, <1>10 DEF CutBase
<1>12. \A i \in 1 .. n : h[i] = CutOn(h[i - 1], s[i])
  <2> TAKE i \in 1 .. n
  <2>1. i \in 0 .. n /\ i # 0
    BY <1>2
  <2> QED BY <1>10, <2>1 DEF CutOn
<1> HIDE DEF Body
<1>13. Solves(h, n, Cuts, CutBase, st)
  <2>1. \A i \in 1 .. n : h[i - 1] \in Cuts => h[i] = st[<<i, h[i - 1]>>]
    BY <1>5, <1>12
  <2> QED BY <1>2, <1>4, <1>6, <1>11, <2>1, Takes
<1> QED BY <1>1, <1>4, <1>5, <1>13 DEF n, st

\* A text is cut token by token.
LEMMA CutNext ==
  /\ Chain!Cut(<<>>) = CutBase
  /\ \A s \in Tokens : Chain!Cut(s) \in Cuts
  /\ \A s \in Tokens, c \in Words : Chain!Cut(Append(s, c)) = CutOn(Chain!Cut(s), c)
<1>1. Chain!Cut(<<>>) = CutBase
  <2>1. <<>> \in Tokens /\ Len(<<>>) = 0
    BY NoToken
  <2>2. PICK f : Solves(f, 0, Cuts, CutBase, CutStep(<<>>)) /\ Chain!Cut(<<>>) = f[0]
    BY <2>1, CutSolves
  <2> QED BY <2>2 DEF Solves
<1>2. ASSUME NEW s \in Tokens, NEW c \in Words
      PROVE  Chain!Cut(s) \in Cuts /\ Chain!Cut(Append(s, c)) = CutOn(Chain!Cut(s), c)
  <2> DEFINE n == Len(s)
             t == Append(s, c)
  <2>1. t \in Tokens /\ Len(t) = n + 1 /\ t[n + 1] = c /\ (\A i \in 1 .. n : t[i] = s[i]) /\ n \in Nat
    BY Appended, IsLen, AppendProperties DEF Tokens
  <2> HIDE DEF t, n
  <2>2. PICK f : Solves(f, n, Cuts, CutBase, CutStep(s)) /\ Chain!Cut(s) = f[n]
    BY CutSolves DEF n
  <2>3. PICK g : Solves(g, n + 1, Cuts, CutBase, CutStep(t)) /\ Chain!Cut(t) = g[n + 1]
    BY <2>1, CutSolves
  <2>4. \A i \in 1 .. n : \A x \in Cuts : CutStep(s)[<<i, x>>] = CutOn(x, s[i])
    BY CutSolves DEF n
  <2>5. \A i \in 1 .. n + 1 : \A x \in Cuts : CutStep(t)[<<i, x>>] = CutOn(x, t[i])
    BY <2>1, CutSolves
  <2>6. \A i \in 1 .. n : \A x \in Cuts : CutStep(s)[<<i, x>>] = CutStep(t)[<<i, x>>]
    <3>1. \A i \in 1 .. n : i \in 1 .. n + 1 /\ t[i] = s[i]
      BY <2>1
    <3> QED BY <2>4, <2>5, <3>1
  <2>7. g[n + 1] = CutStep(t)[<<n + 1, f[n]>>] /\ f[n] \in Cuts
    <3> DEFINE a == CutStep(s)
               b == CutStep(t)
    <3>1. Solves(f, n, Cuts, CutBase, a) /\ Solves(g, n + 1, Cuts, CutBase, b) /\ n \in Nat
      BY <2>1, <2>2, <2>3
    <3>2. \A i \in 1 .. n : \A x \in Cuts : a[<<i, x>>] = b[<<i, x>>]
      BY <2>6
    <3> HIDE DEF a, b
    <3>3. g[n + 1] = b[<<n + 1, f[n]>>] /\ f[n] \in Cuts
      BY <3>1, <3>2, Onward
    <3> QED BY <3>3 DEF b
  <2>8. CutStep(t)[<<n + 1, f[n]>>] = CutOn(f[n], c)
    <3>1. n + 1 \in 1 .. n + 1
      BY <2>1
    <3> QED BY <2>1, <2>5, <2>7, <3>1
  <2> QED BY <2>2, <2>3, <2>7, <2>8 DEF t
<1>3. \A s \in Tokens : Chain!Cut(s) \in Cuts
  <2>1. ":" \in Words
    BY SomeWords
  <2> QED BY <1>2, <2>1
<1> QED BY <1>1, <1>2, <1>3

\* A path has a length, and parts that are texts.
LEMMA PathLen == \A P \in Paths : Len(P) \in Nat /\ (P = <<>> <=> Len(P) = 0) /\ \A i \in 1 .. Len(P) : P[i] \in Tokens
BY ElementOfSeq, EmptySeq DEF Paths

\* A step up leaves all parts but the last.
LEMMA UpTyped ==
  ASSUME NEW P \in Paths
  PROVE  /\ Chain!Up(P) \in Paths
         /\ P # <<>> => /\ Chain!Up(P) = SubSeq(P, 1, Len(P) - 1)
                       /\ Len(Chain!Up(P)) = Len(P) - 1
                       /\ \A i \in 1 .. Len(P) - 1 : Chain!Up(P)[i] = P[i]
<1>1. Len(P) \in Nat /\ \A i \in 1 .. Len(P) : P[i] \in Tokens
  BY PathLen
<1>2. CASE P = <<>>
  BY <1>2 DEF Chain!Up
<1>3. CASE P # <<>>
  <2>1. Len(P) - 1 \in Nat
    BY <1>1, <1>3, PathLen
  <2>2. \A i \in 1 .. Len(P) - 1 : P[i] \in Tokens
    BY <1>1
  <2>3. Chain!Up(P) = SubSeq(P, 1, Len(P) - 1)
    BY <1>3 DEF Chain!Up, Chain!Front
  <2> DEFINE n == Len(P) - 1
             a == SubSeq(P, 1, n)
  <2>4. a \in Seq(Tokens) /\ Len(a) = (IF 1 <= n THEN n - 1 + 1 ELSE 0) /\ \A i \in 1 .. n - 1 + 1 : a[i] = P[1 + i - 1]
    <3> HIDE DEF n
    <3>1. n \in Int /\ 1 \in Int /\ \A i \in 1 .. n : P[i] \in Tokens
      BY <2>1, <2>2 DEF n
    <3> QED BY <3>1, SubSeqProperties DEF Paths
  <2>6. n \in Nat
    BY <2>1
  <2> HIDE DEF a, n
  <2>5. Len(a) = n /\ \A i \in 1 .. n : a[i] = P[i]
    BY <2>4, <2>6
  <2>7. Chain!Up(P) = a
    BY <2>3 DEF a, n
  <2>8. /\ Chain!Up(P) \in Paths /\ Len(Chain!Up(P)) = n
        /\ \A i \in 1 .. n : Chain!Up(P)[i] = P[i]
    BY <2>4, <2>5, <2>7 DEF Paths
  <2> QED BY <2>3, <2>8 DEF n
<1> QED BY <1>2, <1>3

\* Where a part leads
LEMMA ResolveIs ==
  ASSUME NEW x \in Paths, NEW p \in Tokens
  PROVE  /\ Chain!Resolve(x, p) \in Paths
         /\ p = <<"..">> => Chain!Resolve(x, p) = Chain!Up(x)
         /\ p = <<".">> => Chain!Resolve(x, p) = x
         /\ p \notin {<<".">>, <<"..">>} => Chain!Resolve(x, p) = Append(x, p)
<1>1. <<".">> # <<"..">>
  <2>1. <<".">>[1] # <<"..">>[1]
    OBVIOUS
  <2> QED BY <2>1
<1>2. Chain!Up(x) \in Paths /\ Append(x, p) \in Paths
  BY UpTyped, PathAppend
<1> DEFINE a == <<".">>
           b == <<"..">>
<1>3. Chain!Resolve(x, p) = CASE p = b -> Chain!Up(x) [] p = a -> x [] OTHER -> Append(x, p)
  BY DEF Chain!Resolve
<1>4. a # b
  BY <1>1
<1> HIDE DEF a, b
<1>5. /\ Chain!Resolve(x, p) \in Paths
      /\ p = b => Chain!Resolve(x, p) = Chain!Up(x)
      /\ p = a => Chain!Resolve(x, p) = x
      /\ p \notin {a, b} => Chain!Resolve(x, p) = Append(x, p)
  BY <1>2, <1>3, <1>4
<1> QED BY <1>5 DEF a, b

\* Resolved, Join and Led as recursions
ResolveStep(s) == [y \in (1 .. Len(s)) \X Paths |-> Chain!Resolve(y[2], s[y[1]])]
JoinOn(x, p) == Append(x, "/") \o p
JoinStep(s) == [y \in (1 .. Len(s)) \X Tokens |-> JoinOn(y[2], s[y[1]])]

Leads == [at : Paths, name : Tokens]
LedBase(from) == [at |-> from, name |-> <<>>]
LedOn(x, c) ==
  IF c = "/" THEN [at |-> Chain!Enter(x.at, x.name), name |-> <<>>]
  ELSE [x EXCEPT !.name = Append(@, c)]
LedStep(s) == [y \in (1 .. Len(s)) \X Leads |-> LedOn(y[2], s[y[1]])]

\* Where a name leads
LEMMA EnterIs ==
  ASSUME NEW x \in Paths, NEW p \in Tokens
  PROVE  /\ Chain!Enter(x, p) \in Paths
         /\ p = <<"..">> => Chain!Enter(x, p) = Chain!Up(x)
         /\ p \in {<<".">>, <<>>} => Chain!Enter(x, p) = x
         /\ p \notin {<<".">>, <<"..">>, <<>>} => Chain!Enter(x, p) = Append(x, Chain!Decode(p))
<1>1. <<".">> # <<"..">> /\ <<"..">> # <<>>
  <2>1. <<".">>[1] # <<"..">>[1] /\ Len(<<"..">>) # Len(<<>>)
    OBVIOUS
  <2> QED BY <2>1
<1> DEFINE a == <<".">>
           b == <<"..">>
<1>2. Chain!Enter(x, p) = CASE p = b -> Chain!Up(x) [] p \in {a, <<>>} -> x [] OTHER -> Append(x, Chain!Decode(p))
  BY DEF Chain!Enter
<1>3. a # b /\ b # <<>>
  BY <1>1
<1>4. Chain!Up(x) \in Paths /\ Append(x, Chain!Decode(p)) \in Paths
  BY UpTyped, PathAppend, Decoded
<1> HIDE DEF a, b
<1>5. /\ Chain!Enter(x, p) \in Paths
      /\ p = b => Chain!Enter(x, p) = Chain!Up(x)
      /\ p \in {a, <<>>} => Chain!Enter(x, p) = x
      /\ p \notin {a, b, <<>>} => Chain!Enter(x, p) = Append(x, Chain!Decode(p))
  BY <1>2, <1>3, <1>4
<1> QED BY <1>5 DEF a, b

\* Joining and leading stay texts and places.
LEMMA StepsTyped ==
  /\ <<>> \in Paths /\ <<>> \in Tokens
  /\ \A x \in Tokens, p \in Tokens : JoinOn(x, p) \in Tokens
  /\ \A x \in Leads, c \in Words : LedOn(x, c) \in Leads
  /\ \A x \in Paths : LedBase(x) \in Leads
<1>1. <<>> \in Paths /\ <<>> \in Tokens
  BY NoToken DEF Paths
<1>2. ASSUME NEW x \in Tokens, NEW p \in Tokens PROVE JoinOn(x, p) \in Tokens
  <2>1. Append(x, "/") \in Tokens
    BY SomeWords, Appended
  <2>2. Joined(Append(x, "/"), p)
    BY <2>1, HeadOfWhole
  <2> QED BY <2>2 DEF Joined, JoinOn
<1>3. ASSUME NEW x \in Leads, NEW c \in Words PROVE LedOn(x, c) \in Leads
  <2>1. x.at \in Paths /\ x.name \in Tokens
    BY DEF Leads
  <2>2. Chain!Enter(x.at, x.name) \in Paths /\ Append(x.name, c) \in Tokens
    BY <2>1, EnterIs, Appended
  <2> QED BY <1>1, <2>2 DEF Leads, LedOn
<1>4. \A x \in Paths : LedBase(x) \in Leads
  BY <1>1 DEF Leads, LedBase
<1> QED BY <1>1, <1>2, <1>3, <1>4

\* Resolved is a recursion over the parts.
LEMMA ResolvedSolves ==
  ASSUME NEW s \in Paths
  PROVE  /\ \E f : Solves(f, Len(s), Paths, <<>>, ResolveStep(s)) /\ Chain!Resolved(s) = f[Len(s)]
         /\ ResolveStep(s) \in [(1 .. Len(s)) \X Paths -> Paths]
         /\ \A i \in 1 .. Len(s) : \A x \in Paths : ResolveStep(s)[<<i, x>>] = Chain!Resolve(x, s[i])
<1> DEFINE n == Len(s)
           Body(g) == [i \in 0 .. n |->
             IF i = 0 THEN <<>> ELSE Chain!Resolve(g[i - 1], s[i])]
           h == CHOOSE g : g = Body(g)
           st == ResolveStep(s)
<1>1. Chain!Resolved(s) = h[n]
  BY DEF Chain!Resolved
<1>2. n \in Nat
  BY PathLen
<1>3. \A i \in 1 .. n : s[i] \in Tokens
  BY PathLen
<1>4. st \in [(1 .. n) \X Paths -> Paths]
  <2>1. \A y \in (1 .. n) \X Paths : Chain!Resolve(y[2], s[y[1]]) \in Paths
    BY <1>3, StepsTyped, ResolveIs
  <2> QED BY <2>1 DEF ResolveStep
<1>5. \A i \in 1 .. n : \A x \in Paths : st[<<i, x>>] = Chain!Resolve(x, s[i])
  <2> TAKE i \in 1 .. n
  <2> TAKE x \in Paths
  <2>1. <<i, x>> \in (1 .. n) \X Paths
    OBVIOUS
  <2> QED BY <2>1 DEF ResolveStep
<1> HIDE DEF st, n, h
<1>6. <<>> \in Paths
  BY StepsTyped, ResolveIs
<1>7. PICK f : Solves(f, n, Paths, <<>>, st)
  BY <1>2, <1>4, <1>6, RecursionEnds
<1>8. \A i \in 1 .. n : f[i] = Chain!Resolve(f[i - 1], s[i])
  <2> TAKE i \in 1 .. n
  <2>1. i - 1 \in 0 .. n
    BY <1>2
  <2>2. f[i - 1] \in Paths
    BY <1>7, <2>1 DEF Solves
  <2>3. f[i] = st[<<i, f[i - 1]>>]
    BY <1>7 DEF Solves
  <2> QED BY <1>5, <2>2, <2>3
<1>9. f = Body(f)
  <2>1. f = [i \in 0 .. n |-> f[i]]
    BY <1>7 DEF Solves
  <2> DEFINE e(i) == IF i = 0 THEN <<>> ELSE Chain!Resolve(f[i - 1], s[i])
  <2>2. \A i \in 0 .. n : f[i] = e(i)
    <3> TAKE i \in 0 .. n
    <3>1. CASE i = 0
      BY <1>7, <3>1 DEF Solves
    <3>2. CASE i \in 1 .. n
      <4>1. f[i] = Chain!Resolve(f[i - 1], s[i]) /\ i # 0
        BY <1>8, <3>2
      <4> QED BY <4>1
    <3>3. i = 0 \/ i \in 1 .. n
      BY <1>2
    <3> QED BY <3>1, <3>2, <3>3
  <2>3. Body(f) = [i \in 0 .. n |-> e(i)]
    OBVIOUS
  <2> HIDE DEF Body, e
  <2> QED BY <2>1, <2>2, <2>3
<1>10. h = Body(h)
  <2> HIDE DEF Body
  <2> QED BY <1>9 DEF h
<1>11. h = [i \in 0 .. n |-> h[i]] /\ h[0] = <<>>
  BY <1>2, <1>10
<1>12. \A i \in 1 .. n : h[i] = Chain!Resolve(h[i - 1], s[i])
  <2> TAKE i \in 1 .. n
  <2>1. i \in 0 .. n /\ i # 0
    BY <1>2
  <2> QED BY <1>10, <2>1
<1> HIDE DEF Body
<1>13. Solves(h, n, Paths, <<>>, st)
  <2>1. \A i \in 1 .. n : h[i - 1] \in Paths => h[i] = st[<<i, h[i - 1]>>]
    BY <1>5, <1>12
  <2> QED BY <1>2, <1>4, <1>6, <1>11, <2>1, Takes
<1> QED BY <1>1, <1>4, <1>5, <1>13 DEF n, st


\* Parts are resolved one by one.
LEMMA ResolvedNext ==
  /\ Chain!Resolved(<<>>) = <<>>
  /\ \A s \in Paths : Chain!Resolved(s) \in Paths
  /\ \A s \in Paths, c \in Tokens : Chain!Resolved(Append(s, c)) = Chain!Resolve(Chain!Resolved(s), c)
<1>1. Chain!Resolved(<<>>) = <<>>
  <2>1. <<>> \in Paths /\ Len(<<>>) = 0
    BY StepsTyped
  <2>2. PICK f : Solves(f, 0, Paths, <<>>, ResolveStep(<<>>)) /\ Chain!Resolved(<<>>) = f[0]
    BY <2>1, ResolvedSolves
  <2> QED BY <2>2 DEF Solves
<1>2. ASSUME NEW s \in Paths, NEW c \in Tokens
      PROVE  Chain!Resolved(s) \in Paths /\ Chain!Resolved(Append(s, c)) = Chain!Resolve(Chain!Resolved(s), c)
  <2> DEFINE n == Len(s)
             t == Append(s, c)
  <2>1. t \in Paths /\ Len(t) = n + 1 /\ t[n + 1] = c /\ (\A i \in 1 .. n : t[i] = s[i]) /\ n \in Nat
    BY PathAppend, PathLen, AppendProperties DEF Paths
  <2> HIDE DEF t, n
  <2>2. PICK f : Solves(f, n, Paths, <<>>, ResolveStep(s)) /\ Chain!Resolved(s) = f[n]
    BY ResolvedSolves DEF n
  <2>3. PICK g : Solves(g, n + 1, Paths, <<>>, ResolveStep(t)) /\ Chain!Resolved(t) = g[n + 1]
    BY <2>1, ResolvedSolves
  <2>4. \A i \in 1 .. n : \A x \in Paths : ResolveStep(s)[<<i, x>>] = Chain!Resolve(x, s[i])
    BY ResolvedSolves DEF n
  <2>5. \A i \in 1 .. n + 1 : \A x \in Paths : ResolveStep(t)[<<i, x>>] = Chain!Resolve(x, t[i])
    BY <2>1, ResolvedSolves
  <2>6. \A i \in 1 .. n : \A x \in Paths : ResolveStep(s)[<<i, x>>] = ResolveStep(t)[<<i, x>>]
    <3>1. \A i \in 1 .. n : i \in 1 .. n + 1 /\ t[i] = s[i]
      BY <2>1
    <3> QED BY <2>4, <2>5, <3>1
  <2>7. g[n + 1] = ResolveStep(t)[<<n + 1, f[n]>>] /\ f[n] \in Paths
    <3> DEFINE W == Paths
               o == <<>>
               a == ResolveStep(s)
               b == ResolveStep(t)
    <3>1. Solves(f, n, W, o, a) /\ Solves(g, n + 1, W, o, b) /\ n \in Nat
      BY <2>1, <2>2, <2>3
    <3>2. \A i \in 1 .. n : \A x \in W : a[<<i, x>>] = b[<<i, x>>]
      BY <2>6
    <3> HIDE DEF W, o, a, b
    <3>3. g[n + 1] = b[<<n + 1, f[n]>>] /\ f[n] \in W
      BY <3>1, <3>2, Onward
    <3> QED BY <3>3 DEF W, b
  <2>8. ResolveStep(t)[<<n + 1, f[n]>>] = Chain!Resolve(f[n], c)
    <3>1. n + 1 \in 1 .. n + 1
      BY <2>1
    <3> QED BY <2>1, <2>5, <2>7, <3>1
  <2> QED BY <2>2, <2>3, <2>7, <2>8 DEF t
<1>3. \A s \in Paths : Chain!Resolved(s) \in Paths
  <2>1. <<>> \in Tokens
    BY NoToken
  <2> QED BY <1>2, <2>1
<1> QED BY <1>1, <1>2, <1>3

\* Join is a recursion over the parts.
LEMMA JoinSolves ==
  ASSUME NEW s \in Paths
  PROVE  /\ \E f : Solves(f, Len(s), Tokens, <<>>, JoinStep(s)) /\ Chain!Join(s) = f[Len(s)]
         /\ JoinStep(s) \in [(1 .. Len(s)) \X Tokens -> Tokens]
         /\ \A i \in 1 .. Len(s) : \A x \in Tokens : JoinStep(s)[<<i, x>>] = JoinOn(x, s[i])
<1> DEFINE n == Len(s)
           Body(g) == [i \in 0 .. n |->
             IF i = 0 THEN <<>> ELSE Append(g[i - 1], "/") \o s[i]]
           h == CHOOSE g : g = Body(g)
           st == JoinStep(s)
<1>1. Chain!Join(s) = h[n]
  BY DEF Chain!Join
<1>2. n \in Nat
  BY PathLen
<1>3. \A i \in 1 .. n : s[i] \in Tokens
  BY PathLen
<1>4. st \in [(1 .. n) \X Tokens -> Tokens]
  <2>1. \A y \in (1 .. n) \X Tokens : JoinOn(y[2], s[y[1]]) \in Tokens
    BY <1>3, StepsTyped
  <2> QED BY <2>1 DEF JoinStep
<1>5. \A i \in 1 .. n : \A x \in Tokens : st[<<i, x>>] = JoinOn(x, s[i])
  <2> TAKE i \in 1 .. n
  <2> TAKE x \in Tokens
  <2>1. <<i, x>> \in (1 .. n) \X Tokens
    OBVIOUS
  <2> QED BY <2>1 DEF JoinStep
<1> HIDE DEF st, n, h
<1>6. <<>> \in Tokens
  BY StepsTyped
<1>7. PICK f : Solves(f, n, Tokens, <<>>, st)
  BY <1>2, <1>4, <1>6, RecursionEnds
<1>8. \A i \in 1 .. n : f[i] = JoinOn(f[i - 1], s[i])
  <2> TAKE i \in 1 .. n
  <2>1. i - 1 \in 0 .. n
    BY <1>2
  <2>2. f[i - 1] \in Tokens
    BY <1>7, <2>1 DEF Solves
  <2>3. f[i] = st[<<i, f[i - 1]>>]
    BY <1>7 DEF Solves
  <2> QED BY <1>5, <2>2, <2>3
<1>9. f = Body(f)
  <2>1. f = [i \in 0 .. n |-> f[i]]
    BY <1>7 DEF Solves
  <2> DEFINE e(i) == IF i = 0 THEN <<>> ELSE Append(f[i - 1], "/") \o s[i]
  <2>2. \A i \in 0 .. n : f[i] = e(i)
    <3> TAKE i \in 0 .. n
    <3>1. CASE i = 0
      BY <1>7, <3>1 DEF Solves
    <3>2. CASE i \in 1 .. n
      <4>1. f[i] = JoinOn(f[i - 1], s[i]) /\ i # 0
        BY <1>8, <3>2
      <4> QED BY <4>1 DEF JoinOn
    <3>3. i = 0 \/ i \in 1 .. n
      BY <1>2
    <3> QED BY <3>1, <3>2, <3>3
  <2>3. Body(f) = [i \in 0 .. n |-> e(i)]
    OBVIOUS
  <2> HIDE DEF Body, e
  <2> QED BY <2>1, <2>2, <2>3
<1>10. h = Body(h)
  <2> HIDE DEF Body
  <2> QED BY <1>9 DEF h
<1>11. h = [i \in 0 .. n |-> h[i]] /\ h[0] = <<>>
  BY <1>2, <1>10
<1>12. \A i \in 1 .. n : h[i] = JoinOn(h[i - 1], s[i])
  <2> TAKE i \in 1 .. n
  <2>1. i \in 0 .. n /\ i # 0
    BY <1>2
  <2> QED BY <1>10, <2>1 DEF JoinOn
<1> HIDE DEF Body
<1>13. Solves(h, n, Tokens, <<>>, st)
  <2>1. \A i \in 1 .. n : h[i - 1] \in Tokens => h[i] = st[<<i, h[i - 1]>>]
    BY <1>5, <1>12
  <2> QED BY <1>2, <1>4, <1>6, <1>11, <2>1, Takes
<1> QED BY <1>1, <1>4, <1>5, <1>13 DEF n, st


\* Parts are joined one by one.
LEMMA JoinNext ==
  /\ Chain!Join(<<>>) = <<>>
  /\ \A s \in Paths : Chain!Join(s) \in Tokens
  /\ \A s \in Paths, c \in Tokens : Chain!Join(Append(s, c)) = JoinOn(Chain!Join(s), c)
<1>1. Chain!Join(<<>>) = <<>>
  <2>1. <<>> \in Paths /\ Len(<<>>) = 0
    BY StepsTyped
  <2>2. PICK f : Solves(f, 0, Tokens, <<>>, JoinStep(<<>>)) /\ Chain!Join(<<>>) = f[0]
    BY <2>1, JoinSolves
  <2> QED BY <2>2 DEF Solves
<1>2. ASSUME NEW s \in Paths, NEW c \in Tokens
      PROVE  Chain!Join(s) \in Tokens /\ Chain!Join(Append(s, c)) = JoinOn(Chain!Join(s), c)
  <2> DEFINE n == Len(s)
             t == Append(s, c)
  <2>1. t \in Paths /\ Len(t) = n + 1 /\ t[n + 1] = c /\ (\A i \in 1 .. n : t[i] = s[i]) /\ n \in Nat
    BY PathAppend, PathLen, AppendProperties DEF Paths
  <2> HIDE DEF t, n
  <2>2. PICK f : Solves(f, n, Tokens, <<>>, JoinStep(s)) /\ Chain!Join(s) = f[n]
    BY JoinSolves DEF n
  <2>3. PICK g : Solves(g, n + 1, Tokens, <<>>, JoinStep(t)) /\ Chain!Join(t) = g[n + 1]
    BY <2>1, JoinSolves
  <2>4. \A i \in 1 .. n : \A x \in Tokens : JoinStep(s)[<<i, x>>] = JoinOn(x, s[i])
    BY JoinSolves DEF n
  <2>5. \A i \in 1 .. n + 1 : \A x \in Tokens : JoinStep(t)[<<i, x>>] = JoinOn(x, t[i])
    BY <2>1, JoinSolves
  <2>6. \A i \in 1 .. n : \A x \in Tokens : JoinStep(s)[<<i, x>>] = JoinStep(t)[<<i, x>>]
    <3>1. \A i \in 1 .. n : i \in 1 .. n + 1 /\ t[i] = s[i]
      BY <2>1
    <3> QED BY <2>4, <2>5, <3>1
  <2>7. g[n + 1] = JoinStep(t)[<<n + 1, f[n]>>] /\ f[n] \in Tokens
    <3> DEFINE W == Tokens
               o == <<>>
               a == JoinStep(s)
               b == JoinStep(t)
    <3>1. Solves(f, n, W, o, a) /\ Solves(g, n + 1, W, o, b) /\ n \in Nat
      BY <2>1, <2>2, <2>3
    <3>2. \A i \in 1 .. n : \A x \in W : a[<<i, x>>] = b[<<i, x>>]
      BY <2>6
    <3> HIDE DEF W, o, a, b
    <3>3. g[n + 1] = b[<<n + 1, f[n]>>] /\ f[n] \in W
      BY <3>1, <3>2, Onward
    <3> QED BY <3>3 DEF W, b
  <2>8. JoinStep(t)[<<n + 1, f[n]>>] = JoinOn(f[n], c)
    <3>1. n + 1 \in 1 .. n + 1
      BY <2>1
    <3> QED BY <2>1, <2>5, <2>7, <3>1
  <2> QED BY <2>2, <2>3, <2>7, <2>8 DEF t
<1>3. \A s \in Paths : Chain!Join(s) \in Tokens
  <2>1. <<>> \in Tokens
    BY NoToken
  <2> QED BY <1>2, <2>1
<1> QED BY <1>1, <1>2, <1>3

\* Led is a recursion over the tokens.
LEMMA LedSolves ==
  ASSUME NEW from \in Paths, NEW s \in Tokens
  PROVE  /\ \E f : Solves(f, Len(s), Leads, LedBase(from), LedStep(s)) /\ Chain!Led(from, s) = f[Len(s)]
         /\ LedStep(s) \in [(1 .. Len(s)) \X Leads -> Leads]
         /\ \A i \in 1 .. Len(s) : \A x \in Leads : LedStep(s)[<<i, x>>] = LedOn(x, s[i])
<1> DEFINE n == Len(s)
           Body(g) == [i \in 0 .. n |->
             IF i = 0 THEN [at |-> from, name |-> <<>>]
             ELSE IF s[i] = "/" THEN [at |-> Chain!Enter(g[i - 1].at, g[i - 1].name), name |-> <<>>]
             ELSE [g[i - 1] EXCEPT !.name = Append(@, s[i])]]
           h == CHOOSE g : g = Body(g)
           st == LedStep(s)
<1>1. Chain!Led(from, s) = h[n]
  BY DEF Chain!Led
<1>2. n \in Nat
  BY IsLen
<1>3. \A i \in 1 .. n : s[i] \in Words
  BY ElementOfSeq DEF Tokens
<1>4. st \in [(1 .. n) \X Leads -> Leads]
  <2>1. \A y \in (1 .. n) \X Leads : LedOn(y[2], s[y[1]]) \in Leads
    BY <1>3, StepsTyped
  <2> QED BY <2>1 DEF LedStep
<1>5. \A i \in 1 .. n : \A x \in Leads : st[<<i, x>>] = LedOn(x, s[i])
  <2> TAKE i \in 1 .. n
  <2> TAKE x \in Leads
  <2>1. <<i, x>> \in (1 .. n) \X Leads
    OBVIOUS
  <2> QED BY <2>1 DEF LedStep
<1> HIDE DEF st, n, h
<1>6. LedBase(from) \in Leads
  BY StepsTyped
<1>7. PICK f : Solves(f, n, Leads, LedBase(from), st)
  BY <1>2, <1>4, <1>6, RecursionEnds
<1>8. \A i \in 1 .. n : f[i] = LedOn(f[i - 1], s[i])
  <2> TAKE i \in 1 .. n
  <2>1. i - 1 \in 0 .. n
    BY <1>2
  <2>2. f[i - 1] \in Leads
    BY <1>7, <2>1 DEF Solves
  <2>3. f[i] = st[<<i, f[i - 1]>>]
    BY <1>7 DEF Solves
  <2> QED BY <1>5, <2>2, <2>3
<1>9. f = Body(f)
  <2>1. f = [i \in 0 .. n |-> f[i]]
    BY <1>7 DEF Solves
  <2> DEFINE e(i) == IF i = 0 THEN [at |-> from, name |-> <<>>]
             ELSE IF s[i] = "/" THEN [at |-> Chain!Enter(f[i - 1].at, f[i - 1].name), name |-> <<>>]
             ELSE [f[i - 1] EXCEPT !.name = Append(@, s[i])]
  <2>2. \A i \in 0 .. n : f[i] = e(i)
    <3> TAKE i \in 0 .. n
    <3>1. CASE i = 0
      BY <1>7, <3>1 DEF LedBase, Solves
    <3>2. CASE i \in 1 .. n
      <4>1. f[i] = LedOn(f[i - 1], s[i]) /\ i # 0
        BY <1>8, <3>2
      <4> QED BY <4>1 DEF LedOn
    <3>3. i = 0 \/ i \in 1 .. n
      BY <1>2
    <3> QED BY <3>1, <3>2, <3>3
  <2>3. Body(f) = [i \in 0 .. n |-> e(i)]
    OBVIOUS
  <2> HIDE DEF Body, e
  <2> QED BY <2>1, <2>2, <2>3
<1>10. h = Body(h)
  <2> HIDE DEF Body
  <2> QED BY <1>9 DEF h
<1>11. h = [i \in 0 .. n |-> h[i]] /\ h[0] = LedBase(from)
  BY <1>2, <1>10 DEF LedBase
<1>12. \A i \in 1 .. n : h[i] = LedOn(h[i - 1], s[i])
  <2> TAKE i \in 1 .. n
  <2>1. i \in 0 .. n /\ i # 0
    BY <1>2
  <2> QED BY <1>10, <2>1 DEF LedOn
<1> HIDE DEF Body
<1>13. Solves(h, n, Leads, LedBase(from), st)
  <2>1. \A i \in 1 .. n : h[i - 1] \in Leads => h[i] = st[<<i, h[i - 1]>>]
    BY <1>5, <1>12
  <2> QED BY <1>2, <1>4, <1>6, <1>11, <2>1, Takes
<1> QED BY <1>1, <1>4, <1>5, <1>13 DEF n, st


\* A reference leads token by token.
LEMMA LedNext ==
  ASSUME NEW from \in Paths
  PROVE  /\ Chain!Led(from, <<>>) = LedBase(from)
         /\ \A s \in Tokens : Chain!Led(from, s) \in Leads
         /\ \A s \in Tokens, c \in Words : Chain!Led(from, Append(s, c)) = LedOn(Chain!Led(from, s), c)
<1>1. Chain!Led(from, <<>>) = LedBase(from)
  <2>1. <<>> \in Tokens /\ Len(<<>>) = 0
    BY NoToken
  <2>2. PICK f : Solves(f, 0, Leads, LedBase(from), LedStep(<<>>)) /\ Chain!Led(from, <<>>) = f[0]
    BY <2>1, LedSolves
  <2> QED BY <2>2 DEF Solves
<1>2. ASSUME NEW s \in Tokens, NEW c \in Words
      PROVE  Chain!Led(from, s) \in Leads /\ Chain!Led(from, Append(s, c)) = LedOn(Chain!Led(from, s), c)
  <2> DEFINE n == Len(s)
             t == Append(s, c)
  <2>1. t \in Tokens /\ Len(t) = n + 1 /\ t[n + 1] = c /\ (\A i \in 1 .. n : t[i] = s[i]) /\ n \in Nat
    BY Appended, IsLen, AppendProperties DEF Tokens
  <2> HIDE DEF t, n
  <2>2. PICK f : Solves(f, n, Leads, LedBase(from), LedStep(s)) /\ Chain!Led(from, s) = f[n]
    BY LedSolves DEF n
  <2>3. PICK g : Solves(g, n + 1, Leads, LedBase(from), LedStep(t)) /\ Chain!Led(from, t) = g[n + 1]
    BY <2>1, LedSolves
  <2>4. \A i \in 1 .. n : \A x \in Leads : LedStep(s)[<<i, x>>] = LedOn(x, s[i])
    BY LedSolves DEF n
  <2>5. \A i \in 1 .. n + 1 : \A x \in Leads : LedStep(t)[<<i, x>>] = LedOn(x, t[i])
    BY <2>1, LedSolves
  <2>6. \A i \in 1 .. n : \A x \in Leads : LedStep(s)[<<i, x>>] = LedStep(t)[<<i, x>>]
    <3>1. \A i \in 1 .. n : i \in 1 .. n + 1 /\ t[i] = s[i]
      BY <2>1
    <3> QED BY <2>4, <2>5, <3>1
  <2>7. g[n + 1] = LedStep(t)[<<n + 1, f[n]>>] /\ f[n] \in Leads
    <3> DEFINE W == Leads
               o == LedBase(from)
               a == LedStep(s)
               b == LedStep(t)
    <3>1. Solves(f, n, W, o, a) /\ Solves(g, n + 1, W, o, b) /\ n \in Nat
      BY <2>1, <2>2, <2>3
    <3>2. \A i \in 1 .. n : \A x \in W : a[<<i, x>>] = b[<<i, x>>]
      BY <2>6
    <3> HIDE DEF W, o, a, b
    <3>3. g[n + 1] = b[<<n + 1, f[n]>>] /\ f[n] \in W
      BY <3>1, <3>2, Onward
    <3> QED BY <3>3 DEF W, b
  <2>8. LedStep(t)[<<n + 1, f[n]>>] = LedOn(f[n], c)
    <3>1. n + 1 \in 1 .. n + 1
      BY <2>1
    <3> QED BY <2>1, <2>5, <2>7, <3>1
  <2> QED BY <2>2, <2>3, <2>7, <2>8 DEF t
<1>3. \A s \in Tokens : Chain!Led(from, s) \in Leads
  <2>1. ":" \in Words
    BY SomeWords
  <2> QED BY <1>2, <2>1
<1> QED BY <1>1, <1>2, <1>3

\* The parts that are steps, and the tokens that end a part or decode to one that does
Dots == {<<".">>, <<"..">>}
Bars == {"/", "%", "+", "%/", "%%", "%+"}
\* A part that has nothing in it which decodes to more than a letter
Raw(p) == p # <<>> /\ \A i \in 1 .. Len(p) : p[i] \notin Bars
\* A part of a path that means something
Name(p) == Raw(p) /\ Clean(p) /\ p \notin Dots
AllRaw(P) == \A i \in 1 .. Len(P) : Raw(P[i]) /\ P[i] \notin Dots
AllNames(P) == \A i \in 1 .. Len(P) : Name(P[i])
DecodeAll(P) == [i \in DOMAIN P |-> Chain!Decode(P[i])]

\* Texts of the same tokens are the same.
LEMMA SameText == \A s, t \in Tokens : Len(s) = Len(t) /\ (\A i \in 1 .. Len(s) : s[i] = t[i]) => s = t
BY SeqEqual DEF Tokens

\* Paths of the same parts are the same.
LEMMA SamePath == \A s, t \in Paths : Len(s) = Len(t) /\ (\A i \in 1 .. Len(s) : s[i] = t[i]) => s = t
BY SeqEqual DEF Paths

\* A name decodes to itself.
LEMMA NameSame ==
  ASSUME NEW p \in Tokens, Name(p)
  PROVE  Chain!Decode(p) = p
<1>1. \A i \in 1 .. Len(p) : p[i] # "+"
  BY DEF Name, Raw, Bars
<1> QED BY <1>1, DecodedIsSame DEF Name

\* A part that means something decodes to a name.
LEMMA RawDecoded ==
  ASSUME NEW p \in Tokens, Raw(p), p \notin Dots
  PROVE  Name(Chain!Decode(p))
<1> DEFINE d == Chain!Decode(p)
<1>1. d \in Tokens /\ Len(d) = Len(p) /\ (\A i \in 1 .. Len(p) : d[i] = DecodeOne(p[i])) /\ Clean(d)
  BY Decoded
<1> HIDE DEF d
<1>2. d # <<>>
  BY <1>1, IsLen DEF Raw
<1>3. ASSUME NEW c \in Words, c \notin Bars PROVE DecodeOne(c) \notin Bars
  <2>1. DecodeOne(c) \notin CodeSet
    BY DecodedOne
  <2>2. DecodeOne(c) # "/"
    BY <1>3, DecodedOne DEF Bars
  <2>3. DecodeOne(c) \notin {"%"} /\ DecodeOne(c) \notin {"+"}
    <3>1. c \notin {"%", "%%"} /\ c \notin {"%+"}
      BY <1>3 DEF Bars
    <3> QED BY <3>1, DecodedOne
  <2>4. "%/" \in CodeSet /\ "%%" \in CodeSet /\ "%+" \in CodeSet
    BY DEF CodeSet
  <2> QED BY <2>1, <2>2, <2>3, <2>4 DEF Bars
<1>4. \A i \in 1 .. Len(d) : d[i] \notin Bars
  <2> TAKE i \in 1 .. Len(d)
  <2>1. p[i] \in Words /\ p[i] \notin Bars
    BY <1>1, ElementOfSeq DEF Raw, Tokens
  <2> QED BY <1>1, <1>3, <2>1
<1>5. d \notin Dots
  <2>1. ASSUME NEW c \in {".", ".."}, d = <<c>> PROVE FALSE
    <3>1. Len(p) = 1 /\ d[1] = c
      BY <1>1, <2>1
    <3>2. 1 \in 1 .. Len(p)
      BY <3>1
    <3>3. p[1] \in Words
      BY <3>2, ElementOfSeq DEF Tokens
    <3>4. p[1] = c
      <4>1. DecodeOne(p[1]) = c
        BY <1>1, <3>1, <3>2
      <4> QED BY <3>3, <4>1, DecodedOne
    <3>5. p = <<c>>
      BY <3>1, <3>4 DEF Tokens
    <3> QED BY <3>5 DEF Dots
  <2> QED BY <2>1 DEF Dots
<1> QED BY <1>1, <1>2, <1>4, <1>5 DEF Name, Raw, d

\* All parts decode to names.
LEMMA DecodeAllIs ==
  ASSUME NEW P \in Paths
  PROVE  /\ DecodeAll(P) \in Paths /\ Len(DecodeAll(P)) = Len(P)
         /\ \A i \in 1 .. Len(P) : DecodeAll(P)[i] = Chain!Decode(P[i])
         /\ AllRaw(P) => AllNames(DecodeAll(P))
         /\ AllNames(P) => DecodeAll(P) = P
<1> DEFINE d == DecodeAll(P)
<1>1. Len(P) \in Nat /\ \A i \in 1 .. Len(P) : P[i] \in Tokens
  BY PathLen
<1>2. \A i \in 1 .. Len(P) : Chain!Decode(P[i]) \in Tokens
  BY <1>1, Decoded
<1>3. DOMAIN P = 1 .. Len(P)
  BY DEF Paths
<1>4. d = [i \in 1 .. Len(P) |-> Chain!Decode(P[i])]
  BY <1>3 DEF DecodeAll
<1> HIDE DEF d
<1>5. \A i \in 1 .. Len(P) : d[i] = Chain!Decode(P[i])
  BY <1>4
<1>6. d \in [1 .. Len(P) -> Tokens]
  BY <1>2, <1>4
<1>7. d \in Paths /\ Len(d) = Len(P)
  BY <1>1, <1>6, FunctionIsSeq DEF Paths
<1>8. AllRaw(P) => AllNames(d)
  BY <1>1, <1>5, <1>7, RawDecoded DEF AllRaw, AllNames
<1>9. AllNames(P) => d = P
  <2> SUFFICES ASSUME AllNames(P) PROVE d = P
    OBVIOUS
  <2>1. \A i \in 1 .. Len(d) : d[i] = P[i]
    BY <1>1, <1>5, <1>7, NameSame DEF AllNames
  <2> QED BY <1>7, <2>1, SamePath
<1> QED BY <1>5, <1>7, <1>8, <1>9 DEF d

\* Parts are decoded one by one, before or after a step up.
LEMMA DecodeAllOn ==
  ASSUME NEW P \in Paths, NEW p \in Tokens
  PROVE  /\ DecodeAll(Append(P, p)) = Append(DecodeAll(P), Chain!Decode(p))
         /\ DecodeAll(Chain!Up(P)) = Chain!Up(DecodeAll(P))
<1> DEFINE d == DecodeAll(P)
           q == Chain!Decode(p)
           a == DecodeAll(Append(P, p))
           b == Append(d, q)
<1>1. d \in Paths /\ Len(d) = Len(P) /\ (\A i \in 1 .. Len(P) : d[i] = Chain!Decode(P[i])) /\ q \in Tokens
  BY DecodeAllIs, Decoded
<1>2. Len(P) \in Nat
  BY PathLen
<1>3. a = b
  <2>1. Append(P, p) \in Paths /\ Len(Append(P, p)) = Len(P) + 1 /\ Append(P, p)[Len(P) + 1] = p
        /\ \A i \in 1 .. Len(P) : Append(P, p)[i] = P[i]
    BY PathAppend, AppendProperties DEF Paths
  <2>2. a \in Paths /\ Len(a) = Len(P) + 1 /\ \A i \in 1 .. Len(P) + 1 : a[i] = Chain!Decode(Append(P, p)[i])
    BY <2>1, DecodeAllIs
  <2> HIDE DEF a, d, q
  <2>3. b \in Paths /\ Len(b) = Len(P) + 1 /\ b[Len(P) + 1] = q /\ \A i \in 1 .. Len(P) : b[i] = d[i]
    <3>1. b \in Paths
      BY <1>1, PathAppend
    <3>2. Len(b) = Len(d) + 1 /\ b[Len(d) + 1] = q /\ \A i \in 1 .. Len(d) : b[i] = d[i]
      BY <1>1, AppendProperties DEF Paths
    <3> HIDE DEF b
    <3> QED BY <1>1, <3>1, <3>2
  <2> HIDE DEF b
  <2>4. \A i \in 1 .. Len(a) : a[i] = b[i]
    <3> TAKE i \in 1 .. Len(a)
    <3>1. CASE i = Len(P) + 1
      BY <2>1, <2>2, <2>3, <3>1 DEF q
    <3>2. CASE i \in 1 .. Len(P)
      BY <1>1, <2>1, <2>2, <2>3, <3>2
    <3>3. i = Len(P) + 1 \/ i \in 1 .. Len(P)
      BY <1>2, <2>2
    <3> QED BY <3>1, <3>2, <3>3
  <2> QED BY <2>2, <2>3, <2>4, SamePath
<1>4. DecodeAll(Chain!Up(P)) = Chain!Up(d)
  <2> DEFINE x == DecodeAll(Chain!Up(P))
             y == Chain!Up(d)
  <2>1. CASE P = <<>>
    <3>1. d = <<>>
      <4> HIDE DEF d
      <4> QED BY <1>1, <2>1, PathLen
    <3> HIDE DEF d
    <3>2. y = <<>> /\ Chain!Up(P) = <<>>
      BY <2>1, <3>1 DEF Chain!Up
    <3> QED BY <2>1, <3>1, <3>2 DEF d
  <2>2. CASE P # <<>>
    <3>1. d # <<>>
      <4> HIDE DEF d
      <4> QED BY <1>1, <2>2, PathLen
    <3> HIDE DEF d
    <3>2. y \in Paths /\ Len(y) = Len(P) - 1 /\ \A i \in 1 .. Len(P) - 1 : y[i] = d[i]
      BY <1>1, <3>1, UpTyped
    <3>3. Chain!Up(P) \in Paths /\ Len(Chain!Up(P)) = Len(P) - 1 /\ \A i \in 1 .. Len(P) - 1 : Chain!Up(P)[i] = P[i]
      BY <2>2, UpTyped
    <3>4. x \in Paths /\ Len(x) = Len(P) - 1 /\ \A i \in 1 .. Len(P) - 1 : x[i] = Chain!Decode(Chain!Up(P)[i])
      BY <3>3, DecodeAllIs
    <3> HIDE DEF x, y
    <3>5. \A i \in 1 .. Len(x) : x[i] = y[i]
      <4> TAKE i \in 1 .. Len(x)
      <4>1. i \in 1 .. Len(P) - 1 /\ i \in 1 .. Len(P)
        BY <1>2, <3>4
      <4> QED BY <1>1, <3>2, <3>3, <3>4, <4>1
    <3>6. x = y
      BY <3>2, <3>4, <3>5, SamePath
    <3> QED BY <3>6 DEF x, y
  <2> QED BY <2>1, <2>2
<1> QED BY <1>3, <1>4

\* A token at the end of the second text is one at the end of both.
LEMMA AppendedOn ==
  /\ \A s, t \in Tokens, c \in Words : s \o Append(t, c) = Append(s \o t, c)
  /\ \A s, t \in Tokens : s \o t \in Tokens
<1>1. \A s, t \in Tokens : s \o t \in Tokens
  BY HeadOfWhole DEF Joined
<1>2. ASSUME NEW s \in Tokens, NEW t \in Tokens, NEW c \in Words
      PROVE  s \o Append(t, c) = Append(s \o t, c)
  <2> DEFINE o == Alone(c)
  <2>1. o \in Tokens
    BY OneToken
  <2>2. Append(t, c) = t \o o /\ s \o t \in Tokens
    BY <1>1, Appended
  <2>3. Append(s \o t, c) = (s \o t) \o o
    BY <2>2, Appended
  <2> HIDE DEF o
  <2>4. (s \o t) \o o = s \o (t \o o)
    BY <2>1, Regroup
  <2> QED BY <2>2, <2>3, <2>4
<1> QED BY <1>1, <1>2

\* All parts are such with one part more, and with one less.
LEMMA AllOf ==
  ASSUME NEW P \in Paths, NEW p \in Tokens
  PROVE  /\ AllRaw(Append(P, p)) <=> AllRaw(P) /\ Raw(p) /\ p \notin Dots
         /\ AllNames(Append(P, p)) <=> AllNames(P) /\ Name(p)
         /\ AllRaw(P) => AllRaw(Chain!Up(P))
<1> DEFINE a == Append(P, p)
           n == Len(P)
<1>1. Len(a) = n + 1 /\ a[n + 1] = p /\ \A i \in 1 .. n : a[i] = P[i]
  BY AppendProperties DEF Paths
<1>2. n \in Nat
  BY PathLen
<1>3. AllRaw(P) => AllRaw(Chain!Up(P))
  <2>1. CASE P = <<>>
    BY <2>1 DEF Chain!Up
  <2>2. CASE P # <<>>
    <3>1. Len(Chain!Up(P)) = n - 1 /\ \A i \in 1 .. n - 1 : Chain!Up(P)[i] = P[i]
      BY <2>2, UpTyped
    <3>2. \A i \in 1 .. n - 1 : i \in 1 .. n
      BY <1>2
    <3> QED BY <3>1, <3>2 DEF AllRaw
  <2> QED BY <2>1, <2>2
<1> HIDE DEF a
<1>4. \A i \in 1 .. n + 1 : i = n + 1 \/ i \in 1 .. n
  BY <1>2
<1>5. n + 1 \in 1 .. n + 1 /\ \A i \in 1 .. n : i \in 1 .. n + 1
  BY <1>2
<1>6. AllRaw(a) <=> AllRaw(P) /\ Raw(p) /\ p \notin Dots
  <2> HIDE DEF n
  <2>1. AllRaw(P) <=> \A i \in 1 .. n : Raw(P[i]) /\ P[i] \notin Dots
    BY DEF n, AllRaw
  <2> QED BY <1>1, <1>4, <1>5, <2>1 DEF AllRaw
<1>7. AllNames(a) <=> AllNames(P) /\ Name(p)
  <2> HIDE DEF n
  <2>1. AllNames(P) <=> \A i \in 1 .. n : Name(P[i])
    BY DEF n, AllNames
  <2> QED BY <1>1, <1>4, <1>5, <2>1 DEF AllNames
<1> QED BY <1>3, <1>6, <1>7 DEF a

\* The empty path is of names.
LEMMA NoneOf == AllRaw(<<>>) /\ AllNames(<<>>) /\ DecodeAll(<<>>) = <<>> /\ <<>> \in Paths
<1>1. <<>> \in Paths
  BY StepsTyped
<1>2. Len(<<>>) = 0
  OBVIOUS
<1>3. AllRaw(<<>>) /\ AllNames(<<>>)
  BY <1>2 DEF AllRaw, AllNames
<1> QED BY <1>1, <1>3, DecodeAllIs

\* Names are parts that mean something.
LEMMA NamesAreRaw == \A P : AllNames(P) => AllRaw(P)
BY DEF AllNames, AllRaw, Name

\* Names lead where they are.
LEMMA NamesResolved ==
  ASSUME NEW P \in Paths, AllRaw(P)
  PROVE  Chain!Resolved(P) = P
<1> DEFINE G == {R \in Paths : AllRaw(R) => Chain!Resolved(R) = R}
<1>1. <<>> \in G
  BY NoneOf, ResolvedNext
<1>2. ASSUME NEW R \in Seq(Tokens), NEW p \in Tokens, R \in G PROVE Append(R, p) \in G
  <2>1. R \in Paths /\ Append(R, p) \in Paths
    BY PathAppend DEF Paths
  <2>2. ASSUME AllRaw(Append(R, p)) PROVE Chain!Resolved(Append(R, p)) = Append(R, p)
    <3>1. AllRaw(R) /\ p \notin Dots
      BY <2>1, <2>2, AllOf
    <3>2. Chain!Resolved(R) = R
      BY <1>2, <3>1
    <3>3. Chain!Resolved(Append(R, p)) = Chain!Resolve(R, p)
      BY <2>1, <3>2, ResolvedNext
    <3>4. Chain!Resolve(R, p) = Append(R, p)
      BY <2>1, <3>1, ResolveIs DEF Dots
    <3> QED BY <3>3, <3>4
  <2> QED BY <2>1, <2>2
<1> HIDE DEF G
<1>3. Seq(Tokens) \subseteq G
  BY <1>1, <1>2, GrownIsAll
<1>4. P \in G
  BY <1>3 DEF Paths
<1> QED BY <1>4 DEF G

\* A place, read from what is resolved
Follows(P, at) == AllRaw(Chain!Resolved(P)) /\ DecodeAll(Chain!Resolved(P)) = at

\* To put a part to the others is to enter the name that it is.
LEMMA PutEnters ==
  ASSUME NEW P \in Paths, NEW at, Follows(P, at), NEW p \in Tokens, p = <<>> \/ Raw(p)
  PROVE  Follows(Chain!Put(P, p), Chain!Enter(at, p))
<1> DEFINE R == Chain!Resolved(P)
<1>1. R \in Paths /\ AllRaw(R) /\ DecodeAll(R) = at
  BY ResolvedNext DEF Follows
<1>2. at \in Paths
  BY <1>1, DecodeAllIs
<1>3. CASE p = <<>>
  <2>1. Chain!Put(P, p) = P
    BY <1>3 DEF Chain!Put
  <2>2. Chain!Enter(at, p) = at
    BY <1>2, <1>3, EnterIs
  <2> QED BY <2>1, <2>2
<1>4. CASE p # <<>>
  <2>1. Chain!Put(P, p) = Append(P, p) /\ Raw(p)
    BY <1>4 DEF Chain!Put
  <2>2. Chain!Resolved(Append(P, p)) = Chain!Resolve(R, p)
    BY ResolvedNext
  <2> DEFINE S == Chain!Resolve(R, p)
             E == Chain!Enter(at, p)
             d == <<".">>
             dd == <<"..">>
  <2> HIDE DEF R
  <2>3. AllRaw(S) /\ DecodeAll(S) = E
    <3> HIDE DEF d, dd
    <3>1. CASE p = dd
      <4>1. S = Chain!Up(R) /\ E = Chain!Up(at)
        BY <1>1, <1>2, <3>1, ResolveIs, EnterIs DEF dd
      <4>2. AllRaw(Chain!Up(R)) /\ DecodeAll(Chain!Up(R)) = Chain!Up(at)
        BY <1>1, AllOf, DecodeAllOn
      <4> QED BY <4>1, <4>2
    <3>2. CASE p = d
      <4>1. S = R /\ E = at
        BY <1>1, <1>2, <3>2, ResolveIs, EnterIs DEF d
      <4> QED BY <1>1, <4>1
    <3>3. CASE p # d /\ p # dd
      <4>1. p \notin Dots
        BY <3>3 DEF Dots, d, dd
      <4>2. S = Append(R, p)
        BY <1>1, <4>1, ResolveIs DEF Dots
      <4>3. E = Append(at, Chain!Decode(p))
        BY <1>2, <1>4, <4>1, EnterIs DEF Dots
      <4>4. AllRaw(Append(R, p))
        BY <1>1, <2>1, <4>1, AllOf
      <4>5. DecodeAll(Append(R, p)) = Append(at, Chain!Decode(p))
        BY <1>1, DecodeAllOn
      <4> QED BY <4>2, <4>3, <4>4, <4>5
    <3> QED BY <3>1, <3>2, <3>3
  <2> HIDE DEF S, E
  <2>4. Follows(Append(P, p), E)
    BY <2>2, <2>3 DEF Follows, S
  <2> QED BY <2>1, <2>4 DEF E
<1> QED BY <1>3, <1>4

\* Nothing in a reference that is looked at twice
Bare(r) == \A i \in 1 .. Len(r) : r[i] \notin Bars \ {"/"}

\* Where the parts that were cut resolve to is where the reference has led.
Simulates(x, y) ==
  /\ x.begun = y.name /\ (x.begun = <<>> \/ Raw(x.begun))
  /\ Follows(x.parts, y.at)

\* What the parts of base and reference resolve to is where the reference leads.
LEMMA LedIsResolved ==
  ASSUME NEW base \in Tokens, NEW M \in Paths, AllNames(M),
         Chain!Cut(base) = [parts |-> M, begun |-> <<>>],
         NEW r \in Tokens, Bare(r)
  PROVE  Simulates(Chain!Cut(base \o r), Chain!Led(M, r))
<1> DEFINE G == {t \in Tokens : Bare(t) => Simulates(Chain!Cut(base \o t), Chain!Led(M, t))}
<1>1. <<>> \in G
  <2>1. base \o <<>> = base /\ <<>> \in Tokens
    BY NoToken
  <2>2. Chain!Led(M, <<>>) = [at |-> M, name |-> <<>>]
    BY LedNext DEF LedBase
  <2>3. Follows(M, M)
    <3>1. AllRaw(M)
      BY NamesAreRaw
    <3>2. Chain!Resolved(M) = M
      BY <3>1, NamesResolved
    <3>3. DecodeAll(M) = M
      BY DecodeAllIs
    <3> QED BY <3>1, <3>2, <3>3 DEF Follows
  <2>4. Simulates(Chain!Cut(base), Chain!Led(M, <<>>))
    BY <2>2, <2>3 DEF Simulates
  <2> QED BY <2>1, <2>4
<1>2. ASSUME NEW t \in Seq(Words), NEW c \in Words, t \in G PROVE Append(t, c) \in G
  <2> DEFINE x == Chain!Cut(base \o t)
             y == Chain!Led(M, t)
  <2>1. t \in Tokens /\ base \o t \in Tokens /\ Append(t, c) \in Tokens
    BY AppendedOn, Appended DEF Tokens
  <2>2. base \o Append(t, c) = Append(base \o t, c)
    BY <2>1, AppendedOn
  <2>3. Chain!Cut(base \o Append(t, c)) = CutOn(x, c) /\ Chain!Led(M, Append(t, c)) = LedOn(y, c)
        /\ x \in Cuts /\ y \in Leads
    BY <2>1, <2>2, CutNext, LedNext
  <2> HIDE DEF x, y
  <2>4. ASSUME Bare(Append(t, c)) PROVE Simulates(CutOn(x, c), LedOn(y, c))
    <3>1. Bare(t) /\ c \notin Bars \ {"/"}
      <4>1. Len(Append(t, c)) = Len(t) + 1 /\ Append(t, c)[Len(t) + 1] = c /\ (\A i \in 1 .. Len(t) : Append(t, c)[i] = t[i])
            /\ Len(t) \in Nat
        BY <2>1, IsLen, AppendProperties DEF Tokens
      <4>2. Len(t) + 1 \in 1 .. Len(t) + 1 /\ \A i \in 1 .. Len(t) : i \in 1 .. Len(t) + 1
        BY <4>1
      <4> QED BY <2>4, <4>1, <4>2 DEF Bare
    <3>2. Simulates(x, y)
      BY <1>2, <3>1 DEF x, y
    <3>3. x.parts \in Paths /\ x.begun \in Tokens /\ y.at \in Paths /\ y.name = x.begun
      BY <2>3, <3>2 DEF Cuts, Leads, Simulates
    <3>4. CASE c = "/"
      <4>1. Follows(Chain!Put(x.parts, x.begun), Chain!Enter(y.at, x.begun))
        BY <3>2, <3>3, PutEnters DEF Simulates
      <4>2. CutOn(x, c) = [parts |-> Chain!Put(x.parts, x.begun), begun |-> <<>>]
            /\ LedOn(y, c) = [at |-> Chain!Enter(y.at, x.begun), name |-> <<>>]
        BY <3>3, <3>4 DEF CutOn, LedOn
      <4> QED BY <4>1, <4>2 DEF Simulates
    <3>5. CASE c # "/"
      <4>1. CutOn(x, c).parts = x.parts /\ CutOn(x, c).begun = Append(x.begun, c)
            /\ LedOn(y, c).at = y.at /\ LedOn(y, c).name = Append(x.begun, c)
        BY <2>3, <3>3, <3>5 DEF CutOn, LedOn, Cuts, Leads
      <4>2. Raw(Append(x.begun, c))
        <5> DEFINE b == x.begun
                   a == Append(b, c)
        <5>1. a # <<>> /\ Len(a) = Len(b) + 1 /\ a[Len(b) + 1] = c /\ (\A i \in 1 .. Len(b) : a[i] = b[i])
          BY <3>3, AppendProperties DEF Tokens
        <5>2. Len(b) \in Nat
          BY <3>3, IsLen
        <5>3. c \notin Bars
          BY <3>1, <3>5
        <5>4. \A i \in 1 .. Len(b) : b[i] \notin Bars
          <6>1. b = <<>> \/ Raw(b)
            BY <3>2 DEF Simulates
          <6> HIDE DEF b
          <6>2. b = <<>> => 1 .. Len(b) = {}
            OBVIOUS
          <6> QED BY <6>1, <6>2 DEF Raw
        <5> HIDE DEF a, b
        <5>5. \A i \in 1 .. Len(a) : a[i] \notin Bars
          <6>1. \A i \in 1 .. Len(a) : i = Len(b) + 1 \/ i \in 1 .. Len(b)
            BY <5>1, <5>2
          <6> QED BY <5>1, <5>3, <5>4, <6>1
        <5>6. Raw(a)
          BY <5>1, <5>5 DEF Raw
        <5> QED BY <5>6 DEF a, b
      <4> QED BY <3>2, <4>1, <4>2 DEF Simulates
    <3> QED BY <3>4, <3>5
  <2> QED BY <2>1, <2>3, <2>4
<1> HIDE DEF G
<1>3. Seq(Words) \subseteq G
  BY <1>1, <1>2, GrownIsAll
<1>4. r \in G
  BY <1>3 DEF Tokens
<1> QED BY <1>4 DEF G

\* The same, the last part of the path and the last name included.
LEMMA WalkIsResolved ==
  ASSUME NEW base \in Tokens, NEW M \in Paths, AllNames(M),
         Chain!Cut(base) = [parts |-> M, begun |-> <<>>],
         NEW r \in Tokens, Bare(r)
  PROVE  Follows(Chain!Parts(base \o r), Chain!Walk(M, r))
<1> DEFINE x == Chain!Cut(base \o r)
           y == Chain!Led(M, r)
<1>1. Simulates(x, y)
  BY LedIsResolved
<1>2. x \in Cuts
  BY AppendedOn, CutNext
<1>3. Chain!Parts(base \o r) = Chain!Put(x.parts, x.begun) /\ Chain!Walk(M, r) = Chain!Enter(y.at, y.name)
  BY DEF Chain!Parts, Chain!Walk
<1> HIDE DEF x, y
<1>4. x.parts \in Paths /\ x.begun \in Tokens /\ y.name = x.begun /\ (x.begun = <<>> \/ Raw(x.begun)) /\ Follows(x.parts, y.at)
  BY <1>1, <1>2 DEF Cuts, Simulates
<1>5. Follows(Chain!Put(x.parts, x.begun), Chain!Enter(y.at, x.begun))
  BY <1>4, PutEnters
<1> QED BY <1>3, <1>4, <1>5

\* A path that is joined is decoded part by part.
LEMMA JoinDecodes ==
  ASSUME NEW P \in Paths
  PROVE  /\ Chain!Decode(Chain!Join(P)) = Chain!Join(DecodeAll(P))
         /\ AllRaw(P) => Chain!Decodes(Chain!Join(P))
<1> DEFINE Free(s) == \A i \in 1 .. Len(s) : s[i] \notin {"%"}
           G == {R \in Paths : /\ Chain!Decode(Chain!Join(R)) = Chain!Join(DecodeAll(R))
                               /\ AllRaw(R) => Free(Chain!Join(R))}
<1>1. <<>> \in G
  <2>1. Chain!Join(<<>>) = <<>> /\ DecodeAll(<<>>) = <<>> /\ <<>> \in Paths
    BY JoinNext, NoneOf
  <2>2. Chain!Decode(<<>>) = <<>>
    BY NoToken, DecodedHead
  <2>3. Free(<<>>)
    <3>1. Len(<<>>) = 0
      OBVIOUS
    <3> QED BY <3>1
  <2> HIDE DEF Free
  <2> QED BY <2>1, <2>2, <2>3
<1>2. ASSUME NEW R \in Seq(Tokens), NEW p \in Tokens, R \in G PROVE Append(R, p) \in G
  <2> DEFINE t == Chain!Join(R)
             a == Append(t, "/")
             d == Chain!Decode(t)
             q == Chain!Decode(p)
  <2>1. R \in Paths /\ Append(R, p) \in Paths /\ t \in Tokens /\ "/" \in Words
    BY PathAppend, JoinNext, SomeWords DEF Paths
  <2>2. Chain!Join(Append(R, p)) = a \o p
    BY <2>1, JoinNext DEF JoinOn
  <2>3. a = t \o Alone("/") /\ a \in Tokens /\ Alone("/") \in Tokens
    BY <2>1, Appended, OneToken
  <2>4. DecodeAll(Append(R, p)) = Append(DecodeAll(R), q) /\ DecodeAll(R) \in Paths /\ q \in Tokens /\ d \in Tokens
    BY <2>1, DecodeAllOn, DecodeAllIs, Decoded
  <2>5. Chain!Decode(Alone("/")) = Alone("/")
    <3> DEFINE o == Alone("/")
    <3>1. o \in Tokens /\ Len(o) = 1 /\ o[1] = "/"
      BY <2>1, OneToken
    <3>2. "/" \notin CodeSet /\ "/" # "+"
      BY DEF CodeSet
    <3> HIDE DEF o
    <3>3. \A i \in 1 .. Len(o) : o[i] = "/"
      BY <3>1
    <3>4. Clean(o) /\ \A i \in 1 .. Len(o) : o[i] # "+"
      BY <3>2, <3>3 DEF Clean
    <3>5. Chain!Decode(o) = o
      BY <3>1, <3>4, DecodedIsSame
    <3> QED BY <3>5 DEF o
  <2>6. Chain!Decode(a) = d \o Alone("/")
    BY <2>1, <2>3, <2>5, DecodedWhole
  <2>7. Chain!Decode(a \o p) = (d \o Alone("/")) \o q
    BY <2>3, <2>6, DecodedWhole
  <2>8. Append(d, "/") = d \o Alone("/")
    BY <2>1, <2>4, Appended
  <2>9. Chain!Join(DecodeAll(Append(R, p))) = Append(d, "/") \o q
    <3>1. Chain!Join(DecodeAll(R)) = d
      BY <1>2, <2>1
    <3>2. Chain!Join(Append(DecodeAll(R), q)) = JoinOn(Chain!Join(DecodeAll(R)), q)
      BY <2>4, JoinNext
    <3> HIDE DEF d, q
    <3> QED BY <2>4, <3>1, <3>2 DEF JoinOn
  <2>10. ASSUME AllRaw(Append(R, p)) PROVE Free(a \o p)
    <3>1. AllRaw(R) /\ Raw(p)
      BY <2>1, <2>10, AllOf
    <3>2. Free(t)
      BY <1>2, <3>1
    <3>3. Free(p)
      BY <3>1 DEF Raw, Bars
    <3>4. Joined(a, p)
      BY <2>3, HeadOfWhole
    <3>5. Len(a) = Len(t) + 1 /\ a[Len(t) + 1] = "/" /\ (\A i \in 1 .. Len(t) : a[i] = t[i]) /\ Len(t) \in Nat
          /\ Len(p) \in Nat
      BY <2>1, IsLen, AppendProperties DEF Tokens
    <3> DEFINE w == a \o p
    <3> HIDE DEF a, t
    <3>6. Free(a)
      <4>1. \A i \in 1 .. Len(a) : i = Len(t) + 1 \/ i \in 1 .. Len(t)
        BY <3>5
      <4>2. "/" \notin {"%"}
        OBVIOUS
      <4> QED BY <3>2, <3>5, <4>1, <4>2
    <3>7. /\ Len(w) = Len(a) + Len(p) /\ (\A i \in 1 .. Len(a) : w[i] = a[i])
          /\ \A i \in 1 .. Len(p) : w[Len(a) + i] = p[i]
      BY <3>4 DEF Joined
    <3> HIDE DEF w
    <3>8. \A i \in 1 .. Len(w) : w[i] \notin {"%"}
      <4> TAKE i \in 1 .. Len(w)
      <4>1. CASE i \in 1 .. Len(a)
        BY <3>6, <3>7, <4>1
      <4>2. CASE i - Len(a) \in 1 .. Len(p)
        <5>1. i = Len(a) + (i - Len(a))
          BY <3>5
        <5>2. w[Len(a) + (i - Len(a))] = p[i - Len(a)]
          BY <3>7, <4>2
        <5> QED BY <3>3, <4>2, <5>1, <5>2
      <4>3. i \in 1 .. Len(a) \/ i - Len(a) \in 1 .. Len(p)
        BY <3>5, <3>7
      <4> QED BY <4>1, <4>2, <4>3
    <3> QED BY <3>8 DEF w
  <2> HIDE DEF Free, a, d, q
  <2> QED BY <2>1, <2>2, <2>7, <2>8, <2>9, <2>10
<1> HIDE DEF G
<1>3. Seq(Tokens) \subseteq G
  BY <1>1, <1>2, GrownIsAll
<1>4. P \in G
  BY <1>3 DEF Paths
<1>5. Chain!Join(P) \in Tokens
  BY JoinNext
<1>6. AllRaw(P) => Free(Chain!Join(P))
  BY <1>4 DEF G
<1>7. AllRaw(P) => Chain!Decodes(Chain!Join(P))
  <2> DEFINE W == {"%"}
             z == Chain!Join(P)
  <2>1. AllRaw(P) => \A i \in 1 .. Len(z) : z[i] \notin W
    BY <1>6
  <2> HIDE DEF W
  <2>2. AllRaw(P) => ~Chain!Has(z, W)
    BY <1>5, <2>1, HasIs
  <2> QED BY <2>2 DEF W, Chain!Decodes
<1> QED BY <1>4, <1>7 DEF G

\* A part that no slash ends
Open(p) == \A i \in 1 .. Len(p) : p[i] \notin {"/"}

\* A part without a slash is begun where the last one ended.
LEMMA CutTail ==
  ASSUME NEW s \in Tokens, NEW M, Chain!Cut(s) = [parts |-> M, begun |-> <<>>],
         NEW p \in Tokens, Open(p)
  PROVE  Chain!Cut(s \o p) = [parts |-> M, begun |-> p]
<1> DEFINE G == {t \in Tokens : Open(t) => Chain!Cut(s \o t) = [parts |-> M, begun |-> t]}
<1>1. <<>> \in G
  BY NoToken
<1>2. ASSUME NEW t \in Seq(Words), NEW c \in Words, t \in G PROVE Append(t, c) \in G
  <2>1. t \in Tokens /\ s \o t \in Tokens /\ Append(t, c) \in Tokens
    BY AppendedOn, Appended DEF Tokens
  <2>2. s \o Append(t, c) = Append(s \o t, c)
    BY <2>1, AppendedOn
  <2>3. ASSUME Open(Append(t, c)) PROVE Chain!Cut(s \o Append(t, c)) = [parts |-> M, begun |-> Append(t, c)]
    <3>1. Open(t) /\ c \notin {"/"}
      <4>1. Len(Append(t, c)) = Len(t) + 1 /\ Append(t, c)[Len(t) + 1] = c /\ (\A i \in 1 .. Len(t) : Append(t, c)[i] = t[i])
            /\ Len(t) \in Nat
        BY <2>1, IsLen, AppendProperties DEF Tokens
      <4>2. Len(t) + 1 \in 1 .. Len(t) + 1 /\ \A i \in 1 .. Len(t) : i \in 1 .. Len(t) + 1
        BY <4>1
      <4> QED BY <2>3, <4>1, <4>2 DEF Open
    <3>2. Chain!Cut(s \o t) = [parts |-> M, begun |-> t]
      BY <1>2, <3>1
    <3>3. Chain!Cut(Append(s \o t, c)) = CutOn([parts |-> M, begun |-> t], c)
      BY <2>1, <3>2, CutNext
    <3>4. CutOn([parts |-> M, begun |-> t], c) = [parts |-> M, begun |-> Append(t, c)]
      BY <3>1 DEF CutOn
    <3> QED BY <2>2, <3>3, <3>4
  <2> QED BY <2>1, <2>3
<1> HIDE DEF G
<1>3. Seq(Words) \subseteq G
  BY <1>1, <1>2, GrownIsAll
<1>4. p \in G
  BY <1>3 DEF Tokens
<1> QED BY <1>4 DEF G

\* A path that begins with a slash and ends in a name
Leading(s) == s # <<>> /\ s[1] \in {"/"} /\ s[Len(s)] \notin {"/"}

\* A part that means something has no slash and is not empty.
LEMMA NameOpen == \A p : Raw(p) => Open(p) /\ p # <<>>
BY DEF Raw, Bars, Open

\* Names that are joined are found again.
LEMMA JoinParts ==
  ASSUME NEW P \in Paths, AllNames(P)
  PROVE  /\ Chain!Parts(Chain!Join(P)) = P
         /\ P # <<>> => Leading(Chain!Join(P))
<1> DEFINE G == {R \in Paths : AllNames(R) =>
             /\ Chain!Parts(Chain!Join(R)) = R
             /\ IF R = <<>> THEN Chain!Join(R) = <<>> ELSE Leading(Chain!Join(R))}
<1>1. <<>> \in G
  <2>1. Chain!Join(<<>>) = <<>>
    BY JoinNext
  <2>2. Chain!Cut(<<>>) = [parts |-> <<>>, begun |-> <<>>]
    BY CutNext DEF CutBase
  <2>3. Chain!Parts(<<>>) = <<>>
    BY <2>2 DEF Chain!Parts, Chain!Put
  <2> QED BY <2>1, <2>3, NoneOf
<1>2. ASSUME NEW R \in Seq(Tokens), NEW p \in Tokens, R \in G PROVE Append(R, p) \in G
  <2> DEFINE t == Chain!Join(R)
             a == Append(t, "/")
             w == a \o p
  <2>1. R \in Paths /\ Append(R, p) \in Paths /\ t \in Tokens /\ "/" \in Words
    BY PathAppend, JoinNext, SomeWords DEF Paths
  <2>2. Chain!Join(Append(R, p)) = w
    BY <2>1, JoinNext DEF JoinOn
  <2>3. a \in Tokens
    BY <2>1, Appended
  <2>4. Append(R, p) # <<>>
    BY AppendProperties
  <2>5. ASSUME AllNames(Append(R, p))
        PROVE  Chain!Parts(w) = Append(R, p) /\ Leading(w)
    <3>1. AllNames(R) /\ Raw(p) /\ Open(p) /\ p # <<>>
      BY <2>1, <2>5, AllOf, NameOpen DEF Name
    <3>2. Chain!Parts(t) = R /\ (IF R = <<>> THEN t = <<>> ELSE Leading(t))
      BY <1>2, <3>1
    <3>3. Chain!Cut(a) = [parts |-> R, begun |-> <<>>]
      <4>1. Chain!Cut(a) = CutOn(Chain!Cut(t), "/")
        BY <2>1, CutNext
      <4>2. CutOn(Chain!Cut(t), "/") = [parts |-> Chain!Parts(t), begun |-> <<>>]
        BY DEF CutOn, Chain!Parts
      <4> QED BY <3>2, <4>1, <4>2
    <3>4. Chain!Cut(w) = [parts |-> R, begun |-> p]
      <4> HIDE DEF a
      <4> QED BY <2>3, <3>1, <3>3, CutTail
    <3>5. Chain!Parts(w) = Append(R, p)
      <4> HIDE DEF w
      <4> QED BY <3>1, <3>4 DEF Chain!Parts, Chain!Put
    <3>6. Joined(a, p)
      BY <2>3, HeadOfWhole
    <3>7. Len(a) = Len(t) + 1 /\ a[Len(t) + 1] = "/" /\ (\A i \in 1 .. Len(t) : a[i] = t[i]) /\ Len(t) \in Nat
          /\ Len(p) \in Nat /\ Len(p) # 0 /\ (t = <<>> <=> Len(t) = 0)
      BY <2>1, <3>1, IsLen, AppendProperties DEF Tokens
    <3>8. /\ Len(w) = Len(a) + Len(p) /\ (\A i \in 1 .. Len(a) : w[i] = a[i])
          /\ (\A i \in 1 .. Len(p) : w[Len(a) + i] = p[i]) /\ w \in Tokens
      BY <3>6 DEF Joined
    <3> DEFINE C == {"/"}
    <3>9. "/" \in C
      OBVIOUS
    <3>10. t # <<>> => t[1] \in C
      BY <3>2 DEF Leading
    <3>11. \A i \in 1 .. Len(p) : p[i] \notin C
      BY <3>1 DEF Open
    <3> HIDE DEF C, a, t, w
    <3>12. w[1] \in C
      <4>1. 1 \in 1 .. Len(a)
        BY <3>7
      <4>2. CASE t = <<>>
        BY <3>7, <3>8, <3>9, <4>1, <4>2
      <4>3. CASE t # <<>>
        <5>1. 1 \in 1 .. Len(t)
          BY <3>7, <4>3
        <5> QED BY <3>7, <3>8, <3>10, <4>1, <4>3, <5>1
      <4> QED BY <4>2, <4>3
    <3>13. w[Len(w)] \notin C
      <4>1. Len(p) \in 1 .. Len(p)
        BY <3>7
      <4>2. w[Len(a) + Len(p)] = p[Len(p)]
        BY <3>8, <4>1
      <4> QED BY <3>8, <3>11, <4>1, <4>2
    <3>14. w # <<>>
      <4>1. Len(w) # 0
        BY <3>7, <3>8
      <4> QED BY <3>8, <4>1, IsLen
    <3> QED BY <3>5, <3>12, <3>13, <3>14 DEF Leading, C
  <2> HIDE DEF w, a, t
  <2> QED BY <2>1, <2>2, <2>4, <2>5
<1> HIDE DEF G
<1>3. Seq(Tokens) \subseteq G
  BY <1>1, <1>2, GrownIsAll
<1>4. P \in G
  BY <1>3 DEF Paths
<1> QED BY <1>4 DEF G

\* A set of places that is not empty has a greatest one.
LEMMA Greatest ==
  ASSUME NEW n \in Nat, NEW I \in SUBSET (1 .. n), I # {}
  PROVE  Chain!Max(I) \in I /\ \A j \in I : Chain!Max(I) >= j
<1> DEFINE J == {n - i : i \in I}
<1>1. J \in SUBSET Nat /\ J # {}
  <2>1. PICK i \in I : TRUE
    OBVIOUS
  <2>2. n - i \in J
    OBVIOUS
  <2>3. \A j \in I : n - j \in Nat
    OBVIOUS
  <2>4. J \in SUBSET Nat
    BY <2>3
  <2> HIDE DEF J
  <2> QED BY <2>2, <2>4
<1> HIDE DEF J
<1>2. PICK k \in J : \A j \in J : k <= j
  BY <1>1, Smallest
<1>3. PICK i \in I : k = n - i
  BY <1>2 DEF J
<1>4. \A j \in I : i >= j
  <2> TAKE j \in I
  <2>1. n - j \in J
    BY DEF J
  <2>2. n - i <= n - j
    BY <1>2, <1>3, <2>1
  <2> QED BY <2>2
<1>5. \E x \in I : \A y \in I : x >= y
  BY <1>4
<1> QED BY <1>5 DEF Chain!Max

\* Up to the last slash of a path that ends in a name
LEMMA BaseOf ==
  ASSUME NEW v, NEW r \in Tokens, v.path \in Tokens, Leading(v.path), ~Chain!Starts(r, "/"),
         NEW M \in Paths, Chain!Parts(v.path) = M
  PROVE  \E base \in Tokens :
           /\ Chain!NewPath(v, r) = base \o r
           /\ Chain!Cut(base) = [parts |-> Chain!Up(M), begun |-> <<>>]
<1> DEFINE s == v.path
           n == Len(s)
           I == {i \in 1 .. n : s[i] = "/"}
           k == Chain!Max(I)
           base == SubSeq(s, 1, k)
           front == SubSeq(s, 1, k - 1)
           tail == SubSeq(s, k + 1, n)
           C == {"/"}
<1>1. n \in Nat /\ n # 0 /\ 1 \in 1 .. n /\ s[1] \in C /\ s[n] \notin C
  BY IsLen DEF Leading
<1>2. Chain!NewPath(v, r) = base \o r
  <2>1. I # {}
    BY <1>1
  <2>2. Chain!SelectLastInSeq(s, LAMBDA c : c = "/") = k
    BY <2>1 DEF Chain!SelectLastInSeq
  <2>3. k # 0
    <3>1. k \in I
      BY <1>1, <2>1, Greatest
    <3> HIDE DEF k
    <3> QED BY <3>1
  <2> DEFINE end == Chain!SelectLastInSeq(v.path, LAMBDA c : c = "/")
  <2>4. Chain!NewPath(v, r) = CASE Chain!Starts(r, "/") -> r
        [] ~Chain!Starts(r, "/") /\ v.path = <<>> -> <<"/">> \o r
        [] OTHER -> (IF end = 0 THEN v.path ELSE SubSeq(v.path, 1, end)) \o r
    BY DEF Chain!NewPath
  <2>5. end = k /\ v.path # <<>>
    BY <2>2 DEF Leading
  <2> HIDE DEF k, end
  <2> QED BY <2>3, <2>4, <2>5
<1>3. k \in 1 .. n /\ s[k] \in C /\ \A j \in k + 1 .. n : s[j] \notin C
  <2>1. I # {} /\ I \in SUBSET (1 .. n)
    BY <1>1
  <2>2. k \in I /\ \A j \in I : k >= j
    <3> HIDE DEF I
    <3> QED BY <1>1, <2>1, Greatest
  <2> HIDE DEF k, n
  <2>3. k \in 1 .. n /\ s[k] = "/"
    BY <2>2
  <2>4. ASSUME NEW j \in k + 1 .. n PROVE s[j] # "/"
    <3>1. j \in 1 .. n /\ ~(k >= j)
      BY <1>1, <2>3
    <3> QED BY <2>2, <3>1
  <2> QED BY <2>3, <2>4
<1>4. k # n /\ k + 1 \in Nat /\ k + 1 <= n /\ k \in Nat /\ k >= 1
  <2>1. k # n
    BY <1>1, <1>3
  <2> HIDE DEF k, n
  <2> QED BY <1>1, <1>3, <2>1
<1> HIDE DEF C, k
<1>5. front \in Tokens /\ Len(front) = k - 1 /\ \A i \in 1 .. k - 1 : front[i] = s[i]
  <2>1. 1 \in Nat /\ k - 1 \in Int /\ k - 1 <= Len(s)
    BY <1>4
  <2>2. front \in Tokens /\ Len(front) = (IF 1 <= k - 1 THEN k - 1 - 1 + 1 ELSE 0)
        /\ \A i \in 1 .. k - 1 - 1 + 1 : front[i] = s[1 + i - 1]
    BY <2>1, SubText
  <2> HIDE DEF front, s
  <2> QED BY <1>4, <2>2
<1>6. base \in Tokens /\ Len(base) = k /\ \A i \in 1 .. k : base[i] = s[i]
  <2>1. 1 \in Nat /\ k \in Int /\ k <= Len(s)
    BY <1>4
  <2>2. base \in Tokens /\ Len(base) = (IF 1 <= k THEN k - 1 + 1 ELSE 0)
        /\ \A i \in 1 .. k - 1 + 1 : base[i] = s[1 + i - 1]
    BY <2>1, SubText
  <2> HIDE DEF base, s
  <2> QED BY <1>4, <2>2
<1>7. tail \in Tokens /\ Len(tail) = n - k /\ \A i \in 1 .. n - k : tail[i] = s[k + i]
  <2>1. k + 1 \in Nat /\ n \in Int /\ n <= Len(s) /\ k + 1 >= 1
    BY <1>1, <1>4
  <2>2. tail \in Tokens /\ Len(tail) = (IF k + 1 <= n THEN n - (k + 1) + 1 ELSE 0)
        /\ \A i \in 1 .. n - (k + 1) + 1 : tail[i] = s[k + 1 + i - 1]
    <3> HIDE DEF n
    <3> QED BY <2>1, SubText DEF n
  <2> HIDE DEF tail, s, n
  <2> QED BY <1>1, <1>4, <2>2
<1> HIDE DEF base, front, tail, n
<1>8. base = Append(front, "/")
  <2> DEFINE b == Append(front, "/")
  <2>1. b \in Tokens
    BY <1>5, SomeWords, Appended
  <2>2. Len(b) = Len(front) + 1 /\ b[Len(front) + 1] = "/" /\ \A i \in 1 .. Len(front) : b[i] = front[i]
    BY <1>5, AppendProperties DEF Tokens
  <2> HIDE DEF b
  <2>3. Len(b) = k /\ b[k] = "/" /\ \A i \in 1 .. k - 1 : b[i] = front[i]
    BY <1>4, <1>5, <2>2
  <2>4. \A i \in 1 .. Len(base) : base[i] = b[i]
    <3> TAKE i \in 1 .. Len(base)
    <3>1. CASE i = k
      BY <1>3, <1>4, <1>6, <2>3, <3>1 DEF C
    <3>2. CASE i \in 1 .. k - 1
      <4>1. base[i] = s[i]
        BY <1>6
      <4>2. b[i] = s[i]
        BY <1>5, <2>3, <3>2
      <4> QED BY <4>1, <4>2
    <3>3. i = k \/ i \in 1 .. k - 1
      BY <1>4, <1>6
    <3> QED BY <3>1, <3>2, <3>3
  <2>5. base = b
    BY <1>6, <2>1, <2>3, <2>4, SameText
  <2> QED BY <2>5 DEF b
<1>9. PICK Z \in Paths : Chain!Cut(base) = [parts |-> Z, begun |-> <<>>]
  <2> DEFINE x == Chain!Cut(front)
  <2>1. x \in Cuts /\ Chain!Cut(base) = CutOn(x, "/")
    BY <1>5, <1>8, CutNext, SomeWords
  <2> HIDE DEF x
  <2>2. Chain!Put(x.parts, x.begun) \in Paths
    BY <2>1, PathAppend DEF Cuts
  <2> QED BY <2>1, <2>2 DEF CutOn
<1>10. Open(tail) /\ tail # <<>>
  <2>1. \A i \in 1 .. n - k : k + i \in k + 1 .. n
    BY <1>1, <1>4
  <2>2. Len(tail) # 0
    BY <1>1, <1>4, <1>7
  <2> QED BY <1>3, <1>7, <2>1, <2>2, IsLen DEF Open, C
<1>11. s = base \o tail
  <2> DEFINE w == base \o tail
  <2>1. Joined(base, tail)
    BY <1>6, <1>7, HeadOfWhole
  <2>2. w \in Tokens /\ Len(w) = Len(base) + Len(tail) /\ (\A i \in 1 .. Len(base) : w[i] = base[i])
        /\ \A i \in 1 .. Len(tail) : w[Len(base) + i] = tail[i]
    BY <2>1 DEF Joined
  <2> HIDE DEF w
  <2>3. Len(s) = n /\ n = Len(w)
    <3>1. Len(s) = n
      BY DEF n
    <3> HIDE DEF s
    <3> QED BY <1>1, <1>4, <1>6, <1>7, <2>2, <3>1
  <2>4. \A i \in 1 .. Len(s) : s[i] = w[i]
    <3> TAKE i \in 1 .. Len(s)
    <3> HIDE DEF s
    <3>1. CASE i \in 1 .. k
      <4>1. w[i] = base[i]
        BY <1>6, <2>2, <3>1
      <4> QED BY <1>6, <3>1, <4>1
    <3>2. CASE i - k \in 1 .. n - k
      <4>1. k + (i - k) = i
        BY <1>4
      <4>2. w[k + (i - k)] = tail[i - k]
        BY <1>6, <1>7, <2>2, <3>2
      <4>3. tail[i - k] = s[k + (i - k)]
        BY <1>7, <3>2
      <4> QED BY <4>1, <4>2, <4>3
    <3>3. i \in 1 .. k \/ i - k \in 1 .. n - k
      BY <1>1, <1>4, <2>3
    <3> QED BY <3>1, <3>2, <3>3
  <2>5. s = w
    BY <2>2, <2>3, <2>4, SameText
  <2> QED BY <2>5 DEF w
<1>12. Chain!Cut(s) = [parts |-> Z, begun |-> tail]
  <2>1. Chain!Cut(base \o tail) = [parts |-> Z, begun |-> tail]
    BY <1>6, <1>7, <1>9, <1>10, CutTail
  <2> QED BY <1>11, <2>1
<1>13. M = Append(Z, tail)
  BY <1>10, <1>12 DEF Chain!Parts, Chain!Put
<1>14. Chain!Up(M) = Z
  <2> HIDE DEF s
  <2>1. Len(Z) \in Nat /\ Len(M) = Len(Z) + 1 /\ \A i \in 1 .. Len(Z) : M[i] = Z[i]
    BY <1>7, <1>13, PathLen, AppendProperties DEF Paths
  <2>2. M # <<>>
    BY <2>1, PathLen
  <2> DEFINE y == Chain!Up(M)
  <2>3. y \in Paths /\ Len(y) = Len(M) - 1 /\ \A i \in 1 .. Len(M) - 1 : y[i] = M[i]
    BY <2>2, UpTyped
  <2> HIDE DEF y
  <2>4. Len(y) = Len(Z) /\ \A i \in 1 .. Len(y) : y[i] = Z[i]
    BY <2>1, <2>3
  <2>5. y = Z
    BY <2>3, <2>4, SamePath
  <2> QED BY <2>5 DEF y
<1> QED BY <1>2, <1>6, <1>9, <1>14

\* What is joined begins with a slash.
LEMMA JoinHead ==
  ASSUME NEW P \in Paths
  PROVE  Chain!Join(P) = <<>> \/ Chain!Join(P)[1] \in {"/"}
<1> DEFINE C == {"/"}
           G == {R \in Paths : Chain!Join(R) = <<>> \/ Chain!Join(R)[1] \in C}
<1>1. <<>> \in G
  BY JoinNext, NoneOf
<1>2. ASSUME NEW R \in Seq(Tokens), NEW p \in Tokens, R \in G PROVE Append(R, p) \in G
  <2> DEFINE t == Chain!Join(R)
             a == Append(t, "/")
             w == a \o p
  <2>1. R \in Paths /\ Append(R, p) \in Paths /\ t \in Tokens /\ "/" \in Words
    BY PathAppend, JoinNext, SomeWords DEF Paths
  <2>2. Chain!Join(Append(R, p)) = w
    BY <2>1, JoinNext DEF JoinOn
  <2>3. a \in Tokens /\ Len(a) = Len(t) + 1 /\ a[Len(t) + 1] = "/" /\ (\A i \in 1 .. Len(t) : a[i] = t[i]) /\ Len(t) \in Nat
        /\ (t = <<>> <=> Len(t) = 0)
    BY <2>1, Appended, IsLen, AppendProperties DEF Tokens
  <2>4. Joined(a, p)
    BY <2>3, HeadOfWhole
  <2>5. t = <<>> \/ t[1] \in C
    BY <1>2
  <2>6. "/" \in C
    OBVIOUS
  <2> HIDE DEF a, t, C
  <2>7. a[1] \in C /\ 1 \in 1 .. Len(a)
    <3>1. CASE t = <<>>
      BY <2>3, <2>6, <3>1
    <3>2. CASE t # <<>>
      <4>1. 1 \in 1 .. Len(t)
        BY <2>3, <3>2
      <4> QED BY <2>3, <2>5, <3>2, <4>1
    <3> QED BY <3>1, <3>2
  <2>8. w[1] \in C
    BY <2>4, <2>7 DEF Joined
  <2> HIDE DEF w
  <2> QED BY <2>1, <2>2, <2>8
<1> HIDE DEF G
<1>3. Seq(Tokens) \subseteq G
  BY <1>1, <1>2, GrownIsAll
<1>4. P \in G
  BY <1>3 DEF Paths
<1> QED BY <1>4 DEF G

\* Cutting, resolving and joining stay paths and texts.
LEMMA PartsTyped ==
  ASSUME NEW s \in Tokens
  PROVE  Chain!Parts(s) \in Paths /\ Chain!Join(Chain!Resolved(Chain!Parts(s))) \in Tokens
<1>1. Chain!Cut(s) \in Cuts
  BY CutNext
<1>2. Chain!Parts(s) \in Paths
  BY <1>1, PathAppend DEF Cuts, Chain!Parts
<1> QED BY <1>2, ResolvedNext, JoinNext

\* The path of base and reference is a text.
LEMMA NewPathTyped ==
  ASSUME NEW v \in Urls, NEW r \in Tokens
  PROVE  Chain!NewPath(v, r) \in Tokens
<1> DEFINE s == v.path
           n == Len(s)
           I == {i \in 1 .. n : s[i] = "/"}
           end == Chain!SelectLastInSeq(v.path, LAMBDA c : c = "/")
           base == IF end = 0 THEN v.path ELSE SubSeq(v.path, 1, end)
<1>1. s \in Tokens /\ n \in Nat
  BY IsLen DEF Urls
<1>2. end \in 0 .. n
  <2>1. end = IF I # {} THEN Chain!Max(I) ELSE 0
    BY DEF Chain!SelectLastInSeq
  <2>2. I \in SUBSET (1 .. n)
    OBVIOUS
  <2> HIDE DEF I, end
  <2>3. I # {} => Chain!Max(I) \in I
    BY <1>1, <2>2, Greatest
  <2>4. I # {} => Chain!Max(I) \in 1 .. n
    BY <2>2, <2>3
  <2> HIDE DEF n
  <2>5. 0 \in 0 .. n /\ \A i \in 1 .. n : i \in 0 .. n
    BY <1>1
  <2> QED BY <2>1, <2>4, <2>5
<1> HIDE DEF end
<1>3. base \in Tokens
  <2>1. end # 0 => SubSeq(s, 1, end) \in Tokens
    <3>1. 1 \in Nat /\ end \in Int /\ end <= Len(s)
      BY <1>1, <1>2
    <3> QED BY <1>1, <3>1, SubText
  <2> QED BY <1>1, <2>1
<1>4. Chain!NewPath(v, r) = CASE Chain!Starts(r, "/") -> r
        [] ~Chain!Starts(r, "/") /\ v.path = <<>> -> <<"/">> \o r
        [] OTHER -> base \o r
  BY DEF Chain!NewPath, end
<1> HIDE DEF base
<1>5. base \o r \in Tokens /\ Alone("/") \o r \in Tokens
  <2>1. Alone("/") \in Tokens
    BY OneToken, SomeWords
  <2> QED BY <1>3, <2>1, AppendedOn
<1> QED BY <1>4, <1>5 DEF Alone

\* The path that a reference leads to, as a text
Whole(v, r) ==
  LET new == Chain!NewPath(v, r)
      dir == Chain!Join(Chain!Resolved(Chain!Parts(new)))
  IN  IF dir = <<>> THEN <<"/">> ELSE IF Chain!Last(new) = "/" THEN Append(dir, "/") ELSE dir

\* The path that is set begins with a slash.
LEMMA WholeTyped ==
  ASSUME NEW v \in Urls, NEW r \in Tokens
  PROVE  Whole(v, r) \in Tokens /\ Whole(v, r) # <<>> /\ Whole(v, r)[1] \in {"/"}
<1> DEFINE new == Chain!NewPath(v, r)
           dir == Chain!Join(Chain!Resolved(Chain!Parts(new)))
           C == {"/"}
           a == Append(dir, "/")
           o == Alone("/")
<1>1. dir \in Tokens /\ (dir = <<>> \/ dir[1] \in C)
  BY NewPathTyped, PartsTyped, ResolvedNext, JoinHead
<1>2. Whole(v, r) = IF dir = <<>> THEN o ELSE IF Chain!Last(new) = "/" THEN a ELSE dir
  BY DEF Whole, Alone
<1>3. o \in Tokens /\ o # <<>> /\ o[1] \in C
  <2>1. o \in Tokens /\ Len(o) = 1 /\ o[1] = "/"
    BY SomeWords, OneToken
  <2> HIDE DEF o
  <2> QED BY <2>1, IsLen
<1> HIDE DEF dir, new
<1>4. dir # <<>> => a \in Tokens /\ a # <<>> /\ a[1] \in C
  <2> SUFFICES ASSUME dir # <<>> PROVE a \in Tokens /\ a # <<>> /\ a[1] \in C
    OBVIOUS
  <2>1. a \in Tokens /\ Len(a) = Len(dir) + 1 /\ (\A i \in 1 .. Len(dir) : a[i] = dir[i]) /\ Len(dir) \in Nat /\ Len(dir) # 0
    BY <1>1, SomeWords, Appended, IsLen, AppendProperties DEF Tokens
  <2> HIDE DEF a, C
  <2>2. 1 \in 1 .. Len(dir) /\ Len(a) # 0
    BY <2>1
  <2> QED BY <1>1, <2>1, <2>2, IsLen
<1> HIDE DEF o, a, C
<1>5. Whole(v, r) \in Tokens /\ Whole(v, r) # <<>> /\ Whole(v, r)[1] \in C
  BY <1>1, <1>2, <1>3, <1>4
<1> QED BY <1>5 DEF C

\* A url object on another path
Moved(v, p) == [v EXCEPT !.query = <<>>, !.fragment = <<>>, !.path = p]

\* url::relative, with its path by name
LEMMA RelativeIs ==
  ASSUME NEW v, NEW r
  PROVE  Chain!Relative(v, r) =
    CASE Chain!AuthorityAt(r) -> Chain!Parse(r)
      [] ~Chain!AuthorityAt(r) /\ Chain!Starts(r, "?") ->
           [v EXCEPT !.query = (IF @ = <<>> THEN @ ELSE Append(@, "&")) \o Tail(r)]
      [] ~Chain!AuthorityAt(r) /\ Chain!Starts(r, "#") -> [v EXCEPT !.fragment = Tail(r)]
      [] OTHER -> IF ~Chain!Decodes(Whole(v, r)) THEN Chain!Threw
           ELSE Moved(v, Chain!Decode(Whole(v, r)))
BY DEF Chain!Relative, Whole, Moved

\* A reference begins with one token.
LEMMA Beginnings ==
  ASSUME NEW r
  PROVE  ~(Chain!Starts(r, "?") /\ Chain!Starts(r, "#"))
<1>1. "?" # "#"
  OBVIOUS
<1> QED BY <1>1 DEF Chain!Starts

\* A url object on another path differs in the path, the query and the fragment.
LEMMA MovedIs ==
  ASSUME NEW v \in Urls, NEW p \in Tokens
  PROVE  /\ Moved(v, p) \in Urls
         /\ Moved(v, p).path = p /\ Moved(v, p).query = <<>> /\ Moved(v, p).fragment = <<>>
         /\ Moved(v, p).scheme = v.scheme /\ Moved(v, p).host = v.host /\ Moved(v, p).port = v.port
         /\ Moved(v, p).username = v.username /\ Moved(v, p).password = v.password
<1>1. Moved(v, p) \in Urls
  BY NoToken DEF Urls, Moved
<1>2. Moved(v, p).path = p /\ Moved(v, p).query = <<>> /\ Moved(v, p).fragment = <<>>
  BY DEF Urls, Moved
<1>3. Moved(v, p).scheme = v.scheme /\ Moved(v, p).host = v.host /\ Moved(v, p).port = v.port
  BY DEF Urls, Moved
<1>4. Moved(v, p).username = v.username /\ Moved(v, p).password = v.password
  BY DEF Urls, Moved
<1> QED BY <1>1, <1>2, <1>3, <1>4

\* Whatever is asked for next, its url object is as every url object is.
LEMMA RelativeWell ==
  ASSUME NEW v, Well(v), NEW r \in Tokens
  PROVE  Chain!Relative(v, r) = Chain!Threw \/ Well(Chain!Relative(v, r))
<1>1. v \in Urls
  BY DEF Well
<1>2. CASE Chain!AuthorityAt(r)
  <2>1. Chain!Relative(v, r) = Chain!Parse(r)
    BY <1>2, RelativeIs
  <2> QED BY <2>1, ParseWell
<1>3. CASE ~Chain!AuthorityAt(r) /\ Chain!Starts(r, "?")
  <2> DEFINE q == (IF v.query = <<>> THEN v.query ELSE Append(v.query, "&")) \o Tail(r)
  <2>1. Chain!Relative(v, r) = [v EXCEPT !.query = q]
    BY <1>3, RelativeIs, Beginnings
  <2>2. q \in Tokens
    <3>1. Tail(r) \in Tokens
      BY <1>3, HeadTailProperties DEF Tokens, Chain!Starts
    <3>2. v.query \in Tokens /\ Append(v.query, "&") \in Tokens
      <4>1. "&" \in Words
        BY DEF Words
      <4> QED BY <1>1, <4>1, Appended DEF Urls
    <3> QED BY <3>1, <3>2, AppendedOn
  <2> HIDE DEF q
  <2>3. Well([v EXCEPT !.query = q])
    <3> DEFINE w == [v EXCEPT !.query = q]
    <3>1. w \in Urls
      BY <1>1, <2>2 DEF Urls
    <3>2. w.scheme = v.scheme /\ w.username = v.username /\ w.password = v.password /\ w.host = v.host
          /\ w.port = v.port /\ w.path = v.path
      BY <1>1 DEF Urls
    <3> HIDE DEF w
    <3>3. Well(w)
      BY <3>1, <3>2 DEF Well
    <3> QED BY <3>3 DEF w
  <2> QED BY <2>1, <2>3
<1>4. CASE ~Chain!AuthorityAt(r) /\ ~Chain!Starts(r, "?") /\ Chain!Starts(r, "#")
  <2> DEFINE q == Tail(r)
             w == [v EXCEPT !.fragment = q]
  <2>1. Chain!Relative(v, r) = w
    BY <1>4, RelativeIs
  <2>2. q \in Tokens
    BY <1>4, HeadTailProperties DEF Tokens, Chain!Starts
  <2> HIDE DEF q
  <2>3. w \in Urls
    BY <1>1, <2>2 DEF Urls
  <2>4. w.scheme = v.scheme /\ w.username = v.username /\ w.password = v.password /\ w.host = v.host
        /\ w.port = v.port /\ w.path = v.path
    BY <1>1 DEF Urls
  <2> HIDE DEF w
  <2>5. Well(w)
    BY <2>3, <2>4 DEF Well
  <2> QED BY <2>1, <2>5
<1>5. CASE ~Chain!AuthorityAt(r) /\ ~Chain!Starts(r, "?") /\ ~Chain!Starts(r, "#")
  <2> DEFINE p == Chain!Decode(Whole(v, r))
  <2>1. Chain!Relative(v, r) = IF ~Chain!Decodes(Whole(v, r)) THEN Chain!Threw ELSE Moved(v, p)
    BY <1>5, RelativeIs
  <2>2. p \in Tokens /\ Clean(p) /\ (p = <<>> \/ p[1] \in {"/"})
    BY <1>1, WholeTyped, Decoded, DecodedHead
  <2> HIDE DEF p
  <2>3. Well(Moved(v, p))
    BY <1>1, <2>2, MovedIs DEF Well
  <2> QED BY <2>1, <2>3
<1> QED BY <1>2, <1>3, <1>4, <1>5

\* A path that leads, name by name, where it is meant to
Followed(s, M) == s \in Tokens /\ Leading(s) /\ M \in Paths /\ AllNames(M) /\ Chain!Parts(s) = M

\* What a plain reference has nothing of
LEMMA PlainIs ==
  ASSUME NEW r \in Tokens, Chain!Plain(r)
  PROVE  /\ Bare(r) /\ r # <<>> /\ r[Len(r)] \notin {"/"}
         /\ ~Chain!AuthorityAt(r) /\ ~Chain!Starts(r, "?") /\ ~Chain!Starts(r, "#")
<1> DEFINE C == {"?", "#", "%", "+", "%%", "%+", "%/"}
<1>1. r # <<>> /\ Chain!Last(r) \notin {"/", ".", ".."} /\ ~Chain!AuthorityAt(r) /\ ~Chain!Has(r, C)
  BY DEF Chain!Plain
<1>2. Bars \ {"/"} \subseteq C /\ "?" \in C /\ "#" \in C
  BY DEF Bars
<1> HIDE DEF C
<1>3. \A i \in 1 .. Len(r) : r[i] \notin C
  BY <1>1, HasIs
<1>4. Bare(r)
  BY <1>2, <1>3 DEF Bare
<1>5. ~Chain!Starts(r, "?") /\ ~Chain!Starts(r, "#")
  <2>1. 1 \in 1 .. Len(r)
    BY <1>1, IsLen
  <2>2. r[1] \notin C
    BY <1>3, <2>1
  <2> QED BY <1>2, <2>2 DEF Chain!Starts
<1> QED BY <1>1, <1>4, <1>5 DEF Chain!Last

\* A text ends as what was put behind does.
LEMMA LastOf ==
  ASSUME NEW s \in Tokens, NEW t \in Tokens, t # <<>>
  PROVE  Chain!Last(s \o t) = t[Len(t)]
<1>1. Joined(s, t)
  BY HeadOfWhole
<1>2. Len(t) \in 1 .. Len(t)
  BY IsLen
<1> QED BY <1>1, <1>2 DEF Joined, Chain!Last

\* From where all parts are names, a plain reference leads to names again.
LEMMA WalksOn ==
  ASSUME NEW v \in Urls, NEW r \in Tokens, Chain!Plain(r), NEW base \in Tokens,
         NEW Q \in Paths, AllNames(Q), Chain!Cut(base) = [parts |-> Q, begun |-> <<>>],
         Chain!NewPath(v, r) = base \o r, Chain!Walk(Q, r) # <<>>
  PROVE  Chain!Decodes(Whole(v, r)) /\ Followed(Chain!Decode(Whole(v, r)), Chain!Walk(Q, r))
<1> DEFINE new == base \o r
           R == Chain!Resolved(Chain!Parts(new))
           N == Chain!Walk(Q, r)
           dir == Chain!Join(R)
<1>1. new \in Tokens /\ Chain!Parts(new) \in Paths /\ R \in Paths
  BY AppendedOn, PartsTyped, ResolvedNext
<1>2. AllRaw(R) /\ DecodeAll(R) = N
  BY PlainIs, WalkIsResolved DEF Follows
<1>3. Chain!Last(new) # "/"
  <2>1. r # <<>> /\ r[Len(r)] \notin {"/"}
    BY PlainIs
  <2>2. Chain!Last(new) = r[Len(r)]
    BY <2>1, LastOf
  <2> QED BY <2>1, <2>2
<1>4. Whole(v, r) = IF dir = <<>> THEN <<"/">> ELSE IF Chain!Last(new) = "/" THEN Append(dir, "/") ELSE dir
  BY DEF Whole
<1> HIDE DEF new, R, N
<1>5. N \in Paths /\ AllNames(N)
  BY <1>1, <1>2, DecodeAllIs
<1>6. Chain!Decode(dir) = Chain!Join(N) /\ Chain!Decodes(dir) /\ dir \in Tokens
  BY <1>1, <1>2, JoinDecodes, JoinNext
<1>7. Chain!Parts(Chain!Join(N)) = N /\ Leading(Chain!Join(N)) /\ Chain!Join(N) \in Tokens
  BY <1>5, JoinParts, JoinNext DEF N
<1>8. dir # <<>>
  <2>1. Chain!Join(N) # <<>>
    BY <1>7 DEF Leading
  <2> QED BY <1>6, <2>1, DecodedHead
<1>9. Whole(v, r) = dir
  BY <1>3, <1>4, <1>8
<1> HIDE DEF dir
<1>10. Followed(Chain!Join(N), N)
  BY <1>5, <1>7 DEF Followed
<1> QED BY <1>6, <1>9, <1>10 DEF N

\* The next document is the one that its reference means.
LEMMA RelativeMeans ==
  ASSUME NEW v, Well(v), NEW M, M # <<>>, Followed(v.path, M), NEW r \in Tokens, Chain!Means(M, r) # <<>>
  PROVE  /\ Chain!Relative(v, r) = Moved(v, Chain!Decode(Whole(v, r)))
         /\ Followed(Chain!Decode(Whole(v, r)), Chain!Means(M, r))
<1>1. v \in Urls /\ v.path \in Tokens /\ Leading(v.path) /\ M \in Paths /\ AllNames(M) /\ Chain!Parts(v.path) = M
  BY DEF Well, Followed
<1>2. Chain!Plain(r) /\ Chain!Means(M, r) = Chain!Walk(IF Chain!Starts(r, "/") THEN <<>> ELSE Chain!Up(M), r)
  BY DEF Chain!Means, Chain!Up
<1>3. Chain!Decodes(Whole(v, r)) /\ Followed(Chain!Decode(Whole(v, r)), Chain!Means(M, r))
  <2>1. CASE Chain!Starts(r, "/")
    <3>1. Chain!NewPath(v, r) = r
      BY <2>1 DEF Chain!NewPath
    <3>2. <<>> \o r = r /\ <<>> \in Tokens
      BY NoToken
    <3>3. Chain!Cut(<<>>) = [parts |-> <<>>, begun |-> <<>>]
      BY CutNext DEF CutBase
    <3>4. Chain!Means(M, r) = Chain!Walk(<<>>, r)
      BY <1>2, <2>1
    <3> QED BY <1>1, <1>2, <3>1, <3>2, <3>3, <3>4, NoneOf, WalksOn
  <2>2. CASE ~Chain!Starts(r, "/")
    <3>1. PICK base \in Tokens : /\ Chain!NewPath(v, r) = base \o r
                                 /\ Chain!Cut(base) = [parts |-> Chain!Up(M), begun |-> <<>>]
      BY <1>1, <2>2, BaseOf
    <3>2. Chain!Up(M) \in Paths /\ AllNames(Chain!Up(M))
      <4>1. /\ Chain!Up(M) \in Paths /\ Len(Chain!Up(M)) = Len(M) - 1
            /\ \A i \in 1 .. Len(M) - 1 : Chain!Up(M)[i] = M[i]
        BY <1>1, UpTyped
      <4>2. \A i \in 1 .. Len(M) - 1 : i \in 1 .. Len(M)
        BY <1>1, PathLen
      <4> QED BY <1>1, <4>1, <4>2 DEF AllNames
    <3>3. Chain!Means(M, r) = Chain!Walk(Chain!Up(M), r)
      BY <1>2, <2>2
    <3> QED BY <1>1, <1>2, <3>1, <3>2, <3>3, WalksOn
  <2> QED BY <2>1, <2>2
<1>4. Chain!Relative(v, r) = Moved(v, Chain!Decode(Whole(v, r)))
  BY <1>2, <1>3, PlainIs, RelativeIs
<1> QED BY <1>3, <1>4

\* Nothing in a text that is a code, or that is looked at again
Free(p) == \A i \in 1 .. Len(p) : p[i] \notin Bars \cup CodeSet
AllFree(P) == \A i \in 1 .. Len(P) : P[i] # <<>> /\ Free(P[i])

\* A token more, a part more without codes
LEMMA FreeOn ==
  /\ \A s \in Tokens, c \in Words : Free(s) /\ c \notin Bars \cup CodeSet => Free(Append(s, c))
  /\ \A P \in Paths, p \in Tokens : AllFree(P) /\ Free(p) => AllFree(Chain!Put(P, p))
  /\ Free(<<>>) /\ AllFree(<<>>)
<1>1. ASSUME NEW s \in Tokens, NEW c \in Words, Free(s), c \notin Bars \cup CodeSet PROVE Free(Append(s, c))
  <2> DEFINE a == Append(s, c)
             n == Len(s)
  <2>1. Len(a) = n + 1 /\ a[n + 1] = c /\ (\A i \in 1 .. n : a[i] = s[i]) /\ n \in Nat
    BY IsLen, AppendProperties DEF Tokens
  <2>2. \A i \in 1 .. n : s[i] \notin Bars \cup CodeSet
    BY <1>1 DEF Free
  <2> HIDE DEF a, n
  <2>3. \A i \in 1 .. n + 1 : i = n + 1 \/ i \in 1 .. n
    BY <2>1
  <2>4. \A i \in 1 .. Len(a) : a[i] \notin Bars \cup CodeSet
    BY <1>1, <2>1, <2>2, <2>3
  <2> QED BY <2>4 DEF Free, a
<1>2. ASSUME NEW P \in Paths, NEW p \in Tokens, AllFree(P), Free(p) PROVE AllFree(Chain!Put(P, p))
  <2>1. CASE p = <<>>
    BY <1>2, <2>1 DEF Chain!Put
  <2>2. CASE p # <<>>
    <3> DEFINE a == Append(P, p)
               n == Len(P)
    <3>1. Len(a) = n + 1 /\ a[n + 1] = p /\ (\A i \in 1 .. n : a[i] = P[i]) /\ n \in Nat
      BY PathLen, AppendProperties DEF Paths
    <3>2. \A i \in 1 .. n : P[i] # <<>> /\ Free(P[i])
      BY <1>2 DEF AllFree
    <3> HIDE DEF a, n
    <3>3. \A i \in 1 .. n + 1 : i = n + 1 \/ i \in 1 .. n
      BY <3>1
    <3>4. \A i \in 1 .. Len(a) : a[i] # <<>> /\ Free(a[i])
      BY <1>2, <2>2, <3>1, <3>2, <3>3
    <3> QED BY <2>2, <3>4 DEF AllFree, Chain!Put, a
  <2> QED BY <2>1, <2>2
<1>3. Free(<<>>) /\ AllFree(<<>>)
  <2>1. Len(<<>>) = 0
    OBVIOUS
  <2> QED BY <2>1 DEF Free, AllFree
<1> QED BY <1>1, <1>2, <1>3

\* The parts of a text without codes have none.
LEMMA PartsFree ==
  ASSUME NEW s \in Tokens, \A i \in 1 .. Len(s) : s[i] \notin (Bars \cup CodeSet) \ {"/"}
  PROVE  AllFree(Chain!Parts(s))
<1> DEFINE B == (Bars \cup CodeSet) \ {"/"}
           Within(t) == \A i \in 1 .. Len(t) : t[i] \notin B
           G == {t \in Tokens : Within(t) => AllFree(Chain!Cut(t).parts) /\ Free(Chain!Cut(t).begun)}
<1>1. <<>> \in G
  <2>1. Chain!Cut(<<>>).parts = <<>> /\ Chain!Cut(<<>>).begun = <<>>
    BY CutNext DEF CutBase
  <2> HIDE DEF Within
  <2> QED BY <2>1, NoToken, FreeOn
<1>2. ASSUME NEW t \in Seq(Words), NEW c \in Words, t \in G PROVE Append(t, c) \in G
  <2> DEFINE x == Chain!Cut(t)
  <2>1. t \in Tokens /\ Append(t, c) \in Tokens
    BY Appended DEF Tokens
  <2>2. Chain!Cut(Append(t, c)) = CutOn(x, c) /\ x.parts \in Paths /\ x.begun \in Tokens /\ x \in Cuts
    <3>1. Chain!Cut(Append(t, c)) = CutOn(x, c) /\ x \in Cuts
      BY <2>1, CutNext
    <3> HIDE DEF x
    <3> QED BY <3>1 DEF Cuts
  <2>3. ASSUME Within(Append(t, c)) PROVE AllFree(CutOn(x, c).parts) /\ Free(CutOn(x, c).begun)
    <3>1. Within(t) /\ c \notin B
      <4>1. Len(Append(t, c)) = Len(t) + 1 /\ Append(t, c)[Len(t) + 1] = c /\ (\A i \in 1 .. Len(t) : Append(t, c)[i] = t[i])
            /\ Len(t) \in Nat
        BY <2>1, IsLen, AppendProperties DEF Tokens
      <4>2. Len(t) + 1 \in 1 .. Len(t) + 1 /\ \A i \in 1 .. Len(t) : i \in 1 .. Len(t) + 1
        BY <4>1
      <4> HIDE DEF B
      <4> QED BY <2>3, <4>1, <4>2
    <3>2. AllFree(x.parts) /\ Free(x.begun)
      BY <1>2, <3>1
    <3> HIDE DEF x
    <3>3. CASE c = "/"
      BY <2>2, <3>2, <3>3, FreeOn DEF CutOn
    <3>4. CASE c # "/"
      <4>1. c \notin Bars \cup CodeSet
        BY <3>1, <3>4
      <4>2. CutOn(x, c).parts = x.parts /\ CutOn(x, c).begun = Append(x.begun, c)
        BY <2>2, <3>4 DEF CutOn, Cuts
      <4> QED BY <2>2, <3>2, <4>1, <4>2, FreeOn
    <3> QED BY <3>3, <3>4
  <2> HIDE DEF Within
  <2> QED BY <2>1, <2>2, <2>3
<1> HIDE DEF G
<1>3. Seq(Words) \subseteq G
  BY <1>1, <1>2, GrownIsAll
<1>4. s \in G
  BY <1>3 DEF Tokens
<1>5. AllFree(Chain!Cut(s).parts) /\ Free(Chain!Cut(s).begun)
  BY <1>4 DEF G
<1>6. Chain!Cut(s).parts \in Paths /\ Chain!Cut(s).begun \in Tokens
  BY CutNext DEF Cuts
<1> QED BY <1>5, <1>6, FreeOn DEF Chain!Parts

\* A plain path without dots leads where it is.
LEMMA PlainPath ==
  ASSUME NEW v, Well(v), Chain!Plain(v.path),
         \A i \in DOMAIN Chain!Parts(v.path) : Chain!Parts(v.path)[i] \notin Dots
  PROVE  Followed(v.path, Chain!Walk(<<>>, v.path))
<1> DEFINE s == v.path
           P == Chain!Parts(s)
<1>1. s \in Tokens /\ Clean(s) /\ (s = <<>> \/ s[1] \in {"/"})
  BY DEF Well, Urls
<1>2. Bare(s) /\ s # <<>> /\ s[Len(s)] \notin {"/"}
  BY <1>1, PlainIs
<1>3. \A i \in 1 .. Len(s) : s[i] \notin (Bars \cup CodeSet) \ {"/"}
  BY <1>1, <1>2 DEF Bare, Clean
<1> HIDE DEF s
<1>4. P \in Paths /\ AllFree(P)
  BY <1>1, <1>3, PartsTyped, PartsFree
<1>5. \A i \in 1 .. Len(P) : P[i] \notin Dots
  <2>1. DOMAIN P = 1 .. Len(P)
    BY <1>4 DEF Paths
  <2> QED BY <2>1 DEF s
<1>6. AllNames(P) /\ AllRaw(P)
  <2> HIDE DEF P
  <2>1. AllNames(P)
    BY <1>4, <1>5 DEF AllNames, Name, Raw, Clean, AllFree, Free
  <2> QED BY <2>1, NamesAreRaw
<1>7. Follows(P, Chain!Walk(<<>>, s))
  <2>1. <<>> \o s = s /\ <<>> \in Tokens
    BY <1>1, NoToken
  <2>2. Chain!Cut(<<>>) = [parts |-> <<>>, begun |-> <<>>]
    BY CutNext DEF CutBase
  <2>3. Follows(Chain!Parts(<<>> \o s), Chain!Walk(<<>>, s))
    BY <1>1, <1>2, <2>1, <2>2, NoneOf, WalkIsResolved
  <2> QED BY <2>1, <2>3
<1> HIDE DEF P
<1>8. Chain!Resolved(P) = P /\ DecodeAll(P) = P
  BY <1>4, <1>6, NamesResolved, DecodeAllIs
<1>9. Chain!Walk(<<>>, s) = P
  BY <1>7, <1>8 DEF Follows
<1>10. Leading(s)
  BY <1>1, <1>2 DEF Leading
<1> QED BY <1>1, <1>4, <1>6, <1>9, <1>10 DEF Followed, P, s

\* A text that carries a url whole
LEMMA CarriedReads ==
  ASSUME NEW v, Well(v), Chain!Carried(v)
  PROVE  Chain!Parse(Chain!Text(v)) = [v EXCEPT !.path = IF @ = <<>> THEN <<"/">> ELSE @]
<1> DEFINE C == {":", "/", "@", "[", "]", "?", "#", "%", "space", "+"}
           p == IF v.path = <<>> THEN Alone("/") ELSE v.path
           w == [v EXCEPT !.path = p]
<1>1. v \in Urls /\ v.host \in Tokens /\ Clean(v.host) /\ v.path \in Tokens
  BY DEF Well, Urls
<1>2. v.scheme # <<>> /\ v.host # <<>> /\ ~Chain!Has(v.host, C) /\ ~Chain!Has(v.query, {"#"})
  BY DEF Chain!Carried
<1>3. "@" \in C /\ "+" \in C
  OBVIOUS
<1>4. IsName(v.host)
  BY <1>2 DEF IsName
<1> HIDE DEF C
<1>5. \A i \in 1 .. Len(v.host) : v.host[i] \notin C
  BY <1>1, <1>2, HasIs
<1>6. NoMark(v.host) /\ \A i \in 1 .. Len(v.host) : v.host[i] # "+"
  BY <1>3, <1>5 DEF NoMark
<1>7. Chain!Decode(v.host) = v.host
  BY <1>1, <1>6, DecodedIsSame
<1>8. ReadsAs(v, Chain!Parse(Chain!Text(v)))
  BY <1>2, <1>6, TextReads
<1>9. Chain!Parse(Chain!Text(v)) = [scheme |-> v.scheme, username |-> v.username, password |-> v.password,
            host |-> v.host, port |-> v.port, path |-> p, query |-> v.query, fragment |-> v.fragment]
  BY <1>4, <1>7, <1>8 DEF ReadsAs
<1>10. p \in Tokens /\ w = [v EXCEPT !.path = IF @ = <<>> THEN <<"/">> ELSE @]
  <2>1. Alone("/") \in Tokens
    BY OneToken, SomeWords
  <2> QED BY <1>1, <2>1 DEF Alone
<1> HIDE DEF p
<1>11. w = [scheme |-> v.scheme, username |-> v.username, password |-> v.password,
            host |-> v.host, port |-> v.port, path |-> p, query |-> v.query, fragment |-> v.fragment]
  BY <1>1 DEF Urls
<1> QED BY <1>9, <1>10, <1>11

\* A slash more at the beginning makes no other path.
LEMMA SlashBefore ==
  ASSUME NEW s \in Tokens, NEW M, Followed(s, M)
  PROVE  Followed(Alone("/") \o s, M)
<1> DEFINE o == Alone("/")
           w == o \o s
           C == {"/"}
           G == {t \in Tokens : Chain!Cut(o \o t) = Chain!Cut(t)}
<1>1. o \in Tokens /\ Len(o) = 1 /\ o[1] = "/" /\ "/" \in Words
  BY OneToken, SomeWords
<1>2. <<>> \in G
  <2>1. o \o <<>> = o /\ <<>> \in Tokens /\ o = Append(<<>>, "/")
    <3>1. Append(<<>>, "/") = <<>> \o Alone("/") /\ <<>> \o o = o
      BY <1>1, NoToken, Appended
    <3> QED BY <1>1, <3>1, NoToken
  <2>2. Chain!Cut(o) = CutOn(CutBase, "/")
    BY <1>1, <2>1, CutNext
  <2>3. CutOn(CutBase, "/") = CutBase
    BY DEF CutOn, CutBase, Chain!Put
  <2> QED BY <2>1, <2>2, <2>3, CutNext
<1>3. ASSUME NEW t \in Seq(Words), NEW c \in Words, t \in G PROVE Append(t, c) \in G
  <2> HIDE DEF o
  <2>1. t \in Tokens /\ o \o t \in Tokens /\ Append(t, c) \in Tokens
    BY <1>1, AppendedOn, Appended DEF Tokens
  <2>2. o \o Append(t, c) = Append(o \o t, c)
    BY <1>1, <2>1, AppendedOn
  <2> QED BY <1>3, <2>1, <2>2, CutNext
<1> HIDE DEF G, o
<1>4. Seq(Words) \subseteq G
  BY <1>2, <1>3, GrownIsAll
<1>5. s \in G
  BY <1>4 DEF Tokens
<1>6. Chain!Cut(w) = Chain!Cut(s)
  BY <1>5 DEF G
<1>7. Chain!Parts(w) = Chain!Parts(s)
  BY <1>6 DEF Chain!Parts
<1>8. Leading(w) /\ w \in Tokens
  <2>1. s # <<>> /\ s[Len(s)] \notin C
    BY DEF Followed, Leading
  <2>2. Joined(o, s) /\ Len(s) \in Nat /\ Len(s) # 0
    BY <1>1, <2>1, HeadOfWhole, IsLen
  <2>3. w \in Tokens /\ Len(w) = 1 + Len(s) /\ (\A i \in 1 .. 1 : w[i] = o[i]) /\ \A i \in 1 .. Len(s) : w[1 + i] = s[i]
    BY <1>1, <2>2 DEF Joined
  <2> HIDE DEF w
  <2>4. 1 \in 1 .. 1 /\ Len(s) \in 1 .. Len(s) /\ Len(w) # 0
    BY <2>2, <2>3
  <2>5. w[1] \in C /\ w[Len(w)] \notin C
    <3>1. "/" \in C
      OBVIOUS
    <3> HIDE DEF C
    <3> QED BY <1>1, <2>1, <2>3, <2>4, <3>1
  <2> QED BY <2>3, <2>4, <2>5, IsLen DEF Leading
<1> QED BY <1>7, <1>8 DEF Followed, o

\* The url object is as it should be, and so is what is meant by it.
Held(st, v, m) ==
  /\ st # "threw" /\ Followed(v.path, m)
  /\ st \in {"manifest", "devices", "images"} =>
       /\ NoMark(v.host)
       /\ v.scheme = <<>> => v.username = <<>> /\ v.host = <<>> /\ v.port = <<>>
  /\ st \in {"devices", "images"} => v.query = <<>> /\ v.fragment = <<>>
\* The inductive invariant, of a stage, the url object, the one that was sent and what is
\* meant: the flasher has read what was written, and the path is the one that is meant.
ChainOk(st, v, w, m) ==
  /\ st # "threw" => Well(v)
  /\ st = "context" => Well(w) /\ v = Chain!Parse(Chain!Text(w))
  /\ m # <<>> => Held(st, v, m)

\* A url object is no exception.
LEMMA WellIsNotThrew == \A v : Well(v) => v # Chain!Threw
BY ThrewIsNot

\* Another document: load_images, load_cover and the flasher's file.
LEMMA RelativeKeeps ==
  ASSUME NEW st, NEW v, NEW w, NEW m, ChainOk(st, v, w, m), st # "threw", NEW r \in Tokens, NEW next, NEW z,
         \/ st = "manifest" /\ next = "devices"
         \/ st = "devices" /\ next = "images"
         \/ next \in {"cover", "file"}
  PROVE  ChainOk(IF Chain!Relative(v, r) = Chain!Threw THEN "threw" ELSE next, Chain!Relative(v, r), z, Chain!Means(m, r))
<1> DEFINE y == Chain!Relative(v, r)
           n == Chain!Means(m, r)
           p == Chain!Decode(Whole(v, r))
           st2 == IF y = Chain!Threw THEN "threw" ELSE next
<1>1. Well(v) /\ v \in Urls /\ next # "context" /\ next # "threw"
  BY DEF ChainOk, Well
<1>2. y = Chain!Threw \/ Well(y)
  BY <1>1, RelativeWell
<1>3. ASSUME n # <<>> PROVE Held(st2, y, n)
  <2>1. m # <<>>
    BY <1>3 DEF Chain!Means
  <2>2. Held(st, v, m)
    BY <2>1 DEF ChainOk
  <2>3. y = Moved(v, p) /\ Followed(p, n)
    BY <1>1, <1>3, <2>1, <2>2, RelativeMeans DEF Held
  <2>4. p \in Tokens
    BY <2>3 DEF Followed
  <2> HIDE DEF p
  <2>5. y.path = p /\ y.query = <<>> /\ y.fragment = <<>> /\ y.scheme = v.scheme /\ y.host = v.host
        /\ y.port = v.port /\ y.username = v.username
    BY <1>1, <2>3, <2>4, MovedIs
  <2>6. y # Chain!Threw
    <3>1. v.port \in {<<>>, Alone("80")}
      BY <1>1 DEF Well
    <3>2. Chain!Threw.port = <<"threw">> /\ <<"threw">> # <<>> /\ <<"threw">> # <<"80">>
      BY DEF Chain!Threw, Chain!Empty
    <3> HIDE DEF y
    <3>3. y.port # Chain!Threw.port
      BY <2>5, <3>1, <3>2 DEF Alone
    <3> QED BY <3>3
  <2> HIDE DEF y, n
  <2>7. st2 = next
    BY <2>6
  <2>8. next \in {"manifest", "devices", "images"} => st \in {"manifest", "devices", "images"}
    OBVIOUS
  <2> HIDE DEF st2
  <2> QED BY <1>1, <2>2, <2>3, <2>5, <2>7, <2>8 DEF Held
<1> HIDE DEF y, n
<1>4. st2 # "context" /\ (st2 # "threw" => Well(y))
  BY <1>1, <1>2
<1>5. ChainOk(st2, y, z, n)
  <2> HIDE DEF st2
  <2> QED BY <1>3, <1>4 DEF ChainOk
<1> QED BY <1>5 DEF y, n

\* btn_next_cb and generate_netblk_config: the document is written and read.
LEMMA HandKeeps ==
  ASSUME NEW v, NEW w, NEW m, ChainOk("images", v, w, m)
  PROVE  ChainOk(IF Chain!Parse(Chain!Text(v)) = Chain!Threw THEN "threw" ELSE "context", Chain!Parse(Chain!Text(v)), v, m)
<1> DEFINE y == Chain!Parse(Chain!Text(v))
           st2 == IF y = Chain!Threw THEN "threw" ELSE "context"
<1>1. Well(v)
  BY DEF ChainOk
<1>2. y = Chain!Threw \/ Well(y)
  BY <1>1, WellText, ParseWell
<1>3. ASSUME m # <<>> PROVE y # Chain!Threw /\ Followed(y.path, m)
  <2>1. Held("images", v, m)
    BY <1>3 DEF ChainOk
  <2>2. /\ Followed(v.path, m) /\ NoMark(v.host) /\ v.query = <<>> /\ v.fragment = <<>>
        /\ (v.scheme = <<>> => v.username = <<>> /\ v.host = <<>> /\ v.port = <<>>)
    BY <2>1 DEF Held
  <2>3. v.path # <<>> /\ v.path \in Tokens
    BY <2>2 DEF Followed, Leading
  <2>4. CASE v.scheme # <<>>
    <3>1. ~Chain!Has(v.query, {"#"})
      BY <2>2 DEF Chain!Has
    <3>2. ReadsAs(v, y)
      BY <1>1, <2>2, <2>4, <3>1, TextReads
    <3> HIDE DEF y
    <3>3. y.path = v.path /\ y.port = v.port
      BY <2>3, <3>2 DEF ReadsAs
    <3>4. y.port # Chain!Threw.port
      <4>1. v.port \in {<<>>, Alone("80")}
        BY <1>1 DEF Well
      <4>2. Chain!Threw.port = <<"threw">> /\ <<"threw">> # <<>> /\ <<"threw">> # <<"80">>
        BY DEF Chain!Threw, Chain!Empty
      <4> QED BY <3>3, <4>1, <4>2 DEF Alone
    <3> QED BY <2>2, <3>3, <3>4
  <2>5. CASE v.scheme = <<>>
    <3> DEFINE q == Alone("/") \o (Alone("/") \o v.path)
    <3>1. y = [scheme |-> <<>>, username |-> <<>>, password |-> <<>>, host |-> <<>>, port |-> <<>>,
            path |-> q, query |-> <<>>, fragment |-> <<>>]
      BY <1>1, <2>2, <2>3, <2>5, BareReads
    <3>2. Followed(q, m)
      <4>1. Followed(Alone("/") \o v.path, m)
        BY <2>2, <2>3, SlashBefore
      <4> DEFINE x == Alone("/") \o v.path
      <4>2. x \in Tokens
        BY <4>1 DEF Followed
      <4> HIDE DEF x
      <4> QED BY <4>1, <4>2, SlashBefore DEF x
    <3> HIDE DEF y, q
    <3>3. y.path = q /\ y.port = <<>>
      BY <3>1
    <3>4. y.port # Chain!Threw.port
      <4>1. Chain!Threw.port = <<"threw">> /\ <<"threw">> # <<>>
        BY DEF Chain!Threw, Chain!Empty
      <4> QED BY <3>3, <4>1
    <3> QED BY <3>2, <3>3, <3>4
  <2> QED BY <2>4, <2>5
<1>4. m # <<>> => Held("context", y, m)
  <2> HIDE DEF y
  <2> QED BY <1>3 DEF Held
<1>5. (st2 # "threw" => Well(y)) /\ (st2 = "context" \/ st2 = "threw") /\ (m # <<>> => st2 = "context")
  <2> HIDE DEF y
  <2> QED BY <1>2, <1>3
<1>6. ChainOk(st2, y, v, m)
  <2>1. y = Chain!Parse(Chain!Text(v))
    OBVIOUS
  <2> HIDE DEF st2, y
  <2> QED BY <1>1, <1>4, <1>5, <2>1 DEF ChainOk
<1> QED BY <1>6

\* It holds of the state.
ChainInv == ChainOk(stage, u, sent, meant)

\* Manifests and references are texts.
LEMMA TextsAreTokens ==
  /\ \A m \in Manifests : m \in Tokens
  /\ \A r \in Refs \cup FileRefs : r \in Tokens
<1>1. Seq(STRING) \subseteq Tokens
  <2>1. STRING \subseteq Words
    BY DEF Words
  <2> DEFINE W == Words
  <2> HIDE DEF W
  <2>2. \A s \in Seq(STRING) : s \in Seq(W)
    <3> TAKE s \in Seq(STRING)
    <3>1. \A i \in 1 .. Len(s) : s[i] \in W
      BY <2>1, ElementOfSeq DEF W
    <3>2. s \in [1 .. Len(s) -> STRING] /\ Len(s) \in Nat
      OBVIOUS
    <3>3. s \in [1 .. Len(s) -> W]
      BY <3>1, <3>2
    <3> QED BY <3>2, <3>3, FunctionIsSeq
  <2> QED BY <2>2 DEF W, Tokens
<1> QED BY <1>1, ChainAssumption

\* At first there is a manifest, or no URL is looked at.
LEMMA ChainBegins ==
  ASSUME Chain!Init \/ NoUrl
  PROVE  ChainInv
<1>1. CASE NoUrl
  <2>1. stage # "context" /\ stage # "threw" /\ meant = <<>> /\ u = Chain!Empty
    BY <1>1 DEF NoUrl
  <2> QED BY <2>1, EmptyWell DEF ChainInv, ChainOk
<1>2. CASE Chain!Init
  <2>1. PICK m \in Manifests :
          /\ u = Chain!Parse(m)
          /\ stage = IF Chain!Parse(m) = Chain!Threw THEN "threw" ELSE "manifest"
          /\ meant = IF Chain!Plain(Chain!Parse(m).path) THEN Chain!Walk(<<>>, Chain!Parse(m).path) ELSE <<>>
    BY <1>2 DEF Chain!Init
  <2> DEFINE v == Chain!Parse(m)
             P == Chain!Parts(v.path)
  <2>2. v = Chain!Threw \/ Well(v)
    BY TextsAreTokens, ParseWell
  <2>3. ASSUME meant # <<>> PROVE Held(stage, v, meant)
    <3>1. Chain!Plain(v.path) /\ meant = Chain!Walk(<<>>, v.path)
      BY <2>1, <2>3
    <3>2. v # Chain!Threw
      <4>1. Chain!Threw.path = <<>>
        BY DEF Chain!Threw, Chain!Empty
      <4>2. ~Chain!Plain(<<>>)
        BY DEF Chain!Plain
      <4> HIDE DEF v
      <4> QED BY <3>1, <4>1, <4>2
    <3>3. Well(v)
      BY <2>2, <3>2
    <3>4. /\ \A i \in DOMAIN P : P[i] \notin Dots
          /\ ~Chain!Has(v.host, {"@"})
          /\ v.scheme = <<>> => v.username = <<>> /\ v.host = <<>> /\ v.port = <<>>
      BY <3>1, ChainAssumption DEF Dots, Chain!NoPort
    <3> HIDE DEF v
    <3>5. Followed(v.path, meant)
      BY <3>1, <3>3, <3>4, PlainPath
    <3>6. NoMark(v.host)
      <4> DEFINE C == {"@"}
      <4>1. v.host \in Tokens
        BY <3>3 DEF Well, Urls
      <4>2. ~Chain!Has(v.host, C)
        BY <3>4
      <4> HIDE DEF C
      <4>3. \A i \in 1 .. Len(v.host) : v.host[i] \notin C
        BY <4>1, <4>2, HasIs
      <4> QED BY <4>3 DEF C, NoMark
    <3>7. stage = "manifest"
      BY <2>1, <3>2 DEF v
    <3> QED BY <3>4, <3>5, <3>6, <3>7 DEF Held
  <2> HIDE DEF v
  <2>4. u = v /\ stage = IF v = Chain!Threw THEN "threw" ELSE "manifest"
    BY <2>1 DEF v
  <2>5. stage # "context" /\ (stage # "threw" => Well(v))
    BY <2>2, <2>4
  <2> QED BY <2>3, <2>4, <2>5 DEF ChainInv, ChainOk
<1> QED BY <1>1, <1>2

\* Each document keeps the chain as it is meant.
LEMMA ChainGoesOn ==
  ASSUME ChainInv, [Chain!Next]_(Chain!vars)
  PROVE  ChainInv'
<1>1. CASE UNCHANGED Chain!vars
  BY <1>1 DEF ChainInv, Chain!vars
<1>2. ASSUME NEW r \in Refs, Chain!Follow(r) PROVE ChainInv'
  <2>1. r \in Tokens
    BY TextsAreTokens
  <2>2. PICK next \in {"devices", "images"} :
          /\ (stage = "manifest" /\ next = "devices") \/ (stage = "devices" /\ next = "images")
          /\ u' = Chain!Relative(u, r)
          /\ stage' = IF Chain!Relative(u, r) = Chain!Threw THEN "threw" ELSE next
          /\ meant' = Chain!Means(meant, r)
    <3>1. CASE stage = "manifest"
      <4>1. stage # "devices"
        BY <3>1
      <4>2. stage' = (IF Chain!Relative(u, r) = Chain!Threw THEN "threw" ELSE "devices") /\ u' = Chain!Relative(u, r)
            /\ meant' = Chain!Means(meant, r)
        BY <1>2, <4>1 DEF Chain!Follow, Chain!Becomes
      <4>3. stage = "manifest" /\ "devices" \in {"devices", "images"}
        BY <3>1
      <4> WITNESS "devices" \in {"devices", "images"}
      <4>4. u' = Chain!Relative(u, r) /\ meant' = Chain!Means(meant, r)
        BY <4>2
      <4>5. stage' = IF Chain!Relative(u, r) = Chain!Threw THEN "threw" ELSE "devices"
        BY <4>2
      <4> QED BY <4>3, <4>4, <4>5
    <3>2. CASE stage # "manifest"
      <4>1. stage' = (IF Chain!Relative(u, r) = Chain!Threw THEN "threw" ELSE "images") /\ u' = Chain!Relative(u, r)
            /\ meant' = Chain!Means(meant, r) /\ stage = "devices"
        BY <1>2, <3>2 DEF Chain!Follow, Chain!Becomes
      <4> QED BY <4>1
    <3> QED BY <3>1, <3>2
  <2>3. stage # "threw"
    BY <2>2
  <2>4. ChainOk(IF Chain!Relative(u, r) = Chain!Threw THEN "threw" ELSE next, Chain!Relative(u, r), sent', Chain!Means(meant, r))
    BY <2>1, <2>2, <2>3, RelativeKeeps DEF ChainInv
  <2> QED BY <2>2, <2>4 DEF ChainInv
<1>3. ASSUME NEW r \in FileRefs, Chain!Cover(r) \/ Chain!File(r) PROVE ChainInv'
  <2>1. r \in Tokens
    BY TextsAreTokens
  <2>2. PICK next \in {"cover", "file"} :
          /\ stage # "threw"
          /\ u' = Chain!Relative(u, r)
          /\ stage' = IF Chain!Relative(u, r) = Chain!Threw THEN "threw" ELSE next
          /\ meant' = Chain!Means(meant, r)
    BY <1>3 DEF Chain!Cover, Chain!File, Chain!Becomes
  <2>3. ChainOk(IF Chain!Relative(u, r) = Chain!Threw THEN "threw" ELSE next, Chain!Relative(u, r), sent', Chain!Means(meant, r))
    BY <2>1, <2>2, RelativeKeeps DEF ChainInv
  <2> QED BY <2>2, <2>3 DEF ChainInv
<1>4. CASE Chain!Hand
  <2>1. /\ stage = "images" /\ sent' = u /\ u' = Chain!Parse(Chain!Text(u))
        /\ stage' = IF Chain!Parse(Chain!Text(u)) = Chain!Threw THEN "threw" ELSE "context"
        /\ meant' = meant
    BY <1>4 DEF Chain!Hand, Chain!Becomes
  <2>2. ChainOk(IF Chain!Parse(Chain!Text(u)) = Chain!Threw THEN "threw" ELSE "context", Chain!Parse(Chain!Text(u)), u, meant)
    BY <2>1, HandKeeps DEF ChainInv
  <2> QED BY <2>1, <2>2 DEF ChainInv
<1> QED BY <1>1, <1>2, <1>3, <1>4 DEF Chain!Next

\* A chain that is as it should be asks for the documents that are meant.
LEMMA ChainIsTrue ==
  ASSUME ChainInv
  PROVE  DocumentsAreMeant
<1>1. Chain!HandedIsSame
  <2> SUFFICES ASSUME stage = "context", Chain!Carried(sent)
               PROVE  u = [sent EXCEPT !.path = IF @ = <<>> THEN <<"/">> ELSE @]
    BY DEF Chain!HandedIsSame
  <2>1. Well(sent) /\ u = Chain!Parse(Chain!Text(sent))
    BY DEF ChainInv, ChainOk
  <2> QED BY <2>1, CarriedReads
<1>2. Chain!PathIsMeant
  BY DEF Chain!PathIsMeant, ChainInv, ChainOk, Held, Followed
<1> QED BY <1>1, <1>2 DEF DocumentsAreMeant, Chain!DocumentsAreMeant

\* The URLs' part of a step is a step of the chain or none.
LEMMA ChainSteps ==
  /\ InstallInit => Chain!Init \/ NoUrl
  /\ [InstallNext]_installVars => [Chain!Next]_(Chain!vars)
<1>1. UNCHANGED urlVars => UNCHANGED Chain!vars
  BY DEF urlVars, Chain!vars
<1> QED BY <1>1 DEF InstallInit, InstallNext, OfFlashers, OfPage, OfUrls, installVars

\* ChainInv is an invariant.
LEMMA ChainAlways == InstallSpec => []ChainInv
<1>1. InstallInit => ChainInv
  BY ChainSteps, ChainBegins
<1>2. ChainInv /\ [InstallNext]_installVars => ChainInv'
  BY ChainSteps, ChainGoesOn
<1> QED BY <1>1, <1>2, PTL DEF InstallSpec

\* Along plain references, up and down the directories and above the root, the document
\* that load_images, load_cover and the netblk process ask for (url::relative) is the one
\* that is meant, none is refused, and the text that the page hands to the flasher
\* (url::append_all) is read back as the url that it was (url::parse): for texts of any
\* length and any number of them.
THEOREM DocumentsMeant == InstallSpec => []DocumentsAreMeant
<1>1. ChainInv => DocumentsAreMeant
  BY ChainIsTrue
<1> QED BY <1>1, ChainAlways, PTL
=============================================================================
