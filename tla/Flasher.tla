------------------------------- MODULE Flasher -------------------------------
(***************************************************************************)
(* The flasher (src/flasher): it takes a lock, makes a folder, starts a    *)
(* block device server (netblk), mounts the image, makes a cgroup, runs    *)
(* the image's script and takes everything down again.  Several flashers   *)
(* may be started, each once; a cancel is a signal, and the page's end     *)
(* kills a flasher where it stands.  The lock, a record lock, goes with    *)
(* its process; everything else stays behind one that dies.                *)
(***************************************************************************)
EXTENDS Naturals

CONSTANTS Flashers, \* the flasher processes
          Nobody    \* no flasher

VARIABLES
  pc,      \* where flasher f is: see Places
  owner,   \* who holds the lock file
  group,   \* who made the cgroup "nanodistro-flasher", Nobody when it is not there
  folder,  \* its folder is there
  mounted, \* the image is mounted in it
  netblk,  \* its server: none, run, dead (not yet waited for), gone
  out,     \* the server's answer: none, part, whole
  object,  \* flasher.script: none, made, started (its pid is known)
  script,  \* the script's process: none, run, ok or bad (ended, not waited for), gone
  inside,  \* the script is in the cgroup
  child,   \* what the script started and left: none, outside or inside the cgroup, gone
  termed,  \* the script was sent SIGTERM
  heard,   \* history: a signal reached the flasher once it knew the script's pid
  held     \* history: a process that could not be stopped outlived the clean up

disk == <<folder, mounted, netblk, out>>
tasks == <<script, inside, child, termed>>
vars == <<pc, owner, group, disk, object, tasks, heard, held>>

Places ==
  {"lock", "folder", "netblk", "waitblk", "readblk", "mount", "group", "script", "fork", "store",
   "join", "wait", "kill", "tasks", "umount", "stopblk", "remove", "unlock", "end", "crash"}

Init ==
  /\ pc = [f \in Flashers |-> "lock"]
  /\ owner = Nobody /\ group = Nobody
  /\ folder = [f \in Flashers |-> FALSE] /\ mounted = [f \in Flashers |-> FALSE]
  /\ netblk = [f \in Flashers |-> "none"] /\ out = [f \in Flashers |-> "none"]
  /\ object = [f \in Flashers |-> "none"] /\ script = [f \in Flashers |-> "none"]
  /\ inside = [f \in Flashers |-> FALSE] /\ child = [f \in Flashers |-> "none"]
  /\ termed = [f \in Flashers |-> FALSE]
  /\ heard = [f \in Flashers |-> FALSE] /\ held = [f \in Flashers |-> FALSE]

Go(f, place) == pc' = [pc EXCEPT ![f] = place]

\* An exception: straight to flasher_cleanup.
Fail(f) == Go(f, "kill")

\* What runs in the cgroup, whose ever it is.
InGroup(g) == (script[g] = "run" /\ inside[g]) \/ child[g] = "inside"
\* What keeps the image from being unmounted: it started there.
Uses(f) == script[f] = "run" \/ child[f] \in {"outside", "inside"}

-----------------------------------------------------------------------------
\* Setting up.

\* flasher_lock: without waiting.
Lock(f) ==
  /\ pc[f] = "lock"
  /\ \/ owner = Nobody /\ owner' = f /\ Go(f, "folder")
     \/ Fail(f) /\ UNCHANGED owner
  /\ UNCHANGED <<group, disk, object, tasks, heard, held>>

ChooseFolder(f) ==
  /\ pc[f] = "folder"
  /\ \/ folder' = [folder EXCEPT ![f] = TRUE] /\ Go(f, "netblk")
     \/ Fail(f) /\ UNCHANGED folder
  /\ UNCHANGED <<owner, group, mounted, netblk, out, object, tasks, heard, held>>

RunNetblk(f) ==
  /\ pc[f] = "netblk"
  /\ \/ netblk' = [netblk EXCEPT ![f] = "run"] /\ Go(f, "waitblk")
     \/ Fail(f) /\ UNCHANGED netblk
  /\ UNCHANGED <<owner, group, folder, mounted, out, object, tasks, heard, held>>

\* Once in 300 ms: has the server ended, is its answer there.
WaitNetblk(f) ==
  /\ pc[f] = "waitblk"
  /\ \/ netblk[f] = "dead" /\ netblk' = [netblk EXCEPT ![f] = "gone"] /\ Fail(f)
     \/ netblk[f] = "run" /\ out[f] # "none" /\ Go(f, "readblk") /\ UNCHANGED netblk
  /\ UNCHANGED <<owner, group, folder, mounted, out, object, tasks, heard, held>>

\* The answer may still be written to: half of it does not parse.
ReadNetblk(f) ==
  /\ pc[f] = "readblk"
  /\ \/ out[f] = "whole" /\ Go(f, "mount")
     \/ Fail(f)
  /\ UNCHANGED <<owner, group, disk, object, tasks, heard, held>>

MountImage(f) ==
  /\ pc[f] = "mount"
  /\ \/ netblk[f] = "run" /\ mounted' = [mounted EXCEPT ![f] = TRUE] /\ Go(f, "group")
     \/ Fail(f) /\ UNCHANGED mounted
  /\ UNCHANGED <<owner, group, folder, netblk, out, object, tasks, heard, held>>

\* Mutant: a cgroup that is there already will do.
MakeGroupShared(f) ==
  /\ pc[f] = "group"
  /\ \/ group' = f /\ Go(f, "script")
     \/ Fail(f) /\ UNCHANGED group
  /\ UNCHANGED <<owner, disk, object, tasks, heard, held>>

\* After the manifest: rmdir, which does nothing while tasks are inside, and mkdir.
MakeGroup(f) ==
  /\ pc[f] = "group"
  /\ \/ /\ group = Nobody \/ \A g \in Flashers : ~InGroup(g)
        /\ group' = f /\ Go(f, "script")
     \/ Fail(f) /\ UNCHANGED group
  /\ UNCHANGED <<owner, disk, object, tasks, heard, held>>

NewScript(f) ==
  /\ pc[f] = "script"
  /\ \/ object' = [object EXCEPT ![f] = "made"] /\ Go(f, "fork")
     \/ Fail(f) /\ UNCHANGED object
  /\ UNCHANGED <<owner, group, disk, tasks, heard, held>>

Fork(f) ==
  /\ pc[f] = "fork"
  /\ \/ script' = [script EXCEPT ![f] = "run"] /\ Go(f, "store")
     \/ Fail(f) /\ UNCHANGED script
  /\ UNCHANGED <<owner, group, disk, object, inside, child, termed, heard, held>>

StorePid(f) ==
  /\ pc[f] = "store"
  /\ object' = [object EXCEPT ![f] = "started"] /\ Go(f, "join")
  /\ UNCHANGED <<owner, group, disk, tasks, heard, held>>

\* add_pid: what the script has started before stays outside.
JoinGroup(f) ==
  /\ pc[f] = "join"
  /\ \/ inside' = [inside EXCEPT ![f] = TRUE] /\ Go(f, "wait")
     \/ Fail(f) /\ UNCHANGED inside
  /\ UNCHANGED <<owner, group, disk, object, script, child, termed, heard, held>>

WaitScript(f) ==
  /\ pc[f] = "wait" /\ script[f] \in {"ok", "bad"}
  /\ script' = [script EXCEPT ![f] = "gone"]
  /\ IF script[f] = "ok" THEN Go(f, "kill") ELSE Fail(f)
  /\ UNCHANGED <<owner, group, disk, object, inside, child, termed, heard, held>>
-----------------------------------------------------------------------------
\* flasher_cleanup and flasher_unlock.

\* Mutant: a script that has been sent a signal is not waited for.
KillScriptOnce(f) ==
  /\ pc[f] = "kill"
  /\ script' = [script EXCEPT ![f] = IF @ = "none" \/ termed[f] THEN @ ELSE "gone"]
  /\ object' = [object EXCEPT ![f] = "none"]
  /\ Go(f, "tasks")
  /\ UNCHANGED <<owner, group, disk, inside, child, termed, heard, held>>

\* kill_wait: SIGTERM, and SIGKILL after ten seconds.
KillScript(f) ==
  /\ pc[f] = "kill"
  /\ script' = [script EXCEPT ![f] = IF @ = "none" THEN "none" ELSE "gone"]
  /\ object' = [object EXCEPT ![f] = "none"]
  /\ Go(f, "tasks")
  /\ UNCHANGED <<owner, group, disk, inside, child, termed, heard, held>>

\* Mutant: the rest of the cgroup is not looked for.
KillTasksNot(f) ==
  /\ pc[f] = "tasks"
  /\ group' = IF group = f /\ \A g \in Flashers : ~InGroup(g) THEN Nobody ELSE group
  /\ Go(f, "umount")
  /\ UNCHANGED <<owner, disk, object, tasks, heard, held>>

\* killall, then rmdir.
KillTasks(f) ==
  /\ pc[f] = "tasks"
  /\ IF group = f
     THEN /\ script' = [g \in Flashers |-> IF script[g] = "run" /\ inside[g] THEN "bad" ELSE script[g]]
          /\ child' = [g \in Flashers |-> IF child[g] = "inside" THEN "gone" ELSE child[g]]
          /\ group' = Nobody
     ELSE UNCHANGED <<script, child, group>>
  /\ Go(f, "umount")
  /\ UNCHANGED <<owner, disk, object, inside, termed, heard, held>>

\* SIGKILL has not helped for ten seconds: the cgroup stays.
KillTasksGivesUp(f) ==
  /\ pc[f] = "tasks" /\ group = f /\ \E g \in Flashers : InGroup(g)
  /\ held' = [held EXCEPT ![f] = TRUE]
  /\ Go(f, "umount")
  /\ UNCHANGED <<owner, group, disk, object, tasks, heard>>

\* umount_img; forcing it does not help, and the last ways, which combine
\* MNT_EXPIRE with other flags, are refused by the kernel.
UmountImage(f) ==
  /\ pc[f] = "umount"
  /\ \/ mounted' = [mounted EXCEPT ![f] = FALSE]
     \/ Uses(f) /\ UNCHANGED mounted
  /\ held' = [held EXCEPT ![f] = @ \/ child[f] = "outside"]
  /\ Go(f, "stopblk")
  /\ UNCHANGED <<owner, group, folder, netblk, out, object, tasks, heard>>

StopNetblk(f) ==
  /\ pc[f] = "stopblk"
  /\ netblk' = [netblk EXCEPT ![f] = IF @ = "none" THEN "none" ELSE "gone"]
  /\ Go(f, "remove")
  /\ UNCHANGED <<owner, group, folder, mounted, out, object, tasks, heard, held>>

RemoveFolder(f) ==
  /\ pc[f] = "remove"
  /\ folder' = [folder EXCEPT ![f] = @ /\ mounted[f]]
  /\ Go(f, "unlock")
  /\ UNCHANGED <<owner, group, mounted, netblk, out, object, tasks, heard, held>>

Release(f) == owner' = IF owner = f THEN Nobody ELSE owner

Unlock(f) ==
  /\ pc[f] = "unlock"
  /\ Release(f) /\ Go(f, "end")
  /\ UNCHANGED <<group, disk, object, tasks, heard, held>>

-----------------------------------------------------------------------------
\* Signals.

\* Mutant: the flasher keeps the signal for itself, and waitpid is resumed.
SignalKept(f) ==
  /\ pc[f] \notin {"end", "crash"} /\ object[f] = "started"
  /\ heard' = [heard EXCEPT ![f] = TRUE]
  /\ UNCHANGED <<pc, owner, group, disk, object, tasks, held>>

\* exit_signal: the script is sent SIGTERM.  A waitpid that is waiting is
\* interrupted, which ends in an exception.  Before the pid is known the signal
\* does nothing.
Signal(f) ==
  /\ pc[f] \notin {"end", "crash"} /\ object[f] = "started"
  /\ heard' = [heard EXCEPT ![f] = TRUE]
  /\ termed' = [termed EXCEPT ![f] = @ \/ script[f] = "run"]
  /\ \/ pc[f] = "wait" /\ Fail(f)
     \/ UNCHANGED pc
  /\ UNCHANGED <<owner, group, disk, object, script, inside, child, held>>

\* The process is gone from one step to the next.
Die(f) ==
  /\ Release(f) /\ Go(f, "crash")
  /\ UNCHANGED <<group, disk, object, tasks, heard, held>>

\* exit_signal follows flasher.script, a null pointer.
SignalCrashes(f) == pc[f] \notin {"end", "crash"} /\ object[f] = "none" /\ Die(f)

\* SIGKILL, when the page is left.
Killed(f) == pc[f] \notin {"end", "crash"} /\ Die(f)

-----------------------------------------------------------------------------
\* The server and the script.

\* The server has its device and writes its answer, in pieces.
NetblkAnswers(f) ==
  /\ netblk[f] = "run" /\ out[f] # "whole"
  /\ out' = [out EXCEPT ![f] = IF @ = "none" THEN "part" ELSE "whole"]
  /\ UNCHANGED <<pc, owner, group, folder, mounted, netblk, object, tasks, heard, held>>

NetblkDies(f) ==
  /\ netblk[f] = "run"
  /\ netblk' = [netblk EXCEPT ![f] = "dead"]
  /\ UNCHANGED <<pc, owner, group, folder, mounted, out, object, tasks, heard, held>>

ScriptForks(f) ==
  /\ script[f] = "run" /\ child[f] = "none"
  /\ child' = [child EXCEPT ![f] = IF inside[f] THEN "inside" ELSE "outside"]
  /\ UNCHANGED <<pc, owner, group, disk, object, script, inside, termed, heard, held>>

ScriptExits(f) ==
  /\ script[f] = "run"
  /\ \E r \in {"ok", "bad"} : script' = [script EXCEPT ![f] = r]
  /\ UNCHANGED <<pc, owner, group, disk, object, inside, child, termed, heard, held>>

ChildExits(f) ==
  /\ child[f] \in {"outside", "inside"}
  /\ child' = [child EXCEPT ![f] = "gone"]
  /\ UNCHANGED <<pc, owner, group, disk, object, script, inside, termed, heard, held>>

SetUp(f) ==
  \/ Lock(f) \/ ChooseFolder(f) \/ RunNetblk(f) \/ WaitNetblk(f) \/ ReadNetblk(f) \/ MountImage(f)
  \/ MakeGroup(f) \/ NewScript(f) \/ Fork(f) \/ StorePid(f) \/ JoinGroup(f) \/ WaitScript(f)

CleanUp(f) ==
  \/ KillScript(f) \/ KillTasks(f) \/ KillTasksGivesUp(f) \/ UmountImage(f) \/ StopNetblk(f)
  \/ RemoveFolder(f) \/ Unlock(f)

Signals(f) == Signal(f) \/ SignalCrashes(f) \/ Killed(f)

Others(f) == NetblkAnswers(f) \/ NetblkDies(f) \/ ScriptForks(f) \/ ScriptExits(f) \/ ChildExits(f)

Next == \E f \in Flashers : SetUp(f) \/ CleanUp(f) \/ Signals(f) \/ Others(f)

Spec == Init /\ [][Next]_vars

\* A flasher goes on, and SIGTERM ends a script.
Terminated(f) == termed[f] /\ ScriptExits(f)
FairSpec ==
  Spec /\ \A f \in Flashers : WF_vars(SetUp(f) \/ CleanUp(f)) /\ WF_vars(Terminated(f))

-----------------------------------------------------------------------------
\* What must hold.

Typed ==
  /\ pc \in [Flashers -> Places]
  /\ owner \in Flashers \cup {Nobody} /\ group \in Flashers \cup {Nobody}
  /\ folder \in [Flashers -> BOOLEAN] /\ mounted \in [Flashers -> BOOLEAN]
  /\ netblk \in [Flashers -> {"none", "run", "dead", "gone"}]
  /\ out \in [Flashers -> {"none", "part", "whole"}]
  /\ object \in [Flashers -> {"none", "made", "started"}]
  /\ script \in [Flashers -> {"none", "run", "ok", "bad", "gone"}]
  /\ child \in [Flashers -> {"none", "outside", "inside", "gone"}]
  /\ inside \in [Flashers -> BOOLEAN] /\ termed \in [Flashers -> BOOLEAN]
  /\ heard \in [Flashers -> BOOLEAN] /\ held \in [Flashers -> BOOLEAN]

\* flasher.script is there from the choice of the script to its end.
ScriptKnown(f) ==
  /\ pc[f] \in {"fork", "store"} => object[f] = "made"
  /\ pc[f] \in {"join", "wait"} => object[f] = "started"
  /\ object[f] # "none" => pc[f] \in {"fork", "store", "join", "wait", "kill", "crash"}

\* The variables have their types, and the signal handler finds the script
\* where the flasher's place says so (main.cpp:14, install.cpp:159).
TypeOK == Typed /\ \A f \in Flashers : ScriptKnown(f)

Clean(f) ==
  /\ ~folder[f] /\ ~mounted[f] /\ netblk[f] \in {"none", "gone"}
  /\ script[f] \in {"none", "gone"} /\ child[f] \in {"none", "gone"} /\ group # f

\* What a flasher has set up is there only while it holds the lock, so the next
\* one finds nothing of it: only a flasher that died, or one that left a process
\* it could not stop, leaves anything (install.cpp:190-204, cleanup.cpp:36-70).
LockCoversWork ==
  \A f \in Flashers : owner # f /\ pc[f] # "crash" => Clean(f) \/ held[f]

\* While the script or what it started in the cgroup runs, the image stays
\* mounted and its server is not stopped, however the flasher fails or is
\* signalled (the order of cleanup.cpp:36-70).
ImageServed ==
  \A f \in Flashers :
    /\ pc[f] # "crash" /\ ~held[f]
    /\ script[f] = "run" \/ child[f] = "inside"
    => mounted[f] /\ netblk[f] # "gone"

\* A flasher's steps touch no process of another's installation, though the
\* cgroup has one name for all of them (install.cpp:183, cgroup.cpp:54).
OthersUntouched ==
  [][\A f, g \in Flashers :
       f # g /\ pc'[f] # pc[f] => script'[g] = script[g] /\ child'[g] = child[g]]_vars

\* A cancel that found the script started ends the flasher (main.cpp:12-16).
CancelEnds == \A f \in Flashers : heard[f] ~> pc[f] \in {"end", "crash"}
=============================================================================
