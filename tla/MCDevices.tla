----------------------------- MODULE MCDevices -----------------------------
(***************************************************************************)
(* netblk_implement::choose takes one driver for the device of the server: *)
(* here the userspace block device or FUSE (the network block device is    *)
(* NbdServer).  One behaviour uses one of them.                            *)
(***************************************************************************)
EXTENDS Integers, Sequences

CONSTANTS Tags, Kinds, Writable, Users, Reads, Nobody

\* The server's own request of the file is none of its users'.
ASSUME DeviceAssumption == "main" \notin Users

VARIABLES driver,
  kst, kkind, kans, armed, cq, disk, sq, result, buf, state, old, count, queue,
  main, unset,
  sess, serving, se, exited, mounted, listed, mutex, loopdev, told, server,
  named, req, reads, pending, missed

U == INSTANCE UblkQueue
F == INSTANCE FuseServer WITH main <- server

ublkVars == <<kst, kkind, kans, armed, cq, disk, sq, result, buf, state, old, count,
  queue, main, unset>>
fuseVars == <<sess, serving, se, exited, mounted, listed, mutex, loopdev, told, server,
  named, req, reads, pending, missed>>
vars == <<driver, ublkVars, fuseVars>>

Init == driver \in {"ublk", "fuse3"} /\ U!Init /\ F!Init

Ublk(A) == driver = "ublk" /\ A /\ UNCHANGED <<driver, fuseVars>>
Fuse(A) == driver = "fuse3" /\ A /\ UNCHANGED <<driver, ublkVars>>

Next == Ublk(U!Next) \/ Fuse(F!Next)

Spec ==
  /\ Init /\ [][Next]_vars
  /\ WF_vars(Ublk(U!Queue)) /\ WF_vars(Ublk(U!Main)) /\ WF_vars(Ublk(U!Kernel))
  /\ WF_vars(Fuse(F!Session)) /\ WF_vars(Fuse(F!Main))
  /\ \A u \in Users : WF_vars(Fuse(F!CloseLoop(u)))

\* The properties of the two drivers, stated in their modules: a disk whose
\* requests and whose destruction end; a loop device on a file that is served,
\* and a server that starts, answers and stops.
ImplementsDisk == U!ImplementsDisk
LoopHasFile == F!LoopHasFile
DevicesEnd == (driver = "ublk" => U!QueueEnds) /\ (driver = "fuse3" => F!ServerEnds)
=============================================================================
