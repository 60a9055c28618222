----------------------------- MODULE NetblkDisk -----------------------------
(***************************************************************************)
(* What netblk_backend::do_read (src/netblk/internal.h, netblk.cpp)        *)
(* promises to the thread of a block device that calls it: one answer per  *)
(* request, an error or the bytes of the image that the request covers.    *)
(* How the bytes are obtained, kept or dropped does not show.              *)
(***************************************************************************)
EXTENDS Integers

CONSTANTS Clients,   \* threads that read
          Extent,    \* bytes of the image
          Asked      \* the reads they may issue, [off, len]

VARIABLES st,    \* per client: idle, pending or done
          asked, \* per client: the read being served
          ans    \* per client: [ret, good], length (-1: error) and "is the image"

diskVars == <<st, asked, ans>>

Nothing == [off |-> 0, len |-> 0]
Blank == [ret |-> 0, good |-> TRUE]
Error == [ret |-> -1, good |-> TRUE]

Inside(r) == IF r.off >= Extent THEN 0
             ELSE IF r.off + r.len <= Extent THEN r.len ELSE Extent - r.off

DiskInit ==
  /\ st = [c \in Clients |-> "idle"]
  /\ asked = [c \in Clients |-> Nothing]
  /\ ans = [c \in Clients |-> Blank]

Ask(c) ==
  /\ st[c] = "idle"
  /\ st' = [st EXCEPT ![c] = "pending"]
  /\ \E r \in Asked : asked' = [asked EXCEPT ![c] = r]
  /\ UNCHANGED ans

Answer(c) ==
  /\ st[c] = "pending"
  /\ st' = [st EXCEPT ![c] = "done"]
  /\ \E a \in {Error, [ret |-> Inside(asked[c]), good |-> TRUE]} : ans' = [ans EXCEPT ![c] = a]
  /\ UNCHANGED asked

Take(c) ==
  /\ st[c] = "done"
  /\ st' = [st EXCEPT ![c] = "idle"]
  /\ asked' = [asked EXCEPT ![c] = Nothing]
  /\ ans' = [ans EXCEPT ![c] = Blank]

DiskNext == \E c \in Clients : Ask(c) \/ Answer(c) \/ Take(c)

DiskSpec == DiskInit /\ [][DiskNext]_diskVars
=============================================================================
