------------------------------ MODULE JobPool ------------------------------
(***************************************************************************)
(* What worker_add (src/lib/worker.cpp) promises its callers: every        *)
(* function handed over runs once, they start in the order they were       *)
(* handed over, and no more of them run at once than there may be workers. *)
(***************************************************************************)
EXTENDS Naturals, Sequences

CONSTANTS Tasks,  \* what may be handed over, each at most once
          Slots   \* as many as may run at once

VARIABLES line,     \* handed over and not started, oldest first
          active,   \* running
          finished  \* have run

poolVars == <<line, active, finished>>

PoolInit == line = <<>> /\ active = {} /\ finished = {}

\* The functions of S can run at once, each in a slot of its own.
Fits(S) == \E f \in [S -> Slots] : \A x, y \in S : f[x] = f[y] => x = y

Accept(j) ==
  /\ j \notin active \cup finished
  /\ \A i \in 1 .. Len(line) : line[i] # j
  /\ line' = Append(line, j)
  /\ UNCHANGED <<active, finished>>

Start ==
  /\ line # <<>> /\ Fits(active \cup {Head(line)})
  /\ active' = active \cup {Head(line)}
  /\ line' = Tail(line)
  /\ UNCHANGED finished

Complete(j) ==
  /\ j \in active
  /\ active' = active \ {j} /\ finished' = finished \cup {j}
  /\ UNCHANGED line

PoolNext == Start \/ \E j \in Tasks : Accept(j) \/ Complete(j)

PoolSpec == PoolInit /\ [][PoolNext]_poolVars
=============================================================================
