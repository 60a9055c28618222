---------------------------- MODULE WlanClient ----------------------------
(***************************************************************************)
(* The client of one wpa_supplicant (src/src/network/wlan): commands and   *)
(* unasked events share one datagram socket.  A command is sent and its    *)
(* reply awaited under `lock`; the event loop's handler reads the socket,  *)
(* tells events from replies, gathers replies in `buffer` and releases a   *)
(* binary semaphore the command waits for, without a limit.  The client is *)
(* opened by a function of the worker pool, which may have to start the    *)
(* supplicant first, and used by others once that function has returned.   *)
(***************************************************************************)
EXTENDS Integers, Sequences

CONSTANTS Opener,        \* the thread that opens the client
          Users,         \* the threads that use it afterwards
          MaxCommands,   \* how many commands one of them sends
          MaxEvents,     \* how many events the supplicant sends
          Free           \* no thread: `lock` when nobody holds it

VARIABLES
  client,     \* "new", "starting", "attach", "open" or "closed"
  file, up,   \* the control socket's file exists; the supplicant runs
  attached,   \* the supplicant has seen ATTACH: it sends events
  polling,    \* poll_id > 0: the handler is in the event loop
  requests,   \* datagrams on their way to the supplicant
  wire,       \* datagrams on their way to the client
  told,       \* events the supplicant has sent
  pc,         \* what a thread does in exec
  count,      \* commands a thread has begun
  lock,
  buffer,     \* the replies handle_data has put together
  permits,    \* sem
  answer      \* what exec returned to a thread, last

vars == <<client, file, up, attached, polling, requests, wire, told, pc, count, lock,
  buffer, permits, answer>>

Threads == {Opener} \cup Users

\* A command and its reply are <<thread, number>>; these two are nobody's.
Event == <<Free, 0>>
Detach == <<Free, 1>>

Init ==
  /\ client = "new" /\ up \in BOOLEAN /\ file \in BOOLEAN /\ (up => file)
  /\ attached = FALSE /\ polling = FALSE
  /\ requests = <<>> /\ wire = <<>> /\ told = 0
  /\ pc = [t \in Threads |-> "idle"] /\ count = [t \in Threads |-> 0]
  /\ lock = Free /\ buffer = <<>> /\ permits = 0
  /\ answer = [t \in Threads |-> <<>>]

-----------------------------------------------------------------------------
(* Opening.  A file without a supplicant behind it is taken for one that   *)
(* runs: nothing is started and connect fails.                             *)

StartSupplicant ==
  /\ client = "new" /\ ~file
  /\ client' = "starting"
  /\ UNCHANGED <<file, up, attached, polling, requests, wire, told, pc, count, lock,
       buffer, permits, answer>>

Started ==
  /\ client = "starting" /\ ~file
  /\ file' = TRUE /\ up' = TRUE
  /\ UNCHANGED <<client, attached, polling, requests, wire, told, pc, count, lock,
       buffer, permits, answer>>

GivesUp ==
  /\ client = "starting" /\ ~file
  /\ client' = "closed"
  /\ UNCHANGED <<file, up, attached, polling, requests, wire, told, pc, count, lock,
       buffer, permits, answer>>

Connect ==
  /\ client \in {"new", "starting"} /\ file
  /\ IF up
     THEN /\ client' = "attach" /\ polling' = TRUE
          /\ pc' = [pc EXCEPT ![Opener] = "want"]
          /\ count' = [count EXCEPT ![Opener] = 1]
     ELSE client' = "closed" /\ UNCHANGED <<polling, pc, count>>
  /\ UNCHANGED <<file, up, attached, requests, wire, told, lock, buffer, permits, answer>>

\* run("ATTACH") returned or threw.
Attached ==
  /\ client = "attach" /\ pc[Opener] \in {"done", "failed"}
  /\ client' = IF pc[Opener] = "done" THEN "open" ELSE "closed"
  /\ polling' = (polling /\ client' = "open")
  /\ UNCHANGED <<file, up, attached, requests, wire, told, pc, count, lock, buffer,
       permits, answer>>

\* The last reference goes: nobody is in exec.  DETACH is not waited for.
Close ==
  /\ client = "open" /\ \A t \in Threads : pc[t] \in {"idle", "done", "failed"}
  /\ client' = "closed" /\ polling' = FALSE
  /\ requests' = IF up THEN Append(requests, Detach) ELSE requests
  /\ UNCHANGED <<file, up, attached, wire, told, pc, count, lock, buffer, permits, answer>>

-----------------------------------------------------------------------------
(* exec.                                                                   *)

Want(t) ==
  /\ client = "open" /\ pc[t] \in {"idle", "done", "failed"} /\ count[t] < MaxCommands
  /\ pc' = [pc EXCEPT ![t] = "want"]
  /\ count' = [count EXCEPT ![t] = @ + 1]
  /\ UNCHANGED <<client, file, up, attached, polling, requests, wire, told, lock, buffer,
       permits, answer>>

\* Mutant: send and recv each take `lock`, exec does not.
HoldNothing(t) == UNCHANGED lock

\* std::lock_guard, until exec returns.
Hold(t) == lock' = t

\* send_ fails when the supplicant is gone, recv_ when the handler is.
Send(t) ==
  /\ pc[t] = "want" /\ lock = Free
  /\ requests' = IF up THEN Append(requests, <<t, count[t]>>) ELSE requests
  /\ IF up /\ polling
     THEN pc' = [pc EXCEPT ![t] = "wait"] /\ Hold(t)
     ELSE pc' = [pc EXCEPT ![t] = "failed"] /\ UNCHANGED lock
  /\ UNCHANGED <<client, file, up, attached, polling, wire, told, count, buffer, permits,
       answer>>

Acquire(t) ==
  /\ pc[t] = "wait" /\ permits > 0
  /\ permits' = permits - 1
  /\ pc' = [pc EXCEPT ![t] = "take"]
  /\ UNCHANGED <<client, file, up, attached, polling, requests, wire, told, count, lock,
       buffer, answer>>

Take(t) ==
  /\ pc[t] = "take"
  /\ answer' = [answer EXCEPT ![t] = buffer]
  /\ buffer' = <<>>
  /\ pc' = [pc EXCEPT ![t] = "done"]
  /\ lock' = Free
  /\ UNCHANGED <<client, file, up, attached, polling, requests, wire, told, count, permits>>

-----------------------------------------------------------------------------
(* The event loop's thread: one datagram of on_event.  What listeners do   *)
(* with an event is WlanList's.                                            *)

HandleData(d) == buffer' = Append(buffer, d) /\ permits' = permits + 1

ReadEvent ==
  /\ polling /\ wire # <<>>
  /\ wire' = Tail(wire)
  /\ IF Head(wire) = Event THEN UNCHANGED <<buffer, permits>> ELSE HandleData(Head(wire))
  /\ UNCHANGED <<client, file, up, attached, polling, requests, told, pc, count, lock,
       answer>>

\* recv fails: the handler is taken out, and nobody tells who waits.
ReadFails ==
  /\ polling
  /\ polling' = FALSE
  /\ UNCHANGED <<client, file, up, attached, requests, wire, told, pc, count, lock, buffer,
       permits, answer>>

-----------------------------------------------------------------------------
(* The supplicant, as the code uses it: one reply for each command, in     *)
(* order, and events once it has seen ATTACH.  It may die.                 *)

Reply ==
  /\ up /\ requests # <<>>
  /\ requests' = Tail(requests)
  /\ wire' = Append(wire, Head(requests))
  /\ attached' = (Head(requests) # Detach)
  /\ UNCHANGED <<client, file, up, polling, told, pc, count, lock, buffer, permits, answer>>

SendEvent ==
  /\ up /\ attached /\ told < MaxEvents
  /\ told' = told + 1
  /\ wire' = Append(wire, Event)
  /\ UNCHANGED <<client, file, up, attached, polling, requests, pc, count, lock, buffer,
       permits, answer>>

Die ==
  /\ up
  /\ up' = FALSE /\ requests' = <<>>
  /\ UNCHANGED <<client, file, attached, polling, wire, told, pc, count, lock, buffer,
       permits, answer>>

Exec(t) == Send(t) \/ Acquire(t) \/ Take(t)
Opening == StartSupplicant \/ Connect \/ Attached

Next ==
  \/ Opening \/ Started \/ GivesUp \/ Close
  \/ \E t \in Users : Want(t)
  \/ \E t \in Threads : Exec(t)
  \/ ReadEvent \/ ReadFails \/ Reply \/ SendEvent \/ Die

Spec == Init /\ [][Next]_vars

-----------------------------------------------------------------------------
(* What is checked.                                                        *)

\* exec returns the reply to its own command, alone and whole: replies carry
\* nothing that names their command, so only `lock` and the order of the
\* datagrams keep one thread from the reply of another, and the semaphore is
\* never released twice in a row, which std::binary_semaphore does not allow.
RepliesAreOwn ==
  /\ permits \in {0, 1}
  /\ \A t \in Threads : pc[t] = "done" => answer[t] = <<<<t, count[t]>>>>

\* A command ends: with its reply, or with an exception, unless the supplicant
\* dies or the handler goes while somebody waits, when it waits, and everybody
\* behind `lock` with it, for ever.
CommandsEnd ==
  \A t \in Threads :
    pc[t] = "want" ~> pc[t] \in {"done", "failed"} \/ ~up \/ ~polling
=============================================================================
