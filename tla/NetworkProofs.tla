-------------------------- MODULE NetworkProofs --------------------------
(***************************************************************************)
(* What holds of a client with any number of threads, commands and events. *)
(* The inductive invariant says where the one command under way may be: in *)
(* none of the four places a datagram passes, or in exactly one of them.   *)
(***************************************************************************)
EXTENDS MCNetwork, SequenceTheorems, FiniteSetTheorems, WellFoundedInduction, TLAPS

Datagrams == (Client!Threads \cup {Free}) \X Nat

ClientTypes ==
  /\ client \in {"new", "starting", "attach", "open", "closed"}
  /\ polling \in BOOLEAN /\ permits \in {0, 1} /\ lock \in Client!Threads \cup {Free}
  /\ requests \in Seq(Datagrams) /\ wire \in Seq(Datagrams) /\ buffer \in Seq(Datagrams)
  /\ pc \in [Client!Threads -> {"idle", "want", "wait", "take", "done", "failed"}]
  /\ count \in [Client!Threads -> Nat]
  /\ answer \in [Client!Threads -> Seq(Datagrams)]

\* Who waits for a reply, or takes it, has `lock`.
Locked == \A t \in Client!Threads : pc[t] \in {"wait", "take"} <=> lock = t

\* Nothing has been sent before the client is connected.
Unused ==
  client \in {"new", "starting"} =>
    /\ ~polling /\ ~attached /\ lock = Free /\ requests = <<>> /\ wire = <<>>
    /\ \A t \in Client!Threads : pc[t] = "idle"

Own(t) == <<t, count[t]>>
OnlyEvents(s) == \A i \in DOMAIN s : s[i] = Client!Event
OneReply(s, d) == \E i \in DOMAIN s : s[i] = d /\ \A j \in DOMAIN s : j # i => s[j] = Client!Event
Quiet == requests = <<>> /\ OnlyEvents(wire)

\* Nothing is gathered for a thread that does not wait.  While the handler
\* polls, a command or its reply is in one place; without it nothing is read.
Idle == buffer = <<>> /\ permits = 0
Underway(t) ==
  \/ Quiet
  \/ requests = <<Own(t)>> /\ OnlyEvents(wire)
  \/ requests = <<>> /\ OneReply(wire, Own(t))
Flow ==
  /\ lock = Free => Idle /\ (polling => Quiet)
  /\ \A t \in Client!Threads :
       /\ pc[t] = "take" => buffer = <<Own(t)>> /\ permits = 0 /\ (polling => Quiet)
       /\ pc[t] = "wait" =>
            \/ buffer = <<Own(t)>> /\ permits = 1 /\ (polling => Quiet)
            \/ Idle /\ (polling => Underway(t))

Answered == \A t \in Client!Threads : pc[t] = "done" => answer[t] = <<Own(t)>>

ClientInv == ClientTypes /\ Locked /\ Unused /\ Flow /\ Answered

-----------------------------------------------------------------------------
(* What one part does, the others' state does not see.                     *)

LEMMA StepOfPart ==
  [Next]_vars =>
    /\ [Client!Next]_(Client!vars) /\ [List!Next]_(List!vars) /\ [Conn!Next]_(Conn!vars)
    /\ [Wired!Next]_(Wired!vars) /\ [Page!Next]_(Page!vars) /\ [Proxy!Next]_(Proxy!vars)
    /\ [Air!Next]_(Air!vars) /\ [Kernel!Next]_(Kernel!vars)
<1> USE DEF vars, InClient, InList, InConn, InWired, InKernel, InPage, InProxy, InAir, lookVars,
  clientVars, listVars, connVars, wiredVars, kernelVars, pageVars, proxyVars, airVars
<1>1. [Next]_vars => [Client!Next]_(Client!vars)
  BY DEF Next, Client!vars
<1>2. [Next]_vars => [List!Next]_(List!vars)
  BY DEF Next, List!vars
<1>3. [Next]_vars => [Conn!Next]_(Conn!vars)
  BY DEF Next, Conn!vars
<1>4. [Next]_vars => [Wired!Next]_(Wired!vars)
  BY DEF Next, Wired!vars
<1>5. [Next]_vars => [Page!Next]_(Page!vars)
  BY DEF Next, Page!vars
<1>6. [Next]_vars => [Proxy!Next]_(Proxy!vars)
  BY DEF Next, Proxy!vars
<1>7. [Next]_vars => [Air!Next]_(Air!vars)
  BY DEF Next, Air!vars
<1>8. [Next]_vars => [Kernel!Next]_(Kernel!vars)
  BY DEF Next, Kernel!vars
<1> QED BY <1>1, <1>2, <1>3, <1>4, <1>5, <1>6, <1>7, <1>8

LEMMA FreeIsNone == Free \notin Client!Threads
<1> QED BY NetworkAssumption DEF Client!Threads

-----------------------------------------------------------------------------
(* Sequences, as the socket uses them.                                     *)

LEMMA AppendEvent ==
  ASSUME NEW D, NEW s \in Seq(D), NEW d \in D, Client!Event \in D
  PROVE  /\ OnlyEvents(s) => OnlyEvents(Append(s, Client!Event))
         /\ OneReply(s, d) => OneReply(Append(s, Client!Event), d)
         /\ OnlyEvents(s) => OneReply(Append(s, d), d)
<1>1. ASSUME NEW e \in D
      PROVE  /\ DOMAIN Append(s, e) = 1 .. Len(s) + 1 /\ Append(s, e)[Len(s) + 1] = e
             /\ Len(s) \in Nat /\ DOMAIN s = 1 .. Len(s)
             /\ \A i \in 1 .. Len(s) : Append(s, e)[i] = s[i]
  OBVIOUS
<1>2. OnlyEvents(s) => OnlyEvents(Append(s, Client!Event))
  BY <1>1 DEF OnlyEvents
<1>3. OneReply(s, d) => OneReply(Append(s, Client!Event), d)
  BY <1>1 DEF OneReply
<1>4. OnlyEvents(s) => OneReply(Append(s, d), d)
  BY <1>1 DEF OnlyEvents, OneReply
<1> QED BY <1>2, <1>3, <1>4

LEMMA TailEvent ==
  ASSUME NEW D, NEW s \in Seq(D), s # <<>>, NEW d, d # Client!Event
  PROVE  /\ OnlyEvents(s) => OnlyEvents(Tail(s)) /\ Head(s) = Client!Event
         /\ OneReply(s, d) /\ Head(s) = Client!Event => OneReply(Tail(s), d)
         /\ OneReply(s, d) /\ Head(s) # Client!Event => Head(s) = d /\ OnlyEvents(Tail(s))
<1>1. /\ Len(s) \in Nat \ {0} /\ DOMAIN s = 1 .. Len(s) /\ Head(s) = s[1]
      /\ Tail(s) \in Seq(D) /\ DOMAIN Tail(s) = 1 .. Len(s) - 1
      /\ \A i \in 1 .. Len(s) - 1 : Tail(s)[i] = s[i + 1]
  OBVIOUS
<1>2. OnlyEvents(s) => OnlyEvents(Tail(s)) /\ Head(s) = Client!Event
  BY <1>1 DEF OnlyEvents
<1>3. ASSUME OneReply(s, d), Head(s) = Client!Event PROVE OneReply(Tail(s), d)
  <2>1. PICK i \in DOMAIN s : s[i] = d /\ \A j \in DOMAIN s : j # i => s[j] = Client!Event
    BY <1>3 DEF OneReply
  <2>2. i # 1
    BY <1>1, <1>3, <2>1
  <2>3. i - 1 \in DOMAIN Tail(s) /\ Tail(s)[i - 1] = d
    BY <1>1, <2>1, <2>2
  <2>4. ASSUME NEW j \in DOMAIN Tail(s), j # i - 1 PROVE Tail(s)[j] = Client!Event
    BY <1>1, <2>1, <2>4
  <2> QED BY <2>3, <2>4 DEF OneReply
<1>4. ASSUME OneReply(s, d), Head(s) # Client!Event PROVE Head(s) = d /\ OnlyEvents(Tail(s))
  <2>1. PICK i \in DOMAIN s : s[i] = d /\ \A j \in DOMAIN s : j # i => s[j] = Client!Event
    BY <1>4 DEF OneReply
  <2>2. i = 1
    BY <1>1, <1>4, <2>1
  <2>3. ASSUME NEW j \in DOMAIN Tail(s) PROVE Tail(s)[j] = Client!Event
    BY <1>1, <2>1, <2>2, <2>3
  <2> QED BY <1>1, <2>1, <2>2, <2>3 DEF OnlyEvents
<1> QED BY <1>2, <1>3, <1>4

-----------------------------------------------------------------------------
(* The invariant.                                                          *)

LEMMA ClientInit == Client!Init => ClientInv
<1> SUFFICES ASSUME Client!Init PROVE ClientInv
  OBVIOUS
<1> USE FreeIsNone DEF Client!Init
<1>1. ClientTypes
  <2>1. <<>> \in Seq(Datagrams)
    OBVIOUS
  <2> QED BY <2>1 DEF ClientTypes
<1>2. Locked /\ Unused /\ Answered
  BY DEF Locked, Unused, Answered
<1>3. Flow
  BY DEF Flow, Idle, Quiet, OnlyEvents
<1> QED BY <1>1, <1>2, <1>3 DEF ClientInv

\* Opening and closing.
LEMMA ClientOpens ==
  ASSUME ClientInv,
         Client!StartSupplicant \/ Client!Started \/ Client!GivesUp \/ Client!Connect \/ Client!Attached \/ Client!Close
  PROVE  ClientInv'
<1> USE FreeIsNone DEF ClientInv, ClientTypes, Locked, Unused, Answered, Flow, Idle, Quiet, Underway,
            OnlyEvents, OneReply, Own, Client!Threads
<1>1. CASE Client!StartSupplicant \/ Client!Started \/ Client!GivesUp
  BY <1>1 DEF Client!StartSupplicant, Client!Started, Client!GivesUp
<1>2. CASE Client!Connect
  <2>5. polling' \in BOOLEAN
    BY <1>2 DEF Client!Connect
  <2>6. pc' \in [Client!Threads -> {"idle", "want", "wait", "take", "done", "failed"}]
        /\ count' \in [Client!Threads -> Nat]
    BY <1>2 DEF Client!Connect
  <2>1. ClientTypes'
    BY <1>2, <2>5, <2>6 DEF Client!Connect
  <2>4. Unused'
    BY <1>2 DEF Client!Connect
  <2>2. Locked' /\ Answered'
    BY <1>2 DEF Client!Connect
  <2>3. Flow'
    BY <1>2 DEF Client!Connect
  <2> QED BY <2>1, <2>2, <2>3, <2>4
<1>3. CASE Client!Attached
  <2>1. polling' => polling
    BY <1>3 DEF Client!Attached
  <2> QED BY <1>3, <2>1 DEF Client!Attached
<1>4. CASE Client!Close
  <2>1. Client!Detach \in Datagrams
    BY DEF Client!Detach, Datagrams
  <2>2. requests' \in Seq(Datagrams)
    BY <1>4, <2>1 DEF Client!Close
  <2>5. ClientTypes' /\ Unused'
    BY <1>4, <2>2 DEF Client!Close
  <2>3. Locked' /\ Answered'
    BY <1>4 DEF Client!Close
  <2>4. Flow'
    BY <1>4 DEF Client!Close
  <2> QED BY <2>3, <2>4, <2>5
<1> QED BY <1>1, <1>2, <1>3, <1>4

\* exec: what a thread does.
LEMMA ClientExecs ==
  ASSUME ClientInv, NEW t \in Client!Threads, Client!Want(t) \/ Client!Exec(t)
  PROVE  ClientInv'
<1> USE FreeIsNone DEF ClientInv
<1>1. CASE Client!Want(t)
  <2> USE <1>1 DEF Client!Want
  <2>1. ClientTypes'
    BY DEF ClientTypes
  <2>2. Locked' /\ Unused' /\ Answered'
    BY DEF ClientTypes, Locked, Unused, Answered, Own
  <2>3. \A u \in Client!Threads : pc'[u] \in {"wait", "take"} => pc'[u] = pc[u] /\ Own(u)' = Own(u)
    BY DEF ClientTypes, Own
  <2>4. Flow'
    BY <2>3 DEF Flow, Idle, Quiet, Underway
  <2> QED BY <2>1, <2>2, <2>4
<1>2. CASE Client!Send(t)
  <2> USE <1>2 DEF Client!Send, Client!Hold
  <2>1. Own(t) \in Datagrams /\ Own(t)' = Own(t)
    BY DEF ClientTypes, Own, Datagrams
  <2>6. requests' = IF up THEN Append(requests, Own(t)) ELSE requests
    BY DEF Own
  <2>7. \A d \in Datagrams : Append(requests, d) \in Seq(Datagrams) /\ Append(<<>>, d) = <<d>>
    BY DEF ClientTypes
  <2>2. requests' \in Seq(Datagrams) /\ (requests = <<>> /\ up => requests' = <<Own(t)>>)
    <3> HIDE <1>2 DEF Own
    <3> QED BY <2>1, <2>6, <2>7 DEF ClientTypes
  <2>3. ClientTypes'
    BY <2>2 DEF ClientTypes
  <2>4. Locked' /\ Unused' /\ Answered'
    BY DEF ClientTypes, Locked, Unused, Answered, Own
  <2>5. Flow'
    BY <2>1, <2>2 DEF ClientTypes, Locked, Flow, Idle, Quiet, Underway, Own
  <2> QED BY <2>3, <2>4, <2>5
<1>3. CASE Client!Acquire(t)
  <2> USE <1>3 DEF Client!Acquire
  <2>1. buffer = <<Own(t)>> /\ permits = 1 /\ (polling => Quiet)
    BY DEF Flow, Idle
  <2>2. ClientTypes'
    BY <2>1 DEF ClientTypes
  <2>3. Locked' /\ Unused' /\ Answered'
    BY DEF ClientTypes, Locked, Unused, Answered, Own
  <2>4. Flow'
    BY <2>1 DEF ClientTypes, Locked, Flow, Idle, Quiet, Underway, Own
  <2> QED BY <2>2, <2>3, <2>4
<1>4. CASE Client!Take(t)
  <2> USE <1>4 DEF Client!Take
  <2>1. buffer = <<Own(t)>> /\ permits = 0 /\ (polling => Quiet)
    BY DEF Flow
  <2>2. ClientTypes'
    BY DEF ClientTypes
  <2>3. Locked' /\ Unused' /\ Answered'
    BY <2>1 DEF ClientTypes, Locked, Unused, Answered, Own
  <2>4. Flow'
    BY <2>1 DEF ClientTypes, Locked, Flow, Idle, Quiet, Own
  <2> QED BY <2>2, <2>3, <2>4
<1> QED BY <1>1, <1>2, <1>3, <1>4 DEF Client!Exec

\* The event loop's thread.
LEMMA ClientReads ==
  ASSUME ClientInv, Client!ReadEvent \/ Client!ReadFails
  PROVE  ClientInv'
<1> USE FreeIsNone DEF ClientInv
<1>1. CASE Client!ReadEvent
  <2> USE <1>1 DEF Client!ReadEvent
  <2>1. wire' \in Seq(Datagrams) /\ Head(wire) \in Datagrams
    BY DEF ClientTypes
  <2>2. \A t \in Client!Threads : Own(t) # Client!Event /\ Own(t) \in Datagrams /\ Own(t)' = Own(t)
    BY DEF ClientTypes, Own, Client!Event, Datagrams
  <2>3. Unused' /\ Locked' /\ Answered'
    BY DEF ClientTypes, Locked, Unused, Answered, Own
  <2>4. CASE Head(wire) = Client!Event
    <3>1. ClientTypes'
      BY <2>1, <2>4 DEF ClientTypes
    <3>2. OnlyEvents(wire) => OnlyEvents(wire')
      BY <2>4 DEF ClientTypes, OnlyEvents
    <3>3. ASSUME NEW t \in Client!Threads PROVE OneReply(wire, Own(t)) => OneReply(wire', Own(t))
      BY <2>2, <2>4, TailEvent DEF ClientTypes
    <3>4. (Quiet => Quiet') /\ \A t \in Client!Threads : Underway(t) => Underway(t)'
      BY <2>2, <3>2, <3>3 DEF Quiet, Underway
    <3>5. Flow'
      BY <2>2, <2>4, <3>4 DEF Flow, Idle
    <3> QED BY <2>3, <3>1, <3>5
  <2>5. CASE Head(wire) # Client!Event
    <3>1. ~Quiet
      BY <2>5, <2>2 DEF ClientTypes, Quiet, OnlyEvents
    <3>2. PICK t \in Client!Threads : pc[t] = "wait" /\ lock = t /\ Idle /\ Underway(t)
      BY <3>1 DEF ClientTypes, Locked, Flow
    <3>3. Head(wire) = Own(t) /\ OnlyEvents(wire') /\ requests = <<>>
      BY <2>2, <2>5, <3>1, <3>2, TailEvent DEF ClientTypes, Underway, Quiet, OnlyEvents
    <3>4. buffer' = <<Own(t)>> /\ permits' = 1
      BY <2>5, <3>2, <3>3 DEF Idle, Client!HandleData
    <3>5. ClientTypes'
      BY <2>1, <2>2, <2>5, <3>4 DEF ClientTypes
    <3>6. Quiet'
      BY <3>3 DEF Quiet
    <3>7. Flow'
      BY <2>2, <3>2, <3>4, <3>6 DEF ClientTypes, Locked, Flow
    <3> QED BY <2>3, <3>5, <3>7
  <2> QED BY <2>4, <2>5
<1>2. CASE Client!ReadFails
  BY <1>2 DEF Client!ReadFails, ClientTypes, Locked, Unused, Answered, Flow, Idle, Own
<1> QED BY <1>1, <1>2

\* The supplicant.
LEMMA SupplicantActs ==
  ASSUME ClientInv, Client!Reply \/ Client!SendEvent \/ Client!Die
  PROVE  ClientInv'
<1> USE FreeIsNone DEF ClientInv
<1>1. Client!Event \in Datagrams /\ \A t \in Client!Threads : Own(t) \in Datagrams
  BY DEF ClientTypes, Own, Client!Event, Datagrams
<1>2. CASE Client!Reply
  <2> USE <1>2 DEF Client!Reply
  <2>1. ClientTypes'
    BY DEF ClientTypes
  <2>2. Locked' /\ Unused' /\ Answered'
    BY DEF ClientTypes, Locked, Unused, Answered, Own
  <2>3. ~Quiet
    BY DEF Quiet
  <2>4. ASSUME NEW t \in Client!Threads, Underway(t) PROVE Underway(t)'
    <3>1. requests = <<Own(t)>> /\ OnlyEvents(wire)
      BY <2>3, <2>4 DEF Underway, Quiet
    <3>2. requests' = <<>> /\ wire' = Append(wire, Own(t)) /\ Own(t)' = Own(t)
      BY <3>1 DEF Own
    <3>3. OneReply(wire', Own(t))
      BY <1>1, <3>1, <3>2, AppendEvent DEF ClientTypes
    <3> QED BY <3>2, <3>3 DEF Underway
  <2>5. Flow'
    BY <2>3, <2>4 DEF Flow, Idle, Own
  <2> QED BY <2>1, <2>2, <2>5
<1>3. CASE Client!SendEvent
  <2> USE <1>3 DEF Client!SendEvent
  <2>1. ClientTypes'
    BY <1>1 DEF ClientTypes
  <2>2. Locked' /\ Unused' /\ Answered'
    BY DEF ClientTypes, Locked, Unused, Answered, Own
  <2>3. Quiet => Quiet'
    BY <1>1, AppendEvent DEF ClientTypes, Quiet
  <2>4. ASSUME NEW t \in Client!Threads, Underway(t) PROVE Underway(t)'
    <3>1. Own(t)' = Own(t)
      BY DEF Own
    <3> QED BY <1>1, <2>3, <2>4, <3>1, AppendEvent DEF ClientTypes, Underway
  <2>5. Flow'
    BY <2>3, <2>4 DEF Flow, Idle, Own
  <2> QED BY <2>1, <2>2, <2>5
<1>4. CASE Client!Die
  <2> USE <1>4 DEF Client!Die
  <2>1. ClientTypes'
    BY DEF ClientTypes
  <2>2. Locked' /\ Unused' /\ Answered'
    BY DEF Locked, Unused, Answered, Own
  <2>3. Quiet => Quiet'
    BY DEF Quiet
  <2>4. ASSUME NEW t \in Client!Threads, Underway(t) PROVE Underway(t)'
    BY <2>4 DEF Underway, Quiet, Own
  <2>5. Flow'
    BY <2>3, <2>4 DEF Flow, Idle, Own
  <2> QED BY <2>1, <2>2, <2>5
<1> QED BY <1>2, <1>3, <1>4

LEMMA ClientNext ==
  ASSUME ClientInv, [Client!Next]_(Client!vars) PROVE ClientInv'
<1>1. CASE UNCHANGED Client!vars
  BY <1>1 DEF Client!vars, ClientInv, ClientTypes, Locked, Unused, Flow, Idle, Quiet, Underway, Own, Answered
<1>2. CASE Client!Opening \/ Client!Started \/ Client!GivesUp \/ Client!Close
  BY <1>2, ClientOpens DEF Client!Opening
<1>3. CASE (\E t \in Users : Client!Want(t)) \/ \E t \in Client!Threads : Client!Exec(t)
  BY <1>3, ClientExecs DEF Client!Threads
<1>4. CASE Client!ReadEvent \/ Client!ReadFails
  BY <1>4, ClientReads
<1>5. CASE Client!Reply \/ Client!SendEvent \/ Client!Die
  BY <1>5, SupplicantActs
<1> QED BY <1>1, <1>2, <1>3, <1>4, <1>5 DEF Client!Next

\* Every thread gets the reply to its own command, alone, and the semaphore is
\* never released twice (client.cpp, poll.cpp): for any number of threads,
\* commands and events, also when the supplicant dies or the handler goes.
THEOREM RepliesFindOwners == Spec => []RepliesAreOwn
<1>1. Init => ClientInv
  BY ClientInit DEF Init
<1>2. ClientInv => RepliesAreOwn
  BY DEF ClientInv, ClientTypes, Answered, Own, RepliesAreOwn, Client!RepliesAreOwn
<1> QED BY <1>1, <1>2, StepOfPart, ClientNext, PTL DEF Spec

-----------------------------------------------------------------------------
(* Null pointers.                                                          *)

\* A scan is between its tests and its end only while the panel is shown, or it
\* was left; the client was there when it began.
ListSafe ==
  /\ DOMAIN scan = Scans
  /\ List!Busy => (wifi \/ listLeft) /\ listClient # "opening"
  /\ listClient \in {"opening", "scan", "ready", "null"}
  /\ List!SafeWhileOpen

LEMMA ListStaysSafe == ListSafe /\ [List!Next]_(List!vars) => ListSafe'
<1> SUFFICES ASSUME ListSafe, [List!Next]_(List!vars) PROVE ListSafe'
  OBVIOUS
<1> USE DEF ListSafe, List!Busy, List!SafeWhileOpen
<1>1. CASE UNCHANGED List!vars
  BY <1>1 DEF List!vars
<1>2. CASE List!ClientOpens
  BY <1>2 DEF List!ClientOpens
<1>3. CASE List!Leave
  <2>1. List!Busy => listLeft'
    BY <1>3 DEF List!Leave
  <2> QED BY <1>3, <2>1 DEF List!Leave
<1>4. CASE List!DrawStatus \/ List!Supplicant
  BY <1>4 DEF List!DrawStatus, List!Supplicant
<1>5. ASSUME NEW s \in Scans, List!Open(s) \/ List!Hears(s) PROVE ListSafe'
  <2>1. /\ UNCHANGED <<listClient, listLeft, listCrashed>> /\ (wifi => wifi')
        /\ scan' = scan \/ scan' = [scan EXCEPT ![s] = "queued"]
    BY <1>5 DEF List!Open, List!Hears, List!QueueScan
  <2>2. DOMAIN scan' = Scans /\ \A u \in Scans : scan'[u] \in {scan[u], "queued"}
    BY <2>1
  <2>3. List!Busy' => List!Busy
    BY <2>2
  <2> HIDE DEF List!Busy
  <2> QED BY <2>1, <2>2, <2>3
<1>6. ASSUME NEW s \in Scans, List!ScanBegins(s) PROVE ListSafe'
  <2>1. UNCHANGED <<listClient, wifi, listLeft, listCrashed>>
    BY <1>6 DEF List!ScanBegins
  <2>2. \/ scan' = [scan EXCEPT ![s] = "idle"]
        \/ wifi /\ List!HaveClient /\ scan' = [scan EXCEPT ![s] = "results"]
    BY <1>6 DEF List!ScanBegins, List!Begins, List!Gone, List!Step
  <2> QED BY <2>1, <2>2 DEF List!HaveClient
<1>7. ASSUME NEW s \in Scans, List!ScanResults(s) \/ List!ScanStatus(s) \/ List!ScanAssigns(s)
      PROVE  ListSafe'
  <2>1. UNCHANGED <<listClient, wifi, listLeft>> /\ List!Busy
    BY <1>7 DEF List!ScanResults, List!ScanStatus, List!ScanAssigns
  <2>2. \/ scan' = scan /\ List!Gone
        \/ listCrashed' = listCrashed /\ \E to \in {"status", "assign", "end"} : scan' = [scan EXCEPT ![s] = to]
    BY <1>7 DEF List!ScanResults, List!ScanStatus, List!ScanAssigns, List!Step, List!Gone
  <2> QED BY <2>1, <2>2 DEF List!Gone, List!HaveClient
<1>8. ASSUME NEW s \in Scans, List!ScanEnds(s) PROVE ListSafe'
  BY <1>8 DEF List!ScanEnds, List!Step
<1> QED BY <1>1, <1>2, <1>3, <1>4, <1>5, <1>6, <1>7, <1>8 DEF List!Next, List!Pool, List!Scanning

Endings == {"connected", "disabled", "late", "early"}
ConnEvents == [n : Int, to : Attempts, ev : Endings, at : {"start", "unlisten"}]

\* What is under way of a connection began while the panel was shown.
ConnSafe ==
  /\ DOMAIN attempt = Attempts
  /\ connJobs \subseteq ConnEvents
  /\ connTold \in Int /\ listeners \subseteq Attempts
  /\ Conn!Busy => conn \/ connLeft
  /\ Conn!SafeWhileOpen

LEMMA ConnStaysSafe == ConnSafe /\ [Conn!Next]_(Conn!vars) => ConnSafe'
<1> SUFFICES ASSUME ConnSafe, [Conn!Next]_(Conn!vars) PROVE ConnSafe'
  OBVIOUS
<1> USE DEF ConnSafe, Conn!Busy, Conn!SafeWhileOpen
<1>1. CASE UNCHANGED Conn!vars
  BY <1>1 DEF Conn!vars
<1>2. CASE Conn!ClientOpens
  <2>1. ~connCrashed
    BY <1>2 DEF Conn!ClientOpens, Conn!Next, Conn!vars
  <2>2. listeners' \subseteq listeners
    BY <1>2 DEF Conn!ClientOpens
  <2> QED BY <1>2, <2>1, <2>2 DEF Conn!ClientOpens
<1>3. CASE Conn!Leave \/ Conn!GoBack
  <2>1. /\ UNCHANGED <<connClient, listeners, attempt, parting, connJobs, connTold, connCrashed>>
        /\ UNCHANGED <<conn, connLeft>> \/ (~conn' /\ connLeft' = (connLeft \/ (conn /\ Conn!Busy)))
    BY <1>3 DEF Conn!Leave, Conn!GoBack, Conn!Hide
  <2>2. Conn!Busy' = Conn!Busy
    BY <2>1
  <2> QED BY <2>1, <2>2
<1>4. CASE Conn!Open \/ Conn!TellFailure
  BY <1>4 DEF Conn!Open, Conn!TellFailure
<1>5. CASE Conn!PressDisconnect \/ Conn!Disconnect
  BY <1>5 DEF Conn!PressDisconnect, Conn!Disconnect
<1>6. ASSUME NEW ev \in Endings, Conn!Tell(ev) PROVE ConnSafe'
  <2>1. /\ UNCHANGED <<connClient, conn, listeners, attempt, parting, connCrashed, connLeft>>
        /\ connTold' = connTold + 1
        /\ connJobs' = connJobs \cup {[n |-> connTold, to |-> a, ev |-> ev, at |-> "start"] : a \in listeners}
    BY <1>6 DEF Conn!Tell
  <2>2. \A j \in connJobs' : j \in connJobs \/ j.to \in listeners
    BY <2>1
  <2>3. connJobs' \subseteq ConnEvents
    BY <2>1 DEF ConnEvents
  <2>4. connTold' \in Int
    BY <2>1
  <2>5. Conn!Busy' => Conn!Busy
    BY <2>1, <2>2
  <2> QED BY <2>1, <2>3, <2>4, <2>5
<1>7. ASSUME NEW a \in Attempts, Conn!PressConnect(a) PROVE ConnSafe'
  BY <1>7 DEF Conn!PressConnect
<1>8. ASSUME NEW a \in Attempts,
             Conn!RemoveOld(a) \/ Conn!CreateNetwork(a) \/ Conn!Select(a) \/ Conn!Listen(a)
      PROVE  ConnSafe'
  <2>1. /\ UNCHANGED <<connClient, conn, parting, connJobs, connTold, connLeft>> /\ Conn!Busy
        /\ listeners' \in {listeners, listeners \cup {a}}
    BY <1>8 DEF Conn!RemoveOld, Conn!CreateNetwork, Conn!Select, Conn!Listen
  <2>2. \/ attempt' = attempt /\ Conn!Gone
        \/ connCrashed' = connCrashed
           /\ \E to \in {"create", "select", "listen", "over"} : attempt' = [attempt EXCEPT ![a] = to]
    BY <1>8 DEF Conn!RemoveOld, Conn!CreateNetwork, Conn!Select, Conn!Listen, Conn!Move, Conn!Gone
  <2> QED BY <2>1, <2>2 DEF Conn!Gone
<1>9. ASSUME NEW a \in Attempts, Conn!Hears(a) PROVE ConnSafe'
  <2>1. PICK j \in connJobs :
          /\ j.to = a /\ j.at = "start"
          /\ IF j.ev = "connected" /\ ~conn
             THEN connCrashed' = TRUE /\ UNCHANGED connJobs
             ELSE /\ UNCHANGED connCrashed
                  /\ \/ connJobs' = connJobs \ {j}
                     \/ connJobs' = (connJobs \ {j}) \cup {[j EXCEPT !.at = "unlisten"]}
          /\ UNCHANGED <<connClient, conn, listeners, attempt, parting, connTold, connLeft>>
    BY <1>9 DEF Conn!Hears
  <2>2. Conn!Busy
    BY <2>1
  <2>3. [j EXCEPT !.at = "unlisten"] \in ConnEvents
    <3>1. j \in ConnEvents
      BY <2>1
    <3> HIDE DEF ConnSafe
    <3> QED BY ONLY <3>1 DEF ConnEvents
  <2>4. connJobs' \subseteq ConnEvents
    BY <2>1, <2>3
  <2> QED BY <2>1, <2>2, <2>4
<1>10. ASSUME NEW a \in Attempts, Conn!Unlisten(a) PROVE ConnSafe'
  BY <1>10 DEF Conn!Unlisten
<1>11. CASE Conn!Supplicant
  <2>1. \E ev \in Endings : Conn!Tell(ev)
    BY <1>11 DEF Conn!Supplicant, Endings
  <2> QED BY <1>6, <2>1
<1> HIDE DEF ConnSafe
<1> QED BY <1>1, <1>2, <1>3, <1>4, <1>5, <1>7, <1>8, <1>9, <1>10, <1>11
  DEF Conn!Next, Conn!Pool, Conn!Ui

\* So did what is under way of a wired device.
WiredSafe == (Wired!Busy => open \/ left) /\ Wired!SafeWhileOpen

LEMMA WiredStaysSafe == WiredSafe /\ [Wired!Next]_(Wired!vars) => WiredSafe'
<1> SUFFICES ASSUME WiredSafe, [Wired!Next]_(Wired!vars) PROVE WiredSafe'
  OBVIOUS
<1> USE DEF WiredSafe, Wired!Busy, Wired!SafeWhileOpen, Wired!panel, Wired!profile
<1>1. CASE UNCHANGED Wired!vars \/ Wired!DrawStatus \/ Wired!LeaveAddress \/ Wired!PressSwitch
  BY <1>1 DEF Wired!vars, Wired!DrawStatus, Wired!LeaveAddress, Wired!PressSwitch
<1>2. CASE Wired!Leave \/ Wired!OpenAddress
  <2>1. left' = (left \/ Wired!Busy) /\ UNCHANGED <<reading, running, crashed>>
    BY <1>2 DEF Wired!Leave, Wired!OpenAddress, Wired!Hide
  <2> QED BY <2>1
<1>3. CASE Wired!Open \/ Wired!Tick \/ Wired!EnableButtons
  BY <1>3 DEF Wired!Open, Wired!Show, Wired!Tick, Wired!EnableButtons, Wired!UpdateStatus
<1>4. CASE (\E p \in Profiles : Wired!Apply(p)) \/ Wired!Reset \/ Wired!Reconfigure \/ Wired!Turned
  BY <1>4 DEF Wired!Apply, Wired!Reset, Wired!Reconfigure, Wired!Turned, Wired!Notify, Wired!Configure
<1>5. CASE Wired!Read \/ Wired!Run
  BY <1>5 DEF Wired!Read, Wired!Run, Wired!ReadFlags, Wired!ReadAddress, Wired!CopyProfile, Wired!RunDhcpcd
<1> QED BY <1>1, <1>2, <1>3, <1>4, <1>5 DEF Wired!Next, Wired!Pool, Wired!Ui

\* Functions of the pool follow a panel's pointers without a lock: a null pointer
\* is followed only when the panel was left, or the client went, under them.
THEOREM PanelsAreSafe == Spec => []SafeWhileOpen
<1>1. Init => ListSafe /\ ConnSafe /\ WiredSafe
  <2>1. Init => ListSafe
    BY DEF Init, List!Init, ListSafe, List!Busy, List!SafeWhileOpen
  <2>2. Init => ConnSafe
    BY DEF Init, Conn!Init, ConnSafe, Conn!Busy, Conn!SafeWhileOpen
  <2>3. Init => WiredSafe
    BY DEF Init, Wired!Init, WiredSafe, Wired!Busy, Wired!SafeWhileOpen
  <2> QED BY <2>1, <2>2, <2>3
<1>2. ListSafe /\ ConnSafe /\ WiredSafe => SafeWhileOpen
  BY DEF ListSafe, ConnSafe, WiredSafe, SafeWhileOpen
<1> QED BY <1>1, <1>2, StepOfPart, ListStaysSafe, ConnStaysSafe, WiredStaysSafe, PTL DEF Spec

-----------------------------------------------------------------------------
(* What is shown.                                                          *)

\* A scan that will read, one that has read and will assign, and an event that
\* nobody has heard of yet.
WillRead == \E s \in Scans : scan[s] \in {"queued", "results", "status"}
ReadNow == \A s \in Scans : scan[s] = "assign" => got[s] = completed
Assigns == \E s \in Scans : scan[s] = "assign"

\* While the panel listens, an event is on its way to it, a scan is going to read,
\* or what has been read is what holds.
ListTypes ==
  /\ scan \in [Scans -> {"idle", "queued", "results", "status", "assign", "end"}]
  /\ got \in [Scans -> BOOLEAN] /\ completed \in BOOLEAN /\ state \in BOOLEAN
  /\ listJobs \in Nat
ListCurrent ==
  /\ listening => List!HaveClient
  /\ listUpdating => \E s \in Scans : scan[s] # "idle"
  /\ wifi => drawing \/ next = state
  /\ wifi /\ listening /\ ~missed =>
       listJobs > 0 \/ WillRead \/ (ReadNow /\ (Assigns \/ state = completed))
ListInv == ListTypes /\ (~listCrashed => ListCurrent)

LEMMA ListFollows == ListInv /\ [List!Next]_(List!vars) => ListInv'
<1> SUFFICES ASSUME ListInv, [List!Next]_(List!vars) PROVE ListInv'
  OBVIOUS
<1> USE DEF ListInv
<1>1. CASE UNCHANGED List!vars
  BY <1>1 DEF List!vars, ListTypes, ListCurrent, List!HaveClient, WillRead, ReadNow, Assigns
<1>2. ASSUME List!Next PROVE ~listCrashed /\ ListTypes /\ ListCurrent
  BY <1>2 DEF List!Next
<1>3. CASE List!ClientOpens /\ ListCurrent
  BY <1>2, <1>3 DEF List!ClientOpens, ListTypes, ListCurrent, List!HaveClient, WillRead, ReadNow, Assigns
<1>4. CASE List!Leave /\ ListCurrent
  BY <1>4 DEF List!Leave, ListTypes, ListCurrent, List!HaveClient
<1>5. CASE List!DrawStatus /\ ListCurrent
  BY <1>5 DEF List!DrawStatus, ListTypes, ListCurrent, List!HaveClient, WillRead, ReadNow, Assigns
<1>6. CASE List!Supplicant /\ ListCurrent
  <2>1. /\ UNCHANGED <<scan, got, state, listUpdating, wifi, listening, drawing, next, listClient, missed>>
        /\ completed' \in BOOLEAN /\ listJobs' = IF listening THEN listJobs + 1 ELSE listJobs
    BY <1>6 DEF List!Supplicant
  <2>2. listJobs' \in Nat /\ (listening => listJobs' > 0)
    BY <2>1 DEF ListTypes
  <2> QED BY <1>6, <2>1, <2>2 DEF ListTypes, ListCurrent, List!HaveClient
<1>7. ASSUME NEW s \in Scans, List!QueueScan(s), UNCHANGED <<got, completed, state, listClient>>,
             listJobs' \in Nat, listening' => List!HaveClient,
             wifi' => drawing' \/ next' = state'
      PROVE  ListInv'
  <2>1. listUpdating' = TRUE /\ scan' = [scan EXCEPT ![s] = "queued"]
    BY <1>7 DEF List!QueueScan
  <2>2. ListTypes' /\ scan'[s] = "queued"
    BY <1>7, <2>1 DEF ListTypes
  <2>3. WillRead' /\ \E u \in Scans : scan'[u] # "idle"
    BY <2>2 DEF WillRead
  <2> QED BY <1>7, <2>2, <2>3 DEF ListCurrent, List!HaveClient
<1>8. ASSUME NEW s \in Scans, List!Open(s), ListCurrent PROVE ListInv'
  <2>1. /\ List!QueueScan(s) /\ UNCHANGED <<got, completed, state, listClient, listJobs>>
        /\ next' = state'
    BY <1>8 DEF List!Open
  <2>2. listening' => List!HaveClient
    BY <1>8 DEF List!Open, ListCurrent
  <2> QED BY <1>7, <2>1, <2>2 DEF ListTypes
<1>9. ASSUME NEW s \in Scans, List!Hears(s), ListCurrent PROVE ListInv'
  <2>1. /\ listJobs' \in Nat
        /\ UNCHANGED <<wifi, listening, got, completed, state, listClient, drawing, next>>
    BY <1>9 DEF List!Hears, ListTypes
  <2>2. CASE listUpdating
    <3>1. /\ UNCHANGED <<scan, listUpdating>>
          /\ missed' = (missed \/ \E u \in Scans : scan[u] \in {"assign", "end"})
      BY <1>9, <2>2 DEF List!Hears
    <3>2. missed' \/ WillRead
      BY <1>9, <2>2, <3>1 DEF ListTypes, ListCurrent, WillRead
    <3>3. (missed' \/ WillRead') /\ ListTypes'
      BY <2>1, <3>1, <3>2 DEF WillRead, ListTypes
    <3> QED BY <1>9, <2>1, <3>1, <3>3 DEF ListCurrent, List!HaveClient
  <2>3. CASE ~listUpdating
    <3>1. List!QueueScan(s)
      BY <1>9, <2>3 DEF List!Hears
    <3> QED BY <1>7, <1>9, <2>1, <3>1 DEF ListCurrent
  <2> QED BY <2>2, <2>3
<1>10. ASSUME NEW s \in Scans, List!Scanning(s), ListCurrent PROVE ListInv'
  <2>1. /\ UNCHANGED <<listClient, wifi, listening, completed, listJobs, next>>
    BY <1>10 DEF List!Scanning, List!ScanBegins, List!ScanResults, List!ScanStatus, List!ScanAssigns,
      List!ScanEnds
  <2>2. CASE List!ScanBegins(s) \/ List!ScanResults(s)
    <3>1. UNCHANGED <<got, state, drawing, missed>>
      BY <2>2 DEF List!ScanBegins, List!ScanResults
    <3>2. \/ listUpdating' = FALSE /\ scan' = [scan EXCEPT ![s] = "idle"] /\ (listening => ~wifi)
          \/ listUpdating' = listUpdating /\ listCrashed' = TRUE /\ scan' = scan
          \/ listUpdating' = listUpdating /\ \E to \in {"results", "status"} : scan' = [scan EXCEPT ![s] = to]
      BY <1>10, <2>2 DEF List!ScanBegins, List!ScanResults, List!Begins, List!Step, List!Gone, ListCurrent
    <3> DEFINE Went(to) == scan' = [scan EXCEPT ![s] = to]
    <3>3. CASE listUpdating' = FALSE /\ Went("idle") /\ (listening => ~wifi)
      BY <1>10, <2>1, <3>1, <3>3 DEF ListTypes, ListCurrent, List!HaveClient
    <3>4. CASE listUpdating' = listUpdating /\ listCrashed' = TRUE /\ scan' = scan
      BY <2>1, <3>1, <3>4 DEF ListTypes
    <3>5. ASSUME NEW to \in {"results", "status"}, listUpdating' = listUpdating, Went(to)
          PROVE  ListInv'
      <4>1. ListTypes' /\ WillRead' /\ \E u \in Scans : scan'[u] # "idle"
        BY <2>1, <3>1, <3>5 DEF ListTypes, WillRead
      <4> QED BY <1>10, <2>1, <3>1, <4>1 DEF ListCurrent, List!HaveClient
    <3> QED BY <3>2, <3>3, <3>4, <3>5
  <2>3. CASE List!ScanStatus(s)
    <3>1. UNCHANGED <<state, drawing, listUpdating>> /\ scan[s] = "status"
      BY <2>3 DEF List!ScanStatus
    <3>2. CASE UNCHANGED <<scan, got>> /\ listCrashed'
      BY <2>1, <3>1, <3>2 DEF ListTypes
    <3>3. CASE scan' = [scan EXCEPT ![s] = "end"] /\ missed' = TRUE /\ got' = got
      <4>1. ListTypes' /\ \E u \in Scans : scan'[u] # "idle"
        BY <2>1, <3>1, <3>3 DEF ListTypes
      <4> QED BY <1>10, <2>1, <3>1, <3>3, <4>1 DEF ListCurrent, List!HaveClient
    <3>4. CASE /\ scan' = [scan EXCEPT ![s] = "assign"] /\ got' = [got EXCEPT ![s] = completed]
               /\ missed' = (\E u \in Scans \ {s} : scan[u] = "assign")
      <4>1. ListTypes' /\ scan'[s] = "assign" /\ got'[s] = completed
            /\ \A u \in Scans \ {s} : scan'[u] = scan[u]
        BY <2>1, <3>1, <3>4 DEF ListTypes
      <4>2. Assigns' /\ (~missed' => ReadNow') /\ \E u \in Scans : scan'[u] # "idle"
        BY <2>1, <3>4, <4>1 DEF Assigns, ReadNow
      <4> QED BY <1>10, <2>1, <3>1, <4>1, <4>2 DEF ListCurrent, List!HaveClient
    <3> QED BY <2>3, <3>2, <3>3, <3>4 DEF List!ScanStatus, List!Step
  <2>4. CASE List!ScanAssigns(s)
    <3>1. UNCHANGED <<got, missed, listUpdating>> /\ scan[s] = "assign"
      BY <2>4 DEF List!ScanAssigns
    <3>2. CASE UNCHANGED <<scan, state>> /\ listCrashed'
      BY <2>1, <3>1, <3>2 DEF ListTypes
    <3>3. CASE scan' = [scan EXCEPT ![s] = "end"] /\ state' = got[s] /\ drawing' = TRUE
      <4>1. ListTypes' /\ scan'[s] = "end" /\ \A u \in Scans \ {s} : scan'[u] = scan[u]
        BY <2>1, <3>1, <3>3 DEF ListTypes
      <4>2. /\ WillRead => WillRead'
            /\ ReadNow => ReadNow' /\ state' = completed
            /\ \E u \in Scans : scan'[u] # "idle"
        BY <2>1, <3>1, <3>3, <4>1 DEF WillRead, ReadNow
      <4> QED BY <1>10, <2>1, <3>1, <3>3, <4>1, <4>2 DEF ListCurrent, List!HaveClient
    <3> QED BY <2>4, <3>2, <3>3 DEF List!ScanAssigns, List!Step
  <2>5. CASE List!ScanEnds(s)
    <3>1. /\ UNCHANGED <<got, missed, state, drawing>> /\ scan[s] = "end"
          /\ listUpdating' = FALSE /\ scan' = [scan EXCEPT ![s] = "idle"]
      BY <2>5 DEF List!ScanEnds, List!Step
    <3>2. ListTypes' /\ scan'[s] = "idle" /\ \A u \in Scans \ {s} : scan'[u] = scan[u]
      BY <2>1, <3>1 DEF ListTypes
    <3>3. (WillRead => WillRead') /\ (ReadNow => ReadNow') /\ (Assigns => Assigns')
      BY <2>1, <3>1, <3>2 DEF WillRead, ReadNow, Assigns
    <3> QED BY <1>10, <2>1, <3>1, <3>2, <3>3 DEF ListCurrent, List!HaveClient
  <2> QED BY <1>10, <2>2, <2>3, <2>4, <2>5 DEF List!Scanning
<1> QED BY <1>1, <1>2, <1>3, <1>4, <1>5, <1>6, <1>8, <1>9, <1>10 DEF List!Next, List!Pool

LEMMA ListIsCurrent == ListInv => List!ShownIsCurrent
<1> QED BY DEF ListInv, ListTypes, ListCurrent, WillRead, ReadNow, Assigns, List!ShownIsCurrent

\* The page is at one of the places the menu leads to, and the way there is the
\* one that was walked.
At(p, d) == [q \in Page!DevicePanels |-> IF q = p THEN d ELSE None]
Place ==
  \/ front = "hello" /\ trail = <<>> /\ dev = At("none", None) /\ ~back
  \/ front = "proxy" /\ trail = << <<"proxy", None>> >> /\ dev = At("none", None) /\ ~back
  \/ \E d \in Page!Devices : /\ front \in {"eth", "wifi"} /\ trail = << <<front, d>> >>
                             /\ dev = At(front, d) /\ ~back
  \/ \E d \in Page!Devices : /\ front = "connect" /\ trail = << <<"wifi", d>>, <<"connect", d>> >>
                             /\ dev = At("connect", d) /\ back
  \/ \E d \in Page!Devices :
       /\ front = "ipconfig" /\ dev = At("ipconfig", d) /\ back
       /\ \/ /\ onBack = <<"eth", d>>
             /\ trail = << <<"eth", d>>, <<"ipconfig", d>> >>
          \/ /\ onBack = <<"connect", d>>
             /\ trail = << <<"wifi", d>>, <<"connect", d>>, <<"ipconfig", d>> >>
PlaceInv == hidden = Page!Panels \ {front} /\ Place /\ back \in BOOLEAN

LEMMA OneMore ==
  ASSUME NEW D, NEW s \in Seq(D), NEW t \in Seq(D),
         Len(t) = Len(s) + 1, \A i \in 1 .. Len(s) : t[i] = s[i]
  PROVE  Append(s, t[Len(t)]) = t /\ Page!Front(t) = s
<1>1. Len(s) \in Nat /\ Len(t) - 1 = Len(s) /\ \A i \in 1 .. Len(t) : t[i] \in D
  BY ElementOfSeq
<1>2. Append(s, t[Len(t)]) = t
  <2> DEFINE u == Append(s, t[Len(t)])
  <2>1. u \in Seq(D) /\ Len(u) = Len(s) + 1 /\ u[Len(s) + 1] = t[Len(t)]
        /\ \A i \in 1 .. Len(s) : u[i] = s[i]
    BY <1>1
  <2> HIDE DEF u
  <2>2. \A i \in 1 .. Len(u) : u[i] = t[i]
    BY <1>1, <2>1
  <2>3. u = t
    BY <1>1, <2>1, <2>2, SeqEqual
  <2> QED BY <2>3 DEF u
<1>3. SubSeq(t, 1, Len(s)) = s
  <2> DEFINE u == SubSeq(t, 1, Len(s))
  <2>1. u \in Seq(D) /\ Len(u) = Len(s) /\ \A i \in 1 .. Len(s) : u[i] = t[i]
    BY <1>1, SubSeqProperties
  <2> HIDE DEF u
  <2>2. u = s
    BY <1>1, <2>1, SeqEqual
  <2> QED BY <2>2 DEF u
<1> QED BY <1>1, <1>2, <1>3 DEF Page!Front

LEMMA Walked ==
  ASSUME NEW a, NEW b, NEW c
  PROVE  /\ Append(<<a>>, b) = <<a, b>> /\ Append(<<a, b>>, c) = <<a, b, c>>
         /\ Page!Front(<<a, b>>) = <<a>> /\ Page!Front(<<a, b, c>>) = <<a, b>>
<1> DEFINE D == {a, b, c}
<1>1. /\ <<a>> \in Seq(D) /\ <<a, b>> \in Seq(D) /\ <<a, b, c>> \in Seq(D)
      /\ Len(<<a>>) = 1 /\ Len(<<a, b>>) = 2 /\ Len(<<a, b, c>>) = 3
      /\ <<a, b>>[2] = b /\ <<a, b, c>>[3] = c
      /\ \A i \in 1 .. 1 : <<a, b>>[i] = <<a>>[i]
      /\ \A i \in 1 .. 2 : <<a, b, c>>[i] = <<a, b>>[i]
  OBVIOUS
<1> DEFINE u == <<a>>
           v == <<a, b>>
           w == <<a, b, c>>
<1>2. /\ u \in Seq(D) /\ v \in Seq(D) /\ w \in Seq(D) /\ Len(u) = 1 /\ Len(v) = 2 /\ Len(w) = 3
      /\ v[2] = b /\ w[3] = c /\ \A i \in 1 .. 1 : v[i] = u[i]
      /\ \A i \in 1 .. 2 : w[i] = v[i]
  BY <1>1
<1> HIDE DEF D, u, v, w
<1>3. Append(u, b) = v /\ Page!Front(v) = u
  <2>1. Len(v) = Len(u) + 1 /\ v[Len(v)] = b /\ \A i \in 1 .. Len(u) : v[i] = u[i]
    BY <1>2
  <2>2. Append(u, v[Len(v)]) = v /\ Page!Front(v) = u
    BY <1>2, <2>1, OneMore
  <2> QED BY <2>1, <2>2
<1>4. Append(v, c) = w /\ Page!Front(w) = v
  <2>1. Len(w) = Len(v) + 1 /\ w[Len(w)] = c /\ \A i \in 1 .. Len(v) : w[i] = v[i]
    BY <1>2
  <2>2. Append(v, w[Len(w)]) = w /\ Page!Front(w) = v
    BY <1>2, <2>1, OneMore
  <2> QED BY <2>1, <2>2
<1> QED BY <1>3, <1>4 DEF u, v, w

LEMMA Shows ==
  ASSUME NEW p \in Page!Panels, NEW d, NEW b, Page!Show(p, d, b)
  PROVE  /\ front' = p /\ hidden' = Page!Panels \ {front'} /\ dev' = At(p, d) /\ onBack' = b
         /\ back' \in BOOLEAN /\ (back' <=> p = "connect" \/ (p = "ipconfig" /\ b # <<>>))
<1> QED BY DEF Page!Show, Page!Hides, Page!Forgets, Page!HaveBack, At

\* Another panel, or the one that is shown already.
LEMMA Switches ==
  ASSUME PlaceInv, NEW p \in {"eth", "wifi", "connect"}, NEW d \in Page!Devices, Page!SwitchTo(p, d)
  PROVE  /\ front' = p /\ hidden' = Page!Panels \ {front'} /\ dev' = At(p, d)
         /\ back' \in BOOLEAN /\ (back' <=> p = "connect")
<1>1. d # None /\ p \in Page!Panels /\ p \in Page!DevicePanels
  BY NetworkAssumption DEF Page!Devices, Page!Panels, Page!DevicePanels
<1>2. CASE dev[p] = d
  <2>1. UNCHANGED Page!where
    BY <1>2 DEF Page!SwitchTo
  <2>2. \E e \in Page!Devices : front = p /\ dev = At(p, e) /\ (back <=> p = "connect")
    BY <1>1, <1>2 DEF PlaceInv, Place, At
  <2>3. front = p /\ dev = At(p, d) /\ (back <=> p = "connect")
    BY <1>1, <1>2, <2>2 DEF At
  <2> QED BY <2>1, <2>3 DEF Page!where, PlaceInv
<1>3. CASE dev[p] # d
  BY <1>1, <1>3, Shows DEF Page!SwitchTo
<1> QED BY <1>2, <1>3

LEMMA PlaceKeeps == PlaceInv /\ [Page!Next]_(Page!vars) => PlaceInv'
<1> SUFFICES ASSUME PlaceInv, [Page!Next]_(Page!vars) PROVE PlaceInv'
  OBVIOUS
<1> USE DEF Page!Devices
<1>1. ASSUME UNCHANGED <<Page!where, trail>> PROVE PlaceInv'
  BY <1>1 DEF PlaceInv, Place, Page!where
<1>2. CASE \E d \in Ethernets : Page!PressWired(d)
  <2>1. PICK d \in Ethernets : Page!SwitchTo("eth", d) /\ trail' = << <<"eth", d>> >>
    BY <1>2 DEF Page!PressWired
  <2> QED BY <2>1, Switches DEF PlaceInv, Place
<1>3. CASE \E d \in Wlans : Page!PressWireless(d)
  <2>1. PICK d \in Wlans : Page!SwitchTo("wifi", d) /\ trail' = << <<"wifi", d>> >>
    BY <1>3 DEF Page!PressWireless
  <2> QED BY <2>1, Switches DEF PlaceInv, Place
<1>4. CASE Page!PressProxy
  <2>1. "proxy" \in Page!Panels /\ At("proxy", None) = At("none", None)
    BY DEF Page!Panels, Page!DevicePanels, At
  <2>2. Page!Show("proxy", None, <<>>) /\ trail' = << <<"proxy", None>> >>
    BY <1>4 DEF Page!PressProxy
  <2>3. front' = "proxy" /\ hidden' = Page!Panels \ {front'} /\ dev' = At("none", None) /\ back' = FALSE
    BY <2>1, <2>2, Shows
  <2> QED BY <2>2, <2>3 DEF PlaceInv, Place
<1>5. CASE Page!PickNetwork
  <2>1. PICK d \in Page!Devices : trail = << <<"wifi", d>> >> /\ dev["wifi"] = d
    BY <1>5 DEF Page!PickNetwork, PlaceInv, Place, At, Page!DevicePanels
  <2>2. Page!Show("connect", d, <<>>) /\ trail' = Append(trail, <<"connect", d>>)
    BY <1>5, <2>1 DEF Page!PickNetwork
  <2>3. trail' = << <<"wifi", d>>, <<"connect", d>> >>
    BY <2>1, <2>2, Walked
  <2> QED BY <2>2, <2>3, Shows DEF PlaceInv, Place, Page!Panels, Page!DevicePanels
<1>6. CASE Page!OpenAddress
  <2>1. PICK d \in Page!Devices :
          /\ dev[front] = d /\ front \in {"eth", "connect"}
          /\ trail = IF front = "eth" THEN << <<"eth", d>> >> ELSE << <<"wifi", d>>, <<"connect", d>> >>
    BY <1>6 DEF Page!OpenAddress, PlaceInv, Place, At, Page!DevicePanels
  <2>2. Page!Show("ipconfig", d, <<front, d>>) /\ trail' = Append(trail, <<"ipconfig", d>>)
    BY <1>6, <2>1 DEF Page!OpenAddress
  <2>3. trail' = IF front = "eth" THEN << <<"eth", d>>, <<"ipconfig", d>> >>
                 ELSE << <<"wifi", d>>, <<"connect", d>>, <<"ipconfig", d>> >>
    <3>1. CASE front = "eth"
      BY <2>1, <2>2, <3>1, Walked
    <3>2. CASE front = "connect"
      <4>1. trail = << <<"wifi", d>>, <<"connect", d>> >>
        BY <2>1, <3>2
      <4>2. trail' = << <<"wifi", d>>, <<"connect", d>>, <<"ipconfig", d>> >>
        BY <2>2, <4>1, Walked
      <4> QED BY <3>2, <4>2
    <3> QED BY <2>1, <3>1, <3>2
  <2>4. /\ front' = "ipconfig" /\ hidden' = Page!Panels \ {front'} /\ dev' = At("ipconfig", d)
        /\ onBack' = <<front, d>> /\ back' = TRUE
    <3>1. <<front, d>> # <<>> /\ "ipconfig" \in Page!Panels
      BY DEF Page!Panels, Page!DevicePanels
    <3> QED BY <2>2, <3>1, Shows
  <2> QED BY <2>1, <2>3, <2>4 DEF PlaceInv, Place
<1>7. CASE Page!Back
  <2>1. CASE front = "connect"
    <3>1. PICK d \in Page!Devices : dev["connect"] = d /\ trail = << <<"wifi", d>>, <<"connect", d>> >>
      BY <2>1 DEF PlaceInv, Place, At, Page!DevicePanels
    <3>2. Page!SwitchTo("wifi", d) /\ trail' = << <<"wifi", d>> >>
      BY <1>7, <2>1, <3>1, Walked DEF Page!Back
    <3> QED BY <3>2, Switches DEF PlaceInv, Place
  <2>2. CASE front = "ipconfig"
    <3>1. PICK d \in Page!Devices :
            \/ onBack = <<"eth", d>> /\ trail = << <<"eth", d>>, <<"ipconfig", d>> >>
            \/ onBack = <<"connect", d>>
               /\ trail = << <<"wifi", d>>, <<"connect", d>>, <<"ipconfig", d>> >>
      BY <2>2 DEF PlaceInv, Place
    <3>2. CASE onBack = <<"eth", d>> /\ trail = << <<"eth", d>>, <<"ipconfig", d>> >>
      <4>1. Page!SwitchTo("eth", d) /\ trail' = << <<"eth", d>> >>
        BY <1>7, <2>2, <3>2, Walked DEF Page!Back
      <4> QED BY <4>1, Switches DEF PlaceInv, Place
    <3>3. CASE onBack = <<"connect", d>>
               /\ trail = << <<"wifi", d>>, <<"connect", d>>, <<"ipconfig", d>> >>
      <4>1. Page!SwitchTo("connect", d) /\ trail' = << <<"wifi", d>>, <<"connect", d>> >>
        BY <1>7, <2>2, <3>3, Walked DEF Page!Back
      <4> QED BY <4>1, Switches DEF PlaceInv, Place
    <3> QED BY <3>1, <3>2, <3>3
  <2> QED BY <1>7, <2>1, <2>2 DEF Page!Back
<1>8. CASE Page!LeavePage
  BY <1>8 DEF Page!LeavePage, PlaceInv, Place, At, Page!where, Page!DevicePanels
<1>9. CASE \/ UNCHANGED Page!vars
           \/ \E m \in {"dhcp", "static", "disabled"} : Page!PickMode(m)
           \/ \E x \in {<<>>, <<Page!Device>>, <<Page!Device, "/">>} : Page!TypeAddress(x)
           \/ \E s \in {None, Page!Device} : Page!TypeDns(s)
           \/ Page!PressAuto \/ Page!Reload \/ Page!Apply
           \/ \E p \in {"eth", "connect"} : Page!Configure(p)
  <2>1. UNCHANGED <<Page!where, trail>>
    BY <1>9 DEF Page!vars, Page!PickMode, Page!TypeAddress, Page!TypeDns, Page!PressAuto, Page!Reload,
      Page!Apply, Page!Configure, Page!Typed, Page!where
  <2> QED BY <1>1, <2>1
<1> QED BY <1>2, <1>3, <1>4, <1>5, <1>6, <1>7, <1>8, <1>9 DEF Page!Next

LEMMA PlaceIsMeant == PlaceInv => Page!FrontIsMeant
<1> SUFFICES ASSUME PlaceInv PROVE Page!FrontIsMeant
  OBVIOUS
<1>1. \A q \in Page!DevicePanels : dev[q] # None => q = front
  BY DEF PlaceInv, Place, At
<1>2. CASE trail = <<>> /\ front = "hello" /\ ~back
  BY <1>1, <1>2 DEF PlaceInv, Page!FrontIsMeant
<1>3. ASSUME NEW p, NEW d, front = p, p \in Page!DevicePanels => dev[p] = d,
             \/ trail = << <<p, d>> >> /\ ~back
             \/ \E x : trail = <<x, <<p, d>> >> /\ back
             \/ \E x, y : trail = <<x, y, <<p, d>> >> /\ back
      PROVE  Page!FrontIsMeant
  <2>1. trail # <<>> /\ Page!Last(trail) = <<p, d>> /\ (back <=> Len(trail) > 1)
    <3> DEFINE e == <<p, d>>
    <3> HIDE DEF e
    <3>1. ASSUME trail = <<e>> PROVE trail # <<>> /\ Page!Last(trail) = e /\ ~(Len(trail) > 1)
      BY <3>1 DEF Page!Last
    <3>2. ASSUME NEW x, trail = <<x, e>>, back PROVE trail # <<>> /\ Page!Last(trail) = e /\ Len(trail) > 1
      BY <3>2 DEF Page!Last
    <3>3. ASSUME NEW x, NEW y, trail = <<x, y, e>>, back
          PROVE  trail # <<>> /\ Page!Last(trail) = e /\ Len(trail) > 1
      BY <3>3 DEF Page!Last
    <3>4. \/ trail = <<e>> /\ ~back
          \/ \E x : trail = <<x, e>> /\ back
          \/ \E x, y : trail = <<x, y, e>> /\ back
      BY <1>3 DEF e
    <3>5. trail # <<>> /\ Page!Last(trail) = e /\ (back <=> Len(trail) > 1)
      BY <3>1, <3>2, <3>3, <3>4
    <3> QED BY <3>5 DEF e
  <2> QED BY <1>1, <1>3, <2>1 DEF PlaceInv, Page!FrontIsMeant
<1> QED BY <1>2, <1>3 DEF PlaceInv, Place, At, Page!DevicePanels

\* What a device's profile and the address panel that is open for it may hold.
Modes == {"dhcp", "static", "disabled"}
ProfileOf(d) ==
  {p \in [mode : Modes, addr : {<<>>, <<d>>}, dns : {None, d}, autodns : BOOLEAN] :
     (p.addr # <<>> => p.mode = "static") /\ (p.dns # None => ~p.autodns /\ p.mode # "disabled")}
FormOf(d) ==
  [mode : Modes, addr : {<<>>, <<d>>, <<d, "/">>}, dns : {None, d}, auto : BOOLEAN]
GivenWell(g) ==
  /\ g.static \in {<<>>, <<g.device>>} /\ g.nameserver \in {None, g.device}
  /\ g.nameserver # None => g.nohook /\ g.ipv4
ProfileInv ==
  /\ DOMAIN profiles = Page!Devices /\ \A d \in Page!Devices : profiles[d] \in ProfileOf(d)
  /\ front = "ipconfig" => form \in FormOf(Page!Device)
  /\ given # <<>> => \E g : given = <<g>> /\ GivenWell(g)

LEMMA DefaultIsProfile == \A d : Page!Default \in ProfileOf(d)
<1> QED BY DEF Page!Default, ProfileOf, Modes

LEMMA ShownIsForm == ASSUME NEW d, NEW p \in ProfileOf(d) PROVE Page!Shown(p) \in FormOf(d)
<1> QED BY DEF ProfileOf, FormOf, Page!Shown

LEMMA ReadIsProfile ==
  ASSUME NEW d, form \in FormOf(d), ~(form.mode = "static" /\ Len(form.addr) = 1)
  PROVE  Page!Read \in ProfileOf(d)
<1>1. form.addr = <<>> \/ form.addr[1] = d
  BY DEF FormOf
<1> QED BY <1>1 DEF Page!Read, FormOf, ProfileOf

LEMMA GenIsWell ==
  ASSUME NEW d, NEW profile \in ProfileOf(d) PROVE GivenWell(Page!GenConfig(d, profile))
<1> QED BY DEF ProfileOf, GivenWell, Page!GenConfig

LEMMA ProfileKeeps == PlaceInv /\ ProfileInv /\ [Page!Next]_(Page!vars) => ProfileInv'
<1> SUFFICES ASSUME PlaceInv, ProfileInv, [Page!Next]_(Page!vars) PROVE ProfileInv'
  OBVIOUS
<1>1. ASSUME UNCHANGED <<profiles, given>>,
             front' = "ipconfig" => form' \in FormOf(Page!Device')
      PROVE  ProfileInv'
  BY <1>1 DEF ProfileInv
<1>2. CASE UNCHANGED Page!vars
  BY <1>1, <1>2 DEF Page!vars, ProfileInv, Page!Device
<1>3. ASSUME UNCHANGED <<profiles, form, given>>,
             \/ \E p \in {"eth", "wifi", "connect"} : \E d \in Page!Devices : Page!SwitchTo(p, d)
             \/ \E p \in {"proxy", "connect"} : \E d, b : Page!Show(p, d, b)
      PROVE  ProfileInv'
  <2>1. front' # "ipconfig"
    BY <1>3, Switches, Shows DEF Page!Panels, Page!DevicePanels
  <2> QED BY <1>1, <1>3, <2>1
<1>4. CASE \/ \E d \in Ethernets : Page!PressWired(d)
           \/ \E d \in Wlans : Page!PressWireless(d)
           \/ Page!PressProxy \/ Page!PickNetwork
  BY <1>3, <1>4 DEF Page!PressWired, Page!PressWireless, Page!PressProxy, Page!PickNetwork, Page!Devices
<1>5. CASE Page!Back
  <2>1. UNCHANGED <<profiles, form, given>>
    BY <1>5 DEF Page!Back
  <2>2. front = "connect" => dev["connect"] \in Page!Devices
    BY DEF PlaceInv, Place, At, Page!DevicePanels
  <2>3. front = "ipconfig" => onBack[1] \in {"eth", "connect"} /\ onBack[2] \in Page!Devices
    BY DEF PlaceInv, Place
  <2>4. \E p \in {"eth", "wifi", "connect"} : \E d \in Page!Devices : Page!SwitchTo(p, d)
    BY <1>5, <2>2, <2>3 DEF Page!Back
  <2> QED BY <1>3, <2>1, <2>4
<1>6. CASE Page!OpenAddress
  <2>1. PICK d \in Page!Devices : dev[front] = d
    BY <1>6 DEF Page!OpenAddress, PlaceInv, Place, At, Page!DevicePanels
  <2>2. /\ Page!Show("ipconfig", d, <<front, d>>) /\ form' = Page!Shown(profiles[d])
        /\ UNCHANGED <<profiles, given>>
    BY <1>6, <2>1 DEF Page!OpenAddress
  <2>3. Page!Device' = d
    BY <2>2, Shows DEF Page!Panels, Page!DevicePanels, Page!Device, At
  <2>4. form' \in FormOf(d)
    BY <2>2, ShownIsForm DEF ProfileInv
  <2> QED BY <1>1, <2>2, <2>3, <2>4
<1>7. CASE Page!LeavePage
  <2>1. front' = "hello" /\ profiles' = [d \in Page!Devices |-> Page!Default] /\ given' = given
    BY <1>7 DEF Page!LeavePage
  <2> QED BY <2>1, DefaultIsProfile DEF ProfileInv
<1>8. ASSUME Page!Typed, form' \in FormOf(Page!Device) PROVE ProfileInv'
  BY <1>1, <1>8 DEF Page!Typed, Page!where, Page!Device
<1>9. ASSUME front = "ipconfig" PROVE form \in FormOf(Page!Device) /\ Page!Device \in Page!Devices
  BY <1>9 DEF ProfileInv, PlaceInv, Place, At, Page!Device, Page!DevicePanels
<1>10. CASE \/ \E m \in {"dhcp", "static", "disabled"} : Page!PickMode(m)
            \/ \E x \in {<<>>, <<Page!Device>>, <<Page!Device, "/">>} : Page!TypeAddress(x)
            \/ \E s \in {None, Page!Device} : Page!TypeDns(s)
            \/ Page!PressAuto \/ Page!Reload
  <2>1. Page!Typed /\ front = "ipconfig"
    BY <1>10 DEF Page!PickMode, Page!TypeAddress, Page!TypeDns, Page!PressAuto, Page!Reload, Page!Typed
  <2>2. CASE \E m \in {"dhcp", "static", "disabled"} : Page!PickMode(m)
    BY <1>8, <1>9, <2>1, <2>2 DEF Page!PickMode, FormOf, Modes
  <2>3. CASE \E x \in {<<>>, <<Page!Device>>, <<Page!Device, "/">>} : Page!TypeAddress(x)
    BY <1>8, <1>9, <2>1, <2>3 DEF Page!TypeAddress, FormOf
  <2>4. CASE \E s \in {None, Page!Device} : Page!TypeDns(s)
    BY <1>8, <1>9, <2>1, <2>4 DEF Page!TypeDns, FormOf
  <2>5. CASE Page!PressAuto
    BY <1>8, <1>9, <2>1, <2>5 DEF Page!PressAuto, FormOf
  <2>6. CASE Page!Reload
    BY <1>8, <1>9, <2>1, <2>6, ShownIsForm DEF Page!Reload, ProfileInv
  <2> QED BY <1>10, <2>2, <2>3, <2>4, <2>5, <2>6
<1>11. CASE Page!Apply
  <2>1. /\ front = "ipconfig" /\ ~(form.mode = "static" /\ Len(form.addr) = 1)
        /\ profiles' = [profiles EXCEPT ![Page!Device] = Page!Read]
        /\ UNCHANGED <<Page!where, form, given>>
    BY <1>11 DEF Page!Apply
  <2>2. Page!Read \in ProfileOf(Page!Device) /\ Page!Device \in Page!Devices
    BY <1>9, <2>1, ReadIsProfile
  <2>3. DOMAIN profiles' = Page!Devices /\ \A d \in Page!Devices : profiles'[d] \in ProfileOf(d)
    BY <2>1, <2>2 DEF ProfileInv
  <2>4. Page!Device' = Page!Device /\ front' = front
    BY <2>1 DEF Page!where, Page!Device
  <2> QED BY <2>1, <2>3, <2>4 DEF ProfileInv
<1>12. CASE \E p \in {"eth", "connect"} : Page!Configure(p)
  <2>1. PICK p \in {"eth", "connect"} :
          /\ front = p /\ dev[p] # None /\ UNCHANGED <<Page!where, profiles, form>>
          /\ \E profile \in {profiles[dev[p]], Page!Default} :
               given' = <<Page!GenConfig(dev[p], profile)>>
    BY <1>12 DEF Page!Configure
  <2>2. dev[p] \in Page!Devices
    BY <2>1 DEF PlaceInv, Place, At, Page!DevicePanels
  <2>3. PICK profile \in ProfileOf(dev[p]) : given' = <<Page!GenConfig(dev[p], profile)>>
    BY <2>1, <2>2, DefaultIsProfile DEF ProfileInv
  <2>4. GivenWell(Page!GenConfig(dev[p], profile))
    BY <2>3, GenIsWell
  <2>5. Page!Device' = Page!Device /\ front' = front
    BY <2>1 DEF Page!where, Page!Device
  <2> QED BY <2>1, <2>3, <2>4, <2>5 DEF ProfileInv
<1> QED BY <1>2, <1>4, <1>5, <1>6, <1>7, <1>10, <1>11, <1>12 DEF Page!Next

LEMMA ProfilesKept == ProfileInv => Page!ProfilesAreOwn
<1> SUFFICES ASSUME ProfileInv PROVE Page!ProfilesAreOwn
  OBVIOUS
<1>1. \A d \in Page!Devices :
        /\ profiles[d].addr \in {<<>>, <<d>>} /\ profiles[d].dns \in {None, d}
        /\ profiles[d].addr # <<>> => profiles[d].mode = "static"
        /\ profiles[d].dns # None => ~profiles[d].autodns /\ profiles[d].mode # "disabled"
  BY DEF ProfileInv, ProfileOf
<1>2. \A i \in 1 .. Len(given) : GivenWell(given[i])
  <2>1. CASE given = <<>>
    BY <2>1
  <2>2. ASSUME NEW g, given = <<g>>, GivenWell(g) PROVE \A i \in 1 .. Len(given) : GivenWell(given[i])
    BY <2>2
  <2> QED BY <2>1, <2>2 DEF ProfileInv
<1> QED BY <1>1, <1>2 DEF Page!ProfilesAreOwn, GivenWell

\* What Find returns, when it is not 0, has the name that was looked for.
LEMMA Least ==
  ASSUME NEW T \in SUBSET Nat, T # {}
  PROVE  \E x \in T : \A y \in T : x <= y
<1> DEFINE R == OpToRel(<, Nat)
<1>1. IsWellFoundedOn(R, Nat)
  BY NatLessThanWellFounded
<1>2. \A x, y \in Nat : y < x => <<y, x>> \in R
  BY DEF OpToRel
<1> HIDE DEF R
<1>3. PICK x \in T : \A y \in T : ~(<<y, x>> \in R)
  BY <1>1, WFMin
<1>4. ASSUME NEW y \in T PROVE x <= y
  <2>1. ~(<<y, x>> \in R) /\ x \in Nat /\ y \in Nat
    BY <1>3
  <2>2. ~(y < x)
    BY <1>2, <2>1
  <2> QED BY <2>1, <2>2
<1> QED BY <1>4

LEMMA Found ==
  ASSUME NEW list, NEW name, Air!Find(list, name) # 0
  PROVE  LET i == Air!Find(list, name) IN i <= Len(list) /\ list[i].ssid = name
<1> DEFINE T == {i \in 1 .. Len(list) : list[i].ssid = name}
<1>1. Air!Find(list, name) = IF T # {} THEN Air!Min(T) ELSE 0
  BY DEF Air!Find, Air!SelectInSeq
<1>2. T \in SUBSET Nat
  OBVIOUS
<1>3. T # {} => Air!Min(T) \in T
  BY <1>2, Least DEF Air!Min
<1> QED BY <1>1, <1>3

LEMMA FocusKeeps == Air!FocusIsMeant /\ [Air!Next]_(Air!vars) => Air!FocusIsMeant'
<1> SUFFICES ASSUME Air!FocusIsMeant, [Air!Next]_(Air!vars) PROVE Air!FocusIsMeant'
  OBVIOUS
<1>1. ASSUME UNCHANGED <<items, focus, meant>> PROVE Air!FocusIsMeant'
  BY <1>1 DEF Air!FocusIsMeant
<1>2. CASE \/ UNCHANGED Air!vars \/ \E air \in SUBSET MCStations : Air!ReadResults(air)
           \/ \E b \in Air!Bssids \cup {0} : Air!ReadStatus(b)
  BY <1>1, <1>2 DEF Air!vars, Air!ReadResults, Air!ReadStatus
<1>3. CASE Air!Draw
  <2>1. focus' = 0 \/ (focus # 0 /\ meant' = meant /\ focus' = Air!Find(items', items[focus].ssid))
    BY <1>3 DEF Air!Draw
  <2>2. CASE focus' # 0
    BY <2>1, <2>2, Found DEF Air!FocusIsMeant
  <2> QED BY <2>2 DEF Air!FocusIsMeant
<1>4. ASSUME NEW i \in 0 .. Len(items), Air!Focus(i) PROVE Air!FocusIsMeant'
  BY <1>4 DEF Air!Focus, Air!FocusIsMeant
<1> QED BY <1>2, <1>3, <1>4 DEF Air!Next

LEMMA SpellingsKeep == Proxy!SpellingsAgree /\ [Proxy!Next]_(Proxy!vars) => Proxy!SpellingsAgree'
<1> SUFFICES ASSUME Proxy!SpellingsAgree, [Proxy!Next]_(Proxy!vars) PROVE Proxy!SpellingsAgree'
  OBVIOUS
<1>1. CASE \/ UNCHANGED Proxy!vars \/ Proxy!Draw
           \/ \E n \in Names, v \in Proxies \cup {None} : Proxy!Type(n, v)
  BY <1>1 DEF Proxy!vars, Proxy!Draw, Proxy!Type, Proxy!SpellingsAgree
<1>2. CASE Proxy!Clear
  <2>1. \A x \in Names \X Proxy!Spellings : wanted'[x[1]] = None
    BY <1>2 DEF Proxy!Clear, Proxy!Nothing
  <2> QED BY <1>2, <2>1 DEF Proxy!Clear, Proxy!SpellingsAgree
<1>3. CASE Proxy!Apply
  BY <1>3 DEF Proxy!Apply, Proxy!Applied, Proxy!SpellingsAgree
<1> QED BY <1>1, <1>2, <1>3 DEF Proxy!Next

\* The list of networks says what the supplicant does though scans, events and
\* LVGL's thread come in any order (unless an event was dropped under a scan that
\* had read), the focus stays on the name the user moved it to, the page shows
\* the panel the user walked to, and no device gets what was typed for another:
\* for any number of scans, events, devices and proxies.
THEOREM PageIsCurrent == Spec => []ShownIsCurrent
<1> DEFINE Inv == ListInv /\ PlaceInv /\ ProfileInv /\ Air!FocusIsMeant /\ Proxy!SpellingsAgree
<1>1. Init => Inv
  <2>1. Init => ListInv
    <3>1. List!Init => ListTypes
      <4>1. List!Init => got \in [Scans -> BOOLEAN] /\ completed \in BOOLEAN /\ state \in BOOLEAN
        BY DEF List!Init
      <4>2. List!Init =>
              /\ scan \in [Scans -> {"idle", "queued", "results", "status", "assign", "end"}]
              /\ listJobs \in Nat
        BY DEF List!Init
      <4> QED BY <4>1, <4>2 DEF ListTypes
    <3>2. List!Init => ListCurrent
      BY DEF List!Init, ListCurrent
    <3> QED BY <3>1, <3>2 DEF Init, ListInv
  <2>2. Init => PlaceInv
    BY DEF Init, Page!Init, PlaceInv, Place, At, Page!DevicePanels
  <2>3. Init => ProfileInv
    BY DefaultIsProfile DEF Init, Page!Init, ProfileInv
  <2>4. Init => Air!FocusIsMeant /\ Proxy!SpellingsAgree
    BY DEF Init, Air!Init, Proxy!Init, Air!FocusIsMeant, Proxy!SpellingsAgree
  <2> QED BY <2>1, <2>2, <2>3, <2>4
<1>2. Inv /\ [Next]_vars => Inv'
  BY StepOfPart, ListFollows, PlaceKeeps, ProfileKeeps, FocusKeeps, SpellingsKeep
<1>3. Inv => ShownIsCurrent
  BY ListIsCurrent, PlaceIsMeant, ProfilesKept DEF ShownIsCurrent
<1> QED BY <1>1, <1>2, <1>3, PTL DEF Spec

-----------------------------------------------------------------------------
(* What a fold over a sequence comes to, step by step.                     *)

Top(s) == CHOOSE x \in s : \A y \in s : x >= y

LEMMA TopIsGreatest ==
  ASSUME NEW n \in Nat, NEW s \in SUBSET (1 .. n), s # {}
  PROVE  Top(s) \in s /\ \A y \in s : y <= Top(s)
<1> DEFINE U == {k \in Nat : \E x \in s : k = n - x}
<1>1. U \in SUBSET Nat /\ U # {}
  <2>1. PICK x \in s : TRUE
    OBVIOUS
  <2>2. n - x \in Nat
    BY <2>1
  <2> QED BY <2>1, <2>2
<1>2. \A x \in s : n - x \in U
  BY DEF U
<1> HIDE DEF U
<1>3. PICK k \in U : \A j \in U : k <= j
  BY <1>1, Least
<1>4. PICK x \in s : k = n - x
  BY <1>3 DEF U
<1>5. \A y \in s : x >= y
  BY <1>2, <1>3, <1>4
<1> QED BY <1>5 DEF Top

\* What is true before every step is true at the end.
LEMMA Steps ==
  ASSUME NEW n \in Nat, NEW T \in SUBSET (0 .. n), 0 \in T,
         \A k \in 1 .. n : k - 1 \in T => k \in T
  PROVE  T = 0 .. n
<1> DEFINE Bad == (0 .. n) \ T
<1> SUFFICES ASSUME Bad # {} PROVE FALSE
  OBVIOUS
<1>1. PICK k \in Bad : \A j \in Bad : k <= j
  <2>1. Bad \in SUBSET Nat
    OBVIOUS
  <2> HIDE DEF Bad
  <2> QED BY <2>1, Least
<1>2. k \in 0 .. n /\ k \notin T
  OBVIOUS
<1>3. k \in 1 .. n
  BY <1>2
<1>4. k - 1 \in Bad
  BY <1>3
<1> HIDE DEF Bad
<1> QED BY <1>1, <1>3, <1>4

\* The recursion of a fold over n elements has a solution.
Recurs(h, base, n, step) ==
  \A s \in SUBSET (1 .. n) : h[s] = IF s = {} THEN base ELSE step[<<Top(s), h[s \ {Top(s)}]>>]

LEMMA FoldExists ==
  ASSUME NEW V, NEW base \in V, NEW n \in Nat, NEW step \in [(1 .. n) \X V -> V]
  PROVE  \E h \in [SUBSET (1 .. n) -> V] : Recurs(h, base, n, step)
<1> DEFINE Solves(h, k) == \A s \in SUBSET (1 .. k) :
             h[s] = IF s = {} THEN base ELSE step[<<Top(s), h[s \ {Top(s)}]>>]
           T == {k \in 0 .. n : \E h \in [SUBSET (1 .. k) -> V] : Solves(h, k)}
<1>1. 0 \in T
  <2>1. 1 .. 0 = {}
    OBVIOUS
  <2>2. [s \in SUBSET (1 .. 0) |-> base] \in [SUBSET (1 .. 0) -> V]
    OBVIOUS
  <2>3. Solves([s \in SUBSET (1 .. 0) |-> base], 0)
    BY <2>1
  <2> HIDE DEF Solves
  <2> QED BY <2>2, <2>3
<1>2. ASSUME NEW k \in 1 .. n, k - 1 \in T PROVE k \in T
  <2>1. PICK h \in [SUBSET (1 .. k - 1) -> V] : Solves(h, k - 1)
    BY <1>2
  <2> DEFINE g == [s \in SUBSET (1 .. k) |->
                    IF k \in s THEN step[<<k, h[s \ {k}]>>] ELSE h[s]]
  <2>2. g \in [SUBSET (1 .. k) -> V]
    <3>1. \A s \in SUBSET (1 .. k) : s \ {k} \in SUBSET (1 .. k - 1)
      OBVIOUS
    <3>2. \A s \in SUBSET (1 .. k) : k \notin s => s \in SUBSET (1 .. k - 1)
      OBVIOUS
    <3> QED BY <3>1, <3>2
  <2>3. ASSUME NEW s \in SUBSET (1 .. k)
        PROVE  g[s] = IF s = {} THEN base ELSE step[<<Top(s), g[s \ {Top(s)}]>>]
    <3>1. CASE k \in s
      <4>1. Top(s) = k
        <5>1. k \in Nat /\ s # {}
          BY <3>1
        <5>2. Top(s) \in s /\ k <= Top(s)
          BY <3>1, <5>1, TopIsGreatest
        <5>3. Top(s) \in 1 .. k
          BY <5>2
        <5> QED BY <5>2, <5>3
      <4>2. s \ {k} \in SUBSET (1 .. k) /\ k \notin s \ {k}
        OBVIOUS
      <4>3. g[s \ {k}] = h[s \ {k}]
        BY <4>2
      <4> QED BY <3>1, <4>1, <4>3
    <3>2. CASE k \notin s
      <4>1. s \in SUBSET (1 .. k - 1) /\ g[s] = h[s]
        BY <3>2
      <4>2. s \ {Top(s)} \in SUBSET (1 .. k) /\ k \notin s \ {Top(s)}
        BY <3>2
      <4>3. g[s \ {Top(s)}] = h[s \ {Top(s)}]
        BY <4>2
      <4>4. h[s] = IF s = {} THEN base ELSE step[<<Top(s), h[s \ {Top(s)}]>>]
        BY <2>1, <4>1
      <4> HIDE DEF g
      <4> QED BY <4>1, <4>3, <4>4
    <3> QED BY <3>1, <3>2
  <2>4. Solves(g, k)
    BY <2>3
  <2> HIDE DEF g, Solves
  <2> QED BY <2>2, <2>4
<1> HIDE DEF T
<1>3. T = 0 .. n
  <2>1. T \in SUBSET (0 .. n)
    BY DEF T
  <2> QED BY <1>1, <1>2, <2>1, Steps
<1>4. n \in T
  BY <1>3
<1> QED BY <1>4 DEF T, Recurs

LEMMA TopOfInterval ==
  ASSUME NEW n \in Nat, NEW k \in 1 .. n
  PROVE  /\ 1 .. k \in SUBSET (1 .. n) /\ 1 .. k # {}
         /\ Top(1 .. k) = k /\ (1 .. k) \ {k} = 1 .. k - 1
<1>1. k \in 1 .. k /\ \A x \in 1 .. k : x \in 1 .. n /\ k >= x
  OBVIOUS
<1>2. \A x : x \in (1 .. k) \ {k} <=> x \in 1 .. k - 1
  OBVIOUS
<1>3. \A x \in 1 .. k : (\A y \in 1 .. k : x >= y) => x = k
  OBVIOUS
<1>4. Top(1 .. k) = k
  BY <1>1, <1>3 DEF Top
<1> QED BY <1>1, <1>2, <1>4

\* The values of the recursion on the first k elements are what a loop goes through.
Loop(h, n) == [k \in 0 .. n |-> h[1 .. k]]
Runs(g, V, base, n, step) ==
  /\ g \in [0 .. n -> V] /\ g[0] = base
  /\ \A k \in 1 .. n : g[k] = step[<<k, g[k - 1]>>]

Unrolls(h, V, base, n, step) ==
  /\ h[{}] = base
  /\ \A k \in 1 .. n : h[1 .. k - 1] \in V => h[1 .. k] = step[<<k, h[1 .. k - 1]>>]

LEMMA FoldRuns ==
  ASSUME NEW V, NEW base \in V, NEW n \in Nat, NEW step \in [(1 .. n) \X V -> V],
         NEW h, Unrolls(h, V, base, n, step)
  PROVE  Runs(Loop(h, n), V, base, n, step)
<1> DEFINE g == Loop(h, n)
           T == {k \in 0 .. n : h[1 .. k] \in V}
<1> USE DEF Unrolls
<1>1. 0 \in T /\ g[0] = base
  <2>1. 1 .. 0 = {}
    OBVIOUS
  <2> QED BY <2>1 DEF Loop
<1>2. ASSUME NEW k \in 1 .. n, k - 1 \in T PROVE k \in T
  <2>1. h[1 .. k - 1] \in V /\ k \in 0 .. n
    BY <1>2
  <2>2. step[<<k, h[1 .. k - 1]>>] \in V
    BY <2>1
  <2> QED BY <2>1, <2>2
<1>3. T = 0 .. n
  <2>1. T \in SUBSET (0 .. n)
    OBVIOUS
  <2> HIDE DEF T
  <2> QED BY <1>1, <1>2, <2>1, Steps
<1>4. \A k \in 0 .. n : h[1 .. k] \in V
  BY <1>3
<1>5. \A k \in 1 .. n : g[k] = step[<<k, g[k - 1]>>]
  <2>1. \A k \in 1 .. n : k \in 0 .. n /\ k - 1 \in 0 .. n
    OBVIOUS
  <2> QED BY <1>4, <2>1 DEF Loop
<1>6. g \in [0 .. n -> V]
  BY <1>4 DEF Loop
<1> QED BY <1>1, <1>5, <1>6 DEF Runs

-----------------------------------------------------------------------------
(* The list of the stations.                                               *)

Labels == [ssid : {s.ssid : s \in MCStations}, bssid : {s.bssid : s \in MCStations},
           rssi : {s.rssi : s \in MCStations}, connected : BOOLEAN]
Lists == Seq(Labels)

LEMMA LabelDrawn ==
  ASSUME NEW list \in Lists, NEW s \in MCStations, NEW c \in BOOLEAN
  PROVE  Air!DrawResult(list, s, c) \in Lists
<1>1. [ssid |-> s.ssid, bssid |-> s.bssid, rssi |-> s.rssi, connected |-> c] \in Labels
  BY DEF Labels
<1> QED BY <1>1, AppendProperties DEF Air!DrawResult, Lists

LEMMA ResultsDrawn ==
  ASSUME NEW o \in Seq(MCStations), NEW list \in Lists
  PROVE  \E g \in [0 .. Len(o) -> Lists] :
           /\ g[0] = list /\ Air!DrawResults(list, o) = g[Len(o)]
           /\ \A k \in 1 .. Len(o) : g[k] = Air!DrawResult(g[k - 1], o[k], FALSE)
<1> DEFINE n == Len(o)
           step == [p \in (1 .. n) \X Lists |-> Air!DrawResult(p[2], o[p[1]], FALSE)]
           Solves(h) == h = [s \in SUBSET (1 .. n) |->
             IF s = {} THEN list ELSE Air!DrawResult(h[s \ {Top(s)}], o[Top(s)], FALSE)]
           iter == CHOOSE h : Solves(h)
           g == Loop(iter, n)
<1>1. n \in Nat /\ DOMAIN o = 1 .. n /\ \A k \in 1 .. n : o[k] \in MCStations
  OBVIOUS
<1>2. Air!DrawResults(list, o) = iter[1 .. n]
  BY <1>1 DEF Air!DrawResults, Air!FoldLeft, Air!MapThenFoldSet, Air!Max, Top
<1>3. list \in Lists /\ n \in Nat /\ step \in [(1 .. n) \X Lists -> Lists]
  BY <1>1, LabelDrawn
<1>4. Solves(iter)
  <2> HIDE DEF step, n
  <2>1. PICK h \in [SUBSET (1 .. n) -> Lists] : Recurs(h, list, n, step)
    BY <1>3, FoldExists
  <2>2. ASSUME NEW s \in SUBSET (1 .. n), s # {}
        PROVE  h[s] = Air!DrawResult(h[s \ {Top(s)}], o[Top(s)], FALSE)
    <3>1. Top(s) \in 1 .. n /\ h[s \ {Top(s)}] \in Lists
      BY <1>1, <2>2, TopIsGreatest
    <3> QED BY <2>1, <2>2, <3>1 DEF step, Recurs
  <2>3. Solves(h)
    BY <2>1, <2>2 DEF Recurs
  <2> HIDE DEF Solves
  <2> QED BY <2>3
<1> HIDE DEF n, iter
<1>5. iter[{}] = list /\ \A k \in 1 .. n : iter[1 .. k] = Air!DrawResult(iter[1 .. k - 1], o[k], FALSE)
  <2>1. iter[{}] = list
    BY <1>4
  <2>2. ASSUME NEW k \in 1 .. n
        PROVE  iter[1 .. k] = Air!DrawResult(iter[1 .. k - 1], o[k], FALSE)
    <3>1. /\ 1 .. k \in SUBSET (1 .. n) /\ 1 .. k # {}
          /\ Top(1 .. k) = k /\ (1 .. k) \ {k} = 1 .. k - 1
      BY <1>1, TopOfInterval
    <3> QED BY <1>4, <3>1
  <2> QED BY <2>1, <2>2
<1>6. Unrolls(iter, Lists, list, n, step)
  BY <1>5 DEF Unrolls
<1>7. g[n] = iter[1 .. n]
  BY <1>1 DEF Loop
<1>8. Runs(g, Lists, list, n, step)
  <2> HIDE DEF step
  <2> QED BY <1>3, <1>6, FoldRuns
<1> HIDE DEF g
<1>9. \A k \in 1 .. n : g[k] = Air!DrawResult(g[k - 1], o[k], FALSE)
  <2>1. \A k \in 1 .. n : k - 1 \in 0 .. n
    BY <1>1
  <2> QED BY <1>8, <2>1 DEF Runs
<1> QED BY <1>2, <1>7, <1>8, <1>9 DEF n, Runs

LEMMA StrengthsAreNumbers == \A s \in MCStations : s.rssi \in Int
BY DEF MCStations, Station

LEMMA StationsAreFinite == IsFiniteSet(MCStations)
<1> DEFINE a == Station("n", 1, 1)
           b == Station("n", 2, 2)
           c == Station("m", 3, 2)
           d == Station("o", 4, 1)
           e == Station(Unnamed, 5, 3)
<1>1. MCStations = {a} \cup {b} \cup {c} \cup {d} \cup {e}
  BY DEF MCStations
<1> HIDE DEF a, b, c, d, e
<1>2. IsFiniteSet({a})
  BY FS_Singleton
<1>3. IsFiniteSet({a} \cup {b})
  BY <1>2, FS_AddElement
<1>4. IsFiniteSet({a} \cup {b} \cup {c})
  BY <1>3, FS_AddElement
<1>5. IsFiniteSet({a} \cup {b} \cup {c} \cup {d})
  BY <1>4, FS_AddElement
<1>6. IsFiniteSet({a} \cup {b} \cup {c} \cup {d} \cup {e})
  BY <1>5, FS_AddElement
<1> QED BY <1>1, <1>6

\* A list of a set, each of its elements once, leaves none out.
LEMMA AllInOrder ==
  ASSUME NEW S, IsFiniteSet(S), NEW o \in Air!SetToSeqs(S)
  PROVE  o \in Seq(S) /\ \A s \in S : \E k \in 1 .. Len(o) : o[k] = s
<1> DEFINE n == Cardinality(S)
<1>1. n \in Nat
  BY FS_CardinalityType
<1>2. o \in [1 .. n -> S] /\ \A i, j \in 1 .. n : i # j => o[i] # o[j]
  BY DEF Air!SetToSeqs, Air!Cardinality, Cardinality
<1> HIDE DEF n
<1>3. o \in Seq(S) /\ Len(o) = n
  BY <1>1, <1>2
<1>4. o \in Injection(1 .. n, S)
  BY <1>2 DEF Injection, IsInjective
<1>5. Cardinality(1 .. n) = n /\ n = Cardinality(S)
  BY <1>1, FS_Interval DEF n
<1>6. o \in Surjection(1 .. n, S)
  BY <1>4, <1>5, FS_Injection
<1> QED BY <1>3, <1>6 DEF Surjection

LEMMA FirstDrawn ==
  ASSUME NEW s \in MCStations
  PROVE  Air!DrawFirst({}) = <<>> /\ Air!DrawFirst({s}) = Air!DrawResult(<<>>, s, TRUE)
<1>1. Air!DrawFirst({}) = <<>>
  <2> DEFINE Solves(h) == h = [S \in SUBSET {} |->
               IF S = {} THEN <<>>
               ELSE Air!DrawResult(h[S \ {CHOOSE x \in S : TRUE}], CHOOSE x \in S : TRUE, TRUE)]
             iter == CHOOSE h : Solves(h)
  <2>1. Air!DrawFirst({}) = iter[{}]
    BY DEF Air!DrawFirst, Air!FoldSet, Air!MapThenFoldSet
  <2>2. Solves([S \in SUBSET {} |-> <<>>])
    OBVIOUS
  <2>3. Solves(iter)
    <3> HIDE DEF Solves
    <3> QED BY <2>2
  <2> HIDE DEF iter
  <2>4. iter[{}] = <<>>
    BY <2>3
  <2> QED BY <2>1, <2>4
<1>2. Air!DrawFirst({s}) = Air!DrawResult(<<>>, s, TRUE)
  <2> DEFINE Solves(h) == h = [S \in SUBSET {s} |->
               IF S = {} THEN <<>>
               ELSE Air!DrawResult(h[S \ {CHOOSE x \in S : TRUE}], CHOOSE x \in S : TRUE, TRUE)]
             iter == CHOOSE h : Solves(h)
             one == [S \in SUBSET {s} |-> IF S = {} THEN <<>> ELSE Air!DrawResult(<<>>, s, TRUE)]
  <2>1. Air!DrawFirst({s}) = iter[{s}]
    BY DEF Air!DrawFirst, Air!FoldSet, Air!MapThenFoldSet
  <2>2. \A S \in SUBSET {s} : S # {} => S = {s} /\ (CHOOSE x \in S : TRUE) = s /\ S \ {s} = {}
    OBVIOUS
  <2>3. Solves(one)
    <3>1. one[{}] = <<>> /\ one[{s}] = Air!DrawResult(<<>>, s, TRUE)
      OBVIOUS
    <3>2. ASSUME NEW S \in SUBSET {s}, S # {}
          PROVE  one[S] = Air!DrawResult(one[S \ {CHOOSE x \in S : TRUE}], CHOOSE x \in S : TRUE, TRUE)
      <4>1. S = {s} /\ (CHOOSE x \in S : TRUE) = s /\ S \ {s} = {}
        BY <2>2, <3>2
      <4> HIDE DEF one
      <4> QED BY <3>1, <4>1
    <3> QED BY <3>2
  <2>4. Solves(iter)
    <3> HIDE DEF Solves, one
    <3> QED BY <2>3
  <2> HIDE DEF iter
  <2>5. iter[{}] = <<>> /\ iter[{s}] = Air!DrawResult(iter[{}], s, TRUE)
    <3>1. iter[{}] = <<>>
      BY <2>4
    <3>2. {s} # {} /\ (CHOOSE x \in {s} : TRUE) = s /\ {s} \ {s} = {}
      BY <2>2
    <3>3. iter[{s}] = Air!DrawResult(iter[{s} \ {CHOOSE x \in {s} : TRUE}], CHOOSE x \in {s} : TRUE, TRUE)
      BY <2>4, <3>2
    <3> QED BY <3>1, <3>2, <3>3
  <2> QED BY <2>1, <2>5
<1> QED BY <1>1, <1>2

\* After k of the stations: what is listed, in which order, and what is not.
Named(list, name) == \E i \in 1 .. Len(list) : list[i].ssid = name
DrawnTo(list, base, o, k) ==
  /\ Len(base) <= Len(list) /\ Len(list) <= Places
  /\ \A i \in 1 .. Len(base) : list[i] = base[i]
  /\ \A i, j \in 1 .. Len(list) : list[i].ssid = list[j].ssid => i = j
  /\ \A i \in 1 .. Len(list) : i > Len(base) =>
       /\ ~list[i].connected
       /\ \E m \in 1 .. k :
            /\ list[i].rssi = o[m].rssi
            /\ \A l \in 1 .. m - 1 : \E j \in 1 .. i - 1 : list[j].ssid = o[l].ssid
  /\ Len(list) < Places => \A m \in 1 .. k : Named(list, o[m].ssid)

LEMMA OneDrawn ==
  ASSUME NEW o \in Seq(MCStations), NEW k \in 1 .. Len(o), NEW base \in Lists,
         NEW list \in Lists, DrawnTo(list, base, o, k - 1)
  PROVE  DrawnTo(Air!DrawResult(list, o[k], FALSE), base, o, k)
<1> DEFINE s == o[k]
           item == [ssid |-> s.ssid, bssid |-> s.bssid, rssi |-> s.rssi, connected |-> FALSE]
           longer == Append(list, item)
<1>1. k - 1 \in Nat /\ 1 .. k - 1 \subseteq 1 .. k /\ Places \in Nat
  BY NetworkAssumption
<1>2. Len(list) \in Nat /\ Len(base) \in Nat
  BY DEF Lists
<1>3. CASE Named(list, s.ssid) \/ Len(list) = Places
  <2>1. Air!DrawResult(list, s, FALSE) = list
    BY <1>3 DEF Air!DrawResult, Named, Lists
  <2>2. Len(list) < Places => \A m \in 1 .. k : Named(list, o[m].ssid)
    BY <1>1, <1>2, <1>3 DEF DrawnTo
  <2>3. DrawnTo(list, base, o, k)
    BY <1>1, <2>2 DEF DrawnTo
  <2> QED BY <2>1, <2>3
<1>4. CASE ~Named(list, s.ssid) /\ Len(list) # Places
  <2>1. Air!DrawResult(list, s, FALSE) = longer
    BY <1>4 DEF Air!DrawResult, Named, Lists
  <2>2. /\ Len(longer) = Len(list) + 1 /\ longer[Len(list) + 1] = item
        /\ \A i \in 1 .. Len(list) : longer[i] = list[i]
    <3>1. list \in Seq(Labels)
      BY DEF Lists
    <3> QED BY <3>1
  <2> HIDE DEF longer
  <2>3. Len(list) < Places
    BY <1>1, <1>2, <1>4 DEF DrawnTo
  <2>4. Len(base) <= Len(longer) /\ Len(longer) <= Places
    BY <1>1, <1>2, <2>2, <2>3 DEF DrawnTo
  <2>5. \A i \in 1 .. Len(base) : longer[i] = base[i]
    BY <1>2, <2>2 DEF DrawnTo
  <2>6. \A i, j \in 1 .. Len(longer) : longer[i].ssid = longer[j].ssid => i = j
    <3>1. \A i \in 1 .. Len(longer) : i \in 1 .. Len(list) \/ i = Len(list) + 1
      BY <1>2, <2>2
    <3>2. \A i \in 1 .. Len(list) : longer[i].ssid # s.ssid
      BY <1>4, <2>2 DEF Named
    <3>3. \A i, j \in 1 .. Len(list) : list[i].ssid = list[j].ssid => i = j
      BY DEF DrawnTo
    <3>4. longer[Len(list) + 1].ssid = s.ssid
      BY <2>2
    <3> HIDE DEF s
    <3> QED BY <2>2, <3>1, <3>2, <3>3, <3>4
  <2>7. ASSUME NEW i \in 1 .. Len(longer), i > Len(base)
        PROVE  /\ ~longer[i].connected
               /\ \E m \in 1 .. k :
                    /\ longer[i].rssi = o[m].rssi
                    /\ \A l \in 1 .. m - 1 : \E j \in 1 .. i - 1 : longer[j].ssid = o[l].ssid
    <3>1. CASE i \in 1 .. Len(list)
      <4>1. PICK m \in 1 .. k - 1 :
              /\ list[i].rssi = o[m].rssi
              /\ \A l \in 1 .. m - 1 : \E j \in 1 .. i - 1 : list[j].ssid = o[l].ssid
        BY <2>7, <3>1 DEF DrawnTo
      <4>2. \A j \in 1 .. i - 1 : longer[j] = list[j]
        BY <1>2, <2>2, <3>1
      <4>3. m \in 1 .. k /\ longer[i].rssi = o[m].rssi /\ ~longer[i].connected
        BY <1>1, <2>2, <2>7, <3>1, <4>1 DEF DrawnTo
      <4> QED BY <4>1, <4>2, <4>3
    <3>2. CASE i = Len(list) + 1
      <4>1. longer[i].rssi = o[k].rssi /\ ~longer[i].connected
        BY <2>2, <3>2
      <4>2. ASSUME NEW l \in 1 .. k - 1 PROVE \E j \in 1 .. i - 1 : longer[j].ssid = o[l].ssid
        <5>1. PICK j \in 1 .. Len(list) : list[j].ssid = o[l].ssid
          BY <2>3 DEF DrawnTo, Named
        <5>2. j \in 1 .. i - 1
          BY <1>2, <3>2
        <5> QED BY <2>2, <5>1, <5>2
      <4> QED BY <4>1, <4>2
    <3> QED BY <1>2, <2>2, <3>1, <3>2
  <2>8. \A m \in 1 .. k : Named(longer, o[m].ssid)
    <3>1. ASSUME NEW m \in 1 .. k - 1 PROVE Named(longer, o[m].ssid)
      <4>1. PICK j \in 1 .. Len(list) : list[j].ssid = o[m].ssid
        BY <2>3 DEF DrawnTo, Named
      <4> QED BY <1>2, <2>2, <4>1 DEF Named
    <3>2. Named(longer, o[k].ssid)
      <4>1. Len(list) + 1 \in 1 .. Len(longer)
        BY <1>2, <2>2
      <4> QED BY <2>2, <4>1 DEF Named
    <3>3. \A m \in 1 .. k : m \in 1 .. k - 1 \/ m = k
      OBVIOUS
    <3> QED BY <3>1, <3>2, <3>3
  <2>9. DrawnTo(longer, base, o, k)
    BY <2>4, <2>5, <2>6, <2>7, <2>8 DEF DrawnTo
  <2> QED BY <2>1, <2>9
<1> QED BY <1>3, <1>4

\* The whole list of the stations S, drawn while the device was connected to b.
Begun(base, S, b) ==
  \/ base = <<>> /\ \A s \in S : s.bssid # b
  \/ \E s \in S : s.bssid = b /\ base = <<[ssid |-> s.ssid, bssid |-> s.bssid, rssi |-> s.rssi,
                                           connected |-> TRUE]>>
ListHolds(list, S, b) ==
  /\ \A i \in 1 .. Len(list) : \A j \in 1 .. i - 1 : list[j].ssid # list[i].ssid
  /\ \A i \in 1 .. Len(list) :
       list[i].connected <=> i = 1 /\ (\E s \in S : s.bssid = b) /\ list[i].bssid = b
  /\ (\E s \in S : s.bssid = b) => list[1].bssid = b
  /\ \A i \in 1 .. Len(list) : ~list[i].connected =>
       \A s \in S : (\A j \in 1 .. i - 1 : list[j].ssid # s.ssid) => s.rssi <= list[i].rssi
  /\ Len(list) < Places => \A s \in S : Named(list, s.ssid)

LEMMA AllDrawn ==
  ASSUME NEW S \in SUBSET MCStations, NEW b, NEW base \in Lists, Begun(base, S, b),
         NEW o \in Seq(S), \A s \in S : \E k \in 1 .. Len(o) : o[k] = s,
         \A i, j \in DOMAIN o : i < j => o[i].rssi >= o[j].rssi
  PROVE  /\ Air!DrawResults(base, o) \in Lists
         /\ ListHolds(Air!DrawResults(base, o), S, b)
<1> DEFINE n == Len(o)
<1>0. DOMAIN o = 1 .. n
  OBVIOUS
<1>1. o \in Seq(MCStations) /\ n \in Nat /\ \A k \in 1 .. n : o[k] \in S
  OBVIOUS
<1>2. PICK g \in [0 .. n -> Lists] :
        /\ g[0] = base /\ Air!DrawResults(base, o) = g[n]
        /\ \A k \in 1 .. n : g[k] = Air!DrawResult(g[k - 1], o[k], FALSE)
  BY <1>1, ResultsDrawn
<1> DEFINE T == {k \in 0 .. n : DrawnTo(g[k], base, o, k)}
<1>3. 0 \in T
  <2>1. Len(base) \in Nat /\ Len(base) <= 1 /\ Len(base) <= Places
    <3>1. Len(base) = 0 \/ Len(base) = 1
      BY DEF Begun
    <3>2. Places \in Nat /\ Places # 0
      BY NetworkAssumption
    <3> QED BY <3>1, <3>2
  <2>2. \A i, j \in 1 .. Len(base) : i = j /\ ~(i > Len(base))
    BY <2>1
  <2>3. 1 .. 0 = {}
    OBVIOUS
  <2>4. DrawnTo(base, base, o, 0)
    <3>1. Len(base) <= Len(base)
      BY <2>1
    <3> QED BY <2>1, <2>2, <2>3, <3>1 DEF DrawnTo
  <2> QED BY <1>1, <1>2, <2>4
<1>4. ASSUME NEW k \in 1 .. n, k - 1 \in T PROVE k \in T
  <2>1. g[k - 1] \in Lists /\ DrawnTo(g[k - 1], base, o, k - 1) /\ k \in 0 .. n
    <3>1. k \in 0 .. n /\ k - 1 \in 0 .. n
      BY <1>1
    <3> HIDE DEF n
    <3> QED BY <1>2, <1>4, <3>1
  <2>2. DrawnTo(Air!DrawResult(g[k - 1], o[k], FALSE), base, o, k)
    BY <1>1, <2>1, OneDrawn
  <2> QED BY <1>2, <2>1, <2>2
<1>5. DrawnTo(g[n], base, o, n)
  <2>1. T \in SUBSET (0 .. n)
    OBVIOUS
  <2> HIDE DEF T
  <2>2. T = 0 .. n
    BY <1>1, <1>3, <1>4, <2>1, Steps
  <2>3. n \in T
    BY <1>1, <2>2
  <2> QED BY <2>3 DEF T
<1> DEFINE list == g[n]
<1>6. list \in Lists /\ list = Air!DrawResults(base, o) /\ DrawnTo(list, base, o, n)
  BY <1>1, <1>2, <1>5
<1>7. Len(list) \in Nat /\ Len(base) \in {0, 1} /\ DOMAIN list = 1 .. Len(list)
  <2>1. Len(base) \in {0, 1}
    BY DEF Begun
  <2> QED BY <1>6, <2>1 DEF Lists
<1> HIDE DEF T, list, n
<1>8. \A i \in 1 .. Len(list) : \A j \in 1 .. i - 1 : list[j].ssid # list[i].ssid
  <2>1. \A i \in 1 .. Len(list) : \A j \in 1 .. i - 1 : j \in 1 .. Len(list) /\ j # i
    BY <1>7
  <2> QED BY <1>6, <2>1 DEF DrawnTo
<1>9. \A i \in 1 .. Len(list) :
        list[i].connected <=> i = 1 /\ (\E s \in S : s.bssid = b) /\ list[i].bssid = b
  <2>1. CASE base = <<>> /\ \A s \in S : s.bssid # b
    BY <1>6, <1>7, <2>1 DEF DrawnTo
  <2>2. ASSUME NEW s \in S, s.bssid = b, base = <<[ssid |-> s.ssid, bssid |-> s.bssid,
                 rssi |-> s.rssi, connected |-> TRUE]>>
        PROVE  \A i \in 1 .. Len(list) :
                 list[i].connected <=> i = 1 /\ (\E t \in S : t.bssid = b) /\ list[i].bssid = b
    <3>1. Len(base) = 1 /\ base[1].connected /\ base[1].bssid = b
      BY <2>2
    <3>2. list[1].connected /\ list[1].bssid = b
      BY <1>6, <3>1 DEF DrawnTo
    <3>3. \A i \in 1 .. Len(list) : i # 1 => ~list[i].connected
      BY <1>6, <1>7, <3>1 DEF DrawnTo
    <3> QED BY <2>2, <3>2, <3>3
  <2> QED BY <2>1, <2>2 DEF Begun
<1>10. (\E s \in S : s.bssid = b) => list[1].bssid = b
  <2>1. ASSUME NEW s \in S, s.bssid = b, base = <<[ssid |-> s.ssid, bssid |-> s.bssid,
                 rssi |-> s.rssi, connected |-> TRUE]>>
        PROVE  list[1].bssid = b
    <3>1. Len(base) = 1 /\ base[1].bssid = b
      BY <2>1
    <3> QED BY <1>6, <3>1 DEF DrawnTo
  <2> QED BY <2>1 DEF Begun
<1>11. ASSUME NEW i \in 1 .. Len(list), ~list[i].connected, NEW s \in S,
              \A j \in 1 .. i - 1 : list[j].ssid # s.ssid
       PROVE  s.rssi <= list[i].rssi
  <2>1. i > Len(base)
    <3>1. CASE base = <<>> /\ \A t \in S : t.bssid # b
      BY <3>1
    <3>2. ASSUME NEW t \in S, base = <<[ssid |-> t.ssid, bssid |-> t.bssid,
                 rssi |-> t.rssi, connected |-> TRUE]>>
          PROVE  i > Len(base)
      <4>1. Len(base) = 1 /\ base[1].connected
        BY <3>2
      <4>2. list[1].connected
        BY <1>6, <4>1 DEF DrawnTo
      <4> QED BY <1>7, <1>11, <4>1, <4>2
    <3> QED BY <3>1, <3>2 DEF Begun
  <2>2. PICK m \in 1 .. n :
          /\ list[i].rssi = o[m].rssi
          /\ \A l \in 1 .. m - 1 : \E j \in 1 .. i - 1 : list[j].ssid = o[l].ssid
    BY <1>6, <2>1 DEF DrawnTo
  <2>3. PICK k \in 1 .. n : o[k] = s
    BY DEF n
  <2>4. ~(k \in 1 .. m - 1)
    BY <1>11, <2>2, <2>3
  <2>5. k = m \/ m < k
    BY <1>1, <2>4
  <2>6. o[k].rssi \in Int /\ (m < k => o[m].rssi >= o[k].rssi)
    <3>1. \A t \in MCStations : t.rssi \in Int
      BY StrengthsAreNumbers
    <3>2. k \in DOMAIN o /\ m \in DOMAIN o
      <4> HIDE DEF n
      <4> QED BY <1>0
    <3>3. m < k => o[m].rssi >= o[k].rssi
      BY <3>2
    <3>4. o[k] \in MCStations
      <4>1. o[k] \in S
        BY <1>1
      <4> QED BY <4>1
    <3> QED BY <3>1, <3>3, <3>4
  <2> QED BY <2>2, <2>3, <2>5, <2>6
<1>12. Len(list) < Places => \A s \in S : Named(list, s.ssid)
  <2>1. \A s \in S : \E k \in 1 .. n : o[k] = s
    BY DEF n
  <2> QED BY <1>6, <2>1 DEF DrawnTo
<1>13. ListHolds(list, S, b)
  BY <1>8, <1>9, <1>10, <1>11, <1>12 DEF ListHolds
<1> QED BY <1>6, <1>13

AirInv ==
  /\ results \in SUBSET MCStations /\ \A s, t \in results : s.bssid = t.bssid => s = t
  /\ items \in Lists
  /\ ~draws => ListHolds(items, results, marked)

LEMMA AirKeeps == AirInv /\ [Air!Next]_(Air!vars) => AirInv'
<1> SUFFICES ASSUME AirInv, [Air!Next]_(Air!vars) PROVE AirInv'
  OBVIOUS
<1>1. ASSUME NEW air \in SUBSET MCStations, Air!ReadResults(air) PROVE AirInv'
  BY <1>1 DEF Air!ReadResults, Air!ScanResults, AirInv
<1>2. CASE \/ UNCHANGED Air!vars \/ \E b \in Air!Bssids \cup {0} : Air!ReadStatus(b)
           \/ \E i \in 0 .. Len(items) : Air!Focus(i)
  <2>1. UNCHANGED <<results, items, draws, marked>>
    BY <1>2 DEF Air!vars, Air!ReadStatus, Air!Focus
  <2> QED BY <2>1 DEF AirInv
<1>3. CASE Air!Draw
  <2>1. UNCHANGED <<results, bssid>> /\ marked' = bssid
    BY <1>3 DEF Air!Draw
  <2>2. PICK o \in Air!Orders : items' = Air!DrawResults(Air!Connected, o)
    BY <1>3 DEF Air!Draw
  <2>3. Air!Connected \in Lists /\ Begun(Air!Connected, results, bssid)
    <3> DEFINE T == {s \in results : s.bssid = bssid}
    <3>1. CASE T = {}
      <4>1. Air!Connected = <<>>
        <5>1. Station("n", 1, 1) \in MCStations
          BY DEF MCStations
        <5>2. Air!Connected = Air!DrawFirst({})
          BY <3>1 DEF Air!Connected
        <5> QED BY <5>1, <5>2, FirstDrawn
      <4>2. \A s \in results : s.bssid # bssid
        BY <3>1
      <4>3. <<>> \in Lists
        BY DEF Lists
      <4> QED BY <4>1, <4>2, <4>3 DEF Begun
    <3>2. ASSUME NEW s \in T
          PROVE  Air!Connected \in Lists /\ Begun(Air!Connected, results, bssid)
      <4>1. T = {s} /\ s \in MCStations /\ s \in results /\ s.bssid = bssid
        BY DEF AirInv
      <4>2. Air!Connected = Air!DrawResult(<<>>, s, TRUE)
        <5>1. Air!Connected = Air!DrawFirst({s})
          BY <4>1 DEF Air!Connected
        <5> QED BY <4>1, <5>1, FirstDrawn
      <4>3. Air!DrawResult(<<>>, s, TRUE) \in Lists
        <5>1. <<>> \in Lists
          BY DEF Lists
        <5> QED BY <4>1, <5>1, LabelDrawn
      <4>4. Air!DrawResult(<<>>, s, TRUE) =
              <<[ssid |-> s.ssid, bssid |-> s.bssid, rssi |-> s.rssi, connected |-> TRUE]>>
        <5>1. Len(<<>>) = 0 /\ DOMAIN <<>> = {} /\ Places # 0
          BY NetworkAssumption
        <5>2. \A x : Append(<<>>, x) = <<x>>
          OBVIOUS
        <5> QED BY <5>1, <5>2 DEF Air!DrawResult
      <4> QED BY <4>1, <4>2, <4>3, <4>4 DEF Begun
    <3> QED BY <3>1, <3>2
  <2>4. o \in Air!SetToSeqs(results) /\ \A i, j \in DOMAIN o : i < j => o[i].rssi >= o[j].rssi
    BY <2>2 DEF Air!Orders
  <2>5. IsFiniteSet(results)
    BY StationsAreFinite, FS_Subset DEF AirInv
  <2>6. o \in Seq(results) /\ \A s \in results : \E k \in 1 .. Len(o) : o[k] = s
    BY <2>4, <2>5, AllInOrder
  <2>7. results \in SUBSET MCStations
    BY DEF AirInv
  <2>8. items' \in Lists /\ ListHolds(items', results, bssid)
    BY <2>2, <2>3, <2>4, <2>6, <2>7, AllDrawn
  <2> QED BY <2>1, <2>8 DEF AirInv
<1> QED BY <1>1, <1>2, <1>3 DEF Air!Next

LEMMA AirInit == Air!Init => AirInv
<1> SUFFICES ASSUME Air!Init PROVE AirInv
  OBVIOUS
<1>1. results = {} /\ items = <<>> /\ Len(items) = 0 /\ items \in Lists
  BY DEF Air!Init, Lists
<1>2. ListHolds(items, results, marked)
  BY <1>1 DEF ListHolds
<1> QED BY <1>1, <1>2 DEF AirInv

LEMMA ListTrue == AirInv => Air!ListIsTrue
<1> SUFFICES ASSUME AirInv, ~draws PROVE Air!ListIsTrue
  BY DEF Air!ListIsTrue
<1>1. DOMAIN items = 1 .. Len(items) /\ ListHolds(items, results, marked)
  BY DEF AirInv, Lists
<1> QED BY <1>1 DEF ListHolds, Named, Air!ListIsTrue

-----------------------------------------------------------------------------
(* What the kernel's tables say.                                           *)

Rows == [oif : {"shown", "other", "none"}, to : Int, metric : Int,
         via : {"none", "a", "b", "c", "g", "h", "i", "j", "mangled"}]
RowLists == Seq(Rows)
Row(i, t, v, m) == [oif |-> i, to |-> t, via |-> v, metric |-> m]

Numbers(q) == DOMAIN KernelTables[q]
Entry(q, n) == [type |-> "entry", of |-> q, n |-> n]
Done(q) == [type |-> "done", of |-> q, n |-> 0]
Given(q, n) == Kernel!Added(q, Entry(q, n))
Tied(q, n) == Kernel!Uses(KernelTables[q][n])

LEMMA Sizes ==
  /\ Numbers(1) = {1, 2} /\ Numbers(2) = {1} /\ Numbers(3) = {1, 2, 3} /\ Numbers(4) = {1, 2}
  /\ \A n \in Numbers(1) : n = 1 \/ n = 2
  /\ \A n \in Numbers(3) : n = 1 \/ n = 2 \/ n = 3
  /\ \A n \in Numbers(4) : n = 1 \/ n = 2
  /\ \A q \in 1 .. 4 : Numbers(q) \in SUBSET (1 .. 3)
<1>1. Numbers(1) = 1 .. 2 /\ Numbers(2) = 1 .. 1 /\ Numbers(3) = 1 .. 3 /\ Numbers(4) = 1 .. 2
  BY DEF Numbers, KernelTables
<1>2. 1 .. 2 = {1, 2} /\ 1 .. 1 = {1} /\ 1 .. 3 = {1, 2, 3}
  OBVIOUS
<1>3. \A q \in 1 .. 4 : q = 1 \/ q = 2 \/ q = 3 \/ q = 4
  OBVIOUS
<1> QED BY <1>1, <1>2, <1>3

LEMMA OneRow ==
  ASSUME NEW s, NEW r, s = <<r>>
  PROVE  Len(s) = 1 /\ s[1] = r /\ \A l \in 1 .. Len(s) : s[l] = r
OBVIOUS

Along(r, i, v) == [r EXCEPT !.oif = i, !.via = v]

LEMMA RowChanged ==
  ASSUME NEW i, NEW t, NEW v, NEW m, NEW j, NEW w
  PROVE  Along(Row(i, t, v, m), j, w) = Row(j, t, w, m)
<1>1. [Row(i, t, v, m) EXCEPT !.oif = j] = Row(j, t, v, m)
  BY DEF Row
<1>2. [Row(j, t, v, m) EXCEPT !.via = w] = Row(j, t, w, m)
  BY DEF Row
<1>3. [Row(i, t, v, m) EXCEPT !.oif = j, !.via = w] =
        [[Row(i, t, v, m) EXCEPT !.oif = j] EXCEPT !.via = w]
  OBVIOUS
<1> QED BY <1>1, <1>2, <1>3 DEF Along

LEMMA GivenIs ==
  /\ Given(1, 1) = <<Row("shown", 24, "a", -1)>> /\ Given(1, 2) = <<>>
  /\ Given(2, 1) = <<Row("shown", 24, "c", -1)>>
  /\ Given(3, 1) = <<Row("shown", 0, "none", -1)>>
  /\ Given(3, 2) = <<Row("other", 0, "g", 1), Row("shown", 0, "h", 1)>>
  /\ Given(3, 3) = <<Row("shown", 24, "none", 2)>>
  /\ Given(4, 1) = <<Row("other", 0, "i", 1)>> /\ Given(4, 2) = <<Row("shown", 0, "j", 2)>>
<1> USE DEF Given, Entry, Kernel!Added, Kernel!IsRoute, Kernel!Address, Row
<1>1. Given(1, 1) = <<Row("shown", 24, "a", -1)>> /\ Given(1, 2) = <<>>
  BY DEF KernelTables, AddressOf
<1>2. Given(2, 1) = <<Row("shown", 24, "c", -1)>>
  BY DEF KernelTables, AddressOf
<1>3. ASSUME NEW q \in {3, 4}, NEW n, NEW i, NEW t, NEW v, NEW m,
             KernelTables[q][n] = RouteOf(i, t, v, m)
      PROVE  Given(q, n) = <<Row(i, t, v, m)>>
  <2> DEFINE e == KernelTables[q][n]
  <2>1. e.hops = <<>> /\ Kernel!Address(e) = Row(i, t, v, m)
    BY <1>3 DEF RouteOf
  <2>2. Given(q, n) = Kernel!Routes(e)
    OBVIOUS
  <2> HIDE DEF e
  <2>3. Kernel!Hops(e) = <<>>
    BY <2>1 DEF Kernel!Hops
  <2>4. \A x : Append(<<>>, x) = <<x>>
    OBVIOUS
  <2> QED BY <2>1, <2>2, <2>3, <2>4 DEF Kernel!Routes
<1>4. Given(3, 1) = <<Row("shown", 0, "none", -1)>>
  <2>1. KernelTables[3][1] = RouteOf("shown", 0, "none", -1)
    BY DEF KernelTables
  <2> HIDE DEF Given, Row
  <2> QED BY <1>3, <2>1
<1>5. Given(3, 3) = <<Row("shown", 24, "none", 2)>>
  <2>1. KernelTables[3][3] = RouteOf("shown", 24, "none", 2)
    BY DEF KernelTables
  <2> HIDE DEF Given, Row
  <2> QED BY <1>3, <2>1
<1>6. Given(4, 1) = <<Row("other", 0, "i", 1)>> /\ Given(4, 2) = <<Row("shown", 0, "j", 2)>>
  <2>1. KernelTables[4][1] = RouteOf("other", 0, "i", 1)
    BY DEF KernelTables
  <2>2. KernelTables[4][2] = RouteOf("shown", 0, "j", 2)
    BY DEF KernelTables
  <2> HIDE DEF Given, Row
  <2> QED BY <1>3, <2>1, <2>2
<1>7. Given(3, 2) = <<Row("other", 0, "g", 1), Row("shown", 0, "h", 1)>>
  <2> DEFINE e == KernelTables[3][2]
             hops == <<[oif |-> "other", via |-> "g"], [oif |-> "shown", via |-> "h"]>>
  <2>1. e = [oif |-> "none", to |-> 0, via |-> "none", metric |-> 1, hops |-> hops]
    BY DEF KernelTables, RouteOf
  <2> HIDE DEF e
  <2>2. Kernel!Address(e) = Row("none", 0, "none", 1)
    BY <2>1
  <2>3. DOMAIN hops = 1 .. 2 /\ hops[1].oif = "other" /\ hops[1].via = "g"
        /\ hops[2].oif = "shown" /\ hops[2].via = "h" /\ hops # <<>>
    OBVIOUS
  <2>4. Kernel!Hops(e) = <<Row("other", 0, "g", 1), Row("shown", 0, "h", 1)>>
    <3>1. Kernel!Hops(e) = [i \in 1 .. 2 |->
            Along(Row("none", 0, "none", 1), hops[i].oif, hops[i].via)]
      BY <2>1, <2>2, <2>3 DEF Kernel!Hops, Along
    <3>2. /\ Along(Row("none", 0, "none", 1), "other", "g") = Row("other", 0, "g", 1)
          /\ Along(Row("none", 0, "none", 1), "shown", "h") = Row("shown", 0, "h", 1)
      <4> HIDE DEF Given, Entry, Kernel!Added, Kernel!IsRoute, Kernel!Address, Row
      <4>1. Along(Row("none", 0, "none", 1), "other", "g") = Row("other", 0, "g", 1)
        BY RowChanged
      <4>2. Along(Row("none", 0, "none", 1), "shown", "h") = Row("shown", 0, "h", 1)
        BY RowChanged
      <4> QED BY <4>1, <4>2
    <3>3. \A i \in 1 .. 2 : i = 1 \/ i = 2
      OBVIOUS
    <3> HIDE DEF hops, Row
    <3>4. Kernel!Hops(e) = [i \in 1 .. 2 |-> IF i = 1 THEN Row("other", 0, "g", 1) ELSE Row("shown", 0, "h", 1)]
      <4>1. \A i \in 1 .. 2 : Along(Row("none", 0, "none", 1), hops[i].oif, hops[i].via)
              = IF i = 1 THEN Row("other", 0, "g", 1) ELSE Row("shown", 0, "h", 1)
        BY <2>3, <3>2, <3>3
      <4> QED BY <3>1, <4>1
    <3>5. \A x, y : [i \in 1 .. 2 |-> IF i = 1 THEN x ELSE y] = <<x, y>>
      OBVIOUS
    <3> QED BY <3>4, <3>5
  <2>5. Kernel!Routes(e) = Kernel!Hops(e)
    BY <2>1, <2>3 DEF Kernel!Routes, Kernel!NoAddress
  <2>6. Given(3, 2) = Kernel!Routes(e)
    BY DEF e
  <2> QED BY <2>4, <2>5, <2>6
<1> QED BY <1>1, <1>2, <1>4, <1>5, <1>6, <1>7

\* All that the proofs use of the tables: their interfaces exist, an address is
\* listed for its interface, and of two default routes the kernel lists the one
\* that it prefers first.
LEMMA GivenInOrder ==
  ASSUME NEW q \in 1 .. 4, NEW n \in Numbers(q)
  PROVE  /\ Given(q, n) \in RowLists
         /\ Tied(q, n) \subseteq {"shown", "other", "none"}
         /\ ~Kernel!IsRoute(q) => \A i \in 1 .. Len(Given(q, n)) : Given(q, n)[i].oif = "shown"
         /\ \A m \in Numbers(q) : n <= m =>
              \A i \in 1 .. Len(Given(q, n)) : \A j \in 1 .. Len(Given(q, m)) :
                Given(q, n)[i].to = 0 /\ Given(q, m)[j].to = 0 =>
                  Given(q, n)[i].metric <= Given(q, m)[j].metric
<1>1. \/ (q = 1 /\ n = 1) \/ (q = 1 /\ n = 2) \/ (q = 2 /\ n = 1)
      \/ (q = 3 /\ n = 1) \/ (q = 3 /\ n = 2) \/ (q = 3 /\ n = 3)
      \/ (q = 4 /\ n = 1) \/ (q = 4 /\ n = 2)
  <2>1. q = 1 \/ q = 2 \/ q = 3 \/ q = 4
    OBVIOUS
  <2>2. CASE q = 1
    <3>1. n = 1 \/ n = 2
      BY <2>2, Sizes
    <3> QED BY <2>2, <3>1
  <2>3. CASE q = 2
    BY <2>3, Sizes
  <2>4. CASE q = 3
    <3>1. n = 1 \/ n = 2 \/ n = 3
      BY <2>4, Sizes
    <3> QED BY <2>4, <3>1
  <2>5. CASE q = 4
    <3>1. n = 1 \/ n = 2
      BY <2>5, Sizes
    <3> QED BY <2>5, <3>1
  <2> QED BY <2>1, <2>2, <2>3, <2>4, <2>5
<1>2. Given(q, n) \in RowLists
  <2>2. \A r, s \in Rows : <<r>> \in Seq(Rows) /\ <<r, s>> \in Seq(Rows) /\ <<>> \in Seq(Rows)
    OBVIOUS
  <2> HIDE DEF Rows
  <2>3. /\ Given(1, 1) \in Seq(Rows) /\ Given(1, 2) \in Seq(Rows) /\ Given(2, 1) \in Seq(Rows)
        /\ Given(3, 1) \in Seq(Rows) /\ Given(3, 2) \in Seq(Rows) /\ Given(3, 3) \in Seq(Rows)
        /\ Given(4, 1) \in Seq(Rows) /\ Given(4, 2) \in Seq(Rows)
    <3>1. <<>> \in Seq(Rows)
      OBVIOUS
    <3>6. /\ Row("shown", 24, "a", -1) \in Rows /\ Row("shown", 24, "c", -1) \in Rows
          /\ Row("shown", 0, "none", -1) \in Rows /\ Row("shown", 24, "none", 2) \in Rows
      BY DEF Row, Rows
    <3>7. /\ Row("other", 0, "g", 1) \in Rows /\ Row("shown", 0, "h", 1) \in Rows
          /\ Row("other", 0, "i", 1) \in Rows /\ Row("shown", 0, "j", 2) \in Rows
      BY DEF Row, Rows
    <3>2. Given(1, 1) \in Seq(Rows) /\ Given(1, 2) \in Seq(Rows) /\ Given(2, 1) \in Seq(Rows)
      BY <2>2, <3>1, <3>6, GivenIs
    <3>3. Given(3, 1) \in Seq(Rows) /\ Given(3, 3) \in Seq(Rows)
      BY <2>2, <3>6, <3>7, GivenIs
    <3>4. Given(3, 2) \in Seq(Rows)
      BY <2>2, <3>6, <3>7, GivenIs
    <3>5. Given(4, 1) \in Seq(Rows) /\ Given(4, 2) \in Seq(Rows)
      BY <2>2, <3>6, <3>7, GivenIs
    <3> QED BY <3>2, <3>3, <3>4, <3>5
  <2> QED BY <1>1, <2>3 DEF RowLists
<1>3. Tied(q, n) \subseteq {"shown", "other", "none"}
  <2> USE DEF Tied, Kernel!Uses, KernelTables, AddressOf, RouteOf
  <2>1. q = 1 /\ n = 1 => Tied(q, n) \subseteq {"shown", "other", "none"}
    OBVIOUS
  <2>2. q = 1 /\ n = 2 => Tied(q, n) \subseteq {"shown", "other", "none"}
    OBVIOUS
  <2>3. q = 2 /\ n = 1 => Tied(q, n) \subseteq {"shown", "other", "none"}
    OBVIOUS
  <2>4. q = 3 /\ n = 1 => Tied(q, n) \subseteq {"shown", "other", "none"}
    OBVIOUS
  <2>5. q = 3 /\ n = 2 => Tied(q, n) \subseteq {"shown", "other", "none"}
    OBVIOUS
  <2>6. q = 3 /\ n = 3 => Tied(q, n) \subseteq {"shown", "other", "none"}
    OBVIOUS
  <2>7. q = 4 /\ n = 1 => Tied(q, n) \subseteq {"shown", "other", "none"}
    OBVIOUS
  <2>8. q = 4 /\ n = 2 => Tied(q, n) \subseteq {"shown", "other", "none"}
    OBVIOUS
  <2> HIDE DEF Tied, Kernel!Uses, KernelTables, AddressOf, RouteOf
  <2> QED BY <1>1, <2>1, <2>2, <2>3, <2>4, <2>5, <2>6, <2>7, <2>8
<1>4. ~Kernel!IsRoute(q) => \A i \in 1 .. Len(Given(q, n)) : Given(q, n)[i].oif = "shown"
  BY <1>1, GivenIs DEF Row, Kernel!IsRoute
<1>5. ASSUME NEW m \in Numbers(q), n <= m,
             NEW i \in 1 .. Len(Given(q, n)), NEW j \in 1 .. Len(Given(q, m)),
             Given(q, n)[i].to = 0, Given(q, m)[j].to = 0
      PROVE  Given(q, n)[i].metric <= Given(q, m)[j].metric
  <2> DEFINE Best(p, k) == \A l \in 1 .. Len(Given(p, k)) : Given(p, k)[l].to = 0 =>
               /\ p \in {3, 4} /\ (p = 3 => k \in {1, 2})
               /\ Given(p, k)[l].metric = IF p = 3 /\ k = 1 THEN -1 ELSE IF p = 3 THEN 1 ELSE k
  <2> USE GivenIs DEF Row
  <2>1. Best(1, 1) /\ Best(1, 2) /\ Best(2, 1)
    <3>1. \A l \in 1 .. Len(Given(1, 1)) : Given(1, 1)[l].to = 24
      BY OneRow
    <3>2. \A l \in 1 .. Len(Given(2, 1)) : Given(2, 1)[l].to = 24
      BY OneRow
    <3>3. 1 .. Len(Given(1, 2)) = {}
      OBVIOUS
    <3> QED BY <3>1, <3>2, <3>3
  <2>2. Best(3, 1) /\ Best(3, 3)
    <3>1. \A l \in 1 .. Len(Given(3, 1)) : Given(3, 1)[l].metric = -1
      BY OneRow
    <3>2. \A l \in 1 .. Len(Given(3, 3)) : Given(3, 3)[l].to = 24
      BY OneRow
    <3> QED BY <3>1, <3>2
  <2>3. Best(3, 2)
    <3>1. Len(Given(3, 2)) = 2 /\ Given(3, 2)[1].metric = 1 /\ Given(3, 2)[2].metric = 1
      OBVIOUS
    <3>2. \A l \in 1 .. 2 : l = 1 \/ l = 2
      OBVIOUS
    <3>3. \A l \in 1 .. Len(Given(3, 2)) : Given(3, 2)[l].metric = 1
      BY <3>1, <3>2
    <3> HIDE GivenIs
    <3> QED BY <3>3
  <2>4. Best(4, 1) /\ Best(4, 2)
    <3>1. \A l \in 1 .. Len(Given(4, 1)) : Given(4, 1)[l].metric = 1
      BY OneRow
    <3>2. \A l \in 1 .. Len(Given(4, 2)) : Given(4, 2)[l].metric = 2
      BY OneRow
    <3> QED BY <3>1, <3>2
  <2>5. \A k \in Numbers(q) : k \in {1, 2, 3} /\ Best(q, k)
    <3> HIDE GivenIs DEF Best
    <3>1. q = 1 \/ q = 2 \/ q = 3 \/ q = 4
      OBVIOUS
    <3>2. CASE q = 1
      BY <2>1, <3>2, Sizes
    <3>3. CASE q = 2
      BY <2>1, <3>3, Sizes
    <3>4. CASE q = 3
      BY <2>2, <2>3, <3>4, Sizes
    <3>5. CASE q = 4
      BY <2>4, <3>5, Sizes
    <3> QED BY <3>1, <3>2, <3>3, <3>4, <3>5
  <2>6. n \in {1, 2, 3} /\ Best(q, n) /\ m \in {1, 2, 3} /\ Best(q, m)
    <3> HIDE DEF Best
    <3> QED BY <2>5
  <2> HIDE GivenIs
  <2>7. q \in {3, 4} /\ (q = 3 => n \in {1, 2} /\ m \in {1, 2})
    BY <1>5, <2>6
  <2>8. Given(q, n)[i].metric = IF q = 3 /\ n = 1 THEN -1 ELSE IF q = 3 THEN 1 ELSE n
    BY <1>5, <2>6
  <2>9. Given(q, m)[j].metric = IF q = 3 /\ m = 1 THEN -1 ELSE IF q = 3 THEN 1 ELSE m
    BY <1>5, <2>6
  <2> HIDE DEF Best
  <2>10. CASE q = 3
    BY <1>5, <2>7, <2>8, <2>9, <2>10
  <2>11. CASE q = 4
    BY <1>5, <2>8, <2>9, <2>11
  <2> QED BY <2>7, <2>10, <2>11
<1> QED BY <1>2, <1>3, <1>4, <1>5

-----------------------------------------------------------------------------
(* The loops over the messages and over the routes.                        *)

Kept(own, r) == IF r.oif = "shown" THEN Append(own, r) ELSE own
Bests == {<<>>} \cup {<<r>> : r \in Rows}

LEMMA KeptIsList == ASSUME NEW own \in RowLists, NEW r \in Rows
                    PROVE  Kept(own, r) \in RowLists /\ <<>> \in RowLists
BY DEF Kept, RowLists

LEMMA BetterIsBest == ASSUME NEW best \in Bests, NEW r \in Rows
                      PROVE  Kernel!Better(best, r) \in Bests /\ <<>> \in Bests
BY DEF Bests, Kernel!Better

LEMMA ReadRuns ==
  ASSUME NEW q, NEW S, NEW o \in Seq(S),
         \A k \in 1 .. Len(o) : Kernel!Added(q, o[k]) \in RowLists
  PROVE  \E g \in [0 .. Len(o) -> RowLists] :
           /\ g[0] = <<>> /\ Kernel!Read(q, o) = g[Len(o)]
           /\ \A k \in 1 .. Len(o) : g[k] = g[k - 1] \o Kernel!Added(q, o[k])
<1> DEFINE n == Len(o)
           step == [p \in (1 .. n) \X RowLists |-> p[2] \o Kernel!Added(q, o[p[1]])]
           Solves(h) == h = [s \in SUBSET (1 .. n) |->
             IF s = {} THEN <<>> ELSE h[s \ {Top(s)}] \o Kernel!Added(q, o[Top(s)])]
           iter == CHOOSE h : Solves(h)
           g == Loop(iter, n)
<1>1. n \in Nat /\ DOMAIN o = 1 .. n
  OBVIOUS
<1>2. Kernel!Read(q, o) = iter[1 .. n]
  BY <1>1 DEF Kernel!Read, Kernel!FoldLeft, Kernel!MapThenFoldSet, Kernel!Max, Top
<1>3. <<>> \in RowLists /\ n \in Nat /\ step \in [(1 .. n) \X RowLists -> RowLists]
  <2>1. \A a, b \in RowLists : a \o b \in RowLists /\ <<>> \in RowLists
    BY DEF RowLists
  <2>2. \A k \in 1 .. n : Kernel!Added(q, o[k]) \in RowLists
    OBVIOUS
  <2> HIDE DEF n
  <2>3. <<>> \in RowLists
    BY DEF RowLists
  <2> QED BY <1>1, <2>1, <2>2, <2>3
<1>4. Solves(iter)
  <2> HIDE DEF step, n
  <2>1. PICK h \in [SUBSET (1 .. n) -> RowLists] : Recurs(h, <<>>, n, step)
    BY <1>3, FoldExists
  <2>2. ASSUME NEW s \in SUBSET (1 .. n), s # {}
        PROVE  h[s] = h[s \ {Top(s)}] \o Kernel!Added(q, o[Top(s)])
    <3>1. Top(s) \in 1 .. n /\ h[s \ {Top(s)}] \in RowLists
      BY <1>1, <2>2, TopIsGreatest
    <3> QED BY <2>1, <2>2, <3>1 DEF step, Recurs
  <2>3. Solves(h)
    BY <2>1, <2>2 DEF Recurs
  <2> HIDE DEF Solves
  <2> QED BY <2>3
<1> HIDE DEF n, iter
<1>5. iter[{}] = <<>> /\ \A k \in 1 .. n : iter[1 .. k] = iter[1 .. k - 1] \o Kernel!Added(q, o[k])
  <2>1. iter[{}] = <<>>
    BY <1>4
  <2>2. ASSUME NEW k \in 1 .. n
        PROVE  iter[1 .. k] = iter[1 .. k - 1] \o Kernel!Added(q, o[k])
    <3>1. /\ 1 .. k \in SUBSET (1 .. n) /\ 1 .. k # {}
          /\ Top(1 .. k) = k /\ (1 .. k) \ {k} = 1 .. k - 1
      BY <1>1, TopOfInterval
    <3> QED BY <1>4, <3>1
  <2> QED BY <2>1, <2>2
<1>6. Unrolls(iter, RowLists, <<>>, n, step)
  BY <1>5 DEF Unrolls
<1>7. g[n] = iter[1 .. n]
  BY <1>1 DEF Loop
<1>8. Runs(g, RowLists, <<>>, n, step)
  <2> HIDE DEF step
  <2> QED BY <1>3, <1>6, FoldRuns
<1> HIDE DEF g
<1>9. \A k \in 1 .. n : g[k] = g[k - 1] \o Kernel!Added(q, o[k])
  <2>1. \A k \in 1 .. n : k - 1 \in 0 .. n
    BY <1>1
  <2> QED BY <1>8, <2>1 DEF Runs
<1> QED BY <1>2, <1>7, <1>8, <1>9 DEF n, Runs

LEMMA FilterRuns ==
  ASSUME NEW o \in RowLists
  PROVE  \E g \in [0 .. Len(o) -> RowLists] :
           /\ g[0] = <<>> /\ Kernel!ByIfname(o) = g[Len(o)]
           /\ \A k \in 1 .. Len(o) : g[k] = Kept(g[k - 1], o[k])
<1> DEFINE n == Len(o)
           step == [p \in (1 .. n) \X RowLists |-> Kept(p[2], o[p[1]])]
           Solves(h) == h = [s \in SUBSET (1 .. n) |->
             IF s = {} THEN <<>> ELSE Kept(h[s \ {Top(s)}], o[Top(s)])]
           iter == CHOOSE h : Solves(h)
           g == Loop(iter, n)
<1>1. n \in Nat /\ DOMAIN o = 1 .. n /\ \A k \in 1 .. n : o[k] \in Rows
  BY DEF RowLists
<1>2. Kernel!ByIfname(o) = iter[1 .. n]
  BY <1>1 DEF Kept, Kernel!ByIfname, Kernel!FoldLeft, Kernel!MapThenFoldSet, Kernel!Max, Top
<1>3. <<>> \in RowLists /\ n \in Nat /\ step \in [(1 .. n) \X RowLists -> RowLists]
  BY <1>1, KeptIsList
<1>4. Solves(iter)
  <2> HIDE DEF step, n
  <2>1. PICK h \in [SUBSET (1 .. n) -> RowLists] : Recurs(h, <<>>, n, step)
    BY <1>3, FoldExists
  <2>2. ASSUME NEW s \in SUBSET (1 .. n), s # {}
        PROVE  h[s] = Kept(h[s \ {Top(s)}], o[Top(s)])
    <3>1. Top(s) \in 1 .. n /\ h[s \ {Top(s)}] \in RowLists
      BY <1>1, <2>2, TopIsGreatest
    <3> QED BY <2>1, <2>2, <3>1 DEF step, Recurs
  <2>3. Solves(h)
    BY <2>1, <2>2 DEF Recurs
  <2> HIDE DEF Solves
  <2> QED BY <2>3
<1> HIDE DEF n, iter
<1>5. iter[{}] = <<>> /\ \A k \in 1 .. n : iter[1 .. k] = Kept(iter[1 .. k - 1], o[k])
  <2>1. iter[{}] = <<>>
    BY <1>4
  <2>2. ASSUME NEW k \in 1 .. n
        PROVE  iter[1 .. k] = Kept(iter[1 .. k - 1], o[k])
    <3>1. /\ 1 .. k \in SUBSET (1 .. n) /\ 1 .. k # {}
          /\ Top(1 .. k) = k /\ (1 .. k) \ {k} = 1 .. k - 1
      BY <1>1, TopOfInterval
    <3> QED BY <1>4, <3>1
  <2> QED BY <2>1, <2>2
<1>6. Unrolls(iter, RowLists, <<>>, n, step)
  BY <1>5 DEF Unrolls
<1>7. g[n] = iter[1 .. n]
  BY <1>1 DEF Loop
<1>8. Runs(g, RowLists, <<>>, n, step)
  <2> HIDE DEF step
  <2> QED BY <1>3, <1>6, FoldRuns
<1> HIDE DEF g
<1>9. \A k \in 1 .. n : g[k] = Kept(g[k - 1], o[k])
  <2>1. \A k \in 1 .. n : k - 1 \in 0 .. n
    BY <1>1
  <2> QED BY <1>8, <2>1 DEF Runs
<1> QED BY <1>2, <1>7, <1>8, <1>9 DEF n, Runs

LEMMA FindRuns ==
  ASSUME NEW o \in RowLists
  PROVE  \E g \in [0 .. Len(o) -> Bests] :
           /\ g[0] = <<>> /\ Kernel!Find(o) = g[Len(o)]
           /\ \A k \in 1 .. Len(o) : g[k] = Kernel!Better(g[k - 1], o[k])
<1> DEFINE n == Len(o)
           step == [p \in (1 .. n) \X Bests |-> Kernel!Better(p[2], o[p[1]])]
           Solves(h) == h = [s \in SUBSET (1 .. n) |->
             IF s = {} THEN <<>> ELSE Kernel!Better(h[s \ {Top(s)}], o[Top(s)])]
           iter == CHOOSE h : Solves(h)
           g == Loop(iter, n)
<1>1. n \in Nat /\ DOMAIN o = 1 .. n /\ \A k \in 1 .. n : o[k] \in Rows
  BY DEF RowLists
<1>2. Kernel!Find(o) = iter[1 .. n]
  BY <1>1 DEF Kernel!Find, Kernel!FoldLeft, Kernel!MapThenFoldSet, Kernel!Max, Top
<1>3. <<>> \in Bests /\ n \in Nat /\ step \in [(1 .. n) \X Bests -> Bests]
  <2>1. <<>> \in Bests
    BY DEF Bests
  <2> QED BY <1>1, <2>1, BetterIsBest
<1>4. Solves(iter)
  <2> HIDE DEF step, n
  <2>1. PICK h \in [SUBSET (1 .. n) -> Bests] : Recurs(h, <<>>, n, step)
    BY <1>3, FoldExists
  <2>2. ASSUME NEW s \in SUBSET (1 .. n), s # {}
        PROVE  h[s] = Kernel!Better(h[s \ {Top(s)}], o[Top(s)])
    <3>1. Top(s) \in 1 .. n /\ h[s \ {Top(s)}] \in Bests
      BY <1>1, <2>2, TopIsGreatest
    <3> QED BY <2>1, <2>2, <3>1 DEF step, Recurs
  <2>3. Solves(h)
    BY <2>1, <2>2 DEF Recurs
  <2> HIDE DEF Solves
  <2> QED BY <2>3
<1> HIDE DEF n, iter
<1>5. iter[{}] = <<>> /\ \A k \in 1 .. n : iter[1 .. k] = Kernel!Better(iter[1 .. k - 1], o[k])
  <2>1. iter[{}] = <<>>
    BY <1>4
  <2>2. ASSUME NEW k \in 1 .. n
        PROVE  iter[1 .. k] = Kernel!Better(iter[1 .. k - 1], o[k])
    <3>1. /\ 1 .. k \in SUBSET (1 .. n) /\ 1 .. k # {}
          /\ Top(1 .. k) = k /\ (1 .. k) \ {k} = 1 .. k - 1
      BY <1>1, TopOfInterval
    <3> QED BY <1>4, <3>1
  <2> QED BY <2>1, <2>2
<1>6. Unrolls(iter, Bests, <<>>, n, step)
  BY <1>5 DEF Unrolls
<1>7. g[n] = iter[1 .. n]
  BY <1>1 DEF Loop
<1>8. Runs(g, Bests, <<>>, n, step)
  <2> HIDE DEF step
  <2> QED BY <1>3, <1>6, FoldRuns
<1> HIDE DEF g
<1>9. \A k \in 1 .. n : g[k] = Kernel!Better(g[k - 1], o[k])
  <2>1. \A k \in 1 .. n : k - 1 \in 0 .. n
    BY <1>1
  <2> QED BY <1>8, <2>1 DEF Runs
<1> QED BY <1>2, <1>7, <1>8, <1>9 DEF n, Runs

\* A table of the query q that holds what the kernel lists under the numbers M,
\* the routes that it prefers first.
Sorted(t) == \A i, j \in 1 .. Len(t) :
  i < j /\ t[i].to = 0 /\ t[j].to = 0 => t[i].metric <= t[j].metric
Among(r, t) == \E j \in 1 .. Len(t) : t[j] = r
Holds(t, q, M) ==
  /\ t \in RowLists /\ Sorted(t)
  /\ \A j \in 1 .. Len(t) : \E m \in M : Among(t[j], Given(q, m))
  /\ \A m \in M : \A k \in 1 .. Len(Given(q, m)) : Among(Given(q, m)[k], t)

LEMMA HoldsMore ==
  ASSUME NEW q \in 1 .. 4, NEW M \in SUBSET Numbers(q), NEW n \in Numbers(q),
         \A m \in M : m < n, NEW t, Holds(t, q, M)
  PROVE  Holds(t \o Given(q, n), q, M \cup {n})
<1> DEFINE s == Given(q, n)
           u == t \o s
<1>1. t \in Seq(Rows) /\ s \in Seq(Rows) /\ Len(t) \in Nat /\ Len(s) \in Nat
  BY GivenInOrder DEF Holds, RowLists
<1>2. /\ u \in Seq(Rows) /\ Len(u) = Len(t) + Len(s)
      /\ \A i \in 1 .. Len(t) : u[i] = t[i]
      /\ \A i \in 1 .. Len(s) : u[Len(t) + i] = s[i]
  BY <1>1
<1>3. \A i \in 1 .. Len(u) : i \in 1 .. Len(t) \/ \E k \in 1 .. Len(s) : i = Len(t) + k
  <2>1. ASSUME NEW i \in 1 .. Len(u), ~(i \in 1 .. Len(t))
        PROVE  \E k \in 1 .. Len(s) : i = Len(t) + k
    <3>1. i - Len(t) \in 1 .. Len(s) /\ i = Len(t) + (i - Len(t))
      BY <1>1, <1>2, <2>1
    <3> QED BY <3>1
  <2> QED BY <2>1
<1>4. \A i \in 1 .. Len(t) : i \in 1 .. Len(u)
  BY <1>1, <1>2
<1>5. \A i \in 1 .. Len(s) : Len(t) + i \in 1 .. Len(u)
  BY <1>1, <1>2
<1> HIDE DEF u, s
<1>6. Sorted(u)
  <2> SUFFICES ASSUME NEW i \in 1 .. Len(u), NEW j \in 1 .. Len(u), i < j, u[i].to = 0, u[j].to = 0
               PROVE  u[i].metric <= u[j].metric
    BY DEF Sorted
  <2>1. CASE j \in 1 .. Len(t)
    <3>1. i \in 1 .. Len(t)
      BY <1>1, <2>1
    <3> QED BY <1>2, <2>1, <3>1 DEF Holds, Sorted
  <2>2. ASSUME NEW l \in 1 .. Len(s), j = Len(t) + l, i \in 1 .. Len(t)
        PROVE  u[i].metric <= u[j].metric
    <3>1. PICK m \in M : Among(t[i], Given(q, m))
      BY <2>2 DEF Holds
    <3>2. PICK k \in 1 .. Len(Given(q, m)) : Given(q, m)[k] = t[i]
      BY <3>1 DEF Among
    <3>3. m \in Numbers(q) /\ m <= n
      <4>1. m \in 1 .. 3 /\ n \in 1 .. 3 /\ m < n
        BY Sizes
      <4> QED BY <4>1
    <3>4. u[i] = Given(q, m)[k] /\ u[j] = Given(q, n)[l]
      BY <1>2, <2>2, <3>2 DEF s
    <3> QED BY <2>2, <3>3, <3>4, GivenInOrder DEF s
  <2>3. ASSUME NEW l \in 1 .. Len(s), j = Len(t) + l, NEW k \in 1 .. Len(s), i = Len(t) + k
        PROVE  u[i].metric <= u[j].metric
    <3>1. n <= n
      <4>1. n \in 1 .. 3
        BY Sizes
      <4> QED BY <4>1
    <3>2. u[i] = Given(q, n)[k] /\ u[j] = Given(q, n)[l]
      BY <1>2, <2>3 DEF s
    <3> QED BY <2>3, <3>1, <3>2, GivenInOrder DEF s
  <2> QED BY <1>3, <2>1, <2>2, <2>3
<1>7. \A j \in 1 .. Len(u) : \E m \in M \cup {n} : Among(u[j], Given(q, m))
  <2>1. \A j \in 1 .. Len(t) : \E m \in M : Among(u[j], Given(q, m))
    BY <1>2 DEF Holds
  <2>2. \A k \in 1 .. Len(s) : Among(u[Len(t) + k], Given(q, n))
    BY <1>2 DEF Among, s
  <2> QED BY <1>3, <2>1, <2>2
<1>8. \A m \in M \cup {n} : \A k \in 1 .. Len(Given(q, m)) : Among(Given(q, m)[k], u)
  <2>1. ASSUME NEW m \in M, NEW k \in 1 .. Len(Given(q, m)) PROVE Among(Given(q, m)[k], u)
    <3>1. PICK j \in 1 .. Len(t) : t[j] = Given(q, m)[k]
      BY DEF Holds, Among
    <3> QED BY <1>2, <1>4, <3>1 DEF Among
  <2>2. \A k \in 1 .. Len(s) : Among(s[k], u)
    BY <1>2, <1>5 DEF Among
  <2> QED BY <2>1, <2>2 DEF s
<1>9. u \in RowLists
  BY <1>2 DEF RowLists
<1> QED BY <1>6, <1>7, <1>8, <1>9 DEF Holds, u, s

Entries(q, ns) == [i \in 1 .. Len(ns) |-> Entry(q, ns[i])]
Upward(ns) == \A i, j \in 1 .. Len(ns) : i < j => ns[i] < ns[j]
Below(M, ns) == \A m \in M : \A i \in 1 .. Len(ns) : m < ns[i]
First(ns, k) == {ns[i] : i \in 1 .. k}

LEMMA ListsConcat ==
  ASSUME NEW a \in RowLists, NEW b \in RowLists, NEW c \in RowLists
  PROVE  (a \o b) \o c = a \o (b \o c)
BY ConcatAssociative DEF RowLists

LEMMA ReadOn ==
  ASSUME NEW q \in 1 .. 4, NEW M \in SUBSET Numbers(q), NEW ns \in Seq(Numbers(q)),
         Upward(ns), Below(M, ns), NEW t, Holds(t, q, M)
  PROVE  Holds(t \o Kernel!Read(q, Entries(q, ns)), q, M \cup First(ns, Len(ns)))
<1> DEFINE n == Len(ns)
           o == Entries(q, ns)
<1>1. n \in Nat /\ \A k \in 1 .. n : ns[k] \in Numbers(q)
  OBVIOUS
<1>2. o \in Seq({Entry(q, m) : m \in Numbers(q)}) /\ Len(o) = n /\ \A k \in 1 .. n : o[k] = Entry(q, ns[k])
  BY <1>1 DEF Entries
<1>3. \A k \in 1 .. n : Kernel!Added(q, o[k]) = Given(q, ns[k]) /\ Given(q, ns[k]) \in RowLists
  BY <1>1, <1>2, GivenInOrder DEF Given
<1> HIDE DEF n, o
<1>4. PICK g \in [0 .. n -> RowLists] :
        /\ g[0] = <<>> /\ Kernel!Read(q, o) = g[n]
        /\ \A k \in 1 .. n : g[k] = g[k - 1] \o Kernel!Added(q, o[k])
  <2> DEFINE S == {Entry(q, m) : m \in Numbers(q)}
  <2>1. o \in Seq(S) /\ \A k \in 1 .. Len(o) : Kernel!Added(q, o[k]) \in RowLists
    BY <1>2, <1>3
  <2> HIDE DEF S
  <2>2. \E g \in [0 .. Len(o) -> RowLists] :
          /\ g[0] = <<>> /\ Kernel!Read(q, o) = g[Len(o)]
          /\ \A k \in 1 .. Len(o) : g[k] = g[k - 1] \o Kernel!Added(q, o[k])
    BY <2>1, ReadRuns
  <2> QED BY <1>2, <2>2
<1> DEFINE T == {k \in 0 .. n : Holds(t \o g[k], q, M \cup First(ns, k))}
<1>5. 0 \in T
  <2>1. t \in Seq(Rows) /\ t \o <<>> = t
    BY DEF Holds, RowLists
  <2>2. First(ns, 0) = {}
    BY DEF First
  <2>3. M \cup {} = M
    OBVIOUS
  <2> QED BY <1>1, <1>4, <2>1, <2>2, <2>3
<1>6. ASSUME NEW k \in 1 .. n, k - 1 \in T PROVE k \in T
  <2>1. k \in 0 .. n /\ k - 1 \in 0 .. n /\ Holds(t \o g[k - 1], q, M \cup First(ns, k - 1))
    BY <1>1, <1>6
  <2>2. M \cup First(ns, k - 1) \in SUBSET Numbers(q)
    <3>1. \A i \in 1 .. k - 1 : i \in 1 .. n
      BY <1>1
    <3> QED BY <1>1, <3>1 DEF First
  <2>3. \A m \in M \cup First(ns, k - 1) : m < ns[k]
    <3>1. \A i \in 1 .. k - 1 : i \in 1 .. n /\ i < k
      BY <1>1
    <3>2. \A i \in 1 .. k - 1 : ns[i] < ns[k]
      BY <3>1 DEF Upward, n
    <3>3. \A m \in M : m < ns[k]
      BY DEF Below, n
    <3> QED BY <3>2, <3>3 DEF First
  <2>4. Holds((t \o g[k - 1]) \o Given(q, ns[k]), q, (M \cup First(ns, k - 1)) \cup {ns[k]})
    BY <1>1, <2>1, <2>2, <2>3, HoldsMore
  <2>5. (t \o g[k - 1]) \o Given(q, ns[k]) = t \o g[k]
    <3>1. t \in RowLists /\ g[k - 1] \in RowLists /\ Given(q, ns[k]) \in RowLists
      BY <1>3, <1>4, <2>1 DEF Holds
    <3>2. (t \o g[k - 1]) \o Given(q, ns[k]) = t \o (g[k - 1] \o Given(q, ns[k]))
      BY <3>1, ListsConcat
    <3>3. g[k] = g[k - 1] \o Given(q, ns[k])
      BY <1>3, <1>4
    <3> QED BY <3>2, <3>3
  <2>6. (M \cup First(ns, k - 1)) \cup {ns[k]} = M \cup First(ns, k)
    <3>1. \A i : i \in 1 .. k <=> i \in 1 .. k - 1 \/ i = k
      BY <1>1
    <3> QED BY <3>1 DEF First
  <2> QED BY <2>1, <2>4, <2>5, <2>6
<1>7. n \in T
  <2>1. T \in SUBSET (0 .. n)
    OBVIOUS
  <2> HIDE DEF T
  <2>2. T = 0 .. n
    BY <1>1, <1>5, <1>6, <2>1, Steps
  <2> QED BY <1>1, <2>2
<1> QED BY <1>4, <1>7 DEF n, o

KeptTo(u, t, k) ==
  /\ u \in RowLists /\ Sorted(u)
  /\ \A j \in 1 .. Len(u) : u[j].oif = "shown" /\ \E a \in 1 .. k : t[a] = u[j]
  /\ \A a \in 1 .. k : t[a].oif = "shown" => Among(t[a], u)

LEMMA FilterIs ==
  ASSUME NEW t \in RowLists, Sorted(t)
  PROVE  KeptTo(Kernel!ByIfname(t), t, Len(t))
<1> DEFINE n == Len(t)
<1>1. n \in Nat /\ \A k \in 1 .. n : t[k] \in Rows
  BY DEF RowLists
<1>2. PICK g \in [0 .. n -> RowLists] :
        /\ g[0] = <<>> /\ Kernel!ByIfname(t) = g[n]
        /\ \A k \in 1 .. n : g[k] = Kept(g[k - 1], t[k])
  BY FilterRuns
<1> DEFINE T == {k \in 0 .. n : KeptTo(g[k], t, k)}
<1>3. 0 \in T
  <2>1. <<>> \in RowLists /\ Len(<<>>) = 0
    BY DEF RowLists
  <2>2. 1 .. 0 = {}
    OBVIOUS
  <2>3. KeptTo(<<>>, t, 0)
    BY <2>1, <2>2 DEF KeptTo, Sorted
  <2> QED BY <1>1, <1>2, <2>3
<1>4. ASSUME NEW k \in 1 .. n, k - 1 \in T PROVE k \in T
  <2> DEFINE u == g[k - 1]
             v == g[k]
  <2>1. k \in 0 .. n /\ k - 1 \in 0 .. n /\ KeptTo(u, t, k - 1) /\ v = Kept(u, t[k])
    BY <1>1, <1>2, <1>4
  <2>2. \A a : a \in 1 .. k <=> a \in 1 .. k - 1 \/ a = k
    BY <1>1
  <2> HIDE DEF u, v, T
  <2>3. CASE t[k].oif # "shown"
    <3>1. v = u
      BY <2>1, <2>3 DEF Kept
    <3>2. KeptTo(u, t, k)
      BY <2>1, <2>2, <2>3 DEF KeptTo
    <3> QED BY <2>1, <3>1, <3>2 DEF T, v
  <2>4. CASE t[k].oif = "shown"
    <3>1. u \in Seq(Rows) /\ Len(u) \in Nat /\ v = Append(u, t[k])
      BY <2>1, <2>4 DEF Kept, KeptTo, RowLists
    <3>2. /\ v \in Seq(Rows) /\ Len(v) = Len(u) + 1 /\ v[Len(u) + 1] = t[k]
          /\ \A i \in 1 .. Len(u) : v[i] = u[i]
      BY <1>1, <3>1
    <3>3. \A i \in 1 .. Len(v) : i \in 1 .. Len(u) \/ i = Len(u) + 1
      BY <3>1, <3>2
    <3>4. Sorted(v)
      <4> SUFFICES ASSUME NEW i \in 1 .. Len(v), NEW j \in 1 .. Len(v), i < j,
                          v[i].to = 0, v[j].to = 0
                   PROVE  v[i].metric <= v[j].metric
        BY DEF Sorted
      <4>1. i \in 1 .. Len(u)
        BY <3>1, <3>3
      <4>2. CASE j \in 1 .. Len(u)
        BY <2>1, <3>2, <4>1, <4>2 DEF KeptTo, Sorted
      <4>3. CASE j = Len(u) + 1
        <5>1. PICK a \in 1 .. k - 1 : t[a] = u[i]
          BY <2>1, <4>1 DEF KeptTo
        <5>2. a \in 1 .. Len(t) /\ k \in 1 .. Len(t) /\ a < k
          BY <1>1
        <5> QED BY <3>2, <4>1, <4>3, <5>1, <5>2 DEF Sorted
      <4> QED BY <3>3, <4>2, <4>3
    <3>5. \A j \in 1 .. Len(v) : v[j].oif = "shown" /\ \E a \in 1 .. k : t[a] = v[j]
      BY <2>1, <2>2, <2>4, <3>2, <3>3 DEF KeptTo
    <3>6. \A a \in 1 .. k : t[a].oif = "shown" => Among(t[a], v)
      <4>1. \A i \in 1 .. Len(u) : i \in 1 .. Len(v)
        BY <3>1, <3>2
      <4>2. Len(u) + 1 \in 1 .. Len(v)
        BY <3>1, <3>2
      <4> QED BY <2>1, <2>2, <3>2, <4>1, <4>2 DEF KeptTo, Among
    <3>7. KeptTo(v, t, k)
      BY <3>2, <3>4, <3>5, <3>6 DEF KeptTo, RowLists
    <3> QED BY <2>1, <3>7 DEF T, v
  <2> QED BY <2>3, <2>4
<1>5. n \in T
  <2>1. T \in SUBSET (0 .. n)
    OBVIOUS
  <2> HIDE DEF T
  <2>2. T = 0 .. n
    BY <1>1, <1>3, <1>4, <2>1, Steps
  <2> QED BY <1>1, <2>2
<1> QED BY <1>2, <1>5

BestOf(best, t, k) ==
  \/ best = <<>> /\ \A a \in 1 .. k : t[a].to # 0
  \/ \E a \in 1 .. k :
       /\ best = <<t[a]>> /\ t[a].to = 0
       /\ \A b \in 1 .. k : t[b].to = 0 => t[a].metric <= t[b].metric

LEMMA FindIs ==
  ASSUME NEW t \in RowLists, Sorted(t)
  PROVE  BestOf(Kernel!Find(t), t, Len(t))
<1> DEFINE n == Len(t)
<1>1. n \in Nat /\ \A k \in 1 .. n : t[k] \in Rows
  BY DEF RowLists
<1>2. PICK g \in [0 .. n -> Bests] :
        /\ g[0] = <<>> /\ Kernel!Find(t) = g[n]
        /\ \A k \in 1 .. n : g[k] = Kernel!Better(g[k - 1], t[k])
  BY FindRuns
<1> DEFINE T == {k \in 0 .. n : BestOf(g[k], t, k)}
<1>3. 0 \in T
  <2>1. 1 .. 0 = {}
    OBVIOUS
  <2>2. BestOf(<<>>, t, 0)
    BY <2>1 DEF BestOf
  <2> QED BY <1>1, <1>2, <2>2
<1>4. ASSUME NEW k \in 1 .. n, k - 1 \in T PROVE k \in T
  <2> DEFINE best == g[k - 1]
             now == g[k]
  <2>1. k \in 0 .. n /\ k - 1 \in 0 .. n /\ BestOf(best, t, k - 1) /\ now = Kernel!Better(best, t[k])
    BY <1>1, <1>2, <1>4
  <2>2. \A a : a \in 1 .. k <=> a \in 1 .. k - 1 \/ a = k
    BY <1>1
  <2>3. \A a \in 1 .. n : t[a].metric \in Int
    BY <1>1 DEF Rows
  <2>4. \A a \in 1 .. k - 1 : a \in 1 .. n /\ a < k
    BY <1>1
  <2> HIDE DEF best, now, T, n
  <2>5. CASE t[k].to # 0
    <3>1. now = best
      BY <2>1, <2>5 DEF Kernel!Better
    <3>2. BestOf(best, t, k)
      BY <2>1, <2>2, <2>5 DEF BestOf
    <3> QED BY <2>1, <3>1, <3>2 DEF T, now
  <2>6. CASE t[k].to = 0 /\ best = <<>>
    <3>1. now = <<t[k]>>
      BY <2>1, <2>6 DEF Kernel!Better
    <3>2. \A a \in 1 .. k - 1 : t[a].to # 0
      BY <2>1, <2>6 DEF BestOf
    <3>3. \A b \in 1 .. k : t[b].to = 0 => t[k].metric <= t[b].metric
      BY <2>2, <2>3, <3>2
    <3>4. BestOf(now, t, k)
      BY <2>2, <2>6, <3>1, <3>3 DEF BestOf
    <3> QED BY <2>1, <3>4 DEF T, now
  <2>7. CASE t[k].to = 0 /\ best # <<>>
    <3>1. PICK a \in 1 .. k - 1 :
            /\ best = <<t[a]>> /\ t[a].to = 0
            /\ \A b \in 1 .. k - 1 : t[b].to = 0 => t[a].metric <= t[b].metric
      BY <2>1, <2>7 DEF BestOf
    <3>2. t[a].metric <= t[k].metric
      BY <2>4, <2>7, <3>1 DEF Sorted, n
    <3>3. best[1] = t[a] /\ t[a].metric \in Int /\ t[k].metric \in Int
      BY <2>3, <2>4, <3>1
    <3>4. ~(Kernel!Metric(t[k]) < best[1].metric)
      BY <3>2, <3>3 DEF Kernel!Metric, Kernel!Limit
    <3>5. now = best
      BY <2>1, <2>7, <3>4 DEF Kernel!Better
    <3>6. BestOf(best, t, k)
      BY <2>2, <3>1, <3>2 DEF BestOf
    <3> QED BY <2>1, <3>5, <3>6 DEF T, now
  <2> QED BY <2>5, <2>6, <2>7
<1>5. n \in T
  <2>1. T \in SUBSET (0 .. n)
    OBVIOUS
  <2> HIDE DEF T
  <2>2. T = 0 .. n
    BY <1>1, <1>3, <1>4, <2>1, Steps
  <2> QED BY <1>1, <2>2
<1> QED BY <1>2, <1>5

\* What LookIsTrue says of an answer, when the numbers A were listed all the time
\* and E at some moment.
Told(found, q, A, E) ==
  /\ Kernel!Own(q, A) \subseteq Kernel!ToSet(found)
  /\ Kernel!ToSet(found) \subseteq Kernel!Own(q, E)
  /\ Kernel!IsRoute(q) => \A r \in Kernel!ToSet(found) :
       r.to = 0 => Kernel!Find(found) # <<>> /\ Kernel!Find(found)[1].metric <= r.metric

LEMMA OwnIs ==
  ASSUME NEW q \in 1 .. 4, NEW S \in SUBSET Numbers(q), NEW r
  PROVE  r \in Kernel!Own(q, S) <=> \E n \in S : Among(r, Given(q, n)) /\ r.oif = "shown"
<1>1. \A n \in S : DOMAIN Given(q, n) = 1 .. Len(Given(q, n))
  BY GivenInOrder DEF RowLists
<1>2. \A n \in S : r \in Kernel!ToSet(Given(q, n)) <=> Among(r, Given(q, n))
  BY <1>1 DEF Kernel!ToSet, Among
<1>3. Kernel!Own(q, S) = UNION {{x \in Kernel!ToSet(Given(q, n)) : x.oif = "shown"} : n \in S}
  BY DEF Kernel!Own, Given, Entry
<1> QED BY <1>2, <1>3

LEMMA AnswerIsTrue ==
  ASSUME NEW q \in 1 .. 4, NEW E \in SUBSET Numbers(q), NEW M \in SUBSET E, NEW A \in SUBSET M,
         NEW t, Holds(t, q, M)
  PROVE  Told(IF Kernel!IsRoute(q) THEN Kernel!ByIfname(t) ELSE t, q, A, E)
<1> DEFINE found == IF Kernel!IsRoute(q) THEN Kernel!ByIfname(t) ELSE t
<1>1. t \in RowLists /\ Sorted(t)
  BY DEF Holds
<1>2. /\ found \in RowLists /\ Sorted(found)
      /\ \A j \in 1 .. Len(found) : found[j].oif = "shown" /\ Among(found[j], t)
      /\ \A a \in 1 .. Len(t) : t[a].oif = "shown" => Among(t[a], found)
  <2>1. CASE Kernel!IsRoute(q)
    BY <1>1, <2>1, FilterIs DEF KeptTo, Among
  <2>2. CASE ~Kernel!IsRoute(q)
    <3>1. \A j \in 1 .. Len(t) : Among(t[j], t)
      BY DEF Among
    <3>2. ASSUME NEW j \in 1 .. Len(t) PROVE t[j].oif = "shown"
      <4>1. PICK m \in M : Among(t[j], Given(q, m))
        BY DEF Holds
      <4> QED BY <2>2, <4>1, GivenInOrder DEF Among
    <3> QED BY <1>1, <2>2, <3>1, <3>2
  <2> QED BY <2>1, <2>2
<1> HIDE DEF found
<1>3. DOMAIN found = 1 .. Len(found)
  BY <1>2 DEF RowLists
<1>4. \A r : r \in Kernel!ToSet(found) <=> Among(r, found)
  BY <1>3 DEF Kernel!ToSet, Among
<1>5. ASSUME NEW r \in Kernel!Own(q, A) PROVE r \in Kernel!ToSet(found)
  <2>1. PICK n \in A : Among(r, Given(q, n)) /\ r.oif = "shown"
    BY OwnIs
  <2>2. PICK k \in 1 .. Len(Given(q, n)) : Given(q, n)[k] = r
    BY <2>1 DEF Among
  <2>3. Among(r, t)
    BY <2>2 DEF Holds
  <2>4. PICK a \in 1 .. Len(t) : t[a] = r
    BY <2>3 DEF Among
  <2> QED BY <1>2, <1>4, <2>1, <2>4
<1>6. ASSUME NEW r \in Kernel!ToSet(found) PROVE r \in Kernel!Own(q, E)
  <2>1. Among(r, t) /\ r.oif = "shown"
    BY <1>2, <1>4 DEF Among
  <2>2. PICK m \in M : Among(r, Given(q, m))
    BY <2>1 DEF Holds, Among
  <2> QED BY <2>1, <2>2, OwnIs
<1>7. ASSUME NEW r \in Kernel!ToSet(found), r.to = 0
      PROVE  Kernel!Find(found) # <<>> /\ Kernel!Find(found)[1].metric <= r.metric
  <2>1. PICK j \in 1 .. Len(found) : found[j] = r
    BY <1>4 DEF Among
  <2>2. BestOf(Kernel!Find(found), found, Len(found))
    BY <1>2, FindIs
  <2> QED BY <1>7, <2>1, <2>2 DEF BestOf
<1> QED BY <1>5, <1>6, <1>7 DEF Told, found

-----------------------------------------------------------------------------
(* A part of a dump.                                                       *)

Rank(rest, n) == Cardinality({m \in rest : m < n})
Ranked(rest, i) == CHOOSE n \in rest : Rank(rest, n) = i - 1

LEMMA Ranks ==
  ASSUME NEW N \in Nat, NEW rest \in SUBSET (1 .. N)
  PROVE  /\ IsFiniteSet(rest) /\ Cardinality(rest) \in Nat
         /\ \A i \in 1 .. Cardinality(rest) :
              Ranked(rest, i) \in rest /\ Rank(rest, Ranked(rest, i)) = i - 1
         /\ \A n \in rest : Rank(rest, n) \in 0 .. Cardinality(rest) - 1
                            /\ n = Ranked(rest, Rank(rest, n) + 1)
         /\ \A n, m \in rest : n < m <=> Rank(rest, n) < Rank(rest, m)
<1> DEFINE c == Cardinality(rest)
           f == [n \in rest |-> Rank(rest, n)]
           less(n) == {m \in rest : m < n}
<1>1. IsFiniteSet(rest) /\ c \in Nat
  <2>1. IsFiniteSet(1 .. N)
    BY FS_Interval
  <2>2. IsFiniteSet(rest)
    BY <2>1, FS_Subset
  <2> QED BY <2>2, FS_CardinalityType
<1>2. \A n \in rest : n \in 1 .. N
  OBVIOUS
<1>3. ASSUME NEW n \in rest PROVE IsFiniteSet(less(n)) /\ Rank(rest, n) \in 0 .. c - 1
  <2>1. less(n) \in SUBSET rest
    OBVIOUS
  <2>2. IsFiniteSet(less(n)) /\ Cardinality(less(n)) <= c /\ (c = Cardinality(less(n)) => rest = less(n))
    <3> HIDE DEF less
    <3> QED BY <1>1, <2>1, FS_Subset
  <2>3. n \notin less(n)
    BY <1>2
  <2>4. Cardinality(less(n)) \in Nat
    BY <2>2, FS_CardinalityType
  <2>5. Cardinality(less(n)) # c
    BY <2>2, <2>3
  <2>6. Rank(rest, n) = Cardinality(less(n))
    BY DEF Rank
  <2> HIDE DEF less, c
  <2> QED BY <1>1, <2>2, <2>4, <2>5, <2>6
<1>4. ASSUME NEW n \in rest, NEW m \in rest, n < m PROVE Rank(rest, n) < Rank(rest, m)
  <2>1. less(n) \in SUBSET less(m) /\ n \in less(m) /\ n \notin less(n)
    <3>1. n \in Nat /\ m \in Nat
      BY <1>2
    <3>2. ASSUME NEW x \in rest, x < n PROVE x < m
      <4>1. x \in Nat
        BY <1>2
      <4> QED BY <1>4, <3>1, <3>2, <4>1
    <3>3. \A x : x \in less(n) <=> x \in rest /\ x < n
      OBVIOUS
    <3>4. \A x : x \in less(m) <=> x \in rest /\ x < m
      OBVIOUS
    <3>5. ~(n < n)
      BY <3>1
    <3> HIDE DEF less
    <3> QED BY <1>4, <3>2, <3>3, <3>4, <3>5
  <2>2. Rank(rest, n) = Cardinality(less(n)) /\ Rank(rest, m) = Cardinality(less(m))
    BY DEF Rank
  <2>3. IsFiniteSet(less(m)) /\ Rank(rest, n) \in Nat /\ Rank(rest, m) \in Nat
    <3>1. Rank(rest, n) \in 0 .. c - 1 /\ Rank(rest, m) \in 0 .. c - 1
      BY <1>3
    <3> QED BY <1>1, <1>3, <3>1
  <2> HIDE DEF less
  <2>4. Cardinality(less(n)) <= Cardinality(less(m)) /\ (Cardinality(less(m)) = Cardinality(less(n)) => less(m) = less(n))
    BY <2>1, <2>3, FS_Subset
  <2> QED BY <2>1, <2>2, <2>3, <2>4
<1>5. \A n, m \in rest : n < m <=> Rank(rest, n) < Rank(rest, m)
  <2> SUFFICES ASSUME NEW n \in rest, NEW m \in rest PROVE n < m <=> Rank(rest, n) < Rank(rest, m)
    OBVIOUS
  <2>1. n \in Nat /\ m \in Nat /\ (n < m \/ n = m \/ m < n)
    BY <1>2
  <2>2. Rank(rest, n) \in Nat /\ Rank(rest, m) \in Nat
    <3>1. Rank(rest, n) \in 0 .. c - 1 /\ Rank(rest, m) \in 0 .. c - 1
      BY <1>3
    <3> QED BY <1>1, <3>1
  <2>3. m < n => Rank(rest, m) < Rank(rest, n)
    BY <1>4
  <2>4. n < m => Rank(rest, n) < Rank(rest, m)
    BY <1>4
  <2> QED BY <2>1, <2>2, <2>3, <2>4
<1>6. f \in Injection(rest, 0 .. c - 1)
  <2>1. f \in [rest -> 0 .. c - 1]
    BY <1>3
  <2>2. ASSUME NEW n \in rest, NEW m \in rest, f[n] = f[m] PROVE n = m
    <3>1. n \in Nat /\ m \in Nat
      BY <1>2
    <3>2. Rank(rest, n) = Rank(rest, m)
      BY <2>2
    <3>3. Rank(rest, n) \in 0 .. c - 1
      BY <1>3
    <3> HIDE DEF f, less
    <3>4. ~(Rank(rest, n) < Rank(rest, m)) /\ ~(Rank(rest, m) < Rank(rest, n))
      BY <1>1, <3>2, <3>3
    <3>5. ~(n < m) /\ ~(m < n)
      BY <1>5, <3>4
    <3> QED BY <3>1, <3>5
  <2> QED BY <2>1, <2>2 DEF Injection, IsInjective
<1>7. f \in Surjection(rest, 0 .. c - 1)
  <2>1. IsFiniteSet(0 .. c - 1) /\ Cardinality(0 .. c - 1) = c
    <3>1. 0 \in Int /\ c - 1 \in Int /\ (0 > c - 1 <=> c = 0) /\ c - 1 - 0 + 1 = c
      BY <1>1
    <3> HIDE DEF c
    <3> QED BY <3>1, FS_Interval
  <2> HIDE DEF f
  <2> QED BY <1>6, <2>1, FS_Injection DEF c
<1>8. ASSUME NEW i \in 1 .. c PROVE Ranked(rest, i) \in rest /\ Rank(rest, Ranked(rest, i)) = i - 1
  <2>1. i - 1 \in 0 .. c - 1
    BY <1>1
  <2>2. \E n \in rest : Rank(rest, n) = i - 1
    BY <1>7, <2>1 DEF Surjection
  <2> QED BY <2>2 DEF Ranked
<1>9. ASSUME NEW n \in rest PROVE n = Ranked(rest, Rank(rest, n) + 1)
  <2>1. Rank(rest, n) \in 0 .. c - 1
    BY <1>3
  <2>2. Rank(rest, n) + 1 \in 1 .. c /\ Rank(rest, n) + 1 - 1 = Rank(rest, n)
    BY <1>1, <2>1
  <2>3. Ranked(rest, Rank(rest, n) + 1) \in rest
        /\ Rank(rest, Ranked(rest, Rank(rest, n) + 1)) = Rank(rest, n)
    <3> DEFINE i == Rank(rest, n) + 1
    <3>0. \A a \in Nat : \A b \in 0 .. a - 1 : b + 1 \in 1 .. a /\ b + 1 - 1 = b
      OBVIOUS
    <3>1. i \in 1 .. c /\ i - 1 = Rank(rest, n)
      <4> HIDE DEF c, f, less
      <4> QED BY <1>1, <2>1, <3>0
    <3> HIDE DEF i, f, c
    <3>2. Ranked(rest, i) \in rest /\ Rank(rest, Ranked(rest, i)) = Rank(rest, n)
      BY <1>8, <3>1
    <3> QED BY <3>2 DEF i
  <2> DEFINE m == Ranked(rest, Rank(rest, n) + 1)
  <2>4. f[m] = f[n]
    BY <2>3
  <2> HIDE DEF f, m
  <2>5. f \in [rest -> 0 .. c - 1] /\ \A x, y \in rest : f[x] = f[y] => x = y
    BY <1>6 DEF Injection, IsInjective
  <2> QED BY <2>3, <2>4, <2>5 DEF m
<1> QED BY <1>1, <1>3, <1>5, <1>8, <1>9

Part(p, q, at, S, ns) ==
  /\ Upward(ns) /\ \A i \in 1 .. Len(ns) : ns[i] \in S /\ ns[i] >= at
  /\ \/ p.left = Kernel!NoDump /\ p.gram = Append(Entries(q, ns), Done(q))
     \/ /\ p.left # Kernel!NoDump /\ p.left.of = q /\ p.left.at \in Nat /\ p.left.at >= at
        /\ p.gram = Entries(q, ns)
        /\ \A i \in 1 .. Len(ns) : ns[i] < p.left.at
  /\ \A n \in S : n >= at =>
       n \in First(ns, Len(ns)) \/ (p.left # Kernel!NoDump /\ n >= p.left.at)

LEMMA FillIs ==
  ASSUME NEW d, NEW q \in 1 .. 4, d.of = q, d.at \in Nat, has[q] \in SUBSET Numbers(q),
         NEW p \in Kernel!Fill(d)
  PROVE  \E ns \in Seq(Numbers(q)) : Part(p, q, d.at, has[q], ns)
<1> DEFINE rest == {n \in has[q] : n >= d.at}
           c == Cardinality(rest)
           list(k) == [i \in 1 .. k |-> Ranked(rest, i)]
           piece(k) == [i \in 1 .. k |-> Entry(q, Ranked(rest, i))]
<1>1. p \in IF rest = {} THEN {[gram |-> <<Done(q)>>, left |-> Kernel!NoDump]}
            ELSE {[gram |-> Append(piece(c), Done(q)), left |-> Kernel!NoDump]}
                 \cup {[gram |-> piece(k), left |-> [of |-> q, at |-> piece(k)[k].n + 1]] : k \in {1, c}}
  <2>1. \A S : Kernel!Cardinality(S) = Cardinality(S)
    BY DEF Kernel!Cardinality, Cardinality
  <2>2. rest = {n \in has[d.of] : n >= d.at}
    OBVIOUS
  <2> HIDE DEF rest
  <2>3. \A i : Ranked(rest, i) = CHOOSE n \in rest : Kernel!Cardinality({m \in rest : m < n}) = i - 1
    BY <2>1 DEF Ranked, Rank
  <2>4. \A k : piece(k) = [i \in 1 .. k |-> [type |-> "entry", of |-> d.of,
           n |-> CHOOSE n \in rest : Kernel!Cardinality({m \in rest : m < n}) = i - 1]]
    BY <2>3 DEF Entry
  <2> HIDE DEF piece
  <2>5. Kernel!Fill(d) = IF rest = {} THEN {[gram |-> <<Done(q)>>, left |-> Kernel!NoDump]}
            ELSE {[gram |-> Append(piece(Kernel!Cardinality(rest)), Done(q)), left |-> Kernel!NoDump]}
                 \cup {[gram |-> piece(k), left |-> [of |-> q, at |-> piece(k)[k].n + 1]] :
                       k \in {1, Kernel!Cardinality(rest)}}
    <3> DEFINE P(k) == [i \in 1 .. k |-> [type |-> "entry", of |-> d.of,
                 n |-> CHOOSE n \in rest : Kernel!Cardinality({m \in rest : m < n}) = i - 1]]
               e == [type |-> "done", of |-> d.of, n |-> 0]
    <3>1. Kernel!Fill(d) = IF rest = {} THEN {[gram |-> <<e>>, left |-> Kernel!NoDump]}
            ELSE {[gram |-> Append(P(Kernel!Cardinality(rest)), e), left |-> Kernel!NoDump]}
                 \cup {[gram |-> P(k), left |-> [of |-> d.of, at |-> P(k)[k].n + 1]] :
                       k \in {1, Kernel!Cardinality(rest)}}
      BY <2>2 DEF Kernel!Fill
    <3>2. e = Done(q) /\ \A k : P(k) = piece(k)
      BY <2>4 DEF Done
    <3> HIDE DEF P, e
    <3> QED BY <3>1, <3>2
  <2> QED BY <2>1, <2>5
<1>2. rest \in SUBSET (1 .. 3) /\ rest \in SUBSET Numbers(q)
  BY Sizes
<1>3. /\ c \in Nat /\ (c = 0 <=> rest = {})
      /\ \A i \in 1 .. c : Ranked(rest, i) \in rest /\ Rank(rest, Ranked(rest, i)) = i - 1
      /\ \A n \in rest : Rank(rest, n) \in 0 .. c - 1 /\ n = Ranked(rest, Rank(rest, n) + 1)
      /\ \A n, m \in rest : n < m <=> Rank(rest, n) < Rank(rest, m)
  <2>1. 3 \in Nat
    OBVIOUS
  <2> HIDE DEF rest
  <2> QED BY <1>2, <2>1, Ranks, FS_EmptySet
<1>4. \A n : n \in rest <=> n \in has[q] /\ n >= d.at
  OBVIOUS
<1> HIDE DEF rest, c
<1>5. ASSUME NEW k \in 0 .. c
      PROVE  /\ list(k) \in Seq(Numbers(q)) /\ Len(list(k)) = k /\ Upward(list(k))
             /\ \A i \in 1 .. k : list(k)[i] \in has[q] /\ list(k)[i] >= d.at
             /\ piece(k) = Entries(q, list(k))
             /\ \A n \in rest : Rank(rest, n) < k => n \in First(list(k), k)
  <2>1. k \in Nat /\ \A i \in 1 .. k : i \in 1 .. c
    BY <1>3
  <2>2. list(k) \in Seq(Numbers(q)) /\ Len(list(k)) = k
    <3>1. \A i \in 1 .. k : Ranked(rest, i) \in Numbers(q)
      BY <1>2, <1>3, <2>1
    <3> QED BY <2>1, <3>1
  <2>3. \A i \in 1 .. k : list(k)[i] = Ranked(rest, i)
    OBVIOUS
  <2>4. piece(k) = Entries(q, list(k))
    BY <2>2, <2>3 DEF Entries
  <2> HIDE DEF list
  <2>5. Upward(list(k))
    <3>1. ASSUME NEW i \in 1 .. k, NEW j \in 1 .. k, i < j PROVE list(k)[i] < list(k)[j]
      <4>1. i - 1 < j - 1
        BY <2>1, <3>1
      <4> QED BY <1>3, <2>1, <2>3, <4>1
    <3> QED BY <2>2, <3>1 DEF Upward
  <2>6. \A i \in 1 .. k : list(k)[i] \in has[q] /\ list(k)[i] >= d.at
    BY <1>3, <1>4, <2>1, <2>3
  <2>7. ASSUME NEW n \in rest, Rank(rest, n) < k PROVE n \in First(list(k), k)
    <3>1. Rank(rest, n) \in 0 .. c - 1
      BY <1>3
    <3>2. Rank(rest, n) + 1 \in 1 .. k
      BY <1>3, <2>1, <2>7, <3>1
    <3>3. n = list(k)[Rank(rest, n) + 1]
      BY <1>3, <2>3, <3>2
    <3> QED BY <3>2, <3>3 DEF First
  <2> QED BY <2>2, <2>4, <2>5, <2>6, <2>7
<1>6. c \in 0 .. c /\ \A n \in rest : Rank(rest, n) < c
  <2>1. \A n \in rest : Rank(rest, n) \in 0 .. c - 1
    BY <1>3
  <2> QED BY <1>3, <2>1
<1>7. CASE p = [gram |-> Append(piece(c), Done(q)), left |-> Kernel!NoDump]
  <2>1. Part(p, q, d.at, has[q], list(c))
    <3> HIDE DEF list, piece
    <3>1. p.gram = Append(Entries(q, list(c)), Done(q)) /\ p.left = Kernel!NoDump
      BY <1>5, <1>6, <1>7
    <3>2. \A n \in has[q] : n >= d.at => n \in First(list(c), Len(list(c)))
      BY <1>4, <1>5, <1>6
    <3>3. Len(list(c)) = c /\ Upward(list(c))
          /\ \A i \in 1 .. c : list(c)[i] \in has[q] /\ list(c)[i] >= d.at
      BY <1>5, <1>6
    <3> QED BY <3>1, <3>2, <3>3 DEF Part
  <2> HIDE DEF list, piece
  <2> QED BY <1>5, <1>6, <2>1
<1>8. ASSUME NEW k \in {1, c}, rest # {}, p = [gram |-> piece(k), left |-> [of |-> q, at |-> piece(k)[k].n + 1]]
      PROVE  \E ns \in Seq(Numbers(q)) : Part(p, q, d.at, has[q], ns)
  <2>1. k \in 0 .. c /\ k \in 1 .. k /\ k \in 1 .. c
    BY <1>3, <1>8
  <2>2. piece(k)[k].n = Ranked(rest, k) /\ list(k)[k] = Ranked(rest, k)
    BY <2>1 DEF Entry
  <2>3. Ranked(rest, k) \in rest /\ Ranked(rest, k) \in 1 .. 3 /\ Rank(rest, Ranked(rest, k)) = k - 1
    BY <1>2, <1>3, <2>1
  <2>4. p.left.of = q /\ p.left.at = Ranked(rest, k) + 1 /\ p.left.at \in Nat /\ p.gram = piece(k)
    BY <1>8, <2>2, <2>3
  <2>5. p.left # Kernel!NoDump
    BY <2>4 DEF Kernel!NoDump
  <2> HIDE DEF list, piece
  <2>6. /\ list(k) \in Seq(Numbers(q)) /\ Len(list(k)) = k /\ Upward(list(k))
        /\ \A i \in 1 .. k : list(k)[i] \in has[q] /\ list(k)[i] >= d.at
        /\ piece(k) = Entries(q, list(k))
        /\ \A n \in rest : Rank(rest, n) < k => n \in First(list(k), k)
    BY <1>5, <2>1
  <2>7. ASSUME NEW i \in 1 .. k PROVE list(k)[i] < p.left.at
    <3>1. list(k)[i] \in 1 .. 3
      BY <1>2, <1>4, <2>6
    <3>2. i = k \/ i < k
      BY <2>1
    <3>3. i < k => list(k)[i] < list(k)[k]
      BY <2>1, <2>6 DEF Upward
    <3> QED BY <2>2, <2>3, <2>4, <3>1, <3>2, <3>3
  <2>8. ASSUME NEW n \in rest, ~(Rank(rest, n) < k) PROVE n >= p.left.at
    <3>1. Rank(rest, n) \in Nat /\ k - 1 < Rank(rest, n)
      <4>1. Rank(rest, n) \in 0 .. c - 1
        BY <1>3
      <4> QED BY <1>3, <2>1, <2>8, <4>1
    <3>2. Ranked(rest, k) < n
      BY <1>3, <2>3, <3>1
    <3>3. n \in 1 .. 3
      BY <1>2
    <3> QED BY <2>3, <2>4, <3>2, <3>3
  <2>9. \A n \in has[q] : n >= d.at => n \in First(list(k), k) \/ n >= p.left.at
    BY <1>4, <2>6, <2>8
  <2>10. p.left.at >= d.at
    <3>1. Ranked(rest, k) >= d.at
      BY <1>4, <2>3
    <3> QED BY <2>3, <2>4, <3>1
  <2>11. Part(p, q, d.at, has[q], list(k))
    BY <2>4, <2>5, <2>6, <2>7, <2>9, <2>10 DEF Part
  <2> QED BY <2>6, <2>11
<1>9. CASE rest = {}
  <2>1. c = 0 /\ piece(c) = <<>> /\ Append(<<>>, Done(q)) = <<Done(q)>>
    BY <1>3, <1>9
  <2> HIDE DEF piece
  <2>2. p = [gram |-> Append(piece(c), Done(q)), left |-> Kernel!NoDump]
    BY <1>1, <1>9, <2>1
  <2> QED BY <1>7, <2>2
<1>10. CASE rest # {}
  <2> HIDE DEF piece
  <2> QED BY <1>1, <1>7, <1>8, <1>10
<1> QED BY <1>9, <1>10

-----------------------------------------------------------------------------
(* The queries.                                                            *)

LEMMA StopIs ==
  ASSUME NEW q, NEW gram
  PROVE  \/ Kernel!Stop(q, gram) = 0 /\ \A i \in 1 .. Len(gram) : ~Kernel!Ends(q, gram[i])
         \/ Kernel!Stop(q, gram) \in 1 .. Len(gram) /\ Kernel!Ends(q, gram[Kernel!Stop(q, gram)])
<1> DEFINE T == {i \in 1 .. Len(gram) : Kernel!Ends(q, gram[i])}
<1>1. Kernel!Stop(q, gram) = IF T # {} THEN Kernel!Min(T) ELSE 0
  BY DEF Kernel!Stop, Kernel!SelectInSeq
<1>2. T \in SUBSET Nat
  OBVIOUS
<1>3. T # {} => Kernel!Min(T) \in T
  BY <1>2, Least DEF Kernel!Min
<1> QED BY <1>1, <1>3

\* What waits in the socket, of the numbers ns, goes on where the table, of the
\* numbers M, ends, and the kernel goes on behind it: no number that was listed
\* all the time is passed over.
Waits(ns, M) ==
  /\ Upward(ns) /\ Below(M, ns) /\ (\A i \in 1 .. Len(ns) : ns[i] \in ever)
  /\ Holds(table, query, M)
  /\ \/ dump = Kernel!NoDump /\ sock = <<Append(Entries(query, ns), Done(query))>>
     \/ /\ dump # Kernel!NoDump /\ dump.of = query /\ dump.at \in Nat
        /\ sock = <<Entries(query, ns)>>
        /\ \A n \in M \cup First(ns, Len(ns)) : n < dump.at
  /\ \A n \in always :
       n \in M \cup First(ns, Len(ns)) \/ (dump # Kernel!NoDump /\ n >= dump.at)
  /\ ~vanished => \A i \in 1 .. Len(ns) : Tied(query, ns[i]) \subseteq links \cup {"none"}

Listed ==
  /\ has \in [1 .. 4 -> SUBSET (1 .. 3)]
  /\ \A q \in 1 .. 4 :
       /\ has[q] \in SUBSET Numbers(q)
       /\ \A n \in has[q] : Tied(q, n) \subseteq links \cup {"none"}

Asked ==
  /\ query \in 0 .. 5 /\ asked \in BOOLEAN /\ (asked => query \in 1 .. 4)
  /\ DOMAIN info = 1 .. 4 /\ \A j \in 1 .. 4 : 1 <= query /\ query <= j => info[j] = <<>>
  /\ broken => vanished
  /\ query = 0 \/ (~asked /\ ~broken) => sock = <<>> /\ dump = Kernel!NoDump

Learnt == query > 1 /\ ~asked /\ ~broken => Told(info[query - 1], query - 1, always, ever)

Waiting ==
  asked /\ ~broken =>
    /\ always \in SUBSET has[query] /\ has[query] \in SUBSET ever /\ ever \in SUBSET Numbers(query)
    /\ \E ns \in Seq(Numbers(query)), M \in SUBSET ever : Waits(ns, M)

KernelInv == Listed /\ Asked /\ Learnt /\ Waiting

LEMMA ListedKeeps == Listed /\ [Kernel!Next]_(Kernel!vars) => Listed'
<1> SUFFICES ASSUME Listed, [Kernel!Next]_(Kernel!vars) PROVE Listed'
  OBVIOUS
<1>1. ASSUME UNCHANGED <<links, has>> PROVE Listed'
  BY <1>1 DEF Listed
<1>2. CASE Kernel!Look \/ Kernel!Begin \/ UNCHANGED Kernel!vars
  BY <1>1, <1>2 DEF Kernel!Look, Kernel!Skip, Kernel!Ask, Kernel!Receive, Kernel!Draw, Kernel!Begin,
    Kernel!vars, Kernel!kernel
<1>3. ASSUME NEW q \in 1 .. 4, NEW n \in Numbers(q), Kernel!Change(q, n) PROVE Listed'
  <2>1. /\ links' = links /\ (n \in has[q] \/ Tied(q, n) \subseteq links \cup {"none"})
        /\ has' = [has EXCEPT ![q] = IF n \in @ THEN @ \ {n} ELSE @ \cup {n}]
    BY <1>3 DEF Kernel!Change, Tied, Kernel!NoAddress
  <2>2. n \in 1 .. 3 /\ has \in [1 .. 4 -> SUBSET (1 .. 3)]
    BY Sizes DEF Listed
  <2>3. has' \in [1 .. 4 -> SUBSET (1 .. 3)]
    BY <2>1, <2>2
  <2>4. ASSUME NEW p \in 1 .. 4, NEW m \in has'[p]
        PROVE  m \in Numbers(p) /\ Tied(p, m) \subseteq links \cup {"none"}
    <3>1. m \in has[p] \/ (p = q /\ m = n /\ n \notin has[q])
      BY <2>1, <2>2, <2>4
    <3> QED BY <2>1, <3>1 DEF Listed
  <2> QED BY <2>1, <2>3, <2>4 DEF Listed
<1>4. ASSUME NEW i, Kernel!Vanish(i) PROVE Listed'
  <2>1. links' = links \ {i} /\ has' = [q \in 1 .. 4 |-> {n \in has[q] : i \notin Tied(q, n)}]
    BY <1>4 DEF Kernel!Vanish, Kernel!Queries, Tied
  <2>2. \A q \in 1 .. 4 : has'[q] = {n \in has[q] : i \notin Tied(q, n)}
    BY <2>1
  <2>3. has' \in [1 .. 4 -> SUBSET (1 .. 3)]
    <3>1. \A q \in 1 .. 4 : has[q] \in SUBSET (1 .. 3)
      BY DEF Listed
    <3> QED BY <2>1, <3>1
  <2>4. \A q \in 1 .. 4 : has'[q] \in SUBSET Numbers(q)
                          /\ \A n \in has'[q] : Tied(q, n) \subseteq links' \cup {"none"}
    BY <2>1, <2>2 DEF Listed
  <2> QED BY <2>3, <2>4 DEF Listed
<1> QED BY <1>2, <1>3, <1>4 DEF Kernel!Next, Kernel!Queries, Numbers

LEMMA AskedKeeps == KernelInv /\ [Kernel!Next]_(Kernel!vars) => (Asked /\ Learnt)' \/ Kernel!Receive
<1> SUFFICES ASSUME KernelInv, [Kernel!Next]_(Kernel!vars), ~Kernel!Receive PROVE (Asked /\ Learnt)'
  OBVIOUS
<1>1. Asked /\ Learnt /\ Listed
  BY DEF KernelInv
<1>2. CASE Kernel!Begin
  <2>1. query = 0 /\ query' = 1 /\ info' = [q \in 1 .. 4 |-> <<>>] /\ broken' = FALSE
        /\ vanished' = FALSE /\ UNCHANGED <<sock, dump, asked>>
    BY <1>2 DEF Kernel!Begin, Kernel!Queries
  <2>2. Asked'
    BY <1>1, <2>1 DEF Asked
  <2> QED BY <2>1, <2>2 DEF Learnt
<1>3. CASE Kernel!Skip
  <2>1. query \in 1 .. 4 /\ ~asked /\ ~Kernel!IsRoute(query) /\ query' = query + 1
        /\ ever' = {} /\ always' = {} /\ UNCHANGED <<sock, dump, asked, info, broken, vanished>>
    BY <1>3 DEF Kernel!Skip, Kernel!Queries, Kernel!Nothing, Kernel!kernel
  <2>2. query' \in 2 .. 5 /\ query' - 1 = query /\ query < query' /\ query' # 0 /\ 1 <= query
    BY <2>1
  <2>3. Asked'
    <3>1. \A j \in 1 .. 4 : query' <= j => query <= j
      BY <2>1
    <3>2. query' \in 0 .. 5
      BY <2>1
    <3>3. \A j \in 1 .. 4 : 1 <= query' /\ query' <= j => info'[j] = <<>>
      BY <1>1, <2>1, <2>2, <3>1 DEF Asked
    <3>4. query' = 0 \/ (~asked' /\ ~broken') => sock' = <<>> /\ dump' = Kernel!NoDump
      BY <1>1, <2>1, <2>2 DEF Asked
    <3> QED BY <1>1, <2>1, <3>2, <3>3, <3>4 DEF Asked
  <2>4. Told(<<>>, query, {}, {})
    <3>1. Kernel!Own(query, {}) = {}
      BY DEF Kernel!Own
    <3>2. Kernel!ToSet(<<>>) = {}
      BY DEF Kernel!ToSet
    <3> QED BY <2>1, <3>1, <3>2 DEF Told
  <2>5. info'[query' - 1] = <<>>
    BY <1>1, <2>1, <2>2 DEF Asked
  <2> QED BY <2>1, <2>2, <2>3, <2>4, <2>5 DEF Learnt
<1>4. CASE Kernel!Ask
  <2>1. query \in 1 .. 4 /\ asked' = TRUE /\ UNCHANGED <<query, info, broken, vanished>>
    BY <1>4 DEF Kernel!Ask, Kernel!Queries, Kernel!kernel
  <2> QED BY <1>1, <2>1 DEF Asked, Learnt
<1>5. CASE Kernel!Draw
  <2>1. query' = 0 /\ query = 5 /\ sock' = <<>> /\ dump' = Kernel!NoDump
        /\ UNCHANGED <<asked, info, broken, vanished>>
    BY <1>5 DEF Kernel!Draw, Kernel!kernel
  <2> QED BY <1>1, <2>1 DEF Asked, Learnt
<1>6. ASSUME NEW q \in 1 .. 4, NEW n, Kernel!Change(q, n) PROVE (Asked /\ Learnt)'
  <2>1. UNCHANGED <<query, asked, info, broken, vanished, sock, dump>>
        /\ (~asked => ever' = ever /\ always' = always)
    BY <1>6 DEF Kernel!Change, Kernel!look
  <2> QED BY <1>1, <2>1 DEF Asked, Learnt
<1>7. ASSUME NEW i, Kernel!Vanish(i) PROVE (Asked /\ Learnt)'
  <2>1. UNCHANGED <<query, asked, info, broken, sock, dump, ever>> /\ vanished' = TRUE
        /\ (~asked => always' = always)
    BY <1>7 DEF Kernel!Vanish, Kernel!look
  <2> QED BY <1>1, <2>1 DEF Asked, Learnt
<1>8. CASE UNCHANGED Kernel!vars
  <2>1. UNCHANGED <<query, asked, info, broken, sock, dump, ever, always, vanished>>
    BY <1>8 DEF Kernel!vars
  <2> QED BY <1>1, <2>1 DEF Asked, Learnt
<1> QED BY <1>2, <1>3, <1>4, <1>5, <1>6, <1>7, <1>8 DEF Kernel!Next, Kernel!Look, Kernel!Queries

LEMMA WaitingStays == Waiting /\ UNCHANGED Kernel!vars => Waiting'
<1> SUFFICES ASSUME Waiting, UNCHANGED Kernel!vars PROVE Waiting'
  OBVIOUS
<1>1. UNCHANGED <<query, asked, broken, sock, dump, ever, always, vanished, links, has, table>>
  BY DEF Kernel!vars
<1> QED BY <1>1 DEF Waiting, Waits

LEMMA WaitingKeeps == KernelInv /\ [Kernel!Next]_(Kernel!vars) => Waiting' \/ Kernel!Receive
<1> SUFFICES ASSUME KernelInv, [Kernel!Next]_(Kernel!vars), ~Kernel!Receive, asked', ~broken'
             PROVE  Waiting'
  BY DEF Waiting
<1>1. Asked /\ Waiting /\ Listed
  BY DEF KernelInv
<1>2. CASE Kernel!Begin \/ Kernel!Skip \/ Kernel!Draw
  <2>1. ~asked'
    <3>1. asked' = asked /\ (query = 0 \/ query = 5 \/ ~asked)
      BY <1>2 DEF Kernel!Begin, Kernel!Skip, Kernel!Draw
    <3>2. asked => query \in 1 .. 4
      BY <1>1 DEF Asked
    <3> QED BY <3>1, <3>2
  <2> QED BY <2>1
<1>3. CASE Kernel!Ask
  <2>1. query \in 1 .. 4 /\ ~asked /\ ~broken /\ dump = Kernel!NoDump /\ sock = <<>>
    BY <1>1, <1>3 DEF Kernel!Ask, Kernel!Queries, Asked
  <2>2. PICK p \in Kernel!Fill([of |-> query, at |-> 1]) : sock' = Append(sock, p.gram) /\ dump' = p.left
    BY <1>3, <2>1 DEF Kernel!Ask
  <2>3. /\ table' = <<>> /\ ever' = has[query] /\ always' = has[query]
        /\ UNCHANGED <<query, links, has, vanished>>
    BY <1>3 DEF Kernel!Ask, Kernel!kernel
  <2>4. sock' = <<p.gram>>
    BY <2>1, <2>2
  <2>5. has[query] \in SUBSET Numbers(query) /\ (\A n \in has[query] : n >= 1)
        /\ \A n \in has[query] : Tied(query, n) \subseteq links \cup {"none"}
    <3>1. has[query] \in SUBSET (1 .. 3)
      BY <1>1, <2>1 DEF Listed
    <3> QED BY <1>1, <2>1, <3>1 DEF Listed
  <2>6. PICK ns \in Seq(Numbers(query)) : Part(p, query, 1, has[query], ns)
    <3> DEFINE d == [of |-> query, at |-> 1]
    <3>1. d.of = query /\ d.at = 1 /\ p \in Kernel!Fill(d) /\ d.at \in Nat
      OBVIOUS
    <3> HIDE DEF d
    <3> QED BY <2>1, <2>5, <3>1, FillIs
  <2>7. Holds(<<>>, query, {})
    BY DEF Holds, RowLists, Sorted
  <2>8. Below({}, ns) /\ {} \cup First(ns, Len(ns)) = First(ns, Len(ns))
    BY DEF Below
  <2>9. \A n \in First(ns, Len(ns)) : \E i \in 1 .. Len(ns) : n = ns[i]
    BY DEF First
  <2>10. Waits(ns, {})'
    BY <2>3, <2>4, <2>2, <2>5, <2>6, <2>7, <2>8, <2>9 DEF Waits, Part
  <2>11. {} \in SUBSET ever' /\ ns \in Seq(Numbers(query'))
    BY <2>3
  <2>12. always' \in SUBSET has'[query'] /\ has'[query'] \in SUBSET ever' /\ ever' \in SUBSET Numbers(query')
    BY <2>3, <2>5
  <2> QED BY <2>10, <2>11, <2>12 DEF Waiting
<1>4. ASSUME asked, ~broken, query' = query, UNCHANGED <<sock, dump, table>>,
             ever \in SUBSET ever', ever' \in SUBSET Numbers(query),
             always' \in SUBSET always, always' \in SUBSET has'[query], has'[query] \in SUBSET ever',
             (links' = links /\ vanished' = vanished) \/ vanished'
      PROVE  Waiting'
  <2>1. PICK ns \in Seq(Numbers(query)), M \in SUBSET ever : Waits(ns, M)
    BY <1>1, <1>4 DEF Waiting
  <2>2. Waits(ns, M)'
    BY <1>4, <2>1 DEF Waits
  <2>3. M \in SUBSET ever' /\ ns \in Seq(Numbers(query'))
    BY <1>4, <2>1
  <2> QED BY <1>4, <2>2, <2>3 DEF Waiting
<1>5. asked /\ ~broken => /\ query \in 1 .. 4 /\ always \in SUBSET has[query]
                          /\ has[query] \in SUBSET ever /\ ever \in SUBSET Numbers(query)
  BY <1>1 DEF Asked, Waiting
<1>6. ASSUME NEW q \in 1 .. 4, NEW n \in Numbers(q), Kernel!Change(q, n) PROVE Waiting'
  <2>1. UNCHANGED <<query, asked, broken, vanished, links, sock, dump, table>>
    BY <1>6 DEF Kernel!Change, Kernel!look
  <2>2. has' = [has EXCEPT ![q] = IF n \in @ THEN @ \ {n} ELSE @ \cup {n}]
        /\ IF asked /\ q = query THEN ever' = ever \cup has'[q] /\ always' = always \cap has'[q]
           ELSE UNCHANGED <<ever, always>>
    BY <1>6 DEF Kernel!Change
  <2>3. DOMAIN has = 1 .. 4
    BY <1>1 DEF Listed
  <2>4. CASE q = query
    <3>1. has'[q] \in SUBSET (has[q] \cup {n})
      BY <2>2, <2>3
    <3>2. ever' = ever \cup has'[q] /\ always' = always \cap has'[q]
      BY <2>1, <2>2, <2>4
    <3>3. ever' \in SUBSET Numbers(query) /\ has'[query] \in SUBSET ever'
      BY <1>5, <2>1, <2>4, <3>1, <3>2
    <3> QED BY <1>4, <1>5, <2>1, <2>4, <3>2, <3>3
  <2>5. CASE q # query
    <3>1. has'[query] = has[query] /\ ever' = ever /\ always' = always
      BY <1>5, <2>1, <2>2, <2>3, <2>5
    <3> QED BY <1>4, <1>5, <2>1, <3>1
  <2> QED BY <2>4, <2>5
<1>7. ASSUME NEW i, Kernel!Vanish(i) PROVE Waiting'
  <2>1. UNCHANGED <<query, asked, broken, sock, dump, table, ever>> /\ vanished' = TRUE
        /\ always' = IF asked THEN always \cap has'[query] ELSE always
    BY <1>7 DEF Kernel!Vanish, Kernel!look
  <2>2. has' = [q \in 1 .. 4 |-> {n \in has[q] : i \notin Tied(q, n)}]
    BY <1>7 DEF Kernel!Vanish, Kernel!Queries, Tied
  <2>3. query \in 1 .. 4
    BY <1>5, <2>1
  <2>4. has'[query] \in SUBSET has[query]
    BY <2>2, <2>3
  <2> QED BY <1>4, <1>5, <2>1, <2>4
<1>8. CASE UNCHANGED Kernel!vars
  BY <1>1, <1>8, WaitingStays
<1> QED BY <1>2, <1>3, <1>6, <1>7, <1>8 DEF Kernel!Next, Kernel!Look, Kernel!Queries, Numbers

LEMMA EndsIs ==
  ASSUME NEW q \in 1 .. 4
  PROVE  /\ \A n \in Numbers(q) : Kernel!Ends(q, Entry(q, n)) =>
              Kernel!Throws(q, Entry(q, n)) /\ ~(Tied(q, n) \subseteq links \cup {"none"})
         /\ Kernel!Ends(q, Done(q)) /\ ~Kernel!Throws(q, Done(q))
<1>1. ASSUME NEW n \in Numbers(q), Kernel!Ends(q, Entry(q, n))
      PROVE  Kernel!Throws(q, Entry(q, n)) /\ ~(Tied(q, n) \subseteq links \cup {"none"})
  BY <1>1 DEF Kernel!Ends, Kernel!Throws, Entry, Tied, Kernel!NoAddress
<1>2. Kernel!Ends(q, Done(q)) /\ ~Kernel!Throws(q, Done(q))
  BY DEF Kernel!Ends, Kernel!Throws, Done
<1> QED BY <1>1, <1>2

LEMMA EntriesAre ==
  ASSUME NEW q \in 1 .. 4, NEW ns \in Seq(Numbers(q))
  PROVE  LET all == Append(Entries(q, ns), Done(q))
             n == Len(ns)
         IN  /\ n \in Nat /\ Len(Entries(q, ns)) = n /\ Len(all) = n + 1
             /\ \A i \in 1 .. n : ns[i] \in Numbers(q) /\ Entries(q, ns)[i] = Entry(q, ns[i])
                                  /\ all[i] = Entry(q, ns[i])
             /\ all[n + 1] = Done(q) /\ SubSeq(all, 1, n) = Entries(q, ns)
<1> DEFINE S == {Entry(q, m) : m \in Numbers(q)} \cup {Done(q)}
           e == Entries(q, ns)
           all == Append(e, Done(q))
           n == Len(ns)
<1>1. n \in Nat /\ \A i \in 1 .. n : ns[i] \in Numbers(q)
  OBVIOUS
<1>2. e \in Seq(S) /\ Len(e) = n /\ \A i \in 1 .. n : e[i] = Entry(q, ns[i])
  BY <1>1 DEF Entries
<1>3. Done(q) \in S
  OBVIOUS
<1> HIDE DEF e, S, n
<1>4. /\ all \in Seq(S) /\ Len(all) = n + 1 /\ all[n + 1] = Done(q)
      /\ \A i \in 1 .. n : all[i] = e[i]
  BY <1>1, <1>2, <1>3
<1>5. SubSeq(all, 1, n) = e
  <2>1. /\ SubSeq(all, 1, n) \in Seq(S) /\ Len(SubSeq(all, 1, n)) = n
        /\ \A i \in 1 .. n : SubSeq(all, 1, n)[i] = all[i]
    <3> HIDE DEF all
    <3> QED BY <1>1, <1>4
  <2> HIDE DEF all
  <2> QED BY <1>2, <1>4, <2>1
<1> QED BY <1>1, <1>2, <1>4, <1>5 DEF e, n

LEMMA ReceiveKeeps == KernelInv /\ Kernel!Receive => (Asked /\ Learnt /\ Waiting)'
<1> SUFFICES ASSUME KernelInv, Kernel!Receive PROVE (Asked /\ Learnt /\ Waiting)'
  OBVIOUS
<1>1. Asked /\ Waiting /\ Listed
  BY DEF KernelInv
<1> DEFINE gram == Head(sock)
           stop == Kernel!Stop(query, gram)
           all == table \o Kernel!Collected(query, gram)
           found == IF Kernel!IsRoute(query) THEN Kernel!ByIfname(all) ELSE all
           fails == Kernel!Throws(query, gram[stop])
<1>2. /\ asked /\ UNCHANGED <<links, has, vanished, ever, always>>
      /\ stop = 0 => table' = all /\ UNCHANGED <<query, asked, info, broken>>
      /\ stop # 0 => query' = query + 1 /\ asked' = FALSE
      /\ stop # 0 /\ fails => broken' = TRUE /\ info' = info
      /\ stop # 0 /\ ~fails => info' = [info EXCEPT ![query] = found] /\ broken' = broken
  BY DEF Kernel!Receive, Kernel!kernel
<1>3. /\ dump = Kernel!NoDump => sock' = Tail(sock) /\ dump' = dump
      /\ dump # Kernel!NoDump =>
           \E p \in Kernel!Fill(dump) : sock' = Append(Tail(sock), p.gram) /\ dump' = p.left
  BY DEF Kernel!Receive
<1>4. query \in 1 .. 4 /\ (broken => vanished) /\ DOMAIN info = 1 .. 4
      /\ \A j \in 1 .. 4 : query <= j => info[j] = <<>>
  BY <1>1, <1>2 DEF Asked
<1> HIDE DEF found, fails, all, stop, gram
<1>5. ASSUME broken' => vanished, ~asked' /\ ~broken' => sock' = <<>> /\ dump' = Kernel!NoDump
      PROVE  Asked'
  <2>1. CASE stop = 0
    BY <1>1, <1>2, <1>4, <1>5, <2>1 DEF Asked
  <2>2. CASE stop # 0
    <3>1. query' \in 1 .. 5 /\ asked' = FALSE
      BY <1>2, <1>4, <2>2
    <3>2. DOMAIN info' = 1 .. 4 /\ \A j \in 1 .. 4 : j # query => info'[j] = info[j]
      BY <1>2, <1>4, <2>2
    <3>3. ASSUME NEW j \in 1 .. 4, query' <= j PROVE info'[j] = <<>>
      <4>1. query <= j /\ j # query
        BY <1>2, <1>4, <2>2, <3>3
      <4> QED BY <1>4, <3>2, <4>1
    <3>4. query' \in 0 .. 5 /\ query' # 0
      BY <3>1
    <3> QED BY <1>2, <1>5, <3>1, <3>2, <3>3, <3>4 DEF Asked
  <2> QED BY <2>1, <2>2
<1>6. CASE broken
  <2>1. broken'
    BY <1>2, <1>6
  <2> QED BY <1>4, <1>5, <1>6, <2>1 DEF Learnt, Waiting
<1>7. ASSUME stop # 0, fails, vanished PROVE (Asked /\ Learnt /\ Waiting)'
  BY <1>2, <1>5, <1>7 DEF Learnt, Waiting
<1>8. CASE ~broken
  <2>1. PICK ns \in Seq(Numbers(query)), M \in SUBSET ever : Waits(ns, M)
    BY <1>1, <1>2, <1>8 DEF Waiting
  <2>2. always \in SUBSET has[query] /\ has[query] \in SUBSET ever /\ ever \in SUBSET Numbers(query)
    BY <1>1, <1>2, <1>8 DEF Waiting
  <2>3. Upward(ns) /\ Below(M, ns) /\ Holds(table, query, M)
        /\ \A i \in 1 .. Len(ns) : ns[i] \in ever
    BY <2>1 DEF Waits
  <2> DEFINE N == M \cup First(ns, Len(ns))
             e == Entries(query, ns)
  <2>4. N \in SUBSET ever /\ N \in SUBSET Numbers(query)
    BY <2>2, <2>3 DEF First
  <2>5. Holds(table \o Kernel!Read(query, e), query, N)
    <3>1. M \in SUBSET Numbers(query)
      BY <2>2
    <3> QED BY <1>4, <2>1, <2>3, <3>1, ReadOn
  <2>6. /\ Len(ns) \in Nat /\ Len(e) = Len(ns)
        /\ \A i \in 1 .. Len(ns) : ns[i] \in Numbers(query) /\ e[i] = Entry(query, ns[i])
             /\ Append(e, Done(query))[i] = Entry(query, ns[i])
        /\ Len(Append(e, Done(query))) = Len(ns) + 1
        /\ Append(e, Done(query))[Len(ns) + 1] = Done(query)
        /\ SubSeq(Append(e, Done(query)), 1, Len(ns)) = e
    BY <1>4, EntriesAre
  <2>7. ASSUME NEW i \in 1 .. Len(ns), Kernel!Ends(query, Entry(query, ns[i]))
        PROVE  Kernel!Throws(query, Entry(query, ns[i])) /\ vanished
    <3>1. ns[i] \in Numbers(query) /\ (~vanished => Tied(query, ns[i]) \subseteq links \cup {"none"})
      BY <2>1, <2>6 DEF Waits
    <3> QED BY <1>4, <2>7, <3>1, EndsIs
  <2>8. \/ stop = 0 /\ \A i \in 1 .. Len(gram) : ~Kernel!Ends(query, gram[i])
        \/ stop \in 1 .. Len(gram) /\ Kernel!Ends(query, gram[stop])
    BY StopIs DEF stop
  <2>9. \A x : Head(<<x>>) = x /\ Tail(<<x>>) = <<>>
    OBVIOUS
  <2> HIDE DEF e, N
  <2>10. CASE dump = Kernel!NoDump
    <3>1. sock = <<Append(e, Done(query))>> /\ \A n \in always : n \in N
      BY <2>1, <2>10 DEF Waits, e, N
    <3>2. gram = Append(e, Done(query)) /\ Tail(sock) = <<>>
      BY <2>9, <3>1 DEF gram
    <3>3. sock' = <<>> /\ dump' = Kernel!NoDump
      BY <1>3, <2>10, <3>2
    <3>4. Len(ns) + 1 \in 1 .. Len(gram) /\ Kernel!Ends(query, gram[Len(ns) + 1])
          /\ ~Kernel!Throws(query, gram[Len(ns) + 1])
      BY <1>4, <2>6, <3>2, EndsIs
    <3>5. stop \in 1 .. Len(ns) + 1 /\ Kernel!Ends(query, gram[stop]) /\ stop # 0
      BY <2>6, <2>8, <3>2, <3>4
    <3>6. CASE stop \in 1 .. Len(ns)
      <4>1. fails /\ vanished
        BY <2>6, <2>7, <3>2, <3>5, <3>6 DEF fails
      <4> QED BY <1>7, <3>5, <4>1
    <3>7. CASE stop = Len(ns) + 1
      <4>1. ~fails
        BY <3>4, <3>7 DEF fails
      <4>2. Kernel!Collected(query, gram) = Kernel!Read(query, e)
        <5>1. stop - 1 = Len(ns)
          BY <2>6, <3>7
        <5> QED BY <2>6, <3>2, <3>5, <5>1 DEF Kernel!Collected, stop
      <4>3. Told(found, query, always, ever)
        <5>1. Holds(all, query, N)
          BY <2>5, <4>2 DEF all
        <5>2. always \in SUBSET N
          BY <3>1
        <5> QED BY <1>4, <2>2, <2>4, <5>1, <5>2, AnswerIsTrue DEF found
      <4>4. query' - 1 = query /\ info'[query] = found /\ broken' = broken /\ asked' = FALSE
        BY <1>2, <1>4, <3>5, <4>1
      <4>5. Asked'
        BY <1>5, <1>8, <3>3, <4>4
      <4> QED BY <1>2, <4>3, <4>4, <4>5 DEF Learnt, Waiting
    <3> QED BY <2>6, <3>5, <3>6, <3>7
  <2>11. CASE dump # Kernel!NoDump
    <3>1. /\ sock = <<e>> /\ dump.of = query /\ dump.at \in Nat
          /\ \A n \in N : n < dump.at
          /\ \A n \in always : n \in N \/ n >= dump.at
      BY <2>1, <2>11 DEF Waits, e, N
    <3>2. gram = e /\ Tail(sock) = <<>>
      BY <2>9, <3>1 DEF gram
    <3>3. CASE stop # 0
      <4>1. stop \in 1 .. Len(ns) /\ gram[stop] = Entry(query, ns[stop])
        BY <2>6, <2>8, <3>2, <3>3
      <4>2. fails /\ vanished
        BY <2>7, <2>8, <3>3, <4>1 DEF fails
      <4> QED BY <1>7, <3>3, <4>2
    <3>4. CASE stop = 0
      <4>1. table' = all /\ UNCHANGED <<query, asked, info, broken>>
        BY <1>2, <3>4
      <4>2. Asked'
        BY <1>2, <1>4, <1>5, <1>8, <4>1
      <4>3. all = table \o Kernel!Read(query, e)
        BY <3>2, <3>4 DEF all, Kernel!Collected, stop
      <4>4. PICK p \in Kernel!Fill(dump) : sock' = <<p.gram>> /\ dump' = p.left
        <5>1. \A x : Append(<<>>, x) = <<x>>
          OBVIOUS
        <5> QED BY <1>3, <2>11, <3>2, <5>1
      <4>5. PICK os \in Seq(Numbers(query)) : Part(p, query, dump.at, has[query], os)
        BY <1>4, <2>2, <3>1, <4>4, FillIs
      <4>6. Waits(os, N)'
        <5>1. /\ Upward(os) /\ \A i \in 1 .. Len(os) : os[i] \in has[query] /\ os[i] >= dump.at
              /\ \A n \in has[query] : n >= dump.at =>
                   n \in First(os, Len(os)) \/ (p.left # Kernel!NoDump /\ n >= p.left.at)
          BY <4>5 DEF Part
        <5>2. N \in SUBSET (1 .. 3) /\ has[query] \in SUBSET (1 .. 3)
          BY <1>4, <2>2, <2>4, Sizes
        <5>3. Below(N, os)
          <6> SUFFICES ASSUME NEW m \in N, NEW i \in 1 .. Len(os) PROVE m < os[i]
            BY DEF Below
          <6>1. os[i] \in 1 .. 3 /\ os[i] >= dump.at
            BY <5>1, <5>2
          <6>2. m \in 1 .. 3 /\ m < dump.at
            BY <3>1, <5>2
          <6> QED BY <3>1, <6>1, <6>2
        <5>4. \/ p.left = Kernel!NoDump /\ p.gram = Append(Entries(query, os), Done(query))
              \/ /\ p.left # Kernel!NoDump /\ p.left.of = query /\ p.left.at \in Nat
                 /\ p.gram = Entries(query, os) /\ \A i \in 1 .. Len(os) : os[i] < p.left.at
                 /\ \A n \in N \cup First(os, Len(os)) : n < p.left.at
          <6>1. CASE p.left = Kernel!NoDump
            BY <4>5, <6>1 DEF Part
          <6>2. CASE p.left # Kernel!NoDump
            <7>1. /\ p.left.of = query /\ p.left.at \in Nat /\ p.gram = Entries(query, os)
                  /\ \A i \in 1 .. Len(os) : os[i] < p.left.at
              BY <4>5, <6>2 DEF Part
            <7>2. dump.at <= p.left.at
              BY <4>5, <6>2 DEF Part
            <7>3. \A n \in N : n < p.left.at
              <8>1. \A n \in N : n \in Nat /\ n < dump.at
                BY <3>1, <5>2
              <8> QED BY <3>1, <7>1, <7>2, <8>1
            <7>4. \A n \in First(os, Len(os)) : n < p.left.at
              BY <7>1 DEF First
            <7> QED BY <6>2, <7>1, <7>3, <7>4
          <6> QED BY <6>1, <6>2
        <5>5. \A n \in always :
                n \in N \cup First(os, Len(os)) \/ (p.left # Kernel!NoDump /\ n >= p.left.at)
          BY <2>2, <3>1, <5>1
        <5>6. \A i \in 1 .. Len(os) : os[i] \in ever /\ Tied(query, os[i]) \subseteq links \cup {"none"}
          BY <1>1, <1>4, <2>2, <5>1 DEF Listed
        <5>7. Holds(table', query, N)
          BY <2>5, <4>1, <4>3
        <5> QED BY <1>2, <4>1, <4>4, <5>1, <5>3, <5>4, <5>5, <5>6, <5>7 DEF Waits
      <4>7. always' \in SUBSET has'[query'] /\ has'[query'] \in SUBSET ever' /\ ever' \in SUBSET Numbers(query')
            /\ N \in SUBSET ever' /\ os \in Seq(Numbers(query'))
        BY <1>2, <2>2, <2>4, <4>1
      <4>8. Waiting'
        BY <4>6, <4>7 DEF Waiting
      <4>9. Learnt'
        BY <1>2, <4>1 DEF Learnt
      <4> QED BY <4>2, <4>8, <4>9
    <3> QED BY <3>3, <3>4
  <2> QED BY <2>10, <2>11
<1> QED BY <1>6, <1>8

LEMMA KernelKeeps == KernelInv /\ [Kernel!Next]_(Kernel!vars) => KernelInv'
<1>1. KernelInv /\ [Kernel!Next]_(Kernel!vars) => Listed'
  BY ListedKeeps DEF KernelInv
<1> QED BY <1>1, AskedKeeps, WaitingKeeps, ReceiveKeeps DEF KernelInv

LEMMA KernelInit == Kernel!Init => KernelInv
<1> SUFFICES ASSUME Kernel!Init PROVE KernelInv
  OBVIOUS
<1>1. Listed
  <2>1. links = {"shown", "other"}
        /\ (has \in [1 .. 4 -> {{}}] \/ has = [q \in 1 .. 4 |-> Numbers(q)])
    BY DEF Kernel!Init, Kernel!Queries, Kernel!Nothing, Numbers
  <2>2. \A q \in 1 .. 4 : Numbers(q) \in SUBSET (1 .. 3)
    BY Sizes
  <2>3. has \in [1 .. 4 -> SUBSET (1 .. 3)]
    BY <2>1, <2>2
  <2>4. \A q \in 1 .. 4 : has[q] \in SUBSET Numbers(q)
    BY <2>1
  <2>5. \A q \in 1 .. 4 : \A n \in Numbers(q) : Tied(q, n) \subseteq {"shown", "other", "none"}
    BY GivenInOrder
  <2> QED BY <2>1, <2>3, <2>4, <2>5 DEF Listed
<1>2. query = 0 /\ asked = FALSE /\ broken = FALSE /\ info = [q \in 1 .. 4 |-> <<>>]
      /\ sock = <<>> /\ dump = Kernel!NoDump
  BY DEF Kernel!Init, Kernel!Queries
<1>3. Asked
  <2>1. DOMAIN info = 1 .. 4 /\ 0 \in 0 .. 5 /\ FALSE \in BOOLEAN
    BY <1>2
  <2> QED BY <1>2, <2>1 DEF Asked
<1>4. Learnt /\ Waiting
  BY <1>2 DEF Learnt, Waiting
<1> QED BY <1>1, <1>3, <1>4 DEF KernelInv

LEMMA LookTrue == KernelInv => Kernel!LookIsTrue
<1> SUFFICES ASSUME KernelInv PROVE Kernel!LookIsTrue
  OBVIOUS
<1>1. Asked /\ Learnt
  BY DEF KernelInv
<1>2. broken => vanished
  BY <1>1 DEF Asked
<1>3. ASSUME query > 1, ~asked, ~broken PROVE Told(info[query - 1], query - 1, always, ever)
  BY <1>1, <1>3 DEF Learnt
<1> QED BY <1>2, <1>3 DEF Told, Kernel!LookIsTrue

\* The list says each network once, the one of the connection first and then the
\* strongest, and drops one only when the page has no button left: whatever a scan
\* hears of the stations, for any number of buttons, and in whatever order equally
\* strong stations are drawn.
\* The addresses and the routes that a look finds are those that the kernel had
\* while it was asked, and the gateway is that of the route it prefers, though
\* its answer comes in parts while entries and interfaces come and go; an answer
\* is missing only after an interface vanished: for any number of changes.
THEOREM ReadsAreTrue == Spec => []ReadIsTrue
<1> DEFINE Inv == AirInv /\ KernelInv
<1>1. Init => Inv
  <2>1. Init => Air!Init /\ Kernel!Init
    BY DEF Init
  <2> QED BY <2>1, AirInit, KernelInit
<1>2. Inv /\ [Next]_vars => Inv'
  BY StepOfPart, AirKeeps, KernelKeeps
<1>3. Inv => ReadIsTrue
  BY ListTrue, LookTrue DEF ReadIsTrue
<1> QED BY <1>1, <1>2, <1>3, PTL DEF Spec
=============================================================================
