---------------------------- MODULE InputProofs ----------------------------
(***************************************************************************)
(* What holds of input for any number of devices, uevents and reports: the *)
(* loop polls what is there, whatever comes and goes around it, and LVGL   *)
(* learns where the pointer is and how far the wheel was turned.           *)
(***************************************************************************)
EXTENDS MCInput, SequenceTheorems, WellFoundedInduction, TLAPS

LEMMA StepOfHalf == [Next]_vars => [H!Next]_(H!vars) /\ [Q!Next]_(Q!vars)
  BY DEF Next, vars, deviceVars, eventVars, H!vars, H!hw, H!nl, H!ev, H!boot, H!hist,
         Q!vars, Q!dev, Q!lp, Q!lv, Q!wheel

-----------------------------------------------------------------------------
(* Hot-plug.  A path is followed for itself: what the loop polls of it and *)
(* what the context knows of it is what was there before the first of its  *)
(* uevents that the socket still holds.                                    *)

All == Paths \cup Movable
Messages == [action : {"add", "remove"}, path : All]
Nodes == [path : All, alive : BOOLEAN, input : BOOLEAN]

HotTypes ==
  /\ plugged \subseteq All
  /\ uevents \in Seq(Messages) /\ files \in Seq(Nodes)
  /\ handlers \subseteq 0 .. Len(files)
  /\ devices \in Seq(1 .. Len(files)) /\ seen \in Seq(1 .. Len(files))
  /\ main \in {"listen", "probe", "push", "on"} /\ todo \subseteq Paths
  /\ main = "push" => made \in 1 .. Len(files)
  /\ main = "on" => todo = {}
  /\ sock = "closed" => uevents = <<>>
  /\ main = "listen" => files = <<>> /\ handlers = {} /\ devices = <<>> /\ todo = Paths /\ sock = "closed"

\* The places of a path's devices in a vector, and of its uevents in the socket.
Known(v, p) == {i \in DOMAIN v : files[v[i]].path = p}
Pending(p) == {i \in DOMAIN uevents : uevents[i].path = p}

\* The first of its uevents says that it came.
Adds(p) == \E i \in Pending(p) : H!First(i, Pending(p)) /\ uevents[i].action = "add"

\* A path is in a vector once and polled by that device, or neither.
In(v, p) == \E i \in DOMAIN v : Known(v, p) = {i} /\ H!Polled(p) = {v[i]}
Out(v, p) == Known(v, p) = {} /\ H!Polled(p) = {}

\* The vector, or main's copy of it, is right about a path: with no uevent to
\* come it says what is there, and before an "add" the path is not in it.
Follows(v, p) ==
  /\ In(v, p) \/ Out(v, p)
  /\ p \in todo => Out(v, p)
  /\ p \notin todo /\ Pending(p) = {} => IF p \in plugged THEN In(v, p) ELSE Out(v, p)
  /\ Adds(p) => Out(v, p)
Alive(p) == Pending(p) = {} /\ p \in plugged => \A f \in H!Polled(p) : files[f].alive

\* The uevents of a path alternate and end with what it is.
Differ(i, j, p) ==
  j < i /\ (\A k \in Pending(p) : ~(j < k /\ k < i)) => uevents[i].action # uevents[j].action
Ends(i, p) == (\A j \in Pending(p) : j <= i) => (uevents[i].action = "add" <=> p \in plugged)
Trail(p) == \A i \in Pending(p) : Ends(i, p) /\ \A j \in Pending(p) : Differ(i, j, p)

\* Between the opening of a node and its push_back.
Making(p) ==
  p \notin todo /\ p \in plugged /\ H!Polled(p) = {made} /\ Known(devices, p) = {} /\ Known(seen, p) = {}

PathInv(p) ==
  /\ main # "on" => Pending(p) = {}
  /\ Alive(p) /\ Trail(p)
  /\ IF main = "push" /\ files[made].path = p THEN Making(p)
     ELSE Follows(devices, p) /\ (main = "push" => Follows(seen, p))

Clean == Paths \ (crossed \cup lost)
HotInv == HotTypes /\ \A p \in Clean : PathInv(p)

-----------------------------------------------------------------------------
\* What leaves a path alone.

\* The parts of the invariant are functions of these.
LEMMA PathSame ==
  ASSUME NEW p, PathInv(p), UNCHANGED <<main, todo, made, seen>>, (p \in plugged)' <=> p \in plugged,
         Pending(p)' = {} <=> Pending(p) = {}, Adds(p)' => Adds(p), Trail(p)',
         H!Polled(p)' = H!Polled(p), \A f \in H!Polled(p) : files'[f].alive = files[f].alive,
         main = "push" => files'[made].path = files[made].path,
         Known(devices, p) = {} => Known(devices, p)' = {},
         \A i \in DOMAIN devices : Known(devices, p) = {i} =>
           \E j \in DOMAIN devices' : Known(devices, p)' = {j} /\ devices'[j] = devices[i],
         main = "push" => Known(seen, p)' = Known(seen, p)
  PROVE  PathInv(p)'
<1>1. Alive(p)' /\ (main' # "on" => Pending(p)' = {})
  BY DEF PathInv, Alive
<1>2. (In(devices, p) => In(devices, p)') /\ (Out(devices, p) => Out(devices, p)')
  BY DEF In, Out
<1>3. main = "push" => (In(seen, p) => In(seen, p)') /\ (Out(seen, p) => Out(seen, p)')
  BY DEF In, Out
<1>4. Follows(devices, p) => Follows(devices, p)'
  BY <1>2 DEF Follows
<1>5. main = "push" /\ Follows(seen, p) => Follows(seen, p)'
  BY <1>3 DEF Follows
<1>6. Making(p) /\ main = "push" => Making(p)'
  BY DEF Making
<1> QED BY <1>1, <1>4, <1>5, <1>6 DEF PathInv

\* The uevents of a path are the same: so is what follows from them.
LEMMA UeventsSame ==
  ASSUME NEW p, Trail(p), (p \in plugged)' <=> p \in plugged,
         Pending(p)' = Pending(p), \A i \in Pending(p) : uevents'[i] = uevents[i]
  PROVE  (Pending(p)' = {} <=> Pending(p) = {}) /\ (Adds(p)' => Adds(p)) /\ Trail(p)'
  BY DEF Adds, H!First, Trail, Differ, Ends

\* Descriptors keep their paths: a vector that stays says the same of each.
LEMMA VectorsSame ==
  ASSUME HotTypes, NEW p, \A f \in 1 .. Len(files) : files'[f].path = files[f].path
  PROVE  /\ UNCHANGED devices => Known(devices, p)' = Known(devices, p)
         /\ UNCHANGED seen => Known(seen, p)' = Known(seen, p)
<1>1. devices \in Seq(1 .. Len(files)) /\ seen \in Seq(1 .. Len(files))
  BY DEF HotTypes
<1>2. \A i \in DOMAIN devices : files'[devices[i]].path = files[devices[i]].path
  <2>1. \A i \in DOMAIN devices : devices[i] \in 1 .. Len(files)
    BY <1>1, LenProperties, ElementOfSeq
  <2> QED BY <2>1
<1>3. \A i \in DOMAIN seen : files'[seen[i]].path = files[seen[i]].path
  <2>1. \A i \in DOMAIN seen : seen[i] \in 1 .. Len(files)
    BY <1>1, LenProperties, ElementOfSeq
  <2> QED BY <2>1
<1> QED BY <1>2, <1>3 DEF Known

LEMMA WithoutOne ==
  ASSUME NEW S, NEW s \in Seq(S), NEW i \in 1 .. Len(s)
  PROVE  /\ H!RemoveAt(s, i) \in Seq(S) /\ Len(H!RemoveAt(s, i)) = Len(s) - 1
         /\ \A k \in 1 .. Len(s) - 1 : H!RemoveAt(s, i)[k] = IF k < i THEN s[k] ELSE s[k + 1]
<1> DEFINE a == SubSeq(s, 1, i - 1)
           b == SubSeq(s, i + 1, Len(s))
<1>1. i \in Int /\ 1 <= i /\ i <= Len(s) /\ Len(s) \in Nat
  BY LenProperties
<1>2. a \in Seq(S) /\ Len(a) = i - 1 /\ \A k \in 1 .. i - 1 : a[k] = s[k]
  <2>1. \A k \in 1 .. i - 1 : s[k] \in S
    BY <1>1
  <2> HIDE DEF a
  <2>2. /\ a \in Seq(S) /\ Len(a) = IF 1 <= i - 1 THEN i - 1 - 1 + 1 ELSE 0
        /\ \A k \in 1 .. i - 1 - 1 + 1 : a[k] = s[1 + k - 1]
    BY <1>1, <2>1, SubSeqProperties DEF a
  <2> QED BY <1>1, <2>2
<1>3. b \in Seq(S) /\ Len(b) = Len(s) - i /\ \A k \in 1 .. Len(s) - i : b[k] = s[k + i]
  <2>1. \A k \in i + 1 .. Len(s) : s[k] \in S
    BY <1>1
  <2> HIDE DEF b
  <2>2. /\ b \in Seq(S) /\ Len(b) = IF i + 1 <= Len(s) THEN Len(s) - (i + 1) + 1 ELSE 0
        /\ \A k \in 1 .. Len(s) - (i + 1) + 1 : b[k] = s[i + 1 + k - 1]
    BY <1>1, <2>1, SubSeqProperties DEF b
  <2> QED BY <1>1, <2>2
<1>4. H!RemoveAt(s, i) = a \o b
  BY DEF H!RemoveAt
<1> HIDE DEF a, b
<1>5. /\ a \o b \in Seq(S) /\ Len(a \o b) = Len(a) + Len(b)
      /\ \A k \in 1 .. Len(a) + Len(b) : (a \o b)[k] = IF k <= Len(a) THEN a[k] ELSE b[k - Len(a)]
  BY <1>2, <1>3, ConcatProperties
<1>6. ASSUME NEW k \in 1 .. Len(s) - 1 PROVE (a \o b)[k] = IF k < i THEN s[k] ELSE s[k + 1]
  <2>1. CASE k < i
    BY <1>1, <1>2, <1>3, <1>5, <2>1
  <2>2. CASE ~(k < i)
    <3>1. k - (i - 1) \in 1 .. Len(s) - i /\ k - (i - 1) + i = k + 1
      BY <1>1, <2>2
    <3>2. (a \o b)[k] = b[k - (i - 1)]
      BY <1>1, <1>2, <1>3, <1>5, <2>2
    <3> QED BY <1>3, <2>2, <3>1, <3>2
  <2> QED BY <2>1, <2>2
<1> QED BY <1>1, <1>2, <1>3, <1>4, <1>5, <1>6

\* A device of another path leaves the vector.
LEMMA OthersLeave ==
  ASSUME HotTypes, NEW p, NEW i \in DOMAIN devices, files[devices[i]].path # p,
         devices' = H!RemoveAt(devices, i), UNCHANGED files
  PROVE  /\ Known(devices, p) = {} => Known(devices, p)' = {}
         /\ \A k \in DOMAIN devices : Known(devices, p) = {k} =>
              \E j \in DOMAIN devices' : Known(devices, p)' = {j} /\ devices'[j] = devices[k]
<1> DEFINE n == Len(devices)
<1>1. devices \in Seq(1 .. Len(files)) /\ i \in 1 .. n /\ DOMAIN devices = 1 .. n /\ n \in Nat
  BY LenProperties DEF HotTypes
<1>2. /\ devices' \in Seq(1 .. Len(files)) /\ Len(devices') = n - 1
      /\ \A k \in 1 .. n - 1 : devices'[k] = IF k < i THEN devices[k] ELSE devices[k + 1]
  BY <1>1, WithoutOne
<1>3. DOMAIN devices' = 1 .. n - 1
  BY <1>2, LenProperties
<1> HIDE DEF n
<1>4. Known(devices, p)' = {k \in 1 .. n - 1 : files[devices'[k]].path = p}
  BY <1>3 DEF Known
<1>5. ASSUME Known(devices, p) = {} PROVE Known(devices, p)' = {}
  <2> SUFFICES ASSUME NEW k \in 1 .. n - 1, files[devices'[k]].path = p PROVE FALSE
    BY <1>4
  <2>1. k \in 1 .. n /\ k + 1 \in 1 .. n
    BY <1>1
  <2>2. devices'[k] = devices[k] \/ devices'[k] = devices[k + 1]
    BY <1>2
  <2> QED BY <1>1, <1>5, <2>1, <2>2 DEF Known
<1>6. ASSUME NEW k \in DOMAIN devices, Known(devices, p) = {k}
      PROVE  \E j \in DOMAIN devices' : Known(devices, p)' = {j} /\ devices'[j] = devices[k]
  <2>1. k # i /\ files[devices[k]].path = p /\ \A l \in 1 .. n : files[devices[l]].path = p => l = k
    BY <1>6, <1>1 DEF Known
  <2> DEFINE j == IF k < i THEN k ELSE k - 1
  <2>2. j \in 1 .. n - 1 /\ devices'[j] = devices[k]
    <3>1. CASE k < i
      <4>1. j = k /\ k \in 1 .. n - 1
        BY <1>1, <3>1
      <4> QED BY <1>2, <3>1, <4>1
    <3>2. CASE ~(k < i)
      <4>1. j = k - 1 /\ k - 1 \in 1 .. n - 1 /\ ~(k - 1 < i) /\ (k - 1) + 1 = k
        BY <1>1, <2>1, <3>2
      <4> QED BY <1>2, <4>1
    <3> QED BY <3>1, <3>2
  <2>3. ASSUME NEW l \in 1 .. n - 1, files[devices'[l]].path = p PROVE l = j
    <3>1. CASE l < i
      <4>1. l \in 1 .. n /\ devices'[l] = devices[l]
        BY <1>1, <1>2, <3>1
      <4> QED BY <1>1, <2>1, <2>3, <3>1, <4>1
    <3>2. CASE ~(l < i)
      <4>1. l + 1 \in 1 .. n /\ devices'[l] = devices[l + 1]
        BY <1>1, <1>2, <3>2
      <4>2. l + 1 = k
        BY <2>1, <2>3, <4>1
      <4> QED BY <1>1, <3>2, <4>2
    <3> QED BY <3>1, <3>2
  <2> HIDE DEF j
  <2>4. Known(devices, p)' = {j}
    BY <1>4, <2>1, <2>2, <2>3
  <2> QED BY <1>3, <2>2, <2>4
<1> QED BY <1>5, <1>6

-----------------------------------------------------------------------------
\* The hardware changes.

LEMMA NodesDie ==
  ASSUME HotTypes, NEW q, H!Unplug(q)
  PROVE  /\ files' \in Seq(Nodes) /\ Len(files') = Len(files)
         /\ \A f \in 1 .. Len(files) :
              /\ files'[f].path = files[f].path
              /\ files[f].path # q => files'[f].alive = files[f].alive
<1>1. Len(files) \in Nat /\ DOMAIN files = 1 .. Len(files) /\ \A f \in 1 .. Len(files) : files[f] \in Nodes
  BY LenProperties, ElementOfSeq DEF HotTypes
<1>2. files' = [f \in 1 .. Len(files) |->
         IF files[f].path = q THEN [files[f] EXCEPT !.alive = FALSE] ELSE files[f]]
  BY <1>1 DEF H!Unplug
<1>3. \A f \in 1 .. Len(files) : files'[f] \in Nodes
  BY <1>1, <1>2 DEF Nodes
<1>4. files' \in [1 .. Len(files) -> Nodes]
  BY <1>2, <1>3
<1>5. files' \in Seq(Nodes)
  BY <1>1, <1>4, SeqDef
<1>6. Len(files') = Len(files)
  BY <1>1, <1>2, <1>5, LenProperties
<1>7. \A f \in 1 .. Len(files) :
        files'[f].path = files[f].path /\ (files[f].path # q => files'[f].alive = files[f].alive)
  BY <1>1, <1>2 DEF Nodes
<1> QED BY <1>5, <1>6, <1>7

LEMMA EventTypes ==
  ASSUME HotTypes, NEW q \in All, H!Plug(q) \/ H!Unplug(q)
  PROVE  HotTypes'
<1>1. files' \in Seq(Nodes) /\ Len(files') = Len(files) /\ (files = <<>> => files' = <<>>)
  <2>1. CASE H!Plug(q)
    BY <2>1 DEF H!Plug, HotTypes
  <2>2. CASE H!Unplug(q)
    <3>1. files' \in Seq(Nodes) /\ Len(files') = Len(files)
      BY <2>2, NodesDie
    <3> QED BY <3>1, EmptySeq, LenProperties
  <2> QED BY <2>1, <2>2
<1>2. UNCHANGED <<sock, handlers, devices, seen, main, made, todo>> /\ plugged' \subseteq All
  BY DEF H!Plug, H!Unplug, H!Uevent, H!boot, HotTypes
<1>3. uevents' \in Seq(Messages) /\ (sock = "closed" => uevents' = uevents)
  <2>1. [action |-> "add", path |-> q] \in Messages /\ [action |-> "remove", path |-> q] \in Messages
    BY DEF Messages
  <2>2. uevents \in Seq(Messages)
    BY DEF HotTypes
  <2>3. Append(uevents, [action |-> "add", path |-> q]) \in Seq(Messages)
    BY <2>1, <2>2, AppendProperties
  <2>4. Append(uevents, [action |-> "remove", path |-> q]) \in Seq(Messages)
    BY <2>1, <2>2, AppendProperties
  <2> QED BY <2>2, <2>3, <2>4 DEF H!Plug, H!Unplug, H!Uevent
<1>4. main = "listen" => uevents' = <<>> /\ files' = <<>>
  BY <1>1, <1>3 DEF HotTypes
<1> QED BY <1>1, <1>2, <1>3, <1>4 DEF HotTypes

LEMMA EventOfOthers ==
  ASSUME HotTypes, NEW q, NEW p, p # q, PathInv(p), H!Plug(q) \/ H!Unplug(q)
  PROVE  PathInv(p)'
<1>1. /\ UNCHANGED <<main, todo, made, handlers, devices, seen>> /\ Len(files') = Len(files)
      /\ (p \in plugged)' <=> p \in plugged
  BY NodesDie DEF H!Plug, H!Unplug, H!Uevent, H!boot
<1>2. \A f \in 1 .. Len(files) :
        files'[f].path = files[f].path /\ (files[f].path = p => files'[f].alive = files[f].alive)
  BY NodesDie DEF H!Plug
<1>3. \A f \in handlers \ {0} : f \in 1 .. Len(files)
  BY LenProperties DEF HotTypes
<1>4. H!Polled(p)' = H!Polled(p) /\ \A f \in H!Polled(p) : files'[f].alive = files[f].alive
  BY <1>1, <1>2, <1>3 DEF H!Polled, H!Sock
<1>5. Known(devices, p)' = Known(devices, p) /\ Known(seen, p)' = Known(seen, p)
  BY <1>1, <1>2, VectorsSame
<1>6. Pending(p)' = Pending(p) /\ \A i \in Pending(p) : uevents'[i] = uevents[i]
  <2>1. CASE uevents' = uevents
    BY <2>1 DEF Pending
  <2>2. ASSUME NEW what, uevents' = Append(uevents, [action |-> what, path |-> q])
        PROVE  Pending(p)' = Pending(p) /\ \A i \in Pending(p) : uevents'[i] = uevents[i]
    <3> DEFINE e == [action |-> what, path |-> q]
    <3>1. e.path = q
      OBVIOUS
    <3> HIDE DEF e
    <3>2. uevents \in Seq(Messages \cup {e}) /\ Len(uevents) \in Nat /\ DOMAIN uevents = 1 .. Len(uevents)
      <4>1. uevents \in Seq(Messages)
        BY DEF HotTypes
      <4> QED BY <4>1, LenProperties
    <3>3. /\ uevents' \in Seq(Messages \cup {e}) /\ Len(uevents') = Len(uevents) + 1
          /\ \A i \in 1 .. Len(uevents) : uevents'[i] = uevents[i]
          /\ uevents'[Len(uevents) + 1] = e
      BY <2>2, <3>2, AppendProperties DEF e
    <3>4. DOMAIN uevents' = 1 .. Len(uevents) + 1
      BY <3>3, LenProperties
    <3> QED BY <3>1, <3>2, <3>3, <3>4 DEF Pending
  <2> QED BY <2>1, <2>2 DEF H!Plug, H!Unplug, H!Uevent
<1>7. main = "push" => files'[made].path = files[made].path
  BY <1>2 DEF HotTypes
<1>8. (Pending(p)' = {} <=> Pending(p) = {}) /\ (Adds(p)' => Adds(p)) /\ Trail(p)'
  BY <1>1, <1>6, UeventsSame DEF PathInv
<1> QED BY <1>1, <1>4, <1>5, <1>7, <1>8, PathSame

\* ... and the uevent joins those of its path.
LEMMA EventOfOwn ==
  ASSUME HotTypes, NEW p \in Paths, PathInv(p), H!Plug(p) \/ H!Unplug(p), p \notin (crossed \cup lost)'
  PROVE  PathInv(p)'
<1>1. /\ UNCHANGED <<main, todo, made, handlers, devices, seen>> /\ Len(files') = Len(files)
      /\ (p \in plugged)' <=> p \notin plugged
      /\ \A f \in 1 .. Len(files) : files'[f].path = files[f].path
  BY NodesDie DEF H!Plug, H!Unplug, H!Uevent, H!boot
<1>2. \A f \in handlers \ {0} : f \in 1 .. Len(files)
  BY LenProperties DEF HotTypes
<1>3. H!Polled(p)' = H!Polled(p)
  BY <1>1, <1>2 DEF H!Polled, H!Sock
<1>4. Known(devices, p)' = Known(devices, p)
  BY <1>1, VectorsSame
<1>5. main \in {"listen", "on"}
  BY DEF H!Plug, H!Unplug, H!Uevent, HotTypes
<1>6. CASE main = "listen"
  <2>1. files = <<>> /\ handlers = {} /\ devices = <<>> /\ todo = Paths /\ sock = "closed" /\ uevents = <<>>
    BY <1>6 DEF HotTypes
  <2>2. uevents' = <<>>
    BY <2>1 DEF H!Plug, H!Unplug, H!Uevent
  <2>3. Pending(p)' = {} /\ H!Polled(p)' = {} /\ Known(devices, p)' = {}
    BY <1>1, <2>1, <2>2 DEF Pending, H!Polled, Known
  <2> QED BY <1>1, <1>6, <2>1, <2>3 DEF PathInv, Alive, Trail, Follows, Out, Adds
<1>7. CASE main = "on"
  <2>0. p \notin todo
    BY <1>7 DEF HotTypes
  <2>1. PICK what \in {"add", "remove"} :
          /\ uevents' = Append(uevents, [action |-> what, path |-> p])
          /\ what = "add" <=> p \notin plugged
    BY <1>7 DEF H!Plug, H!Unplug, H!Uevent
  <2> DEFINE n == Len(uevents)
             e == [action |-> what, path |-> p]
  <2>2. e.path = p /\ e.action = what
    OBVIOUS
  <2> HIDE DEF e
  <2>3. uevents \in Seq(Messages \cup {e}) /\ n \in Nat /\ DOMAIN uevents = 1 .. n
    <3>1. uevents \in Seq(Messages)
      BY DEF HotTypes
    <3> QED BY <3>1, LenProperties
  <2>4. /\ uevents' \in Seq(Messages \cup {e}) /\ Len(uevents') = n + 1
        /\ \A i \in 1 .. n : uevents'[i] = uevents[i]
        /\ uevents'[n + 1] = e
    BY <2>1, <2>3, AppendProperties DEF e
  <2>5. DOMAIN uevents' = 1 .. n + 1
    BY <2>4, LenProperties
  <2> HIDE DEF n
  <2>6. Pending(p)' = Pending(p) \cup {n + 1} /\ Pending(p) \subseteq 1 .. n
    BY <2>2, <2>3, <2>4, <2>5 DEF Pending
  <2>7. Trail(p)'
    <3> SUFFICES ASSUME NEW i \in Pending(p)' PROVE Ends(i, p)' /\ \A j \in Pending(p)' : Differ(i, j, p)'
      BY DEF Trail
    <3>1. CASE i \in Pending(p)
      <4>1. Ends(i, p)'
        BY <2>3, <2>6, <3>1 DEF Ends
      <4>2. ASSUME NEW j \in Pending(p)', j < i, \A k \in Pending(p)' : ~(j < k /\ k < i)
            PROVE  uevents'[i].action # uevents'[j].action
        <5>1. j \in Pending(p)
          BY <2>3, <2>6, <3>1, <4>2
        <5>2. uevents[i].action # uevents[j].action
          BY <3>1, <4>2, <2>6, <5>1 DEF PathInv, Trail, Differ
        <5> QED BY <2>4, <2>6, <3>1, <5>1, <5>2
      <4> QED BY <4>1, <4>2 DEF Differ
    <3>2. CASE i = n + 1
      <4>1. Ends(i, p)'
        BY <1>1, <2>1, <2>2, <2>4, <3>2 DEF Ends
      <4>2. ASSUME NEW j \in Pending(p)', j < i, \A k \in Pending(p)' : ~(j < k /\ k < i)
            PROVE  uevents'[i].action # uevents'[j].action
        <5>1. j \in Pending(p)
          BY <2>3, <2>6, <3>2, <4>2
        <5>2. \A k \in Pending(p) : k <= j
          BY <2>3, <2>6, <3>2, <4>2
        <5>3. uevents[j].action = "add" <=> p \in plugged
          BY <5>1, <5>2 DEF PathInv, Trail, Ends
        <5> QED BY <2>1, <2>2, <2>4, <2>6, <3>2, <5>1, <5>3
      <4> QED BY <4>1, <4>2 DEF Differ
    <3> QED BY <2>6, <3>1, <3>2
  <2>8. Follows(devices, p)'
    <3>1. Follows(devices, p)
      BY <1>7 DEF PathInv
    <3>2. (In(devices, p) <=> In(devices, p)') /\ (Out(devices, p) <=> Out(devices, p)')
      BY <1>1, <1>3, <1>4 DEF In, Out
    <3>3. ASSUME Adds(p)' PROVE Out(devices, p)
      <4> PICK i \in Pending(p)' : H!First(i, Pending(p)') /\ uevents'[i].action = "add"
        BY <3>3 DEF Adds, H!First
      <4>1. CASE i \in Pending(p)
        BY <2>4, <2>6, <3>1, <4>1 DEF Follows, Adds, H!First
      <4>2. CASE i = n + 1
        <5>1. Pending(p) = {}
          BY <2>3, <2>6, <4>2 DEF H!First
        <5>2. p \notin plugged
          BY <2>1, <2>2, <2>4, <4>2
        <5> QED BY <2>0, <3>1, <5>1, <5>2 DEF Follows
      <4> QED BY <2>6, <4>1, <4>2
    <3> QED BY <1>1, <2>0, <2>6, <3>1, <3>2, <3>3 DEF Follows
  <2> QED BY <1>1, <1>7, <2>6, <2>7, <2>8 DEF PathInv, Alive
<1> QED BY <1>5, <1>6, <1>7

-----------------------------------------------------------------------------
\* The loop's thread.

\* Nothing of any path changes.
LEMMA NothingChanges ==
  ASSUME HotInv, UNCHANGED <<plugged, uevents, files, devices, main, todo, seen, made>>,
         handlers' \ {0} = handlers \ {0}, handlers' \subseteq handlers \cup {0},
         sock' = "closed" => uevents' = <<>>, main = "listen" => handlers' = {} /\ sock' = "closed",
         crossed \cup lost \subseteq (crossed \cup lost)'
  PROVE  HotInv'
<1>1. HotTypes'
  BY LenProperties DEF HotInv, HotTypes
<1>2. ASSUME NEW p \in Clean' PROVE PathInv(p)'
  <2>1. PathInv(p) /\ H!Polled(p)' = H!Polled(p)
    BY <1>2 DEF HotInv, Clean, H!Polled, H!Sock
  <2>2. Known(devices, p)' = Known(devices, p) /\ Known(seen, p)' = Known(seen, p)
    BY DEF Known
  <2>3. (Pending(p)' = {} <=> Pending(p) = {}) /\ (Adds(p)' => Adds(p)) /\ Trail(p)'
    BY <2>1, UeventsSame DEF PathInv, Pending
  <2> QED BY <2>1, <2>2, <2>3, PathSame
<1> QED BY <1>1, <1>2 DEF HotInv

\* Input comes or is read.
LEMMA InputChanges ==
  ASSUME HotInv, NEW f \in DOMAIN files, NEW b \in BOOLEAN, files' = [files EXCEPT ![f].input = b],
         UNCHANGED <<plugged, uevents, handlers, devices, main, todo, seen, made, sock, crossed, lost>>
  PROVE  HotInv'
<1>1. Len(files) \in Nat /\ DOMAIN files = 1 .. Len(files) /\ \A g \in 1 .. Len(files) : files[g] \in Nodes
  BY LenProperties, ElementOfSeq DEF HotInv, HotTypes
<1>2. \A g \in 1 .. Len(files) : files'[g].path = files[g].path /\ files'[g].alive = files[g].alive
  BY <1>1 DEF Nodes
<1>3. files' \in Seq(Nodes) /\ Len(files') = Len(files)
  <2>1. \A g \in 1 .. Len(files) : files'[g] \in Nodes
    BY <1>1 DEF Nodes
  <2>2. files' \in [1 .. Len(files) -> Nodes]
    BY <1>1, <2>1
  <2>3. files' \in Seq(Nodes)
    BY <1>1, <2>2, SeqDef
  <2> QED BY <1>1, <2>2, <2>3, LenProperties
<1>4. HotTypes'
  BY <1>1, <1>3, EmptySeq DEF HotInv, HotTypes
<1>5. ASSUME NEW p \in Clean' PROVE PathInv(p)'
  <2>1. PathInv(p) /\ HotTypes
    BY <1>5 DEF HotInv, Clean
  <2>2. Known(devices, p)' = Known(devices, p) /\ Known(seen, p)' = Known(seen, p)
    BY <1>2, <2>1, VectorsSame
  <2>3. \A g \in handlers \ {0} : g \in 1 .. Len(files)
    BY <1>1, <2>1 DEF HotTypes
  <2>4. H!Polled(p)' = H!Polled(p) /\ \A g \in H!Polled(p) : files'[g].alive = files[g].alive
    BY <1>2, <2>3 DEF H!Polled, H!Sock
  <2>5. (Pending(p)' = {} <=> Pending(p) = {}) /\ (Adds(p)' => Adds(p)) /\ Trail(p)'
    BY <2>1, UeventsSame DEF PathInv, Pending
  <2>6. main = "push" => files'[made].path = files[made].path
    BY <1>2, <2>1 DEF HotTypes
  <2> QED BY <2>1, <2>2, <2>4, <2>5, <2>6, PathSame
<1> QED BY <1>4, <1>5 DEF HotInv

\* A device leaves vector and loop together.
LEMMA LeaveTypes ==
  ASSUME HotTypes, NEW i \in DOMAIN devices, devices' = H!RemoveAt(devices, i), handlers' \subseteq handlers,
         UNCHANGED <<plugged, files, main, todo, seen, made, sock>>, uevents' \in Seq(Messages),
         sock = "closed" => uevents' = <<>>
  PROVE  HotTypes'
<1>1. devices \in Seq(1 .. Len(files)) /\ i \in 1 .. Len(devices) /\ devices # <<>>
  BY LenProperties, EmptySeq DEF HotTypes
<1>2. devices' \in Seq(1 .. Len(files))
  BY <1>1, WithoutOne
<1>3. main # "listen"
  BY <1>1 DEF HotTypes
<1> QED BY <1>2, <1>3 DEF HotTypes

LEMMA LeaveOfOthers ==
  ASSUME HotTypes, NEW p, PathInv(p), NEW i \in DOMAIN devices, files[devices[i]].path # p,
         devices' = H!RemoveAt(devices, i), handlers' = handlers \ {devices[i]},
         UNCHANGED <<plugged, files, main, todo, seen, made>>,
         Pending(p)' = {} <=> Pending(p) = {}, Adds(p)' => Adds(p), Trail(p)'
  PROVE  PathInv(p)'
<1>1. H!Polled(p)' = H!Polled(p)
  BY DEF H!Polled
<1>2. /\ Known(devices, p) = {} => Known(devices, p)' = {}
      /\ \A k \in DOMAIN devices : Known(devices, p) = {k} =>
           \E j \in DOMAIN devices' : Known(devices, p)' = {j} /\ devices'[j] = devices[k]
  BY OthersLeave
<1>3. Known(seen, p)' = Known(seen, p)
  BY DEF Known
<1> QED BY <1>1, <1>2, <1>3, PathSame

\* The one device of a path leaves.
LEMMA LeaveOfOwn ==
  ASSUME HotTypes, NEW p, In(devices, p), NEW i \in DOMAIN devices, files[devices[i]].path = p,
         devices' = H!RemoveAt(devices, i), handlers' = handlers \ {devices[i]}, UNCHANGED files
  PROVE  Out(devices, p)'
<1>1. Known(devices, p) = {i} /\ H!Polled(p) = {devices[i]}
  BY DEF In, Known
<1>2. H!Polled(p)' = {}
  BY <1>1 DEF H!Polled
<1>3. /\ devices \in Seq(1 .. Len(files)) /\ i \in 1 .. Len(devices) /\ DOMAIN devices = 1 .. Len(devices)
      /\ Len(devices) \in Nat
  BY LenProperties DEF HotTypes
<1>4. /\ devices' \in Seq(1 .. Len(files)) /\ Len(devices') = Len(devices) - 1
      /\ \A k \in 1 .. Len(devices) - 1 : devices'[k] = IF k < i THEN devices[k] ELSE devices[k + 1]
  BY <1>3, WithoutOne
<1>5. DOMAIN devices' = 1 .. Len(devices) - 1
  BY <1>4, LenProperties
<1>6. ASSUME NEW k \in 1 .. Len(devices) - 1, files[devices'[k]].path = p PROVE FALSE
  <2>1. CASE k < i
    <3>1. k \in 1 .. Len(devices) /\ k # i /\ devices'[k] = devices[k]
      BY <1>3, <1>4, <2>1
    <3> QED BY <1>1, <1>3, <1>6, <3>1 DEF Known
  <2>2. CASE ~(k < i)
    <3>1. k + 1 \in 1 .. Len(devices) /\ k + 1 # i /\ devices'[k] = devices[k + 1]
      BY <1>3, <1>4, <2>2
    <3> QED BY <1>1, <1>3, <1>6, <3>1 DEF Known
  <2> QED BY <2>1, <2>2
<1>7. Known(devices, p)' = {}
  BY <1>5, <1>6 DEF Known
<1> QED BY <1>2, <1>7 DEF Out

\* A device that is gone and has input left.
LEMMA DeviceGoes ==
  ASSUME HotInv, NEW f \in handlers \ {0}, ~files[f].alive, handlers' = handlers \ {f},
         UNCHANGED <<plugged, uevents, files, main, todo, seen, made, sock, crossed, lost>>,
         \/ {i \in DOMAIN devices : devices[i] = f} = {} /\ UNCHANGED devices
         \/ \E i \in DOMAIN devices :
              devices[i] = f /\ devices' = H!RemoveAt(devices, i)
  PROVE  HotInv'
<1>1. HotTypes'
  <2>1. HotTypes /\ handlers' \subseteq handlers /\ main # "listen"
    BY DEF HotInv, HotTypes
  <2>2. CASE UNCHANGED devices
    BY <2>1, <2>2 DEF HotTypes
  <2>3. ASSUME NEW i \in DOMAIN devices, devices' = H!RemoveAt(devices, i) PROVE HotTypes'
    BY <2>1, <2>3, LeaveTypes DEF HotTypes
  <2> QED BY <2>2, <2>3
<1>2. ASSUME NEW p \in Clean' PROVE PathInv(p)'
  <2>1. PathInv(p) /\ HotTypes
    BY <1>2 DEF HotInv, Clean
  <2>2. (Pending(p)' = {} <=> Pending(p) = {}) /\ (Adds(p)' <=> Adds(p)) /\ Trail(p)' /\ Pending(p)' = Pending(p)
    BY <2>1 DEF PathInv, Pending, Adds, H!First, Trail, Differ, Ends
  <2>3. CASE files[f].path # p
    <3>1. CASE {i \in DOMAIN devices : devices[i] = f} = {} /\ UNCHANGED devices
      <4>1. H!Polled(p)' = H!Polled(p)
        BY <2>3 DEF H!Polled
      <4>2. Known(devices, p)' = Known(devices, p) /\ Known(seen, p)' = Known(seen, p)
        BY <3>1 DEF Known
      <4> QED BY <2>1, <2>2, <3>1, <4>1, <4>2, PathSame
    <3>2. ASSUME NEW i \in DOMAIN devices, devices[i] = f, devices' = H!RemoveAt(devices, i) PROVE PathInv(p)'
      BY <2>1, <2>2, <2>3, <3>2, LeaveOfOthers
    <3> QED BY <3>1, <3>2
  <2>4. CASE files[f].path = p
    <3>1. f \in H!Polled(p)
      BY <2>4 DEF H!Polled, H!Sock
    <3>2. ~(main = "push" /\ files[made].path = p)
      BY <2>1, <3>1 DEF PathInv, Making, Alive
    <3>3. Follows(devices, p)
      BY <2>1, <3>2 DEF PathInv
    <3>4. In(devices, p) /\ ~Out(devices, p) /\ p \notin todo
      BY <3>1, <3>3 DEF Follows, Out
    <3>5. Pending(p) # {}
      <4>1. SUFFICES ASSUME Pending(p) = {} PROVE FALSE
        OBVIOUS
      <4>2. p \in plugged
        BY <3>3, <3>4, <4>1 DEF Follows
      <4> QED BY <2>1, <3>1, <4>1, <4>2 DEF PathInv, Alive
    <3>6. main = "on"
      BY <2>1, <3>5 DEF PathInv
    <3>7. PICK k \in DOMAIN devices : H!Polled(p) = {devices[k]} /\ Known(devices, p) = {k}
      BY <3>4 DEF In
    <3>8. PICK i \in DOMAIN devices : devices[i] = f /\ devices' = H!RemoveAt(devices, i)
      BY <3>1, <3>7
    <3>9. Out(devices, p)'
      BY <2>1, <2>4, <3>4, <3>8, LeaveOfOwn
    <3>10. Alive(p)' /\ Follows(devices, p)'
      BY <2>2, <3>4, <3>5, <3>9 DEF Alive, Follows
    <3> QED BY <2>2, <3>6, <3>10 DEF PathInv
  <2> QED BY <2>3, <2>4
<1> QED BY <1>1, <1>2 DEF HotInv

\* A uevent is read: those that stay keep their order.
LEMMA OneIsRead ==
  ASSUME HotTypes, uevents # <<>>, uevents' = Tail(uevents), NEW p, Trail(p), (p \in plugged)' <=> p \in plugged
  PROVE  /\ uevents' \in Seq(Messages) /\ Head(uevents) \in Messages /\ Trail(p)'
         /\ Head(uevents).path # p => (Pending(p)' = {} <=> Pending(p) = {}) /\ (Adds(p)' => Adds(p))
         /\ Head(uevents).path = p =>
              /\ Pending(p) # {}
              /\ Pending(p)' = {} => (Head(uevents).action = "add" <=> p \in plugged)
              /\ Head(uevents).action = "add" => Adds(p) /\ ~Adds(p)'
<1> DEFINE n == Len(uevents)
<1>1. uevents \in Seq(Messages) /\ n \in Nat \ {0} /\ DOMAIN uevents = 1 .. n /\ Head(uevents) = uevents[1]
  BY LenProperties, EmptySeq DEF HotTypes
<1>2. /\ uevents' \in Seq(Messages) /\ Head(uevents) \in Messages /\ Len(uevents') = n - 1
      /\ \A i \in 1 .. n - 1 : uevents'[i] = uevents[i + 1]
  BY <1>1, HeadTailProperties
<1>3. DOMAIN uevents' = 1 .. n - 1
  BY <1>2, LenProperties
<1> HIDE DEF n
<1>4. \A i \in Pending(p)' : i \in 1 .. n - 1 /\ i + 1 \in Pending(p) /\ uevents'[i] = uevents[i + 1]
  BY <1>1, <1>2, <1>3 DEF Pending
<1>5. \A i \in Pending(p) : i \in 1 .. n /\ (i # 1 => i - 1 \in Pending(p)' /\ uevents'[i - 1] = uevents[i])
  <2> SUFFICES ASSUME NEW i \in Pending(p), i # 1
               PROVE  i - 1 \in Pending(p)' /\ uevents'[i - 1] = uevents[i]
    BY <1>1 DEF Pending
  <2>1. i - 1 \in 1 .. n - 1 /\ (i - 1) + 1 = i
    BY <1>1 DEF Pending
  <2>2. uevents'[i - 1] = uevents[i]
    BY <1>2, <2>1
  <2> QED BY <1>3, <2>1, <2>2 DEF Pending
<1>6. 1 \in Pending(p) <=> uevents[1].path = p
  BY <1>1 DEF Pending
<1>7. Trail(p)'
  <2>1. ASSUME NEW i \in Pending(p)' PROVE Ends(i, p)'
    <3>1. ASSUME \A j \in Pending(p)' : j <= i PROVE \A j \in Pending(p) : j <= i + 1
      BY <1>4, <1>5, <3>1
    <3>2. Ends(i + 1, p)
      BY <1>4 DEF Trail
    <3> QED BY <1>4, <3>1, <3>2 DEF Ends
  <2>2. ASSUME NEW i \in Pending(p)', NEW j \in Pending(p)', j < i, \A k \in Pending(p)' : ~(j < k /\ k < i)
        PROVE  uevents'[i].action # uevents'[j].action
    <3>1. i + 1 \in Pending(p) /\ j + 1 \in Pending(p) /\ j + 1 < i + 1 /\ i \in 1 .. n - 1 /\ j \in 1 .. n - 1
      BY <1>4, <2>2
    <3>2. \A k \in Pending(p) : ~(j + 1 < k /\ k < i + 1)
      <4> SUFFICES ASSUME NEW k \in Pending(p), j + 1 < k, k < i + 1 PROVE FALSE
        OBVIOUS
      <4>1. k # 1 /\ k \in 1 .. n
        BY <1>5, <3>1
      <4>2. k - 1 \in Pending(p)' /\ j < k - 1 /\ k - 1 < i
        BY <1>5, <3>1, <4>1
      <4> QED BY <2>2, <4>2
    <3>3. Differ(i + 1, j + 1, p)
      BY <3>1 DEF Trail
    <3> QED BY <1>4, <3>1, <3>2, <3>3 DEF Differ
  <2> QED BY <2>1, <2>2 DEF Trail, Differ
<1>8. ASSUME uevents[1].path # p PROVE (Pending(p)' = {} <=> Pending(p) = {}) /\ (Adds(p)' => Adds(p))
  <2>1. 1 \notin Pending(p)
    BY <1>6, <1>8
  <2>2. Pending(p)' = {} <=> Pending(p) = {}
    BY <1>4, <1>5, <2>1
  <2>3. ASSUME NEW i \in Pending(p)', H!First(i, Pending(p)'), uevents'[i].action = "add" PROVE Adds(p)
    <3>1. i + 1 \in Pending(p) /\ uevents[i + 1].action = "add" /\ i \in 1 .. n - 1
      BY <1>4, <2>3
    <3>2. \A k \in Pending(p) : i + 1 <= k
      <4> TAKE k \in Pending(p)
      <4>1. k - 1 \in Pending(p)' /\ k \in 1 .. n
        BY <1>5, <2>1
      <4>2. i <= k - 1
        BY <2>3, <4>1 DEF H!First
      <4> QED BY <3>1, <4>1, <4>2
    <3> QED BY <3>1, <3>2 DEF Adds, H!First
  <2> QED BY <2>2, <2>3 DEF Adds, H!First
<1>9. ASSUME uevents[1].path = p
      PROVE  /\ Pending(p) # {}
             /\ Pending(p)' = {} => (uevents[1].action = "add" <=> p \in plugged)
             /\ uevents[1].action = "add" => Adds(p) /\ ~Adds(p)'
  <2>1. 1 \in Pending(p) /\ \A k \in Pending(p) : 1 <= k
    BY <1>5, <1>6, <1>9
  <2>2. ASSUME Pending(p)' = {} PROVE uevents[1].action = "add" <=> p \in plugged
    <3>1. \A k \in Pending(p) : k = 1
      BY <1>5, <2>2
    <3> QED BY <2>1, <3>1 DEF Trail, Ends
  <2>3. ASSUME uevents[1].action = "add", NEW i \in Pending(p)', H!First(i, Pending(p)'), uevents'[i].action = "add"
        PROVE  FALSE
    <3>1. i + 1 \in Pending(p) /\ uevents[i + 1].action = "add" /\ i \in 1 .. n - 1
      BY <1>4, <2>3
    <3>2. \A k \in Pending(p) : ~(1 < k /\ k < i + 1)
      <4> SUFFICES ASSUME NEW k \in Pending(p), 1 < k, k < i + 1 PROVE FALSE
        OBVIOUS
      <4>1. k - 1 \in Pending(p)' /\ k \in 1 .. n
        BY <1>5
      <4>2. i <= k - 1
        BY <2>3, <4>1 DEF H!First
      <4> QED BY <3>1, <4>1, <4>2
    <3>3. Differ(i + 1, 1, p) /\ 1 < i + 1
      BY <2>1, <3>1 DEF Trail
    <3> QED BY <2>3, <3>1, <3>2, <3>3 DEF Differ
  <2>4. uevents[1].action = "add" => Adds(p)
    BY <2>1 DEF Adds, H!First
  <2> QED BY <2>1, <2>2, <2>3, <2>4 DEF Adds, H!First
<1> QED BY <1>1, <1>2, <1>7, <1>8, <1>9

LEMMA RemoveIsRead ==
  ASSUME HotInv, uevents # <<>>, uevents' = Tail(uevents), H!StopDevice(Head(uevents).path),
         Head(uevents).action = "remove", sock = "open",
         UNCHANGED <<plugged, main, todo, seen, made, sock, crossed, lost>>
  PROVE  HotInv'
<1> DEFINE q == Head(uevents).path
<1>0. HotTypes
  BY DEF HotInv
<1>1. HotTypes'
  <2>1. uevents' \in Seq(Messages)
    BY <1>0, HeadTailProperties DEF HotTypes
  <2>2. CASE UNCHANGED <<files, handlers, devices>>
    <3>1. main # "listen"
      BY <1>0 DEF HotTypes
    <3> QED BY <1>0, <2>1, <2>2, <3>1 DEF HotTypes
  <2>3. ASSUME NEW i \in DOMAIN devices, devices' = H!RemoveAt(devices, i), handlers' \subseteq handlers, UNCHANGED files
        PROVE  HotTypes'
    BY <1>0, <2>1, <2>3, LeaveTypes
  <2> QED BY <2>2, <2>3 DEF H!StopDevice, H!ev
<1>2. ASSUME NEW p \in Clean' PROVE PathInv(p)'
  <2>1. PathInv(p)
    BY <1>2 DEF HotInv, Clean
  <2>2. /\ Trail(p)'
        /\ q # p => (Pending(p)' = {} <=> Pending(p) = {}) /\ (Adds(p)' => Adds(p))
        /\ q = p => Pending(p) # {} /\ (Pending(p)' = {} => p \notin plugged)
    BY <1>0, <2>1, OneIsRead DEF PathInv
  <2>3. CASE q # p
    <3>1. CASE UNCHANGED <<files, handlers, devices>>
      <4>1. H!Polled(p)' = H!Polled(p) /\ Known(devices, p)' = Known(devices, p) /\ Known(seen, p)' = Known(seen, p)
        BY <3>1 DEF H!Polled, Known
      <4> QED BY <2>1, <2>2, <2>3, <3>1, <4>1, PathSame
    <3>2. ASSUME NEW i \in DOMAIN devices, H!First(i, H!Held(q)), devices' = H!RemoveAt(devices, i),
                 handlers' = handlers \ {devices[i]}, UNCHANGED files
          PROVE  PathInv(p)'
      <4>1. files[devices[i]].path = q
        BY <3>2 DEF H!First, H!Held
      <4> QED BY <1>0, <2>1, <2>2, <2>3, <3>2, <4>1, LeaveOfOthers
    <3> QED BY <3>1, <3>2 DEF H!StopDevice, H!ev
  <2>4. CASE q = p
    <3>1. main = "on" /\ Follows(devices, p) /\ p \notin todo
      BY <1>0, <2>1, <2>2, <2>4 DEF PathInv, HotTypes
    <3>2. Out(devices, p)'
      <4>1. CASE H!Held(p) = {} /\ UNCHANGED <<files, handlers, devices>>
        <5>1. Known(devices, p) = {}
          BY <4>1 DEF H!Held, Known
        <5>2. Out(devices, p)
          BY <3>1, <5>1 DEF Follows, In
        <5> QED BY <4>1, <5>2 DEF Out, Known, H!Polled
      <4>2. ASSUME NEW i \in DOMAIN devices, H!First(i, H!Held(p)), devices' = H!RemoveAt(devices, i),
                   handlers' = handlers \ {devices[i]}, UNCHANGED files
            PROVE  Out(devices, p)'
        <5>1. files[devices[i]].path = p /\ i \in Known(devices, p)
          BY <4>2 DEF H!First, H!Held, Known
        <5>2. In(devices, p)
          BY <3>1, <5>1 DEF Follows, Out
        <5> QED BY <1>0, <4>2, <5>1, <5>2, LeaveOfOwn
      <4> QED BY <2>4, <4>1, <4>2 DEF H!StopDevice, H!ev
    <3>3. Alive(p)' /\ Follows(devices, p)'
      BY <2>2, <2>4, <3>1, <3>2 DEF Alive, Follows, Out
    <3> QED BY <2>2, <3>1, <3>3 DEF PathInv
  <2> QED BY <2>3, <2>4
<1> QED BY <1>1, <1>2 DEF HotInv

\* A node is opened: a new descriptor behind the others.
LEMMA NodeOpens ==
  ASSUME HotTypes, NEW q \in All, files' = H!Opened(q)
  PROVE  /\ files' \in Seq(Nodes) /\ Len(files') = Len(files) + 1 /\ Len(files) \in Nat
         /\ \A f \in 1 .. Len(files) : files'[f] = files[f]
         /\ files'[Len(files) + 1].path = q /\ files'[Len(files) + 1].alive = TRUE
         /\ 1 .. Len(files) \subseteq 1 .. Len(files')
         /\ devices \in Seq(1 .. Len(files')) /\ seen \in Seq(1 .. Len(files'))
<1> DEFINE d == [path |-> q, alive |-> TRUE, input |-> FALSE]
<1>1. d \in Nodes /\ d.path = q /\ d.alive = TRUE
  BY DEF Nodes
<1>2. files \in Seq(Nodes) /\ Len(files) \in Nat /\ files' = Append(files, d)
  BY LenProperties DEF HotTypes, H!Opened
<1> HIDE DEF d
<1>3. /\ files' \in Seq(Nodes) /\ Len(files') = Len(files) + 1
      /\ \A f \in 1 .. Len(files) : files'[f] = files[f]
      /\ files'[Len(files) + 1] = d
  BY <1>1, <1>2, AppendProperties
<1>4. 1 .. Len(files) \subseteq 1 .. Len(files')
  BY <1>2, <1>3
<1>5. devices \in Seq(1 .. Len(files')) /\ seen \in Seq(1 .. Len(files'))
  BY <1>4, SeqMonotonic DEF HotTypes
<1> QED BY <1>1, <1>2, <1>3, <1>4, <1>5

\* What a new descriptor changes for a path.
LEMMA NodeIsPolled ==
  ASSUME HotTypes, NEW q \in All, files' = H!Opened(q), handlers' = handlers \cup {Len(files) + 1}, NEW p
  PROVE  /\ H!Polled(p)' = H!Polled(p) \cup (IF p = q THEN {Len(files) + 1} ELSE {})
         /\ \A f \in H!Polled(p) : f \in 1 .. Len(files) /\ files'[f] = files[f]
<1>1. \A f \in handlers \ {0} : f \in 1 .. Len(files)
  BY LenProperties DEF HotTypes
<1>2. /\ Len(files) \in Nat /\ \A f \in 1 .. Len(files) : files'[f] = files[f]
      /\ files'[Len(files) + 1].path = q
  BY NodeOpens
<1>3. \A f \in H!Polled(p) : f \in 1 .. Len(files) /\ files'[f] = files[f]
  BY <1>1, <1>2 DEF H!Polled, H!Sock
<1>4. Len(files) + 1 # 0
  BY <1>2
<1>5. handlers' \ {0} = (handlers \ {0}) \cup {Len(files) + 1}
  BY <1>4
<1> QED BY <1>1, <1>2, <1>3, <1>5 DEF H!Polled, H!Sock

\* ... and for the vector it joins.
LEMMA NodeJoins ==
  ASSUME HotTypes, NEW q \in All, files' = H!Opened(q), devices' = Append(devices, Len(files) + 1), NEW p
  PROVE  /\ devices' \in Seq(1 .. Len(files'))
         /\ Known(devices, p)' = Known(devices, p) \cup (IF p = q THEN {Len(devices) + 1} ELSE {})
         /\ devices'[Len(devices) + 1] = Len(files) + 1 /\ Len(devices) + 1 \in DOMAIN devices'
         /\ \A i \in DOMAIN devices : i \in DOMAIN devices' /\ devices'[i] = devices[i]
<1> DEFINE n == Len(devices)
<1>1. /\ Len(files') = Len(files) + 1 /\ Len(files) \in Nat /\ devices \in Seq(1 .. Len(files'))
      /\ \A f \in 1 .. Len(files) : files'[f] = files[f]
      /\ files'[Len(files) + 1].path = q
  BY NodeOpens
<1>2. devices \in Seq(1 .. Len(files)) /\ n \in Nat /\ DOMAIN devices = 1 .. n
  BY LenProperties DEF HotTypes
<1>3. Len(files) + 1 \in 1 .. Len(files')
  BY <1>1
<1>4. /\ devices' \in Seq(1 .. Len(files')) /\ Len(devices') = n + 1
      /\ \A i \in 1 .. n : devices'[i] = devices[i]
      /\ devices'[n + 1] = Len(files) + 1
  BY <1>1, <1>3, AppendProperties
<1>5. DOMAIN devices' = 1 .. n + 1
  BY <1>4, LenProperties
<1>6. \A i \in 1 .. n : devices[i] \in 1 .. Len(files)
  BY <1>2, ElementOfSeq
<1> HIDE DEF n
<1>7. \A i \in 1 .. n : files'[devices'[i]].path = files[devices[i]].path
  BY <1>1, <1>4, <1>6
<1>8. files'[devices'[n + 1]].path = q
  BY <1>1, <1>4
<1>9. 1 .. n + 1 = 1 .. n \cup {n + 1}
  BY <1>2
<1>10. Known(devices, p)' = Known(devices, p) \cup (IF p = q THEN {n + 1} ELSE {})
  BY <1>2, <1>5, <1>7, <1>8, <1>9 DEF Known
<1> QED BY <1>2, <1>4, <1>5, <1>9, <1>10 DEF n

LEMMA AddIsRead ==
  ASSUME HotInv, uevents # <<>>, uevents' = Tail(uevents), H!StartDevice(Head(uevents).path),
         Head(uevents).action = "add", sock = "open",
         UNCHANGED <<plugged, main, todo, seen, made, sock, crossed, lost>>
  PROVE  HotInv'
<1> DEFINE q == Head(uevents).path
<1>0. HotTypes /\ main # "listen"
  BY DEF HotInv, HotTypes
<1>1. q \in All /\ uevents' \in Seq(Messages)
  <2>1. Head(uevents) \in Messages /\ Tail(uevents) \in Seq(Messages)
    BY <1>0, HeadTailProperties DEF HotTypes
  <2> QED BY <2>1 DEF Messages
<1>2. \/ q \notin plugged /\ UNCHANGED <<files, handlers, devices>>
      \/ /\ q \in plugged /\ files' = H!Opened(q)
         /\ handlers' = handlers \cup {Len(files) + 1} /\ devices' = Append(devices, Len(files) + 1)
  BY DEF H!StartDevice, H!ev
<1> HIDE DEF q
<1>3. HotTypes'
  <2>1. CASE UNCHANGED <<files, handlers, devices>>
    BY <1>0, <1>1, <2>1 DEF HotTypes
  <2>2. CASE files' = H!Opened(q) /\ handlers' = handlers \cup {Len(files) + 1}
             /\ devices' = Append(devices, Len(files) + 1)
    <3>1. /\ files' \in Seq(Nodes) /\ Len(files') = Len(files) + 1 /\ Len(files) \in Nat
          /\ seen \in Seq(1 .. Len(files')) /\ devices' \in Seq(1 .. Len(files'))
      BY <1>0, <1>1, <2>2, NodeOpens, NodeJoins
    <3>2. 0 .. Len(files) \subseteq 0 .. Len(files') /\ Len(files) + 1 \in 0 .. Len(files')
          /\ 1 .. Len(files) \subseteq 1 .. Len(files')
      BY <3>1
    <3>3. handlers' \subseteq 0 .. Len(files') /\ (main = "push" => made \in 1 .. Len(files'))
      BY <1>0, <2>2, <3>2 DEF HotTypes
    <3> QED BY <1>0, <1>1, <3>1, <3>3 DEF HotTypes
  <2> QED BY <1>2, <2>1, <2>2
<1>4. ASSUME NEW p \in Clean' PROVE PathInv(p)'
  <2>1. PathInv(p)
    BY <1>4 DEF HotInv, Clean
  <2>2. /\ Trail(p)'
        /\ q # p => (Pending(p)' = {} <=> Pending(p) = {}) /\ (Adds(p)' => Adds(p))
        /\ q = p => Pending(p) # {} /\ (Pending(p)' = {} => p \in plugged) /\ Adds(p) /\ ~Adds(p)'
    BY <1>0, <2>1, OneIsRead DEF PathInv, q
  <2>3. CASE q # p
    <3>1. CASE UNCHANGED <<files, handlers, devices>>
      <4>1. H!Polled(p)' = H!Polled(p) /\ Known(devices, p)' = Known(devices, p) /\ Known(seen, p)' = Known(seen, p)
        BY <3>1 DEF H!Polled, Known
      <4> QED BY <2>1, <2>2, <2>3, <3>1, <4>1, PathSame
    <3>2. CASE files' = H!Opened(q) /\ handlers' = handlers \cup {Len(files) + 1}
               /\ devices' = Append(devices, Len(files) + 1)
      <4>1. H!Polled(p)' = H!Polled(p) /\ \A f \in H!Polled(p) : files'[f].alive = files[f].alive
        <5>1. /\ H!Polled(p)' = H!Polled(p) \cup (IF p = q THEN {Len(files) + 1} ELSE {})
              /\ \A f \in H!Polled(p) : files'[f] = files[f]
          BY <1>0, <1>1, <3>2, NodeIsPolled
        <5> QED BY <2>3, <5>1
      <4>2. \A f \in 1 .. Len(files) : files'[f].path = files[f].path
        BY <1>0, <1>1, <3>2, NodeOpens
      <4>3. Known(seen, p)' = Known(seen, p) /\ (main = "push" => files'[made].path = files[made].path)
        BY <1>0, <4>2, VectorsSame DEF HotTypes
      <4>4. /\ Known(devices, p)' = Known(devices, p)
            /\ \A i \in DOMAIN devices : i \in DOMAIN devices' /\ devices'[i] = devices[i]
        <5>1. /\ Known(devices, p)' = Known(devices, p) \cup (IF p = q THEN {Len(devices) + 1} ELSE {})
              /\ \A i \in DOMAIN devices : i \in DOMAIN devices' /\ devices'[i] = devices[i]
          BY <1>0, <1>1, <3>2, NodeJoins
        <5> QED BY <2>3, <5>1
      <4> QED BY <2>1, <2>2, <2>3, <4>1, <4>3, <4>4, PathSame
    <3> QED BY <1>2, <3>1, <3>2
  <2>4. CASE q = p
    <3>1. main = "on" /\ Follows(devices, p) /\ p \notin todo /\ Out(devices, p)
      BY <1>0, <2>1, <2>2, <2>4 DEF PathInv, HotTypes, Follows
    <3>2. CASE q \notin plugged /\ UNCHANGED <<files, handlers, devices>>
      <4>1. Out(devices, p)'
        BY <3>1, <3>2 DEF Out, Known, H!Polled
      <4> QED BY <2>2, <2>4, <3>1, <3>2, <4>1 DEF PathInv, Alive, Follows
    <3>3. CASE q \in plugged /\ files' = H!Opened(q) /\ handlers' = handlers \cup {Len(files) + 1}
               /\ devices' = Append(devices, Len(files) + 1)
      <4>1. H!Polled(p)' = {Len(files) + 1}
        BY <1>0, <1>1, <2>4, <3>1, <3>3, NodeIsPolled DEF Out
      <4>2. /\ Known(devices, p)' = {Len(devices) + 1}
            /\ devices'[Len(devices) + 1] = Len(files) + 1 /\ Len(devices) + 1 \in DOMAIN devices'
        BY <1>0, <1>1, <2>4, <3>1, <3>3, NodeJoins DEF Out
      <4>3. In(devices, p)'
        BY <4>1, <4>2 DEF In
      <4>4. files'[Len(files) + 1].alive = TRUE
        BY <1>0, <1>1, <3>3, NodeOpens
      <4> QED BY <2>2, <2>4, <3>1, <3>3, <4>1, <4>3, <4>4 DEF PathInv, Alive, Follows
    <3> QED BY <1>2, <3>2, <3>3
  <2> QED BY <2>3, <2>4
<1> QED BY <1>3, <1>4 DEF HotInv

\* The socket is closed with what it held, and those paths are lost.
LEMMA SocketCloses ==
  ASSUME HotInv, H!CloseSocket
  PROVE  HotInv'
<1>1. /\ UNCHANGED <<plugged, files, handlers, devices, main, todo, seen, made, crossed>>
      /\ uevents' = <<>> /\ sock = "open"
      /\ lost' = lost \cup {uevents[i].path : i \in DOMAIN uevents}
  BY DEF H!CloseSocket, H!hw, H!ev, H!boot
<1>2. HotTypes'
  BY <1>1, EmptySeq DEF HotInv, HotTypes
<1>3. ASSUME NEW p \in Clean' PROVE PathInv(p)'
  <2>1. PathInv(p) /\ Pending(p) = {}
    BY <1>1, <1>3 DEF HotInv, Clean, Pending
  <2>2. Pending(p)' = {} /\ ~Adds(p)' /\ Trail(p)'
    BY <1>1 DEF Pending, Adds, Trail
  <2>3. H!Polled(p)' = H!Polled(p) /\ Known(devices, p)' = Known(devices, p) /\ Known(seen, p)' = Known(seen, p)
    BY <1>1 DEF H!Polled, Known
  <2> QED BY <1>1, <2>1, <2>2, <2>3, PathSame
<1> QED BY <1>2, <1>3 DEF HotInv

-----------------------------------------------------------------------------
\* The main thread.

LEMMA MainListens ==
  ASSUME HotInv, H!Listen
  PROVE  HotInv'
<1>1. /\ main = "listen" /\ main' = "probe" /\ handlers' = handlers \cup {0}
      /\ UNCHANGED <<plugged, files, devices, uevents, todo, seen, made, crossed, lost>>
      /\ sock' = "open"
  BY DEF H!Listen, H!Open, H!hw, H!hist, H!Sock
<1>2. /\ files = <<>> /\ handlers = {} /\ devices = <<>> /\ todo = Paths /\ uevents = <<>>
      /\ HotTypes
  BY <1>1 DEF HotInv, HotTypes
<1>3. HotTypes'
  BY <1>1, <1>2, LenProperties DEF HotTypes
<1>4. ASSUME NEW p \in Clean' PROVE PathInv(p)'
  <2>1. Pending(p)' = {} /\ H!Polled(p)' = {} /\ Known(devices, p)' = {} /\ p \in todo'
    BY <1>1, <1>2, <1>4 DEF Pending, H!Polled, H!Sock, Known, Clean
  <2> QED BY <1>1, <2>1 DEF PathInv, Alive, Trail, Follows, Out, Adds
<1> QED BY <1>3, <1>4 DEF HotInv

\* A node of the directory is opened, or is gone.
LEMMA MainProbes ==
  ASSUME HotInv, NEW q \in todo, H!Probe(q)
  PROVE  HotInv'
<1>1. /\ main = "probe" /\ todo' = todo \ {q}
      /\ UNCHANGED <<plugged, uevents, sock, devices, crossed, lost>>
  BY DEF H!Probe, H!hw, H!nl, H!hist
<1>2. HotTypes /\ q \in All
  BY DEF HotInv, HotTypes, All
<1>3. CASE /\ q \in plugged /\ files' = H!Opened(q) /\ handlers' = handlers \cup {Len(files) + 1}
           /\ seen' = devices /\ made' = Len(files) + 1 /\ main' = "push"
  <2>1. /\ files' \in Seq(Nodes) /\ Len(files') = Len(files) + 1 /\ Len(files) \in Nat
        /\ devices \in Seq(1 .. Len(files'))
        /\ \A f \in 1 .. Len(files) : files'[f] = files[f]
        /\ files'[Len(files) + 1].path = q /\ files'[Len(files) + 1].alive = TRUE
    BY <1>2, <1>3, NodeOpens
  <2>2. HotTypes'
    <3>1. 0 .. Len(files) \subseteq 0 .. Len(files') /\ Len(files) + 1 \in 1 .. Len(files')
          /\ Len(files) + 1 \in 0 .. Len(files')
      BY <2>1
    <3> QED BY <1>1, <1>2, <1>3, <2>1, <3>1 DEF HotTypes
  <2>3. ASSUME NEW p \in Clean' PROVE PathInv(p)'
    <3>1. PathInv(p) /\ Pending(p) = {} /\ Follows(devices, p)
      BY <1>1, <2>3 DEF HotInv, Clean, PathInv
    <3>2. /\ H!Polled(p)' = H!Polled(p) \cup (IF p = q THEN {Len(files) + 1} ELSE {})
          /\ \A f \in H!Polled(p) : files'[f] = files[f]
      BY <1>2, <1>3, NodeIsPolled
    <3>3. Pending(p)' = {} /\ ~Adds(p)' /\ Trail(p)'
      BY <1>1, <3>1 DEF Pending, Adds, Trail
    <3>4. Known(devices, p)' = Known(devices, p) /\ Known(seen, p)' = Known(devices, p)
      <4>1. Known(devices, p)' = Known(devices, p)
        BY <1>1, <1>2, <2>1, VectorsSame
      <4> QED BY <1>1, <1>3, <4>1 DEF Known
    <3>5. CASE p = q
      <4>1. Out(devices, p)
        BY <3>1, <3>5 DEF Follows
      <4>2. H!Polled(p)' = {Len(files) + 1} /\ Known(devices, p)' = {} /\ Known(seen, p)' = {}
        BY <3>2, <3>4, <3>5, <4>1 DEF Out
      <4> QED BY <1>1, <1>3, <2>1, <3>3, <3>5, <4>2 DEF PathInv, Making, Alive
    <3>6. CASE p # q
      <4>1. H!Polled(p)' = H!Polled(p)
        BY <3>2, <3>6
      <4>2. Follows(devices, p)'
        BY <1>1, <3>1, <3>3, <3>4, <3>6, <4>1 DEF Follows, In, Out
      <4>3. Follows(seen, p)'
        BY <1>1, <1>3, <4>2 DEF Follows, In, Out, Known
      <4>4. Alive(p)'
        BY <1>1, <3>1, <3>2, <4>1 DEF PathInv, Alive
      <4> QED BY <1>3, <2>1, <3>3, <3>6, <4>2, <4>3, <4>4 DEF PathInv
    <3> QED BY <3>5, <3>6
  <2> QED BY <2>2, <2>3 DEF HotInv
<1>4. CASE q \notin plugged /\ UNCHANGED <<files, handlers, seen, made, main>>
  <2>1. HotTypes'
    BY <1>1, <1>2, <1>4 DEF HotTypes
  <2>2. ASSUME NEW p \in Clean' PROVE PathInv(p)'
    <3>1. PathInv(p) /\ Pending(p) = {} /\ Follows(devices, p)
      BY <1>1, <2>2 DEF HotInv, Clean, PathInv
    <3>2. Pending(p)' = {} /\ ~Adds(p)' /\ Trail(p)'
      BY <1>1, <3>1 DEF Pending, Adds, Trail
    <3>3. H!Polled(p)' = H!Polled(p) /\ Known(devices, p)' = Known(devices, p)
      BY <1>1, <1>4 DEF H!Polled, Known
    <3>4. (In(devices, p)' <=> In(devices, p)) /\ (Out(devices, p)' <=> Out(devices, p))
      BY <1>1, <3>3 DEF In, Out
    <3>5. Follows(devices, p)' /\ Alive(p)'
      BY <1>1, <1>4, <3>1, <3>2, <3>3, <3>4 DEF Follows, PathInv, Alive
    <3> QED BY <1>1, <1>4, <3>2, <3>5 DEF PathInv
  <2> QED BY <2>1, <2>2 DEF HotInv
<1> QED BY <1>3, <1>4 DEF H!Probe

\* It is pushed, to the vector as it is or as main read it.
LEMMA MainPushes ==
  ASSUME HotInv, H!Push
  PROVE  HotInv'
<1>1. /\ main = "push" /\ main' = "probe"
      /\ UNCHANGED <<plugged, uevents, sock, files, handlers, todo, crossed, lost>>
      /\ seen' = <<>> /\ HotTypes
  BY DEF H!Push, H!hw, H!nl, H!hist, HotInv
<1>2. PICK d \in {devices, seen} : devices' = Append(d, made)
  BY DEF H!Push
<1> DEFINE n == Len(d)
<1>3. d \in Seq(1 .. Len(files)) /\ made \in 1 .. Len(files) /\ n \in Nat /\ DOMAIN d = 1 .. n
  BY <1>1, LenProperties DEF HotTypes
<1>4. /\ devices' \in Seq(1 .. Len(files)) /\ Len(devices') = n + 1
      /\ \A i \in 1 .. n : devices'[i] = d[i]
      /\ devices'[n + 1] = made
  BY <1>2, <1>3, AppendProperties
<1>5. DOMAIN devices' = 1 .. n + 1 /\ 1 .. n + 1 = 1 .. n \cup {n + 1}
  BY <1>3, <1>4, LenProperties
<1> HIDE DEF n
<1>6. HotTypes'
  BY <1>1, <1>4, EmptySeq DEF HotTypes
<1>7. ASSUME NEW p \in Clean' PROVE PathInv(p)'
  <2>1. PathInv(p) /\ Pending(p) = {}
    BY <1>1, <1>7 DEF HotInv, Clean, PathInv
  <2>2. Pending(p)' = {} /\ ~Adds(p)' /\ Trail(p)' /\ H!Polled(p)' = H!Polled(p)
    BY <1>1, <2>1 DEF Pending, Adds, Trail, H!Polled
  <2>3. Alive(p)'
    BY <1>1, <2>1, <2>2 DEF PathInv, Alive
  <2>4. Known(devices, p)' = Known(d, p) \cup (IF files[made].path = p THEN {n + 1} ELSE {})
    BY <1>1, <1>3, <1>4, <1>5 DEF Known
  <2>5. CASE files[made].path = p
    <3>1. Making(p) /\ Known(d, p) = {}
      BY <1>1, <2>1, <2>5 DEF PathInv, Making
    <3>2. Known(devices, p)' = {n + 1} /\ H!Polled(p)' = {made}
      BY <2>2, <2>4, <2>5, <3>1 DEF Making
    <3>3. In(devices, p)'
      BY <1>4, <1>5, <3>2 DEF In
    <3> QED BY <1>1, <2>2, <2>3, <3>1, <3>3 DEF PathInv, Follows, Making
  <2>6. CASE files[made].path # p
    <3>1. Follows(devices, p) /\ Follows(seen, p)
      BY <1>1, <2>1, <2>6 DEF PathInv
    <3>2. Follows(d, p)
      BY <3>1
    <3>3. Known(devices, p)' = Known(d, p)
      BY <2>4, <2>6
    <3>4. \A i \in Known(d, p) : i \in DOMAIN devices' /\ devices'[i] = d[i]
      BY <1>3, <1>4, <1>5 DEF Known
    <3>5. (In(d, p) => In(devices, p)') /\ (Out(d, p) => Out(devices, p)')
      BY <2>2, <3>3, <3>4 DEF In, Out
    <3>6. Follows(devices, p)'
      BY <1>1, <2>1, <2>2, <3>2, <3>5 DEF Follows
    <3> QED BY <1>1, <2>2, <2>3, <3>6 DEF PathInv
  <2> QED BY <2>5, <2>6
<1> QED BY <1>6, <1>7 DEF HotInv

LEMMA MainIsOn ==
  ASSUME HotInv, H!Probed
  PROVE  HotInv'
<1>1. /\ main = "probe" /\ todo = {} /\ main' = "on"
      /\ UNCHANGED <<plugged, uevents, sock, files, handlers, devices, todo, seen, made, crossed, lost>>
  BY DEF H!Probed, H!hw, H!nl, H!ev, H!hist
<1>2. HotTypes'
  BY <1>1 DEF HotInv, HotTypes
<1>3. ASSUME NEW p \in Clean' PROVE PathInv(p)'
  <2>1. PathInv(p)
    BY <1>1, <1>3 DEF HotInv, Clean
  <2>2. Pending(p)' = Pending(p) /\ (Adds(p)' <=> Adds(p)) /\ Trail(p)'
    BY <1>1, <2>1 DEF PathInv, Pending, Adds, H!First, Trail, Ends, Differ
  <2>3. H!Polled(p)' = H!Polled(p) /\ (In(devices, p)' <=> In(devices, p)) /\ (Out(devices, p)' <=> Out(devices, p))
    BY <1>1 DEF H!Polled, In, Out, Known
  <2>4. Follows(devices, p)' /\ Alive(p)'
    BY <1>1, <2>1, <2>2, <2>3 DEF PathInv, Follows, Alive
  <2> QED BY <1>1, <2>2, <2>4 DEF PathInv
<1> QED BY <1>2, <1>3 DEF HotInv

-----------------------------------------------------------------------------
\* Every step of the loop, of main and of the hardware.

LEMMA HardwareChanges ==
  ASSUME HotInv, NEW q \in Movable, H!Plug(q) \/ H!Unplug(q)
  PROVE  HotInv'
<1>1. HotTypes /\ q \in All
  BY DEF HotInv, All
<1>2. crossed \cup lost \subseteq (crossed \cup lost)'
  BY DEF H!Plug, H!Unplug, H!Uevent
<1>3. HotTypes'
  BY <1>1, EventTypes
<1>4. ASSUME NEW p \in Clean' PROVE PathInv(p)'
  <2>1. PathInv(p) /\ p \in Paths /\ p \notin (crossed \cup lost)'
    BY <1>2, <1>4 DEF HotInv, Clean
  <2>2. CASE p = q
    <3>1. H!Plug(p) \/ H!Unplug(p)
      BY <2>2
    <3> QED BY <1>1, <2>1, <3>1, EventOfOwn
  <2>3. CASE p # q
    BY <1>1, <2>1, <2>3, EventOfOthers
  <2> QED BY <2>2, <2>3
<1> QED BY <1>3, <1>4 DEF HotInv

LEMMA LoopTakes ==
  ASSUME HotInv, NEW f \in batch, H!Take(f)
  PROVE  HotInv'
<1>1. UNCHANGED <<plugged, uevents, sock, main, todo, seen, made, crossed, lost>>
  BY DEF H!Take, H!hw, H!nl, H!boot
<1>2. HotTypes /\ (main = "listen" => handlers = {} /\ sock = "closed") /\ (sock = "closed" => uevents = <<>>)
  BY DEF HotInv, HotTypes
<1>3. CASE UNCHANGED <<files, handlers, devices>>
  BY <1>1, <1>2, <1>3, NothingChanges
<1>4. CASE H!DeviceEvent(f)
  <2>1. f \in handlers \ {0} /\ f \in DOMAIN files
    <3>1. f \in handlers \ {0}
      BY <1>4 DEF H!DeviceEvent, H!Sock
    <3> QED BY <1>2, <3>1, LenProperties DEF HotTypes
  <2>2. CASE files' = [files EXCEPT ![f].input = FALSE] /\ UNCHANGED <<handlers, devices>>
    BY <1>1, <2>1, <2>2, InputChanges
  <2>3. CASE /\ ~files[f].alive /\ handlers' = handlers \ {f} /\ UNCHANGED files
             /\ \/ {i \in DOMAIN devices : devices[i] = f} = {} /\ UNCHANGED devices
                \/ \E i \in DOMAIN devices :
                     H!First(i, {k \in DOMAIN devices : devices[k] = f}) /\ devices' = H!RemoveAt(devices, i)
    <3>1. \/ {i \in DOMAIN devices : devices[i] = f} = {} /\ UNCHANGED devices
          \/ \E i \in DOMAIN devices : devices[i] = f /\ devices' = H!RemoveAt(devices, i)
      BY <2>3 DEF H!First
    <3> QED BY <1>1, <2>1, <2>3, <3>1, DeviceGoes
  <2>4. CASE UNCHANGED H!ev
    BY <1>3, <2>4 DEF H!ev
  <2> QED BY <1>4, <2>2, <2>3, <2>4 DEF H!DeviceEvent
<1> QED BY <1>3, <1>4 DEF H!Take, H!Stale, H!ev

LEMMA LoopReads ==
  ASSUME HotInv, H!ReadUevent
  PROVE  HotInv'
<1>1. UNCHANGED <<plugged, sock, main, todo, seen, made, crossed, lost>> /\ sock = "open"
  BY DEF H!ReadUevent, H!hw, H!hist, H!boot
<1>2. CASE uevents = <<>> /\ UNCHANGED <<uevents, files, handlers, devices>>
  BY <1>1, <1>2, NothingChanges DEF HotInv, HotTypes
<1>3. CASE uevents # <<>> /\ uevents' = Tail(uevents)
           /\ Head(uevents).action = "add" /\ H!StartDevice(Head(uevents).path)
  BY <1>1, <1>3, AddIsRead
<1>4. CASE uevents # <<>> /\ uevents' = Tail(uevents)
           /\ Head(uevents).action = "remove" /\ H!StopDevice(Head(uevents).path)
  BY <1>1, <1>4, RemoveIsRead
<1> QED BY <1>2, <1>3, <1>4 DEF H!ReadUevent, H!ev

LEMMA HotStep == HotInv /\ [H!Next]_(H!vars) => HotInv'
<1> SUFFICES ASSUME HotInv, [H!Next]_(H!vars) PROVE HotInv'
  OBVIOUS
<1>0. (main = "listen" => handlers = {} /\ sock = "closed") /\ (sock = "closed" => uevents = <<>>)
  BY DEF HotInv, HotTypes
<1>1. CASE \E q \in Movable : H!Plug(q) \/ H!Unplug(q)
  BY <1>1, HardwareChanges
<1>2. ASSUME NEW f \in DOMAIN files, H!Touch(f) PROVE HotInv'
  <2>1. /\ files' = [files EXCEPT ![f].input = TRUE]
        /\ UNCHANGED <<plugged, uevents, handlers, devices, main, todo, seen, made, sock, crossed, lost>>
    BY <1>2 DEF H!Touch, H!hw, H!nl, H!boot, H!hist
  <2> QED BY <2>1, InputChanges
<1>3. CASE H!Wait \/ UNCHANGED H!vars
  <2>1. UNCHANGED <<plugged, uevents, files, handlers, devices, main, todo, seen, made, sock, crossed, lost>>
    BY <1>3 DEF H!Wait, H!vars, H!hw, H!nl, H!ev, H!boot, H!hist
  <2> QED BY <1>0, <2>1, NothingChanges
<1>4. CASE \E f \in batch : H!Take(f)
  BY <1>4, LoopTakes
<1>5. CASE H!ReadUevent
  BY <1>5, LoopReads
<1>6. CASE H!CloseSocket
  BY <1>6, SocketCloses
<1>7. CASE H!DropSocket
  <2>1. /\ UNCHANGED <<plugged, uevents, files, devices, main, todo, seen, made, sock, crossed, lost>>
        /\ handlers' \in {handlers, handlers \ {0}}
    BY <1>7 DEF H!DropSocket, H!hw, H!nl, H!boot, H!hist, H!Sock
  <2> QED BY <1>0, <2>1, NothingChanges
<1>8. CASE H!Main
  BY <1>8, MainListens, MainProbes, MainPushes, MainIsOn DEF H!Main
<1>9. CASE H!PageListens
  <2>1. /\ UNCHANGED <<plugged, uevents, files, devices, main, todo, seen, made, crossed, lost>>
        /\ main = "on" /\ sock' = "open" /\ handlers' = handlers \cup {0}
    BY <1>9 DEF H!PageListens, H!Open, H!hw, H!boot, H!hist, H!Sock
  <2> QED BY <2>1, NothingChanges
<1> QED BY <1>1, <1>2, <1>3, <1>4, <1>5, <1>6, <1>7, <1>8, <1>9 DEF H!Next, H!Loop

LEMMA HotStart == H!Init => HotInv
<1> SUFFICES ASSUME H!Init PROVE HotInv
  OBVIOUS
<1>1. HotTypes
  BY EmptySeq, LenProperties DEF H!Init, HotTypes, All
<1>2. ASSUME NEW p \in Clean PROVE PathInv(p)
  <2>1. Pending(p) = {} /\ H!Polled(p) = {} /\ Known(devices, p) = {} /\ p \in todo /\ main = "listen"
    BY <1>2 DEF H!Init, Pending, H!Polled, Known, Clean
  <2> QED BY <2>1 DEF PathInv, Alive, Trail, Follows, Out, Adds
<1> QED BY <1>1, <1>2 DEF HotInv

LEMMA HotIsEnough == HotInv => PresentIsPolled
<1> SUFFICES ASSUME HotInv, H!AtRest, NEW p \in Clean
             PROVE  /\ p \in plugged => \E i \in DOMAIN devices :
                         H!Held(p) = {i} /\ H!Polled(p) = {devices[i]} /\ files[devices[i]].alive
                    /\ p \notin plugged => H!Held(p) = {} /\ H!Polled(p) = {}
  BY DEF PresentIsPolled, H!PresentIsPolled, Clean
<1>1. PathInv(p) /\ main = "on" /\ p \notin todo /\ Pending(p) = {} /\ H!Held(p) = Known(devices, p)
  BY DEF HotInv, HotTypes, H!AtRest, Pending, H!Held, Known
<1>2. Follows(devices, p) /\ Alive(p)
  BY <1>1 DEF PathInv
<1>3. CASE p \in plugged
  BY <1>1, <1>2, <1>3 DEF Follows, Alive, In
<1>4. CASE p \notin plugged
  BY <1>1, <1>2, <1>4 DEF Follows, Out
<1> QED BY <1>3, <1>4

\* With nothing left to do the loop polls each device that is there once, with
\* the context knowing it, and none that is gone: for any number of nodes and
\* uevents, whatever the order in which main, the loop and the hardware move
\* (event-loop.cpp, evdev/context.cpp, evdev/device.cpp).
THEOREM PresentStaysPolled == Spec => []PresentIsPolled
<1>1. Init => HotInv
  BY HotStart DEF Init
<1>2. HotInv /\ [Next]_vars => HotInv'
  BY HotStep, StepOfHalf
<1> QED BY <1>1, <1>2, HotIsEnough, PTL DEF Spec

-----------------------------------------------------------------------------
(* The wheel.  SumOf is a recursive function; that there is one, and what  *)
(* it gives for a longer and a shorter sequence, follows by induction on a *)
(* set of numbers.                                                         *)

LEMMA SetInduction ==
  ASSUME NEW S \in SUBSET Nat, 0 \in S, \A n \in S : n + 1 \in S
  PROVE  Nat \subseteq S
<1> DEFINE R == OpToRel(<, Nat)
<1>1. IsWellFoundedOn(R, Nat)
  BY NatLessThanWellFounded
<1>2. \A x, y \in Nat : y < x => <<y, x>> \in R
  BY DEF OpToRel
<1> HIDE DEF R
<1> SUFFICES ASSUME Nat \ S # {} PROVE FALSE
  OBVIOUS
<1>3. PICK x \in Nat \ S : \A y \in Nat \ S : ~(<<y, x>> \in R)
  BY <1>1, WFMin
<1>4. x - 1 \in Nat /\ x - 1 < x /\ (x - 1) + 1 = x
  BY <1>3
<1>5. x - 1 \in S
  BY <1>2, <1>3, <1>4
<1> QED BY <1>3, <1>4, <1>5

Sums(f, s) == f \in [0 .. Len(s) -> Int] /\ f[0] = 0 /\ \A n \in 1 .. Len(s) : f[n] = f[n - 1] + s[n]

LEMMA SumsExist ==
  ASSUME NEW s \in Seq(Int)
  PROVE  \E f : Sums(f, s)
<1> DEFINE F(m, f) == f \in [0 .. m -> Int] /\ f[0] = 0 /\ \A n \in 1 .. m : f[n] = f[n - 1] + s[n]
           S == {m \in Nat : m <= Len(s) => \E f : F(m, f)}
<1>0. Len(s) \in Nat /\ \A n \in 1 .. Len(s) : s[n] \in Int
  BY LenProperties, ElementOfSeq
<1>1. 0 \in S
  <2> DEFINE f == [n \in 0 .. 0 |-> 0]
  <2>1. F(0, f)
    OBVIOUS
  <2> QED BY <2>1
<1>2. ASSUME NEW m \in S PROVE m + 1 \in S
  <2> SUFFICES ASSUME m + 1 <= Len(s) PROVE \E f : F(m + 1, f)
    <3> HIDE DEF F
    <3> QED OBVIOUS
  <2>0. m \in Nat /\ \E f : F(m, f)
    <3> HIDE DEF F
    <3>1. m \in Nat /\ (m <= Len(s) => \E f : F(m, f))
      OBVIOUS
    <3> QED BY <1>0, <3>1
  <2>1. PICK f : F(m, f)
    BY <2>0
  <2> DEFINE g == [n \in 0 .. m + 1 |-> IF n = m + 1 THEN f[m] + s[m + 1] ELSE f[n]]
  <2>2. m \in Nat /\ m + 1 \in 1 .. Len(s) /\ s[m + 1] \in Int /\ f[m] \in Int
    BY <1>0, <2>0, <2>1
  <2>3. \A n \in 0 .. m : g[n] = f[n] /\ f[n] \in Int
    BY <2>1, <2>2
  <2>4. g[m + 1] = f[m] + s[m + 1] /\ g[m] = f[m]
    BY <2>2
  <2>5. g \in [0 .. m + 1 -> Int]
    BY <2>1, <2>2
  <2>6. g[0] = 0
    BY <2>1, <2>2
  <2> HIDE DEF g
  <2>7. ASSUME NEW n \in 1 .. m + 1 PROVE g[n] = g[n - 1] + s[n]
    <3>1. CASE n = m + 1
      BY <2>2, <2>4, <3>1
    <3>2. CASE n # m + 1
      <4>1. n \in 1 .. m /\ n \in 0 .. m /\ n - 1 \in 0 .. m
        BY <2>2, <3>2
      <4> QED BY <2>1, <2>3, <4>1
    <3> QED BY <3>1, <3>2
  <2> QED BY <2>5, <2>6, <2>7
<1> HIDE DEF F
<1>3. Nat \subseteq S
  <2>1. S \in SUBSET Nat
    OBVIOUS
  <2> HIDE DEF S
  <2> QED BY <1>1, <1>2, <2>1, SetInduction
<1>4. \E f : F(Len(s), f)
  BY <1>0, <1>3
<1> QED BY <1>4 DEF F, Sums

\* The function SumOf is defined by is any that sums.
LEMMA SumOfIs ==
  ASSUME NEW s \in Seq(Int), NEW f, Sums(f, s)
  PROVE  Q!SumOf(s) = f[Len(s)]
<1>0. Len(s) \in Nat /\ \A n \in 1 .. Len(s) : s[n] \in Int
  BY LenProperties, ElementOfSeq
<1> DEFINE T(g) == [n \in 0 .. Len(s) |-> IF n = 0 THEN 0 ELSE g[n - 1] + s[n]]
           sum == CHOOSE g : g = T(g)
<1>1. f = T(f)
  <2>1. \A n \in 0 .. Len(s) : f[n] = IF n = 0 THEN 0 ELSE f[n - 1] + s[n]
    BY <1>0 DEF Sums
  <2> QED BY <2>1 DEF Sums
<1>2. sum = T(sum)
  <2> HIDE DEF T
  <2> QED BY <1>1
<1>3. Q!SumOf(s) = sum[Len(s)]
  BY DEF Q!SumOf
<1> HIDE DEF sum
<1> DEFINE S == {m \in Nat : m <= Len(s) => sum[m] = f[m]}
<1>4. \A n \in 0 .. Len(s) : sum[n] = IF n = 0 THEN 0 ELSE sum[n - 1] + s[n]
  BY <1>2
<1>5. 0 \in S
  BY <1>0, <1>4 DEF Sums
<1>6. ASSUME NEW m \in S PROVE m + 1 \in S
  <2> SUFFICES ASSUME m + 1 <= Len(s) PROVE sum[m + 1] = f[m + 1]
    OBVIOUS
  <2>1. m + 1 \in 1 .. Len(s) /\ m + 1 \in 0 .. Len(s) /\ (m + 1) - 1 = m /\ m <= Len(s) /\ m + 1 # 0
    BY <1>0
  <2>2. f[m + 1] = f[m] + s[m + 1]
    BY <2>1 DEF Sums
  <2>3. sum[m + 1] = sum[m] + s[m + 1]
    BY <1>4, <2>1
  <2> QED BY <2>1, <2>2, <2>3
<1>7. Nat \subseteq S
  <2>1. S \in SUBSET Nat
    OBVIOUS
  <2> HIDE DEF S
  <2> QED BY <1>5, <1>6, <2>1, SetInduction
<1> QED BY <1>0, <1>3, <1>7

LEMMA SumOfNone == Q!SumOf(<<>>) = 0
<1>1. <<>> \in Seq(Int) /\ Len(<<>>) = 0
  BY EmptySeq
<1>2. PICK f : Sums(f, <<>>)
  BY <1>1, SumsExist
<1> QED BY <1>1, <1>2, SumOfIs DEF Sums

LEMMA SumOfAppend ==
  ASSUME NEW s \in Seq(Int), NEW x \in Int
  PROVE  Q!SumOf(s) \in Int /\ Q!SumOf(Append(s, x)) = Q!SumOf(s) + x
<1> DEFINE l == Len(s)
           t == Append(s, x)
<1>1. l \in Nat
  BY LenProperties
<1>2. t \in Seq(Int) /\ Len(t) = l + 1 /\ (\A n \in 1 .. l : t[n] = s[n]) /\ t[l + 1] = x
  BY <1>1, AppendProperties
<1>3. PICK f : Sums(f, s)
  BY SumsExist
<1> DEFINE g == [n \in 0 .. l + 1 |-> IF n = l + 1 THEN f[l] + x ELSE f[n]]
<1> HIDE DEF t, l
<1>4. f \in [0 .. l -> Int] /\ f[0] = 0 /\ \A n \in 1 .. l : f[n] = f[n - 1] + s[n]
  BY <1>3 DEF Sums, l
<1>5. f[l] \in Int /\ g \in [0 .. l + 1 -> Int] /\ g[0] = 0
  BY <1>1, <1>4
<1>6. g[l + 1] = f[l] + x /\ \A n \in 0 .. l : g[n] = f[n]
  BY <1>1
<1> HIDE DEF g
<1>7. ASSUME NEW n \in 1 .. l + 1 PROVE g[n] = g[n - 1] + t[n]
  <2>1. CASE n = l + 1
    <3>1. n - 1 = l /\ l \in 0 .. l
      BY <1>1, <2>1
    <3> QED BY <1>2, <1>6, <2>1, <3>1
  <2>2. CASE n # l + 1
    <3>1. n \in 1 .. l /\ n \in 0 .. l /\ n - 1 \in 0 .. l
      BY <1>1, <2>2
    <3> QED BY <1>2, <1>4, <1>6, <3>1
  <2> QED BY <2>1, <2>2
<1>8. Sums(g, t)
  BY <1>2, <1>5, <1>7 DEF Sums
<1>9. Q!SumOf(t) = g[l + 1]
  BY <1>2, <1>8, SumOfIs
<1>10. Q!SumOf(s) = f[l]
  BY <1>3, SumOfIs DEF l
<1> QED BY <1>5, <1>6, <1>9, <1>10 DEF t

LEMMA SumOfTail ==
  ASSUME NEW s \in Seq(Int), s # <<>>
  PROVE  Head(s) \in Int /\ Q!SumOf(s) = Head(s) + Q!SumOf(Tail(s)) /\ Q!SumOf(Tail(s)) \in Int
<1> DEFINE l == Len(s)
           t == Tail(s)
<1>1. l \in Nat /\ l >= 1 /\ Head(s) = s[1] /\ \A n \in 1 .. l : s[n] \in Int
  BY LenProperties, EmptySeq, ElementOfSeq
<1>2. t \in Seq(Int) /\ Len(t) = l - 1 /\ (\A n \in 1 .. l - 1 : t[n] = s[n + 1])
  BY <1>1, HeadTailProperties
<1>3. PICK f : Sums(f, s)
  BY SumsExist
<1> DEFINE g == [n \in 0 .. l - 1 |-> f[n + 1] - s[1]]
<1> HIDE DEF t, l
<1>4. f \in [0 .. l -> Int] /\ f[0] = 0 /\ \A n \in 1 .. l : f[n] = f[n - 1] + s[n]
  BY <1>3 DEF Sums, l
<1>5. s[1] \in Int /\ \A n \in 0 .. l - 1 : n + 1 \in 0 .. l /\ f[n + 1] \in Int
  BY <1>1, <1>4
<1>6. g \in [0 .. l - 1 -> Int] /\ \A n \in 0 .. l - 1 : g[n] = f[n + 1] - s[1]
  BY <1>5
<1>7. g[0] = 0
  <2>1. 0 \in 0 .. l - 1 /\ 1 \in 1 .. l /\ 0 + 1 = 1 /\ 1 - 1 = 0
    BY <1>1
  <2>2. f[1] = f[0] + s[1]
    BY <1>4, <2>1
  <2> QED BY <1>4, <1>5, <1>6, <2>1, <2>2
<1>8. g[l - 1] = f[l] - s[1]
  BY <1>1, <1>6
<1> HIDE DEF g
<1>9. ASSUME NEW n \in 1 .. l - 1 PROVE g[n] = g[n - 1] + t[n]
  <2>1. n \in 0 .. l - 1 /\ n - 1 \in 0 .. l - 1 /\ n + 1 \in 1 .. l /\ (n - 1) + 1 = n /\ (n + 1) - 1 = n
    BY <1>1
  <2>2. g[n] = f[n + 1] - s[1] /\ g[n - 1] = f[n] - s[1] /\ t[n] = s[n + 1]
    BY <1>2, <1>6, <2>1
  <2>3. f[n + 1] = f[n] + s[n + 1] /\ f[n] \in Int /\ s[n + 1] \in Int
    BY <1>1, <1>4, <2>1
  <2> QED BY <1>5, <2>2, <2>3
<1>10. Sums(g, t)
  BY <1>2, <1>6, <1>7, <1>9 DEF Sums
<1>11. Q!SumOf(t) = g[l - 1]
  BY <1>2, <1>10, SumOfIs
<1>12. Q!SumOf(s) = f[l] /\ f[l] \in Int
  BY <1>1, <1>3, <1>4, SumOfIs DEF l
<1> QED BY <1>1, <1>5, <1>8, <1>11, <1>12 DEF t

(* The queues.  A read is asked for by one hand at a time: the loop, the   *)
(* list LVGL is to run, or the read that runs.                             *)

Places == [x : 0 .. Width - 1, press : BOOLEAN]

QueueTypes ==
  /\ val \in Places
  /\ DOMAIN queue = Q!Indevs /\ queue.encoder \in Seq(Int) /\ queue.pointer \in Seq(Places)
  /\ DOMAIN last = Q!Indevs /\ last.encoder \in Int /\ last.pointer \in Places
  /\ reading \in [Q!Indevs -> BOOLEAN] /\ async \in Seq(Q!Indevs)
  /\ turn \in Q!Indevs /\ cur \in Q!Indevs
  /\ sent \in Int /\ shown \in Int /\ dropped \in Int

\* The newest report of the pointer, read or not.
LastOf(q, l) == IF q = <<>> THEN l ELSE q[Len(q)]
PointerInv == ~muted => LastOf(queue.pointer, last.pointer) = val

Calls == loop = "call" /\ turn = "encoder"
Reads == ui \in {"read", "look", "reset"} /\ cur = "encoder"
Waits == \E k \in DOMAIN async : async[k] = "encoder"

WheelInv ==
  /\ ~reading.encoder => ~Calls /\ ~Reads /\ ~Waits
  /\ Calls => ~Reads /\ ~Waits
  /\ Reads => ~Waits
  /\ \A k, l \in DOMAIN async : async[k] = "encoder" /\ async[l] = "encoder" => k = l
  /\ ~late /\ (Calls \/ Waits \/ (Reads /\ ui = "read")) => queue.encoder # <<>>

QueueInv == QueueTypes /\ PointerInv /\ WheelInv /\ Q!WheelIsCounted

\* What an event leaves of the pointer and of the wheel: nothing new, a report of
\* the pointer that says where it is now, or a movement of the wheel.
NothingNew ==
  UNCHANGED <<val, muted, sent>> /\ queue'.pointer = queue.pointer /\ queue'.encoder = queue.encoder
PointerNew ==
  /\ queue'.encoder = queue.encoder /\ UNCHANGED sent
  /\ \/ muted' /\ queue'.pointer = queue.pointer
     \/ \E r \in Seq(Places) : r # <<>> /\ r[Len(r)] = val' /\ queue'.pointer = queue.pointer \o r
WheelNew ==
  /\ UNCHANGED <<val, muted>> /\ queue'.pointer = queue.pointer
  /\ \/ UNCHANGED sent /\ queue'.encoder = queue.encoder
     \/ \E m \in Int : queue'.encoder = Append(queue.encoder, m) /\ sent' = sent + m
Kinds ==
  /\ val' \in Places /\ DOMAIN queue' = Q!Indevs /\ UNCHANGED <<shown, dropped>>
  /\ NothingNew \/ PointerNew \/ WheelNew

LEMMA PointerAdded ==
  ASSUME QueueTypes, val' \in Places, NEW r \in Seq(Places), r # <<>>, r[Len(r)] = val', Q!AddPointer(r)
  PROVE  Kinds
<1>1. DOMAIN queue = Q!Indevs /\ "pointer" \in Q!Indevs /\ "encoder" \in Q!Indevs
  BY DEF QueueTypes, Q!Indevs
<1>2. UNCHANGED <<sent, shown, dropped>> /\ muted' = paused
  BY DEF Q!AddPointer, Q!wheel
<1>3. CASE paused
  BY <1>1, <1>2, <1>3 DEF Kinds, PointerNew, Q!AddPointer
<1>4. CASE ~paused
  <2>1. queue' = [queue EXCEPT !.pointer = @ \o r]
    BY <1>4 DEF Q!AddPointer
  <2>2. /\ DOMAIN queue' = Q!Indevs /\ queue'.encoder = queue.encoder
        /\ queue'.pointer = queue.pointer \o r
    BY <1>1, <2>1
  <2> QED BY <1>2, <2>2 DEF Kinds, PointerNew
<1> QED BY <1>3, <1>4

LEMMA OneReport == \A v \in Places : <<v>> \in Seq(Places) /\ <<v>> # <<>> /\ Len(<<v>>) = 1 /\ <<v>>[1] = v
  OBVIOUS

LEMMA TwoReports ==
  \A u, v \in Places : <<u, v>> \in Seq(Places) /\ <<u, v>> # <<>> /\ Len(<<u, v>>) = 2 /\ <<u, v>>[2] = v
  OBVIOUS

LEMMA WheelAdded ==
  ASSUME QueueTypes, UNCHANGED val, NEW m \in Int, Q!AddMovement(m)
  PROVE  Kinds
<1>1. DOMAIN queue = Q!Indevs /\ "pointer" \in Q!Indevs /\ "encoder" \in Q!Indevs /\ val' \in Places
  BY DEF QueueTypes, Q!Indevs
<1>2. UNCHANGED <<shown, dropped, muted>>
  BY DEF Q!AddMovement
<1>3. CASE paused
  BY <1>1, <1>2, <1>3 DEF Kinds, WheelNew, Q!AddMovement
<1>4. CASE ~paused
  <2>1. queue' = [queue EXCEPT !.encoder = Append(@, m)] /\ sent' = sent + m
    BY <1>4 DEF Q!AddMovement
  <2>2. DOMAIN queue' = Q!Indevs /\ queue'.pointer = queue.pointer /\ queue'.encoder = Append(queue.encoder, m)
    BY <1>1, <2>1
  <2> QED BY <1>1, <1>2, <2>1, <2>2 DEF Kinds, WheelNew
<1> QED BY <1>3, <1>4

LEMMA KeyAdded ==
  ASSUME QueueTypes, UNCHANGED val, NEW k, Q!AddKey(k)
  PROVE  Kinds
<1>1. DOMAIN queue = Q!Indevs /\ "pointer" \in Q!Indevs /\ "encoder" \in Q!Indevs /\ val' \in Places
  BY DEF QueueTypes, Q!Indevs
<1>2. UNCHANGED <<sent, shown, dropped, muted>>
  BY DEF Q!AddKey, Q!wheel
<1>3. DOMAIN queue' = Q!Indevs /\ queue'.pointer = queue.pointer /\ queue'.encoder = queue.encoder
  BY <1>1 DEF Q!AddKey
<1> QED BY <1>1, <1>2, <1>3 DEF Kinds, NothingNew

LEMMA Moved == ASSUME QueueTypes, NEW d \in {-1, 0, 1} PROVE [val EXCEPT !.x = Q!ClampX(@ + d)] \in Places
<1>1. Width \in Nat \ {0} /\ val.x \in 0 .. Width - 1 /\ val \in Places
  BY InputAssumption DEF QueueTypes, Places
<1>2. Q!ClampX(val.x + d) \in 0 .. Width - 1
  BY <1>1 DEF Q!ClampX
<1> QED BY <1>1, <1>2 DEF Places

LEMMA EventKinds == ASSUME QueueTypes, NEW kind, Q!Handle(kind) PROVE Kinds
<1>0. val \in Places
  BY DEF QueueTypes
<1>1. CASE Q!Led \/ Q!Modifier
  <2>1. UNCHANGED <<val, queue, sent, shown, dropped, muted>>
    BY <1>1 DEF Q!Led, Q!Modifier, Q!AddNothing, Q!wheel
  <2> QED BY <1>0, <2>1 DEF QueueTypes, Kinds, NothingNew
<1>2. CASE Q!RelX
  <2>1. val' \in Places /\ Q!AddPointer(<<val'>>)
    BY <1>2, Moved DEF Q!RelX
  <2> QED BY <2>1, PointerAdded, OneReport
<1>3. CASE Q!Wheel
  <2>1. UNCHANGED val /\ \E m \in {-1, 1} : Q!AddMovement(m)
    BY <1>3 DEF Q!Wheel
  <2> QED BY <2>1, WheelAdded
<1>4. CASE Q!AbsX
  <2>1. val' \in Places /\ Q!AddPointer(<<val'>>)
    BY <1>0, <1>4 DEF Q!AbsX, Places
  <2> QED BY <2>1, PointerAdded, OneReport
<1>5. CASE Q!FingerX
  <2>1. CASE UNCHANGED <<val, queue, sent, shown, dropped, muted>>
    BY <1>0, <2>1 DEF QueueTypes, Kinds, NothingNew
  <2>2. CASE /\ \E d \in {-1, 0, 1} : val' = [val EXCEPT !.x = Q!ClampX(@ + d)]
             /\ Q!AddPointer(<<val'>>)
    <3>1. val' \in Places
      BY <2>2, Moved
    <3> QED BY <2>2, <3>1, PointerAdded, OneReport
  <2> QED BY <1>5, <2>1, <2>2 DEF Q!FingerX, Q!AddNothing, Q!wheel
<1>6. CASE Q!TwoFingers
  <2>1. UNCHANGED val /\ \E m \in {-1, 1} : Q!AddMovement(m)
    BY <1>6 DEF Q!TwoFingers
  <2> QED BY <2>1, WheelAdded
<1>7. CASE Q!Button
  <2>1. val' \in Places /\ Q!AddPointer(<<val'>>)
    BY <1>0, <1>7 DEF Q!Button, Places
  <2> QED BY <2>1, PointerAdded, OneReport
<1>8. CASE Q!TapEnds
  <2>1. CASE UNCHANGED <<val, queue, sent, shown, dropped, muted>>
    BY <1>0, <2>1 DEF QueueTypes, Kinds, NothingNew
  <2>2. CASE val' = [val EXCEPT !.press = FALSE] /\ Q!AddPointer(<<[val EXCEPT !.press = TRUE], val'>>)
    <3>1. val' \in Places /\ [val EXCEPT !.press = TRUE] \in Places
      BY <1>0, <2>2 DEF Places
    <3> QED BY <2>2, <3>1, PointerAdded, TwoReports
  <2> QED BY <1>8, <2>1, <2>2 DEF Q!TapEnds, Q!AddNothing, Q!wheel
<1>9. CASE Q!Letter
  <2>1. CASE UNCHANGED <<val, queue, sent, shown, dropped, muted>>
    BY <1>0, <2>1 DEF QueueTypes, Kinds, NothingNew
  <2>2. CASE UNCHANGED val /\ \E k : Q!AddKey(k)
    BY <2>2, KeyAdded
  <2> QED BY <1>9, <2>1, <2>2 DEF Q!Letter, Q!AddNothing, Q!wheel
<1> QED BY <1>1, <1>2, <1>3, <1>4, <1>5, <1>6, <1>7, <1>8, <1>9 DEF Q!Handle

\* What the loop and LVGL's thread do to a queue.
LEMMA ReportsJoin ==
  ASSUME NEW q \in Seq(Places), NEW r \in Seq(Places), r # <<>>
  PROVE  q \o r \in Seq(Places) /\ q \o r # <<>> /\ (q \o r)[Len(q \o r)] = r[Len(r)]
<1>1. Len(q) \in Nat /\ Len(r) \in Nat \ {0}
  BY LenProperties, EmptySeq
<1>2. /\ q \o r \in Seq(Places) /\ Len(q \o r) = Len(q) + Len(r)
      /\ \A k \in 1 .. Len(q) + Len(r) : (q \o r)[k] = IF k <= Len(q) THEN q[k] ELSE r[k - Len(q)]
  BY ConcatProperties
<1>3. q \o r # <<>>
  BY <1>1, <1>2, EmptySeq
<1>4. (q \o r)[Len(q) + Len(r)] = r[Len(q) + Len(r) - Len(q)] /\ Len(q) + Len(r) - Len(q) = Len(r)
  BY <1>1, <1>2
<1> QED BY <1>2, <1>3, <1>4

LEMMA NewestStay ==
  ASSUME NEW S, NEW s \in Seq(S), NEW t, t = Q!Newest(s, Q!Kept(s))
  PROVE  t \in Seq(S) /\ (t = <<>> <=> s = <<>>) /\ (s # <<>> => t[Len(t)] = s[Len(s)])
<1> DEFINE l == Len(s)
           k == Q!Kept(s)
<1>1. l \in Nat /\ MaxEvent \in Nat \ {0} /\ (l = 0 <=> s = <<>>)
  BY LenProperties, EmptySeq, InputAssumption
<1>2. k \in 0 .. l /\ (l # 0 => k # 0)
  BY <1>1 DEF Q!Kept
<1>3. \A i \in l - k + 1 .. l : s[i] \in S
  BY <1>1, <1>2, ElementOfSeq
<1>4. t = SubSeq(s, l - k + 1, l)
  BY DEF Q!Newest
<1> HIDE DEF l, k
<1>5. /\ t \in Seq(S) /\ Len(t) = IF l - k + 1 <= l THEN l - (l - k + 1) + 1 ELSE 0
      /\ \A i \in 1 .. l - (l - k + 1) + 1 : t[i] = s[l - k + 1 + i - 1]
  BY <1>1, <1>2, <1>3, <1>4, SubSeqProperties
<1>6. Len(t) = k /\ l - (l - k + 1) + 1 = k
  BY <1>1, <1>2, <1>5
<1>7. t = <<>> <=> k = 0
  BY <1>5, <1>6, EmptySeq, LenProperties
<1>8. ASSUME k # 0 PROVE t[k] = s[l]
  <2>1. k \in 1 .. k /\ l - k + 1 + k - 1 = l
    BY <1>1, <1>2, <1>8
  <2> QED BY <1>5, <1>6, <2>1
<1> QED BY <1>1, <1>2, <1>5, <1>6, <1>7, <1>8 DEF l

\* An event is queued.
LEMMA EventIsQueued == ASSUME QueueInv, Q!ProcessEvent PROVE QueueInv'
<1>1. /\ Kinds /\ loop = "event" /\ loop' = "trim"
      /\ UNCHANGED <<last, reading, turn, async, ui, cur, late>>
  BY EventKinds DEF Q!ProcessEvent, Q!lv, QueueInv
<1>2. QueueTypes /\ PointerInv /\ WheelInv /\ Q!WheelIsCounted
  BY DEF QueueInv
<1>3. queue'.pointer \in Seq(Places) /\ PointerInv'
  <2>1. CASE NothingNew \/ WheelNew
    BY <1>1, <1>2, <2>1 DEF NothingNew, WheelNew, QueueTypes, PointerInv, LastOf
  <2>2. CASE PointerNew
    <3>1. CASE muted' /\ queue'.pointer = queue.pointer
      BY <1>2, <3>1 DEF QueueTypes, PointerInv
    <3>2. ASSUME NEW r \in Seq(Places), r # <<>>, r[Len(r)] = val', queue'.pointer = queue.pointer \o r
          PROVE  queue'.pointer \in Seq(Places) /\ PointerInv'
      <4>1. /\ queue'.pointer \in Seq(Places) /\ queue'.pointer # <<>>
            /\ queue'.pointer[Len(queue'.pointer)] = val'
        BY <1>2, <3>2, ReportsJoin DEF QueueTypes
      <4> QED BY <4>1 DEF PointerInv, LastOf
    <3> QED BY <2>2, <3>1, <3>2 DEF PointerNew
  <2> QED BY <1>1, <2>1, <2>2 DEF Kinds
<1>4. /\ queue'.encoder \in Seq(Int) /\ sent' \in Int /\ (queue.encoder # <<>> => queue'.encoder # <<>>)
      /\ Q!SumOf(queue.encoder) \in Int
      /\ \E m \in Int : sent' = sent + m /\ Q!SumOf(queue'.encoder) = Q!SumOf(queue.encoder) + m
  <2>0. queue.encoder \in Seq(Int) /\ sent \in Int /\ Q!SumOf(queue.encoder) \in Int
    BY <1>2, SumOfAppend DEF QueueTypes
  <2>1. CASE queue'.encoder = queue.encoder /\ sent' = sent
    <3>1. sent' = sent + 0 /\ Q!SumOf(queue'.encoder) = Q!SumOf(queue.encoder) + 0
      BY <2>0, <2>1
    <3> QED BY <2>0, <2>1, <3>1
  <2>2. ASSUME NEW m \in Int, queue'.encoder = Append(queue.encoder, m), sent' = sent + m
        PROVE  /\ queue'.encoder \in Seq(Int) /\ sent' \in Int /\ queue'.encoder # <<>>
               /\ Q!SumOf(queue'.encoder) = Q!SumOf(queue.encoder) + m
    <3>1. Q!SumOf(queue'.encoder) = Q!SumOf(queue.encoder) + m
      BY <2>0, <2>2, SumOfAppend
    <3>2. queue'.encoder \in Seq(Int) /\ queue'.encoder # <<>>
      BY <2>0, <2>2, AppendProperties
    <3> QED BY <2>0, <2>2, <3>1, <3>2
  <2> QED BY <1>1, <2>0, <2>1, <2>2 DEF Kinds, NothingNew, PointerNew, WheelNew
<1>5. QueueTypes'
  BY <1>1, <1>2, <1>3, <1>4 DEF QueueTypes, Kinds
<1>6. WheelInv'
  BY <1>1, <1>2, <1>4 DEF WheelInv, Calls, Reads, Waits
<1>7. Q!WheelIsCounted'
  <2>1. UNCHANGED <<shown, dropped, late>> /\ shown \in Int /\ dropped \in Int /\ sent \in Int
    BY <1>1, <1>2 DEF QueueTypes, Kinds
  <2>2. PICK m \in Int : sent' = sent + m /\ Q!SumOf(queue'.encoder) = Q!SumOf(queue.encoder) + m
    BY <1>4
  <2>3. ASSUME ~late PROVE shown + Q!SumOf(queue'.encoder) + dropped = sent'
    <3>1. shown + Q!SumOf(queue.encoder) + dropped = sent /\ Q!SumOf(queue.encoder) \in Int
      BY <1>2, <1>4, <2>3 DEF Q!WheelIsCounted
    <3> QED BY <2>1, <2>2, <3>1
  <2> QED BY <2>1, <2>3 DEF Q!WheelIsCounted
<1> QED BY <1>3, <1>5, <1>6, <1>7 DEF QueueInv

LEMMA QueueIsTrimmed == ASSUME QueueInv, Q!Trim PROVE QueueInv'
<1>1. /\ loop' = "look" /\ loop = "trim" /\ turn' = "encoder"
      /\ queue' = [i \in Q!Indevs |-> Q!Newest(queue[i], Q!Kept(queue[i]))]
      /\ dropped' = dropped + Q!SumOf(queue.encoder) - Q!SumOf(queue'.encoder)
      /\ UNCHANGED <<val, last, reading, async, ui, cur, sent, shown, muted, late>>
  BY DEF Q!Trim, Q!dev, Q!lv
<1>2. QueueTypes /\ PointerInv /\ WheelInv /\ Q!WheelIsCounted
  BY DEF QueueInv
<1>3. /\ DOMAIN queue' = Q!Indevs /\ turn' \in Q!Indevs
      /\ queue'.encoder = Q!Newest(queue.encoder, Q!Kept(queue.encoder))
      /\ queue'.pointer = Q!Newest(queue.pointer, Q!Kept(queue.pointer))
  BY <1>1 DEF Q!Indevs
<1>4. queue'.encoder \in Seq(Int) /\ (queue'.encoder = <<>> <=> queue.encoder = <<>>)
  BY <1>2, <1>3, NewestStay DEF QueueTypes
<1>5. /\ queue'.pointer \in Seq(Places) /\ (queue'.pointer = <<>> <=> queue.pointer = <<>>)
      /\ queue.pointer # <<>> => queue'.pointer[Len(queue'.pointer)] = queue.pointer[Len(queue.pointer)]
  BY <1>2, <1>3, NewestStay DEF QueueTypes
<1>6. Q!SumOf(queue.encoder) \in Int /\ Q!SumOf(queue'.encoder) \in Int
  BY <1>2, <1>4, SumOfAppend DEF QueueTypes
<1>7. QueueTypes'
  <2>1. dropped' \in Int
    BY <1>1, <1>2, <1>6 DEF QueueTypes
  <2> QED BY <1>1, <1>2, <1>3, <1>4, <1>5, <2>1 DEF QueueTypes
<1>8. PointerInv'
  BY <1>1, <1>2, <1>5 DEF PointerInv, LastOf
<1>9. WheelInv'
  BY <1>1, <1>2, <1>4 DEF WheelInv, Calls, Reads, Waits
<1>10. Q!WheelIsCounted'
  BY <1>1, <1>2, <1>6 DEF QueueTypes, Q!WheelIsCounted
<1> QED BY <1>7, <1>8, <1>9, <1>10 DEF QueueInv

\* The loop looks at its queues and asks for reads.
LEMMA NextTurns == Q!NextTurn /\ turn \in Q!Indevs => turn' \in Q!Indevs /\ loop' \in {"look", "event"}
  BY DEF Q!NextTurn, Q!Indevs

LEMMA LoopAsks == ASSUME QueueInv, Q!LookQueue \/ Q!Ask \/ Q!Call PROVE QueueInv'
<1>1. QueueTypes /\ PointerInv /\ WheelInv /\ Q!WheelIsCounted
  BY DEF QueueInv
<1>2. UNCHANGED <<val, queue, last, ui, cur, sent, shown, dropped, muted>>
  BY DEF Q!LookQueue, Q!Ask, Q!Call, Q!dev, Q!lv, Q!wheel
<1>3. PointerInv' /\ (late' = late => Q!WheelIsCounted')
  BY <1>1, <1>2 DEF PointerInv, Q!WheelIsCounted
<1>4. CASE Q!LookQueue
  <2>1. UNCHANGED <<reading, async, late>> /\ turn' \in Q!Indevs /\ loop' # "call"
    BY <1>1, <1>4, NextTurns DEF Q!LookQueue, QueueTypes
  <2>2. QueueTypes' /\ WheelInv'
    BY <1>1, <1>2, <2>1 DEF QueueTypes, WheelInv, Calls, Reads, Waits
  <2> QED BY <1>3, <2>1, <2>2 DEF QueueInv
<1>5. CASE Q!Ask
  <2>1. UNCHANGED async /\ loop = "ask"
    BY <1>5 DEF Q!Ask
  <2>2. CASE reading[turn] /\ Q!NextTurn /\ UNCHANGED <<reading, late>>
    <3>1. turn' \in Q!Indevs /\ loop' # "call"
      BY <1>1, <2>2, NextTurns DEF QueueTypes
    <3>2. QueueTypes' /\ WheelInv'
      BY <1>1, <1>2, <2>1, <2>2, <3>1 DEF QueueTypes, WheelInv, Calls, Reads, Waits
    <3> QED BY <1>3, <2>2, <3>2 DEF QueueInv
  <2>3. CASE /\ ~reading[turn] /\ reading' = [reading EXCEPT ![turn] = TRUE] /\ UNCHANGED turn /\ loop' = "call"
             /\ late' = (late \/ (turn = "encoder" /\ queue.encoder = <<>>))
    <3>1. QueueTypes'
      BY <1>1, <1>2, <2>1, <2>3 DEF QueueTypes
    <3>2. reading'.encoder = IF turn = "encoder" THEN TRUE ELSE reading.encoder
      BY <1>1, <2>3 DEF QueueTypes, Q!Indevs
    <3>3. (late => late') /\ (~late' => ~late /\ ~(turn = "encoder" /\ queue.encoder = <<>>))
      BY <2>3
    <3>4. (Reads' <=> Reads) /\ (Waits' <=> Waits) /\ (Calls' <=> turn = "encoder") /\ ~Calls
      BY <1>2, <2>1, <2>3 DEF Reads, Waits, Calls
    <3>5. WheelInv'
      <4>1. CASE turn = "encoder"
        <5>1. ~reading.encoder
          BY <2>3, <4>1
        <5> QED BY <1>1, <1>2, <2>1, <3>2, <3>3, <3>4, <4>1, <5>1 DEF WheelInv
      <4>2. CASE turn # "encoder"
        BY <1>1, <1>2, <2>1, <3>2, <3>3, <3>4, <4>2 DEF WheelInv
      <4> QED BY <4>1, <4>2
    <3>6. Q!WheelIsCounted'
      BY <1>1, <1>2, <3>3 DEF Q!WheelIsCounted
    <3> QED BY <1>3, <3>1, <3>5, <3>6 DEF QueueInv
  <2> QED BY <1>5, <2>2, <2>3 DEF Q!Ask
<1>6. CASE Q!Call
  <2>1. UNCHANGED <<reading, late>> /\ turn' \in Q!Indevs /\ loop' # "call" /\ loop = "call" /\ async' = Append(async, turn)
    BY <1>1, <1>6, NextTurns DEF Q!Call, QueueTypes
  <2> DEFINE n == Len(async)
  <2>2. async \in Seq(Q!Indevs) /\ turn \in Q!Indevs /\ n \in Nat /\ DOMAIN async = 1 .. n
    BY <1>1, LenProperties DEF QueueTypes
  <2>3. /\ async' \in Seq(Q!Indevs) /\ Len(async') = n + 1
        /\ (\A k \in 1 .. n : async'[k] = async[k]) /\ async'[n + 1] = turn
    BY <2>1, <2>2, AppendProperties
  <2>4. DOMAIN async' = 1 .. n \cup {n + 1}
    BY <2>2, <2>3, LenProperties
  <2> HIDE DEF n
  <2>5. Waits' <=> Waits \/ turn = "encoder"
    BY <2>2, <2>3, <2>4 DEF Waits
  <2>6. ASSUME NEW k \in DOMAIN async', NEW l \in DOMAIN async', async'[k] = "encoder", async'[l] = "encoder"
        PROVE  k = l
    <3>1. CASE turn = "encoder"
      <4>1. ~Waits
        BY <1>1, <2>1, <3>1 DEF WheelInv, Calls
      <4> QED BY <2>2, <2>3, <2>4, <2>6, <4>1 DEF Waits
    <3>2. CASE turn # "encoder"
      <4>1. k \in 1 .. n /\ l \in 1 .. n
        BY <2>3, <2>4, <2>6, <3>2
      <4> QED BY <1>1, <2>2, <2>3, <2>6, <4>1 DEF WheelInv
    <3> QED BY <3>1, <3>2
  <2>7. ~Calls' /\ (Reads' <=> Reads) /\ (Calls <=> turn = "encoder")
    BY <1>2, <2>1 DEF Calls, Reads
  <2>8. WheelInv'
    BY <1>1, <1>2, <2>1, <2>5, <2>6, <2>7 DEF WheelInv
  <2>9. QueueTypes'
    BY <1>1, <1>2, <2>1, <2>3 DEF QueueTypes
  <2> QED BY <1>3, <2>1, <2>8, <2>9 DEF QueueInv
<1> QED BY <1>4, <1>5, <1>6

\* LVGL's thread takes the next read.
LEMMA ReadBegins == ASSUME QueueInv, Q!Begin PROVE QueueInv'
<1>1. QueueTypes /\ PointerInv /\ WheelInv /\ Q!WheelIsCounted
  BY DEF QueueInv
<1>2. /\ UNCHANGED <<val, queue, last, reading, loop, turn, sent, shown, dropped, muted, late>>
      /\ ui = "in" /\ async # <<>> /\ cur' = Head(async) /\ async' = Tail(async) /\ ui' = "read"
  BY DEF Q!Begin, Q!dev, Q!lp, Q!wheel
<1> DEFINE n == Len(async)
<1>3. async \in Seq(Q!Indevs) /\ n \in Nat \ {0} /\ DOMAIN async = 1 .. n /\ Head(async) = async[1]
  BY <1>1, <1>2, LenProperties, EmptySeq DEF QueueTypes
<1>4. /\ async' \in Seq(Q!Indevs) /\ Head(async) \in Q!Indevs /\ Len(async') = n - 1
      /\ \A k \in 1 .. n - 1 : async'[k] = async[k + 1]
  BY <1>2, <1>3, HeadTailProperties
<1>5. DOMAIN async' = 1 .. n - 1
  BY <1>4, LenProperties
<1> HIDE DEF n
<1>6. \A k \in DOMAIN async' : k + 1 \in DOMAIN async /\ async'[k] = async[k + 1] /\ k + 1 # 1 /\ k \in Int
  BY <1>3, <1>4, <1>5
<1>7. (Waits' => Waits) /\ (cur' = "encoder" => Waits /\ ~Waits') /\ 1 \in DOMAIN async
  <2>1. 1 \in DOMAIN async
    BY <1>3
  <2> QED BY <1>1, <1>2, <1>3, <1>6, <2>1 DEF Waits, WheelInv
<1>8. \A k, l \in DOMAIN async' : async'[k] = "encoder" /\ async'[l] = "encoder" => k = l
  <2> SUFFICES ASSUME NEW k \in DOMAIN async', NEW l \in DOMAIN async', async'[k] = "encoder", async'[l] = "encoder"
               PROVE  k = l
    OBVIOUS
  <2>1. k + 1 = l + 1
    BY <1>1, <1>6 DEF WheelInv
  <2> QED BY <1>6, <2>1
<1>9. (Reads' <=> cur' = "encoder") /\ ~Reads /\ (Calls' <=> Calls) /\ ui' = "read"
  BY <1>2 DEF Reads, Calls
<1>10. WheelInv'
  BY <1>1, <1>2, <1>7, <1>8, <1>9 DEF WheelInv
<1>11. QueueTypes' /\ PointerInv' /\ Q!WheelIsCounted'
  BY <1>1, <1>2, <1>4 DEF QueueTypes, PointerInv, Q!WheelIsCounted
<1> QED BY <1>10, <1>11 DEF QueueInv

\* A report is read.
LEMMA ReportIsRead == ASSUME QueueInv, Q!Read PROVE QueueInv'
<1>1. QueueTypes /\ PointerInv /\ WheelInv /\ Q!WheelIsCounted
  BY DEF QueueInv
<1>2. /\ UNCHANGED <<val, reading, loop, turn, async, cur, sent, dropped, muted, late>> /\ ui = "read"
      /\ ui' = IF Q!Continues THEN "read" ELSE "look"
      /\ shown' = IF cur = "encoder" THEN shown + last'.encoder ELSE shown
  BY DEF Q!Read, Q!dev, Q!lp
<1>3. (Reads' <=> Reads) /\ (Waits' <=> Waits) /\ (Calls' <=> Calls) /\ (Reads <=> cur = "encoder")
  BY <1>2 DEF Reads, Waits, Calls
<1>4. cur \in Q!Indevs /\ DOMAIN queue = Q!Indevs /\ DOMAIN last = Q!Indevs /\ "encoder" \in Q!Indevs /\ "pointer" \in Q!Indevs
  BY <1>1 DEF QueueTypes, Q!Indevs
<1>5. CASE queue[cur] = <<>> /\ UNCHANGED <<last, queue>>
  <2>1. ui' = "look" \/ cur # "encoder"
    BY <1>2, <1>5, EmptySeq DEF Q!Continues
  <2>2. WheelInv'
    BY <1>1, <1>2, <1>3, <1>5, <2>1 DEF WheelInv
  <2>3. QueueTypes' /\ PointerInv'
    BY <1>1, <1>2, <1>5 DEF QueueTypes, PointerInv
  <2>4. Q!WheelIsCounted'
    <3>1. cur = "encoder" => late
      BY <1>1, <1>2, <1>3, <1>5 DEF WheelInv
    <3> QED BY <1>1, <1>2, <1>5, <3>1 DEF Q!WheelIsCounted
  <2> QED BY <2>2, <2>3, <2>4 DEF QueueInv
<1>6. CASE /\ queue[cur] # <<>>
           /\ last' = [last EXCEPT ![cur] = Head(queue[cur])]
           /\ queue' = [queue EXCEPT ![cur] = Tail(@)]
  <2>0. DOMAIN queue' = Q!Indevs /\ DOMAIN last' = Q!Indevs
    BY <1>4, <1>6
  <2>1. CASE cur = "encoder"
    <3> DEFINE q == queue.encoder
    <3>1. /\ queue'.encoder = Tail(q) /\ last'.encoder = Head(q)
          /\ queue'.pointer = queue.pointer /\ last'.pointer = last.pointer
      BY <1>4, <1>6, <2>1
    <3>2. q \in Seq(Int) /\ q # <<>> /\ Tail(q) \in Seq(Int)
      BY <1>1, <1>6, <2>1, HeadTailProperties DEF QueueTypes
    <3>3. Head(q) \in Int /\ Q!SumOf(q) = Head(q) + Q!SumOf(Tail(q)) /\ Q!SumOf(Tail(q)) \in Int
      BY <3>2, SumOfTail
    <3>4. ui' = "read" => Tail(q) # <<>>
      <4> DEFINE t == Tail(q)
      <4>1. Len(t) = Len(q) - 1 /\ Len(q) \in Nat /\ t \in Seq(Int)
        BY <3>2, HeadTailProperties, LenProperties
      <4>2. ui' = "read" => Len(q) > 1
        BY <1>2, <2>1 DEF Q!Continues
      <4> SUFFICES Len(q) > 1 => t # <<>>
        BY <4>2
      <4> HIDE DEF q, t
      <4>3. Len(q) > 1 => Len(t) # 0
        BY <4>1
      <4> QED BY <4>1, <4>3, EmptySeq
    <3>5. WheelInv'
      BY <1>1, <1>2, <1>3, <2>1, <3>1, <3>4 DEF WheelInv
    <3>6. shown' = shown + Head(q) /\ shown \in Int /\ dropped \in Int
      BY <1>1, <1>2, <2>1, <3>1 DEF QueueTypes
    <3>7. QueueTypes'
      BY <1>1, <1>2, <2>0, <3>1, <3>2, <3>3, <3>6 DEF QueueTypes
    <3>8. PointerInv'
      BY <1>1, <1>2, <3>1 DEF PointerInv
    <3>9. Q!WheelIsCounted'
      BY <1>1, <1>2, <3>1, <3>3, <3>6 DEF Q!WheelIsCounted
    <3> QED BY <3>5, <3>7, <3>8, <3>9 DEF QueueInv
  <2>2. CASE cur # "encoder"
    <3>1. queue'.encoder = queue.encoder /\ last'.encoder = last.encoder /\ shown' = shown
      BY <1>2, <1>4, <1>6, <2>2
    <3>2. WheelInv'
      BY <1>1, <1>2, <1>3, <2>2, <3>1 DEF WheelInv
    <3>3. Q!WheelIsCounted'
      BY <1>1, <1>2, <3>1 DEF Q!WheelIsCounted
    <3>4. queue'.pointer \in Seq(Places) /\ last'.pointer \in Places /\ PointerInv'
      <4>1. CASE cur = "pointer"
        <5> DEFINE q == queue.pointer
                   t == queue'.pointer
        <5>1. t = Tail(q) /\ last'.pointer = Head(q)
          BY <1>4, <1>6, <4>1
        <5>2. q \in Seq(Places) /\ q # <<>>
          BY <1>1, <1>6, <4>1 DEF QueueTypes
        <5>3. Len(q) \in Nat \ {0} /\ Head(q) = q[1]
          BY <5>2, LenProperties, EmptySeq
        <5>4. /\ t \in Seq(Places) /\ Head(q) \in Places /\ Len(t) = Len(q) - 1
              /\ \A k \in 1 .. Len(q) - 1 : t[k] = q[k + 1]
          BY <5>1, <5>2, HeadTailProperties
        <5>5. LastOf(t, Head(q)) = q[Len(q)]
          <6> HIDE DEF q, t
          <6>1. CASE t = <<>>
            <7>1. Len(t) = 0
              BY <6>1, EmptySeq
            <7>2. Len(q) = 1
              BY <5>3, <5>4, <7>1
            <7> QED BY <5>3, <6>1, <7>2 DEF LastOf
          <6>2. CASE t # <<>>
            <7>1. Len(t) \in Nat \ {0}
              BY <5>4, <6>2, LenProperties, EmptySeq
            <7>2. Len(q) - 1 \in 1 .. Len(q) - 1 /\ Len(q) - 1 + 1 = Len(q)
              BY <5>3, <5>4, <7>1
            <7>3. t[Len(q) - 1] = q[Len(q)]
              BY <5>4, <7>2
            <7> QED BY <5>4, <6>2, <7>3 DEF LastOf
          <6> QED BY <6>1, <6>2
        <5> QED BY <1>1, <1>2, <5>1, <5>2, <5>4, <5>5 DEF PointerInv, LastOf
      <4>2. CASE cur # "pointer"
        <5>1. queue'.pointer = queue.pointer /\ last'.pointer = last.pointer
          BY <1>4, <1>6, <4>2
        <5> QED BY <1>1, <1>2, <5>1 DEF PointerInv, QueueTypes
      <4> QED BY <4>1, <4>2
    <3>5. QueueTypes'
      BY <1>1, <1>2, <2>0, <3>1, <3>4 DEF QueueTypes
    <3> QED BY <3>2, <3>3, <3>4, <3>5 DEF QueueInv
  <2> QED BY <2>1, <2>2
<1> QED BY <1>5, <1>6 DEF Q!Read

\* LVGL's thread takes and gives back its lock, and ends a read; or nothing moves.
LEMMA UiTurns ==
  ASSUME QueueInv, Q!Enter \/ Q!Leave \/ Q!Look \/ Q!ResetReading \/ Q!SwitchTty \/ UNCHANGED Q!vars
  PROVE  QueueInv'
<1>1. QueueTypes /\ PointerInv /\ WheelInv /\ Q!WheelIsCounted
  BY DEF QueueInv
<1>2. UNCHANGED <<val, queue, last, loop, turn, async, cur, sent, shown, dropped, muted, late>>
  BY DEF Q!Enter, Q!Leave, Q!Look, Q!ResetReading, Q!SwitchTty, Q!vars, Q!dev, Q!lp, Q!lv, Q!wheel
<1>3. PointerInv' /\ Q!WheelIsCounted' /\ (Calls' <=> Calls) /\ (Waits' <=> Waits)
  BY <1>1, <1>2 DEF PointerInv, Q!WheelIsCounted, Calls, Waits
<1>4. CASE reading' = reading /\ (Reads' <=> Reads) /\ (Reads' /\ ui' = "read" => queue.encoder # <<>> \/ ui = "read")
  <2>1. WheelInv'
    BY <1>1, <1>2, <1>3, <1>4 DEF WheelInv
  <2>2. QueueTypes'
    BY <1>1, <1>2, <1>4 DEF QueueTypes
  <2> QED BY <1>3, <2>1, <2>2 DEF QueueInv
<1>5. CASE Q!ResetReading
  <2>1. ui = "reset" /\ ui' = "in" /\ reading' = [reading EXCEPT ![cur] = FALSE]
    BY <1>5 DEF Q!ResetReading
  <2>2. ~Reads' /\ (Reads <=> cur = "encoder")
    BY <2>1 DEF Reads
  <2>3. reading'.encoder = IF cur = "encoder" THEN FALSE ELSE reading.encoder
    BY <1>1, <2>1 DEF QueueTypes, Q!Indevs
  <2>4. WheelInv'
    BY <1>1, <1>2, <1>3, <2>2, <2>3 DEF WheelInv
  <2>5. QueueTypes'
    BY <1>1, <1>2, <2>1 DEF QueueTypes
  <2> QED BY <1>3, <2>4, <2>5 DEF QueueInv
<1>6. CASE Q!Look
  <2>1. ui = "look" /\ ui' = (IF queue[cur] = <<>> THEN "reset" ELSE "read") /\ reading' = reading
    BY <1>6 DEF Q!Look
  <2> QED BY <1>2, <1>4, <2>1 DEF Reads
<1>7. CASE Q!Enter \/ Q!Leave
  <2>1. ui \in {"in", "out"} /\ ui' \in {"in", "out"} /\ reading' = reading
    BY <1>7 DEF Q!Enter, Q!Leave
  <2> QED BY <1>4, <2>1 DEF Reads
<1>8. CASE Q!SwitchTty \/ UNCHANGED Q!vars
  <2>1. ui' = ui /\ reading' = reading
    BY <1>8 DEF Q!SwitchTty, Q!vars, Q!lv
  <2> QED BY <1>2, <1>4, <2>1 DEF Reads
<1> QED BY <1>5, <1>6, <1>7, <1>8

LEMMA QueueStep == QueueInv /\ [Q!Next]_(Q!vars) => QueueInv'
  BY EventIsQueued, QueueIsTrimmed, LoopAsks, ReadBegins, ReportIsRead, UiTurns DEF Q!Next, Q!Loop, Q!Ui

LEMMA QueueStart == Q!Init => QueueInv
<1> SUFFICES ASSUME Q!Init PROVE QueueInv
  OBVIOUS
<1>1. val \in Places /\ val = [x |-> 0, press |-> FALSE]
  BY InputAssumption DEF Q!Init, Places
<1>2. QueueTypes
  <2>1. DOMAIN queue = Q!Indevs /\ queue.encoder = <<>> /\ queue.pointer = <<>> /\ async = <<>>
    BY DEF Q!Init, Q!Indevs
  <2>2. DOMAIN last = Q!Indevs /\ last.encoder = 0 /\ last.pointer = val
    BY DEF Q!Init, Q!Indevs
  <2>3. reading \in [Q!Indevs -> BOOLEAN] /\ turn \in Q!Indevs /\ cur \in Q!Indevs
    BY DEF Q!Init, Q!Indevs
  <2>4. sent = 0 /\ shown = 0 /\ dropped = 0
    BY DEF Q!Init
  <2> QED BY <1>1, <2>1, <2>2, <2>3, <2>4, EmptySeq DEF QueueTypes
<1>3. PointerInv
  BY DEF Q!Init, Q!Indevs, PointerInv, LastOf
<1>4. WheelInv
  BY DEF Q!Init, WheelInv, Calls, Reads, Waits
<1>5. Q!WheelIsCounted
  <2>1. shown = 0 /\ sent = 0 /\ dropped = 0 /\ queue.encoder = <<>>
    BY DEF Q!Init, Q!Indevs
  <2> QED BY <2>1, SumOfNone DEF Q!WheelIsCounted
<1> QED BY <1>2, <1>3, <1>4, <1>5 DEF QueueInv

\* However far the three threads are with a report, LVGL has been told where the
\* pointer is once its queue is empty, and as many steps of the wheel as were made
\* minus those dropped and those queued: for any width of the screen, any limit of
\* the queues and any number of events (event.cpp, indev.cpp).
THEOREM InputStaysShown == Spec => []InputIsShown
<1>1. Init => QueueInv
  BY QueueStart DEF Init
<1>2. QueueInv /\ [Next]_vars => QueueInv'
  BY QueueStep, StepOfHalf
<1>3. QueueInv => InputIsShown
  BY DEF QueueInv, PointerInv, LastOf, InputIsShown, Q!PointerIsShown
<1> QED BY <1>1, <1>2, <1>3, PTL DEF Spec
=============================================================================
