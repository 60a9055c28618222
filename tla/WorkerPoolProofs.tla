-------------------------- MODULE WorkerPoolProofs --------------------------
(***************************************************************************)
(* Proofs about WorkerPool, for any number of adders, workers and jobs.    *)
(***************************************************************************)
EXTENDS WorkerPool, TLAPS

\* Every job has one place: with an adder, in the queue, in a worker, or done.
PlaceInv ==
  /\ \A w \in Workers : wpc[w] = "run" <=> cb[w] # NoJob
  /\ \A a \in Adders : apc[a] = "push" <=> arg[a] # NoJob
  /\ \A i, k \in 1 .. Len(queue) : queue[i] = queue[k] => i = k
  /\ \A v, w \in Workers : cb[v] = cb[w] /\ cb[v] # NoJob => v = w
  /\ \A a, b \in Adders : arg[a] = arg[b] /\ arg[a] # NoJob => a = b
  /\ \A i \in 1 .. Len(queue) : /\ queue[i] \notin done
                                /\ \A w \in Workers : cb[w] # queue[i]
                                /\ \A a \in Adders : arg[a] # queue[i]
  /\ \A w \in Workers : cb[w] \notin done
  /\ \A a \in Adders : arg[a] \notin done /\ \A w \in Workers : arg[a] = cb[w] => arg[a] = NoJob

\* The mutex is held between two steps by the closing worker and nobody else,
\* and behind its back nothing enters the queue.
LockInv ==
  /\ \A w \in Workers : wpc[w] = "closing" <=> lock = w
  /\ lock # Free => queue = <<>>

\* Who adds has made sure that there is a worker; workers leave, and the
\* destructor runs, when nobody adds any more.
AddInv ==
  /\ \A a \in Adders : apc[a] # "out" => dtor = "off" /\ \E w \in Workers : wpc[w] # "none"
  /\ queue # <<>> => \E w \in Workers : wpc[w] # "none"
  /\ \A w \in Workers : stop[w] => dtor # "off"
  /\ \A w \in Workers : wpc[w] = "gone" => stop[w] /\ queue = <<>>

\* Only a worker that exists and does not run is idle.
IdleInv == \A w \in Workers : idle[w] => wpc[w] \in {"loop", "closing", "waiting", "woken"}

PoolInv == TypeOK /\ PlaceInv /\ LockInv /\ IdleInv /\ AddInv /\ QueueServed

LEMMA PoolInit0 == Init => PoolInv
<1> SUFFICES ASSUME Init PROVE PoolInv
  OBVIOUS
<1> USE PoolAssumption DEF PoolAssumption
<1>1. TypeOK
  <2>a. queue \in Seq(Jobs)
    <3>1. <<>> \in Seq(Jobs)
      OBVIOUS
    <3> QED BY <3>1, Zenon DEF Init
  <2>1. queue \in Seq(Jobs) /\ done \subseteq Jobs /\ missed \in BOOLEAN
    BY <2>a, Zenon DEF Init
  <2>2. /\ wpc \in [Workers -> {"none", "loop", "closing", "waiting", "woken", "run", "gone"}]
        /\ idle \in [Workers -> BOOLEAN] /\ stop \in [Workers -> BOOLEAN]
        /\ cb \in [Workers -> Jobs \cup {NoJob}]
    BY DEF Init
  <2>3. /\ apc \in [Adders -> {"out", "push", "notify"}]
        /\ arg \in [Adders -> Jobs \cup {NoJob}]
        /\ lock \in Workers \cup {Free}
        /\ dtor \in {"off", "ask", "join", "end"}
    BY DEF Init
  <2> QED BY <2>1, <2>2, <2>3, Zenon DEF TypeOK
<1>2. 1 .. Len(queue) = {}
  <2>1. Len(queue) = 0
    BY DEF Init
  <2> QED BY <2>1
<1>3. PlaceInv
  <2>1. /\ \A w \in Workers : wpc[w] = "none" /\ cb[w] = NoJob
        /\ \A a \in Adders : apc[a] = "out" /\ arg[a] = NoJob
        /\ done = {}
    BY DEF Init
  <2>2. /\ \A w \in Workers : wpc[w] # "run" /\ cb[w] = NoJob /\ cb[w] \notin done
        /\ \A a \in Adders : apc[a] # "push" /\ arg[a] = NoJob /\ arg[a] \notin done
    BY <2>1
  <2>3. \A i \in 1 .. Len(queue) : FALSE
    BY <1>2
  <2>4. /\ \A v, w \in Workers : cb[v] = cb[w] /\ cb[v] # NoJob => v = w
        /\ \A a, b \in Adders : arg[a] = arg[b] /\ arg[a] # NoJob => a = b
    BY <2>2
  <2> QED BY <2>2, <2>3, <2>4, Zenon DEF PlaceInv
<1>4. LockInv /\ IdleInv /\ AddInv /\ QueueServed
  BY DEF Init, LockInv, IdleInv, AddInv, QueueServed
<1> QED BY <1>1, <1>3, <1>4 DEF PoolInv

\* What taking the oldest function does to the queue.
LEMMA PopShifts ==
  ASSUME queue \in Seq(Jobs), NEW w \in Workers, Pop(w)
  PROVE  /\ queue' \in Seq(Jobs) /\ 1 \in 1 .. Len(queue)
         /\ Head(queue) = queue[1] /\ queue[1] \in Jobs
         /\ \A i \in 1 .. Len(queue') : i + 1 \in 1 .. Len(queue) /\ queue'[i] = queue[i + 1]
BY DEF Pop

LEMMA PushAppends ==
  ASSUME queue \in Seq(Jobs), NEW a \in Adders, Push(a), arg[a] \in Jobs
  PROVE  /\ queue' \in Seq(Jobs) /\ Len(queue') = Len(queue) + 1 /\ Len(queue) \in Nat
         /\ \A i \in 1 .. Len(queue) : queue'[i] = queue[i]
         /\ queue'[Len(queue) + 1] = arg[a]
BY DEF Push
-----------------------------------------------------------------------------
\* Types.

LEMMA TypeStep == PoolInv /\ [Next]_vars => TypeOK'
<1> SUFFICES ASSUME PoolInv, [Next]_vars PROVE TypeOK'
  OBVIOUS
<1>1. TypeOK
  BY DEF PoolInv
<1>2. ASSUME NEW a \in Adders, AutoCreate(a)
      PROVE  TypeOK'
  BY <1>1, <1>2 DEF TypeOK, AutoCreate
<1>3. ASSUME NEW a \in Adders, Push(a)
      PROVE  TypeOK'
  <2>1. arg[a] # NoJob /\ arg[a] \in Jobs
    BY <1>1, <1>3 DEF PoolInv, PlaceInv, TypeOK, Push
  <2> QED BY <1>1, <1>3, <2>1, PushAppends DEF TypeOK, Push
<1>4. ASSUME NEW a \in Adders, NotifyOne(a)
      PROVE  TypeOK'
  BY <1>1, <1>4 DEF TypeOK, NotifyOne
<1>5. ASSUME NEW w \in Workers, Pop(w), UNCHANGED <<apc, arg, stop, dtor, done, missed>>
      PROVE  TypeOK'
  <2>1. queue' \in Seq(Jobs) /\ Head(queue) \in Jobs
    BY <1>1, <1>5, PopShifts DEF TypeOK
  <2> QED BY <1>1, <1>5, <2>1 DEF TypeOK, Pop
<1>6. ASSUME NEW w \in Workers, Loop(w)
      PROVE  TypeOK'
  <2>1. CASE Pop(w)
    BY <1>5, <1>6, <2>1 DEF Loop
  <2>2. CASE ~Pop(w)
    BY <1>1, <1>6, <2>2 DEF TypeOK, Loop
  <2> QED BY <2>1, <2>2
<1>7. ASSUME NEW w \in Workers, Resume(w)
      PROVE  TypeOK'
  <2>1. CASE Pop(w)
    BY <1>5, <1>7, <2>1 DEF Resume
  <2>2. CASE ~Pop(w)
    BY <1>1, <1>7, <2>2 DEF TypeOK, Resume
  <2> QED BY <2>1, <2>2
<1>8. ASSUME NEW w \in Workers, Sleep(w) \/ SpuriousWake(w)
      PROVE  TypeOK'
  BY <1>1, <1>8 DEF TypeOK, Sleep, SpuriousWake
<1>9. ASSUME NEW w \in Workers, Finish(w)
      PROVE  TypeOK'
  <2>1. cb[w] \in Jobs
    BY <1>1, <1>9 DEF PoolInv, PlaceInv, TypeOK, Finish
  <2> QED BY <1>1, <1>9, <2>1 DEF TypeOK, Finish
<1>10. CASE Destroy \/ Destroying
  BY <1>1, <1>10 DEF TypeOK, Destroy, Destroying, NotifyAll, Joined, RequestStop
<1>11. CASE UNCHANGED vars
  BY <1>1, <1>11 DEF TypeOK, vars
<1> QED BY <1>2, <1>3, <1>4, <1>6, <1>7, <1>8, <1>9, <1>10, <1>11 DEF Next, Adding, Working
-----------------------------------------------------------------------------
\* Places.

LEMMA PlaceStep == PoolInv /\ [Next]_vars => PlaceInv'
<1> SUFFICES ASSUME PoolInv, [Next]_vars PROVE PlaceInv'
  OBVIOUS
<1>1. TypeOK /\ PlaceInv /\ TypeOK'
  BY TypeStep DEF PoolInv
<1> USE PoolAssumption DEF PoolAssumption
<1>2. ASSUME NEW a \in Adders, AutoCreate(a)
      PROVE  PlaceInv'
  <2>1. PICK j \in Jobs : Fresh(j) /\ arg' = [arg EXCEPT ![a] = j]
    BY <1>2 DEF AutoCreate
  <2>2. queue' = queue /\ cb' = cb /\ done' = done /\ apc' = [apc EXCEPT ![a] = "push"]
    BY <1>2 DEF AutoCreate
  <2>3. \A w \in Workers : wpc'[w] = "run" <=> wpc[w] = "run"
    BY <1>1, <1>2 DEF AutoCreate, TypeOK
  <2>4. /\ arg'[a] = j /\ \A b \in Adders : b # a => arg'[b] = arg[b]
        /\ apc'[a] = "push" /\ \A b \in Adders : b # a => apc'[b] = apc[b]
    BY <1>1, <2>1, <2>2 DEF TypeOK
  <2>5. /\ j # NoJob /\ j \notin done /\ \A i \in 1 .. Len(queue) : queue[i] # j
        /\ \A w \in Workers : cb[w] # j
        /\ \A b \in Adders : arg[b] # j
    BY <2>1 DEF Fresh
  <2> QED BY <1>1, <2>2, <2>3, <2>4, <2>5 DEF PlaceInv
<1>3. ASSUME NEW a \in Adders, Push(a)
      PROVE  PlaceInv'
  <2>1. arg[a] # NoJob /\ arg[a] \in Jobs
    BY <1>1, <1>3 DEF PlaceInv, TypeOK, Push
  <2>2. /\ Len(queue') = Len(queue) + 1 /\ Len(queue) \in Nat
        /\ \A i \in 1 .. Len(queue) : queue'[i] = queue[i]
        /\ queue'[Len(queue) + 1] = arg[a]
    BY <1>1, <1>3, <2>1, PushAppends DEF TypeOK
  <2>3. \A i \in 1 .. Len(queue') : i \in 1 .. Len(queue) \/ i = Len(queue) + 1
    BY <2>2
  <2>4. wpc' = wpc /\ cb' = cb /\ done' = done
    BY <1>3 DEF Push
  <2>5. /\ arg'[a] = NoJob /\ \A b \in Adders : b # a => arg'[b] = arg[b]
        /\ apc'[a] = "notify" /\ \A b \in Adders : b # a => apc'[b] = apc[b]
    BY <1>1, <1>3 DEF TypeOK, Push
  <2>6. \A i \in 1 .. Len(queue) : queue[i] # arg[a] /\ queue[i] # NoJob
    BY <1>1 DEF PlaceInv, TypeOK
  <2>7. \A i, k \in 1 .. Len(queue') : queue'[i] = queue'[k] => i = k
    BY <1>1, <2>2, <2>3, <2>6 DEF PlaceInv
  <2>8. \A i \in 1 .. Len(queue') : /\ queue'[i] \notin done'
                                    /\ \A w \in Workers : cb'[w] # queue'[i]
                                    /\ \A b \in Adders : arg'[b] # queue'[i]
    BY <1>1, <2>1, <2>2, <2>3, <2>4, <2>5, <2>6 DEF PlaceInv
  <2>9. /\ \A w \in Workers : wpc'[w] = "run" <=> cb'[w] # NoJob
        /\ \A v, w \in Workers : cb'[v] = cb'[w] /\ cb'[v] # NoJob => v = w
        /\ \A w \in Workers : cb'[w] \notin done'
    BY <1>1, <2>4 DEF PlaceInv
  <2>12. /\ \A b \in Adders : apc'[b] = "push" <=> arg'[b] # NoJob
         /\ \A b, c \in Adders : arg'[b] = arg'[c] /\ arg'[b] # NoJob => b = c
    BY <1>1, <2>5 DEF PlaceInv
  <2>10. NoJob \notin done'
    BY <1>1 DEF TypeOK
  <2>11. \A b \in Adders : arg'[b] \notin done' /\ \A w \in Workers : arg'[b] = cb'[w] => arg'[b] = NoJob
    BY <1>1, <2>4, <2>5, <2>10 DEF PlaceInv
  <2> QED BY <2>7, <2>8, <2>9, <2>11, <2>12 DEF PlaceInv
<1>4. ASSUME NEW a \in Adders, NotifyOne(a)
      PROVE  PlaceInv'
  <2>1. /\ \A w \in Workers : wpc'[w] = "run" <=> wpc[w] = "run"
        /\ \A b \in Adders : apc'[b] = "push" <=> apc[b] = "push"
    BY <1>1, <1>4 DEF NotifyOne, TypeOK
  <2>2. UNCHANGED <<queue, cb, arg, done>>
    BY <1>4 DEF NotifyOne
  <2> QED BY <1>1, <2>1, <2>2 DEF PlaceInv
<1>5. ASSUME NEW w \in Workers, Pop(w), UNCHANGED <<apc, arg, stop, dtor, done, missed>>, wpc[w] # "run"
      PROVE  PlaceInv'
  <2>1. /\ 1 \in 1 .. Len(queue) /\ Head(queue) = queue[1] /\ queue[1] \in Jobs
        /\ \A i \in 1 .. Len(queue') : i + 1 \in 1 .. Len(queue) /\ queue'[i] = queue[i + 1]
    BY <1>1, <1>5, PopShifts DEF TypeOK
  <2>2. /\ cb'[w] = queue[1] /\ \A v \in Workers : v # w => cb'[v] = cb[v]
        /\ wpc'[w] = "run" /\ \A v \in Workers : v # w => wpc'[v] = wpc[v]
        /\ queue[1] # NoJob /\ cb[w] = NoJob
    BY <1>1, <1>5, <2>1 DEF TypeOK, Pop, PlaceInv
  <2>3. /\ queue[1] \notin done /\ \A v \in Workers : cb[v] # queue[1]
        /\ \A b \in Adders : arg[b] # queue[1]
    BY <1>1, <2>1 DEF PlaceInv
  <2>4. \A i \in 1 .. Len(queue') : queue'[i] # queue[1]
    <3> SUFFICES ASSUME NEW i \in 1 .. Len(queue'), queue'[i] = queue[1] PROVE FALSE
      OBVIOUS
    <3>1. i + 1 = 1
      BY <1>1, <2>1 DEF PlaceInv
    <3> QED BY <3>1
  <2>5. \A i, k \in 1 .. Len(queue') : queue'[i] = queue'[k] => i = k
    <3> SUFFICES ASSUME NEW i \in 1 .. Len(queue'), NEW k \in 1 .. Len(queue'), queue'[i] = queue'[k]
                 PROVE  i = k
      OBVIOUS
    <3>1. i + 1 = k + 1
      BY <1>1, <2>1 DEF PlaceInv
    <3> QED BY <3>1
  <2>6. \A i \in 1 .. Len(queue') : /\ queue'[i] \notin done'
                                    /\ \A v \in Workers : cb'[v] # queue'[i]
                                    /\ \A b \in Adders : arg'[b] # queue'[i]
    BY <1>1, <1>5, <2>1, <2>2, <2>4 DEF PlaceInv
  <2>7. /\ \A v \in Workers : wpc'[v] = "run" <=> cb'[v] # NoJob
        /\ \A u, v \in Workers : cb'[u] = cb'[v] /\ cb'[u] # NoJob => u = v
        /\ \A v \in Workers : cb'[v] \notin done'
        /\ \A b \in Adders : arg'[b] \notin done' /\ \A v \in Workers : arg'[b] = cb'[v] => arg'[b] = NoJob
    BY <1>1, <1>5, <2>2, <2>3 DEF PlaceInv
  <2>8. /\ \A b \in Adders : apc'[b] = "push" <=> arg'[b] # NoJob
        /\ \A b, c \in Adders : arg'[b] = arg'[c] /\ arg'[b] # NoJob => b = c
    BY <1>1, <1>5 DEF PlaceInv
  <2> QED BY <2>5, <2>6, <2>7, <2>8 DEF PlaceInv
<1>6. ASSUME NEW w \in Workers, Loop(w)
      PROVE  PlaceInv'
  <2>1. CASE Pop(w)
    BY <1>5, <1>6, <2>1 DEF Loop
  <2>2. CASE ~Pop(w)
    <3>1. UNCHANGED <<queue, cb, apc, arg, done>>
      BY <1>6, <2>2 DEF Loop
    <3>2. \A v \in Workers : wpc'[v] = "run" <=> wpc[v] = "run"
      BY <1>1, <1>6, <2>2 DEF Loop, TypeOK
    <3> QED BY <1>1, <3>1, <3>2 DEF PlaceInv
  <2> QED BY <2>1, <2>2
<1>7. ASSUME NEW w \in Workers, Resume(w)
      PROVE  PlaceInv'
  <2>1. CASE Pop(w)
    BY <1>5, <1>7, <2>1 DEF Resume
  <2>2. CASE ~Pop(w)
    <3>1. UNCHANGED <<queue, cb, apc, arg, done>>
      BY <1>7, <2>2 DEF Resume
    <3>2. \A v \in Workers : wpc'[v] = "run" <=> wpc[v] = "run"
      BY <1>1, <1>7, <2>2 DEF Resume, TypeOK
    <3> QED BY <1>1, <3>1, <3>2 DEF PlaceInv
  <2> QED BY <2>1, <2>2
<1>8. ASSUME NEW w \in Workers, Sleep(w) \/ SpuriousWake(w)
      PROVE  PlaceInv'
  <2>1. UNCHANGED <<queue, cb, apc, arg, done>>
    BY <1>8 DEF Sleep, SpuriousWake
  <2>2. \A v \in Workers : wpc'[v] = "run" <=> wpc[v] = "run"
    BY <1>1, <1>8 DEF Sleep, SpuriousWake, TypeOK
  <2> QED BY <1>1, <2>1, <2>2 DEF PlaceInv
<1>9. ASSUME NEW w \in Workers, Finish(w)
      PROVE  PlaceInv'
  <2>1. cb[w] \in Jobs /\ cb[w] # NoJob
    BY <1>1, <1>9 DEF PlaceInv, TypeOK, Finish
  <2>2. /\ cb'[w] = NoJob /\ \A v \in Workers : v # w => cb'[v] = cb[v]
        /\ wpc'[w] = "loop" /\ \A v \in Workers : v # w => wpc'[v] = wpc[v]
        /\ done' = done \cup {cb[w]} /\ UNCHANGED <<queue, arg, apc>>
    BY <1>1, <1>9 DEF TypeOK, Finish
  <2>3. NoJob \notin done'
    BY <1>1 DEF TypeOK
  <2>4. \A i \in 1 .. Len(queue') : /\ queue'[i] \notin done'
                                    /\ \A v \in Workers : cb'[v] # queue'[i]
                                    /\ \A b \in Adders : arg'[b] # queue'[i]
    <3>1. \A i \in 1 .. Len(queue) : queue[i] # NoJob
      BY <1>1 DEF TypeOK
    <3> QED BY <1>1, <2>1, <2>2, <3>1 DEF PlaceInv
  <2>5. \A v \in Workers : cb'[v] \notin done'
    BY <1>1, <2>1, <2>2, <2>3 DEF PlaceInv
  <2>6. \A b \in Adders : arg'[b] \notin done' /\ \A v \in Workers : arg'[b] = cb'[v] => arg'[b] = NoJob
    BY <1>1, <2>1, <2>2, <2>3 DEF PlaceInv
  <2>7. /\ \A v \in Workers : wpc'[v] = "run" <=> cb'[v] # NoJob
        /\ \A b \in Adders : apc'[b] = "push" <=> arg'[b] # NoJob
        /\ \A i, k \in 1 .. Len(queue') : queue'[i] = queue'[k] => i = k
        /\ \A u, v \in Workers : cb'[u] = cb'[v] /\ cb'[u] # NoJob => u = v
        /\ \A b, c \in Adders : arg'[b] = arg'[c] /\ arg'[b] # NoJob => b = c
    BY <1>1, <2>2 DEF PlaceInv
  <2> QED BY <2>4, <2>5, <2>6, <2>7 DEF PlaceInv
<1>10. CASE Destroy \/ Destroying
  <2>1. UNCHANGED <<queue, cb, apc, arg, done>>
    BY <1>10 DEF Destroy, Destroying, NotifyAll, Joined, RequestStop
  <2>2. \A v \in Workers : wpc'[v] = "run" <=> wpc[v] = "run"
    BY <1>1, <1>10 DEF Destroy, Destroying, NotifyAll, Joined, RequestStop, TypeOK
  <2> QED BY <1>1, <2>1, <2>2 DEF PlaceInv
<1>11. CASE UNCHANGED vars
  BY <1>1, <1>11 DEF PlaceInv, vars
<1> QED BY <1>2, <1>3, <1>4, <1>6, <1>7, <1>8, <1>9, <1>10, <1>11 DEF Next, Adding, Working
-----------------------------------------------------------------------------
\* The mutex and the wake-ups.

LEMMA LockStep == PoolInv /\ [Next]_vars => LockInv'
<1> SUFFICES ASSUME PoolInv, [Next]_vars PROVE LockInv'
  OBVIOUS
<1>1. TypeOK /\ LockInv
  BY DEF PoolInv
<1> USE PoolAssumption DEF PoolAssumption
<1>2. ASSUME NEW a \in Adders, Adding(a)
      PROVE  LockInv'
  <2>1. lock' = lock /\ \A w \in Workers : wpc'[w] = "closing" <=> wpc[w] = "closing"
    BY <1>1, <1>2 DEF Adding, AutoCreate, Push, NotifyOne, TypeOK
  <2>2. lock # Free => queue' = queue
    BY <1>2 DEF Adding, AutoCreate, Push, NotifyOne
  <2> QED BY <1>1, <2>1, <2>2 DEF LockInv
<1>3. ASSUME NEW w \in Workers, Loop(w) \/ Resume(w)
      PROVE  LockInv'
  <2>1. lock = Free /\ \A v \in Workers : wpc[v] # "closing"
    BY <1>1, <1>3 DEF Loop, Resume, LockInv
  <2>2. CASE Pop(w)
    BY <1>1, <1>3, <2>1, <2>2 DEF Pop, LockInv, TypeOK
  <2>3. CASE Loop(w) /\ ~Pop(w)
    BY <1>1, <2>1, <2>3 DEF Loop, LockInv, TypeOK
  <2>4. CASE Resume(w) /\ ~Pop(w)
    BY <1>1, <2>1, <2>4 DEF Resume, LockInv, TypeOK
  <2> QED BY <1>3, <2>2, <2>3, <2>4
<1>4. ASSUME NEW w \in Workers, Sleep(w) \/ SpuriousWake(w) \/ Finish(w)
      PROVE  LockInv'
  BY <1>1, <1>4 DEF Sleep, SpuriousWake, Finish, LockInv, TypeOK
<1>5. CASE Destroy \/ Destroying
  BY <1>1, <1>5 DEF Destroy, Destroying, NotifyAll, Joined, RequestStop, LockInv, TypeOK
<1>6. CASE UNCHANGED vars
  BY <1>1, <1>6 DEF LockInv, vars
<1> QED BY <1>2, <1>3, <1>4, <1>5, <1>6 DEF Next, Working

LEMMA AddStep == PoolInv /\ [Next]_vars => AddInv'
<1> SUFFICES ASSUME PoolInv, [Next]_vars PROVE AddInv'
  OBVIOUS
<1>1. TypeOK /\ AddInv
  BY DEF PoolInv
<1> USE PoolAssumption DEF PoolAssumption
<1>2. ASSUME NEW a \in Adders, AutoCreate(a)
      PROVE  AddInv'
  <2>1. dtor = "off" /\ UNCHANGED <<queue, stop, dtor>>
    BY <1>2 DEF AutoCreate
  <2>2. \E w \in Workers : wpc'[w] # "none"
    <3>1. ASSUME NEW w \in Workers, wpc' = [wpc EXCEPT ![w] = "loop"]
          PROVE  wpc'[w] # "none"
      BY <1>1, <3>1 DEF TypeOK
    <3>2. ASSUME NEW w \in Workers, idle[w], wpc' = wpc
          PROVE  wpc'[w] # "none"
      BY <1>1, <3>2 DEF PoolInv, IdleInv
    <3> QED BY <1>2, <3>1, <3>2 DEF AutoCreate
  <2>3. \A w \in Workers : wpc'[w] = "gone" => wpc[w] = "gone"
    BY <1>1, <1>2 DEF AutoCreate, TypeOK
  <2>4. \A b \in Adders : b # a => apc'[b] = apc[b]
    BY <1>1, <1>2 DEF AutoCreate, TypeOK
  <2> QED BY <1>1, <2>1, <2>2, <2>3, <2>4 DEF AddInv
<1>3. ASSUME NEW a \in Adders, Push(a)
      PROVE  AddInv'
  BY <1>1, <1>3 DEF Push, AddInv, TypeOK
<1>4. ASSUME NEW a \in Adders, NotifyOne(a)
      PROVE  AddInv'
  <2>1. \A w \in Workers : /\ wpc'[w] = "none" <=> wpc[w] = "none"
                           /\ wpc'[w] = "gone" <=> wpc[w] = "gone"
    BY <1>1, <1>4 DEF NotifyOne, TypeOK
  <2>2. UNCHANGED <<queue, stop, dtor>> /\ \A b \in Adders : apc'[b] # "out" => apc'[b] = apc[b]
    BY <1>1, <1>4 DEF NotifyOne, TypeOK
  <2> QED BY <1>1, <2>1, <2>2 DEF AddInv
<1>5. ASSUME NEW w \in Workers, Pop(w), wpc[w] # "gone", UNCHANGED <<apc, stop, dtor>>
      PROVE  AddInv'
  <2>1. /\ wpc'[w] = "run" /\ \A v \in Workers : v # w => wpc'[v] = wpc[v]
        /\ queue # <<>>
    BY <1>1, <1>5 DEF Pop, TypeOK
  <2> QED BY <1>1, <1>5, <2>1 DEF AddInv
<1>6. ASSUME NEW w \in Workers, Loop(w) \/ Resume(w)
      PROVE  AddInv'
  <2>1. CASE Pop(w)
    BY <1>5, <1>6, <2>1 DEF Loop, Resume
  <2>2. CASE ~Pop(w)
    <3>1. UNCHANGED <<queue, apc, stop, dtor>> /\ queue = <<>>
      BY <1>6, <2>2 DEF Loop, Resume
    <3>2. /\ wpc'[w] # "none" /\ \A v \in Workers : v # w => wpc'[v] = wpc[v]
          /\ wpc'[w] = "gone" => stop[w]
      BY <1>1, <1>6, <2>2 DEF Loop, Resume, TypeOK
    <3> QED BY <1>1, <3>1, <3>2 DEF AddInv
  <2> QED BY <2>1, <2>2
<1>7. ASSUME NEW w \in Workers, Sleep(w) \/ SpuriousWake(w) \/ Finish(w)
      PROVE  AddInv'
  BY <1>1, <1>7 DEF Sleep, SpuriousWake, Finish, AddInv, TypeOK
<1>8. CASE Destroy \/ Joined
  BY <1>1, <1>8 DEF Destroy, Joined, AddInv, TypeOK
<1>9. CASE NotifyAll
  <2>1. \A w \in Workers : /\ wpc'[w] = "none" <=> wpc[w] = "none"
                           /\ wpc'[w] = "gone" <=> wpc[w] = "gone"
    BY <1>1, <1>9 DEF NotifyAll, TypeOK
  <2> QED BY <1>1, <1>9, <2>1 DEF NotifyAll, AddInv
<1>10. ASSUME NEW w \in Workers, RequestStop(w)
       PROVE  AddInv'
  BY <1>1, <1>10 DEF RequestStop, AddInv, TypeOK
<1>11. CASE UNCHANGED vars
  BY <1>1, <1>11 DEF AddInv, vars
<1> QED BY <1>2, <1>3, <1>4, <1>6, <1>7, <1>8, <1>9, <1>10, <1>11 DEF Next, Adding, Working, Destroying

LEMMA IdleStep == PoolInv /\ [Next]_vars => IdleInv'
<1> SUFFICES ASSUME PoolInv, [Next]_vars PROVE IdleInv'
  OBVIOUS
<1>1. TypeOK /\ IdleInv
  BY DEF PoolInv
<1>2. ASSUME NEW a \in Adders, Adding(a)
      PROVE  IdleInv'
  BY <1>1, <1>2 DEF Adding, AutoCreate, Push, NotifyOne, IdleInv, TypeOK
<1>3. ASSUME NEW w \in Workers, Working(w) \/ SpuriousWake(w)
      PROVE  IdleInv'
  BY <1>1, <1>3 DEF Working, Loop, Resume, Pop, Sleep, SpuriousWake, Finish, IdleInv, TypeOK
<1>4. CASE Destroy \/ Destroying
  BY <1>1, <1>4 DEF Destroy, Destroying, NotifyAll, Joined, RequestStop, IdleInv, TypeOK
<1>5. CASE UNCHANGED vars
  BY <1>1, <1>5 DEF IdleInv, vars
<1> QED BY <1>2, <1>3, <1>4, <1>5 DEF Next

LEMMA ServedStep == PoolInv /\ [Next]_vars => QueueServed'
<1> SUFFICES ASSUME PoolInv, [Next]_vars, queue' # <<>>
             PROVE  \/ \E w \in Workers : wpc'[w] \in Awake
                    \/ \E a \in Adders : apc'[a] = "notify"
  BY DEF QueueServed
<1>1. TypeOK /\ LockInv /\ AddInv /\ QueueServed
  BY DEF PoolInv
<1> USE DEF Awake
<1>2. ASSUME NEW a \in Adders, AutoCreate(a)
      PROVE  \/ \E w \in Workers : wpc'[w] \in Awake
             \/ \E b \in Adders : apc'[b] = "notify"
  <2>1. /\ \A w \in Workers : wpc[w] \in Awake => wpc'[w] \in Awake
        /\ \A b \in Adders : apc[b] = "notify" => apc'[b] = "notify"
    BY <1>1, <1>2 DEF AutoCreate, TypeOK
  <2> QED BY <1>1, <1>2, <2>1 DEF AutoCreate, QueueServed
<1>3. ASSUME NEW a \in Adders, Push(a)
      PROVE  \E b \in Adders : apc'[b] = "notify"
  BY <1>1, <1>3 DEF Push, TypeOK
<1>4. ASSUME NEW a \in Adders, NotifyOne(a)
      PROVE  \E w \in Workers : wpc'[w] \in Awake
  <2>1. CASE \E w \in Workers : wpc[w] = "waiting"
    BY <1>1, <1>4, <2>1 DEF NotifyOne, TypeOK
  <2>2. CASE \A w \in Workers : wpc[w] # "waiting"
    <3>1. PICK w \in Workers : wpc[w] # "none"
      BY <1>1, <1>4 DEF NotifyOne, AddInv
    <3>2. wpc[w] # "gone"
      BY <1>1, <1>4 DEF NotifyOne, AddInv
    <3>3. lock = Free
      BY <1>1, <1>4 DEF NotifyOne, LockInv
    <3>4. wpc[w] # "closing"
      BY <1>1, <3>3, PoolAssumption DEF LockInv, PoolAssumption
    <3>5. wpc' = wpc
      BY <1>4, <2>2 DEF NotifyOne
    <3> QED BY <1>1, <2>2, <3>1, <3>2, <3>4, <3>5 DEF TypeOK
  <2> QED BY <2>1, <2>2
<1>5. ASSUME NEW w \in Workers, Loop(w) \/ Resume(w)
      PROVE  wpc'[w] \in Awake
  BY <1>1, <1>5 DEF Loop, Resume, Pop, TypeOK
<1>6. ASSUME NEW w \in Workers, Sleep(w)
      PROVE  FALSE
  <2>1. lock = w
    BY <1>1, <1>6 DEF Sleep, LockInv
  <2>2. queue = <<>> /\ queue' = queue
    BY <1>1, <1>6, <2>1, PoolAssumption DEF Sleep, LockInv, PoolAssumption
  <2> QED BY <2>2
<1>7. ASSUME NEW w \in Workers, SpuriousWake(w) \/ Finish(w)
      PROVE  wpc'[w] \in Awake
  BY <1>1, <1>7 DEF SpuriousWake, Finish, TypeOK
<1>8. CASE Destroy \/ Destroying \/ UNCHANGED vars
  <2>1. queue' = queue /\ apc' = apc
    BY <1>8 DEF Destroy, Destroying, NotifyAll, Joined, RequestStop, vars
  <2>2. \A w \in Workers : wpc[w] \in Awake => wpc'[w] \in Awake
    BY <1>1, <1>8 DEF Destroy, Destroying, NotifyAll, Joined, RequestStop, vars, TypeOK
  <2> QED BY <1>1, <2>1, <2>2 DEF QueueServed
<1> QED BY <1>2, <1>3, <1>4, <1>5, <1>6, <1>7, <1>8 DEF Next, Adding, Working

LEMMA PoolStep == PoolInv /\ [Next]_vars => PoolInv'
BY TypeStep, PlaceStep, LockStep, AddStep, IdleStep, ServedStep DEF PoolInv

\* However many threads add and work, no wake-up is lost (worker.cpp:45-48,
\* :106-109): a queued function never waits for a sleeping pool.
THEOREM NoLostWakeup == Spec => []QueueServed
<1>1. PoolInv => QueueServed
  BY DEF PoolInv
<1> QED BY <1>1, PoolInit0, PoolStep, PTL DEF Spec
-----------------------------------------------------------------------------
\* The pool is a queue.

Running == {cb[w] : w \in Workers} \ {NoJob}

\* With a worker that does not run there is room for one more.
LEMMA Room ==
  ASSUME PlaceInv, NEW w \in Workers, wpc[w] # "run", NEW j, j \notin Running
  PROVE  Pool!Fits(Running \cup {j})
<1> DEFINE in(x) == CHOOSE v \in Workers : cb[v] = x
           f == [x \in Running \cup {j} |-> IF x = j THEN w ELSE in(x)]
<1>1. \A x \in Running : in(x) \in Workers /\ cb[in(x)] = x /\ x # NoJob
  BY DEF Running
<1>2. cb[w] = NoJob
  BY DEF PlaceInv
<1> HIDE DEF in
<1>3. f \in [Running \cup {j} -> Workers]
  BY <1>1
<1>4. ASSUME NEW x \in Running \cup {j}, NEW y \in Running \cup {j}, f[x] = f[y]
      PROVE  x = y
  <2>1. CASE x \in Running /\ y \in Running
    BY <1>1, <1>4, <2>1
  <2>2. CASE x = j \/ y = j
    BY <1>1, <1>2, <1>4, <2>2
  <2> QED BY <2>1, <2>2
<1> HIDE DEF f
<1> QED BY <1>3, <1>4 DEF Pool!Fits

\* Everything that changes neither queue nor functions is invisible.
LEMMA Stutters ==
  ASSUME UNCHANGED <<queue, cb, done>>
  PROVE  UNCHANGED Pool!poolVars
BY DEF Pool!poolVars

LEMMA PopStarts ==
  ASSUME PoolInv, NEW w \in Workers, Pop(w), wpc[w] # "run", done' = done
  PROVE  Pool!Start
<1>1. TypeOK /\ PlaceInv
  BY DEF PoolInv
<1>2. cb[w] = NoJob /\ queue # <<>> /\ queue' = Tail(queue)
  BY <1>1 DEF PlaceInv, Pop
<1>3. Pool!Fits(Running \cup {Head(queue)})
  <2>1. Head(queue) \notin Running
    BY <1>1, PopShifts DEF TypeOK, PlaceInv, Running
  <2> QED BY <1>1, <2>1, Room
<1>4. cb'[w] = Head(queue) /\ \A v \in Workers : v # w => cb'[v] = cb[v]
  BY <1>1 DEF Pop, TypeOK
<1>5. Head(queue) # NoJob
  BY <1>1, PopShifts, PoolAssumption DEF TypeOK, PoolAssumption
<1>6. Running' = Running \cup {Head(queue)}
  BY <1>2, <1>4, <1>5 DEF Running
<1> QED BY <1>2, <1>3, <1>6 DEF Pool!Start, Running

LEMMA PoolSimulates == PoolInv /\ [Next]_vars => [Pool!PoolNext]_(Pool!poolVars)
<1> SUFFICES ASSUME PoolInv, [Next]_vars PROVE Pool!PoolNext \/ UNCHANGED Pool!poolVars
  OBVIOUS
<1>1. TypeOK /\ PlaceInv
  BY DEF PoolInv
<1>2. ASSUME NEW a \in Adders, AutoCreate(a) \/ NotifyOne(a)
      PROVE  UNCHANGED Pool!poolVars
  <2>1. UNCHANGED <<queue, cb, done>>
    BY <1>2 DEF AutoCreate, NotifyOne
  <2> QED BY <2>1, Stutters
<1>3. ASSUME NEW a \in Adders, Push(a)
      PROVE  Pool!PoolNext
  <2>1. arg[a] # NoJob /\ arg[a] \in Jobs
    BY <1>1, <1>3 DEF PlaceInv, TypeOK, Push
  <2>2. /\ arg[a] \notin Running /\ arg[a] \notin done
        /\ \A i \in 1 .. Len(queue) : queue[i] # arg[a]
    BY <1>1, <2>1 DEF PlaceInv, Running
  <2>3. queue' = Append(queue, arg[a]) /\ UNCHANGED <<cb, done>>
    BY <1>3 DEF Push
  <2>4. Pool!Accept(arg[a])
    BY <2>2, <2>3 DEF Pool!Accept, Running
  <2> QED BY <2>1, <2>4 DEF Pool!PoolNext
<1>4. ASSUME NEW w \in Workers, Loop(w) \/ Resume(w)
      PROVE  Pool!PoolNext \/ UNCHANGED Pool!poolVars
  <2>1. CASE Pop(w)
    <3>1. wpc[w] # "run" /\ done' = done
      BY <1>4 DEF Loop, Resume
    <3>2. Pool!Start
      BY <2>1, <3>1, PopStarts
    <3> QED BY <3>2 DEF Pool!PoolNext
  <2>2. CASE ~Pop(w)
    <3>1. UNCHANGED <<queue, cb, done>>
      BY <1>4, <2>2 DEF Loop, Resume
    <3> QED BY <3>1, Stutters
  <2> QED BY <2>1, <2>2
<1>5. ASSUME NEW w \in Workers, Sleep(w) \/ SpuriousWake(w)
      PROVE  UNCHANGED Pool!poolVars
  <2>1. UNCHANGED <<queue, cb, done>>
    BY <1>5 DEF Sleep, SpuriousWake
  <2> QED BY <2>1, Stutters
<1>6. ASSUME NEW w \in Workers, Finish(w)
      PROVE  Pool!PoolNext
  <2>1. cb[w] \in Jobs /\ cb[w] # NoJob
    BY <1>1, <1>6 DEF PlaceInv, TypeOK, Finish
  <2>2. cb'[w] = NoJob /\ \A v \in Workers : v # w => cb'[v] = cb[v] /\ cb[v] # cb[w]
    BY <1>1, <1>6, <2>1 DEF TypeOK, Finish, PlaceInv
  <2>3. cb[w] \in Running /\ Running' = Running \ {cb[w]}
    BY <2>1, <2>2 DEF Running
  <2>4. PICK j \in Jobs : j = cb[w]
    BY <2>1
  <2>5. Pool!Complete(j)
    BY <1>6, <2>3, <2>4 DEF Finish, Pool!Complete, Running
  <2> QED BY <2>5 DEF Pool!PoolNext
<1>7. CASE Destroy \/ Destroying \/ UNCHANGED vars
  <2>1. UNCHANGED <<queue, cb, done>>
    BY <1>7 DEF Destroy, Destroying, NotifyAll, Joined, RequestStop, vars
  <2> QED BY <2>1, Stutters
<1> QED BY <1>2, <1>3, <1>4, <1>5, <1>6, <1>7 DEF Next, Adding, Working

\* For any number of threads, worker_add is a queue: what is handed over starts
\* in order, runs once, and never more of it than there may be workers.
THEOREM PoolIsQueue == Spec => ImplementsPool
<1>1. Init => Pool!PoolInit
  <2> SUFFICES ASSUME Init PROVE Pool!PoolInit
    OBVIOUS
  <2>1. \A w \in Workers : cb[w] = NoJob
    BY DEF Init
  <2>2. {cb[w] : w \in Workers} \ {NoJob} = {}
    BY <2>1
  <2> QED BY <2>2 DEF Init, Pool!PoolInit
<1> QED BY <1>1, PoolInit0, PoolStep, PoolSimulates, PTL DEF Spec, ImplementsPool, Pool!PoolSpec
-----------------------------------------------------------------------------
\* The destructor.

LEMMA LeftStep == PoolInv /\ NothingLeftBehind /\ [Next]_vars => NothingLeftBehind'
<1> SUFFICES ASSUME PoolInv, NothingLeftBehind, [Next]_vars, dtor' = "end" PROVE queue' = <<>>
  BY DEF NothingLeftBehind
<1>1. TypeOK /\ AddInv
  BY DEF PoolInv
<1>2. ASSUME NEW a \in Adders, Adding(a)
      PROVE  FALSE
  <2>1. dtor = "off" /\ dtor' = dtor
    BY <1>1, <1>2 DEF Adding, AutoCreate, Push, NotifyOne, AddInv
  <2> QED BY <2>1
<1>3. ASSUME NEW w \in Workers, Working(w) \/ SpuriousWake(w)
      PROVE  queue' = <<>>
  <2>1. queue = <<>>
    BY <1>3 DEF Working, Loop, Resume, Sleep, SpuriousWake, Finish, NothingLeftBehind
  <2> QED BY <1>3, <2>1 DEF Working, Loop, Resume, Pop, Sleep, SpuriousWake, Finish
<1>4. CASE Joined
  BY <1>1, <1>4 DEF Joined, Created, AddInv
<1>5. CASE Destroy \/ NotifyAll \/ \E w \in Workers : RequestStop(w)
  BY <1>5 DEF Destroy, NotifyAll, RequestStop, NothingLeftBehind
<1>6. CASE UNCHANGED vars
  BY <1>6 DEF vars, NothingLeftBehind
<1> QED BY <1>2, <1>3, <1>4, <1>5, <1>6 DEF Next, Destroying

\* When the pool's destructor returns, everything that was handed over before it
\* began has been started (worker.cpp:45-46, :63-71).
THEOREM QueueDrained == Spec => []NothingLeftBehind
<1>1. Init => NothingLeftBehind
  BY DEF Init, NothingLeftBehind
<1> QED BY <1>1, PoolInit0, PoolStep, LeftStep, PTL DEF Spec
=============================================================================
