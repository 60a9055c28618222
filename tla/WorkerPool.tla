----------------------------- MODULE WorkerPool -----------------------------
(***************************************************************************)
(* The pool of worker threads behind worker_add (src/lib/worker.cpp).      *)
(* A mutex protects the queue; workers sleep on one condition variable.    *)
(* Sections under the mutex are one step, except where a thread without    *)
(* the mutex can be seen in between: the pool's destructor sets the stop   *)
(* flags and notifies without taking it, so a worker that has read its     *)
(* flag and not yet gone to sleep ("closing") is a state of its own.       *)
(***************************************************************************)
EXTENDS Naturals, Sequences, FiniteSets

CONSTANTS Adders,   \* threads that call worker_add
          Workers,  \* the worker threads there may be: max_workers of them
          Jobs,     \* the functions they hand over, each once
          NoJob,    \* no function
          Free      \* owner of the mutex when no worker holds it

ASSUME PoolAssumption ==
  /\ Workers # {} /\ IsFiniteSet(Workers)
  /\ NoJob \notin Jobs /\ Free \notin Workers

VARIABLES
  queue,    \* queue: the functions not started yet
  wpc,      \* per worker: none, loop, closing, waiting, woken, run, gone
  idle,     \* per worker: the flag auto_create looks at
  cb,       \* per worker: the function it runs
  apc,      \* per adder: out, push (between auto_create and push), notify
  arg,      \* per adder: the function it hands over
  lock,     \* a worker that holds the mutex between two steps
  stop,     \* per worker: its stop_token
  dtor,     \* the pool's destructor: off, ask, join, end
  done,     \* functions that have returned or thrown
  missed    \* history: notify_all came while a worker was closing

vars == <<queue, wpc, idle, cb, apc, arg, lock, stop, dtor, done, missed>>

Init ==
  /\ queue = <<>>
  /\ wpc = [w \in Workers |-> "none"]
  /\ idle = [w \in Workers |-> FALSE]
  /\ cb = [w \in Workers |-> NoJob]
  /\ apc = [a \in Adders |-> "out"]
  /\ arg = [a \in Adders |-> NoJob]
  /\ lock = Free
  /\ stop = [w \in Workers |-> FALSE]
  /\ dtor = "off" /\ done = {} /\ missed = FALSE

-----------------------------------------------------------------------------
\* A thread that calls worker_add.

Fresh(j) ==
  /\ j \notin done
  /\ \A i \in 1 .. Len(queue) : queue[i] # j
  /\ \A w \in Workers : cb[w] # j
  /\ \A a \in Adders : arg[a] # j

\* auto_create: one more worker when none is idle.  A worker that was notified
\* and has not yet taken the mutex again still counts as idle.
AutoCreate(a) ==
  /\ apc[a] = "out" /\ dtor = "off" /\ lock = Free
  /\ \E j \in Jobs : Fresh(j) /\ arg' = [arg EXCEPT ![a] = j]
  /\ \/ /\ \A w \in Workers : ~idle[w]
        /\ \E w \in Workers : wpc[w] = "none" /\ wpc' = [wpc EXCEPT ![w] = "loop"]
     \/ /\ \/ \E w \in Workers : idle[w]
           \/ \A w \in Workers : wpc[w] # "none"
        /\ UNCHANGED wpc
  /\ apc' = [apc EXCEPT ![a] = "push"]
  /\ UNCHANGED <<queue, idle, cb, lock, stop, dtor, done, missed>>

Push(a) ==
  /\ apc[a] = "push" /\ lock = Free
  /\ queue' = Append(queue, arg[a])
  /\ arg' = [arg EXCEPT ![a] = NoJob]
  /\ apc' = [apc EXCEPT ![a] = "notify"]
  /\ UNCHANGED <<wpc, idle, cb, lock, stop, dtor, done, missed>>

\* notify_one, without the mutex: some sleeper wakes, if there is one.
NotifyOne(a) ==
  /\ apc[a] = "notify"
  /\ \/ \E w \in Workers : wpc[w] = "waiting" /\ wpc' = [wpc EXCEPT ![w] = "woken"]
     \/ (\A w \in Workers : wpc[w] # "waiting") /\ UNCHANGED wpc
  /\ apc' = [apc EXCEPT ![a] = "out"]
  /\ UNCHANGED <<queue, idle, cb, arg, lock, stop, dtor, done, missed>>

-----------------------------------------------------------------------------
\* A worker thread.

\* The oldest function leaves the queue and runs outside the mutex.
Pop(w) ==
  /\ queue # <<>>
  /\ cb' = [cb EXCEPT ![w] = Head(queue)]
  /\ queue' = Tail(queue)
  /\ idle' = [idle EXCEPT ![w] = FALSE]
  /\ wpc' = [wpc EXCEPT ![w] = "run"]
  /\ UNCHANGED lock

\* Mutant: the mutex is released before the wait begins.
LoopLetsGo(w) ==
  /\ wpc[w] = "loop" /\ lock = Free
  /\ \/ Pop(w)
     \/ /\ queue = <<>> /\ stop[w]
        /\ wpc' = [wpc EXCEPT ![w] = "gone"]
        /\ idle' = [idle EXCEPT ![w] = FALSE]
        /\ UNCHANGED <<queue, cb, lock>>
     \/ /\ queue = <<>> /\ ~stop[w]
        /\ wpc' = [wpc EXCEPT ![w] = "closing"]
        /\ idle' = [idle EXCEPT ![w] = TRUE]
        /\ UNCHANGED <<queue, cb, lock>>
  /\ UNCHANGED <<apc, arg, stop, dtor, done, missed>>

\* The top of the loop, up to the wait.
Loop(w) ==
  /\ wpc[w] = "loop" /\ lock = Free
  /\ \/ Pop(w)
     \/ /\ queue = <<>> /\ stop[w]
        /\ wpc' = [wpc EXCEPT ![w] = "gone"]
        /\ idle' = [idle EXCEPT ![w] = FALSE]
        /\ UNCHANGED <<queue, cb, lock>>
     \/ /\ queue = <<>> /\ ~stop[w]
        /\ wpc' = [wpc EXCEPT ![w] = "closing"]
        /\ idle' = [idle EXCEPT ![w] = TRUE]
        /\ lock' = w
        /\ UNCHANGED <<queue, cb>>
  /\ UNCHANGED <<apc, arg, stop, dtor, done, missed>>

\* cond.wait releases the mutex and begins to sleep.
Sleep(w) ==
  /\ wpc[w] = "closing"
  /\ wpc' = [wpc EXCEPT ![w] = "waiting"]
  /\ lock' = Free
  /\ UNCHANGED <<queue, idle, cb, apc, arg, stop, dtor, done, missed>>

\* A wait may end by itself.
SpuriousWake(w) ==
  /\ wpc[w] = "waiting"
  /\ wpc' = [wpc EXCEPT ![w] = "woken"]
  /\ UNCHANGED <<queue, idle, cb, apc, arg, lock, stop, dtor, done, missed>>

\* Mutant: the queue is not looked at again after the wait.
ResumeBlind(w) ==
  /\ wpc[w] = "woken" /\ lock = Free
  /\ cb' = [cb EXCEPT ![w] = IF queue = <<>> THEN NoJob ELSE Head(queue)]
  /\ queue' = IF queue = <<>> THEN queue ELSE Tail(queue)
  /\ idle' = [idle EXCEPT ![w] = FALSE]
  /\ wpc' = [wpc EXCEPT ![w] = "run"]
  /\ UNCHANGED <<apc, arg, lock, stop, dtor, done, missed>>

\* The woken worker has the mutex again: it takes a function if one is left.
Resume(w) ==
  /\ wpc[w] = "woken" /\ lock = Free
  /\ \/ Pop(w)
     \/ /\ queue = <<>>
        /\ wpc' = [wpc EXCEPT ![w] = "loop"]
        /\ UNCHANGED <<queue, idle, cb, lock>>
  /\ UNCHANGED <<apc, arg, stop, dtor, done, missed>>

\* The function returns, or throws and is logged.
Finish(w) ==
  /\ wpc[w] = "run"
  /\ done' = done \cup {cb[w]}
  /\ cb' = [cb EXCEPT ![w] = NoJob]
  /\ wpc' = [wpc EXCEPT ![w] = "loop"]
  /\ UNCHANGED <<queue, idle, apc, arg, lock, stop, dtor, missed>>

-----------------------------------------------------------------------------
\* The destructor of the pool runs when the threads that add have ended.

Destroy ==
  /\ dtor = "off"
  /\ \A a \in Adders : apc[a] = "out"
  /\ dtor' = "ask"
  /\ UNCHANGED <<queue, wpc, idle, cb, apc, arg, lock, stop, done, missed>>

Created(w) == wpc[w] # "none"

RequestStop(w) ==
  /\ dtor = "ask" /\ Created(w) /\ ~stop[w]
  /\ stop' = [stop EXCEPT ![w] = TRUE]
  /\ UNCHANGED <<queue, wpc, idle, cb, apc, arg, lock, dtor, done, missed>>

\* Mutant: one sleeper is told, as after a push.
NotifyOneOnly ==
  /\ dtor = "ask" /\ \A w \in Workers : Created(w) => stop[w]
  /\ \/ \E w \in Workers : wpc[w] = "waiting" /\ wpc' = [wpc EXCEPT ![w] = "woken"]
     \/ (\A w \in Workers : wpc[w] # "waiting") /\ UNCHANGED wpc
  /\ missed' = \E w \in Workers : wpc[w] = "closing"
  /\ dtor' = "join"
  /\ UNCHANGED <<queue, idle, cb, apc, arg, lock, stop, done>>

\* Without the mutex: a worker that is closing does not hear it.
NotifyAll ==
  /\ dtor = "ask" /\ \A w \in Workers : Created(w) => stop[w]
  /\ wpc' = [w \in Workers |-> IF wpc[w] = "waiting" THEN "woken" ELSE wpc[w]]
  /\ missed' = \E w \in Workers : wpc[w] = "closing"
  /\ dtor' = "join"
  /\ UNCHANGED <<queue, idle, cb, apc, arg, lock, stop, done>>

Joined ==
  /\ dtor = "join" /\ \A w \in Workers : Created(w) => wpc[w] = "gone"
  /\ dtor' = "end"
  /\ UNCHANGED <<queue, wpc, idle, cb, apc, arg, lock, stop, done, missed>>

Adding(a) == AutoCreate(a) \/ Push(a) \/ NotifyOne(a)
Working(w) == Loop(w) \/ Sleep(w) \/ Resume(w) \/ Finish(w)
Destroying == NotifyAll \/ Joined \/ \E w \in Workers : RequestStop(w)

Next ==
  \/ \E a \in Adders : Adding(a)
  \/ \E w \in Workers : Working(w) \/ SpuriousWake(w)
  \/ Destroy \/ Destroying

Spec == Init /\ [][Next]_vars

\* The mutex is held for a few instructions, so whoever waits for it gets it;
\* the functions handed over return.  Nobody has to hand one over, a sleeper
\* need not wake by itself, and the process need not end.
Fairness ==
  /\ \A a \in Adders : SF_vars(Push(a)) /\ WF_vars(NotifyOne(a))
  /\ \A w \in Workers : SF_vars(Loop(w)) /\ WF_vars(Sleep(w)) /\ SF_vars(Resume(w)) /\ WF_vars(Finish(w))
  /\ WF_vars(Destroying)

FairSpec == Spec /\ Fairness
-----------------------------------------------------------------------------
\* What must hold.

TypeOK ==
  /\ queue \in Seq(Jobs)
  /\ wpc \in [Workers -> {"none", "loop", "closing", "waiting", "woken", "run", "gone"}]
  /\ idle \in [Workers -> BOOLEAN]
  /\ cb \in [Workers -> Jobs \cup {NoJob}]
  /\ apc \in [Adders -> {"out", "push", "notify"}]
  /\ arg \in [Adders -> Jobs \cup {NoJob}]
  /\ lock \in Workers \cup {Free}
  /\ stop \in [Workers -> BOOLEAN]
  /\ dtor \in {"off", "ask", "join", "end"}
  /\ done \subseteq Jobs
  /\ missed \in BOOLEAN

Awake == {"loop", "woken", "run"}

\* No wake-up is lost: while a function is queued, a worker is awake that will
\* look at the queue, or an adder is about to wake one (worker.cpp:45-48,
\* :106-109: the push is under the mutex, the notification is not).
QueueServed ==
  queue # <<>> => \/ \E w \in Workers : wpc[w] \in Awake
                  \/ \E a \in Adders : apc[a] = "notify"

\* A worker leaves only behind an empty queue: what was handed over before the
\* destructor ran is run before it returns (worker.cpp:45-46).
NothingLeftBehind == dtor = "end" => queue = <<>>

\* Everything handed over runs.
JobsRun == \A j \in Jobs : (\E i \in 1 .. Len(queue) : queue[i] = j) ~> j \in done

\* The destructor returns, unless its notification fell between a worker's look
\* at its stop flag and its sleep (worker.cpp:46-47, :66): nothing wakes that
\* worker then, and the join waits for ever.
ShutdownEnds == dtor = "ask" ~> (dtor = "end" \/ missed)

\* Whatever is handed over runs, and the end of the pool is not waited for in vain.
PoolServes == JobsRun /\ ShutdownEnds

Pool == INSTANCE JobPool WITH
          Tasks <- Jobs, Slots <- Workers,
          line <- queue, active <- {cb[w] : w \in Workers} \ {NoJob}, finished <- done

\* Workers, wake-ups and the creation of threads do not show: the pool is a
\* queue whose functions start in order and run once.
ImplementsPool == Pool!PoolSpec
=============================================================================
