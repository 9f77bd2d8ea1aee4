----------------------------- MODULE ThreadPool -----------------------------
(***************************************************************************)
(* metalrast::ThreadPool (src/src/ThreadPool.h): n workers that take       *)
(* closures from a FIFO queue, and one caller that enqueues, waits for the *)
(* outstanding count to reach zero, and destroys the pool (the way         *)
(* loadGLB and loadGLBToRegistry use it: one pool per scene pass).         *)
(*                                                                         *)
(* One action is one critical section, or one access to the atomic         *)
(* activeTasks_ outside a lock.  A condition-variable wait is three steps: *)
(* evaluate the predicate under the mutex, block (which gives the mutex    *)
(* back), be woken and take the mutex again.  A mutex variable names its   *)
(* holder only while a critical section spans several steps.               *)
(***************************************************************************)
EXTENDS Integers, Sequences, FiniteSets

CONSTANTS
  Worker,     \* the threads of workers_
  Task,       \* the closures the caller may enqueue
  Caller,     \* the thread that owns the pool
  Free        \* "no thread" / "no task"

ASSUME PoolAssumption ==
  /\ IsFiniteSet(Worker) /\ Worker # {}
  /\ Caller \notin Worker
  /\ Free \notin Worker \cup {Caller}
  /\ Free \notin Task

VARIABLES
  tasks,      \* tasks_: the FIFO queue
  active,     \* activeTasks_: enqueued and not yet finished, an atomic
  stop,       \* stop_
  queueMutex, \* holder of queueMutex_
  waitMutex,  \* holder of waitMutex_
  pc,         \* where each worker is in its loop
  current,    \* the closure each worker has taken, Free when none
  cpc,        \* where the caller is
  submitted,  \* history: tasks given to enqueue()
  done        \* history: tasks whose body has returned

vars == <<tasks, active, stop, queueMutex, waitMutex, pc, current, cpc,
          submitted, done>>
workerVars == <<pc, current>>
callerVars == <<cpc, submitted>>

WorkerPC == {"lock", "block", "asleep", "run", "count", "notify", "exited"}
CallerPC == {"idle", "count", "notify", "lockWait", "blockWait", "asleep",
             "waited", "notifyStop", "join", "destroyed"}

Init ==
  /\ tasks = <<>>
  /\ active = 0
  /\ stop = FALSE
  /\ queueMutex = Free
  /\ waitMutex = Free
  /\ pc = [w \in Worker |-> "lock"]
  /\ current = [w \in Worker |-> Free]
  /\ cpc = "idle"
  /\ submitted = {}
  /\ done = {}

-----------------------------------------------------------------------------
(* The worker loop.                                                        *)

Move(w, to) == pc' = [pc EXCEPT ![w] = to]

\* Lock queueMutex_; the predicate stop_ || !tasks_.empty() is false.
WorkerFindsNothing(w) ==
  /\ pc[w] = "lock"
  /\ queueMutex = Free
  /\ ~stop
  /\ tasks = <<>>
  /\ queueMutex' = w
  /\ Move(w, "block")
  /\ UNCHANGED <<tasks, active, stop, waitMutex, current, callerVars, done>>

\* cv_.wait puts the worker to sleep and gives queueMutex_ back, atomically.
WorkerBlocks(w) ==
  /\ pc[w] = "block"
  /\ queueMutex' = Free
  /\ Move(w, "asleep")
  /\ UNCHANGED <<tasks, active, stop, waitMutex, current, callerVars, done>>

\* A condition variable may also wake with no notification.
WorkerWakesSpuriously(w) ==
  /\ pc[w] = "asleep"
  /\ Move(w, "lock")
  /\ UNCHANGED <<tasks, active, stop, queueMutex, waitMutex, current,
                 callerVars, done>>

\* The front closure copied, but never popped.
WorkerTakesWithoutPop(w) ==
  /\ pc[w] = "lock"
  /\ queueMutex = Free
  /\ tasks # <<>>
  /\ current' = [current EXCEPT ![w] = Head(tasks)]
  /\ Move(w, "run")
  /\ UNCHANGED <<tasks, active, stop, queueMutex, waitMutex, callerVars, done>>

\* Lock, take the front closure, unlock.
WorkerTakes(w) ==
  /\ pc[w] = "lock"
  /\ queueMutex = Free
  /\ tasks # <<>>
  /\ current' = [current EXCEPT ![w] = Head(tasks)]
  /\ tasks' = Tail(tasks)
  /\ Move(w, "run")
  /\ UNCHANGED <<active, stop, queueMutex, waitMutex, callerVars, done>>

\* if (stop_) return; with the test of the queue forgotten.
WorkerExitsEarly(w) ==
  /\ pc[w] = "lock"
  /\ queueMutex = Free
  /\ stop
  /\ Move(w, "exited")
  /\ UNCHANGED <<tasks, active, stop, queueMutex, waitMutex, current,
                 callerVars, done>>

\* Lock, see stop_ with an empty queue, leave the loop.
WorkerExits(w) ==
  /\ pc[w] = "lock"
  /\ queueMutex = Free
  /\ stop
  /\ tasks = <<>>
  /\ Move(w, "exited")
  /\ UNCHANGED <<tasks, active, stop, queueMutex, waitMutex, current,
                 callerVars, done>>

\* The closure runs to its end, outside every lock.
WorkerRuns(w) ==
  /\ pc[w] = "run"
  /\ done' = done \cup {current[w]}
  /\ current' = [current EXCEPT ![w] = Free]
  /\ Move(w, "count")
  /\ UNCHANGED <<tasks, active, stop, queueMutex, waitMutex, callerVars>>

\* --activeTasks_ == 0 decides whether somebody must be notified.
WorkerCounts(w) ==
  /\ pc[w] = "count"
  /\ active' = active - 1
  /\ Move(w, IF active = 1 THEN "notify" ELSE "lock")
  /\ UNCHANGED <<tasks, stop, queueMutex, waitMutex, current, callerVars, done>>

\* The notification made without waitMutex_, the shortcut the code avoids.
NotifyUnlocked(w) ==
  /\ pc[w] = "notify"
  /\ cpc' = IF cpc = "asleep" THEN "lockWait" ELSE cpc
  /\ Move(w, "lock")
  /\ UNCHANGED <<tasks, active, stop, queueMutex, waitMutex, current,
                 submitted, done>>

\* Lock waitMutex_, waitCv_.notify_all(), unlock.
WorkerNotifies(w) ==
  /\ pc[w] = "notify"
  /\ waitMutex = Free
  /\ cpc' = IF cpc = "asleep" THEN "lockWait" ELSE cpc
  /\ Move(w, "lock")
  /\ UNCHANGED <<tasks, active, stop, queueMutex, waitMutex, current,
                 submitted, done>>

WorkerStep(w) ==
  \/ WorkerFindsNothing(w)
  \/ WorkerBlocks(w)
  \/ WorkerTakes(w)
  \/ WorkerExits(w)
  \/ WorkerRuns(w)
  \/ WorkerCounts(w)
  \/ WorkerNotifies(w)

-----------------------------------------------------------------------------
(* The caller.                                                             *)

\* enqueue(): lock queueMutex_ and push ...
EnqueuePush(t) ==
  /\ cpc = "idle"
  /\ t \notin submitted
  /\ queueMutex = Free
  /\ queueMutex' = Caller
  /\ tasks' = Append(tasks, t)
  /\ submitted' = submitted \cup {t}
  /\ cpc' = "count"
  /\ UNCHANGED <<active, stop, waitMutex, workerVars, done>>

\* ... then ++activeTasks_, still under the lock, and unlock.
EnqueueCount ==
  /\ cpc = "count"
  /\ active' = active + 1
  /\ queueMutex' = Free
  /\ cpc' = "notify"
  /\ UNCHANGED <<tasks, stop, waitMutex, workerVars, submitted, done>>

\* cv_.notify_one(): one sleeper, when there is one, goes for the lock.
EnqueueNotify ==
  /\ cpc = "notify"
  /\ \/ \E w \in Worker : pc[w] = "asleep" /\ Move(w, "lock")
     \/ (\A w \in Worker : pc[w] # "asleep") /\ UNCHANGED pc
  /\ cpc' = "idle"
  /\ UNCHANGED <<tasks, active, stop, queueMutex, waitMutex, current,
                 submitted, done>>

CallWait ==
  /\ cpc = "idle"
  /\ cpc' = "lockWait"
  /\ UNCHANGED <<tasks, active, stop, queueMutex, waitMutex, workerVars,
                 submitted, done>>

\* Lock waitMutex_, read activeTasks_ # 0.
WaitFindsActive ==
  /\ cpc = "lockWait"
  /\ waitMutex = Free
  /\ active # 0
  /\ waitMutex' = Caller
  /\ cpc' = "blockWait"
  /\ UNCHANGED <<tasks, active, stop, queueMutex, workerVars, submitted, done>>

WaitBlocks ==
  /\ cpc = "blockWait"
  /\ waitMutex' = Free
  /\ cpc' = "asleep"
  /\ UNCHANGED <<tasks, active, stop, queueMutex, workerVars, submitted, done>>

WaitWakesSpuriously ==
  /\ cpc = "asleep"
  /\ cpc' = "lockWait"
  /\ UNCHANGED <<tasks, active, stop, queueMutex, waitMutex, workerVars,
                 submitted, done>>

\* Lock waitMutex_, read activeTasks_ = 0, unlock, return.
WaitReturns ==
  /\ cpc = "lockWait"
  /\ waitMutex = Free
  /\ active = 0
  /\ cpc' = "waited"
  /\ UNCHANGED <<tasks, active, stop, queueMutex, waitMutex, workerVars,
                 submitted, done>>

CallerProceeds ==
  /\ cpc = "waited"
  /\ cpc' = "idle"
  /\ UNCHANGED <<tasks, active, stop, queueMutex, waitMutex, workerVars,
                 submitted, done>>

\* A destructor that throws the queue away.
DestructorStopsAndClears ==
  /\ cpc = "idle"
  /\ queueMutex = Free
  /\ stop' = TRUE
  /\ tasks' = <<>>
  /\ cpc' = "notifyStop"
  /\ UNCHANGED <<active, queueMutex, waitMutex, workerVars, submitted, done>>

\* ~ThreadPool(): lock queueMutex_, stop_ = true, unlock.
DestructorStops ==
  /\ cpc = "idle"
  /\ queueMutex = Free
  /\ stop' = TRUE
  /\ cpc' = "notifyStop"
  /\ UNCHANGED <<tasks, active, queueMutex, waitMutex, workerVars,
                 submitted, done>>

\* cv_.notify_all().
DestructorNotifies ==
  /\ cpc = "notifyStop"
  /\ pc' = [w \in Worker |-> IF pc[w] = "asleep" THEN "lock" ELSE pc[w]]
  /\ cpc' = "join"
  /\ UNCHANGED <<tasks, active, stop, queueMutex, waitMutex, current,
                 submitted, done>>

\* Every join() has returned.
DestructorJoins ==
  /\ cpc = "join"
  /\ \A w \in Worker : pc[w] = "exited"
  /\ cpc' = "destroyed"
  /\ UNCHANGED <<tasks, active, stop, queueMutex, waitMutex, workerVars,
                 submitted, done>>

\* The steps of a call already made: the caller does not stop inside one.
CallerStep ==
  \/ EnqueueCount
  \/ EnqueueNotify
  \/ WaitFindsActive
  \/ WaitBlocks
  \/ WaitReturns
  \/ CallerProceeds
  \/ DestructorNotifies
  \/ DestructorJoins

-----------------------------------------------------------------------------

\* The pool is gone: nothing more happens.
Gone == cpc = "destroyed" /\ UNCHANGED vars

Next ==
  \/ \E w \in Worker : WorkerStep(w) \/ WorkerWakesSpuriously(w)
  \/ \E t \in Task : EnqueuePush(t)
  \/ CallWait
  \/ DestructorStops
  \/ WaitWakesSpuriously
  \/ CallerStep
  \/ Gone

Spec == Init /\ [][Next]_vars

\* Threads are scheduled, closures return, and a mutex that is free again and
\* again is granted at last (strong fairness: spurious wake-ups of one thread
\* may take and give back a mutex for ever).  The caller may stop calling.
Fairness ==
  /\ \A w \in Worker : SF_vars(WorkerStep(w))
  /\ WF_vars(CallerStep)

FairSpec == Spec /\ Fairness

-----------------------------------------------------------------------------
(* Properties.                                                             *)

\* Shape of every variable.
TypeOK ==
  /\ tasks \in Seq(Task)
  /\ active \in Nat
  /\ stop \in BOOLEAN
  /\ queueMutex \in Worker \cup {Caller, Free}
  /\ waitMutex \in {Caller, Free}
  /\ pc \in [Worker -> WorkerPC]
  /\ current \in [Worker -> Task \cup {Free}]
  /\ cpc \in CallerPC
  /\ submitted \in SUBSET Task
  /\ done \in SUBSET Task

Queued == {tasks[i] : i \in 1..Len(tasks)}
Uncounted == {w \in Worker : pc[w] \in {"run", "count"}}

\* activeTasks_ (ThreadPool.h:43, :61) is exactly the closures in the queue
\* plus the workers that took one and have not decremented yet, except between
\* the push and the increment of an enqueue() in progress; so the unsigned
\* counter never wraps and reaches zero only when nothing is outstanding.
ActiveCountsOutstanding ==
  active + (IF cpc = "count" THEN 1 ELSE 0)
    = Len(tasks) + Cardinality(Uncounted)

\* A closure is in the queue once, or with one worker, or finished: none is
\* lost between the queue and a worker and none runs twice.
EachTaskOnce ==
  /\ \A i, j \in 1..Len(tasks) : tasks[i] = tasks[j] => i = j
  /\ \A v, w \in Worker : current[v] # Free /\ current[v] = current[w] => v = w
  /\ \A w \in Worker : current[w] \notin Queued \cup done
  /\ Queued \cap done = {}
  /\ submitted = (Queued \cup done \cup {current[w] : w \in Worker}) \ {Free}

\* The pool keeps TaskPool's promise: wait() (ThreadPool.h:65) is back only when
\* every closure enqueued before it has returned (the loader then reads what they
\* wrote with no other lock), and the destructor (:52) drops no closure.
Abstract == INSTANCE TaskPool WITH
  caller <- IF cpc \in {"waited", "destroyed"} THEN cpc ELSE "busy"

RefinesTaskPool == Abstract!Spec

\* A caller in wait() comes back: the notification under waitMutex_ cannot fall
\* between the test of activeTasks_ and the block.  The destructor ends: stop_ is
\* set under queueMutex_, so no worker sleeps through the only notify_all
\* (ThreadPool.h:43-46, :52-56, :65-68).
CallsReturn ==
  /\ cpc = "lockWait" ~> cpc = "waited"
  /\ cpc = "notifyStop" ~> cpc = "destroyed"
=============================================================================
