--------------------------- MODULE AstcWorkerPool ---------------------------
(***************************************************************************)
(* AstcWorkerPool (src/src/TextureLoader.cpp): threadCount_ participants,  *)
(* the caller being number 0, that run the same closure once per run().    *)
(* Workers are started once and signalled by an epoch number.              *)
(*                                                                         *)
(* The closure is astcenc_compress_image, a library call: it returns some  *)
(* code, and it is only certain to return once every participant has       *)
(* entered it (the comment at TextureLoader.cpp:324-330).                  *)
(*                                                                         *)
(* One action is one critical section of mu_; mu names the holder while a  *)
(* thread stands between a false predicate and the block that gives mu_    *)
(* back.  With one thread run() is a plain call and nothing here applies.  *)
(***************************************************************************)
EXTENDS Integers, FiniteSets

CONSTANTS
  N,          \* threadCount_
  Code,       \* values the closure may return, 0 being ASTCENC_SUCCESS
  MaxRuns     \* bound on the number of run() calls

ASSUME ThreadsAssumption == N \in Nat /\ N >= 2
ASSUME CodeAssumption == Code \subseteq Int /\ 0 \in Code
ASSUME RunsAssumption == MaxRuns \in Nat

VARIABLES
  mu,         \* holder of mu_, or -1
  fn,         \* fn_: the closure, named by the number of the run it is for
  epoch,      \* epoch_
  doneCount,  \* doneCount_
  failure,    \* failure_
  stop,       \* stop_
  pc,         \* where each worker is in workerLoop
  local,      \* localEpoch of each worker
  taken,      \* each worker's copy of fn_, 0 before the first
  code,       \* e, what the closure returned to each participant
  cpc,        \* where the caller is
  runs,       \* history: run() calls so far
  ret         \* what the last run() returned

poolVars == <<mu, fn, epoch, doneCount, failure, stop, pc, local, taken, code,
              cpc, runs, ret>>
shared == <<fn, epoch, doneCount, failure, stop>>
caller == <<cpc, runs, ret>>

Participant == 0..(N - 1)
PoolThread == 1..(N - 1)
None == -1

WorkerPC == {"lock", "block", "asleep", "call", "report", "exited"}
CallerPC == {"idle", "notify", "call", "report", "check", "asleep", "relock",
             "returned", "notifyStop", "join", "destroyed"}

PoolInit ==
  /\ mu = None
  /\ fn = 0 /\ epoch = 0 /\ doneCount = 0 /\ failure = 0 /\ stop = FALSE
  /\ pc = [t \in PoolThread |-> "lock"]
  /\ local = [t \in PoolThread |-> 0]
  /\ taken = [t \in PoolThread |-> 0]
  /\ code = [t \in Participant |-> 0]
  /\ cpc = "idle" /\ runs = 0 /\ ret = 0

-----------------------------------------------------------------------------
(* workerLoop(ti).                                                         *)

Move(t, to) == pc' = [pc EXCEPT ![t] = to]

\* Lock mu_; the predicate stop_ || epoch_ > localEpoch is false.
WorkerFindsNothing(t) ==
  /\ pc[t] = "lock" /\ mu = None
  /\ ~stop /\ epoch <= local[t]
  /\ mu' = t
  /\ Move(t, "block")
  /\ UNCHANGED <<shared, local, taken, code, caller>>

WorkerBlocks(t) ==
  /\ pc[t] = "block"
  /\ mu' = None
  /\ Move(t, "asleep")
  /\ UNCHANGED <<shared, local, taken, code, caller>>

WorkerWakesSpuriously(t) ==
  /\ pc[t] = "asleep"
  /\ Move(t, "lock")
  /\ UNCHANGED <<mu, shared, local, taken, code, caller>>

\* Lock, see a new epoch, copy fn_, unlock.
WorkerStarts(t) ==
  /\ pc[t] = "lock" /\ mu = None
  /\ ~stop /\ epoch > local[t]
  /\ local' = [local EXCEPT ![t] = epoch]
  /\ taken' = [taken EXCEPT ![t] = fn]
  /\ Move(t, "call")
  /\ UNCHANGED <<mu, shared, code, caller>>

\* if (stop_) return;
WorkerExits(t) ==
  /\ pc[t] = "lock" /\ mu = None
  /\ stop
  /\ Move(t, "exited")
  /\ UNCHANGED <<mu, shared, local, taken, code, caller>>

\* The closure returns e to the worker.
WorkerCallReturns(t, e) ==
  /\ pc[t] = "call"
  /\ code' = [code EXCEPT ![t] = e]
  /\ Move(t, "report")
  /\ UNCHANGED <<mu, shared, local, taken, caller>>

\* The first error seen wins.
FirstError(e) == IF e # 0 /\ failure = 0 THEN e ELSE failure

\* Lock, keep the first error, count, wake the caller if this was the last.
WorkerReports(t) ==
  /\ pc[t] = "report" /\ mu = None
  /\ failure' = FirstError(code[t])
  /\ doneCount' = doneCount + 1
  /\ cpc' = IF doneCount + 1 = N /\ cpc = "asleep" THEN "relock" ELSE cpc
  /\ Move(t, "lock")
  /\ UNCHANGED <<mu, fn, epoch, stop, local, taken, code, runs, ret>>

-----------------------------------------------------------------------------
(* run(fn) and the destructor, on the calling thread.                      *)

\* A run that keeps the error of the previous one.
RunDispatchesKeepingFailure ==
  /\ cpc = "idle" /\ mu = None
  /\ runs < MaxRuns
  /\ runs' = runs + 1
  /\ fn' = runs + 1
  /\ epoch' = epoch + 1
  /\ doneCount' = 0
  /\ cpc' = "notify"
  /\ UNCHANGED <<mu, failure, stop, pc, local, taken, code, ret>>

\* Lock, store the closure, open a new epoch, clear the counters, unlock.
RunDispatches ==
  /\ cpc = "idle" /\ mu = None
  /\ runs < MaxRuns
  /\ runs' = runs + 1
  /\ fn' = runs + 1
  /\ epoch' = epoch + 1
  /\ doneCount' = 0
  /\ failure' = 0
  /\ cpc' = "notify"
  /\ UNCHANGED <<mu, stop, pc, local, taken, code, ret>>

WakeAll == pc' = [t \in PoolThread |-> IF pc[t] = "asleep" THEN "lock" ELSE pc[t]]

\* One sleeper at most.
WakeOne ==
  \/ \E t \in PoolThread : pc[t] = "asleep" /\ Move(t, "lock")
  \/ (\A t \in PoolThread : pc[t] # "asleep") /\ UNCHANGED pc

RunNotifiesOne ==
  /\ cpc = "notify"
  /\ WakeOne
  /\ cpc' = "call"
  /\ UNCHANGED <<mu, shared, local, taken, code, runs, ret>>

\* startCv_.notify_all(); the caller goes on to fn_(0).
RunNotifies ==
  /\ cpc = "notify"
  /\ WakeAll
  /\ cpc' = "call"
  /\ UNCHANGED <<mu, shared, local, taken, code, runs, ret>>

RunCallReturns(e) ==
  /\ cpc = "call"
  /\ code' = [code EXCEPT ![0] = e]
  /\ cpc' = "report"
  /\ UNCHANGED <<mu, shared, pc, local, taken, runs, ret>>

\* Lock, keep the first error, count participant 0.
RunReports ==
  /\ cpc = "report" /\ mu = None
  /\ failure' = FirstError(code[0])
  /\ doneCount' = doneCount + 1
  /\ mu' = 0
  /\ cpc' = "check"
  /\ UNCHANGED <<fn, epoch, stop, pc, local, taken, code, runs, ret>>

\* doneCount_ == threadCount_ is false: block, which gives mu_ back.
RunBlocks ==
  /\ cpc = "check"
  /\ doneCount # N
  /\ mu' = None
  /\ cpc' = "asleep"
  /\ UNCHANGED <<shared, pc, local, taken, code, runs, ret>>

RunWakesSpuriously ==
  /\ cpc = "asleep"
  /\ cpc' = "relock"
  /\ UNCHANGED <<mu, shared, pc, local, taken, code, runs, ret>>

\* Woken: lock and test the predicate again.
RunRelocks ==
  /\ cpc = "relock" /\ mu = None
  /\ mu' = 0
  /\ cpc' = "check"
  /\ UNCHANGED <<shared, pc, local, taken, code, runs, ret>>

\* A wait with no predicate: the first wake-up, or none, ends it.
RunReturnsUnchecked ==
  /\ cpc = "check"
  /\ ret' = failure
  /\ mu' = None
  /\ cpc' = "returned"
  /\ UNCHANGED <<shared, pc, local, taken, code, runs>>

\* return failure_; the lock goes with the scope.
RunReturns ==
  /\ cpc = "check"
  /\ doneCount = N
  /\ ret' = failure
  /\ mu' = None
  /\ cpc' = "returned"
  /\ UNCHANGED <<shared, pc, local, taken, code, runs>>

\* The caller goes on after run().
CallerProceeds ==
  /\ cpc = "returned"
  /\ cpc' = "idle"
  /\ UNCHANGED <<mu, shared, pc, local, taken, code, runs, ret>>

\* ~AstcWorkerPool(): lock, stop_ = true, ++epoch_, unlock.
DestructorStops ==
  /\ cpc = "idle" /\ mu = None
  /\ stop' = TRUE
  /\ epoch' = epoch + 1
  /\ cpc' = "notifyStop"
  /\ UNCHANGED <<mu, fn, doneCount, failure, pc, local, taken, code, runs, ret>>

DestructorNotifies ==
  /\ cpc = "notifyStop"
  /\ WakeAll
  /\ cpc' = "join"
  /\ UNCHANGED <<mu, shared, local, taken, code, runs, ret>>

DestructorJoins ==
  /\ cpc = "join"
  /\ \A t \in PoolThread : pc[t] = "exited"
  /\ cpc' = "destroyed"
  /\ UNCHANGED <<mu, shared, pc, local, taken, code, runs, ret>>

-----------------------------------------------------------------------------

\* What the pool's own threads do.
WorkerStep(t) ==
  \/ WorkerFindsNothing(t)
  \/ WorkerBlocks(t)
  \/ WorkerStarts(t)
  \/ WorkerExits(t)
  \/ WorkerReports(t)

\* The rest of a run() or a destructor already entered, but for the closure.
RunStep ==
  \/ RunNotifies
  \/ RunReports
  \/ RunBlocks
  \/ RunRelocks
  \/ RunReturns
  \/ DestructorNotifies
  \/ DestructorJoins

\* The participants that have called the closure of the run in progress, and
\* those among them that have reported.
Phase ==
  IF cpc \in {"notify", "call", "report", "check", "asleep", "relock"} THEN "running"
  ELSE IF cpc = "returned" THEN "returned" ELSE "idle"

Entered ==
  {t \in PoolThread : Phase # "idle" /\ local[t] = epoch}
    \cup {t \in {0} : Phase # "idle" /\ cpc # "notify"}

Finished ==
  {t \in PoolThread : t \in Entered /\ pc[t] \notin {"call", "report"}}
    \cup {t \in {0} : cpc \in {"check", "asleep", "relock", "returned"}}

\* Only a closure that every participant has entered is certain to return.
CallReturns(t) ==
  /\ Participant \subseteq Entered
  /\ \E e \in Code : IF t = 0 THEN RunCallReturns(e) ELSE WorkerCallReturns(t, e)

PoolNext ==
  \/ \E t \in PoolThread :
       \/ WorkerStep(t)
       \/ WorkerWakesSpuriously(t)
       \/ \E e \in Code : WorkerCallReturns(t, e)
  \/ RunDispatches
  \/ \E e \in Code : RunCallReturns(e)
  \/ RunStep
  \/ RunWakesSpuriously
  \/ CallerProceeds
  \/ DestructorStops

PoolSpec == PoolInit /\ [][PoolNext]_poolVars

\* Threads are scheduled, a mutex free again and again is granted at last, and
\* the closure returns once all are in it.
PoolFairness ==
  /\ \A t \in PoolThread : SF_poolVars(WorkerStep(t))
  /\ SF_poolVars(RunStep)
  /\ \A t \in Participant : WF_poolVars(CallReturns(t))

-----------------------------------------------------------------------------
(* Properties.                                                             *)

PoolTypeOK ==
  /\ mu \in Participant \cup {None}
  /\ fn \in Nat /\ epoch \in Nat /\ doneCount \in 0..N /\ runs \in Nat
  /\ failure \in Code /\ ret \in Code
  /\ stop \in BOOLEAN
  /\ pc \in [PoolThread -> WorkerPC]
  /\ local \in [PoolThread -> Nat]
  /\ taken \in [PoolThread -> Nat]
  /\ code \in [Participant -> Code]
  /\ cpc \in CallerPC

\* The closure captures the caller's stack (encodeOne's image and mipAstc,
\* TextureLoader.cpp:537): a worker is inside it, or about to report it, only
\* while the caller is inside the run() that handed it over.
NoStaleClosure ==
  \A t \in PoolThread : pc[t] \in {"call", "report"} =>
     /\ taken[t] = runs
     /\ Phase = "running"

\* doneCount_ (:375, :381, :405) counts the reports of this run and of no
\* other, so it reaches threadCount_ only with the last of them.
DoneCountsReports == Phase = "running" => doneCount = Cardinality(Finished)

ForkJoinRun == INSTANCE ForkJoin WITH
  phase <- Phase,
  entered <- Entered,
  finished <- IF Phase = "idle" THEN {} ELSE Finished,
  first <- IF Phase = "idle" THEN 0 ELSE failure,
  result <- ret

\* run() is a fork-join (:361-363): every participant calls the closure exactly
\* once, with its own index; run() is back after the last report, with the first
\* error of this run, or 0.
RefinesForkJoin == ForkJoinRun!Spec
=============================================================================
