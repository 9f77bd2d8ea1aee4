------------------------- MODULE ThreadPool_proofs -------------------------
(* Proofs about ThreadPool: the outstanding count, the exactly-once hand-over *)
(* and the implementation of TaskPool, for every number of workers and tasks. *)
EXTENDS ThreadPool, FiniteSetTheorems, SequenceTheorems, TLAPS

(***************************************************************************)
(* The inductive invariant.  EachTaskOnce and ActiveCountsOutstanding need *)
(* to know which program points hold a closure and which hold a lock.      *)
(***************************************************************************)

\* A worker holds a closure exactly while it runs it.
HoldsWhenRunning == \A w \in Worker : current[w] # Free <=> pc[w] = "run"

\* Between the push and the count of an enqueue() no worker can pop; a worker
\* about to block still holds queueMutex_.
PushedNotCounted ==
  /\ cpc = "count" => queueMutex = Caller /\ tasks # <<>>
  /\ \A w \in Worker : pc[w] = "block" => queueMutex = w

\* The destructor is under way exactly when stop_ is set, and a worker only
\* leaves after stop_, with the queue empty.
Stopping ==
  /\ stop <=> cpc \in {"notifyStop", "join", "destroyed"}
  /\ \A w \in Worker : pc[w] = "exited" => stop /\ tasks = <<>>

Inv ==
  /\ TypeOK
  /\ ActiveCountsOutstanding
  /\ EachTaskOnce
  /\ HoldsWhenRunning
  /\ PushedNotCounted
  /\ Stopping

(***************************************************************************)
(* Lemmas about the operators.                                             *)
(***************************************************************************)

\* Uncounted is finite: its cardinality is a number and moves by one with it.
LEMMA UncountedFinite ==
  ASSUME TypeOK
  PROVE  IsFiniteSet(Uncounted) /\ Cardinality(Uncounted) \in Nat
<1>1. Uncounted \subseteq Worker
  BY DEF Uncounted
<1>2. IsFiniteSet(Uncounted)
  BY <1>1, PoolAssumption, FS_Subset
<1>3. QED
  BY <1>2, FS_CardinalityType

\* Popping the front: what is left keeps its order and its elements.
LEMMA TailFacts ==
  ASSUME NEW S, NEW s \in Seq(S), s # <<>>
  PROVE  /\ Head(s) \in S /\ Head(s) = s[1] /\ Len(s) >= 1
         /\ Tail(s) \in Seq(S)
         /\ Len(Tail(s)) = Len(s) - 1
         /\ \A i \in 1..(Len(s) - 1) : Tail(s)[i] = s[i + 1]
  OBVIOUS

\* Pushing at the back.
LEMMA AppendFacts ==
  ASSUME NEW S, NEW s \in Seq(S), NEW e \in S
  PROVE  /\ Append(s, e) \in Seq(S)
         /\ Len(Append(s, e)) = Len(s) + 1
         /\ Append(s, e)[Len(s) + 1] = e
         /\ \A i \in 1..Len(s) : Append(s, e)[i] = s[i]
  OBVIOUS

(***************************************************************************)
(* Init and every step establish Inv.                                      *)
(***************************************************************************)

LEMMA InitInv == Init => Inv
<1> SUFFICES ASSUME Init PROVE Inv
  OBVIOUS
<1>0. <<>> \in Seq(Task)
  BY EmptySeq
<1>1. TypeOK
  BY <1>0 DEF Init, TypeOK, WorkerPC, CallerPC
<1>2. Uncounted = {}
  BY DEF Init, Uncounted
<1>3. ActiveCountsOutstanding
  BY <1>2, FS_EmptySet DEF Init, ActiveCountsOutstanding
<1>4. EachTaskOnce
  BY DEF Init, EachTaskOnce, Queued
<1>5. HoldsWhenRunning /\ PushedNotCounted /\ Stopping
  BY DEF Init, HoldsWhenRunning, PushedNotCounted, Stopping
<1> QED
  BY <1>1, <1>3, <1>4, <1>5 DEF Inv

\* A step that leaves the queue, the count, the closures and the history alone,
\* and moves nobody in or out of the program points Inv speaks of.
LEMMA QuietStep ==
  ASSUME Inv, TypeOK',
         UNCHANGED <<tasks, active, stop, current, submitted, done>>,
         \A w \in Worker : \A l \in {"run", "count", "exited"} :
            pc[w] = l <=> pc'[w] = l,
         PushedNotCounted', cpc = "count" <=> cpc' = "count",
         cpc \in {"notifyStop", "join", "destroyed"}
           <=> cpc' \in {"notifyStop", "join", "destroyed"}
  PROVE  Inv'
<1>1. Uncounted' = Uncounted
  BY DEF Uncounted
<1>2. ActiveCountsOutstanding'
  BY <1>1 DEF Inv, ActiveCountsOutstanding
<1>3. EachTaskOnce'
  BY DEF Inv, EachTaskOnce, Queued
<1>4. HoldsWhenRunning' /\ Stopping'
  BY DEF Inv, HoldsWhenRunning, Stopping
<1> QED
  BY <1>2, <1>3, <1>4 DEF Inv

LEMMA TakesInv ==
  ASSUME Inv, NEW w \in Worker, WorkerTakes(w)
  PROVE  Inv'
<1> USE DEF WorkerTakes, Move, callerVars, TypeOK
<1>0. TypeOK /\ IsFiniteSet(Uncounted) /\ Cardinality(Uncounted) \in Nat
  BY UncountedFinite DEF Inv
<1>1. /\ Head(tasks) \in Task /\ Head(tasks) = tasks[1] /\ Len(tasks) \in Nat
      /\ Len(tasks) >= 1 /\ Len(tasks') = Len(tasks) - 1
      /\ tasks' \in Seq(Task)
      /\ \A i \in 1..(Len(tasks) - 1) : tasks'[i] = tasks[i + 1]
  BY <1>0, TailFacts
<1>2. TypeOK'
  BY <1>0, <1>1 DEF WorkerPC
<1>3. ActiveCountsOutstanding'
  <2>1. Uncounted' = Uncounted \cup {w} /\ w \notin Uncounted
    BY <1>0 DEF Uncounted
  <2>2. Cardinality(Uncounted') = Cardinality(Uncounted) + 1
    BY <2>1, <1>0, FS_AddElement
  <2> QED
    BY <1>0, <1>1, <2>2 DEF Inv, ActiveCountsOutstanding
<1>4. EachTaskOnce'
  <2>1. Queued' = Queued \ {Head(tasks)} /\ Head(tasks) \in Queued
    <3>1. Head(tasks) \in Queued
      BY <1>1 DEF Queued
    <3>2. ASSUME NEW t \in Queued' PROVE t \in Queued /\ t # Head(tasks)
      <4>1. PICK i \in 1..Len(tasks') : t = tasks'[i]
        BY DEF Queued
      <4>2. i + 1 \in 1..Len(tasks) /\ t = tasks[i + 1] /\ 1 \in 1..Len(tasks)
        BY <4>1, <1>1
      <4> QED
        BY <4>2, <1>1 DEF Queued, Inv, EachTaskOnce
    <3>3. ASSUME NEW t \in Queued, t # Head(tasks) PROVE t \in Queued'
      <4>1. PICK i \in 1..Len(tasks) : t = tasks[i]
        BY DEF Queued
      <4>2. i - 1 \in 1..Len(tasks') /\ tasks'[i - 1] = tasks[i]
        BY <4>1, <3>3, <1>1
      <4> QED
        BY <4>1, <4>2 DEF Queued
    <3> QED
      BY <3>1, <3>2, <3>3
  <2>2. \A i, j \in 1..Len(tasks') : tasks'[i] = tasks'[j] => i = j
    <3>1. \A i, j \in 1..Len(tasks') :
            i + 1 \in 1..Len(tasks) /\ j + 1 \in 1..Len(tasks)
      BY <1>1
    <3> QED
      BY <1>1, <3>1 DEF Inv, EachTaskOnce
  <2>3. /\ current'[w] = Head(tasks)
        /\ \A v \in Worker \ {w} : current'[v] = current[v]
        /\ current[w] = Free
    BY <1>0 DEF Inv, HoldsWhenRunning
  <2>4. \A v \in Worker : current[v] # Head(tasks)
    BY <2>1 DEF Inv, EachTaskOnce
  <2>5. \A u, v \in Worker : current'[u] # Free /\ current'[u] = current'[v] => u = v
    BY <2>3, <2>4 DEF Inv, EachTaskOnce
  <2>6. \A v \in Worker : current'[v] \notin Queued' \cup done'
    BY <2>1, <2>3 DEF Inv, EachTaskOnce
  <2> DEFINE Others == {current[v] : v \in Worker \ {w}}
  <2>7. {current'[v] : v \in Worker} = Others \cup {Head(tasks)}
    BY <2>3
  <2>8. {current[v] : v \in Worker} = Others \cup {Free}
    BY <2>3
  <2>9. Head(tasks) # Free /\ submitted' = submitted /\ done' = done
    BY <1>1, PoolAssumption
  <2>10. submitted' = (Queued' \cup done' \cup {current'[v] : v \in Worker}) \ {Free}
    <3>1. submitted = (Queued \cup done \cup (Others \cup {Free})) \ {Free}
      BY <2>8 DEF Inv, EachTaskOnce
    <3> HIDE DEF Others
    <3> QED
      BY <3>1, <2>1, <2>7, <2>9
  <2>11. Queued' \cap done' = {}
    BY <2>1 DEF Inv, EachTaskOnce
  <2> HIDE DEF WorkerTakes, Move, callerVars, TypeOK
  <2> QED
    BY <2>2, <2>5, <2>6, <2>10, <2>11 DEF EachTaskOnce
<1>5. HoldsWhenRunning'
  BY <1>0, <1>1, PoolAssumption DEF Inv, HoldsWhenRunning
<1>6. PushedNotCounted'
  BY PoolAssumption DEF Inv, PushedNotCounted
<1>7. Stopping'
  BY <1>0 DEF Inv, Stopping
<1> QED
  BY <1>2, <1>3, <1>4, <1>5, <1>6, <1>7 DEF Inv

LEMMA RunsInv ==
  ASSUME Inv, NEW w \in Worker, WorkerRuns(w)
  PROVE  Inv'
<1> USE DEF WorkerRuns, Move, callerVars, TypeOK
<1>0. TypeOK /\ current[w] \in Task
  BY DEF Inv, HoldsWhenRunning
<1>1. TypeOK'
  BY <1>0 DEF WorkerPC
<1>2. Uncounted' = Uncounted
  BY <1>0 DEF Uncounted
<1>3. ActiveCountsOutstanding'
  BY <1>2 DEF Inv, ActiveCountsOutstanding
<1>4. EachTaskOnce'
  <2>1. /\ current'[w] = Free /\ done' = done \cup {current[w]}
        /\ \A v \in Worker \ {w} : current'[v] = current[v]
        /\ Queued' = Queued
    BY <1>0 DEF Queued
  <2>2. \A u, v \in Worker : current'[u] # Free /\ current'[u] = current'[v] => u = v
    BY <2>1 DEF Inv, EachTaskOnce
  <2>3. Free \notin Queued' \cup done'
    BY <1>0, <2>1, PoolAssumption DEF Queued
  <2>4. \A v \in Worker : current'[v] \notin Queued' \cup done'
    BY <2>1, <2>3 DEF Inv, EachTaskOnce
  <2>5. Queued' \cap done' = {}
    BY <2>1 DEF Inv, EachTaskOnce
  <2>6. /\ {current'[v] : v \in Worker} = {current[v] : v \in Worker \ {w}} \cup {Free}
        /\ {current[v] : v \in Worker}
             = {current[v] : v \in Worker \ {w}} \cup {current[w]}
    BY <2>1
  <2>7. current[w] # Free
    BY <1>0, PoolAssumption
  <2>8. submitted' = (Queued' \cup done' \cup {current'[v] : v \in Worker}) \ {Free}
    BY <2>1, <2>6, <2>7 DEF Inv, EachTaskOnce
  <2> QED
    BY <2>1, <2>2, <2>4, <2>5, <2>8 DEF Inv, EachTaskOnce
<1>5. HoldsWhenRunning'
  BY <1>0 DEF Inv, HoldsWhenRunning
<1>6. PushedNotCounted' /\ Stopping'
  BY <1>0 DEF Inv, PushedNotCounted, Stopping
<1> QED
  BY <1>1, <1>3, <1>4, <1>5, <1>6 DEF Inv

LEMMA CountsInv ==
  ASSUME Inv, NEW w \in Worker, WorkerCounts(w)
  PROVE  Inv'
<1> USE DEF WorkerCounts, Move, callerVars, TypeOK
<1>0. TypeOK /\ IsFiniteSet(Uncounted) /\ Cardinality(Uncounted) \in Nat
  BY UncountedFinite DEF Inv
<1>1. Uncounted' = Uncounted \ {w} /\ w \in Uncounted
  BY <1>0 DEF Uncounted
<1>2. Cardinality(Uncounted') = Cardinality(Uncounted) - 1
      /\ Cardinality(Uncounted') \in Nat
  BY <1>0, <1>1, FS_RemoveElement, FS_CardinalityType
<1>3. Len(tasks) \in Nat /\ (tasks # <<>> => Len(tasks) >= 1)
  BY <1>0, EmptySeq, LenProperties
<1>4. active >= 1
  BY <1>0, <1>2, <1>3 DEF Inv, ActiveCountsOutstanding, PushedNotCounted
<1>5. TypeOK'
  BY <1>0, <1>4 DEF WorkerPC
<1>6. ActiveCountsOutstanding'
  BY <1>0, <1>2, <1>3 DEF Inv, ActiveCountsOutstanding
<1>7. EachTaskOnce'
  BY DEF Inv, EachTaskOnce, Queued
<1>8. HoldsWhenRunning' /\ PushedNotCounted' /\ Stopping'
  BY <1>0 DEF Inv, HoldsWhenRunning, PushedNotCounted, Stopping
<1> QED
  BY <1>5, <1>6, <1>7, <1>8 DEF Inv
LEMMA ExitsInv ==
  ASSUME Inv, NEW w \in Worker, WorkerExits(w)
  PROVE  Inv'
<1> USE DEF WorkerExits, Move, callerVars, TypeOK
<1>0. TypeOK /\ TypeOK'
  BY DEF Inv, WorkerPC
<1>1. Uncounted' = Uncounted
  BY <1>0 DEF Uncounted
<1>2. ActiveCountsOutstanding'
  BY <1>1 DEF Inv, ActiveCountsOutstanding
<1>3. EachTaskOnce'
  BY DEF Inv, EachTaskOnce, Queued
<1>4. HoldsWhenRunning' /\ PushedNotCounted' /\ Stopping'
  BY <1>0 DEF Inv, HoldsWhenRunning, PushedNotCounted, Stopping
<1> QED
  BY <1>0, <1>2, <1>3, <1>4 DEF Inv

LEMMA PushInv ==
  ASSUME Inv, NEW t \in Task, EnqueuePush(t)
  PROVE  Inv'
<1> USE DEF EnqueuePush, workerVars, TypeOK
<1>0. TypeOK
  BY DEF Inv
<1>1. /\ tasks' \in Seq(Task) /\ Len(tasks) \in Nat
      /\ Len(tasks') = Len(tasks) + 1
      /\ tasks'[Len(tasks) + 1] = t
      /\ \A i \in 1..Len(tasks) : tasks'[i] = tasks[i]
  BY <1>0, AppendFacts
<1>2. TypeOK'
  BY <1>0, <1>1 DEF CallerPC
<1>3. ActiveCountsOutstanding'
  <2>1. Uncounted' = Uncounted
    BY DEF Uncounted
  <2>2. Cardinality(Uncounted) \in Nat
    BY <1>0, UncountedFinite
  <2>3. active = Len(tasks) + Cardinality(Uncounted)
    BY <1>0, <1>1, <2>2 DEF Inv, ActiveCountsOutstanding
  <2>4. active' + 1 = Len(tasks') + Cardinality(Uncounted') /\ cpc' = "count"
    BY <1>0, <1>1, <2>1, <2>2, <2>3
  <2> QED
    BY <2>4 DEF ActiveCountsOutstanding
<1>4. EachTaskOnce'
  <2>1. Queued' = Queued \cup {t}
    <3>1. ASSUME NEW u \in Queued' PROVE u \in Queued \cup {t}
      <4>1. PICK i \in 1..Len(tasks') : u = tasks'[i]
        BY DEF Queued
      <4>2. i \in 1..Len(tasks) \/ i = Len(tasks) + 1
        BY <1>1
      <4> QED
        BY <4>1, <4>2, <1>1 DEF Queued
    <3>2. ASSUME NEW u \in Queued PROVE u \in Queued'
      <4>1. PICK i \in 1..Len(tasks) : u = tasks[i]
        BY DEF Queued
      <4>2. i \in 1..Len(tasks') /\ tasks'[i] = u
        BY <4>1, <1>1
      <4> QED
        BY <4>2 DEF Queued
    <3>3. t \in Queued'
      BY <1>1 DEF Queued
    <3> QED
      BY <3>1, <3>2, <3>3
  <2>2. t \notin Queued \cup done /\ \A v \in Worker : current[v] # t
    BY <1>0, PoolAssumption DEF Inv, EachTaskOnce
  <2>3. \A i \in 1..Len(tasks) : tasks[i] # t
    BY <2>2 DEF Queued
  <2>4. \A i, j \in 1..Len(tasks') : tasks'[i] = tasks'[j] => i = j
    <3>1. \A i \in 1..Len(tasks') : i \in 1..Len(tasks) \/ i = Len(tasks) + 1
      BY <1>1
    <3> QED
      BY <1>1, <2>3, <3>1 DEF Inv, EachTaskOnce
  <2>5. t # Free
    BY PoolAssumption
  <2> QED
    BY <2>1, <2>2, <2>4, <2>5 DEF Inv, EachTaskOnce
<1>5. HoldsWhenRunning'
  BY DEF Inv, HoldsWhenRunning
<1>6. PushedNotCounted'
  BY <1>1, EmptySeq, PoolAssumption DEF Inv, PushedNotCounted
<1>7. Stopping'
  BY DEF Inv, Stopping
<1> QED
  BY <1>2, <1>3, <1>4, <1>5, <1>6, <1>7 DEF Inv

LEMMA EnqueueCountInv ==
  ASSUME Inv, EnqueueCount
  PROVE  Inv'
<1> USE DEF EnqueueCount, workerVars, TypeOK
<1>0. TypeOK /\ TypeOK'
  BY PoolAssumption DEF Inv, CallerPC
<1>1. Uncounted' = Uncounted
  BY DEF Uncounted
<1>2. ActiveCountsOutstanding'
  <2>1. active + 1 = Len(tasks) + Cardinality(Uncounted)
    BY DEF Inv, ActiveCountsOutstanding
  <2>2. active' + 0 = Len(tasks') + Cardinality(Uncounted') /\ cpc' # "count"
    BY <1>0, <1>1, <2>1
  <2> QED
    BY <2>2 DEF ActiveCountsOutstanding
<1>3. EachTaskOnce'
  BY DEF Inv, EachTaskOnce, Queued
<1>4. HoldsWhenRunning' /\ PushedNotCounted' /\ Stopping'
  BY PoolAssumption DEF Inv, HoldsWhenRunning, PushedNotCounted, Stopping
<1> QED
  BY <1>0, <1>2, <1>3, <1>4 DEF Inv

LEMMA StopsInv ==
  ASSUME Inv, DestructorStops
  PROVE  Inv'
<1> USE DEF DestructorStops, workerVars, TypeOK
<1>0. TypeOK /\ TypeOK'
  BY DEF Inv, CallerPC
<1>1. Uncounted' = Uncounted
  BY DEF Uncounted
<1>2. ActiveCountsOutstanding'
  BY <1>1 DEF Inv, ActiveCountsOutstanding
<1>3. EachTaskOnce'
  BY DEF Inv, EachTaskOnce, Queued
<1>4. HoldsWhenRunning' /\ PushedNotCounted' /\ Stopping'
  BY DEF Inv, HoldsWhenRunning, PushedNotCounted, Stopping
<1> QED
  BY <1>0, <1>2, <1>3, <1>4 DEF Inv


LEMMA NextInv == Inv /\ [Next]_vars => Inv'
<1> SUFFICES ASSUME Inv, [Next]_vars PROVE Inv'
  OBVIOUS
<1> USE DEF Move, callerVars, workerVars, TypeOK, WorkerPC, CallerPC
<1>0. TypeOK /\ PushedNotCounted /\ Stopping
  BY DEF Inv
<1>1. ASSUME NEW w \in Worker, WorkerFindsNothing(w) PROVE Inv'
  <2>1. TypeOK' /\ PushedNotCounted'
    BY <1>0, <1>1, PoolAssumption DEF WorkerFindsNothing, PushedNotCounted
  <2> QED
    BY <1>0, <1>1, <2>1, QuietStep DEF WorkerFindsNothing
<1>2. ASSUME NEW w \in Worker, WorkerBlocks(w) PROVE Inv'
  <2>1. TypeOK' /\ PushedNotCounted'
    BY <1>0, <1>2, PoolAssumption DEF WorkerBlocks, PushedNotCounted
  <2> QED
    BY <1>0, <1>2, <2>1, QuietStep DEF WorkerBlocks
<1>3. ASSUME NEW w \in Worker, WorkerNotifies(w) PROVE Inv'
  <2>1. TypeOK' /\ PushedNotCounted'
    BY <1>0, <1>3 DEF WorkerNotifies, PushedNotCounted
  <2> QED
    BY <1>0, <1>3, <2>1, QuietStep DEF WorkerNotifies
<1>4. ASSUME NEW w \in Worker, WorkerWakesSpuriously(w) PROVE Inv'
  <2>1. TypeOK' /\ PushedNotCounted'
    BY <1>0, <1>4 DEF WorkerWakesSpuriously, PushedNotCounted
  <2> QED
    BY <1>0, <1>4, <2>1, QuietStep DEF WorkerWakesSpuriously
<1>5. CASE EnqueueNotify
  <2>1. TypeOK' /\ PushedNotCounted'
    BY <1>0, <1>5 DEF EnqueueNotify, PushedNotCounted
  <2> QED
    BY <1>0, <1>5, <2>1, QuietStep DEF EnqueueNotify
<1>6. CASE DestructorNotifies
  <2>1. TypeOK' /\ PushedNotCounted'
    BY <1>0, <1>6 DEF DestructorNotifies, PushedNotCounted
  <2> QED
    BY <1>0, <1>6, <2>1, QuietStep DEF DestructorNotifies
<1>7. CASE CallWait \/ WaitFindsActive \/ WaitBlocks \/ WaitWakesSpuriously
           \/ WaitReturns \/ CallerProceeds \/ DestructorJoins
  <2> USE DEF CallWait, WaitFindsActive, WaitBlocks, WaitWakesSpuriously,
              WaitReturns, CallerProceeds, DestructorJoins
  <2>1. TypeOK' /\ PushedNotCounted'
    BY <1>0, <1>7 DEF PushedNotCounted
  <2> QED
    BY <1>0, <1>7, <2>1, QuietStep
<1>8. CASE UNCHANGED vars
  <2>1. TypeOK' /\ PushedNotCounted'
    BY <1>0, <1>8 DEF vars, PushedNotCounted
  <2> QED
    BY <1>0, <1>8, <2>1, QuietStep DEF vars
<1> HIDE DEF Move, callerVars, workerVars, TypeOK, WorkerPC, CallerPC
<1>9. ASSUME NEW w \in Worker, WorkerStep(w) PROVE Inv'
  BY <1>1, <1>2, <1>3, <1>9, TakesInv, ExitsInv, RunsInv, CountsInv DEF WorkerStep
<1>10. CASE CallerStep
  BY <1>5, <1>6, <1>7, <1>10, EnqueueCountInv DEF CallerStep
<1> QED
  BY <1>4, <1>7, <1>8, <1>9, <1>10, PushInv, StopsInv DEF Next, Gone

(***************************************************************************)
(* The theorems.                                                           *)
(***************************************************************************)

\* Inv holds in every reachable state.
THEOREM Invariance == Spec => []Inv
<1>1. Init => Inv
  BY InitInv
<1>2. Inv /\ [Next]_vars => Inv'
  BY NextInv
<1> QED
  BY <1>1, <1>2, PTL DEF Spec

\* Every variable keeps its type; activeTasks_ never wraps below zero.
THEOREM TypeCorrect == Spec => []TypeOK
<1>1. Inv => TypeOK
  BY DEF Inv
<1> QED
  BY <1>1, Invariance, PTL

\* activeTasks_ counts the outstanding closures (ThreadPool.h:43, :61).
THEOREM CountCorrect == Spec => []ActiveCountsOutstanding
<1>1. Inv => ActiveCountsOutstanding
  BY DEF Inv
<1> QED
  BY <1>1, Invariance, PTL

\* No closure is lost or run twice between enqueue() and the worker loop.
THEOREM ExactlyOnce == Spec => []EachTaskOnce
<1>1. Inv => EachTaskOnce
  BY DEF Inv
<1> QED
  BY <1>1, Invariance, PTL

(***************************************************************************)
(* The implementation of TaskPool: only five actions show outside.         *)
(***************************************************************************)

\* With the outstanding count at zero nothing is queued and nobody runs.
LEMMA ZeroMeansDone ==
  ASSUME Inv, active = 0, cpc # "count"
  PROVE  done = submitted
<1>0. TypeOK /\ IsFiniteSet(Uncounted) /\ Cardinality(Uncounted) \in Nat
  BY UncountedFinite DEF Inv
<1>1. Len(tasks) \in Nat /\ Len(tasks) + Cardinality(Uncounted) = 0
  BY <1>0, LenProperties DEF Inv, ActiveCountsOutstanding, TypeOK
<1>2. Len(tasks) = 0 /\ Cardinality(Uncounted) = 0
  BY <1>0, <1>1
<1>3. Queued = {} /\ Uncounted = {}
  BY <1>0, <1>2, FS_EmptySet DEF Queued
<1>4. \A w \in Worker : current[w] = Free
  BY <1>3 DEF Inv, HoldsWhenRunning, Uncounted
<1>5. Free \notin done
  BY <1>0, PoolAssumption DEF TypeOK
<1> QED
  BY <1>3, <1>4, <1>5 DEF Inv, EachTaskOnce

\* All workers gone: the queue was empty when the first of them left.
LEMMA JoinedMeansDone ==
  ASSUME Inv, \A w \in Worker : pc[w] = "exited"
  PROVE  done = submitted
<1>0. TypeOK /\ tasks = <<>>
  BY PoolAssumption DEF Inv, Stopping
<1>1. Queued = {}
  BY <1>0 DEF Queued
<1>2. \A w \in Worker : current[w] = Free
  BY DEF Inv, HoldsWhenRunning
<1>3. Free \notin done
  BY <1>0, PoolAssumption DEF TypeOK
<1> QED
  BY <1>1, <1>2, <1>3 DEF Inv, EachTaskOnce

LEMMA StepSimulation == Inv /\ [Next]_vars => [Abstract!Next]_(Abstract!vars)
<1> SUFFICES ASSUME Inv, [Next]_vars PROVE [Abstract!Next]_(Abstract!vars)
  OBVIOUS
<1> USE DEF Move, callerVars, workerVars
<1>1. ASSUME NEW w \in Worker, WorkerRuns(w) PROVE [Abstract!Next]_(Abstract!vars)
  <2>1. current[w] \in Task /\ current[w] \in submitted \ done
    BY <1>1 DEF Inv, TypeOK, HoldsWhenRunning, EachTaskOnce, WorkerRuns
  <2>2. Abstract!Finish(current[w])
    BY <1>1, <2>1 DEF WorkerRuns, Abstract!Finish
  <2> QED
    BY <2>1, <2>2 DEF Abstract!Next
<1>2. ASSUME NEW w \in Worker, WorkerStep(w), ~WorkerRuns(w)
      PROVE  UNCHANGED Abstract!vars
  <2>1. submitted' = submitted /\ done' = done
    BY <1>2 DEF WorkerStep, WorkerFindsNothing, WorkerBlocks, WorkerTakes,
       WorkerExits, WorkerCounts, WorkerNotifies
  <2>2. cpc' = cpc \/ (cpc = "asleep" /\ cpc' = "lockWait")
    BY <1>2 DEF WorkerStep, WorkerFindsNothing, WorkerBlocks, WorkerTakes,
       WorkerExits, WorkerCounts, WorkerNotifies
  <2> QED
    BY <2>1, <2>2 DEF Abstract!vars
<1>3. ASSUME NEW w \in Worker, WorkerWakesSpuriously(w)
      PROVE  UNCHANGED Abstract!vars
  BY <1>3 DEF WorkerWakesSpuriously, Abstract!vars
<1>4. ASSUME NEW t \in Task, EnqueuePush(t) PROVE [Abstract!Next]_(Abstract!vars)
  <2>1. Abstract!Submit(t)
    BY <1>4 DEF EnqueuePush, Abstract!Submit
  <2> QED
    BY <2>1 DEF Abstract!Next
<1>5. CASE WaitReturns
  <2>1. done = submitted
    BY <1>5, ZeroMeansDone DEF WaitReturns
  <2>2. Abstract!ReturnFromWait
    BY <1>5, <2>1 DEF WaitReturns, Abstract!ReturnFromWait
  <2> QED
    BY <2>2 DEF Abstract!Next
<1>6. CASE CallerProceeds
  BY <1>6 DEF CallerProceeds, Abstract!Proceed, Abstract!Next
<1>7. CASE DestructorJoins
  <2>1. done = submitted
    BY <1>7, JoinedMeansDone DEF DestructorJoins
  <2>2. Abstract!Destroy
    BY <1>7, <2>1 DEF DestructorJoins, Abstract!Destroy
  <2> QED
    BY <2>2 DEF Abstract!Next
<1>8. CASE EnqueueCount \/ EnqueueNotify \/ CallWait \/ WaitFindsActive
           \/ WaitBlocks \/ WaitWakesSpuriously \/ DestructorStops
           \/ DestructorNotifies \/ UNCHANGED vars
  BY <1>8 DEF EnqueueCount, EnqueueNotify, CallWait, WaitFindsActive,
     WaitBlocks, WaitWakesSpuriously, DestructorStops, DestructorNotifies,
     vars, Abstract!vars
<1>9. ASSUME NEW w \in Worker, WorkerStep(w) PROVE [Abstract!Next]_(Abstract!vars)
  BY <1>1, <1>2, <1>9
<1>10. CASE CallerStep
  BY <1>5, <1>6, <1>7, <1>8, <1>10 DEF CallerStep
<1> QED
  BY <1>3, <1>4, <1>8, <1>9, <1>10 DEF Next, Gone

\* ThreadPool implements TaskPool: wait() returns only when every closure
\* enqueued before it has returned, and the destructor drops none.
THEOREM Implements == Spec => RefinesTaskPool
<1>1. Init => Abstract!Init
  BY DEF Init, Abstract!Init
<1>2. Inv /\ [Next]_vars => [Abstract!Next]_(Abstract!vars)
  BY StepSimulation
<1> QED
  BY <1>1, <1>2, Invariance, PTL DEF Spec, RefinesTaskPool, Abstract!Spec
=============================================================================
