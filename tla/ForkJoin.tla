------------------------------ MODULE ForkJoin ------------------------------
(***************************************************************************)
(* What AstcWorkerPool::run promises: every participant calls the function *)
(* of this run exactly once, run() is back only when all calls are over,   *)
(* and it hands back the first error reported, or zero.                    *)
(***************************************************************************)
CONSTANTS
  Participant,   \* the thread indices [0, threadCount_)
  Code           \* what the function may return, 0 being success

VARIABLES
  phase,         \* "idle", "running" or "returned"
  entered,       \* participants that have called the function of this run
  finished,      \* participants whose call is over and reported
  first,         \* first non-zero code reported in this run, or 0
  result         \* what the last run() returned

vars == <<phase, entered, finished, first, result>>

Init ==
  /\ phase = "idle"
  /\ entered = {} /\ finished = {}
  /\ first = 0 /\ result = 0

Start ==
  /\ phase = "idle"
  /\ phase' = "running"
  /\ entered' = {}
  /\ finished' = {}
  /\ first' = 0
  /\ UNCHANGED result

Enter(p) ==
  /\ phase = "running"
  /\ p \notin entered
  /\ entered' = entered \cup {p}
  /\ UNCHANGED <<phase, finished, first, result>>

Report(p, e) ==
  /\ phase = "running"
  /\ p \in entered \ finished
  /\ finished' = finished \cup {p}
  /\ first' = IF first = 0 THEN e ELSE first
  /\ UNCHANGED <<phase, entered, result>>

Join ==
  /\ phase = "running"
  /\ finished = Participant
  /\ phase' = "returned"
  /\ result' = first
  /\ UNCHANGED <<entered, finished, first>>

\* The caller has read the result.
Rest ==
  /\ phase = "returned"
  /\ phase' = "idle"
  /\ entered' = {}
  /\ finished' = {}
  /\ first' = 0
  /\ UNCHANGED result

Next ==
  \/ Start
  \/ \E p \in Participant : Enter(p) \/ \E e \in Code : Report(p, e)
  \/ Join
  \/ Rest

Spec == Init /\ [][Next]_vars
=============================================================================
