------------------------------ MODULE TaskPool ------------------------------
(***************************************************************************)
(* What metalrast::ThreadPool promises its caller, with no threads, locks  *)
(* or queues in sight: every task handed over runs to its end once, wait() *)
(* comes back only when nothing handed over is unfinished, and after the   *)
(* destructor nothing is left to run.                                      *)
(***************************************************************************)

CONSTANT Task       \* the closures the caller may hand over

VARIABLES
  submitted,        \* tasks handed to enqueue() so far
  done,             \* tasks whose body has returned
  caller            \* "busy", "waited" (just back from wait()) or "destroyed"

vars == <<submitted, done, caller>>

Init == submitted = {} /\ done = {} /\ caller = "busy"

Submit(t) ==
  /\ caller = "busy"
  /\ t \notin submitted
  /\ submitted' = submitted \cup {t}
  /\ UNCHANGED <<done, caller>>

Finish(t) ==
  /\ t \in submitted \ done
  /\ done' = done \cup {t}
  /\ UNCHANGED <<submitted, caller>>

ReturnFromWait ==
  /\ caller = "busy"
  /\ done = submitted
  /\ caller' = "waited"
  /\ UNCHANGED <<submitted, done>>

Proceed == caller = "waited" /\ caller' = "busy" /\ UNCHANGED <<submitted, done>>

Destroy ==
  /\ caller = "busy"
  /\ done = submitted
  /\ caller' = "destroyed"
  /\ UNCHANGED <<submitted, done>>

Next ==
  \/ \E t \in Task : Submit(t) \/ Finish(t)
  \/ ReturnFromWait
  \/ Proceed
  \/ Destroy

Spec == Init /\ [][Next]_vars
=============================================================================
