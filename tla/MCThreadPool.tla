---------------------------- MODULE MCThreadPool ----------------------------
(* Two workers and three tasks: a task can wait behind another, two workers *)
(* can race for the last one, and one can sleep while the other works.      *)
EXTENDS ThreadPool
=============================================================================
