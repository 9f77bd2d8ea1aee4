---------------------------- MODULE BufferViews ----------------------------
(***************************************************************************)
(* Buffer views decoded on demand (src/src/GLBLoader.cpp, ensureBuffer-    *)
(* ViewDecoded; MeshRegistry.cpp has the same function): threads that need *)
(* the bytes of a compressed view decode it under the view's mutex, behind *)
(* an unlocked look at the pointer.  What the threads do with the views is *)
(* a list of steps each; SceneLoad and RegistryLoad say which lists and    *)
(* how a view is given back.                                               *)
(***************************************************************************)
EXTENDS Integers, Sequences, FiniteSets

CONSTANTS
  View,         \* buffer views
  Thread,       \* loader threads
  Compressed,   \* views with EXT_meshopt_compression
  Broken,       \* compressed views whose bytes do not decode
  None

ASSUME ViewsAssumption ==
  Compressed \subseteq View /\ Broken \subseteq Compressed
ASSUME NoViewAssumption == None \notin View \cup Thread
ASSUME ThreadsAssumption == IsFiniteSet(Thread)

VARIABLES
  data,         \* buffer_view.data: null, a decoded block, or a block freed since
  heap,         \* blocks malloc'd for the view and not yet freed
  users,        \* bvUsers
  mutex,        \* bvMutexes: the holder
  job,          \* the steps of the task a thread runs, <<>> without one
  at,           \* which of them is next
  sub           \* how far into it

viewVars == <<data, heap, users, mutex>>
threadVars == <<job, at, sub>>

InitViews ==
  /\ data = [v \in View |-> "null"]
  /\ heap = [v \in View |-> 0]
  /\ mutex = [v \in View |-> None]
  /\ job = [t \in Thread |-> <<>>]
  /\ at = [t \in Thread |-> 1]
  /\ sub = [t \in Thread |-> "start"]

Busy(t) == job[t] # <<>> /\ at[t] <= Len(job[t])
Op(t) == job[t][at[t]][1]
V(t) == job[t][at[t]][2]

Doing(t, op, part) == Busy(t) /\ Op(t) = op /\ sub[t] = part
Goto(t, part) == sub' = [sub EXCEPT ![t] = part] /\ UNCHANGED <<job, at>>
Advance(t) ==
  /\ at' = [at EXCEPT ![t] = @ + 1]
  /\ sub' = [sub EXCEPT ![t] = "start"]
  /\ UNCHANGED job

Begin(t, steps) ==
  /\ job' = [job EXCEPT ![t] = steps]
  /\ at' = [at EXCEPT ![t] = 1]
  /\ UNCHANGED sub

\* The task returns.
Return(t) ==
  /\ job[t] # <<>> /\ at[t] > Len(job[t])
  /\ job' = [job EXCEPT ![t] = <<>>]
  /\ UNCHANGED <<viewVars, at, sub>>

\* Raw, or there already as far as an unlocked read can tell?
Check(t) ==
  /\ Doing(t, "ensure", "start")
  /\ IF V(t) \notin Compressed \/ data[V(t)] # "null"
     THEN Advance(t)
     ELSE Goto(t, "lock")
  /\ UNCHANGED viewVars

Lock(t) ==
  /\ Doing(t, "ensure", "lock")
  /\ mutex[V(t)] = None
  /\ mutex' = [mutex EXCEPT ![V(t)] = t]
  /\ Goto(t, "decode")
  /\ UNCHANGED <<data, heap, users>>

\* Mutant: no second look under the mutex.
DecodeAgain(t) ==
  /\ Doing(t, "ensure", "decode")
  /\ IF V(t) \in Broken
     THEN UNCHANGED <<data, heap>>
     ELSE /\ data' = [data EXCEPT ![V(t)] = "decoded"]
          /\ heap' = [heap EXCEPT ![V(t)] = @ + 1]
  /\ mutex' = [mutex EXCEPT ![V(t)] = None]
  /\ Advance(t)
  /\ UNCHANGED users

\* "raced; done", bytes that do not decode, or a new block; then unlock.
Decode(t) ==
  /\ Doing(t, "ensure", "decode")
  /\ IF data[V(t)] # "null" \/ V(t) \in Broken
     THEN UNCHANGED <<data, heap>>
     ELSE /\ data' = [data EXCEPT ![V(t)] = "decoded"]
          /\ heap' = [heap EXCEPT ![V(t)] = @ + 1]
  /\ mutex' = [mutex EXCEPT ![V(t)] = None]
  /\ Advance(t)
  /\ UNCHANGED users

\* The accessor's elements are read, one after the other, until this step.
Read(t) ==
  /\ Doing(t, "read", "start")
  /\ Advance(t)
  /\ UNCHANGED viewVars

\* "positions", "uvs" and "indices" are reads that copy what they read.
Reads == {"read", "positions", "uvs", "indices"}
Reading(t, v) == Busy(t) /\ Op(t) \in Reads /\ V(t) = v
=============================================================================
