------------------------ MODULE TextureLoader_proofs ------------------------
(***************************************************************************)
(* Proofs about the two parts of src/src/TextureLoader.cpp: first          *)
(* AstcWorkerPool, for any number of participants and runs, and the encode *)
(* loop that drives it (AstcEncoder); then the disk cache (TextureCache),  *)
(* for any number of processes, images, keys and crashes.                  *)
(***************************************************************************)
EXTENDS AstcEncoder, TextureCache, FiniteSetTheorems, TLAPS

Running == {"notify", "call", "report", "check", "asleep", "relock"}
Busy(t) == pc[t] \in {"call", "report"}

(***************************************************************************)
(* The inductive invariant: at most one run is under way, every worker is  *)
(* at most one epoch behind, and what doneCount_ counts is a set.          *)
(***************************************************************************)

\* Closures and epochs are numbered alike until the destructor opens its own.
Numbering ==
  /\ fn = runs
  /\ stop <=> cpc \in {"notifyStop", "join", "destroyed"}
  /\ ~stop => epoch = runs
  /\ \A t \in PoolThread : pc[t] = "exited" => stop

\* A busy worker is in the run in progress; between runs all have caught up.
Epochs ==
  /\ \A t \in PoolThread : local[t] <= epoch
  /\ \A t \in PoolThread :
        Busy(t) => cpc \in Running /\ local[t] = epoch /\ taken[t] = runs
  /\ cpc \in {"idle", "returned"} => \A t \in PoolThread : local[t] = epoch

\* Who has reported to the run in progress.
Reported ==
  {t \in PoolThread : local[t] = epoch /\ ~Busy(t)}
    \cup {t \in {0} : cpc \in {"check", "asleep", "relock"}}

Counting == cpc \in Running => doneCount = Cardinality(Reported)

Inv == PoolTypeOK /\ Numbering /\ Epochs /\ Counting

(***************************************************************************)
(* Lemmas.                                                                 *)
(***************************************************************************)

\* Participants are the N numbers from 0.
LEMMA Participants ==
  /\ IsFiniteSet(Participant) /\ Cardinality(Participant) = N
  /\ Participant = PoolThread \cup {0} /\ 0 \notin PoolThread
<1>1. /\ IsFiniteSet(0..(N - 1))
      /\ Cardinality(0..(N - 1)) = (N - 1) - 0 + 1
  BY FS_Interval, ThreadsAssumption
<1>2. Participant = PoolThread \cup {0} /\ 0 \notin PoolThread
  BY ThreadsAssumption DEF Participant, PoolThread
<1> QED
  BY <1>1, <1>2, ThreadsAssumption DEF Participant

\* A set of reports is finite, no larger than N, and full when it has N.
LEMMA ReportSet ==
  ASSUME NEW S \in SUBSET Participant
  PROVE  /\ IsFiniteSet(S) /\ Cardinality(S) \in 0..N
         /\ Cardinality(S) = N => S = Participant
         /\ \A p \in Participant \ S : Cardinality(S \cup {p}) = Cardinality(S) + 1
<1>1. IsFiniteSet(S) /\ Cardinality(S) <= N /\ (Cardinality(S) = N => S = Participant)
  BY Participants, FS_Subset
<1>2. Cardinality(S) \in Nat
  BY <1>1, FS_CardinalityType
<1>3. \A p \in Participant \ S : Cardinality(S \cup {p}) = Cardinality(S) + 1
  BY <1>1, FS_AddElement
<1> QED
  BY <1>1, <1>2, <1>3, ThreadsAssumption

LEMMA ReportedIsSet == Reported \subseteq Participant
  BY Participants DEF Reported

\* The first error is a code.
LEMMA FirstErrorType ==
  ASSUME PoolTypeOK, NEW e \in Code
  PROVE  FirstError(e) \in Code
  BY DEF PoolTypeOK, FirstError

LEMMA InitInv == PoolInit => Inv
<1> SUFFICES ASSUME PoolInit PROVE Inv
  OBVIOUS
<1>0. /\ pc \in [PoolThread -> WorkerPC] /\ cpc \in CallerPC
      /\ local \in [PoolThread -> Nat] /\ taken \in [PoolThread -> Nat]
      /\ code \in [Participant -> Code]
  BY CodeAssumption DEF PoolInit, WorkerPC, CallerPC
<1>1. /\ mu \in Participant \cup {None} /\ doneCount \in 0..N
      /\ fn \in Nat /\ epoch \in Nat /\ runs \in Nat
  BY ThreadsAssumption DEF PoolInit
<1>2. failure \in Code /\ ret \in Code /\ stop \in BOOLEAN
  BY CodeAssumption DEF PoolInit
<1>3. PoolTypeOK
  BY <1>0, <1>1, <1>2 DEF PoolTypeOK
<1>4. Numbering /\ Epochs /\ Counting
  BY DEF PoolInit, Numbering, Epochs, Counting, Busy, Running
<1> QED
  BY <1>3, <1>4 DEF Inv

(***************************************************************************)
(* Steps.                                                                  *)
(***************************************************************************)

\* A step that reports nothing and starts nothing.
LEMMA QuietStep ==
  ASSUME Inv, PoolTypeOK',
         UNCHANGED <<fn, epoch, doneCount, stop, local, runs>>,
         \A t \in PoolThread : Busy(t)' <=> Busy(t),
         \A t \in PoolThread : Busy(t) => taken'[t] = taken[t],
         \A t \in PoolThread : pc'[t] = "exited" => pc[t] = "exited" \/ stop,
         cpc \in Running <=> cpc' \in Running,
         cpc \in {"check", "asleep", "relock"} <=> cpc' \in {"check", "asleep", "relock"},
         cpc \in {"idle", "returned"} <=> cpc' \in {"idle", "returned"},
         cpc \in {"notifyStop", "join", "destroyed"}
           <=> cpc' \in {"notifyStop", "join", "destroyed"}
  PROVE  Inv'
<1>1. Numbering'
  BY DEF Inv, Numbering
<1>2. Epochs'
  BY DEF Inv, Epochs
<1>3. Reported' = Reported
  BY DEF Reported
<1>4. Counting'
  BY <1>3 DEF Inv, Counting
<1> QED
  BY <1>1, <1>2, <1>4 DEF Inv

LEMMA StartsInv ==
  ASSUME Inv, NEW t \in PoolThread, WorkerStarts(t)
  PROVE  Inv'
<1> USE DEF WorkerStarts, Move, shared, caller
<1>0. PoolTypeOK
  BY DEF Inv
<1>1. PoolTypeOK'
  BY <1>0 DEF PoolTypeOK, WorkerPC
<1>2. cpc \in Running
  BY <1>0 DEF Inv, PoolTypeOK, Numbering, Epochs, Running, CallerPC
<1>3. Numbering' /\ Epochs'
  BY <1>0, <1>2 DEF Inv, PoolTypeOK, Numbering, Epochs, Busy, Running
<1>4. Reported' = Reported
  BY <1>0 DEF PoolTypeOK, Reported, Busy
<1>5. Counting'
  BY <1>4 DEF Inv, Counting
<1> QED
  BY <1>1, <1>3, <1>5 DEF Inv

LEMMA WorkerReportsInv ==
  ASSUME Inv, NEW t \in PoolThread, WorkerReports(t)
  PROVE  Inv'
<1> USE DEF WorkerReports, Move
<1>0. PoolTypeOK /\ Busy(t) /\ cpc \in Running /\ local[t] = epoch
  BY DEF Inv, Epochs, Busy
<1>1. Reported' = Reported \cup {t} /\ t \notin Reported
  BY <1>0, Participants DEF PoolTypeOK, Reported, Busy, Running
<1>2. Cardinality(Reported') = doneCount + 1 /\ doneCount + 1 \in 0..N
  <2>1. t \in Participant
    BY Participants
  <2>2. Reported \in SUBSET Participant /\ Reported' \in SUBSET Participant
    BY <1>1, <2>1, ReportedIsSet
  <2>3. doneCount = Cardinality(Reported)
    BY <1>0 DEF Inv, Counting
  <2>4. Cardinality(Reported \cup {t}) = Cardinality(Reported) + 1
    BY <1>1, <2>1, <2>2, ReportSet
  <2>5. Cardinality(Reported') \in 0..N
    BY <2>2, ReportSet
  <2> QED
    BY <1>1, <2>3, <2>4, <2>5
<1>3. PoolTypeOK'
  <2>1. failure' \in Code
    BY <1>0, FirstErrorType, Participants DEF PoolTypeOK
  <2> QED
    BY <1>0, <1>2, <2>1 DEF PoolTypeOK, WorkerPC, CallerPC
<1>4. Numbering' /\ Epochs'
  BY <1>0 DEF Inv, PoolTypeOK, Numbering, Epochs, Busy, Running
<1>5. Counting'
  BY <1>2 DEF Counting
<1> QED
  BY <1>3, <1>4, <1>5 DEF Inv

LEMMA RunReportsInv ==
  ASSUME Inv, RunReports
  PROVE  Inv'
<1> USE DEF RunReports
<1>0. PoolTypeOK /\ cpc \in Running
  BY DEF Inv, Running
<1>1. Reported' = Reported \cup {0} /\ 0 \notin Reported
  BY Participants DEF Reported, Busy
<1>2. Cardinality(Reported') = doneCount + 1 /\ doneCount + 1 \in 0..N
  <2>1. 0 \in Participant
    BY Participants
  <2>2. Reported \in SUBSET Participant /\ Reported' \in SUBSET Participant
    BY <1>1, <2>1, ReportedIsSet
  <2>3. doneCount = Cardinality(Reported)
    BY <1>0 DEF Inv, Counting
  <2>4. Cardinality(Reported \cup {0}) = Cardinality(Reported) + 1
    BY <1>1, <2>1, <2>2, ReportSet
  <2>5. Cardinality(Reported') \in 0..N
    BY <2>2, ReportSet
  <2> QED
    BY <1>1, <2>3, <2>4, <2>5
<1>3. PoolTypeOK'
  <2>1. failure' \in Code /\ 0 \in Participant
    BY <1>0, FirstErrorType, Participants DEF PoolTypeOK
  <2> QED
    BY <1>0, <1>2, <2>1 DEF PoolTypeOK, CallerPC
<1>4. Numbering' /\ Epochs'
  BY <1>0 DEF Inv, Numbering, Epochs, Busy, Running
<1>5. Counting'
  BY <1>2 DEF Counting
<1> QED
  BY <1>3, <1>4, <1>5 DEF Inv

LEMMA DispatchesInv ==
  ASSUME Inv, RunDispatches
  PROVE  Inv'
<1> USE DEF RunDispatches
<1>0. PoolTypeOK
  BY DEF Inv
<1>1. PoolTypeOK'
  BY <1>0, CodeAssumption, ThreadsAssumption DEF PoolTypeOK, CallerPC
<1>2. \A t \in PoolThread : ~Busy(t) /\ local[t] = epoch /\ epoch' = epoch + 1
  BY DEF Inv, Epochs, Running
<1>3. Numbering' /\ Epochs'
  BY <1>0, <1>2 DEF Inv, PoolTypeOK, Numbering, Epochs, Busy, Running
<1>4. Reported' = {}
  BY <1>0, <1>2 DEF PoolTypeOK, Reported
<1>5. Counting'
  BY <1>4, FS_EmptySet DEF Counting
<1> QED
  BY <1>1, <1>3, <1>5 DEF Inv

\* doneCount_ = threadCount_ means that nobody is left in the closure.
LEMMA FullCount ==
  ASSUME Inv, cpc \in Running, doneCount = N
  PROVE  \A t \in PoolThread : local[t] = epoch /\ ~Busy(t)
<1>1. Reported = Participant
  BY ReportedIsSet, ReportSet DEF Inv, Counting
<1> QED
  BY <1>1, Participants DEF Reported

LEMMA ReturnsInv ==
  ASSUME Inv, RunReturns
  PROVE  Inv'
<1> USE DEF RunReturns, shared
<1>0. PoolTypeOK /\ \A t \in PoolThread : local[t] = epoch /\ ~Busy(t)
  BY FullCount DEF Inv, Running
<1>1. PoolTypeOK'
  BY <1>0 DEF PoolTypeOK, CallerPC
<1>2. Numbering' /\ Epochs' /\ Counting'
  BY <1>0 DEF Inv, Numbering, Epochs, Counting, Busy, Running
<1> QED
  BY <1>1, <1>2 DEF Inv

LEMMA StopsInv ==
  ASSUME Inv, DestructorStops
  PROVE  Inv'
<1> USE DEF DestructorStops
<1>0. PoolTypeOK
  BY DEF Inv
<1>1. PoolTypeOK'
  BY <1>0 DEF PoolTypeOK, CallerPC
<1>2. Numbering' /\ Epochs' /\ Counting'
  BY <1>0 DEF Inv, PoolTypeOK, Numbering, Epochs, Counting, Busy, Running
<1> QED
  BY <1>1, <1>2 DEF Inv
LEMMA NextInv == Inv /\ [PoolNext]_poolVars => Inv'
<1> SUFFICES ASSUME Inv, [PoolNext]_poolVars PROVE Inv'
  OBVIOUS
<1> USE DEF Move, shared, caller, Busy, Running
<1>0. PoolTypeOK
  BY DEF Inv
<1>1. ASSUME NEW t \in PoolThread,
             WorkerFindsNothing(t) \/ WorkerBlocks(t) \/ WorkerWakesSpuriously(t)
      PROVE  Inv'
  <2> USE DEF WorkerFindsNothing, WorkerBlocks, WorkerWakesSpuriously
  <2>1. PoolTypeOK'
    BY <1>0, <1>1, Participants DEF PoolTypeOK, WorkerPC
  <2>2. \A u \in PoolThread : /\ Busy(u)' <=> Busy(u)
                              /\ pc'[u] = "exited" => pc[u] = "exited"
    BY <1>0, <1>1 DEF PoolTypeOK
  <2> QED
    BY <1>1, <2>1, <2>2, QuietStep
<1>2. ASSUME NEW t \in PoolThread, WorkerExits(t) PROVE Inv'
  <2>1. PoolTypeOK'
    BY <1>0, <1>2 DEF WorkerExits, PoolTypeOK, WorkerPC
  <2>2. stop /\ \A u \in PoolThread : Busy(u)' <=> Busy(u)
    BY <1>0, <1>2 DEF WorkerExits, PoolTypeOK
  <2> QED
    BY <1>2, <2>1, <2>2, QuietStep DEF WorkerExits
<1>3. ASSUME NEW t \in PoolThread, NEW e \in Code, WorkerCallReturns(t, e)
      PROVE  Inv'
  <2>1. PoolTypeOK'
    BY <1>0, <1>3, Participants DEF WorkerCallReturns, PoolTypeOK, WorkerPC
  <2>2. \A u \in PoolThread : /\ Busy(u)' <=> Busy(u)
                              /\ pc'[u] = "exited" => pc[u] = "exited"
    BY <1>0, <1>3 DEF WorkerCallReturns, PoolTypeOK
  <2> QED
    BY <1>3, <2>1, <2>2, QuietStep DEF WorkerCallReturns
<1>4. CASE RunNotifies \/ DestructorNotifies
  <2> USE DEF RunNotifies, DestructorNotifies, WakeAll
  <2>1. PoolTypeOK'
    BY <1>0, <1>4 DEF PoolTypeOK, WorkerPC, CallerPC
  <2>2. \A u \in PoolThread : /\ Busy(u)' <=> Busy(u)
                              /\ pc'[u] = "exited" => pc[u] = "exited"
    BY <1>0, <1>4 DEF PoolTypeOK
  <2> QED
    BY <1>4, <2>1, <2>2, QuietStep
<1>5. ASSUME NEW e \in Code, RunCallReturns(e) PROVE Inv'
  <2>1. PoolTypeOK'
    BY <1>0, <1>5, Participants DEF RunCallReturns, PoolTypeOK, CallerPC
  <2> QED
    BY <1>5, <2>1, QuietStep DEF RunCallReturns
<1>6. CASE RunBlocks \/ RunRelocks \/ RunWakesSpuriously \/ CallerProceeds
           \/ DestructorJoins
  <2> USE DEF RunBlocks, RunRelocks, RunWakesSpuriously, CallerProceeds,
              DestructorJoins
  <2>1. PoolTypeOK'
    BY <1>0, <1>6, Participants DEF PoolTypeOK, CallerPC
  <2> QED
    BY <1>6, <2>1, QuietStep
<1>7. CASE UNCHANGED poolVars
  <2>1. PoolTypeOK'
    BY <1>0, <1>7 DEF poolVars, PoolTypeOK
  <2> QED
    BY <1>7, <2>1, QuietStep DEF poolVars
<1> HIDE DEF Move, shared, caller, Busy, Running
<1>8. ASSUME NEW t \in PoolThread, WorkerStep(t) PROVE Inv'
  BY <1>1, <1>2, <1>8, StartsInv, WorkerReportsInv DEF WorkerStep
<1>9. CASE RunStep
  BY <1>4, <1>6, <1>9, RunReportsInv, ReturnsInv DEF RunStep
<1> QED
  BY <1>1, <1>3, <1>5, <1>6, <1>7, <1>8, <1>9, DispatchesInv, StopsInv DEF PoolNext

(***************************************************************************)
(* The theorems.                                                           *)
(***************************************************************************)

\* Inv holds in every reachable state of the pool.
THEOREM Invariance == PoolSpec => []Inv
<1>1. PoolInit => Inv
  BY InitInv
<1>2. Inv /\ [PoolNext]_poolVars => Inv'
  BY NextInv
<1> QED
  BY <1>1, <1>2, PTL DEF PoolSpec

\* Every variable keeps its type; doneCount_ never passes threadCount_, the one
\* value doneCv_.wait looks for (TextureLoader.cpp:383).
THEOREM TypeCorrect == PoolSpec => []PoolTypeOK
<1>1. Inv => PoolTypeOK
  BY DEF Inv
<1> QED
  BY <1>1, Invariance, PTL

\* A worker is inside the closure only while the run() that lent it is.
THEOREM ClosureAlive == PoolSpec => []NoStaleClosure
<1>1. Inv => NoStaleClosure
  BY DEF Inv, Epochs, Busy, NoStaleClosure, Phase, Running
<1> QED
  BY <1>1, Invariance, PTL

(***************************************************************************)
(* run() implements ForkJoin.                                              *)
(***************************************************************************)

LEMMA StepSimulation ==
  Inv /\ [PoolNext]_poolVars => [ForkJoinRun!Next]_(ForkJoinRun!vars)
<1> SUFFICES ASSUME Inv, [PoolNext]_poolVars
             PROVE  [ForkJoinRun!Next]_(ForkJoinRun!vars)
  OBVIOUS
<1> USE DEF Move, shared, caller, Phase, Entered, Finished
<1>0. PoolTypeOK
  BY DEF Inv
<1>1. ASSUME NEW t \in PoolThread, WorkerStarts(t)
      PROVE  [ForkJoinRun!Next]_(ForkJoinRun!vars)
  <2>1. cpc \in Running /\ local[t] # epoch /\ t \in Participant
    BY <1>0, <1>1, Participants
    DEF WorkerStarts, Inv, PoolTypeOK, Numbering, Epochs, Running, CallerPC
  <2>2. t \notin Entered /\ Entered' = Entered \cup {t} /\ Finished' = Finished
    BY <1>0, <1>1, <2>1, Participants DEF WorkerStarts, PoolTypeOK, Running
  <2>3. ForkJoinRun!Enter(t)
    BY <1>1, <2>1, <2>2 DEF WorkerStarts, ForkJoinRun!Enter, Running
  <2> QED
    BY <2>1, <2>3 DEF ForkJoinRun!Next
<1>2. ASSUME NEW t \in PoolThread, WorkerReports(t)
      PROVE  [ForkJoinRun!Next]_(ForkJoinRun!vars)
  <2>1. cpc \in Running /\ local[t] = epoch /\ t \in Participant /\ code[t] \in Code
    BY <1>0, <1>2, Participants DEF WorkerReports, Inv, PoolTypeOK, Epochs, Busy
  <2>2. /\ t \in Entered \ Finished /\ Entered' = Entered
        /\ Finished' = Finished \cup {t}
    BY <1>0, <1>2, <2>1, Participants DEF WorkerReports, PoolTypeOK, Running
  <2>3. PICK e \in Code : e = code[t]
    BY <2>1
  <2>4. ForkJoinRun!Report(t, e)
    BY <1>2, <2>1, <2>2, <2>3 DEF WorkerReports, ForkJoinRun!Report, Running, FirstError
  <2> QED
    BY <2>1, <2>4 DEF ForkJoinRun!Next
<1>3. CASE RunReports
  <2>1. 0 \in Participant /\ code[0] \in Code
    BY <1>0, Participants DEF PoolTypeOK
  <2>2. 0 \in Entered \ Finished /\ Entered' = Entered /\ Finished' = Finished \cup {0}
    BY <1>3, Participants DEF RunReports
  <2>3. PICK e \in Code : e = code[0]
    BY <2>1
  <2>4. ForkJoinRun!Report(0, e)
    BY <1>3, <2>1, <2>2, <2>3 DEF RunReports, ForkJoinRun!Report, FirstError
  <2> QED
    BY <2>1, <2>4 DEF ForkJoinRun!Next
<1>4. CASE RunNotifies
  <2>1. 0 \in Participant /\ \A u \in PoolThread : Busy(u)' <=> Busy(u)
    BY <1>0, <1>4, Participants DEF RunNotifies, WakeAll, PoolTypeOK, Busy
  <2>2. 0 \notin Entered /\ Entered' = Entered \cup {0} /\ Finished' = Finished
    BY <1>4, <2>1, Participants DEF RunNotifies, Busy
  <2>3. ForkJoinRun!Enter(0)
    BY <1>4, <2>1, <2>2 DEF RunNotifies, ForkJoinRun!Enter
  <2> QED
    BY <2>1, <2>3 DEF ForkJoinRun!Next
<1>5. CASE RunDispatches
  <2>1. \A t \in PoolThread : local[t] = epoch /\ epoch' # epoch
    BY <1>0, <1>5 DEF RunDispatches, Inv, Epochs, PoolTypeOK
  <2>2. Entered' = {} /\ Finished' = {}
    BY <1>5, <2>1 DEF RunDispatches
  <2>3. ForkJoinRun!Start
    BY <1>5, <2>2 DEF RunDispatches, ForkJoinRun!Start
  <2> QED
    BY <2>3 DEF ForkJoinRun!Next
<1>6. CASE RunReturns
  <2>1. \A t \in PoolThread : local[t] = epoch /\ ~Busy(t)
    BY <1>6, FullCount DEF RunReturns, Running
  <2>2. Finished = Participant /\ Entered' = Entered /\ Finished' = Finished
    BY <1>6, <2>1, Participants DEF RunReturns, Busy
  <2>3. ForkJoinRun!Join
    BY <1>6, <2>2 DEF RunReturns, ForkJoinRun!Join
  <2> QED
    BY <2>3 DEF ForkJoinRun!Next
<1>7. CASE CallerProceeds
  <2>1. Entered' = {}
    BY <1>7 DEF CallerProceeds
  <2>2. ForkJoinRun!Rest
    BY <1>7, <2>1 DEF CallerProceeds, ForkJoinRun!Rest
  <2> QED
    BY <2>2 DEF ForkJoinRun!Next
<1>8. ASSUME NEW t \in PoolThread,
             \/ WorkerFindsNothing(t) \/ WorkerBlocks(t) \/ WorkerExits(t)
             \/ WorkerWakesSpuriously(t)
             \/ \E e \in Code : WorkerCallReturns(t, e)
      PROVE  UNCHANGED ForkJoinRun!vars
  <2> USE DEF WorkerFindsNothing, WorkerBlocks, WorkerExits, WorkerCallReturns,
              WorkerWakesSpuriously
  <2>1. \A u \in PoolThread : Busy(u)' <=> Busy(u)
    BY <1>0, <1>8 DEF PoolTypeOK, Busy
  <2>2. UNCHANGED <<epoch, local, cpc, failure, ret>>
    BY <1>8
  <2>3. Entered' = Entered /\ Finished' = Finished
    BY <2>1, <2>2 DEF Busy
  <2> QED
    BY <2>2, <2>3 DEF ForkJoinRun!vars
<1>9. CASE RunBlocks \/ RunRelocks \/ RunWakesSpuriously
           \/ (\E e \in Code : RunCallReturns(e)) \/ DestructorStops
           \/ DestructorJoins \/ UNCHANGED poolVars
  BY <1>9 DEF RunBlocks, RunRelocks, RunWakesSpuriously, RunCallReturns,
     DestructorStops, DestructorJoins, poolVars, ForkJoinRun!vars
<1>10. CASE DestructorNotifies
  BY <1>10 DEF DestructorNotifies, ForkJoinRun!vars
<1> HIDE DEF Move, shared, caller, Phase, Entered, Finished
<1>11. ASSUME NEW t \in PoolThread, WorkerStep(t)
       PROVE  [ForkJoinRun!Next]_(ForkJoinRun!vars)
  BY <1>1, <1>2, <1>8, <1>11 DEF WorkerStep
<1>12. CASE RunStep
  BY <1>3, <1>4, <1>6, <1>9, <1>10, <1>12 DEF RunStep
<1> QED
  BY <1>5, <1>7, <1>8, <1>9, <1>11, <1>12 DEF PoolNext

\* Every participant runs the closure once per run(), and run() comes back after
\* the last of them with the first error (TextureLoader.cpp:361-363).
THEOREM Implements == PoolSpec => RefinesForkJoin
<1>1. PoolInit => ForkJoinRun!Init
  BY DEF PoolInit, ForkJoinRun!Init, Phase, Entered
<1>2. Inv /\ [PoolNext]_poolVars => [ForkJoinRun!Next]_(ForkJoinRun!vars)
  BY StepSimulation
<1> QED
  BY <1>1, <1>2, Invariance, PTL DEF PoolSpec, RefinesForkJoin, ForkJoinRun!Spec

(***************************************************************************)
(* The encode loop is a legal caller of the pool, so the pool's theorems   *)
(* hold in it, and its contexts live as long as the compressions.          *)
(***************************************************************************)

\* Every behaviour of the encode loop is one of the pool.
THEOREM EncoderUsesPool == Spec => PoolSpec
<1>1. Init => PoolInit
  BY DEF Init
<1>2. [Next]_vars => [PoolNext]_poolVars
  <2> SUFFICES ASSUME Next \/ UNCHANGED vars PROVE [PoolNext]_poolVars
    OBVIOUS
  <2>1. CASE PoolStep
    BY <2>1 DEF PoolStep, PoolNext
  <2>2. CASE EncoderStep
    BY <2>2 DEF EncoderStep, SkipImage, GetContext, ContextUnavailable, EncodeMip,
       MipReturns, ResetContext, ResetFails, TeardownPool, FreeContexts, PoolNext
  <2>3. CASE Returned \/ UNCHANGED vars
    BY <2>3 DEF Returned, vars
  <2> QED
    BY <2>1, <2>2, <2>3 DEF Next
<1> QED
  BY <1>1, <1>2, PTL DEF Spec, PoolSpec

\* encodeOne stands at "run" exactly while the caller is inside run(), and from
\* the lookup of the context to the end of the image the context exists.
EncInv ==
  /\ image \in Nat
  /\ context \in [Block -> {"absent", "ready", "used"}]
  /\ epc = "run" <=> cpc \in Running \cup {"returned"}
  /\ epc \in {"mip", "run", "reset"} =>
        image \in Image /\ context[BlockOf[image]] # "absent"

LEMMA EncInvStep == EncInv /\ [Next]_vars => EncInv'
<1> SUFFICES ASSUME EncInv, Next \/ UNCHANGED vars PROVE EncInv'
  OBVIOUS
<1>0. \A i \in Image : BlockOf[i] \in Block
  BY DEF Block
<1>1. CASE PoolStep
  <2>1. UNCHANGED <<epc, image, context>>
    BY <1>1 DEF PoolStep, encVars
  <2>2. cpc \in Running \cup {"returned"} <=> cpc' \in Running \cup {"returned"}
    BY <1>1 DEF PoolStep, WorkerStep, WorkerFindsNothing, WorkerBlocks, WorkerStarts,
       WorkerExits, WorkerReports, WorkerWakesSpuriously, WorkerCallReturns,
       RunCallReturns, RunStep, RunNotifies, RunReports, RunBlocks, RunRelocks,
       RunReturns, RunWakesSpuriously, DestructorNotifies, DestructorJoins,
       caller, Running
  <2> QED
    BY <2>1, <2>2 DEF EncInv
<1>2. CASE SkipImage \/ ContextUnavailable \/ ResetFails
  BY <1>2 DEF SkipImage, ContextUnavailable, ResetFails, More, NextImage, EncInv,
     Image, poolVars, Running
<1>3. CASE GetContext
  BY <1>0, <1>3 DEF GetContext, More, EncInv, poolVars
<1>4. CASE EncodeMip
  BY <1>4 DEF EncodeMip, RunDispatches, EncInv, Running
<1>5. CASE MipReturns
  <2>1. /\ context' \in [Block -> {"absent", "ready", "used"}]
        /\ \A b \in Block : context[b] # "absent" => context'[b] # "absent"
    BY <1>5 DEF MipReturns, Touched, EncInv
  <2>2. cpc' = "idle" /\ epc = "run"
    BY <1>5 DEF MipReturns, CallerProceeds
  <2> QED
    BY <1>0, <1>5, <2>1, <2>2 DEF MipReturns, NextImage, EncInv, Image, Running
<1>6. CASE ResetContext
  BY <1>0, <1>6 DEF ResetContext, NextImage, EncInv, Image, poolVars, Running
<1>7. CASE TeardownPool
  BY <1>7 DEF TeardownPool, DestructorStops, EncInv, Running
<1>8. CASE FreeContexts
  BY <1>8 DEF FreeContexts, EncInv, poolVars, Running
<1>9. CASE Returned \/ UNCHANGED vars
  BY <1>9 DEF Returned, vars, encVars, poolVars, EncInv
<1> QED
  BY <1>1, <1>2, <1>3, <1>4, <1>5, <1>6, <1>7, <1>8, <1>9 DEF Next, EncoderStep

\* No compression overlaps a reset, the next image or the end of its context.
THEOREM ContextSafe == Spec => []ContextInUse
<1>1. Init => EncInv
  BY ImagesAssumption DEF Init, PoolInit, EncInv, Running
<1>2. EncInv /\ [Next]_vars => EncInv'
  BY EncInvStep
<1>3. Inv /\ EncInv => ContextInUse
  BY DEF Inv, Epochs, Busy, EncInv, ContextInUse
<1> QED
  BY <1>1, <1>2, <1>3, EncoderUsesPool, Invariance, PTL DEF Spec

-----------------------------------------------------------------------------
(* What a mip is compressed in.                                            *)

\* An image of this block size has failed before the one encodeAll is at.
FailedBefore(b) == \E j \in 1..(image - 1) : BlockOf[j] = b /\ out[j] = "failed"

\* A context is left used behind a failed image only, or until the reset that is
\* next; images from the present one on are not settled.
SpoilInv ==
  /\ image \in Nat \ {0}
  /\ out \in [Image -> {"none", "failed", "hit", "encoded", "spoiled"}]
  /\ \A i \in Image : i >= image => out[i] = "none"
  /\ \A b \in Block : context[b] = "used" =>
       FailedBefore(b) \/ (epc = "reset" /\ b = BlockOf[image])
  /\ epc \in {"mip", "run", "reset"} /\ spoiled => FailedBefore(BlockOf[image])
  /\ OnlyFailureSpoils

\* Settling an image keeps what is known of those before it.
LEMMA SettledStays ==
  ASSUME SpoilInv, image \in Image,
         NEW result \in {"failed", "hit", "encoded", "spoiled"}, NextImage(result),
         result = "spoiled" => FailedBefore(BlockOf[image])
  PROVE  /\ image' \in Nat \ {0}
         /\ out' \in [Image -> {"none", "failed", "hit", "encoded", "spoiled"}]
         /\ \A i \in Image : i >= image' => out'[i] = "none"
         /\ \A b \in Block : FailedBefore(b) => FailedBefore(b)'
         /\ \A b \in Block : result = "failed" /\ b = BlockOf[image] => FailedBefore(b)'
         /\ OnlyFailureSpoils'
<1>0. image \in Nat \ {0} /\ image' = image + 1 /\ out' = [out EXCEPT ![image] = result]
      /\ 1..(image' - 1) = 1..image
  BY DEF SpoilInv, NextImage
<1>1. \A i \in Image : out'[i] = IF i = image THEN result ELSE out[i]
  BY <1>0 DEF SpoilInv
<1>2. \A j \in 1..(image - 1) : j \in Image /\ j # image /\ j \in 1..image
  BY <1>0, ImagesAssumption DEF Image
<1>3. \A b \in Block : FailedBefore(b) => FailedBefore(b)'
  BY <1>0, <1>1, <1>2 DEF FailedBefore
<1>4. \A b \in Block : result = "failed" /\ b = BlockOf[image] => FailedBefore(b)'
  BY <1>0, <1>1 DEF FailedBefore
<1>5. out' \in [Image -> {"none", "failed", "hit", "encoded", "spoiled"}]
  BY <1>0 DEF SpoilInv
<1>6. \A i \in Image : i >= image' => out'[i] = "none"
  BY <1>0, <1>1, ImagesAssumption DEF SpoilInv, Image
<1>7. OnlyFailureSpoils'
  <2> SUFFICES ASSUME NEW i \in Image, out'[i] = "spoiled"
               PROVE  \E j \in 1..(i - 1) : BlockOf[j] = BlockOf[i] /\ out'[j] = "failed"
    BY DEF OnlyFailureSpoils
  <2>1. i <= image
    BY <1>0, <1>6, ImagesAssumption DEF Image
  <2>2. CASE i = image
    <3>1. PICK j \in 1..(image - 1) : BlockOf[j] = BlockOf[image] /\ out[j] = "failed"
      BY <1>1, <2>2 DEF FailedBefore
    <3> QED
      BY <1>1, <1>2, <2>2, <3>1
  <2>3. CASE i # image
    <3>1. PICK j \in 1..(i - 1) : BlockOf[j] = BlockOf[i] /\ out[j] = "failed"
      BY <1>1, <2>3 DEF SpoilInv, OnlyFailureSpoils
    <3>2. j # image /\ j \in Image
      BY <1>0, <2>1, <2>3, <3>1, ImagesAssumption DEF Image
    <3> QED
      BY <1>1, <3>1, <3>2
  <2> QED
    BY <2>2, <2>3
<1> QED
  BY <1>0, <1>3, <1>4, <1>5, <1>6, <1>7

LEMMA SpoilInvStep == EncInv /\ SpoilInv /\ [Next]_vars => SpoilInv'
<1> SUFFICES ASSUME EncInv, SpoilInv, Next \/ UNCHANGED vars PROVE SpoilInv'
  OBVIOUS
<1>0. \A i \in Image : BlockOf[i] \in Block
  BY DEF Block
<1>1. CASE PoolStep \/ Returned \/ UNCHANGED vars
  BY <1>1 DEF PoolStep, Returned, vars, encVars, SpoilInv, FailedBefore, OnlyFailureSpoils
<1>2. CASE SkipImage \/ ContextUnavailable \/ ResetFails
  <2>1. PICK result \in {"failed", "hit"} : NextImage(result)
    BY <1>2 DEF SkipImage, ContextUnavailable, ResetFails
  <2>2. /\ image \in Image /\ UNCHANGED context /\ epc' = "image"
        /\ epc = "reset" => ResetFails
        /\ ResetFails => NextImage("failed")
    BY <1>2, <2>1 DEF SkipImage, ContextUnavailable, ResetFails, More, EncInv, NextImage
  <2>3. /\ image' \in Nat \ {0}
        /\ out' \in [Image -> {"none", "failed", "hit", "encoded", "spoiled"}]
        /\ \A i \in Image : i >= image' => out'[i] = "none"
        /\ \A b \in Block : FailedBefore(b) => FailedBefore(b)'
        /\ \A b \in Block : ResetFails /\ b = BlockOf[image] => FailedBefore(b)'
        /\ OnlyFailureSpoils'
    BY <2>1, <2>2, SettledStays
  <2> QED
    BY <2>2, <2>3 DEF SpoilInv
<1>3. CASE GetContext
  BY <1>0, <1>3 DEF GetContext, More, SpoilInv, EncInv, FailedBefore, OnlyFailureSpoils
<1>4. CASE EncodeMip
  <2>1. UNCHANGED <<image, context, out>> /\ epc = "mip" /\ epc' = "run" /\ image \in Image
    BY <1>4 DEF EncodeMip, EncInv
  <2>2. \A b \in Block : context[b] = "used" => FailedBefore(b)
    BY <2>1 DEF SpoilInv
  <2>3. spoiled' => FailedBefore(BlockOf[image])
    <3>1. spoiled' => spoiled \/ context[BlockOf[image]] = "used"
      BY <1>4 DEF EncodeMip
    <3> QED
      BY <1>0, <2>1, <2>2, <3>1 DEF SpoilInv
  <2>4. (\A b \in Block : FailedBefore(b) => FailedBefore(b)')
        /\ (FailedBefore(BlockOf[image]) => FailedBefore(BlockOf[image])')
    BY <2>1 DEF FailedBefore
  <2>5. OnlyFailureSpoils'
    BY <2>1 DEF SpoilInv, OnlyFailureSpoils
  <2> QED
    BY <2>1, <2>2, <2>3, <2>4, <2>5 DEF SpoilInv
<1>5. CASE MipReturns
  <2>1. /\ image \in Image /\ epc = "run"
        /\ \A b \in Block : context'[b] = "used" => context[b] = "used" \/ b = BlockOf[image]
    BY <1>0, <1>5 DEF MipReturns, Touched, EncInv
  <2>2. CASE ret # 0
    <3>1. NextImage("failed") /\ epc' = "image"
      BY <1>5, <2>2 DEF MipReturns, NextImage
    <3>2. /\ image' \in Nat \ {0}
          /\ out' \in [Image -> {"none", "failed", "hit", "encoded", "spoiled"}]
          /\ \A i \in Image : i >= image' => out'[i] = "none"
          /\ \A b \in Block : FailedBefore(b) => FailedBefore(b)'
          /\ \A b \in Block : b = BlockOf[image] => FailedBefore(b)'
          /\ OnlyFailureSpoils'
      BY <2>1, <3>1, SettledStays
    <3>3. \A b \in Block : context[b] = "used" => FailedBefore(b)
      BY <2>1 DEF SpoilInv
    <3> QED
      BY <2>1, <3>1, <3>2, <3>3 DEF SpoilInv
  <2>3. CASE ret = 0
    BY <1>0, <1>5, <2>1, <2>3 DEF MipReturns, SpoilInv, FailedBefore, OnlyFailureSpoils
  <2> QED
    BY <2>2, <2>3
<1>6. CASE ResetContext
  <2>1. /\ image \in Image /\ epc = "reset" /\ epc' # "reset"
        /\ \A b \in Block : context'[b] = "used" => context[b] = "used" /\ b # BlockOf[image]
    BY <1>0, <1>6 DEF ResetContext, NextImage, EncInv
  <2>2. \A b \in Block : context'[b] = "used" => FailedBefore(b)
    BY <2>1 DEF SpoilInv
  <2>3. CASE LastMip
    <3>1. PICK result \in {"spoiled", "encoded"} :
            NextImage(result) /\ (result = "spoiled" => spoiled)
      BY <1>6, <2>3 DEF ResetContext
    <3>2. result = "spoiled" => FailedBefore(BlockOf[image])
      BY <2>1, <3>1 DEF SpoilInv
    <3>3. /\ image' \in Nat \ {0}
          /\ out' \in [Image -> {"none", "failed", "hit", "encoded", "spoiled"}]
          /\ \A i \in Image : i >= image' => out'[i] = "none"
          /\ \A b \in Block : FailedBefore(b) => FailedBefore(b)'
          /\ OnlyFailureSpoils'
      BY <2>1, <3>1, <3>2, SettledStays
    <3>4. epc' = "image"
      BY <3>1 DEF NextImage
    <3> QED
      BY <2>2, <3>3, <3>4 DEF SpoilInv
  <2>4. CASE ~LastMip
    BY <1>6, <2>1, <2>2, <2>4 DEF ResetContext, SpoilInv, FailedBefore, OnlyFailureSpoils
  <2> QED
    BY <2>3, <2>4
<1>7. CASE TeardownPool
  BY <1>7 DEF TeardownPool, SpoilInv, FailedBefore, OnlyFailureSpoils
<1>8. CASE FreeContexts
  BY <1>8 DEF FreeContexts, SpoilInv, FailedBefore, OnlyFailureSpoils
<1> QED
  BY <1>1, <1>2, <1>3, <1>4, <1>5, <1>6, <1>7, <1>8 DEF Next, EncoderStep

\* A spoiled image always has a failed one of its block size before it
\* (TextureLoader.cpp:478-480, :542-548).
THEOREM SpoiledBehindFailure == Spec => []OnlyFailureSpoils
<1>1. Init => EncInv /\ SpoilInv
  BY ImagesAssumption DEF Init, PoolInit, EncInv, Running, SpoilInv, OnlyFailureSpoils
<1>2. EncInv /\ SpoilInv /\ [Next]_vars => EncInv' /\ SpoilInv'
  BY EncInvStep, SpoilInvStep
<1>3. SpoilInv => OnlyFailureSpoils
  BY DEF SpoilInv
<1> QED
  BY <1>1, <1>2, <1>3, PTL DEF Spec

-----------------------------------------------------------------------------
(* The disk cache.                                                         *)


Writing(p) == place[p] \in {"write", "close", "rename"}

\* The name of the file p is staging.
Mine(p) == Staged(p, ctr[p] - 1)

-----------------------------------------------------------------------------
(* The inductive invariant.                                                *)

\* The counter is at most the number of images begun.
CounterOK ==
  \A p \in Pid : /\ place[p] # "lookup" => cur[p] <= NumTextures
                 /\ ctr[p] <= cur[p] - (IF Writing(p) THEN 0 ELSE 1)
                 /\ Writing(p) => ctr[p] >= 1

\* A file has one name; a stream is open on the file of its staging name.
OneName == \A m, n \in Name : dir[m] # Absent /\ dir[m] = dir[n] => m = n
StreamNamed == \A p \in Pid : IF Writing(p) THEN stream[p] # Absent /\ dir[Mine(p)] = stream[p]
                                            ELSE stream[p] = Absent

\* What is renamed is the image's whole blob.
ReadyIsWhole ==
  \A p \in Pid : place[p] = "rename" => bytes[stream[p]] = [image |-> cur[p], part |-> "whole"]

CacheInv == /\ TypeOK /\ CounterOK /\ OneName /\ StreamNamed
       /\ ReadyIsWhole /\ EntriesWhole /\ ServedRight

\* The name of a staged file, and of whom it tells.
LEMMA MineIsTmp ==
  ASSUME TypeOK, CounterOK, NEW p \in Pid, Writing(p)
  PROVE  /\ Mine(p) \in Tmp /\ Mine(p) \in Name
         /\ cur[p] \in Texture /\ Entry(p) \in Key /\ Entry(p) \in Name
<1>1. cur[p] \in Texture
  BY ImageAssumption DEF TypeOK, CounterOK, Writing, Texture
<1>2. Entry(p) \in Key
  BY <1>1, ImageAssumption DEF Entry
<1>3. ctr[p] - 1 \in 0..NumTextures
  BY ImageAssumption DEF TypeOK, CounterOK
<1> QED BY <1>1, <1>2, <1>3 DEF Mine, Staged, Tmp, Name

LEMMA MineApart ==
  ASSUME NEW p \in Pid, NEW q \in Pid, p # q
  PROVE  Mine(p) # Mine(q) /\ \A n : Mine(p) # Staged(q, n)
BY DEF Mine, Staged

\* The file of p's stream is no other's and no entry's.
LEMMA StreamApart ==
  ASSUME CacheInv, NEW p \in Pid, Writing(p)
  PROVE  /\ stream[p] \in File
         /\ \A q \in Pid : stream[q] = stream[p] => q = p
         /\ \A k \in Key : dir[k] # stream[p]
<1> USE DEF CacheInv
<1>1. stream[p] \in File /\ stream[p] # Absent /\ dir[Mine(p)] = stream[p]
  BY DEF StreamNamed, TypeOK
<1>2. Mine(p) \in Tmp /\ Mine(p) \in Name
  BY MineIsTmp
<1>3. ASSUME NEW q \in Pid, stream[q] = stream[p] PROVE q = p
  <2>1. Writing(q) /\ dir[Mine(q)] = stream[q]
    BY <1>1, <1>3 DEF StreamNamed
  <2>2. Mine(q) = Mine(p)
    BY <1>1, <1>2, <1>3, <2>1, MineIsTmp DEF OneName
  <2> QED BY <2>2, MineApart
<1>4. ASSUME NEW k \in Key, dir[k] = stream[p] PROVE FALSE
  <2>1. k = Mine(p)
    BY <1>1, <1>2, <1>4 DEF OneName, Name
  <2> QED BY <1>2, <2>1, NamesAssumption
<1> QED BY <1>1, <1>3, <1>4

LEMMA InitCacheInv == CacheInit => CacheInv
<1> SUFFICES ASSUME CacheInit PROVE CacheInv
  OBVIOUS
<1> USE ImageAssumption DEF CacheInit
<1>1. TypeOK
  <2>1. served \in [Pid -> [Texture -> Blob \cup {Absent}]]
    BY DEF Nothing
  <2>2. /\ dir \in [Name -> File \cup {Absent}] /\ bytes \in [File -> Blob \cup {Absent}]
        /\ stream \in [Pid -> File \cup {Absent}]
    OBVIOUS
  <2>3. /\ place \in [Pid -> {"lookup", "encode", "open", "write", "close", "rename"}]
        /\ cur \in [Pid -> 1..(NumTextures + 1)]
        /\ ctr \in [Pid -> 0..NumTextures]
        /\ crashes \in 0..MaxCrashes
    OBVIOUS
  <2> QED BY <2>1, <2>2, <2>3 DEF TypeOK
<1>2. CounterOK /\ StreamNamed /\ ReadyIsWhole
  BY DEF CounterOK, StreamNamed, ReadyIsWhole, Writing
<1>3. OneName
  BY DEF OneName
<1>4. EntriesWhole
  BY DEF EntriesWhole, Name
<1>5. ServedRight
  BY DEF ServedRight, Nothing
<1> QED BY <1>1, <1>2, <1>3, <1>4, <1>5 DEF CacheInv

-----------------------------------------------------------------------------
(* The steps.                                                              *)

\* Hit serves the image itself: a collision differs in size.
LEMMA HitIsRight ==
  ASSUME CacheInv, NEW p \in Pid, cur[p] \in Texture, Hit(p)
  PROVE  bytes[dir[Entry(p)]] = [image |-> cur[p], part |-> "whole"]
<1> DEFINE b == bytes[dir[Entry(p)]]
<1>1. Entry(p) \in Key /\ Entry(p) \in Name
  BY ImageAssumption DEF Entry, Name
<1>2. dir[Entry(p)] \in File /\ dir[Entry(p)] # Absent
  BY <1>1 DEF Hit, CacheInv, TypeOK
<1>3. b \in Blob /\ b.part = "whole" /\ KeyOf[b.image] = Entry(p)
  BY <1>1, <1>2 DEF CacheInv, TypeOK, EntriesWhole
<1>4. DimsOf[b.image] = DimsOf[cur[p]]
  BY DEF Hit
<1> HIDE DEF b
<1>5. b.image = cur[p]
  BY <1>3, <1>4, CollisionAssumption DEF Blob, Entry
<1>6. b = [image |-> b.image, part |-> b.part]
  BY <1>3 DEF Blob
<1> QED BY <1>3, <1>5, <1>6 DEF b

\* The steps that touch no file.
LEMMA QuietSteps ==
  ASSUME CacheInv, NEW p \in Pid,
         \/ Lookup(p) \/ EncodeFails(p) \/ Encode(p) \/ OpenFails(p)
  PROVE  CacheInv'
<1> USE ImageAssumption DEF CacheInv
<1>0. cur[p] \in Texture /\ UNCHANGED <<dir, bytes, stream, crashes>>
  BY DEF Lookup, EncodeFails, Encode, OpenFails, At, TypeOK, Texture
<1>1. place[p] \in {"lookup", "encode", "open"}
  BY DEF Lookup, EncodeFails, Encode, OpenFails, At
<1>2. /\ place' \in [Pid -> {"lookup", "encode", "open", "write", "close", "rename"}]
      /\ \A q \in Pid : q # p => place'[q] = place[q] /\ cur'[q] = cur[q] /\ ctr'[q] = ctr[q]
      /\ \/ place'[p] \in {"encode", "open"} /\ cur'[p] = cur[p] /\ ctr'[p] = ctr[p]
         \/ /\ place'[p] = "lookup" /\ cur'[p] = cur[p] + 1
            /\ ctr'[p] = ctr[p] \/ ctr'[p] = ctr[p] + 1
      /\ cur' \in [Pid -> 1..(NumTextures + 1)]
      /\ \E c \in {0, 1} : ctr' = [ctr EXCEPT ![p] = @ + c]
  <2>1. CASE Lookup(p)
    <3>1. ctr' = [ctr EXCEPT ![p] = @ + 0] /\ ctr' = ctr
      BY <2>1 DEF Lookup, TypeOK
    <3>2. CASE Hit(p)
      <4>1. /\ cur' = [cur EXCEPT ![p] = @ + 1]
            /\ place' = [place EXCEPT ![p] = "lookup"]
        BY <2>1, <3>2 DEF Lookup, NextTexture
      <4> QED BY <1>0, <3>1, <4>1 DEF TypeOK, Texture
    <3>3. CASE ~Hit(p)
      <4>1. cur' = cur /\ place' = [place EXCEPT ![p] = "encode"]
        BY <2>1, <3>3 DEF Lookup, Goto
      <4> QED BY <1>0, <3>1, <4>1 DEF TypeOK, Texture
    <3> QED BY <3>2, <3>3
  <2>2. CASE EncodeFails(p)
    BY <1>0, <2>2 DEF EncodeFails, TypeOK, NextTexture, Texture
  <2>3. CASE Encode(p)
    BY <1>0, <2>3 DEF Encode, TypeOK, Goto, Texture
  <2>4. CASE OpenFails(p)
    BY <1>0, <2>4 DEF OpenFails, TypeOK, NextTexture, Texture
  <2> QED BY <2>1, <2>2, <2>3, <2>4
<1>3. \/ UNCHANGED served
      \/ served' = [served EXCEPT ![p][cur[p]] = [image |-> cur[p], part |-> "whole"]]
  <2>1. CASE Lookup(p)
    BY <1>0, <2>1, HitIsRight DEF Lookup
  <2>2. CASE EncodeFails(p) \/ Encode(p) \/ OpenFails(p)
    BY <2>2 DEF EncodeFails, Encode, OpenFails
  <2> QED BY <2>1, <2>2
<1>4. served' \in [Pid -> [Texture -> Blob \cup {Absent}]] /\ ServedRight'
  <2>1. CASE UNCHANGED served
    BY <2>1 DEF ServedRight, TypeOK
  <2>2. CASE served' = [served EXCEPT ![p][cur[p]] = [image |-> cur[p], part |-> "whole"]]
    <3>1. [image |-> cur[p], part |-> "whole"] \in Blob
      BY <1>0 DEF Blob
    <3>2. served' \in [Pid -> [Texture -> Blob \cup {Absent}]]
      BY <1>0, <2>2, <3>1 DEF TypeOK
    <3>3. \A q \in Pid, i \in Texture :
            served'[q][i] = IF q = p /\ i = cur[p] THEN [image |-> cur[p], part |-> "whole"]
                                              ELSE served[q][i]
      BY <1>0, <2>2 DEF TypeOK
    <3> QED BY <3>2, <3>3 DEF ServedRight
  <2> QED BY <1>3, <2>1, <2>2
<1>5. ctr' \in [Pid -> 0..NumTextures] /\ CounterOK'
  <2>1. \A q \in Pid : ctr'[q] <= cur'[q] - (IF Writing(q)' THEN 0 ELSE 1)
                       /\ (place'[q] # "lookup" => cur'[q] <= NumTextures)
                       /\ (Writing(q)' => ctr'[q] >= 1)
    BY <1>0, <1>1, <1>2 DEF CounterOK, TypeOK, Writing, Texture
  <2>2. \A q \in Pid : ctr'[q] <= NumTextures
    BY <1>2, <2>1 DEF Writing, TypeOK
  <2>3. ctr' \in [Pid -> Nat]
    BY <1>2 DEF TypeOK
  <2>4. ctr' \in [Pid -> 0..NumTextures]
    BY <2>2, <2>3
  <2> QED BY <2>1, <2>4 DEF CounterOK
<1>6. TypeOK'
  BY <1>0, <1>2, <1>4, <1>5 DEF TypeOK
<1>7. OneName' /\ EntriesWhole'
  BY <1>0 DEF OneName, EntriesWhole
<1>8. \A q \in Pid : Writing(q)' = Writing(q) /\ (Writing(q) => Mine(q)' = Mine(q))
  BY <1>1, <1>2 DEF Writing, Mine, Staged, Entry
<1>9. StreamNamed'
  BY <1>0, <1>8 DEF StreamNamed
<1>10. ReadyIsWhole'
  BY <1>0, <1>2 DEF ReadyIsWhole
<1> QED BY <1>4, <1>5, <1>6, <1>7, <1>9, <1>10

LEMMA OpenStep ==
  ASSUME CacheInv, NEW p \in Pid, OpenStaged(p)
  PROVE  CacheInv'
<1> USE ImageAssumption DEF CacheInv
<1> DEFINE name == Staged(p, ctr[p])
<1>0. place[p] = "open" /\ cur[p] \in Texture /\ ctr[p] \in 0..(NumTextures - 1)
  <2>1. place[p] = "open" /\ cur[p] <= NumTextures /\ ~Writing(p)
    BY DEF OpenStaged, At, Writing
  <2>2. cur[p] \in 1..(NumTextures + 1) /\ ctr[p] \in 0..NumTextures
    BY DEF TypeOK
  <2>3. ctr[p] <= cur[p] - 1
    BY <2>1 DEF CounterOK
  <2> QED BY <2>1, <2>2, <2>3 DEF Texture
<1>1. name \in Tmp /\ name \in Name /\ name \notin Key
  BY <1>0, NamesAssumption DEF Staged, Entry, Tmp, Name
<1>2. PICK f \in IF dir[name] = Absent THEN NewFile ELSE {dir[name]} :
        /\ dir' = [dir EXCEPT ![name] = f]
        /\ stream' = [stream EXCEPT ![p] = f]
        /\ bytes' = [bytes EXCEPT ![f] = Absent]
  BY DEF OpenStaged
<1>3. /\ ctr' = [ctr EXCEPT ![p] = @ + 1]
      /\ place' = [place EXCEPT ![p] = "write"]
      /\ UNCHANGED <<cur, served, crashes>>
  BY DEF OpenStaged, Goto
<1>4. f \in File /\ f # Absent /\ \A n \in Name : dir[n] = f => n = name
  <2>1. CASE dir[name] = Absent
    BY <1>2, <2>1, NamesAssumption DEF NewFile, Unused
  <2>2. CASE dir[name] # Absent
    BY <1>1, <1>2, <2>2 DEF OneName, TypeOK
  <2> QED BY <2>1, <2>2
<1>5. \A q \in Pid : stream[q] # f
  <2>1. CASE dir[name] = Absent
    BY <1>2, <2>1 DEF NewFile, Unused
  <2>2. CASE dir[name] # Absent
    <3>1. ASSUME NEW q \in Pid, stream[q] = f PROVE FALSE
      <4>1. Writing(q) /\ q # p
        BY <1>0, <1>4, <3>1 DEF StreamNamed, Writing
      <4>2. Mine(q) = name
        BY <1>4, <3>1, <4>1, MineIsTmp DEF StreamNamed
      <4> QED BY <4>1, <4>2 DEF Mine, Staged
    <3> QED BY <3>1
  <2> QED BY <2>1, <2>2
<1> HIDE DEF name
<1>6. TypeOK'
  <2>1. /\ dir' \in [Name -> File \cup {Absent}]
        /\ bytes' \in [File -> Blob \cup {Absent}]
        /\ stream' \in [Pid -> File \cup {Absent}]
    BY <1>2, <1>4 DEF TypeOK
  <2>2. ctr' \in [Pid -> 0..NumTextures]
    BY <1>0, <1>3 DEF TypeOK
  <2>3. place' \in [Pid -> {"lookup", "encode", "open", "write", "close", "rename"}]
    BY <1>3 DEF TypeOK
  <2> QED BY <1>3, <2>1, <2>2, <2>3 DEF TypeOK
<1>7. CounterOK'
  BY <1>0, <1>3 DEF CounterOK, TypeOK, Writing, Texture
<1>8. OneName'
  BY <1>1, <1>2, <1>4 DEF OneName, TypeOK
<1>9. StreamNamed'
  <2>1. Mine(p)' = name /\ Writing(p)'
    BY <1>0, <1>3 DEF Mine, Staged, Entry, name, Writing, TypeOK
  <2>2. dir'[name] = f /\ stream'[p] = f
    BY <1>1, <1>2 DEF TypeOK
  <2>3. ASSUME NEW q \in Pid, q # p, Writing(q)
        PROVE  stream'[q] # Absent /\ dir'[Mine(q)] = stream'[q] /\ Mine(q)' = Mine(q)
    <3>1. Mine(q) # name
      BY <2>3 DEF Mine, Staged, name
    <3>2. Mine(q)' = Mine(q) /\ stream'[q] = stream[q]
      BY <1>2, <1>3, <2>3 DEF Mine, Staged, Entry, TypeOK
    <3>3. dir'[Mine(q)] = dir[Mine(q)]
      BY <1>2, <2>3, <3>1, MineIsTmp DEF TypeOK
    <3> QED BY <2>3, <3>2, <3>3 DEF StreamNamed
  <2>4. \A q \in Pid : q # p => /\ Writing(q)' = Writing(q)
                               /\ stream'[q] = stream[q]
    BY <1>2, <1>3 DEF Writing, TypeOK
  <2>5. ASSUME NEW q \in Pid
        PROVE  IF Writing(q)' THEN stream'[q] # Absent /\ dir'[Mine(q)'] = stream'[q]
                              ELSE stream'[q] = Absent
    <3>1. CASE q = p
      BY <1>4, <2>1, <2>2, <3>1
    <3>2. CASE q # p /\ Writing(q)
      BY <2>3, <2>4, <3>2
    <3>3. CASE q # p /\ ~Writing(q)
      BY <2>4, <3>3 DEF StreamNamed
    <3> QED BY <3>1, <3>2, <3>3
  <2> QED BY <2>5 DEF StreamNamed
<1>10. ReadyIsWhole'
  <2>1. ASSUME NEW q \in Pid, place'[q] = "rename"
        PROVE  bytes'[stream'[q]] = [image |-> cur'[q], part |-> "whole"]
    <3>1. q # p /\ place[q] = "rename" /\ stream'[q] = stream[q] /\ cur'[q] = cur[q]
      BY <1>2, <1>3, <2>1 DEF TypeOK
    <3>2. stream[q] # f
      BY <1>5
    <3>3. bytes'[stream[q]] = bytes[stream[q]]
      BY <1>2, <1>4, <3>2 DEF TypeOK
    <3> QED BY <3>1, <3>3 DEF ReadyIsWhole
  <2> QED BY <2>1 DEF ReadyIsWhole
<1>11. EntriesWhole'
  <2>1. ASSUME NEW k \in Key, dir'[k] # Absent
        PROVE  bytes'[dir'[k]] # Absent /\ bytes'[dir'[k]].part = "whole"
                 /\ KeyOf[bytes'[dir'[k]].image] = k
    <3>1. k # name /\ k \in Name
      BY <1>1 DEF Name
    <3>2. dir'[k] = dir[k] /\ dir[k] # f /\ dir[k] \in File
      BY <1>2, <1>4, <2>1, <3>1 DEF TypeOK
    <3>3. bytes'[dir[k]] = bytes[dir[k]]
      BY <1>2, <3>2 DEF TypeOK
    <3> QED BY <2>1, <3>2, <3>3 DEF EntriesWhole
  <2> QED BY <2>1 DEF EntriesWhole
<1>12. ServedRight'
  BY <1>3 DEF ServedRight
<1> QED BY <1>6, <1>7, <1>8, <1>9, <1>10, <1>11, <1>12

\* Writing to the open file, and closing it.
LEMMA WriteSteps ==
  ASSUME CacheInv, NEW p \in Pid, Write(p) \/ Close(p)
  PROVE  CacheInv'
<1> USE ImageAssumption DEF CacheInv
<1>0. Writing(p) /\ cur[p] \in Texture
  BY DEF Write, Close, At, Writing, TypeOK, Texture
<1>1. PICK part \in {"part", "whole"} :
        /\ bytes' = [bytes EXCEPT ![stream[p]] = [image |-> cur[p], part |-> part]]
        /\ place' = [place EXCEPT ![p] = IF part = "part" THEN "close" ELSE "rename"]
        /\ UNCHANGED <<dir, cur, ctr, stream, served, crashes>>
  BY DEF Write, Close, Goto
<1>2. /\ stream[p] \in File
      /\ \A q \in Pid : stream[q] = stream[p] => q = p
      /\ \A k \in Key : dir[k] # stream[p]
  BY <1>0, StreamApart
<1>3. [image |-> cur[p], part |-> part] \in Blob
  BY <1>0 DEF Blob
<1>4. TypeOK'
  <2>1. bytes' \in [File -> Blob \cup {Absent}]
    BY <1>1, <1>2, <1>3 DEF TypeOK
  <2>2. place' \in [Pid -> {"lookup", "encode", "open", "write", "close", "rename"}]
    BY <1>1 DEF TypeOK
  <2> QED BY <1>1, <2>1, <2>2 DEF TypeOK
<1>5. \A q \in Pid : Writing(q)' = Writing(q) /\ Mine(q)' = Mine(q)
  BY <1>0, <1>1 DEF Writing, Mine, Staged, Entry, TypeOK
<1>6. CounterOK'
  BY <1>0, <1>1, <1>5 DEF CounterOK, TypeOK, Writing, Texture
<1>7. OneName' /\ ServedRight'
  BY <1>1 DEF OneName, ServedRight
<1>8. StreamNamed'
  BY <1>1, <1>5 DEF StreamNamed
<1>9. ReadyIsWhole'
  <2>1. ASSUME NEW q \in Pid, place'[q] = "rename"
        PROVE  bytes'[stream[q]] = [image |-> cur[q], part |-> "whole"]
    <3>1. CASE q = p
      BY <1>1, <1>2, <2>1, <3>1 DEF TypeOK
    <3>2. CASE q # p
      <4>1. place[q] = "rename" /\ stream[q] # stream[p]
        BY <1>1, <1>2, <2>1, <3>2 DEF TypeOK
      <4>2. bytes'[stream[q]] = bytes[stream[q]]
        BY <1>1, <4>1
           DEF TypeOK
      <4> QED BY <4>1, <4>2 DEF ReadyIsWhole
    <3> QED BY <3>1, <3>2
  <2> QED BY <1>1, <2>1 DEF ReadyIsWhole
<1>10. EntriesWhole'
  <2>1. ASSUME NEW k \in Key, dir[k] # Absent
        PROVE  bytes'[dir[k]] = bytes[dir[k]]
    <3>1. dir[k] \in File /\ dir[k] # stream[p]
      BY <1>2, <2>1 DEF TypeOK, Name
    <3> QED BY <1>1, <3>1 DEF TypeOK
  <2> QED BY <1>1, <2>1 DEF EntriesWhole
<1> QED BY <1>4, <1>6, <1>7, <1>8, <1>9, <1>10

\* The steps that end a write: the staged name goes, and with a rename its
\* file becomes the entry; or the process dies.
LEMMA EndSteps ==
  ASSUME CacheInv, NEW p \in Pid,
         WriteFails(p) \/ RenameFails(p) \/ Rename(p)
  PROVE  CacheInv'
<1> USE ImageAssumption DEF CacheInv
<1>0. Writing(p) /\ cur[p] \in Texture
  BY DEF WriteFails, RenameFails, Rename, At, Writing, TypeOK, Texture
<1>1. /\ stream' = [stream EXCEPT ![p] = Absent]
      /\ cur' = [cur EXCEPT ![p] = @ + 1]
      /\ place' = [place EXCEPT ![p] = "lookup"]
      /\ UNCHANGED <<bytes, ctr, served, crashes>>
  BY DEF WriteFails, RenameFails, Rename, Discard, NextTexture
<1>2. Mine(p) \in Tmp /\ Mine(p) \in Name /\ Entry(p) \in Key /\ Entry(p) \in Name
  BY <1>0, MineIsTmp
<1>3. dir[Mine(p)] = stream[p] /\ stream[p] # Absent /\ stream[p] \in File
  BY <1>0, StreamApart DEF StreamNamed
<1>4. \/ dir' = [dir EXCEPT ![Mine(p)] = Absent]
      \/ place[p] = "rename" /\ dir' = [dir EXCEPT ![Entry(p)] = stream[p], ![Mine(p)] = Absent]
  BY <1>3 DEF WriteFails, RenameFails, Rename, Discard, Mine, At
<1>5. Mine(p) # Entry(p)
  BY <1>2, NamesAssumption
<1>6. /\ dir' \in [Name -> File \cup {Absent}]
      /\ dir'[Mine(p)] = Absent
      /\ \A n \in Name : n # Mine(p) /\ n # Entry(p) => dir'[n] = dir[n]
      /\ \/ dir'[Entry(p)] = dir[Entry(p)]
         \/ place[p] = "rename" /\ dir'[Entry(p)] = stream[p]
  <2>1. CASE dir' = [dir EXCEPT ![Mine(p)] = Absent]
    BY <1>2, <1>5, <2>1 DEF TypeOK
  <2>2. CASE place[p] = "rename" /\ dir' = [dir EXCEPT ![Entry(p)] = stream[p], ![Mine(p)] = Absent]
    BY <1>2, <1>3, <1>5, <2>2 DEF TypeOK
  <2> QED BY <1>4, <2>1, <2>2
<1>7. TypeOK'
  BY <1>0, <1>1, <1>6 DEF TypeOK, Texture
<1>8. CounterOK'
  BY <1>0, <1>1 DEF CounterOK, TypeOK, Writing, Texture
<1>9. OneName'
  <2>1. ASSUME NEW m \in Name, NEW n \in Name, dir'[m] # Absent, dir'[m] = dir'[n]
        PROVE  m = n
    <3>1. m # Mine(p) /\ n # Mine(p)
      BY <1>6, <2>1
    <3>2. \A x \in Name : x # Mine(p) /\ dir[x] # Absent => dir[x] # stream[p]
      BY <1>2, <1>3 DEF OneName
    <3> QED BY <1>3, <1>6, <2>1, <3>1, <3>2 DEF OneName
  <2> QED BY <2>1 DEF OneName
<1>10. StreamNamed'
  <2>1. ~Writing(p)' /\ stream'[p] = Absent
    BY <1>1 DEF Writing, TypeOK
  <2>2. \A q \in Pid : q # p => /\ Writing(q)' = Writing(q) /\ Mine(q)' = Mine(q)
                               /\ stream'[q] = stream[q]
    BY <1>1 DEF Writing, Mine, Staged, Entry, TypeOK
  <2>3. ASSUME NEW q \in Pid, q # p, Writing(q) PROVE dir'[Mine(q)] = dir[Mine(q)]
    <3>1. Mine(q) \in Tmp /\ Mine(q) \in Name /\ Mine(q) # Mine(p)
      BY <2>3, MineIsTmp, MineApart
    <3>2. Mine(q) # Entry(p)
      BY <1>2, <3>1, NamesAssumption
    <3> QED BY <1>6, <3>1, <3>2
  <2> QED BY <2>1, <2>2, <2>3 DEF StreamNamed
<1>11. ReadyIsWhole'
  BY <1>1 DEF ReadyIsWhole, TypeOK
<1>12. EntriesWhole'
  <2>1. ASSUME NEW k \in Key, dir'[k] # Absent
        PROVE  bytes[dir'[k]] # Absent /\ bytes[dir'[k]].part = "whole"
                 /\ KeyOf[bytes[dir'[k]].image] = k
    <3>0. k \in Name /\ k # Mine(p)
      BY <1>6, <2>1 DEF Name
    <3>1. CASE dir'[k] = dir[k]
      BY <2>1, <3>1 DEF EntriesWhole
    <3>2. CASE dir'[k] # dir[k]
      <4>1. k = Entry(p) /\ place[p] = "rename" /\ dir'[k] = stream[p]
        BY <1>6, <3>0, <3>2
      <4>2. bytes[stream[p]] = [image |-> cur[p], part |-> "whole"]
        BY <4>1 DEF ReadyIsWhole
      <4>3. [image |-> cur[p], part |-> "whole"] # Absent
        BY <1>0, NamesAssumption DEF Blob
      <4> QED BY <4>1, <4>2, <4>3 DEF Entry
    <3> QED BY <3>1, <3>2
  <2> QED BY <1>1, <2>1 DEF EntriesWhole
<1>13. ServedRight'
  BY <1>1 DEF ServedRight
<1> QED BY <1>7, <1>8, <1>9, <1>10, <1>11, <1>12, <1>13

LEMMA CrashStep ==
  ASSUME CacheInv, NEW p \in Pid, CrashAndRestart(p)
  PROVE  CacheInv'
<1> USE ImageAssumption DEF CacheInv, CrashAndRestart
<1>1. served' \in [Pid -> [Texture -> Blob \cup {Absent}]] /\ ServedRight'
  BY DEF ServedRight, TypeOK, Nothing
<1>2. TypeOK'
  BY <1>1 DEF TypeOK
<1>3. CounterOK'
  BY DEF CounterOK, TypeOK, Writing
<1>4. OneName' /\ EntriesWhole'
  BY DEF OneName, EntriesWhole
<1>5. ReadyIsWhole'
  BY DEF ReadyIsWhole, TypeOK
<1>6. StreamNamed'
  <2>1. ~Writing(p)' /\ stream'[p] = Absent
    BY DEF Writing, TypeOK
  <2>2. \A q \in Pid : q # p => /\ Writing(q)' = Writing(q) /\ Mine(q)' = Mine(q)
                               /\ stream'[q] = stream[q]
    BY DEF Writing, Mine, Staged, Entry, TypeOK
  <2> QED BY <2>1, <2>2 DEF StreamNamed
<1> QED BY <1>1, <1>2, <1>3, <1>4, <1>5, <1>6

LEMMA NextCacheInv == CacheInv /\ [CacheNext]_cacheVars => CacheInv'
<1> SUFFICES ASSUME CacheInv, [CacheNext]_cacheVars PROVE CacheInv'
  OBVIOUS
<1>1. CASE CacheNext
  BY <1>1, QuietSteps, OpenStep, WriteSteps, EndSteps, CrashStep DEF CacheNext
<1>2. CASE UNCHANGED cacheVars
  BY <1>2 DEF cacheVars, procVars, CacheInv, TypeOK, CounterOK, OneName, StreamNamed, ReadyIsWhole,
              EntriesWhole, ServedRight, Writing, Mine, Staged, Entry
<1> QED BY <1>1, <1>2

-----------------------------------------------------------------------------
(* The theorems.                                                           *)

THEOREM CacheInvariance == CacheSpec => []CacheInv
BY InitCacheInv, NextCacheInv, PTL DEF CacheSpec

\* The cache's variables keep their types; tmpCtr stays below the number of
\* images a process loads (TextureLoader.cpp:209-213).
THEOREM CacheTypeCorrect == CacheSpec => []TypeOK
<1>1. CacheInv => TypeOK
  BY DEF CacheInv
<1> QED BY <1>1, CacheInvariance, PTL

\* A cache entry is a whole blob of its key at every moment
\* (TextureLoader.cpp:198-226).
THEOREM EntriesAreWhole == CacheSpec => []EntriesWhole
<1>1. CacheInv => EntriesWhole
  BY DEF CacheInv
<1> QED BY <1>1, CacheInvariance, PTL

\* A process gets the image it asked for (TextureLoader.cpp:704-711).
THEOREM ServesTheImage == CacheSpec => []ServedRight
<1>1. CacheInv => ServedRight
  BY DEF CacheInv
<1> QED BY <1>1, CacheInvariance, PTL

\* The file a process writes is no entry's and no other writer's
\* (TextureLoader.cpp:199-202).
THEOREM WritersAreApart == CacheSpec => []WritersApart
<1>1. CacheInv => WritersApart
  BY StreamApart DEF WritersApart, Writing
<1> QED BY <1>1, CacheInvariance, PTL
=============================================================================
