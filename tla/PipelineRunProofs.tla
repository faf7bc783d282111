------------------------- MODULE PipelineRunProofs -------------------------
(* Proofs about PipelineRun, for every set of runs, workers, watchdogs and *)
(* requests and every value of the limits.                                 *)
EXTENDS PipelineRun, TLAPS

LEMMA InitTypeOK == Init => TypeOK
  <1> SUFFICES ASSUME Init PROVE TypeOK
    OBVIOUS
  <1> USE RunAssumption DEF Init
  <1>1. TypeOK
    BY DEF TypeOK, Statuses, WorkerSteps, AdminSteps, Faults
  <1> QED BY <1>1

LEMMA BirthTypeOK ==
  ASSUME TypeOK, NEW r \in Runs, Birth(r)
  PROVE  TypeOK'
  <1> USE RunAssumption DEF TypeOK, registry, worker, admin, Statuses
  <1>m. FirstTry(r) \in Msgs
    BY DEF FirstTry, Msgs
  <1>1. CASE ApiCreate(r)      BY <1>1 DEF ApiCreate, Write
  <1>2. CASE ApiEnqueue(r)     BY <1>2, <1>m DEF ApiEnqueue, Enqueue
  <1>3. CASE ApiCreateCrash(r) BY <1>3 DEF ApiCreateCrash, Spend, Faults
  <1>4. CASE BeatEnqueue(r)    BY <1>4, <1>m DEF BeatEnqueue, Enqueue
  <1>5. CASE BeatCommit(r)     BY <1>5 DEF BeatCommit, Write
  <1>6. CASE BeatCrash(r)      BY <1>6 DEF BeatCrash, Spend, Faults
  <1> QED BY <1>1, <1>2, <1>3, <1>4, <1>5, <1>6 DEF Birth

(* The message of a Celery retry is a message. *)
LEMMA NextTry ==
  ASSUME NEW m \in Msgs, m.tries < CeleryMaxRetries
  PROVE  [m EXCEPT !.tries = @ + 1] \in Msgs
  BY RunAssumption DEF Msgs

LEMMA WorkerTypeOK ==
  ASSUME TypeOK, NEW w \in Workers,
         \/ \E m \in Msgs : Receive(w, m)
         \/ WorkerStep(w) \/ SaveCheckpoint(w) \/ Disturbed(w)
  PROVE  TypeOK'
  <1> USE RunAssumption DEF TypeOK, registry, worker, admin, Statuses,
                            WorkerSteps, Goto, Raise, RunOf
  <1>m. wpc[w] # "idle" => wmsg[w] \in Msgs /\ wmsg[w].run \in Runs
    BY DEF Msgs
  <1>1. ASSUME NEW m \in Msgs, Receive(w, m) PROVE TypeOK'
    BY <1>1 DEF Receive
  <1>2. CASE StartRun(w)        BY <1>2, <1>m DEF StartRun, Write
  <1>3. CASE StartMissing(w)    BY <1>3, <1>m DEF StartMissing, Release
  <1>4. ASSUME NEW transient \in BOOLEAN, FailUnrecorded(w, transient) PROVE TypeOK'
    BY <1>4, <1>m DEF FailUnrecorded
  <1>5. CASE FoundCheckpoint(w)
    <2>1. CASE UNCHANGED registry BY <1>5, <1>m, <2>1 DEF FoundCheckpoint
    <2>2. CASE Write(RunOf(w), status[RunOf(w)], retryCount[RunOf(w)])
      BY <1>5, <1>m, <2>2 DEF FoundCheckpoint, Write
    <2> QED BY <1>5, <2>1, <2>2 DEF FoundCheckpoint
  <1>6. CASE NoCheckpoint(w)    BY <1>6, <1>m DEF NoCheckpoint, Write
  <1>7. CASE Resume(w)          BY <1>7, <1>m DEF Resume
  <1>8. CASE StartGraph(w)      BY <1>8, <1>m DEF StartGraph
  <1>9. CASE SaveCheckpoint(w)  BY <1>9, <1>m DEF SaveCheckpoint
  <1>10. CASE GraphEnds(w)      BY <1>10, <1>m DEF GraphEnds
  <1>11. CASE Complete(w)       BY <1>11, <1>m DEF Complete, Write
  <1>12. ASSUME NEW transient \in BOOLEAN, Fail(w, transient) PROVE TypeOK'
    BY <1>12, <1>m DEF Fail, Write
  <1>13. CASE Autoretry(w)
    BY <1>13, <1>m, NextTry DEF Autoretry, Release, Enqueue
  <1>14. CASE Ack(w)            BY <1>14, <1>m DEF Ack, Release
  <1>15. CASE Crash(w)          BY <1>15, <1>m DEF Crash, Release, Enqueue, Spend, Faults
  <1>16. CASE Redeliver(w)      BY <1>16, <1>m DEF Redeliver, Enqueue, Spend, Faults
  <1>17. ASSUME NEW transient \in BOOLEAN, StartFails(w, transient) PROVE TypeOK'
    BY <1>17, <1>m DEF StartFails, Spend, Faults
  <1> QED BY <1>1, <1>2, <1>3, <1>4, <1>5, <1>6, <1>7, <1>8, <1>9, <1>10, <1>11,
             <1>12, <1>13, <1>14, <1>15, <1>16, <1>17 DEF WorkerStep, Disturbed

LEMMA RetrierTypeOK ==
  ASSUME TypeOK,
         \/ \E r \in Runs : Overdue(r)
         \/ \E d \in Watchdogs : \/ Scan(d)
                                 \/ \E r \in Runs : Requeue(d, r)
                                 \/ WatchdogCrash(d)
         \/ \E a \in Admins : \/ \E S \in SUBSET Runs : AdminList(a, S)
                              \/ \E r \in Runs : AdminStep(a, r)
                              \/ AdminCrash(a)
  PROVE  TypeOK'
  <1> USE RunAssumption DEF TypeOK, registry, worker, admin, Statuses, AdminSteps
  <1>m. \A r \in Runs : FirstTry(r) \in Msgs
    BY DEF FirstTry, Msgs
  <1>1. ASSUME NEW r \in Runs, Overdue(r) PROVE TypeOK'
    BY <1>1 DEF Overdue
  <1>2. ASSUME NEW d \in Watchdogs, Scan(d) PROVE TypeOK'
    BY <1>2 DEF Scan, list_retryable
  <1>3. ASSUME NEW d \in Watchdogs, NEW r \in Runs, Requeue(d, r) PROVE TypeOK'
    BY <1>3, <1>m DEF Requeue, Write, Enqueue
  <1>4. ASSUME NEW d \in Watchdogs, WatchdogCrash(d) PROVE TypeOK'
    BY <1>4, <1>m, SMTT(30) DEF WatchdogCrash, Spend, Enqueue, Faults
  <1>5. ASSUME NEW a \in Admins, NEW S \in SUBSET Runs, AdminList(a, S)
        PROVE  TypeOK'
    BY <1>5 DEF AdminList, Spend, Faults
  <1>6. ASSUME NEW a \in Admins, NEW r \in Runs, AdminStep(a, r) PROVE TypeOK'
    <2>1. CASE AdminIncrement(a, r) BY <2>1 DEF AdminIncrement, Write
    <2>2. CASE AdminReset(a, r)     BY <2>2 DEF AdminReset, Write
    <2>3. CASE AdminEnqueue(a, r)   BY <2>3, <1>m DEF AdminEnqueue, Enqueue
    <2> QED BY <1>6, <2>1, <2>2, <2>3 DEF AdminStep
  <1>7. ASSUME NEW a \in Admins, AdminCrash(a) PROVE TypeOK'
    BY <1>7 DEF AdminCrash, Spend, Faults
  <1> QED BY <1>1, <1>2, <1>3, <1>4, <1>5, <1>6, <1>7

LEMMA NextTypeOK == TypeOK /\ [Next]_vars => TypeOK'
  <1> SUFFICES ASSUME TypeOK, [Next]_vars PROVE TypeOK'
    OBVIOUS
  <1>1. CASE Next
    BY <1>1, BirthTypeOK, WorkerTypeOK, RetrierTypeOK DEF Next
  <1>2. CASE UNCHANGED vars
    BY <1>2 DEF TypeOK, vars, registry, worker, admin
  <1> QED BY <1>1, <1>2

(* Every reachable state is well typed: the registry, the broker, the      *)
(* worker threads, the watchdogs and the requests never hold a value the   *)
(* code could not give them.                                               *)
THEOREM TypeCorrect == Spec => []TypeOK
  BY InitTypeOK, NextTypeOK, PTL DEF Spec

-----------------------------------------------------------------------------
(* PendingIsQueued.  It is inductive relative to TypeOK: every step that   *)
(* makes a row PENDING sends the message or is about to, and every step    *)
(* that uses up a message makes its row RUNNING.                           *)

LEMMA BirthKeepsPending ==
  ASSUME TypeOK, PendingIsQueued, NEW q \in Runs, Birth(q)
  PROVE  PendingIsQueued'
  <1> USE RunAssumption DEF registry, worker, admin
  <1> SUFFICES ASSUME faults'["apiCrash"] = 0, faults'["database"] = 0,
                      NEW r \in Runs \ BeatRuns, status'[r] = "pending"
               PROVE  HasMessage(r)'
    BY DEF PendingIsQueued
  <1>m. FirstTry(q) \in Msgs /\ FirstTry(q).run = q
    BY DEF FirstTry, Msgs
  <1>1. CASE ApiCreate(q)
    BY <1>1 DEF ApiCreate, Write, TypeOK, PendingIsQueued, HasMessage, RunOf
  <1>2. CASE ApiEnqueue(q)
    BY <1>2, <1>m, SMTT(30) DEF ApiEnqueue, Enqueue, TypeOK, PendingIsQueued, HasMessage, RunOf
  <1>3. CASE ApiCreateCrash(q)
    BY <1>3 DEF ApiCreateCrash, Spend, TypeOK, Faults
  <1>4. CASE BeatEnqueue(q)
    BY <1>4, <1>m DEF BeatEnqueue, Enqueue, TypeOK, PendingIsQueued, HasMessage, RunOf
  <1>5. CASE BeatCommit(q)
    BY <1>5 DEF BeatCommit, Write, TypeOK, PendingIsQueued, HasMessage, RunOf
  <1>6. CASE BeatCrash(q)
    BY <1>6 DEF BeatCrash, Spend, TypeOK, Faults, PendingIsQueued, HasMessage, RunOf
  <1> QED BY <1>1, <1>2, <1>3, <1>4, <1>5, <1>6 DEF Birth

LEMMA WorkerKeepsPending ==
  ASSUME TypeOK, PendingIsQueued, NEW w \in Workers,
         \/ \E m \in Msgs : Receive(w, m)
         \/ WorkerStep(w) \/ SaveCheckpoint(w) \/ Disturbed(w)
  PROVE  PendingIsQueued'
  <1> USE RunAssumption DEF registry, worker, admin, Goto, Raise, RunOf
  <1> SUFFICES ASSUME faults'["apiCrash"] = 0, faults'["database"] = 0,
                      NEW r \in Runs \ BeatRuns, status'[r] = "pending"
               PROVE  HasMessage(r)'
    BY DEF PendingIsQueued
  <1>m. wpc[w] # "idle" => wmsg[w] \in Msgs /\ wmsg[w].run \in Runs
    BY DEF Msgs, TypeOK
  <1>1. ASSUME NEW m \in Msgs, Receive(w, m) PROVE HasMessage(r)'
    BY <1>1 DEF Receive, TypeOK, PendingIsQueued, HasMessage
  <1>2. CASE StartRun(w)
    BY <1>2, <1>m DEF StartRun, Write, TypeOK, PendingIsQueued, HasMessage
  <1>3. CASE StartMissing(w)
    BY <1>3, <1>m DEF StartMissing, Release, TypeOK, PendingIsQueued, HasMessage
  <1>4. ASSUME NEW transient \in BOOLEAN, FailUnrecorded(w, transient)
        PROVE  HasMessage(r)'
    BY <1>4, <1>m DEF FailUnrecorded, TypeOK, PendingIsQueued, HasMessage
  <1>5. CASE FoundCheckpoint(w)
    <2>1. status' = status
      BY <1>5, <1>m DEF FoundCheckpoint, Write, TypeOK
    <2> QED BY <1>5, <2>1 DEF FoundCheckpoint, TypeOK, PendingIsQueued, HasMessage
  <1>6. CASE NoCheckpoint(w)
    BY <1>6, <1>m DEF NoCheckpoint, Write, TypeOK, PendingIsQueued, HasMessage
  <1>7. CASE Resume(w)
    BY <1>7, <1>m DEF Resume, TypeOK, PendingIsQueued, HasMessage
  <1>8. CASE StartGraph(w)
    BY <1>8, <1>m DEF StartGraph, TypeOK, PendingIsQueued, HasMessage
  <1>9. CASE SaveCheckpoint(w)
    BY <1>9, <1>m DEF SaveCheckpoint, TypeOK, PendingIsQueued, HasMessage
  <1>10. CASE GraphEnds(w)
    BY <1>10, <1>m DEF GraphEnds, TypeOK, PendingIsQueued, HasMessage
  <1>11. CASE Complete(w)
    BY <1>11, <1>m DEF Complete, Write, TypeOK, PendingIsQueued, HasMessage
  <1>12. ASSUME NEW transient \in BOOLEAN, Fail(w, transient) PROVE HasMessage(r)'
    BY <1>12, <1>m DEF Fail, Write, TypeOK, PendingIsQueued, HasMessage
  <1>13. CASE Autoretry(w)
    <2> DEFINE n == [wmsg[w] EXCEPT !.tries = @ + 1]
    <2>1. /\ n \in Msgs
          /\ queued' = [queued EXCEPT ![n] = @ + 1]
      BY <1>13, <1>m, NextTry DEF Autoretry, Enqueue
    <2> HIDE DEF n
    <2>2. \A m \in Msgs : queued[m] > 0 => queued'[m] > 0
      BY <2>1 DEF TypeOK
    <2>3. HasMessage(r)
      BY <1>13 DEF Autoretry, PendingIsQueued
    <2>4. \A v \in Workers : wpc[v] = "received"
             => wpc'[v] = "received" /\ wmsg'[v] = wmsg[v]
      BY <1>13 DEF Autoretry, Release, TypeOK
    <2> QED BY <1>13, <2>2, <2>3, <2>4 DEF Autoretry, HasMessage
  <1>14. CASE Ack(w)
    BY <1>14, <1>m DEF Ack, Release, TypeOK, PendingIsQueued, HasMessage
  <1>15. CASE Crash(w)
    BY <1>15, <1>m
       DEF Crash, Spend, Faults, Release, Enqueue, TypeOK, PendingIsQueued, HasMessage
  <1>16. CASE Redeliver(w)
    BY <1>16, <1>m
       DEF Redeliver, Spend, Faults, Enqueue, TypeOK, PendingIsQueued, HasMessage
  <1>17. ASSUME NEW transient \in BOOLEAN, StartFails(w, transient)
         PROVE  HasMessage(r)'
    BY <1>17 DEF StartFails, Spend, TypeOK, Faults
  <1> QED BY <1>1, <1>2, <1>3, <1>4, <1>5, <1>6, <1>7, <1>8, <1>9, <1>10, <1>11,
             <1>12, <1>13, <1>14, <1>15, <1>16, <1>17 DEF WorkerStep, Disturbed

LEMMA WatchdogKeepsPending ==
  ASSUME TypeOK, PendingIsQueued,
         \/ \E q \in Runs : Overdue(q)
         \/ \E d \in Watchdogs : \/ Scan(d)
                                 \/ \E q \in Runs : Requeue(d, q)
                                 \/ WatchdogCrash(d)
  PROVE  PendingIsQueued'
  <1> USE RunAssumption DEF registry, worker, admin, RunOf
  <1> SUFFICES ASSUME faults'["apiCrash"] = 0, faults'["database"] = 0,
                      NEW r \in Runs \ BeatRuns, status'[r] = "pending"
               PROVE  HasMessage(r)'
    BY DEF PendingIsQueued
  <1>m. \A q \in Runs : FirstTry(q) \in Msgs /\ FirstTry(q).run = q
    BY DEF FirstTry, Msgs
  <1>1. ASSUME NEW q \in Runs, Overdue(q) PROVE HasMessage(r)'
    BY <1>1 DEF Overdue, TypeOK, PendingIsQueued, HasMessage
  <1>2. ASSUME NEW d \in Watchdogs, Scan(d) PROVE HasMessage(r)'
    <2>1. status[r] = "pending"
      BY <1>2 DEF Scan
    <2> QED BY <1>2, <2>1 DEF Scan, PendingIsQueued, HasMessage
  <1>3. ASSUME NEW d \in Watchdogs, NEW q \in Runs, Requeue(d, q)
        PROVE  HasMessage(r)'
    <2> DEFINE n == FirstTry(q)
    <2>1. n \in Msgs /\ n.run = q /\ queued' = [queued EXCEPT ![n] = @ + 1]
      BY <1>3, <1>m DEF Requeue, Enqueue
    <2> HIDE DEF n
    <2>2. \A m \in Msgs : queued[m] > 0 \/ m = n => queued'[m] > 0
      BY <2>1 DEF TypeOK
    <2>3. CASE q = r
      BY <2>1, <2>2, <2>3 DEF HasMessage
    <2>4. CASE q # r
      <3>1. HasMessage(r)
        BY <1>3, <2>4 DEF Requeue, Write, TypeOK, PendingIsQueued
      <3> QED BY <1>3, <2>2, <3>1 DEF Requeue, HasMessage
    <2> QED BY <2>3, <2>4
  <1>4. ASSUME NEW d \in Watchdogs, WatchdogCrash(d) PROVE HasMessage(r)'
    <2>1. HasMessage(r)
      BY <1>4 DEF WatchdogCrash, Spend, Faults, TypeOK, PendingIsQueued
    <2>2. \A m \in Msgs : queued[m] > 0 => queued'[m] > 0
      BY <1>4, <1>m DEF WatchdogCrash, Enqueue, TypeOK
    <2> QED BY <1>4, <2>1, <2>2 DEF WatchdogCrash, HasMessage
  <1> QED BY <1>1, <1>2, <1>3, <1>4

LEMMA AdminKeepsPending ==
  ASSUME TypeOK, PendingIsQueued, NEW a \in Admins,
         \/ \E S \in SUBSET Runs : AdminList(a, S)
         \/ \E q \in Runs : AdminStep(a, q)
         \/ AdminCrash(a)
  PROVE  PendingIsQueued'
  <1> USE RunAssumption DEF registry, worker, admin, RunOf
  <1> SUFFICES ASSUME faults'["apiCrash"] = 0, faults'["database"] = 0,
                      NEW r \in Runs \ BeatRuns, status'[r] = "pending"
               PROVE  HasMessage(r)'
    BY DEF PendingIsQueued
  <1>1. ASSUME NEW S \in SUBSET Runs, AdminList(a, S) PROVE HasMessage(r)'
    <2>1. HasMessage(r)
      BY <1>1 DEF AdminList, Spend, Faults, TypeOK, PendingIsQueued
    <2>2. \A b \in Admins : astep[b][r] = "reset" => astep'[b][r] = "reset"
      BY <1>1 DEF AdminList, TypeOK
    <2> QED BY <1>1, <2>1, <2>2 DEF AdminList, HasMessage
  <1>2. ASSUME NEW q \in Runs, AdminIncrement(a, q) PROVE HasMessage(r)'
    <2>1. HasMessage(r)
      BY <1>2 DEF AdminIncrement, Write, TypeOK, PendingIsQueued
    <2>2. \A b \in Admins : astep[b][r] = "reset" => astep'[b][r] = "reset"
      BY <1>2 DEF AdminIncrement, TypeOK
    <2> QED BY <1>2, <2>1, <2>2 DEF AdminIncrement, HasMessage
  <1>3. ASSUME NEW q \in Runs, AdminReset(a, q) PROVE HasMessage(r)'
    <2>1. \A b \in Admins : astep[b][r] = "reset" => astep'[b][r] = "reset"
      BY <1>3 DEF AdminReset, TypeOK
    <2>2. CASE q = r
      <3>1. astep'[a][r] = "reset"
        BY <1>3, <2>2 DEF AdminReset, TypeOK
      <3> QED BY <3>1 DEF HasMessage
    <2>3. CASE q # r
      <3>1. HasMessage(r)
        BY <1>3, <2>3 DEF AdminReset, Write, TypeOK, PendingIsQueued
      <3> QED BY <1>3, <2>1, <3>1 DEF AdminReset, HasMessage
    <2> QED BY <2>2, <2>3
  <1>4. ASSUME NEW q \in Runs, AdminEnqueue(a, q) PROVE HasMessage(r)'
    <2> DEFINE n == FirstTry(q)
    <2>1. n \in Msgs /\ n.run = q /\ queued' = [queued EXCEPT ![n] = @ + 1]
      BY <1>4 DEF AdminEnqueue, Enqueue, FirstTry, Msgs
    <2> HIDE DEF n
    <2>2. \A m \in Msgs : queued[m] > 0 \/ m = n => queued'[m] > 0
      BY <2>1 DEF TypeOK
    <2>3. CASE q = r
      BY <2>1, <2>2, <2>3 DEF HasMessage
    <2>4. CASE q # r
      <3>1. HasMessage(r)
        BY <1>4 DEF AdminEnqueue, PendingIsQueued
      <3>2. \A b \in Admins : astep[b][r] = "reset" => astep'[b][r] = "reset"
        BY <1>4, <2>4 DEF AdminEnqueue, TypeOK
      <3> QED BY <1>4, <2>2, <3>1, <3>2 DEF AdminEnqueue, HasMessage
    <2> QED BY <2>3, <2>4
  <1>5. CASE AdminCrash(a)
    BY <1>5 DEF AdminCrash, Spend, TypeOK, Faults
  <1> QED BY <1>1, <1>2, <1>3, <1>4, <1>5 DEF AdminStep

LEMMA NextKeepsPending ==
  TypeOK /\ PendingIsQueued /\ [Next]_vars => PendingIsQueued'
  <1> SUFFICES ASSUME TypeOK, PendingIsQueued, [Next]_vars PROVE PendingIsQueued'
    OBVIOUS
  <1>1. CASE Next
    BY <1>1, BirthKeepsPending, WorkerKeepsPending, WatchdogKeepsPending,
       AdminKeepsPending DEF Next
  <1>2. CASE UNCHANGED vars
    BY <1>2 DEF PendingIsQueued, HasMessage, RunOf, vars, registry, worker, admin
  <1> QED BY <1>1, <1>2

(* Whatever the number of runs, threads, watchdogs and requests, no        *)
(* interleaving strands a PENDING run of the API while no API process is   *)
(* lost and every first transaction of the runner commits.                 *)
THEOREM PendingRunsAreQueued == Spec => []PendingIsQueued
  <1>1. Init => PendingIsQueued
    BY DEF Init, PendingIsQueued
  <1> QED BY <1>1, InitTypeOK, NextTypeOK, NextKeepsPending, PTL DEF Spec

-----------------------------------------------------------------------------
(* KeepsThread.  A worker thread enters the graph by NoCheckpoint, which    *)
(* needs a run without a checkpoint, or by Resume, which replays a finished *)
(* one; neither sets to work on a run whose checkpoint is "done".           *)

(* Only a worker writes checkpoints or moves a thread. *)
LEMMA OthersKeepThreads ==
  ASSUME \/ \E q \in Runs : Birth(q) \/ Overdue(q)
         \/ \E d \in Watchdogs : \/ Scan(d)
                                 \/ \E q \in Runs : Requeue(d, q)
                                 \/ WatchdogCrash(d)
         \/ \E a \in Admins : \/ \E S \in SUBSET Runs : AdminList(a, S)
                              \/ \E q \in Runs : AdminStep(a, q)
                              \/ AdminCrash(a)
         \/ UNCHANGED vars
  PROVE  UNCHANGED <<checkpoint, worker>>
  BY DEF Birth, ApiCreate, ApiEnqueue, ApiCreateCrash, BeatEnqueue, BeatCommit,
         BeatCrash, Overdue, Scan, Requeue, WatchdogCrash, AdminList, AdminStep,
         AdminIncrement, AdminReset, AdminEnqueue, AdminCrash, vars

(* Only an execution that has resumed a thread knows that it replays it.   *)
ReplayResumed ==
  \A w \in Workers : wreplay[w] =>
    wpc[w] \in {"graph", "finished", "acking", "retrying", "failing"}

LEMMA NextReplay == TypeOK /\ ReplayResumed /\ [Next]_vars => ReplayResumed'
  <1> SUFFICES ASSUME TypeOK, ReplayResumed, [Next]_vars PROVE ReplayResumed'
    OBVIOUS
  <1> USE DEF TypeOK, ReplayResumed, worker, Goto, Raise
  <1>1. ASSUME NEW w \in Workers, NEW m \in Msgs, Receive(w, m) PROVE ReplayResumed'
    BY <1>1 DEF Receive
  <1>2. ASSUME NEW w \in Workers, WorkerStep(w) PROVE ReplayResumed'
    <2>1. CASE StartRun(w)        BY <2>1 DEF StartRun
    <2>2. CASE StartMissing(w)    BY <2>2 DEF StartMissing, Release
    <2>3. CASE FoundCheckpoint(w) BY <2>3 DEF FoundCheckpoint
    <2>4. CASE NoCheckpoint(w)    BY <2>4 DEF NoCheckpoint
    <2>5. CASE Resume(w)          BY <2>5 DEF Resume
    <2>6. CASE StartGraph(w)      BY <2>6 DEF StartGraph
    <2>7. CASE GraphEnds(w)       BY <2>7 DEF GraphEnds
    <2>8. CASE Complete(w)        BY <2>8 DEF Complete
    <2>9. CASE Autoretry(w)       BY <2>9 DEF Autoretry, Release
    <2>10. CASE Ack(w)            BY <2>10 DEF Ack, Release
    <2>11. ASSUME NEW transient \in BOOLEAN,
                  Fail(w, transient) \/ FailUnrecorded(w, transient)
           PROVE  ReplayResumed'
      BY <2>11 DEF Fail, FailUnrecorded
    <2> QED BY <1>2, <2>1, <2>2, <2>3, <2>4, <2>5, <2>6, <2>7, <2>8, <2>9, <2>10, <2>11
            DEF WorkerStep
  <1>3. ASSUME NEW w \in Workers, SaveCheckpoint(w) \/ Disturbed(w) PROVE ReplayResumed'
    <2>1. CASE SaveCheckpoint(w) BY <2>1 DEF SaveCheckpoint
    <2>2. CASE Crash(w)          BY <2>2 DEF Crash, Release
    <2>3. CASE Redeliver(w)      BY <2>3 DEF Redeliver
    <2>4. ASSUME NEW transient \in BOOLEAN, StartFails(w, transient)
          PROVE  ReplayResumed'
      BY <2>4 DEF StartFails
    <2> QED BY <1>3, <2>1, <2>2, <2>3, <2>4 DEF Disturbed
  <1>4. CASE UNCHANGED worker
    BY <1>4
  <1> QED BY <1>1, <1>2, <1>3, <1>4, OthersKeepThreads DEF Next

LEMMA Replays == Spec => []ReplayResumed
  <1>1. Init => ReplayResumed
    BY DEF Init, ReplayResumed
  <1> QED BY <1>1, TypeCorrect, NextReplay, PTL DEF Spec

(* A step of one execution moves that execution alone.                     *)
Aside(w) == \A v \in Workers \ {w} :
              wpc'[v] = wpc[v] /\ wmsg'[v] = wmsg[v] /\ wreplay'[v] = wreplay[v]

LEMMA StageMoves ==
  ASSUME NEW r \in Runs, NEW w \in Workers, Aside(w), NEW to, Stage(r)'[w] = to
  PROVE  Promised(r)!Move(w, to)
  <1>1. \A v \in Workers \ {w} : Stage(r)'[v] = Stage(r)[v]
    BY DEF Aside, Stage, Working, PastGraph, RunOf
  <1>2. /\ Stage(r) = [v \in Workers |-> Stage(r)[v]]
        /\ Stage(r)' = [v \in Workers |-> Stage(r)'[v]]
    BY DEF Stage
  <1> HIDE DEF Stage
  <1>3. Stage(r)' = [Stage(r) EXCEPT ![w] = to]
    BY <1>1, <1>2
  <1> QED BY <1>3 DEF Promised!Move

LEMMA StageStays ==
  ASSUME NEW r \in Runs, NEW w \in Workers, Aside(w), Stage(r)'[w] = Stage(r)[w]
  PROVE  UNCHANGED Stage(r)
  BY DEF Aside, Stage, Working, PastGraph, RunOf

(* The row of one run is written, and its status is not made COMPLETED.    *)
LEMMA WrittenRow ==
  ASSUME TypeOK, NEW r \in Runs, NEW q \in Runs, NEW n, NEW s, Write(q, s, n),
         s # "completed" \/ s = status[q]
  PROVE  status'[r] = "completed" => status[r] = "completed"
  BY DEF TypeOK, Write

(* Steps of the others at most reopen a run.                               *)
LEMMA OthersReopen ==
  ASSUME TypeOK, NEW r \in Runs,
         \/ \E q \in Runs : Birth(q) \/ Overdue(q)
         \/ \E d \in Watchdogs : \/ Scan(d)
                                 \/ \E q \in Runs : Requeue(d, q)
                                 \/ WatchdogCrash(d)
         \/ \E a \in Admins : \/ \E S \in SUBSET Runs : AdminList(a, S)
                              \/ \E q \in Runs : AdminStep(a, q)
                              \/ AdminCrash(a)
         \/ UNCHANGED vars
  PROVE  status'[r] = "completed" => status[r] = "completed"
  <1> DEFINE Goal == status'[r] = "completed" => status[r] = "completed"
  <1> USE DEF registry
  <1>1. ASSUME NEW q \in Runs, Birth(q) PROVE Goal
    <2>1. CASE ApiCreate(q)      BY <2>1, WrittenRow DEF ApiCreate
    <2>2. CASE ApiEnqueue(q)     BY <2>2 DEF ApiEnqueue
    <2>3. CASE ApiCreateCrash(q) BY <2>3 DEF ApiCreateCrash
    <2>4. CASE BeatEnqueue(q)    BY <2>4 DEF BeatEnqueue
    <2>5. CASE BeatCommit(q)     BY <2>5, WrittenRow DEF BeatCommit
    <2>6. CASE BeatCrash(q)      BY <2>6 DEF BeatCrash
    <2> QED BY <1>1, <2>1, <2>2, <2>3, <2>4, <2>5, <2>6 DEF Birth
  <1>2. ASSUME NEW q \in Runs, Overdue(q) PROVE Goal
    BY <1>2 DEF Overdue
  <1>3. ASSUME NEW d \in Watchdogs, Scan(d) PROVE Goal
    BY <1>3 DEF Scan
  <1>4. ASSUME NEW d \in Watchdogs, NEW q \in Runs, Requeue(d, q) PROVE Goal
    BY <1>4, WrittenRow DEF Requeue
  <1>5. ASSUME NEW d \in Watchdogs, WatchdogCrash(d) PROVE Goal
    BY <1>5 DEF WatchdogCrash
  <1>6. ASSUME NEW a \in Admins, NEW S \in SUBSET Runs, AdminList(a, S) PROVE Goal
    BY <1>6 DEF AdminList
  <1>7. ASSUME NEW a \in Admins, NEW q \in Runs, AdminStep(a, q) PROVE Goal
    <2>1. CASE AdminIncrement(a, q) BY <2>1, WrittenRow DEF AdminIncrement
    <2>2. CASE AdminReset(a, q)     BY <2>2, WrittenRow DEF AdminReset
    <2>3. CASE AdminEnqueue(a, q)   BY <2>3 DEF AdminEnqueue
    <2> QED BY <1>7, <2>1, <2>2, <2>3 DEF AdminStep
  <1>8. ASSUME NEW a \in Admins, AdminCrash(a) PROVE Goal
    BY <1>8 DEF AdminCrash
  <1>9. CASE UNCHANGED vars
    BY <1>9 DEF vars
  <1> QED BY <1>1, <1>2, <1>3, <1>4, <1>5, <1>6, <1>7, <1>8, <1>9

(* A step that leaves the executions and the checkpoints alone.            *)
LEMMA Reopens ==
  ASSUME TypeOK, NEW r \in Runs, UNCHANGED checkpoint, UNCHANGED Stage(r),
         status'[r] = "completed" => status[r] = "completed"
  PROVE  [Promised(r)!ThreadNext]_(Promised(r)!thread)
  <1>1. CASE status'[r] = "completed"
    BY <1>1 DEF Promised!thread
  <1>2. CASE status'[r] # "completed"
    <2>1. (status[r] = "completed")' = FALSE
      BY <1>2
    <2>2. Promised(r)!Reopen
      BY <2>1 DEF Promised!Reopen
    <2> QED BY <2>2 DEF Promised!ThreadNext
  <1> QED BY <1>1, <1>2


(* A step of an execution of another run does not touch this one's thread. *)
Idle(r, w) == wpc[w] \notin {"fallback", "graph", "finished"} \/ RunOf(w) # r

LEMMA StepsAway ==
  ASSUME NEW r \in Runs, NEW w \in Workers, Aside(w), Idle(r, w), Idle(r, w)'
  PROVE  UNCHANGED Stage(r)
  <1>1. Stage(r)[w] = "away" /\ Stage(r)'[w] = "away"
    BY DEF Idle, RunOf, Stage, Working, PastGraph
  <1> QED BY <1>1, StageStays

(* An execution of the run ends, with or without its row marked.           *)
LEMMA GivesUp ==
  ASSUME NEW r \in Runs, NEW w \in Workers, Aside(w), Idle(r, w)',
         UNCHANGED checkpoint, status'[r] = "completed" => status[r] = "completed"
  PROVE  [Promised(r)!ThreadNext]_(Promised(r)!thread)
  <1>1. Stage(r)'[w] = "away"
    BY DEF Idle, RunOf, Stage, Working, PastGraph
  <1>2. Promised(r)!Move(w, "away")
    BY <1>1, StageMoves
  <1>3. Promised(r)!GiveUp(w)
    BY <1>2 DEF Promised!GiveUp
  <1> QED BY <1>3 DEF Promised!ThreadNext

LEMMA WorkerKeepsThread ==
  ASSUME TypeOK, ReplayResumed, NEW r \in Runs, NEW w \in Workers,
         \/ \E m \in Msgs : Receive(w, m)
         \/ WorkerStep(w) \/ SaveCheckpoint(w) \/ Disturbed(w)
  PROVE  [Promised(r)!ThreadNext]_(Promised(r)!thread)
  <1> DEFINE Goal == [Promised(r)!ThreadNext]_(Promised(r)!thread)
  <1> USE DEF worker, registry
  <1>a. /\ wpc \in [Workers -> WorkerSteps] /\ wmsg \in [Workers -> Msgs \cup {NoMsg}]
        /\ wreplay \in [Workers -> BOOLEAN]
    BY DEF TypeOK
  <1>m. wpc[w] # "idle" => RunOf(w) \in Runs
    BY DEF TypeOK, Msgs, RunOf
  <1>g. \A l : Goto(w, l) /\ UNCHANGED <<wmsg, wreplay>> =>
          Aside(w) /\ wpc'[w] = l /\ wmsg'[w] = wmsg[w] /\ wreplay'[w] = wreplay[w]
    BY <1>a DEF Goto, Aside
  <1>r. Release(w) => Aside(w) /\ Idle(r, w)'
    BY <1>a DEF Release, Goto, Aside, Idle
  <1>1. ASSUME NEW m \in Msgs, Receive(w, m) PROVE Goal
    <2>1. Aside(w) /\ Idle(r, w)'
      BY <1>1, <1>a DEF Receive, Goto, Aside, Idle
    <2> QED BY <1>1, <2>1, GivesUp DEF Receive
  <1>2. CASE StartRun(w)
    <2>1. Aside(w) /\ Idle(r, w)'
      BY <1>2, <1>g DEF StartRun, Idle
    <2> QED BY <1>2, <1>m, <2>1, GivesUp, WrittenRow DEF StartRun
  <1>3. CASE StartMissing(w)
    BY <1>3, <1>r, GivesUp DEF StartMissing
  <1>4. ASSUME NEW t \in BOOLEAN, FailUnrecorded(w, t) \/ StartFails(w, t) PROVE Goal
    <2>1. Aside(w) /\ Idle(r, w)'
      BY <1>4, <1>g DEF FailUnrecorded, StartFails, Raise, Idle
    <2> QED BY <1>4, <2>1, GivesUp DEF FailUnrecorded, StartFails
  <1>5. CASE FoundCheckpoint(w)
    <2>1. Aside(w) /\ Idle(r, w)'
      BY <1>5, <1>g DEF FoundCheckpoint, Idle
    <2>2. status'[r] = "completed" => status[r] = "completed"
      BY <1>5, <1>m, WrittenRow DEF FoundCheckpoint
    <2> QED BY <1>5, <2>1, <2>2, GivesUp DEF FoundCheckpoint
  <1>6. CASE NoCheckpoint(w)
    <2>1. Aside(w) /\ wpc'[w] = "fallback" /\ RunOf(w)' = RunOf(w)
          /\ wreplay'[w] = wreplay[w] /\ wpc[w] = "started"
      BY <1>6, <1>g DEF NoCheckpoint, RunOf
    <2>2. UNCHANGED <<checkpoint, status>>
      BY <1>6, <1>m DEF NoCheckpoint, Write, TypeOK
    <2>3. CASE RunOf(w) # r
      BY <2>1, <2>2, <2>3, StepsAway, Reopens DEF Idle
    <2>4. CASE RunOf(w) = r
      <3>1. Stage(r)[w] = "away" /\ checkpoint[r] = "none"
        BY <1>6, <2>1, <2>4 DEF NoCheckpoint, Stage, Working, PastGraph, RunOf
      <3>2. Stage(r)'[w] = "working"
        BY <2>1, <2>4 DEF Stage, Working, PastGraph, RunOf, ReplayResumed
      <3>3. Promised(r)!Enter(w)
        BY <2>1, <2>2, <3>1, <3>2, StageMoves DEF Promised!Enter
      <3> QED BY <3>3 DEF Promised!ThreadNext
    <2> QED BY <2>3, <2>4
  <1>7. CASE Resume(w)
    <2>1. /\ Aside(w) /\ wpc'[w] = "graph" /\ RunOf(w)' = RunOf(w) /\ wpc[w] = "resuming"
          /\ wreplay'[w] = (checkpoint[RunOf(w)] = "done")
          /\ UNCHANGED <<checkpoint, status>>
      BY <1>7, <1>a DEF Resume, Goto, Aside, RunOf
    <2>2. CASE RunOf(w) # r
      BY <2>1, <2>2, StepsAway, Reopens DEF Idle
    <2>3. CASE RunOf(w) = r /\ checkpoint[r] # "done"
      <3>1. Stage(r)[w] = "away" /\ Stage(r)'[w] = "working"
        BY <2>1, <2>3 DEF Stage, Working, PastGraph, RunOf
      <3>2. Promised(r)!Enter(w)
        BY <2>1, <2>3, <3>1, StageMoves DEF Promised!Enter
      <3> QED BY <3>2 DEF Promised!ThreadNext
    <2>4. CASE RunOf(w) = r /\ checkpoint[r] = "done"
      <3>1. Stage(r)[w] = "away" /\ Stage(r)'[w] = "finished"
        BY <2>1, <2>4 DEF Stage, Working, PastGraph, RunOf
      <3>2. Promised(r)!Replay(w)
        BY <2>1, <2>4, <3>1, StageMoves DEF Promised!Replay
      <3> QED BY <3>2 DEF Promised!ThreadNext
    <2> QED BY <2>2, <2>3, <2>4
  <1>8. CASE StartGraph(w)
    <2>1. Aside(w) /\ wpc'[w] = "graph" /\ RunOf(w)' = RunOf(w)
          /\ wreplay'[w] = wreplay[w] /\ wpc[w] = "fallback"
      BY <1>8, <1>g DEF StartGraph, RunOf
    <2>2. Stage(r)'[w] = Stage(r)[w]
      BY <2>1 DEF Stage, Working, PastGraph, RunOf, ReplayResumed
    <2> QED BY <1>8, <2>1, <2>2, StageStays, Reopens DEF StartGraph
  <1>9. CASE SaveCheckpoint(w)
    <2>1. UNCHANGED <<status, Stage(r)>>
      BY <1>9 DEF SaveCheckpoint, Stage, Working, PastGraph, RunOf
    <2>2. CASE RunOf(w) # r
      BY <1>9, <2>1, <2>2 DEF SaveCheckpoint, TypeOK, Promised!thread
    <2>3. CASE RunOf(w) = r
      <3>1. Stage(r)[w] = "working"
        BY <1>9, <2>3 DEF SaveCheckpoint, Stage, Working, PastGraph, RunOf
      <3>2. checkpoint'[r] = "partial"
        BY <1>9, <2>3 DEF SaveCheckpoint, TypeOK
      <3>3. Promised(r)!Save(w)
        BY <2>1, <3>1, <3>2 DEF Promised!Save
      <3> QED BY <3>3 DEF Promised!ThreadNext
    <2> QED BY <2>2, <2>3
  <1>10. CASE GraphEnds(w)
    <2>1. Aside(w) /\ wpc'[w] = "finished" /\ RunOf(w)' = RunOf(w)
          /\ wreplay'[w] = wreplay[w] /\ wpc[w] = "graph" /\ UNCHANGED status
      BY <1>10, <1>g DEF GraphEnds, RunOf
    <2>2. CASE RunOf(w) # r
      <3>1. UNCHANGED Stage(r)
        BY <2>1, <2>2, StepsAway DEF Idle
      <3>2. checkpoint'[r] = checkpoint[r]
        BY <1>10, <2>2 DEF GraphEnds, TypeOK
      <3> QED BY <2>1, <3>1, <3>2 DEF Promised!thread
    <2>3. CASE RunOf(w) = r /\ wreplay[w]
      <3>1. Stage(r)'[w] = Stage(r)[w]
        BY <2>1, <2>3 DEF Stage, Working, PastGraph, RunOf
      <3>2. UNCHANGED checkpoint
        BY <1>10, <2>3 DEF GraphEnds
      <3> QED BY <2>1, <3>1, <3>2, StageStays, Reopens
    <2>4. CASE RunOf(w) = r /\ ~wreplay[w]
      <3>1. Stage(r)[w] = "working" /\ Stage(r)'[w] = "finished"
        BY <2>1, <2>4 DEF Stage, Working, PastGraph, RunOf
      <3>2. checkpoint'[r] = "done"
        BY <1>10, <2>4 DEF GraphEnds, TypeOK
      <3>3. Promised(r)!Finish(w)
        BY <2>1, <3>1, <3>2, StageMoves DEF Promised!Finish
      <3> QED BY <3>3 DEF Promised!ThreadNext
    <2> QED BY <2>2, <2>3, <2>4
  <1>11. CASE Complete(w)
    <2>1. Aside(w) /\ wpc'[w] = "acking" /\ wpc[w] = "finished" /\ UNCHANGED checkpoint
      BY <1>11, <1>g DEF Complete
    <2>2. CASE RunOf(w) # r
      <3>1. status'[r] = status[r]
        BY <1>11, <1>m, <2>2 DEF Complete, Write, TypeOK
      <3> QED BY <2>1, <3>1, GivesUp DEF Idle
    <2>3. CASE RunOf(w) = r
      <3>1. Stage(r)[w] = "finished" /\ Stage(r)'[w] = "away"
        BY <2>1, <2>3 DEF Stage, Working, PastGraph, RunOf
      <3>2. status'[r] = "completed"
        BY <1>11, <2>3 DEF Complete, Write, TypeOK
      <3>3. Promised(r)!Complete(w)
        BY <2>1, <3>1, <3>2, StageMoves DEF Promised!Complete
      <3> QED BY <3>3 DEF Promised!ThreadNext
    <2> QED BY <2>2, <2>3
  <1>12. ASSUME NEW t \in BOOLEAN, Fail(w, t) PROVE Goal
    <2>1. Aside(w) /\ Idle(r, w)'
      BY <1>12, <1>g DEF Fail, Raise, Idle
    <2> QED BY <1>12, <1>m, <2>1, GivesUp, WrittenRow DEF Fail
  <1>13. CASE Autoretry(w) \/ Ack(w)
    BY <1>13, <1>r, GivesUp DEF Autoretry, Ack
  <1>14. CASE Crash(w)
    BY <1>14, <1>r, GivesUp DEF Crash
  <1>15. CASE Redeliver(w)
    <2>1. UNCHANGED Stage(r)
      BY <1>15 DEF Redeliver, Stage, Working, PastGraph, RunOf
    <2> QED BY <1>15, <2>1, Reopens DEF Redeliver
  <1> QED BY <1>1, <1>2, <1>3, <1>4, <1>5, <1>6, <1>7, <1>8, <1>9, <1>10, <1>11,
             <1>12, <1>13, <1>14, <1>15 DEF WorkerStep, Disturbed

LEMMA NextKeepsThread ==
  ASSUME TypeOK, ReplayResumed, [Next]_vars, NEW r \in Runs
  PROVE  [Promised(r)!ThreadNext]_(Promised(r)!thread)
  <1>1. CASE \E w \in Workers : \/ \E m \in Msgs : Receive(w, m)
                                \/ WorkerStep(w) \/ SaveCheckpoint(w) \/ Disturbed(w)
    BY <1>1, WorkerKeepsThread
  <1>2. CASE UNCHANGED <<checkpoint, worker>> /\ (status'[r] = "completed" => status[r] = "completed")
    <2>1. UNCHANGED Stage(r)
      BY <1>2 DEF worker, Stage, Working, PastGraph, RunOf
    <2> QED BY <1>2, <2>1, Reopens
  <1> QED BY <1>1, <1>2, OthersKeepThreads, OthersReopen DEF Next

LEMMA InitKeepsThread ==
  ASSUME Init, NEW r \in Runs
  PROVE  Promised(r)!ThreadInit
  BY DEF Init, Promised!ThreadInit, Stage, Working, PastGraph

(* However executions of the runs overlap, and whoever delivers, retries   *)
(* and re-enqueues them, every run's thread keeps what RunThread promises. *)
THEOREM ThreadsKept == Spec => KeepsThread
  <1>1. Init => \A r \in Runs : Promised(r)!ThreadInit
    BY InitKeepsThread
  <1>2. TypeOK /\ ReplayResumed /\ [Next]_vars =>
          [\A r \in Runs : [Promised(r)!ThreadNext]_(Promised(r)!thread)]_vars
    BY NextKeepsThread
  <1> QED BY <1>1, <1>2, TypeCorrect, Replays, PTL DEF Spec, KeepsThread

(* No redelivery, outdated watchdog list or request makes a thread run a   *)
(* node of a finished graph again.                                         *)
THEOREM FinishedRunsAreNotReworked ==
  ASSUME NEW r \in Runs
  PROVE  Spec => Promised(r)!NotReworked
  <1>s. Stage(r) = [v \in Workers |-> Stage(r)[v]]
    BY DEF Stage
  <1>1. ASSUME Promised(r)!ThreadNext, Promised(r)!AtRest
        PROVE  Promised(r)!AtRest'
    <2> USE DEF Promised!AtRest
    <2>m. ASSUME NEW w \in Workers, NEW to, Promised(r)!Move(w, to), to # "working"
          PROVE  \A v \in Workers : Stage(r)'[v] # "working"
      BY <1>s, <1>1, <2>m DEF Promised!Move
    <2>1. CASE Promised(r)!Reopen
      BY <1>1, <2>1 DEF Promised!Reopen
    <2>2. ASSUME NEW w \in Workers,
                 Promised(r)!Enter(w) \/ Promised(r)!Save(w) \/ Promised(r)!Finish(w)
          PROVE  FALSE
      BY <1>1, <2>2 DEF Promised!Enter, Promised!Save, Promised!Finish
    <2>3. ASSUME NEW w \in Workers,
                 Promised(r)!Replay(w) \/ Promised(r)!Complete(w) \/ Promised(r)!GiveUp(w)
          PROVE  Promised(r)!AtRest'
      BY <1>1, <2>m, <2>3 DEF Promised!Replay, Promised!Complete, Promised!GiveUp
    <2> QED BY <1>1, <2>1, <2>2, <2>3 DEF Promised!ThreadNext
  <1>2. TypeOK /\ ReplayResumed /\ [Next]_vars =>
          [Promised(r)!AtRest => Promised(r)!AtRest']_(Promised(r)!thread)
    BY <1>1, NextKeepsThread
  <1> QED BY <1>2, TypeCorrect, Replays, PTL DEF Spec, Promised!NotReworked

-----------------------------------------------------------------------------
(* RequeueBudget.  The count a re-enqueue is charged to is never reset and *)
(* the list of the only watchdog is never outlived by another one's.       *)

\* One execution of the watchdog at a time, and no retry request.
SingleRetrier == Admins = {} /\ \A c, d \in Watchdogs : c = d

\* A row is inserted once.
InsertedOnce ==
  \A r \in Runs :
    birth[r] = "unborn" \/ (r \in BeatRuns /\ birth[r] = "half") => status[r] = "none"

\* A thread past its first transaction has a row to write to.
RowWhileRunning ==
  \A w \in Workers :
    wpc[w] \in {"started", "resuming", "fallback", "graph", "finished"}
      => status[RunOf(w)] # "none"

\* What the watchdog has listed can be charged once more.
ListedInBudget ==
  \A d \in Watchdogs : \A r \in todo[d] :
    status[r] # "none" /\ requeues[r] < MaxRetries

\* Every re-enqueue is in the row's retry_count.
Charged ==
  \A r \in Runs : /\ status[r] = "none" => requeues[r] = 0
                  /\ requeues[r] <= retryCount[r]

BudgetInv == /\ InsertedOnce /\ RowWhileRunning /\ ListedInBudget /\ Charged
             /\ RequeueBudget

LEMMA BirthBudget ==
  ASSUME TypeOK, BudgetInv, NEW q \in Runs, Birth(q)
  PROVE  BudgetInv'
  <1> USE RunAssumption DEF TypeOK, BudgetInv, InsertedOnce, RowWhileRunning,
          ListedInBudget, Charged, RequeueBudget, registry, worker, admin, RunOf
  <1>m. \A w \in Workers : wpc[w] # "idle" => wmsg[w].run \in Runs
    BY DEF Msgs
  <1>1. CASE ApiCreate(q)      BY <1>1, <1>m DEF ApiCreate, Write
  <1>2. CASE ApiEnqueue(q)     BY <1>2 DEF ApiEnqueue
  <1>3. CASE ApiCreateCrash(q) BY <1>3 DEF ApiCreateCrash
  <1>4. CASE BeatEnqueue(q)    BY <1>4 DEF BeatEnqueue
  <1>5. CASE BeatCommit(q)     BY <1>5, <1>m DEF BeatCommit, Write
  <1>6. CASE BeatCrash(q)      BY <1>6 DEF BeatCrash
  <1> QED BY <1>1, <1>2, <1>3, <1>4, <1>5, <1>6 DEF Birth

LEMMA WorkerBudget ==
  ASSUME TypeOK, BudgetInv, NEW w \in Workers,
         \/ \E m \in Msgs : Receive(w, m)
         \/ WorkerStep(w) \/ SaveCheckpoint(w) \/ Disturbed(w)
  PROVE  BudgetInv'
  <1> USE RunAssumption DEF TypeOK, BudgetInv, InsertedOnce, RowWhileRunning,
          ListedInBudget, Charged, RequeueBudget, registry, worker, admin, Goto,
          Raise, RunOf
  <1>m. \A v \in Workers : wpc[v] # "idle" => wmsg[v].run \in Runs
    BY DEF Msgs
  <1>1. ASSUME NEW m \in Msgs, Receive(w, m) PROVE BudgetInv'
    BY <1>1 DEF Receive
  <1>2. CASE StartRun(w)        BY <1>2, <1>m DEF StartRun, Write
  <1>3. CASE StartMissing(w)    BY <1>3 DEF StartMissing, Release
  <1>4. CASE FoundCheckpoint(w) BY <1>4, <1>m DEF FoundCheckpoint, Write
  <1>5. CASE NoCheckpoint(w)    BY <1>5, <1>m DEF NoCheckpoint, Write
  <1>6. CASE Resume(w)          BY <1>6 DEF Resume
  <1>7. CASE StartGraph(w)      BY <1>7 DEF StartGraph
  <1>8. CASE SaveCheckpoint(w)  BY <1>8 DEF SaveCheckpoint
  <1>9. CASE GraphEnds(w)       BY <1>9 DEF GraphEnds
  <1>10. CASE Complete(w)       BY <1>10, <1>m DEF Complete, Write
  <1>11. CASE Autoretry(w)      BY <1>11 DEF Autoretry, Release
  <1>12. CASE Ack(w)            BY <1>12 DEF Ack, Release
  <1>13. CASE Crash(w)          BY <1>13 DEF Crash, Release
  <1>14. CASE Redeliver(w)      BY <1>14 DEF Redeliver
  <1>15. ASSUME NEW transient \in BOOLEAN, Fail(w, transient) PROVE BudgetInv'
    BY <1>15, <1>m DEF Fail, Write
  <1>16. ASSUME NEW transient \in BOOLEAN,
                FailUnrecorded(w, transient) \/ StartFails(w, transient)
         PROVE  BudgetInv'
    BY <1>16 DEF FailUnrecorded, StartFails
  <1> QED BY <1>1, <1>2, <1>3, <1>4, <1>5, <1>6, <1>7, <1>8, <1>9, <1>10, <1>11,
             <1>12, <1>13, <1>14, <1>15, <1>16 DEF WorkerStep, Disturbed

LEMMA WatchdogBudget ==
  ASSUME SingleRetrier, TypeOK, BudgetInv,
         \/ \E q \in Runs : Overdue(q)
         \/ \E d \in Watchdogs : \/ Scan(d)
                                 \/ \E q \in Runs : Requeue(d, q)
                                 \/ WatchdogCrash(d)
  PROVE  BudgetInv'
  <1> USE RunAssumption DEF TypeOK, BudgetInv, InsertedOnce, RowWhileRunning,
          ListedInBudget, Charged, RequeueBudget, registry, worker, admin, RunOf
  <1>m. \A w \in Workers : wpc[w] # "idle" => wmsg[w].run \in Runs
    BY DEF Msgs
  <1>1. ASSUME NEW q \in Runs, Overdue(q) PROVE BudgetInv'
    BY <1>1 DEF Overdue
  <1>2. ASSUME NEW d \in Watchdogs, Scan(d) PROVE BudgetInv'
    BY <1>2, <1>m DEF Scan, list_retryable, SingleRetrier
  <1>3. ASSUME NEW d \in Watchdogs, NEW q \in Runs, Requeue(d, q)
        PROVE  BudgetInv'
    BY <1>3, <1>m DEF Requeue, Write, SingleRetrier
  <1>4. ASSUME NEW d \in Watchdogs, WatchdogCrash(d) PROVE BudgetInv'
    BY <1>4 DEF WatchdogCrash
  <1> QED BY <1>1, <1>2, <1>3, <1>4

LEMMA NextBudget ==
  SingleRetrier /\ TypeOK /\ BudgetInv /\ [Next]_vars => BudgetInv'
  <1> SUFFICES ASSUME SingleRetrier, TypeOK, BudgetInv, [Next]_vars
               PROVE  BudgetInv'
    OBVIOUS
  <1>1. CASE Next
    BY <1>1, BirthBudget, WorkerBudget, WatchdogBudget DEF Next, SingleRetrier
  <1>2. CASE UNCHANGED vars
    BY <1>2 DEF BudgetInv, InsertedOnce, RowWhileRunning, ListedInBudget, Charged,
                RequeueBudget, RunOf, vars, registry, worker, admin
  <1> QED BY <1>1, <1>2

(* As long as executions of the watchdog do not overlap and nobody uses    *)
(* the retry endpoints, PIPELINE_MAX_RETRIES bounds the re-enqueues of     *)
(* every run, although each is decided on a list read earlier.             *)
THEOREM RequeuesAreBounded ==
  ASSUME SingleRetrier
  PROVE  Spec => []RequeueBudget
  <1>1. Init => BudgetInv
    BY RunAssumption DEF Init, BudgetInv, InsertedOnce, RowWhileRunning,
       ListedInBudget, Charged, RequeueBudget
  <1>2. TypeOK /\ BudgetInv /\ [Next]_vars => BudgetInv'
    BY SingleRetrier, NextBudget
  <1>3. BudgetInv => RequeueBudget
    BY DEF BudgetInv
  <1> QED BY <1>1, <1>2, <1>3, InitTypeOK, NextTypeOK, PTL DEF Spec
=============================================================================
