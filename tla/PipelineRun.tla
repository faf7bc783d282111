---------------------------- MODULE PipelineRun ----------------------------
(***************************************************************************)
(* The pipeline run registry (table pipeline_runs), the Celery queue that  *)
(* carries run_channel_pipeline_task, the worker threads that execute it,  *)
(* the watchdog task retry_stale_pipelines, the retry endpoints of the     *)
(* API, and the two ways a run is born.                                    *)
(*                                                                         *)
(* A worker-side database transaction is one step: the few milliseconds    *)
(* between its SELECT and its COMMIT are not opened up.                    *)
(* The API engine is AUTOCOMMIT, so every statement of an endpoint is a    *)
(* step of its own.  A delivery to the broker is a step of its own only    *)
(* where another actor can tell.                                           *)
(*                                                                         *)
(* The graph is seen through its checkpoint: none, some node done          *)
(* ("partial"), or all of it done ("done").  Module PipelineGraph opens    *)
(* the graph up; both implement RunThread.                                 *)
(***************************************************************************)
EXTENDS Naturals, FiniteSets

CONSTANTS
  Runs,              \* pipeline runs, by registry id
  BeatRuns,          \* those created by a beat task; the API creates the others
  Workers,           \* threads of the Celery worker (-P threads -c 4)
  Watchdogs,         \* executions of retry_stale_pipelines that may overlap
  Admins,            \* requests of the retry endpoints that may overlap
  NoMsg,             \* what an idle worker holds
  MaxRetries,        \* PIPELINE_MAX_RETRIES
  CeleryMaxRetries,  \* PIPELINE_CELERY_MAX_RETRIES
  MaxCrashes,        \* bound: worker-side processes lost
  MaxRedeliveries,   \* bound: visibility timeouts of a live execution
  MaxRequests,       \* bound: retry requests
  MaxApiCrashes,     \* bound: API processes lost
  MaxDatabaseErrors  \* bound: first transactions of the runner that fail

Msgs == [run : Runs, tries : 0..CeleryMaxRetries]

ASSUME RunAssumption ==
  /\ BeatRuns \subseteq Runs
  /\ MaxRetries \in Nat \ {0}
  /\ CeleryMaxRetries \in Nat
  /\ NoMsg \notin Msgs
  /\ MaxCrashes \in Nat
  /\ MaxRedeliveries \in Nat
  /\ MaxRequests \in Nat
  /\ MaxApiCrashes \in Nat
  /\ MaxDatabaseErrors \in Nat

VARIABLES
  \* the registry row of each run
  status,      \* "none" until the row is visible to other sessions
  retryCount,
  overdue,     \* RUNNING and updated_at older than PIPELINE_STALE_AFTER_MINUTES
  birth,       \* how far the creator of the run has come
  \* the broker and the checkpointer
  queued,      \* deliverable messages, with their multiplicity
  checkpoint,  \* newest checkpoint of the run's thread
  \* the worker threads
  wpc,
  wmsg,        \* the unacknowledged message a worker executes
  wreplay,     \* its graph was resumed from a finished checkpoint
  \* the watchdog and the API
  todo,        \* runs a watchdog execution selected and has not re-enqueued
  astep,       \* how far a retry request has come with a run it listed
  aseen,       \* the retry_count the request read with the run
  \* bounds and history
  faults,      \* how much of each bound is spent
  requeues     \* history: re-enqueues by a watchdog or a request

registry == <<status, retryCount, overdue>>
worker   == <<wpc, wmsg, wreplay>>
admin    == <<astep, aseen>>
vars == <<registry, birth, queued, checkpoint, worker, todo, admin, faults,
          requeues>>

Statuses    == {"pending", "running", "completed", "failed", "stale"}
WorkerSteps == {"idle", "received", "started", "resuming", "fallback", "graph",
                "finished", "acking", "retrying", "failing"}
AdminSteps  == {"idle", "listed", "incremented", "reset"}
Faults      == {"crash", "redelivery", "request", "apiCrash", "database"}

Retryable(r) == /\ status[r] \in {"failed", "stale"}
                /\ retryCount[r] < MaxRetries

list_retryable(st) == {r \in Runs : /\ st[r] \in {"failed", "stale"}
                                    /\ retryCount[r] < MaxRetries}

FirstTry(r) == [run |-> r, tries |-> 0]

Enqueue(m) == queued' = [queued EXCEPT ![m] = @ + 1]

\* Every write to the row also sets updated_at.
Write(r, st, n) ==
  /\ status'     = [status EXCEPT ![r] = st]
  /\ retryCount' = [retryCount EXCEPT ![r] = n]
  /\ overdue'    = [overdue EXCEPT ![r] = FALSE]

Spend(f, bound) == /\ faults[f] < bound
                   /\ faults' = [faults EXCEPT ![f] = @ + 1]

Init ==
  /\ status     = [r \in Runs |-> "none"]
  /\ retryCount = [r \in Runs |-> 0]
  /\ overdue    = [r \in Runs |-> FALSE]
  /\ birth      = [r \in Runs |-> "unborn"]
  /\ queued     = [m \in Msgs |-> 0]
  /\ checkpoint = [r \in Runs |-> "none"]
  /\ wpc        = [w \in Workers |-> "idle"]
  /\ wmsg       = [w \in Workers |-> NoMsg]
  /\ wreplay    = [w \in Workers |-> FALSE]
  /\ todo       = [d \in Watchdogs |-> {}]
  /\ astep      = [a \in Admins |-> [r \in Runs |-> "idle"]]
  /\ aseen      = [a \in Admins |-> [r \in Runs |-> 0]]
  /\ faults     = [f \in Faults |-> 0]
  /\ requeues   = [r \in Runs |-> 0]
-----------------------------------------------------------------------------
(* Birth of a run.                                                         *)

\* POST /pipeline/trigger and POST /rss/channels/{id}/schedule: the INSERT
\* commits by itself, the message follows.
ApiCreate(r) ==
  /\ r \notin BeatRuns
  /\ birth[r] = "unborn"
  /\ birth' = [birth EXCEPT ![r] = "half"]
  /\ Write(r, "pending", 0)
  /\ UNCHANGED <<queued, checkpoint, worker, todo, admin, faults, requeues>>

ApiEnqueue(r) ==
  /\ r \notin BeatRuns
  /\ birth[r] = "half"
  /\ birth' = [birth EXCEPT ![r] = "born"]
  /\ Enqueue(FirstTry(r))
  /\ UNCHANGED <<registry, checkpoint, worker, todo, admin, faults, requeues>>

ApiCreateCrash(r) ==
  /\ r \notin BeatRuns
  /\ birth[r] = "half"
  /\ Spend("apiCrash", MaxApiCrashes)
  /\ birth' = [birth EXCEPT ![r] = "born"]
  /\ UNCHANGED <<registry, queued, checkpoint, worker, todo, admin, requeues>>

\* dispatch_due_channel_pipelines and the RSS beat task: the message leaves
\* inside the transaction that inserts the row.
BeatEnqueue(r) ==
  /\ r \in BeatRuns
  /\ birth[r] = "unborn"
  /\ birth' = [birth EXCEPT ![r] = "half"]
  /\ Enqueue(FirstTry(r))
  /\ UNCHANGED <<registry, checkpoint, worker, todo, admin, faults, requeues>>

BeatCommit(r) ==
  /\ r \in BeatRuns
  /\ birth[r] = "half"
  /\ birth' = [birth EXCEPT ![r] = "born"]
  /\ Write(r, "pending", 0)
  /\ UNCHANGED <<queued, checkpoint, worker, todo, admin, faults, requeues>>

\* The beat task dies before the commit: there is a message and no row.
BeatCrash(r) ==
  /\ r \in BeatRuns
  /\ birth[r] = "half"
  /\ Spend("crash", MaxCrashes)
  /\ birth' = [birth EXCEPT ![r] = "born"]
  /\ UNCHANGED <<registry, queued, checkpoint, worker, todo, admin, requeues>>

-----------------------------------------------------------------------------
(* A worker thread executing run_channel_pipeline_task (acks_late: its     *)
(* message stays with the broker until the thread is done).                *)

Goto(w, pc) == wpc' = [wpc EXCEPT ![w] = pc]

Release(w) == /\ Goto(w, "idle")
              /\ wmsg' = [wmsg EXCEPT ![w] = NoMsg]
              /\ wreplay' = [wreplay EXCEPT ![w] = FALSE]

RunOf(w) == wmsg[w].run

\* Mutated form: delivers a message the broker does not hold.
ReceiveUnchecked(w, m) ==
  /\ wpc[w] = "idle"
  /\ queued' = [queued EXCEPT ![m] = @ - 1]
  /\ Goto(w, "received")
  /\ wmsg' = [wmsg EXCEPT ![w] = m]
  /\ UNCHANGED <<registry, birth, checkpoint, wreplay, todo, admin, faults,
                 requeues>>

Receive(w, m) ==
  /\ wpc[w] = "idle"
  /\ queued[m] > 0
  /\ queued' = [queued EXCEPT ![m] = @ - 1]
  /\ Goto(w, "received")
  /\ wmsg' = [wmsg EXCEPT ![w] = m]
  /\ UNCHANGED <<registry, birth, checkpoint, wreplay, todo, admin, faults,
                 requeues>>

\* Mutated form: the first transaction leaves the status as it found it.
StartRunUnmarked(w) ==
  /\ wpc[w] = "received"
  /\ status[RunOf(w)] # "none"
  /\ Goto(w, "started")
  /\ UNCHANGED <<registry, birth, queued, checkpoint, wmsg, wreplay, todo, admin,
                 faults, requeues>>

\* First transaction of the runner: mark_running, whatever the status was.
StartRun(w) ==
  /\ wpc[w] = "received"
  /\ status[RunOf(w)] # "none"
  /\ Write(RunOf(w), "running", retryCount[RunOf(w)])
  /\ Goto(w, "started")
  /\ UNCHANGED <<birth, queued, checkpoint, wmsg, wreplay, todo, admin, faults,
                 requeues>>

\* PipelineStateError, excluded from autoretry: the message is acknowledged.
StartMissing(w) ==
  /\ wpc[w] = "received"
  /\ status[RunOf(w)] = "none"
  /\ Release(w)
  /\ UNCHANGED <<registry, birth, queued, checkpoint, todo, admin, faults,
                 requeues>>

\* How an exception leaves the task.  transient: one of those in
\* autoretry_for, as asyncpg's refused connections are; psycopg's and most
\* others are not.
Raise(w, transient) == Goto(w, IF transient THEN "retrying" ELSE "failing")

\* The first transaction fails: no status is written, the row stays as it was.
StartFails(w, transient) ==
  /\ wpc[w] = "received"
  /\ Spend("database", MaxDatabaseErrors)
  /\ Raise(w, transient)
  /\ UNCHANGED <<registry, birth, queued, checkpoint, wmsg, wreplay, todo, admin,
                 requeues>>

\* A failure that leaves the row RUNNING: the checkpointer cannot be opened,
\* which is outside the try block, or mark_failed itself fails.
FailUnrecorded(w, transient) ==
  /\ wpc[w] \in {"started", "resuming", "fallback", "graph", "finished"}
  /\ Raise(w, transient)
  /\ UNCHANGED <<registry, birth, queued, checkpoint, wmsg, wreplay, todo, admin,
                 faults, requeues>>

\* A checkpoint exists: update_step, unless it is that of the input, which
\* has no current_step; then the graph will be resumed.
FoundCheckpoint(w) ==
  /\ wpc[w] = "started"
  /\ checkpoint[RunOf(w)] # "none"
  /\ \/ Write(RunOf(w), status[RunOf(w)], retryCount[RunOf(w)])
     \/ checkpoint[RunOf(w)] = "partial" /\ UNCHANGED registry
  /\ Goto(w, "resuming")
  /\ UNCHANGED <<birth, queued, checkpoint, wmsg, wreplay, todo, admin, faults,
                 requeues>>

\* None exists ("resume fallback", the first execution included).
NoCheckpoint(w) ==
  /\ wpc[w] = "started"
  /\ checkpoint[RunOf(w)] = "none"
  /\ Write(RunOf(w), status[RunOf(w)], retryCount[RunOf(w)] + 1)
  /\ Goto(w, "fallback")
  /\ UNCHANGED <<birth, queued, checkpoint, wmsg, wreplay, todo, admin, faults,
                 requeues>>

\* Mutated form: a finished thread is run again.
ResumeReplays(w) ==
  /\ wpc[w] = "resuming"
  /\ Goto(w, "graph")
  /\ UNCHANGED <<registry, birth, queued, checkpoint, wmsg, wreplay, todo, admin,
                 faults, requeues>>

\* graph.ainvoke(None): a finished thread runs no node.
Resume(w) ==
  /\ wpc[w] = "resuming"
  /\ wreplay' = [wreplay EXCEPT ![w] = (checkpoint[RunOf(w)] = "done")]
  /\ Goto(w, "graph")
  /\ UNCHANGED <<registry, birth, queued, checkpoint, wmsg, todo, admin, faults,
                 requeues>>

\* graph.ainvoke(initial_state): the thread starts over.
StartGraph(w) ==
  /\ wpc[w] = "fallback"
  /\ Goto(w, "graph")
  /\ UNCHANGED <<registry, birth, queued, checkpoint, wmsg, wreplay, todo, admin,
                 faults, requeues>>

\* The checkpoint of the input or of a superstep is saved; the newest one
\* wins.
SaveCheckpoint(w) ==
  /\ wpc[w] = "graph"
  /\ ~wreplay[w]
  /\ checkpoint' = [checkpoint EXCEPT ![RunOf(w)] = "partial"]
  /\ UNCHANGED <<registry, birth, queued, worker, todo, admin, faults, requeues>>

GraphEnds(w) ==
  /\ wpc[w] = "graph"
  /\ checkpoint' = IF wreplay[w] THEN checkpoint
                   ELSE [checkpoint EXCEPT ![RunOf(w)] = "done"]
  /\ Goto(w, "finished")
  /\ UNCHANGED <<registry, birth, queued, wmsg, wreplay, todo, admin, faults,
                 requeues>>

Complete(w) ==
  /\ wpc[w] = "finished"
  /\ Write(RunOf(w), "completed", retryCount[RunOf(w)])
  /\ Goto(w, "acking")
  /\ UNCHANGED <<birth, queued, checkpoint, wmsg, wreplay, todo, admin, faults,
                 requeues>>

\* An exception inside the try block: mark_failed, then it is raised again.
Fail(w, transient) ==
  /\ wpc[w] \in {"started", "resuming", "fallback", "graph", "finished"}
  /\ Write(RunOf(w), "failed", retryCount[RunOf(w)])
  /\ Raise(w, transient)
  /\ UNCHANGED <<birth, queued, checkpoint, wmsg, wreplay, todo, admin, faults,
                 requeues>>

\* Celery publishes the retry, then acknowledges the message.
Autoretry(w) ==
  /\ wpc[w] = "retrying"
  /\ wmsg[w].tries < CeleryMaxRetries
  /\ Enqueue([wmsg[w] EXCEPT !.tries = @ + 1])
  /\ Release(w)
  /\ UNCHANGED <<registry, birth, checkpoint, todo, admin, faults, requeues>>

Ack(w) ==
  /\ \/ wpc[w] \in {"acking", "failing"}
     \/ wpc[w] = "retrying" /\ wmsg[w].tries = CeleryMaxRetries
  /\ Release(w)
  /\ UNCHANGED <<registry, birth, queued, checkpoint, todo, admin, faults,
                 requeues>>

\* The worker process is lost (task_reject_on_worker_lost).
Crash(w) ==
  /\ wpc[w] # "idle"
  /\ Spend("crash", MaxCrashes)
  /\ Enqueue(wmsg[w])
  /\ Release(w)
  /\ UNCHANGED <<registry, birth, checkpoint, todo, admin, requeues>>

\* visibility_timeout passes while the execution is alive.
Redeliver(w) ==
  /\ wpc[w] # "idle"
  /\ Spend("redelivery", MaxRedeliveries)
  /\ Enqueue(wmsg[w])
  /\ UNCHANGED <<registry, birth, checkpoint, worker, todo, admin, requeues>>

-----------------------------------------------------------------------------
(* The watchdog, every 300 s and when a worker starts.                     *)

\* PIPELINE_STALE_AFTER_MINUTES pass without a write to a RUNNING row.
Overdue(r) ==
  /\ status[r] = "running"
  /\ ~overdue[r]
  /\ overdue' = [overdue EXCEPT ![r] = TRUE]
  /\ UNCHANGED <<status, retryCount, birth, queued, checkpoint, worker, todo,
                 admin, faults, requeues>>

\* Mutated forms of Scan: an off-by-one in the limit, and no stale runs.
ScanSelecting(d, Selected(_, _)) ==
  /\ todo[d] = {}
  /\ status' = [r \in Runs |-> IF status[r] = "running" /\ overdue[r]
                               THEN "stale" ELSE status[r]]
  /\ overdue' = [r \in Runs |-> FALSE]
  /\ todo' = [todo EXCEPT ![d] = {r \in Runs : Selected(status'[r], retryCount[r])}]
  /\ UNCHANGED <<retryCount, birth, queued, checkpoint, worker, admin, faults,
                 requeues>>

ScanUnlimited(d) ==
  ScanSelecting(d, LAMBDA st, n : st \in {"failed", "stale"} /\ n <= MaxRetries)

ScanFailedOnly(d) ==
  ScanSelecting(d, LAMBDA st, n : st = "failed" /\ n < MaxRetries)

\* One transaction: mark stale, then list what may be retried.
Scan(d) ==
  /\ todo[d] = {}
  /\ status' = [r \in Runs |-> IF status[r] = "running" /\ overdue[r]
                               THEN "stale" ELSE status[r]]
  /\ overdue' = [r \in Runs |-> FALSE]
  /\ todo' = [todo EXCEPT ![d] = list_retryable(status')]
  /\ UNCHANGED <<retryCount, birth, queued, checkpoint, worker, admin, faults,
                 requeues>>

\* enqueue_pipeline_retry in a transaction of its own: the block reason is
\* computed from the listed object, the writes go to the row of now.
Requeue(d, r) ==
  /\ r \in todo[d]
  /\ todo' = [todo EXCEPT ![d] = @ \ {r}]
  /\ Write(r, "pending", retryCount[r] + 1)
  /\ Enqueue(FirstTry(r))
  /\ requeues' = [requeues EXCEPT ![r] = @ + 1]
  /\ UNCHANGED <<birth, checkpoint, worker, admin, faults>>

\* The watchdog dies with part of its list left, perhaps between a delivery
\* and its commit.
WatchdogCrash(d) ==
  /\ todo[d] # {}
  /\ Spend("crash", MaxCrashes)
  /\ \/ UNCHANGED queued
     \/ \E r \in todo[d] : Enqueue(FirstTry(r))
  /\ todo' = [todo EXCEPT ![d] = {}]
  /\ UNCHANGED <<registry, birth, checkpoint, worker, admin, requeues>>

-----------------------------------------------------------------------------
(* The retry endpoints, on the AUTOCOMMIT engine.                          *)

\* retry_pipeline_run reads one run, retry_all_pipeline_runs all of them.
get_for_profile(S) == \E r \in Runs : S = {r}

list_retryable_for_profile == {r \in Runs : Retryable(r)}

AdminList(a, S) ==
  /\ \A r \in Runs : astep[a][r] = "idle"
  /\ Spend("request", MaxRequests)
  /\ S # {}
  /\ \A r \in S : Retryable(r)
  /\ get_for_profile(S) \/ S = list_retryable_for_profile
  /\ astep' = [astep EXCEPT ![a] = [r \in Runs |-> IF r \in S THEN "listed" ELSE "idle"]]
  /\ aseen' = [aseen EXCEPT ![a] = [r \in Runs |-> IF r \in S THEN retryCount[r] ELSE 0]]
  /\ UNCHANGED <<registry, birth, queued, checkpoint, worker, todo, requeues>>

\* increment_retry_count finds the listed object in the session's identity
\* map: it writes the count it read plus one.
AdminIncrement(a, r) ==
  /\ astep[a][r] = "listed"
  /\ \A q \in Runs : astep[a][q] \in {"idle", "listed"}
  /\ Write(r, status[r], aseen[a][r] + 1)
  /\ astep' = [astep EXCEPT ![a][r] = "incremented"]
  /\ aseen' = [aseen EXCEPT ![a][r] = 0]
  /\ UNCHANGED <<birth, queued, checkpoint, worker, todo, faults, requeues>>

AdminReset(a, r) ==
  /\ astep[a][r] = "incremented"
  /\ Write(r, "pending", retryCount[r])
  /\ astep' = [astep EXCEPT ![a][r] = "reset"]
  /\ UNCHANGED <<birth, queued, checkpoint, worker, todo, aseen, faults,
                 requeues>>

AdminEnqueue(a, r) ==
  /\ astep[a][r] = "reset"
  /\ Enqueue(FirstTry(r))
  /\ astep' = [astep EXCEPT ![a][r] = "idle"]
  /\ requeues' = [requeues EXCEPT ![r] = @ + 1]
  /\ UNCHANGED <<registry, birth, checkpoint, worker, todo, aseen, faults>>

AdminCrash(a) ==
  /\ \E r \in Runs : astep[a][r] # "idle"
  /\ Spend("apiCrash", MaxApiCrashes)
  /\ astep' = [astep EXCEPT ![a] = [r \in Runs |-> "idle"]]
  /\ aseen' = [aseen EXCEPT ![a] = [r \in Runs |-> 0]]
  /\ UNCHANGED <<registry, birth, queued, checkpoint, worker, todo, requeues>>
-----------------------------------------------------------------------------
Birth(r) == \/ ApiCreate(r) \/ ApiEnqueue(r) \/ ApiCreateCrash(r)
            \/ BeatEnqueue(r) \/ BeatCommit(r) \/ BeatCrash(r)

WorkerStep(w) ==
  \/ StartRun(w) \/ StartMissing(w)
  \/ FoundCheckpoint(w) \/ NoCheckpoint(w) \/ Resume(w) \/ StartGraph(w)
  \/ GraphEnds(w) \/ Complete(w) \/ Autoretry(w) \/ Ack(w)
  \/ \E transient \in BOOLEAN : Fail(w, transient) \/ FailUnrecorded(w, transient)

Disturbed(w) == \/ Crash(w) \/ Redeliver(w)
                \/ \E transient \in BOOLEAN : StartFails(w, transient)

AdminStep(a, r) ==
  AdminIncrement(a, r) \/ AdminReset(a, r) \/ AdminEnqueue(a, r)

Next ==
  \/ \E r \in Runs : Birth(r) \/ Overdue(r)
  \/ \E w \in Workers, m \in Msgs : Receive(w, m)
  \/ \E w \in Workers : WorkerStep(w) \/ SaveCheckpoint(w) \/ Disturbed(w)
  \/ \E d \in Watchdogs : \/ Scan(d)
                          \/ \E r \in Runs : Requeue(d, r)
                          \/ WatchdogCrash(d)
  \/ \E a \in Admins : \/ \E S \in SUBSET Runs : AdminList(a, S)
                       \/ \E r \in Runs : AdminStep(a, r)
                       \/ AdminCrash(a)

(***************************************************************************)
(* Fairness: a created run is handed to the broker, the broker delivers    *)
(* what it holds to a free thread, an execution does not stop for ever     *)
(* (every external call it makes has a timeout), time passes, and beat     *)
(* keeps starting the watchdog.  Nothing obliges a failure, a request or a *)
(* crash to happen.                                                        *)
(***************************************************************************)
Fairness ==
  /\ \A r \in Runs : WF_vars(ApiEnqueue(r) \/ BeatCommit(r)) /\ WF_vars(Overdue(r))
  /\ \A m \in Msgs : WF_vars(\E w \in Workers : Receive(w, m))
  /\ \A w \in Workers : WF_vars(WorkerStep(w))
  /\ \A d \in Watchdogs : WF_vars(Scan(d) \/ \E r \in Runs : Requeue(d, r))
  /\ \A a \in Admins, r \in Runs : WF_vars(AdminStep(a, r))

Spec == Init /\ [][Next]_vars /\ Fairness

-----------------------------------------------------------------------------
(* The row, the broker, the threads and the retriers hold values of their  *)
(* types; a busy thread holds a message.                                   *)
TypeOK ==
  /\ status     \in [Runs -> Statuses \cup {"none"}]
  /\ retryCount \in [Runs -> Nat]
  /\ overdue    \in [Runs -> BOOLEAN]
  /\ birth      \in [Runs -> {"unborn", "half", "born"}]
  /\ queued     \in [Msgs -> Nat]
  /\ checkpoint \in [Runs -> {"none", "partial", "done"}]
  /\ wpc        \in [Workers -> WorkerSteps]
  /\ wmsg       \in [Workers -> Msgs \cup {NoMsg}]
  /\ \A w \in Workers : wpc[w] # "idle" => wmsg[w] \in Msgs
  /\ wreplay    \in [Workers -> BOOLEAN]
  /\ todo       \in [Watchdogs -> SUBSET Runs]
  /\ astep      \in [Admins -> [Runs -> AdminSteps]]
  /\ aseen      \in [Admins -> [Runs -> Nat]]
  /\ faults     \in [Faults -> Nat]
  /\ requeues   \in [Runs -> Nat]

\* The broker holds a message for the run, delivered or not, that has not
\* yet made it RUNNING; or its producer is about to send one.
HasMessage(r) ==
  \/ \E m \in Msgs : m.run = r /\ queued[m] > 0
  \/ \E w \in Workers : wpc[w] = "received" /\ RunOf(w) = r
  \/ birth[r] = "half"
  \/ \E a \in Admins : astep[a][r] = "reset"

(* A PENDING run that the API created is on its way to a worker as long as *)
(* no API process has been lost and no first transaction of a runner has   *)
(* failed: no interleaving of workers, watchdogs, requests, redeliveries,  *)
(* failed nodes and worker crashes strands it.  Nothing in the code looks  *)
(* for PENDING rows, so a stranded one would stay for ever.                *)
PendingIsQueued ==
  faults["apiCrash"] = 0 /\ faults["database"] = 0 =>
    \A r \in Runs \ BeatRuns : status[r] = "pending" => HasMessage(r)

(* What the guide says of every run: "pending" means waiting in the Celery *)
(* queue (USER_GUIDE.md, table of run states).                             *)
EveryPendingIsQueued ==
  faults["apiCrash"] = 0 /\ faults["database"] = 0 =>
    \A r \in Runs : status[r] = "pending" => HasMessage(r)

(* With one watchdog at a time and no request, a run is re-enqueued at     *)
(* most PIPELINE_MAX_RETRIES times, although the watchdog decides on a     *)
(* list it read earlier.                                                   *)
RequeueBudget == \A r \in Runs : requeues[r] <= MaxRetries

\* What an execution of the run is doing with the run's thread.
Working(r, w) == /\ wpc[w] \in {"fallback", "graph"} /\ ~wreplay[w]
                 /\ RunOf(w) = r

PastGraph(r, w) == /\ wpc[w] = "finished" \/ (wpc[w] = "graph" /\ wreplay[w])
                   /\ RunOf(w) = r

Stage(r) == [w \in Workers |-> IF Working(r, w) THEN "working"
                               ELSE IF PastGraph(r, w) THEN "finished" ELSE "away"]

Promised(r) == INSTANCE RunThread WITH
  Executions <- Workers, checkpoint <- checkpoint[r], stage <- Stage(r),
  completed <- (status[r] = "completed")

(* However often a run is redelivered, re-enqueued by a watchdog with an   *)
(* outdated list, or retried by hand, and however many executions overlap, *)
(* its thread keeps what RunThread promises: a finished thread that nobody *)
(* runs is not run again, and the run is recorded as completed only by an  *)
(* execution that finished its thread or found it finished.                *)
KeepsThread ==
  /\ \A r \in Runs : Promised(r)!ThreadInit
  /\ [][\A r \in Runs : [Promised(r)!ThreadNext]_(Promised(r)!thread)]_vars

Settled(r) == \/ status[r] = "completed"
              \/ status[r] \in {"failed", "stale"} /\ retryCount[r] >= MaxRetries

(* A run the API created ends completed or with its retries spent, whatever *)
(* fails on the way: nodes, the checkpointer, worker threads, the watchdog. *)
EventuallySettled ==
  \A r \in Runs \ BeatRuns : status[r] = "pending" ~> Settled(r)
=============================================================================
