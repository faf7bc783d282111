----------------------------- MODULE Publishing -----------------------------
(***************************************************************************)
(* The publication of one video: publish_video_to_platforms, which the     *)
(* publish task and the publish node of the graph both run, the beat tasks *)
(* and the endpoints that send the publish task, and the generation that   *)
(* must come first.                                                        *)
(*                                                                         *)
(* publish_video_to_platforms runs in one READ COMMITTED transaction: for  *)
(* each platform it SELECTs the row, writes "uploading" by an UPDATE or an *)
(* INSERT, which waits for the row's or the key's other writer, uploads,   *)
(* and writes the outcome.  Others see the rows at the COMMIT only, while  *)
(* an upload is beyond any rollback.                                       *)
(***************************************************************************)
EXTENDS Naturals, Sequences

CONSTANTS
  Platforms,   \* the connected platforms of the channel
  Orders,      \* the orders get_by_channel_id may list them in: no ORDER BY
  Tasks,       \* threads of the Celery worker
  Nodes,       \* executions of the publish node of the video's pipeline run
  MaxQueue,    \* bound: publish messages in the queue
  MaxUploads,  \* bound: uploads a platform takes
  MaxFaults    \* bound: processes lost, and uploads taken whose answer is not

Publishers == Tasks \cup Nodes

ASSUME PublishingAssumption ==
  /\ Platforms # {}
  /\ Orders # {}
  /\ \A o \in Orders : /\ o \in Seq(Platforms)
                       /\ \A p \in Platforms : \E i \in 1..Len(o) : o[i] = p
                       /\ \A i, j \in 1..Len(o) : o[i] = o[j] => i = j
  /\ Tasks \cap Nodes = {}
  /\ MaxQueue \in Nat /\ MaxUploads \in Nat /\ MaxFaults \in Nat

VARIABLES
  \* the video
  generation, \* unsent, queued or lost while the row says PENDING; completed
  due,        \* scheduled_at is past
  row,        \* its committed rows in video_publish_statuses
  \* the platforms
  uploads,    \* uploads each has taken, whether or not we know
  \* the broker
  queued,     \* messages for publish_to_platforms_task
  \* a publisher
  pc,
  todo,       \* platforms it has not finished, the current one first
  found,      \* its SELECT returned a row of the current platform
  draft,      \* the rows its open transaction has written; it holds their locks
  nodeDone,   \* publish nodes that have committed; all: no run makes the video
  faults      \* how many there were of each kind; of deadlocks, whether any

video     == <<generation, due>>
publisher == <<pc, todo, found, draft>>
vars == <<video, row, uploads, queued, publisher, nodeDone, faults>>

Ledger == INSTANCE PublishLedger WITH entry <- row

NoRow  == Ledger!NoRow
Clear  == [p \in Platforms |-> NoRow]
Faults == {"crash", "timeout", "deadlock"}

Fail(f) == /\ faults["crash"] + faults["timeout"] < MaxFaults
           /\ faults' = [faults EXCEPT ![f] = @ + 1]

\* A video of POST /videos/schedule, or one that a pipeline run is to make.
Init ==
  /\ \/ generation = "unsent" /\ due = FALSE /\ nodeDone = Nodes
     \/ generation = "queued" /\ due = TRUE /\ Nodes # {} /\ nodeDone = {}
  /\ row = Clear
  /\ uploads = [p \in Platforms |-> 0]
  /\ queued = 0
  /\ pc = [k \in Publishers |-> "idle"]
  /\ todo = [k \in Publishers |-> <<>>]
  /\ found = [k \in Publishers |-> FALSE]
  /\ draft = [k \in Publishers |-> Clear]
  /\ faults = [f \in Faults |-> 0]
-----------------------------------------------------------------------------
(* Generation: of a scheduled video by a task, of a pipeline's video by    *)
(* its produce_video node.  Both are one transaction, so that PROCESSING   *)
(* and FAILED never show.                                                  *)

SendGeneration ==
  /\ generation = "unsent"
  /\ generation' = "queued"
  /\ UNCHANGED <<due, row, uploads, queued, publisher, nodeDone, faults>>

\* The API is lost before it sends the message, or the worker after it has
\* taken it: only pipeline messages are acknowledged late.
LoseGeneration ==
  /\ nodeDone = Nodes
  /\ generation \in {"unsent", "queued"}
  /\ Fail("crash")
  /\ generation' = "lost"
  /\ UNCHANGED <<due, row, uploads, queued, publisher, nodeDone>>

Generate ==
  /\ generation = "queued"
  /\ generation' = "completed"
  /\ UNCHANGED <<due, row, uploads, queued, publisher, nodeDone, faults>>

BecomeDue ==
  /\ ~due
  /\ due' = TRUE
  /\ UNCHANGED <<generation, row, uploads, queued, publisher, nodeDone, faults>>
-----------------------------------------------------------------------------
(* Who sends the publish task.                                             *)

Enqueue == /\ queued < MaxQueue
           /\ queued' = queued + 1

\* check_due_videos, every minute.
CheckDue ==
  /\ due /\ generation = "completed"
  /\ \A p \in Platforms : row[p].status # "published"
  /\ Enqueue
  /\ UNCHANGED <<video, row, uploads, publisher, nodeDone, faults>>

\* What list_failed_for_profile and list_failed_video_ids look for.
FailedPlatforms == {p \in Platforms : row[p].status = "failed"}

AnyFailed == /\ generation = "completed"
             /\ FailedPlatforms # {}

\* POST /retries/publishes/{id} and .../retry-all.
RequestRetry ==
  /\ AnyFailed
  /\ Enqueue
  /\ UNCHANGED <<video, row, uploads, publisher, nodeDone, faults>>

\* retry_failed_publishes, twice a day: it calls the coroutine function
\* enqueue_publish_retry without awaiting it.
RetryFailedPublishes == AnyFailed /\ UNCHANGED vars
-----------------------------------------------------------------------------
(* publish_video_to_platforms.                                             *)

Current(k) == Head(todo[k])

Goto(k, l) == pc' = [pc EXCEPT ![k] = l]

Begin(k) ==
  /\ pc[k] = "idle"
  /\ generation = "completed"
  /\ \E o \in Orders : todo' = [todo EXCEPT ![k] = o]
  /\ Goto(k, "select")
  /\ UNCHANGED <<video, row, uploads, found, draft, nodeDone, faults>>

\* The message is acknowledged when it is taken.
StartTask(k) == /\ k \in Tasks
                /\ queued > 0
                /\ queued' = queued - 1
                /\ Begin(k)

\* The graph comes to its publish node, or is resumed before it.
StartNode(k) == /\ k \in Nodes \ nodeDone
                /\ UNCHANGED queued
                /\ Begin(k)

Select(k) ==
  /\ pc[k] = "select"
  /\ found' = [found EXCEPT ![k] = row[Current(k)] # NoRow]
  /\ Goto(k, "write")
  /\ UNCHANGED <<video, row, uploads, queued, todo, draft, nodeDone, faults>>

\* j's open transaction has written the row that k is about to write.
WaitsFor(k, j) == /\ pc[k] = "write"
                  /\ j # k
                  /\ draft[j][Current(k)] # NoRow

\* Mutated form: the write takes no lock (the API's AUTOCOMMIT engine).
WriteUnlocked(k) ==
  /\ pc[k] = "write"
  /\ found[k] \/ row[Current(k)] = NoRow
  /\ draft' = [draft EXCEPT ![k][Current(k)] =
                 [status |-> "uploading", id |-> row[Current(k)].id]]
  /\ Goto(k, "upload")
  /\ UNCHANGED <<video, row, uploads, queued, todo, found, nodeDone, faults>>

\* upsert_for_platform(UPLOADING), flushed: an UPDATE of the newest version
\* of a row that was found, an INSERT otherwise.
Write(k) ==
  /\ pc[k] = "write"
  /\ \A j \in Publishers : ~WaitsFor(k, j)
  /\ found[k] \/ row[Current(k)] = NoRow
  /\ draft' = [draft EXCEPT ![k][Current(k)] =
                 [status |-> "uploading", id |-> row[Current(k)].id]]
  /\ Goto(k, "upload")
  /\ UNCHANGED <<video, row, uploads, queued, todo, found, nodeDone, faults>>

Rollback(k) == /\ draft' = [draft EXCEPT ![k] = Clear]
               /\ todo' = [todo EXCEPT ![k] = <<>>]
               /\ Goto(k, "idle")

\* The INSERT waited for one that has been committed: uq_video_platform.
\* The first upsert is outside of the try, so that the whole attempt ends.
Duplicate(k) ==
  /\ pc[k] = "write"
  /\ \A j \in Publishers : ~WaitsFor(k, j)
  /\ ~found[k] /\ row[Current(k)] # NoRow
  /\ Rollback(k)
  /\ UNCHANGED <<video, row, uploads, queued, found, nodeDone, faults>>

\* Publishers that wait in a circle; PostgreSQL aborts one of them.
Deadlock(k) ==
  /\ \E S \in SUBSET Publishers :
       /\ k \in S
       /\ \A i \in S : /\ \E j \in S : WaitsFor(i, j)
                       /\ \E j \in S : WaitsFor(j, i)
  /\ faults' = [faults EXCEPT !["deadlock"] = 1]
  /\ Rollback(k)
  /\ UNCHANGED <<video, row, uploads, queued, found, nodeDone>>

\* The outcome is written to the row, and the next platform is taken up.
Conclude(k, outcome) ==
  /\ draft' = [draft EXCEPT ![k][Current(k)] = outcome]
  /\ todo' = [todo EXCEPT ![k] = Tail(@)]
  /\ Goto(k, IF Len(todo[k]) = 1 THEN "commit" ELSE "select")

Take(p) == /\ uploads[p] < MaxUploads
           /\ uploads' = [uploads EXCEPT ![p] = @ + 1]

\* Mutated forms: a transaction per platform, a failed upload that is not
\* caught, and one that is caught but not recorded.
UploadCommitting(k) ==
  /\ pc[k] = "upload"
  /\ Take(Current(k))
  /\ row' = [row EXCEPT ![Current(k)] =
               [status |-> "published", id |-> uploads'[Current(k)]]]
  /\ Conclude(k, NoRow)
  /\ UNCHANGED <<video, queued, found, nodeDone, faults>>

UploadFailsUncaught(k) ==
  /\ pc[k] = "upload"
  /\ Rollback(k)
  /\ UNCHANGED <<video, row, uploads, queued, found, nodeDone, faults>>

UploadFailsUnrecorded(k) ==
  /\ pc[k] = "upload"
  /\ Conclude(k, draft[k][Current(k)])
  /\ UNCHANGED <<video, row, uploads, queued, found, nodeDone, faults>>

Upload(k) ==
  /\ pc[k] = "upload"
  /\ Take(Current(k))
  /\ Conclude(k, [status |-> "published", id |-> uploads'[Current(k)]])
  /\ UNCHANGED <<video, row, queued, found, nodeDone, faults>>

\* update skips None: platform_video_id and published_at stay.
Failed(k) == [draft[k][Current(k)] EXCEPT !.status = "failed"]

UploadFails(k) ==
  /\ pc[k] = "upload"
  /\ Conclude(k, Failed(k))
  /\ UNCHANGED <<video, row, uploads, queued, found, nodeDone, faults>>

\* The platform has taken the video, but the client gave up or polled in vain.
UploadTimesOut(k) ==
  /\ pc[k] = "upload"
  /\ Take(Current(k))
  /\ Fail("timeout")
  /\ Conclude(k, Failed(k))
  /\ UNCHANGED <<video, row, queued, found, nodeDone>>

Commit(k) ==
  /\ pc[k] = "commit"
  /\ row' = [p \in Platforms |-> IF draft[k][p] = NoRow THEN row[p] ELSE draft[k][p]]
  /\ nodeDone' = nodeDone \cup ({k} \cap Nodes)
  /\ Rollback(k)
  /\ UNCHANGED <<video, uploads, queued, found, faults>>

\* The worker is lost.  A task is gone with it; the node is run again when
\* the graph is resumed.
Crash(k) ==
  /\ pc[k] # "idle"
  /\ Fail("crash")
  /\ Rollback(k)
  /\ UNCHANGED <<video, row, uploads, queued, found, nodeDone>>

Publish(k) == \/ Select(k)
              \/ Write(k)
              \/ Duplicate(k)
              \/ Deadlock(k)
              \/ Upload(k)
              \/ UploadFails(k)
              \/ UploadTimesOut(k)
              \/ Commit(k)

Next == \/ SendGeneration \/ LoseGeneration \/ Generate \/ BecomeDue
        \/ CheckDue \/ RequestRetry \/ RetryFailedPublishes
        \/ \E k \in Publishers : StartTask(k) \/ StartNode(k) \/ Publish(k) \/ Crash(k)

Spec == Init /\ [][Next]_vars

\* Beat and the worker threads keep running, every call of an upload ends by
\* its timeout, and a lock that is given up is granted.
Fairness == /\ WF_vars(CheckDue)
            /\ WF_vars(RetryFailedPublishes)
            /\ \A k \in Publishers : WF_vars(StartTask(k)) /\ WF_vars(Publish(k))

FairSpec == Spec /\ Fairness
-----------------------------------------------------------------------------
(* Properties.                                                             *)

\* Types of all variables, and "uploading" is never committed.
TypeOK ==
  /\ generation \in {"unsent", "queued", "lost", "completed"}
  /\ due \in BOOLEAN
  /\ row \in [Platforms -> [status : {"none", "published", "failed"}, id : Nat]]
  /\ uploads \in [Platforms -> Nat]
  /\ queued \in Nat
  /\ pc \in [Publishers -> {"idle", "select", "write", "upload", "commit"}]
  /\ todo \in [Publishers -> Seq(Platforms)]
  /\ found \in [Publishers -> BOOLEAN]
  /\ draft \in [Publishers -> [Platforms -> Ledger!Rows]]
  /\ nodeDone \subseteq Nodes
  /\ faults \in [Faults -> Nat]

\* However many tasks and nodes publish the video, no two of them are
\* uploading it to the same platform at the same time: the "uploading" that
\* is written first keeps the others waiting, be it an UPDATE or an INSERT.
UploadsAreSerial ==
  \A i, j \in Publishers :
    /\ i # j
    /\ pc[i] = "upload" /\ pc[j] = "upload"
    => Current(i) # Current(j)

\* An upload a platform has taken is named by its row, or is about to be by
\* an open transaction, unless a process was lost, an answer timed out, or a
\* deadlock was broken, which takes two orders: the attempts that end with
\* uq_video_platform have uploaded nothing, since none can commit while
\* another holds a row.
NewestUploadKnown ==
  /\ faults["crash"] = 0 /\ faults["timeout"] = 0
  /\ faults["deadlock"] = 0 \/ \A o1, o2 \in Orders : o1 = o2
  => \A p \in Platforms : \/ uploads[p] = row[p].id
                          \/ \E k \in Publishers : uploads[p] = draft[k][p].id

\* The rows keep the promises of the ledger: an attempt is entered for all
\* platforms at once, and what a row names is never replaced by an older
\* upload.
ImplementsLedger == Ledger!LedgerSpec

\* A video that is generated and due gets its rows, whichever attempts fail,
\* deadlock or are lost.
EventuallyRecorded ==
  <>[](due /\ generation = "completed" => \A p \in Platforms : row[p] # NoRow)

\* The digest counts a failed platform as waiting for its retry
\* (retry_pending_publishes), which the beat entry retry-failed-publishes
\* sends.  It never comes once another platform has taken the video.
FailedIsRetried ==
  \A p \in Platforms :
    row[p].status = "failed" ~> \E k \in Publishers : draft[k][p] # NoRow
=============================================================================
