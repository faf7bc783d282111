--------------------------- MODULE PipelineGraph ---------------------------
(***************************************************************************)
(* The LangGraph pipeline of one run: its nodes and routers, the state the *)
(* nodes hand on, the checkpoints an execution can be resumed from, and    *)
(* what the nodes leave in the database: the consumed news items, the      *)
(* video rows, and what the runner copies to the registry row at the end.  *)
(*                                                                         *)
(* LangGraph (durability "async") saves the checkpoint of a superstep in   *)
(* the background, in order, while the next nodes run: an execution that   *)
(* is lost may have committed more than its thread remembers.  A raised    *)
(* exception waits for the saves.  Nodes with a retry policy run again in  *)
(* place after a rolled-back transaction; that is a stutter here.          *)
(***************************************************************************)
EXTENDS Naturals, Sequences, FiniteSets

CONSTANTS
  Execs,          \* executions of the run that may overlap
  None,           \* Python's None
  MaxRetries,     \* PIPELINE_MAX_RETRIES
  IdeaMaxRetries, \* IDEA_MAX_RETRIES
  MaxLag,         \* bound: supersteps whose save is under way
  MaxExecutions,  \* bound: deliveries of the run's message
  MaxFaults       \* bound: executions lost, and failures of the transaction of
                  \* mark_completed

Nodes == {"memory_enrichment", "select_news", "generate_idea", "validate_idea",
          "generate_script", "persist_metadata", "produce_video", "publish"}

\* The rows a run inserts are numbered in the order of their insertion.
OptionalId == Nat \cup {None}

\* PipelineState, with the node the thread stands before.
States == [next : Nodes \cup {"end"}, retryCount : Nat,
           news : OptionalId, video : OptionalId]

ASSUME GraphAssumption ==
  /\ None \notin Nat \cup States
  /\ MaxRetries \in Nat
  /\ IdeaMaxRetries \in Nat
  /\ MaxLag \in Nat \ {0}
  /\ MaxExecutions \in Nat \ {0}
  /\ MaxFaults \in Nat

VARIABLES
  \* an execution
  pc,          \* idle, begun, graph, creating (inside persist_metadata), ended
  st,          \* the state its next node sees
  unsaved,     \* states of its supersteps that are not saved yet, oldest first
  \* the checkpointer
  saved,       \* state of the newest checkpoint of the thread
  \* the database
  row,         \* registry row: status, retry_count, news_consumption_id, video_metadata_id
  consumption, \* the consumptions of the run: status ("released" once deleted)
               \* and video_metadata_id
  videos,      \* number of video rows the run has created
  produced,    \* videos with generation_status COMPLETED and their file
  \* bounds and history
  deliveries, crashes, errors,
  overlapped,  \* two executions were under way at once
  ideas        \* ideas since the thread last started over, until executions overlap

exec == <<pc, st, unsaved>>
film == <<videos, produced>>
started == <<deliveries, overlapped>>
vars == <<exec, saved, row, consumption, film, started, crashes, errors, ideas>>

Initial(n) == [next |-> "memory_enrichment", retryCount |-> n, news |-> None,
               video |-> None]

Init ==
  /\ pc = [e \in Execs |-> "idle"]
  /\ st = [e \in Execs |-> Initial(0)]
  /\ unsaved = [e \in Execs |-> <<>>]
  /\ saved = None
  /\ row = [status |-> "pending", retryCount |-> 0, news |-> None, video |-> None]
  /\ consumption = <<>>
  /\ videos = 0
  /\ produced = {}
  /\ deliveries = 0
  /\ overlapped = FALSE
  /\ crashes = 0
  /\ errors = 0
  /\ ideas = 0

Goto(e, l) == pc' = [pc EXCEPT ![e] = l]

-----------------------------------------------------------------------------
(* The runner around the graph.                                            *)

\* A message is taken and the row marked RUNNING; the watchdog or a request
\* that sent the message has raised a count below its limit, a redelivery has
\* not.
Begin(e, raised) ==
  /\ pc[e] = "idle"
  /\ deliveries < MaxExecutions
  /\ deliveries' = deliveries + 1
  /\ overlapped' = (overlapped \/ \E f \in Execs \ {e} : pc[f] # "idle")
  /\ raised = 1 => deliveries > 0 /\ row.retryCount < MaxRetries
  /\ row' = [row EXCEPT !.status = "running", !.retryCount = @ + raised]
  /\ ideas' = IF overlapped' THEN 0 ELSE ideas
  /\ Goto(e, "begun")
  /\ UNCHANGED <<st, unsaved, saved, consumption, film, crashes, errors>>

\* Mutated forms: the thread starts over although it has a checkpoint, and a
\* resume without looking for one.
ResumeFromStart(e) ==
  /\ pc[e] = "begun"
  /\ saved # None
  /\ st' = [st EXCEPT ![e] = Initial(row.retryCount)]
  /\ Goto(e, "graph")
  /\ UNCHANGED <<unsaved, saved, row, consumption, film, started, crashes, errors, ideas>>

ResumeUnchecked(e) ==
  /\ pc[e] = "begun"
  /\ st' = [st EXCEPT ![e] = saved]
  /\ Goto(e, "graph")
  /\ UNCHANGED <<unsaved, saved, row, consumption, film, started, crashes, errors, ideas>>

\* graph.ainvoke(None) goes on where the newest checkpoint stands.
Resume(e) ==
  /\ pc[e] = "begun"
  /\ saved # None
  /\ st' = [st EXCEPT ![e] = saved]
  /\ Goto(e, "graph")
  /\ UNCHANGED <<unsaved, saved, row, consumption, film, started, crashes, errors, ideas>>

\* No checkpoint: count one more and start over, with the registry's count
\* as the state's.  The input is a checkpoint, too.
Fallback(e) ==
  /\ pc[e] = "begun"
  /\ saved = None
  /\ row' = [row EXCEPT !.retryCount = @ + 1]
  /\ st' = [st EXCEPT ![e] = Initial(row'.retryCount)]
  /\ unsaved' = [unsaved EXCEPT ![e] = <<st'[e]>>]
  /\ ideas' = 0
  /\ Goto(e, "graph")
  /\ UNCHANGED <<saved, consumption, film, started, crashes, errors>>

\* The background save of the oldest superstep.
Save(e) ==
  /\ unsaved[e] # <<>>
  /\ saved' = Head(unsaved[e])
  /\ unsaved' = [unsaved EXCEPT ![e] = Tail(@)]
  /\ UNCHANGED <<pc, st, row, consumption, film, started, crashes, errors, ideas>>

At(e, node) == pc[e] = "graph" /\ st[e].next = node

\* A node returns: its updates go into the state, the router picks the next.
Finish(e, s) ==
  /\ Len(unsaved[e]) < MaxLag
  /\ st' = [st EXCEPT ![e] = s]
  /\ unsaved' = [unsaved EXCEPT ![e] = Append(@, s)]
  /\ Goto(e, "graph")
  /\ UNCHANGED <<saved, row, started, crashes, errors>>

-----------------------------------------------------------------------------
(* The nodes.                                                              *)

MemoryEnrichment(e) ==
  /\ At(e, "memory_enrichment")
  /\ Finish(e, [st[e] EXCEPT !.next = "select_news"])
  /\ UNCHANGED <<consumption, film, ideas>>

\* The channel has no feed, or has feeds and no unused item.
SelectNoNews(e, newsRequired) ==
  /\ At(e, "select_news")
  /\ Finish(e, [st[e] EXCEPT !.news = None,
                             !.next = IF newsRequired THEN "end" ELSE "generate_idea"])
  /\ UNCHANGED <<consumption, film, ideas>>

\* claim_next_news_for_channel commits a consumption.
ClaimNews(e) ==
  /\ At(e, "select_news")
  /\ consumption' = Append(consumption, [status |-> "selected", video |-> None])
  /\ Finish(e, [st[e] EXCEPT !.news = Len(consumption'), !.next = "generate_idea"])
  /\ UNCHANGED <<film, ideas>>

GenerateIdea(e) ==
  /\ At(e, "generate_idea")
  /\ ideas' = IF overlapped \/ ideas > IdeaMaxRetries THEN ideas ELSE ideas + 1
  /\ Finish(e, [st[e] EXCEPT !.next = "validate_idea"])
  /\ UNCHANGED <<consumption, film>>

\* Mutated form: the count of rejections is not handed on.
ValidateIdeaUncounted(e, passed) ==
  /\ At(e, "validate_idea")
  /\ Finish(e, [st[e] EXCEPT
       !.next = CASE passed -> "generate_script"
                  [] ~passed /\ st[e].retryCount < IdeaMaxRetries -> "generate_idea"
                  [] OTHER -> "end"])
  /\ UNCHANGED <<consumption, film, ideas>>

\* validate_idea and idea_quality_router: passed stands for is_acceptable
\* and a score of at least IDEA_MIN_SCORE, which both compute.
ValidateIdea(e, passed) ==
  LET n == IF passed THEN st[e].retryCount ELSE st[e].retryCount + 1
  IN  /\ At(e, "validate_idea")
      /\ Finish(e, [st[e] EXCEPT
           !.retryCount = n,
           !.next = CASE passed -> "generate_script"
                      [] ~passed /\ n < IdeaMaxRetries -> "generate_idea"
                      [] OTHER -> "end"])
      /\ UNCHANGED <<consumption, film, ideas>>

GenerateScript(e) ==
  /\ At(e, "generate_script")
  /\ Finish(e, [st[e] EXCEPT !.next = "persist_metadata"])
  /\ UNCHANGED <<consumption, film, ideas>>

\* The consumption named by the state is still in the table.
HasNews(e) == st[e].news # None /\ consumption[st[e].news].status # "released"

\* persist_metadata, reusing the video of the state or of the registry row.
ReuseVideo(e) ==
  /\ At(e, "persist_metadata")
  /\ st[e].video # None \/ row.video # None
  /\ Finish(e, [st[e] EXCEPT !.video = IF @ # None THEN @ ELSE row.video,
                             !.next = "produce_video"])
  /\ UNCHANGED <<consumption, film, ideas>>

\* Neither has one; the lookup's transaction ends here.
LookupNothing(e) ==
  /\ At(e, "persist_metadata")
  /\ st[e].video = None /\ row.video = None
  /\ Goto(e, "creating")
  /\ UNCHANGED <<st, unsaved, saved, row, consumption, film, started, crashes, errors, ideas>>

\* Mutated form: the video row is committed, the consumption is not attached.
CreateVideoUnattached(e) ==
  /\ pc[e] = "creating"
  /\ videos' = videos + 1
  /\ Finish(e, [st[e] EXCEPT !.video = videos', !.next = "produce_video"])
  /\ UNCHANGED <<consumption, produced, ideas>>

\* One transaction: the video row, and attach_video, an update that finds
\* nothing to do for a consumption that was released.
CreateVideo(e) ==
  /\ pc[e] = "creating"
  /\ videos' = videos + 1
  /\ consumption' = IF HasNews(e)
       THEN [consumption EXCEPT ![st[e].news] = [status |-> "produced", video |-> videos']]
       ELSE consumption
  /\ Finish(e, [st[e] EXCEPT !.video = videos', !.next = "produce_video"])
  /\ UNCHANGED <<produced, ideas>>

\* One transaction around the MoneyPrinterTurbo job; a produced video is
\* not produced again.
ProduceVideo(e) ==
  /\ At(e, "produce_video")
  /\ produced' = produced \cup {st[e].video}
  /\ Finish(e, [st[e] EXCEPT !.next = "publish"])
  /\ UNCHANGED <<consumption, videos, ideas>>

\* published: some platform took the video.
Publish(e, published) ==
  /\ At(e, "publish")
  /\ published => st[e].video \in produced
  /\ consumption' = IF published /\ HasNews(e)
       THEN [consumption EXCEPT ![st[e].news].status = "published"]
       ELSE consumption
  /\ Finish(e, [st[e] EXCEPT !.next = "end"])
  /\ UNCHANGED <<film, ideas>>

Node(e) ==
  \/ MemoryEnrichment(e) \/ ClaimNews(e) \/ GenerateIdea(e) \/ GenerateScript(e)
  \/ ReuseVideo(e) \/ LookupNothing(e) \/ CreateVideo(e) \/ ProduceVideo(e)
  \/ \E newsRequired \in BOOLEAN : SelectNoNews(e, newsRequired)
  \/ \E passed \in BOOLEAN : ValidateIdea(e, passed)
  \/ \E published \in BOOLEAN : Publish(e, published)

-----------------------------------------------------------------------------
(* The end of an execution.                                                *)

\* ainvoke returns when the last superstep is saved.
GraphEnds(e) ==
  /\ At(e, "end")
  /\ unsaved[e] = <<>>
  /\ Goto(e, "ended")
  /\ UNCHANGED <<st, unsaved, saved, row, consumption, film, started, crashes, errors, ideas>>

\* The state in memory goes with the execution.
Leave(e) == /\ Goto(e, "idle")
            /\ st' = [st EXCEPT ![e] = Initial(0)]

Given(new, old) == IF new # None THEN new ELSE old

\* news_consumption_id is a foreign key.
MayComplete(e) == st[e].news # None => HasNews(e)

\* mark_completed leaves a column alone when the result has None for it.
Complete(e) ==
  /\ pc[e] = "ended"
  /\ MayComplete(e)
  /\ row' = [row EXCEPT !.status = "completed",
                        !.news  = Given(st[e].news, @),
                        !.video = Given(st[e].video, @)]
  /\ Leave(e)
  /\ UNCHANGED <<unsaved, saved, consumption, film, started, crashes, errors, ideas>>

\* A node, or the checkpointer, raises.  The state the runner holds is the initial one, which
\* names no consumption: nothing is released.
Fail(e) ==
  /\ pc[e] \in {"begun", "graph", "creating"}
  /\ unsaved' = [unsaved EXCEPT ![e] = <<>>]
  /\ saved' = IF unsaved[e] = <<>> THEN saved ELSE unsaved[e][Len(unsaved[e])]
  /\ row' = [row EXCEPT !.status = "failed"]
  /\ Leave(e)
  /\ UNCHANGED <<consumption, film, started, crashes, errors, ideas>>

Releasable(c) == consumption[c].status = "selected" /\ consumption[c].video = None

CompletionFails(e) ==
  /\ pc[e] = "ended"
  /\ MayComplete(e) => crashes + errors < MaxFaults
  /\ errors' = IF MayComplete(e) THEN errors + 1 ELSE errors
  /\ Leave(e)
  /\ UNCHANGED <<unsaved, saved, film, started, crashes, ideas>>

\* Mutated form: a consumption is released whatever became of it.
FailToCompleteReleasingAll(e) ==
  /\ CompletionFails(e)
  /\ consumption' = IF HasNews(e)
       THEN [consumption EXCEPT ![st[e].news].status = "released"]
       ELSE consumption
  /\ row' = [row EXCEPT !.status = "failed"]

\* mark_completed fails.  The result is there, so its consumption is
\* released if it is still only selected, and the row is marked FAILED; but
\* the row of an earlier completion refers to its consumption, so that the
\* deletion fails and takes mark_failed with it.
FailToComplete(e) ==
  LET release == HasNews(e) /\ Releasable(st[e].news)
  IN  /\ CompletionFails(e)
      /\ IF release /\ row.news = st[e].news
         THEN UNCHANGED <<consumption, row>>
         ELSE /\ consumption' = IF release
                   THEN [consumption EXCEPT ![st[e].news].status = "released"]
                   ELSE consumption
              /\ row' = [row EXCEPT !.status = "failed"]

\* The process is lost, and with it the supersteps that are not saved; or it
\* cannot open the checkpointer and gives up.
Crash(e) ==
  /\ pc[e] # "idle"
  /\ crashes + errors < MaxFaults
  /\ crashes' = crashes + 1
  /\ unsaved' = [unsaved EXCEPT ![e] = <<>>]
  /\ Leave(e)
  /\ UNCHANGED <<saved, row, consumption, film, started, errors, ideas>>

Progress(e) ==
  \/ Resume(e) \/ Fallback(e) \/ Save(e) \/ Node(e)
  \/ GraphEnds(e) \/ Complete(e) \/ FailToComplete(e)

Next ==
  \E e \in Execs : \/ \E raised \in {0, 1} : Begin(e, raised)
                   \/ Progress(e) \/ Fail(e) \/ Crash(e)

Spec == Init /\ [][Next]_vars

-----------------------------------------------------------------------------
(* Executions, checkpoints and rows hold values of their types, and every  *)
(* id in a state names a row the run has inserted.                         *)
Inserted(s) == /\ s.news  # None => s.news  \in 1..Len(consumption)
               /\ s.video # None => s.video \in 1..videos

TypeOK ==
  /\ overlapped \in BOOLEAN
  /\ pc \in [Execs -> {"idle", "begun", "graph", "creating", "ended"}]
  /\ st \in [Execs -> States]
  /\ unsaved \in [Execs -> Seq(States)]
  /\ saved \in States \cup {None}
  /\ row \in [status : {"pending", "running", "completed", "failed"},
             retryCount : Nat, news : OptionalId, video : OptionalId]
  /\ consumption \in Seq([status : {"selected", "produced", "published", "released"},
                          video : OptionalId])
  /\ videos \in Nat /\ deliveries \in Nat /\ crashes \in Nat /\ errors \in Nat
  /\ ideas \in Nat
  /\ produced \subseteq 1..videos
  /\ Inserted(row)
  /\ saved # None => Inserted(saved)
  /\ \A e \in Execs : /\ Inserted(st[e])
                      /\ \A i \in 1..Len(unsaved[e]) : Inserted(unsaved[e][i])
  /\ \A c \in 1..Len(consumption) :
       consumption[c].video # None => consumption[c].video \in 1..videos

(* With one execution at a time, only a lost process can make a run create *)
(* a second video row or use a second news item: failed nodes, failed      *)
(* completions, redeliveries and re-enqueues never do, because they go on  *)
(* from a checkpoint that remembers the first.                             *)
OnlyLossDuplicates ==
  ~overlapped => videos <= 1 + crashes /\ Len(consumption) <= 1 + crashes

(* With one execution at a time, the registry row of a completed run is    *)
(* consistent with the rows it names: its video was produced, and its news *)
(* item is marked as used for that very video, also when an earlier        *)
(* execution had used the item for a video that was lost.                  *)
CompletedRowMatches ==
  ~overlapped /\ row.status = "completed" /\ row.video # None =>
    /\ row.video \in produced
    /\ row.news # None => consumption[row.news].video = row.video

(* With one execution at a time, a news item that was published for the    *)
(* run is never marked as less again, nor given back, nor given to another *)
(* video, whatever fails after the publication; provided that the          *)
(* background saves are never three supersteps behind.  With three, the    *)
(* loss of the execution takes the thread back to persist_metadata, before *)
(* the video, and the published item is given to a second one.             *)
PublishedStays ==
  [][\A c \in DOMAIN consumption :
       MaxLag <= 2 /\ ~overlapped /\ consumption[c].status = "published"
         => consumption'[c] = consumption[c]]_vars

(* Even when executions of the run overlap: a news item that is given back *)
(* to the channel is not the item of a completed run, and no video of the  *)
(* run was made from it.                                                   *)
ReleasedIsUnused ==
  \A c \in 1..Len(consumption) : consumption[c].status = "released" =>
    /\ consumption[c].video = None
    /\ row.status = "completed" => row.news # c

(* Unless a superstep is lost or executions overlap, the graph asks for    *)
(* fewer than IDEA_MAX_RETRIES ideas, over all executions that go on from  *)
(* its checkpoints: no failure and no resume gives it more, and the start  *)
(* of the thread has counted once before the first.  That one is asked for *)
(* without a look at the limit (routers.py:30, runner.py:101-109).         *)
IdeasWithinLimit ==
  crashes = 0 /\ ~overlapped => ideas <= 1 \/ ideas < IdeaMaxRetries

\* What the registry sees of the thread and of an execution.
Checkpoint == IF saved = None THEN "none"
              ELSE IF saved.next = "end" THEN "done" ELSE "partial"

PastGraph(e) == st[e].next = "end" /\ unsaved[e] = <<>>

Stage == [e \in Execs |-> IF pc[e] \in {"idle", "begun"} THEN "away"
                          ELSE IF PastGraph(e) THEN "finished" ELSE "working"]

Promised == INSTANCE RunThread WITH
  Executions <- Execs, checkpoint <- Checkpoint, stage <- Stage,
  completed <- (row.status = "completed")

(* The nodes, the saves in the background, the failures and the losses of  *)
(* the graph add up to the thread that module PipelineRun works with: see  *)
(* KeepsThread there.                                                      *)
KeepsThread == Promised!ThreadSpec
=============================================================================
