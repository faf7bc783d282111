--------------------------- MODULE RssScheduling ---------------------------
(***************************************************************************)
(* How the daily scrape, and the users' requests, plan the runs of one     *)
(* channel in RSS mode: dispatch_rss_pipelines_for_channel, guarded by     *)
(* rss_last_scheduled_date, and compensate_rss_pipeline_gaps, which counts *)
(* the runs of the day.  A scrape does both in one transaction; a request  *)
(* commits every statement by itself (AUTOCOMMIT).                         *)
(***************************************************************************)
EXTENDS Naturals, FiniteSets

CONSTANTS
  Planners,     \* executions of the scrape task and of schedule requests
  KindOf,       \* "scrape", "request" or "force" (force=true)
  MayCrash,     \* planners that may be lost in the middle
  DailyVideos,  \* daily_video_count
  MaxVideos,    \* rss_max_videos_per_day
  MaxNews,      \* bound: unused news items
  MaxRows,      \* bound: rows in the registry
  MaxDays       \* bound: days

ASSUME SchedulingAssumption ==
  /\ KindOf \in [Planners -> {"scrape", "request", "force"}]
  /\ MayCrash \subseteq Planners
  /\ DailyVideos \in Nat \ {0} /\ MaxVideos \in Nat \ {0}
  /\ MaxNews \in Nat /\ MaxRows \in Nat /\ MaxDays \in Nat \ {0}

VARIABLES
  day,
  feeds,      \* the channel, active and in RSS mode, has a feed
  unused,     \* unused items that are not too old
  dated,      \* rss_last_scheduled_date, 0 if none
  rows,       \* the table of its runs, the uncommitted ones too
  \* a planner
  pc,
  seen,       \* the date in the channel row it has loaded
  today,      \* the date it plans for, 0 before
  left,       \* runs it has yet to create
  dating,     \* planners that hold the channel row, to change its date
  met         \* the pairs of planners that have overlapped

planner == <<pc, seen, today, left, dating, met>>
vars == <<day, feeds, unused, dated, rows, planner>>

Ids   == 1..MaxRows
NoRow == [status |-> "none"]

Smallest(S) == CHOOSE n \in S : \A k \in S : n <= k

Scrapes(s) == KindOf[s] = "scrape"
Goto(s, l) == pc' = [pc EXCEPT ![s] = l]

Init ==
  /\ day = 1
  /\ feeds \in BOOLEAN
  /\ unused \in 0..MaxNews
  /\ dated = 0
  /\ rows = [i \in Ids |-> NoRow]
  /\ pc = [s \in Planners |-> "idle"]
  /\ seen = [s \in Planners |-> 0]
  /\ today = [s \in Planners |-> 0]
  /\ left = [s \in Planners |-> 0]
  /\ dating = {}
  /\ met = {}
-----------------------------------------------------------------------------
(* The world.                                                              *)

Midnight == /\ day < MaxDays
            /\ day' = day + 1
            /\ UNCHANGED <<feeds, unused, dated, rows, planner>>

ChangeFeeds == /\ feeds' = ~feeds
               /\ UNCHANGED <<day, unused, dated, rows, planner>>

Age == /\ unused > 0
       /\ unused' = unused - 1
       /\ UNCHANGED <<day, feeds, dated, rows, planner>>
-----------------------------------------------------------------------------
(* The runs, as far as the counts see them: updated_at changes with every  *)
(* change of the status, and a run claims its item, once, when it starts.  *)

Update(i, st, item) ==
  /\ rows' = [rows EXCEPT ![i] = [@ EXCEPT !.status = st, !.updated = day, !.item = item]]
  /\ UNCHANGED <<day, feeds, dated, planner>>

Start(i) ==
  /\ rows[i].status = "pending"
  /\ LET claims == ~rows[i].item /\ unused > 0
     IN  /\ Update(i, "running", rows[i].item \/ claims)
         /\ unused' = IF claims THEN unused - 1 ELSE unused

\* A run that found no item completes too, without a video.
Complete(i) == /\ rows[i].status = "running"
               /\ Update(i, "completed", rows[i].item)
               /\ UNCHANGED unused

Fail(i) == /\ rows[i].status = "running"
           /\ Update(i, "failed", rows[i].item)
           /\ UNCHANGED unused

Requeue(i) == /\ rows[i].status = "failed"
              /\ Update(i, "pending", rows[i].item)
              /\ UNCHANGED unused
-----------------------------------------------------------------------------
(* A planner.                                                              *)

Planning == {q \in Planners : pc[q] \notin {"idle", "ended", "lost"}}

Enter(s) == /\ pc[s] = "idle"
            /\ met' = met \cup {{s, q} : q \in Planning}
            /\ Goto(s, "load")

\* The scrape commits the new items before it plans.
Scrape(s) ==
  /\ Scrapes(s)
  /\ Enter(s)
  /\ unused' \in unused..MaxNews
  /\ UNCHANGED <<day, feeds, dated, rows, seen, today, left, dating>>

Request(s) ==
  /\ ~Scrapes(s)
  /\ Enter(s)
  /\ UNCHANGED <<day, feeds, unused, dated, rows, seen, today, left, dating>>

\* Where a planner goes on when there is nothing to dispatch.
AfterDispatch(s) == IF Scrapes(s) THEN "telafi" ELSE "ended"

\* A scrape plans for the channels that list_rss_news_channels returns; a
\* request names its channel.
Listed(s) == Scrapes(s) => feeds

Load(s) ==
  /\ pc[s] = "load"
  /\ seen' = [seen EXCEPT ![s] = dated]
  /\ Goto(s, IF Listed(s) THEN "dispatch" ELSE AfterDispatch(s))
  /\ UNCHANGED <<day, feeds, unused, dated, rows, today, left, dating, met>>

plan_rss_video_count == Smallest({unused, MaxVideos, DailyVideos})

Dispatch(s) ==
  /\ pc[s] = "dispatch"
  /\ LET blocked == KindOf[s] # "force" /\ seen[s] = day
         n == plan_rss_video_count
     IN  IF ~feeds \/ blocked \/ n = 0
         THEN Goto(s, AfterDispatch(s)) /\ UNCHANGED <<today, left>>
         ELSE /\ Goto(s, "create")
              /\ today' = [today EXCEPT ![s] = day]
              /\ left' = [left EXCEPT ![s] = n]
  /\ seen' = [seen EXCEPT ![s] = 0]     \* not looked at again
  /\ UNCHANGED <<day, feeds, unused, dated, rows, dating, met>>

NewRow(s) == [by |-> s, telafi |-> pc[s] = "compensate", updated |-> day, item |-> FALSE,
              status |-> IF Scrapes(s) THEN "draft" ELSE "pending"]

Free == {i \in Ids : rows[i] = NoRow}

Create(s) ==
  /\ pc[s] \in {"create", "compensate"}
  /\ left[s] > 0
  /\ Free # {}
  /\ rows' = [rows EXCEPT ![CHOOSE i \in Free : TRUE] = NewRow(s)]
  /\ left' = [left EXCEPT ![s] = @ - 1]
  /\ UNCHANGED <<day, feeds, unused, dated, pc, seen, today, dating, met>>

\* The last request of the dispatch: the channel row gets its new date.
Date(s) ==
  /\ pc[s] = "create"
  /\ left[s] = 0
  /\ dating = {}                                  \* else it waits for the row
  /\ IF Scrapes(s)
     THEN dating' = {s} /\ UNCHANGED dated
     ELSE dated' = today[s] /\ UNCHANGED dating
  /\ Goto(s, AfterDispatch(s))
  /\ UNCHANGED <<day, feeds, unused, rows, seen, today, left, met>>

\* The runs of the day that a planner can see.
Today(s) == {i \in Ids \ Free : /\ rows[i].updated = day
                                /\ rows[i].status = "draft" => rows[i].by = s}
CompletedToday(s) == {i \in Today(s) : rows[i].status = "completed"}

Compensation(s) ==
  LET completed == Cardinality(CompletedToday(s))
      slots == IF MaxVideos > completed THEN MaxVideos - completed ELSE 0
  IN  Smallest({Cardinality(Today(s)) - completed, unused, slots})

Compensate(s) ==
  /\ pc[s] = "telafi"
  /\ left' = [left EXCEPT ![s] = IF feeds THEN Compensation(s) ELSE 0]
  /\ Goto(s, "compensate")
  /\ UNCHANGED <<day, feeds, unused, dated, rows, seen, today, dating, met>>

Drafts(s) == {i \in Ids : rows[i].status = "draft" /\ rows[i].by = s}

\* Mutated form: the date is lost.
CommitUndated(s) ==
  /\ pc[s] = "compensate"
  /\ left[s] = 0
  /\ rows' = [i \in Ids |-> IF i \in Drafts(s) THEN [rows[i] EXCEPT !.status = "pending"]
                                               ELSE rows[i]]
  /\ dating' = dating \ {s}
  /\ Goto(s, "ended")
  /\ UNCHANGED <<day, feeds, unused, dated, seen, today, left, met>>

Commit(s) ==
  /\ pc[s] = "compensate"
  /\ left[s] = 0
  /\ rows' = [i \in Ids |-> IF i \in Drafts(s) THEN [rows[i] EXCEPT !.status = "pending"]
                                               ELSE rows[i]]
  /\ dated' = IF s \in dating THEN today[s] ELSE dated
  /\ dating' = dating \ {s}
  /\ Goto(s, "ended")
  /\ UNCHANGED <<day, feeds, unused, seen, today, left, met>>

\* Mutated form: the date is committed by itself.
CrashDated(s) ==
  /\ s \in MayCrash
  /\ s \in Planning
  /\ rows' = [i \in Ids |-> IF i \in Drafts(s) THEN NoRow ELSE rows[i]]
  /\ dated' = IF s \in dating THEN today[s] ELSE dated
  /\ dating' = dating \ {s}
  /\ Goto(s, "lost")
  /\ seen' = [seen EXCEPT ![s] = 0]
  /\ left' = [left EXCEPT ![s] = 0]
  /\ UNCHANGED <<day, feeds, unused, today, met>>

\* A scrape that is lost is rolled back and not delivered again: it has planned
\* nothing.  The rows of a request stay.
Crash(s) ==
  /\ s \in MayCrash
  /\ s \in Planning
  /\ rows' = [i \in Ids |-> IF i \in Drafts(s) THEN NoRow ELSE rows[i]]
  /\ dating' = dating \ {s}
  /\ Goto(s, IF Scrapes(s) THEN "ended" ELSE "lost")
  /\ seen' = [seen EXCEPT ![s] = 0]
  /\ today' = [today EXCEPT ![s] = IF Scrapes(s) THEN 0 ELSE @]
  /\ left' = [left EXCEPT ![s] = 0]
  /\ UNCHANGED <<day, feeds, unused, dated, met>>

PlannerStep(s) == Scrape(s) \/ Request(s) \/ Load(s) \/ Dispatch(s) \/ Create(s)
                  \/ Date(s) \/ Compensate(s) \/ Commit(s) \/ Crash(s)

Next == \/ Midnight
        \/ ChangeFeeds
        \/ Age
        \/ \E i \in Ids : Start(i) \/ Complete(i) \/ Fail(i) \/ Requeue(i)
        \/ \E s \in Planners : PlannerStep(s)

Spec == Init /\ [][Next]_vars
-----------------------------------------------------------------------------
(* Properties.                                                             *)

RowType == [by : Planners, telafi : BOOLEAN, updated : 1..MaxDays, item : BOOLEAN,
            status : {"draft", "pending", "running", "completed", "failed"}]

\* Types, and the channel row held only by scrapes that have planned.
TypeOK ==
  /\ day \in 1..MaxDays
  /\ feeds \in BOOLEAN
  /\ unused \in 0..MaxNews
  /\ dated \in 0..day
  /\ rows \in [Ids -> RowType \cup {NoRow}]
  /\ \A i \in Ids \ Free : /\ rows[i].updated <= day
                           /\ rows[i].status = "draft" => rows[i].by \in Planning
  /\ left \in [Planners -> 0..MaxNews]
  /\ met \subseteq SUBSET Planners
  /\ \A s \in dating : Scrapes(s) /\ today[s] > 0 /\ pc[s] \in {"telafi", "compensate"}

\* The runs that a dispatch has planned and committed, not compensations.
Planned == {i \in Ids \ Free : rows[i].status # "draft" /\ ~rows[i].telafi}

\* Who has planned committed runs for a day, unforced.
PlannersFor(d) == {s \in {rows[i].by : i \in Planned} : KindOf[s] # "force" /\ today[s] = d}

PutBack(s, d)  == \E r \in Planners : {s, r} \in met /\ today[r] \in 1..(d - 1)
LostRequest(s) == ~Scrapes(s) /\ pc[s] = "lost"

\* Without force a day is planned twice only by planners that overlap, after
\* an overlapping one that began before midnight has put the date back, or
\* after a request that was lost between its rows and its date.
OncePerDay ==
  \A d \in 1..day : \A p, q \in PlannersFor(d) :
    p # q => {p, q} \in met \/ \E s \in {p, q} : PutBack(s, d) \/ LostRequest(s)

\* A date that keeps others from planning stands for runs that exist.
DatedMeansPlanned ==
  dated > 0 => \E i \in Planned : today[rows[i].by] = dated

\* The channel makes no more videos a day than rss_max_videos_per_day.
DailyVideosWithinLimit ==
  Cardinality({i \in Ids \ Free : /\ rows[i].status = "completed" /\ rows[i].item
                                  /\ rows[i].updated = day}) <= MaxVideos
=============================================================================
