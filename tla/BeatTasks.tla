----------------------------- MODULE BeatTasks -----------------------------
(***************************************************************************)
(* What Celery beat starts that only reports: the daily digest of every    *)
(* channel, marked in Redis and sent through ntfy, and the check of beat's *)
(* own heartbeat.  Beat sends both tasks by a clock, the workers take them *)
(* later; publications and runs go on while a digest is being read.        *)
(*                                                                         *)
(* One clock of whole ticks stands for UTC.  A digest is read by five      *)
(* queries for each channel, one after the other, READ COMMITTED.  Redis   *)
(* is enabled, and ntfy is configured.                                     *)
(***************************************************************************)
EXTENDS Naturals, Sequences, FiniteSets, FiniteSetsExt

CONSTANTS
  MaxChannel,  \* the active channels are 1..MaxChannel, in the order of their ids
  Publishes,   \* publications of a video on a platform
  Runs,        \* pipeline runs
  ChannelOf,   \* the channel of each publication and run
  Execs,       \* executions of send_daily_channel_digests
  Schedules,   \* which of the two tasks beat may have in its schedule
  ListLimit,   \* of the lists a digest only counts; 100
  DayLength, DigestTime,         \* crontab(hour=20) on a day of 24 hours
  Interval, StaleThreshold,      \* 60 s between heartbeats; 600 s
  MaxTime,       \* bound: ticks
  MaxTaskTime,   \* bound: ticks an execution takes
  MaxLag,        \* bound: ticks from the time of a row to its commit
  MaxOutcomes,   \* bound: publications and runs that end, or end again
  MaxFaults      \* bound: crashes of beat, lost executions, errors of Redis

Channels == 1..MaxChannel
Items    == Publishes \cup Runs
Time     == 0..MaxTime
DateOf(t) == t \div DayLength
Dates    == 0..DateOf(MaxTime)
Digests  == [channel : Channels, date : Dates]

ASSUME BeatAssumption ==
  /\ MaxChannel \in Nat \ {0} /\ ChannelOf \in [Items -> Channels]
  /\ Publishes \cap Runs = {} /\ IsFiniteSet(Items)
  /\ ListLimit \in Nat \ {0}
  /\ Schedules \subseteq SUBSET {"digest", "check"}
  /\ {DayLength, Interval, StaleThreshold} \subseteq Nat \ {0}
  /\ DigestTime \in 1..(DayLength - 1)
  /\ Interval < StaleThreshold
  /\ MaxTaskTime \in 1..(DayLength - 1)
  /\ {MaxTime, MaxLag, MaxOutcomes, MaxFaults} \subseteq Nat

\* Mutant: the key lives until the next heartbeat only.
BEAT_TTLShort == Interval

BEAT_TTL == 2 * StaleThreshold

VARIABLES
  clock,
  row,       \* each publication and run: its status, and since when
  schedule,  \* the tasks in beat's schedule
  beatUp,    \* beat runs
  last,      \* when beat last sent the digest
  earlier,   \* the same before that, which the schedule file may still say
  nextBeat,  \* when the heartbeat thread writes next
  heartbeat, \* when the last heartbeat was stored
  queued,    \* the tasks in the broker
  marks,     \* the digests marked in Redis (for 48 h; an execution is shorter)
  exec,      \* executions of the digest task
  tried,     \* history: digests given to ntfy, by channel and date
  reported,  \* history: what the digests that arrived have reported
  missed,    \* history: an execution was lost
  alert,     \* history: the check that was sent last has raised an alert
  unstored,  \* history: an error of Redis has kept a heartbeat from it
  outcomes, faults   \* counters

beat   == <<schedule, beatUp, last, earlier, nextBeat>>
digest == <<marks, exec, tried, reported, missed>>
health == <<heartbeat, alert, unstored>>
counts == <<outcomes, faults>>
vars   == <<clock, row, beat, health, queued, digest, counts>>

NoRow == [status |-> "none", at |-> 0]
Idle  == [pc |-> "idle", now |-> 0, n |-> 1, found |-> {}, moved |-> {}]

Init ==
  /\ clock = 0
  /\ \E first \in {NoRow, [status |-> "failed", at |-> 0]} : row = [i \in Items |-> first]
  /\ schedule \in Schedules
  /\ beatUp = TRUE /\ last = 0 /\ earlier = 0
  /\ nextBeat = Interval /\ heartbeat = 0
  /\ queued = {}
  /\ marks = {}
  /\ exec = [e \in Execs |-> Idle]
  /\ tried = [m \in Digests |-> 0]
  /\ reported = {} /\ missed = FALSE /\ alert = FALSE
  /\ unstored = FALSE /\ outcomes = 0 /\ faults = 0

Fault == faults < MaxFaults /\ faults' = faults + 1

\* Redis still has a key that was set at t for ttl.
Present(t, ttl) == clock < t + ttl
-----------------------------------------------------------------------------
(* Publications and runs.  The time of a row is taken before its commit, a *)
(* publication's before the uploads that follow in its transaction.        *)

Outcomes(i) == IF i \in Publishes THEN {"published", "failed"}
                                  ELSE {"failed", "exhausted", "retried"}

Moved(i) == exec' = [e \in Execs |-> IF exec[e].pc = "idle" THEN exec[e]
                                     ELSE [exec[e] EXCEPT !.moved = @ \cup {i}]]

CommitRow(i) ==
  /\ outcomes < MaxOutcomes
  /\ \E s \in Outcomes(i), at \in Time :
       /\ at >= row[i].at /\ at <= clock /\ clock <= at + MaxLag
       /\ row' = [row EXCEPT ![i] = [status |-> s, at |-> at]]
  /\ outcomes' = outcomes + 1
  /\ Moved(i)
  /\ UNCHANGED <<clock, beat, health, queued, marks, tried, reported, missed, faults>>
-----------------------------------------------------------------------------
(* Beat, and the thread in it that writes the heartbeat.                   *)

\* The last time at which the crontab names the digest; 0 before the first.
LastSlot == IF clock < DigestTime THEN 0
            ELSE ((clock - DigestTime) \div DayLength) * DayLength + DigestTime

SendDigestTask ==
  /\ beatUp /\ "digest" \in schedule \ queued /\ last < LastSlot
  /\ queued' = queued \cup {"digest"}
  /\ last' = clock /\ earlier' = last
  /\ UNCHANGED <<clock, row, schedule, beatUp, nextBeat, health, digest, counts>>

\* Its period is left out: a check may be sent in any tick.
SendCheckTask ==
  /\ beatUp /\ "check" \in schedule \ queued
  /\ queued' = queued \cup {"check"}
  /\ alert' = FALSE
  /\ UNCHANGED <<clock, row, beat, heartbeat, unstored, digest, counts>>

StoreHeartbeat ==
  \/ /\ heartbeat' = clock'
     /\ UNCHANGED <<unstored, faults>>
  \/ /\ "check" \in schedule   \* who reads the heartbeat
     /\ Fault
     /\ unstored' = TRUE
     /\ UNCHANGED heartbeat

BeatCrash ==
  /\ beatUp /\ Fault
  /\ beatUp' = FALSE
  /\ UNCHANGED <<clock, row, schedule, last, earlier, nextBeat, health, queued, digest, outcomes>>

BeatStart ==
  /\ ~beatUp
  /\ beatUp' = TRUE /\ clock' = clock
  /\ last' \in {last, earlier}
  /\ earlier' = last'
  /\ StoreHeartbeat
  /\ nextBeat' = clock + Interval
  /\ UNCHANGED <<row, schedule, queued, digest, alert, outcomes>>
-----------------------------------------------------------------------------
(* check_beat_health                                                       *)

\* A missing heartbeat is stale.
Stale == \/ ~Present(heartbeat, BEAT_TTL)
         \/ clock - heartbeat > StaleThreshold

CheckBeat ==
  /\ "check" \in queued
  /\ queued' = queued \ {"check"}
  /\ \/ /\ alert' = Stale
        /\ UNCHANGED faults
     \/ /\ Fault
        /\ alert' = FALSE
  /\ UNCHANGED <<clock, row, beat, heartbeat, unstored, digest, outcomes>>
-----------------------------------------------------------------------------
(* send_daily_channel_digests                                              *)

\* digest_window_utc.  Mutant: the last 24 hours.
InWindowOf24Hours(i, now) == /\ row[i].at + DayLength >= now
                             /\ row[i].at < now

InWindow(i, now) == /\ row[i].at >= DateOf(now) * DayLength
                    /\ row[i].at < now

ListPublished(c, now) ==
  {i \in Publishes : ChannelOf[i] = c /\ row[i].status = "published" /\ InWindow(i, now)}
\* Mutant: whenever it failed.
ListFailedEver(c, now) == {i \in Publishes : ChannelOf[i] = c /\ row[i].status = "failed"}

ListFailed(c, now) ==
  {i \in Publishes : ChannelOf[i] = c /\ row[i].status = "failed" /\ InWindow(i, now)}
ListFailedRuns(c, now) ==
  {i \in Runs : ChannelOf[i] = c /\ row[i].status \in {"failed", "exhausted"} /\ InWindow(i, now)}

\* .limit(100): the answers of a query that has an order and a limit.  Which
\* rows remain makes no difference to a digest: it has only their number.
UpToLimit(S) == IF Cardinality(S) <= ListLimit THEN {S} ELSE kSubset(ListLimit, S)

ListPending(c) == UpToLimit({i \in Publishes : ChannelOf[i] = c /\ row[i].status = "failed"})
ListRetryable(c) == UpToLimit({i \in Runs : ChannelOf[i] = c /\ row[i].status = "failed"})

Queries == <<"published", "failedPublishes", "failedRuns", "pendingPublishes", "pendingRuns">>

\* What the query may answer for channel c.
Answers(q, c, now) == CASE q = "published"        -> {ListPublished(c, now)}
                        [] q = "failedPublishes"  -> {ListFailed(c, now)}
                        [] q = "failedRuns"       -> {ListFailedRuns(c, now)}
                        [] q = "pendingPublishes" -> ListPending(c)
                        [] q = "pendingRuns"      -> ListRetryable(c)

Begin(e) ==
  /\ exec[e].pc = "idle" /\ "digest" \in queued
  /\ queued' = queued \ {"digest"}
  /\ exec' = [exec EXCEPT ![e] = [Idle EXCEPT !.pc = "read", !.now = clock]]
  /\ UNCHANGED <<clock, row, beat, health, marks, tried, reported,
                 missed, counts>>

\* The query which is the n-th of all, and its channel.
ChannelAt(n) == ((n - 1) \div Len(Queries)) + 1
QueryAt(n)   == Queries[((n - 1) % Len(Queries)) + 1]

\* build_daily_digests_for_active_channels, a query at a time.
Found(e, S) == {[query |-> QueryAt(exec[e].n), item |-> i, at |-> row[i].at] : i \in S}

AllFound(e) == exec[e].n = MaxChannel * Len(Queries)

Read(e) ==
  /\ exec[e].pc = "read"
  /\ \E S \in Answers(QueryAt(exec[e].n), ChannelAt(exec[e].n), exec[e].now) :
       exec' = [exec EXCEPT ![e] =
                  [@ EXCEPT !.found = exec[e].found \cup Found(e, S),
                            !.n = IF AllFound(e) THEN 1 ELSE exec[e].n + 1,
                            !.pc = IF AllFound(e) THEN "mark" ELSE "read"]]
  /\ UNCHANGED <<clock, row, beat, health, queued, marks, tried,
                 reported, missed, counts>>

\* On to the next channel, or the end of the task.  Mutant: past the end.
AdvancedAlways(e) == [exec[e] EXCEPT !.n = @ + 1, !.pc = "mark"]

Advanced(e) == IF exec[e].n = MaxChannel THEN Idle
               ELSE [exec[e] EXCEPT !.n = @ + 1, !.pc = "mark"]

DigestOf(e) == [channel |-> exec[e].n, date |-> DateOf(exec[e].now)]
Marked(e)   == DigestOf(e) \in marks

\* SET NX: one of several executions gets the key.
SetMark(e) == marks' = marks \cup {DigestOf(e)}

\* Mutants: SET without NX; the result taken for its opposite.
MarkDigestSentAgain(e) ==
  /\ exec[e].pc = "mark"
  /\ SetMark(e)
  /\ exec' = [exec EXCEPT ![e].pc = "send"]
  /\ UNCHANGED <<clock, row, beat, health, queued, tried, reported,
                 missed, counts>>

MarkDigestSentSkipping(e) ==
  /\ exec[e].pc = "mark"
  /\ ~Marked(e)
  /\ SetMark(e)
  /\ exec' = [exec EXCEPT ![e] = Advanced(e)]
  /\ UNCHANGED <<clock, row, beat, health, queued, tried, reported,
                 missed, counts>>

MarkDigestSent(e) ==
  /\ exec[e].pc = "mark"
  /\ ~Marked(e)
  /\ SetMark(e)
  /\ exec' = [exec EXCEPT ![e].pc = "send"]
  /\ UNCHANGED <<clock, row, beat, health, queued, tried, reported,
                 missed, counts>>

SkipDuplicate(e) ==
  /\ exec[e].pc = "mark"
  /\ Marked(e)
  /\ exec' = [exec EXCEPT ![e] = Advanced(e)]
  /\ UNCHANGED <<clock, row, beat, health, queued, marks, tried,
                 reported, missed, counts>>

\* An error of Redis ends the task, for the channels after this one too.  It
\* may have set the key.
MarkRaises(e) ==
  /\ exec[e].pc = "mark" /\ Fault
  /\ \/ UNCHANGED <<marks, missed>>
     \/ /\ ~Marked(e)
        /\ SetMark(e)
        /\ missed' = TRUE
  /\ exec' = [exec EXCEPT ![e] = Idle]
  /\ UNCHANGED <<clock, row, beat, health, queued, tried, reported, outcomes>>

\* What a digest says of its day.
News(e) == {[item |-> f.item, at |-> f.at, date |-> DateOf(exec[e].now)] :
              f \in {g \in exec[e].found : /\ ChannelOf[g.item] = exec[e].n
                                           /\ g.query \notin {"pendingPublishes", "pendingRuns"}}}

\* ntfy takes it, or fails, which is only logged.
SendDigest(e) ==
  /\ exec[e].pc = "send"
  /\ tried' = [tried EXCEPT ![DigestOf(e)] = @ + 1]
  /\ \/ reported' = reported \cup News(e)
     \/ UNCHANGED reported
  /\ exec' = [exec EXCEPT ![e] = Advanced(e)]
  /\ UNCHANGED <<clock, row, beat, health, queued, marks, missed, counts>>

\* The task was acknowledged when it began: it does not come back.
Crash(e) ==
  /\ exec[e].pc # "idle" /\ Fault
  /\ exec' = [exec EXCEPT ![e] = Idle]
  /\ missed' = TRUE
  /\ UNCHANGED <<clock, row, beat, health, queued, marks, tried, reported, outcomes>>
-----------------------------------------------------------------------------
\* The heartbeat thread.
WriteHeartbeat ==
  IF beatUp /\ nextBeat = clock'
  THEN /\ StoreHeartbeat
       /\ nextBeat' = clock' + Interval
  ELSE UNCHANGED <<nextBeat, heartbeat, unstored, faults>>

\* The heartbeat thread is on time, and an execution ends in its time.
Tick ==
  /\ clock < MaxTime
  /\ \A e \in Execs : exec[e].pc # "idle" => clock < exec[e].now + MaxTaskTime
  /\ clock' = clock + 1
  /\ WriteHeartbeat
  /\ UNCHANGED <<row, schedule, beatUp, last, earlier, queued, digest, alert, outcomes>>

Next ==
  \/ Tick
  \/ \E i \in Items : CommitRow(i)
  \/ SendDigestTask \/ SendCheckTask
  \/ BeatCrash \/ BeatStart
  \/ CheckBeat
  \/ \E e \in Execs : \/ Begin(e) \/ Read(e) \/ MarkDigestSent(e) \/ SkipDuplicate(e)
                      \/ MarkRaises(e) \/ SendDigest(e) \/ Crash(e)

Spec == Init /\ [][Next]_vars
-----------------------------------------------------------------------------
Statuses == {"none", "published", "failed", "exhausted", "retried"}
RowType  == [status : Statuses, at : Time]

\* The shapes of the state.  A time lies in the past, except the heartbeat
\* thread's next one, and a running execution has a channel and a query left.
TypeOK ==
  /\ clock \in Time
  /\ row \in [Items -> RowType]
  /\ \A i \in Items : row[i].at <= clock
  /\ beatUp \in BOOLEAN /\ alert \in BOOLEAN /\ missed \in BOOLEAN
  /\ last \in 0..clock /\ earlier \in 0..clock
  /\ nextBeat \in 0..(clock + Interval) /\ heartbeat \in 0..clock
  /\ schedule \in Schedules /\ queued \subseteq schedule
  /\ marks \subseteq Digests
  /\ \A e \in Execs :
       /\ exec[e].pc \in {"idle", "read", "mark", "send"}
       /\ exec[e].now \in 0..clock /\ exec[e].moved \subseteq Items
       /\ exec[e].n \in 1..(IF exec[e].pc = "read" THEN MaxChannel * Len(Queries)
                                                   ELSE MaxChannel)
       /\ exec[e].found \subseteq [query : {Queries[k] : k \in DOMAIN Queries},
                                   item : Items, at : 0..clock]
  /\ tried \in [Digests -> Nat]
  /\ reported \subseteq [item : Items, at : Time, date : Dates]
  /\ unstored \in BOOLEAN /\ outcomes \in 0..MaxOutcomes /\ faults \in 0..MaxFaults

\* A channel gets one digest a day, although beat, restarted with an old
\* schedule file, sends the task again and executions overlap
\* (tasks/notifications.py:25, DIGEST_SENT_TTL_SECONDS and nx).
OncePerDay == \A m \in Digests : tried[m] <= 1

\* A mark never suppresses a digest that nobody tries to send: it was tried, or
\* the execution that set the mark is about to, or was lost in between
\* (tasks/notifications.py:50-58).
MarkedIsTried ==
  \A m \in marks :
     \/ tried[m] > 0
     \/ missed
     \/ \E e \in Execs : exec[e].pc = "send" /\ DigestOf(e) = m

\* What ended at one time is reported by the digest of one day: the windows of
\* two days do not overlap, however late their tasks are executed
\* (services/channel_digest.py:27-30).
ReportedOnce ==
  \A r, s \in reported : r.item = s.item /\ r.at = s.at => r.date = s.date

\* The items a digest has counted for a channel by one of its queries.
Counted(e, q, c) == {f.item : f \in {g \in exec[e].found : g.query = q /\ ChannelOf[g.item] = c}}

\* A digest that has been read has every row which did not move meanwhile where
\* it belongs, and nowhere else: what ended on the day, before the task, in the
\* list of its status; what failed and may be retried in the counts, of which
\* each stops at the limit, so that a row is left out of a count only when the
\* count says the limit.  Only a row committed between two queries may be in
\* two lists, or in none (services/channel_digest.py:68-92,
\* cruds/video.py:316-341, cruds/pipeline_run.py:361-384).
ReportsTheDay ==
  \A e \in Execs : exec[e].pc \in {"mark", "send"} =>
     /\ \A i \in Items \ exec[e].moved :
          LET lists == {f.query : f \in {g \in exec[e].found : g.item = i}}
              today == DateOf(row[i].at) = DateOf(exec[e].now) /\ row[i].at # exec[e].now
              s     == row[i].status
              count == IF i \in Publishes THEN "pendingPublishes" ELSE "pendingRuns"
          IN /\ "published" \in lists <=> s = "published" /\ today
             /\ "failedPublishes" \in lists <=> i \in Publishes /\ s = "failed" /\ today
             /\ "failedRuns" \in lists <=> i \in Runs /\ s \in {"failed", "exhausted"} /\ today
             /\ lists \cap {"pendingPublishes", "pendingRuns"} \subseteq
                  {q \in {count} : s = "failed"}
             /\ s = "failed" => \/ count \in lists
                                \/ Cardinality(Counted(e, count, ChannelOf[i])) = ListLimit
     /\ \A c \in Channels, q \in {"pendingPublishes", "pendingRuns"} :
          Cardinality(Counted(e, q, c)) <= ListLimit

\* An alert is true: the heartbeat has been missing for longer than the
\* threshold, and either beat does not run or Redis has kept a heartbeat from
\* it (tasks/health.py: the interval, the threshold, the expiry, and a write
\* at the start).  The converse does not hold: beat sends the check itself.
AlertMeansSilence ==
  [][("check" \in queued \ queued' /\ alert')
       => /\ clock - heartbeat > StaleThreshold
          /\ beatUp => unstored]_vars
=============================================================================
