--------------------------- MODULE BeatTasksProofs ---------------------------
(* Proofs about BeatTasks, for any channels, items, executions and times.   *)
EXTENDS BeatTasks, TLAPS

(* The shape of an execution.                                              *)
Lists   == {Queries[k] : k \in DOMAIN Queries}
Pending == {"pendingPublishes", "pendingRuns"}
Records == [pc : {"idle", "read", "mark", "send"}, now : Nat, n : Nat,
            found : SUBSET [query : Lists, item : Items, at : Nat],
            moved : SUBSET Items]
ExecOK(x) == /\ x.now \in 0..clock
             /\ x.n \in 1..(IF x.pc = "read" THEN MaxChannel * Len(Queries) ELSE MaxChannel)
             /\ x.found \subseteq [query : Lists, item : Items, at : 0..clock]

Tables == /\ clock \in Time
          /\ row \in [Items -> RowType]
          /\ \A i \in Items : row[i].at <= clock
          /\ beatUp \in BOOLEAN /\ alert \in BOOLEAN /\ missed \in BOOLEAN
          /\ last \in 0..clock /\ earlier \in 0..clock
          /\ nextBeat \in 0..(clock + Interval) /\ heartbeat \in 0..clock
          /\ schedule \in Schedules /\ queued \subseteq schedule
          /\ marks \subseteq Digests
          /\ tried \in [Digests -> Nat]
          /\ reported \subseteq [item : Items, at : Time, date : Dates]
          /\ unstored \in BOOLEAN /\ outcomes \in 0..MaxOutcomes /\ faults \in 0..MaxFaults

Shape == Tables /\ exec \in [Execs -> Records] /\ \A e \in Execs : ExecOK(exec[e])

(* Only publications are published.                                        *)
RowKinds == \A i \in Items : row[i].status = "published" => i \in Publishes

(* An execution that is sending has the mark of the digest to itself, and  *)
(* the digest has not been tried.                                          *)
Sending(e) == exec[e].pc = "send"
Senders == \A e \in Execs : Sending(e) => DigestOf(e) \in marks /\ tried[DigestOf(e)] = 0
Alone   == \A e, f \in Execs : e # f /\ Sending(e) /\ Sending(f) => DigestOf(e) # DigestOf(f)
TriedIsMarked == \A m \in Digests : tried[m] > 0 => m \in marks
Digested == Senders /\ Alone /\ TriedIsMarked /\ OncePerDay /\ MarkedIsTried

(* What an execution has read so far is what the rows say that have not    *)
(* moved since it began: the lists of the day have all of it, the counts   *)
(* all of it or as many as the limit.  The windows are parts of its day.   *)
Windowed(q, c, now) == IF q = "published" THEN ListPublished(c, now)
                       ELSE IF q = "failedPublishes" THEN ListFailed(c, now)
                       ELSE ListFailedRuns(c, now)
Waiting(q, c) == {i \in (IF q = "pendingPublishes" THEN Publishes ELSE Runs) :
                    ChannelOf[i] = c /\ row[i].status = "failed"}

Asked(e) == IF exec[e].pc = "read" THEN exec[e].n - 1 ELSE MaxChannel * Len(Queries)
Has(e, q, i) == \E f \in exec[e].found : f.item = i /\ f.query = q
Reached(e, q, c) == \E k \in 1..Asked(e) : QueryAt(k) = q /\ ChannelAt(k) = c
Agrees(e, i) == /\ row[i].at <= exec[e].now
                /\ \A q \in Lists \ Pending :
                     Has(e, q, i) <=> /\ i \in Windowed(q, ChannelOf[i], exec[e].now)
                                      /\ Reached(e, q, ChannelOf[i])
Counts(S, q, c, moved) == /\ Cardinality(S) <= ListLimit
                          /\ S \ moved \subseteq Waiting(q, c)
                          /\ \/ Cardinality(S) = ListLimit
                             \/ Waiting(q, c) \ moved \subseteq S
CountOK(e, q, c) == IF Reached(e, q, c) THEN Counts(Counted(e, q, c), q, c, exec[e].moved)
                    ELSE Counted(e, q, c) = {}
Faithful(e) == exec[e].pc # "idle" =>
                 /\ \A i \in Items \ exec[e].moved : Agrees(e, i)
                 /\ \A q \in Pending, c \in Channels : CountOK(e, q, c)
Dated(e) == \A f \in exec[e].found : f.query \notin Pending => DateOf(f.at) = DateOf(exec[e].now)
Reading  == \A e \in Execs : Dated(e) /\ Faithful(e)
Reported == \A r \in reported : r.date = DateOf(r.at)

(* The heartbeat thread is never late, and stores the time or has met an   *)
(* error.                                                                  *)
Beating == beatUp => /\ clock < nextBeat
                     /\ unstored \/ nextBeat = heartbeat + Interval

IInv == Shape /\ RowKinds /\ Digested /\ Reading /\ Reported /\ Beating
-----------------------------------------------------------------------------
(* Days, and the numbering of the queries.                                 *)

LEMMA SameDay ==
  ASSUME BeatAssumption, NEW t \in Nat, NEW u \in Nat,
         t >= DateOf(u) * DayLength, t <= u
  PROVE  DateOf(t) = DateOf(u)
  <1>1. DayLength \in Nat \ {0}
    BY DEF BeatAssumption
  <1> QED
    BY <1>1 DEF DateOf

LEMMA DateGrows ==
  ASSUME BeatAssumption, NEW t \in Nat, NEW u \in Nat, t <= u
  PROVE  DateOf(t) \in 0..DateOf(u)
  BY DEF DateOf, BeatAssumption

LEMMA FiveLists ==
  /\ Len(Queries) = 5
  /\ Lists = {"published", "failedPublishes", "failedRuns", "pendingPublishes", "pendingRuns"}
  <1>1. Len(Queries) = 5
    BY DEF Queries
  <1>2. DOMAIN Queries = {1, 2, 3, 4, 5}
    BY DEF Queries
  <1>3. Lists = {Queries[1], Queries[2], Queries[3], Queries[4], Queries[5]}
    BY <1>2 DEF Lists
  <1> QED
    BY <1>1, <1>3 DEF Queries

(* A query under way is one of the five, for one of the channels.          *)
LEMMA QueryInRange ==
  ASSUME BeatAssumption, NEW k \in 1..(MaxChannel * Len(Queries))
  PROVE  QueryAt(k) \in Lists /\ ChannelAt(k) \in Channels
  <1>1. (k - 1) % 5 \in 0..4 /\ (k - 1) \div 5 \in 0..(MaxChannel - 1)
    BY FiveLists DEF BeatAssumption
  <1>2. DOMAIN Queries = 1..5
    BY DEF Queries
  <1> QED
    BY <1>1, <1>2, FiveLists DEF QueryAt, ChannelAt, Lists, Channels, BeatAssumption

(* All of them have been asked in the end.                                 *)
LEMMA AllReached ==
  ASSUME BeatAssumption, NEW e, exec[e].pc # "read", NEW q \in Lists, NEW c \in Channels
  PROVE  Reached(e, q, c)
  <1>1. PICK j \in 1..5 : q = Queries[j]
    <2>1. DOMAIN Queries = 1..5
      BY DEF Queries
    <2> QED
      BY <2>1 DEF Lists
  <1> DEFINE k == (c - 1) * 5 + j
  <1>2. c \in 1..MaxChannel /\ MaxChannel \in Nat
    BY DEF BeatAssumption, Channels
  <1>3. k \in 1..(MaxChannel * 5)
    BY <1>2
  <1>4. (k - 1) \div 5 = c - 1 /\ (k - 1) % 5 = j - 1
    BY <1>2
  <1>5. QueryAt(k) = q /\ ChannelAt(k) = c
    BY <1>1, <1>2, <1>4, FiveLists DEF QueryAt, ChannelAt
  <1>6. Asked(e) = MaxChannel * 5
    BY FiveLists DEF Asked
  <1> QED
    BY <1>3, <1>5, <1>6 DEF Reached

(* Each has a number of its own.                                           *)
LEMMA AskedOnce ==
  ASSUME NEW k \in Nat \ {0}, NEW n \in Nat \ {0},
         QueryAt(k) = QueryAt(n), ChannelAt(k) = ChannelAt(n)
  PROVE  k = n
  <1>1. (k - 1) % 5 \in 0..4 /\ (n - 1) % 5 \in 0..4
    OBVIOUS
  <1>2. (k - 1) \div 5 = (n - 1) \div 5
    BY FiveLists DEF ChannelAt
  <1>3. \A a, b \in 1..5 : Queries[a] = Queries[b] => a = b
    BY DEF Queries
  <1>4. ((k - 1) % 5) + 1 = ((n - 1) % 5) + 1
    <2>1. Queries[((k - 1) % 5) + 1] = Queries[((n - 1) % 5) + 1]
      BY FiveLists DEF QueryAt
    <2>2. ((k - 1) % 5) + 1 \in 1..5 /\ ((n - 1) % 5) + 1 \in 1..5
      BY <1>1
    <2> HIDE DEF Queries
    <2> QED
      BY <1>3, <2>1, <2>2
  <1> QED
    BY <1>2, <1>4

(* What a query answers: all of the day's, or as many as the limit of what *)
(* is waiting.                                                             *)
LEMMA AnswersKnown ==
  ASSUME NEW q \in Lists, NEW c, NEW now
  PROVE  /\ q \notin Pending => Answers(q, c, now) = {Windowed(q, c, now)}
         /\ q \in Pending => Answers(q, c, now) = UpToLimit(Waiting(q, c))
  BY FiveLists DEF Answers, Windowed, Waiting, Pending, ListPending, ListRetryable

LEMMA LimitKept ==
  ASSUME NEW q, NEW c, NEW S \in UpToLimit(Waiting(q, c)), NEW moved
  PROVE  S \subseteq Waiting(q, c) /\ Counts(S, q, c, moved)
  <1>1. CASE Cardinality(Waiting(q, c)) <= ListLimit
    BY <1>1 DEF UpToLimit, Counts
  <1>2. CASE ~(Cardinality(Waiting(q, c)) <= ListLimit)
    <2>1. S \subseteq Waiting(q, c) /\ Cardinality(S) = ListLimit
      BY <1>2 DEF UpToLimit, kSubset
    <2>2. Cardinality(S) <= ListLimit
      BY <2>1, BeatAssumption DEF BeatAssumption
    <2> QED
      BY <2>1, <2>2 DEF Counts
  <1> QED
    BY <1>1, <1>2

LEMMA AnswerOfChannel ==
  ASSUME NEW q \in Lists, NEW c, NEW now, NEW S \in Answers(q, c, now)
  PROVE  /\ \A i \in S : i \in Items /\ ChannelOf[i] = c
         /\ q \notin Pending => \A i \in S : InWindow(i, now)
  <1>1. CASE q \notin Pending
    BY <1>1, AnswersKnown DEF Windowed, ListPublished, ListFailed, ListFailedRuns, Items
  <1>2. CASE q \in Pending
    <2>1. S \subseteq Waiting(q, c)
      BY <1>2, AnswersKnown, LimitKept
    <2> QED
      BY <1>2, <2>1 DEF Waiting, Items
  <1> QED
    BY <1>1, <1>2
-----------------------------------------------------------------------------
(* Types.                                                                  *)

LEMMA ShapeTypes == Shape => TypeOK
  <1> SUFFICES ASSUME Shape PROVE TypeOK
    OBVIOUS
  <1>1. ASSUME NEW e \in Execs
        PROVE  /\ exec[e].pc \in {"idle", "read", "mark", "send"}
               /\ exec[e].now \in 0..clock /\ exec[e].moved \subseteq Items
               /\ exec[e].n \in 1..(IF exec[e].pc = "read" THEN MaxChannel * Len(Queries)
                                                          ELSE MaxChannel)
               /\ exec[e].found \subseteq [query : {Queries[k] : k \in DOMAIN Queries},
                                           item : Items, at : 0..clock]
    BY DEF Shape, ExecOK, Records, Lists
  <1> QED
    BY <1>1 DEF Shape, Tables, TypeOK

(* The digest an execution is about is one of the days of the model.       *)
LEMMA DigestKnown ==
  ASSUME BeatAssumption, Shape, NEW e \in Execs
  PROVE  /\ DateOf(exec[e].now) \in Dates
         /\ exec[e].pc # "read" => DigestOf(e) \in Digests
  <1>1. exec[e].now \in Nat /\ MaxTime \in Nat /\ exec[e].now <= MaxTime
    BY SMTT(30) DEF Shape, Tables, ExecOK, Time, BeatAssumption
  <1>2. DateOf(exec[e].now) \in Dates
    BY <1>1, DateGrows DEF Dates
  <1> QED
    BY <1>2 DEF DigestOf, Digests, Shape, ExecOK, Channels

(* A step of e that leaves the clock where it is.                          *)
Becomes(e, x) == exec' = [exec EXCEPT ![e] = x] /\ clock' = clock

LEMMA BecomesKeeps ==
  ASSUME Shape, NEW e \in Execs, NEW x \in Records, ExecOK(x), Becomes(e, x), Tables'
  PROVE  Shape'
  <1>1. exec' \in [Execs -> Records]
    BY DEF Shape, Becomes
  <1>2. ASSUME NEW f \in Execs PROVE ExecOK(exec[f])'
    <2>1. exec'[f] = x \/ exec'[f] = exec[f]
      BY DEF Shape, Becomes
    <2>2. ExecOK(exec[f]) /\ clock' = clock
      BY DEF Shape, Becomes
    <2> QED
      BY <2>1, <2>2 DEF ExecOK
  <1> QED
    BY <1>1, <1>2 DEF Shape

LEMMA IdleOK ==
  ASSUME BeatAssumption, Shape
  PROVE  Idle \in Records /\ ExecOK(Idle)
  BY DEF Idle, Records, ExecOK, Shape, Tables, Time, BeatAssumption

LEMMA AdvancedOK ==
  ASSUME BeatAssumption, Shape, NEW e \in Execs, exec[e].pc \in {"mark", "send"}
  PROVE  Advanced(e) \in Records /\ ExecOK(Advanced(e))
  <1>1. exec[e] \in Records /\ ExecOK(exec[e])
    BY DEF Shape
  <1>2. CASE exec[e].n = MaxChannel
    BY <1>2, IdleOK DEF Advanced
  <1>3. CASE exec[e].n # MaxChannel
    <2>1. exec[e].n \in 1..MaxChannel
      BY <1>1 DEF ExecOK
    <2>2. exec[e].n + 1 \in 1..MaxChannel /\ exec[e].n + 1 \in Nat
      BY <2>1, <1>3 DEF BeatAssumption
    <2>3. Advanced(e) \in Records
      <3>1. Advanced(e) = [exec[e] EXCEPT !.n = exec[e].n + 1, !.pc = "mark"]
        BY <1>3 DEF Advanced
      <3> QED
        BY <1>1, <2>2, <3>1 DEF Records
    <2>4. /\ Advanced(e).pc = "mark" /\ Advanced(e).n = exec[e].n + 1
          /\ Advanced(e).now = exec[e].now /\ Advanced(e).found = exec[e].found
      BY <1>1, <1>3 DEF Advanced, Records
    <2> QED
      BY <1>1, <2>2, <2>3, <2>4 DEF ExecOK
  <1> QED
    BY <1>2, <1>3

(* What the n-th query finds.                                              *)
LEMMA FoundOK ==
  ASSUME BeatAssumption, Shape, NEW e \in Execs, exec[e].pc = "read",
         NEW S \in Answers(QueryAt(exec[e].n), ChannelAt(exec[e].n), exec[e].now)
  PROVE  /\ exec[e].n \in 1..(MaxChannel * Len(Queries))
         /\ QueryAt(exec[e].n) \in Lists
         /\ Found(e, S) \subseteq [query : Lists, item : Items, at : 0..clock]
  <1> DEFINE q == QueryAt(exec[e].n)
  <1>1. exec[e].n \in 1..(MaxChannel * Len(Queries))
    BY DEF Shape, ExecOK
  <1>2. q \in Lists
    BY <1>1, QueryInRange
  <1>3. \A i \in Items : row[i].at \in 0..clock
    BY DEF Shape, Tables, RowType, Time, BeatAssumption
  <1>4. S \subseteq Items
    BY <1>2, AnswerOfChannel
  <1> QED
    BY <1>1, <1>2, <1>3, <1>4 DEF Found

LEMMA ReadOK ==
  ASSUME BeatAssumption, Shape, NEW e \in Execs, Read(e)
  PROVE  /\ exec'[e] \in Records /\ ExecOK(exec'[e]) /\ Becomes(e, exec'[e])
         /\ \E S \in Answers(QueryAt(exec[e].n), ChannelAt(exec[e].n), exec[e].now) :
              exec'[e].found = exec[e].found \cup Found(e, S)
         /\ exec'[e].now = exec[e].now /\ exec'[e].moved = exec[e].moved
         /\ exec'[e].pc \in {"read", "mark"} /\ Asked(e)' = exec[e].n
  <1>0. PICK S \in Answers(QueryAt(exec[e].n), ChannelAt(exec[e].n), exec[e].now) :
          exec' = [exec EXCEPT ![e] =
                     [@ EXCEPT !.found = exec[e].found \cup Found(e, S),
                               !.n = IF AllFound(e) THEN 1 ELSE exec[e].n + 1,
                               !.pc = IF AllFound(e) THEN "mark" ELSE "read"]]
    BY DEF Read
  <1> DEFINE n == exec[e].n
             total == MaxChannel * Len(Queries)
             x == [exec[e] EXCEPT !.found = exec[e].found \cup Found(e, S),
                                  !.n = IF AllFound(e) THEN 1 ELSE n + 1,
                                  !.pc = IF AllFound(e) THEN "mark" ELSE "read"]
  <1>1. exec[e] \in Records /\ ExecOK(exec[e]) /\ exec[e].pc = "read"
    BY DEF Shape, Read
  <1>2. total \in Nat \ {0} /\ n \in 1..total /\ MaxChannel \in Nat \ {0}
    BY <1>1, FiveLists DEF ExecOK, BeatAssumption
  <1>3. AllFound(e) <=> n = total
    BY DEF AllFound
  <1>4. exec' = [exec EXCEPT ![e] = x] /\ clock' = clock
    BY <1>0 DEF Read
  <1> HIDE DEF total, x
  <1>5. clock \in Nat /\ Found(e, S) \subseteq [query : Lists, item : Items, at : 0..clock]
    <2>1. clock \in Nat
      BY DEF Shape, Tables, Time, BeatAssumption
    <2>2. Found(e, S) \subseteq [query : Lists, item : Items, at : 0..clock]
      BY <1>1, FoundOK
    <2> QED
      BY <2>1, <2>2
  <1> USE DEF x
  <1>6. x \in Records
    <2>1. Found(e, S) \subseteq [query : Lists, item : Items, at : Nat]
      BY <1>5
    <2>2. exec[e].found \cup Found(e, S) \in SUBSET [query : Lists, item : Items, at : Nat]
      BY <1>1, <2>1 DEF Records
    <2>3. (IF AllFound(e) THEN 1 ELSE n + 1) \in Nat
      BY <1>2
    <2>4. (IF AllFound(e) THEN "mark" ELSE "read") \in {"idle", "read", "mark", "send"}
      OBVIOUS
    <2> QED
      BY <1>1, <2>2, <2>3, <2>4 DEF Records
  <1>7. /\ x.found = exec[e].found \cup Found(e, S)
        /\ x.now = exec[e].now /\ x.moved = exec[e].moved
        /\ x.n = IF n = total THEN 1 ELSE n + 1
        /\ x.pc = IF n = total THEN "mark" ELSE "read"
    BY <1>1, <1>3 DEF Records
  <1>8. exec'[e] = x
    BY <1>4 DEF Shape
  <1> HIDE DEF x
  <1>9. ExecOK(x)
    <2>1. x.now \in 0..clock /\ x.found \subseteq [query : Lists, item : Items, at : 0..clock]
      BY <1>1, <1>5, <1>7 DEF ExecOK
    <2>2. x.n \in 1..(IF x.pc = "read" THEN total ELSE MaxChannel)
      BY <1>2, <1>7
    <2> QED
      BY <2>1, <2>2 DEF ExecOK, total
  <1>10. Asked(e)' = n
    <2>1. Asked(e)' = IF exec'[e].pc = "read" THEN exec'[e].n - 1 ELSE total
      BY DEF Asked, total
    <2> QED
      BY <1>2, <1>7, <1>8, <2>1
  <1> QED
    BY <1>4, <1>6, <1>7, <1>8, <1>9, <1>10 DEF Becomes

LEMMA InitShape ==
  ASSUME BeatAssumption, Init PROVE Shape
  <1>1. /\ {MaxTime, Interval, MaxOutcomes, MaxFaults} \subseteq Nat
        /\ MaxChannel \in Nat \ {0}
    BY DEF BeatAssumption
  <1>2. row \in [Items -> RowType] /\ \A i \in Items : row[i].at = 0
    <2>1. NoRow \in RowType /\ NoRow.at = 0
      BY <1>1 DEF NoRow, RowType, Statuses, Time
    <2>2. [status |-> "failed", at |-> 0] \in RowType
      BY <1>1 DEF RowType, Statuses, Time
    <2> QED
      BY <2>1, <2>2 DEF Init
  <1>3. /\ clock \in Time /\ last \in 0..clock /\ earlier \in 0..clock
        /\ nextBeat \in 0..(clock + Interval) /\ heartbeat \in 0..clock
        /\ outcomes \in 0..MaxOutcomes /\ faults \in 0..MaxFaults
        /\ \A i \in Items : row[i].at <= clock
    BY <1>1, <1>2 DEF Init, Time
  <1>t. Tables
    <2>1. tried \in [Digests -> Nat] /\ marks \subseteq Digests
      BY DEF Init
    <2> QED
      BY <1>2, <1>3, <2>1 DEF Tables, Init
  <1>4. Idle \in Records /\ ExecOK(Idle)
    BY <1>1 DEF Idle, Records, ExecOK, Init
  <1> QED
    BY <1>t, <1>4 DEF Shape, Init

LEMMA CommitRowKeepsShape ==
  ASSUME BeatAssumption, Shape, NEW i \in Items, CommitRow(i)
  PROVE  Shape'
  <1>1. PICK s \in Outcomes(i), at \in Time :
          at <= clock /\ row' = [row EXCEPT ![i] = [status |-> s, at |-> at]]
    BY DEF CommitRow
  <1>2. s \in Statuses
    BY DEF Outcomes, Statuses
  <1>3. row' \in [Items -> RowType] /\ \A j \in Items : row'[j].at <= clock
    BY <1>1, <1>2 DEF Shape, Tables, RowType
  <1>4. outcomes' \in 0..MaxOutcomes
    BY DEF CommitRow, Shape, Tables, BeatAssumption
  <1>5. Tables'
    BY <1>3, <1>4 DEF CommitRow, Shape, Tables, beat, health
  <1>6. ASSUME NEW e \in Execs PROVE exec'[e] \in Records /\ ExecOK(exec[e])'
    <2>1. exec[e] \in Records /\ ExecOK(exec[e]) /\ clock' = clock
      BY DEF Shape, CommitRow
    <2>2. exec'[e] = exec[e] \/ exec'[e] = [exec[e] EXCEPT !.moved = @ \cup {i}]
      BY DEF CommitRow, Moved
    <2>3. CASE exec'[e] = exec[e]
      BY <2>1, <2>3 DEF ExecOK
    <2>4. CASE exec'[e] = [exec[e] EXCEPT !.moved = @ \cup {i}]
      <3>1. exec'[e] \in Records
        BY <2>1, <2>4 DEF Records
      <3>2. /\ exec'[e].now = exec[e].now /\ exec'[e].n = exec[e].n
            /\ exec'[e].pc = exec[e].pc /\ exec'[e].found = exec[e].found
        BY <2>1, <2>4 DEF Records
      <3> QED
        BY <2>1, <3>1, <3>2 DEF ExecOK
    <2> QED
      BY <2>2, <2>3, <2>4
  <1>7. exec' \in [Execs -> Records]
    BY <1>6 DEF CommitRow, Moved
  <1> QED
    BY <1>5, <1>6, <1>7 DEF Shape

LEMMA TickKeepsShape ==
  ASSUME BeatAssumption, Shape, Beating, Tick
  PROVE  Shape'
  <1>1. /\ clock \in Nat /\ MaxTime \in Nat /\ Interval \in Nat /\ MaxFaults \in Nat
        /\ clock' = clock + 1 /\ clock' \in Time
    BY DEF Tick, Shape, Tables, Time, BeatAssumption
  <1>2. /\ nextBeat' \in 0..(clock' + Interval) /\ heartbeat' \in 0..clock'
        /\ unstored' \in BOOLEAN /\ faults' \in 0..MaxFaults
    <2>1. /\ nextBeat \in 0..(clock + Interval) /\ heartbeat \in 0..clock
          /\ unstored \in BOOLEAN /\ faults \in 0..MaxFaults
      BY DEF Shape, Tables
    <2>2. CASE UNCHANGED <<nextBeat, heartbeat, unstored, faults>>
      BY <1>1, <2>1, <2>2
    <2>3. CASE StoreHeartbeat /\ nextBeat' = clock' + Interval
      <3>1. faults' = faults \/ (faults' = faults + 1 /\ faults < MaxFaults)
        BY <2>3 DEF StoreHeartbeat, Fault
      <3>2. heartbeat' = clock' \/ heartbeat' = heartbeat
        BY <2>3 DEF StoreHeartbeat
      <3>3. unstored' = unstored \/ unstored' = TRUE
        BY <2>3 DEF StoreHeartbeat
      <3>4. faults' \in 0..MaxFaults /\ heartbeat' \in 0..clock'
        BY <1>1, <2>1, <3>1, <3>2
      <3>5. nextBeat' \in 0..(clock' + Interval)
        BY <1>1, <2>3
      <3> QED
        BY <2>1, <3>3, <3>4, <3>5
    <2> QED
      BY <2>2, <2>3 DEF Tick, WriteHeartbeat
  <1>3. \A i \in Items : row'[i].at <= clock'
    <2>1. \A i \in Items : row[i].at \in Nat /\ row[i].at <= clock
      BY <1>1 DEF Shape, Tables, RowType, Time
    <2> QED
      BY <1>1, <2>1 DEF Tick
  <1>4. Tables'
    BY <1>1, <1>2, <1>3 DEF Tick, Shape, Tables, digest
  <1>5. ASSUME NEW e \in Execs PROVE ExecOK(exec[e])'
    <2>1. exec'[e] = exec[e] /\ ExecOK(exec[e])
      BY DEF Tick, Shape, digest
    <2>2. 0..clock \subseteq 0..clock'
      BY <1>1
    <2> QED
      BY <2>1, <2>2, SMTT(30) DEF ExecOK
  <1> QED
    BY <1>4, <1>5 DEF Shape, Tick, digest

(* A step of beat or of the check.                                         *)
LEMMA BeatKeepsShape ==
  ASSUME BeatAssumption, Shape,
         \/ SendDigestTask \/ SendCheckTask \/ BeatCrash \/ BeatStart \/ CheckBeat
         \/ UNCHANGED vars
  PROVE  Shape' /\ exec' = exec /\ clock' = clock
  <1>1. exec' = exec /\ clock' = clock
    BY DEF SendDigestTask, SendCheckTask, BeatCrash, BeatStart, CheckBeat, vars, digest
  <1>2. Tables
    BY DEF Shape
  <1>3. clock \in Nat /\ Interval \in Nat /\ MaxFaults \in Nat
    BY <1>2 DEF Tables, Time, BeatAssumption
  <1>4. Tables'
    <2>1. CASE SendDigestTask
      BY <1>2, <1>3, <2>1 DEF SendDigestTask, Tables, health, digest, counts
    <2>2. CASE SendCheckTask
      BY <1>2, <2>2 DEF SendCheckTask, Tables, beat, digest, counts
    <2>3. CASE BeatCrash
      <3>1. faults' \in 0..MaxFaults
        BY <1>2, <1>3, <2>3 DEF BeatCrash, Fault, Tables
      <3> QED
        BY <1>2, <2>3, <3>1 DEF BeatCrash, Tables, health, digest
    <2>4. CASE BeatStart
      <3>1. faults' = faults \/ (faults' = faults + 1 /\ faults < MaxFaults)
        BY <2>4 DEF BeatStart, StoreHeartbeat, Fault
      <3>2. heartbeat' = clock' \/ heartbeat' = heartbeat
        BY <2>4 DEF BeatStart, StoreHeartbeat
      <3>3. unstored' = unstored \/ unstored' = TRUE
        BY <2>4 DEF BeatStart, StoreHeartbeat
      <3>4. faults' \in 0..MaxFaults /\ heartbeat' \in 0..clock'
        BY <1>2, <1>3, <2>4, <3>1, <3>2 DEF BeatStart, Tables
      <3>5. nextBeat' \in 0..(clock' + Interval)
        BY <1>3, <2>4 DEF BeatStart
      <3>6. last' \in 0..clock' /\ earlier' \in 0..clock'
        BY <1>2, <2>4 DEF BeatStart, Tables
      <3> QED
        BY <1>2, <2>4, <3>3, <3>4, <3>5, <3>6 DEF BeatStart, Tables, digest
    <2>5. CASE CheckBeat
      <3>1. faults' \in 0..MaxFaults
        BY <1>2, <1>3, <2>5 DEF CheckBeat, Fault, Tables
      <3>2. alert' \in BOOLEAN
        BY <2>5 DEF CheckBeat, Stale
      <3> QED
        BY <1>2, <2>5, <3>1, <3>2 DEF CheckBeat, Tables, beat, digest
    <2>6. CASE UNCHANGED vars
      BY <1>2, <2>6 DEF vars, Tables, beat, digest, health, counts
    <2> QED
      BY <2>1, <2>2, <2>3, <2>4, <2>5, <2>6
  <1> QED
    BY <1>1, <1>4 DEF Shape, ExecOK

(* A step of an execution: what it becomes, and the tables.                *)
DigestStep(e) == \/ Begin(e) \/ Read(e) \/ MarkDigestSent(e) \/ SkipDuplicate(e)
                 \/ MarkRaises(e) \/ SendDigest(e) \/ Crash(e)

LEMMA BeginOK ==
  ASSUME BeatAssumption, Shape, NEW e \in Execs, Begin(e)
  PROVE  /\ exec'[e] \in Records /\ ExecOK(exec'[e]) /\ Becomes(e, exec'[e])
         /\ exec'[e].pc = "read" /\ exec'[e].now = clock /\ exec'[e].n = 1
         /\ exec'[e].found = {} /\ exec'[e].moved = {}
  <1> DEFINE x == [Idle EXCEPT !.pc = "read", !.now = clock]
  <1>1. exec' = [exec EXCEPT ![e] = x] /\ clock' = clock /\ exec'[e] = x
    BY DEF Begin, Shape
  <1>2. clock \in Nat
    BY DEF Shape, Tables, Time, BeatAssumption
  <1>3. /\ x \in Records /\ x.pc = "read" /\ x.now = clock /\ x.n = 1
        /\ x.found = {} /\ x.moved = {}
    BY <1>2 DEF Idle, Records
  <1>4. 1 \in 1..(MaxChannel * Len(Queries))
    BY FiveLists DEF BeatAssumption
  <1>5. ExecOK(x)
    BY <1>2, <1>3, <1>4 DEF ExecOK
  <1> HIDE DEF x
  <1> QED
    BY <1>1, <1>3, <1>5 DEF Becomes

LEMMA MarkOK ==
  ASSUME BeatAssumption, Shape, NEW e \in Execs, MarkDigestSent(e)
  PROVE  /\ exec'[e] \in Records /\ ExecOK(exec'[e]) /\ Becomes(e, exec'[e])
         /\ exec'[e].pc = "send" /\ exec'[e].now = exec[e].now /\ exec'[e].n = exec[e].n
         /\ exec'[e].found = exec[e].found /\ exec'[e].moved = exec[e].moved
  <1>1. exec[e] \in Records /\ ExecOK(exec[e]) /\ exec[e].pc = "mark"
    BY DEF Shape, MarkDigestSent
  <1>2. exec'[e] = [exec[e] EXCEPT !.pc = "send"] /\ Becomes(e, [exec[e] EXCEPT !.pc = "send"])
    BY DEF MarkDigestSent, Shape, Becomes
  <1>3. /\ exec'[e] \in Records
        /\ exec'[e].pc = "send" /\ exec'[e].now = exec[e].now /\ exec'[e].n = exec[e].n
        /\ exec'[e].found = exec[e].found /\ exec'[e].moved = exec[e].moved
    BY <1>1, <1>2 DEF Records
  <1>4. ExecOK(exec'[e])
    BY <1>1, <1>3 DEF ExecOK
  <1> QED
    BY <1>2, <1>3, <1>4

LEMMA DigestKeepsShape ==
  ASSUME BeatAssumption, Shape, NEW e \in Execs, DigestStep(e)
  PROVE  Shape'
  <1>1. Tables
    BY DEF Shape
  <1>2. ASSUME Fault PROVE faults' \in 0..MaxFaults
    BY <1>1, <1>2 DEF Fault, Tables, BeatAssumption
  <1>3. ASSUME SetMark(e), exec[e].pc = "mark" PROVE marks' \subseteq Digests
    BY <1>1, <1>3, DigestKnown DEF SetMark, Tables
  <1>4. CASE Begin(e)
    <2>1. Tables'
      BY <1>1, <1>4 DEF Begin, Tables, beat, health, counts
    <2> QED
      BY <1>4, <2>1, BeginOK, BecomesKeeps
  <1>5. CASE Read(e)
    <2>1. Tables'
      BY <1>1, <1>5 DEF Read, Tables, beat, health, counts
    <2> QED
      BY <1>5, <2>1, ReadOK, BecomesKeeps
  <1>6. CASE MarkDigestSent(e)
    <2>1. Tables'
      BY <1>1, <1>3, <1>6 DEF MarkDigestSent, Tables, beat, health, counts
    <2> QED
      BY <1>6, <2>1, MarkOK, BecomesKeeps
  <1>7. CASE SkipDuplicate(e)
    <2>1. Tables'
      BY <1>1, <1>7 DEF SkipDuplicate, Tables, beat, health, counts
    <2>2. Becomes(e, Advanced(e)) /\ exec[e].pc \in {"mark", "send"}
      BY <1>7 DEF SkipDuplicate, Becomes
    <2> QED
      BY <2>1, <2>2, AdvancedOK, BecomesKeeps
  <1>8. CASE MarkRaises(e)
    <2>1. faults' \in 0..MaxFaults /\ marks' \subseteq Digests /\ missed' \in BOOLEAN
      BY <1>1, <1>2, <1>3, <1>8 DEF MarkRaises, Tables
    <2>2. Tables'
      BY <1>1, <1>8, <2>1 DEF MarkRaises, Tables, beat, health
    <2>3. Becomes(e, Idle)
      BY <1>8 DEF MarkRaises, Becomes
    <2> QED
      BY <2>2, <2>3, IdleOK, BecomesKeeps
  <1>9. CASE SendDigest(e)
    <2>1. DigestOf(e) \in Digests /\ DateOf(exec[e].now) \in Dates
      BY <1>9, DigestKnown DEF SendDigest
    <2>2. tried' \in [Digests -> Nat]
      BY <1>1, <1>9, <2>1 DEF SendDigest, Tables
    <2>3. News(e) \subseteq [item : Items, at : Time, date : Dates]
      <3>1. exec[e].found \subseteq [query : Lists, item : Items, at : Time]
        BY <1>1 DEF Shape, ExecOK, Tables, Time, BeatAssumption
      <3> QED
        BY <2>1, <3>1 DEF News
    <2>4. Tables'
      BY <1>1, <1>9, <2>2, <2>3 DEF SendDigest, Tables, beat, health, counts
    <2>5. Becomes(e, Advanced(e)) /\ exec[e].pc \in {"mark", "send"}
      BY <1>9 DEF SendDigest, Becomes
    <2> QED
      BY <2>4, <2>5, AdvancedOK, BecomesKeeps
  <1>10. CASE Crash(e)
    <2>1. Tables'
      BY <1>1, <1>2, <1>10 DEF Crash, Tables, beat, health
    <2>2. Becomes(e, Idle)
      BY <1>10 DEF Crash, Becomes
    <2> QED
      BY <2>1, <2>2, IdleOK, BecomesKeeps
  <1> QED
    BY <1>4, <1>5, <1>6, <1>7, <1>8, <1>9, <1>10 DEF DigestStep
-----------------------------------------------------------------------------
(* The digests and their marks.                                            *)

(* A step after which no other execution sends than before.                *)
LEMMA FewerSenders ==
  ASSUME Shape, Digested, marks' = marks, tried' = tried, missed' \in {missed, TRUE},
         \A e \in Execs : Sending(e)' => Sending(e) /\ DigestOf(e)' = DigestOf(e),
         missed' \/ \A e \in Execs : Sending(e) => Sending(e)' /\ DigestOf(e)' = DigestOf(e)
  PROVE  Digested'
  <1>1. Senders' /\ Alone' /\ TriedIsMarked' /\ OncePerDay'
    BY DEF Digested, Senders, Alone, TriedIsMarked, OncePerDay
  <1>2. MarkedIsTried'
    <2>1. CASE missed'
      BY <2>1 DEF MarkedIsTried
    <2>2. CASE ~missed'
      <3>1. ASSUME NEW m \in marks
            PROVE  tried[m] > 0 \/ \E e \in Execs : exec[e].pc = "send" /\ DigestOf(e) = m
        BY <2>2 DEF Digested, MarkedIsTried, Shape, Tables
      <3>2. \A e \in Execs : exec[e].pc = "send" => exec'[e].pc = "send" /\ DigestOf(e)' = DigestOf(e)
        BY <2>2 DEF Sending
      <3> QED
        BY <3>1, <3>2 DEF MarkedIsTried
    <2> QED
      BY <2>1, <2>2
  <1> QED
    BY <1>1, <1>2 DEF Digested

(* Neither the execution before the step nor after it is sending.          *)
LEMMA SilentStep ==
  ASSUME Shape, Digested, NEW e \in Execs, NEW x, Becomes(e, x),
         marks' = marks, tried' = tried, missed' \in {missed, TRUE},
         x.pc # "send", missed' \/ exec[e].pc # "send"
  PROVE  Digested'
  <1>1. exec'[e] = x /\ \A f \in Execs \ {e} : exec'[f] = exec[f]
    BY DEF Becomes, Shape
  <1> QED
    BY <1>1, FewerSenders DEF Sending, DigestOf

LEMMA AdvancedPc ==
  ASSUME Shape, NEW e \in Execs
  PROVE  Advanced(e).pc # "send"
  BY DEF Shape, Records, Advanced, Idle

LEMMA DigestKeepsDigested ==
  ASSUME BeatAssumption, Shape, Digested, NEW e \in Execs, DigestStep(e)
  PROVE  Digested'
  <1>1. Idle.pc # "send"
    BY DEF Idle
  <1>2. \A m \in marks : m \in Digests
    BY DEF Shape, Tables
  <1>3. CASE Begin(e)
    BY <1>3, BeginOK, SilentStep DEF Begin
  <1>4. CASE Read(e)
    BY <1>4, ReadOK, SilentStep DEF Read
  <1>5. CASE MarkDigestSent(e)
    <2>1. /\ exec[e].pc = "mark" /\ exec'[e].pc = "send" /\ DigestOf(e)' = DigestOf(e)
          /\ \A f \in Execs \ {e} : exec'[f] = exec[f]
      BY <1>5, MarkOK DEF MarkDigestSent, DigestOf, Becomes, Shape
    <2>2. /\ DigestOf(e) \notin marks /\ marks' = marks \cup {DigestOf(e)}
          /\ tried' = tried /\ missed' = missed /\ DigestOf(e) \in Digests
      BY <1>5, DigestKnown DEF MarkDigestSent, Marked, SetMark
    <2>3. tried[DigestOf(e)] = 0
      BY <2>2 DEF Digested, TriedIsMarked, Shape, Tables
    <2>4. Senders'
      BY <2>1, <2>2, <2>3 DEF Digested, Senders, Sending, DigestOf
    <2>5. Alone'
      BY <2>1, <2>2 DEF Digested, Senders, Alone, Sending, DigestOf
    <2>6. TriedIsMarked' /\ OncePerDay'
      BY <2>2 DEF Digested, TriedIsMarked, OncePerDay
    <2>7. MarkedIsTried'
      BY <2>1, <2>2 DEF Digested, MarkedIsTried, DigestOf
    <2> QED
      BY <2>4, <2>5, <2>6, <2>7 DEF Digested
  <1>6. CASE SkipDuplicate(e)
    <2>1. Becomes(e, Advanced(e)) /\ exec[e].pc = "mark"
      BY <1>6 DEF SkipDuplicate, Becomes
    <2> QED
      BY <1>6, <2>1, AdvancedPc, SilentStep DEF SkipDuplicate
  <1>7. CASE MarkRaises(e)
    <2>1. Becomes(e, Idle) /\ exec[e].pc = "mark" /\ tried' = tried
      BY <1>7 DEF MarkRaises, Becomes
    <2>2. CASE UNCHANGED <<marks, missed>>
      BY <1>1, <2>1, <2>2, SilentStep
    <2>3. CASE ~Marked(e) /\ SetMark(e) /\ missed' = TRUE
      <3>1. /\ exec'[e].pc # "send" /\ \A f \in Execs \ {e} : exec'[f] = exec[f]
        BY <1>1, <2>1 DEF Becomes, Shape
      <3>2. \A m \in marks : m \in marks'
        BY <2>3 DEF SetMark
      <3>3. Senders' /\ Alone'
        BY <2>1, <3>1, <3>2 DEF Digested, Senders, Alone, Sending, DigestOf
      <3>4. TriedIsMarked' /\ OncePerDay'
        BY <2>1, <3>2 DEF Digested, TriedIsMarked, OncePerDay
      <3>5. MarkedIsTried'
        BY <2>3 DEF MarkedIsTried
      <3> QED
        BY <3>3, <3>4, <3>5 DEF Digested
    <2> QED
      BY <1>7, <2>2, <2>3 DEF MarkRaises
  <1>8. CASE SendDigest(e)
    <2> DEFINE d == DigestOf(e)
    <2>1. /\ exec[e].pc = "send" /\ Becomes(e, Advanced(e))
          /\ tried' = [tried EXCEPT ![d] = @ + 1] /\ marks' = marks /\ missed' = missed
      BY <1>8 DEF SendDigest, Becomes
    <2>2. exec'[e].pc # "send" /\ \A f \in Execs \ {e} : exec'[f] = exec[f]
      BY <2>1, AdvancedPc DEF Becomes, Shape
    <2>3. d \in marks /\ d \in Digests /\ tried[d] = 0
      BY <2>1, <1>2 DEF Digested, Senders, Sending
    <2>4. tried'[d] = 1 /\ \A m \in Digests \ {d} : tried'[m] = tried[m]
      BY <2>1, <2>3 DEF Shape, Tables
    <2>5. \A f \in Execs : Sending(f)' => Sending(f) /\ DigestOf(f)' = DigestOf(f)
                                        /\ DigestOf(f) # d
      BY <2>1, <2>2 DEF Digested, Alone, Sending, DigestOf
    <2>6. \A f \in Execs : Sending(f)' => DigestOf(f) \in marks /\ DigestOf(f) \in Digests
      BY <2>5, <1>2 DEF Digested, Senders
    <2> HIDE DEF d
    <2>7. Senders' /\ Alone'
      BY <2>1, <2>4, <2>5, <2>6 DEF Digested, Senders, Alone
    <2>8. TriedIsMarked' /\ OncePerDay'
      BY <2>1, <2>3, <2>4 DEF Digested, TriedIsMarked, OncePerDay
    <2>9. MarkedIsTried'
      <3>1. ASSUME NEW m \in marks, m # d, ~missed
            PROVE  tried'[m] > 0 \/ \E f \in Execs : exec'[f].pc = "send" /\ DigestOf(f)' = m
        <4>1. tried[m] > 0 \/ \E f \in Execs : exec[f].pc = "send" /\ DigestOf(f) = m
          BY <3>1 DEF Digested, MarkedIsTried
        <4>2. ASSUME NEW f \in Execs, exec[f].pc = "send", DigestOf(f) = m
              PROVE  exec'[f].pc = "send" /\ DigestOf(f)' = m
          BY <2>2, <3>1, <4>2 DEF d, DigestOf
        <4> QED
          BY <1>2, <2>4, <3>1, <4>1, <4>2
      <3> QED
        BY <2>1, <2>4, <3>1 DEF MarkedIsTried
    <2> QED
      BY <2>7, <2>8, <2>9 DEF Digested
  <1>9. CASE Crash(e)
    <2>1. Becomes(e, Idle) /\ marks' = marks /\ tried' = tried /\ missed' = TRUE
      BY <1>9 DEF Crash, Becomes
    <2> QED
      BY <1>1, <2>1, SilentStep
  <1> QED
    BY <1>3, <1>4, <1>5, <1>6, <1>7, <1>8, <1>9 DEF DigestStep
-----------------------------------------------------------------------------
(* What is read and reported.                                              *)

(* An execution that keeps what it has read, of rows that keep still.      *)
LEMMA FaithfulStep ==
  ASSUME NEW e \in Execs, exec[e].pc # "idle" \/ exec'[e].pc = "idle",
         exec'[e].found = exec[e].found, exec'[e].now = exec[e].now,
         exec'[e].moved = exec[e].moved, Asked(e)' = Asked(e), row' = row,
         Dated(e), Faithful(e)
  PROVE  Dated(e)' /\ Faithful(e)'
  <1>1. Dated(e)'
    BY DEF Dated
  <1>2. \A q, c : (Windowed(q, c, exec[e].now))' = Windowed(q, c, exec[e].now)
    BY DEF Windowed, ListPublished, ListFailed, ListFailedRuns, InWindow
  <1>3. \A i \in Items : Agrees(e, i) => Agrees(e, i)'
    BY <1>2 DEF Agrees, Has, Reached
  <1>4. \A q, c : CountOK(e, q, c) => CountOK(e, q, c)'
    BY DEF CountOK, Counts, Counted, Waiting, Reached
  <1> QED
    BY <1>1, <1>3, <1>4 DEF Faithful

(* A step of e that leaves the rows alone.                                 *)
LEMMA ReadingStep ==
  ASSUME Shape, Reading, NEW e \in Execs, NEW x, Becomes(e, x), row' = row,
         Dated(e)' /\ Faithful(e)'
  PROVE  Reading'
  <1>1. \A f \in Execs \ {e} : exec'[f] = exec[f]
    BY DEF Becomes, Shape
  <1>2. ASSUME NEW f \in Execs \ {e} PROVE Dated(f)' /\ Faithful(f)'
    BY <1>1, FaithfulStep DEF Reading, Asked
  <1> QED
    BY <1>2 DEF Reading

(* What the n-th query adds.                                               *)
LEMMA ReachedNext ==
  ASSUME NEW e, exec[e].pc = "read", exec[e].n \in Nat \ {0}, Asked(e)' = exec[e].n,
         NEW q, NEW c
  PROVE  /\ Reached(e, q, c)' <=>
              Reached(e, q, c) \/ (q = QueryAt(exec[e].n) /\ c = ChannelAt(exec[e].n))
         /\ ~(Reached(e, q, c) /\ q = QueryAt(exec[e].n) /\ c = ChannelAt(exec[e].n))
  <1> DEFINE n == exec[e].n
  <1>1. Reached(e, q, c)' <=> \E k \in 1..n : QueryAt(k) = q /\ ChannelAt(k) = c
    BY DEF Reached
  <1>2. Reached(e, q, c) <=> \E k \in 1..(n - 1) : QueryAt(k) = q /\ ChannelAt(k) = c
    BY DEF Reached, Asked
  <1>n. n \in Nat \ {0}
    OBVIOUS
  <1> HIDE DEF n
  <1>3. \A k \in Nat : k \in 1..n <=> (k \in 1..(n - 1) \/ k = n)
    BY <1>n
  <1>4. n \in 1..n /\ 1..n \subseteq Nat /\ 1..(n - 1) \subseteq Nat \ {0} /\ n \notin 1..(n - 1)
    BY <1>n
  <1>5. ~(Reached(e, q, c) /\ q = QueryAt(n) /\ c = ChannelAt(n))
    BY <1>n, <1>2, <1>4, AskedOnce
  <1>6. (\E k \in 1..n : QueryAt(k) = q /\ ChannelAt(k) = c)
          <=> \/ \E k \in 1..(n - 1) : QueryAt(k) = q /\ ChannelAt(k) = c
              \/ q = QueryAt(n) /\ c = ChannelAt(n)
    BY <1>3, <1>4
  <1>7. Reached(e, q, c)' <=> Reached(e, q, c) \/ (q = QueryAt(n) /\ c = ChannelAt(n))
    BY <1>1, <1>2, <1>6
  <1> QED
    BY <1>5, <1>7 DEF n

LEMMA FoundNext ==
  ASSUME NEW e, NEW S, exec'[e].found = exec[e].found \cup Found(e, S), NEW q
  PROVE  /\ \A i : Has(e, q, i)' <=> Has(e, q, i) \/ (q = QueryAt(exec[e].n) /\ i \in S)
         /\ \A c, i : i \in Counted(e, q, c)' <=>
              i \in Counted(e, q, c) \/ (q = QueryAt(exec[e].n) /\ i \in S /\ ChannelOf[i] = c)
  <1> DEFINE q0 == QueryAt(exec[e].n)
  <1>1. \A f \in Found(e, S) : f.item \in S /\ f.query = q0
    BY DEF Found
  <1>2. ASSUME NEW i \in S
        PROVE  \E f \in Found(e, S) : f.item = i /\ f.query = q0
    <2>1. [query |-> q0, item |-> i, at |-> row[i].at] \in Found(e, S)
      BY DEF Found
    <2> QED
      BY <2>1
  <1>3. \A i : Has(e, q, i)' <=> Has(e, q, i) \/ (q = q0 /\ i \in S)
    BY <1>1, <1>2 DEF Has
  <1>4. ASSUME NEW c, NEW i
        PROVE  i \in Counted(e, q, c)' <=>
                 i \in Counted(e, q, c) \/ (q = q0 /\ i \in S /\ ChannelOf[i] = c)
    <2>1. i \in Counted(e, q, c)' <=> Has(e, q, i)' /\ ChannelOf[i] = c
      BY DEF Counted, Has
    <2>2. i \in Counted(e, q, c) <=> Has(e, q, i) /\ ChannelOf[i] = c
      BY DEF Counted, Has
    <2> QED
      BY <1>3, <2>1, <2>2
  <1> QED
    BY <1>3, <1>4

(* The n-th query has read what the rows say.                              *)
LEMMA ReadKeepsReading ==
  ASSUME BeatAssumption, Shape, Reading, NEW e \in Execs, Read(e)
  PROVE  Reading'
  <1> DEFINE n == exec[e].n
             q0 == QueryAt(n)
             c0 == ChannelAt(n)
             now == exec[e].now
  <1>1. /\ exec[e].pc = "read" /\ row' = row /\ Becomes(e, exec'[e])
        /\ exec'[e].now = now /\ exec'[e].moved = exec[e].moved /\ Asked(e)' = n
    BY ReadOK DEF Read
  <1>s. PICK S \in Answers(q0, c0, now) : exec'[e].found = exec[e].found \cup Found(e, S)
    BY ReadOK
  <1>2. q0 \in Lists /\ n \in Nat \ {0}
    <2>1. q0 \in Lists /\ n \in 1..(MaxChannel * Len(Queries)) /\ n \in Nat
      BY <1>1, FoundOK DEF Shape, Records
    <2> QED
      BY <2>1
  <1>3. now \in Nat /\ \A i \in Items : row[i].at \in Nat
    BY DEF Shape, Tables, Records, RowType, Time, BeatAssumption
  <1>a. /\ \A i \in S : i \in Items /\ ChannelOf[i] = c0
        /\ q0 \notin Pending => \A i \in S : InWindow(i, now)
    BY <1>2, AnswerOfChannel
  <1>r. ASSUME NEW q, NEW c
        PROVE  /\ Reached(e, q, c)' <=> Reached(e, q, c) \/ (q = q0 /\ c = c0)
               /\ ~(Reached(e, q, c) /\ q = q0 /\ c = c0)
    BY <1>1, <1>2, ReachedNext
  <1>4. Dated(e)'
    <2>1. ASSUME NEW f \in Found(e, S), f.query \notin Pending
          PROVE  DateOf(f.at) = DateOf(now)
      <3>1. PICK i \in S : f = [query |-> q0, item |-> i, at |-> row[i].at]
        BY DEF Found
      <3>2. i \in Items /\ InWindow(i, now)
        BY <1>a, <2>1, <3>1
      <3> QED
        BY <1>3, <3>1, <3>2, SameDay DEF InWindow
    <2> QED
      BY <1>1, <1>s, <2>1 DEF Reading, Dated
  <1>5. ASSUME NEW i \in Items, Agrees(e, i) PROVE Agrees(e, i)'
    <2>1. ASSUME NEW q \in Lists \ Pending
          PROVE  Has(e, q, i)' <=> /\ i \in (Windowed(q, ChannelOf[i], exec[e].now))'
                                   /\ Reached(e, q, ChannelOf[i])'
      <3>1. (Windowed(q, ChannelOf[i], exec[e].now))' = Windowed(q, ChannelOf[i], now)
        BY <1>1 DEF Windowed, ListPublished, ListFailed, ListFailedRuns, InWindow
      <3>2. Has(e, q, i)' <=> Has(e, q, i) \/ (q = q0 /\ i \in S)
        BY <1>s, FoundNext
      <3>3. q = q0 => S = Windowed(q, c0, now)
        BY <1>2, <2>1, AnswersKnown
      <3>4. Has(e, q, i) <=> i \in Windowed(q, ChannelOf[i], now) /\ Reached(e, q, ChannelOf[i])
        BY <1>5, <2>1 DEF Agrees
      <3> HIDE DEF q0, c0, now
      <3> QED
        BY <1>a, <1>r, <3>1, <3>2, <3>3, <3>4
    <2>2. row'[i].at <= exec'[e].now
      BY <1>1, <1>5 DEF Agrees
    <2> QED
      BY <2>1, <2>2 DEF Agrees
  <1>6. ASSUME NEW q \in Pending, NEW c \in Channels, CountOK(e, q, c) PROVE CountOK(e, q, c)'
    <2>1. \A i : i \in Counted(e, q, c)' <=>
                   i \in Counted(e, q, c) \/ (q = q0 /\ i \in S /\ ChannelOf[i] = c)
      BY <1>s, FoundNext
    <2>3. CASE q = q0 /\ c = c0
      <3>1. Counted(e, q, c) = {}
        BY <1>6, <1>r, <2>3 DEF CountOK
      <3>2. Counted(e, q, c)' = S
        BY <1>a, <2>1, <2>3, <3>1
      <3>3. Counts(S, q, c, exec[e].moved)
        <4>1. S \in UpToLimit(Waiting(q, c))
          BY <1>2, <2>3, AnswersKnown
        <4> QED
          BY <4>1, LimitKept
      <3>4. Reached(e, q, c)'
        BY <1>r, <2>3
      <3> QED
        BY <1>1, <3>2, <3>3, <3>4 DEF CountOK, Counts, Waiting
    <2>4. CASE ~(q = q0 /\ c = c0)
      <3>1. Counted(e, q, c)' = Counted(e, q, c)
        BY <1>a, <2>1, <2>4
      <3>2. Reached(e, q, c)' <=> Reached(e, q, c)
        BY <1>r, <2>4
      <3> QED
        BY <1>1, <1>6, <3>1, <3>2 DEF CountOK, Counts, Waiting
    <2> QED
      BY <2>3, <2>4
  <1>7. Faithful(e)'
    BY <1>1, <1>5, <1>6 DEF Reading, Faithful
  <1> QED
    BY <1>1, <1>4, <1>7, ReadingStep

LEMMA BeginKeepsReading ==
  ASSUME BeatAssumption, Shape, Reading, NEW e \in Execs, Begin(e)
  PROVE  Reading'
  <1>1. /\ Becomes(e, exec'[e]) /\ row' = row
        /\ exec'[e].pc = "read" /\ exec'[e].now = clock /\ exec'[e].n = 1
        /\ exec'[e].found = {} /\ exec'[e].moved = {}
    BY BeginOK DEF Begin
  <1>2. Dated(e)'
    BY <1>1 DEF Dated
  <1>3. Asked(e)' = 0
    BY <1>1 DEF Asked
  <1>4. \A q, c : ~Reached(e, q, c)' /\ Counted(e, q, c)' = {}
    BY <1>1, <1>3 DEF Counted, Reached
  <1>h. \A q, i : ~Has(e, q, i)'
    BY <1>1 DEF Has
  <1>5. \A i \in Items : row'[i].at <= exec'[e].now
    BY <1>1 DEF Shape, Tables
  <1>6. Faithful(e)'
    BY <1>4, <1>h, <1>5 DEF Faithful, Agrees, CountOK
  <1> QED
    BY <1>1, <1>2, <1>6, ReadingStep

(* An execution that has read goes on to another digest, or ends.          *)
LEMMA LaterKeepsReading ==
  ASSUME BeatAssumption, Shape, Reading, NEW e \in Execs, NEW x \in Records, Becomes(e, x),
         row' = row,
         \/ x = Idle
         \/ /\ exec[e].pc \in {"mark", "send"} /\ x.pc \in {"mark", "send"}
            /\ x.now = exec[e].now /\ x.found = exec[e].found /\ x.moved = exec[e].moved
  PROVE  Reading'
  <1>1. exec'[e] = x
    BY DEF Becomes, Shape
  <1>2. CASE x = Idle
    <2>1. Dated(e)' /\ Faithful(e)'
      BY <1>1, <1>2 DEF Idle, Dated, Faithful
    <2> QED
      BY <2>1, ReadingStep
  <1>3. CASE x # Idle
    <2>1. Asked(e)' = MaxChannel * Len(Queries) /\ Asked(e) = MaxChannel * Len(Queries)
      BY <1>1, <1>3 DEF Asked
    <2>2. Dated(e)' /\ Faithful(e)'
      BY <1>1, <1>3, <2>1, FaithfulStep DEF Reading
    <2> QED
      BY <2>2, ReadingStep
  <1> QED
    BY <1>2, <1>3

(* A row that is committed has moved for whoever is reading.               *)
LEMMA CommitRowKeepsReading ==
  ASSUME BeatAssumption, Shape, Reading, NEW i \in Items, CommitRow(i)
  PROVE  Reading'
  <1>1. \A j \in Items \ {i} : row'[j] = row[j]
    BY DEF CommitRow, Shape, Tables
  <1>2. ASSUME NEW e \in Execs PROVE Dated(e)' /\ Faithful(e)'
    <2>1. exec[e] \in Records
      BY DEF Shape
    <2>2. exec'[e] = IF exec[e].pc = "idle" THEN exec[e]
                     ELSE [exec[e] EXCEPT !.moved = @ \cup {i}]
      BY DEF CommitRow, Moved
    <2>3. /\ exec'[e].found = exec[e].found /\ exec'[e].now = exec[e].now
          /\ exec'[e].pc = exec[e].pc /\ exec'[e].n = exec[e].n
          /\ exec[e].pc # "idle" => exec'[e].moved = exec[e].moved \cup {i}
      BY <2>1, <2>2 DEF Records
    <2>4. Dated(e)'
      BY <2>3 DEF Reading, Dated
    <2>r. \A q, c : Reached(e, q, c)' <=> Reached(e, q, c)
      BY <2>3 DEF Reached, Asked
    <2>5. ASSUME NEW j \in Items \ {i}, Agrees(e, j) PROVE Agrees(e, j)'
      <3>1. \A q, c : j \in (Windowed(q, c, exec[e].now))' <=> j \in Windowed(q, c, exec[e].now)
        BY <1>1, <2>3 DEF Windowed, ListPublished, ListFailed, ListFailedRuns, InWindow, Items
      <3>2. \A q \in Lists : Has(e, q, j)' <=> Has(e, q, j)
        BY <2>3 DEF Has
      <3> QED
        BY <1>1, <2>3, <2>5, <2>r, <3>1, <3>2 DEF Agrees
    <2>6. ASSUME NEW q \in Pending, NEW c \in Channels, exec[e].pc # "idle", CountOK(e, q, c)
          PROVE  CountOK(e, q, c)'
      <3>1. Counted(e, q, c)' = Counted(e, q, c)
        BY <2>3 DEF Counted
      <3>2. \A j : j # i => (j \in Waiting(q, c)' <=> j \in Waiting(q, c))
        BY <1>1 DEF Waiting, Items
      <3>3. exec'[e].moved = exec[e].moved \cup {i}
        BY <2>3, <2>6
      <3>4. CASE Reached(e, q, c)
        <4>1. Counts(Counted(e, q, c), q, c, exec[e].moved)
          BY <2>6, <3>4 DEF CountOK
        <4>2. Counts(Counted(e, q, c), q, c, exec[e].moved)'
          BY <3>1, <3>2, <3>3, <4>1 DEF Counts
        <4> QED
          BY <2>r, <3>4, <4>2 DEF CountOK
      <3>5. CASE ~Reached(e, q, c)
        BY <2>6, <2>r, <3>1, <3>5 DEF CountOK
      <3> QED
        BY <3>4, <3>5
    <2>7. Faithful(e)'
      BY <2>3, <2>5, <2>6 DEF Reading, Faithful
    <2> QED
      BY <2>4, <2>7
  <1> QED
    BY <1>2 DEF Reading

LEMMA DigestKeepsReading ==
  ASSUME BeatAssumption, Shape, Reading, Reported, NEW e \in Execs, DigestStep(e)
  PROVE  Reading' /\ Reported' /\ row' = row
  <1>1. row' = row
    BY DEF DigestStep, Begin, Read, MarkDigestSent, SkipDuplicate, MarkRaises, SendDigest, Crash
  <1>2. Idle \in Records /\ (exec[e].pc \in {"mark", "send"} => Advanced(e) \in Records)
    BY IdleOK, AdvancedOK
  <1>3. exec[e].pc \in {"mark", "send"} =>
          \/ Advanced(e) = Idle
          \/ /\ Advanced(e).pc = "mark" /\ Advanced(e).now = exec[e].now
             /\ Advanced(e).found = exec[e].found /\ Advanced(e).moved = exec[e].moved
    BY DEF Advanced, Shape, Records
  <1>4. Reading'
    <2>1. CASE Begin(e)
      BY <2>1, BeginKeepsReading
    <2>2. CASE Read(e)
      BY <2>2, ReadKeepsReading
    <2>3. CASE MarkDigestSent(e)
      <3>1. exec[e].pc = "mark"
        BY <2>3 DEF MarkDigestSent
      <3> QED
        BY <1>1, <2>3, <3>1, MarkOK, LaterKeepsReading
    <2>4. CASE SkipDuplicate(e) \/ SendDigest(e)
      <3>1. exec[e].pc \in {"mark", "send"} /\ Becomes(e, Advanced(e))
        BY <2>4 DEF SkipDuplicate, SendDigest, Becomes
      <3> QED
        BY <1>1, <1>2, <1>3, <3>1, LaterKeepsReading
    <2>5. CASE MarkRaises(e) \/ Crash(e)
      <3>1. Becomes(e, Idle)
        BY <2>5 DEF MarkRaises, Crash, Becomes
      <3> QED
        BY <1>1, <1>2, <3>1, LaterKeepsReading
    <2> QED
      BY <2>1, <2>2, <2>3, <2>4, <2>5 DEF DigestStep
  <1>5. Reported'
    <2>1. reported' = reported \/ reported' = reported \cup News(e)
      BY DEF DigestStep, Begin, Read, MarkDigestSent, SkipDuplicate, MarkRaises, SendDigest, Crash
    <2>2. ASSUME NEW r \in News(e) PROVE r.date = DateOf(r.at)
      <3>1. PICK f \in exec[e].found :
              /\ f.query \notin Pending
              /\ r = [item |-> f.item, at |-> f.at, date |-> DateOf(exec[e].now)]
        BY DEF News, Pending
      <3> QED
        BY <3>1 DEF Reading, Dated
    <2> QED
      BY <2>1, <2>2 DEF Reported
  <1> QED
    BY <1>1, <1>4, <1>5
-----------------------------------------------------------------------------
(* The heartbeat.                                                          *)

LEMMA BeatingStep ==
  ASSUME BeatAssumption, Shape, Beating, [Next]_vars
  PROVE  Beating'
  <1>1. /\ clock \in Nat /\ nextBeat \in Nat /\ heartbeat \in Nat
        /\ Interval \in Nat \ {0}
    BY DEF Shape, Tables, Time, BeatAssumption
  <1>2. CASE Tick
    <2>1. clock' = clock + 1 /\ beatUp' = beatUp
      BY <1>2 DEF Tick
    <2>2. CASE beatUp /\ nextBeat = clock'
      <3>1. nextBeat' = clock' + Interval /\ (unstored' \/ heartbeat' = clock')
        BY <1>2, <2>2 DEF Tick, WriteHeartbeat, StoreHeartbeat
      <3> QED
        BY <1>1, <2>1, <3>1 DEF Beating
    <2>3. CASE ~(beatUp /\ nextBeat = clock')
      <3>1. UNCHANGED <<nextBeat, heartbeat, unstored>>
        BY <1>2, <2>3 DEF Tick, WriteHeartbeat
      <3> QED
        BY <1>1, <2>1, <2>3, <3>1 DEF Beating
    <2> QED
      BY <2>2, <2>3
  <1>3. CASE BeatStart
    <2>1. clock' = clock /\ nextBeat' = clock + Interval /\ (unstored' \/ heartbeat' = clock')
      BY <1>3 DEF BeatStart, StoreHeartbeat
    <2> QED
      BY <1>1, <2>1 DEF Beating
  <1>4. CASE BeatCrash
    BY <1>4 DEF BeatCrash, Beating
  <1>5. CASE UNCHANGED <<clock, beatUp, nextBeat, heartbeat, unstored>>
    BY <1>5 DEF Beating
  <1>6. Next => Tick \/ BeatStart \/ BeatCrash
                \/ UNCHANGED <<clock, beatUp, nextBeat, heartbeat, unstored>>
    BY DEF Next, CommitRow, SendDigestTask, SendCheckTask, CheckBeat, Begin, Read,
           MarkDigestSent, SkipDuplicate, MarkRaises, SendDigest, Crash, beat, health
  <1>7. UNCHANGED vars => UNCHANGED <<clock, beatUp, nextBeat, heartbeat, unstored>>
    BY DEF vars, beat, health
  <1> QED
    BY <1>2, <1>3, <1>4, <1>5, <1>6, <1>7
-----------------------------------------------------------------------------
(* The invariant.                                                          *)

LEMMA InitIInv ==
  ASSUME BeatAssumption, Init PROVE IInv
  <1>1. Shape
    BY InitShape
  <1>2. RowKinds
    BY DEF Init, RowKinds, NoRow
  <1>3. /\ marks = {} /\ reported = {} /\ tried = [m \in Digests |-> 0]
        /\ \A e \in Execs : exec[e].pc = "idle" /\ exec[e].found = {}
    BY DEF Init, Idle
  <1>4. Digested
    BY <1>3 DEF Digested, Senders, Alone, Sending, TriedIsMarked, OncePerDay, MarkedIsTried
  <1>5. Reading /\ Reported
    BY <1>3 DEF Reading, Dated, Faithful, Reported
  <1>6. Beating
    BY DEF Init, Beating, BeatAssumption
  <1> QED
    BY <1>1, <1>2, <1>4, <1>5, <1>6 DEF IInv

LEMMA NextIInv ==
  ASSUME BeatAssumption, IInv, [Next]_vars PROVE IInv'
  <1>1. Beating'
    BY BeatingStep DEF IInv
  <1>2. CASE Tick
    <2>1. Shape'
      BY <1>2, TickKeepsShape DEF IInv
    <2>2. UNCHANGED <<row, marks, exec, tried, reported, missed>>
      BY <1>2 DEF Tick, digest
    <2>3. RowKinds' /\ Digested' /\ Reported'
      BY <2>2, FewerSenders DEF IInv, RowKinds, Reported, Sending, DigestOf
    <2>4. Reading'
      BY <2>2, FaithfulStep DEF IInv, Reading, Asked
    <2> QED
      BY <1>1, <2>1, <2>3, <2>4 DEF IInv
  <1>3. ASSUME NEW i \in Items, CommitRow(i) PROVE IInv'
    <2>1. Shape' /\ Reading'
      BY <1>3, CommitRowKeepsShape, CommitRowKeepsReading DEF IInv
    <2>2. \A e \in Execs : /\ exec'[e].pc = exec[e].pc /\ exec'[e].n = exec[e].n
                           /\ exec'[e].now = exec[e].now
      BY <1>3 DEF CommitRow, Moved, IInv, Shape, Records
    <2>3. UNCHANGED <<marks, tried, reported, missed>>
      BY <1>3 DEF CommitRow
    <2>4. Digested' /\ Reported'
      BY <2>2, <2>3, FewerSenders DEF IInv, Sending, DigestOf, Reported
    <2>5. RowKinds'
      <3>1. PICK s \in Outcomes(i), at \in Time :
              row' = [row EXCEPT ![i] = [status |-> s, at |-> at]]
        BY <1>3 DEF CommitRow
      <3> QED
        BY <3>1 DEF IInv, RowKinds, Shape, Tables, Outcomes
    <2> QED
      BY <1>1, <2>1, <2>4, <2>5 DEF IInv
  <1>4. CASE \/ SendDigestTask \/ SendCheckTask \/ BeatCrash \/ BeatStart \/ CheckBeat
             \/ UNCHANGED vars
    <2>1. Shape' /\ exec' = exec
      BY <1>4, BeatKeepsShape DEF IInv
    <2>2. UNCHANGED <<row, marks, tried, reported, missed>>
      BY <1>4 DEF SendDigestTask, SendCheckTask, BeatCrash, BeatStart, CheckBeat, digest, vars
    <2>3. RowKinds' /\ Digested' /\ Reported'
      BY <2>1, <2>2, FewerSenders DEF IInv, RowKinds, Reported, Sending, DigestOf
    <2>4. Reading'
      BY <2>1, <2>2, FaithfulStep DEF IInv, Reading, Asked
    <2> QED
      BY <1>1, <2>1, <2>3, <2>4 DEF IInv
  <1>5. ASSUME NEW e \in Execs, DigestStep(e) PROVE IInv'
    <2>1. Shape' /\ Digested' /\ Reading' /\ Reported' /\ row' = row
      BY <1>5, DigestKeepsShape, DigestKeepsDigested, DigestKeepsReading DEF IInv
    <2> QED
      BY <1>1, <2>1 DEF IInv, RowKinds
  <1> QED
    BY <1>2, <1>3, <1>4, <1>5 DEF Next, DigestStep

THEOREM Invariance == Spec => []IInv
  <1>1. Init => IInv
    BY BeatAssumption, InitIInv
  <1>2. IInv /\ [Next]_vars => IInv'
    BY BeatAssumption, NextIInv
  <1> QED
    BY <1>1, <1>2, PTL DEF Spec

(* What has been read in full is what the day has left.                    *)
LEMMA RowIsTrue ==
  ASSUME BeatAssumption, IInv, NEW e \in Execs, exec[e].pc \in {"mark", "send"},
         NEW i \in Items \ exec[e].moved
  PROVE  LET lists == {f.query : f \in {g \in exec[e].found : g.item = i}}
             today == DateOf(row[i].at) = DateOf(exec[e].now) /\ row[i].at # exec[e].now
             s     == row[i].status
         IN /\ "published" \in lists <=> s = "published" /\ today
            /\ "failedPublishes" \in lists <=> i \in Publishes /\ s = "failed" /\ today
            /\ "failedRuns" \in lists <=> i \in Runs /\ s \in {"failed", "exhausted"} /\ today
  <1> DEFINE lists == {f.query : f \in {g \in exec[e].found : g.item = i}}
             now   == exec[e].now
             at    == row[i].at
             today == DateOf(at) = DateOf(now) /\ at # now
             s     == row[i].status
             c     == ChannelOf[i]
  <1>1. Agrees(e, i)
    BY DEF IInv, Reading, Faithful
  <1>2. at \in Nat /\ now \in Nat /\ at <= now
    BY <1>1 DEF Agrees, IInv, Shape, Tables, Records, RowType, Time, BeatAssumption
  <1>3. \A q \in Lists \ Pending : q \in lists <=> i \in Windowed(q, c, now)
    <2>1. c \in Channels
      BY DEF BeatAssumption
    <2> QED
      BY <1>1, <2>1, AllReached DEF Agrees, Has
  <1>4. InWindow(i, now) <=> today
    <2>1. InWindow(i, now) => today
      BY <1>2, SameDay DEF InWindow
    <2>2. today => InWindow(i, now)
      <3>1. DateOf(at) * DayLength <= at
        BY <1>2 DEF DateOf, BeatAssumption
      <3> QED
        BY <1>2, <3>1 DEF InWindow
    <2> QED
      BY <2>1, <2>2
  <1>5. (s = "published" => i \in Publishes) /\ (i \in Publishes \/ i \in Runs)
    BY DEF IInv, RowKinds, Items
  <1> HIDE DEF lists, now, at, today
  <1>6. /\ "published" \in lists <=> i \in ListPublished(c, now)
        /\ "failedPublishes" \in lists <=> i \in ListFailed(c, now)
        /\ "failedRuns" \in lists <=> i \in ListFailedRuns(c, now)
    BY <1>3, FiveLists DEF Windowed, Pending
  <1>7. /\ "published" \in lists <=> s = "published" /\ today
        /\ "failedPublishes" \in lists <=> i \in Publishes /\ s = "failed" /\ today
        /\ "failedRuns" \in lists <=> i \in Runs /\ s \in {"failed", "exhausted"} /\ today
    BY <1>4, <1>5, <1>6 DEF ListPublished, ListFailed, ListFailedRuns
  <1> QED
    BY <1>7 DEF lists, now, at, today

(* A count that has been read has what waits, as far as the limit.         *)
LEMMA CountIsTrue ==
  ASSUME BeatAssumption, IInv, NEW e \in Execs, exec[e].pc \in {"mark", "send"},
         NEW q \in Pending, NEW c \in Channels
  PROVE  Counts(Counted(e, q, c), q, c, exec[e].moved)
  <1>1. CountOK(e, q, c)
    BY DEF IInv, Reading, Faithful
  <1>2. q \in Lists /\ exec[e].pc # "read"
    BY FiveLists DEF Pending
  <1> QED
    BY <1>1, <1>2, AllReached DEF CountOK

LEMMA PendingIsTrue ==
  ASSUME BeatAssumption, IInv, NEW e \in Execs, exec[e].pc \in {"mark", "send"},
         NEW i \in Items \ exec[e].moved
  PROVE  LET lists == {f.query : f \in {g \in exec[e].found : g.item = i}}
             s     == row[i].status
             count == IF i \in Publishes THEN "pendingPublishes" ELSE "pendingRuns"
         IN /\ lists \cap {"pendingPublishes", "pendingRuns"} \subseteq
                 {q \in {count} : s = "failed"}
            /\ s = "failed" => \/ count \in lists
                               \/ Cardinality(Counted(e, count, ChannelOf[i])) = ListLimit
  <1> DEFINE lists == {f.query : f \in {g \in exec[e].found : g.item = i}}
             c     == ChannelOf[i]
             count == IF i \in Publishes THEN "pendingPublishes" ELSE "pendingRuns"
  <1>1. c \in Channels /\ Publishes \cap Runs = {} /\ (i \in Publishes \/ i \in Runs)
    BY DEF BeatAssumption, Items
  <1>2. \A q : q \in lists <=> i \in Counted(e, q, c)
    BY DEF Counted
  <1> HIDE DEF lists, c
  <1>3. ASSUME NEW q \in Pending
        PROVE  /\ q \in lists => i \in Waiting(q, c)
               /\ i \in Waiting(q, c) => q \in lists \/ Cardinality(Counted(e, q, c)) = ListLimit
    <2>1. Counts(Counted(e, q, c), q, c, exec[e].moved)
      BY <1>1, CountIsTrue
    <2> QED
      BY <1>2, <2>1 DEF Counts
  <1>4. \A q \in Pending : i \in Waiting(q, c) <=> q = count /\ row[i].status = "failed"
    BY <1>1 DEF Waiting, Pending, c
  <1>5. count \in Pending
    BY DEF Pending
  <1> HIDE DEF count
  <1>6. lists \cap {"pendingPublishes", "pendingRuns"} \subseteq
          {q \in {count} : row[i].status = "failed"}
    BY <1>3, <1>4 DEF Pending
  <1>7. row[i].status = "failed" =>
          count \in lists \/ Cardinality(Counted(e, count, c)) = ListLimit
    BY <1>3, <1>4, <1>5
  <1> QED
    BY <1>6, <1>7 DEF lists, c, count

LEMMA ReadIsTrue ==
  ASSUME BeatAssumption, IInv PROVE ReportsTheDay
  <1>1. ASSUME NEW e \in Execs, exec[e].pc \in {"mark", "send"},
               NEW c \in Channels, NEW q \in {"pendingPublishes", "pendingRuns"}
        PROVE  Cardinality(Counted(e, q, c)) <= ListLimit
    BY <1>1, CountIsTrue DEF Counts, Pending
  <1> QED
    BY <1>1, RowIsTrue, PendingIsTrue DEF ReportsTheDay
-----------------------------------------------------------------------------
(* Every reachable state is well typed, for any number of channels, items, *)
(* executions and ticks.                                                   *)
THEOREM TypeCorrect == Spec => []TypeOK
  <1>1. IInv => TypeOK
    BY ShapeTypes DEF IInv
  <1> QED
    BY Invariance, <1>1, PTL

(* SET NX lets one execution through for each channel and date, and that   *)
(* one sends at most once, however often beat sends the task and wherever  *)
(* executions are lost (tasks/notifications.py:26-58).                     *)
THEOREM OneDigestADay == Spec => []OncePerDay
  <1>1. IInv => OncePerDay
    BY DEF IInv, Digested
  <1> QED
    BY Invariance, <1>1, PTL

(* A mark without a digest that was tried, or is about to be, is one of an *)
(* execution that was lost (tasks/notifications.py:50-58).                 *)
THEOREM MarksAreTried == Spec => []MarkedIsTried
  <1>1. IInv => MarkedIsTried
    BY DEF IInv, Digested
  <1> QED
    BY Invariance, <1>1, PTL

(* What ended at one time is told by the digests of one day, since it is   *)
(* told only by those of its own (services/channel_digest.py:27-30).       *)
THEOREM NothingToldTwice == Spec => []ReportedOnce
  <1>1. IInv => ReportedOnce
    BY DEF IInv, Reported, ReportedOnce
  <1> QED
    BY Invariance, <1>1, PTL

(* The five queries of a channel, one after the other, tell the truth of   *)
(* every row that does not move meanwhile, for any items and any limit of  *)
(* the counts: one that stays below the limit has left nothing out         *)
(* (services/channel_digest.py, cruds/video.py:316-341).                   *)
THEOREM DigestIsTrue == Spec => []ReportsTheDay
  <1>1. IInv => ReportsTheDay
    BY BeatAssumption, ReadIsTrue
  <1> QED
    BY Invariance, <1>1, PTL

(* An alert means that beat is down or that Redis has refused a heartbeat, *)
(* for any interval below the threshold (tasks/health.py).                 *)
THEOREM AlertsAreTrue == Spec => AlertMeansSilence
  <1> DEFINE Alerted == "check" \in queued \ queued' /\ alert'
  <1>1. ASSUME BeatAssumption, IInv, [Next]_vars, Alerted
        PROVE  clock - heartbeat > StaleThreshold /\ (beatUp => unstored)
    <2>1. CheckBeat
      <3>1. queued' # queued /\ "check" \in queued /\ "check" \notin queued'
        BY <1>1
      <3> HIDE DEF Alerted
      <3>2. ~ UNCHANGED vars /\ ~Tick /\ (\A i \in Items : ~CommitRow(i))
            /\ ~SendDigestTask /\ ~SendCheckTask /\ ~BeatCrash /\ ~BeatStart
        BY <3>1 DEF vars, Tick, CommitRow, SendDigestTask, SendCheckTask, BeatCrash, BeatStart
      <3>3. ASSUME NEW e \in Execs PROVE ~DigestStep(e)
        BY <3>1 DEF DigestStep, Begin, Read, MarkDigestSent, SkipDuplicate, MarkRaises,
           SendDigest, Crash
      <3> QED
        BY <1>1, <3>2, <3>3 DEF Next, DigestStep
    <2>2. Stale
      BY <1>1, <2>1 DEF CheckBeat
    <2>3. /\ clock \in Nat /\ heartbeat \in 0..clock /\ nextBeat \in Nat
          /\ Interval \in Nat /\ StaleThreshold \in Nat \ {0} /\ Interval < StaleThreshold
      BY <1>1 DEF IInv, Shape, Tables, Time, BeatAssumption
    <2>4. clock - heartbeat > StaleThreshold
      BY <2>2, <2>3 DEF Stale, Present, BEAT_TTL
    <2>5. beatUp /\ ~unstored => clock < heartbeat + Interval
      BY <1>1, <2>3 DEF IInv, Beating
    <2>6. beatUp => unstored
      BY <2>3, <2>4, <2>5
    <2> QED
      BY <2>4, <2>6
  <1>2. IInv /\ [Next]_vars
        => [Alerted => /\ clock - heartbeat > StaleThreshold
                       /\ beatUp => unstored]_vars
    BY <1>1, BeatAssumption
  <1> QED
    BY Invariance, <1>2, PTL DEF Spec, AlertMeansSilence
=============================================================================
