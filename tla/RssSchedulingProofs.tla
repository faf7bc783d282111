------------------------- MODULE RssSchedulingProofs -------------------------
(* Proofs about RssScheduling, for any planners, limits and days.          *)
EXTENDS RssScheduling, FiniteSetTheorems, TLAPS

PCs == {"idle", "load", "dispatch", "create", "telafi", "compensate", "ended", "lost"}

(* An uncommitted row is that of a planner at work.                        *)
Drafted == \A i \in Ids \ Free : /\ rows[i].updated <= day
                                 /\ rows[i].status = "draft" => rows[i].by \in Planning

(* The channel row is held by scrapes that have planned.                   *)
Lock == \A s \in dating : Scrapes(s) /\ today[s] > 0 /\ pc[s] \in {"telafi", "compensate"}

Types == /\ day \in 1..MaxDays /\ feeds \in BOOLEAN
         /\ unused \in 0..MaxNews /\ dated \in 0..day
         /\ rows \in [Ids -> RowType \cup {NoRow}]
         /\ left \in [Planners -> 0..MaxNews]
         /\ met \subseteq SUBSET Planners
         /\ pc \in [Planners -> PCs]
         /\ today \in [Planners -> 0..day] /\ seen \in [Planners -> 0..day]
         /\ dating \subseteq Planners

Shape == Types /\ Drafted /\ Lock

(* What the place of a planner says of its date.                           *)
Dateless == \A s \in Planners : pc[s] \in {"idle", "load", "dispatch"} => today[s] = 0
InHand   == \A s \in Planners :
              /\ pc[s] = "create" => today[s] > 0
              /\ pc[s] \in {"telafi", "compensate"} => Scrapes(s) /\ (today[s] > 0 => s \in dating)
              /\ pc[s] = "lost" => ~Scrapes(s)

(* Planners that are at work at one time have met.                         *)
Overlaps == \A p, q \in Planning : p # q => {p, q} \in met

(* The date is that of a planner that has ended, or a later one, unless an *)
(* overlapping planner of an earlier day has put it back.                  *)
Written(p) == pc[p] = "ended" /\ today[p] > 0
Early(p)   == \E s \in Planners : Written(s) /\ {p, s} \in met /\ today[s] < today[p]
Standing   == \A p \in Planners : Written(p) => dated >= today[p] \/ Early(p)

(* Who has an earlier date and has not ended has met all that have a later *)
(* one.                                                                    *)
Overtaken == \A p, s \in Planners :
               s \in Planning /\ today[s] > 0 /\ today[s] < today[p] => {p, s} \in met

(* A planner with a date read earlier knows of those that have ended.      *)
Seen == \A p, q \in Planners :
          pc[q] = "dispatch" /\ Written(p) => {p, q} \in met \/ seen[q] >= today[p] \/ Early(p)

(* Two planners of one day.                                                *)
Lost(p) == pc[p] = "lost"
Pairs   == \A p, q \in Planners :
             /\ p # q /\ KindOf[p] # "force" /\ KindOf[q] # "force"
             /\ today[p] = today[q] /\ today[p] > 0
             => {p, q} \in met \/ Early(p) \/ Early(q) \/ Lost(p) \/ Lost(q)

Plans == Dateless /\ InHand /\ Overlaps /\ Standing /\ Overtaken /\ Seen /\ Pairs

(* Rows are those of planners that have come to them, and a date has rows. *)
RowsOf == \A i \in Ids \ Free :
            /\ pc[rows[i].by] \in {"create", "telafi", "compensate", "ended", "lost"}
            /\ rows[i].status = "draft" => Scrapes(rows[i].by)
            /\ rows[i].status # "draft" /\ Scrapes(rows[i].by) => pc[rows[i].by] = "ended"
HasPlan(s) == \E i \in Ids \ Free : rows[i].by = s /\ ~rows[i].telafi
InTable == \A s \in Planners : /\ pc[s] = "create" => left[s] > 0 \/ HasPlan(s)
                               /\ s \in dating => HasPlan(s)
Table == RowsOf /\ InTable /\ DatedMeansPlanned

IInv == Shape /\ Plans /\ Table
-----------------------------------------------------------------------------
(* Counting.                                                               *)

LEMMA SmallestOfThree ==
  ASSUME NEW a \in Nat, NEW b \in Nat, NEW c \in Nat
  PROVE  /\ Smallest({a, b, c}) \in {a, b, c}
         /\ Smallest({a, b, c}) <= a
  <1>1. \E n \in {a, b, c} : \A k \in {a, b, c} : n <= k
    <2>1. CASE a <= b /\ a <= c
      BY <2>1
    <2>2. CASE b <= a /\ b <= c
      BY <2>2
    <2>3. CASE c <= a /\ c <= b
      BY <2>3
    <2> QED
      BY <2>1, <2>2, <2>3
  <1>2. /\ Smallest({a, b, c}) \in {a, b, c}
        /\ \A k \in {a, b, c} : Smallest({a, b, c}) <= k
    BY <1>1 DEF Smallest
  <1> QED
    BY <1>2

LEMMA PlannedCount ==
  ASSUME SchedulingAssumption, Shape
  PROVE  plan_rss_video_count \in 0..MaxNews
  <1>1. unused \in 0..MaxNews /\ MaxNews \in Nat /\ MaxVideos \in Nat /\ DailyVideos \in Nat
    BY DEF Shape, Types, SchedulingAssumption
  <1> QED
    BY <1>1, SmallestOfThree DEF plan_rss_video_count

LEMMA CompensationCount ==
  ASSUME SchedulingAssumption, Shape, NEW s \in Planners
  PROVE  Compensation(s) \in 0..MaxNews
  <1> DEFINE completed == Cardinality(CompletedToday(s))
             slots == IF MaxVideos > completed THEN MaxVideos - completed ELSE 0
             gap == Cardinality(Today(s)) - completed
  <1>1. IsFiniteSet(Ids)
    BY FS_Interval DEF Ids, SchedulingAssumption
  <1>2. Today(s) \subseteq Ids /\ CompletedToday(s) \subseteq Today(s)
    BY DEF Today, CompletedToday
  <1>3. IsFiniteSet(Today(s)) /\ IsFiniteSet(CompletedToday(s))
    BY <1>1, <1>2, FS_Subset
  <1>4. Cardinality(Today(s)) \in Nat /\ completed \in Nat /\ completed <= Cardinality(Today(s))
    BY <1>2, <1>3, FS_CardinalityType, FS_Subset
  <1> HIDE DEF completed
  <1>5. slots \in Nat
    BY <1>4 DEF SchedulingAssumption
  <1>6. gap \in Nat
    BY <1>4
  <1>7. unused \in 0..MaxNews /\ MaxNews \in Nat
    BY DEF Shape, Types, SchedulingAssumption
  <1> HIDE DEF slots, gap
  <1>8. Smallest({unused, gap, slots}) \in {unused, gap, slots} /\ Smallest({unused, gap, slots}) <= unused
    BY <1>5, <1>6, <1>7, SmallestOfThree
  <1>9. {unused, gap, slots} = {gap, unused, slots}
    OBVIOUS
  <1>10. Compensation(s) = Smallest({gap, unused, slots})
    BY DEF Compensation, completed, slots, gap
  <1> QED
    BY <1>5, <1>6, <1>7, <1>8, <1>9, <1>10
-----------------------------------------------------------------------------
(* Types.                                                                  *)

LEMMA ShapeTypes == Shape => TypeOK
  BY DEF Shape, Types, Drafted, Lock, TypeOK

LEMMA InitShape ==
  ASSUME SchedulingAssumption, Init PROVE Shape
  <1>1. Free = Ids
    BY DEF Init, Free
  <1>2. day \in 1..MaxDays /\ dated \in 0..day /\ day \in Nat
    BY DEF Init, SchedulingAssumption
  <1>3. left \in [Planners -> 0..MaxNews]
    BY DEF Init, SchedulingAssumption
  <1>4. /\ pc \in [Planners -> PCs] /\ today \in [Planners -> 0..day]
        /\ seen \in [Planners -> 0..day] /\ dating \subseteq Planners
    BY <1>2 DEF Init, PCs
  <1>5. Types
    BY <1>2, <1>3, <1>4 DEF Init, Types
  <1> QED
    BY <1>1, <1>5 DEF Shape, Drafted, Lock, Init

LEMMA WorldKeepsShape ==
  ASSUME SchedulingAssumption, Shape, Midnight \/ ChangeFeeds \/ Age \/ UNCHANGED vars
  PROVE  Shape'
  <1>1. UNCHANGED <<rows, dated, pc, today, seen, left, dating, met>>
    BY DEF Midnight, ChangeFeeds, Age, vars, planner
  <1>2. day \in Nat /\ MaxDays \in Nat /\ MaxNews \in Nat /\ unused \in Nat
    BY DEF Shape, Types, SchedulingAssumption
  <1>3. day' \in 1..MaxDays /\ day' >= day /\ day' \in Nat
    BY <1>2 DEF Shape, Types, Midnight, ChangeFeeds, Age, vars
  <1>4. feeds' \in BOOLEAN /\ unused' \in 0..MaxNews
    <2>1. feeds' \in BOOLEAN
      <3>1. CASE ChangeFeeds
        BY <3>1 DEF ChangeFeeds
      <3>2. CASE UNCHANGED feeds
        BY <3>2 DEF Shape, Types
      <3> QED
        BY <3>1, <3>2 DEF Midnight, Age, vars
    <2>2. unused' \in 0..MaxNews
      BY <1>2 DEF Shape, Types, Midnight, ChangeFeeds, Age, vars
    <2> QED
      BY <2>1, <2>2
  <1>5. 0..day \subseteq 0..day'
    BY <1>2, <1>3
  <1>6. \A i \in Ids \ Free : rows[i].updated \in Nat
    BY DEF Shape, Types, Free, RowType
  <1>7. Types' /\ Drafted' /\ Lock'
    <2>1. dated' \in 0..day'
      BY <1>1, <1>5 DEF Shape, Types
    <2>2. \A i \in Ids \ Free : rows[i].updated <= day'
      <3>1. \A i \in Ids \ Free : rows[i].updated <= day
        BY DEF Shape, Drafted
      <3> QED
        BY <1>2, <1>3, <1>6, <3>1
    <2>3. Free' = Free /\ Planning' = Planning
      BY <1>1 DEF Free, Planning
    <2>4. Drafted' /\ Lock'
      BY <1>1, <2>2, <2>3 DEF Shape, Drafted, Lock
    <2>5. Types'
      BY <1>1, <1>3, <1>4, <1>5, <2>1 DEF Shape, Types
    <2> QED
      BY <2>4, <2>5
  <1> QED
    BY <1>7 DEF Shape

(* A step of the runs: a committed row stays one.                          *)
RowStep(i) == Start(i) \/ Complete(i) \/ Fail(i) \/ Requeue(i)

LEMMA RowStepOK ==
  ASSUME SchedulingAssumption, Shape, NEW i \in Ids, RowStep(i)
  PROVE  /\ i \notin Free /\ rows[i] \in RowType /\ rows[i].status # "draft"
         /\ rows'[i] \in RowType /\ rows'[i].status # "draft" /\ rows'[i].updated = day
         /\ rows'[i].by = rows[i].by /\ rows'[i].telafi = rows[i].telafi
         /\ rows' \in [Ids -> RowType \cup {NoRow}]
         /\ \A j \in Ids \ {i} : rows'[j] = rows[j]
         /\ Free' = Free
         /\ UNCHANGED <<day, feeds, dated, planner>> /\ unused' \in 0..MaxNews
  <1>1. rows[i].status \in {"pending", "running", "failed"}
    BY DEF RowStep, Start, Complete, Fail, Requeue
  <1>2. rows[i] # NoRow
    BY <1>1 DEF NoRow
  <1>3. i \notin Free /\ rows[i] \in RowType
    BY <1>2 DEF Free, Shape, Types
  <1>4. PICK st \in {"running", "completed", "failed", "pending"}, item \in BOOLEAN :
          Update(i, st, item)
    <2>1. rows[i].item \in BOOLEAN
      BY <1>3 DEF RowType
    <2>2. CASE Start(i)
      <3>1. (rows[i].item \/ (~rows[i].item /\ unused > 0)) \in BOOLEAN
        OBVIOUS
      <3> QED
        BY <2>2, <3>1 DEF Start
    <2> QED
      BY <2>1, <2>2 DEF RowStep, Complete, Fail, Requeue
  <1>5. day \in 1..MaxDays
    BY DEF Shape, Types
  <1>6. rows'[i] = [rows[i] EXCEPT !.status = st, !.updated = day, !.item = item]
        /\ \A j \in Ids \ {i} : rows'[j] = rows[j]
        /\ DOMAIN rows' = Ids
    BY <1>4 DEF Update, Shape, Types
  <1>7. /\ rows'[i] \in RowType /\ rows'[i].status = st /\ rows'[i].updated = day
        /\ rows'[i].by = rows[i].by /\ rows'[i].telafi = rows[i].telafi
    BY <1>3, <1>5, <1>6 DEF RowType
  <1>8. rows'[i] # NoRow
    <2>1. rows'[i].status # "none" /\ NoRow.status = "none"
      BY <1>7 DEF NoRow
    <2> QED
      BY <2>1
  <1>9. rows' \in [Ids -> RowType \cup {NoRow}]
    <2>1. rows' = [rows EXCEPT ![i] = rows'[i]]
      BY <1>4 DEF Update, Shape, Types
    <2> QED
      BY <1>7, <2>1 DEF Shape, Types
  <1>10. Free' = Free
    BY <1>3, <1>6, <1>8 DEF Free
  <1>11. unused' \in 0..MaxNews
    <2>1. unused \in 0..MaxNews /\ MaxNews \in Nat
      BY DEF Shape, Types, SchedulingAssumption
    <2> QED
      BY <2>1 DEF RowStep, Start, Complete, Fail, Requeue
  <1> QED
    BY <1>1, <1>3, <1>4, <1>6, <1>7, <1>9, <1>10, <1>11 DEF Update

LEMMA RowStepKeepsShape ==
  ASSUME SchedulingAssumption, Shape, NEW i \in Ids, RowStep(i)
  PROVE  Shape'
  <1>1. UNCHANGED <<day, feeds, dated, pc, today, seen, left, dating, met>>
    BY RowStepOK DEF planner
  <1>2. Planning' = Planning
    BY <1>1 DEF Planning
  <1>3. \A j \in Ids \ Free : /\ rows'[j].updated <= day
                              /\ rows'[j].status = "draft" => rows'[j].by \in Planning
    <2>1. day <= day
      BY DEF Shape, Types
    <2>2. \A j \in Ids \ Free : /\ rows[j].updated <= day
                                /\ rows[j].status = "draft" => rows[j].by \in Planning
      BY DEF Shape, Drafted
    <2> QED
      BY <2>1, <2>2, RowStepOK
  <1>4. Types'
    BY <1>1, RowStepOK DEF Shape, Types
  <1>5. Drafted' /\ Lock'
    BY <1>1, <1>2, <1>3, RowStepOK DEF Shape, Drafted, Lock
  <1> QED
    BY <1>4, <1>5 DEF Shape

Working == {"load", "dispatch", "create", "telafi", "compensate"}

(* What a step of planner s, which goes to l, leaves to the others.        *)
Acts(s, l) == /\ pc' = [pc EXCEPT ![s] = l]
              /\ \A q \in Planners \ {s} : today'[q] = today[q] /\ seen'[q] = seen[q]
              /\ \A q \in Planners \ {s} : q \in dating' <=> q \in dating
              /\ day' = day

(* Its drafts remain those of a planner at work.                           *)
LEMMA DraftsInHand ==
  ASSUME Shape, RowsOf, NEW s \in Planners, NEW l \in PCs, Acts(s, l),
         l \in Working \/ ~Scrapes(s), rows' = rows
  PROVE  Drafted'
  <1>1. Free' = Free
    BY DEF Free
  <1>2. ASSUME NEW i \in Ids \ Free, rows[i].status = "draft"
        PROVE  rows[i].by \in Planning'
    <2>1. rows[i].by \in Planning /\ Scrapes(rows[i].by)
      BY <1>2 DEF Shape, Drafted, RowsOf
    <2>2. CASE rows[i].by = s
      <3>1. l \in Working /\ pc'[s] = l
        BY <2>1, <2>2 DEF Acts, Shape, Types
      <3> QED
        BY <2>2, <3>1 DEF Planning, Working
    <2>3. CASE rows[i].by # s
      BY <2>1, <2>3 DEF Planning, Acts, Shape, Types
    <2> QED
      BY <2>2, <2>3
  <1>3. \A i \in Ids \ Free : rows[i].updated <= day'
    BY DEF Shape, Drafted, Acts
  <1> QED
    BY <1>1, <1>2, <1>3 DEF Drafted

LEMMA EnterKeepsShape ==
  ASSUME SchedulingAssumption, Shape, RowsOf, NEW s \in Planners, Scrape(s) \/ Request(s)
  PROVE  Shape' /\ Acts(s, "load")
  <1>1. /\ UNCHANGED <<day, feeds, dated, rows, seen, today, left, dating>>
        /\ pc' = [pc EXCEPT ![s] = "load"]
        /\ met' = met \cup {{s, q} : q \in Planning}
    BY DEF Scrape, Request, Enter, Goto
  <1>2. Acts(s, "load")
    BY <1>1 DEF Acts
  <1>3. unused' \in 0..MaxNews
    BY DEF Shape, Types, Scrape, Request, SchedulingAssumption
  <1>4. met' \subseteq SUBSET Planners
    <2>1. {{s, q} : q \in Planning} \subseteq SUBSET Planners
      BY DEF Planning
    <2>2. met \subseteq SUBSET Planners
      BY DEF Shape, Types
    <2> QED
      BY <1>1, <2>1, <2>2
  <1>5. pc[s] = "idle"
    BY DEF Scrape, Request, Enter
  <1>6. Lock'
    BY <1>1, <1>5 DEF Shape, Types, Lock
  <1>7. "load" \in PCs /\ "load" \in Working /\ pc' \in [Planners -> PCs]
    BY <1>1 DEF Shape, Types, PCs, Working
  <1>8. Types' /\ Drafted'
    <2>1. Drafted'
      BY <1>1, <1>2, <1>7, DraftsInHand
    <2>2. Types'
      BY <1>1, <1>3, <1>4, <1>7 DEF Shape, Types
    <2> QED
      BY <2>1, <2>2
  <1> QED
    BY <1>2, <1>6, <1>8 DEF Shape

LEMMA LoadKeepsShape ==
  ASSUME SchedulingAssumption, Shape, RowsOf, NEW s \in Planners, Load(s)
  PROVE  /\ Shape' /\ seen'[s] = dated
         /\ \E l \in {"dispatch", "telafi", "ended"} :
               /\ Acts(s, l) /\ pc'[s] = l
               /\ l = "telafi" => Scrapes(s)
               /\ l = "ended" => ~Scrapes(s)
  <1> DEFINE l == IF Listed(s) THEN "dispatch" ELSE AfterDispatch(s)
  <1>1. /\ UNCHANGED <<day, feeds, unused, dated, rows, today, left, dating, met>>
        /\ pc' = [pc EXCEPT ![s] = l] /\ seen' = [seen EXCEPT ![s] = dated] /\ pc[s] = "load"
    BY DEF Load, Goto
  <1>2. /\ l \in {"dispatch", "telafi", "ended"} /\ l \in PCs /\ (l \in Working \/ ~Scrapes(s))
        /\ l = "telafi" => Scrapes(s)
        /\ l = "ended" => ~Scrapes(s)
    BY DEF AfterDispatch, PCs, Working
  <1> HIDE DEF l
  <1>3. Acts(s, l) /\ seen'[s] = dated /\ pc'[s] = l
    BY <1>1 DEF Acts, Shape, Types
  <1>4. Lock'
    BY <1>1, <1>2 DEF Shape, Types, Lock
  <1>5. pc' \in [Planners -> PCs] /\ seen' \in [Planners -> 0..day]
    BY <1>1, <1>2 DEF Shape, Types
  <1>6. Types' /\ Drafted'
    <2>1. Drafted'
      BY <1>1, <1>2, <1>3, DraftsInHand
    <2>2. Types'
      BY <1>1, <1>5 DEF Shape, Types
    <2> QED
      BY <2>1, <2>2
  <1> QED
    BY <1>2, <1>3, <1>4, <1>6 DEF Shape

LEMMA DispatchKeepsShape ==
  ASSUME SchedulingAssumption, Shape, RowsOf, NEW s \in Planners, Dispatch(s)
  PROVE  /\ Shape'
         /\ \/ /\ Acts(s, "create") /\ today'[s] = day /\ left'[s] > 0
               /\ KindOf[s] # "force" => seen[s] # day
            \/ /\ today' = today
               /\ \E l \in {"telafi", "ended"} : /\ Acts(s, l) /\ pc'[s] = l
                                                 /\ l = "telafi" <=> Scrapes(s)
  <1> DEFINE n == plan_rss_video_count
             blocked == KindOf[s] # "force" /\ seen[s] = day
             quits == ~feeds \/ blocked \/ n = 0
             l == IF quits THEN AfterDispatch(s) ELSE "create"
  <1>1. n \in 0..MaxNews /\ 0 \in 0..day /\ day \in 0..day /\ MaxNews \in Nat
    BY PlannedCount DEF Shape, Types, SchedulingAssumption
  <1>2. /\ UNCHANGED <<day, feeds, unused, dated, rows, dating, met>>
        /\ seen' = [seen EXCEPT ![s] = 0] /\ pc[s] = "dispatch"
    BY DEF Dispatch
  <1>3. quits => /\ pc' = [pc EXCEPT ![s] = AfterDispatch(s)]
                 /\ UNCHANGED <<today, left>>
    BY DEF Dispatch, Goto
  <1>4. ~quits => /\ pc' = [pc EXCEPT ![s] = "create"]
                  /\ today' = [today EXCEPT ![s] = day]
                  /\ left' = [left EXCEPT ![s] = n]
    BY DEF Dispatch, Goto
  <1> HIDE DEF n, quits
  <1>5. l \in PCs /\ (l \in Working \/ ~Scrapes(s)) /\ pc' = [pc EXCEPT ![s] = l]
    BY <1>3, <1>4 DEF AfterDispatch, PCs, Working
  <1>6. Acts(s, l) /\ pc'[s] = l
    BY <1>2, <1>3, <1>4, <1>5 DEF Acts, Shape, Types
  <1>7. /\ today' \in [Planners -> 0..day] /\ seen' \in [Planners -> 0..day]
        /\ pc' \in [Planners -> PCs] /\ left' \in [Planners -> 0..MaxNews]
    BY <1>1, <1>2, <1>3, <1>4, <1>5 DEF Shape, Types
  <1>8. Lock'
    BY <1>2, <1>3, <1>4 DEF Shape, Types, Lock
  <1>9. Types' /\ Drafted'
    <2>1. Drafted'
      BY <1>2, <1>5, <1>6, DraftsInHand
    <2>2. Types'
      BY <1>1, <1>2, <1>7 DEF Shape, Types
    <2> QED
      BY <2>1, <2>2
  <1>10. Shape'
    BY <1>8, <1>9 DEF Shape
  <1>11. CASE quits
    <2>1. AfterDispatch(s) \in {"telafi", "ended"} /\ (AfterDispatch(s) = "telafi" <=> Scrapes(s))
      BY DEF AfterDispatch
    <2> QED
      BY <1>3, <1>6, <1>10, <1>11, <2>1
  <1>12. CASE ~quits
    <2>1. n # 0 /\ ~blocked
      BY <1>12 DEF quits
    <2>2. today'[s] = day /\ left'[s] = n /\ n > 0
      BY <1>1, <1>4, <1>12, <2>1 DEF Shape, Types
    <2> QED
      BY <1>6, <1>10, <1>12, <2>1, <2>2
  <1> QED
    BY <1>11, <1>12

(* The rows, as an action of planner s leaves them.                        *)
LEMMA NewRowOK ==
  ASSUME SchedulingAssumption, Shape, NEW s \in Planners, Create(s)
  PROVE  \E i \in Free : /\ rows' = [rows EXCEPT ![i] = NewRow(s)]
                         /\ NewRow(s) \in RowType /\ NewRow(s) # NoRow
                         /\ rows'[i] = NewRow(s)
                         /\ \A j \in Ids \ {i} : rows'[j] = rows[j]
                         /\ Free' = Free \ {i}
  <1>1. PICK i \in Free : rows' = [rows EXCEPT ![i] = NewRow(s)]
    BY DEF Create
  <1>2. NewRow(s) \in RowType
    BY DEF NewRow, RowType, Shape, Types
  <1>3. NewRow(s) # NoRow
    <2>1. NewRow(s).status # "none" /\ NoRow.status = "none"
      BY DEF NewRow, NoRow
    <2> QED
      BY <2>1
  <1>4. i \in Ids /\ rows'[i] = NewRow(s) /\ \A j \in Ids \ {i} : rows'[j] = rows[j]
    BY <1>1 DEF Free, Shape, Types
  <1>5. Free' = Free \ {i}
    BY <1>3, <1>4 DEF Free
  <1> QED
    BY <1>1, <1>2, <1>3, <1>4, <1>5

LEMMA CreateKeepsShape ==
  ASSUME SchedulingAssumption, Shape, NEW s \in Planners, Create(s)
  PROVE  Shape'
  <1>1. /\ UNCHANGED <<day, feeds, unused, dated, pc, seen, today, dating, met>>
        /\ pc[s] \in {"create", "compensate"} /\ left[s] > 0
        /\ left' = [left EXCEPT ![s] = @ - 1]
    BY DEF Create
  <1>2. PICK i \in Free : /\ rows' = [rows EXCEPT ![i] = NewRow(s)]
                          /\ NewRow(s) \in RowType
                          /\ rows'[i] = NewRow(s)
                          /\ \A j \in Ids \ {i} : rows'[j] = rows[j]
                          /\ Free' = Free \ {i}
    BY NewRowOK
  <1>3. rows' \in [Ids -> RowType \cup {NoRow}]
    <2>1. NewRow(s) \in RowType \cup {NoRow} /\ rows \in [Ids -> RowType \cup {NoRow}]
      BY <1>2 DEF Shape, Types
    <2> QED
      BY <1>2, <2>1
  <1>4. left' \in [Planners -> 0..MaxNews]
    <2>1. left[s] \in 0..MaxNews /\ MaxNews \in Nat
      BY DEF Shape, Types, SchedulingAssumption
    <2>2. left[s] - 1 \in 0..MaxNews
      BY <1>1, <2>1
    <2> QED
      BY <1>1, <2>2 DEF Shape, Types
  <1>5. Planning' = Planning /\ s \in Planning
    BY <1>1 DEF Planning
  <1>6. NewRow(s).updated = day /\ NewRow(s).by = s /\ day <= day
    BY DEF NewRow, Shape, Types
  <1>7. Drafted'
    BY <1>1, <1>2, <1>5, <1>6 DEF Shape, Drafted
  <1>8. Types' /\ Lock'
    BY <1>1, <1>3, <1>4 DEF Shape, Types, Lock
  <1> QED
    BY <1>7, <1>8 DEF Shape

LEMMA DateKeepsShape ==
  ASSUME SchedulingAssumption, Shape, Plans, RowsOf, NEW s \in Planners, Date(s)
  PROVE  /\ Shape' /\ dating = {} /\ today[s] > 0
         /\ \/ /\ Scrapes(s) /\ Acts(s, "telafi") /\ dating' = {s} /\ dated' = dated
            \/ /\ ~Scrapes(s) /\ Acts(s, "ended") /\ dating' = dating /\ dated' = today[s]
  <1> DEFINE l == AfterDispatch(s)
  <1>1. /\ UNCHANGED <<day, feeds, unused, rows, seen, today, left, met>>
        /\ pc' = [pc EXCEPT ![s] = l] /\ pc[s] = "create" /\ dating = {}
    BY DEF Date, Goto
  <1>2. /\ Scrapes(s) => l = "telafi" /\ dating' = {s} /\ dated' = dated
        /\ ~Scrapes(s) => l = "ended" /\ dating' = dating /\ dated' = today[s]
    BY DEF Date, AfterDispatch
  <1> HIDE DEF l
  <1>3. today[s] > 0 /\ today[s] \in 0..day
    BY <1>1 DEF Plans, InHand, Shape, Types
  <1>4. l \in PCs /\ (l \in Working \/ ~Scrapes(s))
    BY <1>2 DEF PCs, Working
  <1>5. Acts(s, l)
    BY <1>1, <1>2 DEF Acts
  <1>6. Lock'
    BY <1>1, <1>2, <1>3 DEF Lock, Shape, Types
  <1>7. Drafted'
    BY <1>1, <1>4, <1>5, DraftsInHand
  <1>8. Types'
    BY <1>1, <1>2, <1>4 DEF Shape, Types
  <1> QED
    BY <1>1, <1>2, <1>3, <1>5, <1>6, <1>7, <1>8 DEF Shape

LEMMA CompensateKeepsShape ==
  ASSUME SchedulingAssumption, Shape, RowsOf, NEW s \in Planners, Compensate(s)
  PROVE  Shape' /\ Acts(s, "compensate") /\ dating' = dating
  <1>1. /\ UNCHANGED <<day, feeds, unused, dated, rows, seen, today, dating, met>>
        /\ pc' = [pc EXCEPT ![s] = "compensate"] /\ pc[s] = "telafi"
        /\ left' = [left EXCEPT ![s] = IF feeds THEN Compensation(s) ELSE 0]
    BY DEF Compensate, Goto
  <1>2. (IF feeds THEN Compensation(s) ELSE 0) \in 0..MaxNews
    BY CompensationCount DEF SchedulingAssumption
  <1>3. Acts(s, "compensate")
    BY <1>1 DEF Acts
  <1>4. "compensate" \in PCs /\ "compensate" \in Working
    BY DEF PCs, Working
  <1>5. Drafted'
    BY <1>1, <1>3, <1>4, DraftsInHand
  <1>6. Types' /\ Lock'
    BY <1>1, <1>2, <1>4 DEF Shape, Types, Lock
  <1> QED
    BY <1>1, <1>3, <1>5, <1>6 DEF Shape

(* The drafts of a scrape become rows, or are gone.                        *)
LEMMA CommittedRows ==
  ASSUME Shape, NEW s \in Planners,
         rows' = [i \in Ids |-> IF i \in Drafts(s) THEN [rows[i] EXCEPT !.status = "pending"]
                                                   ELSE rows[i]]
  PROVE  /\ rows' \in [Ids -> RowType \cup {NoRow}] /\ Free' = Free
         /\ \A i \in Ids \ Free :
              /\ rows'[i] \in RowType
              /\ rows'[i].by = rows[i].by /\ rows'[i].telafi = rows[i].telafi
              /\ rows'[i].updated = rows[i].updated
              /\ rows'[i].status = "draft" <=> rows[i].status = "draft" /\ rows[i].by # s
  <1>1. ASSUME NEW i \in Ids \ Free
        PROVE  /\ rows'[i] \in RowType /\ rows'[i] # NoRow
               /\ rows'[i].by = rows[i].by /\ rows'[i].telafi = rows[i].telafi
               /\ rows'[i].updated = rows[i].updated
               /\ rows'[i].status = "draft" <=> rows[i].status = "draft" /\ rows[i].by # s
    <2>1. rows[i] \in RowType
      BY DEF Free, Shape, Types
    <2>2. \A r \in RowType : r # NoRow
      <3>1. NoRow.status = "none"
        BY DEF NoRow
      <3> QED
        BY <3>1 DEF RowType
    <2>3. CASE i \in Drafts(s)
      <3>1. rows'[i] = [rows[i] EXCEPT !.status = "pending"]
        BY <2>3
      <3>2. rows'[i] \in RowType
        BY <2>1, <3>1 DEF RowType
      <3> QED
        BY <2>1, <2>2, <2>3, <3>1, <3>2 DEF Drafts, RowType
    <2>4. CASE i \notin Drafts(s)
      BY <2>1, <2>2, <2>4 DEF Drafts
    <2> QED
      BY <2>3, <2>4
  <1>2. ASSUME NEW i \in Free PROVE rows'[i] = NoRow
    <2>1. rows[i].status = "none" /\ rows[i] = NoRow /\ i \in Ids
      BY DEF Free, NoRow
    <2> QED
      BY <2>1 DEF Drafts
  <1>3. Free' = Free
    BY <1>1, <1>2 DEF Free
  <1>4. rows' \in [Ids -> RowType \cup {NoRow}]
    <2>1. \A i \in Ids : rows'[i] \in RowType \cup {NoRow}
      BY <1>1, <1>2
    <2> QED
      BY <2>1
  <1> QED
    BY <1>1, <1>3, <1>4

LEMMA DroppedRows ==
  ASSUME Shape, NEW s \in Planners,
         rows' = [i \in Ids |-> IF i \in Drafts(s) THEN NoRow ELSE rows[i]]
  PROVE  /\ rows' \in [Ids -> RowType \cup {NoRow}] /\ Free' = Free \cup Drafts(s)
         /\ \A i \in Ids \ Free' : i \in Ids \ Free /\ i \notin Drafts(s) /\ rows'[i] = rows[i]
         /\ \A i \in Ids \ Free : i \notin Drafts(s) => i \in Ids \ Free'
  <1>1. rows' \in [Ids -> RowType \cup {NoRow}]
    BY DEF Shape, Types
  <1>2. Drafts(s) \subseteq Ids
    BY DEF Drafts
  <1>3. Free' = Free \cup Drafts(s)
    BY <1>2 DEF Free
  <1> QED
    BY <1>1, <1>3

LEMMA CommitKeepsShape ==
  ASSUME SchedulingAssumption, Shape, Plans, NEW s \in Planners, Commit(s)
  PROVE  /\ Shape' /\ Acts(s, "ended") /\ pc[s] = "compensate" /\ Scrapes(s)
         /\ dating' = dating \ {s} /\ today' = today
         /\ \/ s \in dating /\ today[s] > 0 /\ dated' = today[s]
            \/ s \notin dating /\ today[s] = 0 /\ dated' = dated
  <1>1. /\ UNCHANGED <<day, feeds, unused, seen, today, left, met>>
        /\ pc' = [pc EXCEPT ![s] = "ended"] /\ pc[s] = "compensate"
        /\ dating' = dating \ {s}
        /\ dated' = IF s \in dating THEN today[s] ELSE dated
    BY DEF Commit, Goto
  <1>2. /\ rows' \in [Ids -> RowType \cup {NoRow}] /\ Free' = Free
        /\ \A i \in Ids \ Free :
             /\ rows'[i].by = rows[i].by /\ rows'[i].updated = rows[i].updated
             /\ rows'[i].status = "draft" <=> rows[i].status = "draft" /\ rows[i].by # s
    BY CommittedRows DEF Commit
  <1>3. Acts(s, "ended")
    BY <1>1 DEF Acts
  <1>4. Scrapes(s) /\ (today[s] > 0 => s \in dating) /\ today[s] \in 0..day /\ day \in Nat
    BY <1>1 DEF Plans, InHand, Shape, Types
  <1>5. s \in dating => today[s] > 0
    BY DEF Shape, Lock
  <1>6. Lock'
    BY <1>1 DEF Lock, Shape, Types
  <1>7. Drafted'
    <2>1. \A q \in Planning : q # s => q \in Planning'
      BY <1>1 DEF Planning, Shape, Types
    <2> QED
      BY <1>1, <1>2, <2>1 DEF Shape, Drafted
  <1>8. Types'
    <2>1. pc' \in [Planners -> PCs]
      BY <1>1 DEF Shape, Types, PCs
    <2> QED
      BY <1>1, <1>2, <1>4, <2>1 DEF Shape, Types
  <1> QED
    BY <1>1, <1>3, <1>4, <1>5, <1>6, <1>7, <1>8 DEF Shape

LEMMA CrashKeepsShape ==
  ASSUME SchedulingAssumption, Shape, RowsOf, NEW s \in Planners, Crash(s)
  PROVE  /\ Shape' /\ s \in Planning
         /\ Acts(s, IF Scrapes(s) THEN "ended" ELSE "lost")
         /\ dating' = dating \ {s} /\ dated' = dated
         /\ today'[s] = IF Scrapes(s) THEN 0 ELSE today[s]
  <1> DEFINE l == IF Scrapes(s) THEN "ended" ELSE "lost"
  <1>1. /\ UNCHANGED <<day, feeds, unused, dated, met>> /\ s \in Planning
        /\ pc' = [pc EXCEPT ![s] = l] /\ dating' = dating \ {s}
        /\ seen' = [seen EXCEPT ![s] = 0] /\ left' = [left EXCEPT ![s] = 0]
        /\ today' = [today EXCEPT ![s] = IF Scrapes(s) THEN 0 ELSE today[s]]
    BY DEF Crash, Goto
  <1>2. /\ rows' \in [Ids -> RowType \cup {NoRow}]
        /\ \A i \in Ids \ Free' : i \in Ids \ Free /\ i \notin Drafts(s) /\ rows'[i] = rows[i]
    BY DroppedRows DEF Crash
  <1>3. l \in PCs
    BY DEF PCs
  <1> HIDE DEF l
  <1>4. Acts(s, l)
    BY <1>1 DEF Acts
  <1>5. Lock'
    BY <1>1 DEF Lock, Shape, Types
  <1>6. Drafted'
    <2>1. \A q \in Planning : q # s => q \in Planning'
      BY <1>1 DEF Planning, Shape, Types
    <2> QED
      BY <1>1, <1>2, <2>1 DEF Shape, Drafted, Drafts
  <1>7. Types'
    <2>1. day \in Nat /\ MaxNews \in Nat /\ today[s] \in 0..day
      BY DEF Shape, Types, SchedulingAssumption
    <2>2. pc' \in [Planners -> PCs] /\ today' \in [Planners -> 0..day]
      BY <1>1, <1>3, <2>1 DEF Shape, Types
    <2>3. seen' \in [Planners -> 0..day] /\ left' \in [Planners -> 0..MaxNews]
      BY <1>1, <2>1 DEF Shape, Types
    <2> QED
      BY <1>1, <1>2, <2>2, <2>3 DEF Shape, Types
  <1>8. today'[s] = IF Scrapes(s) THEN 0 ELSE today[s]
    BY <1>1 DEF Shape, Types
  <1> QED
    BY <1>1, <1>4, <1>5, <1>6, <1>7, <1>8 DEF Shape, l
-----------------------------------------------------------------------------
(* Plans.                                                                  *)

LEMMA SamePlans ==
  ASSUME Plans, UNCHANGED <<dated, pc, seen, today, dating, met>>
  PROVE  Plans'
  BY DEF Plans, Dateless, InHand, Overlaps, Standing, Overtaken, Seen, Pairs,
         Planning, Written, Early, Lost

LEMMA EnterKeepsPlans ==
  ASSUME Shape, Plans, NEW s \in Planners, Scrape(s) \/ Request(s)
  PROVE  Plans'
  <1>1. /\ UNCHANGED <<dated, seen, today, dating>>
        /\ pc[s] = "idle" /\ pc' = [pc EXCEPT ![s] = "load"]
        /\ met' = met \cup {{s, q} : q \in Planning}
    BY DEF Scrape, Request, Enter, Goto
  <1>2. today[s] = 0
    BY <1>1 DEF Plans, Dateless
  <1>3. pc'[s] = "load" /\ \A q \in Planners \ {s} : pc'[q] = pc[q]
    BY <1>1 DEF Shape, Types
  <1>4. met \subseteq met' /\ Planning' = Planning \cup {s}
    BY <1>1, <1>3 DEF Planning
  <1>5. \A p \in Planners : /\ Written(p)' <=> Written(p)
                            /\ Early(p) => Early(p)'
                            /\ Lost(p)' <=> Lost(p)
    <2>1. \A p \in Planners : (Written(p)' <=> Written(p)) /\ (Lost(p)' <=> Lost(p))
      BY <1>1, <1>3 DEF Written, Lost
    <2>2. \A p \in Planners : Early(p) => Early(p)'
      BY <1>1, <1>4, <2>1 DEF Early
    <2> QED
      BY <2>1, <2>2
  <1>6. Dateless' /\ InHand'
    BY <1>1, <1>2, <1>3 DEF Plans, Dateless, InHand
  <1>7. Overlaps'
    <2>1. ASSUME NEW p \in Planning', NEW q \in Planning', p # q
          PROVE  {p, q} \in met'
      <3>1. CASE p = s
        BY <1>1, <1>4, <2>1, <3>1
      <3>2. CASE q = s
        <4>1. {s, p} \in met'
          BY <1>1, <1>4, <2>1, <3>2
        <4>2. {s, p} = {p, s}
          OBVIOUS
        <4> QED
          BY <3>2, <4>1, <4>2
      <3>3. CASE p # s /\ q # s
        BY <1>4, <2>1, <3>3 DEF Plans, Overlaps
      <3> QED
        BY <3>1, <3>2, <3>3
    <2> QED
      BY <2>1 DEF Overlaps
  <1>8. Standing'
    BY <1>1, <1>5 DEF Plans, Standing
  <1>9. Overtaken'
    BY <1>1, <1>2, <1>4 DEF Plans, Overtaken
  <1>10. Seen'
    BY <1>1, <1>3, <1>4, <1>5 DEF Plans, Seen
  <1>11. Pairs'
    BY <1>1, <1>4, <1>5 DEF Plans, Pairs
  <1> QED
    BY <1>6, <1>7, <1>8, <1>9, <1>10, <1>11 DEF Plans

LEMMA LoadKeepsPlans ==
  ASSUME SchedulingAssumption, Shape, RowsOf, Plans, NEW s \in Planners, Load(s)
  PROVE  Plans'
  <1>1. PICK l \in {"dispatch", "telafi", "ended"} : /\ Acts(s, l) /\ pc'[s] = l
                                                     /\ l = "telafi" => Scrapes(s)
    BY LoadKeepsShape
  <1>2. UNCHANGED <<dated, today, dating, met>> /\ pc[s] = "load" /\ seen'[s] = dated
    BY LoadKeepsShape DEF Load
  <1>3. today[s] = 0
    BY <1>2 DEF Plans, Dateless
  <1>4. \A q \in Planners \ {s} : pc'[q] = pc[q] /\ seen'[q] = seen[q]
    BY <1>1 DEF Acts, Shape, Types
  <1>5. Planning' \subseteq Planning
    BY <1>1, <1>2, <1>4 DEF Planning
  <1>6. \A p \in Planners : /\ Written(p)' <=> Written(p)
                            /\ Early(p)' <=> Early(p)
                            /\ Lost(p)' <=> Lost(p)
    <2>1. ASSUME NEW p \in Planners
          PROVE (Written(p)' <=> Written(p)) /\ (Lost(p)' <=> Lost(p))
      <3>1. CASE p = s
        BY <1>1, <1>2, <1>3, <3>1 DEF Written, Lost
      <3>2. CASE p # s
        BY <1>2, <1>4, <3>2 DEF Written, Lost
      <3> QED
        BY <3>1, <3>2
    <2>2. \A p \in Planners : Early(p)' <=> Early(p)
      BY <1>2, <2>1 DEF Early
    <2> QED
      BY <2>1, <2>2
  <1>7. Dateless' /\ InHand'
    BY <1>1, <1>2, <1>3, <1>4 DEF Plans, Dateless, InHand
  <1>8. Overlaps' /\ Standing' /\ Overtaken' /\ Pairs'
    BY <1>2, <1>5, <1>6 DEF Plans, Overlaps, Standing, Overtaken, Pairs
  <1>9. Seen'
    <2>1. ASSUME NEW p \in Planners, NEW q \in Planners, pc'[q] = "dispatch", Written(p)'
          PROVE  {p, q} \in met' \/ seen'[q] >= today'[p] \/ Early(p)'
      <3>1. CASE q = s
        <4>1. dated >= today[p] \/ Early(p)
          BY <1>6, <2>1 DEF Plans, Standing
        <4> QED
          BY <1>2, <1>6, <3>1, <4>1
      <3>2. CASE q # s
        BY <1>2, <1>4, <1>6, <2>1, <3>2 DEF Plans, Seen
      <3> QED
        BY <3>1, <3>2
    <2> QED
      BY <2>1 DEF Seen
  <1> QED
    BY <1>7, <1>8, <1>9 DEF Plans

LEMMA DispatchKeepsPlans ==
  ASSUME SchedulingAssumption, Shape, RowsOf, Plans, NEW s \in Planners, Dispatch(s)
  PROVE  Plans'
  <1>1. UNCHANGED <<dated, dating, met>> /\ pc[s] = "dispatch" /\ s \in Planning
    BY DEF Dispatch, Planning
  <1>2. today[s] = 0 /\ seen[s] \in 0..day /\ day \in Nat /\ day > 0
    BY <1>1 DEF Plans, Dateless, Shape, Types
  <1>3. \A q \in Planners : today[q] \in 0..day
    BY DEF Shape, Types
  <1>4. CASE /\ today' = today
             /\ \E l \in {"telafi", "ended"} :
                   Acts(s, l) /\ pc'[s] = l /\ (l = "telafi" => Scrapes(s))
    <2>1. PICK l \in {"telafi", "ended"} : Acts(s, l) /\ pc'[s] = l /\ (l = "telafi" => Scrapes(s))
      BY <1>4
    <2>2. \A q \in Planners \ {s} : pc'[q] = pc[q] /\ seen'[q] = seen[q]
      BY <2>1 DEF Acts, Shape, Types
    <2>3. Planning' \subseteq Planning
      BY <1>1, <2>1, <2>2 DEF Planning
    <2>4. \A p \in Planners : (Written(p)' <=> Written(p)) /\ (Lost(p)' <=> Lost(p))
      BY <1>1, <1>2, <1>4, <2>1, <2>2 DEF Written, Lost
    <2>5. \A p \in Planners : Early(p)' <=> Early(p)
      BY <1>1, <1>4, <2>4 DEF Early
    <2>6. Dateless' /\ InHand'
      BY <1>1, <1>2, <1>4, <2>1, <2>2 DEF Plans, Dateless, InHand
    <2>7. Overlaps' /\ Standing' /\ Overtaken' /\ Pairs'
      BY <1>1, <1>4, <2>3, <2>4, <2>5 DEF Plans, Overlaps, Standing, Overtaken, Pairs
    <2>8. Seen'
      BY <1>1, <1>4, <2>1, <2>2, <2>4, <2>5 DEF Plans, Seen
    <2> QED
      BY <2>6, <2>7, <2>8 DEF Plans
  <1>5. CASE /\ Acts(s, "create") /\ today'[s] = day
             /\ KindOf[s] # "force" => seen[s] # day
    <2>1. /\ pc'[s] = "create"
          /\ \A q \in Planners \ {s} : pc'[q] = pc[q] /\ seen'[q] = seen[q] /\ today'[q] = today[q]
      BY <1>5 DEF Acts, Shape, Types
    <2>2. Planning' = Planning
      BY <1>1, <2>1 DEF Planning
    <2>3. \A p \in Planners : (Written(p)' <=> Written(p)) /\ (Lost(p)' <=> Lost(p))
                              /\ (Written(p) => p # s)
      BY <1>1, <2>1 DEF Written, Lost
    <2>4. \A p \in Planners \ {s} : Early(p)' <=> Early(p)
      BY <1>1, <2>1, <2>3 DEF Early
    <2>5. Dateless' /\ InHand' /\ Overlaps'
      BY <1>1, <1>2, <1>5, <2>1, <2>2 DEF Plans, Dateless, InHand, Overlaps
    <2>6. Standing' /\ Seen'
      BY <1>1, <2>1, <2>3, <2>4 DEF Plans, Standing, Seen
    <2>7. Overtaken'
      <3>1. ASSUME NEW p \in Planners, NEW t \in Planners,
                   t \in Planning, today'[t] > 0, today'[t] < today'[p]
            PROVE  {p, t} \in met
        <4>1. p # t
          <5>1. today'[p] \in Nat
            BY <1>2, <1>3, <1>5, <2>1
          <5> QED
            BY <3>1, <5>1
        <4>2. CASE p = s
          BY <1>1, <3>1, <4>1, <4>2 DEF Plans, Overlaps
        <4>3. CASE t = s
          <5>1. today'[p] = today[p] /\ today[p] \in 0..day /\ day < today[p]
            BY <1>3, <1>5, <2>1, <3>1, <4>1, <4>3
          <5> QED
            BY <1>2, <5>1
        <4>4. CASE p # s /\ t # s
          BY <2>1, <3>1, <4>4 DEF Plans, Overtaken
        <4> QED
          BY <4>2, <4>3, <4>4
      <3> QED
        BY <1>1, <2>2, <3>1 DEF Overtaken
    <2>8. ASSUME NEW q \in Planners, q # s, KindOf[s] # "force", KindOf[q] # "force",
                 today'[q] = day
          PROVE  ({s, q} \in met /\ {q, s} \in met) \/ Early(q)' \/ Lost(q)'
      <3>1. today[q] = day /\ pc'[q] = pc[q]
        BY <2>1, <2>8
      <3>2. pc[q] \in {"create", "telafi", "compensate", "ended", "lost"}
        BY <1>2, <3>1 DEF Plans, Dateless, Shape, Types, PCs
      <3>3. CASE q \in Planning
        BY <1>1, <2>8, <3>3 DEF Plans, Overlaps
      <3>4. CASE pc[q] = "lost"
        BY <2>3, <3>4 DEF Lost
      <3>5. CASE pc[q] = "ended"
        <4>1. Written(q)
          BY <1>2, <3>1, <3>5 DEF Written
        <4>2. {q, s} \in met \/ seen[s] >= day \/ Early(q)
          BY <1>1, <3>1, <4>1 DEF Plans, Seen
        <4>3. ~(seen[s] >= day)
          BY <1>2, <1>5, <2>8
        <4>4. {q, s} = {s, q}
          OBVIOUS
        <4> QED
          BY <2>4, <2>8, <4>2, <4>3, <4>4
      <3> QED
        BY <3>2, <3>3, <3>4, <3>5 DEF Planning
    <2>9. Pairs'
      <3>1. ASSUME NEW p \in Planners, NEW q \in Planners, p # q,
                   KindOf[p] # "force", KindOf[q] # "force",
                   today'[p] = today'[q], today'[p] > 0
            PROVE  {p, q} \in met \/ Early(p)' \/ Early(q)' \/ Lost(p)' \/ Lost(q)'
        <4>1. CASE p = s
          BY <1>5, <2>8, <3>1, <4>1
        <4>2. CASE q = s
          BY <1>5, <2>8, <3>1, <4>2
        <4>3. CASE p # s /\ q # s
          BY <2>1, <2>3, <2>4, <3>1, <4>3 DEF Plans, Pairs
        <4> QED
          BY <4>1, <4>2, <4>3
      <3> QED
        BY <1>1, <3>1 DEF Pairs
    <2> QED
      BY <2>5, <2>6, <2>7, <2>9 DEF Plans
  <1> QED
    BY <1>4, <1>5, DispatchKeepsShape

(* A planner that ends with a date: the date is now its own.               *)
LEMMA WriterKeepsPlans ==
  ASSUME Shape, Plans, NEW s \in Planning, pc[s] # "dispatch", today[s] > 0,
         Acts(s, "ended"), today' = today, met' = met, dated' = today[s],
         dating' \subseteq dating
  PROVE  Plans'
  <1>1. \A q \in Planners \ {s} : pc'[q] = pc[q] /\ seen'[q] = seen[q]
                                  /\ (q \in dating' <=> q \in dating)
    BY DEF Acts, Shape, Types, Planning
  <1>2. s \in Planners /\ pc'[s] = "ended" /\ pc[s] # "ended" /\ pc[s] # "lost"
    BY DEF Acts, Shape, Types, Planning
  <1>3. Planning' \subseteq Planning /\ s \notin Planning'
    BY <1>1, <1>2 DEF Planning
  <1>4. \A p \in Planners : /\ Written(p)' <=> Written(p) \/ p = s
                            /\ Lost(p)' <=> Lost(p)
    BY <1>1, <1>2 DEF Written, Lost
  <1>5. \A p \in Planners : Early(p) => Early(p)'
    BY <1>4 DEF Early
  <1>6. Dateless' /\ InHand'
    BY <1>1, <1>2 DEF Plans, Dateless, InHand
  <1>7. Overlaps' /\ Overtaken' /\ Pairs'
    BY <1>3, <1>4, <1>5 DEF Plans, Overlaps, Overtaken, Pairs
  <1>8. Standing'
    <2>1. ASSUME NEW p \in Planners, Written(p)'
          PROVE  dated' >= today[p] \/ Early(p)'
      <3>1. today[s] \in Nat /\ today[p] \in Nat
        BY <1>2 DEF Shape, Types
      <3>2. CASE today[s] >= today[p]
        BY <3>2
      <3>3. CASE today[s] < today[p]
        <4>1. {p, s} \in met
          BY <1>2, <3>3 DEF Plans, Overtaken
        <4> QED
          BY <1>2, <1>4, <3>3, <4>1 DEF Early
      <3> QED
        BY <3>1, <3>2, <3>3
    <2> QED
      BY <2>1 DEF Standing
  <1>9. Seen'
    <2>1. ASSUME NEW p \in Planners, NEW q \in Planners, pc'[q] = "dispatch", Written(p)'
          PROVE  {p, q} \in met \/ seen'[q] >= today[p] \/ Early(p)'
      <3>1. q # s /\ pc[q] = "dispatch" /\ seen'[q] = seen[q] /\ q \in Planning
        BY <1>1, <1>2, <2>1 DEF Planning
      <3>2. CASE p = s
        BY <3>1, <3>2 DEF Plans, Overlaps
      <3>3. CASE p # s
        BY <1>4, <1>5, <2>1, <3>1, <3>3 DEF Plans, Seen
      <3> QED
        BY <3>2, <3>3
    <2> QED
      BY <2>1 DEF Seen
  <1> QED
    BY <1>6, <1>7, <1>8, <1>9 DEF Plans

(* A planner that stays at work, its date unchanged.                       *)
LEMMA WorkerKeepsPlans ==
  ASSUME Shape, Plans, NEW s \in Planning, pc[s] # "dispatch", NEW l \in {"telafi", "compensate"},
         Acts(s, l), Scrapes(s), today' = today, met' = met, dated' = dated,
         today[s] > 0 => s \in dating', s \in dating => s \in dating'
  PROVE  Plans'
  <1>1. /\ s \in Planners /\ pc'[s] = l
        /\ \A q \in Planners \ {s} : pc'[q] = pc[q] /\ seen'[q] = seen[q]
                                     /\ (q \in dating' <=> q \in dating)
    BY DEF Acts, Shape, Types, Planning
  <1>2. Planning' = Planning
    BY <1>1 DEF Planning
  <1>3. \A p \in Planners : /\ Written(p)' <=> Written(p)
                            /\ Lost(p)' <=> Lost(p)
    BY <1>1 DEF Written, Lost, Planning
  <1>4. \A p \in Planners : Early(p)' <=> Early(p)
    BY <1>3 DEF Early
  <1>5. Dateless' /\ InHand'
    BY <1>1 DEF Plans, Dateless, InHand
  <1>6. Overlaps' /\ Standing' /\ Overtaken' /\ Pairs'
    BY <1>2, <1>3, <1>4 DEF Plans, Overlaps, Standing, Overtaken, Pairs
  <1>7. Seen'
    BY <1>1, <1>3, <1>4 DEF Plans, Seen
  <1> QED
    BY <1>5, <1>6, <1>7 DEF Plans

(* A planner that is gone without a date, or is lost.                      *)
LEMMA GoneKeepsPlans ==
  ASSUME Shape, Plans, NEW s \in Planning, NEW l \in {"ended", "lost"}, Acts(s, l),
         l = "ended" => today'[s] = 0,
         l = "lost" => ~Scrapes(s) /\ today'[s] = today[s],
         met' = met, dated' = dated
  PROVE  Plans'
  <1>1. /\ s \in Planners /\ pc'[s] = l
        /\ \A q \in Planners \ {s} : pc'[q] = pc[q] /\ seen'[q] = seen[q] /\ today'[q] = today[q]
                                     /\ (q \in dating' <=> q \in dating)
    BY DEF Acts, Shape, Types, Planning
  <1>2. Planning' \subseteq Planning /\ s \notin Planning'
    BY <1>1 DEF Planning
  <1>3. pc[s] # "ended" /\ pc[s] # "lost"
    BY DEF Planning
  <1>4. \A p \in Planners : /\ Written(p)' <=> Written(p)
                            /\ Lost(p) => Lost(p)'
    <2>1. ~Written(s)' /\ ~Written(s) /\ ~Lost(s)
      BY <1>1, <1>3 DEF Written, Lost
    <2> QED
      BY <1>1, <2>1 DEF Written, Lost
  <1>5. \A p \in Planners : p # s \/ l = "lost" => (Early(p)' <=> Early(p))
    BY <1>1, <1>3, <1>4 DEF Early, Written
  <1>6. Dateless' /\ InHand'
    BY <1>1 DEF Plans, Dateless, InHand
  <1>7. Overlaps'
    BY <1>2 DEF Plans, Overlaps
  <1>8. \A p \in Planners : today'[p] > 0 => today'[p] = today[p] /\ (p # s \/ l = "lost")
    BY <1>1
  <1>9. Standing'
    BY <1>3, <1>4, <1>5, <1>8 DEF Plans, Standing, Written
  <1>10. Overtaken'
    <2>1. ASSUME NEW p \in Planners, NEW t \in Planners,
                 t \in Planning', today'[t] > 0, today'[t] < today'[p]
          PROVE  {p, t} \in met
      <3>1. t # s /\ today'[t] = today[t] /\ t \in Planning
        BY <1>1, <1>2, <2>1
      <3>2. today[t] \in Nat
        BY DEF Shape, Types
      <3>3. today'[p] = today[p]
        BY <1>1, <2>1, <3>1, <3>2
      <3> QED
        BY <2>1, <3>1, <3>3 DEF Plans, Overtaken
    <2> QED
      BY <2>1 DEF Overtaken
  <1>11. Seen'
    BY <1>1, <1>3, <1>4, <1>5 DEF Plans, Seen, Written
  <1>12. Pairs'
    BY <1>4, <1>5, <1>8 DEF Plans, Pairs
  <1> QED
    BY <1>6, <1>7, <1>9, <1>10, <1>11, <1>12 DEF Plans

LEMMA PlannerKeepsPlans ==
  ASSUME SchedulingAssumption, Shape, RowsOf, Plans, NEW s \in Planners, PlannerStep(s)
  PROVE  Plans'
  <1>1. CASE Date(s)
    <2>1. s \in Planning /\ pc[s] # "dispatch" /\ today' = today /\ met' = met
      BY <1>1 DEF Date, Planning
    <2>2. today[s] > 0 /\ dating = {}
      BY <1>1, DateKeepsShape
    <2>3. CASE Scrapes(s) /\ Acts(s, "telafi") /\ dating' = {s} /\ dated' = dated
      BY <2>1, <2>3, WorkerKeepsPlans
    <2>4. CASE ~Scrapes(s) /\ Acts(s, "ended") /\ dating' = dating /\ dated' = today[s]
      BY <2>1, <2>2, <2>4, WriterKeepsPlans
    <2> QED
      BY <1>1, <2>3, <2>4, DateKeepsShape
  <1>2. CASE Compensate(s)
    <2>1. /\ s \in Planning /\ pc[s] = "telafi" /\ today' = today /\ met' = met /\ dated' = dated
          /\ Acts(s, "compensate") /\ dating' = dating
      BY <1>2, CompensateKeepsShape DEF Compensate, Planning
    <2>2. Scrapes(s) /\ (today[s] > 0 => s \in dating)
      BY <2>1 DEF Plans, InHand
    <2> QED
      BY <2>1, <2>2, WorkerKeepsPlans
  <1>3. CASE Commit(s)
    <2>1. /\ s \in Planning /\ met' = met /\ pc[s] = "compensate" /\ Acts(s, "ended")
          /\ today' = today /\ dating' = dating \ {s}
      BY <1>3, CommitKeepsShape DEF Commit, Planning
    <2>2. CASE today[s] > 0 /\ dated' = today[s]
      BY <2>1, <2>2, WriterKeepsPlans
    <2>3. CASE today[s] = 0 /\ dated' = dated
      BY <2>1, <2>3, GoneKeepsPlans
    <2> QED
      BY <1>3, <2>2, <2>3, CommitKeepsShape
  <1>4. CASE Crash(s)
    <2>1. /\ s \in Planning /\ met' = met /\ dated' = dated
          /\ Acts(s, IF Scrapes(s) THEN "ended" ELSE "lost")
          /\ today'[s] = IF Scrapes(s) THEN 0 ELSE today[s]
      BY <1>4, CrashKeepsShape DEF Crash
    <2>2. CASE Scrapes(s)
      BY <2>1, <2>2, GoneKeepsPlans
    <2>3. CASE ~Scrapes(s)
      BY <2>1, <2>3, GoneKeepsPlans
    <2> QED
      BY <2>2, <2>3
  <1> QED
    BY <1>1, <1>2, <1>3, <1>4, EnterKeepsPlans, LoadKeepsPlans, DispatchKeepsPlans,
       SamePlans DEF PlannerStep, Create
-----------------------------------------------------------------------------
(* The table.                                                              *)

LEMMA SameTable ==
  ASSUME Table, UNCHANGED <<rows, dated, pc, today, left, dating>>
  PROVE  Table'
  BY DEF Table, RowsOf, InTable, HasPlan, DatedMeansPlanned, Planned, Free

LEMMA RowStepKeepsTable ==
  ASSUME SchedulingAssumption, Shape, Table, NEW i \in Ids, RowStep(i)
  PROVE  Table'
  <1>1. UNCHANGED <<dated, pc, today, left, dating>> /\ Free' = Free
    BY RowStepOK DEF planner
  <1>2. \A j \in Ids \ Free : /\ rows'[j].by = rows[j].by /\ rows'[j].telafi = rows[j].telafi
                              /\ rows'[j].status = "draft" <=> rows[j].status = "draft"
    BY RowStepOK
  <1>3. RowsOf'
    BY <1>1, <1>2 DEF Table, RowsOf
  <1>4. InTable'
    BY <1>1, <1>2 DEF Table, InTable, HasPlan
  <1>5. Planned' = Planned
    BY <1>1, <1>2 DEF Planned
  <1>6. DatedMeansPlanned'
    BY <1>1, <1>2, <1>5 DEF Table, DatedMeansPlanned, Planned
  <1> QED
    BY <1>3, <1>4, <1>6 DEF Table

(* A planner goes on, the rows as they are.                                *)
Begins(s, l)    == /\ pc[s] \in {"idle", "load", "dispatch"}
                   /\ l = "create" => left'[s] > 0
Continues(s, l) == /\ pc[s] \in {"create", "telafi", "compensate"}
                   /\ l \in {"telafi", "compensate"}
                   /\ today'[s] = today[s]

LEMMA GoesKeepsTable ==
  ASSUME Shape, Table, NEW s \in Planners, NEW l \in PCs, Acts(s, l),
         rows' = rows, dated' = dated, \A q \in Planners \ {s} : left'[q] = left[q],
         s \in dating' => s \in dating \/ HasPlan(s),
         Begins(s, l) \/ Continues(s, l)
  PROVE  Table'
  <1>1. Free' = Free /\ Planned' = Planned
    BY DEF Free, Planned
  <1>2. pc'[s] = l /\ \A q \in Planners \ {s} : pc'[q] = pc[q] /\ today'[q] = today[q]
                                               /\ (q \in dating' <=> q \in dating)
    BY DEF Acts, Shape, Types
  <1>3. \A j \in Ids \ Free : rows[j].by \in Planners
    BY DEF Free, Shape, Types, RowType
  <1>4. Begins(s, l) => \A j \in Ids \ Free : rows[j].by # s
    BY DEF Begins, Table, RowsOf
  <1>5. RowsOf'
    BY <1>1, <1>2, <1>3, <1>4 DEF Table, RowsOf, Continues
  <1>6. InTable'
    BY <1>1, <1>2 DEF Table, InTable, HasPlan, Begins, Continues
  <1>7. DatedMeansPlanned'
    BY <1>1, <1>2, <1>3, <1>4 DEF Table, DatedMeansPlanned, Planned, Continues
  <1> QED
    BY <1>5, <1>6, <1>7 DEF Table

LEMMA CreateKeepsTable ==
  ASSUME SchedulingAssumption, Shape, Table, NEW s \in Planners, Create(s)
  PROVE  Table'
  <1>1. /\ UNCHANGED <<dated, pc, today, dating>> /\ pc[s] \in {"create", "compensate"}
        /\ left' = [left EXCEPT ![s] = @ - 1]
    BY DEF Create
  <1>2. PICK i \in Free : /\ rows'[i] = NewRow(s)
                          /\ \A j \in Ids \ {i} : rows'[j] = rows[j]
                          /\ Free' = Free \ {i}
    BY NewRowOK
  <1>3. /\ NewRow(s).by = s /\ NewRow(s).telafi = (pc[s] = "compensate")
        /\ NewRow(s).status = "draft" <=> Scrapes(s)
    BY DEF NewRow
  <1>4. i \in Ids /\ i \notin Free' /\ \A j \in Ids \ Free : j \in Ids \ Free' /\ rows'[j] = rows[j]
    BY <1>2 DEF Free
  <1>5. \A j \in Ids \ Free' : j = i \/ (j \in Ids \ Free /\ rows'[j] = rows[j])
    BY <1>2
  <1>6. RowsOf'
    BY <1>1, <1>2, <1>3, <1>5 DEF Table, RowsOf
  <1>7. \A q \in Planners : HasPlan(q) => HasPlan(q)'
    BY <1>4 DEF HasPlan
  <1>8. pc[s] = "create" => HasPlan(s)'
    BY <1>2, <1>3, <1>4 DEF HasPlan
  <1>9. InTable'
    BY <1>1, <1>7, <1>8 DEF Table, InTable, Shape, Types
  <1>10. DatedMeansPlanned'
    BY <1>1, <1>4 DEF Table, DatedMeansPlanned, Planned
  <1> QED
    BY <1>6, <1>9, <1>10 DEF Table

LEMMA DateKeepsTable ==
  ASSUME SchedulingAssumption, Shape, Plans, Table, NEW s \in Planners, Date(s)
  PROVE  Table'
  <1>1. /\ pc[s] = "create" /\ left[s] = 0 /\ UNCHANGED <<rows, left, today>>
    BY DEF Date
  <1>2. HasPlan(s)
    BY <1>1 DEF Table, InTable
  <1>3. CASE Scrapes(s) /\ Acts(s, "telafi") /\ dating' = {s} /\ dated' = dated
    <2>1. /\ "telafi" \in PCs /\ \A q \in Planners \ {s} : left'[q] = left[q]
          /\ Continues(s, "telafi")
          /\ s \in dating' => s \in dating \/ HasPlan(s)
      BY <1>1, <1>2 DEF PCs, Continues
    <2>2. rows' = rows /\ dated' = dated /\ Acts(s, "telafi")
      BY <1>1, <1>3
    <2> QED
      BY <2>1, <2>2, GoesKeepsTable
  <1>4. CASE ~Scrapes(s) /\ Acts(s, "ended") /\ dating' = dating /\ dated' = today[s]
    <2>1. Free' = Free /\ Planned' = Planned
      BY <1>1 DEF Free, Planned
    <2>2. pc'[s] = "ended" /\ \A q \in Planners \ {s} : pc'[q] = pc[q]
      BY <1>4 DEF Acts, Shape, Types
    <2>3. \A j \in Ids \ Free : rows[j].by \in Planners
      BY DEF Free, Shape, Types, RowType
    <2>4. RowsOf'
      BY <1>1, <2>1, <2>2, <2>3 DEF Table, RowsOf
    <2>5. InTable'
      BY <1>1, <1>4, <2>1, <2>2 DEF Table, InTable, HasPlan
    <2>6. \E j \in Planned : rows[j].by = s
      BY <1>2, <1>4 DEF HasPlan, Planned, Table, RowsOf
    <2>7. DatedMeansPlanned'
      BY <1>1, <1>4, <2>1, <2>6 DEF DatedMeansPlanned
    <2> QED
      BY <2>4, <2>5, <2>7 DEF Table
  <1> QED
    BY <1>3, <1>4, DateKeepsShape DEF Table

LEMMA CommitKeepsTable ==
  ASSUME SchedulingAssumption, Shape, Plans, Table, NEW s \in Planners, Commit(s)
  PROVE  Table'
  <1>1. /\ Acts(s, "ended") /\ pc[s] = "compensate" /\ dating' = dating \ {s}
        /\ today' = today /\ left' = left
        /\ \/ s \in dating /\ dated' = today[s]
           \/ dated' = dated
    BY CommitKeepsShape DEF Commit
  <1>2. pc'[s] = "ended" /\ \A q \in Planners \ {s} : pc'[q] = pc[q]
    BY <1>1 DEF Acts, Shape, Types
  <1>3. /\ Free' = Free
        /\ \A i \in Ids \ Free :
             /\ rows'[i].by = rows[i].by /\ rows'[i].telafi = rows[i].telafi
             /\ rows'[i].status = "draft" <=> rows[i].status = "draft" /\ rows[i].by # s
    BY CommittedRows DEF Commit
  <1>4. \A j \in Ids \ Free : rows[j].by \in Planners
    BY DEF Free, Shape, Types, RowType
  <1>5. RowsOf'
    BY <1>2, <1>3, <1>4 DEF Table, RowsOf
  <1>6. InTable'
    BY <1>1, <1>2, <1>3 DEF Table, InTable, HasPlan
  <1>7. Planned \subseteq Planned' /\ \A i \in Planned : rows'[i].by = rows[i].by
    BY <1>3 DEF Planned
  <1>8. CASE dated' = dated
    BY <1>1, <1>5, <1>6, <1>7, <1>8 DEF Table, DatedMeansPlanned
  <1>9. CASE s \in dating /\ dated' = today[s]
    <2>1. PICK i \in Ids \ Free : rows[i].by = s /\ ~rows[i].telafi
      BY <1>9 DEF Table, InTable, HasPlan, Shape, Types
    <2>2. i \in Planned' /\ rows'[i].by = s
      BY <1>3, <2>1 DEF Planned
    <2>3. DatedMeansPlanned'
      BY <1>1, <1>9, <2>2 DEF DatedMeansPlanned
    <2> QED
      BY <1>5, <1>6, <2>3 DEF Table
  <1> QED
    BY <1>1, <1>8, <1>9

LEMMA CrashKeepsTable ==
  ASSUME SchedulingAssumption, Shape, Plans, Table, NEW s \in Planners, Crash(s)
  PROVE  Table'
  <1>1. /\ s \in Planning /\ Acts(s, IF Scrapes(s) THEN "ended" ELSE "lost")
        /\ dating' = dating \ {s} /\ dated' = dated
        /\ left' = [left EXCEPT ![s] = 0]
        /\ today'[s] = IF Scrapes(s) THEN 0 ELSE today[s]
    BY CrashKeepsShape DEF Crash, Table
  <1>2. /\ pc'[s] = IF Scrapes(s) THEN "ended" ELSE "lost"
        /\ \A q \in Planners \ {s} : pc'[q] = pc[q] /\ today'[q] = today[q] /\ left'[q] = left[q]
    BY <1>1 DEF Acts, Shape, Types
  <1>3. /\ \A i \in Ids \ Free' : i \in Ids \ Free /\ i \notin Drafts(s) /\ rows'[i] = rows[i]
        /\ \A i \in Ids \ Free : i \notin Drafts(s) => i \in Ids \ Free'
    BY DroppedRows DEF Crash
  <1>4. \A j \in Ids \ Free : rows[j].by \in Planners
    BY DEF Free, Shape, Types, RowType
  <1>5. \A j \in Ids \ Free : rows[j].by = s /\ Scrapes(s) => j \in Drafts(s)
    BY <1>1 DEF Planning, Table, RowsOf, Drafts
  <1>6. RowsOf'
    BY <1>2, <1>3, <1>4, <1>5 DEF Table, RowsOf
  <1>7. \A q \in Planners \ {s} : HasPlan(q) => HasPlan(q)'
    BY <1>3 DEF HasPlan, Drafts
  <1>8. InTable'
    BY <1>1, <1>2, <1>7 DEF Table, InTable
  <1>9. ASSUME NEW i \in Planned, today[rows[i].by] = dated, dated > 0
        PROVE  i \in Planned' /\ today'[rows'[i].by] = dated
    <2>1. i \in Ids \ Free' /\ rows'[i] = rows[i]
      BY <1>3 DEF Planned, Drafts
    <2>2. rows[i].by = s => ~Scrapes(s)
      BY <1>5 DEF Planned, Drafts
    <2> QED
      BY <1>1, <1>2, <1>4, <1>9, <2>1, <2>2 DEF Planned
  <1>10. DatedMeansPlanned'
    BY <1>1, <1>9 DEF Table, DatedMeansPlanned
  <1> QED
    BY <1>6, <1>8, <1>10 DEF Table

LEMMA PlannerKeepsTable ==
  ASSUME SchedulingAssumption, Shape, Plans, Table, NEW s \in Planners, PlannerStep(s)
  PROVE  Table'
  <1>1. RowsOf
    BY DEF Table
  <1>2. CASE Scrape(s) \/ Request(s)
    <2>1. /\ Acts(s, "load") /\ UNCHANGED <<rows, dated, left, dating, today>>
          /\ pc[s] = "idle"
      BY <1>1, <1>2, EnterKeepsShape DEF Scrape, Request, Enter
    <2>2. "load" \in PCs /\ Begins(s, "load")
      BY <2>1 DEF PCs, Begins
    <2> QED
      BY <2>1, <2>2, GoesKeepsTable
  <1>3. CASE Load(s)
    <2>1. UNCHANGED <<rows, dated, left, dating, today>> /\ pc[s] = "load"
      BY <1>3 DEF Load
    <2>2. PICK l \in {"dispatch", "telafi", "ended"} : Acts(s, l)
      BY <1>1, <1>3, LoadKeepsShape
    <2>3. l \in PCs /\ Begins(s, l)
      BY <2>1 DEF PCs, Begins
    <2> QED
      BY <2>1, <2>2, <2>3, GoesKeepsTable
  <1>4. CASE Dispatch(s)
    <2>1. /\ UNCHANGED <<rows, dated, dating>> /\ pc[s] = "dispatch"
          /\ \A q \in Planners \ {s} : left'[q] = left[q]
      BY <1>4 DEF Dispatch, Shape, Types
    <2>2. CASE Acts(s, "create") /\ left'[s] > 0
      <3>1. "create" \in PCs /\ Begins(s, "create")
        BY <2>1, <2>2 DEF PCs, Begins
      <3> QED
        BY <2>1, <2>2, <3>1, GoesKeepsTable
    <2>3. CASE \E l \in {"telafi", "ended"} : Acts(s, l)
      <3>1. PICK l \in {"telafi", "ended"} : Acts(s, l)
        BY <2>3
      <3>2. l \in PCs /\ Begins(s, l)
        BY <2>1 DEF PCs, Begins
      <3> QED
        BY <2>1, <3>1, <3>2, GoesKeepsTable
    <2> QED
      BY <1>1, <1>4, <2>2, <2>3, DispatchKeepsShape
  <1>5. CASE Compensate(s)
    <2>1. /\ UNCHANGED <<rows, dated, dating, today>> /\ pc[s] = "telafi"
          /\ \A q \in Planners \ {s} : left'[q] = left[q]
      BY <1>5 DEF Compensate, Shape, Types
    <2>2. Acts(s, "compensate") /\ "compensate" \in PCs /\ Continues(s, "compensate")
      BY <1>1, <1>5, <2>1, CompensateKeepsShape DEF PCs, Continues
    <2> QED
      BY <2>1, <2>2, GoesKeepsTable
  <1> QED
    BY <1>2, <1>3, <1>4, <1>5, CreateKeepsTable, DateKeepsTable, CommitKeepsTable,
       CrashKeepsTable DEF PlannerStep
-----------------------------------------------------------------------------
(* The invariant.                                                          *)

LEMMA InitIInv == Init => IInv
  <1> SUFFICES ASSUME Init PROVE IInv
    OBVIOUS
  <1>1. Shape
    BY SchedulingAssumption, InitShape
  <1>2. Free = Ids
    BY DEF Init, Free
  <1>3. Plans
    BY DEF Init, Plans, Dateless, InHand, Overlaps, Standing, Overtaken, Seen, Pairs,
           Planning, Written
  <1>4. Table
    BY <1>2 DEF Init, Table, RowsOf, InTable, DatedMeansPlanned
  <1> QED
    BY <1>1, <1>3, <1>4 DEF IInv

LEMMA NextKeeps == IInv /\ [Next]_vars => IInv'
  <1> SUFFICES ASSUME IInv, [Next]_vars PROVE IInv'
    OBVIOUS
  <1>1. SchedulingAssumption /\ Shape /\ Plans /\ Table /\ RowsOf
    BY SchedulingAssumption DEF IInv, Table
  <1>2. CASE Midnight \/ ChangeFeeds \/ Age \/ UNCHANGED vars
    <2>1. UNCHANGED <<rows, dated, pc, seen, today, left, dating, met>>
      BY <1>2 DEF Midnight, ChangeFeeds, Age, vars, planner
    <2>2. Shape'
      BY <1>1, <1>2, WorldKeepsShape
    <2> QED
      BY <1>1, <2>1, <2>2, SamePlans, SameTable DEF IInv
  <1>3. ASSUME NEW i \in Ids, RowStep(i) PROVE IInv'
    <2>1. UNCHANGED <<dated, pc, seen, today, dating, met>>
      BY <1>1, <1>3, RowStepOK DEF planner
    <2> QED
      BY <1>1, <1>3, <2>1, RowStepKeepsShape, SamePlans, RowStepKeepsTable DEF IInv
  <1>4. ASSUME NEW s \in Planners, PlannerStep(s) PROVE IInv'
    <2>1. Shape'
      BY <1>1, <1>4, EnterKeepsShape, LoadKeepsShape, DispatchKeepsShape, CreateKeepsShape,
         DateKeepsShape, CompensateKeepsShape, CommitKeepsShape, CrashKeepsShape
         DEF PlannerStep
    <2> QED
      BY <1>1, <1>4, <2>1, PlannerKeepsPlans, PlannerKeepsTable DEF IInv
  <1> QED
    BY <1>2, <1>3, <1>4 DEF Next, RowStep

(* Every reachable state has the types, and rows not yet committed belong  *)
(* to a planner at work.                                                   *)
THEOREM TypeCorrect == Spec => []TypeOK
  <1>1. IInv => TypeOK
    BY ShapeTypes DEF IInv
  <1> QED
    BY <1>1, InitIInv, NextKeeps, PTL DEF Spec

(* However scrapes and requests interleave, and wherever they are lost, the *)
(* date in the channel row keeps an unforced dispatch from planning a day   *)
(* again, but for planners that overlap, a date put back by one that began  *)
(* before midnight, and a request lost before it wrote its date.            *)
THEOREM PlannedOnce == Spec => []OncePerDay
  <1>1. ASSUME IInv PROVE OncePerDay
    <2> SUFFICES ASSUME NEW d \in 1..day, NEW p \in PlannersFor(d), NEW q \in PlannersFor(d), p # q
                 PROVE  {p, q} \in met \/ \E s \in {p, q} : PutBack(s, d) \/ LostRequest(s)
      BY DEF OncePerDay
    <2>1. /\ p \in Planners /\ q \in Planners /\ today[p] = d /\ today[q] = d
          /\ KindOf[p] # "force" /\ KindOf[q] # "force" /\ d \in Nat /\ d > 0
      <3>1. \A i \in Planned : rows[i].by \in Planners
        BY <1>1 DEF Planned, Free, IInv, Shape, Types, RowType
      <3> QED
        BY <1>1, <3>1 DEF PlannersFor, IInv, Shape, Types
    <2>2. {p, q} \in met \/ Early(p) \/ Early(q) \/ Lost(p) \/ Lost(q)
      BY <1>1, <2>1 DEF IInv, Plans, Pairs
    <2>3. ASSUME NEW r \in {p, q}, Early(r) PROVE PutBack(r, d)
      <3>1. PICK s \in Planners : Written(s) /\ {r, s} \in met /\ today[s] < d
        BY <2>1, <2>3 DEF Early
      <3>2. today[s] \in Nat
        BY <1>1 DEF IInv, Shape, Types
      <3>3. today[s] \in 1..(d - 1)
        BY <2>1, <3>1, <3>2 DEF Written
      <3> QED
        BY <3>1, <3>3 DEF PutBack
    <2>4. ASSUME NEW r \in {p, q}, Lost(r) PROVE LostRequest(r)
      BY <1>1, <2>1, <2>4 DEF IInv, Plans, InHand, Lost, LostRequest
    <2> QED
      BY <2>2, <2>3, <2>4
  <1> QED
    BY <1>1, InitIInv, NextKeeps, PTL DEF Spec

(* Wherever a planner is lost, the date that keeps the others from planning *)
(* has been planned for.                                                    *)
THEOREM DatesHavePlans == Spec => []DatedMeansPlanned
  <1>1. IInv => DatedMeansPlanned
    BY DEF IInv, Table
  <1> QED
    BY <1>1, InitIInv, NextKeeps, PTL DEF Spec
=============================================================================
