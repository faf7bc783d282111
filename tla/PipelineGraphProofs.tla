------------------------ MODULE PipelineGraphProofs ------------------------
(* Proofs about PipelineGraph, for every set of executions, every number   *)
(* of deliveries and faults and every value of the limits.                 *)
EXTENDS PipelineGraph, SequenceTheorems, TLAPS

Steps == {"idle", "begun", "graph", "creating", "ended"}
Uses == [status : {"selected", "produced", "published", "released"}, video : OptionalId]
Rows == [status : {"pending", "running", "completed", "failed"},
         retryCount : Nat, news : OptionalId, video : OptionalId]

LEMMA SpecialNone == None \notin Nat /\ None \notin States
  BY GraphAssumption

LEMMA InitialState ==
  ASSUME NEW n \in Nat
  PROVE  Initial(n) \in States /\ Inserted(Initial(n))
  BY DEF Initial, States, Nodes, OptionalId, Inserted

-----------------------------------------------------------------------------
(* The states of the thread that somebody holds: an execution in memory, a *)
(* save under way, or the checkpointer.                                    *)
Held(s) == \/ \E e \in Execs : s = st[e]
           \/ \E e \in Execs : \E i \in 1..Len(unsaved[e]) : s = unsaved[e][i]
           \/ saved # None /\ s = saved

(* A video is created by persist_metadata and produced by produce_video:   *)
(* a state that is past them has one, a state that is not has none.        *)
Formed(s) ==
  /\ s.next \in {"memory_enrichment", "select_news"} => s.news = None
  /\ s.next \in Nodes \ {"produce_video", "publish"} => s.video = None
  /\ s.next \in {"produce_video", "publish"} => s.video # None
  /\ s.next \in {"publish", "end"} /\ s.video # None => s.video \in produced

Place(e) ==
  /\ pc[e] = "creating" => st[e].next = "persist_metadata"
  /\ pc[e] = "ended" => st[e].next = "end"
  /\ pc[e] \notin {"graph", "creating"} => unsaved[e] = <<>>
  /\ pc[e] \in {"idle", "begun"} => st[e] = Initial(0)

AllFormed == \A s \in States : Held(s) => Formed(s)
AllPlaced == \A e \in Execs : Place(e)
Shape == TypeOK /\ AllFormed /\ AllPlaced

LEMMA HeldStates ==
  ASSUME TypeOK, NEW s, Held(s)
  PROVE  s \in States /\ Inserted(s)
  BY DEF Held, TypeOK

LEMMA InitShape == Init => Shape
  <1> SUFFICES ASSUME Init PROVE Shape
    OBVIOUS
  <1>1. Initial(0) \in States /\ Inserted(Initial(0))
    BY InitialState
  <1>2. TypeOK
    <2>1. /\ st \in [Execs -> States]
          /\ unsaved \in [Execs -> Seq(States)]
          /\ \A e \in Execs : Inserted(st[e]) /\ Len(unsaved[e]) = 0
      BY <1>1 DEF Init
    <2>2. /\ row \in Rows
          /\ Inserted(row)
          /\ consumption \in Seq(Uses) /\ Len(consumption) = 0
      BY DEF Init, Rows, OptionalId, Inserted
    <2>3. /\ \A e \in Execs : \A i \in 1..Len(unsaved[e]) : Inserted(unsaved[e][i])
          /\ \A c \in 1..Len(consumption) :
               consumption[c].video # None => consumption[c].video \in 1..videos
      BY <2>1, <2>2
    <2>4. /\ overlapped \in BOOLEAN /\ pc \in [Execs -> Steps]
          /\ saved = None
          /\ videos \in Nat /\ deliveries \in Nat /\ crashes \in Nat /\ errors \in Nat
          /\ ideas \in Nat
          /\ produced \subseteq 1..videos
      BY DEF Init, Steps
    <2> QED BY <2>1, <2>2, <2>3, <2>4 DEF TypeOK, Rows, Uses, Steps
  <1>3. AllFormed
    BY <1>1 DEF Init, AllFormed, Held, Formed, Initial
  <1>4. AllPlaced
    BY DEF Init, AllPlaced, Place
  <1> QED BY <1>2, <1>3, <1>4 DEF Shape

(* What a node's return does to the states held.                           *)
LEMMA FinishHeld ==
  ASSUME TypeOK, NEW e \in Execs, NEW t \in States, Finish(e, t)
  PROVE  /\ pc' = [pc EXCEPT ![e] = "graph"]
         /\ st' = [st EXCEPT ![e] = t]
         /\ st' \in [Execs -> States]
         /\ unsaved' \in [Execs -> Seq(States)]
         /\ \A f \in Execs \ {e} : unsaved'[f] = unsaved[f]
         /\ unsaved'[e] # <<>>
         /\ Len(unsaved'[e]) = Len(unsaved[e]) + 1
         /\ unsaved'[e][Len(unsaved[e]) + 1] = t
         /\ \A i \in 1..Len(unsaved[e]) : unsaved'[e][i] = unsaved[e][i]
         /\ \A s \in States : Held(s)' => Held(s) \/ s = t
         /\ UNCHANGED <<saved, row, started, crashes, errors>>
  <1>1. unsaved \in [Execs -> Seq(States)] /\ unsaved[e] \in Seq(States)
    BY DEF TypeOK
  <1>2. unsaved' = [unsaved EXCEPT ![e] = Append(unsaved[e], t)]
    BY DEF Finish
  <1>3. Append(unsaved[e], t) \in Seq(States)
    BY <1>1
  <1>4. unsaved' \in [Execs -> Seq(States)] /\ unsaved'[e] = Append(unsaved[e], t)
    BY <1>1, <1>2, <1>3
  <1>5. /\ Len(unsaved'[e]) = Len(unsaved[e]) + 1
        /\ unsaved'[e][Len(unsaved[e]) + 1] = t
        /\ \A i \in 1..Len(unsaved[e]) : unsaved'[e][i] = unsaved[e][i]
        /\ unsaved'[e] # <<>>
    BY <1>1, <1>4, AppendProperties
  <1>6. /\ pc' = [pc EXCEPT ![e] = "graph"]
        /\ st' = [st EXCEPT ![e] = t]
        /\ UNCHANGED <<saved, row, started, crashes, errors>>
    BY DEF Finish, Goto
  <1>7. st' \in [Execs -> States]
    BY <1>6 DEF TypeOK
  <1>8. \A f \in Execs \ {e} : unsaved'[f] = unsaved[f]
    BY <1>1, <1>2
  <1>9. ASSUME NEW s \in States, Held(s)'
        PROVE  Held(s) \/ s = t
    <2>1. CASE \E f \in Execs : s = st'[f]
      BY <2>1, <1>6 DEF TypeOK, Held
    <2>2. CASE \E f \in Execs : \E i \in 1..Len(unsaved'[f]) : s = unsaved'[f][i]
      <3>1. PICK f \in Execs : \E i \in 1..Len(unsaved'[f]) : s = unsaved'[f][i]
        BY <2>2
      <3>2. CASE f = e
        BY <3>1, <3>2, <1>5, <1>1 DEF Held
      <3>3. CASE f # e
        BY <3>1, <3>3, <1>8 DEF Held
      <3> QED BY <3>2, <3>3
    <2>3. CASE saved' # None /\ s = saved'
      BY <2>3, <1>6 DEF Held
    <2> QED BY <1>9, <2>1, <2>2, <2>3 DEF Held
  <1> QED BY <1>4, <1>5, <1>6, <1>7, <1>8, <1>9

(* What is left to show of a node: that what it writes is well typed, and  *)
(* that the state it returns fits what it wrote.                           *)
Written == /\ consumption' \in Seq(Uses) /\ Len(consumption) <= Len(consumption')
           /\ videos' \in Nat /\ videos <= videos'
           /\ produced \subseteq produced' /\ produced' \subseteq 1..videos'
           /\ \A c \in 1..Len(consumption') :
                consumption'[c].video # None => consumption'[c].video \in 1..videos'
           /\ ideas' \in Nat

LEMMA InsertedStays ==
  ASSUME TypeOK, Len(consumption) <= Len(consumption'), consumption' \in Seq(Uses),
         videos' \in Nat, videos <= videos',
         NEW s, Inserted(s)
  PROVE  Inserted(s)'
  <1>1. consumption \in Seq(Uses)
    BY DEF TypeOK, Uses
  <1>2. Len(consumption) \in Nat /\ Len(consumption') \in Nat /\ videos \in Nat
    BY <1>1 DEF TypeOK
  <1> QED BY <1>2 DEF Inserted

LEMMA FinishShape ==
  ASSUME Shape, NEW e \in Execs, NEW t \in States, Finish(e, t),
         Written, Inserted(t)', Formed(t)'
  PROVE  Shape'
  <1> USE DEF Shape
  <1> DEFINE F == /\ pc' = [pc EXCEPT ![e] = "graph"]
                  /\ st' = [st EXCEPT ![e] = t]
                  /\ st' \in [Execs -> States]
                  /\ unsaved' \in [Execs -> Seq(States)]
                  /\ \A f \in Execs \ {e} : unsaved'[f] = unsaved[f]
                  /\ \A s \in States : Held(s)' => Held(s) \/ s = t
                  /\ UNCHANGED <<saved, row, started, crashes, errors>>
  <1>f. F
    BY FinishHeld
  <1>1. \A s \in States : Held(s)' => Inserted(s)' /\ Formed(s)'
    <2> SUFFICES ASSUME NEW s \in States, Held(s)'
                 PROVE  Inserted(s)' /\ Formed(s)'
      OBVIOUS
    <2>1. CASE s = t
      BY <2>1
    <2>2. CASE Held(s)
      <3>1. Inserted(s)'
        BY <2>2, HeldStates, InsertedStays DEF Written
      <3>2. Formed(s)'
        BY <2>2 DEF AllFormed, Formed, Written
      <3> QED BY <3>1, <3>2
    <2> QED BY <1>f, <2>1, <2>2
  <1>2. Inserted(row)'
    <2>1. Inserted(row)
      BY DEF TypeOK
    <2>2. \A r : Inserted(r) => Inserted(r)'
      BY InsertedStays DEF Written
    <2> QED BY <1>f, <2>1, <2>2 DEF Inserted
  <1>3. /\ \A f \in Execs : Held(st[f])' /\ st'[f] \in States
        /\ \A f \in Execs : \A i \in 1..Len(unsaved'[f]) :
             Held(unsaved[f][i])' /\ unsaved'[f][i] \in States
        /\ saved' # None => Held(saved)' /\ saved' \in States
    BY <1>f DEF Held, TypeOK
  <1>4. TypeOK'
    BY <1>1, <1>2, <1>3, <1>f DEF TypeOK, Written, Uses, started, Inserted
  <1>5. AllFormed'
    BY <1>1 DEF AllFormed
  <1>6. AllPlaced'
    BY <1>f DEF AllPlaced, Place, TypeOK, Initial
  <1> QED BY <1>4, <1>5, <1>6

(* A node that only moves on, or changes what its state says, keeps the    *)
(* rows; its state names rows that were there.                             *)
LEMMA MovedOn ==
  ASSUME TypeOK, UNCHANGED <<consumption, film>>, ideas' \in Nat,
         NEW t \in States, Inserted(t), Formed(t)
  PROVE  Written /\ Inserted(t)' /\ Formed(t)'
  BY DEF TypeOK, Written, film, Uses, Inserted, Formed

LEMMA NodeShape ==
  ASSUME Shape, NEW e \in Execs, Node(e)
  PROVE  Shape'
  <1> USE DEF Shape
  <1>s. /\ st[e] \in States /\ st[e].news \in OptionalId /\ st[e].video \in OptionalId
        /\ st[e].retryCount \in Nat
        /\ Inserted(st[e]) /\ Formed(st[e])
    BY DEF TypeOK, States, Held, AllFormed
  <1>i. ideas' \in Nat \/ ideas' = ideas => ideas' \in Nat
    BY DEF TypeOK
  <1>1. CASE MemoryEnrichment(e)
    <2> DEFINE t == [st[e] EXCEPT !.next = "select_news"]
    <2>1. t \in States /\ Inserted(t) /\ Formed(t)
      BY <1>s, <1>1 DEF MemoryEnrichment, At, States, Inserted, Formed, Nodes
    <2>2. Finish(e, t) /\ UNCHANGED <<consumption, film, ideas>>
      BY <1>1 DEF MemoryEnrichment
    <2> HIDE DEF t
    <2> QED BY <1>i, <2>1, <2>2, MovedOn, FinishShape
  <1>2. ASSUME NEW newsRequired \in BOOLEAN, SelectNoNews(e, newsRequired)
        PROVE  Shape'
    <2> DEFINE t == [st[e] EXCEPT !.news = None,
                       !.next = IF newsRequired THEN "end" ELSE "generate_idea"]
    <2>1. t \in States /\ Inserted(t) /\ Formed(t)
      BY <1>s, <1>2 DEF SelectNoNews, At, States, Inserted, Formed, Nodes, OptionalId
    <2>2. Finish(e, t) /\ UNCHANGED <<consumption, film, ideas>>
      BY <1>2 DEF SelectNoNews
    <2> HIDE DEF t
    <2> QED BY <1>i, <2>1, <2>2, MovedOn, FinishShape
  <1>3. CASE ClaimNews(e)
    <2>t. PICK t : t = [st[e] EXCEPT !.news = Len(consumption'), !.next = "generate_idea"]
      OBVIOUS
    <2>1. /\ consumption \in Seq(Uses)
          /\ consumption' = Append(consumption, [status |-> "selected", video |-> None])
          /\ Finish(e, t) /\ UNCHANGED <<film, ideas>>
      BY <1>3, <2>t DEF ClaimNews, TypeOK, Uses
    <2>2. [status |-> "selected", video |-> None] \in Uses
      BY DEF Uses, OptionalId
    <2>3. /\ consumption' \in Seq(Uses)
          /\ Len(consumption') = Len(consumption) + 1
          /\ \A c \in 1..Len(consumption) : consumption'[c] = consumption[c]
          /\ consumption'[Len(consumption) + 1].video = None
      BY <2>1, <2>2, AppendProperties
    <2>4. Written
      BY <2>1, <2>3 DEF Written, TypeOK, film
    <2>5. t \in States /\ Inserted(t)' /\ Formed(t)'
      <3>1. st[e].next = "select_news"
        BY <1>3 DEF ClaimNews, At
      <3>2. Len(consumption') \in 1..Len(consumption') /\ Len(consumption') \in Nat
        BY <2>1, <2>3
      <3>3. /\ t \in States /\ t.news = Len(consumption') /\ t.video = None
            /\ t.next = "generate_idea"
        BY <1>s, <2>t, <3>1, <3>2 DEF States, Formed, Nodes, OptionalId
      <3> QED BY <3>2, <3>3 DEF Inserted, Formed
    <2> QED BY <2>1, <2>4, <2>5, FinishShape
  <1>4. CASE GenerateIdea(e)
    <2> DEFINE t == [st[e] EXCEPT !.next = "validate_idea"]
    <2>1. t \in States /\ Inserted(t) /\ Formed(t)
      BY <1>s, <1>4 DEF GenerateIdea, At, States, Inserted, Formed, Nodes
    <2>2. Finish(e, t) /\ UNCHANGED <<consumption, film>> /\ ideas' \in Nat
      BY <1>4 DEF GenerateIdea, TypeOK
    <2> HIDE DEF t
    <2> QED BY <2>1, <2>2, MovedOn, FinishShape
  <1>5. ASSUME NEW passed \in BOOLEAN, ValidateIdea(e, passed)
        PROVE  Shape'
    <2> DEFINE n == IF passed THEN st[e].retryCount ELSE st[e].retryCount + 1
               l == CASE passed -> "generate_script"
                      [] ~passed /\ n < IdeaMaxRetries -> "generate_idea"
                      [] OTHER -> "end"
               t == [st[e] EXCEPT !.retryCount = n, !.next = l]
    <2>0. n \in Nat /\ l \in {"generate_script", "generate_idea", "end"}
      BY <1>s
    <2>2. Finish(e, t) /\ UNCHANGED <<consumption, film, ideas>>
      BY <1>5 DEF ValidateIdea
    <2> HIDE DEF n, l
    <2>1. t \in States /\ Inserted(t) /\ Formed(t)
      BY <1>s, <1>5, <2>0 DEF ValidateIdea, At, States, Inserted, Formed, Nodes
    <2> HIDE DEF t
    <2> QED BY <1>i, <2>1, <2>2, MovedOn, FinishShape
  <1>6. CASE GenerateScript(e)
    <2> DEFINE t == [st[e] EXCEPT !.next = "persist_metadata"]
    <2>1. t \in States /\ Inserted(t) /\ Formed(t)
      BY <1>s, <1>6 DEF GenerateScript, At, States, Inserted, Formed, Nodes
    <2>2. Finish(e, t) /\ UNCHANGED <<consumption, film, ideas>>
      BY <1>6 DEF GenerateScript
    <2> HIDE DEF t
    <2> QED BY <1>i, <2>1, <2>2, MovedOn, FinishShape
  <1>7. CASE ReuseVideo(e)
    <2> DEFINE v == IF st[e].video # None THEN st[e].video ELSE row.video
               t == [st[e] EXCEPT !.video = v, !.next = "produce_video"]
    <2>0. v \in 1..videos /\ v \in OptionalId /\ v # None
      BY <1>s, <1>7, SpecialNone DEF ReuseVideo, TypeOK, Inserted
    <2>2. Finish(e, t) /\ UNCHANGED <<consumption, film, ideas>>
      BY <1>7 DEF ReuseVideo
    <2> HIDE DEF v
    <2>1. t \in States /\ Inserted(t) /\ Formed(t)
      BY <1>s, <1>7, <2>0 DEF ReuseVideo, At, States, Inserted, Formed, Nodes
    <2> HIDE DEF t
    <2> QED BY <1>i, <2>1, <2>2, MovedOn, FinishShape
  <1>8. CASE LookupNothing(e)
    <2>1. TypeOK'
      BY <1>8 DEF LookupNothing, Goto, TypeOK, film, started, Inserted
    <2>2. AllFormed'
      BY <1>8 DEF LookupNothing, AllFormed, Held, Formed, film
    <2>3. AllPlaced'
      BY <1>8 DEF LookupNothing, At, Goto, AllPlaced, Place, TypeOK, Initial
    <2> QED BY <2>1, <2>2, <2>3
  <1>9. CASE CreateVideo(e)
    <2>t. PICK t : t = [st[e] EXCEPT !.video = videos', !.next = "produce_video"]
      OBVIOUS
    <2> DEFINE u == [status |-> "produced", video |-> videos']
    <2>1. /\ consumption \in Seq(Uses) /\ videos' = videos + 1 /\ videos \in Nat
          /\ Finish(e, t) /\ UNCHANGED <<produced, ideas>>
      BY <1>9, <2>t DEF CreateVideo, TypeOK, Uses
    <2>2. u \in Uses
      BY <2>1 DEF Uses, OptionalId
    <2>3. /\ consumption' \in Seq(Uses)
          /\ Len(consumption') = Len(consumption)
          /\ \A c \in 1..Len(consumption) :
               consumption'[c] = consumption[c] \/ consumption'[c] = u
      <3>1. CASE HasNews(e)
        <4>1. consumption' = [consumption EXCEPT ![st[e].news] = u]
          BY <1>9, <3>1 DEF CreateVideo
        <4>2. st[e].news \in 1..Len(consumption)
          BY <1>s, <3>1 DEF HasNews, Inserted
        <4> HIDE DEF u
        <4> QED BY <4>1, <4>2, <2>1, <2>2
      <3>2. CASE ~HasNews(e)
        BY <1>9, <2>1, <3>2 DEF CreateVideo
      <3> QED BY <3>1, <3>2
    <2>4. Written
      <3>1. \A c \in 1..Len(consumption') :
              consumption'[c].video # None => consumption'[c].video \in 1..videos'
        <4>1. ASSUME NEW c \in 1..Len(consumption), consumption[c].video # None
              PROVE  consumption[c].video \in 1..videos
          BY <4>1 DEF TypeOK
        <4> QED BY <2>1, <2>3, <4>1
      <3> QED BY <2>1, <2>3, <3>1 DEF Written, TypeOK
    <2>5. t \in States /\ Inserted(t)' /\ Formed(t)'
      <3>0. videos' \in OptionalId
        BY <2>1 DEF OptionalId
      <3>1. /\ t \in States /\ t.news = st[e].news /\ t.video = videos'
            /\ t.next = "produce_video"
        BY <1>s, <2>t, <3>0 DEF States, Nodes
      <3>2. videos' \in 1..videos' /\ videos' # None
        BY <2>1, SpecialNone
      <3>3. Inserted(t)'
        BY <1>s, <2>3, <3>1, <3>2 DEF Inserted
      <3>4. Formed(t)'
        BY <3>1, <3>2 DEF Formed, Nodes
      <3> QED BY <3>1, <3>3, <3>4
    <2> QED BY <2>1, <2>4, <2>5, FinishShape
  <1>10. CASE ProduceVideo(e)
    <2>t. PICK t : t = [st[e] EXCEPT !.next = "publish"]
      OBVIOUS
    <2>1. /\ t \in States /\ st[e].next = "produce_video" /\ st[e].video \in 1..videos
          /\ Finish(e, t) /\ produced' = produced \cup {st[e].video}
          /\ UNCHANGED <<consumption, videos, ideas>>
      BY <1>s, <1>10, <2>t DEF ProduceVideo, At, States, Nodes, Formed, Inserted
    <2>2. Written
      <3>1. produced \subseteq produced' /\ produced' \subseteq 1..videos'
        BY <2>1 DEF TypeOK
      <3> QED BY <2>1, <3>1 DEF Written, TypeOK, Uses
    <2>3. Inserted(t)' /\ Formed(t)'
      <3>1. t.news = st[e].news /\ t.video = st[e].video /\ t.next = "publish"
        BY <1>s, <2>t, <2>1 DEF States
      <3>2. Inserted(t)'
        BY <1>s, <2>1, <3>1 DEF Inserted
      <3>3. Formed(t)'
        BY <1>s, <2>1, <3>1 DEF Formed, Inserted, Nodes
      <3> QED BY <3>2, <3>3
    <2> QED BY <2>1, <2>2, <2>3, FinishShape
  <1>11. ASSUME NEW published \in BOOLEAN, Publish(e, published)
         PROVE  Shape'
    <2>t. PICK t : t = [st[e] EXCEPT !.next = "end"]
      OBVIOUS
    <2>1. /\ t \in States /\ st[e].next = "publish"
          /\ Finish(e, t) /\ UNCHANGED <<film, ideas>>
          /\ consumption \in Seq(Uses)
      BY <1>s, <1>11, <2>t DEF Publish, At, States, Nodes, TypeOK, Uses
    <2>3. /\ consumption' \in Seq(Uses)
          /\ Len(consumption') = Len(consumption)
          /\ \A c \in 1..Len(consumption) : consumption'[c].video = consumption[c].video
      <3>1. CASE published /\ HasNews(e)
        <4>1. consumption' = [consumption EXCEPT ![st[e].news].status = "published"]
          BY <1>11, <3>1 DEF Publish
        <4>2. st[e].news \in 1..Len(consumption)
          BY <1>s, <3>1 DEF HasNews, Inserted
        <4>3. [consumption[st[e].news] EXCEPT !.status = "published"] \in Uses
          <5>1. consumption[st[e].news] \in Uses
            BY <2>1, <4>2
          <5> QED BY <5>1 DEF Uses
        <4> QED BY <4>1, <4>2, <4>3, <2>1
      <3>2. CASE ~(published /\ HasNews(e))
        BY <1>11, <2>1, <3>2 DEF Publish
      <3> QED BY <3>1, <3>2
    <2>4. Written
      <3>1. \A c \in 1..Len(consumption') :
              consumption'[c].video # None => consumption'[c].video \in 1..videos'
        BY <2>1, <2>3 DEF TypeOK, film
      <3> QED BY <2>1, <2>3, <3>1 DEF Written, TypeOK, film
    <2>5. Inserted(t)' /\ Formed(t)'
      BY <1>s, <2>t, <2>1, <2>3 DEF Inserted, Formed, States, Nodes, film
    <2> QED BY <2>1, <2>4, <2>5, FinishShape
  <1> QED BY <1>1, <1>2, <1>3, <1>4, <1>5, <1>6, <1>7, <1>8, <1>9, <1>10, <1>11 DEF Node

(* An execution that ends: its state and its unsaved supersteps go, the    *)
(* registry row is written, and at most a status of a consumption changes. *)
LEMMA LeaveShape ==
  ASSUME Shape, NEW e \in Execs, Leave(e),
         unsaved' = [unsaved EXCEPT ![e] = <<>>],
         saved' # saved => Held(saved'),
         row' \in Rows, Inserted(row'),
         consumption' \in Seq(Uses), Len(consumption') = Len(consumption),
         \A c \in 1..Len(consumption) : consumption'[c].video = consumption[c].video,
         crashes' \in Nat, errors' \in Nat, UNCHANGED <<film, started, ideas>>
  PROVE  Shape'
  <1> USE DEF Shape
  <1>0. Initial(0) \in States /\ Inserted(Initial(0)) /\ Formed(Initial(0))
    BY InitialState DEF Formed, Initial
  <1>1. /\ unsaved' \in [Execs -> Seq(States)] /\ unsaved'[e] = <<>>
        /\ \A f \in Execs \ {e} : unsaved'[f] = unsaved[f]
        /\ Len(unsaved'[e]) = 0
    BY DEF TypeOK
  <1>2. /\ st' \in [Execs -> States] /\ st'[e] = Initial(0)
        /\ \A f \in Execs \ {e} : st'[f] = st[f]
        /\ pc' \in [Execs -> Steps] /\ pc'[e] = "idle"
        /\ \A f \in Execs \ {e} : pc'[f] = pc[f]
    BY <1>0 DEF TypeOK, Leave, Goto, Steps
  <1>3. saved' # None => saved' \in States /\ Held(saved')
    BY HeldStates DEF TypeOK, Held
  <1>4. ASSUME NEW s \in States, Held(s)' PROVE Held(s) \/ s = Initial(0)
    <2>1. CASE \E f \in Execs : s = st'[f]
      BY <2>1, <1>2 DEF Held
    <2>2. CASE \E f \in Execs : \E i \in 1..Len(unsaved'[f]) : s = unsaved'[f][i]
      BY <2>2, <1>1 DEF Held
    <2>3. CASE saved' # None /\ s = saved'
      BY <2>3, <1>3
    <2> QED BY <1>4, <2>1, <2>2, <2>3 DEF Held
  <1>5. TypeOK'
    <2>1. \A f \in Execs : Inserted(st'[f])
      BY <1>0, <1>2 DEF TypeOK
    <2>2. \A f \in Execs : \A i \in 1..Len(unsaved'[f]) : Inserted(unsaved'[f][i])
      BY <1>1 DEF TypeOK
    <2>3. saved' # None => Inserted(saved')
      BY <1>3, HeldStates
    <2>4. \A c \in 1..Len(consumption') :
            consumption'[c].video # None => consumption'[c].video \in 1..videos'
      BY DEF TypeOK, film
    <2>5. /\ overlapped' \in BOOLEAN /\ videos' \in Nat /\ deliveries' \in Nat
          /\ ideas' \in Nat /\ produced' \subseteq 1..videos'
          /\ saved' \in States \cup {None}
      BY <1>3 DEF TypeOK, film, started
    <2>6. \A s : Inserted(s) => Inserted(s)'
      BY DEF Inserted, film
    <2>7. /\ Inserted(row)' /\ (saved # None => Inserted(saved))'
          /\ \A f \in Execs : Inserted(st[f])'
          /\ \A f \in Execs : \A i \in 1..Len(unsaved'[f]) : Inserted(unsaved[f][i])'
      BY <2>1, <2>2, <2>3 DEF Inserted, film
    <2> QED BY <1>1, <1>2, <2>4, <2>5, <2>7 DEF TypeOK, Rows, Uses, Steps
  <1>6. AllFormed'
    BY <1>0, <1>4 DEF AllFormed, Formed, film
  <1>7. AllPlaced'
    BY <1>1, <1>2 DEF AllPlaced, Place, Initial
  <1> QED BY <1>5, <1>6, <1>7

LEMMA RunnerShape ==
  ASSUME Shape, NEW e \in Execs,
         \/ \E raised \in {0, 1} : Begin(e, raised)
         \/ Resume(e) \/ Fallback(e) \/ Save(e) \/ GraphEnds(e)
         \/ Complete(e) \/ FailToComplete(e) \/ Fail(e) \/ Crash(e)
  PROVE  Shape'
  <1> USE DEF Shape
  <1>0. Initial(0) \in States /\ Inserted(Initial(0))
    BY InitialState
  <1>f. Formed(Initial(0))
    BY DEF Formed, Initial
  <1>1. ASSUME NEW raised \in {0, 1}, Begin(e, raised) PROVE Shape'
    <2>1. TypeOK'
      <3>0. row \in Rows /\ row.retryCount + raised \in Nat
        BY DEF TypeOK, Rows
      <3>1. row' \in Rows /\ row'.news = row.news /\ row'.video = row.video
        BY <1>1, <3>0 DEF Begin, Rows
      <3>3. deliveries' \in Nat /\ pc' \in [Execs -> Steps]
        BY <1>1 DEF Begin, Goto, TypeOK, Steps
      <3>2. overlapped' \in BOOLEAN
        BY <1>1 DEF Begin
      <3> QED BY <1>1, <3>1, <3>2, <3>3 DEF Begin, TypeOK, film, Inserted, Rows, Steps
    <2>2. AllFormed'
      BY <1>1 DEF Begin, AllFormed, Held, Formed, film
    <2>3. AllPlaced'
      BY <1>1 DEF Begin, Goto, AllPlaced, Place, TypeOK, Initial
    <2> QED BY <2>1, <2>2, <2>3
  <1>2. CASE Resume(e)
    <2>0. Held(saved) /\ saved \in States
      BY <1>2 DEF Resume, Held, TypeOK
    <2>1. TypeOK'
      BY <1>2, <2>0 DEF Resume, Goto, TypeOK, film, started, Inserted
    <2>2. AllFormed'
      BY <1>2, <2>0 DEF Resume, AllFormed, Held, Formed, film, TypeOK
    <2>3. AllPlaced'
      BY <1>2 DEF Resume, Goto, AllPlaced, Place, TypeOK, Initial
    <2> QED BY <2>1, <2>2, <2>3
  <1>3. CASE Fallback(e)
    <2> DEFINE n == row.retryCount + 1
    <2>0. /\ n \in Nat /\ row' = [row EXCEPT !.retryCount = n]
          /\ st' = [st EXCEPT ![e] = Initial(n)]
          /\ unsaved' = [unsaved EXCEPT ![e] = <<Initial(n)>>]
      BY <1>3 DEF Fallback, TypeOK
    <2> HIDE DEF n
    <2>i. Initial(n) \in States /\ Inserted(Initial(n)) /\ Formed(Initial(n))
      BY <2>0, InitialState DEF Formed, Initial
    <2>u. /\ unsaved' \in [Execs -> Seq(States)]
          /\ Len(unsaved'[e]) = 1 /\ unsaved'[e][1] = Initial(n)
          /\ \A f \in Execs \ {e} : unsaved'[f] = unsaved[f]
      BY <2>0, <2>i DEF TypeOK
    <2>1. TypeOK'
      <3>1. /\ row' \in Rows /\ row'.news = row.news /\ row'.video = row.video
            /\ ideas' \in Nat
            /\ pc' \in [Execs -> Steps]
        BY <1>3, <2>0 DEF Fallback, Goto, TypeOK, Rows, Steps
      <3>s. st' \in [Execs -> States] /\ \A f \in Execs : Inserted(st'[f])
        BY <2>0, <2>i DEF TypeOK
      <3>2. \A f \in Execs : \A i \in 1..Len(unsaved'[f]) : Inserted(unsaved'[f][i])
        <4>1. \A f \in Execs \ {e} : \A i \in 1..Len(unsaved[f]) : Inserted(unsaved[f][i])
          BY DEF TypeOK
        <4>2. \A i \in 1..Len(unsaved'[e]) : i = 1
          BY <2>u
        <4> QED BY <2>i, <2>u, <4>1, <4>2
      <3> QED BY <1>3, <2>u, <3>1, <3>s, <3>2
              DEF Fallback, TypeOK, film, started, Inserted, Rows, Steps
    <2>2. AllFormed'
      BY <1>3, <2>0, <2>i, <2>u DEF Fallback, AllFormed, Held, Formed, film, TypeOK
    <2>3. AllPlaced'
      BY <1>3, <2>0, <2>u DEF Fallback, Goto, AllPlaced, Place, TypeOK, Initial
    <2> QED BY <2>1, <2>2, <2>3
  <1>4. CASE Save(e)
    <2>u. /\ unsaved[e] \in Seq(States) /\ unsaved[e] # <<>>
          /\ saved' = unsaved[e][1]
          /\ unsaved' = [unsaved EXCEPT ![e] = Tail(unsaved[e])]
      BY <1>4 DEF Save, TypeOK
    <2>t. /\ Tail(unsaved[e]) \in Seq(States)
          /\ 1 \in 1..Len(unsaved[e])
          /\ \A i \in 1..Len(Tail(unsaved[e])) : /\ i + 1 \in 1..Len(unsaved[e])
                                               /\ Tail(unsaved[e])[i] = unsaved[e][i + 1]
      BY <2>u
    <2>h. /\ unsaved' \in [Execs -> Seq(States)]
          /\ saved' \in States /\ Held(saved')
          /\ \A f \in Execs : \A i \in 1..Len(unsaved'[f]) : Held(unsaved'[f][i])
          /\ unsaved'[e] = Tail(unsaved[e])
          /\ \A f \in Execs \ {e} : unsaved'[f] = unsaved[f]
      BY <2>u, <2>t DEF Held, TypeOK
    <2>1. TypeOK'
      <3>1. Inserted(saved') /\ \A f \in Execs : \A i \in 1..Len(unsaved'[f]) : Inserted(unsaved'[f][i])
        BY <2>h, HeldStates
      <3> QED BY <1>4, <2>h, <3>1 DEF Save, TypeOK, film, started, Inserted
    <2>2. AllFormed'
      <3>1. \A s \in States : Held(s)' => Held(s)
        BY <1>4, <2>h DEF Save, Held
      <3> QED BY <1>4, <3>1 DEF Save, AllFormed, Formed, film
    <2>3. AllPlaced'
      BY <1>4, <2>h, <2>u DEF Save, AllPlaced, Place, TypeOK, Initial
    <2> QED BY <2>1, <2>2, <2>3
  <1>5. CASE GraphEnds(e)
    <2>1. TypeOK'
      BY <1>5 DEF GraphEnds, Goto, TypeOK, film, started, Inserted
    <2>2. AllFormed'
      BY <1>5 DEF GraphEnds, AllFormed, Held, Formed, film
    <2>3. AllPlaced'
      BY <1>5 DEF GraphEnds, At, Goto, AllPlaced, Place, TypeOK, Initial
    <2> QED BY <2>1, <2>2, <2>3
  <1>e. ASSUME pc[e] = "ended", UNCHANGED unsaved
        PROVE  unsaved' = [unsaved EXCEPT ![e] = <<>>]
    BY <1>e DEF AllPlaced, Place, TypeOK
  <1>r. /\ row \in Rows /\ Inserted(row)
        /\ consumption \in Seq(Uses) /\ crashes \in Nat /\ errors \in Nat
    BY DEF TypeOK, Rows, Uses
  <1>s. /\ st[e].news \in OptionalId /\ st[e].video \in OptionalId /\ Inserted(st[e])
    BY DEF TypeOK, States
  <1>w. LET r == [row EXCEPT !.status = "failed"] IN r \in Rows /\ Inserted(r)
    BY <1>r DEF Rows, Inserted
  <1>6. CASE Complete(e)
    <2>1. row' \in Rows /\ Inserted(row')
      BY <1>6, <1>r, <1>s DEF Complete, Rows, Inserted, Given
    <2>2. /\ Leave(e) /\ unsaved' = [unsaved EXCEPT ![e] = <<>>]
          /\ UNCHANGED <<saved, consumption, film, started, crashes, errors, ideas>>
      BY <1>6, <1>e DEF Complete
    <2> QED BY <1>r, <2>1, <2>2, LeaveShape
  <1>7. CASE Fail(e)
    <2>1. row' \in Rows /\ Inserted(row')
      BY <1>7, <1>w DEF Fail
    <2>2. saved' # saved => Held(saved')
      <3>1. unsaved[e] \in Seq(States)
        BY DEF TypeOK
      <3>2. unsaved[e] # <<>> => Len(unsaved[e]) \in 1..Len(unsaved[e])
        BY <3>1
      <3> QED BY <1>7, <3>2 DEF Fail, Held
    <2>3. /\ Leave(e) /\ unsaved' = [unsaved EXCEPT ![e] = <<>>]
          /\ UNCHANGED <<consumption, film, started, crashes, errors, ideas>>
      BY <1>7 DEF Fail
    <2> QED BY <1>r, <2>1, <2>2, <2>3, LeaveShape
  <1>8. CASE Crash(e)
    <2>1. /\ Leave(e) /\ unsaved' = [unsaved EXCEPT ![e] = <<>>]
          /\ UNCHANGED <<saved, row, consumption, film, started, errors, ideas>>
          /\ crashes' = crashes + 1
      BY <1>8 DEF Crash
    <2>2. crashes' \in Nat /\ errors' \in Nat /\ row' \in Rows /\ Inserted(row')
      BY <1>r, <2>1
    <2>3. consumption' \in Seq(Uses) /\ Len(consumption') = Len(consumption)
      BY <1>r, <2>1
    <2> QED BY <2>1, <2>2, <2>3, LeaveShape
  <1>9. CASE FailToComplete(e)
    <2>1. /\ Leave(e) /\ unsaved' = [unsaved EXCEPT ![e] = <<>>]
          /\ UNCHANGED <<saved, film, started, crashes, ideas>>
          /\ errors' \in Nat
      BY <1>9, <1>e, <1>r DEF FailToComplete, CompletionFails
    <2>2. row' \in Rows /\ Inserted(row')
      BY <1>9, <1>r, <1>w DEF FailToComplete
    <2>3. /\ consumption' \in Seq(Uses) /\ Len(consumption') = Len(consumption)
          /\ \A c \in 1..Len(consumption) : consumption'[c].video = consumption[c].video
      <3>1. CASE consumption' = consumption
        BY <3>1, <1>r
      <3>2. CASE /\ HasNews(e)
                 /\ consumption' = [consumption EXCEPT ![st[e].news].status = "released"]
        <4>1. st[e].news \in 1..Len(consumption)
          BY <1>s, <3>2 DEF HasNews, Inserted
        <4>2. consumption[st[e].news] \in Uses
          BY <1>r, <4>1
        <4>3. LET u == [consumption[st[e].news] EXCEPT !.status = "released"]
              IN  u \in Uses /\ u.video = consumption[st[e].news].video
          BY <4>2 DEF Uses
        <4> QED BY <1>r, <3>2, <4>1, <4>3
      <3> QED BY <1>9, <3>1, <3>2 DEF FailToComplete
    <2> QED BY <1>r, <2>1, <2>2, <2>3, LeaveShape
  <1> QED BY <1>1, <1>2, <1>3, <1>4, <1>5, <1>6, <1>7, <1>8, <1>9

LEMMA NextShape == Shape /\ [Next]_vars => Shape'
  <1> SUFFICES ASSUME Shape, [Next]_vars PROVE Shape'
    OBVIOUS
  <1>1. CASE Next
    BY <1>1, NodeShape, RunnerShape DEF Next, Progress
  <1>2. CASE UNCHANGED vars
    BY <1>2 DEF vars, exec, film, started, Shape, TypeOK, AllFormed, AllPlaced, Held,
                Formed, Place, Inserted, Initial
  <1> QED BY <1>1, <1>2

LEMMA Shaped == Spec => []Shape
  BY InitShape, NextShape, PTL DEF Spec

(* Every reachable state is well typed, and every id that a state of the   *)
(* thread, the registry row or a consumption holds is the id of a row the  *)
(* run has inserted: nothing is resumed, reused or attached that is not    *)
(* there.                                                                  *)
THEOREM TypeCorrect == Spec => []TypeOK
  BY Shaped, PTL DEF Shape

-----------------------------------------------------------------------------
(* What a step does to the consumptions and to what the row refers to.     *)

LEMMA Claimed ==
  ASSUME TypeOK, NEW e \in Execs, ClaimNews(e)
  PROVE  /\ Len(consumption) \in Nat
         /\ Len(consumption') = Len(consumption) + 1
         /\ \A c \in 1..Len(consumption) : consumption'[c] = consumption[c]
         /\ consumption'[Len(consumption) + 1] = [status |-> "selected", video |-> None]
  <1>1. consumption \in Seq(Uses) /\ [status |-> "selected", video |-> None] \in Uses
    BY DEF TypeOK, Uses, OptionalId
  <1> QED BY <1>1, AppendProperties DEF ClaimNews

LEMMA Created ==
  ASSUME TypeOK, NEW e \in Execs, CreateVideo(e)
  PROVE  /\ Len(consumption') = Len(consumption)
         /\ \A c \in 1..Len(consumption) :
              consumption'[c] = IF HasNews(e) /\ c = st[e].news
                                THEN [status |-> "produced", video |-> videos + 1]
                                ELSE consumption[c]
  <1>1. consumption \in Seq(Uses) /\ videos \in Nat /\ Inserted(st[e])
    BY DEF TypeOK, Uses
  <1>2. CASE HasNews(e)
    <2>1. st[e].news \in 1..Len(consumption)
      BY <1>1, <1>2 DEF HasNews, Inserted
    <2>2. consumption' = [consumption EXCEPT
                            ![st[e].news] = [status |-> "produced", video |-> videos + 1]]
      BY <1>2 DEF CreateVideo
    <2>3. [status |-> "produced", video |-> videos + 1] \in Uses
      BY <1>1 DEF Uses, OptionalId
    <2> QED BY <1>1, <1>2, <2>1, <2>2, <2>3, ExceptSeq
  <1>3. CASE ~HasNews(e)
    BY <1>3 DEF CreateVideo
  <1> QED BY <1>2, <1>3

LEMMA Published ==
  ASSUME TypeOK, NEW e \in Execs, NEW published \in BOOLEAN, Publish(e, published)
  PROVE  /\ Len(consumption') = Len(consumption)
         /\ \A c \in 1..Len(consumption) :
              /\ consumption'[c].video = consumption[c].video
              /\ \/ consumption'[c] = consumption[c]
                 \/ /\ HasNews(e) /\ c = st[e].news
                    /\ consumption'[c] = [consumption[c] EXCEPT !.status = "published"]
                    /\ consumption'[c].status = "published"
  <1>1. consumption \in Seq(Uses) /\ Inserted(st[e])
    BY DEF TypeOK, Uses
  <1>2. CASE published /\ HasNews(e)
    <2>1. st[e].news \in 1..Len(consumption)
      BY <1>1, <1>2 DEF HasNews, Inserted
    <2> DEFINE u == [consumption[st[e].news] EXCEPT !.status = "published"]
    <2>2. consumption' = [consumption EXCEPT ![st[e].news] = u]
      BY <1>2 DEF Publish
    <2>3. consumption[st[e].news] \in Uses
      BY <1>1, <2>1
    <2>4. u \in Uses /\ u.status = "published" /\ u.video = consumption[st[e].news].video
      BY <2>3 DEF Uses
    <2> HIDE DEF u
    <2>5. /\ Len(consumption') = Len(consumption)
          /\ \A c \in 1..Len(consumption) :
               consumption'[c] = IF c = st[e].news THEN u ELSE consumption[c]
      BY <1>1, <2>1, <2>2, <2>4, ExceptSeq
    <2> QED BY <1>2, <2>4, <2>5 DEF u
  <1>3. CASE ~(published /\ HasNews(e))
    BY <1>3 DEF Publish
  <1> QED BY <1>2, <1>3

LEMMA Returned ==
  ASSUME TypeOK, NEW e \in Execs, FailToComplete(e)
  PROVE  /\ row'.news = row.news /\ row'.video = row.video
         /\ Len(consumption') = Len(consumption)
         /\ \A c \in 1..Len(consumption) :
              \/ consumption'[c] = consumption[c]
              \/ /\ HasNews(e) /\ c = st[e].news /\ Releasable(c) /\ row.news # c
                 /\ consumption'[c].status = "released"
                 /\ consumption'[c].video = None
  <1>1. consumption \in Seq(Uses) /\ Inserted(st[e]) /\ row \in Rows
    BY DEF TypeOK, Uses, Rows
  <1>r. row'.news = row.news /\ row'.video = row.video
    BY <1>1 DEF FailToComplete, Rows
  <1>2. CASE HasNews(e) /\ Releasable(st[e].news) /\ row.news # st[e].news
    <2>1. st[e].news \in 1..Len(consumption)
      BY <1>1, <1>2 DEF HasNews, Inserted
    <2> DEFINE u == [consumption[st[e].news] EXCEPT !.status = "released"]
    <2>2. consumption' = [consumption EXCEPT ![st[e].news] = u]
      BY <1>2 DEF FailToComplete
    <2>3. consumption[st[e].news] \in Uses
      BY <1>1, <2>1
    <2>4. u \in Uses /\ u.status = "released" /\ u.video = None
      BY <1>2, <2>3 DEF Uses, Releasable
    <2> HIDE DEF u
    <2>5. /\ Len(consumption') = Len(consumption)
          /\ \A c \in 1..Len(consumption) :
               consumption'[c] = IF c = st[e].news THEN u ELSE consumption[c]
      BY <1>1, <2>1, <2>2, <2>4, ExceptSeq
    <2> QED BY <1>2, <1>r, <2>4, <2>5
  <1>3. CASE ~(HasNews(e) /\ Releasable(st[e].news) /\ row.news # st[e].news)
    <2>1. consumption' = consumption
      BY <1>3 DEF FailToComplete
    <2> QED BY <1>r, <2>1
  <1> QED BY <1>2, <1>3

(* Every other step leaves the consumptions alone, and every step but the  *)
(* completion what the row refers to.                                      *)
Kept == consumption' = consumption
Referred == row'.news = row.news /\ row'.video = row.video

LEMMA NodesKeep ==
  ASSUME TypeOK, NEW e \in Execs, Node(e)
  PROVE  /\ Referred
         /\ \/ ClaimNews(e) \/ CreateVideo(e) \/ Kept
            \/ \E published \in BOOLEAN : Publish(e, published)
  <1> USE DEF Finish, Referred, Kept
  <1>1. CASE MemoryEnrichment(e) BY <1>1 DEF MemoryEnrichment
  <1>2. CASE ClaimNews(e)        BY <1>2 DEF ClaimNews
  <1>3. CASE GenerateIdea(e)     BY <1>3 DEF GenerateIdea
  <1>4. CASE GenerateScript(e)   BY <1>4 DEF GenerateScript
  <1>5. CASE ReuseVideo(e)       BY <1>5 DEF ReuseVideo
  <1>6. CASE LookupNothing(e)    BY <1>6 DEF LookupNothing
  <1>7. CASE CreateVideo(e)      BY <1>7 DEF CreateVideo
  <1>8. CASE ProduceVideo(e)     BY <1>8 DEF ProduceVideo
  <1>9. ASSUME NEW b \in BOOLEAN, SelectNoNews(e, b)
        PROVE  Referred /\ Kept
    BY <1>9 DEF SelectNoNews
  <1>10. ASSUME NEW b \in BOOLEAN, ValidateIdea(e, b)
         PROVE  Referred /\ Kept
    BY <1>10 DEF ValidateIdea
  <1>11. ASSUME NEW b \in BOOLEAN, Publish(e, b)
         PROVE  Referred
    BY <1>11 DEF Publish
  <1> QED BY <1>1, <1>2, <1>3, <1>4, <1>5, <1>6, <1>7, <1>8, <1>9, <1>10, <1>11 DEF Node

Runner(e) == \/ \E raised \in {0, 1} : Begin(e, raised)
             \/ Resume(e) \/ Fallback(e) \/ Save(e) \/ GraphEnds(e)
             \/ Fail(e) \/ Crash(e)

LEMMA RunnerKeeps ==
  ASSUME TypeOK, NEW e \in Execs, Runner(e)
  PROVE  Referred /\ Kept
  <1> USE DEF TypeOK, Referred, Kept
  <1>1. ASSUME NEW raised \in {0, 1}, Begin(e, raised)
        PROVE  Referred /\ Kept
    BY <1>1 DEF Begin
  <1>2. CASE Resume(e)    BY <1>2 DEF Resume
  <1>3. CASE Fallback(e)  BY <1>3 DEF Fallback
  <1>4. CASE Save(e)      BY <1>4 DEF Save
  <1>5. CASE GraphEnds(e) BY <1>5 DEF GraphEnds
  <1>6. CASE Fail(e)      BY <1>6 DEF Fail
  <1>7. CASE Crash(e)     BY <1>7 DEF Crash
  <1> QED BY <1>1, <1>2, <1>3, <1>4, <1>5, <1>6, <1>7 DEF Runner

LEMMA Divided ==
  ASSUME Next
  PROVE  \E e \in Execs : Node(e) \/ Runner(e) \/ Complete(e) \/ FailToComplete(e)
  BY DEF Next, Progress, Runner

-----------------------------------------------------------------------------
(* ReleasedIsUnused.  The row of a completed run is not the only one that  *)
(* must not refer to a released item: a later failure of the run leaves    *)
(* the reference in the row, and a later completion may keep it.           *)
Unused == \A c \in 1..Len(consumption) :
            consumption[c].status = "released" =>
              consumption[c].video = None /\ row.news # c

LEMMA NextUnused ==
  ASSUME TypeOK, Unused, [Next]_vars
  PROVE  Unused'
  <1>n. consumption \in Seq(Uses) /\ Len(consumption) \in Nat
    BY DEF TypeOK, Uses
  <1>k. ASSUME Kept, Referred PROVE Unused'
    BY <1>k DEF Kept, Referred, Unused
  <1>1. ASSUME NEW e \in Execs, Node(e)
        PROVE  Unused'
    <2>r. Referred
      BY <1>1, NodesKeep
    <2>1. CASE ClaimNews(e)
      <3>1. ASSUME NEW c \in 1..Len(consumption'), consumption'[c].status = "released"
            PROVE  consumption'[c].video = None /\ row'.news # c
        <4>1. c \in 1..Len(consumption) \/ c = Len(consumption) + 1
          BY <1>n, <2>1, Claimed
        <4>2. c \in 1..Len(consumption) /\ consumption'[c] = consumption[c]
          BY <2>1, <3>1, <4>1, Claimed
        <4> QED BY <2>r, <3>1, <4>2 DEF Unused, Referred
      <3> QED BY <3>1 DEF Unused
    <2>2. CASE CreateVideo(e)
      BY <2>r, <2>2, Created DEF Unused, Referred
    <2>3. ASSUME NEW b \in BOOLEAN, Publish(e, b) PROVE Unused'
      BY <2>r, <2>3, Published DEF Unused, Referred
    <2> QED BY <1>1, <1>k, <2>r, <2>1, <2>2, <2>3, NodesKeep
  <1>2. ASSUME NEW e \in Execs, Runner(e)
        PROVE  Unused'
    BY <1>2, <1>k, RunnerKeeps
  <1>3. ASSUME NEW e \in Execs, Complete(e)
        PROVE  Unused'
    <2>1. row'.news = IF st[e].news # None THEN st[e].news ELSE row.news
      BY <1>3 DEF Complete, Given, TypeOK
    <2> QED BY <1>3, <2>1 DEF Complete, MayComplete, HasNews, Unused
  <1>4. ASSUME NEW e \in Execs, FailToComplete(e)
        PROVE  Unused'
    BY <1>4, Returned DEF Unused
  <1>5. CASE UNCHANGED vars
    BY <1>5, <1>k DEF vars, Kept, Referred
  <1> QED BY <1>1, <1>2, <1>3, <1>4, <1>5, Divided

LEMMA InitUnused == Init => Unused
  BY DEF Init, Unused

(* Even when executions of the run overlap: a news item that is given back *)
(* to the channel is not the item of a completed run, and no video of the  *)
(* run was made from it.                                                   *)
THEOREM ReleasedUnused == Spec => []ReleasedIsUnused
  <1>1. Unused => ReleasedIsUnused
    BY DEF Unused, ReleasedIsUnused
  <1> QED BY <1>1, TypeCorrect, InitUnused, NextUnused, PTL DEF Spec

-----------------------------------------------------------------------------
(* One execution at a time.                                                *)

Lone(e) == \A f \in Execs \ {e} : pc[f] = "idle"

\* The states e holds, or would go on from.
Own(e, s) == \/ s = st[e]
             \/ \E i \in 1..Len(unsaved[e]) : s = unsaved[e][i]
             \/ saved # None /\ s = saved

\* The newest superstep of the thread, saved or not, and the one before it.
Newest(e) == IF unsaved[e] = <<>> THEN saved ELSE unsaved[e][Len(unsaved[e])]
Before(e) == IF Len(unsaved[e]) > 1 THEN unsaved[e][Len(unsaved[e]) - 1] ELSE saved

\* A state whose item and video are both set names an item that is used for
\* that video; its item is still there until the thread has ended; and a
\* state before the video does not name an item that was published.
Tied(s) == s.news # None =>
  /\ s.video # None => consumption[s.news].video = s.video
  /\ s.next # "end" => consumption[s.news].status # "released"
  /\ MaxLag <= 2 /\ consumption[s.news].status = "published" => s.video # None

\* What an earlier state names, a later state of the thread names as well.
Leads(s, t) == /\ s.video # None => t.video = s.video
               /\ s.news # None => t.news = s.news

Attached(e) == \A s \in States : Own(e, s) => Tied(s)

\* The state in memory is the newest superstep, and a thread that stands
\* before the publication was produced one superstep earlier.
Current(e) == pc[e] \in {"graph", "creating", "ended"} =>
  /\ st[e] = Newest(e)
  /\ \A s \in States : Own(e, s) => Leads(s, st[e])
  /\ unsaved[e] # <<>> /\ st[e].next = "publish" =>
       Before(e) # None /\ Before(e).video # None

\* A row that refers to an item or a video was completed, and then the
\* thread stays at its end.
Settled(e) == row.news # None \/ row.video # None =>
  /\ saved # None /\ saved.next = "end"
  /\ saved.news = row.news /\ saved.video = row.video
  /\ unsaved[e] = <<>>

\* Rows that the thread does not know of were lost in a crash.
KnownVideos(s) == IF s = None THEN 0 ELSE IF s.video = None THEN 0 ELSE 1
KnownNews(s) == IF s = None THEN 0 ELSE IF s.news = None THEN 0 ELSE 1
Counted(s) == /\ videos <= crashes + KnownVideos(s)
              /\ Len(consumption) <= crashes + KnownNews(s)

\* The count of retries is ahead of the number of ideas.
Budget(s) ==
  /\ s = None => ideas = 0
  /\ s # None =>
       /\ s.next \in {"memory_enrichment", "select_news"} => ideas = 0 /\ s.retryCount > 0
       /\ s.next = "generate_idea" =>
            /\ ideas < s.retryCount
            /\ ideas = 0 \/ s.retryCount < IdeaMaxRetries
       /\ s.next = "validate_idea" => ideas <= s.retryCount
  /\ ideas <= 1 \/ ideas < IdeaMaxRetries

Thread(e) == /\ Attached(e) /\ Current(e) /\ Settled(e) /\ Counted(Newest(e))
             /\ crashes = 0 => Budget(Newest(e))

Sequential == ~overlapped =>
  /\ \A e \in Execs : Lone(e) => Thread(e)
  /\ \A e \in Execs : Lone(e) \/ pc[e] = "idle"

LEMMA InitSequential == Init => Sequential
  <1> SUFFICES ASSUME Init, NEW e \in Execs PROVE Thread(e)
    BY DEF Init, Sequential, Lone
  <1>1. st[e] = Initial(0) /\ unsaved[e] = <<>> /\ saved = None /\ Len(unsaved[e]) = 0
    BY DEF Init
  <1>2. Attached(e) /\ Current(e)
    BY <1>1 DEF Init, Attached, Current, Own, Tied, Initial
  <1>3. Settled(e)
    BY DEF Init, Settled
  <1>4. Newest(e) = None /\ Len(consumption) = 0
    BY <1>1 DEF Newest, Init
  <1>5. Counted(Newest(e)) /\ Budget(Newest(e))
    BY <1>4 DEF Init, Counted, KnownVideos, KnownNews, Budget
  <1> QED BY <1>2, <1>3, <1>5 DEF Thread

(* The newest superstep is one the execution holds.                        *)
LEMMA NewestOwn ==
  ASSUME TypeOK, NEW e \in Execs, Newest(e) # None
  PROVE  Newest(e) \in States /\ Own(e, Newest(e))
  <1>1. unsaved[e] \in Seq(States)
    BY DEF TypeOK
  <1>2. unsaved[e] # <<>> => Len(unsaved[e]) \in 1..Len(unsaved[e])
    BY <1>1
  <1> QED BY <1>1, <1>2 DEF Newest, Own, TypeOK

(* A node of a lone execution keeps its thread in order if it goes forward *)
(* with what it wrote.                                                     *)
Forward(e, t) ==
  /\ Finish(e, t)
  /\ pc[e] \in {"graph", "creating"} /\ st[e].next # "end"
  /\ Leads(st[e], t)
  /\ t.next = "publish" => st[e].video # None
  /\ videos' = videos \/ (videos' = videos + 1 /\ st[e].video = None /\ t.video # None)
  /\ \/ Len(consumption') = Len(consumption)
     \/ /\ Len(consumption') = Len(consumption) + 1
        /\ st[e].news = None /\ t.news # None

LEMMA ForwardThread ==
  ASSUME Shape, NEW e \in Execs, Thread(e), NEW t \in States, Forward(e, t),
         \A s \in States : Own(e, s) => Tied(s)', Tied(t)',
         crashes = 0 => Budget(t)'
  PROVE  Thread(e)'
  <1> USE DEF Shape
  <1>f. /\ pc' = [pc EXCEPT ![e] = "graph"]
        /\ st' = [st EXCEPT ![e] = t]
        /\ unsaved'[e] # <<>>
        /\ Len(unsaved'[e]) = Len(unsaved[e]) + 1
        /\ unsaved'[e][Len(unsaved[e]) + 1] = t
        /\ \A i \in 1..Len(unsaved[e]) : unsaved'[e][i] = unsaved[e][i]
        /\ UNCHANGED <<saved, row, started, crashes, errors>>
    BY FinishHeld DEF Forward
  <1>t. /\ unsaved[e] \in Seq(States) /\ Len(unsaved[e]) \in Nat
        /\ unsaved[e] = <<>> <=> Len(unsaved[e]) = 0
        /\ st'[e] = t /\ pc'[e] = "graph" /\ st[e] \in States /\ st[e] # None /\ t # None
        /\ Own(e, st[e])
    BY <1>f, SpecialNone DEF TypeOK, Own
  <1>c. /\ st[e] = Newest(e)
        /\ \A s \in States : Own(e, s) => Leads(s, st[e])
    BY DEF Thread, Current, Forward
  <1>o. \A s \in States : Own(e, s)' => Own(e, s) \/ s = t
    BY <1>f, <1>t DEF Own
  <1>n. Newest(e)' = t
    BY <1>f, <1>t DEF Newest
  <1>1. Attached(e)'
    BY <1>o DEF Attached
  <1>2. Current(e)'
    <2>1. ASSUME NEW s \in States, Own(e, s)' PROVE Leads(s, t)
      BY <1>o, <1>c, <2>1 DEF Leads, Forward
    <2>2. Before(e)' = st[e]
      <3>1. CASE unsaved[e] = <<>>
        BY <1>f, <1>t, <1>c, <3>1 DEF Before, Newest
      <3>2. CASE unsaved[e] # <<>>
        BY <1>f, <1>t, <1>c, <3>2 DEF Before, Newest
      <3> QED BY <3>1, <3>2
    <2>3. \A s \in States : Own(e, s)' => Leads(s, st[e])'
      BY <2>1, <1>t DEF Leads
    <2> QED BY <1>n, <1>t, <2>2, <2>3 DEF Current, Forward
  <1>3. Settled(e)'
    <2>1. ~(row.news # None \/ row.video # None)
      BY <1>c DEF Thread, Settled, Newest, Forward
    <2> QED BY <1>f, <2>1 DEF Settled
  <1>4. Counted(t)'
    <2>1. Counted(st[e]) /\ videos \in Nat /\ crashes \in Nat
      BY <1>c DEF Thread, TypeOK
    <2>2. Len(consumption) \in Nat
      BY DEF TypeOK
    <2>3. videos' <= crashes + KnownVideos(t)
      BY <1>t, <2>1 DEF Counted, KnownVideos, Forward, Leads
    <2>4. Len(consumption') <= crashes + KnownNews(t)
      BY <1>t, <2>1, <2>2 DEF Counted, KnownNews, Forward, Leads
    <2> QED BY <1>f, <2>3, <2>4 DEF Counted, KnownVideos, KnownNews
  <1> QED BY <1>1, <1>2, <1>3, <1>4, <1>n, <1>f DEF Thread, Counted, Budget, KnownVideos, KnownNews

(* What a lone execution knows when it runs a node.                        *)
LEMMA AtNode ==
  ASSUME Shape, NEW e \in Execs, Thread(e), pc[e] \in {"graph", "creating"}
  PROVE  /\ st[e] \in States /\ st[e] # None /\ st[e].retryCount \in Nat
         /\ Own(e, st[e]) /\ Tied(st[e]) /\ Formed(st[e]) /\ Inserted(st[e])
         /\ st[e] = Newest(e)
         /\ \A s \in States : Own(e, s) => Leads(s, st[e]) /\ Tied(s) /\ Inserted(s)
         /\ crashes = 0 => Budget(st[e])
         /\ row.news # None \/ row.video # None => st[e].next = "end"
         /\ st[e].next = "publish" /\ unsaved[e] # <<>> =>
              Before(e) # None /\ Before(e).video # None
  <1>1. /\ st[e] \in States /\ Own(e, st[e]) /\ st[e] # None /\ st[e].retryCount \in Nat
        /\ Held(st[e])
    BY SpecialNone DEF Shape, TypeOK, Own, States, Held
  <1>2. /\ st[e] = Newest(e) /\ Tied(st[e])
        /\ \A s \in States : Own(e, s) => Leads(s, st[e]) /\ Tied(s)
        /\ st[e].next = "publish" /\ unsaved[e] # <<>> =>
             Before(e) # None /\ Before(e).video # None
    BY <1>1 DEF Thread, Attached, Current
  <1>3. \A s \in States : Own(e, s) => Inserted(s)
    BY DEF Shape, TypeOK, Own
  <1>4. Formed(st[e])
    BY <1>1 DEF Shape, AllFormed
  <1>5. row.news # None \/ row.video # None => st[e].next = "end"
    BY <1>2 DEF Thread, Settled, Newest
  <1> QED BY <1>1, <1>2, <1>3, <1>4, <1>5 DEF Thread

(* A node that leaves the consumptions alone and whose state names what it *)
(* named before.                                                           *)
LEMMA MovedThread ==
  ASSUME Shape, NEW e \in Execs, Thread(e), NEW t \in States, Finish(e, t),
         pc[e] \in {"graph", "creating"}, st[e].next # "end",
         t.news = st[e].news, t.video = st[e].video,
         t.next = "publish" => st[e].video # None,
         UNCHANGED <<consumption, videos>>,
         crashes = 0 => Budget(t)'
  PROVE  Thread(e)'
  <1>1. Forward(e, t)
    BY DEF Forward, Leads
  <1>2. \A s \in States : Own(e, s) => Tied(s)'
    BY AtNode DEF Tied
  <1>3. Tied(t)'
    BY AtNode DEF Tied
  <1> QED BY <1>1, <1>2, <1>3, ForwardThread

LEMMA NodeThread ==
  ASSUME Shape, NEW e \in Execs, Thread(e), Node(e), ~overlapped'
  PROVE  Thread(e)'
  <1>i. ideas \in Nat
    BY DEF Shape, TypeOK
  <1>1. CASE MemoryEnrichment(e)
    <2>t. PICK t : t = [st[e] EXCEPT !.next = "select_news"]
      OBVIOUS
    <2>1. /\ pc[e] = "graph" /\ st[e].next = "memory_enrichment" /\ Finish(e, t)
          /\ UNCHANGED <<consumption, videos, ideas>>
      BY <1>1, <2>t DEF MemoryEnrichment, At, film
    <2>2. /\ t \in States /\ t.news = st[e].news /\ t.video = st[e].video
          /\ t.next = "select_news" /\ t.retryCount = st[e].retryCount
      BY <2>t, <2>1, AtNode DEF States, Nodes
    <2>3. crashes = 0 => Budget(t)'
      BY <2>1, <2>2, AtNode, SpecialNone DEF Budget
    <2> QED BY <2>1, <2>2, <2>3, MovedThread
  <1>2. ASSUME NEW newsRequired \in BOOLEAN, SelectNoNews(e, newsRequired)
        PROVE  Thread(e)'
    <2>t. PICK t : t = [st[e] EXCEPT !.news = None,
                          !.next = IF newsRequired THEN "end" ELSE "generate_idea"]
      OBVIOUS
    <2>1. /\ pc[e] = "graph" /\ st[e].next = "select_news" /\ Finish(e, t)
          /\ UNCHANGED <<consumption, videos, ideas>>
      BY <1>2, <2>t DEF SelectNoNews, At, film
    <2>2. /\ t \in States /\ t.news = st[e].news /\ t.video = st[e].video
          /\ t.next \in {"end", "generate_idea"} /\ t.retryCount = st[e].retryCount
      BY <2>t, <2>1, AtNode DEF States, Nodes, OptionalId, Formed
    <2>3. crashes = 0 => Budget(t)'
      BY <1>i, <2>1, <2>2, AtNode, SpecialNone DEF Budget
    <2> QED BY <2>1, <2>2, <2>3, MovedThread
  <1>4. CASE GenerateIdea(e)
    <2>t. PICK t : t = [st[e] EXCEPT !.next = "validate_idea"]
      OBVIOUS
    <2>1. /\ pc[e] = "graph" /\ st[e].next = "generate_idea" /\ Finish(e, t)
          /\ UNCHANGED <<consumption, videos>>
          /\ ideas' = IF ideas > IdeaMaxRetries THEN ideas ELSE ideas + 1
      BY <1>4, <2>t DEF GenerateIdea, At, film, Finish, started
    <2>2. /\ t \in States /\ t.news = st[e].news /\ t.video = st[e].video
          /\ t.next = "validate_idea" /\ t.retryCount = st[e].retryCount
      BY <2>t, <2>1, AtNode DEF States, Nodes
    <2>3. crashes = 0 => Budget(t)'
      <3>1. SUFFICES ASSUME crashes = 0 PROVE Budget(t)'
        OBVIOUS
      <3>2. ideas < t.retryCount /\ (ideas = 0 \/ t.retryCount < IdeaMaxRetries)
        BY <3>1, <2>1, <2>2, AtNode DEF Budget
      <3>3. t.retryCount \in Nat /\ t # None
        BY <2>2, SpecialNone, AtNode, <2>1
      <3> QED BY <1>i, <2>1, <2>2, <3>2, <3>3, GraphAssumption DEF Budget
    <2> QED BY <2>1, <2>2, <2>3, MovedThread
  <1>5. ASSUME NEW passed \in BOOLEAN, ValidateIdea(e, passed)
        PROVE  Thread(e)'
    <2> DEFINE n == IF passed THEN st[e].retryCount ELSE st[e].retryCount + 1
               l == CASE passed -> "generate_script"
                      [] ~passed /\ n < IdeaMaxRetries -> "generate_idea"
                      [] OTHER -> "end"
    <2>t. PICK t : t = [st[e] EXCEPT !.retryCount = n, !.next = l]
      OBVIOUS
    <2>1. /\ pc[e] = "graph" /\ st[e].next = "validate_idea" /\ Finish(e, t)
          /\ UNCHANGED <<consumption, videos, ideas>>
      BY <1>5, <2>t DEF ValidateIdea, At, film
    <2>r. st[e] \in States /\ st[e].retryCount \in Nat
      BY <2>1, AtNode
    <2>n. /\ n \in Nat /\ l \in {"generate_script", "generate_idea", "end"}
          /\ l = "generate_idea" => n = st[e].retryCount + 1 /\ n < IdeaMaxRetries
      BY <2>r
    <2> HIDE DEF n, l
    <2>2. /\ t \in States /\ t.news = st[e].news /\ t.video = st[e].video
          /\ t.next = l /\ t.retryCount = n
      BY <2>t, <2>n, <2>r DEF States, Nodes
    <2>3. crashes = 0 => Budget(t)'
      BY <1>i, <2>1, <2>2, <2>n, <2>r, AtNode, SpecialNone DEF Budget
    <2> QED BY <2>1, <2>2, <2>3, <2>n, MovedThread
  <1>6. CASE GenerateScript(e)
    <2>t. PICK t : t = [st[e] EXCEPT !.next = "persist_metadata"]
      OBVIOUS
    <2>1. /\ pc[e] = "graph" /\ st[e].next = "generate_script" /\ Finish(e, t)
          /\ UNCHANGED <<consumption, videos, ideas>>
      BY <1>6, <2>t DEF GenerateScript, At, film
    <2>2. /\ t \in States /\ t.news = st[e].news /\ t.video = st[e].video
          /\ t.next = "persist_metadata" /\ t.retryCount = st[e].retryCount
      BY <2>t, <2>1, AtNode DEF States, Nodes
    <2>3. crashes = 0 => Budget(t)'
      BY <2>1, <2>2, AtNode, SpecialNone DEF Budget
    <2> QED BY <2>1, <2>2, <2>3, MovedThread
  <1>7. CASE ReuseVideo(e)
    \* A lone execution has no video to reuse that its thread does not know.
    <2>1. pc[e] = "graph" /\ st[e].next = "persist_metadata"
      BY <1>7 DEF ReuseVideo, At
    <2>2. st[e].video = None /\ row.video = None
      BY <2>1, AtNode DEF Formed, Nodes
    <2> QED BY <1>7, <2>2 DEF ReuseVideo
  <1>10. CASE ProduceVideo(e)
    <2>t. PICK t : t = [st[e] EXCEPT !.next = "publish"]
      OBVIOUS
    <2>1. /\ pc[e] = "graph" /\ st[e].next = "produce_video" /\ Finish(e, t)
          /\ UNCHANGED <<consumption, videos, ideas>>
      BY <1>10, <2>t DEF ProduceVideo, At
    <2>2. /\ t \in States /\ t.news = st[e].news /\ t.video = st[e].video
          /\ t.next = "publish" /\ t.retryCount = st[e].retryCount
      BY <2>t, <2>1, AtNode DEF States, Nodes
    <2>3. crashes = 0 => Budget(t)'
      BY <2>1, <2>2, AtNode, SpecialNone DEF Budget
    <2>4. st[e].video # None
      BY <2>1, AtNode DEF Formed
    <2> QED BY <2>1, <2>2, <2>3, <2>4, MovedThread
  <1>3. CASE ClaimNews(e)
    <2>t. PICK t : t = [st[e] EXCEPT !.news = Len(consumption'), !.next = "generate_idea"]
      OBVIOUS
    <2>1. /\ pc[e] = "graph" /\ st[e].next = "select_news" /\ Finish(e, t)
          /\ UNCHANGED <<videos, ideas>>
      BY <1>3, <2>t DEF ClaimNews, At, film
    <2>c. /\ Len(consumption) \in Nat /\ Len(consumption') = Len(consumption) + 1
          /\ \A c \in 1..Len(consumption) : consumption'[c] = consumption[c]
          /\ consumption'[Len(consumption')] = [status |-> "selected", video |-> None]
      BY <1>3, Claimed DEF Shape
    <2>l. Len(consumption') \in Nat
      BY <2>c
    <2>f. st[e].news = None /\ st[e].video = None
      BY <2>1, AtNode DEF Formed, Nodes
    <2>2. /\ t \in States /\ t.news = Len(consumption') /\ t.video = None
          /\ t.next = "generate_idea" /\ t.retryCount = st[e].retryCount
      BY <2>t, <2>1, <2>l, <2>f, AtNode DEF States, Nodes, OptionalId
    <2>3. crashes = 0 => Budget(t)'
      BY <1>i, <2>1, <2>2, AtNode, SpecialNone DEF Budget
    <2>4. Forward(e, t)
      BY <2>1, <2>2, <2>c, <2>l, <2>f, SpecialNone DEF Forward, Leads
    <2>5. \A s \in States : Own(e, s) => Tied(s)'
      BY <2>1, <2>c, AtNode DEF Tied, Inserted
    <2>6. Tied(t)'
      BY <2>2, <2>c DEF Tied
    <2> QED BY <2>2, <2>3, <2>4, <2>5, <2>6, ForwardThread
  <1>8. CASE LookupNothing(e)
    <2>1. /\ pc[e] = "graph" /\ pc' = [pc EXCEPT ![e] = "creating"]
          /\ UNCHANGED <<st, unsaved, saved, row, consumption, videos, crashes, ideas>>
      BY <1>8 DEF LookupNothing, Goto, At, film
    <2> QED BY <2>1 DEF Thread, Attached, Current, Settled, Counted, Budget, Own, Tied,
                        Newest, Before, KnownNews, KnownVideos
  <1>9. CASE CreateVideo(e)
    <2>t. PICK t : t = [st[e] EXCEPT !.video = videos', !.next = "produce_video"]
      OBVIOUS
    <2>1. /\ pc[e] = "creating" /\ st[e].next = "persist_metadata" /\ Finish(e, t)
          /\ videos \in Nat /\ videos' = videos + 1 /\ UNCHANGED ideas
      BY <1>9, <2>t DEF CreateVideo, Shape, TypeOK, AllPlaced, Place
    <2>v. videos' \in OptionalId /\ videos' # None
      BY <2>1, SpecialNone DEF OptionalId
    <2>f. st[e].video = None
      BY <2>1, AtNode DEF Formed, Nodes
    <2>c. /\ Len(consumption') = Len(consumption)
          /\ \A c \in 1..Len(consumption) :
               consumption'[c] = IF HasNews(e) /\ c = st[e].news
                                 THEN [status |-> "produced", video |-> videos + 1]
                                 ELSE consumption[c]
      BY <1>9, Created DEF Shape
    <2>2. /\ t \in States /\ t.news = st[e].news /\ t.video = videos + 1
          /\ t.next = "produce_video" /\ t.retryCount = st[e].retryCount
      BY <2>t, <2>1, <2>v, AtNode DEF States, Nodes
    <2>3. crashes = 0 => Budget(t)'
      BY <2>1, <2>2, AtNode, SpecialNone DEF Budget
    <2>4. Forward(e, t)
      BY <2>1, <2>2, <2>c, <2>v, <2>f DEF Forward, Leads
    <2>h. st[e].news # None =>
            /\ consumption'[st[e].news].status = "produced"
            /\ consumption'[st[e].news].video = videos + 1
      BY <2>1, <2>c, AtNode DEF HasNews, Tied, Inserted
    <2>5. \A s \in States : Own(e, s) => Tied(s)'
      BY <2>1, <2>f, <2>h, AtNode DEF Tied, Leads
    <2>6. Tied(t)'
      BY <2>1, <2>2, <2>v, <2>h DEF Tied
    <2> QED BY <2>2, <2>3, <2>4, <2>5, <2>6, ForwardThread
  <1>11. ASSUME NEW published \in BOOLEAN, Publish(e, published)
         PROVE  Thread(e)'
    <2>t. PICK t : t = [st[e] EXCEPT !.next = "end"]
      OBVIOUS
    <2>1. /\ pc[e] = "graph" /\ st[e].next = "publish" /\ Finish(e, t)
          /\ UNCHANGED <<videos, ideas>>
      BY <1>11, <2>t DEF Publish, At, film
    <2>2. /\ t \in States /\ t.news = st[e].news /\ t.video = st[e].video
          /\ t.next = "end" /\ t.retryCount = st[e].retryCount
      BY <2>t, <2>1, AtNode DEF States, Nodes
    <2>3. crashes = 0 => Budget(t)'
      BY <2>1, <2>2, AtNode, SpecialNone DEF Budget
    <2>v. st[e].video # None
      BY <2>1, AtNode DEF Formed
    <2>c. /\ Len(consumption') = Len(consumption)
          /\ \A c \in 1..Len(consumption) :
               /\ consumption'[c].video = consumption[c].video
               /\ \/ consumption'[c] = consumption[c]
                  \/ consumption'[c].status = "published"
      BY <1>11, Published DEF Shape
    <2>4. Forward(e, t)
      BY <2>1, <2>2, <2>c DEF Forward, Leads
    \* With at most one superstep unsaved, the checkpoint has the video, too.
    <2>l. MaxLag <= 2 => \A s \in States : Own(e, s) => s.video # None
      <3>1. SUFFICES ASSUME MaxLag <= 2, NEW s \in States, Own(e, s)
                     PROVE  s.video # None
        OBVIOUS
      <3>2. unsaved[e] \in Seq(States) /\ Len(unsaved[e]) < MaxLag
        BY <2>1 DEF Shape, TypeOK, Finish
      <3>3. Len(unsaved[e]) \in {0, 1} /\ (Len(unsaved[e]) = 0 <=> unsaved[e] = <<>>)
        <4>1. Len(unsaved[e]) \in Nat /\ (Len(unsaved[e]) = 0 <=> unsaved[e] = <<>>)
          BY <3>2
        <4>2. MaxLag \in Nat
          BY GraphAssumption
        <4>3. \A k, m \in Nat : k < m /\ m <= 2 => k \in {0, 1}
          OBVIOUS
        <4> QED BY <3>1, <3>2, <4>1, <4>2, <4>3
      <3>4. CASE Len(unsaved[e]) = 0
        <4>1. s = st[e]
          BY <2>1, <3>1, <3>3, <3>4, AtNode DEF Own, Newest
        <4> QED BY <4>1, <2>v
      <3>5. CASE Len(unsaved[e]) = 1
        <4>1. s = st[e] \/ s = Before(e)
          BY <2>1, <3>1, <3>3, <3>5, AtNode DEF Own, Newest, Before
        <4> QED BY <4>1, <2>1, <2>v, <3>3, <3>5, AtNode
      <3> QED BY <3>3, <3>4, <3>5
    <2>5. \A s \in States : Own(e, s) => Tied(s)'
      <3>1. SUFFICES ASSUME NEW s \in States, Own(e, s), s.news # None
                     PROVE  Tied(s)'
        BY DEF Tied
      <3>2. s.news \in 1..Len(consumption) /\ Tied(s)
        BY <2>1, <3>1, AtNode DEF Inserted
      <3>3. /\ consumption'[s.news].video = consumption[s.news].video
            /\ \/ consumption'[s.news] = consumption[s.news]
               \/ consumption'[s.news].status = "published"
        BY <2>c, <3>2
      <3> QED BY <2>l, <3>1, <3>2, <3>3 DEF Tied
    <2>6. Tied(t)'
      <3>1. Own(e, st[e]) /\ st[e] \in States
        BY <2>1, AtNode
      <3> QED BY <2>2, <2>5, <2>v, <3>1 DEF Tied
    <2> QED BY <2>2, <2>3, <2>4, <2>5, <2>6, ForwardThread
  <1> QED BY <1>1, <1>2, <1>3, <1>4, <1>5, <1>6, <1>7, <1>8, <1>9, <1>10, <1>11 DEF Node

(* The steps of the runner, of the checkpointer and of a loss.             *)
LEMMA RunnerThread ==
  ASSUME Shape, NEW e \in Execs, Thread(e),
         Runner(e) \/ Complete(e) \/ FailToComplete(e), ~overlapped'
  PROVE  Thread(e)'
  <1>t. /\ unsaved[e] \in Seq(States) /\ Len(unsaved[e]) \in Nat
        /\ unsaved[e] = <<>> <=> Len(unsaved[e]) = 0
        /\ unsaved \in [Execs -> Seq(States)] /\ st \in [Execs -> States]
        /\ pc \in [Execs -> Steps]
        /\ saved # None => saved \in States
    BY DEF Shape, TypeOK, Steps
  <1>n. row \in Rows /\ crashes \in Nat /\ videos \in Nat /\ Len(consumption) \in Nat
    BY DEF Shape, TypeOK, Rows
  <1>p. Place(e)
    BY DEF Shape, AllPlaced
  <1>0. Initial(0) \in States
    BY InitialState
  <1>1. ASSUME NEW raised \in {0, 1}, Begin(e, raised)
        PROVE  Thread(e)'
    <2>1. /\ pc' = [pc EXCEPT ![e] = "begun"]
          /\ row'.news = row.news /\ row'.video = row.video
          /\ UNCHANGED <<st, unsaved, saved, consumption, videos, crashes, ideas>>
      BY <1>1, <1>n DEF Begin, Goto, film, Rows
    <2> QED BY <1>t, <2>1 DEF Thread, Attached, Current, Settled, Counted, Budget, Own, Tied,
                              Newest, Before, KnownNews, KnownVideos
  <1>2. CASE Resume(e)
    <2>1. /\ pc' = [pc EXCEPT ![e] = "graph"] /\ st' = [st EXCEPT ![e] = saved]
          /\ saved # None /\ pc[e] = "begun"
          /\ UNCHANGED <<unsaved, saved, row, consumption, videos, crashes, ideas>>
      BY <1>2 DEF Resume, Goto, film
    <2>2. unsaved[e] = <<>> /\ st'[e] = saved
      BY <1>p, <1>t, <2>1 DEF Place
    <2>3. \A s \in States : Own(e, s)' => s = saved /\ Own(e, s)
      BY <1>t, <2>1, <2>2 DEF Own
    <2>4. Attached(e)'
      BY <2>1, <2>3 DEF Thread, Attached, Tied
    <2>5. Current(e)'
      BY <2>1, <2>2, <2>3 DEF Current, Newest, Leads
    <2> QED BY <2>1, <2>4, <2>5 DEF Thread, Settled, Counted, Budget, Newest, KnownNews, KnownVideos
  <1>3. CASE Fallback(e)
    <2>p. PICK n : n = row.retryCount + 1
      OBVIOUS
    <2>1. /\ pc' = [pc EXCEPT ![e] = "graph"] /\ st' = [st EXCEPT ![e] = Initial(n)]
          /\ unsaved' = [unsaved EXCEPT ![e] = <<Initial(n)>>]
          /\ saved = None /\ pc[e] = "begun" /\ ideas' = 0
          /\ UNCHANGED <<saved, consumption, videos, crashes>>
      <3>1. row'.retryCount = n
        BY <1>3, <1>n, <2>p DEF Fallback, Rows
      <3>2. st' = [st EXCEPT ![e] = Initial(n)] /\ st'[e] = Initial(n)
        BY <1>3, <1>t, <3>1 DEF Fallback
      <3> QED BY <1>3, <3>2 DEF Fallback, Goto, film
    <2>r. row'.news = row.news /\ row'.video = row.video
      BY <1>3, <1>n DEF Fallback, Rows
    <2>n. n \in Nat /\ n > 0
      BY <1>n, <2>p DEF Rows
    <2>i. Initial(n) \in States /\ Initial(n) # None
      BY <2>n, InitialState, SpecialNone
    <2>2. /\ unsaved[e] = <<>> /\ unsaved'[e] = <<Initial(n)>> /\ unsaved'[e] # <<>>
          /\ Len(unsaved'[e]) = 1 /\ unsaved'[e][1] = Initial(n)
          /\ st'[e] = Initial(n)
      BY <1>p, <1>t, <2>1 DEF Place
    <2>3. \A s \in States : Own(e, s)' => s = Initial(n)
      BY <1>t, <2>1, <2>2 DEF Own
    <2>4. Newest(e)' = Initial(n) /\ Newest(e) = None
      BY <2>1, <2>2 DEF Newest
    <2>5. Attached(e)'
      BY <2>3 DEF Attached, Tied, Initial
    <2>6. Current(e)'
      BY <2>1, <2>2, <2>3, <2>4 DEF Current, Leads, Initial
    <2>7. Settled(e)'
      BY <2>1, <2>r DEF Thread, Settled
    <2>8. Counted(Initial(n))' /\ Budget(Initial(n))'
      <3>1. Counted(None)
        BY <2>4 DEF Thread
      <3> QED BY <3>1, <1>n, <2>1, <2>n, <2>i
              DEF Counted, Budget, KnownNews, KnownVideos, Initial
    <2> QED BY <2>4, <2>5, <2>6, <2>7, <2>8
            DEF Thread, Counted, Budget, KnownNews, KnownVideos
  <1>4. CASE Save(e)
    <2>1. /\ unsaved[e] # <<>> /\ saved' = Head(unsaved[e])
          /\ unsaved' = [unsaved EXCEPT ![e] = Tail(unsaved[e])]
          /\ UNCHANGED <<pc, st, row, consumption, videos, crashes, ideas>>
      BY <1>4 DEF Save, film
    <2>2. /\ unsaved'[e] = Tail(unsaved[e]) /\ saved' = unsaved[e][1]
          /\ Len(unsaved'[e]) = Len(unsaved[e]) - 1 /\ Len(unsaved[e]) >= 1
          /\ \A i \in 1..Len(unsaved'[e]) : unsaved'[e][i] = unsaved[e][i + 1]
          /\ unsaved'[e] = <<>> <=> Len(unsaved[e]) = 1
      <3>1. unsaved'[e] = Tail(unsaved[e]) /\ saved' = unsaved[e][1]
        BY <1>t, <2>1
      <3>2. /\ Tail(unsaved[e]) \in Seq(States)
            /\ Len(Tail(unsaved[e])) = Len(unsaved[e]) - 1
            /\ \A i \in 1..Len(Tail(unsaved[e])) : Tail(unsaved[e])[i] = unsaved[e][i + 1]
        BY <1>t, <2>1, HeadTailProperties
      <3>3. Tail(unsaved[e]) = <<>> <=> Len(Tail(unsaved[e])) = 0
        BY <3>2, EmptySeq
      <3>4. Len(unsaved[e]) >= 1
        BY <1>t, <2>1
      <3> QED BY <1>t, <3>1, <3>2, <3>3, <3>4
    <2>s. \A i \in 1..Len(unsaved[e]) : unsaved[e][i] \in States /\ unsaved[e][i] # None
      BY <1>t, SpecialNone
    <2>3. \A s \in States : Own(e, s)' => Own(e, s)
      <3>1. ASSUME NEW s \in States, Own(e, s)' PROVE Own(e, s)
        <4>1. CASE s = st'[e]
          BY <2>1, <4>1 DEF Own
        <4>2. CASE \E i \in 1..Len(unsaved'[e]) : s = unsaved'[e][i]
          <5>1. PICK i \in 1..Len(unsaved'[e]) : s = unsaved'[e][i]
            BY <4>2
          <5>2. i + 1 \in 1..Len(unsaved[e]) /\ s = unsaved[e][i + 1]
            BY <1>t, <2>2, <5>1
          <5> QED BY <5>2 DEF Own
        <4>3. CASE s = saved'
          <5>1. 1 \in 1..Len(unsaved[e]) /\ s = unsaved[e][1]
            BY <1>t, <2>2, <4>3
          <5> QED BY <5>1 DEF Own
        <4> QED BY <3>1, <4>1, <4>2, <4>3 DEF Own
      <3> QED BY <3>1
    <2>4. Newest(e)' = Newest(e)
      <3>1. CASE Len(unsaved[e]) = 1
        BY <2>1, <2>2, <3>1 DEF Newest
      <3>2. CASE Len(unsaved[e]) > 1
        <4>1. Len(unsaved'[e]) \in 1..Len(unsaved'[e]) /\ Len(unsaved'[e]) + 1 = Len(unsaved[e])
          BY <1>t, <2>2, <3>2
        <4> QED BY <1>t, <2>1, <2>2, <3>2, <4>1 DEF Newest
      <3> QED BY <1>t, <2>2, <3>1, <3>2
    <2>5. unsaved'[e] # <<>> => Before(e)' = Before(e)
      <3>1. CASE Len(unsaved[e]) = 2
        <4>1. Len(unsaved'[e]) = 1 /\ Len(unsaved[e]) - 1 = 1
          BY <2>2, <3>1
        <4>2. Before(e)' = unsaved[e][1]
          <5>1. ~(Len(unsaved'[e]) > 1)
            BY <4>1
          <5>2. Before(e)' = saved'
            BY <5>1 DEF Before
          <5> QED BY <2>2, <5>2
        <4>3. Before(e) = unsaved[e][1]
          BY <3>1, <4>1 DEF Before
        <4> QED BY <4>2, <4>3
      <3>2. CASE Len(unsaved[e]) > 2
        <4>1. /\ Len(unsaved'[e]) - 1 \in 1..Len(unsaved'[e])
              /\ Len(unsaved'[e]) - 1 + 1 = Len(unsaved[e]) - 1
              /\ Len(unsaved'[e]) > 1
          BY <1>t, <2>2, <3>2
        <4> QED BY <2>2, <3>2, <4>1 DEF Before
      <3>3. unsaved'[e] # <<>> => Len(unsaved[e]) = 2 \/ Len(unsaved[e]) > 2
        <4>1. \A k \in Nat : k >= 1 /\ k # 1 => k = 2 \/ k > 2
          OBVIOUS
        <4> QED BY <1>t, <2>2, <4>1
      <3> QED BY <3>1, <3>2, <3>3
    <2>6. Attached(e)'
      BY <2>1, <2>3 DEF Thread, Attached, Tied
    <2>7. Current(e)'
      BY <2>1, <2>3, <2>4, <2>5 DEF Thread, Current, Leads
    <2>8. Settled(e)'
      BY <2>1 DEF Thread, Settled
    <2> QED BY <2>1, <2>4, <2>6, <2>7, <2>8
            DEF Thread, Counted, Budget, KnownNews, KnownVideos
  <1>5. CASE GraphEnds(e)
    <2>1. /\ pc[e] = "graph" /\ pc' = [pc EXCEPT ![e] = "ended"]
          /\ UNCHANGED <<st, unsaved, saved, row, consumption, videos, crashes, ideas>>
      BY <1>5 DEF GraphEnds, Goto, At, film
    <2> QED BY <2>1 DEF Thread, Attached, Current, Settled, Counted, Budget, Own, Tied,
                        Newest, Before, KnownNews, KnownVideos
  <1>e. pc[e] = "ended" =>
          /\ unsaved[e] = <<>> /\ st[e] = saved /\ saved # None /\ saved.next = "end"
          /\ \A s \in States : Own(e, s) => s = saved
    <2>1. ASSUME pc[e] = "ended" PROVE unsaved[e] = <<>> /\ st[e] = saved /\ st[e].next = "end"
      BY <1>p, <2>1 DEF Thread, Current, Newest, Place
    <2>2. pc[e] = "ended" => st[e] # None
      BY <1>t, SpecialNone
    <2> QED BY <1>t, <2>1, <2>2 DEF Own
  \* An execution that leaves with nothing unsaved, or all of it saved.
  <1>l. ASSUME Leave(e), unsaved' = [unsaved EXCEPT ![e] = <<>>],
               UNCHANGED <<videos, ideas>>
        PROVE  /\ pc'[e] = "idle" /\ unsaved'[e] = <<>> /\ Newest(e)' = saved'
               /\ \A s \in States : Own(e, s)' => s = Initial(0) \/ s = saved'
               /\ Current(e)'
    <2>1. pc'[e] = "idle" /\ st'[e] = Initial(0) /\ unsaved'[e] = <<>> /\ Len(unsaved'[e]) = 0
      BY <1>l, <1>t DEF Leave, Goto
    <2> QED BY <2>1 DEF Newest, Own, Current
  <1>u. pc[e] = "ended" /\ UNCHANGED unsaved => unsaved' = [unsaved EXCEPT ![e] = <<>>]
    BY <1>e, <1>t
  <1>i. Tied(Initial(0))'
    BY DEF Tied, Initial
  <1>6. CASE Complete(e)
    <2>1. /\ Leave(e) /\ unsaved' = [unsaved EXCEPT ![e] = <<>>] /\ pc[e] = "ended"
          /\ UNCHANGED <<saved, consumption, videos, crashes, ideas>>
      BY <1>6, <1>u DEF Complete, film
    <2>2. /\ row'.news = IF saved.news # None THEN saved.news ELSE row.news
          /\ row'.video = IF saved.video # None THEN saved.video ELSE row.video
      BY <1>6, <1>n, <1>e, <2>1 DEF Complete, Given, Rows
    <2>3. Attached(e)'
      BY <1>i, <1>l, <1>e, <1>t, <2>1 DEF Thread, Attached, Own, Tied
    <2>4. Settled(e)'
      BY <1>l, <1>e, <2>1, <2>2 DEF Thread, Settled
    <2>5. Newest(e)' = Newest(e)
      BY <1>l, <1>e, <2>1 DEF Newest
    <2> QED BY <1>l, <2>1, <2>3, <2>4, <2>5
            DEF Thread, Counted, Budget, KnownNews, KnownVideos
  <1>7. CASE Fail(e)
    <2>1. /\ Leave(e) /\ unsaved' = [unsaved EXCEPT ![e] = <<>>]
          /\ saved' = Newest(e)
          /\ UNCHANGED <<consumption, videos, crashes, ideas>>
      BY <1>7 DEF Fail, film, Newest
    <2>2. row'.news = row.news /\ row'.video = row.video
      BY <1>7, <1>n DEF Fail, Rows
    <2>3. Attached(e)'
      <3>1. ASSUME NEW s \in States, Own(e, s)' PROVE Tied(s)'
        <4>1. CASE s = Initial(0)
          BY <1>i, <4>1
        <4>2. CASE s = saved'
          <5>1. Own(e, s) /\ Tied(s)
            BY <2>1, <4>2, NewestOwn, SpecialNone DEF Shape, Thread, Attached
          <5> QED BY <2>1, <5>1 DEF Tied
        <4> QED BY <1>l, <2>1, <3>1, <4>1, <4>2
      <3> QED BY <3>1 DEF Attached
    <2>4. Settled(e)'
      BY <1>l, <2>1, <2>2 DEF Thread, Settled, Newest
    <2> QED BY <1>l, <2>1, <2>3, <2>4
            DEF Thread, Counted, Budget, KnownNews, KnownVideos
  <1>8. CASE Crash(e)
    <2>1. /\ Leave(e) /\ unsaved' = [unsaved EXCEPT ![e] = <<>>] /\ crashes' = crashes + 1
          /\ UNCHANGED <<saved, row, consumption, videos, ideas>>
      BY <1>8 DEF Crash, film
    <2>3. Attached(e)'
      <3>1. ASSUME NEW s \in States, Own(e, s)' PROVE Tied(s)'
        <4>1. CASE s = Initial(0)
          BY <1>i, <4>1
        <4>2. CASE s = saved'
          <5>1. Own(e, s) /\ Tied(s)
            BY <2>1, <4>2, SpecialNone DEF Own, Thread, Attached
          <5> QED BY <2>1, <5>1 DEF Tied
        <4> QED BY <1>l, <2>1, <3>1, <4>1, <4>2
      <3> QED BY <3>1 DEF Attached
    <2>4. Settled(e)'
      BY <1>l, <2>1 DEF Thread, Settled
    <2>5. videos <= crashes + 1 /\ Len(consumption) <= crashes + 1
      BY <1>n DEF Thread, Counted, KnownNews, KnownVideos
    <2>6. Counted(saved)'
      BY <1>n, <2>1, <2>5 DEF Counted, KnownNews, KnownVideos
    <2>7. crashes' # 0
      BY <1>n, <2>1
    <2> QED BY <1>l, <2>1, <2>3, <2>4, <2>6, <2>7 DEF Thread, Counted, KnownNews, KnownVideos
  <1>9. CASE FailToComplete(e)
    <2>1. /\ Leave(e) /\ unsaved' = [unsaved EXCEPT ![e] = <<>>] /\ pc[e] = "ended"
          /\ UNCHANGED <<saved, videos, crashes, ideas>>
      BY <1>9, <1>u DEF FailToComplete, CompletionFails, film
    <2>2. /\ row'.news = row.news /\ row'.video = row.video
          /\ Len(consumption') = Len(consumption)
          /\ \A c \in 1..Len(consumption) :
               \/ consumption'[c] = consumption[c]
               \/ /\ consumption[c].video = None
                  /\ consumption'[c].status = "released" /\ consumption'[c].video = None
      BY <1>9, Returned DEF Shape, Releasable
    <2>3. Tied(saved)'
      <3>1. Own(e, saved) /\ saved \in States /\ Inserted(saved) /\ Tied(saved)
        BY <1>e, <1>t, <2>1 DEF Own, Shape, TypeOK, Thread, Attached
      <3>2. saved.next = "end"
        BY <1>e, <2>1
      <3> QED BY <2>1, <2>2, <3>1, <3>2 DEF Tied, Inserted
    <2>4. Attached(e)'
      BY <1>i, <1>l, <2>1, <2>3 DEF Attached, Tied
    <2>5. Settled(e)'
      BY <1>l, <2>1, <2>2 DEF Thread, Settled
    <2>6. Newest(e)' = Newest(e)
      BY <1>l, <1>e, <2>1 DEF Newest
    <2> QED BY <1>l, <2>1, <2>2, <2>4, <2>5, <2>6
            DEF Thread, Counted, Budget, KnownNews, KnownVideos
  <1> QED BY <1>1, <1>2, <1>3, <1>4, <1>5, <1>6, <1>7, <1>8, <1>9 DEF Runner

(* Every step but the first is one of an execution that is under way, and  *)
(* every step leaves the others where they are.                            *)
Frame(e) == \A f \in Execs \ {e} : pc'[f] = pc[f]
Acts(e) == Frame(e) /\ pc[e] # "idle" /\ overlapped' = overlapped

LEMMA NodeActs ==
  ASSUME TypeOK, NEW e \in Execs, Node(e)
  PROVE  Acts(e)
  <1>f. \A t : Finish(e, t) => Frame(e) /\ overlapped' = overlapped
    BY DEF Finish, Goto, Frame, TypeOK, started
  <1> USE DEF Acts, At
  <1>1. CASE MemoryEnrichment(e) BY <1>f, <1>1 DEF MemoryEnrichment
  <1>2. CASE ClaimNews(e)        BY <1>f, <1>2 DEF ClaimNews
  <1>3. CASE GenerateIdea(e)     BY <1>f, <1>3 DEF GenerateIdea
  <1>4. CASE GenerateScript(e)   BY <1>f, <1>4 DEF GenerateScript
  <1>5. CASE ReuseVideo(e)       BY <1>f, <1>5 DEF ReuseVideo
  <1>6. CASE LookupNothing(e)    BY <1>6 DEF LookupNothing, Goto, Frame, TypeOK, started
  <1>7. CASE CreateVideo(e)      BY <1>f, <1>7 DEF CreateVideo
  <1>8. CASE ProduceVideo(e)     BY <1>f, <1>8 DEF ProduceVideo
  <1>9. ASSUME NEW b \in BOOLEAN, SelectNoNews(e, b) PROVE Acts(e)
    BY <1>f, <1>9 DEF SelectNoNews
  <1>10. ASSUME NEW b \in BOOLEAN, ValidateIdea(e, b) PROVE Acts(e)
    BY <1>f, <1>10 DEF ValidateIdea
  <1>11. ASSUME NEW b \in BOOLEAN, Publish(e, b) PROVE Acts(e)
    BY <1>f, <1>11 DEF Publish
  <1> QED BY <1>1, <1>2, <1>3, <1>4, <1>5, <1>6, <1>7, <1>8, <1>9, <1>10, <1>11 DEF Node

LEMMA RunnerActs ==
  ASSUME TypeOK, NEW e \in Execs, Place(e),
         Runner(e) \/ Complete(e) \/ FailToComplete(e)
  PROVE  Acts(e) \/ (\E raised \in {0, 1} : Begin(e, raised))
  <1>l. Leave(e) => Frame(e)
    BY DEF Leave, Goto, Frame, TypeOK
  <1> USE DEF Acts, started
  <1>2. CASE Resume(e)    BY <1>2 DEF Resume, Goto, Frame, TypeOK
  <1>3. CASE Fallback(e)  BY <1>3 DEF Fallback, Goto, Frame, TypeOK
  <1>4. CASE Save(e)      BY <1>4 DEF Save, Frame, Place
  <1>5. CASE GraphEnds(e) BY <1>5 DEF GraphEnds, At, Goto, Frame, TypeOK
  <1>6. CASE Fail(e)      BY <1>6, <1>l DEF Fail
  <1>7. CASE Crash(e)     BY <1>7, <1>l DEF Crash
  <1>8. CASE Complete(e)  BY <1>8, <1>l DEF Complete
  <1>9. CASE FailToComplete(e) BY <1>9, <1>l DEF FailToComplete, CompletionFails
  <1> QED BY <1>2, <1>3, <1>4, <1>5, <1>6, <1>7, <1>8, <1>9 DEF Runner

(* While no two executions have overlapped, the one that acts is alone.    *)
LEMMA Actor ==
  ASSUME TypeOK, AllPlaced, Sequential, NEW e \in Execs,
         Node(e) \/ Runner(e) \/ Complete(e) \/ FailToComplete(e),
         ~overlapped'
  PROVE  ~overlapped /\ Lone(e) /\ Lone(e)'
  <1>1. CASE Acts(e)
    BY <1>1 DEF Acts, Frame, Sequential, Lone
  <1>2. ASSUME NEW raised \in {0, 1}, Begin(e, raised)
        PROVE  ~overlapped /\ Lone(e) /\ Lone(e)'
    BY <1>2 DEF Begin, Goto, Lone, TypeOK
  <1> QED BY <1>1, <1>2, NodeActs, RunnerActs DEF AllPlaced

LEMMA NextSequential ==
  ASSUME Shape, Shape', Sequential, [Next]_vars
  PROVE  Sequential'
  <1>1. ASSUME NEW e \in Execs, ~overlapped',
               Node(e) \/ Runner(e) \/ Complete(e) \/ FailToComplete(e)
        PROVE  Sequential'
    <2>1. ~overlapped /\ Lone(e) /\ Lone(e)'
      BY <1>1, Actor DEF Shape
    <2>2. Thread(e)'
      BY <1>1, <2>1, NodeThread, RunnerThread DEF Sequential
    <2>3. ASSUME NEW f \in Execs \ {e}, Lone(f)' PROVE Thread(f)'
      <3>1. pc'[e] = "idle" /\ pc'[f] = "idle"
        BY <2>1, <2>3 DEF Lone
      <3>2. st'[e] = st'[f] /\ unsaved'[e] = unsaved'[f]
        BY <3>1 DEF Shape, AllPlaced, Place, Initial
      <3> QED BY <2>2, <3>1, <3>2
              DEF Thread, Attached, Current, Settled, Own, Newest, Before
    <2>4. \A f \in Execs : (Lone(f) => Thread(f))'
      BY <2>2, <2>3
    <2>5. \A f \in Execs : (Lone(f) \/ pc[f] = "idle")'
      BY <2>1 DEF Lone
    <2> QED BY <2>4, <2>5 DEF Sequential
  <1>2. CASE UNCHANGED vars
    BY <1>2 DEF vars, exec, film, started, Sequential, Lone, Thread, Attached, Current, Settled,
                Counted, Budget, Own, Tied, Leads, Newest, Before, KnownNews, KnownVideos
  <1>3. CASE overlapped'
    BY <1>3 DEF Sequential
  <1> QED BY <1>1, <1>2, <1>3, Divided

LEMMA OneAtATime == Spec => [](Shape /\ Sequential)
  BY InitShape, NextShape, InitSequential, NextSequential, PTL DEF Spec

\* Without executions nothing happens; with some, one of them is alone.
Nothing == Execs = {} => videos = 0 /\ Len(consumption) = 0 /\ row.video = None /\ ideas = 0

LEMMA InitNothing == Init => Nothing
  BY DEF Init, Nothing

LEMMA NextNothing == Nothing /\ [Next]_vars => Nothing'
  BY DEF Nothing, Next, vars, film

LEMMA SomeoneAlone ==
  ASSUME Shape, Sequential, ~overlapped, Execs # {}
  PROVE  \E e \in Execs : Lone(e) /\ Thread(e)
  BY DEF Sequential, Lone

(* With one execution at a time, a run has no more videos, and uses no     *)
(* more news items, than one and one for each execution that was lost:     *)
(* whatever fails, the thread knows of the rows that no loss has orphaned. *)
THEOREM OnlyLossDuplicatesRows == Spec => []OnlyLossDuplicates
  <1>1. ASSUME Shape, Sequential, Nothing PROVE OnlyLossDuplicates
    <2> SUFFICES ASSUME ~overlapped
                 PROVE  videos <= 1 + crashes /\ Len(consumption) <= 1 + crashes
      BY DEF OnlyLossDuplicates
    <2>1. videos \in Nat /\ crashes \in Nat /\ Len(consumption) \in Nat
      BY <1>1 DEF Shape, TypeOK
    <2>2. CASE Execs = {}
      BY <1>1, <2>1, <2>2 DEF Nothing
    <2>3. CASE Execs # {}
      <3>1. PICK e \in Execs : Counted(Newest(e))
        BY <1>1, <2>3, SomeoneAlone DEF Thread
      <3> QED BY <2>1, <3>1 DEF Counted, KnownVideos, KnownNews
    <2> QED BY <2>2, <2>3
  <1> QED BY <1>1, OneAtATime, InitNothing, NextNothing, PTL DEF Spec

(* With one execution at a time, the row of a completed run names a video  *)
(* that was produced and the news item that is used for it: the row is a   *)
(* copy of the last checkpoint, whose ids every node keeps consistent.     *)
THEOREM CompletedMatches == Spec => []CompletedRowMatches
  <1>1. ASSUME Shape, Sequential, Nothing PROVE CompletedRowMatches
    <2> SUFFICES ASSUME ~overlapped, row.video # None
                 PROVE  /\ row.video \in produced
                        /\ row.news # None => consumption[row.news].video = row.video
      BY DEF CompletedRowMatches
    <2>1. PICK e \in Execs : Settled(e) /\ Attached(e)
      BY <1>1, SomeoneAlone DEF Thread, Nothing
    <2>2. /\ saved # None /\ saved.next = "end"
          /\ saved.news = row.news /\ saved.video = row.video
      BY <2>1 DEF Settled
    <2>3. saved \in States /\ Own(e, saved) /\ Held(saved)
      BY <1>1, <2>2 DEF Shape, TypeOK, Own, Held
    <2>4. Tied(saved) /\ Formed(saved)
      BY <1>1, <2>1, <2>3 DEF Attached, Shape, AllFormed
    <2> QED BY <2>2, <2>4 DEF Tied, Formed
  <1> QED BY <1>1, OneAtATime, InitNothing, NextNothing, PTL DEF Spec

(* Unless an execution is lost or two overlap, the graph asks for fewer    *)
(* than IDEA_MAX_RETRIES ideas, or for one, over all executions of the     *)
(* run: the one count that the registry and the graph share is ahead of    *)
(* the ideas.                                                              *)
THEOREM IdeasLimited == Spec => []IdeasWithinLimit
  <1>1. ASSUME Shape, Sequential, Nothing PROVE IdeasWithinLimit
    <2> SUFFICES ASSUME crashes = 0, ~overlapped
                 PROVE  ideas <= 1 \/ ideas < IdeaMaxRetries
      BY DEF IdeasWithinLimit
    <2>1. CASE Execs = {}
      BY <1>1, <2>1 DEF Nothing
    <2>2. CASE Execs # {}
      BY <1>1, <2>2, SomeoneAlone DEF Thread, Budget
    <2> QED BY <2>1, <2>2
  <1> QED BY <1>1, OneAtATime, InitNothing, NextNothing, PTL DEF Spec

LEMMA PublishedKept ==
  ASSUME Shape, Sequential, [Next]_vars,
         NEW c \in DOMAIN consumption, MaxLag <= 2, ~overlapped,
         consumption[c].status = "published"
  PROVE  consumption'[c] = consumption[c]
  <1>1. c \in 1..Len(consumption)
    BY DEF Shape, TypeOK
  <1>2. ASSUME NEW e \in Execs, Node(e)
        PROVE  consumption'[c] = consumption[c]
    <2>1. CASE ClaimNews(e)
      BY <1>1, <2>1, Claimed DEF Shape
    <2>2. CASE CreateVideo(e)
      <3>1. pc[e] = "creating" /\ st[e].next = "persist_metadata" /\ Lone(e)
        BY <2>2 DEF CreateVideo, Shape, AllPlaced, Place, Sequential
      <3>2. Thread(e)
        BY <3>1 DEF Sequential
      <3>3. st[e].video = None /\ Tied(st[e])
        BY <3>1, <3>2, AtNode DEF Formed, Nodes
      <3>4. HasNews(e) => c # st[e].news
        BY <3>3 DEF Tied, HasNews
      <3> QED BY <1>1, <2>2, <3>4, Created DEF Shape
    <2>3. ASSUME NEW b \in BOOLEAN, Publish(e, b)
          PROVE  consumption'[c] = consumption[c]
      <3>1. \/ consumption'[c] = consumption[c]
            \/ consumption'[c] = [consumption[c] EXCEPT !.status = "published"]
        BY <1>1, <2>3, Published DEF Shape
      <3>2. consumption[c] \in Uses
        <4>1. consumption \in Seq(Uses)
          BY DEF Shape, TypeOK, Uses
        <4> QED BY <1>1, <4>1
      <3>3. [consumption[c] EXCEPT !.status = "published"] = consumption[c]
        <4>1. \A u \in Uses : u = [status |-> u.status, video |-> u.video]
          BY DEF Uses
        <4>2. consumption[c] = [status |-> "published", video |-> consumption[c].video]
          BY <3>2, <4>1
        <4> QED BY <4>2
      <3> QED BY <3>1, <3>3
    <2> QED BY <1>2, <2>1, <2>2, <2>3, NodesKeep DEF Kept, Shape
  <1>3. ASSUME NEW e \in Execs, Runner(e)
        PROVE  consumption'[c] = consumption[c]
    BY <1>3, RunnerKeeps DEF Kept, Shape
  <1>4. ASSUME NEW e \in Execs, Complete(e)
        PROVE  consumption'[c] = consumption[c]
    BY <1>4 DEF Complete
  <1>5. ASSUME NEW e \in Execs, FailToComplete(e)
        PROVE  consumption'[c] = consumption[c]
    BY <1>1, <1>5, Returned DEF Releasable, Shape
  <1>6. CASE UNCHANGED vars
    BY <1>6 DEF vars
  <1> QED BY <1>2, <1>3, <1>4, <1>5, <1>6, Divided

(* With one execution at a time, and saves that are never three supersteps *)
(* behind, a published item is never marked as less, given back or used    *)
(* for another video: no state of the thread that names it is one from     *)
(* before its video.                                                       *)
THEOREM PublishedRemains == Spec => PublishedStays
  <1>1. Shape /\ Sequential /\ [Next]_vars =>
          [\A c \in DOMAIN consumption :
             MaxLag <= 2 /\ ~overlapped /\ consumption[c].status = "published"
               => consumption'[c] = consumption[c]]_vars
    BY PublishedKept
  <1> QED BY <1>1, OneAtATime, PTL DEF Spec, PublishedStays

-----------------------------------------------------------------------------
(* KeepsThread: what the registry sees of the graph.  Executions may       *)
(* overlap here.                                                           *)

(* The newest superstep that is not saved is the state in memory, and the  *)
(* thread ends with its last superstep.                                    *)
Trail(e) == unsaved[e] # <<>> =>
  /\ unsaved[e][Len(unsaved[e])] = st[e]
  /\ \A i \in 1..Len(unsaved[e]) : i # Len(unsaved[e]) => unsaved[e][i].next # "end"

Trails == \A e \in Execs : Trail(e)

(* A node other than the lookup of persist_metadata returns a state.       *)
Returns(e) == /\ pc[e] \in {"graph", "creating"} /\ st[e].next # "end"
              /\ LookupNothing(e) \/ Finish(e, st'[e])

LEMMA NodeReturns ==
  ASSUME Shape, NEW e \in Execs, Node(e)
  PROVE  Returns(e)
  <1>f. \A t : Finish(e, t) => Finish(e, st'[e])
    BY DEF Finish, Shape, TypeOK
  <1> USE DEF Returns, At
  <1>1. CASE MemoryEnrichment(e) BY <1>f, <1>1 DEF MemoryEnrichment
  <1>2. CASE ClaimNews(e)        BY <1>f, <1>2 DEF ClaimNews
  <1>3. CASE GenerateIdea(e)     BY <1>f, <1>3 DEF GenerateIdea
  <1>4. CASE GenerateScript(e)   BY <1>f, <1>4 DEF GenerateScript
  <1>5. CASE ReuseVideo(e)       BY <1>f, <1>5 DEF ReuseVideo
  <1>6. CASE LookupNothing(e)    BY <1>6 DEF LookupNothing
  <1>7. CASE CreateVideo(e)
    BY <1>f, <1>7 DEF CreateVideo, Shape, AllPlaced, Place
  <1>8. CASE ProduceVideo(e)     BY <1>f, <1>8 DEF ProduceVideo
  <1>9. ASSUME NEW b \in BOOLEAN, SelectNoNews(e, b) PROVE Returns(e)
    BY <1>f, <1>9 DEF SelectNoNews
  <1>10. ASSUME NEW b \in BOOLEAN, ValidateIdea(e, b) PROVE Returns(e)
    BY <1>f, <1>10 DEF ValidateIdea
  <1>11. ASSUME NEW b \in BOOLEAN, Publish(e, b) PROVE Returns(e)
    BY <1>f, <1>11 DEF Publish
  <1> QED BY <1>1, <1>2, <1>3, <1>4, <1>5, <1>6, <1>7, <1>8, <1>9, <1>10, <1>11 DEF Node

(* What the other steps do to the thread and to the executions.            *)
Aside(e) == \A f \in Execs \ {e} :
              pc'[f] = pc[f] /\ st'[f] = st[f] /\ unsaved'[f] = unsaved[f]

\* An execution leaves.
Left(e) == /\ pc[e] # "idle" /\ Aside(e) /\ pc'[e] = "idle" /\ unsaved'[e] = <<>>

LEMMA Leaves ==
  ASSUME Shape, NEW e \in Execs,
         Complete(e) \/ FailToComplete(e) \/ Fail(e) \/ Crash(e)
  PROVE  Left(e)
  <1>1. pc[e] # "idle" /\ Leave(e)
    BY DEF Complete, FailToComplete, CompletionFails, Fail, Crash
  <1>2. /\ pc'[e] = "idle"
        /\ \A f \in Execs \ {e} : pc'[f] = pc[f] /\ st'[f] = st[f]
    BY <1>1 DEF Leave, Goto, Shape, TypeOK
  <1>3. unsaved' = [unsaved EXCEPT ![e] = <<>>]
    <2>1. CASE Fail(e) \/ Crash(e)
      BY <2>1 DEF Fail, Crash
    <2>2. CASE Complete(e) \/ FailToComplete(e)
      BY <2>2 DEF Complete, FailToComplete, CompletionFails, Shape, AllPlaced, Place, TypeOK
    <2> QED BY <2>1, <2>2
  <1>4. unsaved'[e] = <<>> /\ \A f \in Execs \ {e} : unsaved'[f] = unsaved[f]
    BY <1>3 DEF Shape, TypeOK
  <1> QED BY <1>1, <1>2, <1>4 DEF Left, Aside

(* A save takes the oldest of the supersteps.                              *)
LEMMA Saves ==
  ASSUME Shape, NEW e \in Execs, Save(e)
  PROVE  LET u == unsaved[e]
         IN  /\ Aside(e) /\ UNCHANGED <<pc, st, row>>
             /\ pc[e] \in {"graph", "creating"}
             /\ Len(u) \in Nat \ {0} /\ saved' = u[1] /\ saved' \in States
             /\ unsaved'[e] \in Seq(States) /\ Len(unsaved'[e]) = Len(u) - 1
             /\ \A i \in 1..Len(unsaved'[e]) : unsaved'[e][i] = u[i + 1]
  <1>1. unsaved \in [Execs -> Seq(States)] /\ unsaved[e] \in Seq(States) /\ unsaved[e] # <<>>
    BY DEF Shape, TypeOK, Save
  <1>2. /\ saved' = Head(unsaved[e]) /\ unsaved'[e] = Tail(unsaved[e])
        /\ Aside(e) /\ UNCHANGED <<pc, st, row>>
    BY <1>1 DEF Save, Aside
  <1>3. /\ Len(unsaved[e]) \in Nat \ {0} /\ Head(unsaved[e]) = unsaved[e][1]
        /\ Head(unsaved[e]) \in States
        /\ Tail(unsaved[e]) \in Seq(States) /\ Len(Tail(unsaved[e])) = Len(unsaved[e]) - 1
        /\ \A i \in 1..Len(Tail(unsaved[e])) : Tail(unsaved[e])[i] = unsaved[e][i + 1]
    BY <1>1
  <1>4. pc[e] \in {"graph", "creating"}
    BY <1>1 DEF Shape, AllPlaced, Place
  <1> QED BY <1>2, <1>3, <1>4

LEMMA NextTrails == Shape /\ Trails /\ [Next]_vars => Trails'
  <1> SUFFICES ASSUME Shape, Trails, [Next]_vars PROVE Trails'
    OBVIOUS
  <1>a. ASSUME NEW e \in Execs, Aside(e), Trail(e)' PROVE Trails'
    BY <1>a DEF Aside, Trails, Trail
  <1>t. /\ pc \in [Execs -> Steps] /\ st \in [Execs -> States]
        /\ unsaved \in [Execs -> Seq(States)]
    BY DEF Shape, TypeOK, Steps
  <1>1. ASSUME NEW e \in Execs, Finish(e, st'[e]), st[e].next # "end"
        PROVE  Trails'
    <2>1. Shape' => st'[e] \in States
      BY DEF Shape, TypeOK
    <2>2. st'[e] \in States
      BY <2>1, NextShape
    <2>3. /\ Len(unsaved'[e]) = Len(unsaved[e]) + 1 /\ Len(unsaved[e]) \in Nat
          /\ unsaved'[e][Len(unsaved[e]) + 1] = st'[e]
          /\ \A i \in 1..Len(unsaved[e]) : unsaved'[e][i] = unsaved[e][i]
          /\ Aside(e)
      <3>1. \A f \in Execs \ {e} : pc'[f] = pc[f] /\ st'[f] = st[f]
        BY <1>1, <1>t DEF Finish, Goto
      <3>2. Len(unsaved[e]) \in Nat
        BY <1>t
      <3> QED BY <1>1, <2>2, <3>1, <3>2, FinishHeld DEF Shape, Aside
    <2>4. ASSUME NEW i \in 1..Len(unsaved'[e]), i # Len(unsaved'[e])
          PROVE  unsaved'[e][i].next # "end"
      <3>1. i \in 1..Len(unsaved[e]) /\ unsaved[e] # <<>>
        BY <2>3, <2>4, <1>t
      <3> QED BY <1>1, <2>3, <3>1 DEF Trails, Trail
    <2> QED BY <1>a, <2>3, <2>4 DEF Trail
  <1>2. ASSUME NEW e \in Execs, LookupNothing(e) PROVE Trails'
    BY <1>2 DEF LookupNothing, Trails, Trail
  <1>3. ASSUME NEW e \in Execs, Left(e) PROVE Trails'
    BY <1>3, <1>a DEF Left, Trail
  <1>4. ASSUME NEW e \in Execs, NEW raised \in {0, 1}, Begin(e, raised) PROVE Trails'
    BY <1>4 DEF Begin, Trails, Trail
  <1>5. ASSUME NEW e \in Execs, Resume(e) PROVE Trails'
    <2>1. unsaved[e] = <<>> /\ unsaved' = unsaved /\ Aside(e)
      BY <1>5, <1>t DEF Resume, Goto, Shape, AllPlaced, Place, Aside
    <2> QED BY <1>a, <2>1 DEF Trail
  <1>6. ASSUME NEW e \in Execs, Fallback(e) PROVE Trails'
    <2>1. unsaved'[e] = <<st'[e]>> /\ Aside(e)
      BY <1>6, <1>t DEF Fallback, Goto, Aside
    <2>2. Len(unsaved'[e]) = 1 /\ unsaved'[e][1] = st'[e]
      BY <2>1
    <2> QED BY <1>a, <2>1, <2>2 DEF Trail
  <1>7. ASSUME NEW e \in Execs, Save(e) PROVE Trails'
    <2>1. ASSUME unsaved'[e] # <<>>
          PROVE  /\ unsaved'[e][Len(unsaved'[e])] = unsaved[e][Len(unsaved[e])]
                 /\ unsaved[e] # <<>> /\ st'[e] = st[e]
                 /\ \A i \in 1..Len(unsaved'[e]) :
                      /\ i + 1 \in 1..Len(unsaved[e])
                      /\ i # Len(unsaved'[e]) => i + 1 # Len(unsaved[e])
                      /\ unsaved'[e][i] = unsaved[e][i + 1]
      BY <1>7, <1>t, <2>1, Saves
    <2>2. Trail(e)'
      BY <2>1 DEF Trails, Trail
    <2> QED BY <1>7, <1>a, <2>2, Saves
  <1>8. ASSUME NEW e \in Execs, GraphEnds(e) PROVE Trails'
    BY <1>8 DEF GraphEnds, Trails, Trail
  <1>9. CASE UNCHANGED vars
    BY <1>9 DEF vars, exec, Trails, Trail
  <1>10. ASSUME NEW e \in Execs, Node(e) PROVE Trails'
    BY <1>1, <1>2, <1>10, NodeReturns DEF Returns
  <1> QED BY <1>3, <1>4, <1>5, <1>6, <1>7, <1>8, <1>9, <1>10, Leaves, Divided DEF Runner

LEMMA Trailing == Spec => []Trails
  <1>1. Init => Trails
    BY DEF Init, Trails, Trail
  <1> QED BY <1>1, Shaped, NextTrails, PTL DEF Spec

(* A step of one execution moves that execution alone.                     *)
LEMMA StageMoves ==
  ASSUME NEW e \in Execs, Aside(e), NEW to, Stage'[e] = to
  PROVE  Promised!Move(e, to)
  <1>1. \A f \in Execs \ {e} : Stage'[f] = Stage[f]
    BY DEF Aside, Stage, PastGraph
  <1>2. /\ Stage = [f \in Execs |-> Stage[f]]
        /\ Stage' = [f \in Execs |-> Stage'[f]]
    BY DEF Stage
  <1> HIDE DEF Stage
  <1>3. Stage' = [Stage EXCEPT ![e] = to]
    BY <1>1, <1>2
  <1> QED BY <1>3 DEF Promised!Move

LEMMA StageStays ==
  ASSUME NEW e \in Execs, Aside(e), Stage'[e] = Stage[e]
  PROVE  UNCHANGED Stage
  BY DEF Aside, Stage, PastGraph

Completed == row.status = "completed"

(* A step that leaves the checkpoints and the executions alone.            *)
LEMMA Reopens ==
  ASSUME UNCHANGED <<saved, Stage>>, Completed' => Completed
  PROVE  [Promised!ThreadNext]_(Promised!thread)
  <1>1. UNCHANGED Checkpoint
    BY DEF Checkpoint
  <1>2. CASE Completed'
    BY <1>1, <1>2 DEF Completed, Promised!thread
  <1>3. CASE ~Completed'
    <2>1. (row.status = "completed")' = FALSE
      BY <1>3 DEF Completed
    <2>2. Promised!Reopen
      BY <1>1, <2>1 DEF Promised!Reopen
    <2> QED BY <2>2 DEF Promised!ThreadNext
  <1> QED BY <1>2, <1>3

(* A node works in a thread that it does not finish.                       *)
LEMMA NodeKeepsThread ==
  ASSUME Shape, NEW e \in Execs, Node(e)
  PROVE  [Promised!ThreadNext]_(Promised!thread)
  <1>t. /\ pc \in [Execs -> Steps] /\ st \in [Execs -> States]
        /\ unsaved \in [Execs -> Seq(States)]
    BY DEF Shape, TypeOK, Steps
  <1>1. Returns(e)
    BY NodeReturns
  <1>2. Stage[e] = "working"
    BY <1>1 DEF Returns, Stage, PastGraph
  <1>3. CASE LookupNothing(e)
    <2>1. Aside(e) /\ pc'[e] = "creating" /\ UNCHANGED <<st, unsaved, saved, row>>
      BY <1>3, <1>t DEF LookupNothing, Goto, Aside
    <2>2. Stage'[e] = "working"
      BY <1>1, <2>1 DEF Returns, Stage, PastGraph
    <2> QED BY <1>2, <2>1, <2>2, StageStays, Reopens DEF Completed
  <1>4. CASE Finish(e, st'[e])
    <2>1. UNCHANGED <<saved, row>>
      BY <1>4 DEF Finish
    <2>2. unsaved'[e] # <<>> /\ pc'[e] = "graph" /\ Aside(e)
      <3>1. /\ pc'[e] = "graph" /\ \A f \in Execs \ {e} : pc'[f] = pc[f] /\ st'[f] = st[f]
        BY <1>4, <1>t DEF Finish, Goto
      <3>2. Shape' => st'[e] \in States
        BY DEF Shape, TypeOK
      <3>3. st'[e] \in States
        BY <3>2, NextShape DEF Next, Progress
      <3> QED BY <1>4, <3>1, <3>3, FinishHeld DEF Shape, Aside
    <2>3. Stage'[e] = "working"
      BY <2>2 DEF Stage, PastGraph
    <2> QED BY <1>2, <2>1, <2>2, <2>3, StageStays, Reopens DEF Completed
  <1> QED BY <1>1, <1>3, <1>4 DEF Returns

(* A save finishes the thread exactly when it saves its last superstep.    *)
LEMMA SaveKeepsThread ==
  ASSUME Shape, Trails, NEW e \in Execs, Save(e)
  PROVE  [Promised!ThreadNext]_(Promised!thread)
  <1> DEFINE u == unsaved[e]
             last == st[e].next = "end" /\ unsaved'[e] = <<>>
  <1>1. /\ Aside(e) /\ UNCHANGED <<pc, st, row>> /\ pc[e] \in {"graph", "creating"}
        /\ Len(u) \in Nat \ {0} /\ saved' = u[1] /\ saved' \in States
        /\ unsaved'[e] \in Seq(States) /\ Len(unsaved'[e]) = Len(u) - 1
    BY Saves
  <1>2. u # <<>> /\ (unsaved'[e] = <<>> <=> Len(u) = 1)
    <2>1. \A q \in Seq(States) : q = <<>> <=> Len(q) = 0
      OBVIOUS
    <2>2. u \in Seq(States)
      BY DEF Shape, TypeOK
    <2>3. Len(u) # 0 /\ (Len(u) - 1 = 0 <=> Len(u) = 1)
      BY <1>1
    <2> HIDE DEF u
    <2> QED BY <1>1, <2>1, <2>2, <2>3
  <1>3. saved'.next = "end" <=> last
    <2>1. CASE Len(u) = 1
      BY <1>1, <1>2, <2>1 DEF Trails, Trail
    <2>2. CASE Len(u) # 1
      <3>1. 1 \in 1..Len(u)
        BY <1>1
      <3> QED BY <1>1, <1>2, <2>2, <3>1 DEF Trails, Trail
    <2> QED BY <2>1, <2>2
  <1>4. saved' # None
    BY <1>1, SpecialNone
  <1>5. Stage[e] = "working"
    BY <1>1, <1>2 DEF Stage, PastGraph
  <1>6. CASE last
    <2>1. Stage'[e] = "finished" /\ Checkpoint' = "done"
      BY <1>1, <1>3, <1>4, <1>6 DEF Stage, PastGraph, Checkpoint
    <2>2. Promised!Finish(e)
      BY <1>1, <1>5, <2>1, StageMoves DEF Promised!Finish
    <2> QED BY <2>2 DEF Promised!ThreadNext
  <1>7. CASE ~last
    <2>1. Stage'[e] = "working" /\ Checkpoint' = "partial"
      BY <1>1, <1>3, <1>4, <1>7 DEF Stage, PastGraph, Checkpoint
    <2>2. Promised!Save(e)
      BY <1>1, <1>5, <2>1, StageStays DEF Promised!Save
    <2> QED BY <2>2 DEF Promised!ThreadNext
  <1> QED BY <1>6, <1>7

(* An execution that leaves takes at most its own unsaved supersteps into  *)
(* the checkpoint.                                                         *)
LEMMA LeaveKeepsThread ==
  ASSUME Shape, NEW e \in Execs,
         Complete(e) \/ FailToComplete(e) \/ Fail(e) \/ Crash(e)
  PROVE  [Promised!ThreadNext]_(Promised!thread)
  <1>1. Aside(e) /\ Stage'[e] = "away"
    BY Leaves DEF Left, Stage
  <1>2. Promised!Move(e, "away")
    BY <1>1, StageMoves
  <1>3. CASE Complete(e)
    <2>1. Stage[e] = "finished"
      BY <1>3 DEF Complete, Stage, PastGraph, Shape, AllPlaced, Place
    <2>2. UNCHANGED Checkpoint /\ (row.status = "completed")' = TRUE
      BY <1>3 DEF Complete, Checkpoint, Shape, TypeOK
    <2>3. Promised!Complete(e)
      BY <1>2, <2>1, <2>2 DEF Promised!Complete
    <2> QED BY <2>3 DEF Promised!ThreadNext
  <1>4. CASE FailToComplete(e) \/ Crash(e)
    <2>1. UNCHANGED Checkpoint
      BY <1>4 DEF FailToComplete, CompletionFails, Crash, Checkpoint
    <2>2. (row.status = "completed")' => row.status = "completed"
      BY <1>4 DEF FailToComplete, Crash, Shape, TypeOK
    <2>3. Promised!GiveUp(e)
      BY <1>2, <2>1, <2>2 DEF Promised!GiveUp
    <2> QED BY <2>3 DEF Promised!ThreadNext
  <1>5. CASE Fail(e)
    <2>1. (row.status = "completed")' => row.status = "completed"
      BY <1>5 DEF Fail, Shape, TypeOK
    <2>2. CASE unsaved[e] = <<>>
      <3>1. UNCHANGED Checkpoint
        BY <1>5, <2>2 DEF Fail, Checkpoint
      <3>2. Promised!GiveUp(e)
        BY <1>2, <2>1, <3>1 DEF Promised!GiveUp
      <3> QED BY <3>2 DEF Promised!ThreadNext
    <2>3. CASE unsaved[e] # <<>>
      <3>1. unsaved[e] \in Seq(States)
        BY DEF Shape, TypeOK
      <3>2. saved' \in States
        BY <1>5, <2>3, <3>1 DEF Fail
      <3>3. Checkpoint' \in {"partial", "done"}
        BY <3>2, SpecialNone DEF Checkpoint
      <3>4. Stage[e] = "working"
        BY <2>3 DEF Stage, PastGraph, Shape, AllPlaced, Place
      <3>5. Promised!GiveUp(e)
        BY <1>2, <2>1, <3>3, <3>4 DEF Promised!GiveUp
      <3> QED BY <3>5 DEF Promised!ThreadNext
    <2> QED BY <2>2, <2>3
  <1> QED BY <1>3, <1>4, <1>5

LEMMA NextKeepsThread ==
  Shape /\ Trails /\ [Next]_vars => [Promised!ThreadNext]_(Promised!thread)
  <1> DEFINE Goal == [Promised!ThreadNext]_(Promised!thread)
  <1> SUFFICES ASSUME Shape, Trails, [Next]_vars PROVE Goal
    OBVIOUS
  <1>t. /\ pc \in [Execs -> Steps] /\ st \in [Execs -> States]
        /\ unsaved \in [Execs -> Seq(States)]
    BY DEF Shape, TypeOK, Steps
  <1>1. ASSUME NEW e \in Execs, NEW raised \in {0, 1}, Begin(e, raised) PROVE Goal
    <2>1. Aside(e) /\ pc[e] = "idle" /\ pc'[e] = "begun" /\ UNCHANGED saved
      BY <1>1, <1>t DEF Begin, Goto, Aside
    <2>2. Stage'[e] = Stage[e]
      BY <2>1 DEF Stage
    <2>3. ~Completed'
      BY <1>1 DEF Begin, Completed, Shape, TypeOK
    <2> QED BY <2>1, <2>2, <2>3, StageStays, Reopens
  <1>2. ASSUME NEW e \in Execs, Resume(e) PROVE Goal
    <2>1. /\ Aside(e) /\ pc[e] = "begun" /\ pc'[e] = "graph" /\ st'[e] = saved
          /\ unsaved'[e] = <<>> /\ saved # None /\ UNCHANGED <<saved, row>>
      BY <1>2, <1>t DEF Resume, Goto, Aside, Shape, AllPlaced, Place
    <2>2. Stage[e] = "away" /\ UNCHANGED Checkpoint
      BY <2>1 DEF Stage, Checkpoint
    <2>3. CASE saved.next = "end"
      <3>1. Stage'[e] = "finished" /\ Checkpoint = "done"
        BY <2>1, <2>3 DEF Stage, PastGraph, Checkpoint
      <3>2. Promised!Replay(e)
        BY <2>1, <2>2, <3>1, StageMoves DEF Promised!Replay
      <3> QED BY <3>2 DEF Promised!ThreadNext
    <2>4. CASE saved.next # "end"
      <3>1. Stage'[e] = "working" /\ Checkpoint # "done"
        BY <2>1, <2>4 DEF Stage, PastGraph, Checkpoint
      <3>2. Promised!Enter(e)
        BY <2>1, <2>2, <3>1, StageMoves DEF Promised!Enter
      <3> QED BY <3>2 DEF Promised!ThreadNext
    <2> QED BY <2>3, <2>4
  <1>3. ASSUME NEW e \in Execs, Fallback(e) PROVE Goal
    <2>1. /\ Aside(e) /\ pc[e] = "begun" /\ pc'[e] = "graph" /\ saved = None
          /\ unsaved'[e] # <<>> /\ UNCHANGED saved
      BY <1>3, <1>t DEF Fallback, Goto, Aside
    <2>2. Stage[e] = "away" /\ Stage'[e] = "working"
      BY <2>1 DEF Stage, PastGraph
    <2>3. Checkpoint = "none" /\ UNCHANGED Checkpoint
      BY <2>1 DEF Checkpoint
    <2>4. (row.status = "completed")' = (row.status = "completed")
      BY <1>3 DEF Fallback, Shape, TypeOK
    <2>5. Promised!Enter(e)
      BY <2>1, <2>2, <2>3, <2>4, StageMoves DEF Promised!Enter
    <2> QED BY <2>5 DEF Promised!ThreadNext
  <1>4. ASSUME NEW e \in Execs, GraphEnds(e) PROVE Goal
    <2>1. /\ Aside(e) /\ pc[e] = "graph" /\ pc'[e] = "ended"
          /\ UNCHANGED <<st, unsaved, saved, row>>
      BY <1>4, <1>t DEF GraphEnds, At, Goto, Aside
    <2>2. Stage'[e] = Stage[e]
      BY <2>1 DEF Stage, PastGraph
    <2> QED BY <2>1, <2>2, StageStays, Reopens DEF Completed
  <1>5. CASE UNCHANGED vars
    <2>1. UNCHANGED <<Stage, Checkpoint, row.status>>
      BY <1>5 DEF vars, exec, Stage, PastGraph, Checkpoint
    <2> QED BY <2>1 DEF Promised!thread
  <1> QED BY <1>1, <1>2, <1>3, <1>4, <1>5, NodeKeepsThread, SaveKeepsThread,
             LeaveKeepsThread, Divided DEF Runner

(* The graph of a run implements the thread that the registry works with,  *)
(* for any number of executions that overlap, fail or are lost, and of     *)
(* supersteps whose save is under way.                                     *)
THEOREM ThreadKept == Spec => KeepsThread
  <1>1. Init => Promised!ThreadInit
    BY DEF Init, Promised!ThreadInit, Stage, Checkpoint
  <1> QED BY <1>1, Shaped, Trailing, NextKeepsThread, PTL
          DEF Spec, KeepsThread, Promised!ThreadSpec

(* Once the thread of a run is finished and nobody runs nodes in it, no    *)
(* execution ever does: a resumed one finds the end and replays nothing.   *)
THEOREM FinishedThreadRests == Spec => Promised!NotReworked
  <1>s. Stage = [e \in Execs |-> Stage[e]]
    BY DEF Stage
  <1>1. ASSUME Promised!ThreadNext, Promised!AtRest
        PROVE  Promised!AtRest'
    <2> USE DEF Promised!AtRest
    <2>m. ASSUME NEW e \in Execs, NEW to, Promised!Move(e, to), to # "working"
          PROVE  \A f \in Execs : Stage'[f] # "working"
      BY <1>s, <1>1, <2>m DEF Promised!Move
    <2>1. CASE Promised!Reopen
      BY <1>1, <2>1 DEF Promised!Reopen
    <2>2. ASSUME NEW e \in Execs,
                 Promised!Enter(e) \/ Promised!Save(e) \/ Promised!Finish(e)
          PROVE  FALSE
      BY <1>1, <2>2 DEF Promised!Enter, Promised!Save, Promised!Finish
    <2>3. ASSUME NEW e \in Execs,
                 Promised!Replay(e) \/ Promised!Complete(e) \/ Promised!GiveUp(e)
          PROVE  Promised!AtRest'
      BY <1>1, <2>m, <2>3 DEF Promised!Replay, Promised!Complete, Promised!GiveUp
    <2> QED BY <1>1, <2>1, <2>2, <2>3 DEF Promised!ThreadNext
  <1>2. [Promised!ThreadNext]_(Promised!thread)
        => [Promised!AtRest => Promised!AtRest']_(Promised!thread)
    BY <1>1
  <1> QED BY <1>2, ThreadKept, PTL
          DEF KeepsThread, Promised!ThreadSpec, Promised!NotReworked
=============================================================================
