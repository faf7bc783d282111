--------------------------- MODULE MCServiceCall ---------------------------
(* The behaviours of ServiceCall and those of one video of Publishing, side *)
(* by side: a behaviour takes one of the parts, the other part rests in its *)
(* first state.  What both promise eventually is asked of one run.          *)
EXTENDS ServiceCall, TLC

CONSTANTS c1, c2, p1, p2, t1, t2

VARIABLES part,
  generation, due, row, uploads, queued, publisher, todo, found, rows, nodeDone, faults

publication == <<generation, due, row, uploads, queued, publisher, todo, found, rows,
                 nodeDone, faults>>

Video == INSTANCE Publishing WITH
  Platforms <- {p1, p2}, Orders <- {<<p1, p2>>}, Tasks <- {t1, t2}, Nodes <- {},
  MaxQueue <- 1, MaxUploads <- 2, MaxFaults <- 1,
  pc <- publisher, draft <- rows

\* The calls are interchangeable: their services are taken in one order.
KindOrder == [render |-> 1, tiktok |-> 2, instagram |-> 3, youtube |-> 4]

InitParts ==
  /\ part \in {"calls", "video"}
  /\ Init /\ Video!Init
  /\ KindOrder[kind[c1]] <= KindOrder[kind[c2]]
  /\ part = "video" => \A c \in Calls : kind[c] = "render"

NextParts ==
  \/ part = "calls" /\ Next /\ UNCHANGED <<part, publication>>
  \/ part = "video" /\ Video!Next /\ UNCHANGED <<part, vars>>

InCalls(A) == part = "calls" /\ A
InVideo(A) == part = "video" /\ A

\* The fairness conditions of the two modules, each for its part.
FairParts ==
  /\ InitParts /\ [][NextParts]_<<part, vars, publication>>
  /\ \A c \in Calls : WF_vars(InCalls(Step(c))) /\ WF_vars(InCalls(PassDeadline(c)))
  /\ WF_publication(InVideo(Video!CheckDue))
  /\ \A k \in {t1, t2} : /\ WF_publication(InVideo(Video!StartTask(k)))
                         /\ WF_publication(InVideo(Video!Publish(k)))

\* Publishing's EventuallyRecorded.
EventuallyRecorded == Video!EventuallyRecorded
=============================================================================
